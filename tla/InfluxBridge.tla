---------------------------- MODULE InfluxBridge ----------------------------
(***************************************************************************)
(* The forwarder (mqtt2influx/main.py): points are gathered from the MQTT  *)
(* stream and written in batches, from a thread the loop waits for, with   *)
(* one retry and no more.                                                  *)
(*                                                                         *)
(* Points are counted: what their fate is, not what they say.  Between two *)
(* ticks of the clock the loop does everything it has to do.               *)
(***************************************************************************)
EXTENDS Integers

CONSTANTS
  BatchMax,    \* batch_max
  Interval,    \* flush_interval_s
  Timeout,     \* timeout_s of one attempt
  Retry,       \* retry_s
  Rate,        \* the most messages in a tick
  Room         \* bound: messages the client holds that are told apart

\* A tick is the second between the two attempts, and less than the interval.
ASSUME BridgeAssumption ==
  /\ {BatchMax, Interval, Timeout, Retry, Rate, Room} \subseteq Nat
  /\ Rate \in 1..BatchMax /\ Interval > 1

VARIABLES
  hangs,       \* whether the server may leave an attempt without an answer
  up,          \* the session with the broker
  inbox,       \* messages the MQTT client has received and run has not
  doing,          \* where run and the write are
  back,        \* where the flush under way returns to
  gathered,    \* pending, the points gathered
  batch,       \* points of the flush under way
  since,       \* age of last_flush
  waited,      \* time spent in the present wait
  owed         \* points gathered and neither counted written nor dropped

bridgeVars == <<hangs, up, inbox, doing, back, gathered, batch, since, waited, owed>>

Longest == IF Timeout > Retry THEN Timeout ELSE Retry

BridgeTypeOK ==
  /\ hangs \in BOOLEAN /\ up \in BOOLEAN
  /\ inbox \in 0..Room
  /\ doing \in {"listen", "first", "pause", "second", "away"}
  /\ back \in {"listen", "away"}
  /\ gathered \in 0..BatchMax - 1 /\ batch \in 0..BatchMax
  /\ since \in 0..Interval /\ waited \in 0..Longest /\ owed \in Nat
  /\ doing \in {"first", "pause", "second"} <=> batch > 0

\* A new process connects at once.
BridgeInit ==
  /\ hangs \in BOOLEAN
  /\ up = FALSE /\ inbox = 0
  /\ doing = "away" /\ back = "away"
  /\ gathered = 0 /\ batch = 0 /\ owed = 0
  /\ since = 0 /\ waited = Retry

\* The process ends, and the supervisor starts it again.
Dies ==
  /\ up' = FALSE /\ inbox' = 0
  /\ doing' = "away" /\ back' = "away"
  /\ gathered' = 0 /\ batch' = 0 /\ owed' = 0
  /\ since' = 0 /\ waited' = Retry

----------------------------------------------------------------------------
Goes(p) == doing' = p /\ waited' = 0

\* flush, with the points there are by then; nothing is written without any.
FlushEvenNothing(points, p) ==   \* mutant: a request without points
  /\ batch' = points /\ gathered' = 0 /\ since' = 0
  /\ back' = p /\ Goes("first")
Flush(points, p) ==
  /\ batch' = points /\ gathered' = 0
  /\ since' = 0
  /\ back' = p
  /\ Goes(IF points > 0 THEN "first" ELSE p)

\* When a message makes run flush; also one without a value does.
DueAlways(points) == TRUE                     \* mutant
DueWhenFull(points) == points >= BatchMax     \* mutant
IsDue(points) == points >= BatchMax \/ since >= Interval

\* One message is taken; it may have no value to store.
Message ==
  /\ doing = "listen" /\ inbox > 0
  /\ inbox' = inbox - 1
  /\ \E new \in {0, 1} :
       /\ owed' = owed + new
       /\ IF IsDue(gathered + new) THEN Flush(gathered + new, "listen")
          ELSE gathered' = gathered + new /\ UNCHANGED <<doing, back, batch, since, waited>>
  /\ UNCHANGED <<hangs, up>>

\* The session ends, and run notices when it listens: it flushes what it has,
\* what the client still holds is lost, and it waits.
Disconnect ==
  /\ up /\ up' = FALSE
  /\ UNCHANGED <<hangs, inbox, doing, back, gathered, batch, since, waited, owed>>

NoticesLoss ==
  /\ doing = "listen" /\ ~up
  /\ inbox' = 0
  /\ Flush(gathered, "away")
  /\ UNCHANGED <<hangs, up, owed>>

Connect ==
  /\ doing = "away" /\ waited >= Retry
  /\ \/ up' = TRUE /\ Goes("listen") /\ UNCHANGED <<gathered, batch, back, since>>
     \/ up' = FALSE /\ Flush(gathered, "away")
  /\ UNCHANGED <<hangs, inbox, owed>>

----------------------------------------------------------------------------
(* Writer.write *)

Attempts == doing \in {"first", "second"}

\* The batch has met its fate and is counted.
Counted == owed' = owed - batch /\ batch' = 0

AttemptOk ==
  /\ Attempts
  /\ Counted /\ Goes(back)
  /\ UNCHANGED <<hangs, up, inbox, back, gathered, since>>

\* Refused, or no answer in time - then the points may be stored all the same,
\* and the second attempt stores them over themselves.
EveryAttempt == TRUE   \* mutant: counted whenever an attempt fails
LastAttempt == doing = "second"
AttemptFails ==
  /\ Attempts /\ waited \in {0, Timeout}
  /\ owed' = owed - (IF LastAttempt THEN batch ELSE 0)
  /\ \/ doing = "first" /\ Goes("pause") /\ UNCHANGED batch
     \/ doing = "second" /\ Goes(back) /\ batch' = 0
  /\ UNCHANGED <<hangs, up, inbox, back, gathered, since>>

\* An answer that is not HTTP is no OSError: write does not count the batch.
\* run drops its session or, without one, ends and with it the process.
AttemptRaises ==
  /\ Attempts
  /\ \/ back = "listen" /\ up' = FALSE /\ inbox' = 0
        /\ owed' = owed - batch
        /\ Flush(gathered, "away")
     \/ back = "away" /\ Dies
  /\ UNCHANGED hangs

----------------------------------------------------------------------------
\* Time passes while there is nothing to do but wait, and brings messages.
Waits ==
  \/ doing = "listen" /\ up /\ inbox = 0
  \/ doing = "away" /\ waited < Retry
  \/ doing = "pause"
  \/ Attempts /\ hangs /\ waited < Timeout

Held(n) == IF ~up THEN 0 ELSE IF inbox + n > Room THEN Room ELSE inbox + n

TimePasses(n) ==
  /\ Waits
  /\ since' = IF since = Interval THEN since ELSE since + 1
  /\ inbox' = Held(n)
  /\ \/ doing = "listen" /\ UNCHANGED <<doing, waited>>
     \/ doing = "pause" /\ Goes("second")
     \/ doing \in {"first", "second", "away"} /\ waited' = waited + 1 /\ UNCHANGED doing
  /\ UNCHANGED <<hangs, up, back, gathered, batch, owed>>

Crash == Dies /\ UNCHANGED hangs

Run == \/ Message \/ NoticesLoss \/ Connect
       \/ AttemptOk \/ AttemptFails \/ AttemptRaises
       \/ \E n \in 0..Rate : TimePasses(n)

BridgeNext == Run \/ Disconnect \/ Crash

\* run goes on, and the plant keeps publishing.
BridgeFairness ==
  /\ WF_bridgeVars(Run)
  /\ WF_bridgeVars(\E n \in 1..Rate : TimePasses(n))

----------------------------------------------------------------------------
(* Properties *)

\* Every point that was gathered is gathered still, is being written, or has
\* been counted once, as written or as dropped - unless the process ended or the
\* server talked nonsense.
PointsAccounted == owed = gathered + batch

\* No point waits for ever, whatever the server and the broker do: not for more
\* points, and not in a flush.
PointsForwarded == []<>(gathered = 0) /\ []<>(batch = 0)

\* "It drops rather than grows": with a server that refuses at once the client
\* never holds more than what came during a flush and since.  This takes a flush
\* to be shorter than the interval; when the server lets attempts time out the
\* interval is over at the end of each flush, every message is a flush of its
\* own, and the client holds ever more.
BacklogBounded == ~hangs => inbox < 2 * Rate
=============================================================================
