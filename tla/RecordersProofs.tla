--------------------------- MODULE RecordersProofs ---------------------------
(***************************************************************************)
(* Proofs about the two recorders, for any days, rates, times and limits:   *)
(* the types, that the journal keeps its records and archives its files,    *)
(* and that the forwarder accounts for its points and holds back a bounded   *)
(* number of messages while the server answers.                             *)
(***************************************************************************)
EXTENDS MC_Recorders, FiniteSetTheorems, TLAPS

(***************************************************************************)
(* The inductive invariants                                                 *)
(***************************************************************************)

\* During a flush nothing is gathered, and without a session nothing is held.
Sessions ==
  /\ doing \in {"first", "pause", "second"} => gathered = 0
  /\ doing = "away" \/ (doing # "listen" /\ back = "away") => ~up /\ inbox = 0

\* What the client holds when the server answers: no more than a tick brings, or
\* what came in the tick between two attempts and has not been worked off - and
\* then the interval is not over, and the points gathered since count as well.
HeldBack ==
  ~hangs =>
    /\ doing = "listen" => inbox <= Rate \/ (inbox + gathered < 2 * Rate /\ since < Interval)
    /\ doing \in {"first", "pause"} => inbox < Rate /\ since = 0
    /\ doing = "second" => inbox < 2 * Rate /\ since <= 1

BridgeInv == PointsAccounted /\ Sessions /\ HeldBack

Nothing == {Absent, {}}

\* The file of r's own day has r.
AtHome(r) ==
  \/ log[r.day] # Absent /\ r \in log[r.day]
  \/ gz[r.day] # Absent /\ r \in gz[r.day]

Accounted(r) ==
  \/ r = pending \/ r \in buffer \/ AtHome(r)
  \/ r \in excused \/ r.day \in reopened

\* A gzip of a day that was not opened again is alone with the day's files: no
\* process writes them, there is no older .gz to lose, and what it has read is
\* what the .log still has.
Alone(z) ==
  /\ z.day # open /\ gz[z.day] \in Nothing
  /\ z.read # Absent => z.read = log[z.day]
  /\ \A y \in zips : y.day = z.day => y = z

AllAlone == \A z \in zips : z.day \notin reopened => Alone(z)

\* The buffer is that of the open file, which has its name and no complete .gz.
OpenFile ==
  /\ \A r \in buffer : r.day = open
  /\ ~linked => open \in reopened
  /\ open # Absent /\ open \notin reopened => gz[open] \in Nothing

JournalInv ==
  /\ IsFiniteSet(received)
  /\ OpenFile /\ AllAlone
  /\ \A r \in received : Accounted(r)

(***************************************************************************)
(* The forwarder *)

LEMMA BridgeBounds ==
  /\ BatchMax \in Nat /\ Interval \in Nat /\ Timeout \in Nat /\ Retry \in Nat
  /\ Rate \in Nat /\ Room \in Nat
  /\ 1 <= Rate /\ Rate <= BatchMax /\ 1 < Interval
  /\ Longest \in Nat /\ Timeout <= Longest /\ Retry <= Longest
BY BridgeAssumption DEF Longest

LEMMA BridgeInitTyped == BridgeInit => BridgeTypeOK
<1> SUFFICES ASSUME BridgeInit PROVE BridgeTypeOK
  OBVIOUS
<1>1. hangs \in BOOLEAN /\ up \in BOOLEAN
  BY DEF BridgeInit
<1> QED
  BY <1>1, BridgeBounds DEF BridgeInit, BridgeTypeOK

LEMMA DiesTyped ==
  ASSUME BridgeTypeOK, Dies, UNCHANGED hangs
  PROVE  BridgeTypeOK'
<1>1. hangs' \in BOOLEAN /\ up' \in BOOLEAN
  BY DEF Dies, BridgeTypeOK
<1> QED
  BY <1>1, BridgeBounds DEF Dies, BridgeTypeOK

LEMMA MessageTyped ==
  ASSUME BridgeTypeOK, Message
  PROVE  BridgeTypeOK'
<1>1. PICK new \in {0, 1} :
        /\ owed' = owed + new
        /\ IF IsDue(gathered + new) THEN Flush(gathered + new, "listen")
           ELSE gathered' = gathered + new /\ UNCHANGED <<doing, back, batch, since, waited>>
  BY DEF Message
<1>2. hangs' \in BOOLEAN /\ up' \in BOOLEAN
  BY DEF Message, BridgeTypeOK
<1>3. doing = "listen" /\ inbox' \in 0..Room /\ owed' \in Nat /\ batch = 0
  BY <1>1, BridgeBounds DEF Message, BridgeTypeOK
<1>4. CASE IsDue(gathered + new)
  <2>1. Flush(gathered + new, "listen")
    BY <1>1, <1>4
  <2>2. gathered \in 0..BatchMax - 1
    BY DEF BridgeTypeOK
  <2>3. gathered + new \in 0..BatchMax
    BY <2>2, BridgeBounds
  <2> QED
    BY <1>2, <1>3, <2>1, <2>3, BridgeBounds DEF Flush, Goes, BridgeTypeOK
<1>5. CASE ~IsDue(gathered + new)
  <2>1. gathered' = gathered + new /\ UNCHANGED <<doing, back, batch, since, waited>>
    BY <1>1, <1>5
  <2>2. gathered' \in 0..BatchMax - 1
    BY <1>5, <2>1, BridgeBounds DEF IsDue, BridgeTypeOK
  <2> QED
    BY <1>2, <1>3, <2>1, <2>2 DEF BridgeTypeOK
<1> QED
  BY <1>4, <1>5

\* What ends or delays a flush, and what happens while nothing else does.
LEMMA FlushTyped ==
  ASSUME BridgeTypeOK, NEW p \in {"listen", "away"},
         Flush(gathered, p), hangs' \in BOOLEAN, up' \in BOOLEAN,
         inbox' \in 0..Room, owed' \in Nat
  PROVE  BridgeTypeOK'
BY BridgeBounds DEF Flush, Goes, BridgeTypeOK

LEMMA ConnectTyped ==
  ASSUME BridgeTypeOK, Connect
  PROVE  BridgeTypeOK'
<1>1. hangs' \in BOOLEAN /\ up' \in BOOLEAN
  BY DEF Connect, BridgeTypeOK
<1>2. doing = "away" /\ inbox' \in 0..Room /\ owed' \in Nat
  BY BridgeBounds DEF Connect, BridgeTypeOK
<1>3. CASE Goes("listen") /\ UNCHANGED <<gathered, batch, back, since>>
  BY <1>1, <1>2, <1>3, BridgeBounds DEF Goes, BridgeTypeOK
<1>4. CASE Flush(gathered, "away")
  BY <1>1, <1>2, <1>4, FlushTyped
<1> QED
  BY <1>3, <1>4 DEF Connect

LEMMA AttemptTyped ==
  ASSUME BridgeTypeOK, PointsAccounted, AttemptOk \/ AttemptFails \/ AttemptRaises
  PROVE  BridgeTypeOK'
<1>1. hangs' \in BOOLEAN /\ up' \in BOOLEAN
  BY DEF AttemptOk, AttemptFails, AttemptRaises, Dies, BridgeTypeOK
<1>2. CASE AttemptOk
  <2>1. owed' \in Nat
    BY <1>2 DEF AttemptOk, Counted, PointsAccounted, BridgeTypeOK
  <2> QED
    BY <1>1, <1>2, <2>1, BridgeBounds DEF AttemptOk, Attempts, Counted, Goes, BridgeTypeOK
<1>3. CASE AttemptFails
  <2>1. owed' \in Nat
    BY <1>3 DEF AttemptFails, LastAttempt, PointsAccounted, BridgeTypeOK
  <2> QED
    BY <1>1, <1>3, <2>1, BridgeBounds DEF AttemptFails, Attempts, Goes, BridgeTypeOK
<1>4. CASE AttemptRaises /\ back = "listen"
  <2>1. owed' \in Nat /\ inbox' \in 0..Room /\ Flush(gathered, "away")
    BY <1>4, BridgeBounds DEF AttemptRaises, PointsAccounted, BridgeTypeOK
  <2> QED
    BY <1>1, <2>1, FlushTyped
<1>5. CASE AttemptRaises /\ Dies
  BY <1>5, DiesTyped DEF AttemptRaises
<1> QED
  BY <1>2, <1>3, <1>4, <1>5 DEF AttemptRaises

LEMMA TimePassesTyped ==
  ASSUME BridgeTypeOK, NEW n \in 0..Rate, TimePasses(n)
  PROVE  BridgeTypeOK'
<1>1. hangs' \in BOOLEAN /\ up' \in BOOLEAN
  BY DEF TimePasses, BridgeTypeOK
<1>2. Held(n) \in 0..Room
  BY BridgeBounds DEF Held, BridgeTypeOK
<1>3. since' \in 0..Interval /\ inbox' \in 0..Room
  BY <1>2, BridgeBounds DEF TimePasses, BridgeTypeOK
<1>4. waited' \in 0..Longest
  BY BridgeBounds DEF TimePasses, Waits, Attempts, Goes, BridgeTypeOK
<1> QED
  BY <1>1, <1>3, <1>4 DEF TimePasses, Goes, BridgeTypeOK

LEMMA BridgeTypeStep ==
  ASSUME BridgeTypeOK, PointsAccounted, BridgeNext \/ UNCHANGED bridgeVars
  PROVE  BridgeTypeOK'
<1>1. CASE NoticesLoss
  <2>1. hangs' \in BOOLEAN /\ up' \in BOOLEAN /\ inbox' \in 0..Room /\ owed' \in Nat
    BY <1>1, BridgeBounds DEF NoticesLoss, BridgeTypeOK
  <2> QED
    BY <1>1, <2>1, FlushTyped DEF NoticesLoss
<1>2. CASE Disconnect
  <2>1. hangs' \in BOOLEAN /\ up' \in BOOLEAN
    BY <1>2 DEF Disconnect, BridgeTypeOK
  <2> QED
    BY <1>2, <2>1 DEF Disconnect, BridgeTypeOK
<1>3. CASE UNCHANGED bridgeVars
  BY <1>3, Zenon DEF bridgeVars, BridgeTypeOK
<1>4. CASE Crash
  BY <1>4, DiesTyped DEF Crash
<1> QED
  BY <1>1, <1>2, <1>3, <1>4, MessageTyped, ConnectTyped, AttemptTyped, TimePassesTyped
     DEF BridgeNext, Run

\* A step of the forwarder keeps its accounts, and what it says of sessions.
LEMMA AccountsStep ==
  ASSUME BridgeTypeOK, PointsAccounted, Sessions, BridgeNext \/ UNCHANGED bridgeVars
  PROVE  PointsAccounted' /\ Sessions'
<1> USE DEF PointsAccounted, Sessions
<1>1. CASE Message
  <2>1. doing = "listen" /\ batch = 0 /\ gathered \in Nat /\ owed = gathered
    BY <1>1 DEF Message, BridgeTypeOK
  <2>2. PICK new \in {0, 1} :
          /\ owed' = owed + new
          /\ IF IsDue(gathered + new) THEN Flush(gathered + new, "listen")
             ELSE gathered' = gathered + new /\ UNCHANGED <<doing, back, batch, since, waited>>
    BY <1>1 DEF Message
  <2>3. CASE IsDue(gathered + new)
    BY <2>1, <2>2, <2>3 DEF Flush, Goes
  <2>4. CASE ~IsDue(gathered + new)
    BY <2>1, <2>2, <2>4
  <2> QED
    BY <2>3, <2>4
<1>2. CASE NoticesLoss
  BY <1>2 DEF NoticesLoss, Flush, Goes, BridgeTypeOK
<1>3. CASE Connect
  <2>1. doing = "away" /\ batch = 0 /\ inbox' = 0 /\ owed' = owed /\ gathered \in Nat
    BY <1>3 DEF Connect, BridgeTypeOK
  <2>2. CASE Goes("listen") /\ UNCHANGED <<gathered, batch, back, since>>
    BY <2>1, <2>2 DEF Goes
  <2>3. CASE up' = FALSE /\ Flush(gathered, "away")
    BY <2>1, <2>3 DEF Flush, Goes
  <2> QED
    BY <1>3, <2>2, <2>3 DEF Connect
<1>4. CASE AttemptOk
  BY <1>4 DEF AttemptOk, Attempts, Counted, Goes, BridgeTypeOK
<1>5. CASE AttemptFails
  <2>1. gathered \in Nat /\ batch \in Nat /\ back \in {"listen", "away"}
    BY DEF BridgeTypeOK
  <2>2. UNCHANGED <<up, inbox, back, gathered>>
    BY <1>5 DEF AttemptFails
  <2>3. CASE doing = "first"
    BY <1>5, <2>1, <2>2, <2>3 DEF AttemptFails, LastAttempt, Goes
  <2>4. CASE doing = "second"
    BY <1>5, <2>1, <2>2, <2>4 DEF AttemptFails, LastAttempt, Goes
  <2> QED
    BY <1>5, <2>3, <2>4 DEF AttemptFails, Attempts
<1>6. CASE AttemptRaises
  BY <1>6 DEF AttemptRaises, Attempts, Flush, Dies, Goes, BridgeTypeOK
<1>7. CASE \E n \in 0..Rate : TimePasses(n)
  BY <1>7 DEF TimePasses, Held, Goes
<1>8. CASE Disconnect
  BY <1>8 DEF Disconnect
<1>9. CASE Crash
  BY <1>9 DEF Crash, Dies
<1>10. CASE UNCHANGED bridgeVars
  BY <1>10 DEF bridgeVars
<1> QED
  BY <1>1, <1>2, <1>3, <1>4, <1>5, <1>6, <1>7, <1>8, <1>9, <1>10 DEF BridgeNext, Run

\* A step of the forwarder keeps what it holds back within bounds.
LEMMA HeldBackStep ==
  ASSUME BridgeTypeOK, Sessions, HeldBack, BridgeNext \/ UNCHANGED bridgeVars
  PROVE  HeldBack'
<1> USE BridgeBounds
<1>1. hangs' = hangs
  BY DEF BridgeNext, Run, Message, NoticesLoss, Connect, AttemptOk, AttemptFails,
         AttemptRaises, TimePasses, Disconnect, Crash, bridgeVars
<1>2. SUFFICES ASSUME ~hangs
               PROVE  HeldBack'
  BY <1>1 DEF HeldBack
<1>3. /\ doing = "listen" => inbox <= Rate \/ (inbox + gathered < 2 * Rate /\ since < Interval)
      /\ doing \in {"first", "pause"} => inbox < Rate /\ since = 0
      /\ doing = "second" => inbox < 2 * Rate /\ since <= 1
  BY <1>2 DEF HeldBack
<1>4. inbox \in Nat /\ gathered \in Nat /\ since \in 0..Interval
  BY DEF BridgeTypeOK
<1>5. CASE Message
  <2>1. doing = "listen" /\ inbox > 0 /\ inbox' = inbox - 1
    BY <1>5 DEF Message
  <2>2. PICK new \in {0, 1} :
          IF IsDue(gathered + new) THEN Flush(gathered + new, "listen")
          ELSE gathered' = gathered + new /\ UNCHANGED <<doing, back, batch, since, waited>>
    BY <1>5 DEF Message
  <2>3. CASE IsDue(gathered + new)
    <3>1. doing' \in {"listen", "first"} /\ gathered' = 0 /\ since' = 0
      BY <2>2, <2>3 DEF Flush, Goes
    <3>2. inbox' < Rate
      BY <1>3, <1>4, <2>1, <2>3 DEF IsDue
    <3> QED
      BY <1>4, <2>1, <3>1, <3>2 DEF HeldBack
  <2>4. CASE ~IsDue(gathered + new)
    BY <1>3, <1>4, <2>1, <2>2, <2>4 DEF HeldBack
  <2> QED
    BY <2>3, <2>4
<1>6. CASE NoticesLoss \/ Connect
  <2>1. doing' \in {"listen", "away", "first"} /\ inbox' = 0 /\ (doing' = "first" => since' = 0)
    BY <1>6 DEF NoticesLoss, Connect, Flush, Goes, Sessions
  <2> QED
    BY <2>1 DEF HeldBack
<1>7. CASE AttemptOk \/ AttemptFails
  <2>1. gathered = 0 /\ UNCHANGED <<inbox, gathered, since>>
    BY <1>7 DEF AttemptOk, AttemptFails, Attempts, Sessions
  <2>2. \/ doing = "first" /\ doing' = "pause"
        \/ doing \in {"first", "second"} /\ doing' \in {"listen", "away"}
    BY <1>7 DEF AttemptOk, AttemptFails, Attempts, Goes, BridgeTypeOK
  <2> QED
    BY <1>3, <1>4, <2>1, <2>2 DEF HeldBack
<1>8. CASE AttemptRaises \/ Crash
  <2>1. doing' \in {"away", "first"} /\ inbox' = 0 /\ since' = 0
    BY <1>8 DEF AttemptRaises, Crash, Dies, Flush, Goes
  <2> QED
    BY <2>1 DEF HeldBack
<1>9. CASE \E n \in 0..Rate : TimePasses(n)
  <2>1. PICK n \in 0..Rate : TimePasses(n)
    BY <1>9
  <2>2. inbox' \in Nat /\ inbox' <= inbox + n
    BY <1>4, <2>1 DEF TimePasses, Held
  <2>3. CASE doing = "listen"
    <3>1. doing' = "listen" /\ inbox = 0
      BY <2>1, <2>3 DEF TimePasses, Waits, Attempts
    <3> QED
      BY <2>2, <3>1 DEF HeldBack
  <2>4. CASE doing = "away"
    BY <2>1, <2>4 DEF TimePasses, HeldBack
  <2>5. CASE doing = "pause"
    <3>1. doing' = "second" /\ since' <= 1
      BY <1>3, <1>4, <2>1, <2>5 DEF TimePasses, Goes
    <3> QED
      BY <1>3, <1>4, <2>2, <2>5, <3>1 DEF HeldBack
  <2> QED
    BY <1>2, <2>1, <2>3, <2>4, <2>5 DEF TimePasses, Waits, Attempts
<1>10. CASE Disconnect \/ UNCHANGED bridgeVars
  <2>1. UNCHANGED <<hangs, inbox, doing, gathered, since>>
    BY <1>10 DEF Disconnect, bridgeVars
  <2> QED
    BY <2>1 DEF HeldBack
<1> QED
  BY <1>5, <1>6, <1>7, <1>8, <1>9, <1>10 DEF BridgeNext, Run

(***************************************************************************)
(* The journal                                                              *)
(***************************************************************************)

LEMMA AbsentIsAbsent ==
  /\ Absent \notin Day /\ Absent \notin Record
  /\ \A content \in Content : content # Absent => content \subseteq Record
  /\ \A content : content \subseteq Record => content \in Content /\ content # Absent
BY JournalAssumption DEF Content

\* A file that is opened or flushed has content of records.
LEMMA FileTyped ==
  ASSUME NEW content \in Content, NEW records \in SUBSET Record
  PROVE  /\ Appended(content) \in Content /\ Appended(content) # Absent
         /\ Flushed(content, records) \in Content
BY AbsentIsAbsent DEF Appended, Flushed

LEMMA RecordIsRecord ==
  /\ \A r \in Record : r.day \in Day
  /\ \A z \in Zip : z.day \in Day /\ z.read \in Content
BY DEF Record, Zip

LEMMA JournalInitTyped == JournalInit => JournalTypeOK
BY DEF JournalInit, JournalTypeOK, Content

\* The new pending record; a number more than there are records is its own.
LEMMA ComesTyped ==
  ASSUME IsFiniteSet(received), received \subseteq Record, NEW d \in Day, Comes(d)
  PROVE  /\ pending' \in Record /\ received' \subseteq Record
         /\ received' = received \cup {pending'} /\ IsFiniteSet(received')
<1> DEFINE no == Cardinality(received) + 1
<1>1. no \in 1..Lines
  <2>1. Cardinality(received) \in Nat
    BY FS_CardinalityType
  <2> QED
    BY <2>1, JournalAssumption DEF Comes
<1>2. pending' = [no |-> no, day |-> d] /\ received' = received \cup {pending'}
  BY DEF Comes
<1>3. pending' \in Record
  BY <1>1, <1>2 DEF Record
<1>4. IsFiniteSet(received')
  BY <1>2, FS_AddElement
<1> QED
  BY <1>2, <1>3, <1>4

\* A record that is complete reaches its day's file.
LEMMA CommitTyped ==
  ASSUME JournalTypeOK, NEW r \in Record, Commit(r)
  PROVE  /\ open' = r.day /\ open' \in Day /\ linked' \in BOOLEAN
         /\ log' \in [Day -> Content] /\ gz' \in [Day -> Content] /\ zips' \subseteq Zip
         /\ buffer' \cup excused' \subseteq Record /\ reopened' \cup leftover' \subseteq Day
<1>1. r.day \in Day
  BY RecordIsRecord
<1>2. CASE r.day = open
  <2>1. open' = r.day /\ linked' \in BOOLEAN /\ UNCHANGED <<gz, zips, excused, reopened, leftover>>
    BY <1>2, Zenon DEF Commit, JournalTypeOK
  <2>2. CASE buffer' = buffer \cup {r} /\ UNCHANGED log
    BY <1>1, <2>1, <2>2 DEF JournalTypeOK
  <2>3. CASE buffer' = {} /\ log' = [log EXCEPT ![open] = Flushed(@, buffer \cup {r})]
    <3>1. log[open] \in Content /\ buffer \cup {r} \in SUBSET Record
      BY <1>1, <1>2 DEF JournalTypeOK
    <3>2. Flushed(log[open], buffer \cup {r}) \in Content
      BY <3>1, FileTyped
    <3> QED
      BY <1>1, <2>1, <2>3, <3>2 DEF JournalTypeOK
  <2> QED
    BY <1>2, <2>2, <2>3 DEF Commit
<1>3. CASE r.day # open
  <2> DEFINE kept == IF open = Absent THEN log
                     ELSE [log EXCEPT ![open] = Flushed(@, buffer)]
             hands == open # Absent /\ kept[open] # Absent
             prunes == {d \in Day : Retain > 0 /\ gz[d] # Absent /\ d < r.day - Retain}
             zip == [day |-> open, no |-> r.no, read |-> Absent]
  <2>1. Roll(r) /\ buffer' = {r}
    BY <1>3 DEF Commit
  <2>2. /\ open' = r.day /\ linked' = TRUE
        /\ log' = [kept EXCEPT ![r.day] = Appended(@)]
        /\ reopened' \in {reopened, reopened \cup {r.day}}
        /\ zips' = zips \/ (hands /\ zips' = zips \cup {zip})
        /\ \/ leftover' = leftover \ {r.day}
           \/ hands /\ leftover' = (leftover \ {r.day}) \cup {open}
        /\ gz' = [d \in Day |-> IF d \in prunes THEN Absent ELSE gz[d]]
        /\ excused' = excused \cup {x \in received : x.day \in prunes}
    <3>1. open' = r.day /\ linked' = TRUE
      BY <2>1 DEF Roll
    <3>2. log' = [kept EXCEPT ![r.day] = Appended(@)]
      BY <2>1 DEF Roll
    <3>3. reopened' \in {reopened, reopened \cup {r.day}}
      BY <2>1 DEF Roll
    <3>4. zips' = zips \/ (hands /\ zips' = zips \cup {zip})
      BY <2>1 DEF Roll, Closes
    <3>5. leftover' = leftover \ {r.day} \/ (hands /\ leftover' = (leftover \ {r.day}) \cup {open})
      BY <2>1 DEF Roll, Closes
    <3>6. gz' = [d \in Day |-> IF d \in prunes THEN Absent ELSE gz[d]]
      BY <2>1 DEF Roll
    <3>7. excused' = excused \cup {x \in received : x.day \in prunes}
      BY <2>1 DEF Roll
    <3> HIDE DEF kept, hands, prunes, zip
    <3> QED
      BY <3>1, <3>2, <3>3, <3>4, <3>5, <3>6, <3>7
  <2>3. kept \in [Day -> Content]
    <3>1. CASE open = Absent
      BY <3>1 DEF JournalTypeOK
    <3>2. CASE open # Absent
      <4>1. open \in Day /\ log[open] \in Content /\ buffer \in SUBSET Record
        BY <3>2 DEF JournalTypeOK
      <4>2. Flushed(log[open], buffer) \in Content
        BY <4>1, FileTyped
      <4> QED
        BY <3>2, <4>1, <4>2 DEF JournalTypeOK
    <3> QED
      BY <3>1, <3>2
  <2>4. log' \in [Day -> Content]
    <3>1. kept[r.day] \in Content
      BY <1>1, <2>3
    <3>2. Appended(kept[r.day]) \in Content
      BY <3>1, FileTyped
    <3> HIDE DEF kept
    <3> QED
      BY <1>1, <2>2, <2>3, <3>2
  <2>5. hands => open \in Day /\ zip \in Zip
    BY DEF JournalTypeOK, Zip, Record, Content
  <2>6. gz' \in [Day -> Content]
    BY <2>2 DEF JournalTypeOK, Content
  <2> HIDE DEF kept, hands, prunes, zip
  <2> QED
    BY <1>1, <2>1, <2>2, <2>4, <2>5, <2>6 DEF JournalTypeOK
<1> QED
  BY <1>2, <1>3

LEMMA EndsTyped ==
  ASSUME JournalTypeOK, NEW l \in [Day -> Content], Ends(l), excused' \subseteq Record
  PROVE  JournalTypeOK'
BY Zenon DEF Ends, JournalTypeOK

LEMMA JournalTypeStep ==
  ASSUME JournalTypeOK, IsFiniteSet(received), JournalNext \/ UNCHANGED journalVars
  PROVE  JournalTypeOK' /\ IsFiniteSet(received')
<1>1. received \subseteq Record
  BY DEF JournalTypeOK
<1>2. ASSUME NEW d \in Day, StartJournal(d)
      PROVE  JournalTypeOK' /\ IsFiniteSet(received')
  <2>1. pending' \in Record /\ received' \subseteq Record /\ IsFiniteSet(received')
    BY <1>1, <1>2, ComesTyped DEF StartJournal
  <2>2. open = Absent /\ buffer = {} /\ linked /\ zips = {}
    BY <1>2 DEF StartJournal, JournalTypeOK
  <2> QED
    BY <1>2, <2>1, <2>2, AbsentIsAbsent DEF StartJournal, files, JournalTypeOK
<1>3. ASSUME NEW d \in Day, Write(d)
      PROVE  JournalTypeOK' /\ IsFiniteSet(received')
  <2>1. pending' \in Record /\ received' \subseteq Record /\ IsFiniteSet(received')
    BY <1>1, <1>3, ComesTyped DEF Write
  <2>2. pending \in Record /\ running' = TRUE /\ running = TRUE
    BY <1>3 DEF Write, JournalTypeOK
  <2> QED
    BY <1>3, <2>1, <2>2, CommitTyped, AbsentIsAbsent DEF Write, JournalTypeOK
<1>4. CASE EndOfInput
  <2>1. pending \in Record /\ running' = TRUE
    BY <1>4 DEF EndOfInput, JournalTypeOK
  <2> QED
    BY <1>4, <2>1, CommitTyped, AbsentIsAbsent DEF EndOfInput, JournalTypeOK
<1>5. CASE Close
  <2>1. open \in Day /\ log[open] \in Content /\ buffer \in SUBSET Record
    BY <1>5 DEF Close, JournalTypeOK
  <2>2. [log EXCEPT ![open] = Flushed(@, buffer)] \in [Day -> Content]
    BY <2>1, FileTyped DEF JournalTypeOK
  <2> QED
    BY <1>5, <2>2, EndsTyped DEF Close, Ends, JournalTypeOK
<1>6. CASE Kill
  BY <1>6, EndsTyped DEF Kill, Ends, JournalTypeOK
<1>7. ASSUME NEW z \in zips, GzipReads(z) \/ GzipEnds(z) \/ GzipFails(z)
      PROVE  JournalTypeOK' /\ IsFiniteSet(received')
  <2>1. z \in Zip /\ z.day \in Day /\ z.read \in Content /\ log[z.day] \in Content
    BY RecordIsRecord DEF JournalTypeOK
  <2>2. [z EXCEPT !.read = log[z.day]] \in Zip
    BY <2>1 DEF Zip
  <2>3. zips' \subseteq Zip /\ zips # {}
    <3>1. zips' \subseteq zips \cup {[z EXCEPT !.read = log[z.day]]}
      BY <1>7 DEF GzipReads, GzipEnds, GzipFails
    <3>2. zips \subseteq Zip
      BY DEF JournalTypeOK
    <3> QED
      BY <2>2, <3>1, <3>2, Zenon
  <2>4. gz' \in [Day -> Content] /\ log' \in [Day -> Content]
    <3> {} \in Content /\ Absent \in Content /\ gz \in [Day -> Content] /\ log \in [Day -> Content]
      BY DEF Content, JournalTypeOK
    <3>1. CASE GzipReads(z)
      BY <2>1, <3>1 DEF GzipReads
    <3>2. CASE GzipEnds(z)
      BY <2>1, <3>2 DEF GzipEnds
    <3>3. CASE GzipFails(z)
      BY <2>1, <3>3 DEF GzipFails
    <3> QED
      BY <1>7, <3>1, <3>2, <3>3
  <2>5. linked' \in BOOLEAN /\ (open = Absent => linked')
    BY <1>7, <2>1, AbsentIsAbsent DEF GzipReads, GzipEnds, GzipFails, JournalTypeOK
  <2>6. leftover' \subseteq Day
    BY <1>7, <2>1 DEF GzipReads, GzipEnds, GzipFails, JournalTypeOK
  <2>7. UNCHANGED <<running, open, pending, buffer, received, excused, reopened>>
    BY <1>7 DEF GzipReads, GzipEnds, GzipFails
  <2> QED
    BY <2>3, <2>4, <2>5, <2>6, <2>7 DEF JournalTypeOK
<1>8. CASE UNCHANGED journalVars
  BY <1>8 DEF journalVars, files, JournalTypeOK
<1> QED
  BY <1>2, <1>3, <1>4, <1>5, <1>6, <1>7, <1>8 DEF JournalNext

----------------------------------------------------------------------------
\* Opening and flushing a file lose nothing of it, and flushing a file that has
\* its name adds the records.
LEMMA FileGrows ==
  ASSUME NEW content \in Content, NEW records \in SUBSET Record
  PROVE  /\ Appended(content) # Absent
         /\ content # Absent => content \subseteq Appended(content)
         /\ content # Absent => /\ Flushed(content, records) # Absent
                                /\ content \subseteq Flushed(content, records)
         /\ linked => /\ Flushed(content, records) # Absent
                      /\ records \subseteq Flushed(content, records)
<1>1. Appended(content) \in SUBSET Record
  BY AbsentIsAbsent DEF Appended
<1>2. Appended(content) \cup records \in SUBSET Record
  BY <1>1
<1>3. Appended(content) # Absent /\ Appended(content) \cup records # Absent
  BY <1>1, <1>2, AbsentIsAbsent
<1> QED
  BY <1>3 DEF Appended, Flushed

\* The record r is added to the log or the buffer, the rest of the buffer stays
\* or goes to its file; no other file gets smaller but for the retention.
LEMMA CommitFiles ==
  ASSUME JournalTypeOK, OpenFile, NEW r \in Record, Commit(r)
  PROVE  /\ \A d \in Day : d \notin {open, r.day} => log'[d] = log[d]
         /\ \A d \in Day : log[d] # Absent => log'[d] # Absent /\ log[d] \subseteq log'[d]
         /\ \A x \in buffer \cup {r} :
              \/ x \in buffer' \/ x.day \in reopened
              \/ log'[x.day] # Absent /\ x \in log'[x.day]
         /\ \A x \in buffer' : x.day = r.day
         /\ \A d \in Day : \/ gz'[d] = gz[d]
                           \/ gz'[d] = Absent /\ \A x \in received : x.day = d => x \in excused'
         /\ excused \subseteq excused'
<1>1. r.day \in Day
  BY RecordIsRecord
<1>2. CASE r.day = open
  <2>1. UNCHANGED <<open, gz, excused>>
    BY <1>2 DEF Commit
  <2>2. log[open] \in Content /\ buffer \cup {r} \in SUBSET Record /\ open \in Day
    BY <1>1, <1>2 DEF JournalTypeOK
  <2>3. \A x \in buffer \cup {r} : x.day = open
    BY <1>2 DEF OpenFile
  <2>4. CASE buffer' = buffer \cup {r} /\ UNCHANGED log
    BY <1>2, <2>1, <2>3, <2>4
  <2>5. CASE buffer' = {} /\ log' = [log EXCEPT ![open] = Flushed(@, buffer \cup {r})]
    <3>1. log'[open] = Flushed(log[open], buffer \cup {r})
          /\ \A d \in Day : d # open => log'[d] = log[d]
      BY <2>2, <2>5 DEF JournalTypeOK
    <3>2. linked \/ open \in reopened
      BY DEF OpenFile
    <3> QED
      BY <1>2, <2>1, <2>2, <2>3, <2>5, <3>1, <3>2, FileGrows
  <2> QED
    BY <1>2, <2>4, <2>5 DEF Commit
<1>3. CASE r.day # open
  <2> DEFINE kept == IF open = Absent THEN log
                     ELSE [log EXCEPT ![open] = Flushed(@, buffer)]
             prunes == {d \in Day : Retain > 0 /\ gz[d] # Absent /\ d < r.day - Retain}
  <2>1. Roll(r) /\ buffer' = {r}
    BY <1>3 DEF Commit
  <2>2. log' = [kept EXCEPT ![r.day] = Appended(@)]
    BY <2>1 DEF Roll
  <2>3. gz' = [d \in Day |-> IF d \in prunes THEN Absent ELSE gz[d]]
    BY <2>1 DEF Roll
  <2>4. excused' = excused \cup {x \in received : x.day \in prunes}
    BY <2>1 DEF Roll
  <2>5. kept \in [Day -> Content]
    <3>1. CASE open # Absent
      <4>1. open \in Day /\ log[open] \in Content /\ buffer \in SUBSET Record
        BY <3>1 DEF JournalTypeOK
      <4>2. Flushed(log[open], buffer) \in Content
        BY <4>1, FileTyped
      <4> QED
        BY <3>1, <4>1, <4>2 DEF JournalTypeOK
    <3> QED
      BY <3>1 DEF JournalTypeOK
  <2>6. \A d \in Day : /\ d # open => kept[d] = log[d]
                       /\ d = open => kept[d] = Flushed(log[d], buffer)
    BY AbsentIsAbsent DEF JournalTypeOK
  <2>7. \A d \in Day : /\ d # r.day => log'[d] = kept[d]
                       /\ d = r.day => log'[d] = Appended(kept[d])
    <3> HIDE DEF kept
    <3> QED
      BY <2>2, <2>5
  <2> HIDE DEF kept
  <2>8. \A d \in Day : kept[d] \in Content /\ log[d] \in Content
    BY <2>5 DEF JournalTypeOK
  <2>9. buffer \in SUBSET Record /\ (open \in Day \/ buffer = {})
    BY DEF JournalTypeOK
  <2>10. \A d \in Day : log[d] # Absent => log'[d] # Absent /\ log[d] \subseteq log'[d]
    BY <1>3, <2>6, <2>7, <2>8, <2>9, FileGrows
  <2>11. \A x \in buffer :
           x.day \in reopened \/ (log'[x.day] # Absent /\ x \in log'[x.day])
    <3>1. CASE open \in Day /\ linked
      <4>1. log'[open] = Flushed(log[open], buffer)
        BY <1>3, <2>6, <2>7, <3>1
      <4> QED
        BY <2>8, <2>9, <3>1, <4>1, FileGrows DEF OpenFile
    <3> QED
      BY <2>9, <3>1 DEF OpenFile
  <2>12. \A d \in Day : \/ gz'[d] = gz[d]
                        \/ gz'[d] = Absent /\ \A x \in received : x.day = d => x \in excused'
    BY <2>3, <2>4
  <2> QED
    BY <2>1, <2>4, <2>6, <2>7, <2>10, <2>11, <2>12
<1> QED
  BY <1>2, <1>3

\* What Commit does besides: within a day nothing; with another day it opens
\* another file and may have one gzip more, which is at work on the old one.
LEMMA CommitZips ==
  ASSUME JournalTypeOK, NEW r \in Record, Commit(r)
  PROVE  /\ r.day = open => UNCHANGED <<open, linked, gz, zips, reopened, leftover>>
         /\ r.day # open =>
              /\ open' = r.day /\ linked'
              /\ reopened \subseteq reopened'
              /\ r.day \notin reopened' =>
                   gz[r.day] \in Nothing /\ \A z \in zips : z.day # r.day
              /\ \/ zips' = zips
                 \/ /\ open # Absent
                    /\ zips' = zips \cup {[day |-> open, no |-> r.no, read |-> Absent]}
<1>1. CASE r.day = open
  BY <1>1 DEF Commit
<1>2. CASE r.day # open
  <2>1. Roll(r)
    BY <1>2 DEF Commit
  <2>2. open' = r.day /\ linked'
    BY <2>1 DEF Roll
  <2>3. reopened' = IF gz[r.day] \notin Nothing \/ \E z \in zips : z.day = r.day
                    THEN reopened \cup {r.day} ELSE reopened
    BY <2>1 DEF Roll, Nothing
  <2>4. \/ zips' = zips
        \/ /\ open # Absent
           /\ zips' = zips \cup {[day |-> open, no |-> r.no, read |-> Absent]}
    BY <2>1 DEF Roll, Closes
  <2> QED
    BY <1>2, <2>2, <2>3, <2>4
<1> QED
  BY <1>1, <1>2

LEMMA CommitKeepsAlone ==
  ASSUME JournalTypeOK, OpenFile, AllAlone, NEW r \in Record, Commit(r)
  PROVE  OpenFile' /\ AllAlone'
<1> USE DEF Nothing
<1>1. r.day \in Day /\ zips \subseteq Zip /\ open' = r.day
  BY RecordIsRecord, CommitTyped DEF JournalTypeOK
<1>2. \A d \in Day : gz'[d] = gz[d] \/ gz'[d] = Absent
  BY CommitFiles
<1>3. \A x \in buffer' : x.day = open'
  BY <1>1, CommitFiles
<1>4. CASE r.day = open
  <2>1. UNCHANGED <<open, linked, gz, zips, reopened>>
    BY <1>4, CommitZips
  <2>2. OpenFile'
    BY <1>3, <2>1 DEF OpenFile
  <2>3. ASSUME NEW z \in zips, z.day \notin reopened
        PROVE  Alone(z)'
    <3>1. Alone(z) /\ z.day \in Day
      BY <1>1, <2>3, RecordIsRecord DEF AllAlone
    <3>2. log'[z.day] = log[z.day]
      BY <1>4, <3>1, CommitFiles DEF Alone
    <3> QED
      BY <2>1, <3>1, <3>2 DEF Alone
  <2> QED
    BY <2>1, <2>2, <2>3 DEF AllAlone
<1>5. CASE r.day # open
  <2> DEFINE new == [day |-> open, no |-> r.no, read |-> Absent]
  <2>1. /\ linked' /\ reopened \subseteq reopened'
        /\ r.day \notin reopened' =>
             gz[r.day] \in Nothing /\ \A z \in zips : z.day # r.day
        /\ zips' = zips \/ (open # Absent /\ zips' = zips \cup {new})
    BY <1>5, CommitZips
  <2>2. OpenFile'
    BY <1>1, <1>2, <1>3, <2>1 DEF OpenFile
  <2>3. ASSUME NEW z \in zips, z.day \notin reopened'
        PROVE  Alone(z)' /\ z.day # open
    <3>1. Alone(z) /\ z.day \in Day /\ z.day # r.day /\ z.day # open
      BY <1>1, <2>1, <2>3, RecordIsRecord DEF AllAlone, Alone
    <3>2. log'[z.day] = log[z.day]
      BY <3>1, CommitFiles
    <3>3. gz'[z.day] \in Nothing
      BY <1>2, <3>1 DEF Alone
    <3>4. \A y \in zips' : y.day = z.day => y = z
      BY <2>1, <3>1 DEF Alone
    <3> QED
      BY <1>1, <3>1, <3>2, <3>3, <3>4 DEF Alone
  <2>4. ASSUME NEW z, z = new, open # Absent, zips' = zips \cup {z}, open \notin reopened'
        PROVE  Alone(z)'
    <3>1. z.day = open /\ z.read = Absent /\ open \in Day
      BY <2>4 DEF JournalTypeOK
    <3>2. gz'[open] \in Nothing
      BY <1>2, <2>1, <2>4, <3>1 DEF OpenFile
    <3>3. \A y \in zips : y.day # open
      BY <2>1, <2>4 DEF AllAlone, Alone
    <3>4. \A y \in zips' : y.day = z.day => y = z
      BY <2>4, <3>1, <3>3
    <3> QED
      BY <1>1, <1>5, <3>1, <3>2, <3>4 DEF Alone
  <2>5. ASSUME NEW z \in zips', z.day \notin reopened'
        PROVE  Alone(z)'
    <3>1. CASE z \in zips
      BY <2>3, <2>5, <3>1
    <3>2. CASE z = new /\ open # Absent /\ zips' = zips \cup {new}
      BY <2>4, <2>5, <3>2
    <3> QED
      BY <2>1, <2>5, <3>1, <3>2
  <2> QED
    BY <2>2, <2>5 DEF AllAlone
<1> QED
  BY <1>4, <1>5

\* No record of another day, and none of this one, is lost in a commit.
LEMMA CommitAccounts ==
  ASSUME JournalTypeOK, OpenFile, pending \in Record, Commit(pending),
         \A x \in received : Accounted(x)
  PROVE  \A x \in received :
           \/ x \in buffer' \/ AtHome(x)' \/ x \in excused' \/ x.day \in reopened'
<1> SUFFICES ASSUME NEW x \in received
             PROVE  x \in buffer' \/ AtHome(x)' \/ x \in excused' \/ x.day \in reopened'
  OBVIOUS
<1>1. x.day \in Day
  BY RecordIsRecord DEF JournalTypeOK
<1>2. reopened \subseteq reopened'
  BY CommitZips
<1>3. CASE x = pending \/ x \in buffer
  BY <1>2, <1>3, CommitFiles DEF AtHome
<1>4. CASE log[x.day] # Absent /\ x \in log[x.day]
  BY <1>1, <1>4, CommitFiles DEF AtHome
<1>5. CASE gz[x.day] # Absent /\ x \in gz[x.day]
  BY <1>1, <1>5, CommitFiles DEF AtHome
<1>6. CASE x \in excused \/ x.day \in reopened
  BY <1>2, <1>6, CommitFiles
<1> QED
  BY <1>3, <1>4, <1>5, <1>6 DEF Accounted, AtHome

\* A gzip is alone with its day, or that day is excused.
LEMMA GzipKeeps ==
  ASSUME JournalTypeOK, JournalInv, NEW z \in zips,
         GzipReads(z) \/ GzipEnds(z) \/ GzipFails(z)
  PROVE  OpenFile' /\ AllAlone' /\ \A x \in received : Accounted(x)'
<1> USE DEF Nothing
<1>1. /\ z \in Zip /\ z.day \in Day /\ zips \subseteq Zip
      /\ log \in [Day -> Content] /\ gz \in [Day -> Content]
  BY RecordIsRecord DEF JournalTypeOK
<1>2. UNCHANGED <<open, pending, buffer, received, excused, reopened>>
  BY DEF GzipReads, GzipEnds, GzipFails
<1>3. \A d \in Day : d # z.day => log'[d] = log[d] /\ gz'[d] = gz[d]
  BY <1>1 DEF GzipReads, GzipEnds, GzipFails
<1>4. z.day \notin reopened => Alone(z)
  BY DEF JournalInv, AllAlone
<1>5. OpenFile'
  <2>1. open = z.day => open \in reopened
    BY <1>4 DEF Alone
  <2>2. linked' = linked \/ open = z.day
    BY DEF GzipReads, GzipEnds, GzipFails, JournalTypeOK
  <2>3. open # Absent => open \in Day
    BY DEF JournalTypeOK
  <2> QED
    BY <1>2, <1>3, <2>1, <2>2, <2>3 DEF OpenFile, JournalInv
<1>6. ASSUME NEW y \in zips, y # z, y.day \notin reopened
      PROVE  Alone(y)' /\ y.day # z.day
  <2>1. Alone(y) /\ y.day # z.day /\ y.day \in Day
    BY <1>1, <1>6, RecordIsRecord DEF Alone, AllAlone, JournalInv
  <2>2. zips' \subseteq zips \cup {[z EXCEPT !.read = log[z.day]]}
    BY DEF GzipReads, GzipEnds, GzipFails
  <2>3. [z EXCEPT !.read = log[z.day]].day = z.day
    BY <1>1 DEF Zip
  <2> QED
    BY <1>2, <1>3, <2>1, <2>2, <2>3 DEF Alone
<1>7. ASSUME NEW y, GzipReads(z), z.day \notin reopened, y = [z EXCEPT !.read = log[z.day]]
      PROVE  Alone(y)'
  <2>1. y.day = z.day /\ y.read = log[z.day] /\ log' = log /\ gz'[z.day] = {}
    BY <1>1, <1>7 DEF GzipReads, Zip
  <2>2. zips' = (zips \ {z}) \cup {y}
    BY <1>7 DEF GzipReads
  <2> QED
    BY <1>2, <1>4, <1>7, <2>1, <2>2 DEF Alone
<1>8. AllAlone'
  <2>1. \A y \in zips' : \/ y \in zips /\ y # z
                         \/ GzipReads(z) /\ y = [z EXCEPT !.read = log[z.day]]
    BY DEF GzipReads, GzipEnds, GzipFails
  <2>2. ASSUME NEW y \in zips', y.day \notin reopened'
        PROVE  Alone(y)'
    <3>1. CASE y \in zips /\ y # z
      BY <1>2, <1>6, <2>2, <3>1
    <3>2. CASE GzipReads(z) /\ y = [z EXCEPT !.read = log[z.day]]
      <4>1. y.day = z.day
        BY <1>1, <3>2 DEF Zip
      <4> QED
        BY <1>2, <1>7, <2>2, <3>2, <4>1
    <3> QED
      BY <2>1, <3>1, <3>2
  <2> QED
    BY <2>2 DEF AllAlone
<1>9. ASSUME NEW x \in received
      PROVE  Accounted(x)'
  <2>1. Accounted(x) /\ x.day \in Day
    BY RecordIsRecord DEF JournalInv, JournalTypeOK
  <2>2. CASE ~AtHome(x) \/ x.day \in reopened
    BY <1>2, <2>1, <2>2 DEF Accounted
  <2>3. CASE x.day # z.day
    BY <1>2, <1>3, <2>1, <2>3 DEF Accounted, AtHome
  <2>4. CASE AtHome(x) /\ x.day = z.day /\ z.day \notin reopened
    <3>1. Alone(z) /\ log[z.day] # Absent /\ x \in log[z.day]
      BY <1>4, <2>4 DEF AtHome, Alone
    <3>2. CASE GzipReads(z) \/ GzipFails(z)
      BY <2>4, <3>1, <3>2 DEF GzipReads, GzipFails, Accounted, AtHome
    <3>3. CASE GzipEnds(z)
      <4>1. gz'[z.day] = z.read /\ z.read = log[z.day]
        BY <1>1, <3>1, <3>3 DEF GzipEnds, Alone
      <4> QED
        BY <2>4, <3>1, <4>1 DEF Accounted, AtHome
    <3> QED
      BY <3>2, <3>3
  <2> QED
    BY <2>2, <2>3, <2>4
<1> QED
  BY <1>5, <1>8, <1>9

\* The end of the process, orderly or not.
LEMMA EndsKeeps ==
  ASSUME JournalTypeOK, JournalInv, Close \/ Kill
  PROVE  OpenFile' /\ AllAlone' /\ \A x \in received : Accounted(x)'
<1>1. OpenFile' /\ AllAlone'
  BY DEF Close, Kill, Ends, OpenFile, AllAlone
<1>2. UNCHANGED <<gz, received, reopened>> /\ excused \subseteq excused'
  BY DEF Close, Kill, Ends
<1>3. ASSUME NEW x \in received
      PROVE  Accounted(x)'
  <2>1. Accounted(x) /\ x \in Record /\ x.day \in Day /\ x # Absent
    BY RecordIsRecord, AbsentIsAbsent DEF JournalInv, JournalTypeOK
  <2>2. CASE Kill
    <3>1. log' = log /\ excused' = excused \cup buffer \cup ({pending} \ {Absent})
      BY <2>2 DEF Kill, Ends
    <3> QED
      BY <1>2, <2>1, <3>1 DEF Accounted, AtHome
  <2>3. CASE Close
    <3>1. /\ pending = Absent /\ open \in Day /\ log[open] \in Content
          /\ log \in [Day -> Content] /\ buffer \in SUBSET Record
      BY <2>3 DEF Close, JournalTypeOK
    <3>2. /\ log'[open] = Flushed(log[open], buffer)
          /\ \A d \in Day : d # open => log'[d] = log[d]
      BY <2>3, <3>1 DEF Close, Ends
    <3>3. CASE x \in buffer
      <4>1. x.day = open /\ (linked \/ open \in reopened)
        BY <3>3 DEF OpenFile, JournalInv
      <4> QED
        BY <1>2, <3>1, <3>2, <3>3, <4>1, FileGrows DEF Accounted, AtHome
    <3>4. CASE AtHome(x)
      BY <1>2, <2>1, <3>1, <3>2, <3>4, FileGrows DEF Accounted, AtHome
    <3> QED
      BY <1>2, <2>1, <3>1, <3>3, <3>4 DEF Accounted
  <2> QED
    BY <2>2, <2>3
<1> QED
  BY <1>1, <1>3

LEMMA JournalInvStep ==
  ASSUME JournalTypeOK, JournalInv, JournalNext \/ UNCHANGED journalVars
  PROVE  JournalInv'
<1>1. IsFiniteSet(received') /\ received \subseteq Record
  BY JournalTypeStep DEF JournalInv, JournalTypeOK
<1>2. SUFFICES OpenFile' /\ AllAlone' /\ \A x \in received' : Accounted(x)'
  BY <1>1 DEF JournalInv
<1>3. ASSUME NEW d \in Day, StartJournal(d)
      PROVE  OpenFile' /\ AllAlone' /\ \A x \in received' : Accounted(x)'
  <2>1. received' = received \cup {pending'} /\ pending = Absent
    BY <1>1, <1>3, ComesTyped DEF StartJournal, JournalInv, JournalTypeOK
  <2>2. UNCHANGED <<open, linked, buffer, log, gz, zips, excused, reopened>>
    BY <1>3 DEF StartJournal, files
  <2> QED
    BY <1>1, <2>1, <2>2, AbsentIsAbsent
       DEF JournalInv, OpenFile, AllAlone, Alone, Accounted, AtHome
<1>4. ASSUME NEW d \in Day, Write(d)
      PROVE  OpenFile' /\ AllAlone' /\ \A x \in received' : Accounted(x)'
  <2>1. received' = received \cup {pending'} /\ pending \in Record /\ Commit(pending)
    BY <1>1, <1>4, ComesTyped DEF Write, JournalInv, JournalTypeOK
  <2> QED
    BY <2>1, CommitKeepsAlone, CommitAccounts DEF JournalInv, Accounted
<1>5. CASE EndOfInput
  <2>1. received' = received /\ pending \in Record /\ Commit(pending)
    BY <1>5 DEF EndOfInput, JournalTypeOK
  <2> QED
    BY <2>1, CommitKeepsAlone, CommitAccounts DEF JournalInv, Accounted
<1>6. CASE Close \/ Kill
  BY <1>6, EndsKeeps DEF Close, Kill, Ends
<1>7. CASE \E z \in zips : GzipReads(z) \/ GzipEnds(z) \/ GzipFails(z)
  BY <1>7, GzipKeeps DEF GzipReads, GzipEnds, GzipFails
<1>8. CASE UNCHANGED journalVars
  BY <1>8 DEF journalVars, files, JournalInv, OpenFile, AllAlone, Alone, Accounted, AtHome
<1> QED
  BY <1>3, <1>4, <1>5, <1>6, <1>7, <1>8 DEF JournalNext

\* A log that is there is written, somebody's work, or left over.
LEMMA CommitArchives ==
  ASSUME JournalTypeOK, LogsAreArchived, NEW r \in Record, Commit(r)
  PROVE  LogsAreArchived'
<1>1. open' = r.day /\ r.day \in Day
  BY CommitTyped, RecordIsRecord
<1>2. CASE r.day = open
  <2>1. UNCHANGED <<zips, leftover>> /\ \A d \in Day : d # open => log'[d] = log[d]
    BY <1>2 DEF Commit, JournalTypeOK
  <2> QED
    BY <1>1, <1>2, <2>1 DEF LogsAreArchived
<1>3. CASE r.day # open
  <2> DEFINE kept == IF open = Absent THEN log
                     ELSE [log EXCEPT ![open] = Flushed(@, buffer)]
             new == [day |-> open, no |-> r.no, read |-> Absent]
  <2>1. Roll(r)
    BY <1>3 DEF Commit
  <2>2. \A d \in Day : /\ d # r.day => log'[d] = kept[d]
                       /\ d # open => kept[d] = log[d]
    BY <2>1, AbsentIsAbsent DEF Roll, JournalTypeOK
  <2>3. \/ open = Absent \/ kept[open] = Absent
        \/ zips' = zips \cup {new} \/ open \in leftover'
    BY <2>1 DEF Roll, Closes
  <2>4. zips \subseteq zips' /\ leftover \ {r.day} \subseteq leftover'
    BY <2>1 DEF Roll
  <2>5. new.day = open
    OBVIOUS
  <2> HIDE DEF kept, new
  <2>6. ASSUME NEW d \in Day, log'[d] # Absent, d # r.day
        PROVE  d \in leftover' \/ \E z \in zips' : z.day = d
    <3>1. CASE d = open
      BY <2>2, <2>3, <2>5, <2>6, <3>1, AbsentIsAbsent
    <3>2. CASE d # open
      BY <2>2, <2>4, <2>6, <3>2 DEF LogsAreArchived
    <3> QED
      BY <3>1, <3>2
  <2> QED
    BY <1>1, <2>6 DEF LogsAreArchived
<1> QED
  BY <1>2, <1>3

LEMMA ArchivesStep ==
  ASSUME JournalTypeOK, LogsAreArchived, JournalNext \/ UNCHANGED journalVars
  PROVE  LogsAreArchived'
<1>1. CASE \E d \in Day : StartJournal(d)
  BY <1>1 DEF StartJournal, files, LogsAreArchived
<1>2. CASE (\E d \in Day : Write(d)) \/ EndOfInput
  BY <1>2, CommitArchives DEF Write, EndOfInput, JournalTypeOK
<1>3. CASE Close \/ Kill
  BY <1>3 DEF Close, Kill, Ends, LogsAreArchived
<1>4. ASSUME NEW z \in zips, GzipReads(z) \/ GzipEnds(z) \/ GzipFails(z)
      PROVE  LogsAreArchived'
  <2>1. z \in Zip /\ z.day \in Day /\ log \in [Day -> Content] /\ open' = open
    BY <1>4, RecordIsRecord DEF JournalTypeOK, GzipReads, GzipEnds, GzipFails
  <2>2. zips \ {z} \subseteq zips' /\ leftover \subseteq leftover'
    BY <1>4 DEF GzipReads, GzipEnds, GzipFails
  <2>3. \A d \in Day : d # z.day => log'[d] = log[d]
    BY <1>4, <2>1 DEF GzipReads, GzipEnds, GzipFails
  <2>4. log'[z.day] # Absent => z.day \in leftover' \/ \E y \in zips' : y.day = z.day
    <3>1. CASE GzipReads(z)
      <4>1. [z EXCEPT !.read = log[z.day]].day = z.day
        BY <2>1 DEF Zip
      <4> QED
        BY <3>1, <4>1 DEF GzipReads
    <3>2. CASE GzipEnds(z) \/ GzipFails(z)
      BY <2>1, <3>2 DEF GzipEnds, GzipFails
    <3> QED
      BY <1>4, <3>1, <3>2
  <2> QED
    BY <2>1, <2>2, <2>3, <2>4 DEF LogsAreArchived
<1>5. CASE UNCHANGED journalVars
  BY <1>5 DEF journalVars, files, LogsAreArchived
<1> QED
  BY <1>1, <1>2, <1>3, <1>4, <1>5 DEF JournalNext

(***************************************************************************)
(* The theorems                                                             *)
(***************************************************************************)

Inv == RecordersTypeOK /\ BridgeInv /\ JournalInv /\ LogsAreArchived

LEMMA InvInit == RecordersInit => Inv
<1> SUFFICES ASSUME RecordersInit PROVE Inv
  OBVIOUS
<1>1. RecordersTypeOK
  BY BridgeInitTyped, JournalInitTyped DEF RecordersInit, RecordersTypeOK
<1>2. BridgeInv
  BY BridgeBounds DEF RecordersInit, BridgeInit, BridgeInv, PointsAccounted, Sessions, HeldBack
<1>3. JournalInv /\ LogsAreArchived
  BY FS_EmptySet DEF RecordersInit, JournalInit, JournalInv, OpenFile, AllAlone, LogsAreArchived
<1> QED
  BY <1>1, <1>2, <1>3 DEF Inv

LEMMA InvStep == Inv /\ [RecordersNext]_recordersVars => Inv'
<1> SUFFICES ASSUME Inv, [RecordersNext]_recordersVars PROVE Inv'
  OBVIOUS
<1>1. (JournalNext \/ UNCHANGED journalVars) /\ (BridgeNext \/ UNCHANGED bridgeVars)
  BY DEF RecordersNext, recordersVars
<1>2. JournalTypeOK' /\ JournalInv' /\ LogsAreArchived'
  BY <1>1, JournalTypeStep, JournalInvStep, ArchivesStep DEF Inv, RecordersTypeOK, JournalInv
<1>3. BridgeTypeOK' /\ BridgeInv'
  BY <1>1, BridgeTypeStep, AccountsStep, HeldBackStep DEF Inv, RecordersTypeOK, BridgeInv
<1> QED
  BY <1>2, <1>3 DEF Inv, RecordersTypeOK

LEMMA InvHolds == RecordersSpec => []Inv
BY InvInit, InvStep, PTL DEF RecordersSpec

\* The state of both recorders has the shape the code gives it; in particular a
\* flush never has more points than batch_max, and one without points makes no
\* request (Writer.write, run).
THEOREM Typed == RecordersSpec => []RecordersTypeOK
<1>1. Inv => RecordersTypeOK
  BY DEF Inv
<1> QED
  BY <1>1, InvHolds, PTL

\* Every point that was gathered is gathered still, being written, or counted
\* once, as written or as dropped, whichever of the places in Writer.write and
\* run the flush ends in.
THEOREM Accounting == RecordersSpec => []PointsAccounted
<1>1. Inv => PointsAccounted
  BY DEF Inv, BridgeInv
<1> QED
  BY <1>1, InvHolds, PTL

\* With a server that answers at once, what the client holds for run stays below
\* two ticks' messages, for every rate a batch can hold and every interval longer
\* than the pause between the attempts.
THEOREM Bounded == RecordersSpec => []BacklogBounded
<1>1. Inv => BacklogBounded
  <2> SUFFICES ASSUME Inv, ~hangs PROVE inbox < 2 * Rate
    BY DEF BacklogBounded
  <2>1. /\ inbox \in Nat /\ gathered \in Nat /\ Rate \in Nat /\ 1 <= Rate
        /\ doing \in {"listen", "first", "pause", "second", "away"}
    BY BridgeBounds DEF Inv, RecordersTypeOK, BridgeTypeOK
  <2>2. doing = "away" => inbox = 0
    BY DEF Inv, BridgeInv, Sessions
  <2> QED
    BY <2>1, <2>2 DEF Inv, BridgeInv, HeldBack
<1> QED
  BY <1>1, InvHolds, PTL

\* No record is lost but to a kill, the retention, or a day that was opened again
\* while or after it was compressed, whatever gzip, the clock and the supervisor
\* do (Journal.write, _roll and _compress).
THEOREM Kept == RecordersSpec => []RecordsKept
<1>1. Inv => RecordsKept
  <2> SUFFICES ASSUME Inv, NEW r \in received, AtHome(r) PROVE r \in InFiles
    BY DEF Inv, JournalInv, Accounted, RecordsKept
  <2>1. r.day \in Day
    BY RecordIsRecord DEF Inv, RecordersTypeOK, JournalTypeOK
  <2> QED
    BY <2>1 DEF AtHome, InFiles
<1> QED
  BY <1>1, InvHolds, PTL

\* A .log that nobody writes and no gzip is at work on was left by the end of the
\* process or by a gzip that failed.
THEOREM Archived == RecordersSpec => []LogsAreArchived
<1>1. Inv => LogsAreArchived
  BY DEF Inv
<1> QED
  BY <1>1, InvHolds, PTL
=============================================================================
