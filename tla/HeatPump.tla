------------------------------ MODULE HeatPump ------------------------------
(***************************************************************************)
(* The heat pump client (heatctl/heatpump.py): several asyncio tasks share *)
(* one Modbus link, one lock, one cache of the unit's registers and one    *)
(* hourly write budget.  A register is the set of its bits that are 1.     *)
(*                                                                         *)
(* Steps are the stretches of code between two awaits that can suspend.    *)
(* heatpump.allow_writes is taken as on: off, no request gets past the     *)
(* first line of write_register.                                           *)
(***************************************************************************)
EXTENDS Integers, Sequences, FiniteSets

CONSTANTS
  Reg,        \* configuration registers
  Bit,        \* bits of a register
  Task,       \* tasks that write: the control loop, and one per MQTT command
  Poll,       \* the task that polls (HeatPump.run)
  Unread,     \* a register missing from the cache
  Ops,        \* the writes that may be asked for, see Request
  Chunks,     \* transactions a read of the whole space takes
  ChunkOf,    \* ... and the one that covers a register
  CtrlBlock,  \* registers of the control block 0x0000..0x0038
  FullEvery,  \* poll cycles between two reads of the whole space
  Hard,       \* write_hard_limit_per_hour
  Panel,      \* the bits that may be changed at the unit's own panel
  Lossy       \* whether an answer may be lost after the unit stored a value

Value == SUBSET Bit
Op == [reg : Reg, whole : BOOLEAN, on : Value, off : Value]
Client == Task \cup {Poll}

ASSUME ConstantsAssumption ==
  /\ Reg # {}
  /\ Task # {} /\ IsFiniteSet(Task)
  /\ Poll \notin Task
  /\ Unread \notin Value
  /\ Ops \subseteq Op
  /\ Chunks \in Nat \ {0}
  /\ ChunkOf \in [Reg -> 1..Chunks]
  /\ CtrlBlock \subseteq Reg
  /\ FullEvery \in Nat \ {0}
  /\ Hard \in Nat
  /\ Panel \subseteq Bit
  /\ Lossy \in BOOLEAN

VARIABLES
  dev,        \* the registers in the unit's flash
  config,     \* HeatPump.config: the cache, Unread for a missing key
  seen,       \* HeatPump._config_seen
  buf,        \* what the full read in progress has collected so far
  poll,       \* "sleep", "status", "full", "ctrl", or "publish" (the diff)
  chunk,      \* chunk the full read is waiting for
  since,      \* poll cycles since the last full read, up to FullEvery
  queue,      \* the asyncio lock of _txn: its head holds the bus
  pc,         \* a writer: "idle", "admitted" (past the budget) or "queued"
  want,       \* the register and raw value an admitted writer will write
  writes,     \* timestamps in HeatPump._writes, as their number
  disputed    \* for the properties: see Track

pollVars == <<buf, poll, chunk, since, seen>>
taskVars == <<pc, want>>
vars == <<dev, config, pollVars, queue, taskVars, writes>>

NoBuf == [r \in Reg |-> Unread]

\* The locals of a writer that is not running.
NoWant == CHOOSE w \in [reg : Reg, val : Value] : TRUE

TypeOK ==
  /\ dev \in [Reg -> Value]
  /\ config \in [Reg -> Value \cup {Unread}]
  /\ seen \in BOOLEAN
  /\ buf \in [Reg -> Value \cup {Unread}]
  /\ poll \in {"sleep", "status", "full", "ctrl", "publish"}
  /\ chunk \in 1..Chunks
  /\ since \in 0..FullEvery
  /\ queue \in Seq(Client)
  /\ pc \in [Task -> {"idle", "admitted", "queued"}]
  /\ want \in [Task -> [reg : Reg, val : Value]]
  /\ writes \in Nat

Init ==
  /\ dev \in [Reg -> Value]
  /\ config = NoBuf
  /\ seen = FALSE
  /\ buf = NoBuf
  /\ poll = "sleep"
  /\ chunk = 1
  /\ since = 0
  /\ queue = <<>>
  /\ pc = [t \in Task |-> "idle"]
  /\ want = [t \in Task |-> NoWant]
  /\ writes = 0

----------------------------------------------------------------------------
(* Writers *)

\* The raw value an operation asks for: a whole value (write_named), or the
\* cached register with bits set or cleared (set_power, set_control_bit).
TargetOnlyTheBit(op, cur) == op.on   \* mutant: the register rebuilt, not read
Target(op, cur) == IF op.whole THEN op.on ELSE (cur \ op.off) \cup op.on

\* Read-modify-write refuses a register it has never read.
CanCompute(op) == op.whole \/ config[op.reg] # Unread

\* write_register drops a write of what the cache already holds.
IsNoOp(op) == config[op.reg] = Target(op, config[op.reg])

\* Number of writers the budget has let through and that have not finished.
InFlight == {t \in Task : pc[t] # "idle"}

WithinHardLimitOffByOne == writes <= Hard   \* mutant
WithinHardLimit == writes < Hard

\* A command starts: the new value, the no-op check and the count of the last
\* hour are all taken here, before anything suspends.
Request(t, op) ==
  /\ pc[t] = "idle"
  /\ CanCompute(op)
  /\ ~IsNoOp(op)
  /\ WithinHardLimit
  /\ pc' = [pc EXCEPT ![t] = "admitted"]
  /\ want' = [want EXCEPT ![t] =
                [reg |-> op.reg, val |-> Target(op, config[op.reg])]]
  /\ UNCHANGED <<dev, config, pollVars, queue, writes>>

\* _connect has a link, the task waits for the lock of _txn.
Enqueue(t) ==
  /\ pc[t] = "admitted"
  /\ pc' = [pc EXCEPT ![t] = "queued"]
  /\ queue' = Append(queue, t)
  /\ UNCHANGED <<dev, config, pollVars, want, writes>>

NoConnection(t) ==
  /\ pc[t] = "admitted"
  /\ pc' = [pc EXCEPT ![t] = "idle"]
  /\ want' = [want EXCEPT ![t] = NoWant]
  /\ UNCHANGED <<dev, config, pollVars, queue, writes>>

Holds(c) == queue # <<>> /\ Head(queue) = c

\* A transaction of t ends, in whichever way: the lock is released.
EndWriteLeakingLock(t) ==   \* mutant: the lock is kept
  /\ pc[t] = "queued"
  /\ Holds(t)
  /\ pc' = [pc EXCEPT ![t] = "idle"]
  /\ want' = [want EXCEPT ![t] = NoWant]
  /\ UNCHANGED <<pollVars, queue>>
EndWrite(t) ==
  /\ pc[t] = "queued"
  /\ Holds(t)
  /\ queue' = Tail(queue)
  /\ pc' = [pc EXCEPT ![t] = "idle"]
  /\ want' = [want EXCEPT ![t] = NoWant]
  /\ UNCHANGED pollVars

Stored(t) == [dev EXCEPT ![want[t].reg] = want[t].val]

\* The unit answers: count the flash cycle and update the cache.
WriteOk(t) ==
  /\ EndWrite(t)
  /\ dev' = Stored(t)
  /\ config' = [config EXCEPT ![want[t].reg] = want[t].val]
  /\ writes' = writes + 1

\* The unit stored the value but the answer was lost: neither happens.
WriteLost(t) ==
  /\ Lossy
  /\ EndWrite(t)
  /\ dev' = Stored(t)
  /\ UNCHANGED <<config, writes>>

WriteFailedButCached(t) ==   \* mutant: the cache is set whatever the answer
  /\ EndWrite(t)
  /\ config' = [config EXCEPT ![want[t].reg] = want[t].val]
  /\ UNCHANGED <<dev, writes>>
WriteFailed(t) ==
  /\ EndWrite(t)
  /\ UNCHANGED <<dev, config, writes>>

\* A write older than an hour leaves the window (writes_last_hour).
Age ==
  /\ writes > 0
  /\ writes' = writes - 1
  /\ UNCHANGED <<dev, config, pollVars, queue, taskVars>>

----------------------------------------------------------------------------
(* The polling task: status block, then everything or the control block *)

\* Every cycle begins with the status block, which holds no setting.
PollWake ==
  /\ poll = "sleep"
  /\ poll' = "status"
  /\ queue' = Append(queue, Poll)
  /\ UNCHANGED <<dev, config, buf, chunk, since, seen, taskVars, writes>>

DueFull == ~seen \/ since = FullEvery

\* The status answer; the next transaction queues behind whoever waits.
StatusReply ==
  /\ poll = "status"
  /\ Holds(Poll)
  /\ queue' = Append(Tail(queue), Poll)
  /\ poll' = IF DueFull THEN "full" ELSE "ctrl"
  /\ chunk' = 1
  /\ UNCHANGED <<dev, config, buf, since, seen, taskVars, writes>>

Elapsed == IF since < FullEvery THEN since + 1 ELSE since

\* An exception, an error answer or a short one: what was read is discarded.
ReadFailed ==
  /\ poll \in {"status", "full", "ctrl"}
  /\ Holds(Poll)
  /\ queue' = Tail(queue)
  /\ poll' = "sleep"
  /\ buf' = NoBuf
  /\ since' = Elapsed
  /\ UNCHANGED <<dev, config, chunk, seen, taskVars, writes>>

\* What the full read holds once the current chunk is answered.
Collected == [r \in Reg |-> IF ChunkOf[r] = chunk THEN dev[r] ELSE buf[r]]

MoreChunksOffByOne == chunk <= Chunks   \* mutant
MoreChunks == chunk < Chunks

ChunkReply ==
  /\ poll = "full"
  /\ MoreChunks
  /\ Holds(Poll)
  /\ queue' = Append(Tail(queue), Poll)
  /\ buf' = Collected
  /\ chunk' = chunk + 1
  /\ UNCHANGED <<dev, config, poll, since, seen, taskVars, writes>>

\* _diff_config: silent until the first read has been installed.
HasDiff == seen /\ \E r \in Reg : config[r] # Unread /\ config[r] # Collected[r]

\* The read replaces the whole cache (self.config = cfg).
InstallAsMissingOnly(cfg) ==   \* mutant: what is cached already is kept
  /\ config' = [r \in Reg |-> IF config[r] = Unread THEN cfg[r] ELSE config[r]]
  /\ seen' = TRUE
  /\ buf' = NoBuf
  /\ poll' = "sleep"
  /\ since' = 0
InstallAs(cfg) ==
  /\ config' = cfg
  /\ seen' = TRUE
  /\ buf' = NoBuf
  /\ poll' = "sleep"
  /\ since' = 0

\* The last chunk: differences are published, one await each, before the
\* cache is replaced; with none to publish it is replaced at once.
LastChunkReply ==
  /\ poll = "full"
  /\ chunk = Chunks
  /\ Holds(Poll)
  /\ queue' = Tail(queue)
  /\ IF HasDiff
       THEN /\ poll' = "publish"
            /\ buf' = Collected
            /\ UNCHANGED <<config, since, seen>>
       ELSE InstallAs(Collected)
  /\ UNCHANGED <<dev, chunk, taskVars, writes>>

DiffPublished ==
  /\ poll = "publish"
  /\ InstallAs(buf)
  /\ UNCHANGED <<dev, chunk, queue, taskVars, writes>>

\* The control block is one transaction and goes into the cache at once.
CtrlReply ==
  /\ poll = "ctrl"
  /\ Holds(Poll)
  /\ queue' = Tail(queue)
  /\ config' = [r \in Reg |-> IF r \in CtrlBlock THEN dev[r] ELSE config[r]]
  /\ poll' = "sleep"
  /\ since' = Elapsed
  /\ UNCHANGED <<dev, buf, chunk, seen, taskVars, writes>>

----------------------------------------------------------------------------
(* The unit's own control panel *)

PanelChange(r, v) ==
  /\ v # dev[r] /\ v \ Panel = dev[r] \ Panel
  /\ dev' = [dev EXCEPT ![r] = v]
  /\ UNCHANGED <<config, pollVars, queue, taskVars, writes>>

----------------------------------------------------------------------------

WriteReply(t) == WriteOk(t) \/ WriteLost(t) \/ WriteFailed(t)

PollReply == StatusReply \/ ChunkReply \/ LastChunkReply \/ CtrlReply \/ ReadFailed

Next ==
  \/ \E t \in Task :
       \/ \E op \in Ops : Request(t, op)
       \/ Enqueue(t) \/ NoConnection(t) \/ WriteReply(t)
  \/ Age
  \/ PollWake \/ PollReply \/ DiffPublished
  \/ \E r \in Reg, v \in Value : PanelChange(r, v)

\* Awaits end: asyncio resumes a task that is ready, and every transaction is
\* answered or times out.  Nothing obliges an operator, the panel or the clock
\* of the write window.
Fairness ==
  /\ \A t \in Task : WF_vars(Enqueue(t) \/ NoConnection(t)) /\ WF_vars(WriteReply(t))
  /\ WF_vars(PollWake) /\ WF_vars(PollReply) /\ WF_vars(DiffPublished)

Spec == Init /\ [][Next]_vars
FairSpec == Spec /\ Fairness

----------------------------------------------------------------------------
(* Properties *)

\* The hard limit is checked before the awaits and counted after the answer,
\* so commands under way can pass it - but by no more than the tasks there are
\* besides the one that was let through last (_check_budget, write_register).
OvershootBounded ==
  writes + Cardinality(InFlight) <= Hard + Cardinality(Task) - 1

Named(r) == UNION {op.on \cup op.off : op \in {o \in Ops : o.reg = r}}

\* Bits that heatctl has no name for, in registers it only writes bit by bit.
Foreign(r) == IF \A op \in Ops : op.reg = r => ~op.whole THEN Bit \ Named(r) ELSE {}

\* What the client holds of a register: in the cache, in a read and in a command
\* under way.
Copies(r) ==
  ({config[r], buf[r]} \ {Unread})
    \cup {want[t].val : t \in {u \in Task : pc[u] # "idle" /\ want[u].reg = r}}
Agreed == [r \in Reg |->
  {b \in Foreign(r) : \A copy \in Copies(r) : b \in copy <=> b \in dev[r]}]

\* The foreign bits that have changed in the unit, until the client holds nothing
\* older any more.
Track ==
  disputed' = [r \in Reg |->
    {b \in Foreign(r) \ Agreed'[r] :
       b \in disputed[r] \/ (b \in dev[r]) # (b \in dev'[r])}]
TrackSpec ==
  Spec /\ disputed = [r \in Reg |-> {}] /\ [][Track]_<<vars, disputed>>

\* "Anyone reconstructing it from the two visible bits would silently rewrite the
\* other five": no step of a command changes a bit heatctl does not own, except
\* back to what it was before somebody changed it at the panel, and only until
\* the client has read that change and the commands that are older have ended
\* ("the read-modify-write race", set_control_bit, set_power).
ForeignBitsKept ==
  [][pc' # pc => \A r \in Reg : \A b \in Foreign(r) \ disputed[r] :
                   b \in dev'[r] <=> b \in dev[r]]_vars

\* The lock is released in every outcome, and first come is first served: no
\* command waits for ever behind the poll or behind other commands (_txn).
RequestsFinish == \A t \in Task : pc[t] # "idle" ~> pc[t] = "idle"

Installed ==
  \/ LastChunkReply /\ ~HasDiff
  \/ DiffPublished

\* Once the unit's settings stop changing, reads of the whole space leave the
\* cache equal to the unit, whatever was lost or overwritten before (run).
SelfHeals ==
  /\ <>[][dev' = dev]_vars
  /\ []<><<Installed>>_vars
  => <>[](config = dev)

RC(r) == INSTANCE RegisterCache
           WITH dev <- dev[r], cache <- config[r], sample <- buf[r]

\* Every register, taken alone, behaves as RegisterCache promises: the cache
\* only ever takes an acknowledged value or one read from the unit.
EachRegisterIsCached ==
  /\ \A r \in Reg : RC(r)!Init
  /\ [][\A r \in Reg : [RC(r)!Next]_(RC(r)!vars)]_vars

(* What the documentation says, and the code does not keep *)

\* set_control_bit: "Set one named bit in a shared control register."
OneBitPerWrite ==
  [][\A r \in Reg, b, c \in Bit :
       /\ \A op \in Ops : op.reg = r => ~op.whole
       /\ (b \in dev[r]) # (b \in dev'[r])
       /\ (c \in dev[r]) # (c \in dev'[r])
       => b = c]_vars
=============================================================================
