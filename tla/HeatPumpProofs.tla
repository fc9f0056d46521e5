--------------------------- MODULE HeatPumpProofs ---------------------------
(***************************************************************************)
(* Proofs about HeatPump for every number of tasks, registers, bits and    *)
(* chunks, every set of commands and every limit.                          *)
(***************************************************************************)
EXTENDS HeatPump, FiniteSetTheorems, TLAPS

\* What the writers read to form a value: a register of the cache is a value.
LEMMA ReadTypes ==
  ASSUME TypeOK, NEW op \in Ops, CanCompute(op)
  PROVE  /\ op.reg \in Reg
         /\ Target(op, config[op.reg]) \in Value
<1>1. op \in Op
  BY ConstantsAssumption
<1>2. CASE op.whole
  BY <1>1, <1>2 DEF Op, Target
<1>3. CASE ~op.whole
  <2>1. config[op.reg] \in Value
    BY <1>1, <1>3 DEF TypeOK, CanCompute, Op
  <2> QED
    BY <1>1, <1>3, <2>1 DEF Op, Target, Value
<1> QED
  BY <1>2, <1>3

LEMMA NoWantType == NoWant \in [reg : Reg, val : Value]
<1>1. PICK r \in Reg : TRUE
  BY ConstantsAssumption
<1>2. [reg |-> r, val |-> {}] \in [reg : Reg, val : Value]
  BY DEF Value
<1> QED
  BY <1>2 DEF NoWant

\* Every variable keeps its type, for every choice of the constants
\* (heatpump.py: the cache holds raw values only, never a default).
THEOREM Typed == Spec => []TypeOK
<1>1. Init => TypeOK
  <2> SUFFICES ASSUME Init PROVE TypeOK
    OBVIOUS
  <2>1. NoBuf \in [Reg -> Value \cup {Unread}]
    BY DEF NoBuf
  <2>2. 1 \in 1..Chunks /\ 0 \in 0..FullEvery
    BY ConstantsAssumption
  <2>3. <<>> \in Seq(Client)
    OBVIOUS
  <2>4. want \in [Task -> [reg : Reg, val : Value]]
    BY NoWantType DEF Init
  <2> QED
    BY <2>1, <2>2, <2>3, <2>4 DEF Init, TypeOK
<1>2. TypeOK /\ [Next]_vars => TypeOK'
  <2> SUFFICES ASSUME TypeOK, [Next]_vars PROVE TypeOK'
    OBVIOUS
  <2> USE ConstantsAssumption, NoWantType DEF TypeOK, Client
  <2>1. ASSUME NEW t \in Task, NEW op \in Ops, Request(t, op) PROVE TypeOK'
    BY <2>1, ReadTypes DEF Request, pollVars
  <2>2. ASSUME NEW t \in Task, Enqueue(t) PROVE TypeOK'
    BY <2>2 DEF Enqueue, pollVars
  <2>3. ASSUME NEW t \in Task, NoConnection(t) PROVE TypeOK'
    BY <2>3 DEF NoConnection, pollVars
  <2>4. ASSUME NEW t \in Task, WriteReply(t) PROVE TypeOK'
    <3>1. want[t] \in [reg : Reg, val : Value] /\ Stored(t) \in [Reg -> Value]
      BY DEF Stored
    <3>2. /\ pc' \in [Task -> {"idle", "admitted", "queued"}]
          /\ want' \in [Task -> [reg : Reg, val : Value]]
          /\ queue' \in Seq(Client)
          /\ UNCHANGED pollVars
      <4>1. EndWrite(t)
        BY <2>4 DEF WriteReply, WriteOk, WriteLost, WriteFailed
      <4>2. queue' \in Seq(Client)
        BY <4>1 DEF EndWrite, Holds
      <4> QED
        BY <4>1, <4>2 DEF EndWrite
    <3>3. CASE WriteOk(t)
      BY <3>1, <3>2, <3>3 DEF WriteOk, pollVars
    <3>4. CASE WriteLost(t)
      BY <3>1, <3>2, <3>4 DEF WriteLost, pollVars
    <3>5. CASE WriteFailed(t)
      BY <3>2, <3>5 DEF WriteFailed, pollVars
    <3> QED
      BY <2>4, <3>3, <3>4, <3>5 DEF WriteReply
  <2>5. CASE Age
    BY <2>5 DEF Age, pollVars, taskVars
  <2>6. CASE PollWake
    BY <2>6 DEF PollWake, taskVars
  <2>7. CASE StatusReply
    BY <2>7 DEF StatusReply, Holds, taskVars
  <2>8. CASE ChunkReply
    BY <2>8 DEF ChunkReply, Holds, MoreChunks, Collected, taskVars
  <2>9. CASE LastChunkReply
    <3>1. /\ Collected \in [Reg -> Value \cup {Unread}]
          /\ NoBuf \in [Reg -> Value \cup {Unread}]
      BY DEF Collected, NoBuf
    <3>2. queue' \in Seq(Client)
      BY <2>9 DEF LastChunkReply, Holds
    <3>3. 0 \in 0..FullEvery
      OBVIOUS
    <3>4. CASE HasDiff
      BY <2>9, <3>1, <3>2, <3>4 DEF LastChunkReply, taskVars
    <3>5. CASE ~HasDiff
      BY <2>9, <3>1, <3>2, <3>3, <3>5 DEF LastChunkReply, InstallAs, taskVars
    <3> QED
      BY <3>4, <3>5
  <2>10. CASE CtrlReply
    BY <2>10 DEF CtrlReply, Holds, Elapsed, taskVars
  <2>11. CASE ReadFailed
    BY <2>11 DEF ReadFailed, Holds, Elapsed, NoBuf, taskVars
  <2>12. CASE DiffPublished
    BY <2>12 DEF DiffPublished, InstallAs, NoBuf, taskVars
  <2>13. ASSUME NEW r \in Reg, NEW v \in Value, PanelChange(r, v) PROVE TypeOK'
    BY <2>13 DEF PanelChange, pollVars, taskVars
  <2>14. CASE UNCHANGED vars
    BY <2>14 DEF vars, pollVars, taskVars
  <2> QED
    BY <2>1, <2>2, <2>3, <2>4, <2>5, <2>6, <2>7, <2>8, <2>9, <2>10, <2>11,
       <2>12, <2>13, <2>14 DEF Next, PollReply
<1> QED
  BY <1>1, <1>2, PTL DEF Spec

----------------------------------------------------------------------------
(* The hard limit *)

\* Counting the commands under way: one more, one fewer, never more than Task.
LEMMA InFlightCount ==
  ASSUME TypeOK
  PROVE  /\ IsFiniteSet(InFlight)
         /\ Cardinality(InFlight) \in Nat
         /\ Cardinality(Task) \in Nat
         /\ Cardinality(InFlight) <= Cardinality(Task)
         /\ \A t \in Task :
              /\ t \notin InFlight =>
                   /\ Cardinality(InFlight \cup {t}) = Cardinality(InFlight) + 1
                   /\ Cardinality(InFlight) + 1 <= Cardinality(Task)
              /\ t \in InFlight =>
                   Cardinality(InFlight \ {t}) = Cardinality(InFlight) - 1
<1>1. InFlight \subseteq Task /\ IsFiniteSet(Task)
  BY ConstantsAssumption DEF InFlight
<1>2. /\ IsFiniteSet(InFlight)
      /\ Cardinality(InFlight) <= Cardinality(Task)
  BY <1>1, FS_Subset
<1>3. Cardinality(InFlight) \in Nat /\ Cardinality(Task) \in Nat
  BY <1>1, <1>2, FS_CardinalityType
<1>4. ASSUME NEW t \in Task, t \notin InFlight
      PROVE  /\ Cardinality(InFlight \cup {t}) = Cardinality(InFlight) + 1
             /\ Cardinality(InFlight) + 1 <= Cardinality(Task)
  <2>1. Cardinality(InFlight \cup {t}) = Cardinality(InFlight) + 1
    BY <1>2, <1>4, FS_AddElement
  <2>2. Cardinality(InFlight \cup {t}) <= Cardinality(Task)
    <3>1. InFlight \cup {t} \subseteq Task
      BY <1>1
    <3> QED
      BY <1>1, <3>1, FS_Subset
  <2> QED
    BY <2>1, <2>2
<1>5. ASSUME NEW t \in Task, t \in InFlight
      PROVE  Cardinality(InFlight \ {t}) = Cardinality(InFlight) - 1
  BY <1>2, <1>5, FS_RemoveElement
<1> QED
  BY <1>2, <1>3, <1>4, <1>5

\* A command in flight ends by leaving InFlight, whatever the outcome.
LEMMA EndsInFlight ==
  ASSUME TypeOK, NEW t \in Task, EndWrite(t) \/ NoConnection(t)
  PROVE  t \in InFlight /\ InFlight' = InFlight \ {t}
BY DEF TypeOK, EndWrite, NoConnection, InFlight

\* However many commands run at once, the writes counted in the last hour and
\* those on their way exceed the hard limit by at most |Task| - 1.
THEOREM Overshoot == Spec => []OvershootBounded
<1>1. Init => OvershootBounded
  <2> SUFFICES ASSUME Init PROVE OvershootBounded
    OBVIOUS
  <2>1. Cardinality(InFlight) = 0
    <3>1. InFlight = {}
      BY DEF Init, InFlight
    <3> QED
      BY <3>1, FS_EmptySet
  <2>2. Cardinality(Task) \in Nat /\ Cardinality(Task) # 0
    BY ConstantsAssumption, FS_CardinalityType, FS_EmptySet
  <2> QED
    BY <2>1, <2>2, ConstantsAssumption DEF Init, OvershootBounded
<1>2. TypeOK /\ OvershootBounded /\ [Next]_vars => OvershootBounded'
  <2> SUFFICES ASSUME TypeOK, OvershootBounded, [Next]_vars
               PROVE  OvershootBounded'
    OBVIOUS
  <2>0. /\ writes \in Nat /\ Hard \in Nat
        /\ Cardinality(InFlight) \in Nat /\ Cardinality(Task) \in Nat
    BY InFlightCount, ConstantsAssumption DEF TypeOK
  <2>a. ASSUME writes' = writes, UNCHANGED pc PROVE OvershootBounded'
    BY <2>a DEF OvershootBounded, InFlight
  <2>1. ASSUME NEW t \in Task, NEW op \in Ops, Request(t, op)
        PROVE  OvershootBounded'
    <3>1. t \notin InFlight /\ InFlight' = InFlight \cup {t} /\ writes' = writes
      BY <2>1 DEF Request, InFlight, TypeOK
    <3>2. writes < Hard
      BY <2>1 DEF Request, WithinHardLimit
    <3>3. /\ Cardinality(InFlight \cup {t}) = Cardinality(InFlight) + 1
          /\ Cardinality(InFlight) + 1 <= Cardinality(Task)
      BY <3>1, InFlightCount
    <3> HIDE DEF InFlight
    <3> QED
      BY <2>0, <3>1, <3>2, <3>3 DEF OvershootBounded
  <2>2. ASSUME NEW t \in Task, Enqueue(t) PROVE OvershootBounded'
    <3>1. InFlight' = InFlight /\ writes' = writes
      BY <2>2 DEF Enqueue, InFlight, TypeOK
    <3> QED
      BY <3>1 DEF OvershootBounded
  <2>3. ASSUME NEW t \in Task, NoConnection(t) \/ WriteReply(t)
        PROVE  OvershootBounded'
    <3>1. EndWrite(t) \/ NoConnection(t)
      BY <2>3 DEF WriteReply, WriteOk, WriteLost, WriteFailed
    <3>2. Cardinality(InFlight') = Cardinality(InFlight) - 1
      BY <3>1, EndsInFlight, InFlightCount
    <3>3. writes' = writes \/ writes' = writes + 1
      BY <2>3 DEF NoConnection, WriteReply, WriteOk, WriteLost, WriteFailed
    <3>4. OvershootBounded' = (writes' + Cardinality(InFlight')
                                 <= Hard + Cardinality(Task) - 1)
      BY DEF OvershootBounded
    <3> QED
      BY <2>0, <3>2, <3>3, <3>4 DEF OvershootBounded
  <2>4. CASE Age
    <3>1. InFlight' = InFlight /\ writes' = writes - 1
      BY <2>4 DEF Age, InFlight, taskVars
    <3> QED
      BY <2>0, <3>1 DEF OvershootBounded
  <2>5. CASE PollWake \/ PollReply \/ DiffPublished
    BY <2>5, <2>a DEF PollWake, PollReply, DiffPublished, StatusReply, ChunkReply,
                      LastChunkReply, CtrlReply, ReadFailed, taskVars
  <2>6. ASSUME NEW r \in Reg, NEW v \in Value, PanelChange(r, v)
        PROVE  OvershootBounded'
    BY <2>6, <2>a DEF PanelChange, taskVars
  <2>7. CASE UNCHANGED vars
    BY <2>7, <2>a DEF vars, taskVars
  <2> QED
    BY <2>1, <2>2, <2>3, <2>4, <2>5, <2>6, <2>7 DEF Next
<1> QED
  BY <1>1, <1>2, Typed, PTL DEF Spec

----------------------------------------------------------------------------
(* Bits that are not heatctl's *)

\* The strengthening: on the foreign bits that are not disputed, every copy of a
\* register - in the cache, in a read under way, in a command under way - agrees
\* with the unit.
CopiesAgree == \A r \in Reg : Foreign(r) \ disputed[r] \subseteq Agreed[r]

\* A command changes only bits that commands name.
LEMMA TargetKeepsForeign ==
  ASSUME NEW op \in Ops, NEW b \in Foreign(op.reg)
  PROVE  b \in Target(op, config[op.reg]) <=> b \in config[op.reg]
<1>1. ~op.whole
  BY DEF Foreign
<1>2. b \notin op.on /\ b \notin op.off
  BY DEF Foreign, Named
<1> QED
  BY <1>1, <1>2 DEF Target

\* Of the steps of a command only a write changes the unit, and it stores what
\* agrees.
LEMMA CommandsKeepForeign ==
  ASSUME TypeOK, CopiesAgree, [Next]_vars, pc' # pc,
         NEW r \in Reg, NEW b \in Foreign(r) \ disputed[r]
  PROVE  b \in dev'[r] <=> b \in dev[r]
<1>1. ASSUME NEW t \in Task, WriteOk(t) \/ WriteLost(t)
      PROVE  b \in dev'[r] <=> b \in dev[r]
  <2>1. pc[t] = "queued" /\ dev' = Stored(t)
    BY <1>1 DEF WriteOk, WriteLost, EndWrite
  <2>2. Stored(t)[r] = IF r = want[t].reg THEN want[t].val ELSE dev[r]
    BY DEF Stored, TypeOK
  <2>3. CASE r = want[t].reg
    <3>1. want[t].val \in Copies(r)
      BY <2>1, <2>3 DEF Copies
    <3>2. b \in Agreed[r]
      BY DEF CopiesAgree
    <3> QED
      BY <2>1, <2>2, <2>3, <3>1, <3>2 DEF Agreed
  <2> QED
    BY <2>1, <2>2, <2>3
<1>2. dev' = dev \/ \E t \in Task : WriteOk(t) \/ WriteLost(t)
  BY DEF Next, Request, Enqueue, NoConnection, WriteReply, WriteFailed, Age,
         PollWake, PollReply, StatusReply, ChunkReply, LastChunkReply, CtrlReply,
         ReadFailed, DiffPublished, PanelChange, vars, taskVars
<1> QED
  BY <1>1, <1>2

\* Where a register of the cache comes from.
LEMMA CacheSources ==
  ASSUME TypeOK, [Next]_vars, NEW r \in Reg
  PROVE  \/ config'[r] \in {config[r], buf[r], dev[r]}
         \/ \E t \in Task : /\ pc[t] = "queued" /\ r = want[t].reg
                            /\ config'[r] = want[t].val
<1>1. ASSUME NEW t \in Task, WriteOk(t)
      PROVE  \/ config'[r] = config[r]
             \/ pc[t] = "queued" /\ r = want[t].reg /\ config'[r] = want[t].val
  BY <1>1 DEF WriteOk, EndWrite, TypeOK
<1>2. CASE LastChunkReply \/ DiffPublished \/ CtrlReply
  BY <1>2 DEF LastChunkReply, DiffPublished, CtrlReply, InstallAs, Collected
<1>3. \/ config' = config
      \/ \E t \in Task : WriteOk(t)
      \/ LastChunkReply \/ DiffPublished \/ CtrlReply
  BY DEF Next, Request, Enqueue, NoConnection, WriteReply, WriteLost, WriteFailed,
         Age, PollWake, PollReply, StatusReply, ChunkReply, ReadFailed, PanelChange,
         vars
<1> QED
  BY <1>1, <1>2, <1>3

\* Where a register of the read under way comes from.
LEMMA BufSources ==
  ASSUME [Next]_vars, TypeOK, NEW r \in Reg
  PROVE  buf'[r] \in {Unread, buf[r], dev[r]}
<1>1. CASE LastChunkReply \/ DiffPublished \/ ReadFailed \/ ChunkReply
  BY <1>1 DEF LastChunkReply, DiffPublished, ReadFailed, ChunkReply, InstallAs,
              Collected, NoBuf
<1>2. \/ buf' = buf
      \/ LastChunkReply \/ DiffPublished \/ ReadFailed \/ ChunkReply
  BY DEF Next, Request, Enqueue, NoConnection, WriteReply, WriteOk, WriteLost,
         WriteFailed, EndWrite, Age, PollWake, PollReply, StatusReply, CtrlReply,
         PanelChange, vars, pollVars
<1> QED
  BY <1>1, <1>2

\* Where a value under way comes from.
LEMMA WantSources ==
  ASSUME [Next]_vars, TypeOK, NEW t \in Task, pc'[t] # "idle"
  PROVE  \/ pc[t] # "idle" /\ want'[t] = want[t]
         \/ \E op \in Ops :
              /\ CanCompute(op)
              /\ want'[t] = [reg |-> op.reg, val |-> Target(op, config[op.reg])]
<1>1. ASSUME NEW u \in Task, NEW op \in Ops, Request(u, op)
      PROVE  \/ pc[t] # "idle" /\ want'[t] = want[t]
             \/ /\ CanCompute(op)
                /\ want'[t] = [reg |-> op.reg, val |-> Target(op, config[op.reg])]
  BY <1>1 DEF Request, TypeOK
<1>2. ASSUME NEW u \in Task, Enqueue(u) \/ NoConnection(u) \/ EndWrite(u)
      PROVE  pc[t] # "idle" /\ want'[t] = want[t]
  BY <1>2 DEF Enqueue, NoConnection, EndWrite, TypeOK
<1>3. CASE UNCHANGED taskVars
  BY <1>3 DEF taskVars
<1>4. \/ \E u \in Task : \E op \in Ops : Request(u, op)
      \/ \E u \in Task : Enqueue(u) \/ NoConnection(u) \/ EndWrite(u)
      \/ UNCHANGED taskVars
  BY DEF Next, WriteReply, WriteOk, WriteLost, WriteFailed,
         Age, PollWake, PollReply, StatusReply, ChunkReply, LastChunkReply,
         CtrlReply, ReadFailed, DiffPublished, PanelChange, vars
<1> QED
  BY <1>1, <1>2, <1>3, <1>4

\* A step that leaves a bit of the unit alone leaves every copy agreeing on it.
LEMMA AgreedStays ==
  ASSUME TypeOK, [Next]_vars, NEW r \in Reg, NEW b \in Foreign(r), b \in Agreed[r],
         b \in dev'[r] <=> b \in dev[r]
  PROVE  b \in Agreed'[r]
<1> DEFINE Fits(copy) == b \in copy <=> b \in dev[r]
<1>1. \A copy \in Copies(r) \cup {dev[r]} : Fits(copy)
  BY DEF Agreed
<1>2. \A t \in Task : pc[t] # "idle" /\ want[t].reg = r => want[t].val \in Copies(r)
  BY DEF Copies
<1>3. {config[r], buf[r]} \ {Unread} \subseteq Copies(r)
  BY DEF Copies
<1>4. ASSUME config'[r] # Unread PROVE Fits(config'[r])
  <2>1. config'[r] \in Copies(r) \cup {dev[r]}
    BY <1>2, <1>3, <1>4, CacheSources
  <2> QED
    BY <1>1, <2>1
<1>5. ASSUME buf'[r] # Unread PROVE Fits(buf'[r])
  <2>1. buf'[r] \in Copies(r) \cup {dev[r]}
    BY <1>3, <1>5, BufSources
  <2> QED
    BY <1>1, <2>1
<1>6. ASSUME NEW t \in Task, pc'[t] # "idle", want'[t].reg = r
      PROVE  Fits(want'[t].val)
  <2>1. CASE pc[t] # "idle" /\ want'[t] = want[t]
    BY <1>1, <1>2, <1>6, <2>1
  <2>2. ASSUME NEW op \in Ops, CanCompute(op),
               want'[t] = [reg |-> op.reg, val |-> Target(op, config[op.reg])]
        PROVE  Fits(want'[t].val)
    <3>1. op.reg = r /\ want'[t].val = Target(op, config[r])
      BY <1>6, <2>2
    <3>2. b \in Target(op, config[r]) <=> b \in config[r]
      BY <3>1, TargetKeepsForeign
    <3>3. config[r] # Unread
      BY <2>2, <3>1 DEF CanCompute, Foreign
    <3> QED
      BY <1>1, <1>3, <3>1, <3>2, <3>3
  <2> QED
    BY <1>6, <2>1, <2>2, WantSources
<1>7. \A copy \in Copies(r)' : Fits(copy)
  BY <1>4, <1>5, <1>6 DEF Copies
<1> QED
  BY <1>7 DEF Agreed

LEMMA CopiesAgreeStep ==
  TypeOK /\ CopiesAgree /\ [Next]_vars /\ [Track]_<<vars, disputed>> => CopiesAgree'
<1> SUFFICES ASSUME TypeOK, CopiesAgree, [Next]_vars, [Track]_<<vars, disputed>>,
                    NEW r \in Reg, NEW b \in Foreign(r) \ disputed'[r]
             PROVE  b \in Agreed'[r]
  BY DEF CopiesAgree
<1>1. CASE Track
  <2>1. CASE b \notin disputed[r] /\ (b \in dev'[r] <=> b \in dev[r])
    BY <2>1, AgreedStays DEF CopiesAgree
  <2>2. CASE b \in disputed[r] \/ (b \in dev[r]) # (b \in dev'[r])
    BY <1>1, <2>2 DEF Track
  <2> QED
    BY <2>1, <2>2
<1>2. CASE UNCHANGED <<vars, disputed>>
  BY <1>2, AgreedStays DEF CopiesAgree, vars
<1> QED
  BY <1>1, <1>2

\* Whatever commands run and however they interleave with reads and with the
\* panel, a command changes a bit that heatctl has no name for only back to what
\* it was before a change at the panel that the client has not caught up with,
\* for every layout of the bits (set_control_bit, set_power).
THEOREM ForeignKept == TrackSpec => ForeignBitsKept
<1>1. Init /\ disputed = [r \in Reg |-> {}] => CopiesAgree
  <2> SUFFICES ASSUME Init, NEW r \in Reg PROVE Foreign(r) \subseteq Agreed[r]
    BY DEF CopiesAgree
  <2>1. Copies(r) = {}
    BY DEF Init, Copies, NoBuf
  <2> QED
    BY <2>1 DEF Agreed
<1>2. TypeOK /\ CopiesAgree /\ [Next]_vars =>
        [pc' # pc => \A r \in Reg : \A b \in Foreign(r) \ disputed[r] :
                       b \in dev'[r] <=> b \in dev[r]]_vars
  BY CommandsKeepForeign
<1> QED
  BY <1>1, <1>2, CopiesAgreeStep, Typed, PTL DEF Spec, TrackSpec, ForeignBitsKept

----------------------------------------------------------------------------
(* Each register implements RegisterCache *)

\* What a read under way holds: a sample of exactly the registers of the
\* chunks answered so far, of all while differences are published, else none.
SamplesFollowChunks ==
  \A r \in Reg :
    buf[r] # Unread <=> \/ poll = "publish"
                        \/ poll = "full" /\ ChunkOf[r] < chunk

LEMMA SamplesFollowChunksStep ==
  TypeOK /\ SamplesFollowChunks /\ [Next]_vars => SamplesFollowChunks'
<1> SUFFICES ASSUME TypeOK, SamplesFollowChunks, [Next]_vars, NEW r \in Reg
             PROVE  buf'[r] # Unread <=> \/ poll' = "publish"
                                         \/ poll' = "full" /\ ChunkOf[r] < chunk'
  BY DEF SamplesFollowChunks
<1>0. /\ chunk \in Nat /\ Chunks \in Nat /\ ChunkOf[r] \in 1..Chunks
      /\ dev[r] # Unread
  BY ConstantsAssumption DEF TypeOK
<1>1. CASE UNCHANGED <<buf, poll, chunk>>
  BY <1>1 DEF SamplesFollowChunks
<1>2. CASE PollWake \/ CtrlReply
  BY <1>2 DEF PollWake, CtrlReply, SamplesFollowChunks
<1>3. CASE StatusReply
  BY <1>0, <1>3 DEF StatusReply, SamplesFollowChunks
<1>4. CASE ReadFailed
  BY <1>4 DEF ReadFailed, NoBuf
<1>5. CASE ChunkReply
  BY <1>0, <1>5 DEF ChunkReply, MoreChunks, Collected, SamplesFollowChunks
<1>6. CASE LastChunkReply
  <2>1. CASE HasDiff
    BY <1>0, <1>6, <2>1 DEF LastChunkReply, Collected, SamplesFollowChunks
  <2>2. CASE ~HasDiff
    BY <1>6, <2>2 DEF LastChunkReply, InstallAs, NoBuf
  <2> QED
    BY <2>1, <2>2
<1>7. CASE DiffPublished
  BY <1>7 DEF DiffPublished, InstallAs, NoBuf
<1>8. \/ UNCHANGED <<buf, poll, chunk>>
      \/ PollWake \/ CtrlReply \/ StatusReply \/ ReadFailed \/ ChunkReply
      \/ LastChunkReply \/ DiffPublished
  BY DEF Next, Request, Enqueue, NoConnection, WriteReply, WriteOk, WriteLost,
         WriteFailed, EndWrite, Age, PollReply, PanelChange, vars, pollVars
<1> QED
  BY <1>1, <1>2, <1>3, <1>4, <1>5, <1>6, <1>7, <1>8

\* A step of the client is, for each register, a step of RegisterCache or none.
LEMMA RegisterStep ==
  ASSUME TypeOK, SamplesFollowChunks, [Next]_vars, NEW r \in Reg
  PROVE  [RC(r)!Next]_(RC(r)!vars)
<1>0. /\ chunk \in Nat /\ Chunks \in Nat /\ ChunkOf[r] \in 1..Chunks
      /\ dev[r] \in Value /\ dev[r] # Unread
  BY ConstantsAssumption DEF TypeOK
<1>1. ASSUME UNCHANGED <<dev, config, buf>> PROVE UNCHANGED (RC(r)!vars)
  BY <1>1 DEF RC!vars
<1>2. ASSUME NEW t \in Task, WriteReply(t) PROVE [RC(r)!Next]_(RC(r)!vars)
  <2>1. /\ UNCHANGED buf
        /\ want[t] \in [reg : Reg, val : Value]
    BY <1>2 DEF WriteReply, WriteOk, WriteLost, WriteFailed, EndWrite, pollVars, TypeOK
  <2>2. CASE WriteOk(t)
    <3>1. CASE r = want[t].reg
      BY <2>1, <2>2, <3>1 DEF WriteOk, Stored, TypeOK, RC!Next, RC!AckedWrite
    <3>2. CASE r # want[t].reg
      BY <2>1, <2>2, <3>2 DEF WriteOk, Stored, TypeOK, RC!vars
    <3> QED
      BY <3>1, <3>2
  <2>3. CASE WriteLost(t)
    <3>1. CASE r = want[t].reg
      BY <2>1, <2>3, <3>1 DEF WriteLost, Stored, TypeOK, RC!Next, RC!UnseenChange
    <3>2. CASE r # want[t].reg
      BY <2>1, <2>3, <3>2 DEF WriteLost, Stored, TypeOK, RC!vars
    <3> QED
      BY <3>1, <3>2
  <2>4. CASE WriteFailed(t)
    BY <2>1, <2>4 DEF WriteFailed, RC!vars
  <2> QED
    BY <1>2, <2>2, <2>3, <2>4 DEF WriteReply
<1>3. ASSUME NEW q \in Reg, NEW v \in Value, PanelChange(q, v)
      PROVE  [RC(r)!Next]_(RC(r)!vars)
  <2>1. CASE q = r
    BY <1>3, <2>1 DEF PanelChange, pollVars, TypeOK, RC!Next, RC!UnseenChange
  <2>2. CASE q # r
    BY <1>3, <2>2 DEF PanelChange, pollVars, TypeOK, RC!vars
  <2> QED
    BY <2>1, <2>2
<1>4. CASE ReadFailed
  <2>1. dev' = dev /\ config' = config /\ buf'[r] = Unread
    BY <1>4 DEF ReadFailed, NoBuf
  <2> QED
    BY <2>1 DEF RC!Next, RC!Discard, RC!vars
<1>5. CASE ChunkReply
  <2>1. dev' = dev /\ config' = config
    BY <1>5 DEF ChunkReply
  <2>2. CASE ChunkOf[r] = chunk
    <3>1. buf[r] = Unread /\ buf'[r] = dev[r]
      BY <1>0, <1>5, <2>2 DEF ChunkReply, Collected, SamplesFollowChunks
    <3> QED
      BY <2>1, <3>1 DEF RC!Next, RC!Sample
  <2>3. CASE ChunkOf[r] # chunk
    BY <1>5, <2>1, <2>3 DEF ChunkReply, Collected, RC!vars
  <2> QED
    BY <2>2, <2>3
<1>6. CASE LastChunkReply
  <2>1. /\ dev' = dev
        /\ buf[r] = Unread <=> ChunkOf[r] = chunk
        /\ Collected[r] = IF ChunkOf[r] = chunk THEN dev[r] ELSE buf[r]
    BY <1>0, <1>6 DEF LastChunkReply, Collected, SamplesFollowChunks
  <2>2. CASE HasDiff
    <3>1. config' = config /\ buf'[r] = Collected[r]
      BY <1>6, <2>2 DEF LastChunkReply
    <3> QED
      BY <2>1, <3>1 DEF RC!Next, RC!Sample, RC!vars
  <2>3. CASE ~HasDiff
    <3>1. config'[r] = Collected[r] /\ buf'[r] = Unread
      BY <1>6, <2>3 DEF LastChunkReply, InstallAs, NoBuf
    <3> QED
      BY <2>1, <3>1 DEF RC!Next, RC!Install, RC!Refresh
  <2> QED
    BY <2>2, <2>3
<1>7. CASE DiffPublished
  <2>1. /\ dev' = dev /\ config'[r] = buf[r] /\ buf'[r] = Unread
        /\ buf[r] # Unread
    BY <1>7 DEF DiffPublished, InstallAs, NoBuf, SamplesFollowChunks
  <2> QED
    BY <2>1 DEF RC!Next, RC!Install
<1>8. CASE CtrlReply
  <2>1. /\ dev' = dev /\ buf' = buf /\ buf[r] = Unread
        /\ config'[r] = dev[r] \/ config'[r] = config[r]
    BY <1>8 DEF CtrlReply, SamplesFollowChunks
  <2> QED
    BY <2>1 DEF RC!Next, RC!Refresh, RC!vars
<1>9. \/ UNCHANGED <<dev, config, buf>>
      \/ \E t \in Task : WriteReply(t)
      \/ \E q \in Reg, v \in Value : PanelChange(q, v)
      \/ ReadFailed \/ ChunkReply \/ LastChunkReply \/ DiffPublished \/ CtrlReply
  BY DEF Next, Request, Enqueue, NoConnection, Age, PollWake, PollReply,
         StatusReply, vars, pollVars
<1> QED
  BY <1>1, <1>2, <1>3, <1>4, <1>5, <1>6, <1>7, <1>8, <1>9

\* The client implements, for every register at once, the one-register cache.
THEOREM ImplementsRegisterCache == Spec => EachRegisterIsCached
<1>1. Init => SamplesFollowChunks /\ \A r \in Reg : RC(r)!Init
  BY DEF Init, SamplesFollowChunks, NoBuf, RC!Init
<1>2. TypeOK /\ SamplesFollowChunks /\ [Next]_vars =>
        [\A r \in Reg : [RC(r)!Next]_(RC(r)!vars)]_vars
  BY RegisterStep
<1> QED
  BY <1>1, <1>2, SamplesFollowChunksStep, Typed, PTL DEF Spec, EachRegisterIsCached

----------------------------------------------------------------------------
(* The lock: what makes commands end, short of the fairness of their steps *)

\* A client that holds the lock of _txn, or waits for it.
Transacting(c) ==
  IF c = Poll THEN poll \in {"status", "full", "ctrl"} ELSE pc[c] = "queued"

\* c has a place in q; nobody has two.
Among(c, q) == \E i \in 1..Len(q) : q[i] = c
Once(q) == \A i, j \in 1..Len(q) : q[i] = q[j] => i = j

\* The lock is released in every outcome, and nobody loses a place: the queue
\* holds whoever is in a transaction, once, and nobody else.
LockInv ==
  /\ \A c \in Client : Transacting(c) <=> Among(c, queue)
  /\ Once(queue)

\* No one waits for more transactions than there are other clients, and whoever
\* holds the lock has an answer to come.
LockIsReleased ==
  /\ Len(queue) <= Cardinality(Client)
  /\ queue # <<>> => \/ \E t \in Task : Holds(t) /\ pc[t] = "queued"
                     \/ Holds(Poll) /\ poll \in {"status", "full", "ctrl"}

\* First come, first served: whoever waits keeps the place or moves up.
FirstComeFirstServed ==
  [][\A i \in 2..Len(queue) :
       \E k \in {i - 1, i} : k <= Len(queue') /\ queue'[k] = queue[i]]_vars

\* What the three uses of the queue do to who is in it.
LEMMA Joined ==
  ASSUME NEW q \in Seq(Client), NEW c \in Client
  PROVE  LET r == Append(q, c)
         IN  /\ \A d \in Client : Among(d, r) <=> Among(d, q) \/ d = c
             /\ Once(q) /\ ~Among(c, q) => Once(r)
             /\ Len(r) = Len(q) + 1 /\ \A i \in 1..Len(q) : r[i] = q[i]
<1> DEFINE r == Append(q, c)
<1>1. /\ Len(q) \in Nat /\ Len(r) = Len(q) + 1
      /\ \A i \in 1..Len(q) : r[i] = q[i]
      /\ r[Len(q) + 1] = c
  OBVIOUS
<1> HIDE DEF r
<1>2. \A i \in 1..Len(r) : i \in 1..Len(q) \/ i = Len(q) + 1
  BY <1>1
<1>3. 1..Len(q) \subseteq 1..Len(r) /\ Len(q) + 1 \in 1..Len(r)
  BY <1>1
<1>4. \A d \in Client : Among(d, r) <=> Among(d, q) \/ d = c
  BY <1>1, <1>2, <1>3 DEF Among
<1>5. ASSUME Once(q), ~Among(c, q) PROVE Once(r)
  BY <1>1, <1>2, <1>5 DEF Among, Once
<1> QED
  BY <1>1, <1>4, <1>5 DEF r

LEMMA Left ==
  ASSUME NEW q \in Seq(Client), q # <<>>
  PROVE  LET r == Tail(q)
         IN  /\ r \in Seq(Client)
             /\ Once(q) => /\ \A d \in Client : Among(d, r) <=> Among(d, q) /\ d # Head(q)
                           /\ Once(r)
             /\ Len(r) = Len(q) - 1 /\ \A i \in 2..Len(q) : r[i - 1] = q[i]
<1> DEFINE r == Tail(q)
<1>1. /\ Len(q) \in Nat \ {0} /\ r \in Seq(Client) /\ Len(r) = Len(q) - 1
      /\ \A i \in 1..Len(r) : r[i] = q[i + 1]
      /\ Head(q) = q[1]
  OBVIOUS
<1> HIDE DEF r
<1>2. \A i \in 1..Len(r) : i + 1 \in 1..Len(q) /\ i + 1 # 1
  BY <1>1
<1>3. ASSUME NEW i \in 1..Len(q), i # 1 PROVE i - 1 \in 1..Len(r) /\ q[i] = r[i - 1]
  BY <1>1, <1>3
<1>4. ASSUME Once(q) PROVE Once(r)
  <2>1. SUFFICES ASSUME NEW i \in 1..Len(r), NEW j \in 1..Len(r), r[i] = r[j] PROVE i = j
    BY DEF Once
  <2>2. i + 1 = j + 1
    BY <1>1, <1>2, <1>4, <2>1 DEF Once
  <2> QED
    BY <2>2
<1>5. ASSUME Once(q), NEW d \in Client
      PROVE  Among(d, r) <=> Among(d, q) /\ d # Head(q)
  <2>1. ASSUME Among(d, r) PROVE Among(d, q) /\ d # Head(q)
    <3>1. PICK i \in 1..Len(r) : r[i] = d
      BY <2>1 DEF Among
    <3>2. q[i + 1] = d
      BY <1>1, <3>1
    <3>3. d # q[1]
      BY <1>1, <1>2, <1>5, <3>1, <3>2 DEF Once
    <3> QED
      BY <1>1, <1>2, <3>1, <3>2, <3>3 DEF Among
  <2>2. ASSUME Among(d, q), d # Head(q) PROVE Among(d, r)
    <3>1. PICK i \in 1..Len(q) : q[i] = d
      BY <2>2 DEF Among
    <3> QED
      BY <1>1, <1>3, <2>2, <3>1 DEF Among
  <2> QED
    BY <2>1, <2>2
<1>6. \A i \in 2..Len(q) : r[i - 1] = q[i]
  BY <1>1, <1>3
<1> QED
  BY <1>1, <1>4, <1>5, <1>6 DEF r

LEMMA LockStep ==
  ASSUME TypeOK, LockInv, [Next]_vars
  PROVE  /\ LockInv'
         /\ \A i \in 2..Len(queue) :
              \E k \in {i - 1, i} : k <= Len(queue') /\ queue'[k] = queue[i]
<1> DEFINE Goal == /\ LockInv'
                   /\ \A i \in 2..Len(queue) :
                        \E k \in {i - 1, i} : k <= Len(queue') /\ queue'[k] = queue[i]
<1>1. /\ queue \in Seq(Client) /\ Len(queue) \in Nat
      /\ pc \in [Task -> {"idle", "admitted", "queued"}]
  BY DEF TypeOK
<1>2. /\ \A c \in Client : Transacting(c) <=> Among(c, queue)
      /\ Once(queue)
  BY DEF LockInv
<1>3. Client = Task \cup {Poll} /\ Poll \notin Task
  BY ConstantsAssumption DEF Client
\* Nobody joins or leaves.
<1>4. ASSUME queue' = queue, \A c \in Client : Transacting(c)' <=> Transacting(c)
      PROVE  Goal
  <2>1. \A i \in 2..Len(queue) : i <= Len(queue') /\ queue'[i] = queue[i]
    BY <1>1, <1>4
  <2> QED
    BY <1>2, <1>4, <2>1 DEF LockInv
\* A client joins.
<1>5. ASSUME NEW c \in Client, ~Transacting(c), Transacting(c)',
             queue' = Append(queue, c),
             \A d \in Client \ {c} : Transacting(d)' <=> Transacting(d)
      PROVE  Goal
  <2>1. /\ \A d \in Client : Among(d, queue') <=> Among(d, queue) \/ d = c
        /\ Once(queue')
        /\ Len(queue') = Len(queue) + 1
        /\ \A i \in 1..Len(queue) : queue'[i] = queue[i]
    BY <1>1, <1>2, <1>5, Joined
  <2>2. LockInv'
    BY <1>2, <1>5, <2>1 DEF LockInv
  <2>3. \A i \in 2..Len(queue) : i <= Len(queue') /\ queue'[i] = queue[i]
    BY <1>1, <2>1
  <2> QED
    BY <2>2, <2>3
\* The holder leaves.
<1>6. ASSUME NEW c \in Client, Holds(c), ~Transacting(c)', queue' = Tail(queue),
             \A d \in Client \ {c} : Transacting(d)' <=> Transacting(d)
      PROVE  Goal
  <2>1. /\ \A d \in Client : Among(d, queue') <=> Among(d, queue) /\ d # c
        /\ Once(queue')
        /\ Len(queue') = Len(queue) - 1
        /\ \A i \in 2..Len(queue) : queue'[i - 1] = queue[i]
    BY <1>1, <1>2, <1>6, Left DEF Holds
  <2>2. LockInv'
    BY <1>2, <1>6, <2>1 DEF LockInv
  <2>3. \A i \in 2..Len(queue) : i - 1 <= Len(queue') /\ queue'[i - 1] = queue[i]
    BY <1>1, <2>1
  <2> QED
    BY <2>2, <2>3
\* The holder leaves and queues behind whoever waits.
<1>7. ASSUME NEW c \in Client, Holds(c), Transacting(c), Transacting(c)',
             queue' = Append(Tail(queue), c),
             \A d \in Client \ {c} : Transacting(d)' <=> Transacting(d)
      PROVE  Goal
  <2> DEFINE r == Tail(queue)
  <2>1. /\ r \in Seq(Client) /\ Once(r) /\ Len(r) = Len(queue) - 1
        /\ \A d \in Client : Among(d, r) <=> Among(d, queue) /\ d # c
        /\ \A i \in 2..Len(queue) : r[i - 1] = queue[i]
    BY <1>1, <1>2, <1>7, Left DEF Holds
  <2>2. queue' = Append(r, c)
    BY <1>7
  <2> HIDE DEF r
  <2>3. /\ \A d \in Client : Among(d, queue') <=> Among(d, r) \/ d = c
        /\ Once(queue')
        /\ Len(queue') = Len(r) + 1
        /\ \A i \in 1..Len(r) : queue'[i] = r[i]
    BY <2>1, <2>2, Joined
  <2>4. LockInv'
    BY <1>2, <1>7, <2>1, <2>3 DEF LockInv
  <2>5. ASSUME NEW i \in 2..Len(queue)
        PROVE  i - 1 <= Len(queue') /\ queue'[i - 1] = queue[i]
    <3>1. i - 1 \in 1..Len(r)
      BY <1>1, <2>1
    <3> QED
      BY <1>1, <2>1, <2>3, <3>1
  <2> QED
    BY <2>4, <2>5
<1> HIDE DEF Goal
<1>8. ASSUME NEW t \in Task, (\E op \in Ops : Request(t, op)) \/ NoConnection(t)
      PROVE  Goal
  <2>1. /\ queue' = queue /\ poll' = poll /\ pc[t] # "queued" /\ pc'[t] # "queued"
        /\ \A u \in Task \ {t} : pc'[u] = pc[u]
    BY <1>1, <1>8 DEF Request, NoConnection, pollVars
  <2> QED
    BY <1>3, <1>4, <2>1 DEF Transacting
<1>9. ASSUME NEW t \in Task, Enqueue(t) PROVE Goal
  <2>1. /\ queue' = Append(queue, t) /\ poll' = poll /\ pc[t] # "queued" /\ pc'[t] = "queued"
        /\ \A u \in Task \ {t} : pc'[u] = pc[u]
    BY <1>1, <1>9 DEF Enqueue, pollVars
  <2> QED
    BY <1>3, <1>5, <2>1 DEF Transacting
<1>10. ASSUME NEW t \in Task, WriteReply(t) PROVE Goal
  <2>1. /\ queue' = Tail(queue) /\ Holds(t) /\ poll' = poll /\ pc'[t] # "queued"
        /\ \A u \in Task \ {t} : pc'[u] = pc[u]
    BY <1>1, <1>10 DEF WriteReply, WriteOk, WriteLost, WriteFailed, EndWrite, pollVars
  <2> QED
    BY <1>3, <1>6, <2>1 DEF Transacting
<1>11. ASSUME PollWake
       PROVE  Goal
  <2>1. queue' = Append(queue, Poll) /\ poll = "sleep" /\ poll' = "status" /\ pc' = pc
    BY <1>11 DEF PollWake, taskVars
  <2> QED
    BY <1>3, <1>5, <2>1 DEF Transacting
<1>12. ASSUME StatusReply \/ ChunkReply
       PROVE  Goal
  <2>1. /\ queue' = Append(Tail(queue), Poll) /\ Holds(Poll) /\ pc' = pc
        /\ {poll, poll'} \subseteq {"status", "full", "ctrl"}
    BY <1>12 DEF StatusReply, ChunkReply, taskVars
  <2> QED
    BY <1>3, <1>7, <2>1 DEF Transacting
<1>13. ASSUME ReadFailed \/ LastChunkReply \/ CtrlReply
       PROVE  Goal
  <2>1. /\ queue' = Tail(queue) /\ Holds(Poll) /\ pc' = pc
        /\ poll' \in {"sleep", "publish"}
    BY <1>13 DEF ReadFailed, LastChunkReply, CtrlReply, InstallAs, taskVars
  <2> QED
    BY <1>3, <1>6, <2>1 DEF Transacting
<1>14. ASSUME DiffPublished
       PROVE  Goal
  <2>1. queue' = queue /\ pc' = pc /\ poll = "publish" /\ poll' = "sleep"
    BY <1>14 DEF DiffPublished, InstallAs, taskVars
  <2> QED
    BY <1>3, <1>4, <2>1 DEF Transacting
<1>15. ASSUME Age \/ (\E r \in Reg, v \in Value : PanelChange(r, v)) \/ UNCHANGED vars
       PROVE  Goal
  <2>1. queue' = queue /\ pc' = pc /\ poll' = poll
    BY <1>15 DEF Age, PanelChange, vars, pollVars, taskVars
  <2> QED
    BY <1>3, <1>4, <2>1 DEF Transacting
<1>16. Goal
  BY <1>8, <1>9, <1>10, <1>11, <1>12, <1>13, <1>14, <1>15 DEF Next, PollReply
<1> QED
  BY <1>16 DEF Goal

LEMMA LockHolds == Spec => [](TypeOK /\ LockInv)
<1>1. Init => LockInv
  BY ConstantsAssumption DEF Init, LockInv, Transacting, Among, Once, Client
<1> QED
  BY <1>1, LockStep, Typed, PTL DEF Spec

\* In whatever way transactions end, the lock has a holder whose answer is still
\* to come, and no more clients wait than there are (_txn, write_register, run).
THEOREM Released == Spec => []LockIsReleased
<1>1. TypeOK /\ LockInv => LockIsReleased
  <2> SUFFICES ASSUME TypeOK, LockInv PROVE LockIsReleased
    OBVIOUS
  <2>1. queue \in Seq(Client) /\ Len(queue) \in Nat
    BY DEF TypeOK
  <2>2. IsFiniteSet(Client)
    BY ConstantsAssumption, FS_AddElement DEF Client
  <2>3. Len(queue) <= Cardinality(Client)
    <3>1. queue \in [1..Len(queue) -> Client]
      BY <2>1
    <3>2. queue \in Injection(1..Len(queue), Client)
      BY <3>1 DEF LockInv, Once, Injection, IsInjective
    <3>3. Cardinality(1..Len(queue)) <= Cardinality(Client)
      BY <2>2, <3>2, FS_Injection
    <3>4. Cardinality(1..Len(queue)) = Len(queue)
      <4>1. Cardinality(1..Len(queue)) =
              IF 1 > Len(queue) THEN 0 ELSE Len(queue) - 1 + 1
        BY <2>1, FS_Interval
      <4> QED
        BY <2>1, <4>1
    <3> QED
      BY <3>3, <3>4
  <2>4. ASSUME queue # <<>>
        PROVE  \/ \E t \in Task : Holds(t) /\ pc[t] = "queued"
               \/ Holds(Poll) /\ poll \in {"status", "full", "ctrl"}
    <3>1. Head(queue) \in Client /\ Among(Head(queue), queue)
      BY <2>1, <2>4 DEF Among
    <3>2. Transacting(Head(queue)) /\ Holds(Head(queue))
      BY <2>4, <3>1 DEF LockInv, Holds
    <3> QED
      BY <3>1, <3>2 DEF Transacting, Client
  <2> QED
    BY <2>3, <2>4 DEF LockIsReleased
<1> QED
  BY <1>1, LockHolds, PTL

\* No poll and no command is overtaken while it waits for the link (_txn).
THEOREM InTurn == Spec => FirstComeFirstServed
<1>1. TypeOK /\ LockInv /\ [Next]_vars =>
        [\A i \in 2..Len(queue) :
           \E k \in {i - 1, i} : k <= Len(queue') /\ queue'[k] = queue[i]]_vars
  BY LockStep
<1> QED
  BY <1>1, LockHolds, PTL DEF Spec, FirstComeFirstServed
=============================================================================
