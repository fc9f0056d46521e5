------------------------------ MODULE Journal ------------------------------
(***************************************************************************)
(* The recorder (journal/main.py): one file per UTC day, appended to, and  *)
(* handed to a gzip process of its own once a record of another day comes. *)
(*                                                                         *)
(* A record is told from others by a number and its day.  The day is that  *)
(* of its timestamp, which may go back: clocks are set, and any line that  *)
(* begins with a plausible time is a record.  Continuation lines only make *)
(* the pending record longer and are left out.                             *)
(***************************************************************************)
EXTENDS Integers, FiniteSets

CONSTANTS
  Day,         \* the days, as numbers
  Retain,      \* retain_days
  Lines,       \* bound: how many records there are
  Absent       \* no such file, no day, no record

Record == [no : 1..Lines, day : Day]

ASSUME JournalAssumption ==
  /\ Day \subseteq Nat /\ {Retain, Lines} \subseteq Nat
  /\ Absent \notin Day \cup Record /\ \A content \in SUBSET Record : content # Absent

VARIABLES
  running,     \* the process is there
  open,        \* _day, Absent without an open file
  linked,      \* the open file still has its name
  pending,     \* _pending
  buffer,      \* what is written but not flushed
  log,         \* the .log files by day
  gz,          \* the .gz files by day, empty while and unless complete
  zips,        \* the gzip processes: their day and what they have read
  received,    \* for the properties: every record
  excused,     \* ... those a kill or the retention has cost
  reopened,    \* ... days opened again after they were compressed
  leftover     \* ... days whose .log no gzip was or is at work on

files == <<log, gz, zips>>
journalVars == <<running, open, linked, pending, buffer, files, received, excused,
                 reopened, leftover>>

Content == {Absent} \cup SUBSET Record
Zip == [day : Day, no : 1..Lines, read : Content]

JournalTypeOK ==
  /\ running \in BOOLEAN /\ linked \in BOOLEAN
  /\ open \in Day \cup {Absent} /\ pending \in Record \cup {Absent}
  /\ log \in [Day -> Content] /\ gz \in [Day -> Content] /\ zips \subseteq Zip
  /\ buffer \cup received \cup excused \subseteq Record
  /\ reopened \cup leftover \subseteq Day
  /\ open = Absent => buffer = {} /\ linked
  /\ ~running => open = Absent /\ pending = Absent /\ zips = {}
  /\ running /\ pending = Absent => open # Absent

JournalInit ==
  /\ running = FALSE /\ open = Absent /\ linked = TRUE
  /\ pending = Absent /\ buffer = {}
  /\ log = [d \in Day |-> Absent] /\ gz = [d \in Day |-> Absent] /\ zips = {}
  /\ received = {} /\ excused = {} /\ reopened = {} /\ leftover = {}

----------------------------------------------------------------------------
(* Writing a record that is complete: _commit *)

\* open(path, "a")
Truncated(content) == {}   \* mutant: open(path, "w")
Appended(content) == IF content = Absent THEN {} ELSE content

\* What is flushed is in the file, if that still has its name.
Flushed(content, records) == IF linked THEN Appended(content) \cup records ELSE content

\* The day whose file _roll closes.
ClosesTheNew(day) == day   \* mutant: _day is changed before it is used
Closes(day) == open

\* _roll to the day of the record r: the old file is closed and compressed if it
\* is still there, archives that are too old for r go.
Roll(r) ==
  LET old == Closes(r.day)
      kept == IF open = Absent THEN log
              ELSE [log EXCEPT ![open] = Flushed(@, buffer)]
      hands == old # Absent /\ kept[old] # Absent
      prunes == {d \in Day : Retain > 0 /\ gz[d] # Absent /\ d < r.day - Retain}
  IN  /\ open' = r.day /\ linked' = TRUE
      /\ log' = [kept EXCEPT ![r.day] = Appended(@)]
      /\ reopened' = IF gz[r.day] \notin {Absent, {}} \/ \E z \in zips : z.day = r.day
                     THEN reopened \cup {r.day} ELSE reopened
      /\ \/ ~hands /\ UNCHANGED zips /\ leftover' = leftover \ {r.day}
         \/ /\ hands   \* _compress, whose gzip may not start
            /\ \/ /\ zips' = zips \cup {[day |-> old, no |-> r.no, read |-> Absent]}
                  /\ leftover' = leftover \ {r.day}
               \/ /\ leftover' = (leftover \ {r.day}) \cup {old}
                  /\ UNCHANGED zips
      /\ gz' = [d \in Day |-> IF d \in prunes THEN Absent ELSE gz[d]]
      /\ excused' = excused \cup {x \in received : x.day \in prunes}

\* The record r reaches the day's file; when it is flushed is left open.
Commit(r) ==
  IF r.day = open
  THEN /\ \/ buffer' = buffer \cup {r} /\ UNCHANGED log
          \/ buffer' = {} /\ log' = [log EXCEPT ![open] = Flushed(@, buffer \cup {r})]
       /\ UNCHANGED <<open, linked, gz, zips, excused, reopened, leftover>>
  ELSE Roll(r) /\ buffer' = {r}

Comes(d) ==
  LET no == Cardinality(received) + 1
  IN  /\ no <= Lines
      /\ pending' = [no |-> no, day |-> d]
      /\ received' = received \cup {pending'}

\* main: a first record says that the recorder was started.
StartJournal(d) ==
  /\ ~running /\ running' = TRUE
  /\ Comes(d)
  /\ UNCHANGED <<open, linked, buffer, files, excused, reopened, leftover>>

\* write: the next record completes the pending one.
Write(d) ==
  /\ running /\ pending # Absent
  /\ Comes(d)
  /\ Commit(pending)
  /\ UNCHANGED running

----------------------------------------------------------------------------
(* The end of the process, which takes the gzips of its container with it *)

\* The first half of close, at the end of the input, and the second.
EndOfInput ==
  /\ running /\ pending # Absent
  /\ Commit(pending)
  /\ pending' = Absent
  /\ UNCHANGED <<running, received>>

\* What the process leaves behind when it ends.
Ends(l) ==
  /\ log' = l
  /\ leftover' = {d \in Day : l[d] # Absent}
  /\ running' = FALSE /\ open' = Absent /\ linked' = TRUE
  /\ pending' = Absent /\ buffer' = {} /\ zips' = {}
  /\ UNCHANGED <<gz, received, reopened>>

Close ==
  /\ running /\ pending = Absent
  /\ Ends([log EXCEPT ![open] = Flushed(@, buffer)])
  /\ UNCHANGED excused

\* A crash loses what is not flushed.
Kill ==
  /\ running
  /\ Ends(log)
  /\ excused' = excused \cup buffer \cup ({pending} \ {Absent})

----------------------------------------------------------------------------
(* gzip -f, at its own pace; of two for one day the last to end has the name *)

\* It truncates the .gz there may be and reads the .log to its end.
GzipReads(z) ==
  /\ z.read = Absent /\ log[z.day] # Absent
  /\ gz' = [gz EXCEPT ![z.day] = {}]
  /\ zips' = (zips \ {z}) \cup {[z EXCEPT !.read = log[z.day]]}
  /\ UNCHANGED <<running, open, linked, pending, buffer, log, received, excused,
                 reopened, leftover>>

\* The .gz is complete, and the .log goes, whoever has it open.
GzipEnds(z) ==
  /\ z.read # Absent
  /\ gz' = [gz EXCEPT ![z.day] = z.read]
  /\ log' = [log EXCEPT ![z.day] = Absent]
  /\ zips' = zips \ {z}
  /\ linked' = (linked /\ open # z.day)
  /\ UNCHANGED <<running, open, pending, buffer, received, excused, reopened, leftover>>

\* It finds no .log, or runs into an error and removes what it made.
GzipFails(z) ==
  /\ zips' = zips \ {z}
  /\ gz' = IF z.read = Absent THEN gz ELSE [gz EXCEPT ![z.day] = Absent]
  /\ leftover' = IF log[z.day] = Absent THEN leftover ELSE leftover \cup {z.day}
  /\ UNCHANGED <<running, open, linked, pending, buffer, log, received, excused,
                 reopened>>

JournalNext ==
  \/ \E d \in Day : StartJournal(d) \/ Write(d)
  \/ EndOfInput \/ Close \/ Kill
  \/ \E z \in zips : GzipReads(z) \/ GzipEnds(z) \/ GzipFails(z)

----------------------------------------------------------------------------
(* Properties *)

InFiles == UNION (({log[d] : d \in Day} \cup {gz[d] : d \in Day}) \ {Absent})

\* No record is lost but to a kill before it was flushed, to the retention, or
\* because the clock went back to a day that was being or had been compressed:
\* a restart does not cost the morning, and neither a gzip that is killed nor
\* one that fails costs the day.
RecordsKept ==
  \A r \in received :
    \/ r = pending \/ r \in buffer \/ r \in InFiles
    \/ r \in excused \/ r.day \in reopened

\* A .log is either being written, or a gzip is at work on it, or the process
\* ended or gzip failed while it was there, and it has stayed since: nobody looks
\* for it again.
LogsAreArchived ==
  \A d \in Day :
    log[d] # Absent => d = open \/ d \in leftover \/ \E z \in zips : z.day = d

(* What a comment says, and the code does not keep *)

\* "Roll and prune once at start-up, so a machine that was off over a day boundary
\* still archives" (main): the first roll of a process takes up the earlier days.
StartupArchives ==
  [][running /\ open = Absent /\ open' # Absent
       => \A d \in Day : d < open' /\ log[d] # Absent
                           => \E z \in zips' : z.day = d]_journalVars
=============================================================================
