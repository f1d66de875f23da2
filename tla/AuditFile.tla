----------------------------- MODULE AuditFile -----------------------------
(***************************************************************************)
(* One audit file and everything that appends to it: the broker's sink    *)
(* threads (policy.rs, AuditSink), the main thread of a run and the       *)
(* command line (run.rs, policy.rs, audit.rs), the kill switch (kill.rs)  *)
(* and log rotation (audit.rs, rotate).                                    *)
(*                                                                         *)
(* An append reads the whole file, extends the chain in memory and writes *)
(* the whole file back with fs::write, which truncates before it writes.  *)
(* The sink threads of one broker share a mutex; nothing else takes it.   *)
(***************************************************************************)
EXTENDS AuditChain, FiniteSets

CONSTANTS
  Sinks,      \* broker threads recording a decision, behind the sink's mutex
  Tools,      \* the run's main thread, `ql audit append`: refuse a damaged log
  Killers,    \* `ql kill --audit`: no mutex, starts over on a damaged log
  Rotators,   \* `ql audit rotate`
  Nobody,     \* no writer
  DiskFails   \* whether a write may fail half way

Writers == Sinks \cup Tools \cup Killers \cup Rotators

ASSUME WriterAssumption ==
  /\ Sinks \cap (Tools \cup Killers \cup Rotators) = {}
  /\ Tools \cap (Killers \cup Rotators) = {} /\ Killers \cap Rotators = {}
  /\ Nobody \notin Writers
  /\ DiskFails \in BOOLEAN

VARIABLES
  file,      \* the lines of the audit file
  archives,  \* the sealed segments rotation has written
  holder,    \* who holds the sink's mutex
  pc,        \* where each writer is
  log,       \* the log each writer holds in memory
  acked,     \* the writers whose append returned success, in order
  drafts     \* history: every text some writer set out to write

fileVars == <<file, archives, holder, pc, log, acked, drafts>>

\* An event is its writer; seal and continue also commit to a chain head.
Event(w, kind, head) == [by |-> w, kind |-> kind, of |-> head]

\* A line cut short by a failed write, or by two writes over one another.
Torn == [seq |-> 0, event |-> Event(Nobody, "torn", Genesis),
         prev |-> Genesis, hash |-> Genesis]

\* from_jsonl(): every line is a record; the chain is not verified.
Parses(text) == \A i \in DOMAIN text : text[i] # Torn

-----------------------------------------------------------------------------
FileInit ==
  /\ file = <<>>
  /\ archives = {}
  /\ holder = Nobody
  /\ pc = [w \in Writers |-> "idle"]
  /\ log = [w \in Writers |-> <<>>]
  /\ acked = <<>>
  /\ drafts = {<<>>}

\* Mutant: the sink without its mutex.
LockShared(w) ==
  /\ w \in Sinks
  /\ pc[w] = "idle"
  /\ holder' = w
  /\ pc' = [pc EXCEPT ![w] = "read"]
  /\ UNCHANGED <<file, archives, log, acked, drafts>>

Lock(w) ==
  /\ w \in Sinks
  /\ pc[w] = "idle"
  /\ holder = Nobody
  /\ holder' = w
  /\ pc' = [pc EXCEPT ![w] = "read"]
  /\ UNCHANGED <<file, archives, log, acked, drafts>>

Unlocked(w) == IF holder = w THEN Nobody ELSE holder

Ready(w) == IF w \in Sinks THEN pc[w] = "read" ELSE pc[w] = "idle"

\* Read and extend.  The sink and the kill switch take an unparsable log for
\* an empty one.
ReadLog(w) ==
  /\ w \notin Rotators
  /\ Ready(w)
  /\ Parses(file) \/ w \in Sinks \cup Killers
  /\ LET old == IF Parses(file) THEN file ELSE <<>>
         new == Extend(old, Event(w, "decision", Genesis))
     IN /\ log' = [log EXCEPT ![w] = new]
        /\ drafts' = drafts \cup {new}
  /\ pc' = [pc EXCEPT ![w] = "open"]
  /\ UNCHANGED <<file, archives, holder, acked>>

\* The others give up on a log they cannot parse.
RefuseDamaged(w) ==
  /\ w \in Tools
  /\ Ready(w)
  /\ ~Parses(file)
  /\ pc' = [pc EXCEPT ![w] = "failed"]
  /\ UNCHANGED <<file, archives, holder, log, acked, drafts>>

\* rotate(): read and verify, and seal the segment in memory.
ReadSeal(w) ==
  /\ w \in Rotators
  /\ Ready(w)
  /\ Parses(file) /\ Verifies(file) /\ file # <<>>
  /\ log' = [log EXCEPT ![w] = Extend(file, Event(w, "seal", LogHead(file)))]
  /\ pc' = [pc EXCEPT ![w] = "archive"]
  /\ UNCHANGED <<file, archives, holder, acked, drafts>>

RefuseRotate(w) ==
  /\ w \in Rotators
  /\ Ready(w)
  /\ ~Parses(file) \/ ~Verifies(file) \/ file = <<>>
  /\ pc' = [pc EXCEPT ![w] = "failed"]
  /\ UNCHANGED <<file, archives, holder, log, acked, drafts>>

\* Mutant: the continuation is prepared, the archive is not written.
WriteArchiveLater(w) ==
  /\ pc[w] = "archive"
  /\ LET next == Extend(<<>>, Event(w, "continue", LogHead(log[w])))
     IN /\ log' = [log EXCEPT ![w] = next]
        /\ drafts' = drafts \cup {next}
  /\ pc' = [pc EXCEPT ![w] = "open"]
  /\ UNCHANGED <<file, archives, holder, acked>>

\* The sealed segment goes to its own file; then a fresh chain that commits to
\* its head replaces the active log.
WriteArchive(w) ==
  /\ pc[w] = "archive"
  /\ archives' = archives \cup {log[w]}
  /\ LET next == Extend(<<>>, Event(w, "continue", LogHead(log[w])))
     IN /\ log' = [log EXCEPT ![w] = next]
        /\ drafts' = drafts \cup {next}
  /\ pc' = [pc EXCEPT ![w] = "open"]
  /\ UNCHANGED <<file, holder, acked>>

\* What is on disk when a write of text stops half way.
CutShort(text) ==
  UNION {LET written == SubSeq(text, 1, n) IN {written, Append(written, Torn)} :
           n \in 0..(Len(text) - 1)}

\* The disk is full, or rotation is killed, before the archive is complete.
WriteArchiveFails(w) ==
  /\ DiskFails
  /\ pc[w] = "archive"
  /\ \E left \in {{}} \cup {{text} : text \in CutShort(log[w])} :
       archives' = archives \cup left
  /\ pc' = [pc EXCEPT ![w] = "failed"]
  /\ UNCHANGED <<file, holder, log, acked, drafts>>

\* fs::write, first half: the file is truncated.
Open(w) ==
  /\ pc[w] = "open"
  /\ file' = <<>>
  /\ pc' = [pc EXCEPT ![w] = "write"]
  /\ UNCHANGED <<archives, holder, log, acked, drafts>>

\* What a file holds after text is written at its start: bytes beyond text
\* that another writer put there meanwhile stay, cut mid-line or not.
Overlaid(old, text) ==
  IF old = <<>> THEN {text}
  ELSE {text, text \o <<Torn>>, text \o SubSeq(old, Len(text) + 1, Len(old))}

\* fs::write, second half; the append is done and the mutex released.
Write(w) ==
  /\ pc[w] = "write"
  /\ file' \in Overlaid(file, log[w])
  /\ acked' = Append(acked, w)
  /\ holder' = Unlocked(w)
  /\ pc' = [pc EXCEPT ![w] = "done"]
  /\ UNCHANGED <<archives, log, drafts>>

\* The disk is full, or the writer dies: the file stays as it is, or holds a
\* beginning of the text, over what another writer put there meanwhile.
WriteFails(w) ==
  /\ DiskFails
  /\ pc[w] \in {"open", "write"}
  /\ \/ UNCHANGED file
     \/ /\ pc[w] = "write"
        /\ \E text \in CutShort(log[w]) : file' \in Overlaid(file, text)
  /\ holder' = Unlocked(w)
  /\ pc' = [pc EXCEPT ![w] = "failed"]
  /\ UNCHANGED <<archives, log, acked, drafts>>

Record(w) ==
  \/ Lock(w) \/ ReadLog(w) \/ RefuseDamaged(w) \/ ReadSeal(w) \/ RefuseRotate(w)
  \/ WriteArchive(w) \/ WriteArchiveFails(w) \/ Open(w) \/ Write(w) \/ WriteFails(w)

=============================================================================
