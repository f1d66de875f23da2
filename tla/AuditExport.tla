---------------------------- MODULE AuditExport ----------------------------
(***************************************************************************)
(* `ql audit export`: a window of the audit file is packed, with a         *)
(* manifest and a verifier, into an evidence bundle (audit.rs, export and  *)
(* VERIFY_PY), while the file goes on being written and other exports may  *)
(* write to the same directory.                                            *)
(***************************************************************************)
EXTENDS AuditFile

CONSTANTS
  Exporters,  \* runs of `ql audit export` into one directory
  Casts       \* who may take part in one behaviour

ASSUME CastAssumption ==
  /\ Exporters \cap Writers = {} /\ Nobody \notin Exporters
  /\ \A c \in Casts : c \subseteq Writers \cup Exporters

VARIABLES
  cast,     \* who takes part
  stage,    \* where each exporter is
  window,   \* the records each has selected
  records,  \* records.jsonl
  manifest, \* manifest.json: the head hash it names, None or TornManifest
  turn      \* history: who opened `records`, Nobody once another wrote as well

exportVars == <<stage, window, records, manifest, turn>>
bundle == <<records, manifest, turn>>
vars == <<fileVars, cast, exportVars>>

None == <<"none">>
TornManifest == <<"torn">>

-----------------------------------------------------------------------------
\* Any contiguous piece of a log that verifies: --since and --until are times,
\* and the clock may have gone back between two records.
ReadWindow(x) ==
  /\ stage[x] = "idle"
  /\ Parses(file) /\ Verifies(file)
  /\ \E lo \in DOMAIN file : \E hi \in lo..Len(file) :
       window' = [window EXCEPT ![x] = SubSeq(file, lo, hi)]
  /\ stage' = [stage EXCEPT ![x] = "open"]
  /\ UNCHANGED bundle

\* A damaged log, or no record in the range.
RefuseExport(x) ==
  /\ stage[x] = "idle"
  /\ stage' = [stage EXCEPT ![x] = "failed"]
  /\ UNCHANGED <<window, bundle>>

\* fs::write of records.jsonl: truncated, then written.
OpenRecords(x) ==
  /\ stage[x] = "open"
  /\ records' = <<>> /\ turn' = x
  /\ stage' = [stage EXCEPT ![x] = "records"]
  /\ UNCHANGED <<window, manifest>>

Turn(x) == IF turn = x THEN x ELSE Nobody

WriteRecords(x) ==
  /\ stage[x] = "records"
  /\ records' \in Overlaid(records, window[x])
  /\ turn' = Turn(x)
  /\ stage' = [stage EXCEPT ![x] = "manifest"]
  /\ UNCHANGED <<window, manifest>>

\* Then manifest.json, which names the head of the window; an empty one is no
\* JSON, and neither is one over which another exporter has written.
OpenManifest(x) ==
  /\ stage[x] = "manifest"
  /\ manifest' = TornManifest
  /\ turn' = Turn(x)
  /\ stage' = [stage EXCEPT ![x] = "head"]
  /\ UNCHANGED <<window, records>>

WriteManifest(x) ==
  /\ stage[x] = "head"
  /\ \/ manifest' = LogHead(window[x])
     \/ manifest # TornManifest /\ manifest' = TornManifest
  /\ turn' = Turn(x)
  /\ stage' = [stage EXCEPT ![x] = "done"]
  /\ UNCHANGED <<window, records>>

\* The disk is full, or the exporter is killed, at any of its writes.
ExportFails(x) ==
  /\ DiskFails
  /\ stage[x] \in {"open", "records", "manifest", "head"}
  /\ \/ UNCHANGED records
     \/ /\ stage[x] = "records"
        /\ \E text \in CutShort(window[x]) : records' \in Overlaid(records, text)
  /\ turn' = IF records' = records THEN turn ELSE Turn(x)
  /\ stage' = [stage EXCEPT ![x] = "failed"]
  /\ UNCHANGED <<window, manifest>>

ExportStep(x) ==
  \/ ReadWindow(x) \/ RefuseExport(x) \/ OpenRecords(x) \/ WriteRecords(x)
  \/ OpenManifest(x) \/ WriteManifest(x) \/ ExportFails(x)

-----------------------------------------------------------------------------
\* Mutant: a verifier that checks every hash and no link.
AcceptsUnlinked(text, head) ==
  /\ text # <<>> /\ Parses(text)
  /\ \A i \in DOMAIN text : text[i].hash = ChainHash(text[i].seq, text[i].prev, text[i].event)
  /\ head \in {None, LogHead(text)}

\* verify.py: the hashes and links of the segment, from whatever its first
\* record is anchored to, and the manifest's head if there is a manifest.
Accepts(text, head) ==
  /\ text # <<>> /\ Parses(text)
  /\ \A i \in DOMAIN text :
       /\ text[i].hash = ChainHash(text[i].seq, text[i].prev, text[i].event)
       /\ i > 1 => text[i].prev = text[i - 1].hash
  /\ head \in {None, LogHead(text)}

Init ==
  /\ FileInit /\ cast \in Casts
  /\ stage = [x \in Exporters |-> "idle"] /\ window = [x \in Exporters |-> <<>>]
  /\ records = <<>> /\ manifest = None /\ turn = Nobody

Next ==
  \/ \E w \in Writers \cap cast : Record(w) /\ UNCHANGED <<cast, exportVars>>
  \/ \E x \in Exporters \cap cast : ExportStep(x) /\ UNCHANGED <<cast, fileVars>>

Spec == Init /\ [][Next]_vars

-----------------------------------------------------------------------------
(* Properties.                                                             *)

\* The log as its readers see it, outside a write in progress.
Settled == \A w \in Writers : pc[w] # "write"

\* The decisions the sink threads of one broker record, as long as nobody else
\* writes and no write fails, all end up in one chain that verifies, once each
\* and in the order in which the records returned (policy.rs:90-92).
SinkLossless ==
  Settled /\ (\A w \in Writers : pc[w] \in IF w \in Sinks THEN {"idle", "read", "open", "done"}
                                                         ELSE {"idle"})
    => /\ Verifies(file)
       /\ Events(file) = [i \in DOMAIN acked |-> Event(acked[i], "decision", Genesis)]

\* Whatever the writers do to one another and wherever a write is cut short, in
\* a file that parses and verifies every record stands where some writer put it,
\* after the very record that writer put it after: lines of two histories are
\* never taken for one log (ql-audit/src/lib.rs:190-213).
MixtureDetected ==
  Parses(file) /\ Verifies(file) =>
    \A i \in DOMAIN file : \E d \in drafts :
      i <= Len(d) /\ SubSeq(d, IF i = 1 THEN 1 ELSE i - 1, i)
                       = SubSeq(file, IF i = 1 THEN 1 ELSE i - 1, i)

\* An archive is a complete chain closed by a seal over its own head.
Sealed(a) ==
  /\ Verifies(a)
  /\ a[Len(a)].event = Event(a[Len(a)].event.by, "seal", LogHead(SubSeq(a, 1, Len(a) - 1)))

\* A log that continues from an archive is never on disk without that archive,
\* sealed and complete, wherever rotation was cut short and whatever the other
\* writers did meanwhile (audit.rs, rotate).
ArchiveBeforeContinue ==
  \A i \in DOMAIN file : file[i].event.kind = "continue" =>
    \E a \in archives : LogHead(a) = file[i].event.of /\ Sealed(a)

\* A bundle that its verifier accepts holds no seam: every record in it follows the
\* very record its writer put it after, though exports were cut short or wrote over
\* one another; and what an export finishes undisturbed is accepted and is the window
\* it selected, though the log has gone on since (audit.rs:533-583, 919-935).
BundleStands ==
  /\ Accepts(records, manifest) =>
       \A i \in DOMAIN records : \E d \in drafts : \E j \in DOMAIN d :
         d[j] = records[i] /\ (i > 1 => j > 1 /\ d[j - 1] = records[i - 1])
  /\ turn # Nobody /\ stage[turn] = "done" =>
       Accepts(records, manifest) /\ records = window[turn]

=============================================================================
