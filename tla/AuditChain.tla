----------------------------- MODULE AuditChain -----------------------------
(***************************************************************************)
(* The hash-chained audit log of ql-audit, as a sequence of records.  The *)
(* hash is taken to be collision-free: it is the tuple of what it hashes. *)
(***************************************************************************)
EXTENDS Naturals, Sequences

Genesis == <<>>

ChainHash(seq, prev, event) == <<seq, prev, event>>

LogHead(log) == IF log = <<>> THEN Genesis ELSE log[Len(log)].hash

\* append(): a record that commits to the one before it.
Extend(log, event) ==
  LET prev == LogHead(log) IN
    Append(log, [seq |-> Len(log), event |-> event, prev |-> prev,
                 hash |-> ChainHash(Len(log), prev, event)])

\* Mutant: verification without the link to the previous record.
VerifiesUnlinked(log) ==
  \A i \in DOMAIN log :
    /\ log[i].seq = i - 1
    /\ log[i].hash = ChainHash(log[i].seq, log[i].prev, log[i].event)

\* verify(): positions, links and hashes all match.
Verifies(log) ==
  \A i \in DOMAIN log :
    /\ log[i].seq = i - 1
    /\ log[i].prev = LogHead(SubSeq(log, 1, i - 1))
    /\ log[i].hash = ChainHash(log[i].seq, log[i].prev, log[i].event)

Events(log) == [i \in DOMAIN log |-> log[i].event]
=============================================================================
