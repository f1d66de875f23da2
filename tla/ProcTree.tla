------------------------------ MODULE ProcTree ------------------------------
(***************************************************************************)
(* The audit records of an observed run (crates/ql-cli/src/observe.rs) and *)
(* the process tree that the audit reports draw from them (audit.rs,       *)
(* proctree.rs). A record is known by its place in the file.               *)
(***************************************************************************)
EXTENDS Tracing

\* write_observe_audit, once the agent has ended: the findings on execs, and then
\* the connects. A record's detail carries its number in the observation (`seq`).
OfKind(kind) ==
    LET upto[i \in 0 .. Len(events)] ==
          IF i = 0 THEN <<>>
          ELSE IF events[i].kind = kind THEN Append(upto[i - 1], events[i])
          ELSE upto[i - 1]
    IN  upto[Len(events)]
Written == IF ~ended THEN <<>> ELSE OfKind("exec") \o OfKind("connect")

\* Mutant: records are ordered as they stand in the file.
OrderInFile(log, n) == n

\* parse_detail: what the records are ordered by.
Order(log, n) == log[n].seq

Execed(log) == {n \in DOMAIN log : log[n].kind = "exec"}
Connected(log) == {n \in DOMAIN log : log[n].kind = "connect"}
ExecsOf(log, pid) == {n \in Execed(log) : log[n].pid = pid}
Latest(log, records) ==
    IF records = {} THEN 0
    ELSE CHOOSE n \in records : \A m \in records : Order(log, m) <= Order(log, n)

\* The process's records before record n that are not of a program that never ran.
Before(log, n, pid) ==
    {m \in ExecsOf(log, pid) : Order(log, m) < Order(log, n) /\ ~log[m].failed}

(* Whose connect it was ***************************************************)

\* A process without a record of its own runs its parent's program. The search for
\* an older ancestor goes by exec records, so a parent with none ends it.
Resolved(log, n) == IF ExecsOf(log, log[n].pid) # {} THEN log[n].pid ELSE log[n].ppid

Owner(log, n) == Latest(log, Before(log, n, Resolved(log, n)))

(* What ran under what ****************************************************)

\* The record under which record n is drawn: the parent's latest at the time.
Under(log, n) ==
    LET live == Before(log, n, log[n].ppid)
    IN  IF log[n].ppid = log[n].pid \/ live = {} THEN {} ELSE {Latest(log, live)}

\* shape(): how often a record has a line of its own, as a root or under those.
Drawn(log, n) == IF Under(log, n) = {} THEN 1 ELSE Cardinality(Under(log, n))
=============================================================================
