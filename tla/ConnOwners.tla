----------------------------- MODULE ConnOwners -----------------------------
(***************************************************************************)
(* Egress attribution: the connect hooks of enforce.bpf.c write the owner  *)
(* of every TCP connection of the host under (network namespace, source    *)
(* port); the broker, on accepting one, looks the peer's port up           *)
(* (ql-lsm, lookup_owner; ql-enforce, lookup_conn_owner).  Nothing takes   *)
(* an entry out but the map's own limit, and the hook runs when connect()  *)
(* returns, by which time the broker may have accepted.                    *)
(*                                                                         *)
(* The kernel keeps apart whole pairs of addresses and no ports: a process *)
(* may use the port of a live connection for one that leads elsewhere, as  *)
(* over the loopback of its namespace.                                     *)
(***************************************************************************)
EXTENDS Naturals, FiniteSets

CONSTANTS
  Conns,      \* connections
  Ports,      \* source ports
  MaxOwners   \* the entries of `conn_owners`

Netns == {"cell", "host", "other"}
Own == "host"  \* own_netns() of ql, whose entries a lookup leaves out

Peers == {"broker", "elsewhere"}
Unknown == "unknown"
NoConn == [st |-> "free"]

VARIABLES
  hooks,    \* the loader that carries the connect hooks: "none", "wall", "tracker"
  owners,   \* the map of that name: [netns, port, pid]
  conn,     \* conn[c]: st, the process, its namespace, port, whom it leads to; whether
            \* the hook has run, and for whom it has since run under the same key
  answer    \* answer[c]: what the broker resolved c to, and whether in time

connVars == <<hooks, owners, conn, answer>>

ConnInit ==
  /\ hooks = "none" /\ owners = {}
  /\ conn = [c \in Conns |-> NoConn]
  /\ answer = [c \in Conns |-> NoConn]

Live(c) == conn[c].st = "live"

\* connect(2), up to the SYN: the port is allocated, or is the one the process bound.
Connect(c, p, ns, to) ==
  /\ conn[c] = NoConn
  /\ \E s \in Ports :
       /\ \A d \in Conns : Live(d) /\ conn[d].netns = ns /\ conn[d].port = s =>
                            ~(conn[d].to = "broker" /\ to = "broker")
       /\ conn' = [conn EXCEPT ![c] = [st |-> "live", pid |-> p, netns |-> ns, port |-> s,
                                      to |-> to, noted |-> FALSE, over |-> {}]]
  /\ UNCHANGED <<hooks, owners, answer>>

SameKey(c, d) == conn[c].netns = conn[d].netns /\ conn[c].port = conn[d].port

ConnOwner(c) == [netns |-> conn[c].netns, port |-> conn[c].port, pid |-> conn[c].pid]

\* note_owner(): the entry replaces the one of that key, or, in a full map,
\* some other.
NoteOwner(c) ==
  LET kept == {o \in owners : ~(o.netns = conn[c].netns /\ o.port = conn[c].port)} IN
    \E out \in SUBSET kept :
      /\ Cardinality(out) = IF Cardinality(kept) < MaxOwners THEN 0 ELSE 1
      /\ owners' = (kept \ out) \cup {ConnOwner(c)}

\* connect(2) returns, and the fexit hook runs in the process that called it.
Returns(c) ==
  /\ Live(c) /\ ~conn[c].noted
  /\ conn' = [d \in Conns |->
       IF d = c THEN [conn[c] EXCEPT !.noted = TRUE]
       ELSE IF Live(d) /\ conn[d].noted /\ SameKey(c, d)
         THEN [conn[d] EXCEPT !.over = @ \cup {conn[c].pid}]
       ELSE conn[d]]
  /\ IF hooks = "none" THEN UNCHANGED owners ELSE NoteOwner(c)
  /\ UNCHANGED <<hooks, answer>>

\* Its port is free again.
CloseConn(c) ==
  /\ Live(c) /\ conn[c].noted
  /\ conn' = [conn EXCEPT ![c].st = "closed"]
  /\ UNCHANGED <<hooks, owners, answer>>

\* Mutant: of two candidates one is taken.
SomeOwner(port) ==
  LET found == {o \in owners : o.port = port /\ o.netns # Own} IN
    IF found # {} THEN (CHOOSE o \in found : TRUE).pid ELSE Unknown

\* lookup_owner(): the one entry for this port outside ql's own namespace;
\* of two, neither.
LookupOwner(port) ==
  LET found == {o \in owners : o.port = port /\ o.netns # Own} IN
    IF Cardinality(found) = 1 THEN (CHOOSE o \in found : TRUE).pid ELSE Unknown

\* lookup_conn_owner(): asks the loader that is live, if one is.
LookupConnOwner(port) == IF hooks = "none" THEN Unknown ELSE LookupOwner(port)

\* The map still has an entry for the namespace and port of c.
Noted(c) == \E o \in owners : o.netns = conn[c].netns /\ o.port = conn[c].port

\* The broker decides on c, accepted at some time after its SYN.
Attribute(c) ==
  /\ conn[c].st # "free" /\ conn[c].to = "broker" /\ answer[c] = NoConn
  /\ answer' = [answer EXCEPT ![c] =
       [st |-> IF Live(c) /\ conn[c].noted /\ Noted(c) THEN "in time" ELSE "early or late",
        pid |-> LookupConnOwner(conn[c].port)]]
  /\ UNCHANGED <<hooks, owners, conn>>
=============================================================================
