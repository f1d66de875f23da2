----------------------------- MODULE EgressGate -----------------------------
(***************************************************************************)
(* What the egress broker promises an operator, stated without tokens,    *)
(* DNS, locks or files: every connection receives at most one final       *)
(* verdict, the verdict never changes, and bytes flow only after an       *)
(* "allow" verdict has been published.  BrokerEgress implements this      *)
(* specification (policy.rs, report_final; proxy.rs, handle_connection).  *)
(***************************************************************************)
CONSTANT Conns

VARIABLES
  verdict,   \* the published verdict of each connection
  open       \* the connections whose bytes are being relayed

gateVars == <<verdict, open>>

Init ==
  /\ verdict = [c \in Conns |-> "pending"]
  /\ open = {}

Publish(c, v) ==
  /\ verdict[c] = "pending"
  /\ verdict' = [verdict EXCEPT ![c] = v]
  /\ UNCHANGED open

Open(c) ==
  /\ verdict[c] = "allow"
  /\ c \notin open
  /\ open' = open \cup {c}
  /\ UNCHANGED verdict

Close(c) ==
  /\ c \in open
  /\ open' = open \ {c}
  /\ UNCHANGED verdict

Next ==
  \E c \in Conns :
    \/ \E v \in {"allow", "deny"} : Publish(c, v)
    \/ Open(c)
    \/ Close(c)

Spec == Init /\ [][Next]_gateVars
=============================================================================
