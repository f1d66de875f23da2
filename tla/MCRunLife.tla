----------------------------- MODULE MCRunLife -----------------------------
(* Instances of RunLife for TLC: two providers and a registry, a workspace *)
(* and a directory in it.                                                  *)
EXTENDS RunLife

CONSTANTS provider, other, registry, ws, src

MCPathIn == {<<ws, ws>>, <<src, src>>, <<src, ws>>}

MCOptions == {
  [brokered |-> TRUE, audit |-> TRUE, stream |-> TRUE, json |-> TRUE],
  [brokered |-> FALSE, audit |-> FALSE, stream |-> FALSE, json |-> TRUE]}

MCDocuments == {
  [net |-> {provider, registry}, open |-> FALSE, rw |-> {src}, enforce |-> TRUE,
   need |-> "content or refuse"],
  [net |-> {provider, registry}, open |-> TRUE, rw |-> {ws}, enforce |-> FALSE,
   need |-> "content or substitute"],
  [net |-> {registry}, open |-> FALSE, rw |-> {}, enforce |-> FALSE,
   need |-> "content or refuse"]}

MCChains == {[net |-> {registry, other}, rw |-> {src}]}

MCPhases == {[noEgress |-> TRUE, only |-> {}, rw |-> {}],
             [noEgress |-> FALSE, only |-> {registry, other}, rw |-> {ws}]}
=============================================================================
