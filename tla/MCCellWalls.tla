---------------------------- MODULE MCCellWalls ----------------------------
(* Instances of CellWalls for TLC: one wall at a time under an active host, *)
(* a key of two characters, a copy of six, and vectors at both limits.       *)
EXTENDS CellWalls

CONSTANTS ql, p1, agent, evil, script, blob, home, user, ssh, key, c1, c2, port, port2, lf, lr, nul

MCInterpreter == script :> agent
MCRules == {[digest |-> agent, all_of |-> <<<<lf>>>>],
            [digest |-> evil, all_of |-> <<<<lf>>>>]}
MCCalls == {[file |-> agent, args |-> <<<<>>, <<lr>>, <<lf>>>>],
            [file |-> agent, args |-> <<<<lr>>, <<lr>>, <<lf>>>>],
            [file |-> script, args |-> <<<<lr, lf>>>>],
            [file |-> evil, args |-> <<>>],
            [file |-> blob, args |-> <<>>]}

MCPaths == {<<home>>, <<home, user>>, <<home, user, ssh>>, <<home, user, key>>}

Plain == [limits |-> {}, enforce |-> FALSE, denied |-> <<>>, brokered |-> FALSE, deny |-> TRUE,
          filter |-> "none", entry |-> [file |-> script, args |-> <<<<lr, lf>>>>]]
Enforced == [Plain EXCEPT !.enforce = TRUE, !.filter = "deny list"]
Brokered == [Plain EXCEPT !.brokered = TRUE]
Denied ==
  [Plain EXCEPT !.denied = <<[comps |-> <<home, Star, ssh>>, deep |-> TRUE],
                             [comps |-> <<home, user, key>>, deep |-> FALSE]>>]

Unified == [lsm |-> TRUE, mounts |-> {"v2"}, controllers |-> {"pids", "memory"}]
Legacy == [lsm |-> TRUE, mounts |-> {"v2", "pids"}, controllers |-> {}]
NoLsm == [lsm |-> FALSE, mounts |-> {}, controllers |-> {}]

MCSetups ==
  {<<Enforced, Unified>>, <<Enforced, Legacy>>, <<Enforced, NoLsm>>,
   <<Brokered, Unified>>, <<Denied, Unified>>}
  \cup {[Plain EXCEPT !.limits = {"pids"}, !.filter = "allow list"],
        [Plain EXCEPT !.limits = {"pids", "memory"}, !.filter = "unknown name"]}
       \X {Unified, Legacy, NoLsm}
=============================================================================
