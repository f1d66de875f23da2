---------------------------- MODULE MCKillSwitch ----------------------------
(* Instances of KillSwitch for TLC.                                        *)
EXTENDS KillSwitch, TLC

\* The runs are alike.
RunSymmetry == Permutations(Runs)
=============================================================================
