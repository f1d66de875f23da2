---------------------------- MODULE MCCellLaunch ----------------------------
(* Instances of CellLaunch for TLC.                                        *)
EXTENDS CellLaunch
=============================================================================
