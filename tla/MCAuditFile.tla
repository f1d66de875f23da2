---------------------------- MODULE MCAuditFile ----------------------------
(* Instances of AuditExport for TLC: writers and exporters are model       *)
(* values, and take part in groups small enough for every interleaving.    *)
EXTENDS AuditExport

CONSTANTS s1, s2, tool, kill, rotate, x1, x2

MCCasts == {{s1, s2, tool, kill, rotate}, {s1, s2, kill, x1, x2}, {tool, rotate, x1, x2}}
=============================================================================
