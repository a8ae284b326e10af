----------------------------- MODULE MCDaliDelete -----------------------------
(* The Dali delete tool with two paths besides the empty one and three      *)
(* Deletes: enough for two overlapping requests and a third after them.     *)
EXTENDS DaliDelete

CONSTANTS p0, p1, p2

MCPaths == {p0, p1, p2}
==============================================================================
