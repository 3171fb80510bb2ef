--------------------------- MODULE MCIdleFastpath ---------------------------
(***************************************************************************)
(* IdleFastpath on two tiles with two cores and two pipes each.            *)
(***************************************************************************)
EXTENDS IdleFastpath

CONSTANTS c1, c2, p1, p2, e1

MCCores == {c1, c2}
MCPipes == {p1, p2}
MCEthCores == {e1}
=============================================================================
