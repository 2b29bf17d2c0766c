---------------------------- MODULE MCPrekeyPool ----------------------------
(* PrekeyPool for TLC: two overlapping uploaders, batches of two.           *)
EXTENDS PrekeyPool

CONSTANTS c1, c2

MCConns == {c1, c2}
=============================================================================
