--------------------------- MODULE MCSignalSession ---------------------------
(* SignalSession for TLC.                                                   *)
EXTENDS SignalSession

CONSTANTS MsgsA, MsgsB, OpksA, OpksB,
          MaxOverlapFaults  \* bound: faults once an account sends more than one message

MCMsgs == [x \in {"A", "B"} |-> IF x = "A" THEN MsgsA ELSE MsgsB]
MCOpks == [x \in {"A", "B"} |-> IF x = "A" THEN 1 .. OpksA ELSE 1 .. OpksB]

\* Either several messages of an account overlap and few things go wrong, or
\* each account sends one message and more of them do.
Explored ==
    \/ faults <= MaxOverlapFaults
    \/ \A x \in Parties : Cardinality({i \in Ids(x) : pc[x][i] # "idle"}) <= 1
=============================================================================
