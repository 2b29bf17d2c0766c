------------------------------ MODULE MCAppState ------------------------------
(* A small collection: "a" is set, replaced beside a new "b" whose records    *)
(* are under the second key, removed while "b" is set twice, and set again.   *)
EXTENDS AppState

Set(i) == [op |-> "SET", index |-> i]
Remove(i) == [op |-> "REMOVE", index |-> i]

MCPatches ==
    << <<Set("a")>>,
       <<Set("b"), Set("a")>>,
       <<Remove("a"), Set("b"), Set("b")>> >>

MCPatchKey == <<"k1", "k1", "k2">>
MCRecordKey == [i \in {"a", "b"} |-> IF i = "a" THEN "k1" ELSE "k2"]

=============================================================================
