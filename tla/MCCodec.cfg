SPECIFICATION Spec
CONSTANT Nodes <- MCNodes
INVARIANT DecodesWhatWasEncoded
CHECK_DEADLOCK FALSE
