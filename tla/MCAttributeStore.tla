-------------------------- MODULE MCAttributeStore --------------------------
(* Instances of AttributeStore: a bounded nullable number, whose writes may *)
(* be deferred, and a string.                                               *)
EXTENDS AttributeStore

CONSTANTS level, label

\* The older firmware's level lies above the bounds of this one.
MCLegacy == Put(Empty, level, 3)
NoLegacy == Empty

MCBounds == [p \in Path \cap {level} |-> [lo |-> 1, hi |-> 2]]

MCDefault == [p \in Path |-> IF p \in Strings THEN <<1>> ELSE 1]

MCMaxSize == [p \in Path |-> 1]

MCInputs == [p \in Path |-> CASE p = level -> {0, 2, Null}
                              [] p = label -> {<<>>, <<1>>, <<1, 1>>}]

MCGarbage == 0 .. 2

=============================================================================
