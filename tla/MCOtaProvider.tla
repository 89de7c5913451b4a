--------------------------- MODULE MCOtaProvider ---------------------------
(* Constants of the model-checking runs of OtaProvider: two lights, of      *)
(* which one was updated before, and a product with two newer versions.     *)
EXTENDS OtaProvider

CONSTANTS light, light1, light2

\* Version 2 applies to version 1 only, version 3 to both.
MCDcl == [p \in Product |-> {[ver |-> 2, min |-> 1, max |-> 1], [ver |-> 3, min |-> 1, max |-> 2]}]

MCUrl == {<<light, 2>>, <<light, 3>>}

MCQuery == {[node |-> light1, product |-> light, ver |-> 1],
            [node |-> light2, product |-> light, ver |-> 2]}

=============================================================================
