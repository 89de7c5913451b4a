--------------------------- MODULE MCConsoleBridge ---------------------------
(* Constants of the model-checking runs of ConsoleBridge. *)
EXTENDS ConsoleBridge, TLC

Bridge2 == <<"root", "aggregator">>

\* An update under which endpoint 1 is no aggregator any more.
NoBridge == <<"root", "other">>

OneImage == {Bridge2}

TwoImages == {Bridge2, NoBridge}

NoUpgrade == {}

ThereAndBack == {<<Bridge2, NoBridge>>, <<NoBridge, Bridge2>>}

NoLegacy == {NotFound}

OldFirmware == {3}

AllSupported == [img \in Images |-> Types]

Symmetry == Permutations(Handle)

=============================================================================
