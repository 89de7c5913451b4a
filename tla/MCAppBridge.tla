----------------------------- MODULE MCAppBridge -----------------------------
(* Constants of the model-checking runs of AppBridge. *)
EXTENDS AppBridge, TLC

OneImage == {<<"root", "aggregator">>}

NoUpgrade == {}

NoLegacy == {NotFound}

\* The applications do not check a type before they ask for a device of it.
OnlyLights == [img \in Images |-> {"light"}]

Symmetry == Permutations(Handle)

=============================================================================
