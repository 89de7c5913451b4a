---------------------------- MODULE MCNodeTasks ----------------------------
(* Constants of the model-checking runs of NodeTasks. *)
EXTENDS NodeTasks

RootNode == <<"root">>

=============================================================================
