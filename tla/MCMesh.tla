------------------------------- MODULE MCMesh -------------------------------
(* Three slots, as many as the messages that follow a connect and one more. *)
EXTENDS Mesh
=============================================================================
