-------------------------- MODULE MCSignalingConnect --------------------------
(* Three candidates: one to be chosen, one that loses while Connect still     *)
(* holds it, one that Connect has not opened yet.                              *)
EXTENDS SignalingConnect
=============================================================================
