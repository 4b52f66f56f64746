-------------------------- MODULE MCSignalingSession --------------------------
(* One redirection, one local candidate, and two messages of the server on    *)
(* any channel, before, during or after the switch.                           *)
EXTENDS SignalingSession
=============================================================================
