---------------------------- MODULE MCOpusEncoder ----------------------------
(* Packets of two samples, sent at the age of two packets; frames shorter and  *)
(* longer than a packet.                                                       *)
EXTENDS OpusEncoder
=============================================================================
