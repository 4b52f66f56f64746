----------------------------- MODULE MCVideoSend -----------------------------
(* Two layers or one, any of them inactive, frames of two sizes with any      *)
(* rid, failures of InitEncode and Encode, and a PLI at any moment.             *)
EXTENDS VideoSend
=============================================================================
