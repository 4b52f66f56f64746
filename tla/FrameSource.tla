------------------------------ MODULE FrameSource ------------------------------
(***************************************************************************)
(* What a capturer or a recorder of sumomo promises to the program that    *)
(* starts it (examples/sumomo/capturer.h, recorder.h): its frame callback  *)
(* runs only from a call of start until stop or destroy has returned, one  *)
(* call at a time.  The phases are those of the caller, whatever threads   *)
(* the device has: when stop has returned, no callback is running and none *)
(* will be before the next start.  A start that fails is not a stop.       *)
(***************************************************************************)
VARIABLES
  phase,        \* "stopped"; "started" until stop returns; "gone" after destroy
  delivering    \* the frame callback is running

vars == <<phase, delivering>>

Init == phase = "stopped" /\ delivering = FALSE

Start ==
  /\ phase = "stopped"
  /\ phase' = "started"
  /\ UNCHANGED delivering

FrameBegins ==
  /\ phase = "started"
  /\ delivering = FALSE /\ delivering' = TRUE
  /\ UNCHANGED phase

FrameEnds ==
  /\ delivering = TRUE /\ delivering' = FALSE
  /\ UNCHANGED phase

Stop ==
  /\ phase = "started" /\ ~delivering
  /\ phase' = "stopped"
  /\ UNCHANGED delivering

Destroy ==
  /\ phase # "gone" /\ ~delivering
  /\ phase' = "gone"
  /\ UNCHANGED delivering

Next == Start \/ FrameBegins \/ FrameEnds \/ Stop \/ Destroy

Spec == Init /\ [][Next]_vars
=============================================================================
