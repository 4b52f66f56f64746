---------------------------- MODULE MCSumomoDevices ----------------------------
(* An instance of SumomoDevices: a clock of eight units, frames every two of them
   with three samples in two units; three buffers of the camera; ten samples heard
   in chunks of two for frames of three; four fragments of PulseAudio. *)
EXTENDS SumomoDevices
=============================================================================
