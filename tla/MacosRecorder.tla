----------------------------- MODULE MacosRecorder -----------------------------
(***************************************************************************)
(* examples/sumomo/macos_recorder.cpp: Core Audio calls OnIOProc with what *)
(* the microphone has heard, on a thread of its own; a recording thread    *)
(* lets an audio converter draw frames from it through OnConverterProc.    *)
(*                                                                         *)
(* Start acquires in order what Stages lists, and leaves it where it is    *)
(* when a later stage fails.  rec_converter_ and rec_ioproc_id_ have no    *)
(* initial value: until Start sets them they are null or "garbage".  quit_ *)
(* is an atomic, which C++20 (CMakeLists.txt:63) initialises with false.   *)
(* The recording thread has no end: once there is one, Stop joins it for   *)
(* ever.  Start is called on a recorder that is stopped.                   *)
(* Samples are numbered in the order in which they were heard.             *)
(***************************************************************************)
EXTENDS Integers, Sequences, SequencesExt

CONSTANTS
  Chunk,        \* samples in a call of OnIOProc
  FrameSize,    \* samples the converter asks for
  MaxHeard      \* bound: samples that are heard

MacosConstants == {Chunk, FrameSize, MaxHeard} \subseteq Nat \ {0}

Stages == <<"device", "converter", "format listener", "overload listener", "ioproc">>

VARIABLES
  owner,        \* "stopped", "starting", "failed", "running", "joining" or "gone"
  thread,       \* "none", "converting" (in OnConverterProc) or "frame"
  quit,         \* quit_
  known,        \* rec_device_id_ is not kAudioDeviceUnknown
  acquired,     \* what Core Audio has registered or made for the recorder
  converter,    \* rec_converter_: "garbage", "made" or "null"
  ioproc,       \* rec_ioproc_id_: likewise
  ioRunning,    \* AudioDeviceStart was called with success
  recBuf,       \* rec_buf_
  heard,        \* history: the samples heard so far
  frame,        \* the samples of the frame that is delivered
  framed        \* history: the samples delivered before
macosVars ==
  <<owner, thread, quit, known, acquired, converter, ioproc, ioRunning,
    recBuf, heard, frame, framed>>

MacosTypeOK ==
  /\ owner \in {"stopped", "starting", "failed", "running", "joining", "gone"}
  /\ thread \in {"none", "converting", "frame"}
  /\ {quit, known, ioRunning} \subseteq BOOLEAN
  /\ acquired \subseteq Range(Stages) \ {"device"}
  /\ {converter, ioproc} \subseteq {"garbage", "made", "null"}
  /\ recBuf \in Seq(Nat) /\ frame \in Seq(Nat)
  /\ heard \in 0..MaxHeard /\ framed \in 0..MaxHeard

Init ==
  /\ owner = "stopped" /\ thread = "none" /\ quit = FALSE
  /\ known = FALSE /\ acquired = {}
  /\ converter \in {"garbage", "null"} /\ ioproc \in {"garbage", "null"}
  /\ ioRunning = FALSE
  /\ recBuf = <<>> /\ heard = 0 /\ frame = <<>> /\ framed = 0

data == <<recBuf, heard, frame, framed>>

-----------------------------------------------------------------------------
(* The owner.                                                              *)

\* Start up to the IOProc: it gets through the first n stages.
Acquires(n) ==
  /\ owner = "stopped"
  /\ LET got == {Stages[i] : i \in 1..n}
     IN  /\ known' \in IF "device" \in got THEN {TRUE} ELSE {known, FALSE}
         /\ acquired' = acquired \cup (got \ {"device"})
         /\ converter' = IF "converter" \in got THEN "made" ELSE converter
         /\ ioproc' = IF "ioproc" \in got THEN "made" ELSE ioproc
  /\ owner' = IF n = Len(Stages) THEN "starting" ELSE "failed"
  /\ thread' = IF n = Len(Stages) THEN "converting" ELSE "none"
  /\ UNCHANGED <<quit, ioRunning, data>>

\* AudioDeviceStart; the thread is running already.
DeviceStarts ==
  /\ owner = "starting"
  /\ \/ owner' = "running" /\ ioRunning' = TRUE
     \/ owner' = "failed" /\ UNCHANGED ioRunning
  /\ UNCHANGED <<thread, quit, known, acquired, converter, ioproc, data>>

\* Mutant: the listeners are removed only when the device had been started.
ReleasedIfStarted ==
  {"converter", "ioproc"} \cup
    (IF ioproc = "made" THEN {"format listener", "overload listener"} ELSE {})

\* Lines 281 to 311 hand back whatever is there, garbage included.
Released == {"converter", "ioproc", "format listener", "overload listener"}

\* Lines 271 and 279: a recorder that never found a device has nothing to stop.
HasDevice == known

Stop ==
  /\ owner \in {"stopped", "failed", "running"}
  /\ IF HasDevice
       THEN IF thread # "none"
              THEN /\ quit' = TRUE /\ owner' = "joining"
                   /\ UNCHANGED <<acquired, converter, ioproc>>
              ELSE /\ owner' = "stopped"
                   /\ acquired' = acquired \ Released
                   /\ converter' = "null" /\ ioproc' = "null"
                   /\ UNCHANGED quit
       ELSE /\ owner' = "stopped"
            /\ UNCHANGED <<quit, acquired, converter, ioproc>>
  /\ UNCHANGED <<thread, known, ioRunning, data>>

\* The destructor calls Stop: what is destroyed was stopped.
Destroy ==
  /\ owner = "stopped"
  /\ owner' = "gone"
  /\ UNCHANGED <<thread, quit, known, acquired, converter, ioproc, ioRunning, data>>

-----------------------------------------------------------------------------
(* Core Audio and the recording thread.                                    *)

OnIOProc ==
  /\ ioRunning
  /\ heard + Chunk <= MaxHeard
  /\ recBuf' = recBuf \o [i \in 1..Chunk |-> heard + i]
  /\ heard' = heard + Chunk
  /\ UNCHANGED <<owner, thread, quit, known, acquired, converter, ioproc, ioRunning, frame, framed>>

\* Mutant: one sample too many is erased.
RestTooShort == SubSeq(recBuf, FrameSize + 2, Len(recBuf))

Rest == SubSeq(recBuf, FrameSize + 1, Len(recBuf))

\* quit_ is looked at first: the converter then fails, which the thread does not
\* notice, and a frame without samples is delivered.
OnConverterProc ==
  /\ thread = "converting"
  /\ \/ /\ quit
        /\ frame' = <<>> /\ UNCHANGED recBuf
     \/ /\ ~quit /\ Len(recBuf) >= FrameSize
        /\ frame' = SubSeq(recBuf, 1, FrameSize)
        /\ recBuf' = Rest
  /\ thread' = "frame"
  /\ UNCHANGED <<owner, quit, known, acquired, converter, ioproc, ioRunning, heard, framed>>

FrameEnds ==
  /\ thread = "frame"
  /\ thread' = "converting"
  /\ framed' = framed + Len(frame) /\ frame' = <<>>
  /\ UNCHANGED <<owner, quit, known, acquired, converter, ioproc, ioRunning, recBuf, heard>>

Next ==
  \/ \E n \in 0..Len(Stages) : Acquires(n)
  \/ DeviceStarts \/ Stop \/ Destroy
  \/ OnIOProc \/ OnConverterProc \/ FrameEnds

-----------------------------------------------------------------------------
(* Properties.                                                             *)

\* Frames are whole, and no sample is left out, repeated or out of order between
\* the microphone and the frames; only a recorder that is being stopped delivers
\* frames of another size (macos_recorder.cpp:241 does not look at err).
SamplesInOrder ==
  /\ frame \o recBuf = [i \in 1..(heard - framed) |-> framed + i]
  /\ thread = "frame" => Len(frame) = FrameSize \/ owner = "joining"

\* When Stop has returned, Core Audio keeps nothing of the recorder: whatever the
\* stage at which Start failed, no callback can reach the object any more.
StopUnregisters == owner \in {"stopped", "gone"} => acquired = {}

\* What Stop would hand to Core Audio was never set only if Start has failed between
\* the device and the IOProc.
GarbageOnlyAfterFailure ==
  HasDevice /\ thread = "none" /\ "garbage" \in {converter, ioproc} =>
    owner = "failed" /\ "ioproc" \notin acquired

Phase ==
  CASE owner = "gone"    -> "gone"
    [] owner = "stopped" -> "stopped"
    [] OTHER             -> "started"

Delivering == thread = "frame"
=============================================================================
