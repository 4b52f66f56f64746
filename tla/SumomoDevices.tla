----------------------------- MODULE SumomoDevices -----------------------------
(***************************************************************************)
(* The capturers and recorders of examples/sumomo, behind the interface of *)
(* capturer.h and recorder.h: the options choose one, and the program      *)
(* starts, stops and destroys it.  The variables of the devices that were  *)
(* not chosen are Unused.                                                  *)
(***************************************************************************)
EXTENDS Integers, Sequences

CONSTANTS
  Duration, Rate, Unit, MaxTime,    \* SteadyFrameThread
  BufferCount,                      \* V4L2Capturer
  Chunk, FrameSize, MaxHeard,       \* MacosRecorder
  MaxFragments,                     \* PulseRecorder
  Unused

VARIABLES
  device,                           \* the device that was chosen
  owner, thread, quit,              \* of the device that was chosen
  onPrepare, engine, now, timestamp, prev, begun, samples, count,
  next, fd, mapped, pool, queued, filled, held, refused, lost,
  known, acquired, converter, ioproc, ioRunning, recBuf, heard, frame,
  context, stream, armed, mainloop, recMutex, recSize, arrived, first, frames,
  framed                            \* of MacosRecorder or of PulseRecorder

Steady == INSTANCE SteadyFrameThread
V4L2   == INSTANCE V4L2Capturer
Macos  == INSTANCE MacosRecorder
Pulse  == INSTANCE PulseRecorder

ASSUME DevicesAssumption ==
  /\ Steady!SteadyConstants /\ V4L2!V4L2Constants
  /\ Macos!MacosConstants /\ Pulse!PulseConstants

ofSteady == <<onPrepare, engine, now, timestamp, prev, begun, samples, count>>
ofV4L2   == <<next, fd, mapped, pool, queued, filled, held, refused, lost>>
ofMacos  == <<known, acquired, converter, ioproc, ioRunning, recBuf, heard,
              frame>>
ofPulse  == <<context, stream, armed, mainloop, recMutex, recSize, arrived, first,
              frames>>

vars == <<device, owner, thread, quit, ofSteady, ofV4L2, ofMacos, ofPulse, framed>>

SteadyUnused ==
  /\ onPrepare = Unused /\ engine = Unused /\ now = Unused /\ timestamp = Unused
  /\ prev = Unused /\ begun = Unused /\ samples = Unused /\ count = Unused

V4L2Unused ==
  /\ next = Unused /\ fd = Unused /\ mapped = Unused /\ pool = Unused
  /\ queued = Unused /\ filled = Unused /\ held = Unused /\ refused = Unused
  /\ lost = Unused

MacosUnused ==
  /\ known = Unused /\ acquired = Unused /\ converter = Unused /\ ioproc = Unused
  /\ ioRunning = Unused /\ recBuf = Unused /\ heard = Unused
  /\ frame = Unused

PulseUnused ==
  /\ context = Unused /\ stream = Unused /\ armed = Unused /\ mainloop = Unused
  /\ recMutex = Unused /\ recSize = Unused /\ arrived = Unused /\ first = Unused
  /\ frames = Unused

\* The choice of on_track by capture_type and audio_type.
Init ==
  \/ device = "fake" /\ Steady!Init /\ V4L2Unused /\ MacosUnused /\ PulseUnused /\ framed = Unused
  \/ device = "v4l2" /\ V4L2!Init /\ SteadyUnused /\ MacosUnused /\ PulseUnused /\ framed = Unused
  \/ device = "macos" /\ Macos!Init /\ SteadyUnused /\ V4L2Unused /\ PulseUnused
  \/ device = "pulse" /\ Pulse!Init /\ SteadyUnused /\ V4L2Unused /\ MacosUnused

Next ==
  /\ UNCHANGED device
  /\ \/ device = "fake" /\ Steady!Next /\ UNCHANGED <<ofV4L2, ofMacos, ofPulse, framed>>
     \/ device = "v4l2" /\ V4L2!Next /\ UNCHANGED <<ofSteady, ofMacos, ofPulse, framed>>
     \/ device = "macos" /\ Macos!Next /\ UNCHANGED <<ofSteady, ofV4L2, ofPulse>>
     \/ device = "pulse" /\ Pulse!Next /\ UNCHANGED <<ofSteady, ofV4L2, ofMacos>>

Spec == Init /\ [][Next]_vars

\* Threads run, and frame callbacks return; a caller that is inside Stop goes on
\* when it can.  Nothing is asked of the hardware or of the PulseAudio server.
Fairness ==
  /\ WF_vars(device = "fake" /\ (Steady!LoopEnds \/ Steady!FrameEnds \/ Steady!Prepare)
               /\ UNCHANGED <<device, ofV4L2, ofMacos, ofPulse, framed>>)
  /\ WF_vars(device = "fake" /\ Steady!Joined
               /\ UNCHANGED <<device, ofV4L2, ofMacos, ofPulse, framed>>)
  /\ WF_vars(device = "v4l2" /\ V4L2!Thread
               /\ UNCHANGED <<device, ofSteady, ofMacos, ofPulse, framed>>)
  /\ WF_vars(device = "v4l2" /\ (V4L2!Joined \/ V4L2!Releases)
               /\ UNCHANGED <<device, ofSteady, ofMacos, ofPulse, framed>>)
  /\ WF_vars(device = "pulse" /\ Pulse!Thread /\ UNCHANGED <<device, ofSteady, ofV4L2, ofMacos>>)
  /\ WF_vars(device = "pulse" /\ Pulse!ReadCallback
               /\ UNCHANGED <<device, ofSteady, ofV4L2, ofMacos>>)
  /\ WF_vars(device = "pulse" /\ (Pulse!StopNotifies \/ Pulse!Joined)
               /\ UNCHANGED <<device, ofSteady, ofV4L2, ofMacos>>)

FairSpec == Spec /\ Fairness

-----------------------------------------------------------------------------
(* Properties.                                                             *)

\* Every variable of the chosen device has its type.
TypeOK ==
  CASE device = "fake"  -> Steady!SteadyTypeOK
    [] device = "v4l2"  -> V4L2!V4L2TypeOK
    [] device = "macos" -> Macos!MacosTypeOK
    [] device = "pulse" -> Pulse!PulseTypeOK

\* Frames are made of what is there: no engine that is gone (fake_capturer.cpp:66), no
\* buffer that is unmapped or in the driver's hands (v4l2_capturer.cpp:191).
FramesHaveTheirSource ==
  /\ TypeOK
  /\ device = "fake" => Steady!EngineOutlivesFrames
  /\ device = "v4l2" => V4L2!BuffersHaveOneHolder

\* What is recorded becomes frames, once, in order and without a gap: the samples of
\* the time that has passed (fake_recorder.cpp:86), what Core Audio has heard
\* (macos_recorder.cpp:384), the fragments of PulseAudio (pulse_recorder.cpp:280).
AudioIsFramed ==
  /\ device = "fake"  => Steady!SamplesKeepPace
  /\ device = "macos" => Macos!SamplesInOrder
  /\ device = "pulse" => Pulse!FragmentsInOrder

\* However far a Start has got, Stop gives back all it took (v4l2_capturer.cpp:226,
\* macos_recorder.cpp:270), and hands over values nobody has set only if Start
\* failed between the device and the IOProc (macos_recorder.cpp:281 and 286).
StopGivesBack ==
  /\ device = "v4l2"  => V4L2!StopReleasesAll
  /\ device = "macos" => Macos!StopUnregisters /\ Macos!GarbageOnlyAfterFailure

\* The recording thread and the mainloop of PulseAudio wait for each other only
\* while the other can still come: not with both locks (pulse_recorder.cpp:299 and
\* 343) and not for a fragment nobody will tell of (line 276).
ThreadsMeet ==
  device = "pulse" => Pulse!LocksMeetOnlyOnGarbage /\ Pulse!WaitingMeansArmed

\* Stop returns: always from the camera and the steady thread, and from the
\* PulseAudio recorder unless its thread is stuck, for good, in one of the three
\* places named there.  (From the macOS recorder it does not, see MacosRecorder.)
StopReturns ==
  /\ (device = "fake" /\ owner \in {"stopping", "restarting", "destroying"})
       ~> (owner \in {"stopped", "running", "gone"})
  /\ (device = "v4l2" /\ owner = "joining") ~> (owner \in {"stopped", "opening"})
  /\ (device = "pulse" /\ owner = "joining") ~> (owner = "stopped" \/ []Pulse!StuckIn)

-----------------------------------------------------------------------------
(* Every device keeps the promise of FrameSource.                          *)

Phase ==
  CASE device = "fake"  -> Steady!Phase
    [] device = "v4l2"  -> V4L2!Phase
    [] device = "macos" -> Macos!Phase
    [] device = "pulse" -> Pulse!Phase

Delivering ==
  CASE device = "fake"  -> Steady!Delivering
    [] device = "v4l2"  -> V4L2!Delivering
    [] device = "macos" -> Macos!Delivering
    [] device = "pulse" -> Pulse!Delivering

Source == INSTANCE FrameSource WITH phase <- Phase, delivering <- Delivering

\* No frame is being delivered when stop has returned, and none is until start is
\* called again, whichever device was chosen and however its threads and its driver
\* behave (steady_frame_thread.cpp:75, v4l2_capturer.cpp:226, macos_recorder.cpp:270,
\* pulse_recorder.cpp:331).
ImplementsFrameSource == Source!Spec
=============================================================================
