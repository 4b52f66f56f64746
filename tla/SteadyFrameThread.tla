--------------------------- MODULE SteadyFrameThread ---------------------------
(***************************************************************************)
(* examples/sumomo/steady_frame_thread.cpp and the two devices that use    *)
(* it, fake_capturer.cpp and fake_recorder.cpp: a thread that makes a frame*)
(* whenever the time of one has passed.                                    *)
(*                                                                         *)
(* The owner is the thread that calls start, stop and destroy.  engine     *)
(* stands for what the frames are made with, engine_ of FakeCapturer and   *)
(* dummy_ of FakeRecorder: set by the thread when it prepares, and, being  *)
(* declared behind th_, destroyed before th_ is joined.  The clock is      *)
(* gettimeofday, which can be set.  Frames carry the samples FakeRecorder  *)
(* computes for the time since the previous one.                           *)
(***************************************************************************)
EXTENDS Integers

CONSTANTS
  Duration,     \* frame_duration, in units of the clock
  Rate, Unit,   \* Rate samples are due in Unit units of the clock
  MaxTime       \* bound: the last time of the clock

SteadyConstants == {Duration, Rate, Unit, MaxTime} \subseteq Nat \ {0}

VARIABLES
  owner,        \* what the owner is doing, see Owners
  thread,       \* program counter of th_, see Pcs
  quit,         \* stop_
  onPrepare,    \* on_prepare_ is set
  engine,       \* "none", "made" or "freed"
  now,          \* the clock
  timestamp,    \* local: when the loop read the clock
  prev,         \* local: the timestamp of the previous frame
  begun,        \* history: the first prev of this thread
  samples,      \* history: the samples of the frames of this thread
  count         \* history: how many frames those were

steadyVars ==
  <<owner, thread, quit, onPrepare, engine, now, timestamp, prev, begun, samples, count>>

Owners == {"stopped", "running", "restarting", "stopping", "destroying", "gone"}
AtRest == owner \in {"stopped", "running"}
Pcs    == {"none", "started", "loop", "frame", "finished"}

SteadyTypeOK ==
  /\ owner \in Owners /\ thread \in Pcs /\ engine \in {"none", "made", "freed"}
  /\ quit \in BOOLEAN /\ onPrepare \in BOOLEAN
  /\ {now, timestamp, prev, begun} \subseteq 0..MaxTime
  /\ samples \in Nat /\ count \in Nat

Init ==
  /\ owner = "stopped" /\ thread = "none" /\ quit = FALSE
  /\ onPrepare = FALSE /\ engine = "none"
  /\ now = 0 /\ timestamp = 0 /\ prev = 0 /\ begun = 0
  /\ samples = 0 /\ count = 0

locals == <<timestamp, prev, begun, samples, count>>

-----------------------------------------------------------------------------
(* The owner.                                                              *)

\* Mutant: Stop returns at once and leaves the thread to itself.
StopThenDetached(waiting, done) ==
  /\ owner' = done
  /\ quit' = (thread # "none")
  /\ UNCHANGED thread

\* Stop: th_ is told to stop, and then joined.
StopThen(waiting, done) ==
  IF thread = "none"
    THEN owner' = done /\ UNCHANGED <<quit, thread>>
    ELSE owner' = waiting /\ quit' = TRUE /\ UNCHANGED thread

\* Start stops a thread that is still there before it makes one.
Start ==
  /\ AtRest
  /\ onPrepare' = TRUE
  /\ IF thread = "none"
       THEN thread' = "started" /\ owner' = "running" /\ UNCHANGED quit
       ELSE StopThen("restarting", "running")
  /\ UNCHANGED <<engine, now, locals>>

Stop ==
  /\ AtRest
  /\ StopThen("stopping", "stopped")
  /\ UNCHANGED <<onPrepare, engine, now, locals>>

\* The destructor of the device: members in reverse order of declaration.
Destroy ==
  /\ AtRest
  /\ engine' = "freed"
  /\ StopThen("destroying", "gone")
  /\ UNCHANGED <<onPrepare, now, locals>>

Joined ==
  /\ owner \in {"restarting", "stopping", "destroying"}
  /\ thread = "finished"
  /\ quit' = FALSE
  /\ thread' = IF owner = "restarting" THEN "started" ELSE "none"
  /\ owner' = CASE owner = "restarting" -> "running"
                [] owner = "stopping"   -> "stopped"
                [] owner = "destroying" -> "gone"
  /\ UNCHANGED <<onPrepare, engine, now, locals>>

-----------------------------------------------------------------------------
(* The thread.                                                             *)

Prepare ==
  /\ thread = "started"
  /\ engine' = IF onPrepare /\ engine # "freed" THEN "made" ELSE engine
  /\ onPrepare' = FALSE
  /\ prev' = now /\ begun' = now
  /\ samples' = 0 /\ count' = 0
  /\ thread' = "loop"
  /\ UNCHANGED <<owner, quit, now, timestamp>>

\* While it is too early the thread sleeps or spins, and looks again.
FrameBegins ==
  /\ thread = "loop" /\ ~quit
  /\ now - prev >= Duration
  /\ timestamp' = now
  /\ thread' = "frame"
  /\ UNCHANGED <<owner, quit, onPrepare, engine, now, prev, begun, samples, count>>

LoopEnds ==
  /\ thread = "loop" /\ quit
  /\ thread' = "finished"
  /\ UNCHANGED <<owner, quit, onPrepare, engine, now, locals>>

NextPrev == timestamp

\* The callback returns.
FrameEnds ==
  /\ thread = "frame"
  /\ samples' = samples + (Rate * (timestamp - prev)) \div Unit
  /\ count' = count + 1
  /\ prev' = NextPrev
  /\ thread' = "loop"
  /\ UNCHANGED <<owner, quit, onPrepare, engine, now, timestamp, begun>>

\* Time passes, or somebody sets the clock.
Clock ==
  /\ now' \in (0..MaxTime) \ {now}
  /\ UNCHANGED <<owner, thread, quit, onPrepare, engine, locals>>

Thread == Prepare \/ FrameBegins \/ LoopEnds \/ FrameEnds

Next == Start \/ Stop \/ Destroy \/ Joined \/ Thread \/ Clock

-----------------------------------------------------------------------------
(* Properties.                                                             *)

\* A frame is made with what the preparation has made, whatever the order of
\* starts and stops; only the destructor of a device that was not stopped takes
\* it away from a thread that still runs (fake_capturer.cpp:66).
EngineOutlivesFrames ==
  thread = "frame" => engine = "made" \/ owner = "destroying"

\* The frames of a run cover the time since it began without a gap, also when
\* the clock is set back: rounding loses less than one sample per frame.
SamplesKeepPace ==
  thread \in {"loop", "frame"} =>
    LET due == Rate * (prev - begun)
    IN  /\ Unit * samples <= due
        /\ due <= Unit * samples + count * (Unit - 1)

Phase ==
  CASE owner = "gone"    -> "gone"
    [] owner = "stopped" -> "stopped"
    [] OTHER             -> "started"

Delivering == thread = "frame"
=============================================================================
