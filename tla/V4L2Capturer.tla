------------------------------ MODULE V4L2Capturer -----------------------------
(***************************************************************************)
(* examples/sumomo/v4l2_capturer.cpp: a camera whose driver fills buffers  *)
(* that are mapped into memory.  The owner starts, stops and destroys the  *)
(* capturer; the capture thread takes filled buffers from the driver, reads*)
(* them, calls back with a frame and gives them back.                      *)
(*                                                                         *)
(* The driver is external: it fills what is queued and may refuse anything.*)
(* Buffers are numbered from 1.                                            *)
(***************************************************************************)
EXTENDS Naturals

CONSTANT BufferCount    \* V4L2_BUFFER_COUNT, or what the driver made of it

V4L2Constants == BufferCount \in Nat \ {0}

Buffers == 1..BufferCount
NoBuffer == 0

VARIABLES
  owner,        \* what the owner is doing, see Owners
  thread,       \* program counter of capture_thread_, see Pcs
  quit,         \* quit_
  next,         \* what follows the Stop that is under way
  fd,           \* device_fd_ is open
  mapped,       \* the buffers that are mapped into memory
  pool,         \* pool_
  queued,       \* the buffers the driver has, to fill ...
  filled,       \* ... or filled already
  held,         \* local: the buffer the thread has taken
  refused,      \* history: the driver refused a buffer while they were mapped
  lost          \* history: buffers of the pool the driver has not taken back

v4l2Vars ==
  <<owner, thread, quit, next, fd, mapped, pool, queued, filled, held, refused, lost>>

Owners == {"stopped", "joining", "releasing", "opening", "mapping", "failed",
           "running", "gone", "terminated"}
Pcs    == {"none", "select", "convert", "frame", "requeue", "finished"}

V4L2TypeOK ==
  /\ owner \in Owners /\ thread \in Pcs /\ next \in {"stopped", "opening"}
  /\ {quit, fd, refused} \subseteq BOOLEAN
  /\ mapped \subseteq Buffers /\ pool \subseteq Buffers /\ lost \subseteq Buffers
  /\ queued \subseteq Buffers /\ filled \subseteq Buffers
  /\ held \in Buffers \cup {NoBuffer}

Init ==
  /\ owner = "stopped" /\ thread = "none" /\ quit = FALSE /\ next = "stopped"
  /\ fd = FALSE /\ refused = FALSE /\ held = NoBuffer
  /\ mapped = {} /\ pool = {} /\ queued = {} /\ filled = {} /\ lost = {}

buffers == <<mapped, pool, queued, filled, held, refused, lost>>

AtRest == owner \in {"stopped", "failed", "running"}

-----------------------------------------------------------------------------
(* The owner.                                                              *)

\* Stop, and the Stop with which Start begins.
StopBegins(after) ==
  /\ AtRest
  /\ next' = after
  /\ IF thread = "none"
       THEN owner' = "releasing" /\ UNCHANGED quit
       ELSE owner' = "joining" /\ quit' = TRUE
  /\ UNCHANGED <<thread, fd, buffers>>

Joined ==
  /\ owner = "joining" /\ thread = "finished"
  /\ thread' = "none" /\ quit' = FALSE
  /\ owner' = "releasing"
  /\ UNCHANGED <<next, fd, buffers>>

Unmaps == mapped \ pool

Releases ==
  /\ owner = "releasing"
  /\ mapped' = Unmaps
  /\ pool' = {} /\ queued' = {} /\ filled' = {} /\ lost' = {}
  /\ fd' = FALSE
  /\ owner' = next
  /\ UNCHANGED <<thread, quit, next, held, refused>>

\* open fails, a later call up to VIDIOC_REQBUFS does, or all is well.
Opens ==
  /\ owner = "opening"
  /\ \/ owner' = "failed" /\ UNCHANGED fd
     \/ owner' \in {"failed", "mapping"} /\ fd' = TRUE
  /\ UNCHANGED <<thread, quit, next, buffers>>

\* One turn of the loop of lines 120 to 147; a buffer that was mapped but is
\* refused by VIDIOC_QBUF never gets into the pool.
MapBuffer(b) ==
  /\ owner = "mapping"
  /\ b \notin pool /\ \A c \in 1..(b - 1) : c \in pool
  /\ \/ owner' = "failed" /\ UNCHANGED <<mapped, pool, queued, refused>>
     \/ /\ owner' = "failed" /\ refused' = TRUE
        /\ mapped' = mapped \cup {b}
        /\ UNCHANGED <<pool, queued>>
     \/ /\ mapped' = mapped \cup {b}
        /\ pool' = pool \cup {b} /\ queued' = queued \cup {b}
        /\ UNCHANGED <<owner, refused>>
  /\ UNCHANGED <<thread, quit, next, fd, filled, held, lost>>

StreamOn ==
  /\ owner = "mapping" /\ pool = Buffers
  /\ \/ owner' = "failed" /\ UNCHANGED <<thread, quit>>
     \/ owner' = "running" /\ thread' = "select" /\ quit' = FALSE
  /\ UNCHANGED <<next, fd, buffers>>

\* There is no destructor: capture_thread_ ends the program if it was not
\* joined, and the device stays open.
Destroy ==
  /\ AtRest
  /\ owner' = IF thread = "none" THEN "gone" ELSE "terminated"
  /\ UNCHANGED <<thread, quit, next, fd, buffers>>

-----------------------------------------------------------------------------
(* The driver and the capture thread.                                      *)

DriverFills(b) ==
  /\ thread # "none"
  /\ b \in queued
  /\ queued' = queued \ {b} /\ filled' = filled \cup {b}
  /\ UNCHANGED <<owner, thread, quit, next, fd, mapped, pool, held, refused, lost>>

\* Mutant: quit_ is looked at only when select has failed.
SeesQuitIfIdle == quit /\ filled = {} /\ queued = {}

SeesQuit == quit

\* select returns after a second at the latest.
Selects ==
  /\ thread = "select"
  /\ \/ /\ SeesQuit
        /\ thread' = "finished" /\ UNCHANGED <<filled, held>>
     \/ /\ ~SeesQuit /\ thread' = "finished"         \* select fails
        /\ UNCHANGED <<filled, held>>
     \/ /\ ~SeesQuit
        /\ \E b \in filled : held' = b /\ filled' = filled \ {b}
        /\ thread' = "convert"
  /\ UNCHANGED <<owner, quit, next, fd, mapped, pool, queued, refused, lost>>

\* The picture is read from the buffer, and the callback runs.
Converts ==
  /\ thread = "convert" /\ thread' = "frame"
  /\ UNCHANGED <<owner, quit, next, fd, buffers>>

FrameEnds ==
  /\ thread = "frame" /\ thread' = "requeue"
  /\ UNCHANGED <<owner, quit, next, fd, buffers>>

\* Mutant: a buffer is given back only while the capture goes on.
GivenBackUnlessQuit == IF quit THEN {} ELSE {held}

GivenBack == {held}

\* When the driver refuses the buffer, that is logged and it is lost.
Requeues ==
  /\ thread = "requeue"
  /\ \/ /\ queued' = queued \cup GivenBack
        /\ UNCHANGED lost
     \/ lost' = lost \cup {held} /\ UNCHANGED queued
  /\ held' = NoBuffer
  /\ thread' = "select"
  /\ UNCHANGED <<owner, quit, next, fd, mapped, pool, filled, refused>>

Thread == Selects \/ Converts \/ FrameEnds \/ Requeues

Next ==
  \/ StopBegins("stopped") \/ StopBegins("opening")
  \/ Joined \/ Releases \/ Opens \/ StreamOn \/ Destroy
  \/ \E b \in Buffers : MapBuffer(b) \/ DriverFills(b)
  \/ Thread

-----------------------------------------------------------------------------
(* Properties.                                                             *)

\* While the thread runs, every buffer of the pool is mapped and has exactly
\* one holder: the driver's two queues, the thread, or nobody, once the driver
\* refused it.
BuffersHaveOneHolder ==
  thread # "none" =>
    /\ pool \subseteq mapped
    /\ pool = queued \cup filled \cup lost \cup ({held} \ {NoBuffer})
    /\ queued \cap filled = {} /\ held \notin queued \cup filled \cup lost
    /\ lost \cap (queued \cup filled) = {}

\* However far a Start has got, Stop gives back what it took: only a buffer that
\* was mapped and then refused stays behind (v4l2_capturer.cpp:140).
StopReleasesAll ==
  owner = "stopped" => ~fd /\ (mapped # {} => refused)

\* The Stop that the caller asked for has passed its join; the one with which
\* Start begins returns to Start.
HasStopped ==
  \/ owner = "stopped"
  \/ owner = "releasing" /\ next = "stopped"

Phase ==
  CASE owner = "gone" -> "gone"
    [] HasStopped     -> "stopped"
    [] OTHER          -> "started"

Delivering == thread = "frame"
=============================================================================
