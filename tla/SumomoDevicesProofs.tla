-------------------------- MODULE SumomoDevicesProofs --------------------------
(***************************************************************************)
(* Proofs about SumomoDevices, for every value of its constants: the       *)
(* invariants that its runs check, and that every device implements        *)
(* FrameSource.  Each device has an inductive invariant of its own; the    *)
(* four are joined at the end.                                             *)
(***************************************************************************)
EXTENDS SumomoDevices, SequenceTheorems, TLAPS

-----------------------------------------------------------------------------
(* SteadyFrameThread: fake_capturer.cpp, fake_recorder.cpp.                *)

\* There is a thread from Start until it has been joined.
SteadyOwner == thread = "none" <=> owner \in {"stopped", "gone"}

\* A thread that will prepare finds on_prepare_ set, or the engine made before.
SteadyEngine ==
  /\ thread = "started" \/ owner = "restarting" => onPrepare \/ engine # "none"
  /\ thread \in {"loop", "frame"} => engine # "none"
  /\ engine = "freed" => owner \in {"destroying", "gone"}

\* A frame is made when its time has passed.
SteadyFrame == thread = "frame" => timestamp - prev >= Duration

SteadyInv ==
  /\ Steady!SteadyTypeOK /\ SteadyOwner /\ SteadyEngine /\ SteadyFrame
  /\ Steady!SamplesKeepPace

LEMMA Quotient ==
  ASSUME NEW u \in Nat, u # 0, NEW x \in Int
  PROVE  /\ x \div u \in Int
         /\ u * (x \div u) <= x /\ x <= u * (x \div u) + (u - 1)
  OBVIOUS

LEMMA NatQuotient == ASSUME NEW u \in Nat, u # 0, NEW x \in Nat PROVE x \div u \in Nat
  OBVIOUS

LEMMA Sums ==
  ASSUME NEW r \in Int, NEW a \in Int, NEW b \in Int, NEW c \in Int
  PROVE  /\ r * (a - c) \in Int
         /\ r * (a - c) = r * (a - b) + r * (b - c)
         /\ r * (a + b) = r * a + r * b
  OBVIOUS

LEMMA NatProduct == ASSUME NEW r \in Nat, NEW a \in Nat PROVE r * a \in Nat
  OBVIOUS

\* What a frame adds to the samples.
LEMMA SamplesOfFrame ==
  ASSUME SteadyInv, thread = "frame"
  PROVE  \E x \in Nat, q \in Nat :
           /\ x = Rate * (timestamp - prev) /\ q = x \div Unit
           /\ Unit * q <= x /\ x <= Unit * q + (Unit - 1)
<1>1. Rate \in Nat /\ Unit \in Nat /\ Unit # 0 /\ Duration \in Nat
  BY DevicesAssumption DEF Steady!SteadyConstants
<1>2. timestamp \in Int /\ prev \in Int /\ timestamp - prev >= Duration
  BY DEF SteadyInv, SteadyFrame, Steady!SteadyTypeOK
<1>3. timestamp - prev \in Nat
  BY <1>1, <1>2
<1>4. PICK x \in Nat : x = Rate * (timestamp - prev)
  BY <1>1, <1>3, NatProduct
<1>5. PICK q \in Nat : q = x \div Unit
  BY <1>1, NatQuotient
<1>6. Unit * q <= x /\ x <= Unit * q + (Unit - 1)
  BY <1>1, <1>5, Quotient
<1>7. QED
  BY <1>4, <1>5, <1>6

LEMMA SteadyStart == ASSUME SteadyInv, Steady!Start PROVE SteadyInv'
<1> USE DevicesAssumption DEF Steady!Start, Steady!AtRest, Steady!StopThen, Steady!locals
<1>1. Steady!SteadyTypeOK'
  BY DEF SteadyInv, Steady!SteadyTypeOK, Steady!Owners, Steady!Pcs
<1>2. SteadyOwner'
  BY DEF SteadyInv, SteadyOwner
<1>3. SteadyEngine'
  BY DEF SteadyInv, SteadyEngine
<1>4. SteadyFrame'
  BY DEF SteadyInv, SteadyFrame
<1>5. Steady!SamplesKeepPace'
  BY DEF SteadyInv, Steady!SamplesKeepPace
<1>6. QED
  BY <1>1, <1>2, <1>3, <1>4, <1>5 DEF SteadyInv

LEMMA SteadyStop == ASSUME SteadyInv, Steady!Stop PROVE SteadyInv'
<1> USE DevicesAssumption DEF Steady!Stop, Steady!AtRest, Steady!StopThen, Steady!locals
<1>1. Steady!SteadyTypeOK'
  BY DEF SteadyInv, Steady!SteadyTypeOK, Steady!Owners, Steady!Pcs
<1>2. SteadyOwner'
  BY DEF SteadyInv, SteadyOwner
<1>3. SteadyEngine'
  BY DEF SteadyInv, SteadyEngine
<1>4. SteadyFrame'
  BY DEF SteadyInv, SteadyFrame
<1>5. Steady!SamplesKeepPace'
  BY DEF SteadyInv, Steady!SamplesKeepPace
<1>6. QED
  BY <1>1, <1>2, <1>3, <1>4, <1>5 DEF SteadyInv

LEMMA SteadyDestroy == ASSUME SteadyInv, Steady!Destroy PROVE SteadyInv'
<1> USE DevicesAssumption DEF Steady!Destroy, Steady!AtRest, Steady!StopThen, Steady!locals
<1>1. Steady!SteadyTypeOK'
  BY DEF SteadyInv, Steady!SteadyTypeOK, Steady!Owners, Steady!Pcs
<1>2. SteadyOwner'
  BY DEF SteadyInv, SteadyOwner
<1>3. SteadyEngine'
  BY DEF SteadyInv, SteadyEngine
<1>4. SteadyFrame'
  BY DEF SteadyInv, SteadyFrame
<1>5. Steady!SamplesKeepPace'
  BY DEF SteadyInv, Steady!SamplesKeepPace
<1>6. QED
  BY <1>1, <1>2, <1>3, <1>4, <1>5 DEF SteadyInv

LEMMA SteadyJoined == ASSUME SteadyInv, Steady!Joined PROVE SteadyInv'
<1> USE DevicesAssumption DEF Steady!Joined, Steady!locals
<1>1. Steady!SteadyTypeOK'
  BY DEF SteadyInv, Steady!SteadyTypeOK, Steady!Owners, Steady!Pcs
<1>2. SteadyOwner'
  BY DEF SteadyInv, SteadyOwner
<1>3. SteadyEngine'
  BY DEF SteadyInv, SteadyEngine
<1>4. SteadyFrame'
  BY DEF SteadyInv, SteadyFrame
<1>5. Steady!SamplesKeepPace'
  BY DEF SteadyInv, Steady!SamplesKeepPace
<1>6. QED
  BY <1>1, <1>2, <1>3, <1>4, <1>5 DEF SteadyInv

LEMMA SteadyPrepare == ASSUME SteadyInv, Steady!Prepare PROVE SteadyInv'
<1> USE DevicesAssumption DEF Steady!Prepare, Steady!locals
<1>1. Steady!SteadyTypeOK'
  BY DEF SteadyInv, Steady!SteadyTypeOK, Steady!Owners, Steady!Pcs
<1>2. SteadyOwner'
  BY DEF SteadyInv, SteadyOwner
<1>3. SteadyEngine'
  BY DEF SteadyInv, SteadyEngine
<1>4. SteadyFrame'
  BY DEF SteadyInv, SteadyFrame
<1>5. Steady!SamplesKeepPace'
  BY DEF SteadyInv, Steady!SteadyTypeOK, SteadyOwner, SteadyEngine, SteadyFrame,
         Steady!SamplesKeepPace, Steady!Owners, Steady!Pcs, Steady!SteadyConstants
<1>6. QED
  BY <1>1, <1>2, <1>3, <1>4, <1>5 DEF SteadyInv

LEMMA SteadyFrameBegins == ASSUME SteadyInv, Steady!FrameBegins PROVE SteadyInv'
<1> USE DevicesAssumption DEF Steady!FrameBegins, Steady!locals
<1>1. Steady!SteadyTypeOK'
  BY DEF SteadyInv, Steady!SteadyTypeOK, Steady!Owners, Steady!Pcs
<1>2. SteadyOwner'
  BY DEF SteadyInv, SteadyOwner
<1>3. SteadyEngine'
  BY DEF SteadyInv, SteadyEngine
<1>4. SteadyFrame'
  BY DEF SteadyInv, SteadyFrame
<1>5. Steady!SamplesKeepPace'
  BY DEF SteadyInv, Steady!SamplesKeepPace
<1>6. QED
  BY <1>1, <1>2, <1>3, <1>4, <1>5 DEF SteadyInv

LEMMA SteadyLoopEnds == ASSUME SteadyInv, Steady!LoopEnds PROVE SteadyInv'
<1> USE DevicesAssumption DEF Steady!LoopEnds, Steady!locals
<1>1. Steady!SteadyTypeOK'
  BY DEF SteadyInv, Steady!SteadyTypeOK, Steady!Owners, Steady!Pcs
<1>2. SteadyOwner'
  BY DEF SteadyInv, SteadyOwner
<1>3. SteadyEngine'
  BY DEF SteadyInv, SteadyEngine
<1>4. SteadyFrame'
  BY DEF SteadyInv, SteadyFrame
<1>5. Steady!SamplesKeepPace'
  BY DEF SteadyInv, Steady!SamplesKeepPace
<1>6. QED
  BY <1>1, <1>2, <1>3, <1>4, <1>5 DEF SteadyInv

LEMMA SteadyFrameEnds == ASSUME SteadyInv, Steady!FrameEnds PROVE SteadyInv'
<1> USE DevicesAssumption DEF Steady!FrameEnds, Steady!locals
<1>1. Steady!SteadyTypeOK'
  <2>1. samples \in Nat /\ count \in Nat /\ timestamp \in 0..MaxTime
    BY DEF SteadyInv, Steady!SteadyTypeOK
  <2>2. samples' \in Nat /\ count' \in Nat
    BY <2>1, SamplesOfFrame
  <2>3. prev' = timestamp /\ thread' = "loop"
        /\ UNCHANGED <<owner, quit, onPrepare, engine, now, timestamp, begun>>
    BY DEF Steady!NextPrev
  <2>4. QED
    BY <2>1, <2>2, <2>3 DEF SteadyInv, Steady!SteadyTypeOK, Steady!Owners, Steady!Pcs
<1>2. SteadyOwner'
  BY DEF SteadyInv, SteadyOwner
<1>3. SteadyEngine'
  BY DEF SteadyInv, SteadyEngine
<1>4. SteadyFrame'
  BY DEF SteadyInv, SteadyFrame
<1>5. Steady!SamplesKeepPace'
  <2>1. Rate \in Nat /\ Unit \in Nat /\ Unit # 0
    BY DEF Steady!SteadyConstants
  <2>2. /\ samples \in Nat /\ count \in Nat
        /\ timestamp \in Int /\ prev \in Int /\ begun \in Int
    BY DEF SteadyInv, Steady!SteadyTypeOK
  <2>3. PICK x \in Nat, q \in Nat :
          /\ x = Rate * (timestamp - prev) /\ q = x \div Unit
          /\ Unit * q <= x /\ x <= Unit * q + (Unit - 1)
    BY SamplesOfFrame
  <2>5. /\ samples' = samples + q /\ count' = count + 1
        /\ prev' = timestamp /\ begun' = begun
    BY <2>3 DEF Steady!NextPrev
  <2>7. PICK due \in Int : due = Rate * (prev - begun)
    BY <2>1, <2>2, Sums
  <2>8. Rate * (timestamp - begun) = x + due
    BY <2>1, <2>2, <2>3, <2>7, Sums
  <2>9. Unit * samples <= due /\ due <= Unit * samples + count * (Unit - 1)
    BY <2>7 DEF SteadyInv, Steady!SamplesKeepPace
  <2>10. /\ Unit * (samples + q) = Unit * samples + Unit * q
         /\ (count + 1) * (Unit - 1) = count * (Unit - 1) + (Unit - 1)
    BY <2>1, <2>2
  <2>11. PICK us \in Int, uq \in Int, cu \in Int :
           us = Unit * samples /\ uq = Unit * q /\ cu = count * (Unit - 1)
    BY <2>1, <2>2
  <2>12. us + uq <= x + due /\ x + due <= us + uq + (cu + (Unit - 1))
    <3>1. us <= due /\ due <= us + cu /\ uq <= x /\ x <= uq + (Unit - 1)
      BY <2>3, <2>9, <2>11
    <3>2. QED
      BY <2>1, <3>1
  <2>13. /\ Unit * (samples + q) <= x + due
         /\ x + due <= Unit * (samples + q) + (count + 1) * (Unit - 1)
    BY <2>10, <2>11, <2>12
  <2>14. QED
    BY <2>5, <2>8, <2>13 DEF Steady!SamplesKeepPace
<1>6. QED
  BY <1>1, <1>2, <1>3, <1>4, <1>5 DEF SteadyInv

LEMMA SteadyClock == ASSUME SteadyInv, Steady!Clock PROVE SteadyInv'
<1> USE DevicesAssumption DEF Steady!Clock, Steady!locals
<1>1. Steady!SteadyTypeOK'
  BY DEF SteadyInv, Steady!SteadyTypeOK, Steady!Owners, Steady!Pcs
<1>2. SteadyOwner'
  BY DEF SteadyInv, SteadyOwner
<1>3. SteadyEngine'
  BY DEF SteadyInv, SteadyEngine
<1>4. SteadyFrame'
  BY DEF SteadyInv, SteadyFrame
<1>5. Steady!SamplesKeepPace'
  BY DEF SteadyInv, Steady!SamplesKeepPace
<1>6. QED
  BY <1>1, <1>2, <1>3, <1>4, <1>5 DEF SteadyInv

-----------------------------------------------------------------------------
(* V4L2Capturer: v4l2_capturer.cpp.                                        *)

\* Who has a thread, and what the thread holds.
V4L2Owner ==
  /\ thread # "none" => owner \in {"running", "joining", "terminated"}
  /\ owner = "joining" => thread # "none"
  /\ held = V4L2!NoBuffer <=> thread \notin {"convert", "frame", "requeue"}

\* While buffers are mapped and queued, the driver has those of the pool.
V4L2Mapping ==
  owner \in {"opening", "mapping"} =>
    /\ queued = pool /\ filled = {} /\ lost = {}
    /\ owner = "opening" => pool = {}

V4L2Mapped ==
  /\ pool \subseteq mapped
  /\ ~ refused => mapped = pool

V4L2Inv ==
  /\ V4L2!V4L2TypeOK /\ V4L2Owner /\ V4L2Mapping /\ V4L2Mapped
  /\ V4L2!BuffersHaveOneHolder /\ V4L2!StopReleasesAll

LEMMA V4L2StopBegins ==
  ASSUME V4L2Inv, NEW after \in {"stopped", "opening"}, V4L2!StopBegins(after)
  PROVE  V4L2Inv'
<1> USE DEF V4L2!StopBegins, V4L2!AtRest, V4L2!buffers
<1>1. V4L2!V4L2TypeOK'
  BY DEF V4L2Inv, V4L2!V4L2TypeOK, V4L2!Owners, V4L2!Pcs
<1>2. V4L2Owner'
  BY DEF V4L2Inv, V4L2Owner
<1>3. V4L2Mapping'
  BY DEF V4L2Inv, V4L2Mapping
<1>4. V4L2Mapped'
  BY DEF V4L2Inv, V4L2Mapped
<1>5. V4L2!BuffersHaveOneHolder'
  BY DEF V4L2Inv, V4L2!BuffersHaveOneHolder
<1>6. V4L2!StopReleasesAll'
  BY DEF V4L2Inv, V4L2!StopReleasesAll
<1>7. QED
  BY <1>1, <1>2, <1>3, <1>4, <1>5, <1>6 DEF V4L2Inv

LEMMA V4L2Joined == ASSUME V4L2Inv, V4L2!Joined PROVE V4L2Inv'
<1> USE DEF V4L2!Joined, V4L2!buffers
<1>1. V4L2!V4L2TypeOK'
  BY DEF V4L2Inv, V4L2!V4L2TypeOK, V4L2!Owners, V4L2!Pcs
<1>2. V4L2Owner'
  BY DEF V4L2Inv, V4L2Owner
<1>3. V4L2Mapping'
  BY DEF V4L2Inv, V4L2Mapping
<1>4. V4L2Mapped'
  BY DEF V4L2Inv, V4L2Mapped
<1>5. V4L2!BuffersHaveOneHolder'
  BY DEF V4L2Inv, V4L2!BuffersHaveOneHolder
<1>6. V4L2!StopReleasesAll'
  BY DEF V4L2Inv, V4L2!StopReleasesAll
<1>7. QED
  BY <1>1, <1>2, <1>3, <1>4, <1>5, <1>6 DEF V4L2Inv

LEMMA V4L2Releases == ASSUME V4L2Inv, V4L2!Releases PROVE V4L2Inv'
<1> USE DEF V4L2!Releases, V4L2!Unmaps, V4L2!buffers
<1>1. V4L2!V4L2TypeOK'
  BY DEF V4L2Inv, V4L2!V4L2TypeOK, V4L2!Owners, V4L2!Pcs
<1>2. V4L2Owner'
  BY DEF V4L2Inv, V4L2!V4L2TypeOK, V4L2Owner, V4L2!Owners, V4L2!Pcs
<1>3. V4L2Mapping'
  BY DEF V4L2Inv, V4L2Mapping
<1>4. V4L2Mapped'
  BY DEF V4L2Inv, V4L2Mapped
<1>5. V4L2!BuffersHaveOneHolder'
  BY DEF V4L2Inv, V4L2!V4L2TypeOK, V4L2Owner, V4L2Mapping, V4L2Mapped,
         V4L2!BuffersHaveOneHolder, V4L2!StopReleasesAll, V4L2!Owners, V4L2!Pcs,
         V4L2!Buffers, V4L2!NoBuffer
<1>6. V4L2!StopReleasesAll'
  BY DEF V4L2Inv, V4L2!V4L2TypeOK, V4L2Owner, V4L2Mapping, V4L2Mapped,
         V4L2!BuffersHaveOneHolder, V4L2!StopReleasesAll, V4L2!Owners, V4L2!Pcs,
         V4L2!Buffers, V4L2!NoBuffer
<1>7. QED
  BY <1>1, <1>2, <1>3, <1>4, <1>5, <1>6 DEF V4L2Inv

LEMMA V4L2Opens == ASSUME V4L2Inv, V4L2!Opens PROVE V4L2Inv'
<1> USE DEF V4L2!Opens, V4L2!buffers
<1>1. V4L2!V4L2TypeOK'
  BY DEF V4L2Inv, V4L2!V4L2TypeOK, V4L2!Owners, V4L2!Pcs
<1>2. V4L2Owner'
  BY DEF V4L2Inv, V4L2Owner
<1>3. V4L2Mapping'
  BY DEF V4L2Inv, V4L2Mapping
<1>4. V4L2Mapped'
  BY DEF V4L2Inv, V4L2Mapped
<1>5. V4L2!BuffersHaveOneHolder'
  BY DEF V4L2Inv, V4L2!BuffersHaveOneHolder
<1>6. V4L2!StopReleasesAll'
  BY DEF V4L2Inv, V4L2!StopReleasesAll
<1>7. QED
  BY <1>1, <1>2, <1>3, <1>4, <1>5, <1>6 DEF V4L2Inv

LEMMA V4L2MapBuffer ==
  ASSUME V4L2Inv, NEW b \in V4L2!Buffers, V4L2!MapBuffer(b)
  PROVE  V4L2Inv'
<1> USE DEF V4L2!MapBuffer, V4L2!buffers
<1>1. V4L2!V4L2TypeOK'
  BY DEF V4L2Inv, V4L2!V4L2TypeOK, V4L2!Owners, V4L2!Pcs
<1>2. V4L2Owner'
  BY DEF V4L2Inv, V4L2Owner
<1>3. V4L2Mapping'
  BY DEF V4L2Inv, V4L2Mapping
<1>4. V4L2Mapped'
  BY DEF V4L2Inv, V4L2Mapped
<1>5. V4L2!BuffersHaveOneHolder'
  BY DEF V4L2Inv, V4L2!V4L2TypeOK, V4L2Owner, V4L2Mapping, V4L2Mapped,
         V4L2!BuffersHaveOneHolder, V4L2!StopReleasesAll, V4L2!Owners, V4L2!Pcs,
         V4L2!Buffers, V4L2!NoBuffer
<1>6. V4L2!StopReleasesAll'
  BY DEF V4L2Inv, V4L2!StopReleasesAll
<1>7. QED
  BY <1>1, <1>2, <1>3, <1>4, <1>5, <1>6 DEF V4L2Inv

LEMMA V4L2StreamOn == ASSUME V4L2Inv, V4L2!StreamOn PROVE V4L2Inv'
<1> USE DEF V4L2!StreamOn, V4L2!buffers
<1>1. V4L2!V4L2TypeOK'
  BY DEF V4L2Inv, V4L2!V4L2TypeOK, V4L2!Owners, V4L2!Pcs
<1>2. V4L2Owner'
  BY DEF V4L2Inv, V4L2Owner
<1>3. V4L2Mapping'
  BY DEF V4L2Inv, V4L2Mapping
<1>4. V4L2Mapped'
  BY DEF V4L2Inv, V4L2Mapped
<1>5. V4L2!BuffersHaveOneHolder'
  <2>1. thread = "none" /\ held = V4L2!NoBuffer
    BY DEF V4L2Inv, V4L2Owner
  <2>2. queued = pool /\ filled = {} /\ lost = {} /\ pool \subseteq mapped
    BY DEF V4L2Inv, V4L2Mapping, V4L2Mapped
  <2>3. held \notin queued
    BY <2>1 DEF V4L2Inv, V4L2!V4L2TypeOK, V4L2!Buffers, V4L2!NoBuffer
  <2>4. UNCHANGED <<mapped, pool, queued, filled, held, lost>>
    OBVIOUS
  <2>5. QED
    BY <2>1, <2>2, <2>3, <2>4 DEF V4L2!BuffersHaveOneHolder
<1>6. V4L2!StopReleasesAll'
  BY DEF V4L2Inv, V4L2!StopReleasesAll
<1>7. QED
  BY <1>1, <1>2, <1>3, <1>4, <1>5, <1>6 DEF V4L2Inv

LEMMA V4L2Destroy == ASSUME V4L2Inv, V4L2!Destroy PROVE V4L2Inv'
<1> USE DEF V4L2!Destroy, V4L2!AtRest, V4L2!buffers
<1>1. V4L2!V4L2TypeOK'
  BY DEF V4L2Inv, V4L2!V4L2TypeOK, V4L2!Owners, V4L2!Pcs
<1>2. V4L2Owner'
  BY DEF V4L2Inv, V4L2Owner
<1>3. V4L2Mapping'
  BY DEF V4L2Inv, V4L2Mapping
<1>4. V4L2Mapped'
  BY DEF V4L2Inv, V4L2Mapped
<1>5. V4L2!BuffersHaveOneHolder'
  BY DEF V4L2Inv, V4L2!BuffersHaveOneHolder
<1>6. V4L2!StopReleasesAll'
  BY DEF V4L2Inv, V4L2!StopReleasesAll
<1>7. QED
  BY <1>1, <1>2, <1>3, <1>4, <1>5, <1>6 DEF V4L2Inv

LEMMA V4L2DriverFills ==
  ASSUME V4L2Inv, NEW b \in V4L2!Buffers, V4L2!DriverFills(b)
  PROVE  V4L2Inv'
<1> USE DEF V4L2!DriverFills, V4L2!buffers
<1>1. V4L2!V4L2TypeOK'
  BY DEF V4L2Inv, V4L2!V4L2TypeOK, V4L2!Owners, V4L2!Pcs
<1>2. V4L2Owner'
  BY DEF V4L2Inv, V4L2Owner
<1>3. V4L2Mapping'
  BY DEF V4L2Inv, V4L2!V4L2TypeOK, V4L2Owner, V4L2Mapping, V4L2Mapped,
         V4L2!BuffersHaveOneHolder, V4L2!StopReleasesAll, V4L2!Owners, V4L2!Pcs,
         V4L2!Buffers, V4L2!NoBuffer
<1>4. V4L2Mapped'
  BY DEF V4L2Inv, V4L2Mapped
<1>5. V4L2!BuffersHaveOneHolder'
  BY DEF V4L2Inv, V4L2!BuffersHaveOneHolder
<1>6. V4L2!StopReleasesAll'
  BY DEF V4L2Inv, V4L2!StopReleasesAll
<1>7. QED
  BY <1>1, <1>2, <1>3, <1>4, <1>5, <1>6 DEF V4L2Inv

LEMMA V4L2Selects == ASSUME V4L2Inv, V4L2!Selects PROVE V4L2Inv'
<1> USE DEF V4L2!Selects, V4L2!SeesQuit, V4L2!buffers
<1>1. V4L2!V4L2TypeOK'
  BY DEF V4L2Inv, V4L2!V4L2TypeOK, V4L2!Owners, V4L2!Pcs
<1>2. V4L2Owner'
  BY DEF V4L2Inv, V4L2!V4L2TypeOK, V4L2Owner, V4L2Mapping, V4L2Mapped,
         V4L2!BuffersHaveOneHolder, V4L2!StopReleasesAll, V4L2!Owners, V4L2!Pcs,
         V4L2!Buffers, V4L2!NoBuffer
<1>3. V4L2Mapping'
  BY DEF V4L2Inv, V4L2Mapping
<1>4. V4L2Mapped'
  BY DEF V4L2Inv, V4L2Mapped
<1>5. V4L2!BuffersHaveOneHolder'
  BY DEF V4L2Inv, V4L2!V4L2TypeOK, V4L2Owner, V4L2Mapping, V4L2Mapped,
         V4L2!BuffersHaveOneHolder, V4L2!StopReleasesAll, V4L2!Owners, V4L2!Pcs,
         V4L2!Buffers, V4L2!NoBuffer
<1>6. V4L2!StopReleasesAll'
  BY DEF V4L2Inv, V4L2!StopReleasesAll
<1>7. QED
  BY <1>1, <1>2, <1>3, <1>4, <1>5, <1>6 DEF V4L2Inv

LEMMA V4L2Converts == ASSUME V4L2Inv, V4L2!Converts PROVE V4L2Inv'
<1> USE DEF V4L2!Converts, V4L2!buffers
<1>1. V4L2!V4L2TypeOK'
  BY DEF V4L2Inv, V4L2!V4L2TypeOK, V4L2!Owners, V4L2!Pcs
<1>2. V4L2Owner'
  BY DEF V4L2Inv, V4L2Owner
<1>3. V4L2Mapping'
  BY DEF V4L2Inv, V4L2Mapping
<1>4. V4L2Mapped'
  BY DEF V4L2Inv, V4L2Mapped
<1>5. V4L2!BuffersHaveOneHolder'
  BY DEF V4L2Inv, V4L2!BuffersHaveOneHolder
<1>6. V4L2!StopReleasesAll'
  BY DEF V4L2Inv, V4L2!StopReleasesAll
<1>7. QED
  BY <1>1, <1>2, <1>3, <1>4, <1>5, <1>6 DEF V4L2Inv

LEMMA V4L2FrameEnds == ASSUME V4L2Inv, V4L2!FrameEnds PROVE V4L2Inv'
<1> USE DEF V4L2!FrameEnds, V4L2!buffers
<1>1. V4L2!V4L2TypeOK'
  BY DEF V4L2Inv, V4L2!V4L2TypeOK, V4L2!Owners, V4L2!Pcs
<1>2. V4L2Owner'
  BY DEF V4L2Inv, V4L2Owner
<1>3. V4L2Mapping'
  BY DEF V4L2Inv, V4L2Mapping
<1>4. V4L2Mapped'
  BY DEF V4L2Inv, V4L2Mapped
<1>5. V4L2!BuffersHaveOneHolder'
  BY DEF V4L2Inv, V4L2!BuffersHaveOneHolder
<1>6. V4L2!StopReleasesAll'
  BY DEF V4L2Inv, V4L2!StopReleasesAll
<1>7. QED
  BY <1>1, <1>2, <1>3, <1>4, <1>5, <1>6 DEF V4L2Inv

LEMMA V4L2Requeues == ASSUME V4L2Inv, V4L2!Requeues PROVE V4L2Inv'
<1> USE DEF V4L2!Requeues, V4L2!GivenBack, V4L2!buffers
<1>1. V4L2!V4L2TypeOK'
  BY DEF V4L2Inv, V4L2!V4L2TypeOK, V4L2Owner, V4L2Mapping, V4L2Mapped,
         V4L2!BuffersHaveOneHolder, V4L2!StopReleasesAll, V4L2!Owners, V4L2!Pcs,
         V4L2!Buffers, V4L2!NoBuffer
<1>2. V4L2Owner'
  BY DEF V4L2Inv, V4L2Owner
<1>3. V4L2Mapping'
  BY DEF V4L2Inv, V4L2!V4L2TypeOK, V4L2Owner, V4L2Mapping, V4L2Mapped,
         V4L2!BuffersHaveOneHolder, V4L2!StopReleasesAll, V4L2!Owners, V4L2!Pcs,
         V4L2!Buffers, V4L2!NoBuffer
<1>4. V4L2Mapped'
  BY DEF V4L2Inv, V4L2Mapped
<1>5. V4L2!BuffersHaveOneHolder'
  <2>1. /\ pool \subseteq mapped
        /\ pool = queued \cup filled \cup lost \cup ({held} \ {V4L2!NoBuffer})
        /\ queued \cap filled = {} /\ held \notin queued \cup filled \cup lost
        /\ lost \cap (queued \cup filled) = {}
    BY DEF V4L2Inv, V4L2!BuffersHaveOneHolder
  <2>2. held # V4L2!NoBuffer
    BY DEF V4L2Inv, V4L2Owner
  <2>3. V4L2!NoBuffer \notin queued \cup filled \cup lost \cup {held}
    BY <2>2 DEF V4L2Inv, V4L2!V4L2TypeOK, V4L2!Buffers, V4L2!NoBuffer
  <2>4. /\ UNCHANGED <<mapped, pool, filled>> /\ held' = V4L2!NoBuffer
        /\ \/ queued' = queued \cup {held} /\ lost' = lost
           \/ queued' = queued /\ lost' = lost \cup {held}
    OBVIOUS
  <2>5. QED
    BY <2>1, <2>2, <2>3, <2>4 DEF V4L2!BuffersHaveOneHolder
<1>6. V4L2!StopReleasesAll'
  BY DEF V4L2Inv, V4L2!StopReleasesAll
<1>7. QED
  BY <1>1, <1>2, <1>3, <1>4, <1>5, <1>6 DEF V4L2Inv

-----------------------------------------------------------------------------
(* MacosRecorder: macos_recorder.cpp.                                      *)

Listeners == {"converter", "format listener", "overload listener", "ioproc"}

\* Who has a thread; it has come through all of Start.
MacosOwner ==
  /\ owner \in {"starting", "running", "joining"} => thread # "none"
  /\ thread # "none" => /\ owner \in {"starting", "failed", "running", "joining"}
                        /\ known /\ converter = "made" /\ ioproc = "made"
  /\ quit => owner = "joining"

\* What Core Audio has of a recorder that is not there, or stopped, or failed.
MacosAcquired ==
  /\ acquired \subseteq Listeners
  /\ ~ known => acquired = {}
  /\ thread = "none" => "ioproc" \notin acquired
  /\ owner \in {"stopped", "gone"} /\ known => converter = "null" /\ ioproc = "null"

\* Between the callbacks there is no frame.
MacosFrame ==
  /\ thread # "frame" => frame = <<>>
  /\ framed <= heard

\* The frame and the buffer have the samples that were heard and not yet delivered.
MacosNumbers ==
  /\ Len(frame) + Len(recBuf) = heard - framed
  /\ \A i \in 1..Len(frame) : frame[i] = framed + i
  /\ \A i \in 1..Len(recBuf) : recBuf[i] = framed + Len(frame) + i
  /\ thread = "frame" => Len(frame) = FrameSize \/ owner = "joining"

MacosInv ==
  /\ Macos!MacosTypeOK /\ MacosOwner /\ MacosAcquired /\ MacosFrame /\ MacosNumbers
  /\ Macos!StopUnregisters /\ Macos!GarbageOnlyAfterFailure

\* What Start has after n stages.
LEMMA StagesGot ==
  ASSUME NEW n \in 0..5, NEW got, got = {Macos!Stages[i] : i \in 1..n}
  PROVE  /\ got \subseteq Listeners \cup {"device"}
         /\ "device" \in got <=> n # 0
         /\ "ioproc" \in got <=> n = 5
         /\ "converter" \in got <=> n \in 2..5
         /\ n = 0 => got = {}
         /\ Len(Macos!Stages) = 5
<1>1. /\ Macos!Stages[1] = "device" /\ Macos!Stages[2] = "converter"
      /\ Macos!Stages[3] = "format listener" /\ Macos!Stages[4] = "overload listener"
      /\ Macos!Stages[5] = "ioproc" /\ Len(Macos!Stages) = 5
  BY DEF Macos!Stages
<1>2. \A i \in 1..5 : i = 1 \/ i = 2 \/ i = 3 \/ i = 4 \/ i = 5
  OBVIOUS
<1>3. \A i \in 1..5 :
        /\ Macos!Stages[i] \in Listeners \cup {"device"}
        /\ Macos!Stages[i] = "device" <=> i = 1
        /\ Macos!Stages[i] = "converter" <=> i = 2
        /\ Macos!Stages[i] = "ioproc" <=> i = 5
  BY <1>1, <1>2 DEF Listeners
<1>4. \A i \in 1..n : i \in 1..5
  OBVIOUS
<1>5. /\ 1 \in 1..n <=> n # 0
      /\ 2 \in 1..n <=> n \in 2..5
      /\ 5 \in 1..n <=> n = 5
      /\ n = 0 => 1..n = {}
  OBVIOUS
<1>6. QED
  BY ZenonT(30), <1>1, <1>3, <1>4, <1>5

LEMMA StagesRange == Macos!Range(Macos!Stages) \ {"device"} = Listeners
<1>1. DOMAIN Macos!Stages = {1, 2, 3, 4, 5}
  BY DEF Macos!Stages
<1>2. /\ Macos!Stages[1] = "device" /\ Macos!Stages[2] = "converter"
      /\ Macos!Stages[3] = "format listener" /\ Macos!Stages[4] = "overload listener"
      /\ Macos!Stages[5] = "ioproc"
  BY DEF Macos!Stages
<1>3. QED
  BY <1>1, <1>2 DEF Macos!Range, Listeners

LEMMA Part ==
  ASSUME NEW s \in Seq(Nat), NEW m \in Nat, NEW n \in Nat, 1 <= m, m <= n + 1, n <= Len(s)
  PROVE  /\ SubSeq(s, m, n) \in Seq(Nat)
         /\ Len(SubSeq(s, m, n)) = n - m + 1
         /\ \A i \in 1..(n - m + 1) : SubSeq(s, m, n)[i] = s[m + i - 1]
<1>1. \A i \in m..n : s[i] \in Nat
  BY ElementOfSeq, LenProperties
<1>2. /\ SubSeq(s, m, n) \in Seq(Nat)
      /\ Len(SubSeq(s, m, n)) = IF m <= n THEN n - m + 1 ELSE 0
      /\ \A i \in 1..(n - m + 1) : SubSeq(s, m, n)[i] = s[m + i - 1]
  BY <1>1, SubSeqProperties
<1>3. QED
  BY <1>2

LEMMA MacosAcquires ==
  ASSUME MacosInv, NEW n \in 0..5, Macos!Acquires(n)
  PROVE  MacosInv'
<1> USE DEF Macos!data
<1>a. PICK got : got = {Macos!Stages[i] : i \in 1..n}
  OBVIOUS
<1>b. /\ got \subseteq Listeners \cup {"device"}
      /\ "device" \in got <=> n # 0
      /\ "ioproc" \in got <=> n = 5
      /\ "converter" \in got <=> n \in 2..5
      /\ n = 0 => got = {}
      /\ Len(Macos!Stages) = 5
  BY <1>a, StagesGot
<1>c. /\ owner = "stopped"
      /\ known' \in IF "device" \in got THEN {TRUE} ELSE {known, FALSE}
      /\ acquired' = acquired \cup (got \ {"device"})
      /\ converter' = IF "converter" \in got THEN "made" ELSE converter
      /\ ioproc' = IF "ioproc" \in got THEN "made" ELSE ioproc
      /\ owner' = IF n = 5 THEN "starting" ELSE "failed"
      /\ thread' = IF n = 5 THEN "converting" ELSE "none"
      /\ UNCHANGED <<quit, ioRunning, recBuf, heard, frame, framed>>
  BY <1>a, <1>b DEF Macos!Acquires, Macos!data
<1>d. thread = "none" /\ acquired = {}
  BY <1>c DEF MacosInv, MacosOwner, Macos!StopUnregisters
<1>e. "ioproc" \in got => "converter" \in got
  BY <1>b
<1>1. Macos!MacosTypeOK'
  BY <1>b, <1>c, <1>d, <1>e, StagesRange DEF MacosInv, Macos!MacosTypeOK, Listeners
<1>2. MacosOwner'
  BY <1>b, <1>c, <1>d, <1>e DEF MacosInv, MacosOwner, Listeners
<1>3. MacosAcquired'
  BY <1>b, <1>c, <1>d, <1>e DEF MacosInv, MacosAcquired, Listeners
<1>4. MacosFrame'
  BY <1>c, <1>d DEF MacosInv, MacosFrame
<1>5. MacosNumbers'
  BY <1>c, <1>d DEF MacosInv, MacosNumbers
<1>6. Macos!StopUnregisters'
  BY <1>c, <1>d DEF MacosInv, Macos!StopUnregisters
<1>7. Macos!GarbageOnlyAfterFailure'
  BY <1>b, <1>c, <1>d, <1>e DEF MacosInv, Macos!GarbageOnlyAfterFailure, Listeners, MacosAcquired, Macos!HasDevice, MacosOwner
<1>8. QED
  BY <1>1, <1>2, <1>3, <1>4, <1>5, <1>6, <1>7 DEF MacosInv

LEMMA MacosDeviceStarts == ASSUME MacosInv, Macos!DeviceStarts PROVE MacosInv'
<1> USE DEF Macos!DeviceStarts, Macos!data
<1>1. Macos!MacosTypeOK'
  BY DEF MacosInv, Macos!MacosTypeOK
<1>2. MacosOwner'
  BY DEF MacosInv, MacosOwner
<1>3. MacosAcquired'
  BY DEF MacosInv, MacosAcquired, Listeners
<1>4. MacosFrame'
  BY DEF MacosInv, MacosFrame
<1>5. MacosNumbers'
  BY DEF MacosInv, MacosNumbers
<1>6. Macos!StopUnregisters'
  BY DEF MacosInv, Macos!StopUnregisters
<1>7. Macos!GarbageOnlyAfterFailure'
  BY DEF MacosInv, Macos!MacosTypeOK, MacosOwner, MacosAcquired, MacosFrame,
         MacosNumbers, Macos!StopUnregisters, Macos!GarbageOnlyAfterFailure,
         Listeners, Macos!HasDevice
<1>8. QED
  BY <1>1, <1>2, <1>3, <1>4, <1>5, <1>6, <1>7 DEF MacosInv

LEMMA MacosStop == ASSUME MacosInv, Macos!Stop PROVE MacosInv'
<1> USE DEF Macos!Stop, Macos!HasDevice, Macos!Released, Macos!data
<1>1. Macos!MacosTypeOK'
  BY DEF MacosInv, Macos!MacosTypeOK
<1>2. MacosOwner'
  BY DEF MacosInv, MacosOwner
<1>3. MacosAcquired'
  BY DEF MacosInv, MacosAcquired, Listeners
<1>4. MacosFrame'
  BY DEF MacosInv, MacosFrame
<1>5. MacosNumbers'
  BY DEF MacosInv, MacosNumbers
<1>6. Macos!StopUnregisters'
  BY DEF MacosInv, Macos!MacosTypeOK, MacosOwner, MacosAcquired, MacosFrame,
         MacosNumbers, Macos!StopUnregisters, Macos!GarbageOnlyAfterFailure,
         Listeners, Macos!HasDevice
<1>7. Macos!GarbageOnlyAfterFailure'
  BY DEF MacosInv, Macos!GarbageOnlyAfterFailure
<1>8. QED
  BY <1>1, <1>2, <1>3, <1>4, <1>5, <1>6, <1>7 DEF MacosInv

LEMMA MacosDestroy == ASSUME MacosInv, Macos!Destroy PROVE MacosInv'
<1> USE DEF Macos!Destroy, Macos!data
<1>1. Macos!MacosTypeOK'
  BY DEF MacosInv, Macos!MacosTypeOK
<1>2. MacosOwner'
  BY DEF MacosInv, MacosOwner
<1>3. MacosAcquired'
  BY DEF MacosInv, MacosAcquired, Listeners
<1>4. MacosFrame'
  BY DEF MacosInv, MacosFrame
<1>5. MacosNumbers'
  BY DEF MacosInv, MacosNumbers
<1>6. Macos!StopUnregisters'
  BY DEF MacosInv, Macos!StopUnregisters
<1>7. Macos!GarbageOnlyAfterFailure'
  BY DEF MacosInv, Macos!MacosTypeOK, MacosOwner, MacosAcquired, MacosFrame,
         MacosNumbers, Macos!StopUnregisters, Macos!GarbageOnlyAfterFailure,
         Listeners, Macos!HasDevice
<1>8. QED
  BY <1>1, <1>2, <1>3, <1>4, <1>5, <1>6, <1>7 DEF MacosInv

LEMMA MacosOnIOProc == ASSUME MacosInv, Macos!OnIOProc PROVE MacosInv'
<1> USE DEF Macos!data
<1>a. Chunk \in Nat /\ FrameSize \in Nat /\ MaxHeard \in Nat
  BY DevicesAssumption DEF Macos!MacosConstants
<1>b. /\ recBuf \in Seq(Nat) /\ frame \in Seq(Nat)
      /\ heard \in 0..MaxHeard /\ framed \in 0..MaxHeard
  BY DEF MacosInv, Macos!MacosTypeOK
<1>c. PICK new : new = [i \in 1..Chunk |-> heard + i]
  OBVIOUS
<1>d. new \in Seq(Nat) /\ Len(new) = Chunk
  <2>1. new \in [1..Chunk -> Nat]
    BY <1>a, <1>b, <1>c
  <2>2. QED
    BY <1>a, <2>1, SeqDef
<1>e. recBuf' = recBuf \o new /\ heard' = heard + Chunk /\ heard + Chunk <= MaxHeard
  BY <1>c DEF Macos!OnIOProc
<1>f. /\ recBuf' \in Seq(Nat)
      /\ Len(recBuf') = Len(recBuf) + Chunk
      /\ \A i \in 1..(Len(recBuf) + Chunk) :
           recBuf'[i] = IF i <= Len(recBuf) THEN recBuf[i] ELSE new[i - Len(recBuf)]
  BY <1>b, <1>d, <1>e, ConcatProperties
<1>g. UNCHANGED <<owner, thread, quit, known, acquired, converter, ioproc, ioRunning, frame, framed>>
  BY DEF Macos!OnIOProc
<1>1. Macos!MacosTypeOK'
  <2>1. heard' \in 0..MaxHeard
    BY <1>a, <1>b, <1>e
  <2>2. QED
    BY <1>f, <1>g, <2>1 DEF MacosInv, Macos!MacosTypeOK
<1>2. MacosOwner'
  BY <1>g DEF MacosInv, MacosOwner
<1>3. MacosAcquired'
  BY <1>g DEF MacosInv, MacosAcquired, Listeners
<1>4. MacosFrame'
  <2>1. framed' <= heard'
    BY <1>a, <1>b, <1>e, <1>g DEF MacosInv, MacosFrame
  <2>2. QED
    BY <1>g, <2>1 DEF MacosInv, MacosFrame
<1>5. MacosNumbers'
  <2>1. Len(frame) + Len(recBuf) = heard - framed /\ Len(frame) \in Nat /\ Len(recBuf) \in Nat
    BY <1>b, LenProperties DEF MacosInv, MacosNumbers
  <2>2. Len(frame') + Len(recBuf') = heard' - framed'
    <3>0. frame' = frame /\ framed' = framed
      BY <1>g
    <3>1. Len(frame') = Len(frame) /\ framed' = framed
      BY <3>0, Zenon
    <3>2. heard \in Int /\ framed \in Int
      BY <1>a, <1>b
    <3>3. heard' = heard + Chunk /\ Len(recBuf') = Len(recBuf) + Chunk
      BY <1>e, <1>f
    <3>4. Len(frame) + (Len(recBuf) + Chunk) = (heard + Chunk) - framed
      BY <1>a, <2>1, <3>2
    <3>5. QED
      BY <3>1, <3>3, <3>4, Zenon
  <2>3. ASSUME NEW i \in 1..Len(recBuf') PROVE recBuf'[i] = framed' + Len(frame') + i
    <3>1. CASE i <= Len(recBuf)
      BY <1>a, <1>f, <1>g, <2>1, <2>3, <3>1 DEF MacosInv, MacosNumbers
    <3>2. CASE ~ i <= Len(recBuf)
      <4>1. i - Len(recBuf) \in 1..Chunk /\ i \in 1..(Len(recBuf) + Chunk)
        BY <1>a, <1>f, <2>1, <2>3, <3>2
      <4>2. recBuf'[i] = heard + (i - Len(recBuf))
        BY <1>c, <1>f, <3>2, <4>1
      <4>3. QED
        BY SMTT(30), <1>b, <1>g, <2>1, <2>3, <4>1, <4>2
    <3>3. QED
      BY <3>1, <3>2
  <2>4. QED
    BY <1>g, <2>2, <2>3 DEF MacosInv, MacosNumbers
<1>6. Macos!StopUnregisters'
  BY <1>g DEF MacosInv, Macos!StopUnregisters
<1>7. Macos!GarbageOnlyAfterFailure'
  BY <1>g DEF MacosInv, Macos!MacosTypeOK, MacosOwner, MacosAcquired, MacosFrame,
              MacosNumbers, Macos!StopUnregisters, Macos!GarbageOnlyAfterFailure,
              Listeners, Macos!HasDevice
<1>8. QED
  BY <1>1, <1>2, <1>3, <1>4, <1>5, <1>6, <1>7 DEF MacosInv

LEMMA MacosOnConverterProc == ASSUME MacosInv, Macos!OnConverterProc PROVE MacosInv'
<1> USE DEF Macos!data
<1>a. Chunk \in Nat /\ FrameSize \in Nat /\ FrameSize # 0 /\ MaxHeard \in Nat
  BY DevicesAssumption DEF Macos!MacosConstants
<1>b. /\ recBuf \in Seq(Nat) /\ frame \in Seq(Nat)
      /\ heard \in 0..MaxHeard /\ framed \in 0..MaxHeard
      /\ Len(recBuf) \in Nat
  BY LenProperties DEF MacosInv, Macos!MacosTypeOK
<1>c. thread = "converting" /\ thread' = "frame" /\ frame = <<>> /\ Len(frame) = 0
  BY EmptySeq DEF Macos!OnConverterProc, MacosInv, MacosFrame
<1>d. UNCHANGED <<owner, quit, known, acquired, converter, ioproc, ioRunning, heard, framed>>
  BY DEF Macos!OnConverterProc
<1>e. /\ recBuf' \in Seq(Nat) /\ frame' \in Seq(Nat)
      /\ Len(frame') \in Nat /\ Len(recBuf') \in Nat
      /\ Len(frame') + Len(recBuf') = Len(recBuf)
      /\ \A i \in 1..Len(frame') : frame'[i] = recBuf[i]
      /\ \A i \in 1..Len(recBuf') : recBuf'[i] = recBuf[Len(frame') + i]
      /\ Len(frame') = FrameSize \/ quit
  <2>1. CASE quit /\ frame' = <<>> /\ recBuf' = recBuf
    BY <1>b, <2>1, EmptySeq
  <2>2. CASE /\ Len(recBuf) >= FrameSize
             /\ frame' = SubSeq(recBuf, 1, FrameSize) /\ recBuf' = Macos!Rest
    <3>1. /\ frame' \in Seq(Nat) /\ Len(frame') = FrameSize - 1 + 1
          /\ \A i \in 1..(FrameSize - 1 + 1) : frame'[i] = recBuf[1 + i - 1]
      BY <1>a, <1>b, <2>2, Part
    <3>2. /\ recBuf' \in Seq(Nat) /\ Len(recBuf') = Len(recBuf) - (FrameSize + 1) + 1
          /\ \A i \in 1..(Len(recBuf) - (FrameSize + 1) + 1) :
               recBuf'[i] = recBuf[(FrameSize + 1) + i - 1]
      BY SMTT(30), <1>a, <1>b, <2>2, Part DEF Macos!Rest
    <3>3. Len(frame') = FrameSize /\ Len(recBuf') = Len(recBuf) - FrameSize
      BY <1>a, <1>b, <3>1, <3>2
    <3>4. \A i \in 1..Len(frame') : frame'[i] = recBuf[i]
      BY <1>a, <3>1, <3>3
    <3>5. \A i \in 1..Len(recBuf') : recBuf'[i] = recBuf[Len(frame') + i]
      BY SMTT(30), <1>a, <1>b, <3>2, <3>3
    <3>6. /\ Len(frame') \in Nat /\ Len(recBuf') \in Nat
          /\ Len(frame') + Len(recBuf') = Len(recBuf)
      BY <1>a, <1>b, <2>2, <3>3
    <3>7. QED
      BY <3>1, <3>2, <3>3, <3>4, <3>5, <3>6
  <2>3. QED
    BY <2>1, <2>2 DEF Macos!OnConverterProc
<1>1. Macos!MacosTypeOK'
  BY <1>c, <1>d, <1>e DEF MacosInv, Macos!MacosTypeOK
<1>2. MacosOwner'
  BY <1>c, <1>d, <1>e DEF MacosInv, MacosOwner
<1>3. MacosAcquired'
  BY <1>c, <1>d, <1>e DEF MacosInv, MacosAcquired, Listeners
<1>4. MacosFrame'
  BY <1>c, <1>d, <1>e DEF MacosInv, MacosFrame
<1>5. MacosNumbers'
  <2>1. Len(recBuf) = heard - framed
    BY <1>b, <1>c DEF MacosInv, MacosNumbers
  <2>2. \A i \in 1..Len(recBuf) : recBuf[i] = framed + i
    BY <1>b, <1>c DEF MacosInv, MacosNumbers
  <2>3. Len(frame') + Len(recBuf') = heard' - framed'
    BY <1>d, <1>e, <2>1
  <2>4. ASSUME NEW i \in 1..Len(frame') PROVE frame'[i] = framed' + i
    BY <1>b, <1>d, <1>e, <2>2
  <2>5. ASSUME NEW i \in 1..Len(recBuf') PROVE recBuf'[i] = framed' + Len(frame') + i
    <3>1. Len(frame') + i \in 1..Len(recBuf)
      BY <1>b, <1>e
    <3>2. recBuf'[i] = framed + (Len(frame') + i)
      BY <1>e, <2>2, <3>1
    <3>3. QED
      BY <1>b, <1>d, <1>e, <3>2
  <2>6. thread' = "frame" => Len(frame') = FrameSize \/ owner' = "joining"
    BY <1>d, <1>e DEF MacosInv, MacosOwner
  <2>7. QED
    BY <2>3, <2>4, <2>5, <2>6 DEF MacosNumbers
<1>6. Macos!StopUnregisters'
  BY <1>c, <1>d, <1>e DEF MacosInv, Macos!StopUnregisters
<1>7. Macos!GarbageOnlyAfterFailure'
  BY <1>c, <1>d, <1>e DEF MacosInv, Macos!GarbageOnlyAfterFailure
<1>8. QED
  BY <1>1, <1>2, <1>3, <1>4, <1>5, <1>6, <1>7 DEF MacosInv

LEMMA MacosFrameEnds == ASSUME MacosInv, Macos!FrameEnds PROVE MacosInv'
<1> USE DEF Macos!data
<1>a. /\ recBuf \in Seq(Nat) /\ frame \in Seq(Nat) /\ MaxHeard \in Nat
      /\ heard \in 0..MaxHeard /\ framed \in 0..MaxHeard
  BY DevicesAssumption DEF MacosInv, Macos!MacosTypeOK, Macos!MacosConstants
<1>b. /\ Len(recBuf) \in Nat /\ Len(frame) \in Nat
  BY <1>a, LenProperties
<1>c. /\ thread' = "converting" /\ framed' = framed + Len(frame)
      /\ frame' = <<>> /\ Len(frame') = 0 /\ frame' \in Seq(Nat)
      /\ UNCHANGED <<owner, quit, known, acquired, converter, ioproc, ioRunning, recBuf, heard>>
  BY EmptySeq DEF Macos!FrameEnds
<1>d. framed' <= heard' /\ framed' \in 0..MaxHeard
  BY <1>a, <1>b, <1>c DEF MacosInv, MacosNumbers
<1>e. thread = "frame"
  BY DEF Macos!FrameEnds
<1>1. Macos!MacosTypeOK'
  BY <1>c, <1>d DEF MacosInv, Macos!MacosTypeOK
<1>2. MacosOwner'
  BY <1>c, <1>d, <1>e DEF MacosInv, Macos!MacosTypeOK, MacosOwner
<1>3. MacosAcquired'
  BY <1>c, <1>d, <1>e DEF MacosInv, MacosAcquired, Listeners
<1>4. MacosFrame'
  BY <1>c, <1>d DEF MacosFrame
<1>5. MacosNumbers'
  <2>1. Len(frame') + Len(recBuf') = heard' - framed'
    BY <1>a, <1>b, <1>c DEF MacosInv, MacosNumbers
  <2>2. \A i \in 1..Len(recBuf') : recBuf'[i] = framed' + Len(frame') + i
    BY <1>a, <1>b, <1>c DEF MacosInv, MacosNumbers
  <2>3. QED
    BY <1>c, <2>1, <2>2 DEF MacosNumbers
<1>6. Macos!StopUnregisters'
  BY <1>c, <1>d, <1>e DEF MacosInv, Macos!StopUnregisters
<1>7. Macos!GarbageOnlyAfterFailure'
  BY <1>c, <1>d, <1>e DEF MacosInv, Macos!GarbageOnlyAfterFailure
<1>8. QED
  BY <1>1, <1>2, <1>3, <1>4, <1>5, <1>6, <1>7 DEF MacosInv

-----------------------------------------------------------------------------
(* PulseRecorder: pulse_recorder.cpp.                                      *)

\* The fragments that frames were made of, delivered or not.
Taken == framed \o frames

\* Who has a thread.
PulseOwner ==
  thread = "none" <=>
    owner \in {"created", "connecting", "asking", "failed", "stopped", "gone"}

\* Before the stream is ready the two threads have nothing to do with each other.
PulseBefore ==
  owner \in {"created", "connecting", "asking", "failed"} \/ thread \in {"connect", "await ready"} =>
    /\ ~ armed /\ mainloop = "idle" /\ recSize \in {Pulse!Nothing, Pulse!Garbage}
    /\ frames = <<>>

\* What th_ holds, and why it holds it.
PulseMutex ==
  /\ recMutex = "th" <=> thread \in {"checked", "holding", "want loop"}
  /\ thread = "holding" => recSize # Pulse!Nothing \/ quit
  /\ thread = "want loop" => recSize = Pulse!Nothing
  /\ frames # <<>> => thread \in {"want loop", "rearm", "frame"}
  /\ thread = "want loop" => frames # <<>>

\* ReadCallback hands over the first fragment, which has arrived.
PulseHand ==
  /\ recSize \notin {Pulse!Nothing, Pulse!Garbage} => recSize = first /\ first <= arrived
  /\ mainloop = "callback" => armed /\ first <= arrived
  /\ first <= arrived + 1
  /\ recSize = Pulse!Garbage => frames = <<>> /\ framed = <<>>

\* From the notification to the rearming ReadCallback is not set.
PulseArmed ==
  ~ Pulse!TookGarbage =>
    /\ recSize \notin {Pulse!Nothing, Pulse!Garbage} \/ thread \in {"want loop", "rearm"} =>
         ~ armed /\ mainloop = "idle"
    /\ thread = "rearm" => recSize = Pulse!Nothing

\* A thread that will look for a fragment, or wait for one, will be told of it.
PulseTold ==
  thread \in {"lock", "frame", "checked", "waiting"} => armed \/ recSize # Pulse!Nothing

\* A fragment is a frame and the first one only while th_ waits to drop it.
Undropped == thread = "want loop" /\ frames[Len(frames)] # Pulse!Garbage

\* With g frames of garbage, the others are the fragments up to the first.
PulseOrdered(g) ==
  /\ Len(Taken) = g + (IF Undropped THEN first ELSE first - 1)
  /\ \A i \in 1..Len(Taken) : Taken[i] = IF i <= g THEN Pulse!Garbage ELSE i - g

PulseOrder ==
  /\ \E g \in {0, 1} : PulseOrdered(g)
  /\ Undropped => first <= arrived

PulseInv ==
  /\ Pulse!PulseTypeOK /\ PulseOwner /\ PulseBefore /\ PulseMutex /\ PulseHand
  /\ PulseArmed /\ PulseTold /\ PulseOrder

\* An element more at the end of the second of two sequences.
LEMMA AppendAfter ==
  ASSUME NEW S, NEW s \in Seq(S), NEW t \in Seq(S), NEW x \in S
  PROVE  /\ s \o t \in Seq(S) /\ Append(t, x) \in Seq(S)
         /\ Len(s \o Append(t, x)) = Len(s \o t) + 1
         /\ \A i \in 1..Len(s \o t) : (s \o Append(t, x))[i] = (s \o t)[i]
         /\ (s \o Append(t, x))[Len(s \o t) + 1] = x
<1>1. /\ Len(s) \in Nat /\ Len(t) \in Nat
  BY LenProperties
<1>2. /\ Append(t, x) \in Seq(S) /\ Len(Append(t, x)) = Len(t) + 1
      /\ \A i \in 1..Len(t) : Append(t, x)[i] = t[i]
      /\ Append(t, x)[Len(t) + 1] = x
  BY AppendProperties
<1>3. /\ s \o t \in Seq(S) /\ Len(s \o t) = Len(s) + Len(t)
      /\ \A i \in 1..Len(s) + Len(t) :
           (s \o t)[i] = IF i <= Len(s) THEN s[i] ELSE t[i - Len(s)]
  BY ConcatProperties
<1>4. PICK u \in Seq(S) : u = Append(t, x)
  BY <1>2
<1>5. /\ Len(s \o u) = Len(s) + Len(u)
      /\ \A i \in 1..Len(s) + Len(u) :
           (s \o u)[i] = IF i <= Len(s) THEN s[i] ELSE u[i - Len(s)]
  BY ConcatProperties
<1>6. /\ Len(u) = Len(t) + 1 /\ u[Len(t) + 1] = x
      /\ \A i \in 1..Len(t) : u[i] = t[i]
  BY <1>2, <1>4
<1>7. ASSUME NEW i \in 1..Len(s \o t) PROVE (s \o u)[i] = (s \o t)[i]
  <2>1. CASE i <= Len(s)
    BY <1>1, <1>3, <1>5, <1>6, <2>1
  <2>2. CASE ~ i <= Len(s)
    <3>1. i - Len(s) \in 1..Len(t)
      BY <1>1, <1>3, <2>2
    <3>2. QED
      BY <1>1, <1>3, <1>5, <1>6, <2>2, <3>1
  <2>3. QED
    BY <2>1, <2>2
<1>8. (s \o u)[Len(s \o t) + 1] = x
  BY <1>1, <1>3, <1>5, <1>6
<1>9. QED
  BY <1>1, <1>2, <1>3, <1>4, <1>5, <1>6, <1>7, <1>8

\* What a step leaves alone when it takes no fragment and delivers none.
LEMMA TakenUnchanged ==
  ASSUME UNCHANGED <<frames, framed>>
  PROVE  Taken' = Taken /\ (Pulse!TookGarbage' <=> Pulse!TookGarbage)
  BY DEF Taken, Pulse!TookGarbage

\* What a step does that takes the fragment x.
LEMMA TakenGrows ==
  ASSUME NEW S, framed \in Seq(S), frames \in Seq(S), NEW x \in S,
         frames' = Append(frames, x), framed' = framed
  PROVE  /\ Taken \in Seq(S) /\ Taken' \in Seq(S)
         /\ Len(Taken) \in Nat /\ Len(Taken') = Len(Taken) + 1
         /\ \A i \in 1..Len(Taken) : Taken'[i] = Taken[i]
         /\ Taken'[Len(Taken) + 1] = x
         /\ frames' \in Seq(S)
         /\ frames' # <<>> /\ frames'[Len(frames')] = x
<1>1. Taken' = framed \o Append(frames, x)
  BY DEF Taken
<1>2. /\ Taken \in Seq(S)
      /\ Len(Taken') = Len(Taken) + 1
      /\ \A i \in 1..Len(Taken) : Taken'[i] = Taken[i]
      /\ Taken'[Len(Taken) + 1] = x
  BY <1>1, AppendAfter DEF Taken
<1>3. Len(Taken) \in Nat
  BY <1>2, LenProperties
<1>4. frames' \in Seq(S) /\ frames' # <<>> /\ frames'[Len(frames')] = x
  BY AppendProperties
<1>5. Taken' \in Seq(S)
  BY <1>1, <1>4, ConcatProperties
<1>6. QED
  BY <1>2, <1>3, <1>4, <1>5

LEMMA TookGarbageTaken ==
  ASSUME NEW S, Taken \in Seq(S), Len(Taken) \in Nat, Len(Taken') = Len(Taken) + 1,
         \A i \in 1..Len(Taken) : Taken'[i] = Taken[i], Taken' \in Seq(S)
  PROVE  /\ Pulse!TookGarbage => Pulse!TookGarbage'
         /\ Taken'[Len(Taken) + 1] = Pulse!Garbage => Pulse!TookGarbage'
<1>1. DOMAIN Taken = 1..Len(Taken) /\ DOMAIN Taken' = 1..(Len(Taken) + 1)
  BY LenProperties
<1>2. /\ Pulse!TookGarbage <=> \E i \in 1..Len(Taken) : Taken[i] = Pulse!Garbage
      /\ Pulse!TookGarbage' <=> \E i \in 1..(Len(Taken) + 1) : Taken'[i] = Pulse!Garbage
  BY <1>1 DEF Pulse!TookGarbage, Taken
<1>3. QED
  BY <1>2

LEMMA PulseStartConnects == ASSUME PulseInv, Pulse!StartConnects PROVE PulseInv'
<1> USE DEF Pulse!StartConnects, Pulse!hand, Pulse!server, Pulse!kept
<1>a. Taken' = Taken /\ (Pulse!TookGarbage' <=> Pulse!TookGarbage)
  <2>1. UNCHANGED <<frames, framed>>
    OBVIOUS
  <2>2. QED
    BY <2>1, TakenUnchanged
<1>1. Pulse!PulseTypeOK'
  BY DevicesAssumption, <1>a DEF PulseInv, Pulse!PulseTypeOK, PulseOwner,
                                 PulseBefore, PulseMutex, PulseHand, PulseArmed,
                                 PulseTold, PulseOrder, Pulse!Owners, Pulse!Pcs,
                                 Pulse!Servers, Pulse!Nothing, Pulse!Garbage,
                                 Pulse!PulseConstants
<1>2. PulseOwner'
  BY DevicesAssumption, <1>a DEF PulseInv, PulseOwner
<1>3. PulseBefore'
  BY DevicesAssumption, <1>a DEF PulseInv, PulseBefore
<1>4. PulseMutex'
  BY DevicesAssumption, <1>a DEF PulseInv, PulseMutex
<1>5. PulseHand'
  BY DevicesAssumption, <1>a DEF PulseInv, PulseHand
<1>6. PulseArmed'
  BY DevicesAssumption, <1>a DEF PulseInv, PulseArmed
<1>7. PulseTold'
  BY DevicesAssumption, <1>a DEF PulseInv, PulseTold
<1>8. PulseOrder'
  <2>1. Undropped' <=> Undropped
    BY DEF Undropped, PulseInv, Pulse!PulseTypeOK, PulseMutex, PulseOwner
  <2>2. PICK g \in {0, 1} : PulseOrdered(g)
    BY DEF PulseInv, PulseOrder
  <2>3. first' = first /\ (first <= arrived => first' <= arrived')
    BY DevicesAssumption DEF PulseInv, Pulse!PulseTypeOK
  <2>4. PulseOrdered(g)'
    BY <1>a, <2>1, <2>2, <2>3 DEF PulseOrdered
  <2>5. QED
    BY <2>1, <2>3, <2>4 DEF PulseInv, PulseOrder
<1>9. QED
  BY <1>1, <1>2, <1>3, <1>4, <1>5, <1>6, <1>7, <1>8 DEF PulseInv

LEMMA PulseContextSettled == ASSUME PulseInv, Pulse!ContextSettled PROVE PulseInv'
<1> USE DEF Pulse!ContextSettled, Pulse!hand, Pulse!server, Pulse!kept
<1>a. Taken' = Taken /\ (Pulse!TookGarbage' <=> Pulse!TookGarbage)
  <2>1. UNCHANGED <<frames, framed>>
    OBVIOUS
  <2>2. QED
    BY <2>1, TakenUnchanged
<1>1. Pulse!PulseTypeOK'
  BY DevicesAssumption, <1>a DEF PulseInv, Pulse!PulseTypeOK, PulseOwner,
                                 PulseBefore, PulseMutex, PulseHand, PulseArmed,
                                 PulseTold, PulseOrder, Pulse!Owners, Pulse!Pcs,
                                 Pulse!Servers, Pulse!Nothing, Pulse!Garbage,
                                 Pulse!PulseConstants
<1>2. PulseOwner'
  BY DevicesAssumption, <1>a DEF PulseInv, PulseOwner
<1>3. PulseBefore'
  BY DevicesAssumption, <1>a DEF PulseInv, PulseBefore
<1>4. PulseMutex'
  BY DevicesAssumption, <1>a DEF PulseInv, PulseMutex
<1>5. PulseHand'
  BY DevicesAssumption, <1>a DEF PulseInv, PulseHand
<1>6. PulseArmed'
  BY DevicesAssumption, <1>a DEF PulseInv, PulseArmed
<1>7. PulseTold'
  BY DevicesAssumption, <1>a DEF PulseInv, PulseTold
<1>8. PulseOrder'
  <2>1. Undropped' <=> Undropped
    BY DEF Undropped, PulseInv, Pulse!PulseTypeOK, PulseMutex, PulseOwner
  <2>2. PICK g \in {0, 1} : PulseOrdered(g)
    BY DEF PulseInv, PulseOrder
  <2>3. first' = first /\ (first <= arrived => first' <= arrived')
    BY DevicesAssumption DEF PulseInv, Pulse!PulseTypeOK
  <2>4. PulseOrdered(g)'
    BY <1>a, <2>1, <2>2, <2>3 DEF PulseOrdered
  <2>5. QED
    BY <2>1, <2>3, <2>4 DEF PulseInv, PulseOrder
<1>9. QED
  BY <1>1, <1>2, <1>3, <1>4, <1>5, <1>6, <1>7, <1>8 DEF PulseInv

LEMMA PulseStartRecords == ASSUME PulseInv, Pulse!StartRecords PROVE PulseInv'
<1> USE DEF Pulse!StartRecords, Pulse!hand, Pulse!server, Pulse!kept
<1>a. Taken' = Taken /\ (Pulse!TookGarbage' <=> Pulse!TookGarbage)
  <2>1. UNCHANGED <<frames, framed>>
    OBVIOUS
  <2>2. QED
    BY <2>1, TakenUnchanged
<1>1. Pulse!PulseTypeOK'
  BY DevicesAssumption, <1>a DEF PulseInv, Pulse!PulseTypeOK, Pulse!Owners,
                                 Pulse!Pcs, Pulse!Servers
<1>2. PulseOwner'
  BY DevicesAssumption, <1>a DEF PulseInv, PulseOwner
<1>3. PulseBefore'
  BY DevicesAssumption, <1>a DEF PulseInv, PulseBefore
<1>4. PulseMutex'
  BY DevicesAssumption, <1>a DEF PulseInv, Pulse!PulseTypeOK, PulseOwner,
                                 PulseBefore, PulseMutex, PulseHand, PulseArmed,
                                 PulseTold, PulseOrder, Pulse!Owners, Pulse!Pcs,
                                 Pulse!Servers, Pulse!Nothing, Pulse!Garbage,
                                 Pulse!PulseConstants
<1>5. PulseHand'
  BY DevicesAssumption, <1>a DEF PulseInv, PulseHand
<1>6. PulseArmed'
  BY DevicesAssumption, <1>a DEF PulseInv, PulseArmed
<1>7. PulseTold'
  BY DevicesAssumption, <1>a DEF PulseInv, PulseTold
<1>8. PulseOrder'
  <2>1. Undropped' <=> Undropped
    BY DEF Undropped, PulseInv, Pulse!PulseTypeOK, PulseMutex, PulseOwner
  <2>2. PICK g \in {0, 1} : PulseOrdered(g)
    BY DEF PulseInv, PulseOrder
  <2>3. first' = first /\ (first <= arrived => first' <= arrived')
    BY DevicesAssumption DEF PulseInv, Pulse!PulseTypeOK
  <2>4. PulseOrdered(g)'
    BY <1>a, <2>1, <2>2, <2>3 DEF PulseOrdered
  <2>5. QED
    BY <2>1, <2>3, <2>4 DEF PulseInv, PulseOrder
<1>9. QED
  BY <1>1, <1>2, <1>3, <1>4, <1>5, <1>6, <1>7, <1>8 DEF PulseInv

LEMMA PulseStopQuits == ASSUME PulseInv, Pulse!StopQuits PROVE PulseInv'
<1> USE DEF Pulse!StopQuits, Pulse!hand, Pulse!server, Pulse!kept
<1>a. Taken' = Taken /\ (Pulse!TookGarbage' <=> Pulse!TookGarbage)
  <2>1. UNCHANGED <<frames, framed>>
    OBVIOUS
  <2>2. QED
    BY <2>1, TakenUnchanged
<1>1. Pulse!PulseTypeOK'
  BY ZenonT(30), DevicesAssumption, <1>a DEF PulseInv, Pulse!PulseTypeOK, PulseOwner,
                                 PulseBefore, PulseMutex, PulseHand, PulseArmed,
                                 PulseTold, PulseOrder, Pulse!Owners, Pulse!Pcs,
                                 Pulse!Servers, Pulse!Nothing, Pulse!Garbage,
                                 Pulse!PulseConstants
<1>2. PulseOwner'
  BY DevicesAssumption, <1>a DEF PulseInv, PulseOwner
<1>3. PulseBefore'
  BY DevicesAssumption, <1>a DEF PulseInv, PulseBefore
<1>4. PulseMutex'
  BY DevicesAssumption, <1>a DEF PulseInv, PulseMutex
<1>5. PulseHand'
  BY DevicesAssumption, <1>a DEF PulseInv, PulseHand
<1>6. PulseArmed'
  BY DevicesAssumption, <1>a DEF PulseInv, PulseArmed
<1>7. PulseTold'
  BY DevicesAssumption, <1>a DEF PulseInv, PulseTold
<1>8. PulseOrder'
  <2>1. Undropped' <=> Undropped
    BY DEF Undropped, PulseInv, Pulse!PulseTypeOK, PulseMutex, PulseOwner
  <2>2. PICK g \in {0, 1} : PulseOrdered(g)
    BY DEF PulseInv, PulseOrder
  <2>3. first' = first /\ (first <= arrived => first' <= arrived')
    BY DevicesAssumption DEF PulseInv, Pulse!PulseTypeOK
  <2>4. PulseOrdered(g)'
    BY <1>a, <2>1, <2>2, <2>3 DEF PulseOrdered
  <2>5. QED
    BY <2>1, <2>3, <2>4 DEF PulseInv, PulseOrder
<1>9. QED
  BY <1>1, <1>2, <1>3, <1>4, <1>5, <1>6, <1>7, <1>8 DEF PulseInv

LEMMA PulseStopNotifies == ASSUME PulseInv, Pulse!StopNotifies PROVE PulseInv'
<1> USE DEF Pulse!StopNotifies, Pulse!Woken, Pulse!hand, Pulse!server, Pulse!kept
<1>a. Taken' = Taken /\ (Pulse!TookGarbage' <=> Pulse!TookGarbage)
  <2>1. UNCHANGED <<frames, framed>>
    OBVIOUS
  <2>2. QED
    BY <2>1, TakenUnchanged
<1>1. Pulse!PulseTypeOK'
  BY ZenonT(30), DevicesAssumption, <1>a DEF PulseInv, Pulse!PulseTypeOK, Pulse!Owners,
                                 Pulse!Pcs, Pulse!Servers
<1>2. PulseOwner'
  BY DevicesAssumption, <1>a DEF PulseInv, PulseOwner
<1>3. PulseBefore'
  BY DevicesAssumption, <1>a DEF PulseInv, PulseBefore
<1>4. PulseMutex'
  BY DevicesAssumption, <1>a DEF PulseInv, PulseMutex
<1>5. PulseHand'
  BY DevicesAssumption, <1>a DEF PulseInv, PulseHand
<1>6. PulseArmed'
  BY DevicesAssumption, <1>a DEF PulseInv, PulseArmed
<1>7. PulseTold'
  BY DevicesAssumption, <1>a DEF PulseInv, PulseTold
<1>8. PulseOrder'
  <2>1. Undropped' <=> Undropped
    BY DEF Undropped, PulseInv, Pulse!PulseTypeOK, PulseMutex, PulseOwner
  <2>2. PICK g \in {0, 1} : PulseOrdered(g)
    BY DEF PulseInv, PulseOrder
  <2>3. first' = first /\ (first <= arrived => first' <= arrived')
    BY DevicesAssumption DEF PulseInv, Pulse!PulseTypeOK
  <2>4. PulseOrdered(g)'
    BY <1>a, <2>1, <2>2, <2>3 DEF PulseOrdered
  <2>5. QED
    BY <2>1, <2>3, <2>4 DEF PulseInv, PulseOrder
<1>9. QED
  BY <1>1, <1>2, <1>3, <1>4, <1>5, <1>6, <1>7, <1>8 DEF PulseInv

LEMMA PulseJoined == ASSUME PulseInv, Pulse!Joined PROVE PulseInv'
<1> USE DEF Pulse!Joined, Pulse!hand, Pulse!server, Pulse!kept
<1>a. Taken' = Taken /\ (Pulse!TookGarbage' <=> Pulse!TookGarbage)
  <2>1. UNCHANGED <<frames, framed>>
    OBVIOUS
  <2>2. QED
    BY <2>1, TakenUnchanged
<1>1. Pulse!PulseTypeOK'
  BY DevicesAssumption, <1>a DEF PulseInv, Pulse!PulseTypeOK, Pulse!Owners,
                                 Pulse!Pcs, Pulse!Servers
<1>2. PulseOwner'
  BY DevicesAssumption, <1>a DEF PulseInv, PulseOwner
<1>3. PulseBefore'
  BY DevicesAssumption, <1>a DEF PulseInv, PulseBefore
<1>4. PulseMutex'
  BY DevicesAssumption, <1>a DEF PulseInv, PulseMutex
<1>5. PulseHand'
  BY DevicesAssumption, <1>a DEF PulseInv, PulseHand
<1>6. PulseArmed'
  BY DevicesAssumption, <1>a DEF PulseInv, PulseArmed
<1>7. PulseTold'
  BY DevicesAssumption, <1>a DEF PulseInv, PulseTold
<1>8. PulseOrder'
  <2>1. Undropped' <=> Undropped
    BY DEF Undropped, PulseInv, Pulse!PulseTypeOK, PulseMutex, PulseOwner
  <2>2. PICK g \in {0, 1} : PulseOrdered(g)
    BY DEF PulseInv, PulseOrder
  <2>3. first' = first /\ (first <= arrived => first' <= arrived')
    BY DevicesAssumption DEF PulseInv, Pulse!PulseTypeOK
  <2>4. PulseOrdered(g)'
    BY <1>a, <2>1, <2>2, <2>3 DEF PulseOrdered
  <2>5. QED
    BY <2>1, <2>3, <2>4 DEF PulseInv, PulseOrder
<1>9. QED
  BY <1>1, <1>2, <1>3, <1>4, <1>5, <1>6, <1>7, <1>8 DEF PulseInv

LEMMA PulseDestroy == ASSUME PulseInv, Pulse!Destroy PROVE PulseInv'
<1> USE DEF Pulse!Destroy, Pulse!hand, Pulse!server, Pulse!kept
<1>a. Taken' = Taken /\ (Pulse!TookGarbage' <=> Pulse!TookGarbage)
  <2>1. UNCHANGED <<frames, framed>>
    OBVIOUS
  <2>2. QED
    BY <2>1, TakenUnchanged
<1>1. Pulse!PulseTypeOK'
  BY DevicesAssumption, <1>a DEF PulseInv, Pulse!PulseTypeOK, PulseOwner,
                                 PulseBefore, PulseMutex, PulseHand, PulseArmed,
                                 PulseTold, PulseOrder, Pulse!Owners, Pulse!Pcs,
                                 Pulse!Servers, Pulse!Nothing, Pulse!Garbage,
                                 Pulse!PulseConstants
<1>2. PulseOwner'
  BY DevicesAssumption, <1>a DEF PulseInv, PulseOwner
<1>3. PulseBefore'
  BY DevicesAssumption, <1>a DEF PulseInv, PulseBefore
<1>4. PulseMutex'
  BY DevicesAssumption, <1>a DEF PulseInv, PulseMutex
<1>5. PulseHand'
  BY DevicesAssumption, <1>a DEF PulseInv, PulseHand
<1>6. PulseArmed'
  BY DevicesAssumption, <1>a DEF PulseInv, PulseArmed
<1>7. PulseTold'
  BY DevicesAssumption, <1>a DEF PulseInv, PulseTold
<1>8. PulseOrder'
  <2>1. Undropped' <=> Undropped
    BY DEF Undropped, PulseInv, Pulse!PulseTypeOK, PulseMutex, PulseOwner
  <2>2. PICK g \in {0, 1} : PulseOrdered(g)
    BY DEF PulseInv, PulseOrder
  <2>3. first' = first /\ (first <= arrived => first' <= arrived')
    BY DevicesAssumption DEF PulseInv, Pulse!PulseTypeOK
  <2>4. PulseOrdered(g)'
    BY <1>a, <2>1, <2>2, <2>3 DEF PulseOrdered
  <2>5. QED
    BY <2>1, <2>3, <2>4 DEF PulseInv, PulseOrder
<1>9. QED
  BY <1>1, <1>2, <1>3, <1>4, <1>5, <1>6, <1>7, <1>8 DEF PulseInv

LEMMA PulseContextChanges == ASSUME PulseInv, Pulse!ContextChanges PROVE PulseInv'
<1> USE DEF Pulse!ContextChanges, Pulse!hand, Pulse!server, Pulse!kept
<1>a. Taken' = Taken /\ (Pulse!TookGarbage' <=> Pulse!TookGarbage)
  <2>1. UNCHANGED <<frames, framed>>
    OBVIOUS
  <2>2. QED
    BY <2>1, TakenUnchanged
<1>1. Pulse!PulseTypeOK'
  BY ZenonT(30), DevicesAssumption, <1>a DEF PulseInv, Pulse!PulseTypeOK, PulseOwner,
                                 PulseBefore, PulseMutex, PulseHand, PulseArmed,
                                 PulseTold, PulseOrder, Pulse!Owners, Pulse!Pcs,
                                 Pulse!Servers, Pulse!Nothing, Pulse!Garbage,
                                 Pulse!PulseConstants
<1>2. PulseOwner'
  BY DevicesAssumption, <1>a DEF PulseInv, PulseOwner
<1>3. PulseBefore'
  BY DevicesAssumption, <1>a DEF PulseInv, PulseBefore
<1>4. PulseMutex'
  BY DevicesAssumption, <1>a DEF PulseInv, PulseMutex
<1>5. PulseHand'
  BY DevicesAssumption, <1>a DEF PulseInv, PulseHand
<1>6. PulseArmed'
  BY DevicesAssumption, <1>a DEF PulseInv, PulseArmed
<1>7. PulseTold'
  BY DevicesAssumption, <1>a DEF PulseInv, PulseTold
<1>8. PulseOrder'
  <2>1. Undropped' <=> Undropped
    BY DEF Undropped, PulseInv, Pulse!PulseTypeOK, PulseMutex, PulseOwner
  <2>2. PICK g \in {0, 1} : PulseOrdered(g)
    BY DEF PulseInv, PulseOrder
  <2>3. first' = first /\ (first <= arrived => first' <= arrived')
    BY DevicesAssumption DEF PulseInv, Pulse!PulseTypeOK
  <2>4. PulseOrdered(g)'
    BY <1>a, <2>1, <2>2, <2>3 DEF PulseOrdered
  <2>5. QED
    BY <2>1, <2>3, <2>4 DEF PulseInv, PulseOrder
<1>9. QED
  BY <1>1, <1>2, <1>3, <1>4, <1>5, <1>6, <1>7, <1>8 DEF PulseInv

LEMMA PulseServerFails == ASSUME PulseInv, Pulse!ServerFails PROVE PulseInv'
<1> USE DEF Pulse!ServerFails, Pulse!hand, Pulse!server, Pulse!kept
<1>a. Taken' = Taken /\ (Pulse!TookGarbage' <=> Pulse!TookGarbage)
  <2>1. UNCHANGED <<frames, framed>>
    OBVIOUS
  <2>2. QED
    BY <2>1, TakenUnchanged
<1>1. Pulse!PulseTypeOK'
  BY ZenonT(30), DevicesAssumption, <1>a DEF PulseInv, Pulse!PulseTypeOK, PulseOwner,
                                 PulseBefore, PulseMutex, PulseHand, PulseArmed,
                                 PulseTold, PulseOrder, Pulse!Owners, Pulse!Pcs,
                                 Pulse!Servers, Pulse!Nothing, Pulse!Garbage,
                                 Pulse!PulseConstants
<1>2. PulseOwner'
  BY DevicesAssumption, <1>a DEF PulseInv, PulseOwner
<1>3. PulseBefore'
  BY DevicesAssumption, <1>a DEF PulseInv, PulseBefore
<1>4. PulseMutex'
  BY DevicesAssumption, <1>a DEF PulseInv, PulseMutex
<1>5. PulseHand'
  BY DevicesAssumption, <1>a DEF PulseInv, PulseHand
<1>6. PulseArmed'
  BY DevicesAssumption, <1>a DEF PulseInv, PulseArmed
<1>7. PulseTold'
  BY DevicesAssumption, <1>a DEF PulseInv, PulseTold
<1>8. PulseOrder'
  <2>1. Undropped' <=> Undropped
    BY DEF Undropped, PulseInv, Pulse!PulseTypeOK, PulseMutex, PulseOwner
  <2>2. PICK g \in {0, 1} : PulseOrdered(g)
    BY DEF PulseInv, PulseOrder
  <2>3. first' = first /\ (first <= arrived => first' <= arrived')
    BY DevicesAssumption DEF PulseInv, Pulse!PulseTypeOK
  <2>4. PulseOrdered(g)'
    BY <1>a, <2>1, <2>2, <2>3 DEF PulseOrdered
  <2>5. QED
    BY <2>1, <2>3, <2>4 DEF PulseInv, PulseOrder
<1>9. QED
  BY <1>1, <1>2, <1>3, <1>4, <1>5, <1>6, <1>7, <1>8 DEF PulseInv

LEMMA PulseStreamChanges == ASSUME PulseInv, Pulse!StreamChanges PROVE PulseInv'
<1> USE DEF Pulse!StreamChanges, Pulse!hand, Pulse!server, Pulse!kept
<1>a. Taken' = Taken /\ (Pulse!TookGarbage' <=> Pulse!TookGarbage)
  <2>1. UNCHANGED <<frames, framed>>
    OBVIOUS
  <2>2. QED
    BY <2>1, TakenUnchanged
<1>1. Pulse!PulseTypeOK'
  <2>1. stream' \in Pulse!Servers
    BY DEF Pulse!Servers
  <2>2. UNCHANGED <<owner, thread, quit, context, armed, mainloop, recMutex, recSize,
                    arrived, first, frames, framed>>
    OBVIOUS
  <2>3. QED
    BY ONLY PulseInv, <2>1, <2>2 DEF PulseInv, Pulse!PulseTypeOK
<1>2. PulseOwner'
  BY DevicesAssumption, <1>a DEF PulseInv, PulseOwner
<1>3. PulseBefore'
  BY DevicesAssumption, <1>a DEF PulseInv, PulseBefore
<1>4. PulseMutex'
  BY DevicesAssumption, <1>a DEF PulseInv, PulseMutex
<1>5. PulseHand'
  BY DevicesAssumption, <1>a DEF PulseInv, PulseHand
<1>6. PulseArmed'
  BY DevicesAssumption, <1>a DEF PulseInv, PulseArmed
<1>7. PulseTold'
  BY DevicesAssumption, <1>a DEF PulseInv, PulseTold
<1>8. PulseOrder'
  <2>1. Undropped' <=> Undropped
    BY DEF Undropped, PulseInv, Pulse!PulseTypeOK, PulseMutex, PulseOwner
  <2>2. PICK g \in {0, 1} : PulseOrdered(g)
    BY DEF PulseInv, PulseOrder
  <2>3. first' = first /\ (first <= arrived => first' <= arrived')
    BY DevicesAssumption DEF PulseInv, Pulse!PulseTypeOK
  <2>4. PulseOrdered(g)'
    BY <1>a, <2>1, <2>2, <2>3 DEF PulseOrdered
  <2>5. QED
    BY <2>1, <2>3, <2>4 DEF PulseInv, PulseOrder
<1>9. QED
  BY <1>1, <1>2, <1>3, <1>4, <1>5, <1>6, <1>7, <1>8 DEF PulseInv

LEMMA PulseArrives == ASSUME PulseInv, Pulse!Arrives PROVE PulseInv'
<1> USE DEF Pulse!hand, Pulse!server, Pulse!kept
<1>b. UNCHANGED <<owner, thread, quit, context, stream, armed, recMutex, recSize, first, frames, framed>>
  BY DEF Pulse!Arrives
<1>a. Taken' = Taken /\ (Pulse!TookGarbage' <=> Pulse!TookGarbage)
  BY <1>b, TakenUnchanged
<1>c. /\ mainloop = "idle" /\ mainloop' = IF armed THEN "callback" ELSE "idle"
      /\ arrived < MaxFragments /\ arrived' = arrived + 1
  BY DEF Pulse!Arrives
<1>d. MaxFragments \in Nat /\ arrived \in 0..MaxFragments /\ first \in 1..(MaxFragments + 1)
  BY DevicesAssumption DEF PulseInv, Pulse!PulseTypeOK, Pulse!PulseConstants
<1>e. arrived' \in 0..MaxFragments /\ first <= arrived' /\ first <= arrived' + 1
  BY <1>c, <1>d DEF PulseInv, PulseHand
<1>1. Pulse!PulseTypeOK'
  BY <1>b, <1>c, <1>d, <1>e DEF PulseInv, Pulse!PulseTypeOK, Pulse!Pcs, Pulse!Nothing, Pulse!Garbage
<1>2. PulseOwner'
  BY <1>a, <1>b, <1>c, <1>d, <1>e DEF PulseInv, PulseOwner
<1>3. PulseBefore'
  BY <1>a, <1>b, <1>c, <1>d, <1>e DEF PulseInv, PulseBefore
<1>4. PulseMutex'
  BY <1>a, <1>b, <1>c, <1>d, <1>e DEF PulseInv, PulseMutex
<1>5. PulseHand'
  BY <1>b, <1>c, <1>d, <1>e DEF PulseInv, PulseHand
<1>6. PulseArmed'
  BY <1>a, <1>b, <1>c, <1>d, <1>e DEF PulseInv, PulseArmed
<1>7. PulseTold'
  BY <1>a, <1>b, <1>c, <1>d, <1>e DEF PulseInv, PulseTold
<1>8. PulseOrder'
  <2>1. Undropped' <=> Undropped
    BY <1>b, <1>c DEF Undropped
  <2>2. PICK g \in {0, 1} : PulseOrdered(g)
    BY DEF PulseInv, PulseOrder
  <2>3. PulseOrdered(g)'
    BY <1>a, <1>b, <2>1, <2>2 DEF PulseOrdered
  <2>4. Undropped' => first' <= arrived'
    BY <1>b, <1>c, <1>d, <2>1 DEF PulseInv, PulseOrder
  <2>5. QED
    BY <2>3, <2>4 DEF PulseOrder
<1>9. QED
  BY <1>1, <1>2, <1>3, <1>4, <1>5, <1>6, <1>7, <1>8 DEF PulseInv

LEMMA PulseReadCallback == ASSUME PulseInv, Pulse!ReadCallback PROVE PulseInv'
<1> USE DEF Pulse!hand, Pulse!server, Pulse!kept
<1>b. UNCHANGED <<owner, quit, context, stream, recMutex, arrived, first, frames, framed>>
  BY DEF Pulse!ReadCallback
<1>a. Taken' = Taken /\ (Pulse!TookGarbage' <=> Pulse!TookGarbage)
  BY <1>b, TakenUnchanged
<1>c. /\ mainloop = "callback" /\ mainloop' = "idle" /\ recMutex = "nobody"
      /\ \/ UNCHANGED <<thread, armed, recSize>>
         \/ recSize' = first /\ armed' = FALSE /\ thread' = Pulse!Woken
  BY DEF Pulse!ReadCallback, Pulse!ArmedAfterRead, Pulse!hand, Pulse!server
<1>d. MaxFragments \in Nat /\ arrived \in 0..MaxFragments /\ first \in 1..(MaxFragments + 1)
  BY DevicesAssumption DEF PulseInv, Pulse!PulseTypeOK, Pulse!PulseConstants
<1>e. /\ armed /\ first <= arrived /\ first \in 1..MaxFragments
      /\ first # Pulse!Nothing /\ first # Pulse!Garbage
      /\ \/ thread' = thread
         \/ thread = "waiting" /\ thread' = "lock"
  <2>1. armed /\ first <= arrived
    BY <1>c DEF PulseInv, PulseHand
  <2>2. first \in 1..MaxFragments /\ first # Pulse!Nothing /\ first # Pulse!Garbage
    BY <1>d, <2>1 DEF Pulse!Nothing, Pulse!Garbage
  <2>3. \/ thread' = thread
        \/ thread = "waiting" /\ thread' = "lock"
    BY <1>c DEF Pulse!Woken
  <2>4. QED
    BY <2>1, <2>2, <2>3
<1>1. Pulse!PulseTypeOK'
  BY <1>b, <1>c, <1>d, <1>e DEF Pulse!Woken, PulseInv, Pulse!PulseTypeOK, Pulse!Pcs, Pulse!Nothing, Pulse!Garbage
<1>2. PulseOwner'
  BY <1>a, <1>b, <1>c, <1>d, <1>e DEF PulseInv, PulseOwner
<1>3. PulseBefore'
  BY <1>a, <1>b, <1>c, <1>d, <1>e DEF PulseInv, PulseBefore
<1>4. PulseMutex'
  BY <1>a, <1>b, <1>c, <1>d, <1>e DEF PulseInv, PulseMutex
<1>5. PulseHand'
  BY <1>b, <1>c, <1>e DEF PulseInv, PulseHand
<1>6. PulseArmed'
  BY <1>a, <1>b, <1>c, <1>d, <1>e DEF PulseInv, PulseArmed
<1>7. PulseTold'
  BY <1>b, <1>c, <1>e DEF PulseInv, PulseTold
<1>8. PulseOrder'
  <2>1. Undropped' <=> Undropped
    BY <1>b, <1>e DEF Undropped
  <2>2. PICK g \in {0, 1} : PulseOrdered(g)
    BY DEF PulseInv, PulseOrder
  <2>3. PulseOrdered(g)'
    BY <1>a, <1>b, <2>1, <2>2 DEF PulseOrdered
  <2>4. Undropped' => first' <= arrived'
    BY <1>b, <2>1 DEF PulseInv, PulseOrder
  <2>5. QED
    BY <2>3, <2>4 DEF PulseOrder
<1>9. QED
  BY <1>1, <1>2, <1>3, <1>4, <1>5, <1>6, <1>7, <1>8 DEF PulseInv

LEMMA PulseConnectRecord == ASSUME PulseInv, Pulse!ConnectRecord PROVE PulseInv'
<1> USE DEF Pulse!ConnectRecord, Pulse!hand, Pulse!server, Pulse!kept
<1>a. Taken' = Taken /\ (Pulse!TookGarbage' <=> Pulse!TookGarbage)
  <2>1. UNCHANGED <<frames, framed>>
    OBVIOUS
  <2>2. QED
    BY <2>1, TakenUnchanged
<1>1. Pulse!PulseTypeOK'
  BY ZenonT(30), DevicesAssumption, <1>a DEF PulseInv, Pulse!PulseTypeOK, Pulse!Owners,
                                 Pulse!Pcs, Pulse!Servers
<1>2. PulseOwner'
  BY DevicesAssumption, <1>a DEF PulseInv, PulseOwner
<1>3. PulseBefore'
  BY DevicesAssumption, <1>a DEF PulseInv, PulseBefore
<1>4. PulseMutex'
  BY DevicesAssumption, <1>a DEF PulseInv, PulseMutex
<1>5. PulseHand'
  BY DevicesAssumption, <1>a DEF PulseInv, PulseHand
<1>6. PulseArmed'
  BY DevicesAssumption, <1>a DEF PulseInv, PulseArmed
<1>7. PulseTold'
  BY DevicesAssumption, <1>a DEF PulseInv, PulseTold
<1>8. PulseOrder'
  <2>1. Undropped' <=> Undropped
    BY DEF Undropped, PulseInv, Pulse!PulseTypeOK, PulseMutex, PulseOwner
  <2>2. PICK g \in {0, 1} : PulseOrdered(g)
    BY DEF PulseInv, PulseOrder
  <2>3. first' = first /\ (first <= arrived => first' <= arrived')
    BY DevicesAssumption DEF PulseInv, Pulse!PulseTypeOK
  <2>4. PulseOrdered(g)'
    BY <1>a, <2>1, <2>2, <2>3 DEF PulseOrdered
  <2>5. QED
    BY <2>1, <2>3, <2>4 DEF PulseInv, PulseOrder
<1>9. QED
  BY <1>1, <1>2, <1>3, <1>4, <1>5, <1>6, <1>7, <1>8 DEF PulseInv

LEMMA PulseStreamReady == ASSUME PulseInv, Pulse!StreamReady PROVE PulseInv'
<1> USE DEF Pulse!StreamReady, Pulse!hand, Pulse!server, Pulse!kept
<1>a. Taken' = Taken /\ (Pulse!TookGarbage' <=> Pulse!TookGarbage)
  <2>1. UNCHANGED <<frames, framed>>
    OBVIOUS
  <2>2. QED
    BY <2>1, TakenUnchanged
<1>1. Pulse!PulseTypeOK'
  BY DevicesAssumption, <1>a DEF PulseInv, Pulse!PulseTypeOK, Pulse!Owners,
                                 Pulse!Pcs, Pulse!Servers
<1>2. PulseOwner'
  BY DevicesAssumption, <1>a DEF PulseInv, PulseOwner
<1>3. PulseBefore'
  BY DevicesAssumption, <1>a DEF PulseInv, Pulse!PulseTypeOK, PulseOwner,
                                 PulseBefore, PulseMutex, PulseHand, PulseArmed,
                                 PulseTold, PulseOrder, Pulse!Owners, Pulse!Pcs,
                                 Pulse!Servers, Pulse!Nothing, Pulse!Garbage,
                                 Pulse!PulseConstants
<1>4. PulseMutex'
  BY DevicesAssumption, <1>a DEF PulseInv, PulseMutex
<1>5. PulseHand'
  BY DevicesAssumption, <1>a DEF PulseInv, PulseHand
<1>6. PulseArmed'
  BY DevicesAssumption, <1>a DEF PulseInv, Pulse!PulseTypeOK, PulseOwner,
                                 PulseBefore, PulseMutex, PulseHand, PulseArmed,
                                 PulseTold, PulseOrder, Pulse!Owners, Pulse!Pcs,
                                 Pulse!Servers, Pulse!Nothing, Pulse!Garbage,
                                 Pulse!PulseConstants
<1>7. PulseTold'
  BY DevicesAssumption, <1>a DEF PulseInv, PulseTold
<1>8. PulseOrder'
  <2>1. Undropped' <=> Undropped
    BY DEF Undropped, PulseInv, Pulse!PulseTypeOK, PulseMutex, PulseOwner
  <2>2. PICK g \in {0, 1} : PulseOrdered(g)
    BY DEF PulseInv, PulseOrder
  <2>3. first' = first /\ (first <= arrived => first' <= arrived')
    BY DevicesAssumption DEF PulseInv, Pulse!PulseTypeOK
  <2>4. PulseOrdered(g)'
    BY <1>a, <2>1, <2>2, <2>3 DEF PulseOrdered
  <2>5. QED
    BY <2>1, <2>3, <2>4 DEF PulseInv, PulseOrder
<1>9. QED
  BY <1>1, <1>2, <1>3, <1>4, <1>5, <1>6, <1>7, <1>8 DEF PulseInv

LEMMA PulseLocks == ASSUME PulseInv, Pulse!Locks PROVE PulseInv'
<1> USE DEF Pulse!Locks, Pulse!hand, Pulse!server, Pulse!kept
<1>a. Taken' = Taken /\ (Pulse!TookGarbage' <=> Pulse!TookGarbage)
  <2>1. UNCHANGED <<frames, framed>>
    OBVIOUS
  <2>2. QED
    BY <2>1, TakenUnchanged
<1>1. Pulse!PulseTypeOK'
  BY DevicesAssumption, <1>a DEF PulseInv, Pulse!PulseTypeOK, Pulse!Owners,
                                 Pulse!Pcs, Pulse!Servers
<1>2. PulseOwner'
  BY DevicesAssumption, <1>a DEF PulseInv, PulseOwner
<1>3. PulseBefore'
  BY DevicesAssumption, <1>a DEF PulseInv, PulseBefore
<1>4. PulseMutex'
  BY DevicesAssumption, <1>a DEF PulseInv, PulseMutex
<1>5. PulseHand'
  BY DevicesAssumption, <1>a DEF PulseInv, PulseHand
<1>6. PulseArmed'
  BY DevicesAssumption, <1>a DEF PulseInv, PulseArmed
<1>7. PulseTold'
  BY DevicesAssumption, <1>a DEF PulseInv, PulseTold
<1>8. PulseOrder'
  <2>1. Undropped' <=> Undropped
    BY DEF Undropped, PulseInv, Pulse!PulseTypeOK, PulseMutex, PulseOwner
  <2>2. PICK g \in {0, 1} : PulseOrdered(g)
    BY DEF PulseInv, PulseOrder
  <2>3. first' = first /\ (first <= arrived => first' <= arrived')
    BY DevicesAssumption DEF PulseInv, Pulse!PulseTypeOK
  <2>4. PulseOrdered(g)'
    BY <1>a, <2>1, <2>2, <2>3 DEF PulseOrdered
  <2>5. QED
    BY <2>1, <2>3, <2>4 DEF PulseInv, PulseOrder
<1>9. QED
  BY <1>1, <1>2, <1>3, <1>4, <1>5, <1>6, <1>7, <1>8 DEF PulseInv

LEMMA PulseWaits == ASSUME PulseInv, Pulse!Waits PROVE PulseInv'
<1> USE DEF Pulse!Waits, Pulse!hand, Pulse!server, Pulse!kept
<1>a. Taken' = Taken /\ (Pulse!TookGarbage' <=> Pulse!TookGarbage)
  <2>1. UNCHANGED <<frames, framed>>
    OBVIOUS
  <2>2. QED
    BY <2>1, TakenUnchanged
<1>1. Pulse!PulseTypeOK'
  BY DevicesAssumption, <1>a DEF PulseInv, Pulse!PulseTypeOK, Pulse!Owners,
                                 Pulse!Pcs, Pulse!Servers
<1>2. PulseOwner'
  BY DevicesAssumption, <1>a DEF PulseInv, PulseOwner
<1>3. PulseBefore'
  BY DevicesAssumption, <1>a DEF PulseInv, PulseBefore
<1>4. PulseMutex'
  BY DevicesAssumption, <1>a DEF PulseInv, PulseMutex
<1>5. PulseHand'
  BY DevicesAssumption, <1>a DEF PulseInv, PulseHand
<1>6. PulseArmed'
  BY DevicesAssumption, <1>a DEF PulseInv, PulseArmed
<1>7. PulseTold'
  BY DevicesAssumption, <1>a DEF PulseInv, PulseTold
<1>8. PulseOrder'
  <2>1. Undropped' <=> Undropped
    BY DEF Undropped, PulseInv, Pulse!PulseTypeOK, PulseMutex, PulseOwner
  <2>2. PICK g \in {0, 1} : PulseOrdered(g)
    BY DEF PulseInv, PulseOrder
  <2>3. first' = first /\ (first <= arrived => first' <= arrived')
    BY DevicesAssumption DEF PulseInv, Pulse!PulseTypeOK
  <2>4. PulseOrdered(g)'
    BY <1>a, <2>1, <2>2, <2>3 DEF PulseOrdered
  <2>5. QED
    BY <2>1, <2>3, <2>4 DEF PulseInv, PulseOrder
<1>9. QED
  BY <1>1, <1>2, <1>3, <1>4, <1>5, <1>6, <1>7, <1>8 DEF PulseInv

LEMMA PulseQuits == ASSUME PulseInv, Pulse!Quits PROVE PulseInv'
<1> USE DEF Pulse!Quits, Pulse!hand, Pulse!server, Pulse!kept
<1>a. Taken' = Taken /\ (Pulse!TookGarbage' <=> Pulse!TookGarbage)
  <2>1. UNCHANGED <<frames, framed>>
    OBVIOUS
  <2>2. QED
    BY <2>1, TakenUnchanged
<1>1. Pulse!PulseTypeOK'
  BY DevicesAssumption, <1>a DEF PulseInv, Pulse!PulseTypeOK, Pulse!Owners,
                                 Pulse!Pcs, Pulse!Servers
<1>2. PulseOwner'
  BY DevicesAssumption, <1>a DEF PulseInv, PulseOwner
<1>3. PulseBefore'
  BY DevicesAssumption, <1>a DEF PulseInv, PulseBefore
<1>4. PulseMutex'
  BY DevicesAssumption, <1>a DEF PulseInv, PulseMutex
<1>5. PulseHand'
  BY DevicesAssumption, <1>a DEF PulseInv, PulseHand
<1>6. PulseArmed'
  BY DevicesAssumption, <1>a DEF PulseInv, PulseArmed
<1>7. PulseTold'
  BY DevicesAssumption, <1>a DEF PulseInv, PulseTold
<1>8. PulseOrder'
  <2>1. Undropped' <=> Undropped
    BY DEF Undropped, PulseInv, Pulse!PulseTypeOK, PulseMutex, PulseOwner
  <2>2. PICK g \in {0, 1} : PulseOrdered(g)
    BY DEF PulseInv, PulseOrder
  <2>3. first' = first /\ (first <= arrived => first' <= arrived')
    BY DevicesAssumption DEF PulseInv, Pulse!PulseTypeOK
  <2>4. PulseOrdered(g)'
    BY <1>a, <2>1, <2>2, <2>3 DEF PulseOrdered
  <2>5. QED
    BY <2>1, <2>3, <2>4 DEF PulseInv, PulseOrder
<1>9. QED
  BY <1>1, <1>2, <1>3, <1>4, <1>5, <1>6, <1>7, <1>8 DEF PulseInv

LEMMA PulseTakes == ASSUME PulseInv, Pulse!Takes PROVE PulseInv'
<1> USE DEF Pulse!hand, Pulse!server, Pulse!kept
<1>b. UNCHANGED <<owner, quit, context, stream, recMutex, armed, mainloop, arrived, first, framed>>
  BY DEF Pulse!Takes, Pulse!server, Pulse!kept
<1>c. /\ thread = "holding" /\ ~ quit /\ frames' = Append(frames, recSize)
      /\ recSize' = Pulse!Nothing /\ thread' = "want loop"
  BY DEF Pulse!Takes, Pulse!SizeAfterFrame
<1>d. /\ MaxFragments \in Nat /\ arrived \in 0..MaxFragments
      /\ first \in 1..(MaxFragments + 1)
      /\ frames \in Seq({Pulse!Garbage} \cup 1..MaxFragments)
      /\ framed \in Seq({Pulse!Garbage} \cup 1..MaxFragments)
  BY DevicesAssumption DEF PulseInv, Pulse!PulseTypeOK, Pulse!PulseConstants
<1>e. /\ recSize # Pulse!Nothing
      /\ recSize \in {Pulse!Garbage} \cup 1..MaxFragments
      /\ frames = <<>>
  BY <1>c DEF PulseInv, PulseMutex, Pulse!PulseTypeOK, Pulse!Nothing
<1>f. /\ Taken \in Seq({Pulse!Garbage} \cup 1..MaxFragments)
      /\ Taken' \in Seq({Pulse!Garbage} \cup 1..MaxFragments)
      /\ Len(Taken) \in Nat /\ Len(Taken') = Len(Taken) + 1
      /\ \A i \in 1..Len(Taken) : Taken'[i] = Taken[i]
      /\ Taken'[Len(Taken) + 1] = recSize
      /\ frames' \in Seq({Pulse!Garbage} \cup 1..MaxFragments)
      /\ frames' # <<>> /\ frames'[Len(frames')] = recSize
  BY <1>b, <1>c, <1>d, <1>e, TakenGrows
<1>g. Pulse!TookGarbage => Pulse!TookGarbage'
  BY <1>f, TookGarbageTaken
<1>h. recSize = Pulse!Garbage => Pulse!TookGarbage'
  BY <1>f, TookGarbageTaken
<1>1. Pulse!PulseTypeOK'
  BY <1>b, <1>c, <1>d, <1>f DEF PulseInv, Pulse!PulseTypeOK, Pulse!Pcs, Pulse!Nothing, Pulse!Garbage
<1>2. PulseOwner'
  BY <1>b, <1>c, <1>d, <1>e, <1>f DEF PulseInv, Pulse!PulseTypeOK, PulseOwner,
                                      Pulse!Owners, Pulse!Pcs, Pulse!Servers
<1>3. PulseBefore'
  BY <1>b, <1>c, <1>d, <1>e, <1>f DEF PulseInv, Pulse!PulseTypeOK, PulseOwner,
                                      PulseBefore, PulseMutex, PulseHand, PulseArmed,
                                      PulseTold, PulseOrder, Pulse!Owners, Pulse!Pcs,
                                      Pulse!Servers, Pulse!Nothing, Pulse!Garbage,
                                      Pulse!PulseConstants
<1>4. PulseMutex'
  BY <1>b, <1>c, <1>d, <1>e, <1>f DEF PulseInv, Pulse!PulseTypeOK, PulseMutex,
                                      Pulse!Owners, Pulse!Pcs, Pulse!Servers
<1>5. PulseHand'
  <2>a. Pulse!Nothing # Pulse!Garbage
    BY DEF Pulse!Nothing, Pulse!Garbage
  <2>1. recSize' = Pulse!Nothing /\ recSize' # Pulse!Garbage
    BY <1>c, <2>a
  <2>2. mainloop' = "callback" => armed' /\ first' <= arrived'
    BY <1>b DEF PulseInv, PulseHand
  <2>3. first' <= arrived' + 1
    BY <1>b, <1>d DEF PulseInv, PulseHand
  <2>4. QED
    BY <2>1, <2>2, <2>3 DEF PulseHand
<1>6. PulseArmed'
  BY <1>b, <1>c, <1>e, <1>g, <1>h DEF PulseInv, PulseArmed
<1>7. PulseTold'
  BY <1>b, <1>c, <1>d, <1>e, <1>f DEF PulseInv, Pulse!PulseTypeOK, PulseTold,
                                      Pulse!Owners, Pulse!Pcs, Pulse!Servers
<1>8. PulseOrder'
  <2>1. ~ Undropped
    BY <1>c DEF Undropped
  <2>2. PICK g \in {0, 1} : PulseOrdered(g)
    BY DEF PulseInv, PulseOrder
  <2>3. Len(Taken) = g + (first - 1)
    BY <2>1, <2>2 DEF PulseOrdered
  <2>4. CASE recSize = Pulse!Garbage
    <3>1. Taken = <<>>
      BY <1>d, <2>4, EmptySeq, ConcatEmptySeq DEF PulseInv, PulseHand, Taken
    <3>2. g = 0 /\ first = 1 /\ Len(Taken) = 0
      BY <1>d, <2>3, <3>1, EmptySeq
    <3>3. Len(Taken') = 1 /\ Taken'[1] = Pulse!Garbage
      BY <1>f, <2>4, <3>2
    <3>4. ~ Undropped'
      BY <1>f, <2>4 DEF Undropped
    <3>5. PulseOrdered(1)'
      BY <1>b, <3>2, <3>3, <3>4 DEF PulseOrdered
    <3>6. QED
      BY <3>4, <3>5 DEF PulseOrder
  <2>5. CASE recSize # Pulse!Garbage
    <3>1. recSize = first /\ first <= arrived
      BY <1>e, <2>5 DEF PulseInv, PulseHand
    <3>2. Undropped'
      BY <1>c, <1>f, <2>5 DEF Undropped
    <3>3. Len(Taken') = g + first
      BY <1>d, <1>f, <2>3
    <3>4. ASSUME NEW i \in 1..Len(Taken')
          PROVE  Taken'[i] = IF i <= g THEN Pulse!Garbage ELSE i - g
      <4>1. CASE i \in 1..Len(Taken)
        BY <1>f, <2>2, <4>1 DEF PulseOrdered
      <4>2. CASE i = Len(Taken) + 1
        BY <1>d, <1>f, <2>3, <3>1, <4>2
      <4>3. QED
        BY <1>f, <4>1, <4>2
    <3>5. PulseOrdered(g)'
      BY <1>b, <3>2, <3>3, <3>4 DEF PulseOrdered
    <3>6. QED
      BY <1>b, <3>1, <3>5 DEF PulseOrder
  <2>6. QED
    BY <2>4, <2>5
<1>9. QED
  BY <1>1, <1>2, <1>3, <1>4, <1>5, <1>6, <1>7, <1>8 DEF PulseInv

LEMMA PulseDrops == ASSUME PulseInv, Pulse!Drops PROVE PulseInv'
<1> USE DEF Pulse!hand, Pulse!server, Pulse!kept
<1>b. UNCHANGED <<owner, quit, context, stream, armed, mainloop, arrived, framed>>
  BY DEF Pulse!Drops, Pulse!server
<1>c. /\ thread = "want loop" /\ mainloop = "idle"
      /\ recSize = Pulse!Nothing /\ recSize' = Pulse!Nothing /\ frames # <<>>
  BY DEF Pulse!Drops, Pulse!SizeAfterFrame, PulseInv, PulseMutex
<1>d. /\ MaxFragments \in Nat /\ arrived \in 0..MaxFragments
      /\ first \in 1..(MaxFragments + 1)
      /\ frames \in Seq({Pulse!Garbage} \cup 1..MaxFragments)
      /\ framed \in Seq({Pulse!Garbage} \cup 1..MaxFragments)
  BY DevicesAssumption DEF PulseInv, Pulse!PulseTypeOK, Pulse!PulseConstants
<1>e. /\ first' = IF Undropped THEN first + 1 ELSE first
      /\ first' \in 1..(MaxFragments + 1) /\ first' <= arrived + 1
      /\ Undropped => first <= arrived
  <2>1. first' = IF Undropped THEN first + 1 ELSE first
    BY <1>c DEF Pulse!Drops, Undropped
  <2>2. /\ Undropped => first <= arrived
        /\ first <= arrived + 1
    BY DEF PulseInv, PulseOrder, PulseHand
  <2>3. QED
    BY <1>d, <2>1, <2>2
<1>f. /\ frames' # <<>> /\ frames' \in Seq({Pulse!Garbage} \cup 1..MaxFragments)
      /\ \/ frames' = frames /\ thread' = "rearm" /\ recMutex' = "nobody"
         \/ /\ thread' = "want loop" /\ recMutex' = recMutex
            /\ first' <= arrived /\ first' \in 1..MaxFragments
            /\ frames' = Append(frames, first')
  <2>1. \/ frames' = frames /\ thread' = "rearm" /\ recMutex' = "nobody"
        \/ /\ thread' = "want loop" /\ recMutex' = recMutex
           /\ first' <= arrived /\ frames' = Append(frames, first')
    BY <1>c DEF Pulse!Drops
  <2>2. CASE frames' = frames /\ thread' = "rearm" /\ recMutex' = "nobody"
    BY <1>c, <1>d, <2>2
  <2>3. CASE /\ thread' = "want loop" /\ recMutex' = recMutex
             /\ first' <= arrived /\ frames' = Append(frames, first')
    <3>1. PICK n : n = first'
      OBVIOUS
    <3>2. n \in 1..(MaxFragments + 1) /\ n <= arrived
      BY <1>e, <2>3, <3>1
    <3>3. n \in 1..MaxFragments
      BY <1>d, <3>2
    <3>4. n \in {Pulse!Garbage} \cup 1..MaxFragments
      BY <3>3
    <3>5. Append(frames, n) # <<>> /\ Append(frames, n) \in Seq({Pulse!Garbage} \cup 1..MaxFragments)
      BY <1>d, <3>4, AppendProperties
    <3>6. frames' = Append(frames, n)
      BY <2>3, <3>1
    <3>7. QED
      BY <2>3, <3>1, <3>3, <3>5, <3>6
  <2>4. QED
    BY <2>1, <2>2, <2>3
<1>g. ASSUME frames' = Append(frames, first'), first' \in 1..MaxFragments
      PROVE  /\ Taken \in Seq({Pulse!Garbage} \cup 1..MaxFragments)
             /\ Taken' \in Seq({Pulse!Garbage} \cup 1..MaxFragments)
             /\ Len(Taken) \in Nat /\ Len(Taken') = Len(Taken) + 1
             /\ \A i \in 1..Len(Taken) : Taken'[i] = Taken[i]
             /\ Taken'[Len(Taken) + 1] = first'
             /\ frames' \in Seq({Pulse!Garbage} \cup 1..MaxFragments)
             /\ frames' # <<>> /\ frames'[Len(frames')] = first'
  BY <1>b, <1>d, <1>g, TakenGrows
<1>h. Pulse!TookGarbage => Pulse!TookGarbage'
  <2>1. CASE frames' = frames
    BY <1>b, <2>1, TakenUnchanged
  <2>2. CASE frames' = Append(frames, first') /\ first' \in 1..MaxFragments
    BY <1>g, <2>2, TookGarbageTaken
  <2>3. QED
    BY <1>f, <2>1, <2>2
<1>1. Pulse!PulseTypeOK'
  BY <1>b, <1>c, <1>d, <1>e, <1>f DEF PulseInv, Pulse!PulseTypeOK, Pulse!Pcs, Pulse!Nothing
<1>2. PulseOwner'
  BY <1>b, <1>c, <1>d, <1>e, <1>f DEF PulseInv, Pulse!PulseTypeOK, PulseOwner,
                                      Pulse!Owners, Pulse!Pcs, Pulse!Servers
<1>3. PulseBefore'
  BY <1>b, <1>c, <1>d, <1>e, <1>f DEF PulseInv, Pulse!PulseTypeOK, PulseBefore,
                                      Pulse!Owners, Pulse!Pcs, Pulse!Servers
<1>4. PulseMutex'
  BY <1>b, <1>c, <1>d, <1>e, <1>f DEF PulseInv, Pulse!PulseTypeOK, PulseMutex,
                                      Pulse!Owners, Pulse!Pcs, Pulse!Servers
<1>5. PulseHand'
  BY <1>b, <1>c, <1>d, <1>e DEF PulseInv, PulseHand, Pulse!Nothing, Pulse!Garbage
<1>6. PulseArmed'
  BY <1>b, <1>c, <1>f, <1>h DEF PulseInv, PulseArmed
<1>7. PulseTold'
  BY <1>b, <1>c, <1>d, <1>e, <1>f DEF PulseInv, Pulse!PulseTypeOK, PulseTold,
                                      Pulse!Owners, Pulse!Pcs, Pulse!Servers
<1>8. PulseOrder'
  <2>1. PICK g \in {0, 1} : PulseOrdered(g)
    BY DEF PulseInv, PulseOrder
  <2>2. Len(Taken) = g + (first' - 1)
    BY <1>d, <1>e, <2>1 DEF PulseOrdered
  <2>3. CASE frames' = frames /\ thread' = "rearm"
    <3>1. Taken' = Taken
      BY <1>b, <2>3, TakenUnchanged
    <3>2. ~ Undropped'
      BY <2>3 DEF Undropped
    <3>3. PulseOrdered(g)'
      BY <2>1, <2>2, <3>1, <3>2 DEF PulseOrdered
    <3>4. QED
      BY <3>2, <3>3 DEF PulseOrder
  <2>4. CASE /\ thread' = "want loop" /\ frames' = Append(frames, first')
             /\ first' <= arrived /\ first' \in 1..MaxFragments
    <3>1. /\ Len(Taken) \in Nat /\ Len(Taken') = Len(Taken) + 1
          /\ \A i \in 1..Len(Taken) : Taken'[i] = Taken[i]
          /\ Taken'[Len(Taken) + 1] = first'
          /\ frames'[Len(frames')] = first'
      BY <1>g, <2>4
    <3>2. PICK n \in 1..MaxFragments : n = first'
      BY <2>4
    <3>3. n # Pulse!Garbage
      BY <1>d DEF Pulse!Garbage
    <3>4. Undropped'
      BY <2>4, <3>1, <3>2, <3>3 DEF Undropped
    <3>5. Len(Taken) = g + (n - 1)
      BY <2>2, <3>2
    <3>6. Len(Taken) + 1 = g + n
      BY <1>d, <3>1, <3>5
    <3>7. Len(Taken') = g + first'
      BY <3>1, <3>2, <3>6
    <3>8. ASSUME NEW i \in 1..Len(Taken')
          PROVE  Taken'[i] = IF i <= g THEN Pulse!Garbage ELSE i - g
      <4>1. CASE i \in 1..Len(Taken)
        BY <2>1, <3>1, <4>1 DEF PulseOrdered
      <4>2. CASE i = Len(Taken) + 1
        <5>1. Taken'[i] = n
          BY <3>1, <3>2, <4>2
        <5>2. ~ i <= g /\ i - g = n
          BY <1>d, <3>6, <4>2
        <5>3. QED
          BY <5>1, <5>2
      <4>3. QED
        BY <3>1, <4>1, <4>2
    <3>9. PulseOrdered(g)'
      BY <3>4, <3>7, <3>8 DEF PulseOrdered
    <3>10. QED
      BY <1>b, <2>4, <3>9 DEF PulseOrder
  <2>5. QED
    BY <1>f, <2>3, <2>4
<1>9. QED
  BY <1>1, <1>2, <1>3, <1>4, <1>5, <1>6, <1>7, <1>8 DEF PulseInv

LEMMA PulseRearms == ASSUME PulseInv, Pulse!Rearms PROVE PulseInv'
<1> USE DEF Pulse!Rearms, Pulse!ArmedAgain, Pulse!hand, Pulse!server, Pulse!kept
<1>a. Taken' = Taken /\ (Pulse!TookGarbage' <=> Pulse!TookGarbage)
  <2>1. UNCHANGED <<frames, framed>>
    OBVIOUS
  <2>2. QED
    BY <2>1, TakenUnchanged
<1>1. Pulse!PulseTypeOK'
  BY DevicesAssumption, <1>a DEF PulseInv, Pulse!PulseTypeOK, Pulse!Owners,
                                 Pulse!Pcs, Pulse!Servers
<1>2. PulseOwner'
  BY DevicesAssumption, <1>a DEF PulseInv, PulseOwner
<1>3. PulseBefore'
  BY DevicesAssumption, <1>a DEF PulseInv, Pulse!PulseTypeOK, PulseOwner,
                                 PulseBefore, PulseMutex, PulseHand, PulseArmed,
                                 PulseTold, PulseOrder, Pulse!Owners, Pulse!Pcs,
                                 Pulse!Servers, Pulse!Nothing, Pulse!Garbage,
                                 Pulse!PulseConstants
<1>4. PulseMutex'
  BY DevicesAssumption, <1>a DEF PulseInv, PulseMutex
<1>5. PulseHand'
  BY DevicesAssumption, <1>a DEF PulseInv, PulseHand
<1>6. PulseArmed'
  BY DevicesAssumption, <1>a DEF PulseInv, PulseArmed
<1>7. PulseTold'
  BY DevicesAssumption, <1>a DEF PulseInv, PulseTold
<1>8. PulseOrder'
  <2>1. Undropped' <=> Undropped
    BY DEF Undropped, PulseInv, Pulse!PulseTypeOK, PulseMutex, PulseOwner
  <2>2. PICK g \in {0, 1} : PulseOrdered(g)
    BY DEF PulseInv, PulseOrder
  <2>3. first' = first /\ (first <= arrived => first' <= arrived')
    BY DevicesAssumption DEF PulseInv, Pulse!PulseTypeOK
  <2>4. PulseOrdered(g)'
    BY <1>a, <2>1, <2>2, <2>3 DEF PulseOrdered
  <2>5. QED
    BY <2>1, <2>3, <2>4 DEF PulseInv, PulseOrder
<1>9. QED
  BY <1>1, <1>2, <1>3, <1>4, <1>5, <1>6, <1>7, <1>8 DEF PulseInv

LEMMA PulseFramesEnd == ASSUME PulseInv, Pulse!FramesEnd PROVE PulseInv'
<1> USE DEF Pulse!hand, Pulse!server, Pulse!kept
<1>b. UNCHANGED <<owner, quit, context, stream, armed, mainloop, recMutex, recSize, arrived, first>>
  BY DEF Pulse!FramesEnd, Pulse!server
<1>c. /\ thread = "frame" /\ thread' = "lock"
      /\ framed' = framed \o frames /\ frames' = <<>>
  BY DEF Pulse!FramesEnd
<1>d. /\ MaxFragments \in Nat /\ arrived \in 0..MaxFragments
      /\ first \in 1..(MaxFragments + 1)
      /\ frames \in Seq({Pulse!Garbage} \cup 1..MaxFragments)
      /\ framed \in Seq({Pulse!Garbage} \cup 1..MaxFragments)
  BY DevicesAssumption DEF PulseInv, Pulse!PulseTypeOK, Pulse!PulseConstants
<1>e. /\ framed' \in Seq({Pulse!Garbage} \cup 1..MaxFragments)
      /\ frames' \in Seq({Pulse!Garbage} \cup 1..MaxFragments)
      /\ Taken' = Taken
  BY <1>c, <1>d, EmptySeq, ConcatProperties, ConcatEmptySeq DEF Taken
<1>f. Pulse!TookGarbage' <=> Pulse!TookGarbage
  BY <1>e DEF Pulse!TookGarbage, Taken
<1>1. Pulse!PulseTypeOK'
  BY <1>b, <1>c, <1>e DEF PulseInv, Pulse!PulseTypeOK, Pulse!Pcs
<1>2. PulseOwner'
  BY <1>b, <1>c, <1>d, <1>e DEF PulseInv, Pulse!PulseTypeOK, PulseOwner,
                                Pulse!Owners, Pulse!Pcs, Pulse!Servers
<1>3. PulseBefore'
  BY <1>b, <1>c, <1>d, <1>e DEF PulseInv, Pulse!PulseTypeOK, PulseBefore,
                                Pulse!Owners, Pulse!Pcs, Pulse!Servers
<1>4. PulseMutex'
  BY <1>b, <1>c, <1>d, <1>e DEF PulseInv, Pulse!PulseTypeOK, PulseMutex,
                                Pulse!Owners, Pulse!Pcs, Pulse!Servers
<1>5. PulseHand'
  <2>1. recSize = Pulse!Garbage => framed' = <<>>
    BY <1>c, <1>d, EmptySeq, ConcatEmptySeq DEF PulseInv, PulseHand
  <2>2. QED
    BY <1>b, <1>c, <2>1 DEF PulseInv, PulseHand
<1>6. PulseArmed'
  BY <1>b, <1>c, <1>f DEF PulseInv, PulseArmed
<1>7. PulseTold'
  BY <1>b, <1>c, <1>d, <1>e DEF PulseInv, Pulse!PulseTypeOK, PulseTold, Pulse!Owners,
                                Pulse!Pcs, Pulse!Servers
<1>8. PulseOrder'
  <2>1. PICK g \in {0, 1} : PulseOrdered(g)
    BY DEF PulseInv, PulseOrder
  <2>2. ~ Undropped /\ ~ Undropped'
    BY <1>c DEF Undropped
  <2>3. PulseOrdered(g)'
    BY <1>b, <1>e, <2>1, <2>2 DEF PulseOrdered
  <2>4. QED
    BY <2>2, <2>3 DEF PulseOrder
<1>9. QED
  BY <1>1, <1>2, <1>3, <1>4, <1>5, <1>6, <1>7, <1>8 DEF PulseInv

-----------------------------------------------------------------------------
(* The devices together.                                                   *)

DevicesInv ==
  /\ device \in {"fake", "v4l2", "macos", "pulse"}
  /\ device = "fake"  => SteadyInv
  /\ device = "v4l2"  => V4L2Inv
  /\ device = "macos" => MacosInv
  /\ device = "pulse" => PulseInv

LEMMA SteadyNext == ASSUME SteadyInv, Steady!Next PROVE SteadyInv'
  BY SteadyStart, SteadyStop, SteadyDestroy, SteadyJoined, SteadyPrepare,
     SteadyFrameBegins, SteadyLoopEnds, SteadyFrameEnds, SteadyClock
     DEF Steady!Next, Steady!Thread

LEMMA V4L2Next == ASSUME V4L2Inv, V4L2!Next PROVE V4L2Inv'
<1>1. ASSUME NEW after \in {"stopped", "opening"}, V4L2!StopBegins(after) PROVE V4L2Inv'
  BY <1>1, V4L2StopBegins
<1>2. CASE \E b \in V4L2!Buffers : V4L2!MapBuffer(b) \/ V4L2!DriverFills(b)
  BY <1>2, V4L2MapBuffer, V4L2DriverFills
<1>3. QED
  BY <1>1, <1>2, V4L2Joined, V4L2Releases, V4L2Opens, V4L2StreamOn, V4L2Destroy,
     V4L2Selects, V4L2Converts, V4L2FrameEnds, V4L2Requeues
     DEF V4L2!Next, V4L2!Thread

LEMMA MacosNext == ASSUME MacosInv, Macos!Next PROVE MacosInv'
<1>1. CASE \E n \in 0..Len(Macos!Stages) : Macos!Acquires(n)
  BY <1>1, MacosAcquires DEF Macos!Stages
<1>2. QED
  BY <1>1, MacosDeviceStarts, MacosStop, MacosDestroy, MacosOnIOProc,
     MacosOnConverterProc, MacosFrameEnds DEF Macos!Next

LEMMA PulseNext == ASSUME PulseInv, Pulse!Next PROVE PulseInv'
<1>1. CASE Pulse!Owner
  BY <1>1, PulseStartConnects, PulseContextSettled, PulseStartRecords, PulseStopQuits,
     PulseStopNotifies, PulseJoined, PulseDestroy DEF Pulse!Owner
<1>2. CASE Pulse!Mainloop
  BY <1>2, PulseContextChanges, PulseServerFails, PulseStreamChanges, PulseArrives,
     PulseReadCallback DEF Pulse!Mainloop
<1>3. CASE Pulse!Thread
  BY <1>3, PulseConnectRecord, PulseStreamReady, PulseLocks, PulseWaits, PulseQuits,
     PulseTakes, PulseDrops, PulseRearms, PulseFramesEnd DEF Pulse!Thread
<1>4. QED
  BY <1>1, <1>2, <1>3 DEF Pulse!Next

LEMMA SteadyInit == Steady!Init => SteadyInv
<1> SUFFICES ASSUME Steady!Init PROVE SteadyInv
  OBVIOUS
<1>1. Rate \in Nat /\ Unit \in Nat \ {0} /\ MaxTime \in Nat
  BY DevicesAssumption DEF Steady!SteadyConstants
<1>2. Rate * 0 = 0 /\ Unit * 0 = 0
  BY <1>1
<1>3. Steady!SteadyTypeOK
  <2>1. {now, timestamp, prev, begun} \subseteq 0..MaxTime
    BY <1>1 DEF Steady!Init
  <2>2. QED
    BY <2>1 DEF Steady!Init, Steady!SteadyTypeOK, Steady!Owners, Steady!Pcs
<1>4. SteadyOwner /\ SteadyEngine /\ SteadyFrame
  BY DEF Steady!Init, SteadyOwner, SteadyEngine, SteadyFrame
<1>5. Steady!SamplesKeepPace
  BY <1>1, <1>2 DEF Steady!Init, Steady!SamplesKeepPace
<1>6. QED
  BY <1>3, <1>4, <1>5 DEF SteadyInv

LEMMA V4L2Init == V4L2!Init => V4L2Inv
  BY DEF V4L2!Init, V4L2Inv, V4L2!V4L2TypeOK, V4L2Owner, V4L2Mapping, V4L2Mapped,
     V4L2!BuffersHaveOneHolder, V4L2!StopReleasesAll, V4L2!Owners, V4L2!Pcs, V4L2!Buffers,
     V4L2!NoBuffer

LEMMA MacosInit == Macos!Init => MacosInv
<1> SUFFICES ASSUME Macos!Init PROVE MacosInv
  OBVIOUS
<1>1. MaxHeard \in Nat
  BY DevicesAssumption DEF Macos!MacosConstants
<1>2. <<>> \in Seq(Nat) /\ Len(<<>>) = 0
  BY EmptySeq
<1>3. Macos!MacosTypeOK
  <2>1. heard \in 0..MaxHeard /\ framed \in 0..MaxHeard
    BY <1>1 DEF Macos!Init
  <2>2. /\ recBuf \in Seq(Nat) /\ frame \in Seq(Nat)
        /\ acquired \subseteq Macos!Range(Macos!Stages) \ {"device"}
    BY <1>2 DEF Macos!Init
  <2>3. {quit, known, ioRunning} \subseteq BOOLEAN
    BY DEF Macos!Init
  <2>4. {converter, ioproc} \subseteq {"garbage", "made", "null"}
    BY DEF Macos!Init
  <2>5. QED
    BY <2>1, <2>2, <2>3, <2>4 DEF Macos!Init, Macos!MacosTypeOK
<1>4. MacosOwner /\ MacosAcquired /\ Macos!StopUnregisters /\ Macos!GarbageOnlyAfterFailure
  BY DEF Macos!Init, MacosOwner, MacosAcquired, Macos!StopUnregisters,
     Macos!GarbageOnlyAfterFailure, Macos!HasDevice
<1>5. MacosFrame
  BY DEF Macos!Init, MacosFrame
<1>6. MacosNumbers
  BY <1>2 DEF Macos!Init, MacosNumbers
<1>7. QED
  BY <1>3, <1>4, <1>5, <1>6 DEF MacosInv

LEMMA PulseInit == Pulse!Init => PulseInv
<1> SUFFICES ASSUME Pulse!Init PROVE PulseInv
  OBVIOUS
<1>1. MaxFragments \in Nat \ {0}
  BY DevicesAssumption DEF Pulse!PulseConstants
<1>2. /\ <<>> \in Seq({Pulse!Garbage} \cup 1..MaxFragments)
      /\ framed = <<>> /\ frames = <<>>
  BY EmptySeq DEF Pulse!Init
<1>3. Taken = <<>> /\ Len(Taken) = 0
  BY <1>2, EmptySeq, ConcatEmptySeq DEF Taken
<1>4. Pulse!PulseTypeOK
  <2>1. arrived \in 0..MaxFragments /\ first \in 1..(MaxFragments + 1)
    BY <1>1 DEF Pulse!Init
  <2>2. recSize \in {Pulse!Garbage, Pulse!Nothing}
    BY DEF Pulse!Init
  <2>3. QED
    BY <1>2, <2>1, <2>2
       DEF Pulse!Init, Pulse!PulseTypeOK, Pulse!Owners, Pulse!Pcs, Pulse!Servers
<1>5. /\ PulseOwner /\ PulseBefore /\ PulseMutex /\ PulseArmed /\ PulseTold
  BY DEF Pulse!Init, PulseOwner, PulseBefore, PulseMutex, PulseArmed, PulseTold
<1>6. PulseHand
  BY DEF Pulse!Init, PulseHand
<1>7. PulseOrdered(0) /\ ~ Undropped
  BY <1>3 DEF Pulse!Init, PulseOrdered, Undropped
<1>8. QED
  BY <1>4, <1>5, <1>6, <1>7 DEF PulseInv, PulseOrder

LEMMA DevicesInit == Init => DevicesInv
  BY SteadyInit, V4L2Init, MacosInit, PulseInit DEF Init, DevicesInv

LEMMA Unchanged == ASSUME DevicesInv, UNCHANGED vars PROVE DevicesInv'
<1>1. /\ UNCHANGED <<device, owner, thread, quit, framed>>
      /\ UNCHANGED <<onPrepare, engine, now, timestamp, prev, begun, samples, count>>
      /\ UNCHANGED <<next, fd, mapped, pool, queued, filled, held, refused, lost>>
      /\ UNCHANGED <<known, acquired, converter, ioproc, ioRunning, recBuf, heard, frame>>
      /\ UNCHANGED <<context, stream, armed, mainloop, recMutex, recSize, arrived, first,
                     frames>>
  BY DEF vars, ofSteady, ofV4L2, ofMacos, ofPulse
<1>2. SteadyInv' <=> SteadyInv
  BY <1>1 DEF SteadyInv, Steady!SteadyTypeOK, SteadyOwner, SteadyEngine, SteadyFrame,
     Steady!SamplesKeepPace
<1>3. V4L2Inv' <=> V4L2Inv
  BY <1>1 DEF V4L2Inv, V4L2!V4L2TypeOK, V4L2Owner, V4L2Mapping, V4L2Mapped,
     V4L2!BuffersHaveOneHolder, V4L2!StopReleasesAll
<1>4. MacosInv' <=> MacosInv
  BY <1>1 DEF MacosInv, Macos!MacosTypeOK, MacosOwner, MacosAcquired, MacosFrame,
     MacosNumbers, Macos!StopUnregisters, Macos!GarbageOnlyAfterFailure, Macos!HasDevice
<1>5. PulseInv' <=> PulseInv
  <2>1. Taken' = Taken /\ (Pulse!TookGarbage' <=> Pulse!TookGarbage) /\ (Undropped' <=> Undropped)
    BY <1>1, TakenUnchanged DEF Undropped
  <2>2. \A g : PulseOrdered(g)' <=> PulseOrdered(g)
    BY <1>1, <2>1 DEF PulseOrdered
  <2>3. PulseOrder' <=> PulseOrder
    BY <1>1, <2>1, <2>2 DEF PulseOrder
  <2>4. Pulse!PulseTypeOK' <=> Pulse!PulseTypeOK
    BY <1>1 DEF Pulse!PulseTypeOK
  <2>5. /\ PulseOwner' <=> PulseOwner
        /\ PulseBefore' <=> PulseBefore
        /\ PulseMutex' <=> PulseMutex
        /\ PulseHand' <=> PulseHand
        /\ PulseTold' <=> PulseTold
    BY <1>1 DEF PulseOwner, PulseBefore, PulseMutex, PulseHand, PulseTold
  <2>6. PulseArmed' <=> PulseArmed
    BY <1>1, <2>1 DEF PulseArmed
  <2>7. QED
    BY <2>3, <2>4, <2>5, <2>6 DEF PulseInv
<1>6. QED
  BY <1>1, <1>2, <1>3, <1>4, <1>5 DEF DevicesInv

LEMMA DevicesNext == ASSUME DevicesInv, [Next]_vars PROVE DevicesInv'
<1>1. CASE UNCHANGED vars
  BY <1>1, Unchanged
<1>2. CASE Next
  BY <1>2, SteadyNext, V4L2Next, MacosNext, PulseNext DEF Next, DevicesInv
<1>3. QED
  BY <1>1, <1>2

\* Whichever device was chosen, its threads, its owner and what calls it keep what the
\* properties below rest on (examples/sumomo, the capturers and recorders).
THEOREM DevicesInvariance == Spec => []DevicesInv
<1>1. QED
  BY DevicesInit, DevicesNext, PTL DEF Spec

\* A frame is made with an engine and a buffer that are there and that nobody else holds
\* (fake_capturer.cpp:66, v4l2_capturer.cpp:191).
THEOREM SourceInvariance == Spec => []FramesHaveTheirSource
<1>1. DevicesInv => FramesHaveTheirSource
  <2>1. DevicesInv => TypeOK
    BY DEF DevicesInv, TypeOK, SteadyInv, V4L2Inv, MacosInv, PulseInv
  <2>2. SteadyInv => Steady!EngineOutlivesFrames
    BY DEF SteadyInv, SteadyOwner, SteadyEngine, Steady!SteadyTypeOK,
       Steady!EngineOutlivesFrames
  <2>3. QED
    BY <2>1, <2>2 DEF DevicesInv, V4L2Inv, FramesHaveTheirSource
<1>2. QED
  BY <1>1, DevicesInvariance, PTL

LEMMA SamplesAreInOrder == MacosInv => Macos!SamplesInOrder
<1> SUFFICES ASSUME MacosInv PROVE Macos!SamplesInOrder
  OBVIOUS
<1>1. /\ frame \in Seq(Nat) /\ recBuf \in Seq(Nat)
      /\ heard \in Int /\ framed \in Int
  BY DevicesAssumption DEF MacosInv, Macos!MacosTypeOK, Macos!MacosConstants
<1>2. PICK a \in Nat, b \in Nat, n \in Int :
        a = Len(frame) /\ b = Len(recBuf) /\ n = heard - framed
  BY <1>1, LenProperties
<1>3. n = a + b
  BY <1>2 DEF MacosInv, MacosNumbers
<1>4. PICK s : s = frame \o recBuf
  OBVIOUS
<1>5. /\ s \in Seq(Nat) /\ Len(s) = a + b
      /\ \A i \in 1..(a + b) : s[i] = IF i <= a THEN frame[i] ELSE recBuf[i - a]
  BY <1>1, <1>2, <1>4, ConcatProperties
<1>6. /\ \A i \in 1..a : frame[i] = framed + i
      /\ \A i \in 1..b : recBuf[i] = framed + a + i
  BY <1>2 DEF MacosInv, MacosNumbers
<1>7. ASSUME NEW i \in 1..n PROVE s[i] = framed + i
  <2>1. CASE i <= a
    BY <1>2, <1>3, <1>5, <1>6, <2>1
  <2>2. CASE ~ i <= a
    <3>1. i - a \in 1..b /\ i \in 1..(a + b)
      BY <1>2, <1>3, <2>2
    <3>2. s[i] = framed + a + (i - a)
      BY <1>5, <1>6, <2>2, <3>1
    <3>3. QED
      BY <1>1, <1>2, <3>1, <3>2
  <2>3. QED
    BY <2>1, <2>2
<1>8. s = [i \in 1..n |-> s[i]]
  BY <1>3, <1>5, LenProperties
<1>9. s = [i \in 1..n |-> framed + i]
  BY <1>7, <1>8
<1>10. frame \o recBuf = [i \in 1..(heard - framed) |-> framed + i]
  BY <1>2, <1>4, <1>9
<1>11. QED
  BY <1>10 DEF MacosInv, MacosNumbers, Macos!SamplesInOrder

LEMMA FragmentsAreInOrder == PulseInv => Pulse!FragmentsInOrder
  BY DEF PulseInv, PulseOrder, PulseOrdered, Taken, Pulse!FragmentsInOrder

\* What is recorded becomes frames, once, in order and without a gap, whatever the
\* threads do meanwhile (fake_recorder.cpp:86, macos_recorder.cpp:384,
\* pulse_recorder.cpp:280).
THEOREM AudioInvariance == Spec => []AudioIsFramed
<1>1. DevicesInv => AudioIsFramed
  BY SamplesAreInOrder, FragmentsAreInOrder DEF DevicesInv, SteadyInv, AudioIsFramed
<1>2. QED
  BY <1>1, DevicesInvariance, PTL

\* However far a Start has got, Stop gives back all it took, and hands over what nobody
\* has set only if Start failed between the device and the IOProc
\* (v4l2_capturer.cpp:226, macos_recorder.cpp:270).
THEOREM StopInvariance == Spec => []StopGivesBack
<1>1. DevicesInv => StopGivesBack
  BY DEF DevicesInv, V4L2Inv, MacosInv, StopGivesBack
<1>2. QED
  BY <1>1, DevicesInvariance, PTL

\* The recording thread and the mainloop of PulseAudio wait for each other only while
\* the other can still come (pulse_recorder.cpp:276, 299 and 343).
THEOREM MeetingInvariance == Spec => []ThreadsMeet
<1>1. PulseInv => Pulse!LocksMeetOnlyOnGarbage /\ Pulse!WaitingMeansArmed
  BY DEF PulseInv, PulseArmed, PulseTold, Pulse!LocksMeetOnlyOnGarbage,
     Pulse!WaitingMeansArmed
<1>2. DevicesInv => ThreadsMeet
  BY <1>1 DEF DevicesInv, ThreadsMeet
<1>3. QED
  BY <1>2, DevicesInvariance, PTL

-----------------------------------------------------------------------------
(* Every device keeps the promise of FrameSource.                          *)

\* The steps of FrameSource, and none, from phase p and delivering d to q and e.
SourceStep(p, d, q, e) ==
  \/ q = p /\ (e <=> d)
  \/ p = "stopped" /\ q = "started" /\ (e <=> d)
  \/ p = "started" /\ q = "started" /\ ~ d /\ e
  \/ q = p /\ d /\ ~ e
  \/ p = "started" /\ q = "stopped" /\ ~ d /\ ~ e
  \/ p # "gone" /\ q = "gone" /\ ~ d /\ ~ e

LEMMA SourceStepSimulates ==
  ASSUME Delivering \in BOOLEAN, Delivering' \in BOOLEAN,
         SourceStep(Phase, Delivering, Phase', Delivering')
  PROVE  [Source!Next]_(Source!vars)
  BY Zenon DEF SourceStep, Source!Next, Source!Start, Source!FrameBegins, Source!FrameEnds,
     Source!Stop, Source!Destroy, Source!vars

LEMMA SteadySimulates ==
  ASSUME SteadyInv, Steady!Next
  PROVE  SourceStep(Steady!Phase, Steady!Delivering, Steady!Phase', Steady!Delivering')
  BY DEF SteadyInv, SteadyOwner, Steady!Next, Steady!Thread, Steady!Start, Steady!Stop,
     Steady!Destroy, Steady!Joined, Steady!Prepare, Steady!FrameBegins, Steady!LoopEnds,
     Steady!FrameEnds, Steady!Clock, Steady!AtRest, Steady!StopThen, Steady!locals,
     Steady!Phase, Steady!Delivering, SourceStep

LEMMA V4L2Simulates ==
  ASSUME V4L2Inv, V4L2!Next
  PROVE  SourceStep(V4L2!Phase, V4L2!Delivering, V4L2!Phase', V4L2!Delivering')
  BY DEF V4L2Inv, V4L2Owner, V4L2!Next, V4L2!Thread, V4L2!StopBegins, V4L2!Joined,
     V4L2!Releases, V4L2!Opens, V4L2!StreamOn, V4L2!Destroy, V4L2!MapBuffer,
     V4L2!DriverFills, V4L2!Selects, V4L2!Converts, V4L2!FrameEnds, V4L2!Requeues,
     V4L2!buffers, V4L2!AtRest, V4L2!SeesQuit, V4L2!HasStopped, V4L2!Phase, V4L2!Delivering,
     SourceStep

LEMMA MacosSimulates ==
  ASSUME MacosInv, Macos!Next
  PROVE  SourceStep(Macos!Phase, Macos!Delivering, Macos!Phase', Macos!Delivering')
<1>1. CASE \E n \in 0..Len(Macos!Stages) : Macos!Acquires(n)
  <2>1. /\ owner = "stopped" /\ thread = "none" /\ owner' \in {"starting", "failed"}
        /\ thread' \in {"none", "converting"}
    BY <1>1 DEF Macos!Acquires, MacosInv, MacosOwner
  <2>2. QED
    BY <2>1 DEF Macos!Phase, Macos!Delivering, SourceStep
<1>2. CASE Macos!DeviceStarts \/ Macos!Stop \/ Macos!Destroy
  BY <1>2 DEF MacosInv, MacosOwner, Macos!DeviceStarts, Macos!Stop, Macos!Destroy,
     Macos!HasDevice, Macos!data, Macos!Phase, Macos!Delivering, SourceStep
<1>3. CASE Macos!OnIOProc \/ Macos!OnConverterProc \/ Macos!FrameEnds
  <2>1. /\ UNCHANGED owner
        /\ \/ UNCHANGED thread
           \/ thread = "converting" /\ thread' = "frame"
           \/ thread = "frame" /\ thread' = "converting"
    BY <1>3 DEF Macos!OnIOProc, Macos!OnConverterProc, Macos!FrameEnds
  <2>2. QED
    BY <2>1 DEF MacosInv, MacosOwner, Macos!Phase, Macos!Delivering, SourceStep
<1>4. QED
  BY <1>1, <1>2, <1>3 DEF Macos!Next

LEMMA PulseSimulates ==
  ASSUME PulseInv, Pulse!Next
  PROVE  SourceStep(Pulse!Phase, Pulse!Delivering, Pulse!Phase', Pulse!Delivering')
<1> USE DEF PulseInv, PulseOwner, Pulse!Phase, Pulse!Delivering, SourceStep, Pulse!hand,
            Pulse!server, Pulse!kept
<1>1. CASE Pulse!Owner
  BY <1>1 DEF Pulse!Owner, Pulse!StartConnects, Pulse!ContextSettled, Pulse!StartRecords,
     Pulse!StopQuits, Pulse!StopNotifies, Pulse!Woken, Pulse!Joined, Pulse!Destroy
<1>2. CASE Pulse!Mainloop
  BY <1>2 DEF Pulse!Mainloop, Pulse!ContextChanges, Pulse!ServerFails, Pulse!StreamChanges,
     Pulse!Arrives, Pulse!ReadCallback, Pulse!Woken
<1>3. CASE Pulse!Thread
  BY <1>3 DEF Pulse!Thread, Pulse!ConnectRecord, Pulse!StreamReady, Pulse!Locks,
     Pulse!Waits, Pulse!Quits, Pulse!Takes, Pulse!Drops, Pulse!Rearms, Pulse!FramesEnd
<1>4. QED
  BY <1>1, <1>2, <1>3 DEF Pulse!Next

\* What the phase is of the device that was chosen, here and in the next state.
DevicePhase ==
  /\ Delivering \in BOOLEAN
  /\ device = "fake" => Phase = Steady!Phase /\ (Delivering <=> Steady!Delivering)
  /\ device = "v4l2" => Phase = V4L2!Phase /\ (Delivering <=> V4L2!Delivering)
  /\ device = "macos" => Phase = Macos!Phase /\ (Delivering <=> Macos!Delivering)
  /\ device = "pulse" => Phase = Pulse!Phase /\ (Delivering <=> Pulse!Delivering)

LEMMA PhaseOfDevice ==
  ASSUME device \in {"fake", "v4l2", "macos", "pulse"} PROVE DevicePhase
  BY DEF DevicePhase, Phase, Delivering, Steady!Delivering, V4L2!Delivering,
     Macos!Delivering, Pulse!Delivering

LEMMA PhaseOfNext ==
  ASSUME device' \in {"fake", "v4l2", "macos", "pulse"} PROVE DevicePhase'
  BY DEF DevicePhase, Phase, Delivering, Steady!Delivering, V4L2!Delivering,
     Macos!Delivering, Pulse!Delivering

LEMMA DevicesSimulate == ASSUME DevicesInv, [Next]_vars PROVE [Source!Next]_(Source!vars)
<1>1. CASE UNCHANGED vars
  BY <1>1 DEF vars, ofSteady, ofV4L2, ofMacos, ofPulse, Source!vars, Phase, Delivering,
     Steady!Phase, Steady!Delivering, V4L2!Phase, V4L2!Delivering, Macos!Phase,
     Macos!Delivering, Pulse!Phase, Pulse!Delivering
<1>2. CASE Next
  <2>1. /\ device \in {"fake", "v4l2", "macos", "pulse"} /\ device' = device
        /\ device' \in {"fake", "v4l2", "macos", "pulse"}
    BY <1>2 DEF Next, DevicesInv
  <2>a. DevicePhase /\ DevicePhase'
    BY <2>1, PhaseOfDevice, PhaseOfNext
  <2>2. Delivering \in BOOLEAN /\ Delivering' \in BOOLEAN
    BY <2>a DEF DevicePhase
  <2>3. CASE device = "fake"
    <3>1. SourceStep(Steady!Phase, Steady!Delivering, Steady!Phase', Steady!Delivering')
      BY <1>2, <2>3, SteadySimulates DEF Next, DevicesInv
    <3>2. /\ Phase = Steady!Phase /\ (Delivering <=> Steady!Delivering)
          /\ Phase' = Steady!Phase' /\ (Delivering' <=> Steady!Delivering')
      BY <2>1, <2>a, <2>3 DEF DevicePhase
    <3>3. SourceStep(Phase, Delivering, Phase', Delivering')
      BY <3>1, <3>2, Zenon DEF SourceStep
    <3>4. QED
      BY <2>2, <3>3, SourceStepSimulates
  <2>4. CASE device = "v4l2"
    <3>1. SourceStep(V4L2!Phase, V4L2!Delivering, V4L2!Phase', V4L2!Delivering')
      BY <1>2, <2>4, V4L2Simulates DEF Next, DevicesInv
    <3>2. /\ Phase = V4L2!Phase /\ (Delivering <=> V4L2!Delivering)
          /\ Phase' = V4L2!Phase' /\ (Delivering' <=> V4L2!Delivering')
      BY <2>1, <2>a, <2>4 DEF DevicePhase
    <3>3. SourceStep(Phase, Delivering, Phase', Delivering')
      BY <3>1, <3>2, Zenon DEF SourceStep
    <3>4. QED
      BY <2>2, <3>3, SourceStepSimulates
  <2>5. CASE device = "macos"
    <3>1. SourceStep(Macos!Phase, Macos!Delivering, Macos!Phase', Macos!Delivering')
      BY <1>2, <2>5, MacosSimulates DEF Next, DevicesInv
    <3>2. /\ Phase = Macos!Phase /\ (Delivering <=> Macos!Delivering)
          /\ Phase' = Macos!Phase' /\ (Delivering' <=> Macos!Delivering')
      BY <2>1, <2>a, <2>5 DEF DevicePhase
    <3>3. SourceStep(Phase, Delivering, Phase', Delivering')
      BY <3>1, <3>2, Zenon DEF SourceStep
    <3>4. QED
      BY <2>2, <3>3, SourceStepSimulates
  <2>6. CASE device = "pulse"
    <3>1. SourceStep(Pulse!Phase, Pulse!Delivering, Pulse!Phase', Pulse!Delivering')
      BY <1>2, <2>6, PulseSimulates DEF Next, DevicesInv
    <3>2. /\ Phase = Pulse!Phase /\ (Delivering <=> Pulse!Delivering)
          /\ Phase' = Pulse!Phase' /\ (Delivering' <=> Pulse!Delivering')
      BY <2>1, <2>a, <2>6 DEF DevicePhase
    <3>3. SourceStep(Phase, Delivering, Phase', Delivering')
      BY <3>1, <3>2, Zenon DEF SourceStep
    <3>4. QED
      BY <2>2, <3>3, SourceStepSimulates
  <2>7. QED
    BY <2>1, <2>3, <2>4, <2>5, <2>6
<1>3. QED
  BY <1>1, <1>2

LEMMA DevicesBegin == Init => Source!Init
<1> SUFFICES ASSUME Init PROVE Source!Init
  OBVIOUS
<1>1. /\ device \in {"fake", "v4l2", "macos", "pulse"}
      /\ owner = (IF device = "pulse" THEN "created" ELSE "stopped") /\ thread = "none"
  BY DEF Init, Steady!Init, V4L2!Init, Macos!Init, Pulse!Init
<1>2. Phase = "stopped"
  BY <1>1 DEF Phase, Steady!Phase, V4L2!Phase, V4L2!HasStopped, Macos!Phase, Pulse!Phase
<1>3. Delivering = FALSE
  <2>1. ~ Delivering
    BY <1>1 DEF Delivering, Steady!Delivering, V4L2!Delivering, Macos!Delivering,
       Pulse!Delivering
  <2>2. Delivering \in BOOLEAN
    BY <1>1, PhaseOfDevice DEF DevicePhase
  <2>3. QED
    BY <2>1, <2>2, Zenon
<1>4. QED
  BY <1>2, <1>3 DEF Source!Init

\* Whichever device was chosen, its frame callback runs only from a call of start until
\* stop or the destructor has returned, one call at a time: none is running when they
\* return, and none begins before the next start (capturer.h, recorder.h).  Every step
\* of a device is one of FrameSource or none.
THEOREM Refinement == Spec => ImplementsFrameSource
<1>1. QED
  BY DevicesBegin, DevicesInvariance, DevicesSimulate, PTL
     DEF Spec, ImplementsFrameSource, Source!Spec
=============================================================================
