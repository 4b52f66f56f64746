------------------------------ MODULE MCCPointer ------------------------------
(* An instance of CPointer: two tracks and a video buffer at two addresses. *)
EXTENDS CPointer, TLC

CONSTANTS track1, track2, buffer, Track, Buffer, a1, a2

MCObjects == {track1, track2, buffer}
MCTypes   == {Track, Buffer}
MCTypeOf  == [o \in MCObjects |-> IF o = buffer THEN Buffer ELSE Track]
MCAddrs   == {a1, a2}

\* The two tracks are interchangeable, and so are the two addresses.
Interchangeable == Permutations({track1, track2}) \cup Permutations(MCAddrs)
=============================================================================
