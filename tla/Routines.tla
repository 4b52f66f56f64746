-------------------------------- MODULE Routines ------------------------------
(***************************************************************************)
(* The sequential routines of the SDK, each run for itself on every input of   *)
(* an instance: the division of the bit rate (SimulcastBitrate), the strings   *)
(* of the C API (CopyString), split_with (SplitWith) and the buffers of zlib   *)
(* (ZlibBuffer).  The variables of the other three are then Unused.           *)
(***************************************************************************)
EXTENDS Integers, Sequences

CONSTANTS
  N, Widths, Heights, Scales, Rates,  \* those of SimulcastBitrate
  MaxText,                            \* that of CopyString
  Chars, MaxLen, Tokens,              \* those of SplitWith
  Needs                               \* that of ZlibBuffer

ASSUME NAssumption == N \in Nat \ {0}
ASSUME InputsAssumption ==
  /\ Widths \subseteq Nat /\ Heights \subseteq Nat /\ Rates \subseteq Nat
  /\ Scales \subseteq Nat \ {0}
ASSUME BoundsAssumption ==
  /\ MaxText \in Nat /\ MaxLen \in Nat /\ Needs \subseteq Nat
  /\ Tokens \subseteq Seq(Chars) \ {<<>>}

VARIABLES
  routine,                                            \* which of them runs
  settings, active, scale, step, at, sum, bitrate,    \* SimulcastBitrate
  text, memory, error, room,                          \* CopyString
  str, token, sp, lines, splitting,                   \* SplitWith
  needed, sound, capacity, output                     \* ZlibBuffer

B == INSTANCE SimulcastBitrate
C == INSTANCE CopyString
P == INSTANCE SplitWith
Z == INSTANCE ZlibBuffer

division == <<settings, active, scale, step, at, sum, bitrate>>
copy     == <<text, memory, error, room>>
split    == <<str, token, sp, lines, splitting>>
zlib     == <<needed, sound, capacity, output>>
vars == <<routine, division, copy, split, zlib>>

Unused == "unused"

NoDivision ==
  /\ settings = Unused /\ active = Unused /\ scale = Unused /\ step = Unused
  /\ at = Unused /\ sum = Unused /\ bitrate = Unused
NoCopy == text = Unused /\ memory = Unused /\ error = Unused /\ room = Unused
NoSplit ==
  str = Unused /\ token = Unused /\ sp = Unused /\ lines = Unused /\ splitting = Unused
NoZlib == needed = Unused /\ sound = Unused /\ capacity = Unused /\ output = Unused

Init ==
  \/ routine = "bitrate" /\ B!Init /\ NoCopy /\ NoSplit /\ NoZlib
  \/ routine = "CopyString" /\ C!Init /\ NoDivision /\ NoSplit /\ NoZlib
  \/ routine = "split_with" /\ P!Init /\ NoDivision /\ NoCopy /\ NoZlib
  \/ routine = "zlib" /\ Z!Init /\ NoDivision /\ NoCopy /\ NoSplit

Divides   == routine = "bitrate" /\ B!Next /\ UNCHANGED <<routine, copy, split, zlib>>
Copies    == routine = "CopyString" /\ C!Next /\ UNCHANGED <<routine, division, split, zlib>>
Splits    == routine = "split_with" /\ P!Next /\ UNCHANGED <<routine, division, copy, zlib>>
Allocates == routine = "zlib" /\ Z!Next /\ UNCHANGED <<routine, division, copy, split>>

Next == Divides \/ Copies \/ Splits \/ Allocates

\* A loop that is running goes on.
Spec == Init /\ [][Next]_vars /\ WF_vars(Splits) /\ WF_vars(Allocates)

-----------------------------------------------------------------------------
(* Properties: those of the routines, of the one that runs.                   *)

\* Every variable has its type.
TypeOK ==
  CASE routine = "bitrate"    -> B!TypeOK
    [] routine = "CopyString" -> C!CopyTypeOK
    [] routine = "split_with" -> P!SplitTypeOK
    [] routine = "zlib"       -> capacity \in Nat /\ needed \in Needs

\* The layers share the bit rate of the settings, truncation loses no more than a
\* bit/s for each, a layer with more pixels gets no less, and the division is
\* undefined only if every active layer has no pixels at all (SimulcastBitrate).
DivisionIsFair ==
  routine = "bitrate" => B!RateIsShared /\ B!LargerGetsMore /\ B!UndefinedOnlyWhenTiny

\* A caller that ignores the error of a getter reads the string or an empty one, and
\* never behind its buffer; the pieces of split_with make up the string again, and
\* there is always a first one unless it is empty; zlib's output has room for what it
\* takes, and less than double of it (CopyString, SplitWith, ZlibBuffer).
ResultsAreUsable ==
  /\ TypeOK
  /\ routine = "CopyString" => C!ReadableAnyway
  /\ routine = "split_with" => P!PiecesRejoin
  /\ routine = "zlib" => Z!RoomIsTight

\* No getter writes behind the size it is given, and one that is given the size
\* reported before succeeds (CopyString).
ReportedSizeSuffices ==
  [][routine = "CopyString" => C!SizeIsRespected]_vars

\* The loops without a bound end: the string is split, and zlib has what it asked for
\* or an exception is thrown.
LoopsEnd ==
  /\ routine = "split_with" ~> routine = "split_with" /\ ~splitting
  /\ routine = "zlib" ~> routine = "zlib" /\ output # Z!Growing
=============================================================================
