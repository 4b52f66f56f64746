------------------------------ MODULE ZlibBuffer ------------------------------
(***************************************************************************)
(* zlib_compress and zlib_uncompress (src/util.cpp): both call zlib with an    *)
(* output of 16 KiB and double it as long as zlib asks for more.             *)
(*                                                                         *)
(* zlib is external: with too little room it returns Z_BUF_ERROR, otherwise   *)
(* Z_OK or, for data that are not sound, another error.                       *)
(***************************************************************************)
EXTENDS Integers

CONSTANT Needs    \* the sizes that the output may have, in bytes

VARIABLES
  needed,    \* the size of the output; of data that are not sound, up to the error
  sound,     \* the input is one that zlib accepts
  capacity,  \* output.size()
  output     \* Growing, Exception, or the size of the string returned

zlibVars == <<needed, sound, capacity, output>>

Growing   == -1
Exception == -2
FirstCapacity == 16 * 1024

Init ==
  /\ needed \in Needs /\ sound \in BOOLEAN
  /\ capacity = FirstCapacity
  /\ output = Growing

-----------------------------------------------------------------------------

\* Mutant: the call is repeated with the same output.
CallAgain ==
  /\ output = Growing /\ capacity < needed
  /\ UNCHANGED zlibVars

Grow ==
  /\ output = Growing /\ capacity < needed
  /\ capacity' = 2 * capacity
  /\ UNCHANGED <<needed, sound, output>>

\* output is cut to what zlib has written.
Return ==
  /\ output = Growing /\ capacity >= needed /\ sound
  /\ output' = needed
  /\ UNCHANGED <<needed, sound, capacity>>

Throw ==
  /\ output = Growing /\ capacity >= needed /\ ~sound
  /\ output' = Exception
  /\ UNCHANGED <<needed, sound, capacity>>

Next == Grow \/ Return \/ Throw

-----------------------------------------------------------------------------
(* Properties.                                                             *)

\* The output has room for what it takes, and less than double of it: a message
\* does not make the process allocate out of proportion.
RoomIsTight ==
  output # Growing =>
    /\ needed <= capacity
    /\ capacity = FirstCapacity \/ capacity < 2 * needed
=============================================================================
