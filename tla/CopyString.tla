------------------------------ MODULE CopyString ------------------------------
(***************************************************************************)
(* How the C API hands out strings (src/sorac.cpp, CopyString): the caller    *)
(* passes a buffer and its size, or NULL to learn the size that it takes.     *)
(* The caller makes any calls, one after the other, with one buffer of which   *)
(* it may pass any part.                                                    *)
(***************************************************************************)
EXTENDS Integers, Sequences

CONSTANT MaxText   \* bounds the length of a string; the buffer has room for more

Memory  == 1..(MaxText + 2)
Garbage == -1
End     == 0

VARIABLES
  text,    \* s: its characters, here their positions
  memory,  \* the caller's buffer
  error,   \* *error: [type, buffer_size]
  room     \* the size of the last call, 0 with NULL

copyVars == <<text, memory, error, room>>

NoError == [type |-> "none", buffer_size |-> 0]
Errors  == [type : {"OK", "TOO_SMALL"}, buffer_size : 1..(MaxText + 1)] \cup {NoError}

CopyTypeOK ==
  /\ text \in { [k \in 1..n |-> k] : n \in 0..MaxText }
  /\ memory \in [Memory -> 0..MaxText \cup {Garbage}]
  /\ error \in Errors
  /\ room \in -1..(MaxText + 2)

Init ==
  /\ text \in { [k \in 1..n |-> k] : n \in 0..MaxText }
  /\ memory = [k \in Memory |-> Garbage]
  /\ error = NoError
  /\ room = 0

-----------------------------------------------------------------------------

\* Mutant: the terminating zero is forgotten.
TextOnly == Len(text)

Needed == Len(text) + 1

Report(type) == error' = [type |-> type, buffer_size |-> Needed] /\ UNCHANGED text

AskSize ==
  /\ Report("OK")
  /\ room' = 0
  /\ UNCHANGED memory

TooSmall(size) ==
  /\ size < Needed
  /\ Report("TOO_SMALL")
  /\ room' = size
  /\ memory' = IF size > 0 THEN [memory EXCEPT ![1] = End] ELSE memory

Copy(size) ==
  /\ size >= Needed
  /\ Report("OK")
  /\ room' = size
  /\ memory' = [k \in Memory |-> IF k <= Len(text) THEN text[k]
                                 ELSE IF k = Len(text) + 1 THEN End ELSE memory[k]]

Next == AskSize \/ \E size \in -1..(MaxText + 2) : TooSmall(size) \/ Copy(size)

-----------------------------------------------------------------------------
(* Properties.                                                             *)

\* The C string in the part of the buffer that was passed; without a zero in it,
\* whoever reads it reads on behind it.
Terminated(size) == \E k \in 1..size : memory[k] = End
StringRead(size) ==
  LET end == CHOOSE k \in 1..size : memory[k] = End /\ \A j \in 1..(k - 1) : memory[j] # End
  IN  SubSeq(memory, 1, end - 1)

\* Whoever ignores the error, as sumomo.c does (lines 68 and 139), reads the string
\* or an empty one, and never beyond what it has passed.
ReadableAnyway ==
  error # NoError /\ room > 0 =>
    Terminated(room) /\ StringRead(room) \in {text, <<>>}

\* sorac.h:32 to 35: no call writes behind the size it is given, and a call with the
\* size that any call before has reported succeeds.
SizeIsRespected ==
  /\ \A k \in Memory : k > room' => memory'[k] = memory[k]
  /\ error # NoError /\ room' >= error.buffer_size =>
       error'.type = "OK" /\ SubSeq(memory', 1, Len(text)) = text
=============================================================================
