------------------------------- MODULE SplitWith ------------------------------
(***************************************************************************)
(* split_with (src/util.cpp), which takes the offer apart into lines and       *)
(* their parts (src/signaling.cpp, lines 389 to 445 and 613 to 615).          *)
(***************************************************************************)
EXTENDS Naturals, SequencesExt

CONSTANTS
  Chars,     \* the characters of the string
  MaxLen,    \* bounds its length
  Tokens     \* what it is split with

VARIABLES
  str, token,  \* the arguments
  sp,          \* where the next piece begins
  lines,       \* the pieces so far
  splitting    \* the loop runs

splitVars == <<str, token, sp, lines, splitting>>

SplitTypeOK ==
  /\ str \in Seq(Chars) /\ token \in Tokens
  /\ sp \in 1..(MaxLen + 1)
  /\ lines \in Seq(Seq(Chars))
  /\ splitting \in BOOLEAN

Init ==
  /\ str \in BoundedSeq(Chars, MaxLen)
  /\ token \in Tokens
  /\ sp = 1 /\ lines = <<>> /\ splitting = TRUE

-----------------------------------------------------------------------------

\* str.find(token, sp).
Matches(s, from) ==
  { k \in from..(Len(s) - Len(token) + 1) : SubSeq(s, k, k + Len(token) - 1) = token }

Found == Matches(str, sp) # {}
Ep == CHOOSE k \in Matches(str, sp) : \A j \in Matches(str, sp) : k <= j

\* Mutant: a token is taken for one character.
SkipOne ==
  /\ splitting /\ Found
  /\ lines' = Append(lines, SubSeq(str, sp, Ep - 1))
  /\ sp' = Ep + 1
  /\ UNCHANGED <<str, token, splitting>>

SplitNext ==
  /\ splitting /\ Found
  /\ lines' = Append(lines, SubSeq(str, sp, Ep - 1))
  /\ sp' = Ep + Len(token)
  /\ UNCHANGED <<str, token, splitting>>

\* The rest is a piece, unless it is empty.
SplitLast ==
  /\ splitting /\ ~Found
  /\ lines' = IF sp <= Len(str) THEN Append(lines, SubSeq(str, sp, Len(str))) ELSE lines
  /\ splitting' = FALSE
  /\ UNCHANGED <<str, token, sp>>

Next == SplitNext \/ SplitLast

-----------------------------------------------------------------------------
(* Properties.                                                             *)

Join(pieces, t) ==
  LET join[k \in 0..Len(pieces)] ==
        IF k = 0 THEN <<>> ELSE IF k = 1 THEN pieces[1] ELSE join[k - 1] \o t \o pieces[k]
  IN  join[Len(pieces)]

Joined == Join(lines, token)

\* The pieces with tokens between them are the string, but for a token at its end;
\* no piece contains a token, and only the empty string has no piece at all: an
\* offer without what it looks for is what makes ys[0] undefined (signaling.cpp:429).
PiecesRejoin ==
  ~splitting =>
    /\ \/ Joined = str /\ (lines = <<>> \/ Last(lines) # <<>>)
       \/ Joined \o token = str
    /\ \A k \in DOMAIN lines : Matches(lines[k], 1) = {}
    /\ lines = <<>> <=> str = <<>>
=============================================================================
