---------------------------- MODULE RoutinesProofs ----------------------------
(***************************************************************************)
(* Proofs about Routines, for strings and tokens of any length, sizes of    *)
(* any buffer, any number of layers and any bit rate: strings come back     *)
(* whole, pieces rejoin, zlib's output fits, and the layers share the rate. *)
(***************************************************************************)
EXTENDS Routines, SequenceTheorems, FiniteSetTheorems, WellFoundedInduction, TLAPS

-----------------------------------------------------------------------------
(* What the provers have instead of induction: if something fails for a     *)
(* number, it fails for a least one.                                       *)

LEMMA LeastOf ==
  ASSUME NEW T, T \subseteq Nat, T # {}
  PROVE  \E m \in T : \A n \in T : m <= n
<1>1. PICK R : R = {p \in Nat \X Nat : p[1] < p[2]}
  OBVIOUS
<1>2. IsWellFoundedOn(R, Nat)
  BY <1>1, NatLessThanWellFounded DEF OpToRel
<1>3. PICK m \in T : \A n \in T : ~ (<<n, m>> \in R)
  BY <1>2, WFMin
<1>4. ASSUME NEW n \in T PROVE m <= n
  <2>1. n \in Nat /\ m \in Nat
    OBVIOUS
  <2>2. <<n, m>> \in Nat \X Nat /\ <<n, m>>[1] = n /\ <<n, m>>[2] = m
    BY <2>1
  <2>3. ~ n < m
    BY <1>1, <1>3, <2>2
  <2>4. QED
    BY <2>1, <2>3
<1>5. QED
  BY <1>4

\* A set that has 0 and with each number the next one has them all, up to n.
LEMMA UpTo ==
  ASSUME NEW n \in Nat, NEW T, 0 \in T, \A k \in 1..n : k - 1 \in T => k \in T
  PROVE  \A k \in 0..n : k \in T
<1> SUFFICES ASSUME {k \in 0..n : k \notin T} # {} PROVE FALSE
  OBVIOUS
<1>1. PICK m \in 0..n : m \notin T /\ \A k \in 0..n : k \notin T => m <= k
  <2>1. PICK U : U = {k \in 0..n : k \notin T}
    OBVIOUS
  <2>2. U \subseteq Nat /\ U # {}
    BY <2>1
  <2>3. PICK m \in U : \A j \in U : m <= j
    BY <2>2, LeastOf
  <2>4. QED
    BY <2>1, <2>3
<1>2. m # 0 /\ m \in 1..n
  BY <1>1
<1>3. m - 1 \in 0..n /\ ~ m <= m - 1
  BY <1>2
<1>4. QED
  BY <1>1, <1>2, <1>3
-----------------------------------------------------------------------------
(* CopyString (src/sorac.cpp).                                             *)

\* What has been reported is the size of the text; what can be read is right.
CopyInv ==
  /\ C!CopyTypeOK
  /\ error # C!NoError => error.buffer_size = Len(text) + 1
  /\ C!ReadableAnyway

\* A text of n characters.
LEMMA TextLength ==
  ASSUME C!CopyTypeOK
  PROVE  /\ Len(text) \in 0..MaxText /\ DOMAIN text = 1..Len(text)
         /\ \A k \in 1..Len(text) : text[k] = k
<1>1. PICK n \in 0..MaxText : text = [k \in 1..n |-> k]
  BY DEF C!CopyTypeOK
<1>2. Len(text) = n
  BY <1>1
<1>3. QED
  BY <1>1, <1>2

\* The first zero ends the string.
LEMMA FirstZero ==
  ASSUME NEW m, NEW size, NEW n \in Nat, n + 1 \in 1..size,
         m[n + 1] = C!End, \A k \in 1..n : m[k] # C!End
  PROVE  n + 1 = CHOOSE k \in 1..size : m[k] = C!End /\ \A j \in 1..(k - 1) : m[j] # C!End
<1> DEFINE E(k) == m[k] = C!End /\ \A j \in 1..(k - 1) : m[j] # C!End
<1>1. E(n + 1)
  OBVIOUS
<1>2. ASSUME NEW k \in 1..size, E(k) PROVE k = n + 1
  <2>1. k \in Int /\ k > 0
    OBVIOUS
  <2>2. ~ k < n + 1
    BY <1>2, <2>1
  <2>3. ~ k > n + 1
    BY <1>2, <2>1
  <2>4. QED
    BY <2>1, <2>2, <2>3
<1> HIDE DEF E
<1>3. n + 1 = CHOOSE k \in 1..size : E(k)
  BY <1>1, <1>2
<1>4. QED
  BY <1>3 DEF E

LEMMA StringEnds ==
  ASSUME NEW n \in Nat, n + 1 \in 1..room',
         memory'[n + 1] = C!End, \A k \in 1..n : memory'[k] # C!End
  PROVE  C!Terminated(room)' /\ C!StringRead(room)' = SubSeq(memory', 1, n)
<1>1. n + 1 = CHOOSE k \in 1..room' :
                memory'[k] = C!End /\ \A j \in 1..(k - 1) : memory'[j] # C!End
  BY FirstZero
<1>2. C!StringRead(room)' = SubSeq(memory', 1, n + 1 - 1)
  <2>1. C!StringRead(room)' =
          SubSeq(memory', 1, (CHOOSE k \in 1..room' :
                   memory'[k] = C!End /\ \A j \in 1..(k - 1) : memory'[j] # C!End) - 1)
    BY DEF C!StringRead
  <2>2. QED
    BY <1>1, <2>1
<1>3. C!Terminated(room)'
  BY DEF C!Terminated
<1>4. QED
  BY <1>2, <1>3

LEMMA AskSizeInv == ASSUME CopyInv, C!AskSize PROVE CopyInv'
<1> USE DEF C!AskSize, C!Report, C!Needed
<1>1. C!CopyTypeOK'
  BY TextLength, BoundsAssumption DEF CopyInv, C!CopyTypeOK, C!Errors
<1>2. (error # C!NoError => error.buffer_size = Len(text) + 1)'
  OBVIOUS
<1>3. C!ReadableAnyway'
  BY DEF C!ReadableAnyway
<1>4. QED
  BY <1>1, <1>2, <1>3 DEF CopyInv

LEMMA TooSmallInv ==
  ASSUME CopyInv, NEW size \in -1..(MaxText + 2), C!TooSmall(size)
  PROVE  CopyInv'
<1> USE DEF C!TooSmall, C!Report, C!Needed
<1>1. C!CopyTypeOK'
  <2>1. memory' \in [C!Memory -> 0..MaxText \cup {C!Garbage}]
    BY BoundsAssumption DEF CopyInv, C!CopyTypeOK, C!End, C!Memory
  <2>2. error' \in C!Errors
    BY TextLength, BoundsAssumption DEF CopyInv, C!Errors
  <2>3. QED
    BY <2>1, <2>2 DEF CopyInv, C!CopyTypeOK
<1>2. (error # C!NoError => error.buffer_size = Len(text) + 1)'
  OBVIOUS
<1>3. C!ReadableAnyway'
  <2> SUFFICES ASSUME room' > 0
               PROVE  C!Terminated(room)' /\ C!StringRead(room)' = <<>>
    BY DEF C!ReadableAnyway
  <2>1. memory'[1] = C!End /\ 1 \in 1..room'
    BY BoundsAssumption DEF CopyInv, C!CopyTypeOK, C!Memory
  <2>2. C!Terminated(room)' /\ C!StringRead(room)' = SubSeq(memory', 1, 0)
    BY <2>1, StringEnds
  <2>3. QED
    BY <2>2
<1>4. QED
  BY <1>1, <1>2, <1>3 DEF CopyInv

LEMMA CopyCopies ==
  ASSUME CopyInv, NEW size \in -1..(MaxText + 2), C!Copy(size)
  PROVE  CopyInv' /\ SubSeq(memory', 1, Len(text)) = text
<1> USE DEF C!Copy, C!Report, C!Needed
<1> PICK n : n = Len(text)
  OBVIOUS
<1>a. n \in 0..MaxText /\ n \in Nat /\ text' = text /\ room' = size /\ size >= n + 1
  BY TextLength, BoundsAssumption DEF CopyInv
<1>b. /\ \A k \in C!Memory :
           memory'[k] = IF k <= n THEN text[k] ELSE IF k = n + 1 THEN C!End ELSE memory[k]
      /\ DOMAIN memory' = C!Memory
  OBVIOUS
<1>c. \A k \in 1..n : text[k] = k
  BY TextLength DEF CopyInv
<1>d. 1..(n + 1) \subseteq C!Memory
  BY <1>a, BoundsAssumption DEF C!Memory
<1>1. C!CopyTypeOK'
  <2>1. memory' \in [C!Memory -> 0..MaxText \cup {C!Garbage}]
    <3>1. ASSUME NEW k \in C!Memory PROVE memory'[k] \in 0..MaxText \cup {C!Garbage}
      <4>1. k \in Int /\ k > 0
        BY BoundsAssumption DEF C!Memory
      <4>2. CASE k <= n
        BY <1>a, <1>b, <1>c, <4>1, <4>2, BoundsAssumption
      <4>3. CASE ~ k <= n
        BY <1>b, <4>3, BoundsAssumption DEF CopyInv, C!CopyTypeOK, C!End
      <4>4. QED
        BY <4>2, <4>3
    <3>2. QED
      BY <1>b, <3>1
  <2>2. error' \in C!Errors
    BY <1>a, BoundsAssumption DEF CopyInv, C!Errors
  <2>3. QED
    BY <1>a, <2>1, <2>2 DEF CopyInv, C!CopyTypeOK
<1>2. (error # C!NoError => error.buffer_size = Len(text) + 1)'
  BY <1>a
<1>3. SubSeq(memory', 1, n) = text
  <2>1. DOMAIN text = 1..n /\ text \in Seq(Nat)
    BY <1>a, TextLength DEF CopyInv, C!CopyTypeOK
  <2>2. memory' \in Seq(0..MaxText \cup {C!Garbage}) /\ Len(memory') = MaxText + 2
    BY <1>1, BoundsAssumption DEF C!CopyTypeOK, C!Memory
  <2>3. /\ Len(SubSeq(memory', 1, n)) = n
        /\ \A k \in 1..n : SubSeq(memory', 1, n)[k] = memory'[k]
        /\ SubSeq(memory', 1, n) \in Seq(0..MaxText \cup {C!Garbage})
    BY <1>a, <2>2, SubSeqProperties
  <2>4. \A k \in 1..n : SubSeq(memory', 1, n)[k] = text[k]
    BY <1>a, <1>b, <1>d, <2>3
  <2>5. QED
    BY <1>a, <2>1, <2>3, <2>4
<1>4. C!ReadableAnyway'
  <2> SUFFICES ASSUME room' > 0
               PROVE  C!Terminated(room)' /\ C!StringRead(room)' = text'
    BY DEF C!ReadableAnyway
  <2>1. n + 1 \in 1..room' /\ memory'[n + 1] = C!End
    BY <1>a, <1>b, <1>d
  <2>2. \A k \in 1..n : memory'[k] # C!End
    BY <1>a, <1>b, <1>c, <1>d DEF C!End
  <2>3. C!Terminated(room)' /\ C!StringRead(room)' = SubSeq(memory', 1, n)
    BY <1>a, <2>1, <2>2, StringEnds
  <2>4. QED
    BY <1>a, <1>3, <2>3
<1>5. QED
  BY <1>1, <1>2, <1>3, <1>4 DEF CopyInv

LEMMA CopyInitInv == ASSUME C!Init PROVE CopyInv
  BY BoundsAssumption
     DEF C!Init, CopyInv, C!CopyTypeOK, C!Memory, C!Errors, C!Garbage, C!NoError, C!ReadableAnyway

LEMMA CopyNext == ASSUME CopyInv, C!Next PROVE CopyInv'
  BY AskSizeInv, TooSmallInv, CopyCopies DEF C!Next

\* What a call writes, and that one with enough room succeeds.
LEMMA CopyStep == ASSUME CopyInv, C!Next PROVE C!SizeIsRespected
<1>a. Len(text) \in Nat
  BY TextLength, BoundsAssumption DEF CopyInv
<1>1. CASE C!AskSize
  BY <1>1, <1>a, BoundsAssumption
     DEF CopyInv, C!AskSize, C!Report, C!Needed, C!SizeIsRespected
<1>2. ASSUME NEW size \in -1..(MaxText + 2), C!TooSmall(size) PROVE C!SizeIsRespected
  <2>1. \A k \in C!Memory : k > size => memory'[k] = memory[k]
    BY <1>2, BoundsAssumption DEF CopyInv, C!CopyTypeOK, C!TooSmall, C!Memory
  <2>2. error # C!NoError => ~ room' >= error.buffer_size
    BY <1>2, <1>a, BoundsAssumption DEF CopyInv, C!TooSmall, C!Needed
  <2>3. QED
    BY <1>2, <2>1, <2>2 DEF C!TooSmall, C!SizeIsRespected
<1>3. ASSUME NEW size \in -1..(MaxText + 2), C!Copy(size) PROVE C!SizeIsRespected
  <2>1. ASSUME NEW k \in C!Memory, k > size PROVE memory'[k] = memory[k]
    <3>1. ~ k <= Len(text) /\ k # Len(text) + 1
      BY <1>3, <1>a, <2>1, BoundsAssumption DEF C!Copy, C!Needed, C!Memory
    <3>2. QED
      BY <1>3, <3>1 DEF C!Copy
  <2>2. error'.type = "OK" /\ SubSeq(memory', 1, Len(text)) = text
    BY <1>3, CopyCopies DEF C!Copy, C!Report
  <2>3. QED
    BY <1>3, <2>1, <2>2 DEF C!Copy, C!SizeIsRespected
<1>4. QED
  BY <1>1, <1>2, <1>3 DEF C!Next
-----------------------------------------------------------------------------
(* ZlibBuffer (src/util.cpp).                                              *)

\* Room was doubled only when it was too small, and is enough when something returns.
ZlibInv ==
  /\ capacity \in Nat /\ needed \in Needs
  /\ capacity = Z!FirstCapacity \/ capacity < 2 * needed
  /\ output # Z!Growing => needed <= capacity

LEMMA ZlibInitInv == ASSUME Z!Init PROVE ZlibInv
  BY BoundsAssumption DEF Z!Init, ZlibInv, Z!FirstCapacity

LEMMA ZlibNext == ASSUME ZlibInv, Z!Next PROVE ZlibInv'
<1>a. needed \in Nat
  BY BoundsAssumption DEF ZlibInv
<1>1. CASE Z!Grow
  BY <1>1, <1>a DEF Z!Grow, ZlibInv, Z!FirstCapacity
<1>2. CASE Z!Return
  BY <1>2, <1>a DEF Z!Return, ZlibInv
<1>3. CASE Z!Throw
  BY <1>3, <1>a DEF Z!Throw, ZlibInv
<1>4. QED
  BY <1>1, <1>2, <1>3 DEF Z!Next
-----------------------------------------------------------------------------
(* SplitWith (src/util.cpp).                                               *)

\* f joins the pieces up to n, the first, the first two and so on.
Joins(f, n, pieces, t) ==
  f = [k \in 0..n |->
         IF k = 0 THEN <<>> ELSE IF k = 1 THEN pieces[1] ELSE f[k - 1] \o t \o pieces[k]]

LEMMA JoinExists ==
  ASSUME NEW n \in Nat, NEW pieces, NEW t
  PROVE  \E f : Joins(f, n, pieces, t)
<1> DEFINE T == {k \in Nat : \E f : Joins(f, k, pieces, t)}
<1>1. 0 \in T
  <2>1. Joins([k \in 0..0 |-> <<>>], 0, pieces, t)
    BY DEF Joins
  <2>2. QED
    BY <2>1
<1>2. ASSUME NEW k \in 1..n, k - 1 \in T PROVE k \in T
  <2>1. PICK f : Joins(f, k - 1, pieces, t)
    BY <1>2
  <2>2. PICK g : g = [j \in 0..k |-> IF j < k THEN f[j]
                                     ELSE IF k = 1 THEN pieces[1] ELSE f[k - 1] \o t \o pieces[k]]
    OBVIOUS
  <2>3. \A j \in 0..(k - 1) : g[j] = f[j]
    BY <2>2
  <2>4. ASSUME NEW j \in 0..k
        PROVE  g[j] = IF j = 0 THEN <<>> ELSE IF j = 1 THEN pieces[1]
                      ELSE g[j - 1] \o t \o pieces[j]
    <3>1. CASE j < k
      <4>1. j \in 0..(k - 1) /\ (j # 0 => j - 1 \in 0..(k - 1))
        BY <3>1
      <4>2. f[j] = IF j = 0 THEN <<>> ELSE IF j = 1 THEN pieces[1]
                   ELSE f[j - 1] \o t \o pieces[j]
        BY <2>1, <4>1 DEF Joins
      <4>3. QED
        BY <2>3, <4>1, <4>2
    <3>2. CASE j = k
      <4>1. k - 1 \in 0..(k - 1) /\ k # 0
        OBVIOUS
      <4>2. QED
        BY <2>2, <2>3, <3>2, <4>1
    <3>3. QED
      BY <3>1, <3>2
  <2>5. Joins(g, k, pieces, t)
    BY <2>2, <2>4 DEF Joins
  <2>6. QED
    BY <2>5
<1> HIDE DEF T
<1>3. \A k \in 0..n : k \in T
  BY <1>1, <1>2, UpTo
<1>4. QED
  BY <1>3 DEF T

LEMMA JoinDef ==
  ASSUME NEW pieces, Len(pieces) \in Nat, NEW t
  PROVE  \E f : Joins(f, Len(pieces), pieces, t) /\ P!Join(pieces, t) = f[Len(pieces)]
<1> DEFINE join == CHOOSE f : Joins(f, Len(pieces), pieces, t)
<1>1. Joins(join, Len(pieces), pieces, t)
  BY JoinExists
<1>2. P!Join(pieces, t) = join[Len(pieces)]
  BY Zenon DEF P!Join, Joins
<1>3. QED
  BY <1>1, <1>2

\* One piece is its own join; another one comes behind a token.
LEMMA JoinOne == ASSUME NEW piece, NEW t PROVE P!Join(<<piece>>, t) = piece
<1>1. PICK f : Joins(f, 1, <<piece>>, t) /\ P!Join(<<piece>>, t) = f[1]
  BY JoinDef
<1>2. QED
  BY <1>1 DEF Joins

LEMMA JoinNone == ASSUME NEW t PROVE P!Join(<<>>, t) = <<>>
<1>1. PICK f : Joins(f, 0, <<>>, t) /\ P!Join(<<>>, t) = f[0]
  BY JoinDef
<1>2. QED
  BY <1>1 DEF Joins

LEMMA JoinMore ==
  ASSUME NEW S, NEW pieces \in Seq(S), pieces # <<>>, NEW piece \in S, NEW t
  PROVE  P!Join(Append(pieces, piece), t) = P!Join(pieces, t) \o t \o piece
<1> PICK n : n = Len(pieces)
  OBVIOUS
<1> PICK more : more = Append(pieces, piece)
  OBVIOUS
<1>1. /\ n \in Nat /\ n > 0 /\ Len(more) = n + 1
      /\ \A k \in 1..n : more[k] = pieces[k]
      /\ more[n + 1] = piece
  BY EmptySeq, AppendProperties
<1>2. PICK f : Joins(f, n, pieces, t) /\ P!Join(pieces, t) = f[n]
  BY <1>1, JoinDef
<1>3. PICK g : Joins(g, n + 1, more, t) /\ P!Join(more, t) = g[n + 1]
  <2>1. PICK m : m = Len(more)
    OBVIOUS
  <2>2. Len(more) \in Nat /\ m = n + 1
    BY <1>1, <2>1
  <2>3. \E g : Joins(g, m, more, t) /\ P!Join(more, t) = g[m]
    BY <2>1, <2>2, JoinDef
  <2>4. QED
    BY <2>2, <2>3
<1>a. ASSUME NEW k \in 1..(n + 1)
      PROVE  g[k] = IF k = 1 THEN more[1] ELSE g[k - 1] \o t \o more[k]
  <2>1. k \in 0..(n + 1) /\ k # 0
    BY <1>1
  <2>2. QED
    BY <1>3, <2>1 DEF Joins
<1> DEFINE T == {k \in Nat : k <= n => f[k] = g[k]}
<1>4. 0 \in T
  <2>1. f[0] = <<>> /\ g[0] = <<>>
    BY <1>1, <1>2, <1>3 DEF Joins
  <2>2. QED
    BY <2>1
<1>5. ASSUME NEW k \in 1..n, k - 1 \in T PROVE k \in T
  <2>1. f[k] = IF k = 1 THEN pieces[1] ELSE f[k - 1] \o t \o pieces[k]
    BY <1>1, <1>2 DEF Joins
  <2>2. g[k] = IF k = 1 THEN more[1] ELSE g[k - 1] \o t \o more[k]
    BY <1>1, <1>a
  <2>3. f[k - 1] = g[k - 1] /\ more[k] = pieces[k]
    BY <1>1, <1>5
  <2>4. QED
    BY <2>1, <2>2, <2>3
<1>6. \A k \in 0..n : k \in T
  BY <1>1, <1>4, <1>5, UpTo
<1>7. f[n] = g[n]
  BY <1>1, <1>6
<1>8. g[n + 1] = g[n] \o t \o more[n + 1]
  <2>1. PICK k \in 1..(n + 1) : k = n + 1
    BY <1>1
  <2>2. k # 1 /\ k - 1 = n
    BY <1>1, <2>1
  <2>3. g[k] = g[n] \o t \o more[k]
    BY <1>a, <2>2
  <2>4. QED
    BY <2>1, <2>3
<1>9. QED
  BY <1>1, <1>2, <1>3, <1>7, <1>8

\* What the loop has cut off is joined again with the token behind it; no piece has
\* the token in it.
SplitInv ==
  /\ P!SplitTypeOK
  /\ Len(str) <= MaxLen /\ sp <= Len(str) + 1
  /\ \A k \in 1..Len(lines) : P!Matches(lines[k], 1) = {}
  /\ splitting =>
       /\ lines = <<>> <=> sp = 1
       /\ lines # <<>> => P!Joined \o token = SubSeq(str, 1, sp - 1)
  /\ P!PiecesRejoin

LEMMA SplitTypes ==
  ASSUME SplitInv
  PROVE  /\ str \in Seq(Chars) /\ Len(str) \in Nat
         /\ token \in Seq(Chars) /\ Len(token) \in Nat \ {0}
         /\ lines \in Seq(Seq(Chars)) /\ Len(lines) \in Nat
         /\ sp \in 1..(Len(str) + 1)
<1>1. /\ str \in Seq(Chars) /\ lines \in Seq(Seq(Chars)) /\ sp \in Nat /\ sp >= 1
      /\ sp <= Len(str) + 1
  BY BoundsAssumption DEF SplitInv, P!SplitTypeOK
<1>2. token \in Seq(Chars) /\ token # <<>>
  BY BoundsAssumption DEF SplitInv, P!SplitTypeOK
<1>3. Len(str) \in Nat /\ Len(lines) \in Nat /\ Len(token) \in Nat \ {0}
  BY <1>1, <1>2, EmptySeq, LenProperties
<1>4. QED
  BY <1>1, <1>2, <1>3

\* The characters from a to e - 1.
LEMMA Part ==
  ASSUME NEW s \in Seq(Chars), NEW a \in 1..(Len(s) + 1), NEW e \in a..(Len(s) + 1)
  PROVE  /\ SubSeq(s, a, e - 1) \in Seq(Chars) /\ Len(SubSeq(s, a, e - 1)) = e - a
<1>1. Len(s) \in Nat /\ \A i \in 1..Len(s) : s[i] \in Chars
  BY LenProperties
<1>2. a \in Int /\ e - 1 \in Int /\ \A i \in a..(e - 1) : s[i] \in Chars
  BY <1>1
<1>3. /\ SubSeq(s, a, e - 1) \in Seq(Chars)
      /\ Len(SubSeq(s, a, e - 1)) = IF a <= e - 1 THEN e - 1 - a + 1 ELSE 0
  BY <1>2, SubSeqProperties
<1>4. QED
  BY <1>1, <1>3

\* A match in a part is one in the whole.
LEMMA MatchInPart ==
  ASSUME NEW s \in Seq(Chars), NEW a \in 1..(Len(s) + 1), NEW e \in a..(Len(s) + 1),
         Len(token) \in Nat \ {0}, NEW k \in P!Matches(SubSeq(s, a, e - 1), 1)
  PROVE  a + k - 1 \in P!Matches(s, a) /\ a + k - 1 + Len(token) <= e /\ k \in Nat
<1> PICK L : L = Len(token)
  OBVIOUS
<1> PICK p : p = SubSeq(s, a, e - 1)
  OBVIOUS
<1>1. /\ Len(s) \in Nat /\ Len(p) = e - a
      /\ a \in Nat /\ e \in Nat /\ 1 <= a /\ e <= Len(s) + 1
  BY Part, LenProperties
<1>2. k \in 1..(Len(p) - L + 1) /\ SubSeq(p, k, k + L - 1) = token
  BY DEF P!Matches
<1>3. /\ k \in Nat /\ k >= 1 /\ k <= e - a - L + 1 /\ L >= 1 /\ L \in Nat
  BY <1>1, <1>2
<1>4. /\ a \in 1..Len(s) /\ e - 1 \in 1..Len(s)
      /\ k \in 1..(e - 1 - a + 1) /\ k + L - 1 \in 1..(e - 1 - a + 1)
  BY <1>1, <1>3
<1>5. SubSeq(p, k, k + L - 1) = SubSeq(s, a + k - 1, a + (k + L - 1) - 1)
  BY <1>4, SubSeqOfSubSeq
<1>6. a + (k + L - 1) - 1 = a + k - 1 + L - 1
  BY <1>1, <1>3
<1>7. a + k - 1 \in a..(Len(s) - L + 1)
  BY <1>1, <1>3
<1>8. SubSeq(s, a + k - 1, a + k - 1 + L - 1) = token
  BY <1>2, <1>5, <1>6
<1>9. a + k - 1 \in P!Matches(s, a)
  BY <1>7, <1>8 DEF P!Matches
<1>10. QED
  BY <1>1, <1>3, <1>9

\* The first match.
LEMMA EpIsFirst ==
  ASSUME SplitInv, P!Found
  PROVE  /\ P!Ep \in sp..(Len(str) - Len(token) + 1)
         /\ SubSeq(str, P!Ep, P!Ep + Len(token) - 1) = token
         /\ \A j \in P!Matches(str, sp) : P!Ep <= j
<1> PICK M : M = P!Matches(str, sp)
  OBVIOUS
<1>1. M # {} /\ M \subseteq Nat
  BY SplitTypes DEF P!Found, P!Matches
<1>2. \E k \in M : \A j \in M : k <= j
  BY <1>1, LeastOf
<1>3. P!Ep \in M /\ \A j \in M : P!Ep <= j
  BY <1>2 DEF P!Ep
<1>4. QED
  BY <1>3 DEF P!Matches

\* One piece more, up to e, is joined to what has been cut off before.
LEMMA JoinedMore ==
  ASSUME SplitInv, splitting, NEW e \in sp..(Len(str) + 1)
  PROVE  LET more == Append(lines, SubSeq(str, sp, e - 1))
         IN  /\ P!Join(more, token) = SubSeq(str, 1, e - 1)
             /\ more \in Seq(Seq(Chars)) /\ more # <<>>
             /\ Len(more) = Len(lines) + 1
             /\ \A k \in 1..Len(lines) : more[k] = lines[k]
             /\ more[Len(lines) + 1] = SubSeq(str, sp, e - 1)
<1> PICK piece : piece = SubSeq(str, sp, e - 1)
  OBVIOUS
<1> PICK more : more = Append(lines, piece)
  OBVIOUS
<1>1. /\ str \in Seq(Chars) /\ Len(str) \in Nat /\ token \in Seq(Chars)
      /\ lines \in Seq(Seq(Chars)) /\ Len(lines) \in Nat
      /\ sp \in 1..(Len(str) + 1)
  BY SplitTypes
<1>2. piece \in Seq(Chars)
  BY <1>1, Part
<1>3. /\ more \in Seq(Seq(Chars)) /\ Len(more) = Len(lines) + 1
      /\ \A k \in 1..Len(lines) : more[k] = lines[k]
      /\ more[Len(lines) + 1] = piece
  BY <1>1, <1>2, AppendProperties
<1>4. more # <<>>
  <2>1. Len(more) # Len(<<>>)
    BY <1>1, <1>3
  <2>2. QED
    BY <2>1
<1>5. CASE lines = <<>>
  <2>1. sp = 1
    BY <1>5 DEF SplitInv
  <2>2. more = <<piece>>
    BY <1>5
  <2>3. P!Join(more, token) = piece
    BY <2>2, JoinOne
  <2>4. QED
    BY <1>3, <1>4, <2>1, <2>3
<1>6. CASE lines # <<>>
  <2>1. P!Join(more, token) = P!Join(lines, token) \o token \o piece
    BY <1>1, <1>2, <1>6, JoinMore
  <2>2. P!Join(lines, token) \o token = SubSeq(str, 1, sp - 1)
    BY <1>6 DEF SplitInv, P!Joined
  <2>3. 1 \in 1..(Len(str) + 1) /\ sp - 1 \in (1 - 1)..Len(str) /\ e - 1 \in (sp - 1)..Len(str)
    BY <1>1
  <2>4. SubSeq(str, 1, sp - 1) \o SubSeq(str, sp - 1 + 1, e - 1) = SubSeq(str, 1, e - 1)
    BY <1>1, <2>3, ConcatAdjacentSubSeq
  <2>5. sp - 1 + 1 = sp
    BY <1>1
  <2>6. P!Join(more, token) = SubSeq(str, 1, e - 1)
    BY <2>1, <2>2, <2>4, <2>5
  <2>7. QED
    BY <1>3, <1>4, <2>6
<1>7. QED
  BY <1>5, <1>6

LEMMA SplitNextInv == ASSUME SplitInv, P!SplitNext PROVE SplitInv'
<1> PICK e : e = P!Ep
  OBVIOUS
<1> PICK L : L = Len(token)
  OBVIOUS
<1>1. /\ str \in Seq(Chars) /\ Len(str) \in Nat /\ Len(str) <= MaxLen
      /\ token \in Seq(Chars) /\ L \in Nat \ {0} /\ sp \in 1..(Len(str) + 1)
      /\ Len(lines) \in Nat
  BY SplitTypes DEF SplitInv
<1>2. /\ e \in sp..(Len(str) - L + 1) /\ SubSeq(str, e, e + L - 1) = token
      /\ \A j \in P!Matches(str, sp) : e <= j
  BY EpIsFirst DEF P!SplitNext
<1>3. /\ e \in sp..(Len(str) + 1) /\ e \in Nat /\ e + L <= Len(str) + 1 /\ e >= 1
  BY <1>1, <1>2
<1>4. /\ lines' = Append(lines, SubSeq(str, sp, e - 1)) /\ sp' = e + L
      /\ UNCHANGED <<str, token, splitting>> /\ splitting
  BY DEF P!SplitNext
<1>5. /\ P!Join(lines', token) = SubSeq(str, 1, e - 1)
      /\ lines' \in Seq(Seq(Chars)) /\ lines' # <<>>
      /\ Len(lines') = Len(lines) + 1
      /\ \A k \in 1..Len(lines) : lines'[k] = lines[k]
      /\ lines'[Len(lines) + 1] = SubSeq(str, sp, e - 1)
  BY <1>3, <1>4, JoinedMore
<1>6. P!SplitTypeOK'
  <2>1. sp' \in 1..(MaxLen + 1)
    BY <1>1, <1>3, <1>4, BoundsAssumption
  <2>2. str' \in Seq(Chars) /\ token' \in Tokens /\ splitting' \in BOOLEAN
    BY <1>4 DEF SplitInv, P!SplitTypeOK
  <2>3. QED
    BY <1>5, <2>1, <2>2 DEF P!SplitTypeOK
<1>7. (Len(str) <= MaxLen /\ sp <= Len(str) + 1)'
  BY <1>1, <1>3, <1>4
<1>8. P!Matches(SubSeq(str, sp, e - 1), 1) = {}
  <2> SUFFICES ASSUME NEW k \in P!Matches(SubSeq(str, sp, e - 1), 1) PROVE FALSE
    OBVIOUS
  <2>1. /\ sp + k - 1 \in P!Matches(str, sp) /\ sp + k - 1 + L <= e /\ k \in Nat
    BY <1>1, <1>3, MatchInPart
  <2>2. e <= sp + k - 1
    BY <1>2, <2>1
  <2>3. QED
    BY <1>1, <1>3, <2>1, <2>2
<1>9. (\A k \in 1..Len(lines) : P!Matches(lines[k], 1) = {})'
  <2>1. \A s : P!Matches(s, 1)' = P!Matches(s, 1)
    BY <1>4 DEF P!Matches
  <2>2. ASSUME NEW k \in 1..Len(lines') PROVE P!Matches(lines'[k], 1) = {}
    <3>1. CASE k \in 1..Len(lines)
      BY <1>5, <3>1 DEF SplitInv
    <3>2. CASE k = Len(lines) + 1
      BY <1>5, <1>8, <3>2
    <3>3. QED
      BY <1>1, <1>5, <3>1, <3>2
  <2>3. QED
    BY <2>1, <2>2
<1>10. sp' # 1 /\ (P!Joined \o token)' = SubSeq(str, 1, sp - 1)'
  <2>1. P!Joined' = SubSeq(str, 1, e - 1)
    BY <1>4, <1>5 DEF P!Joined
  <2>2. 1 \in 1..(Len(str) + 1) /\ e - 1 \in (1 - 1)..Len(str) /\ e + L - 1 \in (e - 1)..Len(str)
    BY <1>1, <1>3
  <2>3. SubSeq(str, 1, e - 1) \o SubSeq(str, e - 1 + 1, e + L - 1) = SubSeq(str, 1, e + L - 1)
    BY <1>1, <2>2, ConcatAdjacentSubSeq
  <2>4. e - 1 + 1 = e /\ sp' # 1 /\ sp' - 1 = e + L - 1
    BY <1>1, <1>3, <1>4
  <2>5. SubSeq(str, 1, e - 1) \o token = SubSeq(str, 1, e + L - 1)
    BY <1>2, <2>3, <2>4
  <2>6. QED
    BY <1>4, <2>1, <2>4, <2>5
<1>11. P!PiecesRejoin'
  BY <1>4 DEF P!PiecesRejoin
<1>12. QED
  <2>1. (splitting => /\ lines = <<>> <=> sp = 1
                      /\ lines # <<>> => P!Joined \o token = SubSeq(str, 1, sp - 1))'
    BY <1>5, <1>10
  <2>2. QED
    BY <1>6, <1>7, <1>9, <1>11, <2>1 DEF SplitInv

LEMMA SplitLastInv == ASSUME SplitInv, P!SplitLast PROVE SplitInv'
<1>1. /\ str \in Seq(Chars) /\ Len(str) \in Nat /\ Len(str) <= MaxLen
      /\ token \in Seq(Chars) /\ Len(token) \in Nat \ {0} /\ sp \in 1..(Len(str) + 1)
      /\ lines \in Seq(Seq(Chars)) /\ Len(lines) \in Nat
  BY SplitTypes DEF SplitInv
<1>2. UNCHANGED <<str, token, sp>> /\ splitting /\ ~splitting' /\ P!Matches(str, sp) = {}
  BY DEF P!SplitLast, P!Found
<1>a. str' \in Seq(Chars) /\ token' \in Tokens /\ splitting' \in BOOLEAN /\ sp' \in 1..(MaxLen + 1)
  <2>1. str \in Seq(Chars) /\ token \in Tokens /\ sp \in 1..(MaxLen + 1)
    BY DEF SplitInv, P!SplitTypeOK
  <2>2. QED
    BY <2>1 DEF P!SplitLast
<1>3. \A s : P!Matches(s, 1)' = P!Matches(s, 1)
  BY <1>2 DEF P!Matches
<1>4. CASE sp <= Len(str)
  <2> PICK n : n = Len(str)
    OBVIOUS
  <2> PICK piece : piece = SubSeq(str, sp, n)
    OBVIOUS
  <2>1. n + 1 \in sp..(Len(str) + 1) /\ n + 1 - 1 = n /\ n \in Nat
    BY <1>1, <1>4
  <2>2. lines' = Append(lines, piece)
    BY <1>4 DEF P!SplitLast
  <2>3. /\ P!Join(lines', token) = SubSeq(str, 1, n)
        /\ lines' \in Seq(Seq(Chars)) /\ lines' # <<>>
        /\ Len(lines') = Len(lines) + 1
        /\ \A k \in 1..Len(lines) : lines'[k] = lines[k]
        /\ lines'[Len(lines) + 1] = piece
    <3>1. PICK e \in sp..(Len(str) + 1) : e = n + 1 /\ e - 1 = n
      BY <2>1
    <3>2. QED
      BY <1>2, <2>2, <3>1, JoinedMore
  <2>4. P!Joined' = str
    BY <1>1, <1>2, <2>3, SubSeqFull DEF P!Joined
  <2>5. piece # <<>> /\ P!Matches(piece, 1) = {}
    <3>1. PICK e \in sp..(Len(str) + 1) : e = n + 1 /\ e - 1 = n
      BY <2>1
    <3>2. Len(piece) = e - sp
      BY <1>1, <3>1, Part
    <3>3. piece # <<>>
      <4>1. Len(piece) # Len(<<>>)
        BY <1>1, <1>4, <3>1, <3>2
      <4>2. QED
        BY <4>1
    <3>4. P!Matches(piece, 1) = {}
      BY <1>1, <1>2, <3>1, MatchInPart
    <3>5. QED
      BY <3>3, <3>4
  <2>6. P!Last(lines') # <<>>
    BY <2>3, <2>5 DEF P!Last
  <2>7. ASSUME NEW k \in 1..Len(lines') PROVE P!Matches(lines'[k], 1) = {}
    <3>1. CASE k \in 1..Len(lines)
      BY <2>3, <3>1 DEF SplitInv
    <3>2. CASE k = Len(lines) + 1
      BY <2>3, <2>5, <3>2
    <3>3. QED
      BY <1>1, <2>3, <3>1, <3>2
  <2>8. P!SplitTypeOK'
    BY <1>a, <2>3 DEF P!SplitTypeOK
  <2>9. str # <<>>
    BY <1>1, <1>4
  <2>10. DOMAIN lines' = 1..Len(lines')
    BY <2>3
  <2>11. P!PiecesRejoin'
    BY <1>2, <1>3, <2>3, <2>4, <2>6, <2>7, <2>9, <2>10 DEF P!PiecesRejoin
  <2>12. QED
    BY <1>1, <1>2, <1>3, <2>7, <2>8, <2>11 DEF SplitInv
<1>5. CASE ~ sp <= Len(str)
  <2>1. lines' = lines /\ sp = Len(str) + 1
    BY <1>1, <1>5 DEF P!SplitLast
  <2>2. P!SplitTypeOK'
    BY <1>1, <1>a, <2>1 DEF P!SplitTypeOK
  <2>3. (\A k \in 1..Len(lines) : P!Matches(lines[k], 1) = {})'
    BY <1>3, <2>1 DEF SplitInv
  <2>4. DOMAIN lines = 1..Len(lines)
    BY <1>1
  <2>5. lines = <<>> <=> str = <<>>
    <3>1. lines = <<>> <=> Len(str) + 1 = 1
      BY <1>2, <2>1 DEF SplitInv
    <3>2. QED
      BY <1>1, <3>1
  <2>6. CASE lines = <<>>
    <3>1. P!Join(lines, token) = <<>>
      BY <2>6, JoinNone
    <3>2. (P!Joined = str /\ lines = <<>>)'
      BY <1>2, <2>1, <2>5, <2>6, <3>1 DEF P!Joined
    <3>3. P!PiecesRejoin'
      BY <1>2, <2>1, <2>3, <2>4, <2>5, <3>2 DEF P!PiecesRejoin
    <3>4. QED
      BY <1>1, <1>2, <2>1, <2>2, <2>3, <3>3 DEF SplitInv
  <2>7. CASE lines # <<>>
    <3>1. P!Join(lines, token) \o token = SubSeq(str, 1, sp - 1)
      BY <1>2, <2>7 DEF SplitInv, P!Joined
    <3>2. sp - 1 = Len(str)
      BY <1>1, <2>1
    <3>3. (P!Joined \o token = str)'
      BY <1>1, <1>2, <2>1, <3>1, <3>2, SubSeqFull DEF P!Joined
    <3>4. P!PiecesRejoin'
      BY <1>2, <2>1, <2>3, <2>4, <2>5, <3>3 DEF P!PiecesRejoin
    <3>5. QED
      BY <1>1, <1>2, <2>1, <2>2, <2>3, <3>4 DEF SplitInv
  <2>8. QED
    BY <2>6, <2>7
<1>6. QED
  BY <1>4, <1>5

LEMMA SplitInitInv == ASSUME P!Init PROVE SplitInv
<1>1. str \in Seq(Chars) /\ Len(str) \in 0..MaxLen
  <2>1. PICK m \in 0..MaxLen : str \in [1..m -> Chars]
    BY DEF P!Init, P!BoundedSeq, P!SeqOf
  <2>2. m \in Nat
    BY BoundsAssumption
  <2>3. QED
    BY <2>1, <2>2
<1>2. P!SplitTypeOK
  BY <1>1, BoundsAssumption, EmptySeq DEF P!Init, P!SplitTypeOK
<1>3. QED
  BY <1>1, <1>2, BoundsAssumption DEF P!Init, SplitInv, P!PiecesRejoin

LEMMA SplitStep == ASSUME SplitInv, P!Next PROVE SplitInv'
  BY SplitNextInv, SplitLastInv DEF P!Next
-----------------------------------------------------------------------------
(* SimulcastBitrate (src/simulcast_encoder_adapter.cpp).                   *)

LEMMA Products ==
  ASSUME NEW a \in Int, NEW b \in Int, NEW c \in Int
  PROVE  /\ a * c \in Int /\ (a + b) * c = a * c + b * c
         /\ c * a = a * c /\ (100 * a) * c = 100 * (a * c) /\ 1 * c = c
  OBVIOUS

LEMMA Larger ==
  ASSUME NEW a \in Int, NEW b \in Int, a <= b, NEW c \in Nat
  PROVE  a * c <= b * c
<1>1. PICK d : d = b - a
  OBVIOUS
<1>2. d \in Nat /\ b = a + d
  BY <1>1
<1>3. (a + d) * c = a * c + d * c /\ a * c \in Int
  BY <1>2, Products
<1>4. d * c \in Nat
  BY <1>2
<1>5. QED
  BY <1>2, <1>3, <1>4

LEMMA FactorSmaller ==
  ASSUME NEW a \in Int, NEW b \in Int, NEW c \in Nat \ {0}, a * c <= b * c
  PROVE  a <= b
<1> SUFFICES ASSUME b + 1 <= a PROVE FALSE
  OBVIOUS
<1>1. (b + 1) * c <= a * c
  BY Larger
<1>2. (b + 1) * c = b * c + 1 * c /\ 1 * c = c /\ b * c \in Int /\ a * c \in Int
  BY Products
<1>3. QED
  BY <1>1, <1>2

LEMMA Quotient ==
  ASSUME NEW n \in Nat, NEW s \in Nat \ {0}
  PROVE  /\ n \div s \in Nat /\ n % s \in Nat /\ n % s < s
         /\ n = (n \div s) * s + (n % s)
  OBVIOUS

\* q is x * r / s, truncated.
Truncated(q, y, s) == q \in Nat /\ q * s <= y /\ y < q * s + s

LEMMA TruncatedMonotonic ==
  ASSUME NEW s \in Nat \ {0}, NEW y \in Nat, NEW z \in Nat, y <= z,
         NEW p, Truncated(p, y, s), NEW q, Truncated(q, z, s)
  PROVE  p <= q
<1> SUFFICES ASSUME q + 1 <= p PROVE FALSE
  BY DEF Truncated
<1>1. (q + 1) * s <= p * s
  BY Larger DEF Truncated
<1>2. (q + 1) * s = q * s + s
  BY Products DEF Truncated
<1>3. q * s \in Int /\ p * s \in Int
  BY Products DEF Truncated
<1>4. QED
  BY <1>1, <1>2, <1>3 DEF Truncated

\* One step of the division: v is what has been multiplied so far.
Divided(acc, v, r, s) ==
  /\ acc.quotient \in Nat /\ acc.rest \in Nat /\ acc.rest < s
  /\ acc.quotient * s + acc.rest = v * r

LEMMA TwoDigitsMore ==
  ASSUME NEW acc, NEW v \in Nat, NEW d \in Nat, NEW r \in Nat, NEW s \in Nat \ {0},
         Divided(acc, v, r, s)
  PROVE  Divided(B!TwoDigits(acc, d, r, s), 100 * v + d, r, s)
<1> DEFINE n == acc.rest * 100 + d * r
<1> PICK q : q = acc.quotient
  OBVIOUS
<1> PICK more : more = B!TwoDigits(acc, d, r, s)
  OBVIOUS
<1>1. q \in Nat /\ acc.rest \in Nat /\ q * s \in Int /\ v * r \in Int /\ d * r \in Nat
  BY DEF Divided
<1>2. n \in Nat
  BY <1>1
<1>3. PICK p, t : p = n \div s /\ t = n % s
  OBVIOUS
<1>4. more.quotient = q * 100 + p /\ more.rest = t
  BY <1>3 DEF B!TwoDigits
<1> HIDE DEF n
<1>5. p \in Nat /\ t \in Nat /\ t < s /\ n = p * s + t
  BY <1>2, <1>3, Quotient
<1>6. (q * 100 + p) * s = 100 * (q * s) + p * s /\ p * s \in Int
  <2>1. 100 * q \in Int /\ p \in Int /\ s \in Int /\ q \in Int /\ q * 100 = 100 * q
    BY <1>1, <1>5
  <2>2. (100 * q + p) * s = (100 * q) * s + p * s /\ p * s \in Int
    BY <2>1, Products
  <2>3. (100 * q) * s = 100 * (q * s)
    BY <2>1, Products
  <2>4. QED
    BY <2>1, <2>2, <2>3
<1>7. (100 * v + d) * r = 100 * (v * r) + d * r
  <2>1. 100 * v \in Int /\ v \in Int /\ d \in Int /\ r \in Int
    OBVIOUS
  <2>2. (100 * v + d) * r = (100 * v) * r + d * r
    BY <2>1, Products
  <2>3. (100 * v) * r = 100 * (v * r)
    BY <2>1, Products
  <2>4. QED
    BY <2>2, <2>3
<1>8. q * s + acc.rest = v * r
  BY DEF Divided
<1>9. more.quotient * s + more.rest = (100 * v + d) * r
  <2> PICK u, w, y, z, e : u = q * s /\ w = p * s /\ y = d * r /\ z = v * r /\ e = acc.rest
    OBVIOUS
  <2>1. w + t = e * 100 + y /\ u + e = z
    BY <1>5, <1>8 DEF n
  <2>2. /\ u \in Int /\ w \in Int /\ y \in Int /\ z \in Int /\ e \in Int
    BY <1>1, <1>6
  <2>3. 100 * u + w + t = 100 * z + y
    BY <1>5, <2>1, <2>2
  <2>4. 100 * (q * s) + p * s + t = 100 * (v * r) + d * r
    BY <2>3
  <2>5. QED
    BY <1>4, <1>6, <1>7, <2>4
<1>10. more.quotient \in Nat /\ more.rest \in Nat /\ more.rest < s
  BY <1>1, <1>4, <1>5
<1>11. QED
  BY <1>9, <1>10 DEF Divided

\* Two digits at a time come to the same: for every x, r and s, what stands for the
\* x * r / s of GetMaxBitrate and InitEncode is that quotient, truncated.
THEOREM MulDivTruncates ==
  ASSUME NEW x \in Nat, NEW r \in Nat, NEW s \in Nat \ {0}
  PROVE  Truncated(B!MulDiv(x, r, s), x * r, s)
<1>1. PICK a, b, c, b2, c2, d2 : /\ a = x \div 1000000 /\ b = x \div 10000 /\ c = x \div 100
                                 /\ b2 = b % 100 /\ c2 = c % 100 /\ d2 = x % 100
  BY SMTT(30)
<1>2. /\ a \in Nat /\ b \in Nat /\ c \in Nat /\ b2 \in Nat /\ c2 \in Nat /\ d2 \in Nat
      /\ b = 100 * a + b2 /\ c = 100 * b + c2 /\ x = 100 * c + d2
  BY <1>1, SMTT(30)
<1>3. PICK zero : zero = [quotient |-> 0, rest |-> 0]
  OBVIOUS
<1>4. PICK m : m = B!TwoDigits(zero, a, r, s)
  OBVIOUS
<1>5. PICK k : k = B!TwoDigits(m, b2, r, s)
  OBVIOUS
<1>6. PICK h : h = B!TwoDigits(k, c2, r, s)
  OBVIOUS
<1>7. PICK o : o = B!TwoDigits(h, d2, r, s)
  OBVIOUS
<1>8. B!MulDiv(x, r, s) = o.quotient
  BY <1>1, <1>3, <1>4, <1>5, <1>6, <1>7, SMTT(30) DEF B!MulDiv
<1>9. Divided(zero, 0, r, s)
  BY <1>3 DEF Divided
<1>10. Divided(m, 100 * 0 + a, r, s)
  BY <1>2, <1>4, <1>9, TwoDigitsMore
<1>11. Divided(m, a, r, s)
  BY <1>2, <1>10
<1>12. Divided(k, b, r, s)
  BY <1>2, <1>5, <1>11, TwoDigitsMore
<1>13. Divided(h, c, r, s)
  BY <1>2, <1>6, <1>12, TwoDigitsMore
<1>14. Divided(o, x, r, s)
  BY <1>2, <1>7, <1>13, TwoDigitsMore
<1>15. QED
  <2>1. o.quotient \in Nat /\ o.quotient * s \in Int /\ x * r \in Int
    BY <1>14 DEF Divided
  <2>2. QED
    BY <1>8, <1>14, <2>1 DEF Divided, Truncated

\* The bit rate of the largest size.
Most == 5000000

LEMMA MostType == Most \in Nat
  BY SMTT(30) DEF Most

\* The table falls.
LEMMA Table ==
  /\ \A n \in 1..7 : B!kSimulcastFormats[n].area \in Nat /\ B!kSimulcastFormats[n].rate \in Nat
  /\ \A n \in 2..7 : B!kSimulcastFormats[n].area < B!kSimulcastFormats[n - 1].area
  /\ \A m, n \in 1..7 : m <= n => B!kSimulcastFormats[n].rate <= B!kSimulcastFormats[m].rate
  /\ \A m, n \in 1..7 : m <= n => B!kSimulcastFormats[n].area <= B!kSimulcastFormats[m].area
  /\ \A n \in 1..6 : 0 < B!kSimulcastFormats[n].rate
  /\ B!kSimulcastFormats[1].rate = Most /\ Most \in Nat /\ B!kSimulcastFormats[7].area = 0
  BY SMTT(30) DEF B!kSimulcastFormats, Most

LEMMA EntryFound ==
  ASSUME NEW area \in Nat
  PROVE  /\ B!EntryOf(area) \in 1..7
         /\ B!kSimulcastFormats[B!EntryOf(area)].area <= area
         /\ \A k \in 1..(B!EntryOf(area) - 1) : area < B!kSimulcastFormats[k].area
<1> DEFINE T == {n \in 1..7 : area >= B!kSimulcastFormats[n].area}
<1>1. T \subseteq Nat /\ T # {}
  BY Table
<1>2. PICK m \in T : \A n \in T : m <= n
  BY <1>1, LeastOf
<1>3. ASSUME NEW k \in 1..(m - 1) PROVE area < B!kSimulcastFormats[k].area
  <2>1. k \in 1..7 /\ ~ m <= k
    BY <1>2
  <2>2. k \notin T
    BY <1>2, <2>1
  <2>3. QED
    BY <2>1, <2>2, Table
<1>4. \E n \in 1..7 :
        /\ area >= B!kSimulcastFormats[n].area
        /\ \A k \in 1..(n - 1) : area < B!kSimulcastFormats[k].area
  BY <1>2, <1>3
<1>5. /\ B!EntryOf(area) \in 1..7
      /\ area >= B!kSimulcastFormats[B!EntryOf(area)].area
      /\ \A k \in 1..(B!EntryOf(area) - 1) : area < B!kSimulcastFormats[k].area
  BY <1>4 DEF B!EntryOf
<1>6. QED
  BY <1>5, Table

\* The table behind its first entry: a part of the way to the entry before.
Interpolated(g, area, n) ==
  LET a == B!kSimulcastFormats[n]
      b == B!kSimulcastFormats[n - 1]
  IN  \E q : /\ g = a.rate + q
             /\ Truncated(q, (area - a.area) * (b.rate - a.rate), b.area - a.area)

LEMMA Interpolates ==
  ASSUME NEW area \in Nat, B!EntryOf(area) # 1
  PROVE  Interpolated(B!GetMaxBitrate(area), area, B!EntryOf(area))
<1> PICK n : n = B!EntryOf(area)
  OBVIOUS
<1> PICK a : a = B!kSimulcastFormats[n]
  OBVIOUS
<1> PICK b : b = B!kSimulcastFormats[n - 1]
  OBVIOUS
<1>1. n \in 2..7 /\ n - 1 \in 1..7 /\ n \in 1..7 /\ n - 1 <= n
  BY EntryFound
<1>2. /\ a.area \in Nat /\ a.rate \in Nat /\ b.area \in Nat /\ b.rate \in Nat
      /\ a.area < b.area /\ a.rate <= b.rate /\ a.area <= area
  BY <1>1, Table, EntryFound
<1>3. /\ area - a.area \in Nat /\ b.rate - a.rate \in Nat /\ b.area - a.area \in Nat \ {0}
  BY <1>2
<1>4. B!GetMaxBitrate(area) = a.rate + B!MulDiv(area - a.area, b.rate - a.rate, b.area - a.area)
  BY DEF B!GetMaxBitrate
<1>5. QED
  BY <1>3, <1>4, MulDivTruncates DEF Interpolated

\* The rate of a size is between those of its two entries, ...
LEMMA BetweenEntries ==
  ASSUME NEW area \in Nat
  PROVE  /\ B!GetMaxBitrate(area) \in 0..Most
         /\ B!kSimulcastFormats[B!EntryOf(area)].rate <= B!GetMaxBitrate(area)
         /\ \A m \in 1..7 : m < B!EntryOf(area) =>
              B!GetMaxBitrate(area) <= B!kSimulcastFormats[m].rate
<1> PICK n : n = B!EntryOf(area)
  OBVIOUS
<1> PICK g : g = B!GetMaxBitrate(area)
  OBVIOUS
<1> PICK a : a = B!kSimulcastFormats[n]
  OBVIOUS
<1>1. n \in 1..7
  BY EntryFound
<1>2. CASE n = 1
  <2>1. g = a.rate
    BY <1>2 DEF B!GetMaxBitrate
  <2>2. QED
    BY <1>2, <2>1, Table
<1>3. CASE n # 1
  <2> PICK b : b = B!kSimulcastFormats[n - 1]
    OBVIOUS
  <2>1. n \in 2..7 /\ n - 1 \in 1..7 /\ n - 1 <= n /\ 1 \in 1..7 /\ 1 <= n - 1
    BY <1>1, <1>3
  <2>2. PICK q : /\ g = a.rate + q
                 /\ Truncated(q, (area - a.area) * (b.rate - a.rate), b.area - a.area)
    BY <1>3, Interpolates DEF Interpolated
  <2>3. /\ a.area \in Nat /\ a.rate \in Nat /\ b.area \in Nat /\ b.rate \in Nat
        /\ a.area < b.area /\ a.rate <= b.rate /\ a.area <= area
    BY <2>1, Table, EntryFound
  <2>4. area < b.area
    <3>1. n - 1 \in 1..(n - 1)
      BY <2>1
    <3>2. QED
      BY <3>1, EntryFound
  <2>5. q <= b.rate - a.rate
    <3> PICK s : s = b.area - a.area
      OBVIOUS
    <3> PICK r : r = b.rate - a.rate
      OBVIOUS
    <3> PICK y : y = (area - a.area) * r
      OBVIOUS
    <3>1. s \in Nat \ {0} /\ r \in Nat /\ y \in Nat /\ area - a.area <= s /\ area - a.area \in Int
      BY <2>3, <2>4
    <3>2. y <= s * r /\ s * r = r * s /\ r * s \in Nat /\ s \in Int /\ r \in Int
      BY <3>1, Larger, Products
    <3>3. Truncated(r, r * s, s)
      BY <3>1, <3>2 DEF Truncated
    <3>4. Truncated(q, y, s)
      BY <2>2
    <3>5. q <= r
      BY <3>1, <3>2, <3>3, <3>4, TruncatedMonotonic
    <3>6. QED
      BY <3>5
  <2>6. q \in Nat
    BY <2>2 DEF Truncated
  <2>7. a.rate <= g /\ g <= b.rate /\ g \in Nat
    BY <2>2, <2>3, <2>5, <2>6
  <2>8. b.rate <= Most
    BY <2>1, Table
  <2>9. ASSUME NEW m \in 1..7, m < n PROVE g <= B!kSimulcastFormats[m].rate
    <3>1. m <= n - 1
      BY <1>1, <2>9
    <3>2. b.rate <= B!kSimulcastFormats[m].rate /\ B!kSimulcastFormats[m].rate \in Nat
      BY <2>1, <3>1, Table
    <3>3. QED
      BY <2>3, <2>7, <3>2
  <2>10. g \in 0..Most
    BY <2>3, <2>7, <2>8, MostType
  <2>11. QED
    BY <2>7, <2>9, <2>10
<1>4. QED
  BY <1>2, <1>3

\* ... a larger size has no smaller rate, ...
LEMMA RateGrows ==
  ASSUME NEW x \in Nat, NEW y \in Nat, x <= y
  PROVE  B!GetMaxBitrate(x) <= B!GetMaxBitrate(y)
<1> PICK n : n = B!EntryOf(x)
  OBVIOUS
<1> PICK m : m = B!EntryOf(y)
  OBVIOUS
<1>1. n \in 1..7 /\ m \in 1..7
  BY EntryFound
<1>2. m <= n
  <2> SUFFICES ASSUME n < m PROVE FALSE
    BY <1>1
  <2>1. n \in 1..(m - 1)
    BY <1>1
  <2>2. y < B!kSimulcastFormats[n].area /\ B!kSimulcastFormats[n].area <= x
    BY <2>1, EntryFound
  <2>3. QED
    BY <1>1, <2>2, Table
<1>3. CASE m < n
  <2>1. B!GetMaxBitrate(x) <= B!kSimulcastFormats[m].rate
    BY <1>1, <1>3, BetweenEntries
  <2>2. B!kSimulcastFormats[m].rate <= B!GetMaxBitrate(y)
    BY BetweenEntries
  <2>3. /\ B!kSimulcastFormats[m].rate \in Nat
        /\ B!GetMaxBitrate(x) \in Nat /\ B!GetMaxBitrate(y) \in Nat
    BY <1>1, BetweenEntries, Table
  <2>4. QED
    BY <2>1, <2>2, <2>3
<1>4. CASE m = n /\ n = 1
  BY <1>4, BetweenEntries DEF B!GetMaxBitrate
<1>5. CASE m = n /\ n # 1
  <2> PICK a : a = B!kSimulcastFormats[n]
    OBVIOUS
  <2> PICK b : b = B!kSimulcastFormats[n - 1]
    OBVIOUS
  <2> PICK r : r = b.rate - a.rate
    OBVIOUS
  <2> PICK s : s = b.area - a.area
    OBVIOUS
  <2>1. PICK p : B!GetMaxBitrate(x) = a.rate + p /\ Truncated(p, (x - a.area) * r, s)
    BY <1>5, Interpolates DEF Interpolated
  <2>2. PICK q : B!GetMaxBitrate(y) = a.rate + q /\ Truncated(q, (y - a.area) * r, s)
    BY <1>5, Interpolates DEF Interpolated
  <2>3. n \in 2..7 /\ n - 1 \in 1..7 /\ n - 1 <= n
    BY <1>1, <1>5
  <2>4. /\ a.area \in Nat /\ a.rate \in Nat /\ b.area \in Nat /\ b.rate \in Nat
        /\ a.area < b.area /\ a.rate <= b.rate /\ a.area <= x
    BY <2>3, Table, EntryFound
  <2>5. /\ s \in Nat \ {0} /\ r \in Nat /\ x - a.area \in Nat /\ y - a.area \in Nat
        /\ x - a.area <= y - a.area
    BY <2>4
  <2>6. (x - a.area) * r <= (y - a.area) * r
    BY <2>5, Larger
  <2>7. (x - a.area) * r \in Nat /\ (y - a.area) * r \in Nat
    BY <2>5
  <2>8. p <= q /\ p \in Nat /\ q \in Nat
    <3> PICK u : u = (x - a.area) * r
      OBVIOUS
    <3> PICK w : w = (y - a.area) * r
      OBVIOUS
    <3>1. Truncated(p, u, s) /\ Truncated(q, w, s)
      BY <2>1, <2>2
    <3>2. u \in Nat /\ w \in Nat /\ u <= w /\ s \in Nat \ {0}
      BY <2>5, <2>6, <2>7
    <3>3. p <= q
      BY <3>1, <3>2, TruncatedMonotonic
    <3>4. QED
      BY <3>1, <3>3 DEF Truncated
  <2>9. QED
    BY <2>1, <2>2, <2>4, <2>8
<1>6. QED
  BY <1>1, <1>2, <1>3, <1>4, <1>5

\* ... and a single pixel has one.
LEMMA PixelHasRate == ASSUME NEW area \in Nat \ {0} PROVE B!GetMaxBitrate(area) > 0
<1> PICK n : n = B!EntryOf(area)
  OBVIOUS
<1>1. n \in 1..7 /\ B!GetMaxBitrate(area) \in Nat
  BY EntryFound, BetweenEntries
<1>2. CASE n # 7
  <2>1. 0 < B!kSimulcastFormats[n].rate /\ B!kSimulcastFormats[n].rate \in Nat
    BY <1>1, <1>2, Table
  <2>2. QED
    BY <1>1, <2>1, BetweenEntries
<1>3. CASE n = 7
  <2>1. /\ B!kSimulcastFormats[7].area = 0 /\ B!kSimulcastFormats[7].rate = 0
        /\ B!kSimulcastFormats[6].area = 57600 /\ B!kSimulcastFormats[6].rate = 200000
    BY SMTT(30) DEF B!kSimulcastFormats
  <2> PICK a : a = B!kSimulcastFormats[7]
    OBVIOUS
  <2> PICK b : b = B!kSimulcastFormats[6]
    OBVIOUS
  <2>2. PICK q : /\ B!GetMaxBitrate(area) = a.rate + q
                 /\ Truncated(q, (area - a.area) * (b.rate - a.rate), b.area - a.area)
    <3>1. n # 1 /\ n - 1 = 6
      BY <1>3
    <3>2. Interpolated(B!GetMaxBitrate(area), area, n)
      BY <3>1, Interpolates
    <3>3. QED
      BY <1>3, <3>1, <3>2 DEF Interpolated
  <2>3. q \in Nat /\ area * 200000 < q * 57600 + 57600
    <3>1. (area - a.area) * (b.rate - a.rate) < q * (b.area - a.area) + (b.area - a.area)
      BY <2>2 DEF Truncated
    <3>2. /\ area - a.area = area /\ b.rate - a.rate = 200000 /\ b.area - a.area = 57600
      BY <2>1, SMTT(30)
    <3>3. QED
      BY <2>2, <3>1, <3>2, SMTT(30) DEF Truncated
  <2>4. QED
    BY <2>1, <2>2, <2>3, SMTT(30)
<1>4. QED
  BY <1>2, <1>3

\* f adds the first n elements of b up, one after the other.
Sums(f, n, b) == f = [k \in 0..n |-> IF k = 0 THEN 0 ELSE f[k - 1] + b[k]]

LEMMA SumsExist == ASSUME NEW n \in Nat, NEW b PROVE \E f : Sums(f, n, b)
<1> DEFINE T == {k \in Nat : \E f : Sums(f, k, b)}
<1>1. 0 \in T
  <2>1. Sums([k \in 0..0 |-> 0], 0, b)
    BY DEF Sums
  <2>2. QED
    BY <2>1
<1>2. ASSUME NEW k \in 1..n, k - 1 \in T PROVE k \in T
  <2>1. PICK f : Sums(f, k - 1, b)
    BY <1>2
  <2>2. PICK g : g = [j \in 0..k |-> IF j < k THEN f[j] ELSE f[k - 1] + b[k]]
    OBVIOUS
  <2>3. \A j \in 0..(k - 1) : g[j] = f[j]
    BY <2>2
  <2>4. ASSUME NEW j \in 0..k PROVE g[j] = IF j = 0 THEN 0 ELSE g[j - 1] + b[j]
    <3>1. CASE j < k
      <4>1. j \in 0..(k - 1) /\ (j # 0 => j - 1 \in 0..(k - 1))
        BY <3>1
      <4>2. f[j] = IF j = 0 THEN 0 ELSE f[j - 1] + b[j]
        BY <2>1, <4>1 DEF Sums
      <4>3. QED
        BY <2>3, <4>1, <4>2
    <3>2. CASE j = k
      <4>1. k - 1 \in 0..(k - 1) /\ k # 0
        OBVIOUS
      <4>2. QED
        BY <2>2, <2>3, <3>2, <4>1
    <3>3. QED
      BY <3>1, <3>2
  <2>5. Sums(g, k, b)
    BY <2>2, <2>4 DEF Sums
  <2>6. QED
    BY <2>5
<1> HIDE DEF T
<1>3. \A k \in 0..n : k \in T
  BY <1>1, <1>2, UpTo
<1>4. QED
  BY <1>3 DEF T

LEMMA GivenSums == ASSUME N \in Nat PROVE Sums(B!GivenTo, N, bitrate)
<1>1. \E f : Sums(f, N, bitrate)
  BY SumsExist
<1>2. B!GivenTo = CHOOSE f : Sums(f, N, bitrate)
  BY DEF B!GivenTo, Sums
<1>3. QED
  BY <1>1, <1>2

LEMMA SumsNext ==
  ASSUME NEW n \in Nat, NEW b, NEW f, Sums(f, n, b)
  PROVE  f[0] = 0 /\ \A k \in 1..n : f[k] = f[k - 1] + b[k]
  BY DEF Sums

\* Sums of rates do not exceed so many times the largest one, and grow.
LEMMA SumsBounded ==
  ASSUME NEW n \in Nat, NEW b, NEW c \in Nat, \A k \in 1..n : b[k] \in 0..c,
         NEW f, Sums(f, n, b)
  PROVE  \A k \in 0..n : f[k] \in Nat /\ f[k] <= k * c
<1> PICK T : T = {k \in Nat : f[k] \in Nat /\ f[k] <= k * c}
  OBVIOUS
<1>1. 0 \in T
  <2>1. f[0] = 0 /\ 0 * c = 0
    BY SumsNext
  <2>2. QED
    BY <2>1
<1>2. ASSUME NEW k \in 1..n, k - 1 \in T PROVE k \in T
  <2>1. f[k] = f[k - 1] + b[k] /\ b[k] \in Nat /\ b[k] <= c
    BY SumsNext
  <2>2. (k - 1) * c + c = k * c /\ (k - 1) * c \in Int
    <3>1. k - 1 \in Int /\ 1 \in Int /\ k - 1 + 1 = k /\ c \in Int
      OBVIOUS
    <3>2. (k - 1 + 1) * c = (k - 1) * c + 1 * c /\ 1 * c = c /\ (k - 1) * c \in Int
      BY <3>1, Products
    <3>3. QED
      BY <3>1, <3>2
  <2>3. f[k - 1] \in Nat /\ f[k - 1] <= (k - 1) * c
    BY <1>2
  <2>4. f[k] \in Nat /\ f[k] <= (k - 1) * c + c
    BY <2>1, <2>2, <2>3
  <2>5. QED
    BY <2>2, <2>4
<1>3. \A k \in 0..n : k \in T
  BY <1>1, <1>2, UpTo
<1>4. QED
  BY <1>3

LEMMA SumHasEach ==
  ASSUME NEW n \in Nat, NEW b, NEW c \in Nat, \A k \in 1..n : b[k] \in 0..c,
         NEW f, Sums(f, n, b), NEW l \in 1..n
  PROVE  b[l] <= f[n]
<1> PICK T : T = {k \in Nat : l <= k => b[l] <= f[k]}
  OBVIOUS
<1>1. 0 \in T
  OBVIOUS
<1>2. ASSUME NEW k \in 1..n, k - 1 \in T PROVE k \in T
  <2>1. f[k] = f[k - 1] + b[k] /\ b[k] \in Nat /\ f[k - 1] \in Nat /\ b[l] \in Nat
    <3>1. k - 1 \in 0..n
      OBVIOUS
    <3>2. f[k] = f[k - 1] + b[k]
      BY SumsNext
    <3>3. \A j \in 0..n : f[j] \in Nat
      BY SumsBounded
    <3>4. QED
      BY <3>1, <3>2, <3>3
  <2>2. CASE l = k
    BY <2>1, <2>2
  <2>3. CASE l # k
    BY <1>2, <2>1, <2>3
  <2>4. QED
    BY <2>2, <2>3
<1>3. \A k \in 0..n : k \in T
  BY <1>1, <1>2, UpTo
<1>4. QED
  BY <1>3

-----------------------------------------------------------------------------
(* The two loops of InitEncode.                                            *)

RateOf(l) == B!GetMaxBitrate(B!AreaOf(l))
Rate  == [l \in B!Layers |-> IF l \in active THEN RateOf(l) ELSE 0]
Share == [l \in B!Layers |-> IF l \in active THEN B!MulDiv(settings.bitrate, RateOf(l), sum) ELSE 0]

\* The first loop adds up what the table gives the active layers, the second has given
\* its share to each layer before the one it is at, and found something to divide by.
DivisionInv ==
  /\ B!TypeOK
  /\ \E f : Sums(f, N, Rate) /\ sum = IF step = "sum" THEN f[at - 1] ELSE f[N]
  /\ step = "sum" => \A l \in B!Layers : bitrate[l] = 0
  /\ step \in {"divide", "done"} =>
       /\ \A l \in B!Layers : bitrate[l] = IF l < at THEN Share[l] ELSE 0
       /\ \A l \in active : l < at => sum # 0
  /\ step = "done" => at = N + 1
  /\ step = "undefined" => sum = 0

\* The settings and the factors are those of the instance.
LEMMA InputsInBounds ==
  ASSUME settings \in [width : Widths, height : Heights, bitrate : Rates],
         scale \in [B!Layers -> Scales]
  PROVE  /\ settings.width \in Nat /\ settings.height \in Nat /\ settings.bitrate \in Nat
         /\ \A l \in 1..N : scale[l] \in Nat \ {0}
<1>1. settings.width \in Widths /\ settings.height \in Heights /\ settings.bitrate \in Rates
  OBVIOUS
<1>2. \A l \in 1..N : scale[l] \in Scales
  BY DEF B!Layers
<1>3. QED
  BY <1>1, <1>2, InputsAssumption

LEMMA RatesInBounds ==
  ASSUME B!TypeOK
  PROVE  /\ N \in Nat /\ N > 0 /\ settings.bitrate \in Nat /\ active \subseteq 1..N
         /\ \A l \in 1..N : B!AreaOf(l) \in Nat /\ RateOf(l) \in 0..Most
         /\ \A l \in 1..N : Rate[l] = IF l \in active THEN RateOf(l) ELSE 0
         /\ \A l \in 1..N : Rate[l] \in 0..Most
<1>1. N \in Nat /\ N > 0
  BY NAssumption
<1>2. /\ settings.bitrate \in Nat /\ settings.width \in Nat /\ settings.height \in Nat
      /\ \A l \in 1..N : scale[l] \in Nat \ {0}
  BY InputsInBounds, SMTT(30) DEF B!TypeOK
<1>3. ASSUME NEW l \in 1..N PROVE B!AreaOf(l) \in Nat
  <2>1. settings.width \div scale[l] \in Nat /\ settings.height \div scale[l] \in Nat
    BY <1>2, Quotient
  <2>2. QED
    BY <2>1 DEF B!AreaOf
<1>4. \A l \in 1..N : RateOf(l) \in 0..Most
  BY <1>3, BetweenEntries DEF RateOf
<1>5. active \subseteq 1..N
  BY SMTT(30) DEF B!TypeOK, B!Layers
<1>6. \A l \in 1..N : Rate[l] = IF l \in active THEN RateOf(l) ELSE 0
  BY DEF Rate, B!Layers
<1>7. \A l \in 1..N : Rate[l] \in 0..Most
  <2>1. 0 \in 0..Most
    BY MostType
  <2>2. QED
    BY <1>4, <1>6, <2>1
<1>8. QED
  BY <1>1, <1>2, <1>3, <1>4, <1>5, <1>6, <1>7

\* A share is what it should be, truncated, and no more than there is.
LEMMA ShareTruncates ==
  ASSUME DivisionInv, step # "sum", sum # 0, NEW l \in active
  PROVE  /\ Truncated(Share[l], settings.bitrate * RateOf(l), sum)
         /\ Share[l] \in 0..settings.bitrate
<1> PICK R : R = settings.bitrate
  OBVIOUS
<1> PICK w : w = RateOf(l)
  OBVIOUS
<1>1. R \in Nat /\ w \in Nat /\ l \in 1..N /\ sum \in Nat \ {0}
  BY RatesInBounds, SMTT(30) DEF DivisionInv, B!TypeOK
<1>2. Share[l] = B!MulDiv(R, w, sum)
  BY <1>1 DEF Share, B!Layers
<1>3. Truncated(Share[l], R * w, sum)
  BY <1>1, <1>2, MulDivTruncates
<1>4. w <= sum
  <2>1. PICK f : Sums(f, N, Rate) /\ sum = f[N]
    BY DEF DivisionInv
  <2>2. N \in Nat /\ \A k \in 1..N : Rate[k] \in 0..Most
    BY RatesInBounds DEF DivisionInv
  <2>3. Rate[l] <= f[N]
    BY <1>1, <2>1, <2>2, MostType, SumHasEach
  <2>4. Rate[l] = w
    BY <1>1, RatesInBounds DEF DivisionInv
  <2>5. QED
    BY <2>1, <2>3, <2>4
<1>5. R * w <= R * sum /\ R * w \in Nat /\ R * sum \in Nat
  <2>1. w * R <= sum * R
    BY <1>1, <1>4, Larger
  <2>2. w * R = R * w /\ sum * R = R * sum
    BY <1>1, Products
  <2>3. QED
    BY <1>1, <2>1, <2>2
<1>6. Truncated(R, R * sum, sum)
  BY <1>1, <1>5 DEF Truncated
<1>7. Share[l] <= R
  BY <1>1, <1>3, <1>5, <1>6, TruncatedMonotonic
<1>8. QED
  BY <1>1, <1>3, <1>7 DEF Truncated

\* Where no input changes, neither does what is computed from it.
LEMMA SameInput ==
  ASSUME B!input' = B!input
  PROVE  Rate' = Rate /\ settings' = settings /\ active' = active /\ scale' = scale
         /\ \A l : RateOf(l)' = RateOf(l)
<1>1. settings' = settings /\ active' = active /\ scale' = scale
  BY DEF B!input
<1>2. \A l : B!AreaOf(l)' = B!AreaOf(l)
  BY <1>1 DEF B!AreaOf
<1>3. \A l : RateOf(l)' = RateOf(l)
  BY <1>2 DEF RateOf
<1>4. Rate' = Rate
  BY <1>1, <1>3 DEF Rate
<1>5. QED
  BY <1>1, <1>3, <1>4

LEMMA DivisionInitInv == ASSUME B!Init PROVE DivisionInv
<1>1. N \in Nat /\ N > 0
  BY NAssumption
<1>2. B!TypeOK
  <2>1. \A l \in B!Layers : 0 \in 0..settings.bitrate
    BY InputsInBounds DEF B!Init
  <2>2. bitrate \in [B!Layers -> 0..settings.bitrate]
    BY <2>1 DEF B!Init
  <2>3. 0 \in 0..(N * 5000000) /\ 1 \in 1..(N + 1)
    BY <1>1, SMTT(30)
  <2>4. QED
    BY <2>2, <2>3, SMTT(30) DEF B!Init, B!TypeOK
<1>3. PICK f : Sums(f, N, Rate)
  BY <1>1, SumsExist
<1>4. f[0] = 0
  BY <1>1, <1>3, SumsNext
<1>5. sum = 0 /\ step = "sum" /\ at = 1 /\ \A l \in B!Layers : bitrate[l] = 0
  BY DEF B!Init
<1>6. sum = IF step = "sum" THEN f[at - 1] ELSE f[N]
  BY <1>4, <1>5
<1>7. QED
  BY <1>2, <1>3, <1>5, <1>6 DEF DivisionInv

LEMMA AddUpInv == ASSUME DivisionInv, B!AddUp PROVE DivisionInv'
<1> PICK f : Sums(f, N, Rate) /\ sum = f[at - 1]
  BY DEF DivisionInv, B!AddUp
<1>1. /\ N \in Nat /\ at \in 1..N /\ step = "sum" /\ step' = "sum" /\ at' = at + 1
      /\ sum' = (IF at \in active THEN sum + RateOf(at) ELSE sum)
      /\ B!input' = B!input /\ bitrate' = bitrate
  BY NAssumption, SMTT(30) DEF DivisionInv, B!TypeOK, B!AddUp, RateOf
<1>2. \A k \in 1..N : Rate[k] \in 0..Most
  BY RatesInBounds DEF DivisionInv
<1>3. Rate[at] = IF at \in active THEN RateOf(at) ELSE 0
  BY <1>1, RatesInBounds DEF DivisionInv
<1>4. f[at] = f[at - 1] + Rate[at]
  BY <1>1, SumsNext
<1>5. at \in 0..N /\ at - 1 \in 0..N /\ Most \in Nat
  BY <1>1, MostType
<1>6. f[at] \in Nat /\ f[at] <= at * Most /\ f[at - 1] \in Nat
  BY <1>1, <1>2, <1>5, SumsBounded
<1>7. sum' = f[at]
  BY <1>1, <1>3, <1>4, <1>6
<1>8. sum' \in 0..(N * 5000000)
  BY <1>1, <1>6, <1>7, SMTT(30) DEF Most
<1>9. B!TypeOK'
  BY <1>1, <1>8, SameInput, SMTT(30) DEF DivisionInv, B!TypeOK
<1>10. Rate' = Rate
  BY <1>1, SameInput
<1>11. (Sums(f, N, Rate) /\ sum = IF step = "sum" THEN f[at - 1] ELSE f[N])'
  <2>1. at' - 1 = at
    BY <1>1
  <2>2. QED
    BY <1>1, <1>7, <1>10, <2>1
<1>12. QED
  BY <1>1, <1>9, <1>11 DEF DivisionInv

\* The second loop does not change what the first one has found.
LEMMA SameSum ==
  ASSUME DivisionInv, step # "sum" \/ at = N + 1, step' # "sum", B!input' = B!input, sum' = sum
  PROVE  /\ (\E f : Sums(f, N, Rate) /\ sum = IF step = "sum" THEN f[at - 1] ELSE f[N])'
         /\ \A l \in B!Layers : Share'[l] = Share[l]
<1>1. PICK f : Sums(f, N, Rate) /\ sum = f[N]
  <2>1. PICK f : Sums(f, N, Rate) /\ sum = IF step = "sum" THEN f[at - 1] ELSE f[N]
    BY DEF DivisionInv
  <2>2. step = "sum" => at - 1 = N
    BY NAssumption
  <2>3. sum = f[N]
    BY <2>1, <2>2
  <2>4. QED
    BY <2>1, <2>3
<1>2. Rate' = Rate
  BY SameInput
<1>3. Share' = Share
  BY SameInput DEF Share
<1>4. QED
  BY <1>1, <1>2, <1>3

LEMMA AddedUpInv == ASSUME DivisionInv, B!AddedUp PROVE DivisionInv'
<1>1. /\ step = "sum" /\ at = N + 1 /\ step' = "divide" /\ at' = 1 /\ B!input' = B!input
      /\ sum' = sum /\ bitrate' = bitrate
  BY DEF B!AddedUp
<1>2. (\E f : Sums(f, N, Rate) /\ sum = IF step = "sum" THEN f[at - 1] ELSE f[N])'
  BY <1>1, SameSum
<1>3. B!TypeOK'
  <2>1. 1 \in 1..(N + 1)
    BY NAssumption
  <2>2. QED
    BY <1>1, <2>1, SameInput, SMTT(30) DEF DivisionInv, B!TypeOK
<1>4. \A l \in B!Layers : ~ l < 1
  BY DEF B!Layers
<1>5. active' \subseteq B!Layers
  BY <1>3, SMTT(30) DEF B!TypeOK
<1>6. QED
  BY <1>1, <1>2, <1>3, <1>4, <1>5 DEF DivisionInv

LEMMA SkipInv == ASSUME DivisionInv, B!Skip PROVE DivisionInv'
<1>1. /\ step = "divide" /\ step' = "divide" /\ at \in 1..N /\ at \notin active
      /\ at' = at + 1 /\ B!input' = B!input /\ sum' = sum /\ bitrate' = bitrate
  BY NAssumption, SMTT(30) DEF DivisionInv, B!TypeOK, B!Skip
<1>2. /\ (\E f : Sums(f, N, Rate) /\ sum = IF step = "sum" THEN f[at - 1] ELSE f[N])'
      /\ \A l \in B!Layers : Share'[l] = Share[l]
  BY <1>1, SameSum
<1>3. B!TypeOK' /\ active' = active /\ active \subseteq 1..N
  <2>1. at' \in 1..(N + 1)
    BY <1>1, NAssumption
  <2>2. settings' = settings /\ active' = active /\ scale' = scale
    BY <1>1, SameInput
  <2>3. B!TypeOK'
    BY <1>1, <2>1, <2>2, SMTT(30) DEF DivisionInv, B!TypeOK
  <2>4. QED
    BY <2>2, <2>3, RatesInBounds DEF DivisionInv
<1>4. ASSUME NEW l \in 1..N PROVE bitrate'[l] = IF l < at' THEN Share'[l] ELSE 0
  <2>1. bitrate[l] = IF l < at THEN Share[l] ELSE 0
    BY <1>1 DEF DivisionInv, B!Layers
  <2>2. l \in B!Layers
    BY DEF B!Layers
  <2>3. CASE l = at
    <3>1. Share[l] = 0
      BY <1>1, <2>2, <2>3 DEF Share
    <3>2. QED
      BY <1>1, <1>2, <2>1, <2>2, <2>3, <3>1
  <2>4. CASE l # at
    <3>1. l < at + 1 <=> l < at
      BY <1>1, <2>4
    <3>2. QED
      BY <1>1, <1>2, <2>1, <2>2, <3>1
  <2>5. QED
    BY <2>3, <2>4
<1>5. ASSUME NEW l \in active', l < at' PROVE sum' # 0
  <2>1. l \in active /\ l < at
    BY <1>1, <1>3, <1>5
  <2>2. QED
    BY <1>1, <2>1 DEF DivisionInv
<1>6. QED
  BY <1>1, <1>2, <1>3, <1>4, <1>5 DEF DivisionInv, B!Layers

LEMMA DivideInv == ASSUME DivisionInv, B!Divide PROVE DivisionInv'
<1>1. /\ step = "divide" /\ step' = "divide" /\ at \in 1..N /\ at \in active /\ sum # 0
      /\ at' = at + 1 /\ B!input' = B!input /\ sum' = sum
      /\ bitrate' = [bitrate EXCEPT ![at] = B!MulDiv(settings.bitrate, RateOf(at), sum)]
      /\ bitrate \in [1..N -> 0..settings.bitrate]
  BY NAssumption, SMTT(30) DEF DivisionInv, B!TypeOK, B!Layers, B!Divide, RateOf
<1>2. /\ (\E f : Sums(f, N, Rate) /\ sum = IF step = "sum" THEN f[at - 1] ELSE f[N])'
      /\ \A l \in B!Layers : Share'[l] = Share[l]
  BY <1>1, SameSum
<1>3. Share[at] \in 0..settings.bitrate
  BY <1>1, ShareTruncates
<1>4. Share[at] = B!MulDiv(settings.bitrate, RateOf(at), sum)
  BY <1>1 DEF Share, B!Layers
<1>5. bitrate' = [bitrate EXCEPT ![at] = Share[at]]
  BY <1>1, <1>4
<1>6. bitrate' \in [1..N -> 0..settings.bitrate]
  BY <1>1, <1>3, <1>5
<1>7. B!TypeOK' /\ active' = active /\ active \subseteq 1..N
  <2>1. at' \in 1..(N + 1)
    BY <1>1, NAssumption
  <2>2. settings' = settings /\ active' = active /\ scale' = scale
    BY <1>1, SameInput
  <2>3. bitrate' \in [B!Layers -> 0..settings.bitrate]
    BY <1>6 DEF B!Layers
  <2>4. B!TypeOK'
    BY <1>1, <2>1, <2>2, <2>3, SMTT(30) DEF DivisionInv, B!TypeOK
  <2>5. QED
    BY <2>2, <2>4, RatesInBounds DEF DivisionInv
<1>8. ASSUME NEW l \in 1..N PROVE bitrate'[l] = IF l < at' THEN Share'[l] ELSE 0
  <2>1. bitrate[l] = IF l < at THEN Share[l] ELSE 0
    BY <1>1 DEF DivisionInv, B!Layers
  <2>2. l \in B!Layers
    BY DEF B!Layers
  <2>3. CASE l = at
    <3>1. bitrate'[l] = Share[l] /\ l < at'
      BY <1>1, <1>5, <2>3
    <3>2. QED
      BY <1>2, <2>2, <3>1
  <2>4. CASE l # at
    <3>1. (l < at + 1 <=> l < at) /\ bitrate'[l] = bitrate[l]
      BY <1>1, <1>5, <2>4
    <3>2. QED
      BY <1>1, <1>2, <2>1, <2>2, <3>1
  <2>5. QED
    BY <2>3, <2>4
<1>9. QED
  BY <1>1, <1>2, <1>7, <1>8 DEF DivisionInv, B!Layers

LEMMA DivideByZeroInv == ASSUME DivisionInv, B!DivideByZero PROVE DivisionInv'
<1>1. /\ step = "divide" /\ step' = "undefined" /\ sum = 0
      /\ B!input' = B!input /\ at' = at /\ sum' = sum /\ bitrate' = bitrate
  BY DEF B!DivideByZero
<1>2. (\E f : Sums(f, N, Rate) /\ sum = IF step = "sum" THEN f[at - 1] ELSE f[N])'
  BY <1>1, SameSum
<1>3. B!TypeOK'
  BY <1>1, SameInput, SMTT(30) DEF DivisionInv, B!TypeOK
<1>4. QED
  BY <1>1, <1>2, <1>3 DEF DivisionInv

LEMMA DividedInv == ASSUME DivisionInv, B!Divided PROVE DivisionInv'
<1>1. /\ step = "divide" /\ step' = "done" /\ at = N + 1
      /\ B!input' = B!input /\ at' = at /\ sum' = sum /\ bitrate' = bitrate
  BY DEF B!Divided
<1>2. /\ (\E f : Sums(f, N, Rate) /\ sum = IF step = "sum" THEN f[at - 1] ELSE f[N])'
      /\ \A l \in B!Layers : Share'[l] = Share[l]
  BY <1>1, SameSum
<1>3. B!TypeOK' /\ active' = active
  BY <1>1, SameInput, SMTT(30) DEF DivisionInv, B!TypeOK
<1>4. \A l \in B!Layers : bitrate'[l] = IF l < at' THEN Share'[l] ELSE 0
  BY <1>1, <1>2 DEF DivisionInv
<1>5. \A l \in active' : l < at' => sum' # 0
  BY <1>1, <1>3 DEF DivisionInv
<1>6. QED
  BY <1>1, <1>2, <1>3, <1>4, <1>5 DEF DivisionInv

LEMMA DivisionStep == ASSUME DivisionInv, B!Next PROVE DivisionInv'
  BY AddUpInv, AddedUpInv, SkipInv, DivideInv, DivideByZeroInv, DividedInv DEF B!Next

-----------------------------------------------------------------------------
(* What the division comes to.                                             *)

LEMMA LargerMore == ASSUME DivisionInv PROVE B!LargerGetsMore
<1> SUFFICES ASSUME step = "done" PROVE B!LargerGetsMore
  BY DEF B!LargerGetsMore
<1>1. N \in Nat /\ active \subseteq 1..N /\ settings.bitrate \in Nat
  BY RatesInBounds DEF DivisionInv
<1>2. ASSUME NEW l \in 1..N PROVE bitrate[l] = Share[l] /\ (l \in active => sum # 0)
  <2>1. l < at
    BY <1>1 DEF DivisionInv
  <2>2. QED
    BY <2>1 DEF DivisionInv, B!Layers
<1>3. ASSUME NEW l \in B!Layers \ active PROVE bitrate[l] = 0
  BY <1>2, <1>3 DEF Share, B!Layers
<1>4. ASSUME NEW k \in active, NEW l \in active, B!AreaOf(k) <= B!AreaOf(l)
      PROVE  bitrate[k] <= bitrate[l]
  <2> PICK R : R = settings.bitrate
    OBVIOUS
  <2> PICK v : v = RateOf(k)
    OBVIOUS
  <2> PICK w : w = RateOf(l)
    OBVIOUS
  <2>1. sum \in Nat \ {0} /\ R \in Nat
    BY <1>1, <1>2, SMTT(30) DEF DivisionInv, B!TypeOK
  <2>2. B!AreaOf(k) \in Nat /\ B!AreaOf(l) \in Nat
    BY <1>1, RatesInBounds DEF DivisionInv
  <2>3. v <= w /\ v \in Nat /\ w \in Nat
    BY <1>1, <1>4, <2>2, RateGrows, RatesInBounds, MostType DEF DivisionInv, RateOf
  <2>4. R * v <= R * w /\ R * v \in Nat /\ R * w \in Nat
    <3>1. v * R <= w * R
      BY <2>1, <2>3, Larger
    <3>2. v * R = R * v /\ w * R = R * w
      BY <2>1, <2>3, Products
    <3>3. QED
      BY <2>1, <2>3, <3>1, <3>2
  <2>5. Truncated(Share[k], R * v, sum) /\ Truncated(Share[l], R * w, sum)
    BY <2>1, ShareTruncates
  <2>6. Share[k] <= Share[l]
    BY <2>1, <2>4, <2>5, TruncatedMonotonic
  <2>7. QED
    BY <1>1, <1>2, <2>6
<1>5. QED
  BY <1>3, <1>4 DEF B!LargerGetsMore

LEMMA Tiny == ASSUME DivisionInv PROVE B!UndefinedOnlyWhenTiny
<1> SUFFICES ASSUME step = "undefined", NEW l \in active PROVE B!AreaOf(l) = 0
  BY DEF B!UndefinedOnlyWhenTiny
<1>1. /\ N \in Nat /\ l \in 1..N /\ B!AreaOf(l) \in Nat /\ Rate[l] = RateOf(l)
      /\ \A k \in 1..N : Rate[k] \in 0..Most
  BY RatesInBounds DEF DivisionInv
<1>2. PICK f : Sums(f, N, Rate) /\ 0 = f[N]
  BY DEF DivisionInv
<1>3. Rate[l] <= 0 /\ Rate[l] \in Nat
  BY <1>1, <1>2, MostType, SumHasEach
<1>4. ~ B!GetMaxBitrate(B!AreaOf(l)) > 0
  BY <1>1, <1>3 DEF RateOf
<1>5. QED
  BY <1>1, <1>4, PixelHasRate

\* The instance has its own copy of the operator.
LEMMA SameCardinality == ASSUME NEW S PROVE B!Cardinality(S) = Cardinality(S)
  BY Zenon DEF B!Cardinality, Cardinality

\* The active layers up to one of them, counted.
LEMMA CountUpTo ==
  ASSUME B!TypeOK, NEW k \in 1..N
  PROVE  /\ Cardinality(active \cap (1..0)) = 0
         /\ Cardinality(active \cap (1..(k - 1))) \in Nat
         /\ Cardinality(active \cap (1..k)) =
              Cardinality(active \cap (1..(k - 1))) + IF k \in active THEN 1 ELSE 0
<1>1. N \in Nat /\ k \in Int /\ k >= 1
  BY NAssumption
<1>2. active \cap (1..0) = {}
  OBVIOUS
<1> PICK before : before = active \cap (1..(k - 1))
  OBVIOUS
<1>3. IsFiniteSet(before) /\ Cardinality(before) \in Nat
  <2>1. IsFiniteSet(1..(k - 1))
    BY <1>1, FS_Interval
  <2>2. before \in SUBSET (1..(k - 1))
    OBVIOUS
  <2>3. IsFiniteSet(before)
    BY <2>1, <2>2, FS_Subset
  <2>4. QED
    BY <2>3, FS_CardinalityType
<1>4. k \notin before
  BY <1>1
<1>5. CASE k \in active
  <2>1. active \cap (1..k) = before \cup {k}
    BY <1>1, <1>5
  <2>2. Cardinality(active \cap (1..k)) = Cardinality(before) + 1
    BY <1>3, <1>4, <2>1, FS_AddElement
  <2>3. QED
    BY <1>2, <1>3, <1>5, <2>2, FS_EmptySet
<1>6. CASE k \notin active
  <2>1. active \cap (1..k) = before
    BY <1>1, <1>6
  <2>2. QED
    BY <1>2, <1>3, <1>6, <2>1, FS_EmptySet
<1>7. QED
  BY <1>5, <1>6

\* What is given up to a layer is its part of the bit rate, but for a bit/s for each.
PartGiven(f, k) ==
  /\ B!GivenTo[k] \in Nat /\ f[k] \in Nat
  /\ B!GivenTo[k] * sum <= settings.bitrate * f[k]
  /\ settings.bitrate * f[k] <=
       B!GivenTo[k] * sum + Cardinality(active \cap (1..k)) * sum

LEMMA PartMore ==
  ASSUME DivisionInv, step = "done", NEW f, Sums(f, N, Rate), NEW k \in 1..N,
         PartGiven(f, k - 1)
  PROVE  PartGiven(f, k)
<1> PICK R : R = settings.bitrate
  OBVIOUS
<1> PICK g : g = B!GivenTo[k - 1]
  OBVIOUS
<1> PICK s : s = f[k - 1]
  OBVIOUS
<1> PICK c : c = Cardinality(active \cap (1..(k - 1)))
  OBVIOUS
<1>1. R \in Nat /\ N \in Nat /\ sum \in Nat
  BY RatesInBounds, SMTT(30) DEF DivisionInv, B!TypeOK
<1>2. c \in Nat
  BY CountUpTo DEF DivisionInv
<1>3. g \in Nat /\ s \in Nat /\ g * sum <= R * s /\ R * s <= g * sum + c * sum
  BY DEF PartGiven
<1>4. B!GivenTo[k] = g + bitrate[k] /\ f[k] = s + Rate[k]
  BY <1>1, GivenSums, SumsNext
<1>5. bitrate[k] = Share[k] /\ (k \in active => sum # 0)
  <2>1. k < at
    BY <1>1 DEF DivisionInv
  <2>2. QED
    BY <2>1 DEF DivisionInv, B!Layers
<1>6. CASE k \in active
  <2> PICK w : w = RateOf(k)
    OBVIOUS
  <2> PICK q : q = Share[k]
    OBVIOUS
  <2>1. Rate[k] = w /\ w \in Nat
    BY <1>6, RatesInBounds, MostType DEF DivisionInv
  <2>2. q \in Nat /\ q * sum <= R * w /\ R * w < q * sum + sum
    BY <1>5, <1>6, ShareTruncates DEF Truncated
  <2>3. B!GivenTo[k] = g + q /\ f[k] = s + w
    BY <1>4, <1>5, <2>1
  <2>4. Cardinality(active \cap (1..k)) = c + 1
    BY <1>6, CountUpTo DEF DivisionInv
  <2>5. /\ (g + q) * sum = g * sum + q * sum /\ (c + 1) * sum = c * sum + sum
        /\ R * (s + w) = R * s + R * w
        /\ g * sum \in Int /\ q * sum \in Int /\ c * sum \in Int
        /\ R * s \in Int /\ R * w \in Int
    <3>1. /\ g \in Int /\ q \in Int /\ sum \in Int /\ c \in Int /\ 1 \in Int
          /\ R \in Int /\ s \in Int /\ w \in Int /\ s + w \in Int
      BY <1>1, <1>2, <1>3, <2>1, <2>2
    <3>2. (g + q) * sum = g * sum + q * sum /\ g * sum \in Int /\ q * sum \in Int
      BY <3>1, Products
    <3>3. (c + 1) * sum = c * sum + 1 * sum /\ 1 * sum = sum /\ c * sum \in Int
      BY <3>1, Products
    <3>4. /\ (s + w) * R = s * R + w * R /\ R * (s + w) = (s + w) * R
          /\ R * s = s * R /\ R * w = w * R /\ s * R \in Int /\ w * R \in Int
      BY <3>1, Products
    <3>5. QED
      BY <3>2, <3>3, <3>4
  <2>6. /\ (g + q) * sum <= R * (s + w)
        /\ R * (s + w) <= (g + q) * sum + (c + 1) * sum
    <3> PICK gs, qs, cs, Rs, Rw : /\ gs = g * sum /\ qs = q * sum /\ cs = c * sum
                                  /\ Rs = R * s /\ Rw = R * w
      OBVIOUS
    <3>1. gs \in Int /\ qs \in Int /\ cs \in Int /\ Rs \in Int /\ Rw \in Int
      BY <2>5
    <3>2. gs <= Rs /\ Rs <= gs + cs /\ qs <= Rw /\ Rw < qs + sum
      BY <1>3, <2>2
    <3>3. gs + qs <= Rs + Rw /\ Rs + Rw <= gs + qs + (cs + sum)
      BY <1>1, <3>1, <3>2
    <3>4. (g + q) * sum = gs + qs /\ (c + 1) * sum = cs + sum /\ R * (s + w) = Rs + Rw
      BY <2>5
    <3>5. QED
      BY <3>3, <3>4
  <2>7. g + q \in Nat /\ s + w \in Nat
    BY <1>3, <2>1, <2>2
  <2>8. QED
    BY <2>3, <2>4, <2>6, <2>7 DEF PartGiven
<1>7. CASE k \notin active
  <2>1. Rate[k] = 0 /\ Share[k] = 0
    BY <1>7, RatesInBounds DEF DivisionInv, Share, B!Layers
  <2>2. B!GivenTo[k] = g /\ f[k] = s
    BY <1>3, <1>4, <1>5, <2>1
  <2>3. Cardinality(active \cap (1..k)) = c
    BY <1>2, <1>7, CountUpTo DEF DivisionInv
  <2>4. QED
    BY <1>3, <2>2, <2>3 DEF PartGiven
<1>8. QED
  BY <1>6, <1>7

LEMMA Shared == ASSUME DivisionInv PROVE B!RateIsShared
<1> SUFFICES ASSUME step = "done", active # {} PROVE
       /\ B!GivenTo[N] <= settings.bitrate
       /\ settings.bitrate - B!GivenTo[N] <= Cardinality(active)
  BY SameCardinality DEF B!RateIsShared
<1>1. PICK f : Sums(f, N, Rate) /\ sum = f[N]
  BY DEF DivisionInv
<1>2. N \in Nat /\ N > 0 /\ active \subseteq 1..N /\ settings.bitrate \in Nat
  BY RatesInBounds DEF DivisionInv
<1>3. sum \in Nat \ {0}
  <2>1. at = N + 1
    BY DEF DivisionInv
  <2>2. PICK l : l \in active
    OBVIOUS
  <2>3. l < at
    BY <1>2, <2>1, <2>2
  <2>4. sum # 0
    BY <2>2, <2>3 DEF DivisionInv
  <2>5. QED
    BY <2>4, SMTT(30) DEF DivisionInv, B!TypeOK
<1> DEFINE T == {k \in Nat : PartGiven(f, k)}
<1>4. PartGiven(f, 0)
  <2>1. B!GivenTo[0] = 0 /\ f[0] = 0
    BY <1>1, <1>2, GivenSums, SumsNext
  <2>2. Cardinality(active \cap (1..0)) = 0
    <3>1. 1 \in 1..N
      BY <1>2
    <3>2. QED
      BY <3>1, CountUpTo DEF DivisionInv
  <2>3. 0 * sum = 0 /\ settings.bitrate * 0 = 0
    BY <1>2, <1>3
  <2>4. QED
    BY <2>1, <2>2, <2>3 DEF PartGiven
<1>5. ASSUME NEW k \in 1..N, k - 1 \in T PROVE k \in T
  BY <1>1, <1>5, PartMore
<1>6. \A k \in 0..N : k \in T
  <2>1. 0 \in T
    BY <1>4
  <2> HIDE DEF T
  <2>2. QED
    BY <1>2, <1>5, <2>1, UpTo
<1>7. PartGiven(f, N)
  BY <1>2, <1>6
<1> PICK R : R = settings.bitrate
  OBVIOUS
<1> PICK g : g = B!GivenTo[N]
  OBVIOUS
<1> PICK c : c = Cardinality(active)
  OBVIOUS
<1>8. active \cap (1..N) = active
  BY <1>2
<1>9. c \in Nat
  <2>1. IsFiniteSet(1..N)
    BY <1>2, FS_Interval
  <2>2. IsFiniteSet(active)
    BY <1>2, <2>1, FS_Subset
  <2>3. QED
    BY <2>2, FS_CardinalityType
<1>10. g \in Nat /\ g * sum <= R * sum /\ R * sum <= g * sum + c * sum
  BY <1>1, <1>7, <1>8 DEF PartGiven
<1>11. g <= R
  BY <1>2, <1>3, <1>10, FactorSmaller
<1>12. R <= g + c
  <2>1. R * sum <= (g + c) * sum
    BY <1>3, <1>9, <1>10, Products
  <2>2. g + c \in Int
    BY <1>9, <1>10
  <2>3. QED
    BY <1>2, <1>3, <2>1, <2>2, FactorSmaller
<1>13. QED
  BY <1>2, <1>9, <1>10, <1>11, <1>12

LEMMA Fair == ASSUME DivisionInv PROVE B!RateIsShared /\ B!LargerGetsMore /\ B!UndefinedOnlyWhenTiny
  BY LargerMore, Shared, Tiny

-----------------------------------------------------------------------------
(* All of them.                                                            *)

\* The invariant of the routine that runs.
RoutinesInv ==
  /\ routine \in {"bitrate", "CopyString", "split_with", "zlib"}
  /\ routine = "bitrate" => DivisionInv
  /\ routine = "CopyString" => CopyInv
  /\ routine = "split_with" => SplitInv
  /\ routine = "zlib" => ZlibInv

LEMMA RoutinesInitInv == ASSUME Init PROVE RoutinesInv
<1>1. CASE routine = "bitrate" /\ B!Init
  BY <1>1, DivisionInitInv DEF RoutinesInv
<1>2. CASE routine = "CopyString" /\ C!Init
  BY <1>2, CopyInitInv DEF RoutinesInv
<1>3. CASE routine = "split_with" /\ P!Init
  BY <1>3, SplitInitInv DEF RoutinesInv
<1>4. CASE routine = "zlib" /\ Z!Init
  BY <1>4, ZlibInitInv DEF RoutinesInv
<1>5. QED
  BY <1>1, <1>2, <1>3, <1>4 DEF Init

LEMMA DividesInv == ASSUME RoutinesInv, Divides PROVE RoutinesInv'
<1>1. routine = "bitrate" /\ routine' = "bitrate" /\ B!Next
  BY DEF Divides
<1>2. DivisionInv'
  BY <1>1, DivisionStep DEF RoutinesInv
<1>3. QED
  BY <1>1, <1>2 DEF RoutinesInv

LEMMA CopiesInv == ASSUME RoutinesInv, Copies PROVE RoutinesInv' /\ C!SizeIsRespected
<1>1. routine = "CopyString" /\ routine' = "CopyString" /\ C!Next
  BY DEF Copies
<1>2. CopyInv' /\ C!SizeIsRespected
  BY <1>1, CopyNext, CopyStep DEF RoutinesInv
<1>3. QED
  BY <1>1, <1>2 DEF RoutinesInv

LEMMA SplitsInv == ASSUME RoutinesInv, Splits PROVE RoutinesInv'
<1>1. routine = "split_with" /\ routine' = "split_with" /\ P!Next
  BY DEF Splits
<1>2. SplitInv'
  BY <1>1, SplitStep DEF RoutinesInv
<1>3. QED
  BY <1>1, <1>2 DEF RoutinesInv

LEMMA AllocatesInv == ASSUME RoutinesInv, Allocates PROVE RoutinesInv'
<1>1. routine = "zlib" /\ routine' = "zlib" /\ Z!Next
  BY DEF Allocates
<1>2. ZlibInv'
  BY <1>1, ZlibNext DEF RoutinesInv
<1>3. QED
  BY <1>1, <1>2 DEF RoutinesInv

\* What none of its variables changes stays.
LEMMA DivisionRest == ASSUME DivisionInv, UNCHANGED division PROVE DivisionInv'
<1>1. /\ settings' = settings /\ active' = active /\ scale' = scale /\ B!input' = B!input
      /\ step' = step /\ at' = at /\ sum' = sum /\ bitrate' = bitrate
  BY DEF division, B!input
<1>2. Rate' = Rate /\ Share' = Share
  BY <1>1, SameInput DEF Share
<1>3. B!TypeOK'
  BY <1>1, SMTT(30) DEF DivisionInv, B!TypeOK
<1>4. QED
  BY <1>1, <1>2, <1>3 DEF DivisionInv

LEMMA CopyRest == ASSUME CopyInv, UNCHANGED copy PROVE CopyInv'
  BY Zenon DEF copy, CopyInv, C!CopyTypeOK, C!ReadableAnyway, C!Terminated, C!StringRead

LEMMA SplitRest == ASSUME SplitInv, UNCHANGED split PROVE SplitInv'
<1>1. /\ str' = str /\ token' = token /\ sp' = sp /\ lines' = lines /\ splitting' = splitting
  BY DEF split
<1>2. \A s : P!Matches(s, 1)' = P!Matches(s, 1)
  BY <1>1 DEF P!Matches
<1>3. P!Joined' = P!Joined
  BY <1>1 DEF P!Joined
<1>4. P!SplitTypeOK' /\ P!PiecesRejoin'
  BY <1>1, <1>2, <1>3 DEF SplitInv, P!SplitTypeOK, P!PiecesRejoin
<1>5. QED
  BY <1>1, <1>2, <1>3, <1>4 DEF SplitInv

LEMMA ZlibRest == ASSUME ZlibInv, UNCHANGED zlib PROVE ZlibInv'
  BY DEF zlib, ZlibInv

LEMMA RoutinesStep == ASSUME RoutinesInv, [Next]_vars PROVE RoutinesInv'
<1>1. CASE Divides
  BY <1>1, DividesInv
<1>2. CASE Copies
  BY <1>2, CopiesInv
<1>3. CASE Splits
  BY <1>3, SplitsInv
<1>4. CASE Allocates
  BY <1>4, AllocatesInv
<1>5. CASE UNCHANGED vars
  <2>1. /\ UNCHANGED routine /\ UNCHANGED division /\ UNCHANGED copy
        /\ UNCHANGED split /\ UNCHANGED zlib
    BY <1>5 DEF vars
  <2>2. QED
    BY <2>1, DivisionRest, CopyRest, SplitRest, ZlibRest DEF RoutinesInv
<1>6. QED
  BY <1>1, <1>2, <1>3, <1>4, <1>5 DEF Next

\* Every routine keeps its invariant, for all constants the assumptions allow: what
\* has been copied, split off, given out or allocated so far is right.
THEOREM Invariance == Spec => []RoutinesInv
<1>1. Init => RoutinesInv
  BY RoutinesInitInv
<1>2. RoutinesInv /\ [Next]_vars => RoutinesInv'
  BY RoutinesStep
<1>3. QED
  BY <1>1, <1>2, PTL DEF Spec

\* The layers share the bit rate of the settings, but for less than a bit/s each, a
\* larger layer gets no less, and nothing is divided by zero unless every active
\* layer has no pixels (SimulcastEncoderAdapter::InitEncode).
THEOREM DivisionInvariance == Spec => []DivisionIsFair
<1>1. RoutinesInv => DivisionIsFair
  BY Fair DEF RoutinesInv, DivisionIsFair
<1>2. QED
  BY <1>1, Invariance, PTL

\* Every string of the C API can be read without looking at the error, the pieces of
\* split_with make up the string again, and zlib's output has room for what it takes
\* and less than double of it (CopyString, split_with, ZlibHelper).
THEOREM ResultsInvariance == Spec => []ResultsAreUsable
<1>1. RoutinesInv => ResultsAreUsable
  <2> SUFFICES ASSUME RoutinesInv PROVE ResultsAreUsable
    OBVIOUS
  <2>1. CASE routine = "bitrate"
    <3>1. B!TypeOK
      BY <2>1 DEF RoutinesInv, DivisionInv
    <3>2. TypeOK
      BY <2>1, <3>1 DEF TypeOK
    <3>3. QED
      BY <2>1, <3>2 DEF ResultsAreUsable
  <2>2. CASE routine = "CopyString"
    <3>1. C!CopyTypeOK /\ C!ReadableAnyway
      BY <2>2 DEF RoutinesInv, CopyInv
    <3>2. TypeOK
      BY <2>2, <3>1 DEF TypeOK
    <3>3. QED
      BY <2>2, <3>1, <3>2 DEF ResultsAreUsable
  <2>3. CASE routine = "split_with"
    <3>1. P!SplitTypeOK /\ P!PiecesRejoin
      BY <2>3 DEF RoutinesInv, SplitInv
    <3>2. TypeOK
      BY <2>3, <3>1 DEF TypeOK
    <3>3. QED
      BY <2>3, <3>1, <3>2 DEF ResultsAreUsable
  <2>4. CASE routine = "zlib"
    <3>1. capacity \in Nat /\ needed \in Needs /\ Z!RoomIsTight
      BY <2>4 DEF RoutinesInv, ZlibInv, Z!RoomIsTight
    <3>2. TypeOK
      BY <2>4, <3>1 DEF TypeOK
    <3>3. QED
      BY <2>4, <3>1, <3>2 DEF ResultsAreUsable
  <2>5. QED
    BY <2>1, <2>2, <2>3, <2>4 DEF RoutinesInv
<1>2. QED
  BY <1>1, Invariance, PTL

\* No getter writes behind the size it is given, and one that is given the size any
\* call before has reported succeeds with the whole string (sorac.h, lines 32 to 35).
THEOREM SizeSuffices == Spec => ReportedSizeSuffices
<1>1. RoutinesInv /\ [Next]_vars => [routine = "CopyString" => C!SizeIsRespected]_vars
  <2> SUFFICES ASSUME RoutinesInv, Next, routine = "CopyString" PROVE C!SizeIsRespected
    OBVIOUS
  <2>1. Copies
    BY DEF Next, Divides, Splits, Allocates
  <2>2. QED
    BY <2>1, CopiesInv
<1>2. QED
  BY <1>1, Invariance, PTL DEF Spec, ReportedSizeSuffices
=============================================================================
