--------------------------- MODULE OpusEncoderProofs ---------------------------
(***************************************************************************)
(* Proofs about OpusEncoder, for every size of frames and packets, every    *)
(* delay and every clock: the audio is whole and in order, the times of the  *)
(* packets stay within a frame of it, packets are sent at their age and not  *)
(* much later, and only a failed encoding stalls the encoder.               *)
(***************************************************************************)
EXTENDS OpusEncoder, SequenceTheorems, WellFoundedInduction, TLAPS

In(t, s)     == \E i \in 1..Len(s) : s[i] = t
Sorted(s)    == \A i, j \in 1..Len(s) : i < j => s[i] < s[j]
Before(s, u) == \A i \in 1..Len(s), j \in 1..Len(u) : s[i] < u[j]

\* A call that is not in its loop has put all of its frame into the buffer.
NoneLeft == step \in {"idle", "drain"} => left = 0

\* What the next call can rely on: less than a packet in the buffer, unless an encoding
\* failed; then there is never exactly one.
PcmSize ==
  /\ failed => Len(pcm) >= PacketSize /\ step # "full"
  /\ ~ failed => IF step = "full" THEN Len(pcm) = PacketSize ELSE Len(pcm) < PacketSize

\* The packets in made and the samples in buf are in order, ...
InOrder(made, buf) ==
  /\ \A k \in 1..Len(made) : Sorted(made[k].samples) /\ Before(made[k].samples, buf)
  /\ \A j, k \in 1..Len(made) : j < k => Before(made[j].samples, made[k].samples)
  /\ Sorted(buf)

\* ... and have the n samples recorded first, without those in out.
Covers(made, buf, n, out) ==
  /\ \A t \in Times :
       In(t, buf) \/ (\E k \in 1..Len(made) : In(t, made[k].samples)) <=> t <= n /\ t \notin out
  /\ \A t \in out : t <= n

\* Samples that increase are at least as far apart as their places.
Spread(s) == Len(s) > 0 => s[1] + Len(s) <= s[Len(s)] + 1

\* A full buffer ends with the sample that was put into it last.
PcmEnds ==
  /\ Spread(pcm)
  /\ step = "full" => pcm[Len(pcm)] = recorded - left

\* The timestamp has come at least to the end of the frame, and is ahead of the samples
\* in the buffer by the frame and by what an earlier one left there.
Stamped ==
  step \in {"push", "full"} /\ ~ failed =>
    /\ recorded <= stamp
    /\ stamp + Len(pcm) < (recorded - left) + MaxFrame + PacketSize

\* The time of a packet is later than its last sample, by less than a frame.
TimedPacket(p) ==
  /\ Len(p.samples) = PacketSize /\ Spread(p.samples)
  /\ p.samples[PacketSize] <= p.time /\ p.time < p.samples[PacketSize] + MaxFrame

Timed(made) == \A k \in 1..Len(made) : TimedPacket(made[k])

Inv ==
  /\ TypeOK /\ NoneLeft /\ PcmSize
  /\ InOrder(Made, pcm) /\ Covers(Made, pcm, recorded - left, dropped)
  /\ PcmEnds /\ Stamped /\ Timed(Made)

-----------------------------------------------------------------------------
(* Facts about sequences of samples and packets.                           *)

LEMMA LeastOf ==
  ASSUME NEW T, T \subseteq Nat, T # {}
  PROVE  \E m \in T : \A n \in T : m <= n
<1>1. PICK R : R = {p \in Nat \X Nat : p[1] < p[2]}
  OBVIOUS
<1>2. IsWellFoundedOn(R, Nat)
  BY <1>1, NatLessThanWellFounded DEF OpToRel
<1>3. PICK m \in T : \A n \in T : ~ (<<n, m>> \in R)
  BY <1>2, WFMin
<1>4. ASSUME NEW n \in T PROVE m <= n
  <2>1. n \in Nat /\ m \in Nat
    OBVIOUS
  <2>2. <<n, m>> \in Nat \X Nat /\ <<n, m>>[1] = n /\ <<n, m>>[2] = m
    BY <2>1
  <2>3. ~ n < m
    BY <1>1, <1>3, <2>2
  <2>4. QED
    BY <2>1, <2>3
<1>5. QED
  BY <1>4

LEMMA Appended ==
  ASSUME NEW S, NEW s \in Seq(S), NEW x \in S
  PROVE  /\ Append(s, x) \in Seq(S)
         /\ Len(s) \in Nat /\ Len(Append(s, x)) = Len(s) + 1
         /\ \A i \in 1..(Len(s) + 1) : Append(s, x)[i] = IF i <= Len(s) THEN s[i] ELSE x
<1>1. Len(s) \in Nat
  BY LenProperties
<1>2. /\ Append(s, x) \in Seq(S) /\ Len(Append(s, x)) = Len(s) + 1
      /\ \A i \in 1..Len(s) : Append(s, x)[i] = s[i]
      /\ Append(s, x)[Len(s) + 1] = x
  BY AppendProperties
<1>3. ASSUME NEW i \in 1..(Len(s) + 1) PROVE i \in 1..Len(s) \/ i = Len(s) + 1
  BY <1>1
<1>4. QED
  BY <1>1, <1>2, <1>3

LEMMA InOrderSample ==
  ASSUME NEW made \in Seq(Packets), NEW buf \in Seq(Times), NEW x \in Times,
         InOrder(made, buf),
         \A i \in 1..Len(buf) : buf[i] < x,
         \A k \in 1..Len(made) : \A i \in 1..Len(made[k].samples) : made[k].samples[i] < x
  PROVE  InOrder(made, Append(buf, x))
<1>1. /\ Len(buf) \in Nat /\ Len(Append(buf, x)) = Len(buf) + 1
      /\ \A i \in 1..(Len(buf) + 1) :
           Append(buf, x)[i] = IF i <= Len(buf) THEN buf[i] ELSE x
  BY Appended
<1>2. PICK b : b = Append(buf, x)
  OBVIOUS
<1>3. Sorted(b)
  <2>1. ASSUME NEW i \in 1..Len(b), NEW j \in 1..Len(b), i < j PROVE b[i] < b[j]
    <3>1. i \in 1..Len(buf) /\ b[i] = buf[i]
      BY <1>1, <1>2, <2>1
    <3>2. CASE j \in 1..Len(buf)
      BY <1>1, <1>2, <2>1, <3>1, <3>2 DEF InOrder, Sorted
    <3>3. CASE j = Len(buf) + 1
      BY <1>1, <1>2, <3>1, <3>3
    <3>4. QED
      BY <1>1, <1>2, <3>2, <3>3
  <2>2. QED
    BY <2>1 DEF Sorted
<1>4. ASSUME NEW k \in 1..Len(made) PROVE Before(made[k].samples, b)
  <2>1. ASSUME NEW i \in 1..Len(made[k].samples), NEW j \in 1..Len(b)
        PROVE  made[k].samples[i] < b[j]
    <3>1. CASE j \in 1..Len(buf)
      BY <1>1, <1>2, <3>1 DEF InOrder, Before
    <3>2. CASE j = Len(buf) + 1
      BY <1>1, <1>2, <3>2
    <3>3. QED
      BY <1>1, <1>2, <3>1, <3>2
  <2>2. QED
    BY <2>1 DEF Before
<1>5. QED
  BY <1>2, <1>3, <1>4 DEF InOrder

LEMMA InOrderPacket ==
  ASSUME NEW made \in Seq(Packets), NEW buf, NEW p \in Packets, p.samples = buf,
         InOrder(made, buf)
  PROVE  InOrder(Append(made, p), <<>>)
<1>1. /\ Len(made) \in Nat /\ Len(Append(made, p)) = Len(made) + 1
      /\ \A k \in 1..(Len(made) + 1) :
           Append(made, p)[k] = IF k <= Len(made) THEN made[k] ELSE p
  BY Appended
<1>2. PICK m : m = Append(made, p)
  OBVIOUS
<1>3. Sorted(<<>>) /\ \A s : Before(s, <<>>)
  BY DEF Sorted, Before
<1>4. ASSUME NEW k \in 1..Len(m) PROVE Sorted(m[k].samples)
  BY <1>1, <1>2 DEF InOrder
<1>5. ASSUME NEW j \in 1..Len(m), NEW k \in 1..Len(m), j < k
      PROVE  Before(m[j].samples, m[k].samples)
  <2>1. j \in 1..Len(made) /\ m[j] = made[j]
    BY <1>1, <1>2, <1>5
  <2>2. CASE k \in 1..Len(made)
    BY <1>1, <1>2, <1>5, <2>1, <2>2 DEF InOrder
  <2>3. CASE k = Len(made) + 1
    BY <1>1, <1>2, <2>1, <2>3 DEF InOrder
  <2>4. QED
    BY <1>1, <1>2, <2>2, <2>3
<1>6. QED
  BY <1>2, <1>3, <1>4, <1>5 DEF InOrder

LEMMA CoversSample ==
  ASSUME NEW made, NEW buf \in Seq(Times), NEW n \in Nat, n + 1 \in Times,
         NEW out \in SUBSET Times,
         Covers(made, buf, n, out)
  PROVE  Covers(made, Append(buf, n + 1), n + 1, out)
<1>1. /\ Len(buf) \in Nat /\ Len(Append(buf, n + 1)) = Len(buf) + 1
      /\ \A i \in 1..(Len(buf) + 1) :
           Append(buf, n + 1)[i] = IF i <= Len(buf) THEN buf[i] ELSE n + 1
  BY Appended
<1>2. PICK b : b = Append(buf, n + 1)
  OBVIOUS
<1>3. ASSUME NEW t PROVE In(t, b) <=> In(t, buf) \/ t = n + 1
  <2>1. ASSUME In(t, buf) PROVE In(t, b)
    <3>1. PICK i \in 1..Len(buf) : buf[i] = t
      BY <2>1 DEF In
    <3>2. i \in 1..Len(b) /\ b[i] = t
      BY <1>1, <1>2, <3>1
    <3>3. QED
      BY <3>2 DEF In
  <2>2. In(n + 1, b)
    <3>1. Len(buf) + 1 \in 1..Len(b) /\ b[Len(buf) + 1] = n + 1
      BY <1>1, <1>2
    <3>2. QED
      BY <3>1 DEF In
  <2>3. ASSUME In(t, b), t # n + 1 PROVE In(t, buf)
    <3>1. PICK i \in 1..Len(b) : b[i] = t
      BY <2>3 DEF In
    <3>2. i \in 1..Len(buf) /\ buf[i] = t
      BY <1>1, <1>2, <2>3, <3>1
    <3>3. QED
      BY <3>2 DEF In
  <2>4. QED
    BY <2>1, <2>2, <2>3
<1>4. \A t \in Times : t \in Nat
  BY BoundsAssumption DEF Times
<1>5. n + 1 \notin out
  BY DEF Covers
<1>6. ASSUME NEW t \in Times
      PROVE  (t <= n + 1 /\ t \notin out) <=> (t <= n /\ t \notin out) \/ t = n + 1
  BY <1>4, <1>5
<1>7. ASSUME NEW t \in Times
      PROVE  In(t, b) \/ (\E k \in 1..Len(made) : In(t, made[k].samples))
               <=> t <= n + 1 /\ t \notin out
  BY <1>3, <1>6 DEF Covers
<1>8. \A t \in out : t <= n + 1
  BY <1>4 DEF Covers
<1>9. QED
  BY <1>2, <1>7, <1>8 DEF Covers

LEMMA CoversPacket ==
  ASSUME NEW made \in Seq(Packets), NEW buf, NEW p \in Packets, p.samples = buf,
         NEW n, NEW out, Covers(made, buf, n, out)
  PROVE  Covers(Append(made, p), <<>>, n, out)
<1>1. /\ Len(made) \in Nat /\ Len(Append(made, p)) = Len(made) + 1
      /\ \A k \in 1..(Len(made) + 1) :
           Append(made, p)[k] = IF k <= Len(made) THEN made[k] ELSE p
  BY Appended
<1>2. PICK m : m = Append(made, p)
  OBVIOUS
<1>3. ASSUME NEW t
      PROVE  (\E k \in 1..Len(m) : In(t, m[k].samples)) <=>
               In(t, buf) \/ \E k \in 1..Len(made) : In(t, made[k].samples)
  <2>1. ASSUME NEW k \in 1..Len(made), In(t, made[k].samples)
        PROVE  \E l \in 1..Len(m) : In(t, m[l].samples)
    <3>1. k \in 1..Len(m) /\ m[k] = made[k]
      BY <1>1, <1>2
    <3>2. QED
      BY <2>1, <3>1
  <2>2. ASSUME In(t, buf) PROVE \E l \in 1..Len(m) : In(t, m[l].samples)
    <3>1. Len(made) + 1 \in 1..Len(m) /\ m[Len(made) + 1] = p
      BY <1>1, <1>2
    <3>2. QED
      BY <2>2, <3>1
  <2>3. ASSUME NEW k \in 1..Len(m), In(t, m[k].samples)
        PROVE  In(t, buf) \/ \E l \in 1..Len(made) : In(t, made[l].samples)
    <3>1. CASE k \in 1..Len(made)
      BY <1>1, <1>2, <2>3, <3>1
    <3>2. CASE k = Len(made) + 1
      BY <1>1, <1>2, <2>3, <3>2
    <3>3. QED
      BY <1>1, <1>2, <3>1, <3>2
  <2>4. QED
    BY <2>1, <2>2, <2>3
<1>4. \A t : ~ In(t, <<>>)
  BY DEF In
<1>5. QED
  BY <1>2, <1>3, <1>4 DEF Covers

LEMMA CoversDropped ==
  ASSUME NEW made, NEW buf, NEW n \in Nat, NEW m \in Nat, n <= m,
         NEW out \in SUBSET Times,
         Covers(made, buf, n, out)
  PROVE  Covers(made, buf, m, out \cup (n + 1)..m)
<1>1. \A t \in Times : t \in Nat
  BY BoundsAssumption DEF Times
<1>2. ASSUME NEW t \in Times
      PROVE  (t <= m /\ t \notin out \cup (n + 1)..m) <=> t <= n /\ t \notin out
  BY <1>1
<1>3. ASSUME NEW t \in out \cup (n + 1)..m PROVE t <= m
  <2>1. CASE t \in out
    <3>1. t <= n
      BY <2>1 DEF Covers
    <3>2. QED
      BY <1>1, <2>1, <3>1
  <2>2. QED
    BY <2>1
<1>4. QED
  BY <1>2, <1>3 DEF Covers

-----------------------------------------------------------------------------
(* The invariant.                                                          *)

LEMMA Sizes ==
  /\ PacketSize \in Nat /\ PacketSize # 0 /\ Delay \in Nat
  /\ MaxFrame \in Nat /\ MaxSamples \in Nat /\ MaxTime \in Nat
  BY SizesAssumption, BoundsAssumption

LEMMA Types ==
  ASSUME TypeOK
  PROVE  /\ recorded \in Nat /\ recorded <= MaxSamples /\ left \in Nat /\ left <= recorded
         /\ recorded - left \in Nat
         /\ pcm \in Seq(Times) /\ Len(pcm) \in Nat
         /\ queue \in Seq(Packets) /\ Len(queue) \in Nat
         /\ sent \in Seq(Packets) /\ Len(sent) \in Nat
         /\ Made \in Seq(Packets) /\ Len(Made) \in Nat
         /\ dropped \in SUBSET Times /\ stamp \in Nat
<1>1. /\ recorded \in 0..MaxSamples /\ left \in 0..MaxFrame /\ left <= recorded
      /\ pcm \in Seq(Times) /\ queue \in Seq(Packets) /\ sent \in Seq(Packets)
      /\ dropped \in SUBSET Times /\ stamp \in Nat
  BY DEF TypeOK
<1>2. Made \in Seq(Packets)
  BY <1>1, ConcatProperties DEF Made
<1>3. QED
  BY <1>1, <1>2, Sizes, LenProperties

LEMMA OpusInit == Init => Inv
<1> SUFFICES ASSUME Init PROVE Inv
  OBVIOUS
<1>1. <<>> \in Seq(Times) /\ <<>> \in Seq(Packets) /\ Len(<<>>) = 0
  BY EmptySeq
<1>2. Made = <<>>
  BY ConcatEmptySeq, EmptySeq DEF Init, Made
<1>3. TypeOK
  <2>1. /\ clock \in 0..MaxTime /\ recorded \in 0..MaxSamples
        /\ left \in 0..MaxFrame /\ left <= recorded /\ stamp \in Nat
    BY Sizes DEF Init
  <2>2. QED
    BY <1>1, <2>1 DEF Init, TypeOK
<1>4. NoneLeft /\ PcmSize /\ PcmEnds /\ Stamped
  BY <1>1, Sizes DEF Init, NoneLeft, PcmSize, PcmEnds, Spread, Stamped
<1>5. InOrder(Made, pcm) /\ Timed(Made)
  BY <1>1, <1>2 DEF Init, InOrder, Sorted, Timed
<1>6. Covers(Made, pcm, recorded - left, dropped)
  <2>1. recorded - left = 0 /\ dropped = {} /\ pcm = <<>>
    BY DEF Init
  <2>2. \A t \in Times : t \in Nat /\ ~ t <= 0
    BY Sizes DEF Times
  <2>3. QED
    BY <1>1, <1>2, <2>1, <2>2 DEF Covers, In
<1>7. QED
  BY <1>3, <1>4, <1>5, <1>6 DEF Inv

\* What the steps keep that take no samples and make no packet.
LEMMA AudioUnchanged ==
  ASSUME Inv, UNCHANGED <<pcm, queue, sent>>, recorded' - left' = recorded - left,
         UNCHANGED dropped
  PROVE  /\ InOrder(Made, pcm)'
         /\ Covers(Made, pcm, recorded - left, dropped)'
         /\ Timed(Made)'
<1>1. Made' = Made
  BY DEF Made
<1>2. QED
  BY <1>1 DEF Inv

LEMMA OpusEncode == ASSUME Inv, NEW n \in 0..MaxFrame, Encode(n) PROVE Inv'
<1>1. /\ step = "idle" /\ recorded' = recorded + n /\ recorded + n <= MaxSamples
      /\ left' = n /\ stamp' = recorded + n /\ step' = "push"
      /\ UNCHANGED <<clock, pcm, queue, sent, dropped, failed>>
  BY DEF Encode
<1>2. /\ recorded \in Nat /\ left = 0 /\ Len(pcm) \in Nat /\ n \in Nat
  BY <1>1, Types, Sizes DEF Inv, NoneLeft
<1>3. TypeOK'
  <2>1. recorded' \in 0..MaxSamples /\ left' <= recorded' /\ stamp' \in Nat
    BY <1>1, <1>2, Sizes
  <2>2. QED
    BY <1>1, <2>1 DEF Inv, TypeOK
<1>4. NoneLeft'
  BY <1>1 DEF NoneLeft
<1>5. PcmSize'
  BY <1>1 DEF Inv, PcmSize
<1>6. recorded' - left' = recorded - left
  BY <1>1, <1>2
<1>7. Stamped'
  <2>1. SUFFICES ASSUME ~ failed
                 PROVE  /\ recorded' <= stamp'
                        /\ stamp' + Len(pcm') < (recorded' - left') + MaxFrame + PacketSize
    BY <1>1 DEF Stamped
  <2>2. Len(pcm') = Len(pcm) /\ Len(pcm) < PacketSize /\ n <= MaxFrame
    BY <1>1, <2>1 DEF Inv, PcmSize
  <2>3. recorded' = recorded + n /\ stamp' = recorded + n /\ recorded' - left' = recorded
    BY <1>1, <1>2, <1>6
  <2>4. QED
    BY <1>2, <2>2, <2>3, Sizes
<1>8. PcmEnds'
  BY <1>1 DEF Inv, PcmEnds
<1>9. QED
  BY <1>1, <1>3, <1>4, <1>5, <1>6, <1>7, <1>8, AudioUnchanged DEF Inv

LEMMA OpusEncodeOtherRate == ASSUME Inv, NEW n \in 1..MaxFrame, EncodeOtherRate(n) PROVE Inv'
<1>1. /\ step = "idle" /\ recorded' = recorded + n /\ recorded + n <= MaxSamples
      /\ stamp' = recorded + n /\ dropped' = dropped \cup (recorded + 1)..(recorded + n)
      /\ UNCHANGED <<clock, left, step, pcm, queue, sent, failed>>
  BY DEF EncodeOtherRate
<1>2. /\ recorded \in Nat /\ left = 0 /\ n \in Nat /\ dropped \in SUBSET Times
  BY <1>1, Types, Sizes DEF Inv, NoneLeft
<1>3. TypeOK'
  <2>1. recorded' \in 0..MaxSamples /\ left' <= recorded' /\ stamp' \in Nat
    BY <1>1, <1>2, Sizes
  <2>2. dropped' \subseteq Times
    BY <1>1, <1>2, Sizes DEF Times
  <2>3. QED
    BY <1>1, <2>1, <2>2 DEF Inv, TypeOK
<1>4. NoneLeft' /\ PcmSize' /\ PcmEnds' /\ Stamped'
  BY <1>1 DEF Inv, NoneLeft, PcmSize, PcmEnds, Stamped
<1>5. Made' = Made
  BY <1>1 DEF Made
<1>6. recorded - left = recorded /\ recorded' - left' = recorded + n
  BY <1>1, <1>2
<1>7. Covers(Made, pcm, recorded, dropped)
  BY <1>6 DEF Inv
<1>8. Covers(Made, pcm, recorded + n, dropped \cup (recorded + 1)..(recorded + n))
  <2>1. recorded + n \in Nat /\ recorded <= recorded + n
    BY <1>2
  <2>2. QED
    BY <1>2, <1>7, <2>1, CoversDropped
<1>9. QED
  BY <1>1, <1>3, <1>4, <1>5, <1>6, <1>8 DEF Inv

LEMMA OpusPush == ASSUME Inv, Push PROVE Inv'
<1>1. /\ step = "push" /\ left > 0 /\ left' = left - 1
      /\ pcm' = Append(pcm, recorded - left + 1)
      /\ step' = IF Len(pcm') = PacketSize THEN "full" ELSE "push"
      /\ UNCHANGED <<clock, recorded, stamp, queue, sent, dropped, failed>>
  BY DEF Push
<1>2. PICK n \in Nat : n = recorded - left
  BY Types DEF Inv
<1>3. /\ recorded \in Nat /\ left \in Nat /\ pcm \in Seq(Times) /\ Len(pcm) \in Nat
      /\ Made \in Seq(Packets) /\ dropped \in SUBSET Times /\ stamp \in Nat
  BY Types DEF Inv
<1>4. n + 1 \in Times /\ recorded' - left' = n + 1 /\ pcm' = Append(pcm, n + 1)
  <2>1. n + 1 <= recorded /\ recorded <= MaxSamples
    BY <1>1, <1>2, <1>3, Types DEF Inv
  <2>2. QED
    BY <1>1, <1>2, <1>3, <2>1, Sizes DEF Times
<1>5. /\ pcm' \in Seq(Times) /\ Len(pcm') = Len(pcm) + 1
      /\ \A i \in 1..(Len(pcm) + 1) : pcm'[i] = IF i <= Len(pcm) THEN pcm[i] ELSE n + 1
  BY <1>3, <1>4, Appended
<1>6. TypeOK'
  <2>1. left' \in 0..MaxFrame /\ left' <= recorded'
    BY <1>1, <1>3, Sizes DEF Inv, TypeOK
  <2>2. step' \in {"idle", "push", "full", "drain"}
    BY <1>1
  <2>3. UNCHANGED <<clock, recorded, stamp, queue, sent, dropped, failed>>
    BY <1>1
  <2>4. QED
    BY <1>5, <2>1, <2>2, <2>3 DEF Inv, TypeOK
<1>7. NoneLeft'
  BY <1>1 DEF NoneLeft
<1>8. PcmSize'
  <2>1. CASE failed
    <3>1. Len(pcm) >= PacketSize
      BY <2>1 DEF Inv, PcmSize
    <3>2. Len(pcm') >= PacketSize /\ Len(pcm') # PacketSize
      BY <1>3, <1>5, <3>1, Sizes
    <3>3. QED
      BY <1>1, <2>1, <3>2 DEF PcmSize
  <2>2. CASE ~ failed
    <3>1. Len(pcm) < PacketSize
      BY <1>1, <2>2 DEF Inv, PcmSize
    <3>2. Len(pcm') = PacketSize \/ Len(pcm') < PacketSize
      BY <1>3, <1>5, <3>1, Sizes
    <3>3. QED
      BY <1>1, <2>2, <3>2 DEF PcmSize
  <2>3. QED
    BY <2>1, <2>2
<1>9. Made' = Made
  BY <1>1 DEF Made
<1>10. Covers(Made, pcm, n, dropped) /\ InOrder(Made, pcm)
  BY <1>2 DEF Inv
<1>11. ASSUME NEW t \in Times,
              In(t, pcm) \/ \E k \in 1..Len(Made) : In(t, Made[k].samples)
       PROVE  t < n + 1
  <2>1. t <= n
    BY <1>10, <1>11 DEF Covers
  <2>2. QED
    BY <2>1, Sizes DEF Times
<1>12. ASSUME NEW i \in 1..Len(pcm) PROVE pcm[i] < n + 1
  <2>1. pcm[i] \in Times /\ In(pcm[i], pcm)
    BY <1>3, ElementOfSeq DEF In
  <2>2. QED
    BY <1>11, <2>1
<1>13. ASSUME NEW k \in 1..Len(Made), NEW i \in 1..Len(Made[k].samples)
       PROVE  Made[k].samples[i] < n + 1
  <2>1. Made[k] \in Packets
    BY <1>3, ElementOfSeq
  <2>2. PICK s \in Seq(Times) : s = Made[k].samples
    BY <2>1 DEF Packets
  <2>3. s[i] \in Times /\ In(s[i], s)
    BY <2>2, ElementOfSeq DEF In
  <2>4. QED
    BY <1>11, <2>2, <2>3
<1>14. InOrder(Made, pcm)'
  BY <1>3, <1>4, <1>9, <1>10, <1>12, <1>13, InOrderSample
<1>15. Covers(Made, pcm, recorded - left, dropped)'
  <2>1. Covers(Made, Append(pcm, n + 1), n + 1, dropped)
    BY <1>3, <1>4, <1>10, CoversSample
  <2>2. QED
    BY <1>1, <1>4, <1>9, <2>1
<1>16. Stamped'
  <2>1. SUFFICES ASSUME ~ failed
                 PROVE  /\ recorded' <= stamp'
                        /\ stamp' + Len(pcm') < (recorded' - left') + MaxFrame + PacketSize
    BY <1>1 DEF Stamped
  <2>2. recorded <= stamp /\ stamp + Len(pcm) < n + MaxFrame + PacketSize
    BY <1>1, <1>2, <2>1 DEF Inv, Stamped
  <2>3. /\ recorded' = recorded /\ stamp' = stamp /\ recorded' - left' = n + 1
        /\ Len(pcm') = Len(pcm) + 1
    BY <1>1, <1>4, <1>5
  <2>4. QED
    BY <1>3, <2>2, <2>3, Sizes
<1>17. Timed(Made)'
  BY <1>9 DEF Inv
<1>18. PcmEnds'
  <2>1. /\ 1 \in 1..(Len(pcm) + 1) /\ Len(pcm) + 1 \in 1..(Len(pcm) + 1)
        /\ pcm'[Len(pcm')] = n + 1
    BY <1>3, <1>5
  <2>2. Spread(pcm')
    <3>1. CASE Len(pcm) = 0
      BY <1>5, <2>1, <3>1 DEF Spread
    <3>2. CASE Len(pcm) > 0
      <4>1. pcm'[1] = pcm[1]
        BY <1>3, <1>5, <2>1, <3>2
      <4>2. /\ pcm[1] + Len(pcm) <= pcm[Len(pcm)] + 1
            /\ 1 \in 1..Len(pcm) /\ Len(pcm) \in 1..Len(pcm)
        BY <1>3, <3>2 DEF Inv, PcmEnds, Spread
      <4>3. pcm[1] \in Times /\ pcm[Len(pcm)] \in Times
        BY <1>3, <4>2, ElementOfSeq
      <4>a. pcm[Len(pcm)] < n + 1 /\ pcm[1] \in Nat /\ pcm[Len(pcm)] \in Nat
        BY <1>12, <4>2, <4>3, Sizes DEF Times
      <4>4. pcm'[1] + (Len(pcm) + 1) <= (n + 1) + 1
        BY <1>3, <4>1, <4>2, <4>a
      <4>5. QED
        BY <1>5, <2>1, <4>4 DEF Spread
    <3>3. QED
      BY <1>3, <3>1, <3>2
  <2>3. QED
    BY <1>4, <2>1, <2>2 DEF PcmEnds
<1>19. QED
  BY <1>6, <1>7, <1>8, <1>14, <1>15, <1>16, <1>17, <1>18 DEF Inv

LEMMA OpusPushDone == ASSUME Inv, PushDone PROVE Inv'
<1>1. /\ step = "push" /\ left = 0 /\ step' = "drain"
      /\ UNCHANGED <<clock, recorded, left, stamp, pcm, queue, sent, dropped, failed>>
  BY DEF PushDone
<1>2. TypeOK' /\ NoneLeft' /\ PcmSize' /\ PcmEnds' /\ Stamped'
  BY <1>1 DEF Inv, TypeOK, NoneLeft, PcmSize, PcmEnds, Stamped
<1>3. QED
  BY <1>1, <1>2, AudioUnchanged DEF Inv

LEMMA OpusEncodePacket == ASSUME Inv, EncodePacket PROVE Inv'
<1>1. PICK p : p = [samples |-> pcm, time |-> stamp]
  OBVIOUS
<1>2. /\ step = "full" /\ queue' = Append(queue, p) /\ pcm' = <<>>
      /\ stamp' = stamp + PacketSize /\ step' = "push"
      /\ UNCHANGED <<clock, recorded, left, sent, dropped, failed>>
  BY <1>1 DEF EncodePacket
<1>3. /\ recorded - left \in Nat /\ pcm \in Seq(Times) /\ queue \in Seq(Packets)
      /\ sent \in Seq(Packets) /\ Made \in Seq(Packets) /\ stamp \in Nat
  BY Types DEF Inv
<1>4. p \in Packets /\ p.samples = pcm /\ p.time = stamp
  BY <1>1, <1>3 DEF Packets
<1>5. queue' \in Seq(Packets) /\ pcm' \in Seq(Times) /\ Len(pcm') = 0 /\ stamp' \in Nat
  BY <1>2, <1>3, <1>4, AppendProperties, EmptySeq, Sizes
<1>6. ~ failed /\ Len(pcm) = PacketSize
  BY <1>2 DEF Inv, PcmSize
<1>7. Made' = Append(Made, p)
  <2>1. <<p>> \in Seq(Packets)
    BY <1>4
  <2>2. queue' = queue \o <<p>> /\ Append(Made, p) = Made \o <<p>>
    BY <1>2, <1>3, <1>4, AppendIsConcat
  <2>3. sent \o (queue \o <<p>>) = (sent \o queue) \o <<p>>
    BY <1>3, <2>1, ConcatAssociative
  <2>4. QED
    BY <1>2, <2>2, <2>3 DEF Made
<1>8. TypeOK'
  <2>1. step' \in {"idle", "push", "full", "drain"}
    BY <1>2
  <2>2. UNCHANGED <<clock, recorded, left, sent, dropped, failed>>
    BY <1>2
  <2>3. QED
    BY <1>5, <2>1, <2>2 DEF Inv, TypeOK
<1>9. NoneLeft' /\ PcmSize'
  BY <1>2, <1>5, <1>6, Sizes DEF NoneLeft, PcmSize
<1>10. InOrder(Made, pcm)'
  BY <1>2, <1>3, <1>4, <1>7, InOrderPacket DEF Inv
<1>11. Covers(Made, pcm, recorded - left, dropped)'
  <2>1. Covers(Append(Made, p), <<>>, recorded - left, dropped)
    BY <1>3, <1>4, CoversPacket DEF Inv
  <2>2. recorded' - left' = recorded - left /\ dropped' = dropped
    BY <1>2
  <2>3. QED
    BY <1>2, <1>7, <2>1, <2>2
<1>12. /\ recorded <= stamp /\ recorded - left <= recorded /\ recorded \in Nat
       /\ stamp + PacketSize < (recorded - left) + MaxFrame + PacketSize
  <2>1. recorded <= stamp /\ stamp + Len(pcm) < (recorded - left) + MaxFrame + PacketSize
    BY <1>2, <1>6 DEF Inv, Stamped
  <2>2. recorded \in Nat /\ left \in Nat
    BY Types DEF Inv
  <2>3. QED
    BY <1>6, <2>1, <2>2
<1>13. Stamped' /\ PcmEnds'
  <2>1. stamp' + Len(pcm') = stamp + PacketSize /\ recorded <= stamp'
    BY <1>2, <1>3, <1>5, <1>12, Sizes
  <2>2. Stamped'
    BY <1>2, <1>12, <2>1 DEF Stamped
  <2>3. PcmEnds'
    BY <1>2, <1>5 DEF PcmEnds, Spread
  <2>4. QED
    BY <2>2, <2>3
<1>14. Timed(Made)'
  <2>1. TimedPacket(p)
    <3>1. Len(pcm) = PacketSize /\ Spread(pcm) /\ pcm[PacketSize] = recorded - left
      BY <1>2, <1>6 DEF Inv, PcmEnds
    <3>2. recorded - left <= stamp /\ stamp < (recorded - left) + MaxFrame
      BY <1>3, <1>12, Sizes
    <3>3. QED
      BY <1>4, <3>1, <3>2 DEF TimedPacket
  <2>2. /\ Len(Made) \in Nat /\ Len(Made') = Len(Made) + 1
        /\ \A k \in 1..(Len(Made) + 1) : Made'[k] = IF k <= Len(Made) THEN Made[k] ELSE p
    BY <1>3, <1>4, <1>7, Appended
  <2>3. ASSUME NEW k \in 1..Len(Made') PROVE TimedPacket(Made'[k])
    <3>1. CASE k \in 1..Len(Made)
      BY <2>2, <3>1 DEF Inv, Timed
    <3>2. CASE k = Len(Made) + 1
      BY <2>1, <2>2, <3>2
    <3>3. QED
      BY <2>2, <3>1, <3>2
  <2>4. QED
    BY <2>3 DEF Timed
<1>15. QED
  BY <1>8, <1>9, <1>10, <1>11, <1>13, <1>14 DEF Inv

LEMMA OpusEncodePacketFails == ASSUME Inv, EncodePacketFails PROVE Inv'
<1>1. /\ step = "full" /\ left' = 0 /\ step' = "idle" /\ failed' = TRUE
      /\ dropped' = dropped \cup (recorded - left + 1)..recorded
      /\ UNCHANGED <<clock, recorded, stamp, pcm, queue, sent>>
  BY DEF EncodePacketFails
<1>2. /\ recorded \in Nat /\ recorded <= MaxSamples /\ left \in Nat /\ left <= recorded
      /\ dropped \in SUBSET Times
  BY Types DEF Inv
<1>3. PICK n \in Nat : n = recorded - left
  BY Types DEF Inv
<1>4. n <= recorded /\ recorded' - left' = recorded
  BY <1>1, <1>2, <1>3
<1>5. TypeOK'
  <2>1. left' \in 0..MaxFrame /\ left' <= recorded'
    BY <1>1, <1>2, Sizes
  <2>2. dropped' \subseteq Times
    BY <1>1, <1>2, <1>3, Sizes DEF Times
  <2>3. QED
    BY <1>1, <2>1, <2>2 DEF Inv, TypeOK
<1>6. NoneLeft' /\ PcmEnds' /\ Stamped'
  BY <1>1 DEF Inv, NoneLeft, PcmEnds, Stamped
<1>7. PcmSize'
  <2>1. Len(pcm) = PacketSize
    BY <1>1 DEF Inv, PcmSize
  <2>2. QED
    BY <1>1, <2>1, Sizes DEF PcmSize
<1>8. Made' = Made
  BY <1>1 DEF Made
<1>9. Covers(Made, pcm, n, dropped)
  BY <1>3 DEF Inv
<1>10. Covers(Made, pcm, recorded, dropped \cup (n + 1)..recorded)
  BY <1>2, <1>4, <1>9, CoversDropped
<1>11. QED
  BY <1>1, <1>3, <1>4, <1>5, <1>6, <1>7, <1>8, <1>10 DEF Inv

\* How many packets are of age: the first of them, up to one that is too young.
LEMMA DueIsGreatest ==
  ASSUME TypeOK
  PROVE  /\ DueCount \in Nat /\ DueCount <= Len(queue)
         /\ \A j \in 1..DueCount : clock >= queue[j].time + Delay
         /\ DueCount < Len(queue) => ~ clock >= queue[DueCount + 1].time + Delay
<1>1. PICK n \in Nat : n = Len(queue)
  BY Types
<1>2. Due \subseteq 0..n /\ 0 \in Due
  BY <1>1 DEF Due
<1>3. PICK T : T = {n - k : k \in Due}
  OBVIOUS
<1>4. T \subseteq Nat /\ T # {}
  BY <1>1, <1>2, <1>3
<1>5. PICK m \in T : \A t \in T : m <= t
  BY <1>4, LeastOf
<1>6. PICK k \in Due : m = n - k
  BY <1>3, <1>5
<1>7. ASSUME NEW j \in Due PROVE j <= k
  <2>1. m <= n - j
    BY <1>3, <1>5
  <2>2. j \in Int /\ k \in Int
    BY <1>2
  <2>3. QED
    BY <1>1, <1>6, <2>1, <2>2
<1>8. DueCount \in Due /\ \A j \in Due : j <= DueCount
  BY <1>6, <1>7 DEF DueCount
<1>9. PICK d \in Due : d = DueCount /\ \A j \in Due : j <= d
  BY <1>8
<1>10. /\ d \in Nat /\ d <= n
       /\ \A j \in 1..d : clock >= queue[j].time + Delay
  BY <1>1, <1>2 DEF Due
<1>11. ASSUME d < n, clock >= queue[d + 1].time + Delay PROVE FALSE
  <2>1. \A j \in 1..(d + 1) : j \in 1..d \/ j = d + 1
    BY <1>10
  <2>2. d + 1 \in 0..n
    BY <1>1, <1>10, <1>11
  <2>3. d + 1 \in Due
    BY <1>1, <1>10, <1>11, <2>1, <2>2 DEF Due
  <2>4. QED
    BY <1>9, <1>10, <2>3
<1>12. QED
  BY <1>1, <1>9, <1>10, <1>11

\* What Drain does to the two sequences.
LEMMA DrainMoves ==
  ASSUME TypeOK, Drain
  PROVE  /\ sent' \in Seq(Packets) /\ queue' \in Seq(Packets)
         /\ sent' \o queue' = sent \o queue
         /\ Len(sent') = Len(sent) + DueCount /\ Len(queue') = Len(queue) - DueCount
         /\ \A k \in 1..DueCount : sent'[Len(sent) + k] = queue[k]
         /\ \A k \in 1..(Len(queue) - DueCount) : queue'[k] = queue[DueCount + k]
<1>1. PICK d \in Nat : d = DueCount /\ d <= Len(queue)
  BY DueIsGreatest
<1>2. /\ queue \in Seq(Packets) /\ sent \in Seq(Packets)
      /\ Len(queue) \in Nat /\ Len(sent) \in Nat
  BY Types
<1>3. PICK a, b : a = SubSeq(queue, 1, d) /\ b = SubSeq(queue, d + 1, Len(queue))
  OBVIOUS
<1>4. sent' = sent \o a /\ queue' = b
  BY <1>1, <1>3 DEF Drain
<1>5. \A i \in 1..Len(queue) : queue[i] \in Packets
  BY <1>2, ElementOfSeq
<1>6. /\ a \in Seq(Packets) /\ Len(a) = d
      /\ \A i \in 1..d : a[i] = queue[i]
  <2>1. \A i \in 1..d : queue[i] \in Packets
    BY <1>1, <1>2, <1>5
  <2>2. /\ SubSeq(queue, 1, d) \in Seq(Packets)
        /\ Len(SubSeq(queue, 1, d)) = IF 1 <= d THEN d - 1 + 1 ELSE 0
        /\ \A i \in 1..(d - 1 + 1) : SubSeq(queue, 1, d)[i] = queue[1 + i - 1]
    BY <1>1, <2>1, SubSeqProperties
  <2>3. QED
    BY <1>1, <1>3, <2>2
<1>7. /\ b \in Seq(Packets) /\ Len(b) = Len(queue) - d
      /\ \A i \in 1..(Len(queue) - d) : b[i] = queue[d + i]
  <2>1. \A i \in (d + 1)..Len(queue) : queue[i] \in Packets
    BY <1>1, <1>2, <1>5
  <2>2. /\ SubSeq(queue, d + 1, Len(queue)) \in Seq(Packets)
        /\ Len(SubSeq(queue, d + 1, Len(queue))) =
             IF d + 1 <= Len(queue) THEN Len(queue) - (d + 1) + 1 ELSE 0
        /\ \A i \in 1..(Len(queue) - (d + 1) + 1) :
             SubSeq(queue, d + 1, Len(queue))[i] = queue[(d + 1) + i - 1]
    BY <1>1, <1>2, <2>1, SubSeqProperties
  <2>3. QED
    BY <1>1, <1>2, <1>3, <2>2
<1>8. a \o b = queue
  <2>1. SubSeq(queue, 1, d) \o SubSeq(queue, d + 1, Len(queue)) = SubSeq(queue, 1, Len(queue))
    <3>1. 1 \in 1..(Len(queue) + 1) /\ d \in (1 - 1)..Len(queue) /\ Len(queue) \in d..Len(queue)
      BY <1>1, <1>2
    <3>2. QED
      BY <1>2, <3>1, ConcatAdjacentSubSeq
  <2>2. QED
    BY <1>2, <1>3, <2>1, SubSeqFull
<1>9. sent' \o queue' = sent \o queue
  <2>1. (sent \o a) \o b = sent \o (a \o b)
    BY SMTT(30), <1>2, <1>6, <1>7, ConcatAssociative
  <2>2. QED
    BY <1>4, <1>8, <2>1
<1>10. /\ sent' \in Seq(Packets) /\ Len(sent') = Len(sent) + d
       /\ \A i \in 1..(Len(sent) + d) :
            sent'[i] = IF i <= Len(sent) THEN sent[i] ELSE a[i - Len(sent)]
  BY <1>2, <1>4, <1>6, ConcatProperties
<1>11. ASSUME NEW k \in 1..d PROVE sent'[Len(sent) + k] = queue[k]
  <2>1. Len(sent) + k \in 1..(Len(sent) + d) /\ ~ Len(sent) + k <= Len(sent)
    BY <1>1, <1>2
  <2>2. (Len(sent) + k) - Len(sent) = k
    BY <1>1, <1>2
  <2>3. QED
    BY <1>6, <1>10, <2>1, <2>2
<1>12. QED
  BY <1>1, <1>4, <1>7, <1>9, <1>10, <1>11

LEMMA OpusDrain == ASSUME Inv, Drain PROVE Inv'
<1>1. /\ step = "drain" /\ step' = "idle"
      /\ UNCHANGED <<clock, recorded, left, stamp, pcm, dropped, failed>>
  BY DEF Drain
<1>2. sent' \in Seq(Packets) /\ queue' \in Seq(Packets) /\ Made' = Made
  BY DrainMoves DEF Inv, Made
<1>3. TypeOK'
  BY <1>1, <1>2 DEF Inv, TypeOK
<1>4. NoneLeft' /\ PcmSize' /\ PcmEnds' /\ Stamped'
  BY <1>1 DEF Inv, NoneLeft, PcmSize, PcmEnds, Stamped
<1>5. QED
  BY <1>1, <1>2, <1>3, <1>4 DEF Inv

LEMMA OpusStutter ==
  ASSUME Inv, UNCHANGED <<recorded, left, step, stamp, pcm, queue, sent, dropped, failed>>,
         clock' \in 0..MaxTime
  PROVE  Inv'
<1>1. TypeOK'
  BY DEF Inv, TypeOK
<1>2. NoneLeft' /\ PcmSize'
  BY DEF Inv, NoneLeft, PcmSize
<1>3. PcmEnds' /\ Stamped'
  BY DEF Inv, PcmEnds, Stamped
<1>4. QED
  BY <1>1, <1>2, <1>3, AudioUnchanged DEF Inv

LEMMA OpusNext == ASSUME Inv, [Next]_vars PROVE Inv'
<1>1. ASSUME NEW n \in 0..MaxFrame, Encode(n) PROVE Inv'
  BY <1>1, OpusEncode
<1>2. ASSUME NEW n \in 1..MaxFrame, EncodeOtherRate(n) PROVE Inv'
  BY <1>2, OpusEncodeOtherRate
<1>3. CASE Clock
  BY <1>3, OpusStutter DEF Clock
<1>4. CASE UNCHANGED vars
  <2>1. clock' \in 0..MaxTime
    BY <1>4 DEF vars, Inv, TypeOK
  <2>2. QED
    BY <1>4, <2>1, OpusStutter DEF vars
<1>5. QED
  BY <1>1, <1>2, <1>3, <1>4, OpusPush, OpusPushDone, OpusEncodePacket,
     OpusEncodePacketFails, OpusDrain DEF Next

\* What Encode leaves for the next call, however long frames are, whatever fails and
\* wherever the clock is set (opus_audio_encoder.cpp:59).
THEOREM Invariance == Spec => []Inv
<1>1. QED
  BY OpusInit, OpusNext, PTL DEF Spec

\* The samples in the order of the packets and the buffer.
LEMMA RunsOf ==
  ASSUME Inv
  PROVE  /\ DOMAIN Runs = 1..(Len(Made) + 1)
         /\ \A k \in 1..Len(Made) : Runs[k] = Made[k].samples /\ Runs[k] \in Seq(Times)
         /\ Runs[Len(Made) + 1] = pcm
<1>1. Made \in Seq(Packets) /\ Len(Made) \in Nat /\ pcm \in Seq(Times)
  BY Types DEF Inv
<1>2. PICK m : m = [k \in DOMAIN Made |-> Made[k].samples]
  OBVIOUS
<1>3. DOMAIN Made = 1..Len(Made)
  BY <1>1, LenProperties
<1>4. ASSUME NEW k \in 1..Len(Made) PROVE m[k] = Made[k].samples /\ m[k] \in Seq(Times)
  <2>1. Made[k] \in Packets
    BY <1>1, ElementOfSeq
  <2>2. QED
    BY <1>2, <1>3, <2>1 DEF Packets
<1>5. m \in [1..Len(Made) -> Seq(Times)]
  BY <1>2, <1>3, <1>4
<1>6. m \in Seq(Seq(Times)) /\ Len(m) = Len(Made)
  <2>1. m \in Seq(Seq(Times))
    BY <1>1, <1>5, SeqDef
  <2>2. DOMAIN m = 1..Len(m) /\ Len(m) \in Nat
    BY <2>1, LenProperties
  <2>3. QED
    BY <1>1, <1>5, <2>1, <2>2
<1>7. /\ Append(m, pcm) \in Seq(Seq(Times))
      /\ Len(Append(m, pcm)) = Len(m) + 1
      /\ \A k \in 1..(Len(m) + 1) : Append(m, pcm)[k] = IF k <= Len(m) THEN m[k] ELSE pcm
  BY <1>1, <1>6, Appended
<1>8. Runs = Append(m, pcm)
  BY <1>2 DEF Runs
<1>9. DOMAIN Runs = 1..(Len(Made) + 1)
  BY <1>6, <1>7, <1>8, LenProperties
<1>10. ASSUME NEW k \in 1..Len(Made) PROVE Runs[k] = m[k]
  BY <1>1, <1>6, <1>7, <1>8
<1>11. Runs[Len(Made) + 1] = pcm
  BY <1>1, <1>6, <1>7, <1>8
<1>12. QED
  BY <1>4, <1>9, <1>10, <1>11

LEMMA WholeAudio == ASSUME Inv PROVE AudioIsWhole
<1>1. /\ DOMAIN Runs = 1..(Len(Made) + 1)
      /\ \A k \in 1..Len(Made) : Runs[k] = Made[k].samples /\ Runs[k] \in Seq(Times)
      /\ Runs[Len(Made) + 1] = pcm
  BY RunsOf
<1>2. Len(Made) \in Nat /\ pcm \in Seq(Times) /\ recorded - left \in Nat
  BY Types DEF Inv
<1>3. \A k \in DOMAIN Runs : k \in 1..Len(Made) \/ k = Len(Made) + 1
  BY <1>1, <1>2
<1>4. ASSUME NEW k \in DOMAIN Runs
      PROVE  /\ Runs[k] \in Seq(Times) /\ DOMAIN Runs[k] = 1..Len(Runs[k])
             /\ Sorted(Runs[k])
             /\ \A t : t \in ToSet(Runs[k]) <=> In(t, Runs[k])
  <2>1. Runs[k] \in Seq(Times) /\ Sorted(Runs[k])
    BY <1>1, <1>2, <1>3 DEF Inv, InOrder
  <2>2. DOMAIN Runs[k] = 1..Len(Runs[k])
    BY <2>1, LenProperties
  <2>3. QED
    BY <2>1, <2>2 DEF ToSet, In
<1>5. \A k \in DOMAIN Runs : \A i, j \in DOMAIN Runs[k] : i < j => Runs[k][i] < Runs[k][j]
  BY <1>4 DEF Sorted
<1>6. ASSUME NEW j \in DOMAIN Runs, NEW k \in DOMAIN Runs, j < k
      PROVE  Before(Runs[j], Runs[k])
  <2>1. j \in 1..Len(Made)
    BY <1>1, <1>2, <1>6
  <2>2. CASE k \in 1..Len(Made)
    BY <1>1, <1>6, <2>1, <2>2 DEF Inv, InOrder
  <2>3. CASE k = Len(Made) + 1
    BY <1>1, <2>1, <2>3 DEF Inv, InOrder
  <2>4. QED
    BY <1>3, <2>2, <2>3
<1>7. ASSUME NEW j \in DOMAIN Runs, NEW k \in DOMAIN Runs, j < k,
             NEW s \in ToSet(Runs[j]), NEW t \in ToSet(Runs[k])
      PROVE  s < t
  <2>1. In(s, Runs[j]) /\ In(t, Runs[k])
    BY <1>4
  <2>2. QED
    BY <1>6, <1>7, <2>1 DEF In, Before
<1>8. ASSUME NEW t
      PROVE  t \in UNION {ToSet(Runs[k]) : k \in DOMAIN Runs} <=>
               In(t, pcm) \/ \E k \in 1..Len(Made) : In(t, Made[k].samples)
  <2>1. t \in UNION {ToSet(Runs[k]) : k \in DOMAIN Runs} <=> \E k \in DOMAIN Runs : In(t, Runs[k])
    BY <1>4
  <2>2. Len(Made) + 1 \in DOMAIN Runs /\ \A k \in 1..Len(Made) : k \in DOMAIN Runs
    BY <1>1, <1>2
  <2>3. QED
    BY <1>1, <1>3, <2>1, <2>2
<1>9. ASSUME NEW t, In(t, pcm) \/ \E k \in 1..Len(Made) : In(t, Made[k].samples)
      PROVE  t \in Times
  <2>1. PICK k \in DOMAIN Runs : In(t, Runs[k])
    <3>1. t \in UNION {ToSet(Runs[k]) : k \in DOMAIN Runs}
      BY <1>8, <1>9
    <3>2. QED
      BY <1>4, <3>1
  <2>2. PICK r \in Seq(Times) : r = Runs[k]
    BY <1>4
  <2>3. PICK i \in 1..Len(r) : r[i] = t
    BY <2>1, <2>2 DEF In
  <2>4. QED
    BY <2>3, ElementOfSeq
<1>10. ASSUME NEW t
       PROVE  t \in (1..(recorded - left)) \ dropped <=>
                t \in Times /\ t <= recorded - left /\ t \notin dropped
  <2>1. recorded - left <= MaxSamples
    BY Types, Sizes DEF Inv
  <2>2. QED
    BY <1>2, <2>1, Sizes DEF Times
<1>11. ASSUME NEW t
       PROVE  t \in UNION {ToSet(Runs[k]) : k \in DOMAIN Runs} <=>
                t \in (1..(recorded - left)) \ dropped
  BY <1>8, <1>9, <1>10 DEF Inv, Covers
<1>12. QED
  BY <1>5, <1>7, <1>11 DEF AudioIsWhole

\* The time of a packet before another one is later by less than a frame is longer than
\* a packet.
LEMMA EarlierPacket ==
  ASSUME Inv, NEW j \in 1..Len(Made), NEW k \in 1..Len(Made), j < k
  PROVE  Made[j].time + PacketSize < Made[k].time + MaxFrame
<1>1. PICK a \in Seq(Times), b \in Seq(Times), x \in Nat, y \in Nat :
        Made[j].samples = a /\ Made[k].samples = b /\ Made[j].time = x /\ Made[k].time = y
  <2>1. Made[j] \in Packets /\ Made[k] \in Packets
    BY Types, ElementOfSeq DEF Inv
  <2>2. QED
    BY <2>1 DEF Packets
<1>2. /\ Len(a) = PacketSize /\ Len(b) = PacketSize
      /\ x < a[PacketSize] + MaxFrame /\ b[PacketSize] <= y /\ Spread(b)
  BY <1>1 DEF Inv, Timed, TimedPacket
<1>3. 1 \in 1..PacketSize /\ PacketSize \in 1..PacketSize
  BY Sizes
<1>4. a[PacketSize] < b[1]
  BY <1>1, <1>2, <1>3 DEF Inv, InOrder, Before
<1>5. b[1] + PacketSize <= b[PacketSize] + 1
  BY <1>2, Sizes DEF Spread
<1>6. a[PacketSize] \in Nat /\ b[1] \in Nat /\ b[PacketSize] \in Nat
  <2>1. a[PacketSize] \in Times /\ b[1] \in Times /\ b[PacketSize] \in Times
    BY <1>2, <1>3, ElementOfSeq
  <2>2. \A t \in Times : t \in Nat
    BY Sizes DEF Times
  <2>3. QED
    BY <2>1, <2>2
<1>7. x + PacketSize < y + MaxFrame
  BY <1>2, <1>4, <1>5, <1>6, Sizes
<1>8. QED
  BY <1>1, <1>7

\* What was recorded and not dropped is in the packets and the buffer, once and in order,
\* and the time of each packet is within a frame of its last sample, so that times fall
\* by less than a frame is longer than a packet, although timestamp_ restarts with every
\* frame (opus_audio_encoder.cpp:67 and 113).
THEOREM AudioInvariance == Spec => []PacketsAreRight
<1>1. ASSUME Inv PROVE TimeOfPacket /\ TimesFallLittle
  <2>1. DOMAIN Made = 1..Len(Made)
    BY <1>1, Types, LenProperties DEF Inv
  <2>2. QED
    BY <1>1, <2>1, EarlierPacket DEF Inv, Timed, TimedPacket, TimeOfPacket, TimesFallLittle
<1>2. Inv => PacketsAreRight
  BY <1>1, WholeAudio DEF Inv, PacketsAreRight
<1>3. QED
  BY <1>2, Invariance, PTL

\* The encoder makes no more packets for good if and only if an encoding has failed: the
\* buffer is then left full, and is compared by == (opus_audio_encoder.cpp:84 and 109).
THEOREM StallInvariance == Spec => []StallIsFailure
<1>1. Inv => StallIsFailure
  <2> SUFFICES ASSUME Inv PROVE StallIsFailure
    OBVIOUS
  <2>2. Len(pcm) \in Nat
    BY Types DEF Inv
  <2>3. failed \in BOOLEAN
    BY DEF Inv, TypeOK
  <2>4. failed => Len(pcm) >= PacketSize /\ step # "full"
    BY DEF Inv, PcmSize
  <2>5. ~ failed => step = "full" \/ ~ Len(pcm) >= PacketSize
    BY <2>2, Sizes DEF Inv, PcmSize
  <2>6. QED
    BY <2>3, <2>4, <2>5 DEF StallIsFailure
<1>2. QED
  BY <1>1, Invariance, PTL

\* No packet is sent before its age, also when the clock is set back
\* (opus_audio_encoder.cpp:117).
THEOREM AgeOfSent == Spec => SentOfAge
<1>1. ASSUME Inv, [Next]_vars, NEW k \in DOMAIN sent', k > Len(sent)
      PROVE  clock >= sent'[k].time + Delay
  <2>1. CASE UNCHANGED sent
    <3>1. k \in 1..Len(sent) /\ Len(sent) \in Nat
      BY <1>1, <2>1, Types, LenProperties DEF Inv
    <3>2. QED
      BY <1>1, <3>1
  <2>2. CASE Drain
    <3>1. PICK d \in Nat : d = DueCount /\ d <= Len(queue)
      BY <1>1, DueIsGreatest DEF Inv
    <3>2. Len(sent) \in Nat
      BY <1>1, Types DEF Inv
    <3>3. k \in 1..(Len(sent) + d)
      BY <1>1, <2>2, <3>1, DrainMoves, LenProperties DEF Inv
    <3>4. PICK j \in 1..d : k = Len(sent) + j
      <4>1. k - Len(sent) \in 1..d /\ k = Len(sent) + (k - Len(sent))
        BY <1>1, <3>1, <3>2, <3>3
      <4>2. QED
        BY <4>1
    <3>5. sent'[k] = queue[j]
      BY <1>1, <2>2, <3>1, <3>4, DrainMoves DEF Inv
    <3>6. clock >= queue[j].time + Delay
      BY <1>1, <3>1, DueIsGreatest DEF Inv
    <3>7. QED
      BY <3>5, <3>6
  <2>3. QED
    BY <1>1, <2>1, <2>2 DEF Next, vars, Encode, EncodeOtherRate, Push, PushDone,
       EncodePacket, EncodePacketFails, Clock
<1>2. Inv /\ [Next]_vars =>
        \A k \in DOMAIN sent' : k > Len(sent) => clock >= sent'[k].time + Delay
  BY <1>1
<1>3. QED
  BY <1>2, Invariance, PTL DEF Spec, SentOfAge

\* A call that ends normally leaves a packet of age only behind one that is too young, and
\* overdue by less than a frame is longer than a packet: find_if stops at the first that
\* is too young, and times may fall (opus_audio_encoder.cpp:119).
THEOREM WaitsAreBounded == Spec => WaitIsBounded
<1>1. ASSUME Inv, [Next]_vars, DrainEnds, NEW k \in DOMAIN queue'
      PROVE  IF k = 1 THEN clock < queue'[k].time + Delay
                      ELSE clock + PacketSize < queue'[k].time + Delay + MaxFrame
  <2>1. Drain
    BY <1>1 DEF DrainEnds, Next, vars, Encode, EncodeOtherRate, Push, PushDone,
       EncodePacket, EncodePacketFails, Clock
  <2>2. PICK d \in Nat : d = DueCount /\ d <= Len(queue)
    BY <1>1, DueIsGreatest DEF Inv
  <2>3. /\ queue \in Seq(Packets) /\ sent \in Seq(Packets)
        /\ Len(queue) \in Nat /\ Len(sent) \in Nat
    BY <1>1, Types DEF Inv
  <2>4. k \in 1..(Len(queue) - d) /\ queue'[k] = queue[d + k]
    <3>1. queue' \in Seq(Packets) /\ Len(queue') = Len(queue) - d
      BY <1>1, <2>1, <2>2, DrainMoves DEF Inv
    <3>2. DOMAIN queue' = 1..(Len(queue) - d)
      BY <3>1, LenProperties
    <3>3. QED
      BY <1>1, <2>1, <2>2, <3>2, DrainMoves DEF Inv
  <2>5. d + 1 \in 1..Len(queue) /\ d + k \in 1..Len(queue) /\ d < Len(queue)
    BY <2>2, <2>3, <2>4
  <2>6. /\ Len(Made) = Len(sent) + Len(queue)
        /\ \A i \in 1..Len(queue) :
             /\ Len(sent) + i \in 1..Len(Made)
             /\ Made[Len(sent) + i] = queue[i]
    <3>1. /\ Len(Made) = Len(sent) + Len(queue)
          /\ \A i \in 1..(Len(sent) + Len(queue)) :
               Made[i] = IF i <= Len(sent) THEN sent[i] ELSE queue[i - Len(sent)]
      BY <2>3, ConcatProperties DEF Made
    <3>2. ASSUME NEW i \in 1..Len(queue)
          PROVE  Len(sent) + i \in 1..Len(Made) /\ Made[Len(sent) + i] = queue[i]
      <4>1. /\ Len(sent) + i \in 1..(Len(sent) + Len(queue))
            /\ ~ Len(sent) + i <= Len(sent) /\ (Len(sent) + i) - Len(sent) = i
        BY <2>3
      <4>2. QED
        BY <3>1, <4>1
    <3>3. QED
      BY <3>1, <3>2
  <2>7. queue[d + 1] \in Packets /\ queue[d + k] \in Packets
    BY <2>3, <2>5, ElementOfSeq
  <2>8. PICK s \in Nat, t \in Nat : s = queue[d + 1].time /\ t = queue[d + k].time
    BY <2>7 DEF Packets
  <2>9. k # 1 => s + PacketSize < t + MaxFrame
    <3>1. SUFFICES ASSUME k # 1 PROVE s + PacketSize < t + MaxFrame
      OBVIOUS
    <3>2. PICK a \in 1..Len(Made), b \in 1..Len(Made) :
            a = Len(sent) + (d + 1) /\ b = Len(sent) + (d + k)
      BY <2>5, <2>6
    <3>3. a < b
      BY <2>3, <2>4, <3>1, <3>2
    <3>4. Made[a].time + PacketSize < Made[b].time + MaxFrame
      BY <1>1, <3>3, EarlierPacket
    <3>5. QED
      BY SMTT(30), <2>5, <2>6, <2>8, <3>2, <3>4
  <2>10. ~ clock >= s + Delay
    BY <1>1, <2>2, <2>5, <2>8, DueIsGreatest DEF Inv
  <2>11. clock \in Nat
    BY <1>1, Sizes DEF Inv, TypeOK
  <2>12. IF k = 1 THEN clock < t + Delay ELSE clock + PacketSize < t + Delay + MaxFrame
    <3>1. k = 1 => s = t
      BY <2>8
    <3>2. QED
      BY <2>8, <2>9, <2>10, <2>11, <3>1, Sizes
  <2>13. QED
    BY <2>4, <2>8, <2>12
<1>2. Inv /\ [Next]_vars =>
        (DrainEnds =>
           \A k \in DOMAIN queue' :
             IF k = 1 THEN clock < queue'[k].time + Delay
                      ELSE clock + PacketSize < queue'[k].time + Delay + MaxFrame)
  BY <1>1
<1>3. QED
  BY <1>2, Invariance, PTL DEF Spec, WaitIsBounded

\* While no frame is longer than a packet, as those of MacosRecorder, what the comment of
\* opus_audio_encoder.cpp:118 says is so: no packet of age is left in the queue.
THEOREM ShortFrames == ASSUME MaxFrame <= PacketSize PROVE Spec => NoneOverdue
<1>1. ASSUME Inv, Inv',
             DrainEnds =>
               \A k \in DOMAIN queue' :
                 IF k = 1 THEN clock < queue'[k].time + Delay
                          ELSE clock + PacketSize < queue'[k].time + Delay + MaxFrame
      PROVE  DrainEnds => \A k \in DOMAIN queue' : clock < queue'[k].time + Delay
  <2>1. SUFFICES ASSUME DrainEnds, NEW k \in DOMAIN queue'
                 PROVE  clock < queue'[k].time + Delay
    OBVIOUS
  <2>2. clock \in Nat
    BY <1>1, Sizes DEF Inv, TypeOK
  <2>3. queue'[k] \in Packets
    <3>1. queue' \in Seq(Packets)
      BY <1>1 DEF Inv, TypeOK
    <3>2. k \in 1..Len(queue')
      BY <3>1, LenProperties
    <3>3. QED
      BY <3>1, <3>2, ElementOfSeq
  <2>4. PICK t \in Nat : t = queue'[k].time
    BY <2>3 DEF Packets
  <2>5. clock < t + Delay \/ clock + PacketSize < t + Delay + MaxFrame
    BY <1>1, <2>1, <2>4
  <2>6. clock < t + Delay
    BY <2>2, <2>5, Sizes
  <2>7. QED
    BY <2>4, <2>6
<1>2. (Inv /\ Inv' /\
        (DrainEnds =>
           \A k \in DOMAIN queue' :
             IF k = 1 THEN clock < queue'[k].time + Delay
                      ELSE clock + PacketSize < queue'[k].time + Delay + MaxFrame)) =>
        (DrainEnds => \A k \in DOMAIN queue' : clock < queue'[k].time + Delay)
  BY <1>1
<1>3. Spec => [][DrainEnds =>
                   \A k \in DOMAIN queue' :
                     IF k = 1 THEN clock < queue'[k].time + Delay
                              ELSE clock + PacketSize < queue'[k].time + Delay + MaxFrame]_vars
  BY WaitsAreBounded DEF WaitIsBounded
<1>4. QED
  BY <1>2, <1>3, Invariance, PTL DEF NoneOverdue
=============================================================================
