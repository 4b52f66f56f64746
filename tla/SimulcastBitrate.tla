--------------------------- MODULE SimulcastBitrate ---------------------------
(***************************************************************************)
(* How SimulcastEncoderAdapter::InitEncode divides the bit rate of the       *)
(* settings among the active layers: in proportion to what GetMaxBitrate     *)
(* takes from a table, with linear interpolation between its sizes.         *)
(*                                                                         *)
(* Sizes are in pixels and bit rates in bit/s. What the code computes in      *)
(* double is exact here and truncated where the code truncates: where a      *)
(* quotient is whole, rounding can make the code's value smaller by one.     *)
(***************************************************************************)
EXTENDS Integers, FiniteSets

CONSTANTS
  N,        \* the number of layers
  Widths,   \* the widths of frames ...
  Heights,  \* ... and the heights
  Scales,   \* the values of scale_resolution_down_by
  Rates     \* the bit rates to divide

Layers == 1..N

VARIABLES
  settings,  \* width, height and bitrate passed to InitEncode
  active,    \* the layers with param.active
  scale,     \* their scale_resolution_down_by, 1 if they have none
  step,      \* which loop it is in
  at,        \* at which layer
  sum,       \* sum_bitrate
  bitrate    \* the bit rate each encoder is given

vars == <<settings, active, scale, step, at, sum, bitrate>>
input == <<settings, active, scale>>

TypeOK ==
  /\ settings \in [width : Widths, height : Heights, bitrate : Rates]
  /\ active \subseteq Layers
  /\ scale \in [Layers -> Scales]
  /\ step \in {"sum", "divide", "done", "undefined"}
  /\ at \in 1..(N + 1)
  /\ sum \in 0..(N * 5000000)
  /\ bitrate \in [Layers -> 0..settings.bitrate]

Init ==
  /\ settings \in [width : Widths, height : Heights, bitrate : Rates]
  /\ active \in SUBSET Layers
  /\ scale \in [Layers -> Scales]
  /\ step = "sum"
  /\ at = 1
  /\ sum = 0
  /\ bitrate = [l \in Layers |-> 0]

-----------------------------------------------------------------------------

kSimulcastFormats ==
  << [area |-> 1920 * 1080, rate |-> 5000000],
     [area |-> 1280 * 720,  rate |-> 2500000],
     [area |-> 960 * 540,   rate |-> 1200000],
     [area |-> 640 * 360,   rate |-> 700000],
     [area |-> 480 * 270,   rate |-> 450000],
     [area |-> 320 * 180,   rate |-> 200000],
     [area |-> 0,           rate |-> 0] >>

\* x * r \div s, two digits of x at a time: for x below 10^8 no product leaves the
\* 32 bits of TLC's integers.
TwoDigits(acc, digits, r, s) ==
  LET n == acc.rest * 100 + digits * r
  IN  [quotient |-> acc.quotient * 100 + n \div s, rest |-> n % s]

MulDiv(x, r, s) ==
  LET Take(acc, digits) == TwoDigits(acc, digits, r, s)
      millions == Take([quotient |-> 0, rest |-> 0], x \div 1000000)
      all == Take(Take(Take(millions, (x \div 10000) % 100), (x \div 100) % 100), x % 100)
  IN  all.quotient

\* The first entry that is not larger than the area.
EntryOf(area) ==
  CHOOSE n \in 1..7 :
    /\ area >= kSimulcastFormats[n].area
    /\ \A k \in 1..(n - 1) : area < kSimulcastFormats[k].area

\* Mutant: the distance is taken from the larger entry.
GetMaxBitrateFromAbove(area) ==
  LET n == EntryOf(area)
      a == kSimulcastFormats[n]
      b == kSimulcastFormats[n - 1]
  IN  IF n = 1 THEN a.rate
      ELSE a.rate + MulDiv(b.area - area, b.rate - a.rate, b.area - a.area)

\* The table between this entry and the one before it.
GetMaxBitrate(area) ==
  LET n == EntryOf(area)
      a == kSimulcastFormats[n]
      b == kSimulcastFormats[n - 1]
  IN  IF n = 1 THEN a.rate
      ELSE a.rate + MulDiv(area - a.area, b.rate - a.rate, b.area - a.area)

AreaOf(l) == (settings.width \div scale[l]) * (settings.height \div scale[l])

\* The first loop.
AddUp ==
  /\ step = "sum" /\ at <= N
  /\ sum' = IF at \in active THEN sum + GetMaxBitrate(AreaOf(at)) ELSE sum
  /\ at' = at + 1
  /\ UNCHANGED <<input, step, bitrate>>

AddedUp ==
  /\ step = "sum" /\ at = N + 1
  /\ step' = "divide" /\ at' = 1
  /\ UNCHANGED <<input, sum, bitrate>>

Skip ==
  /\ step = "divide" /\ at <= N /\ at \notin active
  /\ at' = at + 1
  /\ UNCHANGED <<input, step, sum, bitrate>>

\* The second loop: the share of this layer, truncated.
Divide ==
  /\ step = "divide" /\ at <= N /\ at \in active
  /\ sum # 0
  /\ bitrate' = [bitrate EXCEPT ![at] =
       MulDiv(settings.bitrate, GetMaxBitrate(AreaOf(at)), sum)]
  /\ at' = at + 1
  /\ UNCHANGED <<input, step, sum>>

\* 0.0 / 0.0 is NaN, and its conversion to an integer is undefined.
DivideByZero ==
  /\ step = "divide" /\ at <= N /\ at \in active
  /\ sum = 0
  /\ step' = "undefined"
  /\ UNCHANGED <<input, at, sum, bitrate>>

Divided ==
  /\ step = "divide" /\ at = N + 1
  /\ step' = "done"
  /\ UNCHANGED <<input, at, sum, bitrate>>

Next == AddUp \/ AddedUp \/ Skip \/ Divide \/ DivideByZero \/ Divided

Spec == Init /\ [][Next]_vars

-----------------------------------------------------------------------------
(* Properties.                                                             *)

\* What is given out up to a layer.
GivenTo[l \in 0..N] == IF l = 0 THEN 0 ELSE GivenTo[l - 1] + bitrate[l]

\* The layers share the bit rate of the settings: they never get more together,
\* and truncation loses no more than a bit/s for each.
RateIsShared ==
  step = "done" /\ active # {} =>
    /\ GivenTo[N] <= settings.bitrate
    /\ settings.bitrate - GivenTo[N] <= Cardinality(active)

\* A layer with more pixels gets no less, and a layer that is not active nothing:
\* interpolation and the two truncations keep the order.
LargerGetsMore ==
  step = "done" =>
    /\ \A l \in Layers \ active : bitrate[l] = 0
    /\ \A k, l \in active : AreaOf(k) <= AreaOf(l) => bitrate[k] <= bitrate[l]

\* The division is defined unless every active layer is scaled down to no pixels at
\* all: down to a single pixel, interpolation leaves something to divide by.
UndefinedOnlyWhenTiny ==
  step = "undefined" => \A l \in active : AreaOf(l) = 0
=============================================================================
