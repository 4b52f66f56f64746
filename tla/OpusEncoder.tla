----------------------------- MODULE OpusEncoder -----------------------------
(***************************************************************************)
(* OpusAudioEncoderImpl::Encode (src/opus_audio_encoder.cpp): frames of any *)
(* length are cut into packets of 20 ms, which are sent when they are 100 ms *)
(* old.  One thread records and encodes; what lasts from one call to the     *)
(* next is the PCM buffer, the queue of packets and the timestamp.          *)
(*                                                                         *)
(* Time is counted in samples, and a sample is named by the time it was     *)
(* recorded at.  The recorders are mono: a sample stands for the two copies  *)
(* that make it stereo.  The clock is gettimeofday, which can be set back.   *)
(* Frames come with the stamps that the recorders of sumomo give them:       *)
(* FakeRecorder (fake_recorder.cpp:92) the time at which the frame ends, and *)
(* PulseRecorder (pulse_recorder.cpp:285) and MacosRecorder the sum of the   *)
(* frames so far, this one included, which is the same but for a constant.   *)
(***************************************************************************)
EXTENDS Naturals, SequencesExt

CONSTANTS
  PacketSize,   \* the samples of one packet, 20 ms
  Delay,        \* the age a packet is sent at, 100 ms
  MaxFrame,     \* bounds the samples of one frame
  MaxSamples,   \* bounds the samples recorded
  MaxTime       \* bounds the clock

ASSUME SizesAssumption == PacketSize \in Nat \ {0} /\ Delay \in Nat
ASSUME BoundsAssumption == MaxFrame \in Nat /\ MaxSamples \in Nat /\ MaxTime \in Nat

VARIABLES
  clock,     \* gettimeofday
  recorded,  \* how many samples the recorder has handed over
  left,      \* how many of the current frame are not in the buffer yet
  step,      \* where Encode is
  stamp,     \* timestamp_
  pcm,       \* pcm_buf_
  queue,     \* encoded_buf_
  sent,      \* the packets passed to the callback
  dropped,   \* history: the samples that never came into the buffer
  failed     \* history: an encoding has failed

vars == <<clock, recorded, left, step, stamp, pcm, queue, sent, dropped, failed>>

Times   == 1..MaxSamples
Packets == [samples : Seq(Times), time : Nat]

TypeOK ==
  /\ clock \in 0..MaxTime
  /\ recorded \in 0..MaxSamples
  /\ left \in 0..MaxFrame /\ left <= recorded
  /\ step \in {"idle", "push", "full", "drain"}
  /\ stamp \in Nat
  /\ pcm \in Seq(Times)
  /\ queue \in Seq(Packets) /\ sent \in Seq(Packets)
  /\ dropped \subseteq Times /\ failed \in BOOLEAN

Init ==
  /\ clock = 0
  /\ recorded = 0
  /\ left = 0
  /\ step = "idle"
  /\ stamp = 0
  /\ pcm = <<>>
  /\ queue = <<>>
  /\ sent = <<>>
  /\ dropped = {} /\ failed = FALSE

-----------------------------------------------------------------------------

\* A frame of n samples comes, with the time at which it ends.
Encode(n) ==
  /\ step = "idle" /\ recorded + n <= MaxSamples
  /\ recorded' = recorded + n
  /\ left' = n
  /\ stamp' = recorded + n
  /\ step' = "push"
  /\ UNCHANGED <<clock, pcm, queue, sent, dropped, failed>>

\* A frame of another sample rate is not encoded, and nothing is sent either.
EncodeOtherRate(n) ==
  /\ step = "idle" /\ recorded + n <= MaxSamples
  /\ recorded' = recorded + n
  /\ stamp' = recorded + n
  /\ dropped' = dropped \cup (recorded + 1)..(recorded + n)
  /\ UNCHANGED <<clock, left, step, pcm, queue, sent, failed>>

\* The next sample goes into the buffer, which may hold a packet by now.
Push ==
  /\ step = "push" /\ left > 0
  /\ pcm' = Append(pcm, recorded - left + 1)
  /\ left' = left - 1
  /\ step' = IF Len(pcm') = PacketSize THEN "full" ELSE "push"
  /\ UNCHANGED <<clock, recorded, stamp, queue, sent, dropped, failed>>

PushDone ==
  /\ step = "push" /\ left = 0
  /\ step' = "drain"
  /\ UNCHANGED <<clock, recorded, left, stamp, pcm, queue, sent, dropped, failed>>

\* Mutant: timestamp_ goes on by two packets.
EncodePacketAhead ==
  /\ step = "full"
  /\ queue' = Append(queue, [samples |-> pcm, time |-> stamp])
  /\ pcm' = <<>>
  /\ stamp' = stamp + 2 * PacketSize
  /\ step' = "push"
  /\ UNCHANGED <<clock, recorded, left, sent, dropped, failed>>

\* Mutant: pcm_buf_ is not cleared.
EncodePacketKept ==
  /\ step = "full"
  /\ queue' = Append(queue, [samples |-> pcm, time |-> stamp])
  /\ stamp' = stamp + PacketSize
  /\ step' = "push"
  /\ UNCHANGED <<clock, recorded, left, pcm, sent, dropped, failed>>

\* opus_encode_float works.
EncodePacket ==
  /\ step = "full"
  /\ queue' = Append(queue, [samples |-> pcm, time |-> stamp])
  /\ pcm' = <<>>
  /\ stamp' = stamp + PacketSize
  /\ step' = "push"
  /\ UNCHANGED <<clock, recorded, left, sent, dropped, failed>>

\* It fails, or the buffer is too small for the packet: Encode returns, and the
\* buffer stays full.
EncodePacketFails ==
  /\ step = "full"
  /\ dropped' = dropped \cup (recorded - left + 1)..recorded
  /\ left' = 0
  /\ step' = "idle" /\ failed' = TRUE
  /\ UNCHANGED <<clock, recorded, stamp, pcm, queue, sent>>

\* The packets before the first that is younger than Delay.
Due == { k \in 0..Len(queue) : \A j \in 1..k : clock >= queue[j].time + Delay }
DueCount == CHOOSE k \in Due : \A j \in Due : j <= k

\* Mutant: one packet is sent for each frame.
DrainOne ==
  /\ step = "drain"
  /\ LET k == IF DueCount = 0 THEN 0 ELSE 1
     IN  /\ sent' = sent \o SubSeq(queue, 1, k)
         /\ queue' = SubSeq(queue, k + 1, Len(queue))
  /\ step' = "idle"
  /\ UNCHANGED <<clock, recorded, left, stamp, pcm, dropped, failed>>

\* Mutant: the packet that is too young goes along.
DrainNext ==
  /\ step = "drain"
  /\ LET k == IF DueCount = Len(queue) THEN DueCount ELSE DueCount + 1
     IN  /\ sent' = sent \o SubSeq(queue, 1, k)
         /\ queue' = SubSeq(queue, k + 1, Len(queue))
  /\ step' = "idle"
  /\ UNCHANGED <<clock, recorded, left, stamp, pcm, dropped, failed>>

\* They are sent, and erased from the queue.
Drain ==
  /\ step = "drain"
  /\ sent' = sent \o SubSeq(queue, 1, DueCount)
  /\ queue' = SubSeq(queue, DueCount + 1, Len(queue))
  /\ step' = "idle"
  /\ UNCHANGED <<clock, recorded, left, stamp, pcm, dropped, failed>>

\* Time passes, or the clock is set back.
Clock ==
  /\ clock' \in { t \in 0..MaxTime : t = clock + 1 \/ t < clock }
  /\ UNCHANGED <<recorded, left, step, stamp, pcm, queue, sent, dropped, failed>>

Next ==
  \/ \E n \in 0..MaxFrame : Encode(n)
  \/ \E n \in 1..MaxFrame : EncodeOtherRate(n)
  \/ Push \/ PushDone \/ EncodePacket \/ EncodePacketFails \/ Drain \/ Clock

Spec == Init /\ [][Next]_vars

-----------------------------------------------------------------------------
(* Properties.                                                             *)

Made == sent \o queue

\* The samples of the packets, in their order, and those in the buffer.
Runs == Append([k \in DOMAIN Made |-> Made[k].samples], pcm)

\* What was recorded and not dropped is in the packets and the buffer, once, in
\* order and without a gap, however frames and packets overlap.
AudioIsWhole ==
  /\ \A k \in DOMAIN Runs : \A i, j \in DOMAIN Runs[k] : i < j => Runs[k][i] < Runs[k][j]
  /\ \A j, k \in DOMAIN Runs : j < k => \A s \in ToSet(Runs[j]), t \in ToSet(Runs[k]) : s < t
  /\ UNION {ToSet(Runs[k]) : k \in DOMAIN Runs} = (1..(recorded - left)) \ dropped

\* A packet starts in the middle of a frame or in an earlier one, but the timestamp
\* restarts with every frame: the time of a packet is later than its last sample,
\* and by less than a frame.
TimeOfPacket ==
  \A k \in DOMAIN Made :
    LET last == Made[k].samples[PacketSize]
    IN  last <= Made[k].time /\ Made[k].time < last + MaxFrame

\* The times of the packets may repeat and fall from one frame to the next, but by
\* less than a frame is longer than a packet: when no frame is, they increase.
TimesFallLittle ==
  \A j, k \in DOMAIN Made :
    j < k => Made[j].time + PacketSize < Made[k].time + MaxFrame

\* What holds of the audio in every state (Encode, opus_audio_encoder.cpp:59, 67
\* and 113).
PacketsAreRight == TypeOK /\ AudioIsWhole /\ TimeOfPacket /\ TimesFallLittle

\* No packet is sent before its age, also when the clock is set back
\* (opus_audio_encoder.cpp:121).
SentOfAge ==
  [][\A k \in DOMAIN sent' : k > Len(sent) => clock >= sent'[k].time + Delay]_vars

DrainEnds == step = "drain" /\ step' = "idle"

\* A call that ends normally leaves a packet of age in the queue only behind one that
\* is too young, since it stops at the first (line 119), and then its wait is longer
\* than Delay by less than a frame is longer than a packet.
WaitIsBounded ==
  [][DrainEnds =>
       \A k \in DOMAIN queue' :
         IF k = 1 THEN clock < queue'[k].time + Delay
                  ELSE clock + PacketSize < queue'[k].time + Delay + MaxFrame]_vars

\* The comment of line 118: packets that are 100 ms old are sent, so that a call that
\* ends normally leaves none.  It is so only where no frame is longer than a packet:
\* behind a longer one times fall, and find_if stops too early.
NoneOverdue ==
  [][DrainEnds => \A k \in DOMAIN queue' : clock < queue'[k].time + Delay]_vars

\* A packet is encoded whenever there are 20 ms, as line 84 says, but for good no more
\* after one failed encoding: the buffer is then left full (line 109), and outgrows
\* the size that it is compared with by ==.  Nothing else stalls the encoder.
StallIsFailure == failed <=> Len(pcm) >= PacketSize /\ step # "full"
=============================================================================
