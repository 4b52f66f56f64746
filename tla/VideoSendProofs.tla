------------------------- MODULE VideoSendProofs -------------------------
(***************************************************************************)
(* Proofs about VideoSend, for any number of layers and any sizes: which    *)
(* encoders a frame finds, that a key frame follows a PLI, and that with     *)
(* encoders that call back before they return every picture has the size of *)
(* its frame and goes to the stream of its layer.                           *)
(***************************************************************************)
EXTENDS VideoSend, TLAPS

\* Layers that the offer does not have are left alone.
Beyond ==
  \A l \in Layers : l > Count => encoder[l] = NoEncoder /\ picture[l] = NoPicture

\* Where the capturer is tells whether the settings are those of its frame; the
\* size that failed is never that of the settings.
Places ==
  /\ pli.at <= Count
  /\ at <= Count + 1
  /\ capturer \in {"release", "init"} => settings # frame.size
  /\ capturer \in {"encode", "sending"} => settings = frame.size
  /\ failed # None => failed # settings

Made(l, state, size) == IF l \in active THEN [state |-> state, size |-> size] ELSE NoEncoder

\* Release has emptied the layers before the one it is at.
Gone ==
  capturer = "release" => \A l \in 1..Count : l < at => encoder[l] = NoEncoder

\* InitEncode has made the encoders before the layer it is at, and no other is left.
MadeSoFar ==
  capturer = "init" =>
    \A l \in 1..Count :
      encoder[l] = IF l < at THEN Made(l, "ready", frame.size) ELSE NoEncoder

\* Unless InitEncode has failed, the encoders are those of the settings.
AllInPlace ==
  failed = None /\ capturer \in {"idle", "encode", "sending"} =>
    \A l \in 1..Count :
      encoder[l] = IF settings = None THEN NoEncoder ELSE Made(l, "installed", settings)

\* An encoder with a callback has the size of the settings.
InstalledIsCurrent ==
  \A l \in 1..Count : encoder[l].state = "installed" =>
    failed = None /\ encoder[l].size = settings

NoneIsNoPicture == \A l \in Layers : picture[l].state = "none" => picture[l] = NoPicture

\* With OpenH264 a picture is on its way only while the capturer waits for it; it is
\* that of the frame, and the shared rid is its own once it has been stored.
PicturesInPlace ==
  backend = "OpenH264" => \A l \in Layers : picture[l].state # "none" =>
    /\ capturer = "sending"
    /\ RidOf(l) = frame.rid
    /\ picture[l].size = frame.size
    /\ picture[l].state = "labelled" => rid = RidOf(l)

\* With OpenH264 a key frame that is owed is on its way, is asked for, or will be made
\* by the encoder that comes next.
Keys ==
  backend = "OpenH264" => \A l \in wanted :
    \/ picture[l].state = "none" /\ (l \in key \/ encoder[l].state \in {"null", "failed"})
    \/ picture[l].state # "none" /\ picture[l].key = "yes"

Inv ==
  /\ TypeOK /\ Beyond /\ Places
  /\ Gone /\ MadeSoFar /\ AllInPlace /\ InstalledIsCurrent
  /\ NoneIsNoPicture /\ PicturesInPlace /\ Keys

LEMMA CountBound == ASSUME simulcast \in BOOLEAN PROVE Count \in 1..N
  BY NAssumption DEF Count

-----------------------------------------------------------------------------

LEMMA SendVideoFrameInv ==
  ASSUME Inv, NEW s \in Sizes, NEW r \in Layers \cup {None}, SendVideoFrame(s, r)
  PROVE  Inv'
<1> USE NoneAssumption DEF Layers, NoEncoder, NoPicture
<1>a. UNCHANGED <<backend, simulcast, active, settings, encoder, key, rid, picture,
                  image, pli, wanted, failed, program>>
  BY DEF SendVideoFrame, params, sending, pliVars
<1>b. /\ capturer = "idle"
      /\ frame' = [size |-> s, rid |-> r] /\ frame'.size = s
      /\ capturer' \in {"encode", "release"}
      /\ capturer' = "encode" <=> settings = s
      /\ at' = 1
  BY DEF SendVideoFrame
<1>c. /\ N \in Nat /\ Count \in 1..N /\ Count' = Count
      /\ \A k \in Layers : RidOf(k)' = RidOf(k)
  BY <1>a, CountBound, NAssumption DEF Inv, TypeOK, Count, RidOf
<1>d. at \in 1..(N + 1) /\ pli.at \in 0..N /\ at <= Count + 1 /\ pli.at <= Count
  BY DEF Inv, TypeOK, Plis, Places
<1>e. at' \in 1..(N + 1) /\ at' <= Count' + 1
  BY <1>b, <1>c, <1>d
<1>1. TypeOK'
  <2>1. frame' \in Frames /\ capturer' \in {"encode", "release"}
    BY <1>b DEF Frames
  <2>2. QED
    BY <1>a, <1>b, <1>e, <2>1 DEF Inv, TypeOK
<1>2. Beyond'
  BY <1>a, <1>b, <1>c, <1>d DEF Inv, Beyond
<1>3. Places'
  BY <1>a, <1>b, <1>c, <1>d DEF Inv, Places
<1>4. Gone'
  BY <1>a, <1>b, <1>c, <1>d DEF Inv, Gone
<1>5. MadeSoFar'
  BY <1>a, <1>b, <1>c, <1>d DEF Inv, MadeSoFar, Made
<1>6. AllInPlace'
  BY <1>a, <1>b, <1>c, <1>d DEF Inv, AllInPlace, Made
<1>7. InstalledIsCurrent'
  BY <1>a, <1>b, <1>c, <1>d DEF Inv, InstalledIsCurrent
<1>8. NoneIsNoPicture'
  BY <1>a, <1>b, <1>c, <1>d DEF Inv, NoneIsNoPicture
<1>9. PicturesInPlace'
  BY <1>a, <1>b, <1>c, <1>d DEF Inv, PicturesInPlace
<1>10. Keys'
  BY <1>a, <1>b, <1>c, <1>d DEF Inv, Keys
<1>11. QED
  BY <1>1, <1>2, <1>3, <1>4, <1>5, <1>6, <1>7, <1>8, <1>9, <1>10 DEF Inv

LEMMA ReleaseEncoderInv == ASSUME Inv, ReleaseEncoder PROVE Inv'
<1> USE NoneAssumption DEF Layers, NoEncoder, NoPicture
<1>a. UNCHANGED <<backend, simulcast, active, settings, capturer, frame, rid,
                  image, wanted, failed, program>>
  BY DEF ReleaseEncoder, params, sending, pliVars
<1>b. /\ capturer = "release" /\ at <= Count /\ at' = at + 1
      /\ encoder' = [encoder EXCEPT ![at] = NoEncoder]
      /\ picture' = [picture EXCEPT ![at] = NoPicture]
      /\ key' = key \ {at}
      /\ pli' = IF pli = [at |-> at, holds |-> "encoder"]
                  THEN [pli EXCEPT !.holds = "dangling"] ELSE pli
  BY DEF ReleaseEncoder
<1>c. /\ N \in Nat /\ Count \in 1..N /\ Count' = Count
      /\ \A k \in Layers : RidOf(k)' = RidOf(k)
  BY <1>a, CountBound, NAssumption DEF Inv, TypeOK, Count, RidOf
<1>d. at \in 1..(N + 1) /\ pli.at \in 0..N /\ at <= Count + 1 /\ pli.at <= Count
  BY DEF Inv, TypeOK, Plis, Places
<1>e. at' \in 1..(N + 1) /\ at' <= Count' + 1
  BY <1>b, <1>c, <1>d
<1>1. TypeOK'
  <2>1. encoder' \in [Layers -> Encoders]
    BY <1>b DEF Inv, TypeOK, Encoders
  <2>2. picture' \in [Layers -> Pictures]
    BY <1>b DEF Inv, TypeOK, Pictures
  <2>3. pli' \in Plis
    BY <1>b DEF Inv, TypeOK, Plis
  <2>4. key' \subseteq Layers
    BY <1>b DEF Inv, TypeOK
  <2>5. QED
    BY <1>a, <1>b, <1>e, <2>1, <2>2, <2>3, <2>4 DEF Inv, TypeOK
<1>2. Beyond'
  BY <1>a, <1>b, <1>c, <1>d DEF Inv, Beyond
<1>3. Places'
  <2>1. pli'.at = pli.at
    BY <1>b DEF Inv, TypeOK, Plis
  <2>2. QED
    BY <1>a, <1>c, <1>e, <2>1 DEF Inv, Places
<1>4. Gone'
  <2> SUFFICES ASSUME NEW k \in 1..Count, k < at + 1 PROVE encoder'[k] = NoEncoder
    BY <1>a, <1>b, <1>c DEF Gone
  <2>1. k \in Layers /\ (k = at \/ k < at)
    BY <1>c, <1>d
  <2>2. CASE k = at
    BY <1>b, <2>1, <2>2 DEF Inv, TypeOK
  <2>3. CASE k < at
    BY <1>b, <1>d, <2>1, <2>3 DEF Inv, TypeOK, Gone
  <2>4. QED
    BY <2>1, <2>2, <2>3
<1>5. MadeSoFar'
  BY <1>a, <1>b, <1>c, <1>d DEF Inv, MadeSoFar, Made
<1>6. AllInPlace'
  BY <1>a, <1>b, <1>c, <1>d DEF Inv, AllInPlace, Made
<1>7. InstalledIsCurrent'
  BY <1>a, <1>b, <1>c, <1>d DEF Inv, InstalledIsCurrent
<1>8. NoneIsNoPicture'
  BY <1>a, <1>b, <1>c, <1>d DEF Inv, NoneIsNoPicture
<1>9. PicturesInPlace'
  BY <1>a, <1>b, <1>c, <1>d DEF Inv, PicturesInPlace
<1>10. Keys'
  BY <1>a, <1>b, <1>c, <1>d DEF Inv, TypeOK, Keys
<1>11. QED
  BY <1>1, <1>2, <1>3, <1>4, <1>5, <1>6, <1>7, <1>8, <1>9, <1>10 DEF Inv

LEMMA ReleasedInv == ASSUME Inv, Released PROVE Inv'
<1> USE NoneAssumption DEF Layers, NoEncoder, NoPicture
<1>a. UNCHANGED <<backend, simulcast, active, settings, encoder, key, frame, rid,
                  picture, image, pli, wanted, failed, program>>
  BY DEF Released, params, sending, pliVars
<1>b. /\ capturer = "release" /\ at = Count + 1
      /\ capturer' = "init" /\ at' = 1
  BY DEF Released
<1>c. /\ N \in Nat /\ Count \in 1..N /\ Count' = Count
      /\ \A k \in Layers : RidOf(k)' = RidOf(k)
  BY <1>a, CountBound, NAssumption DEF Inv, TypeOK, Count, RidOf
<1>d. at \in 1..(N + 1) /\ pli.at \in 0..N /\ at <= Count + 1 /\ pli.at <= Count
  BY DEF Inv, TypeOK, Plis, Places
<1>e. at' \in 1..(N + 1) /\ at' <= Count' + 1
  BY <1>b, <1>c, <1>d
<1>1. TypeOK'
  <2>1. QED
    BY <1>a, <1>b, <1>e DEF Inv, TypeOK
<1>2. Beyond'
  BY <1>a, <1>b, <1>c, <1>d DEF Inv, Beyond
<1>3. Places'
  BY <1>a, <1>b, <1>c, <1>d DEF Inv, Places
<1>4. Gone'
  BY <1>a, <1>b, <1>c, <1>d DEF Inv, Gone
<1>5. MadeSoFar'
  <2> SUFFICES ASSUME NEW k \in 1..Count PROVE encoder[k] = NoEncoder /\ ~ k < 1
    BY <1>a, <1>b, <1>c DEF MadeSoFar
  <2>1. k < at /\ ~ k < 1
    BY <1>b, <1>c
  <2>2. QED
    BY <1>b, <2>1 DEF Inv, Gone
<1>6. AllInPlace'
  BY <1>a, <1>b, <1>c, <1>d DEF Inv, AllInPlace, Made
<1>7. InstalledIsCurrent'
  BY <1>a, <1>b, <1>c, <1>d DEF Inv, InstalledIsCurrent
<1>8. NoneIsNoPicture'
  BY <1>a, <1>b, <1>c, <1>d DEF Inv, NoneIsNoPicture
<1>9. PicturesInPlace'
  BY <1>a, <1>b, <1>c, <1>d DEF Inv, PicturesInPlace
<1>10. Keys'
  BY <1>a, <1>b, <1>c, <1>d DEF Inv, Keys
<1>11. QED
  BY <1>1, <1>2, <1>3, <1>4, <1>5, <1>6, <1>7, <1>8, <1>9, <1>10 DEF Inv

LEMMA SkipInactiveInv == ASSUME Inv, SkipInactive PROVE Inv'
<1> USE NoneAssumption DEF Layers, NoEncoder, NoPicture
<1>a. UNCHANGED <<backend, simulcast, active, settings, encoder, key, capturer,
                  frame, rid, picture, image, pli, wanted, failed, program>>
  BY DEF SkipInactive, params, sending, pliVars
<1>b. /\ capturer = "init" /\ at <= Count /\ at \notin active
      /\ at' = at + 1
  BY DEF SkipInactive
<1>c. /\ N \in Nat /\ Count \in 1..N /\ Count' = Count
      /\ \A k \in Layers : RidOf(k)' = RidOf(k)
  BY <1>a, CountBound, NAssumption DEF Inv, TypeOK, Count, RidOf
<1>d. at \in 1..(N + 1) /\ pli.at \in 0..N /\ at <= Count + 1 /\ pli.at <= Count
  BY DEF Inv, TypeOK, Plis, Places
<1>e. at' \in 1..(N + 1) /\ at' <= Count' + 1
  BY <1>b, <1>c, <1>d
<1>1. TypeOK'
  <2>1. QED
    BY <1>a, <1>b, <1>e DEF Inv, TypeOK
<1>2. Beyond'
  BY <1>a, <1>b, <1>c, <1>d DEF Inv, Beyond
<1>3. Places'
  BY <1>a, <1>c, <1>d, <1>e DEF Inv, Places
<1>4. Gone'
  BY <1>a, <1>b, <1>c, <1>d DEF Inv, Gone
<1>5. MadeSoFar'
  BY <1>a, <1>b, <1>c, <1>d DEF Inv, MadeSoFar, Made
<1>6. AllInPlace'
  BY <1>a, <1>b, <1>c, <1>d DEF Inv, AllInPlace, Made
<1>7. InstalledIsCurrent'
  BY <1>a, <1>b, <1>c, <1>d DEF Inv, InstalledIsCurrent
<1>8. NoneIsNoPicture'
  BY <1>a, <1>b, <1>c, <1>d DEF Inv, NoneIsNoPicture
<1>9. PicturesInPlace'
  BY <1>a, <1>b, <1>c, <1>d DEF Inv, PicturesInPlace
<1>10. Keys'
  BY <1>a, <1>b, <1>c, <1>d DEF Inv, Keys
<1>11. QED
  BY <1>1, <1>2, <1>3, <1>4, <1>5, <1>6, <1>7, <1>8, <1>9, <1>10 DEF Inv

LEMMA InitEncoderInv == ASSUME Inv, InitEncoder PROVE Inv'
<1> USE NoneAssumption DEF Layers, NoEncoder, NoPicture
<1>a. UNCHANGED <<backend, simulcast, active, settings, capturer, frame, rid,
                  picture, image, pli, wanted, failed, program>>
  BY DEF InitEncoder, params, sending, pliVars
<1>b. /\ capturer = "init" /\ at <= Count /\ at \in active
      /\ encoder' = [encoder EXCEPT ![at] = [state |-> "ready", size |-> frame.size]]
      /\ key' = key \cup {at}
      /\ at' = at + 1
  BY DEF InitEncoder
<1>c. /\ N \in Nat /\ Count \in 1..N /\ Count' = Count
      /\ \A k \in Layers : RidOf(k)' = RidOf(k)
  BY <1>a, CountBound, NAssumption DEF Inv, TypeOK, Count, RidOf
<1>d. at \in 1..(N + 1) /\ pli.at \in 0..N /\ at <= Count + 1 /\ pli.at <= Count
  BY DEF Inv, TypeOK, Plis, Places
<1>e. at' \in 1..(N + 1) /\ at' <= Count' + 1
  BY <1>b, <1>c, <1>d
<1>1. TypeOK'
  <2>1. frame.size \in Sizes
    BY DEF Inv, TypeOK, Frames
  <2>2. encoder' \in [Layers -> Encoders]
    BY <1>b, <2>1 DEF Inv, TypeOK, Encoders
  <2>3. key' \subseteq Layers
    BY <1>b DEF Inv, TypeOK
  <2>4. QED
    BY <1>a, <1>b, <1>e, <2>1, <2>2, <2>3 DEF Inv, TypeOK
<1>2. Beyond'
  BY <1>a, <1>b, <1>c, <1>d DEF Inv, Beyond
<1>3. Places'
  BY <1>a, <1>c, <1>d, <1>e DEF Inv, Places
<1>4. Gone'
  BY <1>a, <1>b, <1>c, <1>d DEF Inv, Gone
<1>5. MadeSoFar'
  <2> SUFFICES ASSUME NEW k \in 1..Count
               PROVE  encoder'[k] = IF k < at + 1 THEN Made(k, "ready", frame.size) ELSE NoEncoder
    BY <1>a, <1>b, <1>c DEF MadeSoFar, Made
  <2>1. k \in Layers /\ (k = at => k < at + 1) /\ (k # at => (k < at + 1 <=> k < at))
    BY <1>c, <1>d
  <2>2. CASE k = at
    BY <1>b, <2>1, <2>2 DEF Inv, TypeOK, Made
  <2>3. CASE k # at
    <3>1. encoder'[k] = encoder[k]
      BY <1>b, <2>1, <2>3 DEF Inv, TypeOK
    <3>2. encoder[k] = IF k < at THEN Made(k, "ready", frame.size) ELSE NoEncoder
      BY <1>b DEF Inv, MadeSoFar
    <3>3. QED
      BY <2>1, <2>3, <3>1, <3>2
  <2>4. QED
    BY <2>2, <2>3
<1>6. AllInPlace'
  BY <1>a, <1>b, <1>c, <1>d DEF Inv, AllInPlace, Made
<1>7. InstalledIsCurrent'
  BY <1>a, <1>b, <1>c, <1>d DEF Inv, InstalledIsCurrent
<1>8. NoneIsNoPicture'
  BY <1>a, <1>b, <1>c, <1>d DEF Inv, NoneIsNoPicture
<1>9. PicturesInPlace'
  BY <1>a, <1>b, <1>c, <1>d DEF Inv, PicturesInPlace
<1>10. Keys'
  BY <1>a, <1>b, <1>c, <1>d DEF Inv, Keys
<1>11. QED
  BY <1>1, <1>2, <1>3, <1>4, <1>5, <1>6, <1>7, <1>8, <1>9, <1>10 DEF Inv

LEMMA InitEncoderFailsInv == ASSUME Inv, InitEncoderFails PROVE Inv'
<1> USE NoneAssumption DEF Layers, NoEncoder, NoPicture
<1>a. UNCHANGED <<backend, simulcast, active, settings, key, frame, at, rid,
                  picture, image, pli, wanted, program>>
  BY DEF InitEncoderFails, params, sending, pliVars
<1>b. /\ capturer = "init" /\ at <= Count /\ at \in active
      /\ encoder' = [encoder EXCEPT ![at] = [state |-> "failed", size |-> frame.size]]
      /\ failed' = frame.size
      /\ capturer' = "idle"
  BY DEF InitEncoderFails
<1>c. /\ N \in Nat /\ Count \in 1..N /\ Count' = Count
      /\ \A k \in Layers : RidOf(k)' = RidOf(k)
  BY <1>a, CountBound, NAssumption DEF Inv, TypeOK, Count, RidOf
<1>d. at \in 1..(N + 1) /\ pli.at \in 0..N /\ at <= Count + 1 /\ pli.at <= Count
  BY DEF Inv, TypeOK, Plis, Places
<1>1. TypeOK'
  BY ZenonT(30), <1>a, <1>b, <1>c, <1>d DEF Inv, TypeOK, Beyond, Places, Gone, MadeSoFar,
                                AllInPlace, InstalledIsCurrent, NoneIsNoPicture,
                                PicturesInPlace, Keys, Made, Encoders, Frames,
                                Pictures, Images, Plis, PliNext
<1>2. Beyond'
  BY <1>a, <1>b, <1>c, <1>d DEF Inv, Beyond
<1>3. Places'
  BY <1>a, <1>b, <1>c, <1>d DEF Inv, Places
<1>4. Gone'
  BY <1>a, <1>b, <1>c, <1>d DEF Inv, Gone
<1>5. MadeSoFar'
  BY <1>a, <1>b, <1>c, <1>d DEF Inv, MadeSoFar, Made
<1>6. AllInPlace'
  BY <1>a, <1>b, <1>c, <1>d DEF Inv, TypeOK, Beyond, Places, Gone, MadeSoFar,
                                AllInPlace, InstalledIsCurrent, NoneIsNoPicture,
                                PicturesInPlace, Keys, Made, Encoders, Frames,
                                Pictures, Images, Plis, PliNext
<1>7. InstalledIsCurrent'
  <2> SUFFICES ASSUME NEW k \in 1..Count PROVE encoder'[k].state # "installed"
    BY <1>c DEF InstalledIsCurrent
  <2>1. k \in Layers
    BY <1>c
  <2>2. CASE k = at
    BY <1>b, <2>1, <2>2 DEF Inv, TypeOK
  <2>3. CASE k # at
    <3>1. encoder'[k] = encoder[k]
      BY <1>b, <2>1, <2>3 DEF Inv, TypeOK
    <3>2. encoder[k].state # "installed"
      BY <1>b DEF Inv, MadeSoFar, Made
    <3>3. QED
      BY <3>1, <3>2
  <2>4. QED
    BY <2>2, <2>3
<1>8. NoneIsNoPicture'
  BY <1>a, <1>b, <1>c, <1>d DEF Inv, NoneIsNoPicture
<1>9. PicturesInPlace'
  BY <1>a, <1>b, <1>c, <1>d DEF Inv, PicturesInPlace
<1>10. Keys'
  BY <1>a, <1>b, <1>c, <1>d DEF Inv, Keys
<1>11. QED
  BY <1>1, <1>2, <1>3, <1>4, <1>5, <1>6, <1>7, <1>8, <1>9, <1>10 DEF Inv

LEMMA InstallInv == ASSUME Inv, Install PROVE Inv'
<1> USE NoneAssumption DEF Layers, NoEncoder, NoPicture
<1>a. UNCHANGED <<backend, simulcast, active, key, frame, at, rid, picture, image,
                  pli, wanted, program>>
  BY DEF Install, params, sending, pliVars
<1>b. /\ capturer = "init" /\ at = Count + 1
      /\ settings' = frame.size
      /\ encoder' = [k \in Layers |->
           IF encoder[k] = NoEncoder THEN NoEncoder
                                     ELSE [encoder[k] EXCEPT !.state = "installed"]]
      /\ failed' = None
      /\ capturer' = "encode"
  BY DEF Install
<1>c. /\ N \in Nat /\ Count \in 1..N /\ Count' = Count
      /\ \A k \in Layers : RidOf(k)' = RidOf(k)
  BY <1>a, CountBound, NAssumption DEF Inv, TypeOK, Count, RidOf
<1>d. at \in 1..(N + 1) /\ pli.at \in 0..N /\ at <= Count + 1 /\ pli.at <= Count
  BY DEF Inv, TypeOK, Plis, Places
<1>1. TypeOK'
  <2>1. frame.size \in Sizes
    BY DEF Inv, TypeOK, Frames
  <2>2. ASSUME NEW k \in Layers PROVE encoder'[k] \in Encoders
    BY <1>b DEF Inv, TypeOK, Encoders
  <2>3. encoder' \in [Layers -> Encoders]
    BY <1>b, <2>2
  <2>4. QED
    BY <1>a, <1>b, <2>1, <2>2, <2>3 DEF Inv, TypeOK
<1>2. Beyond'
  BY <1>a, <1>b, <1>c, <1>d DEF Inv, Beyond
<1>3. Places'
  BY <1>a, <1>b, <1>c, <1>d DEF Inv, Places
<1>4. Gone'
  BY <1>a, <1>b, <1>c, <1>d DEF Inv, Gone
<1>5. MadeSoFar'
  BY <1>a, <1>b, <1>c, <1>d DEF Inv, MadeSoFar, Made
<1>6. AllInPlace'
  <2>1. frame.size # None
    BY DEF Inv, TypeOK, Frames
  <2>2. ASSUME NEW k \in 1..Count PROVE encoder'[k] = Made(k, "installed", frame.size)
    <3>1. k \in Layers /\ k < at
      BY <1>b, <1>c
    <3>2. encoder[k] = Made(k, "ready", frame.size)
      BY <1>b, <3>1 DEF Inv, MadeSoFar
    <3>3. CASE k \in active
      BY <1>b, <3>1, <3>2, <3>3 DEF Made
    <3>4. CASE k \notin active
      BY <1>b, <3>1, <3>2, <3>4 DEF Made
    <3>5. QED
      BY <3>3, <3>4
  <2>3. QED
    BY <1>a, <1>b, <1>c, <2>1, <2>2 DEF AllInPlace, Made
<1>7. InstalledIsCurrent'
  <2> SUFFICES ASSUME NEW k \in 1..Count, encoder'[k].state = "installed"
               PROVE  encoder'[k].size = settings'
    BY <1>b, <1>c DEF InstalledIsCurrent
  <2>1. settings' # None
    BY <1>b DEF Inv, TypeOK, Frames
  <2>2. encoder'[k] = IF k \in active THEN [state |-> "installed", size |-> settings'] ELSE NoEncoder
    BY <1>6, <1>a, <1>b, <1>c, <2>1 DEF AllInPlace, Made
  <2>3. QED
    BY <2>2
<1>8. NoneIsNoPicture'
  BY <1>a, <1>b, <1>c, <1>d DEF Inv, NoneIsNoPicture
<1>9. PicturesInPlace'
  BY <1>a, <1>b, <1>c, <1>d DEF Inv, PicturesInPlace
<1>10. Keys'
  <2> SUFFICES ASSUME NEW k \in wanted, encoder[k].state \in {"null", "failed"}
               PROVE  encoder'[k].state = "null"
    BY <1>a DEF Inv, Keys
  <2>1. k \in Layers
    BY DEF Inv, TypeOK
  <2>2. encoder[k] = NoEncoder
    <3>1. CASE k > Count
      BY <2>1, <3>1 DEF Inv, Beyond
    <3>2. CASE ~ k > Count
      <4>1. k \in 1..Count /\ k < at
        BY <1>b, <1>c, <2>1, <3>2
      <4>2. encoder[k] = Made(k, "ready", frame.size)
        BY <1>b, <4>1 DEF Inv, MadeSoFar
      <4>3. QED
        BY <4>2 DEF Made
    <3>3. QED
      BY <3>1, <3>2
  <2>3. QED
    BY <1>b, <2>1, <2>2
<1>11. QED
  BY <1>1, <1>2, <1>3, <1>4, <1>5, <1>6, <1>7, <1>8, <1>9, <1>10 DEF Inv

LEMMA EncodeNothingInv == ASSUME Inv, EncodeNothing PROVE Inv'
<1> USE NoneAssumption DEF Layers, NoEncoder, NoPicture
<1>a. UNCHANGED <<backend, simulcast, active, settings, encoder, key, frame, at,
                  rid, picture, image, pli, wanted, failed, program>>
  BY DEF EncodeNothing, params, sending, pliVars
<1>b. capturer = "encode" /\ capturer' = "idle"
  BY DEF EncodeNothing
<1>c. /\ N \in Nat /\ Count \in 1..N /\ Count' = Count
      /\ \A k \in Layers : RidOf(k)' = RidOf(k)
  BY <1>a, CountBound, NAssumption DEF Inv, TypeOK, Count, RidOf
<1>d. at \in 1..(N + 1) /\ pli.at \in 0..N /\ at <= Count + 1 /\ pli.at <= Count
  BY DEF Inv, TypeOK, Plis, Places
<1>1. TypeOK'
  BY <1>a, <1>b, <1>c, <1>d DEF Inv, TypeOK
<1>2. Beyond'
  BY <1>a, <1>b, <1>c, <1>d DEF Inv, Beyond
<1>3. Places'
  BY <1>a, <1>b, <1>c, <1>d DEF Inv, Places
<1>4. Gone'
  BY <1>a, <1>b, <1>c, <1>d DEF Inv, Gone
<1>5. MadeSoFar'
  BY <1>a, <1>b, <1>c, <1>d DEF Inv, MadeSoFar, Made
<1>6. AllInPlace'
  BY <1>a, <1>b, <1>c, <1>d DEF Inv, AllInPlace, Made
<1>7. InstalledIsCurrent'
  BY <1>a, <1>b, <1>c, <1>d DEF Inv, InstalledIsCurrent
<1>8. NoneIsNoPicture'
  BY <1>a, <1>b, <1>c, <1>d DEF Inv, NoneIsNoPicture
<1>9. PicturesInPlace'
  BY <1>a, <1>b, <1>c, <1>d DEF Inv, PicturesInPlace
<1>10. Keys'
  BY <1>a, <1>b, <1>c, <1>d DEF Inv, Keys
<1>11. QED
  BY <1>1, <1>2, <1>3, <1>4, <1>5, <1>6, <1>7, <1>8, <1>9, <1>10 DEF Inv

LEMMA EncodeNotReadyInv ==
  ASSUME Inv, NEW l \in Layers, EncodeNotReady(l)
  PROVE  Inv'
<1> USE NoneAssumption DEF Layers, NoEncoder, NoPicture
<1>a. UNCHANGED <<backend, simulcast, active, settings, encoder, key, frame, at,
                  rid, picture, image, pli, wanted, failed>>
  BY DEF EncodeNotReady, params, sending, pliVars
<1>b. /\ capturer = "encode" /\ l \in 1..Count /\ RidOf(l) = frame.rid
      /\ encoder[l].state \in {"failed", "ready"}
      /\ program' \in {"not ready", program}
      /\ capturer' = "idle"
  BY DEF EncodeNotReady, Target
<1>c. /\ N \in Nat /\ Count \in 1..N /\ Count' = Count
      /\ \A k \in Layers : RidOf(k)' = RidOf(k)
  BY <1>a, CountBound, NAssumption DEF Inv, TypeOK, Count, RidOf
<1>d. at \in 1..(N + 1) /\ pli.at \in 0..N /\ at <= Count + 1 /\ pli.at <= Count
  BY DEF Inv, TypeOK, Plis, Places
<1>1. TypeOK'
  BY <1>a, <1>b, <1>c, <1>d DEF Inv, TypeOK
<1>2. Beyond'
  BY <1>a, <1>b, <1>c, <1>d DEF Inv, Beyond
<1>3. Places'
  BY <1>a, <1>b, <1>c, <1>d DEF Inv, Places
<1>4. Gone'
  BY <1>a, <1>b, <1>c, <1>d DEF Inv, Gone
<1>5. MadeSoFar'
  BY <1>a, <1>b, <1>c, <1>d DEF Inv, MadeSoFar, Made
<1>6. AllInPlace'
  BY <1>a, <1>b, <1>c, <1>d DEF Inv, AllInPlace, Made
<1>7. InstalledIsCurrent'
  BY <1>a, <1>b, <1>c, <1>d DEF Inv, InstalledIsCurrent
<1>8. NoneIsNoPicture'
  BY <1>a, <1>b, <1>c, <1>d DEF Inv, NoneIsNoPicture
<1>9. PicturesInPlace'
  BY <1>a, <1>b, <1>c, <1>d DEF Inv, PicturesInPlace
<1>10. Keys'
  BY <1>a, <1>b, <1>c, <1>d DEF Inv, Keys
<1>11. QED
  BY <1>1, <1>2, <1>3, <1>4, <1>5, <1>6, <1>7, <1>8, <1>9, <1>10 DEF Inv

LEMMA EncodePictureInv ==
  ASSUME Inv, NEW l \in Layers, EncodePicture(l)
  PROVE  Inv'
<1> USE NoneAssumption DEF Layers, NoEncoder, NoPicture
<1>a. UNCHANGED <<backend, simulcast, active, settings, encoder, frame, at, rid,
                  image, pli, wanted, failed, program>>
  BY DEF EncodePicture, params, sending, pliVars
<1>b. /\ capturer = "encode" /\ l \in 1..Count /\ RidOf(l) = frame.rid
      /\ encoder[l].state = "installed"
      /\ picture[l].state = "none"
      /\ picture' = [picture EXCEPT ![l] =
           [state |-> "encoded", size |-> encoder[l].size,
            key   |-> IF l \in key THEN "yes" ELSE "no"]]
      /\ key' = key \ {l}
      /\ capturer' = IF backend = "OpenH264" THEN "sending" ELSE "idle"
  BY DEF EncodePicture, Target
<1>c. /\ N \in Nat /\ Count \in 1..N /\ Count' = Count
      /\ \A k \in Layers : RidOf(k)' = RidOf(k)
  BY <1>a, CountBound, NAssumption DEF Inv, TypeOK, Count, RidOf
<1>d. at \in 1..(N + 1) /\ pli.at \in 0..N /\ at <= Count + 1 /\ pli.at <= Count
  BY DEF Inv, TypeOK, Plis, Places
<1>1. TypeOK'
  <2>1. l \in Layers /\ encoder[l].size \in Sizes \cup {None}
    BY DEF Inv, TypeOK, Encoders
  <2>2. picture' \in [Layers -> Pictures]
    BY <1>b, <2>1 DEF Inv, TypeOK, Pictures
  <2>3. key' \subseteq Layers /\ capturer' \in {"sending", "idle"}
    BY <1>b DEF Inv, TypeOK
  <2>4. QED
    BY <1>a, <1>b, <2>1, <2>2, <2>3 DEF Inv, TypeOK
<1>2. Beyond'
  BY <1>a, <1>b, <1>c, <1>d DEF Inv, Beyond
<1>3. Places'
  BY <1>a, <1>b, <1>c, <1>d DEF Inv, Places
<1>4. Gone'
  BY <1>a, <1>b, <1>c, <1>d DEF Inv, Gone
<1>5. MadeSoFar'
  BY <1>a, <1>b, <1>c, <1>d DEF Inv, MadeSoFar, Made
<1>6. AllInPlace'
  BY <1>a, <1>b, <1>c, <1>d DEF Inv, AllInPlace, Made
<1>7. InstalledIsCurrent'
  BY <1>a, <1>b, <1>c, <1>d DEF Inv, InstalledIsCurrent
<1>8. NoneIsNoPicture'
  BY <1>a, <1>b, <1>c, <1>d DEF Inv, NoneIsNoPicture
<1>9. PicturesInPlace'
  <2> SUFFICES ASSUME backend = "OpenH264", NEW k \in Layers, picture'[k].state # "none"
               PROVE  /\ capturer' = "sending" /\ RidOf(k) = frame.rid
                      /\ picture'[k].size = frame.size /\ picture'[k].state # "labelled"
    BY <1>a, <1>c DEF PicturesInPlace
  <2>1. k = l
    BY <1>b DEF Inv, TypeOK, PicturesInPlace
  <2>2. encoder[l].size = frame.size
    BY <1>b DEF Inv, InstalledIsCurrent, Places
  <2>3. QED
    BY <1>b, <2>1, <2>2 DEF Inv, TypeOK
<1>10. Keys'
  <2> SUFFICES ASSUME backend = "OpenH264", NEW k \in wanted, k \in Layers
               PROVE  \/ /\ picture'[k].state = "none"
                         /\ k \in key' \/ encoder[k].state \in {"null", "failed"}
                      \/ picture'[k].state # "none" /\ picture'[k].key = "yes"
    BY <1>a DEF Inv, TypeOK, Keys
  <2>1. CASE k = l
    <3>1. k \in key
      BY <1>b, <2>1 DEF Inv, Keys
    <3>2. QED
      BY <1>b, <2>1, <3>1 DEF Inv, TypeOK
  <2>2. CASE k # l
    <3>1. picture'[k] = picture[k] /\ (k \in key' <=> k \in key)
      BY <1>b, <2>2 DEF Inv, TypeOK
    <3>2. QED
      BY <3>1 DEF Inv, Keys
  <2>3. QED
    BY <2>1, <2>2
<1>11. QED
  BY <1>1, <1>2, <1>3, <1>4, <1>5, <1>6, <1>7, <1>8, <1>9, <1>10 DEF Inv

LEMMA EncodeFailsInv ==
  ASSUME Inv, NEW l \in Layers, EncodeFails(l)
  PROVE  Inv'
<1> USE NoneAssumption DEF Layers, NoEncoder, NoPicture
<1>a. UNCHANGED <<backend, simulcast, active, settings, encoder, frame, at, rid,
                  picture, image, pli, wanted, failed, program>>
  BY DEF EncodeFails, params, sending, pliVars
<1>b. /\ capturer = "encode" /\ capturer' = "idle"
      /\ \/ key' = key
         \/ backend = "VideoToolbox" /\ key' = key \ {l}
  BY DEF EncodeFails
<1>c. /\ N \in Nat /\ Count \in 1..N /\ Count' = Count
      /\ \A k \in Layers : RidOf(k)' = RidOf(k)
  BY <1>a, CountBound, NAssumption DEF Inv, TypeOK, Count, RidOf
<1>d. at \in 1..(N + 1) /\ pli.at \in 0..N /\ at <= Count + 1 /\ pli.at <= Count
  BY DEF Inv, TypeOK, Plis, Places
<1>1. TypeOK'
  BY <1>a, <1>b, <1>c, <1>d DEF Inv, TypeOK
<1>2. Beyond'
  BY <1>a, <1>b, <1>c, <1>d DEF Inv, Beyond
<1>3. Places'
  BY <1>a, <1>b, <1>c, <1>d DEF Inv, Places
<1>4. Gone'
  BY <1>a, <1>b, <1>c, <1>d DEF Inv, Gone
<1>5. MadeSoFar'
  BY <1>a, <1>b, <1>c, <1>d DEF Inv, MadeSoFar, Made
<1>6. AllInPlace'
  BY <1>a, <1>b, <1>c, <1>d DEF Inv, AllInPlace, Made
<1>7. InstalledIsCurrent'
  BY <1>a, <1>b, <1>c, <1>d DEF Inv, InstalledIsCurrent
<1>8. NoneIsNoPicture'
  BY <1>a, <1>b, <1>c, <1>d DEF Inv, NoneIsNoPicture
<1>9. PicturesInPlace'
  BY <1>a, <1>b, <1>c, <1>d DEF Inv, PicturesInPlace
<1>10. Keys'
  BY <1>a, <1>b, <1>c, <1>d DEF Inv, Keys
<1>11. QED
  BY <1>1, <1>2, <1>3, <1>4, <1>5, <1>6, <1>7, <1>8, <1>9, <1>10 DEF Inv

LEMMA LabelInv ==
  ASSUME Inv, NEW l \in Layers, Label(l)
  PROVE  Inv'
<1> USE NoneAssumption DEF Layers, NoEncoder, NoPicture
<1>a. UNCHANGED <<backend, simulcast, active, settings, encoder, key, capturer,
                  frame, at, image, pli, wanted, failed, program>>
  BY DEF Label, params, sending, pliVars
<1>b. /\ picture[l].state = "encoded"
      /\ rid' = RidOf(l)
      /\ picture' = [picture EXCEPT ![l].state = "labelled"]
  BY DEF Label, Target
<1>c. /\ N \in Nat /\ Count \in 1..N /\ Count' = Count
      /\ \A k \in Layers : RidOf(k)' = RidOf(k)
  BY <1>a, CountBound, NAssumption DEF Inv, TypeOK, Count, RidOf
<1>d. at \in 1..(N + 1) /\ pli.at \in 0..N /\ at <= Count + 1 /\ pli.at <= Count
  BY DEF Inv, TypeOK, Plis, Places
<1>1. TypeOK'
  <2>1. picture[l] \in Pictures
    BY DEF Inv, TypeOK
  <2>2. [picture[l] EXCEPT !.state = "labelled"] \in Pictures
    BY <2>1 DEF Pictures
  <2>3. picture' \in [Layers -> Pictures]
    BY <1>b, <2>2 DEF Inv, TypeOK
  <2>4. rid' \in Layers \cup {None}
    BY <1>b DEF RidOf
  <2>5. QED
    BY <1>a, <1>b, <2>1, <2>2, <2>3, <2>4 DEF Inv, TypeOK
<1>2. Beyond'
  BY <1>a, <1>b, <1>c, <1>d DEF Inv, Beyond
<1>3. Places'
  BY <1>a, <1>b, <1>c, <1>d DEF Inv, Places
<1>4. Gone'
  BY <1>a, <1>b, <1>c, <1>d DEF Inv, Gone
<1>5. MadeSoFar'
  BY <1>a, <1>b, <1>c, <1>d DEF Inv, MadeSoFar, Made
<1>6. AllInPlace'
  BY <1>a, <1>b, <1>c, <1>d DEF Inv, AllInPlace, Made
<1>7. InstalledIsCurrent'
  BY <1>a, <1>b, <1>c, <1>d DEF Inv, InstalledIsCurrent
<1>8. NoneIsNoPicture'
  BY <1>a, <1>b, <1>c, <1>d DEF Inv, NoneIsNoPicture
<1>9. PicturesInPlace'
  BY <1>a, <1>b, <1>c, <1>d DEF Inv, PicturesInPlace
<1>10. Keys'
  BY <1>a, <1>b, <1>c, <1>d DEF Inv, Keys
<1>11. QED
  BY <1>1, <1>2, <1>3, <1>4, <1>5, <1>6, <1>7, <1>8, <1>9, <1>10 DEF Inv

LEMMA SendImageInv ==
  ASSUME Inv, NEW l \in Layers, SendImage(l)
  PROVE  Inv'
<1> USE NoneAssumption DEF Layers, NoEncoder, NoPicture
<1>a. UNCHANGED <<backend, simulcast, active, settings, encoder, key, frame, at,
                  rid, pli, failed, program>>
  BY DEF SendImage, params, sending, pliVars
<1>b. /\ picture[l].state = "labelled"
      /\ image' = [layer |-> l, size |-> picture[l].size, key |-> picture[l].key,
                   streams |-> IF rid = None THEN 1..Count ELSE {rid},
                   turn |-> 1 - image.turn]
      /\ picture' = [picture EXCEPT ![l] = NoPicture]
      /\ wanted' = IF picture[l].key = "yes" THEN wanted \ {l} ELSE wanted
      /\ capturer' = IF capturer = "sending" THEN "idle" ELSE capturer
  BY DEF SendImage
<1>c. /\ N \in Nat /\ Count \in 1..N /\ Count' = Count
      /\ \A k \in Layers : RidOf(k)' = RidOf(k)
  BY <1>a, CountBound, NAssumption DEF Inv, TypeOK, Count, RidOf
<1>d. at \in 1..(N + 1) /\ pli.at \in 0..N /\ at <= Count + 1 /\ pli.at <= Count
  BY DEF Inv, TypeOK, Plis, Places
<1>1. TypeOK'
  <2>1. picture[l] \in Pictures /\ image \in Images /\ rid \in Layers \cup {None}
    BY DEF Inv, TypeOK
  <2>2. 1..Count \subseteq Layers
    BY <1>c
  <2>3. 1 - image.turn \in {0, 1}
    BY <2>1 DEF Images
  <2>4. image' \in Images
    BY <1>b, <2>1, <2>2, <2>3 DEF Images, Pictures
  <2>5. picture' \in [Layers -> Pictures]
    BY <1>b DEF Inv, TypeOK, Pictures
  <2>6. wanted' \subseteq Layers
    BY <1>b DEF Inv, TypeOK
  <2>7. capturer' \in {"idle", "release", "init", "encode", "sending"}
    BY <1>b DEF Inv, TypeOK
  <2>8. QED
    BY <1>a, <1>b, <2>1, <2>2, <2>3, <2>4, <2>5, <2>6, <2>7 DEF Inv, TypeOK
<1>2. Beyond'
  BY <1>a, <1>b, <1>c, <1>d DEF Inv, Beyond
<1>3. Places'
  BY <1>a, <1>b, <1>c, <1>d DEF Inv, Places
<1>4. Gone'
  BY <1>a, <1>b, <1>c, <1>d DEF Inv, Gone
<1>5. MadeSoFar'
  BY <1>a, <1>b, <1>c, <1>d DEF Inv, MadeSoFar, Made
<1>6. AllInPlace'
  BY <1>a, <1>b, <1>c, <1>d DEF Inv, AllInPlace, Made
<1>7. InstalledIsCurrent'
  BY <1>a, <1>b, <1>c, <1>d DEF Inv, InstalledIsCurrent
<1>8. NoneIsNoPicture'
  BY <1>a, <1>b, <1>c, <1>d DEF Inv, NoneIsNoPicture
<1>9. PicturesInPlace'
  <2> SUFFICES ASSUME backend = "OpenH264", NEW k \in Layers PROVE picture'[k].state = "none"
    BY <1>a DEF PicturesInPlace
  <2>1. CASE k = l
    BY <1>b, <2>1 DEF Inv, TypeOK
  <2>2. CASE k # l
    <3>1. picture'[k] = picture[k]
      BY <1>b, <2>2 DEF Inv, TypeOK
    <3>2. picture[k].state # "none" => RidOf(k) = RidOf(l)
      BY <1>b DEF Inv, PicturesInPlace
    <3>3. CASE simulcast
      BY <2>2, <3>1, <3>2, <3>3 DEF RidOf
    <3>4. CASE ~ simulcast
      <4>1. Count = 1
        BY <3>4 DEF Count
      <4>2. k > Count \/ l > Count
        BY <2>2, <4>1
      <4>3. QED
        BY <1>b, <3>1, <4>2 DEF Inv, Beyond
    <3>5. QED
      BY <3>3, <3>4
  <2>3. QED
    BY <2>1, <2>2
<1>10. Keys'
  BY <1>a, <1>b, <1>c, <1>d DEF Inv, Keys
<1>11. QED
  BY <1>1, <1>2, <1>3, <1>4, <1>5, <1>6, <1>7, <1>8, <1>9, <1>10 DEF Inv

LEMMA ReceivePliInv == ASSUME Inv, ReceivePli PROVE Inv'
<1> USE NoneAssumption DEF Layers, NoEncoder, NoPicture
<1>a. UNCHANGED <<backend, simulcast, active, settings, encoder, key, capturer,
                  frame, at, rid, picture, image, wanted, failed, program>>
  BY DEF ReceivePli, params, sending, pliVars
<1>b. pli.at = 0 /\ pli' = [pli EXCEPT !.at = 1]
  BY DEF ReceivePli
<1>c. /\ N \in Nat /\ Count \in 1..N /\ Count' = Count
      /\ \A k \in Layers : RidOf(k)' = RidOf(k)
  BY <1>a, CountBound, NAssumption DEF Inv, TypeOK, Count, RidOf
<1>d. at \in 1..(N + 1) /\ pli.at \in 0..N /\ at <= Count + 1 /\ pli.at <= Count
  BY DEF Inv, TypeOK, Plis, Places
<1>1. TypeOK'
  <2>1. 1 \in 0..N
    BY <1>c
  <2>2. pli' \in Plis
    BY <1>b, <2>1 DEF Inv, TypeOK, Plis
  <2>3. QED
    BY <1>a, <1>b, <2>1, <2>2 DEF Inv, TypeOK
<1>2. Beyond'
  BY <1>a, <1>b, <1>c, <1>d DEF Inv, Beyond
<1>3. Places'
  BY <1>a, <1>b, <1>c, <1>d DEF Inv, Places
<1>4. Gone'
  BY <1>a, <1>b, <1>c, <1>d DEF Inv, Gone
<1>5. MadeSoFar'
  BY <1>a, <1>b, <1>c, <1>d DEF Inv, MadeSoFar, Made
<1>6. AllInPlace'
  BY <1>a, <1>b, <1>c, <1>d DEF Inv, AllInPlace, Made
<1>7. InstalledIsCurrent'
  BY <1>a, <1>b, <1>c, <1>d DEF Inv, InstalledIsCurrent
<1>8. NoneIsNoPicture'
  BY <1>a, <1>b, <1>c, <1>d DEF Inv, NoneIsNoPicture
<1>9. PicturesInPlace'
  BY <1>a, <1>b, <1>c, <1>d DEF Inv, PicturesInPlace
<1>10. Keys'
  BY <1>a, <1>b, <1>c, <1>d DEF Inv, Keys
<1>11. QED
  BY <1>1, <1>2, <1>3, <1>4, <1>5, <1>6, <1>7, <1>8, <1>9, <1>10 DEF Inv

LEMMA PliLooksInv == ASSUME Inv, PliLooks PROVE Inv'
<1> USE NoneAssumption DEF Layers, NoEncoder, NoPicture
<1>a. UNCHANGED <<backend, simulcast, active, settings, encoder, key, capturer,
                  frame, at, rid, picture, image, wanted, failed, program>>
  BY DEF PliLooks, params, sending, pliVars
<1>b. /\ pli.at # 0
      /\ pli' = IF encoder[pli.at] = NoEncoder THEN PliNext ELSE [pli EXCEPT !.holds = "encoder"]
  BY DEF PliLooks
<1>c. /\ N \in Nat /\ Count \in 1..N /\ Count' = Count
      /\ \A k \in Layers : RidOf(k)' = RidOf(k)
  BY <1>a, CountBound, NAssumption DEF Inv, TypeOK, Count, RidOf
<1>d. at \in 1..(N + 1) /\ pli.at \in 0..N /\ at <= Count + 1 /\ pli.at <= Count
  BY DEF Inv, TypeOK, Plis, Places
<1>1. TypeOK'
  <2>1. PliNext \in Plis
    BY <1>c, <1>d DEF PliNext, Plis
  <2>2. pli' \in Plis
    BY <1>b, <2>1 DEF Inv, TypeOK, Plis
  <2>3. QED
    BY <1>a, <1>b, <2>1, <2>2 DEF Inv, TypeOK
<1>2. Beyond'
  BY <1>a, <1>b, <1>c, <1>d DEF Inv, Beyond
<1>3. Places'
  <2>1. PliNext.at <= Count
    BY <1>c, <1>d DEF PliNext
  <2>2. pli'.at \in {pli.at, PliNext.at}
    BY <1>b DEF Inv, TypeOK, Plis
  <2>3. QED
    BY <1>a, <1>c, <2>1, <2>2 DEF Inv, Places
<1>4. Gone'
  BY <1>a, <1>b, <1>c, <1>d DEF Inv, Gone
<1>5. MadeSoFar'
  BY <1>a, <1>b, <1>c, <1>d DEF Inv, MadeSoFar, Made
<1>6. AllInPlace'
  BY <1>a, <1>b, <1>c, <1>d DEF Inv, AllInPlace, Made
<1>7. InstalledIsCurrent'
  BY <1>a, <1>b, <1>c, <1>d DEF Inv, InstalledIsCurrent
<1>8. NoneIsNoPicture'
  BY <1>a, <1>b, <1>c, <1>d DEF Inv, NoneIsNoPicture
<1>9. PicturesInPlace'
  BY <1>a, <1>b, <1>c, <1>d DEF Inv, PicturesInPlace
<1>10. Keys'
  BY <1>a, <1>b, <1>c, <1>d DEF Inv, Keys
<1>11. QED
  BY <1>1, <1>2, <1>3, <1>4, <1>5, <1>6, <1>7, <1>8, <1>9, <1>10 DEF Inv

LEMMA PliCallsInv == ASSUME Inv, PliCalls PROVE Inv'
<1> USE NoneAssumption DEF Layers, NoEncoder, NoPicture
<1>a. UNCHANGED <<backend, simulcast, active, settings, encoder, capturer, frame,
                  at, rid, picture, image, failed, program>>
  BY DEF PliCalls, params, sending, pliVars
<1>b. /\ pli.at # 0
      /\ key' = key \cup {pli.at}
      /\ wanted' = IF picture[pli.at] = NoPicture THEN wanted \cup {pli.at} ELSE wanted
      /\ pli' = PliNext
  BY DEF PliCalls
<1>c. /\ N \in Nat /\ Count \in 1..N /\ Count' = Count
      /\ \A k \in Layers : RidOf(k)' = RidOf(k)
  BY <1>a, CountBound, NAssumption DEF Inv, TypeOK, Count, RidOf
<1>d. at \in 1..(N + 1) /\ pli.at \in 0..N /\ at <= Count + 1 /\ pli.at <= Count
  BY DEF Inv, TypeOK, Plis, Places
<1>1. TypeOK'
  <2>1. PliNext \in Plis
    BY <1>c, <1>d DEF PliNext, Plis
  <2>2. pli' \in Plis
    BY <1>b, <2>1
  <2>3. pli.at \in Layers
    BY <1>b, <1>c, <1>d
  <2>4. key' \subseteq Layers /\ wanted' \subseteq Layers
    BY <1>b, <2>3 DEF Inv, TypeOK
  <2>5. QED
    BY <1>a, <1>b, <2>1, <2>2, <2>3, <2>4 DEF Inv, TypeOK
<1>2. Beyond'
  BY <1>a, <1>b, <1>c, <1>d DEF Inv, Beyond
<1>3. Places'
  <2>1. pli'.at <= Count
    BY <1>b, <1>c, <1>d DEF PliNext
  <2>2. QED
    BY <1>a, <1>c, <2>1 DEF Inv, Places
<1>4. Gone'
  BY <1>a, <1>b, <1>c, <1>d DEF Inv, Gone
<1>5. MadeSoFar'
  BY <1>a, <1>b, <1>c, <1>d DEF Inv, MadeSoFar, Made
<1>6. AllInPlace'
  BY <1>a, <1>b, <1>c, <1>d DEF Inv, AllInPlace, Made
<1>7. InstalledIsCurrent'
  BY <1>a, <1>b, <1>c, <1>d DEF Inv, InstalledIsCurrent
<1>8. NoneIsNoPicture'
  BY <1>a, <1>b, <1>c, <1>d DEF Inv, NoneIsNoPicture
<1>9. PicturesInPlace'
  BY <1>a, <1>b, <1>c, <1>d DEF Inv, PicturesInPlace
<1>10. Keys'
  BY <1>a, <1>b, <1>c, <1>d DEF Inv, Keys
<1>11. QED
  BY <1>1, <1>2, <1>3, <1>4, <1>5, <1>6, <1>7, <1>8, <1>9, <1>10 DEF Inv

LEMMA PliCallsDanglingInv == ASSUME Inv, PliCallsDangling PROVE Inv'
<1> USE NoneAssumption DEF Layers, NoEncoder, NoPicture
<1>a. UNCHANGED <<backend, simulcast, active, settings, encoder, key, capturer,
                  frame, at, rid, picture, image, pli, wanted, failed>>
  BY DEF PliCallsDangling, params, sending, pliVars
<1>b. program' = "dangling"
  BY DEF PliCallsDangling
<1>c. /\ N \in Nat /\ Count \in 1..N /\ Count' = Count
      /\ \A k \in Layers : RidOf(k)' = RidOf(k)
  BY <1>a, CountBound, NAssumption DEF Inv, TypeOK, Count, RidOf
<1>d. at \in 1..(N + 1) /\ pli.at \in 0..N /\ at <= Count + 1 /\ pli.at <= Count
  BY DEF Inv, TypeOK, Plis, Places
<1>1. TypeOK'
  BY <1>a, <1>b, <1>c, <1>d DEF Inv, TypeOK
<1>2. Beyond'
  BY <1>a, <1>b, <1>c, <1>d DEF Inv, Beyond
<1>3. Places'
  BY <1>a, <1>b, <1>c, <1>d DEF Inv, Places
<1>4. Gone'
  BY <1>a, <1>b, <1>c, <1>d DEF Inv, Gone
<1>5. MadeSoFar'
  BY <1>a, <1>b, <1>c, <1>d DEF Inv, MadeSoFar, Made
<1>6. AllInPlace'
  BY <1>a, <1>b, <1>c, <1>d DEF Inv, AllInPlace, Made
<1>7. InstalledIsCurrent'
  BY <1>a, <1>b, <1>c, <1>d DEF Inv, InstalledIsCurrent
<1>8. NoneIsNoPicture'
  BY <1>a, <1>b, <1>c, <1>d DEF Inv, NoneIsNoPicture
<1>9. PicturesInPlace'
  BY <1>a, <1>b, <1>c, <1>d DEF Inv, PicturesInPlace
<1>10. Keys'
  BY <1>a, <1>b, <1>c, <1>d DEF Inv, Keys
<1>11. QED
  BY <1>1, <1>2, <1>3, <1>4, <1>5, <1>6, <1>7, <1>8, <1>9, <1>10 DEF Inv

-----------------------------------------------------------------------------
(* The invariant, and what follows from it.                                *)

\* In the initial states there is no encoder and no picture.
LEMMA InitInv == ASSUME Init PROVE Inv
<1> USE NAssumption, NoneAssumption DEF Init, Layers, NoEncoder, NoPicture
<1>1. Count \in 1..N
  BY CountBound
<1>2. active \subseteq Layers
  <2>1. 1 \in 1..N
    OBVIOUS
  <2>2. QED
    BY <2>1
<1>3. image \in Images
  BY DEF Images
<1>4. pli \in Plis /\ at \in 1..(N + 1)
  BY DEF Plis
<1>5. frame \in Frames
  BY DEF Frames
<1>6. encoder \in [Layers -> Encoders] /\ picture \in [Layers -> Pictures]
  BY DEF Encoders, Pictures
<1>7. TypeOK
  BY <1>2, <1>3, <1>4, <1>5, <1>6 DEF TypeOK
<1>8. Beyond /\ Places
  BY <1>1 DEF Beyond, Places
<1>9. Gone /\ MadeSoFar /\ AllInPlace /\ InstalledIsCurrent
  BY <1>1 DEF Gone, MadeSoFar, AllInPlace, InstalledIsCurrent
<1>10. NoneIsNoPicture /\ PicturesInPlace /\ Keys
  BY DEF NoneIsNoPicture, PicturesInPlace, Keys
<1>11. QED
  BY <1>7, <1>8, <1>9, <1>10 DEF Inv

LEMMA NextInv == ASSUME Inv, [Next]_vars PROVE Inv'
<1>1. CASE UNCHANGED vars
  <2>1. UNCHANGED <<backend, simulcast, active, settings, encoder, key, capturer, frame, at,
                    rid, picture, image, pli, wanted, failed, program>>
    BY <1>1 DEF vars, params, sending, pliVars
  <2>2. Count' = Count /\ \A l \in Layers : RidOf(l)' = RidOf(l)
    BY <2>1 DEF Count, RidOf
  <2>3. TypeOK'
    BY <2>1 DEF Inv, TypeOK
  <2>4. Beyond' /\ Places'
    BY <2>1, <2>2 DEF Inv, Beyond, Places
  <2>5. Gone' /\ MadeSoFar' /\ AllInPlace' /\ InstalledIsCurrent'
    BY <2>1, <2>2 DEF Inv, Gone, MadeSoFar, AllInPlace, InstalledIsCurrent, Made
  <2>6. NoneIsNoPicture' /\ PicturesInPlace' /\ Keys'
    BY <2>1, <2>2 DEF Inv, NoneIsNoPicture, PicturesInPlace, Keys
  <2>7. QED
    BY <2>3, <2>4, <2>5, <2>6 DEF Inv
<1>2. CASE Capturer
  BY <1>2, SendVideoFrameInv, ReleaseEncoderInv, ReleasedInv, SkipInactiveInv, InitEncoderInv,
     InitEncoderFailsInv, InstallInv, EncodeNothingInv, EncodeNotReadyInv, EncodePictureInv,
     EncodeFailsInv DEF Capturer
<1>3. CASE \E l \in Layers : Callback(l)
  BY <1>3, LabelInv, SendImageInv DEF Callback
<1>4. CASE PliHandler
  BY <1>4, ReceivePliInv, PliLooksInv, PliCallsInv, PliCallsDanglingInv DEF PliHandler
<1>5. QED
  BY <1>1, <1>2, <1>3, <1>4 DEF Next

\* Whatever the frames, the failures and the PLIs, the encoders, the pictures and
\* the key frames that are owed stay in place (signaling.cpp:135).
THEOREM Invariance == Spec => []Inv
<1>1. Init => Inv
  BY InitInv
<1>2. Inv /\ [Next]_vars => Inv'
  BY NextInv
<1>3. QED
  BY <1>1, <1>2, PTL DEF Spec

\* Encoders that are all installed with the settings are ready for the frame.
LEMMA InvReady == ASSUME Inv PROVE EncodersAreReady
<1>1. TypeOK
  BY DEF Inv
<1>2. ASSUME capturer = "encode", failed = None, NEW l \in 1..Count
      PROVE  encoder[l] = Made(l, "installed", frame.size)
  <2>1. settings = frame.size
    BY <1>2 DEF Inv, Places
  <2>2. settings # None
    BY <1>1, <2>1, NoneAssumption DEF TypeOK, Frames
  <2>3. QED
    BY <1>2, <2>1, <2>2 DEF Inv, AllInPlace
<1>3. ReadyToEncode
  BY <1>2 DEF ReadyToEncode, Made
<1>4. QED
  BY <1>1, <1>3 DEF EncodersAreReady

\* When a frame reaches the encoders after an initialisation that worked, every active
\* layer has an encoder of its size with a callback, and no other has one
\* (signaling.cpp:135 and simulcast_encoder_adapter.cpp:60).
THEOREM ReadyInvariance == Spec => []EncodersAreReady
<1>1. Inv => EncodersAreReady
  BY InvReady
<1>2. QED
  BY <1>1, Invariance, PTL

\* A frame meets an encoder that is not ready only when InitEncode has failed for
\* another size.
LEMMA NotReadyStep ==
  ASSUME Inv, NEW l \in Layers, EncodeNotReady(l)
  PROVE  failed # None /\ settings = frame.size /\ failed # frame.size
<1>1. /\ capturer = "encode" /\ l \in 1..Count
      /\ encoder[l].state \in {"failed", "ready"}
  BY DEF EncodeNotReady, Target
<1>2. settings = frame.size /\ (failed # None => failed # settings)
  BY <1>1 DEF Inv, Places
<1>3. ASSUME failed = None PROVE FALSE
  <2>1. encoder[l] = Made(l, "installed", frame.size)
    BY <1>1, <1>3, InvReady DEF EncodersAreReady, ReadyToEncode, Made
  <2>2. encoder[l].state \in {"installed", "null"}
    BY <2>1 DEF Made, NoEncoder
  <2>3. QED
    BY <1>1, <2>2
<1>4. QED
  BY <1>2, <1>3

LEMMA NotReadyNext ==
  ASSUME Inv, NotReadyOnlyOnReturn, [Next]_vars PROVE NotReadyOnlyOnReturn'
<1>1. CASE UNCHANGED vars
  BY <1>1 DEF vars, NotReadyOnlyOnReturn
<1>2. ASSUME NEW l \in Layers, EncodeNotReady(l) PROVE NotReadyOnlyOnReturn'
  BY <1>2, NotReadyStep DEF EncodeNotReady, NotReadyOnlyOnReturn
<1>3. CASE /\ Next
           /\ ~ \E l \in Layers : EncodeNotReady(l)
  <2>1. program = "running"
    BY <1>3 DEF Next
  <2>2. program' = program \/ program' = "dangling"
    <3>1. CASE Capturer
      BY <1>3, <3>1 DEF Capturer, SendVideoFrame, ReleaseEncoder, Released, SkipInactive,
         InitEncoder, InitEncoderFails, Install, EncodeNothing, EncodePicture, EncodeFails
    <3>2. CASE \E l \in Layers : Callback(l)
      BY <3>2 DEF Callback, Label, SendImage
    <3>3. CASE PliHandler
      BY <3>3 DEF PliHandler, ReceivePli, PliLooks, PliCalls, PliCallsDangling
    <3>4. QED
      BY <1>3, <3>1, <3>2, <3>3 DEF Next
  <2>3. QED
    BY <2>1, <2>2 DEF NotReadyOnlyOnReturn
<1>4. QED
  BY <1>1, <1>2, <1>3

\* An encoder that is not ready is used only when InitEncode has failed for another
\* size and the capturer has gone back to the old one (signaling.cpp:142).
THEOREM NotReadyInvariance == Spec => []NotReadyOnlyOnReturn
<1>1. Init => NotReadyOnlyOnReturn
  BY DEF Init, NotReadyOnlyOnReturn
<1>2. Inv /\ NotReadyOnlyOnReturn /\ [Next]_vars => NotReadyOnlyOnReturn'
  BY NotReadyNext
<1>3. QED
  BY <1>1, <1>2, Invariance, PTL DEF Spec

\* Only track->send hands on an image.
LEMMA ImageIsSent ==
  ASSUME [Next]_vars, image' # image PROVE \E l \in Layers : SendImage(l)
<1>1. ~ UNCHANGED vars
  BY DEF vars, sending
<1>2. ~ Capturer
  BY DEF Capturer, SendVideoFrame, ReleaseEncoder, Released, SkipInactive, InitEncoder,
         InitEncoderFails, Install, EncodeNothing, EncodeNotReady, EncodePicture,
         EncodeFails, sending
<1>3. ~ PliHandler
  BY DEF PliHandler, ReceivePli, PliLooks, PliCalls, PliCallsDangling, sending
<1>4. QED
  BY <1>1, <1>2, <1>3 DEF Next, Callback, Label

\* After a PLI the next picture of a layer is a key frame, also when encoding fails or
\* OpenH264 encoders are made anew in between (simulcast_encoder_adapter.cpp:42).
THEOREM KeyFrame == Spec => KeyFrameAfterPli
<1>1. ASSUME Inv, [Next]_vars, backend = "OpenH264", image' # image, image'.layer \in wanted
      PROVE  image'.key = "yes"
  <2>1. PICK l \in Layers : SendImage(l)
    BY <1>1, ImageIsSent
  <2>2. image'.layer = l /\ image'.key = picture[l].key /\ picture[l].state = "labelled"
    BY <2>1 DEF SendImage
  <2>3. QED
    BY <1>1, <2>2 DEF Inv, Keys
<1>2. QED
  BY <1>1, Invariance, PTL DEF Spec, KeyFrameAfterPli

\* With encoders that call back before they return, a picture has the size of the frame
\* it was made from and goes to the stream of its own layer, however sizes change and
\* initialisations fail (simulcast_media_handler.cpp:32).
THEOREM PictureInPlace == Spec => PictureKeepsItsPlace
<1>1. ASSUME Inv, [Next]_vars, backend = "OpenH264", image' # image
      PROVE  image'.size = frame.size /\ image'.streams = {image'.layer}
  <2>1. PICK l \in Layers : SendImage(l)
    BY <1>1, ImageIsSent
  <2>2. /\ picture[l].state = "labelled"
        /\ image'.layer = l /\ image'.size = picture[l].size
        /\ image'.streams = IF rid = None THEN 1..Count ELSE {rid}
    BY <2>1 DEF SendImage
  <2>3. picture[l].size = frame.size /\ rid = RidOf(l)
    BY <1>1, <2>2 DEF Inv, PicturesInPlace
  <2>4. image'.streams = {l}
    <3>1. CASE simulcast
      BY <2>2, <2>3, <3>1, NoneAssumption DEF RidOf, Layers
    <3>2. CASE ~ simulcast
      <4>1. ~ l > Count
        BY <1>1, <2>2 DEF Inv, Beyond, NoPicture
      <4>2. l = 1 /\ Count = 1
        BY <3>2, <4>1, NAssumption DEF Count, Layers
      <4>3. 1..Count = {l}
        BY <4>2
      <4>4. QED
        BY <2>2, <2>3, <3>2, <4>3 DEF RidOf
    <3>3. QED
      BY <3>1, <3>2
  <2>5. QED
    BY <2>2, <2>3, <2>4
<1>2. QED
  BY <1>1, Invariance, PTL DEF Spec, PictureKeepsItsPlace
=============================================================================
