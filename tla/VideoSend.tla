------------------------------ MODULE VideoSend ------------------------------
(***************************************************************************)
(* Sending video: SignalingImpl::SendVideoFrame, the simulcast encoder      *)
(* adapter with one encoder per layer, the encode callback, the simulcast   *)
(* media handler that picks the RTP stream by rid, and the PLI handler that *)
(* asks every encoder for a key frame.                                      *)
(*                                                                         *)
(* The capturer's thread sends frames, a thread of libdatachannel handles   *)
(* PLI.  OpenH264 calls back before Encode returns; VideoToolbox calls back *)
(* later, on a thread of each encoder.  A layer is named by its place in    *)
(* the encodings of the offer, and so is its rid; without simulcast there   *)
(* is one layer and no rid.                                                 *)
(*                                                                         *)
(* Of VideoToolbox: invalidating a session waits for its running callback   *)
(* and drops the pictures that have not been called back for.               *)
(***************************************************************************)
EXTENDS Naturals

CONSTANTS
  N,        \* the number of encodings when simulcast is on
  Sizes,    \* the base sizes of frames
  None,     \* no rid, no settings
  Backends  \* the kinds of encoders

ASSUME NAssumption == N \in Nat \ {0}
ASSUME NoneAssumption == None \notin 1..N /\ None \notin Sizes
ASSUME BackendsAssumption == Backends \subseteq {"OpenH264", "VideoToolbox"}

Layers == 1..N

VARIABLES
  backend,    \* the kind of the encoders
  simulcast,  \* enable_parameters of the offer, as the adapter was made with
  active,     \* the layers with param.active
  settings,   \* client_.video_encoder_settings, by its size
  encoder,    \* encoders_[l].encoder: its state, and the size it was made for
  key,        \* the layers whose next picture will be a key frame
  capturer,   \* where the capturer's thread is in SendVideoFrame
  frame,      \* the frame it is sending
  at,         \* the layer it is at
  rid,        \* config()->rid of the media handler
  picture,    \* the encoded picture of each layer on its way to the track
  image,      \* the last one handed to RTP streams
  pli,        \* the layer ForceIntraNextFrame is at, and what it holds there
  wanted,     \* the layers that owe a key frame
  failed,     \* the size of an initialisation that failed, since the last success
  program     \* "running", or what has ended it

params  == <<backend, simulcast, active>>
sending == <<rid, picture, image>>
pliVars == <<pli, wanted>>
vars == <<params, settings, encoder, key, capturer, frame, at, sending, pliVars,
          failed, program>>

Count     == IF simulcast THEN N ELSE 1
RidOf(l)  == IF simulcast THEN l ELSE None
NoEncoder == [state |-> "null", size |-> None]
NoPicture == [state |-> "none", size |-> None, key |-> "no"]

Encoders == [state : {"null", "failed", "ready", "installed"}, size : Sizes \cup {None}]
Frames   == [size : Sizes, rid : Layers \cup {None}]
Pictures == [state : {"none", "encoded", "labelled"}, size : Sizes \cup {None},
             key : {"yes", "no"}]
Images   == [layer : Layers, size : Sizes \cup {None}, key : {"yes", "no"},
             streams : SUBSET Layers, turn : {0, 1}]
Plis     == [at : 0..N, holds : {"nothing", "encoder", "dangling"}]

TypeOK ==
  /\ backend \in Backends
  /\ simulcast \in BOOLEAN
  /\ active \subseteq Layers
  /\ settings \in Sizes \cup {None}
  /\ encoder \in [Layers -> Encoders]
  /\ key \subseteq Layers
  /\ capturer \in {"idle", "release", "init", "encode", "sending"}
  /\ frame \in Frames
  /\ at \in 1..(N + 1)
  /\ rid \in Layers \cup {None}
  /\ picture \in [Layers -> Pictures]
  /\ image \in Images
  /\ pli \in Plis
  /\ wanted \subseteq Layers
  /\ failed \in Sizes \cup {None}
  /\ program \in {"running", "not ready", "dangling"}

Init ==
  /\ backend \in Backends
  /\ simulcast \in BOOLEAN
  /\ active \in IF simulcast THEN SUBSET Layers ELSE {{1}}
  /\ settings = None
  /\ encoder = [l \in Layers |-> NoEncoder]
  /\ key = {}
  /\ capturer = "idle"
  /\ frame \in [size : Sizes, rid : {None}]
  /\ at = 1
  /\ rid = None
  /\ picture = [l \in Layers |-> NoPicture]
  /\ image = [layer |-> 1, size |-> None, key |-> "no", streams |-> {1}, turn |-> 0]
  /\ pli = [at |-> 0, holds |-> "nothing"]
  /\ wanted = {}
  /\ failed = None
  /\ program = "running"

-----------------------------------------------------------------------------
(* SendVideoFrame, and InitEncode of the adapter.                          *)

\* Mutant: the settings are saved before they have worked.
SendVideoFrameSavesFirst(s, r) ==
  /\ capturer = "idle"
  /\ frame' = [size |-> s, rid |-> r]
  /\ capturer' = IF settings = s THEN "encode" ELSE "release"
  /\ settings' = s
  /\ at' = 1
  /\ UNCHANGED <<params, encoder, key, sending, pliVars, failed, program>>

\* A frame of another size than the last settings has the encoders made anew.
SendVideoFrame(s, r) ==
  /\ capturer = "idle"
  /\ frame' = [size |-> s, rid |-> r]
  /\ capturer' = IF settings = s THEN "encode" ELSE "release"
  /\ at' = 1
  /\ UNCHANGED <<params, settings, encoder, key, sending, pliVars, failed, program>>

\* Release lets go of one encoder after the other; their pictures are gone, and
\* whoever still has the plain pointer holds nothing.
ReleaseEncoder ==
  /\ capturer = "release" /\ at <= Count
  /\ picture[at].state # "labelled"
  /\ encoder' = [encoder EXCEPT ![at] = NoEncoder]
  /\ picture' = [picture EXCEPT ![at] = NoPicture]
  /\ key' = key \ {at}
  /\ pli' = IF pli = [at |-> at, holds |-> "encoder"]
              THEN [pli EXCEPT !.holds = "dangling"] ELSE pli
  /\ at' = at + 1
  /\ UNCHANGED <<params, settings, capturer, frame, rid, image, wanted, failed, program>>

Released ==
  /\ capturer = "release" /\ at = Count + 1
  /\ capturer' = "init" /\ at' = 1
  /\ UNCHANGED <<params, settings, encoder, key, frame, sending, pliVars, failed, program>>

SkipInactive ==
  /\ capturer = "init" /\ at <= Count /\ at \notin active
  /\ at' = at + 1
  /\ UNCHANGED <<params, settings, encoder, key, capturer, frame, sending, pliVars,
                 failed, program>>

\* A new encoder begins with a key frame.
InitEncoder ==
  /\ capturer = "init" /\ at <= Count /\ at \in active
  /\ encoder' = [encoder EXCEPT ![at] = [state |-> "ready", size |-> frame.size]]
  /\ key' = key \cup {at}
  /\ at' = at + 1
  /\ UNCHANGED <<params, settings, capturer, frame, sending, pliVars, failed, program>>

\* InitEncode of an encoder fails: SendVideoFrame returns, the encoders made so
\* far stay and so do the settings.
InitEncoderFails ==
  /\ capturer = "init" /\ at <= Count /\ at \in active
  /\ encoder' = [encoder EXCEPT ![at] = [state |-> "failed", size |-> frame.size]]
  /\ failed' = frame.size
  /\ capturer' = "idle"
  /\ UNCHANGED <<params, settings, key, frame, at, sending, pliVars, program>>

\* Mutant: SetEncodeCallback leaves the encoders behind the first alone.
InstallFirst ==
  /\ capturer = "init" /\ at = Count + 1
  /\ settings' = frame.size
  /\ encoder' = [encoder EXCEPT ![1].state = IF @ = "null" THEN @ ELSE "installed"]
  /\ failed' = None
  /\ capturer' = "encode"
  /\ UNCHANGED <<params, key, frame, at, sending, pliVars, program>>

\* All are made: save the settings and set the callback of every encoder.
Install ==
  /\ capturer = "init" /\ at = Count + 1
  /\ settings' = frame.size
  /\ encoder' = [l \in Layers |->
       IF encoder[l] = NoEncoder THEN NoEncoder
                                 ELSE [encoder[l] EXCEPT !.state = "installed"]]
  /\ failed' = None
  /\ capturer' = "encode"
  /\ UNCHANGED <<params, key, frame, at, sending, pliVars, program>>

-----------------------------------------------------------------------------
(* Encode of the adapter and of the encoders.                              *)

\* The layer that the rid of the frame means: none when there should be a rid and
\* is not, or the other way round.
Target == { l \in 1..Count : RidOf(l) = frame.rid }

\* No layer, or a layer without encoder (with simulcast, one that is not active).
EncodeNothing ==
  /\ capturer = "encode"
  /\ \A l \in Target : encoder[l] = NoEncoder /\ simulcast
  /\ capturer' = "idle"
  /\ UNCHANGED <<params, settings, encoder, key, frame, at, sending, pliVars, failed, program>>

\* An encoder that was not initialised, or has no callback to call.  OpenH264
\* dereferences null or throws into the capturer; VideoToolbox finds no session
\* and drops the picture, or throws on its own thread.
EncodeNotReady(l) ==
  /\ capturer = "encode" /\ l \in Target
  /\ encoder[l].state \in {"failed", "ready"}
  /\ \/ program' = "not ready"
     \/ backend = "VideoToolbox" /\ encoder[l].state = "failed" /\ UNCHANGED program
  /\ capturer' = "idle"
  /\ UNCHANGED <<params, settings, encoder, key, frame, at, sending, pliVars, failed>>

\* Encoding works: next_iframe_ is taken, and the callback is due.
EncodePicture(l) ==
  /\ capturer = "encode" /\ l \in Target
  /\ encoder[l].state = "installed"
  /\ picture[l].state = "none"
  /\ picture' = [picture EXCEPT ![l] =
       [state |-> "encoded", size |-> encoder[l].size,
        key   |-> IF l \in key THEN "yes" ELSE "no"]]
  /\ key' = key \ {l}
  /\ capturer' = IF backend = "OpenH264" THEN "sending" ELSE "idle"
  /\ UNCHANGED <<params, settings, encoder, frame, at, rid, image, pliVars, failed, program>>

\* Mutant: the wish for a key frame is taken from OpenH264 too.
EncodeFailsForgetting(l) ==
  /\ capturer = "encode" /\ l \in Target
  /\ encoder[l].state = "installed"
  /\ key' = key \ {l}
  /\ capturer' = "idle"
  /\ UNCHANGED <<params, settings, encoder, frame, at, sending, pliVars, failed, program>>

\* Encoding fails.  OpenH264 remembers that it was told to force a key frame;
\* for VideoToolbox that was a property of this one frame.
EncodeFails(l) ==
  /\ capturer = "encode" /\ l \in Target
  /\ encoder[l].state = "installed"
  /\ \/ UNCHANGED key
     \/ backend = "VideoToolbox" /\ key' = key \ {l}
  /\ capturer' = "idle"
  /\ UNCHANGED <<params, settings, encoder, frame, at, sending, pliVars, failed, program>>

-----------------------------------------------------------------------------
(* The encode callback and the media handler.                              *)

\* Mutant: the rid is not stored.
LabelNothing(l) ==
  /\ picture[l].state = "encoded"
  /\ picture' = [picture EXCEPT ![l].state = "labelled"]
  /\ UNCHANGED <<params, settings, encoder, key, capturer, frame, at, rid, image,
                 pliVars, failed, program>>

\* config()->rid = image.rid
Label(l) ==
  /\ picture[l].state = "encoded"
  /\ rid' = RidOf(l)
  /\ picture' = [picture EXCEPT ![l].state = "labelled"]
  /\ UNCHANGED <<params, settings, encoder, key, capturer, frame, at, image,
                 pliVars, failed, program>>

\* track->send: the handler sends to the stream of config()->rid, or to all.
SendImage(l) ==
  /\ picture[l].state = "labelled"
  /\ image' = [layer |-> l, size |-> picture[l].size, key |-> picture[l].key,
               streams |-> IF rid = None THEN 1..Count ELSE {rid},
               turn |-> 1 - image.turn]
  /\ picture' = [picture EXCEPT ![l] = NoPicture]
  /\ wanted' = IF picture[l].key = "yes" THEN wanted \ {l} ELSE wanted
  /\ capturer' = IF capturer = "sending" THEN "idle" ELSE capturer
  /\ UNCHANGED <<params, settings, encoder, key, frame, at, rid, pli, failed, program>>

-----------------------------------------------------------------------------
(* The PLI handler: ForceIntraNextFrame of the adapter.                    *)

ReceivePli ==
  /\ pli.at = 0
  /\ pli' = [pli EXCEPT !.at = 1]
  /\ UNCHANGED <<params, settings, encoder, key, capturer, frame, at, sending, wanted,
                 failed, program>>

PliNext == [at |-> IF pli.at = Count THEN 0 ELSE pli.at + 1, holds |-> "nothing"]

\* if (e.encoder != nullptr)
PliLooks ==
  /\ pli.at # 0 /\ pli.holds = "nothing"
  /\ pli' = IF encoder[pli.at] = NoEncoder THEN PliNext ELSE [pli EXCEPT !.holds = "encoder"]
  /\ UNCHANGED <<params, settings, encoder, key, capturer, frame, at, sending, wanted,
                 failed, program>>

\* e.encoder->ForceIntraNextFrame(), for the pictures encoded from now on.
PliCalls ==
  /\ pli.at # 0 /\ pli.holds = "encoder"
  /\ key' = key \cup {pli.at}
  /\ wanted' = IF picture[pli.at] = NoPicture THEN wanted \cup {pli.at} ELSE wanted
  /\ pli' = PliNext
  /\ UNCHANGED <<params, settings, encoder, capturer, frame, at, sending, failed, program>>

\* ... and on what has been released meanwhile.
PliCallsDangling ==
  /\ pli.at # 0 /\ pli.holds = "dangling"
  /\ program' = "dangling"
  /\ UNCHANGED <<params, settings, encoder, key, capturer, frame, at, sending, pliVars, failed>>

-----------------------------------------------------------------------------

Capturer ==
  \/ \E s \in Sizes, r \in Layers \cup {None} : SendVideoFrame(s, r)
  \/ ReleaseEncoder \/ Released \/ SkipInactive \/ InitEncoder \/ InitEncoderFails \/ Install
  \/ EncodeNothing
  \/ \E l \in Layers : EncodeNotReady(l) \/ EncodePicture(l) \/ EncodeFails(l)

Callback(l) == Label(l) \/ SendImage(l)

PliHandler == ReceivePli \/ PliLooks \/ PliCalls \/ PliCallsDangling

Next ==
  /\ program = "running"
  /\ Capturer \/ (\E l \in Layers : Callback(l)) \/ PliHandler

Spec == Init /\ [][Next]_vars

-----------------------------------------------------------------------------
(* Properties.                                                             *)

\* When a frame reaches the encoders after an initialisation that worked, every
\* active layer has an encoder of that size with a callback, and no other has one.
ReadyToEncode ==
  capturer = "encode" /\ failed = None =>
    \A l \in 1..Count :
      encoder[l] = IF l \in active THEN [state |-> "installed", size |-> frame.size]
                                   ELSE NoEncoder

\* What holds of the encoders in every state: types, and readiness
\* (signaling.cpp:135 and simulcast_encoder_adapter.cpp:60).
EncodersAreReady == TypeOK /\ ReadyToEncode

\* An encoder that is not ready is used only when an initialisation for another
\* size has failed and the capturer has gone back to the old size.
NotReadyOnlyOnReturn ==
  program = "not ready" => failed # None /\ settings = frame.size /\ failed # frame.size

\* When a PLI has been handled, the next picture of a layer is a key frame, also
\* when encoding fails or OpenH264 encoders are made anew in between.
KeyFrameAfterPli ==
  [][backend = "OpenH264" /\ image' # image /\ image'.layer \in wanted => image'.key = "yes"]_vars

\* With encoders that call back before they return, no picture is sent in another
\* size than that of the frame it was made from, however sizes change and
\* initialisations fail; and the shared rid of the media handler is still that of
\* the picture when it is read, so that none goes out on another layer's stream.
PictureKeepsItsPlace ==
  [][backend = "OpenH264" /\ image' # image =>
       image'.size = frame.size /\ image'.streams = {image'.layer}]_vars

\* Whatever the encoder, a picture goes to the RTP stream of its own rid
\* (simulcast_media_handler.cpp:32).
StreamOfRid ==
  [][image' # image => image'.streams = {image'.layer}]_vars
=============================================================================
