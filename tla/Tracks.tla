--------------------------------- MODULE Tracks --------------------------------
(***************************************************************************)
(* The tracks of SignalingImpl (src/signaling.cpp): what the handler of the  *)
(* offer makes of the two media sections, what the onOpen callbacks of the   *)
(* tracks do, and the frames and picture loss indications that use what they *)
(* have made.                                                              *)
(*                                                                         *)
(* One thread opens the tracks, one after the other, when the transport is   *)
(* up; the offer is handled on another, and frames and PLIs arrive on others *)
(* still.  An exception in a callback is caught by libdatachannel; what is   *)
(* undefined or dereferences null ends the program.  How frames are encoded  *)
(* is the subject of VideoSend and OpusEncoder.                             *)
(***************************************************************************)
EXTENDS Naturals

CONSTANT Rids       \* the rids of a simulcast offer

NoRid == "no rid"   \* std::nullopt
Media == {"video", "audio"}

VARIABLES
  offer,        \* how far the handler of the offer is, see Offers
  codec,        \* of the video section: "known" (H264 or H265) or "unknown"
  rids,         \* those of rtp_encoding_params_; {NoRid} without enable_parameters
  client,       \* the media whose Track is set: client_.video and client_.audio
  senders,      \* the keys of client_.video->senders
  transport,    \* the media transport is up
  opening,      \* the track whose onOpen is running, or NoTrack
  calling,      \* it has called on_track_
  opened,       \* the tracks whose onOpen has returned
  videoEncoder, \* client_.video_encoder: "null" or "made"
  opusEncoder,  \* client_.opus_encoder: "null", "failed" or "ready"
  program       \* "running", or what has ended it

tracksVars ==
  <<offer, codec, rids, client, senders, transport, opening, calling, opened,
    videoEncoder, opusEncoder, program>>

NoTrack == "no track"
Offers  == {"none", "received", "video added", "audio added", "answered", "dropped"}
Codecs  == {"known", "unknown"}
Ends    == {"bad offer", "no encoder", "no encoder for PLI", "no sender", "no callback"}

TracksTypeOK ==
  /\ offer \in Offers /\ codec \in Codecs /\ rids \subseteq Rids \cup {NoRid}
  /\ client \subseteq Media
  /\ senders \subseteq Rids \cup {NoRid}
  /\ {transport, calling} \subseteq BOOLEAN
  /\ opening \in Media \cup {NoTrack} /\ opened \subseteq Media
  /\ videoEncoder \in {"null", "made"} /\ opusEncoder \in {"null", "failed", "ready"}

Init ==
  /\ offer = "none" /\ codec = "unknown" /\ rids = {NoRid}
  /\ client = {} /\ senders = {}
  /\ transport = FALSE /\ opening = NoTrack /\ calling = FALSE /\ opened = {}
  /\ videoEncoder = "null" /\ opusEncoder = "null"
  /\ program = "running"

open     == <<transport, opening, calling, opened>>
encoders == <<videoEncoder, opusEncoder>>

-----------------------------------------------------------------------------
(* The offer.                                                              *)

\* Lines 244 to 271: a simulcast offer may come without encodings.
OfferArrives ==
  /\ offer = "none"
  /\ offer' = "received"
  /\ rids' \in {{NoRid}, {}, Rids}
  /\ UNCHANGED <<codec, client, senders, open, encoders, program>>

\* Lines 476 to 519: one reporter for each encoding, or one without a rid.
Senders == rids

\* A section without an rtpmap, or with simulcast one without the extmap, is read
\* beyond its end; a payload type that is not a number throws.
OfferUnread ==
  /\ offer \in {"received", "video added"}
  /\ \/ offer' = "dropped" /\ UNCHANGED program
     \/ program' = "bad offer" /\ UNCHANGED offer
  /\ UNCHANGED <<codec, rids, client, senders, open, encoders>>

AddVideo ==
  /\ offer = "received"
  /\ codec' \in Codecs
  /\ client' = client \cup {"video"}
  /\ senders' = Senders
  /\ offer' = "video added"
  /\ UNCHANGED <<rids, open, encoders, program>>

AddAudio ==
  /\ offer = "video added"
  /\ client' = client \cup {"audio"}
  /\ offer' = "audio added"
  /\ UNCHANGED <<codec, rids, senders, open, encoders, program>>

\* setRemoteDescription, which makes libdatachannel answer.
Answer ==
  /\ offer = "audio added"
  /\ offer' = "answered"
  /\ UNCHANGED <<codec, rids, client, senders, open, encoders, program>>

-----------------------------------------------------------------------------
(* The tracks open.                                                        *)

TransportUp ==
  /\ offer = "answered" /\ ~transport
  /\ transport' = TRUE
  /\ UNCHANGED <<offer, codec, rids, client, senders, opening, calling, opened,
                 encoders, program>>

Opens(m) ==
  /\ transport /\ opening = NoTrack /\ m \notin opened

Returns(m) == opening' = NoTrack /\ calling' = FALSE /\ opened' = opened \cup {m}
CallsOnTrack(m) == opening' = m /\ calling' = TRUE /\ UNCHANGED opened

\* Mutant: on_track_ is called although the type of encoder is not supported.
OpenVideoAnyway ==
  /\ Opens("video")
  /\ \/ UNCHANGED videoEncoder
     \/ /\ codec = "known"
        /\ videoEncoder' = "made"
  /\ CallsOnTrack("video")
  /\ UNCHANGED <<offer, codec, rids, client, senders, transport, opusEncoder,
                 program>>

\* Whether the build has the type of encoder that config_ names is a matter of the
\* platform; with an unknown codec there is nothing to create, and no error.
OpenVideo ==
  /\ Opens("video")
  /\ \/ codec = "known" /\ Returns("video") /\ UNCHANGED videoEncoder
     \/ /\ videoEncoder' = IF codec = "known" THEN "made" ELSE "null"
        /\ CallsOnTrack("video")
  /\ UNCHANGED <<offer, codec, rids, client, senders, transport, opusEncoder,
                 program>>

\* An encoder whose initialisation fails stays, without a callback.
OpenAudio ==
  /\ Opens("audio")
  /\ \/ opusEncoder' = "failed" /\ Returns("audio")
     \/ opusEncoder' = "ready" /\ CallsOnTrack("audio")
  /\ UNCHANGED <<offer, codec, rids, client, senders, transport, videoEncoder,
                 program>>

OnTrackReturns ==
  /\ calling
  /\ Returns(opening)
  /\ UNCHANGED <<offer, codec, rids, client, senders, transport, encoders, program>>

-----------------------------------------------------------------------------
(* Frames and PLIs.                                                        *)

\* simulcast_ of the adapter: an offer without encodings makes one layer without rid.
SimulcastAdapter == rids \notin {{NoRid}, {}}

\* The rid that the adapter's layers label their picture of a frame for rid r with; a
\* frame that bears a rid, or none, where the adapter does not expect it is ignored.
Labels(r) == IF SimulcastAdapter = (r # NoRid) THEN {r} ELSE {}

\* A frame for rid r is encoded, and the encode callback of line 149 sends the picture
\* with the sender of its layer.
SendVideoFrame(r) ==
  /\ program' = CASE videoEncoder = "null" -> "no encoder"
                  [] "video" \notin client \/ ~(Labels(r) \subseteq senders) -> "no sender"
                  [] OTHER -> "running"
  /\ UNCHANGED <<offer, codec, rids, client, senders, open, encoders>>

\* Likewise with Opus, whose callback is missing after a failed initialisation.
SendAudioFrame ==
  /\ program' = CASE opusEncoder = "null" -> "no encoder"
                  [] opusEncoder = "failed" -> "no callback"
                  [] "audio" \notin client -> "no sender"
                  [] OTHER -> "running"
  /\ UNCHANGED <<offer, codec, rids, client, senders, open, encoders>>

\* The server asks for a key frame, at any time from the transport being up.
ReceivePli ==
  /\ transport
  /\ program' = IF videoEncoder = "null" THEN "no encoder for PLI" ELSE program
  /\ UNCHANGED <<offer, codec, rids, client, senders, open, encoders>>

Handler == OfferArrives \/ OfferUnread \/ AddVideo \/ AddAudio \/ Answer
=============================================================================
