--------------------------------- MODULE Sumomo --------------------------------
(***************************************************************************)
(* The sample program examples/sumomo/sumomo.c: its main loop and its         *)
(* callbacks on_track, on_data_channel, on_capture_frame and on_record_frame, *)
(* over the handle table (CPointer), the tracks of the SDK (Tracks) and a     *)
(* capturer and a recorder that keep the promise of FrameSource.             *)
(*                                                                         *)
(* main, the thread that opens tracks, the thread of the peer connection that *)
(* announces data channels, the capturer and the recorder run concurrently,   *)
(* with no lock on struct State.  A call with a handle that leads nowhere     *)
(* dereferences null and ends the program.  main never leaves its loop, so    *)
(* the releases behind it are not reached.                                  *)
(***************************************************************************)
EXTENDS Naturals, Sequences, FiniteSets, SequencesExt, PartialMaps

CONSTANTS
  Rids,         \* the rids of a simulcast offer
  Channels,     \* the data channels with a label of the user's, as the server opens them
  Objects, Types, TypeOf, Addrs, Threads, NoAddr, NoObject, MaxHandles, MaxShares
                \* those of CPointer

UserChannels == Range(Channels)
Others == {"signaling", "video", "audio", "video description", "audio description"}

ASSUME SumomoAssumption ==
  /\ IsFiniteSet(Rids) /\ "no rid" \notin Rids
  /\ Channels \in Seq(UserChannels) /\ IsInjective(Channels)
  /\ UserChannels \cap Others = {} /\ Objects = UserChannels \cup Others
  /\ Types = {"Signaling", "Track", "Media", "DataChannel"}
  /\ TypeOf = [o \in Objects |-> CASE o = "signaling" -> "Signaling"
                                  [] o \in {"video", "audio"} -> "Track"
                                  [] o \in UserChannels -> "DataChannel"
                                  [] OTHER -> "Media"]
  /\ Addrs \subseteq Nat /\ NoAddr \notin Addrs /\ NoObject \notin Objects
  /\ "main" \in Threads
  /\ MaxHandles \in Nat /\ MaxShares \in Nat \ {0}

VARIABLES
  refMap, typeMap, lastId, address, library, using, handles, retired,  \* CPointer
  offer, codec, rids, client, senders, transport, opening, calling, opened,
  videoEncoder, opusEncoder, program,                            \* Tracks
  main,         \* program counter of main
  held,         \* struct State: the handle in each field, or NULL
  track,        \* program counter of on_track, and its locals:
  trackId,      \*   the handle it was called with
  descId,       \*   desc
  channel,      \* program counter of on_data_channel, and its locals:
  announced,    \*   the data channel it was called for
  channelId,    \*   the handle it was called with
  device        \* the capturer and recorder: "none", "idle" (start failed), "running"

NULL   == 0
Fields == {"signaling", "video", "audio", "channel"}

H == INSTANCE CPointer
T == INSTANCE Tracks

table  == <<refMap, typeMap, lastId, address, library, using, handles, retired>>
tracks == <<offer, codec, rids, client, senders, transport, opening, calling, opened,
            videoEncoder, opusEncoder, program>>
onTrack   == <<track, trackId, descId>>
onChannel == <<channel, announced, channelId>>
vars == <<table, tracks, main, held, onTrack, onChannel, device>>

TypeOK ==
  /\ T!TracksTypeOK
  /\ program \in {"running", "lost handle"} \cup T!Ends
  /\ main \in {"create", "connect", "sleep", "send", "sending"}
  /\ held \in [Fields -> 0..MaxHandles]
  /\ track \in {"none", "clone", "release", "share"}
  /\ {trackId, descId, channelId} \subseteq 0..MaxHandles
  /\ channel \in {"none", "ref", "replace", "share", "return"}
  /\ announced \in UserChannels \cup {NoObject}
  /\ device \in [T!Media -> {"none", "idle", "running"}]

Init ==
  /\ H!Init /\ T!Init
  /\ main = "create"
  /\ held = [f \in Fields |-> NULL]
  /\ track = "none" /\ trackId = NULL /\ descId = NULL
  /\ channel = "none" /\ announced = NoObject /\ channelId = NULL
  /\ device = [m \in T!Media |-> "none"]

-----------------------------------------------------------------------------
(* Calls of the C API.                                                     *)

\* The allocator, which may take any free address, takes the lowest.
NextAddr ==
  LET free == {a \in Addrs : H!Free(a)}
  IN  {a \in free : \A b \in free : a <= b}

\* The object that a getter, a setter or a sending function finds.
Reached(type, id) == H!Get(type, id)

\* What a function does that finds nothing: it dereferences null.
Lost ==
  /\ program' = "lost handle"
  /\ UNCHANGED <<table, offer, codec, rids, client, senders, transport, opening, calling,
                 opened, videoEncoder, opusEncoder>>

\* ref of a callback: the id that is there, or a new one.
RefId(o) == IF address[o] \in H!Registered THEN refMap[address[o]].id ELSE lastId + 1
RefTo(o) == IF address[o] \in H!Registered THEN UNCHANGED table ELSE H!Ref(o)

\* share returns NULL for a handle that leads nowhere.
ShareTo(field, type, id) ==
  IF Reached(type, id) = NoObject
    THEN held' = [held EXCEPT ![field] = NULL] /\ UNCHANGED table
    ELSE held' = [held EXCEPT ![field] = id] /\ H!Share(id)

-----------------------------------------------------------------------------
(* main.                                                                   *)

CreateSignaling ==
  /\ main = "create"
  /\ \E a \in NextAddr : H!Create("signaling", a)
  /\ held' = [held EXCEPT !["signaling"] = lastId']
  /\ main' = "connect"
  /\ UNCHANGED <<tracks, onTrack, onChannel, device>>

\* The callbacks are set, and sorac_signaling_connect is called.
Connect ==
  /\ main = "connect"
  /\ IF Reached("Signaling", held["signaling"]) = NoObject
       THEN Lost /\ UNCHANGED main
       ELSE main' = "sleep" /\ UNCHANGED <<table, tracks>>
  /\ UNCHANGED <<held, onTrack, onChannel, device>>

\* Line 236: there is a data channel to send on.
LooksAtChannel ==
  /\ main = "sleep"
  /\ held["channel"] # NULL
  /\ main' = "send"
  /\ UNCHANGED <<table, tracks, held, onTrack, onChannel, device>>

\* Line 239 reads the field again; sorac_data_channel_send calls Get ...
SendBegins ==
  /\ main = "send"
  /\ IF Reached("DataChannel", held["channel"]) = NoObject
       THEN Lost /\ UNCHANGED main
       ELSE /\ H!UseBegins("main", held["channel"])
            /\ main' = "sending"
            /\ UNCHANGED tracks
  /\ UNCHANGED <<held, onTrack, onChannel, device>>

\* ... and sends with what it got.
SendEnds ==
  /\ main = "sending"
  /\ H!UseEnds("main")
  /\ main' = "sleep"
  /\ UNCHANGED <<tracks, held, onTrack, onChannel, device>>

Main == CreateSignaling \/ Connect \/ LooksAtChannel \/ SendBegins \/ SendEnds

-----------------------------------------------------------------------------
(* The SDK: the offer, and the thread that opens tracks.                     *)

\* addTrack makes the object of a track, and client_ keeps it.
OfferHandled ==
  /\ main \notin {"create", "connect"}
  /\ T!Handler
  /\ \/ client' = client /\ UNCHANGED table
     \/ \E m \in client' \ client, a \in NextAddr : H!LibraryCreates(m, a)
  /\ UNCHANGED <<main, held, onTrack, onChannel, device>>

\* onOpen runs; if it calls on_track_, that makes a handle for on_track.
TrackOpens ==
  /\ T!TransportUp \/ T!OpenVideo \/ T!OpenAudio
  /\ IF calling'
       THEN RefTo(opening') /\ trackId' = RefId(opening') /\ track' = "clone"
       ELSE UNCHANGED <<table, track, trackId>>
  /\ UNCHANGED <<main, held, descId, onChannel, device>>

PliArrives ==
  /\ T!ReceivePli
  /\ UNCHANGED <<table, main, held, onTrack, onChannel, device>>

-----------------------------------------------------------------------------
(* on_track.                                                               *)

DescriptionOf(m) == IF m = "video" THEN "video description" ELSE "audio description"

CloneDescription ==
  /\ track = "clone"
  /\ IF Reached("Track", trackId) = NoObject
       THEN Lost /\ UNCHANGED <<track, descId>>
       ELSE /\ \E a \in NextAddr : H!Create(DescriptionOf(opening), a)
            /\ descId' = lastId'
            /\ track' = "release"
            /\ UNCHANGED tracks
  /\ UNCHANGED <<main, held, trackId, onChannel, device>>

\* Mutant: the clone is not released.
KeepsDescription ==
  /\ track = "release"
  /\ IF Reached("Media", descId) = NoObject
       THEN Lost /\ UNCHANGED <<track, descId>>
       ELSE track' = "share" /\ descId' = NULL /\ UNCHANGED <<table, tracks>>
  /\ UNCHANGED <<main, held, trackId, onChannel, device>>

\* Its type is read, and the clone released.
ReleaseDescription ==
  /\ track = "release"
  /\ IF Reached("Media", descId) = NoObject
       THEN Lost /\ UNCHANGED <<track, descId>>
       ELSE /\ H!Release(descId)
            /\ track' = "share" /\ descId' = NULL
            /\ UNCHANGED tracks
  /\ UNCHANGED <<main, held, trackId, onChannel, device>>

\* Mutant: the device is created and not started.
StartForgotten ==
  /\ track = "share"
  /\ ShareTo(opening, "Track", trackId)
  /\ track' = "none" /\ trackId' = NULL
  /\ T!OnTrackReturns
  /\ UNCHANGED <<main, descId, onChannel, device>>

\* The track is shared; a device is created and started, and nobody looks at whether
\* it did start; on_track returns.
ShareAndStart ==
  /\ track = "share"
  /\ ShareTo(opening, "Track", trackId)
  /\ \E phase \in {"idle", "running"} : device' = [device EXCEPT ![opening] = phase]
  /\ track' = "none" /\ trackId' = NULL
  /\ T!OnTrackReturns
  /\ UNCHANGED <<main, descId, onChannel>>

OnTrack == CloneDescription \/ ReleaseDescription \/ ShareAndStart

-----------------------------------------------------------------------------
(* on_data_channel.                                                        *)

\* Channels run over the same transport; onDataChannel makes the DataChannel ...
ChannelOpens ==
  /\ transport /\ channel = "none"
  /\ \E k \in DOMAIN Channels :
       /\ \A j \in DOMAIN Channels : H!Fresh(Channels[j]) <=> j >= k
       /\ \E a \in NextAddr : H!LibraryCreates(Channels[k], a)
       /\ announced' = Channels[k]
  /\ channel' = "ref"
  /\ UNCHANGED <<tracks, main, held, onTrack, channelId, device>>

\* ... and calls back with a handle of it.
OnDataChannelBegins ==
  /\ channel = "ref"
  /\ RefTo(announced)
  /\ channelId' = RefId(announced)
  /\ channel' = "replace"
  /\ UNCHANGED <<tracks, main, held, onTrack, announced, device>>

\* The channel of before is released; State still names it.
ReplaceChannel ==
  /\ channel = "replace"
  /\ IF held["channel"] = NULL THEN UNCHANGED table ELSE H!Release(held["channel"])
  /\ channel' = "share"
  /\ UNCHANGED <<tracks, main, held, onTrack, announced, channelId, device>>

\* Mutant: State keeps the handle of the callback, which owns nothing.
KeepChannel ==
  /\ channel = "share"
  /\ held' = [held EXCEPT !["channel"] = channelId]
  /\ channel' = "return" /\ channelId' = NULL
  /\ UNCHANGED <<table, tracks, main, onTrack, announced, device>>

\* Its label is read; it is shared, and its callbacks are set.
ShareChannel ==
  /\ channel = "share"
  /\ ShareTo("channel", "DataChannel", channelId)
  /\ channel' = "return" /\ channelId' = NULL
  /\ UNCHANGED <<tracks, main, onTrack, announced, device>>

\* The callback returns, and the SDK lets the channel go.
ChannelReturns ==
  /\ channel = "return"
  /\ H!LibraryDrops(announced)
  /\ channel' = "none" /\ announced' = NoObject
  /\ UNCHANGED <<tracks, main, held, onTrack, channelId, device>>

OnDataChannel == OnDataChannelBegins \/ ReplaceChannel \/ ShareChannel \/ ChannelReturns

-----------------------------------------------------------------------------
(* The capturer and the recorder.                                          *)

\* on_capture_frame and on_record_frame: the signaling is found, or not, and is given
\* the frame; with enable_parameters the one of the camera is scaled to a frame for
\* each encoding before, and to none where there are no encodings.
SendFrame(m) ==
  /\ device[m] = "running"
  /\ IF Reached("Signaling", held["signaling"]) = NoObject
       THEN Lost
       ELSE /\ IF m = "video" THEN \E r \in rids : T!SendVideoFrame(r)
                             ELSE T!SendAudioFrame
            /\ UNCHANGED table
  /\ UNCHANGED <<main, held, onTrack, onChannel, device>>

Next ==
  /\ program = "running"
  /\ \/ Main \/ OfferHandled \/ TrackOpens \/ PliArrives
     \/ OnTrack \/ OnDataChannel \/ ChannelOpens
     \/ \E m \in T!Media : SendFrame(m)

Spec == Init /\ [][Next]_vars

\* The thread that opens tracks runs.  Nothing is asked of the server, of main or of
\* the devices.
Fairness ==
  /\ WF_vars(program = "running" /\ transport /\ TrackOpens)
  /\ WF_vars(program = "running" /\ OnTrack)

FairSpec == Spec /\ Fairness

-----------------------------------------------------------------------------
(* Properties.                                                             *)

\* The program gives back what it takes: every share the table has counted is
\* held by a field of State or is the clone on_track is looking at, and every
\* handle in State is owned, but for the channel that is being replaced
\* (sumomo.c:136 to 141).
SharesAreInState ==
  /\ \A id \in 1..lastId :
       handles[id].owed = Cardinality({f \in Fields : held[f] = id /\ id \notin retired})
                            + (IF id = descId THEN 1 ELSE 0)
  /\ \A f \in Fields :
       held[f] \in retired => f = "channel" /\ channel = "share"

\* What holds of struct State and the handle table in every state (sumomo.c:94 to 147).
HandlesAreOwned == TypeOK /\ SharesAreInState

\* main reads state.data_channel with no lock: it can send with a handle that was
\* released only while on_data_channel replaces it, and with one data channel, all
\* that the sample asks the server for, never (sumomo.c:239).
LateSendOnlyOnReplacement ==
  program = "lost handle" =>
    /\ main = "send" /\ channel = "share"
    /\ Cardinality({o \in UserChannels : ~H!Fresh(o)}) > 1

\* Frames of the devices on_track has started find an encoder with its callback,
\* whatever fails, except that a codec nobody knows is let through without one
\* (signaling.cpp:568).
FramesFindEncoders ==
  /\ program = "no encoder" => codec = "unknown"
  /\ program # "no callback"

\* From the call of on_track_ for the video on, a PLI finds the encoder, too: only
\* before, or for a track without one, it ends the program (signaling.cpp:503).
PliFindsEncoder ==
  program = "no encoder for PLI" /\ codec = "known" =>
    held["video"] = NULL /\ device["video"] = "none" /\ opening # "video"

\* The sender that a picture is sent with is there, with simulcast and without,
\* and set before the first picture (signaling.cpp:152 and 518).
SenderIsThere == program # "no sender"

\* Frames, PLIs and pictures find what the offer and onOpen have made for them,
\* but for the cases named above.
MediaFindTheirWay == FramesFindEncoders /\ PliFindsEncoder /\ SenderIsThere

\* onOpen has given up on the encoder of a track.
Unencoded(m) ==
  IF m = "video" THEN codec = "known" /\ videoEncoder = "null"
                 ELSE opusEncoder = "failed"

\* Once the transport is up, every track is opened and, unless its encoder fails or
\* the program ends, handed to on_track, which creates its device and returns: no
\* track waits for ever for the one before it, and no device is forgotten.
OpenedTracksGetDevices ==
  \A m \in T!Media :
    transport ~> /\ m \in opened
                 /\ device[m] # "none" \/ Unencoded(m)
                 \/ program # "running"
=============================================================================
