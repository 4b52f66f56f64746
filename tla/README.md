# Verification of the Sora C SDK

This directory holds TLA+ specifications of the Sora C SDK (`src/`, `include/sorac/`,
`examples/sumomo/`), the TLC configurations that check them and the TLAPS proofs about them. Every
definition is translated from the source; paths below are relative to the repository.

## 1. The system

The SDK connects a C program to the WebRTC SFU Sora. A program creates a *signaling* object, gives
it callbacks and frames, and the SDK talks to Sora over a WebSocket, then over a peer connection
with data channels, an audio track and video tracks. Network and media transport are done by
libdatachannel; the SDK itself is the control around it.

| Component | State | Operations | Talks to |
|---|---|---|---|
| C handle table (`src/sorac.cpp`) | `ref_map`, six typed id maps, `last_id`, one mutex | create, clone, share, release, getters, callbacks' `Ref` | every C call |
| Signaling: connection (`src/signaling.cpp` 62-133) | `ws_`, `connecting_wss_`, `ws_mutex_` | `Connect`, WebSocket open/error/closed, `OnOpen` | WebSockets, one thread each |
| Signaling: session (202-705) | `ws_`, `client_`, data channels | `OnMessage`: redirect, offer, switched, ping, stats-req, notify, push; peer connection callbacks | WebSocket, peer connection |
| Signaling: tracks (510-677) | `client_.video`, `client_.audio`, encoders | `onOpen` of the tracks, `on_track_`, `SendAudioFrame` | tracks, encoders, user |
| Video sending (135-171) | `video_encoder_settings`, encoder, RTP config | `SendVideoFrame`, encode callback, PLI handler | capturer thread, encoder, track |
| Simulcast encoder adapter (`src/simulcast_encoder_adapter.cpp`) | an encoder and its parameters per rid | `InitEncode`, `Encode`, `Release`, `ForceIntraNextFrame`, division of the bit rate | video encoders |
| Simulcast media handler (`src/simulcast_media_handler.cpp`) | one shared rid, a handler chain per rid | `incoming`, `outgoing` | track |
| Video encoders (`src/open_h264_video_encoder.cpp`, `src/vt_h26x_video_encoder.cpp`) | library encoder, callback, next-I-frame flag | `InitEncode`, `Encode`, `Release` | OpenH264 (synchronous), VideoToolbox (asynchronous) |
| Opus encoder (`src/opus_audio_encoder.cpp`) | PCM buffer, delay queue, timestamp | `InitEncode`, `Encode` | recorder thread, audio track |
| Data channel (`src/data_channel.cpp`) | compression flag, callbacks | `Send`, `SetOnMessage` | libdatachannel |
| Utilities (`src/util.cpp`, `include/sorac/bitrate.hpp`) | none | random strings, `split_with`, zlib, bit rate units | all |
| sumomo program (`examples/sumomo/sumomo.c`) | handles in `struct State`, capturer, recorder | `main`, `on_track`, `on_data_channel`, frame callbacks | the C API, from four threads without a lock |
| sumomo devices (`examples/sumomo/*_capturer.cpp`, `*_recorder.cpp`, `steady_frame_thread.cpp`) | a thread, a quit flag, buffers, what the platform has given | `Start`, `Stop`, destruction, the thread, driver callbacks | V4L2, Core Audio, PulseAudio, the clock |
| C API strings (`src/sorac.cpp` 159-185) | none | `CopyString` | caller's buffers |

What is hard here: WebSocket callbacks of several candidates race with each other and with the
thread in `Connect`; messages cross the switch from the WebSocket to the data channels; the handle
table is keyed by addresses the allocator reuses; re-initialising the encoders can fail half way;
VideoToolbox answers asynchronously; the audio encoder buffers across calls; threads of the example
are stopped and joined in an order that matters. The hazards are listed, each with the line where it
bites and the properties that cover it, in `PROJECT.json`.

What makes the components correct:

- *Handle table*: the handle of a living object resolves to that object, and to no other, until the
  last share taken through it is released; what is shared lives; what nobody holds dies.
- *Connection*: one WebSocket is chosen for good and says "connect" once; nobody waits for ever.
- *Session*: the server sees a well-formed exchange; every request is answered where it was asked;
  every note is heard once and in order, also across the switch.
- *Video*: pictures keep their size and their RTP stream; a key frame that was asked for comes; an
  encoder that is used has been made ready.
- *Bit rates*: the layers share what there is, in order of their size.
- *Audio*: samples are neither lost nor repeated nor reordered; the time of a packet stays within a
  frame of its samples; no packet is sent before its age, nor kept long after it.
- *Tracks*: whoever sends or is asked for a key frame finds the encoder, its callback and the sender
  that the offer and `onOpen` have made; no track is forgotten.
- *Devices*: when stop has returned no frame is being made, and none is until the next start; stop returns, and gives back what a start has
  taken, however far that got; what is recorded is framed once and in order.
- *sumomo*: every handle it holds is owned, and it calls with no handle that leads nowhere.
- *Routines*: a caller reads its string or an empty one; pieces make up the whole; loops end.

## 2. Modules

Actions bear the names of functions or callbacks where there is one. A call that holds a mutex
throughout is one action; where the code can be interrupted between two steps that matter (a lock
taken and let go, a field read and used, a loop over encoders), the steps are actions of their own
and a variable says where the thread is. Definitions marked `Mutant` are used by no specification:
they are forms of a definition with a plausible mistake, which the property named in `PROJECT.json`
rejects.

| Module | Models | Checked by |
|---|---|---|
| `PartialMaps` | `std::map` as a function: put, erase | |
| `HandleRegistry` | the promise of the handle table: objects keyed by identity | `handles` (refinement) |
| `CPointer` | the handle table | `handles`, `handles_stale`, and as part of `Sumomo` |
| `CPointerProofs` | proofs about `CPointer`; that it implements `HandleRegistry` | |
| `SignalingConnect` | `Connect` and the `onOpen` callbacks | `connect` |
| `SignalingConnectProofs` | proofs about `SignalingConnect` | |
| `SignalingSession` | the session after a WebSocket has been chosen | `session`, `session_redirect`, `session_compress` |
| `SignalingSessionProofs` | proofs about `SignalingSession` | |
| `VideoSend` | `SendVideoFrame`, encoder adapter, encoders, media handler, PLI | `video`, `video_rid` |
| `VideoSendProofs` | proofs about `VideoSend` | |
| `OpusEncoder` | `OpusAudioEncoderImpl::Encode` | `opus` |
| `OpusEncoderProofs` | proofs about `OpusEncoder` | |
| `Tracks` | the tracks made of the offer, their `onOpen`, frames and PLIs | as part of `Sumomo` |
| `Sumomo` | `main` and the callbacks of the sample, over `CPointer` and `Tracks` | `sumomo` |
| `SumomoProofs` | proofs about `Sumomo`, with those of `CPointerProofs` | |
| `FrameSource` | the promise of a capturer or recorder | `devices` (refinement) |
| `SteadyFrameThread` | the steady thread with the fake capturer and recorder | as part of `SumomoDevices` |
| `V4L2Capturer` | camera: start, stop, buffers, capture thread | as part of `SumomoDevices` |
| `MacosRecorder` | Core Audio: stages of start and stop, the sample buffer | as part of `SumomoDevices` |
| `PulseRecorder` | PulseAudio: three threads, two locks, fragments | as part of `SumomoDevices` |
| `SumomoDevices` | the device the options choose | `devices` |
| `SumomoDevicesProofs` | proofs about the devices; that they implement `FrameSource` | |
| `SimulcastBitrate` | division of the bit rate in `InitEncode` | as part of `Routines` |
| `CopyString`, `SplitWith`, `ZlibBuffer` | strings of the C API, `split_with`, output of zlib | as part of `Routines` |
| `Routines` | the four routines before, one of them at a time | `routines` |
| `RoutinesProofs` | proofs about the four routines | |

`MC...` modules give the constants of the module they are named after.

**CPointer.** `refMap` is `ref_map` (address to count, id, weak and strong pointer), `typeMap` the
`g_*_map`s together. `address`, `library` and `using` stand for what C++ keeps for the program:
where an object was allocated, whether a `shared_ptr` outside the table holds it, and what a running
getter got from `Get`. An object is alive while one of them or a strong pointer of the table holds
it; its memory is reused only when the weak pointers are gone too, because `make_shared` allocates
both together. `handles` and `retired` are the user's side: what each id was given out for, how many
releases are owed, which ids have given back their last share. The user shares and uses handles,
owned or weak, of objects that live (`Usable`: "while the reference is valid", `sorac.h` 17), and
releases only what is owed; what happens to a handle whose last share is released is left to the
table. `Release` is `Remove`
with both halves: the count, and the pruning of expired entries of *every* type, of whose ids only
the map of the released handle's type hears.

**SignalingConnect.** One thread in `Connect` makes, lists and opens the WebSockets in turn; each
WebSocket that opens runs its `onOpen` on a thread of its own. `main`, `i` and `local` are the
program counter, index and `shared_ptr` of `Connect`; `callback` is the program counter of each
`onOpen`. The `try_lock` of line 83, which gives up, is `TryLock`. Destroying a WebSocket waits for
its running callback; `connecting_wss_.clear()` is therefore one step for each element.

**SignalingSession.** Each WebSocket, each labelled data channel and the peer connection call back
in the order of their own messages and interleave freely otherwise: `sent` and `handled` are what
the server sent on each channel and how far it has been handled. A send on a closed WebSocket is
lost, a send through an empty `ws_` ends the program (`program = "null"`). The redirect handler is
two steps, since the WebSocket is opened before it is stored in `ws_`. With `compress` a handler may
be given what is left of a destroyed string (`Read`). The server is Sora as the code expects it: an
offer or a redirection for "connect", other messages after the offer, "switched" last, data channels
after the answer.

**VideoSend.** The capturer's thread goes through `Release`, `InitEncode` per layer,
`SetEncodeCallback` and `Encode`; a layer is the index of an entry of `encoders_` and its rid. `key`
is the next-I-frame flag of each encoder, `picture` an encoded picture on its way through the
callback (the rid is stored at `Label` and read at `SendImage`), `image` the last one that reached
RTP streams. For OpenH264 the callback runs inside `Encode`: the capturer is in "sending" until it
is through. For VideoToolbox it runs later on a thread of the layer. `PliLooks` and `PliCalls` are
lines 74 and 75 of the adapter, between which the capturer may release the encoder. `wanted` and
`failed` are history: layers that owe a key frame, and the size of the last initialisation that
failed.

**SimulcastBitrate.** The two loops of `InitEncode` (lines 80-124), one layer per step, with the
table `kSimulcastFormats` and its interpolation in pixels and bit/s. `MulDiv` does the
multiplication two digits at a time, since TLC's integers have 32 bits (`MulDivTruncates` proves
that nothing else comes out). `double` is taken as exact: where a
quotient is whole, the code may get one bit/s less, which the properties allow for.

**CopyString, SplitWith, ZlibBuffer, Routines.** `CopyString`: any sequence of calls that ask for
the size or pass a part of one buffer, of negative or no size too; a character is its position.
`SplitWith`: one turn of the loop per step. `ZlibBuffer`: the capacity that doubles until zlib is
content; zlib itself is external. `Routines` runs one of these or `SimulcastBitrate` on each input
of the instance; the variables of the others have the value `Unused`.

**OpusEncoder.** A sample is the time it was recorded at, so that packets show which samples they
hold. A frame bears the time of its end, as `FakeRecorder` stamps it (`fake_recorder.cpp` 92) and
`PulseRecorder` by adding the frame to a sum before it is sent (`pulse_recorder.cpp` 285); `Encode`
takes that time as it is for the first packet it makes of the frame. So the time of a packet may be
that of an earlier one, or before it. A frame is pushed sample by sample; a full buffer is encoded, and the loop goes on; the queue
is drained at the end of the call up to the first packet that is too young. An encoding that fails
ends the call and leaves the buffer as it is. The clock (`src/current_time.cpp`) may be set back.
`failed` is history: an encoding has failed.

**Tracks.** `offer` is how far the handler of the offer has got on its thread; `opening` and
`calling` say which `onOpen` runs and whether it has called `on_track_`, on another. An offer that
cannot be read ends in an exception, which libdatachannel catches, or reads behind the end of a
vector, which ends the program. `rids` are the rids of the encodings, `{NoRid}` without
`enable_parameters`: an offer may ask for simulcast and have no encodings, for which the handler
makes no sender (476) but the adapter a layer without rid (`simulcast_encoder_adapter.cpp` 59).
Frames and PLIs are one step each: what they find. How a frame is
encoded is the subject of `VideoSend` and `OpusEncoder`.

**Sumomo.** One step for each call of the C API, since that is where the handle table locks; locals
of callbacks are variables. `held` is `struct State`: `ReplaceChannel` (`sumomo.c` 136) and
`ShareChannel` (141) are two steps, as are the two reads of `state.data_channel` in `main` (236 and
239). A call with a handle that leads nowhere dereferences null (`program = "lost handle"`). The
allocator takes the lowest free address, so that addresses are reused as soon as they can be. The
devices are those of `FrameSource`: they start or fail to, which nobody looks at, and deliver; a
frame of the camera is sent for each rid, for none if there are no encodings (`sumomo.c` 37).

**FrameSource, SumomoDevices.** `owner` is the caller of `Start`, `Stop` and the destructor: what it
has called, and whether that call has returned. `thread` is the thread of the device. The phase of
`FrameSource` is the caller's alone: it goes to "stopped" in the step in which `Stop` returns, and
whether a frame is being made then is a matter of `thread`, which is what the refinement relates. In `SteadyFrameThread` `engine` is what frames are made with, declared behind the
thread and so destroyed before it is joined; `samples`, `count` and `begun` are history. In
`V4L2Capturer` a buffer is with the driver (`queued`, `filled`), with the thread (`held`), or lost
when the driver has refused it. `MacosRecorder` numbers the samples; `Start` acquires its stages in
order and may fail behind each; pointers without an initial value are "garbage" or null. In
`PulseRecorder` the recording thread holds `rec_mutex_` over several steps, while the callback of
the mainloop needs it for one; `rec_size_`, without an initial value, may announce a fragment that
is none. Drivers and servers are external and may refuse anything.

## 3. Runs

### What holds

`handles` (`MCCPointer.cfg`). Two tracks, a video buffer and two addresses, four ids, two shares per
id, a thread in a getter; tracks and addresses are symmetric. `LivingHandleResolves` says what every handle of a living object
leads to, before and after its last share is released (see below); `OwnedIsAlive`, `AliveIsHeld`, `CountIsOwed`
and `TableConsistent` are what shares are for; `LiveEntryStays` is what a step may never do; `ImplementsRegistry` says that the table refines
`HandleRegistry`, in which there are no addresses. Three objects at two addresses are enough for an
address to be reused while an id of another type is left behind, the one way in which the table
could mix objects up; two types are enough for pruning to meet a foreign entry.

`connect` (`MCSignalingConnect.cfg`). Three candidates that open or fail in any order. `OneWinner`
is about the choice: one "connect", on the one chosen, and nothing left of the others.
`EveryoneReturns` is freedom from deadlock between `ws_mutex_` and the destruction of WebSockets.
`OpenedConnects` says that an opened candidate leads to a connection, once `Connect` has returned.
`OverrunOnlyAfterChoice` confines the read of `connecting_wss_` behind its end. Three are enough for
a winner, a loser that `Connect` still holds and one not opened yet.

`session` (`MCSignalingSession.cfg`). Two WebSockets (one redirection), one local candidate, two
messages on any channel before, during and after the switch. `WellFormedSession` and
`SilentAfterSwitch` are what the server sees, `HeardAsSent` and `NotesAreHeard` what the user hears,
`OfferIsAnswered` that the session comes up, `OnlyCandidatesComeLate` which callback may find `ws_`
gone. Two messages suffice for an order to be confused and for one to cross the other's channel.

`video` (`MCVideoSend.cfg`). Both kinds of encoders, simulcast with two layers or none, any set of
active layers, two sizes, frames of any rid, failures of `InitEncode` and of encoding, PLI at any
moment. `EncodersAreReady` and `NotReadyOnlyOnReturn` are about partial re-initialisation,
`KeyFrameAfterPli` about requests racing with it, `PictureKeepsItsPlace` about sizes and the shared
rid. Two layers are one that fails and one before or behind it; two sizes are a change and the way
back.

`opus` (`MCOpusEncoder.cfg`). Packets of two samples, frames of none to five, so that frames end
within packets and span three; an age of two packets; a clock that is set back. `PacketsAreRight` is
about samples and times: no sample is lost or repeated, a packet's time is at or behind its last
sample by less than a frame, and times fall by less than a frame is longer than a packet.
`SentOfAge` and `WaitIsBounded` are about the queue: nothing is sent too early, and what is of age
waits behind a younger packet no longer than times fall. Eight samples are two frames and a rest,
thirteen units of time are the last packet's and its age. `StallIsFailure`: the buffer
outgrows a packet, after which the comparison by `==` (`opus_audio_encoder.cpp` 84) is never true
again, exactly when an encoding has failed.

`sumomo` (`MCSumomo.cfg`). An offer without simulcast, or with it and two encodings or none, a known or unknown codec, encoders that
cannot be made, two data channels of the user's, PLIs and frames at any moment.
`HandlesAreOwned` relates `struct State` to what the table has counted. `LateSendOnlyOnReplacement`
confines the unlocked read of `state.data_channel`: `main` may send with a handle that was just
released, but only with a second data channel. `MediaFindTheirWay` says which frames and PLIs find
no encoder: with a codec that nobody knows, and PLIs before the video track has opened.
`OpenedTracksGetDevices`: a failure at one track does not keep the other from its device. Two
channels are what it takes to replace one; six addresses are one less than there are objects.

`devices` (`MCSumomoDevices.cfg`). Each of the four devices by itself, started, stopped and
destroyed at any moment: eight units of time and frames of two, three buffers, chunks of two samples
for frames of three, four fragments. `FramesHaveTheirSource`, `AudioIsFramed`, `StopGivesBack`,
`ThreadsMeet` are about memory, data, failed starts and locks; `StopReturns` about joining;
`ImplementsFrameSource` says that every device keeps the promise of `FrameSource`, whatever its
threads and its driver do: a `Stop` that returned without its thread would return with a frame being
made, or before one begins. Sizes of chunks and frames that do not divide each other make the rest in
the buffer go through all its values; four fragments are one in the callback, one taken, one dropped
and one late.

`routines` (`MCRoutines.cfg`). Three layers, any active, any scale, sizes at, between, above and far
below the entries of the table (`DivisionIsFair`); strings of none to three characters with buffers
of every size from -1 to behind the end (`ResultsAreUsable`, `ReportedSizeSuffices`); all strings of
up to five characters over two, split with tokens that overlap themselves; outputs at and around the
sizes that zlib is given (`LoopsEnd`).

### What does not hold

Each of these runs checks one statement of the repository's own and ends in a counterexample.

| Run | Statement | What happens |
|---|---|---|
| `handles_stale` | `EntryMustExist`: "絶対存在するはず" (`src/sorac.cpp` 56, 126) | `Remove` prunes entries of all types but forgets ids only of one; a stale id then makes `ref_map.at` throw |
| `session_redirect` | `RedirectionConnects` (`CHANGES.md` 34) | the redirected WebSocket opens before line 234 has stored it; "connect" goes to the closed one |
| `session_compress` | `HeardIntact` (`data_channel.hpp` 12) | the uncompressed string dies before the handler reads it |
| `video_rid` | `StreamOfRid` (`simulcast_media_handler.cpp` 32) | two VideoToolbox callbacks share one rid: a picture goes out on the other's stream |

Two statements hold only in part, and the properties of the passing runs say in which:

- `include/sorac/sorac.h` 17 says of shared handles and of the weak ones that callbacks are given
  "参照が有効な間は普通にアクセスが可能" (both can be used while the reference is valid). A share of
  a weak handle is the same id; when it is released, the entry goes (`src/sorac.cpp` 59), and the
  weak handle leads to null although the SDK holds the object, which the getters then dereference.
  `LivingHandleResolves` says so in its second case; sumomo does not use such a handle any more.
- `src/opus_audio_encoder.cpp` 118 says "100ミリ秒以上経過したやつから送っていく" (packets that are
  100 ms old are sent). After a frame longer than a packet times fall, and `find_if` (119) stops at
  the first packet that is too young, with one of age behind it. `WaitIsBounded` says for how long;
  where no frame is longer than a packet, the comment is right (`ShortFrames`).

Other behaviour of the code that the models contain, and that properties describe or confine rather
than forbid: `Connect` reads `connecting_wss_` behind its end when a candidate was chosen while it
was still opening others (`signaling.cpp` 128); an `onOpen` gives up to the lock that `Connect`
itself holds (83); a local candidate found after "switched" dereferences null (297); an offer
without audio or video ends in an index into an empty vector (429, 615); a PLI may call an encoder
that was destroyed after it was looked at (`simulcast_encoder_adapter.cpp` 75); VideoToolbox forgets
a PLI when encoding fails (`vt_h26x_video_encoder.cpp` 221); after a failed change of size, a frame
of the old size meets encoders that are not ready (`signaling.cpp` 136); layers scaled down to
nothing divide zero by zero (`simulcast_encoder_adapter.cpp` 112); a capturer destroyed without stop
frees its engine under the thread (`fake_capturer.cpp` 66); a recorder on macOS can be started, but
its thread has no end and `Stop` never returns (`macos_recorder.cpp` 227); a PulseAudio recorder is
stopped for ever while its stream does not get ready (`pulse_recorder.cpp` 265) or if the
notification of `Stop` falls between predicate and wait (334, until the next fragment comes); its
callback still runs when it has been destroyed (342).

### Bounds

`MaxHandles` and `MaxShares` bound ids and shares, `MaxCandidates` and `MaxMessages` what is found
and said in a session, `MaxFrame`, `MaxSamples` and `MaxTime` the audio and the clock, `MaxHeard`
and `MaxFragments` what the devices record, `MaxText` and `MaxLen` the strings. They are guards of
the actions that would pass them, or bound the inputs. `CHECK_DEADLOCK FALSE` is set where the
bounds end the behaviour, or where the system may rest: everything created and released, a session
in which the server says nothing more, a loop that is done.

### Fairness

Liveness is stated by five modules. `SignalingConnect!FairSpec`: the thread in `Connect`
and each callback make their next step if they can (operating system threads; a callback that waits
for the mutex is not assumed to get it against others for ever: nobody waits, `try_lock` gives up),
and handshakes end, because WebSockets time out. `SignalingSession!FairSpec`: libdatachannel calls
back for what has come, and handshakes end. The server owes nothing: that an offer or a note exists
is a premise of the properties. `Sumomo!FairSpec`: the thread that opens tracks goes on, through
`onOpen` and `on_track`; nothing is asked of the server, of `main` or of the devices.
`SumomoDevices!FairSpec`: threads of the program run, frame callbacks return, a caller inside `Stop`
goes on when it can, and `select` times out after a second, as line 191 of `v4l2_capturer.cpp` asks;
nothing is asked of drivers or of the PulseAudio server, and the recorder on macOS has no fairness,
since its thread has no end. `Routines!Spec`: a loop that runs goes on.

## 4. Proofs

TLC checks the properties on the instances of section 3; the theorems state them for every value of
the constants, from the named assumptions of the module alone. Each proof module follows the same
plan. No property is inductive as it stands, so `Inv` adds what the code silently relies on; one
lemma per action shows that `Inv` is preserved; the theorems then follow from `Inv`, action
properties from one step out of a state in which it holds. Where a model is a bound away from the
code (`MaxHandles`, `MaxMessages`, ...), the theorem is for every bound.

### The handle table: CPointerProofs

Assumed are the four named assumptions of `CPointer`: `TypeOf` gives every object a type, the
markers `NoAddr` and `NoObject` are no address and no object, and the bounds are numbers.

That the handle of a living object resolves says nothing of the entry a *new* object could overwrite. `Inv` adds:

- `EntriesBacked`: an entry, the handle with its id and the typed map of its object lead to each
  other, and the count is what is owed;
- `HandlesBacked`: a handle that is owed something, or whose object lives and that was not retired,
  has an entry;
- `Allocated`: handles and living objects have an address;
- `OneAtAnAddress`: two objects that are pinned are never at one address: why a table keyed by
  addresses works;
- `RetiredForgotten`: with the last share of an id its typed map forgets it, for good, since ids are
  not used twice: why such a handle leads to null and never to a later object.

`Release` is the hard action: the decremented table must be shown to keep alive exactly what it
should before the pruning can be shown to take only dead entries, and forgetting ids of one type
only must be shown harmless to every handle of a living object (`DecrementedTable`, `IdUnique`).
That a step never takes a live entry away needs no new invariant, only one lemma per action
(`RegisterKeeps` to `ReleaseKeeps`).

The end of the module proves that every step of the table, from a state of `Inv`, is a step of
`HandleRegistry` on the objects or leaves them alone. `OneAtAnAddress` makes the mapping from entries
to objects a function. `Release` is the hard action here too: what the pruning takes from a table of
weak pointers, some of them not expired until this very step, must be the dead objects of the
registry and the one whose last share it was, and nothing else.

| Theorem | Property |
|---|---|
| `Invariance` | `Spec => []Inv` |
| `TypeCorrect` | `TypeOK` |
| `HandlesResolve` | `LivingHandleResolves` |
| `CountsAreOwed` | `CountIsOwed` |
| `SharesKeepAlive` | `OwnedIsAlive` |
| `NothingLeaks` | `AliveIsHeld` |
| `TablesAgree` | `TableConsistent` |
| `EntriesStay` | `LiveEntryStays`, an action property |
| `Refinement` | `ImplementsRegistry` |

### The race of the candidates: SignalingConnectProofs

From `NAssumption` (there is a candidate) and `NobodyAssumption` (`Nobody` is none of them, nor the
thread in `Connect`). That the server sees one "connect" does not follow from itself: between the
choice and the sending the mutex is let go, and the list, the shared_ptr of the loop and the
callbacks all bear on it. `Inv` says what each of them knows:

- `MainPlace`: where the thread in `Connect` is, what it holds, and which candidates it has not
  opened yet;
- `Callbacks`: who has the mutex is making, reading or choosing; a callback runs only on an open
  WebSocket, and the one that clears or sends is that of `ws_`;
- `Unchosen`: while nobody is chosen, the list is complete and in order and nothing is destroyed;
- `Chosen`: after the choice `ws_` stays open, the list shrinks to nothing before the mutex is let
  go, and "connect" is sent once;
- `Held`: a WebSocket that nobody holds any more has been destroyed.

| Theorem | Property |
|---|---|
| `Invariance` | `Spec => []Inv` |
| `OnlyOneWins` | `OneWinner` |
| `OverrunNeedsWinner` | `OverrunOnlyAfterChoice` |

### The session: SignalingSessionProofs

From `SocketsAssumption` (there are finitely many WebSockets, `First` is one of them, `Nobody` and
the labels of data channels are not) and `BoundsAssumption`. `Inv`:

- `SentInv`, `IdInv`: what the server of the model may send, and that every chat has a number of its
  own, so that a note that was heard can be traced to its message;
- `GotInv`: the well-formedness of what the server gets, as far as one WebSocket alone tells it;
- `CurrentInv`: a WebSocket on which the session has begun, and that has not been let go of, is
  `ws_`, and open, and nobody redirects; after "switched" there is none;
- `OpeningInv`: when `ws_` is closed, the WebSocket that will replace it is the one that is opening;
- `PeerInv`: the answer goes where the offer came from; `ws_` is empty only after the answer;
- `HeardInv`: each call of a user's callback was for a note that has been handled;
- `HeardAsSent` and `RepliesAreOwed`, which are inductive together with the rest.

Counting replies against requests and calls against notes is where the work is: each handler is
shown to move both numbers, or neither (`OwedKept`, and the lemmas on `Append` and `Cardinality`).

| Theorem | Property |
|---|---|
| `Invariance` | `Spec => []Inv` |
| `SessionInvariance` | `WellFormedSession` |
| `HeardInvariance` | `HeardAsSent` |
| `Silence` | `SilentAfterSwitch`, an action property |
| `LateCandidates` | `OnlyCandidatesComeLate`, an action property |

### Video: VideoSendProofs

For any number of layers, any sizes and either kind of encoder, from `NAssumption`,
`NoneAssumption` (the marker is no layer and no size) and `BackendsAssumption`. `Inv`:

- `Places`: where the capturer is tells whether the settings are those of its frame, and the size
  that failed is never that of the settings;
- `Gone`, `MadeSoFar`, `AllInPlace`: which encoders are there while they are released layer by layer,
  made layer by layer, and used; `InstalledIsCurrent`: one with a callback has the current size;
- `PicturesInPlace`: with OpenH264 a picture is on its way only while the capturer waits for it; it
  is that of the frame, and the shared rid is its own from `Label` to `SendImage`;
- `Keys`: with OpenH264 a key frame that is owed is on its way, or asked for, or will be made by the
  encoder that comes next, because a new encoder begins with one.

| Theorem | Property |
|---|---|
| `Invariance` | `Spec => []Inv` |
| `ReadyInvariance` | `EncodersAreReady` |
| `NotReadyInvariance` | `NotReadyOnlyOnReturn` |
| `KeyFrame` | `KeyFrameAfterPli`, an action property |
| `PictureInPlace` | `PictureKeepsItsPlace`, an action property |

The last two are about OpenH264, as the properties are; with VideoToolbox the run `video_rid` shows
that the shared rid does go astray.

### Audio: OpusEncoderProofs

From `SizesAssumption` (a packet has a sample, the delay is a number) and `BoundsAssumption`. `Inv`:

- `NoneLeft`, `PcmSize`: a call that ends has put all of its frame into the buffer, which then has
  less than a packet, unless an encoding has failed: then it has more than one for good;
- `InOrder`, `Covers`: the packets made and the buffer have every sample that was recorded and not
  dropped, once, in order;
- `PcmEnds`, `Stamped`, `Timed`: during a call the timestamp is at or behind the end of the frame,
  and with what is in the buffer less than a frame and a packet ahead of the samples taken; so the
  time of a packet is at or behind its last sample, by less than a frame.

That times fall by less than `MaxFrame - PacketSize` follows from `Timed`, from `InOrder`, and from
`Spread`: increasing numbers are at least as far apart as their places, so that the last sample of a
packet is at least a packet behind that of the one before. From this in turn follows what the wait
of a packet behind a younger one comes to, and that there is none where frames are no longer than
packets (`ShortFrames`), as those of `MacosRecorder` are.
Which packets of the queue are sent is a question of the first one that is too young: the least
element of a set of numbers (`LeastOf`, from the well-foundedness of `<`), which takes the place of
an induction.

| Theorem | Property |
|---|---|
| `Invariance` | `Spec => []Inv` |
| `AudioInvariance` | `PacketsAreRight` |
| `StallInvariance` | `StallIsFailure` |
| `AgeOfSent` | `SentOfAge`, an action property |
| `WaitsAreBounded` | `WaitIsBounded`, an action property |
| `ShortFrames` | `MaxFrame <= PacketSize => (Spec => NoneOverdue)` |

### The devices: SumomoDevicesProofs

From `DevicesAssumption`, which joins what the four modules ask of their sizes and bounds. Each
device has an inductive invariant of its own, and `DevicesInv` is that of the device in use:

- `SteadyInv`: `SteadyOwner` (somebody waits for a thread only if there is one), `SteadyEngine`
  (a thread that makes frames has an engine: `on_prepare_` was set before it was started),
  `SteadyFrame` and `SamplesKeepPace` (a frame is made when it is due; the samples of a run fall
  behind the clock by less than one for each frame, whatever the division loses);
- `V4L2Inv`: `V4L2Owner`, `V4L2Mapping`, `V4L2Mapped` (what `Start` has mapped, while it maps and
  when a driver has refused a buffer), `BuffersHaveOneHolder` and `StopReleasesAll`;
- `MacosInv`: `MacosOwner`, `MacosAcquired` (which stages Core Audio still has, in every state from
  which `Stop` or the destructor may start), `MacosFrame`, `MacosNumbers` (frame and buffer have
  exactly the samples heard and not yet delivered);
- `PulseInv`: `PulseMutex`, `PulseHand`, `PulseArmed` (from the notification to the rearming
  `ReadCallback` is not set: why the two locks are not wanted crosswise, unless garbage was once
  taken for a fragment), `PulseTold` (a thread that waits will be told), `PulseOrder` (the frames are
  the fragments in order, behind at most one of garbage).

| Theorem | Property |
|---|---|
| `DevicesInvariance` | `Spec => []DevicesInv` |
| `SourceInvariance` | `FramesHaveTheirSource` |
| `AudioInvariance` | `AudioIsFramed` |
| `StopInvariance` | `StopGivesBack` |
| `MeetingInvariance` | `ThreadsMeet` |
| `Refinement` | `ImplementsFrameSource` |

For the refinement each action of an owner that returns has to be shown to find no frame being made,
which is what the invariants say of the owner and its thread; every step of a thread leaves the
phase alone.

### The sample program: SumomoProofs

From `SumomoAssumption` (the kinds of objects, disjoint from each other; finitely many rids, each
data channel announced once; addresses are numbers, of which the allocator takes the least). Every
call of the sample is a step of the handle table, so what `CPointerProofs` proves is used for it as it stands:
`Table == INSTANCE CPointerProofs`, whose assumptions `TableAssumptions` discharges. What a handle
of the sample leads to then follows from `Table!Inv` and from what is added here:

- `MediaInv`: how far the handler of the offer is (`OfferInv`), which `onOpen` runs (`OpeningInv`),
  which tracks have been handed to `on_track` (`HandedInv`), and `MediaFindTheirWay`;
- `HandlesInv`: which object each field of `State` and each local of a callback is for (`StateInv`,
  `TrackInv`, `ChannelInv`), that only clones and data channels are ever given back (`RetiredInv`),
  that the table has counted one share for exactly the handles the program has to release
  (`OwedInv`), and that a handle is lost only between `ReplaceChannel` and `ShareChannel`
  (`LateInv`).

| Theorem | Property |
|---|---|
| `Invariance` | `Spec => []Inv` |
| `MediaInvariance` | `MediaFindTheirWay` |
| `HandlesInvariance` | `HandlesAreOwned` |
| `LateSendInvariance` | `LateSendOnlyOnReplacement` |

### The routines: RoutinesProofs

From `NAssumption` (there is a layer), `InputsAssumption` (sizes and rates are numbers, no layer is
scaled by zero) and `BoundsAssumption` (bounds are numbers, no token is empty: with an empty one
`split_with` does not advance, and its callers pass none). The theorems hold for strings and tokens of any length, any number
of layers and any rates, far beyond what the instance enumerates.

The loops compute sums, joins and quotients by recursion, and the provers take no induction over
data. `LeastOf` and `UpTo` stand in for it: a set of numbers that has 0 and with each number the next
has them all, since otherwise it would lack a least one. The recursive functions are shown to exist
by the same argument (`SumsExist`, `JoinExists`); only then is a value of theirs known to be what its
equation says. The invariants:

- `DivisionInv`: after the first loop `sum` is the sum over *all* active layers, and each layer
  before the one the second loop is at has its share, those behind have nothing. Without the first
  part a share need not stay within the bit rate.
- `SplitInv`: while the loop runs, the pieces with a token behind each are exactly the string up to
  `sp`; no piece has a match in it, because the match found is the first (`MatchInPart`).
- `CopyInv`: every size reported so far is that of the text and its zero, and what was passed last
  can be read.
- `ZlibInv`: the capacity is the first one or less than double of what is needed.

From `DivisionInv` it is some way to the properties. `MulDivTruncates`: two digits at a time come to
the truncated quotient for all operands. `RateGrows`: interpolation, truncated, never falls as the
size grows, across the entries of the table too. `PixelHasRate`: a single pixel has a rate above
zero, so a `sum` of zero means layers without pixels. `PartGiven`: what is given up to a layer, times
`sum`, differs from the bit rate, times the rates so far, by at most `sum` for each active layer;
at the last layer both sides can be divided by `sum` (`RateIsShared`).

| Theorem | Property |
|---|---|
| `Invariance` | `Spec => []RoutinesInv` |
| `MulDivTruncates` | what `MulDiv` computes |
| `DivisionInvariance` | `DivisionIsFair` |
| `ResultsInvariance` | `ResultsAreUsable` |
| `SizeSuffices` | `ReportedSizeSuffices`, an action property |

### What is only model-checked

- Liveness, which is out of the prover's reach together with ENABLED: `EveryoneReturns`,
  `OpenedConnects`, `NotesAreHeard`, `OfferIsAnswered`, `OpenedTracksGetDevices`, `StopReturns`,
  `LoopsEnd`.
- The four runs that expect a violation: a counterexample of one instance is enough.

## 5. Not modelled, and why

- The contents of "connect", of SDP and of media (`signaling.cpp` 707-826, the packetizers, NAL
  units, Opus and OpenH264 themselves, scaling by libyuv, resampling): data that no property here
  tells apart.
- RTP timestamps and sender reports (`signaling.cpp` 149-171): nothing in the repository says what
  they should do beyond the assignments themselves.
- A second `Connect` on one object: nothing of the first is reset, so the second can only lose.
- A data race on `ws_` itself (written without the mutex at 234 and 684): each access is atomic in
  the models.
- Destruction of the signaling object while callbacks run. sumomo never releases it, and whether the
  destructors of libdatachannel wait for running callbacks is not in the repository; for WebSockets,
  `SignalingConnect` assumes that they do.
- What `ReadCallback` of PulseAudio does to a recorder that is gone: it uses freed memory, of which
  nothing can be said. Starting a PulseAudio recorder twice.
- `mac_capturer.mm`: its control is in AVFoundation.
- Getters of frames, frame buffers, random strings, versions, options, dynamic loading, build scripts:
  no control of their own.


## 6. What the models merge or bound

- "switched" closes `ws_` and resets it in one step (`signaling.cpp` 683 and 684). A callback in
  between would send on a closed WebSocket, which is lost, instead of dereferencing null.
- `on_data_channel` shares the handle and sets two callbacks on it (`sumomo.c` 141 to 145) in one
  step: the callbacks print, and change no state of the model.
- An OpenH264 library that cannot be loaded makes the constructor throw
  (`open_h264_video_encoder.cpp` 25) out of `InitEncode`, through the frame callback: the capture
  thread ends the program. `VideoSend` begins where the library is there.
- `ForceIntraNextFrame` reads `e.encoder` at 74 and again at 75. `VideoSend` keeps the first; the
  second may be the encoder that has come instead, or null.
- One picture of a layer is in the hands of VideoToolbox at a time.
- `scale_resolution_down_by` is a `double`; `SimulcastBitrate` has whole numbers.
- A recorder on macOS is started only when it is stopped: a second `Start` would lose what the first
  has taken. `quit_` has no initializer (`macos_recorder.cpp` 394), but is a `std::atomic<bool>`, whose
  default constructor sets it to false in C++20, with which sumomo is built
  (`examples/sumomo/CMakeLists.txt` 63).
- The encoder in `OpusEncoder` has one channel.

## 7. Plan

Done: the handle table, connection, session, tracks, video sending, audio encoding, the sequential
routines, the devices and the sample program on top of the handle table; proofs of every safety
invariant and action property that a run checks, and of both refinements.

What is left is not a matter of proofs with the provers at hand:

1. Liveness stays with TLC. The safety half of some of it is proved: that two threads
   wait for each other only while the other can still come (`ThreadsMeet`), that every request
   handled has been answered (`WellFormedSession`).
2. The hazards without a property (`PROJECT.json`): each needs a decision about code that is not in
   the repository, above all what the destructors of libdatachannel wait for.
3. The parts of section 5, should they get control of their own.
