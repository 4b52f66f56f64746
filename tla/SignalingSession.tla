--------------------------- MODULE SignalingSession ---------------------------
(***************************************************************************)
(* A session of SignalingImpl (src/signaling.cpp) after a WebSocket has been *)
(* chosen: "connect", redirection, the offer and its answer, the requests   *)
(* and notifications of the server over the WebSocket or data channels, and  *)
(* the switch from the WebSocket to the data channels.                      *)
(*                                                                         *)
(* Each WebSocket, each data channel and the peer connection call back on   *)
(* threads of libdatachannel, each in the order of its own messages.  A send *)
(* on a WebSocket that is not open throws, and libdatachannel catches what a *)
(* callback throws, so the message is lost.                                 *)
(*                                                                         *)
(* Of the server: it answers "connect" by one "redirect" or one "offer",    *)
(* speaks about other things after the offer, and says "switched" last.     *)
(***************************************************************************)
EXTENDS Naturals, FiniteSets, SequencesExt

CONSTANTS
  Sockets,        \* the WebSockets there can be: one more than redirections
  First,          \* the one that Connect chose
  Nobody,         \* no WebSocket
  MaxCandidates,  \* bounds the local ICE candidates
  MaxMessages     \* bounds what the server says besides the set-up

ASSUME SocketsAssumption ==
  /\ IsFiniteSet(Sockets) /\ First \in Sockets /\ Nobody \notin Sockets
  /\ Sockets \cap {"stats", "notify", "push"} = {}
ASSUME BoundsAssumption == MaxCandidates \in Nat /\ MaxMessages \in Nat

Labels   == {"stats", "notify", "push"}   \* the data channels the SDK handles
Channels == Sockets \cup Labels
Notes    == {"notify", "push"}            \* what goes on to the user

\* What may come over a channel when the session is set up.
Chat(c) == CASE c = "stats"  -> {"stats-req"}
             [] c \in Notes  -> {c}
             [] OTHER        -> {"ping", "stats-req"} \cup Notes

Media    == {"audio", "video"}

VARIABLES
  asked,       \* the media that sora_config_ asks for, and the offer has
  compressed,  \* the data channels with "compress" in the offer
  ws,          \* ws_
  socket,      \* the state of each WebSocket
  opened,      \* the WebSockets whose onOpen is about to run
  redirecting, \* the WebSocket a "redirect" has opened but not yet put into ws_
  peer,        \* the peer connection client_.pc
  candidates,  \* local candidates still to be found
  dcs,         \* the data channels: "none", "announced", or in client_.dcs
  sent,        \* what the server has sent on each channel
  handled,     \* how much of that has been handled
  got,         \* what the server has received on each channel
  heard,       \* what the callbacks on_notify_ and on_push_ were called with
  program      \* "running", or what has ended it

vars == <<asked, compressed, ws, socket, opened, redirecting, peer, candidates, dcs, sent, handled,
          got, heard, program>>
link == <<asked, compressed, ws, socket, opened, redirecting>>
media == <<peer, candidates, dcs>>

Types == {"redirect", "offer", "switched", "switched-keep", "ping", "stats-req"} \cup Notes
Replies == {"connect", "connect-redirect", "answer", "candidate", "pong", "stats"}

TypeOK ==
  /\ asked \subseteq Media
  /\ compressed \subseteq Labels
  /\ ws \in Sockets \cup {Nobody}
  /\ socket \in [Sockets -> {"none", "connecting", "open", "closed"}]
  /\ opened \subseteq Sockets
  /\ redirecting \in Sockets \cup {Nobody}
  /\ peer \in {"none", "offered", "answered"}
  /\ candidates \in 0..MaxCandidates
  /\ dcs \in [Labels -> {"none", "announced", "handled"}]
  /\ sent \in [Channels -> Seq([type : Types, id : 0..MaxMessages])]
  /\ handled \in [Channels -> Nat]
  /\ \A c \in Channels : handled[c] <= Len(sent[c])
  /\ got \in [Channels -> Seq(Replies)]
  /\ heard \in [Notes -> Seq(0..MaxMessages)]
  /\ program \in {"running", "null", "unparsed"}

Init ==
  /\ asked \in SUBSET Media
  /\ compressed \in {{}, Labels}
  /\ ws = First
  /\ socket = [w \in Sockets |-> IF w = First THEN "open" ELSE "none"]
  /\ opened = {First}
  /\ redirecting = Nobody
  /\ peer = "none"
  /\ candidates = 0
  /\ dcs = [l \in Labels |-> "none"]
  /\ sent = [c \in Channels |-> <<>>]
  /\ handled = [c \in Channels |-> 0]
  /\ got = [c \in Channels |-> <<>>]
  /\ heard = [n \in Notes |-> <<>>]
  /\ program = "running"

-----------------------------------------------------------------------------
(* Sending.                                                                *)

Received(c, reply) == \E k \in DOMAIN got[c] : got[c][k] = reply
Connected == \E w \in Sockets : Received(w, "answer")

\* GetWebSocket()->send(...)
SendOnWebSocket(reply) ==
  IF ws = Nobody
    THEN program' = "null" /\ UNCHANGED got
    ELSE /\ got' = IF socket[ws] = "open" THEN [got EXCEPT ![ws] = Append(@, reply)]
                                         ELSE got
         /\ UNCHANGED program

\* The first message of a channel that has not been handled is of this type,
\* and is handled now.
Handle(c, type) ==
  /\ handled[c] < Len(sent[c])
  /\ sent[c][handled[c] + 1].type = type
  /\ handled' = [handled EXCEPT ![c] = @ + 1]
  /\ UNCHANGED sent

-----------------------------------------------------------------------------
(* The WebSockets.                                                         *)

Handshake(w) ==
  /\ socket[w] = "connecting"
  /\ socket' = [socket EXCEPT ![w] = "open"]
  /\ opened' = opened \cup {w}
  /\ UNCHANGED <<asked, compressed, ws, redirecting, media, sent, handled, got, heard, program>>

\* OnOpen(redirect) sends "connect" on what is in ws_.
OnOpen(w) ==
  /\ w \in opened
  /\ opened' = opened \ {w}
  /\ SendOnWebSocket(IF w = First THEN "connect" ELSE "connect-redirect")
  /\ UNCHANGED <<asked, compressed, ws, socket, redirecting, media, sent, handled, heard>>

\* Mutant: ws_ is reset together with closing it.
HandleRedirectReset(w) ==
  /\ Handle(w, "redirect")
  /\ redirecting = Nobody
  /\ \E new \in Sockets :
       /\ socket[new] = "none"
       /\ socket' = [socket EXCEPT ![ws] = "closed", ![new] = "connecting"]
       /\ redirecting' = new
  /\ ws' = Nobody
  /\ UNCHANGED <<asked, compressed, opened, media, got, heard, program>>

\* "redirect": close the WebSocket and open another one ...
HandleRedirect(w) ==
  /\ Handle(w, "redirect")
  /\ redirecting = Nobody
  /\ \E new \in Sockets :
       /\ socket[new] = "none"
       /\ socket' = [socket EXCEPT ![ws] = "closed", ![new] = "connecting"]
       /\ redirecting' = new
  /\ UNCHANGED <<asked, compressed, ws, opened, media, got, heard, program>>

\* ... and then ws_ = ws, without the mutex.
Redirected ==
  /\ redirecting # Nobody
  /\ ws' = redirecting
  /\ redirecting' = Nobody
  /\ UNCHANGED <<asked, compressed, socket, opened, media, sent, handled, got, heard, program>>

\* Mutant: a parse error is survived without setRemoteDescription.
HandleOfferNotApplied(w) ==
  /\ Handle(w, "offer")
  /\ UNCHANGED <<link, media, got, heard, program>>

\* "offer": make the peer connection and the tracks.  The lines of each medium
\* are parsed whether there are any or not.
HandleOffer(w) ==
  /\ Handle(w, "offer")
  /\ IF asked = Media
       THEN peer' = "offered" /\ candidates' = MaxCandidates /\ UNCHANGED program
       ELSE program' = "unparsed" /\ UNCHANGED <<peer, candidates>>
  /\ UNCHANGED <<link, dcs, got, heard>>

\* Mutant: "ping" is counted among the messages that need no reply.
HandlePingSilently(w) ==
  /\ Handle(w, "ping")
  /\ UNCHANGED <<link, media, got, heard, program>>

HandlePing(w) ==
  /\ Handle(w, "ping")
  /\ SendOnWebSocket("pong")
  /\ UNCHANGED <<link, media, heard>>

HandleStatsReq(w) ==
  /\ Handle(w, "stats-req")
  /\ SendOnWebSocket("stats")
  /\ UNCHANGED <<link, media, heard>>

\* Mutant: the notes of one kind go to the callback of the other.
HandleNoteCrossed(c, type) ==
  /\ Handle(c, type)
  /\ heard' = [heard EXCEPT !["notify"] = Append(@, sent[c][handled[c] + 1].id)]
  /\ UNCHANGED <<link, media, got, program>>

\* What the handler of the next message of c is given.  What has been uncompressed
\* is destroyed before the handler reads it: it reads the message, or garbage.
Read(c) == {sent[c][handled[c] + 1].id} \cup (IF c \in compressed THEN {0} ELSE {})

\* "notify" and "push" are passed to the user as they come.
HandleNote(c, type) ==
  /\ Handle(c, type)
  /\ \E id \in Read(c) : heard' = [heard EXCEPT ![type] = Append(@, id)]
  /\ UNCHANGED <<link, media, got, program>>

\* Mutant: the flag is not looked at and the WebSocket stays.
HandleSwitchedKeeping(w) ==
  /\ Handle(w, "switched")
  /\ UNCHANGED <<link, media, got, heard, program>>

\* "switched", with ignore_disconnect_websocket: let go of the WebSocket.
HandleSwitched(w) ==
  /\ Handle(w, "switched")
  /\ socket' = [socket EXCEPT ![ws] = "closed"]
  /\ ws' = Nobody
  /\ UNCHANGED <<asked, compressed, opened, redirecting, media, got, heard, program>>

\* "switched" without it.
HandleSwitchedKeep(w) ==
  /\ Handle(w, "switched-keep")
  /\ UNCHANGED <<link, media, got, heard, program>>

-----------------------------------------------------------------------------
(* The peer connection and the data channels.                              *)

\* onLocalDescription
SendAnswer ==
  /\ peer = "offered"
  /\ peer' = "answered"
  /\ SendOnWebSocket("answer")
  /\ UNCHANGED <<link, candidates, dcs, sent, handled, heard>>

\* onLocalCandidate
SendCandidate ==
  /\ peer = "answered" /\ candidates > 0
  /\ candidates' = candidates - 1
  /\ SendOnWebSocket("candidate")
  /\ UNCHANGED <<link, peer, dcs, sent, handled, heard>>

\* onDataChannel, for the labels that get a handler.  What has come earlier
\* waits for the handler.
OnDataChannel(l) ==
  /\ dcs[l] = "announced"
  /\ dcs' = [dcs EXCEPT ![l] = "handled"]
  /\ UNCHANGED <<link, peer, candidates, sent, handled, got, heard, program>>

\* The handler of "stats" answers on the data channel; garbage it cannot parse.
StatsOnDataChannel ==
  /\ dcs["stats"] = "handled"
  /\ Handle("stats", "stats-req")
  /\ \/ got' = [got EXCEPT !["stats"] = Append(@, "stats")]
     \/ "stats" \in compressed /\ UNCHANGED got
  /\ UNCHANGED <<link, media, heard, program>>

\* Mutant: the handler of the data channel does not call the user.
NoteOnDataChannelDropped(l) ==
  /\ dcs[l] = "handled"
  /\ Handle(l, l)
  /\ UNCHANGED <<link, media, got, heard, program>>

NoteOnDataChannel(l) ==
  /\ dcs[l] = "handled"
  /\ HandleNote(l, l)

-----------------------------------------------------------------------------
(* The server.                                                             *)

Said(c, type) == \E k \in DOMAIN sent[c] : sent[c][k].type = type
Over(w) == \E type \in {"redirect", "switched", "switched-keep"} : Said(w, type)

Say(c, type, id) ==
  /\ sent' = [sent EXCEPT ![c] = Append(@, [type |-> type, id |-> id])]
  /\ UNCHANGED <<link, media, handled, got, heard, program>>

ServerAnswersConnect(w) ==
  /\ Received(w, "connect") \/ Received(w, "connect-redirect")
  /\ sent[w] = <<>>
  /\ \/ Say(w, "offer", 0)
     \/ (\E new \in Sockets : socket[new] = "none") /\ Say(w, "redirect", 0)

ServerSwitches(w) ==
  /\ Said(w, "offer") /\ ~Over(w)
  /\ \A l \in Labels : dcs[l] # "none"
  /\ Say(w, "switched", 0) \/ Say(w, "switched-keep", 0)

ServerAnnounces(l) ==
  /\ Connected
  /\ dcs[l] = "none"
  /\ dcs' = [dcs EXCEPT ![l] = "announced"]
  /\ UNCHANGED <<link, peer, candidates, sent, handled, got, heard, program>>

Chats == UNION { {c} \X { k \in DOMAIN sent[c] : sent[c][k].id # 0 } : c \in Channels }

ServerChats(c) ==
  /\ IF c \in Labels THEN dcs[c] # "none" ELSE Said(c, "offer") /\ ~Over(c)
  /\ Cardinality(Chats) < MaxMessages
  /\ \E type \in Chat(c) : Say(c, type, Cardinality(Chats) + 1)

-----------------------------------------------------------------------------

OnMessage(w) ==
  \/ HandleRedirect(w) \/ HandleOffer(w)
  \/ HandlePing(w) \/ HandleStatsReq(w) \/ (\E type \in Notes : HandleNote(w, type))
  \/ HandleSwitched(w) \/ HandleSwitchedKeep(w)

PeerConnection == SendAnswer \/ SendCandidate

DataChannel(l) ==
  OnDataChannel(l) \/ (l = "stats" /\ StatsOnDataChannel) \/ NoteOnDataChannel(l)

Server ==
  \/ \E w \in Sockets : ServerAnswersConnect(w) \/ ServerSwitches(w)
  \/ \E l \in Labels : ServerAnnounces(l)
  \/ \E c \in Channels : ServerChats(c)

Next ==
  /\ program = "running"
  /\ \/ \E w \in Sockets : Handshake(w) \/ OnOpen(w) \/ OnMessage(w)
     \/ Redirected
     \/ PeerConnection
     \/ \E l \in Labels : DataChannel(l)
     \/ Server

Spec == Init /\ [][Next]_vars

\* The threads of libdatachannel run while there is something to call back for,
\* and handshakes end; the server owes nothing.
FairSpec ==
  /\ Spec
  /\ \A w \in Sockets :
       /\ WF_vars(program = "running" /\ Handshake(w))
       /\ WF_vars(program = "running" /\ OnOpen(w))
       /\ WF_vars(program = "running" /\ OnMessage(w))
  /\ WF_vars(program = "running" /\ Redirected)
  /\ WF_vars(program = "running" /\ PeerConnection)
  /\ \A l \in Labels : WF_vars(program = "running" /\ DataChannel(l))

-----------------------------------------------------------------------------
(* Properties.                                                             *)

\* On every WebSocket the server first gets one "connect", of the right kind, and
\* later at most one "answer", to an offer made there; candidates follow it.
Protocol ==
  \A w \in Sockets :
    LET at(reply) == { k \in DOMAIN got[w] : got[w][k] = reply }
    IN  /\ at(IF w = First THEN "connect-redirect" ELSE "connect") = {}
        /\ got[w] # <<>> =>
             at("connect") \cup at("connect-redirect") = {1}
        /\ Cardinality(at("answer")) <= 1
        /\ at("answer") # {} => Said(w, "offer")
        /\ \A k \in at("candidate") : \E a \in at("answer") : a < k

\* Which messages of one type have been handled on a channel.
Done(c, type) == { k \in 1..handled[c] : sent[c][k].type = type }

\* Every request that was handled has been answered on the channel it came on,
\* once: over the WebSocket before the switch, over "stats" after it.  (Here and
\* below the notes of compressed channels are excepted, see HeardIntact.)
RepliesAreOwed ==
  program = "running" =>
    \A c \in Channels \ compressed :
      LET count(reply) == Cardinality({ k \in DOMAIN got[c] : got[c][k] = reply })
      IN  /\ count("stats") = Cardinality(Done(c, "stats-req"))
          /\ count("pong") = Cardinality(Done(c, "ping"))

\* What the server sees in every state: a well-formed session in which every request
\* is answered where it was asked (OnMessage, signaling.cpp:202 to 316 and 689).
WellFormedSession == TypeOK /\ Protocol /\ RepliesAreOwed

\* The user's callbacks are called once for every note, the one of its kind, and
\* hear those of one channel in the order the server sent them.
HeardAsSent ==
  \A type \in Notes :
    /\ Len(heard[type]) = Cardinality(UNION { {c} \X Done(c, type) : c \in Channels })
    /\ \A c \in Channels \ compressed : \A k \in Done(c, type) :
         \E p \in DOMAIN heard[type] :
           /\ heard[type][p] = sent[c][k].id
           /\ \A q \in DOMAIN heard[type] : \A j \in Done(c, type) :
                heard[type][q] = sent[c][j].id => (p < q <=> k < j) /\ (q < p <=> j < k)

\* After "switched" has been handled nothing is said on a WebSocket any more.
SilentAfterSwitch ==
  [][(\E w \in Sockets : Done(w, "switched") # {}) =>
       \A w \in Sockets : got'[w] = got[w]]_vars

\* Of everything that sends on ws_, only a candidate can find it gone.
OnlyCandidatesComeLate ==
  [][program' = "null" => candidates' < candidates]_vars

\* Every offer with both media is answered, ...
OfferIsAnswered ==
  \A w \in Sockets : (Said(w, "offer") /\ asked = Media) ~> Received(w, "answer")

\* ... and every note sent is heard, unless the program ends.
NotesAreHeard ==
  \A type \in Notes, n \in 1..MaxMessages :
    (\E c \in Channels \ compressed : \E k \in DOMAIN sent[c] : sent[c][k] = [type |-> type, id |-> n])
      ~> (n \in ToSet(heard[type]) \/ program # "running")

\* The SDK follows a redirection (CHANGES.md:34): the WebSocket it leads to gets
\* a "connect".
RedirectionConnects ==
  \A w \in Sockets \ {First} : w \in opened ~> Received(w, "connect-redirect")

\* Data channels support compression (data_channel.hpp:12): no handler is given
\* garbage.
HeardIntact ==
  \A type \in Notes : 0 \notin ToSet(heard[type])
=============================================================================
