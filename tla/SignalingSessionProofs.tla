---------------------- MODULE SignalingSessionProofs ----------------------
(***************************************************************************)
(* Proofs about SignalingSession, for any WebSockets, any number of local     *)
(* candidates and of messages: Inv is inductive, and what the server sees and *)
(* the user hears in a session follows from it.                               *)
(***************************************************************************)
EXTENDS SignalingSession, FiniteSetTheorems, TLAPS

Setup == {"redirect", "offer", "switched", "switched-keep"}
Hello == {"connect", "connect-redirect"}

-----------------------------------------------------------------------------
(* The channels.                                                           *)

\* A WebSocket begins with "redirect" or "offer", which come nowhere else, and ends with
\* what lets go of it; a data channel carries messages of its own type.
SentInv ==
  /\ \A w \in Sockets : sent[w] # <<>> => got[w] # <<>>
  /\ \A w \in Sockets : \A k \in 1..Len(sent[w]) :
       /\ sent[w][k].type \in {"redirect", "offer"} <=> k = 1
       /\ sent[w][k].type \in {"redirect", "switched", "switched-keep"} => k = Len(sent[w])
  /\ \A l \in Labels : \A k \in 1..Len(sent[l]) :
       sent[l][k].type = IF l = "stats" THEN "stats-req" ELSE l

\* Chats are numbered from 1, each with a number of its own; the set-up has none.
IdInv ==
  /\ IsFiniteSet(Chats)
  /\ \A c \in Channels : \A k \in 1..Len(sent[c]) :
       /\ sent[c][k].id = 0 <=> sent[c][k].type \in Setup
       /\ sent[c][k].id <= Cardinality(Chats)
       /\ sent[c][k].id # 0 =>
            \A d \in Channels : \A j \in 1..Len(sent[d]) :
              sent[d][j].id = sent[c][k].id => d = c /\ j = k

\* What the server gets on a WebSocket: Protocol, as far as got alone says it.
GotInv ==
  \A w \in Sockets : \A k \in 1..Len(got[w]) :
    /\ got[w][k] # IF w = First THEN "connect-redirect" ELSE "connect"
    /\ got[w][k] \in Hello <=> k = 1
    /\ got[w][k] = "answer" => \A j \in 1..Len(got[w]) : got[w][j] = "answer" => j = k
    /\ got[w][k] = "candidate" => \E a \in 1..Len(got[w]) : a < k /\ got[w][a] = "answer"

-----------------------------------------------------------------------------
(* The WebSockets.                                                         *)

\* The server has let go of the WebSocket, and the client knows.
Finished(w) == Done(w, "redirect") \cup Done(w, "switched") # {}

\* ws_ is the WebSocket on which the session goes on ...
CurrentInv ==
  /\ \A w \in Sockets : got[w] # <<>> /\ ~Finished(w) =>
       ws = w /\ socket[w] = "open" /\ redirecting = Nobody
  /\ \A w \in Sockets : Finished(w) => handled[w] = Len(sent[w])
  /\ \A w \in Sockets : Done(w, "switched") # {} => ws = Nobody /\ redirecting = Nobody

\* ... or, when it is closed, one that is being opened will take its place.
OpeningInv ==
  /\ \A w \in Sockets : socket[w] \in {"none", "connecting"} => got[w] = <<>> /\ w \notin opened
  /\ \A w \in Sockets : socket[w] = "connecting" => w \in {ws, redirecting}
  /\ \A w \in opened : socket[w] = "open" /\ got[w] = <<>> /\ w \in {ws, redirecting}
  /\ redirecting # Nobody =>
       /\ ws # Nobody /\ socket[ws] = "closed"
       /\ socket[redirecting] \in {"connecting", "open"} /\ got[redirecting] = <<>>

-----------------------------------------------------------------------------
(* The peer connection.                                                    *)

\* The answer goes to the WebSocket that the offer came on, which stays until the
\* data channels are there.
PeerInv ==
  /\ peer # "none" => \E w \in Sockets : Done(w, "offer") # {}
  /\ \A w \in Sockets : Received(w, "answer") => peer = "answered" /\ Done(w, "offer") # {}
  /\ peer = "answered" => \E w \in Sockets : Received(w, "answer") /\ ws \in {w, Nobody}
  /\ \A l \in Labels : dcs[l] # "none" => Connected
  /\ \A w \in Sockets : Said(w, "switched") => Connected
  /\ ws = Nobody => peer = "answered"

-----------------------------------------------------------------------------
(* The callbacks of the user.                                              *)

\* The notes of one type that have been handled.
Notified(type) == UNION { {c} \X Done(c, type) : c \in Channels }

\* Each call was for a note that has been handled; 0 is garbage.
HeardInv ==
  \A type \in Notes :
    /\ IsFiniteSet(Notified(type))
    /\ \A p \in 1..Len(heard[type]) :
         \/ heard[type][p] = 0
         \/ \E c \in Channels : \E k \in Done(c, type) : sent[c][k].id = heard[type][p]

Inv ==
  /\ TypeOK /\ SentInv /\ IdInv /\ GotInv
  /\ CurrentInv /\ OpeningInv /\ PeerInv
  /\ HeardInv /\ HeardAsSent /\ RepliesAreOwed
-----------------------------------------------------------------------------
(* What is sent, handled and answered.                                     *)

Message == [type : Types, id : 0..MaxMessages]

\* The replies of one kind that the server has got on a channel.
Count(c, reply) == Cardinality({ k \in DOMAIN got[c] : got[c][k] = reply })

LEMMA Appended ==
  ASSUME NEW S, NEW s \in Seq(S), NEW e \in S
  PROVE  /\ Append(s, e) \in Seq(S)
         /\ Append(s, e) # <<>>
         /\ Len(s) \in Nat /\ DOMAIN s = 1..Len(s)
         /\ Len(Append(s, e)) = Len(s) + 1
         /\ DOMAIN Append(s, e) = 1..(Len(s) + 1)
         /\ \A k \in 1..Len(s) : Append(s, e)[k] = s[k]
         /\ Append(s, e)[Len(s) + 1] = e
  OBVIOUS

LEMMA Element ==
  ASSUME NEW S, NEW s \in Seq(S), NEW k \in 1..Len(s)
  PROVE  s[k] \in S
  OBVIOUS

LEMMA ChannelFacts ==
  /\ Sockets \subseteq Channels /\ Labels \subseteq Channels /\ Notes \subseteq Labels
  /\ \A w \in Sockets : w \notin Labels
  /\ First \in Sockets /\ Nobody \notin Sockets
  BY SocketsAssumption DEF Channels, Labels, Notes

\* Something more is sent on one channel; nothing that was handled is touched.
LEMMA SayEffect ==
  ASSUME TypeOK, NEW c \in Channels, NEW type \in Types, NEW id \in 0..MaxMessages,
         Say(c, type, id)
  PROVE  /\ sent' \in [Channels -> Seq(Message)]
         /\ \A d \in Channels : handled[d] <= Len(sent'[d])
         /\ \A d \in Channels : d # c => sent'[d] = sent[d]
         /\ Len(sent[c]) \in Nat
         /\ Len(sent'[c]) = Len(sent[c]) + 1
         /\ sent'[c] # <<>>
         /\ \A k \in 1..Len(sent[c]) : sent'[c][k] = sent[c][k]
         /\ sent'[c][Len(sent[c]) + 1] = [type |-> type, id |-> id]
         /\ \A d \in Channels : \A t : Done(d, t)' = Done(d, t)
<1> DEFINE m == [type |-> type, id |-> id]
<1>1. /\ sent \in [Channels -> Seq(Message)] /\ handled \in [Channels -> Nat]
      /\ \A d \in Channels : handled[d] <= Len(sent[d])
  BY DEF TypeOK, Message
<1>2. m \in Message
  BY DEF Message
<1>3. sent' = [sent EXCEPT ![c] = Append(@, m)] /\ handled' = handled
  BY DEF Say
<1> HIDE DEF m
<1>4. sent[c] \in Seq(Message)
  BY <1>1
<1>5. sent'[c] = Append(sent[c], m) /\ \A d \in Channels : d # c => sent'[d] = sent[d]
  BY <1>1, <1>3
<1>6. /\ sent'[c] \in Seq(Message) /\ sent'[c] # <<>> /\ Len(sent[c]) \in Nat
      /\ Len(sent'[c]) = Len(sent[c]) + 1
      /\ \A k \in 1..Len(sent[c]) : sent'[c][k] = sent[c][k]
      /\ sent'[c][Len(sent[c]) + 1] = m
  BY <1>2, <1>4, <1>5, Appended
<1>7. sent' \in [Channels -> Seq(Message)]
  BY <1>1, <1>3, <1>5, <1>6
<1>8. \A d \in Channels : handled[d] <= Len(sent'[d])
  <2> TAKE d \in Channels
  <2>1. CASE d = c
    BY <2>1, <1>1, <1>6
  <2>2. CASE d # c
    BY <2>2, <1>1, <1>5
  <2> QED
    BY <2>1, <2>2
<1>9. \A d \in Channels : \A t : Done(d, t)' = Done(d, t)
  <2> TAKE d \in Channels
  <2> TAKE t
  <2>1. \A k \in 1..handled[d] : sent'[d][k] = sent[d][k]
    <3>1. CASE d = c
      <4>1. handled[c] \in Nat /\ handled[c] <= Len(sent[c])
        BY <1>1
      <4>2. 1..handled[c] \subseteq 1..Len(sent[c])
        BY <4>1, <1>6
      <4>3. QED
        BY <3>1, <4>2, <1>6
    <3>2. CASE d # c
      BY <3>2, <1>5
    <3>3. QED
      BY <3>1, <3>2
  <2> QED
    BY <2>1, <1>3 DEF Done
<1> QED
  BY <1>5, <1>6, <1>7, <1>8, <1>9 DEF m

\* One message is handled, the next of its channel.
LEMMA HandleEffect ==
  ASSUME TypeOK, NEW c \in Channels, NEW type, Handle(c, type)
  PROVE  /\ sent' = sent
         /\ handled[c] + 1 \in 1..Len(sent[c]) /\ handled[c] \in Nat
         /\ sent[c][handled[c] + 1].type = type
         /\ handled' \in [Channels -> Nat]
         /\ \A d \in Channels : handled'[d] <= Len(sent[d])
         /\ \A d \in Channels : handled'[d] = IF d = c THEN handled[c] + 1 ELSE handled[d]
         /\ \A d \in Channels : \A t :
              Done(d, t)' = IF d = c /\ t = type THEN Done(d, t) \cup {handled[c] + 1}
                                                 ELSE Done(d, t)
         /\ \A t : handled[c] + 1 \notin Done(c, t)
<1>1. /\ sent \in [Channels -> Seq(Message)] /\ handled \in [Channels -> Nat]
      /\ \A d \in Channels : handled[d] <= Len(sent[d])
  BY DEF TypeOK, Message
<1>2. /\ handled[c] < Len(sent[c])
      /\ sent[c][handled[c] + 1].type = type
      /\ handled' = [handled EXCEPT ![c] = handled[c] + 1]
      /\ sent' = sent
  BY DEF Handle
<1> PICK h : h = handled[c] + 1
  OBVIOUS
<1>3. Len(sent[c]) \in Nat
  BY <1>1
<1>4. handled[c] \in Nat /\ h \in 1..Len(sent[c])
  BY <1>1, <1>2, <1>3
<1>5. \A d \in Channels : handled'[d] = IF d = c THEN h ELSE handled[d]
  BY <1>1, <1>2
<1>6. handled' \in [Channels -> Nat]
  BY <1>1, <1>2, <1>4
<1>7. \A d \in Channels : handled'[d] <= Len(sent[d])
  <2>1. h <= Len(sent[c])
    BY <1>3, <1>4
  <2>2. QED
    BY <1>1, <1>5, <2>1
<1>8. \A d \in Channels : \A t :
        Done(d, t)' = IF d = c /\ t = type THEN Done(d, t) \cup {h} ELSE Done(d, t)
  <2> TAKE d \in Channels
  <2> TAKE t
  <2>1. CASE d # c
    BY <2>1, <1>2, <1>5 DEF Done
  <2>2. CASE d = c
    <3>1. 1..h = 1..handled[c] \cup {h} /\ handled'[d] = h
      BY <1>4, <1>5, <2>2
    <3>2. Done(d, t)' = { k \in 1..h : sent[c][k].type = t }
      BY <1>2, <2>2, <3>1 DEF Done
    <3>3. Done(d, t) = { k \in 1..handled[c] : sent[c][k].type = t }
      BY <2>2 DEF Done
    <3>4. sent[c][h].type = type
      BY <1>2
    <3>5. QED
      BY <2>2, <3>1, <3>2, <3>3, <3>4
  <2> QED
    BY <2>1, <2>2
<1>9. \A t : h \notin Done(c, t)
  BY <1>4 DEF Done
<1> QED
  BY <1>2, <1>4, <1>5, <1>6, <1>7, <1>8, <1>9

\* One reply more is got on one channel.
LEMMA ReplyEffect ==
  ASSUME TypeOK, NEW c \in Channels, NEW reply \in Replies,
         got' = [got EXCEPT ![c] = Append(@, reply)]
  PROVE  /\ got' \in [Channels -> Seq(Replies)]
         /\ \A d \in Channels : d # c => got'[d] = got[d]
         /\ Len(got[c]) \in Nat
         /\ Len(got'[c]) = Len(got[c]) + 1
         /\ got'[c] # <<>>
         /\ \A k \in 1..Len(got[c]) : got'[c][k] = got[c][k]
         /\ got'[c][Len(got[c]) + 1] = reply
         /\ \A d \in Channels : \A r : Received(d, r)' <=> Received(d, r) \/ (d = c /\ r = reply)
         /\ \A d \in Channels : \A r :
              Count(d, r)' = IF d = c /\ r = reply THEN Count(d, r) + 1 ELSE Count(d, r)
<1>1. got \in [Channels -> Seq(Replies)] /\ got[c] \in Seq(Replies)
  BY DEF TypeOK
<1> PICK n : n = Len(got[c])
  OBVIOUS
<1>2. got'[c] = Append(got[c], reply) /\ \A d \in Channels : d # c => got'[d] = got[d]
  BY <1>1
<1>3. /\ got'[c] \in Seq(Replies) /\ got'[c] # <<>> /\ n \in Nat
      /\ Len(got'[c]) = n + 1
      /\ DOMAIN got[c] = 1..n /\ DOMAIN got'[c] = 1..(n + 1)
      /\ \A k \in 1..n : got'[c][k] = got[c][k]
      /\ got'[c][n + 1] = reply
  BY <1>1, <1>2, Appended
<1>4. got' \in [Channels -> Seq(Replies)]
  BY <1>1, <1>2, <1>3
<1>5. 1..(n + 1) = 1..n \cup {n + 1} /\ n + 1 \notin 1..n
  BY <1>3
<1>6. \A d \in Channels : \A r : Received(d, r)' <=> Received(d, r) \/ (d = c /\ r = reply)
  <2> TAKE d \in Channels
  <2> TAKE r
  <2>1. CASE d # c
    BY <2>1, <1>2 DEF Received
  <2>2. CASE d = c
    BY <2>2, <1>3, <1>5 DEF Received
  <2> QED
    BY <2>1, <2>2
<1>7. \A d \in Channels : \A r :
        Count(d, r)' = IF d = c /\ r = reply THEN Count(d, r) + 1 ELSE Count(d, r)
  <2> TAKE d \in Channels
  <2> TAKE r
  <2>1. CASE d # c
    BY <2>1, <1>2 DEF Count
  <2>2. CASE d = c
    <3> DEFINE S == { k \in 1..n : got[c][k] = r }
    <3>1. Count(d, r) = Cardinality(S)
      BY <1>3, <2>2 DEF Count
    <3>2. Count(d, r)' = Cardinality({ k \in 1..(n + 1) : got'[c][k] = r })
      BY <1>3, <2>2 DEF Count
    <3>3. { k \in 1..(n + 1) : got'[c][k] = r } = IF r = reply THEN S \cup {n + 1} ELSE S
      BY <1>3, <1>5
    <3>4. IsFiniteSet(S) /\ n + 1 \notin S
      <4>1. IsFiniteSet(1..n)
        BY <1>3, FS_Interval
      <4>2. QED
        BY <4>1, <1>5, FS_Subset
    <3>5. Cardinality(S \cup {n + 1}) = Cardinality(S) + 1
      BY <3>4, FS_AddElement
    <3>6. QED
      BY <2>2, <3>1, <3>2, <3>3, <3>5
  <2> QED
    BY <2>1, <2>2
<1> QED
  BY <1>2, <1>3, <1>4, <1>6, <1>7
-----------------------------------------------------------------------------
(* What a step leaves alone.                                               *)

Session == <<sent, handled, got, heard, compressed>>

\* The handled messages are the same, and so are the messages themselves.
SameDone ==
  \A c \in Channels : \A type \in Types :
    /\ Done(c, type)' = Done(c, type)
    /\ \A k \in Done(c, type) : sent'[c][k] = sent[c][k]

LEMMA QuietDone ==
  ASSUME UNCHANGED <<sent, handled>>
  PROVE  \A c \in Channels : \A type : Done(c, type)' = Done(c, type)
  BY DEF Done

LEMMA QuietGot ==
  ASSUME UNCHANGED got
  PROVE  \A c \in Channels : \A r : Received(c, r)' = Received(c, r) /\ Count(c, r)' = Count(c, r)
  BY DEF Received, Count

LEMMA SentKept ==
  ASSUME SentInv, UNCHANGED sent, \A w \in Sockets : got[w] # <<>> => got'[w] # <<>>
  PROVE  SentInv'
  BY DEF SentInv

LEMMA IdKept ==
  ASSUME IdInv, UNCHANGED sent
  PROVE  IdInv'
<1>1. Chats' = Chats
  BY DEF Chats
<1>2. Cardinality(Chats)' = Cardinality(Chats) /\ IsFiniteSet(Chats)' = IsFiniteSet(Chats)
  BY <1>1
<1>3. QED
  BY <1>2 DEF IdInv

LEMMA GotKept ==
  ASSUME GotInv, \A w \in Sockets : got'[w] = got[w]
  PROVE  GotInv'
  BY DEF GotInv

LEMMA HeardKept ==
  ASSUME HeardInv, HeardAsSent, UNCHANGED <<heard, compressed>>,
         \A c \in Channels : \A type \in Notes :
           /\ Done(c, type)' = Done(c, type)
           /\ \A k \in Done(c, type) : sent'[c][k] = sent[c][k]
  PROVE  HeardInv' /\ HeardAsSent'
<1>1. \A type \in Notes : Notified(type)' = Notified(type)
  BY DEF Notified
<1>2. HeardInv'
  BY <1>1 DEF HeardInv
<1>3. ASSUME NEW type \in Notes
      PROVE  /\ Len(heard'[type]) = Cardinality(Notified(type)')
             /\ \A c \in Channels \ compressed' : \A k \in Done(c, type)' :
                  \E p \in DOMAIN heard'[type] :
                    /\ heard'[type][p] = sent'[c][k].id
                    /\ \A q \in DOMAIN heard'[type] : \A j \in Done(c, type)' :
                         heard'[type][q] = sent'[c][j].id => (p < q <=> k < j) /\ (q < p <=> j < k)
  <2>1. Notified(type)' = Notified(type)
    BY <1>1
  <2>2. Len(heard[type]) = Cardinality(Notified(type))
    BY DEF HeardAsSent, Notified
  <2>3. Len(heard'[type]) = Cardinality(Notified(type)')
    BY <2>1, <2>2
  <2>4. ASSUME NEW c \in Channels \ compressed, NEW k \in Done(c, type)
        PROVE  \E p \in DOMAIN heard[type] :
                 /\ heard[type][p] = sent[c][k].id
                 /\ \A q \in DOMAIN heard[type] : \A j \in Done(c, type) :
                      heard[type][q] = sent[c][j].id => (p < q <=> k < j) /\ (q < p <=> j < k)
    BY <2>4 DEF HeardAsSent
  <2>5. ASSUME NEW c \in Channels \ compressed', NEW k \in Done(c, type)'
        PROVE  \E p \in DOMAIN heard'[type] :
                 /\ heard'[type][p] = sent'[c][k].id
                 /\ \A q \in DOMAIN heard'[type] : \A j \in Done(c, type)' :
                      heard'[type][q] = sent'[c][j].id => (p < q <=> k < j) /\ (q < p <=> j < k)
    <3>1. c \in Channels \ compressed /\ k \in Done(c, type) /\ Done(c, type)' = Done(c, type)
      OBVIOUS
    <3>2. \A j \in Done(c, type) : sent'[c][j] = sent[c][j]
      BY <3>1
    <3>3. PICK p \in DOMAIN heard[type] :
            /\ heard[type][p] = sent[c][k].id
            /\ \A q \in DOMAIN heard[type] : \A j \in Done(c, type) :
                 heard[type][q] = sent[c][j].id => (p < q <=> k < j) /\ (q < p <=> j < k)
      BY <3>1, <2>4
    <3>4. QED
      BY <3>1, <3>2, <3>3
  <2> QED
    BY <2>3, <2>5
<1>4. HeardAsSent'
  BY <1>3 DEF HeardAsSent, Notified
<1> QED
  BY <1>2, <1>4

\* Replies and requests go up together.
LEMMA OwedKept ==
  ASSUME RepliesAreOwed, program = "running", UNCHANGED compressed,
         \A c \in Channels \ compressed :
           \/ /\ Count(c, "stats")' = Count(c, "stats")
              /\ Cardinality(Done(c, "stats-req"))' = Cardinality(Done(c, "stats-req"))
           \/ /\ Count(c, "stats")' = Count(c, "stats") + 1
              /\ Cardinality(Done(c, "stats-req"))' = Cardinality(Done(c, "stats-req")) + 1,
         \A c \in Channels \ compressed :
           \/ /\ Count(c, "pong")' = Count(c, "pong")
              /\ Cardinality(Done(c, "ping"))' = Cardinality(Done(c, "ping"))
           \/ /\ Count(c, "pong")' = Count(c, "pong") + 1
              /\ Cardinality(Done(c, "ping"))' = Cardinality(Done(c, "ping")) + 1
  PROVE  RepliesAreOwed'
<1>1. \A c \in Channels \ compressed :
        /\ Count(c, "stats") = Cardinality(Done(c, "stats-req"))
        /\ Count(c, "pong") = Cardinality(Done(c, "ping"))
  BY DEF RepliesAreOwed, Count
<1>2. \A c \in Channels \ compressed :
        /\ Count(c, "stats")' = Cardinality(Done(c, "stats-req"))'
        /\ Count(c, "pong")' = Cardinality(Done(c, "ping"))'
  BY <1>1
<1>3. Channels' = Channels
  BY DEF Channels, Labels
<1>4. QED
  BY <1>2, <1>3 DEF RepliesAreOwed, Count

\* One reply more is of a right kind.
LEMMA GotMore ==
  ASSUME TypeOK, GotInv, NEW w \in Sockets, NEW reply \in Replies,
         got' = [got EXCEPT ![w] = Append(@, reply)],
         reply \in Hello <=> got[w] = <<>>,
         reply # IF w = First THEN "connect-redirect" ELSE "connect",
         reply = "answer" => ~Received(w, "answer"),
         reply = "candidate" => Received(w, "answer")
  PROVE  GotInv'
<1> PICK n : n = Len(got[w])
  OBVIOUS
<1>1. /\ \A d \in Sockets : d # w => got'[d] = got[d]
      /\ n \in Nat /\ Len(got'[w]) = n + 1
      /\ \A k \in 1..n : got'[w][k] = got[w][k]
      /\ got'[w][n + 1] = reply
  BY ZenonT(30), ReplyEffect, ChannelFacts
<1>2. /\ got[w] = <<>> <=> n = 0
      /\ DOMAIN got[w] = 1..n
  BY ChannelFacts DEF TypeOK
<1>3. \A r : Received(w, r) <=> \E k \in 1..n : got[w][k] = r
  BY <1>2 DEF Received
<1>4. ASSUME NEW k \in 1..n
      PROVE  /\ got[w][k] # IF w = First THEN "connect-redirect" ELSE "connect"
             /\ got[w][k] \in Hello <=> k = 1
             /\ got[w][k] = "answer" => \A j \in 1..n : got[w][j] = "answer" => j = k
             /\ got[w][k] = "candidate" => \E a \in 1..n : a < k /\ got[w][a] = "answer"
  BY <1>4 DEF GotInv
<1>5. 1..(n + 1) = 1..n \cup {n + 1}
  BY <1>1
<1>6. ASSUME NEW k \in 1..(n + 1)
      PROVE  /\ got'[w][k] # IF w = First THEN "connect-redirect" ELSE "connect"
             /\ got'[w][k] \in Hello <=> k = 1
             /\ got'[w][k] = "answer" => \A j \in 1..(n + 1) : got'[w][j] = "answer" => j = k
             /\ got'[w][k] = "candidate" => \E a \in 1..(n + 1) : a < k /\ got'[w][a] = "answer"
  <2>1. CASE k \in 1..n
    <3>1. got'[w][k] = got[w][k]
      BY <1>1, <2>1
    <3>2. got[w][k] = "answer" => reply # "answer"
      BY <1>3, <2>1
    <3>3. got'[w][k] = "answer" => \A j \in 1..(n + 1) : got'[w][j] = "answer" => j = k
      BY <1>1, <1>4, <1>5, <2>1, <3>1, <3>2
    <3>4. got'[w][k] = "candidate" => \E a \in 1..(n + 1) : a < k /\ got'[w][a] = "answer"
      BY <1>1, <1>4, <1>5, <2>1, <3>1
    <3>5. QED
      BY <1>4, <2>1, <3>1, <3>3, <3>4
  <2>2. CASE k = n + 1
    <3>1. got'[w][k] = reply
      BY <1>1, <2>2
    <3>2. reply \in Hello <=> k = 1
      BY <1>1, <1>2, <2>2
    <3>3. reply = "answer" => \A j \in 1..(n + 1) : got'[w][j] = "answer" => j = k
      BY <1>1, <1>3, <1>5, <2>2
    <3>4. reply = "candidate" => \E a \in 1..(n + 1) : a < k /\ got'[w][a] = "answer"
      <4> SUFFICES ASSUME reply = "candidate"
                   PROVE  \E a \in 1..(n + 1) : a < k /\ got'[w][a] = "answer"
        OBVIOUS
      <4>1. PICK a \in 1..n : got[w][a] = "answer"
        BY <1>3
      <4>2. a \in 1..(n + 1) /\ a < k /\ got'[w][a] = "answer"
        BY <1>1, <1>5, <2>2, <4>1
      <4>3. QED
        BY <4>2
    <3>5. QED
      BY <3>1, <3>2, <3>3, <3>4
  <2>3. QED
    BY <1>5, <2>1, <2>2
<1>7. \A d \in Sockets : d # w => Len(got'[d]) = Len(got[d])
  BY <1>1
<1>8. ASSUME NEW d \in Sockets, NEW k \in 1..Len(got'[d])
      PROVE  /\ got'[d][k] # IF d = First THEN "connect-redirect" ELSE "connect"
             /\ got'[d][k] \in Hello <=> k = 1
             /\ got'[d][k] = "answer" => \A j \in 1..Len(got'[d]) : got'[d][j] = "answer" => j = k
             /\ got'[d][k] = "candidate" => \E a \in 1..Len(got'[d]) : a < k /\ got'[d][a] = "answer"
  <2>1. CASE d = w
    BY <1>1, <1>6, <2>1
  <2>2. CASE d # w
    BY <1>1, <2>2 DEF GotInv
  <2>3. QED
    BY <2>1, <2>2
<1> QED
  BY <1>8 DEF GotInv
\* Whatever the handler reads, what is heard stays in order.
LEMMA HeardMore ==
  ASSUME TypeOK, IdInv, HeardInv, HeardAsSent,
         NEW c \in Channels, NEW note \in Notes, HandleNote(c, note)
  PROVE  HeardInv' /\ HeardAsSent'
<1> PICK h : h = handled[c] + 1
  OBVIOUS
<1> PICK n : n = Len(heard[note])
  OBVIOUS
<1>1. PICK e \in Read(c) : heard' = [heard EXCEPT ![note] = Append(@, e)]
  BY DEF HandleNote
<1>2. compressed' = compressed /\ Handle(c, note)
  BY DEF HandleNote, link
<1>3. /\ sent' = sent /\ h \in 1..Len(sent[c]) /\ sent[c][h].type = note
      /\ \A d \in Channels : \A t :
           Done(d, t)' = IF d = c /\ t = note THEN Done(d, t) \cup {h} ELSE Done(d, t)
      /\ \A t : h \notin Done(c, t)
  BY <1>2, HandleEffect
\* The handled notes are among those sent ...
<1>4. \A d \in Channels : handled[d] <= Len(sent[d]) /\ handled[d] \in Nat /\ Len(sent[d]) \in Nat
  BY DEF TypeOK
<1>5. \A d \in Channels : \A t : \A k \in Done(d, t) :
        k \in 1..Len(sent[d]) /\ sent[d][k].type = t /\ k \in Nat /\ k <= handled[d]
  BY <1>4 DEF Done
\* ... and told apart by their numbers.
<1>6. ASSUME NEW d \in Channels, NEW k \in 1..Len(sent[d]), sent[d][k].type \in Notes
      PROVE  /\ sent[d][k].id # 0
             /\ \A f \in Channels : \A j \in 1..Len(sent[f]) :
                  sent[f][j].id = sent[d][k].id => f = d /\ j = k
  BY <1>6 DEF IdInv, Setup, Notes
<1>7. e = sent[c][h].id \/ (e = 0 /\ c \in compressed)
  BY <1>1 DEF Read
<1>8. /\ sent[c][h].id # 0
      /\ \A f \in Channels : \A j \in 1..Len(sent[f]) :
           sent[f][j].id = sent[c][h].id => f = c /\ j = h
  BY <1>3, <1>6
<1>9. e \in 0..MaxMessages /\ heard \in [Notes -> Seq(0..MaxMessages)]
  <2>1. sent[c][h].id \in 0..MaxMessages
    <3>1. sent[c] \in Seq(Message)
      BY DEF TypeOK, Message
    <3>2. sent[c][h] \in Message
      BY <1>3, <3>1, Element
    <3>3. QED
      BY <3>2 DEF Message
  <2>2. QED
    BY <2>1, <1>7, BoundsAssumption DEF TypeOK
<1>10. /\ \A t \in Notes : t # note => heard'[t] = heard[t]
       /\ n \in Nat /\ DOMAIN heard[note] = 1..n
       /\ Len(heard'[note]) = n + 1 /\ DOMAIN heard'[note] = 1..(n + 1)
       /\ \A p \in 1..n : heard'[note][p] = heard[note][p]
       /\ heard'[note][n + 1] = e
  <2>1. heard[note] \in Seq(0..MaxMessages) /\ heard'[note] = Append(heard[note], e)
    BY <1>1, <1>9
  <2>2. \A t \in Notes : t # note => heard'[t] = heard[t]
    BY <1>1, <1>9
  <2>3. QED
    BY <1>9, <2>1, <2>2, Appended
<1>11. 1..(n + 1) = 1..n \cup {n + 1}
  BY <1>10
\* What has been heard is not the note that is being handled.
<1>12. \A p \in 1..n : heard[note][p] # sent[c][h].id
  <2> SUFFICES ASSUME NEW p \in 1..n, heard[note][p] = sent[c][h].id
               PROVE  FALSE
    OBVIOUS
  <2>1. PICK d \in Channels : \E k \in Done(d, note) : sent[d][k].id = heard[note][p]
    BY <1>8, <1>10 DEF HeardInv
  <2>2. PICK k \in Done(d, note) : sent[d][k].id = heard[note][p]
    BY <2>1
  <2>3. d = c /\ k = h
    BY <1>5, <1>8, <2>2
  <2>4. QED
    BY <1>3, <2>2, <2>3
<1>13. \A t \in Notes : Notified(t)' = IF t = note THEN Notified(t) \cup {<<c, h>>} ELSE Notified(t)
  BY <1>3 DEF Notified
<1>14. <<c, h>> \notin Notified(note)
  BY <1>3 DEF Notified
<1>15. HeardInv'
  <2>1. ASSUME NEW t \in Notes
        PROVE  IsFiniteSet(Notified(t)')
    <3>1. IsFiniteSet(Notified(t))
      BY DEF HeardInv
    <3>2. IsFiniteSet(Notified(t) \cup {<<c, h>>})
      BY <3>1, FS_AddElement
    <3>3. QED
      BY <1>13, <3>1, <3>2
  <2>2. ASSUME NEW t \in Notes, NEW p \in 1..Len(heard'[t])
        PROVE  \/ heard'[t][p] = 0
               \/ \E d \in Channels : \E k \in Done(d, t)' : sent'[d][k].id = heard'[t][p]
    <3>1. \A d \in Channels : Done(d, t) \subseteq Done(d, t)'
      BY <1>3
    <3>2. CASE t # note \/ p # n + 1
      <4>1. p \in 1..Len(heard[t]) /\ heard'[t][p] = heard[t][p]
        BY <1>10, <1>11, <3>2
      <4>2. CASE heard[t][p] = 0
        BY <4>1, <4>2
      <4>3. CASE heard[t][p] # 0
        <5>1. PICK d \in Channels : \E k \in Done(d, t) : sent[d][k].id = heard[t][p]
          BY <4>1, <4>3 DEF HeardInv
        <5>2. QED
          BY <1>3, <3>1, <4>1, <5>1
      <4>4. QED
        BY <4>2, <4>3
    <3>3. CASE t = note /\ p = n + 1
      <4>1. heard'[t][p] = e /\ h \in Done(c, t)'
        BY <1>3, <1>10, <3>3
      <4>2. QED
        BY <1>3, <1>7, <4>1
    <3>4. QED
      BY <3>2, <3>3
  <2>3. QED
    BY <2>1, <2>2 DEF HeardInv
<1>16. ASSUME NEW t \in Notes
       PROVE  Len(heard'[t]) = Cardinality(Notified(t)')
  <2>1. Len(heard[t]) = Cardinality(Notified(t)) /\ IsFiniteSet(Notified(t))
    BY DEF HeardAsSent, HeardInv, Notified
  <2>2. CASE t # note
    BY <1>10, <1>13, <2>1, <2>2
  <2>3. CASE t = note
    <3>1. Cardinality(Notified(t) \cup {<<c, h>>}) = Cardinality(Notified(t)) + 1
      BY <1>14, <2>1, <2>3, FS_AddElement
    <3>2. QED
      BY <1>10, <1>13, <2>1, <2>3, <3>1
  <2>4. QED
    BY <2>2, <2>3
<1>17. ASSUME NEW t \in Notes, NEW d \in Channels \ compressed, NEW k \in Done(d, t)
       PROVE  \E p \in DOMAIN heard[t] :
                /\ heard[t][p] = sent[d][k].id
                /\ \A q \in DOMAIN heard[t] : \A j \in Done(d, t) :
                     heard[t][q] = sent[d][j].id => (p < q <=> k < j) /\ (q < p <=> j < k)
  BY <1>17 DEF HeardAsSent
\* The notes of one channel stay where they are, the new one comes last.
<1>18. ASSUME NEW d \in Channels \ compressed, NEW k \in Done(d, note)'
       PROVE  \E p \in 1..(n + 1) :
                /\ heard'[note][p] = sent[d][k].id
                /\ \A q \in 1..(n + 1) : \A j \in Done(d, note)' :
                     heard'[note][q] = sent[d][j].id => (p < q <=> k < j) /\ (q < p <=> j < k)
  <2>1. CASE k \in Done(d, note)
    <3>1. PICK p \in 1..n :
            /\ heard[note][p] = sent[d][k].id
            /\ \A q \in 1..n : \A j \in Done(d, note) :
                 heard[note][q] = sent[d][j].id => (p < q <=> k < j) /\ (q < p <=> j < k)
      <4>1. \E p \in DOMAIN heard[note] :
              /\ heard[note][p] = sent[d][k].id
              /\ \A q \in DOMAIN heard[note] : \A j \in Done(d, note) :
                   heard[note][q] = sent[d][j].id => (p < q <=> k < j) /\ (q < p <=> j < k)
        BY <1>17, <2>1
      <4>2. DOMAIN heard[note] = 1..n
        BY <1>10
      <4>3. QED
        BY ONLY <4>1, <4>2
    <3>2. ASSUME NEW q \in 1..(n + 1), NEW j \in Done(d, note)', heard'[note][q] = sent[d][j].id
          PROVE  (p < q <=> k < j) /\ (q < p <=> j < k)
      <4>1. CASE q \in 1..n /\ j \in Done(d, note)
        BY <1>10, <3>1, <3>2, <4>1
      <4>2. CASE q \in 1..n /\ j \notin Done(d, note)
        BY <1>3, <1>10, <1>12, <3>2, <4>2
      <4>3. CASE q = n + 1
        <5>1. sent[d][j].id = e
          BY <1>10, <3>2, <4>3
        <5>2. j \in 1..Len(sent[d]) /\ sent[d][j].type = note
          BY <1>3, <1>5
        <5>3. sent[d][j].id # 0
          BY <1>6, <5>2
        <5>4. d = c /\ j = h
          BY <1>7, <1>8, <5>1, <5>2, <5>3
        <5>5. k \in Nat /\ k <= handled[c] /\ handled[c] \in Nat
          BY <1>4, <1>5, <2>1, <5>4
        <5>6. k < j /\ p < q /\ ~(j < k) /\ ~(q < p)
          BY <4>3, <5>4, <5>5, <1>10
        <5>7. QED
          BY <5>6
      <4>4. QED
        BY <1>11, <4>1, <4>2, <4>3
    <3>3. p \in 1..(n + 1) /\ heard'[note][p] = sent[d][k].id
      BY <1>10, <1>11, <3>1
    <3>4. QED
      BY <3>2, <3>3
  <2>2. CASE k \notin Done(d, note)
    <3>1. d = c /\ k = h
      BY <1>3, <2>2
    <3>2. e = sent[c][h].id
      BY <1>7, <3>1
    <3>3. ASSUME NEW q \in 1..(n + 1), NEW j \in Done(d, note)', heard'[note][q] = sent[d][j].id
          PROVE  (n + 1 < q <=> k < j) /\ (q < n + 1 <=> j < k)
      <4>1. CASE q \in 1..n
        <5>1. j # h
          BY <1>10, <1>12, <3>1, <3>3, <4>1
        <5>2. j \in Done(c, note)
          BY <1>3, <3>1, <5>1
        <5>3. j \in Nat /\ j <= handled[c] /\ handled[c] \in Nat
          BY <1>4, <1>5, <5>2
        <5>4. j < k /\ ~(k < j)
          BY <3>1, <5>3
        <5>5. q < n + 1 /\ ~(n + 1 < q)
          BY <4>1, <1>10
        <5>6. QED
          BY <5>4, <5>5
      <4>2. CASE q = n + 1
        <5>1. sent[d][j].id = sent[c][h].id
          BY <1>10, <3>2, <3>3, <4>2
        <5>2. j \in 1..Len(sent[d])
          BY <1>3, <1>5, <3>1
        <5>3. j = h
          BY <1>8, <5>1, <5>2
        <5>4. h \in Nat
          BY <1>3
        <5>5. QED
          BY <3>1, <4>2, <5>3, <5>4, <1>10
      <4>3. QED
        BY <1>11, <4>1, <4>2
    <3>4. n + 1 \in 1..(n + 1) /\ heard'[note][n + 1] = sent[d][k].id
      BY <1>10, <1>11, <3>1, <3>2
    <3>5. QED
      BY <3>3, <3>4
  <2>3. QED
    BY <2>1, <2>2
<1>19. ASSUME NEW t \in Notes, t # note, NEW d \in Channels \ compressed, NEW k \in Done(d, t)'
       PROVE  \E p \in DOMAIN heard'[t] :
                /\ heard'[t][p] = sent[d][k].id
                /\ \A q \in DOMAIN heard'[t] : \A j \in Done(d, t)' :
                     heard'[t][q] = sent[d][j].id => (p < q <=> k < j) /\ (q < p <=> j < k)
  <2>1. heard'[t] = heard[t] /\ Done(d, t)' = Done(d, t)
    BY <1>3, <1>10, <1>19
  <2>2. \E p \in DOMAIN heard[t] :
          /\ heard[t][p] = sent[d][k].id
          /\ \A q \in DOMAIN heard[t] : \A j \in Done(d, t) :
               heard[t][q] = sent[d][j].id => (p < q <=> k < j) /\ (q < p <=> j < k)
    BY <1>17, <2>1
  <2>3. QED
    BY <2>1, <2>2
<1>20. ASSUME NEW t \in Notes, NEW d \in Channels \ compressed', NEW k \in Done(d, t)'
       PROVE  \E p \in DOMAIN heard'[t] :
                /\ heard'[t][p] = sent'[d][k].id
                /\ \A q \in DOMAIN heard'[t] : \A j \in Done(d, t)' :
                     heard'[t][q] = sent'[d][j].id => (p < q <=> k < j) /\ (q < p <=> j < k)
  <2>1. CASE t = note
    <3>1. k \in Done(d, note)' /\ d \in Channels \ compressed
      BY <1>2, <2>1
    <3>2. \E p \in 1..(n + 1) :
            /\ heard'[note][p] = sent[d][k].id
            /\ \A q \in 1..(n + 1) : \A j \in Done(d, note)' :
                 heard'[note][q] = sent[d][j].id => (p < q <=> k < j) /\ (q < p <=> j < k)
      BY <1>18, <3>1
    <3>3. DOMAIN heard'[t] = 1..(n + 1)
      BY <1>10, <2>1
    <3>4. QED
      BY <1>3, <2>1, <3>2, <3>3
  <2>2. CASE t # note
    BY <1>2, <1>3, <1>19, <2>2
  <2>3. QED
    BY <2>1, <2>2
<1>21. HeardAsSent'
  BY <1>16, <1>20 DEF HeardAsSent, Notified
<1>22. QED
  BY <1>15, <1>21
-----------------------------------------------------------------------------
(* The parts of TypeOK.                                                    *)

LinkType ==
  /\ asked \subseteq Media
  /\ compressed \subseteq Labels
  /\ ws \in Sockets \cup {Nobody}
  /\ socket \in [Sockets -> {"none", "connecting", "open", "closed"}]
  /\ opened \subseteq Sockets
  /\ redirecting \in Sockets \cup {Nobody}

MediaType ==
  /\ peer \in {"none", "offered", "answered"}
  /\ candidates \in 0..MaxCandidates
  /\ dcs \in [Labels -> {"none", "announced", "handled"}]

SessionType ==
  /\ sent \in [Channels -> Seq(Message)]
  /\ handled \in [Channels -> Nat]
  /\ \A c \in Channels : handled[c] <= Len(sent[c])
  /\ got \in [Channels -> Seq(Replies)]
  /\ heard \in [Notes -> Seq(0..MaxMessages)]

LEMMA TypeParts ==
  TypeOK <=> /\ LinkType /\ MediaType /\ SessionType
             /\ program \in {"running", "null", "unparsed"}
  BY DEF TypeOK, LinkType, MediaType, SessionType, Message

LEMMA TypePartsNext ==
  TypeOK' <=> /\ LinkType' /\ MediaType' /\ SessionType'
              /\ program' \in {"running", "null", "unparsed"}
  BY DEF TypeOK, LinkType, MediaType, SessionType, Message

LEMMA LinkTypeKept ==
  ASSUME TypeOK, UNCHANGED link
  PROVE  LinkType'
<1>1. LinkType
  BY TypeParts
<1>2. QED
  BY <1>1 DEF LinkType, link

LEMMA MediaTypeKept ==
  ASSUME TypeOK, UNCHANGED media
  PROVE  MediaType'
<1>1. MediaType
  BY TypeParts
<1>2. QED
  BY <1>1 DEF MediaType, media

LEMMA SessionTypeKept ==
  ASSUME TypeOK, UNCHANGED Session
  PROVE  SessionType'
<1>1. SessionType
  BY TypeParts
<1>2. QED
  BY <1>1 DEF SessionType, Session

\* A reply that is sent arrives on an open WebSocket or is lost, or there is none.
LEMMA SendEffect ==
  ASSUME TypeOK, NEW reply \in Replies, SendOnWebSocket(reply), program = "running"
  PROVE  /\ got' \in [Channels -> Seq(Replies)]
         /\ \/ ws = Nobody /\ program' = "null" /\ got' = got
            \/ ws \in Sockets /\ socket[ws] # "open" /\ program' = program /\ got' = got
            \/ /\ ws \in Sockets /\ socket[ws] = "open" /\ program' = program
               /\ got' = [got EXCEPT ![ws] = Append(@, reply)]
<1>1. got \in [Channels -> Seq(Replies)] /\ ws \in Sockets \cup {Nobody}
  BY DEF TypeOK
<1>2. \/ ws = Nobody /\ program' = "null" /\ got' = got
      \/ ws \in Sockets /\ socket[ws] # "open" /\ program' = program /\ got' = got
      \/ /\ ws \in Sockets /\ socket[ws] = "open" /\ program' = program
         /\ got' = [got EXCEPT ![ws] = Append(@, reply)]
  BY <1>1, ChannelFacts DEF SendOnWebSocket
<1>3. CASE got' = got
  BY <1>1, <1>2, <1>3
<1>4. CASE got' # got
  <2>1. ws \in Channels /\ got' = [got EXCEPT ![ws] = Append(@, reply)]
    BY <1>2, <1>4, ChannelFacts
  <2>2. got' \in [Channels -> Seq(Replies)]
    BY <2>1, ReplyEffect
  <2>3. QED
    BY <1>2, <2>2
<1>5. QED
  BY <1>3, <1>4

-----------------------------------------------------------------------------
(* Where the session goes on.                                              *)

\* Who has something to handle is ws_, and open.
LEMMA Talking ==
  ASSUME Inv, NEW w \in Sockets, handled[w] < Len(sent[w])
  PROVE  /\ got[w] # <<>> /\ ~Finished(w)
         /\ ws = w /\ socket[w] = "open" /\ redirecting = Nobody
<1>1. handled[w] \in Nat /\ sent[w] # <<>>
  BY ChannelFacts DEF Inv, TypeOK
<1>2. got[w] # <<>>
  BY <1>1 DEF Inv, SentInv
<1>3. ~Finished(w)
  BY <1>1 DEF Inv, CurrentInv
<1>4. QED
  BY <1>2, <1>3 DEF Inv, CurrentInv

\* A WebSocket that an offer came on ends, if at all, with "switched".
LEMMA OfferStays ==
  ASSUME Inv, NEW w \in Sockets, Done(w, "offer") # {}
  PROVE  /\ got[w] # <<>> /\ Done(w, "redirect") = {}
         /\ \A k \in 1..Len(sent[w]) : sent[w][k].type # "redirect"
         /\ Said(w, "offer")
<1>1. PICK k : k \in 1..handled[w] /\ sent[w][k].type = "offer"
  BY DEF Done
<1>2. handled[w] \in Nat /\ Len(sent[w]) \in Nat /\ handled[w] <= Len(sent[w])
      /\ DOMAIN sent[w] = 1..Len(sent[w])
  BY ChannelFacts DEF Inv, TypeOK
<1>3. 1..handled[w] \subseteq 1..Len(sent[w])
  BY <1>2
<1>4. k = 1 /\ sent[w] # <<>>
  BY <1>1, <1>2, <1>3 DEF Inv, SentInv
<1>5. \A j \in 1..Len(sent[w]) : sent[w][j].type # "redirect"
  BY <1>1, <1>3, <1>4 DEF Inv, SentInv
<1>6. Done(w, "redirect") = {}
  BY <1>3, <1>5 DEF Done
<1>7. got[w] # <<>>
  BY <1>4 DEF Inv, SentInv
<1>8. Said(w, "offer")
  BY <1>1, <1>2, <1>3 DEF Said
<1>9. QED
  BY <1>5, <1>6, <1>7, <1>8

LEMMA DoneWasSaid ==
  ASSUME TypeOK, NEW c \in Channels, NEW type, Done(c, type) # {}
  PROVE  Said(c, type)
<1>1. handled[c] \in Nat /\ Len(sent[c]) \in Nat /\ handled[c] <= Len(sent[c])
      /\ DOMAIN sent[c] = 1..Len(sent[c])
  BY DEF TypeOK
<1>2. 1..handled[c] \subseteq DOMAIN sent[c]
  BY <1>1
<1>3. QED
  BY <1>2 DEF Done, Said

\* The answer is sent on the WebSocket that the offer came on.
LEMMA WhereOffered ==
  ASSUME Inv, peer = "offered"
  PROVE  /\ ws \in Sockets /\ socket[ws] = "open" /\ redirecting = Nobody
         /\ Done(ws, "offer") # {} /\ got[ws] # <<>>
         /\ \A w \in Sockets : ~Received(w, "answer")
<1>1. \A w \in Sockets : ~Received(w, "answer")
  BY DEF Inv, PeerInv
<1>2. PICK w \in Sockets : Done(w, "offer") # {}
  BY DEF Inv, PeerInv
<1>3. got[w] # <<>> /\ Done(w, "redirect") = {}
  BY <1>2, OfferStays
<1>4. Done(w, "switched") = {}
  BY <1>1, DoneWasSaid, ChannelFacts DEF Inv, PeerInv, Connected
<1>5. ws = w /\ socket[w] = "open" /\ redirecting = Nobody
  BY <1>3, <1>4 DEF Inv, CurrentInv, Finished
<1>6. QED
  BY <1>1, <1>2, <1>3, <1>5
-----------------------------------------------------------------------------
(* Steps that the invariant hardly notices.                                *)

LEMMA CurrentKept ==
  ASSUME CurrentInv, UNCHANGED <<ws, socket, redirecting>>,
         \A w \in Sockets :
           /\ Done(w, "redirect")' = Done(w, "redirect")
           /\ Done(w, "switched")' = Done(w, "switched")
           /\ Finished(w) => handled'[w] = Len(sent'[w])
           /\ got'[w] # <<>> => got[w] # <<>>
  PROVE  CurrentInv'
<1>1. \A w \in Sockets : Finished(w)' <=> Finished(w)
  BY DEF Finished
<1>2. QED
  BY <1>1 DEF CurrentInv

LEMMA OpeningKept ==
  ASSUME OpeningInv, LinkType, UNCHANGED <<ws, socket, redirecting, opened>>,
         \A w \in Sockets : got[w] = <<>> => got'[w] = <<>>
  PROVE  OpeningInv'
<1>1. redirecting \in Sockets \cup {Nobody} /\ opened \subseteq Sockets
  BY DEF LinkType
<1>2. QED
  BY <1>1 DEF OpeningInv

LEMMA PeerKept ==
  ASSUME PeerInv, UNCHANGED <<peer, ws>>,
         \A w \in Sockets :
           /\ Done(w, "offer") # {} => Done(w, "offer")' # {}
           /\ Received(w, "answer")' <=> Received(w, "answer")
           /\ Said(w, "switched")' => Said(w, "switched") \/ Connected,
         \A l \in Labels : dcs'[l] # "none" => dcs[l] # "none" \/ Connected
  PROVE  PeerInv'
<1>1. Connected' <=> Connected
  BY DEF Connected
<1>2. QED
  BY <1>1 DEF PeerInv

LEMMA QuietSaid ==
  ASSUME UNCHANGED sent
  PROVE  \A c \in Channels : \A type : Said(c, type)' <=> Said(c, type)
  BY DEF Said

LEMMA SessionKept ==
  ASSUME Inv, program = "running", UNCHANGED Session
  PROVE  /\ SessionType' /\ SentInv' /\ IdInv' /\ GotInv'
         /\ HeardInv' /\ HeardAsSent' /\ RepliesAreOwed'
<1>1. UNCHANGED <<sent, handled, got, heard, compressed>>
  BY DEF Session
<1>2. \A c \in Channels : \A type : Done(c, type)' = Done(c, type)
  BY <1>1, QuietDone
<1>3. SentInv' /\ IdInv' /\ GotInv'
  BY <1>1, SentKept, IdKept, GotKept, ChannelFacts DEF Inv
<1>4. HeardInv' /\ HeardAsSent'
  BY <1>1, <1>2, HeardKept DEF Inv
<1>5. \A c \in Channels : \A r : Count(c, r)' = Count(c, r)
  BY <1>1, QuietGot
<1>6. RepliesAreOwed'
  <2>1. RepliesAreOwed /\ UNCHANGED compressed
    BY <1>1 DEF Inv
  <2>2. QED
    BY <1>2, <1>5, <2>1, OwedKept
<1>7. SessionType'
  BY SessionTypeKept DEF Inv
<1>8. QED
  BY <1>3, <1>4, <1>6, <1>7

\* Handling most messages does not end a WebSocket ...
LEMMA HandledCurrent ==
  ASSUME Inv, NEW c \in Channels, NEW type, type \notin {"redirect", "switched"},
         Handle(c, type), UNCHANGED link, \A w \in Sockets : got'[w] # <<>> => got[w] # <<>>,
         \A w \in Sockets : got[w] = <<>> => got'[w] = <<>>
  PROVE  LinkType' /\ CurrentInv' /\ OpeningInv'
<1>1. TypeOK /\ CurrentInv /\ OpeningInv /\ LinkType
  BY TypeParts DEF Inv
<1>2. LinkType' /\ UNCHANGED <<ws, socket, redirecting, opened>>
  BY <1>1, LinkTypeKept DEF link
<1>3. OpeningInv'
  BY <1>1, <1>2, OpeningKept
<1>4. /\ sent' = sent
      /\ \A d \in Channels : handled'[d] = IF d = c THEN handled[c] + 1 ELSE handled[d]
      /\ \A d \in Channels : \A t : t # type => Done(d, t)' = Done(d, t)
  BY <1>1, HandleEffect
<1>5. c \in Sockets => ~Finished(c)
  BY Talking DEF Handle
<1>6. ASSUME NEW w \in Sockets
      PROVE  /\ Done(w, "redirect")' = Done(w, "redirect")
             /\ Done(w, "switched")' = Done(w, "switched")
             /\ Finished(w) => handled'[w] = Len(sent'[w])
  <2>1. w \in Channels
    BY ChannelFacts
  <2>2. Finished(w) => handled'[w] = Len(sent'[w])
    BY <1>1, <1>4, <1>5, <2>1 DEF CurrentInv
  <2>3. QED
    BY <1>4, <2>1, <2>2
<1>7. CurrentInv'
  BY <1>1, <1>2, <1>6, CurrentKept
<1>8. QED
  BY <1>2, <1>3, <1>7

\* ... nor does it change what the answer and the data channels depend on.
LEMMA HandledPeer ==
  ASSUME Inv, NEW c \in Channels, NEW type, Handle(c, type), UNCHANGED <<media, ws>>,
         \A w \in Sockets : Received(w, "answer")' <=> Received(w, "answer")
  PROVE  MediaType' /\ PeerInv'
<1>1. TypeOK /\ PeerInv
  BY DEF Inv
<1>2. MediaType' /\ UNCHANGED <<peer, dcs>>
  BY <1>1, MediaTypeKept DEF media
<1>3. sent' = sent /\ \A d \in Channels : \A t : Done(d, t) \subseteq Done(d, t)'
  BY <1>1, HandleEffect
<1>4. ASSUME NEW w \in Sockets
      PROVE  /\ Done(w, "offer") # {} => Done(w, "offer")' # {}
             /\ Said(w, "switched")' => Said(w, "switched")
  BY <1>3, QuietSaid, ChannelFacts
<1>5. PeerInv'
  BY <1>1, <1>2, <1>4, PeerKept
<1>6. QED
  BY <1>2, <1>5

\* One more message of its type has been handled.
LEMMA OneMore ==
  ASSUME TypeOK, NEW c \in Channels, NEW type, Handle(c, type)
  PROVE  Cardinality(Done(c, type))' = Cardinality(Done(c, type)) + 1
<1> PICK h : h = handled[c] + 1
  OBVIOUS
<1>1. Done(c, type)' = Done(c, type) \cup {h} /\ h \notin Done(c, type) /\ handled[c] \in Nat
  BY HandleEffect
<1>2. IsFiniteSet(1..handled[c])
  BY <1>1, FS_Interval
<1>3. IsFiniteSet(Done(c, type))
  BY <1>2, FS_Subset DEF Done
<1>4. QED
  BY <1>1, <1>3, FS_AddElement

\* A message that needs no reply and is no note.
LEMMA HandledQuietly ==
  ASSUME Inv, NEW c \in Channels, NEW type, type \notin {"ping", "stats-req"} \cup Notes,
         Handle(c, type), program = "running", UNCHANGED <<got, heard, compressed>>
  PROVE  /\ SessionType' /\ SentInv' /\ IdInv' /\ GotInv'
         /\ HeardInv' /\ HeardAsSent' /\ RepliesAreOwed'
<1>1. TypeOK /\ SessionType
  BY TypeParts DEF Inv
<1>2. /\ sent' = sent /\ handled' \in [Channels -> Nat]
      /\ \A d \in Channels : handled'[d] <= Len(sent[d])
      /\ \A d \in Channels : \A t : t # type => Done(d, t)' = Done(d, t)
  BY <1>1, HandleEffect
<1>3. SessionType'
  BY <1>1, <1>2 DEF SessionType
<1>4. SentInv' /\ IdInv' /\ GotInv'
  BY <1>2, SentKept, IdKept, GotKept, ChannelFacts DEF Inv
<1>5. \A d \in Channels : \A note \in Notes : Done(d, note)' = Done(d, note)
  BY <1>2
<1>6. HeardInv' /\ HeardAsSent'
  BY <1>2, <1>5, HeardKept DEF Inv
<1>7. \A d \in Channels : /\ Done(d, "ping")' = Done(d, "ping")
                          /\ Done(d, "stats-req")' = Done(d, "stats-req")
  BY <1>2
<1>8. \A d \in Channels : \A r : Count(d, r)' = Count(d, r)
  BY QuietGot
<1>9. RepliesAreOwed'
  <2>1. RepliesAreOwed
    BY DEF Inv
  <2>2. QED
    BY <1>7, <1>8, <2>1, OwedKept
<1>10. QED
  BY <1>3, <1>4, <1>6, <1>9
-----------------------------------------------------------------------------
(* The WebSockets.                                                         *)

\* The parts of the invariant, a step later.
LEMMA InvNext ==
  Inv' <=> /\ LinkType' /\ MediaType' /\ SessionType'
           /\ program' \in {"running", "null", "unparsed"}
           /\ SentInv' /\ IdInv' /\ GotInv' /\ CurrentInv' /\ OpeningInv' /\ PeerInv'
           /\ HeardInv' /\ HeardAsSent' /\ RepliesAreOwed'
  BY TypePartsNext DEF Inv

LEMMA HandshakeInv ==
  ASSUME Inv, program = "running", NEW w \in Sockets, Handshake(w)
  PROVE  Inv'
<1>1. /\ socket[w] = "connecting" /\ socket' = [socket EXCEPT ![w] = "open"]
      /\ opened' = opened \cup {w} /\ UNCHANGED <<asked, compressed, ws, redirecting, peer, dcs>>
      /\ UNCHANGED <<sent, handled, got>> /\ UNCHANGED Session /\ UNCHANGED media
      /\ program' = program
  BY DEF Handshake, Session, media
<1>2. LinkType /\ TypeOK /\ CurrentInv /\ OpeningInv /\ PeerInv
  BY TypeParts DEF Inv
<1>3. LinkType' /\ \A v \in Sockets : socket'[v] = IF v = w THEN "open" ELSE socket[v]
  BY <1>1, <1>2 DEF LinkType
<1>4. \A c \in Channels : \A type : Done(c, type)' = Done(c, type)
  BY <1>1, QuietDone
<1>5. \A v \in Sockets : Finished(v)' <=> Finished(v)
  BY <1>4, ChannelFacts DEF Finished
<1>6. CurrentInv'
  BY <1>1, <1>2, <1>3, <1>4, <1>5, ChannelFacts DEF CurrentInv
<1>7. OpeningInv'
  <2>1. got[w] = <<>> /\ w \in {ws, redirecting}
    BY <1>1, <1>2 DEF OpeningInv
  <2>2. redirecting \in Sockets \cup {Nobody} /\ ws \in Sockets \cup {Nobody}
    BY <1>2 DEF LinkType
  <2>3. redirecting # Nobody => ws # w
    BY <1>1, <1>2 DEF OpeningInv
  <2>4. \A v \in Sockets : socket'[v] \in {"none", "connecting"} => got'[v] = <<>> /\ v \notin opened'
    BY <1>1, <1>2, <1>3 DEF OpeningInv
  <2>5. \A v \in Sockets : socket'[v] = "connecting" => v \in {ws', redirecting'}
    BY <1>1, <1>2, <1>3 DEF OpeningInv
  <2>6. opened' \subseteq Sockets
    BY <1>3 DEF LinkType
  <2>7. \A v \in opened' : socket'[v] = "open" /\ got'[v] = <<>> /\ v \in {ws', redirecting'}
    BY <1>1, <1>2, <1>3, <2>1, <2>6 DEF OpeningInv
  <2>8. redirecting' # Nobody =>
          /\ ws' # Nobody /\ socket'[ws'] = "closed"
          /\ socket'[redirecting'] \in {"connecting", "open"} /\ got'[redirecting'] = <<>>
    BY <1>1, <1>2, <1>3, <2>2, <2>3 DEF OpeningInv
  <2>9. QED
    BY <2>4, <2>5, <2>7, <2>8 DEF OpeningInv
<1>8. PeerInv'
  <2>1. \A v \in Sockets : /\ Done(v, "offer")' = Done(v, "offer")
                           /\ Received(v, "answer")' <=> Received(v, "answer")
                           /\ Said(v, "switched")' <=> Said(v, "switched")
    BY <1>1, <1>4, ChannelFacts, QuietGot, QuietSaid
  <2>2. QED
    BY <1>1, <1>2, <2>1, PeerKept
<1>9. MediaType'
  BY <1>1, <1>2, MediaTypeKept
<1>10. QED
  BY <1>1, <1>3, <1>6, <1>7, <1>8, <1>9, SessionKept, InvNext

\* What is sent on the open ws_ arrives; the invariant is about what it is.
LEMMA SentOnCurrent ==
  ASSUME Inv, program = "running", ws \in Sockets, NEW reply \in Replies,
         got' = [got EXCEPT ![ws] = Append(@, reply)],
         reply \in Hello <=> got[ws] = <<>>,
         reply # IF ws = First THEN "connect-redirect" ELSE "connect",
         reply = "answer" => ~Received(ws, "answer"),
         reply = "candidate" => Received(ws, "answer"),
         UNCHANGED <<compressed, sent, handled, heard>>,
         reply \notin {"pong", "stats"}
  PROVE  /\ SessionType' /\ SentInv' /\ IdInv' /\ GotInv'
         /\ HeardInv' /\ HeardAsSent' /\ RepliesAreOwed'
<1> PICK v \in Sockets : v = ws
  OBVIOUS
<1>1. TypeOK /\ SessionType /\ v \in Channels /\ got' = [got EXCEPT ![v] = Append(@, reply)]
  BY TypeParts, ChannelFacts DEF Inv
<1>2. /\ got' \in [Channels -> Seq(Replies)] /\ got'[v] # <<>>
      /\ \A d \in Channels : d # v => got'[d] = got[d]
      /\ \A d \in Channels : \A r : r # reply => Count(d, r)' = Count(d, r)
  <2>1. \A d \in Channels : \A r :
          Count(d, r)' = IF d = v /\ r = reply THEN Count(d, r) + 1 ELSE Count(d, r)
    BY ZenonT(30), <1>1, ReplyEffect
  <2>2. /\ got' \in [Channels -> Seq(Replies)] /\ got'[v] # <<>>
        /\ \A d \in Channels : d # v => got'[d] = got[d]
    BY <1>1, ReplyEffect
  <2>3. QED
    BY <2>1, <2>2
<1>3. SessionType'
  BY <1>1, <1>2 DEF SessionType
<1>4. GotInv'
  BY <1>1, GotMore DEF Inv
<1>5. SentInv' /\ IdInv'
  BY <1>2, SentKept, IdKept, ChannelFacts DEF Inv
<1>6. \A c \in Channels : \A type : Done(c, type)' = Done(c, type)
  BY QuietDone
<1>7. HeardInv' /\ HeardAsSent'
  BY <1>6, HeardKept DEF Inv
<1>8. RepliesAreOwed'
  <2>1. RepliesAreOwed
    BY DEF Inv
  <2>2. \A c \in Channels : Count(c, "stats")' = Count(c, "stats") /\ Count(c, "pong")' = Count(c, "pong")
    BY <1>2
  <2>3. QED
    BY <1>6, <2>1, <2>2, OwedKept
<1>9. QED
  BY <1>3, <1>4, <1>5, <1>7, <1>8

\* onOpen runs once for each WebSocket, and sends on it or not at all.
LEMMA WhereOpened ==
  ASSUME Inv, NEW w \in Sockets, w \in opened
  PROVE  /\ got[w] = <<>> /\ ws \in Sockets
         /\ socket[ws] = "open" => ws = w /\ redirecting = Nobody
<1>1. LinkType /\ OpeningInv
  BY TypeParts DEF Inv
<1>2. socket[w] = "open" /\ got[w] = <<>> /\ w \in {ws, redirecting}
  BY <1>1 DEF OpeningInv
<1>3. redirecting # Nobody => ws # Nobody /\ socket[ws] = "closed"
  BY <1>1 DEF OpeningInv
<1>4. QED
  BY <1>1, <1>2, <1>3, ChannelFacts DEF LinkType

LEMMA OnOpenInv ==
  ASSUME Inv, program = "running", NEW w \in Sockets, OnOpen(w)
  PROVE  Inv'
<1> PICK reply : reply = IF w = First THEN "connect" ELSE "connect-redirect"
  OBVIOUS
<1>1. /\ w \in opened /\ opened' = opened \ {w} /\ SendOnWebSocket(reply)
      /\ UNCHANGED <<asked, compressed, ws, socket, redirecting, peer, dcs>>
      /\ UNCHANGED <<sent, handled, heard, compressed>> /\ UNCHANGED media
  BY DEF OnOpen, media
<1>2. LinkType /\ TypeOK /\ CurrentInv /\ OpeningInv /\ PeerInv
  BY TypeParts DEF Inv
<1>3. LinkType' /\ MediaType'
  BY <1>1, <1>2, MediaTypeKept DEF LinkType
<1>4. reply \in Replies /\ reply \in Hello
  BY DEF Replies, Hello
<1>5. got[w] = <<>> /\ ws \in Sockets /\ (socket[ws] = "open" => ws = w /\ redirecting = Nobody)
  BY <1>1, WhereOpened
<1>6. /\ program' = program
      /\ \/ got' = got
         \/ /\ ws = w /\ redirecting = Nobody /\ socket[w] = "open"
            /\ got' = [got EXCEPT ![w] = Append(@, reply)]
  BY <1>1, <1>2, <1>4, <1>5, SendEffect, ChannelFacts
<1>7. /\ SessionType' /\ SentInv' /\ IdInv' /\ GotInv'
      /\ HeardInv' /\ HeardAsSent' /\ RepliesAreOwed'
  <2>1. CASE got' = got
    <3>1. UNCHANGED Session
      BY <1>1, <2>1 DEF Session
    <3>2. QED
      BY <3>1, SessionKept
  <2>2. CASE ws = w /\ got' = [got EXCEPT ![w] = Append(@, reply)]
    <3>1. reply # IF w = First THEN "connect-redirect" ELSE "connect"
      OBVIOUS
    <3>2. reply \notin {"answer", "candidate", "pong", "stats"}
      OBVIOUS
    <3>3. QED
      BY <1>1, <1>4, <1>5, <2>2, <3>1, <3>2, SentOnCurrent
  <2>3. QED
    BY <1>6, <2>1, <2>2
<1>8. \A v \in Sockets :
        /\ got'[v] = got[v] \/ (v = w /\ ws = w /\ redirecting = Nobody /\ socket[w] = "open")
        /\ Received(v, "answer")' <=> Received(v, "answer")
  <2>1. CASE got' = got
    BY <2>1, QuietGot, ChannelFacts
  <2>2. CASE /\ ws = w /\ redirecting = Nobody /\ socket[w] = "open"
             /\ got' = [got EXCEPT ![w] = Append(@, reply)]
    <3>1. reply # "answer"
      OBVIOUS
    <3>2. /\ \A d \in Channels : d # w => got'[d] = got[d]
          /\ \A d \in Channels :
               Received(d, "answer")' <=> Received(d, "answer") \/ (d = w /\ reply = "answer")
      BY <1>2, <1>4, <2>2, ReplyEffect, ChannelFacts
    <3>3. QED
      BY <2>2, <3>1, <3>2, ChannelFacts
  <2>3. QED
    BY <1>6, <2>1, <2>2
<1>9. \A c \in Channels : \A type : Done(c, type)' = Done(c, type)
  BY <1>1, QuietDone
<1>10. \A v \in Sockets : Finished(v)' <=> Finished(v)
  BY <1>9, ChannelFacts DEF Finished
<1>11. CurrentInv'
  BY <1>1, <1>2, <1>8, <1>9, <1>10, ChannelFacts DEF CurrentInv
<1>12. OpeningInv'
  <2>1. opened' \subseteq Sockets /\ redirecting \in Sockets \cup {Nobody}
    BY <1>2, <1>3 DEF LinkType
  <2>2. QED
    BY <1>1, <1>2, <1>8, <2>1 DEF OpeningInv
<1>13. PeerInv'
  <2>1. \A v \in Sockets : /\ Done(v, "offer")' = Done(v, "offer")
                           /\ Said(v, "switched")' <=> Said(v, "switched")
    BY <1>1, <1>9, ChannelFacts, QuietSaid
  <2>2. QED
    BY <1>1, <1>2, <1>8, <2>1, PeerKept
<1>14. QED
  BY <1>2, <1>3, <1>6, <1>7, <1>11, <1>12, <1>13, InvNext
-----------------------------------------------------------------------------
(* Messages that change where the session goes on.                         *)

\* A message that may come only last leaves nothing to handle.
LEMMA LastHandled ==
  ASSUME Inv, NEW w \in Sockets, NEW type \in {"redirect", "switched"}, Handle(w, type)
  PROVE  /\ w \in Channels
         /\ sent' = sent /\ handled'[w] = Len(sent[w])
         /\ \A v \in Sockets : v # w => handled'[v] = handled[v]
         /\ \A v \in Sockets : \A t :
              IF v = w /\ t = type THEN Done(v, t)' # {} ELSE Done(v, t)' = Done(v, t)
<1>1. TypeOK /\ w \in Channels /\ \A v \in Sockets : v \in Channels
  BY ChannelFacts DEF Inv
<1>2. /\ sent' = sent /\ handled[w] + 1 \in 1..Len(sent[w]) /\ handled[w] \in Nat
      /\ sent[w][handled[w] + 1].type = type
      /\ \A d \in Channels : handled'[d] = IF d = w THEN handled[w] + 1 ELSE handled[d]
      /\ \A d \in Channels : \A t :
           Done(d, t)' = IF d = w /\ t = type THEN Done(d, t) \cup {handled[w] + 1}
                                              ELSE Done(d, t)
  BY <1>1, HandleEffect
<1>3. handled[w] + 1 = Len(sent[w])
  BY <1>2 DEF Inv, SentInv
<1>4. QED
  BY <1>1, <1>2, <1>3

LEMMA HandleRedirectInv ==
  ASSUME Inv, program = "running", NEW w \in Sockets, HandleRedirect(w)
  PROVE  Inv'
<1>1. /\ Handle(w, "redirect")
      /\ UNCHANGED <<asked, compressed, ws, opened, peer, dcs, got, heard, program>>
      /\ UNCHANGED media /\ UNCHANGED <<media, ws>>
  BY DEF HandleRedirect, media
<1>2. PICK new \in Sockets :
        /\ socket[new] = "none"
        /\ socket' = [socket EXCEPT ![ws] = "closed", ![new] = "connecting"]
        /\ redirecting' = new
  BY DEF HandleRedirect
<1>3. LinkType /\ TypeOK /\ CurrentInv /\ OpeningInv /\ PeerInv
  BY TypeParts DEF Inv
<1>4. got[w] # <<>> /\ ws = w /\ socket[w] = "open" /\ redirecting = Nobody
  BY <1>1, Talking DEF Handle
<1>5. new # w
  BY <1>2, <1>4
<1>6. LinkType' /\ \A v \in Sockets :
                     socket'[v] = IF v = w THEN "closed" ELSE IF v = new THEN "connecting" ELSE socket[v]
  BY <1>1, <1>2, <1>3, <1>4, <1>5 DEF LinkType
<1>7. /\ sent' = sent /\ handled'[w] = Len(sent[w])
      /\ \A v \in Sockets : v # w => handled'[v] = handled[v]
      /\ \A v \in Sockets : \A t :
           IF v = w /\ t = "redirect" THEN Done(v, t)' # {} ELSE Done(v, t)' = Done(v, t)
  BY <1>1, LastHandled
<1>8. CurrentInv'
  <2>1. Finished(w)' /\ \A v \in Sockets : v # w => (Finished(v)' <=> Finished(v))
    BY <1>7 DEF Finished
  <2>2. \A v \in Sockets : v # w => ws # v
    BY <1>4
  <2>3. \A v \in Sockets : Done(v, "switched")' = {}
    BY <1>3, <1>4, <1>7, ChannelFacts DEF CurrentInv
  <2>4. QED
    BY <1>1, <1>3, <1>7, <2>1, <2>2, <2>3 DEF CurrentInv
<1>9. OpeningInv'
  <2>1. opened' = {}
    <3>1. \A v \in opened : FALSE
      BY <1>3, <1>4, ChannelFacts DEF OpeningInv, LinkType
    <3>2. QED
      BY <1>1, <3>1
  <2>2. \A v \in Sockets : socket[v] # "connecting"
    BY <1>3, <1>4, ChannelFacts DEF OpeningInv
  <2>3. got'[new] = <<>> /\ ws' = w /\ w # Nobody
    BY <1>1, <1>2, <1>3, <1>4, ChannelFacts DEF OpeningInv
  <2>4. \A v \in Sockets : socket'[v] \in {"none", "connecting"} => got'[v] = <<>>
    BY <1>1, <1>3, <1>6, <2>3 DEF OpeningInv
  <2>5. \A v \in Sockets : socket'[v] = "connecting" => v = redirecting'
    BY <1>2, <1>6, <2>2
  <2>6. QED
    BY <1>2, <1>5, <1>6, <2>1, <2>3, <2>4, <2>5 DEF OpeningInv
<1>10. MediaType' /\ PeerInv'
  BY <1>1, HandledPeer, QuietGot, ChannelFacts
<1>11. /\ SessionType' /\ SentInv' /\ IdInv' /\ GotInv'
       /\ HeardInv' /\ HeardAsSent' /\ RepliesAreOwed'
  BY <1>1, HandledQuietly, ChannelFacts DEF Notes
<1>12. QED
  BY <1>1, <1>6, <1>8, <1>9, <1>10, <1>11, InvNext

LEMMA HandleSwitchedInv ==
  ASSUME Inv, program = "running", NEW w \in Sockets, HandleSwitched(w)
  PROVE  Inv'
<1>1. /\ Handle(w, "switched")
      /\ socket' = [socket EXCEPT ![ws] = "closed"] /\ ws' = Nobody
      /\ UNCHANGED <<asked, compressed, opened, redirecting, peer, dcs, got, heard, program>>
      /\ UNCHANGED media
  BY DEF HandleSwitched, media
<1>2. LinkType /\ TypeOK /\ CurrentInv /\ OpeningInv /\ PeerInv
  BY TypeParts DEF Inv
<1>3. got[w] # <<>> /\ ws = w /\ socket[w] = "open" /\ redirecting = Nobody
  BY <1>1, Talking DEF Handle
<1>4. LinkType' /\ \A v \in Sockets : socket'[v] = IF v = w THEN "closed" ELSE socket[v]
  BY <1>1, <1>2, <1>3 DEF LinkType
<1>5. /\ sent' = sent /\ handled'[w] = Len(sent[w])
      /\ \A v \in Sockets : v # w => handled'[v] = handled[v]
      /\ \A v \in Sockets : \A t :
           IF v = w /\ t = "switched" THEN Done(v, t)' # {} ELSE Done(v, t)' = Done(v, t)
  BY <1>1, LastHandled
<1>6. CurrentInv'
  <2>1. Finished(w)' /\ \A v \in Sockets : v # w => (Finished(v)' <=> Finished(v))
    BY <1>5 DEF Finished
  <2>2. \A v \in Sockets : v # w => ws # v
    BY <1>3
  <2>3. \A v \in Sockets : got'[v] # <<>> /\ ~Finished(v)' => FALSE
    BY <1>1, <1>2, <2>1, <2>2 DEF CurrentInv
  <2>4. \A v \in Sockets : Finished(v)' => handled'[v] = Len(sent'[v])
    BY <1>2, <1>5, <2>1 DEF CurrentInv
  <2>5. ws' = Nobody /\ redirecting' = Nobody
    BY <1>1, <1>3
  <2>6. QED
    BY <2>3, <2>4, <2>5 DEF CurrentInv
<1>7. OpeningInv'
  <2>1. opened' = {}
    <3>1. \A v \in opened : FALSE
      BY <1>2, <1>3, ChannelFacts DEF OpeningInv, LinkType
    <3>2. QED
      BY <1>1, <3>1
  <2>2. \A v \in Sockets : socket'[v] # "connecting"
    BY <1>2, <1>3, <1>4, ChannelFacts DEF OpeningInv
  <2>3. \A v \in Sockets : socket'[v] = "none" => got'[v] = <<>>
    BY <1>1, <1>2, <1>4 DEF OpeningInv
  <2>4. redirecting' = Nobody
    BY <1>1, <1>3
  <2>5. QED
    BY <2>1, <2>2, <2>3, <2>4 DEF OpeningInv
<1>8. PeerInv'
  <2>1. Said(w, "switched")
    <3>1. sent[w] \in Seq(Message) /\ handled[w] + 1 \in 1..Len(sent[w])
      BY <1>1, <1>2, HandleEffect, ChannelFacts DEF TypeOK, Message
    <3>2. QED
      BY <1>1, <3>1 DEF Handle, Said
  <2>2. Connected
    BY <1>2, <2>1 DEF PeerInv
  <2>3. peer = "answered"
    BY <1>2, <2>2 DEF PeerInv, Connected
  <2>4. \A v \in Sockets : /\ Done(v, "offer")' = Done(v, "offer")
                           /\ Received(v, "answer")' <=> Received(v, "answer")
    BY <1>1, <1>5, QuietGot, ChannelFacts
  <2>5. Connected' /\ ws' = Nobody
    BY <1>1, <2>2, <2>4 DEF Connected
  <2>6. QED
    BY <1>1, <1>2, <2>3, <2>4, <2>5 DEF PeerInv, Connected
<1>9. /\ SessionType' /\ SentInv' /\ IdInv' /\ GotInv'
      /\ HeardInv' /\ HeardAsSent' /\ RepliesAreOwed'
  BY <1>1, HandledQuietly, ChannelFacts DEF Notes
<1>10. QED
  BY <1>1, <1>2, <1>4, <1>6, <1>7, <1>8, <1>9, MediaTypeKept, InvNext

\* Once the answer is out, there is no redirection under way.
LEMMA AnsweredStays ==
  ASSUME Inv, NEW w \in Sockets, Received(w, "answer")
  PROVE  redirecting = Nobody
<1>1. Done(w, "offer") # {}
  BY DEF Inv, PeerInv
<1>2. got[w] # <<>> /\ Done(w, "redirect") = {}
  BY <1>1, OfferStays
<1>3. CASE Done(w, "switched") # {}
  BY <1>3 DEF Inv, CurrentInv
<1>4. CASE Done(w, "switched") = {}
  BY <1>2, <1>4 DEF Inv, CurrentInv, Finished
<1>5. QED
  BY <1>3, <1>4

LEMMA RedirectedInv ==
  ASSUME Inv, program = "running", Redirected
  PROVE  Inv'
<1>1. /\ redirecting # Nobody /\ ws' = redirecting /\ redirecting' = Nobody
      /\ UNCHANGED <<asked, compressed, socket, opened, peer, dcs, sent, handled, got, program>>
      /\ UNCHANGED Session /\ UNCHANGED media
  BY DEF Redirected, media, Session
<1>2. LinkType /\ TypeOK /\ CurrentInv /\ OpeningInv /\ PeerInv
  BY TypeParts DEF Inv
<1>3. LinkType' /\ redirecting \in Sockets
  BY <1>1, <1>2 DEF LinkType
<1>4. \A c \in Channels : \A type : Done(c, type)' = Done(c, type)
  BY <1>1, QuietDone
<1>5. \A v \in Sockets : Finished(v)' <=> Finished(v)
  BY <1>4, ChannelFacts DEF Finished
<1>6. CurrentInv'
  BY <1>1, <1>2, <1>4, <1>5, ChannelFacts DEF CurrentInv
<1>7. OpeningInv'
  <2>1. socket[ws] = "closed" /\ opened \subseteq Sockets
    BY <1>1, <1>2 DEF OpeningInv, LinkType
  <2>2. QED
    BY <1>1, <1>2, <2>1 DEF OpeningInv
<1>8. PeerInv'
  <2>1. \A v \in Sockets : /\ Done(v, "offer")' = Done(v, "offer")
                           /\ Received(v, "answer")' <=> Received(v, "answer")
                           /\ Said(v, "switched")' <=> Said(v, "switched")
    BY <1>1, <1>4, ChannelFacts, QuietGot, QuietSaid
  <2>2. \A v \in Sockets : ~Received(v, "answer")
    BY <1>1, AnsweredStays
  <2>3. peer # "answered"
    BY <1>2, <2>2 DEF PeerInv
  <2>4. Connected' <=> Connected
    BY <2>1 DEF Connected
  <2>5. ws' # Nobody
    BY <1>1
  <2>6. QED
    BY <1>1, <1>2, <2>1, <2>2, <2>3, <2>4, <2>5 DEF PeerInv
<1>9. QED
  BY <1>1, <1>2, <1>3, <1>6, <1>7, <1>8, SessionKept, MediaTypeKept, InvNext
-----------------------------------------------------------------------------
(* Offers, requests and notes.                                             *)

LEMMA HandleOfferInv ==
  ASSUME Inv, program = "running", NEW w \in Sockets, HandleOffer(w)
  PROVE  Inv'
<1>1. /\ Handle(w, "offer") /\ UNCHANGED <<link, got, heard, compressed, dcs, ws>>
      /\ \/ peer' = "offered" /\ candidates' = MaxCandidates /\ program' = program
         \/ program' = "unparsed" /\ UNCHANGED <<peer, candidates>>
  BY DEF HandleOffer, link
<1>2. LinkType /\ MediaType /\ TypeOK /\ CurrentInv /\ PeerInv /\ w \in Channels
  BY TypeParts, ChannelFacts DEF Inv
<1>3. LinkType' /\ CurrentInv' /\ OpeningInv'
  BY <1>1, <1>2, HandledCurrent
<1>4. /\ SessionType' /\ SentInv' /\ IdInv' /\ GotInv'
      /\ HeardInv' /\ HeardAsSent' /\ RepliesAreOwed'
  BY <1>1, <1>2, HandledQuietly DEF Notes
<1>5. MediaType' /\ program' \in {"running", "null", "unparsed"}
  BY <1>1, <1>2, BoundsAssumption DEF MediaType
<1>6. CASE peer' = peer
  <2>1. MediaType' /\ program' \in {"running", "null", "unparsed"}
    BY <1>5
  <2>2. /\ sent' = sent /\ \A d \in Channels : \A t : Done(d, t) \subseteq Done(d, t)'
    BY <1>1, <1>2, HandleEffect
  <2>3. \A v \in Sockets : /\ Done(v, "offer") # {} => Done(v, "offer")' # {}
                           /\ Received(v, "answer")' <=> Received(v, "answer")
                           /\ Said(v, "switched")' <=> Said(v, "switched")
    BY <1>1, <2>2, QuietGot, QuietSaid, ChannelFacts
  <2>4. PeerInv'
    BY <1>1, <1>2, <1>6, <2>3, PeerKept
  <2>5. QED
    BY <1>3, <1>4, <2>1, <2>4, InvNext
<1>7. CASE peer' # peer
  <2>1. got[w] # <<>> /\ ~Finished(w) /\ ws = w
    BY <1>1, Talking DEF Handle
  <2>2. /\ sent' = sent /\ handled[w] + 1 \in 1..Len(sent[w]) /\ handled[w] \in Nat
        /\ sent[w][handled[w] + 1].type = "offer"
        /\ Done(w, "offer")' = Done(w, "offer") \cup {handled[w] + 1}
        /\ \A d \in Channels : \A t : Done(d, t) \subseteq Done(d, t)'
    BY <1>1, <1>2, HandleEffect
  <2>3. handled[w] = 0
    BY <2>2 DEF Inv, SentInv
  <2>4. Done(w, "offer") = {}
    BY <2>3 DEF Done
  \* Nobody can have been answered yet: the offer would be the second.
  <2>5. \A v \in Sockets : ~Received(v, "answer")
    <3> SUFFICES ASSUME NEW v \in Sockets, Received(v, "answer")
                 PROVE  FALSE
      OBVIOUS
    <3>1. Done(v, "offer") # {}
      BY <1>2 DEF PeerInv
    <3>2. got[v] # <<>> /\ Done(v, "redirect") = {} /\ v # w
      BY <2>4, <3>1, OfferStays
    <3>3. Done(v, "switched") = {}
      BY <1>2, <2>1, ChannelFacts DEF CurrentInv
    <3>4. ws = v
      BY <1>2, <3>2, <3>3 DEF CurrentInv, Finished
    <3>5. QED
      BY <2>1, <3>2, <3>4
  <2>6. \A v \in Sockets : /\ Received(v, "answer")' <=> Received(v, "answer")
                           /\ Said(v, "switched")' <=> Said(v, "switched")
    BY <1>1, <2>2, QuietGot, QuietSaid, ChannelFacts
  <2>7. peer' = "offered" /\ Done(w, "offer")' # {} /\ ws' # Nobody
    BY <1>1, <1>7, <2>1, <2>2, ChannelFacts
  <2>8. Connected' <=> Connected
    BY <2>6 DEF Connected
  <2>9. PeerInv'
    BY <1>1, <1>2, <2>5, <2>6, <2>7, <2>8 DEF PeerInv
  <2>10. QED
    BY <1>3, <1>4, <1>5, <2>9, InvNext
<1>8. QED
  BY <1>6, <1>7

LEMMA HandleSwitchedKeepInv ==
  ASSUME Inv, program = "running", NEW w \in Sockets, HandleSwitchedKeep(w)
  PROVE  Inv'
<1>1. /\ Handle(w, "switched-keep") /\ w \in Channels
      /\ UNCHANGED <<link, got, heard, compressed, media, ws, program>>
      /\ UNCHANGED <<media, ws>>
  BY ChannelFacts DEF HandleSwitchedKeep, link
<1>2. LinkType' /\ CurrentInv' /\ OpeningInv'
  BY <1>1, HandledCurrent
<1>3. MediaType' /\ PeerInv'
  BY <1>1, HandledPeer, QuietGot, ChannelFacts
<1>4. /\ SessionType' /\ SentInv' /\ IdInv' /\ GotInv'
      /\ HeardInv' /\ HeardAsSent' /\ RepliesAreOwed'
  BY <1>1, HandledQuietly DEF Notes
<1>5. QED
  BY <1>1, <1>2, <1>3, <1>4, InvNext DEF Inv, TypeOK

\* A request that is answered on the channel it came on, once.
LEMMA Answered ==
  ASSUME Inv, program = "running", NEW c \in Channels,
         NEW type \in {"ping", "stats-req"}, NEW reply \in {"pong", "stats"},
         type = "ping" <=> reply = "pong",
         c \in Sockets => got[c] # <<>>,
         Handle(c, type), got' = [got EXCEPT ![c] = Append(@, reply)],
         UNCHANGED <<link, media, heard, program>>
  PROVE  Inv'
<1>1. TypeOK /\ SessionType
  BY TypeParts DEF Inv
<1>2. UNCHANGED <<media, ws>> /\ UNCHANGED compressed
  BY DEF link
<1>3. reply \in Replies /\ reply # "answer" /\ reply \notin Hello /\ reply # "candidate"
  BY DEF Replies, Hello
<1>4. /\ sent' = sent /\ handled' \in [Channels -> Nat]
      /\ \A d \in Channels : handled'[d] <= Len(sent[d])
      /\ \A d \in Channels : \A t : d # c \/ t # type => Done(d, t)' = Done(d, t)
  BY <1>1, HandleEffect
<1>5. /\ got' \in [Channels -> Seq(Replies)] /\ got'[c] # <<>>
      /\ \A d \in Channels : d # c => got'[d] = got[d]
      /\ \A d \in Channels : \A r : Received(d, r)' <=> Received(d, r) \/ (d = c /\ r = reply)
  BY <1>1, <1>3, ReplyEffect
<1>6. \A d \in Channels : \A r :
        Count(d, r)' = IF d = c /\ r = reply THEN Count(d, r) + 1 ELSE Count(d, r)
  BY <1>1, <1>3, ReplyEffect
<1>7. Cardinality(Done(c, type))' = Cardinality(Done(c, type)) + 1
  BY <1>1, OneMore
<1>8. SessionType'
  BY <1>1, <1>4, <1>5 DEF SessionType
<1>9. SentInv' /\ IdInv'
  BY <1>4, <1>5, SentKept, IdKept, ChannelFacts DEF Inv
<1>10. GotInv'
  <2>1. CASE c \in Sockets
    BY <1>1, <1>3, <2>1, GotMore DEF Inv, Hello
  <2>2. CASE c \notin Sockets
    BY <1>5, <2>2, GotKept, ChannelFacts DEF Inv
  <2>3. QED
    BY <2>1, <2>2
<1>11. HeardInv' /\ HeardAsSent'
  <2>1. \A d \in Channels : \A note \in Notes : Done(d, note)' = Done(d, note)
    BY <1>4 DEF Notes
  <2>2. QED
    BY <1>2, <1>4, <2>1, HeardKept DEF Inv
<1>12. RepliesAreOwed'
  <2>1. RepliesAreOwed
    BY DEF Inv
  <2>2. ASSUME NEW d \in Channels
        PROVE  \/ /\ Count(d, "stats")' = Count(d, "stats")
                  /\ Cardinality(Done(d, "stats-req"))' = Cardinality(Done(d, "stats-req"))
               \/ /\ Count(d, "stats")' = Count(d, "stats") + 1
                  /\ Cardinality(Done(d, "stats-req"))' = Cardinality(Done(d, "stats-req")) + 1
    <3>1. CASE d = c /\ type = "stats-req"
      BY <1>6, <1>7, <3>1
    <3>2. CASE d # c \/ type = "ping"
      <4>1. Done(d, "stats-req")' = Done(d, "stats-req")
        BY <1>4, <3>2
      <4>2. Count(d, "stats")' = Count(d, "stats")
        BY <1>6, <3>2
      <4>3. QED
        BY <4>1, <4>2
    <3>3. QED
      BY <3>1, <3>2
  <2>3. ASSUME NEW d \in Channels
        PROVE  \/ /\ Count(d, "pong")' = Count(d, "pong")
                  /\ Cardinality(Done(d, "ping"))' = Cardinality(Done(d, "ping"))
               \/ /\ Count(d, "pong")' = Count(d, "pong") + 1
                  /\ Cardinality(Done(d, "ping"))' = Cardinality(Done(d, "ping")) + 1
    <3>1. CASE d = c /\ type = "ping"
      BY <1>6, <1>7, <3>1
    <3>2. CASE d # c \/ type = "stats-req"
      <4>1. Done(d, "ping")' = Done(d, "ping")
        BY <1>4, <3>2
      <4>2. Count(d, "pong")' = Count(d, "pong")
        BY <1>6, <3>2
      <4>3. QED
        BY <4>1, <4>2
    <3>3. QED
      BY <3>1, <3>2
  <2>4. QED
    BY <1>2, <2>1, <2>2, <2>3, OwedKept
<1>13. LinkType' /\ CurrentInv' /\ OpeningInv'
  <2>1. \A w \in Sockets : got'[w] = got[w] \/ (got[w] # <<>> /\ got'[w] # <<>>)
    BY <1>5, ChannelFacts
  <2>2. QED
    BY <2>1, HandledCurrent
<1>14. MediaType' /\ PeerInv'
  BY <1>2, <1>3, <1>5, HandledPeer, ChannelFacts
<1>15. QED
  BY <1>1, <1>8, <1>9, <1>10, <1>11, <1>12, <1>13, <1>14, InvNext DEF TypeOK

LEMMA HandleRequestInv ==
  ASSUME Inv, program = "running", NEW w \in Sockets, HandlePing(w) \/ HandleStatsReq(w)
  PROVE  Inv'
<1>1. ASSUME NEW type \in {"ping", "stats-req"}, NEW reply \in {"pong", "stats"},
             type = "ping" <=> reply = "pong",
             Handle(w, type), SendOnWebSocket(reply), UNCHANGED <<link, media, heard>>
      PROVE  Inv'
  <2>1. got[w] # <<>> /\ ws = w /\ socket[w] = "open"
    BY <1>1, Talking DEF Handle
  <2>2. reply \in Replies /\ TypeOK
    BY DEF Inv, Replies
  <2>3. program' = program /\ got' = [got EXCEPT ![w] = Append(@, reply)]
    BY <1>1, <2>1, <2>2, SendEffect, ChannelFacts
  <2>4. QED
    BY <1>1, <2>1, <2>3, Answered, ChannelFacts
<1>2. CASE HandlePing(w)
  BY <1>1, <1>2 DEF HandlePing
<1>3. CASE HandleStatsReq(w)
  BY <1>1, <1>3 DEF HandleStatsReq
<1>4. QED
  BY <1>2, <1>3

LEMMA StatsOnDataChannelInv ==
  ASSUME Inv, program = "running", StatsOnDataChannel
  PROVE  Inv'
<1>1. /\ Handle("stats", "stats-req") /\ UNCHANGED <<link, media, heard, program>>
      /\ \/ got' = [got EXCEPT !["stats"] = Append(@, "stats")]
         \/ "stats" \in compressed /\ got' = got
  BY DEF StatsOnDataChannel
<1>2. "stats" \in Channels /\ "stats" \notin Sockets
  BY SocketsAssumption DEF Channels, Labels
<1>3. CASE got' = [got EXCEPT !["stats"] = Append(@, "stats")]
  BY <1>1, <1>2, <1>3, Answered
\* Garbage it cannot answer.
<1>4. CASE "stats" \in compressed /\ got' = got
  <2>1. TypeOK /\ SessionType
    BY TypeParts DEF Inv
  <2>2. UNCHANGED <<media, ws>> /\ UNCHANGED compressed
    BY <1>1 DEF link
  <2>3. /\ sent' = sent /\ handled' \in [Channels -> Nat]
        /\ \A d \in Channels : handled'[d] <= Len(sent[d])
        /\ \A d \in Channels : \A t : d # "stats" \/ t # "stats-req" => Done(d, t)' = Done(d, t)
    BY <1>1, <1>2, <2>1, HandleEffect
  <2>4. SessionType'
    BY <1>1, <1>4, <2>1, <2>3 DEF SessionType
  <2>5. SentInv' /\ IdInv' /\ GotInv'
    BY <1>4, <2>3, SentKept, IdKept, GotKept DEF Inv
  <2>6. HeardInv' /\ HeardAsSent'
    <3>1. \A d \in Channels : \A note \in Notes : Done(d, note)' = Done(d, note)
      BY <2>3 DEF Notes
    <3>2. QED
      BY <1>1, <2>2, <2>3, <3>1, HeardKept DEF Inv
  <2>7. RepliesAreOwed'
    <3>1. RepliesAreOwed
      BY DEF Inv
    <3>2. \A d \in Channels \ compressed :
            Done(d, "stats-req")' = Done(d, "stats-req") /\ Done(d, "ping")' = Done(d, "ping")
      BY <1>4, <2>3
    <3>3. \A d \in Channels : \A r : Count(d, r)' = Count(d, r)
      BY <1>4, QuietGot
    <3>4. QED
      BY <2>2, <3>1, <3>2, <3>3, OwedKept
  <2>8. LinkType' /\ CurrentInv' /\ OpeningInv'
    BY <1>1, <1>2, <1>4, HandledCurrent
  <2>9. MediaType' /\ PeerInv'
    BY <1>1, <1>2, <1>4, <2>2, HandledPeer, QuietGot, ChannelFacts
  <2>10. QED
    BY <1>1, <2>1, <2>4, <2>5, <2>6, <2>7, <2>8, <2>9, InvNext DEF TypeOK
<1>5. QED
  BY <1>1, <1>3, <1>4

LEMMA HandleNoteInv ==
  ASSUME Inv, program = "running", NEW c \in Channels, NEW note \in Notes, HandleNote(c, note)
  PROVE  Inv'
<1>1. Handle(c, note) /\ UNCHANGED <<link, media, got, program>>
  BY DEF HandleNote
<1>2. PICK e \in Read(c) : heard' = [heard EXCEPT ![note] = Append(@, e)]
  BY DEF HandleNote
<1>3. UNCHANGED <<media, ws>> /\ UNCHANGED compressed
  BY <1>1 DEF link
<1>4. TypeOK /\ SessionType
  BY TypeParts DEF Inv
<1>5. /\ sent' = sent /\ handled' \in [Channels -> Nat]
      /\ handled[c] + 1 \in 1..Len(sent[c])
      /\ \A d \in Channels : handled'[d] <= Len(sent[d])
      /\ \A d \in Channels : \A t : t # note => Done(d, t)' = Done(d, t)
  BY <1>1, <1>4, HandleEffect
<1>6. heard' \in [Notes -> Seq(0..MaxMessages)]
  <2>1. sent[c] \in Seq(Message) /\ heard \in [Notes -> Seq(0..MaxMessages)]
    BY <1>4 DEF SessionType
  <2>2. sent[c][handled[c] + 1] \in Message
    BY <1>5, <2>1, Element
  <2>3. e \in 0..MaxMessages
    BY <1>2, <2>2, BoundsAssumption DEF Read, Message
  <2>4. Append(heard[note], e) \in Seq(0..MaxMessages)
    BY <2>1, <2>3, Appended
  <2>5. QED
    BY <1>2, <2>1, <2>4
<1>7. SessionType'
  BY <1>1, <1>4, <1>5, <1>6 DEF SessionType
<1>8. SentInv' /\ IdInv' /\ GotInv'
  BY <1>1, <1>5, SentKept, IdKept, GotKept DEF Inv
<1>9. HeardInv' /\ HeardAsSent'
  BY <1>4, HeardMore DEF Inv
<1>10. RepliesAreOwed'
  <2>1. RepliesAreOwed
    BY DEF Inv
  <2>2. \A d \in Channels :
          Done(d, "stats-req")' = Done(d, "stats-req") /\ Done(d, "ping")' = Done(d, "ping")
    BY <1>5 DEF Notes
  <2>3. \A d \in Channels : \A r : Count(d, r)' = Count(d, r)
    BY <1>1, QuietGot
  <2>4. QED
    BY <1>3, <2>1, <2>2, <2>3, OwedKept
<1>11. LinkType' /\ CurrentInv' /\ OpeningInv'
  BY <1>1, HandledCurrent DEF Notes
<1>12. MediaType' /\ PeerInv'
  BY <1>1, <1>3, HandledPeer, QuietGot, ChannelFacts
<1>13. QED
  BY <1>1, <1>4, <1>7, <1>8, <1>9, <1>10, <1>11, <1>12, InvNext DEF TypeOK
-----------------------------------------------------------------------------
(* The peer connection and the data channels.                              *)

LEMMA SendAnswerInv ==
  ASSUME Inv, program = "running", SendAnswer
  PROVE  Inv'
<1>1. /\ peer = "offered" /\ peer' = "answered" /\ SendOnWebSocket("answer")
      /\ UNCHANGED <<compressed, sent, handled, heard, ws, socket, redirecting, opened, candidates, dcs>>
      /\ UNCHANGED link
  BY DEF SendAnswer, link
<1>2. LinkType /\ MediaType /\ TypeOK /\ CurrentInv /\ OpeningInv /\ PeerInv
  BY TypeParts DEF Inv
<1> PICK v : v = ws
  OBVIOUS
<1>3. /\ v \in Sockets /\ socket[v] = "open"
      /\ Done(v, "offer") # {} /\ got[v] # <<>>
      /\ \A w \in Sockets : ~Received(w, "answer")
  BY <1>1, WhereOffered
<1>4. "answer" \in Replies /\ "answer" \notin Hello /\ v \in Channels
  BY <1>3, ChannelFacts DEF Replies, Hello
<1>5. program' = program /\ got' = [got EXCEPT ![v] = Append(@, "answer")]
  BY <1>1, <1>2, <1>3, <1>4, SendEffect, ChannelFacts
<1>6. /\ got'[v] # <<>> /\ \A d \in Channels : d # v => got'[d] = got[d]
      /\ \A d \in Channels : Received(d, "answer")' <=> Received(d, "answer") \/ d = v
  BY <1>2, <1>4, <1>5, ReplyEffect
<1>7. /\ SessionType' /\ SentInv' /\ IdInv' /\ GotInv'
      /\ HeardInv' /\ HeardAsSent' /\ RepliesAreOwed'
  BY <1>1, <1>3, <1>4, <1>5, SentOnCurrent DEF Hello
<1>8. \A c \in Channels : \A type : Done(c, type)' = Done(c, type)
  BY <1>1, QuietDone
<1>9. CurrentInv'
  <2>1. ASSUME NEW w \in Sockets
        PROVE  /\ Done(w, "redirect")' = Done(w, "redirect")
               /\ Done(w, "switched")' = Done(w, "switched")
               /\ Finished(w) => handled'[w] = Len(sent'[w])
               /\ got'[w] # <<>> => got[w] # <<>>
    BY <1>1, <1>2, <1>3, <1>6, <1>8, ChannelFacts DEF CurrentInv
  <2>2. QED
    BY <1>1, <1>2, <2>1, CurrentKept
<1>10. OpeningInv'
  <2>1. \A w \in Sockets : got[w] = <<>> => got'[w] = <<>>
    BY <1>3, <1>6, ChannelFacts
  <2>2. QED
    BY <1>1, <1>2, <2>1, OpeningKept
<1>11. PeerInv'
  <2>1. \A w \in Sockets : /\ Received(w, "answer")' <=> w = v
                           /\ Done(w, "offer")' = Done(w, "offer")
    BY <1>3, <1>6, <1>8, ChannelFacts
  <2>2. Connected' /\ ws' = v /\ v # Nobody
    BY <1>1, <1>3, <2>1, ChannelFacts DEF Connected
  <2>3. QED
    BY <1>1, <1>3, <2>1, <2>2 DEF PeerInv
<1>12. LinkType' /\ MediaType'
  BY <1>1, <1>2, LinkTypeKept DEF MediaType
<1>13. QED
  BY <1>2, <1>5, <1>7, <1>9, <1>10, <1>11, <1>12, InvNext DEF TypeOK

LEMMA SendCandidateInv ==
  ASSUME Inv, program = "running", SendCandidate
  PROVE  Inv'
<1>1. /\ peer = "answered" /\ candidates > 0 /\ candidates' = candidates - 1
      /\ SendOnWebSocket("candidate")
      /\ UNCHANGED <<compressed, sent, handled, heard, ws, socket, redirecting, opened, peer, dcs>>
      /\ UNCHANGED link
  BY DEF SendCandidate, link
<1>2. LinkType /\ MediaType /\ TypeOK /\ CurrentInv /\ OpeningInv /\ PeerInv
  BY TypeParts DEF Inv
<1>3. candidates' \in 0..MaxCandidates
  <2>1. candidates \in 0..MaxCandidates /\ MaxCandidates \in Nat
    BY <1>2, BoundsAssumption DEF MediaType
  <2>2. QED
    BY <1>1, <2>1
<1>4. LinkType' /\ MediaType'
  BY <1>1, <1>2, <1>3, LinkTypeKept DEF MediaType
<1>5. "candidate" \in Replies /\ "candidate" \notin Hello
  BY DEF Replies, Hello
<1>6. /\ program' \in {"running", "null"}
      /\ \/ got' = got
         \/ ws \in Sockets /\ socket[ws] = "open" /\ got' = [got EXCEPT ![ws] = Append(@, "candidate")]
  BY <1>1, <1>2, <1>5, SendEffect
<1>7. CASE got' = got
  <2>1. /\ SessionType' /\ SentInv' /\ IdInv' /\ GotInv'
        /\ HeardInv' /\ HeardAsSent' /\ RepliesAreOwed'
    <3>1. UNCHANGED Session
      BY <1>1, <1>7 DEF Session
    <3>2. QED
      BY <3>1, SessionKept
  <2>2. \A c \in Channels : \A type : Done(c, type)' = Done(c, type)
    BY <1>1, QuietDone
  <2>3. CurrentInv'
    <3>1. ASSUME NEW w \in Sockets
          PROVE  /\ Done(w, "redirect")' = Done(w, "redirect")
                 /\ Done(w, "switched")' = Done(w, "switched")
                 /\ Finished(w) => handled'[w] = Len(sent'[w])
                 /\ got'[w] # <<>> => got[w] # <<>>
      BY <1>1, <1>2, <1>7, <2>2, ChannelFacts DEF CurrentInv
    <3>2. QED
      BY <1>1, <1>2, <3>1, CurrentKept
  <2>4. OpeningInv'
    BY <1>1, <1>2, <1>7, OpeningKept
  <2>5. PeerInv'
    <3>1. \A w \in Sockets : /\ Done(w, "offer")' = Done(w, "offer")
                             /\ Received(w, "answer")' <=> Received(w, "answer")
                             /\ Said(w, "switched")' <=> Said(w, "switched")
      BY <1>1, <1>7, <2>2, QuietGot, QuietSaid, ChannelFacts
    <3>2. QED
      BY <1>1, <1>2, <3>1, PeerKept
  <2>6. QED
    BY <1>4, <1>6, <2>1, <2>3, <2>4, <2>5, InvNext
<1>8. CASE ws \in Sockets /\ socket[ws] = "open" /\ got' = [got EXCEPT ![ws] = Append(@, "candidate")]
  <2> PICK v : v = ws
    OBVIOUS
  <2>1. v \in Sockets /\ v \in Channels /\ got' = [got EXCEPT ![v] = Append(@, "candidate")]
    BY <1>8, ChannelFacts
  <2>2. Received(v, "answer")
    BY <1>1, <1>2, <2>1, ChannelFacts DEF PeerInv
  <2>3. got[v] # <<>>
    BY <2>2 DEF Received
  <2>4. /\ got'[v] # <<>> /\ \A d \in Channels : d # v => got'[d] = got[d]
        /\ \A d \in Channels : Received(d, "answer")' <=> Received(d, "answer")
    BY <1>2, <1>5, <2>1, ReplyEffect
  <2>5. /\ SessionType' /\ SentInv' /\ IdInv' /\ GotInv'
        /\ HeardInv' /\ HeardAsSent' /\ RepliesAreOwed'
    BY <1>1, <1>5, <1>8, <2>2, <2>3, SentOnCurrent
  <2>6. \A c \in Channels : \A type : Done(c, type)' = Done(c, type)
    BY <1>1, QuietDone
  <2>7. CurrentInv'
    <3>1. ASSUME NEW w \in Sockets
          PROVE  /\ Done(w, "redirect")' = Done(w, "redirect")
                 /\ Done(w, "switched")' = Done(w, "switched")
                 /\ Finished(w) => handled'[w] = Len(sent'[w])
                 /\ got'[w] # <<>> => got[w] # <<>>
      BY <1>1, <1>2, <2>3, <2>4, <2>6, ChannelFacts DEF CurrentInv
    <3>2. QED
      BY <1>1, <1>2, <3>1, CurrentKept
  <2>8. OpeningInv'
    <3>1. \A w \in Sockets : got[w] = <<>> => got'[w] = <<>>
      BY <2>3, <2>4, ChannelFacts
    <3>2. QED
      BY <1>1, <1>2, <3>1, OpeningKept
  <2>9. PeerInv'
    <3>1. \A w \in Sockets : /\ Done(w, "offer")' = Done(w, "offer")
                             /\ Received(w, "answer")' <=> Received(w, "answer")
                             /\ Said(w, "switched")' <=> Said(w, "switched")
      BY <1>1, <2>4, <2>6, QuietSaid, ChannelFacts
    <3>2. QED
      BY <1>1, <1>2, <3>1, PeerKept
  <2>10. QED
    BY <1>4, <1>6, <2>5, <2>7, <2>8, <2>9, InvNext
<1>9. QED
  BY <1>6, <1>7, <1>8

\* A data channel is announced or gets its handler.
LEMMA DataChannelInv ==
  ASSUME Inv, program = "running", NEW l \in Labels, OnDataChannel(l) \/ ServerAnnounces(l)
  PROVE  Inv'
<1>1. /\ UNCHANGED link /\ UNCHANGED Session
      /\ UNCHANGED <<ws, socket, redirecting, opened, peer, candidates, sent, handled, got, program>>
      /\ \E to \in {"announced", "handled"} : dcs' = [dcs EXCEPT ![l] = to]
      /\ dcs[l] # "none" \/ Connected
  BY DEF OnDataChannel, ServerAnnounces, link, Session
<1>2. LinkType /\ MediaType /\ TypeOK /\ CurrentInv /\ OpeningInv /\ PeerInv
  BY TypeParts DEF Inv
<1>3. MediaType' /\ \A k \in Labels : dcs'[k] # "none" => dcs[k] # "none" \/ Connected
  BY <1>1, <1>2 DEF MediaType
<1>4. \A c \in Channels : \A type : Done(c, type)' = Done(c, type)
  BY <1>1, QuietDone
<1>5. CurrentInv'
  <2>1. ASSUME NEW w \in Sockets
        PROVE  /\ Done(w, "redirect")' = Done(w, "redirect")
               /\ Done(w, "switched")' = Done(w, "switched")
               /\ Finished(w) => handled'[w] = Len(sent'[w])
               /\ got'[w] # <<>> => got[w] # <<>>
    BY <1>1, <1>2, <1>4, ChannelFacts DEF CurrentInv
  <2>2. QED
    BY <1>1, <1>2, <2>1, CurrentKept
<1>6. OpeningInv'
  BY <1>1, <1>2, OpeningKept
<1>7. PeerInv'
  <2>1. \A w \in Sockets : /\ Done(w, "offer")' = Done(w, "offer")
                           /\ Received(w, "answer")' <=> Received(w, "answer")
                           /\ Said(w, "switched")' <=> Said(w, "switched")
    BY <1>1, <1>4, QuietGot, QuietSaid, ChannelFacts
  <2>2. QED
    BY <1>1, <1>2, <1>3, <2>1, PeerKept
<1>8. QED
  BY <1>1, <1>2, <1>3, <1>5, <1>6, <1>7, SessionKept, LinkTypeKept, InvNext DEF TypeOK

LEMMA NoteOnDataChannelInv ==
  ASSUME Inv, program = "running", NEW l \in Labels, NoteOnDataChannel(l)
  PROVE  Inv'
<1>1. HandleNote(l, l) /\ Handle(l, l) /\ l \in Channels /\ TypeOK
  BY ChannelFacts DEF NoteOnDataChannel, HandleNote, Inv
<1>2. handled[l] + 1 \in 1..Len(sent[l]) /\ sent[l][handled[l] + 1].type = l
  BY <1>1, HandleEffect
<1>3. l # "stats"
  BY <1>2 DEF Inv, SentInv
<1>4. QED
  BY <1>1, <1>3, HandleNoteInv DEF Labels, Notes
-----------------------------------------------------------------------------
(* The server.                                                             *)

LEMMA IdMore ==
  ASSUME Inv, NEW c \in Channels, NEW type \in Types, NEW id \in 0..MaxMessages,
         Say(c, type, id),
         (type \in Setup /\ id = 0) \/ (type \notin Setup /\ id = Cardinality(Chats) + 1)
  PROVE  IdInv'
<1> PICK n : n = Len(sent[c])
  OBVIOUS
<1> PICK total : total = Cardinality(Chats)
  OBVIOUS
<1>1. /\ sent' \in [Channels -> Seq(Message)] /\ sent \in [Channels -> Seq(Message)]
      /\ \A d \in Channels : d # c => sent'[d] = sent[d]
      /\ n \in Nat /\ Len(sent'[c]) = n + 1
      /\ \A k \in 1..n : sent'[c][k] = sent[c][k]
      /\ sent'[c][n + 1].id = id /\ sent'[c][n + 1].type = type
  <2>1. TypeOK /\ sent \in [Channels -> Seq(Message)]
    BY DEF Inv, TypeOK, Message
  <2>2. /\ sent' \in [Channels -> Seq(Message)]
        /\ \A d \in Channels : d # c => sent'[d] = sent[d]
        /\ Len(sent[c]) \in Nat /\ Len(sent'[c]) = Len(sent[c]) + 1
        /\ \A k \in 1..Len(sent[c]) : sent'[c][k] = sent[c][k]
        /\ sent'[c][Len(sent[c]) + 1] = [type |-> type, id |-> id]
    BY <2>1, SayEffect
  <2>3. QED
    BY <2>1, <2>2
<1>2. IsFiniteSet(Chats) /\ total \in Nat
  BY FS_CardinalityType DEF Inv, IdInv
<1>3. 1..(n + 1) = 1..n \cup {n + 1} /\ n + 1 \notin 1..n
  BY <1>1
<1>4. \A d \in Channels : DOMAIN sent[d] = 1..Len(sent[d]) /\ DOMAIN sent'[d] = 1..Len(sent'[d])
  BY <1>1
<1>5. Chats' = IF id = 0 THEN Chats ELSE Chats \cup {<<c, n + 1>>}
  <2>1. \A d \in Channels : d # c =>
          { k \in DOMAIN sent'[d] : sent'[d][k].id # 0 } = { k \in DOMAIN sent[d] : sent[d][k].id # 0 }
    BY <1>1
  <2>2. { k \in DOMAIN sent'[c] : sent'[c][k].id # 0 } =
          { k \in DOMAIN sent[c] : sent[c][k].id # 0 } \cup (IF id = 0 THEN {} ELSE {n + 1})
    BY <1>1, <1>3, <1>4
  <2>3. Chats = UNION { {d} \X { k \in DOMAIN sent[d] : sent[d][k].id # 0 } : d \in Channels }
    BY DEF Chats
  <2>4. Chats' = UNION { {d} \X { k \in DOMAIN sent'[d] : sent'[d][k].id # 0 } : d \in Channels }
    BY DEF Chats
  <2>5. QED
    BY <2>1, <2>2, <2>3, <2>4
<1>6. <<c, n + 1>> \notin Chats
  BY <1>1, <1>3, <1>4 DEF Chats
<1>7. /\ IsFiniteSet(Chats')
      /\ Cardinality(Chats') = IF id = 0 THEN total ELSE total + 1
  BY <1>2, <1>5, <1>6, FS_AddElement
<1>8. \A d \in Channels : \A k \in 1..Len(sent[d]) :
        /\ sent[d][k].id = 0 <=> sent[d][k].type \in Setup
        /\ sent[d][k].id <= total /\ sent[d][k].id \in Nat
        /\ sent[d][k].id # 0 =>
             \A e \in Channels : \A j \in 1..Len(sent[e]) :
               sent[e][j].id = sent[d][k].id => e = d /\ j = k
  <2>1. ASSUME NEW d \in Channels, NEW k \in 1..Len(sent[d])
        PROVE  sent[d][k].id \in Nat
    <3>1. sent[d] \in Seq(Message)
      BY <1>1
    <3>2. sent[d][k] \in Message
      BY <3>1, Element
    <3>3. QED
      BY <3>2, BoundsAssumption DEF Message
  <2>2. QED
    BY <2>1 DEF Inv, IdInv
\* An old message, or the new one.
<1>9. ASSUME NEW d \in Channels, NEW k \in 1..Len(sent'[d])
      PROVE  \/ k \in 1..Len(sent[d]) /\ sent'[d][k] = sent[d][k] /\ ~(d = c /\ k = n + 1)
             \/ d = c /\ k = n + 1
  BY <1>1, <1>3
<1>10. id # 0 => id = total + 1
  BY DEF Setup
<1>11. ASSUME NEW d \in Channels, NEW k \in 1..Len(sent'[d])
       PROVE  /\ sent'[d][k].id = 0 <=> sent'[d][k].type \in Setup
              /\ sent'[d][k].id <= Cardinality(Chats')
  <2>1. CASE k \in 1..Len(sent[d]) /\ sent'[d][k] = sent[d][k]
    BY <1>2, <1>7, <1>8, <2>1
  <2>2. CASE d = c /\ k = n + 1
    BY <1>1, <1>2, <1>7, <1>10, <2>2
  <2>3. QED
    BY <1>9, <2>1, <2>2
<1>12. ASSUME NEW d \in Channels, NEW k \in 1..Len(sent'[d]), sent'[d][k].id # 0,
              NEW e \in Channels, NEW j \in 1..Len(sent'[e]), sent'[e][j].id = sent'[d][k].id
       PROVE  e = d /\ j = k
  <2>1. CASE d = c /\ k = n + 1 /\ e = c /\ j = n + 1
    BY <2>1
  <2>2. CASE d = c /\ k = n + 1 /\ j \in 1..Len(sent[e]) /\ sent'[e][j] = sent[e][j]
    BY <1>1, <1>2, <1>8, <1>10, <1>12, <2>2
  <2>3. CASE e = c /\ j = n + 1 /\ k \in 1..Len(sent[d]) /\ sent'[d][k] = sent[d][k]
    BY <1>1, <1>2, <1>8, <1>10, <1>12, <2>3
  <2>4. CASE /\ k \in 1..Len(sent[d]) /\ sent'[d][k] = sent[d][k]
             /\ j \in 1..Len(sent[e]) /\ sent'[e][j] = sent[e][j]
    BY <1>8, <1>12, <2>4
  <2>5. QED
    BY <1>9, <2>1, <2>2, <2>3, <2>4
<1>13. QED
  BY <1>7, <1>11, <1>12 DEF IdInv

LEMMA SaidInv ==
  ASSUME Inv, program = "running",
         NEW c \in Channels, NEW type \in Types, NEW id \in 0..MaxMessages,
         Say(c, type, id),
         c \in Sockets => /\ got[c] # <<>> /\ ~Over(c)
                          /\ type \in {"redirect", "offer"} <=> sent[c] = <<>>,
         c \in Labels => type = IF c = "stats" THEN "stats-req" ELSE c,
         type = "switched" => Connected,
         (type \in Setup /\ id = 0) \/ (type \notin Setup /\ id = Cardinality(Chats) + 1)
  PROVE  Inv'
<1> PICK n : n = Len(sent[c])
  OBVIOUS
<1>1. /\ UNCHANGED link /\ UNCHANGED media
      /\ UNCHANGED <<compressed, ws, socket, redirecting, opened, peer, dcs, handled, got, heard, program>>
  BY DEF Say, link, media
<1>2. TypeOK /\ LinkType /\ SessionType /\ SentInv /\ CurrentInv /\ OpeningInv /\ PeerInv
  BY TypeParts DEF Inv
<1>3. /\ sent' \in [Channels -> Seq(Message)]
      /\ \A d \in Channels : handled[d] <= Len(sent'[d])
      /\ \A d \in Channels : d # c => sent'[d] = sent[d]
      /\ n \in Nat /\ Len(sent'[c]) = n + 1
      /\ \A k \in 1..n : sent'[c][k] = sent[c][k]
      /\ sent'[c][n + 1].type = type
      /\ \A d \in Channels : \A t : Done(d, t)' = Done(d, t)
  <2>1. /\ sent' \in [Channels -> Seq(Message)]
        /\ \A d \in Channels : handled[d] <= Len(sent'[d])
        /\ \A d \in Channels : d # c => sent'[d] = sent[d]
        /\ Len(sent[c]) \in Nat /\ Len(sent'[c]) = Len(sent[c]) + 1
        /\ \A k \in 1..Len(sent[c]) : sent'[c][k] = sent[c][k]
        /\ sent'[c][Len(sent[c]) + 1] = [type |-> type, id |-> id]
    BY <1>2, SayEffect
  <2>2. \A d \in Channels : \A t : Done(d, t)' = Done(d, t)
    BY <1>2, SayEffect
  <2>3. QED
    BY <2>1, <2>2
<1>4. SessionType'
  BY <1>1, <1>2, <1>3 DEF SessionType
<1>5. 1..(n + 1) = 1..n \cup {n + 1} /\ DOMAIN sent[c] = 1..n /\ (sent[c] = <<>> <=> n = 0)
      /\ DOMAIN sent'[c] = 1..(n + 1)
  BY <1>2, <1>3 DEF SessionType
<1>6. SentInv'
  <2>1. ASSUME NEW w \in Sockets, NEW k \in 1..Len(sent'[w])
        PROVE  /\ sent'[w][k].type \in {"redirect", "offer"} <=> k = 1
               /\ sent'[w][k].type \in {"redirect", "switched", "switched-keep"} => k = Len(sent'[w])
    <3>1. CASE w # c
      BY <1>2, <1>3, <3>1, ChannelFacts DEF SentInv
    <3>2. CASE w = c /\ k = n + 1
      BY <1>3, <1>5, <3>2
    <3>3. CASE w = c /\ k \in 1..n
      <4>1. sent'[w][k] = sent[c][k]
        BY <1>3, <3>3
      <4>2. sent[c][k].type \notin {"redirect", "switched", "switched-keep"}
        BY <1>5, <3>3 DEF Over, Said
      <4>3. QED
        BY <1>2, <3>3, <4>1, <4>2 DEF SentInv
    <3>4. QED
      BY <1>3, <1>5, <3>1, <3>2, <3>3
  <2>2. ASSUME NEW l \in Labels, NEW k \in 1..Len(sent'[l])
        PROVE  sent'[l][k].type = IF l = "stats" THEN "stats-req" ELSE l
    <3>1. CASE l # c
      BY <1>2, <1>3, <3>1, ChannelFacts DEF SentInv
    <3>2. CASE l = c /\ k = n + 1
      BY <1>3, <3>2
    <3>3. CASE l = c /\ k \in 1..n
      BY <1>2, <1>3, <3>3 DEF SentInv
    <3>4. QED
      BY <1>3, <1>5, <3>1, <3>2, <3>3
  <2>3. \A w \in Sockets : sent'[w] # <<>> => got'[w] # <<>>
    BY <1>1, <1>2, <1>3, ChannelFacts DEF SentInv
  <2>4. QED
    BY <2>1, <2>2, <2>3 DEF SentInv
<1>7. IdInv'
  BY IdMore
<1>8. GotInv'
  BY <1>1, GotKept DEF Inv
<1>9. HeardInv' /\ HeardAsSent'
  <2>1. ASSUME NEW d \in Channels, NEW t, NEW k \in Done(d, t)
        PROVE  sent'[d][k] = sent[d][k]
    <3>1. k \in 1..handled[d] /\ handled[d] \in Nat /\ handled[d] <= Len(sent[d]) /\ Len(sent[d]) \in Nat
      BY <1>2 DEF Done, SessionType
    <3>2. k \in 1..Len(sent[d])
      BY <3>1
    <3>3. QED
      BY <1>3, <3>2
  <2>2. QED
    BY <1>1, <1>3, <2>1, HeardKept DEF Inv
<1>10. RepliesAreOwed'
  <2>1. \A d \in Channels : \A r : Count(d, r)' = Count(d, r)
    BY <1>1, QuietGot
  <2>2. RepliesAreOwed
    BY DEF Inv
  <2>3. QED
    BY <1>1, <1>3, <2>1, <2>2, OwedKept
<1>11. CurrentInv'
  <2>1. c \in Sockets => ~Finished(c)
    BY <1>2, DoneWasSaid DEF Finished, Over
  <2>2. ASSUME NEW w \in Sockets
        PROVE  /\ Done(w, "redirect")' = Done(w, "redirect")
               /\ Done(w, "switched")' = Done(w, "switched")
               /\ Finished(w) => handled'[w] = Len(sent'[w])
               /\ got'[w] # <<>> => got[w] # <<>>
    BY <1>1, <1>2, <1>3, <2>1, ChannelFacts DEF CurrentInv
  <2>3. QED
    BY <1>1, <1>2, <2>2, CurrentKept
<1>12. OpeningInv'
  BY <1>1, <1>2, OpeningKept
<1>13. PeerInv'
  <2>1. ASSUME NEW w \in Sockets
        PROVE  Said(w, "switched")' => Said(w, "switched") \/ Connected
    <3>1. CASE w # c
      BY <1>3, <3>1, ChannelFacts DEF Said
    <3>2. CASE w = c
      BY <1>3, <1>5, <3>2 DEF Said
    <3>3. QED
      BY <3>1, <3>2
  <2>2. \A w \in Sockets : /\ Done(w, "offer")' = Done(w, "offer")
                           /\ Received(w, "answer")' <=> Received(w, "answer")
    BY <1>1, <1>3, QuietGot, ChannelFacts
  <2>3. QED
    BY <1>1, <1>2, <2>1, <2>2, PeerKept
<1>14. QED
  BY <1>1, <1>2, <1>4, <1>6, <1>7, <1>8, <1>9, <1>10, <1>11, <1>12, <1>13,
     LinkTypeKept, MediaTypeKept, InvNext DEF TypeOK

LEMMA ServerInv ==
  ASSUME Inv, program = "running", Server
  PROVE  Inv'
<1>1. TypeOK /\ SentInv /\ PeerInv /\ \A w \in Sockets : w \in Channels /\ w \notin Labels
  BY ChannelFacts DEF Inv
<1>2. \A c \in Channels : sent[c] \in Seq(Message)
  BY <1>1 DEF TypeOK, Message
<1>3. ASSUME NEW w \in Sockets, ServerAnswersConnect(w)
      PROVE  Inv'
  <2>1. sent[w] = <<>> /\ got[w] # <<>> /\ ~Over(w)
    BY <1>3 DEF ServerAnswersConnect, Received, Over, Said
  <2>2. PICK type \in {"redirect", "offer"} : Say(w, type, 0)
    BY <1>3 DEF ServerAnswersConnect
  <2>3. type \in Types /\ type \in Setup /\ 0 \in 0..MaxMessages /\ type # "switched"
    BY BoundsAssumption DEF Types, Setup
  <2>4. QED
    BY <1>1, <2>1, <2>2, <2>3, SaidInv
<1>4. ASSUME NEW w \in Sockets, ServerSwitches(w)
      PROVE  Inv'
  <2>1. Said(w, "offer") /\ ~Over(w) /\ \A l \in Labels : dcs[l] # "none"
    BY <1>4 DEF ServerSwitches
  <2>2. sent[w] # <<>>
    BY <2>1 DEF Said
  <2>3. got[w] # <<>> /\ Connected
    BY <1>1, <2>1, <2>2 DEF SentInv, PeerInv, Labels
  <2>4. PICK type \in {"switched", "switched-keep"} : Say(w, type, 0)
    BY <1>4 DEF ServerSwitches
  <2>5. type \in Types /\ type \in Setup /\ 0 \in 0..MaxMessages /\ type \notin {"redirect", "offer"}
    BY BoundsAssumption DEF Types, Setup
  <2>6. QED
    BY <1>1, <2>1, <2>2, <2>3, <2>4, <2>5, SaidInv
<1>5. ASSUME NEW l \in Labels, ServerAnnounces(l)
      PROVE  Inv'
  BY <1>5, DataChannelInv
<1>6. ASSUME NEW c \in Channels, ServerChats(c)
      PROVE  Inv'
  <2>1. PICK type \in Chat(c) : Say(c, type, Cardinality(Chats) + 1)
    BY <1>6 DEF ServerChats
  <2>2. /\ c \in Sockets => type \in {"ping", "stats-req", "notify", "push"}
        /\ c \in Labels => type = IF c = "stats" THEN "stats-req" ELSE c
    BY <1>1 DEF Chat, Notes, Labels
  <2>3. type \in {"ping", "stats-req", "notify", "push"}
    BY <2>2 DEF Labels, Channels
  <2>4. type \in Types /\ type \notin Setup /\ type \notin {"redirect", "offer", "switched"}
    BY <2>3 DEF Types, Setup, Notes
  <2>5. Cardinality(Chats) + 1 \in 0..MaxMessages
    <3>1. Cardinality(Chats) \in Nat
      BY FS_CardinalityType DEF Inv, IdInv
    <3>2. Cardinality(Chats) < MaxMessages /\ MaxMessages \in Nat
      BY <1>6, BoundsAssumption DEF ServerChats
    <3>3. QED
      BY <3>1, <3>2
  <2>6. c \in Sockets => got[c] # <<>> /\ ~Over(c) /\ sent[c] # <<>>
    <3> SUFFICES ASSUME c \in Sockets
                 PROVE  got[c] # <<>> /\ ~Over(c) /\ sent[c] # <<>>
      OBVIOUS
    <3>1. Said(c, "offer") /\ ~Over(c)
      BY <1>1, <1>6 DEF ServerChats
    <3>2. sent[c] # <<>>
      BY <3>1 DEF Said
    <3>3. QED
      BY <1>1, <3>1, <3>2 DEF SentInv
  <2>7. QED
    BY <2>1, <2>2, <2>4, <2>5, <2>6, SaidInv
<1>7. QED
  BY <1>3, <1>4, <1>5, <1>6 DEF Server
-----------------------------------------------------------------------------
(* The theorems.                                                           *)

LEMMA InitInv ==
  Init => Inv
<1> SUFFICES ASSUME Init
             PROVE  Inv
  OBVIOUS
<1>1. /\ ws = First /\ socket = [w \in Sockets |-> IF w = First THEN "open" ELSE "none"]
      /\ opened = {First} /\ redirecting = Nobody /\ peer = "none" /\ candidates = 0
      /\ dcs = [l \in Labels |-> "none"] /\ program = "running"
      /\ asked \subseteq Media /\ compressed \subseteq Labels
  BY DEF Init
<1>2. /\ sent = [c \in Channels |-> <<>>] /\ handled = [c \in Channels |-> 0]
      /\ got = [c \in Channels |-> <<>>] /\ heard = [note \in Notes |-> <<>>]
  BY DEF Init
<1>3. \A c \in Channels : /\ sent[c] = <<>> /\ handled[c] = 0 /\ got[c] = <<>>
                          /\ Len(sent[c]) = 0 /\ Len(got[c]) = 0
                          /\ DOMAIN sent[c] = {} /\ DOMAIN got[c] = {}
  BY <1>2
<1>4. \A c \in Channels : \A t : /\ Done(c, t) = {} /\ ~Said(c, t) /\ ~Received(c, t)
                                 /\ { k \in DOMAIN got[c] : got[c][k] = t } = {}
  BY <1>3 DEF Done, Said, Received
<1>5. IsFiniteSet({}) /\ Cardinality({}) = 0
  BY FS_EmptySet
<1>6. LinkType
  BY <1>1, ChannelFacts DEF LinkType
<1>7. MediaType
  BY <1>1, BoundsAssumption DEF MediaType
<1>8. SessionType
  <2>1. <<>> \in Seq(Message) /\ <<>> \in Seq(Replies) /\ <<>> \in Seq(0..MaxMessages)
    OBVIOUS
  <2>2. \A c \in Channels : handled[c] <= Len(sent[c])
    BY <1>3
  <2>3. QED
    BY <1>2, <2>1, <2>2 DEF SessionType
<1>9. SentInv /\ GotInv
  BY <1>3, ChannelFacts DEF SentInv, GotInv
<1>10. IdInv
  <2>1. Chats = {}
    BY <1>3 DEF Chats
  <2>2. QED
    BY <1>3, <1>5, <2>1 DEF IdInv
<1>11. CurrentInv
  BY <1>3, <1>4, ChannelFacts DEF CurrentInv, Finished
<1>12. OpeningInv
  BY <1>1, <1>3, ChannelFacts DEF OpeningInv
<1>13. PeerInv
  BY <1>1, <1>4, ChannelFacts DEF PeerInv
<1>14. \A note \in Notes : Notified(note) = {} /\ heard[note] = <<>> /\ Len(heard[note]) = 0
  BY <1>2, <1>4 DEF Notified
<1>15. HeardInv
  <2>1. \A note \in Notes : IsFiniteSet(Notified(note)) /\ 1..Len(heard[note]) = {}
    BY <1>5, <1>14
  <2>2. QED
    BY <2>1 DEF HeardInv
<1>16. HeardAsSent
  BY <1>4, <1>5, <1>14 DEF HeardAsSent, Notified
<1>17. RepliesAreOwed
  BY <1>4, <1>5 DEF RepliesAreOwed
<1>18. QED
  BY <1>1, <1>6, <1>7, <1>8, <1>9, <1>10, <1>11, <1>12, <1>13, <1>15, <1>16, <1>17, TypeParts DEF Inv

LEMMA StutterInv ==
  ASSUME Inv, UNCHANGED vars
  PROVE  Inv'
<1>1. /\ UNCHANGED link /\ UNCHANGED media /\ UNCHANGED <<sent, handled, got, heard, program>>
      /\ UNCHANGED <<ws, socket, redirecting, opened, peer, dcs, compressed>> /\ UNCHANGED Session
  BY DEF vars, link, media, Session
<1>2. LinkType /\ SessionType /\ TypeOK /\ CurrentInv /\ OpeningInv /\ PeerInv
  BY TypeParts DEF Inv
<1>3. LinkType' /\ MediaType' /\ SessionType' /\ program' \in {"running", "null", "unparsed"}
  BY <1>1, <1>2, LinkTypeKept, MediaTypeKept, SessionTypeKept DEF TypeOK
<1>4. SentInv' /\ IdInv' /\ GotInv'
  BY <1>1, SentKept, IdKept, GotKept DEF Inv
<1>5. \A c \in Channels : \A t : Done(c, t)' = Done(c, t)
  BY <1>1, QuietDone
<1>6. HeardInv' /\ HeardAsSent'
  BY <1>1, <1>5, HeardKept DEF Inv
<1>7. RepliesAreOwed'
  <2>1. CASE program = "running"
    <3>1. \A c \in Channels : \A r : Count(c, r)' = Count(c, r)
      BY <1>1, QuietGot
    <3>2. RepliesAreOwed
      BY DEF Inv
    <3>3. QED
      BY <1>1, <1>5, <2>1, <3>1, <3>2, OwedKept
  <2>2. CASE program # "running"
    BY <1>1, <2>2 DEF RepliesAreOwed
  <2>3. QED
    BY <2>1, <2>2
<1>8. \A w \in Sockets : /\ Done(w, "offer")' = Done(w, "offer")
                         /\ Done(w, "redirect")' = Done(w, "redirect")
                         /\ Done(w, "switched")' = Done(w, "switched")
                         /\ Received(w, "answer")' <=> Received(w, "answer")
                         /\ Said(w, "switched")' <=> Said(w, "switched")
                         /\ Finished(w) => handled'[w] = Len(sent'[w])
  BY <1>1, <1>2, <1>5, QuietGot, QuietSaid, ChannelFacts DEF CurrentInv
<1>9. CurrentInv' /\ OpeningInv' /\ PeerInv'
  BY <1>1, <1>2, <1>8, CurrentKept, OpeningKept, PeerKept
<1>10. QED
  BY <1>3, <1>4, <1>6, <1>7, <1>9, InvNext

LEMMA NextInv ==
  Inv /\ [Next]_vars => Inv'
<1> SUFFICES ASSUME Inv, [Next]_vars
             PROVE  Inv'
  OBVIOUS
<1>1. ASSUME program = "running", NEW w \in Sockets, OnMessage(w)
      PROVE  Inv'
  BY <1>1, HandleRedirectInv, HandleOfferInv, HandleRequestInv, HandleNoteInv,
     HandleSwitchedInv, HandleSwitchedKeepInv, ChannelFacts DEF OnMessage
<1>2. ASSUME program = "running", NEW l \in Labels, DataChannel(l)
      PROVE  Inv'
  BY <1>2, DataChannelInv, StatsOnDataChannelInv, NoteOnDataChannelInv DEF DataChannel
<1>3. CASE Next
  BY <1>1, <1>2, <1>3, HandshakeInv, OnOpenInv, RedirectedInv, SendAnswerInv, SendCandidateInv,
     ServerInv DEF Next, PeerConnection
<1>4. CASE UNCHANGED vars
  BY <1>4, StutterInv
<1>5. QED
  BY <1>3, <1>4

\* The invariant that the rest follows from.
THEOREM Invariance == Spec => []Inv
  BY InitInv, NextInv, PTL DEF Spec

\* What the server gets of the set-up is in order on every WebSocket.
LEMMA ProtocolHolds ==
  ASSUME Inv
  PROVE  Protocol
<1> SUFFICES ASSUME NEW w \in Sockets
             PROVE  /\ { k \in DOMAIN got[w] :
                           got[w][k] = IF w = First THEN "connect-redirect" ELSE "connect" } = {}
                    /\ got[w] # <<>> =>
                         { k \in DOMAIN got[w] : got[w][k] = "connect" }
                           \cup { k \in DOMAIN got[w] : got[w][k] = "connect-redirect" } = {1}
                    /\ Cardinality({ k \in DOMAIN got[w] : got[w][k] = "answer" }) <= 1
                    /\ { k \in DOMAIN got[w] : got[w][k] = "answer" } # {} => Said(w, "offer")
                    /\ \A k \in { j \in DOMAIN got[w] : got[w][j] = "candidate" } :
                         \E a \in { j \in DOMAIN got[w] : got[w][j] = "answer" } : a < k
  BY DEF Protocol
<1>1. TypeOK /\ GotInv /\ w \in Channels
  BY ChannelFacts DEF Inv
<1>2. DOMAIN got[w] = 1..Len(got[w]) /\ Len(got[w]) \in Nat /\ (got[w] # <<>> => Len(got[w]) > 0)
  BY <1>1 DEF TypeOK
<1>3. { k \in DOMAIN got[w] : got[w][k] = IF w = First THEN "connect-redirect" ELSE "connect" } = {}
  BY <1>1, <1>2 DEF GotInv
<1>4. \A k \in 1..Len(got[w]) : got[w][k] \in {"connect", "connect-redirect"} <=> k = 1
  BY <1>1 DEF GotInv, Hello
<1>5. got[w] # <<>> => { k \in DOMAIN got[w] : got[w][k] = "connect" }
                         \cup { k \in DOMAIN got[w] : got[w][k] = "connect-redirect" } = {1}
  BY <1>2, <1>4
<1>6. Cardinality({ k \in DOMAIN got[w] : got[w][k] = "answer" }) <= 1
  <2> DEFINE S == { k \in DOMAIN got[w] : got[w][k] = "answer" }
  <2>1. CASE S = {}
    BY <2>1, FS_EmptySet
  <2>2. CASE S # {}
    <3>1. PICK k : k \in S
      BY <2>2
    <3>2. S = {k}
      BY <1>1, <1>2, <3>1 DEF GotInv
    <3>3. QED
      BY <3>2, FS_Singleton
  <2>3. QED
    BY <2>1, <2>2
<1>7. { k \in DOMAIN got[w] : got[w][k] = "answer" } # {} => Said(w, "offer")
  <2> SUFFICES ASSUME { k \in DOMAIN got[w] : got[w][k] = "answer" } # {}
               PROVE  Said(w, "offer")
    OBVIOUS
  <2>1. Received(w, "answer")
    BY DEF Received
  <2>2. Done(w, "offer") # {}
    BY <2>1 DEF Inv, PeerInv
  <2>3. QED
    BY <1>1, <2>2, DoneWasSaid
<1>8. \A k \in { j \in DOMAIN got[w] : got[w][j] = "candidate" } :
        \E a \in { j \in DOMAIN got[w] : got[w][j] = "answer" } : a < k
  BY <1>1, <1>2 DEF GotInv
<1>9. QED
  BY <1>3, <1>5, <1>6, <1>7, <1>8

\* The server sees a well-formed session in which every request is answered once, where
\* it was asked.
THEOREM SessionInvariance == Spec => []WellFormedSession
<1>1. Inv => WellFormedSession
  BY ProtocolHolds DEF Inv, WellFormedSession
<1>2. QED
  BY <1>1, Invariance, PTL

\* The user hears every note once, by the callback of its kind, and those of one channel
\* in the order they were sent.
THEOREM HeardInvariance == Spec => []HeardAsSent
<1>1. Inv => HeardAsSent
  BY DEF Inv
<1>2. QED
  BY <1>1, Invariance, PTL

\* Once "switched" has been handled no WebSocket gets anything any more.
THEOREM Silence == Spec => SilentAfterSwitch
<1>1. ASSUME Inv, Next, \E w \in Sockets : Done(w, "switched") # {}
      PROVE  \A w \in Sockets : got'[w] = got[w]
  <2>1. ws = Nobody
    BY <1>1 DEF Inv, CurrentInv
  <2>2. \A reply : SendOnWebSocket(reply) => got' = got
    BY <2>1 DEF SendOnWebSocket
  <2>3. CASE \E w \in Sockets : Handshake(w) \/ OnOpen(w)
    BY <2>2, <2>3 DEF Handshake, OnOpen
  <2>4. CASE \E w \in Sockets : OnMessage(w)
    <3>1. PICK w \in Sockets : OnMessage(w)
      BY <2>4
    <3>2. CASE HandleRedirect(w) \/ HandleSwitched(w) \/ HandleSwitchedKeep(w) \/ HandleOffer(w)
      BY <3>2 DEF HandleRedirect, HandleSwitched, HandleSwitchedKeep, HandleOffer
    <3>3. CASE HandlePing(w) \/ HandleStatsReq(w)
      BY <2>2, <3>3 DEF HandlePing, HandleStatsReq
    <3>4. CASE \E type \in Notes : HandleNote(w, type)
      BY <3>4 DEF HandleNote
    <3>5. QED
      BY <3>1, <3>2, <3>3, <3>4 DEF OnMessage
  <2>5. CASE Redirected
    BY <2>5 DEF Redirected
  <2>6. CASE PeerConnection
    BY <2>2, <2>6 DEF PeerConnection, SendAnswer, SendCandidate
  <2>7. CASE \E l \in Labels : DataChannel(l)
    <3>1. PICK l \in Labels : DataChannel(l)
      BY <2>7
    <3>2. CASE OnDataChannel(l) \/ NoteOnDataChannel(l)
      BY <3>2 DEF OnDataChannel, NoteOnDataChannel, HandleNote
    <3>3. CASE StatsOnDataChannel
      <4>1. got \in [Channels -> Seq(Replies)] /\ \A w \in Sockets : w \in Channels /\ w # "stats"
        BY <1>1, SocketsAssumption, ChannelFacts DEF Inv, TypeOK
      <4>2. got' = got \/ got' = [got EXCEPT !["stats"] = Append(@, "stats")]
        BY <3>3 DEF StatsOnDataChannel
      <4>3. QED
        BY <4>1, <4>2
    <3>4. QED
      BY <3>1, <3>2, <3>3 DEF DataChannel
  <2>8. CASE Server
    BY <2>8 DEF Server, ServerAnswersConnect, ServerSwitches, ServerAnnounces, ServerChats, Say
  <2>9. QED
    BY <1>1, <2>3, <2>4, <2>5, <2>6, <2>7, <2>8 DEF Next
<1>2. Inv /\ [Next]_vars =>
        [(\E w \in Sockets : Done(w, "switched") # {}) => \A w \in Sockets : got'[w] = got[w]]_vars
  BY <1>1
<1>3. QED
  BY <1>2, Invariance, PTL DEF Spec, SilentAfterSwitch

\* Only the callback for a local candidate can find ws_ empty.
THEOREM LateCandidates == Spec => OnlyCandidatesComeLate
<1>1. ASSUME Inv, Next, program' = "null"
      PROVE  candidates' < candidates
  <2>1. program = "running"
    BY <1>1 DEF Next
  <2>2. \A reply : ws # Nobody /\ SendOnWebSocket(reply) => program' = program
    BY DEF SendOnWebSocket
  <2>3. CASE \E w \in Sockets : Handshake(w) \/ OnOpen(w)
    <3>1. PICK w \in Sockets : Handshake(w) \/ OnOpen(w)
      BY <2>3
    <3>2. CASE Handshake(w)
      BY <1>1, <2>1, <3>2 DEF Handshake
    <3>3. CASE OnOpen(w)
      <4>1. ws # Nobody
        BY <1>1, <3>3, WhereOpened, ChannelFacts DEF OnOpen
      <4>2. QED
        BY <1>1, <2>1, <2>2, <3>3, <4>1 DEF OnOpen
    <3>4. QED
      BY <3>1, <3>2, <3>3
  <2>4. CASE \E w \in Sockets : OnMessage(w)
    <3>1. PICK w \in Sockets : OnMessage(w)
      BY <2>4
    <3>2. CASE HandleRedirect(w) \/ HandleSwitched(w) \/ HandleSwitchedKeep(w) \/ HandleOffer(w)
      BY <1>1, <2>1, <3>2 DEF HandleRedirect, HandleSwitched, HandleSwitchedKeep, HandleOffer
    <3>3. CASE HandlePing(w) \/ HandleStatsReq(w)
      <4>1. ws # Nobody
        BY <1>1, <3>3, Talking, ChannelFacts DEF HandlePing, HandleStatsReq, Handle
      <4>2. QED
        BY <1>1, <2>1, <2>2, <3>3, <4>1 DEF HandlePing, HandleStatsReq
    <3>4. CASE \E type \in Notes : HandleNote(w, type)
      BY <1>1, <2>1, <3>4 DEF HandleNote
    <3>5. QED
      BY <3>1, <3>2, <3>3, <3>4 DEF OnMessage
  <2>5. CASE Redirected
    BY <1>1, <2>1, <2>5 DEF Redirected
  <2>6. CASE SendAnswer
    <3>1. ws # Nobody
      BY <1>1, <2>6, WhereOffered, ChannelFacts DEF SendAnswer
    <3>2. QED
      BY <1>1, <2>1, <2>2, <2>6, <3>1 DEF SendAnswer
  <2>7. CASE SendCandidate
    <3>1. candidates' = candidates - 1 /\ candidates \in 0..MaxCandidates
      BY <1>1, <2>7 DEF SendCandidate, Inv, TypeOK
    <3>2. QED
      BY <3>1, BoundsAssumption
  <2>8. CASE \E l \in Labels : DataChannel(l)
    BY <1>1, <2>1, <2>8 DEF DataChannel, OnDataChannel, NoteOnDataChannel, HandleNote, StatsOnDataChannel
  <2>9. CASE Server
    BY <1>1, <2>1, <2>9 DEF Server, ServerAnswersConnect, ServerSwitches, ServerAnnounces, ServerChats, Say
  <2>10. QED
    BY <1>1, <2>3, <2>4, <2>5, <2>6, <2>7, <2>8, <2>9 DEF Next, PeerConnection
<1>2. Inv /\ [Next]_vars => [program' = "null" => candidates' < candidates]_vars
  BY <1>1
<1>3. QED
  BY <1>2, Invariance, PTL DEF Spec, OnlyCandidatesComeLate
=============================================================================
