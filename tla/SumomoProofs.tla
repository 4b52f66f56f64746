----------------------------- MODULE SumomoProofs -----------------------------
(***************************************************************************)
(* Proofs about Sumomo, for any rids, data channels, addresses and bounds.    *)
(* What is proved of the handle table in CPointerProofs is used for the table *)
(* of the sample; Inv is inductive, and the safety properties of Sumomo follow. *)
(***************************************************************************)
EXTENDS Sumomo, FiniteSetTheorems, TLAPS

Table == INSTANCE CPointerProofs

-----------------------------------------------------------------------------
(* The tracks.                                                             *)

\* The handler of the offer has made what it goes past ...
OfferInv ==
  /\ offer = "video added" => client = {"video"}
  /\ offer \in {"audio added", "answered"} => client = T!Media
  /\ offer \in {"none", "received"} => client = {} /\ senders = {}
  /\ offer \in {"video added", "audio added", "answered"} => senders = T!Senders
  /\ transport => offer = "answered"

\* ... and tracks open one after the other behind it, each for its on_track.
OpeningInv ==
  /\ opening # T!NoTrack \/ opened # {} => transport
  /\ calling <=> opening # T!NoTrack
  /\ calling <=> track # "none"
  /\ opening \notin opened

\* The track has been, or is being, handed to on_track.
Handed(m) == opening = m \/ device[m] # "none" \/ held[m] # NULL

\* What has been handed to on_track has its encoder.
HandedInv ==
  /\ \A m \in T!Media : device[m] # "none" \/ held[m] # NULL => m \in opened
  /\ Handed("video") /\ codec = "known" => videoEncoder = "made"
  /\ Handed("audio") => opusEncoder = "ready"

TypeInv ==
  /\ T!TracksTypeOK
  /\ program \in {"running", "lost handle"} \cup T!Ends
  /\ device \in [T!Media -> {"none", "idle", "running"}]

MediaInv == TypeInv /\ OfferInv /\ OpeningInv /\ HandedInv /\ MediaFindTheirWay

-----------------------------------------------------------------------------
(* The handles.                                                            *)

Ids == 1..lastId

\* The program holds handles that were given out, each of the object that its place
\* is for.
StateInv ==
  /\ held \in [Fields -> 0..lastId]
  /\ main \in {"create", "connect", "sleep", "send", "sending"}
  /\ held["signaling"] = NULL <=> main = "create"
  /\ main \in {"send", "sending"} => held["channel"] # NULL
  /\ held["signaling"] # NULL => handles[held["signaling"]].obj = "signaling"
  /\ \A m \in T!Media : held[m] # NULL => handles[held[m]].obj = m
  /\ held["channel"] # NULL => handles[held["channel"]].obj \in UserChannels

\* on_track has the handle of its track, which the library keeps, and of the clone.
TrackInv ==
  /\ {trackId, descId} \subseteq 0..lastId
  /\ track \in {"none", "clone", "release", "share"}
  /\ trackId # NULL <=> track # "none"
  /\ descId # NULL <=> track = "release"
  /\ trackId # NULL => handles[trackId].obj = opening
  /\ descId # NULL => handles[descId].obj = DescriptionOf(opening)
  /\ client \subseteq library

\* on_data_channel has a handle that nobody has had before it.
ChannelInv ==
  /\ channelId \in 0..lastId
  /\ channel \in {"none", "ref", "replace", "share", "return"}
  /\ IF channel = "none" THEN announced = NoObject
                         ELSE announced \in UserChannels \cap library
  /\ channelId # NULL <=> channel \in {"replace", "share"}
  /\ channelId # NULL =>
       /\ handles[channelId].obj = announced
       /\ channelId \notin retired
       /\ held["channel"] # NULL => handles[held["channel"]].obj # announced
  /\ channel = "ref" => \A id \in Ids : handles[id].obj # announced
  /\ held["channel"] # NULL => (held["channel"] \in retired <=> channel = "share")

\* Only clones and data channels are ever given back.
RetiredInv ==
  \A id \in retired : handles[id].obj \notin {"signaling"} \cup T!Media

\* The program has that handle to release.
Owns(id) ==
  \/ id = descId
  \/ id \notin retired /\ \E f \in Fields : held[f] = id

OwedInv == \A id \in Ids : handles[id].owed = IF Owns(id) THEN 1 ELSE 0

\* A call finds nothing only while the channel is replaced.
LateInv ==
  program = "lost handle" => main = "send" /\ channel = "share"

\* The server answers who has connected.
ConnectedInv == offer # "none" => main \notin {"create", "connect"}

HandlesInv ==
  /\ lastId <= MaxHandles /\ ConnectedInv
  /\ StateInv /\ TrackInv /\ ChannelInv /\ RetiredInv /\ OwedInv /\ LateInv
-----------------------------------------------------------------------------
(* The handle table.                                                       *)

LEMMA TableAssumptions ==
  /\ TypeOf \in [Objects -> Types]
  /\ NoAddr \notin Addrs
  /\ NoObject \notin Objects
  /\ MaxHandles \in Nat /\ MaxShares \in Nat
<1>1. \A o \in Objects : TypeOf[o] \in Types
  BY SumomoAssumption
<1>2. QED
  BY <1>1, SumomoAssumption

\* The objects of the sample are told apart, and each has its type.
LEMMA TheObjects ==
  /\ Others \subseteq Objects /\ UserChannels \subseteq Objects
  /\ UserChannels \cap Others = {}
  /\ TypeOf["signaling"] = "Signaling"
  /\ \A m \in T!Media : /\ m \in Objects /\ TypeOf[m] = "Track"
                        /\ DescriptionOf(m) \in Objects
                        /\ TypeOf[DescriptionOf(m)] = "Media"
  /\ \A o \in UserChannels : TypeOf[o] = "DataChannel"
<1>1. UserChannels \cap Others = {} /\ Objects = UserChannels \cup Others
  BY SumomoAssumption
<1>2. \A o \in Objects :
        TypeOf[o] = CASE o = "signaling" -> "Signaling"
                      [] o \in {"video", "audio"} -> "Track"
                      [] o \in UserChannels -> "DataChannel"
                      [] OTHER -> "Media"
  BY SumomoAssumption
<1>3. /\ "signaling" \in Objects /\ "video" \in Objects /\ "audio" \in Objects
      /\ "video description" \in Objects /\ "audio description" \in Objects
  BY <1>1 DEF Others
<1>4. /\ TypeOf["signaling"] = "Signaling"
      /\ TypeOf["video"] = "Track" /\ TypeOf["audio"] = "Track"
      /\ TypeOf["video description"] = "Media" /\ TypeOf["audio description"] = "Media"
  BY <1>1, <1>2, <1>3 DEF Others
<1>5. \A o \in UserChannels : TypeOf[o] = "DataChannel"
  <2> TAKE o \in UserChannels
  <2>1. o \in Objects /\ o # "signaling" /\ o \notin {"video", "audio"}
    BY <1>1 DEF Others
  <2>2. QED
    BY <1>2, <2>1
<1>6. QED
  BY <1>1, <1>3, <1>4, <1>5 DEF DescriptionOf, T!Media

\* Both instances of the table have the same operators.
LEMMA SameAlive ==
  /\ H!Registered = Table!Registered
  /\ \A o : H!Alive(o) <=> Table!Alive(o)
  /\ \A o : H!Pinned(o) <=> Table!Pinned(o)
  /\ \A a : H!Free(a) <=> Table!Free(a)
  /\ \A o : H!Fresh(o) <=> Table!Fresh(o)
  /\ \A id : H!Usable(id) <=> Table!Usable(id)
  /\ \A id : H!TypeOfHandle(id) = Table!TypeOfHandle(id)
  /\ \A type, id : H!Found(type, id) <=> Table!Found(type, id)
  /\ \A type, id : H!Throws(type, id) <=> Table!Throws(type, id)
  BY DEF H!Registered, H!Alive, H!AliveWith, H!StrongIn, H!Pinned, H!Free, H!Fresh, H!Usable,
     H!TypeOfHandle, H!Found, H!Throws,
     Table!Registered, Table!Alive, Table!AliveWith, Table!StrongIn, Table!Pinned, Table!Free,
     Table!Fresh, Table!Usable, Table!TypeOfHandle, Table!Found, Table!Throws

LEMMA SameMaps ==
  ASSUME NEW map, NEW key, NEW value, NEW keys
  PROVE  /\ H!Put(map, key, value) = Put(map, key, value)
         /\ Table!Put(map, key, value) = Put(map, key, value)
         /\ H!Erase(map, keys) = Table!Erase(map, keys)
  BY DEF Put, H!Put, Table!Put, H!Erase, Table!Erase, H!Restrict, Table!Restrict

LEMMA SameGet ==
  ASSUME NEW type, NEW id
  PROVE  H!Get(type, id) = Table!Get(type, id)
  BY SameAlive DEF H!Get, Table!Get, H!EntryOf, Table!EntryOf

LEMMA SameMaking ==
  ASSUME NEW o, NEW a
  PROVE  /\ H!Create(o, a) <=> Table!Create(o, a)
         /\ H!Ref(o) <=> Table!Ref(o)
         /\ H!LibraryCreates(o, a) <=> Table!LibraryCreates(o, a)
         /\ H!LibraryDrops(o) <=> Table!LibraryDrops(o)
<1>1. \A owed : H!Register(o, a, owed) <=> Table!Register(o, a, owed)
  BY SameMaps DEF H!Register, Table!Register, H!Registration, Table!Registration
<1>2. H!Add(o, a) <=> Table!Add(o, a)
  BY <1>1, SameAlive DEF H!Add, Table!Add, H!AddAgain, Table!AddAgain
<1>3. H!Create(o, a) <=> Table!Create(o, a)
  BY <1>2, SameAlive DEF H!Create, Table!Create
<1>4. H!Ref(o) <=> Table!Ref(o)
  BY SameAlive, SameMaps
  DEF H!Ref, Table!Ref, H!Register, Table!Register, H!Registration, Table!Registration
<1>5. /\ H!LibraryCreates(o, a) <=> Table!LibraryCreates(o, a)
      /\ H!LibraryDrops(o) <=> Table!LibraryDrops(o)
  BY SameAlive DEF H!LibraryCreates, Table!LibraryCreates, H!LibraryDrops, Table!LibraryDrops
<1>6. QED
  BY <1>3, <1>4, <1>5

LEMMA SameUsing ==
  ASSUME NEW id, NEW t
  PROVE  /\ H!Share(id) <=> Table!Share(id)
         /\ H!Release(id) <=> Table!Release(id)
         /\ H!UseBegins(t, id) <=> Table!UseBegins(t, id)
         /\ H!UseEnds(t) <=> Table!UseEnds(t)
<1>1. H!Share(id) <=> Table!Share(id)
  BY SameAlive, SameGet DEF H!Share, Table!Share
<1>2. H!Release(id) <=> Table!Release(id)
  <2>1. \A a : H!Decremented(a) = Table!Decremented(a)
    BY SameMaps DEF H!Decremented, Table!Decremented
  <2>2. \A map : H!Expired(map) = Table!Expired(map)
    BY DEF H!Expired, Table!Expired, H!AliveWith, Table!AliveWith, H!StrongIn, Table!StrongIn
  <2>3. \A map : H!Forgotten(map) = Table!Forgotten(map)
    BY <2>2 DEF H!Forgotten, Table!Forgotten
  <2>4. QED
    BY <2>1, <2>2, <2>3, SameAlive, SameMaps DEF H!Release, Table!Release
<1>3. H!UseBegins(t, id) <=> Table!UseBegins(t, id)
  BY SameAlive, SameGet DEF H!UseBegins, Table!UseBegins
<1>4. H!UseEnds(t) <=> Table!UseEnds(t)
  BY DEF H!UseEnds, Table!UseEnds
<1>5. QED
  BY <1>1, <1>2, <1>3, <1>4

\* What the table's invariant says of the handles.
LEMMA TableFacts ==
  ASSUME Table!Inv
  PROVE  /\ lastId \in Nat
         /\ DOMAIN handles = Ids
         /\ \A id \in Ids : /\ handles[id] = [obj |-> handles[id].obj, owed |-> handles[id].owed]
                            /\ handles[id].obj \in Objects /\ handles[id].owed \in Nat
                            /\ ~H!Fresh(handles[id].obj)
         /\ retired \subseteq Ids /\ library \subseteq Objects
         /\ address \in [Objects -> Addrs \cup {NoAddr}]
         /\ \A id \in Ids : handles[id].owed > 0 =>
              id \notin retired /\ H!Alive(handles[id].obj)
<1>1. Table!TypeOK
  BY DEF Table!Inv
<1>2. ASSUME NEW id \in Ids
      PROVE  /\ handles[id] = [obj |-> handles[id].obj, owed |-> handles[id].owed]
             /\ handles[id].obj \in Objects /\ handles[id].owed \in Nat
  BY <1>1 DEF Table!TypeOK, Table!Records, Ids
<1>3. ASSUME NEW id \in Ids PROVE ~H!Fresh(handles[id].obj)
  BY DEF Ids, H!Fresh, Table!Inv, Table!Allocated
<1>4. ASSUME NEW id \in Ids, handles[id].owed > 0
      PROVE  id \notin retired /\ H!Alive(handles[id].obj)
  <2>1. PICK a \in Table!Registered : refMap[a].id = id
    BY <1>4 DEF Ids, Table!Inv, Table!HandlesBacked
  <2>2. /\ id \notin retired /\ refMap[a].wp = handles[id].obj
        /\ refMap[a].count = handles[id].owed
        /\ refMap[a].ptr = IF refMap[a].count > 0 THEN refMap[a].wp ELSE NoObject
    BY <2>1 DEF Table!Inv, Table!EntriesBacked
  <2>3. refMap[a].ptr = handles[id].obj
    BY <1>4, <2>2
  <2>4. Table!Alive(handles[id].obj)
    BY <2>1, <2>3 DEF Table!Alive, Table!AliveWith, Table!StrongIn, Table!Registered
  <2>5. QED
    BY <2>2, <2>4, SameAlive
<1>5. /\ lastId \in Nat /\ DOMAIN handles = Ids
      /\ retired \subseteq Ids /\ library \subseteq Objects
      /\ address \in [Objects -> Addrs \cup {NoAddr}]
  BY <1>1 DEF Table!TypeOK, Ids
<1>6. QED
  BY <1>2, <1>3, <1>4, <1>5

\* A handle of a living object that has not been given back leads to it.
LEMMA Reaches ==
  ASSUME Table!Inv, NEW id \in Ids, id \notin retired, H!Alive(handles[id].obj)
  PROVE  /\ H!Usable(id)
         /\ Reached(TypeOf[handles[id].obj], id) = handles[id].obj
         /\ handles[id].obj # NoObject
<1>1. DOMAIN handles = Ids /\ handles[id].obj \in Objects
  BY TableFacts
<1>2. H!Usable(id) /\ Table!Usable(id)
  BY <1>1, SameAlive DEF H!Usable
<1>3. Table!Get(Table!TypeOfHandle(id), id) = handles[id].obj
  BY <1>2, Table!UsableEntry, TableAssumptions DEF Ids
<1>4. QED
  BY <1>1, <1>2, <1>3, SameGet, TableAssumptions DEF Reached, Table!TypeOfHandle

LEMMA ReachesOwned ==
  ASSUME Table!Inv, NEW id \in Ids, handles[id].owed > 0
  PROVE  /\ H!Usable(id)
         /\ Reached(TypeOf[handles[id].obj], id) = handles[id].obj
         /\ handles[id].obj # NoObject
  BY TableFacts, Reaches

\* One handle more, of o, with this many references.
NewHandle(o, owed) ==
  /\ lastId < MaxHandles /\ lastId' = lastId + 1
  /\ handles'[lastId + 1].obj = o /\ handles'[lastId + 1].owed = owed
  /\ \A id \in Ids : handles'[id] = handles[id]

\* A new handle is put into the table.
LEMMA Puts ==
  ASSUME NEW o, NEW owed, lastId \in Nat, DOMAIN handles = Ids, lastId < MaxHandles,
         lastId' = lastId + 1,
         handles' = Put(handles, lastId + 1, [obj |-> o, owed |-> owed])
  PROVE  NewHandle(o, owed)
  BY DEF NewHandle, Put, Ids

LEMMA Creates ==
  ASSUME Table!Inv, NEW o \in Objects, NEW a \in Addrs, H!Create(o, a)
  PROVE  /\ Table!Inv' /\ NewHandle(o, 1) /\ UNCHANGED <<library, retired, using>>
         /\ address' = [address EXCEPT ![o] = a]
<1>1. Table!Inv'
  BY SameMaking, Table!CreateInv, TableAssumptions
<1>2. a \notin H!Registered
  <2> SUFFICES ASSUME a \in H!Registered PROVE FALSE
    OBVIOUS
  <2>1. refMap[a].wp \in Objects /\ address[refMap[a].wp] = a
    BY DEF Table!Inv, Table!TypeOK, Table!EntriesBacked, Table!Entries, H!Registered,
           Table!Registered
  <2>2. H!Pinned(refMap[a].wp)
    BY DEF H!Pinned
  <2>3. QED
    BY <2>1, <2>2 DEF H!Create, H!Free
<1>3. H!Register(o, a, 1) /\ UNCHANGED <<library, retired, using>>
  BY <1>2 DEF H!Create, H!Add
<1>4. NewHandle(o, 1)
  BY <1>3, TableFacts, Puts, SameMaps DEF H!Register
<1>5. QED
  BY <1>1, <1>3, <1>4 DEF H!Create

\* A callback is given a handle that owns nothing, a new one if the object has none.
LEMMA Refs ==
  ASSUME Table!Inv, NEW o \in library, RefTo(o)
  PROVE  /\ Table!Inv' /\ UNCHANGED <<library, retired, using, address>>
         /\ \/ UNCHANGED <<handles, lastId>> /\ RefId(o) \in Ids /\ handles[RefId(o)].obj = o
            \/ NewHandle(o, 0) /\ RefId(o) = lastId + 1
<1>1. o \in Objects
  BY TableFacts
<1>2. CASE address[o] \in H!Registered
  <2>1. UNCHANGED table /\ RefId(o) = refMap[address[o]].id
    BY <1>2 DEF RefTo, RefId
  <2> DEFINE a == address[o]
  <2>2. /\ refMap[a].id \in Ids /\ handles[refMap[a].id].obj = refMap[a].wp
        /\ address[refMap[a].wp] = a /\ refMap[a].wp \in Objects
    BY <1>2 DEF Ids, Table!Inv, Table!EntriesBacked, Table!TypeOK, Table!Entries,
                H!Registered, Table!Registered
  <2>3. Table!Pinned(o) /\ Table!Pinned(refMap[a].wp) /\ address[o] # NoAddr
    BY <1>1, <1>2, <2>2, TableAssumptions
    DEF Table!Pinned, Table!Alive, Table!AliveWith, H!Registered, Table!Registered,
        Table!Inv, Table!TypeOK
  <2>4. refMap[a].wp = o
    BY <1>1, <2>2, <2>3 DEF Table!Inv, Table!OneAtAnAddress
  <2>5. Table!Inv'
    BY <2>1, Table!NextInv, TableAssumptions DEF table, Table!vars
  <2>6. QED
    BY <2>1, <2>2, <2>4, <2>5 DEF table
<1>3. CASE address[o] \notin H!Registered
  <2>1. H!Ref(o) /\ RefId(o) = lastId + 1
    BY <1>3 DEF RefTo, RefId
  <2>2. Table!Inv'
    BY <1>1, <2>1, SameMaking, Table!RefInv, TableAssumptions
  <2>3. NewHandle(o, 0)
    BY <2>1, TableFacts, Puts, SameMaps DEF H!Ref, H!Register
  <2>4. QED
    BY <2>1, <2>2, <2>3 DEF H!Ref
<1>4. QED
  BY <1>2, <1>3

LEMMA Shares ==
  ASSUME Table!Inv, NEW id, H!Share(id)
  PROVE  /\ Table!Inv' /\ id \in Ids /\ id \notin retired
         /\ handles' = [handles EXCEPT ![id].owed = @ + 1]
         /\ UNCHANGED <<lastId, library, retired, using, address>>
<1>1. id \in Ids /\ id \notin retired
  <2>1. id \in Ids /\ Table!Get(Table!TypeOfHandle(id), id) # NoObject
    BY TableFacts, SameAlive, SameGet DEF H!Share, H!Usable
  <2>2. QED
    BY <2>1, Table!RetiredLeadsNowhere, TableAssumptions
<1>2. Table!Inv'
  BY <1>1, SameUsing, Table!ShareInv, TableAssumptions DEF Ids
<1>3. QED
  BY <1>1, <1>2 DEF H!Share

LEMMA Releases ==
  ASSUME Table!Inv, NEW id, H!Release(id)
  PROVE  /\ Table!Inv' /\ id \in Ids /\ handles[id].owed > 0
         /\ handles' = [handles EXCEPT ![id].owed = @ - 1]
         /\ retired' = IF handles[id].owed = 1 THEN retired \cup {id} ELSE retired
         /\ UNCHANGED <<lastId, library, using, address>>
<1>1. id \in Ids
  BY TableFacts DEF H!Release
<1>2. Table!Inv'
  BY <1>1, SameUsing, Table!ReleaseInv, TableAssumptions DEF Ids
<1>3. QED
  BY <1>1, <1>2 DEF H!Release

LEMMA LibraryMakes ==
  ASSUME Table!Inv, NEW o \in Objects, NEW a \in Addrs, H!LibraryCreates(o, a)
  PROVE  /\ Table!Inv' /\ library' = library \cup {o} /\ H!Fresh(o)
         /\ UNCHANGED <<handles, lastId, retired, using>>
<1>1. Table!Inv'
  BY SameMaking, Table!LibraryCreatesInv, TableAssumptions
<1>2. QED
  BY <1>1 DEF H!LibraryCreates

LEMMA LibraryLetsGo ==
  ASSUME Table!Inv, NEW o, H!LibraryDrops(o)
  PROVE  /\ Table!Inv' /\ library' = library \ {o}
         /\ UNCHANGED <<handles, lastId, retired, using, address>>
<1>1. o \in Objects
  BY TableFacts DEF H!LibraryDrops
<1>2. Table!Inv'
  BY <1>1, SameMaking, Table!LibraryDropsInv, TableAssumptions
<1>3. QED
  BY <1>2 DEF H!LibraryDrops

LEMMA Uses ==
  ASSUME Table!Inv, NEW id, NEW t \in Threads, H!UseBegins(t, id) \/ H!UseEnds(t)
  PROVE  Table!Inv' /\ UNCHANGED <<handles, lastId, library, retired, address>>
<1>1. CASE H!UseBegins(t, id)
  <2>1. id \in Ids
    BY <1>1, TableFacts DEF H!UseBegins, H!Usable
  <2>2. Table!Inv'
    BY <1>1, <2>1, SameUsing, Table!UseBeginsInv, TableAssumptions DEF Ids
  <2>3. QED
    BY <1>1, <2>2 DEF H!UseBegins
<1>2. CASE H!UseEnds(t)
  <2>1. Table!Inv'
    BY <1>2, SameUsing, Table!UseEndsInv, TableAssumptions
  <2>2. QED
    BY <1>2, <2>1 DEF H!UseEnds
<1>3. QED
  BY <1>1, <1>2

LEMMA TableKept == ASSUME Table!Inv, UNCHANGED table PROVE Table!Inv'
  BY Table!NextInv, TableAssumptions DEF table, Table!vars

-----------------------------------------------------------------------------
(* Frames, PLIs and pictures.                                              *)

LEMMA MediaInit == Init => MediaInv
<1> SUFFICES ASSUME Init PROVE MediaInv
  OBVIOUS
<1>1. T!Init /\ track = "none"
      /\ held = [f \in Fields |-> NULL] /\ device = [m \in T!Media |-> "none"]
  BY DEF Init
<1>2. TypeInv
  BY <1>1 DEF TypeInv, T!Init, T!TracksTypeOK, T!Offers, T!Codecs, T!Ends, T!NoTrack, T!Media
<1>3. OfferInv /\ OpeningInv
  BY <1>1 DEF OfferInv, OpeningInv, T!Init, T!NoTrack
<1>4. HandedInv /\ MediaFindTheirWay
  BY <1>1 DEF HandedInv, Handed, MediaFindTheirWay, FramesFindEncoders, PliFindsEncoder,
     SenderIsThere, T!Init, T!NoTrack, T!Media, Fields, NULL
<1>5. QED
  BY <1>2, <1>3, <1>4 DEF MediaInv

parts == <<offer, codec, rids, client, senders, transport, opening, calling, opened,
           videoEncoder, opusEncoder>>

\* A step that leaves the tracks alone, and their devices.
LEMMA MediaKept ==
  ASSUME MediaInv, UNCHANGED <<parts, device>>, \A m \in T!Media : held'[m] = held[m],
         track' = "none" <=> track = "none",
         program' \in {program, "lost handle"}
  PROVE  MediaInv'
<1>1. TypeInv'
  BY DEF MediaInv, TypeInv, T!TracksTypeOK, parts
<1>2. OfferInv' /\ OpeningInv'
  BY DEF MediaInv, OfferInv, OpeningInv, parts, T!Senders
<1>3. \A m \in T!Media : Handed(m)' <=> Handed(m)
  BY DEF Handed, parts
<1>4. HandedInv' /\ MediaFindTheirWay'
  BY <1>3 DEF MediaInv, HandedInv, Handed, MediaFindTheirWay, FramesFindEncoders,
     PliFindsEncoder, SenderIsThere, parts, T!Media
<1>5. QED
  BY <1>1, <1>2, <1>4 DEF MediaInv

\* Before the offer is answered nothing has been opened.
LEMMA NothingOpened ==
  ASSUME MediaInv, offer # "answered"
  PROVE  /\ ~transport /\ opening = T!NoTrack /\ opened = {} /\ ~calling
         /\ \A m \in T!Media : ~Handed(m)
<1>1. ~transport /\ opening = T!NoTrack /\ opened = {} /\ ~calling
  BY DEF MediaInv, OfferInv, OpeningInv
<1>2. QED
  BY <1>1 DEF MediaInv, HandedInv, Handed, T!Media, T!NoTrack

LEMMA OfferKeepsMedia ==
  ASSUME MediaInv, program = "running", T!Handler, UNCHANGED <<device, held, track>>
  PROVE  MediaInv'
<1>1. offer # "answered"
  BY DEF T!Handler, T!OfferArrives, T!OfferUnread, T!AddVideo, T!AddAudio, T!Answer
<1>2. /\ UNCHANGED <<transport, opening, calling, opened, videoEncoder, opusEncoder>>
      /\ program' \in {"running", "bad offer"}
  BY DEF T!Handler, T!OfferArrives, T!OfferUnread, T!AddVideo, T!AddAudio, T!Answer, T!open,
     T!encoders
<1>3. /\ ~transport /\ opening = T!NoTrack /\ opened = {} /\ ~calling
      /\ \A m \in T!Media : ~Handed(m)
  BY <1>1, NothingOpened
<1>4. /\ offer' \in T!Offers /\ codec' \in T!Codecs /\ rids' \subseteq Rids \cup {T!NoRid}
      /\ client' \subseteq T!Media
      /\ senders' \subseteq Rids \cup {T!NoRid}
  <2>1. /\ offer \in T!Offers /\ codec \in T!Codecs /\ rids \subseteq Rids \cup {T!NoRid}
        /\ client \subseteq T!Media
        /\ senders \subseteq Rids \cup {T!NoRid}
        /\ offer \in {"none", "received"} => client = {} /\ senders = {}
    BY DEF MediaInv, TypeInv, T!TracksTypeOK, OfferInv
  <2>2. CASE T!OfferArrives
    BY <2>1, <2>2 DEF T!OfferArrives, T!Offers
  <2>3. CASE T!OfferUnread
    BY <2>1, <2>3 DEF T!OfferUnread, T!Offers
  <2>4. CASE T!AddVideo
    BY <2>1, <2>4 DEF T!AddVideo, T!Offers, T!Media, T!Senders
  <2>5. CASE T!AddAudio
    BY <2>1, <2>5 DEF T!AddAudio, T!Offers, T!Media
  <2>6. CASE T!Answer
    BY <2>1, <2>6 DEF T!Answer, T!Offers
  <2>7. QED
    BY <2>2, <2>3, <2>4, <2>5, <2>6 DEF T!Handler
<1>5. TypeInv'
  BY <1>2, <1>4 DEF MediaInv, TypeInv, T!TracksTypeOK, T!Ends
<1>6. OfferInv'
  BY <1>2, <1>3 DEF MediaInv, OfferInv, T!Handler, T!OfferArrives, T!OfferUnread, T!AddVideo,
     T!AddAudio, T!Answer, T!Media, T!Senders
<1>7. OpeningInv'
  BY <1>2, <1>3 DEF MediaInv, OpeningInv
<1>8. \A m \in T!Media : ~Handed(m)'
  BY <1>2, <1>3 DEF Handed
<1>9. HandedInv' /\ MediaFindTheirWay'
  BY <1>2, <1>8 DEF HandedInv, Handed, MediaFindTheirWay, FramesFindEncoders, PliFindsEncoder,
     SenderIsThere, T!Media
<1>10. QED
  BY <1>5, <1>6, <1>7, <1>9 DEF MediaInv

LEMMA OpeningKeepsMedia ==
  ASSUME MediaInv, program = "running", T!TransportUp \/ T!OpenVideo \/ T!OpenAudio,
         UNCHANGED <<device, held>>,
         IF calling' THEN track' = "clone" ELSE track' = track
  PROVE  MediaInv'
<1>1. /\ UNCHANGED <<offer, codec, rids, client, senders, program>>
      /\ offer = "answered" /\ opening = T!NoTrack
  BY DEF MediaInv, OfferInv, OpeningInv, T!TransportUp, T!OpenVideo, T!OpenAudio, T!Opens
<1>2. /\ transport' = TRUE /\ calling' \in BOOLEAN
      /\ opening' \in T!Media \cup {T!NoTrack} /\ opened' \subseteq T!Media
      /\ videoEncoder' \in {"null", "made"} /\ opusEncoder' \in {"null", "failed", "ready"}
  <2>1. /\ transport \in BOOLEAN /\ calling \in BOOLEAN
        /\ opening \in T!Media \cup {T!NoTrack} /\ opened \subseteq T!Media
        /\ videoEncoder \in {"null", "made"} /\ opusEncoder \in {"null", "failed", "ready"}
    BY DEF MediaInv, TypeInv, T!TracksTypeOK
  <2>2. CASE T!TransportUp
    BY <2>1, <2>2 DEF T!TransportUp, T!encoders
  <2>3. CASE T!OpenVideo
    BY <2>1, <2>3 DEF T!OpenVideo, T!Opens, T!Returns, T!CallsOnTrack, T!Media
  <2>4. CASE T!OpenAudio
    BY <2>1, <2>4 DEF T!OpenAudio, T!Opens, T!Returns, T!CallsOnTrack, T!Media
  <2>5. QED
    BY <2>2, <2>3, <2>4
<1>3. TypeInv'
  BY <1>1, <1>2 DEF MediaInv, TypeInv, T!TracksTypeOK
<1>4. OfferInv'
  BY <1>1 DEF MediaInv, OfferInv, T!Senders
<1>5. ~calling /\ track = "none"
  BY <1>1 DEF MediaInv, OpeningInv
<1>6. OpeningInv'
  BY <1>1, <1>2, <1>5 DEF MediaInv, OpeningInv, T!TransportUp, T!OpenVideo, T!OpenAudio, T!Opens,
     T!Returns, T!CallsOnTrack, T!NoTrack, T!Media
<1>7. HandedInv'
  <2>1. \A m \in T!Media : device[m] # "none" \/ held[m] # NULL => m \in opened
    BY DEF MediaInv, HandedInv
  <2>2. opened \subseteq opened'
    BY DEF T!TransportUp, T!OpenVideo, T!OpenAudio, T!Returns, T!CallsOnTrack
  <2>3. ASSUME Handed("video")', codec = "known" PROVE videoEncoder' = "made"
    <3>1. CASE T!OpenVideo
      <4>1. ~(device["video"] # "none" \/ held["video"] # NULL)
        BY <3>1, <2>1 DEF T!OpenVideo, T!Opens, T!Media
      <4>2. opening' = "video"
        BY <2>3, <4>1 DEF Handed
      <4>3. QED
        BY <2>3, <3>1, <4>2 DEF T!OpenVideo, T!Returns, T!NoTrack
    <3>2. CASE ~T!OpenVideo
      <4>1. Handed("video") /\ videoEncoder' = videoEncoder
        BY <1>1, <2>3, <3>2 DEF Handed, T!TransportUp, T!OpenAudio, T!Returns, T!CallsOnTrack,
           T!encoders, T!NoTrack
      <4>2. QED
        BY <2>3, <4>1 DEF MediaInv, HandedInv
    <3>3. QED
      BY <3>1, <3>2
  <2>4. ASSUME Handed("audio")' PROVE opusEncoder' = "ready"
    <3>1. CASE T!OpenAudio
      <4>1. ~(device["audio"] # "none" \/ held["audio"] # NULL)
        BY <3>1, <2>1 DEF T!OpenAudio, T!Opens, T!Media
      <4>2. opening' = "audio"
        BY <2>4, <4>1 DEF Handed
      <4>3. QED
        BY <2>4, <3>1, <4>2 DEF T!OpenAudio, T!Returns, T!NoTrack
    <3>2. CASE ~T!OpenAudio
      <4>1. Handed("audio") /\ opusEncoder' = opusEncoder
        BY <1>1, <2>4, <3>2 DEF Handed, T!TransportUp, T!OpenVideo, T!Returns, T!CallsOnTrack,
           T!encoders, T!NoTrack
      <4>2. QED
        BY <2>4, <4>1 DEF MediaInv, HandedInv
    <3>3. QED
      BY <3>1, <3>2
  <2>5. QED
    BY <1>1, <2>1, <2>2, <2>3, <2>4 DEF HandedInv
<1>8. MediaFindTheirWay'
  BY <1>1 DEF MediaFindTheirWay, FramesFindEncoders, PliFindsEncoder, SenderIsThere
<1>9. QED
  BY <1>3, <1>4, <1>6, <1>7, <1>8 DEF MediaInv

LEMMA PliKeepsMedia ==
  ASSUME MediaInv, program = "running", T!ReceivePli, UNCHANGED <<device, held, track>>
  PROVE  MediaInv'
<1>1. /\ UNCHANGED parts
      /\ program' = IF videoEncoder = "null" THEN "no encoder for PLI" ELSE "running"
  BY DEF T!ReceivePli, parts, T!open, T!encoders
<1>2. TypeInv'
  BY <1>1 DEF MediaInv, TypeInv, T!TracksTypeOK, T!Ends, parts
<1>3. OfferInv' /\ OpeningInv' /\ HandedInv'
  BY <1>1 DEF MediaInv, OfferInv, OpeningInv, HandedInv, Handed, parts, T!Senders
<1>4. Handed("video") /\ codec = "known" => videoEncoder # "null"
  BY DEF MediaInv, HandedInv
<1>5. MediaFindTheirWay'
  BY <1>1, <1>4 DEF MediaFindTheirWay, FramesFindEncoders, PliFindsEncoder, SenderIsThere, Handed,
     parts
<1>6. QED
  BY <1>2, <1>3, <1>5 DEF MediaInv

LEMMA DeviceKeepsMedia ==
  ASSUME MediaInv, program = "running", T!OnTrackReturns, track' = "none",
         \A m \in T!Media : m # opening => held'[m] = held[m],
         \E phase \in {"idle", "running"} : device' = [device EXCEPT ![opening] = phase]
  PROVE  MediaInv'
<1>1. /\ UNCHANGED <<offer, codec, rids, client, senders, transport, videoEncoder, opusEncoder,
                     program>>
      /\ calling /\ opening' = T!NoTrack /\ calling' = FALSE /\ opened' = opened \cup {opening}
  BY DEF T!OnTrackReturns, T!Returns, T!encoders
<1>2. /\ opening \in T!Media /\ transport
      /\ device \in [T!Media -> {"none", "idle", "running"}]
  BY <1>1 DEF MediaInv, TypeInv, T!TracksTypeOK, OpeningInv
<1>3. TypeInv'
  BY <1>1, <1>2 DEF MediaInv, TypeInv, T!TracksTypeOK
<1>4. OfferInv' /\ OpeningInv'
  <2>1. OfferInv'
    BY <1>1 DEF MediaInv, OfferInv, T!Senders
  <2>2. opened \subseteq T!Media
    BY DEF MediaInv, TypeInv, T!TracksTypeOK
  <2>3. OpeningInv'
    BY <1>1, <1>2, <2>2 DEF OpeningInv, T!Media, T!NoTrack
  <2>4. QED
    BY <2>1, <2>3
<1>5. \A m \in T!Media : m # opening => device'[m] = device[m]
  BY <1>2
<1>6. \A m \in T!Media : Handed(m)' => Handed(m)
  BY <1>1, <1>5 DEF Handed, T!NoTrack, T!Media
<1>7. HandedInv'
  <2>1. \A m \in T!Media : device'[m] # "none" \/ held'[m] # NULL => m \in opened'
    BY <1>1, <1>5 DEF MediaInv, HandedInv
  <2>2. QED
    BY <1>1, <1>6, <2>1 DEF MediaInv, HandedInv, T!Media
<1>8. MediaFindTheirWay'
  BY <1>1 DEF MediaFindTheirWay, FramesFindEncoders, PliFindsEncoder, SenderIsThere
<1>9. QED
  BY <1>3, <1>4, <1>7, <1>8 DEF MediaInv

LEMMA FrameKeepsMedia ==
  ASSUME MediaInv, program = "running", NEW m \in T!Media, device[m] = "running",
         IF m = "video" THEN \E r \in rids : T!SendVideoFrame(r) ELSE T!SendAudioFrame,
         UNCHANGED <<device, held, track>>
  PROVE  MediaInv'
<1>1. UNCHANGED parts
  BY DEF T!SendVideoFrame, T!SendAudioFrame, parts, T!open, T!encoders
<1>2. m \in opened /\ Handed(m) /\ client = T!Media /\ senders = T!Senders
  BY DEF MediaInv, HandedInv, Handed, OpeningInv, OfferInv
<1>3. program' = "running" \/ (program' = "no encoder" /\ codec = "unknown")
  <2>1. CASE m = "video"
    <3> PICK r \in rids : T!SendVideoFrame(r)
      BY <2>1
    <3>1. T!Labels(r) \subseteq senders
      BY <1>2 DEF T!Labels, T!Senders
    <3>2. program' = IF videoEncoder = "null" THEN "no encoder" ELSE "running"
      BY <1>2, <3>1 DEF T!SendVideoFrame, T!Media
    <3>3. videoEncoder = "null" => codec = "unknown"
      BY <1>2, <2>1 DEF MediaInv, HandedInv, TypeInv, T!TracksTypeOK, T!Codecs
    <3>4. QED
      BY <3>2, <3>3
  <2>2. CASE m = "audio"
    <3>1. opusEncoder = "ready"
      BY <1>2, <2>2 DEF MediaInv, HandedInv
    <3>2. QED
      BY <1>2, <2>2, <3>1 DEF T!SendAudioFrame, T!Media
  <2>3. QED
    BY <2>1, <2>2 DEF T!Media
<1>4. TypeInv'
  BY <1>1, <1>3 DEF MediaInv, TypeInv, T!TracksTypeOK, T!Ends, parts
<1>5. OfferInv' /\ OpeningInv' /\ HandedInv'
  BY <1>1 DEF MediaInv, OfferInv, OpeningInv, HandedInv, Handed, parts, T!Senders
<1>6. MediaFindTheirWay'
  BY <1>1, <1>3 DEF MediaFindTheirWay, FramesFindEncoders, PliFindsEncoder, SenderIsThere, parts
<1>7. QED
  BY <1>4, <1>5, <1>6 DEF MediaInv

-----------------------------------------------------------------------------
(* Handles.                                                                *)

\* Handles stay those of their objects.
ObjsKept ==
  /\ lastId' \in Nat /\ lastId <= lastId'
  /\ \A id \in Ids : handles'[id].obj = handles[id].obj

LEMMA Grows ==
  ASSUME Table!Inv, NEW o, NEW owed, NewHandle(o, owed)
  PROVE  /\ ObjsKept
         /\ lastId + 1 \in Nat \ {0} /\ lastId + 1 \notin Ids
         /\ Ids' = Ids \cup {lastId + 1}
         /\ 0..lastId \subseteq 0..lastId'
         /\ lastId' <= MaxHandles
<1>1. lastId \in Nat /\ MaxHandles \in Nat
  BY TableFacts, TableAssumptions
<1>2. lastId' = lastId + 1 /\ lastId < MaxHandles /\ \A id \in Ids : handles'[id] = handles[id]
  BY DEF NewHandle
<1>3. QED
  BY <1>1, <1>2 DEF ObjsKept, Ids

LEMMA SameObjs ==
  ASSUME Table!Inv, lastId' = lastId, handles' = handles
  PROVE  ObjsKept
<1>1. lastId' \in Nat /\ lastId <= lastId'
  BY TableFacts
<1>2. \A id \in Ids : handles'[id].obj = handles[id].obj
  BY Zenon
<1>3. QED
  BY <1>1, <1>2, Zenon DEF ObjsKept

LEMMA StateKept ==
  ASSUME StateInv, ObjsKept, lastId \in Nat, held' = held, main' = main
  PROVE  StateInv'
<1>1. \A f \in Fields : held[f] # NULL => handles'[held[f]].obj = handles[held[f]].obj
  BY DEF StateInv, ObjsKept, Ids, NULL
<1>2. held \in [Fields -> 0..lastId']
  BY DEF StateInv, ObjsKept
<1>3. QED
  BY <1>1, <1>2 DEF StateInv, Fields, T!Media

LEMMA TrackKept ==
  ASSUME TrackInv, ObjsKept, lastId \in Nat, UNCHANGED <<onTrack, opening>>,
         client' \subseteq library'
  PROVE  TrackInv'
<1>1. /\ track' = track /\ trackId' = trackId /\ descId' = descId /\ opening' = opening
      /\ trackId \in 0..lastId' /\ descId \in 0..lastId'
  BY DEF TrackInv, ObjsKept, onTrack
<1>2. /\ trackId # NULL => handles'[trackId].obj = handles[trackId].obj
      /\ descId # NULL => handles'[descId].obj = handles[descId].obj
  BY DEF TrackInv, ObjsKept, Ids, NULL
<1>3. QED
  BY <1>1, <1>2 DEF TrackInv, DescriptionOf

LEMMA ChannelKept ==
  ASSUME StateInv, ChannelInv, ObjsKept, lastId \in Nat, UNCHANGED onChannel,
         held'["channel"] = held["channel"],
         announced \in library => announced \in library',
         \A id \in Ids' : id \in Ids \/ handles'[id].obj \notin UserChannels,
         channelId \in retired' => channelId \in retired,
         held["channel"] \in retired' <=> held["channel"] \in retired
  PROVE  ChannelInv'
<1>1. /\ channel' = channel /\ announced' = announced /\ channelId' = channelId
      /\ channelId \in 0..lastId'
  BY DEF ChannelInv, ObjsKept, onChannel
<1>2. /\ channelId # NULL => handles'[channelId].obj = handles[channelId].obj
      /\ held["channel"] # NULL => handles'[held["channel"]].obj = handles[held["channel"]].obj
  BY DEF StateInv, ChannelInv, ObjsKept, Ids, NULL, Fields
<1>3. channel = "ref" => \A id \in Ids' : handles'[id].obj # announced
  BY DEF ChannelInv, ObjsKept
<1>4. QED
  BY <1>1, <1>2, <1>3 DEF ChannelInv

LEMMA RetiredKept ==
  ASSUME RetiredInv, ObjsKept, retired \subseteq Ids, retired' = retired
  PROVE  RetiredInv'
  BY DEF RetiredInv, ObjsKept

LEMMA OwedKept ==
  ASSUME OwedInv, handles' = handles, lastId' = lastId, retired' = retired, held' = held,
         descId' = descId
  PROVE  OwedInv'
  BY DEF OwedInv, Owns, Ids

\* A step that leaves the handles, and who has them.
LEMMA QuietStep ==
  ASSUME Table!Inv, HandlesInv,
         UNCHANGED <<handles, lastId, retired, held, onTrack, onChannel, opening>>,
         client' \subseteq library', library \subseteq library',
         \/ main' = main
         \/ /\ main \in {"connect", "sleep", "send", "sending"}
            /\ main' \in {"sleep", "send", "sending"}
            /\ main' # "sleep" => held["channel"] # NULL,
         program' = "lost handle" => main' = "send" /\ channel = "share",
         offer' = offer \/ main \notin {"create", "connect"}
  PROVE  HandlesInv'
<1>1. lastId \in Nat /\ lastId' = lastId /\ handles' = handles
  BY TableFacts
<1>2. ObjsKept
  BY <1>1, SameObjs
<1>3. Ids' = Ids
  BY DEF Ids
<1>4. StateInv'
  <2>1. CASE main' = main
    BY <1>1, <1>2, <2>1, StateKept DEF HandlesInv
  <2>2. CASE main' # main
    BY <2>2 DEF HandlesInv, StateInv
  <2>3. QED
    BY <2>1, <2>2
<1>5. TrackInv'
  BY <1>1, <1>2, TrackKept DEF HandlesInv
<1>6. ChannelInv'
  BY <1>1, <1>2, <1>3, ChannelKept DEF HandlesInv
<1>7. RetiredInv' /\ OwedInv'
  BY <1>2, TableFacts, RetiredKept, OwedKept DEF HandlesInv, onTrack
<1>8. LateInv' /\ lastId' <= MaxHandles
  BY DEF HandlesInv, LateInv, onChannel
<1>9. ConnectedInv'
  BY DEF HandlesInv, ConnectedInv
<1>10. QED
  BY <1>4, <1>5, <1>6, <1>7, <1>8, <1>9 DEF HandlesInv

Inv == Table!Inv /\ MediaInv /\ HandlesInv

\* The signaling object is found from the time it is created on.
LEMMA SignalingFound ==
  ASSUME Inv, main # "create" PROVE Reached("Signaling", held["signaling"]) # NoObject
<1> DEFINE id == held["signaling"]
<1>1. id \in Ids /\ handles[id].obj = "signaling"
  BY TableFacts DEF Inv, HandlesInv, StateInv, Ids, NULL, Fields
<1>2. id \notin retired
  BY <1>1 DEF Inv, HandlesInv, RetiredInv
<1>3. handles[id].owed > 0
  BY <1>1, <1>2 DEF Inv, HandlesInv, OwedInv, Owns, Fields
<1>4. QED
  BY <1>1, <1>3, ReachesOwned, TheObjects DEF Inv

\* The data channel in State is found but while it is replaced.
LEMMA ChannelFound ==
  ASSUME Inv, held["channel"] # NULL, channel # "share"
  PROVE  /\ Reached("DataChannel", held["channel"]) # NoObject
         /\ held["channel"] \in Ids /\ held["channel"] \notin retired
         /\ handles[held["channel"]].owed = 1
<1> DEFINE id == held["channel"]
<1>1. id \in Ids /\ handles[id].obj \in UserChannels
  BY TableFacts DEF Inv, HandlesInv, StateInv, Ids, NULL, Fields
<1>2. id \notin retired
  BY DEF Inv, HandlesInv, ChannelInv
<1>3. handles[id].owed = 1
  BY <1>1, <1>2 DEF Inv, HandlesInv, OwedInv, Owns, Fields
<1>4. QED
  BY <1>1, <1>2, <1>3, ReachesOwned, TheObjects DEF Inv

\* on_track finds its track, and its clone.
LEMMA TrackFound ==
  ASSUME Inv, track # "none"
  PROVE  /\ opening \in T!Media /\ opening \notin opened /\ calling
         /\ trackId \in Ids /\ trackId \notin retired /\ handles[trackId].obj = opening
         /\ Reached("Track", trackId) # NoObject
         /\ held[opening] = NULL
<1>1. /\ opening \in T!Media /\ calling /\ transport /\ opening \notin opened
      /\ held[opening] = NULL /\ client = T!Media
  BY DEF Inv, MediaInv, OpeningInv, OfferInv, HandedInv, TypeInv, T!TracksTypeOK
<1>2. /\ trackId \in Ids /\ handles[trackId].obj = opening /\ opening \in library
  BY <1>1, TableFacts DEF Inv, HandlesInv, TrackInv, Ids, NULL
<1>3. trackId \notin retired
  BY <1>1, <1>2 DEF Inv, HandlesInv, RetiredInv
<1>4. H!Alive(opening)
  BY <1>2 DEF H!Alive, H!AliveWith
<1>5. QED
  BY <1>1, <1>2, <1>3, <1>4, Reaches, TheObjects DEF Inv

LEMMA CloneFound ==
  ASSUME Inv, track = "release"
  PROVE  /\ descId \in Ids /\ handles[descId].owed = 1
         /\ handles[descId].obj = DescriptionOf(opening)
         /\ Reached("Media", descId) # NoObject
<1>1. opening \in T!Media
  BY TrackFound
<1>2. descId \in Ids /\ handles[descId].obj = DescriptionOf(opening)
  BY TableFacts DEF Inv, HandlesInv, TrackInv, Ids, NULL
<1>3. handles[descId].owed = 1
  BY <1>2 DEF Inv, HandlesInv, OwedInv, Owns
<1>4. QED
  BY <1>1, <1>2, <1>3, ReachesOwned, TheObjects DEF Inv

\* A handle given to a callback owns nothing.
LEMMA GivenKeeps ==
  ASSUME Table!Inv, HandlesInv, NEW o, NEW id,
         retired' = retired, held' = held, descId' = descId,
         \/ UNCHANGED <<handles, lastId>> /\ id \in Ids /\ handles[id].obj = o
         \/ NewHandle(o, 0) /\ id = lastId + 1
  PROVE  /\ ObjsKept /\ lastId' <= MaxHandles
         /\ id \in Ids' /\ handles'[id].obj = o
         /\ \A i \in Ids' : i \in Ids \/ handles'[i].obj = o
         /\ OwedInv'
<1>1. lastId \in Nat /\ retired \subseteq Ids
  BY TableFacts
<1>2. CASE UNCHANGED <<handles, lastId>> /\ id \in Ids /\ handles[id].obj = o
  <2>1. handles' = handles /\ lastId' = lastId /\ Ids' = Ids
    BY <1>2 DEF Ids
  <2>2. ObjsKept
    BY <2>1, SameObjs
  <2>3. OwedInv'
    BY <2>1, OwedKept DEF HandlesInv
  <2>4. QED
    BY <1>2, <2>1, <2>2, <2>3 DEF HandlesInv
<1>3. CASE NewHandle(o, 0) /\ id = lastId + 1
  <2>1. /\ ObjsKept /\ lastId + 1 \in Nat \ {0} /\ lastId + 1 \notin Ids
        /\ Ids' = Ids \cup {lastId + 1} /\ lastId' <= MaxHandles
    BY <1>3, Grows
  <2>2. /\ \A i \in Ids : handles'[i] = handles[i]
        /\ handles'[id].obj = o /\ handles'[id].owed = 0
    BY <1>3 DEF NewHandle
  <2>3. descId # id /\ \A f \in Fields : held[f] # id
    BY <1>1, <1>3, <2>1 DEF HandlesInv, StateInv, TrackInv, Ids, NULL
  <2>4. \A i \in Ids : Owns(i)' <=> Owns(i)
    BY DEF Owns
  <2>5. ~Owns(id)'
    BY <2>3 DEF Owns
  <2>6. OwedInv'
    BY <1>3, <2>1, <2>2, <2>4, <2>5 DEF HandlesInv, OwedInv
  <2>7. QED
    BY <1>3, <2>1, <2>2, <2>6
<1>4. QED
  BY <1>2, <1>3

-----------------------------------------------------------------------------
(* main.                                                                   *)

LEMMA CreateSignalingKeeps ==
  ASSUME Inv, program = "running", CreateSignaling PROVE Inv'
<1>1. /\ main = "create" /\ main' = "connect" /\ held' = [held EXCEPT !["signaling"] = lastId']
      /\ UNCHANGED <<tracks, onTrack, onChannel, device>>
  BY DEF CreateSignaling
<1>2. PICK a \in Addrs : H!Create("signaling", a)
  BY DEF CreateSignaling, NextAddr
<1>3. "signaling" \in Objects /\ "signaling" \notin UserChannels
  BY TheObjects DEF Others
<1>4. /\ Table!Inv' /\ NewHandle("signaling", 1)
      /\ library' = library /\ retired' = retired
  BY <1>2, <1>3, Creates DEF Inv
<1>5. /\ ObjsKept /\ lastId + 1 \in Nat \ {0} /\ lastId + 1 \notin Ids
      /\ Ids' = Ids \cup {lastId + 1} /\ 0..lastId \subseteq 0..lastId' /\ lastId' <= MaxHandles
      /\ lastId \in Nat /\ retired \subseteq Ids
  BY <1>4, Grows, TableFacts DEF Inv
<1>6. /\ lastId' = lastId + 1 /\ \A id \in Ids : handles'[id] = handles[id]
      /\ handles'[lastId + 1].obj = "signaling" /\ handles'[lastId + 1].owed = 1
  BY <1>4 DEF NewHandle
<1>7. /\ held \in [Fields -> 0..lastId] /\ held["signaling"] = NULL
      /\ held'["signaling"] = lastId + 1
      /\ \A f \in Fields : f # "signaling" => held'[f] = held[f]
      /\ held' \in [Fields -> 0..lastId']
  BY <1>1, <1>5, <1>6 DEF Inv, HandlesInv, StateInv, Fields
<1>8. MediaInv'
  BY <1>1, <1>7, MediaKept DEF Inv, tracks, onTrack, parts, T!Media, Fields
<1>9. StateInv'
  <2>1. \A f \in Fields \ {"signaling"} :
          held[f] # NULL => handles'[held[f]].obj = handles[held[f]].obj
    BY <1>5, <1>7 DEF ObjsKept, Ids, NULL
  <2>2. QED
    BY <1>1, <1>5, <1>6, <1>7, <2>1 DEF Inv, HandlesInv, StateInv, Fields, T!Media, NULL
<1>10. TrackInv'
  <2>1. client' \subseteq library'
    BY <1>1, <1>4 DEF Inv, HandlesInv, TrackInv, tracks
  <2>2. QED
    BY <1>1, <1>5, <2>1, TrackKept DEF Inv, HandlesInv, tracks
<1>11. ChannelInv'
  <2>1. held'["channel"] = held["channel"]
    BY <1>7 DEF Fields
  <2>2. \A id \in Ids' : id \in Ids \/ handles'[id].obj \notin UserChannels
    BY <1>3, <1>5, <1>6
  <2>3. QED
    BY <1>1, <1>4, <1>5, <2>1, <2>2, ChannelKept DEF Inv, HandlesInv
<1>12. RetiredInv'
  BY <1>4, <1>5, RetiredKept DEF Inv, HandlesInv
<1>13. OwedInv'
  <2>1. descId' = descId /\ descId # lastId + 1
    BY <1>1, <1>5 DEF onTrack, Inv, HandlesInv, TrackInv, Ids, NULL
  <2>2. \A id \in Ids : Owns(id)' <=> Owns(id)
    BY <1>4, <1>5, <1>7, <2>1 DEF Owns, Fields, Ids, NULL
  <2>3. PICK n : n = lastId + 1
    OBVIOUS
  <2>4. Owns(n)'
    BY <1>4, <1>5, <1>7, <2>3 DEF Owns, Fields
  <2>5. QED
    BY <1>5, <1>6, <2>2, <2>3, <2>4 DEF Inv, HandlesInv, OwedInv
<1>14. LateInv' /\ ConnectedInv'
  BY <1>1 DEF LateInv, ConnectedInv, tracks, Inv, HandlesInv
<1>15. QED
  BY <1>4, <1>5, <1>8, <1>9, <1>10, <1>11, <1>12, <1>13, <1>14 DEF Inv, HandlesInv

\* What neither the tracks nor on_track and on_data_channel are part of.
LEMMA AsideKeeps ==
  ASSUME Inv, Table!Inv',
         UNCHANGED <<handles, lastId, library, retired, parts, held, onTrack, onChannel, device>>,
         \/ main' = main
         \/ /\ main \in {"connect", "sleep", "send", "sending"}
            /\ main' \in {"sleep", "send", "sending"}
            /\ main' # "sleep" => held["channel"] # NULL,
         \/ program' = program /\ program = "running"
         \/ program' = "lost handle" /\ main' = "send" /\ channel = "share"
  PROVE  Inv'
<1>1. MediaInv'
  BY MediaKept DEF Inv, onTrack
<1>2. client' \subseteq library' /\ library \subseteq library'
  BY DEF Inv, HandlesInv, TrackInv, parts
<1>3. HandlesInv'
  BY <1>2, QuietStep DEF Inv, parts
<1>4. QED
  BY <1>1, <1>3 DEF Inv

LEMMA ConnectKeeps ==
  ASSUME Inv, program = "running", Connect PROVE Inv'
<1>1. main = "connect" /\ Reached("Signaling", held["signaling"]) # NoObject
  BY SignalingFound DEF Connect
<1>2. main' = "sleep" /\ UNCHANGED <<table, tracks, held, onTrack, onChannel, device>>
  BY <1>1 DEF Connect
<1>3. Table!Inv'
  BY <1>2, TableKept DEF Inv
<1>4. QED
  BY <1>1, <1>2, <1>3, AsideKeeps DEF table, tracks, parts

LEMMA LooksAtChannelKeeps ==
  ASSUME Inv, program = "running", LooksAtChannel PROVE Inv'
<1>1. /\ main = "sleep" /\ main' = "send" /\ held["channel"] # NULL
      /\ UNCHANGED <<table, tracks, held, onTrack, onChannel, device>>
  BY DEF LooksAtChannel
<1>2. Table!Inv'
  BY <1>1, TableKept DEF Inv
<1>3. QED
  BY <1>1, <1>2, AsideKeeps DEF table, tracks, parts

LEMMA SendBeginsKeeps ==
  ASSUME Inv, program = "running", SendBegins PROVE Inv'
<1>1. /\ main = "send" /\ held["channel"] # NULL
      /\ UNCHANGED <<held, onTrack, onChannel, device>>
  BY DEF SendBegins, Inv, HandlesInv, StateInv
<1>2. CASE Reached("DataChannel", held["channel"]) = NoObject
  <2>1. channel = "share"
    BY <1>1, <1>2, ChannelFound
  <2>2. program' = "lost handle" /\ main' = main /\ UNCHANGED <<table, parts>>
    BY <1>2 DEF SendBegins, Lost, parts
  <2>3. Table!Inv'
    BY <2>2, TableKept DEF Inv
  <2>4. QED
    BY <1>1, <2>1, <2>2, <2>3, AsideKeeps DEF table
<1>3. CASE Reached("DataChannel", held["channel"]) # NoObject
  <2>1. H!UseBegins("main", held["channel"]) /\ main' = "sending" /\ UNCHANGED tracks
    BY <1>3 DEF SendBegins
  <2>2. /\ Table!Inv' /\ UNCHANGED <<handles, lastId, library, retired>>
    BY <2>1, Uses, SumomoAssumption DEF Inv
  <2>3. QED
    BY <1>1, <2>1, <2>2, AsideKeeps DEF tracks, parts
<1>4. QED
  BY <1>2, <1>3

LEMMA SendEndsKeeps ==
  ASSUME Inv, program = "running", SendEnds PROVE Inv'
<1>1. /\ main = "sending" /\ main' = "sleep" /\ H!UseEnds("main")
      /\ UNCHANGED <<tracks, held, onTrack, onChannel, device>>
  BY DEF SendEnds
<1>2. Table!Inv' /\ UNCHANGED <<handles, lastId, library, retired>>
  BY <1>1, Uses, SumomoAssumption DEF Inv
<1>3. QED
  BY <1>1, <1>2, AsideKeeps DEF tracks, parts

-----------------------------------------------------------------------------
(* The SDK and the devices.                                                *)

LEMMA OfferHandledKeeps ==
  ASSUME Inv, program = "running", OfferHandled PROVE Inv'
<1>1. T!Handler /\ UNCHANGED <<main, held, onTrack, onChannel, device>>
  BY DEF OfferHandled
<1>2. MediaInv'
  BY <1>1, OfferKeepsMedia DEF Inv, onTrack
<1>3. /\ opening' = opening /\ program' # "lost handle" /\ main \notin {"create", "connect"}
      /\ client' \subseteq client \cup T!Media
      /\ \A m, n : m \in client' \ client /\ n \in client' \ client => m = n
  BY <1>1 DEF OfferHandled, T!Handler, T!OfferArrives, T!OfferUnread, T!AddVideo, T!AddAudio,
     T!Answer, T!open, T!Media
<1>4. client \subseteq library /\ client \subseteq T!Media
  BY DEF Inv, HandlesInv, TrackInv, MediaInv, TypeInv, T!TracksTypeOK
<1>5. CASE client' = client /\ UNCHANGED table
  <2>1. Table!Inv'
    BY <1>5, TableKept DEF Inv
  <2>2. HandlesInv'
    BY <1>1, <1>3, <1>4, <1>5, QuietStep DEF Inv, table
  <2>3. QED
    BY <1>2, <2>1, <2>2 DEF Inv
<1>6. CASE \E m \in client' \ client, a \in NextAddr : H!LibraryCreates(m, a)
  <2>1. PICK m \in client' \ client, a \in Addrs : H!LibraryCreates(m, a)
    BY <1>6 DEF NextAddr
  <2>2. m \in Objects
    BY <1>3, TheObjects
  <2>3. /\ Table!Inv' /\ library' = library \cup {m}
        /\ UNCHANGED <<handles, lastId, retired>>
    BY <2>1, <2>2, LibraryMakes DEF Inv
  <2>4. client' \subseteq library'
    BY <1>3, <1>4, <2>1, <2>3
  <2>5. HandlesInv'
    BY <1>1, <1>3, <2>3, <2>4, QuietStep DEF Inv
  <2>6. QED
    BY <1>2, <2>3, <2>5 DEF Inv
<1>7. QED
  BY <1>5, <1>6 DEF OfferHandled

LEMMA PliArrivesKeeps ==
  ASSUME Inv, program = "running", PliArrives PROVE Inv'
<1>1. T!ReceivePli /\ UNCHANGED <<table, main, held, onTrack, onChannel, device>>
  BY DEF PliArrives
<1>2. MediaInv'
  BY <1>1, PliKeepsMedia DEF Inv, onTrack
<1>3. /\ opening' = opening /\ client' = client /\ offer' = offer
      /\ program' # "lost handle"
  BY <1>1 DEF T!ReceivePli, T!open
<1>4. Table!Inv'
  BY <1>1, TableKept DEF Inv
<1>5. client' \subseteq library' /\ library \subseteq library'
  BY <1>1, <1>3 DEF Inv, HandlesInv, TrackInv, table
<1>6. HandlesInv'
  BY <1>1, <1>3, <1>5, QuietStep DEF Inv, table
<1>7. QED
  BY <1>2, <1>4, <1>6 DEF Inv

LEMMA SendFrameKeeps ==
  ASSUME Inv, program = "running", NEW m \in T!Media, SendFrame(m) PROVE Inv'
<1>1. device[m] = "running" /\ UNCHANGED <<main, held, onTrack, onChannel, device>>
  BY DEF SendFrame
<1>2. main # "create"
  BY <1>1 DEF Inv, MediaInv, HandedInv, OpeningInv, OfferInv, HandlesInv, ConnectedInv
<1>3. /\ IF m = "video" THEN \E r \in rids : T!SendVideoFrame(r) ELSE T!SendAudioFrame
      /\ UNCHANGED table
  BY <1>2, SignalingFound DEF SendFrame
<1>4. MediaInv'
  BY <1>1, <1>3, FrameKeepsMedia DEF Inv, onTrack
<1>5. /\ opening' = opening /\ client' = client /\ offer' = offer
      /\ program' # "lost handle"
  BY <1>3 DEF T!SendVideoFrame, T!SendAudioFrame, T!open
<1>6. Table!Inv'
  BY <1>3, TableKept DEF Inv
<1>7. client' \subseteq library' /\ library \subseteq library'
  BY <1>3, <1>5 DEF Inv, HandlesInv, TrackInv, table
<1>8. HandlesInv'
  BY <1>1, <1>3, <1>5, <1>7, QuietStep DEF Inv, table
<1>9. QED
  BY <1>4, <1>6, <1>8 DEF Inv

-----------------------------------------------------------------------------
(* on_track.                                                               *)

LEMMA TrackOpensKeeps ==
  ASSUME Inv, program = "running", TrackOpens PROVE Inv'
<1>1. /\ T!TransportUp \/ T!OpenVideo \/ T!OpenAudio
      /\ UNCHANGED <<main, held, descId, onChannel, device>>
  BY DEF TrackOpens
<1>2. UNCHANGED <<offer, client, program>> /\ track = "none" /\ opening = T!NoTrack
  BY <1>1 DEF Inv, MediaInv, OpeningInv, OfferInv, T!TransportUp, T!OpenVideo, T!OpenAudio, T!Opens
<1>3. MediaInv'
  <2>1. IF calling' THEN track' = "clone" ELSE track' = track
    BY <1>1 DEF TrackOpens
  <2>2. QED
    BY <1>1, <2>1, OpeningKeepsMedia DEF Inv
<1>4. CASE calling'
  <2>1. /\ opening' \in T!Media /\ opening' \in client
        /\ RefTo(opening') /\ trackId' = RefId(opening') /\ track' = "clone"
    BY <1>1, <1>2, <1>4 DEF TrackOpens, T!TransportUp, T!OpenVideo, T!OpenAudio, T!Returns,
       T!CallsOnTrack, T!Opens, T!Media, Inv, MediaInv, OfferInv, OpeningInv
  <2>2. PICK m \in T!Media : m = opening'
    BY <2>1
  <2>3. PICK n : n = trackId'
    OBVIOUS
  <2>4. m \in library /\ RefTo(m) /\ n = RefId(m)
    BY <2>1, <2>2, <2>3 DEF Inv, HandlesInv, TrackInv
  <2>5. /\ Table!Inv' /\ library' = library /\ retired' = retired
        /\ \/ UNCHANGED <<handles, lastId>> /\ n \in Ids /\ handles[n].obj = m
           \/ NewHandle(m, 0) /\ n = lastId + 1
    BY <2>4, Refs DEF Inv
  <2>6. m \notin UserChannels
    BY <2>2, TheObjects DEF Others, T!Media
  <2>7. held' = held /\ descId' = descId /\ descId = NULL /\ lastId \in Nat /\ retired \subseteq Ids
    BY <1>1, <1>2, TableFacts DEF Inv, HandlesInv, TrackInv
  <2>8. /\ ObjsKept /\ lastId' <= MaxHandles /\ n \in Ids' /\ handles'[n].obj = m
        /\ \A i \in Ids' : i \in Ids \/ handles'[i].obj = m
        /\ OwedInv'
    BY <2>5, <2>7, GivenKeeps DEF Inv
  <2>9. StateInv'
    BY <1>1, <2>7, <2>8, StateKept DEF Inv, HandlesInv
  <2>10. TrackInv'
    <3>1. client' \subseteq library'
      BY <1>2, <2>5 DEF Inv, HandlesInv, TrackInv
    <3>2. n \in 0..lastId' /\ n # NULL /\ NULL \in 0..lastId'
      BY <2>7, <2>8 DEF Ids, NULL, ObjsKept
    <3>3. QED
      BY <2>1, <2>2, <2>3, <2>7, <2>8, <3>1, <3>2 DEF TrackInv
  <2>11. ChannelInv'
    BY <1>1, <2>5, <2>6, <2>7, <2>8, ChannelKept DEF Inv, HandlesInv
  <2>12. RetiredInv'
    BY <2>5, <2>7, <2>8, RetiredKept DEF Inv, HandlesInv
  <2>13. LateInv' /\ ConnectedInv'
    BY <1>1, <1>2 DEF Inv, HandlesInv, LateInv, ConnectedInv, onChannel
  <2>14. QED
    BY <1>3, <2>5, <2>8, <2>9, <2>10, <2>11, <2>12, <2>13 DEF Inv, HandlesInv
<1>5. CASE ~calling'
  <2>1. UNCHANGED <<table, onTrack, opening>>
    BY <1>1, <1>2, <1>5 DEF TrackOpens, T!TransportUp, T!OpenVideo, T!OpenAudio, T!Returns,
       T!CallsOnTrack, onTrack
  <2>2. Table!Inv'
    BY <2>1, TableKept DEF Inv
  <2>3. client' \subseteq library' /\ library \subseteq library'
    BY <1>2, <2>1 DEF table, Inv, HandlesInv, TrackInv
  <2>4. HandlesInv'
    BY <1>1, <1>2, <2>1, <2>3, QuietStep DEF Inv, table
  <2>5. QED
    BY <1>3, <2>2, <2>4 DEF Inv
<1>6. QED
  BY <1>4, <1>5

LEMMA CloneDescriptionKeeps ==
  ASSUME Inv, program = "running", CloneDescription PROVE Inv'
<1>1. /\ track = "clone" /\ Reached("Track", trackId) # NoObject /\ opening \in T!Media
  BY TrackFound DEF CloneDescription
<1> DEFINE o == DescriptionOf(opening)
<1>2. /\ descId' = lastId' /\ track' = "release" /\ trackId' = trackId
      /\ UNCHANGED <<tracks, main, held, onChannel, device>>
  BY <1>1 DEF CloneDescription
<1>3. PICK a \in Addrs : H!Create(o, a)
  BY <1>1 DEF CloneDescription, NextAddr
<1>4. o \in Objects /\ o \notin UserChannels
  BY <1>1, TheObjects DEF Others, DescriptionOf
<1>5. /\ Table!Inv' /\ NewHandle(o, 1)
      /\ library' = library /\ retired' = retired
  BY <1>3, <1>4, Creates DEF Inv
<1>6. /\ ObjsKept /\ lastId + 1 \in Nat \ {0} /\ lastId + 1 \notin Ids
      /\ Ids' = Ids \cup {lastId + 1} /\ 0..lastId \subseteq 0..lastId' /\ lastId' <= MaxHandles
      /\ lastId \in Nat /\ retired \subseteq Ids
  BY <1>5, Grows, TableFacts DEF Inv
<1>7. /\ lastId' = lastId + 1 /\ \A id \in Ids : handles'[id] = handles[id]
      /\ handles'[lastId + 1].obj = o /\ handles'[lastId + 1].owed = 1
  BY <1>5 DEF NewHandle
<1>8. /\ descId = NULL /\ trackId \in Ids /\ handles[trackId].obj = opening
  BY <1>1, TrackFound DEF Inv, HandlesInv, TrackInv
<1>9. MediaInv'
  BY <1>1, <1>2, MediaKept DEF Inv, tracks, parts
<1>10. StateInv'
  BY <1>2, <1>6, StateKept DEF Inv, HandlesInv
<1>11. TrackInv'
  <2>1. client' \subseteq library' /\ opening' = opening
    BY <1>2, <1>5 DEF Inv, HandlesInv, TrackInv, tracks
  <2>2. /\ descId' \in 0..lastId' /\ descId' # NULL /\ handles'[descId'].obj = o
        /\ trackId' \in 0..lastId' /\ trackId' # NULL /\ handles'[trackId'].obj = opening
    BY <1>2, <1>6, <1>7, <1>8 DEF NULL, Ids
  <2>3. QED
    BY <1>2, <2>1, <2>2 DEF TrackInv, DescriptionOf
<1>12. ChannelInv'
  <2>1. \A id \in Ids' : id \in Ids \/ handles'[id].obj \notin UserChannels
    BY <1>4, <1>6, <1>7
  <2>2. QED
    BY <1>2, <1>5, <1>6, <2>1, ChannelKept DEF Inv, HandlesInv
<1>13. RetiredInv'
  BY <1>5, <1>6, RetiredKept DEF Inv, HandlesInv
<1>14. OwedInv'
  <2>1. \A f \in Fields : held[f] # lastId + 1
    BY <1>6 DEF Inv, HandlesInv, StateInv, Ids, NULL
  <2>2. \A id \in Ids : Owns(id)' <=> Owns(id)
    BY <1>2, <1>5, <1>6, <1>7, <1>8 DEF Owns, Fields, Ids, NULL
  <2>3. PICK n : n = lastId + 1
    OBVIOUS
  <2>4. Owns(n)'
    BY <1>2, <1>7, <2>3 DEF Owns
  <2>5. QED
    BY <1>6, <1>7, <2>2, <2>3, <2>4 DEF Inv, HandlesInv, OwedInv
<1>15. LateInv' /\ ConnectedInv'
  BY <1>2 DEF LateInv, ConnectedInv, tracks, Inv, HandlesInv, onChannel
<1>16. QED
  BY <1>5, <1>6, <1>9, <1>10, <1>11, <1>12, <1>13, <1>14, <1>15 DEF Inv, HandlesInv

LEMMA ReleaseDescriptionKeeps ==
  ASSUME Inv, program = "running", ReleaseDescription PROVE Inv'
<1>1. /\ track = "release" /\ descId \in Ids /\ handles[descId].owed = 1
      /\ handles[descId].obj = DescriptionOf(opening) /\ Reached("Media", descId) # NoObject
      /\ opening \in T!Media
  BY CloneFound, TrackFound DEF ReleaseDescription
<1>2. /\ H!Release(descId) /\ track' = "share" /\ descId' = NULL /\ trackId' = trackId
      /\ UNCHANGED <<tracks, main, held, onChannel, device>>
  BY <1>1 DEF ReleaseDescription
<1>3. /\ Table!Inv' /\ lastId' = lastId /\ library' = library
      /\ handles' = [handles EXCEPT ![descId].owed = @ - 1]
      /\ retired' = retired \cup {descId}
  BY <1>1, <1>2, Releases DEF Inv
<1>4. /\ DOMAIN handles = Ids /\ lastId \in Nat /\ Ids' = Ids /\ retired \subseteq Ids
      /\ \A id \in Ids : handles[id] = [obj |-> handles[id].obj, owed |-> handles[id].owed]
  BY <1>3, TableFacts DEF Inv, Ids
<1>5. /\ \A id \in Ids : handles'[id].obj = handles[id].obj
      /\ \A id \in Ids : id # descId => handles'[id].owed = handles[id].owed
      /\ handles'[descId].owed = 0
  BY <1>1, <1>3, <1>4
<1>6. ObjsKept
  <2>1. lastId' \in Nat /\ lastId <= lastId'
    BY <1>3, <1>4
  <2>2. QED
    BY <1>5, <2>1 DEF ObjsKept
<1>7. MediaInv'
  BY <1>1, <1>2, MediaKept DEF Inv, tracks, parts
<1>8. StateInv'
  BY <1>2, <1>4, <1>6, StateKept DEF Inv, HandlesInv
<1>9. TrackInv'
  <2>1. client' \subseteq library' /\ opening' = opening
    BY <1>2, <1>3 DEF Inv, HandlesInv, TrackInv, tracks
  <2>2. /\ trackId \in Ids /\ handles[trackId].obj = opening
    BY <1>1, TrackFound
  <2>3. /\ trackId' \in 0..lastId' /\ trackId' # NULL /\ handles'[trackId'].obj = opening
    BY <1>2, <1>3, <1>4, <1>5, <2>2 DEF NULL, Ids
  <2>4. QED
    BY <1>2, <1>3, <1>4, <2>1, <2>3 DEF TrackInv, NULL
<1>10. handles[descId].obj \notin UserChannels \cup {"signaling"} \cup T!Media
  BY <1>1, TheObjects DEF Others, DescriptionOf, T!Media
<1>11. /\ channelId # descId /\ \A f \in Fields : held[f] # descId
  BY <1>1, <1>10 DEF Inv, HandlesInv, StateInv, ChannelInv, Fields, T!Media, NULL, Ids
<1>12. ChannelInv'
  BY <1>2, <1>3, <1>4, <1>6, <1>11, ChannelKept DEF Inv, HandlesInv, Fields
<1>13. RetiredInv'
  BY <1>1, <1>3, <1>4, <1>5, <1>10 DEF Inv, HandlesInv, RetiredInv
<1>14. OwedInv'
  <2>1. \A id \in Ids : id # descId => (Owns(id)' <=> Owns(id))
    BY <1>1, <1>2, <1>3 DEF Owns, Ids, NULL
  <2>2. PICK n : n = descId
    OBVIOUS
  <2>3. ~Owns(n)'
    BY <1>1, <1>2, <1>3, <2>2 DEF Owns, Ids, NULL
  <2>4. QED
    BY <1>1, <1>4, <1>5, <2>1, <2>2, <2>3 DEF Inv, HandlesInv, OwedInv
<1>15. LateInv' /\ ConnectedInv' /\ lastId' <= MaxHandles
  BY <1>2, <1>3 DEF LateInv, ConnectedInv, tracks, Inv, HandlesInv, onChannel
<1>16. QED
  BY <1>3, <1>7, <1>8, <1>9, <1>12, <1>13, <1>14, <1>15 DEF Inv, HandlesInv

LEMMA ShareAndStartKeeps ==
  ASSUME Inv, program = "running", ShareAndStart PROVE Inv'
<1>1. /\ track = "share" /\ opening \in T!Media /\ opening \notin opened
      /\ trackId \in Ids /\ trackId \notin retired /\ handles[trackId].obj = opening
      /\ Reached("Track", trackId) # NoObject /\ held[opening] = NULL
  BY TrackFound DEF ShareAndStart
<1>2. /\ held' = [held EXCEPT ![opening] = trackId] /\ H!Share(trackId)
      /\ track' = "none" /\ trackId' = NULL /\ descId' = descId
      /\ T!OnTrackReturns
      /\ \E phase \in {"idle", "running"} : device' = [device EXCEPT ![opening] = phase]
      /\ UNCHANGED <<main, onChannel>>
  BY <1>1 DEF ShareAndStart, ShareTo
<1>3. /\ Table!Inv' /\ handles' = [handles EXCEPT ![trackId].owed = @ + 1]
      /\ lastId' = lastId /\ library' = library /\ retired' = retired
  BY <1>2, Shares DEF Inv
<1>4. /\ DOMAIN handles = Ids /\ lastId \in Nat /\ Ids' = Ids /\ retired \subseteq Ids
      /\ \A id \in Ids : handles[id] = [obj |-> handles[id].obj, owed |-> handles[id].owed]
  BY <1>3, TableFacts DEF Inv, Ids
<1>5. /\ held \in [Fields -> 0..lastId] /\ opening \in Fields
      /\ opening \notin {"signaling", "channel"}
      /\ descId = NULL
  BY <1>1 DEF Inv, HandlesInv, StateInv, TrackInv, Fields, T!Media
<1>6. /\ held'[opening] = trackId /\ \A f \in Fields : f # opening => held'[f] = held[f]
      /\ held' \in [Fields -> 0..lastId]
  BY <1>1, <1>2, <1>5 DEF Ids
<1>7. /\ \A f \in Fields : held[f] # trackId
      /\ trackId # NULL
  <2>1. opening # "signaling" /\ opening \notin UserChannels
    BY <1>1, TheObjects DEF T!Media, Others
  <2>2. trackId # NULL
    BY <1>1 DEF Ids, NULL
  <2>3. ASSUME NEW f \in Fields, held[f] # NULL, f # opening PROVE handles[held[f]].obj # opening
    BY <2>1, <2>3 DEF Inv, HandlesInv, StateInv, Fields, T!Media
  <2>4. QED
    BY <1>1, <2>2, <2>3
<1>8. ~Owns(trackId) /\ handles[trackId].owed = 0
  BY <1>1, <1>5, <1>7 DEF Owns, Inv, HandlesInv, OwedInv
<1>9. /\ \A id \in Ids : handles'[id].obj = handles[id].obj
      /\ \A id \in Ids : id # trackId => handles'[id].owed = handles[id].owed
      /\ handles'[trackId].owed = 1
  BY <1>1, <1>3, <1>4, <1>8
<1>10. ObjsKept
  <2>1. lastId' \in Nat /\ lastId <= lastId'
    BY <1>3, <1>4
  <2>2. QED
    BY <1>9, <2>1 DEF ObjsKept
<1>11. MediaInv'
  BY <1>2, <1>6, DeviceKeepsMedia DEF Inv, T!Media, Fields
<1>12. StateInv'
  <2>1. \A f \in Fields : held[f] # NULL => handles'[held[f]].obj = handles[held[f]].obj
    BY <1>4, <1>5, <1>9 DEF NULL, Ids
  <2>2. \A m \in T!Media : held'[m] # NULL => handles'[held'[m]].obj = m
    BY <1>1, <1>6, <1>9, <2>1 DEF Inv, HandlesInv, StateInv, Fields, T!Media
  <2>3. held'["signaling"] = held["signaling"] /\ held'["channel"] = held["channel"]
    BY <1>5, <1>6 DEF Fields
  <2>4. QED
    BY <1>2, <1>3, <1>6, <2>1, <2>2, <2>3 DEF Inv, HandlesInv, StateInv, Fields
<1>13. TrackInv'
  <2>1. client' \subseteq library'
    BY <1>2, <1>3 DEF Inv, HandlesInv, TrackInv, T!OnTrackReturns
  <2>2. QED
    BY <1>2, <1>3, <1>4, <1>5, <2>1 DEF TrackInv, NULL
<1>14. ChannelInv'
  <2>1. held'["channel"] = held["channel"]
    BY <1>5, <1>6 DEF Fields
  <2>2. QED
    BY <1>2, <1>3, <1>4, <1>10, <2>1, ChannelKept DEF Inv, HandlesInv
<1>15. RetiredInv'
  BY <1>3, <1>4, <1>10, RetiredKept DEF Inv, HandlesInv
<1>16. OwedInv'
  <2>1. \A id \in Ids : id # trackId => (Owns(id)' <=> Owns(id))
    BY <1>1, <1>2, <1>3, <1>5, <1>6 DEF Owns, Ids, NULL
  <2>2. PICK n : n = trackId
    OBVIOUS
  <2>3. Owns(n)'
    BY <1>1, <1>3, <1>5, <1>6, <2>2 DEF Owns
  <2>4. QED
    BY <1>1, <1>4, <1>9, <2>1, <2>2, <2>3 DEF Inv, HandlesInv, OwedInv
<1>17. LateInv' /\ ConnectedInv' /\ lastId' <= MaxHandles
  BY <1>2, <1>3 DEF LateInv, ConnectedInv, Inv, HandlesInv, T!OnTrackReturns
<1>18. QED
  BY <1>3, <1>11, <1>12, <1>13, <1>14, <1>15, <1>16, <1>17 DEF Inv, HandlesInv

-----------------------------------------------------------------------------
(* on_data_channel.                                                        *)

\* What the callbacks of a data channel leave alone.
LEMMA OthersKept ==
  ASSUME Inv, program = "running", UNCHANGED <<tracks, main, onTrack, device>>, ObjsKept,
         \A f \in Fields \ {"channel"} : held'[f] = held[f],
         client \subseteq library'
  PROVE  MediaInv' /\ TrackInv' /\ LateInv' /\ ConnectedInv'
<1>1. MediaInv'
  BY MediaKept DEF Inv, tracks, parts, onTrack, T!Media, Fields
<1>2. TrackInv'
  <2>1. lastId \in Nat
    BY TableFacts DEF Inv
  <2>2. QED
    BY <2>1, TrackKept DEF Inv, HandlesInv, tracks
<1>3. LateInv' /\ ConnectedInv'
  BY DEF Inv, HandlesInv, LateInv, ConnectedInv, tracks
<1>4. QED
  BY <1>1, <1>2, <1>3

LEMMA ChannelOpensKeeps ==
  ASSUME Inv, program = "running", ChannelOpens PROVE Inv'
<1>1. /\ channel = "none" /\ channel' = "ref" /\ channelId' = channelId
      /\ UNCHANGED <<tracks, main, held, onTrack, device>>
  BY DEF ChannelOpens
<1>2. PICK k \in DOMAIN Channels, a \in Addrs :
        /\ \A j \in DOMAIN Channels : H!Fresh(Channels[j]) <=> j >= k
        /\ H!LibraryCreates(Channels[k], a)
        /\ announced' = Channels[k]
  BY DEF ChannelOpens, NextAddr
<1>3. PICK o \in UserChannels : o = Channels[k]
  BY DEF UserChannels, Range
<1>4. /\ Table!Inv' /\ library' = library \cup {o} /\ H!Fresh(o)
      /\ handles' = handles /\ lastId' = lastId /\ retired' = retired
  BY <1>2, <1>3, LibraryMakes, TheObjects DEF Inv
<1>5. /\ ObjsKept /\ Ids' = Ids /\ lastId \in Nat /\ retired \subseteq Ids
      /\ \A id \in Ids : handles[id].obj # o
  BY <1>4, SameObjs, TableFacts DEF Inv, Ids
<1>6. client \subseteq library'
  BY <1>4 DEF Inv, HandlesInv, TrackInv
<1>7. MediaInv' /\ TrackInv' /\ LateInv' /\ ConnectedInv'
  BY <1>1, <1>5, <1>6, OthersKept
<1>8. StateInv' /\ RetiredInv' /\ OwedInv' /\ lastId' <= MaxHandles
  BY <1>1, <1>4, <1>5, StateKept, RetiredKept, OwedKept DEF Inv, HandlesInv, onTrack
<1>9. ChannelInv'
  <2>1. announced' = o
    BY <1>2, <1>3
  <2>2. \A id \in Ids' : handles'[id].obj # o
    BY <1>4, <1>5
  <2>3. channelId = NULL /\ channelId' \in 0..lastId'
    BY <1>1, <1>4 DEF Inv, HandlesInv, ChannelInv
  <2>4. held["channel"] # NULL => held["channel"] \notin retired
    BY <1>1 DEF Inv, HandlesInv, ChannelInv
  <2>5. QED
    BY <1>1, <1>4, <2>1, <2>2, <2>3, <2>4 DEF ChannelInv
<1>10. QED
  BY <1>4, <1>7, <1>8, <1>9 DEF Inv, HandlesInv

LEMMA OnDataChannelBeginsKeeps ==
  ASSUME Inv, program = "running", OnDataChannelBegins PROVE Inv'
<1>1. /\ channel = "ref" /\ channel' = "replace" /\ announced' = announced
      /\ RefTo(announced) /\ channelId' = RefId(announced)
      /\ UNCHANGED <<tracks, main, held, onTrack, device>>
  BY DEF OnDataChannelBegins
<1>2. /\ announced \in UserChannels /\ announced \in library
      /\ \A id \in Ids : handles[id].obj # announced
      /\ held["channel"] # NULL => held["channel"] \notin retired
  BY <1>1 DEF Inv, HandlesInv, ChannelInv
<1>3. PICK n : n = channelId'
  OBVIOUS
<1>4. /\ Table!Inv' /\ library' = library /\ retired' = retired
      /\ NewHandle(announced, 0) /\ n = lastId + 1
  BY <1>1, <1>2, <1>3, Refs DEF Inv
<1>5. held' = held /\ descId' = descId /\ lastId \in Nat /\ retired \subseteq Ids
  BY <1>1, TableFacts DEF Inv, onTrack
<1>6. /\ ObjsKept /\ lastId' <= MaxHandles /\ n \in Ids' /\ handles'[n].obj = announced
      /\ OwedInv' /\ lastId + 1 \notin Ids /\ lastId + 1 \in Nat \ {0}
  BY <1>4, <1>5, GivenKeeps, Grows DEF Inv
<1>7. client \subseteq library'
  BY <1>4 DEF Inv, HandlesInv, TrackInv
<1>8. MediaInv' /\ TrackInv' /\ LateInv' /\ ConnectedInv'
  BY <1>1, <1>6, <1>7, OthersKept
<1>9. StateInv' /\ RetiredInv'
  BY <1>1, <1>4, <1>5, <1>6, StateKept, RetiredKept DEF Inv, HandlesInv
<1>10. ChannelInv'
  <2>1. n \notin retired' /\ n # NULL /\ n \in 0..lastId'
    BY <1>4, <1>5, <1>6 DEF NULL, Ids
  <2>2. held["channel"] # NULL => handles'[held["channel"]].obj # announced
    <3>1. held["channel"] # NULL => held["channel"] \in Ids
      BY <1>5 DEF Inv, HandlesInv, StateInv, Fields, Ids, NULL
    <3>2. QED
      BY <1>2, <1>6, <3>1 DEF ObjsKept
  <2>3. QED
    BY <1>1, <1>2, <1>3, <1>4, <1>5, <1>6, <2>1, <2>2 DEF ChannelInv
<1>11. QED
  BY <1>4, <1>6, <1>8, <1>9, <1>10 DEF Inv, HandlesInv

LEMMA ReplaceChannelKeeps ==
  ASSUME Inv, program = "running", ReplaceChannel PROVE Inv'
<1> DEFINE id == held["channel"]
<1>1. /\ channel = "replace" /\ channel' = "share"
      /\ announced' = announced /\ channelId' = channelId /\ held' = held
      /\ UNCHANGED <<tracks, main, held, onTrack, device>>
  BY DEF ReplaceChannel
<1>2. /\ lastId \in Nat /\ retired \subseteq Ids /\ DOMAIN handles = Ids
      /\ \A i \in Ids : handles[i] = [obj |-> handles[i].obj, owed |-> handles[i].owed]
  BY TableFacts DEF Inv
<1>3. /\ announced \in UserChannels /\ announced \in library
      /\ channelId \in Ids /\ channelId # NULL
      /\ handles[channelId].obj = announced /\ channelId \notin retired
      /\ id # NULL => handles[id].obj # announced
  BY <1>1, <1>2 DEF Inv, HandlesInv, ChannelInv, Ids, NULL
<1>4. CASE id = NULL
  <2>1. Table!Inv' /\ UNCHANGED table
    BY <1>1, <1>4, TableKept DEF ReplaceChannel, Inv
  <2>2. /\ handles' = handles /\ lastId' = lastId /\ retired' = retired /\ library' = library
        /\ Ids' = Ids
    BY <2>1 DEF table, Ids
  <2>3. ObjsKept
    BY <2>2, SameObjs DEF Inv
  <2>4. client \subseteq library'
    BY <2>2 DEF Inv, HandlesInv, TrackInv
  <2>5. MediaInv' /\ TrackInv' /\ LateInv' /\ ConnectedInv'
    BY <1>1, <2>3, <2>4, OthersKept
  <2>6. StateInv' /\ RetiredInv' /\ OwedInv' /\ lastId' <= MaxHandles
    BY <1>1, <1>2, <2>2, <2>3, StateKept, RetiredKept, OwedKept DEF Inv, HandlesInv, onTrack
  <2>7. ChannelInv'
    BY <1>1, <1>3, <1>4, <2>2 DEF Inv, HandlesInv, ChannelInv
  <2>8. QED
    BY <2>1, <2>5, <2>6, <2>7 DEF Inv, HandlesInv
<1>5. CASE id # NULL
  <2>1. PICK n : n = id
    OBVIOUS
  <2>2. n \in Ids /\ n \notin retired /\ handles[n].owed = 1 /\ handles[n].obj \in UserChannels
    BY <1>1, <1>5, <2>1, ChannelFound DEF Inv, HandlesInv, StateInv
  <2>3. /\ Table!Inv' /\ lastId' = lastId /\ library' = library
        /\ handles' = [handles EXCEPT ![n].owed = @ - 1]
        /\ retired' = retired \cup {n}
    BY <1>5, <2>1, <2>2, Releases DEF ReplaceChannel, Inv
  <2>4. /\ \A i \in Ids : handles'[i].obj = handles[i].obj
        /\ \A i \in Ids : i # n => handles'[i].owed = handles[i].owed
        /\ handles'[n].owed = 0
    BY <1>2, <2>2, <2>3
  <2>5. Ids' = Ids
    BY <2>3 DEF Ids
  <2>6. ObjsKept
    <3>1. lastId' \in Nat /\ lastId <= lastId'
      BY <1>2, <2>3
    <3>2. QED
      BY <2>4, <3>1 DEF ObjsKept
  <2>7. client \subseteq library'
    BY <2>3 DEF Inv, HandlesInv, TrackInv
  <2>8. MediaInv' /\ TrackInv' /\ LateInv' /\ ConnectedInv'
    BY <1>1, <2>6, <2>7, OthersKept
  <2>9. StateInv'
    BY <1>1, <1>2, <2>6, StateKept DEF Inv, HandlesInv
  <2>10. ChannelInv'
    <3>1. channelId # n
      BY <1>3, <1>5, <2>1
    <3>2. /\ handles'[channelId].obj = announced /\ handles'[n].obj # announced
      BY <1>3, <1>5, <2>1, <2>2, <2>4
    <3>3. QED
      BY <1>1, <1>3, <2>1, <2>3, <3>1, <3>2 DEF Inv, HandlesInv, ChannelInv
  <2>11. RetiredInv'
    <3>1. handles[n].obj \notin {"signaling"} \cup T!Media
      BY <2>2, TheObjects DEF Others, T!Media
    <3>2. QED
      BY <1>2, <2>2, <2>3, <2>4, <3>1 DEF Inv, HandlesInv, RetiredInv
  <2>12. OwedInv'
    <3>1. descId' = descId /\ descId # n
      <4>1. descId # NULL => handles[descId].obj \notin UserChannels
        <5>1. descId # NULL => track = "release" /\ handles[descId].obj = DescriptionOf(opening)
          BY DEF Inv, HandlesInv, TrackInv
        <5>2. track = "release" => opening \in T!Media
          BY TrackFound
        <5>3. QED
          BY <5>1, <5>2, TheObjects DEF DescriptionOf, Others
      <4>2. n # NULL
        BY <1>5, <2>1
      <4>3. QED
        BY <1>1, <2>2, <4>1, <4>2 DEF onTrack
    <3>2. \A i \in Ids : i # n => (Owns(i)' <=> Owns(i))
      BY <1>1, <2>3, <3>1 DEF Owns
    <3>3. ~Owns(n)'
      BY <2>3, <3>1 DEF Owns
    <3>4. QED
      BY <2>2, <2>4, <2>5, <3>2, <3>3 DEF Inv, HandlesInv, OwedInv
  <2>13. lastId' <= MaxHandles
    BY <2>3 DEF Inv, HandlesInv
  <2>14. QED
    BY <2>3, <2>8, <2>9, <2>10, <2>11, <2>12, <2>13 DEF Inv, HandlesInv
<1>6. QED
  BY <1>4, <1>5

LEMMA ShareChannelKeeps ==
  ASSUME Inv, program = "running", ShareChannel PROVE Inv'
<1>1. /\ channel = "share" /\ channel' = "return" /\ channelId' = NULL /\ announced' = announced
      /\ UNCHANGED <<tracks, main, onTrack, device>>
  BY DEF ShareChannel
<1>2. /\ lastId \in Nat /\ retired \subseteq Ids /\ DOMAIN handles = Ids
      /\ \A i \in Ids : handles[i] = [obj |-> handles[i].obj, owed |-> handles[i].owed]
  BY TableFacts DEF Inv
<1>3. PICK n : n = channelId
  OBVIOUS
<1>4. /\ announced \in UserChannels /\ announced \in library
      /\ n \in Ids /\ n # NULL /\ handles[n].obj = announced /\ n \notin retired
      /\ held["channel"] # NULL => held["channel"] \in retired
  BY <1>1, <1>2, <1>3 DEF Inv, HandlesInv, ChannelInv, Ids, NULL
<1>5. Reached("DataChannel", n) # NoObject
  <2>1. H!Alive(announced)
    BY <1>4 DEF H!Alive, H!AliveWith
  <2>2. QED
    BY <1>4, <2>1, Reaches, TheObjects DEF Inv
<1>6. held' = [held EXCEPT !["channel"] = n] /\ H!Share(n)
  BY <1>3, <1>5 DEF ShareChannel, ShareTo
<1>7. /\ Table!Inv' /\ handles' = [handles EXCEPT ![n].owed = @ + 1]
      /\ lastId' = lastId /\ library' = library /\ retired' = retired
  BY <1>6, Shares DEF Inv
<1>8. /\ held'["channel"] = n /\ \A f \in Fields \ {"channel"} : held'[f] = held[f]
      /\ held' \in [Fields -> 0..lastId]
  BY <1>4, <1>6 DEF Inv, HandlesInv, StateInv, Fields, Ids
<1>9. \A f \in Fields : held[f] # n
  <2>1. announced # "signaling" /\ announced \notin T!Media
    BY <1>4, TheObjects DEF Others, T!Media
  <2>2. ASSUME NEW f \in Fields \ {"channel"}, held[f] # NULL PROVE handles[held[f]].obj # announced
    BY <2>1, <2>2 DEF Inv, HandlesInv, StateInv, Fields, T!Media
  <2>3. QED
    BY <1>4, <2>2
<1>10. descId' = descId /\ descId # n
  <2>1. descId # NULL => track = "release" /\ handles[descId].obj = DescriptionOf(opening)
    BY DEF Inv, HandlesInv, TrackInv
  <2>2. track = "release" => opening \in T!Media
    BY TrackFound
  <2>3. descId # NULL => handles[descId].obj \notin UserChannels
    BY <2>1, <2>2, TheObjects DEF DescriptionOf, Others
  <2>4. QED
    BY <1>1, <1>4, <2>3 DEF onTrack
<1>11. ~Owns(n) /\ handles[n].owed = 0
  BY <1>4, <1>9, <1>10 DEF Owns, Inv, HandlesInv, OwedInv
<1>12. /\ \A i \in Ids : handles'[i].obj = handles[i].obj
       /\ \A i \in Ids : i # n => handles'[i].owed = handles[i].owed
       /\ handles'[n].owed = 1
  BY <1>2, <1>4, <1>7, <1>11
<1>13. Ids' = Ids
  BY <1>7 DEF Ids
<1>14. ObjsKept
  <2>1. lastId' \in Nat /\ lastId <= lastId'
    BY <1>2, <1>7
  <2>2. QED
    BY <1>12, <2>1 DEF ObjsKept
<1>15. client \subseteq library'
  BY <1>7 DEF Inv, HandlesInv, TrackInv
<1>16. MediaInv' /\ TrackInv' /\ LateInv' /\ ConnectedInv'
  BY <1>1, <1>8, <1>14, <1>15, OthersKept
<1>17. StateInv'
  <2>1. \A f \in Fields : held[f] # NULL => handles'[held[f]].obj = handles[held[f]].obj
    BY <1>2, <1>12 DEF NULL, Ids, Inv, HandlesInv, StateInv
  <2>2. \A f \in {"signaling"} \cup T!Media : held'[f] = held[f] /\ f \in Fields
    BY <1>8 DEF Fields, T!Media
  <2>3. main' = main /\ main \notin {"create"} => held["signaling"] # NULL
    BY <1>1 DEF Inv, HandlesInv, StateInv
  <2>4. handles'[n].obj \in UserChannels
    BY <1>4, <1>12
  <2>5. QED
    BY <1>1, <1>4, <1>7, <1>8, <2>1, <2>2, <2>4 DEF Inv, HandlesInv, StateInv
<1>18. ChannelInv'
  BY <1>1, <1>2, <1>4, <1>7, <1>8 DEF ChannelInv, NULL
<1>19. RetiredInv'
  BY <1>2, <1>7, <1>14, RetiredKept DEF Inv, HandlesInv
<1>20. OwedInv'
  <2>1. ASSUME NEW i \in Ids, i # n PROVE Owns(i)' <=> Owns(i)
    <3>1. CASE i \in retired
      BY <1>7, <1>10, <3>1 DEF Owns
    <3>2. CASE i \notin retired
      <4>1. held["channel"] # i
        BY <1>2, <1>4, <3>2 DEF Ids, NULL
      <4>2. QED
        BY <1>7, <1>8, <1>10, <2>1, <4>1 DEF Owns, Fields
    <3>3. QED
      BY <3>1, <3>2
  <2>2. Owns(n)'
    BY <1>4, <1>7, <1>8 DEF Owns, Fields
  <2>3. QED
    BY <1>4, <1>12, <1>13, <2>1, <2>2 DEF Inv, HandlesInv, OwedInv
<1>21. lastId' <= MaxHandles
  BY <1>7 DEF Inv, HandlesInv
<1>22. QED
  BY <1>7, <1>16, <1>17, <1>18, <1>19, <1>20, <1>21 DEF Inv, HandlesInv

LEMMA ChannelReturnsKeeps ==
  ASSUME Inv, program = "running", ChannelReturns PROVE Inv'
<1>1. /\ channel = "return" /\ channel' = "none" /\ announced' = NoObject
      /\ channelId' = channelId /\ H!LibraryDrops(announced)
      /\ UNCHANGED <<tracks, main, held, onTrack, device>>
  BY DEF ChannelReturns
<1>2. /\ Table!Inv' /\ library' = library \ {announced}
      /\ handles' = handles /\ lastId' = lastId /\ retired' = retired
  BY <1>1, LibraryLetsGo DEF Inv
<1>3. /\ ObjsKept /\ Ids' = Ids /\ lastId \in Nat /\ retired \subseteq Ids
  BY <1>2, SameObjs, TableFacts DEF Inv, Ids
<1>4. client \subseteq library'
  <2>1. announced \in UserChannels /\ client \subseteq library /\ client \subseteq T!Media
    BY <1>1 DEF Inv, HandlesInv, ChannelInv, TrackInv, MediaInv, TypeInv, T!TracksTypeOK
  <2>2. announced \notin T!Media
    BY <2>1, TheObjects DEF Others, T!Media
  <2>3. QED
    BY <1>2, <2>1, <2>2
<1>5. MediaInv' /\ TrackInv' /\ LateInv' /\ ConnectedInv'
  BY <1>1, <1>3, <1>4, OthersKept
<1>6. StateInv' /\ RetiredInv' /\ OwedInv' /\ lastId' <= MaxHandles
  BY <1>1, <1>2, <1>3, StateKept, RetiredKept, OwedKept DEF Inv, HandlesInv, onTrack
<1>7. ChannelInv'
  BY <1>1, <1>2 DEF Inv, HandlesInv, ChannelInv
<1>8. QED
  BY <1>2, <1>5, <1>6, <1>7 DEF Inv, HandlesInv

-----------------------------------------------------------------------------

LEMMA InitInv == Init => Inv
<1> SUFFICES ASSUME Init PROVE Inv
  OBVIOUS
<1>1. Table!Init
  BY DEF Init, H!Init, Table!Init
<1>2. Table!Inv
  BY <1>1, Table!InitInv, TableAssumptions
<1>3. MediaInv
  BY MediaInit
<1>4. /\ T!Init /\ main = "create" /\ held = [f \in Fields |-> NULL]
      /\ track = "none" /\ trackId = NULL /\ descId = NULL
      /\ channel = "none" /\ announced = NoObject /\ channelId = NULL
      /\ lastId = 0 /\ retired = {} /\ Ids = {}
  BY DEF Init, H!Init, Ids
<1>5. /\ client = {} /\ offer = "none" /\ program = "running"
      /\ opening = T!NoTrack
  BY <1>4 DEF T!Init
<1>6. StateInv /\ TrackInv /\ ChannelInv
  BY <1>4, <1>5 DEF StateInv, TrackInv, ChannelInv, Fields, NULL, T!Media
<1>7. RetiredInv /\ OwedInv /\ LateInv /\ ConnectedInv
  BY <1>4, <1>5 DEF RetiredInv, OwedInv, LateInv, ConnectedInv
<1>8. lastId <= MaxHandles
  BY <1>4, TableAssumptions
<1>9. QED
  BY <1>2, <1>3, <1>6, <1>7, <1>8 DEF Inv, HandlesInv

LEMMA NextInv == Inv /\ [Next]_vars => Inv'
<1> SUFFICES ASSUME Inv, [Next]_vars PROVE Inv'
  OBVIOUS
<1>1. CASE Next
  <2>1. program = "running"
    BY <1>1 DEF Next
  <2>2. CASE Main
    BY <2>1, <2>2, CreateSignalingKeeps, ConnectKeeps, LooksAtChannelKeeps, SendBeginsKeeps,
       SendEndsKeeps DEF Main
  <2>3. CASE OnTrack
    BY <2>1, <2>3, CloneDescriptionKeeps, ReleaseDescriptionKeeps, ShareAndStartKeeps DEF OnTrack
  <2>4. CASE OnDataChannel
    BY <2>1, <2>4, OnDataChannelBeginsKeeps, ReplaceChannelKeeps, ShareChannelKeeps,
       ChannelReturnsKeeps DEF OnDataChannel
  <2>5. CASE OfferHandled \/ TrackOpens \/ PliArrives \/ ChannelOpens
    BY <2>1, <2>5, OfferHandledKeeps, TrackOpensKeeps, PliArrivesKeeps, ChannelOpensKeeps
  <2>6. CASE \E m \in T!Media : SendFrame(m)
    BY <2>1, <2>6, SendFrameKeeps
  <2>7. QED
    BY <1>1, <2>2, <2>3, <2>4, <2>5, <2>6 DEF Next
<1>2. CASE UNCHANGED vars
  <2>1. UNCHANGED <<table, tracks, main, held, onTrack, onChannel, device>>
    BY <1>2 DEF vars
  <2>2. Table!Inv'
    BY <2>1, TableKept DEF Inv
  <2>3. MediaInv'
    BY <2>1, MediaKept DEF Inv, tracks, parts, onTrack
  <2>4. client' \subseteq library' /\ library \subseteq library'
    BY <2>1 DEF Inv, HandlesInv, TrackInv, table, tracks
  <2>5. program' = "lost handle" => main' = "send" /\ channel = "share"
    BY <2>1 DEF Inv, HandlesInv, LateInv, tracks
  <2>6. HandlesInv'
    BY <2>1, <2>4, <2>5, QuietStep DEF Inv, table, tracks
  <2>7. QED
    BY <2>2, <2>3, <2>6 DEF Inv
<1>3. QED
  BY <1>1, <1>2

\* The invariant that the rest follows from.
THEOREM Invariance == Spec => []Inv
  BY InitInv, NextInv, PTL DEF Spec

\* Frames, PLIs and pictures find the encoders, callbacks and senders that the offer
\* and the opening of the tracks have made for them.
THEOREM MediaInvariance == Spec => []MediaFindTheirWay
<1>1. Inv => MediaFindTheirWay
  BY DEF Inv, MediaInv
<1>2. QED
  BY <1>1, Invariance, PTL

\* A field of State names at most one object's handle: the set of the fields that own
\* a handle is empty or has one element.
LEMMA OneOwner ==
  ASSUME Inv, NEW id \in Ids
  PROVE  Cardinality({f \in Fields : held[f] = id /\ id \notin retired}) =
           IF id \notin retired /\ \E f \in Fields : held[f] = id THEN 1 ELSE 0
<1> DEFINE S == {f \in Fields : held[f] = id /\ id \notin retired}
<1>1. id # NULL
  BY TableFacts DEF Inv, Ids, NULL
<1>2. \A f, g \in Fields : held[f] = id /\ held[g] = id => f = g
  <2>1. "signaling" \notin UserChannels /\ "video" \notin UserChannels /\ "audio" \notin UserChannels
    BY TheObjects DEF Others
  <2>2. /\ held["signaling"] = id => handles[id].obj = "signaling"
        /\ held["video"] = id => handles[id].obj = "video"
        /\ held["audio"] = id => handles[id].obj = "audio"
        /\ held["channel"] = id => handles[id].obj \in UserChannels
    BY <1>1 DEF Inv, HandlesInv, StateInv, T!Media
  <2>3. QED
    BY <2>1, <2>2 DEF Fields
<1>3. CASE S = {}
  <2>1. ~(id \notin retired /\ \E f \in Fields : held[f] = id)
    BY <1>3
  <2>2. QED
    BY <1>3, <2>1, FS_EmptySet
<1>4. CASE S # {}
  <2>1. PICK f \in Fields : held[f] = id /\ id \notin retired
    BY <1>4
  <2>2. S = {f}
    BY <1>2, <2>1
  <2>3. QED
    BY <2>1, <2>2, FS_Singleton
<1>5. QED
  BY <1>3, <1>4

\* The shares the table has counted are those that State and on_track hold.
THEOREM HandlesInvariance == Spec => []HandlesAreOwned
<1>1. ASSUME Inv PROVE TypeOK
  <2>1. /\ T!TracksTypeOK /\ program \in {"running", "lost handle"} \cup T!Ends
        /\ device \in [T!Media -> {"none", "idle", "running"}]
    BY <1>1 DEF Inv, MediaInv, TypeInv
  <2>2. /\ lastId \in Nat /\ MaxHandles \in Nat /\ lastId <= MaxHandles
    BY <1>1, TableFacts, TableAssumptions DEF Inv, HandlesInv
  <2>3. /\ held \in [Fields -> 0..lastId]
        /\ main \in {"create", "connect", "sleep", "send", "sending"}
        /\ track \in {"none", "clone", "release", "share"}
        /\ {trackId, descId, channelId} \subseteq 0..lastId
        /\ channel \in {"none", "ref", "replace", "share", "return"}
        /\ announced \in UserChannels \cup {NoObject}
    BY <1>1 DEF Inv, HandlesInv, StateInv, TrackInv, ChannelInv
  <2>4. 0..lastId \subseteq 0..MaxHandles
    BY <2>2
  <2>5. QED
    BY <2>1, <2>3, <2>4 DEF TypeOK
<1>2. ASSUME Inv PROVE SharesAreInState
  <2>1. ASSUME NEW id \in Ids
        PROVE  handles[id].owed = Cardinality({f \in Fields : held[f] = id /\ id \notin retired})
                                    + (IF id = descId THEN 1 ELSE 0)
    <3>1. id = descId => ~\E f \in Fields : held[f] = id
      <4> SUFFICES ASSUME id = descId PROVE \A f \in Fields : held[f] # id
        OBVIOUS
      <4>1. id # NULL
        BY <1>2, TableFacts DEF Inv, Ids, NULL
      <4>2. track = "release" /\ handles[id].obj = DescriptionOf(opening)
        BY <1>2, <4>1 DEF Inv, HandlesInv, TrackInv
      <4>3. opening \in T!Media
        BY <1>2, <4>2, TrackFound
      <4>4. handles[id].obj \notin UserChannels \cup {"signaling"} \cup T!Media
        BY <4>2, <4>3, TheObjects DEF Others, DescriptionOf, T!Media
      <4>5. QED
        BY <1>2, <4>1, <4>4 DEF Inv, HandlesInv, StateInv, Fields, T!Media
    <3>2. handles[id].owed = IF Owns(id) THEN 1 ELSE 0
      BY <1>2 DEF Inv, HandlesInv, OwedInv
    <3>3. QED
      BY <1>2, <3>1, <3>2, OneOwner DEF Owns
  <2>2. ASSUME NEW f \in Fields, held[f] \in retired PROVE f = "channel" /\ channel = "share"
    <3>1. held[f] # NULL
      BY <1>2, <2>2, TableFacts DEF Inv, Ids, NULL
    <3>2. f = "channel"
      BY <1>2, <2>2, <3>1 DEF Inv, HandlesInv, StateInv, RetiredInv, Fields, T!Media
    <3>3. QED
      BY <1>2, <2>2, <3>1, <3>2 DEF Inv, HandlesInv, ChannelInv
  <2>3. QED
    BY <2>1, <2>2 DEF SharesAreInState, Ids
<1>3. Inv => HandlesAreOwned
  BY <1>1, <1>2 DEF HandlesAreOwned
<1>4. QED
  BY <1>3, Invariance, PTL

LEMMA ChannelsAreFinite == IsFiniteSet(UserChannels)
<1> DEFINE n == Len(Channels)
<1>1. Channels \in Seq(UserChannels)
  BY SumomoAssumption
<1>2. n \in Nat /\ DOMAIN Channels = 1..n /\ Channels \in [1..n -> UserChannels]
  BY <1>1
<1>3. \A o \in UserChannels : \E k \in 1..n : Channels[k] = o
  BY <1>2 DEF UserChannels, Range
<1>4. Channels \in Surjection(1..n, UserChannels)
  BY <1>2, <1>3 DEF Surjection
<1>5. IsFiniteSet(1..n)
  BY <1>2, FS_Interval
<1>6. QED
  BY <1>4, <1>5, FS_Surjection

\* main can use a handle that is not valid any more only while a data channel takes
\* the place of another.
THEOREM LateSendInvariance == Spec => []LateSendOnlyOnReplacement
<1>1. ASSUME Inv, program = "lost handle" PROVE LateSendOnlyOnReplacement
  <2>1. main = "send" /\ channel = "share"
    BY <1>1 DEF Inv, HandlesInv, LateInv
  <2>2. PICK id : id = held["channel"]
    OBVIOUS
  <2>3. /\ id # NULL /\ channelId # NULL /\ announced \in UserChannels
        /\ handles[channelId].obj = announced /\ handles[id].obj # announced
        /\ handles[id].obj \in UserChannels
    BY <1>1, <2>1, <2>2 DEF Inv, HandlesInv, StateInv, ChannelInv
  <2>4. id \in Ids /\ channelId \in Ids
    <3>1. lastId \in Nat /\ held["channel"] \in 0..lastId /\ channelId \in 0..lastId
      BY <1>1, TableFacts DEF Inv, HandlesInv, StateInv, ChannelInv, Fields
    <3>2. QED
      BY <2>2, <2>3, <3>1 DEF Ids, NULL
  <2>5. ~H!Fresh(announced) /\ ~H!Fresh(handles[id].obj)
    BY <1>1, <2>3, <2>4, TableFacts DEF Inv
  <2> DEFINE S == {o \in UserChannels : ~H!Fresh(o)}
             p == handles[id].obj
  <2>6. IsFiniteSet(S)
    BY ChannelsAreFinite, FS_Subset
  <2>7. IsFiniteSet({announced}) /\ Cardinality({announced}) = 1
    BY FS_Singleton
  <2>8. IsFiniteSet({announced} \cup {p}) /\ Cardinality({announced} \cup {p}) = 2
    <3>1. p \notin {announced}
      BY <2>3
    <3>2. QED
      BY SMTT(30), <2>7, <3>1, FS_AddElement
  <2>9. {announced} \cup {p} \subseteq S
    BY <2>3, <2>5
  <2>10. Cardinality({announced} \cup {p}) <= Cardinality(S) /\ Cardinality(S) \in Nat
    BY <2>6, <2>9, FS_Subset, FS_CardinalityType
  <2>11. Cardinality(S) > 1
    BY <2>8, <2>10
  <2>12. QED
    BY <2>1, <2>11 DEF LateSendOnlyOnReplacement
<1>2. Inv => LateSendOnlyOnReplacement
  BY <1>1 DEF LateSendOnlyOnReplacement
<1>3. QED
  BY <1>2, Invariance, PTL

=============================================================================
