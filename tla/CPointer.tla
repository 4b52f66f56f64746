------------------------------- MODULE CPointer -------------------------------
(***************************************************************************)
(* The table of C handles of src/sorac.cpp: class CPointer, the typed maps *)
(* g_*_map, and the sorac_*_create, _clone_, _share, _release and getter   *)
(* functions that use it.                                                  *)
(*                                                                         *)
(* The C API gives its user integers that look like pointers.  ref_map     *)
(* takes the address of a C++ object to its reference count, its id, a     *)
(* weak pointer and (while the count is positive) a strong one; one map    *)
(* per C type takes an id back to the address.  Every method of CPointer   *)
(* holds one mutex, so each is one action; a getter keeps the shared_ptr   *)
(* it got from Get until it returns, so it is two.                         *)
(*                                                                         *)
(* Objects stand for the C++ objects that ever exist.  They are created    *)
(* with make_shared, which puts the object and its control block in one    *)
(* allocation: the address comes back to the allocator only when the last  *)
(* weak pointer is gone too.                                               *)
(***************************************************************************)
EXTENDS Naturals, PartialMaps

CONSTANTS
  Objects,      \* the objects created in the life of the process
  Types,        \* the C types that have a map of their own
  TypeOf,       \* the type of each object
  Addrs,        \* heap addresses
  Threads,      \* threads that are inside a getter
  NoAddr,       \* "not allocated yet"
  NoObject,     \* "no object": a nullptr
  MaxHandles,   \* bound: ids given out
  MaxShares     \* bound: references the user holds through one id

ASSUME TypeOfAssumption == TypeOf \in [Objects -> Types]
ASSUME NoAddrAssumption == NoAddr \notin Addrs
ASSUME NoObjectAssumption == NoObject \notin Objects
ASSUME BoundsAssumption == MaxHandles \in Nat /\ MaxShares \in Nat

VARIABLES
  refMap,       \* ref_map: address -> [count, id, wp, ptr]
  typeMap,      \* the g_*_map of each type: id -> address
  lastId,       \* last_id
  address,      \* where each object was allocated
  library,      \* objects a shared_ptr outside the table keeps alive
  using,        \* the object a getter of each thread has got from Get
  handles,      \* what the user was given: id -> [obj, owed]
  retired       \* the ids whose last share the user has released

vars == <<refMap, typeMap, lastId, address, library, using, handles, retired>>

-----------------------------------------------------------------------------
(* Objects and their memory.                                               *)

Registered == DOMAIN refMap

StrongIn(table, o) ==
  \E a \in DOMAIN table : table[a].ptr = o

AliveWith(table, o) ==
  \/ o \in library
  \/ \E t \in Threads : using[t] = o
  \/ StrongIn(table, o)

Alive(o) == AliveWith(refMap, o)

\* A weak pointer keeps the memory of a dead object allocated.
Pinned(o) == Alive(o) \/ \E a \in Registered : refMap[a].wp = o

Free(a) == \A o \in Objects : address[o] = a => ~Pinned(o)

Fresh(o) == address[o] = NoAddr

-----------------------------------------------------------------------------
(* Handles.                                                                *)

Found(type, id) == id \in DOMAIN typeMap[type]

EntryOf(type, id) == refMap[typeMap[type][id]]

\* Get and Share look the address up with ref_map.at, which throws.
Throws(type, id) == Found(type, id) /\ typeMap[type][id] \notin Registered

\* Get: the object that a handle leads to, if any.
Get(type, id) ==
  IF Found(type, id) /\ ~Throws(type, id) /\ Alive(EntryOf(type, id).wp)
    THEN EntryOf(type, id).wp
    ELSE NoObject

\* Add (owed = 1) and Ref (owed = 0) find the object at an address.
Registration(o, owed) ==
  [count |-> owed, id |-> lastId + 1, wp |-> o,
   ptr |-> IF owed = 1 THEN o ELSE NoObject]

\* Mutant: the id is taken before last_id is incremented.
RegisterPostIncrement(o, a, owed) ==
  /\ lastId < MaxHandles
  /\ lastId' = lastId + 1
  /\ refMap' = Put(refMap, a, [Registration(o, owed) EXCEPT !.id = lastId])
  /\ typeMap' = [typeMap EXCEPT ![TypeOf[o]] = Put(@, lastId, a)]
  /\ handles' = Put(handles, lastId + 1, [obj |-> o, owed |-> owed])

\* Mutant: last_id is never stored back, so the next object gets the same id.
RegisterSameId(o, a, owed) ==
  /\ refMap' = Put(refMap, a, Registration(o, owed))
  /\ typeMap' = [typeMap EXCEPT ![TypeOf[o]] = Put(@, lastId + 1, a)]
  /\ handles' = Put(handles, lastId + 1, [obj |-> o, owed |-> owed])
  /\ UNCHANGED lastId

Register(o, a, owed) ==
  /\ lastId < MaxHandles
  /\ lastId' = lastId + 1
  /\ refMap' = Put(refMap, a, Registration(o, owed))
  /\ typeMap' = [typeMap EXCEPT ![TypeOf[o]] = Put(@, lastId + 1, a)]
  /\ handles' = Put(handles, lastId + 1, [obj |-> o, owed |-> owed])

\* What Add does with an address that is in the table already.
AddAgain(o, a) ==
  /\ handles[refMap[a].id].owed < MaxShares
  /\ refMap' = [refMap EXCEPT ![a].count = @ + 1, ![a].ptr = o, ![a].wp = o]
  /\ handles' = [handles EXCEPT ![refMap[a].id].owed = @ + 1]
  /\ UNCHANGED <<typeMap, lastId>>

Add(o, a) == IF a \in Registered THEN AddAgain(o, a) ELSE Register(o, a, 1)

-----------------------------------------------------------------------------
(* The discipline sorac.h asks of its user.                                *)

\* A handle, owned or not, may be used while the reference is valid: while the
\* object lives.
Usable(id) ==
  /\ id \in DOMAIN handles
  /\ Alive(handles[id].obj)

TypeOfHandle(id) == TypeOf[handles[id].obj]

-----------------------------------------------------------------------------
(* The actions.                                                            *)

Init ==
  /\ refMap = <<>>
  /\ typeMap = [type \in Types |-> <<>>]
  /\ lastId = 0
  /\ address = [o \in Objects |-> NoAddr]
  /\ library = {}
  /\ using = [t \in Threads |-> NoObject]
  /\ handles = <<>>
  /\ retired = {}

\* libdatachannel or the SDK makes an object (a track, a data channel, the
\* buffer of a captured frame) the user knows nothing of yet.
LibraryCreates(o, a) ==
  /\ Fresh(o) /\ Free(a)
  /\ address' = [address EXCEPT ![o] = a]
  /\ library' = library \cup {o}
  /\ UNCHANGED <<refMap, typeMap, lastId, using, handles, retired>>

\* The last shared_ptr outside the table goes away.
LibraryDrops(o) ==
  /\ o \in library
  /\ library' = library \ {o}
  /\ UNCHANGED <<refMap, typeMap, lastId, address, using, handles, retired>>

\* sorac_*_create and sorac_track_clone_description: a new object, given to Add.
Create(o, a) ==
  /\ Fresh(o) /\ Free(a)
  /\ address' = [address EXCEPT ![o] = a]
  /\ Add(o, a)
  /\ UNCHANGED <<library, using, retired>>

\* The on_track and on_data_channel callbacks and the frame's buffer getters:
\* Ref gives a handle that owns nothing.  When the address is registered it
\* returns the id that is there and changes nothing.
Ref(o) ==
  /\ o \in library
  /\ address[o] \notin Registered
  /\ Register(o, address[o], 0)
  /\ UNCHANGED <<address, library, using, retired>>

\* Mutant: Share forgets the count.
ShareUncounted(id) ==
  /\ Usable(id)
  /\ handles[id].owed < MaxShares
  /\ LET a == typeMap[TypeOfHandle(id)][id]
     IN  refMap' = [refMap EXCEPT ![a].ptr = refMap[a].wp]
  /\ handles' = [handles EXCEPT ![id].owed = @ + 1]
  /\ UNCHANGED <<typeMap, lastId, address, library, using, retired>>

\* Mutant: Share counts but does not take the strong pointer.
ShareWeakly(id) ==
  /\ Usable(id)
  /\ handles[id].owed < MaxShares
  /\ refMap' = [refMap EXCEPT ![typeMap[TypeOfHandle(id)][id]].count = @ + 1]
  /\ handles' = [handles EXCEPT ![id].owed = @ + 1]
  /\ UNCHANGED <<typeMap, lastId, address, library, using, retired>>

\* sorac_*_share; for a handle that leads nowhere it returns null and changes
\* nothing.
Share(id) ==
  /\ Usable(id)
  /\ handles[id].owed < MaxShares
  /\ LET type == TypeOfHandle(id)
         a    == typeMap[type][id]
     IN  /\ Get(type, id) # NoObject
         /\ refMap' = [refMap EXCEPT ![a].count = @ + 1, ![a].ptr = refMap[a].wp]
         /\ handles' = [handles EXCEPT ![id].owed = @ + 1]
  /\ UNCHANGED <<typeMap, lastId, address, library, using, retired>>

\* Mutant: the count is compared before it goes down.
DecrementedLate(a) ==
  IF refMap[a].count = 0
    THEN Erase(refMap, {a})
    ELSE [refMap EXCEPT ![a].count = @ - 1]

\* Remove, first half: the count goes down, and the entry goes at zero.
Decremented(a) ==
  IF refMap[a].count = 1
    THEN Erase(refMap, {a})
    ELSE [refMap EXCEPT ![a].count = @ - 1]

\* Mutant: an entry without a strong pointer counts as expired.
ExpiredIfWeak(table) == {a \in DOMAIN table : table[a].ptr = NoObject}

\* Mutant: the pruning is left out.
NeverExpired(table) == {}

\* Remove, second half: entries of every type whose object is dead go ...
Expired(table) == {a \in DOMAIN table : ~AliveWith(table, table[a].wp)}

\* ... but only the map of the released handle's type forgets their ids.
Forgotten(table) == {table[a].id : a \in Expired(table)}

\* sorac_*_release, of a share the user holds.
Release(id) ==
  /\ id \in DOMAIN handles
  /\ handles[id].owed > 0
  /\ LET type == TypeOfHandle(id)
         a    == typeMap[type][id]
         kept == Decremented(a)
         gone == Forgotten(kept) \cup (IF refMap[a].count = 1 THEN {id} ELSE {})
     IN  /\ Found(type, id) /\ ~Throws(type, id)
         /\ refMap' = Erase(kept, Expired(kept))
         /\ typeMap' = [typeMap EXCEPT ![type] = Erase(@, gone)]
  /\ handles' = [handles EXCEPT ![id].owed = @ - 1]
  /\ retired' = IF handles[id].owed = 1 THEN retired \cup {id} ELSE retired
  /\ UNCHANGED <<lastId, address, library, using>>

\* A getter or a sending function has called Get and uses what it returned (null
\* it dereferences, and the program is gone) ...
UseBegins(t, id) ==
  /\ using[t] = NoObject
  /\ Usable(id)
  /\ using' = [using EXCEPT ![t] = Get(TypeOfHandle(id), id)]
  /\ using'[t] # NoObject
  /\ UNCHANGED <<refMap, typeMap, lastId, address, library, handles, retired>>

\* ... and returns, which may destroy the object outside the table's mutex.
UseEnds(t) ==
  /\ using[t] # NoObject
  /\ using' = [using EXCEPT ![t] = NoObject]
  /\ UNCHANGED <<refMap, typeMap, lastId, address, library, handles, retired>>

Next ==
  \/ \E o \in Objects, a \in Addrs : LibraryCreates(o, a) \/ Create(o, a)
  \/ \E o \in Objects : LibraryDrops(o) \/ Ref(o)
  \/ \E id \in 1..lastId : Share(id) \/ Release(id)
  \/ \E t \in Threads, id \in 1..lastId : UseBegins(t, id)
  \/ \E t \in Threads : UseEnds(t)

Spec == Init /\ [][Next]_vars

-----------------------------------------------------------------------------
(* Properties.                                                             *)

Entries == [count : Nat, id : Nat, wp : Objects, ptr : Objects \cup {NoObject}]

Records == [obj : Objects, owed : Nat]

\* Every variable has its type; the ids in use are those given out so far.
TypeOK ==
  /\ Registered \subseteq Addrs
  /\ \A a \in Registered : refMap[a] \in Entries
  /\ DOMAIN typeMap = Types
  /\ \A type \in Types :
       /\ DOMAIN typeMap[type] \subseteq 1..lastId
       /\ \A id \in DOMAIN typeMap[type] : typeMap[type][id] \in Addrs
  /\ lastId \in Nat
  /\ address \in [Objects -> Addrs \cup {NoAddr}]
  /\ library \in SUBSET Objects
  /\ using \in [Threads -> Objects \cup {NoObject}]
  /\ DOMAIN handles = 1..lastId
  /\ \A id \in 1..lastId : handles[id] \in Records
  /\ retired \subseteq 1..lastId

\* A handle whose object lives leads Get and Share to that object until the last
\* share taken through it is released.  No release through other handles, no
\* pruning and no reuse of a freed address takes it away, or leads it to another
\* object.  From that release on it leads to null (sorac.cpp:59), also for those who
\* go on using it as the weak handle it was: that is not what sorac.h:17 says, by
\* which both kinds can be used while the reference is valid.
LivingHandleResolves ==
  \A id \in 1..lastId : Usable(id) =>
    IF id \in retired
      THEN Get(TypeOfHandle(id), id) = NoObject
      ELSE /\ Get(TypeOfHandle(id), id) = handles[id].obj
           /\ EntryOf(TypeOfHandle(id), id).id = id

\* The count that ref_map keeps for an object is the number of references the
\* user still has to release, and the strong pointer is there exactly then.
CountIsOwed ==
  \A a \in Registered :
    /\ refMap[a].count = handles[refMap[a].id].owed
    /\ refMap[a].ptr = IF refMap[a].count > 0 THEN refMap[a].wp ELSE NoObject

\* As long as the user holds a share, the object is alive, whatever the
\* library, other threads and other handles do.
OwnedIsAlive ==
  \A id \in 1..lastId : handles[id].owed > 0 => Alive(handles[id].obj)

\* No leak: an object is alive only if the library holds it, a getter is using
\* it or the user owes a release of it.
AliveIsHeld ==
  \A o \in Objects :
    Alive(o) => \/ o \in library
                \/ \E t \in Threads : using[t] = o
                \/ \E id \in 1..lastId : handles[id].obj = o /\ handles[id].owed > 0

\* Two registered objects never share an id, a registered id is in the map of
\* its object's type, and the entry at an address is that of the object there.
TableConsistent ==
  /\ \A a \in Registered :
       /\ address[refMap[a].wp] = a
       /\ refMap[a].id \in DOMAIN typeMap[TypeOf[refMap[a].wp]]
       /\ typeMap[TypeOf[refMap[a].wp]][refMap[a].id] = a
  /\ \A a, b \in Registered : refMap[a].id = refMap[b].id => a = b

IdsOf(o) == {refMap[a].id : a \in {b \in Registered : refMap[b].wp = o}}

\* An object that lives on keeps its id, unless the step is the release of the
\* last share of that id: pruning never takes an entry that is in use.
LiveEntryStays ==
  [][\A o \in Objects : \A id \in IdsOf(o) :
       Alive(o)' => \/ id \in IdsOf(o)'
                    \/ handles[id].owed = 1 /\ handles'[id].owed = 0]_vars

\* The comment in Remove and in Share (sorac.cpp:56 and 126) says that the
\* entry of an id that is in the typed map "must exist" in ref_map.
EntryMustExist ==
  \A type \in Types : \A id \in DOMAIN typeMap[type] : ~Throws(type, id)

-----------------------------------------------------------------------------
(* The table implements the promise.                                       *)

\* Where a registered object lives, and the table as seen from the objects.
EntryOfObject ==
  [o \in {refMap[a].wp : a \in Registered} |->
     [id |-> refMap[address[o]].id, owed |-> refMap[address[o]].count]]

Registry ==
  INSTANCE HandleRegistry WITH
    registered <- EntryOfObject,
    held       <- library \cup ({using[t] : t \in Threads} \ {NoObject}),
    made       <- {o \in Objects : address[o] # NoAddr}

\* Keying the table by an address that the allocator may reuse, and pruning
\* dead entries only as a by-product of a release, is not observable: the table
\* behaves as one keyed by the identity of the object.
ImplementsRegistry == Registry!Spec
=============================================================================
