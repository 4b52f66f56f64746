---------------------------- MODULE CPointerProofs ----------------------------
(***************************************************************************)
(* Proofs about CPointer, for any objects, types, addresses, threads and   *)
(* bounds.  Inv is inductive; the safety properties of CPointer follow.    *)
(***************************************************************************)
EXTENDS CPointer, TLAPS

\* An entry belongs to the handle with its id, and the map of the type of its
\* object leads back to it.
EntriesBacked ==
  \A a \in Registered :
    /\ refMap[a].id \in 1..lastId
    /\ handles[refMap[a].id].obj = refMap[a].wp
    /\ handles[refMap[a].id].owed = refMap[a].count
    /\ refMap[a].id \notin retired
    /\ refMap[a].ptr = IF refMap[a].count > 0 THEN refMap[a].wp ELSE NoObject
    /\ address[refMap[a].wp] = a
    /\ refMap[a].id \in DOMAIN typeMap[TypeOf[refMap[a].wp]]
    /\ typeMap[TypeOf[refMap[a].wp]][refMap[a].id] = a

\* A handle the user may still use or must still release has an entry.
HandlesBacked ==
  \A id \in 1..lastId :
    (handles[id].owed > 0 \/ (id \notin retired /\ Alive(handles[id].obj)))
      => \E a \in Registered : refMap[a].id = id

\* Handles and living objects are about allocated objects only ...
Allocated ==
  /\ \A id \in 1..lastId : address[handles[id].obj] # NoAddr
  /\ \A o \in Objects : Alive(o) => address[o] # NoAddr

\* ... and the allocator never gives out an address that is still pinned.
OneAtAnAddress ==
  \A o, p \in Objects :
    /\ Pinned(o) /\ Pinned(p) /\ address[o] = address[p] /\ address[o] # NoAddr
    => o = p

\* The map of its type forgets a handle with its last share.
RetiredForgotten ==
  \A id \in retired : id \notin DOMAIN typeMap[TypeOfHandle(id)]

Inv ==
  /\ TypeOK /\ EntriesBacked /\ HandlesBacked /\ RetiredForgotten
  /\ Allocated /\ OneAtAnAddress

-----------------------------------------------------------------------------

LEMMA InitInv == Init => Inv
  BY NoObjectAssumption, TypeOfAssumption
  DEF Init, Inv, TypeOK, EntriesBacked, HandlesBacked, RetiredForgotten, Allocated,
      OneAtAnAddress, Registered, Alive, AliveWith, StrongIn, Pinned, Entries, Records

\* The strong pointer of an entry is that of its own object.
LEMMA OwnPointer ==
  ASSUME Inv, NEW a \in Registered, refMap[a].ptr # NoObject
  PROVE  refMap[a].ptr = refMap[a].wp /\ refMap[a].count > 0
  BY DEF Inv, EntriesBacked

\* A step that does not touch the table and brings nothing to life.
LEMMA TableUntouched ==
  ASSUME Inv, UNCHANGED <<refMap, typeMap, lastId, address, handles, retired>>,
         library' \in SUBSET Objects,
         using' \in [Threads -> Objects \cup {NoObject}],
         \A o \in Objects : Alive(o)' => Alive(o)
  PROVE  Inv'
<1>1. TypeOK'
  BY DEF Inv, TypeOK, Registered, Entries, Records
<1>2. EntriesBacked'
  BY DEF Inv, EntriesBacked, Registered
<1>3. HandlesBacked'
  <2>1. \A id \in 1..lastId : Alive(handles[id].obj)' => Alive(handles[id].obj)
    BY DEF Inv, TypeOK, Records
  <2>2. QED
    BY <2>1 DEF Inv, HandlesBacked, Registered
<1>4. RetiredForgotten'
  BY DEF Inv, RetiredForgotten, TypeOfHandle
<1>5. Allocated' /\ OneAtAnAddress'
  BY DEF Inv, Allocated, OneAtAnAddress, Pinned, Registered
<1>6. QED
  BY <1>1, <1>2, <1>3, <1>4, <1>5 DEF Inv

\* Dropping a reference outside the table only makes objects die.
LEMMA LibraryDropsInv ==
  ASSUME Inv, NEW o \in Objects, LibraryDrops(o) PROVE Inv'
<1>1. \A p \in Objects : Alive(p)' => Alive(p)
  BY DEF LibraryDrops, Alive, AliveWith, StrongIn
<1>2. QED
  BY <1>1, TableUntouched DEF LibraryDrops, Inv, TypeOK

LEMMA UseEndsInv ==
  ASSUME Inv, NEW t \in Threads, UseEnds(t) PROVE Inv'
<1>1. using' \in [Threads -> Objects \cup {NoObject}]
  BY DEF UseEnds, Inv, TypeOK
<1>2. \A p \in Objects : Alive(p)' => Alive(p)
  BY NoObjectAssumption DEF UseEnds, Alive, AliveWith, StrongIn, Inv, TypeOK
<1>3. QED
  BY <1>1, <1>2, TableUntouched DEF UseEnds, Inv, TypeOK

\* The getter holds an object that was alive already: nothing comes to life.
LEMMA UseBeginsInv ==
  ASSUME Inv, NEW t \in Threads, NEW id \in 1..lastId, UseBegins(t, id) PROVE Inv'
<1> DEFINE p == Get(TypeOfHandle(id), id)
<1>1. using' = [using EXCEPT ![t] = p] /\ p # NoObject
  BY DEF UseBegins, Inv, TypeOK
<1>2. p \in Objects /\ Alive(p)
  <2>1. TypeOfHandle(id) \in Types
    BY TypeOfAssumption DEF TypeOfHandle, Inv, TypeOK, Records
  <2>2. QED
    BY <1>1, <2>1 DEF Get, Found, Throws, EntryOf, Inv, TypeOK, Entries, Registered
<1>3. UNCHANGED <<refMap, typeMap, lastId, address, library, handles, retired>>
  BY DEF UseBegins
<1>4. using' \in [Threads -> Objects \cup {NoObject}]
  BY <1>1, <1>2 DEF Inv, TypeOK
<1>5. \A o \in Objects : Alive(o)' => Alive(o)
  BY <1>1, <1>2, <1>3, NoObjectAssumption
  DEF Alive, AliveWith, StrongIn, Inv, TypeOK
<1>6. QED
  BY <1>3, <1>4, <1>5, TableUntouched DEF Inv, TypeOK

LEMMA LibraryCreatesInv ==
  ASSUME Inv, NEW o \in Objects, NEW a \in Addrs, LibraryCreates(o, a) PROVE Inv'
  BY NoObjectAssumption, NoAddrAssumption
  DEF Inv, LibraryCreates, Fresh, Free, TypeOK, EntriesBacked, HandlesBacked,
      RetiredForgotten, TypeOfHandle, Allocated, OneAtAnAddress, Registered, Alive, AliveWith, StrongIn, Pinned,
      Entries, Records

\* A handle whose last share has been released leads nowhere.
LEMMA RetiredLeadsNowhere ==
  ASSUME Inv, NEW id \in retired
  PROVE  Get(TypeOfHandle(id), id) = NoObject
  BY DEF Inv, RetiredForgotten, Get, Found

\* Any other handle of a living object leads to its own entry.
LEMMA UsableEntry ==
  ASSUME Inv, NEW id \in 1..lastId, Usable(id), id \notin retired
  PROVE  /\ TypeOfHandle(id) \in Types
         /\ id \in DOMAIN typeMap[TypeOfHandle(id)]
         /\ typeMap[TypeOfHandle(id)][id] \in Registered
         /\ EntryOf(TypeOfHandle(id), id).id = id
         /\ EntryOf(TypeOfHandle(id), id).wp = handles[id].obj
         /\ Get(TypeOfHandle(id), id) = handles[id].obj
<1>1. PICK a \in Registered : refMap[a].id = id
  BY DEF Inv, HandlesBacked, Usable
<1>2. /\ refMap[a].wp = handles[id].obj
      /\ id \in DOMAIN typeMap[TypeOfHandle(id)]
      /\ typeMap[TypeOfHandle(id)][id] = a
  BY <1>1 DEF Inv, EntriesBacked, TypeOfHandle
<1>3. TypeOfHandle(id) \in Types
  BY TypeOfAssumption DEF TypeOfHandle, Inv, TypeOK, Records
<1>4. QED
  BY <1>1, <1>2, <1>3 DEF EntryOf, Get, Found, Throws, Usable

\* Share makes the pointer of a living object strong.
LEMMA ShareInv ==
  ASSUME Inv, NEW id \in 1..lastId, Share(id) PROVE Inv'
<1>1. PICK a \in Registered :
        /\ a = typeMap[TypeOfHandle(id)][id]
        /\ refMap[a].id = id
        /\ refMap[a].wp = handles[id].obj
  BY UsableEntry, RetiredLeadsNowhere DEF Share, EntryOf
<1>2. /\ refMap' = [refMap EXCEPT ![a].count = @ + 1, ![a].ptr = refMap[a].wp]
      /\ handles' = [handles EXCEPT ![id].owed = @ + 1]
      /\ UNCHANGED <<typeMap, lastId, address, library, using, retired>>
      /\ Alive(handles[id].obj) /\ id \notin retired
  BY <1>1, RetiredLeadsNowhere DEF Share, Usable
<1>3. /\ Registered' = Registered
      /\ \A b \in Registered : b # a => refMap'[b] = refMap[b]
      /\ refMap'[a] = [refMap[a] EXCEPT !.count = @ + 1, !.ptr = refMap[a].wp]
  BY <1>1, <1>2 DEF Registered
<1>4. /\ \A i \in 1..lastId : i # id => handles'[i] = handles[i]
      /\ handles'[id] = [handles[id] EXCEPT !.owed = @ + 1]
      /\ DOMAIN handles' = 1..lastId
  BY <1>2 DEF Inv, TypeOK
<1>5. /\ \A b \in Registered : refMap'[b].wp = refMap[b].wp /\ refMap'[b].id = refMap[b].id
      /\ refMap'[a].count = refMap[a].count + 1 /\ refMap'[a].ptr = refMap[a].wp
      /\ \A b \in Registered : refMap[b] \in Entries /\ refMap'[b] \in Entries
  <2>1. \A b \in Registered : refMap[b] \in Entries
    BY DEF Inv, TypeOK
  <2>2. refMap'[a] = [count |-> refMap[a].count + 1, id |-> refMap[a].id,
                      wp |-> refMap[a].wp, ptr |-> refMap[a].wp]
    BY <1>1, <1>3, <2>1 DEF Entries
  <2>3. refMap'[a] \in Entries
    BY <1>1, <2>1, <2>2 DEF Entries
  <2>4. QED
    BY <1>1, <1>3, <2>1, <2>2, <2>3
<1>6. /\ \A i \in 1..lastId : /\ handles'[i].obj = handles[i].obj
                               /\ handles[i] \in Records /\ handles'[i] \in Records
      /\ handles'[id].owed = handles[id].owed + 1
  BY <1>4 DEF Inv, TypeOK, Records
<1>7. \A o \in Objects : (Alive(o)' <=> Alive(o)) /\ (Pinned(o)' <=> Pinned(o))
  <2> TAKE o \in Objects
  <2>1. StrongIn(refMap, o) => StrongIn(refMap, o)'
    <3>1. \A b \in Registered : refMap[b].ptr = o => refMap'[b].ptr = o
      <4>1. refMap[a].ptr = o => refMap[a].wp = o
        BY <1>1, OwnPointer, NoObjectAssumption
      <4>2. QED
        BY <1>1, <1>3, <1>5, <4>1
    <3>2. QED
      BY <1>3, <3>1 DEF StrongIn, Registered
  <2>2. StrongIn(refMap, o)' => StrongIn(refMap, o) \/ o = handles[id].obj
    BY <1>1, <1>3, <1>5 DEF StrongIn, Registered
  <2>3. Alive(o)' <=> Alive(o)
    BY <1>2, <2>1, <2>2 DEF Alive, AliveWith
  <2>4. QED
    BY <2>3, <1>3, <1>5 DEF Pinned
<1>8. TypeOK'
  BY <1>2, <1>3, <1>4, <1>5, <1>6 DEF Inv, TypeOK
<1>9. EntriesBacked'
  <2> SUFFICES ASSUME NEW b \in Registered
               PROVE  /\ refMap'[b].id \in 1..lastId
                      /\ handles'[refMap'[b].id].obj = refMap'[b].wp
                      /\ handles'[refMap'[b].id].owed = refMap'[b].count
                      /\ refMap'[b].id \notin retired'
                      /\ refMap'[b].ptr = IF refMap'[b].count > 0 THEN refMap'[b].wp
                                                                ELSE NoObject
                      /\ address[refMap'[b].wp] = b
                      /\ refMap'[b].id \in DOMAIN typeMap[TypeOf[refMap'[b].wp]]
                      /\ typeMap[TypeOf[refMap'[b].wp]][refMap'[b].id] = b
    BY <1>2, <1>3 DEF EntriesBacked
  <2>1. CASE b = a
    <3>1. refMap[a].count \in Nat
      BY <1>5 DEF Entries
    <3>2. refMap'[b].count > 0 /\ refMap'[b].ptr = refMap'[b].wp
      BY <1>1, <1>5, <2>1, <3>1
    <3>3. handles'[id].owed = refMap'[a].count
      BY <1>1, <1>5, <1>6 DEF Inv, EntriesBacked
    <3>4. refMap'[b].id = id /\ refMap'[b].wp = refMap[a].wp
      BY <1>1, <1>5, <2>1
    <3>5. /\ address[refMap[a].wp] = a
          /\ id \in DOMAIN typeMap[TypeOf[refMap[a].wp]]
          /\ typeMap[TypeOf[refMap[a].wp]][id] = a
      BY <1>1 DEF Inv, EntriesBacked
    <3>6. handles'[id].obj = refMap[a].wp /\ id \notin retired'
      BY <1>1, <1>2, <1>6
    <3>7. QED
      BY <2>1, <3>2, <3>3, <3>4, <3>5, <3>6
  <2>2. CASE b # a
    <3>1. refMap[b].id # id
      BY <1>1, <2>2 DEF Inv, EntriesBacked
    <3>2. QED
      <4>1. refMap'[b] = refMap[b] /\ retired' = retired
        BY <1>2, <1>3, <2>2
      <4>2. refMap[b].id \in 1..lastId => handles'[refMap[b].id] = handles[refMap[b].id]
        BY <1>4, <3>1
      <4>3. QED
        BY <4>1, <4>2 DEF Inv, EntriesBacked
  <2>3. QED
    BY <2>1, <2>2
<1>10. HandlesBacked'
  <2>1. \A i \in 1..lastId : Alive(handles[i].obj)' <=> Alive(handles[i].obj)
    BY <1>6, <1>7 DEF Records
  <2> SUFFICES ASSUME NEW i \in 1..lastId,
                      handles'[i].owed > 0 \/ (i \notin retired' /\ Alive(handles[i].obj)')
               PROVE  \E b \in Registered : refMap'[b].id = i
    BY <1>2, <1>3 DEF HandlesBacked
  <2>2. CASE i = id
    BY <1>1, <1>5, <2>2
  <2>3. CASE i # id
    <3>1. handles[i].owed > 0 \/ (i \notin retired /\ Alive(handles[i].obj))
      BY <1>2, <1>4, <2>1, <2>3
    <3>2. QED
      BY <1>5, <3>1 DEF Inv, HandlesBacked
  <2>4. QED
    BY <2>2, <2>3
<1>11. Allocated' /\ OneAtAnAddress'
  BY <1>2, <1>6, <1>7 DEF Inv, TypeOK, Allocated, OneAtAnAddress
<1>12. RetiredForgotten'
  BY <1>2, <1>6 DEF Inv, TypeOK, RetiredForgotten, TypeOfHandle
<1>13. QED
  BY <1>8, <1>9, <1>10, <1>11, <1>12 DEF Inv

\* A new entry for o at an address that has none: what Create and Ref have in
\* common.
LEMMA RegisterInv ==
  ASSUME Inv, NEW o \in Objects, NEW a \in Addrs, NEW owed \in {0, 1},
         Register(o, a, owed), UNCHANGED <<library, using, retired>>,
         a \notin Registered,
         address' \in [Objects -> Addrs \cup {NoAddr}],
         address'[o] = a,
         \A p \in Objects : p # o => address'[p] = address[p],
         \A p \in Objects : p # o /\ Pinned(p) => address[p] # a,
         \A b \in Registered : refMap[b].wp # o,
         \A id \in 1..lastId :
           handles[id].obj = o => handles[id].owed = 0 /\ id \in retired,
         owed = 0 => o \in library
  PROVE  Inv'
<1> DEFINE new == lastId + 1
<1>1. /\ lastId \in Nat /\ new \in Nat /\ new \notin 1..lastId /\ lastId' = new
      /\ retired \subseteq 1..lastId /\ retired' = retired
      /\ 1..new = (1..lastId) \cup {new}
  BY DEF Register, Inv, TypeOK
<1>2. /\ Registered' = Registered \cup {a}
      /\ refMap'[a] = Registration(o, owed)
      /\ \A b \in Registered : refMap'[b] = refMap[b] /\ b # a
  BY DEF Register, Registered, Put
<1>3. /\ DOMAIN handles' = 1..new
      /\ handles'[new] = [obj |-> o, owed |-> owed]
      /\ \A id \in 1..lastId : handles'[id] = handles[id]
  BY <1>1 DEF Register, Inv, TypeOK, Put
<1>4. /\ DOMAIN typeMap' = Types
      /\ DOMAIN typeMap'[TypeOf[o]] = DOMAIN typeMap[TypeOf[o]] \cup {new}
      /\ typeMap'[TypeOf[o]][new] = a
      /\ \A id \in DOMAIN typeMap[TypeOf[o]] :
            typeMap'[TypeOf[o]][id] = typeMap[TypeOf[o]][id]
      /\ \A type \in Types : type # TypeOf[o] => typeMap'[type] = typeMap[type]
  <2>1. TypeOf[o] \in Types
    BY TypeOfAssumption
  <2>2. typeMap' = [typeMap EXCEPT ![TypeOf[o]] = Put(@, new, a)]
    BY DEF Register
  <2>3. typeMap'[TypeOf[o]] = Put(typeMap[TypeOf[o]], new, a)
    BY <2>1, <2>2 DEF Inv, TypeOK
  <2>4. \A id \in DOMAIN typeMap[TypeOf[o]] : id # new
    BY <1>1, <2>1 DEF Inv, TypeOK
  <2>5. QED
    BY <2>1, <2>2, <2>3, <2>4 DEF Inv, TypeOK, Put
<1>5. Registration(o, owed) = [count |-> owed, id |-> new, wp |-> o,
                               ptr |-> IF owed = 1 THEN o ELSE NoObject]
  BY DEF Registration
<1>6. /\ Alive(o)' /\ Pinned(o)'
      /\ \A p \in Objects : p # o => (Alive(p)' <=> Alive(p)) /\ (Pinned(p)' <=> Pinned(p))
  <2>1. Alive(o)'
    <3>1. CASE owed = 0
      BY <3>1 DEF Alive, AliveWith
    <3>2. CASE owed = 1
      BY <1>2, <1>5, <3>2 DEF Alive, AliveWith, StrongIn, Registered
    <3>3. QED
      BY <3>1, <3>2
  <2>2. ASSUME NEW p \in Objects, p # o
        PROVE  (Alive(p)' <=> Alive(p)) /\ (Pinned(p)' <=> Pinned(p))
    <3>1. refMap'[a].ptr # p /\ refMap'[a].wp # p
      BY <1>2, <1>5, <2>2, NoObjectAssumption
    <3>2. Alive(p)' <=> Alive(p)
      BY <1>2, <3>1 DEF Alive, AliveWith, StrongIn, Registered
    <3>3. QED
      BY <1>2, <3>1, <3>2 DEF Pinned
  <2>3. QED
    BY <2>1, <2>2 DEF Pinned
<1>7. TypeOK'
  <2>1. refMap'[a] \in Entries
    BY <1>1, <1>2, <1>5 DEF Entries
  <2>2. handles'[new] \in Records
    BY <1>3 DEF Records
  <2>3. \A type \in Types :
          /\ DOMAIN typeMap'[type] \subseteq 1..new
          /\ \A id \in DOMAIN typeMap'[type] : typeMap'[type][id] \in Addrs
    BY <1>1, <1>4 DEF Inv, TypeOK
  <2>4. QED
    BY <1>1, <1>2, <1>3, <1>4, <2>1, <2>2, <2>3 DEF Inv, TypeOK
<1>8. EntriesBacked'
  <2> SUFFICES ASSUME NEW b \in Registered'
               PROVE  /\ refMap'[b].id \in 1..new
                      /\ handles'[refMap'[b].id].obj = refMap'[b].wp
                      /\ handles'[refMap'[b].id].owed = refMap'[b].count
                      /\ refMap'[b].id \notin retired'
                      /\ refMap'[b].ptr = IF refMap'[b].count > 0 THEN refMap'[b].wp
                                                                ELSE NoObject
                      /\ address'[refMap'[b].wp] = b
                      /\ refMap'[b].id \in DOMAIN typeMap'[TypeOf[refMap'[b].wp]]
                      /\ typeMap'[TypeOf[refMap'[b].wp]][refMap'[b].id] = b
    BY <1>1 DEF EntriesBacked
  <2>1. CASE b = a
    BY <1>1, <1>2, <1>3, <1>4, <1>5, <2>1
  <2>2. CASE b \in Registered
    <3>1. refMap'[b] = refMap[b] /\ refMap[b].wp \in Objects /\ refMap[b].wp # o
      BY <1>2, <2>2 DEF Inv, TypeOK, Entries
    <3>2. /\ refMap[b].id \in 1..lastId
          /\ handles[refMap[b].id].obj = refMap[b].wp
          /\ handles[refMap[b].id].owed = refMap[b].count
          /\ refMap[b].id \notin retired
          /\ refMap[b].ptr = IF refMap[b].count > 0 THEN refMap[b].wp ELSE NoObject
          /\ address[refMap[b].wp] = b
          /\ refMap[b].id \in DOMAIN typeMap[TypeOf[refMap[b].wp]]
          /\ typeMap[TypeOf[refMap[b].wp]][refMap[b].id] = b
      BY <2>2 DEF Inv, EntriesBacked
    <3>3. TypeOf[refMap[b].wp] \in Types
      BY <3>1, TypeOfAssumption
    <3>4. QED
      BY <1>1, <1>3, <1>4, <3>1, <3>2, <3>3
  <2>3. QED
    BY <1>2, <2>1, <2>2
<1>9. HandlesBacked'
  <2> SUFFICES ASSUME NEW id \in 1..new,
                      handles'[id].owed > 0 \/ (id \notin retired' /\ Alive(handles[id].obj)')
               PROVE  \E b \in Registered' : refMap'[b].id = id
    BY <1>1 DEF HandlesBacked
  <2>1. CASE id = new
    BY <1>2, <1>5, <2>1
  <2>2. CASE id \in 1..lastId
    <3>1. handles'[id] = handles[id] /\ handles[id] \in Records
      BY <1>3, <2>2 DEF Inv, TypeOK
    <3>2. handles[id].obj # o
      BY <3>1, <2>2
    <3>3. Alive(handles[id].obj)' => Alive(handles[id].obj)
      BY <1>6, <3>1, <3>2 DEF Records
    <3>4. PICK b \in Registered : refMap[b].id = id
      BY <2>2, <3>1, <3>3 DEF Inv, HandlesBacked
    <3>5. QED
      BY <1>2, <3>4
  <2>3. QED
    BY <1>1, <2>1, <2>2
<1>10. Allocated'
  <2>1. a # NoAddr
    BY NoAddrAssumption
  <2>2. \A id \in 1..lastId : address'[handles[id].obj] # NoAddr
    BY <2>1 DEF Inv, Allocated, TypeOK, Records
  <2>3. \A id \in 1..new : address'[handles'[id].obj] # NoAddr
    BY <1>1, <1>3, <2>1, <2>2
  <2>4. \A p \in Objects : Alive(p)' => address'[p] # NoAddr
    BY <1>6, <2>1 DEF Inv, Allocated
  <2>5. QED
    BY <1>1, <2>3, <2>4 DEF Allocated
<1>11. OneAtAnAddress'
  BY <1>6 DEF Inv, OneAtAnAddress
<1>12. RetiredForgotten'
  <2> SUFFICES ASSUME NEW id \in retired PROVE id \notin DOMAIN typeMap'[TypeOf[handles'[id].obj]]
    BY <1>1 DEF RetiredForgotten, TypeOfHandle
  <2>1. id \in 1..lastId /\ id # new /\ handles'[id] = handles[id]
    BY <1>1, <1>3
  <2>2. id \notin DOMAIN typeMap[TypeOf[handles[id].obj]]
    BY DEF Inv, RetiredForgotten, TypeOfHandle
  <2>3. TypeOf[handles[id].obj] \in Types
    BY <2>1, TypeOfAssumption DEF Inv, TypeOK, Records
  <2>4. QED
    BY <1>4, <2>1, <2>2, <2>3
<1>13. QED
  BY <1>7, <1>8, <1>9, <1>10, <1>11, <1>12 DEF Inv

LEMMA CreateInv ==
  ASSUME Inv, NEW o \in Objects, NEW a \in Addrs, Create(o, a) PROVE Inv'
<1>1. address[o] = NoAddr /\ address' = [address EXCEPT ![o] = a]
  BY DEF Create, Fresh
<1>2. \A p \in Objects : Pinned(p) => address[p] # a
  BY DEF Create, Free
<1>3. \A b \in Registered : refMap[b].wp \in Objects /\ refMap[b].wp # o /\ b # a
  <2> TAKE b \in Registered
  <2>1. refMap[b].wp \in Objects /\ Pinned(refMap[b].wp) /\ address[refMap[b].wp] = b /\ b \in Addrs
    BY DEF Inv, TypeOK, EntriesBacked, Entries, Pinned
  <2>2. QED
    BY <1>1, <1>2, <2>1, NoAddrAssumption
<1>4. Register(o, a, 1) /\ UNCHANGED <<library, using, retired>>
  BY <1>3 DEF Create, Add
<1>5. \A id \in 1..lastId : handles[id].obj # o
  BY <1>1 DEF Inv, Allocated
<1>6. /\ address' \in [Objects -> Addrs \cup {NoAddr}]
      /\ address'[o] = a
      /\ \A p \in Objects : p # o => address'[p] = address[p]
  BY <1>1 DEF Inv, TypeOK
<1>7. QED
  BY <1>2, <1>3, <1>4, <1>5, <1>6, RegisterInv

LEMMA RefInv ==
  ASSUME Inv, NEW o \in Objects, Ref(o) PROVE Inv'
<1>1. /\ o \in library /\ address[o] \notin Registered
      /\ Register(o, address[o], 0)
      /\ UNCHANGED <<address, library, using, retired>>
  BY DEF Ref
<1>2. Alive(o) /\ Pinned(o)
  BY <1>1 DEF Alive, AliveWith, Pinned
<1>3. address[o] \in Addrs
  BY <1>2 DEF Inv, TypeOK, Allocated
<1>4. \A p \in Objects : p # o /\ Pinned(p) => address[p] # address[o]
  BY <1>2, <1>3, NoAddrAssumption DEF Inv, OneAtAnAddress
<1>5. \A b \in Registered : refMap[b].wp # o
  BY <1>1 DEF Inv, EntriesBacked
<1>6. \A id \in 1..lastId :
        handles[id].obj = o => handles[id].owed = 0 /\ id \in retired
  <2> SUFFICES ASSUME NEW id \in 1..lastId, handles[id].obj = o
               PROVE  handles[id].owed = 0 /\ id \in retired
    OBVIOUS
  <2>1. ~ \E b \in Registered : refMap[b].id = id
    BY <1>5 DEF Inv, EntriesBacked
  <2>2. ~(handles[id].owed > 0) /\ id \in retired
    BY <1>2, <2>1 DEF Inv, HandlesBacked
  <2>3. handles[id].owed \in Nat
    BY DEF Inv, TypeOK, Records
  <2>4. QED
    BY <2>2, <2>3
<1>7. address' \in [Objects -> Addrs \cup {NoAddr}]
  BY <1>1 DEF Inv, TypeOK
<1>8. QED
  BY <1>1, <1>3, <1>4, <1>5, <1>6, <1>7, RegisterInv

\* The ids in the table are distinct.
LEMMA IdUnique ==
  ASSUME Inv, NEW a \in Registered, NEW b \in Registered, refMap[a].id = refMap[b].id
  PROVE  a = b
  BY DEF Inv, EntriesBacked

\* The table between the two halves of Remove: one reference to the entry at a
\* less.  Pruning it then loses no strong pointer.
LEMMA DecrementedTable ==
  ASSUME Inv, NEW a \in Registered, refMap[a].count > 0
  PROVE  LET kept == Decremented(a) IN
         /\ \A b \in DOMAIN kept :
               /\ b \in Registered
               /\ kept[b] \in Entries
               /\ kept[b].id = refMap[b].id
               /\ kept[b].wp = refMap[b].wp
               /\ kept[b].ptr = refMap[b].ptr
               /\ kept[b].count = IF b = a THEN refMap[b].count - 1 ELSE refMap[b].count
         /\ \A b \in Registered : b \in DOMAIN kept <=> (b # a \/ refMap[b].count # 1)
<1>1. \A b \in Registered : refMap[b] \in Entries
  BY DEF Inv, TypeOK
<1>2. CASE refMap[a].count = 1
  <2>1. Decremented(a) = [b \in Registered \ {a} |-> refMap[b]]
    BY <1>2 DEF Decremented, Erase, Restrict, Registered
  <2>2. QED
    BY <1>1, <1>2, <2>1
<1>3. CASE refMap[a].count # 1
  <2>1. Decremented(a) = [refMap EXCEPT ![a].count = @ - 1]
    BY <1>3 DEF Decremented
  <2>2. DOMAIN Decremented(a) = Registered
    BY <2>1 DEF Registered
  <2>3. \A b \in Registered : b # a => Decremented(a)[b] = refMap[b]
    BY <2>1 DEF Registered
  <2>4. Decremented(a)[a] = [count |-> refMap[a].count - 1, id |-> refMap[a].id,
                             wp |-> refMap[a].wp, ptr |-> refMap[a].ptr]
    BY <1>1, <2>1 DEF Registered, Entries
  <2>5. refMap[a].count - 1 \in Nat
    BY <1>1 DEF Entries
  <2>6. Decremented(a)[a] \in Entries
    BY <1>1, <2>4, <2>5 DEF Entries
  <2>7. QED
    BY <1>1, <1>3, <2>2, <2>3, <2>4, <2>6
<1>4. QED
  BY <1>2, <1>3

\* Remove keeps exactly the entries of living objects.
LEMMA ReleaseInv ==
  ASSUME Inv, NEW id \in 1..lastId, Release(id) PROVE Inv'
<1>1. handles[id].owed > 0 /\ handles[id] \in Records
  BY DEF Release, Inv, TypeOK
<1>2. PICK a \in Registered : refMap[a].id = id
  BY <1>1 DEF Inv, HandlesBacked
<1>3. /\ refMap[a].wp = handles[id].obj
      /\ refMap[a].count = handles[id].owed
      /\ id \in DOMAIN typeMap[TypeOfHandle(id)]
      /\ a = typeMap[TypeOfHandle(id)][id]
  BY <1>2 DEF Inv, EntriesBacked, TypeOfHandle
<1> DEFINE type == TypeOfHandle(id)
           kept == Decremented(a)
           live == {b \in DOMAIN kept : AliveWith(kept, kept[b].wp)}
           gone == Forgotten(kept) \cup (IF refMap[a].count = 1 THEN {id} ELSE {})
<1>4. /\ refMap' = Erase(kept, Expired(kept))
      /\ typeMap' = [typeMap EXCEPT ![type] = Erase(@, gone)]
      /\ handles' = [handles EXCEPT ![id].owed = @ - 1]
      /\ retired' = IF handles[id].owed = 1 THEN retired \cup {id} ELSE retired
      /\ UNCHANGED <<lastId, address, library, using>>
  BY <1>3 DEF Release
<1>5. refMap[a].count > 0
  BY <1>1, <1>3
<1>6. /\ \A b \in DOMAIN kept :
            /\ b \in Registered
            /\ kept[b] \in Entries
            /\ kept[b].id = refMap[b].id
            /\ kept[b].wp = refMap[b].wp
            /\ kept[b].ptr = refMap[b].ptr
            /\ kept[b].count = IF b = a THEN refMap[b].count - 1 ELSE refMap[b].count
      /\ \A b \in Registered : b \in DOMAIN kept <=> (b # a \/ refMap[b].count # 1)
  BY <1>5, DecrementedTable
<1> HIDE DEF kept
<1>7. Registered' = live /\ \A b \in live : refMap'[b] = kept[b]
  BY <1>4 DEF Erase, Restrict, Expired, Registered
<1>8. TypeOfHandle(id) \in Types
  BY <1>1, TypeOfAssumption DEF TypeOfHandle, Records
<1>9. /\ DOMAIN typeMap' = Types
      /\ \A t \in Types : /\ DOMAIN typeMap'[t] \subseteq DOMAIN typeMap[t]
                          /\ \A i \in DOMAIN typeMap'[t] : typeMap'[t][i] = typeMap[t][i]
                          /\ \A i \in DOMAIN typeMap[t] : i \notin gone => i \in DOMAIN typeMap'[t]
  BY <1>4, <1>8 DEF Erase, Restrict, Inv, TypeOK
<1>10. /\ DOMAIN handles' = 1..lastId
       /\ \A i \in 1..lastId :  /\ handles'[i] \in Records
                                /\ handles'[i].obj = handles[i].obj
                                /\ i # id => handles'[i] = handles[i]
       /\ handles'[id].owed = handles[id].owed - 1
       /\ id \in retired' <=> (id \in retired \/ handles[id].owed = 1)
       /\ \A i \in 1..lastId : i # id => (i \in retired' <=> i \in retired)
       /\ retired' \subseteq 1..lastId
  <2>1. handles'[id] = [obj |-> handles[id].obj, owed |-> handles[id].owed - 1]
    BY <1>1, <1>4 DEF Inv, TypeOK, Records
  <2>2. handles[id].owed - 1 \in Nat
    BY <1>1 DEF Records
  <2>3. handles'[id] \in Records
    BY <1>1, <2>1, <2>2 DEF Records
  <2>4. /\ id \in retired' <=> (id \in retired \/ handles[id].owed = 1)
        /\ \A i \in 1..lastId : i # id => (i \in retired' <=> i \in retired)
        /\ retired' \subseteq 1..lastId
    BY <1>4 DEF Inv, TypeOK
  <2>5. QED
    BY <1>4, <2>1, <2>3, <2>4 DEF Inv, TypeOK
\* Who is alive does not depend on the pruning.
<1>11. \A p \in Objects : Alive(p)' <=> AliveWith(kept, p)
  <2> SUFFICES ASSUME NEW p \in Objects PROVE Alive(p)' <=> AliveWith(kept, p)
    OBVIOUS
  <2>1. StrongIn(refMap, p)' <=> StrongIn(kept, p)
    <3>1. ASSUME NEW b \in DOMAIN kept, kept[b].ptr = p PROVE b \in live
      <4>1. kept[b].wp = p
        BY <1>6, <3>1, OwnPointer, NoObjectAssumption
      <4>2. StrongIn(kept, p)
        BY <3>1 DEF StrongIn
      <4>3. QED
        BY <4>1, <4>2 DEF AliveWith
    <3>2. QED
      BY <1>7, <3>1 DEF StrongIn, Registered
  <2>2. QED
    BY <1>4, <2>1 DEF Alive, AliveWith
<1>12. \A p \in Objects : AliveWith(kept, p) => Alive(p)
  BY <1>6 DEF Alive, AliveWith, StrongIn, Registered
<1>13. \A p \in Objects :
         Alive(p) => AliveWith(kept, p) \/ (p = handles[id].obj /\ handles[id].owed = 1)
  <2> SUFFICES ASSUME NEW p \in Objects, StrongIn(refMap, p)
               PROVE  StrongIn(kept, p) \/ (p = handles[id].obj /\ handles[id].owed = 1)
    BY DEF Alive, AliveWith
  <2>1. PICK b \in Registered : refMap[b].ptr = p
    BY DEF StrongIn, Registered
  <2>2. refMap[b].wp = p
    BY <2>1, OwnPointer, NoObjectAssumption
  <2>3. QED
    BY <1>3, <1>6, <2>1, <2>2 DEF StrongIn
<1>14. \A p \in Objects : Pinned(p)' => Pinned(p)
  BY <1>6, <1>7, <1>11, <1>12 DEF Pinned
<1>15. TypeOK'
  <2>1. \A b \in Registered' : refMap'[b] \in Entries /\ b \in Addrs
    BY <1>6, <1>7 DEF Inv, TypeOK
  <2>2. \A t \in Types :
          /\ DOMAIN typeMap'[t] \subseteq 1..lastId
          /\ \A i \in DOMAIN typeMap'[t] : typeMap'[t][i] \in Addrs
    BY <1>9 DEF Inv, TypeOK
  <2>3. QED
    BY <1>4, <1>9, <1>10, <2>1, <2>2 DEF Inv, TypeOK
<1>16. EntriesBacked'
  <2> SUFFICES ASSUME NEW b \in live
               PROVE  /\ refMap'[b].id \in 1..lastId
                      /\ handles'[refMap'[b].id].obj = refMap'[b].wp
                      /\ handles'[refMap'[b].id].owed = refMap'[b].count
                      /\ refMap'[b].id \notin retired'
                      /\ refMap'[b].ptr = IF refMap'[b].count > 0 THEN refMap'[b].wp
                                                                ELSE NoObject
                      /\ address[refMap'[b].wp] = b
                      /\ refMap'[b].id \in DOMAIN typeMap'[TypeOf[refMap'[b].wp]]
                      /\ typeMap'[TypeOf[refMap'[b].wp]][refMap'[b].id] = b
    BY <1>4, <1>7 DEF EntriesBacked
  <2>1. /\ b \in Registered /\ b \in DOMAIN kept
        /\ refMap'[b] = kept[b]
        /\ kept[b].id = refMap[b].id /\ kept[b].wp = refMap[b].wp
        /\ kept[b].ptr = refMap[b].ptr
        /\ kept[b].count = IF b = a THEN refMap[b].count - 1 ELSE refMap[b].count
        /\ refMap[b] \in Entries
    BY <1>6, <1>7 DEF Inv, TypeOK
  <2>2. /\ refMap[b].id \in 1..lastId
        /\ handles[refMap[b].id].obj = refMap[b].wp
        /\ handles[refMap[b].id].owed = refMap[b].count
        /\ refMap[b].id \notin retired
        /\ refMap[b].ptr = IF refMap[b].count > 0 THEN refMap[b].wp ELSE NoObject
        /\ address[refMap[b].wp] = b
        /\ refMap[b].id \in DOMAIN typeMap[TypeOf[refMap[b].wp]]
        /\ typeMap[TypeOf[refMap[b].wp]][refMap[b].id] = b
    BY <2>1 DEF Inv, EntriesBacked
  <2>3. refMap[b].id \notin gone
    <3>1. refMap[b].id \notin Forgotten(kept)
      <4> SUFFICES ASSUME NEW c \in Expired(kept), kept[c].id = refMap[b].id PROVE FALSE
        BY DEF Forgotten
      <4>1. c \in DOMAIN kept /\ ~AliveWith(kept, kept[c].wp) /\ c \in Registered /\ c = b
        BY <1>6, <2>1, IdUnique DEF Expired
      <4>2. QED
        BY <4>1
    <3>2. refMap[a].count = 1 => refMap[b].id # id
      BY <1>2, <1>6, <2>1, IdUnique
    <3>3. QED
      BY <3>1, <3>2
  <2>4. TypeOf[refMap[b].wp] \in Types
    BY <2>1, TypeOfAssumption DEF Entries
  <2>5. /\ refMap[b].id \in DOMAIN typeMap'[TypeOf[refMap[b].wp]]
        /\ typeMap'[TypeOf[refMap[b].wp]][refMap[b].id] = b
    BY <1>9, <2>2, <2>3, <2>4
  <2>6. CASE b = a
    <3>1. refMap[a].count # 1 /\ refMap[a].count \in Nat /\ refMap[a].count - 1 > 0
      BY <1>5, <1>6, <2>1, <2>6 DEF Entries
    <3>2. refMap'[b].count > 0 /\ refMap'[b].ptr = refMap'[b].wp
      <4>1. refMap[a].ptr = refMap[a].wp
        BY <1>5, <2>2, <2>6
      <4>2. QED
        BY <2>1, <2>6, <3>1, <4>1
    <3>3. id \notin retired' /\ handles'[id].owed = refMap'[b].count
      <4>1. refMap[b].id = id /\ id \notin retired /\ handles[id].owed = refMap[a].count
        BY <1>2, <1>3, <2>2, <2>6
      <4>2. refMap'[b].count = refMap[a].count - 1
        BY <2>1, <2>6
      <4>3. QED
        BY <1>10, <3>1, <4>1, <4>2
    <3>4. /\ refMap'[b].id = id /\ refMap[b].id = id
          /\ refMap'[b].wp = refMap[b].wp /\ handles'[id].obj = refMap[b].wp
      BY <1>2, <1>3, <1>10, <2>1, <2>6
    <3>5. QED
      BY <2>2, <2>5, <3>2, <3>3, <3>4
  <2>7. CASE b # a
    <3>1. refMap[b].id # id
      BY <1>2, <2>1, <2>7, IdUnique
    <3>2. /\ handles'[refMap[b].id] = handles[refMap[b].id]
          /\ refMap[b].id \notin retired'
      BY <1>10, <2>2, <3>1
    <3>3. kept[b].count = refMap[b].count
      BY <2>1, <2>7
    <3>4. /\ refMap'[b].id = refMap[b].id /\ refMap'[b].wp = refMap[b].wp
          /\ refMap'[b].ptr = refMap[b].ptr /\ refMap'[b].count = refMap[b].count
      BY <2>1, <3>3
    <3>5. QED
      BY <2>2, <2>5, <3>2, <3>4
  <2>8. QED
    BY <2>6, <2>7
<1>17. HandlesBacked'
  <2> SUFFICES ASSUME NEW i \in 1..lastId,
                      handles'[i].owed > 0 \/ (i \notin retired' /\ Alive(handles[i].obj)')
               PROVE  \E b \in live : kept[b].id = i
    BY <1>4, <1>7 DEF HandlesBacked
  <2>1. handles[i] \in Records /\ handles'[i].obj = handles[i].obj
    BY <1>10 DEF Inv, TypeOK
  <2>2. Alive(handles[i].obj)' => AliveWith(kept, handles[i].obj)
    BY <1>11, <2>1 DEF Records
  <2>3. handles[i].owed > 0 \/ (i \notin retired /\ Alive(handles[i].obj))
    BY <1>1, <1>10, <1>12, <2>1, <2>2 DEF Records
  <2>4. PICK b \in Registered : refMap[b].id = i
    BY <2>3 DEF Inv, HandlesBacked
  <2>5. refMap[b].wp = handles[i].obj /\ refMap[b].count = handles[i].owed
    BY <2>4 DEF Inv, EntriesBacked
  <2>6. b \in DOMAIN kept
    <3>1. CASE b # a
      BY <1>6, <3>1
    <3>2. CASE b = a
      <4>1. i = id
        BY <1>2, <2>4, <3>2
      <4>2. handles[id].owed # 1
        BY <1>1, <1>10, <4>1 DEF Records
      <4>3. QED
        BY <1>3, <1>6, <3>2, <4>2
    <3>3. QED
      BY <3>1, <3>2
  <2>7. AliveWith(kept, handles[i].obj)
    <3>1. CASE handles[i].owed > 0
      <4>1. refMap[b].ptr = refMap[b].wp
        BY <2>5, <3>1 DEF Inv, EntriesBacked
      <4>2. QED
        BY <1>6, <2>5, <2>6, <4>1 DEF AliveWith, StrongIn
    <3>2. CASE ~(handles[i].owed > 0)
      BY <1>1, <1>10, <2>1, <2>2, <3>2 DEF Records
    <3>3. QED
      BY <3>1, <3>2
  <2>8. QED
    BY <1>6, <2>4, <2>5, <2>6, <2>7
<1>18. Allocated' /\ OneAtAnAddress'
  BY <1>4, <1>10, <1>11, <1>12, <1>14 DEF Inv, Allocated, OneAtAnAddress
<1>19. RetiredForgotten'
  <2> SUFFICES ASSUME NEW i \in retired' PROVE i \notin DOMAIN typeMap'[TypeOf[handles'[i].obj]]
    BY DEF RetiredForgotten, TypeOfHandle
  <2>1. i \in 1..lastId /\ handles'[i].obj = handles[i].obj
    BY <1>10
  <2>2. TypeOf[handles[i].obj] \in Types
    BY <2>1, TypeOfAssumption DEF Inv, TypeOK, Records
  <2>3. CASE i \in retired
    BY <1>9, <2>1, <2>2, <2>3 DEF Inv, RetiredForgotten, TypeOfHandle
  <2>4. CASE i \notin retired
    <3>1. i = id /\ refMap[a].count = 1
      BY <1>3, <1>10, <2>1, <2>4
    <3>2. typeMap'[type] = Erase(typeMap[type], gone) /\ id \in gone
      BY <1>4, <1>8, <3>1 DEF Inv, TypeOK
    <3>3. id \notin DOMAIN typeMap'[type]
      BY <3>2 DEF Erase, Restrict
    <3>4. QED
      BY <2>1, <3>1, <3>3 DEF TypeOfHandle
  <2>5. QED
    BY <2>3, <2>4
<1>20. QED
  BY <1>15, <1>16, <1>17, <1>18, <1>19 DEF Inv

-----------------------------------------------------------------------------
(* Entries stay.                                                           *)

\* An entry is there after the step, for the same object and with the same id.
Stays(b) ==
  b \in Registered' /\ refMap'[b].wp = refMap[b].wp /\ refMap'[b].id = refMap[b].id

\* Putting an entry where there is none leaves the others alone.
LEMMA RegisterKeeps ==
  ASSUME NEW o \in Objects, NEW a, NEW owed, Register(o, a, owed), a \notin Registered,
         NEW b \in Registered
  PROVE  Stays(b)
  BY DEF Register, Stays, Registered, Put

\* An object is created at an address that no entry is kept under.
LEMMA CreateKeeps ==
  ASSUME Inv, NEW o \in Objects, NEW a \in Addrs, Create(o, a), NEW b \in Registered
  PROVE  Stays(b)
<1>1. a \notin Registered
  <2> SUFFICES ASSUME a \in Registered PROVE FALSE
    OBVIOUS
  <2>1. refMap[a].wp \in Objects /\ Pinned(refMap[a].wp) /\ address[refMap[a].wp] = a
    BY DEF Inv, TypeOK, EntriesBacked, Entries, Pinned
  <2>2. QED
    BY <2>1 DEF Create, Free
<1>2. Register(o, a, 1)
  BY <1>1 DEF Create, Add
<1>3. QED
  BY <1>1, <1>2, RegisterKeeps

LEMMA ShareKeeps ==
  ASSUME Inv, NEW id \in 1..lastId, Share(id), NEW b \in Registered
  PROVE  Stays(b)
<1>1. PICK a \in Registered :
        refMap' = [refMap EXCEPT ![a].count = @ + 1, ![a].ptr = refMap[a].wp]
  BY UsableEntry, RetiredLeadsNowhere DEF Share
<1>2. Registered' = Registered /\ (b # a => refMap'[b] = refMap[b])
  BY <1>1 DEF Registered
<1>3. refMap'[a] = [refMap[a] EXCEPT !.count = @ + 1, !.ptr = refMap[a].wp]
  BY <1>1 DEF Registered
<1>4. refMap[a] \in Entries
  BY DEF Inv, TypeOK
<1>5. refMap'[a].wp = refMap[a].wp /\ refMap'[a].id = refMap[a].id
  BY <1>3, <1>4 DEF Entries
<1>6. QED
  BY <1>2, <1>5 DEF Stays

\* Remove takes the entry of an object that lives on only with its last share.
LEMMA ReleaseKeeps ==
  ASSUME Inv, NEW id \in 1..lastId, Release(id), NEW b \in Registered,
         NEW o, o = refMap[b].wp, Alive(o)'
  PROVE  \/ Stays(b)
         \/ refMap[b].id = id /\ handles[id].owed = 1 /\ handles'[id].owed = 0
<1>1. handles[id].owed > 0 /\ handles[id] \in Records
  BY DEF Release, Inv, TypeOK
<1>2. PICK a \in Registered : refMap[a].id = id
  BY <1>1 DEF Inv, HandlesBacked
<1>3. /\ refMap[a].wp = handles[id].obj
      /\ refMap[a].count = handles[id].owed
      /\ a = typeMap[TypeOfHandle(id)][id]
  BY <1>2 DEF Inv, EntriesBacked, TypeOfHandle
<1>4. PICK kept : kept = Decremented(a)
  OBVIOUS
<1>5. /\ refMap' = Erase(kept, Expired(kept))
      /\ handles' = [handles EXCEPT ![id].owed = @ - 1]
      /\ UNCHANGED <<library, using>>
  BY <1>3, <1>4 DEF Release
<1>6. /\ b \in DOMAIN kept => kept[b].id = refMap[b].id /\ kept[b].wp = refMap[b].wp
      /\ b \in DOMAIN kept <=> (b # a \/ refMap[b].count # 1)
  BY <1>1, <1>3, <1>4, DecrementedTable
<1>7. /\ Registered' = {c \in DOMAIN kept : AliveWith(kept, kept[c].wp)}
      /\ \A c \in Registered' : refMap'[c] = kept[c] /\ c \in DOMAIN kept
  BY <1>5 DEF Erase, Restrict, Expired, Registered
<1>8. AliveWith(kept, o)
  BY <1>5, <1>7 DEF Alive, AliveWith, StrongIn, Registered
<1>9. CASE b \in DOMAIN kept
  BY <1>6, <1>7, <1>8, <1>9 DEF Stays
<1>10. CASE b \notin DOMAIN kept
  <2>1. refMap[b].id = id /\ handles[id].owed = 1
    BY <1>2, <1>3, <1>6, <1>10
  <2>2. handles'[id] = [handles[id] EXCEPT !.owed = @ - 1]
    BY <1>5 DEF Inv, TypeOK
  <2>3. handles'[id].owed = 0
    BY <1>1, <2>1, <2>2 DEF Records
  <2>4. QED
    BY <2>1, <2>3
<1>11. QED
  BY <1>9, <1>10

\* In any step: the entry stays, or its last share is released, or its object dies.
LEMMA StepKeeps ==
  ASSUME Inv, [Next]_vars, NEW b \in Registered, NEW o, o = refMap[b].wp, Alive(o)'
  PROVE  \/ Stays(b)
         \/ handles[refMap[b].id].owed = 1 /\ handles'[refMap[b].id].owed = 0
<1>1. CASE refMap' = refMap
  BY <1>1 DEF Stays, Registered
<1>2. ASSUME NEW p \in Objects, NEW a \in Addrs, Create(p, a) PROVE Stays(b)
  BY <1>2, CreateKeeps
<1>3. ASSUME NEW p \in Objects, Ref(p) PROVE Stays(b)
  BY <1>3, RegisterKeeps DEF Ref
<1>4. ASSUME NEW id \in 1..lastId, Share(id) PROVE Stays(b)
  BY <1>4, ShareKeeps
<1>5. QED
  BY <1>1, <1>2, <1>3, <1>4, ReleaseKeeps
  DEF Next, vars, LibraryCreates, LibraryDrops, UseBegins, UseEnds

-----------------------------------------------------------------------------
(* The theorems.                                                           *)

LEMMA NextInv == Inv /\ [Next]_vars => Inv'
<1> SUFFICES ASSUME Inv, [Next]_vars PROVE Inv'
  OBVIOUS
<1>1. CASE UNCHANGED vars
  BY <1>1 DEF vars, Inv, TypeOK, EntriesBacked, HandlesBacked, RetiredForgotten,
     TypeOfHandle, Allocated, OneAtAnAddress, Registered, Alive, AliveWith, StrongIn, Pinned
<1>2. CASE Next
  BY <1>2, LibraryCreatesInv, CreateInv, LibraryDropsInv, RefInv, ShareInv,
     ReleaseInv, UseBeginsInv, UseEndsInv DEF Next
<1>3. QED
  BY <1>1, <1>2

\* Inv holds in every reachable state, for every user who follows sorac.h.
THEOREM Invariance == Spec => []Inv
  BY InitInv, NextInv, PTL DEF Spec

\* The table, the typed maps and the allocator keep their types.
THEOREM TypeCorrect == Spec => []TypeOK
<1>1. Inv => TypeOK
  BY DEF Inv
<1>2. QED
  BY <1>1, Invariance, PTL

\* A handle of a living object leads Get and Share to that object, or, once its last
\* share has been released, to null.
THEOREM HandlesResolve == Spec => []LivingHandleResolves
<1>1. Inv => LivingHandleResolves
  BY UsableEntry, RetiredLeadsNowhere DEF LivingHandleResolves
<1>2. QED
  BY <1>1, Invariance, PTL

\* The count is the number of references the user still has to release.
THEOREM CountsAreOwed == Spec => []CountIsOwed
<1>1. Inv => CountIsOwed
  BY DEF Inv, EntriesBacked, CountIsOwed
<1>2. QED
  BY <1>1, Invariance, PTL

\* A share keeps its object alive.
THEOREM SharesKeepAlive == Spec => []OwnedIsAlive
<1>1. ASSUME Inv, NEW id \in 1..lastId, handles[id].owed > 0 PROVE Alive(handles[id].obj)
  <2>1. PICK a \in Registered : refMap[a].id = id
    BY <1>1 DEF Inv, HandlesBacked
  <2>2. refMap[a].wp = handles[id].obj /\ refMap[a].count > 0
    BY <1>1, <2>1 DEF Inv, EntriesBacked
  <2>3. refMap[a].ptr = handles[id].obj
    BY <1>1, <2>2 DEF Inv, EntriesBacked
  <2>4. QED
    BY <2>3 DEF Alive, AliveWith, StrongIn, Registered
<1>2. Inv => OwnedIsAlive
  BY <1>1 DEF OwnedIsAlive
<1>3. QED
  BY <1>2, Invariance, PTL

\* Nothing stays alive that nobody holds: the table does not leak.
THEOREM NothingLeaks == Spec => []AliveIsHeld
<1>1. ASSUME Inv, NEW o \in Objects, StrongIn(refMap, o)
      PROVE  \E id \in 1..lastId : handles[id].obj = o /\ handles[id].owed > 0
  <2>1. PICK a \in Registered : refMap[a].ptr = o
    BY <1>1 DEF StrongIn, Registered
  <2>2. refMap[a].wp = o /\ refMap[a].count > 0
    BY <1>1, <2>1, OwnPointer, NoObjectAssumption
  <2>3. QED
    BY <1>1, <2>2 DEF Inv, EntriesBacked
<1>2. Inv => AliveIsHeld
  BY <1>1 DEF AliveIsHeld, Alive, AliveWith
<1>3. QED
  BY <1>2, Invariance, PTL

\* ref_map and the typed maps agree on every registered object.
THEOREM TablesAgree == Spec => []TableConsistent
<1>1. Inv => TableConsistent
  BY IdUnique DEF Inv, EntriesBacked, TableConsistent
<1>2. QED
  BY <1>1, Invariance, PTL

\* Pruning never takes the entry of an object that lives on: an id is withdrawn only
\* by the release of its last share.
THEOREM EntriesStay == Spec => LiveEntryStays
<1>1. ASSUME Inv, [Next]_vars, NEW o \in Objects, NEW id \in IdsOf(o), Alive(o)'
      PROVE  \/ id \in IdsOf(o)'
             \/ handles[id].owed = 1 /\ handles'[id].owed = 0
  <2>1. PICK b \in Registered : refMap[b].wp = o /\ refMap[b].id = id
    BY DEF IdsOf
  <2>2. \/ Stays(b)
        \/ handles[id].owed = 1 /\ handles'[id].owed = 0
    BY <1>1, <2>1, StepKeeps
  <2>3. QED
    BY <2>1, <2>2 DEF Stays, IdsOf
<1>2. Inv /\ [Next]_vars =>
        [\A o \in Objects : \A id \in IdsOf(o) :
           Alive(o)' => \/ id \in IdsOf(o)'
                        \/ handles[id].owed = 1 /\ handles'[id].owed = 0]_vars
  BY <1>1
<1>3. QED
  BY <1>2, Invariance, PTL DEF Spec, LiveEntryStays
-----------------------------------------------------------------------------
(***************************************************************************)
(* CPointer implements HandleRegistry: the table keyed by reusable          *)
(* addresses behaves as one keyed by the identity of the object.  Every     *)
(* step of the table, from a state in which Inv holds, is a step of the     *)
(* registry or leaves it alone.                                            *)
(***************************************************************************)

\* The objects with an entry, and those that a getter uses.
Shown  == {refMap[a].wp : a \in Registered}
InUse  == {using[t] : t \in Threads} \ {NoObject}

-----------------------------------------------------------------------------
(* The table as seen from the objects.                                     *)

LEMMA SameFunction ==
  ASSUME NEW S, NEW f, NEW g, f = [x \in S |-> f[x]], g = [x \in S |-> g[x]],
         \A x \in S : f[x] = g[x]
  PROVE  f = g
  OBVIOUS

\* Every entry is that of the object it was made for.
LEMMA EntryAt ==
  ASSUME Inv, NEW a \in Registered
  PROVE  /\ refMap[a].wp \in Shown /\ refMap[a].wp \in Objects
         /\ address[refMap[a].wp] = a
         /\ EntryOfObject[refMap[a].wp] = [id |-> refMap[a].id, owed |-> refMap[a].count]
<1>1. refMap[a].wp \in Shown
  BY DEF Shown
<1>2. address[refMap[a].wp] = a
  BY DEF Inv, EntriesBacked
<1>3. refMap[a].wp \in Objects
  BY DEF Inv, TypeOK, Entries
<1>4. QED
  BY <1>1, <1>2, <1>3 DEF EntryOfObject, Shown

\* The registry and the table agree on who is alive.
LEMMA AliveAgrees ==
  ASSUME Inv, NEW o \in Objects PROVE Registry!Alive(o) <=> Alive(o)
<1>1. o \in library \cup InUse <=> o \in library \/ \E t \in Threads : using[t] = o
  BY NoObjectAssumption DEF InUse
<1>2. StrongIn(refMap, o) <=> o \in Shown /\ EntryOfObject[o].owed > 0
  <2>1. ASSUME StrongIn(refMap, o) PROVE o \in Shown /\ EntryOfObject[o].owed > 0
    <3>1. PICK a \in Registered : refMap[a].ptr = o
      BY <2>1 DEF StrongIn, Registered
    <3>2. refMap[a].wp = o /\ refMap[a].count > 0
      BY <3>1, OwnPointer, NoObjectAssumption
    <3>3. /\ o \in Shown
          /\ EntryOfObject[o] = [id |-> refMap[a].id, owed |-> refMap[a].count]
      BY <3>2, EntryAt
    <3>4. QED
      BY <3>2, <3>3
  <2>2. ASSUME o \in Shown, EntryOfObject[o].owed > 0 PROVE StrongIn(refMap, o)
    <3>1. PICK a \in Registered : refMap[a].wp = o
      BY <2>2 DEF Shown
    <3>2. EntryOfObject[o] = [id |-> refMap[a].id, owed |-> refMap[a].count]
      BY <3>1, EntryAt
    <3>3. refMap[a].count > 0
      BY <2>2, <3>2
    <3>4. refMap[a].ptr = o
      BY <3>1, <3>3 DEF Inv, EntriesBacked
    <3>5. QED
      BY <3>4 DEF StrongIn, Registered
  <2>3. QED
    BY <2>1, <2>2
<1>3. DOMAIN EntryOfObject = Shown
  BY DEF EntryOfObject, Shown
<1>4. QED
  BY <1>1, <1>2, <1>3 DEF Registry!Alive, Alive, AliveWith, InUse

\* A step that leaves the table and the places of its objects alone.
LEMMA SameTable ==
  ASSUME Inv, UNCHANGED refMap, \A o \in Shown : address'[o] = address[o]
  PROVE  EntryOfObject' = EntryOfObject
<1>1. Shown' = Shown
  BY DEF Shown, Registered
<1>2. EntryOfObject' = [o \in Shown |-> [id |-> refMap[address[o]].id,
                                       owed |-> refMap[address[o]].count]]
  BY <1>1 DEF EntryOfObject, Shown, Registered
<1>3. QED
  BY <1>2 DEF EntryOfObject, Shown

\* A new entry for an object that has none.
LEMMA NewEntry ==
  ASSUME Inv, NEW o \in Objects, NEW a \in Addrs, NEW owed \in {0, 1},
         Register(o, a, owed), a \notin Registered, o \notin Shown,
         address'[o] = a, \A p \in Shown : address'[p] = address[p]
  PROVE  Registry!GiveId(o, owed)
<1>1. /\ Registered' = Registered \cup {a}
      /\ refMap'[a] = Registration(o, owed)
      /\ \A b \in Registered : refMap'[b] = refMap[b]
      /\ lastId' = lastId + 1
  BY DEF Register, Registered, Put
<1>2. refMap'[a].wp = o /\ refMap'[a].id = lastId + 1 /\ refMap'[a].count = owed
  BY <1>1 DEF Registration
<1>3. Shown' = Shown \cup {o}
  BY <1>1, <1>2 DEF Shown
<1> DEFINE new == Put(EntryOfObject, o, [id |-> lastId + 1, owed |-> owed])
<1>4. DOMAIN EntryOfObject = Shown
  BY DEF EntryOfObject, Shown
<1>5. EntryOfObject' = [p \in Shown' |-> [id |-> refMap'[address'[p]].id,
                                        owed |-> refMap'[address'[p]].count]]
  BY DEF EntryOfObject, Shown
<1>6. ASSUME NEW p \in Shown'
      PROVE  [id |-> refMap'[address'[p]].id, owed |-> refMap'[address'[p]].count] = new[p]
  <2>1. CASE p = o
    BY <1>2, <1>3, <1>4, <2>1 DEF Put
  <2>2. CASE p # o
    <3>1. PICK b \in Registered : refMap[b].wp = p
      BY <1>3, <2>2 DEF Shown
    <3>2. address'[p] = b /\ refMap'[b] = refMap[b]
      BY <1>1, <3>1, EntryAt
    <3>3. new[p] = EntryOfObject[p]
      BY <1>3, <1>4, <2>2 DEF Put
    <3>4. QED
      BY <3>1, <3>2, <3>3, EntryAt
  <2>3. QED
    BY <2>1, <2>2
<1>7. new = [p \in Shown' |-> new[p]]
  BY <1>3, <1>4 DEF Put
<1>8. EntryOfObject' = new
  BY <1>5, <1>6, <1>7
<1>9. QED
  BY <1>1, <1>8 DEF Registry!GiveId, Registry!Put, Put
\* The entry that a handle leads to, and the object it is for.
LEMMA HandleEntry ==
  ASSUME Inv, NEW id \in 1..lastId,
         handles[id].owed > 0 \/ (id \notin retired /\ Alive(handles[id].obj))
  PROVE  \E a \in Registered :
           /\ a = typeMap[TypeOfHandle(id)][id]
           /\ refMap[a].id = id /\ refMap[a].wp = handles[id].obj
           /\ refMap[a].count = handles[id].owed
<1>1. PICK a \in Registered : refMap[a].id = id
  BY DEF Inv, HandlesBacked
<1>2. QED
  BY <1>1 DEF Inv, EntriesBacked, TypeOfHandle

-----------------------------------------------------------------------------
(* What each action is to the registry.                                    *)

Held == library \cup InUse
Made == {o \in Objects : address[o] # NoAddr}

\* The table is left alone, and so are the addresses.
LEMMA LibraryCreatesHolds ==
  ASSUME Inv, NEW o \in Objects, NEW a \in Addrs, LibraryCreates(o, a)
  PROVE  Registry!Hold(o)
<1>1. address[o] = NoAddr /\ address' = [address EXCEPT ![o] = a] /\ a # NoAddr
  BY NoAddrAssumption DEF LibraryCreates, Fresh
<1>2. library' = library \cup {o} /\ UNCHANGED <<refMap, lastId, using>>
  BY DEF LibraryCreates
<1>3. \A p \in Shown : p # o
  <2> TAKE p \in Shown
  <2>1. PICK b \in Registered : refMap[b].wp = p
    BY DEF Shown
  <2>2. address[p] = b /\ b \in Addrs
    BY <2>1, EntryAt DEF Inv, TypeOK
  <2>3. QED
    BY <1>1, <2>2, NoAddrAssumption
<1>4. Shown \subseteq Objects
  BY EntryAt DEF Shown
<1>5. \A p \in Shown : address'[p] = address[p]
  BY <1>1, <1>3, <1>4 DEF Inv, TypeOK
<1>6. EntryOfObject' = EntryOfObject
  BY <1>2, <1>5, SameTable
<1>7. Made' = Made \cup {o}
  BY <1>1 DEF Made, Inv, TypeOK
<1>8. Held' = Held \cup {o}
  BY <1>2 DEF Held, InUse
<1>9. o \notin Made
  BY <1>1 DEF Made
<1>10. QED
  BY <1>2, <1>6, <1>7, <1>8, <1>9 DEF Registry!Hold, Held, Made, InUse

LEMMA LibraryDropsLetsGo ==
  ASSUME Inv, NEW o \in Objects, LibraryDrops(o)
  PROVE  Registry!LetGo(o) \/ UNCHANGED Registry!vars
<1>1. library' = library \ {o} /\ UNCHANGED <<refMap, lastId, using, address>>
  BY DEF LibraryDrops
<1>2. EntryOfObject' = EntryOfObject /\ Made' = Made
  BY <1>1, SameTable DEF Made
<1>3. CASE o \in InUse
  <2>1. Held' = Held
    BY <1>1, <1>3 DEF Held, InUse, LibraryDrops
  <2>2. QED
    BY <1>1, <1>2, <2>1 DEF Registry!vars, Held, Made, InUse
<1>4. CASE o \notin InUse
  <2>1. Held' = Held \ {o}
    BY <1>1, <1>4 DEF Held, InUse
  <2>2. QED
    BY <1>1, <1>2, <2>1 DEF Registry!LetGo, Held, Made, InUse
<1>5. QED
  BY <1>3, <1>4

\* An object is created at an address that no entry is kept under.
LEMMA CreateCreates ==
  ASSUME Inv, NEW o \in Objects, NEW a \in Addrs, Create(o, a)
  PROVE  Registry!Create(o)
<1>1. address[o] = NoAddr /\ address' = [address EXCEPT ![o] = a] /\ a # NoAddr
  BY NoAddrAssumption DEF Create, Fresh
<1>2. \A b \in Registered : refMap[b].wp \in Objects /\ refMap[b].wp # o /\ b # a
  <2> TAKE b \in Registered
  <2>1. refMap[b].wp \in Objects /\ Pinned(refMap[b].wp)
        /\ address[refMap[b].wp] = b /\ b \in Addrs
    BY DEF Inv, TypeOK, EntriesBacked, Entries, Pinned
  <2>2. QED
    BY <1>1, <2>1, NoAddrAssumption DEF Create, Free
<1>3. Register(o, a, 1) /\ UNCHANGED <<library, using>>
  BY <1>2 DEF Create, Add
<1>4. \A p \in Shown : p \in Objects /\ p # o /\ address'[p] = address[p]
  BY <1>1, <1>2 DEF Shown, Inv, TypeOK
<1>5. address'[o] = a
  BY <1>1 DEF Inv, TypeOK
<1>6. Registry!GiveId(o, 1)
  BY <1>2, <1>3, <1>4, <1>5, NewEntry
<1>7. Made' = Made \cup {o} /\ o \notin Made
  BY <1>1 DEF Made, Inv, TypeOK
<1>8. Held' = Held
  BY <1>3 DEF Held, InUse
<1>9. QED
  BY <1>6, <1>7, <1>8 DEF Registry!Create, Held, Made, InUse

LEMMA RefShows ==
  ASSUME Inv, NEW o \in Objects, Ref(o) PROVE Registry!Show(o)
<1>1. /\ o \in library /\ address[o] \notin Registered
      /\ Register(o, address[o], 0)
      /\ UNCHANGED <<address, library, using>>
  BY DEF Ref
<1>2. address[o] \in Addrs
  BY <1>1 DEF Inv, TypeOK, Allocated, Alive, AliveWith
<1>3. o \notin Shown
  BY <1>1, EntryAt DEF Shown
<1>4. Registry!GiveId(o, 0)
  BY <1>1, <1>2, <1>3, NewEntry
<1>5. Held' = Held /\ Made' = Made /\ o \in Held
  BY <1>1 DEF Held, Made, InUse
<1>6. DOMAIN EntryOfObject = Shown
  BY DEF EntryOfObject, Shown
<1>7. QED
  BY <1>3, <1>4, <1>5, <1>6 DEF Registry!Show, Held, Made, InUse

\* What a getter has got was alive.
LEMMA UseBeginsHolds ==
  ASSUME Inv, NEW t \in Threads, NEW id \in 1..lastId, UseBegins(t, id)
  PROVE  \E o \in Objects : Registry!Hold(o)
<1>0. PICK o \in Objects : o = handles[id].obj
  BY DEF Inv, TypeOK, Records
<1>1. Usable(id) /\ using' = [using EXCEPT ![t] = Get(TypeOfHandle(id), id)]
      /\ using[t] = NoObject /\ UNCHANGED <<refMap, lastId, address, library>>
  BY DEF UseBegins
<1>2. Get(TypeOfHandle(id), id) = o /\ Alive(o)
  <2>1. id \notin retired
    BY <1>1, RetiredLeadsNowhere DEF UseBegins
  <2>2. QED
    BY <1>0, <1>1, <2>1, UsableEntry DEF Usable
<1>3. Held' = Held \cup {o}
  BY <1>1, <1>2, NoObjectAssumption DEF Held, InUse, Inv, TypeOK
<1>4. EntryOfObject' = EntryOfObject /\ Made' = Made
  BY <1>1, SameTable DEF Made
<1>5. Registry!Alive(o) /\ o \in Made
  BY <1>2, AliveAgrees DEF Made, Inv, Allocated
<1>6. Registry!Hold(o)
  BY <1>1, <1>2, <1>3, <1>4, <1>5 DEF Registry!Hold, Held, Made, InUse
<1>7. QED
  BY <1>6

LEMMA UseEndsLetsGo ==
  ASSUME Inv, NEW t \in Threads, UseEnds(t)
  PROVE  (\E o \in Objects : Registry!LetGo(o)) \/ UNCHANGED Registry!vars
<1>0. PICK o \in Objects : using[t] = o
  BY DEF UseEnds, Inv, TypeOK
<1>1. /\ using' = [using EXCEPT ![t] = NoObject]
      /\ UNCHANGED <<refMap, lastId, address, library>>
  BY DEF UseEnds
<1>2. EntryOfObject' = EntryOfObject /\ Made' = Made
  BY <1>1, SameTable DEF Made
<1>3. CASE o \in library \/ \E u \in Threads : u # t /\ using[u] = o
  <2>1. Held' = Held
    BY <1>0, <1>1, <1>3, NoObjectAssumption DEF Held, InUse, Inv, TypeOK
  <2>2. QED
    BY <1>1, <1>2, <2>1 DEF Registry!vars, Held, Made, InUse
<1>4. CASE o \notin library /\ \A u \in Threads : u # t => using[u] # o
  <2>1. Held' = Held \ {o}
    BY <1>0, <1>1, <1>4, NoObjectAssumption DEF Held, InUse, Inv, TypeOK
  <2>2. Registry!LetGo(o)
    BY <1>1, <1>2, <2>1 DEF Registry!LetGo, Held, Made, InUse
  <2>3. QED
    BY <2>2
<1>5. QED
  BY <1>3, <1>4

\* One share more of a living object.
LEMMA ShareShares ==
  ASSUME Inv, NEW id \in 1..lastId, Share(id)
  PROVE  \E o \in Objects : Registry!Share(o)
<1>1. Usable(id) /\ id \notin retired
  BY RetiredLeadsNowhere DEF Share
<1>2. PICK a \in Registered :
        /\ a = typeMap[TypeOfHandle(id)][id]
        /\ refMap[a].id = id /\ refMap[a].wp = handles[id].obj
  BY <1>1, HandleEntry DEF Usable
<1>3. PICK o \in Objects : o = refMap[a].wp
  BY EntryAt
<1>4. /\ refMap' = [refMap EXCEPT ![a].count = @ + 1, ![a].ptr = refMap[a].wp]
      /\ UNCHANGED <<lastId, address, library, using>>
  BY <1>2 DEF Share
<1>5. /\ refMap[a] \in Entries
      /\ refMap'[a] = [refMap[a] EXCEPT !.count = @ + 1, !.ptr = refMap[a].wp]
      /\ \A b \in Registered : b # a => refMap'[b] = refMap[b]
      /\ Registered' = Registered
  BY <1>4 DEF Registered, Inv, TypeOK
<1>6. refMap'[a].id = refMap[a].id /\ refMap'[a].wp = o /\ refMap'[a].count = refMap[a].count + 1
  BY <1>3, <1>5 DEF Entries
<1>7. \A b \in Registered : refMap'[b].wp = refMap[b].wp
  BY <1>3, <1>5, <1>6
<1>8. Shown' = Shown /\ o \in Shown
  BY <1>3, <1>5, <1>7 DEF Shown
<1>9. DOMAIN EntryOfObject = Shown
  BY DEF EntryOfObject, Shown
<1> DEFINE new == [EntryOfObject EXCEPT ![o].owed = @ + 1]
<1>10. EntryOfObject' = [p \in Shown |-> [id |-> refMap'[address[p]].id,
                                         owed |-> refMap'[address[p]].count]]
  BY <1>4, <1>8 DEF EntryOfObject, Shown
<1>11. ASSUME NEW p \in Shown
       PROVE  [id |-> refMap'[address[p]].id, owed |-> refMap'[address[p]].count] = new[p]
  <2>1. PICK b \in Registered : refMap[b].wp = p
    BY DEF Shown
  <2>2. address[p] = b /\ EntryOfObject[p] = [id |-> refMap[b].id, owed |-> refMap[b].count]
    BY <2>1, EntryAt
  <2>3. CASE p = o
    <3>1. a = b
      BY <1>3, <2>1, <2>2, <2>3, EntryAt
    <3>2. new[p] = [EntryOfObject[p] EXCEPT !.owed = @ + 1]
      BY <1>8, <1>9, <2>3
    <3>3. new[p] = [id |-> refMap[b].id, owed |-> refMap[b].count + 1]
      BY <2>2, <3>2
    <3>4. QED
      BY <1>6, <2>2, <3>1, <3>3
  <2>4. CASE p # o
    <3>1. b # a
      BY <1>3, <2>1, <2>4
    <3>2. new[p] = EntryOfObject[p]
      BY <1>9, <2>4
    <3>3. QED
      BY <1>5, <2>2, <3>1, <3>2
  <2>5. QED
    BY <2>3, <2>4
<1>12. new = [p \in Shown |-> new[p]]
  BY <1>9
<1>13. EntryOfObject' = new
  BY <1>10, <1>11, <1>12
<1>14. Registry!Alive(o)
  BY <1>1, <1>2, <1>3, AliveAgrees DEF Usable
<1>15. Held' = Held /\ Made' = Made
  BY <1>4 DEF Held, Made, InUse
<1>16. Registry!Share(o)
  BY <1>4, <1>8, <1>9, <1>13, <1>14, <1>15 DEF Registry!Share, Held, Made, InUse
<1>17. QED
  BY <1>16

\* One share less; the last one and the dead take their entries with them.
LEMMA ReleaseReleases ==
  ASSUME Inv, NEW id \in 1..lastId, Release(id)
  PROVE  \E o \in Objects : Registry!Release(o)
<1>1. handles[id].owed > 0
  BY DEF Release
<1>2. PICK a \in Registered :
        /\ a = typeMap[TypeOfHandle(id)][id]
        /\ refMap[a].id = id /\ refMap[a].wp = handles[id].obj
        /\ refMap[a].count = handles[id].owed
  BY <1>1, HandleEntry
<1>3. PICK o \in Objects : o = refMap[a].wp
  BY EntryAt
<1>4. PICK kept : kept = Decremented(a)
  OBVIOUS
<1>5. /\ refMap' = Erase(kept, Expired(kept))
      /\ UNCHANGED <<lastId, address, library, using>>
  BY <1>2, <1>4 DEF Release
<1>6. /\ \A b \in DOMAIN kept :
           /\ b \in Registered
           /\ kept[b].id = refMap[b].id
           /\ kept[b].wp = refMap[b].wp
           /\ kept[b].ptr = refMap[b].ptr
           /\ kept[b].count = IF b = a THEN refMap[b].count - 1 ELSE refMap[b].count
      /\ \A b \in Registered : b \in DOMAIN kept <=> (b # a \/ refMap[b].count # 1)
  BY <1>1, <1>2, <1>4, DecrementedTable
<1>7. /\ Registered' = {b \in DOMAIN kept : AliveWith(kept, kept[b].wp)}
      /\ \A b \in Registered' : refMap'[b] = kept[b]
  BY <1>5 DEF Erase, Restrict, Expired, Registered
\* Taking the count of a down makes no object die whose entry is kept.
<1>8. ASSUME NEW b \in DOMAIN kept
      PROVE  AliveWith(kept, kept[b].wp) <=> Alive(refMap[b].wp)
  <2>1. b \in Registered /\ kept[b].wp = refMap[b].wp
    BY <1>6
  <2>2. StrongIn(kept, refMap[b].wp) <=> StrongIn(refMap, refMap[b].wp)
    <3>1. ASSUME StrongIn(kept, refMap[b].wp) PROVE StrongIn(refMap, refMap[b].wp)
      BY <1>6, <3>1 DEF StrongIn, Registered
    <3>2. ASSUME StrongIn(refMap, refMap[b].wp) PROVE StrongIn(kept, refMap[b].wp)
      <4>1. PICK c \in Registered : refMap[c].ptr = refMap[b].wp
        BY <3>2 DEF StrongIn, Registered
      <4>2. refMap[c].ptr # NoObject
        BY <2>1, <4>1, EntryAt, NoObjectAssumption
      <4>3. refMap[c].wp = refMap[b].wp
        BY <4>1, <4>2, OwnPointer
      <4>4. c = b
        BY <2>1, <4>3, EntryAt
      <4>5. QED
        BY <1>6, <2>1, <4>1, <4>4 DEF StrongIn
    <3>3. QED
      BY <3>1, <3>2
  <2>3. QED
    BY <2>1, <2>2 DEF Alive, AliveWith
<1>9. ASSUME NEW b \in Registered
      PROVE  b \in Registered' <=> (b # a \/ refMap[b].count # 1) /\ Alive(refMap[b].wp)
  BY <1>6, <1>7, <1>8
<1>10. Shown' = {refMap[b].wp : b \in Registered'} /\ Registered' \subseteq Registered
  BY <1>6, <1>7 DEF Shown
<1> DEFINE last  == IF EntryOfObject[o].owed = 1 THEN {o} ELSE {}
           ended == Registry!Dead \cup last
           less  == [EntryOfObject EXCEPT ![o].owed = @ - 1]
<1>11. DOMAIN EntryOfObject = Shown /\ o \in Shown
  BY <1>3, EntryAt DEF EntryOfObject, Shown
<1>12. EntryOfObject[o] = [id |-> refMap[a].id, owed |-> refMap[a].count]
  BY <1>3, EntryAt
<1>13. ASSUME NEW p \in Shown PROVE p \in Shown' <=> p \notin ended
  <2>1. PICK b \in Registered : refMap[b].wp = p
    BY DEF Shown
  <2>2. p \in Objects /\ address[p] = b
    BY <2>1, EntryAt
  <2>3. p \in Registry!Dead <=> ~ Alive(p)
    BY <1>11, <2>2, AliveAgrees DEF Registry!Dead
  <2>4. p \in last <=> b = a /\ refMap[b].count = 1
    BY <1>3, <1>12, <2>1, <2>2, EntryAt
  <2>5. p \in Shown' <=> b \in Registered'
    BY <1>10, <2>1, <2>2, EntryAt
  <2>6. QED
    BY <1>9, <2>1, <2>3, <2>4, <2>5
<1>14. Shown' = Shown \ ended
  <2>1. Shown' \subseteq Shown
    BY <1>10 DEF Shown
  <2>2. QED
    BY <1>13, <2>1
<1>15. EntryOfObject' = [p \in Shown' |-> [id |-> refMap'[address[p]].id,
                                          owed |-> refMap'[address[p]].count]]
  BY <1>5 DEF EntryOfObject, Shown
<1>16. ASSUME NEW p \in Shown'
       PROVE  [id |-> refMap'[address[p]].id, owed |-> refMap'[address[p]].count] = less[p]
  <2>1. PICK b \in Registered' : refMap[b].wp = p
    BY <1>10
  <2>2. /\ b \in Registered /\ p \in Shown /\ address[p] = b
        /\ EntryOfObject[p] = [id |-> refMap[b].id, owed |-> refMap[b].count]
    BY <1>10, <2>1, EntryAt
  <2>3. /\ refMap'[b].id = refMap[b].id
        /\ refMap'[b].count = IF b = a THEN refMap[b].count - 1 ELSE refMap[b].count
    BY <1>6, <1>7, <2>1
  <2>4. CASE p = o
    <3>1. a = b
      BY <1>3, <2>2, <2>4, EntryAt
    <3>2. less[p] = [EntryOfObject[p] EXCEPT !.owed = @ - 1]
      BY <1>11, <2>4
    <3>3. less[p] = [id |-> refMap[b].id, owed |-> refMap[b].count - 1]
      BY <2>2, <3>2
    <3>4. QED
      BY <2>2, <2>3, <3>1, <3>3
  <2>5. CASE p # o
    <3>1. b # a
      BY <1>3, <2>1, <2>5
    <3>2. less[p] = EntryOfObject[p]
      BY <1>11, <2>2, <2>5
    <3>3. QED
      BY <2>2, <2>3, <3>1, <3>2
  <2>6. QED
    BY <2>4, <2>5
<1>17. EntryOfObject' = Erase(less, ended)
  <2>1. Erase(less, ended) = [p \in Shown \ ended |-> less[p]]
    BY <1>11 DEF Erase, Restrict
  <2>2. QED
    BY <1>14, <1>15, <1>16, <2>1
<1>18. Held' = Held /\ Made' = Made
  BY <1>5 DEF Held, Made, InUse
<1>19. EntryOfObject[o].owed > 0
  BY <1>1, <1>2, <1>12
<1>20. Registry!Release(o)
  BY <1>5, <1>11, <1>17, <1>18, <1>19
  DEF Registry!Release, Registry!Erase, Registry!Restrict, Erase, Restrict, Held, Made, InUse
<1>21. QED
  BY <1>20

-----------------------------------------------------------------------------
(* The refinement.                                                         *)

LEMMA InitRegistry == ASSUME Init PROVE Registry!Init
<1>1. Shown = {} /\ Registered = {}
  BY DEF Init, Shown, Registered
<1>2. EntryOfObject = <<>>
  BY <1>1 DEF EntryOfObject, Shown
<1>3. Held = {} /\ Made = {}
  BY DEF Init, Held, Made, InUse
<1>4. QED
  BY <1>2, <1>3 DEF Init, Registry!Init, Held, Made, InUse

LEMMA NextRegistry == ASSUME Inv, [Next]_vars PROVE [Registry!Next]_Registry!vars
<1>1. CASE UNCHANGED vars
  <2>1. EntryOfObject' = EntryOfObject
    BY <1>1, SameTable DEF vars
  <2>2. QED
    BY <1>1, <2>1 DEF vars, Registry!vars
<1>2. ASSUME NEW o \in Objects, NEW a \in Addrs, LibraryCreates(o, a) \/ Create(o, a)
      PROVE  Registry!Next
  BY <1>2, LibraryCreatesHolds, CreateCreates DEF Registry!Next
<1>3. ASSUME NEW o \in Objects, LibraryDrops(o) \/ Ref(o)
      PROVE  [Registry!Next]_Registry!vars
  BY <1>3, LibraryDropsLetsGo, RefShows DEF Registry!Next
<1>4. ASSUME NEW id \in 1..lastId, Share(id) \/ Release(id) PROVE Registry!Next
  BY <1>4, ShareShares, ReleaseReleases DEF Registry!Next
<1>5. ASSUME NEW t \in Threads, NEW id \in 1..lastId, UseBegins(t, id) PROVE Registry!Next
  BY <1>5, UseBeginsHolds DEF Registry!Next
<1>6. ASSUME NEW t \in Threads, UseEnds(t) PROVE [Registry!Next]_Registry!vars
  BY <1>6, UseEndsLetsGo DEF Registry!Next
<1>7. QED
  BY <1>1, <1>2, <1>3, <1>4, <1>5, <1>6 DEF Next

\* Keying the table by an address that the allocator may reuse, and pruning dead
\* entries only as a by-product of a release, cannot be observed: the table behaves as
\* one keyed by the identity of the object (sorac.cpp:30).
THEOREM Refinement == Spec => ImplementsRegistry
<1>1. Init => Registry!Init
  BY InitRegistry
<1>2. Inv /\ [Next]_vars => [Registry!Next]_Registry!vars
  BY NextRegistry
<1>3. QED
  BY <1>1, <1>2, Invariance, PTL DEF Spec, ImplementsRegistry, Registry!Spec
=============================================================================
