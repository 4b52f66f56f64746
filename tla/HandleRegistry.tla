---------------------------- MODULE HandleRegistry ----------------------------
(***************************************************************************)
(* What the handle table of sorac.h promises, without addresses, typed     *)
(* maps or weak pointers.  An object has at most one current id.  The user *)
(* holds a number of references through it, and an object lives as long as *)
(* somebody holds it: the user, or others (the library, a running getter). *)
(* An id given out is never given out again, and the registration of an    *)
(* object ends only when its last reference is released or when it is dead.*)
(* CPointer is shown to implement this.                                    *)
(***************************************************************************)
EXTENDS Naturals, PartialMaps

CONSTANTS Objects

VARIABLES
  registered,  \* object -> [id, owed], for the objects that have a current id
  held,        \* the objects that others than the user hold
  made,        \* the objects created so far
  lastId       \* the last id given out

vars == <<registered, held, made, lastId>>

TypeOK ==
  /\ DOMAIN registered \subseteq made
  /\ \A o \in DOMAIN registered : registered[o] \in [id : 1..lastId, owed : Nat]
  /\ held \subseteq made
  /\ made \subseteq Objects
  /\ lastId \in Nat

Alive(o) == o \in held \/ (o \in DOMAIN registered /\ registered[o].owed > 0)

Dead == {o \in DOMAIN registered : ~Alive(o)}

Init ==
  /\ registered = <<>>
  /\ held = {}
  /\ made = {}
  /\ lastId = 0

GiveId(o, owed) ==
  /\ lastId' = lastId + 1
  /\ registered' = Put(registered, o, [id |-> lastId + 1, owed |-> owed])

\* The user makes an object and owns a reference to it.
Create(o) ==
  /\ o \notin made
  /\ made' = made \cup {o}
  /\ GiveId(o, 1)
  /\ UNCHANGED held

\* The user is shown an object that others hold.
Show(o) ==
  /\ o \in held \ DOMAIN registered
  /\ GiveId(o, 0)
  /\ UNCHANGED <<held, made>>

Share(o) ==
  /\ o \in DOMAIN registered /\ Alive(o)
  /\ registered' = [registered EXCEPT ![o].owed = @ + 1]
  /\ UNCHANGED <<held, made, lastId>>

\* The user gives a reference back; the last one ends the registration.  The
\* registrations of dead objects end too.
Release(o) ==
  /\ o \in DOMAIN registered
  /\ registered[o].owed > 0
  /\ LET ended == Dead \cup (IF registered[o].owed = 1 THEN {o} ELSE {})
     IN  registered' = Erase([registered EXCEPT ![o].owed = @ - 1], ended)
  /\ UNCHANGED <<held, made, lastId>>

\* Others make an object, take hold of a living one or let go of one.
Hold(o) ==
  /\ o \notin made \/ Alive(o)
  /\ held' = held \cup {o}
  /\ made' = made \cup {o}
  /\ UNCHANGED <<registered, lastId>>

LetGo(o) ==
  /\ held' = held \ {o}
  /\ UNCHANGED <<registered, made, lastId>>

Next ==
  \E o \in Objects :
    Create(o) \/ Show(o) \/ Share(o) \/ Release(o) \/ Hold(o) \/ LetGo(o)

Spec == Init /\ [][Next]_vars
=============================================================================
