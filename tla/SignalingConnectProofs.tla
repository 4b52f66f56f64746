------------------------- MODULE SignalingConnectProofs -------------------------
(***************************************************************************)
(* Proofs about SignalingConnect, for any number of candidates: at most one  *)
(* is chosen, it says "connect" once, and nothing is left of the others.     *)
(***************************************************************************)
EXTENDS SignalingConnect, TLAPS

Listing == {"make", "push"}
Opening == {"loop", "read", "open", "drop"}

\* The thread in Connect: its index, its shared_ptr, and what it has not opened yet.
MainPlace ==
  /\ main = "push" => i <= N
  /\ main \in Opening => i <= N
  /\ local = IF main \in {"open", "drop"} THEN i ELSE Nobody
  /\ main = "open" => socket[i] = "made"
  /\ \A w \in Sockets :
       /\ main \in Listing =>
            socket[w] = IF w < i \/ (w = i /\ main = "push") THEN "made" ELSE "none"
       /\ main \notin Listing => socket[w] # "none"
       /\ main \in Opening /\ (w > i \/ (w = i /\ main # "drop")) =>
            socket[w] \in {"made", "destroyed"}

\* An onOpen runs on an open WebSocket; who changes ws_ or the list has the mutex.
Callbacks ==
  /\ mutex = Main <=> main \in {"push", "read"}
  /\ \A w \in Sockets :
       /\ mutex = w <=> callback[w] \in {"locked", "clearing"}
       /\ Running(w) => socket[w] = "open"
       /\ callback[w] = "idle" => socket[w] # "open"
       /\ callback[w] \in {"clearing", "sending"} => ws = w

\* Before the choice the list is complete and nothing is destroyed ...
Unchosen ==
  ws = Nobody =>
    /\ sent = <<>>
    /\ Len(connecting) = IF main \in Listing THEN i - 1 ELSE N
    /\ \A k \in 1..Len(connecting) : connecting[k] = k
    /\ \A w \in Sockets : socket[w] # "destroyed"

\* ... and after it the one chosen is open, clears the list and says "connect".
Chosen ==
  ws # Nobody =>
    /\ main \notin Listing
    /\ socket[ws] = "open"
    /\ callback[ws] \in {"clearing", "sending", "returned"}
    /\ callback[ws] # "clearing" => connecting = <<>>
    /\ sent = IF callback[ws] = "returned" THEN <<ws>> ELSE <<>>

\* A WebSocket that nobody holds is destroyed.
Held ==
  \A w \in Sockets :
    socket[w] \in {"none", "destroyed"} \/ w = local \/ HeldElsewhere(w)
      \/ (main = "push" /\ w = i)

Inv == TypeOK /\ MainPlace /\ Callbacks /\ Unchosen /\ Chosen /\ Held

-----------------------------------------------------------------------------

LEMMA InitInv == Init => Inv
  BY NAssumption, NobodyAssumption
  DEF Init, Inv, TypeOK, MainPlace, Callbacks, Unchosen, Chosen, Held, Listing, Opening,
      Sockets, Main, Running, HeldElsewhere

LEMMA MakeSocketInv ==
  ASSUME Inv, MakeSocket PROVE Inv'
<1> USE NAssumption, NobodyAssumption DEF MakeSocket, Sockets, Main
<1>1. TypeOK'
  BY DEF Inv, TypeOK
<1>2. MainPlace'
  BY DEF Inv, TypeOK, MainPlace, Listing, Opening
<1>3. Callbacks'
  BY DEF Inv, MainPlace, Callbacks, Listing, Running
<1>4. Unchosen'
  BY DEF Inv, Unchosen, Listing
<1>5. Chosen'
  BY DEF Inv, Chosen, Listing
<1>6. Held'
  BY DEF Inv, Held, HeldElsewhere
<1>7. QED
  BY <1>1, <1>2, <1>3, <1>4, <1>5, <1>6 DEF Inv

LEMMA PushBackInv ==
  ASSUME Inv, PushBack PROVE Inv'
<1> USE NAssumption, NobodyAssumption DEF PushBack, Sockets, Main
<1>1. TypeOK'
  BY DEF Inv, TypeOK, MainPlace
<1>2. MainPlace'
  BY DEF Inv, TypeOK, MainPlace, Listing, Opening
<1>3. Callbacks'
  BY DEF Inv, Callbacks, Running
<1>4. Unchosen'
  BY DEF Inv, TypeOK, Unchosen, Listing
<1>5. Chosen'
  BY DEF Inv, Chosen, Listing
<1>6. Held'
  <2>1. /\ Len(connecting') = Len(connecting) + 1
        /\ connecting'[Len(connecting) + 1] = i
        /\ \A k \in 1..Len(connecting) : connecting'[k] = connecting[k]
        /\ DOMAIN connecting = 1..Len(connecting)
        /\ DOMAIN connecting' = 1..(Len(connecting) + 1)
        /\ Len(connecting) \in Nat
    BY DEF Inv, TypeOK, MainPlace
  <2>2. /\ main = "push" /\ main' = "make"
        /\ UNCHANGED <<ws, local, socket>>
    OBVIOUS
  <2>3. \A w \in Sockets : HeldElsewhere(w) => HeldElsewhere(w)'
    <3> SUFFICES ASSUME NEW w \in Sockets, HeldElsewhere(w), w # ws
                 PROVE  \E k \in DOMAIN connecting' : connecting'[k] = w
      BY <2>2 DEF HeldElsewhere
    <3>1. PICK k \in DOMAIN connecting : connecting[k] = w
      BY DEF HeldElsewhere
    <3>2. k \in DOMAIN connecting' /\ connecting'[k] = w
      BY <2>1, <3>1
    <3>3. QED
      BY <3>2
  <2>4. \A w \in Sockets : w = i => HeldElsewhere(w)'
    BY <2>1 DEF HeldElsewhere
  <2>5. QED
    BY <2>2, <2>3, <2>4 DEF Inv, Held
<1>7. QED
  BY <1>1, <1>2, <1>3, <1>4, <1>5, <1>6 DEF Inv

LEMMA AllMadeInv ==
  ASSUME Inv, AllMade PROVE Inv'
<1> USE NAssumption, NobodyAssumption DEF AllMade, Sockets, Main
<1>1. TypeOK'
  BY DEF Inv, TypeOK
<1>2. MainPlace'
  BY DEF Inv, MainPlace, Listing
<1>3. Callbacks'
  BY DEF Inv, Callbacks, Running
<1>4. Unchosen'
  BY DEF Inv, Unchosen, Listing
<1>5. Chosen'
  BY DEF Inv, Chosen, Listing
<1>6. Held'
  BY DEF Inv, Held, HeldElsewhere
<1>7. QED
  BY <1>1, <1>2, <1>3, <1>4, <1>5, <1>6 DEF Inv

LEMMA LockToReadInv ==
  ASSUME Inv, LockToRead PROVE Inv'
<1> USE NAssumption, NobodyAssumption DEF LockToRead, Sockets, Main
<1>1. TypeOK'
  BY DEF Inv, TypeOK
<1>2. MainPlace'
  BY DEF Inv, MainPlace, Listing, Opening
<1>3. Callbacks'
  BY DEF Inv, Callbacks, Running
<1>4. Unchosen'
  BY DEF Inv, Unchosen, Listing
<1>5. Chosen'
  BY DEF Inv, Chosen, Listing
<1>6. Held'
  BY DEF Inv, Held, HeldElsewhere
<1>7. QED
  BY <1>1, <1>2, <1>3, <1>4, <1>5, <1>6 DEF Inv

LEMMA ReadCandidateInv ==
  ASSUME Inv, ReadCandidate PROVE Inv'
<1> USE NAssumption, NobodyAssumption DEF ReadCandidate, Sockets, Main
<1>1. TypeOK'
  BY SMTT(30) DEF Inv, TypeOK
<1>2. MainPlace'
  BY DEF Inv, TypeOK, MainPlace, Callbacks, Unchosen, Chosen, Held, Listing,
         Opening
<1>3. Callbacks'
  <2>1. /\ main = "read" /\ main' \in {"open", "undefined"}
        /\ mutex = Main /\ mutex' = Nobody
        /\ UNCHANGED <<ws, socket, callback>>
    BY DEF Inv, TypeOK, Callbacks
  <2>2. QED
    BY <2>1 DEF Inv, TypeOK, Callbacks, Running
<1>4. Unchosen'
  BY DEF Inv, Unchosen, Listing
<1>5. Chosen'
  BY DEF Inv, Chosen, Listing
<1>6. Held'
  <2>1. local = Nobody /\ UNCHANGED <<ws, connecting, socket>> /\ main = "read"
    BY DEF Inv, MainPlace
  <2>2. \A w \in Sockets : HeldElsewhere(w)' <=> HeldElsewhere(w)
    BY <2>1 DEF HeldElsewhere
  <2>3. QED
    BY <2>1, <2>2 DEF Inv, TypeOK, Held
<1>7. QED
  BY <1>1, <1>2, <1>3, <1>4, <1>5, <1>6 DEF Inv

LEMMA OpenCandidateInv ==
  ASSUME Inv, OpenCandidate PROVE Inv'
<1> USE NAssumption, NobodyAssumption DEF OpenCandidate, Sockets, Main
<1>1. TypeOK'
  BY DEF Inv, TypeOK
<1>2. MainPlace'
  BY DEF Inv, MainPlace, Listing, Opening
<1>3. Callbacks'
  BY DEF Inv, MainPlace, Callbacks, Running
<1>4. Unchosen'
  BY DEF Inv, Unchosen, Listing
<1>5. Chosen'
  BY DEF Inv, MainPlace, Chosen, Listing
<1>6. Held'
  BY DEF Inv, Held, HeldElsewhere
<1>7. QED
  BY <1>1, <1>2, <1>3, <1>4, <1>5, <1>6 DEF Inv

LEMMA DropCandidateInv ==
  ASSUME Inv, DropCandidate PROVE Inv'
<1> USE NAssumption, NobodyAssumption DEF DropCandidate, Sockets, Main
<1>1. TypeOK'
  BY DEF Inv, TypeOK, MainPlace, Opening
<1>2. MainPlace'
  BY DEF Inv, TypeOK, MainPlace, Listing, Opening
<1>3. Callbacks'
  BY DEF Inv, Callbacks, Running
<1>4. Unchosen'
  BY DEF Inv, Unchosen, Held, Listing, HeldElsewhere
<1>5. Chosen'
  BY DEF Inv, Chosen, Held, Listing, HeldElsewhere
<1>6. Held'
  BY DEF Inv, TypeOK, Held, HeldElsewhere
<1>7. QED
  BY <1>1, <1>2, <1>3, <1>4, <1>5, <1>6 DEF Inv

LEMMA OpensInv ==
  ASSUME Inv, NEW w \in Sockets, Opens(w) PROVE Inv'
<1> USE NAssumption, NobodyAssumption DEF Opens, Sockets, Main
<1>1. TypeOK'
  BY DEF Inv, TypeOK
<1>2. MainPlace'
  <2>1. /\ socket[w] = "connecting"
        /\ socket'[w] = "open" /\ \A v \in Sockets : v # w => socket'[v] = socket[v]
        /\ UNCHANGED <<main, i, local>>
    BY DEF Inv, TypeOK
  <2>2. main \notin Listing /\ (main = "open" => i # w)
    BY <2>1 DEF Inv, MainPlace, Listing
  <2>3. main \in {"open"} => i \in Sockets
    BY DEF Inv, TypeOK, MainPlace, Opening
  <2>4. QED
    BY <2>1, <2>2, <2>3 DEF Inv, MainPlace, Opening, Listing
<1>3. Callbacks'
  BY DEF Inv, TypeOK, Callbacks, Running
<1>4. Unchosen'
  BY DEF Inv, Unchosen
<1>5. Chosen'
  BY DEF Inv, Chosen
<1>6. Held'
  BY DEF Inv, Held, HeldElsewhere
<1>7. QED
  BY <1>1, <1>2, <1>3, <1>4, <1>5, <1>6 DEF Inv

LEMMA FailsInv ==
  ASSUME Inv, NEW w \in Sockets, Fails(w) PROVE Inv'
<1> USE NAssumption, NobodyAssumption DEF Fails, Sockets, Main
<1>1. TypeOK'
  BY DEF Inv, TypeOK
<1>2. MainPlace'
  BY DEF Inv, MainPlace, Opening
<1>3. Callbacks'
  BY DEF Inv, Callbacks, Running
<1>4. Unchosen'
  BY DEF Inv, Unchosen
<1>5. Chosen'
  BY DEF Inv, Chosen
<1>6. Held'
  BY DEF Inv, Held, HeldElsewhere
<1>7. QED
  BY <1>1, <1>2, <1>3, <1>4, <1>5, <1>6 DEF Inv

LEMMA TryLockInv ==
  ASSUME Inv, NEW w \in Sockets, TryLock(w) PROVE Inv'
<1> USE NAssumption, NobodyAssumption DEF TryLock, Sockets, Main
<1>1. TypeOK'
  <2>1. CASE mutex = Nobody
    BY <2>1 DEF Inv, TypeOK
  <2>2. CASE mutex # Nobody
    BY <2>2 DEF Inv, TypeOK
  <2>3. QED
    BY <2>1, <2>2
<1>2. MainPlace'
  BY DEF Inv, MainPlace
<1>3. Callbacks'
  <2>1. CASE mutex = Nobody
    BY <2>1 DEF Inv, TypeOK, Callbacks, Running
  <2>2. CASE mutex # Nobody
    BY <2>2 DEF Inv, TypeOK, Callbacks, Running
  <2>3. QED
    BY <2>1, <2>2
<1>4. Unchosen'
  BY DEF Inv, Unchosen
<1>5. Chosen'
  BY DEF Inv, TypeOK, Chosen
<1>6. Held'
  BY DEF Inv, Held, HeldElsewhere
<1>7. QED
  BY <1>1, <1>2, <1>3, <1>4, <1>5, <1>6 DEF Inv

LEMMA TooLateInv ==
  ASSUME Inv, NEW w \in Sockets, TooLate(w) PROVE Inv'
<1> USE NAssumption, NobodyAssumption DEF TooLate, Sockets, Main
<1>1. TypeOK'
  BY DEF Inv, TypeOK
<1>2. MainPlace'
  BY DEF Inv, MainPlace
<1>3. Callbacks'
  BY DEF Inv, TypeOK, Callbacks, Running
<1>4. Unchosen'
  BY DEF Inv, Unchosen
<1>5. Chosen'
  BY DEF Inv, Chosen
<1>6. Held'
  BY DEF Inv, Held, HeldElsewhere
<1>7. QED
  BY <1>1, <1>2, <1>3, <1>4, <1>5, <1>6 DEF Inv

LEMMA ChooseInv ==
  ASSUME Inv, NEW w \in Sockets, Choose(w) PROVE Inv'
<1> USE NAssumption, NobodyAssumption DEF Choose, Sockets, Main
<1>1. TypeOK'
  BY DEF Inv, TypeOK
<1>2. MainPlace'
  BY DEF Inv, MainPlace
<1>3. Callbacks'
  BY DEF Inv, Callbacks, Running
<1>4. Unchosen'
  BY DEF Inv, Unchosen
<1>5. Chosen'
  BY DEF Inv, TypeOK, MainPlace, Callbacks, Unchosen, Chosen, Held, Running
<1>6. Held'
  BY DEF Inv, Held, HeldElsewhere
<1>7. QED
  BY <1>1, <1>2, <1>3, <1>4, <1>5, <1>6 DEF Inv

LEMMA ClearOneInv ==
  ASSUME Inv, NEW w \in Sockets, ClearOne(w) PROVE Inv'
<1> USE NAssumption, NobodyAssumption DEF ClearOne, Sockets, Main
<1> PICK loser : loser = Head(connecting)
  OBVIOUS
<1>a. /\ connecting # <<>> /\ connecting \in Seq(Sockets) /\ loser \in Sockets
      /\ connecting' = Tail(connecting) /\ connecting' \in Seq(Sockets)
      /\ Len(connecting') = Len(connecting) - 1
      /\ \A k \in 1..Len(connecting') : connecting'[k] = connecting[k + 1]
      /\ connecting[1] = loser
  BY DEF Inv, TypeOK
<1>b. /\ \A v \in Sockets : v # loser => socket'[v] = socket[v]
      /\ \/ socket'[loser] = socket[loser] /\ loser \in {ws, local}
         \/ /\ socket'[loser] = "destroyed" /\ loser # ws /\ loser # local
            /\ ~Running(loser)
      /\ socket' \in [Sockets ->
           {"none", "made", "connecting", "open", "failed", "destroyed"}]
  BY <1>a DEF Inv, TypeOK
<1>1. TypeOK'
  BY <1>a, <1>b DEF Inv, TypeOK
<1>2. MainPlace'
  <2>1. main = "open" => socket'[i] = "made"
    BY <1>a, <1>b DEF Inv, TypeOK, MainPlace, Opening
  <2>2. main \notin Listing
    BY DEF Inv, Callbacks, Chosen, TypeOK
  <2>3. QED
    BY <1>a, <1>b, <2>1, <2>2 DEF Inv, TypeOK, MainPlace
<1>3. Callbacks'
  BY DEF Inv, Callbacks, Running
<1>4. Unchosen'
  BY DEF Inv, Callbacks, Unchosen
<1>5. Chosen'
  BY DEF Inv, Chosen
<1>6. Held'
  <2>1. \A v \in Sockets : v # loser => (HeldElsewhere(v) => HeldElsewhere(v)')
    <3> SUFFICES ASSUME NEW v \in Sockets, v # loser, HeldElsewhere(v), v # ws
                 PROVE  \E k \in DOMAIN connecting' : connecting'[k] = v
      BY DEF HeldElsewhere
    <3>1. PICK k \in 1..Len(connecting) : connecting[k] = v
      BY <1>a DEF HeldElsewhere
    <3>2. k # 1 /\ k - 1 \in 1..Len(connecting') /\ connecting'[k - 1] = v
      BY <1>a, <3>1
    <3>3. DOMAIN connecting' = 1..Len(connecting')
      BY <1>a
    <3>4. QED
      BY <3>2, <3>3
  <2>2. socket'[loser] = "destroyed" \/ loser = local \/ HeldElsewhere(loser)'
    BY <1>b DEF HeldElsewhere
  <2>3. QED
    BY <1>b, <2>1, <2>2 DEF Inv, Held
<1>7. QED
  BY <1>1, <1>2, <1>3, <1>4, <1>5, <1>6 DEF Inv

LEMMA ClearDoneInv ==
  ASSUME Inv, NEW w \in Sockets, ClearDone(w) PROVE Inv'
<1> USE NAssumption, NobodyAssumption DEF ClearDone, Sockets, Main
<1>1. TypeOK'
  BY DEF Inv, TypeOK
<1>2. MainPlace'
  BY DEF Inv, MainPlace
<1>3. Callbacks'
  BY DEF Inv, TypeOK, Callbacks, Running
<1>4. Unchosen'
  BY DEF Inv, Unchosen
<1>5. Chosen'
  BY DEF Inv, Chosen
<1>6. Held'
  BY DEF Inv, Held, HeldElsewhere
<1>7. QED
  BY <1>1, <1>2, <1>3, <1>4, <1>5, <1>6 DEF Inv

LEMMA SendConnectInv ==
  ASSUME Inv, NEW w \in Sockets, SendConnect(w) PROVE Inv'
<1> USE NAssumption, NobodyAssumption DEF SendConnect, Sockets, Main
<1>1. TypeOK'
  BY DEF Inv, TypeOK, Callbacks
<1>2. MainPlace'
  BY DEF Inv, MainPlace
<1>3. Callbacks'
  BY DEF Inv, Callbacks, Running
<1>4. Unchosen'
  BY DEF Inv, Callbacks, Unchosen
<1>5. Chosen'
  <2>1. ws = w /\ ws # Nobody /\ sent = <<>>
    BY DEF Inv, Callbacks, Chosen
  <2>2. sent' = <<ws>> /\ callback'[ws] = "returned" /\ ws' = ws
    BY <2>1 DEF Inv, TypeOK
  <2>3. connecting = <<>>
    BY <2>1 DEF Inv, Chosen
  <2>4. QED
    BY <2>1, <2>2, <2>3 DEF Inv, Chosen
<1>6. Held'
  BY DEF Inv, Held, HeldElsewhere
<1>7. QED
  BY <1>1, <1>2, <1>3, <1>4, <1>5, <1>6 DEF Inv
LEMMA NextInv ==
  ASSUME Inv, [Next]_vars PROVE Inv'
<1>1. CASE UNCHANGED vars
  BY <1>1 DEF Inv, vars, TypeOK, MainPlace, Callbacks, Unchosen, Chosen, Held,
              Listing, Opening, Running, HeldElsewhere
<1>2. CASE Connect
  BY <1>2, MakeSocketInv, PushBackInv, AllMadeInv, LockToReadInv, ReadCandidateInv,
     OpenCandidateInv, DropCandidateInv DEF Connect
<1>3. CASE \E w \in Sockets : OnOpen(w)
  BY <1>3, TryLockInv, TooLateInv, ChooseInv, ClearOneInv, ClearDoneInv, SendConnectInv
     DEF OnOpen
<1>4. CASE \E w \in Sockets : Handshake(w)
  BY <1>4, OpensInv, FailsInv DEF Handshake
<1>5. QED
  BY <1>1, <1>2, <1>3, <1>4 DEF Next

\* The inductive invariant holds in every state, for any number of candidates.
THEOREM Invariance == Spec => []Inv
<1>1. QED
  BY InitInv, NextInv, PTL DEF Spec

-----------------------------------------------------------------------------

LEMMA WinnerStandsAlone == ASSUME Inv PROVE OneWinner
<1> USE NobodyAssumption DEF Sockets
<1>1. TypeOK
  BY DEF Inv
<1>2. CASE ws = Nobody
  BY <1>1, <1>2 DEF Inv, Unchosen, OneWinner, OneConnect, LosersAreGone
<1>3. CASE ws # Nobody
  <2>1. OneConnect
    <3>1. sent = <<>> \/ sent = <<ws>>
      BY <1>3 DEF Inv, Chosen
    <3>2. socket[ws] = "open"
      BY <1>3 DEF Inv, Chosen
    <3>3. CASE sent = <<>>
      BY <3>3 DEF OneConnect
    <3>4. CASE sent = <<ws>>
      <4>1. Len(sent) = 1 /\ \A k \in DOMAIN sent : sent[k] = ws
        BY <3>4
      <4>2. QED
        BY <3>2, <4>1 DEF OneConnect
    <3>5. QED
      BY <3>1, <3>3, <3>4
  <2>2. ASSUME main = "returned", sent # <<>>, NEW w \in Sockets, w # ws
        PROVE  socket[w] = "destroyed"
    <3>1. connecting = <<>> /\ local = Nobody
      BY <1>3, <2>2 DEF Inv, Chosen, MainPlace
    <3>2. w # local /\ ~HeldElsewhere(w)
      BY <2>2, <3>1 DEF HeldElsewhere
    <3>3. socket[w] # "none"
      BY <2>2 DEF Inv, MainPlace, Listing
    <3>4. QED
      BY <2>2, <3>2, <3>3 DEF Inv, Held
  <2>3. QED
    BY <1>1, <2>1, <2>2 DEF OneWinner, LosersAreGone
<1>4. QED
  BY <1>2, <1>3

\* However the candidates race in Connect (signaling.cpp:80 to 132), the server sees
\* at most one "connect", on the WebSocket that stays in ws_, and once Connect has
\* returned every other WebSocket is destroyed: for any number of candidates.
THEOREM OnlyOneWins == Spec => []OneWinner
<1>1. QED
  BY Invariance, WinnerStandsAlone, PTL

LEMMA ReadAfterChoice ==
  ASSUME Inv, OverrunOnlyAfterChoice, [Next]_vars PROVE OverrunOnlyAfterChoice'
<1> SUFFICES ASSUME main' = "undefined" PROVE ws' # Nobody /\ ws' < i'
  BY DEF OverrunOnlyAfterChoice, Defined
<1>1. CASE UNCHANGED vars
  BY <1>1 DEF OverrunOnlyAfterChoice, Defined, vars
<1>2. CASE Next
  <2>1. ReadCandidate
    BY <1>2 DEF Next, Defined, Connect, MakeSocket, PushBack, AllMade, LockToRead,
       OpenCandidate, DropCandidate, OnOpen, TryLock, TooLate, Choose, ClearOne,
       ClearDone, SendConnect, Handshake, Opens, Fails
  <2>2. main = "read" /\ i > Len(connecting) /\ UNCHANGED <<ws, i>>
    BY <2>1 DEF ReadCandidate, Inv, TypeOK
  <2>3. i \in Sockets
    BY <2>2, NAssumption DEF Inv, TypeOK, MainPlace, Opening, Sockets
  <2>4. ws # Nobody
    BY <2>2, <2>3, NAssumption DEF Inv, Unchosen, Listing, Sockets
  <2>5. ws \in Sockets /\ socket[ws] = "open"
    BY <2>4 DEF Inv, TypeOK, Chosen
  <2>6. ws < i
    BY <2>2, <2>3, <2>5, NAssumption DEF Inv, MainPlace, Opening, Sockets
  <2>7. QED
    BY <2>2, <2>4, <2>6
<1>3. QED
  BY <1>1, <1>2

\* Connect reads behind the end of connecting_wss_ (signaling.cpp:128) only when one
\* of the candidates opened before has been chosen: for any number of candidates.
THEOREM OverrunNeedsWinner == Spec => []OverrunOnlyAfterChoice
<1>1. Init => OverrunOnlyAfterChoice
  BY DEF Init, OverrunOnlyAfterChoice, Defined
<1>2. QED
  BY <1>1, Invariance, ReadAfterChoice, PTL DEF Spec
=============================================================================
