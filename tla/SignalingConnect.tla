--------------------------- MODULE SignalingConnect ---------------------------
(***************************************************************************)
(* SignalingImpl::Connect of src/signaling.cpp: one WebSocket per candidate *)
(* URL is made and opened, and the first whose onOpen callback gets through *)
(* is the one the session uses.                                             *)
(*                                                                         *)
(* The thread in Connect, and one libdatachannel thread per WebSocket that  *)
(* runs its onOpen callback, share ws_, connecting_wss_ and ws_mutex_.  The *)
(* URLs are shuffled first, so a WebSocket is named by its place in the     *)
(* shuffled order.                                                          *)
(*                                                                         *)
(* Of libdatachannel: destroying a WebSocket closes it and resets its       *)
(* callbacks, which waits for a callback that is running; a destroyed one   *)
(* calls nothing any more.                                                  *)
(***************************************************************************)
EXTENDS Naturals, Sequences

CONSTANTS
  N,       \* how many candidates
  Nobody   \* no WebSocket, no owner of the mutex

ASSUME NAssumption == N \in Nat \ {0}
ASSUME NobodyAssumption == Nobody \notin 0..N

Sockets == 1..N
Main    == 0        \* the thread that called Connect

VARIABLES
  ws,          \* ws_
  connecting,  \* connecting_wss_
  mutex,       \* who holds ws_mutex_
  main,        \* where the thread in Connect is
  i,           \* its loop index
  local,       \* the shared_ptr of its loop body
  socket,      \* what became of each WebSocket
  callback,    \* where the onOpen callback of each WebSocket is
  sent         \* the WebSockets that "connect" was sent on, in order

vars == <<ws, connecting, mutex, main, i, local, socket, callback, sent>>

TypeOK ==
  /\ ws \in Sockets \cup {Nobody}
  /\ connecting \in Seq(Sockets)
  /\ mutex \in Sockets \cup {Main, Nobody}
  /\ main \in {"make", "push", "loop", "read", "open", "drop", "returned", "undefined"}
  /\ i \in 1..(N + 1)
  /\ local \in Sockets \cup {Nobody}
  /\ socket \in [Sockets -> {"none", "made", "connecting", "open", "failed", "destroyed"}]
  /\ callback \in [Sockets -> {"idle", "called", "locked", "clearing", "sending", "returned"}]
  /\ sent \in Seq(Sockets)

Init ==
  /\ ws = Nobody
  /\ connecting = <<>>
  /\ mutex = Nobody
  /\ main = "make"
  /\ i = 1
  /\ local = Nobody
  /\ socket = [w \in Sockets |-> "none"]
  /\ callback = [w \in Sockets |-> "idle"]
  /\ sent = <<>>

Running(w) == callback[w] \notin {"idle", "returned"}

\* The program has run into undefined behaviour: nothing is said any more.
Defined == main # "undefined"

-----------------------------------------------------------------------------
(* The thread in Connect.                                                  *)

\* make_shared, and lock ws_mutex_ for push_back.
MakeSocket ==
  /\ main = "make" /\ i <= N
  /\ mutex = Nobody
  /\ mutex' = Main
  /\ main' = "push"
  /\ socket' = [socket EXCEPT ![i] = "made"]
  /\ UNCHANGED <<ws, connecting, i, local, callback, sent>>

\* Mutant: only the first candidate is listed.
PushFirst ==
  /\ main = "push"
  /\ connecting' = IF connecting = <<>> THEN <<i>> ELSE connecting
  /\ mutex' = Nobody
  /\ main' = "make"
  /\ i' = i + 1
  /\ UNCHANGED <<ws, local, socket, callback, sent>>

PushBack ==
  /\ main = "push"
  /\ connecting' = Append(connecting, i)
  /\ mutex' = Nobody
  /\ main' = "make"
  /\ i' = i + 1
  /\ UNCHANGED <<ws, local, socket, callback, sent>>

AllMade ==
  /\ main = "make" /\ i = N + 1
  /\ main' = "loop"
  /\ i' = 1
  /\ UNCHANGED <<ws, connecting, mutex, local, socket, callback, sent>>

\* for (i ...): lock ws_mutex_ ...
LockToRead ==
  /\ main = "loop" /\ i <= N
  /\ mutex = Nobody
  /\ mutex' = Main
  /\ main' = "read"
  /\ UNCHANGED <<ws, connecting, i, local, socket, callback, sent>>

\* ... ws = connecting_wss_[i], which is undefined behind the end, and unlock.
ReadCandidate ==
  /\ main = "read"
  /\ IF i <= Len(connecting)
       THEN local' = connecting[i] /\ main' = "open"
       ELSE local' = Nobody /\ main' = "undefined"
  /\ mutex' = Nobody
  /\ UNCHANGED <<ws, connecting, i, socket, callback, sent>>

\* ws->open(urls[i])
OpenCandidate ==
  /\ main = "open"
  /\ socket' = [socket EXCEPT ![local] = "connecting"]
  /\ main' = "drop"
  /\ UNCHANGED <<ws, connecting, mutex, i, local, callback, sent>>

\* Whether a WebSocket is held by anyone but the thread in Connect.
HeldElsewhere(w) == w = ws \/ \E k \in DOMAIN connecting : connecting[k] = w

\* The loop body ends and lets go of its shared_ptr, maybe the last one.
DropCandidate ==
  /\ main = "drop"
  /\ HeldElsewhere(local) \/ ~Running(local)
  /\ socket' = IF HeldElsewhere(local) THEN socket
                                       ELSE [socket EXCEPT ![local] = "destroyed"]
  /\ local' = Nobody
  /\ i' = i + 1
  /\ main' = IF i = N THEN "returned" ELSE "loop"
  /\ UNCHANGED <<ws, connecting, mutex, callback, sent>>

-----------------------------------------------------------------------------
(* The network and the callbacks.                                          *)

\* The handshake succeeds, and libdatachannel calls onOpen ...
Opens(w) ==
  /\ socket[w] = "connecting"
  /\ socket' = [socket EXCEPT ![w] = "open"]
  /\ callback' = [callback EXCEPT ![w] = "called"]
  /\ UNCHANGED <<ws, connecting, mutex, main, i, local, sent>>

\* ... or it fails; OnError and OnClosed change nothing.
Fails(w) ==
  /\ socket[w] = "connecting"
  /\ socket' = [socket EXCEPT ![w] = "failed"]
  /\ UNCHANGED <<ws, connecting, mutex, main, i, local, callback, sent>>

\* Mutant: onOpen waits for the mutex.
TryLockWaiting(w) ==
  /\ callback[w] = "called" /\ mutex = Nobody
  /\ mutex' = w
  /\ callback' = [callback EXCEPT ![w] = "locked"]
  /\ UNCHANGED <<ws, connecting, main, i, local, socket, sent>>

\* Mutant: onOpen takes any candidate still listed for a chosen one.
TryLockGivesUp(w) ==
  /\ callback[w] = "called"
  /\ IF mutex = Nobody /\ Len(connecting) = 1
       THEN mutex' = w /\ callback' = [callback EXCEPT ![w] = "locked"]
       ELSE callback' = [callback EXCEPT ![w] = "returned"] /\ UNCHANGED mutex
  /\ UNCHANGED <<ws, connecting, main, i, local, socket, sent>>

\* onOpen tries the mutex and returns if somebody has it.
TryLock(w) ==
  /\ callback[w] = "called"
  /\ IF mutex = Nobody
       THEN mutex' = w /\ callback' = [callback EXCEPT ![w] = "locked"]
       ELSE callback' = [callback EXCEPT ![w] = "returned"] /\ UNCHANGED mutex
  /\ UNCHANGED <<ws, connecting, main, i, local, socket, sent>>

\* With the mutex: somebody else has been chosen ...
TooLate(w) ==
  /\ callback[w] = "locked"
  /\ ws # Nobody \/ socket[w] = "destroyed"
  /\ mutex' = Nobody
  /\ callback' = [callback EXCEPT ![w] = "returned"]
  /\ UNCHANGED <<ws, connecting, main, i, local, socket, sent>>

\* Mutant: nobody looks whether ws_ is set already.
ChooseAnyway(w) ==
  /\ callback[w] = "locked"
  /\ socket[w] # "destroyed"
  /\ ws' = w
  /\ callback' = [callback EXCEPT ![w] = "clearing"]
  /\ UNCHANGED <<connecting, mutex, main, i, local, socket, sent>>

\* ... or this one is.
Choose(w) ==
  /\ callback[w] = "locked"
  /\ ws = Nobody /\ socket[w] # "destroyed"
  /\ ws' = w
  /\ callback' = [callback EXCEPT ![w] = "clearing"]
  /\ UNCHANGED <<connecting, mutex, main, i, local, socket, sent>>

\* connecting_wss_.clear() lets go of one WebSocket after the other; the last
\* reference to one destroys it, once its callback is not running.
ClearOne(w) ==
  /\ callback[w] = "clearing" /\ connecting # <<>>
  /\ LET loser == Head(connecting)
         last  == loser # ws /\ loser # local
     IN  /\ last => ~Running(loser)
         /\ socket' = IF last THEN [socket EXCEPT ![loser] = "destroyed"] ELSE socket
  /\ connecting' = Tail(connecting)
  /\ UNCHANGED <<ws, mutex, main, i, local, callback, sent>>

ClearDone(w) ==
  /\ callback[w] = "clearing" /\ connecting = <<>>
  /\ mutex' = Nobody
  /\ callback' = [callback EXCEPT ![w] = "sending"]
  /\ UNCHANGED <<ws, connecting, main, i, local, socket, sent>>

\* OnOpen: GetWebSocket()->send("connect")
SendConnect(w) ==
  /\ callback[w] = "sending"
  /\ mutex = Nobody
  /\ sent' = Append(sent, ws)
  /\ callback' = [callback EXCEPT ![w] = "returned"]
  /\ UNCHANGED <<ws, connecting, mutex, main, i, local, socket>>

-----------------------------------------------------------------------------

Connect ==
  \/ MakeSocket \/ PushBack \/ AllMade
  \/ LockToRead \/ ReadCandidate \/ OpenCandidate \/ DropCandidate

OnOpen(w) ==
  TryLock(w) \/ TooLate(w) \/ Choose(w) \/ ClearOne(w) \/ ClearDone(w) \/ SendConnect(w)

Handshake(w) == Opens(w) \/ Fails(w)

Next ==
  /\ Defined
  /\ Connect \/ \E w \in Sockets : OnOpen(w) \/ Handshake(w)

Spec == Init /\ [][Next]_vars

\* Threads that can run do run, and every handshake ends: WebSockets time out.
FairSpec ==
  /\ Spec
  /\ WF_vars(Defined /\ Connect)
  /\ \A w \in Sockets : WF_vars(Defined /\ OnOpen(w)) /\ WF_vars(Defined /\ Handshake(w))

-----------------------------------------------------------------------------
(* Properties.                                                             *)

\* Whatever the order in which the candidates open, the server sees at most one
\* "connect", on an open WebSocket, the one that stays in ws_.
OneConnect ==
  /\ Len(sent) <= 1
  /\ \A k \in DOMAIN sent : sent[k] = ws /\ socket[sent[k]] = "open"

\* Nobody else survives: when the chosen one has sent and Connect has returned,
\* every other WebSocket is gone, so no server keeps an idle connection.
LosersAreGone ==
  main = "returned" /\ sent # <<>> =>
    \A w \in Sockets \ {ws} : socket[w] = "destroyed"

\* What holds of the choice in every state: types, one "connect" on the WebSocket
\* chosen for good, and nothing left of the others (signaling.cpp:80 to 105).
OneWinner == TypeOK /\ OneConnect /\ LosersAreGone

\* Clearing the losers under the mutex waits for their callbacks, and those never
\* wait for the mutex in turn: every callback returns, and so does Connect.
EveryoneReturns ==
  /\ \A w \in Sockets : Running(w) ~> (~Running(w) \/ ~Defined)
  /\ <>(main \in {"returned", "undefined"})

\* The loop of Connect reads behind the end of connecting_wss_ only when a candidate
\* has been chosen before the last one was opened, and never otherwise.
OverrunOnlyAfterChoice ==
  ~Defined => ws # Nobody /\ ws < i

\* Once Connect has returned and lets the mutex alone, a candidate that opens
\* leads to a connection: onOpen gives up only to one that is being chosen.
OpenedConnects ==
  \A w \in Sockets : (callback[w] = "called" /\ main = "returned") ~> sent # <<>>
=============================================================================
