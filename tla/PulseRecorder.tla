----------------------------- MODULE PulseRecorder -----------------------------
(***************************************************************************)
(* examples/sumomo/pulse_recorder.cpp: three threads around a PulseAudio   *)
(* stream.  The owner calls Start, Stop and the destructor, once each; the *)
(* mainloop thread of PulseAudio calls ReadCallback, holding its lock; the *)
(* recording thread th_ takes what ReadCallback has peeked at and calls    *)
(* back with frames.                                                       *)
(*                                                                         *)
(* ReadCallback unsets itself when it has handed over a fragment, and th_  *)
(* sets it again.  th_ holds rec_mutex_ when it asks for the lock of the   *)
(* mainloop; steps that take that lock for a moment only are one action.   *)
(* rec_size_ has no initial value: it may seem to announce a fragment.     *)
(* The PulseAudio server is external: it may refuse, fail and be late.     *)
(* What ReadCallback does to a deleted object is not looked at any more.   *)
(***************************************************************************)
EXTENDS Integers, Sequences

CONSTANT MaxFragments   \* bound: fragments that the server delivers

PulseConstants == MaxFragments \in Nat \ {0}

VARIABLES
  owner,        \* what the owner is doing, see Owners
  thread,       \* program counter of th_, see Pcs
  quit,         \* quit_
  context,      \* state of pa_context_
  stream,       \* state of rec_stream_
  armed,        \* ReadCallback is set
  mainloop,     \* the mainloop thread is "idle" or in the "callback"
  recMutex,     \* who holds rec_mutex_: "nobody" or "th"; ReadCallback is one step
  recSize,      \* rec_size_: Nothing, Garbage or the fragment it is the size of
  arrived,      \* fragments the server has delivered
  first,        \* the first fragment that was not dropped
  frames,       \* local: frames made, not called back with yet
  framed        \* history: fragments the callback was given

pulseVars ==
  <<owner, thread, quit, context, stream, armed, mainloop, recMutex, recSize,
    arrived, first, frames, framed>>

Nothing == 0
Garbage == -1

Owners == {"created", "connecting", "asking", "failed", "running", "quitting",
           "joining", "stopped", "gone"}
Pcs    == {"none", "connect", "await ready", "lock", "checked", "waiting", "holding",
           "want loop", "rearm", "frame", "finished"}
Servers == {"none", "connecting", "ready", "failed"}

PulseTypeOK ==
  /\ owner \in Owners /\ thread \in Pcs
  /\ context \in Servers /\ stream \in Servers
  /\ quit \in BOOLEAN /\ armed \in BOOLEAN
  /\ mainloop \in {"idle", "callback"} /\ recMutex \in {"nobody", "th"}
  /\ recSize \in {Garbage, Nothing} \cup 1..MaxFragments
  /\ arrived \in 0..MaxFragments /\ first \in 1..(MaxFragments + 1)
  /\ frames \in Seq({Garbage} \cup 1..MaxFragments)
  /\ framed \in Seq({Garbage} \cup 1..MaxFragments)

Init ==
  /\ owner = "created" /\ thread = "none" /\ quit = FALSE
  /\ context = "none" /\ stream = "none" /\ armed = FALSE
  /\ mainloop = "idle" /\ recMutex = "nobody"
  /\ recSize \in {Nothing, Garbage}
  /\ arrived = 0 /\ first = 1 /\ frames = <<>> /\ framed = <<>>

server == <<context, stream>>
hand   == <<armed, mainloop, recMutex, recSize, arrived, first, frames, framed>>

-----------------------------------------------------------------------------
(* The owner: Start, Stop, the destructor.                                 *)

\* The mainloop, and a context that connects; anything of it may fail.
StartConnects ==
  /\ owner = "created"
  /\ \/ owner' = "failed" /\ UNCHANGED context
     \/ owner' = "connecting" /\ context' = "connecting"
  /\ UNCHANGED <<thread, quit, stream, hand>>

\* The state callback has signalled: Start goes on with a context that is ready.
ContextSettled ==
  /\ owner = "connecting"
  /\ context \in {"ready", "failed"}
  /\ owner' = IF context = "ready" THEN "asking" ELSE "failed"
  /\ UNCHANGED <<thread, quit, server, hand>>

\* The server has told its default source, or the operation was cancelled; a
\* stream can be made unless the context has failed meanwhile.
StartRecords ==
  /\ owner = "asking"
  /\ \/ /\ owner' = "failed" /\ UNCHANGED <<thread, quit>>
     \/ /\ context = "ready"
        /\ owner' = "running" /\ thread' = "connect" /\ quit' = FALSE
  /\ UNCHANGED <<server, hand>>

\* Stop; without a thread it does nothing.
StopQuits ==
  /\ owner \in {"running", "failed"}
  /\ IF thread # "none"
       THEN owner' = "quitting" /\ quit' = TRUE
       ELSE owner' = "stopped" /\ UNCHANGED quit
  /\ UNCHANGED <<thread, server, hand>>

Woken == IF thread = "waiting" THEN "lock" ELSE thread

\* notify_one, without rec_mutex_: it reaches a thread that waits already.
StopNotifies ==
  /\ owner = "quitting"
  /\ thread' = Woken
  /\ owner' = "joining"
  /\ UNCHANGED <<quit, server, hand>>

Joined ==
  /\ owner = "joining" /\ thread = "finished"
  /\ thread' = "none" /\ owner' = "stopped"
  /\ UNCHANGED <<quit, server, hand>>

\* Nobody disconnects the stream or stops the mainloop.
Destroy ==
  /\ owner \in {"created", "failed", "stopped"}
  /\ owner' = "gone"
  /\ UNCHANGED <<thread, quit, server, hand>>

-----------------------------------------------------------------------------
(* The server and the mainloop thread.                                     *)

ContextChanges ==
  /\ mainloop = "idle"
  /\ context = "connecting" /\ context' = "ready" /\ UNCHANGED stream
  /\ UNCHANGED <<owner, thread, quit, hand>>

\* The server goes away, and every stream with it.
ServerFails ==
  /\ mainloop = "idle"
  /\ context \in {"connecting", "ready"}
  /\ context' = "failed"
  /\ stream' = IF stream = "none" THEN "none" ELSE "failed"
  /\ UNCHANGED <<owner, thread, quit, hand>>

StreamChanges ==
  /\ mainloop = "idle"
  /\ stream = "connecting"
  /\ stream' \in {"ready", "failed"}
  /\ UNCHANGED <<owner, thread, quit, context, hand>>

\* A fragment arrives, and the mainloop thread calls ReadCallback if it is set.
Arrives ==
  /\ stream = "ready" /\ mainloop = "idle"
  /\ arrived < MaxFragments
  /\ arrived' = arrived + 1
  /\ mainloop' = IF armed THEN "callback" ELSE "idle"
  /\ UNCHANGED <<owner, thread, quit, server, armed, recMutex, recSize, first,
                 frames, framed>>

ArmedAfterRead == FALSE

\* When peek fails nothing is handed over, and the callback stays set.
ReadCallback ==
  /\ mainloop = "callback" /\ owner # "gone"
  /\ recMutex = "nobody"
  /\ mainloop' = "idle"
  /\ \/ UNCHANGED <<thread, armed, recSize>>
     \/ /\ recSize' = first
        /\ armed' = ArmedAfterRead
        /\ thread' = Woken
  /\ UNCHANGED <<owner, quit, server, recMutex, arrived, first, frames, framed>>

-----------------------------------------------------------------------------
(* The recording thread.                                                   *)

kept == <<armed, mainloop, arrived, first, framed>>

ConnectRecord ==
  /\ thread = "connect" /\ mainloop = "idle"
  /\ \/ thread' = "finished" /\ UNCHANGED stream
     \/ context = "ready" /\ thread' = "await ready" /\ stream' = "connecting"
  /\ UNCHANGED <<owner, quit, context, hand>>

\* Lines 264 to 268 look for nothing but PA_STREAM_READY.
StreamReady ==
  /\ thread = "await ready" /\ mainloop = "idle"
  /\ stream = "ready"
  /\ armed' = TRUE
  /\ thread' = "lock"
  /\ UNCHANGED <<owner, quit, server, mainloop, recMutex, recSize, arrived, first,
                 frames, framed>>

\* Line 275, and the predicate of the wait.
Locks ==
  /\ thread = "lock" /\ recMutex = "nobody"
  /\ recMutex' = "th"
  /\ thread' = IF recSize # Nothing \/ quit THEN "holding" ELSE "checked"
  /\ UNCHANGED <<owner, quit, server, recSize, frames, kept>>

Waits ==
  /\ thread = "checked"
  /\ thread' = "waiting" /\ recMutex' = "nobody"
  /\ UNCHANGED <<owner, quit, server, recSize, frames, kept>>

Quits ==
  /\ thread = "holding" /\ quit
  /\ thread' = "finished" /\ recMutex' = "nobody"
  /\ UNCHANGED <<owner, quit, server, recSize, frames, kept>>

SizeAfterFrame == Nothing

\* A frame is made of the fragment.
Takes ==
  /\ thread = "holding" /\ ~quit
  /\ frames' = Append(frames, recSize)
  /\ recSize' = SizeAfterFrame
  /\ thread' = "want loop"
  /\ UNCHANGED <<owner, quit, server, recMutex, kept>>

\* The fragment is dropped.  If there is another one it is taken at once, with
\* no look at quit_; if there is none, or peek fails, rec_mutex_ is released.
Drops ==
  /\ thread = "want loop" /\ mainloop = "idle"
  /\ LET next == IF frames[Len(frames)] = Garbage THEN first ELSE first + 1
     IN  /\ first' = next
         /\ \/ /\ recSize' = recSize /\ thread' = "rearm" /\ recMutex' = "nobody"
               /\ UNCHANGED frames
            \/ /\ next <= arrived
               /\ frames' = Append(frames, next) /\ recSize' = SizeAfterFrame
               /\ UNCHANGED <<thread, recMutex>>
  /\ UNCHANGED <<owner, quit, server, armed, mainloop, arrived, framed>>

\* Mutant: the callback is not set again.
ArmedAsItWas == armed

ArmedAgain == TRUE

Rearms ==
  /\ thread = "rearm" /\ mainloop = "idle"
  /\ armed' = ArmedAgain
  /\ thread' = "frame"
  /\ UNCHANGED <<owner, quit, server, mainloop, recMutex, recSize, arrived, first,
                 frames, framed>>

\* The callback has had all frames.
FramesEnd ==
  /\ thread = "frame"
  /\ framed' = framed \o frames /\ frames' = <<>>
  /\ thread' = "lock"
  /\ UNCHANGED <<owner, quit, server, armed, mainloop, recMutex, recSize, arrived,
                 first>>

Owner    == StartConnects \/ ContextSettled \/ StartRecords \/ StopQuits
              \/ StopNotifies \/ Joined \/ Destroy
Mainloop == ContextChanges \/ ServerFails \/ StreamChanges \/ Arrives \/ ReadCallback
Thread   == ConnectRecord \/ StreamReady \/ Locks \/ Waits \/ Quits \/ Takes
              \/ Drops \/ Rearms \/ FramesEnd

Next == Owner \/ Mainloop \/ Thread

-----------------------------------------------------------------------------
(* Properties.                                                             *)

TookGarbage == Garbage \in {(framed \o frames)[i] : i \in DOMAIN (framed \o frames)}

\* The two threads take the two locks in opposite orders (lines 299 and 343):
\* they never wait for each other unless garbage was once taken for a fragment.
LocksMeetOnlyOnGarbage ==
  thread = "want loop" /\ mainloop = "callback" => TookGarbage

\* A thread that waits for a fragment will be told of the next one, also when it
\* has missed the notification of Stop.
WaitingMeansArmed ==
  thread \in {"checked", "waiting"} => armed \/ recSize # Nothing

\* The callback gets the fragments one by one, none left out, none twice, after at most
\* one frame of garbage.
FragmentsInOrder ==
  LET all == framed \o frames
  IN  \E g \in {0, 1} :
        \A i \in 1..Len(all) : all[i] = IF i <= g THEN Garbage ELSE i - g

Phase ==
  CASE owner = "gone"                   -> "gone"
    [] owner \in {"created", "stopped"} -> "stopped"
    [] OTHER                            -> "started"

Delivering == thread = "frame"

\* Where Stop may have to wait for ever: a stream that never becomes ready, the
\* next fragment after a lost notification, two locks after garbage.
StuckIn ==
  \/ thread = "await ready"
  \/ thread = "waiting" /\ armed
  \/ thread = "want loop" /\ mainloop = "callback" /\ TookGarbage
=============================================================================
