--------------------------- MODULE ConnectionServer ---------------------------
(***************************************************************************)
(* The connection server (src/network/connection_server): one accept thread *)
(* feeds a ConnectionDispatcher from a TcpListener.  The dispatcher is its  *)
(* contract: this module composes DispatcherContract with the accept loop,  *)
(* the callers of request_stop(), start() and the destructor.               *)
(***************************************************************************)
EXTENDS Naturals, Sequences, FiniteSets

CONSTANTS
  Connections,       \* clients that may connect
  Capacity,          \* the dispatcher's pending_connection_limit
  AdmissionEnabled,  \* the dispatcher has an admission stage
  Stoppers,          \* threads that call request_stop()
  Owner,             \* the thread that starts and destroys the server
  None

ASSUME ServerAssumptions ==
  /\ Capacity \in Nat \ {0} /\ AdmissionEnabled \in BOOLEAN
  /\ IsFiniteSet(Connections) /\ None \notin Connections /\ Owner \notin Stoppers

VARIABLES
  phase, fifo, stopped,   \* the dispatcher, as its contract sees it
  selfstop,               \* its admission thread stopped it after an exception
  listener,               \* "closed" or "open"
  life,                   \* start(), the running server, and ~Impl()
  token,                  \* the stop token of accept_thread_
  pc, current, code,      \* the accept thread: place, connection, submit's error
  reported,               \* the failure the observer was told of
  spc                     \* threads in request_stop()

dispatcherVars == <<phase, fifo, stopped, selfstop>>
acceptVars     == <<pc, current, code>>
vars == <<dispatcherVars, listener, life, token, acceptVars, reported, spc>>

Callers == Stoppers \cup {Owner}

D == INSTANCE DispatcherContract

-----------------------------------------------------------------------------
\* start()

\* TcpListener::bind() and local_endpoint(), then ConnectionDispatcher::create();
\* what was acquired is released again if a later stage fails.
Start ==
  /\ \/ /\ life = "start"
        /\ \/ listener' = "open" /\ life' = "bound"
           \/ life' = "failed" /\ UNCHANGED listener
     \/ /\ life = "bound"
        /\ \/ life' = "created" /\ UNCHANGED listener
           \/ life' = "failed" /\ listener' = "closed"
  /\ UNCHANGED <<dispatcherVars, token, acceptVars, reported, spc>>

\* The accept thread starts.
StartThread ==
  /\ life = "created"
  /\ life' = "running" /\ pc' = "check"
  /\ UNCHANGED <<dispatcherVars, listener, token, current, code, reported, spc>>

\* It does not: the members of the unfinished Impl are destroyed, the dispatcher
\* and its workers first.
StartThreadFails ==
  /\ life = "created"
  /\ life' = "unwind"
  /\ UNCHANGED <<dispatcherVars, listener, token, acceptVars, reported, spc>>

-----------------------------------------------------------------------------
\* The threads of the dispatcher

\* The contract's steps that need no client; stop and submission have others.
DispatcherStep ==
  /\ life \notin {"start", "bound", "failed", "destroyed"}
  /\ \/ \E c \in Connections : phase[c] = "admitting" /\ D!Enqueue(c)
     \/ D!Serve \/ D!Drop
     \/ \E c \in Connections : D!Finish(c)
  /\ UNCHANGED <<selfstop, listener, life, token, acceptVars, reported, spc>>

\* admission_loop() catches an exception and stops its own dispatcher; nobody else
\* is told.
DispatcherSelfStop ==
  /\ AdmissionEnabled /\ life \notin {"start", "bound", "failed", "destroyed"}
  /\ D!Stop
  /\ selfstop' = TRUE
  /\ UNCHANGED <<listener, life, token, acceptVars, reported, spc>>

\* A call of the dispatcher's request_stop(): the first one stops it.
StopDispatcher == IF stopped THEN UNCHANGED <<phase, fifo, stopped>> ELSE D!Stop

-----------------------------------------------------------------------------
\* run_accept_loop()

LoopCheck ==
  /\ pc = "check"
  /\ pc' = IF token THEN "done" ELSE "accept"
  /\ UNCHANGED <<dispatcherVars, listener, life, token, current, code, reported, spc>>

\* listener_.accept(): a requested token is a cancellation whatever the socket says.
AcceptCancelled ==
  /\ pc = "accept" /\ token
  /\ pc' = "done"
  /\ UNCHANGED <<dispatcherVars, listener, life, token, current, code, reported, spc>>

\* The wait fails, before any look at the token, or the accept does; it may already
\* own a client's socket then, which is closed.
AcceptFails ==
  /\ pc = "accept"
  /\ pc' = "stop" /\ code' = "accept_error"
  /\ \/ UNCHANGED <<phase, fifo, stopped>>
     \/ ~token /\ \E c \in Connections : phase[c] = "outside" /\ D!Refuse(c)
  /\ UNCHANGED <<selfstop, listener, life, token, current, reported, spc>>

\* A client is accepted.  If the token was requested meanwhile it is closed again.
AcceptConnection(c) ==
  /\ pc = "accept" /\ phase[c] = "outside"
  /\ IF token
     THEN pc' = "done" /\ UNCHANGED current /\ D!Refuse(c)
     ELSE pc' = "submit" /\ current' = c /\ D!Offer(c)
  /\ UNCHANGED <<selfstop, listener, life, token, code, reported, spc>>

\* submit() as the contract and its error codes describe it.
Submit ==
  /\ pc = "submit"
  /\ \/ /\ stopped /\ D!Refuse(current)
        /\ code' = "stopped" /\ pc' = "judge"
     \/ /\ token /\ D!Refuse(current)
        /\ code' = "cancelled" /\ pc' = "judge"
     \/ /\ IF AdmissionEnabled THEN D!Admit(current) ELSE D!Enqueue(current)
        /\ pc' = "check" /\ UNCHANGED code
  /\ current' = None
  /\ UNCHANGED <<selfstop, listener, life, token, reported, spc>>

\* A refused submission ends the loop; with a requested token it is no failure.
Judge ==
  /\ pc = "judge"
  /\ pc' = IF token THEN "done" ELSE "stop"
  /\ UNCHANGED <<dispatcherVars, listener, life, token, current, code, reported, spc>>

\* Mutant: the exception leaves the accepted socket to nobody.
AcceptThrowsLeaks ==
  /\ pc \in {"accept", "submit"} /\ UNCHANGED <<phase, fifo, stopped>>
  /\ pc' = "stop" /\ code' = "internal_exception" /\ current' = None
  /\ UNCHANGED <<selfstop, listener, life, token, reported, spc>>

\* An exception leaves accept_loop(), with whatever connection it held.
AcceptThrows ==
  /\ \/ pc = "accept" /\ UNCHANGED <<phase, fifo, stopped>>
     \/ pc = "accept" /\ \E c \in Connections : phase[c] = "outside" /\ D!Refuse(c)
     \/ pc = "submit" /\ D!Refuse(current)
  /\ pc' = "stop" /\ code' = "internal_exception" /\ current' = None
  /\ UNCHANGED <<selfstop, listener, life, token, reported, spc>>

\* stop_after_failure()
FailureStop ==
  /\ pc = "stop"
  /\ pc' = "notify" /\ StopDispatcher
  /\ UNCHANGED <<selfstop, listener, life, token, current, code, reported, spc>>

\* notify_failure(): a dispatcher error code is a dispatch_error.
FailureNotify ==
  /\ pc = "notify"
  /\ reported' = IF code \in {"stopped", "cancelled"} THEN "dispatch_error" ELSE code
  /\ pc' = "done"
  /\ UNCHANGED <<dispatcherVars, listener, life, token, current, code, spc>>

-----------------------------------------------------------------------------
\* request_stop()

StopCall(t) ==
  /\ t \in Stoppers /\ life = "running" /\ spc[t] = "idle"
  /\ spc' = [spc EXCEPT ![t] = "token"]
  /\ UNCHANGED <<dispatcherVars, listener, life, token, acceptVars, reported>>

\* Mutant: the accept thread is forgotten.
StopTokenForgotten(t) ==
  /\ spc[t] = "token"
  /\ spc' = [spc EXCEPT ![t] = "dispatcher"]
  /\ UNCHANGED <<dispatcherVars, listener, life, token, acceptVars, reported>>

\* Mutant: the dispatcher is stopped before the token is requested.
StopTokenLate(t) ==
  /\ spc[t] = "token"
  /\ IF stopped
     THEN /\ token' = TRUE
          /\ spc' = [spc EXCEPT ![t] = "dispatcher"]
          /\ UNCHANGED <<phase, fifo, stopped>>
     ELSE D!Stop /\ UNCHANGED <<token, spc>>
  /\ UNCHANGED <<selfstop, listener, life, acceptVars, reported>>

\* First the accept thread's token ...
StopToken(t) ==
  /\ spc[t] = "token"
  /\ token' = TRUE
  /\ spc' = [spc EXCEPT ![t] = "dispatcher"]
  /\ UNCHANGED <<dispatcherVars, listener, life, acceptVars, reported>>

\* ... then the dispatcher.
StopDispatcherStep(t) ==
  /\ spc[t] = "dispatcher"
  /\ spc' = [spc EXCEPT ![t] = "returned"]
  /\ StopDispatcher
  /\ UNCHANGED <<selfstop, listener, life, token, acceptVars, reported>>

-----------------------------------------------------------------------------
\* ~Impl()

\* No other operation overlaps the destructor (the header's precondition).
DestroyBegin ==
  /\ life = "running" /\ \A t \in Stoppers : spc[t] \in {"idle", "returned"}
  /\ life' = "destroy"
  /\ spc' = [spc EXCEPT ![Owner] = "token"]
  /\ UNCHANGED <<dispatcherVars, listener, token, acceptVars, reported>>

\* Mutant: the members are destroyed under a running accept thread.
DestroyJoinNobody ==
  /\ life = "destroy" /\ spc[Owner] = "returned"
  /\ life' = "unwind"
  /\ UNCHANGED <<dispatcherVars, listener, token, acceptVars, reported, spc>>

\* accept_thread_.join()
DestroyJoin ==
  /\ life = "destroy" /\ spc[Owner] = "returned" /\ pc = "done"
  /\ life' = "unwind"
  /\ UNCHANGED <<dispatcherVars, listener, token, acceptVars, reported, spc>>

\* ~ConnectionDispatcher stops ...
UnwindStop ==
  /\ life = "unwind" /\ ~stopped
  /\ D!Stop
  /\ UNCHANGED <<selfstop, listener, life, token, acceptVars, reported, spc>>

\* ... and joins its threads; then the listener is closed.
UnwindDone ==
  /\ life = "unwind" /\ stopped
  /\ D!InPhase("admitting") \cup D!InPhase("serving") = {}
  /\ life' = IF pc = "unborn" THEN "failed" ELSE "destroyed"
  /\ listener' = "closed"
  /\ UNCHANGED <<dispatcherVars, token, acceptVars, reported, spc>>

\* Nothing is left to do.
Over == life \in {"failed", "destroyed"} /\ UNCHANGED vars

-----------------------------------------------------------------------------
Init ==
  /\ D!Init /\ selfstop = FALSE
  /\ listener = "closed" /\ life = "start" /\ token = FALSE
  /\ pc = "unborn" /\ current = None /\ code = "none"
  /\ reported = "none"
  /\ spc = [t \in Callers |-> "idle"]

AcceptNext ==
  \/ LoopCheck \/ AcceptCancelled \/ Submit \/ Judge \/ FailureStop \/ FailureNotify

StopNext(t)  == StopToken(t) \/ StopDispatcherStep(t)
DestroyNext  == DestroyJoin \/ UnwindStop \/ UnwindDone
StartNext    == Start \/ StartThread \/ StartThreadFails

Next ==
  \/ StartNext \/ DispatcherStep \/ DispatcherSelfStop
  \/ AcceptNext \/ AcceptFails \/ AcceptThrows
  \/ \E c \in Connections : AcceptConnection(c)
  \/ \E t \in Stoppers : StopCall(t)
  \/ \E t \in Callers : StopNext(t)
  \/ DestroyBegin \/ DestroyNext
  \/ Over

Spec == Init /\ [][Next]_vars

\* Every thread is scheduled, and the dispatcher keeps the promises its own model
\* is checked for: every connection it holds is promoted, served and finished, or
\* dropped once it is stopped.  Clients, errors, exceptions and stop calls owe nothing.
Fairness ==
  /\ WF_vars(AcceptNext) /\ WF_vars(DestroyNext)
  /\ \A c \in Connections : WF_vars(DispatcherStep /\ phase'[c] # phase[c])
  /\ \A t \in Callers : WF_vars(StopNext(t))

FairSpec == Spec /\ Fairness

-----------------------------------------------------------------------------
\* Properties

\* Each variable keeps the values the code can give it.
TypeOK ==
  /\ phase \in [Connections -> {"outside", "offered", "admitting", "queued",
                                "serving", "handled", "closed"}]
  /\ stopped \in BOOLEAN /\ selfstop \in BOOLEAN /\ token \in BOOLEAN
  /\ listener \in {"closed", "open"}
  /\ life \in {"start", "bound", "created", "running", "destroy", "unwind",
               "failed", "destroyed"}
  /\ pc \in {"unborn", "check", "accept", "submit", "judge", "stop", "notify", "done"}
  /\ current \in Connections \cup {None}
  /\ code \in {"none", "stopped", "cancelled", "accept_error", "internal_exception"}
  /\ reported \in {"none", "dispatch_error", "accept_error", "internal_exception"}
  /\ spc \in [Callers -> {"idle", "token", "dispatcher", "returned"}]

\* A requested shutdown is not reported as a failure: the loop takes a stopped or
\* cancelled submission for a shutdown only if its token is requested, so every
\* caller of request_stop() must request the token before it stops the dispatcher.
\* And when the observer learns of a failure the dispatcher was stopped first: no
\* worker takes a connection any more, and none waits for one.
FailureReportedRightly ==
  /\ reported = "dispatch_error" => selfstop
  /\ pc = "notify" \/ reported # "none" => stopped /\ D!InPhase("queued") = {}

\* The dispatcher and the listener outlive the accept thread, and a server that is
\* gone, or never started, owns no connection and no socket.
NothingOutlivesServer ==
  /\ TypeOK
  /\ life \in {"unwind", "failed", "destroyed"} => pc \in {"unborn", "done"}
  /\ life \in {"failed", "destroyed"} =>
       /\ listener = "closed"
       /\ \A c \in Connections : phase[c] \in {"outside", "handled", "closed"}

\* request_stop() ends the accept thread, even one blocked in accept() or in a
\* submit() that waits for a place; and the destructor, and the rollback of a failed
\* start, come to an end.
ShutdownCompletes ==
  /\ (\E t \in Callers : spc[t] # "idle") ~> pc \in {"unborn", "done"}
  /\ life \in {"destroy", "unwind"} ~> life \in {"failed", "destroyed"}

\* An accepted client is handled or closed in the end.
AcceptedResolved ==
  \A c \in Connections : phase[c] = "offered" ~> phase[c] \in {"handled", "closed"}
=============================================================================
