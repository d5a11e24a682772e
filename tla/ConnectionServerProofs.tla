------------------------ MODULE ConnectionServerProofs ------------------------
(***************************************************************************)
(* A requested shutdown of the connection server is never reported as a     *)
(* failure, and nothing it owns outlives it: for any number of clients,      *)
(* places and threads that call request_stop(), with or without admission.   *)
(***************************************************************************)
EXTENDS ConnectionServer, TLAPS

Phases == {"outside", "offered", "admitting", "queued", "serving", "handled", "closed"}

\* A stopped dispatcher holds nothing ready.
NothingQueued == stopped => \A c \in Connections : phase[c] # "queued"

\* The one connection between accept() and submit() is the accept thread's.
OfferHeld ==
  /\ \A c \in Connections : phase[c] = "offered" => pc = "submit" /\ current = c
  /\ pc = "submit" => current \in Connections

\* A caller of request_stop() is at the dispatcher only after it requested the token.
TokenFirst == \A t \in Callers : spc[t] \in {"dispatcher", "returned"} => token

\* Who stopped the dispatcher: itself, a caller with the token, the accept thread after a
\* failure, or the destructor.
StopCause ==
  stopped => \/ selfstop \/ token \/ pc \in {"notify", "done"}
             \/ life \in {"unwind", "failed", "destroyed"}

\* What a refused submission says is true, and a failure that goes on to the observer with
\* a dispatcher's code was the dispatcher's own.
CodeCause ==
  /\ pc = "judge" => (code = "stopped" /\ stopped) \/ (code = "cancelled" /\ token)
  /\ pc \in {"stop", "notify"} /\ code \in {"stopped", "cancelled"} => selfstop
  /\ pc = "notify" \/ reported # "none" => stopped
  /\ reported = "dispatch_error" => selfstop

\* The stages of the server's life and the threads they allow.
Stages ==
  /\ life \in {"start", "bound", "created"} => pc = "unborn"
  /\ life \in {"unwind", "failed", "destroyed"} => pc \in {"unborn", "done"}
  /\ life = "start" => listener = "closed"
  /\ life \in {"start", "bound"} => \A c \in Connections : phase[c] = "outside"
  /\ life \in {"failed", "destroyed"} =>
       /\ listener = "closed"
       /\ \A c \in Connections : phase[c] \in {"outside", "handled", "closed"}

IInv == TypeOK /\ NothingQueued /\ OfferHeld /\ TokenFirst /\ StopCause /\ CodeCause /\ Stages

-----------------------------------------------------------------------------
\* The contract's steps

\* Stopping, or dropping when stopped, only closes connections that wait.
LEMMA StopEffect ==
  ASSUME TypeOK, D!Stop
  PROVE  /\ ~stopped /\ stopped' = TRUE /\ phase' \in [Connections -> Phases]
         /\ \A c \in Connections :
              \/ phase'[c] = phase[c] /\ phase[c] # "queued"
              \/ phase'[c] = "closed" /\ phase[c] \in {"admitting", "queued"}
<1>1. PICK W \in SUBSET D!InPhase("admitting") : phase' = D!Dropped(W \cup D!InPhase("queued"))
  BY DEF D!Stop
<1>2. phase' = [c \in Connections |-> IF c \in W \cup D!InPhase("queued") THEN "closed" ELSE phase[c]]
  BY <1>1 DEF D!Dropped
<1>. QED  BY <1>1, <1>2 DEF D!Stop, D!InPhase, TypeOK, Phases

LEMMA DropEffect ==
  ASSUME TypeOK, D!Drop
  PROVE  /\ stopped' = stopped /\ phase' \in [Connections -> Phases]
         /\ \A c \in Connections :
              \/ phase'[c] = phase[c]
              \/ phase'[c] = "closed" /\ phase[c] = "admitting"
<1>1. PICK W \in SUBSET D!InPhase("admitting") : phase' = D!Dropped(W)
  BY DEF D!Drop
<1>2. phase' = [c \in Connections |-> IF c \in W THEN "closed" ELSE phase[c]]
  BY <1>1 DEF D!Dropped
<1>. QED  BY <1>1, <1>2 DEF D!Drop, D!InPhase, TypeOK, Phases

\* A call of the dispatcher's request_stop() leaves it stopped.
LEMMA StopCallEffect ==
  ASSUME TypeOK, NothingQueued, StopDispatcher
  PROVE  /\ stopped' = TRUE /\ phase' \in [Connections -> Phases] /\ NothingQueued'
         /\ \A c \in Connections :
              phase'[c] = phase[c] \/ (phase'[c] = "closed" /\ phase[c] \in {"admitting", "queued"})
<1>1. CASE stopped
  BY <1>1 DEF StopDispatcher, TypeOK, Phases, NothingQueued
<1>2. CASE ~stopped
  <2>1. D!Stop
    BY <1>2 DEF StopDispatcher
  <2>. QED  BY <2>1, StopEffect DEF NothingQueued
<1>. QED  BY <1>1, <1>2

-----------------------------------------------------------------------------
LEMMA InitInv == Init => IInv
BY ServerAssumptions DEF Init, IInv, D!Init, TypeOK, NothingQueued, OfferHeld, TokenFirst, StopCause,
   CodeCause, Stages

\* A step that only closes waiting connections, and leaves the accept thread where it is,
\* keeps the invariant if whoever stops has a cause.
LEMMA Closing ==
  ASSUME IInv, phase' \in [Connections -> Phases], NothingQueued',
         \A c \in Connections :
           phase'[c] = phase[c] \/ (phase'[c] = "closed" /\ phase[c] \in {"admitting", "queued"}),
         stopped => stopped', stopped' \in BOOLEAN, selfstop => selfstop', selfstop' \in BOOLEAN,
         StopCause', UNCHANGED <<listener, life, token, acceptVars, reported>>,
         spc' \in [Callers -> {"idle", "token", "dispatcher", "returned"}], TokenFirst'
  PROVE  IInv'
<1>. USE DEF IInv, acceptVars
<1>1. TypeOK'
  BY DEF TypeOK, Phases
<1>2. OfferHeld'
  BY DEF OfferHeld, TypeOK, Phases
<1>3. CodeCause'
  BY DEF CodeCause, TypeOK
<1>4. Stages'
  BY DEF Stages, TypeOK
<1>. QED  BY <1>1, <1>2, <1>3, <1>4

LEMMA StepInv == IInv /\ [Next]_vars => IInv'
<1>. SUFFICES ASSUME IInv, [Next]_vars PROVE IInv'
  OBVIOUS
<1>. USE ServerAssumptions
<1>. USE DEF IInv, dispatcherVars, acceptVars
<1>1. CASE Start
  <2>1. /\ life \in {"start", "bound"} /\ life' \in {"bound", "created", "failed"}
        /\ life' = "failed" => listener' = "closed"
        /\ life' = "bound" => life = "start"
        /\ listener' \in {"closed", "open"}
        /\ UNCHANGED <<dispatcherVars, token, acceptVars, reported, spc>>
    BY <1>1 DEF Start, Stages, TypeOK
  <2>2. TypeOK' /\ Stages'
    BY <2>1 DEF TypeOK, Stages
  <2>. QED  BY <2>1, <2>2 DEF NothingQueued, OfferHeld, TokenFirst, StopCause, CodeCause
<1>2. CASE StartThread
  BY <1>2 DEF StartThread, TypeOK, NothingQueued, OfferHeld, TokenFirst, StopCause, CodeCause, Stages
<1>3. CASE StartThreadFails
  <2>1. /\ life = "created" /\ life' = "unwind"
        /\ UNCHANGED <<dispatcherVars, listener, token, acceptVars, reported, spc>>
    BY <1>3 DEF StartThreadFails
  <2>2. TypeOK' /\ Stages'
    BY <2>1 DEF TypeOK, Stages
  <2>. QED  BY <2>1, <2>2 DEF NothingQueued, OfferHeld, TokenFirst, StopCause, CodeCause
<1>4. CASE DispatcherStep
  <2>0. /\ life \notin {"start", "bound", "failed", "destroyed"}
        /\ UNCHANGED <<selfstop, listener, life, token, acceptVars, reported, spc>>
    BY <1>4 DEF DispatcherStep
  <2>1. ASSUME NEW c \in Connections, phase[c] = "admitting", D!Enqueue(c) PROVE IInv'
    <3>1. ~stopped /\ UNCHANGED stopped /\ phase' = [phase EXCEPT ![c] = "queued"]
      BY <2>1 DEF D!Enqueue
    <3>2. TypeOK' /\ Stages'
      BY <2>0, <3>1 DEF TypeOK, Stages
    <3>3. OfferHeld'
      BY <2>0, <2>1, <3>1 DEF OfferHeld, TypeOK
    <3>. QED  BY <2>0, <3>1, <3>2, <3>3 DEF NothingQueued, TokenFirst, StopCause, CodeCause
  <2>2. ASSUME NEW c \in Connections, D!Finish(c) PROVE IInv'
    BY <2>0, <2>2 DEF D!Finish, TypeOK, NothingQueued, OfferHeld, TokenFirst, StopCause, CodeCause,
       Stages
  <2>3. CASE D!Serve
    <3>1. ~stopped /\ UNCHANGED stopped /\ phase' = [phase EXCEPT ![Head(fifo)] = "serving"]
      BY <2>3 DEF D!Serve
    <3>2. /\ phase' \in [Connections -> Phases]
          /\ \A c \in Connections : phase'[c] \in {phase[c], "serving"}
      BY <3>1 DEF TypeOK, Phases
    <3>3. TypeOK' /\ Stages' /\ OfferHeld'
      BY <2>0, <3>1, <3>2 DEF TypeOK, Phases, Stages, OfferHeld
    <3>. QED  BY <2>0, <3>1, <3>3 DEF NothingQueued, TokenFirst, StopCause, CodeCause
  <2>4. CASE D!Drop
    <3>1. NothingQueued' /\ StopCause' /\ TokenFirst'
      BY <2>0, <2>4, DropEffect DEF NothingQueued, StopCause, TokenFirst
    <3>. QED  BY <2>0, <2>4, <3>1, DropEffect, Closing DEF TypeOK
  <2>. QED  BY <1>4, <2>1, <2>2, <2>3, <2>4 DEF DispatcherStep
<1>5. CASE DispatcherSelfStop
  <2>1. D!Stop /\ selfstop' = TRUE
        /\ UNCHANGED <<listener, life, token, acceptVars, reported, spc>>
    BY <1>5 DEF DispatcherSelfStop
  <2>2. NothingQueued' /\ StopCause' /\ TokenFirst'
    BY <2>1, StopEffect DEF NothingQueued, StopCause, TokenFirst
  <2>. QED  BY <2>1, <2>2, StopEffect, Closing DEF TypeOK
<1>6. CASE LoopCheck \/ AcceptCancelled
  BY <1>6 DEF LoopCheck, AcceptCancelled, TypeOK, NothingQueued, OfferHeld, TokenFirst, StopCause,
     CodeCause, Stages
<1>7. CASE Judge
  BY <1>7 DEF Judge, TypeOK, NothingQueued, OfferHeld, TokenFirst, StopCause, CodeCause, Stages
<1>8. CASE Submit
  <2>0. /\ pc = "submit" /\ current \in Connections
        /\ current' = None /\ UNCHANGED <<selfstop, listener, life, token, reported, spc>>
        /\ life \notin {"start", "bound", "unwind", "failed", "destroyed"}
    BY <1>8 DEF Submit, OfferHeld, Stages
  <2>1. /\ stopped' = stopped
        /\ phase' \in [Connections -> Phases] /\ phase'[current] # "offered"
        /\ \A c \in Connections : c # current => phase'[c] = phase[c]
        /\ ~stopped \/ phase'[current] = "closed"
    BY <1>8, <2>0 DEF Submit, D!Refuse, D!Admit, D!Enqueue, TypeOK, Phases
  <2>2. \/ pc' = "check" /\ code' = code
        \/ pc' = "judge" /\ code' = "stopped" /\ stopped
        \/ pc' = "judge" /\ code' = "cancelled" /\ token
    BY <1>8 DEF Submit
  <2>3. TypeOK' /\ TokenFirst' /\ StopCause' /\ CodeCause'
    BY <2>0, <2>1, <2>2 DEF TypeOK, Phases, TokenFirst, StopCause, CodeCause
  <2>4. NothingQueued' /\ OfferHeld' /\ Stages'
    BY <2>0, <2>1, <2>2 DEF NothingQueued, OfferHeld, Stages
  <2>. QED  BY <2>3, <2>4
<1>9. CASE FailureStop
  <2>1. /\ pc = "stop" /\ pc' = "notify" /\ StopDispatcher
        /\ UNCHANGED <<selfstop, listener, life, token, current, code, reported, spc>>
    BY <1>9 DEF FailureStop
  <2>2. /\ stopped' = TRUE /\ phase' \in [Connections -> Phases] /\ NothingQueued'
        /\ \A c \in Connections :
             phase'[c] = phase[c] \/ (phase'[c] = "closed" /\ phase[c] \in {"admitting", "queued"})
    BY <2>1, StopCallEffect
  <2>. QED  BY <2>1, <2>2 DEF TypeOK, Phases, OfferHeld, TokenFirst, StopCause, CodeCause, Stages
<1>10. CASE FailureNotify
  BY <1>10 DEF FailureNotify, TypeOK, NothingQueued, OfferHeld, TokenFirst, StopCause, CodeCause,
     Stages
<1>11. CASE AcceptFails \/ AcceptThrows
  <2>0. /\ pc \in {"accept", "submit"} /\ pc' = "stop"
        /\ code' \in {"accept_error", "internal_exception"} /\ current' \in {current, None}
        /\ UNCHANGED <<selfstop, listener, life, token, reported, spc>>
        /\ life \notin {"start", "bound", "unwind", "failed", "destroyed"}
    BY <1>11 DEF AcceptFails, AcceptThrows, Stages
  <2>. DEFINE Closed ==
          /\ stopped' = stopped /\ phase' \in [Connections -> Phases]
          /\ \A c \in Connections : phase'[c] \in {phase[c], "closed"} /\ phase'[c] # "offered"
  <2>1. Closed
    <3>1. CASE UNCHANGED <<phase, fifo, stopped>> /\ pc = "accept"
      BY <3>1 DEF TypeOK, Phases, OfferHeld
    <3>2. ASSUME NEW c \in Connections, D!Refuse(c), pc = "accept" \/ c = current
          PROVE  Closed
      BY <2>0, <3>2 DEF D!Refuse, TypeOK, Phases, OfferHeld
    <3>. QED  BY <1>11, <3>1, <3>2 DEF AcceptFails, AcceptThrows, OfferHeld
  <2>. QED  BY <2>0, <2>1 DEF TypeOK, Phases, NothingQueued, OfferHeld, TokenFirst, StopCause,
                              CodeCause, Stages
<1>12. ASSUME NEW c \in Connections, AcceptConnection(c) PROVE IInv'
  BY <1>12 DEF AcceptConnection, D!Refuse, D!Offer, TypeOK, NothingQueued, OfferHeld, TokenFirst,
     StopCause, CodeCause, Stages
<1>13. ASSUME NEW t \in Stoppers, StopCall(t) PROVE IInv'
  BY <1>13 DEF StopCall, Callers, TypeOK, NothingQueued, OfferHeld, TokenFirst, StopCause, CodeCause,
     Stages
<1>14. ASSUME NEW t \in Callers, StopToken(t) PROVE IInv'
  BY <1>14 DEF StopToken, TypeOK, NothingQueued, OfferHeld, TokenFirst, StopCause, CodeCause, Stages
<1>15. ASSUME NEW t \in Callers, StopDispatcherStep(t) PROVE IInv'
  <2>1. /\ spc[t] = "dispatcher" /\ spc' = [spc EXCEPT ![t] = "returned"] /\ StopDispatcher
        /\ UNCHANGED <<selfstop, listener, life, token, acceptVars, reported>>
    BY <1>15 DEF StopDispatcherStep
  <2>2. /\ token /\ TokenFirst' /\ StopCause'
        /\ spc' \in [Callers -> {"idle", "token", "dispatcher", "returned"}]
    BY <2>1 DEF TokenFirst, StopCause, TypeOK
  <2>. QED  BY <2>1, <2>2, StopCallEffect, Closing DEF TypeOK
<1>16. CASE DestroyBegin
  BY <1>16 DEF DestroyBegin, Callers, TypeOK, NothingQueued, OfferHeld, TokenFirst, StopCause,
     CodeCause, Stages
<1>17. CASE DestroyJoin
  BY <1>17 DEF DestroyJoin, TypeOK, NothingQueued, OfferHeld, TokenFirst, StopCause, CodeCause, Stages
<1>18. CASE UnwindStop
  <2>1. /\ life = "unwind" /\ D!Stop
        /\ UNCHANGED <<selfstop, listener, life, token, acceptVars, reported, spc>>
    BY <1>18 DEF UnwindStop
  <2>2. NothingQueued' /\ StopCause' /\ TokenFirst'
    BY <2>1, StopEffect DEF NothingQueued, StopCause, TokenFirst, Stages
  <2>. QED  BY <2>1, <2>2, StopEffect, Closing DEF TypeOK
<1>19. CASE UnwindDone
  <2>1. /\ life = "unwind" /\ stopped /\ life' \in {"failed", "destroyed"} /\ listener' = "closed"
        /\ UNCHANGED <<dispatcherVars, token, acceptVars, reported, spc>>
    BY <1>19 DEF UnwindDone
  <2>2. \A c \in Connections : phase[c] \notin {"admitting", "serving", "queued", "offered"}
    BY <1>19, <2>1 DEF UnwindDone, D!InPhase, NothingQueued, OfferHeld, Stages
  <2>3. Stages'
    BY <2>1, <2>2 DEF Stages, TypeOK
  <2>. QED  BY <2>1, <2>3 DEF TypeOK, NothingQueued, OfferHeld, TokenFirst, StopCause, CodeCause
<1>20. CASE Over \/ UNCHANGED vars
  BY <1>20 DEF Over, vars, TypeOK, NothingQueued, OfferHeld, TokenFirst, StopCause, CodeCause, Stages
<1>. QED  BY <1>1, <1>2, <1>3, <1>4, <1>5, <1>6, <1>7, <1>8, <1>9, <1>10, <1>11, <1>12, <1>13,
             <1>14, <1>15, <1>16, <1>17, <1>18, <1>19, <1>20
          DEF Next, StartNext, AcceptNext, StopNext, DestroyNext

-----------------------------------------------------------------------------
\* The inductive invariant: types, the accept thread's hold on the offered connection, the
\* causes of a stop and of an error code, and what each stage of the server's life allows.
THEOREM Invariance == Spec => []IInv
BY InitInv, StepInv, PTL DEF Spec

\* A requested shutdown is never reported as a failure of the dispatcher, and when a failure
\* is reported the dispatcher is stopped and nothing waits in it for a worker.
THEOREM FailuresReportedRightly == Spec => []FailureReportedRightly
<1>1. IInv => FailureReportedRightly
  BY DEF IInv, FailureReportedRightly, CodeCause, NothingQueued, D!InPhase
<1>. QED  BY <1>1, Invariance, PTL

\* The accept thread is gone before the dispatcher and the listener are destroyed, and a
\* server that is gone or never started owns neither connection nor socket.
THEOREM NothingOutlives == Spec => []NothingOutlivesServer
<1>1. IInv => NothingOutlivesServer
  BY DEF IInv, NothingOutlivesServer, Stages
<1>. QED  BY <1>1, Invariance, PTL
=============================================================================
