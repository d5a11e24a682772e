-------------------------- MODULE TemporaryFileWriter --------------------------
(***************************************************************************)
(* Request bodies on their way to disk (src/storage/temporary_file_writer). *)
(* Every writer has one file and, once a call can be interrupted, one       *)
(* thread that does the native I/O, so that a stalled disk cannot hold a    *)
(* caller past its deadline.  FileWorkerSlots bounds the operations at work *)
(* in the whole process, those whose callers have left included.            *)
(*                                                                         *)
(* A caller that is interrupted leaves its operation running; when it drops *)
(* the writer, the thread is detached and removes the file.                 *)
(***************************************************************************)
EXTENDS Naturals, FiniteSets

CONSTANTS
  Writers,         \* the writers, each with the one thread that calls it
  MaximumWorkers,  \* maximum_workers
  MaxOperations    \* bound: tickets one writer takes in a behaviour

ASSUME WriterAssumptions ==
  /\ IsFiniteSet(Writers)
  /\ MaximumWorkers \in Nat \ {0} /\ MaxOperations \in Nat \ {0}

VARIABLES
  active, orphaned,            \* FileWorkerSlots
  ticket,                      \* the status of each writer's tickets, by number
  pending, operation, sequence, completed, result, stopping,   \* State
  queued,                      \* the number of State's ticket, 0 without one
  wpc, local,                  \* the worker: place, and what it copied from State
  cpc, call,                   \* the caller: place, and the locals of its call
  interrupted,                 \* its stop token is requested or its deadline over
  taken,                       \* tickets the writer has taken
  owners,                      \* who keeps the file alive
  content,                     \* "open", "closed" after a failed close, "complete"
  handed                       \* completed_ of the writer

slotVars   == <<active, orphaned, ticket>>
stateVars  == <<pending, operation, sequence, completed, result, stopping, queued>>
workerVars == <<wpc, local>>
callVars   == <<cpc, call, interrupted, taken>>
fileVars   == <<owners, content, handed>>
vars == <<slotVars, stateVars, workerVars, callVars, fileVars>>

NoCall  == [op |-> "none", ticket |-> 0, sequence |-> 0]
NoLocal == [sequence |-> 0, ticket |-> 0, stopping |-> FALSE]

HasWorker(w) == wpc[w] # "none"

-----------------------------------------------------------------------------
\* FileWorkerSlots

available == active < MaximumWorkers \/ orphaned = MaximumWorkers

\* Mutant: a ticket that was released meanwhile is counted as orphaned.
OrphanUnchecked(w, n) ==
  /\ orphaned' = orphaned + 1
  /\ ticket' = [ticket EXCEPT ![w][n] = "orphaned"]
  /\ UNCHANGED active

orphan(w, n) ==
  IF ticket[w][n] = "active"
  THEN /\ ticket' = [ticket EXCEPT ![w][n] = "orphaned"]
       /\ orphaned' = orphaned + 1
       /\ UNCHANGED active
  ELSE UNCHANGED slotVars

\* "cleared" is a released ticket that had been orphaned.
release(w, n) ==
  IF ticket[w][n] \in {"active", "orphaned"}
  THEN /\ ticket' = [ticket EXCEPT ![w][n] = IF @ = "active" THEN "released" ELSE "cleared"]
       /\ active' = active - 1
       /\ orphaned' = IF ticket[w][n] = "orphaned" THEN orphaned - 1 ELSE orphaned
  ELSE UNCHANGED slotVars

-----------------------------------------------------------------------------
\* write() and complete()

\* The call returns, or goes on at another place, and its locals are gone.
Returned(w, place) ==
  /\ cpc' = [cpc EXCEPT ![w] = place]
  /\ call' = [call EXCEPT ![w] = NoCall]
  /\ interrupted' = [interrupted EXCEPT ![w] = FALSE]

\* A call begins, perhaps interrupted already; ensure_worker() starts the thread of the
\* first one.  A payload of several chunks is a sequence of calls here, each of at most
\* one buffer, and a call that cannot start its thread or its ticket changes nothing.
CallIsolated(w, op) ==
  /\ cpc[w] = "idle" /\ ~handed[w] /\ taken[w] < MaxOperations
  /\ cpc' = [cpc EXCEPT ![w] = "acquire"]
  /\ call' = [call EXCEPT ![w] = [NoCall EXCEPT !.op = op]]
  /\ \E now \in BOOLEAN : interrupted' = [interrupted EXCEPT ![w] = now]
  /\ IF HasWorker(w) THEN UNCHANGED <<wpc, owners>>
     ELSE /\ wpc' = [wpc EXCEPT ![w] = "check"]
          /\ owners' = [owners EXCEPT ![w] = @ \cup {"worker"}]
  /\ UNCHANGED <<slotVars, stateVars, local, taken, content, handed>>

\* TemporaryFile::write() and complete(): neither works on a file that was closed.  A
\* completion that fails or is interrupted may have closed it already.
NativeResults(w) == IF content[w] = "open" THEN {"ok", "failed"} ELSE {"failed"}

FileAfter(w, op, outcome) ==
  CASE op = "write" \/ content[w] # "open" -> {content[w]}
    [] outcome = "ok" -> {"complete"}
    [] OTHER -> {"open", "closed"}

\* A call that nothing can interrupt does its native I/O itself, if there is no worker.
CallDirect(w, op) ==
  /\ cpc[w] = "idle" /\ ~handed[w] /\ ~HasWorker(w)
  /\ \E outcome \in NativeResults(w) :
       /\ \E after \in FileAfter(w, op, outcome) : content' = [content EXCEPT ![w] = after]
       /\ handed' = [handed EXCEPT ![w] = op = "complete" /\ outcome = "ok"]
  /\ UNCHANGED <<slotVars, stateVars, workerVars, callVars, owners>>

MayTake(w) == ~interrupted[w] /\ available /\ orphaned # MaximumWorkers

\* acquire(): a change of the counters and its notify_all are one critical section, so
\* that waiting is waiting for the condition.
Acquire(w) ==
  /\ cpc[w] = "acquire" /\ MayTake(w)
  /\ LET n == taken[w] + 1 IN
     /\ taken' = [taken EXCEPT ![w] = n]
     /\ ticket' = [ticket EXCEPT ![w][n] = "active"]
     /\ call' = [call EXCEPT ![w].ticket = n]
  /\ active' = active + 1
  /\ cpc' = [cpc EXCEPT ![w] = "enqueue"]
  /\ UNCHANGED <<orphaned, stateVars, workerVars, interrupted, fileVars>>

\* The wait ends with an interruption, or because every worker is orphaned.
AcquireFails(w) ==
  /\ cpc[w] = "acquire"
  /\ interrupted[w] \/ orphaned = MaximumWorkers
  /\ Returned(w, "idle")
  /\ UNCHANGED <<slotVars, stateVars, workerVars, taken, fileVars>>

-----------------------------------------------------------------------------
\* run()

Busy(w) == stopping[w] \/ pending[w]

EnqueueRefused(w) ==
  /\ cpc[w] = "enqueue" /\ Busy(w)
  /\ release(w, call[w].ticket)
  /\ Returned(w, "idle")
  /\ UNCHANGED <<stateVars, workerVars, taken, fileVars>>

Enqueue(w) ==
  /\ cpc[w] = "enqueue" /\ ~Busy(w)
  /\ operation' = [operation EXCEPT ![w] = call[w].op]
  /\ queued' = [queued EXCEPT ![w] = call[w].ticket]
  /\ result' = [result EXCEPT ![w] = "none"]
  /\ sequence' = [sequence EXCEPT ![w] = @ + 1]
  /\ pending' = [pending EXCEPT ![w] = TRUE]
  /\ call' = [call EXCEPT ![w].sequence = sequence[w] + 1, ![w].ticket = 0]
  /\ cpc' = [cpc EXCEPT ![w] = "notify"]
  /\ UNCHANGED <<completed, stopping, slotVars, workerVars, interrupted, taken, fileVars>>

\* changed.notify_all()
WorkerWoken(w) == [wpc EXCEPT ![w] = IF @ = "asleep" THEN "check" ELSE @]

RunNotify(w) ==
  /\ cpc[w] = "notify"
  /\ wpc' = WorkerWoken(w)
  /\ cpc' = [cpc EXCEPT ![w] = "wait"]
  /\ UNCHANGED <<slotVars, stateVars, local, call, interrupted, taken, fileVars>>

finished(w) == completed[w] = call[w].sequence

RunSleep(w) ==
  /\ cpc[w] = "wait" /\ ~finished(w) /\ ~interrupted[w]
  /\ cpc' = [cpc EXCEPT ![w] = "asleep"]
  /\ UNCHANGED <<slotVars, stateVars, workerVars, call, interrupted, taken, fileVars>>

\* An interruption is reported even if the operation is finished as well.  After a
\* successful completion complete() goes on.
RunReturn(w) ==
  /\ cpc[w] = "wait"
  /\ finished(w) \/ interrupted[w]
  /\ Returned(w, IF ~interrupted[w] /\ result[w] = "ok" /\ call[w].op = "complete"
                 THEN "finish" ELSE "idle")
  /\ UNCHANGED <<slotVars, stateVars, workerVars, taken, fileVars>>

\* The stop token is requested, or the deadline passes; either wakes the caller.
Interrupt(w) ==
  /\ cpc[w] \in {"acquire", "enqueue", "notify", "wait", "asleep"} /\ ~interrupted[w]
  /\ interrupted' = [interrupted EXCEPT ![w] = TRUE]
  /\ cpc' = [cpc EXCEPT ![w] = IF @ = "asleep" THEN "wait" ELSE @]
  /\ UNCHANGED <<slotVars, stateVars, workerVars, call, taken, fileVars>>

\* Waits may end for no reason.
SpuriousWakeup(w) ==
  /\ \/ /\ cpc[w] = "asleep" /\ cpc' = [cpc EXCEPT ![w] = "wait"] /\ UNCHANGED wpc
     \/ /\ wpc[w] = "asleep" /\ wpc' = [wpc EXCEPT ![w] = "check"] /\ UNCHANGED cpc
  /\ UNCHANGED <<slotVars, stateVars, local, call, interrupted, taken, fileVars>>

-----------------------------------------------------------------------------
\* work()

WorkerCheck(w) ==
  /\ wpc[w] = "check"
  /\ \/ /\ pending[w]
        /\ wpc' = [wpc EXCEPT ![w] = "native"]
        /\ local' = [local EXCEPT ![w].sequence = sequence[w]]
     \/ /\ ~pending[w] /\ stopping[w]
        /\ wpc' = [wpc EXCEPT ![w] = "exit"] /\ UNCHANGED local
     \/ /\ ~pending[w] /\ ~stopping[w]
        /\ wpc' = [wpc EXCEPT ![w] = "asleep"] /\ UNCHANGED local
  /\ UNCHANGED <<slotVars, stateVars, callVars, fileVars>>

NativeOutcome(w, outcome) ==
  /\ result' = [result EXCEPT ![w] = outcome]
  /\ \E after \in FileAfter(w, operation[w], outcome) : content' = [content EXCEPT ![w] = after]

\* The native operation ends, and the worker publishes its result under the lock.
WorkerPublish(w) ==
  /\ wpc[w] = "native"
  /\ \E outcome \in NativeResults(w) : NativeOutcome(w, outcome)
  /\ completed' = [completed EXCEPT ![w] = local[w].sequence]
  /\ pending' = [pending EXCEPT ![w] = FALSE]
  /\ local' = [local EXCEPT ![w].ticket = queued[w], ![w].stopping = stopping[w]]
  /\ queued' = [queued EXCEPT ![w] = 0]
  /\ wpc' = [wpc EXCEPT ![w] = "cleanup"]
  /\ UNCHANGED <<operation, sequence, stopping, slotVars, callVars, owners, handed>>

\* Mutant: the file is left to the end of the loop.
WorkerCleanupLater(w) ==
  /\ wpc[w] = "cleanup"
  /\ wpc' = [wpc EXCEPT ![w] = "release"]
  /\ UNCHANGED <<slotVars, stateVars, local, callVars, fileVars>>

\* The last reference to the file of an abandoned writer is dropped, and with it the
\* file removed, before the place is given back.
WorkerCleanup(w) ==
  /\ wpc[w] = "cleanup"
  /\ owners' = IF local[w].stopping THEN [owners EXCEPT ![w] = @ \ {"worker"}] ELSE owners
  /\ wpc' = [wpc EXCEPT ![w] = "release"]
  /\ UNCHANGED <<slotVars, stateVars, local, callVars, content, handed>>

WorkerRelease(w) ==
  /\ wpc[w] = "release"
  /\ release(w, local[w].ticket)
  /\ local' = [local EXCEPT ![w] = NoLocal]
  /\ wpc' = [wpc EXCEPT ![w] = "notify"]
  /\ UNCHANGED <<stateVars, callVars, fileVars>>

\* Mutant: the caller is left to its deadline.
WorkerNotifyNobody(w) ==
  /\ wpc[w] = "notify"
  /\ wpc' = [wpc EXCEPT ![w] = "check"]
  /\ UNCHANGED <<slotVars, stateVars, local, callVars, fileVars>>

WorkerNotify(w) ==
  /\ wpc[w] = "notify"
  /\ cpc' = [cpc EXCEPT ![w] = IF @ = "asleep" THEN "wait" ELSE @]
  /\ wpc' = [wpc EXCEPT ![w] = "check"]
  /\ UNCHANGED <<slotVars, stateVars, local, call, interrupted, taken, fileVars>>

WorkerExit(w) ==
  /\ wpc[w] = "exit"
  /\ owners' = [owners EXCEPT ![w] = @ \ {"worker"}]
  /\ wpc' = [wpc EXCEPT ![w] = "gone"]
  /\ UNCHANGED <<slotVars, stateVars, local, callVars, content, handed>>

-----------------------------------------------------------------------------
\* finish(), after a successful completion

FinishStop(w) ==
  /\ cpc[w] = "finish"
  /\ stopping' = [stopping EXCEPT ![w] = TRUE]
  /\ cpc' = [cpc EXCEPT ![w] = "finish_notify"]
  /\ UNCHANGED <<pending, operation, sequence, completed, result, queued>>
  /\ UNCHANGED <<slotVars, workerVars, call, interrupted, taken, fileVars>>

FinishNotify(w) ==
  /\ cpc[w] = "finish_notify"
  /\ wpc' = WorkerWoken(w)
  /\ cpc' = [cpc EXCEPT ![w] = "join"]
  /\ UNCHANGED <<slotVars, stateVars, local, call, interrupted, taken, fileVars>>

\* thread.join(), and the file may be handed out.
FinishJoin(w) ==
  /\ cpc[w] = "join" /\ wpc[w] = "gone"
  /\ handed' = [handed EXCEPT ![w] = TRUE]
  /\ Returned(w, "idle")
  /\ UNCHANGED <<slotVars, stateVars, workerVars, taken, owners, content>>

\* artifact(): the request keeps the file; dropping it later removes the file.
TakeArtifact(w) ==
  /\ cpc[w] = "idle" /\ handed[w] /\ "artifact" \notin owners[w]
  /\ owners' = [owners EXCEPT ![w] = @ \cup {"artifact"}]
  /\ UNCHANGED <<slotVars, stateVars, workerVars, callVars, content, handed>>

DropArtifact(w) ==
  /\ "artifact" \in owners[w]
  /\ owners' = [owners EXCEPT ![w] = @ \ {"artifact"}]
  /\ UNCHANGED <<slotVars, stateVars, workerVars, callVars, content, handed>>

-----------------------------------------------------------------------------
\* ~TemporaryFileWriter() and abandon()

\* The writer lets go of the file; a thread that is still there is abandoned.
Destroy(w) ==
  /\ cpc[w] = "idle"
  /\ owners' = [owners EXCEPT ![w] = @ \ {"writer"}]
  /\ cpc' = [cpc EXCEPT ![w] = IF HasWorker(w) /\ ~handed[w] THEN "abandon" ELSE "gone"]
  /\ UNCHANGED <<slotVars, stateVars, workerVars, call, interrupted, taken, content, handed>>

\* abandon(): the order to stop, and the ticket of the operation at work.
AbandonStop(w) ==
  /\ cpc[w] = "abandon"
  /\ stopping' = [stopping EXCEPT ![w] = TRUE]
  /\ call' = [call EXCEPT ![w].ticket = queued[w]]
  /\ cpc' = [cpc EXCEPT ![w] = "abandon_notify"]
  /\ UNCHANGED <<pending, operation, sequence, completed, result, queued>>
  /\ UNCHANGED <<slotVars, workerVars, interrupted, taken, fileVars>>

\* Mutant: an idle thread is detached in its sleep.
AbandonNotifyNobody(w) ==
  /\ cpc[w] = "abandon_notify"
  /\ cpc' = [cpc EXCEPT ![w] = "orphan"]
  /\ UNCHANGED <<slotVars, stateVars, workerVars, call, interrupted, taken, fileVars>>

AbandonNotify(w) ==
  /\ cpc[w] = "abandon_notify"
  /\ wpc' = WorkerWoken(w)
  /\ cpc' = [cpc EXCEPT ![w] = "orphan"]
  /\ UNCHANGED <<slotVars, stateVars, local, call, interrupted, taken, fileVars>>

\* The ticket is marked, the thread detached.
AbandonOrphan(w) ==
  /\ cpc[w] = "orphan"
  /\ IF call[w].ticket # 0 THEN orphan(w, call[w].ticket) ELSE UNCHANGED slotVars
  /\ call' = [call EXCEPT ![w] = NoCall]
  /\ cpc' = [cpc EXCEPT ![w] = "gone"]
  /\ UNCHANGED <<stateVars, workerVars, interrupted, taken, fileVars>>

\* Every writer is gone, and so is every thread.
Over ==
  /\ \A w \in Writers : cpc[w] = "gone" /\ wpc[w] \in {"none", "gone"} /\ owners[w] = {}
  /\ UNCHANGED vars

-----------------------------------------------------------------------------
Init ==
  /\ active = 0 /\ orphaned = 0
  /\ ticket = [w \in Writers |-> [n \in 1 .. MaxOperations |-> "none"]]
  /\ pending = [w \in Writers |-> FALSE] /\ stopping = [w \in Writers |-> FALSE]
  /\ operation = [w \in Writers |-> "write"] /\ result = [w \in Writers |-> "none"]
  /\ sequence = [w \in Writers |-> 0] /\ completed = [w \in Writers |-> 0]
  /\ queued = [w \in Writers |-> 0]
  /\ wpc = [w \in Writers |-> "none"] /\ local = [w \in Writers |-> NoLocal]
  /\ cpc = [w \in Writers |-> "idle"] /\ call = [w \in Writers |-> NoCall]
  /\ interrupted = [w \in Writers |-> FALSE] /\ taken = [w \in Writers |-> 0]
  /\ owners = [w \in Writers |-> {"writer"}]
  /\ content = [w \in Writers |-> "open"] /\ handed = [w \in Writers |-> FALSE]

CallerNext(w) ==
  \/ Acquire(w) \/ AcquireFails(w) \/ EnqueueRefused(w) \/ Enqueue(w) \/ RunNotify(w)
  \/ RunSleep(w) \/ RunReturn(w)
  \/ FinishStop(w) \/ FinishNotify(w) \/ FinishJoin(w)
  \/ AbandonStop(w) \/ AbandonNotify(w) \/ AbandonOrphan(w)

WorkerNext(w) ==
  \/ WorkerCheck(w) \/ WorkerCleanup(w) \/ WorkerRelease(w) \/ WorkerNotify(w) \/ WorkerExit(w)

Next ==
  \/ \E w \in Writers :
       \/ \E op \in {"write", "complete"} : CallIsolated(w, op) \/ CallDirect(w, op)
       \/ CallerNext(w) \/ WorkerNext(w) \/ WorkerPublish(w)
       \/ Interrupt(w) \/ SpuriousWakeup(w)
       \/ TakeArtifact(w) \/ DropArtifact(w) \/ Destroy(w)
  \/ Over

Spec == Init /\ [][Next]_vars

\* Every thread is scheduled; whether native operations end is another matter.
ThreadsRun == \A w \in Writers : WF_vars(CallerNext(w)) /\ WF_vars(WorkerNext(w))

ThreadsSpec == Spec /\ ThreadsRun

\* What the environment may or may not do for a behaviour: let deadlines pass, answer.
DeadlinesPass == \A w \in Writers : WF_vars(Interrupt(w))
DiskAnswers   == \A w \in Writers : WF_vars(WorkerPublish(w))

-----------------------------------------------------------------------------
\* Properties

SlotTypes ==
  /\ active \in 0 .. MaximumWorkers /\ orphaned \in 0 .. MaximumWorkers
  /\ ticket \in [Writers -> [1 .. MaxOperations ->
                               {"none", "active", "orphaned", "released", "cleared"}]]

StateTypes ==
  /\ pending \in [Writers -> BOOLEAN] /\ stopping \in [Writers -> BOOLEAN]
  /\ operation \in [Writers -> {"write", "complete"}]
  /\ result \in [Writers -> {"none", "ok", "failed"}]
  /\ sequence \in [Writers -> Nat] /\ completed \in [Writers -> Nat]
  /\ queued \in [Writers -> 0 .. MaxOperations]

WorkerTypes ==
  /\ wpc \in [Writers -> {"none", "check", "asleep", "native", "cleanup", "release",
                          "notify", "exit", "gone"}]
  /\ local \in [Writers -> [sequence : Nat, ticket : 0 .. MaxOperations, stopping : BOOLEAN]]

CallTypes ==
  /\ cpc \in [Writers -> {"idle", "acquire", "enqueue", "notify", "wait", "asleep", "finish",
                          "finish_notify", "join", "abandon", "abandon_notify", "orphan",
                          "gone"}]
  /\ call \in [Writers -> [op : {"none", "write", "complete"},
                           ticket : 0 .. MaxOperations, sequence : Nat]]
  /\ interrupted \in [Writers -> BOOLEAN]
  /\ taken \in [Writers -> 0 .. MaxOperations]

FileTypes ==
  /\ owners \in [Writers -> SUBSET {"writer", "worker", "artifact"}]
  /\ content \in [Writers -> {"open", "closed", "complete"}]
  /\ handed \in [Writers -> BOOLEAN]

\* The members keep their types; the number of operations at work, counted over all
\* writers and those whose callers left, never passes maximum_workers.
TypeOK == SlotTypes /\ StateTypes /\ WorkerTypes /\ CallTypes /\ FileTypes

TicketsIn(statuses) ==
  {t \in Writers \X (1 .. MaxOperations) : ticket[t[1]][t[2]] \in statuses}

\* Each counter is the number of tickets it stands for, though a ticket is released by
\* one thread and orphaned by another in either order.
SlotsExact ==
  /\ active = Cardinality(TicketsIn({"active", "orphaned"}))
  /\ orphaned = Cardinality(TicketsIn({"orphaned"}))

\* Places are counted exactly and never pass the maximum of the whole process.
PlacesConsistent == TypeOK /\ SlotsExact

\* The payload buffer and the other inputs of an operation stay as they are while the
\* worker works on it, even if its caller was interrupted and calls again.
OperationsSerial ==
  \A w \in Writers : wpc[w] = "native" => pending[w] /\ local[w].sequence = sequence[w]

\* The worker never uses a file that is gone, and nobody's file stays.
FileOutlivesUse ==
  \A w \in Writers :
    /\ wpc[w] \in {"check", "asleep", "native"} /\ (pending[w] \/ ~stopping[w]) =>
         "worker" \in owners[w]
    /\ cpc[w] = "gone" /\ wpc[w] \in {"none", "gone"} => owners[w] \subseteq {"artifact"}

\* The place of an orphaned operation is given back when its file has been removed.
OrphanCleanedFirst ==
  \A w \in Writers, n \in 1 .. MaxOperations : ticket[w][n] = "cleared" => owners[w] = {}

\* A file is handed out only after its own completion succeeded, never on the result of
\* an earlier operation, and from then on no thread touches it.
ArtifactFinal ==
  \A w \in Writers : handed[w] => content[w] = "complete" /\ wpc[w] \in {"none", "gone"}

\* What the writers do to their files is safe whoever is interrupted or destroyed
\* when: operations on one file are serial, the file exists while it is used and goes
\* when nobody owns it, an orphan's place comes back after its file went, and a file
\* handed out is complete and stays as it is.
FilesSafe == OperationsSerial /\ FileOutlivesUse /\ OrphanCleanedFirst /\ ArtifactFinal

\* Every call and every destructor returns: on a stalled disk at the latest when the
\* deadline passes, on a working one without any interruption.
EveryCallReturns ==
  DeadlinesPass \/ DiskAnswers =>
    \A w \in Writers : cpc[w] # "idle" ~> cpc[w] \in {"idle", "gone"}

\* A thread that was left to itself ends, and removes the file.
AbandonedCleanUp ==
  DiskAnswers =>
    \A w \in Writers :
      cpc[w] = "gone" ~> wpc[w] \in {"none", "gone"} /\ owners[w] \subseteq {"artifact"}
=============================================================================
