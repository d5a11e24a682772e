------------------------- MODULE ConnectionDispatcher -------------------------
(***************************************************************************)
(* The bounded connection dispatcher (src/network/connection_dispatcher).   *)
(*                                                                         *)
(* Producers submit accepted connections; a fixed pool of workers runs the  *)
(* handler on each one; an optional admission thread keeps a connection off *)
(* the workers until its protocol prefix is complete.  One mutex guards two *)
(* ring buffers and their counters.  A critical section is one action; the  *)
(* only one that is a loop, drain_accepted, holds the mutex across actions  *)
(* (variable draining).  A thread blocked on a condition variable is a      *)
(* thread whose program counter is "wait".                                  *)
(***************************************************************************)
EXTENDS Naturals, FiniteSets

CONSTANTS
  Connections,       \* accepted sockets, each submitted at most once
  Producers,         \* threads that call submit()
  Workers,           \* the worker pool, config_.options.worker_count threads
  Stoppers,          \* threads, other than the owner, that call request_stop()
  Owner,             \* the thread that destroys the dispatcher
  AdmissionThread,   \* the admission poller thread
  Capacity,          \* config_.options.pending_connection_limit
  AdmissionEnabled,  \* config_.admission.has_value()
  MaxPrefix,         \* admission_options_.max_prefix_bytes, in receive units
  None               \* an empty std::optional

\* What create() rejects before it allocates anything, and what keeps the
\* model's threads apart.
ASSUME DispatcherAssumptions ==
  /\ Workers # {} /\ IsFiniteSet(Workers) /\ IsFiniteSet(Producers)
  /\ Capacity \in Nat \ {0}
  /\ AdmissionEnabled \in BOOLEAN /\ MaxPrefix \in Nat \ {0}
  /\ None \notin Connections
  /\ Owner \notin Stoppers /\ AdmissionThread \notin Stoppers
  /\ AdmissionThread # Owner

VARIABLES
  ready_queue, ready_head, ready_count,           \* worker-ready ring buffer
  accepted_queue, accepted_head, accepted_count,  \* accepted, not yet admitted
  owned_count, stopping,
  admissions,   \* slot -> connection with an incomplete prefix
  prefix,       \* bytes of the connection consumed by admission
  inflight,     \* the connection promote() moved out of its slot
  fate,         \* how far each connection has come
  ppc, held, cancelled, result,                   \* producers in submit()
  wpc, serving, wstop,                            \* workers and their tokens
  apc, cursor, events, astop, wake, draining,     \* the admission thread
  rpc,                                            \* threads in request_stop()
  dpc,                                            \* constructor and destructor
  expired,                                        \* total deadline has passed
  terminated                                      \* std::terminate() was called

readyVars    == <<ready_queue, ready_head, ready_count>>
acceptedVars == <<accepted_queue, accepted_head, accepted_count>>
slotVars     == <<admissions, prefix, inflight>>
producerVars == <<ppc, held, cancelled, result>>
workerVars   == <<wpc, serving, wstop>>
loopVars     == <<apc, cursor, events>>
wakeVars     == <<astop, wake>>
stopVars     == <<rpc, dpc>>

vars == <<readyVars, acceptedVars, owned_count, stopping, slotVars, fate,
          producerVars, workerVars, loopVars, wakeVars, draining, stopVars,
          expired, terminated>>

Slots   == 0 .. Capacity - 1
Callers == Stoppers \cup {Owner, AdmissionThread}

-----------------------------------------------------------------------------
\* Ring buffers.

Ring(q) == {q[s] : s \in Slots} \ {None}

\* Mutant: the head is forgotten when the tail is computed.
EnqueueReadyAtCount(c) ==
  /\ ready_queue' = [ready_queue EXCEPT ![ready_count % Capacity] = c]
  /\ ready_count' = ready_count + 1
  /\ UNCHANGED ready_head

\* enqueue_ready(): the connection goes to the slot after the youngest one.
EnqueueReady(c) ==
  /\ ready_queue' = [ready_queue EXCEPT ![(ready_head + ready_count) % Capacity] = c]
  /\ ready_count' = ready_count + 1
  /\ UNCHANGED ready_head

\* The admission branch of submit(): the same, on the accepted ring.
EnqueueAccepted(c) ==
  /\ accepted_queue' =
       [accepted_queue EXCEPT ![(accepted_head + accepted_count) % Capacity] = c]
  /\ accepted_count' = accepted_count + 1
  /\ UNCHANGED accepted_head

-----------------------------------------------------------------------------
\* Condition variables (external: std::condition_variable_any).

\* notify_one() wakes one arbitrary waiter, and does nothing without one.
NotifyOneWorker ==
  \/ \E w \in Workers : wpc[w] = "wait" /\ wpc' = [wpc EXCEPT ![w] = "woken"]
  \/ (\A w \in Workers : wpc[w] # "wait") /\ UNCHANGED wpc

NotifyOneProducer ==
  \/ \E p \in Producers : ppc[p] = "wait" /\ ppc' = [ppc EXCEPT ![p] = "lock"]
  \/ (\A p \in Producers : ppc[p] # "wait") /\ UNCHANGED ppc

AllWorkersWoken   == [w \in Workers |-> IF wpc[w] = "wait" THEN "woken" ELSE wpc[w]]
AllProducersWoken == [p \in Producers |-> IF ppc[p] = "wait" THEN "lock" ELSE ppc[p]]

\* A wait may also return for no reason; its loop evaluates the predicate again.
SpuriousWakeup ==
  /\ \/ /\ \E w \in Workers : wpc[w] = "wait" /\ wpc' = [wpc EXCEPT ![w] = "woken"]
        /\ UNCHANGED ppc
     \/ /\ \E p \in Producers : ppc[p] = "wait" /\ ppc' = [ppc EXCEPT ![p] = "lock"]
        /\ UNCHANGED wpc
  /\ UNCHANGED <<readyVars, acceptedVars, owned_count, stopping, slotVars, fate,
                 held, cancelled, result, serving, wstop, loopVars, wakeVars,
                 draining, stopVars, expired, terminated>>

-----------------------------------------------------------------------------
\* Impl(): the workers are started first, the admission thread last.

Create ==
  /\ dpc = "create"
  /\ dpc' = "live"
  /\ apc' = IF AdmissionEnabled THEN "drain" ELSE "done"
  /\ UNCHANGED <<readyVars, acceptedVars, owned_count, stopping, slotVars, fate,
                 producerVars, workerVars, cursor, events, wakeVars, draining,
                 rpc, expired, terminated>>

\* A thread cannot be started.  ~Impl() does not run for an unfinished object;
\* ~jthread of each worker that was started requests its token and joins it.
CreateFail ==
  /\ dpc = "create"
  /\ dpc' = "join"
  /\ wstop' = [w \in Workers |-> TRUE]
  /\ \E started \in SUBSET Workers :
       /\ \A w \in Workers \ started : wpc[w] = "check"
       /\ wpc' = [w \in Workers |-> IF w \in started THEN AllWorkersWoken[w]
                                                    ELSE "exited"]
  /\ UNCHANGED <<readyVars, acceptedVars, owned_count, stopping, slotVars, fate,
                 producerVars, serving, loopVars, wakeVars, draining, rpc,
                 expired, terminated>>

-----------------------------------------------------------------------------
\* submit()

\* A connection that owns no socket is refused before anything else.
SubmitInvalid(p) ==
  /\ dpc = "live" /\ ppc[p] = "idle" /\ result[p] # "invalid_connection"
  /\ result' = [result EXCEPT ![p] = "invalid_connection"]
  /\ UNCHANGED <<readyVars, acceptedVars, owned_count, stopping, slotVars, fate,
                 ppc, held, cancelled, workerVars, loopVars, wakeVars, draining,
                 stopVars, expired, terminated>>

\* submit() takes the connection by value; a token that is already requested
\* ends the call, and the connection is closed with it.
SubmitBegin(p, c) ==
  /\ dpc = "live" /\ ppc[p] = "idle" /\ fate[c] = "new"
  /\ IF cancelled[p]
     THEN /\ result' = [result EXCEPT ![p] = "cancelled"]
          /\ fate' = [fate EXCEPT ![c] = "closed"]
          /\ UNCHANGED <<ppc, held>>
     ELSE /\ ppc' = [ppc EXCEPT ![p] = "lock"]
          /\ held' = [held EXCEPT ![p] = c]
          /\ fate' = [fate EXCEPT ![c] = "live"]
          /\ result' = [result EXCEPT ![p] = "ok"]
  /\ UNCHANGED <<readyVars, acceptedVars, owned_count, stopping, slotVars,
                 cancelled, workerVars, loopVars, wakeVars, draining, stopVars,
                 expired, terminated>>

\* Mutant: each stage is bounded, not all of them together.
SpaceOrStopPerStage == stopping \/ accepted_count < Capacity

\* The predicate of the wait on space_available_.
SpaceOrStop == stopping \/ owned_count < Capacity

\* The call fails: its by-value connection is destroyed with it.
SubmitFail(p, code) ==
  /\ result' = [result EXCEPT ![p] = code]
  /\ fate' = [fate EXCEPT ![held[p]] = "closed"]
  /\ held' = [held EXCEPT ![p] = None]
  /\ ppc' = [ppc EXCEPT ![p] = "idle"]
  /\ UNCHANGED <<readyVars, acceptedVars, owned_count>>

\* The call succeeds: the connection enters the first stage of the dispatcher.
SubmitEnqueue(p) ==
  /\ owned_count' = owned_count + 1
  /\ IF AdmissionEnabled
     THEN EnqueueAccepted(held[p]) /\ UNCHANGED readyVars
     ELSE EnqueueReady(held[p]) /\ UNCHANGED acceptedVars
  /\ held' = [held EXCEPT ![p] = None]
  /\ ppc' = [ppc EXCEPT ![p] = "notify"]
  /\ UNCHANGED <<result, fate>>

\* One evaluation of the wait: a true predicate wins over a requested token.
SubmitLock(p) ==
  /\ ppc[p] = "lock" /\ ~draining
  /\ \/ stopping /\ SubmitFail(p, "stopped")
     \/ ~stopping /\ SpaceOrStop /\ SubmitEnqueue(p)
     \/ ~SpaceOrStop /\ cancelled[p] /\ SubmitFail(p, "cancelled")
     \/ /\ ~SpaceOrStop /\ ~cancelled[p]
        /\ ppc' = [ppc EXCEPT ![p] = "wait"]
        /\ UNCHANGED <<readyVars, acceptedVars, owned_count, fate, held, result>>
  /\ UNCHANGED <<stopping, slotVars, cancelled, workerVars, loopVars, wakeVars,
                 draining, stopVars, expired, terminated>>

\* Mutant: nobody is told.
SubmitNotifyNobody(p) ==
  /\ ppc[p] = "notify"
  /\ ppc' = [ppc EXCEPT ![p] = "idle"]
  /\ UNCHANGED <<readyVars, acceptedVars, owned_count, stopping, slotVars, fate,
                 held, cancelled, result, workerVars, loopVars, wakeVars, draining,
                 stopVars, expired, terminated>>

\* After the unlock the next stage is told.
SubmitNotify(p) ==
  /\ ppc[p] = "notify"
  /\ ppc' = [ppc EXCEPT ![p] = "idle"]
  /\ IF AdmissionEnabled
     THEN wake' = TRUE /\ UNCHANGED wpc
     ELSE NotifyOneWorker /\ UNCHANGED wake
  /\ UNCHANGED <<readyVars, acceptedVars, owned_count, stopping, slotVars, fate,
                 held, cancelled, result, serving, wstop, loopVars, astop, draining,
                 stopVars, expired, terminated>>

\* The caller's stop token is requested.  If that caller is blocked, its stop
\* callback notifies every thread blocked on the same condition variable.
Cancel(p) ==
  /\ dpc = "live" /\ ~cancelled[p]
  /\ cancelled' = [cancelled EXCEPT ![p] = TRUE]
  /\ ppc' = IF ppc[p] = "wait" THEN AllProducersWoken ELSE ppc
  /\ UNCHANGED <<readyVars, acceptedVars, owned_count, stopping, slotVars, fate,
                 held, result, workerVars, loopVars, wakeVars, draining,
                 stopVars, expired, terminated>>

-----------------------------------------------------------------------------
\* worker_loop() and process()

\* The loop's condition: the worker's own token.
WorkerExit(w) ==
  /\ wpc[w] = "check" /\ wstop[w]
  /\ wpc' = [wpc EXCEPT ![w] = "exited"]
  /\ UNCHANGED <<readyVars, acceptedVars, owned_count, stopping, slotVars, fate,
                 producerVars, serving, wstop, loopVars, wakeVars, draining,
                 stopVars, expired, terminated>>

\* Mutant: the youngest connection is taken.
DequeueYoungest(w) ==
  LET tail == (ready_head + ready_count - 1) % Capacity IN
  /\ terminated' = (terminated \/ ready_queue[tail] = None)
  /\ serving' = [serving EXCEPT ![w] = ready_queue[tail]]
  /\ ready_queue' = [ready_queue EXCEPT ![tail] = None]
  /\ ready_count' = ready_count - 1
  /\ owned_count' = owned_count - 1
  /\ UNCHANGED ready_head

\* dequeue(): an empty head slot under a positive count is std::terminate().
Dequeue(w) ==
  /\ terminated' = (terminated \/ ready_queue[ready_head] = None)
  /\ serving' = [serving EXCEPT ![w] = ready_queue[ready_head]]
  /\ ready_queue' = [ready_queue EXCEPT ![ready_head] = None]
  /\ ready_head' = (ready_head + 1) % Capacity
  /\ ready_count' = ready_count - 1
  /\ owned_count' = owned_count - 1

\* One evaluation of the wait on connection_available_, then the dequeue.
WorkerTake(w) ==
  /\ wpc[w] = "woken" \/ (wpc[w] = "check" /\ ~wstop[w])
  /\ ~draining
  /\ \/ /\ stopping \/ (ready_count = 0 /\ wstop[w])
        /\ wpc' = [wpc EXCEPT ![w] = "exited"]
        /\ UNCHANGED <<readyVars, owned_count, serving, terminated>>
     \/ /\ ~stopping /\ ready_count = 0 /\ ~wstop[w]
        /\ wpc' = [wpc EXCEPT ![w] = "wait"]
        /\ UNCHANGED <<readyVars, owned_count, serving, terminated>>
     \/ /\ ~stopping /\ ready_count > 0
        /\ Dequeue(w)
        /\ wpc' = [wpc EXCEPT ![w] = "notify"]
  /\ UNCHANGED <<acceptedVars, stopping, slotVars, fate, producerVars, wstop,
                 loopVars, wakeVars, draining, stopVars, expired>>

\* Mutant: no producer learns of the free place.
WorkerNotifyNobody(w) ==
  /\ wpc[w] = "notify"
  /\ wpc' = [wpc EXCEPT ![w] = "process"]
  /\ UNCHANGED <<readyVars, acceptedVars, owned_count, stopping, slotVars, fate,
                 producerVars, serving, wstop, loopVars, wakeVars, draining,
                 stopVars, expired, terminated>>

WorkerNotify(w) ==
  /\ wpc[w] = "notify"
  /\ wpc' = [wpc EXCEPT ![w] = "process"]
  /\ NotifyOneProducer
  /\ UNCHANGED <<readyVars, acceptedVars, owned_count, stopping, slotVars, fate,
                 held, cancelled, result, serving, wstop, loopVars, wakeVars,
                 draining, stopVars, expired, terminated>>

\* process(): the handler returns, with or without an error, or throws; a failure
\* is reported to the observer, and the worker goes on with its loop either way.
HandlerReturn(w) ==
  /\ wpc[w] = "process"
  /\ wpc' = [wpc EXCEPT ![w] = "check"]
  /\ fate' = [fate EXCEPT ![serving[w]] = "handled"]
  /\ serving' = [serving EXCEPT ![w] = None]
  /\ UNCHANGED <<readyVars, acceptedVars, owned_count, stopping, slotVars,
                 producerVars, wstop, loopVars, wakeVars, draining, stopVars,
                 expired, terminated>>

-----------------------------------------------------------------------------
\* admission_loop()

\* The loop's condition, up to the lock of drain_accepted().
AdmissionCheck ==
  /\ apc = "drain" /\ ~draining
  /\ IF astop \/ stopping
     THEN apc' = "exit" /\ UNCHANGED draining
     ELSE draining' = TRUE /\ UNCHANGED apc
  /\ UNCHANGED <<readyVars, acceptedVars, owned_count, stopping, slotVars, fate,
                 producerVars, workerVars, cursor, events, wakeVars, stopVars,
                 expired, terminated>>

FreeSlots == {s \in Slots : admissions[s] = None}

\* One round of drain_accepted()'s loop, with the mutex held: the oldest accepted
\* connection moves to the first free slot.  No free slot, or an empty head slot,
\* is std::terminate().
DrainOne ==
  /\ draining /\ accepted_count > 0
  /\ IF FreeSlots = {} \/ accepted_queue[accepted_head] = None
     THEN /\ terminated' = TRUE
          /\ UNCHANGED <<acceptedVars, admissions, prefix>>
     ELSE LET slot == CHOOSE s \in FreeSlots : \A t \in FreeSlots : s <= t
              c    == accepted_queue[accepted_head]
          IN /\ admissions' = [admissions EXCEPT ![slot] = c]
             /\ prefix' = [prefix EXCEPT ![c] = 0]
             /\ accepted_queue' = [accepted_queue EXCEPT ![accepted_head] = None]
             /\ accepted_head' = (accepted_head + 1) % Capacity
             /\ accepted_count' = accepted_count - 1
             /\ UNCHANGED terminated
  /\ UNCHANGED <<readyVars, owned_count, stopping, inflight, fate, producerVars,
                 workerVars, loopVars, wakeVars, draining, stopVars, expired>>

DrainDone ==
  /\ draining /\ accepted_count = 0
  /\ draining' = FALSE
  /\ apc' = "poll"
  /\ UNCHANGED <<readyVars, acceptedVars, owned_count, stopping, slotVars, fate,
                 producerVars, workerVars, cursor, events, wakeVars, stopVars,
                 expired, terminated>>

Occupied(q) == {s \in Slots : q[s] # None}

\* The poll ends for a wake datagram, which is drained at once, for events on any
\* of the polled sockets, or at the earliest deadline, which an occupied slot has.
PollReturn ==
  /\ apc = "poll"
  /\ wake \/ Occupied(admissions) # {}
  /\ wake' = FALSE
  /\ events' \in SUBSET Occupied(admissions)
  /\ apc' = "inspect" /\ cursor' = 0
  /\ UNCHANGED <<readyVars, acceptedVars, owned_count, stopping, slotVars, fate,
                 producerVars, workerVars, astop, draining, stopVars, expired,
                 terminated>>

\* A poller-wide failure: promote_all_admissions().
PollFail ==
  /\ apc = "poll"
  /\ apc' = "flush" /\ cursor' = 0
  /\ UNCHANGED <<readyVars, acceptedVars, owned_count, stopping, slotVars, fate,
                 producerVars, workerVars, events, wakeVars, draining, stopVars,
                 expired, terminated>>

\* Mutant: the moved-from entry stays in its slot.
MoveOutKeepsSlot(s) ==
  /\ inflight' = admissions[s]
  /\ UNCHANGED <<admissions, prefix, expired>>

\* promote(), first half: the connection leaves its slot, with the prefix moved
\* into its prefetched bytes, before the mutex is taken.  Nobody polls it now.
MoveOut(s) ==
  /\ inflight' = admissions[s]
  /\ admissions' = [admissions EXCEPT ![s] = None]
  /\ prefix' = [prefix EXCEPT ![admissions[s]] = 0]
  /\ expired' = expired \ {admissions[s]}

\* Mutant: a full prefix without the marker waits for more.
PrefixAlwaysHasRoom(size) == TRUE

\* The prefix buffer has room for another receive.
PrefixHasRoom(size) == size < MaxPrefix

\* receive_socket() on a slot with an event.  n > 0 bytes leave the connection in
\* its slot unless they complete the prefix or fill it; end of stream and a socket
\* error promote it; a spurious readiness changes nothing.
Inspect ==
  /\ apc = "inspect" /\ inflight = None /\ cursor \in Slots
  /\ cursor' = cursor + 1
  /\ IF cursor \in events /\ admissions[cursor] # None
     THEN LET c == admissions[cursor] IN
          \/ MoveOut(cursor)
          \/ /\ \E n \in 1 .. MaxPrefix - prefix[c] :
                  /\ PrefixHasRoom(prefix[c] + n)
                  /\ prefix' = [prefix EXCEPT ![c] = @ + n]
             /\ UNCHANGED <<admissions, inflight, expired>>
          \/ UNCHANGED <<slotVars, expired>>
     ELSE UNCHANGED <<slotVars, expired>>
  /\ UNCHANGED <<readyVars, acceptedVars, owned_count, stopping, fate,
                 producerVars, workerVars, apc, events, wakeVars, draining,
                 stopVars, terminated>>

\* promote_expired() and promote_all_admissions() walk the slots in order.
Sweep ==
  /\ apc \in {"expire", "flush"} /\ inflight = None /\ cursor \in Slots
  /\ cursor' = cursor + 1
  /\ IF admissions[cursor] # None /\ (apc = "flush" \/ cursor \in events)
     THEN MoveOut(cursor)
     ELSE UNCHANGED <<slotVars, expired>>
  /\ UNCHANGED <<readyVars, acceptedVars, owned_count, stopping, fate,
                 producerVars, workerVars, apc, events, wakeVars, draining,
                 stopVars, terminated>>

\* A slot expires when its total deadline has passed, and may at any time for
\* want of progress.
ExpiredSlots == {s \in Slots : admissions[s] \in expired}

\* The end of each walk.  promote_expired() reads the clock once, here: events
\* then holds the slots whose deadline had passed.
WalkDone ==
  /\ inflight = None /\ cursor = Capacity
  /\ \/ apc = "inspect" /\ apc' = "expire" /\ cursor' = 0
        /\ \E inactive \in SUBSET Occupied(admissions) :
             events' = ExpiredSlots \cup inactive
     \/ apc \in {"expire", "flush"} /\ apc' = "drain" /\ cursor' = 0 /\ events' = {}
  /\ UNCHANGED <<readyVars, acceptedVars, owned_count, stopping, slotVars, fate,
                 producerVars, workerVars, wakeVars, draining, stopVars, expired,
                 terminated>>

\* promote(), second half: with the mutex held the connection joins the ready
\* ring, or is closed because the dispatcher is stopping.
Promote ==
  /\ inflight # None /\ apc \in {"inspect", "expire", "flush"}
  /\ IF stopping
     THEN /\ fate' = [fate EXCEPT ![inflight] = "closed"]
          /\ inflight' = None
          /\ UNCHANGED <<readyVars, apc>>
     ELSE /\ EnqueueReady(inflight)
          /\ inflight' = None
          /\ apc' = CASE apc = "inspect" -> "inspect_notify"
                      [] apc = "expire" -> "expire_notify"
                      [] OTHER -> "flush_notify"
          /\ UNCHANGED fate
  /\ UNCHANGED <<acceptedVars, owned_count, stopping, admissions, prefix,
                 producerVars, workerVars, cursor, events, wakeVars, draining,
                 stopVars, expired, terminated>>

\* Mutant: no worker is told.
PromoteNotifyNobody ==
  /\ \/ apc = "inspect_notify" /\ apc' = "inspect"
     \/ apc = "expire_notify" /\ apc' = "expire"
     \/ apc = "flush_notify" /\ apc' = "flush"
  /\ UNCHANGED <<readyVars, acceptedVars, owned_count, stopping, slotVars, fate,
                 producerVars, workerVars, cursor, events, wakeVars, draining,
                 stopVars, expired, terminated>>

PromoteNotify ==
  /\ \/ apc = "inspect_notify" /\ apc' = "inspect"
     \/ apc = "expire_notify" /\ apc' = "expire"
     \/ apc = "flush_notify" /\ apc' = "flush"
  /\ NotifyOneWorker
  /\ UNCHANGED <<readyVars, acceptedVars, owned_count, stopping, slotVars, fate,
                 producerVars, serving, wstop, cursor, events, wakeVars, draining,
                 stopVars, expired, terminated>>

\* An exception while a prefix grows: the thread stops the whole dispatcher.
AdmissionThrow ==
  /\ apc = "inspect" /\ inflight = None /\ cursor \in events
  /\ admissions[cursor] # None
  /\ apc' = "failed" /\ cursor' = 0 /\ events' = {}
  /\ rpc' = [rpc EXCEPT ![AdmissionThread] = "lock"]
  /\ UNCHANGED <<readyVars, acceptedVars, owned_count, stopping, slotVars, fate,
                 producerVars, workerVars, wakeVars, draining,
                 dpc, expired, terminated>>

\* After the loop, or after the exception's request_stop(), every slot is reset.
AdmissionExit ==
  /\ apc = "exit" \/ (apc = "failed" /\ rpc[AdmissionThread] = "returned")
  /\ apc' = "done"
  /\ fate' = [c \in Connections |-> IF c \in Ring(admissions) THEN "closed" ELSE fate[c]]
  /\ admissions' = [s \in Slots |-> None]
  /\ prefix' = [c \in Connections |-> 0]
  /\ expired' = {}
  /\ UNCHANGED <<readyVars, acceptedVars, owned_count, stopping, inflight,
                 producerVars, workerVars, cursor, events, wakeVars, draining,
                 stopVars, terminated>>

-----------------------------------------------------------------------------
\* request_stop(), by any of its callers t

StopCall(t) ==
  /\ t \in Stoppers /\ dpc = "live" /\ rpc[t] = "idle"
  /\ rpc' = [rpc EXCEPT ![t] = "lock"]
  /\ UNCHANGED <<readyVars, acceptedVars, owned_count, stopping, slotVars, fate,
                 producerVars, workerVars, loopVars, wakeVars, draining, dpc,
                 expired, terminated>>

\* The critical section.  Only the first caller goes on; the others return at
\* once, even though the first may not have woken anybody yet.
StopLock(t) ==
  /\ rpc[t] = "lock" /\ ~draining
  /\ IF stopping
     THEN /\ rpc' = [rpc EXCEPT ![t] = "returned"]
          /\ UNCHANGED <<readyVars, acceptedVars, owned_count, stopping, fate>>
     ELSE /\ rpc' = [rpc EXCEPT ![t] = "admission"]
          /\ stopping' = TRUE
          /\ fate' = [c \in Connections |->
                        IF c \in Ring(ready_queue) \cup Ring(accepted_queue)
                        THEN "closed" ELSE fate[c]]
          /\ ready_queue' = [s \in Slots |-> None]
          /\ accepted_queue' = [s \in Slots |-> None]
          /\ ready_count' = 0 /\ ready_head' = 0
          /\ accepted_count' = 0 /\ accepted_head' = 0
          /\ owned_count' = 0
  /\ UNCHANGED <<slotVars, producerVars, workerVars, loopVars, wakeVars, draining,
                 dpc, expired, terminated>>

\* Mutant: the token is requested but the poll is not woken.
StopAdmissionSilently(t) ==
  /\ rpc[t] = "admission"
  /\ rpc' = [rpc EXCEPT ![t] = "workers"]
  /\ astop' = TRUE
  /\ UNCHANGED <<readyVars, acceptedVars, owned_count, stopping, slotVars, fate,
                 producerVars, workerVars, loopVars, wake, draining, dpc, expired,
                 terminated>>

StopAdmission(t) ==
  /\ rpc[t] = "admission"
  /\ rpc' = [rpc EXCEPT ![t] = "workers"]
  /\ astop' = TRUE /\ wake' = TRUE
  /\ UNCHANGED <<readyVars, acceptedVars, owned_count, stopping, slotVars, fate,
                 producerVars, workerVars, loopVars, draining, dpc, expired,
                 terminated>>

\* Every worker token is requested; a blocked worker's stop callback notifies.
StopWorkers(t) ==
  /\ rpc[t] = "workers"
  /\ rpc' = [rpc EXCEPT ![t] = "notify"]
  /\ wstop' = [w \in Workers |-> TRUE]
  /\ wpc' = AllWorkersWoken
  /\ UNCHANGED <<readyVars, acceptedVars, owned_count, stopping, slotVars, fate,
                 producerVars, serving, loopVars, wakeVars, draining, dpc,
                 expired, terminated>>

StopNotify(t) ==
  /\ rpc[t] = "notify"
  /\ rpc' = [rpc EXCEPT ![t] = "returned"]
  /\ wpc' = AllWorkersWoken
  /\ ppc' = AllProducersWoken
  /\ UNCHANGED <<readyVars, acceptedVars, owned_count, stopping, slotVars, fate,
                 held, cancelled, result, serving, wstop, loopVars, wakeVars,
                 draining, dpc, expired, terminated>>

-----------------------------------------------------------------------------
\* ~Impl(), under its documented precondition: no thread is in submit() or
\* request_stop().  The admission thread may still be in its own request_stop().

DestroyBegin ==
  /\ dpc = "live"
  /\ \A p \in Producers : ppc[p] = "idle"
  /\ \A t \in Stoppers : rpc[t] \in {"idle", "returned"}
  /\ dpc' = "stop"
  /\ rpc' = [rpc EXCEPT ![Owner] = "lock"]
  /\ UNCHANGED <<readyVars, acceptedVars, owned_count, stopping, slotVars, fate,
                 producerVars, workerVars, loopVars, wakeVars, draining, expired,
                 terminated>>

\* The admission thread is joined, then each ~jthread requests its worker's token.
DestroyJoinAdmission ==
  /\ dpc = "stop" /\ rpc[Owner] = "returned" /\ apc = "done"
  /\ dpc' = "join"
  /\ wstop' = [w \in Workers |-> TRUE]
  /\ wpc' = AllWorkersWoken
  /\ UNCHANGED <<readyVars, acceptedVars, owned_count, stopping, slotVars, fate,
                 producerVars, serving, loopVars, wakeVars, draining, rpc,
                 expired, terminated>>

DestroyJoinWorkers ==
  /\ dpc = "join" /\ \A w \in Workers : wpc[w] = "exited"
  /\ dpc' = "destroyed"
  /\ UNCHANGED <<readyVars, acceptedVars, owned_count, stopping, slotVars, fate,
                 producerVars, workerVars, loopVars, wakeVars, draining, rpc,
                 expired, terminated>>

-----------------------------------------------------------------------------
\* The clock (external): the total deadline of a connection in an admission slot
\* passes.  Earlier, nobody looks at it.

TimeoutPasses(c) ==
  /\ c \in Ring(admissions) \ expired
  /\ expired' = expired \cup {c}
  /\ UNCHANGED <<readyVars, acceptedVars, owned_count, stopping, slotVars, fate,
                 producerVars, workerVars, loopVars, wakeVars, draining, stopVars,
                 terminated>>

\* Nothing is left to do once the dispatcher is destroyed.
Destroyed == dpc = "destroyed" /\ UNCHANGED vars

-----------------------------------------------------------------------------
Init ==
  /\ ready_queue = [s \in Slots |-> None] /\ ready_head = 0 /\ ready_count = 0
  /\ accepted_queue = [s \in Slots |-> None]
  /\ accepted_head = 0 /\ accepted_count = 0
  /\ owned_count = 0 /\ stopping = FALSE
  /\ admissions = [s \in Slots |-> None]
  /\ prefix = [c \in Connections |-> 0] /\ inflight = None
  /\ fate = [c \in Connections |-> "new"]
  /\ ppc = [p \in Producers |-> "idle"] /\ held = [p \in Producers |-> None]
  /\ cancelled = [p \in Producers |-> FALSE]
  /\ result = [p \in Producers |-> "ok"]
  /\ wpc = [w \in Workers |-> "check"] /\ serving = [w \in Workers |-> None]
  /\ wstop = [w \in Workers |-> FALSE]
  /\ apc = "done"
  /\ cursor = 0 /\ events = {}
  /\ astop = FALSE /\ wake = FALSE /\ draining = FALSE
  /\ rpc = [t \in Callers |-> "idle"] /\ dpc = "create"
  /\ expired = {}
  /\ terminated = FALSE

ProducerNext(p) == SubmitLock(p) \/ SubmitNotify(p)
WorkerNext(w)   == WorkerExit(w) \/ WorkerTake(w) \/ WorkerNotify(w) \/ HandlerReturn(w)
AdmissionNext   == \/ AdmissionCheck \/ DrainOne \/ DrainDone \/ PollReturn
                   \/ Inspect \/ Sweep \/ WalkDone \/ Promote \/ PromoteNotify
                   \/ AdmissionExit
StopNext(t)     == StopLock(t) \/ StopAdmission(t) \/ StopWorkers(t) \/ StopNotify(t)
DestroyNext     == DestroyJoinAdmission \/ DestroyJoinWorkers

\* What runs inside the dispatcher once somebody has called it.
InternalNext ==
  \/ \E p \in Producers : ProducerNext(p)
  \/ \E w \in Workers : WorkerNext(w)
  \/ AdmissionNext \/ PollFail \/ AdmissionThrow \/ SpuriousWakeup
  \/ \E t \in Callers : StopNext(t)
  \/ DestroyNext
  \/ \E c \in Connections : TimeoutPasses(c)

\* The calls of its clients.
ClientNext ==
  \/ Create \/ CreateFail
  \/ \E p \in Producers : SubmitInvalid(p) \/ Cancel(p)
  \/ \E p \in Producers, c \in Connections : SubmitBegin(p, c)
  \/ \E t \in Stoppers : StopCall(t)
  \/ DestroyBegin

Next == InternalNext \/ ClientNext \/ Destroyed

Spec == Init /\ [][Next]_vars

\* Threads are scheduled, no thread is kept from the mutex for ever, the clock
\* advances, and every handler returns: its I/O is bounded by its deadlines and
\* its stop token.  Clients, peers, spurious wakeups, poller failures and
\* exceptions owe nothing.
Fairness ==
  /\ \A p \in Producers : SF_vars(ProducerNext(p))
  /\ \A w \in Workers : SF_vars(WorkerNext(w))
  /\ WF_vars(AdmissionNext)
  /\ \A t \in Callers : SF_vars(StopNext(t))
  /\ WF_vars(DestroyNext)
  /\ \A c \in Connections : WF_vars(TimeoutPasses(c))

FairSpec == Spec /\ Fairness

-----------------------------------------------------------------------------
\* Properties

ConnectionOrNone == Connections \cup {None}

QueueTypes ==
  /\ ready_queue \in [Slots -> ConnectionOrNone]
  /\ ready_head \in Slots /\ ready_count \in 0 .. Capacity
  /\ accepted_queue \in [Slots -> ConnectionOrNone]
  /\ accepted_head \in Slots /\ accepted_count \in 0 .. Capacity
  /\ owned_count \in 0 .. Capacity
  /\ stopping \in BOOLEAN /\ draining \in BOOLEAN /\ terminated \in BOOLEAN

ConnectionTypes ==
  /\ admissions \in [Slots -> ConnectionOrNone]
  /\ prefix \in [Connections -> 0 .. MaxPrefix]
  /\ inflight \in ConnectionOrNone
  /\ fate \in [Connections -> {"new", "live", "handled", "closed"}]
  /\ expired \subseteq Connections

ProducerTypes ==
  /\ ppc \in [Producers -> {"idle", "lock", "wait", "notify"}]
  /\ held \in [Producers -> ConnectionOrNone]
  /\ cancelled \in [Producers -> BOOLEAN]
  /\ result \in [Producers -> {"ok", "invalid_connection", "cancelled", "stopped"}]

WorkerTypes ==
  /\ wpc \in [Workers -> {"check", "wait", "woken", "notify", "process", "exited"}]
  /\ serving \in [Workers -> ConnectionOrNone]
  /\ wstop \in [Workers -> BOOLEAN]

AdmissionTypes ==
  /\ apc \in {"drain", "poll", "inspect", "inspect_notify", "expire",
              "expire_notify", "flush", "flush_notify", "failed", "exit", "done"}
  /\ cursor \in 0 .. Capacity /\ events \subseteq Slots
  /\ astop \in BOOLEAN /\ wake \in BOOLEAN

StopTypes ==
  /\ rpc \in [Callers -> {"idle", "lock", "admission", "workers", "notify",
                          "returned"}]
  /\ dpc \in {"create", "live", "stop", "join", "destroyed"}

\* The variables have the types of the code's members; in particular no counter
\* leaves the range its std::size_t is used in: ready_count_, accepted_count_ and
\* owned_count_ neither pass the capacity nor wrap below zero.
TypeOK ==
  /\ QueueTypes /\ ConnectionTypes /\ ProducerTypes
  /\ WorkerTypes /\ AdmissionTypes /\ StopTypes

\* owned_count_ is the one number submit() compares with the capacity, and it is
\* changed in submit() and dequeue() only: between them a connection crosses two
\* rings, a slot and the stack of promote() without a count of its own.
OwnedCountExact ==
  ~stopping => owned_count = accepted_count + Cardinality(Occupied(admissions))
                             + (IF inflight = None THEN 0 ELSE 1) + ready_count

\* How far slot s is behind the head of a ring.
Distance(head, s) == IF s >= head THEN s - head ELSE s + Capacity - head

RingWellFormed(q, head, count) ==
  \A s \in Slots : q[s] # None <=> Distance(head, s) < count

\* In both rings exactly the count slots from the head on are occupied, through
\* every wrap-around and after request_stop() has reset head and count.
RingsWellFormed ==
  /\ RingWellFormed(ready_queue, ready_head, ready_count)
  /\ RingWellFormed(accepted_queue, accepted_head, accepted_count)

\* None of the std::terminate() calls of dequeue() and drain_accepted() runs: a
\* positive count has an occupied head slot, and the bound on all stages together
\* leaves the admission thread a free slot for every accepted connection.
NeverTerminates == ~terminated

\* The places that own connection c.
Homes(c) ==
  {<<"held", p>> : p \in {q \in Producers : held[q] = c}}
  \cup {<<"serving", w>> : w \in {v \in Workers : serving[v] = c}}
  \cup {<<"ready", s>> : s \in {t \in Slots : ready_queue[t] = c}}
  \cup {<<"accepted", s>> : s \in {t \in Slots : accepted_queue[t] = c}}
  \cup {<<"admission", s>> : s \in {t \in Slots : admissions[t] = c}}
  \cup (IF inflight = c THEN {<<"promote", 0>>} ELSE {})

\* A connection that is neither handled nor closed has exactly one owner, and
\* any other has none: no stage transition leaks or duplicates a socket, and
\* request_stop() racing with promote() does not either.
OneOwner ==
  \A c \in Connections : Cardinality(Homes(c)) = IF fate[c] = "live" THEN 1 ELSE 0

\* A connection that stays in its slot can still receive: a full buffer would make
\* recv() ask for zero bytes and its answer read as the end of the stream.
AdmissionHasRoom ==
  \A s \in Slots : admissions[s] # None => prefix[admissions[s]] < MaxPrefix

\* Once stopping_ is set nothing is queued any more: neither the producer that
\* was blocked nor a promotion that had left its slot can refill the rings.
StoppedMeansEmpty ==
  stopping => ready_count = 0 /\ accepted_count = 0 /\ owned_count = 0

\* The queues as a whole: the one counter all stages share, the layout of both rings and
\* the emptiness after a stop hold each other up, through every hand-over between the
\* producers, the admission thread, the workers and request_stop().
QueuesConsistent == OwnedCountExact /\ RingsWellFormed /\ StoppedMeansEmpty

ProducersAt(place) == {p \in Producers : ppc[p] = place}
WorkersAt(places) == {w \in Workers : wpc[w] \in places}

\* The calls of notify_one() on connection_available_ still to come from threads
\* that have enqueued a ready connection.
PendingNotifies ==
  (IF AdmissionEnabled THEN 0 ELSE Cardinality(ProducersAt("notify")))
  + (IF apc \in {"inspect_notify", "expire_notify", "flush_notify"} THEN 1 ELSE 0)

\* No lost wakeup of a worker: while one is blocked on connection_available_,
\* every ready connection has a worker that will look at the ring, or a
\* notify_one() that is still to come.
NoWorkStranded ==
  ~stopping /\ WorkersAt({"wait"}) # {} =>
    ready_count <= PendingNotifies + Cardinality(WorkersAt({"check", "woken"}))

\* No lost wakeup of a producer: while one is blocked on space_available_, every
\* free place has a producer that will look at it, or a notify_one() to come.
NoProducerStranded ==
  ~stopping /\ ProducersAt("wait") # {} =>
    Capacity - owned_count <= Cardinality(WorkersAt({"notify"}))
                              + Cardinality(ProducersAt("lock"))

\* Every submit() returns, because a worker frees a place or the dispatcher stops,
\* and every connection it takes over is handled or closed in the end: it is not
\* left in a ring nobody is told about, nor in a slot without a deadline.
SubmissionsResolved ==
  /\ \A p \in Producers : ppc[p] # "idle" ~> ppc[p] = "idle"
  /\ \A c \in Connections : fate[c] = "live" ~> fate[c] \in {"handled", "closed"}

\* Whoever stops the dispatcher, and however many stop it at once, every thread
\* it started ends.
StopEndsEveryThread ==
  stopping ~> apc = "done" /\ \A w \in Workers : wpc[w] = "exited"

\* The destructor does not wait for ever, even if the admission thread was in its
\* own request_stop() when it began, and neither does a failed constructor.
DestructionCompletes ==
  dpc \in {"stop", "join"} ~> dpc = "destroyed"

\* Stopping and destroying both come to an end.
ShutdownCompletes == StopEndsEveryThread /\ DestructionCompletes
=============================================================================
