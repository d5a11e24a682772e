---------------------- MODULE ConnectionDispatcherProofs ----------------------
(***************************************************************************)
(* The dispatcher's safety invariants hold for every capacity, every number *)
(* of producers and workers, with and without the admission stage; every    *)
(* connection it has taken over has exactly one owner, and therefore it     *)
(* implements its contract.                                                 *)
(***************************************************************************)
EXTENDS DispatcherRefinement, FiniteSetTheorems, SequenceTheorems, WellFoundedInduction, TLAPS

-----------------------------------------------------------------------------
\* Arithmetic of the rings.

\* A slot index computed from a head and a count wraps at most once.
LEMMA SlotArithmetic ==
  ASSUME NEW a \in 0 .. Capacity + Capacity - 1
  PROVE  a % Capacity = IF a < Capacity THEN a ELSE a - Capacity
BY DispatcherAssumptions

\* The slot after the youngest connection of a ring that is not full.
LEMMA TailSlot ==
  ASSUME NEW h \in Slots, NEW n \in 0 .. Capacity - 1
  PROVE  /\ (h + n) % Capacity \in Slots
         /\ \A s \in Slots : Distance(h, s) = n <=> s = (h + n) % Capacity
<1>1. PICK a \in 0 .. Capacity + Capacity - 1 : a = h + n
  BY DispatcherAssumptions DEF Slots
<1>2. PICK t : t = a % Capacity
  OBVIOUS
<1>3. t = IF a < Capacity THEN a ELSE a - Capacity
  BY <1>2, SlotArithmetic
<1>4. t \in Slots /\ \A s \in Slots : Distance(h, s) = n <=> s = t
  BY <1>1, <1>3, DispatcherAssumptions DEF Slots, Distance
<1>5. (h + n) % Capacity = t
  BY <1>1, <1>2
<1>. QED  BY <1>4, <1>5

\* Advancing the head by one brings every other slot one closer to it.
LEMMA NextHead ==
  ASSUME NEW h \in Slots
  PROVE  /\ (h + 1) % Capacity \in Slots
         /\ \A s \in Slots : s # h =>
              Distance((h + 1) % Capacity, s) = Distance(h, s) - 1
         /\ Distance((h + 1) % Capacity, h) = Capacity - 1
<1>1. PICK a \in 0 .. Capacity + Capacity - 1 : a = h + 1
  BY DispatcherAssumptions DEF Slots
<1>2. PICK t : t = a % Capacity
  OBVIOUS
<1>3. t = IF a < Capacity THEN a ELSE a - Capacity
  BY <1>2, SlotArithmetic
<1>4. /\ t \in Slots
      /\ \A s \in Slots : s # h => Distance(t, s) = Distance(h, s) - 1
      /\ Distance(t, h) = Capacity - 1
  BY <1>1, <1>3, DispatcherAssumptions DEF Slots, Distance
<1>5. (h + 1) % Capacity = t
  BY <1>1, <1>2
<1>. QED  BY <1>4, <1>5

\* A distance is again a slot number.
LEMMA DistanceType ==
  ASSUME NEW h \in Slots, NEW s \in Slots
  PROVE  Distance(h, s) \in Slots
BY DispatcherAssumptions DEF Slots, Distance

\* Enqueueing keeps a ring well formed.
LEMMA RingEnqueue ==
  ASSUME NEW q \in [Slots -> ConnectionOrNone], NEW h \in Slots,
         NEW n \in 0 .. Capacity - 1, NEW c \in Connections,
         RingWellFormed(q, h, n)
  PROVE  RingWellFormed([q EXCEPT ![(h + n) % Capacity] = c], h, n + 1)
<1>1. PICK t \in Slots : /\ t = (h + n) % Capacity
                        /\ \A s \in Slots : Distance(h, s) = n <=> s = t
  BY TailSlot
<1>2. ASSUME NEW s \in Slots
      PROVE  [q EXCEPT ![t] = c][s] # None <=> Distance(h, s) < n + 1
  <2>1. Distance(h, s) \in Nat
    BY DistanceType DEF Slots
  <2>2. q[s] # None <=> Distance(h, s) < n
    BY DEF RingWellFormed
  <2>3. CASE s = t
    BY <2>3, <1>1, DispatcherAssumptions
  <2>4. CASE s # t
    BY <2>4, <2>1, <2>2, <1>1
  <2>. QED  BY <2>3, <2>4
<1>. QED  BY <1>1, <1>2 DEF RingWellFormed

\* Dequeueing keeps a ring well formed, and the head slot of a ring that is not
\* empty is occupied.
LEMMA RingDequeue ==
  ASSUME NEW q \in [Slots -> ConnectionOrNone], NEW h \in Slots,
         NEW n \in 1 .. Capacity,
         RingWellFormed(q, h, n)
  PROVE  /\ q[h] # None
         /\ RingWellFormed([q EXCEPT ![h] = None], (h + 1) % Capacity, n - 1)
<1>1. PICK t \in Slots :
        /\ t = (h + 1) % Capacity
        /\ \A s \in Slots : s # h => Distance(t, s) = Distance(h, s) - 1
        /\ Distance(t, h) = Capacity - 1
  BY NextHead
<1>2. Distance(h, h) = 0
  BY DispatcherAssumptions DEF Distance, Slots
<1>3. q[h] # None
  BY <1>2 DEF RingWellFormed
<1>4. ASSUME NEW s \in Slots
      PROVE  [q EXCEPT ![h] = None][s] # None <=> Distance(t, s) < n - 1
  <2>1. Distance(h, s) \in Nat
    BY DistanceType DEF Slots
  <2>2. q[s] # None <=> Distance(h, s) < n
    BY DEF RingWellFormed
  <2>3. CASE s = h
    BY <2>3, <1>1, DispatcherAssumptions
  <2>4. CASE s # h
    BY <2>4, <2>1, <2>2, <1>1
  <2>. QED  BY <2>3, <2>4
<1>. QED  BY <1>1, <1>3, <1>4 DEF RingWellFormed

\* A cleared ring.
LEMMA RingEmpty == RingWellFormed([s \in Slots |-> None], 0, 0)
<1>1. 0 \in Slots
  BY DispatcherAssumptions DEF Slots
<1>2. \A s \in Slots : Distance(0, s) \in Slots
  BY <1>1, DistanceType
<1>. QED  BY <1>2, DispatcherAssumptions DEF RingWellFormed, Slots

\* A set of slots has a first one.
LEMMA LeastElement ==
  ASSUME NEW S \in SUBSET Nat, S # {}
  PROVE  \E s \in S : \A t \in S : s <= t
<1>. DEFINE R == OpToRel(<, Nat)
<1>1. IsWellFoundedOn(R, Nat)
  BY NatLessThanWellFounded
<1>2. \E s \in S : \A t \in S : ~(<<t, s>> \in R)
  <2>. HIDE DEF R
  <2>. QED  BY <1>1, WFMin
<1>3. \A s, t \in Nat : ~(<<t, s>> \in R) => s <= t
  BY DEF OpToRel
<1>. HIDE DEF R
<1>. QED  BY <1>2, <1>3

-----------------------------------------------------------------------------
\* Counting occupied slots.

\* There are Capacity slots.
LEMMA SlotsFinite == IsFiniteSet(Slots) /\ Cardinality(Slots) = Capacity
<1>1. IsFiniteSet(0 .. Capacity - 1)
      /\ Cardinality(0 .. Capacity - 1) =
           IF 0 > Capacity - 1 THEN 0 ELSE Capacity - 1 - 0 + 1
  BY FS_Interval, DispatcherAssumptions
<1>. QED  BY <1>1, DispatcherAssumptions DEF Slots

\* The occupied slots of an admission table are a finite set.
LEMMA OccupiedFinite ==
  ASSUME NEW q \in [Slots -> ConnectionOrNone]
  PROVE  /\ IsFiniteSet(Occupied(q))
         /\ Cardinality(Occupied(q)) \in 0 .. Capacity
         /\ Cardinality(Occupied(q)) = Capacity => Occupied(q) = Slots
<1>1. Occupied(q) \subseteq Slots
  BY DEF Occupied
<1>2. /\ IsFiniteSet(Occupied(q))
      /\ Cardinality(Occupied(q)) <= Cardinality(Slots)
      /\ Cardinality(Occupied(q)) = Cardinality(Slots) => Occupied(q) = Slots
  BY <1>1, SlotsFinite, FS_Subset
<1>3. Cardinality(Occupied(q)) \in Nat
  BY <1>2, FS_CardinalityType
<1>. QED  BY <1>2, <1>3, SlotsFinite, DispatcherAssumptions

\* Filling a free slot makes one more of them occupied.
LEMMA OccupySlot ==
  ASSUME NEW q \in [Slots -> ConnectionOrNone], NEW s \in Slots, q[s] = None,
         NEW c \in Connections
  PROVE  Cardinality(Occupied([q EXCEPT ![s] = c])) = Cardinality(Occupied(q)) + 1
<1>1. Occupied([q EXCEPT ![s] = c]) = Occupied(q) \cup {s} /\ s \notin Occupied(q)
  BY DispatcherAssumptions DEF Occupied
<1>. QED  BY <1>1, OccupiedFinite, FS_AddElement

\* Emptying an occupied slot makes one less of them occupied.
LEMMA ReleaseSlot ==
  ASSUME NEW q \in [Slots -> ConnectionOrNone], NEW s \in Slots, q[s] # None
  PROVE  Cardinality(Occupied([q EXCEPT ![s] = None])) = Cardinality(Occupied(q)) - 1
<1>1. Occupied([q EXCEPT ![s] = None]) = Occupied(q) \ {s} /\ s \in Occupied(q)
  BY DEF Occupied
<1>. QED  BY <1>1, OccupiedFinite, FS_RemoveElement

\* An empty table has no occupied slot.
LEMMA NoneOccupied == Cardinality(Occupied([s \in Slots |-> None])) = 0
<1>1. Occupied([s \in Slots |-> None]) = {}
  BY DEF Occupied
<1>. QED  BY <1>1, FS_EmptySet

-----------------------------------------------------------------------------
\* The inductive invariant.

\* What the queues, the slots and the counters satisfy together.
QueueInv ==
  OwnedCountExact /\ RingsWellFormed /\ StoppedMeansEmpty /\ NeverTerminates

\* A thread that is inside the wait of submit() still owns its connection.
HeldWhenSubmitting ==
  \A p \in Producers : ppc[p] \in {"lock", "wait"} => held[p] \in Connections

\* Only request_stop() makes the admission thread leave its loop, and every call
\* that is past its critical section knows that stopping_ is set.
StopReasons ==
  /\ astop => stopping
  /\ apc = "exit" => stopping
  /\ \A t \in Callers :
       rpc[t] \in {"admission", "workers", "notify", "returned"} => stopping

\* QueueInv is not inductive alone: AdmissionExit empties the slots without
\* touching owned_count, which is sound only because it happens after the stop.
IInv ==
  /\ TypeOK
  /\ QueueInv
  /\ HeldWhenSubmitting
  /\ StopReasons
  /\ AdmissionHasRoom

\* The dispatcher starts with empty rings and no thread inside it.
LEMMA InitInv == Init => IInv
<1>. SUFFICES ASSUME Init PROVE IInv
  OBVIOUS
<1>1. TypeOK
  <2>. 0 \in Slots /\ 0 \in 0 .. Capacity /\ 0 \in 0 .. MaxPrefix
    BY DispatcherAssumptions DEF Slots
  <2>1. QueueTypes
    BY DEF Init, QueueTypes, ConnectionOrNone
  <2>4. ConnectionTypes
    BY DEF Init, ConnectionTypes, ConnectionOrNone
  <2>2. ProducerTypes /\ WorkerTypes
    BY DEF Init, ProducerTypes, WorkerTypes, ConnectionOrNone
  <2>3. AdmissionTypes /\ StopTypes
    BY DEF Init, AdmissionTypes, StopTypes
  <2>. QED  BY <2>1, <2>2, <2>3, <2>4 DEF TypeOK
<1>2. RingsWellFormed
  BY RingEmpty DEF Init, RingsWellFormed
<1>3. OwnedCountExact
  BY NoneOccupied DEF Init, OwnedCountExact
<1>4. StoppedMeansEmpty /\ NeverTerminates
  BY DEF Init, StoppedMeansEmpty, NeverTerminates
<1>5. HeldWhenSubmitting /\ StopReasons /\ AdmissionHasRoom
  BY DEF Init, HeldWhenSubmitting, StopReasons, AdmissionHasRoom
<1>. QED  BY <1>1, <1>2, <1>3, <1>4, <1>5 DEF IInv, QueueInv

\* A step that leaves rings, slots and counters alone keeps the queue invariant.
LEMMA QueuesUntouched ==
  ASSUME QueueInv,
         UNCHANGED <<ready_queue, ready_head, ready_count, accepted_queue,
                     accepted_head, accepted_count, owned_count, stopping,
                     admissions, inflight, terminated>>
  PROVE  QueueInv'
BY DEF QueueInv, OwnedCountExact, RingsWellFormed, RingWellFormed,
       StoppedMeansEmpty, NeverTerminates, Occupied

\* SpuriousWakeup keeps the invariant.
LEMMA SpuriousWakeupStep ==
  ASSUME IInv, SpuriousWakeup
  PROVE  IInv'
<1>. USE DEF SpuriousWakeup, vars, readyVars, acceptedVars, slotVars, producerVars,
             workerVars, loopVars, wakeVars, stopVars
<1>1. QueueTypes' /\ ConnectionTypes' /\ AdmissionTypes' /\ StopTypes'
  BY DEF IInv, TypeOK, QueueTypes, ConnectionTypes, AdmissionTypes, StopTypes
<1>2. ProducerTypes'
  BY DEF IInv, TypeOK, ProducerTypes, ConnectionOrNone
<1>3. WorkerTypes'
  BY DEF IInv, TypeOK, WorkerTypes, ConnectionOrNone
<1>4. QueueInv'
  BY QueuesUntouched DEF IInv
<1>5. HeldWhenSubmitting' /\ StopReasons' /\ AdmissionHasRoom'
  BY DEF IInv, TypeOK, ProducerTypes, AdmissionTypes, StopTypes, Callers, HeldWhenSubmitting,
         StopReasons, AdmissionHasRoom
<1>. QED  BY <1>1, <1>2, <1>3, <1>4, <1>5 DEF IInv, TypeOK

\* Create keeps the invariant.
LEMMA CreateStep ==
  ASSUME IInv, Create
  PROVE  IInv'
<1>. USE DEF Create, vars, readyVars, acceptedVars, slotVars, producerVars,
             workerVars, loopVars, wakeVars, stopVars
<1>1. QueueTypes' /\ ConnectionTypes' /\ ProducerTypes' /\ WorkerTypes'
  BY DEF IInv, TypeOK, QueueTypes, ConnectionTypes, ProducerTypes, WorkerTypes
<1>2. AdmissionTypes'
  BY DispatcherAssumptions DEF IInv, TypeOK, AdmissionTypes, Slots
<1>3. StopTypes'
  BY DispatcherAssumptions DEF IInv, TypeOK, StopTypes, Callers
<1>4. QueueInv'
  BY QueuesUntouched DEF IInv
<1>5. HeldWhenSubmitting' /\ StopReasons' /\ AdmissionHasRoom'
  BY DEF IInv, TypeOK, ProducerTypes, AdmissionTypes, StopTypes, Callers, HeldWhenSubmitting,
         StopReasons, AdmissionHasRoom
<1>. QED  BY <1>1, <1>2, <1>3, <1>4, <1>5 DEF IInv, TypeOK

\* CreateFail keeps the invariant.
LEMMA CreateFailStep ==
  ASSUME IInv, CreateFail
  PROVE  IInv'
<1>. USE DEF CreateFail, vars, readyVars, acceptedVars, slotVars, producerVars,
             workerVars, loopVars, wakeVars, stopVars
<1>1. QueueTypes' /\ ConnectionTypes' /\ ProducerTypes' /\ AdmissionTypes'
  BY DEF IInv, TypeOK, QueueTypes, ConnectionTypes, ProducerTypes, AdmissionTypes
<1>2. WorkerTypes'
  BY DEF IInv, TypeOK, WorkerTypes, ConnectionOrNone, AllWorkersWoken
<1>3. StopTypes'
  BY DispatcherAssumptions DEF IInv, TypeOK, StopTypes, Callers, AllWorkersWoken
<1>4. QueueInv'
  BY QueuesUntouched DEF IInv
<1>5. HeldWhenSubmitting' /\ StopReasons' /\ AdmissionHasRoom'
  BY DEF IInv, TypeOK, ProducerTypes, AdmissionTypes, StopTypes, Callers, HeldWhenSubmitting,
         StopReasons, AdmissionHasRoom, AllWorkersWoken
<1>. QED  BY <1>1, <1>2, <1>3, <1>4, <1>5 DEF IInv, TypeOK

\* SubmitInvalid keeps the invariant.
LEMMA SubmitInvalidStep ==
  ASSUME IInv, NEW p \in Producers, SubmitInvalid(p)
  PROVE  IInv'
<1>. USE DEF SubmitInvalid, vars, readyVars, acceptedVars, slotVars, producerVars,
             workerVars, loopVars, wakeVars, stopVars
<1>1. QueueTypes' /\ ConnectionTypes' /\ WorkerTypes' /\ AdmissionTypes' /\ StopTypes'
  BY DEF IInv, TypeOK, QueueTypes, ConnectionTypes, WorkerTypes, AdmissionTypes, StopTypes
<1>2. ProducerTypes'
  BY DEF IInv, TypeOK, ProducerTypes, ConnectionOrNone
<1>3. QueueInv'
  BY QueuesUntouched DEF IInv
<1>4. HeldWhenSubmitting' /\ StopReasons' /\ AdmissionHasRoom'
  BY DEF IInv, TypeOK, ProducerTypes, AdmissionTypes, StopTypes, Callers, HeldWhenSubmitting,
         StopReasons, AdmissionHasRoom
<1>. QED  BY <1>1, <1>2, <1>3, <1>4 DEF IInv, TypeOK

\* SubmitBegin keeps the invariant.
LEMMA SubmitBeginStep ==
  ASSUME IInv, NEW p \in Producers, NEW c \in Connections, SubmitBegin(p, c)
  PROVE  IInv'
<1>. USE DEF SubmitBegin, vars, readyVars, acceptedVars, slotVars, producerVars,
             workerVars, loopVars, wakeVars, stopVars
<1>1. QueueTypes' /\ WorkerTypes' /\ AdmissionTypes' /\ StopTypes'
  BY DEF IInv, TypeOK, QueueTypes, WorkerTypes, AdmissionTypes, StopTypes
<1>2. ConnectionTypes'
  BY DEF IInv, TypeOK, ConnectionTypes, ConnectionOrNone
<1>3. ProducerTypes'
  BY DEF IInv, TypeOK, ProducerTypes, ConnectionOrNone
<1>4. QueueInv'
  BY QueuesUntouched DEF IInv
<1>5. HeldWhenSubmitting' /\ StopReasons' /\ AdmissionHasRoom'
  BY DEF IInv, TypeOK, ProducerTypes, AdmissionTypes, StopTypes, Callers, HeldWhenSubmitting,
         StopReasons, AdmissionHasRoom
<1>. QED  BY <1>1, <1>2, <1>3, <1>4, <1>5 DEF IInv, TypeOK

\* SubmitNotify keeps the invariant.
LEMMA SubmitNotifyStep ==
  ASSUME IInv, NEW p \in Producers, SubmitNotify(p)
  PROVE  IInv'
<1>. USE DEF SubmitNotify, vars, readyVars, acceptedVars, slotVars, producerVars,
             workerVars, loopVars, wakeVars, stopVars
<1>1. QueueTypes' /\ ConnectionTypes' /\ StopTypes'
  BY DEF IInv, TypeOK, QueueTypes, ConnectionTypes, StopTypes
<1>2. ProducerTypes'
  BY DEF IInv, TypeOK, ProducerTypes, ConnectionOrNone, NotifyOneWorker
<1>3. WorkerTypes'
  BY DEF IInv, TypeOK, WorkerTypes, ConnectionOrNone, NotifyOneWorker
<1>4. AdmissionTypes'
  BY DispatcherAssumptions DEF IInv, TypeOK, AdmissionTypes, Slots, NotifyOneWorker
<1>5. QueueInv'
  BY QueuesUntouched DEF IInv
<1>6. HeldWhenSubmitting' /\ StopReasons' /\ AdmissionHasRoom'
  BY DEF IInv, TypeOK, ProducerTypes, AdmissionTypes, StopTypes, Callers, HeldWhenSubmitting,
         StopReasons, AdmissionHasRoom, NotifyOneWorker
<1>. QED  BY <1>1, <1>2, <1>3, <1>4, <1>5, <1>6 DEF IInv, TypeOK

\* Cancel keeps the invariant.
LEMMA CancelStep ==
  ASSUME IInv, NEW p \in Producers, Cancel(p)
  PROVE  IInv'
<1>. USE DEF Cancel, vars, readyVars, acceptedVars, slotVars, producerVars,
             workerVars, loopVars, wakeVars, stopVars
<1>1. QueueTypes' /\ ConnectionTypes' /\ WorkerTypes' /\ AdmissionTypes' /\ StopTypes'
  BY DEF IInv, TypeOK, QueueTypes, ConnectionTypes, WorkerTypes, AdmissionTypes, StopTypes
<1>2. ProducerTypes'
  BY DEF IInv, TypeOK, ProducerTypes, ConnectionOrNone, AllProducersWoken
<1>3. QueueInv'
  BY QueuesUntouched DEF IInv
<1>4. HeldWhenSubmitting' /\ StopReasons' /\ AdmissionHasRoom'
  BY DEF IInv, TypeOK, ProducerTypes, AdmissionTypes, StopTypes, Callers, HeldWhenSubmitting,
         StopReasons, AdmissionHasRoom, AllProducersWoken
<1>. QED  BY <1>1, <1>2, <1>3, <1>4 DEF IInv, TypeOK

\* WorkerExit keeps the invariant.
LEMMA WorkerExitStep ==
  ASSUME IInv, NEW w \in Workers, WorkerExit(w)
  PROVE  IInv'
<1>. USE DEF WorkerExit, vars, readyVars, acceptedVars, slotVars, producerVars,
             workerVars, loopVars, wakeVars, stopVars
<1>1. QueueTypes' /\ ConnectionTypes' /\ ProducerTypes' /\ AdmissionTypes' /\ StopTypes'
  BY DEF IInv, TypeOK, QueueTypes, ConnectionTypes, ProducerTypes, AdmissionTypes, StopTypes
<1>2. WorkerTypes'
  BY DEF IInv, TypeOK, WorkerTypes, ConnectionOrNone
<1>3. QueueInv'
  BY QueuesUntouched DEF IInv
<1>4. HeldWhenSubmitting' /\ StopReasons' /\ AdmissionHasRoom'
  BY DEF IInv, TypeOK, ProducerTypes, AdmissionTypes, StopTypes, Callers, HeldWhenSubmitting,
         StopReasons, AdmissionHasRoom
<1>. QED  BY <1>1, <1>2, <1>3, <1>4 DEF IInv, TypeOK

\* WorkerNotify keeps the invariant.
LEMMA WorkerNotifyStep ==
  ASSUME IInv, NEW w \in Workers, WorkerNotify(w)
  PROVE  IInv'
<1>. USE DEF WorkerNotify, vars, readyVars, acceptedVars, slotVars, producerVars,
             workerVars, loopVars, wakeVars, stopVars
<1>1. QueueTypes' /\ ConnectionTypes' /\ AdmissionTypes' /\ StopTypes'
  BY DEF IInv, TypeOK, QueueTypes, ConnectionTypes, AdmissionTypes, StopTypes
<1>2. ProducerTypes'
  BY DEF IInv, TypeOK, ProducerTypes, ConnectionOrNone, NotifyOneProducer
<1>3. WorkerTypes'
  BY DEF IInv, TypeOK, WorkerTypes, ConnectionOrNone, NotifyOneProducer
<1>4. QueueInv'
  BY QueuesUntouched DEF IInv
<1>5. HeldWhenSubmitting' /\ StopReasons' /\ AdmissionHasRoom'
  BY DEF IInv, TypeOK, ProducerTypes, AdmissionTypes, StopTypes, Callers, HeldWhenSubmitting,
         StopReasons, AdmissionHasRoom, NotifyOneProducer
<1>. QED  BY <1>1, <1>2, <1>3, <1>4, <1>5 DEF IInv, TypeOK

\* HandlerReturn keeps the invariant.
LEMMA HandlerReturnStep ==
  ASSUME IInv, NEW w \in Workers, HandlerReturn(w)
  PROVE  IInv'
<1>. USE DEF HandlerReturn, vars, readyVars, acceptedVars, slotVars, producerVars,
             workerVars, loopVars, wakeVars, stopVars
<1>1. QueueTypes' /\ ProducerTypes' /\ AdmissionTypes' /\ StopTypes'
  BY DEF IInv, TypeOK, QueueTypes, ProducerTypes, AdmissionTypes, StopTypes
<1>2. ConnectionTypes'
  BY DEF IInv, TypeOK, ConnectionTypes, ConnectionOrNone
<1>3. WorkerTypes'
  BY DEF IInv, TypeOK, WorkerTypes, ConnectionOrNone
<1>4. QueueInv'
  BY QueuesUntouched DEF IInv
<1>5. HeldWhenSubmitting' /\ StopReasons' /\ AdmissionHasRoom'
  BY DEF IInv, TypeOK, ProducerTypes, AdmissionTypes, StopTypes, Callers, HeldWhenSubmitting,
         StopReasons, AdmissionHasRoom
<1>. QED  BY <1>1, <1>2, <1>3, <1>4, <1>5 DEF IInv, TypeOK

\* AdmissionCheck keeps the invariant.
LEMMA AdmissionCheckStep ==
  ASSUME IInv, AdmissionCheck
  PROVE  IInv'
<1>. USE DEF AdmissionCheck, vars, readyVars, acceptedVars, slotVars, producerVars,
             workerVars, loopVars, wakeVars, stopVars
<1>1. ConnectionTypes' /\ ProducerTypes' /\ WorkerTypes' /\ StopTypes'
  BY DEF IInv, TypeOK, ConnectionTypes, ProducerTypes, WorkerTypes, StopTypes
<1>2. QueueTypes'
  BY DEF IInv, TypeOK, QueueTypes
<1>3. AdmissionTypes'
  BY DispatcherAssumptions DEF IInv, TypeOK, AdmissionTypes, Slots
<1>4. QueueInv'
  BY QueuesUntouched DEF IInv
<1>5. HeldWhenSubmitting' /\ StopReasons' /\ AdmissionHasRoom'
  BY DEF IInv, TypeOK, ProducerTypes, AdmissionTypes, StopTypes, Callers, HeldWhenSubmitting,
         StopReasons, AdmissionHasRoom
<1>. QED  BY <1>1, <1>2, <1>3, <1>4, <1>5 DEF IInv, TypeOK

\* DrainDone keeps the invariant.
LEMMA DrainDoneStep ==
  ASSUME IInv, DrainDone
  PROVE  IInv'
<1>. USE DEF DrainDone, vars, readyVars, acceptedVars, slotVars, producerVars,
             workerVars, loopVars, wakeVars, stopVars
<1>1. ConnectionTypes' /\ ProducerTypes' /\ WorkerTypes' /\ StopTypes'
  BY DEF IInv, TypeOK, ConnectionTypes, ProducerTypes, WorkerTypes, StopTypes
<1>2. QueueTypes'
  BY DEF IInv, TypeOK, QueueTypes
<1>3. AdmissionTypes'
  BY DispatcherAssumptions DEF IInv, TypeOK, AdmissionTypes, Slots
<1>4. QueueInv'
  BY QueuesUntouched DEF IInv
<1>5. HeldWhenSubmitting' /\ StopReasons' /\ AdmissionHasRoom'
  BY DEF IInv, TypeOK, ProducerTypes, AdmissionTypes, StopTypes, Callers, HeldWhenSubmitting,
         StopReasons, AdmissionHasRoom
<1>. QED  BY <1>1, <1>2, <1>3, <1>4, <1>5 DEF IInv, TypeOK

\* PollReturn keeps the invariant.
LEMMA PollReturnStep ==
  ASSUME IInv, PollReturn
  PROVE  IInv'
<1>. USE DEF PollReturn, vars, readyVars, acceptedVars, slotVars, producerVars,
             workerVars, loopVars, wakeVars, stopVars
<1>1. QueueTypes' /\ ConnectionTypes' /\ ProducerTypes' /\ WorkerTypes' /\ StopTypes'
  BY DEF IInv, TypeOK, QueueTypes, ConnectionTypes, ProducerTypes, WorkerTypes, StopTypes
<1>2. AdmissionTypes'
  <2>1. events' \subseteq Slots
    BY DEF Occupied
  <2>2. cursor' \in 0 .. Capacity
    BY DispatcherAssumptions
  <2>. QED  BY <2>1, <2>2 DEF IInv, TypeOK, AdmissionTypes
<1>3. QueueInv'
  BY QueuesUntouched DEF IInv
<1>4. HeldWhenSubmitting' /\ StopReasons' /\ AdmissionHasRoom'
  BY DEF IInv, TypeOK, ProducerTypes, AdmissionTypes, StopTypes, Callers, HeldWhenSubmitting,
         StopReasons, AdmissionHasRoom, Occupied
<1>. QED  BY <1>1, <1>2, <1>3, <1>4 DEF IInv, TypeOK

\* PollFail keeps the invariant.
LEMMA PollFailStep ==
  ASSUME IInv, PollFail
  PROVE  IInv'
<1>. USE DEF PollFail, vars, readyVars, acceptedVars, slotVars, producerVars,
             workerVars, loopVars, wakeVars, stopVars
<1>1. QueueTypes' /\ ConnectionTypes' /\ ProducerTypes' /\ WorkerTypes' /\ StopTypes'
  BY DEF IInv, TypeOK, QueueTypes, ConnectionTypes, ProducerTypes, WorkerTypes, StopTypes
<1>2. AdmissionTypes'
  BY DispatcherAssumptions DEF IInv, TypeOK, AdmissionTypes, Slots
<1>3. QueueInv'
  BY QueuesUntouched DEF IInv
<1>4. HeldWhenSubmitting' /\ StopReasons' /\ AdmissionHasRoom'
  BY DEF IInv, TypeOK, ProducerTypes, AdmissionTypes, StopTypes, Callers, HeldWhenSubmitting,
         StopReasons, AdmissionHasRoom
<1>. QED  BY <1>1, <1>2, <1>3, <1>4 DEF IInv, TypeOK

\* WalkDone keeps the invariant.
LEMMA WalkDoneStep ==
  ASSUME IInv, WalkDone
  PROVE  IInv'
<1>. USE DEF WalkDone, vars, readyVars, acceptedVars, slotVars, producerVars,
             workerVars, loopVars, wakeVars, stopVars
<1>1. QueueTypes' /\ ConnectionTypes' /\ ProducerTypes' /\ WorkerTypes' /\ StopTypes'
  BY DEF IInv, TypeOK, QueueTypes, ConnectionTypes, ProducerTypes, WorkerTypes, StopTypes
<1>2. AdmissionTypes'
  <2>1. events' \subseteq Slots
    BY DEF ExpiredSlots, Occupied
  <2>2. cursor' \in 0 .. Capacity
    BY DispatcherAssumptions
  <2>. QED  BY <2>1, <2>2 DEF IInv, TypeOK, AdmissionTypes
<1>3. QueueInv'
  BY QueuesUntouched DEF IInv
<1>4. HeldWhenSubmitting' /\ StopReasons' /\ AdmissionHasRoom'
  BY DEF IInv, TypeOK, ProducerTypes, AdmissionTypes, StopTypes, Callers, HeldWhenSubmitting,
         StopReasons, AdmissionHasRoom, ExpiredSlots, Occupied
<1>. QED  BY <1>1, <1>2, <1>3, <1>4 DEF IInv, TypeOK

\* PromoteNotify keeps the invariant.
LEMMA PromoteNotifyStep ==
  ASSUME IInv, PromoteNotify
  PROVE  IInv'
<1>. USE DEF PromoteNotify, vars, readyVars, acceptedVars, slotVars, producerVars,
             workerVars, loopVars, wakeVars, stopVars
<1>1. QueueTypes' /\ ConnectionTypes' /\ ProducerTypes' /\ StopTypes'
  BY DEF IInv, TypeOK, QueueTypes, ConnectionTypes, ProducerTypes, StopTypes
<1>2. WorkerTypes'
  BY DEF IInv, TypeOK, WorkerTypes, ConnectionOrNone, NotifyOneWorker
<1>3. AdmissionTypes'
  BY DispatcherAssumptions DEF IInv, TypeOK, AdmissionTypes, Slots, NotifyOneWorker
<1>4. QueueInv'
  BY QueuesUntouched DEF IInv
<1>5. HeldWhenSubmitting' /\ StopReasons' /\ AdmissionHasRoom'
  BY DEF IInv, TypeOK, ProducerTypes, AdmissionTypes, StopTypes, Callers, HeldWhenSubmitting,
         StopReasons, AdmissionHasRoom, NotifyOneWorker
<1>. QED  BY <1>1, <1>2, <1>3, <1>4, <1>5 DEF IInv, TypeOK

\* AdmissionThrow keeps the invariant.
LEMMA AdmissionThrowStep ==
  ASSUME IInv, AdmissionThrow
  PROVE  IInv'
<1>. USE DEF AdmissionThrow, vars, readyVars, acceptedVars, slotVars, producerVars,
             workerVars, loopVars, wakeVars, stopVars
<1>1. QueueTypes' /\ ConnectionTypes' /\ ProducerTypes' /\ WorkerTypes'
  BY DEF IInv, TypeOK, QueueTypes, ConnectionTypes, ProducerTypes, WorkerTypes
<1>2. AdmissionTypes'
  BY DispatcherAssumptions DEF IInv, TypeOK, AdmissionTypes, Slots
<1>3. StopTypes'
  BY DispatcherAssumptions DEF IInv, TypeOK, StopTypes, Callers
<1>4. QueueInv'
  BY QueuesUntouched DEF IInv
<1>5. HeldWhenSubmitting' /\ StopReasons' /\ AdmissionHasRoom'
  BY DEF IInv, TypeOK, ProducerTypes, AdmissionTypes, StopTypes, Callers, HeldWhenSubmitting,
         StopReasons, AdmissionHasRoom
<1>. QED  BY <1>1, <1>2, <1>3, <1>4, <1>5 DEF IInv, TypeOK

\* StopCall keeps the invariant.
LEMMA StopCallStep ==
  ASSUME IInv, NEW t \in Stoppers, StopCall(t)
  PROVE  IInv'
<1>. USE DEF StopCall, vars, readyVars, acceptedVars, slotVars, producerVars,
             workerVars, loopVars, wakeVars, stopVars
<1>1. QueueTypes' /\ ConnectionTypes' /\ ProducerTypes' /\ WorkerTypes' /\ AdmissionTypes'
  BY DEF IInv, TypeOK, QueueTypes, ConnectionTypes, ProducerTypes, WorkerTypes, AdmissionTypes
<1>2. StopTypes'
  BY DispatcherAssumptions DEF IInv, TypeOK, StopTypes, Callers
<1>3. QueueInv'
  BY QueuesUntouched DEF IInv
<1>4. HeldWhenSubmitting' /\ StopReasons' /\ AdmissionHasRoom'
  BY DEF IInv, TypeOK, ProducerTypes, AdmissionTypes, StopTypes, Callers, HeldWhenSubmitting,
         StopReasons, AdmissionHasRoom
<1>. QED  BY <1>1, <1>2, <1>3, <1>4 DEF IInv, TypeOK

\* StopAdmission keeps the invariant.
LEMMA StopAdmissionStep ==
  ASSUME IInv, NEW t \in Callers, StopAdmission(t)
  PROVE  IInv'
<1>. USE DEF StopAdmission, vars, readyVars, acceptedVars, slotVars, producerVars,
             workerVars, loopVars, wakeVars, stopVars
<1>1. QueueTypes' /\ ConnectionTypes' /\ ProducerTypes' /\ WorkerTypes'
  BY DEF IInv, TypeOK, QueueTypes, ConnectionTypes, ProducerTypes, WorkerTypes
<1>2. AdmissionTypes'
  BY DispatcherAssumptions DEF IInv, TypeOK, AdmissionTypes, Slots
<1>3. StopTypes'
  BY DispatcherAssumptions DEF IInv, TypeOK, StopTypes, Callers
<1>4. QueueInv'
  BY QueuesUntouched DEF IInv
<1>5. HeldWhenSubmitting' /\ StopReasons' /\ AdmissionHasRoom'
  BY DEF IInv, TypeOK, ProducerTypes, AdmissionTypes, StopTypes, Callers, HeldWhenSubmitting,
         StopReasons, AdmissionHasRoom
<1>. QED  BY <1>1, <1>2, <1>3, <1>4, <1>5 DEF IInv, TypeOK

\* StopWorkers keeps the invariant.
LEMMA StopWorkersStep ==
  ASSUME IInv, NEW t \in Callers, StopWorkers(t)
  PROVE  IInv'
<1>. USE DEF StopWorkers, vars, readyVars, acceptedVars, slotVars, producerVars,
             workerVars, loopVars, wakeVars, stopVars
<1>1. QueueTypes' /\ ConnectionTypes' /\ ProducerTypes' /\ AdmissionTypes'
  BY DEF IInv, TypeOK, QueueTypes, ConnectionTypes, ProducerTypes, AdmissionTypes
<1>2. WorkerTypes'
  BY DEF IInv, TypeOK, WorkerTypes, ConnectionOrNone, AllWorkersWoken
<1>3. StopTypes'
  BY DispatcherAssumptions DEF IInv, TypeOK, StopTypes, Callers, AllWorkersWoken
<1>4. QueueInv'
  BY QueuesUntouched DEF IInv
<1>5. HeldWhenSubmitting' /\ StopReasons' /\ AdmissionHasRoom'
  BY DEF IInv, TypeOK, ProducerTypes, AdmissionTypes, StopTypes, Callers, HeldWhenSubmitting,
         StopReasons, AdmissionHasRoom, AllWorkersWoken
<1>. QED  BY <1>1, <1>2, <1>3, <1>4, <1>5 DEF IInv, TypeOK

\* StopNotify keeps the invariant.
LEMMA StopNotifyStep ==
  ASSUME IInv, NEW t \in Callers, StopNotify(t)
  PROVE  IInv'
<1>. USE DEF StopNotify, vars, readyVars, acceptedVars, slotVars, producerVars,
             workerVars, loopVars, wakeVars, stopVars
<1>1. QueueTypes' /\ ConnectionTypes' /\ AdmissionTypes'
  BY DEF IInv, TypeOK, QueueTypes, ConnectionTypes, AdmissionTypes
<1>2. ProducerTypes'
  BY DEF IInv, TypeOK, ProducerTypes, ConnectionOrNone, AllWorkersWoken, AllProducersWoken
<1>3. WorkerTypes'
  BY DEF IInv, TypeOK, WorkerTypes, ConnectionOrNone, AllWorkersWoken, AllProducersWoken
<1>4. StopTypes'
  BY DispatcherAssumptions DEF IInv, TypeOK, StopTypes, Callers, AllWorkersWoken, AllProducersWoken
<1>5. QueueInv'
  BY QueuesUntouched DEF IInv
<1>6. HeldWhenSubmitting' /\ StopReasons' /\ AdmissionHasRoom'
  BY DEF IInv, TypeOK, ProducerTypes, AdmissionTypes, StopTypes, Callers, HeldWhenSubmitting,
         StopReasons, AdmissionHasRoom, AllWorkersWoken, AllProducersWoken
<1>. QED  BY <1>1, <1>2, <1>3, <1>4, <1>5, <1>6 DEF IInv, TypeOK

\* DestroyBegin keeps the invariant.
LEMMA DestroyBeginStep ==
  ASSUME IInv, DestroyBegin
  PROVE  IInv'
<1>. USE DEF DestroyBegin, vars, readyVars, acceptedVars, slotVars, producerVars,
             workerVars, loopVars, wakeVars, stopVars
<1>1. QueueTypes' /\ ConnectionTypes' /\ ProducerTypes' /\ WorkerTypes' /\ AdmissionTypes'
  BY DEF IInv, TypeOK, QueueTypes, ConnectionTypes, ProducerTypes, WorkerTypes, AdmissionTypes
<1>2. StopTypes'
  BY DispatcherAssumptions DEF IInv, TypeOK, StopTypes, Callers
<1>3. QueueInv'
  BY QueuesUntouched DEF IInv
<1>4. HeldWhenSubmitting' /\ StopReasons' /\ AdmissionHasRoom'
  BY DEF IInv, TypeOK, ProducerTypes, AdmissionTypes, StopTypes, Callers, HeldWhenSubmitting,
         StopReasons, AdmissionHasRoom
<1>. QED  BY <1>1, <1>2, <1>3, <1>4 DEF IInv, TypeOK

\* DestroyJoinAdmission keeps the invariant.
LEMMA DestroyJoinAdmissionStep ==
  ASSUME IInv, DestroyJoinAdmission
  PROVE  IInv'
<1>. USE DEF DestroyJoinAdmission, vars, readyVars, acceptedVars, slotVars, producerVars,
             workerVars, loopVars, wakeVars, stopVars
<1>1. QueueTypes' /\ ConnectionTypes' /\ ProducerTypes' /\ AdmissionTypes'
  BY DEF IInv, TypeOK, QueueTypes, ConnectionTypes, ProducerTypes, AdmissionTypes
<1>2. WorkerTypes'
  BY DEF IInv, TypeOK, WorkerTypes, ConnectionOrNone, AllWorkersWoken
<1>3. StopTypes'
  BY DispatcherAssumptions DEF IInv, TypeOK, StopTypes, Callers, AllWorkersWoken
<1>4. QueueInv'
  BY QueuesUntouched DEF IInv
<1>5. HeldWhenSubmitting' /\ StopReasons' /\ AdmissionHasRoom'
  BY DEF IInv, TypeOK, ProducerTypes, AdmissionTypes, StopTypes, Callers, HeldWhenSubmitting,
         StopReasons, AdmissionHasRoom, AllWorkersWoken
<1>. QED  BY <1>1, <1>2, <1>3, <1>4, <1>5 DEF IInv, TypeOK

\* DestroyJoinWorkers keeps the invariant.
LEMMA DestroyJoinWorkersStep ==
  ASSUME IInv, DestroyJoinWorkers
  PROVE  IInv'
<1>. USE DEF DestroyJoinWorkers, vars, readyVars, acceptedVars, slotVars, producerVars,
             workerVars, loopVars, wakeVars, stopVars
<1>1. QueueTypes' /\ ConnectionTypes' /\ ProducerTypes' /\ WorkerTypes' /\ AdmissionTypes'
  BY DEF IInv, TypeOK, QueueTypes, ConnectionTypes, ProducerTypes, WorkerTypes, AdmissionTypes
<1>2. StopTypes'
  BY DispatcherAssumptions DEF IInv, TypeOK, StopTypes, Callers
<1>3. QueueInv'
  BY QueuesUntouched DEF IInv
<1>4. HeldWhenSubmitting' /\ StopReasons' /\ AdmissionHasRoom'
  BY DEF IInv, TypeOK, ProducerTypes, AdmissionTypes, StopTypes, Callers, HeldWhenSubmitting,
         StopReasons, AdmissionHasRoom
<1>. QED  BY <1>1, <1>2, <1>3, <1>4 DEF IInv, TypeOK

\* TimeoutPasses keeps the invariant.
LEMMA TimeoutPassesStep ==
  ASSUME IInv, NEW c \in Connections, TimeoutPasses(c)
  PROVE  IInv'
<1>. USE DEF TimeoutPasses, vars, readyVars, acceptedVars, slotVars, producerVars,
             workerVars, loopVars, wakeVars, stopVars
<1>1. QueueTypes' /\ ProducerTypes' /\ WorkerTypes' /\ AdmissionTypes' /\ StopTypes'
  BY DEF IInv, TypeOK, QueueTypes, ProducerTypes, WorkerTypes, AdmissionTypes, StopTypes
<1>2. ConnectionTypes'
  BY DEF IInv, TypeOK, ConnectionTypes, ConnectionOrNone, Ring
<1>3. QueueInv'
  BY QueuesUntouched DEF IInv
<1>4. HeldWhenSubmitting' /\ StopReasons' /\ AdmissionHasRoom'
  BY DEF IInv, TypeOK, ProducerTypes, AdmissionTypes, StopTypes, Callers, HeldWhenSubmitting,
         StopReasons, AdmissionHasRoom, Ring
<1>. QED  BY <1>1, <1>2, <1>3, <1>4 DEF IInv, TypeOK

\* The steps that move connections.

\* While the dispatcher runs, no stage holds more than owned_count connections.
LEMMA StageBounds ==
  ASSUME IInv, ~stopping
  PROVE  /\ Cardinality(Occupied(admissions)) \in 0 .. Capacity
         /\ ready_count <= owned_count /\ accepted_count <= owned_count
         /\ inflight # None => ready_count < owned_count
         /\ accepted_count > 0 => Cardinality(Occupied(admissions)) < Capacity
<1>1. Cardinality(Occupied(admissions)) \in 0 .. Capacity
  BY OccupiedFinite DEF IInv, TypeOK, ConnectionTypes
<1>. QED  BY <1>1, DispatcherAssumptions
          DEF IInv, TypeOK, QueueTypes, QueueInv, OwnedCountExact

\* enqueue_ready() below the capacity keeps the ready ring well formed.
LEMMA ReadyEnqueued ==
  ASSUME IInv, NEW c \in Connections, EnqueueReady(c), ready_count < Capacity
  PROVE  /\ ready_queue' \in [Slots -> ConnectionOrNone]
         /\ ready_head' \in Slots /\ ready_count' \in 0 .. Capacity
         /\ RingWellFormed(ready_queue, ready_head, ready_count)'
<1>1. /\ ready_queue \in [Slots -> ConnectionOrNone] /\ ready_head \in Slots
      /\ ready_count \in 0 .. Capacity - 1
      /\ RingWellFormed(ready_queue, ready_head, ready_count)
  BY DispatcherAssumptions DEF IInv, TypeOK, QueueTypes, QueueInv, RingsWellFormed
<1>2. ready_queue' = [ready_queue EXCEPT ![(ready_head + ready_count) % Capacity] = c]
      /\ ready_head' = ready_head /\ ready_count' = ready_count + 1
  BY DEF EnqueueReady
<1>3. RingWellFormed(ready_queue', ready_head, ready_count + 1)
  BY <1>1, <1>2, RingEnqueue
<1>4. RingWellFormed(ready_queue, ready_head, ready_count)'
  BY <1>2, <1>3 DEF RingWellFormed
<1>5. ready_queue' \in [Slots -> ConnectionOrNone]
  BY <1>1, <1>2 DEF ConnectionOrNone
<1>. QED  BY <1>1, <1>2, <1>4, <1>5, DispatcherAssumptions

\* The admission branch of submit() keeps the accepted ring well formed.
LEMMA AcceptedEnqueued ==
  ASSUME IInv, NEW c \in Connections, EnqueueAccepted(c), accepted_count < Capacity
  PROVE  /\ accepted_queue' \in [Slots -> ConnectionOrNone]
         /\ accepted_head' \in Slots /\ accepted_count' \in 0 .. Capacity
         /\ RingWellFormed(accepted_queue, accepted_head, accepted_count)'
<1>1. /\ accepted_queue \in [Slots -> ConnectionOrNone] /\ accepted_head \in Slots
      /\ accepted_count \in 0 .. Capacity - 1
      /\ RingWellFormed(accepted_queue, accepted_head, accepted_count)
  BY DispatcherAssumptions DEF IInv, TypeOK, QueueTypes, QueueInv, RingsWellFormed
<1>2. accepted_queue' =
        [accepted_queue EXCEPT ![(accepted_head + accepted_count) % Capacity] = c]
      /\ accepted_head' = accepted_head /\ accepted_count' = accepted_count + 1
  BY DEF EnqueueAccepted
<1>3. RingWellFormed(accepted_queue', accepted_head, accepted_count + 1)
  BY <1>1, <1>2, RingEnqueue
<1>4. RingWellFormed(accepted_queue, accepted_head, accepted_count)'
  BY <1>2, <1>3 DEF RingWellFormed
<1>5. accepted_queue' \in [Slots -> ConnectionOrNone]
  BY <1>1, <1>2 DEF ConnectionOrNone
<1>. QED  BY <1>1, <1>2, <1>4, <1>5, DispatcherAssumptions

\* SubmitLock keeps the invariant.
LEMMA SubmitLockStep ==
  ASSUME IInv, NEW p \in Producers, SubmitLock(p)
  PROVE  IInv'
<1>. USE DEF SubmitLock, readyVars, acceptedVars, slotVars, workerVars, loopVars,
             wakeVars, stopVars
<1>1. WorkerTypes' /\ AdmissionTypes' /\ StopTypes'
  BY DEF IInv, TypeOK, WorkerTypes, AdmissionTypes, StopTypes
<1>2. ConnectionTypes' /\ ProducerTypes'
  BY DEF IInv, TypeOK, ConnectionTypes, ProducerTypes, SubmitFail, SubmitEnqueue,
         ConnectionOrNone
<1>3. HeldWhenSubmitting' /\ StopReasons' /\ AdmissionHasRoom'
  BY DEF IInv, TypeOK, ProducerTypes, HeldWhenSubmitting, StopReasons,
         AdmissionHasRoom, SubmitFail, SubmitEnqueue
<1>4. QueueTypes' /\ QueueInv'
  <2>1. CASE UNCHANGED <<ready_queue, ready_head, ready_count, accepted_queue,
                         accepted_head, accepted_count, owned_count>>
    <3>1. QueueInv'
      BY <2>1, QueuesUntouched DEF IInv
    <3>. QED  BY <3>1, <2>1 DEF IInv, TypeOK, QueueTypes
  <2>2. CASE ~stopping /\ SpaceOrStop /\ SubmitEnqueue(p)
    <3>1. held[p] \in Connections
      BY DEF IInv, HeldWhenSubmitting
    <3>2. owned_count < Capacity /\ owned_count' = owned_count + 1
      BY <2>2 DEF SpaceOrStop, SubmitEnqueue
    <3>3. /\ Cardinality(Occupied(admissions)) \in 0 .. Capacity
          /\ ready_count < Capacity /\ accepted_count < Capacity
      BY <2>2, <3>2, StageBounds, DispatcherAssumptions DEF IInv, TypeOK, QueueTypes
    <3>4. CASE AdmissionEnabled
      <4>1. EnqueueAccepted(held[p]) /\ UNCHANGED readyVars
        BY <2>2, <3>4 DEF SubmitEnqueue
      <4>2. /\ accepted_queue' \in [Slots -> ConnectionOrNone]
            /\ accepted_head' \in Slots /\ accepted_count' \in 0 .. Capacity
            /\ RingWellFormed(accepted_queue, accepted_head, accepted_count)'
        BY <4>1, <3>1, <3>3, AcceptedEnqueued
      <4>3. RingsWellFormed'
        BY <4>1, <4>2 DEF IInv, QueueInv, RingsWellFormed, RingWellFormed
      <4>4. OwnedCountExact'
        BY <2>2, <4>1, <3>2, <3>3 DEF IInv, TypeOK, QueueTypes, QueueInv,
           OwnedCountExact, EnqueueAccepted, Occupied
      <4>5. owned_count' \in 0 .. Capacity
        BY <3>2, DispatcherAssumptions DEF IInv, TypeOK, QueueTypes
      <4>6. QueueTypes'
        BY <4>1, <4>2, <4>5 DEF IInv, TypeOK, QueueTypes
      <4>. QED  BY <2>2, <4>3, <4>4, <4>6
                DEF IInv, QueueInv, StoppedMeansEmpty, NeverTerminates
    <3>5. CASE ~AdmissionEnabled
      <4>1. EnqueueReady(held[p]) /\ UNCHANGED acceptedVars
        BY <2>2, <3>5 DEF SubmitEnqueue
      <4>2. /\ ready_queue' \in [Slots -> ConnectionOrNone]
            /\ ready_head' \in Slots /\ ready_count' \in 0 .. Capacity
            /\ RingWellFormed(ready_queue, ready_head, ready_count)'
        BY <4>1, <3>1, <3>3, ReadyEnqueued
      <4>3. RingsWellFormed'
        BY <4>1, <4>2 DEF IInv, QueueInv, RingsWellFormed, RingWellFormed
      <4>4. OwnedCountExact'
        BY <2>2, <4>1, <3>2, <3>3 DEF IInv, TypeOK, QueueTypes, QueueInv,
           OwnedCountExact, EnqueueReady, Occupied
      <4>5. owned_count' \in 0 .. Capacity
        BY <3>2, DispatcherAssumptions DEF IInv, TypeOK, QueueTypes
      <4>6. QueueTypes'
        BY <4>1, <4>2, <4>5 DEF IInv, TypeOK, QueueTypes
      <4>. QED  BY <2>2, <4>3, <4>4, <4>6
                DEF IInv, QueueInv, StoppedMeansEmpty, NeverTerminates
    <3>. QED  BY <3>4, <3>5
  <2>. QED  BY <2>1, <2>2 DEF SubmitFail
<1>. QED  BY <1>1, <1>2, <1>3, <1>4 DEF IInv, TypeOK

\* WorkerTake keeps the invariant.
LEMMA WorkerTakeStep ==
  ASSUME IInv, NEW w \in Workers, WorkerTake(w)
  PROVE  IInv'
<1>. USE DEF WorkerTake, readyVars, acceptedVars, slotVars, producerVars, loopVars,
             wakeVars, stopVars
<1>1. ConnectionTypes' /\ ProducerTypes' /\ AdmissionTypes' /\ StopTypes'
  BY DEF IInv, TypeOK, ConnectionTypes, ProducerTypes, AdmissionTypes, StopTypes
<1>2. HeldWhenSubmitting' /\ StopReasons' /\ AdmissionHasRoom'
  BY DEF IInv, HeldWhenSubmitting, StopReasons, AdmissionHasRoom
<1>3. WorkerTypes' /\ QueueTypes' /\ QueueInv'
  <2>1. CASE UNCHANGED <<readyVars, owned_count, serving, terminated>>
    <3>1. QueueInv'
      BY <2>1, QueuesUntouched DEF IInv
    <3>2. WorkerTypes'
      BY <2>1 DEF IInv, TypeOK, WorkerTypes
    <3>. QED  BY <3>1, <3>2, <2>1 DEF IInv, TypeOK, QueueTypes
  <2>2. CASE ~stopping /\ ready_count > 0 /\ Dequeue(w) /\ wpc' = [wpc EXCEPT ![w] = "notify"]
    <3>1. /\ ready_queue \in [Slots -> ConnectionOrNone] /\ ready_head \in Slots
          /\ ready_count \in 1 .. Capacity
          /\ RingWellFormed(ready_queue, ready_head, ready_count)
      BY <2>2, DispatcherAssumptions
      DEF IInv, TypeOK, QueueTypes, QueueInv, RingsWellFormed
    <3>2. /\ ready_queue[ready_head] # None
          /\ RingWellFormed([ready_queue EXCEPT ![ready_head] = None],
                            (ready_head + 1) % Capacity, ready_count - 1)
      BY <3>1, RingDequeue
    <3>3. RingWellFormed(ready_queue, ready_head, ready_count)'
      BY <2>2, <3>2 DEF Dequeue, RingWellFormed
    <3>4. (ready_head + 1) % Capacity \in Slots
      BY <3>1, NextHead
    <3>5. /\ Cardinality(Occupied(admissions)) \in 0 .. Capacity
          /\ owned_count >= ready_count
      BY <2>2, StageBounds DEF IInv, TypeOK, QueueTypes
    <3>6. QueueTypes'
      <4>1. ready_queue' \in [Slots -> ConnectionOrNone] /\ ready_head' \in Slots
        BY <2>2, <3>1, <3>4 DEF Dequeue, ConnectionOrNone
      <4>2. ready_count' \in 0 .. Capacity /\ owned_count' \in 0 .. Capacity
        BY <2>2, <3>1, <3>5, DispatcherAssumptions
        DEF IInv, TypeOK, QueueTypes, Dequeue
      <4>. QED  BY <2>2, <4>1, <4>2 DEF IInv, TypeOK, QueueTypes, Dequeue
    <3>7. WorkerTypes'
      BY <2>2, <3>1 DEF IInv, TypeOK, WorkerTypes, Dequeue
    <3>8. OwnedCountExact'
      BY <2>2, <3>1, <3>5
      DEF IInv, TypeOK, QueueTypes, QueueInv, OwnedCountExact, Dequeue, Occupied
    <3>9. RingsWellFormed' /\ StoppedMeansEmpty' /\ NeverTerminates'
      BY <2>2, <3>2, <3>3 DEF IInv, QueueInv, RingsWellFormed, RingWellFormed,
         StoppedMeansEmpty, NeverTerminates, Dequeue
    <3>. QED  BY <3>6, <3>7, <3>8, <3>9 DEF QueueInv
  <2>. QED  BY <2>1, <2>2
<1>. QED  BY <1>1, <1>2, <1>3 DEF IInv, TypeOK

\* DrainOne keeps the invariant.
LEMMA DrainOneStep ==
  ASSUME IInv, DrainOne
  PROVE  IInv'
<1>. USE DEF DrainOne, readyVars, acceptedVars, producerVars, workerVars, loopVars,
             wakeVars, stopVars
<1>. DEFINE slot == CHOOSE s \in FreeSlots : \A t \in FreeSlots : s <= t
            c    == accepted_queue[accepted_head]
<1>1. /\ accepted_queue \in [Slots -> ConnectionOrNone] /\ accepted_head \in Slots
      /\ accepted_count \in 1 .. Capacity
      /\ RingWellFormed(accepted_queue, accepted_head, accepted_count)
  BY DispatcherAssumptions DEF IInv, TypeOK, QueueTypes, QueueInv, RingsWellFormed
<1>2. ~stopping
  BY <1>1 DEF IInv, QueueInv, StoppedMeansEmpty
<1>3. admissions \in [Slots -> ConnectionOrNone]
      /\ Cardinality(Occupied(admissions)) \in 0 .. Capacity - 1
  BY <1>1, <1>2, StageBounds, DispatcherAssumptions DEF IInv, TypeOK, ConnectionTypes
<1>4. Occupied(admissions) # Slots
  BY <1>3, SlotsFinite, DispatcherAssumptions
<1>5. FreeSlots # {}
  BY <1>4 DEF FreeSlots, Occupied
<1>6. /\ accepted_queue[accepted_head] # None
      /\ RingWellFormed([accepted_queue EXCEPT ![accepted_head] = None],
                        (accepted_head + 1) % Capacity, accepted_count - 1)
  BY <1>1, RingDequeue
<1>7. /\ admissions' = [admissions EXCEPT ![slot] = c]
      /\ prefix' = [prefix EXCEPT ![c] = 0]
      /\ accepted_queue' = [accepted_queue EXCEPT ![accepted_head] = None]
      /\ accepted_head' = (accepted_head + 1) % Capacity
      /\ accepted_count' = accepted_count - 1
      /\ UNCHANGED terminated
  BY <1>5, <1>6
<1>8. slot \in FreeSlots
  <2>1. FreeSlots \subseteq Nat
    BY DispatcherAssumptions DEF FreeSlots, Slots
  <2>2. \E s \in FreeSlots : \A t \in FreeSlots : s <= t
    BY <1>5, <2>1, LeastElement
  <2>. QED  BY <2>2
<1>9. slot \in Slots /\ admissions[slot] = None
  BY <1>8 DEF FreeSlots
<1>10. c \in Connections
  BY <1>1, <1>6 DEF ConnectionOrNone
<1>. HIDE DEF slot, c
<1>11. ProducerTypes' /\ WorkerTypes' /\ AdmissionTypes' /\ StopTypes'
  BY DEF IInv, TypeOK, ProducerTypes, WorkerTypes, AdmissionTypes, StopTypes
<1>12. ConnectionTypes'
  <2>1. admissions' \in [Slots -> ConnectionOrNone]
    BY <1>3, <1>7, <1>10 DEF ConnectionOrNone
  <2>2. prefix' \in [Connections -> 0 .. MaxPrefix]
    <3>1. 0 \in 0 .. MaxPrefix /\ prefix \in [Connections -> 0 .. MaxPrefix]
      BY DispatcherAssumptions DEF IInv, TypeOK, ConnectionTypes
    <3>. QED  BY <1>7, <3>1
  <2>. QED  BY <2>1, <2>2 DEF IInv, TypeOK, ConnectionTypes
<1>13. QueueTypes'
  <2>1. accepted_queue' \in [Slots -> ConnectionOrNone]
    BY <1>1, <1>7 DEF ConnectionOrNone
  <2>2. accepted_head' \in Slots
    BY <1>1, <1>7, NextHead
  <2>3. accepted_count' \in 0 .. Capacity
    BY <1>1, <1>7, DispatcherAssumptions
  <2>. QED  BY <2>1, <2>2, <2>3, <1>7 DEF IInv, TypeOK, QueueTypes
<1>14. Cardinality(Occupied(admissions')) = Cardinality(Occupied(admissions)) + 1
  BY <1>3, <1>7, <1>9, <1>10, OccupySlot
<1>15. OwnedCountExact'
  <2>1. Occupied(admissions)' = Occupied(admissions')
    BY DEF Occupied
  <2>. QED  BY <2>1, <1>1, <1>2, <1>3, <1>7, <1>14
            DEF IInv, TypeOK, QueueTypes, QueueInv, OwnedCountExact
<1>16. RingsWellFormed' /\ StoppedMeansEmpty' /\ NeverTerminates'
  BY <1>2, <1>6, <1>7 DEF IInv, QueueInv, RingsWellFormed, RingWellFormed,
     StoppedMeansEmpty, NeverTerminates
<1>17. HeldWhenSubmitting' /\ StopReasons'
  BY DEF IInv, HeldWhenSubmitting, StopReasons
<1>18. AdmissionHasRoom'
  BY <1>3, <1>7, <1>10, DispatcherAssumptions
  DEF IInv, TypeOK, ConnectionTypes, ConnectionOrNone, AdmissionHasRoom
<1>. QED  BY <1>11, <1>12, <1>13, <1>15, <1>16, <1>17, <1>18
          DEF IInv, TypeOK, QueueInv

\* MoveOut keeps the invariant.
LEMMA MoveOutStep ==
  ASSUME IInv, NEW s \in Slots, admissions[s] # None, inflight = None, MoveOut(s),
         UNCHANGED <<readyVars, acceptedVars, owned_count, stopping, fate, terminated>>
  PROVE  QueueInv' /\ ConnectionTypes' /\ AdmissionHasRoom'
<1>. USE DEF MoveOut, readyVars, acceptedVars
<1>1. admissions \in [Slots -> ConnectionOrNone] /\ admissions[s] \in Connections
  BY DEF IInv, TypeOK, ConnectionTypes, ConnectionOrNone
<1>2. 0 \in 0 .. MaxPrefix /\ 0 < MaxPrefix
  BY DispatcherAssumptions
<1>3. ConnectionTypes'
  BY <1>1, <1>2 DEF IInv, TypeOK, ConnectionTypes, ConnectionOrNone
<1>4. Cardinality(Occupied(admissions')) = Cardinality(Occupied(admissions)) - 1
  BY <1>1, ReleaseSlot
<1>5. Cardinality(Occupied(admissions)) \in 0 .. Capacity
  BY <1>1, OccupiedFinite
<1>6. OwnedCountExact'
  <2>1. Occupied(admissions)' = Occupied(admissions')
    BY DEF Occupied
  <2>2. inflight' # None
    BY <1>1, DispatcherAssumptions
  <2>. QED  BY <2>1, <2>2, <1>4, <1>5
            DEF IInv, TypeOK, QueueTypes, QueueInv, OwnedCountExact
<1>7. RingsWellFormed' /\ StoppedMeansEmpty' /\ NeverTerminates'
  BY DEF IInv, QueueInv, RingsWellFormed, RingWellFormed, StoppedMeansEmpty,
         NeverTerminates
<1>8. AdmissionHasRoom'
  BY <1>1, <1>2 DEF IInv, TypeOK, ConnectionTypes, ConnectionOrNone, AdmissionHasRoom
<1>. QED  BY <1>3, <1>6, <1>7, <1>8 DEF QueueInv

\* Inspect keeps the invariant.
LEMMA InspectStep ==
  ASSUME IInv, Inspect
  PROVE  IInv'
<1>. USE DEF Inspect, readyVars, acceptedVars, slotVars, producerVars, workerVars,
             wakeVars, stopVars
<1>1. QueueTypes' /\ ProducerTypes' /\ WorkerTypes' /\ StopTypes'
  BY DEF IInv, TypeOK, QueueTypes, ProducerTypes, WorkerTypes, StopTypes
<1>2. AdmissionTypes'
  BY DispatcherAssumptions DEF IInv, TypeOK, AdmissionTypes, Slots
<1>3. HeldWhenSubmitting' /\ StopReasons'
  BY DEF IInv, HeldWhenSubmitting, StopReasons
<1>4. QueueInv' /\ ConnectionTypes' /\ AdmissionHasRoom'
  <2>1. CASE admissions[cursor] # None /\ MoveOut(cursor)
    BY <2>1, MoveOutStep
  <2>2. CASE /\ admissions[cursor] # None
             /\ \E n \in 1 .. MaxPrefix - prefix[admissions[cursor]] :
                  /\ PrefixHasRoom(prefix[admissions[cursor]] + n)
                  /\ prefix' = [prefix EXCEPT ![admissions[cursor]] = @ + n]
             /\ UNCHANGED <<admissions, inflight, expired>>
    <3>1. QueueInv'
      BY <2>2, QueuesUntouched DEF IInv
    <3>2. admissions[cursor] \in Connections
      BY <2>2 DEF IInv, TypeOK, ConnectionTypes, ConnectionOrNone
    <3>3. PICK n \in 1 .. MaxPrefix - prefix[admissions[cursor]] :
            /\ prefix[admissions[cursor]] + n < MaxPrefix
            /\ prefix' = [prefix EXCEPT ![admissions[cursor]] = @ + n]
      BY <2>2 DEF PrefixHasRoom
    <3>4. prefix \in [Connections -> 0 .. MaxPrefix]
      BY DEF IInv, TypeOK, ConnectionTypes
    <3>5. prefix[admissions[cursor]] + n \in 0 .. MaxPrefix
      BY <3>2, <3>3, <3>4, DispatcherAssumptions
    <3>6. prefix' \in [Connections -> 0 .. MaxPrefix]
      BY <3>3, <3>4, <3>5
    <3>7. AdmissionHasRoom'
      BY <2>2, <3>2, <3>3, <3>4
      DEF IInv, TypeOK, ConnectionTypes, ConnectionOrNone, AdmissionHasRoom
    <3>. QED  BY <2>2, <3>1, <3>6, <3>7 DEF IInv, TypeOK, ConnectionTypes
  <2>3. CASE UNCHANGED <<slotVars, expired>>
    <3>1. QueueInv'
      BY <2>3, QueuesUntouched DEF IInv
    <3>. QED  BY <2>3, <3>1 DEF IInv, TypeOK, ConnectionTypes, AdmissionHasRoom
  <2>. QED  BY <2>1, <2>2, <2>3
<1>. QED  BY <1>1, <1>2, <1>3, <1>4 DEF IInv, TypeOK

\* Sweep keeps the invariant.
LEMMA SweepStep ==
  ASSUME IInv, Sweep
  PROVE  IInv'
<1>. USE DEF Sweep, readyVars, acceptedVars, slotVars, producerVars, workerVars,
             wakeVars, stopVars
<1>1. QueueTypes' /\ ProducerTypes' /\ WorkerTypes' /\ StopTypes'
  BY DEF IInv, TypeOK, QueueTypes, ProducerTypes, WorkerTypes, StopTypes
<1>2. AdmissionTypes'
  BY DispatcherAssumptions DEF IInv, TypeOK, AdmissionTypes, Slots
<1>3. HeldWhenSubmitting' /\ StopReasons'
  BY DEF IInv, HeldWhenSubmitting, StopReasons
<1>4. QueueInv' /\ ConnectionTypes' /\ AdmissionHasRoom'
  <2>1. CASE admissions[cursor] # None /\ MoveOut(cursor)
    BY <2>1, MoveOutStep
  <2>2. CASE UNCHANGED <<slotVars, expired>>
    <3>1. QueueInv'
      BY <2>2, QueuesUntouched DEF IInv
    <3>. QED  BY <2>2, <3>1 DEF IInv, TypeOK, ConnectionTypes, AdmissionHasRoom
  <2>. QED  BY <2>1, <2>2
<1>. QED  BY <1>1, <1>2, <1>3, <1>4 DEF IInv, TypeOK

\* Promote keeps the invariant.
LEMMA PromoteStep ==
  ASSUME IInv, Promote
  PROVE  IInv'
<1>. USE DEF Promote, acceptedVars, producerVars, workerVars, wakeVars, stopVars
<1>1. ProducerTypes' /\ WorkerTypes' /\ StopTypes'
  BY DEF IInv, TypeOK, ProducerTypes, WorkerTypes, StopTypes
<1>2. AdmissionTypes'
  BY DEF IInv, TypeOK, AdmissionTypes
<1>3. ConnectionTypes' /\ AdmissionHasRoom'
  BY DEF IInv, TypeOK, ConnectionTypes, ConnectionOrNone, AdmissionHasRoom
<1>4. HeldWhenSubmitting' /\ StopReasons'
  BY DEF IInv, TypeOK, AdmissionTypes, HeldWhenSubmitting, StopReasons
<1>5. QueueTypes' /\ QueueInv'
  <2>1. CASE stopping
    BY <2>1 DEF IInv, TypeOK, QueueTypes, QueueInv, OwnedCountExact, RingsWellFormed,
       RingWellFormed, StoppedMeansEmpty, NeverTerminates, readyVars
  <2>2. CASE ~stopping
    <3>1. inflight \in Connections
      BY DEF IInv, TypeOK, ConnectionTypes, ConnectionOrNone
    <3>2. /\ ready_count < Capacity
          /\ Cardinality(Occupied(admissions)) \in 0 .. Capacity
      BY <2>2, StageBounds, DispatcherAssumptions DEF IInv, TypeOK, QueueTypes
    <3>3. EnqueueReady(inflight)
      BY <2>2
    <3>4. /\ ready_queue' \in [Slots -> ConnectionOrNone]
          /\ ready_head' \in Slots /\ ready_count' \in 0 .. Capacity
          /\ RingWellFormed(ready_queue, ready_head, ready_count)'
      BY <3>1, <3>2, <3>3, ReadyEnqueued
    <3>5. OwnedCountExact'
      BY <2>2, <3>2, <3>3 DEF IInv, TypeOK, QueueTypes, QueueInv, OwnedCountExact,
         EnqueueReady, Occupied
    <3>6. RingsWellFormed' /\ StoppedMeansEmpty' /\ NeverTerminates'
      BY <2>2, <3>4 DEF IInv, QueueInv, RingsWellFormed, RingWellFormed,
         StoppedMeansEmpty, NeverTerminates
    <3>. QED  BY <3>4, <3>5, <3>6 DEF IInv, TypeOK, QueueTypes, QueueInv
  <2>. QED  BY <2>1, <2>2
<1>. QED  BY <1>1, <1>2, <1>3, <1>4, <1>5 DEF IInv, TypeOK

\* AdmissionExit keeps the invariant.
LEMMA AdmissionExitStep ==
  ASSUME IInv, AdmissionExit
  PROVE  IInv'
<1>. USE DEF AdmissionExit, readyVars, acceptedVars, producerVars, workerVars,
             wakeVars, stopVars
<1>1. stopping
  BY DEF IInv, StopReasons, Callers
<1>2. QueueTypes' /\ ProducerTypes' /\ WorkerTypes' /\ StopTypes'
  BY DEF IInv, TypeOK, QueueTypes, ProducerTypes, WorkerTypes, StopTypes
<1>3. AdmissionTypes'
  BY DEF IInv, TypeOK, AdmissionTypes
<1>4. ConnectionTypes' /\ AdmissionHasRoom'
  <2>1. 0 \in 0 .. MaxPrefix
    BY DispatcherAssumptions
  <2>. QED  BY <2>1 DEF IInv, TypeOK, ConnectionTypes, ConnectionOrNone, AdmissionHasRoom
<1>5. HeldWhenSubmitting' /\ StopReasons'
  BY <1>1 DEF IInv, HeldWhenSubmitting, StopReasons
<1>6. QueueInv'
  BY <1>1 DEF IInv, QueueInv, OwnedCountExact, RingsWellFormed, RingWellFormed,
     StoppedMeansEmpty, NeverTerminates
<1>. QED  BY <1>2, <1>3, <1>4, <1>5, <1>6 DEF IInv, TypeOK

\* StopLock keeps the invariant.
LEMMA StopLockStep ==
  ASSUME IInv, NEW t \in Callers, StopLock(t)
  PROVE  IInv'
<1>. USE DEF StopLock, readyVars, acceptedVars, slotVars, producerVars, workerVars,
             loopVars, wakeVars
<1>1. ProducerTypes' /\ WorkerTypes' /\ AdmissionTypes'
  BY DEF IInv, TypeOK, ProducerTypes, WorkerTypes, AdmissionTypes
<1>2. ConnectionTypes' /\ StopTypes' /\ AdmissionHasRoom'
  BY DEF IInv, TypeOK, ConnectionTypes, StopTypes, AdmissionHasRoom
<1>3. HeldWhenSubmitting' /\ StopReasons'
  BY DEF IInv, TypeOK, StopTypes, HeldWhenSubmitting, StopReasons
<1>4. CASE stopping
  <2>1. QueueInv'
    BY <1>4, QueuesUntouched DEF IInv
  <2>. QED  BY <1>1, <1>2, <1>3, <1>4, <2>1 DEF IInv, TypeOK, QueueTypes
<1>5. CASE ~stopping
  <2>1. /\ 0 \in Slots /\ 0 \in 0 .. Capacity
        /\ [s \in Slots |-> None] \in [Slots -> ConnectionOrNone]
    BY DispatcherAssumptions DEF Slots, ConnectionOrNone
  <2>2. QueueTypes'
    BY <1>5, <2>1 DEF IInv, TypeOK, QueueTypes
  <2>3. RingsWellFormed'
    BY <1>5, RingEmpty DEF RingsWellFormed, RingWellFormed
  <2>4. OwnedCountExact' /\ StoppedMeansEmpty' /\ NeverTerminates'
    BY <1>5 DEF IInv, QueueInv, OwnedCountExact, StoppedMeansEmpty, NeverTerminates
  <2>. QED  BY <1>1, <1>2, <1>3, <2>2, <2>3, <2>4 DEF IInv, TypeOK, QueueInv
<1>. QED  BY <1>4, <1>5

\* Stutter keeps the invariant.
LEMMA StutterStep ==
  ASSUME IInv, UNCHANGED vars
  PROVE  IInv'
<1>. USE DEF vars, readyVars, acceptedVars, slotVars, producerVars, workerVars,
             loopVars, wakeVars, stopVars
<1>1. QueueInv'
  BY QueuesUntouched DEF IInv
<1>2. QueueTypes' /\ ConnectionTypes' /\ ProducerTypes'
  BY DEF IInv, TypeOK, QueueTypes, ConnectionTypes, ProducerTypes
<1>3. WorkerTypes' /\ AdmissionTypes' /\ StopTypes'
  BY DEF IInv, TypeOK, WorkerTypes, AdmissionTypes, StopTypes
<1>4. HeldWhenSubmitting' /\ StopReasons' /\ AdmissionHasRoom'
  BY DEF IInv, HeldWhenSubmitting, StopReasons, AdmissionHasRoom
<1>. QED  BY <1>1, <1>2, <1>3, <1>4 DEF IInv, TypeOK

\* Every step of every thread keeps the inductive invariant.
LEMMA NextInv == IInv /\ [Next]_vars => IInv'
<1>. SUFFICES ASSUME IInv, [Next]_vars PROVE IInv'
  OBVIOUS
<1>1. CASE ClientNext
  BY <1>1, CreateStep, CreateFailStep, SubmitInvalidStep, SubmitBeginStep, CancelStep,
     StopCallStep, DestroyBeginStep DEF ClientNext
<1>2. CASE \E p \in Producers : ProducerNext(p)
  BY <1>2, SubmitLockStep, SubmitNotifyStep DEF ProducerNext
<1>3. CASE \E w \in Workers : WorkerNext(w)
  BY <1>3, WorkerExitStep, WorkerTakeStep, WorkerNotifyStep, HandlerReturnStep
  DEF WorkerNext
<1>4. CASE AdmissionNext
  BY <1>4, AdmissionCheckStep, DrainOneStep, DrainDoneStep, PollReturnStep,
     InspectStep, SweepStep, WalkDoneStep, PromoteStep, PromoteNotifyStep,
     AdmissionExitStep DEF AdmissionNext
<1>5. CASE PollFail \/ AdmissionThrow \/ SpuriousWakeup
  BY <1>5, PollFailStep, AdmissionThrowStep, SpuriousWakeupStep
<1>6. CASE \E t \in Callers : StopNext(t)
  BY <1>6, StopLockStep, StopAdmissionStep, StopWorkersStep, StopNotifyStep
  DEF StopNext
<1>7. CASE DestroyNext \/ \E c \in Connections : TimeoutPasses(c)
  BY <1>7, DestroyJoinAdmissionStep, DestroyJoinWorkersStep, TimeoutPassesStep
  DEF DestroyNext
<1>8. CASE UNCHANGED vars \/ Destroyed
  BY <1>8, StutterStep DEF Destroyed
<1>. QED  BY <1>1, <1>2, <1>3, <1>4, <1>5, <1>6, <1>7, <1>8 DEF Next, InternalNext

\* The inductive invariant holds in every reachable state: the types, the two rings
\* and their counters, the place of every blocked producer and the reasons to stop.
THEOREM Invariance == Spec => []IInv
<1>. QED  BY InitInv, NextInv, PTL DEF Spec

\* The variables keep the types of the code's members; no std::size_t counter of
\* the dispatcher passes the capacity or wraps below zero.
THEOREM TypeCorrect == Spec => []TypeOK
BY Invariance, PTL DEF IInv

\* The counter submit() compares with the capacity counts the connections of all stages,
\* both rings keep theirs in the slots from the head on, and a stop empties them for good.
THEOREM QueuesCorrect == Spec => []QueuesConsistent
BY Invariance, PTL DEF IInv, QueueInv, QueuesConsistent

\* The std::terminate() calls of dequeue() and drain_accepted() are unreachable.
THEOREM TerminateUnreachable == Spec => []NeverTerminates
BY Invariance, PTL DEF IInv, QueueInv

\* Admission never calls recv() on a connection whose prefix buffer is full.
THEOREM ReceiveHasRoom == Spec => []AdmissionHasRoom
BY Invariance, PTL DEF IInv

-----------------------------------------------------------------------------
(***************************************************************************)
(* No wakeup is lost, although every notify_one() is called after the mutex *)
(* was released: the two counting invariants NoWorkStranded and             *)
(* NoProducerStranded hold for every number of threads.                     *)
(***************************************************************************)

\* A set of workers has a cardinality.
LEMMA WorkersFinite ==
  ASSUME NEW S \in SUBSET Workers
  PROVE  IsFiniteSet(S) /\ Cardinality(S) \in Nat
<1>1. IsFiniteSet(S)
  BY DispatcherAssumptions, FS_Subset
<1>. QED  BY <1>1, FS_CardinalityType

\* A set of producers has a cardinality.
LEMMA ProducersFinite ==
  ASSUME NEW S \in SUBSET Producers
  PROVE  IsFiniteSet(S) /\ Cardinality(S) \in Nat
<1>1. IsFiniteSet(S)
  BY DispatcherAssumptions, FS_Subset
<1>. QED  BY <1>1, FS_CardinalityType

\* The counts a step compares are natural numbers.
LEMMA CountTypes ==
  /\ Cardinality(WorkersAt({"check", "woken"})) \in Nat
  /\ Cardinality(WorkersAt({"notify"})) \in Nat
  /\ Cardinality(ProducersAt("lock")) \in Nat
  /\ PendingNotifies \in Nat
<1>1. /\ Cardinality(WorkersAt({"check", "woken"})) \in Nat
      /\ Cardinality(WorkersAt({"notify"})) \in Nat
  BY WorkersFinite DEF WorkersAt
<1>2. Cardinality(ProducersAt("lock")) \in Nat /\ Cardinality(ProducersAt("notify")) \in Nat
  BY ProducersFinite DEF ProducersAt
<1>. QED  BY <1>1, <1>2, DispatcherAssumptions DEF PendingNotifies

\* The same for the next state.
LEMMA CountTypesPrime ==
  /\ Cardinality(WorkersAt({"check", "woken"})') \in Nat
  /\ Cardinality(WorkersAt({"notify"})') \in Nat
  /\ Cardinality(ProducersAt("lock")') \in Nat
  /\ PendingNotifies' \in Nat
<1>1. /\ Cardinality(WorkersAt({"check", "woken"})') \in Nat
      /\ Cardinality(WorkersAt({"notify"})') \in Nat
  BY WorkersFinite DEF WorkersAt
<1>2. /\ Cardinality(ProducersAt("lock")') \in Nat
      /\ Cardinality(ProducersAt("notify")') \in Nat
  BY ProducersFinite DEF ProducersAt
<1>. QED  BY <1>1, <1>2, DispatcherAssumptions DEF PendingNotifies

\* A dispatcher whose constructor has not finished, or failed, owns nothing.
NotYetLive ==
  dpc = "create" \/ (dpc \in {"join", "destroyed"} /\ ~stopping) =>
    /\ owned_count = 0 /\ apc = "done"
    /\ \A p \in Producers : ppc[p] = "idle"
    /\ \A t \in Callers : rpc[t] = "idle"

\* A worker is told to end only by request_stop() or by a constructor that failed.
StopTokens ==
  \A w \in Workers : wstop[w] => stopping \/ dpc \in {"join", "destroyed"}

\* The mutex is held across steps by drain_accepted() only.
DrainPlace == draining => apc = "drain"

WakeupInv == IInv /\ NotYetLive /\ StopTokens /\ DrainPlace

\* The life cycle facts of WakeupInv are inductive.
LEMMA LifeStep == WakeupInv /\ [Next]_vars => NotYetLive' /\ StopTokens' /\ DrainPlace'
<1>. SUFFICES ASSUME WakeupInv, [Next]_vars PROVE NotYetLive' /\ StopTokens' /\ DrainPlace'
  OBVIOUS
<1>. USE DEF readyVars, acceptedVars, slotVars, producerVars, workerVars, loopVars,
             wakeVars, stopVars
<1>. USE DEF WakeupInv, IInv, TypeOK, ProducerTypes, WorkerTypes, StopTypes, NotYetLive,
             StopTokens, DrainPlace, StopReasons, Callers
<1>1. CASE ClientNext
  BY <1>1, DispatcherAssumptions DEF ClientNext, Create, CreateFail, SubmitInvalid, SubmitBegin, Cancel, StopCall,
          DestroyBegin
<1>2. ASSUME NEW p \in Producers, ProducerNext(p) PROVE NotYetLive' /\ StopTokens' /\ DrainPlace'
  <2>1. ppc[p] # "idle" /\ UNCHANGED <<stopping, dpc, wstop, apc, draining>>
    BY <1>2 DEF ProducerNext, SubmitLock, SubmitNotify
  <2>. QED  BY <2>1
<1>3. ASSUME NEW w \in Workers, WorkerNext(w) PROVE NotYetLive' /\ StopTokens' /\ DrainPlace'
  <2>1. UNCHANGED <<stopping, dpc, wstop, ppc, rpc, apc, draining>> \/ WorkerNotify(w)
    BY <1>3 DEF WorkerNext, WorkerExit, WorkerTake, HandlerReturn
  <2>2. UNCHANGED owned_count \/ (~stopping /\ ready_count > 0)
    BY <1>3 DEF WorkerNext, WorkerExit, WorkerTake, WorkerNotify, HandlerReturn
  <2>3. ~stopping /\ ready_count > 0 => owned_count # 0
    BY StageBounds DEF QueueTypes
  <2>4. CASE WorkerNotify(w)
    BY <2>4 DEF WorkerNotify, NotifyOneProducer
  <2>. QED  BY <2>1, <2>2, <2>3, <2>4
<1>4. CASE AdmissionNext
  BY <1>4 DEF AdmissionNext, AdmissionCheck, DrainOne, DrainDone, PollReturn, Inspect, Sweep,
     WalkDone, Promote, PromoteNotify, AdmissionExit
<1>5. CASE PollFail \/ AdmissionThrow \/ SpuriousWakeup
  BY <1>5 DEF PollFail, AdmissionThrow, SpuriousWakeup
<1>6. CASE \E t \in Callers : StopNext(t)
  BY <1>6 DEF StopNext, StopLock, StopAdmission, StopWorkers, StopNotify
<1>7. CASE DestroyNext \/ \E c \in Connections : TimeoutPasses(c)
  BY <1>7 DEF DestroyNext, DestroyJoinAdmission, DestroyJoinWorkers, TimeoutPasses
<1>8. CASE UNCHANGED vars \/ Destroyed
  BY <1>8 DEF Destroyed, vars
<1>. QED  BY <1>1, <1>2, <1>3, <1>4, <1>5, <1>6, <1>7, <1>8 DEF Next, InternalNext

-----------------------------------------------------------------------------
\* Counting threads at a place when one of them moves.

\* One element more.
LEMMA Joins ==
  ASSUME NEW S, NEW T, NEW x, IsFiniteSet(S), x \notin S, T = S \cup {x}
  PROVE  Cardinality(T) = Cardinality(S) + 1
BY FS_AddElement

\* One element less.
LEMMA Leaves ==
  ASSUME NEW S, NEW T, NEW x, IsFiniteSet(S), x \in S, T = S \ {x}
  PROVE  Cardinality(T) = Cardinality(S) - 1
BY FS_RemoveElement

\* Every step keeps the ready connections covered: by workers that will look at
\* the ring and by notifications to come.
LEMMA WorkStep == WakeupInv /\ NoWorkStranded /\ [Next]_vars => NoWorkStranded'
<1>. SUFFICES ASSUME WakeupInv, NoWorkStranded, [Next]_vars PROVE NoWorkStranded'
  OBVIOUS
<1>. DEFINE Lookers == WorkersAt({"check", "woken"})
<1>. USE DEF readyVars, acceptedVars, slotVars, producerVars, workerVars, loopVars,
             wakeVars, stopVars
<1>a. /\ IsFiniteSet(Lookers) /\ Cardinality(Lookers) \in Nat
      /\ IsFiniteSet(ProducersAt("notify")) /\ Cardinality(ProducersAt("notify")) \in Nat
      /\ PendingNotifies \in Nat
  BY WorkersFinite, ProducersFinite, CountTypes DEF WorkersAt, ProducersAt
<1>b. Cardinality(Lookers') \in Nat /\ PendingNotifies' \in Nat
  BY CountTypesPrime
<1>c. ready_count \in Nat
  BY DispatcherAssumptions DEF WakeupInv, IInv, TypeOK, QueueTypes
\* Steps that leave the ring, the workers and the notifications alone.
<1>d. ASSUME UNCHANGED <<stopping, ready_count, wpc>>, PendingNotifies' = PendingNotifies
      PROVE  NoWorkStranded'
  BY <1>d DEF NoWorkStranded, WorkersAt
\* Steps after which the dispatcher is stopping, or nothing is ready.
<1>e. ASSUME stopping' \/ ready_count' = 0 PROVE NoWorkStranded'
  BY <1>e, <1>b DEF NoWorkStranded
\* A blocked worker is woken.
<1>f. ASSUME NEW w \in Workers, wpc[w] = "wait", wpc' = [wpc EXCEPT ![w] = "woken"],
             UNCHANGED <<stopping, ready_count>>, PendingNotifies <= PendingNotifies' + 1
      PROVE  NoWorkStranded'
  <2>1. Lookers' = Lookers \cup {w} /\ w \notin Lookers
    BY <1>f DEF WakeupInv, IInv, TypeOK, WorkerTypes, WorkersAt
  <2>2. Cardinality(Lookers') = Cardinality(Lookers) + 1
    BY <2>1, <1>a, Joins
  <2>3. WorkersAt({"wait"}) # {}
    BY <1>f DEF WorkersAt
  <2>4. stopping \/ ready_count <= PendingNotifies + Cardinality(Lookers)
    BY <2>3 DEF NoWorkStranded
  <2>5. ASSUME ~stopping PROVE ready_count <= PendingNotifies' + Cardinality(Lookers')
    <3>1. PendingNotifies <= PendingNotifies' + 1
      BY <1>f
    <3>2. ready_count <= PendingNotifies + Cardinality(Lookers)
      BY <2>4, <2>5
    <3>3. PICK notifies \in Nat : notifies = PendingNotifies'
      BY <1>b
    <3>4. PICK threads \in Nat : threads = Cardinality(Lookers')
      BY <1>b
    <3>5. PICK before \in Nat : before = Cardinality(Lookers)
      BY <1>a
    <3>6. PICK pending \in Nat : pending = PendingNotifies
      BY <1>a
    <3>7. threads = before + 1
      BY <2>2, <3>4, <3>5
    <3>8. pending <= notifies + 1
      BY <3>1, <3>3, <3>6
    <3>9. ready_count <= pending + before
      BY <3>2, <3>5, <3>6
    <3>10. ready_count <= notifies + threads
      BY <3>7, <3>8, <3>9, <1>c
    <3>. QED  BY <3>3, <3>4, <3>10
  <2>. QED  BY <2>5, <1>f DEF NoWorkStranded
\* notify_one().
<1>g. ASSUME NotifyOneWorker, UNCHANGED <<stopping, ready_count>>,
             PendingNotifies <= PendingNotifies' + 1
      PROVE  NoWorkStranded'
  <2>1. CASE (\A w \in Workers : wpc[w] # "wait") /\ UNCHANGED wpc
    BY <2>1 DEF NoWorkStranded, WorkersAt
  <2>. QED  BY <2>1, <1>f, <1>g DEF NotifyOneWorker
<1>1. CASE ClientNext
  <2>1. CASE Create
    <3>1. ready_count = 0
      BY <2>1, StageBounds, <1>c DEF Create, WakeupInv, NotYetLive, IInv, QueueInv,
         StoppedMeansEmpty, TypeOK, QueueTypes
    <3>. QED  BY <2>1, <3>1, <1>e DEF Create
  <2>2. CASE CreateFail
    <3>1. ready_count = 0
      BY <2>2, StageBounds, <1>c DEF CreateFail, WakeupInv, NotYetLive, IInv, QueueInv,
         StoppedMeansEmpty, TypeOK, QueueTypes
    <3>. QED  BY <2>2, <3>1, <1>e DEF CreateFail
  <2>3. ASSUME NEW p \in Producers, SubmitInvalid(p) PROVE NoWorkStranded'
    BY <2>3, <1>d DEF SubmitInvalid, PendingNotifies, ProducersAt
  <2>4. ASSUME NEW p \in Producers, Cancel(p) PROVE NoWorkStranded'
    <3>1. ProducersAt("notify")' = ProducersAt("notify")
      BY <2>4 DEF Cancel, AllProducersWoken, ProducersAt
    <3>. QED  BY <2>4, <3>1, <1>d DEF Cancel, PendingNotifies
  <2>5. ASSUME NEW p \in Producers, NEW c \in Connections, SubmitBegin(p, c)
        PROVE  NoWorkStranded'
    <3>1. ProducersAt("notify")' = ProducersAt("notify")
      BY <2>5 DEF SubmitBegin, ProducersAt, WakeupInv, IInv, TypeOK, ProducerTypes
    <3>. QED  BY <2>5, <3>1, <1>d DEF SubmitBegin, PendingNotifies
  <2>6. ASSUME NEW t \in Stoppers, StopCall(t) PROVE NoWorkStranded'
    BY <2>6, <1>d DEF StopCall, PendingNotifies, ProducersAt
  <2>7. CASE DestroyBegin
    BY <2>7, <1>d DEF DestroyBegin, PendingNotifies, ProducersAt
  <2>. QED  BY <1>1, <2>1, <2>2, <2>3, <2>4, <2>5, <2>6, <2>7 DEF ClientNext
<1>2. ASSUME NEW p \in Producers, SubmitLock(p) PROVE NoWorkStranded'
  <2>1. CASE SubmitEnqueue(p) /\ ~AdmissionEnabled
    <3>1. ProducersAt("notify")' = ProducersAt("notify") \cup {p}
          /\ p \notin ProducersAt("notify")
      BY <1>2, <2>1 DEF SubmitLock, SubmitEnqueue, ProducersAt, WakeupInv, IInv, TypeOK,
         ProducerTypes
    <3>2. Cardinality(ProducersAt("notify")') = Cardinality(ProducersAt("notify")) + 1
      BY <3>1, <1>a, Joins
    <3>3. PendingNotifies' = PendingNotifies + 1
      BY <1>2, <2>1, <3>2, <1>a DEF SubmitLock, PendingNotifies
    <3>4. ready_count' = ready_count + 1
      BY <2>1 DEF SubmitEnqueue, EnqueueReady
    <3>5. UNCHANGED <<stopping, wpc>>
      BY <1>2 DEF SubmitLock
    <3>. QED  BY <3>3, <3>4, <3>5, <1>a, <1>c DEF NoWorkStranded, WorkersAt
  <2>2. CASE ~SubmitEnqueue(p) \/ AdmissionEnabled
    <3>1. UNCHANGED <<stopping, wpc, apc, ready_count>>
      BY <1>2, <2>2 DEF SubmitLock, SubmitEnqueue, SubmitFail
    <3>2. AdmissionEnabled \/ ProducersAt("notify")' = ProducersAt("notify")
      BY <1>2, <2>2 DEF SubmitLock, SubmitFail, ProducersAt, WakeupInv, IInv, TypeOK,
         ProducerTypes
    <3>. QED  BY <3>1, <3>2, <1>d DEF PendingNotifies
  <2>. QED  BY <2>1, <2>2
<1>3. ASSUME NEW p \in Producers, SubmitNotify(p) PROVE NoWorkStranded'
  <2>1. CASE AdmissionEnabled
    BY <1>3, <2>1, <1>d DEF SubmitNotify, PendingNotifies
  <2>2. CASE ~AdmissionEnabled
    <3>1. ProducersAt("notify")' = ProducersAt("notify") \ {p} /\ p \in ProducersAt("notify")
      BY <1>3 DEF SubmitNotify, ProducersAt, WakeupInv, IInv, TypeOK, ProducerTypes
    <3>2. Cardinality(ProducersAt("notify")') = Cardinality(ProducersAt("notify")) - 1
      BY <3>1, <1>a, Leaves
    <3>3. PendingNotifies <= PendingNotifies' + 1
      BY <1>3, <2>2, <3>2, <1>a DEF SubmitNotify, PendingNotifies
    <3>. QED  BY <1>3, <2>2, <3>3, <1>g DEF SubmitNotify
  <2>. QED  BY <2>1, <2>2
<1>4. ASSUME NEW w \in Workers, WorkerExit(w) PROVE NoWorkStranded'
  <2>1. stopping \/ ready_count = 0
    BY <1>4, StageBounds, <1>c DEF WorkerExit, WakeupInv, StopTokens, NotYetLive, IInv,
       TypeOK, QueueTypes
  <2>. QED  BY <1>4, <2>1, <1>e DEF WorkerExit
<1>5. ASSUME NEW w \in Workers, WorkerTake(w) PROVE NoWorkStranded'
  <2>1. CASE stopping \/ ready_count = 0
    BY <1>5, <2>1, <1>c, <1>e DEF WorkerTake
  <2>2. CASE ~stopping /\ ready_count # 0
    <3>1. Dequeue(w) /\ wpc' = [wpc EXCEPT ![w] = "notify"] /\ UNCHANGED <<stopping, ppc, apc>>
      BY <1>5, <2>2 DEF WorkerTake
    <3>2. Lookers' = Lookers \ {w} /\ w \in Lookers
      BY <1>5, <3>1 DEF WorkerTake, WakeupInv, IInv, TypeOK, WorkerTypes, WorkersAt
    <3>3. Cardinality(Lookers') = Cardinality(Lookers) - 1
      BY <3>2, <1>a, Leaves
    <3>4. WorkersAt({"wait"})' = WorkersAt({"wait"})
      BY <1>5, <3>1 DEF WorkerTake, WakeupInv, IInv, TypeOK, WorkerTypes, WorkersAt
    <3>5. ready_count' = ready_count - 1 /\ PendingNotifies' = PendingNotifies
      BY <3>1 DEF Dequeue, PendingNotifies, ProducersAt
    <3>. QED  BY <2>2, <3>1, <3>3, <3>4, <3>5, <1>a, <1>b, <1>c DEF NoWorkStranded
  <2>. QED  BY <2>1, <2>2
<1>6. ASSUME NEW w \in Workers, WorkerNotify(w) PROVE NoWorkStranded'
  <2>1. ProducersAt("notify")' = ProducersAt("notify")
    BY <1>6 DEF WorkerNotify, NotifyOneProducer, ProducersAt, WakeupInv, IInv, TypeOK,
       ProducerTypes
  <2>2. Lookers' = Lookers /\ WorkersAt({"wait"})' = WorkersAt({"wait"})
    BY <1>6 DEF WorkerNotify, WorkersAt, WakeupInv, IInv, TypeOK, WorkerTypes
  <2>3. PendingNotifies' = PendingNotifies /\ UNCHANGED <<ready_count, stopping>>
    BY <1>6, <2>1 DEF WorkerNotify, PendingNotifies
  <2>. QED  BY <2>2, <2>3 DEF NoWorkStranded
<1>7. ASSUME NEW w \in Workers, HandlerReturn(w) PROVE NoWorkStranded'
  <2>1. Lookers' = Lookers \cup {w} /\ w \notin Lookers
        /\ WorkersAt({"wait"})' = WorkersAt({"wait"})
    BY <1>7 DEF HandlerReturn, WorkersAt, WakeupInv, IInv, TypeOK, WorkerTypes
  <2>2. Cardinality(Lookers') = Cardinality(Lookers) + 1
    BY <2>1, <1>a, Joins
  <2>3. PendingNotifies' = PendingNotifies /\ UNCHANGED <<ready_count, stopping>>
    BY <1>7 DEF HandlerReturn, PendingNotifies, ProducersAt
  <2>. QED  BY <2>1, <2>2, <2>3, <1>a, <1>c DEF NoWorkStranded
<1>8. CASE Promote
  <2>1. CASE stopping
    BY <1>8, <2>1, <1>e DEF Promote
  <2>2. CASE ~stopping
    <3>1. ready_count' = ready_count + 1 /\ UNCHANGED <<wpc, ppc, stopping>>
      BY <1>8, <2>2 DEF Promote, EnqueueReady
    <3>2. PendingNotifies' = PendingNotifies + 1
      BY <1>8, <2>2, <3>1, <1>a DEF Promote, PendingNotifies, ProducersAt
    <3>. QED  BY <3>1, <3>2, <1>a, <1>c DEF NoWorkStranded, WorkersAt
  <2>. QED  BY <2>1, <2>2
<1>9. CASE PromoteNotify
  <2>1. PendingNotifies <= PendingNotifies' + 1
    BY <1>9, <1>a DEF PromoteNotify, PendingNotifies, ProducersAt
  <2>. QED  BY <1>9, <2>1, <1>g DEF PromoteNotify
<1>10. CASE AdmissionNext /\ ~Promote /\ ~PromoteNotify
  <2>a. AdmissionCheck \/ DrainDone \/ PollReturn \/ WalkDone \/ AdmissionExit
        \/ (DrainOne \/ Inspect \/ Sweep)
    BY <1>10 DEF AdmissionNext
  <2>c. UNCHANGED ppc
    BY <2>a DEF AdmissionCheck, DrainOne, DrainDone, PollReturn, Inspect, Sweep, WalkDone,
       AdmissionExit
  <2>d. apc' \in {"inspect_notify", "expire_notify", "flush_notify"} <=>
          apc \in {"inspect_notify", "expire_notify", "flush_notify"}
    BY <2>a DEF WakeupInv, DrainPlace, AdmissionCheck, DrainOne, DrainDone, PollReturn, Inspect, Sweep, WalkDone,
       AdmissionExit
  <2>1. PendingNotifies' = PendingNotifies
    BY <2>c, <2>d DEF PendingNotifies, ProducersAt
  <2>. QED  BY <1>10, <2>1, <1>d DEF AdmissionNext, AdmissionCheck, DrainOne, DrainDone,
               PollReturn, Inspect, Sweep, WalkDone, AdmissionExit
<1>11. CASE PollFail \/ AdmissionThrow
  BY <1>11, <1>d DEF PollFail, AdmissionThrow, PendingNotifies, ProducersAt
<1>12. CASE SpuriousWakeup
  <2>1. ProducersAt("notify")' = ProducersAt("notify")
    BY <1>12 DEF SpuriousWakeup, ProducersAt, WakeupInv, IInv, TypeOK, ProducerTypes
  <2>2. PendingNotifies' = PendingNotifies
    BY <1>12, <2>1 DEF SpuriousWakeup, PendingNotifies
  <2>3. CASE UNCHANGED wpc
    BY <1>12, <2>2, <2>3, <1>d DEF SpuriousWakeup
  <2>. QED  BY <1>12, <2>2, <2>3, <1>a, <1>f DEF SpuriousWakeup
<1>13. ASSUME NEW t \in Callers, StopNext(t) PROVE NoWorkStranded'
  <2>1. CASE StopLock(t)
    BY <2>1, <1>e DEF StopLock, WakeupInv, IInv, QueueInv, StoppedMeansEmpty
  <2>2. CASE StopAdmission(t) \/ StopWorkers(t) \/ StopNotify(t)
    BY <2>2, <1>e DEF StopAdmission, StopWorkers, StopNotify, WakeupInv, IInv, StopReasons
  <2>. QED  BY <1>13, <2>1, <2>2 DEF StopNext
<1>14. CASE DestroyJoinAdmission
  BY <1>14, <1>e DEF DestroyJoinAdmission, WakeupInv, IInv, StopReasons, Callers
<1>15. CASE DestroyJoinWorkers \/ \E c \in Connections : TimeoutPasses(c)
  BY <1>15, <1>d DEF DestroyJoinWorkers, TimeoutPasses, PendingNotifies, ProducersAt
<1>16. CASE UNCHANGED vars \/ Destroyed
  BY <1>16, <1>d DEF Destroyed, vars, PendingNotifies, ProducersAt
<1>. QED  BY <1>1, <1>2, <1>3, <1>4, <1>5, <1>6, <1>7, <1>8, <1>9, <1>10, <1>11, <1>12,
             <1>13, <1>14, <1>15, <1>16
          DEF Next, InternalNext, ProducerNext, WorkerNext, DestroyNext

\* Every step keeps the free places covered: by producers that will look at them
\* and by notifications of the workers that freed them.
LEMMA PlaceStep == WakeupInv /\ NoProducerStranded /\ [Next]_vars => NoProducerStranded'
<1>. SUFFICES ASSUME WakeupInv, NoProducerStranded, [Next]_vars PROVE NoProducerStranded'
  OBVIOUS
<1>. DEFINE Freed == WorkersAt({"notify"})
            Lockers == ProducersAt("lock")
<1>. USE DEF readyVars, acceptedVars, slotVars, producerVars, workerVars, loopVars,
             wakeVars, stopVars
<1>a. /\ IsFiniteSet(Freed) /\ Cardinality(Freed) \in Nat
      /\ IsFiniteSet(Lockers) /\ Cardinality(Lockers) \in Nat
  BY WorkersFinite, ProducersFinite DEF WorkersAt, ProducersAt
<1>b. Cardinality(Freed') \in Nat /\ Cardinality(Lockers') \in Nat /\ IsFiniteSet(Lockers')
  BY WorkersFinite, ProducersFinite DEF WorkersAt, ProducersAt
<1>c. owned_count \in Nat /\ Capacity \in Nat
  BY DispatcherAssumptions DEF WakeupInv, IInv, TypeOK, QueueTypes
\* Steps that leave the places and the threads that matter alone.
<1>d. ASSUME UNCHANGED <<stopping, owned_count, ppc>>, Freed' = Freed
      PROVE  NoProducerStranded'
  BY <1>d DEF NoProducerStranded, ProducersAt
\* Steps after which the dispatcher is stopping, or is full, or nobody waits.
<1>e. ASSUME stopping' \/ owned_count' = Capacity \/ ProducersAt("wait")' = {}
      PROVE  NoProducerStranded'
  BY <1>e, <1>b, <1>c DEF NoProducerStranded
\* Blocked producers are woken.
<1>f. ASSUME UNCHANGED <<stopping, owned_count>>, Freed' = Freed,
             ProducersAt("wait") # {}, Lockers \subseteq Lockers'
      PROVE  NoProducerStranded'
  <2>1. Cardinality(Lockers) <= Cardinality(Lockers')
    BY <1>b, <1>f, FS_Subset
  <2>2. ASSUME ~stopping
        PROVE  Capacity - owned_count <= Cardinality(Freed) + Cardinality(Lockers')
    <3>1. Capacity - owned_count <= Cardinality(Freed) + Cardinality(Lockers)
      BY <1>f, <2>2 DEF NoProducerStranded
    <3>. QED  BY <3>1, <2>1, <1>a, <1>b, <1>c
  <2>. QED  BY <2>2, <1>f DEF NoProducerStranded
<1>1. CASE ClientNext
  <2>1. CASE Create \/ CreateFail
    BY <2>1, <1>e DEF Create, CreateFail, WakeupInv, NotYetLive, ProducersAt
  <2>2. ASSUME NEW p \in Producers, SubmitInvalid(p) PROVE NoProducerStranded'
    BY <2>2, <1>d DEF SubmitInvalid, WorkersAt
  <2>3. ASSUME NEW p \in Producers, Cancel(p) PROVE NoProducerStranded'
    <3>1. CASE ppc[p] = "wait"
      <4>1. Lockers \subseteq Lockers' /\ ProducersAt("wait") # {}
        BY <2>3, <3>1 DEF Cancel, AllProducersWoken, ProducersAt
      <4>2. Freed' = Freed /\ UNCHANGED <<stopping, owned_count>>
        BY <2>3 DEF Cancel, WorkersAt
      <4>. QED  BY <4>1, <4>2, <1>f
    <3>2. CASE ppc[p] # "wait"
      BY <2>3, <3>2, <1>d DEF Cancel, WorkersAt
    <3>. QED  BY <3>1, <3>2
  <2>4. ASSUME NEW p \in Producers, NEW c \in Connections, SubmitBegin(p, c)
        PROVE  NoProducerStranded'
    <3>1. Lockers \subseteq Lockers' /\ ProducersAt("wait")' = ProducersAt("wait")
      BY <2>4 DEF SubmitBegin, ProducersAt, WakeupInv, IInv, TypeOK, ProducerTypes
    <3>2. Freed' = Freed /\ UNCHANGED <<stopping, owned_count>>
      BY <2>4 DEF SubmitBegin, WorkersAt
    <3>. QED  BY <3>1, <3>2, <1>e, <1>f
  <2>5. ASSUME NEW t \in Stoppers, StopCall(t) PROVE NoProducerStranded'
    BY <2>5, <1>d DEF StopCall, WorkersAt
  <2>6. CASE DestroyBegin
    BY <2>6, <1>d DEF DestroyBegin, WorkersAt
  <2>. QED  BY <1>1, <2>1, <2>2, <2>3, <2>4, <2>5, <2>6 DEF ClientNext
<1>2. ASSUME NEW p \in Producers, SubmitLock(p) PROVE NoProducerStranded'
  <2>1. UNCHANGED <<stopping, wpc>>
    BY <1>2 DEF SubmitLock
  <2>2. CASE stopping
    BY <2>1, <2>2, <1>e
  <2>3. CASE ~stopping /\ SubmitEnqueue(p)
    <3>1. Lockers' = Lockers \ {p} /\ p \in Lockers
          /\ ProducersAt("wait")' = ProducersAt("wait")
      BY <1>2, <2>3 DEF SubmitLock, SubmitEnqueue, ProducersAt, WakeupInv, IInv, TypeOK,
         ProducerTypes
    <3>2. Cardinality(Lockers') = Cardinality(Lockers) - 1
      BY <3>1, <1>a, Leaves
    <3>3. owned_count' = owned_count + 1 /\ Freed' = Freed
      BY <2>1, <2>3 DEF SubmitEnqueue, WorkersAt
    <3>4. ASSUME ProducersAt("wait") # {}
          PROVE  Capacity - (owned_count + 1) <= Cardinality(Freed) + Cardinality(Lockers')
      <4>1. Capacity - owned_count <= Cardinality(Freed) + Cardinality(Lockers)
        BY <2>3, <3>4 DEF NoProducerStranded
      <4>. QED  BY <4>1, <3>2, <1>a, <1>b, <1>c
    <3>. QED  BY <2>1, <3>1, <3>3, <3>4 DEF NoProducerStranded
  <2>4. CASE ~stopping /\ ~SubmitEnqueue(p)
    <3>1. owned_count' = owned_count /\ owned_count = Capacity
      BY <1>2, <2>4, <1>c DEF SubmitLock, SubmitFail, SpaceOrStop, WakeupInv, IInv, TypeOK,
         QueueTypes
    <3>. QED  BY <3>1, <1>e
  <2>. QED  BY <2>2, <2>3, <2>4
<1>3. ASSUME NEW p \in Producers, SubmitNotify(p) PROVE NoProducerStranded'
  <2>1. Lockers' = Lockers /\ ProducersAt("wait")' = ProducersAt("wait")
    BY <1>3 DEF SubmitNotify, ProducersAt, WakeupInv, IInv, TypeOK, ProducerTypes
  <2>2. Freed' = Freed
    BY <1>3 DEF SubmitNotify, NotifyOneWorker, WorkersAt, WakeupInv, IInv, TypeOK,
       WorkerTypes
  <2>3. UNCHANGED <<stopping, owned_count>>
    BY <1>3 DEF SubmitNotify
  <2>. QED  BY <2>1, <2>2, <2>3 DEF NoProducerStranded
<1>4. ASSUME NEW w \in Workers, WorkerExit(w) \/ HandlerReturn(w) PROVE NoProducerStranded'
  <2>1. Freed' = Freed
    BY <1>4 DEF WorkerExit, HandlerReturn, WorkersAt, WakeupInv, IInv, TypeOK, WorkerTypes
  <2>. QED  BY <1>4, <2>1, <1>d DEF WorkerExit, HandlerReturn
<1>5. ASSUME NEW w \in Workers, WorkerTake(w) PROVE NoProducerStranded'
  <2>1. UNCHANGED <<stopping, ppc>>
    BY <1>5 DEF WorkerTake
  <2>2. CASE Dequeue(w) /\ wpc' = [wpc EXCEPT ![w] = "notify"]
    <3>1. Freed' = Freed \cup {w} /\ w \notin Freed
      BY <1>5, <2>2 DEF WorkerTake, WorkersAt, WakeupInv, IInv, TypeOK, WorkerTypes
    <3>2. Cardinality(Freed') = Cardinality(Freed) + 1
      BY <3>1, <1>a, Joins
    <3>3. owned_count' = owned_count - 1 /\ Lockers' = Lockers
          /\ ProducersAt("wait")' = ProducersAt("wait")
      BY <2>1, <2>2 DEF Dequeue, ProducersAt
    <3>4. ASSUME ~stopping, ProducersAt("wait") # {}
          PROVE  Capacity - (owned_count - 1) <= Cardinality(Freed') + Cardinality(Lockers)
      <4>1. Capacity - owned_count <= Cardinality(Freed) + Cardinality(Lockers)
        BY <3>4 DEF NoProducerStranded
      <4>. QED  BY <4>1, <3>2, <1>a, <1>b, <1>c
    <3>. QED  BY <2>1, <3>3, <3>4 DEF NoProducerStranded
  <2>3. CASE ~Dequeue(w)
    <3>1. Freed' = Freed /\ UNCHANGED owned_count
      BY <1>5, <2>3 DEF WorkerTake, WorkersAt, WakeupInv, IInv, TypeOK, WorkerTypes
    <3>. QED  BY <2>1, <3>1, <1>d
  <2>4. CASE wpc' # [wpc EXCEPT ![w] = "notify"]
    <3>1. Freed' = Freed /\ UNCHANGED owned_count
      BY <1>5, <2>4 DEF WorkerTake, WorkersAt, WakeupInv, IInv, TypeOK, WorkerTypes
    <3>. QED  BY <2>1, <3>1, <1>d
  <2>. QED  BY <2>2, <2>3, <2>4
<1>6. ASSUME NEW w \in Workers, WorkerNotify(w) PROVE NoProducerStranded'
  <2>1. Freed' = Freed \ {w} /\ w \in Freed
    BY <1>6 DEF WorkerNotify, WorkersAt, WakeupInv, IInv, TypeOK, WorkerTypes
  <2>2. Cardinality(Freed') = Cardinality(Freed) - 1
    BY <2>1, <1>a, Leaves
  <2>3. UNCHANGED <<stopping, owned_count>>
    BY <1>6 DEF WorkerNotify
  <2>4. CASE (\A p \in Producers : ppc[p] # "wait") /\ UNCHANGED ppc
    BY <2>4, <1>e DEF ProducersAt
  <2>5. ASSUME NEW p \in Producers, ppc[p] = "wait", ppc' = [ppc EXCEPT ![p] = "lock"]
        PROVE  NoProducerStranded'
    <3>1. Lockers' = Lockers \cup {p} /\ p \notin Lockers
      BY <2>5 DEF ProducersAt, WakeupInv, IInv, TypeOK, ProducerTypes
    <3>2. Cardinality(Lockers') = Cardinality(Lockers) + 1
      BY <3>1, <1>a, Joins
    <3>3. ProducersAt("wait") # {}
      BY <2>5 DEF ProducersAt
    <3>4. ASSUME ~stopping
          PROVE  Capacity - owned_count <= Cardinality(Freed') + Cardinality(Lockers')
      <4>1. Capacity - owned_count <= Cardinality(Freed) + Cardinality(Lockers)
        BY <3>3, <3>4 DEF NoProducerStranded
      <4>. QED  BY <4>1, <2>2, <3>2, <1>a, <1>b, <1>c
    <3>. QED  BY <2>3, <3>4 DEF NoProducerStranded
  <2>. QED  BY <1>6, <2>4, <2>5 DEF WorkerNotify, NotifyOneProducer
<1>7. CASE AdmissionNext \/ PollFail \/ AdmissionThrow
  <2>1. CASE PromoteNotify
    <3>1. Freed' = Freed
      BY <2>1 DEF PromoteNotify, NotifyOneWorker, WorkersAt, WakeupInv, IInv, TypeOK,
         WorkerTypes
    <3>. QED  BY <2>1, <3>1, <1>d DEF PromoteNotify
  <2>2. CASE ~PromoteNotify
    <3>1. UNCHANGED <<stopping, owned_count, ppc, wpc>>
      BY <1>7, <2>2 DEF AdmissionNext, AdmissionCheck, DrainOne, DrainDone, PollReturn,
         Inspect, Sweep, WalkDone, Promote, AdmissionExit, PollFail, AdmissionThrow
    <3>. QED  BY <3>1, <1>d DEF WorkersAt
  <2>. QED  BY <2>1, <2>2
<1>8. CASE SpuriousWakeup
  <2>1. Freed' = Freed /\ UNCHANGED <<stopping, owned_count>>
    BY <1>8 DEF SpuriousWakeup, WorkersAt, WakeupInv, IInv, TypeOK, WorkerTypes
  <2>2. UNCHANGED ppc \/ (Lockers \subseteq Lockers' /\ ProducersAt("wait") # {})
    BY <1>8 DEF SpuriousWakeup, ProducersAt, WakeupInv, IInv, TypeOK, ProducerTypes
  <2>. QED  BY <2>1, <2>2, <1>d, <1>f
<1>9. ASSUME NEW t \in Callers, StopNext(t) PROVE NoProducerStranded'
  <2>1. stopping'
    BY <1>9 DEF StopNext, StopLock, StopAdmission, StopWorkers, StopNotify, WakeupInv,
       IInv, StopReasons
  <2>. QED  BY <2>1, <1>e
<1>10. CASE DestroyJoinAdmission
  BY <1>10, <1>e DEF DestroyJoinAdmission, WakeupInv, IInv, StopReasons, Callers
<1>11. CASE DestroyJoinWorkers \/ \E c \in Connections : TimeoutPasses(c)
  BY <1>11, <1>d DEF DestroyJoinWorkers, TimeoutPasses, WorkersAt
<1>12. CASE UNCHANGED vars \/ Destroyed
  BY <1>12, <1>d DEF Destroyed, vars, WorkersAt
<1>. QED  BY <1>1, <1>2, <1>3, <1>4, <1>5, <1>6, <1>7, <1>8, <1>9, <1>10, <1>11, <1>12
          DEF Next, InternalNext, ProducerNext, WorkerNext, DestroyNext

\* Nothing is queued and nobody waits when the constructor starts.
LEMMA InitWakeup == Init => WakeupInv /\ NoWorkStranded /\ NoProducerStranded
<1>. SUFFICES ASSUME Init PROVE WakeupInv /\ NoWorkStranded /\ NoProducerStranded
  OBVIOUS
<1>1. WakeupInv
  BY InitInv DEF Init, WakeupInv, NotYetLive, StopTokens, DrainPlace
<1>2. WorkersAt({"wait"}) = {} /\ ProducersAt("wait") = {}
  BY DEF Init, WorkersAt, ProducersAt
<1>. QED  BY <1>1, <1>2 DEF NoWorkStranded, NoProducerStranded

\* While a worker is blocked, every ready connection has a worker that will look at
\* the ring or a notify_one() still to come: no schedule of submit(), promote(),
\* worker_loop() and request_stop() loses a wakeup of connection_available_.
THEOREM NoLostWork == Spec => []NoWorkStranded
<1>1. WakeupInv /\ [Next]_vars => WakeupInv'
  BY NextInv, LifeStep DEF WakeupInv
<1>. QED  BY InitWakeup, <1>1, WorkStep, PTL DEF Spec

\* While a producer is blocked in submit(), every free place has a producer that will
\* look at it or a notify_one() still to come: no wakeup of space_available_ is lost.
THEOREM NoLostPlace == Spec => []NoProducerStranded
<1>1. WakeupInv /\ [Next]_vars => WakeupInv'
  BY NextInv, LifeStep DEF WakeupInv
<1>. QED  BY InitWakeup, <1>1, PlaceStep, PTL DEF Spec

-----------------------------------------------------------------------------
\* Ownership, for any map from the places that can own a connection to what they own.

HomeSet ==
  {<<"held", p>> : p \in Producers} \cup {<<"serving", w>> : w \in Workers}
  \cup {<<"ready", s>> : s \in Slots} \cup {<<"accepted", s>> : s \in Slots}
  \cup {<<"admission", s>> : s \in Slots} \cup {<<"promote", 0>>}

\* No two places own the same connection, and some place owns exactly the live ones.
Owned(H, F) ==
  /\ \A x, y \in HomeSet : H[x] = H[y] /\ H[x] # None => x = y
  /\ \A c \in Connections : F[c] = "live" <=> \E x \in HomeSet : H[x] = c

\* A connection goes from one place to another that is empty.
LEMMA Transferred ==
  ASSUME NEW H, NEW F, Owned(H, F), NEW a \in HomeSet, NEW b \in HomeSet, a # b, H[b] = None,
         NEW G, \A x \in HomeSet : G[x] = IF x = b THEN H[a] ELSE IF x = a THEN None ELSE H[x]
  PROVE  Owned(G, F)
<1>1. \A x, y \in HomeSet : G[x] = G[y] /\ G[x] # None => x = y
  BY DEF Owned
<1>2. \A c \in Connections : (\E x \in HomeSet : H[x] = c) <=> (\E x \in HomeSet : G[x] = c)
  BY DispatcherAssumptions
<1>. QED  BY <1>1, <1>2 DEF Owned

\* A new connection comes to an empty place.
LEMMA Acquired ==
  ASSUME NEW H, NEW F, Owned(H, F), NEW a \in HomeSet, H[a] = None,
         NEW c \in Connections, F[c] # "live",
         NEW G, \A x \in HomeSet : G[x] = IF x = a THEN c ELSE H[x],
         NEW E, \A d \in Connections : E[d] = IF d = c THEN "live" ELSE F[d]
  PROVE  Owned(G, E)
<1>1. \A x \in HomeSet : H[x] # c
  BY DEF Owned
<1>2. \A x, y \in HomeSet : G[x] = G[y] /\ G[x] # None => x = y
  BY <1>1 DEF Owned
<1>3. \A d \in Connections : E[d] = "live" <=> \E x \in HomeSet : G[x] = d
  BY <1>1, DispatcherAssumptions DEF Owned
<1>. QED  BY <1>2, <1>3 DEF Owned

\* Places are emptied, and the connections they held live no longer.
LEMMA Released ==
  ASSUME NEW H, NEW F, Owned(H, F), NEW S \in SUBSET HomeSet,
         NEW G, \A x \in HomeSet : G[x] = IF x \in S THEN None ELSE H[x],
         NEW E, \A c \in Connections : E[c] = "live" <=> F[c] = "live" /\ ~\E x \in S : H[x] = c
  PROVE  Owned(G, E)
<1>1. \A x, y \in HomeSet : G[x] = G[y] /\ G[x] # None => x = y
  BY DEF Owned
<1>2. ASSUME NEW c \in Connections
      PROVE  E[c] = "live" <=> \E x \in HomeSet : G[x] = c
  <2>1. CASE E[c] = "live"
    BY <2>1 DEF Owned
  <2>2. CASE \E x \in HomeSet : G[x] = c
    <3>1. PICK x \in HomeSet : G[x] = c
      BY <2>2
    <3>2. x \notin S /\ H[x] = c
      BY <3>1, DispatcherAssumptions
    <3>3. F[c] = "live"
      BY <3>2 DEF Owned
    <3>4. \A y \in S : H[y] # c
      BY <3>2, DispatcherAssumptions DEF Owned
    <3>. QED  BY <3>3, <3>4, <3>1
  <2>. QED  BY <2>1, <2>2
<1>. QED  BY <1>1, <1>2 DEF Owned

-----------------------------------------------------------------------------
\* The places of the dispatcher.

Holder(x) ==
  CASE x[1] = "held" -> held[x[2]]
    [] x[1] = "serving" -> serving[x[2]]
    [] x[1] = "ready" -> ready_queue[x[2]]
    [] x[1] = "accepted" -> accepted_queue[x[2]]
    [] x[1] = "admission" -> admissions[x[2]]
    [] OTHER -> inflight

HomeMap == [x \in HomeSet |-> Holder(x)]

HomeFacts ==
  /\ \A p \in Producers : <<"held", p>> \in HomeSet /\ HomeMap[<<"held", p>>] = held[p]
  /\ \A w \in Workers : <<"serving", w>> \in HomeSet /\ HomeMap[<<"serving", w>>] = serving[w]
  /\ \A s \in Slots : /\ <<"ready", s>> \in HomeSet
                      /\ HomeMap[<<"ready", s>>] = ready_queue[s]
                      /\ <<"accepted", s>> \in HomeSet
                      /\ HomeMap[<<"accepted", s>>] = accepted_queue[s]
                      /\ <<"admission", s>> \in HomeSet
                      /\ HomeMap[<<"admission", s>>] = admissions[s]
  /\ <<"promote", 0>> \in HomeSet /\ HomeMap[<<"promote", 0>>] = inflight

\* What each place owns.
LEMMA HomeValues == HomeFacts
<1>1. \A p \in Producers : <<"held", p>> \in HomeSet /\ HomeMap[<<"held", p>>] = held[p]
  BY DEF HomeSet, HomeMap, Holder
<1>2. \A w \in Workers : <<"serving", w>> \in HomeSet /\ HomeMap[<<"serving", w>>] = serving[w]
  BY DEF HomeSet, HomeMap, Holder
<1>3. \A s \in Slots : <<"ready", s>> \in HomeSet /\ HomeMap[<<"ready", s>>] = ready_queue[s]
  BY DEF HomeSet, HomeMap, Holder
<1>4. \A s \in Slots : <<"accepted", s>> \in HomeSet /\ HomeMap[<<"accepted", s>>] = accepted_queue[s]
  BY DEF HomeSet, HomeMap, Holder
<1>5. \A s \in Slots : <<"admission", s>> \in HomeSet /\ HomeMap[<<"admission", s>>] = admissions[s]
  BY DEF HomeSet, HomeMap, Holder
<1>6. <<"promote", 0>> \in HomeSet /\ HomeMap[<<"promote", 0>>] = inflight
  BY DEF HomeSet, HomeMap, Holder
<1>. QED  BY <1>1, <1>2, <1>3, <1>4, <1>5, <1>6 DEF HomeFacts

\* Two maps agree if they agree on every kind of place.
LEMMA HomeCases ==
  ASSUME NEW G, NEW A,
         \A p \in Producers : G[<<"held", p>>] = A[<<"held", p>>],
         \A w \in Workers : G[<<"serving", w>>] = A[<<"serving", w>>],
         \A s \in Slots : G[<<"ready", s>>] = A[<<"ready", s>>],
         \A s \in Slots : G[<<"accepted", s>>] = A[<<"accepted", s>>],
         \A s \in Slots : G[<<"admission", s>>] = A[<<"admission", s>>],
         G[<<"promote", 0>>] = A[<<"promote", 0>>]
  PROVE  \A x \in HomeSet : G[x] = A[x]
BY DEF HomeSet

\* Who owns nothing, by its place in the code.
HandsInv ==
  /\ \A p \in Producers : ppc[p] \in {"idle", "notify"} => held[p] = None
  /\ \A w \in Workers :
       /\ wpc[w] \in {"notify", "process"} => serving[w] \in Connections
       /\ wpc[w] \notin {"notify", "process"} => serving[w] = None

OwnershipInv == Owned(HomeMap, fate) /\ HandsInv

\* A connection that is live has one home, any other none.
LEMMA OwnedMeansOneOwner == Owned(HomeMap, fate) => OneOwner
<1>. SUFFICES ASSUME Owned(HomeMap, fate), NEW c \in Connections
              PROVE  Cardinality(Homes(c)) = IF fate[c] = "live" THEN 1 ELSE 0
  BY DEF OneOwner
<1>1. \A x : x \in Homes(c) <=> x \in HomeSet /\ HomeMap[x] = c
  <2>1. \A x \in Homes(c) : x \in HomeSet /\ HomeMap[x] = c
    BY ZenonT(40), HomeValues DEF HomeFacts, Homes
  <2>2. \A x \in HomeSet : HomeMap[x] = c => x \in Homes(c)
    <3>. SUFFICES ASSUME NEW x \in HomeSet, HomeMap[x] = c PROVE x \in Homes(c)
      OBVIOUS
    <3>1. ASSUME NEW p \in Producers, x = <<"held", p>> PROVE x \in Homes(c)
      BY <3>1, HomeValues DEF HomeFacts, Homes
    <3>2. ASSUME NEW w \in Workers, x = <<"serving", w>> PROVE x \in Homes(c)
      BY <3>2, HomeValues DEF HomeFacts, Homes
    <3>3. ASSUME NEW s \in Slots, x \in {<<"ready", s>>, <<"accepted", s>>, <<"admission", s>>}
          PROVE  x \in Homes(c)
      BY ZenonT(40), <3>3, HomeValues DEF HomeFacts, Homes
    <3>4. CASE x = <<"promote", 0>>
      BY <3>4, HomeValues DEF HomeFacts, Homes
    <3>. QED  BY <3>1, <3>2, <3>3, <3>4 DEF HomeSet
  <2>. QED  BY <2>1, <2>2
<1>2. CASE fate[c] = "live"
  <2>1. PICK x \in HomeSet : HomeMap[x] = c
    BY <1>2 DEF Owned
  <2>2. Homes(c) = {x}
    BY <1>1, <2>1, DispatcherAssumptions DEF Owned
  <2>. QED  BY <1>2, <2>2, FS_Singleton
<1>3. CASE fate[c] # "live"
  <2>1. Homes(c) = {}
    BY <1>1, <1>3 DEF Owned
  <2>. QED  BY <1>3, <2>1, FS_EmptySet
<1>. QED  BY <1>2, <1>3

\* At first no place owns anything.
LEMMA InitOwnership == Init => OwnershipInv
<1>. SUFFICES ASSUME Init PROVE OwnershipInv
  OBVIOUS
<1>1. PICK A : A = [y \in HomeSet |-> None]
  OBVIOUS
<1>2. \A x \in HomeSet : A[x] = None
  BY <1>1
<1>3. /\ \A p \in Producers : HomeMap[<<"held", p>>] = A[<<"held", p>>]
      /\ \A w \in Workers : HomeMap[<<"serving", w>>] = A[<<"serving", w>>]
      /\ \A s \in Slots : HomeMap[<<"ready", s>>] = A[<<"ready", s>>]
      /\ \A s \in Slots : HomeMap[<<"accepted", s>>] = A[<<"accepted", s>>]
      /\ \A s \in Slots : HomeMap[<<"admission", s>>] = A[<<"admission", s>>]
      /\ HomeMap[<<"promote", 0>>] = A[<<"promote", 0>>]
  BY <1>2, HomeValues DEF HomeFacts, Init
<1>4. \A x \in HomeSet : HomeMap[x] = A[x]
  BY <1>3, HomeCases
<1>5. Owned(HomeMap, fate)
  BY <1>2, <1>4, DispatcherAssumptions DEF Owned, Init
<1>6. HandsInv
  BY DEF Init, HandsInv
<1>. QED  BY <1>5, <1>6 DEF OwnershipInv

homeVars == <<held, serving, ready_queue, accepted_queue, admissions, inflight, fate>>

\* The steps in which no connection moves.
Quiet ==
  \/ SpuriousWakeup \/ Create \/ CreateFail
  \/ \E p \in Producers : SubmitInvalid(p) \/ SubmitNotify(p) \/ Cancel(p)
  \/ \E w \in Workers : WorkerExit(w) \/ WorkerNotify(w)
  \/ AdmissionCheck \/ DrainDone \/ PollReturn \/ PollFail \/ WalkDone \/ PromoteNotify
  \/ AdmissionThrow
  \/ \E t \in Callers : StopCall(t) \/ StopAdmission(t) \/ StopWorkers(t) \/ StopNotify(t)
  \/ DestroyBegin \/ DestroyJoinAdmission \/ DestroyJoinWorkers
  \/ \E c \in Connections : TimeoutPasses(c)
  \/ Destroyed \/ UNCHANGED vars

\* The steps in which one does.
Moving ==
  \/ \E p \in Producers, c \in Connections : SubmitBegin(p, c)
  \/ \E p \in Producers : SubmitLock(p)
  \/ \E w \in Workers : WorkerTake(w) \/ HandlerReturn(w)
  \/ DrainOne \/ Inspect \/ Sweep \/ Promote \/ AdmissionExit
  \/ \E t \in Callers : StopLock(t)

\* Every step is of one of the two kinds.
LEMMA StepKinds == [Next]_vars => Quiet \/ Moving
<1>1. Stoppers \subseteq Callers
  BY DEF Callers
<1>. QED
  BY <1>1 DEF Next, InternalNext, ClientNext, ProducerNext, WorkerNext, AdmissionNext, StopNext,
              DestroyNext, Quiet, Moving

\* A quiet step leaves the places, the rings and the stop flag alone.
LEMMA QuietHomes ==
  ASSUME Quiet
  PROVE  UNCHANGED <<homeVars, ready_head, ready_count, stopping>>
<1>. USE DEF readyVars, acceptedVars, slotVars, producerVars, workerVars, loopVars, wakeVars,
             stopVars, vars, homeVars
<1>1. CASE SpuriousWakeup \/ Create \/ CreateFail
  BY <1>1 DEF SpuriousWakeup, Create, CreateFail
<1>2. CASE \E p \in Producers : SubmitInvalid(p) \/ SubmitNotify(p) \/ Cancel(p)
  BY <1>2 DEF SubmitInvalid, SubmitNotify, Cancel
<1>3. CASE \E w \in Workers : WorkerExit(w) \/ WorkerNotify(w)
  BY <1>3 DEF WorkerExit, WorkerNotify
<1>4. CASE AdmissionCheck \/ DrainDone \/ PollReturn \/ PollFail \/ WalkDone \/ PromoteNotify
           \/ AdmissionThrow
  BY <1>4 DEF AdmissionCheck, DrainDone, PollReturn, PollFail, WalkDone, PromoteNotify,
              AdmissionThrow
<1>5. CASE \E t \in Callers : StopCall(t) \/ StopAdmission(t) \/ StopWorkers(t) \/ StopNotify(t)
  BY <1>5 DEF StopCall, StopAdmission, StopWorkers, StopNotify
<1>6. CASE DestroyBegin \/ DestroyJoinAdmission \/ DestroyJoinWorkers
           \/ (\E c \in Connections : TimeoutPasses(c)) \/ Destroyed \/ UNCHANGED vars
  BY <1>6 DEF DestroyBegin, DestroyJoinAdmission, DestroyJoinWorkers, TimeoutPasses, Destroyed
<1>. QED  BY <1>1, <1>2, <1>3, <1>4, <1>5, <1>6 DEF Quiet

\* What a step without a dequeue, an enqueue or a return does to the program counters.
CountersFit ==
  /\ \A p \in Producers : ppc'[p] \in {"idle", "notify"} => ppc[p] \in {"idle", "notify"}
  /\ \A w \in Workers : wpc'[w] \in {"notify", "process"} <=> wpc[w] \in {"notify", "process"}

\* A quiet step moves nobody into or out of the places that own a connection.
LEMMA QuietCounters ==
  ASSUME TypeOK, Quiet
  PROVE  CountersFit
<1>. USE DEF TypeOK, ProducerTypes, WorkerTypes, CountersFit, producerVars, workerVars, vars
<1>1. CASE SpuriousWakeup
  BY <1>1 DEF SpuriousWakeup
<1>2. CASE Create
  BY <1>2 DEF Create
<1>3. CASE CreateFail
  BY <1>3 DEF CreateFail, AllWorkersWoken
<1>4. ASSUME NEW p \in Producers, SubmitInvalid(p) \/ SubmitNotify(p) \/ Cancel(p)
      PROVE  CountersFit
  <2>1. CASE SubmitInvalid(p)
    BY <2>1 DEF SubmitInvalid
  <2>2. CASE SubmitNotify(p)
    BY <2>2 DEF SubmitNotify, NotifyOneWorker
  <2>3. CASE Cancel(p)
    BY <2>3 DEF Cancel, AllProducersWoken
  <2>. QED  BY <1>4, <2>1, <2>2, <2>3
<1>5. ASSUME NEW w \in Workers, WorkerExit(w) \/ WorkerNotify(w)
      PROVE  CountersFit
  <2>1. CASE WorkerExit(w)
    BY <2>1 DEF WorkerExit
  <2>2. CASE WorkerNotify(w)
    BY <2>2 DEF WorkerNotify, NotifyOneProducer
  <2>. QED  BY <1>5, <2>1, <2>2
<1>6. CASE AdmissionCheck \/ DrainDone \/ PollReturn \/ PollFail \/ WalkDone \/ AdmissionThrow
  BY <1>6 DEF AdmissionCheck, DrainDone, PollReturn, PollFail, WalkDone, AdmissionThrow
<1>7. CASE PromoteNotify
  BY <1>7 DEF PromoteNotify, NotifyOneWorker
<1>8. ASSUME NEW t \in Callers, StopCall(t) \/ StopAdmission(t) \/ StopWorkers(t) \/ StopNotify(t)
      PROVE  CountersFit
  <2>1. CASE StopCall(t) \/ StopAdmission(t)
    BY <2>1 DEF StopCall, StopAdmission
  <2>2. CASE StopWorkers(t)
    BY <2>2 DEF StopWorkers, AllWorkersWoken
  <2>3. CASE StopNotify(t)
    BY <2>3 DEF StopNotify, AllWorkersWoken, AllProducersWoken
  <2>. QED  BY <1>8, <2>1, <2>2, <2>3
<1>9. CASE DestroyJoinAdmission
  BY <1>9 DEF DestroyJoinAdmission, AllWorkersWoken
<1>10. CASE DestroyBegin \/ DestroyJoinWorkers
            \/ (\E c \in Connections : TimeoutPasses(c)) \/ Destroyed \/ UNCHANGED vars
  BY <1>10 DEF DestroyBegin, DestroyJoinWorkers, TimeoutPasses, Destroyed
<1>. QED  BY <1>1, <1>2, <1>3, <1>4, <1>5, <1>6, <1>7, <1>8, <1>9, <1>10 DEF Quiet

\* What is in the places stays owned when nothing moves.
LEMMA QuietOwnership ==
  ASSUME TypeOK, OwnershipInv, Quiet
  PROVE  OwnershipInv'
<1>1. UNCHANGED homeVars
  BY QuietHomes DEF homeVars
<1>2. Owned(HomeMap, fate)'
  <2>1. HomeMap' = HomeMap
    BY <1>1 DEF homeVars, HomeMap, Holder
  <2>. QED  BY <1>1, <2>1 DEF OwnershipInv, Owned, homeVars
<1>3. CountersFit
  BY QuietCounters
<1>4. HandsInv'
  BY <1>1, <1>3 DEF OwnershipInv, HandsInv, CountersFit, homeVars
<1>. QED  BY <1>2, <1>4 DEF OwnershipInv

-----------------------------------------------------------------------------
\* The steps that move a connection.

\* What the places own after a step.
HomesBecome(A) ==
  /\ \A p \in Producers : held'[p] = A[<<"held", p>>]
  /\ \A w \in Workers : serving'[w] = A[<<"serving", w>>]
  /\ \A s \in Slots : ready_queue'[s] = A[<<"ready", s>>]
  /\ \A s \in Slots : accepted_queue'[s] = A[<<"accepted", s>>]
  /\ \A s \in Slots : admissions'[s] = A[<<"admission", s>>]
  /\ inflight' = A[<<"promote", 0>>]

\* It is the next value of the map.
LEMMA HomesNext ==
  ASSUME NEW A, HomesBecome(A)
  PROVE  \A x \in HomeSet : HomeMap'[x] = A[x]
<1>1. HomeFacts'
  BY HomeValues, PTL
<1>2. PICK G : G = HomeMap'
  OBVIOUS
<1>3. /\ \A p \in Producers : G[<<"held", p>>] = A[<<"held", p>>]
      /\ \A w \in Workers : G[<<"serving", w>>] = A[<<"serving", w>>]
      /\ \A s \in Slots : G[<<"ready", s>>] = A[<<"ready", s>>]
      /\ \A s \in Slots : G[<<"accepted", s>>] = A[<<"accepted", s>>]
      /\ \A s \in Slots : G[<<"admission", s>>] = A[<<"admission", s>>]
      /\ G[<<"promote", 0>>] = A[<<"promote", 0>>]
  BY <1>1, <1>2 DEF HomeFacts, HomesBecome
<1>4. \A x \in HomeSet : G[x] = A[x]
  BY <1>3, HomeCases
<1>. QED  BY <1>2, <1>4

\* The connection at a goes to b.
Swapped(a, b) ==
  [x \in HomeSet |-> IF x = b THEN HomeMap[a] ELSE IF x = a THEN None ELSE HomeMap[x]]

\* The connections at S are given up.
Emptied(S) == [x \in HomeSet |-> IF x \in S THEN None ELSE HomeMap[x]]

\* A connection changes hands.
LEMMA SwapOwned ==
  ASSUME OwnershipInv, NEW a \in HomeSet, NEW b \in HomeSet, a # b, HomeMap[b] = None,
         HomesBecome(Swapped(a, b)), fate' = fate
  PROVE  Owned(HomeMap, fate)'
<1>1. \A x \in HomeSet : HomeMap'[x] = Swapped(a, b)[x]
  BY HomesNext
<1>2. \A x \in HomeSet :
        HomeMap'[x] = IF x = b THEN HomeMap[a] ELSE IF x = a THEN None ELSE HomeMap[x]
  BY <1>1 DEF Swapped
<1>3. Owned(HomeMap', fate)
  BY <1>2, Transferred DEF OwnershipInv
<1>. QED  BY <1>3 DEF Owned

\* Connections are given up.
LEMMA EmptyOwned ==
  ASSUME OwnershipInv, NEW S \in SUBSET HomeSet, HomesBecome(Emptied(S)),
         \A c \in Connections :
           fate'[c] = "live" <=> fate[c] = "live" /\ ~\E x \in S : HomeMap[x] = c
  PROVE  Owned(HomeMap, fate)'
<1>1. \A x \in HomeSet : HomeMap'[x] = Emptied(S)[x]
  BY HomesNext
<1>2. \A x \in HomeSet : HomeMap'[x] = IF x \in S THEN None ELSE HomeMap[x]
  BY <1>1 DEF Emptied
<1>3. Owned(HomeMap', fate')
  BY <1>2, Released DEF OwnershipInv
<1>. QED  BY <1>3 DEF Owned

\* Nothing moves.
LEMMA SameOwned ==
  ASSUME OwnershipInv, UNCHANGED homeVars
  PROVE  Owned(HomeMap, fate)'
<1>1. HomeMap' = HomeMap
  BY DEF homeVars, HomeMap, Holder
<1>. QED  BY <1>1 DEF OwnershipInv, Owned, homeVars

\* The slot after the youngest ready connection is empty, if there is room.
LEMMA ReadyTailEmpty ==
  ASSUME IInv, ready_count < Capacity
  PROVE  /\ (ready_head + ready_count) % Capacity \in Slots
         /\ ready_queue[(ready_head + ready_count) % Capacity] = None
<1>1. ready_head \in Slots /\ ready_count \in 0 .. Capacity - 1
  BY DispatcherAssumptions DEF IInv, TypeOK, QueueTypes
<1>2. PICK t \in Slots : /\ t = (ready_head + ready_count) % Capacity
                        /\ Distance(ready_head, t) = ready_count
  BY <1>1, TailSlot
<1>3. ready_queue[t] = None
  BY <1>1, <1>2 DEF IInv, QueueInv, RingsWellFormed, RingWellFormed
<1>. QED  BY <1>2, <1>3

\* So is the slot after the youngest accepted one.
LEMMA AcceptedTailEmpty ==
  ASSUME IInv, accepted_count < Capacity
  PROVE  /\ (accepted_head + accepted_count) % Capacity \in Slots
         /\ accepted_queue[(accepted_head + accepted_count) % Capacity] = None
<1>1. accepted_head \in Slots /\ accepted_count \in 0 .. Capacity - 1
  BY DispatcherAssumptions DEF IInv, TypeOK, QueueTypes
<1>2. PICK t \in Slots : /\ t = (accepted_head + accepted_count) % Capacity
                        /\ Distance(accepted_head, t) = accepted_count
  BY <1>1, TailSlot
<1>3. accepted_queue[t] = None
  BY <1>1, <1>2 DEF IInv, QueueInv, RingsWellFormed, RingWellFormed
<1>. QED  BY <1>2, <1>3

\* What a ring or the slots hold.
LEMMA RingMember ==
  ASSUME NEW q, NEW c \in Connections
  PROVE  c \in Ring(q) <=> \E s \in Slots : q[s] = c
BY DispatcherAssumptions DEF Ring

\* HandlerReturn: the worker gives its connection up.
LEMMA HandlerReturnOwned ==
  ASSUME IInv, OwnershipInv, NEW w \in Workers, HandlerReturn(w)
  PROVE  Owned(HomeMap, fate)' /\ HandsInv'
<1>1. PICK S : S = {<<"serving", w>>}
  OBVIOUS
<1>2. /\ serving' = [serving EXCEPT ![w] = None] /\ fate' = [fate EXCEPT ![serving[w]] = "handled"]
      /\ wpc' = [wpc EXCEPT ![w] = "check"]
      /\ UNCHANGED <<held, ppc, ready_queue, accepted_queue, admissions, inflight>>
      /\ serving[w] \in Connections
  BY DEF HandlerReturn, readyVars, acceptedVars, slotVars, producerVars, OwnershipInv, HandsInv
<1>3. S \in SUBSET HomeSet
  BY <1>1, HomeValues DEF HomeFacts
<1>4. HomesBecome(Emptied(S))
  BY <1>1, <1>2, HomeValues DEF HomeFacts, HomesBecome, Emptied, IInv, TypeOK, WorkerTypes
<1>5. \A c \in Connections : fate'[c] = "live" <=> fate[c] = "live" /\ ~\E x \in S : HomeMap[x] = c
  BY <1>1, <1>2, HomeValues DEF HomeFacts, IInv, TypeOK, ConnectionTypes
<1>6. Owned(HomeMap, fate)'
  BY <1>3, <1>4, <1>5, EmptyOwned
<1>7. HandsInv'
  BY <1>2 DEF OwnershipInv, HandsInv, IInv, TypeOK, WorkerTypes
<1>. QED  BY <1>6, <1>7

\* WorkerTake: the oldest ready connection goes to the worker.
LEMMA WorkerTakeOwned ==
  ASSUME IInv, OwnershipInv, NEW w \in Workers, WorkerTake(w)
  PROVE  Owned(HomeMap, fate)' /\ HandsInv'
<1>1. UNCHANGED <<held, ppc, accepted_queue, admissions, inflight, fate>>
      /\ wpc[w] \in {"woken", "check"}
  BY DEF WorkerTake, acceptedVars, slotVars, producerVars
<1>2. CASE Dequeue(w) /\ ready_count > 0 /\ wpc' = [wpc EXCEPT ![w] = "notify"]
  <2>1. PICK a, b : a = <<"ready", ready_head>> /\ b = <<"serving", w>>
    OBVIOUS
  <2>2. /\ serving' = [serving EXCEPT ![w] = ready_queue[ready_head]]
        /\ ready_queue' = [ready_queue EXCEPT ![ready_head] = None]
    BY <1>2 DEF Dequeue
  <2>3. ready_head \in Slots /\ ready_queue[ready_head] \in Connections /\ serving[w] = None
    <3>1. /\ ready_head \in Slots /\ ready_count \in 1 .. Capacity
          /\ ready_queue \in [Slots -> ConnectionOrNone]
          /\ RingWellFormed(ready_queue, ready_head, ready_count)
      BY <1>2, DispatcherAssumptions DEF IInv, TypeOK, QueueTypes, QueueInv, RingsWellFormed
    <3>2. ready_queue[ready_head] # None
      BY <3>1, RingDequeue
    <3>. QED  BY <1>1, <3>1, <3>2 DEF ConnectionOrNone, OwnershipInv, HandsInv
  <2>4. a \in HomeSet /\ b \in HomeSet /\ a # b /\ HomeMap[b] = None
    BY <2>1, <2>3, HomeValues DEF HomeFacts
  <2>5. HomesBecome(Swapped(a, b))
    BY <1>1, <2>1, <2>2, <2>3, HomeValues
    DEF HomeFacts, HomesBecome, Swapped, IInv, TypeOK, WorkerTypes, QueueTypes
  <2>6. Owned(HomeMap, fate)'
    BY <1>1, <2>4, <2>5, SwapOwned
  <2>7. HandsInv'
    BY <1>1, <1>2, <2>2, <2>3 DEF OwnershipInv, HandsInv, IInv, TypeOK, WorkerTypes
  <2>. QED  BY <2>6, <2>7
<1>3. CASE /\ UNCHANGED <<readyVars, serving>>
           /\ wpc' = [wpc EXCEPT ![w] = "wait"] \/ wpc' = [wpc EXCEPT ![w] = "exited"]
  <2>1. Owned(HomeMap, fate)'
    BY <1>1, <1>3, SameOwned DEF homeVars, readyVars
  <2>2. HandsInv'
    BY <1>1, <1>3 DEF OwnershipInv, HandsInv, IInv, TypeOK, WorkerTypes
  <2>. QED  BY <2>1, <2>2
<1>. QED  BY <1>2, <1>3 DEF WorkerTake

\* SubmitBegin: the call takes a new connection, or closes it at once.
LEMMA SubmitBeginOwned ==
  ASSUME IInv, OwnershipInv, NEW p \in Producers, NEW c \in Connections, SubmitBegin(p, c)
  PROVE  Owned(HomeMap, fate)' /\ HandsInv'
<1>1. /\ UNCHANGED <<serving, wpc, ready_queue, accepted_queue, admissions, inflight>>
      /\ fate[c] = "new" /\ held[p] = None /\ fate \in [Connections -> {"new", "live", "handled", "closed"}]
  BY DEF SubmitBegin, readyVars, acceptedVars, slotVars, workerVars, OwnershipInv, HandsInv,
         IInv, TypeOK, ConnectionTypes
<1>2. CASE fate' = [fate EXCEPT ![c] = "closed"] /\ UNCHANGED <<ppc, held>>
  <2>1. PICK S : S = {}
    OBVIOUS
  <2>2. HomesBecome(Emptied(S))
    BY <1>1, <1>2, <2>1, HomeValues DEF HomeFacts, HomesBecome, Emptied
  <2>3. \A d \in Connections : fate'[d] = "live" <=> fate[d] = "live" /\ ~\E x \in S : HomeMap[x] = d
    BY <1>1, <1>2, <2>1
  <2>4. S \in SUBSET HomeSet
    BY <2>1
  <2>5. Owned(HomeMap, fate)'
    BY <2>2, <2>3, <2>4, EmptyOwned
  <2>6. HandsInv'
    BY <1>1, <1>2 DEF OwnershipInv, HandsInv
  <2>. QED  BY <2>5, <2>6
<1>3. CASE /\ ppc' = [ppc EXCEPT ![p] = "lock"] /\ held' = [held EXCEPT ![p] = c]
           /\ fate' = [fate EXCEPT ![c] = "live"]
  <2>1. PICK a : a = <<"held", p>>
    OBVIOUS
  <2>2. a \in HomeSet /\ HomeMap[a] = None
    BY <1>1, <2>1, HomeValues DEF HomeFacts
  <2>3. PICK A : A = [x \in HomeSet |-> IF x = a THEN c ELSE HomeMap[x]]
    OBVIOUS
  <2>4. HomesBecome(A)
    BY <1>1, <1>3, <2>1, <2>3, HomeValues DEF HomeFacts, HomesBecome, IInv, TypeOK, ProducerTypes
  <2>5. \A x \in HomeSet : HomeMap'[x] = IF x = a THEN c ELSE HomeMap[x]
    BY <2>3, <2>4, HomesNext
  <2>6. \A d \in Connections : fate'[d] = IF d = c THEN "live" ELSE fate[d]
    BY <1>1, <1>3
  <2>7. Owned(HomeMap', fate')
    BY <1>1, <2>2, <2>5, <2>6, Acquired DEF OwnershipInv
  <2>8. Owned(HomeMap, fate)'
    BY <2>7 DEF Owned
  <2>9. HandsInv'
    BY <1>1, <1>3 DEF OwnershipInv, HandsInv, IInv, TypeOK, ProducerTypes
  <2>. QED  BY <2>8, <2>9
<1>. QED  BY <1>2, <1>3 DEF SubmitBegin

\* SubmitLock: the call hands its connection to the first stage, or closes it.
LEMMA SubmitLockOwned ==
  ASSUME IInv, OwnershipInv, NEW p \in Producers, SubmitLock(p)
  PROVE  Owned(HomeMap, fate)' /\ HandsInv'
<1>1. /\ UNCHANGED <<serving, wpc, admissions, inflight>>
      /\ ppc[p] = "lock" /\ held[p] \in Connections
      /\ held \in [Producers -> ConnectionOrNone] /\ ppc \in [Producers -> {"idle", "lock", "wait", "notify"}]
      /\ fate \in [Connections -> {"new", "live", "handled", "closed"}]
  BY DEF SubmitLock, slotVars, workerVars, IInv, HeldWhenSubmitting, TypeOK, ProducerTypes, ConnectionTypes
<1>2. CASE SubmitFail(p, "stopped") \/ SubmitFail(p, "cancelled")
  <2>1. PICK S : S = {<<"held", p>>}
    OBVIOUS
  <2>2. /\ fate' = [fate EXCEPT ![held[p]] = "closed"] /\ held' = [held EXCEPT ![p] = None]
        /\ ppc' = [ppc EXCEPT ![p] = "idle"] /\ UNCHANGED <<ready_queue, accepted_queue>>
    BY <1>2 DEF SubmitFail, readyVars, acceptedVars
  <2>3. HomesBecome(Emptied(S))
    BY <1>1, <2>1, <2>2, HomeValues DEF HomeFacts, HomesBecome, Emptied
  <2>4. \A d \in Connections : fate'[d] = "live" <=> fate[d] = "live" /\ ~\E x \in S : HomeMap[x] = d
    BY <1>1, <2>1, <2>2, HomeValues DEF HomeFacts
  <2>5. S \in SUBSET HomeSet
    BY <2>1, HomeValues DEF HomeFacts
  <2>6. Owned(HomeMap, fate)'
    BY <2>3, <2>4, <2>5, EmptyOwned
  <2>7. HandsInv'
    BY <1>1, <2>2 DEF OwnershipInv, HandsInv
  <2>. QED  BY <2>6, <2>7
<1>3. CASE ~stopping /\ SpaceOrStop /\ SubmitEnqueue(p)
  <2>1. /\ held' = [held EXCEPT ![p] = None] /\ ppc' = [ppc EXCEPT ![p] = "notify"]
        /\ fate' = fate
    BY <1>3 DEF SubmitEnqueue
  <2>2. ready_count < Capacity /\ accepted_count < Capacity
    <3>1. owned_count < Capacity
      BY <1>3 DEF SpaceOrStop
    <3>. QED  BY <1>3, <3>1, StageBounds, DispatcherAssumptions DEF IInv, TypeOK, QueueTypes
  <2>3. PICK a : a = <<"held", p>>
    OBVIOUS
  <2>4. \E b \in HomeSet : a # b /\ HomeMap[b] = None /\ HomesBecome(Swapped(a, b))
    <3>1. CASE AdmissionEnabled
      <4>1. PICK s \in Slots : s = (accepted_head + accepted_count) % Capacity /\ accepted_queue[s] = None
        BY <2>2, AcceptedTailEmpty
      <4>2. accepted_queue' = [accepted_queue EXCEPT ![s] = held[p]] /\ UNCHANGED ready_queue
        BY <1>3, <3>1, <4>1 DEF SubmitEnqueue, EnqueueAccepted, readyVars
      <4>3. PICK b : b = <<"accepted", s>>
        OBVIOUS
      <4>4. HomesBecome(Swapped(a, b))
        BY <1>1, <2>1, <2>3, <4>2, <4>3, HomeValues
        DEF HomeFacts, HomesBecome, Swapped, IInv, TypeOK, QueueTypes
      <4>. QED  BY <2>3, <4>1, <4>3, <4>4, HomeValues DEF HomeFacts
    <3>2. CASE ~AdmissionEnabled
      <4>1. PICK s \in Slots : s = (ready_head + ready_count) % Capacity /\ ready_queue[s] = None
        BY <2>2, ReadyTailEmpty
      <4>2. ready_queue' = [ready_queue EXCEPT ![s] = held[p]] /\ UNCHANGED accepted_queue
        BY <1>3, <3>2, <4>1 DEF SubmitEnqueue, EnqueueReady, acceptedVars
      <4>3. PICK b : b = <<"ready", s>>
        OBVIOUS
      <4>4. HomesBecome(Swapped(a, b))
        BY <1>1, <2>1, <2>3, <4>2, <4>3, HomeValues
        DEF HomeFacts, HomesBecome, Swapped, IInv, TypeOK, QueueTypes
      <4>. QED  BY <2>3, <4>1, <4>3, <4>4, HomeValues DEF HomeFacts
    <3>. QED  BY <3>1, <3>2
  <2>5. a \in HomeSet
    BY <2>3, HomeValues DEF HomeFacts
  <2>6. Owned(HomeMap, fate)'
    BY <2>1, <2>4, <2>5, SwapOwned
  <2>7. HandsInv'
    BY <1>1, <2>1 DEF OwnershipInv, HandsInv
  <2>. QED  BY <2>6, <2>7
<1>4. CASE /\ ppc' = [ppc EXCEPT ![p] = "wait"]
           /\ UNCHANGED <<readyVars, acceptedVars, owned_count, fate, held, result>>
  <2>1. Owned(HomeMap, fate)'
    BY <1>1, <1>4, SameOwned DEF homeVars, readyVars, acceptedVars
  <2>2. HandsInv'
    BY <1>1, <1>4 DEF OwnershipInv, HandsInv
  <2>. QED  BY <2>1, <2>2
<1>. QED  BY <1>2, <1>3, <1>4 DEF SubmitLock

\* DrainOne: the oldest accepted connection goes to a free slot.
LEMMA DrainOneOwned ==
  ASSUME IInv, OwnershipInv, DrainOne
  PROVE  Owned(HomeMap, fate)' /\ HandsInv'
<1>1. UNCHANGED <<held, ppc, serving, wpc, ready_queue, inflight, fate>>
  BY DEF DrainOne, readyVars, producerVars, workerVars
<1>2. HandsInv'
  BY <1>1 DEF OwnershipInv, HandsInv
<1>3. CASE FreeSlots = {} \/ accepted_queue[accepted_head] = None
  BY <1>1, <1>2, <1>3, SameOwned DEF DrainOne, homeVars, acceptedVars
<1>4. CASE ~(FreeSlots = {} \/ accepted_queue[accepted_head] = None)
  <2>1. PICK slot : slot = CHOOSE s \in FreeSlots : \A t \in FreeSlots : s <= t
    OBVIOUS
  <2>2. slot \in Slots /\ admissions[slot] = None
    <3>1. FreeSlots \in SUBSET Nat /\ FreeSlots # {}
      BY <1>4, DispatcherAssumptions DEF FreeSlots, Slots
    <3>2. \E s \in FreeSlots : \A t \in FreeSlots : s <= t
      BY <3>1, LeastElement
    <3>. QED  BY <2>1, <3>2 DEF FreeSlots
  <2>3. /\ admissions' = [admissions EXCEPT ![slot] = accepted_queue[accepted_head]]
        /\ accepted_queue' = [accepted_queue EXCEPT ![accepted_head] = None]
    BY <1>4, <2>1 DEF DrainOne
  <2>4. accepted_head \in Slots
    BY DEF IInv, TypeOK, QueueTypes
  <2>5. PICK a, b : a = <<"accepted", accepted_head>> /\ b = <<"admission", slot>>
    OBVIOUS
  <2>6. a \in HomeSet /\ b \in HomeSet /\ a # b /\ HomeMap[b] = None
    BY <2>2, <2>4, <2>5, HomeValues DEF HomeFacts
  <2>7. HomesBecome(Swapped(a, b))
    BY <1>1, <2>2, <2>3, <2>4, <2>5, HomeValues
    DEF HomeFacts, HomesBecome, Swapped, IInv, TypeOK, QueueTypes, ConnectionTypes
  <2>8. Owned(HomeMap, fate)'
    BY <1>1, <2>6, <2>7, SwapOwned
  <2>. QED  BY <1>2, <2>8
<1>. QED  BY <1>3, <1>4

\* MoveOut: the connection leaves its slot for the stack of promote().
LEMMA MoveOutOwned ==
  ASSUME IInv, OwnershipInv, NEW s \in Slots, MoveOut(s), inflight = None,
         UNCHANGED <<held, serving, ready_queue, accepted_queue, fate>>
  PROVE  Owned(HomeMap, fate)'
<1>1. PICK a, b : a = <<"admission", s>> /\ b = <<"promote", 0>>
  OBVIOUS
<1>2. inflight' = admissions[s] /\ admissions' = [admissions EXCEPT ![s] = None]
  BY DEF MoveOut
<1>3. a \in HomeSet /\ b \in HomeSet /\ a # b /\ HomeMap[b] = None
  BY <1>1, HomeValues DEF HomeFacts
<1>4. HomesBecome(Swapped(a, b))
  BY <1>1, <1>2, HomeValues DEF HomeFacts, HomesBecome, Swapped, IInv, TypeOK, ConnectionTypes
<1>. QED  BY <1>3, <1>4, SwapOwned

\* Inspect and Sweep move at most one connection out of its slot.
LEMMA WalkOwned ==
  ASSUME IInv, OwnershipInv, Inspect \/ Sweep
  PROVE  Owned(HomeMap, fate)' /\ HandsInv'
<1>1. /\ UNCHANGED <<held, ppc, serving, wpc, ready_queue, accepted_queue, fate>>
      /\ inflight = None /\ cursor \in Slots
  BY DEF Inspect, Sweep, readyVars, acceptedVars, producerVars, workerVars
<1>2. HandsInv'
  BY <1>1 DEF OwnershipInv, HandsInv
<1>3. MoveOut(cursor) \/ UNCHANGED <<admissions, inflight>>
  BY DEF Inspect, Sweep, slotVars
<1>4. CASE MoveOut(cursor)
  BY <1>1, <1>2, <1>4, MoveOutOwned
<1>5. CASE UNCHANGED <<admissions, inflight>>
  BY <1>1, <1>2, <1>5, SameOwned DEF homeVars
<1>. QED  BY <1>3, <1>4, <1>5

\* Promote: the connection joins the ready ring, or is closed.
LEMMA PromoteOwned ==
  ASSUME IInv, OwnershipInv, Promote
  PROVE  Owned(HomeMap, fate)' /\ HandsInv'
<1>1. /\ UNCHANGED <<held, ppc, serving, wpc, accepted_queue, admissions>>
      /\ inflight' = None /\ inflight \in Connections
      /\ fate \in [Connections -> {"new", "live", "handled", "closed"}]
  BY DEF Promote, acceptedVars, producerVars, workerVars, IInv, TypeOK, ConnectionTypes,
         ConnectionOrNone
<1>2. HandsInv'
  BY <1>1 DEF OwnershipInv, HandsInv
<1>3. CASE stopping
  <2>1. fate' = [fate EXCEPT ![inflight] = "closed"] /\ UNCHANGED ready_queue
    BY <1>3 DEF Promote, readyVars
  <2>2. PICK S : S = {<<"promote", 0>>}
    OBVIOUS
  <2>3. HomesBecome(Emptied(S))
    BY <1>1, <2>1, <2>2, HomeValues DEF HomeFacts, HomesBecome, Emptied
  <2>4. \A d \in Connections : fate'[d] = "live" <=> fate[d] = "live" /\ ~\E x \in S : HomeMap[x] = d
    BY <1>1, <2>1, <2>2, HomeValues DEF HomeFacts
  <2>5. S \in SUBSET HomeSet
    BY <2>2, HomeValues DEF HomeFacts
  <2>6. Owned(HomeMap, fate)'
    BY <2>3, <2>4, <2>5, EmptyOwned
  <2>. QED  BY <1>2, <2>6
<1>4. CASE ~stopping
  <2>1. EnqueueReady(inflight) /\ fate' = fate
    BY <1>4 DEF Promote
  <2>2. ready_count < Capacity
    BY <1>1, <1>4, StageBounds, DispatcherAssumptions DEF IInv, TypeOK, QueueTypes
  <2>3. PICK s \in Slots : s = (ready_head + ready_count) % Capacity /\ ready_queue[s] = None
    BY <2>2, ReadyTailEmpty
  <2>4. ready_queue' = [ready_queue EXCEPT ![s] = inflight]
    BY <2>1, <2>3 DEF EnqueueReady
  <2>5. PICK a, b : a = <<"promote", 0>> /\ b = <<"ready", s>>
    OBVIOUS
  <2>6. a \in HomeSet /\ b \in HomeSet /\ a # b /\ HomeMap[b] = None
    BY <2>3, <2>5, HomeValues DEF HomeFacts
  <2>7. HomesBecome(Swapped(a, b))
    BY <1>1, <2>4, <2>5, HomeValues DEF HomeFacts, HomesBecome, Swapped, IInv, TypeOK, QueueTypes
  <2>8. Owned(HomeMap, fate)'
    BY <2>1, <2>6, <2>7, SwapOwned
  <2>. QED  BY <1>2, <2>8
<1>. QED  BY <1>3, <1>4

\* AdmissionExit: every slot is reset.
LEMMA AdmissionExitOwned ==
  ASSUME IInv, OwnershipInv, AdmissionExit
  PROVE  Owned(HomeMap, fate)' /\ HandsInv'
<1>1. /\ UNCHANGED <<held, ppc, serving, wpc, ready_queue, accepted_queue, inflight>>
      /\ fate' = [c \in Connections |-> IF c \in Ring(admissions) THEN "closed" ELSE fate[c]]
      /\ admissions' = [s \in Slots |-> None]
  BY DEF AdmissionExit, readyVars, acceptedVars, producerVars, workerVars
<1>2. HandsInv'
  BY <1>1 DEF OwnershipInv, HandsInv
<1>3. PICK S : S = {<<"admission", s>> : s \in Slots}
  OBVIOUS
<1>4. S \in SUBSET HomeSet
  BY <1>3, HomeValues DEF HomeFacts
<1>5. HomesBecome(Emptied(S))
  BY <1>1, <1>3, HomeValues DEF HomeFacts, HomesBecome, Emptied
<1>6. \A c \in Connections : c \in Ring(admissions) <=> \E x \in S : HomeMap[x] = c
  <2>. TAKE c \in Connections
  <2>1. c \in Ring(admissions) <=> \E s \in Slots : admissions[s] = c
    BY RingMember
  <2>2. (\E s \in Slots : admissions[s] = c) <=> \E s \in Slots : HomeMap[<<"admission", s>>] = c
    BY HomeValues DEF HomeFacts
  <2>3. (\E s \in Slots : HomeMap[<<"admission", s>>] = c) <=> \E x \in S : HomeMap[x] = c
    BY <1>3
  <2>. QED  BY <2>1, <2>2, <2>3
<1>7. \A c \in Connections : fate'[c] = "live" <=> fate[c] = "live" /\ ~\E x \in S : HomeMap[x] = c
  BY <1>1, <1>6
<1>8. Owned(HomeMap, fate)'
  BY <1>4, <1>5, <1>7, EmptyOwned
<1>. QED  BY <1>2, <1>8

\* StopLock: both rings are emptied.
LEMMA StopLockOwned ==
  ASSUME IInv, OwnershipInv, NEW t \in Callers, StopLock(t)
  PROVE  Owned(HomeMap, fate)' /\ HandsInv'
<1>1. UNCHANGED <<held, ppc, serving, wpc, admissions, inflight>>
  BY DEF StopLock, slotVars, producerVars, workerVars
<1>2. HandsInv'
  BY <1>1 DEF OwnershipInv, HandsInv
<1>3. CASE stopping
  BY <1>1, <1>2, <1>3, SameOwned DEF StopLock, homeVars, readyVars, acceptedVars
<1>4. CASE ~stopping
  <2>1. /\ fate' = [c \in Connections |->
                     IF c \in Ring(ready_queue) \cup Ring(accepted_queue) THEN "closed" ELSE fate[c]]
        /\ ready_queue' = [s \in Slots |-> None] /\ accepted_queue' = [s \in Slots |-> None]
    BY <1>4 DEF StopLock
  <2>2. PICK S : S = {<<"ready", s>> : s \in Slots} \cup {<<"accepted", s>> : s \in Slots}
    OBVIOUS
  <2>3. S \in SUBSET HomeSet
    BY <2>2, HomeValues DEF HomeFacts
  <2>4. HomesBecome(Emptied(S))
    BY <1>1, <2>1, <2>2, HomeValues DEF HomeFacts, HomesBecome, Emptied
  <2>5. \A c \in Connections :
          c \in Ring(ready_queue) \cup Ring(accepted_queue) <=> \E x \in S : HomeMap[x] = c
    <3>. TAKE c \in Connections
    <3>1. /\ c \in Ring(ready_queue) <=> \E s \in Slots : ready_queue[s] = c
          /\ c \in Ring(accepted_queue) <=> \E s \in Slots : accepted_queue[s] = c
      BY RingMember
    <3>2. /\ (\E s \in Slots : ready_queue[s] = c) <=> \E s \in Slots : HomeMap[<<"ready", s>>] = c
          /\ (\E s \in Slots : accepted_queue[s] = c)
               <=> \E s \in Slots : HomeMap[<<"accepted", s>>] = c
      BY HomeValues DEF HomeFacts
    <3>3. ((\E s \in Slots : HomeMap[<<"ready", s>>] = c)
             \/ (\E s \in Slots : HomeMap[<<"accepted", s>>] = c))
          <=> \E x \in S : HomeMap[x] = c
      BY <2>2
    <3>. QED  BY <3>1, <3>2, <3>3
  <2>6. \A c \in Connections : fate'[c] = "live" <=> fate[c] = "live" /\ ~\E x \in S : HomeMap[x] = c
    BY <2>1, <2>5
  <2>7. Owned(HomeMap, fate)'
    BY <2>3, <2>4, <2>6, EmptyOwned
  <2>. QED  BY <1>2, <2>7
<1>. QED  BY <1>3, <1>4

\* Every step keeps one owner for each live connection.
LEMMA OwnershipStep == IInv /\ OwnershipInv /\ [Next]_vars => OwnershipInv'
<1>. SUFFICES ASSUME IInv, OwnershipInv, [Next]_vars PROVE OwnershipInv'
  OBVIOUS
<1>1. CASE Quiet
  BY <1>1, QuietOwnership DEF IInv
<1>2. CASE Moving
  BY <1>2, SubmitBeginOwned, SubmitLockOwned, WorkerTakeOwned, HandlerReturnOwned,
     DrainOneOwned, WalkOwned, PromoteOwned, AdmissionExitOwned, StopLockOwned
  DEF Moving, OwnershipInv
<1>. QED  BY <1>1, <1>2, StepKinds

\* Every place in the dispatcher that can own a connection is accounted for: no two own
\* the same one, and the live connections are exactly those that are owned.
THEOREM Ownership == Spec => []OwnershipInv
BY InitOwnership, OwnershipStep, Invariance, PTL DEF Spec

\* A connection that is neither handled nor closed has exactly one owner, and any other
\* has none, through every hand-over between submit(), the admission thread, the workers
\* and request_stop().
THEOREM EveryConnectionOwned == Spec => []OneOwner
<1>1. OwnershipInv => OneOwner
  BY OwnedMeansOneOwner DEF OwnershipInv
<1>. QED  BY <1>1, Ownership, PTL

-----------------------------------------------------------------------------
\* The phase of a connection in the contract.

\* It follows from the owner.
PhaseFacts ==
  /\ \A c \in Connections : fate[c] = "new" => Phases[c] = "outside"
  /\ \A c \in Connections : fate[c] \in {"handled", "closed"} => Phases[c] = fate[c]
  /\ \A p \in Producers : held[p] \in Connections => Phases[held[p]] = "offered"
  /\ \A s \in Slots : ready_queue[s] \in Connections => Phases[ready_queue[s]] = "queued"
  /\ \A w \in Workers : serving[w] \in Connections => Phases[serving[w]] = "serving"
  /\ \A s \in Slots : accepted_queue[s] \in Connections => Phases[accepted_queue[s]] = "admitting"
  /\ \A s \in Slots : admissions[s] \in Connections => Phases[admissions[s]] = "admitting"
  /\ inflight \in Connections => Phases[inflight] = "admitting"

\* Because each connection has one owner, the cases of PhaseOf() do not overlap.
LEMMA PhaseValues == OwnershipInv => PhaseFacts
<1>. SUFFICES ASSUME OwnershipInv PROVE PhaseFacts
  OBVIOUS
<1>1. \A x, y \in HomeSet : HomeMap[x] = HomeMap[y] /\ HomeMap[x] # None => x = y
  BY DEF OwnershipInv, Owned
<1>2. \A x \in HomeSet : HomeMap[x] \in Connections => fate[HomeMap[x]] = "live"
  BY DEF OwnershipInv, Owned
<1>3. ASSUME NEW x \in HomeSet, HomeMap[x] \in Connections
      PROVE  PhaseOf(HomeMap[x]) =
               IF x[1] = "held" THEN "offered"
               ELSE IF x[1] = "ready" THEN "queued"
               ELSE IF x[1] = "serving" THEN "serving"
               ELSE "admitting"
  <2>1. PICK c \in Connections : c = HomeMap[x] /\ fate[c] = "live" /\ c # None
    BY <1>2, <1>3, DispatcherAssumptions
  <2>2. \A y \in HomeSet : HomeMap[y] = c <=> y = x
    BY <1>1, <2>1
  <2>3. /\ \A p \in Producers : held[p] = c <=> x = <<"held", p>>
        /\ \A w \in Workers : serving[w] = c <=> x = <<"serving", w>>
        /\ \A s \in Slots : ready_queue[s] = c <=> x = <<"ready", s>>
    BY <2>2, HomeValues DEF HomeFacts
  <2>4. c \in Ring(ready_queue) <=> \E s \in Slots : x = <<"ready", s>>
    BY <2>3, RingMember
  <2>5. PhaseOf(c) = IF \E p \in Producers : held[p] = c THEN "offered"
                     ELSE IF c \in Ring(ready_queue) THEN "queued"
                     ELSE IF \E w \in Workers : serving[w] = c THEN "serving"
                     ELSE "admitting"
    BY <2>1 DEF PhaseOf
  <2>6. /\ (\E p \in Producers : x = <<"held", p>>) <=> x[1] = "held"
        /\ (\E s \in Slots : x = <<"ready", s>>) <=> x[1] = "ready"
        /\ (\E w \in Workers : x = <<"serving", w>>) <=> x[1] = "serving"
    BY DEF HomeSet
  <2>. QED  BY <2>1, <2>3, <2>4, <2>5, <2>6
<1>4. /\ \A c \in Connections : fate[c] = "new" => PhaseOf(c) = "outside"
      /\ \A c \in Connections : fate[c] \in {"handled", "closed"} => PhaseOf(c) = fate[c]
  BY DEF PhaseOf
<1>5. ASSUME NEW p \in Producers, held[p] \in Connections PROVE PhaseOf(held[p]) = "offered"
  <2>1. PICK x : x = <<"held", p>>
    OBVIOUS
  <2>2. x \in HomeSet /\ HomeMap[x] = held[p] /\ x[1] = "held"
    BY <2>1, HomeValues DEF HomeFacts
  <2>. QED  BY <1>3, <1>5, <2>2
<1>6. ASSUME NEW s \in Slots, ready_queue[s] \in Connections PROVE PhaseOf(ready_queue[s]) = "queued"
  <2>1. PICK x : x = <<"ready", s>>
    OBVIOUS
  <2>2. x \in HomeSet /\ HomeMap[x] = ready_queue[s] /\ x[1] = "ready"
    BY <2>1, HomeValues DEF HomeFacts
  <2>. QED  BY <1>3, <1>6, <2>2
<1>7. ASSUME NEW w \in Workers, serving[w] \in Connections PROVE PhaseOf(serving[w]) = "serving"
  <2>1. PICK x : x = <<"serving", w>>
    OBVIOUS
  <2>2. x \in HomeSet /\ HomeMap[x] = serving[w] /\ x[1] = "serving"
    BY <2>1, HomeValues DEF HomeFacts
  <2>. QED  BY <1>3, <1>7, <2>2
<1>8. ASSUME NEW s \in Slots, accepted_queue[s] \in Connections PROVE PhaseOf(accepted_queue[s]) = "admitting"
  <2>1. PICK x : x = <<"accepted", s>>
    OBVIOUS
  <2>2. x \in HomeSet /\ HomeMap[x] = accepted_queue[s] /\ x[1] = "accepted"
    BY <2>1, HomeValues DEF HomeFacts
  <2>. QED  BY <1>3, <1>8, <2>2
<1>9. ASSUME NEW s \in Slots, admissions[s] \in Connections PROVE PhaseOf(admissions[s]) = "admitting"
  <2>1. PICK x : x = <<"admission", s>>
    OBVIOUS
  <2>2. x \in HomeSet /\ HomeMap[x] = admissions[s] /\ x[1] = "admission"
    BY <2>1, HomeValues DEF HomeFacts
  <2>. QED  BY <1>3, <1>9, <2>2
<1>10. ASSUME inflight \in Connections PROVE PhaseOf(inflight) = "admitting"
  <2>1. PICK x : x = <<"promote", 0>>
    OBVIOUS
  <2>2. x \in HomeSet /\ HomeMap[x] = inflight /\ x[1] = "promote"
    BY <2>1, HomeValues DEF HomeFacts
  <2>. QED  BY <1>3, <1>10, <2>2
<1>. QED  BY <1>4, <1>5, <1>6, <1>7, <1>8, <1>9, <1>10 DEF PhaseFacts, Phases

\* A connection keeps its phase in a step that changes neither its fate nor whether a
\* producer, the ready ring or a worker owns it.
LEMMA PhaseKept ==
  ASSUME NEW c \in Connections, fate'[c] = fate[c],
         (\E p \in Producers : held'[p] = c) <=> (\E p \in Producers : held[p] = c),
         (\E s \in Slots : ready_queue'[s] = c) <=> (\E s \in Slots : ready_queue[s] = c),
         (\E w \in Workers : serving'[w] = c) <=> (\E w \in Workers : serving[w] = c)
  PROVE  Phases'[c] = Phases[c]
<1>1. c \in Ring(ready_queue) <=> \E s \in Slots : ready_queue[s] = c
  BY RingMember
<1>2. c \in Ring(ready_queue') <=> \E s \in Slots : ready_queue'[s] = c
  BY RingMember
<1>3. Ring(ready_queue)' = Ring(ready_queue')
  BY DEF Ring
<1>4. PhaseOf(c)' = PhaseOf(c)
  BY <1>1, <1>2, <1>3 DEF PhaseOf
<1>. QED  BY <1>4 DEF Phases

\* A live connection is somewhere.
LEMMA LiveSomewhere ==
  ASSUME OwnershipInv, NEW c \in Connections, fate[c] = "live"
  PROVE  \/ \E p \in Producers : held[p] = c
         \/ \E w \in Workers : serving[w] = c
         \/ \E s \in Slots : ready_queue[s] = c \/ accepted_queue[s] = c \/ admissions[s] = c
         \/ inflight = c
<1>1. PICK x \in HomeSet : HomeMap[x] = c
  BY DEF OwnershipInv, Owned
<1>2. ASSUME NEW p \in Producers, x = <<"held", p>> PROVE held[p] = c
  BY <1>1, <1>2, HomeValues DEF HomeFacts
<1>3. ASSUME NEW w \in Workers, x = <<"serving", w>> PROVE serving[w] = c
  BY <1>1, <1>3, HomeValues DEF HomeFacts
<1>4. ASSUME NEW s \in Slots, x \in {<<"ready", s>>, <<"accepted", s>>, <<"admission", s>>}
      PROVE  ready_queue[s] = c \/ accepted_queue[s] = c \/ admissions[s] = c
  BY <1>1, <1>4, HomeValues DEF HomeFacts
<1>5. ASSUME x = <<"promote", 0>> PROVE inflight = c
  BY <1>1, <1>5, HomeValues DEF HomeFacts
<1>. QED  BY <1>1, <1>2, <1>3, <1>4, <1>5 DEF HomeSet

\* Where a connection of each phase is.
LEMMA PhasePlaces ==
  ASSUME TypeOK, OwnershipInv, NEW c \in Connections
  PROVE  /\ Phases[c] = "queued" <=> \E s \in Slots : ready_queue[s] = c
         /\ Phases[c] = "admitting" =>
              (\E s \in Slots : accepted_queue[s] = c \/ admissions[s] = c) \/ inflight = c
<1>1. PhaseFacts
  BY PhaseValues
<1>2. fate[c] \in {"new", "live", "handled", "closed"}
  BY DEF TypeOK, ConnectionTypes
<1>3. CASE fate[c] # "live"
  <2>1. Phases[c] \in {"outside", "handled", "closed"}
    BY <1>1, <1>2, <1>3 DEF PhaseFacts
  <2>2. ~\E s \in Slots : ready_queue[s] = c
    BY <1>1, <2>1 DEF PhaseFacts
  <2>. QED  BY <2>1, <2>2
<1>4. CASE fate[c] = "live"
  BY <1>1, <1>4, LiveSomewhere DEF PhaseFacts
<1>. QED  BY <1>3, <1>4

-----------------------------------------------------------------------------
\* The connections that count against the capacity.

\* The slot k places behind the head.
LEMMA SlotAt ==
  ASSUME NEW h \in Slots, NEW k \in 0 .. Capacity - 1
  PROVE  /\ (h + k) % Capacity \in Slots
         /\ Distance(h, (h + k) % Capacity) = k
BY TailSlot

\* A ring holds at most count connections.
LEMMA RingCardinality ==
  ASSUME NEW q \in [Slots -> ConnectionOrNone], NEW h \in Slots, NEW n \in 0 .. Capacity,
         RingWellFormed(q, h, n)
  PROVE  IsFiniteSet(Ring(q)) /\ Cardinality(Ring(q)) \in Nat /\ Cardinality(Ring(q)) <= n
<1>. DEFINE f == [k \in 0 .. n - 1 |-> q[(h + k) % Capacity]]
<1>1. n \in Nat /\ Capacity \in Nat /\ \A k \in 0 .. n - 1 : k \in 0 .. Capacity - 1
  BY DispatcherAssumptions
<1>2. \A k \in 0 .. n - 1 : f[k] \in Ring(q)
  <2>. TAKE k \in 0 .. n - 1
  <2>1. /\ (h + k) % Capacity \in Slots
        /\ Distance(h, (h + k) % Capacity) = k
    BY <1>1, SlotAt
  <2>2. k < n
    BY <1>1
  <2>3. q[(h + k) % Capacity] # None
    BY <2>1, <2>2 DEF RingWellFormed
  <2>. QED  BY <2>1, <2>3 DEF Ring
<1>3. \A c \in Ring(q) : \E k \in 0 .. n - 1 : f[k] = c
  <2>. TAKE c \in Ring(q)
  <2>1. PICK s \in Slots : q[s] = c /\ c # None
    BY DEF Ring
  <2>2. PICK k : k = Distance(h, s)
    OBVIOUS
  <2>3. k \in 0 .. n - 1 /\ k \in 0 .. Capacity - 1
    BY <1>1, <2>1, <2>2, DistanceType DEF RingWellFormed, Slots
  <2>4. s = (h + k) % Capacity
    BY <2>2, <2>3, TailSlot
  <2>. QED  BY <2>1, <2>3, <2>4
<1>4. f \in Surjection(0 .. n - 1, Ring(q))
  <2>1. f \in [0 .. n - 1 -> Ring(q)]
    BY <1>2
  <2>. HIDE DEF f
  <2>. QED  BY <2>1, <1>3 DEF Surjection
<1>5. IsFiniteSet(0 .. n - 1) /\ Cardinality(0 .. n - 1) = n
  <2>1. /\ IsFiniteSet(0 .. n - 1)
        /\ Cardinality(0 .. n - 1) = IF 0 > n - 1 THEN 0 ELSE (n - 1) - 0 + 1
    BY <1>1, FS_Interval
  <2>. QED  BY <1>1, <2>1
<1>. HIDE DEF f
<1>6. IsFiniteSet(Ring(q)) /\ Cardinality(Ring(q)) <= n
  BY <1>4, <1>5, FS_Surjection
<1>. QED  BY <1>6, FS_CardinalityType

\* So do the slots.
LEMMA SlotsCardinality ==
  ASSUME NEW q \in [Slots -> ConnectionOrNone]
  PROVE  /\ IsFiniteSet(Ring(q)) /\ Cardinality(Ring(q)) \in Nat
         /\ Cardinality(Ring(q)) <= Cardinality(Occupied(q))
<1>. DEFINE f == [s \in Occupied(q) |-> q[s]]
<1>1. f \in Surjection(Occupied(q), Ring(q))
  BY DEF Surjection, Occupied, Ring
<1>2. IsFiniteSet(Occupied(q))
  BY OccupiedFinite
<1>. HIDE DEF f
<1>3. IsFiniteSet(Ring(q)) /\ Cardinality(Ring(q)) <= Cardinality(Occupied(q))
  BY <1>1, <1>2, FS_Surjection
<1>. QED  BY <1>3, FS_CardinalityType

\* Two finite sets together.
LEMMA UnionBound ==
  ASSUME NEW S, NEW T, IsFiniteSet(S), IsFiniteSet(T), NEW m \in Nat, NEW n \in Nat,
         Cardinality(S) <= m, Cardinality(T) <= n
  PROVE  IsFiniteSet(S \cup T) /\ Cardinality(S \cup T) <= m + n
<1>1. /\ IsFiniteSet(S \cup T)
      /\ Cardinality(S \cup T) = Cardinality(S) + Cardinality(T) - Cardinality(S \cap T)
  BY FS_Union
<1>2. Cardinality(S) \in Nat /\ Cardinality(T) \in Nat
  BY FS_CardinalityType
<1>3. IsFiniteSet(S \cap T)
  BY FS_Subset
<1>4. Cardinality(S \cap T) \in Nat
  BY <1>3, FS_CardinalityType
<1>. QED  BY <1>1, <1>2, <1>4

\* While the dispatcher runs, no more connections are pending than owned_count says.
LEMMA PendingBound ==
  ASSUME IInv, OwnershipInv, ~stopping, owned_count < Capacity
  PROVE  Cardinality(Contract!Pending) < Capacity
<1>. DEFINE P == {c \in Connections : Phases[c] \in {"admitting", "queued"}}
<1>1. PICK I : I = IF inflight = None THEN {} ELSE {inflight}
  OBVIOUS
<1>2. PICK i \in Nat : i = IF inflight = None THEN 0 ELSE 1
  OBVIOUS
<1>3. IsFiniteSet(I) /\ Cardinality(I) <= i
  BY <1>1, <1>2, FS_EmptySet, FS_Singleton
<1>4. /\ ready_queue \in [Slots -> ConnectionOrNone] /\ ready_head \in Slots /\ ready_count \in 0 .. Capacity
      /\ accepted_queue \in [Slots -> ConnectionOrNone] /\ accepted_head \in Slots
      /\ accepted_count \in 0 .. Capacity /\ owned_count \in 0 .. Capacity
      /\ RingWellFormed(ready_queue, ready_head, ready_count)
      /\ RingWellFormed(accepted_queue, accepted_head, accepted_count)
      /\ admissions \in [Slots -> ConnectionOrNone]
  BY DEF IInv, TypeOK, QueueTypes, ConnectionTypes, QueueInv, RingsWellFormed
<1>5. IsFiniteSet(Ring(ready_queue)) /\ Cardinality(Ring(ready_queue)) <= ready_count
  BY <1>4, RingCardinality
<1>6. IsFiniteSet(Ring(accepted_queue)) /\ Cardinality(Ring(accepted_queue)) <= accepted_count
  BY <1>4, RingCardinality
<1>7. PICK m \in Nat : m = Cardinality(Occupied(admissions))
  BY <1>4, OccupiedFinite
<1>8. IsFiniteSet(Ring(admissions)) /\ Cardinality(Ring(admissions)) <= m
  BY <1>4, <1>7, SlotsCardinality
<1>9. ready_count \in Nat /\ accepted_count \in Nat /\ owned_count \in Nat /\ Capacity \in Nat
  BY <1>4, DispatcherAssumptions
<1>10. PICK A, B, a, b : /\ A = Ring(ready_queue) \cup Ring(accepted_queue) /\ a = ready_count + accepted_count
                         /\ B = Ring(admissions) \cup I /\ b = m + i
  OBVIOUS
<1>11. IsFiniteSet(A) /\ Cardinality(A) <= a /\ a \in Nat
  <2>1. IsFiniteSet(A) /\ Cardinality(A) <= ready_count + accepted_count
    BY <1>5, <1>6, <1>9, <1>10, UnionBound
  <2>. QED  BY <1>9, <1>10, <2>1
<1>12. IsFiniteSet(B) /\ Cardinality(B) <= b /\ b \in Nat
  <2>1. m \in Nat /\ i \in Nat
    BY <1>2, <1>7
  <2>2. IsFiniteSet(B) /\ Cardinality(B) <= m + i
    BY <1>3, <1>8, <1>10, <2>1, UnionBound
  <2>. QED  BY <1>10, <2>1, <2>2
<1>13. IsFiniteSet(A \cup B) /\ Cardinality(A \cup B) <= a + b
  BY <1>11, <1>12, UnionBound
<1>14. a + b = owned_count
  BY <1>2, <1>7, <1>9, <1>10 DEF IInv, QueueInv, OwnedCountExact
<1>15. P \subseteq A \cup B
  <2>. SUFFICES ASSUME NEW c \in P PROVE c \in A \cup B
    OBVIOUS
  <2>1. c \in Connections /\ c # None
    BY DispatcherAssumptions
  <2>2. \/ \E s \in Slots : ready_queue[s] = c \/ accepted_queue[s] = c \/ admissions[s] = c
        \/ inflight = c
    BY PhasePlaces DEF IInv
  <2>. QED  BY <1>1, <1>10, <2>1, <2>2, RingMember
<1>. HIDE DEF P
<1>16. P \in SUBSET (A \cup B)
  BY <1>15
<1>17. IsFiniteSet(P) /\ Cardinality(P) <= Cardinality(A \cup B)
  BY <1>13, <1>16, FS_Subset
<1>18. Cardinality(P) \in Nat /\ Cardinality(A \cup B) \in Nat
  BY <1>13, <1>17, FS_CardinalityType
<1>19. Cardinality(P) < Capacity
  BY <1>9, <1>11, <1>12, <1>13, <1>14, <1>17, <1>18
<1>20. Contract!Pending = P
  BY DEF P, Contract!Pending, Contract!InPhase
<1>. QED  BY <1>19, <1>20
-----------------------------------------------------------------------------
\* The queue of the contract.

\* The slot of its i-th element.
LEMMA FifoSlot ==
  ASSUME NEW h \in Slots, NEW i \in 1 .. Capacity
  PROVE  /\ (h + i - 1) % Capacity \in Slots
         /\ \A s \in Slots : Distance(h, s) = i - 1 <=> s = (h + i - 1) % Capacity
<1>1. PICK k \in 0 .. Capacity - 1 : k = i - 1
  BY DispatcherAssumptions
<1>2. h + i - 1 = h + k
  BY <1>1, DispatcherAssumptions DEF Slots
<1>. QED  BY <1>1, <1>2, TailSlot

FifoFacts ==
  /\ Fifo \in Seq(ConnectionOrNone) /\ Len(Fifo) = ready_count
  /\ \A i \in 1 .. ready_count : Fifo[i] = ready_queue[(ready_head + i - 1) % Capacity]

\* Its elements are those of the ring, from the head on.
LEMMA FifoElements == IInv => FifoFacts
<1>. SUFFICES ASSUME IInv PROVE FifoFacts
  OBVIOUS
<1>1. /\ ready_queue \in [Slots -> ConnectionOrNone] /\ ready_head \in Slots
      /\ ready_count \in Nat /\ \A i \in 1 .. ready_count : i \in 1 .. Capacity
  BY DispatcherAssumptions DEF IInv, TypeOK, QueueTypes
<1>2. \A i \in 1 .. ready_count : (ready_head + i - 1) % Capacity \in Slots
  BY <1>1, FifoSlot
<1>3. Fifo \in [1 .. ready_count -> ConnectionOrNone]
  BY <1>1, <1>2 DEF Fifo
<1>4. Fifo \in Seq(ConnectionOrNone)
  BY <1>1, <1>3, SeqDef
<1>5. Len(Fifo) = ready_count
  BY <1>1, <1>3, <1>4, LenProperties
<1>. QED  BY <1>4, <1>5 DEF Fifo, FifoFacts

\* EnqueueReady appends.
LEMMA FifoEnqueued ==
  ASSUME IInv, IInv', ready_count < Capacity, NEW c \in Connections, EnqueueReady(c)
  PROVE  Fifo' = Append(Fifo, c)
<1>1. PICK h, n, q : h = ready_head /\ n = ready_count /\ q = ready_queue
  OBVIOUS
<1>2. /\ q \in [Slots -> ConnectionOrNone] /\ h \in Slots /\ n \in 0 .. Capacity - 1
      /\ n \in Nat /\ Capacity \in Nat
  BY <1>1, DispatcherAssumptions DEF IInv, TypeOK, QueueTypes
<1>3. PICK t \in Slots : /\ t = (h + n) % Capacity
                         /\ \A s \in Slots : Distance(h, s) = n <=> s = t
  BY <1>2, TailSlot
<1>4. ready_queue' = [q EXCEPT ![t] = c] /\ ready_count' = n + 1 /\ ready_head' = h
  BY <1>1, <1>3 DEF EnqueueReady
<1>5. Fifo' \in Seq(ConnectionOrNone) /\ Len(Fifo') = n + 1
  <2>1. FifoFacts'
    BY FifoElements, PTL
  <2>. QED  BY <1>4, <2>1 DEF FifoFacts
<1>6. Fifo \in Seq(ConnectionOrNone) /\ Len(Fifo) = n
  BY <1>1, FifoElements DEF FifoFacts
<1>7. /\ Append(Fifo, c) \in Seq(ConnectionOrNone) /\ Len(Append(Fifo, c)) = n + 1
      /\ \A i \in 1 .. n : Append(Fifo, c)[i] = Fifo[i]
      /\ Append(Fifo, c)[n + 1] = c
  BY <1>6, AppendProperties DEF ConnectionOrNone
<1>8. ASSUME NEW i \in 1 .. n + 1 PROVE Fifo'[i] = Append(Fifo, c)[i]
  <2>1. i \in 1 .. Capacity /\ i \in Int
    BY <1>2
  <2>2. PICK u \in Slots : /\ u = (h + i - 1) % Capacity
                           /\ \A s \in Slots : Distance(h, s) = i - 1 <=> s = u
    BY <1>2, <2>1, FifoSlot
  <2>3. Fifo'[i] = [q EXCEPT ![t] = c][u]
    BY <1>4, <2>2 DEF Fifo
  <2>4. CASE i = n + 1
    <3>1. u = t
      BY <1>2, <1>3, <2>2, <2>4
    <3>. QED  BY <1>2, <1>7, <2>3, <2>4, <3>1
  <2>5. CASE i # n + 1
    <3>1. i \in 1 .. n /\ i - 1 # n
      BY <1>2, <2>1, <2>5
    <3>2. u # t
      BY <1>3, <2>2, <3>1
    <3>3. Fifo[i] = q[u]
      BY <1>1, <2>2, <3>1 DEF Fifo
    <3>. QED  BY <1>2, <1>7, <2>3, <3>1, <3>2, <3>3
  <2>. QED  BY <2>4, <2>5
<1>. QED  BY <1>5, <1>7, <1>8, SeqEqual

\* Dequeue takes the head off.
LEMMA FifoDequeued ==
  ASSUME IInv, IInv', ready_count > 0,
         ready_queue' = [ready_queue EXCEPT ![ready_head] = None],
         ready_head' = (ready_head + 1) % Capacity, ready_count' = ready_count - 1
  PROVE  Fifo # <<>> /\ Head(Fifo) = ready_queue[ready_head] /\ Fifo' = Tail(Fifo)
<1>1. PICK h, n, q : h = ready_head /\ n = ready_count /\ q = ready_queue
  OBVIOUS
<1>2. /\ q \in [Slots -> ConnectionOrNone] /\ h \in Slots /\ n \in 1 .. Capacity
      /\ n \in Nat /\ n - 1 \in Nat /\ Capacity \in Nat
  BY <1>1, DispatcherAssumptions DEF IInv, TypeOK, QueueTypes
<1>3. PICK g \in Slots : /\ g = (h + 1) % Capacity
                         /\ \A s \in Slots : s # h => Distance(g, s) = Distance(h, s) - 1
  BY <1>2, NextHead
<1>4. ready_queue' = [q EXCEPT ![h] = None] /\ ready_count' = n - 1 /\ ready_head' = g
  BY <1>1, <1>3
<1>5. Fifo' \in Seq(ConnectionOrNone) /\ Len(Fifo') = n - 1
  <2>1. FifoFacts'
    BY FifoElements, PTL
  <2>. QED  BY <1>4, <2>1 DEF FifoFacts
<1>6. /\ Fifo \in Seq(ConnectionOrNone) /\ Len(Fifo) = n
      /\ \A i \in 1 .. n : Fifo[i] = q[(h + i - 1) % Capacity]
  BY <1>1, FifoElements DEF FifoFacts
<1>7. Distance(h, h) = 0
  BY <1>2, DispatcherAssumptions DEF Distance, Slots
<1>8. Fifo # <<>> /\ Head(Fifo) = q[h]
  <2>1. 1 \in 1 .. Capacity
    BY <1>2
  <2>2. (h + 1 - 1) % Capacity = h
    BY <1>2, <1>7, <2>1, FifoSlot
  <2>3. Fifo[1] = q[h]
    BY <1>2, <1>6, <2>2
  <2>4. Fifo # <<>>
    BY <1>2, <1>6
  <2>. QED  BY <1>6, <2>3, <2>4, HeadTailProperties
<1>9. /\ Tail(Fifo) \in Seq(ConnectionOrNone) /\ Len(Tail(Fifo)) = n - 1
      /\ \A i \in 1 .. n - 1 : Tail(Fifo)[i] = Fifo[i + 1]
  BY <1>6, <1>8, HeadTailProperties
<1>10. ASSUME NEW i \in 1 .. n - 1 PROVE Fifo'[i] = Tail(Fifo)[i]
  <2>1. i \in 1 .. Capacity /\ i + 1 \in 1 .. Capacity /\ i \in Nat /\ i # 0 /\ i + 1 \in 1 .. n
        /\ i + 1 - 1 = i
    BY <1>2
  <2>2. PICK u \in Slots : /\ u = (h + (i + 1) - 1) % Capacity /\ Distance(h, u) = (i + 1) - 1
    BY <1>2, <2>1, FifoSlot
  <2>3. u # h
    BY <1>7, <2>1, <2>2
  <2>4. Distance(g, u) = i - 1
    BY <1>3, <2>1, <2>2, <2>3
  <2>5. u = (g + i - 1) % Capacity
    BY <2>1, <2>4, FifoSlot
  <2>6. Fifo'[i] = [q EXCEPT ![h] = None][u]
    BY <1>4, <2>5 DEF Fifo
  <2>7. Fifo[i + 1] = q[u]
    BY <1>6, <2>1, <2>2
  <2>. QED  BY <1>2, <1>9, <2>3, <2>6, <2>7
<1>11. Fifo' = Tail(Fifo)
  BY <1>5, <1>9, <1>10, SeqEqual
<1>. QED  BY <1>1, <1>8, <1>11

-----------------------------------------------------------------------------
\* Every step is a step of the contract.

\* The facts about one step that the lemmas below share.
Stepping == IInv /\ IInv' /\ OwnershipInv /\ PhaseFacts /\ PhaseFacts'

\* Updating one place does not change where anybody else is.
LEMMA OthersStay ==
  ASSUME NEW S, NEW T, NEW f \in [S -> T], NEW s \in S, NEW v, NEW d, d # f[s], d # v
  PROVE  (\E x \in S : [f EXCEPT ![s] = v][x] = d) <=> (\E x \in S : f[x] = d)
OBVIOUS

\* One connection changes its phase.
LEMMA PhaseChanges ==
  ASSUME NEW c \in Connections, NEW v, Phases'[c] = v,
         \A d \in Connections \ {c} : Phases'[d] = Phases[d]
  PROVE  Phases' = [Phases EXCEPT ![c] = v]
<1>1. PICK P, Q : P = Phases /\ Q = Phases'
  OBVIOUS
<1>2. P = [d \in Connections |-> P[d]] /\ Q = [d \in Connections |-> Q[d]]
  BY <1>1 DEF Phases
<1>3. Q = [P EXCEPT ![c] = v]
  BY <1>1, <1>2
<1>. QED  BY <1>1, <1>3

\* A set of connections is closed.
LEMMA PhasesDropped ==
  ASSUME NEW D \in SUBSET Connections,
         \A d \in Connections : Phases'[d] = IF d \in D THEN "closed" ELSE Phases[d]
  PROVE  Phases' = Contract!Dropped(D)
<1>1. PICK P, Q : P = Phases /\ Q = Phases'
  OBVIOUS
<1>2. Q = [d \in Connections |-> Q[d]]
  BY <1>1 DEF Phases
<1>3. Q = [d \in Connections |-> IF d \in D THEN "closed" ELSE P[d]]
  BY <1>1, <1>2
<1>. QED  BY <1>1, <1>3 DEF Contract!Dropped

\* The contract counts with its own instance of the library's operator.
LEMMA SameCardinality ==
  ASSUME NEW S
  PROVE  Contract!Cardinality(S) = Cardinality(S)
BY DEF Contract!Cardinality, Cardinality

\* Nothing the contract looks at changes.
LEMMA ContractStutters ==
  ASSUME UNCHANGED <<held, serving, ready_queue, ready_head, ready_count, fate, stopping>>
  PROVE  UNCHANGED Contract!vars
<1>1. Phases' = Phases
  BY DEF Phases, PhaseOf, Ring
<1>2. Fifo' = Fifo
  BY DEF Fifo
<1>. QED  BY <1>1, <1>2 DEF Contract!vars

\* SubmitBegin is the call of the client, or its refusal.
LEMMA SubmitBeginContract ==
  ASSUME Stepping, NEW p \in Producers, NEW c \in Connections, SubmitBegin(p, c)
  PROVE  Contract!Offer(c) \/ Contract!Refuse(c)
<1>1. /\ UNCHANGED <<serving, ready_queue, ready_head, ready_count, stopping>>
      /\ fate[c] = "new" /\ held[p] = None /\ held \in [Producers -> ConnectionOrNone]
      /\ fate \in [Connections -> {"new", "live", "handled", "closed"}]
  BY DEF SubmitBegin, readyVars, workerVars, Stepping, OwnershipInv, HandsInv, IInv, TypeOK,
         ProducerTypes, ConnectionTypes
<1>2. Phases[c] = "outside"
  BY <1>1 DEF Stepping, PhaseFacts
<1>3. Fifo' = Fifo
  BY <1>1 DEF Fifo
<1>4. CASE fate' = [fate EXCEPT ![c] = "closed"] /\ UNCHANGED held
  <2>1. Phases'[c] = "closed"
    BY <1>1, <1>4 DEF Stepping, PhaseFacts
  <2>2. \A d \in Connections \ {c} : Phases'[d] = Phases[d]
    BY <1>1, <1>4, PhaseKept
  <2>3. Phases' = [Phases EXCEPT ![c] = "closed"]
    BY <2>1, <2>2, PhaseChanges
  <2>. QED  BY <1>1, <1>2, <1>3, <2>3 DEF Contract!Refuse
<1>5. CASE fate' = [fate EXCEPT ![c] = "live"] /\ held' = [held EXCEPT ![p] = c]
  <2>1. Phases'[c] = "offered"
    <3>1. held'[p] = c
      BY <1>1, <1>5
    <3>. QED  BY <3>1 DEF Stepping, PhaseFacts
  <2>2. ASSUME NEW d \in Connections \ {c} PROVE Phases'[d] = Phases[d]
    <3>1. d # held[p] /\ d # c /\ fate'[d] = fate[d]
      BY <1>1, <1>5, DispatcherAssumptions
    <3>2. (\E q \in Producers : held'[q] = d) <=> (\E q \in Producers : held[q] = d)
      BY <1>1, <1>5, <3>1, OthersStay
    <3>. QED  BY <1>1, <3>1, <3>2, PhaseKept
  <2>3. Phases' = [Phases EXCEPT ![c] = "offered"]
    BY <2>1, <2>2, PhaseChanges
  <2>. QED  BY <1>1, <1>2, <1>3, <2>3 DEF Contract!Offer
<1>. QED  BY <1>4, <1>5 DEF SubmitBegin

\* SubmitLock refuses, admits or enqueues the call's connection, or waits.
LEMMA SubmitLockContract ==
  ASSUME Stepping, NEW p \in Producers, SubmitLock(p)
  PROVE  \/ \E c \in Connections : Contract!Refuse(c) \/ Contract!Admit(c) \/ Contract!Enqueue(c)
         \/ UNCHANGED Contract!vars
<1>1. PICK c \in Connections : c = held[p]
  BY DEF SubmitLock, Stepping, IInv, HeldWhenSubmitting
<1>2. /\ UNCHANGED <<serving, stopping>> /\ held \in [Producers -> ConnectionOrNone]
      /\ fate \in [Connections -> {"new", "live", "handled", "closed"}]
      /\ ready_queue \in [Slots -> ConnectionOrNone]
      /\ accepted_queue \in [Slots -> ConnectionOrNone]
  BY DEF SubmitLock, workerVars, Stepping, IInv, TypeOK, ProducerTypes, ConnectionTypes, QueueTypes
<1>3. Phases[c] = "offered"
  BY <1>1 DEF Stepping, PhaseFacts
<1>4. ASSUME held' = [held EXCEPT ![p] = None], NEW d \in Connections \ {c}
      PROVE  (\E q \in Producers : held'[q] = d) <=> (\E q \in Producers : held[q] = d)
  BY <1>1, <1>2, <1>4, OthersStay, DispatcherAssumptions
<1>5. CASE SubmitFail(p, "stopped") \/ SubmitFail(p, "cancelled")
  <2>1. /\ fate' = [fate EXCEPT ![c] = "closed"] /\ held' = [held EXCEPT ![p] = None]
        /\ UNCHANGED <<ready_queue, ready_head, ready_count>>
    BY <1>1, <1>5 DEF SubmitFail, readyVars
  <2>2. Phases'[c] = "closed"
    BY <1>2, <2>1 DEF Stepping, PhaseFacts
  <2>3. \A d \in Connections \ {c} : Phases'[d] = Phases[d]
    BY <1>2, <1>4, <2>1, PhaseKept
  <2>4. Phases' = [Phases EXCEPT ![c] = "closed"]
    BY <2>2, <2>3, PhaseChanges
  <2>5. Fifo' = Fifo
    BY <2>1 DEF Fifo
  <2>. QED  BY <1>2, <1>3, <2>4, <2>5 DEF Contract!Refuse
<1>6. CASE ~stopping /\ SpaceOrStop /\ SubmitEnqueue(p)
  <2>1. held' = [held EXCEPT ![p] = None] /\ fate' = fate
    BY <1>6 DEF SubmitEnqueue
  <2>2. owned_count < Capacity
    BY <1>6 DEF SpaceOrStop
  <2>3. ready_count < Capacity /\ accepted_count < Capacity
    BY <1>6, <2>2, StageBounds, DispatcherAssumptions DEF Stepping, IInv, TypeOK, QueueTypes
  <2>4. Contract!Cardinality(Contract!Pending) < Capacity
    BY <1>6, <2>2, PendingBound, SameCardinality DEF Stepping
  <2>5. CASE AdmissionEnabled
    <3>1. PICK s \in Slots : s = (accepted_head + accepted_count) % Capacity
      BY <2>3, AcceptedTailEmpty DEF Stepping
    <3>2. /\ accepted_queue' = [accepted_queue EXCEPT ![s] = c]
          /\ UNCHANGED <<ready_queue, ready_head, ready_count>>
      BY <1>1, <1>6, <2>5, <3>1 DEF SubmitEnqueue, EnqueueAccepted, readyVars
    <3>3. Phases'[c] = "admitting"
      <4>1. accepted_queue'[s] = c
        BY <1>2, <3>2
      <4>. QED  BY <4>1 DEF Stepping, PhaseFacts
    <3>4. \A d \in Connections \ {c} : Phases'[d] = Phases[d]
      BY <1>2, <1>4, <2>1, <3>2, PhaseKept
    <3>5. Phases' = [Phases EXCEPT ![c] = "admitting"]
      BY <3>3, <3>4, PhaseChanges
    <3>6. Fifo' = Fifo
      BY <3>2 DEF Fifo
    <3>7. Contract!Admit(c)
      BY <1>2, <1>3, <1>6, <2>4, <3>5, <3>6 DEF Contract!Admit
    <3>. QED  BY <3>7
  <2>6. CASE ~AdmissionEnabled
    <3>1. EnqueueReady(c)
      BY <1>1, <1>6, <2>6 DEF SubmitEnqueue
    <3>2. PICK s \in Slots : s = (ready_head + ready_count) % Capacity /\ ready_queue[s] = None
      BY <2>3, ReadyTailEmpty DEF Stepping
    <3>3. ready_queue' = [ready_queue EXCEPT ![s] = c]
      BY <3>1, <3>2 DEF EnqueueReady
    <3>4. Phases'[c] = "queued"
      <4>1. ready_queue'[s] = c
        BY <1>2, <3>3
      <4>. QED  BY <4>1 DEF Stepping, PhaseFacts
    <3>5. ASSUME NEW d \in Connections \ {c} PROVE Phases'[d] = Phases[d]
      <4>1. d # ready_queue[s] /\ d # c
        BY <3>2, DispatcherAssumptions
      <4>2. (\E t \in Slots : ready_queue'[t] = d) <=> (\E t \in Slots : ready_queue[t] = d)
        BY <1>2, <3>3, <4>1, OthersStay
      <4>. QED  BY <1>2, <1>4, <2>1, <4>2, PhaseKept
    <3>6. Phases' = [Phases EXCEPT ![c] = "queued"]
      BY <3>4, <3>5, PhaseChanges
    <3>7. Fifo' = Append(Fifo, c)
      BY <2>3, <3>1, FifoEnqueued DEF Stepping
    <3>8. Contract!Enqueue(c)
      BY <1>2, <1>3, <1>6, <2>4, <3>6, <3>7 DEF Contract!Enqueue
    <3>. QED  BY <3>8
  <2>. QED  BY <2>5, <2>6
<1>7. CASE UNCHANGED <<readyVars, acceptedVars, owned_count, fate, held, result>>
  BY <1>2, <1>7, ContractStutters DEF readyVars
<1>. QED  BY <1>5, <1>6, <1>7 DEF SubmitLock
\* WorkerTake serves the oldest ready connection, or nobody.
LEMMA WorkerTakeContract ==
  ASSUME Stepping, NEW w \in Workers, WorkerTake(w)
  PROVE  Contract!Serve \/ UNCHANGED Contract!vars
<1>1. UNCHANGED <<held, fate, stopping>> /\ wpc[w] \in {"woken", "check"}
  BY DEF WorkerTake, producerVars
<1>2. CASE ~stopping /\ ready_count > 0 /\ Dequeue(w)
  <2>1. /\ serving' = [serving EXCEPT ![w] = ready_queue[ready_head]]
        /\ ready_queue' = [ready_queue EXCEPT ![ready_head] = None]
        /\ ready_head' = (ready_head + 1) % Capacity /\ ready_count' = ready_count - 1
    BY <1>2 DEF Dequeue
  <2>2. /\ ready_head \in Slots /\ ready_count \in 1 .. Capacity
        /\ ready_queue \in [Slots -> ConnectionOrNone]
        /\ RingWellFormed(ready_queue, ready_head, ready_count)
        /\ serving \in [Workers -> ConnectionOrNone] /\ serving[w] = None
    BY <1>1, <1>2, DispatcherAssumptions
    DEF Stepping, IInv, TypeOK, QueueTypes, WorkerTypes, QueueInv, RingsWellFormed, OwnershipInv,
        HandsInv
  <2>3. PICK c \in Connections : c = ready_queue[ready_head]
    BY <2>2, RingDequeue DEF ConnectionOrNone
  <2>4. Phases'[c] = "serving"
    <3>1. serving'[w] = c
      BY <2>1, <2>2, <2>3
    <3>. QED  BY <3>1 DEF Stepping, PhaseFacts
  <2>5. ASSUME NEW d \in Connections \ {c} PROVE Phases'[d] = Phases[d]
    <3>1. d # c /\ d # None /\ d # ready_queue[ready_head] /\ d # serving[w]
      BY <2>2, <2>3, DispatcherAssumptions
    <3>2. (\E t \in Slots : ready_queue'[t] = d) <=> (\E t \in Slots : ready_queue[t] = d)
      BY <2>1, <2>2, <3>1, OthersStay
    <3>3. (\E v \in Workers : serving'[v] = d) <=> (\E v \in Workers : serving[v] = d)
      BY <2>1, <2>2, <2>3, <3>1, OthersStay
    <3>. QED  BY <1>1, <3>2, <3>3, PhaseKept
  <2>6. Phases' = [Phases EXCEPT ![c] = "serving"]
    BY <2>4, <2>5, PhaseChanges
  <2>7. Fifo # <<>> /\ Head(Fifo) = c /\ Fifo' = Tail(Fifo)
    BY <1>2, <2>1, <2>3, FifoDequeued DEF Stepping
  <2>. QED  BY <1>1, <1>2, <2>6, <2>7 DEF Contract!Serve
<1>3. CASE UNCHANGED <<readyVars, serving>>
  BY <1>1, <1>3, ContractStutters DEF readyVars
<1>. QED  BY <1>2, <1>3 DEF WorkerTake

\* HandlerReturn ends the service.
LEMMA HandlerReturnContract ==
  ASSUME Stepping, NEW w \in Workers, HandlerReturn(w)
  PROVE  \E c \in Connections : Contract!Finish(c)
<1>1. /\ UNCHANGED <<held, ready_queue, ready_head, ready_count, stopping>>
      /\ serving \in [Workers -> ConnectionOrNone]
      /\ fate \in [Connections -> {"new", "live", "handled", "closed"}]
  BY DEF HandlerReturn, readyVars, producerVars, Stepping, IInv, TypeOK, WorkerTypes, ConnectionTypes
<1>2. PICK c \in Connections : c = serving[w]
  BY DEF HandlerReturn, Stepping, OwnershipInv, HandsInv
<1>3. fate' = [fate EXCEPT ![c] = "handled"] /\ serving' = [serving EXCEPT ![w] = None]
  BY <1>2 DEF HandlerReturn
<1>4. Phases[c] = "serving" /\ Phases'[c] = "handled"
  BY <1>1, <1>2, <1>3 DEF Stepping, PhaseFacts
<1>5. ASSUME NEW d \in Connections \ {c} PROVE Phases'[d] = Phases[d]
  <2>1. d # None /\ d # serving[w] /\ fate'[d] = fate[d]
    BY <1>1, <1>2, <1>3, DispatcherAssumptions
  <2>2. (\E v \in Workers : serving'[v] = d) <=> (\E v \in Workers : serving[v] = d)
    BY <1>1, <1>3, <2>1, OthersStay
  <2>. QED  BY <1>1, <2>1, <2>2, PhaseKept
<1>6. Phases' = [Phases EXCEPT ![c] = "handled"]
  BY <1>4, <1>5, PhaseChanges
<1>7. Fifo' = Fifo
  BY <1>1 DEF Fifo
<1>. QED  BY <1>1, <1>4, <1>6, <1>7 DEF Contract!Finish

\* Inside the admission stage a connection moves unseen.
LEMMA AdmissionContract ==
  ASSUME DrainOne \/ Inspect \/ Sweep
  PROVE  UNCHANGED Contract!vars
<1>1. UNCHANGED <<held, serving, ready_queue, ready_head, ready_count, fate, stopping>>
  BY DEF DrainOne, Inspect, Sweep, readyVars, producerVars, workerVars
<1>. QED  BY <1>1, ContractStutters

\* Promote makes a connection ready, or drops it once the dispatcher is stopping.
LEMMA PromoteContract ==
  ASSUME Stepping, Promote
  PROVE  (\E c \in Connections : Contract!Enqueue(c)) \/ Contract!Drop
<1>1. /\ UNCHANGED <<held, serving, stopping>> /\ inflight # None
      /\ fate \in [Connections -> {"new", "live", "handled", "closed"}]
      /\ ready_queue \in [Slots -> ConnectionOrNone]
  BY DEF Promote, producerVars, workerVars, Stepping, IInv, TypeOK, ConnectionTypes, QueueTypes
<1>2. PICK c \in Connections : c = inflight
  BY <1>1 DEF Stepping, IInv, TypeOK, ConnectionTypes, ConnectionOrNone
<1>3. Phases[c] = "admitting"
  BY <1>2 DEF Stepping, PhaseFacts
<1>4. CASE stopping
  <2>1. /\ fate' = [fate EXCEPT ![c] = "closed"]
        /\ UNCHANGED <<ready_queue, ready_head, ready_count>>
    BY <1>2, <1>4 DEF Promote, readyVars
  <2>2. Phases'[c] = "closed"
    BY <1>1, <2>1 DEF Stepping, PhaseFacts
  <2>3. \A d \in Connections \ {c} : Phases'[d] = Phases[d]
    BY <1>1, <2>1, PhaseKept
  <2>4. \A d \in Connections : Phases'[d] = IF d \in {c} THEN "closed" ELSE Phases[d]
    BY <2>2, <2>3
  <2>5. Phases' = Contract!Dropped({c})
    BY <2>4, PhasesDropped
  <2>6. {c} \in SUBSET Contract!InPhase("admitting")
    BY <1>3 DEF Contract!InPhase
  <2>7. Fifo' = Fifo
    BY <2>1 DEF Fifo
  <2>. QED  BY <1>1, <1>4, <2>5, <2>6, <2>7 DEF Contract!Drop
<1>5. CASE ~stopping
  <2>1. EnqueueReady(c) /\ fate' = fate
    BY <1>2, <1>5 DEF Promote
  <2>2. ready_count < Capacity
    BY <1>1, <1>5, StageBounds, DispatcherAssumptions DEF Stepping, IInv, TypeOK, QueueTypes
  <2>3. PICK s \in Slots : s = (ready_head + ready_count) % Capacity /\ ready_queue[s] = None
    BY <2>2, ReadyTailEmpty DEF Stepping
  <2>4. ready_queue' = [ready_queue EXCEPT ![s] = c]
    BY <2>1, <2>3 DEF EnqueueReady
  <2>5. Phases'[c] = "queued"
    <3>1. ready_queue'[s] = c
      BY <1>1, <2>4
    <3>. QED  BY <3>1 DEF Stepping, PhaseFacts
  <2>6. ASSUME NEW d \in Connections \ {c} PROVE Phases'[d] = Phases[d]
    <3>1. d # ready_queue[s] /\ d # c
      BY <2>3, DispatcherAssumptions
    <3>2. (\E t \in Slots : ready_queue'[t] = d) <=> (\E t \in Slots : ready_queue[t] = d)
      BY <1>1, <2>4, <3>1, OthersStay
    <3>. QED  BY <1>1, <2>1, <3>2, PhaseKept
  <2>7. Phases' = [Phases EXCEPT ![c] = "queued"]
    BY <2>5, <2>6, PhaseChanges
  <2>8. Fifo' = Append(Fifo, c)
    BY <2>1, <2>2, FifoEnqueued DEF Stepping
  <2>9. Contract!Enqueue(c)
    BY <1>1, <1>3, <1>5, <2>7, <2>8 DEF Contract!Enqueue
  <2>. QED  BY <2>9
<1>. QED  BY <1>4, <1>5

\* AdmissionExit drops what is left in the slots; the dispatcher is stopping by then.
LEMMA AdmissionExitContract ==
  ASSUME Stepping, AdmissionExit
  PROVE  Contract!Drop
<1>1. /\ UNCHANGED <<held, serving, ready_queue, ready_head, ready_count, stopping>>
      /\ fate' = [c \in Connections |-> IF c \in Ring(admissions) THEN "closed" ELSE fate[c]]
      /\ admissions \in [Slots -> ConnectionOrNone]
  BY DEF AdmissionExit, readyVars, producerVars, workerVars, Stepping, IInv, TypeOK, ConnectionTypes
<1>2. stopping
  BY DEF AdmissionExit, Stepping, IInv, StopReasons, Callers
<1>3. PICK D \in SUBSET Connections : D = Ring(admissions)
  BY <1>1 DEF Ring, ConnectionOrNone
<1>4. \A d \in Connections : Phases'[d] = IF d \in D THEN "closed" ELSE Phases[d]
  <2>1. \A d \in D : Phases'[d] = "closed"
    BY <1>1, <1>3 DEF Stepping, PhaseFacts
  <2>2. \A d \in Connections \ D : Phases'[d] = Phases[d]
    BY <1>1, <1>3, PhaseKept
  <2>. QED  BY <2>1, <2>2
<1>5. Phases' = Contract!Dropped(D)
  BY <1>4, PhasesDropped
<1>6. D \in SUBSET Contract!InPhase("admitting")
  <2>1. \A d \in D : Phases[d] = "admitting"
    BY <1>3, RingMember DEF Stepping, PhaseFacts
  <2>. QED  BY <2>1 DEF Contract!InPhase
<1>7. Fifo' = Fifo
  BY <1>1 DEF Fifo
<1>. QED  BY <1>1, <1>2, <1>5, <1>6, <1>7 DEF Contract!Drop

\* StopLock is the stop: the ready connections and those not yet in a slot are closed.
LEMMA StopLockContract ==
  ASSUME Stepping, NEW t \in Callers, StopLock(t)
  PROVE  Contract!Stop \/ UNCHANGED Contract!vars
<1>1. UNCHANGED <<held, serving>>
  BY DEF StopLock, producerVars, workerVars
<1>2. CASE stopping
  BY <1>1, <1>2, ContractStutters DEF StopLock, readyVars
<1>3. CASE ~stopping
  <2>1. /\ fate' = [c \in Connections |->
                     IF c \in Ring(ready_queue) \cup Ring(accepted_queue) THEN "closed" ELSE fate[c]]
        /\ ready_queue' = [s \in Slots |-> None] /\ ready_count' = 0 /\ stopping' = TRUE
    BY <1>3 DEF StopLock
  <2>2. PICK D, Q : D = Ring(accepted_queue) /\ Q = Ring(ready_queue)
    OBVIOUS
  <2>3. D \in SUBSET Connections /\ Q \in SUBSET Connections
    BY <2>2 DEF Ring, ConnectionOrNone, Stepping, IInv, TypeOK, QueueTypes
  <2>4. Q = Contract!InPhase("queued")
    <3>1. \A c \in Connections : Phases[c] = "queued" <=> \E s \in Slots : ready_queue[s] = c
      BY PhasePlaces DEF Stepping, IInv
    <3>2. \A c \in Connections : Phases[c] = "queued" <=> c \in Q
      BY <2>2, <3>1, RingMember
    <3>. QED  BY <2>3, <3>2 DEF Contract!InPhase
  <2>5. \A d \in Connections : Phases'[d] = IF d \in D \cup Q THEN "closed" ELSE Phases[d]
    <3>1. \A d \in D \cup Q : Phases'[d] = "closed"
      BY <2>1, <2>2, <2>3 DEF Stepping, PhaseFacts
    <3>2. ASSUME NEW d \in Connections \ (D \cup Q) PROVE Phases'[d] = Phases[d]
      <4>1. fate'[d] = fate[d]
        BY <2>1, <2>2
      <4>2. (\E s \in Slots : ready_queue'[s] = d) <=> (\E s \in Slots : ready_queue[s] = d)
        BY <2>1, <2>2, RingMember, DispatcherAssumptions
      <4>. QED  BY <1>1, <4>1, <4>2, PhaseKept
    <3>. QED  BY <3>1, <3>2
  <2>6. Phases' = Contract!Dropped(D \cup Q)
    BY <2>3, <2>5, PhasesDropped
  <2>7. D \in SUBSET Contract!InPhase("admitting")
    <3>1. \A d \in D : Phases[d] = "admitting"
      BY <2>2, <2>3, RingMember DEF Stepping, PhaseFacts
    <3>. QED  BY <2>3, <3>1 DEF Contract!InPhase
  <2>8. Fifo' = <<>>
    BY <2>1 DEF Fifo
  <2>. QED  BY <1>3, <2>1, <2>4, <2>6, <2>7, <2>8 DEF Contract!Stop
<1>. QED  BY <1>2, <1>3

\* The dispatcher starts as the contract does.
LEMMA InitContract == Init => Contract!Init
<1>. SUFFICES ASSUME Init PROVE Contract!Init
  OBVIOUS
<1>1. Phases = [c \in Connections |-> "outside"]
  BY DEF Init, Phases, PhaseOf
<1>2. Fifo = <<>>
  BY DEF Init, Fifo
<1>. QED  BY <1>1, <1>2 DEF Init, Contract!Init

\* Every step is a step of the contract, or one it does not see.
LEMMA ContractStep ==
  ASSUME IInv, IInv', OwnershipInv, OwnershipInv', [Next]_vars
  PROVE  [Contract!Next]_(Contract!vars)
<1>1. PhaseFacts /\ PhaseFacts'
  BY PhaseValues, PTL
<1>2. Stepping
  BY <1>1 DEF Stepping
<1>3. CASE Quiet
  BY <1>3, QuietHomes, ContractStutters DEF homeVars
<1>4. ASSUME NEW p \in Producers, NEW c \in Connections, SubmitBegin(p, c)
      PROVE  Contract!Next
  BY <1>2, <1>4, SubmitBeginContract DEF Contract!Next
<1>5. ASSUME NEW p \in Producers, SubmitLock(p)
      PROVE  Contract!Next \/ UNCHANGED Contract!vars
  BY <1>2, <1>5, SubmitLockContract DEF Contract!Next
<1>6. ASSUME NEW w \in Workers, WorkerTake(w) \/ HandlerReturn(w)
      PROVE  Contract!Next \/ UNCHANGED Contract!vars
  BY <1>2, <1>6, WorkerTakeContract, HandlerReturnContract DEF Contract!Next
<1>7. CASE DrainOne \/ Inspect \/ Sweep
  BY <1>7, AdmissionContract
<1>8. CASE Promote \/ AdmissionExit
  BY <1>2, <1>8, PromoteContract, AdmissionExitContract DEF Contract!Next
<1>9. ASSUME NEW t \in Callers, StopLock(t)
      PROVE  Contract!Next \/ UNCHANGED Contract!vars
  BY <1>2, <1>9, StopLockContract DEF Contract!Next
<1>. QED  BY <1>3, <1>4, <1>5, <1>6, <1>7, <1>8, <1>9, StepKinds DEF Moving

\* The dispatcher implements its contract: with any number of threads, through the two
\* rings, the slots, the lock-free part of promote() and the stop, a client sees one
\* bounded queue that serves in order and drops nothing before it is stopped.
THEOREM ContractImplemented == Spec => ImplementsContract
<1>1. IInv /\ IInv' /\ OwnershipInv /\ OwnershipInv' /\ [Next]_vars
        => [Contract!Next]_(Contract!vars)
  BY ContractStep
<1>. QED
  BY <1>1, InitContract, Invariance, Ownership, PTL DEF Spec, ImplementsContract, Contract!Spec
=============================================================================
