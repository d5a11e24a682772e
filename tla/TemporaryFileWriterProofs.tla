---------------------- MODULE TemporaryFileWriterProofs ----------------------
(***************************************************************************)
(* The places of the file workers are counted exactly and the files are     *)
(* safe whoever is interrupted or destroyed when: for any number of         *)
(* writers, places and operations.                                          *)
(***************************************************************************)
EXTENDS TemporaryFileWriter, FiniteSetTheorems, TLAPS

Tickets == 1 .. MaxOperations

\* Where a writer's tickets are: a number beyond those taken was never given out, and the
\* ones with the caller, in State and with the worker are different.
TicketsPlaced(w) ==
  /\ cpc[w] = "acquire" => taken[w] < MaxOperations
  /\ \A n \in Tickets : n > taken[w] => ticket[w][n] = "none"
  /\ queued[w] =< taken[w] /\ (pending[w] => queued[w] # 0)
  /\ cpc[w] = "enqueue" => call[w].ticket \in 1 .. taken[w] /\ call[w].ticket # queued[w]
  /\ wpc[w] \in {"cleanup", "release"} =>
       /\ local[w].ticket \in 1 .. taken[w] /\ local[w].ticket # queued[w]
       /\ cpc[w] = "enqueue" => call[w].ticket # local[w].ticket

\* The inputs of an operation are those of the call that waits for it, and stay as they
\* are while the worker has it.
OperationHeld(w) ==
  /\ cpc[w] \in {"acquire", "enqueue"} => call[w].op # "none"
  /\ cpc[w] \in {"notify", "wait", "asleep"} => call[w].op = operation[w]
  /\ wpc[w] = "native" => pending[w] /\ local[w].sequence = sequence[w]
  /\ result[w] = "ok" /\ operation[w] = "complete" => content[w] = "complete"

AtWork == {"check", "asleep", "native", "cleanup", "release", "notify"}
Leaving == {"abandon", "abandon_notify", "orphan", "gone"}

\* Who owns the file, by the places of the writer and of its thread.
OwnersFit(w) ==
  /\ wpc[w] \in AtWork /\ "worker" \notin owners[w] => stopping[w] /\ ~pending[w]
  /\ wpc[w] = "cleanup" /\ local[w].stopping => stopping[w] /\ ~pending[w]
  /\ wpc[w] \in {"none", "gone"} => "worker" \notin owners[w]
  /\ cpc[w] \in Leaving => "writer" \notin owners[w]
  /\ "artifact" \in owners[w] => handed[w]

\* A file is on its way out, and the worker is to give the ticket back only after that.
Doomed(w, n) ==
  /\ stopping[w] /\ owners[w] \subseteq {"worker"}
  /\ \/ queued[w] = n
     \/ /\ wpc[w] \in {"cleanup", "release"} /\ local[w].ticket = n /\ local[w].stopping
        /\ wpc[w] = "release" => owners[w] = {}

\* A ticket is orphaned, or about to be, only when its file is on its way out.
OrphansDoomed(w) ==
  \A n \in Tickets :
    /\ ticket[w][n] \in {"orphaned", "cleared"} => cpc[w] = "gone"
    /\ ticket[w][n] = "orphaned" => Doomed(w, n)
    /\ cpc[w] \in {"abandon_notify", "orphan"} /\ call[w].ticket = n /\ ticket[w][n] = "active" =>
         Doomed(w, n)
    /\ ticket[w][n] = "cleared" => owners[w] = {}

\* The way to a file that is handed out.
HandedFinal(w) ==
  /\ cpc[w] \in {"finish", "finish_notify", "join"} => content[w] = "complete"
  /\ handed[w] => /\ content[w] = "complete" /\ wpc[w] \in {"none", "gone"}
                  /\ cpc[w] \in {"idle", "gone"}

WriterInv(w) ==
  TicketsPlaced(w) /\ OperationHeld(w) /\ OwnersFit(w) /\ OrphansDoomed(w) /\ HandedFinal(w)

IInv == TypeOK /\ SlotsExact /\ \A w \in Writers : WriterInv(w)

-----------------------------------------------------------------------------
\* The steps of one writer, and what they leave alone

WriterStep(w) ==
  \/ \E op \in {"write", "complete"} : CallIsolated(w, op) \/ CallDirect(w, op)
  \/ CallerNext(w) \/ WorkerNext(w) \/ WorkerPublish(w)
  \/ Interrupt(w) \/ SpuriousWakeup(w)
  \/ TakeArtifact(w) \/ DropArtifact(w) \/ Destroy(w)

\* Nothing of writer v changes.
Same(v) ==
  /\ ticket'[v] = ticket[v] /\ pending'[v] = pending[v] /\ operation'[v] = operation[v]
  /\ sequence'[v] = sequence[v] /\ completed'[v] = completed[v] /\ result'[v] = result[v]
  /\ stopping'[v] = stopping[v] /\ queued'[v] = queued[v] /\ wpc'[v] = wpc[v]
  /\ local'[v] = local[v] /\ cpc'[v] = cpc[v] /\ call'[v] = call[v]
  /\ interrupted'[v] = interrupted[v] /\ taken'[v] = taken[v] /\ owners'[v] = owners[v]
  /\ content'[v] = content[v] /\ handed'[v] = handed[v]

LEMMA SameKeeps == ASSUME NEW v, WriterInv(v), Same(v) PROVE WriterInv(v)'
<1>. USE DEF WriterInv, Same
<1>1. TicketsPlaced(v)' /\ OperationHeld(v)'
  BY DEF TicketsPlaced, OperationHeld
<1>2. OwnersFit(v)' /\ OrphansDoomed(v)' /\ HandedFinal(v)'
  BY DEF OwnersFit, OrphansDoomed, Doomed, HandedFinal
<1>. QED  BY <1>1, <1>2

LEMMA OthersSame ==
  ASSUME TypeOK, NEW w \in Writers, WriterStep(w), NEW v \in Writers, v # w
  PROVE  Same(v)
<1>. USE DEF TypeOK, SlotTypes, StateTypes, WorkerTypes, CallTypes, FileTypes, Same,
             slotVars, stateVars, workerVars, callVars, fileVars
<1>1. ASSUME NEW op, CallIsolated(w, op) \/ CallDirect(w, op) PROVE Same(v)
  BY SMTT(30), <1>1 DEF CallIsolated, CallDirect
<1>2. CASE Acquire(w) \/ AcquireFails(w) \/ EnqueueRefused(w)
  BY SMTT(30), <1>2 DEF Acquire, AcquireFails, EnqueueRefused, Returned, release
<1>3. CASE Enqueue(w) \/ RunNotify(w) \/ RunSleep(w) \/ RunReturn(w)
  BY SMTT(30), <1>3 DEF Enqueue, RunNotify, RunSleep, RunReturn, Returned, WorkerWoken
<1>4. CASE FinishStop(w) \/ FinishNotify(w) \/ FinishJoin(w)
  BY SMTT(30), <1>4 DEF FinishStop, FinishNotify, FinishJoin, Returned, WorkerWoken
<1>5. CASE AbandonStop(w) \/ AbandonNotify(w) \/ AbandonOrphan(w)
  BY SMTT(30), <1>5 DEF AbandonStop, AbandonNotify, AbandonOrphan, orphan, WorkerWoken
<1>6. CASE WorkerNext(w)
  BY SMTT(30), <1>6 DEF WorkerNext, WorkerCheck, WorkerCleanup, WorkerRelease, WorkerNotify, WorkerExit, release
<1>7. CASE WorkerPublish(w)
  BY SMTT(30), <1>7 DEF WorkerPublish, NativeOutcome
<1>8. CASE Interrupt(w) \/ SpuriousWakeup(w)
  BY SMTT(30), <1>8 DEF Interrupt, SpuriousWakeup
<1>9. CASE TakeArtifact(w) \/ DropArtifact(w) \/ Destroy(w)
  BY SMTT(30), <1>9 DEF TakeArtifact, DropArtifact, Destroy
<1>. QED  BY <1>1, <1>2, <1>3, <1>4, <1>5, <1>6, <1>7, <1>8, <1>9 DEF WriterStep, CallerNext

-----------------------------------------------------------------------------
\* The counters

LEMMA TicketsFinite ==
  /\ IsFiniteSet(TicketsIn({"active", "orphaned"})) /\ IsFiniteSet(TicketsIn({"orphaned"}))
<1>1. IsFiniteSet(1 .. MaxOperations)
  BY WriterAssumptions, FS_Interval
<1>2. IsFiniteSet(Writers \X (1 .. MaxOperations))
  BY <1>1, WriterAssumptions, FS_Product
<1>3. /\ TicketsIn({"active", "orphaned"}) \subseteq Writers \X (1 .. MaxOperations)
      /\ TicketsIn({"orphaned"}) \subseteq Writers \X (1 .. MaxOperations)
  BY DEF TicketsIn
<1>. QED  BY <1>2, <1>3, FS_Subset

\* The numbers, when the counters are exact: an orphan counts as active too.
LEMMA CountersBounded == SlotsExact => active \in Nat /\ orphaned \in Nat /\ orphaned =< active
<1>1. TicketsIn({"orphaned"}) \subseteq TicketsIn({"active", "orphaned"})
  BY DEF TicketsIn
<1>. QED  BY <1>1, TicketsFinite, FS_Subset, FS_CardinalityType DEF SlotsExact

\* One ticket changes its status.
Becomes(w, n, status) == ticket' = [ticket EXCEPT ![w][n] = status]

LEMMA TicketSets ==
  ASSUME SlotTypes, NEW w \in Writers, NEW n \in Tickets, NEW status, Becomes(w, n, status), NEW S
  PROVE  /\ status \in S => TicketsIn(S)' = TicketsIn(S) \cup {<<w, n>>}
         /\ status \notin S => TicketsIn(S)' = TicketsIn(S) \ {<<w, n>>}
         /\ <<w, n>> \in TicketsIn(S) <=> ticket[w][n] \in S
<1>1. \A v \in Writers, m \in 1 .. MaxOperations :
        ticket'[v][m] = IF v = w /\ m = n THEN status ELSE ticket[v][m]
  BY DEF SlotTypes, Becomes, Tickets
<1>2. TicketsIn(S)' = {t \in Writers \X (1 .. MaxOperations) : ticket'[t[1]][t[2]] \in S}
  BY DEF TicketsIn
<1>3. \A t \in Writers \X (1 .. MaxOperations) : t = <<t[1], t[2]>> /\ t[1] \in Writers /\ t[2] \in 1 .. MaxOperations
  OBVIOUS
<1>. QED  BY <1>1, <1>2, <1>3 DEF TicketsIn, Tickets

LEMMA AcquireCounts ==
  ASSUME SlotTypes, SlotsExact, NEW w \in Writers, NEW n \in Tickets, ticket[w][n] = "none",
         Becomes(w, n, "active"), active' = active + 1, orphaned' = orphaned,
         active < MaximumWorkers
  PROVE  SlotTypes' /\ SlotsExact'
<1>1. /\ Cardinality(TicketsIn({"active", "orphaned"})') = active + 1
      /\ Cardinality(TicketsIn({"orphaned"})') = orphaned
  <2>1. TicketsIn({"active", "orphaned"})' = TicketsIn({"active", "orphaned"}) \cup {<<w, n>>}
        /\ <<w, n>> \notin TicketsIn({"active", "orphaned"})
    BY TicketSets
  <2>2. TicketsIn({"orphaned"})' = TicketsIn({"orphaned"}) \ {<<w, n>>}
        /\ <<w, n>> \notin TicketsIn({"orphaned"})
    BY TicketSets
  <2>3. Cardinality(TicketsIn({"active", "orphaned"})') = active + 1
    BY <2>1, TicketsFinite, FS_AddElement DEF SlotsExact
  <2>4. TicketsIn({"orphaned"})' = TicketsIn({"orphaned"})
    BY <2>2
  <2>. QED  BY <2>3, <2>4 DEF SlotsExact
<1>2. SlotsExact'
  BY <1>1 DEF SlotsExact
<1>. QED  BY <1>2, WriterAssumptions DEF SlotTypes, Becomes, Tickets

LEMMA OrphanCounts ==
  ASSUME SlotTypes, SlotsExact, NEW w \in Writers, NEW n \in Tickets, orphan(w, n)
  PROVE  SlotTypes' /\ SlotsExact'
<1>1. CASE ticket[w][n] # "active"
  BY <1>1 DEF orphan, slotVars, SlotTypes, SlotsExact, TicketsIn
<1>2. CASE ticket[w][n] = "active"
  <2>0. Becomes(w, n, "orphaned") /\ orphaned' = orphaned + 1 /\ active' = active
    BY <1>2 DEF orphan, Becomes
  <2>1. TicketsIn({"active", "orphaned"})' = TicketsIn({"active", "orphaned"}) \cup {<<w, n>>}
        /\ <<w, n>> \in TicketsIn({"active", "orphaned"})
    BY <1>2, <2>0, TicketSets
  <2>2. TicketsIn({"orphaned"})' = TicketsIn({"orphaned"}) \cup {<<w, n>>}
        /\ <<w, n>> \notin TicketsIn({"orphaned"})
    BY <1>2, <2>0, TicketSets
  <2>3. /\ Cardinality(TicketsIn({"active", "orphaned"})') = active
        /\ Cardinality(TicketsIn({"orphaned"})') = orphaned + 1
    BY <2>1, <2>2, TicketsFinite, FS_AddElement DEF SlotsExact
  <2>4. SlotsExact'
    BY <2>0, <2>3 DEF SlotsExact
  <2>5. (active \in Nat /\ orphaned \in Nat /\ orphaned =< active)'
    BY <2>4, CountersBounded, PTL
  <2>. QED  BY <2>0, <2>4, <2>5, WriterAssumptions DEF SlotTypes, Becomes, Tickets
<1>. QED  BY <1>1, <1>2

LEMMA ReleaseCounts ==
  ASSUME SlotTypes, SlotsExact, NEW w \in Writers, NEW n \in Tickets, release(w, n)
  PROVE  SlotTypes' /\ SlotsExact'
<1>1. CASE ticket[w][n] \notin {"active", "orphaned"}
  BY <1>1 DEF release, slotVars, SlotTypes, SlotsExact, TicketsIn
<1>2. CASE ticket[w][n] \in {"active", "orphaned"}
  <2>. DEFINE status == IF ticket[w][n] = "active" THEN "released" ELSE "cleared"
  <2>0. /\ Becomes(w, n, status) /\ active' = active - 1
        /\ orphaned' = IF ticket[w][n] = "orphaned" THEN orphaned - 1 ELSE orphaned
    BY <1>2 DEF release, Becomes, SlotTypes, Tickets
  <2>. status \notin {"active", "orphaned"} /\ status \notin {"orphaned"}
       /\ status \in {"released", "cleared"}
    OBVIOUS
  <2>. HIDE DEF status
  <2>1. TicketsIn({"active", "orphaned"})' = TicketsIn({"active", "orphaned"}) \ {<<w, n>>}
        /\ <<w, n>> \in TicketsIn({"active", "orphaned"})
    BY <1>2, <2>0, TicketSets
  <2>2. TicketsIn({"orphaned"})' = TicketsIn({"orphaned"}) \ {<<w, n>>}
        /\ (<<w, n>> \in TicketsIn({"orphaned"}) <=> ticket[w][n] = "orphaned")
    BY <1>2, <2>0, TicketSets
  <2>3. Cardinality(TicketsIn({"active", "orphaned"})') = active'
    BY <2>0, <2>1, TicketsFinite, FS_RemoveElement DEF SlotsExact
  <2>4. Cardinality(TicketsIn({"orphaned"})') = orphaned'
    <3>1. CASE ticket[w][n] = "orphaned"
      BY <2>0, <2>2, <3>1, TicketsFinite, FS_RemoveElement DEF SlotsExact
    <3>2. CASE ticket[w][n] # "orphaned"
      <4>1. TicketsIn({"orphaned"})' = TicketsIn({"orphaned"}) /\ orphaned' = orphaned
        BY <2>0, <2>2, <3>2
      <4>. QED  BY <4>1 DEF SlotsExact
    <3>. QED  BY <3>1, <3>2
  <2>5. SlotsExact'
    BY <2>3, <2>4 DEF SlotsExact
  <2>6. (active \in Nat /\ orphaned \in Nat /\ orphaned =< active)'
    BY <2>5, CountersBounded, PTL
  <2>. QED  BY <2>0, <2>5, <2>6, WriterAssumptions DEF SlotTypes, Becomes, Tickets
<1>. QED  BY <1>1, <1>2

-----------------------------------------------------------------------------
\* Types and counters

LEMMA StateTypesStep ==
  ASSUME IInv, NEW w \in Writers, WriterStep(w) PROVE StateTypes'
<1>0. StateTypes /\ CallTypes /\ WorkerTypes /\ OperationHeld(w)
  BY DEF IInv, TypeOK, WriterInv
<1>1. CASE UNCHANGED stateVars
  BY <1>0, <1>1 DEF StateTypes, stateVars
<1>2. CASE Enqueue(w)
  <2>1. call[w].op \in {"write", "complete"} /\ call[w].ticket \in 0 .. MaxOperations
    BY <1>0, <1>2 DEF Enqueue, OperationHeld, CallTypes
  <2>. QED  BY <1>0, <1>2, <2>1 DEF Enqueue, StateTypes
<1>3. CASE WorkerPublish(w)
  <2>1. local[w].sequence \in Nat
    BY <1>0 DEF WorkerTypes
  <2>2. result' \in [Writers -> {"none", "ok", "failed"}]
    BY <1>0, <1>3 DEF WorkerPublish, NativeOutcome, NativeResults, StateTypes
  <2>3. 0 \in 0 .. MaxOperations
    BY WriterAssumptions
  <2>4. completed' \in [Writers -> Nat] /\ queued' \in [Writers -> 0 .. MaxOperations]
    BY <1>0, <1>3, <2>1, <2>3 DEF WorkerPublish, StateTypes
  <2>5. pending' \in [Writers -> BOOLEAN] /\ UNCHANGED <<operation, sequence, stopping>>
    BY <1>0, <1>3 DEF WorkerPublish, StateTypes
  <2>. QED  BY <1>0, <2>2, <2>4, <2>5 DEF StateTypes
<1>4. CASE FinishStop(w) \/ AbandonStop(w)
  BY <1>0, <1>4 DEF FinishStop, AbandonStop, StateTypes
<1>5. ASSUME NEW op, CallIsolated(w, op) \/ CallDirect(w, op) PROVE UNCHANGED stateVars
  BY <1>5 DEF CallIsolated, CallDirect
<1>6. CASE CallerNext(w)
  BY <1>1, <1>2, <1>4, <1>6 DEF CallerNext, Acquire, AcquireFails, EnqueueRefused, RunNotify, RunSleep,
     RunReturn, FinishNotify, FinishJoin, AbandonNotify, AbandonOrphan
<1>7. CASE WorkerNext(w)
  BY <1>1, <1>7 DEF WorkerNext, WorkerCheck, WorkerCleanup, WorkerRelease, WorkerNotify, WorkerExit
<1>8. CASE Interrupt(w) \/ SpuriousWakeup(w) \/ TakeArtifact(w) \/ DropArtifact(w) \/ Destroy(w)
  BY <1>1, <1>8 DEF Interrupt, SpuriousWakeup, TakeArtifact, DropArtifact, Destroy
<1>. QED  BY <1>1, <1>3, <1>5, <1>6, <1>7, <1>8 DEF WriterStep

LEMMA WorkerTypesStep ==
  ASSUME IInv, NEW w \in Writers, WriterStep(w) PROVE WorkerTypes'
<1>0. WorkerTypes /\ StateTypes
  BY DEF IInv, TypeOK
<1>1. ASSUME NEW op, CallIsolated(w, op) \/ CallDirect(w, op) PROVE WorkerTypes'
  BY <1>0, <1>1 DEF CallIsolated, CallDirect, WorkerTypes, workerVars
<1>2. CASE UNCHANGED workerVars
  BY <1>0, <1>2 DEF WorkerTypes, workerVars
<1>3. CASE RunNotify(w) \/ FinishNotify(w) \/ AbandonNotify(w)
  BY <1>0, <1>3 DEF RunNotify, FinishNotify, AbandonNotify, WorkerWoken, WorkerTypes
<1>4. CASE CallerNext(w)
  BY <1>2, <1>3, <1>4 DEF CallerNext, Acquire, AcquireFails, EnqueueRefused, Enqueue, RunSleep,
     RunReturn, FinishStop, FinishJoin, AbandonStop, AbandonOrphan
<1>5. CASE WorkerCheck(w)
  <2>1. sequence[w] \in Nat
    BY <1>0 DEF StateTypes
  <2>2. local' \in {local, [local EXCEPT ![w].sequence = sequence[w]]}
        /\ \E place \in {"native", "exit", "asleep"} : wpc' = [wpc EXCEPT ![w] = place]
    BY <1>5 DEF WorkerCheck
  <2>. QED  BY <1>0, <2>1, <2>2 DEF WorkerTypes
<1>6. CASE WorkerPublish(w)
  BY ZenonT(40), <1>0, <1>6 DEF WorkerPublish, WorkerTypes, StateTypes
<1>7. CASE WorkerCleanup(w) \/ WorkerNotify(w) \/ WorkerExit(w) \/ SpuriousWakeup(w)
  BY <1>0, <1>7 DEF WorkerCleanup, WorkerNotify, WorkerExit, SpuriousWakeup, WorkerTypes
<1>8. CASE WorkerRelease(w)
  BY <1>0, <1>8, WriterAssumptions DEF WorkerRelease, WorkerTypes, NoLocal
<1>9. CASE Interrupt(w) \/ TakeArtifact(w) \/ DropArtifact(w) \/ Destroy(w)
  BY <1>2, <1>9 DEF Interrupt, TakeArtifact, DropArtifact, Destroy
<1>. QED  BY <1>1, <1>4, <1>5, <1>6, <1>7, <1>8, <1>9 DEF WriterStep, WorkerNext

LEMMA CallTypesStep ==
  ASSUME IInv, NEW w \in Writers, WriterStep(w) PROVE CallTypes'
<1>0. CallTypes /\ StateTypes /\ TicketsPlaced(w)
  BY DEF IInv, TypeOK, WriterInv
<1>1. CASE UNCHANGED callVars
  BY <1>0, <1>1 DEF CallTypes, callVars
<1>2. ASSUME NEW op \in {"write", "complete"}, CallIsolated(w, op) \/ CallDirect(w, op)
      PROVE  CallTypes'
  <2>1. CASE CallIsolated(w, op)
    BY <1>0, <2>1, WriterAssumptions DEF CallIsolated, CallTypes, NoCall
  <2>. QED  BY <1>1, <1>2, <2>1 DEF CallDirect
<1>3. CASE Acquire(w)
  <2>1. taken[w] + 1 \in 0 .. MaxOperations
    BY <1>0, <1>3, WriterAssumptions DEF Acquire, TicketsPlaced, CallTypes
  <2>. QED  BY <1>0, <1>3, <2>1 DEF Acquire, CallTypes
<1>4. ASSUME NEW place, Returned(w, place), place \in {"idle", "finish"}, UNCHANGED taken
      PROVE  CallTypes'
  BY <1>0, <1>4, WriterAssumptions DEF Returned, CallTypes, NoCall
<1>5. CASE AcquireFails(w) \/ EnqueueRefused(w) \/ RunReturn(w) \/ FinishJoin(w)
  BY <1>4, <1>5 DEF AcquireFails, EnqueueRefused, RunReturn, FinishJoin
<1>6. CASE Enqueue(w)
  <2>1. sequence[w] + 1 \in Nat /\ 0 \in 0 .. MaxOperations
    BY <1>0, WriterAssumptions DEF StateTypes
  <2>2. /\ call' = [call EXCEPT ![w].sequence = sequence[w] + 1, ![w].ticket = 0]
        /\ cpc' = [cpc EXCEPT ![w] = "notify"] /\ UNCHANGED <<interrupted, taken>>
    BY <1>6 DEF Enqueue
  <2>. QED  BY <1>0, <2>1, <2>2 DEF CallTypes
<1>7. CASE \/ RunNotify(w) \/ RunSleep(w) \/ FinishStop(w) \/ FinishNotify(w) \/ AbandonNotify(w)
           \/ WorkerNotify(w) \/ SpuriousWakeup(w) \/ Destroy(w)
  BY <1>0, <1>7 DEF RunNotify, RunSleep, FinishStop, FinishNotify, AbandonNotify, WorkerNotify,
     SpuriousWakeup, Destroy, CallTypes
<1>8. CASE AbandonStop(w)
  BY <1>0, <1>8 DEF AbandonStop, CallTypes, StateTypes
<1>9. CASE AbandonOrphan(w)
  BY <1>0, <1>9, WriterAssumptions DEF AbandonOrphan, CallTypes, NoCall
<1>10. CASE Interrupt(w)
  BY <1>0, <1>10 DEF Interrupt, CallTypes
<1>11. CASE WorkerCheck(w) \/ WorkerCleanup(w) \/ WorkerRelease(w) \/ WorkerExit(w) \/ WorkerPublish(w)
  BY <1>1, <1>11 DEF WorkerCheck, WorkerCleanup, WorkerRelease, WorkerExit, WorkerPublish
<1>12. CASE TakeArtifact(w) \/ DropArtifact(w)
  BY <1>1, <1>12 DEF TakeArtifact, DropArtifact
<1>. QED  BY <1>2, <1>3, <1>5, <1>6, <1>7, <1>8, <1>9, <1>10, <1>11, <1>12
          DEF WriterStep, CallerNext, WorkerNext

LEMMA FileTypesStep ==
  ASSUME IInv, NEW w \in Writers, WriterStep(w) PROVE FileTypes'
<1>0. FileTypes
  BY DEF IInv, TypeOK
<1>1. CASE UNCHANGED fileVars
  BY <1>0, <1>1 DEF FileTypes, fileVars
<1>2. ASSUME NEW op \in {"write", "complete"}, CallIsolated(w, op) PROVE FileTypes'
  BY <1>0, <1>2 DEF CallIsolated, FileTypes
<1>3. ASSUME NEW op \in {"write", "complete"}, CallDirect(w, op) PROVE FileTypes'
  BY <1>0, <1>3 DEF CallDirect, FileAfter, FileTypes
<1>4. CASE WorkerPublish(w)
  BY <1>0, <1>4 DEF WorkerPublish, NativeOutcome, FileAfter, FileTypes
<1>5. CASE WorkerCleanup(w) \/ WorkerExit(w)
  BY <1>0, <1>5 DEF WorkerCleanup, WorkerExit, FileTypes
<1>6. CASE FinishJoin(w)
  BY <1>0, <1>6 DEF FinishJoin, FileTypes
<1>7. CASE TakeArtifact(w) \/ DropArtifact(w) \/ Destroy(w)
  BY <1>0, <1>7 DEF TakeArtifact, DropArtifact, Destroy, FileTypes
<1>8. CASE CallerNext(w)
  BY <1>1, <1>6, <1>8 DEF CallerNext, Acquire, AcquireFails, EnqueueRefused, Enqueue, RunNotify,
     RunSleep, RunReturn, FinishStop, FinishNotify, AbandonStop, AbandonNotify, AbandonOrphan
<1>9. CASE WorkerCheck(w) \/ WorkerRelease(w) \/ WorkerNotify(w) \/ Interrupt(w) \/ SpuriousWakeup(w)
  BY <1>1, <1>9 DEF WorkerCheck, WorkerRelease, WorkerNotify, Interrupt, SpuriousWakeup
<1>. QED  BY <1>2, <1>3, <1>4, <1>5, <1>7, <1>8, <1>9 DEF WriterStep, WorkerNext

LEMMA SlotsStep ==
  ASSUME IInv, NEW w \in Writers, WriterStep(w)
  PROVE  SlotTypes' /\ SlotsExact'
<1>. USE DEF IInv, TypeOK
<1>1. CASE UNCHANGED slotVars
  BY <1>1 DEF slotVars, SlotTypes, SlotsExact, TicketsIn
<1>2. CASE Acquire(w)
  <2>1. /\ taken[w] + 1 \in Tickets /\ ticket[w][taken[w] + 1] = "none"
        /\ Becomes(w, taken[w] + 1, "active") /\ active' = active + 1 /\ orphaned' = orphaned
    BY <1>2, WriterAssumptions DEF Acquire, WriterInv, TicketsPlaced, CallTypes, Tickets, Becomes
  <2>2. active < MaximumWorkers
    BY <1>2 DEF Acquire, MayTake, available
  <2>. QED  BY <2>1, <2>2, AcquireCounts
<1>3. CASE EnqueueRefused(w)
  <2>1. call[w].ticket \in Tickets /\ release(w, call[w].ticket)
    BY <1>3 DEF EnqueueRefused, WriterInv, TicketsPlaced, CallTypes, Tickets
  <2>. QED  BY <2>1, ReleaseCounts
<1>4. CASE WorkerRelease(w)
  <2>1. local[w].ticket \in Tickets /\ release(w, local[w].ticket)
    BY <1>4 DEF WorkerRelease, WriterInv, TicketsPlaced, CallTypes, WorkerTypes, Tickets
  <2>. QED  BY <2>1, ReleaseCounts
<1>5. CASE AbandonOrphan(w) /\ call[w].ticket # 0
  <2>1. call[w].ticket \in Tickets /\ orphan(w, call[w].ticket)
    BY <1>5 DEF AbandonOrphan, CallTypes, Tickets
  <2>. QED  BY <2>1, OrphanCounts
<1>6. ASSUME NEW op, CallIsolated(w, op) \/ CallDirect(w, op) PROVE UNCHANGED slotVars
  BY <1>6 DEF CallIsolated, CallDirect
<1>7. CASE CallerNext(w)
  BY <1>1, <1>2, <1>3, <1>5, <1>7 DEF CallerNext, AcquireFails, Enqueue, RunNotify, RunSleep, RunReturn,
     FinishStop, FinishNotify, FinishJoin, AbandonStop, AbandonNotify, AbandonOrphan
<1>8. CASE WorkerNext(w) \/ WorkerPublish(w)
  BY <1>1, <1>4, <1>8 DEF WorkerNext, WorkerCheck, WorkerCleanup, WorkerNotify, WorkerExit, WorkerPublish
<1>9. CASE Interrupt(w) \/ SpuriousWakeup(w) \/ TakeArtifact(w) \/ DropArtifact(w) \/ Destroy(w)
  BY <1>1, <1>9 DEF Interrupt, SpuriousWakeup, TakeArtifact, DropArtifact, Destroy
<1>. QED  BY <1>1, <1>6, <1>7, <1>8, <1>9 DEF WriterStep

-----------------------------------------------------------------------------
\* The steps that need an argument: the order to stop, and the worker's way from the
\* published result to the next look at State

LEMMA AbandonStopKeeps ==
  ASSUME IInv, NEW w \in Writers, AbandonStop(w) PROVE WriterInv(w)'
<1>. USE DEF IInv, WriterInv
<1>1. /\ cpc[w] = "abandon" /\ stopping'[w] = TRUE /\ call'[w].ticket = queued[w]
      /\ cpc'[w] = "abandon_notify"
      /\ UNCHANGED <<ticket, queued, owners, wpc, local, taken, pending, handed, content>>
      /\ UNCHANGED <<operation, result, sequence>>
  BY DEF AbandonStop, TypeOK, StateTypes, CallTypes, slotVars, workerVars, fileVars
<1>2. owners[w] \subseteq {"worker"}
  BY <1>1 DEF OwnersFit, Leaving, HandedFinal, TypeOK, FileTypes
<1>3. TicketsPlaced(w)' /\ OperationHeld(w)'
  BY <1>1 DEF TicketsPlaced, OperationHeld
<1>4. OwnersFit(w)' /\ HandedFinal(w)'
  BY <1>1 DEF OwnersFit, Leaving, HandedFinal
<1>5. OrphansDoomed(w)'
  BY <1>1, <1>2 DEF OrphansDoomed, Doomed
<1>. QED  BY <1>3, <1>4, <1>5

LEMMA CleanupKeeps ==
  ASSUME IInv, NEW w \in Writers, WorkerCleanup(w) PROVE WriterInv(w)'
<1>. USE DEF IInv, WriterInv
<1>1. /\ wpc[w] = "cleanup" /\ wpc'[w] = "release"
      /\ owners'[w] = IF local[w].stopping THEN owners[w] \ {"worker"} ELSE owners[w]
      /\ UNCHANGED <<slotVars, stateVars, local, callVars, content, handed>>
  BY DEF WorkerCleanup, TypeOK, WorkerTypes, FileTypes
<1>2. TicketsPlaced(w)' /\ OperationHeld(w)' /\ HandedFinal(w)'
  BY <1>1 DEF TicketsPlaced, OperationHeld, HandedFinal, slotVars, stateVars, callVars
<1>3. OwnersFit(w)'
  BY <1>1 DEF OwnersFit, AtWork, Leaving, stateVars, callVars
<1>4. OrphansDoomed(w)'
  BY <1>1 DEF OrphansDoomed, Doomed, slotVars, stateVars, callVars
<1>. QED  BY <1>2, <1>3, <1>4

LEMMA ReleaseKeeps ==
  ASSUME IInv, NEW w \in Writers, WorkerRelease(w) PROVE WriterInv(w)'
<1>. USE DEF IInv, WriterInv
<1>. DEFINE k == local[w].ticket
<1>1. /\ wpc[w] = "release" /\ k \in 1 .. taken[w] /\ k # queued[w]
      /\ wpc'[w] = "notify" /\ UNCHANGED <<stateVars, callVars, fileVars>>
  BY DEF WorkerRelease, TicketsPlaced, TypeOK, WorkerTypes
<1>2. taken[w] \in 0 .. MaxOperations /\ k \in Tickets
  BY <1>1, WriterAssumptions DEF TypeOK, CallTypes, Tickets
<1>3. /\ \A n \in Tickets : n # k => ticket'[w][n] = ticket[w][n]
      /\ ticket'[w][k] = CASE ticket[w][k] = "active"   -> "released"
                           [] ticket[w][k] = "orphaned" -> "cleared"
                           [] OTHER                     -> ticket[w][k]
  BY ZenonT(40), <1>2 DEF WorkerRelease, release, TypeOK, SlotTypes, Tickets, slotVars
<1>4. ticket[w][k] = "orphaned" => cpc[w] = "gone" /\ owners[w] = {}
  BY <1>1, <1>2 DEF OrphansDoomed, Doomed
<1>5. ASSUME NEW n \in Tickets, n # k, Doomed(w, n) PROVE Doomed(w, n)'
  BY <1>1, <1>5 DEF Doomed, stateVars, fileVars
<1>. HIDE DEF k
<1>6. TicketsPlaced(w)'
  <2>1. ASSUME NEW n \in Tickets, n > taken[w] PROVE ticket'[w][n] = "none"
    <3>1. n # k
      BY <1>1, <1>2, <2>1, WriterAssumptions DEF Tickets
    <3>. QED  BY <1>3, <2>1, <3>1 DEF TicketsPlaced
  <2>. QED  BY <1>1, <2>1 DEF TicketsPlaced, stateVars, callVars
<1>7. OperationHeld(w)' /\ OwnersFit(w)' /\ HandedFinal(w)'
  BY <1>1 DEF OperationHeld, OwnersFit, AtWork, Leaving, HandedFinal, stateVars, callVars, fileVars
<1>8. OrphansDoomed(w)'
  <2>. SUFFICES ASSUME NEW n \in Tickets
                PROVE  /\ ticket'[w][n] \in {"orphaned", "cleared"} => cpc'[w] = "gone"
                       /\ ticket'[w][n] = "orphaned" => Doomed(w, n)'
                       /\ /\ cpc'[w] \in {"abandon_notify", "orphan"}
                          /\ call'[w].ticket = n /\ ticket'[w][n] = "active"
                          => Doomed(w, n)'
                       /\ ticket'[w][n] = "cleared" => owners'[w] = {}
    BY DEF OrphansDoomed
  <2>1. CASE n = k
    BY <1>1, <1>3, <1>4, <2>1 DEF OrphansDoomed, callVars, fileVars
  <2>2. CASE n # k
    BY <1>1, <1>3, <1>5, <2>2 DEF OrphansDoomed, callVars, fileVars
  <2>. QED  BY <2>1, <2>2
<1>. QED  BY <1>6, <1>7, <1>8

LEMMA NotifyKeeps ==
  ASSUME IInv, NEW w \in Writers, WorkerNotify(w) PROVE WriterInv(w)'
<1>. USE DEF IInv, WriterInv
<1>1. /\ wpc[w] = "notify" /\ wpc'[w] = "check"
      /\ cpc'[w] = IF cpc[w] = "asleep" THEN "wait" ELSE cpc[w]
      /\ UNCHANGED <<slotVars, stateVars, local, call, interrupted, taken, fileVars>>
  BY DEF WorkerNotify, TypeOK, WorkerTypes, CallTypes
<1>2. TicketsPlaced(w)' /\ OperationHeld(w)' /\ HandedFinal(w)'
  BY <1>1 DEF TicketsPlaced, OperationHeld, HandedFinal, slotVars, stateVars, fileVars
<1>3. OwnersFit(w)'
  BY <1>1 DEF OwnersFit, AtWork, Leaving, stateVars, fileVars
<1>4. OrphansDoomed(w)'
  BY <1>1 DEF OrphansDoomed, Doomed, slotVars, stateVars, fileVars
<1>. QED  BY <1>2, <1>3, <1>4

-----------------------------------------------------------------------------
\* The writer that takes the step keeps its invariant

LEMMA WriterKeeps ==
  ASSUME IInv, NEW w \in Writers, WriterStep(w) PROVE WriterInv(w)'
<1>. USE WriterAssumptions
<1>. USE DEF IInv, WriterInv, TypeOK, SlotTypes, StateTypes, WorkerTypes, CallTypes, FileTypes,
             slotVars, stateVars, workerVars, callVars, fileVars, TicketsPlaced, OperationHeld,
             OwnersFit, OrphansDoomed, Doomed, HandedFinal, AtWork, Leaving, Tickets
<1>1. ASSUME NEW op \in {"write", "complete"}, CallIsolated(w, op) PROVE WriterInv(w)'
  BY SMTT(30), <1>1 DEF CallIsolated, HasWorker, NoCall
<1>2. ASSUME NEW op \in {"write", "complete"}, CallDirect(w, op) PROVE WriterInv(w)'
  BY SMTT(30), <1>2 DEF CallDirect, HasWorker, NativeResults, FileAfter
<1>3. CASE Acquire(w)
  BY SMTT(30), <1>3 DEF Acquire
<1>4. CASE AcquireFails(w)
  BY SMTT(30), <1>4 DEF AcquireFails, Returned, NoCall
<1>5. CASE EnqueueRefused(w)
  BY SMTT(30), <1>5 DEF EnqueueRefused, Returned, NoCall, release
<1>6. CASE Enqueue(w)
  BY SMTT(30), <1>6 DEF Enqueue, Busy
<1>7. CASE RunNotify(w)
  BY SMTT(30), <1>7 DEF RunNotify, WorkerWoken
<1>8. CASE RunSleep(w)
  BY SMTT(30), <1>8 DEF RunSleep
<1>9. CASE RunReturn(w)
  BY SMTT(30), <1>9 DEF RunReturn, Returned, NoCall
<1>10. CASE FinishStop(w)
  BY SMTT(30), <1>10 DEF FinishStop
<1>11. CASE FinishNotify(w)
  BY SMTT(30), <1>11 DEF FinishNotify, WorkerWoken
<1>12. CASE FinishJoin(w)
  BY SMTT(30), <1>12 DEF FinishJoin, Returned, NoCall
<1>13. CASE AbandonStop(w)
  BY <1>13, AbandonStopKeeps
<1>14. CASE AbandonNotify(w)
  BY SMTT(30), <1>14 DEF AbandonNotify, WorkerWoken
<1>15. CASE AbandonOrphan(w)
  BY SMTT(30), <1>15 DEF AbandonOrphan, orphan, NoCall
<1>16. CASE WorkerCheck(w)
  BY SMTT(30), <1>16 DEF WorkerCheck
<1>17. CASE WorkerCleanup(w)
  BY <1>17, CleanupKeeps
<1>18. CASE WorkerRelease(w)
  BY <1>18, ReleaseKeeps
<1>19. CASE WorkerNotify(w)
  BY <1>19, NotifyKeeps
<1>20. CASE WorkerExit(w)
  BY SMTT(30), <1>20 DEF WorkerExit
<1>21. CASE WorkerPublish(w)
  BY SMTT(30), <1>21 DEF WorkerPublish, NativeOutcome, NativeResults, FileAfter
<1>22. CASE Interrupt(w)
  BY SMTT(30), <1>22 DEF Interrupt
<1>23. CASE SpuriousWakeup(w)
  BY SMTT(30), <1>23 DEF SpuriousWakeup
<1>24. CASE TakeArtifact(w)
  BY SMTT(30), <1>24 DEF TakeArtifact
<1>25. CASE DropArtifact(w)
  BY SMTT(30), <1>25 DEF DropArtifact
<1>26. CASE Destroy(w)
  BY SMTT(30), <1>26 DEF Destroy, HasWorker
<1>. HIDE DEF IInv, WriterInv
<1>. QED  BY <1>1, <1>2, <1>3, <1>4, <1>5, <1>6, <1>7, <1>8, <1>9, <1>10, <1>11, <1>12,
             <1>13, <1>14, <1>15, <1>16, <1>17, <1>18, <1>19, <1>20, <1>21, <1>22, <1>23,
             <1>24, <1>25, <1>26
          DEF WriterStep, CallerNext, WorkerNext

-----------------------------------------------------------------------------
LEMMA InitInv == Init => IInv
<1>. SUFFICES ASSUME Init PROVE IInv
  OBVIOUS
<1>1. TypeOK
  <2>1. SlotTypes /\ StateTypes
    BY WriterAssumptions DEF Init, SlotTypes, StateTypes
  <2>2. WorkerTypes /\ CallTypes /\ FileTypes
    BY WriterAssumptions DEF Init, WorkerTypes, CallTypes, FileTypes, NoCall, NoLocal
  <2>. QED  BY <2>1, <2>2 DEF TypeOK
<1>2. SlotsExact
  <2>1. TicketsIn({"active", "orphaned"}) = {} /\ TicketsIn({"orphaned"}) = {}
    BY DEF Init, TicketsIn
  <2>. QED  BY <2>1, FS_EmptySet DEF Init, SlotsExact
<1>3. ASSUME NEW w \in Writers PROVE WriterInv(w)
  BY WriterAssumptions DEF Init, WriterInv, TicketsPlaced, OperationHeld, OwnersFit, OrphansDoomed,
     HandedFinal, AtWork, Leaving, Tickets, NoCall, NoLocal
<1>. QED  BY <1>1, <1>2, <1>3 DEF IInv

LEMMA StepInv == IInv /\ [Next]_vars => IInv'
<1>. SUFFICES ASSUME IInv, [Next]_vars PROVE IInv'
  OBVIOUS
<1>1. ASSUME NEW w \in Writers, WriterStep(w) PROVE IInv'
  <2>1. TypeOK' /\ SlotsExact'
    BY <1>1, StateTypesStep, WorkerTypesStep, CallTypesStep, FileTypesStep, SlotsStep DEF TypeOK
  <2>2. ASSUME NEW v \in Writers, v # w PROVE WriterInv(v)'
    BY <1>1, <2>2, OthersSame, SameKeeps DEF IInv
  <2>3. WriterInv(w)'
    BY <1>1, WriterKeeps
  <2>. QED  BY <2>1, <2>2, <2>3 DEF IInv
<1>2. CASE UNCHANGED vars
  <2>1. TypeOK' /\ SlotsExact'
    BY <1>2 DEF IInv, vars, slotVars, stateVars, workerVars, callVars, fileVars, TypeOK, SlotTypes,
       StateTypes, WorkerTypes, CallTypes, FileTypes, SlotsExact, TicketsIn
  <2>2. ASSUME NEW v \in Writers PROVE WriterInv(v)'
    BY <1>2, SameKeeps DEF IInv, Same, vars, slotVars, stateVars, workerVars, callVars, fileVars
  <2>. QED  BY <2>1, <2>2 DEF IInv
<1>. QED  BY <1>1, <1>2 DEF Next, WriterStep, Over

\* The inductive invariant: the types and the exact counters, and for every writer where its
\* tickets are, whose operation the worker has, who owns the file and what dooms an orphan.
THEOREM Invariance == Spec => []IInv
BY InitInv, StepInv, PTL DEF Spec

\* The counters of FileWorkerSlots are the numbers of tickets they stand for, whichever of the
\* caller and the worker is first with a ticket, and never pass maximum_workers.
THEOREM PlacesAreConsistent == Spec => []PlacesConsistent
<1>1. IInv => PlacesConsistent
  BY DEF IInv, PlacesConsistent
<1>. QED  BY <1>1, Invariance, PTL

\* Operations on one file are serial, the file exists while it is used and goes with its last
\* owner, an orphan's place comes back after its file went, and a file handed out is complete.
THEOREM FilesAreSafe == Spec => []FilesSafe
<1>1. IInv => FilesSafe
  <2>. SUFFICES ASSUME IInv PROVE FilesSafe
    OBVIOUS
  <2>1. OperationsSerial
    BY DEF IInv, WriterInv, OperationHeld, OperationsSerial
  <2>2. FileOutlivesUse
    BY DEF IInv, WriterInv, OwnersFit, AtWork, Leaving, FileOutlivesUse, TypeOK, FileTypes
  <2>3. OrphanCleanedFirst
    BY DEF IInv, WriterInv, OrphansDoomed, Tickets, OrphanCleanedFirst
  <2>4. ArtifactFinal
    BY DEF IInv, WriterInv, HandedFinal, ArtifactFinal
  <2>. QED  BY <2>1, <2>2, <2>3, <2>4 DEF FilesSafe
<1>. QED  BY <1>1, Invariance, PTL
=============================================================================
