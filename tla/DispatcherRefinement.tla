------------------------- MODULE DispatcherRefinement -------------------------
(***************************************************************************)
(* ConnectionDispatcher implements DispatcherContract.                      *)
(***************************************************************************)
EXTENDS ConnectionDispatcher

\* A live connection is where its owner is; the others say so themselves.
PhaseOf(c) ==
  IF fate[c] = "new" THEN "outside"
  ELSE IF fate[c] \in {"handled", "closed"} THEN fate[c]
  ELSE IF \E p \in Producers : held[p] = c THEN "offered"
  ELSE IF c \in Ring(ready_queue) THEN "queued"
  ELSE IF \E w \in Workers : serving[w] = c THEN "serving"
  ELSE "admitting"

Phases == [c \in Connections |-> PhaseOf(c)]

\* The ready ring, read from its head.
Fifo == [i \in 1 .. ready_count |-> ready_queue[(ready_head + i - 1) % Capacity]]

Contract == INSTANCE DispatcherContract WITH
  phase <- Phases, fifo <- Fifo, stopped <- stopping

\* The two rings, the slots, the lock-free part of promote() and the condition
\* variables together behave as one bounded first-in first-out service that can
\* be stopped: every step is a step of the contract or leaves it unchanged.
ImplementsContract == Contract!Spec
=============================================================================
