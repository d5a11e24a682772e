-------------------------- MODULE DispatcherContract --------------------------
(***************************************************************************)
(* What a ConnectionDispatcher promises its clients: a bounded number of    *)
(* connections waits inside it; connections that are ready are served in    *)
(* the order in which they became ready; once stopped it starts no service, *)
(* and it drops waiting connections only then.                              *)
(***************************************************************************)
EXTENDS Naturals, Sequences, FiniteSets

CONSTANTS Connections, Capacity

VARIABLES
  phase,    \* where each connection is
  fifo,     \* the connections ready for a worker, oldest first
  stopped

vars == <<phase, fifo, stopped>>

InPhase(ph) == {c \in Connections : phase[c] = ph}

\* The connections that count against the capacity.
Pending == InPhase("admitting") \cup InPhase("queued")

Init ==
  /\ phase = [c \in Connections |-> "outside"]
  /\ fifo = <<>>
  /\ stopped = FALSE

\* A client calls submit().
Offer(c) ==
  /\ phase[c] = "outside"
  /\ phase' = [phase EXCEPT ![c] = "offered"]
  /\ UNCHANGED <<fifo, stopped>>

\* submit() fails and the connection is closed.
Refuse(c) ==
  /\ phase[c] \in {"outside", "offered"}
  /\ phase' = [phase EXCEPT ![c] = "closed"]
  /\ UNCHANGED <<fifo, stopped>>

\* submit() succeeds with an admission stage.
Admit(c) ==
  /\ phase[c] = "offered" /\ ~stopped
  /\ Cardinality(Pending) < Capacity
  /\ phase' = [phase EXCEPT ![c] = "admitting"]
  /\ UNCHANGED <<fifo, stopped>>

\* A connection becomes ready: in submit() without an admission stage.
Enqueue(c) ==
  /\ ~stopped
  /\ \/ phase[c] = "admitting"
     \/ phase[c] = "offered" /\ Cardinality(Pending) < Capacity
  /\ phase' = [phase EXCEPT ![c] = "queued"]
  /\ fifo' = Append(fifo, c)
  /\ UNCHANGED stopped

\* A worker starts the handler of the oldest ready connection.
Serve ==
  /\ fifo # <<>> /\ ~stopped
  /\ phase' = [phase EXCEPT ![Head(fifo)] = "serving"]
  /\ fifo' = Tail(fifo)
  /\ UNCHANGED stopped

Finish(c) ==
  /\ phase[c] = "serving"
  /\ phase' = [phase EXCEPT ![c] = "handled"]
  /\ UNCHANGED <<fifo, stopped>>

\* The waiting connections of set D are closed.
Dropped(D) == [c \in Connections |-> IF c \in D THEN "closed" ELSE phase[c]]

\* Stopping closes every ready connection at once; one that is being admitted
\* may be closed a little later.
Stop ==
  /\ ~stopped
  /\ stopped' = TRUE
  /\ fifo' = <<>>
  /\ \E D \in SUBSET InPhase("admitting") : phase' = Dropped(D \cup InPhase("queued"))

Drop ==
  /\ stopped
  /\ \E D \in SUBSET InPhase("admitting") : phase' = Dropped(D)
  /\ UNCHANGED <<fifo, stopped>>

Next ==
  \/ \E c \in Connections : Offer(c) \/ Refuse(c) \/ Admit(c) \/ Enqueue(c) \/ Finish(c)
  \/ Serve \/ Stop \/ Drop

Spec == Init /\ [][Next]_vars
=============================================================================
