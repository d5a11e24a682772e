--------------------------- MODULE SocketWaitProofs ---------------------------
(***************************************************************************)
(* What a call on a connection reports is what happened to it, and no call  *)
(* loses or repeats a byte: for any number of calls, stop sources, prefetched *)
(* bytes and buffer sizes.                                                  *)
(***************************************************************************)
EXTENDS SocketWait, SequenceTheorems, TLAPS

CallTypes ==
    call \in [op : {"receive", "send", "shutdown_send"}, token : Tokens,
              deadline : Deadlines, size : Nat]

StreamTypes ==
    /\ delivered \in Seq(Nat) /\ prefetched \in Seq(Nat) /\ inbound \in Seq(Nat)
    /\ sent \in Nat

Places == {"idle", "enter", "ensure", "register", "poll", "inspect", "check", "leave", "transfer"}

WaitTypes ==
    /\ pc \in Places /\ wakes \in Nat
    /\ peer \in {"open", "closed", "reset"} /\ shut \in BOOLEAN
    /\ events \in [operation : SUBSET {"readable", "writable", "error", "hangup"}, wake : BOOLEAN]

\* The bytes of s carry the numbers after k.
Numbered(s, k) == \A i \in 1..Len(s) : s[i] = k + i

\* The bytes at each place carry the numbers that follow those of the place before.
BytesInOrder ==
    /\ Len(delivered) + Len(prefetched) + Len(inbound) = sent
    /\ Numbered(delivered, 0)
    /\ Numbered(prefetched, Len(delivered))
    /\ Numbered(inbound, Len(delivered) + Len(prefetched))

\* Only a call that transfers waits, and a receive only when nothing is left to replay.
WaitForTransfer ==
    pc # "idle" =>
        /\ call.op \in {"receive", "send"}
        /\ call.op = "receive" => prefetched = <<>>

StreamInv == StreamTypes /\ BytesInOrder /\ WaitForTransfer

\* A terminal readiness has its cause in the socket.
TerminalCause == peer = "reset" \/ shut

\* What the poll reported is still true, or harmless, when it is looked at.
EventsJustified ==
    pc \in {"inspect", "check"} =>
        /\ "error" \in events.operation \/ "hangup" \in events.operation => TerminalCause
        /\ events.wake \/ {Interest(call.op), "error", "hangup"} \cap events.operation # {}

Settled == {"cancelled", "timed_out", "failed", "socket_ready", "socket_error", "socket_hangup"}

\* What the wait settled on has its cause in this call or in the socket.
StatusJustified ==
    pc \in {"leave", "transfer"} =>
        /\ status \in Settled
        /\ status = "cancelled" => call.token \in stopped
        /\ status = "timed_out" => call.deadline = "passed"
        /\ status \in {"socket_error", "socket_hangup"} => TerminalCause

OutcomeInv == EventsJustified /\ StatusJustified /\ OutcomeTruthful

IInv == CallTypes /\ WaitTypes /\ StreamInv /\ OutcomeInv

-----------------------------------------------------------------------------
\* Bytes

LEMMA LesserBound ==
    ASSUME NEW m \in Nat, NEW n \in Nat
    PROVE  /\ Lesser(m, n) \in Nat /\ Lesser(m, n) =< m /\ Lesser(m, n) =< n
           /\ m # 0 /\ n # 0 => Lesser(m, n) # 0
BY DEF Lesser

\* A concatenation, by its elements.
LEMMA Joined ==
    ASSUME NEW s \in Seq(Nat), NEW t \in Seq(Nat)
    PROVE  /\ s \o t \in Seq(Nat) /\ Len(s \o t) = Len(s) + Len(t)
           /\ Len(s) \in Nat /\ Len(t) \in Nat
           /\ \A i \in 1..Len(s) : (s \o t)[i] = s[i]
           /\ \A i \in 1..Len(t) : (s \o t)[Len(s) + i] = t[i]
<1>1. Len(s) \in Nat /\ Len(t) \in Nat
  OBVIOUS
<1>2. /\ s \o t \in Seq(Nat) /\ Len(s \o t) = Len(s) + Len(t)
      /\ \A i \in 1..(Len(s) + Len(t)) :
           (s \o t)[i] = IF i =< Len(s) THEN s[i] ELSE t[i - Len(s)]
  BY ConcatProperties
<1>3. ASSUME NEW i \in 1..Len(t) PROVE (s \o t)[Len(s) + i] = t[i]
  <2>1. Len(s) + i \in 1..(Len(s) + Len(t)) /\ ~(Len(s) + i =< Len(s)) /\ (Len(s) + i) - Len(s) = i
    BY <1>1
  <2>. QED  BY <1>2, <2>1
<1>. QED  BY <1>1, <1>2, <1>3

\* What becomes of t and s when n bytes go from the one to the other.
Moved(front, rest, s, t, n) ==
    /\ front \in Seq(Nat) /\ rest \in Seq(Nat)
    /\ Len(front) = Len(t) + n /\ Len(rest) = Len(s) - n
    /\ Numbered(front, 0) /\ Numbered(rest, Len(front))

\* The first n elements of s are put at the end of t; the rest keeps its order.
LEMMA FrontMoved ==
    ASSUME NEW s \in Seq(Nat), NEW t \in Seq(Nat), NEW n \in Nat, n =< Len(s),
           Numbered(t, 0), Numbered(s, Len(t))
    PROVE  \A front, rest : front = t \o SubSeq(s, 1, n) /\ rest = Drop(s, n)
             => Moved(front, rest, s, t, n)
<1>. SUFFICES ASSUME NEW front, front = t \o SubSeq(s, 1, n), NEW rest, rest = Drop(s, n)
     PROVE  Moved(front, rest, s, t, n)
  OBVIOUS
<1>. DEFINE part == SubSeq(s, 1, n)
<1>1. Len(s) \in Nat /\ Len(t) \in Nat
  OBVIOUS
<1>2. part \in Seq(Nat) /\ Len(part) = n /\ \A i \in 1..n : part[i] = s[i]
  BY <1>1
<1>3. rest \in Seq(Nat) /\ Len(rest) = Len(s) - n
      /\ \A i \in 1..(Len(s) - n) : rest[i] = s[n + i]
  BY <1>1 DEF Drop
<1>. HIDE DEF part
<1>4. /\ front \in Seq(Nat) /\ Len(front) = Len(t) + n
      /\ \A i \in 1..Len(t) : front[i] = t[i]
      /\ \A i \in 1..n : front[Len(t) + i] = part[i]
  <2>1. front = t \o part
    BY DEF part
  <2>. QED  BY <1>2, <2>1, Joined
<1>5. ASSUME NEW i \in 1..Len(front) PROVE front[i] = 0 + i
  <2>1. CASE i =< Len(t)
    BY <1>1, <1>4, <2>1 DEF Numbered
  <2>2. CASE i > Len(t)
    <3>1. i - Len(t) \in 1..n /\ i - Len(t) \in 1..Len(s) /\ Len(t) + (i - Len(t)) = i
      BY <1>1, <1>4, <2>2
    <3>2. front[i] = s[i - Len(t)]
      BY <1>2, <1>4, <3>1
    <3>3. s[i - Len(t)] = Len(t) + (i - Len(t))
      BY <3>1 DEF Numbered
    <3>. QED  BY <3>1, <3>2, <3>3
  <2>. QED  BY <1>1, <1>4, <2>1, <2>2
<1>6. ASSUME NEW i \in 1..Len(rest) PROVE rest[i] = Len(front) + i
  <2>1. n + i \in 1..Len(s) /\ i \in 1..(Len(s) - n)
    BY <1>1, <1>3
  <2>2. s[n + i] = Len(t) + (n + i)
    BY <2>1 DEF Numbered
  <2>. QED  BY SMTT(30), <1>1, <1>3, <1>4, <2>1, <2>2
<1>. QED  BY <1>3, <1>4, <1>5, <1>6 DEF Moved, Numbered

\* The stream that the places hold is the peer's.
LEMMA OrderedIsExact == StreamTypes /\ BytesInOrder => StreamExact
<1>. SUFFICES ASSUME StreamTypes, BytesInOrder PROVE StreamExact
  OBVIOUS
<1>. DEFINE both == delivered \o prefetched
            all  == both \o inbound
<1>0. Len(delivered) \in Nat /\ Len(prefetched) \in Nat /\ Len(inbound) \in Nat
  BY DEF StreamTypes
<1>1. /\ both \in Seq(Nat) /\ Len(both) = Len(delivered) + Len(prefetched)
      /\ \A i \in 1..Len(delivered) : both[i] = delivered[i]
      /\ \A i \in 1..Len(prefetched) : both[Len(delivered) + i] = prefetched[i]
  BY Joined DEF StreamTypes
<1>2. \A i \in 1..Len(both) : both[i] = i
  <2>. SUFFICES ASSUME NEW i \in 1..Len(both) PROVE both[i] = i
    OBVIOUS
  <2>1. CASE i =< Len(delivered)
    BY <1>0, <1>1, <2>1 DEF BytesInOrder, Numbered
  <2>2. CASE i > Len(delivered)
    <3>1. i - Len(delivered) \in 1..Len(prefetched)
      BY <1>0, <1>1, <2>2
    <3>2. both[Len(delivered) + (i - Len(delivered))] = prefetched[i - Len(delivered)]
      BY <1>1, <3>1
    <3>. QED  BY <1>0, <3>1, <3>2 DEF BytesInOrder, Numbered
  <2>. QED  BY <1>0, <1>1, <2>1, <2>2
<1>. HIDE DEF both
<1>3. /\ all \in Seq(Nat) /\ Len(all) = Len(both) + Len(inbound)
      /\ \A i \in 1..Len(both) : all[i] = both[i]
      /\ \A i \in 1..Len(inbound) : all[Len(both) + i] = inbound[i]
  BY <1>1, Joined DEF StreamTypes
<1>4. \A i \in 1..Len(all) : all[i] = i
  <2>. SUFFICES ASSUME NEW i \in 1..Len(all) PROVE all[i] = i
    OBVIOUS
  <2>1. CASE i =< Len(both)
    BY <1>0, <1>1, <1>2, <1>3, <2>1
  <2>2. CASE i > Len(both)
    <3>1. i - Len(both) \in 1..Len(inbound)
      BY <1>0, <1>1, <1>3, <2>2
    <3>2. all[Len(both) + (i - Len(both))] = inbound[i - Len(both)]
      BY <1>3, <3>1
    <3>. QED  BY <1>0, <1>1, <3>1, <3>2 DEF BytesInOrder, Numbered
  <2>. QED  BY <1>0, <1>1, <1>3, <2>1, <2>2
<1>5. Len(all) = sent
  BY <1>0, <1>1, <1>3 DEF BytesInOrder
<1>. HIDE DEF all
<1>6. all = [i \in 1..Len(all) |-> all[i]]
  BY <1>3
<1>7. all = [i \in 1..sent |-> i]
  BY <1>4, <1>5, <1>6
<1>. QED  BY <1>7 DEF StreamExact, all, both

\* The first n prefetched bytes, or the first n bytes of the receive buffer, are handed over.
HandsPrefetched(n) ==
    delivered' = delivered \o SubSeq(prefetched, 1, n) /\ prefetched' = Drop(prefetched, n)
HandsInbound(n) ==
    delivered' = delivered \o SubSeq(inbound, 1, n) /\ inbound' = Drop(inbound, n)

\* Bytes are handed over from the front of what was prefetched ...
LEMMA ReplayKeepsOrder ==
    ASSUME StreamTypes, BytesInOrder, NEW n \in Nat, n =< Len(prefetched),
           HandsPrefetched(n), UNCHANGED <<inbound, sent>>
    PROVE  StreamTypes' /\ BytesInOrder'
<1>1. Len(delivered) \in Nat /\ Len(prefetched) \in Nat /\ Len(inbound) \in Nat
  BY DEF StreamTypes
<1>2. /\ delivered' \in Seq(Nat) /\ prefetched' \in Seq(Nat)
      /\ Len(delivered') = Len(delivered) + n /\ Len(prefetched') = Len(prefetched) - n
      /\ Numbered(delivered', 0) /\ Numbered(prefetched', Len(delivered'))
  <2>0. /\ delivered \in Seq(Nat) /\ prefetched \in Seq(Nat)
        /\ Numbered(delivered, 0) /\ Numbered(prefetched, Len(delivered))
    BY DEF StreamTypes, BytesInOrder
  <2>1. \A front, rest : front = delivered \o SubSeq(prefetched, 1, n) /\ rest = Drop(prefetched, n)
          => Moved(front, rest, prefetched, delivered, n)
    BY <2>0, FrontMoved, Zenon
  <2>2. Moved(delivered', prefetched', prefetched, delivered, n)
    BY <2>1, Zenon DEF HandsPrefetched
  <2>. QED  BY <2>2 DEF Moved
<1>3. Len(delivered') + Len(prefetched') = Len(delivered) + Len(prefetched)
  BY <1>1, <1>2
<1>4. Numbered(inbound', Len(delivered') + Len(prefetched'))
  BY <1>3 DEF BytesInOrder
<1>. QED  BY <1>2, <1>3, <1>4 DEF StreamTypes, BytesInOrder

\* ... or, when nothing is prefetched, from the front of the receive buffer.
LEMMA ReceiveKeepsOrder ==
    ASSUME StreamTypes, BytesInOrder, prefetched = <<>>, NEW n \in Nat, n =< Len(inbound),
           HandsInbound(n), UNCHANGED <<prefetched, sent>>
    PROVE  StreamTypes' /\ BytesInOrder'
<1>1. /\ Len(delivered) \in Nat /\ Len(prefetched) = 0 /\ Len(inbound) \in Nat
      /\ Len(delivered) + Len(prefetched) = Len(delivered)
  BY DEF StreamTypes
<1>2. /\ delivered' \in Seq(Nat) /\ inbound' \in Seq(Nat)
      /\ Len(delivered') = Len(delivered) + n /\ Len(inbound') = Len(inbound) - n
      /\ Numbered(delivered', 0) /\ Numbered(inbound', Len(delivered'))
  <2>1. /\ delivered \in Seq(Nat) /\ inbound \in Seq(Nat)
        /\ Numbered(delivered, 0) /\ Numbered(inbound, Len(delivered))
    BY <1>1 DEF StreamTypes, BytesInOrder
  <2>2. \A front, rest : front = delivered \o SubSeq(inbound, 1, n) /\ rest = Drop(inbound, n)
          => Moved(front, rest, inbound, delivered, n)
    BY <2>1, FrontMoved, Zenon
  <2>3. Moved(delivered', inbound', inbound, delivered, n)
    BY <2>2, Zenon DEF HandsInbound
  <2>. QED  BY <2>3 DEF Moved
<1>3. /\ Len(prefetched') = 0 /\ Len(delivered') + Len(prefetched') = Len(delivered')
      /\ Len(delivered') + Len(inbound') = Len(delivered) + Len(inbound)
  BY <1>1, <1>2
<1>4. Numbered(prefetched', Len(delivered'))
  BY <1>3 DEF Numbered
<1>5. Len(delivered') + Len(prefetched') + Len(inbound') = sent'
  BY <1>1, <1>3 DEF BytesInOrder
<1>. QED  BY <1>2, <1>3, <1>4, <1>5 DEF StreamTypes, BytesInOrder

\* The peer's bytes join at the end.
LEMMA PeerKeepsOrder ==
    ASSUME StreamTypes, BytesInOrder, sent' = sent + 1, inbound' = Append(inbound, sent + 1),
           UNCHANGED <<delivered, prefetched>>
    PROVE  StreamTypes' /\ BytesInOrder'
<1>1. Len(delivered) \in Nat /\ Len(prefetched) \in Nat /\ Len(inbound) \in Nat /\ sent + 1 \in Nat
  BY DEF StreamTypes
<1>2. /\ inbound' \in Seq(Nat) /\ Len(inbound') = Len(inbound) + 1
      /\ \A i \in 1..Len(inbound) : inbound'[i] = inbound[i]
      /\ inbound'[Len(inbound) + 1] = sent + 1
  BY <1>1, AppendProperties DEF StreamTypes
<1>. DEFINE k == Len(delivered) + Len(prefetched)
<1>3. k \in Nat /\ k + Len(inbound) = sent /\ Numbered(inbound, k)
  BY <1>1 DEF BytesInOrder
<1>. HIDE DEF k
<1>4. Numbered(inbound', k)
  <2>. SUFFICES ASSUME NEW i \in 1..Len(inbound') PROVE inbound'[i] = k + i
    BY DEF Numbered
  <2>1. CASE i \in 1..Len(inbound)
    BY <1>2, <1>3, <2>1 DEF Numbered
  <2>2. CASE i = Len(inbound) + 1
    BY <1>1, <1>2, <1>3, <2>2
  <2>. QED  BY <1>1, <1>2, <2>1, <2>2
<1>5. k + Len(inbound') = sent'
  BY <1>1, <1>2, <1>3
<1>. QED  BY <1>1, <1>2, <1>4, <1>5 DEF StreamTypes, BytesInOrder, k

-----------------------------------------------------------------------------
\* The steps and the stream

StreamUnchanged == UNCHANGED <<delivered, prefetched, inbound, sent>>

LEMMA OrderUntouched ==
    StreamTypes /\ BytesInOrder /\ StreamUnchanged => StreamTypes' /\ BytesInOrder'
BY DEF StreamTypes, BytesInOrder, StreamUnchanged

\* Each step leaves the bytes alone or moves them from the front of one place to the end
\* of another.
LEMMA StreamStep == IInv /\ [Next]_vars => StreamInv'
<1>. SUFFICES ASSUME IInv, [Next]_vars PROVE StreamInv'
  OBVIOUS
<1>. USE SocketWaitAssumption DEF IInv, StreamInv
<1>1. ASSUME NEW t \in Tokens, NEW d \in Deadlines, NEW n \in Sizes,
             receive_with_options(t, d, n)
      PROVE  StreamInv'
  <2>0. n \in Nat /\ call' = [op |-> "receive", token |-> t, deadline |-> d, size |-> n]
    BY <1>1 DEF receive_with_options, Invoke
  <2>1. CASE UNCHANGED connection /\ pc' = "idle"
    BY <1>1, <2>1, OrderUntouched
       DEF receive_with_options, socket, connection, StreamUnchanged, WaitForTransfer
  <2>2. CASE UNCHANGED connection /\ prefetched = <<>>
    BY <1>1, <2>0, <2>2, OrderUntouched
       DEF receive_with_options, socket, connection, StreamUnchanged, WaitForTransfer
  <2>3. CASE /\ delivered' = delivered \o SubSeq(prefetched, 1, Lesser(n, Len(prefetched)))
             /\ prefetched' = Replayed(Lesser(n, Len(prefetched))) /\ pc' = "idle"
    <3>1. Len(prefetched) \in Nat
      BY DEF StreamTypes
    <3>2. Lesser(n, Len(prefetched)) \in Nat /\ Lesser(n, Len(prefetched)) =< Len(prefetched)
      BY <2>0, <3>1, LesserBound
    <3>3. UNCHANGED <<inbound, sent>>
      BY <1>1 DEF receive_with_options, socket
    <3>4. StreamTypes' /\ BytesInOrder'
      BY <2>3, <3>2, <3>3, ReplayKeepsOrder DEF Replayed, HandsPrefetched
    <3>. QED  BY <2>3, <3>4 DEF WaitForTransfer
  <2>. QED  BY <1>1, <2>1, <2>2, <2>3 DEF receive_with_options, RejectCall, Return, Proceed
<1>2. ASSUME NEW t \in Tokens, NEW d \in Deadlines, NEW n \in Sizes, send_with_options(t, d, n)
      PROVE  StreamInv'
  <2>1. /\ call' = [op |-> "send", token |-> t, deadline |-> d, size |-> n]
        /\ UNCHANGED <<connection, socket>>
    BY <1>2 DEF send_with_options, Invoke
  <2>. QED  BY <2>1, OrderUntouched DEF connection, socket, StreamUnchanged, WaitForTransfer
<1>3. CASE shutdown_send
  BY <1>3, OrderUntouched
     DEF shutdown_send, Return, connection, StreamUnchanged, WaitForTransfer
<1>4. CASE MoveAway
  BY <1>4, OrderUntouched DEF MoveAway, socket, StreamUnchanged, WaitForTransfer
<1>5. CASE Wait
  <2>1. pc # "idle" /\ UNCHANGED <<connection, socket, call>>
    BY <1>5 DEF Wait, WaitEnter, ensure_initialized, RegisterCallback, PollEvents, PollTimeout,
       PollFails, DrainWake, Inspect, LeaveWait, caller
  <2>. QED  BY <2>1, OrderUntouched DEF connection, socket, StreamUnchanged, WaitForTransfer
<1>6. CASE InterruptedTransfer \/ SendTransfer
  <2>1. pc # "idle" /\ UNCHANGED <<connection, inbound, sent, call>>
    BY <1>6 DEF InterruptedTransfer, SendTransfer, caller, socket
  <2>. QED  BY <2>1, OrderUntouched DEF connection, StreamUnchanged, WaitForTransfer
<1>7. CASE ReceiveTransfer
  <2>1. /\ pc = "transfer" /\ call.op = "receive" /\ prefetched = <<>>
        /\ UNCHANGED <<prefetched, sent, call>>
    BY <1>7 DEF ReceiveTransfer, caller, WaitForTransfer
  <2>2. WaitForTransfer'
    BY <2>1 DEF WaitForTransfer
  <2>3. CASE UNCHANGED <<delivered, inbound>>
    BY <2>1, <2>2, <2>3, OrderUntouched DEF StreamUnchanged
  <2>4. CASE /\ delivered' = delivered \o SubSeq(inbound, 1, Lesser(call.size, Len(inbound)))
             /\ inbound' = Drop(inbound, Lesser(call.size, Len(inbound)))
    <3>1. Len(inbound) \in Nat /\ call.size \in Nat
      BY DEF StreamTypes, CallTypes
    <3>2. Lesser(call.size, Len(inbound)) \in Nat
          /\ Lesser(call.size, Len(inbound)) =< Len(inbound)
      BY <3>1, LesserBound
    <3>. QED  BY <2>1, <2>2, <2>4, <3>2, ReceiveKeepsOrder DEF HandsInbound
  <2>. QED  BY <1>7, <2>3, <2>4 DEF ReceiveTransfer
<1>8. CASE Stopper
  BY <1>8, OrderUntouched DEF Stopper, RequestStop, BeginCallback, RunCallback, connection,
     socket, caller, StreamUnchanged, WaitForTransfer
<1>9. CASE DeadlinePasses
  <2>1. call'.op = call.op /\ UNCHANGED <<connection, socket, pc>>
    BY <1>9 DEF DeadlinePasses, CallTypes
  <2>. QED  BY <2>1, OrderUntouched DEF connection, socket, StreamUnchanged, WaitForTransfer
<1>10. CASE Peer
  <2>1. UNCHANGED <<delivered, prefetched, call, pc>>
    BY <1>10 DEF Peer, connection, caller
  <2>2. CASE PeerSends
    BY <2>1, <2>2, PeerKeepsOrder DEF PeerSends, WaitForTransfer
  <2>3. CASE UNCHANGED <<inbound, sent>>
    BY <2>1, <2>3, OrderUntouched DEF StreamUnchanged, WaitForTransfer
  <2>. QED  BY <1>10, <2>2, <2>3 DEF Peer, PeerReads, PeerEnds
<1>11. CASE UNCHANGED vars
  BY <1>11, OrderUntouched DEF vars, connection, socket, caller, StreamUnchanged, WaitForTransfer
<1>. QED  BY <1>1, <1>2, <1>3, <1>4, <1>5, <1>6, <1>7, <1>8, <1>9, <1>10, <1>11 DEF Next, Transfer

-----------------------------------------------------------------------------
\* The steps and what a call reports

\* Steps keep the types of the call and of the wait.
LEMMA TypesStep == IInv /\ [Next]_vars => CallTypes' /\ WaitTypes'
<1>. SUFFICES ASSUME IInv, [Next]_vars PROVE CallTypes' /\ WaitTypes'
  OBVIOUS
<1>. USE SocketWaitAssumption DEF IInv, CallTypes, WaitTypes, Places
<1>1. ASSUME NEW t \in Tokens, NEW d \in Deadlines, NEW n \in Sizes,
             receive_with_options(t, d, n) \/ send_with_options(t, d, n)
      PROVE  CallTypes' /\ WaitTypes'
  BY <1>1 DEF receive_with_options, send_with_options, Invoke, RejectCall, Return, Proceed,
     channel, socket
<1>2. CASE shutdown_send
  BY <1>2 DEF shutdown_send, Invoke, Return, Tokens, Deadlines, channel
<1>3. CASE MoveAway
  BY <1>3 DEF MoveAway, channel, socket, caller, waiting
<1>4. CASE WaitEnter \/ ensure_initialized \/ PollTimeout \/ PollFails
  BY <1>4 DEF WaitEnter, ensure_initialized, PollTimeout, PollFails, Settle, channel, socket, caller
<1>5. CASE RegisterCallback \/ DrainWake
  <2>1. wakes' \in Nat
    BY <1>5 DEF RegisterCallback, DrainWake, notify, Lesser
  <2>. QED  BY <1>5, <2>1 DEF RegisterCallback, DrainWake, socket, caller, waiting
<1>6. ASSUME NEW spurious \in BOOLEAN, PollEvents(spurious) PROVE CallTypes' /\ WaitTypes'
  <2>1. events' \in [operation : SUBSET {"readable", "writable", "error", "hangup"}, wake : BOOLEAN]
    BY <1>6 DEF PollEvents, OperationFlags, Interest
  <2>. QED  BY <1>6, <2>1 DEF PollEvents, channel, socket, caller
<1>7. CASE Inspect
  BY <1>7 DEF Inspect, Settle, NoEvents, channel, socket, caller
<1>8. CASE LeaveWait
  BY <1>8 DEF LeaveWait, Return, channel, socket, caller
<1>9. CASE InterruptedTransfer \/ ReceiveTransfer \/ SendTransfer
  BY <1>9 DEF InterruptedTransfer, ReceiveTransfer, SendTransfer, WouldBlock, Return, Proceed,
     channel, socket, caller
<1>10. CASE Stopper
  <2>1. wakes' \in Nat
    BY <1>10 DEF Stopper, RequestStop, BeginCallback, RunCallback, notify, Lesser, channel
  <2>. QED  BY <1>10, <2>1 DEF Stopper, RequestStop, BeginCallback, RunCallback, socket, caller, waiting
<1>11. CASE DeadlinePasses
  BY <1>11 DEF DeadlinePasses, Deadlines, channel, socket, waiting
<1>12. CASE Peer
  BY <1>12 DEF Peer, PeerSends, PeerReads, PeerEnds, channel, caller, waiting
<1>13. CASE UNCHANGED vars
  BY <1>13 DEF vars, channel, socket, caller, waiting
<1>. QED  BY <1>1, <1>2, <1>3, <1>4, <1>5, <1>6, <1>7, <1>8, <1>9, <1>10, <1>11, <1>12, <1>13
             DEF Next, Wait, Transfer

\* The causes a report rests on are never taken back while the call lasts.
LEMMA CausesStay ==
    ASSUME IInv, [Next]_vars
    PROVE  /\ stopped \subseteq stopped'
           /\ TerminalCause => TerminalCause'
           /\ pc # "idle" => /\ call'.token = call.token /\ call'.op = call.op
                             /\ call.deadline = "passed" => call'.deadline = "passed"
<1>. USE DEF IInv
<1>1. CASE \E t \in Tokens, d \in Deadlines, n \in Sizes :
             receive_with_options(t, d, n) \/ send_with_options(t, d, n)
  BY <1>1 DEF receive_with_options, send_with_options, Invoke, socket, stopping, TerminalCause
<1>2. CASE shutdown_send \/ MoveAway
  <2>1. shut \in BOOLEAN
    BY DEF WaitTypes
  <2>2. (shut => shut') /\ UNCHANGED <<peer, stopped>>
    BY <1>2, <2>1 DEF shutdown_send, MoveAway, socket, stopping
  <2>3. pc # "idle" => UNCHANGED call
    BY <1>2 DEF shutdown_send, MoveAway, Invoke
  <2>. QED  BY <2>2, <2>3 DEF TerminalCause
<1>3. CASE Wait
  BY <1>3 DEF Wait, WaitEnter, ensure_initialized, RegisterCallback, PollEvents, PollTimeout,
     PollFails, DrainWake, Inspect, LeaveWait, socket, stopping, caller, TerminalCause
<1>4. CASE Transfer
  BY <1>4 DEF Transfer, InterruptedTransfer, ReceiveTransfer, SendTransfer, socket, stopping,
     caller, TerminalCause
<1>5. CASE Stopper
  BY <1>5 DEF Stopper, RequestStop, BeginCallback, RunCallback, socket, caller, TerminalCause
<1>6. CASE DeadlinePasses
  BY <1>6 DEF DeadlinePasses, CallTypes, socket, stopping, TerminalCause
<1>7. CASE Peer
  BY <1>7 DEF Peer, PeerSends, PeerReads, PeerEnds, stopping, caller, TerminalCause
<1>8. CASE UNCHANGED vars
  BY <1>8 DEF vars, socket, stopping, caller, TerminalCause
<1>. QED  BY <1>1, <1>2, <1>3, <1>4, <1>5, <1>6, <1>7, <1>8 DEF Next

\* A report that stands keeps its cause.
LEMMA ReportStands ==
    ASSUME IInv, [Next]_vars, UNCHANGED <<pc, status, result, events>>, call' = call \/ pc # "idle"
    PROVE  OutcomeInv'
<1>. USE CausesStay DEF IInv, OutcomeInv
<1>1. EventsJustified'
  BY DEF EventsJustified, Interest
<1>2. StatusJustified'
  BY DEF StatusJustified
<1>3. OutcomeTruthful'
  BY DEF OutcomeTruthful, TerminalCause
<1>. QED  BY <1>1, <1>2, <1>3

LEMMA OutcomeStep == IInv /\ [Next]_vars => OutcomeInv'
<1>. SUFFICES ASSUME IInv, [Next]_vars PROVE OutcomeInv'
  OBVIOUS
<1>0. /\ stopped \subseteq stopped' /\ (TerminalCause => TerminalCause')
      /\ pc # "idle" => /\ call'.token = call.token /\ call'.op = call.op
                        /\ call.deadline = "passed" => call'.deadline = "passed"
  BY CausesStay
<1>. USE SocketWaitAssumption DEF IInv, OutcomeInv
<1>1. ASSUME NEW t \in Tokens, NEW d \in Deadlines, NEW n \in Sizes,
             receive_with_options(t, d, n)
      PROVE  OutcomeInv'
  <2>1. /\ call' = [op |-> "receive", token |-> t, deadline |-> d, size |-> n]
        /\ UNCHANGED stopped
    BY <1>1 DEF receive_with_options, Invoke, stopping
  <2>2. pc' = "enter" \/ (pc' = "idle" /\ result' \in {"validation", "state", "transferred"})
        \/ (pc' = "idle" /\ result' = interruption_status(call') /\ result' # "none")
    BY <1>1 DEF receive_with_options, RejectCall, Return, Proceed
  <2>. QED  BY <2>1, <2>2 DEF interruption_status, EventsJustified, StatusJustified, OutcomeTruthful
<1>2. ASSUME NEW t \in Tokens, NEW d \in Deadlines, NEW n \in Sizes, send_with_options(t, d, n)
      PROVE  OutcomeInv'
  BY <1>2 DEF send_with_options, RejectCall, Return, Proceed, EventsJustified, StatusJustified,
     OutcomeTruthful
<1>3. CASE shutdown_send
  BY <1>3 DEF shutdown_send, Return, EventsJustified, StatusJustified, OutcomeTruthful
<1>4. CASE MoveAway \/ Stopper \/ DeadlinePasses \/ Peer \/ UNCHANGED vars
  <2>1. UNCHANGED <<pc, status, result, events>> /\ (call' = call \/ pc # "idle")
    BY <1>4 DEF MoveAway, Stopper, RequestStop, BeginCallback, RunCallback, DeadlinePasses, Peer,
       vars, caller, waiting
  <2>. QED  BY <2>1, ReportStands
<1>5. CASE WaitEnter
  BY <1>0, <1>5 DEF WaitEnter, Settle, interruption_status, stopping, caller, EventsJustified,
     StatusJustified, OutcomeTruthful, Settled
<1>6. CASE ensure_initialized \/ RegisterCallback \/ PollFails
  BY <1>6 DEF ensure_initialized, RegisterCallback, PollFails, Settle, EventsJustified,
     StatusJustified, OutcomeTruthful, Settled
<1>7. ASSUME NEW spurious \in BOOLEAN, PollEvents(spurious) PROVE OutcomeInv'
  <2>1. pc' = "inspect"
    BY <1>7 DEF PollEvents
  <2>2. EventsJustified'
    <3>1. PICK flags, woken :
            /\ flags = OperationFlags(call.op) \cup (IF spurious THEN {Interest(call.op)} ELSE {})
            /\ flags # {} \/ woken
            /\ events' = [operation |-> flags, wake |-> woken]
      BY <1>7 DEF PollEvents
    <3>2. call.op \in {"receive", "send"} /\ call' = call
      BY <1>7 DEF PollEvents, caller, StreamInv, WaitForTransfer
    <3>3. flags \subseteq {Interest(call.op), "error", "hangup"}
      BY <3>1, <3>2 DEF OperationFlags, Interest
    <3>4. "error" \in flags \/ "hangup" \in flags => TerminalCause
      BY <3>1, <3>2 DEF OperationFlags, Interest, TerminalCause
    <3>. QED  BY <1>0, <3>1, <3>2, <3>3, <3>4 DEF EventsJustified
  <2>. QED  BY <2>1, <2>2 DEF StatusJustified, OutcomeTruthful
<1>8. CASE PollTimeout
  BY <1>0, <1>8 DEF PollTimeout, Settle, stopping, caller, EventsJustified, StatusJustified,
     OutcomeTruthful, Settled
<1>9. CASE DrainWake
  <2>1. pc = "inspect" /\ pc' = "check" /\ UNCHANGED <<events, call>>
    BY <1>9 DEF DrainWake, waiting, caller
  <2>. QED  BY <1>0, <2>1 DEF EventsJustified, StatusJustified, OutcomeTruthful
<1>10. CASE Inspect
  <2>1. pc = "check" /\ UNCHANGED <<call, stopped>> /\ (TerminalCause' <=> TerminalCause)
    BY <1>10 DEF Inspect, caller, stopping, socket, TerminalCause
  <2>2. CASE pc' = "poll"
    BY <2>2 DEF EventsJustified, StatusJustified, OutcomeTruthful
  <2>3. CASE call.token \in stopped /\ Settle("cancelled")
    BY <2>1, <2>3 DEF Settle, Settled, EventsJustified, StatusJustified, OutcomeTruthful
  <2>4. CASE /\ call.token \notin stopped /\ ~events.wake
             /\ Settle(ready_status(events.operation))
    <3>1. /\ "error" \in events.operation \/ "hangup" \in events.operation => TerminalCause
          /\ {Interest(call.op), "error", "hangup"} \cap events.operation # {}
      BY <2>1, <2>4 DEF EventsJustified
    <3>2. ready_status(events.operation) \in {"socket_ready", "socket_error", "socket_hangup"}
          /\ (ready_status(events.operation) # "socket_ready" => TerminalCause)
      BY <3>1 DEF ready_status
    <3>. QED  BY <2>1, <2>4, <3>2 DEF Settle, Settled, EventsJustified, StatusJustified,
                                     OutcomeTruthful
  <2>. QED  BY <1>10, <2>2, <2>3, <2>4 DEF Inspect, inspect_wake_entry, WaitTypes
<1>11. CASE LeaveWait
  <2>1. pc = "leave" /\ UNCHANGED <<call, stopped>>
    BY <1>11 DEF LeaveWait, caller
  <2>2. CASE status \in {"cancelled", "timed_out", "failed"} /\ Return(status)
    BY <2>1, <2>2 DEF Return, EventsJustified, StatusJustified, OutcomeTruthful
  <2>3. CASE pc' = "transfer" /\ UNCHANGED status
    BY <1>0, <2>1, <2>3 DEF EventsJustified, StatusJustified, OutcomeTruthful
  <2>. QED  BY <1>11, <2>1, <2>2, <2>3 DEF LeaveWait, StatusJustified, Settled
<1>12. CASE InterruptedTransfer \/ ReceiveTransfer \/ SendTransfer
  <2>1. pc = "transfer"
    BY <1>12 DEF InterruptedTransfer, ReceiveTransfer, SendTransfer
  <2>2. \/ pc' = "enter"
        \/ pc' = "idle" /\ result' \in {"transferred", "end"}
        \/ pc' = "idle" /\ result' = "error" /\ TerminalCause
    BY <1>12, <2>1 DEF InterruptedTransfer, ReceiveTransfer, SendTransfer, WouldBlock, Return,
       Proceed, StatusJustified, TerminalCause
  <2>. QED  BY <1>0, <2>2 DEF EventsJustified, StatusJustified, OutcomeTruthful, TerminalCause
<1>. QED  BY <1>1, <1>2, <1>3, <1>4, <1>5, <1>6, <1>7, <1>8, <1>9, <1>10, <1>11, <1>12
             DEF Next, Wait, Transfer

-----------------------------------------------------------------------------

LEMMA InitInv == Init => IInv
<1>. SUFFICES ASSUME Init PROVE IInv
  OBVIOUS
<1>. USE SocketWaitAssumption
<1>1. CallTypes /\ WaitTypes
  BY DEF Init, CallTypes, WaitTypes, Places, Tokens, Deadlines, NoEvents
<1>2. StreamInv
  <2>1. PICK n \in 0..Prefix : prefetched = [i \in 1..n |-> i] /\ sent = n
    BY DEF Init
  <2>2. n \in Nat /\ prefetched \in Seq(Nat) /\ Len(prefetched) = n
        /\ \A i \in 1..n : prefetched[i] = i
    BY <2>1
  <2>3. Len(delivered) = 0 /\ Len(inbound) = 0 /\ delivered \in Seq(Nat) /\ inbound \in Seq(Nat)
    BY DEF Init
  <2>4. StreamTypes /\ BytesInOrder
    BY <2>1, <2>2, <2>3 DEF StreamTypes, BytesInOrder, Numbered
  <2>. QED  BY <2>4 DEF Init, StreamInv, WaitForTransfer
<1>3. OutcomeInv
  BY DEF Init, OutcomeInv, EventsJustified, StatusJustified, OutcomeTruthful
<1>. QED  BY <1>1, <1>2, <1>3 DEF IInv

\* The inductive invariant: types, the order of the bytes at their three places, and the
\* cause behind every readiness, status and result.
THEOREM Invariance == Spec => []IInv
<1>1. IInv /\ [Next]_vars => IInv'
  BY TypesStep, StreamStep, OutcomeStep DEF IInv
<1>. QED  BY InitInv, <1>1, PTL DEF Spec

\* Whatever pieces a caller asks for and however its calls end, the bytes delivered, prefetched
\* and buffered are the peer's stream, each once and in order.
THEOREM StreamIsExact == Spec => []StreamExact
<1>1. IInv => StreamExact
  BY OrderedIsExact DEF IInv, StreamInv
<1>. QED  BY <1>1, Invariance, PTL

\* A call reports a cancellation, a timeout or a transfer error only for a cause of its own.
THEOREM OutcomesAreTruthful == Spec => []OutcomeTruthful
<1>1. IInv => OutcomeTruthful
  BY DEF IInv, OutcomeInv
<1>. QED  BY <1>1, Invariance, PTL

=============================================================================
