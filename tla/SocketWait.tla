----------------------------- MODULE SocketWait -----------------------------
(***************************************************************************)
(* One TcpConnection and the thread that uses it: the readiness wait with  *)
(* its wake channel, stop callback and deadline (socket_wait.cpp,          *)
(* socket_poller.cpp), the transfer loop above it (connection_io.cpp) and  *)
(* the public calls with the replay of prefetched bytes                    *)
(* (tcp_connection.cpp).  The other actors are the threads that request a  *)
(* stop and then run the stop callback, the clock, the peer and the        *)
(* kernel.                                                                 *)
(*                                                                         *)
(* A call carries the token of one of several stop sources, or a token     *)
(* that can never be stopped, and perhaps a deadline.  The wake channel    *)
(* belongs to the connection and outlives the call, so a wake byte sent    *)
(* for one call may be found by the next.                                  *)
(***************************************************************************)
EXTENDS Integers, Sequences, FiniteSets

CONSTANTS
    Sources,     \* the stop sources whose tokens a caller may pass
    NoToken,     \* a token with no stop source behind it
    Prefix,      \* most bytes admission has read ahead
    Wire,        \* most bytes the peer sends, the prefix included
    SendSpace,   \* capacity of the socket's send buffer
    WakeSpace,   \* capacity of the wake channel's receive buffer
    Sizes,       \* buffer sizes a caller passes
    Calls        \* bound on the number of calls

ASSUME SocketWaitAssumption ==
    /\ NoToken \notin Sources
    /\ Prefix \in Nat /\ Wire \in Nat /\ Prefix =< Wire
    /\ SendSpace \in Nat /\ WakeSpace \in Nat \ {0}
    /\ Sizes \subseteq Nat /\ Calls \in Nat

VARIABLES
    open,        \* the connection still owns its socket
    prefetched,  \* bytes read by admission and not yet replayed
    delivered,   \* bytes handed to the caller so far
    created,     \* the wake channel's sockets exist
    wakes,       \* wake bytes waiting in the channel
    peer,        \* what the peer did: "open", "closed" (FIN) or "reset"
    shut,        \* the sending direction was shut down
    sent,        \* bytes the peer has sent
    inbound,     \* bytes in the socket's receive buffer
    space,       \* free bytes of the socket's send buffer
    stopped,     \* the sources that were asked to stop
    registered,  \* the source holding the wait's stop callback, or NoToken
    firing,      \* the stop callback is running on the stopping thread
    call,        \* the current or last call
    calls,       \* number of calls made
    pc,          \* where the calling thread is
    events,      \* what the last poll reported
    status,      \* what the wait settled on
    result       \* what the last call returned

connection == <<open, prefetched, delivered>>
channel    == <<created, wakes>>
socket     == <<peer, shut, sent, inbound, space>>
stopping   == <<stopped, registered, firing>>
caller     == <<call, calls>>
waiting    == <<events, status>>
vars == <<connection, channel, socket, stopping, caller, waiting, pc, result>>

Lesser(m, n) == IF m < n THEN m ELSE n
Drop(s, n) == SubSeq(s, n + 1, Len(s))

Deadlines == {"none", "ahead", "passed"}
Tokens == Sources \cup {NoToken}
NoEvents == [operation |-> {}, wake |-> FALSE]

Init ==
    /\ open = TRUE /\ delivered = <<>>
    /\ \E n \in 0..Prefix : prefetched = [i \in 1..n |-> i] /\ sent = n
    /\ created = FALSE /\ wakes = 0
    /\ peer = "open" /\ shut = FALSE /\ inbound = <<>> /\ space = SendSpace
    /\ stopped = {} /\ registered = NoToken /\ firing = FALSE
    /\ call = [op |-> "shutdown_send", token |-> NoToken, deadline |-> "none", size |-> 0]
    /\ calls = 0
    /\ pc = "idle" /\ events = NoEvents
    /\ status = "none" /\ result = "none"

-----------------------------------------------------------------------------
(* The public calls.                                                       *)

\* Cancellation has priority over an elapsed deadline.
interruption_status(c) ==
    CASE c.token \in stopped     -> "cancelled"
      [] c.deadline = "passed"   -> "timed_out"
      [] OTHER                   -> "none"

Return(r) == pc' = "idle" /\ result' = r /\ status' = "none"

Proceed == pc' = "enter" /\ result' = "none" /\ status' = "none"

Invoke(c) ==
    /\ pc = "idle" /\ calls < Calls
    /\ calls' = calls + 1 /\ call' = c

Rejected(n) == ~open \/ n = 0

RejectCall == Return(IF open THEN "validation" ELSE "state")

\* Mutant: a partial copy forgets the rest.
ReplayedAtOnce(n) == <<>>

\* The part of the prefetched bytes that stays behind when n were copied.
Replayed(n) == Drop(prefetched, n)

receive_with_options(t, d, n) ==
    /\ Invoke([op |-> "receive", token |-> t, deadline |-> d, size |-> n])
    /\ \/ Rejected(n) /\ RejectCall /\ UNCHANGED connection
       \/ /\ ~Rejected(n) /\ interruption_status(call') # "none"
          /\ Return(interruption_status(call')) /\ UNCHANGED connection
       \/ /\ ~Rejected(n) /\ interruption_status(call') = "none" /\ prefetched # <<>>
          /\ LET copied == Lesser(n, Len(prefetched)) IN
                /\ delivered' = delivered \o SubSeq(prefetched, 1, copied)
                /\ prefetched' = Replayed(copied)
          /\ Return("transferred") /\ UNCHANGED open
       \/ /\ ~Rejected(n) /\ interruption_status(call') = "none" /\ prefetched = <<>>
          /\ Proceed /\ UNCHANGED connection
    /\ UNCHANGED <<channel, socket, stopping, events>>

send_with_options(t, d, n) ==
    /\ Invoke([op |-> "send", token |-> t, deadline |-> d, size |-> n])
    /\ \/ Rejected(n) /\ RejectCall
       \/ ~Rejected(n) /\ Proceed
    /\ UNCHANGED <<connection, channel, socket, stopping, events>>

\* The native shutdown fails on a socket the peer has reset.
shutdown_send ==
    /\ Invoke([op |-> "shutdown_send", token |-> NoToken, deadline |-> "none", size |-> 0])
    /\ Return(IF ~open THEN "state" ELSE IF peer = "reset" THEN "error" ELSE "done")
    /\ shut' = (shut \/ (open /\ peer # "reset"))
    /\ UNCHANGED <<connection, channel, peer, sent, inbound, space, stopping, events>>

\* The connection is moved from; the new owner is not followed.
MoveAway ==
    /\ pc = "idle" /\ open /\ open' = FALSE
    /\ UNCHANGED <<prefetched, delivered, channel, socket, stopping, caller, waiting, pc, result>>

-----------------------------------------------------------------------------
(* The readiness wait.                                                     *)

Settle(s) == status' = s /\ pc' = "leave"

\* The checks before anything is registered.
WaitEnter ==
    /\ pc = "enter"
    /\ \/ interruption_status(call) # "none" /\ Settle(interruption_status(call))
       \/ /\ interruption_status(call) = "none" /\ UNCHANGED status
          /\ pc' = IF call.token = NoToken THEN "poll" ELSE "ensure"
    /\ UNCHANGED <<connection, channel, socket, stopping, caller, events, result>>

\* Creating the two datagram sockets may fail at any of its calls.
ensure_initialized ==
    /\ pc = "ensure"
    /\ \/ created' = TRUE /\ pc' = "register" /\ UNCHANGED status
       \/ ~created /\ Settle("failed") /\ UNCHANGED created
    /\ UNCHANGED <<connection, wakes, socket, stopping, caller, events, result>>

\* A wake byte that does not fit is dropped: one is already waiting.
notify == wakes' = Lesser(wakes + 1, WakeSpace)

\* Mutant: the channel is drained once the callback is
\* in place, to get rid of an older call's wake byte.
RegisterThenDrain ==
    /\ pc = "register" /\ pc' = "poll"
    /\ registered' = IF call.token \in stopped THEN registered ELSE call.token
    /\ wakes' = 0
    /\ UNCHANGED <<connection, created, socket, stopped, firing, caller, waiting, result>>

\* The stop callback runs in its constructor when the stop came first.
RegisterCallback ==
    /\ pc = "register" /\ pc' = "poll"
    /\ \/ call.token \in stopped /\ notify /\ UNCHANGED registered
       \/ call.token \notin stopped /\ registered' = call.token /\ UNCHANGED wakes
    /\ UNCHANGED <<connection, created, socket, stopped, firing, caller, waiting, result>>

Interest(op) == IF op = "receive" THEN "readable" ELSE "writable"

\* The flags the kernel raises for the operation's socket.
OperationFlags(op) ==
    LET readable == inbound # <<>> \/ peer # "open"
        writable == space > 0 \/ shut \/ peer = "reset"
    IN  {f \in {"readable", "writable", "error", "hangup"} :
            CASE f = "readable" -> op = "receive" /\ readable
              [] f = "writable" -> op = "send" /\ writable
              [] f = "error"    -> peer = "reset"
              [] OTHER          -> peer = "reset" \/ (peer = "closed" /\ shut)}

\* The kernel may report readiness that is gone, or was never there, when the
\* transfer is tried.  An interrupted poll is polled again.
PollEvents(spurious) ==
    /\ pc = "poll"
    /\ LET flags == OperationFlags(call.op) \cup (IF spurious THEN {Interest(call.op)} ELSE {})
           woken == call.token # NoToken /\ wakes > 0
       IN  /\ flags # {} \/ woken
           /\ events' = [operation |-> flags, wake |-> woken]
    /\ pc' = "inspect"
    /\ UNCHANGED <<connection, channel, socket, stopping, caller, status, result>>

\* A timeout of the poll counts only once the deadline has passed: the native
\* timeout is an int of milliseconds and may end before it.
PollTimeout ==
    /\ pc = "poll" /\ call.deadline # "none"
    /\ \/ call.deadline = "ahead" /\ UNCHANGED <<pc, status>>
       \/ /\ call.deadline = "passed"
          /\ Settle(IF call.token \in stopped THEN "cancelled" ELSE "timed_out")
    /\ UNCHANGED <<connection, channel, socket, stopping, caller, events, result>>

PollFails ==
    /\ pc = "poll" /\ Settle("failed")
    /\ UNCHANGED <<connection, channel, socket, stopping, caller, events, result>>

DrainWake ==
    /\ pc = "inspect" /\ pc' = "check"
    /\ wakes' = IF events.wake THEN 0 ELSE wakes
    /\ UNCHANGED <<connection, created, socket, stopping, caller, waiting, result>>

\* Mutant: a wake byte is taken for a stop.
WakeMeansStop(e) ==
    IF e.wake \/ call.token \in stopped THEN "cancelled" ELSE "inspect_operation"

\* What the wake entry asks for once it was drained.
inspect_wake_entry(e) ==
    CASE call.token \in stopped -> "cancelled"
      [] e.wake                 -> "retry"
      [] OTHER                  -> "inspect_operation"

\* An error hides a hangup, which hides the requested event.
ready_status(flags) ==
    CASE "error" \in flags              -> "socket_error"
      [] "hangup" \in flags             -> "socket_hangup"
      [] Interest(call.op) \in flags    -> "socket_ready"
      [] OTHER                          -> "invalid"

Inspect ==
    /\ pc = "check"
    /\ \E next \in {inspect_wake_entry(events)} :
          \/ next = "cancelled" /\ Settle("cancelled")
          \/ next = "retry" /\ pc' = "poll" /\ UNCHANGED status
          \/ next = "inspect_operation" /\ Settle(ready_status(events.operation))
    /\ events' = NoEvents
    /\ UNCHANGED <<connection, channel, socket, stopping, caller, result>>

\* The end of the wait destroys the stop callback, which waits for a callback
\* that is running; then perform_io looks at the status.
LeaveWait ==
    /\ pc = "leave" /\ ~firing
    /\ registered' = NoToken
    /\ \/ status \in {"cancelled", "timed_out", "failed", "invalid"} /\ Return(status)
       \/ /\ status \in {"socket_ready", "socket_error", "socket_hangup"}
          /\ pc' = "transfer" /\ UNCHANGED <<result, status>>
    /\ UNCHANGED <<connection, channel, socket, stopped, firing, caller, events>>

-----------------------------------------------------------------------------
(* The transfer.                                                           *)

\* Would-block and an interrupted transfer wait again, the former unless the
\* readiness was terminal.
WouldBlock ==
    IF status \in {"socket_error", "socket_hangup"} THEN Return("error") ELSE Proceed

InterruptedTransfer ==
    /\ pc = "transfer" /\ Proceed
    /\ UNCHANGED <<connection, channel, socket, stopping, caller, events>>

ReceiveTransfer ==
    /\ pc = "transfer" /\ call.op = "receive"
    /\ \/ /\ inbound # <<>>
          /\ LET n == Lesser(call.size, Len(inbound)) IN
                /\ delivered' = delivered \o SubSeq(inbound, 1, n)
                /\ inbound' = Drop(inbound, n)
          /\ Return("transferred")
       \/ /\ inbound = <<>> /\ UNCHANGED <<delivered, inbound>>
          /\ \/ peer = "closed" /\ Return("end")
             \/ peer = "reset" /\ Return("error")
             \/ peer = "open" /\ WouldBlock
    /\ UNCHANGED <<open, prefetched, channel, peer, shut, sent, space, stopping, caller, events>>

SendTransfer ==
    /\ pc = "transfer" /\ call.op = "send"
    /\ \/ /\ (shut \/ peer = "reset") /\ Return("error") /\ UNCHANGED space
       \/ /\ ~shut /\ peer # "reset" /\ space > 0
          /\ space' = space - Lesser(call.size, space) /\ Return("transferred")
       \/ /\ ~shut /\ peer # "reset" /\ space = 0
          /\ WouldBlock /\ UNCHANGED space
    /\ UNCHANGED <<connection, channel, peer, shut, sent, inbound, stopping, caller, events>>

-----------------------------------------------------------------------------
(* The stopping threads, the clock and the peer.                           *)

RequestStop(s) ==
    /\ s \notin stopped /\ stopped' = stopped \cup {s}
    /\ UNCHANGED <<connection, channel, socket, registered, firing, caller, waiting, pc, result>>

\* The stopping thread takes the callback off the list and runs it.
BeginCallback ==
    /\ registered \in stopped /\ ~firing /\ firing' = TRUE
    /\ UNCHANGED <<connection, channel, socket, stopped, registered, caller, waiting, pc, result>>

RunCallback ==
    /\ firing /\ firing' = FALSE /\ registered' = NoToken
    /\ notify
    /\ UNCHANGED <<connection, created, socket, stopped, caller, waiting, pc, result>>

DeadlinePasses ==
    /\ pc # "idle" /\ call.deadline = "ahead"
    /\ call' = [call EXCEPT !.deadline = "passed"]
    /\ UNCHANGED <<connection, channel, socket, stopping, calls, waiting, pc, result>>

PeerSends ==
    /\ peer = "open" /\ sent < Wire
    /\ sent' = sent + 1 /\ inbound' = Append(inbound, sent + 1)
    /\ UNCHANGED <<peer, shut, space>>

PeerReads ==
    /\ peer # "reset" /\ space < SendSpace /\ space' = space + 1
    /\ UNCHANGED <<peer, shut, sent, inbound>>

PeerEnds(how) ==
    /\ peer = "open" /\ peer' = how
    /\ UNCHANGED <<shut, sent, inbound, space>>

Peer ==
    /\ PeerSends \/ PeerReads \/ PeerEnds("closed") \/ PeerEnds("reset")
    /\ UNCHANGED <<connection, channel, stopping, caller, waiting, pc, result>>

-----------------------------------------------------------------------------

Wait == \/ WaitEnter \/ ensure_initialized \/ RegisterCallback
        \/ PollEvents(FALSE) \/ PollEvents(TRUE) \/ PollTimeout \/ PollFails
        \/ DrainWake \/ Inspect \/ LeaveWait
Transfer == InterruptedTransfer \/ ReceiveTransfer \/ SendTransfer
Stopper == (\E s \in Sources : RequestStop(s)) \/ BeginCallback \/ RunCallback

Next ==
    \/ \E t \in Tokens, d \in Deadlines, n \in Sizes :
          receive_with_options(t, d, n) \/ send_with_options(t, d, n)
    \/ shutdown_send \/ MoveAway
    \/ Wait \/ Transfer \/ Stopper \/ DeadlinePasses \/ Peer

\* The calling thread keeps running, except that a poll returns only when there
\* is something to report; a thread that requests a stop runs the callback.
Fairness ==
    /\ WF_vars(WaitEnter) /\ WF_vars(ensure_initialized) /\ WF_vars(RegisterCallback)
    /\ WF_vars(PollEvents(FALSE)) /\ WF_vars(PollTimeout)
    /\ WF_vars(DrainWake) /\ WF_vars(Inspect) /\ WF_vars(LeaveWait)
    /\ WF_vars(ReceiveTransfer \/ SendTransfer)
    /\ WF_vars(BeginCallback) /\ WF_vars(RunCallback)

Spec == Init /\ [][Next]_vars /\ Fairness

-----------------------------------------------------------------------------
(* Properties.                                                             *)

\* What a call reports is what happened to it: a cancellation only when its own
\* token was stopped, although another call's wake byte may be waiting in the
\* channel; a timeout only when its own deadline has passed, although a poll may
\* time out before it; a transfer error only from a peer that reset or a
\* direction that was shut down, never because readiness vanished or a wake
\* entry was misread.
OutcomeTruthful ==
    pc = "idle" =>
        /\ result = "cancelled" => call.token \in stopped
        /\ result = "timed_out" => call.deadline = "passed"
        /\ result = "error" => peer = "reset" \/ shut
        /\ result # "invalid"

\* Every byte the peer sent is delivered once and in order: the bytes admission
\* read ahead come first, in pieces of any size, and no cancelled, timed out or
\* retried call loses or repeats any.
StreamExact ==
    delivered \o prefetched \o inbound = [i \in 1..sent |-> i]

\* A call whose token is stopped or whose deadline passes returns, wherever it
\* was: before the callback was registered, between two polls, after a drain,
\* or in a loop of readiness that never holds data.
WaitsEnd ==
    (pc # "idle" /\ interruption_status(call) # "none") ~> pc = "idle"
=============================================================================
