---------------------------- MODULE HttpConnection ----------------------------
(***************************************************************************)
(* One HTTP connection in the hands of a worker:                            *)
(* src/http/transport/http_connection_handler.cpp with the request it       *)
(* gathers (buffered_request.cpp, request_body_ingestor.cpp), the deadlines *)
(* it obeys (request_deadlines.cpp) and the response it sends               *)
(* (http_response_writer.cpp).  The peer's bytes arrive in pieces of any    *)
(* size at any time, the peer may close or fail, the dispatcher may stop    *)
(* the worker, and the clock runs between any two steps.                    *)
(***************************************************************************)
EXTENDS HttpFraming, FiniteSetsExt

CONSTANTS
  Requests,          \* what a peer may send: heads, as parsed, with the bytes after them
  HeadBytes,         \* the length of every head
  ChunkBytes,        \* receive_chunk_bytes
  OutputBytes,       \* body_decode_buffer_bytes
  HeadersTimeout, BodyTimeout, TotalTimeout,   \* HttpRequestTimeouts, in ticks
  ResponseTimeout, DrainTimeout,               \* in ticks
  MaxDrain,          \* max_drain_bytes
  MaxTime            \* NetworkDeadline::max(), in ticks

\* What handle_http_connection() insists on; the connection is accepted at time 0.
ASSUME HttpConnectionAssumptions ==
  /\ \A n \in {HeadBytes, ChunkBytes, OutputBytes, ResponseTimeout, DrainTimeout, MaxDrain,
               HeadersTimeout, BodyTimeout, TotalTimeout} : n \in Nat \ {0}
  /\ MaxTime \in Nat /\ {HeadersTimeout, BodyTimeout, TotalTimeout} \subseteq 0 .. MaxTime
  /\ \A r \in Requests : /\ r.chunked \in BOOLEAN /\ r.memory \in BOOLEAN
                         /\ r.content_length \in Nat /\ r.head_error \in Nat
                         /\ r.body \in Seq(Bytes)

VARIABLES
  request,               \* what this peer sends
  clock, stopping,       \* steady_clock, the stop token of the worker
  pc,                    \* where the handler is
  deadline,              \* of the operation the handler is in
  last_progress,         \* RequestDeadlines::last_progress_
  received,              \* bytes received so far
  head,                  \* BufferedRequest::head_ has a value
  expectation_checked,   \* BufferedRequest::expectation_checked_
  decoder,               \* the ingestor's decoder
  piece,                 \* received body bytes the ingestor has not decoded yet
  writer, finalized,     \* RequestBodyIngestor::writer_ is set, finalized_
  stored,                \* the payload persisted so far
  response,              \* what is being sent: its status and body units still to send
  sent,                  \* history: what the peer was sent
  drained                \* bytes discarded after the response

ingestVars == <<decoder, piece, writer, finalized, stored>>
requestVars == <<received, head, expectation_checked, ingestVars>>
answerVars == <<response, sent, drained>>
vars == <<request, clock, stopping, pc, deadline, last_progress, requestVars, answerVars>>

-----------------------------------------------------------------------------
\* Deadlines

Budget(timeout) == Min({clock + timeout, MaxTime})

total == TotalTimeout

\* Mutant: each receive renews the time that is left.
NextInactivityOnly(reading_body) ==
  Min({last_progress + (IF reading_body THEN BodyTimeout ELSE HeadersTimeout), MaxTime})

\* RequestDeadlines::next(): the total deadline alone when the sum is not representable.
next(reading_body) ==
  LET inactivity == last_progress + (IF reading_body THEN BodyTimeout ELSE HeadersTimeout) IN
  IF inactivity > MaxTime THEN total ELSE Min({inactivity, total})

\* interruption_status(): cancellation and an expired deadline are told before anything else.
Interrupted(until) == stopping \/ clock >= until

-----------------------------------------------------------------------------
\* The request

\* parse_http_request_head() on the bytes so far.  An error shows at the same byte
\* however the head was split.
HeadFails(n) == request.head_error > 0 /\ n >= request.head_error

HeadComplete(n) == ~HeadFails(n) /\ n >= HeadBytes

Wire == request.body

\* BufferedRequest::complete()
RequestComplete == head /\ complete(decoder) /\ finalized

Available == HeadBytes + Len(Wire) - received

\* The handler leaves.  The connection, the buffered request and its file go with it.
Leave == pc' = "done" /\ UNCHANGED <<deadline, response>>

\* send_error_response() and the response of the application: a fresh budget.
Respond(status, units) ==
  /\ pc' = "send"
  /\ response' = [status |-> status, units |-> units, head |-> TRUE]
  /\ deadline' = Budget(ResponseTimeout)

\* parse_error_status(), for the failures of a body.
Status(code) ==
  IF code \in {"body_too_large", "chunk_metadata_too_large", "trailers_too_large"}
  THEN 413 ELSE 400

\* The same, for the failures of a head.
HeadStatuses == {400, 413, 414, 431, 501, 505}

\* RequestBodyIngestor::fail(): what was stored is released.
Release == writer' = FALSE /\ stored' = <<>>

-----------------------------------------------------------------------------
\* The handler

\* handle_http_connection(): bytes may have been received by the admission stage.
Begin ==
  /\ pc = "begin"
  /\ \/ pc' = "loop" /\ last_progress' \in 0 .. clock
     \/ pc' = "done" /\ UNCHANGED last_progress   \* http_transport_allows_peer() refuses
  /\ UNCHANGED <<request, clock, stopping, deadline, requestVars, answerVars>>

\* Mutant: the decision is not remembered.
TakenAgain == IF head THEN request.expect ELSE "none"

\* BufferedRequest::take_expectation(), before it looks whether the body is complete.
Taken == IF head /\ ~expectation_checked THEN request.expect ELSE "none"

\* The expectation, with what respond_to_expectation() does about it.
Expectation ==
  /\ pc = "loop"
  /\ expectation_checked' = head
  /\ \/ Taken = "unsupported" /\ Respond(417, 0)
     \/ /\ Taken = "continue" /\ ~RequestComplete
        /\ pc' = "continue" /\ deadline' = next(TRUE) /\ UNCHANGED response
     \/ /\ Taken # "unsupported" /\ (Taken = "continue" => RequestComplete)
        /\ pc' = IF RequestComplete THEN "dispatch" ELSE "receive"
        /\ UNCHANGED <<deadline, response>>
  /\ UNCHANGED <<request, clock, stopping, last_progress, received, head, ingestVars, sent,
                 drained>>

\* The interim response.
SendContinue ==
  /\ pc = "continue" /\ ~Interrupted(deadline)
  /\ sent' = Append(sent, "continue")
  /\ pc' = "receive"
  /\ UNCHANGED <<request, clock, stopping, deadline, last_progress, requestVars, response,
                 drained>>

\* The deadline of a read (bounded_read_options()).  A configured provider could shorten
\* it; the server has none.
Receive ==
  /\ pc = "receive"
  /\ deadline' = next(head)
  /\ pc' = IF Interrupted(deadline') THEN "done" ELSE "wait"
  /\ UNCHANGED <<request, clock, stopping, last_progress, requestVars, answerVars>>

\* Bytes: progress is recorded, the head is parsed again from its beginning, and what
\* follows it goes to the ingestor under the deadline of the body.
ReceiveBytes ==
  /\ pc = "wait"
  /\ \E n \in 1 .. Min({ChunkBytes, Available}) :
       LET so_far == received + n
           body == SubSeq(Wire, Max({received - HeadBytes, 0}) + 1, so_far - HeadBytes) IN
       /\ received' = so_far
       /\ last_progress' = Max({last_progress, clock})
       /\ \/ /\ ~head /\ HeadFails(so_far)
             /\ \E status \in HeadStatuses : Respond(status, 0)
             /\ UNCHANGED <<head, ingestVars>>
          \/ /\ ~head /\ ~HeadFails(so_far) /\ ~HeadComplete(so_far)
             /\ pc' = "loop" /\ UNCHANGED <<head, deadline, response, ingestVars>>
          \/ /\ ~head /\ HeadComplete(so_far)
             /\ head' = TRUE
             /\ decoder' = Decoder(request.chunked, request.content_length)
             /\ finalized' = complete(decoder')
             /\ piece' = body
             /\ pc' = "feed" /\ UNCHANGED <<deadline, response, writer, stored>>
          \/ /\ head
             /\ piece' = body
             /\ pc' = "feed"
             /\ UNCHANGED <<head, deadline, response, decoder, writer, finalized, stored>>
  /\ UNCHANGED <<request, clock, stopping, expectation_checked, sent, drained>>

\* The peer has closed its side: silence if it sent nothing, else an incomplete request.
ReceiveEnd ==
  /\ pc = "wait"
  /\ \/ received = 0 /\ Leave
     \/ received > 0 /\ head /\ Interrupted(deadline) /\ Leave
     \/ received > 0 /\ (head => ~Interrupted(deadline)) /\ Respond(400, 0)
  /\ Release
  /\ UNCHANGED <<request, clock, stopping, last_progress, received, head,
                 expectation_checked, decoder, piece, finalized, sent, drained>>

\* RequestBodyIngestor::feed() begins: the policy is asked before the first byte.
FeedBegin ==
  /\ pc = "feed"
  /\ deadline' = next(TRUE)
  /\ pc' = IF Interrupted(deadline') THEN "done" ELSE "ingest"
  /\ UNCHANGED <<request, clock, stopping, last_progress, requestVars, answerVars>>

\* This turn of the ingestor's loop uses the memory or the file of the body.
Stores(progress) ==
  /\ progress.decoder.failure = NoError
  /\ \/ progress.produced # <<>>
     \/ complete(progress.decoder) /\ writer /\ ~finalized

\* One turn of its loop: decode into the buffer, persist, and finalize at the end.
Ingest ==
  /\ pc = "ingest"
  /\ LET progress == feed(decoder, piece, OutputBytes)
         d == progress.decoder IN
     /\ decoder' = d
     /\ \/ /\ d.failure # NoError /\ Respond(Status(d.failure), 0)
           /\ Release /\ UNCHANGED <<piece, finalized>>
        \/ /\ Stores(progress) /\ Interrupted(deadline) /\ Leave
           /\ Release /\ UNCHANGED <<piece, finalized>>
        \/ /\ d.failure = NoError /\ (Stores(progress) => ~Interrupted(deadline))
           /\ piece' = SubSeq(piece, progress.consumed + 1, Len(piece))
           /\ stored' = stored \o progress.produced
           /\ writer' = (~complete(d) /\ (writer \/ (progress.produced # <<>> /\ ~request.memory)))
           /\ finalized' = (finalized \/ complete(d))
           /\ pc' = IF complete(d) \/ piece' = <<>> THEN "loop" ELSE "ingest"
           /\ UNCHANGED <<deadline, response>>
  /\ UNCHANGED <<request, clock, stopping, last_progress, received, head,
                 expectation_checked, sent, drained>>

\* Memory, the file or the worker that writes it fails.
StorageFails ==
  /\ pc = "ingest"
  /\ LET progress == feed(decoder, piece, OutputBytes) IN
     Stores(progress) /\ decoder' = progress.decoder
  /\ Release
  /\ Respond(500, 0)
  /\ UNCHANGED <<request, clock, stopping, last_progress, received, head,
                 expectation_checked, piece, finalized, sent, drained>>

\* resolve_http_transport() may refuse the forwarding headers; else the application
\* answers: a response with or without a body to send, none, or an exception.
Dispatch ==
  /\ pc = "dispatch"
  /\ \/ \E status \in {400, 403} : Respond(status, 0)
     \/ \E units \in 0 .. 1 : Respond(200, units)
     \/ Respond(500, 0)
     \/ Leave
  /\ UNCHANGED <<request, clock, stopping, last_progress, requestVars, sent, drained>>

-----------------------------------------------------------------------------
\* The response

\* send_all() of the head, then of the body units the reader provides.
Send ==
  /\ pc = "send" /\ ~Interrupted(deadline)
  /\ sent' = Append(sent, IF response.head THEN "head" ELSE "body")
  /\ response' = IF response.head THEN [response EXCEPT !.head = FALSE]
                 ELSE [response EXCEPT !.units = @ - 1]
  /\ pc' = IF response'.units > 0 THEN "send" ELSE "shutdown"
  /\ UNCHANGED <<request, clock, stopping, deadline, last_progress, requestVars, drained>>

\* drain_after_response(): half-close, then discard what the peer still sends.
Shutdown ==
  /\ pc = "shutdown"
  /\ \/ pc' = "done" /\ UNCHANGED deadline
     \/ ~stopping /\ pc' = "drain" /\ deadline' = Budget(DrainTimeout)
  /\ UNCHANGED <<request, clock, stopping, last_progress, requestVars, answerVars>>

Drain ==
  /\ pc = "drain" /\ ~Interrupted(deadline)
  /\ \E n \in 1 .. MaxDrain - drained : drained' = drained + n
  /\ pc' = IF drained' = MaxDrain THEN "done" ELSE "drain"
  /\ UNCHANGED <<request, clock, stopping, deadline, last_progress, requestVars, response, sent>>

-----------------------------------------------------------------------------
\* Everything that waits for the socket ends with its deadline or the stop token

Waiting == {"continue", "wait", "send", "drain"}

LeaveWait(places) ==
  /\ pc \in places
  /\ Leave
  /\ UNCHANGED <<request, clock, stopping, last_progress, requestVars, sent, drained>>

\* Mutant: the peer may take its time to close after the response.
InterruptedUnlessDraining == Interrupted(deadline) /\ LeaveWait(Waiting \ {"drain"})

InterruptedWait == Interrupted(deadline) /\ LeaveWait(Waiting)

\* An error of the socket or, in a response, of the source of the body; and the end of
\* the input that is drained.
SocketFails == LeaveWait(Waiting)

\* Memory for the head, the body or a response is exhausted: handle_http_connection()
\* catches the exception and leaves without an answer.
Throws == LeaveWait({"loop", "feed", "ingest"})

Tick ==
  /\ pc # "done" /\ clock < MaxTime
  /\ clock' = clock + 1
  /\ UNCHANGED <<request, stopping, pc, deadline, last_progress, requestVars, answerVars>>

RequestStop ==
  /\ pc # "done" /\ ~stopping
  /\ stopping' = TRUE
  /\ UNCHANGED <<request, clock, pc, deadline, last_progress, requestVars, answerVars>>

Returned == pc = "done" /\ UNCHANGED vars

Init ==
  /\ request \in Requests
  /\ clock = 0 /\ stopping = FALSE /\ pc = "begin" /\ deadline = 0 /\ last_progress = 0
  /\ received = 0 /\ head = FALSE /\ expectation_checked = FALSE
  /\ decoder = Decoder(FALSE, 0) /\ piece = <<>>
  /\ writer = FALSE /\ finalized = FALSE /\ stored = <<>>
  /\ response = [status |-> 0, units |-> 0, head |-> FALSE] /\ sent = <<>> /\ drained = 0

\* What the worker does by itself, besides Ingest.
Handler ==
  \/ Begin \/ Expectation \/ Receive \/ FeedBegin \/ Dispatch \/ Shutdown
  \/ InterruptedWait

\* What the peer, the disk and the dispatcher do.
Environment ==
  \/ SendContinue \/ ReceiveBytes \/ ReceiveEnd \/ Send \/ Drain
  \/ StorageFails \/ SocketFails \/ Throws \/ RequestStop

Next == Handler \/ Ingest \/ Environment \/ Tick \/ Returned

\* Weak fairness of the worker and of the clock.  Ingest can always be taken at its place,
\* so its guard stands for ENABLED.
Fairness ==
  /\ WF_vars(Handler) /\ WF_vars(Tick)
  /\ []<>(pc # "ingest") \/ []<><<Ingest>>_vars

Spec == Init /\ [][Next]_vars /\ Fairness

-----------------------------------------------------------------------------
\* Properties

TypeOK ==
  /\ request \in Requests
  /\ {clock, deadline, last_progress} \subseteq 0 .. MaxTime
  /\ {stopping, head, expectation_checked, writer, finalized} \subseteq BOOLEAN
  /\ pc \in Waiting \cup {"begin", "loop", "receive", "feed", "ingest", "dispatch",
                         "shutdown", "done"}
  /\ received \in 0 .. HeadBytes + Len(Wire) /\ drained \in 0 .. MaxDrain
  /\ piece \in Seq(Bytes) /\ stored \in Seq(Bytes) /\ Len(stored) <= MaxBodyBytes
  /\ decoder.metadata_bytes <= MaxMetadata /\ decoder.trailer_bytes <= MaxTrailerBytes
  /\ Len(decoder.line) <= Max({MaxChunkLine, MaxTrailerBytes})
  /\ decoder.remaining + decoder.decoded <= MaxBodyBytes \/ decoder.failure # NoError
  /\ response.status \in HeadStatuses \cup {0, 200, 403, 417, 500}
  /\ sent \in Seq({"continue", "head", "body"})

\* The reference framing of this request's bytes.
Framing ==
  IF request.chunked THEN ChunkedFraming(Wire) ELSE LengthFraming(Wire, request.content_length)

\* However the peer's bytes were split over receives and output buffers, the application
\* is given a request exactly if the whole body is well framed and within the limits,
\* with its payload, and the handler never waits for bytes past the end of a body.
FramingExact ==
  /\ TypeOK
  /\ head =>
    /\ RequestComplete /\ pc \in {"dispatch", "send"} =>
         Framing.framed /\ stored = Framing.payload
    /\ decoder.failure # NoError => ~Framing.framed
    /\ pc = "wait" /\ Framing.framed => received < HeadBytes + Framing.end

\* The peer is sent at most one interim and one final response, in this order, and it
\* is not invited to send a body that its own head has already made too large.
AnswersInOrder ==
  /\ \A i \in DOMAIN sent :
       /\ sent[i] = "continue" => i = 1
       /\ sent[i] = "head" => \A j \in 1 .. i - 1 : sent[j] = "continue"
       /\ sent[i] = "body" => \E j \in 1 .. i - 1 : sent[j] = "head"
  /\ Contains(sent, "continue") => request.chunked \/ request.content_length <= MaxBodyBytes
  /\ pc = "continue" => ~RequestComplete

\* A request reaches the application only if its last byte came before the total
\* deadline, however often receives have renewed the inactivity deadline.
InTime == RequestComplete /\ pc \in {"dispatch", "send"} => last_progress < TotalTimeout

\* No peer, fast or slow, holds a worker for ever.
Returns == <>(pc = "done")
=============================================================================
