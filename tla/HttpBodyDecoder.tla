---------------------------- MODULE HttpBodyDecoder ----------------------------
(***************************************************************************)
(* The incremental decoder of request bodies                                *)
(* (src/http/request/http_body_decoder.cpp).  A decoder is a record; feed   *)
(* gives it a piece of the body and returns it with what it has produced.   *)
(* A byte is one of Bytes: hexadecimal digits, the two bytes of a line end, *)
(* an "x" that is neither, and a ";" that stands for a whole well-formed    *)
(* extension.  A trailer line is well formed if it is made of "x" only.     *)
(***************************************************************************)
EXTENDS Naturals, Sequences, SequencesExt

CONSTANTS
  MaxBodyBytes,       \* HttpRequestParserLimits::max_body_bytes
  MaxChunkLine,       \* max_chunk_line_bytes
  MaxMetadata,        \* max_chunk_metadata_bytes
  MaxTrailerBytes,    \* max_trailer_bytes
  MaxTrailerCount     \* max_trailer_count

ASSUME DecoderAssumptions ==
  {MaxBodyBytes, MaxChunkLine, MaxMetadata, MaxTrailerBytes, MaxTrailerCount} \subseteq Nat

Digit == [b \in {"0", "1", "2"} |-> CASE b = "0" -> 0 [] b = "1" -> 1 [] b = "2" -> 2]

Bytes == DOMAIN Digit \cup {"r", "n", "x", ";"}

NoError == "none"

\* The constructor.  A declared length above the limit has failed before any byte.
Decoder(chunked, content_length) ==
  [chunked |-> chunked,
   phase |-> CASE chunked -> "size_line"
               [] ~chunked /\ content_length = 0 -> "done"
               [] OTHER -> "data",
   remaining |-> IF chunked THEN 0 ELSE content_length,
   decoded |-> 0, line |-> <<>>, line_cr |-> FALSE,
   metadata_bytes |-> 0, trailer_bytes |-> 0, trailer_count |-> 0,
   failure |-> IF ~chunked /\ content_length > MaxBodyBytes THEN "body_too_large" ELSE NoError]

complete(d) == d.phase = "done" /\ d.failure = NoError

Fail(d, code) == [d EXCEPT !.failure = code]

\* from_chars() in base 16 reads the digits at the front of the line.
Digits(line) == SelectInSeq(line \o <<"x">>, LAMBDA b : b \notin DOMAIN Digit) - 1

ChunkSize(line) ==
  LET value[n \in 0 .. Digits(line)] ==
        IF n = 0 THEN 0 ELSE 16 * value[n - 1] + Digit[line[n]]
  IN  value[Digits(line)]

valid_extensions(text) == \A i \in DOMAIN text : text[i] = ";"

valid_trailer(line) == \A i \in DOMAIN line : line[i] = "x"

\* finish_line() of a trailer, whose first empty line ends the body.
FinishTrailer(d) ==
  CASE d.line = <<>> -> [d EXCEPT !.phase = "done"]
    [] d.line # <<>> /\ d.trailer_count >= MaxTrailerCount -> Fail(d, "trailers_too_large")
    [] OTHER ->
         LET counted == [d EXCEPT !.trailer_count = @ + 1] IN
         IF valid_trailer(d.line) THEN counted ELSE Fail(counted, "invalid_trailer")

\* finish_line() of a chunk size.
FinishSize(d) ==
  LET size == ChunkSize(d.line)
      extensions == SubSeq(d.line, Digits(d.line) + 1, Len(d.line)) IN
  CASE Digits(d.line) = 0 \/ ~valid_extensions(extensions) -> Fail(d, "malformed_chunk")
    [] Digits(d.line) > 0 /\ valid_extensions(extensions)
         /\ size > MaxBodyBytes - d.decoded -> Fail(d, "body_too_large")
    [] OTHER ->
         [d EXCEPT !.remaining = size, !.phase = IF size = 0 THEN "trailers" ELSE "data"]

\* Mutant: the line is not cleared.
FinishLineKeeping(d) ==
  LET finished == IF d.phase = "trailers" THEN FinishTrailer(d) ELSE FinishSize(d) IN
  [finished EXCEPT !.line_cr = FALSE]

finish_line(d) ==
  LET finished == IF d.phase = "trailers" THEN FinishTrailer(d) ELSE FinishSize(d) IN
  [finished EXCEPT !.line = <<>>, !.line_cr = FALSE]

\* A byte of a size line or of a trailer line.
LineByte(d, byte) ==
  LET limit == IF d.phase = "trailers" THEN MaxTrailerBytes ELSE MaxChunkLine IN
  CASE d.line_cr -> IF byte = "n" THEN finish_line(d) ELSE Fail(d, "malformed_chunk")
    [] ~d.line_cr /\ byte = "r" -> [d EXCEPT !.line_cr = TRUE]
    [] ~d.line_cr /\ byte = "n" -> Fail(d, "malformed_chunk")
    [] OTHER -> IF Len(d.line) >= limit THEN Fail(d, "chunk_metadata_too_large")
                ELSE [d EXCEPT !.line = Append(@, byte)]

\* The line end after the data of a chunk.
DataEnd(d, byte) ==
  CASE d.phase = "data_cr" /\ byte = "r" -> [d EXCEPT !.phase = "data_lf"]
    [] d.phase = "data_lf" /\ byte = "n" -> [d EXCEPT !.phase = "size_line"]
    [] OTHER -> Fail(d, "malformed_chunk")

\* Every byte that is not payload is counted before it is looked at.
metadata(d, byte) ==
  LET counted == [d EXCEPT !.metadata_bytes = @ + 1]
      trailing == [counted EXCEPT !.trailer_bytes = @ + 1] IN
  CASE d.metadata_bytes >= MaxMetadata -> Fail(d, "chunk_metadata_too_large")
    [] d.metadata_bytes < MaxMetadata /\ d.phase \in {"data_cr", "data_lf"} ->
         DataEnd(counted, byte)
    [] d.metadata_bytes < MaxMetadata /\ d.phase = "trailers" ->
         IF d.trailer_bytes >= MaxTrailerBytes THEN Fail(counted, "trailers_too_large")
         ELSE LineByte(trailing, byte)
    [] OTHER -> LineByte(counted, byte)

\* copy_data(), for one byte.
CopyByte(d) ==
  [d EXCEPT !.remaining = @ - 1, !.decoded = @ + 1,
            !.phase = IF d.remaining > 1 THEN "data" ELSE IF d.chunked THEN "data_cr" ELSE "done"]

\* One turn of the loop of feed(): progress holds the decoder, how many bytes it has
\* consumed and what it has produced; room is the size of the output buffer.  Nothing
\* happens any more once the body is complete, has failed or the buffer is full.
FeedByte(progress, byte, room) ==
  LET d == progress.decoder IN
  IF \/ d.phase = "done" \/ d.failure # NoError
     \/ d.phase = "data" /\ Len(progress.produced) = room
  THEN progress
  ELSE IF d.phase = "data"
  THEN [decoder |-> CopyByte(d), consumed |-> progress.consumed + 1,
        produced |-> Append(progress.produced, byte)]
  ELSE [progress EXCEPT !.decoder = metadata(d, byte), !.consumed = @ + 1]

\* The loop: after[n] is the progress after the first n bytes of the input.
feed(d, input, room) ==
  LET after[n \in 0 .. Len(input)] ==
        IF n = 0 THEN [decoder |-> d, consumed |-> 0, produced |-> <<>>]
        ELSE FeedByte(after[n - 1], input[n], room)
  IN  after[Len(input)]
=============================================================================
