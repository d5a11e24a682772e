------------------------------ MODULE HttpFraming ------------------------------
(***************************************************************************)
(* What a request body is, said of the whole body at once: the reference     *)
(* that the incremental decoder is compared with.  A framing says whether    *)
(* the bytes begin with a complete body within the limits, and its payload.  *)
(***************************************************************************)
EXTENDS HttpBodyDecoder

NotFramed == [framed |-> FALSE, payload |-> <<>>, end |-> 0, trailers |-> 0, trailer_start |-> 0]

\* Where the line that begins at i has its CR: nowhere or at one place.
LineEnds(wire, i) ==
  {j \in i .. Len(wire) - 1 :
     /\ wire[j] = "r" /\ wire[j + 1] = "n"
     /\ \A k \in i .. j - 1 : wire[k] \notin {"r", "n"}}

\* Trailer lines from each place on, up to and with the empty one.
Trailers(wire) ==
  LET from[i \in 1 .. Len(wire) + 1] ==
        IF LineEnds(wire, i) = {} THEN NotFramed
        ELSE LET j == CHOOSE j \in LineEnds(wire, i) : TRUE IN
             IF j = i THEN [NotFramed EXCEPT !.framed = TRUE, !.end = j + 1]
             ELSE IF valid_trailer(SubSeq(wire, i, j - 1))
             THEN [from[j + 2] EXCEPT !.trailers = @ + 1]
             ELSE NotFramed
  IN from

\* Chunks from each place on, the last of them of size zero, and the trailers.
Chunks(wire) ==
  LET from[i \in 1 .. Len(wire) + 1] ==
        IF LineEnds(wire, i) = {} THEN NotFramed
        ELSE LET j == CHOOSE j \in LineEnds(wire, i) : TRUE
                 line == SubSeq(wire, i, j - 1)
                 size == ChunkSize(line)
                 next == j + 4 + size IN
             IF \/ Digits(line) = 0 \/ Len(line) > MaxChunkLine
                \/ ~valid_extensions(SubSeq(line, Digits(line) + 1, Len(line)))
             THEN NotFramed
             ELSE IF size = 0 THEN [Trailers(wire)[j + 2] EXCEPT !.trailer_start = j + 2]
             ELSE IF next > Len(wire) + 1 THEN NotFramed
             ELSE IF wire[next - 2] = "r" /\ wire[next - 1] = "n"
             THEN [from[next] EXCEPT !.payload = SubSeq(wire, j + 2, next - 3) \o @]
             ELSE NotFramed
  IN from

WithinLimits(f) ==
  /\ f.framed
  /\ Len(f.payload) <= MaxBodyBytes
  /\ f.end - Len(f.payload) <= MaxMetadata
  /\ f.end - f.trailer_start + 1 <= MaxTrailerBytes
  /\ f.trailers <= MaxTrailerCount

ChunkedFraming(wire) ==
  LET f == Chunks(wire)[1] IN IF WithinLimits(f) THEN f ELSE NotFramed

LengthFraming(wire, content_length) ==
  IF content_length > MaxBodyBytes \/ content_length > Len(wire) THEN NotFramed
  ELSE [NotFramed EXCEPT !.framed = TRUE, !.payload = SubSeq(wire, 1, content_length),
                         !.end = content_length]
=============================================================================
