------------------------- MODULE HttpConnectionProofs -------------------------
(***************************************************************************)
(* One connection is answered in order and in time, its body stays within   *)
(* every limit, and what the application is given is the body that the      *)
(* reference framing finds in the bytes: for every request, every split of  *)
(* its bytes and every choice of limits and timeouts.                       *)
(***************************************************************************)
EXTENDS HttpConnection, SequenceTheorems, WellFoundedInduction, TLAPS

-----------------------------------------------------------------------------
\* Numbers.

\* A set of natural numbers that is not empty has a least element: induction over the
\* bytes of an input looks at the first one after which something would be wrong.
LEMMA Least ==
  ASSUME NEW S \in SUBSET Nat, S # {}
  PROVE  \E m \in S : \A n \in S : m <= n
<1>. DEFINE R == OpToRel(<, Nat)
<1>1. IsWellFoundedOn(R, Nat)
  BY NatLessThanWellFounded
<1>2. \E m \in S : \A n \in S : ~(<<n, m>> \in R)
  <2>. HIDE DEF R
  <2>. QED  BY <1>1, WFMin
<1>3. \A m, n \in Nat : ~(<<n, m>> \in R) => m <= n
  BY DEF OpToRel
<1>. HIDE DEF R
<1>. QED  BY <1>2, <1>3

\* The smaller and the larger of two numbers.
LEMMA MinMax ==
  ASSUME NEW a \in Int, NEW b \in Int
  PROVE  /\ Min({a, b}) = IF a <= b THEN a ELSE b
         /\ Max({a, b}) = IF a <= b THEN b ELSE a
<1>1. Min({a, b}) = IF a <= b THEN a ELSE b
  BY DEF Min
<1>2. Max({a, b}) = IF a <= b THEN b ELSE a
  BY DEF Max
<1>. QED  BY <1>1, <1>2

-----------------------------------------------------------------------------
\* The size of a chunk.

\* The digits at the front of a line.
LEMMA DigitsType ==
  ASSUME NEW line \in Seq(Bytes)
  PROVE  /\ Digits(line) \in 0 .. Len(line)
         /\ \A n \in 1 .. Digits(line) : line[n] \in DOMAIN Digit
<1>1. PICK s : s = line \o <<"x">>
  OBVIOUS
<1>2. /\ s \in Seq(Bytes) /\ Len(s) = Len(line) + 1 /\ Len(line) \in Nat
      /\ \A n \in 1 .. Len(line) : s[n] = line[n]
      /\ s[Len(line) + 1] = "x"
  <2>1. <<"x">> \in Seq(Bytes) /\ Len(<<"x">>) = 1 /\ <<"x">>[1] = "x"
    <3>1. "x" \in Bytes
      BY DEF Bytes
    <3>. QED  BY <3>1
  <2>2. Len(line) \in Nat
    BY LenProperties
  <2>3. /\ s \in Seq(Bytes) /\ Len(s) = Len(line) + 1
        /\ \A n \in 1 .. Len(line) + 1 :
             s[n] = IF n <= Len(line) THEN line[n] ELSE <<"x">>[n - Len(line)]
    BY <1>1, <2>1, ConcatProperties
  <2>. QED  BY <2>1, <2>2, <2>3
<1>3. PICK I : I = {i \in 1 .. Len(s) : s[i] \notin DOMAIN Digit}
  OBVIOUS
<1>4. Len(line) + 1 \in I /\ I \in SUBSET Nat
  BY <1>2, <1>3 DEF Digit
<1>5. PICK m \in I : \A n \in I : m <= n
  BY <1>4, Least
<1>6. Min(I) = m
  <2>1. \A n \in I : (\A i \in I : n <= i) => n = m
    BY <1>4, <1>5
  <2>. QED  BY <1>5, <2>1 DEF Min
<1>7. SelectInSeq(s, LAMBDA b : b \notin DOMAIN Digit) = m
  BY <1>3, <1>4, <1>6 DEF SelectInSeq
<1>8. Digits(line) = m - 1
  BY <1>1, <1>7 DEF Digits
<1>9. m \in 1 .. Len(line) + 1
  BY <1>2, <1>3, <1>5
<1>10. \A n \in 1 .. m - 1 : line[n] \in DOMAIN Digit
  BY <1>2, <1>3, <1>4, <1>5, <1>9
<1>. QED  BY <1>2, <1>8, <1>9, <1>10
\* One step of from_chars(), from the value of the digits before.
ValueStep(f, line, n) == IF n = 0 THEN 0 ELSE 16 * f[n - 1] + Digit[line[n]]

\* Its recursive function on the first m digits.
IsValue(f, line, m) == f = [n \in 0 .. m |-> ValueStep(f, line, n)]

\* There is such a function.
LEMMA ValueExists ==
  ASSUME NEW line
  PROVE  \A m \in Nat : \E f : IsValue(f, line, m)
<1>. DEFINE Bad == {m \in Nat : ~\E f : IsValue(f, line, m)}
<1>1. SUFFICES ASSUME Bad # {} PROVE FALSE
  OBVIOUS
<1>2. PICK m \in Bad : \A n \in Bad : m <= n
  BY <1>1, Least
<1>3. m # 0
  <2>1. IsValue([n \in 0 .. 0 |-> 0], line, 0)
    BY DEF IsValue, ValueStep
  <2>. QED  BY <2>1
<1>4. PICK f : IsValue(f, line, m - 1)
  BY <1>2, <1>3
<1>. DEFINE g == [n \in 0 .. m |-> IF n = m THEN ValueStep(f, line, m) ELSE f[n]]
<1>5. \A n \in 0 .. m : g[n] = ValueStep(g, line, n)
  <2>1. \A n \in 0 .. m - 1 : f[n] = ValueStep(f, line, n)
    BY <1>2, <1>3, <1>4 DEF IsValue
  <2>2. \A n \in 0 .. m : n - 1 \in 0 .. m - 1 \/ n = 0
    BY <1>2
  <2>3. \A n \in 0 .. m - 1 : g[n] = f[n]
    BY <1>2
  <2>4. \A n \in 0 .. m : ValueStep(g, line, n) = ValueStep(f, line, n)
    <3>. HIDE DEF g
    <3>. QED  BY <2>2, <2>3 DEF ValueStep
  <2>. QED  BY <1>2, <2>1, <2>4
<1>6. IsValue(g, line, m)
  BY <1>5 DEF IsValue
<1>. QED  BY <1>2, <1>6

\* The size of a chunk is a number.
LEMMA ChunkSizeType ==
  ASSUME NEW line \in Seq(Bytes)
  PROVE  ChunkSize(line) \in Nat
<1>1. PICK k : k = Digits(line)
  OBVIOUS
<1>2. k \in Nat /\ \A n \in 1 .. k : line[n] \in DOMAIN Digit
  BY <1>1, DigitsType
<1>. DEFINE f == CHOOSE f : IsValue(f, line, k)
<1>3. IsValue(f, line, k)
  BY <1>2, ValueExists
<1>4. ChunkSize(line) = f[k]
  BY <1>1 DEF ChunkSize, IsValue, ValueStep
<1>. HIDE DEF f
<1>5. \A n \in 0 .. k : f[n] = ValueStep(f, line, n)
  BY <1>3 DEF IsValue
<1>. DEFINE Bad == {n \in 0 .. k : f[n] \notin Nat}
<1>6. Bad = {}
  <2>. SUFFICES ASSUME Bad # {} PROVE FALSE
    OBVIOUS
  <2>1. PICK m \in Bad : \A n \in Bad : m <= n
    <3>1. Bad \in SUBSET Nat
      BY <1>2
    <3>. QED  BY <3>1, Least
  <2>2. m # 0
    BY <1>5, <2>1 DEF ValueStep
  <2>3. m \in 1 .. k /\ m - 1 \in 0 .. k
    BY <1>2, <2>1, <2>2
  <2>4. f[m - 1] \in Nat
    BY <2>1, <2>3
  <2>5. Digit[line[m]] \in Nat
    BY <1>2, <2>3 DEF Digit
  <2>6. f[m] = 16 * f[m - 1] + Digit[line[m]]
    BY <1>5, <2>2, <2>3 DEF ValueStep
  <2>. QED  BY <2>1, <2>4, <2>5, <2>6
<1>. QED  BY <1>2, <1>4, <1>6
-----------------------------------------------------------------------------
\* The decoder.

Codes == {NoError, "body_too_large", "malformed_chunk", "invalid_trailer",
          "chunk_metadata_too_large", "trailers_too_large"}

Decoders ==
  [chunked : BOOLEAN, phase : {"size_line", "data", "data_cr", "data_lf", "trailers", "done"},
   remaining : Nat, decoded : Nat, line : Seq(Bytes), line_cr : BOOLEAN,
   metadata_bytes : Nat, trailer_bytes : Nat, trailer_count : Nat, failure : Codes]

MaxLine == IF MaxChunkLine <= MaxTrailerBytes THEN MaxTrailerBytes ELSE MaxChunkLine

\* A decoder keeps its limits: what it has produced and what is left of the chunk fit into
\* the body, and what it counts and keeps of the metadata does too.  In the data of a
\* chunk a byte is left.
Sound(d) ==
  /\ d \in Decoders
  /\ d.decoded <= MaxBodyBytes
  /\ d.failure = NoError => d.remaining + d.decoded <= MaxBodyBytes
  /\ d.phase = "data" => d.remaining > 0
  /\ d.metadata_bytes <= MaxMetadata /\ d.trailer_bytes <= MaxTrailerBytes
  /\ Len(d.line) <= MaxLine

\* The constructor.
LEMMA DecoderSound ==
  ASSUME NEW chunked \in BOOLEAN, NEW content_length \in Nat
  PROVE  /\ Sound(Decoder(chunked, content_length))
         /\ Decoder(chunked, content_length).decoded = 0
         /\ ~chunked /\ content_length > MaxBodyBytes =>
              Decoder(chunked, content_length).failure # NoError
<1>1. PICK d : d = Decoder(chunked, content_length)
  OBVIOUS
<1>2. /\ d \in Decoders /\ d.decoded = 0 /\ d.line = <<>> /\ Len(d.line) = 0
      /\ d.metadata_bytes = 0 /\ d.trailer_bytes = 0
      /\ d.remaining = (IF chunked THEN 0 ELSE content_length)
      /\ d.failure = (IF ~chunked /\ content_length > MaxBodyBytes THEN "body_too_large" ELSE NoError)
      /\ d.phase = "data" => ~chunked /\ content_length # 0
  BY <1>1 DEF Decoder, Decoders, Codes, NoError
<1>. QED  BY <1>1, <1>2, DecoderAssumptions DEF Sound, MaxLine, NoError

\* A failure is recorded.
LEMMA FailSound ==
  ASSUME NEW d, Sound(d), NEW code \in Codes \ {NoError}
  PROVE  Sound(Fail(d, code)) /\ Fail(d, code).decoded = d.decoded
BY DEF Sound, Fail, Decoders

\* A line of the trailers ends.
LEMMA FinishTrailerSound ==
  ASSUME NEW d, Sound(d), d.phase = "trailers"
  PROVE  Sound(FinishTrailer(d)) /\ FinishTrailer(d).decoded = d.decoded
<1>1. CASE d.line = <<>>
  BY <1>1 DEF FinishTrailer, Sound, Decoders
<1>2. CASE d.line # <<>> /\ d.trailer_count >= MaxTrailerCount
  BY <1>2, FailSound DEF FinishTrailer, Codes, NoError
<1>3. CASE d.line # <<>> /\ ~(d.trailer_count >= MaxTrailerCount)
  <2>1. PICK counted : counted = [d EXCEPT !.trailer_count = @ + 1]
    OBVIOUS
  <2>2. Sound(counted) /\ counted.decoded = d.decoded
    BY <2>1 DEF Sound, Decoders
  <2>3. FinishTrailer(d) = IF valid_trailer(d.line) THEN counted ELSE Fail(counted, "invalid_trailer")
    BY <1>3, <2>1 DEF FinishTrailer
  <2>4. Sound(Fail(counted, "invalid_trailer")) /\ Fail(counted, "invalid_trailer").decoded = d.decoded
    BY <2>2, FailSound DEF Codes, NoError
  <2>. QED  BY <2>2, <2>3, <2>4
<1>. QED  BY <1>1, <1>2, <1>3

\* A size line ends.
LEMMA FinishSizeSound ==
  ASSUME NEW d, Sound(d), d.failure = NoError
  PROVE  Sound(FinishSize(d)) /\ FinishSize(d).decoded = d.decoded
<1>1. PICK size \in Nat : size = ChunkSize(d.line)
  BY ChunkSizeType DEF Sound, Decoders
<1>2. PICK k, V : k = Digits(d.line) /\ V = valid_extensions(SubSeq(d.line, Digits(d.line) + 1, Len(d.line)))
  OBVIOUS
<1>3. k \in Nat /\ V \in BOOLEAN
  <2>1. d.line \in Seq(Bytes)
    BY DEF Sound, Decoders
  <2>2. Digits(d.line) \in 0 .. Len(d.line)
    BY <2>1, DigitsType
  <2>3. k \in Nat
    BY <1>2, <2>2
  <2>4. V \in BOOLEAN
    BY <1>2 DEF valid_extensions
  <2>. QED  BY <2>3, <2>4
<1>4. FinishSize(d) =
        CASE k = 0 \/ ~V -> Fail(d, "malformed_chunk")
          [] k > 0 /\ V /\ size > MaxBodyBytes - d.decoded -> Fail(d, "body_too_large")
          [] OTHER -> [d EXCEPT !.remaining = size, !.phase = IF size = 0 THEN "trailers" ELSE "data"]
  BY <1>1, <1>2 DEF FinishSize
<1>5. CASE k = 0 \/ ~V
  BY <1>3, <1>4, <1>5, FailSound DEF Codes, NoError
<1>6. CASE k > 0 /\ V /\ size > MaxBodyBytes - d.decoded
  BY <1>3, <1>4, <1>6, FailSound DEF Codes, NoError
<1>7. CASE k > 0 /\ V /\ ~(size > MaxBodyBytes - d.decoded)
  <2>1. FinishSize(d) = [d EXCEPT !.remaining = size, !.phase = IF size = 0 THEN "trailers" ELSE "data"]
    BY <1>3, <1>4, <1>7
  <2>2. PICK e : e = FinishSize(d)
    OBVIOUS
  <2>3. /\ d \in Decoders /\ d.decoded \in Nat /\ d.remaining \in Nat /\ MaxBodyBytes \in Nat
        /\ size \in Nat
    BY DecoderAssumptions DEF Sound, Decoders
  <2>4. /\ e \in Decoders /\ e.remaining = size /\ e.decoded = d.decoded /\ e.line = d.line
        /\ e.phase = "data" => size # 0
        /\ e.metadata_bytes = d.metadata_bytes /\ e.trailer_bytes = d.trailer_bytes
    BY <2>1, <2>2, <2>3 DEF Decoders
  <2>5. size + d.decoded <= MaxBodyBytes
    BY <1>7, <2>3
  <2>6. Sound(e)
    BY <2>3, <2>4, <2>5 DEF Sound
  <2>. QED  BY <2>2, <2>4, <2>6
<1>. QED  BY <1>3, <1>5, <1>6, <1>7

\* A line ends.
LEMMA FinishLineSound ==
  ASSUME NEW d, Sound(d), d.failure = NoError
  PROVE  Sound(finish_line(d)) /\ finish_line(d).decoded = d.decoded
<1>1. PICK e : e = IF d.phase = "trailers" THEN FinishTrailer(d) ELSE FinishSize(d)
  OBVIOUS
<1>2. Sound(e) /\ e.decoded = d.decoded
  BY <1>1, FinishTrailerSound, FinishSizeSound
<1>3. finish_line(d) = [e EXCEPT !.line = <<>>, !.line_cr = FALSE]
  BY <1>1 DEF finish_line
<1>4. Len(<<>>) = 0 /\ <<>> \in Seq(Bytes) /\ MaxLine \in Nat
  BY DecoderAssumptions DEF MaxLine
<1>5. PICK f : f = finish_line(d)
  OBVIOUS
<1>6. /\ f \in Decoders /\ f.line = <<>> /\ f.phase = e.phase /\ f.remaining = e.remaining
      /\ f.decoded = e.decoded /\ f.failure = e.failure
      /\ f.metadata_bytes = e.metadata_bytes /\ f.trailer_bytes = e.trailer_bytes
  BY <1>2, <1>3, <1>4, <1>5 DEF Sound, Decoders
<1>7. Sound(f)
  BY <1>2, <1>4, <1>6 DEF Sound
<1>. QED  BY <1>2, <1>5, <1>6, <1>7

\* A byte of a line.
LEMMA LineByteSound ==
  ASSUME NEW d, Sound(d), d.failure = NoError, NEW byte \in Bytes
  PROVE  Sound(LineByte(d, byte)) /\ LineByte(d, byte).decoded = d.decoded
<1>1. PICK limit : limit = IF d.phase = "trailers" THEN MaxTrailerBytes ELSE MaxChunkLine
  OBVIOUS
<1>2. /\ d \in Decoders /\ d.line_cr \in BOOLEAN /\ d.line \in Seq(Bytes) /\ Len(d.line) \in Nat
      /\ limit \in Nat /\ MaxLine \in Nat /\ limit <= MaxLine
  <2>1. d \in Decoders /\ d.line_cr \in BOOLEAN /\ d.line \in Seq(Bytes)
    BY DEF Sound, Decoders
  <2>2. limit \in Nat /\ MaxLine \in Nat /\ limit <= MaxLine
    BY <1>1, DecoderAssumptions DEF MaxLine
  <2>. QED  BY <2>1, <2>2, LenProperties
<1>3. LineByte(d, byte) =
        CASE d.line_cr -> IF byte = "n" THEN finish_line(d) ELSE Fail(d, "malformed_chunk")
          [] ~d.line_cr /\ byte = "r" -> [d EXCEPT !.line_cr = TRUE]
          [] ~d.line_cr /\ byte = "n" -> Fail(d, "malformed_chunk")
          [] OTHER -> IF Len(d.line) >= limit THEN Fail(d, "chunk_metadata_too_large")
                      ELSE [d EXCEPT !.line = Append(@, byte)]
  BY <1>1 DEF LineByte
<1>4. \A code \in Codes \ {NoError} : Sound(Fail(d, code)) /\ Fail(d, code).decoded = d.decoded
  BY FailSound
<1>5. {"malformed_chunk", "chunk_metadata_too_large"} \subseteq Codes \ {NoError}
  BY DEF Codes, NoError
<1>6. CASE d.line_cr
  <2>1. LineByte(d, byte) = IF byte = "n" THEN finish_line(d) ELSE Fail(d, "malformed_chunk")
    BY <1>2, <1>3, <1>6
  <2>. QED  BY <2>1, <1>4, <1>5, FinishLineSound
<1>7. CASE ~d.line_cr /\ byte = "r"
  <2>1. LineByte(d, byte) = [d EXCEPT !.line_cr = TRUE]
    BY <1>2, <1>3, <1>7
  <2>2. Sound([d EXCEPT !.line_cr = TRUE]) /\ [d EXCEPT !.line_cr = TRUE].decoded = d.decoded
    BY DEF Sound, Decoders
  <2>. QED  BY <2>1, <2>2
<1>8. CASE ~d.line_cr /\ byte = "n"
  <2>1. LineByte(d, byte) = Fail(d, "malformed_chunk")
    BY <1>2, <1>3, <1>8
  <2>. QED  BY <2>1, <1>4, <1>5
<1>9. CASE ~d.line_cr /\ byte \notin {"r", "n"}
  <2>1. LineByte(d, byte) = IF Len(d.line) >= limit THEN Fail(d, "chunk_metadata_too_large")
                            ELSE [d EXCEPT !.line = Append(@, byte)]
    BY <1>2, <1>3, <1>9
  <2>2. CASE Len(d.line) >= limit
    BY <2>1, <2>2, <1>4, <1>5
  <2>3. CASE ~(Len(d.line) >= limit)
    <3>1. PICK e : e = LineByte(d, byte)
      OBVIOUS
    <3>2. e = [d EXCEPT !.line = Append(d.line, byte)]
      BY <2>1, <2>3, <3>1
    <3>3. Append(d.line, byte) \in Seq(Bytes) /\ Len(Append(d.line, byte)) = Len(d.line) + 1
      BY <1>2, AppendProperties
    <3>4. /\ e \in Decoders /\ e.line = Append(d.line, byte) /\ e.phase = d.phase
          /\ e.remaining = d.remaining /\ e.decoded = d.decoded /\ e.failure = d.failure
          /\ e.metadata_bytes = d.metadata_bytes /\ e.trailer_bytes = d.trailer_bytes
      BY <1>2, <3>2, <3>3 DEF Decoders
    <3>5. Sound(e)
      BY <1>2, <2>3, <3>3, <3>4 DEF Sound
    <3>. QED  BY <3>1, <3>4, <3>5
  <2>. QED  BY <2>2, <2>3
<1>. QED  BY <1>2, <1>6, <1>7, <1>8, <1>9

\* A byte after the data of a chunk.
LEMMA DataEndSound ==
  ASSUME NEW d, Sound(d), NEW byte
  PROVE  Sound(DataEnd(d, byte)) /\ DataEnd(d, byte).decoded = d.decoded
<1>1. CASE d.phase = "data_cr" /\ byte = "r"
  BY <1>1 DEF DataEnd, Sound, Decoders
<1>2. CASE d.phase = "data_lf" /\ byte = "n"
  BY <1>2 DEF DataEnd, Sound, Decoders
<1>3. CASE ~(d.phase = "data_cr" /\ byte = "r") /\ ~(d.phase = "data_lf" /\ byte = "n")
  <2>1. DataEnd(d, byte) = Fail(d, "malformed_chunk")
    BY <1>3 DEF DataEnd
  <2>. QED  BY <2>1, FailSound DEF Codes, NoError
<1>. QED  BY <1>1, <1>2, <1>3

\* A byte that is not payload.
LEMMA MetadataSound ==
  ASSUME NEW d, Sound(d), d.failure = NoError, NEW byte \in Bytes
  PROVE  Sound(metadata(d, byte)) /\ metadata(d, byte).decoded = d.decoded
<1>1. PICK counted, trailing : /\ counted = [d EXCEPT !.metadata_bytes = @ + 1]
                               /\ trailing = [counted EXCEPT !.trailer_bytes = @ + 1]
  OBVIOUS
<1>2. d.metadata_bytes \in Nat /\ d.trailer_bytes \in Nat /\ MaxMetadata \in Nat /\ MaxTrailerBytes \in Nat
  BY DecoderAssumptions DEF Sound, Decoders
<1>3. metadata(d, byte) =
        CASE d.metadata_bytes >= MaxMetadata -> Fail(d, "chunk_metadata_too_large")
          [] d.metadata_bytes < MaxMetadata /\ d.phase \in {"data_cr", "data_lf"} ->
               DataEnd(counted, byte)
          [] d.metadata_bytes < MaxMetadata /\ d.phase = "trailers" ->
               IF d.trailer_bytes >= MaxTrailerBytes THEN Fail(counted, "trailers_too_large")
               ELSE LineByte(trailing, byte)
          [] OTHER -> LineByte(counted, byte)
  BY <1>1 DEF metadata
<1>4. {"trailers_too_large", "chunk_metadata_too_large"} \subseteq Codes \ {NoError}
  BY DEF Codes, NoError
<1>5. CASE d.metadata_bytes >= MaxMetadata
  <2>1. metadata(d, byte) = Fail(d, "chunk_metadata_too_large")
    BY <1>2, <1>3, <1>5
  <2>. QED  BY <2>1, <1>4, FailSound
<1>6. CASE d.metadata_bytes < MaxMetadata
  <2>1. /\ counted \in Decoders /\ counted.metadata_bytes = d.metadata_bytes + 1
        /\ counted.decoded = d.decoded /\ counted.remaining = d.remaining /\ counted.line = d.line
        /\ counted.phase = d.phase /\ counted.failure = d.failure
        /\ counted.trailer_bytes = d.trailer_bytes
    BY <1>1, <1>2, SMTT(30) DEF Sound, Decoders
  <2>2. Sound(counted)
    BY <1>2, <1>6, <2>1 DEF Sound
  <2>3. CASE d.phase \in {"data_cr", "data_lf"}
    <3>1. metadata(d, byte) = DataEnd(counted, byte)
      BY <1>2, <1>3, <1>6, <2>3
    <3>. QED  BY <3>1, <2>1, <2>2, DataEndSound
  <2>4. CASE d.phase = "trailers" /\ d.trailer_bytes >= MaxTrailerBytes
    <3>1. metadata(d, byte) = Fail(counted, "trailers_too_large")
      BY <1>2, <1>3, <1>6, <2>4
    <3>. QED  BY <3>1, <1>4, <2>1, <2>2, FailSound
  <2>5. CASE d.phase = "trailers" /\ ~(d.trailer_bytes >= MaxTrailerBytes)
    <3>1. metadata(d, byte) = LineByte(trailing, byte)
      BY <1>2, <1>3, <1>6, <2>5
    <3>0. counted.trailer_bytes + 1 \in Nat /\ counted \in Decoders
      BY <1>2, <2>1
    <3>2. /\ trailing \in Decoders /\ trailing.trailer_bytes = d.trailer_bytes + 1
          /\ trailing.decoded = d.decoded /\ trailing.remaining = d.remaining
          /\ trailing.line = d.line /\ trailing.phase = d.phase /\ trailing.failure = d.failure
          /\ trailing.metadata_bytes = counted.metadata_bytes
      BY <1>1, <2>1, <3>0 DEF Decoders
    <3>3. Sound(trailing)
      BY <1>2, <2>1, <2>2, <2>5, <3>2 DEF Sound
    <3>. QED  BY <3>1, <3>2, <3>3, LineByteSound
  <2>6. CASE d.phase \notin {"data_cr", "data_lf", "trailers"}
    <3>1. metadata(d, byte) = LineByte(counted, byte)
      BY <1>2, <1>3, <1>6, <2>6
    <3>. QED  BY <3>1, <2>1, <2>2, LineByteSound
  <2>. QED  BY <2>3, <2>4, <2>5, <2>6
<1>. QED  BY <1>2, <1>5, <1>6

\* A byte of the payload.
LEMMA CopyByteSound ==
  ASSUME NEW d, Sound(d), d.failure = NoError, d.phase = "data"
  PROVE  Sound(CopyByte(d)) /\ CopyByte(d).decoded = d.decoded + 1
<1>1. PICK e : e = CopyByte(d)
  OBVIOUS
<1>2. /\ d \in Decoders /\ d.remaining \in Nat /\ d.decoded \in Nat /\ MaxBodyBytes \in Nat
      /\ d.remaining > 0 /\ d.remaining + d.decoded <= MaxBodyBytes
  BY DecoderAssumptions DEF Sound, Decoders
<1>5. d.remaining - 1 \in Nat /\ d.decoded + 1 \in Nat
  BY <1>2
<1>6. PICK phase : phase = IF d.remaining > 1 THEN "data" ELSE IF d.chunked THEN "data_cr" ELSE "done"
  OBVIOUS
<1>7. phase \in {"data", "data_cr", "done"} /\ (phase = "data" => d.remaining > 1)
  BY <1>6
<1>8. e = [d EXCEPT !.remaining = d.remaining - 1, !.decoded = d.decoded + 1, !.phase = phase]
  BY <1>1, <1>6 DEF CopyByte
<1>3. /\ e \in Decoders /\ e.remaining = d.remaining - 1 /\ e.decoded = d.decoded + 1
      /\ e.phase = "data" => d.remaining > 1
      /\ e.line = d.line /\ e.failure = d.failure
      /\ e.metadata_bytes = d.metadata_bytes /\ e.trailer_bytes = d.trailer_bytes
  BY <1>2, <1>5, <1>7, <1>8 DEF Decoders
<1>4. Sound(e)
  BY <1>2, <1>3 DEF Sound
<1>. QED  BY <1>1, <1>3, <1>4

-----------------------------------------------------------------------------
\* The loop of feed().

Progresses == [decoder : Decoders, consumed : Nat, produced : Seq(Bytes)]

\* What is so after at most n bytes were fed to d: it has consumed no more, and what it has
\* produced is what it counts.  A failure stays.
Fed(progress, d, n) ==
  /\ progress \in Progresses
  /\ Sound(progress.decoder)
  /\ progress.consumed <= n
  /\ progress.decoder.decoded = d.decoded + Len(progress.produced)
  /\ d.failure # NoError => progress.decoder.failure # NoError

\* One turn.
LEMMA FeedByteSound ==
  ASSUME NEW d, Sound(d), NEW n \in Nat, NEW progress, Fed(progress, d, n),
         NEW byte \in Bytes, NEW room
  PROVE  Fed(FeedByte(progress, byte, room), d, n + 1)
<1>1. PICK e : e = progress.decoder
  OBVIOUS
<1>2. PICK after : after = FeedByte(progress, byte, room)
  OBVIOUS
<1>3. /\ Sound(e) /\ e \in Decoders /\ progress \in Progresses
      /\ progress.consumed \in Nat /\ progress.consumed <= n
      /\ progress.produced \in Seq(Bytes) /\ Len(progress.produced) \in Nat
      /\ d.decoded \in Nat /\ e.decoded = d.decoded + Len(progress.produced)
  <2>1. Sound(e) /\ progress \in Progresses /\ e.decoded = d.decoded + Len(progress.produced) /\ progress.consumed <= n
    BY <1>1 DEF Fed
  <2>2. progress.consumed \in Nat /\ progress.produced \in Seq(Bytes)
    BY <2>1 DEF Progresses
  <2>3. e \in Decoders /\ d.decoded \in Nat
    BY <2>1 DEF Sound, Decoders
  <2>. QED  BY <2>1, <2>2, <2>3, LenProperties
<1>4. CASE e.phase = "done" \/ e.failure # NoError \/ (e.phase = "data" /\ Len(progress.produced) = room)
  <2>1. after = progress
    BY <1>1, <1>2, <1>4 DEF FeedByte
  <2>. QED  BY <1>2, <1>3, <2>1 DEF Fed
<1>5. CASE e.failure = NoError /\ e.phase = "data" /\ Len(progress.produced) # room
  <2>1. after = [decoder |-> CopyByte(e), consumed |-> progress.consumed + 1,
                 produced |-> Append(progress.produced, byte)]
    BY <1>1, <1>2, <1>5 DEF FeedByte
  <2>2. Sound(CopyByte(e)) /\ CopyByte(e).decoded = e.decoded + 1 /\ CopyByte(e) \in Decoders
    <3>1. Sound(CopyByte(e)) /\ CopyByte(e).decoded = e.decoded + 1
      BY <1>3, <1>5, CopyByteSound
    <3>. QED  BY <3>1 DEF Sound
  <2>3. /\ Append(progress.produced, byte) \in Seq(Bytes)
        /\ Len(Append(progress.produced, byte)) = Len(progress.produced) + 1
    BY <1>3, AppendProperties
  <2>4. /\ after \in Progresses /\ after.decoder = CopyByte(e)
        /\ after.consumed = progress.consumed + 1
        /\ after.produced = Append(progress.produced, byte)
    BY <1>3, <2>1, <2>2, <2>3 DEF Progresses
  <2>5. d.failure = NoError
    BY <1>1, <1>5 DEF Fed
  <2>6. after.consumed <= n + 1
    BY <1>3, <2>4
  <2>7. after.decoder.decoded = d.decoded + Len(after.produced)
    <3>1. CopyByte(e).decoded = d.decoded + (Len(progress.produced) + 1)
      BY <1>3, <2>2
    <3>. QED  BY <2>3, <2>4, <3>1
  <2>. QED  BY <1>2, <2>2, <2>4, <2>5, <2>6, <2>7 DEF Fed
<1>6. CASE e.failure = NoError /\ e.phase \notin {"data", "done"}
  <2>1. after = [progress EXCEPT !.decoder = metadata(e, byte), !.consumed = @ + 1]
    BY <1>1, <1>2, <1>6 DEF FeedByte
  <2>2. Sound(metadata(e, byte)) /\ metadata(e, byte).decoded = e.decoded /\ metadata(e, byte) \in Decoders
    <3>1. Sound(metadata(e, byte)) /\ metadata(e, byte).decoded = e.decoded
      BY <1>3, <1>6, MetadataSound
    <3>. QED  BY <3>1 DEF Sound
  <2>3. /\ after \in Progresses /\ after.decoder = metadata(e, byte)
        /\ after.consumed = progress.consumed + 1 /\ after.produced = progress.produced
    <3>1. PICK counted \in Nat : counted = progress.consumed + 1
      BY <1>3
    <3>2. PICK m \in Decoders : m = metadata(e, byte)
      BY <2>2
    <3>3. after = [progress EXCEPT !.decoder = m, !.consumed = counted]
      BY <2>1, <3>1, <3>2
    <3>4. /\ after \in Progresses /\ after.decoder = m /\ after.consumed = counted
          /\ after.produced = progress.produced
      BY <1>3, <3>3 DEF Progresses
    <3>. QED  BY <3>1, <3>2, <3>4
  <2>4. d.failure = NoError
    BY <1>1, <1>6 DEF Fed
  <2>5. after.consumed <= n + 1 /\ after.decoder.decoded = d.decoded + Len(after.produced)
    BY <1>3, <2>2, <2>3
  <2>. QED  BY <1>2, <2>2, <2>3, <2>4, <2>5 DEF Fed
<1>. QED  BY <1>4, <1>5, <1>6

\* One step of the recursive function of feed(), from the progress before.
AfterStep(f, d, input, room, n) ==
  IF n = 0 THEN [decoder |-> d, consumed |-> 0, produced |-> <<>>]
  ELSE FeedByte(f[n - 1], input[n], room)

\* The function on the first m bytes.
IsAfter(f, d, input, room, m) == f = [n \in 0 .. m |-> AfterStep(f, d, input, room, n)]

\* There is such a function.
LEMMA AfterExists ==
  ASSUME NEW d, NEW input, NEW room
  PROVE  \A m \in Nat : \E f : IsAfter(f, d, input, room, m)
<1>. DEFINE Bad == {m \in Nat : ~\E f : IsAfter(f, d, input, room, m)}
<1>1. SUFFICES ASSUME Bad # {} PROVE FALSE
  OBVIOUS
<1>2. PICK m \in Bad : \A n \in Bad : m <= n
  BY <1>1, Least
<1>3. m # 0
  <2>1. IsAfter([n \in 0 .. 0 |-> [decoder |-> d, consumed |-> 0, produced |-> <<>>]], d, input, room, 0)
    BY DEF IsAfter, AfterStep
  <2>. QED  BY <2>1
<1>4. PICK f : IsAfter(f, d, input, room, m - 1)
  BY <1>2, <1>3
<1>. DEFINE g == [n \in 0 .. m |-> IF n = m THEN AfterStep(f, d, input, room, m) ELSE f[n]]
<1>5. \A n \in 0 .. m : g[n] = AfterStep(g, d, input, room, n)
  <2>1. \A n \in 0 .. m - 1 : f[n] = AfterStep(f, d, input, room, n)
    BY <1>2, <1>3, <1>4 DEF IsAfter
  <2>2. \A n \in 0 .. m : n - 1 \in 0 .. m - 1 \/ n = 0
    BY <1>2
  <2>3. \A n \in 0 .. m - 1 : g[n] = f[n]
    BY <1>2
  <2>4. \A n \in 0 .. m : AfterStep(g, d, input, room, n) = AfterStep(f, d, input, room, n)
    <3>. HIDE DEF g
    <3>. QED  BY <2>2, <2>3 DEF AfterStep
  <2>. QED  BY <1>2, <2>1, <2>4
<1>6. IsAfter(g, d, input, room, m)
  BY <1>5 DEF IsAfter
<1>. QED  BY <1>2, <1>6

\* What feed() returns keeps every limit, whatever it was given.
LEMMA FeedSound ==
  ASSUME NEW d, Sound(d), NEW input \in Seq(Bytes), NEW room
  PROVE  Fed(feed(d, input, room), d, Len(input))
<1>1. Len(input) \in Nat /\ \A n \in 1 .. Len(input) : input[n] \in Bytes
  BY LenProperties, ElementOfSeq
<1>. DEFINE f == CHOOSE f : IsAfter(f, d, input, room, Len(input))
<1>2. IsAfter(f, d, input, room, Len(input))
  BY <1>1, AfterExists
<1>3. feed(d, input, room) = f[Len(input)]
  BY DEF feed, IsAfter, AfterStep
<1>. HIDE DEF f
<1>4. \A n \in 0 .. Len(input) : f[n] = AfterStep(f, d, input, room, n)
  BY <1>2 DEF IsAfter
<1>. DEFINE Bad == {n \in 0 .. Len(input) : ~Fed(f[n], d, n)}
<1>5. Bad = {}
  <2>. SUFFICES ASSUME Bad # {} PROVE FALSE
    OBVIOUS
  <2>1. PICK m \in Bad : \A n \in Bad : m <= n
    <3>1. Bad \in SUBSET Nat
      BY <1>1
    <3>. QED  BY <3>1, Least
  <2>2. m # 0
    <3>1. SUFFICES ASSUME m = 0 PROVE FALSE
      OBVIOUS
    <3>2. PICK p : p = [decoder |-> d, consumed |-> 0, produced |-> <<>>]
      OBVIOUS
    <3>3. f[0] = p
      BY <1>1, <1>4, <3>2 DEF AfterStep
    <3>4. d \in Decoders /\ d.decoded \in Nat
      BY DEF Sound, Decoders
    <3>5. p \in Progresses /\ p.decoder = d /\ p.consumed = 0 /\ p.produced = <<>>
      BY <3>2, <3>4 DEF Progresses
    <3>6. d.decoded = d.decoded + Len(<<>>)
      BY <3>4
    <3>7. Fed(p, d, 0)
      BY <3>5, <3>6 DEF Fed
    <3>. QED  BY <2>1, <3>1, <3>3, <3>7
  <2>3. m \in 1 .. Len(input) /\ m - 1 \in 0 .. Len(input) /\ m - 1 \in Nat
    BY <1>1, <2>1, <2>2
  <2>4. Fed(f[m - 1], d, m - 1)
    BY <2>1, <2>3
  <2>5. f[m] = FeedByte(f[m - 1], input[m], room)
    BY <1>4, <2>2, <2>3 DEF AfterStep
  <2>6. Fed(FeedByte(f[m - 1], input[m], room), d, (m - 1) + 1)
    BY <1>1, <2>3, <2>4, FeedByteSound
  <2>7. (m - 1) + 1 = m
    BY <2>3
  <2>. QED  BY <2>1, <2>5, <2>6, <2>7
<1>. QED  BY <1>1, <1>3, <1>5

-----------------------------------------------------------------------------
\* The reference framing, place by place.

Framings == [framed : BOOLEAN, payload : Seq(Bytes), end : Nat, trailers : Nat, trailer_start : Nat]

\* One step of the recursive functions of the reference, from the places behind.
TrailersStep(from, wire, i) ==
  IF LineEnds(wire, i) = {} THEN NotFramed
  ELSE LET j == CHOOSE j \in LineEnds(wire, i) : TRUE IN
       IF j = i THEN [NotFramed EXCEPT !.framed = TRUE, !.end = j + 1]
       ELSE IF valid_trailer(SubSeq(wire, i, j - 1))
       THEN [from[j + 2] EXCEPT !.trailers = @ + 1]
       ELSE NotFramed

ChunksStep(from, wire, i) ==
  IF LineEnds(wire, i) = {} THEN NotFramed
  ELSE LET j == CHOOSE j \in LineEnds(wire, i) : TRUE
           line == SubSeq(wire, i, j - 1)
           size == ChunkSize(line)
           behind == j + 4 + size IN
       IF \/ Digits(line) = 0 \/ Len(line) > MaxChunkLine
          \/ ~valid_extensions(SubSeq(line, Digits(line) + 1, Len(line)))
       THEN NotFramed
       ELSE IF size = 0 THEN [Trailers(wire)[j + 2] EXCEPT !.trailer_start = j + 2]
       ELSE IF behind > Len(wire) + 1 THEN NotFramed
       ELSE IF wire[behind - 2] = "r" /\ wire[behind - 1] = "n"
       THEN [from[behind] EXCEPT !.payload = SubSeq(wire, j + 2, behind - 3) \o @]
       ELSE NotFramed

\* Their functions from a place on.
IsTrailers(f, wire, m) == f = [i \in m .. Len(wire) + 1 |-> TrailersStep(f, wire, i)]
IsChunks(f, wire, m)   == f = [i \in m .. Len(wire) + 1 |-> ChunksStep(f, wire, i)]

\* A line has one end, behind its beginning and before the end of the bytes.
LEMMA LineEnd ==
  ASSUME NEW wire \in Seq(Bytes), NEW i \in Nat \ {0}, NEW j \in LineEnds(wire, i)
  PROVE  /\ j \in Nat /\ i <= j /\ j + 1 <= Len(wire) /\ Len(wire) \in Nat
         /\ wire[j] = "r" /\ wire[j + 1] = "n"
         /\ \A k \in i .. j - 1 : wire[k] \notin {"r", "n"}
         /\ LineEnds(wire, i) = {j} /\ (CHOOSE k \in LineEnds(wire, i) : TRUE) = j
         /\ SubSeq(wire, i, j - 1) \in Seq(Bytes) /\ Len(SubSeq(wire, i, j - 1)) = j - i
<1>1. Len(wire) \in Nat /\ \A k \in 1 .. Len(wire) : wire[k] \in Bytes
  BY LenProperties, ElementOfSeq
<1>2. /\ j \in Nat /\ i <= j /\ j + 1 <= Len(wire)
      /\ wire[j] = "r" /\ wire[j + 1] = "n"
      /\ \A k \in i .. j - 1 : wire[k] \notin {"r", "n"}
  BY <1>1 DEF LineEnds
<1>3. ASSUME NEW k \in LineEnds(wire, i) PROVE k = j
  <2>1. /\ k \in Nat /\ i <= k /\ wire[k] = "r"
        /\ \A n \in i .. k - 1 : wire[n] \notin {"r", "n"}
    BY <1>1 DEF LineEnds
  <2>2. ~(k < j) /\ ~(j < k)
    BY <1>2, <2>1
  <2>. QED  BY <1>2, <2>1, <2>2
<1>4. LineEnds(wire, i) = {j}
  BY <1>3
<1>5. (CHOOSE k \in LineEnds(wire, i) : TRUE) = j
  BY <1>4
<1>6. \A n \in i .. j - 1 : wire[n] \in Bytes
  BY <1>1, <1>2
<1>7. i \in Int /\ j - 1 \in Int
  BY <1>2
<1>8. SubSeq(wire, i, j - 1) \in Seq(Bytes) /\ Len(SubSeq(wire, i, j - 1)) = IF i <= j - 1 THEN (j - 1) - i + 1 ELSE 0
  BY <1>6, <1>7, SubSeqProperties
<1>9. Len(SubSeq(wire, i, j - 1)) = j - i
  BY <1>2, <1>8
<1>. QED  BY <1>1, <1>2, <1>4, <1>5, <1>8, <1>9

\* A step looks only at places behind it.
LEMMA TrailersLocal ==
  ASSUME NEW wire \in Seq(Bytes), NEW i \in Nat \ {0}, NEW f, NEW g,
         \A k \in i + 1 .. Len(wire) + 1 : f[k] = g[k]
  PROVE  TrailersStep(f, wire, i) = TrailersStep(g, wire, i)
<1>1. CASE LineEnds(wire, i) = {}
  BY <1>1 DEF TrailersStep
<1>2. CASE LineEnds(wire, i) # {}
  <2>1. PICK j \in LineEnds(wire, i) : TRUE
    BY <1>2
  <2>2. (CHOOSE k \in LineEnds(wire, i) : TRUE) = j /\ j + 2 \in i + 1 .. Len(wire) + 1
    BY <2>1, LineEnd
  <2>3. f[j + 2] = g[j + 2]
    BY <2>2
  <2>. QED  BY <1>2, <2>2, <2>3 DEF TrailersStep
<1>. QED  BY <1>1, <1>2

\* The same of a chunk.
LEMMA ChunksLocal ==
  ASSUME NEW wire \in Seq(Bytes), NEW i \in Nat \ {0}, NEW f, NEW g,
         \A k \in i + 1 .. Len(wire) + 1 : f[k] = g[k]
  PROVE  ChunksStep(f, wire, i) = ChunksStep(g, wire, i)
<1>1. CASE LineEnds(wire, i) = {}
  BY <1>1 DEF ChunksStep
<1>2. CASE LineEnds(wire, i) # {}
  <2>1. PICK j \in LineEnds(wire, i) : TRUE
    BY <1>2
  <2>2. /\ (CHOOSE k \in LineEnds(wire, i) : TRUE) = j /\ j \in Nat /\ i <= j /\ Len(wire) \in Nat
        /\ SubSeq(wire, i, j - 1) \in Seq(Bytes)
    BY <2>1, LineEnd
  <2>3. PICK size \in Nat : size = ChunkSize(SubSeq(wire, i, j - 1))
    BY <2>2, ChunkSizeType
  <2>4. ~(j + 4 + size > Len(wire) + 1) => j + 4 + size \in i + 1 .. Len(wire) + 1
    BY <2>2
  <2>5. ~(j + 4 + size > Len(wire) + 1) => f[j + 4 + size] = g[j + 4 + size]
    BY <2>4
  <2>. QED  BY <1>2, <2>2, <2>3, <2>5 DEF ChunksStep
<1>. QED  BY <1>1, <1>2

\* There are such functions.
LEMMA TrailersExist ==
  ASSUME NEW wire \in Seq(Bytes)
  PROVE  \E f : IsTrailers(f, wire, 1)
<1>0. PICK top \in Nat : top = Len(wire) + 1
  BY LenProperties
<1>. DEFINE Bad == {n \in 0 .. top : ~\E f : IsTrailers(f, wire, top + 1 - n)}
<1>1. SUFFICES ASSUME Bad # {} PROVE FALSE
  BY <1>0
<1>2. PICK n \in Bad : \A k \in Bad : n <= k
  <2>1. Bad \in SUBSET Nat
    BY <1>0
  <2>. QED  BY <1>1, <2>1, Least
<1>3. n # 0
  <2>1. IsTrailers([i \in top + 1 .. top |-> 0], wire, top + 1 - 0)
    BY <1>0 DEF IsTrailers
  <2>. QED  BY <1>0, <2>1
<1>4. /\ n \in 1 .. top /\ top + 1 - n \in Nat \ {0} /\ n - 1 \in 0 .. top /\ ~(n <= n - 1)
      /\ (top + 1 - n) + 1 = top + 1 - (n - 1) /\ top + 1 - n <= top
  <2>1. n \in 0 .. top
    BY <1>2
  <2>. HIDE DEF Bad
  <2>. QED  BY <1>0, <1>3, <2>1
<1>5. PICK m \in Nat \ {0} : m = top + 1 - n
  BY <1>4
<1>6. PICK f : IsTrailers(f, wire, m + 1)
  <2>1. n - 1 \notin Bad
    <3>. HIDE DEF Bad
    <3>. QED  BY <1>2, <1>4
  <2>. QED  BY <1>4, <1>5, <2>1
<1>. DEFINE g == [i \in m .. top |-> IF i = m THEN TrailersStep(f, wire, m) ELSE f[i]]
<1>7. \A i \in m .. top : g[i] = TrailersStep(g, wire, i)
  <2>1. \A i \in m + 1 .. top : f[i] = TrailersStep(f, wire, i)
    BY <1>0, <1>6 DEF IsTrailers
  <2>2. \A i \in m + 1 .. top : g[i] = f[i]
    BY <1>0, <1>5
  <2>3. ASSUME NEW i \in m .. top
        PROVE  TrailersStep(f, wire, i) = TrailersStep(g, wire, i)
    <3>1. i \in Nat \ {0} /\ \A k \in i + 1 .. Len(wire) + 1 : f[k] = g[k]
      BY <1>0, <1>5, <2>2
    <3>. QED  BY <3>1, TrailersLocal
  <2>4. g[m] = TrailersStep(f, wire, m) /\ m \in m .. top
    BY <1>4, <1>5
  <2>5. \A i \in m .. top : i = m \/ i \in m + 1 .. top
    BY <1>0, <1>5
  <2>. HIDE DEF g
  <2>. QED  BY <2>1, <2>2, <2>3, <2>4, <2>5
<1>8. IsTrailers(g, wire, m)
  BY <1>0, <1>7 DEF IsTrailers
<1>. QED  BY <1>2, <1>5, <1>8

\* And so does that of the chunks.
LEMMA ChunksExist ==
  ASSUME NEW wire \in Seq(Bytes)
  PROVE  \E f : IsChunks(f, wire, 1)
<1>0. PICK top \in Nat : top = Len(wire) + 1
  BY LenProperties
<1>. DEFINE Bad == {n \in 0 .. top : ~\E f : IsChunks(f, wire, top + 1 - n)}
<1>1. SUFFICES ASSUME Bad # {} PROVE FALSE
  BY <1>0
<1>2. PICK n \in Bad : \A k \in Bad : n <= k
  <2>1. Bad \in SUBSET Nat
    BY <1>0
  <2>. QED  BY <1>1, <2>1, Least
<1>3. n # 0
  <2>1. IsChunks([i \in top + 1 .. top |-> 0], wire, top + 1 - 0)
    BY <1>0 DEF IsChunks
  <2>. QED  BY <1>0, <2>1
<1>4. /\ n \in 1 .. top /\ top + 1 - n \in Nat \ {0} /\ n - 1 \in 0 .. top /\ ~(n <= n - 1)
      /\ (top + 1 - n) + 1 = top + 1 - (n - 1) /\ top + 1 - n <= top
  <2>1. n \in 0 .. top
    BY <1>2
  <2>. HIDE DEF Bad
  <2>. QED  BY <1>0, <1>3, <2>1
<1>5. PICK m \in Nat \ {0} : m = top + 1 - n
  BY <1>4
<1>6. PICK f : IsChunks(f, wire, m + 1)
  <2>1. n - 1 \notin Bad
    <3>. HIDE DEF Bad
    <3>. QED  BY <1>2, <1>4
  <2>. QED  BY <1>4, <1>5, <2>1
<1>. DEFINE g == [i \in m .. top |-> IF i = m THEN ChunksStep(f, wire, m) ELSE f[i]]
<1>7. \A i \in m .. top : g[i] = ChunksStep(g, wire, i)
  <2>1. \A i \in m + 1 .. top : f[i] = ChunksStep(f, wire, i)
    BY <1>0, <1>6 DEF IsChunks
  <2>2. \A i \in m + 1 .. top : g[i] = f[i]
    BY <1>0, <1>5
  <2>3. ASSUME NEW i \in m .. top
        PROVE  ChunksStep(f, wire, i) = ChunksStep(g, wire, i)
    <3>1. i \in Nat \ {0} /\ \A k \in i + 1 .. Len(wire) + 1 : f[k] = g[k]
      BY <1>0, <1>5, <2>2
    <3>. QED  BY <3>1, ChunksLocal
  <2>4. g[m] = ChunksStep(f, wire, m) /\ m \in m .. top
    BY <1>4, <1>5
  <2>5. \A i \in m .. top : i = m \/ i \in m + 1 .. top
    BY <1>0, <1>5
  <2>. HIDE DEF g
  <2>. QED  BY <2>1, <2>2, <2>3, <2>4, <2>5
<1>8. IsChunks(g, wire, m)
  BY <1>0, <1>7 DEF IsChunks
<1>. QED  BY <1>2, <1>5, <1>8

\* The reference is what its steps say.
LEMMA TrailersAt ==
  ASSUME NEW wire \in Seq(Bytes), NEW i \in 1 .. Len(wire) + 1
  PROVE  Trailers(wire)[i] = TrailersStep(Trailers(wire), wire, i)
<1>. DEFINE f == CHOOSE f : IsTrailers(f, wire, 1)
<1>1. IsTrailers(f, wire, 1)
  BY TrailersExist
<1>2. Trailers(wire) = f
  BY DEF Trailers, IsTrailers, TrailersStep
<1>. HIDE DEF f
<1>3. \A k \in 1 .. Len(wire) + 1 : f[k] = TrailersStep(f, wire, k)
  BY <1>1 DEF IsTrailers
<1>. QED  BY <1>2, <1>3

\* The chunks, at every place.
LEMMA ChunksAt ==
  ASSUME NEW wire \in Seq(Bytes), NEW i \in 1 .. Len(wire) + 1
  PROVE  Chunks(wire)[i] = ChunksStep(Chunks(wire), wire, i)
<1>. DEFINE f == CHOOSE f : IsChunks(f, wire, 1)
<1>1. IsChunks(f, wire, 1)
  BY ChunksExist
<1>2. Chunks(wire) = f
  BY DEF Chunks, IsChunks, ChunksStep
<1>. HIDE DEF f
<1>3. \A k \in 1 .. Len(wire) + 1 : f[k] = ChunksStep(f, wire, k)
  BY <1>1 DEF IsChunks
<1>. QED  BY <1>2, <1>3

\* A set of natural numbers up to a bound that is not empty has a greatest element.
LEMMA Greatest ==
  ASSUME NEW bound \in Nat, NEW S \in SUBSET (0 .. bound), S # {}
  PROVE  \E m \in S : \A n \in S : n <= m
<1>. DEFINE R == {bound - n : n \in S}
<1>0. S # {} /\ \A n \in S : n \in Nat /\ n <= bound
  OBVIOUS
<1>1. R \in SUBSET Nat /\ R # {}
  <2>1. \A n \in S : bound - n \in Nat
    BY <1>0
  <2>2. R \in SUBSET Nat
    BY <2>1
  <2>3. PICK n \in S : TRUE
    BY <1>0
  <2>4. bound - n \in R
    BY <2>3
  <2>. QED  BY <2>2, <2>4
<1>2. PICK r \in R : \A n \in R : r <= n
  BY <1>1, Least
<1>3. PICK m \in S : r = bound - m
  BY <1>2
<1>4. ASSUME NEW n \in S PROVE n <= m
  <2>1. r <= bound - n
    BY <1>2
  <2>2. n \in Int /\ m \in Int
    OBVIOUS
  <2>. HIDE DEF R
  <2>. QED  BY <1>3, <2>1, <2>2
<1>. QED  BY <1>4

\* A line without an end is no trailer, and one with an end is what it says.
LEMMA TrailersLine ==
  ASSUME NEW wire \in Seq(Bytes), NEW i \in 1 .. Len(wire) + 1
  PROVE  /\ LineEnds(wire, i) = {} => Trailers(wire)[i] = NotFramed
         /\ \A j \in LineEnds(wire, i) :
              Trailers(wire)[i] =
                IF j = i THEN [NotFramed EXCEPT !.framed = TRUE, !.end = j + 1]
                ELSE IF valid_trailer(SubSeq(wire, i, j - 1))
                THEN [Trailers(wire)[j + 2] EXCEPT !.trailers = @ + 1]
                ELSE NotFramed
<1>0. i \in Nat \ {0}
  BY LenProperties
<1>1. PICK T : T = Trailers(wire)
  OBVIOUS
<1>2. T[i] = TrailersStep(T, wire, i)
  BY <1>1, TrailersAt
<1>3. LineEnds(wire, i) = {} => T[i] = NotFramed
  BY <1>2 DEF TrailersStep
<1>4. ASSUME NEW j \in LineEnds(wire, i)
      PROVE  T[i] = IF j = i THEN [NotFramed EXCEPT !.framed = TRUE, !.end = j + 1]
                    ELSE IF valid_trailer(SubSeq(wire, i, j - 1))
                    THEN [T[j + 2] EXCEPT !.trailers = @ + 1]
                    ELSE NotFramed
  <2>1. (CHOOSE k \in LineEnds(wire, i) : TRUE) = j /\ LineEnds(wire, i) # {}
    BY <1>0, LineEnd
  <2>. QED  BY <1>2, <2>1 DEF TrailersStep
<1>. QED  BY <1>1, <1>3, <1>4

\* A size line that the reference takes, and what it makes of the bytes behind it: the
\* trailers, or a chunk before the chunks that follow.
SizeLine(line) ==
  /\ Digits(line) # 0 /\ Len(line) <= MaxChunkLine
  /\ valid_extensions(SubSeq(line, Digits(line) + 1, Len(line)))

LastChunk(wire, j) == [Trailers(wire)[j + 2] EXCEPT !.trailer_start = j + 2]

Before(wire, j, size, f) == [f EXCEPT !.payload = SubSeq(wire, j + 2, j + 1 + size) \o @]

\* The data that ends at n is followed by a line end.
Ended(wire, n) == n + 2 <= Len(wire) /\ wire[n + 1] = "r" /\ wire[n + 2] = "n"

\* The chunks at a place, by the size line that begins there.
LEMMA ChunksLine ==
  ASSUME NEW wire \in Seq(Bytes), NEW i \in 1 .. Len(wire) + 1
  PROVE  /\ LineEnds(wire, i) = {} => Chunks(wire)[i] = NotFramed
         /\ \A j \in LineEnds(wire, i) : \A line \in Seq(Bytes), size \in Nat :
              line = SubSeq(wire, i, j - 1) /\ size = ChunkSize(line) =>
              /\ ~SizeLine(line) => Chunks(wire)[i] = NotFramed
              /\ SizeLine(line) /\ size = 0 => Chunks(wire)[i] = LastChunk(wire, j)
              /\ SizeLine(line) /\ size # 0 /\ ~Ended(wire, j + 1 + size) => Chunks(wire)[i] = NotFramed
              /\ SizeLine(line) /\ size # 0 /\ Ended(wire, j + 1 + size) =>
                   Chunks(wire)[i] = Before(wire, j, size, Chunks(wire)[j + 4 + size])
<1>0. i \in Nat \ {0} /\ Len(wire) \in Nat
  BY LenProperties
<1>1. PICK F : F = Chunks(wire)
  OBVIOUS
<1>2. F[i] = ChunksStep(F, wire, i)
  BY <1>1, ChunksAt
<1>3. LineEnds(wire, i) = {} => F[i] = NotFramed
  BY <1>2 DEF ChunksStep
<1>4. ASSUME NEW j \in LineEnds(wire, i), NEW line \in Seq(Bytes), NEW size \in Nat,
             line = SubSeq(wire, i, j - 1), size = ChunkSize(line)
      PROVE  /\ ~SizeLine(line) => F[i] = NotFramed
             /\ SizeLine(line) /\ size = 0 => F[i] = LastChunk(wire, j)
             /\ SizeLine(line) /\ size # 0 /\ ~Ended(wire, j + 1 + size) => F[i] = NotFramed
             /\ SizeLine(line) /\ size # 0 /\ Ended(wire, j + 1 + size) =>
                   F[i] = Before(wire, j, size, F[j + 4 + size])
  <2>1. (CHOOSE k \in LineEnds(wire, i) : TRUE) = j /\ LineEnds(wire, i) # {} /\ j \in Nat
    BY <1>0, LineEnd
  <2>2. F[i] = IF \/ Digits(line) = 0 \/ Len(line) > MaxChunkLine
                  \/ ~valid_extensions(SubSeq(line, Digits(line) + 1, Len(line)))
               THEN NotFramed
               ELSE IF size = 0 THEN LastChunk(wire, j)
               ELSE IF j + 4 + size > Len(wire) + 1 THEN NotFramed
               ELSE IF wire[(j + 4 + size) - 2] = "r" /\ wire[(j + 4 + size) - 1] = "n"
               THEN [F[j + 4 + size] EXCEPT !.payload = SubSeq(wire, j + 2, (j + 4 + size) - 3) \o @]
               ELSE NotFramed
    BY <1>2, <1>4, <2>1 DEF ChunksStep, LastChunk
  <2>3. PICK place : place = j + 4 + size
    OBVIOUS
  <2>4. /\ place - 3 = j + 1 + size /\ place - 2 = (j + 1 + size) + 1 /\ place - 1 = (j + 1 + size) + 2
        /\ place > Len(wire) + 1 <=> ~((j + 1 + size) + 2 <= Len(wire))
    BY <1>0, <2>1, <2>3
  <2>5. ~SizeLine(line) <=> \/ Digits(line) = 0 \/ Len(line) > MaxChunkLine
                           \/ ~valid_extensions(SubSeq(line, Digits(line) + 1, Len(line)))
    <3>1. Len(line) \in Nat /\ MaxChunkLine \in Nat
      BY LenProperties, DecoderAssumptions
    <3>. QED  BY <3>1 DEF SizeLine
  <2>6. F[i] = IF ~SizeLine(line) THEN NotFramed
               ELSE IF size = 0 THEN LastChunk(wire, j)
               ELSE IF ~Ended(wire, j + 1 + size) THEN NotFramed
               ELSE Before(wire, j, size, F[place])
    BY <2>2, <2>3, <2>4, <2>5, Zenon DEF Ended, Before
  <2>. QED  BY <2>3, <2>6, Zenon
<1>. QED  BY <1>1, <1>3, <1>4, Zenon

\* Nothing is framed there.
LEMMA NotFramedType == NotFramed \in Framings /\ ~NotFramed.framed /\ NotFramed.payload = <<>>
<1>1. <<>> \in Seq(Bytes)
  OBVIOUS
<1>2. NotFramed \in Framings
  BY <1>1 DEF NotFramed, Framings
<1>3. ~NotFramed.framed /\ NotFramed.payload = <<>>
  BY DEF NotFramed
<1>. QED  BY <1>2, <1>3

\* Trailers that are framed take two bytes at least and no payload.
TrailersGood(f, i) == f \in Framings /\ f.payload = <<>> /\ (f.framed => i + 1 <= f.end)

\* The trailers at every place have this shape.
LEMMA TrailersShape ==
  ASSUME NEW wire \in Seq(Bytes)
  PROVE  \A i \in 1 .. Len(wire) + 1 : TrailersGood(Trailers(wire)[i], i)
<1>0. PICK top \in Nat : top = Len(wire) + 1
  BY LenProperties
<1>1. PICK T : T = Trailers(wire)
  OBVIOUS
<1>. DEFINE Bad == {i \in 1 .. top : ~TrailersGood(T[i], i)}
<1>2. SUFFICES ASSUME Bad # {} PROVE FALSE
  BY <1>0, <1>1
<1>3. PICK i \in Bad : \A k \in Bad : k <= i
  <2>1. Bad \in SUBSET (0 .. top)
    BY <1>0
  <2>. HIDE DEF Bad
  <2>. QED  BY <1>0, <1>2, <2>1, Greatest
<1>4. i \in Nat \ {0} /\ i \in 1 .. Len(wire) + 1
  BY <1>0, <1>3
<1>5. PICK f : f = T[i]
  OBVIOUS
<1>6. TrailersGood(NotFramed, i)
  BY NotFramedType DEF TrailersGood
<1>7. CASE LineEnds(wire, i) = {}
  <2>1. f = NotFramed
    BY <1>1, <1>4, <1>5, <1>7, TrailersLine
  <2>. QED  BY <1>3, <1>5, <1>6, <2>1
<1>8. CASE LineEnds(wire, i) # {}
  <2>1. PICK j \in LineEnds(wire, i) : TRUE
    BY <1>8
  <2>2. j \in Nat /\ i <= j /\ j + 1 <= Len(wire) /\ Len(wire) \in Nat
    BY <1>4, <2>1, LineEnd
  <2>3. f = IF j = i THEN [NotFramed EXCEPT !.framed = TRUE, !.end = j + 1]
            ELSE IF valid_trailer(SubSeq(wire, i, j - 1))
            THEN [T[j + 2] EXCEPT !.trailers = @ + 1]
            ELSE NotFramed
    BY <1>1, <1>4, <1>5, <2>1, TrailersLine
  <2>4. TrailersGood(T[j + 2], j + 2)
    <3>1. j + 2 \in 1 .. top /\ ~(j + 2 <= i)
      BY <1>0, <1>4, <2>2
    <3>. QED  BY <1>3, <3>1
  <2>5. CASE f = [NotFramed EXCEPT !.framed = TRUE, !.end = j + 1]
    <3>1. /\ f.framed = TRUE /\ f.end = j + 1 /\ f.payload = <<>> /\ f.trailers = 0 /\ f.trailer_start = 0
          /\ f = [framed |-> TRUE, payload |-> <<>>, end |-> j + 1, trailers |-> 0, trailer_start |-> 0]
      BY <2>5 DEF NotFramed
    <3>2. <<>> \in Seq(Bytes) /\ j + 1 \in Nat
      BY <2>2
    <3>3. f \in Framings
      BY <3>1, <3>2 DEF Framings
    <3>4. TrailersGood(f, i)
      BY <1>4, <2>2, <3>1, <3>3 DEF TrailersGood
    <3>. QED  BY <1>3, <1>5, <3>4
  <2>6. CASE f = [T[j + 2] EXCEPT !.trailers = @ + 1]
    <3>1. PICK t \in Framings : t = T[j + 2]
      BY <2>4 DEF TrailersGood
    <3>2. t.payload = <<>> /\ (t.framed => j + 3 <= t.end) /\ t.end \in Nat
      BY <2>2, <2>4, <3>1 DEF TrailersGood, Framings
    <3>3. t.trailers + 1 \in Nat
      BY <3>1 DEF Framings
    <3>4. f \in Framings /\ f.payload = t.payload /\ f.framed = t.framed /\ f.end = t.end
      BY <2>6, <3>1, <3>3 DEF Framings
    <3>5. TrailersGood(f, i)
      BY <1>4, <2>2, <3>2, <3>4 DEF TrailersGood
    <3>. QED  BY <1>3, <1>5, <3>5
  <2>7. CASE f = NotFramed
    BY <1>3, <1>5, <1>6, <2>7
  <2>. QED  BY <2>3, <2>5, <2>6, <2>7
<1>. QED  BY <1>7, <1>8

\* Chunks that are framed take two bytes at least besides their payload.
ChunksGood(f, i) == f \in Framings /\ (f.framed => i + 1 + Len(f.payload) <= f.end)

\* What a chunk adds to those behind it.
LEMMA ChunkBefore ==
  ASSUME NEW wire \in Seq(Bytes), NEW size \in Nat, NEW j \in Nat, NEW t \in Framings,
         j + 1 + size <= Len(wire), NEW f, f = Before(wire, j, size, t)
  PROVE  /\ f \in Framings /\ f.framed = t.framed /\ f.end = t.end
         /\ f.trailers = t.trailers /\ f.trailer_start = t.trailer_start
         /\ Len(f.payload) = size + Len(t.payload)
<1>1. PICK s : s = SubSeq(wire, j + 2, j + 1 + size)
  OBVIOUS
<1>2. Len(wire) \in Nat
  BY LenProperties
<1>3. s \in Seq(Bytes) /\ Len(s) = size
  <2>1. \A n \in j + 2 .. j + 1 + size : wire[n] \in Bytes
    BY <1>2, ElementOfSeq
  <2>2. s \in Seq(Bytes) /\ Len(s) = IF j + 2 <= j + 1 + size THEN (j + 1 + size) - (j + 2) + 1 ELSE 0
    BY <1>1, <2>1, SubSeqProperties
  <2>. QED  BY <2>2
<1>4. t.payload \in Seq(Bytes)
  BY DEF Framings
<1>5. s \o t.payload \in Seq(Bytes) /\ Len(s \o t.payload) = size + Len(t.payload)
  BY <1>3, <1>4, ConcatProperties
<1>6. f = [t EXCEPT !.payload = s \o t.payload]
  BY <1>1 DEF Before
<1>7. /\ f \in Framings /\ f.framed = t.framed /\ f.end = t.end
      /\ f.trailers = t.trailers /\ f.trailer_start = t.trailer_start
      /\ f.payload = s \o t.payload
  BY <1>5, <1>6 DEF Framings
<1>. QED  BY <1>1, <1>5, <1>7

\* The chunks have theirs at a place if they have it behind.
LEMMA ChunksShapeStep ==
  ASSUME NEW wire \in Seq(Bytes), NEW i \in 1 .. Len(wire) + 1,
         \A k \in i + 1 .. Len(wire) + 1 : ChunksGood(Chunks(wire)[k], k)
  PROVE  ChunksGood(Chunks(wire)[i], i)
<1>4. i \in Nat \ {0} /\ Len(wire) \in Nat
  BY LenProperties
<1>5. PICK f : f = Chunks(wire)[i]
  OBVIOUS
<1>6. ChunksGood(NotFramed, i)
  BY NotFramedType DEF ChunksGood
<1>7. CASE LineEnds(wire, i) = {}
  <2>1. f = NotFramed
    BY <1>5, <1>7, ChunksLine
  <2>. QED  BY <1>5, <1>6, <2>1
<1>8. CASE LineEnds(wire, i) # {}
  <2>1. PICK j \in LineEnds(wire, i) : TRUE
    BY <1>8
  <2>2. /\ j \in Nat /\ i <= j /\ j + 1 <= Len(wire)
        /\ SubSeq(wire, i, j - 1) \in Seq(Bytes)
    BY <1>4, <2>1, LineEnd
  <2>3. PICK line \in Seq(Bytes) : line = SubSeq(wire, i, j - 1)
    BY <2>2
  <2>4. PICK size \in Nat : size = ChunkSize(line)
    BY <2>3, ChunkSizeType
  <2>5. PICK place \in Nat : place = j + 4 + size
    BY <2>2
  <2>6. \/ f = NotFramed
        \/ f = LastChunk(wire, j)
        \/ Ended(wire, j + 1 + size) /\ f = Before(wire, j, size, Chunks(wire)[place])
    <3>1. /\ ~SizeLine(line) => f = NotFramed
          /\ SizeLine(line) /\ size = 0 => f = LastChunk(wire, j)
          /\ SizeLine(line) /\ size # 0 /\ ~Ended(wire, j + 1 + size) => f = NotFramed
          /\ SizeLine(line) /\ size # 0 /\ Ended(wire, j + 1 + size) =>
               f = Before(wire, j, size, Chunks(wire)[j + 4 + size])
      BY <1>5, <2>1, <2>3, <2>4, ChunksLine, ZenonT(60)
    <3>. QED  BY <2>5, <3>1, Zenon
  <2>7. CASE f = LastChunk(wire, j)
    <3>0. j + 2 \in 1 .. Len(wire) + 1
      BY <1>4, <2>2
    <3>1. PICK t : t = Trailers(wire)[j + 2]
      OBVIOUS
    <3>2. TrailersGood(t, j + 2)
      BY <3>0, <3>1, TrailersShape
    <3>3. t \in Framings /\ t.payload = <<>> /\ (t.framed => j + 3 <= t.end) /\ t.end \in Nat /\ j + 2 \in Nat
      BY <2>2, <3>2 DEF TrailersGood, Framings
    <3>4. f \in Framings /\ f.payload = t.payload /\ f.framed = t.framed /\ f.end = t.end
      BY <2>7, <3>1, <3>3 DEF Framings, LastChunk
    <3>5. Len(f.payload) = 0
      BY <3>3, <3>4
    <3>6. ChunksGood(f, i)
      BY <1>4, <2>2, <3>3, <3>4, <3>5 DEF ChunksGood
    <3>. QED  BY <1>5, <3>6
  <2>8. CASE Ended(wire, j + 1 + size) /\ f = Before(wire, j, size, Chunks(wire)[place])
    <3>2. place \in i + 1 .. Len(wire) + 1 /\ j + 1 + size <= Len(wire)
      BY <1>4, <2>2, <2>5, <2>8 DEF Ended
    <3>3. ChunksGood(Chunks(wire)[place], place)
      BY <3>2
    <3>4. PICK t \in Framings : t = Chunks(wire)[place]
      BY <3>3 DEF ChunksGood
    <3>5. PICK n \in Nat : n = Len(t.payload)
      BY <3>4, LenProperties DEF Framings
    <3>6. (t.framed => place + 1 + n <= t.end) /\ t.end \in Nat
      BY <3>3, <3>4, <3>5 DEF ChunksGood, Framings
    <3>7. f = Before(wire, j, size, t)
      BY <2>8, <3>4
    <3>8. /\ f \in Framings /\ f.framed = t.framed /\ f.end = t.end
          /\ Len(f.payload) = size + n
      <4>1. t \in Framings /\ j \in Nat /\ size \in Nat /\ j + 1 + size <= Len(wire)
        BY <2>2, <2>4, <3>2, <3>4
      <4>2. /\ f \in Framings /\ f.framed = t.framed /\ f.end = t.end
            /\ Len(f.payload) = size + Len(t.payload)
        BY <3>7, <4>1, ChunkBefore
      <4>. QED  BY <3>5, <4>2
    <3>9. i + 1 + (size + n) <= place + 1 + n
      BY <1>4, <2>2, <2>5
    <3>10. f.framed => i + 1 + Len(f.payload) <= f.end
      <4>1. PICK e : e = f.end
        OBVIOUS
      <4>2. f.framed => place + 1 + n <= e /\ e \in Nat
        BY <3>6, <3>8, <4>1
      <4>3. f.framed => i + 1 + (size + n) <= e
        BY <1>4, <2>4, <2>5, <3>5, <3>9, <4>2, SMTT(30)
      <4>. QED  BY <3>8, <4>1, <4>3
    <3>11. ChunksGood(f, i)
      BY <3>8, <3>10 DEF ChunksGood
    <3>. QED  BY <1>5, <3>11
  <2>9. CASE f = NotFramed
    BY <1>5, <1>6, <2>9
  <2>. QED  BY <2>6, <2>7, <2>8, <2>9
<1>. QED  BY <1>7, <1>8

\* So they have it at every place.
LEMMA ChunksShape ==
  ASSUME NEW wire \in Seq(Bytes)
  PROVE  \A i \in 1 .. Len(wire) + 1 : ChunksGood(Chunks(wire)[i], i)
<1>0. PICK top \in Nat : top = Len(wire) + 1
  BY LenProperties
<1>. DEFINE Bad == {i \in 1 .. top : ~ChunksGood(Chunks(wire)[i], i)}
<1>2. SUFFICES ASSUME Bad # {} PROVE FALSE
  BY <1>0
<1>3. PICK i \in Bad : \A k \in Bad : k <= i
  <2>1. Bad \in SUBSET (0 .. top)
    BY <1>0
  <2>. HIDE DEF Bad
  <2>. QED  BY <1>0, <1>2, <2>1, Greatest
<1>4. i \in 1 .. Len(wire) + 1 /\ ~ChunksGood(Chunks(wire)[i], i)
  BY <1>0, <1>3
<1>5. \A k \in i + 1 .. Len(wire) + 1 : k \in 1 .. top /\ ~(k <= i)
  <2>. HIDE DEF Bad
  <2>. QED  BY <1>0, <1>4
<1>6. \A k \in i + 1 .. Len(wire) + 1 : ChunksGood(Chunks(wire)[k], k)
  BY <1>3, <1>5
<1>. QED  BY <1>4, <1>6, ChunksShapeStep

-----------------------------------------------------------------------------
\* Pieces of the bytes.

\* A piece within the bytes.
LEMMA PieceType ==
  ASSUME NEW wire \in Seq(Bytes), NEW i \in Nat \ {0}, NEW n \in Int, n <= Len(wire)
  PROVE  /\ SubSeq(wire, i, n) \in Seq(Bytes)
         /\ Len(SubSeq(wire, i, n)) = IF i <= n THEN n - i + 1 ELSE 0
         /\ n < i => SubSeq(wire, i, n) = <<>>
<1>1. Len(wire) \in Nat
  BY LenProperties
<1>2. \A m \in i .. n : wire[m] \in Bytes
  BY <1>1, ElementOfSeq
<1>3. /\ SubSeq(wire, i, n) \in Seq(Bytes)
      /\ Len(SubSeq(wire, i, n)) = IF i <= n THEN n - i + 1 ELSE 0
  BY <1>2, SubSeqProperties
<1>4. n < i => SubSeq(wire, i, n) = <<>>
  BY SubSeqEmpty
<1>. QED  BY <1>3, <1>4

\* One byte more at its end, or moved from it to what was before.
LEMMA PieceAppend ==
  ASSUME NEW wire \in Seq(Bytes), NEW k \in 0 .. Len(wire) - 1, NEW i \in 1 .. k + 1
  PROVE  SubSeq(wire, i, k + 1) = Append(SubSeq(wire, i, k), wire[k + 1])
<1>1. Len(wire) \in Nat /\ k \in Nat /\ i \in Nat \ {0} /\ k <= Len(wire)
      /\ k + 1 \in 1 .. Len(wire) /\ i \in 1 .. Len(wire) /\ k + 1 \in i .. Len(wire) /\ (k + 1) - 1 = k
  BY LenProperties
<1>2. wire[k + 1] \in Bytes
  BY <1>1, ElementOfSeq
<1>3. SubSeq(wire, i, k) \in Seq(Bytes)
  BY <1>1, PieceType
<1>4. SubSeq(wire, i, k + 1) = SubSeq(wire, i, (k + 1) - 1) \o <<wire[k + 1]>>
  BY <1>1, SubSeqRecursiveSecond
<1>5. Append(SubSeq(wire, i, k), wire[k + 1]) = SubSeq(wire, i, k) \o <<wire[k + 1]>>
  BY <1>2, <1>3, AppendIsConcat
<1>. QED  BY <1>1, <1>4, <1>5

\* A byte goes from what is to come to what has come.
LEMMA PieceMove ==
  ASSUME NEW wire \in Seq(Bytes), NEW k \in 0 .. Len(wire) - 1, NEW n \in k + 1 .. Len(wire),
         NEW p \in Seq(Bytes)
  PROVE  Append(p, wire[k + 1]) \o SubSeq(wire, k + 2, n) = p \o SubSeq(wire, k + 1, n)
<1>1. Len(wire) \in Nat /\ k \in Nat /\ n \in Nat /\ n <= Len(wire) /\ k + 2 \in Nat \ {0}
      /\ k + 1 \in 1 .. Len(wire) /\ (k + 1) + 1 = k + 2
  BY LenProperties
<1>2. wire[k + 1] \in Bytes
  BY <1>1, ElementOfSeq
<1>3. PICK s : s = SubSeq(wire, k + 2, n)
  OBVIOUS
<1>4. s \in Seq(Bytes)
  BY <1>1, <1>3, PieceType
<1>5. SubSeq(wire, k + 1, n) = <<wire[k + 1]>> \o s
  <2>1. SubSeq(wire, k + 1, n) = <<wire[k + 1]>> \o SubSeq(wire, (k + 1) + 1, n)
    BY <1>1, SubSeqRecursiveFirst
  <2>. QED  BY <1>1, <1>3, <2>1
<1>6. PICK b : b = <<wire[k + 1]>>
  OBVIOUS
<1>7. b \in Seq(Bytes)
  BY <1>2, <1>6
<1>8. Append(p, wire[k + 1]) = p \o b
  BY <1>2, <1>6, AppendIsConcat
<1>9. (p \o b) \o s = p \o (b \o s)
  BY <1>4, <1>7, ConcatAssociative, SMTT(30)
<1>. QED  BY <1>3, <1>5, <1>6, <1>8, <1>9

-----------------------------------------------------------------------------
\* The decoder follows the reference.

\* A payload before a framing, and what is behind the trailers seen so far.
Prepend(p, f) == [f EXCEPT !.payload = p \o @]

Closing(p, count, start, f) == [f EXCEPT !.payload = p, !.trailers = count + @, !.trailer_start = start]

\* The line that began at i, of which the bytes up to k were seen.
LineSoFar(d, wire, i, k) ==
  /\ d.line_cr => i <= k /\ wire[k] = "r" /\ d.line = SubSeq(wire, i, k - 1)
                  /\ \A n \in i .. k - 1 : wire[n] \notin {"r", "n"}
  /\ ~d.line_cr => d.line = SubSeq(wire, i, k) /\ \A n \in i .. k : wire[n] \notin {"r", "n"}

\* After the data that ends at n the payload is q.
Pending(wire, n, q) ==
  IF Ended(wire, n) THEN Chunks(wire)[1] = Prepend(q, Chunks(wire)[n + 3])
  ELSE ~Chunks(wire)[1].framed

\* After k bytes with the payload p the decoder is where the reference is, by phases.
AtSize(d, wire, k, p) ==
  \E i \in 1 .. k + 1 :
    /\ LineSoFar(d, wire, i, k) /\ Len(d.line) <= MaxChunkLine
    /\ Chunks(wire)[1] = Prepend(p, Chunks(wire)[i])

AtData(d, wire, k, p) ==
  LET n == k + d.remaining IN Pending(wire, n, p \o SubSeq(wire, k + 1, n))

AtDataEnd(d, wire, k, p) ==
  /\ d.phase = "data_cr" => Pending(wire, k, p)
  /\ d.phase = "data_lf" => k > 0 /\ wire[k] = "r" /\ Pending(wire, k - 1, p)

AtTrailers(d, wire, k, p) ==
  \E i \in 1 .. k + 1 : \E start \in 1 .. i :
    /\ LineSoFar(d, wire, i, k) /\ d.trailer_bytes = k + 1 - start
    /\ Chunks(wire)[1] = Closing(p, d.trailer_count, start, Trailers(wire)[i])

AtEnd(d, wire, k, p) ==
  LET f == Chunks(wire)[1] IN
  /\ f.framed /\ f.payload = p /\ f.end = k
  /\ f.trailers = d.trailer_count /\ d.trailer_bytes = k + 1 - f.trailer_start

Follows(d, wire, k, p) ==
  /\ d.chunked /\ k \in 0 .. Len(wire) /\ p \in Seq(Bytes)
  /\ Len(p) = d.decoded /\ d.metadata_bytes + d.decoded = k
  /\ d.trailer_count <= MaxTrailerCount
  /\ d.phase \notin {"trailers", "done"} => d.trailer_count = 0 /\ d.trailer_bytes = 0
  /\ d.phase = "size_line" => AtSize(d, wire, k, p)
  /\ d.phase = "data" => AtData(d, wire, k, p) /\ d.line = <<>> /\ ~d.line_cr
  /\ d.phase \in {"data_cr", "data_lf"} => AtDataEnd(d, wire, k, p) /\ d.line = <<>> /\ ~d.line_cr
  /\ d.phase = "trailers" => AtTrailers(d, wire, k, p)
  /\ d.phase = "done" => AtEnd(d, wire, k, p)

\* A failed decoder has met bytes that are no body.
ChunkedAligned(d, wire, k, p) ==
  IF d.failure = NoError THEN Follows(d, wire, k, p) ELSE ~ChunkedFraming(wire).framed

\* What a payload before a framing leaves.
LEMMA PrependFields ==
  ASSUME NEW p \in Seq(Bytes), NEW f \in Framings, NEW g, g = Prepend(p, f)
  PROVE  /\ g \in Framings /\ g.framed = f.framed /\ g.end = f.end
         /\ g.trailers = f.trailers /\ g.trailer_start = f.trailer_start
         /\ Len(g.payload) = Len(p) + Len(f.payload) /\ Len(f.payload) \in Nat /\ Len(p) \in Nat
<1>1. f.payload \in Seq(Bytes)
  BY DEF Framings
<1>2. PICK s : s = p \o f.payload
  OBVIOUS
<1>3. s \in Seq(Bytes) /\ Len(s) = Len(p) + Len(f.payload)
  BY <1>1, <1>2, ConcatProperties
<1>4. g = [f EXCEPT !.payload = s]
  BY <1>2 DEF Prepend
<1>5. /\ g \in Framings /\ g.framed = f.framed /\ g.end = f.end
      /\ g.trailers = f.trailers /\ g.trailer_start = f.trailer_start /\ g.payload = s
  BY <1>3, <1>4 DEF Framings
<1>6. Len(f.payload) \in Nat /\ Len(p) \in Nat
  BY <1>1, LenProperties
<1>. QED  BY <1>3, <1>5, <1>6

\* Two payloads before it are one.
LEMMA PrependTwice ==
  ASSUME NEW p \in Seq(Bytes), NEW s \in Seq(Bytes), NEW f \in Framings
  PROVE  Prepend(p, Prepend(s, f)) = Prepend(p \o s, f) /\ Prepend(<<>>, f) = f
<1>1. f.payload \in Seq(Bytes)
  BY DEF Framings
<1>2. (p \o s) \o f.payload = p \o (s \o f.payload) /\ <<>> \o f.payload = f.payload
  <2>1. PICK u \in Seq(Bytes) : u = f.payload
    BY <1>1
  <2>2. (p \o s) \o u = p \o (s \o u)
    BY ConcatAssociative
  <2>3. <<>> \o u = u
    BY ConcatEmptySeq
  <2>. QED  BY <2>1, <2>2, <2>3
<1>3. PICK q, r : q = s \o f.payload /\ r = p \o q
  OBVIOUS
<1>4. Prepend(s, f) = [f EXCEPT !.payload = q] /\ [f EXCEPT !.payload = q].payload = q
  BY <1>3 DEF Prepend, Framings
<1>5. Prepend(p, Prepend(s, f)) = [f EXCEPT !.payload = r]
  <2>1. Prepend(p, Prepend(s, f)) = [[f EXCEPT !.payload = q] EXCEPT !.payload = r]
    BY <1>3, <1>4 DEF Prepend
  <2>2. [[f EXCEPT !.payload = q] EXCEPT !.payload = r] = [f EXCEPT !.payload = r]
    BY DEF Framings
  <2>. QED  BY <2>1, <2>2
<1>6. Prepend(p \o s, f) = [f EXCEPT !.payload = r]
  BY <1>2, <1>3 DEF Prepend
<1>7. Prepend(<<>>, f) = f
  <2>1. Prepend(<<>>, f) = [f EXCEPT !.payload = f.payload]
    BY <1>2 DEF Prepend
  <2>2. [f EXCEPT !.payload = f.payload] = f
    BY DEF Framings
  <2>. QED  BY <2>1, <2>2
<1>. QED  BY <1>5, <1>6, <1>7

\* What the trailers seen so far leave of a framing.
LEMMA ClosingFields ==
  ASSUME NEW p \in Seq(Bytes), NEW count \in Nat, NEW start \in Nat, NEW f \in Framings,
         NEW g, g = Closing(p, count, start, f)
  PROVE  /\ g \in Framings /\ g.framed = f.framed /\ g.end = f.end
         /\ g.trailers = count + f.trailers /\ g.trailer_start = start /\ g.payload = p
<1>1. PICK n \in Nat : n = count + f.trailers
  BY DEF Framings
<1>2. g = [f EXCEPT !.payload = p, !.trailers = n, !.trailer_start = start]
  BY <1>1 DEF Closing
<1>. QED  BY <1>1, <1>2 DEF Framings

\* One more trailer, and none yet.
LEMMA ClosingSteps ==
  ASSUME NEW p \in Seq(Bytes), NEW count \in Nat, NEW start \in Nat, NEW f \in Framings
  PROVE  /\ Closing(p, count, start, [f EXCEPT !.trailers = @ + 1]) = Closing(p, count + 1, start, f)
         /\ f.payload = <<>> => Prepend(p, [f EXCEPT !.trailer_start = start]) = Closing(p, 0, start, f)
<1>1. f.trailers \in Nat
  BY DEF Framings
<1>2. PICK m, n : m = f.trailers + 1 /\ n = count + m
  OBVIOUS
<1>3. n = (count + 1) + f.trailers /\ 0 + f.trailers = f.trailers
  BY <1>1, <1>2
<1>4. [f EXCEPT !.trailers = @ + 1] = [f EXCEPT !.trailers = m] /\ [f EXCEPT !.trailers = m].trailers = m
  BY <1>2 DEF Framings
<1>5. Closing(p, count, start, [f EXCEPT !.trailers = @ + 1]) =
        [[f EXCEPT !.trailers = m] EXCEPT !.payload = p, !.trailers = n, !.trailer_start = start]
  BY <1>2, <1>4 DEF Closing
<1>6. [[f EXCEPT !.trailers = m] EXCEPT !.payload = p, !.trailers = n, !.trailer_start = start] =
        [f EXCEPT !.payload = p, !.trailers = n, !.trailer_start = start]
  BY DEF Framings
<1>7. Closing(p, count + 1, start, f) = [f EXCEPT !.payload = p, !.trailers = n, !.trailer_start = start]
  BY <1>3 DEF Closing
<1>8. ASSUME f.payload = <<>>
      PROVE  Prepend(p, [f EXCEPT !.trailer_start = start]) = Closing(p, 0, start, f)
  <2>1. p \o <<>> = p
    BY ConcatEmptySeq
  <2>2. [f EXCEPT !.trailer_start = start].payload = <<>>
    BY <1>8 DEF Framings
  <2>3. Prepend(p, [f EXCEPT !.trailer_start = start]) = [[f EXCEPT !.trailer_start = start] EXCEPT !.payload = p]
    BY <2>1, <2>2 DEF Prepend
  <2>4. Closing(p, 0, start, f) = [f EXCEPT !.payload = p, !.trailers = f.trailers, !.trailer_start = start]
    BY <1>3 DEF Closing
  <2>5. [[f EXCEPT !.trailer_start = start] EXCEPT !.payload = p] =
          [f EXCEPT !.payload = p, !.trailers = f.trailers, !.trailer_start = start]
    BY DEF Framings
  <2>. QED  BY <2>3, <2>4, <2>5
<1>. QED  BY <1>5, <1>6, <1>7, <1>8

\* What has a framing has a line, which ends before it does.
LEMMA FramedLine ==
  ASSUME NEW wire \in Seq(Bytes), NEW i \in 1 .. Len(wire) + 1, NEW f, f = Chunks(wire)[i]
  PROVE  f.framed =>
         \E j \in LineEnds(wire, i) :
           /\ j + 1 + Len(f.payload) <= f.end
           /\ SizeLine(SubSeq(wire, i, j - 1))
           /\ ChunkSize(SubSeq(wire, i, j - 1)) <= Len(f.payload)
<1>0. i \in Nat \ {0} /\ Len(wire) \in Nat
  BY LenProperties
<1>10. HAVE f.framed
<1>1. f # NotFramed
  BY <1>10, NotFramedType
<1>2. PICK j \in LineEnds(wire, i) : TRUE
  BY <1>1, ChunksLine
<1>3. j \in Nat /\ i <= j /\ j + 1 <= Len(wire)
  BY <1>0, LineEnd
<1>4. PICK line \in Seq(Bytes) : line = SubSeq(wire, i, j - 1)
  BY <1>0, LineEnd
<1>5. PICK size \in Nat : size = ChunkSize(line)
  BY ChunkSizeType
<1>6. /\ ~SizeLine(line) => f = NotFramed
      /\ SizeLine(line) /\ size = 0 => f = LastChunk(wire, j)
      /\ SizeLine(line) /\ size # 0 /\ ~Ended(wire, j + 1 + size) => f = NotFramed
      /\ SizeLine(line) /\ size # 0 /\ Ended(wire, j + 1 + size) =>
           f = Before(wire, j, size, Chunks(wire)[j + 4 + size])
  BY <1>2, <1>4, <1>5, ChunksLine
<1>7. SizeLine(line)
  BY <1>1, <1>6
<1>8. CASE size = 0
  <2>1. f = LastChunk(wire, j)
    BY <1>6, <1>7, <1>8
  <2>2. PICK t : t = Trailers(wire)[j + 2]
    OBVIOUS
  <2>3. TrailersGood(t, j + 2)
    <3>1. j + 2 \in 1 .. Len(wire) + 1
      BY <1>0, <1>3
    <3>. QED  BY <2>2, <3>1, TrailersShape
  <2>4. t \in Framings /\ t.payload = <<>> /\ (t.framed => j + 3 <= t.end) /\ t.end \in Nat /\ j + 2 \in Nat
    BY <1>3, <2>3 DEF TrailersGood, Framings
  <2>5. f.payload = t.payload /\ f.framed = t.framed /\ f.end = t.end
    BY <2>1, <2>2, <2>4 DEF LastChunk, Framings
  <2>6. Len(f.payload) = 0
    BY <2>4, <2>5
  <2>7. j + 1 + 0 <= f.end
    BY <1>10, <1>3, <2>4, <2>5
  <2>. QED  BY <1>2, <1>4, <1>5, <1>7, <1>8, <2>6, <2>7
<1>9. CASE size # 0
  <2>1. Ended(wire, j + 1 + size) /\ f = Before(wire, j, size, Chunks(wire)[j + 4 + size])
    BY <1>1, <1>6, <1>7, <1>9
  <2>2. PICK place \in Nat : place = j + 4 + size
    BY <1>3
  <2>3. place \in 1 .. Len(wire) + 1 /\ j + 1 + size <= Len(wire)
    BY <1>0, <1>3, <2>1, <2>2 DEF Ended
  <2>4. PICK t : t = Chunks(wire)[place]
    OBVIOUS
  <2>5. t \in Framings /\ (t.framed => place + 1 + Len(t.payload) <= t.end)
    BY <2>3, <2>4, ChunksShape DEF ChunksGood
  <2>6. PICK n \in Nat : n = Len(t.payload)
    BY <2>5, LenProperties DEF Framings
  <2>7. f = Before(wire, j, size, t)
    BY <2>1, <2>2, <2>4
  <2>8. f.framed = t.framed /\ f.end = t.end /\ Len(f.payload) = size + Len(t.payload)
    <3>1. t \in Framings /\ j \in Nat /\ size \in Nat /\ j + 1 + size <= Len(wire)
      BY <1>3, <2>3, <2>5
    <3>. QED  BY <2>7, <3>1, ChunkBefore
  <2>9. PICK e \in Nat : e = f.end
    BY <2>5, <2>8 DEF Framings
  <2>10. place + 1 + n <= e
    BY <1>10, <2>5, <2>6, <2>8, <2>9
  <2>11. j + 1 + (size + n) <= e /\ size <= size + n
    BY <1>3, <2>2, <2>10
  <2>. QED  BY <1>2, <1>4, <1>5, <1>7, <2>6, <2>8, <2>9, <2>11
<1>. QED  BY <1>8, <1>9

\* Framed trailers have a line, whose end is not behind theirs.
LEMMA FramedTrailer ==
  ASSUME NEW wire \in Seq(Bytes), NEW i \in 1 .. Len(wire) + 1, NEW f, f = Trailers(wire)[i]
  PROVE  f.framed => \E j \in LineEnds(wire, i) : j + 1 <= f.end /\ (j # i => f.trailers >= 1)
<1>0. i \in Nat \ {0} /\ Len(wire) \in Nat
  BY LenProperties
<1>10. HAVE f.framed
<1>1. f # NotFramed
  BY <1>10, NotFramedType
<1>2. PICK j \in LineEnds(wire, i) : TRUE
  BY <1>1, TrailersLine
<1>3. j \in Nat /\ i <= j /\ j + 1 <= Len(wire)
  BY <1>0, LineEnd
<1>4. f = IF j = i THEN [NotFramed EXCEPT !.framed = TRUE, !.end = j + 1]
          ELSE IF valid_trailer(SubSeq(wire, i, j - 1))
          THEN [Trailers(wire)[j + 2] EXCEPT !.trailers = @ + 1]
          ELSE NotFramed
  BY <1>2, TrailersLine
<1>5. CASE j = i
  <2>1. f.end = j + 1
    BY <1>4, <1>5 DEF NotFramed
  <2>. QED  BY <1>2, <1>3, <1>5, <2>1
<1>6. CASE j # i
  <2>1. f = [Trailers(wire)[j + 2] EXCEPT !.trailers = @ + 1]
    BY <1>1, <1>4, <1>6
  <2>2. PICK t : t = Trailers(wire)[j + 2]
    OBVIOUS
  <2>3. TrailersGood(t, j + 2)
    <3>1. j + 2 \in 1 .. Len(wire) + 1
      BY <1>0, <1>3
    <3>. QED  BY <2>2, <3>1, TrailersShape
  <2>4. t \in Framings /\ (t.framed => j + 3 <= t.end) /\ t.end \in Nat /\ t.trailers \in Nat
    BY <1>3, <2>3 DEF TrailersGood, Framings
  <2>5. f.framed = t.framed /\ f.end = t.end /\ f.trailers = t.trailers + 1
    BY <2>1, <2>2, <2>4 DEF Framings
  <2>6. j + 1 <= f.end /\ f.trailers >= 1
    BY <1>10, <1>3, <2>4, <2>5
  <2>. QED  BY <1>2, <2>6
<1>. QED  BY <1>5, <1>6

\* Where a line that was seen so far may end.
LEMMA LineEndSoFar ==
  ASSUME NEW wire \in Seq(Bytes), NEW k \in 0 .. Len(wire), NEW i \in 1 .. k + 1,
         NEW d \in Decoders, LineSoFar(d, wire, i, k), NEW j \in LineEnds(wire, i)
  PROVE  (d.line_cr => j = k) /\ (~d.line_cr => j > k) /\ j >= k
<1>4. d.line_cr \in BOOLEAN
  BY DEF Decoders
<1>0. i \in Nat \ {0} /\ Len(wire) \in Nat /\ k \in Nat
  BY LenProperties
<1>1. /\ j \in Nat /\ i <= j /\ j + 1 <= Len(wire) /\ wire[j] = "r"
      /\ \A n \in i .. j - 1 : wire[n] \notin {"r", "n"}
  BY <1>0, LineEnd
<1>2. CASE d.line_cr
  <2>1. i <= k /\ wire[k] = "r" /\ \A n \in i .. k - 1 : wire[n] \notin {"r", "n"}
    BY <1>2 DEF LineSoFar
  <2>2. ~(j < k) /\ ~(k < j)
    BY <1>0, <1>1, <2>1
  <2>. QED  BY <1>0, <1>1, <1>2, <2>2
<1>3. CASE ~d.line_cr
  <2>1. \A n \in i .. k : wire[n] \notin {"r", "n"}
    BY <1>3 DEF LineSoFar
  <2>2. ~(j <= k)
    BY <1>0, <1>1, <2>1
  <2>. QED  BY <1>0, <1>1, <1>3, <2>2
<1>. QED  BY <1>2, <1>3, <1>4

\* What is not framed, or not within the limits.
LEMMA Unframed ==
  ASSUME NEW wire, ~Chunks(wire)[1].framed \/ ~WithinLimits(Chunks(wire)[1])
  PROVE  ~ChunkedFraming(wire).framed
<1>1. PICK f : f = Chunks(wire)[1]
  OBVIOUS
<1>2. ~WithinLimits(f)
  BY <1>1 DEF WithinLimits
<1>3. ChunkedFraming(wire) = NotFramed
  BY <1>1, <1>2 DEF ChunkedFraming
<1>. QED  BY <1>3, NotFramedType

\* The framing of all the bytes.
LEMMA WholeType ==
  ASSUME NEW wire \in Seq(Bytes)
  PROVE  Chunks(wire)[1] \in Framings
<1>1. 1 \in 1 .. Len(wire) + 1
  BY LenProperties
<1>. QED  BY <1>1, ChunksShape DEF ChunksGood

\* What follows the data of a chunk.
LEMMA PendingAhead ==
  ASSUME NEW wire \in Seq(Bytes), NEW n \in Nat, NEW q, Pending(wire, n, q),
         NEW f, f = Chunks(wire)[1]
  PROVE  f.framed => /\ Ended(wire, n)
                     /\ q \in Seq(Bytes) => /\ n + 4 + Len(f.payload) <= f.end + Len(q)
                                            /\ Len(q) <= Len(f.payload)
<1>1. f.framed => Ended(wire, n)
  BY DEF Pending
<1>2. ASSUME Ended(wire, n), q \in Seq(Bytes)
      PROVE  f.framed => n + 4 + Len(f.payload) <= f.end + Len(q) /\ Len(q) <= Len(f.payload)
  <2>1. f = Prepend(q, Chunks(wire)[n + 3])
    BY <1>2 DEF Pending
  <2>2. PICK g : g = Chunks(wire)[n + 3]
    OBVIOUS
  <2>3. n + 3 \in 1 .. Len(wire) + 1
    <3>1. Len(wire) \in Nat
      BY LenProperties
    <3>. QED  BY <1>2, <3>1 DEF Ended
  <2>4. g \in Framings /\ (g.framed => (n + 3) + 1 + Len(g.payload) <= g.end)
    BY <2>2, <2>3, ChunksShape DEF ChunksGood
  <2>5. f = Prepend(q, g) /\ q \in Seq(Bytes)
    BY <1>2, <2>1, <2>2
  <2>6. /\ f.framed = g.framed /\ f.end = g.end /\ Len(f.payload) = Len(q) + Len(g.payload)
        /\ Len(g.payload) \in Nat /\ Len(q) \in Nat
    BY <2>4, <2>5, PrependFields
  <2>7. PICK a \in Nat, b \in Nat, e \in Nat : a = Len(q) /\ b = Len(g.payload) /\ e = g.end
    BY <2>4, <2>6 DEF Framings
  <2>8. ((n + 3) + 1 + b <= e => n + 4 + (a + b) <= e + a) /\ a <= a + b
    OBVIOUS
  <2>. QED  BY <2>4, <2>6, <2>7, <2>8
<1>. QED  BY <1>1, <1>2

\* What the decoder has seen lies before the end of a body.
LEMMA SizeAhead ==
  ASSUME NEW wire \in Seq(Bytes), NEW k \in 0 .. Len(wire), NEW p \in Seq(Bytes), NEW d \in Decoders,
         AtSize(d, wire, k, p), NEW f, f = Chunks(wire)[1]
  PROVE  f.framed => k + 1 + Len(f.payload) <= f.end + Len(p) /\ Len(p) <= Len(f.payload)
<1>0. k \in Nat /\ Len(wire) \in Nat
  BY LenProperties
<1>1. PICK i \in 1 .. k + 1 : LineSoFar(d, wire, i, k) /\ f = Prepend(p, Chunks(wire)[i])
  BY DEF AtSize
<1>2. i \in 1 .. Len(wire) + 1
  BY <1>0
<1>3. PICK g : g = Chunks(wire)[i]
  OBVIOUS
<1>4. g \in Framings
  BY <1>2, <1>3, ChunksShape DEF ChunksGood
<1>5. f = Prepend(p, g)
  BY <1>1, <1>3
<1>6. /\ f.framed = g.framed /\ f.end = g.end /\ Len(f.payload) = Len(p) + Len(g.payload)
      /\ Len(g.payload) \in Nat /\ Len(p) \in Nat
  BY <1>4, <1>5, PrependFields
<1>7. PICK a \in Nat, b \in Nat, e \in Nat : a = Len(p) /\ b = Len(g.payload) /\ e = g.end
  BY <1>4, <1>6 DEF Framings
<1>8. g.framed => \E j \in LineEnds(wire, i) : j + 1 + b <= e
  BY <1>2, <1>3, <1>7, FramedLine
<1>9. \A j \in LineEnds(wire, i) : j >= k /\ j \in Nat
  <2>1. i \in Nat \ {0}
    BY <1>0
  <2>. QED  BY <1>1, <2>1, LineEndSoFar, LineEnd
<1>10. g.framed => k + 1 + (a + b) <= e + a
  <2>1. SUFFICES ASSUME NEW j \in LineEnds(wire, i), j + 1 + b <= e PROVE k + 1 + (a + b) <= e + a
    BY <1>8
  <2>2. j >= k /\ j \in Nat
    BY <1>9
  <2>. QED  BY <1>0, <2>1, <2>2
<1>11. a <= a + b
  BY <1>7
<1>. QED  BY <1>6, <1>7, <1>10, <1>11

\* In the trailers the end lies ahead.
LEMMA TrailersAhead ==
  ASSUME NEW wire \in Seq(Bytes), NEW k \in 0 .. Len(wire), NEW p \in Seq(Bytes), NEW d \in Decoders,
         AtTrailers(d, wire, k, p), NEW f, f = Chunks(wire)[1]
  PROVE  /\ f.payload = p /\ d.trailer_bytes = k + 1 - f.trailer_start
         /\ f.framed => k + 1 <= f.end
<1>0. k \in Nat /\ Len(wire) \in Nat
  BY LenProperties
<1>. PICK i \in 1 .. k + 1 : \E start \in 1 .. i :
       /\ LineSoFar(d, wire, i, k) /\ d.trailer_bytes = k + 1 - start
       /\ f = Closing(p, d.trailer_count, start, Trailers(wire)[i])
  BY DEF AtTrailers
<1>1. PICK start \in 1 .. i :
        /\ LineSoFar(d, wire, i, k) /\ d.trailer_bytes = k + 1 - start
        /\ f = Closing(p, d.trailer_count, start, Trailers(wire)[i])
  OBVIOUS
<1>2. i \in 1 .. Len(wire) + 1 /\ start \in Nat /\ d.trailer_count \in Nat
  BY <1>0 DEF Decoders
<1>3. PICK g : g = Trailers(wire)[i]
  OBVIOUS
<1>4. g \in Framings
  BY <1>2, <1>3, TrailersShape DEF TrailersGood
<1>5. f = Closing(p, d.trailer_count, start, g)
  BY <1>1, <1>3
<1>6. f.framed = g.framed /\ f.end = g.end /\ f.trailer_start = start /\ f.payload = p
  BY <1>2, <1>4, <1>5, ClosingFields
<1>7. PICK e \in Nat : e = g.end
  BY <1>4 DEF Framings
<1>8. g.framed => \E j \in LineEnds(wire, i) : j + 1 <= e
  BY <1>2, <1>3, <1>7, FramedTrailer
<1>9. \A j \in LineEnds(wire, i) : j >= k /\ j \in Nat
  <2>1. i \in Nat \ {0}
    BY <1>0
  <2>. QED  BY <1>1, <2>1, LineEndSoFar, LineEnd
<1>10. g.framed => k + 1 <= e
  <2>1. SUFFICES ASSUME NEW j \in LineEnds(wire, i), j + 1 <= e PROVE k + 1 <= e
    BY <1>8
  <2>2. j >= k /\ j \in Nat
    BY <1>9
  <2>. QED  BY <1>0, <2>1, <2>2
<1>. QED  BY <1>1, <1>6, <1>7, <1>10

\* Whatever the phase, the end of a framed body lies ahead of an open decoder.
LEMMA Ahead ==
  ASSUME NEW wire \in Seq(Bytes), NEW k, NEW p, NEW d, Sound(d), Follows(d, wire, k, p),
         NEW f, f = Chunks(wire)[1], d.phase # "done"
  PROVE  f.framed => /\ k + 1 <= f.end
                     /\ d.phase # "data" => k + 1 + Len(f.payload) <= f.end + Len(p)
<1>0. /\ Len(wire) \in Nat /\ k \in 0 .. Len(wire) /\ k \in Nat /\ p \in Seq(Bytes) /\ Len(p) \in Nat
  <2>1. k \in 0 .. Len(wire) /\ p \in Seq(Bytes)
    BY DEF Follows
  <2>. QED  BY <2>1, LenProperties
<1>1. d \in Decoders /\ d.remaining \in Nat
      /\ d.phase \in {"size_line", "data", "data_cr", "data_lf", "trailers", "done"}
  BY DEF Sound, Decoders
<1>2. PICK e \in Nat, n \in Nat : e = f.end /\ n = Len(f.payload)
  <2>1. f.end \in Nat /\ f.payload \in Seq(Bytes)
    BY WholeType DEF Framings
  <2>. QED  BY <2>1, LenProperties
<1>3. CASE d.phase = "size_line"
  <2>1. AtSize(d, wire, k, p)
    BY <1>3 DEF Follows
  <2>2. f.framed => k + 1 + Len(f.payload) <= f.end + Len(p) /\ Len(p) <= Len(f.payload)
    BY <1>0, <1>1, <2>1, SizeAhead
  <2>3. PICK a \in Nat : a = Len(p)
    BY <1>0
  <2>4. f.framed => k + 1 + n <= e + a /\ a <= n
    BY <1>2, <2>2, <2>3
  <2>5. f.framed => k + 1 <= e
    BY <1>0, <2>4
  <2>. QED  BY <1>2, <2>2, <2>5
<1>4. CASE d.phase = "data"
  <2>0. PICK m \in Nat : m = k + d.remaining
    BY <1>0, <1>1
  <2>1. PICK q : m = k + d.remaining /\ q = p \o SubSeq(wire, k + 1, m) /\ Pending(wire, m, q)
    <3>1. PICK q : q = p \o SubSeq(wire, k + 1, m)
      OBVIOUS
    <3>2. Pending(wire, m, q)
      BY <1>4, <2>0, <3>1 DEF Follows, AtData
    <3>. QED  BY <2>0, <3>1, <3>2
  <2>2. f.framed => Ended(wire, m)
    BY <2>1, PendingAhead
  <2>3. Ended(wire, m) => q \in Seq(Bytes) /\ Len(q) <= Len(p) + (m - k)
    <3>1. HAVE Ended(wire, m)
    <3>2. m <= Len(wire) /\ k + 1 \in Nat \ {0} /\ m \in Int /\ k <= m
      BY <1>0, <1>1, <2>1, <3>1 DEF Ended
    <3>3. PICK s : s = SubSeq(wire, k + 1, m)
      OBVIOUS
    <3>4. s \in Seq(Bytes) /\ Len(s) = IF k + 1 <= m THEN m - (k + 1) + 1 ELSE 0
      BY <3>2, <3>3, PieceType
    <3>5. Len(s) = m - k
      BY <1>0, <3>2, <3>4
    <3>6. q \in Seq(Bytes) /\ Len(q) = Len(p) + Len(s)
      BY <1>0, <2>1, <3>3, <3>4, ConcatProperties
    <3>. QED  BY <1>0, <3>2, <3>5, <3>6
  <2>4. f.framed => m + 4 + n <= e + Len(q)
    BY <1>2, <2>1, <2>2, <2>3, PendingAhead
  <2>5. f.framed => Len(q) <= n
    BY <1>2, <2>1, <2>2, <2>3, PendingAhead
  <2>6. f.framed => Len(q) \in Nat
    BY <2>2, <2>3, LenProperties
  <2>7. m >= k
    BY <1>0, <1>1, <2>1
  <2>8. PICK c : c = Len(q)
    OBVIOUS
  <2>9. f.framed => k + 1 <= e
    BY <1>0, <2>4, <2>5, <2>6, <2>7, <2>8
  <2>. QED  BY <1>2, <1>4, <2>9
<1>5. CASE d.phase \in {"data_cr", "data_lf"}
  <2>1. PICK m \in Nat : m + 1 >= k /\ Pending(wire, m, p)
    <3>1. d.phase = "data_cr" => Pending(wire, k, p)
      BY <1>5 DEF Follows, AtDataEnd
    <3>2. d.phase = "data_lf" => k > 0 /\ Pending(wire, k - 1, p)
      BY <1>5 DEF Follows, AtDataEnd
    <3>3. k + 1 >= k /\ (k > 0 => k - 1 \in Nat /\ (k - 1) + 1 >= k)
      BY <1>0
    <3>. QED  BY <1>0, <1>5, <3>1, <3>2, <3>3
  <2>2. f.framed => m + 4 + n <= e + Len(p)
    BY <1>0, <1>2, <2>1, PendingAhead
  <2>3. f.framed => Len(p) <= n
    BY <1>0, <1>2, <2>1, PendingAhead
  <2>4. PICK a \in Nat : a = Len(p)
    BY <1>0
  <2>5. f.framed => k + 1 <= e /\ k + 1 + n <= e + a
    BY <1>0, <2>1, <2>2, <2>3, <2>4
  <2>. QED  BY <1>2, <2>4, <2>5
<1>6. CASE d.phase = "trailers"
  <2>1. AtTrailers(d, wire, k, p)
    BY <1>6 DEF Follows
  <2>2. f.payload = p /\ (f.framed => k + 1 <= f.end)
    BY <1>0, <1>1, <2>1, TrailersAhead
  <2>3. f.framed => k + 1 + n <= e + n
    BY <1>0, <1>2, <2>2
  <2>. QED  BY <1>2, <2>2, <2>3
<1>. QED  BY <1>1, <1>3, <1>4, <1>5, <1>6

\* A line goes on, ends or breaks with its next byte.
LEMMA LineStart ==
  ASSUME NEW wire, NEW k \in Nat, NEW d \in Decoders, d.line = <<>>, ~d.line_cr
  PROVE  LineSoFar(d, wire, k + 1, k)
<1>1. SubSeq(wire, k + 1, k) = <<>>
  BY SubSeqEmpty
<1>2. k + 1 .. k = {}
  OBVIOUS
<1>. QED  BY <1>1, <1>2 DEF LineSoFar

\* How much of the line the decoder keeps.
LEMMA LineLength ==
  ASSUME NEW wire \in Seq(Bytes), NEW k \in 0 .. Len(wire), NEW i \in 1 .. k + 1,
         NEW d \in Decoders, LineSoFar(d, wire, i, k)
  PROVE  (~d.line_cr => Len(d.line) = k + 1 - i) /\ (d.line_cr => Len(d.line) = k - i /\ i <= k)
<1>0. Len(wire) \in Nat /\ k \in Nat /\ i \in Nat \ {0} /\ k \in Int /\ k - 1 \in Int /\ k <= Len(wire) /\ k - 1 <= Len(wire)
  BY LenProperties
<1>1. ~d.line_cr => d.line = SubSeq(wire, i, k)
  BY DEF LineSoFar
<1>2. d.line_cr => d.line = SubSeq(wire, i, k - 1) /\ i <= k
  BY DEF LineSoFar
<1>3. Len(SubSeq(wire, i, k)) = IF i <= k THEN k - i + 1 ELSE 0
  BY <1>0, PieceType
<1>4. Len(SubSeq(wire, i, k - 1)) = IF i <= k - 1 THEN (k - 1) - i + 1 ELSE 0
  BY <1>0, PieceType
<1>5. Len(SubSeq(wire, i, k)) = k + 1 - i
  BY <1>0, <1>3
<1>6. i <= k => Len(SubSeq(wire, i, k - 1)) = k - i
  BY <1>0, <1>4
<1>. QED  BY <1>1, <1>2, <1>5, <1>6

\* The CR.
LEMMA LineCr ==
  ASSUME NEW wire, NEW k \in Nat, NEW i \in 1 .. k + 1, NEW d \in Decoders, LineSoFar(d, wire, i, k),
         ~d.line_cr, wire[k + 1] = "r", NEW e \in Decoders, e.line_cr, e.line = d.line
  PROVE  LineSoFar(e, wire, i, k + 1)
<1>1. d.line = SubSeq(wire, i, k) /\ \A n \in i .. k : wire[n] \notin {"r", "n"}
  BY DEF LineSoFar
<1>2. (k + 1) - 1 = k /\ i <= k + 1
  OBVIOUS
<1>. QED  BY <1>1, <1>2 DEF LineSoFar

\* Another byte.
LEMMA LineMore ==
  ASSUME NEW wire \in Seq(Bytes), NEW k \in 0 .. Len(wire) - 1, NEW i \in 1 .. k + 1,
         NEW d \in Decoders, LineSoFar(d, wire, i, k), ~d.line_cr, wire[k + 1] \notin {"r", "n"},
         NEW e \in Decoders, ~e.line_cr, e.line = Append(d.line, wire[k + 1])
  PROVE  LineSoFar(e, wire, i, k + 1)
<1>0. k \in Nat
  BY LenProperties
<1>1. d.line = SubSeq(wire, i, k) /\ \A n \in i .. k : wire[n] \notin {"r", "n"}
  BY DEF LineSoFar
<1>2. e.line = SubSeq(wire, i, k + 1)
  BY <1>1, PieceAppend
<1>3. \A n \in i .. k + 1 : n \in i .. k \/ n = k + 1
  BY <1>0
<1>4. \A n \in i .. k + 1 : wire[n] \notin {"r", "n"}
  BY <1>1, <1>3
<1>. QED  BY <1>2, <1>4 DEF LineSoFar

\* A byte that breaks it: there is no such line.
LEMMA LineBroken ==
  ASSUME NEW wire \in Seq(Bytes), NEW k \in 0 .. Len(wire) - 1, NEW i \in 1 .. k + 1,
         NEW d \in Decoders, LineSoFar(d, wire, i, k),
         (d.line_cr /\ wire[k + 1] # "n") \/ (~d.line_cr /\ wire[k + 1] = "n")
  PROVE  LineEnds(wire, i) = {}
<1>0. k \in Nat /\ i \in Nat \ {0} /\ k \in 0 .. Len(wire)
  BY LenProperties
<1>1. SUFFICES ASSUME NEW j \in LineEnds(wire, i) PROVE FALSE
  OBVIOUS
<1>2. /\ j \in Nat /\ i <= j /\ wire[j] = "r" /\ wire[j + 1] = "n"
      /\ \A n \in i .. j - 1 : wire[n] \notin {"r", "n"}
  BY <1>0, LineEnd
<1>3. (d.line_cr => j = k) /\ (~d.line_cr => j > k)
  BY <1>0, LineEndSoFar
<1>4. CASE d.line_cr /\ wire[k + 1] # "n"
  BY <1>2, <1>3, <1>4
<1>5. CASE ~d.line_cr /\ wire[k + 1] = "n"
  <2>1. j > k
    BY <1>3, <1>5
  <2>2. j # k + 1
    BY <1>2, <1>5
  <2>3. k + 1 \in i .. j - 1
    BY <1>0, <1>2, <2>1, <2>2
  <2>. QED  BY <1>2, <1>5, <2>3
<1>. QED  BY <1>4, <1>5

\* The LF behind the CR: the line of the reference.
LEMMA LineDone ==
  ASSUME NEW wire \in Seq(Bytes), NEW k \in 0 .. Len(wire) - 1, NEW i \in 1 .. k + 1,
         NEW d \in Decoders, LineSoFar(d, wire, i, k), d.line_cr, wire[k + 1] = "n"
  PROVE  k \in LineEnds(wire, i) /\ d.line = SubSeq(wire, i, k - 1) /\ i <= k
<1>0. k \in Nat /\ Len(wire) \in Nat
  BY LenProperties
<1>1. /\ i <= k /\ wire[k] = "r" /\ d.line = SubSeq(wire, i, k - 1)
      /\ \A n \in i .. k - 1 : wire[n] \notin {"r", "n"}
  BY DEF LineSoFar
<1>2. k \in i .. Len(wire) - 1
  BY <1>0, <1>1
<1>. QED  BY <1>1, <1>2 DEF LineEnds

-----------------------------------------------------------------------------
\* The bytes.

\* What the decoder has counted after k bytes.
Counted(d, wire, k, p) ==
  /\ d.chunked /\ k \in 0 .. Len(wire) /\ p \in Seq(Bytes)
  /\ Len(p) = d.decoded /\ d.metadata_bytes + d.decoded = k
  /\ d.trailer_count <= MaxTrailerCount
  /\ d.phase \notin {"trailers", "done"} => d.trailer_count = 0 /\ d.trailer_bytes = 0

\* A byte of the data of a chunk.
LEMMA CopyStep ==
  ASSUME NEW wire \in Seq(Bytes), NEW k \in 0 .. Len(wire) - 1, NEW p, NEW d, Sound(d),
         d.failure = NoError, d.phase = "data", Follows(d, wire, k, p)
  PROVE  Follows(CopyByte(d), wire, k + 1, Append(p, wire[k + 1])) /\ CopyByte(d).failure = NoError
<1>1. /\ Len(wire) \in Nat /\ k \in Nat /\ k + 1 \in 0 .. Len(wire) /\ k + 1 \in 1 .. Len(wire)
  BY LenProperties
<1>2. /\ p \in Seq(Bytes) /\ Len(p) = d.decoded /\ d.metadata_bytes + d.decoded = k
      /\ d.trailer_count <= MaxTrailerCount /\ d.trailer_count = 0 /\ d.trailer_bytes = 0
      /\ AtData(d, wire, k, p) /\ d.line = <<>>
  BY DEF Follows
<1>3. d.chunked /\ ~d.line_cr
  BY DEF Follows
<1>4. d \in Decoders /\ d.remaining \in Nat /\ d.remaining > 0 /\ d.decoded \in Nat /\ d.metadata_bytes \in Nat
  BY DEF Sound, Decoders
<1>5. PICK r \in Nat, m \in Nat : r = d.remaining - 1 /\ m = d.decoded + 1
  BY <1>4
<1>6. PICK phase \in {"data", "data_cr"} : phase = IF d.remaining > 1 THEN "data" ELSE "data_cr"
  OBVIOUS
<1>7. PICK e : e = CopyByte(d)
  OBVIOUS
<1>8. e = [d EXCEPT !.remaining = r, !.decoded = m, !.phase = phase]
  BY <1>3, <1>5, <1>6, <1>7 DEF CopyByte
<1>9. /\ e \in Decoders /\ e.remaining = r /\ e.decoded = m /\ e.phase = phase /\ e.line = <<>>
      /\ e.failure = NoError /\ e.metadata_bytes = d.metadata_bytes
      /\ e.trailer_bytes = 0 /\ e.trailer_count = 0
  BY <1>2, <1>4, <1>8 DEF Decoders
<1>10. e.chunked /\ ~e.line_cr
  BY <1>3, <1>4, <1>8 DEF Decoders
<1>11. PICK b \in Bytes : b = wire[k + 1]
  BY <1>1, ElementOfSeq
<1>12. PICK s : s = Append(p, b)
  OBVIOUS
<1>13. s \in Seq(Bytes) /\ Len(s) = Len(p) + 1
  BY <1>2, <1>12, AppendProperties
<1>14. PICK n \in Nat : n = k + d.remaining
  BY <1>1, <1>4
<1>15. n = (k + 1) + r /\ k + 1 <= n
  BY <1>1, <1>4, <1>5, <1>14
<1>16. Pending(wire, n, s \o SubSeq(wire, k + 2, n))
  <2>1. Pending(wire, n, p \o SubSeq(wire, k + 1, n))
    BY <1>2, <1>14 DEF AtData
  <2>2. CASE n <= Len(wire)
    <3>1. n \in k + 1 .. Len(wire)
      BY <1>1, <1>15, <2>2
    <3>2. s \o SubSeq(wire, k + 2, n) = p \o SubSeq(wire, k + 1, n)
      BY <1>2, <1>11, <1>12, <3>1, PieceMove
    <3>. QED  BY <2>1, <3>2
  <2>3. CASE ~(n <= Len(wire))
    <3>1. ~Ended(wire, n)
      BY <1>1, <2>3 DEF Ended
    <3>. QED  BY <2>1, <3>1 DEF Pending
  <2>. QED  BY <2>2, <2>3
<1>17. phase = "data" => AtData(e, wire, k + 1, s)
  <2>1. (k + 1) + 1 = k + 2
    BY <1>1
  <2>. QED  BY <1>9, <1>15, <1>16, <2>1 DEF AtData
<1>18. phase = "data_cr" => Pending(wire, k + 1, s)
  <2>1. HAVE phase = "data_cr"
  <2>2. n = k + 1
    BY <1>1, <1>4, <1>6, <1>14, <2>1
  <2>3. SubSeq(wire, k + 2, n) = <<>>
    <3>1. k + 2 \in Int /\ n \in Int /\ n < k + 2
      BY <1>1, <2>2
    <3>. QED  BY <3>1, SubSeqEmpty
  <2>4. s \o <<>> = s
    BY <1>13, ConcatEmptySeq
  <2>. QED  BY <1>16, <2>2, <2>3, <2>4
<1>19. Len(s) = e.decoded /\ e.metadata_bytes + e.decoded = k + 1
  <2>1. PICK a \in Nat, c \in Nat : a = d.decoded /\ c = d.metadata_bytes
    BY <1>4
  <2>2. m = a + 1 /\ c + a = k
    BY <1>2, <1>5, <2>1
  <2>3. c + m = k + 1
    BY <1>1, <2>1, <2>2
  <2>4. Len(s) = a + 1
    BY <1>2, <1>13, <2>1
  <2>. QED  BY <1>9, <2>1, <2>2, <2>3, <2>4
<1>20. e.trailer_count <= MaxTrailerCount
  BY <1>2, <1>9
<1>21. phase = "data_cr" => AtDataEnd(e, wire, k + 1, s)
  BY <1>9, <1>18 DEF AtDataEnd
<1>22. Follows(e, wire, k + 1, s)
  BY <1>1, <1>6, <1>9, <1>10, <1>13, <1>17, <1>19, <1>20, <1>21 DEF Follows
<1>. QED  BY <1>7, <1>9, <1>11, <1>12, <1>22

\* A failed decoder, of bytes that are not framed.
LEMMA Failed ==
  ASSUME NEW wire, NEW k, NEW p, NEW e, e.failure # NoError,
         ~Chunks(wire)[1].framed \/ ~WithinLimits(Chunks(wire)[1])
  PROVE  ChunkedAligned(e, wire, k, p)
BY Unframed DEF ChunkedAligned

\* A failure is one.
LEMMA FailFails ==
  ASSUME NEW d \in Decoders, NEW code \in Codes \ {NoError}
  PROVE  Fail(d, code) \in Decoders /\ Fail(d, code).failure # NoError
BY DEF Fail, Decoders

\* The line end after the data of a chunk.
LEMMA DataEndStep ==
  ASSUME NEW wire \in Seq(Bytes), NEW k \in 0 .. Len(wire) - 1, NEW p, NEW d \in Decoders,
         d.failure = NoError, d.phase \in {"data_cr", "data_lf"}, Counted(d, wire, k + 1, p),
         AtDataEnd(d, wire, k, p), d.line = <<>>, ~d.line_cr
  PROVE  ChunkedAligned(DataEnd(d, wire[k + 1]), wire, k + 1, p)
<1>1. /\ Len(wire) \in Nat /\ k \in Nat /\ k + 1 \in Nat /\ k + 1 \in 0 .. Len(wire)
  BY LenProperties
<1>2. /\ p \in Seq(Bytes) /\ Len(p) = d.decoded /\ d.metadata_bytes + d.decoded = k + 1
      /\ d.trailer_count <= MaxTrailerCount /\ d.trailer_count = 0 /\ d.trailer_bytes = 0 /\ k + 1 \in 0 .. Len(wire)
  BY DEF Counted
<1>3. d.chunked
  BY DEF Counted
<1>4. PICK byte : byte = wire[k + 1]
  OBVIOUS
<1>5. PICK e : e = DataEnd(d, byte)
  OBVIOUS
<1>6. CASE d.phase = "data_cr" /\ byte = "r"
  <2>1. e = [d EXCEPT !.phase = "data_lf"]
    BY <1>5, <1>6 DEF DataEnd
  <2>2. /\ e \in Decoders /\ e.phase = "data_lf" /\ e.decoded = d.decoded /\ e.line = <<>>
        /\ e.failure = NoError /\ e.metadata_bytes = d.metadata_bytes
        /\ e.trailer_bytes = 0 /\ e.trailer_count = 0
    BY <1>2, <2>1 DEF Decoders
  <2>3. e.chunked /\ ~e.line_cr
    BY <1>3, <2>1 DEF Decoders
  <2>4. Pending(wire, k, p) /\ (k + 1) - 1 = k /\ k + 1 > 0
    BY <1>1, <1>6 DEF AtDataEnd
  <2>5. AtDataEnd(e, wire, k + 1, p)
    BY <1>4, <1>6, <2>2, <2>4 DEF AtDataEnd
  <2>6. Follows(e, wire, k + 1, p)
    BY <1>2, <2>2, <2>3, <2>5 DEF Follows
  <2>. QED  BY <1>4, <1>5, <2>2, <2>6 DEF ChunkedAligned
<1>7. CASE d.phase = "data_lf" /\ byte = "n"
  <2>1. e = [d EXCEPT !.phase = "size_line"]
    BY <1>5, <1>7 DEF DataEnd
  <2>2. /\ e \in Decoders /\ e.phase = "size_line" /\ e.decoded = d.decoded /\ e.line = <<>>
        /\ e.failure = NoError /\ e.metadata_bytes = d.metadata_bytes
        /\ e.trailer_bytes = 0 /\ e.trailer_count = 0
    BY <1>2, <2>1 DEF Decoders
  <2>3. e.chunked /\ ~e.line_cr
    BY <1>3, <2>1 DEF Decoders
  <2>4. k > 0 /\ wire[k] = "r" /\ Pending(wire, k - 1, p)
    BY <1>7 DEF AtDataEnd
  <2>5. PICK n \in Nat : n = k - 1
    BY <1>1, <2>4
  <2>6. n + 1 = k /\ n + 2 = k + 1 /\ n + 3 = k + 2 /\ n + 2 <= Len(wire)
    BY <1>1, <2>5
  <2>7. Ended(wire, n)
    BY <1>4, <1>7, <2>4, <2>6 DEF Ended
  <2>8. Chunks(wire)[1] = Prepend(p, Chunks(wire)[k + 2])
    BY <2>4, <2>5, <2>6, <2>7 DEF Pending
  <2>9. LineSoFar(e, wire, (k + 1) + 1, k + 1)
    BY <1>1, <2>2, <2>3, LineStart
  <2>10. (k + 1) + 1 = k + 2 /\ k + 2 \in 1 .. (k + 1) + 1 /\ Len(e.line) <= MaxChunkLine
    <3>1. Len(e.line) = 0 /\ MaxChunkLine \in Nat
      BY <2>2, DecoderAssumptions
    <3>. QED  BY <1>1, <3>1
  <2>11. AtSize(e, wire, k + 1, p)
    BY <2>8, <2>9, <2>10 DEF AtSize
  <2>12. Follows(e, wire, k + 1, p)
    BY <1>2, <2>2, <2>3, <2>11 DEF Follows
  <2>. QED  BY <1>4, <1>5, <2>2, <2>12 DEF ChunkedAligned
<1>8. CASE ~(d.phase = "data_cr" /\ byte = "r") /\ ~(d.phase = "data_lf" /\ byte = "n")
  <2>1. e = Fail(d, "malformed_chunk")
    BY <1>5, <1>8 DEF DataEnd
  <2>2. PICK n \in Nat : ~Ended(wire, n) /\ Pending(wire, n, p)
    <3>1. CASE d.phase = "data_cr"
      <4>1. Pending(wire, k, p) /\ ~Ended(wire, k)
        BY <1>4, <1>8, <3>1 DEF AtDataEnd, Ended
      <4>. QED  BY <1>1, <4>1
    <3>2. CASE d.phase = "data_lf"
      <4>1. k > 0 /\ Pending(wire, k - 1, p)
        BY <3>2 DEF AtDataEnd
      <4>2. k - 1 \in Nat /\ (k - 1) + 2 = k + 1
        BY <1>1, <4>1
      <4>3. ~Ended(wire, k - 1)
        BY <1>4, <1>8, <3>2, <4>2 DEF Ended
      <4>. QED  BY <4>1, <4>2, <4>3
    <3>. QED  BY <3>1, <3>2
  <2>3. ~Chunks(wire)[1].framed
    BY <2>2 DEF Pending
  <2>4. "malformed_chunk" \in Codes \ {NoError}
    BY DEF Codes, NoError
  <2>. QED  BY <1>4, <1>5, <2>1, <2>3, <2>4, Failed, FailFails
<1>. QED  BY <1>6, <1>7, <1>8

\* The last chunk begins the trailers.
LEMMA ClosingStart ==
  ASSUME NEW p \in Seq(Bytes), NEW start \in Nat, NEW t \in Framings, t.payload = <<>>,
         NEW g, g = [t EXCEPT !.trailer_start = start]
  PROVE  Prepend(p, g) = Closing(p, 0, start, t)
BY ClosingSteps

\* A chunk that ends goes before those behind it.
LEMMA ChunkAgain ==
  ASSUME NEW wire \in Seq(Bytes), NEW i \in 1 .. Len(wire) + 1, NEW k \in LineEnds(wire, i)
  PROVE  LET line == SubSeq(wire, i, k - 1)
             size == ChunkSize(line) IN
         SizeLine(line) /\ size # 0 /\ Ended(wire, k + 1 + size) =>
           Chunks(wire)[i] = Before(wire, k, size, Chunks(wire)[k + 4 + size])
<1>1. i \in Nat \ {0}
  BY LenProperties
<1>2. PICK line \in Seq(Bytes) : line = SubSeq(wire, i, k - 1)
  BY <1>1, LineEnd
<1>3. PICK size \in Nat : size = ChunkSize(line)
  BY ChunkSizeType
<1>4. SizeLine(line) /\ size # 0 /\ Ended(wire, k + 1 + size) =>
           Chunks(wire)[i] = Before(wire, k, size, Chunks(wire)[k + 4 + size])
  BY <1>2, <1>3, ChunksLine, Zenon
<1>. QED  BY <1>2, <1>3, <1>4, Zenon

\* A size line ends.
LEMMA SizeDone ==
  ASSUME NEW wire \in Seq(Bytes), NEW k \in 0 .. Len(wire) - 1, NEW p, NEW d \in Decoders,
         d.failure = NoError, d.phase = "size_line", Counted(d, wire, k + 1, p),
         NEW i \in 1 .. k + 1, LineSoFar(d, wire, i, k), Len(d.line) <= MaxChunkLine,
         Chunks(wire)[1] = Prepend(p, Chunks(wire)[i]), d.line_cr, wire[k + 1] = "n"
  PROVE  ChunkedAligned(finish_line(d), wire, k + 1, p)
<1>1. /\ Len(wire) \in Nat /\ k \in Nat /\ k + 1 \in Nat /\ k + 1 \in 0 .. Len(wire)
      /\ i \in Nat \ {0} /\ i \in 1 .. Len(wire) + 1
  BY LenProperties
<1>2. /\ p \in Seq(Bytes) /\ Len(p) = d.decoded /\ d.metadata_bytes + d.decoded = k + 1
      /\ d.trailer_count <= MaxTrailerCount /\ d.trailer_count = 0 /\ d.trailer_bytes = 0 /\ k + 1 \in 0 .. Len(wire)
  BY DEF Counted
<1>3. d.chunked
  BY DEF Counted
<1>4. PICK line \in Seq(Bytes) : line = d.line
  BY DEF Decoders
<1>5. PICK size \in Nat : size = ChunkSize(line)
  BY ChunkSizeType
<1>6. k \in LineEnds(wire, i) /\ line = SubSeq(wire, i, k - 1)
  BY <1>4, LineDone
<1>7. PICK g : g = Chunks(wire)[i]
  OBVIOUS
<1>8. /\ ~SizeLine(line) => g = NotFramed
      /\ SizeLine(line) /\ size = 0 => g = LastChunk(wire, k)
      /\ SizeLine(line) /\ size # 0 /\ ~Ended(wire, k + 1 + size) => g = NotFramed
  <2>1. i \in 1 .. Len(wire) + 1
    BY <1>1
  <2>2. ~SizeLine(line) => g = NotFramed
    BY <1>5, <1>6, <1>7, <2>1, ChunksLine
  <2>3. SizeLine(line) /\ size = 0 => g = LastChunk(wire, k)
    BY <1>5, <1>6, <1>7, <2>1, ChunksLine
  <2>4. SizeLine(line) /\ size # 0 /\ ~Ended(wire, k + 1 + size) => g = NotFramed
    BY <1>5, <1>6, <1>7, <2>1, ChunksLine, ZenonT(60)
  <2>. QED  BY <2>2, <2>3, <2>4
<1>9. PICK f : f = Chunks(wire)[1]
  OBVIOUS
<1>10. f = Prepend(p, g)
  BY <1>7, <1>9
<1>11. g \in Framings
  BY <1>1, <1>7, ChunksShape DEF ChunksGood
<1>12. /\ f.framed = g.framed /\ Len(f.payload) = Len(p) + Len(g.payload) /\ Len(g.payload) \in Nat /\ Len(p) \in Nat
  <2>1. p \in Seq(Bytes)
    BY <1>2
  <2>. QED  BY <1>10, <1>11, <2>1, PrependFields
<1>13. PICK digits \in Nat, V \in BOOLEAN :
         digits = Digits(line) /\ V = valid_extensions(SubSeq(line, Digits(line) + 1, Len(line)))
  <2>1. Digits(line) \in 0 .. Len(line)
    BY DigitsType
  <2>2. valid_extensions(SubSeq(line, Digits(line) + 1, Len(line))) \in BOOLEAN
    BY DEF valid_extensions
  <2>. QED  BY <2>1, <2>2
<1>14. SizeLine(line) <=> digits # 0 /\ V
  BY <1>4, <1>13 DEF SizeLine
<1>15. PICK e0 : e0 = FinishSize(d)
  OBVIOUS
<1>16. PICK e : e = finish_line(d)
  OBVIOUS
<1>17. e = [e0 EXCEPT !.line = <<>>, !.line_cr = FALSE]
  BY <1>15, <1>16 DEF finish_line
<1>18. e0 = CASE digits = 0 \/ ~V -> Fail(d, "malformed_chunk")
              [] digits > 0 /\ V /\ size > MaxBodyBytes - d.decoded -> Fail(d, "body_too_large")
              [] OTHER -> [d EXCEPT !.remaining = size, !.phase = IF size = 0 THEN "trailers" ELSE "data"]
  BY <1>4, <1>5, <1>13, <1>15 DEF FinishSize
<1>19. /\ <<>> \in Seq(Bytes) /\ Len(<<>>) = 0 /\ MaxBodyBytes \in Nat /\ MaxChunkLine \in Nat
       /\ d.decoded \in Nat /\ {"malformed_chunk", "body_too_large"} \subseteq Codes \ {NoError}
  BY DecoderAssumptions DEF Decoders, Codes, NoError
<1>20. ASSUME e0 \in Decoders, e0.failure # NoError, ~f.framed \/ ~WithinLimits(f)
       PROVE  ChunkedAligned(e, wire, k + 1, p)
  <2>1. e.failure = e0.failure
    BY <1>17, <1>19, <1>20 DEF Decoders
  <2>. QED  BY <1>9, <1>20, <2>1, Failed
<1>21. CASE digits = 0 \/ ~V
  <2>1. e0 = Fail(d, "malformed_chunk")
    BY <1>13, <1>18, <1>21
  <2>2. e0 \in Decoders /\ e0.failure # NoError
    BY <1>19, <2>1, FailFails
  <2>3. ~f.framed
    BY <1>8, <1>12, <1>14, <1>21, NotFramedType
  <2>. QED  BY <1>16, <1>20, <2>2, <2>3
<1>22. CASE digits > 0 /\ V /\ size > MaxBodyBytes - d.decoded
  <2>1. e0 = Fail(d, "body_too_large")
    BY <1>13, <1>18, <1>22
  <2>2. e0 \in Decoders /\ e0.failure # NoError
    BY <1>19, <2>1, FailFails
  <2>3. g.framed => size <= Len(g.payload)
    <3>1. HAVE g.framed
    <3>2. PICK j \in LineEnds(wire, i) : ChunkSize(SubSeq(wire, i, j - 1)) <= Len(g.payload)
      BY <1>1, <1>7, <3>1, FramedLine
    <3>3. j = k
      BY <1>1, <1>6, <3>2, LineEnd
    <3>. QED  BY <1>5, <1>6, <3>2, <3>3
  <2>4. f.framed => ~WithinLimits(f)
    <3>1. HAVE f.framed
    <3>2. size <= Len(g.payload)
      BY <1>12, <2>3, <3>1
    <3>3. PICK a \in Nat, b \in Nat : a = Len(p) /\ b = Len(g.payload)
      BY <1>12
    <3>4. size > MaxBodyBytes - a /\ size <= b
      BY <1>2, <1>22, <3>2, <3>3
    <3>5. ~(a + b <= MaxBodyBytes)
      BY <1>5, <1>19, <3>3, <3>4
    <3>6. Len(f.payload) = a + b
      BY <1>12, <3>3
    <3>. QED  BY <3>5, <3>6 DEF WithinLimits
  <2>5. ~f.framed \/ ~WithinLimits(f)
    BY <2>4
  <2>. QED  BY <1>16, <1>20, <2>2, <2>5
<1>23. ASSUME digits > 0, V, ~(size > MaxBodyBytes - d.decoded)
       PROVE  /\ e \in Decoders /\ e.remaining = size /\ e.phase = (IF size = 0 THEN "trailers" ELSE "data")
              /\ e.decoded = d.decoded /\ e.line = <<>> /\ e.failure = NoError
              /\ e.metadata_bytes = d.metadata_bytes /\ e.trailer_bytes = 0 /\ e.trailer_count = 0
              /\ e.chunked /\ ~e.line_cr
  <2>1. e0 = [d EXCEPT !.remaining = size, !.phase = IF size = 0 THEN "trailers" ELSE "data"]
    BY <1>13, <1>18, <1>23
  <2>2. PICK phase \in {"trailers", "data"} : phase = IF size = 0 THEN "trailers" ELSE "data"
    OBVIOUS
  <2>3. /\ e0 \in Decoders /\ e0.remaining = size /\ e0.phase = phase /\ e0.decoded = d.decoded
        /\ e0.failure = NoError /\ e0.metadata_bytes = d.metadata_bytes
        /\ e0.trailer_bytes = 0 /\ e0.trailer_count = 0
    BY <1>2, <2>1, <2>2 DEF Decoders
  <2>4. e0.chunked
    BY <1>3, <2>1 DEF Decoders
  <2>5. /\ e \in Decoders /\ e.remaining = size /\ e.phase = phase /\ e.decoded = d.decoded /\ e.line = <<>>
        /\ e.failure = NoError /\ e.metadata_bytes = d.metadata_bytes
        /\ e.trailer_bytes = 0 /\ e.trailer_count = 0
    BY <1>17, <1>19, <2>3 DEF Decoders
  <2>6. e.chunked /\ ~e.line_cr
    BY <1>17, <2>3, <2>4 DEF Decoders
  <2>. QED  BY <2>2, <2>5, <2>6
<1>24. CASE digits > 0 /\ V /\ ~(size > MaxBodyBytes - d.decoded) /\ size = 0
  <2>1. /\ e \in Decoders /\ e.phase = "trailers" /\ e.decoded = d.decoded /\ e.line = <<>>
        /\ e.failure = NoError /\ e.metadata_bytes = d.metadata_bytes
        /\ e.trailer_bytes = 0 /\ e.trailer_count = 0
    BY <1>23, <1>24
  <2>2. e.chunked /\ ~e.line_cr
    BY <1>23, <1>24
  <2>3. g = LastChunk(wire, k)
    BY <1>8, <1>14, <1>24
  <2>4. PICK start \in Nat : start = k + 2
    BY <1>1
  <2>5. PICK t : t = Trailers(wire)[start]
    OBVIOUS
  <2>6. t \in Framings /\ t.payload = <<>>
    <3>1. start \in 1 .. Len(wire) + 1
      BY <1>1, <2>4
    <3>. QED  BY <2>5, <3>1, TrailersShape DEF TrailersGood
  <2>7. g = [t EXCEPT !.trailer_start = start]
    BY <2>3, <2>4, <2>5 DEF LastChunk
  <2>8. f = Closing(p, 0, start, t)
    <3>1. p \in Seq(Bytes)
      BY <1>2
    <3>2. Prepend(p, g) = Closing(p, 0, start, t)
      BY <2>6, <2>7, <3>1, ClosingStart
    <3>. QED  BY <1>10, <3>2
  <2>9. LineSoFar(e, wire, (k + 1) + 1, k + 1)
    BY <1>1, <2>1, <2>2, LineStart
  <2>10. (k + 1) + 1 = start /\ start \in 1 .. (k + 1) + 1 /\ start \in 1 .. start /\ (k + 1) + 1 - start = 0
    BY <1>1, <2>4
  <2>11. AtTrailers(e, wire, k + 1, p)
    BY <1>9, <2>1, <2>5, <2>8, <2>9, <2>10 DEF AtTrailers
  <2>12. Follows(e, wire, k + 1, p)
    BY <1>2, <2>1, <2>2, <2>11 DEF Follows
  <2>. QED  BY <1>16, <2>1, <2>12 DEF ChunkedAligned
<1>25. CASE digits > 0 /\ V /\ ~(size > MaxBodyBytes - d.decoded) /\ size # 0
  <2>1. /\ e \in Decoders /\ e.phase = "data" /\ e.remaining = size /\ e.decoded = d.decoded /\ e.line = <<>>
        /\ e.failure = NoError /\ e.metadata_bytes = d.metadata_bytes
        /\ e.trailer_bytes = 0 /\ e.trailer_count = 0
    BY <1>23, <1>25
  <2>2. e.chunked /\ ~e.line_cr
    BY <1>23, <1>25
  <2>3. PICK n \in Nat : n = (k + 1) + size
    BY <1>1
  <2>4. n = k + 1 + size /\ n + 3 = k + 4 + size /\ (k + 1) + 1 = k + 2 /\ n <= Len(wire) => SubSeq(wire, k + 2, n) \in Seq(Bytes)
    <3>1. k + 2 \in Nat \ {0} /\ n \in Int
      BY <1>1, <2>3
    <3>. QED  BY <3>1, PieceType
  <2>5. n = k + 1 + size /\ n + 3 = k + 4 + size /\ (k + 1) + 1 = k + 2
    BY <1>1, <2>3
  <2>6. Pending(wire, n, p \o SubSeq(wire, k + 2, n))
    <3>1. CASE Ended(wire, n)
      <4>1. PICK t : t = Chunks(wire)[n + 3]
        OBVIOUS
      <4>2. n + 3 \in 1 .. Len(wire) + 1 /\ n <= Len(wire)
        BY <1>1, <2>3, <3>1 DEF Ended
      <4>3. t \in Framings
        BY <4>1, <4>2, ChunksShape DEF ChunksGood
      <4>4. PICK s : s = SubSeq(wire, k + 2, n)
        OBVIOUS
      <4>5. s \in Seq(Bytes)
        BY <2>4, <2>5, <4>2, <4>4
      <4>6. SizeLine(line)
        BY <1>14, <1>25
      <4>7. g = Prepend(s, t)
        <5>1. i \in 1 .. Len(wire) + 1 /\ k \in Nat /\ size # 0 /\ n = k + 1 + size
          BY <1>1, <1>25, <2>5
        <5>2. Ended(wire, k + 1 + size) /\ t = Chunks(wire)[k + 4 + size] /\ s = SubSeq(wire, k + 2, k + 1 + size)
          BY <2>5, <3>1, <4>1, <4>4, Zenon
        <5>3. Chunks(wire)[i] = Before(wire, k, size, Chunks(wire)[k + 4 + size])
          <6>1. PICK whole : whole = SubSeq(wire, i, k - 1)
            OBVIOUS
          <6>2. SizeLine(whole) /\ ChunkSize(whole) # 0 /\ Ended(wire, k + 1 + ChunkSize(whole)) =>
                Chunks(wire)[i] = Before(wire, k, ChunkSize(whole), Chunks(wire)[k + 4 + ChunkSize(whole)])
            BY <1>6, <5>1, <6>1, ChunkAgain, Zenon
          <6>3. whole = line /\ ChunkSize(whole) = size
            BY <1>5, <1>6, <6>1, Zenon
          <6>. QED  BY <4>6, <5>1, <5>2, <6>2, <6>3, Zenon
        <5>. QED  BY <1>7, <5>2, <5>3 DEF Before, Prepend
      <4>8. f = Prepend(p \o s, t)
        BY <1>2, <1>10, <4>3, <4>5, <4>7, PrependTwice
      <4>. QED  BY <1>9, <3>1, <4>1, <4>4, <4>8 DEF Pending
    <3>2. CASE ~Ended(wire, n)
      <4>1. g = NotFramed
        BY <1>8, <1>14, <1>25, <2>5, <3>2
      <4>2. ~f.framed
        BY <1>12, <4>1, NotFramedType
      <4>. QED  BY <1>9, <3>2, <4>2 DEF Pending
    <3>. QED  BY <3>1, <3>2
  <2>7. AtData(e, wire, k + 1, p)
    BY <2>1, <2>3, <2>5, <2>6 DEF AtData
  <2>8. Follows(e, wire, k + 1, p)
    BY <1>2, <2>1, <2>2, <2>7 DEF Follows
  <2>. QED  BY <1>16, <2>1, <2>8 DEF ChunkedAligned
<1>26. \/ digits = 0 \/ ~V \/ (digits > 0 /\ V)
  BY <1>13
<1>. QED  BY <1>21, <1>22, <1>24, <1>25, <1>26

\* A byte of a line, by cases.
LEMMA LineCases ==
  ASSUME NEW d \in Decoders, NEW byte, NEW limit, limit = IF d.phase = "trailers" THEN MaxTrailerBytes ELSE MaxChunkLine
  PROVE  /\ d.line_cr /\ byte = "n" => LineByte(d, byte) = finish_line(d)
         /\ d.line_cr /\ byte # "n" => LineByte(d, byte) = Fail(d, "malformed_chunk")
         /\ ~d.line_cr /\ byte = "r" => LineByte(d, byte) = [d EXCEPT !.line_cr = TRUE]
         /\ ~d.line_cr /\ byte = "n" => LineByte(d, byte) = Fail(d, "malformed_chunk")
         /\ ~d.line_cr /\ byte \notin {"r", "n"} /\ Len(d.line) >= limit =>
              LineByte(d, byte) = Fail(d, "chunk_metadata_too_large")
         /\ ~d.line_cr /\ byte \notin {"r", "n"} /\ ~(Len(d.line) >= limit) =>
              LineByte(d, byte) = [d EXCEPT !.line = Append(d.line, byte)]
<1>0. d.line_cr \in BOOLEAN
  BY DEF Decoders
<1>1. LineByte(d, byte) =
        CASE d.line_cr -> IF byte = "n" THEN finish_line(d) ELSE Fail(d, "malformed_chunk")
          [] ~d.line_cr /\ byte = "r" -> [d EXCEPT !.line_cr = TRUE]
          [] ~d.line_cr /\ byte = "n" -> Fail(d, "malformed_chunk")
          [] OTHER -> IF Len(d.line) >= limit THEN Fail(d, "chunk_metadata_too_large")
                      ELSE [d EXCEPT !.line = Append(d.line, byte)]
  BY DEF LineByte
<1>2. CASE d.line_cr
  BY <1>0, <1>1, <1>2
<1>3. CASE ~d.line_cr /\ byte = "r"
  BY <1>0, <1>1, <1>3
<1>4. CASE ~d.line_cr /\ byte = "n"
  BY <1>0, <1>1, <1>4
<1>5. CASE ~d.line_cr /\ byte \notin {"r", "n"}
  BY <1>0, <1>1, <1>5
<1>. QED  BY <1>0, <1>2, <1>3, <1>4, <1>5

\* The line goes on.
LEMMA LineGoesOn ==
  ASSUME NEW wire \in Seq(Bytes), NEW k \in 0 .. Len(wire) - 1, NEW i \in 1 .. k + 1,
         NEW d \in Decoders, LineSoFar(d, wire, i, k), ~d.line_cr, NEW e,
         \/ wire[k + 1] = "r" /\ e = [d EXCEPT !.line_cr = TRUE]
         \/ wire[k + 1] \notin {"r", "n"} /\ e = [d EXCEPT !.line = Append(d.line, wire[k + 1])]
  PROVE  /\ LineSoFar(e, wire, i, k + 1)
         /\ e \in Decoders /\ e.phase = d.phase /\ e.decoded = d.decoded /\ e.failure = d.failure
         /\ e.metadata_bytes = d.metadata_bytes /\ e.trailer_bytes = d.trailer_bytes
         /\ e.trailer_count = d.trailer_count /\ e.chunked = d.chunked
         /\ e.line = d.line \/ Len(e.line) = Len(d.line) + 1
<1>1. PICK byte \in Bytes : byte = wire[k + 1]
  <2>1. k + 1 \in 1 .. Len(wire)
    BY LenProperties
  <2>. QED  BY <2>1, ElementOfSeq
<1>2. k \in Nat
  BY LenProperties
<1>3. CASE byte = "r" /\ e = [d EXCEPT !.line_cr = TRUE]
  <2>1. /\ e \in Decoders /\ e.phase = d.phase /\ e.decoded = d.decoded /\ e.failure = d.failure
        /\ e.metadata_bytes = d.metadata_bytes /\ e.trailer_bytes = d.trailer_bytes
        /\ e.trailer_count = d.trailer_count /\ e.line = d.line
    BY <1>3 DEF Decoders
  <2>2. e.chunked = d.chunked /\ e.line_cr
    BY <1>3 DEF Decoders
  <2>3. LineSoFar(e, wire, i, k + 1)
    BY <1>1, <1>2, <1>3, <2>1, <2>2, LineCr
  <2>. QED  BY <2>1, <2>2, <2>3
<1>4. CASE byte \notin {"r", "n"} /\ e = [d EXCEPT !.line = Append(d.line, byte)]
  <2>1. d.line \in Seq(Bytes)
    BY DEF Decoders
  <2>2. PICK s : s = Append(d.line, byte)
    OBVIOUS
  <2>3. s \in Seq(Bytes) /\ Len(s) = Len(d.line) + 1
    BY <2>1, <2>2, AppendProperties
  <2>4. e = [d EXCEPT !.line = s]
    BY <1>4, <2>2
  <2>5. /\ e \in Decoders /\ e.phase = d.phase /\ e.decoded = d.decoded /\ e.failure = d.failure
        /\ e.metadata_bytes = d.metadata_bytes /\ e.trailer_bytes = d.trailer_bytes
        /\ e.trailer_count = d.trailer_count /\ e.line = s
    BY <2>3, <2>4 DEF Decoders
  <2>6. e.chunked = d.chunked /\ ~e.line_cr
    BY <2>3, <2>4 DEF Decoders
  <2>7. LineSoFar(e, wire, i, k + 1)
    <3>1. wire[k + 1] \notin {"r", "n"} /\ e.line = Append(d.line, wire[k + 1])
      BY <1>1, <1>4, <2>2, <2>5
    <3>. QED  BY <2>5, <2>6, <3>1, LineMore
  <2>. QED  BY <2>3, <2>5, <2>6, <2>7
<1>. QED  BY <1>1, <1>3, <1>4

\* A byte of a size line.
LEMMA SizeLineStep ==
  ASSUME NEW wire \in Seq(Bytes), NEW k \in 0 .. Len(wire) - 1, NEW p, NEW d \in Decoders,
         d.failure = NoError, d.phase = "size_line", Counted(d, wire, k + 1, p),
         NEW i \in 1 .. k + 1, LineSoFar(d, wire, i, k), Len(d.line) <= MaxChunkLine,
         Chunks(wire)[1] = Prepend(p, Chunks(wire)[i])
  PROVE  ChunkedAligned(LineByte(d, wire[k + 1]), wire, k + 1, p)
<1>1. /\ Len(wire) \in Nat /\ k \in Nat /\ k + 1 \in Nat /\ k + 1 \in 0 .. Len(wire) /\ k \in 0 .. Len(wire)
      /\ i \in Nat \ {0} /\ i \in 1 .. Len(wire) + 1 /\ i \in 1 .. (k + 1) + 1 /\ MaxChunkLine \in Nat
  BY LenProperties, DecoderAssumptions
<1>2. /\ p \in Seq(Bytes) /\ Len(p) = d.decoded /\ d.metadata_bytes + d.decoded = k + 1
      /\ d.trailer_count <= MaxTrailerCount /\ d.trailer_count = 0 /\ d.trailer_bytes = 0 /\ k + 1 \in 0 .. Len(wire)
  BY DEF Counted
<1>3. d.chunked
  BY DEF Counted
<1>4. PICK byte : byte = wire[k + 1]
  OBVIOUS
<1>5. PICK e : e = LineByte(d, byte)
  OBVIOUS
<1>6. /\ d.line_cr /\ byte = "n" => e = finish_line(d)
      /\ d.line_cr /\ byte # "n" => e = Fail(d, "malformed_chunk")
      /\ ~d.line_cr /\ byte = "r" => e = [d EXCEPT !.line_cr = TRUE]
      /\ ~d.line_cr /\ byte = "n" => e = Fail(d, "malformed_chunk")
      /\ ~d.line_cr /\ byte \notin {"r", "n"} /\ Len(d.line) >= MaxChunkLine =>
           e = Fail(d, "chunk_metadata_too_large")
      /\ ~d.line_cr /\ byte \notin {"r", "n"} /\ ~(Len(d.line) >= MaxChunkLine) =>
           e = [d EXCEPT !.line = Append(d.line, byte)]
  <2>1. MaxChunkLine = IF d.phase = "trailers" THEN MaxTrailerBytes ELSE MaxChunkLine
    OBVIOUS
  <2>. QED  BY <1>5, <2>1, LineCases
<1>7. \A code \in {"malformed_chunk", "chunk_metadata_too_large"} : Fail(d, code).failure # NoError
  BY FailFails DEF Codes, NoError
<1>8. PICK f, g : f = Chunks(wire)[1] /\ g = Chunks(wire)[i]
  OBVIOUS
<1>9. f.framed = g.framed
  <2>1. g \in Framings
    BY <1>1, <1>8, ChunksShape DEF ChunksGood
  <2>2. f = Prepend(p, g) /\ p \in Seq(Bytes)
    BY <1>2, <1>8
  <2>. QED  BY <2>1, <2>2, PrependFields
<1>10. CASE d.line_cr /\ byte = "n"
  BY <1>4, <1>5, <1>6, <1>10, SizeDone
<1>11. CASE (d.line_cr /\ byte # "n") \/ (~d.line_cr /\ byte = "n")
  <2>1. LineEnds(wire, i) = {}
    BY <1>4, <1>11, LineBroken
  <2>2. g = NotFramed
    BY <1>1, <1>8, <2>1, ChunksLine
  <2>3. ~f.framed
    BY <1>9, <2>2, NotFramedType
  <2>4. e.failure # NoError
    BY <1>6, <1>7, <1>11
  <2>. QED  BY <1>4, <1>5, <1>8, <2>3, <2>4, Failed
<1>12. CASE ~d.line_cr /\ byte \notin {"r", "n"} /\ Len(d.line) >= MaxChunkLine
  <2>1. e.failure # NoError
    BY <1>6, <1>7, <1>12
  <2>2. ~g.framed
    <3>1. SUFFICES ASSUME g.framed PROVE FALSE
      OBVIOUS
    <3>2. PICK j \in LineEnds(wire, i) : SizeLine(SubSeq(wire, i, j - 1))
      BY <1>1, <1>8, <3>1, FramedLine
    <3>3. Len(SubSeq(wire, i, j - 1)) <= MaxChunkLine
      BY <3>2 DEF SizeLine
    <3>4. j \in Nat /\ wire[j] = "r" /\ Len(SubSeq(wire, i, j - 1)) = j - i
      BY <1>1, <3>2, LineEnd
    <3>5. j > k /\ Len(d.line) = k + 1 - i
      BY <1>1, <1>12, <3>2, LineEndSoFar, LineLength
    <3>6. j # k + 1
      BY <1>4, <1>12, <3>4
    <3>7. j - i <= MaxChunkLine /\ k + 1 - i >= MaxChunkLine
      BY <1>12, <3>3, <3>4, <3>5
    <3>8. j > k /\ j \in Nat
      BY <3>4, <3>5
    <3>. QED  BY <1>1, <3>6, <3>7, <3>8
  <2>. QED  BY <1>4, <1>5, <1>8, <1>9, <2>1, <2>2, Failed
<1>13. CASE ~d.line_cr /\ (byte = "r" \/ (byte \notin {"r", "n"} /\ ~(Len(d.line) >= MaxChunkLine)))
  <2>1. /\ LineSoFar(e, wire, i, k + 1)
        /\ e \in Decoders /\ e.phase = d.phase /\ e.decoded = d.decoded /\ e.failure = d.failure
        /\ e.metadata_bytes = d.metadata_bytes /\ e.trailer_bytes = d.trailer_bytes
        /\ e.trailer_count = d.trailer_count /\ e.chunked = d.chunked
        /\ e.line = d.line \/ Len(e.line) = Len(d.line) + 1
    <3>1. \/ wire[k + 1] = "r" /\ e = [d EXCEPT !.line_cr = TRUE]
          \/ wire[k + 1] \notin {"r", "n"} /\ e = [d EXCEPT !.line = Append(d.line, wire[k + 1])]
      BY <1>4, <1>6, <1>13
    <3>. QED  BY <1>13, <3>1, LineGoesOn
  <2>2. Len(e.line) <= MaxChunkLine
    <3>1. CASE byte = "r"
      <4>1. e.line = d.line
        BY <1>6, <1>13, <3>1 DEF Decoders
      <4>. QED  BY <4>1
    <3>2. CASE ~(Len(d.line) >= MaxChunkLine)
      <4>1. Len(d.line) \in Nat
        BY LenProperties DEF Decoders
      <4>. QED  BY <1>1, <2>1, <3>2, <4>1
    <3>. QED  BY <1>13, <3>1, <3>2
  <2>3. AtSize(e, wire, k + 1, p)
    BY <1>1, <2>1, <2>2 DEF AtSize
  <2>4. Follows(e, wire, k + 1, p)
    BY <1>2, <1>3, <2>1, <2>3 DEF Follows
  <2>. QED  BY <1>4, <1>5, <2>1, <2>4 DEF ChunkedAligned
<1>14. d.line_cr \in BOOLEAN
  BY DEF Decoders
<1>. QED  BY <1>10, <1>11, <1>12, <1>13, <1>14

\* A trailer is counted before those behind it.
LEMMA ClosingMore ==
  ASSUME NEW p \in Seq(Bytes), NEW count \in Nat, NEW start \in Nat, NEW t \in Framings,
         NEW g, g = [t EXCEPT !.trailers = @ + 1]
  PROVE  Closing(p, count, start, g) = Closing(p, count + 1, start, t)
BY ClosingSteps

\* A line of the trailers ends.
LEMMA TrailerDone ==
  ASSUME NEW wire \in Seq(Bytes), NEW k \in 0 .. Len(wire) - 1, NEW p, NEW d \in Decoders,
         d.failure = NoError, d.phase = "trailers", Counted(d, wire, k + 1, p),
         NEW i \in 1 .. k + 1, NEW start \in 1 .. i, LineSoFar(d, wire, i, k), d.trailer_bytes = k + 2 - start,
         Chunks(wire)[1] = Closing(p, d.trailer_count, start, Trailers(wire)[i]), d.line_cr, wire[k + 1] = "n"
  PROVE  ChunkedAligned(finish_line(d), wire, k + 1, p)
<1>1. /\ Len(wire) \in Nat /\ k \in Nat /\ k + 1 \in Nat /\ k + 1 \in 0 .. Len(wire) /\ k \in 0 .. Len(wire)
      /\ i \in Nat \ {0} /\ i \in 1 .. Len(wire) + 1 /\ start \in Nat
  BY LenProperties
<1>2. /\ p \in Seq(Bytes) /\ Len(p) = d.decoded /\ d.metadata_bytes + d.decoded = k + 1
      /\ d.trailer_count <= MaxTrailerCount /\ k + 1 \in 0 .. Len(wire)
  BY DEF Counted
<1>3. d.chunked
  BY DEF Counted
<1>4. PICK count \in Nat : count = d.trailer_count
  BY DEF Decoders
<1>5. d.line \in Seq(Bytes) /\ MaxTrailerCount \in Nat /\ p \in Seq(Bytes)
  BY <1>2, DecoderAssumptions DEF Decoders
<1>6. k \in LineEnds(wire, i) /\ d.line = SubSeq(wire, i, k - 1) /\ i <= k
  BY LineDone
<1>7. Len(d.line) = k - i
  BY <1>1, LineLength
<1>8. d.line = <<>> <=> k = i
  <2>1. d.line = <<>> => Len(d.line) = 0
    OBVIOUS
  <2>2. Len(d.line) = 0 => d.line = <<>>
    BY <1>5, EmptySeq
  <2>3. k - i = 0 <=> k = i
    BY <1>1
  <2>. QED  BY <1>7, <2>1, <2>2, <2>3
<1>9. PICK f, g : f = Chunks(wire)[1] /\ g = Trailers(wire)[i]
  OBVIOUS
<1>10. g = IF k = i THEN [NotFramed EXCEPT !.framed = TRUE, !.end = k + 1]
           ELSE IF valid_trailer(SubSeq(wire, i, k - 1))
           THEN [Trailers(wire)[k + 2] EXCEPT !.trailers = @ + 1]
           ELSE NotFramed
  BY <1>1, <1>6, <1>9, TrailersLine
<1>11. g \in Framings
  BY <1>1, <1>9, TrailersShape DEF TrailersGood
<1>12. f = Closing(p, count, start, g)
  BY <1>4, <1>9
<1>13. /\ f.framed = g.framed /\ f.end = g.end /\ f.trailers = count + g.trailers
       /\ f.trailer_start = start /\ f.payload = p
  BY <1>1, <1>5, <1>11, <1>12, ClosingFields
<1>14. PICK e0 : e0 = FinishTrailer(d)
  OBVIOUS
<1>15. PICK e : e = finish_line(d)
  OBVIOUS
<1>16. e = [e0 EXCEPT !.line = <<>>, !.line_cr = FALSE]
  BY <1>14, <1>15 DEF finish_line
<1>17. <<>> \in Seq(Bytes)
  OBVIOUS
<1>18. \A code \in {"trailers_too_large", "invalid_trailer"} : code \in Codes \ {NoError}
  BY DEF Codes, NoError
<1>19. ASSUME e0 \in Decoders
       PROVE  /\ e \in Decoders /\ e.phase = e0.phase /\ e.decoded = e0.decoded /\ e.line = <<>>
              /\ e.failure = e0.failure /\ e.metadata_bytes = e0.metadata_bytes
              /\ e.trailer_bytes = e0.trailer_bytes /\ e.trailer_count = e0.trailer_count
              /\ e.chunked = e0.chunked /\ ~e.line_cr
  <2>1. /\ e \in Decoders /\ e.phase = e0.phase /\ e.decoded = e0.decoded /\ e.line = <<>>
        /\ e.failure = e0.failure /\ e.metadata_bytes = e0.metadata_bytes
        /\ e.trailer_bytes = e0.trailer_bytes /\ e.trailer_count = e0.trailer_count
    BY <1>16, <1>17, <1>19 DEF Decoders
  <2>2. e.chunked = e0.chunked /\ ~e.line_cr
    BY <1>16, <1>19 DEF Decoders
  <2>. QED  BY <2>1, <2>2
<1>20. CASE d.line = <<>>
  <2>1. e0 = [d EXCEPT !.phase = "done"]
    BY <1>14, <1>20 DEF FinishTrailer
  <2>2. /\ e0 \in Decoders /\ e0.phase = "done" /\ e0.decoded = d.decoded /\ e0.failure = NoError
        /\ e0.metadata_bytes = d.metadata_bytes /\ e0.trailer_bytes = d.trailer_bytes
        /\ e0.trailer_count = d.trailer_count
    BY <2>1 DEF Decoders
  <2>3. e0.chunked
    BY <1>3, <2>1 DEF Decoders
  <2>4. /\ e \in Decoders /\ e.phase = "done" /\ e.decoded = d.decoded /\ e.failure = NoError
        /\ e.metadata_bytes = d.metadata_bytes /\ e.trailer_bytes = d.trailer_bytes
        /\ e.trailer_count = d.trailer_count
    BY <1>19, <2>2
  <2>5. e.chunked
    BY <1>19, <2>2, <2>3
  <2>6. g = [NotFramed EXCEPT !.framed = TRUE, !.end = k + 1]
    BY <1>8, <1>10, <1>20
  <2>7. g.framed /\ g.end = k + 1 /\ g.trailers = 0
    BY <2>6 DEF NotFramed
  <2>8. f.framed /\ f.payload = p /\ f.end = k + 1
    BY <1>13, <2>7
  <2>9. f.trailers = count /\ d.trailer_bytes = (k + 1) + 1 - f.trailer_start
    <3>1. count + 0 = count /\ k + 2 - start = (k + 1) + 1 - start
      BY <1>1, <1>4
    <3>. QED  BY <1>13, <2>7, <3>1
  <2>10. AtEnd(e, wire, k + 1, p)
    BY <1>4, <1>9, <2>4, <2>8, <2>9 DEF AtEnd
  <2>11. Follows(e, wire, k + 1, p)
    BY <1>2, <2>4, <2>5, <2>10 DEF Follows
  <2>. QED  BY <1>15, <2>4, <2>11 DEF ChunkedAligned
<1>21. CASE d.line # <<>> /\ count >= MaxTrailerCount
  <2>1. e0 = Fail(d, "trailers_too_large")
    BY <1>4, <1>14, <1>21 DEF FinishTrailer
  <2>2. e0 \in Decoders /\ e0.failure # NoError
    BY <1>18, <2>1, FailFails
  <2>3. e.failure # NoError
    BY <1>19, <2>2
  <2>4. f.framed => ~WithinLimits(f)
    <3>1. HAVE f.framed
    <3>2. PICK j \in LineEnds(wire, i) : j # i => g.trailers >= 1
      BY <1>1, <1>9, <1>13, <3>1, FramedTrailer
    <3>3. j = k
      BY <1>1, <1>6, <3>2, LineEnd
    <3>4. g.trailers >= 1 /\ g.trailers \in Nat
      BY <1>8, <1>11, <1>21, <3>2, <3>3 DEF Framings
    <3>5. PICK a \in Nat : a = g.trailers
      BY <3>4
    <3>6. ~(count + a <= MaxTrailerCount)
      BY <1>4, <1>5, <1>21, <3>4, <3>5
    <3>7. f.trailers = count + a
      BY <1>13, <3>5
    <3>. QED  BY <3>6, <3>7 DEF WithinLimits
  <2>5. ~f.framed \/ ~WithinLimits(f)
    BY <2>4
  <2>. QED  BY <1>9, <1>15, <2>3, <2>5, Failed
<1>22. CASE d.line # <<>> /\ ~(count >= MaxTrailerCount)
  <2>1. PICK c : c = [d EXCEPT !.trailer_count = count + 1]
    OBVIOUS
  <2>2. e0 = IF valid_trailer(d.line) THEN c ELSE Fail(c, "invalid_trailer")
    BY <1>4, <1>14, <1>22, <2>1 DEF FinishTrailer
  <2>3. /\ c \in Decoders /\ c.phase = "trailers" /\ c.decoded = d.decoded /\ c.failure = NoError
        /\ c.metadata_bytes = d.metadata_bytes /\ c.trailer_bytes = d.trailer_bytes
        /\ c.trailer_count = count + 1
    <3>1. PICK more \in Nat : more = count + 1
      OBVIOUS
    <3>2. c = [d EXCEPT !.trailer_count = more]
      BY <2>1, <3>1
    <3>3. /\ c \in Decoders /\ c.phase = "trailers" /\ c.decoded = d.decoded /\ c.failure = NoError
          /\ c.metadata_bytes = d.metadata_bytes /\ c.trailer_bytes = d.trailer_bytes
          /\ c.trailer_count = more
      BY <3>2 DEF Decoders
    <3>. QED  BY <3>1, <3>3
  <2>4. c.chunked
    BY <1>3, <2>1 DEF Decoders
  <2>5. CASE ~valid_trailer(d.line)
    <3>1. e0 = Fail(c, "invalid_trailer")
      BY <2>2, <2>5
    <3>2. e0 \in Decoders /\ e0.failure # NoError
      BY <1>18, <2>3, <3>1, FailFails
    <3>3. e.failure # NoError
      BY <1>19, <3>2
    <3>4. g = NotFramed
      BY <1>6, <1>8, <1>10, <1>22, <2>5
    <3>5. ~f.framed
      BY <1>13, <3>4, NotFramedType
    <3>. QED  BY <1>9, <1>15, <3>3, <3>5, Failed
  <2>6. CASE valid_trailer(d.line)
    <3>1. e0 = c
      BY <2>2, <2>6
    <3>2. /\ e \in Decoders /\ e.phase = "trailers" /\ e.decoded = d.decoded /\ e.failure = NoError
          /\ e.metadata_bytes = d.metadata_bytes /\ e.trailer_bytes = d.trailer_bytes
          /\ e.trailer_count = count + 1 /\ e.line = <<>>
      BY <1>19, <2>3, <3>1
    <3>3. e.chunked /\ ~e.line_cr
      BY <1>19, <2>3, <2>4, <3>1
    <3>4. PICK t : t = Trailers(wire)[k + 2]
      OBVIOUS
    <3>5. t \in Framings
      <4>1. k + 2 \in 1 .. Len(wire) + 1
        BY <1>1
      <4>. QED  BY <3>4, <4>1, TrailersShape DEF TrailersGood
    <3>6. g = [t EXCEPT !.trailers = @ + 1]
      BY <1>6, <1>8, <1>10, <1>22, <2>6, <3>4
    <3>7. f = Closing(p, count + 1, start, t)
      <4>1. Closing(p, count, start, g) = Closing(p, count + 1, start, t)
        BY <1>1, <1>5, <3>5, <3>6, ClosingMore
      <4>. QED  BY <1>12, <4>1
    <3>8. LineSoFar(e, wire, (k + 1) + 1, k + 1)
      BY <1>1, <3>2, <3>3, LineStart
    <3>9. /\ (k + 1) + 1 = k + 2 /\ k + 2 \in 1 .. (k + 1) + 1 /\ start \in 1 .. k + 2
          /\ k + 2 - start = (k + 1) + 1 - start
      BY <1>1
    <3>10. e.trailer_bytes = (k + 1) + 1 - start
      BY <3>2, <3>9
    <3>11. AtTrailers(e, wire, k + 1, p)
      BY <1>9, <3>2, <3>4, <3>7, <3>8, <3>9, <3>10 DEF AtTrailers
    <3>12. e.trailer_count <= MaxTrailerCount
      BY <1>4, <1>5, <1>22, <3>2
    <3>13. Follows(e, wire, k + 1, p)
      BY <1>2, <3>2, <3>3, <3>11, <3>12 DEF Follows
    <3>. QED  BY <1>15, <3>2, <3>13 DEF ChunkedAligned
  <2>. QED  BY <2>5, <2>6
<1>. QED  BY <1>20, <1>21, <1>22

\* A byte of a line of the trailers.
LEMMA TrailerLineStep ==
  ASSUME NEW wire \in Seq(Bytes), NEW k \in 0 .. Len(wire) - 1, NEW p, NEW d \in Decoders,
         d.failure = NoError, d.phase = "trailers", Counted(d, wire, k + 1, p),
         NEW i \in 1 .. k + 1, NEW start \in 1 .. i, LineSoFar(d, wire, i, k),
         d.trailer_bytes = k + 2 - start, d.trailer_bytes <= MaxTrailerBytes,
         Chunks(wire)[1] = Closing(p, d.trailer_count, start, Trailers(wire)[i])
  PROVE  ChunkedAligned(LineByte(d, wire[k + 1]), wire, k + 1, p)
<1>1. /\ Len(wire) \in Nat /\ k \in Nat /\ k + 1 \in Nat /\ k + 1 \in 0 .. Len(wire) /\ k \in 0 .. Len(wire)
      /\ i \in Nat \ {0} /\ i \in 1 .. Len(wire) + 1 /\ i \in 1 .. (k + 1) + 1 /\ start \in Nat
      /\ MaxTrailerBytes \in Nat
  BY LenProperties, DecoderAssumptions
<1>2. /\ p \in Seq(Bytes) /\ Len(p) = d.decoded /\ d.metadata_bytes + d.decoded = k + 1
      /\ d.trailer_count <= MaxTrailerCount /\ k + 1 \in 0 .. Len(wire)
  BY DEF Counted
<1>3. d.chunked
  BY DEF Counted
<1>4. PICK byte : byte = wire[k + 1]
  OBVIOUS
<1>5. PICK e : e = LineByte(d, byte)
  OBVIOUS
<1>6. /\ d.line_cr /\ byte = "n" => e = finish_line(d)
      /\ d.line_cr /\ byte # "n" => e = Fail(d, "malformed_chunk")
      /\ ~d.line_cr /\ byte = "r" => e = [d EXCEPT !.line_cr = TRUE]
      /\ ~d.line_cr /\ byte = "n" => e = Fail(d, "malformed_chunk")
      /\ ~d.line_cr /\ byte \notin {"r", "n"} /\ ~(Len(d.line) >= MaxTrailerBytes) =>
           e = [d EXCEPT !.line = Append(d.line, byte)]
  <2>1. MaxTrailerBytes = IF d.phase = "trailers" THEN MaxTrailerBytes ELSE MaxChunkLine
    OBVIOUS
  <2>. QED  BY <1>5, <2>1, LineCases
<1>7. ~d.line_cr => ~(Len(d.line) >= MaxTrailerBytes)
  <2>1. HAVE ~d.line_cr
  <2>2. Len(d.line) = k + 1 - i
    BY <1>1, <2>1, LineLength
  <2>3. k + 2 - start <= MaxTrailerBytes
    OBVIOUS
  <2>4. ~(k + 1 - i >= MaxTrailerBytes)
    BY <1>1, <2>3
  <2>. QED  BY <2>2, <2>4
<1>8. PICK f, g : f = Chunks(wire)[1] /\ g = Trailers(wire)[i]
  OBVIOUS
<1>9. f.framed = g.framed
  <2>1. g \in Framings
    BY <1>1, <1>8, TrailersShape DEF TrailersGood
  <2>2. f = Closing(p, d.trailer_count, start, g) /\ p \in Seq(Bytes) /\ d.trailer_count \in Nat
    BY <1>2, <1>8 DEF Decoders
  <2>. QED  BY <1>1, <2>1, <2>2, ClosingFields
<1>10. CASE d.line_cr /\ byte = "n"
  BY <1>4, <1>5, <1>6, <1>10, TrailerDone
<1>11. CASE (d.line_cr /\ byte # "n") \/ (~d.line_cr /\ byte = "n")
  <2>1. LineEnds(wire, i) = {}
    BY <1>4, <1>11, LineBroken
  <2>2. g = NotFramed
    BY <1>1, <1>8, <2>1, TrailersLine
  <2>3. ~f.framed
    BY <1>9, <2>2, NotFramedType
  <2>4. e.failure # NoError
    <3>1. "malformed_chunk" \in Codes \ {NoError}
      BY DEF Codes, NoError
    <3>. QED  BY <1>6, <1>11, <3>1, FailFails
  <2>. QED  BY <1>4, <1>5, <1>8, <2>3, <2>4, Failed
<1>12. CASE ~d.line_cr /\ byte # "n"
  <2>1. /\ LineSoFar(e, wire, i, k + 1)
        /\ e \in Decoders /\ e.phase = d.phase /\ e.decoded = d.decoded /\ e.failure = d.failure
        /\ e.metadata_bytes = d.metadata_bytes /\ e.trailer_bytes = d.trailer_bytes
        /\ e.trailer_count = d.trailer_count /\ e.chunked = d.chunked
    <3>1. \/ wire[k + 1] = "r" /\ e = [d EXCEPT !.line_cr = TRUE]
          \/ wire[k + 1] \notin {"r", "n"} /\ e = [d EXCEPT !.line = Append(d.line, wire[k + 1])]
      BY <1>4, <1>6, <1>7, <1>12
    <3>2. ~d.line_cr
      BY <1>12
    <3>3. LineSoFar(e, wire, i, k + 1)
      BY <3>1, <3>2, LineGoesOn
    <3>4. /\ e \in Decoders /\ e.phase = d.phase /\ e.decoded = d.decoded /\ e.failure = d.failure
          /\ e.metadata_bytes = d.metadata_bytes /\ e.trailer_bytes = d.trailer_bytes
          /\ e.trailer_count = d.trailer_count
      BY <3>1, <3>2, LineGoesOn, SMTT(30)
    <3>5. e.chunked = d.chunked
      BY <3>1, <3>2, LineGoesOn, SMTT(30)
    <3>. QED  BY <3>3, <3>4, <3>5
  <2>2. k + 2 - start = (k + 1) + 1 - start
    BY <1>1
  <2>3. AtTrailers(e, wire, k + 1, p)
    BY <1>1, <2>1, <2>2 DEF AtTrailers
  <2>4. Follows(e, wire, k + 1, p)
    BY <1>2, <1>3, <2>1, <2>3 DEF Follows
  <2>. QED  BY <1>4, <1>5, <2>1, <2>4 DEF ChunkedAligned
<1>13. d.line_cr \in BOOLEAN
  BY DEF Decoders
<1>. QED  BY <1>10, <1>11, <1>12, <1>13

\* What LineSoFar says is about the line alone.
LEMMA SameLine ==
  ASSUME NEW wire, NEW k, NEW i, NEW d \in Decoders, NEW e \in Decoders, LineSoFar(d, wire, i, k),
         e.line = d.line, e.line_cr = d.line_cr
  PROVE  LineSoFar(e, wire, i, k)
BY DEF LineSoFar

\* A byte that is not payload.
LEMMA MetadataStep ==
  ASSUME NEW wire \in Seq(Bytes), NEW k \in 0 .. Len(wire) - 1, NEW p, NEW d, Sound(d),
         d.failure = NoError, d.phase \notin {"data", "done"}, Follows(d, wire, k, p)
  PROVE  ChunkedAligned(metadata(d, wire[k + 1]), wire, k + 1, p)
<1>1. /\ Len(wire) \in Nat /\ k \in Nat /\ k + 1 \in Nat /\ k + 1 \in 0 .. Len(wire) /\ k \in 0 .. Len(wire)
      /\ MaxMetadata \in Nat /\ MaxTrailerBytes \in Nat
  BY LenProperties, DecoderAssumptions
<1>2. /\ p \in Seq(Bytes) /\ Len(p) = d.decoded /\ d.metadata_bytes + d.decoded = k
      /\ d.trailer_count <= MaxTrailerCount
      /\ d.phase # "trailers" => d.trailer_count = 0 /\ d.trailer_bytes = 0
  BY DEF Follows
<1>3. d.chunked
  BY DEF Follows
<1>4. d \in Decoders /\ d.decoded \in Nat /\ d.metadata_bytes \in Nat /\ d.trailer_bytes \in Nat
      /\ d.phase \in {"size_line", "data_cr", "data_lf", "trailers"}
  BY DEF Sound, Decoders
<1>5. PICK byte : byte = wire[k + 1]
  OBVIOUS
<1>6. PICK e : e = metadata(d, byte)
  OBVIOUS
<1>7. PICK more \in Nat, longer \in Nat : more = d.metadata_bytes + 1 /\ longer = d.trailer_bytes + 1
  BY <1>4
<1>8. PICK c, t : c = [d EXCEPT !.metadata_bytes = @ + 1] /\ t = [c EXCEPT !.trailer_bytes = @ + 1]
  OBVIOUS
<1>9. c = [d EXCEPT !.metadata_bytes = more]
  BY <1>7, <1>8
<1>10. /\ c \in Decoders /\ c.phase = d.phase /\ c.decoded = d.decoded /\ c.failure = NoError /\ c.line = d.line
       /\ c.metadata_bytes = more /\ c.trailer_bytes = d.trailer_bytes /\ c.trailer_count = d.trailer_count
  BY <1>4, <1>7, <1>9 DEF Decoders
<1>11. c.chunked /\ c.line_cr = d.line_cr
  BY <1>3, <1>4, <1>9 DEF Decoders
<1>12. /\ t \in Decoders /\ t.phase = d.phase /\ t.decoded = d.decoded /\ t.failure = NoError /\ t.line = d.line
       /\ t.metadata_bytes = more /\ t.trailer_bytes = longer /\ t.trailer_count = d.trailer_count
  <2>1. t = [c EXCEPT !.trailer_bytes = longer]
    BY <1>7, <1>8, <1>10
  <2>. QED  BY <1>7, <1>10, <2>1 DEF Decoders
<1>13. t.chunked /\ t.line_cr = d.line_cr
  BY <1>8, <1>10, <1>11 DEF Decoders
<1>14. e = CASE d.metadata_bytes >= MaxMetadata -> Fail(d, "chunk_metadata_too_large")
             [] d.metadata_bytes < MaxMetadata /\ d.phase \in {"data_cr", "data_lf"} -> DataEnd(c, byte)
             [] d.metadata_bytes < MaxMetadata /\ d.phase = "trailers" ->
                  IF d.trailer_bytes >= MaxTrailerBytes THEN Fail(c, "trailers_too_large")
                  ELSE LineByte(t, byte)
             [] OTHER -> LineByte(c, byte)
  BY <1>6, <1>8 DEF metadata
<1>15. more + d.decoded = k + 1
  <2>1. PICK a \in Nat, b \in Nat : a = d.metadata_bytes /\ b = d.decoded
    BY <1>4
  <2>2. a + b = k /\ more = a + 1
    BY <1>2, <1>7, <2>1
  <2>3. more + b = k + 1
    BY <1>1, <2>1, <2>2, SMTT(30)
  <2>. QED  BY <2>1, <2>3
<1>16. Counted(c, wire, k + 1, p)
  BY <1>1, <1>2, <1>10, <1>11, <1>15 DEF Counted
<1>17. d.phase = "trailers" => Counted(t, wire, k + 1, p)
  BY <1>1, <1>2, <1>12, <1>13, <1>15 DEF Counted
<1>18. \A code \in {"chunk_metadata_too_large", "trailers_too_large"} : code \in Codes \ {NoError}
  BY DEF Codes, NoError
<1>19. PICK f : f = Chunks(wire)[1]
  OBVIOUS
<1>20. PICK n \in Nat, end \in Nat : n = Len(f.payload) /\ end = f.end
  <2>1. f \in Framings
    BY <1>19, WholeType
  <2>2. f.end \in Nat /\ f.payload \in Seq(Bytes)
    BY <2>1 DEF Framings
  <2>. QED  BY <2>2, LenProperties
<1>21. f.framed => k + 1 <= end /\ k + 1 + n <= end + Len(p)
  BY <1>4, <1>19, <1>20, Ahead
<1>22. CASE d.metadata_bytes >= MaxMetadata
  <2>1. e = Fail(d, "chunk_metadata_too_large")
    BY <1>4, <1>1, <1>14, <1>22
  <2>2. e.failure # NoError
    BY <1>4, <1>18, <2>1, FailFails
  <2>3. ~f.framed \/ ~WithinLimits(f)
    <3>1. SUFFICES ASSUME f.framed PROVE ~WithinLimits(f)
      OBVIOUS
    <3>2. PICK a \in Nat, b \in Nat : a = Len(p) /\ b = d.metadata_bytes
      BY <1>2, <1>4
    <3>3. b + a = k /\ b >= MaxMetadata /\ k + 1 + n <= end + a
      BY <1>2, <1>21, <1>22, <3>1, <3>2
    <3>4. ~(end - n <= MaxMetadata)
      BY <1>1, <3>3
    <3>. QED  BY <1>20, <3>4 DEF WithinLimits
  <2>. QED  BY <1>5, <1>6, <1>19, <2>2, <2>3, Failed
<1>23. CASE d.metadata_bytes < MaxMetadata /\ d.phase \in {"data_cr", "data_lf"}
  <2>1. e = DataEnd(c, byte)
    BY <1>1, <1>4, <1>14, <1>23
  <2>2. AtDataEnd(d, wire, k, p) /\ d.line = <<>>
    BY <1>23 DEF Follows
  <2>3. ~d.line_cr
    BY <1>23 DEF Follows
  <2>4. AtDataEnd(c, wire, k, p) /\ c.line = <<>> /\ c.phase \in {"data_cr", "data_lf"}
    BY <1>10, <1>23, <2>2 DEF AtDataEnd
  <2>5. ~c.line_cr
    BY <1>11, <2>3
  <2>. QED  BY <1>5, <1>6, <1>10, <1>16, <2>1, <2>4, <2>5, DataEndStep
<1>24. CASE d.metadata_bytes < MaxMetadata /\ d.phase = "size_line"
  <2>1. e = LineByte(c, byte)
    BY <1>1, <1>4, <1>14, <1>24
  <2>2. AtSize(d, wire, k, p)
    BY <1>24 DEF Follows
  <2>3. PICK i \in 1 .. k + 1 : LineSoFar(d, wire, i, k) /\ Len(d.line) <= MaxChunkLine
                               /\ Chunks(wire)[1] = Prepend(p, Chunks(wire)[i])
    BY <2>2 DEF AtSize
  <2>4. LineSoFar(c, wire, i, k) /\ Len(c.line) <= MaxChunkLine
    BY <1>4, <1>10, <1>11, <2>3, SameLine
  <2>. QED  BY <1>5, <1>6, <1>10, <1>16, <1>24, <2>1, <2>3, <2>4, SizeLineStep
<1>25. CASE d.metadata_bytes < MaxMetadata /\ d.phase = "trailers"
  <2>1. AtTrailers(d, wire, k, p)
    BY <1>25 DEF Follows
  <2>2. CASE d.trailer_bytes >= MaxTrailerBytes
    <3>1. e = Fail(c, "trailers_too_large")
      BY <1>1, <1>4, <1>14, <1>25, <2>2
    <3>2. e.failure # NoError
      BY <1>10, <1>18, <3>1, FailFails
    <3>3. ~f.framed \/ ~WithinLimits(f)
      <4>1. SUFFICES ASSUME f.framed PROVE ~WithinLimits(f)
        OBVIOUS
      <4>2. d.trailer_bytes = k + 1 - f.trailer_start /\ f.trailer_start \in Nat
        <5>1. d.trailer_bytes = k + 1 - f.trailer_start
          BY <1>1, <1>2, <1>4, <1>19, <2>1, TrailersAhead
        <5>2. f.trailer_start \in Nat
          BY <1>19, WholeType DEF Framings
        <5>. QED  BY <5>1, <5>2
      <4>3. PICK s \in Nat : s = f.trailer_start
        BY <4>2
      <4>4. k + 1 - s >= MaxTrailerBytes /\ k + 1 <= end
        BY <1>21, <2>2, <4>1, <4>2, <4>3
      <4>5. ~(end - s + 1 <= MaxTrailerBytes)
        BY <1>1, <1>20, <4>3, <4>4
      <4>. QED  BY <1>20, <4>3, <4>5 DEF WithinLimits
    <3>. QED  BY <1>5, <1>6, <1>19, <3>2, <3>3, Failed
  <2>3. CASE ~(d.trailer_bytes >= MaxTrailerBytes)
    <3>1. e = LineByte(t, byte)
      BY <1>1, <1>4, <1>14, <1>25, <2>3
    <3>2. PICK i \in 1 .. k + 1 : \E start \in 1 .. i :
            /\ LineSoFar(d, wire, i, k) /\ d.trailer_bytes = k + 1 - start
            /\ Chunks(wire)[1] = Closing(p, d.trailer_count, start, Trailers(wire)[i])
      BY <2>1 DEF AtTrailers
    <3>3. PICK start \in 1 .. i :
            /\ LineSoFar(d, wire, i, k) /\ d.trailer_bytes = k + 1 - start
            /\ Chunks(wire)[1] = Closing(p, d.trailer_count, start, Trailers(wire)[i])
      BY <3>2
    <3>4. LineSoFar(t, wire, i, k)
      BY <1>4, <1>12, <1>13, <3>3, SameLine
    <3>5. longer = k + 2 - start /\ longer <= MaxTrailerBytes
      BY <1>1, <1>4, <1>7, <2>3, <3>3
    <3>6. Chunks(wire)[1] = Closing(p, t.trailer_count, start, Trailers(wire)[i])
      BY <1>12, <3>3
    <3>7. t.trailer_bytes = k + 2 - start /\ t.trailer_bytes <= MaxTrailerBytes
      BY <1>12, <3>5
    <3>. QED  BY <1>5, <1>6, <1>12, <1>17, <1>25, <3>1, <3>4, <3>6, <3>7, TrailerLineStep
  <2>. QED  BY <2>2, <2>3
<1>26. d.metadata_bytes >= MaxMetadata \/ d.metadata_bytes < MaxMetadata
  BY <1>1, <1>4
<1>. QED  BY <1>4, <1>22, <1>23, <1>24, <1>25, <1>26

-----------------------------------------------------------------------------
\* Both kinds of bodies.

\* A body of a declared length, after k of its bytes.
LengthAligned(d, wire, length, k, p) ==
  IF d.failure = NoError
  THEN /\ ~d.chunked /\ length <= MaxBodyBytes /\ k \in 0 .. Len(wire) /\ k <= length
       /\ p = SubSeq(wire, 1, k) /\ d.remaining = length - k
       /\ d.phase = IF k = length THEN "done" ELSE "data"
  ELSE length > MaxBodyBytes

Aligned(d, r, k, p) ==
  IF r.chunked THEN ChunkedAligned(d, r.body, k, p)
  ELSE LengthAligned(d, r.body, r.content_length, k, p)

\* The reference framing of the bytes of a request.
Reference(r) ==
  IF r.chunked THEN ChunkedFraming(r.body) ELSE LengthFraming(r.body, r.content_length)

\* What a request consists of.
LEMMA RequestType ==
  ASSUME NEW r \in Requests
  PROVE  /\ r.body \in Seq(Bytes) /\ r.content_length \in Nat /\ Len(r.body) \in Nat
         /\ r.chunked \in BOOLEAN
BY HttpConnectionAssumptions, LenProperties

\* A decoder begins at the beginning.
LEMMA AlignedFirst ==
  ASSUME NEW r \in Requests
  PROVE  Aligned(Decoder(r.chunked, r.content_length), r, 0, <<>>)
<1>0. PICK wire \in Seq(Bytes), length \in Nat : wire = r.body /\ length = r.content_length
  BY RequestType
<1>1. PICK d : d = Decoder(r.chunked, length)
  OBVIOUS
<1>2. d \in Decoders
  <2>1. r.chunked \in BOOLEAN
    BY RequestType
  <2>. QED  BY <1>1, <2>1, DecoderSound DEF Sound
<1>3. MaxBodyBytes \in Nat /\ MaxChunkLine \in Nat /\ MaxTrailerCount \in Nat /\ Len(wire) \in Nat
  BY LenProperties, DecoderAssumptions
<1>4. CASE r.chunked
  <2>1. /\ d.phase = "size_line" /\ d.decoded = 0 /\ d.line = <<>> /\ d.failure = NoError
        /\ d.metadata_bytes = 0 /\ d.trailer_bytes = 0 /\ d.trailer_count = 0
    BY <1>1, <1>4 DEF Decoder
  <2>2. d.chunked /\ ~d.line_cr
    BY <1>1, <1>4 DEF Decoder
  <2>3. LineSoFar(d, wire, 0 + 1, 0)
    BY <1>2, <2>1, <2>2, LineStart
  <2>4. Chunks(wire)[1] = Prepend(<<>>, Chunks(wire)[1])
    <3>1. PICK f \in Framings : f = Chunks(wire)[1]
      BY WholeType
    <3>2. <<>> \in Seq(Bytes)
      OBVIOUS
    <3>3. Prepend(<<>>, f) = f
      BY <3>2, PrependTwice
    <3>. QED  BY <3>1, <3>3
  <2>5. Len(d.line) <= MaxChunkLine
    BY <1>3, <2>1
  <2>6. 0 + 1 = 1 /\ 1 \in 1 .. 0 + 1 /\ 0 \in 0 .. Len(wire) /\ <<>> \in Seq(Bytes) /\ Len(<<>>) = 0 /\ 0 + 0 = 0
        /\ 0 <= MaxTrailerCount
    BY <1>3
  <2>7. AtSize(d, wire, 0, <<>>)
    BY <2>3, <2>4, <2>5, <2>6 DEF AtSize
  <2>8. Follows(d, wire, 0, <<>>)
    BY <2>1, <2>2, <2>6, <2>7 DEF Follows
  <2>9. ChunkedAligned(d, wire, 0, <<>>)
    BY <2>1, <2>8 DEF ChunkedAligned
  <2>. QED  BY <1>0, <1>1, <1>4, <2>9 DEF Aligned
<1>5. CASE ~r.chunked
  <2>1. /\ d.phase = (IF 0 = length THEN "done" ELSE "data") /\ d.remaining = length
        /\ d.failure = IF length > MaxBodyBytes THEN "body_too_large" ELSE NoError
    BY <1>1, <1>5 DEF Decoder
  <2>2. ~d.chunked
    BY <1>1, <1>5 DEF Decoder
  <2>3. SubSeq(wire, 1, 0) = <<>>
    BY SubSeqEmpty
  <2>4. 0 \in 0 .. Len(wire) /\ 0 <= length /\ length = length - 0 /\ (~(length > MaxBodyBytes) => length <= MaxBodyBytes)
    BY <1>3
  <2>5. LengthAligned(d, wire, length, 0, <<>>)
    BY <2>1, <2>2, <2>3, <2>4 DEF LengthAligned, NoError
  <2>. QED  BY <1>0, <1>1, <1>5, <2>5 DEF Aligned
<1>. QED  BY <1>4, <1>5

\* A byte of the payload.
LEMMA AlignedCopy ==
  ASSUME NEW r \in Requests, NEW k \in 0 .. Len(r.body) - 1, NEW p, NEW d, Sound(d),
         d.failure = NoError, d.phase = "data", Aligned(d, r, k, p)
  PROVE  Aligned(CopyByte(d), r, k + 1, Append(p, r.body[k + 1]))
<1>0. PICK wire \in Seq(Bytes), length \in Nat : wire = r.body /\ length = r.content_length
  BY RequestType
<1>1. PICK e, q : e = CopyByte(d) /\ q = Append(p, wire[k + 1])
  OBVIOUS
<1>2. k \in 0 .. Len(wire) - 1 /\ Len(wire) \in Nat /\ k \in Nat
  BY <1>0, LenProperties
<1>3. CASE r.chunked
  <2>1. Follows(d, wire, k, p)
    BY <1>0, <1>3 DEF Aligned, ChunkedAligned
  <2>2. Follows(e, wire, k + 1, q) /\ e.failure = NoError
    BY <1>1, <1>2, <2>1, CopyStep
  <2>3. ChunkedAligned(e, wire, k + 1, q)
    BY <2>2 DEF ChunkedAligned
  <2>. QED  BY <1>0, <1>1, <1>3, <2>3 DEF Aligned
<1>4. CASE ~r.chunked
  <2>1. /\ length <= MaxBodyBytes /\ k <= length
        /\ d.remaining = length - k
        /\ d.phase = IF k = length THEN "done" ELSE "data"
    BY <1>0, <1>4 DEF Aligned, LengthAligned
  <2>2. p = SubSeq(wire, 1, k)
    BY <1>0, <1>4 DEF Aligned, LengthAligned
  <2>3. ~d.chunked
    BY <1>0, <1>4 DEF Aligned, LengthAligned
  <2>4. k + 1 <= length /\ k + 1 \in 0 .. Len(wire) /\ (length - k) - 1 = length - (k + 1)
        /\ (length - k > 1 <=> k + 1 # length)
    BY <1>2, <2>1
  <2>5. d \in Decoders /\ d.remaining \in Nat /\ d.decoded \in Nat
    BY DEF Sound, Decoders
  <2>6. PICK m \in Nat, left \in Nat : m = d.decoded + 1 /\ left = length - (k + 1)
    BY <1>2, <2>4, <2>5
  <2>7. PICK phase \in {"data", "done"} : phase = IF k + 1 = length THEN "done" ELSE "data"
    OBVIOUS
  <2>8. e = [d EXCEPT !.remaining = left, !.decoded = m, !.phase = phase]
    BY <1>1, <2>1, <2>3, <2>4, <2>6, <2>7 DEF CopyByte
  <2>9. e.remaining = left /\ e.phase = phase /\ e.failure = NoError
    BY <2>5, <2>8 DEF Decoders
  <2>10. ~e.chunked
    BY <2>3, <2>5, <2>8 DEF Decoders
  <2>11. q = SubSeq(wire, 1, k + 1)
    <3>1. 1 \in 1 .. k + 1
      BY <1>2
    <3>. QED  BY <1>1, <1>2, <2>2, <3>1, PieceAppend
  <2>12. LengthAligned(e, wire, length, k + 1, q)
    BY <2>1, <2>4, <2>6, <2>7, <2>9, <2>10, <2>11 DEF LengthAligned
  <2>. QED  BY <1>0, <1>1, <1>4, <2>12 DEF Aligned
<1>5. r.chunked \in BOOLEAN
  BY RequestType
<1>. QED  BY <1>3, <1>4, <1>5

\* A byte that is not.
LEMMA AlignedMetadata ==
  ASSUME NEW r \in Requests, NEW k \in 0 .. Len(r.body) - 1, NEW p, NEW d, Sound(d),
         d.failure = NoError, d.phase \notin {"data", "done"}, Aligned(d, r, k, p)
  PROVE  Aligned(metadata(d, r.body[k + 1]), r, k + 1, p)
<1>0. PICK wire \in Seq(Bytes) : wire = r.body
  BY RequestType
<1>1. r.chunked
  <2>1. r.chunked \in BOOLEAN
    BY RequestType
  <2>2. ~r.chunked => d.phase = IF k = r.content_length THEN "done" ELSE "data"
    BY DEF Aligned, LengthAligned
  <2>. QED  BY <2>1, <2>2
<1>2. k \in 0 .. Len(wire) - 1 /\ Follows(d, wire, k, p)
  BY <1>0, <1>1 DEF Aligned, ChunkedAligned
<1>3. ChunkedAligned(metadata(d, wire[k + 1]), wire, k + 1, p)
  BY <1>2, MetadataStep
<1>. QED  BY <1>0, <1>1, <1>3 DEF Aligned

\* Nothing happens any more in this feed().
Stalled(progress, room) ==
  \/ progress.decoder.phase = "done" \/ progress.decoder.failure # NoError
  \/ progress.decoder.phase = "data" /\ Len(progress.produced) = room

\* After n bytes of the piece of r that begins at k: the decoder is aligned with what it
\* has consumed, which is all of them unless nothing happens any more.
Tracks(progress, r, k, p, room, n) ==
  /\ Aligned(progress.decoder, r, k + progress.consumed, p \o progress.produced)
  /\ progress.consumed = n \/ Stalled(progress, room)

\* One turn of the loop.
LEMMA FeedByteTracks ==
  ASSUME NEW r \in Requests, NEW k \in Nat, NEW n \in Nat, k + n + 1 <= Len(r.body), NEW p \in Seq(Bytes),
         NEW room, NEW progress \in Progresses, Sound(progress.decoder),
         Tracks(progress, r, k, p, room, n)
  PROVE  Tracks(FeedByte(progress, r.body[k + n + 1], room), r, k, p, room, n + 1)
<1>0. PICK byte : byte = r.body[k + n + 1]
  OBVIOUS
<1>1. PICK d, s : d = progress.decoder /\ s = progress.produced
  OBVIOUS
<1>2. PICK after : after = FeedByte(progress, byte, room)
  OBVIOUS
<1>3. /\ d \in Decoders /\ s \in Seq(Bytes) /\ progress.consumed \in Nat /\ Len(s) \in Nat
      /\ Len(r.body) \in Nat /\ Sound(d)
  <2>1. d \in Decoders /\ s \in Seq(Bytes) /\ progress.consumed \in Nat
    BY <1>1 DEF Progresses
  <2>. QED  BY <1>1, <2>1, RequestType, LenProperties
<1>4. Aligned(d, r, k + progress.consumed, p \o s)
  BY <1>1 DEF Tracks
<1>5. CASE Stalled(progress, room)
  <2>1. after = progress
    BY <1>2, <1>5 DEF FeedByte, Stalled
  <2>. QED  BY <1>0, <1>2, <1>5, <2>1 DEF Tracks
<1>6. ASSUME ~Stalled(progress, room)
      PROVE  Tracks(after, r, k, p, room, n + 1)
  <2>1. /\ d.phase # "done" /\ d.failure = NoError /\ ~(d.phase = "data" /\ Len(s) = room)
    BY <1>1, <1>6 DEF Stalled
  <2>2. progress.consumed = n
    BY <1>6 DEF Tracks
  <2>3. PICK m \in Nat : m = k + n
    OBVIOUS
  <2>4. m \in 0 .. Len(r.body) - 1 /\ m + 1 = k + n + 1 /\ m + 1 = k + (n + 1)
    BY <1>3, <2>3
  <2>5. Aligned(d, r, m, p \o s)
    BY <1>4, <2>2, <2>3
  <2>6. CASE d.phase = "data"
    <3>1. after = [decoder |-> CopyByte(d), consumed |-> n + 1, produced |-> Append(s, byte)]
      BY <1>1, <1>2, <2>1, <2>2, <2>6 DEF FeedByte
    <3>2. after.decoder = CopyByte(d) /\ after.consumed = n + 1 /\ after.produced = Append(s, byte)
      BY <3>1
    <3>3. Aligned(CopyByte(d), r, m + 1, Append(p \o s, byte))
      BY <1>0, <1>3, <2>1, <2>4, <2>5, <2>6, AlignedCopy
    <3>4. byte \in Bytes
      <4>1. k + n + 1 \in 1 .. Len(r.body) /\ r.body \in Seq(Bytes)
        BY <1>3, RequestType
      <4>. QED  BY <1>0, <4>1, ElementOfSeq
    <3>5. p \o Append(s, byte) = Append(p \o s, byte)
      <4>1. PICK b : b = <<byte>>
        OBVIOUS
      <4>6. b \in Seq(Bytes)
        BY <3>4, <4>1
      <4>2. Append(s, byte) = s \o b
        BY <1>3, <3>4, <4>1, AppendIsConcat
      <4>3. p \o s \in Seq(Bytes)
        BY <1>3, ConcatProperties
      <4>4. Append(p \o s, byte) = (p \o s) \o b
        BY <3>4, <4>1, <4>3, AppendIsConcat
      <4>5. (p \o s) \o b = p \o (s \o b)
        BY <1>3, <4>6, ConcatAssociative, SMTT(30)
      <4>. QED  BY <4>2, <4>4, <4>5
    <3>. QED  BY <2>4, <3>2, <3>3, <3>5 DEF Tracks
  <2>7. CASE d.phase # "data"
    <3>1. after = [progress EXCEPT !.decoder = metadata(d, byte), !.consumed = n + 1]
      BY <1>1, <1>2, <2>1, <2>2, <2>7 DEF FeedByte
    <3>2. after.decoder = metadata(d, byte) /\ after.consumed = n + 1 /\ after.produced = s
      BY <1>1, <3>1 DEF Progresses
    <3>3. Aligned(metadata(d, byte), r, m + 1, p \o s)
      <4>1. d.phase \notin {"data", "done"}
        BY <2>1, <2>7
      <4>. QED  BY <1>0, <1>3, <2>1, <2>4, <2>5, <4>1, AlignedMetadata
    <3>. QED  BY <2>4, <3>2, <3>3 DEF Tracks
  <2>. QED  BY <2>6, <2>7
<1>. QED  BY <1>0, <1>2, <1>5, <1>6

\* What feed() returns is aligned with what it has consumed.
LEMMA FeedTracks ==
  ASSUME NEW r \in Requests, NEW k \in Nat, NEW input \in Seq(Bytes), k + Len(input) <= Len(r.body),
         \A n \in 1 .. Len(input) : input[n] = r.body[k + n],
         NEW p \in Seq(Bytes), NEW room, NEW d, Sound(d), Aligned(d, r, k, p)
  PROVE  Tracks(feed(d, input, room), r, k, p, room, Len(input))
<1>1. Len(input) \in Nat /\ Len(r.body) \in Nat /\ \A n \in 1 .. Len(input) : input[n] \in Bytes
  BY LenProperties, ElementOfSeq, RequestType
<1>. DEFINE f == CHOOSE f : IsAfter(f, d, input, room, Len(input))
<1>2. IsAfter(f, d, input, room, Len(input))
  BY <1>1, AfterExists
<1>3. feed(d, input, room) = f[Len(input)]
  BY DEF feed, IsAfter, AfterStep
<1>. HIDE DEF f
<1>4. \A n \in 0 .. Len(input) : f[n] = AfterStep(f, d, input, room, n)
  BY <1>2 DEF IsAfter
<1>. DEFINE Good(n) == Fed(f[n], d, n) /\ Tracks(f[n], r, k, p, room, n)
            Bad == {n \in 0 .. Len(input) : ~Good(n)}
<1>5. Good(0)
  <2>1. PICK q : q = [decoder |-> d, consumed |-> 0, produced |-> <<>>]
    OBVIOUS
  <2>2. f[0] = q
    BY <1>1, <1>4, <2>1 DEF AfterStep
  <2>3. d \in Decoders /\ d.decoded \in Nat
    BY DEF Sound, Decoders
  <2>4. q \in Progresses /\ q.decoder = d /\ q.consumed = 0 /\ q.produced = <<>>
    BY <2>1, <2>3 DEF Progresses
  <2>5. d.decoded = d.decoded + Len(<<>>) /\ k + 0 = k
    BY <2>3
  <2>6. Fed(q, d, 0)
    BY <2>4, <2>5 DEF Fed
  <2>7. p \o <<>> = p
    BY ConcatEmptySeq
  <2>8. Tracks(q, r, k, p, room, 0)
    BY <2>4, <2>5, <2>7 DEF Tracks
  <2>. QED  BY <2>2, <2>6, <2>8
<1>6. ASSUME NEW n \in 0 .. Len(input) - 1, Good(n)
      PROVE  Good(n + 1)
  <2>1. n \in Nat /\ n + 1 \in 1 .. Len(input) /\ n + 1 \in 0 .. Len(input) /\ (n + 1) - 1 = n /\ n + 1 # 0
        /\ k + n + 1 <= Len(r.body) /\ k + (n + 1) = k + n + 1
    BY <1>1
  <2>2. f[n + 1] = FeedByte(f[n], input[n + 1], room)
    BY <1>4, <2>1 DEF AfterStep
  <2>3. input[n + 1] = r.body[k + n + 1] /\ input[n + 1] \in Bytes
    BY <1>1, <2>1
  <2>4. Fed(f[n], d, n) /\ Tracks(f[n], r, k, p, room, n)
    BY <1>6
  <2>5. Fed(f[n + 1], d, n + 1)
    BY <2>1, <2>2, <2>3, <2>4, FeedByteSound
  <2>6. f[n] \in Progresses /\ Sound(f[n].decoder)
    BY <2>4 DEF Fed
  <2>7. Tracks(f[n + 1], r, k, p, room, n + 1)
    <3>1. Tracks(FeedByte(f[n], r.body[k + n + 1], room), r, k, p, room, n + 1)
      BY <2>1, <2>4, <2>6, FeedByteTracks, Zenon
    <3>. QED  BY <2>2, <2>3, <3>1
  <2>. QED  BY <2>5, <2>7
<1>. HIDE DEF Good
<1>7. Bad = {}
  <2>. SUFFICES ASSUME Bad # {} PROVE FALSE
    OBVIOUS
  <2>1. PICK m \in Bad : \A n \in Bad : m <= n
    <3>1. Bad \in SUBSET Nat
      BY <1>1
    <3>. QED  BY <3>1, Least
  <2>2. m # 0
    BY <1>5, <2>1
  <2>3. m \in 0 .. Len(input) /\ ~Good(m)
    BY <2>1
  <2>4. m - 1 \in 0 .. Len(input) - 1 /\ m - 1 \in 0 .. Len(input) /\ (m - 1) + 1 = m /\ ~(m <= m - 1)
    <3>. HIDE DEF Bad
    <3>. QED  BY <1>1, <2>2, <2>3
  <2>5. Good(m - 1)
    BY <2>1, <2>4
  <2>6. Good((m - 1) + 1)
    BY <1>6, <2>4, <2>5
  <2>. QED  BY <2>3, <2>4, <2>6
<1>8. Good(Len(input))
  BY <1>1, <1>7
<1>. QED  BY <1>3, <1>8 DEF Good

\* A failure means that the bytes are no body.
LEMMA FailedMeansUnframed ==
  ASSUME NEW r \in Requests, NEW k, NEW p, NEW d, d.failure # NoError, Aligned(d, r, k, p)
  PROVE  ~Reference(r).framed
<1>1. CASE r.chunked
  BY <1>1 DEF Aligned, ChunkedAligned, Reference
<1>2. CASE ~r.chunked
  <2>1. r.content_length > MaxBodyBytes
    BY <1>2 DEF Aligned, LengthAligned
  <2>2. Reference(r) = NotFramed
    BY <1>2, <2>1 DEF Reference, LengthFraming
  <2>. QED  BY <2>2, NotFramedType
<1>3. r.chunked \in BOOLEAN
  BY RequestType
<1>. QED  BY <1>1, <1>2, <1>3

\* A body of a declared length that has arrived.
LEMMA LengthFields ==
  ASSUME NEW wire \in Seq(Bytes), NEW length \in Nat, length <= MaxBodyBytes, length <= Len(wire),
         NEW f, f = LengthFraming(wire, length)
  PROVE  f.framed /\ f.payload = SubSeq(wire, 1, length) /\ f.end = length
<1>1. ~(length > MaxBodyBytes \/ length > Len(wire))
  <2>1. MaxBodyBytes \in Nat /\ Len(wire) \in Nat
    BY DecoderAssumptions, LenProperties
  <2>. QED  BY <2>1
<1>2. PICK s : s = SubSeq(wire, 1, length)
  OBVIOUS
<1>3. f = [NotFramed EXCEPT !.framed = TRUE, !.payload = s, !.end = length]
  BY <1>1, <1>2 DEF LengthFraming
<1>4. f.framed /\ f.payload = s /\ f.end = length
  BY <1>3 DEF NotFramed
<1>. QED  BY <1>2, <1>4

\* A complete body is framed and has the payload.
LEMMA CompleteMeansFramed ==
  ASSUME NEW r \in Requests, NEW k, NEW p, NEW d, Sound(d), complete(d), Aligned(d, r, k, p)
  PROVE  Reference(r).framed /\ p = Reference(r).payload
<1>0. PICK wire \in Seq(Bytes), length \in Nat : wire = r.body /\ length = r.content_length
  BY RequestType
<1>1. d.failure = NoError /\ d.phase = "done"
  BY DEF complete
<1>2. CASE r.chunked
  <2>1. Follows(d, wire, k, p)
    BY <1>0, <1>1, <1>2 DEF Aligned, ChunkedAligned
  <2>2. PICK f : f = Chunks(wire)[1]
    OBVIOUS
  <2>3. /\ f.framed /\ f.payload = p /\ f.end = k
        /\ f.trailers = d.trailer_count /\ d.trailer_bytes = k + 1 - f.trailer_start
    BY <1>1, <2>1, <2>2 DEF Follows, AtEnd
  <2>4. /\ k \in 0 .. Len(wire) /\ Len(p) = d.decoded /\ d.metadata_bytes + d.decoded = k
        /\ d.trailer_count <= MaxTrailerCount
    BY <2>1 DEF Follows
  <2>5. d.decoded \in Nat /\ d.metadata_bytes \in Nat /\ d.decoded <= MaxBodyBytes
        /\ d.metadata_bytes <= MaxMetadata /\ d.trailer_bytes <= MaxTrailerBytes
    BY DEF Sound, Decoders
  <2>6. PICK a \in Nat, b \in Nat : a = d.decoded /\ b = d.metadata_bytes
    BY <2>5
  <2>7. b + a = k /\ a <= MaxBodyBytes /\ b <= MaxMetadata /\ k - a = b
    BY <2>4, <2>5, <2>6
  <2>8. Len(f.payload) <= MaxBodyBytes /\ f.end - Len(f.payload) <= MaxMetadata
    BY <2>3, <2>4, <2>6, <2>7
  <2>9. f.end - f.trailer_start + 1 <= MaxTrailerBytes
    <3>1. PICK s \in Nat : s = f.trailer_start
      BY <2>2, WholeType DEF Framings
    <3>2. k \in Nat /\ k + 1 - s <= MaxTrailerBytes
      BY <2>3, <2>5, <2>7, <3>1
    <3>3. k - s + 1 = k + 1 - s
      BY <3>2
    <3>. QED  BY <2>3, <3>1, <3>2, <3>3
  <2>10. WithinLimits(f)
    BY <2>3, <2>4, <2>8, <2>9 DEF WithinLimits
  <2>11. Reference(r) = f
    BY <1>0, <1>2, <2>2, <2>10 DEF Reference, ChunkedFraming
  <2>. QED  BY <2>3, <2>11
<1>3. CASE ~r.chunked
  <2>1. /\ length <= MaxBodyBytes /\ k \in 0 .. Len(wire) /\ p = SubSeq(wire, 1, k)
        /\ d.phase = IF k = length THEN "done" ELSE "data"
    BY <1>0, <1>1, <1>3 DEF Aligned, LengthAligned
  <2>2. k = length
    BY <1>1, <2>1
  <2>3. length <= Len(wire)
    <3>1. Len(wire) \in Nat
      BY LenProperties
    <3>. QED  BY <2>1, <2>2, <3>1
  <2>4. PICK f : f = LengthFraming(wire, length)
    OBVIOUS
  <2>5. f.framed /\ f.payload = SubSeq(wire, 1, length)
    BY <2>1, <2>3, <2>4, LengthFields
  <2>6. Reference(r) = f
    BY <1>0, <1>3, <2>4 DEF Reference
  <2>. QED  BY <2>1, <2>2, <2>5, <2>6
<1>4. r.chunked \in BOOLEAN
  BY RequestType
<1>. QED  BY <1>2, <1>3, <1>4

\* While a body is not complete, its end lies ahead.
LEMMA OpenMeansAhead ==
  ASSUME NEW r \in Requests, NEW k, NEW p, NEW d, Sound(d), ~complete(d), d.failure = NoError,
         Aligned(d, r, k, p)
  PROVE  Reference(r).framed => k < Reference(r).end
<1>0. PICK wire \in Seq(Bytes), length \in Nat : wire = r.body /\ length = r.content_length
  BY RequestType
<1>1. d.phase # "done"
  BY DEF complete
<1>2. CASE r.chunked
  <2>1. Follows(d, wire, k, p)
    BY <1>0, <1>2 DEF Aligned, ChunkedAligned
  <2>2. PICK f : f = Chunks(wire)[1]
    OBVIOUS
  <2>3. f.framed => k + 1 <= f.end
    BY <1>1, <2>1, <2>2, Ahead
  <2>4. PICK end \in Nat : end = f.end
    BY <2>2, WholeType DEF Framings
  <2>5. k \in Nat
    <3>1. k \in 0 .. Len(wire) /\ Len(wire) \in Nat
      BY <2>1, LenProperties DEF Follows
    <3>. QED  BY <3>1
  <2>6. f.framed => k < end
    BY <2>3, <2>4, <2>5
  <2>7. Reference(r) = IF WithinLimits(f) THEN f ELSE NotFramed
    BY <1>0, <1>2, <2>2 DEF Reference, ChunkedFraming
  <2>. QED  BY <2>4, <2>6, <2>7, NotFramedType
<1>3. CASE ~r.chunked
  <2>1. /\ length <= MaxBodyBytes /\ k \in 0 .. Len(wire) /\ k <= length
        /\ d.phase = IF k = length THEN "done" ELSE "data"
    BY <1>0, <1>3 DEF Aligned, LengthAligned
  <2>2. k < length /\ Len(wire) \in Nat
    <3>1. Len(wire) \in Nat
      BY LenProperties
    <3>. QED  BY <1>1, <2>1, <3>1
  <2>3. PICK f : f = LengthFraming(wire, length)
    OBVIOUS
  <2>4. Reference(r) = f
    BY <1>0, <1>3, <2>3 DEF Reference
  <2>5. length <= Len(wire) => f.end = length
    BY <2>1, <2>3, LengthFields
  <2>6. ~(length <= Len(wire)) => f = NotFramed
    BY <2>2, <2>3 DEF LengthFraming
  <2>. QED  BY <2>2, <2>4, <2>5, <2>6, NotFramedType
<1>4. r.chunked \in BOOLEAN
  BY RequestType
<1>. QED  BY <1>2, <1>3, <1>4

\* A complete body takes nothing any more.
LEMMA FeedComplete ==
  ASSUME NEW d, complete(d), NEW input \in Seq(Bytes), NEW room
  PROVE  feed(d, input, room) = [decoder |-> d, consumed |-> 0, produced |-> <<>>]
<1>0. Len(input) \in Nat
  BY LenProperties
<1>. DEFINE f == CHOOSE f : IsAfter(f, d, input, room, Len(input))
<1>1. IsAfter(f, d, input, room, Len(input))
  BY <1>0, AfterExists
<1>2. feed(d, input, room) = f[Len(input)]
  BY DEF feed, IsAfter, AfterStep
<1>. HIDE DEF f
<1>3. \A n \in 0 .. Len(input) : f[n] = AfterStep(f, d, input, room, n)
  BY <1>1 DEF IsAfter
<1>4. PICK first : first = [decoder |-> d, consumed |-> 0, produced |-> <<>>]
  OBVIOUS
<1>5. \A byte : FeedByte(first, byte, room) = first
  BY <1>4 DEF FeedByte, complete
<1>. DEFINE Bad == {n \in 0 .. Len(input) : f[n] # first}
<1>6. Bad = {}
  <2>. SUFFICES ASSUME Bad # {} PROVE FALSE
    OBVIOUS
  <2>1. PICK m \in Bad : \A n \in Bad : m <= n
    <3>1. Bad \in SUBSET Nat
      BY <1>0
    <3>. QED  BY <3>1, Least
  <2>2. m # 0
    BY <1>0, <1>3, <1>4, <2>1 DEF AfterStep
  <2>3. m \in 0 .. Len(input) /\ m - 1 \in 0 .. Len(input) /\ ~(m <= m - 1)
    BY <1>0, <2>1, <2>2
  <2>4. f[m - 1] = first
    BY <2>1, <2>3
  <2>5. f[m] = FeedByte(f[m - 1], input[m], room)
    BY <1>3, <2>2, <2>3 DEF AfterStep
  <2>. QED  BY <1>5, <2>1, <2>4, <2>5
<1>. QED  BY <1>0, <1>2, <1>4, <1>6

-----------------------------------------------------------------------------
\* The inductive invariant.

Places == Waiting \cup {"begin", "loop", "receive", "feed", "ingest", "dispatch", "shutdown", "done"}

\* The handler is still asking for the request.
Asking == {"begin", "loop", "continue", "receive", "wait", "feed", "ingest", "dispatch"}

Statuses == HeadStatuses \cup {0, 200, 403, 417, 500}

Responses == [status : Statuses, units : Int, head : BOOLEAN]

\* The types, with those of the records.
Types ==
  /\ request \in Requests
  /\ clock \in 0 .. MaxTime /\ deadline \in 0 .. MaxTime /\ last_progress \in 0 .. MaxTime
  /\ stopping \in BOOLEAN /\ head \in BOOLEAN /\ expectation_checked \in BOOLEAN
  /\ writer \in BOOLEAN /\ finalized \in BOOLEAN
  /\ pc \in Places
  /\ received \in 0 .. HeadBytes + Len(Wire) /\ drained \in 0 .. MaxDrain
  /\ piece \in Seq(Bytes) /\ stored \in Seq(Bytes)
  /\ response \in Responses
  /\ sent \in Seq({"continue", "head", "body"})

\* The decoder keeps its limits and has counted whatever is stored; the head is whole.
BodyInv ==
  /\ Sound(decoder)
  /\ Len(stored) <= decoder.decoded
  /\ head => received >= HeadBytes
  /\ ~head => stored = <<>>
  /\ pc \in {"feed", "ingest"} => head

\* Bytes are taken before the total deadline: the one of a receive may expire while they
\* arrive, and the policy is asked again before they are used.
TimeInv ==
  /\ last_progress <= clock
  /\ pc = "begin" => ~head
  /\ pc = "ingest" => last_progress < TotalTimeout
  /\ RequestComplete /\ pc \notin {"feed", "done"} => last_progress < TotalTimeout

\* What may follow what the peer was sent.
Ordered(answers) ==
  \A i \in 1 .. Len(answers) :
    /\ answers[i] = "continue" => i = 1
    /\ answers[i] = "head" => \A j \in 1 .. i - 1 : answers[j] = "continue"
    /\ answers[i] = "body" => \E j \in 1 .. i - 1 : answers[j] = "head"

\* Before the final response the peer was sent nothing, or one interim response after
\* which no other is sent.
AnswerInv ==
  /\ Ordered(sent)
  /\ pc \in Asking => sent = <<>> \/ (sent = <<"continue">> /\ head /\ expectation_checked)
  /\ pc = "continue" => sent = <<>> /\ head /\ expectation_checked /\ ~RequestComplete
  /\ pc = "send" /\ response.head => sent \in {<<>>, <<"continue">>}
  /\ pc = "send" /\ ~response.head => \E j \in 1 .. Len(sent) : sent[j] = "head"

\* A head that has made its body too large has failed before the peer is invited.
InviteInv ==
  /\ head /\ ~request.chunked /\ request.content_length > MaxBodyBytes => decoder.failure # NoError
  /\ head /\ pc \in {"loop", "continue"} => decoder.failure = NoError
  /\ (\E i \in 1 .. Len(sent) : sent[i] = "continue") =>
       request.chunked \/ request.content_length <= MaxBodyBytes

ConnectionInv == Types /\ BodyInv /\ TimeInv /\ AnswerInv /\ InviteInv

-----------------------------------------------------------------------------
\* What the steps share.

\* Every deadline is representable, and none of the request is past the total one.
LEMMA Deadlines ==
  ASSUME Types
  PROVE  /\ \A reading \in BOOLEAN : next(reading) \in 0 .. MaxTime /\ next(reading) <= TotalTimeout
         /\ Budget(ResponseTimeout) \in 0 .. MaxTime /\ Budget(DrainTimeout) \in 0 .. MaxTime
<1>1. /\ clock \in 0 .. MaxTime /\ last_progress \in 0 .. MaxTime /\ MaxTime \in Nat
      /\ HeadersTimeout \in Nat /\ BodyTimeout \in Nat /\ TotalTimeout \in Nat /\ TotalTimeout <= MaxTime
      /\ ResponseTimeout \in Nat /\ DrainTimeout \in Nat
  BY HttpConnectionAssumptions DEF Types
<1>2. ASSUME NEW reading \in BOOLEAN
      PROVE  next(reading) \in 0 .. MaxTime /\ next(reading) <= TotalTimeout
  <2>1. PICK inactivity : inactivity = last_progress + (IF reading THEN BodyTimeout ELSE HeadersTimeout)
    OBVIOUS
  <2>2. inactivity \in Nat
    BY <1>1, <2>1
  <2>3. next(reading) = IF inactivity > MaxTime THEN TotalTimeout ELSE Min({inactivity, TotalTimeout})
    BY <2>1 DEF next, total
  <2>4. Min({inactivity, TotalTimeout}) = IF inactivity <= TotalTimeout THEN inactivity ELSE TotalTimeout
    BY <1>1, <2>2, MinMax
  <2>. QED  BY <1>1, <2>2, <2>3, <2>4
<1>3. ASSUME NEW timeout \in Nat
      PROVE  Budget(timeout) \in 0 .. MaxTime
  <2>1. Min({clock + timeout, MaxTime}) = IF clock + timeout <= MaxTime THEN clock + timeout ELSE MaxTime
    BY <1>1, MinMax
  <2>. QED  BY <1>1, <2>1 DEF Budget
<1>. QED  BY <1>1, <1>2, <1>3

\* A response begins with its head.
LEMMA Responding ==
  ASSUME Types, NEW status \in Statuses, NEW units \in Int, Respond(status, units)
  PROVE  /\ pc' = "send" /\ response' \in Responses /\ response'.head
         /\ deadline' \in 0 .. MaxTime
BY Deadlines DEF Respond, Responses

\* A status of the answers.
LEMMA StatusTypes ==
  /\ \A code : Status(code) \in Statuses
  /\ HeadStatuses \subseteq Statuses /\ {200, 400, 403, 417, 500} \subseteq Statuses
BY DEF Status, Statuses, HeadStatuses

\* What one turn of the ingestor leaves: the decoder keeps its limits, the stored bytes
\* are among those it has counted, and a failure stays.
LEMMA Ingesting ==
  ASSUME Types, BodyInv, Ingest \/ StorageFails
  PROVE  /\ Sound(decoder') /\ (decoder.failure # NoError => decoder'.failure # NoError)
         /\ piece' \in Seq(Bytes) /\ stored' \in Seq(Bytes) /\ Len(stored') <= decoder'.decoded
         /\ writer' \in BOOLEAN /\ finalized' \in BOOLEAN
         /\ \/ pc' = "send" /\ response' \in Responses /\ response'.head /\ deadline' \in 0 .. MaxTime
            \/ pc' = "done" /\ UNCHANGED <<deadline, response>>
            \/ pc' \in {"loop", "ingest"} /\ decoder'.failure = NoError /\ UNCHANGED <<deadline, response>>
<1>1. PICK progress : progress = feed(decoder, piece, OutputBytes)
  OBVIOUS
<1>2. /\ piece \in Seq(Bytes) /\ Len(piece) \in Nat /\ stored \in Seq(Bytes) /\ Len(stored) \in Nat
      /\ Sound(decoder) /\ decoder.decoded \in Nat /\ Len(stored) <= decoder.decoded
      /\ writer \in BOOLEAN /\ finalized \in BOOLEAN
  <2>1. /\ piece \in Seq(Bytes) /\ stored \in Seq(Bytes) /\ Sound(decoder)
        /\ Len(stored) <= decoder.decoded /\ writer \in BOOLEAN /\ finalized \in BOOLEAN
    BY DEF Types, BodyInv
  <2>2. decoder.decoded \in Nat
    BY <2>1 DEF Sound, Decoders
  <2>. QED  BY <2>1, <2>2, LenProperties
<1>3. Fed(progress, decoder, Len(piece))
  BY <1>1, <1>2, FeedSound
<1>4. PICK d : d = progress.decoder
  OBVIOUS
<1>5. /\ Sound(d) /\ d.decoded \in Nat /\ d.decoded = decoder.decoded + Len(progress.produced)
      /\ progress.produced \in Seq(Bytes) /\ Len(progress.produced) \in Nat
      /\ progress.consumed \in Nat /\ progress.consumed <= Len(piece)
      /\ decoder.failure # NoError => d.failure # NoError
  <2>1. /\ Sound(d) /\ d.decoded = decoder.decoded + Len(progress.produced) /\ progress \in Progresses
        /\ progress.consumed <= Len(piece) /\ (decoder.failure # NoError => d.failure # NoError)
    BY <1>3, <1>4 DEF Fed
  <2>2. progress.produced \in Seq(Bytes) /\ progress.consumed \in Nat
    BY <2>1 DEF Progresses
  <2>3. d.decoded \in Nat
    BY <2>1 DEF Sound, Decoders
  <2>. QED  BY <2>1, <2>2, <2>3, LenProperties
<1>6. decoder' = d
  BY <1>1, <1>4 DEF Ingest, StorageFails
<1>7. complete(d) \in BOOLEAN /\ request.memory \in BOOLEAN
  BY HttpConnectionAssumptions DEF complete, Types
<1>8. /\ <<>> \in Seq(Bytes) /\ Len(<<>>) <= d.decoded
  BY <1>5
<1>9. \/ /\ \E status \in Statuses : Respond(status, 0)
         /\ Release /\ UNCHANGED <<piece, finalized>>
      \/ /\ Leave /\ Release /\ UNCHANGED <<piece, finalized>>
      \/ /\ d.failure = NoError
         /\ piece' = SubSeq(piece, progress.consumed + 1, Len(piece))
         /\ stored' = stored \o progress.produced
         /\ writer' = (~complete(d) /\ (writer \/ (progress.produced # <<>> /\ ~request.memory)))
         /\ finalized' = (finalized \/ complete(d))
         /\ pc' = IF complete(d) \/ piece' = <<>> THEN "loop" ELSE "ingest"
         /\ UNCHANGED <<deadline, response>>
  BY <1>1, <1>4, StatusTypes DEF Ingest, StorageFails
<1>10. CASE (\E status \in Statuses : Respond(status, 0)) /\ Release /\ UNCHANGED <<piece, finalized>>
  <2>1. PICK status \in Statuses : Respond(status, 0)
    BY <1>10
  <2>2. /\ pc' = "send" /\ response' \in Responses /\ response'.head
        /\ deadline' \in 0 .. MaxTime
    BY <2>1, Responding
  <2>3. /\ piece' = piece /\ finalized' = finalized /\ writer' = FALSE /\ stored' = <<>>
    BY <1>10 DEF Release
  <2>. QED  BY <1>2, <1>5, <1>6, <1>8, <2>2, <2>3
<1>11. CASE Leave /\ Release /\ UNCHANGED <<piece, finalized>>
  BY <1>2, <1>5, <1>6, <1>8, <1>11 DEF Release, Leave
<1>12. CASE /\ d.failure = NoError
            /\ piece' = SubSeq(piece, progress.consumed + 1, Len(piece))
            /\ stored' = stored \o progress.produced
            /\ writer' = (~complete(d) /\ (writer \/ (progress.produced # <<>> /\ ~request.memory)))
            /\ finalized' = (finalized \/ complete(d))
            /\ pc' = IF complete(d) \/ piece' = <<>> THEN "loop" ELSE "ingest"
            /\ UNCHANGED <<deadline, response>>
  <2>1. piece' \in Seq(Bytes)
    <3>1. \A i \in progress.consumed + 1 .. Len(piece) : piece[i] \in Bytes
      BY <1>2, <1>5, ElementOfSeq
    <3>. QED  BY <1>2, <1>5, <1>12, <3>1, SubSeqProperties
  <2>2. stored' \in Seq(Bytes) /\ Len(stored') = Len(stored) + Len(progress.produced)
    BY <1>2, <1>5, <1>12, ConcatProperties
  <2>3. Len(stored') <= decoder'.decoded
    BY <1>2, <1>5, <1>6, <2>2
  <2>4. writer' \in BOOLEAN /\ finalized' \in BOOLEAN
    BY <1>2, <1>7, <1>12
  <2>. QED  BY <1>5, <1>6, <1>12, <2>1, <2>2, <2>3, <2>4
<1>. QED  BY <1>9, <1>10, <1>11, <1>12

\* What a receive leaves, in each of its four cases.
LEMMA Receiving ==
  ASSUME Types, BodyInv, ReceiveBytes
  PROVE  /\ received' \in 0 .. HeadBytes + Len(Wire) /\ received' > received
         /\ last_progress' = IF last_progress <= clock THEN clock ELSE last_progress
         /\ UNCHANGED <<request, clock, stopping, expectation_checked, sent, drained>>
         /\ \/ /\ ~head /\ pc' = "send" /\ response' \in Responses /\ response'.head
               /\ deadline' \in 0 .. MaxTime /\ UNCHANGED <<head, ingestVars>>
            \/ /\ ~head /\ pc' = "loop" /\ UNCHANGED <<head, deadline, response, ingestVars>>
            \/ /\ ~head /\ head' = TRUE /\ received' >= HeadBytes
               /\ decoder' = Decoder(request.chunked, request.content_length)
               /\ finalized' \in BOOLEAN /\ piece' \in Seq(Bytes)
               /\ pc' = "feed" /\ UNCHANGED <<deadline, response, writer, stored>>
            \/ /\ head /\ piece' \in Seq(Bytes) /\ pc' = "feed"
               /\ UNCHANGED <<head, deadline, response, decoder, writer, finalized, stored>>
<1>1. /\ received \in 0 .. HeadBytes + Len(Wire) /\ HeadBytes \in Nat \ {0} /\ ChunkBytes \in Nat
      /\ Wire \in Seq(Bytes) /\ Len(Wire) \in Nat
      /\ last_progress \in Int /\ clock \in Int /\ (head => received >= HeadBytes)
  <2>1. Wire \in Seq(Bytes)
    BY HttpConnectionAssumptions DEF Types, Wire
  <2>2. received \in 0 .. HeadBytes + Len(Wire) /\ last_progress \in Int /\ clock \in Int
    BY HttpConnectionAssumptions DEF Types
  <2>3. head => received >= HeadBytes
    BY DEF BodyInv
  <2>4. HeadBytes \in Nat \ {0} /\ ChunkBytes \in Nat
    BY HttpConnectionAssumptions
  <2>. QED  BY <2>1, <2>2, <2>3, <2>4, LenProperties
<1>. DEFINE body(n) == SubSeq(Wire, Max({received - HeadBytes, 0}) + 1, (received + n) - HeadBytes)
            Took(n) ==
              \/ /\ ~head
                 /\ \E status \in HeadStatuses : Respond(status, 0)
                 /\ UNCHANGED <<head, ingestVars>>
              \/ /\ ~head /\ pc' = "loop" /\ UNCHANGED <<head, deadline, response, ingestVars>>
              \/ /\ ~head /\ HeadComplete(received + n)
                 /\ head' = TRUE
                 /\ decoder' = Decoder(request.chunked, request.content_length)
                 /\ finalized' = complete(decoder')
                 /\ piece' = body(n)
                 /\ pc' = "feed" /\ UNCHANGED <<deadline, response, writer, stored>>
              \/ /\ head
                 /\ piece' = body(n)
                 /\ pc' = "feed"
                 /\ UNCHANGED <<head, deadline, response, decoder, writer, finalized, stored>>
<1>2. PICK n \in 1 .. Min({ChunkBytes, Available}) :
        /\ received' = received + n
        /\ last_progress' = Max({last_progress, clock})
        /\ Took(n)
  BY DEF ReceiveBytes
<1>3. UNCHANGED <<request, clock, stopping, expectation_checked, sent, drained>>
  BY DEF ReceiveBytes
<1>4. n \in Nat \ {0} /\ received + n <= HeadBytes + Len(Wire)
  <2>1. Available \in Int /\ Available = HeadBytes + Len(Wire) - received
    BY <1>1 DEF Available
  <2>2. Min({ChunkBytes, Available}) = IF ChunkBytes <= Available THEN ChunkBytes ELSE Available
    BY <1>1, <2>1, MinMax
  <2>. QED  BY <1>1, <1>2, <2>1, <2>2
<1>5. received' \in 0 .. HeadBytes + Len(Wire) /\ received' > received
  BY <1>1, <1>2, <1>4
<1>6. last_progress' = IF last_progress <= clock THEN clock ELSE last_progress
  BY <1>1, <1>2, MinMax
<1>7. received + n >= HeadBytes => body(n) \in Seq(Bytes)
  <2>1. PICK m : m = Max({received - HeadBytes, 0}) + 1
    OBVIOUS
  <2>2. Max({received - HeadBytes, 0}) = IF received - HeadBytes <= 0 THEN 0 ELSE received - HeadBytes
    <3>1. received - HeadBytes \in Int /\ 0 \in Int
      BY <1>1
    <3>. QED  BY <3>1, MinMax
  <2>3. m \in Nat \ {0}
    BY <1>1, <2>1, <2>2
  <2>4. \A i \in m .. (received + n) - HeadBytes : Wire[i] \in Bytes
    <3>1. \A i \in m .. (received + n) - HeadBytes : i \in 1 .. Len(Wire)
      BY <1>1, <1>4, <2>3
    <3>. QED  BY <1>1, <3>1, ElementOfSeq
  <2>5. (received + n) - HeadBytes \in Int
    BY <1>1, <1>4
  <2>. QED  BY <2>1, <2>3, <2>4, <2>5, SubSeqProperties
<1>8. HeadComplete(received + n) => received + n >= HeadBytes
  BY DEF HeadComplete
<1>9. head => received + n >= HeadBytes
  BY <1>1, <1>4
<1>10. complete(decoder)' \in BOOLEAN
  BY DEF complete
<1>. HIDE DEF body
<1>11. CASE ~head /\ (\E status \in HeadStatuses : Respond(status, 0)) /\ UNCHANGED <<head, ingestVars>>
  <2>1. PICK status \in Statuses : Respond(status, 0)
    BY <1>11, StatusTypes
  <2>2. pc' = "send" /\ response' \in Responses /\ response'.head /\ deadline' \in 0 .. MaxTime
    BY <2>1, Responding
  <2>. QED  BY <1>3, <1>5, <1>6, <1>11, <2>2
<1>12. CASE ~head /\ pc' = "loop" /\ UNCHANGED <<head, deadline, response, ingestVars>>
  BY <1>3, <1>5, <1>6, <1>12
<1>13. CASE /\ ~head /\ HeadComplete(received + n)
            /\ head' = TRUE
            /\ decoder' = Decoder(request.chunked, request.content_length)
            /\ finalized' = complete(decoder')
            /\ piece' = body(n)
            /\ pc' = "feed" /\ UNCHANGED <<deadline, response, writer, stored>>
  BY <1>2, <1>3, <1>5, <1>6, <1>7, <1>8, <1>10, <1>13
<1>14. CASE /\ head
            /\ piece' = body(n)
            /\ pc' = "feed"
            /\ UNCHANGED <<head, deadline, response, decoder, writer, finalized, stored>>
  BY <1>3, <1>5, <1>6, <1>7, <1>9, <1>14
<1>. QED  BY <1>2, <1>11, <1>12, <1>13, <1>14

\* The steps.
LEMMA Steps ==
  ASSUME [Next]_vars
  PROVE  \/ Begin \/ Expectation \/ Receive \/ FeedBegin \/ Dispatch \/ Shutdown \/ InterruptedWait
         \/ Ingest \/ SendContinue \/ ReceiveBytes \/ ReceiveEnd \/ Send \/ Drain
         \/ StorageFails \/ SocketFails \/ Throws \/ RequestStop \/ Tick \/ UNCHANGED vars
BY DEF Next, Handler, Environment, Returned

-----------------------------------------------------------------------------
\* The steps keep the types.

LEMMA TypesStep ==
  ASSUME Types, BodyInv, [Next]_vars
  PROVE  Types'
<1>0. /\ {TRUE, FALSE, head} \subseteq BOOLEAN /\ MaxTime \in Nat /\ MaxDrain \in Nat
      /\ \A reading \in BOOLEAN : next(reading) \in 0 .. MaxTime
      /\ Budget(DrainTimeout) \in 0 .. MaxTime
  BY Deadlines, HttpConnectionAssumptions DEF Types
<1>1. CASE Begin
  BY <1>1, <1>0 DEF Begin, Types, Wire, Places, Waiting, requestVars, ingestVars, answerVars
<1>2. CASE Expectation
  <2>1. \/ pc' = "send" /\ response' \in Responses /\ deadline' \in 0 .. MaxTime
        \/ pc' = "continue" /\ deadline' \in 0 .. MaxTime /\ response' = response
        \/ pc' \in {"dispatch", "receive"} /\ UNCHANGED <<deadline, response>>
    <3>1. \/ Respond(417, 0)
          \/ pc' = "continue" /\ deadline' = next(TRUE) /\ UNCHANGED response
          \/ pc' \in {"dispatch", "receive"} /\ UNCHANGED <<deadline, response>>
      BY <1>2 DEF Expectation
    <3>2. Respond(417, 0) => pc' = "send" /\ response' \in Responses /\ deadline' \in 0 .. MaxTime
      BY StatusTypes, Responding
    <3>. QED  BY <1>0, <3>1, <3>2
  <2>2. /\ expectation_checked' = head
        /\ UNCHANGED <<request, clock, stopping, last_progress, received, head, ingestVars, sent, drained>>
    BY <1>2 DEF Expectation
  <2>. QED  BY <1>0, <2>1, <2>2 DEF Types, Wire, Places, Waiting, ingestVars
<1>3. CASE Receive
  BY <1>3, <1>0 DEF Receive, Types, Wire, Places, Waiting, requestVars, ingestVars, answerVars
<1>4. CASE FeedBegin
  BY <1>4, <1>0 DEF FeedBegin, Types, Wire, Places, Waiting, requestVars, ingestVars, answerVars
<1>5. CASE Dispatch
  <2>1. \/ \E status \in {200, 400, 403, 500}, units \in {0, 1} : Respond(status, units)
        \/ Leave
    <3>1. 0 .. 1 = {0, 1}
      OBVIOUS
    <3>. QED  BY <1>5, <3>1 DEF Dispatch
  <2>2. \/ pc' = "send" /\ response' \in Responses /\ deadline' \in 0 .. MaxTime
        \/ pc' = "done" /\ UNCHANGED <<deadline, response>>
    <3>1. ASSUME NEW status \in {200, 400, 403, 500}, NEW units \in {0, 1}, Respond(status, units)
          PROVE  pc' = "send" /\ response' \in Responses /\ deadline' \in 0 .. MaxTime
      BY <3>1, StatusTypes, Responding
    <3>2. Leave => pc' = "done" /\ UNCHANGED <<deadline, response>>
      BY DEF Leave
    <3>. QED  BY <2>1, <3>1, <3>2
  <2>3. UNCHANGED <<request, clock, stopping, last_progress, requestVars, sent, drained>>
    BY <1>5 DEF Dispatch
  <2>. QED  BY <2>2, <2>3 DEF Types, Wire, Places, Waiting, requestVars, ingestVars
<1>6. CASE Shutdown
  BY <1>6, <1>0 DEF Shutdown, Types, Wire, Places, Waiting, requestVars, ingestVars, answerVars
<1>7. CASE InterruptedWait \/ SocketFails \/ Throws
  <2>1. /\ pc' = "done"
        /\ UNCHANGED <<deadline, response, request, clock, stopping, last_progress, requestVars, sent, drained>>
    BY <1>7 DEF InterruptedWait, SocketFails, Throws, LeaveWait, Leave
  <2>. QED  BY <2>1 DEF Types, Wire, Places, requestVars, ingestVars
<1>8. CASE Ingest \/ StorageFails
  <2>1. UNCHANGED <<request, clock, stopping, last_progress, received, head, expectation_checked, sent, drained>>
    BY <1>8 DEF Ingest, StorageFails
  <2>2. /\ piece' \in Seq(Bytes) /\ stored' \in Seq(Bytes)
        /\ writer' \in BOOLEAN /\ finalized' \in BOOLEAN
        /\ pc' \in {"send", "done", "loop", "ingest"} /\ response' \in Responses
        /\ deadline' \in 0 .. MaxTime
    <3>1. deadline \in 0 .. MaxTime /\ response \in Responses
      BY DEF Types
    <3>. QED  BY <1>8, <3>1, Ingesting
  <2>. QED  BY <2>1, <2>2 DEF Types, Wire, Places, Waiting
<1>9. CASE SendContinue
  <2>1. /\ sent' = Append(sent, "continue") /\ pc' = "receive"
        /\ UNCHANGED <<request, clock, stopping, deadline, last_progress, requestVars, response, drained>>
    BY <1>9 DEF SendContinue
  <2>2. sent' \in Seq({"continue", "head", "body"})
    BY <2>1, AppendProperties DEF Types
  <2>. QED  BY <2>1, <2>2 DEF Types, Wire, Places, requestVars, ingestVars
<1>10. CASE ReceiveBytes
  <2>1. /\ received' \in 0 .. HeadBytes + Len(Wire) /\ last_progress' \in {clock, last_progress}
        /\ UNCHANGED <<request, clock, stopping, expectation_checked, sent, drained>>
    BY <1>10, Receiving
  <2>2. /\ piece' \in Seq(Bytes) /\ stored' \in Seq(Bytes)
        /\ writer' \in BOOLEAN /\ finalized' \in BOOLEAN /\ head' \in BOOLEAN
        /\ pc' \in {"send", "loop", "feed"} /\ response' \in Responses
        /\ deadline' \in 0 .. MaxTime
    <3>1. /\ deadline \in 0 .. MaxTime /\ response \in Responses /\ piece \in Seq(Bytes)
          /\ stored \in Seq(Bytes) /\ writer \in BOOLEAN /\ finalized \in BOOLEAN /\ head \in BOOLEAN
      BY DEF Types
    <3>. QED  BY <1>10, <3>1, Receiving DEF ingestVars
  <2>. QED  BY <2>1, <2>2 DEF Types, Wire, Places, Waiting
<1>11. CASE ReceiveEnd
  <2>1. \/ pc' = "send" /\ response' \in Responses /\ deadline' \in 0 .. MaxTime
        \/ pc' = "done" /\ UNCHANGED <<deadline, response>>
    <3>1. Respond(400, 0) \/ Leave
      BY <1>11 DEF ReceiveEnd
    <3>2. Respond(400, 0) => pc' = "send" /\ response' \in Responses /\ deadline' \in 0 .. MaxTime
      BY StatusTypes, Responding
    <3>. QED  BY <3>1, <3>2 DEF Leave
  <2>2. /\ writer' = FALSE /\ stored' = <<>>
        /\ UNCHANGED <<request, clock, stopping, last_progress, received, head,
                       expectation_checked, decoder, piece, finalized, sent, drained>>
    BY <1>11 DEF ReceiveEnd, Release
  <2>3. /\ stored' \in Seq(Bytes) /\ pc' \in Places /\ deadline' \in 0 .. MaxTime
        /\ response' \in Responses /\ writer' \in BOOLEAN
    <3>1. stored' \in Seq(Bytes) /\ writer' \in BOOLEAN
      <4>1. stored' = <<>> /\ <<>> \in Seq(Bytes)
        BY <2>2
      <4>2. writer' \in BOOLEAN
        BY <2>2, Zenon
      <4>. QED  BY <4>1, <4>2
    <3>2. deadline \in 0 .. MaxTime /\ response \in Responses
      BY DEF Types
    <3>3. pc' \in Places
      BY <2>1 DEF Places, Waiting
    <3>. QED  BY <2>1, <3>1, <3>2, <3>3
  <2>. QED  BY <2>2, <2>3 DEF Types, Wire
<1>12. CASE Send
  <2>1. PICK answer \in {"continue", "head", "body"} : sent' = Append(sent, answer)
    BY <1>12 DEF Send
  <2>2. sent' \in Seq({"continue", "head", "body"})
    BY <2>1, AppendProperties DEF Types
  <2>3. response' \in Responses
    <3>1. response \in Responses
      BY DEF Types
    <3>2. \/ response' = [response EXCEPT !.head = FALSE]
          \/ response' = [response EXCEPT !.units = response.units - 1]
      BY <1>12 DEF Send
    <3>3. response.units - 1 \in Int
      BY <3>1 DEF Responses
    <3>. QED  BY <3>1, <3>2, <3>3 DEF Responses
  <2>4. /\ pc' \in {"send", "shutdown"}
        /\ UNCHANGED <<request, clock, stopping, deadline, last_progress, requestVars, drained>>
    BY <1>12 DEF Send
  <2>. QED  BY <2>2, <2>3, <2>4 DEF Types, Wire, Places, Waiting, requestVars, ingestVars
<1>13. CASE Drain
  <2>1. drained' \in 0 .. MaxDrain
    BY <1>0, <1>13 DEF Drain, Types
  <2>2. /\ pc' \in {"done", "drain"}
        /\ UNCHANGED <<request, clock, stopping, deadline, last_progress, requestVars, response, sent>>
    BY <1>13 DEF Drain
  <2>. QED  BY <2>1, <2>2 DEF Types, Wire, Places, Waiting, requestVars, ingestVars
<1>14. CASE RequestStop
  BY <1>14 DEF RequestStop, Types, Wire, Places, Waiting, requestVars, ingestVars, answerVars
<1>15. CASE Tick
  BY <1>15, <1>0 DEF Tick, Types, Wire, Places, Waiting, requestVars, ingestVars, answerVars
<1>16. CASE UNCHANGED vars
  BY <1>16 DEF Types, Wire, vars, requestVars, ingestVars, answerVars
<1>. QED  BY Steps, <1>1, <1>2, <1>3, <1>4, <1>5, <1>6, <1>7, <1>8, <1>9, <1>10, <1>11, <1>12,
             <1>13, <1>14, <1>15, <1>16

-----------------------------------------------------------------------------
\* The other conjuncts.

\* The steps that leave the request and its progress alone.
LEMMA Quiet ==
  ASSUME \/ Expectation \/ Receive \/ Dispatch \/ Shutdown \/ InterruptedWait \/ SendContinue
         \/ Send \/ Drain \/ SocketFails \/ Throws
  PROVE  /\ UNCHANGED <<request, clock, last_progress, received, head, decoder, finalized, stored>>
         /\ pc \notin {"feed", "done"} \/ pc' = "done"
         /\ pc' \notin {"begin", "loop", "feed", "ingest"}
<1>1. CASE Expectation
  BY <1>1 DEF Expectation, Respond, ingestVars
<1>2. CASE Receive
  BY <1>2 DEF Receive, requestVars, ingestVars
<1>3. CASE Dispatch
  BY <1>3 DEF Dispatch, Respond, Leave, requestVars, ingestVars
<1>4. CASE Shutdown
  BY <1>4 DEF Shutdown, requestVars, ingestVars
<1>5. CASE InterruptedWait \/ SocketFails \/ Throws
  BY <1>5 DEF InterruptedWait, SocketFails, Throws, LeaveWait, Leave, requestVars, ingestVars
<1>6. CASE SendContinue
  BY <1>6 DEF SendContinue, requestVars, ingestVars
<1>7. CASE Send
  BY <1>7 DEF Send, requestVars, ingestVars
<1>8. CASE Drain
  BY <1>8 DEF Drain, requestVars, ingestVars
<1>. QED  BY <1>1, <1>2, <1>3, <1>4, <1>5, <1>6, <1>7, <1>8

\* The steps that change nothing of the connection but its clock and its stop token.
LEMMA Outside ==
  ASSUME Types, Tick \/ RequestStop \/ UNCHANGED vars
  PROVE  /\ UNCHANGED <<request, pc, deadline, last_progress, requestVars, answerVars>>
         /\ clock' >= clock
<1>1. clock \in Int
  BY HttpConnectionAssumptions DEF Types
<1>. QED  BY <1>1 DEF Tick, RequestStop, vars

LEMMA BodyStep ==
  ASSUME Types, BodyInv, [Next]_vars
  PROVE  BodyInv'
<1>1. CASE Begin
  BY <1>1 DEF Begin, BodyInv, requestVars, ingestVars
<1>2. CASE \/ Expectation \/ Receive \/ Dispatch \/ Shutdown \/ InterruptedWait \/ SendContinue
           \/ Send \/ Drain \/ SocketFails \/ Throws
  BY <1>2, Quiet DEF BodyInv
<1>3. CASE FeedBegin
  BY <1>3 DEF FeedBegin, BodyInv, requestVars, ingestVars
<1>4. CASE Ingest \/ StorageFails
  <2>1. Sound(decoder') /\ Len(stored') <= decoder'.decoded
    BY <1>4, Ingesting
  <2>2. pc = "ingest" /\ UNCHANGED <<head, received>>
    BY <1>4 DEF Ingest, StorageFails
  <2>. QED  BY <2>1, <2>2 DEF BodyInv
<1>5. CASE ReceiveBytes
  <2>1. received \in Nat /\ received' \in Nat /\ received' > received /\ HeadBytes \in Nat
    <3>1. HeadBytes \in Nat /\ Len(Wire) \in Nat
      BY HttpConnectionAssumptions, LenProperties DEF Types, Wire
    <3>2. received \in 0 .. HeadBytes + Len(Wire) /\ received' \in 0 .. HeadBytes + Len(Wire) /\ received' > received
      BY <1>5, Receiving DEF Types
    <3>. QED  BY <3>1, <3>2
  <2>2. CASE ~head /\ pc' \in {"send", "loop"} /\ UNCHANGED <<head, ingestVars>>
    BY <2>2 DEF BodyInv, ingestVars
  <2>3. CASE /\ ~head /\ head' = TRUE /\ received' >= HeadBytes /\ stored' = stored
             /\ decoder' = Decoder(request.chunked, request.content_length)
    <3>1. request.chunked \in BOOLEAN /\ request.content_length \in Nat
      BY HttpConnectionAssumptions DEF Types
    <3>2. Sound(decoder') /\ decoder'.decoded = 0
      BY <2>3, <3>1, DecoderSound
    <3>3. stored' = <<>> /\ Len(stored') = 0
      BY <2>3 DEF BodyInv
    <3>. QED  BY <2>3, <3>2, <3>3 DEF BodyInv
  <2>4. CASE head /\ UNCHANGED <<head, decoder, stored>>
    BY <2>1, <2>4 DEF BodyInv
  <2>. QED  BY <1>5, <2>2, <2>3, <2>4, Receiving
<1>6. CASE ReceiveEnd
  <2>1. /\ stored' = <<>> /\ pc' \in {"done", "send"} /\ UNCHANGED <<received, head, decoder>>
    BY <1>6 DEF ReceiveEnd, Release, Leave, Respond
  <2>2. Len(stored') <= decoder'.decoded
    <3>1. decoder.decoded \in Nat
      BY DEF BodyInv, Sound, Decoders
    <3>. QED  BY <2>1, <3>1
  <2>. QED  BY <2>1, <2>2 DEF BodyInv
<1>7. CASE Tick \/ RequestStop \/ UNCHANGED vars
  <2>1. UNCHANGED <<pc, requestVars>>
    BY <1>7, Outside
  <2>. QED  BY <2>1 DEF BodyInv, requestVars, ingestVars
<1>. QED  BY Steps, <1>1, <1>2, <1>3, <1>4, <1>5, <1>6, <1>7

LEMMA TimeStep ==
  ASSUME Types, BodyInv, TimeInv, [Next]_vars
  PROVE  TimeInv'
<1>0. /\ clock \in Nat /\ last_progress \in Nat /\ TotalTimeout \in Nat /\ last_progress <= clock
      /\ head \in BOOLEAN
  BY HttpConnectionAssumptions DEF Types, TimeInv
<1>1. CASE Begin
  <2>1. /\ ~head /\ head' = head /\ clock' = clock /\ pc' \in {"loop", "done"}
        /\ last_progress' \in 0 .. clock \/ last_progress' = last_progress
    BY <1>1 DEF Begin, TimeInv, requestVars
  <2>. QED  BY <1>0, <2>1 DEF TimeInv, RequestComplete
<1>2. CASE \/ Expectation \/ Receive \/ Dispatch \/ Shutdown \/ InterruptedWait \/ SendContinue
           \/ Send \/ Drain \/ SocketFails \/ Throws
  BY <1>2, Quiet DEF TimeInv, RequestComplete
<1>3. CASE FeedBegin
  <2>0. /\ UNCHANGED <<clock, last_progress>> /\ deadline' = next(TRUE)
        /\ pc' = IF Interrupted(deadline') THEN "done" ELSE "ingest"
    BY <1>3 DEF FeedBegin
  <2>1. deadline' \in 0 .. MaxTime /\ deadline' <= TotalTimeout
    <3>1. \A reading \in BOOLEAN : next(reading) \in 0 .. MaxTime /\ next(reading) <= TotalTimeout
      BY Deadlines
    <3>. QED  BY <2>0, <3>1, Zenon
  <2>2. pc' = "done" \/ (pc' = "ingest" /\ ~(clock >= deadline'))
    BY <2>0 DEF Interrupted
  <2>3. pc' = "done" \/ (pc' = "ingest" /\ last_progress' < TotalTimeout)
    <3>1. MaxTime \in Nat
      BY HttpConnectionAssumptions
    <3>2. last_progress' = last_progress
      BY <2>0
    <3>3. ~(clock >= deadline') => last_progress < TotalTimeout
      BY <1>0, <2>1, <3>1
    <3>. QED  BY <2>2, <3>2, <3>3
  <2>. QED  BY <1>0, <2>0, <2>3 DEF TimeInv
<1>4. CASE Ingest \/ StorageFails
  <2>1. /\ pc = "ingest" /\ UNCHANGED <<clock, last_progress>> /\ last_progress < TotalTimeout
        /\ pc' # "begin"
    BY <1>4, Ingesting DEF Ingest, StorageFails, TimeInv
  <2>. QED  BY <1>0, <2>1 DEF TimeInv
<1>5. CASE ReceiveBytes
  <2>1. /\ clock' = clock /\ last_progress' <= clock
        /\ pc' = "feed" \/ (pc' \in {"send", "loop"} /\ ~head')
    <3>1. clock' = clock /\ last_progress' = IF last_progress <= clock THEN clock ELSE last_progress
      BY <1>5, Receiving
    <3>2. pc' = "feed" \/ (pc' \in {"send", "loop"} /\ ~head /\ head' = head)
      BY <1>5, Receiving
    <3>. QED  BY <1>0, <3>1, <3>2
  <2>. QED  BY <2>1 DEF TimeInv, RequestComplete
<1>6. CASE ReceiveEnd
  <2>1. /\ pc = "wait" /\ pc' \in {"done", "send"}
        /\ UNCHANGED <<clock, last_progress, head, decoder, finalized>>
    BY <1>6 DEF ReceiveEnd, Leave, Respond
  <2>. QED  BY <2>1 DEF TimeInv, RequestComplete
<1>7. CASE Tick \/ RequestStop \/ UNCHANGED vars
  <2>1. UNCHANGED <<pc, last_progress, head, decoder, finalized>> /\ clock' >= clock
    BY <1>7, Outside DEF requestVars, ingestVars
  <2>2. last_progress' <= clock'
    <3>1. clock' \in Int
      BY <1>7, <1>0 DEF Tick, RequestStop, vars
    <3>. QED  BY <1>0, <2>1, <3>1
  <2>. QED  BY <2>1, <2>2 DEF TimeInv, RequestComplete
<1>. QED  BY Steps, <1>1, <1>2, <1>3, <1>4, <1>5, <1>6, <1>7

\* The two extensions of what was sent.
LEMMA OrderedAppend ==
  ASSUME NEW answers \in Seq({"continue", "head", "body"}), Ordered(answers)
  PROVE  /\ answers = <<>> => Ordered(Append(answers, "continue"))
         /\ answers \in {<<>>, <<"continue">>} => Ordered(Append(answers, "head"))
         /\ (\E j \in 1 .. Len(answers) : answers[j] = "head") => Ordered(Append(answers, "body"))
         /\ Len(answers) \in Nat
<1>1. Len(answers) \in Nat
  BY LenProperties
<1>2. ASSUME NEW last \in {"continue", "head", "body"}
      PROVE  /\ Len(Append(answers, last)) = Len(answers) + 1
             /\ \A j \in 1 .. Len(answers) : Append(answers, last)[j] = answers[j]
             /\ Append(answers, last)[Len(answers) + 1] = last
  BY <1>1, AppendProperties
<1>3. ASSUME answers = <<>> PROVE Ordered(Append(answers, "continue"))
  BY <1>1, <1>2, <1>3 DEF Ordered
<1>4. ASSUME answers \in {<<>>, <<"continue">>} PROVE Ordered(Append(answers, "head"))
  <2>1. \A j \in 1 .. Len(answers) : answers[j] = "continue" /\ j = 1
    <3>1. CASE answers = <<>>
      BY <3>1
    <3>2. CASE answers = <<"continue">>
      <4>1. Len(answers) = 1 /\ answers[1] = "continue"
        BY <3>2
      <4>. QED  BY <4>1
    <3>. QED  BY <1>4, <3>1, <3>2
  <2>. QED  BY <1>1, <1>2, <2>1 DEF Ordered
<1>5. ASSUME NEW h \in 1 .. Len(answers), answers[h] = "head" PROVE Ordered(Append(answers, "body"))
  <2>1. PICK longer : longer = Append(answers, "body")
    OBVIOUS
  <2>2. /\ Len(longer) = Len(answers) + 1 /\ longer[Len(answers) + 1] = "body"
        /\ \A j \in 1 .. Len(answers) : longer[j] = answers[j]
    BY <1>2, <2>1
  <2>3. ASSUME NEW i \in 1 .. Len(longer)
        PROVE  /\ longer[i] = "continue" => i = 1
               /\ longer[i] = "head" => \A j \in 1 .. i - 1 : longer[j] = "continue"
               /\ longer[i] = "body" => \E j \in 1 .. i - 1 : longer[j] = "head"
    <3>1. CASE i = Len(answers) + 1
      BY <1>1, <1>5, <2>2, <3>1
    <3>2. CASE i \in 1 .. Len(answers)
      BY <1>1, <2>2, <3>2 DEF Ordered
    <3>. QED  BY <1>1, <2>2, <3>1, <3>2
  <2>. QED  BY <2>1, <2>3 DEF Ordered
<1>. QED  BY <1>1, <1>3, <1>4, <1>5

LEMMA AnswerStep ==
  ASSUME Types, BodyInv, AnswerInv, [Next]_vars
  PROVE  AnswerInv'
<1>0. /\ sent \in Seq({"continue", "head", "body"}) /\ Ordered(sent) /\ Len(sent) \in Nat
      /\ head \in BOOLEAN
  BY LenProperties DEF Types, AnswerInv
<1>1. CASE Begin
  BY <1>1 DEF Begin, AnswerInv, Asking, RequestComplete, requestVars, ingestVars, answerVars
<1>2. CASE Expectation
  <2>1. /\ pc = "loop" /\ sent' = sent /\ UNCHANGED <<head, decoder, finalized>>
        /\ expectation_checked' = head
    BY <1>2 DEF Expectation, ingestVars
  <2>2. sent = <<>> \/ (sent = <<"continue">> /\ head /\ expectation_checked)
    BY <2>1 DEF AnswerInv, Asking
  <2>3. \/ Taken = "unsupported" /\ Respond(417, 0)
        \/ Taken = "continue" /\ ~RequestComplete /\ pc' = "continue"
        \/ pc' \in {"dispatch", "receive"}
    BY <1>2 DEF Expectation
  <2>4. CASE Respond(417, 0)
    <3>1. pc' = "send" /\ response'.head = TRUE
      BY <2>4 DEF Respond
    <3>. QED  BY <1>0, <2>1, <2>2, <3>1 DEF AnswerInv, Asking
  <2>5. CASE Taken = "continue" /\ ~RequestComplete /\ pc' = "continue"
    <3>1. head /\ ~expectation_checked
      BY <2>5 DEF Taken
    <3>2. sent = <<>>
      BY <2>2, <3>1
    <3>. QED  BY <1>0, <2>1, <2>5, <3>1, <3>2 DEF AnswerInv, Asking, RequestComplete
  <2>6. CASE pc' \in {"dispatch", "receive"}
    BY <1>0, <2>1, <2>2, <2>6 DEF AnswerInv, Asking
  <2>. QED  BY <2>3, <2>4, <2>5, <2>6
<1>3. CASE Receive \/ FeedBegin \/ Shutdown
  <2>1. /\ pc \in {"receive", "feed", "shutdown"} /\ pc' \in {"wait", "ingest", "drain", "done"}
        /\ pc = "shutdown" => pc' \in {"drain", "done"}
        /\ UNCHANGED <<sent, head, expectation_checked>>
    BY <1>3 DEF Receive, FeedBegin, Shutdown, requestVars, answerVars
  <2>. QED  BY <1>0, <2>1 DEF AnswerInv, Asking
<1>4. CASE Dispatch \/ ReceiveEnd \/ Ingest \/ StorageFails \/ ReceiveBytes
  <2>1. pc \in {"dispatch", "wait", "ingest"} /\ UNCHANGED <<sent, expectation_checked>>
    BY <1>4 DEF Dispatch, ReceiveEnd, Ingest, StorageFails, ReceiveBytes, requestVars
  <2>2. sent = <<>> \/ (sent = <<"continue">> /\ head /\ expectation_checked)
    BY <2>1 DEF AnswerInv, Asking
  <2>3. \/ pc' = "done" \/ (pc' = "send" /\ response'.head)
        \/ pc' \in {"loop", "ingest", "feed"}
    <3>1. CASE Dispatch
      BY <3>1 DEF Dispatch, Respond, Leave
    <3>2. CASE ReceiveEnd
      BY <3>2 DEF ReceiveEnd, Respond, Leave
    <3>3. CASE Ingest \/ StorageFails
      BY <3>3, Ingesting
    <3>4. CASE ReceiveBytes
      BY <3>4, Receiving
    <3>. QED  BY <1>4, <3>1, <3>2, <3>3, <3>4
  <2>4. head => head'
    <3>1. CASE ReceiveBytes
      BY <3>1, Receiving
    <3>2. CASE Dispatch \/ ReceiveEnd \/ Ingest \/ StorageFails
      BY <3>2 DEF Dispatch, ReceiveEnd, Ingest, StorageFails, requestVars
    <3>. QED  BY <1>4, <3>1, <3>2
  <2>. QED  BY <1>0, <2>1, <2>2, <2>3, <2>4 DEF AnswerInv, Asking
<1>5. CASE InterruptedWait \/ SocketFails \/ Throws
  <2>1. pc' = "done" /\ sent' = sent
    BY <1>5 DEF InterruptedWait, SocketFails, Throws, LeaveWait, Leave
  <2>. QED  BY <1>0, <2>1 DEF AnswerInv, Asking
<1>6. CASE SendContinue
  <2>1. /\ pc = "continue" /\ pc' = "receive" /\ sent' = Append(sent, "continue")
        /\ UNCHANGED <<head, expectation_checked>>
    BY <1>6 DEF SendContinue, requestVars
  <2>2. sent = <<>> /\ head /\ expectation_checked
    BY <2>1 DEF AnswerInv
  <2>3. sent' = <<"continue">> /\ Ordered(sent')
    <3>1. sent' = <<"continue">>
      BY <2>1, <2>2
    <3>2. Ordered(sent')
      BY <1>0, <2>1, <2>2, OrderedAppend
    <3>. QED  BY <3>1, <3>2
  <2>. QED  BY <2>1, <2>2, <2>3 DEF AnswerInv, Asking
<1>7. CASE Send
  <2>1. pc = "send" /\ pc' \in {"send", "shutdown"}
    BY <1>7 DEF Send
  <2>2. response \in Responses /\ response.head \in BOOLEAN
    BY DEF Types, Responses
  <2>3. CASE response.head
    <3>1. sent' = Append(sent, "head") /\ response' = [response EXCEPT !.head = FALSE]
      BY <1>7, <2>3 DEF Send
    <3>2. sent \in {<<>>, <<"continue">>}
      BY <2>1, <2>3 DEF AnswerInv
    <3>3. Ordered(sent')
      BY <1>0, <3>1, <3>2, OrderedAppend
    <3>4. response'.head = FALSE
      BY <2>2, <3>1 DEF Responses
    <3>5. Len(sent') = Len(sent) + 1 /\ sent'[Len(sent) + 1] = "head"
      BY <1>0, <3>1, AppendProperties
    <3>6. \E j \in 1 .. Len(sent') : sent'[j] = "head"
      BY <1>0, <3>5
    <3>. QED  BY <2>1, <3>3, <3>4, <3>6 DEF AnswerInv, Asking
  <2>4. CASE ~response.head
    <3>1. sent' = Append(sent, "body") /\ response' = [response EXCEPT !.units = @ - 1]
      BY <1>7, <2>4 DEF Send
    <3>2. PICK j \in 1 .. Len(sent) : sent[j] = "head"
      BY <2>1, <2>4 DEF AnswerInv
    <3>3. Ordered(sent')
      BY <1>0, <3>1, <3>2, OrderedAppend
    <3>4. response'.head = response.head
      BY <2>2, <3>1 DEF Responses
    <3>5. Len(sent') = Len(sent) + 1 /\ sent'[j] = "head"
      BY <1>0, <3>1, <3>2, AppendProperties
    <3>6. \E i \in 1 .. Len(sent') : sent'[i] = "head"
      BY <1>0, <3>5
    <3>. QED  BY <2>1, <2>4, <3>3, <3>4, <3>6 DEF AnswerInv, Asking
  <2>. QED  BY <2>2, <2>3, <2>4
<1>8. CASE Drain
  <2>1. pc' \in {"done", "drain"} /\ sent' = sent
    BY <1>8 DEF Drain
  <2>. QED  BY <1>0, <2>1 DEF AnswerInv, Asking
<1>9. CASE Tick \/ RequestStop \/ UNCHANGED vars
  <2>1. UNCHANGED <<pc, sent, head, expectation_checked, decoder, finalized, response>>
    BY <1>9, Outside DEF requestVars, ingestVars, answerVars
  <2>. QED  BY <2>1 DEF AnswerInv, RequestComplete
<1>. QED  BY Steps, <1>1, <1>2, <1>3, <1>4, <1>5, <1>6, <1>7, <1>8, <1>9

LEMMA InviteStep ==
  ASSUME Types, BodyInv, TimeInv, AnswerInv, InviteInv, [Next]_vars
  PROVE  InviteInv'
<1>0. /\ sent \in Seq({"continue", "head", "body"}) /\ Len(sent) \in Nat /\ head \in BOOLEAN
      /\ request.chunked \in BOOLEAN /\ request.content_length \in Nat /\ MaxBodyBytes \in Nat
  BY LenProperties, HttpConnectionAssumptions, DecoderAssumptions DEF Types
<1>1. CASE Begin
  <2>1. ~head /\ UNCHANGED <<request, head, decoder, sent>>
    BY <1>1 DEF Begin, TimeInv, requestVars, ingestVars, answerVars
  <2>. QED  BY <2>1 DEF InviteInv
<1>2. CASE Expectation
  <2>1. pc = "loop" /\ UNCHANGED <<request, head, decoder, sent>>
    BY <1>2 DEF Expectation, ingestVars
  <2>. QED  BY <2>1 DEF InviteInv
<1>3. CASE \/ Receive \/ Dispatch \/ Shutdown \/ InterruptedWait \/ Drain \/ SocketFails \/ Throws
           \/ FeedBegin \/ ReceiveEnd
  <2>1. /\ pc' \notin {"loop", "continue"} /\ UNCHANGED <<request, head, decoder, sent>>
    <3>1. CASE Receive \/ FeedBegin \/ Shutdown
      BY <3>1 DEF Receive, FeedBegin, Shutdown, requestVars, ingestVars, answerVars
    <3>2. CASE Dispatch \/ ReceiveEnd
      BY <3>2 DEF Dispatch, ReceiveEnd, Respond, Leave, requestVars, ingestVars
    <3>3. CASE InterruptedWait \/ SocketFails \/ Throws
      BY <3>3 DEF InterruptedWait, SocketFails, Throws, LeaveWait, Leave, requestVars, ingestVars
    <3>4. CASE Drain
      BY <3>4 DEF Drain, requestVars, ingestVars
    <3>. QED  BY <1>3, <3>1, <3>2, <3>3, <3>4
  <2>. QED  BY <2>1 DEF InviteInv
<1>4. CASE SendContinue
  <2>1. pc = "continue" /\ pc' = "receive" /\ UNCHANGED <<request, head, decoder>>
    BY <1>4 DEF SendContinue, requestVars, ingestVars
  <2>2. head /\ decoder.failure = NoError
    BY <2>1 DEF InviteInv, AnswerInv
  <2>3. request.chunked \/ request.content_length <= MaxBodyBytes
    BY <1>0, <2>2 DEF InviteInv
  <2>. QED  BY <2>1, <2>2, <2>3 DEF InviteInv
<1>5. CASE Send
  <2>1. /\ pc' \in {"send", "shutdown"} /\ UNCHANGED <<request, head, decoder>>
        /\ \E last \in {"head", "body"} : sent' = Append(sent, last)
    BY <1>5 DEF Send, requestVars, ingestVars
  <2>2. PICK last \in {"head", "body"} : sent' = Append(sent, last)
    BY <2>1
  <2>3. /\ Len(sent') = Len(sent) + 1 /\ sent'[Len(sent) + 1] = last
        /\ \A i \in 1 .. Len(sent) : sent'[i] = sent[i]
    BY <1>0, <2>2, AppendProperties
  <2>4. (\E i \in 1 .. Len(sent') : sent'[i] = "continue") => \E i \in 1 .. Len(sent) : sent[i] = "continue"
    <3>1. SUFFICES ASSUME NEW i \in 1 .. Len(sent'), sent'[i] = "continue"
                   PROVE  i \in 1 .. Len(sent) /\ sent[i] = "continue"
      OBVIOUS
    <3>2. i # Len(sent) + 1
      BY <2>2, <2>3, <3>1
    <3>. QED  BY <1>0, <2>3, <3>1, <3>2
  <2>. QED  BY <2>1, <2>4 DEF InviteInv
<1>6. CASE Ingest \/ StorageFails
  <2>1. UNCHANGED <<request, head, sent>>
    BY <1>6 DEF Ingest, StorageFails
  <2>2. /\ decoder.failure # NoError => decoder'.failure # NoError
        /\ pc' \in {"loop", "continue"} => decoder'.failure = NoError
    BY <1>6, Ingesting
  <2>. QED  BY <2>1, <2>2 DEF InviteInv
<1>7. CASE ReceiveBytes
  <2>1. UNCHANGED <<request, sent>> /\ pc' # "continue"
    BY <1>7, Receiving
  <2>2. CASE ~head /\ head' = head
    BY <2>1, <2>2 DEF InviteInv
  <2>3. CASE head' = TRUE /\ pc' = "feed" /\ decoder' = Decoder(request.chunked, request.content_length)
    <3>1. ~request.chunked /\ request.content_length > MaxBodyBytes => decoder'.failure # NoError
      BY <1>0, <2>3, DecoderSound
    <3>. QED  BY <2>1, <2>3, <3>1 DEF InviteInv
  <2>4. CASE head /\ pc' = "feed" /\ UNCHANGED <<head, decoder>>
    BY <2>1, <2>4 DEF InviteInv
  <2>. QED  BY <1>7, <2>2, <2>3, <2>4, Receiving
<1>8. CASE Tick \/ RequestStop \/ UNCHANGED vars
  <2>1. UNCHANGED <<request, pc, sent, head, decoder>>
    BY <1>8, Outside DEF requestVars, ingestVars, answerVars
  <2>. QED  BY <2>1 DEF InviteInv
<1>. QED  BY Steps, <1>1, <1>2, <1>3, <1>4, <1>5, <1>6, <1>7, <1>8

LEMMA ConnectionInit ==
  ASSUME Init
  PROVE  ConnectionInv
<1>1. HeadBytes \in Nat /\ MaxDrain \in Nat /\ MaxTime \in Nat /\ Len(Wire) \in Nat
  BY HttpConnectionAssumptions, LenProperties DEF Init, Wire
<1>2. Sound(Decoder(FALSE, 0)) /\ Decoder(FALSE, 0).decoded = 0
  BY DecoderSound
<1>3. <<>> \in Seq(Bytes) /\ Len(<<>>) = 0 /\ <<>> \in Seq({"continue", "head", "body"})
  OBVIOUS
<1>4. response \in Responses
  BY DEF Init, Responses, Statuses
<1>5. ~stopping /\ ~head /\ ~expectation_checked /\ ~writer /\ ~finalized
  BY DEF Init
<1>6. Types
  <2>1. /\ stopping \in BOOLEAN /\ head \in BOOLEAN /\ expectation_checked \in BOOLEAN
        /\ writer \in BOOLEAN /\ finalized \in BOOLEAN
    BY Zenon DEF Init
  <2>2. /\ request \in Requests /\ pc = "begin" /\ piece = <<>> /\ stored = <<>> /\ sent = <<>>
        /\ clock = 0 /\ deadline = 0 /\ last_progress = 0 /\ received = 0 /\ drained = 0
    BY DEF Init
  <2>3. /\ 0 \in 0 .. MaxTime /\ 0 \in 0 .. MaxDrain /\ 0 \in 0 .. HeadBytes + Len(Wire)
    BY <1>1
  <2>. QED  BY <1>3, <1>4, <2>1, <2>2, <2>3 DEF Types, Places
<1>7. BodyInv
  <2>1. decoder = Decoder(FALSE, 0) /\ stored = <<>> /\ pc = "begin"
    BY DEF Init
  <2>2. Sound(decoder) /\ decoder.decoded = 0
    BY <1>2, <2>1, Zenon
  <2>3. stored = <<>> /\ pc = "begin" /\ Len(stored) <= 0
    BY <1>3, <2>1
  <2>. QED  BY <1>5, <2>2, <2>3 DEF BodyInv
<1>8. TimeInv /\ InviteInv
  <2>1. last_progress = 0 /\ clock = 0 /\ sent = <<>> /\ pc = "begin"
    BY DEF Init
  <2>. QED  BY <1>3, <1>5, <2>1 DEF TimeInv, InviteInv, RequestComplete
<1>9. AnswerInv
  BY <1>3 DEF Init, AnswerInv, Ordered, Asking
<1>. QED  BY <1>6, <1>7, <1>8, <1>9 DEF ConnectionInv

\* The invariant holds of every behaviour.
THEOREM ConnectionIsSound == Spec => []ConnectionInv
<1>1. Init => ConnectionInv
  BY ConnectionInit
<1>2. ConnectionInv /\ [Next]_vars => ConnectionInv'
  BY TypesStep, BodyStep, TimeStep, AnswerStep, InviteStep DEF ConnectionInv
<1>. QED  BY <1>1, <1>2, PTL DEF Spec

\* Whatever the peer sends and however it is split, every counter of the decoder and the
\* stored body stay within their limits, and every deadline is representable.
THEOREM LimitsAreKept == Spec => []TypeOK
<1>1. ConnectionInv => TypeOK
  <2>. SUFFICES ASSUME Types, BodyInv PROVE TypeOK
    BY DEF ConnectionInv
  <2>1. /\ decoder \in Decoders /\ Sound(decoder) /\ decoder.decoded \in Nat /\ decoder.remaining \in Nat
        /\ stored \in Seq(Bytes) /\ Len(stored) \in Nat /\ MaxBodyBytes \in Nat
    BY LenProperties, DecoderAssumptions DEF Types, BodyInv, Sound, Decoders
  <2>2. Len(stored) <= MaxBodyBytes
    BY <2>1 DEF BodyInv, Sound
  <2>3. Max({MaxChunkLine, MaxTrailerBytes}) = MaxLine
    <3>1. MaxChunkLine \in Int /\ MaxTrailerBytes \in Int
      BY DecoderAssumptions
    <3>. QED  BY <3>1, MinMax DEF MaxLine
  <2>4. /\ decoder.metadata_bytes <= MaxMetadata /\ decoder.trailer_bytes <= MaxTrailerBytes
        /\ Len(decoder.line) <= Max({MaxChunkLine, MaxTrailerBytes})
        /\ decoder.remaining + decoder.decoded <= MaxBodyBytes \/ decoder.failure # NoError
    BY <2>1, <2>3 DEF Sound
  <2>5. response.status \in HeadStatuses \cup {0, 200, 403, 417, 500}
    BY DEF Types, Responses, Statuses
  <2>6. {stopping, head, expectation_checked, writer, finalized} \subseteq BOOLEAN
    BY Zenon DEF Types
  <2>7. {clock, deadline, last_progress} \subseteq 0 .. MaxTime
    BY DEF Types
  <2>8. pc \in Waiting \cup {"begin", "loop", "receive", "feed", "ingest", "dispatch", "shutdown", "done"}
    BY DEF Types, Places
  <2>. QED  BY <2>2, <2>4, <2>5, <2>6, <2>7, <2>8 DEF TypeOK, Types
<1>. QED  BY <1>1, ConnectionIsSound, PTL

\* The peer is sent at most one interim and one final response, in this order, and is
\* never invited to send a body that its head has made too large.
THEOREM AnsweredInOrder == Spec => []AnswersInOrder
<1>1. ConnectionInv => AnswersInOrder
  <2>. SUFFICES ASSUME Types, AnswerInv, InviteInv PROVE AnswersInOrder
    BY DEF ConnectionInv
  <2>1. sent \in Seq({"continue", "head", "body"}) /\ DOMAIN sent = 1 .. Len(sent)
    BY LenProperties DEF Types
  <2>2. \A i \in DOMAIN sent :
          /\ sent[i] = "continue" => i = 1
          /\ sent[i] = "head" => \A j \in 1 .. i - 1 : sent[j] = "continue"
          /\ sent[i] = "body" => \E j \in 1 .. i - 1 : sent[j] = "head"
    BY <2>1 DEF AnswerInv, Ordered
  <2>3. Contains(sent, "continue") => \E i \in 1 .. Len(sent) : sent[i] = "continue"
    BY <2>1 DEF Contains
  <2>4. Contains(sent, "continue") => request.chunked \/ request.content_length <= MaxBodyBytes
    BY <2>3 DEF InviteInv
  <2>5. pc = "continue" => ~RequestComplete
    BY DEF AnswerInv
  <2>. QED  BY <2>2, <2>4, <2>5 DEF AnswersInOrder
<1>. QED  BY <1>1, ConnectionIsSound, PTL

\* A request reaches the application only if its last byte came before the total
\* deadline, however often receives have renewed the deadline of the next one.
THEOREM AnsweredInTime == Spec => []InTime
<1>1. ConnectionInv => InTime
  BY DEF ConnectionInv, TimeInv, InTime
<1>. QED  BY <1>1, ConnectionIsSound, PTL

-----------------------------------------------------------------------------
\* The connection follows the reference.

\* The handler is gathering the body or has just gathered it.
Gathering == {"loop", "continue", "receive", "wait", "feed", "ingest", "dispatch"}

\* How much of the body was given to the decoder.
Given == (received - HeadBytes) - Len(piece)

\* The piece is what was received behind the bytes the decoder was given.
PieceInv ==
  /\ ~head /\ pc \in Asking => received < HeadBytes
  /\ head /\ pc \in Gathering =>
       /\ Given >= 0
       /\ \A n \in 1 .. Len(piece) : piece[n] = Wire[Given + n]

\* The decoder and what is stored are where the reference is after those bytes.
AlignInv ==
  head /\ pc \in Gathering =>
    /\ Aligned(decoder, request, Given, stored)
    /\ finalized <=> complete(decoder)
    /\ pc \in {"loop", "continue", "receive", "wait"} => piece = <<>> \/ complete(decoder)
    /\ pc \in {"continue", "receive", "wait"} => ~complete(decoder) /\ decoder.failure = NoError

\* What the answer rests on.
VerdictInv ==
  /\ head /\ decoder.failure # NoError => ~Reference(request).framed
  /\ RequestComplete /\ pc \in {"dispatch", "send"} =>
       Reference(request).framed /\ stored = Reference(request).payload

FrameInv == PieceInv /\ AlignInv /\ VerdictInv

\* A step that moves the handler on and leaves the body alone.
LEMMA Still ==
  ASSUME FrameInv, UNCHANGED <<request, received, head, decoder, piece, finalized, stored>>,
         pc' \in Asking => pc \in Asking,
         head /\ pc' \in Gathering => pc \in Gathering,
         head /\ pc' \in {"loop", "continue", "receive", "wait"} => piece = <<>> \/ complete(decoder),
         head /\ pc' \in {"continue", "receive", "wait"} => ~complete(decoder) /\ decoder.failure = NoError,
         RequestComplete /\ pc' \in {"dispatch", "send"} =>
           Reference(request).framed /\ stored = Reference(request).payload
  PROVE  FrameInv'
<1>1. Given' = Given /\ Wire' = Wire /\ (RequestComplete' <=> RequestComplete)
  BY DEF Given, Wire, RequestComplete
<1>2. PieceInv'
  BY <1>1 DEF FrameInv, PieceInv
<1>3. AlignInv'
  BY <1>1 DEF FrameInv, AlignInv
<1>4. VerdictInv'
  BY <1>1 DEF FrameInv, VerdictInv
<1>. QED  BY <1>2, <1>3, <1>4 DEF FrameInv

\* The steps of the handler.
LEMMA FrameMoves ==
  ASSUME ConnectionInv, FrameInv,
         \/ Begin \/ Expectation \/ Receive \/ FeedBegin \/ Dispatch \/ Shutdown \/ InterruptedWait
         \/ SendContinue \/ Send \/ Drain \/ SocketFails \/ Throws \/ Tick \/ RequestStop \/ UNCHANGED vars
  PROVE  FrameInv'
<1>1. CASE Begin
  <2>1. /\ pc = "begin" /\ pc' \in {"loop", "done"} /\ ~head
        /\ UNCHANGED <<request, received, head, decoder, piece, finalized, stored>>
    BY <1>1 DEF Begin, ConnectionInv, TimeInv, requestVars, ingestVars
  <2>2. pc \in Asking /\ ~RequestComplete
    BY <2>1 DEF Asking, RequestComplete
  <2>. QED  BY <2>1, <2>2, Still
<1>2. CASE Expectation
  <2>1. /\ pc = "loop" /\ pc' \in {"send", "continue", "dispatch", "receive"}
        /\ pc' \in {"continue", "receive"} => ~RequestComplete
        /\ UNCHANGED <<request, received, head, decoder, piece, finalized, stored>>
    BY <1>2 DEF Expectation, Respond, ingestVars
  <2>2. pc \in Asking /\ pc \in Gathering
    BY <2>1 DEF Asking, Gathering
  <2>3. head => /\ Aligned(decoder, request, Given, stored) /\ (finalized <=> complete(decoder))
                /\ piece = <<>> \/ complete(decoder)
    BY <2>1, <2>2 DEF FrameInv, AlignInv
  <2>4. head => decoder.failure = NoError
    BY <2>1 DEF ConnectionInv, InviteInv
  <2>5. head /\ pc' \in {"continue", "receive", "wait"} => ~complete(decoder)
    BY <2>1, <2>3 DEF RequestComplete
  <2>6. RequestComplete => Reference(request).framed /\ stored = Reference(request).payload
    <3>1. HAVE RequestComplete
    <3>2. complete(decoder) /\ head
      BY <3>1 DEF RequestComplete
    <3>3. Sound(decoder) /\ request \in Requests
      BY DEF ConnectionInv, BodyInv, Types
    <3>. QED  BY <2>3, <3>2, <3>3, CompleteMeansFramed
  <2>. QED  BY <2>1, <2>2, <2>3, <2>4, <2>5, <2>6, Still
<1>3. CASE Receive
  <2>1. /\ pc = "receive" /\ pc' \in {"wait", "done"}
        /\ UNCHANGED <<request, received, head, decoder, piece, finalized, stored>>
    BY <1>3 DEF Receive, requestVars, ingestVars
  <2>2. pc \in Asking /\ pc \in Gathering
    BY <2>1 DEF Asking, Gathering
  <2>3. head => /\ piece = <<>> \/ complete(decoder)
                /\ ~complete(decoder) /\ decoder.failure = NoError
    BY <2>1, <2>2 DEF FrameInv, AlignInv
  <2>. QED  BY <2>1, <2>2, <2>3, Still
<1>4. CASE SendContinue
  <2>1. /\ pc = "continue" /\ pc' = "receive"
        /\ UNCHANGED <<request, received, head, decoder, piece, finalized, stored>>
    BY <1>4 DEF SendContinue, requestVars, ingestVars
  <2>2. pc \in Asking /\ pc \in Gathering
    BY <2>1 DEF Asking, Gathering
  <2>3. head => /\ piece = <<>> \/ complete(decoder)
                /\ ~complete(decoder) /\ decoder.failure = NoError
    BY <2>1, <2>2 DEF FrameInv, AlignInv
  <2>. QED  BY <2>1, <2>2, <2>3, Still
<1>5. CASE FeedBegin
  <2>1. /\ pc = "feed" /\ pc' \in {"ingest", "done"}
        /\ UNCHANGED <<request, received, head, decoder, piece, finalized, stored>>
    BY <1>5 DEF FeedBegin, requestVars, ingestVars
  <2>2. pc \in Asking /\ pc \in Gathering
    BY <2>1 DEF Asking, Gathering
  <2>. QED  BY <2>1, <2>2, Still
<1>6. CASE Dispatch \/ Send
  <2>1. /\ pc \in {"dispatch", "send"} /\ pc' \in {"send", "shutdown", "done"}
        /\ UNCHANGED <<request, received, head, decoder, piece, finalized, stored>>
    BY <1>6 DEF Dispatch, Send, Respond, Leave, requestVars, ingestVars
  <2>2. pc' \notin Asking /\ pc' \notin Gathering
    BY <2>1 DEF Asking, Gathering
  <2>3. RequestComplete => Reference(request).framed /\ stored = Reference(request).payload
    BY <2>1 DEF FrameInv, VerdictInv
  <2>. QED  BY <2>1, <2>2, <2>3, Still
<1>7. CASE Shutdown \/ InterruptedWait \/ Drain \/ SocketFails \/ Throws
  <2>1. /\ pc' \in {"drain", "done"}
        /\ UNCHANGED <<request, received, head, decoder, piece, finalized, stored>>
    BY <1>7 DEF Shutdown, InterruptedWait, Drain, SocketFails, Throws, LeaveWait, Leave, requestVars, ingestVars
  <2>2. pc' \notin Asking /\ pc' \notin Gathering
    BY <2>1 DEF Asking, Gathering
  <2>. QED  BY <2>1, <2>2, Still
<1>8. CASE Tick \/ RequestStop \/ UNCHANGED vars
  <2>1. UNCHANGED <<pc, request, received, head, decoder, piece, finalized, stored>>
    BY <1>8 DEF Tick, RequestStop, vars, requestVars, ingestVars
  <2>2. /\ Given' = Given /\ Wire' = Wire /\ (RequestComplete' <=> RequestComplete)
    BY <2>1 DEF Given, Wire, RequestComplete
  <2>. QED  BY <2>1, <2>2 DEF FrameInv, PieceInv, AlignInv, VerdictInv
<1>. QED  BY <1>1, <1>2, <1>3, <1>4, <1>5, <1>6, <1>7, <1>8

\* A piece of a sequence, element by element.
LEMMA PieceElements ==
  ASSUME NEW s \in Seq(Bytes), NEW k \in Nat, NEW m \in Nat, k <= m, m <= Len(s),
         NEW t, t = SubSeq(s, k + 1, m)
  PROVE  t \in Seq(Bytes) /\ Len(t) = m - k /\ \A n \in 1 .. Len(t) : t[n] = s[k + n]
<1>1. Len(s) \in Nat /\ k + 1 \in Nat \ {0} /\ k + 1 <= m + 1 /\ \A i \in k + 1 .. m : i \in 1 .. Len(s)
  BY LenProperties
<1>2. \A i \in k + 1 .. m : s[i] \in Bytes
  BY <1>1, ElementOfSeq
<1>3. /\ t \in Seq(Bytes)
      /\ Len(t) = IF k + 1 <= m THEN m - (k + 1) + 1 ELSE 0
      /\ \A i \in 1 .. m - (k + 1) + 1 : t[i] = s[(k + 1) + i - 1]
  BY <1>1, <1>2, SubSeqProperties
<1>4. Len(t) = m - k /\ m - (k + 1) + 1 = m - k
  BY <1>1, <1>3
<1>5. \A n \in 1 .. Len(t) : (k + 1) + n - 1 = k + n
  BY <1>4
<1>. QED  BY <1>3, <1>4, <1>5

\* What a receive gives to the ingestor: the bytes behind those it was given before.
LEMMA Taking ==
  ASSUME Types, BodyInv, FrameInv, ReceiveBytes
  PROVE  /\ ~head' /\ pc' # "send" => received' < HeadBytes
         /\ head' => /\ Given' \in Nat /\ (head => Given' = Given) /\ (~head => Given' = 0)
                     /\ \A n \in 1 .. Len(piece') : piece'[n] = Wire[Given' + n]
<1>1. /\ received \in Nat /\ received <= HeadBytes + Len(Wire) /\ HeadBytes \in Nat \ {0} /\ ChunkBytes \in Nat
      /\ Wire \in Seq(Bytes) /\ Len(Wire) \in Nat /\ (head => received >= HeadBytes) /\ head \in BOOLEAN
  <2>1. Wire \in Seq(Bytes)
    BY HttpConnectionAssumptions DEF Types, Wire
  <2>2. received \in 0 .. HeadBytes + Len(Wire)
    BY DEF Types
  <2>3. head => received >= HeadBytes
    BY DEF BodyInv
  <2>4. HeadBytes \in Nat \ {0} /\ ChunkBytes \in Nat
    BY HttpConnectionAssumptions
  <2>5. head \in BOOLEAN
    BY DEF Types
  <2>6. Len(Wire) \in Nat
    BY <2>1, LenProperties
  <2>7. received \in Nat /\ received <= HeadBytes + Len(Wire)
    BY <2>2, <2>4, <2>6
  <2>. QED  BY <2>1, <2>3, <2>4, <2>5, <2>6, <2>7
<1>2. /\ head => piece = <<>>
      /\ ~head => received < HeadBytes
  <2>1. pc = "wait" /\ pc \in Asking /\ pc \in Gathering
    BY DEF ReceiveBytes, Asking, Gathering
  <2>. QED  BY <2>1 DEF FrameInv, PieceInv, AlignInv
<1>. DEFINE body(n) == SubSeq(Wire, Max({received - HeadBytes, 0}) + 1, (received + n) - HeadBytes)
<1>3. PICK n \in 1 .. Min({ChunkBytes, Available}) :
        /\ received' = received + n
        /\ \/ ~head /\ pc' = "send" /\ head' = head
           \/ ~head /\ ~HeadFails(received + n) /\ ~HeadComplete(received + n) /\ head' = head
           \/ ~head /\ head' = TRUE /\ HeadComplete(received + n) /\ piece' = body(n)
           \/ head /\ head' = head /\ piece' = body(n)
  BY DEF ReceiveBytes, Respond
<1>4. n \in Nat \ {0} /\ received + n <= HeadBytes + Len(Wire)
  <2>1. Available \in Int /\ Available = HeadBytes + Len(Wire) - received
    BY <1>1 DEF Available
  <2>2. Min({ChunkBytes, Available}) = IF ChunkBytes <= Available THEN ChunkBytes ELSE Available
    BY <1>1, <2>1, MinMax
  <2>. QED  BY <1>1, <1>3, <2>1, <2>2
<1>5. Max({received - HeadBytes, 0}) = IF head THEN received - HeadBytes ELSE 0
  <2>1. received - HeadBytes \in Int /\ 0 \in Int
    BY <1>1
  <2>2. Max({received - HeadBytes, 0}) = IF received - HeadBytes <= 0 THEN 0 ELSE received - HeadBytes
    BY <2>1, MinMax
  <2>3. CASE head
    BY <1>1, <2>2, <2>3
  <2>4. CASE ~head
    BY <1>1, <1>2, <2>2, <2>4
  <2>. QED  BY <1>1, <2>3, <2>4
<1>6. PICK k \in Nat : k = (IF head THEN received - HeadBytes ELSE 0)
  <2>1. head => received - HeadBytes \in Nat
    BY <1>1
  <2>. QED  BY <2>1
<1>7. head => Given = k
  <2>1. HAVE head
  <2>2. Len(piece) = 0
    BY <1>2, <2>1
  <2>. QED  BY <1>1, <1>6, <2>1, <2>2 DEF Given
<1>8. ~head' /\ pc' # "send" => received' < HeadBytes
  <2>1. HAVE ~head' /\ pc' # "send"
  <2>2. ~HeadFails(received + n) /\ ~HeadComplete(received + n)
    BY <1>3, <2>1
  <2>3. ~(received + n >= HeadBytes)
    BY <2>2 DEF HeadComplete
  <2>. QED  BY <1>1, <1>3, <1>4, <2>3
<1>9. head' => piece' = SubSeq(Wire, k + 1, received' - HeadBytes) /\ received' >= HeadBytes
  <2>1. HAVE head'
  <2>2. piece' = body(n) /\ (head \/ HeadComplete(received + n))
    BY <1>3, <2>1
  <2>3. received + n >= HeadBytes
    BY <1>1, <1>4, <2>2 DEF HeadComplete
  <2>. QED  BY <1>3, <1>5, <1>6, <2>2, <2>3
<1>. HIDE DEF body
<1>10. head' => Given' = k /\ \A i \in 1 .. Len(piece') : piece'[i] = Wire[k + i]
  <2>1. HAVE head'
  <2>2. PICK m \in Nat : m = received' - HeadBytes
    <3>1. PICK c \in Nat, h \in Nat : c = received + n /\ h = HeadBytes
      BY <1>1, <1>4
    <3>2. c >= h
      BY <1>3, <1>9, <2>1, <3>1
    <3>3. c - h \in Nat
      BY <3>2
    <3>. QED  BY <1>3, <3>1, <3>3
  <2>3. k <= m /\ m <= Len(Wire)
    BY <1>1, <1>3, <1>4, <1>6, <2>2
  <2>4. piece' = SubSeq(Wire, k + 1, m)
    BY <1>9, <2>1, <2>2
  <2>5. Len(piece') = m - k /\ \A i \in 1 .. Len(piece') : piece'[i] = Wire[k + i]
    BY <1>1, <2>3, <2>4, PieceElements
  <2>6. Given' = m - Len(piece')
    BY <2>2 DEF Given
  <2>7. m - (m - k) = k
    OBVIOUS
  <2>. QED  BY <2>5, <2>6, <2>7
<1>11. ~head => k = 0
  BY <1>6
<1>. QED  BY <1>7, <1>8, <1>10, <1>11

\* The receives.
LEMMA FrameReceives ==
  ASSUME ConnectionInv, FrameInv, ReceiveBytes \/ ReceiveEnd
  PROVE  FrameInv'
<1>0. Types /\ BodyInv /\ head \in BOOLEAN /\ request \in Requests
  BY DEF ConnectionInv, Types
<1>1. CASE ReceiveEnd
  <2>1. /\ pc = "wait" /\ pc' \in {"send", "done"}
        /\ UNCHANGED <<request, received, head, decoder, piece, finalized>>
    BY <1>1 DEF ReceiveEnd, Respond, Leave
  <2>2. pc \in Gathering /\ pc' \notin Asking /\ pc' \notin Gathering
    BY <2>1 DEF Asking, Gathering
  <2>3. head => ~complete(decoder)
    BY <2>1, <2>2 DEF FrameInv, AlignInv
  <2>4. ~RequestComplete'
    BY <2>1, <2>3 DEF RequestComplete
  <2>5. PieceInv' /\ AlignInv'
    BY <2>2 DEF PieceInv, AlignInv
  <2>6. VerdictInv'
    BY <2>1, <2>4 DEF FrameInv, VerdictInv
  <2>. QED  BY <2>5, <2>6 DEF FrameInv
<1>2. CASE ReceiveBytes
  <2>1. /\ ~head' /\ pc' # "send" => received' < HeadBytes
        /\ head' => /\ Given' \in Nat /\ (head => Given' = Given) /\ (~head => Given' = 0)
                    /\ \A n \in 1 .. Len(piece') : piece'[n] = Wire[Given' + n]
    BY <1>0, <1>2, Taking
  <2>2. request' = request /\ Wire' = Wire
    BY <1>2 DEF ReceiveBytes, Wire
  <2>3. \/ ~head /\ ~head' /\ pc' \in {"send", "loop"}
        \/ /\ ~head /\ head' /\ pc' = "feed" /\ stored' = stored
           /\ decoder' = Decoder(request.chunked, request.content_length) /\ finalized' = complete(decoder')
        \/ head /\ head' /\ pc' = "feed" /\ UNCHANGED <<decoder, finalized, stored>>
    BY <1>2 DEF ReceiveBytes, Respond
  <2>4. pc = "wait" /\ pc \in Gathering /\ pc \in Asking /\ "send" \notin Asking
    BY <1>2 DEF ReceiveBytes, Gathering, Asking
  <2>5. CASE ~head'
    <3>1. ~RequestComplete'
      BY <2>5 DEF RequestComplete
    <3>2. pc' \in Asking => received' < HeadBytes
      BY <2>1, <2>4, <2>5
    <3>. QED  BY <2>5, <3>1, <3>2 DEF FrameInv, PieceInv, AlignInv, VerdictInv
  <2>6. CASE head'
    <3>1. PICK k \in Nat : /\ Given' = k /\ (head => k = Given) /\ (~head => k = 0)
                           /\ \A n \in 1 .. Len(piece') : piece'[n] = Wire[k + n]
      BY <2>1, <2>6
    <3>2. pc' = "feed"
      BY <2>3, <2>6
    <3>3. PieceInv'
      <4>1. k >= 0
        OBVIOUS
      <4>. QED  BY <2>2, <2>6, <3>1, <4>1 DEF PieceInv
    <3>4. Aligned(decoder', request, k, stored') /\ (finalized' <=> complete(decoder'))
      <4>1. CASE head
        BY <2>3, <2>4, <3>1, <4>1 DEF FrameInv, AlignInv
      <4>2. CASE ~head
        <5>1. k = 0 /\ stored' = <<>>
          BY <1>0, <2>3, <2>6, <3>1, <4>2 DEF BodyInv
        <5>2. decoder' = Decoder(request.chunked, request.content_length) /\ finalized' = complete(decoder')
          BY <2>3, <2>6, <4>2
        <5>3. Aligned(Decoder(request.chunked, request.content_length), request, 0, <<>>)
          BY <1>0, AlignedFirst
        <5>. QED  BY <5>1, <5>2, <5>3
      <4>. QED  BY <1>0, <4>1, <4>2
    <3>5. AlignInv'
      <4>1. Aligned(decoder', request', Given', stored')
        BY <2>2, <3>1, <3>4
      <4>2. (finalized <=> complete(decoder))'
        BY <3>4 DEF complete
      <4>. QED  BY <3>2, <4>1, <4>2 DEF AlignInv
    <3>6. VerdictInv'
      <4>1. decoder'.failure # NoError => ~Reference(request).framed
        BY <1>0, <3>4, FailedMeansUnframed
      <4>. QED  BY <2>2, <3>2, <4>1 DEF VerdictInv
    <3>. QED  BY <3>3, <3>5, <3>6 DEF FrameInv
  <2>. QED  BY <2>5, <2>6
<1>. QED  BY <1>1, <1>2

\* One turn of the ingestor.
LEMMA FrameIngests ==
  ASSUME ConnectionInv, FrameInv, Ingest \/ StorageFails
  PROVE  FrameInv'
<1>1. PICK progress : progress = feed(decoder, piece, OutputBytes)
  OBVIOUS
<1>2. /\ pc = "ingest" /\ head /\ UNCHANGED <<request, received, head>> /\ Wire' = Wire
  BY DEF Ingest, StorageFails, ConnectionInv, BodyInv, Wire
<1>3. /\ request \in Requests /\ Wire \in Seq(Bytes) /\ Wire = request.body
      /\ piece \in Seq(Bytes) /\ stored \in Seq(Bytes) /\ Sound(decoder)
  BY RequestType DEF ConnectionInv, Types, BodyInv, Wire
<1>4. PICK k \in Nat, l \in Nat, m \in Nat :
        k = Given /\ l = Len(piece) /\ m = received - HeadBytes /\ k = m - l /\ m <= Len(Wire)
  <2>1. Len(piece) \in Nat /\ Len(Wire) \in Nat /\ HeadBytes \in Nat
    BY <1>3, LenProperties, HttpConnectionAssumptions
  <2>2. received \in 0 .. HeadBytes + Len(Wire) /\ received >= HeadBytes
    BY <1>2 DEF ConnectionInv, Types, BodyInv
  <2>3. Given >= 0
    BY <1>2 DEF FrameInv, PieceInv, Gathering
  <2>4. received - HeadBytes \in Nat /\ received - HeadBytes <= Len(Wire)
    BY <2>1, <2>2
  <2>5. Given = (received - HeadBytes) - Len(piece)
    BY DEF Given
  <2>6. Given \in Nat
    BY <2>1, <2>3, <2>4, <2>5
  <2>. QED  BY <2>1, <2>4, <2>5, <2>6
<1>5. /\ \A n \in 1 .. Len(piece) : piece[n] = Wire[k + n]
      /\ Aligned(decoder, request, k, stored) /\ (finalized <=> complete(decoder))
  BY <1>2, <1>4 DEF FrameInv, PieceInv, AlignInv, Gathering
<1>6. Fed(progress, decoder, Len(piece))
  BY <1>1, <1>3, FeedSound
<1>7. Tracks(progress, request, k, stored, OutputBytes, Len(piece))
  <2>1. k + Len(piece) <= Len(request.body)
    BY <1>3, <1>4
  <2>2. \A n \in 1 .. Len(piece) : piece[n] = request.body[k + n]
    BY <1>3, <1>5
  <2>. QED  BY <1>1, <1>3, <1>5, <2>1, <2>2, FeedTracks
<1>8. PICK d \in Decoders, c \in Nat, q \in Seq(Bytes) :
        d = progress.decoder /\ c = progress.consumed /\ q = progress.produced
  BY <1>6 DEF Fed, Progresses
<1>9. Aligned(d, request, k + c, stored \o q)
  BY <1>7, <1>8 DEF Tracks
<1>10. finalized => d = decoder /\ q = <<>> /\ complete(d)
  <2>1. HAVE finalized
  <2>2. complete(decoder)
    BY <1>5, <2>1
  <2>3. progress = [decoder |-> decoder, consumed |-> 0, produced |-> <<>>]
    BY <1>1, <1>3, <2>2, FeedComplete
  <2>. QED  BY <1>8, <2>2, <2>3
<1>11. decoder' = d /\ (d.failure # NoError => ~Reference(request).framed)
  <2>1. decoder' = d
    BY <1>1, <1>8 DEF Ingest, StorageFails
  <2>. QED  BY <1>3, <1>9, <2>1, FailedMeansUnframed
<1>12. \/ pc' \in {"send", "done"} /\ (d.failure # NoError \/ pc' = "done" \/ ~finalized) /\ finalized' = finalized
       \/ /\ d.failure = NoError
          /\ piece' = SubSeq(piece, c + 1, Len(piece))
          /\ stored' = stored \o q
          /\ finalized' = (finalized \/ complete(d))
          /\ pc' = IF complete(d) \/ piece' = <<>> THEN "loop" ELSE "ingest"
  <2>1. Stores(progress) => ~finalized
    BY <1>8, <1>10 DEF Stores
  <2>. QED  BY <1>1, <1>8, <2>1 DEF Ingest, StorageFails, Respond, Leave
<1>13. CASE pc' \in {"send", "done"} /\ (d.failure # NoError \/ pc' = "done" \/ ~finalized) /\ finalized' = finalized
  <2>1. pc' = "send" => ~RequestComplete'
    BY <1>11, <1>13 DEF RequestComplete, complete
  <2>2. pc' \notin Asking /\ pc' \notin Gathering
    BY <1>13 DEF Asking, Gathering
  <2>3. PieceInv' /\ AlignInv'
    BY <2>2 DEF PieceInv, AlignInv
  <2>4. VerdictInv'
    BY <1>2, <1>11, <1>13, <2>1 DEF VerdictInv
  <2>. QED  BY <2>3, <2>4 DEF FrameInv
<1>14. CASE /\ d.failure = NoError
            /\ piece' = SubSeq(piece, c + 1, Len(piece))
            /\ stored' = stored \o q
            /\ finalized' = (finalized \/ complete(d))
            /\ pc' = IF complete(d) \/ piece' = <<>> THEN "loop" ELSE "ingest"
  <2>1. c <= l
    BY <1>4, <1>6, <1>8 DEF Fed
  <2>2. Len(piece') = l - c /\ \A n \in 1 .. Len(piece') : piece'[n] = piece[c + n]
    <3>1. l <= Len(piece) /\ piece' = SubSeq(piece, c + 1, l)
      BY <1>4, <1>14
    <3>. QED  BY <1>3, <2>1, <3>1, PieceElements
  <2>3. Given' = k + c
    <3>1. Given' = (received' - HeadBytes) - Len(piece')
      BY DEF Given
    <3>2. Given' = m - (l - c)
      BY <1>2, <1>4, <2>2, <3>1
    <3>. QED  BY <1>4, <3>2
  <2>4. \A n \in 1 .. Len(piece') : piece'[n] = Wire[(k + c) + n]
    <3>1. SUFFICES ASSUME NEW n \in 1 .. Len(piece')
                   PROVE  piece'[n] = Wire[(k + c) + n]
      OBVIOUS
    <3>2. c + n \in 1 .. l /\ k + (c + n) = (k + c) + n
      BY <2>1, <2>2
    <3>. QED  BY <1>4, <1>5, <2>2, <3>2
  <2>5. PieceInv'
    <3>1. k + c >= 0
      OBVIOUS
    <3>. QED  BY <1>2, <2>3, <2>4, <3>1 DEF PieceInv
  <2>6. finalized' <=> complete(decoder')
    <3>1. finalized => complete(d)
      BY <1>10
    <3>2. finalized' <=> (finalized \/ complete(d))
      BY <1>14
    <3>. QED  BY <1>11, <3>1, <3>2
  <2>7. AlignInv'
    <3>1. Aligned(decoder', request', Given', stored')
      BY <1>2, <1>9, <1>11, <1>14, <2>3
    <3>2. (finalized <=> complete(decoder))'
      BY <2>6 DEF complete
    <3>3. pc' \in {"loop", "ingest"} /\ (pc' = "loop" => piece' = <<>> \/ complete(decoder'))
      BY <1>11, <1>14
    <3>. QED  BY <3>1, <3>2, <3>3 DEF AlignInv, complete
  <2>8. VerdictInv'
    <3>1. pc' \in {"loop", "ingest"}
      BY <1>14
    <3>. QED  BY <1>2, <1>11, <3>1 DEF VerdictInv
  <2>. QED  BY <2>5, <2>7, <2>8 DEF FrameInv
<1>. QED  BY <1>12, <1>13, <1>14

\* A body ends somewhere.
LEMMA ReferenceEnd ==
  ASSUME NEW r \in Requests
  PROVE  Reference(r).end \in Nat
<1>0. PICK wire \in Seq(Bytes), length \in Nat : wire = r.body /\ length = r.content_length
  BY RequestType
<1>1. NotFramed.end \in Nat
  BY DEF NotFramed
<1>2. ChunkedFraming(wire).end \in Nat
  <2>1. Chunks(wire)[1].end \in Nat
    BY WholeType DEF Framings
  <2>. QED  BY <1>1, <2>1 DEF ChunkedFraming
<1>3. LengthFraming(wire, length).end \in Nat
  <2>1. CASE length > MaxBodyBytes \/ length > Len(wire)
    BY <1>1, <2>1 DEF LengthFraming
  <2>2. CASE ~(length > MaxBodyBytes \/ length > Len(wire))
    <3>1. MaxBodyBytes \in Nat /\ Len(wire) \in Nat
      BY DecoderAssumptions, LenProperties
    <3>2. length <= MaxBodyBytes /\ length <= Len(wire)
      BY <2>2, <3>1
    <3>. QED  BY <3>2, LengthFields
  <2>. QED  BY <2>1, <2>2
<1>. QED  BY <1>0, <1>2, <1>3 DEF Reference

\* At the beginning nothing was received.
LEMMA FrameInit ==
  ASSUME Init
  PROVE  FrameInv
<1>1. ~head /\ received = 0 /\ HeadBytes \in Nat \ {0}
  BY HttpConnectionAssumptions DEF Init
<1>2. received < HeadBytes /\ ~RequestComplete
  BY <1>1 DEF RequestComplete
<1>. QED  BY <1>1, <1>2 DEF FrameInv, PieceInv, AlignInv, VerdictInv

\* However the bytes were split, the decoder is where the reference is after those it was given.
THEOREM DecodingFollowsReference == Spec => []FrameInv
<1>1. Init => FrameInv
  BY FrameInit
<1>2. ConnectionInv /\ FrameInv /\ [Next]_vars => FrameInv'
  BY Steps, FrameMoves, FrameReceives, FrameIngests
<1>. QED  BY <1>1, <1>2, ConnectionIsSound, PTL DEF Spec

\* However the peer's bytes were split over receives and output buffers, the application is
\* given a request exactly if its whole body is well framed and within the limits, with its
\* payload; a body that fails is not; and the handler never waits for bytes past the end.
THEOREM BodiesAreFramed == Spec => []FramingExact
<1>1. ConnectionInv /\ FrameInv /\ TypeOK => FramingExact
  <2>. SUFFICES ASSUME ConnectionInv, FrameInv, TypeOK, head
                PROVE  /\ RequestComplete /\ pc \in {"dispatch", "send"} =>
                            Framing.framed /\ stored = Framing.payload
                       /\ decoder.failure # NoError => ~Framing.framed
                       /\ pc = "wait" /\ Framing.framed => received < HeadBytes + Framing.end
    BY DEF FramingExact
  <2>1. Framing = Reference(request)
    BY DEF Framing, Reference, Wire
  <2>2. /\ RequestComplete /\ pc \in {"dispatch", "send"} => Framing.framed /\ stored = Framing.payload
        /\ decoder.failure # NoError => ~Framing.framed
    BY <2>1 DEF FrameInv, VerdictInv
  <2>3. pc = "wait" /\ Framing.framed => received < HeadBytes + Framing.end
    <3>1. HAVE pc = "wait" /\ Framing.framed
    <3>2. Aligned(decoder, request, Given, stored) /\ piece = <<>> /\ ~complete(decoder) /\ decoder.failure = NoError
      BY <3>1 DEF FrameInv, AlignInv, Gathering
    <3>3. request \in Requests /\ Sound(decoder) /\ received >= HeadBytes
      BY DEF ConnectionInv, Types, BodyInv
    <3>4. Given < Framing.end
      BY <2>1, <3>1, <3>2, <3>3, OpenMeansAhead
    <3>5. Given = received - HeadBytes
      <4>1. Len(piece) = 0 /\ received \in Int /\ HeadBytes \in Int
        BY <3>2, HttpConnectionAssumptions DEF ConnectionInv, Types
      <4>. QED  BY <4>1 DEF Given
    <3>6. Framing.end \in Nat
      BY <2>1, <3>3, ReferenceEnd
    <3>7. received \in Int /\ HeadBytes \in Int
      BY HttpConnectionAssumptions DEF ConnectionInv, Types
    <3>. QED  BY <3>4, <3>5, <3>6, <3>7
  <2>. QED  BY <2>2, <2>3
<1>. QED  BY <1>1, ConnectionIsSound, LimitsAreKept, DecodingFollowsReference, PTL
=============================================================================
