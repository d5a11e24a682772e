------------------------------ MODULE ConfigLexer ------------------------------
(***************************************************************************)
(* The lexer of configuration and credential files                         *)
(* (src/configuration/config_lexer.cpp).  A source is a sequence of         *)
(* symbols: a symbol is one character, or a whole word of letters whose     *)
(* parts nobody looks at.  Only the words of ConfigLexer's callers, digits  *)
(* and the characters the lexer tells apart are symbols.                    *)
(***************************************************************************)
EXTENDS Integers, Sequences, FiniteSets, FiniteSetsExt, SequencesExt, TLC

CONSTANTS
  Words,          \* symbols made of letters and underscores
  OtherText,      \* symbols of other printable characters
  MaxInputSize    \* max_input_size_bytes

\* The decimal digits that occur, with their values.
Digits == ("0" :> 0) @@ ("1" :> 1) @@ ("2" :> 2) @@ ("9" :> 9)

LineBreaks == {"cr", "lf"}
Blanks     == {" "} \cup LineBreaks

\* Accepted nowhere: a null byte, a byte-order mark past the start, bytes that are no UTF-8.
Illegal == [nul |-> "embedded_null", bom |-> "unexpected_byte_order_mark",
            bad |-> "invalid_utf8"]

Continuation == Words \cup DOMAIN Digits \cup {"-"}

\* What an escape sequence stands for.  A word after a backslash is taken for its first
\* letter: of the words, only the one-letter ones begin with n, r or t.
Escapes == ("\"" :> "\"") @@ ("\\" :> "\\") @@ ("n" :> "lf") @@ ("r" :> "cr") @@ ("t" :> "tab")

Punctuation == {"{", "}", ";"}

\* A token: what it is, the symbols it was read from, its value if it is a string, where
\* it begins and where the next one may begin.
Token(kind, input, start, end, decoded) ==
  [kind |-> kind, lexeme |-> SubSeq(input, start, end - 1), decoded |-> decoded,
   at |-> start, end |-> end]

LexicalError(code, at) ==
  [kind |-> "error", lexeme |-> <<>>, decoded |-> code, at |-> at, end |-> at]

\* The members of a set of numbers up to n, in order.
Ascending(set, n) == SelectSeq([i \in 1 .. n |-> i], LAMBDA i : i \in set)

\* The first place from start on with a symbol of stops, or the end.
Find(input, start, stops) ==
  LET places == {i \in start .. Len(input) : input[i] \in stops}
  IN  IF places = {} THEN Len(input) + 1 ELSE Min(places)

FindOther(input, start, symbols) ==
  LET places == {i \in start .. Len(input) : input[i] \notin symbols}
  IN  IF places = {} THEN Len(input) + 1 ELSE Min(places)

-----------------------------------------------------------------------------

\* Where the next token begins, or the error in a comment before it.
skip_trivia(input, offset) ==
  LET skip[i \in 1 .. Len(input) + 1] ==
        IF i <= Len(input) /\ input[i] \in Blanks THEN skip[i + 1]
        ELSE IF i <= Len(input) /\ input[i] = "#"
        THEN LET stop == Find(input, i, LineBreaks \cup DOMAIN Illegal) IN
             IF stop <= Len(input) /\ input[stop] \in DOMAIN Illegal
             THEN LexicalError(Illegal[input[stop]], stop) ELSE skip[stop]
        ELSE Token("start", input, i, i, <<>>)
  IN  skip[offset]

lex_identifier(input, start) ==
  LET end == FindOther(input, start, Continuation)
      lexeme == SubSeq(input, start, end - 1) IN
  Token(IF lexeme \in {<<"true">>, <<"false">>} THEN "boolean" ELSE "identifier",
        input, start, end, <<>>)

lex_integer(input, start) ==
  Token("integer", input, start, FindOther(input, start, DOMAIN Digits), <<>>)

\* A string token with one more character in front, or the error that follows.
Prefixed(token, symbol) ==
  IF token.kind = "error" THEN token ELSE [token EXCEPT !.decoded = <<symbol>> \o @]

\* A string, its escapes decoded.  An escape that ends the input is an error of its own,
\* a string that does is reported where it begins.
lex_string(input, start) ==
  LET read[i \in 1 .. Len(input) + 1] ==
        IF i > Len(input) THEN LexicalError("unterminated_string", start)
        ELSE LET next == IF i < Len(input) THEN input[i + 1] ELSE "end" IN
        CASE input[i] = "\"" -> Token("string", input, start, i + 1, <<>>)
          [] input[i] \in LineBreaks -> LexicalError("line_break_in_string", i)
          [] input[i] \in DOMAIN Illegal -> LexicalError(Illegal[input[i]], i)
          [] input[i] = "\\" /\ next \in LineBreaks -> LexicalError("line_break_in_string", i + 1)
          [] input[i] = "\\" /\ next \in DOMAIN Illegal -> LexicalError(Illegal[next], i + 1)
          [] input[i] = "\\" /\ next \notin LineBreaks \cup DOMAIN Illegal \cup DOMAIN Escapes
               -> LexicalError("invalid_escape_sequence", i)
          [] input[i] = "\\" /\ next \in DOMAIN Escapes -> Prefixed(read[i + 2], Escapes[next])
          [] OTHER -> Prefixed(read[i + 1], input[i])
  IN  read[start + 1]

\* The token that begins at i.
TokenAt(input, i) ==
  IF i > Len(input) THEN Token("end", input, i, i, <<>>)
  ELSE CASE input[i] \in Words -> lex_identifier(input, i)
         [] input[i] \in DOMAIN Digits -> lex_integer(input, i)
         [] input[i] = "\"" -> lex_string(input, i)
         [] input[i] \in Punctuation -> Token(input[i], input, i, i + 1, <<>>)
         [] input[i] \in DOMAIN Illegal -> LexicalError(Illegal[input[i]], i)
         [] OTHER -> LexicalError("unexpected_character", i)

TokenAfter(input, trivia) == IF trivia.kind = "error" THEN trivia ELSE TokenAt(input, trivia.at)

\* ConfigLexer::next(): the token at offset, or the error that ends the lexer.
next(input, offset) == TokenAfter(input, skip_trivia(input, offset))

\* Where the constructor starts: behind a byte-order mark.
FirstOffset(input) == IF Len(input) > 0 /\ input[1] = "bom" THEN 2 ELSE 1

TooLarge(input) == Len(input) > MaxInputSize
=============================================================================
