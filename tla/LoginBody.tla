------------------------------- MODULE LoginBody -------------------------------
(***************************************************************************)
(* What a login request says: its content type, its session cookie and the  *)
(* JSON object of its body (src/authentication/api/authentication_api.cpp,  *)
(* session_authentication_policy.cpp).  A body is a sequence of symbols: a  *)
(* character, a word, or the four digits of a \u escape.                    *)
(***************************************************************************)
EXTENDS Integers, Sequences, FiniteSets, SequencesExt, TLC

CONSTANTS
  MaxBodySymbols,       \* maximum_login_body_bytes
  MaxOwnerLogin, MaxPassword

JsonBlanks   == {" ", "tab", "cr", "lf"}
JsonControls == {"tab", "cr", "lf", "nul"}
SimpleEscapes == ("\"" :> "\"") @@ ("\\" :> "\\") @@ ("/" :> "/") @@ ("n" :> "lf") @@ ("t" :> "tab")

\* The digits of \u: characters, and the two halves of a pair.
CodePoint == ("0061" :> "a") @@ ("000a" :> "lf")
HighHalf  == {"d83d"}
LowHalf   == {"de00"}
Pair      == "u1f600"

NoLogin == [login |-> <<>>, password |-> <<>>]
Broken  == [kind |-> "broken", value |-> <<>>, end |-> 0]

Longer(token, symbol) ==
  IF token.kind = "broken" THEN token ELSE [token EXCEPT !.value = <<symbol>> \o @]

\* parse_string() behind its opening quote, with append_escape() and parse_unicode_escape().
parse_string(body, start) ==
  LET symbol(i) == IF i <= Len(body) THEN body[i] ELSE "end"
      read[i \in 1 .. Len(body) + 1] ==
        CASE symbol(i) \in JsonControls \cup {"end"} -> Broken
          [] symbol(i) = "\"" -> [kind |-> "string", value |-> <<>>, end |-> i + 1]
          [] symbol(i) = "\\" ->
               CASE symbol(i + 1) \in DOMAIN SimpleEscapes ->
                      Longer(read[i + 2], SimpleEscapes[symbol(i + 1)])
                 [] symbol(i + 1) = "u" /\ symbol(i + 2) \in DOMAIN CodePoint ->
                      Longer(read[i + 3], CodePoint[symbol(i + 2)])
                 [] symbol(i + 1) = "u" /\ symbol(i + 2) \in HighHalf
                    /\ symbol(i + 3) = "\\" /\ symbol(i + 4) = "u" /\ symbol(i + 5) \in LowHalf ->
                      Longer(read[i + 6], Pair)
                 [] OTHER -> Broken
          [] OTHER -> Longer(read[i + 1], symbol(i))
  IN  read[start]

\* The strings and the punctuation of a body, blanks between them skipped.
JsonTokens(body) ==
  LET more(tokens, i) ==
        IF \/ body[i] \in JsonBlanks
           \/ tokens # <<>> /\ (Last(tokens).kind = "broken" \/ i < Last(tokens).end)
        THEN tokens
        ELSE Append(tokens, IF body[i] = "\"" THEN parse_string(body, i + 1)
                            ELSE [kind |-> body[i], value |-> <<>>, end |-> i + 1])
  IN  FoldLeft(more, <<>>, [i \in DOMAIN body |-> i])

\* LoginJsonParser::parse(): one object, both members once, nothing else.
LoginOf(body, tokens) ==
  LET name(m)  == tokens[4 * m - 2].value
      value(m) == tokens[4 * m].value
      object == /\ "bad" \notin Range(body)
                /\ Len(tokens) = 9
                /\ \A m \in 1 .. 2 : /\ tokens[4 * m - 3].kind = (IF m = 1 THEN "{" ELSE ",")
                                     /\ tokens[4 * m - 2].kind = "string"
                                     /\ tokens[4 * m - 1].kind = ":"
                                     /\ tokens[4 * m].kind = "string" /\ value(m) # <<>>
                /\ tokens[9].kind = "}"
                /\ {name(m) : m \in 1 .. 2} = {<<"login">>, <<"password">>}
      of(wanted) == value(CHOOSE m \in 1 .. 2 : name(m) = wanted)
  IN  IF object /\ Len(of(<<"login">>)) <= MaxOwnerLogin /\ Len(of(<<"password">>)) <= MaxPassword
      THEN [login |-> of(<<"login">>), password |-> of(<<"password">>)] ELSE NoLogin

parse_login(body) == LoginOf(body, JsonTokens(body))

\* has_json_content_type(): one field, with no parameter but charset=utf-8.
has_json_content_type(types) == Len(types) = 1 /\ types[1] \in {"json", "json; charset=utf-8"}

\* Mutant: the first of several sessions counts.
FirstSession(fields) ==
  LET given == SelectSeq(FlattenSeq(fields), LAMBDA pair : pair[1] = "session")
  IN  IF given = <<>> THEN "none" ELSE given[1][2]

\* session_cookie_credential(): one Cookie field, the session named in it at most once and
\* not empty.  A field is a sequence of pairs.
session_cookie_credential(fields) ==
  LET given == IF fields = <<>> THEN <<>>
               ELSE SelectSeq(fields[1], LAMBDA pair : pair[1] = "session") IN
  CASE fields = <<>> \/ (Len(fields) = 1 /\ given = <<>>) -> "none"
    [] Len(fields) = 1 /\ Len(given) = 1 /\ given[1][2] # "" -> given[1][2]
    [] OTHER -> "malformed"
=============================================================================
