----------------------------- MODULE ConfigParser -----------------------------
(***************************************************************************)
(* The configuration parser (src/configuration/config_parser.cpp): one      *)
(* server block with directives and location blocks.  The parser looks at   *)
(* one token and asks the lexer for the next one when it has taken it; each  *)
(* action is what it does with one token.                                   *)
(***************************************************************************)
EXTENDS ConfigLexer

CONSTANTS
  MaxInteger      \* the largest std::uint64_t

VARIABLES
  text,           \* the source
  stage,          \* what is expected next, or the next part of the start
  offset,         \* offset_ of the lexer
  current,        \* current_, the token looked at
  parsed,         \* the ParsedServerBlock so far
  block,          \* the location block being read, or NoBlock
  directive,      \* the directive being read
  failure         \* the error reported, or NoFailure

parserVars == <<text, stage, offset, current, parsed, block, directive, failure>>

NoFailure == [code |-> "none", at |-> 0]
NoToken   == Token("none", <<>>, 1, 1, <<>>)
NoBlock   == [api_path |-> <<>>, at |-> 0, path_at |-> 0, close |-> 0, directives |-> <<>>]
NoDirective == [kind |-> "none", at |-> 0, value |-> 0, value_at |-> 0]

ServerDirectives ==
  [bind |-> "string", log_level |-> "string", mime_types_file |-> "string",
   credentials_file |-> "string", transport_mode |-> "string", trusted_proxy |-> "string",
   port |-> "integer", worker_threads |-> "integer", header_timeout_ms |-> "integer",
   body_timeout_ms |-> "integer", request_timeout_ms |-> "integer",
   response_timeout_ms |-> "integer", multithreading |-> "boolean"]

LocationDirectives ==
  [path |-> "string", read |-> "boolean", write |-> "boolean", delete |-> "boolean"]

\* The directives known where the current item stands.
Known == IF block = NoBlock THEN ServerDirectives ELSE LocationDirectives

Fail(code, at) ==
  /\ failure' = [code |-> code, at |-> at]
  /\ stage' = "rejected"
  /\ UNCHANGED <<text, offset, current>>

\* make_unexpected_error()
Unexpected(expected) == Fail(expected, current.at) /\ UNCHANGED <<parsed, block, directive>>

Take(token, place) ==
  IF token.kind = "error" THEN Fail(token.decoded, token.at)
  ELSE /\ current' = token
       /\ offset' = token.end
       /\ stage' = place
       /\ UNCHANGED <<text, failure>>

\* advance(): the next token, or the lexer's error.
advance(place) == Take(next(text, offset), place)

is_identifier(name) == current.kind = "identifier" /\ current.lexeme = <<name>>

\* consume(): one token of a kind that carries nothing.
consume(kind, place) ==
  /\ IF current.kind = kind THEN advance(place) /\ UNCHANGED parsed
     ELSE Fail(kind, current.at) /\ UNCHANGED parsed
  /\ UNCHANGED <<block, directive>>

-----------------------------------------------------------------------------

FirstToken ==
  /\ stage = "parse"
  /\ advance("server_keyword")
  /\ UNCHANGED <<parsed, block, directive>>

ParseServerKeyword ==
  /\ stage = "server_keyword"
  /\ IF is_identifier("server")
     THEN advance("server_open") /\ UNCHANGED <<parsed, block, directive>>
     ELSE Unexpected("server_keyword")

ParseOpen ==
  \/ stage = "server_open" /\ consume("{", "items")
  \/ stage = "location_open" /\ consume("{", "items")

\* parse_server_item() and the body of parse_location(): the name of a directive.
ParseName ==
  /\ stage = "items"
  /\ \E name \in DOMAIN Known :
       /\ is_identifier(name)
       /\ directive' = [NoDirective EXCEPT !.kind = name, !.at = current.at]
  /\ advance("value")
  /\ UNCHANGED <<parsed, block>>

ParseLocation ==
  /\ stage = "items" /\ block = NoBlock /\ is_identifier("location")
  /\ block' = [NoBlock EXCEPT !.at = current.at]
  /\ advance("api_path")
  /\ UNCHANGED <<parsed, directive>>

ParseApiPath ==
  /\ stage = "api_path"
  /\ IF current.kind = "string"
     THEN /\ block' = [block EXCEPT !.api_path = current.decoded, !.path_at = current.at]
          /\ advance("location_open")
          /\ UNCHANGED <<parsed, directive>>
     ELSE Unexpected("string_literal")

\* The end of a location block or of the server block.
ParseClose ==
  /\ stage = "items" /\ current.kind = "}"
  /\ IF block = NoBlock
     THEN parsed' = [parsed EXCEPT !.close = current.at] /\ advance("end_of_input")
     ELSE /\ parsed' = [parsed EXCEPT !.locations =
                          Append(@, [block EXCEPT !.close = current.at])]
          /\ advance("items")
  /\ block' = NoBlock
  /\ UNCHANGED directive

ParseItemFails ==
  /\ stage = "items" /\ current.kind # "}"
  /\ ~\E name \in DOMAIN Known : is_identifier(name)
  /\ ~(block = NoBlock /\ is_identifier("location"))
  /\ Unexpected(IF current.kind = "end" THEN "}"
                ELSE IF block = NoBlock THEN "server_item" ELSE "location_item")

\* The number a run of digits spells.
IntegerOf(lexeme) == FoldLeft(LAMBDA value, digit : 10 * value + Digits[digit], 0, lexeme)

Scalar(token) ==
  CASE token.kind = "string"  -> token.decoded
    [] token.kind = "boolean" -> token.lexeme = <<"true">>
    [] token.kind = "integer" -> IntegerOf(token.lexeme)

\* parse_value(): the kind of token the directive requires; an integer that fits.
ParseValue ==
  /\ stage = "value"
  /\ LET required == Known[directive.kind] IN
     IF current.kind # required THEN Unexpected(required)
     ELSE IF required = "integer" /\ Scalar(current) > MaxInteger
     THEN Unexpected("integer_out_of_range")
     ELSE /\ directive' = [directive EXCEPT !.value = Scalar(current), !.value_at = current.at]
          /\ advance("semicolon")
          /\ UNCHANGED <<parsed, block>>

\* The directive is kept once its semicolon has been taken.
ParseSemicolon ==
  /\ stage = "semicolon"
  /\ IF current.kind # ";" THEN Unexpected(";")
     ELSE /\ IF block = NoBlock
             THEN /\ parsed' = [parsed EXCEPT !.directives = Append(@, directive)]
                  /\ UNCHANGED block
             ELSE /\ block' = [block EXCEPT !.directives = Append(@, directive)]
                  /\ UNCHANGED parsed
          /\ advance("items")
          /\ directive' = NoDirective

\* Mutant: whatever follows the server block is not looked at.
ParseEndUnchecked ==
  /\ stage = "end_of_input"
  /\ stage' = "validate"
  /\ UNCHANGED <<text, offset, current, failure, parsed, block, directive>>

ParseEnd ==
  /\ stage = "end_of_input"
  /\ IF current.kind = "end"
     THEN stage' = "validate" /\ UNCHANGED <<text, offset, current, failure, parsed, block, directive>>
     ELSE Unexpected("end_of_input")

Parse ==
  \/ FirstToken \/ ParseServerKeyword \/ ParseOpen \/ ParseName \/ ParseLocation
  \/ ParseApiPath \/ ParseClose \/ ParseItemFails \/ ParseValue \/ ParseSemicolon \/ ParseEnd

ParserInit(source) ==
  /\ text = source
  /\ offset = FirstOffset(source)
  /\ current = NoToken
  /\ parsed = [directives |-> <<>>, locations |-> <<>>, close |-> 0]
  /\ block = NoBlock
  /\ directive = NoDirective
  /\ failure = NoFailure
=============================================================================
