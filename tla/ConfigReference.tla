---------------------------- MODULE ConfigReference ----------------------------
(***************************************************************************)
(* What a configuration file means, said of all its symbols at once: which  *)
(* symbols form a token, which tokens a parsed configuration is written      *)
(* with, and which configurations are safe to run.  It shares the alphabet   *)
(* with the lexer and nothing with the parser and the validator.            *)
(***************************************************************************)
EXTENDS ConfigValidator

CONSTANTS
  WellWritten,    \* sources that were written following the grammar
  RequestPaths    \* request paths, as sequences of segments

-----------------------------------------------------------------------------
\* Tokens

\* What the symbol after this one is part of.
After(region, symbol) ==
  CASE region = "code" /\ symbol = "#"  -> "comment"
    [] region = "code" /\ symbol = "\"" -> "string"
    [] region = "comment" /\ symbol \notin LineBreaks -> "comment"
    [] region = "string" /\ symbol = "\\" -> "escape"
    [] region = "string" /\ symbol \notin {"\"", "\\"} -> "string"
    [] region = "escape" -> "string"
    [] OTHER -> "code"

Region(input) ==
  FoldLeft(LAMBDA regions, symbol : Append(regions, After(Last(regions), symbol)),
           <<"code">>, input)

\* Where the token of each symbol begins; 0 between tokens.
Begins(input) ==
  LET region == Region(input)
      continues(begins, i) ==
        /\ i > 1 /\ region[i - 1] = "code" /\ begins[i - 1] # 0
        /\ \/ input[begins[i - 1]] \in Words /\ input[i] \in Continuation
           \/ {input[begins[i - 1]], input[i]} \subseteq DOMAIN Digits
      begin(begins, i) ==
        CASE region[i] \in {"string", "escape"} -> begins[i - 1]
          [] region[i] = "comment" \/ input[i] \in Blanks \cup {"#", "bom"} -> 0
          [] OTHER -> IF continues(begins, i) THEN begins[i - 1] ELSE i
  IN  FoldLeft(LAMBDA begins, i : Append(begins, begin(begins, i)), <<>>,
               [i \in DOMAIN input |-> i])

\* The value of a string literal, character by character.
Decoded(lexeme) ==
  LET region == Region(lexeme)
      inside == {i \in 2 .. Len(lexeme) - 1 : region[i] = "escape" \/ lexeme[i] # "\\"}
      order  == Ascending(inside, Len(lexeme))
  IN  [n \in DOMAIN order |->
         IF region[order[n]] = "escape" THEN Escapes[lexeme[order[n]]] ELSE lexeme[order[n]]]

Meaning(lexeme) ==
  CASE lexeme[1] = "\"" -> <<"string", Decoded(lexeme)>>
    [] lexeme[1] \in DOMAIN Digits -> <<"integer", IntegerOf(lexeme)>>
    [] lexeme \in {<<"true">>, <<"false">>} -> <<"boolean", lexeme = <<"true">>>>
    [] OTHER -> <<"symbol", lexeme[1]>>

\* The meanings of the tokens of a source, in order.
Tokens(input) ==
  LET begin == Begins(input)
      order == Ascending({begin[i] : i \in DOMAIN begin}, Len(input))
      last(b) == Max({i \in DOMAIN begin : begin[i] = b})
  IN  [n \in DOMAIN order |-> Meaning(SubSeq(input, order[n], last(order[n])))]

-----------------------------------------------------------------------------
\* Writing a parsed configuration

Symbols(names) == [n \in DOMAIN names |-> <<"symbol", names[n]>>]

WrittenDirective(d, kinds) ==
  Symbols(<<d.kind>>) \o <<<<kinds[d.kind], d.value>>>> \o Symbols(<<";">>)

WrittenLocation(location) ==
  Symbols(<<"location">>) \o <<<<"string", location.api_path>>>> \o Symbols(<<"{">>)
    \o FlattenSeq([n \in DOMAIN location.directives |->
                     WrittenDirective(location.directives[n], LocationDirectives)])
    \o Symbols(<<"}">>)

\* The items of the server block in the order of the source.
Written ==
  LET directives == parsed.directives
      locations  == parsed.locations
      places(items) == {items[n].at : n \in DOMAIN items}
      at(items, place) == items[CHOOSE n \in DOMAIN items : items[n].at = place]
      items == [place \in places(directives) |->
                  WrittenDirective(at(directives, place), ServerDirectives)]
               @@ [place \in places(locations) |-> WrittenLocation(at(locations, place))]
      order == Ascending(DOMAIN items, Len(text))
  IN  Symbols(<<"server", "{">>)
        \o FlattenSeq([n \in DOMAIN order |-> items[order[n]]]) \o Symbols(<<"}">>)

\* A configuration is accepted only if writing it out gives the tokens of its source, each
\* with its value, and every source that follows the grammar is accepted: the parser and
\* the lexer behind it (one token of lookahead, escapes, comments) lose and invent nothing.
ParsedIsWritten ==
  /\ stage = "validate" => Written = Tokens(text)
  /\ text \in WellWritten => failure = NoFailure

-----------------------------------------------------------------------------
\* Safety of the settings

Once(directives) ==
  \A i, j \in DOMAIN directives : directives[i].kind = directives[j].kind => i = j

\* The value a directive gives or, without it, the default.
ValueOf(kind) == IF Given(kind) THEN First(kind).value ELSE DefaultSettings[kind]

SafeThreads ==
  IF ValueOf("multithreading")
  THEN Given("worker_threads") /\ ValueOf("worker_threads") \in 2 .. MaxWorkers
  ELSE ~Given("worker_threads")

SafeTransport ==
  \/ /\ ValueOf("transport_mode") = <<"loopback_http">>
     /\ Class(ValueOf("bind")) = "loopback" /\ ~Given("trusted_proxy")
  \/ ValueOf("transport_mode") = <<"trusted_lan_http">> /\ ~Given("trusted_proxy")
  \/ /\ ValueOf("transport_mode") = <<"trusted_proxy_https">>
     /\ Given("trusted_proxy") /\ Class(First("trusted_proxy").value) # "none"
     /\ Class(ValueOf("bind")) # "unspecified"

\* The segments of a location path; "/" has none.
Split(path) ==
  LET slashes == Ascending({i \in DOMAIN path : path[i] = "/"}, Len(path))
      end(n)  == IF n < Len(slashes) THEN slashes[n + 1] - 1 ELSE Len(path)
  IN  IF path = <<"/">> THEN <<>>
      ELSE [n \in DOMAIN slashes |-> SubSeq(path, slashes[n] + 1, end(n))]

Covers(location, request) == IsPrefix(Split(location.api_path), request)

SafeLocations ==
  /\ parsed.locations # <<>>
  /\ \A i \in DOMAIN parsed.locations :
       LET location == parsed.locations[i] IN
       /\ Once(location.directives)
       /\ \E n \in DOMAIN location.directives :
            location.directives[n].kind = "path" /\ location.directives[n].value # <<>>
       /\ is_valid_location_path(location.api_path)
  /\ \A request \in RequestPaths :
       \A i, j \in DOMAIN parsed.locations :
         Covers(parsed.locations[i], request) /\ Covers(parsed.locations[j], request) => i = j

SafeConfiguration ==
  /\ Once(parsed.directives)
  /\ SafeThreads /\ SafeTransport /\ SafeLocations
  /\ Class(ValueOf("bind")) # "none"
  /\ ValueOf("port") \in 1 .. MaxPort
  /\ \A kind \in Timeouts : ValueOf(kind) \in 1 .. MaxTimeout
  /\ ValueOf("log_level") \in LogLevels
  /\ \A kind \in {"mime_types_file", "credentials_file"} :
       Given(kind) => First(kind).value # <<>>

\* Settings reach the bootstrap exactly when the configuration is safe: no repeated
\* directive decides anything, threads and transport fit together, no listener of a
\* loopback or proxy deployment is exposed, and no request path belongs to two locations.
\* They are then the values written.
ReleasedWhenSafe ==
  /\ stage = "rejected" /\ failure = NoFailure => ~SafeConfiguration /\ errors # <<>>
  /\ stage = "bootstrap" =>
       /\ SafeConfiguration
       /\ \A kind \in DOMAIN ServerDirectives : settings[kind] = ValueOf(kind)
       /\ Len(settings.locations) = Len(parsed.locations)
=============================================================================
