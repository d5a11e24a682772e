---------------------------- MODULE MCApplication ----------------------------
(***************************************************************************)
(* The scenarios of the application run: configuration files (every way to  *)
(* break one symbol of a small file, and the combinations of directives),   *)
(* credential tools racing with the start, and requests against a tree with *)
(* links that is rearranged meanwhile.                                      *)
(***************************************************************************)
EXTENDS Application

MCWords == DOMAIN ServerDirectives \cup DOMAIN LocationDirectives
  \cup {"server", "location", "true", "false", "a", "b", "n", "debug", "srv", "etc", "page", "owner",
        "login", "password_verifier", "mime", "gone", "cred", "v1", "v2"}
  \cup {m[1] : m \in Modes}

-----------------------------------------------------------------------------
\* Configuration files

Quoted(s) == <<"\"">> \o s \o <<"\"">>
Line(name, value) == <<name, " ">> \o value \o <<";", "lf">>
LocationText(path, lines) == <<"location", " ">> \o Quoted(path) \o <<"{">> \o FlattenSeq(lines) \o <<"}">>
ServerText(items) == <<"server", "{">> \o FlattenSeq(items) \o <<"}">>

SrvA == <<"/", "srv", "/", "a">>
SrvB == <<"/", "srv", "/", "b">>
A    == <<"/", "a">>
AB   == <<"/", "a", "b">>
RootLine  == Line("path", Quoted(<<"a">>))
LocationA == LocationText(A, <<RootLine>>)
SmallText == ServerText(<<Line("port", <<"2">>), LocationA>>)

Values(kind) ==
  CASE kind \in {"bind", "trusted_proxy"} ->
         {Quoted(<<s>>) : s \in {"127.0.0.1", "0.0.0.0", "192.168.0.2", "a"}}
    [] kind = "transport_mode" -> {Quoted(m) : m \in Modes \cup {<<"a">>}}
    [] ServerDirectives[kind] = "string" -> {Quoted(<<>>), Quoted(<<"a">>), Quoted(<<"debug">>)}
    [] ServerDirectives[kind] = "integer" ->
         {<<"0">>, <<"1">>, <<"2">>, <<"9">>, <<"9", "9">>, <<"9", "9", "9">>}
    [] OTHER -> {<<"true">>, <<"false">>}

Optional(kind) == {<<>>} \cup {<<Line(kind, v)>> : v \in Values(kind)}

TransportTexts ==
  {ServerText(m \o b \o p \o <<LocationA>>) :
     m \in Optional("transport_mode"), b \in Optional("bind"), p \in Optional("trusted_proxy")}
ThreadTexts ==
  {ServerText(m \o w \o <<LocationA>>) : m \in Optional("multithreading"), w \in Optional("worker_threads")}
DirectiveTexts ==
  {ServerText(<<Line(kind, v), LocationA>>) :
     kind \in DOMAIN ServerDirectives, v \in UNION {Values(k) : k \in {"bind", "port", "log_level", "multithreading"}}}
RepeatedTexts ==
  {ServerText(<<Line(kind, v), Line(kind, v), LocationA>>) : kind \in {"port", "bind"}, v \in Values("port")}

LocationPaths ==
  {<<"/">>, A, AB, <<"/", "a", "/", "b">>, <<"/", "b">>, <<"/", "a", "/">>, <<"a">>, <<"/", "/">>,
   <<"/", ".">>, <<"/", ".", ".">>, <<"/", ".", "a">>, <<>>, <<"/", "gone">>}
LocationTexts ==
  {ServerText(<<LocationText(p, <<RootLine>>), LocationText(q, <<RootLine>>)>>) : p, q \in LocationPaths}
  \cup {ServerText(<<LocationText(p, <<RootLine>>), LocationText(q, <<RootLine>>), LocationText(r, <<RootLine>>)>>) :
          p, q, r \in {A, <<"/", "a", "/", "b">>, <<"/", "b">>}}
  \cup {ServerText(<<LocationText(A, <<d, e>>)>>) :
          d, e \in {RootLine, Line("path", Quoted(<<>>)), Line("read", <<"true">>), Line("write", <<"true">>)}}

\* Escapes, comments and both kinds of line break between tokens.
DecoratedTexts ==
  {<<"bom", "#", "{", "cr", "lf">> \o SmallText,
   ServerText(<<<<"#", "\"", "lf">>, Line("log_level", Quoted(<<"debug">>)), LocationA, <<"#", "}">>, <<"lf">>>>),
   ServerText(<<Line("mime_types_file", Quoted(<<"\\", "\"", "\\", "\\", "a", "\\", "n">>)), LocationA>>)}

\* A symbol replaced, dropped or added.
Alphabet ==
  {"server", "location", "port", "true", "a", "9", "-", " ", "lf", "#", "\"", "\\", "{", "}", ";",
   "nul", "bom", "bad", "/", "n"}
Corrupted(t) ==
  {[t EXCEPT ![i] = c] : i \in DOMAIN t, c \in Alphabet}
  \cup {SubSeq(t, 1, i - 1) \o SubSeq(t, i + 1, Len(t)) : i \in DOMAIN t}
  \cup {SubSeq(t, 1, i) \o <<c>> \o SubSeq(t, i + 1, Len(t)) : i \in 0 .. Len(t), c \in Alphabet}

MCWellWritten ==
  {SmallText, ServerText(<<>>)} \cup LocationTexts \cup TransportTexts \cup DecoratedTexts

\* Long enough to be refused unread.
LongText == SmallText \o [i \in 1 .. 150 |-> " "]

ConfigTexts ==
  MCWellWritten \cup ThreadTexts \cup DirectiveTexts \cup RepeatedTexts \cup Corrupted(SmallText)
  \cup {LongText}

MCAddress == (<<"127.0.0.1">> :> "loopback") @@ (<<"0.0.0.0">> :> "unspecified")
             @@ (<<"192.168.0.2">> :> "other")

MCRequestPaths ==
  {<<>>, <<<<"a">>>>, <<<<"b">>>>, <<<<"a">>, <<"b">>>>, <<<<"a", "b">>>>, <<<<".", "a">>>>}

-----------------------------------------------------------------------------
\* The tree

N(name) == <<name>>
Node(type, to, node) == [type |-> type, to |-> to, node |-> node]
Directory(node) == Node("directory", <<>>, node)
File(node) == Node("file", <<>>, node)
Link(to, node) == Node("link", to, node)

Etc  == <<N("etc")>>
Cred == <<N("etc"), N("cred")>>
RA   == <<N("srv"), N("a")>>
RB   == <<N("srv"), N("b")>>
MCConfigDir == Etc
MCCredentialPath == Cred
MCDefaultName == N("cred")

Outer == (Etc :> Directory(1)) @@ (Cred :> File(2)) @@ (Append(Etc, N("g")) :> File(10)) @@ (<<N("srv")>> :> Directory(3))
         @@ (RA :> Directory(4)) @@ (RB :> Directory(5)) @@ (Append(RB, N("x")) :> File(6))

D    == Append(RA, N("d"))
F    == Append(RA, N("f"))
Fixed == (Append(RA, N("in")) :> Link(D, 11)) @@ (Append(RA, N("out")) :> Link(Etc, 12))
         @@ (Append(RA, N("gone")) :> Link(<<N("gone")>>, 13))
         @@ (Append(RA, <<"page", ".", "html">>) :> File(14))
         @@ (Append(RA, <<"stage">>) :> File(15))
         @@ (Append(RA, <<"%", "2e">>) :> File(16))
Tree ==
  Outer @@ Fixed @@ (D :> Directory(7)) @@ (Append(D, N("g")) :> File(8)) @@ (F :> File(9))

\* The directory moved and a link to the configuration left in its place; a file replaced by a
\* link to the credentials; the directory gone; the directory moved out of the root.
Old == Append(RA, N("old"))
Swapped ==
  Outer @@ Fixed @@ (D :> Link(Etc, 20)) @@ (Old :> Directory(7)) @@ (Append(Old, N("g")) :> File(8))
  @@ (F :> Link(Cred, 21))
Emptied == Outer @@ Fixed @@ (F :> Directory(22))
Away == <<N("srv"), N("old")>>
MovedOut ==
  Outer @@ Fixed @@ (Away :> Directory(7)) @@ (Append(Away, N("g")) :> File(8)) @@ (F :> File(9))

-----------------------------------------------------------------------------
\* Requests

MCLoginPath  == <<"/", "api", "/", "auth", "/", "login">>
MCLogoutPath == <<"/", "api", "/", "auth", "/", "logout">>

SessionCookie == <<<<<<"session", "s1">>>>>>
Request(method, target) ==
  [NoRequest EXCEPT !.peer = "127.0.0.1", !.method = method, !.target = target, !.cookies = SessionCookie]

Below(suffix) == A \o <<"/">> \o suffix

MCTargetMeaning ==
  (A :> <<>>) @@ (Below(<<>>) :> <<>>) @@ (Below(<<"f">>) :> <<N("f")>>)
  @@ (Below(<<"f", "?", "x">>) :> <<N("f")>>)
  @@ (Below(<<"d">>) :> <<N("d")>>) @@ (Below(<<"d", "/", "g">>) :> <<N("d"), N("g")>>)
  @@ (Below(<<"d", "%2f", "g">>) :> <<N("d"), N("g")>>) @@ (Below(<<"d", "\\", "g">>) :> <<N("d"), N("g")>>)
  @@ (Below(<<"d", "/", ".", ".", "/", "f">>) :> <<N("f")>>)
  @@ (Below(<<"in", "/", "g">>) :> <<N("in"), N("g")>>) @@ (Below(<<"f", "/">>) :> <<N("f")>>)
  @@ (Below(<<"page", ".", "html">>) :> <<<<"page", ".", "html">>>>)
  @@ (AB \o <<"/", "x">> :> <<N("x")>>) @@ (<<"/", "f">> :> <<N("f")>>)
  @@ (Below(<<"page", "%2e", "html">>) :> <<<<"page", ".", "html">>>>)

\* Targets that lead nowhere, or out of the root.
Strays ==
  {Below(s) : s \in {<<".", ".", "/", "b", "/", "x">>, <<"%2e", "%2e", "/", "b", "/", "x">>,
     <<"d", "/", ".", ".", "/", ".", ".", "/", "b", "/", "x">>, <<"out", "/", "cred">>, <<"gone">>,
     <<"%25", "2e", "/", "f">>, <<"%25", "2e">>, <<"%zz">>, <<"f", "%00">>, <<"%ff">>, <<"/", "f">>,
     <<"%2f", "f">>, <<"c:", "f">>, <<"stage">>, <<"d", "/", "stage">>, <<"f", "/", "x">>,
     <<"missing", "/", "f">>, [i \in 1 .. 13 |-> "a"]}}
  \cup {<<"/">>, <<"/", "b">>, <<"/", "b", "/", "x">>, AB, MCLoginPath,
        <<"/", "missing">>}

Reads == {Request("GET", t) : t \in DOMAIN MCTargetMeaning \cup Strays} \cup {Request("HEAD", Below(<<"f">>))}

Writes ==
  {Request(m, Below(s)) :
     m \in {"PUT", "POST", "DELETE"},
     s \in {<<>>, <<"f">>, <<"f", "/">>, <<"d">>, <<"new">>, <<"d", "/", "new">>, <<"d", "/", "g">>, <<"in">>,
            <<"in", "/", "new">>, <<"out", "/", "new">>, <<"missing", "/", "new">>, <<"stage">>}}
  \cup {Request(m, <<"/", "b", "/", "x">>) : m \in {"PUT", "POST", "DELETE"}}
  \cup {[Request(m, Below(<<"new">>)) EXCEPT !.body = <<"a">>] : m \in {"POST", "DELETE"}}

Json == <<"json">>
Pairs(pairs) == FlattenSeq([n \in DOMAIN pairs |->
  (IF n = 1 THEN <<"{">> ELSE <<",", " ">>) \o Quoted(pairs[n][1]) \o <<":">> \o Quoted(pairs[n][2])]) \o <<"}">>
L(value) == <<<<"login">>, value>>
P(value) == <<<<"password">>, value>>
Says(login, password) == [login |-> login, password |-> password]

MCBodyMeaning ==
  (Pairs(<<L(<<"a">>), P(<<"p1">>)>>) :> Says(<<"a">>, <<"p1">>))
  @@ (Pairs(<<P(<<"p1">>), L(<<"\\", "u", "0061">>)>>) :> Says(<<"a">>, <<"p1">>))
  @@ (Pairs(<<L(<<"a">>), P(<<"p2">>)>>) :> Says(<<"a">>, <<"p2">>))
  @@ (Pairs(<<L(<<"\\", "\"", "a">>), P(<<"p1">>)>>) :> Says(<<"\"", "a">>, <<"p1">>))

Bodies ==
  DOMAIN MCBodyMeaning
  \cup {<<>>, Pairs(<<L(<<"a">>)>>), Pairs(<<L(<<"a">>), P(<<>>)>>), Pairs(<<L(<<"a">>), P(<<"p2">>), P(<<"p1">>)>>),
        Pairs(<<L(<<"a">>), L(<<"a">>)>>), Pairs(<<L(<<"a">>), P(<<"p1">>)>>) \o <<"a">>,
        Pairs(<<L(<<"a">>), P(<<"p1", "bad">>)>>), Pairs(<<L(<<"a">>), P(<<"p1", "\\">>)>>),
        Pairs(<<L(<<"\\", "u", "d83d">>), P(<<"p1">>)>>),
        Pairs(<<L(<<"\\", "u", "d83d", "\\", "u", "de00">>), P(<<"p1">>)>>),
        Pairs(<<L(<<"a", "tab">>), P(<<"p1">>)>>), [i \in 1 .. 31 |-> " "]}

LoginWith(body) ==
  [Request("POST", MCLoginPath) EXCEPT !.content_types = Json, !.body = body, !.cookies = <<>>]
GoodLogin == LoginWith(Pairs(<<L(<<"a">>), P(<<"p1">>)>>))
SessionRequests ==
  {LoginWith(b) : b \in Bodies}
  \cup {[GoodLogin EXCEPT !.content_types = c] : c \in {<<>>, <<"text">>, <<"json", "json">>, <<"json; charset=utf-8">>}}
  \cup {[r EXCEPT !.cookies = c] :
          r \in {GoodLogin, Request("POST", MCLogoutPath), Request("GET", Below(<<"f">>))},
          c \in {<<>>, SessionCookie, <<<<<<"session", "">>>>>>, <<<<<<"session", "s0">>>>>>,
                 <<<<<<"session", "s1">>, <<"session", "s1">>>>>>, SessionCookie \o SessionCookie,
                 <<<<<<"theme", "x">>>>>>, <<<<<<"theme", "x">>, <<"session", "s1">>>>>>}}
  \cup {Request("OPTIONS", <<"*">>), Request("OPTIONS", A), Request("GET", MCLoginPath), Request("GET", A)}

\* Peers and forwarded fields.
PeerRequests ==
  {[r EXCEPT !.peer = p] : r \in {GoodLogin, Request("GET", A)}, p \in {"127.0.0.1", "192.168.0.2", "fe80::1%1", "unix"}}
ForwardedRequests ==
  {[GoodLogin EXCEPT !.peer = p, !.schemes = s, !.clients = c] :
     p \in {"127.0.0.1", "192.168.0.2", "fe80::1%1"}, s \in {<<>>, <<"https">>, <<"http">>, <<"https", "https">>},
     c \in {<<>>, <<"192.168.0.2">>, <<"unix">>, <<"fe80::1%1">>, <<"127.0.0.1", "127.0.0.1">>}}

MCPeerClass == [p \in {"127.0.0.1", "192.168.0.2", "fe80::1%1"} |->
                  CASE p = "127.0.0.1" -> "loopback" [] p = "192.168.0.2" -> "other" [] OTHER -> "scoped"]

-----------------------------------------------------------------------------
\* Tools, MIME files and the scenarios

MCLogin    == ("t1" :> <<"a">>) @@ ("t2" :> <<"\"", "\\", "a">>) @@ ("t3" :> <<"a", "tab">>)
MCVerifier == ("t1" :> <<"v1", "a">>) @@ ("t2" :> <<"v1", "b">>) @@ ("t3" :> <<"v2">>)
MCPasswordOf == (<<"v1", "a">> :> <<"p1">>) @@ (<<"v1", "b">> :> <<"p2">>) @@ (<<"v2">> :> <<"p2">>)

Mode(mode) == Line("transport_mode", Quoted(<<mode>>))
AText(lines) == LocationText(A, <<Line("path", Quoted(SrvA))>> \o lines)
Changeable == <<Line("write", <<"true">>), Line("delete", <<"true">>)>>
BText == LocationText(AB, <<Line("path", Quoted(SrvB))>>)
RunText(items) == ServerText(items \o <<AText(Changeable), BText>>)
PlainText == ServerText(<<LocationText(A, <<Line("path", Quoted(SrvA))>>)>>)
TopText   == ServerText(<<LocationText(<<"/">>, <<Line("path", Quoted(SrvA))>>)>>)
MimeText(value) == RunText(<<Line("mime_types_file", Quoted(<<value>>))>>)
RootText(root) == ServerText(<<LocationText(A, <<Line("path", Quoted(root))>>)>>)
CredText(value) == RunText(<<Line("credentials_file", Quoted(value))>>)

MCMimeFiles ==
  (<<"a">> :> <<<<"text/html", "HTML", "txt">>, <<"#", "x">>, <<>>>>)
  @@ (<<"b">> :> <<<<"TEXT/HTML", "txt", "#", "x">>>>)
  @@ (<<"mime">> :> <<<<"image/png", "html", "Html">>>>)
  @@ (<<"n">> :> <<<<"image/png">>>>)
  @@ (<<"page">> :> <<<<"image", "png">>>>)
MCExtension == ("html" :> "html") @@ ("HTML" :> "html") @@ ("Html" :> "html") @@ ("txt" :> "txt")
MCMediaType == ("text/html" :> "text/html") @@ ("TEXT/HTML" :> "text/html") @@ ("image/png" :> "image/png")

Arguments == <<"--config", "server.conf">>

Scenario(text_, provisioned, requests) ==
  [arguments |-> Arguments, text |-> text_, tools |-> {}, provisioned |-> provisioned,
   requests |-> requests, tree |-> Tree, later |-> {}]

ConfigScenarios == {[Scenario(t, Nobody, {}) EXCEPT !.tree = Outer] : t \in ConfigTexts}

ArgumentScenarios ==
  {[Scenario(PlainText, Nobody, {}) EXCEPT !.arguments = a] :
     a \in {<<>>, <<"--config">>, <<"--config", "">>, <<"x", "y">>, <<"--config", "--config">>}}

StartScenarios ==
  {Scenario(MimeText(v), "t1", {GoodLogin, Request("GET", Below(<<"page", ".", "html">>))}) :
     v \in {"a", "b", "mime", "n", "page", "gone"}}
  \cup {Scenario(RootText(r), "t1", {}) :
          r \in {<<"/", "etc">>, <<"/", "gone">>, <<"/", "etc", "/", "cred">>, <<"/", "srv", "/", "a", "/", "out">>}}
  \cup {Scenario(ServerText([i \in DOMAIN paths |-> LocationText(paths[i], <<Line("path", Quoted(SrvA))>>)]), "t1", {}) :
          paths \in {<<MCLoginPath>>, <<A, AB, <<"/", "b">>>>}}
  \cup {Scenario(CredText(c), "t1", {}) :
          c \in {<<"cred">>, <<"gone", "/", "cred">>, <<"a">>, <<"/", "srv", "/", "a", "/", "out", "/", "cred">>,
                 <<"/", "srv", "/", "a", "/", "f">>}}

RequestScenarios ==
  {Scenario(RunText(<<>>), "t1", Reads \cup Writes \cup {GoodLogin}),
   [Scenario(RunText(<<>>), "t1", {GoodLogin} \cup {Request("GET", Below(s)) : s \in {<<"f">>, <<"d">>, <<"d", "/", "g">>, <<>>}}
      \cup {Request(m, Below(<<"d", "/", "new">>)) : m \in {"PUT", "POST"}}
      \cup {Request("DELETE", Below(s)) : s \in {<<"f">>, <<"d", "/", "g">>}})
      EXCEPT !.later = {Swapped, Emptied}],
   [Scenario(RunText(<<>>), "t1", {GoodLogin, Request("DELETE", Below(<<"d", "/", "g">>))}) EXCEPT !.later = {MovedOut}],
   Scenario(PlainText, "t1", SessionRequests \cup PeerRequests \cup Writes
              \cup {Request(m, AB \o s) : m \in {"GET", "DELETE"}, s \in {<<>>, <<"/", "x">>}}),
   Scenario(TopText, "t1", {GoodLogin} \cup {Request("GET", t) : t \in {<<"/">>, MCLoginPath, <<"/", "f">>}}),
   Scenario(RunText(<<Mode("trusted_lan_http")>>), "t1", PeerRequests),
   Scenario(RunText(<<Mode("trusted_proxy_https"), Line("trusted_proxy", Quoted(<<"127.0.0.1">>))>>), "t1",
            ForwardedRequests \cup {[Request("POST", MCLogoutPath) EXCEPT !.schemes = <<"https">>, !.clients = <<"192.168.0.2">>]})}

ToolScenarios ==
  {[Scenario(PlainText, Nobody, {}) EXCEPT !.tools = tools] : tools \in {{"t1", "t2"}, {"t3"}}}

MCScenarios ==
  ConfigScenarios \cup ArgumentScenarios \cup StartScenarios \cup RequestScenarios \cup ToolScenarios
=============================================================================
