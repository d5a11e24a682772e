------------------------------ MODULE Application ------------------------------
(***************************************************************************)
(* The server process from its command line to its exit (apps/sparenode,    *)
(* src/configuration, src/bootstrap): the configuration is loaded and       *)
(* validated, the shared roots, the MIME types and the owner's credentials  *)
(* are resolved, the routes registered and the server started; requests are *)
(* then answered one after the other until the operator presses Enter.      *)
(* Meanwhile runs of the credential tool may write the file being read and  *)
(* the operator may rearrange the shared directories.                       *)
(*                                                                         *)
(* A request here is complete; how it is received is HttpConnection, and    *)
(* how requests of several workers share a location is FilesystemService.   *)
(***************************************************************************)
EXTENDS ConfigReference, CredentialFile, SafePath, HttpRouter, LoginBody, MimeTypes

CONSTANTS
  Scenarios,        \* what surrounds a run: see Init
  ConfigDir,        \* the directory of the configuration file
  CredentialPath,   \* where the credential tool writes
  DefaultName,      \* credentials.conf
  MimeFiles,        \* the MIME types files there are, by configured value
  PasswordOf,       \* the password each verifier was made from
  MaxRequests,      \* bound: requests answered in one run
  BodyMeaning,      \* what login bodies were written to say
  TargetMeaning     \* the names that request targets were written to lead to

VARIABLES
  scenario,
  exit_code,        \* 0 while the process runs
  roots,            \* the SharedRoot of each location
  types,            \* the MIME registry
  owner,            \* the owner's credentials, once loaded
  reading,          \* whose credential file is open
  routes,           \* the router's table
  request, rpc, route,
  where,            \* the path resolved for the request
  descriptor,       \* the directory opened for it
  answer,           \* the last answer
  live,             \* whether the session "s1" is live
  sent              \* requests so far

startVars   == <<scenario, exit_code, roots, types, owner, reading, routes, source>>
requestVars == <<request, rpc, route, where, descriptor, answer, live, sent>>
configVars  == <<parserVars, validatorVars>>
vars == <<configVars, credentialVars, startVars, requestVars, host>>

NoRequest == [peer |-> "none", schemes |-> <<>>, clients |-> <<>>, method |-> "GET",
              target |-> <<>>, cookies |-> <<>>, content_types |-> <<>>, body |-> <<>>]

NoAnswer == [status |-> 0, shown |-> {}, type |-> "none", allow |-> {}, secure |-> FALSE]

-----------------------------------------------------------------------------
\* Starting

Exit(code) ==
  /\ stage' = "exit" /\ exit_code' = code
  /\ UNCHANGED <<text, offset, current, parsed, block, directive, failure, validatorVars>>

Enter(place) ==
  /\ stage' = place
  /\ UNCHANGED <<text, offset, current, parsed, block, directive, failure, validatorVars, exit_code>>

\* One --config option with a path, and nothing else.
parse_command_line(arguments) ==
  Len(arguments) = 2 /\ arguments[1] = "--config" /\ arguments[2] \notin {"", "--config"}

CommandLine ==
  /\ stage = "command_line"
  /\ IF parse_command_line(scenario.arguments) THEN Enter("load") ELSE Exit(2)
  /\ UNCHANGED <<credentialVars, requestVars, host, scenario, roots, types, owner, reading, routes, source>>

\* ConfigLoader::load(): the file has to open, read and fit.
LoadConfiguration ==
  /\ stage = "load"
  /\ \/ Exit(2)
     \/ IF TooLarge(text) THEN Exit(2) ELSE Enter("parse")
  /\ UNCHANGED <<credentialVars, requestVars, host, scenario, roots, types, owner, reading, routes, source>>

ReadConfiguration ==
  /\ \/ Parse /\ UNCHANGED validatorVars
     \/ Validate
  /\ UNCHANGED <<credentialVars, startVars, requestVars, host>>

Reject ==
  /\ stage = "rejected"
  /\ Exit(2)
  /\ UNCHANGED <<credentialVars, requestVars, host, scenario, roots, types, owner, reading, routes, source>>

\* resolve_path(): below the directory of the configuration unless it is absolute.
resolve_path(configured) ==
  IF configured[1] = "/" THEN Names(configured) ELSE ConfigDir \o Names(configured)

\* build_locations(): one location after the other, the first bad root ends it.
BuildLocation ==
  /\ stage = "bootstrap" /\ Len(roots) < Len(settings.locations)
  /\ LET root == SharedRoot(resolve_path(settings.locations[Len(roots) + 1].root)) IN
     IF root.code = "ok" THEN roots' = Append(roots, root.path) /\ Enter("bootstrap")
     ELSE Exit(3) /\ UNCHANGED roots
  /\ UNCHANGED <<credentialVars, requestVars, host, scenario, types, owner, reading, routes, source>>

LoadMimeTypes ==
  /\ stage = "bootstrap" /\ Len(roots) = Len(settings.locations)
  /\ IF ~Given("mime_types_file") THEN UNCHANGED types /\ Enter("credentials")
     ELSE \E loaded \in {IF settings.mime_types_file \in DOMAIN MimeFiles
                          THEN load_mime_types(MimeFiles[settings.mime_types_file]) ELSE NoMimeTypes} :
          \/ loaded.code # "ok" /\ Exit(3) /\ UNCHANGED types
          \/ loaded.code = "ok" /\ types' = loaded.types /\ Enter("credentials")
  /\ UNCHANGED <<credentialVars, requestVars, host, scenario, roots, owner, reading, routes, source>>

\* resolve_credentials() and resolve_credential_path(): the directory canonical, the name kept.
CredentialFilePath ==
  LET path == IF ~Given("credentials_file") THEN Append(ConfigDir, DefaultName)
              ELSE resolve_path(settings.credentials_file)
      named(parent) == IF parent.code = "ok" THEN Resolved(Append(parent.path, Last(path))) ELSE parent
  IN  named(canonical(Front(path)))

\* credential_is_shared(): a directory above the file is the root of a location.
credential_is_shared(path) ==
  \E i \in DOMAIN roots : \E n \in 1 .. Len(path) - 1 : SubSeq(path, 1, n) = roots[i]

\* build_authentication(): libsodium, the path, and the file as it is when it is opened.
OpenCredentials ==
  /\ stage = "credentials"
  /\ \E path \in {CredentialFilePath} :
     \/ /\ \/ path.code # "ok" \/ credential_is_shared(path.path)
           \/ path.path # CredentialPath \/ entry = Nobody
           \/ entry # Nobody /\ Len(content[entry]) > MaxFileBytes
        /\ Exit(3) /\ UNCHANGED reading
     \/ /\ path = Resolved(CredentialPath) /\ ~credential_is_shared(path.path)
        /\ entry # Nobody /\ Len(content[entry]) <= MaxFileBytes
        /\ reading' = entry /\ Enter("read")
  /\ UNCHANGED <<credentialVars, requestVars, host, scenario, roots, types, owner, routes, source>>

\* One read() of the open file, whatever has been written to it so far.
ReadCredentials ==
  /\ stage = "read"
  /\ LET written == content[reading] IN
     IF Len(source) < Len(written) /\ Len(source) <= MaxFileBytes
     THEN /\ \E end \in Len(source) + 1 .. Len(written) : source' = SubSeq(written, 1, end)
          /\ Enter("read")
     ELSE Enter("authenticate") /\ UNCHANGED source
  /\ UNCHANGED <<credentialVars, requestVars, host, scenario, roots, types, owner, reading, routes>>

\* create_from_source(), then the session store and the service above it.
BuildAuthentication ==
  /\ stage = "authenticate"
  /\ owner' = create_from_source(source)
  /\ \/ owner'.code = "loaded" /\ Enter("plan")
     \/ Exit(3)
  /\ UNCHANGED <<credentialVars, requestVars, host, scenario, roots, types, reading, routes, source>>

\* make_server_runtime_plan(): the routes.
PlanServer ==
  /\ stage = "plan"
  /\ LET table == RegisterAll([i \in DOMAIN settings.locations |-> settings.locations[i].api_path])
     IN  /\ routes' = table.routes
         /\ IF table.code = "ok" THEN Enter("start") ELSE Exit(3)
  /\ UNCHANGED <<credentialVars, requestVars, host, scenario, roots, types, owner, reading, source>>

\* RunningApplication::start(), or the address is taken.
StartServer ==
  /\ stage = "start"
  /\ Enter("running") \/ Exit(3)
  /\ UNCHANGED <<credentialVars, requestVars, host, scenario, roots, types, owner, reading, routes, source>>

Start ==
  \/ CommandLine \/ LoadConfiguration \/ ReadConfiguration \/ Reject \/ BuildLocation \/ LoadMimeTypes
  \/ OpenCredentials \/ ReadCredentials \/ BuildAuthentication \/ PlanServer \/ StartServer

\* The operator presses Enter: nothing more is accepted, and the servers are destroyed when
\* the request being handled has been answered.
PressEnter ==
  /\ stage = "running"
  /\ Enter("stopping")
  /\ UNCHANGED <<credentialVars, requestVars, host, scenario, roots, types, owner, reading, routes, source>>

DestroyServers ==
  /\ stage = "stopping" /\ rpc = "idle"
  /\ Exit(0)
  /\ UNCHANGED <<credentialVars, requestVars, host, scenario, roots, types, owner, reading, routes, source>>

-----------------------------------------------------------------------------
\* Requests: from the peer check to the handler

Secure   == settings.transport_mode = <<"trusted_proxy_https">>
Path     == request_path(request.target)
Location == settings.locations[route.location]
Root     == roots[route.location]
Captured == captured_suffix(route, Path)

Continue(place) == rpc' = place /\ UNCHANGED <<request, answer, sent>>

ReplyWith(reply) == rpc' = "idle" /\ answer' = reply /\ UNCHANGED <<request, route, descriptor, sent>>

Reply(status) == ReplyWith([NoAnswer EXCEPT !.status = status])

Outside == <<configVars, credentialVars, startVars>>

\* A peer the transport policy does not allow is closed without an answer.
Receive ==
  /\ stage = "running" /\ rpc = "idle" /\ sent < MaxRequests
  /\ \E r \in scenario.requests :
       /\ request' = r
       /\ rpc' = IF allows_peer(settings.transport_mode, settings.trusted_proxy, r.peer)
                 THEN "dispatch" ELSE "idle"
  /\ sent' = sent + 1
  /\ route' = NoRoute /\ where' = <<>> /\ descriptor' = {} /\ answer' = NoAnswer
  /\ UNCHANGED <<Outside, live, host>>

TransportError ==
  transport_error(settings.transport_mode, settings.trusted_proxy, request.peer,
                  request.schemes, request.clients)

\* ProtectedRoutePolicyPipeline::decorate(): the session policy is set (with no other) and
\* stands before the handler of every route that is not public.
decorate(endpoint) == IF endpoint \in Public THEN endpoint ELSE "session"

\* HttpRouter::dispatch(), behind the transport metadata.
Dispatch ==
  /\ rpc = "dispatch"
  /\ LET selected == select_route(routes, request.method, Path)
         allowed  == AllowedMethods(routes, Path)
         asterisk == request.method = "OPTIONS" /\ request.target = <<"*">> IN
     \/ /\ TransportError # "none"
        /\ Reply(IF TransportError = "insecure_forwarded_scheme" THEN 403 ELSE 400)
     \/ TransportError = "none" /\ asterisk /\ Reply(204)
     \/ /\ TransportError = "none" /\ ~asterisk /\ selected = NoRoute
        /\ ReplyWith([NoAnswer EXCEPT !.status = IF allowed = {} THEN 404 ELSE 405,
                                      !.allow = allowed])
     \/ /\ TransportError = "none" /\ ~asterisk /\ selected # NoRoute
        /\ route' = selected
        /\ Continue(decorate(selected.endpoint))
        /\ UNCHANGED descriptor
  /\ UNCHANGED <<Outside, where, live, host>>

\* login(): the checks in their order, then AuthenticationService (which may throttle or fail).
LogIn ==
  /\ rpc = "login"
  /\ \E said \in {parse_login(request.body)} :
     LET cookie == session_cookie_credential(request.cookies)
         right  == said.login = owner.login /\ said.password = PasswordOf[owner.verifier]
         malformed == \/ Len(request.body) \notin 1 .. MaxBodySymbols
                      \/ body_storage(request.method, request.target) # "memory"
                      \/ said = NoLogin \/ cookie = "malformed" IN
     \/ ~has_json_content_type(request.content_types) /\ Reply(415) /\ UNCHANGED live
     \/ /\ has_json_content_type(request.content_types)
        /\ malformed /\ Reply(400) /\ UNCHANGED live
     \/ /\ has_json_content_type(request.content_types) /\ ~malformed
        /\ \/ (\E status \in {429, 503} : Reply(status)) /\ UNCHANGED live
           \/ ~right /\ Reply(401) /\ UNCHANGED live
           \/ right /\ ReplyWith([NoAnswer EXCEPT !.status = 204, !.secure = Secure]) /\ live' = TRUE
  /\ UNCHANGED <<Outside, where, host>>

LogOut ==
  /\ rpc = "logout"
  /\ LET cookie == session_cookie_credential(request.cookies) IN
     \/ cookie \in {"none", "malformed"} /\ Reply(204) /\ UNCHANGED live
     \/ /\ cookie \notin {"none", "malformed"}
        /\ \/ Reply(503) /\ UNCHANGED live
           \/ /\ ReplyWith([NoAnswer EXCEPT !.status = 204, !.secure = Secure])
              /\ live' = (live /\ cookie # "s1")
  /\ UNCHANGED <<Outside, where, host>>

\* The session policy around every location route.
Authorize ==
  /\ rpc = "session"
  /\ LET cookie == session_cookie_credential(request.cookies) IN
     \/ (cookie # "s1" \/ ~live) /\ Reply(401)
     \/ cookie \notin {"none", "malformed"} /\ Reply(503)
     \/ cookie = "s1" /\ live /\ Continue("permission") /\ UNCHANGED <<route, descriptor>>
  /\ UNCHANGED <<Outside, where, live, host>>

-----------------------------------------------------------------------------
\* Requests: FilesystemService and the operations below it

allows(endpoint) ==
  CASE endpoint = "read"   -> Location.read
    [] endpoint = "remove" -> Location.delete
    [] OTHER -> Location.write

CheckPermission ==
  /\ rpc = "permission"
  /\ LET unexpectedBody == route.endpoint \in {"create_directory", "remove"} /\ request.body # <<>> IN
     \/ ~allows(route.endpoint) /\ Reply(403)
     \/ allows(route.endpoint) /\ unexpectedBody /\ Reply(400)
     \/ /\ allows(route.endpoint) /\ ~unexpectedBody
        /\ Continue("claim") /\ UNCHANGED <<route, descriptor>>
  /\ UNCHANGED <<Outside, where, live, host>>

\* public_error(): the statuses of failures that depend on what the system answers.
AccessRefusals   == {408, 423, 500, 503}
ListingFailures  == {403, 404, 413, 500}
FileFailures     == {403, 500}
UploadFailures   == {408, 500}
CreationFailures == {403, 404, 500}

\* hides_path_detail(): paths that lead out of the root look like missing ones.
RefusePath(code) == Reply(IF code \in {"outside_shared_root", "resolution_failed"} THEN 404 ELSE 400)

\* FilesystemResourceCoordinator::acquire(): the path is resolved, the lease may be refused.
Claim ==
  /\ rpc = "claim"
  /\ \E resolved \in {resolve(Root, Captured)} :
     \/ resolved.code # "ok" /\ RefusePath(resolved.code)
     \/ resolved.code = "ok" /\ \E status \in AccessRefusals : Reply(status)
     \/ resolved.code = "ok" /\ Continue("resolve") /\ UNCHANGED <<route, descriptor>>
  /\ UNCHANGED <<Outside, where, live, host>>

\* resolve_directory(): the path once more, and what is there now.
ResolveDirectory ==
  /\ rpc = "resolve" /\ route.endpoint = "read"
  /\ \E resolved \in {resolve(Root, Captured)} :
     /\ where' = resolved.path
     /\ \/ resolved.code # "ok" /\ RefusePath(resolved.code)
        \/ resolved.code = "ok" /\ resolved.path \notin DOMAIN host /\ Reply(404)
        \/ /\ resolved.code = "ok" /\ resolved.path \in DOMAIN host
           /\ Continue(IF Dir(resolved.path) THEN "open" ELSE "file")
           /\ UNCHANGED <<route, descriptor>>
  /\ UNCHANGED <<Outside, live, host>>

\* finalize_upload() and create_directory(): a destination, never the root itself.
ResolveDestination ==
  /\ rpc = "resolve" /\ route.endpoint \in {"upload", "create_directory"}
  /\ \E resolved \in {resolve(Root, Captured)} :
     /\ where' = resolved.path
     /\ \/ resolved.code # "ok" /\ RefusePath(resolved.code)
        \/ resolved.code = "ok" /\ resolved.path = Root /\ Reply(400)
        \/ /\ resolved.code = "ok" /\ resolved.path # Root
           /\ Continue("open") /\ UNCHANGED <<route, descriptor>>
  /\ UNCHANGED <<Outside, live, host>>

\* remove_filesystem_entry(): what is removed is the entry itself.
ResolveEntry ==
  /\ rpc = "resolve" /\ route.endpoint = "remove"
  /\ \E resolved \in {resolve(Root, Captured)}, entryPath \in {lexical_destination(Root, Captured)} :
     /\ where' = entryPath
     /\ \/ resolved.code # "ok" /\ RefusePath(resolved.code)
        \/ resolved.code = "ok" /\ entryPath \in {<<>>, Root} /\ Reply(400)
        \/ /\ resolved.code = "ok" /\ entryPath \notin {<<>>, Root}
           /\ Continue("open") /\ UNCHANGED <<route, descriptor>>
  /\ UNCHANGED <<Outside, live, host>>

\* The directory itself for a listing, the parent of the destination otherwise.
OpenDirectory ==
  /\ rpc = "open"
  /\ LET reading_it == route.endpoint = "read"
         opened == open_confined_directory(Root, IF reading_it THEN where ELSE Front(where)) IN
     \/ opened = {} /\ ~reading_it /\ Reply(404)
     \/ opened = {} /\ reading_it /\ \E status \in ListingFailures \ {413} : Reply(status)
     \/ opened # {} /\ descriptor' = opened /\ Continue(route.endpoint) /\ UNCHANGED route
  /\ UNCHANGED <<Outside, where, live, host>>

\* Where the opened directory is now.
OpenedAt == UNION {descriptor_path(node) : node \in descriptor}

\* collect_entries(): or the directory cannot be read, or has too many entries.
List ==
  /\ rpc = "read"
  /\ LET entries == UNION {ListedEntries(Root, Captured, where, node) : node \in descriptor} IN
     \/ ReplyWith([NoAnswer EXCEPT !.status = 200,
          !.shown = {canonical(Append(at, name)).path : at \in OpenedAt, name \in entries}])
     \/ \E status \in ListingFailures : Reply(status)
  /\ UNCHANGED <<Outside, where, live, host>>

\* FileReadStream::open(): the path a third time, then the file.
ResolveFile ==
  /\ rpc = "file"
  /\ \E resolved \in {resolve(Root, Captured)} :
     /\ where' = resolved.path
     /\ \/ resolved.code # "ok" /\ RefusePath(resolved.code)
        \/ resolved.code = "ok" /\ Continue("open_file") /\ UNCHANGED <<route, descriptor>>
  /\ UNCHANGED <<Outside, live, host>>

OpenFile ==
  /\ rpc = "open_file"
  /\ LET opened == OpenedFile(Root, where) IN
     \/ opened = {} /\ Reply(404)
     \/ \E status \in FileFailures : Reply(status)
     \/ /\ opened # {}
        /\ ReplyWith([NoAnswer EXCEPT !.status = 200,
             !.shown = UNION {descriptor_path(node) : node \in opened},
             !.type = content_type_for_path(types, decode_path_request(Captured).path)])
  /\ UNCHANGED <<Outside, where, live, host>>

\* publish_confined_upload() and create_confined_directory(), relative to the descriptor.
Publish ==
  /\ rpc \in {"upload", "create_directory"}
  /\ LET children == {Append(at, Last(where)) : at \in OpenedAt}
         entryType == IF rpc = "upload" THEN "file" ELSE "directory"
         failures == IF rpc = "upload" THEN UploadFailures ELSE CreationFailures IN
     \/ (\E status \in failures : Reply(status)) /\ UNCHANGED host
     \/ \E child \in children \cap DOMAIN host : Reply(409) /\ UNCHANGED host
     \/ \E child \in children \ DOMAIN host :
          /\ host' = host @@ (child :> [type |-> entryType, to |-> <<>>, node |-> 100 + sent])
          /\ ReplyWith([NoAnswer EXCEPT !.status = 201, !.shown = {child}])
  /\ UNCHANGED <<Outside, where, live>>

\* remove_in_landlock(): unlinkat() with removals allowed below the root only.
UnlinkStatus(child) ==
  CASE ~is_within_root(child, Root) -> 403
    [] is_within_root(child, Root) /\ child \notin DOMAIN host -> 404
    [] is_within_root(child, Root) /\ child \in DOMAIN host ->
         IF \E path \in DOMAIN host : Front(path) = child THEN 409 ELSE 200

RemoveEntry ==
  /\ rpc = "remove"
  /\ \/ Reply(500) /\ UNCHANGED host
     \/ \E at \in OpenedAt :
          LET child == Append(at, Last(where)) IN
          IF UnlinkStatus(child) = 200
          THEN /\ host' = [path \in DOMAIN host \ {child} |-> host[path]]
               /\ ReplyWith([NoAnswer EXCEPT !.status = 200, !.shown = {child}])
          ELSE Reply(UnlinkStatus(child)) /\ UNCHANGED host
  /\ UNCHANGED <<Outside, where, live>>

Serve ==
  \/ Dispatch \/ LogIn \/ LogOut \/ Authorize \/ CheckPermission \/ Claim
  \/ ResolveDirectory \/ ResolveDestination \/ ResolveEntry \/ OpenDirectory \/ List
  \/ ResolveFile \/ OpenFile \/ Publish \/ RemoveEntry

-----------------------------------------------------------------------------
\* What else happens

\* The credential tool touches nothing the server reads before it opens the credential file.
ProvisionOwner ==
  /\ stage \in {"command_line", "credentials", "read", "authenticate"}
  /\ \E t \in scenario.tools : ToolStep(t)
  /\ UNCHANGED <<configVars, startVars, requestVars, host>>

\* Power is lost before the server is started (again).
LosePower ==
  /\ stage = "command_line" /\ scenario.tools # {}
  /\ PowerLoss
  /\ UNCHANGED <<configVars, startVars, requestVars, host>>

\* The operator changes something below the shared directories, once.
Rearrange ==
  /\ stage \in {"running", "stopping"} /\ host = scenario.tree
  /\ host' \in scenario.later
  /\ UNCHANGED <<configVars, credentialVars, startVars, requestVars>>

\* Sessions run out; SessionAuthentication has the times.
Expire ==
  /\ rpc = "idle" /\ live
  /\ live' = FALSE
  /\ UNCHANGED <<Outside, request, rpc, route, where, descriptor, answer, sent, host>>

Terminated == stage = "exit" /\ UNCHANGED vars

Next ==
  \/ Start \/ PressEnter \/ DestroyServers \/ Receive \/ Serve
  \/ ProvisionOwner \/ LosePower \/ Rearrange \/ Expire \/ Terminated

\* A scenario: the arguments and the configuration file, the tools that may run and the one
\* that already has, the requests that may come, the tree of files, and what it may become.
Init ==
  /\ scenario \in Scenarios
  /\ ParserInit(scenario.text) /\ stage = "command_line" /\ ValidatorInit
  /\ host = scenario.tree
  /\ CredentialInit(scenario.provisioned)
  /\ exit_code = 0 /\ roots = <<>> /\ types = <<>> /\ reading = Nobody /\ routes = <<>>
  /\ owner = Rejected("none")
  /\ request = NoRequest /\ rpc = "idle" /\ route = NoRoute /\ where = <<>> /\ descriptor = {}
  /\ answer = NoAnswer /\ live = FALSE /\ sent = 0

Spec == Init /\ [][Next]_vars

-----------------------------------------------------------------------------
\* Properties

Loaded == owner.code = "loaded"

\* Whenever the server reads, and whatever tools are running, killed or cut off by a power
\* loss, it starts with one tool's login and verifier, both whole, or not at all; and a tool
\* that reported success has left its complete file at the path, on disk (O_EXCL, the order
\* of fsync, close and the directory's fsync, and the unlink on failure).
OwnerIsProvisioned ==
  /\ Loaded => \E t \in Tools : owner.login = Login[t] /\ owner.verifier = Verifier[t]
  /\ stage \in {"running", "stopping"} => Loaded
  /\ \A t \in Tools : result[t] = "success" =>
       /\ entry = t /\ entry_flushed
       /\ content[t] = credential_source(t) /\ flushed[t] = Len(content[t])

\* The segments of a request's path.
RequestSegments == Split(Path)

CoveringLocations == {i \in DOMAIN settings.locations : Covers(settings.locations[i], RequestSegments)}

\* The router's longest-prefix match finds the location the configuration gives a path to,
\* and no other; Allow names exactly the methods that would have been routed; the body of a
\* login, and of nothing else, is kept in memory; no file of an active type is served as one
\* whatever the MIME file says, and a cookie is Secure exactly behind the HTTPS proxy.
RoutedAsConfigured ==
  /\ route.location # 0 => CoveringLocations = {route.location}
  /\ rpc = "idle" /\ route = NoRoute /\ answer.status = 404 => CoveringLocations = {}
  /\ answer.status = 405 =>
       answer.allow = {method \in Methods : select_route(routes, method, Path) # NoRoute}
  /\ route # NoRoute =>
       (route.endpoint = "login" <=> body_storage(request.method, request.target) = "memory")
  /\ answer.type \notin ActiveTypes
  /\ answer.secure => settings.transport_mode = <<"trusted_proxy_https">>
                        /\ request.schemes = <<"https">>

Credentials == [login |-> owner.login, password |-> PasswordOf[owner.verifier]]

\* A session begins only when a login body that says the owner's login and password arrives
\* at the login endpoint from an allowed peer, logging out ends it, and a location is reached
\* only with its cookie, given once in one field: no spelling of a JSON body, a cookie field
\* or a forwarded header opens another way.
OwnerOnly ==
  [][/\ ~live /\ live' => /\ request.body \in DOMAIN BodyMeaning
                         /\ BodyMeaning[request.body] = Credentials
                         /\ request.peer \in DOMAIN PeerClass
     /\ route.endpoint = "logout" /\ request.cookies = <<<<<<"session", "s1">>>>>> /\ answer'.status = 204
          => ~live'
     /\ rpc # "session" /\ rpc # "idle" /\ route.location # 0 =>
          live /\ request.cookies \in {<<<<<<"session", "s1">>>>>>,
                                       <<<<<<"theme", "x">>, <<"session", "s1">>>>>>}]_vars

\* The path a target was written to lead to.
Meant == Root \o TargetMeaning[request.target]

\* What a request may change: one new entry where it points, or one entry removed, and only
\* with the location's permission.
ChangeConfined ==
  \E path \in answer'.shown :
    /\ is_within_root(path, Root) /\ path # Root
    /\ \/ /\ request.method \in {"PUT", "POST"} /\ Location.write
          /\ path \notin DOMAIN host /\ DOMAIN host' = DOMAIN host \cup {path}
       \/ /\ request.method = "DELETE" /\ Location.delete
          /\ DOMAIN host' = DOMAIN host \ {path} /\ ~\E below \in DOMAIN host' : Front(below) = path
    /\ \A other \in DOMAIN host \cap DOMAIN host' : host'[other] = host[other]

\* Everything a request shows, creates or removes lies below the root of its location, is no
\* upload stage and never the credential file, however the path is encoded and even when the
\* operator replaces directories by links between two resolutions of it; and as long as
\* nobody rearranges the tree it is the file the target was written to lead to.
Confined ==
  [][/\ answer'.shown # answer.shown =>
          \A path \in answer'.shown :
            is_within_root(path, Root) /\ ~HasStage(path) /\ path # CredentialPath
     /\ rpc = "open_file" /\ answer'.status = 200 /\ scenario.later = {} =>
          /\ request.target \in DOMAIN TargetMeaning
          /\ answer'.shown = {canonical(Meant).path}
     /\ rpc # "idle" /\ rpc' = "idle" /\ host' # host => ChangeConfined]_vars
=============================================================================
