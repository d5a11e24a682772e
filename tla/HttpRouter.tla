------------------------------ MODULE HttpRouter ------------------------------
(***************************************************************************)
(* The router (src/http/routing/http_router.cpp), the routes the server     *)
(* registers (src/http/api/filesystem_api.cpp, src/authentication/api), and *)
(* the transport policy in front of it (http_transport_policy.cpp).  A      *)
(* target is a sequence of symbols, as in SafePath.                          *)
(***************************************************************************)
EXTENDS Integers, Sequences, FiniteSets, SequencesExt

CONSTANTS
  LoginPath, LogoutPath,   \* login_path, logout_path
  MaxRoutes,               \* maximum_route_count
  PeerClass                \* numeric peer addresses and their class; other peers are absent

Methods == {"GET", "HEAD", "POST", "PUT", "DELETE", "OPTIONS"}

\* A route: its prefix, whether it captures what follows, and the handler behind it.
Route(method, prefix, wildcard, endpoint, location) ==
  [method |-> method, prefix |-> prefix, wildcard |-> wildcard, endpoint |-> endpoint,
   location |-> location]

NoRoute == Route("none", <<>>, FALSE, "none", 0)

request_path(target) ==
  LET marks == {i \in DOMAIN target : target[i] = "?"}
  IN  IF marks = {} THEN target
      ELSE SubSeq(target, 1, (CHOOSE i \in marks : \A j \in marks : i <= j) - 1)

path_matches(route, path) ==
  IF route.wildcard THEN IsPrefix(route.prefix, path) ELSE path = route.prefix

captured_suffix(route, path) ==
  IF route.wildcard THEN SubSeq(path, Len(route.prefix) + 1, Len(path)) ELSE <<>>

is_more_specific(candidate, selected) ==
  IF candidate.wildcard # selected.wildcard THEN ~candidate.wildcard
  ELSE Len(candidate.prefix) > Len(selected.prefix)

\* register_route(): the routes with one more, or why it is refused.  Patterns come from
\* validated location paths, so they are valid patterns.
register_route(table, route) ==
  CASE table.code # "ok" -> table
    [] table.code = "ok" /\ (\E i \in DOMAIN table.routes :
           LET old == table.routes[i] IN
           old.method = route.method /\ old.wildcard = route.wildcard /\ old.prefix = route.prefix)
         -> [table EXCEPT !.code = "duplicate_route"]
    [] OTHER -> IF Len(table.routes) >= MaxRoutes THEN [table EXCEPT !.code = "too_many_routes"]
                ELSE [table EXCEPT !.routes = Append(@, route)]

\* Mutant: the wildcard begins at the path itself, not behind its slash.
LocationRoutesUnbounded(api_path, location) ==
  LET pair(method, endpoint) == <<Route(method, api_path, FALSE, endpoint, location),
                                  Route(method, api_path, TRUE, endpoint, location)>>
  IN  pair("GET", "read") \o pair("PUT", "upload") \o pair("POST", "create_directory")
        \o pair("DELETE", "remove")

\* register_location_routes(): the path itself, and everything below it.
LocationRoutes(api_path, location) ==
  LET below == IF api_path = <<"/">> THEN api_path ELSE Append(api_path, "/")
      pair(method, endpoint) == <<Route(method, api_path, FALSE, endpoint, location),
                                  Route(method, below, TRUE, endpoint, location)>>
  IN  pair("GET", "read") \o pair("PUT", "upload") \o pair("POST", "create_directory")
        \o pair("DELETE", "remove")

\* The public routes come first; every location route is decorated with the session policy.
PublicRoutes == <<Route("POST", LoginPath, FALSE, "login", 0),
                  Route("POST", LogoutPath, FALSE, "logout", 0)>>

Public == {"login", "logout"}

RegisterAll(api_paths) ==
  FoldLeft(register_route, [code |-> "ok", routes |-> <<>>],
           PublicRoutes \o FlattenSeq([i \in DOMAIN api_paths |-> LocationRoutes(api_paths[i], i)]))

select_route(routes, method, path) ==
  LET better(selected, route) ==
        IF ~(route.method = method \/ (method = "HEAD" /\ route.method = "GET"))
           \/ ~path_matches(route, path) THEN selected
        ELSE LET head_tie == /\ route.method = "HEAD" /\ selected.method = "GET"
                             /\ route.wildcard = selected.wildcard
                             /\ Len(route.prefix) = Len(selected.prefix) IN
             IF selected = NoRoute \/ head_tie \/ is_more_specific(route, selected)
             THEN route ELSE selected
  IN  FoldLeft(better, NoRoute, routes)

\* The methods of the Allow field of a 405 response.
AllowedMethods(routes, path) ==
  LET found == {routes[i].method : i \in {i \in DOMAIN routes : path_matches(routes[i], path)}}
  IN  found \cup (IF "GET" \in found THEN {"HEAD"} ELSE {})

\* authentication_body_storage_policy(): where the body of a request is kept.
body_storage(method, target) ==
  IF method = "POST" /\ request_path(target) = LoginPath THEN "memory" ELSE "file"

-----------------------------------------------------------------------------
\* Transport

\* http_transport_allows_peer()
allows_peer(mode, proxy, peer) ==
  CASE mode = <<"loopback_http">> -> peer \in DOMAIN PeerClass /\ PeerClass[peer] = "loopback"
    [] mode = <<"trusted_lan_http">> -> peer \in DOMAIN PeerClass
    [] OTHER -> peer \in DOMAIN PeerClass /\ PeerClass[peer] # "scoped" /\ proxy = <<peer>>

\* resolve_http_transport(): schemes and clients are the values of the forwarded fields.
transport_error(mode, proxy, peer, schemes, clients) ==
  CASE ~allows_peer(mode, proxy, peer) -> "peer_not_permitted"
    [] allows_peer(mode, proxy, peer) /\ mode # <<"trusted_proxy_https">> -> "none"
    [] OTHER ->
       IF schemes = <<>> THEN "missing_forwarded_scheme"
       ELSE IF Len(schemes) # 1 THEN "duplicate_forwarded_scheme"
       ELSE IF schemes[1] # "https" THEN "insecure_forwarded_scheme"
       ELSE IF clients = <<>> THEN "missing_forwarded_client"
       ELSE IF Len(clients) # 1 THEN "duplicate_forwarded_client"
       ELSE IF clients[1] \notin DOMAIN PeerClass \/ PeerClass[clients[1]] = "scoped"
       THEN "invalid_forwarded_client" ELSE "none"
=============================================================================
