---------------------------- MODULE ConfigValidator ----------------------------
(***************************************************************************)
(* Validation of a parsed configuration and the settings it releases        *)
(* (src/configuration/config_validator.cpp, include/.../settings.hpp).      *)
(* Errors are collected; one action is one directive, the relationships, or *)
(* one location.                                                            *)
(***************************************************************************)
EXTENDS ConfigParser

CONSTANTS
  Address,           \* parse_numeric_address(): numeric addresses (strings) and their class
  PathText,          \* symbols a location path may contain besides the slash
  MaxPort, MaxWorkers, MaxTimeout

ASSUME ConfigAssumptions ==
  /\ {MaxPort, MaxWorkers, MaxTimeout} \subseteq 1 .. MaxInteger
  /\ \A address \in DOMAIN Address : Address[address] \in {"loopback", "unspecified", "other"}

VARIABLES
  errors,            \* errors_
  settings,          \* server_
  index              \* the directive or location being validated

validatorVars == <<errors, settings, index>>

LogLevels == {<<"debug">>, <<"info">>, <<"warning">>, <<"error">>}
Modes     == {<<"loopback_http">>, <<"trusted_lan_http">>, <<"trusted_proxy_https">>}
Timeouts  == {"header_timeout_ms", "body_timeout_ms", "request_timeout_ms", "response_timeout_ms"}

Absent == "absent"

DefaultSettings ==
  [bind |-> <<"127.0.0.1">>, port |-> 1, multithreading |-> FALSE, worker_threads |-> 1,
   log_level |-> <<"info">>, header_timeout_ms |-> 1, body_timeout_ms |-> 1,
   request_timeout_ms |-> 1, response_timeout_ms |-> 1,
   transport_mode |-> <<"loopback_http">>, trusted_proxy |-> Absent,
   mime_types_file |-> Absent, credentials_file |-> Absent, locations |-> <<>>]

Class(address) == IF address \in DOMAIN Address THEN Address[address] ELSE "none"

Report(code, at) == <<[code |-> code, at |-> at]>>

-----------------------------------------------------------------------------
\* Server directives

\* The value rule of one directive: the error it gives, if any.
DirectiveErrors(d) ==
  CASE d.kind = "bind" /\ Class(d.value) = "none"
         -> Report("invalid_bind_address", d.value_at)
    [] d.kind = "trusted_proxy" /\ Class(d.value) = "none"
         -> Report("invalid_trusted_proxy", d.value_at)
    [] d.kind = "port" /\ d.value \notin 1 .. MaxPort -> Report("port_out_of_range", d.value_at)
    [] d.kind \in Timeouts /\ d.value \notin 1 .. MaxTimeout
         -> Report("timeout_out_of_range", d.value_at)
    [] d.kind = "log_level" /\ d.value \notin LogLevels -> Report("invalid_log_level", d.value_at)
    [] d.kind = "transport_mode" /\ d.value \notin Modes
         -> Report("invalid_transport_mode", d.value_at)
    [] d.kind \in {"mime_types_file", "credentials_file"} /\ d.value = <<>>
         -> Report("empty_file_name", d.value_at)
    [] OTHER -> <<>>

\* A level or a mode that is none leaves the setting alone; the rest is assigned as it is.
Assign(d) ==
  IF \/ d.kind = "log_level" /\ d.value \notin LogLevels
     \/ d.kind = "transport_mode" /\ d.value \notin Modes
  THEN settings ELSE [settings EXCEPT ![d.kind] = d.value]

\* The directives a kind was given by; only the first one counts.
Of(kind) == SelectSeq(parsed.directives, LAMBDA d : d.kind = kind)
Given(kind) == Of(kind) # <<>>
First(kind) == Head(Of(kind))

RepeatedDirective(i) ==
  \E j \in 1 .. i - 1 : parsed.directives[j].kind = parsed.directives[i].kind

ValidateDirective ==
  /\ stage = "validate" /\ index <= Len(parsed.directives)
  /\ LET d == parsed.directives[index] IN
     IF RepeatedDirective(index)
     THEN errors' = errors \o Report("duplicate_server_directive", d.at) /\ UNCHANGED settings
     ELSE errors' = errors \o DirectiveErrors(d) /\ settings' = Assign(d)
  /\ index' = index + 1
  /\ UNCHANGED parserVars

\* validate_threading_relationship()
ThreadingErrors ==
  CASE settings.multithreading /\ ~Given("worker_threads")
         -> Report("missing_worker_threads", parsed.close)
    [] settings.multithreading /\ Given("worker_threads")
         /\ settings.worker_threads \notin 2 .. MaxWorkers
         -> Report("worker_threads_out_of_range", First("worker_threads").value_at)
    [] ~settings.multithreading /\ Given("worker_threads")
         -> Report("unexpected_worker_threads", First("worker_threads").at)
    [] OTHER -> <<>>

\* validate_transport_relationship(): skipped when the mode itself is not one.
BindErrors(unsafe) ==
  IF Given("bind") /\ unsafe THEN Report("unsafe_transport_bind", First("bind").value_at) ELSE <<>>

ProxyErrors ==
  IF Given("trusted_proxy") THEN Report("unexpected_trusted_proxy", First("trusted_proxy").at)
  ELSE <<>>

TransportErrors ==
  CASE Given("transport_mode") /\ First("transport_mode").value \notin Modes -> <<>>
    [] settings.transport_mode = <<"loopback_http">> ->
         BindErrors(Class(settings.bind) # "loopback") \o ProxyErrors
    [] settings.transport_mode = <<"trusted_lan_http">> -> ProxyErrors
    [] OTHER ->
         (IF Given("trusted_proxy") THEN <<>> ELSE Report("missing_trusted_proxy", parsed.close))
         \o BindErrors(Class(settings.bind) = "unspecified")

ValidateRelationships ==
  /\ stage = "validate" /\ index = Len(parsed.directives) + 1
  /\ errors' = errors \o ThreadingErrors \o TransportErrors
                 \o (IF parsed.locations = <<>> THEN Report("missing_location", parsed.close)
                     ELSE <<>>)
  /\ stage' = "locations" /\ index' = 1
  /\ UNCHANGED <<text, offset, current, parsed, block, directive, failure, settings>>

-----------------------------------------------------------------------------
\* Locations

\* The segments of a path that begins with a slash.
SegmentsOf(path) ==
  {SubSeq(path, i + 1, Find(path, i + 1, {"/"}) - 1) : i \in {i \in DOMAIN path : path[i] = "/"}}

is_valid_location_path(path) ==
  /\ path # <<>> /\ path[1] = "/"
  /\ \A i \in DOMAIN path : path[i] \in PathText \cup {"/"}
  /\ path = <<"/">> \/ SegmentsOf(path) \cap {<<>>, <<".">>, <<".", ".">>} = {}

\* Mutant: only equal paths conflict.
EnclosesEqual(parent, child) == parent = child

\* Whether the routes of one path cover the other, on a segment boundary.
Encloses(parent, child) ==
  \/ parent = child
  \/ parent = <<"/">>
  \/ IsStrictPrefix(parent, child) /\ child[Len(parent) + 1] = "/"

location_paths_conflict(left, right) == Encloses(left, right) \/ Encloses(right, left)

\* The paths of earlier locations: those neither invalid nor in conflict themselves.
PathsBefore(i) ==
  LET keep(paths, location) ==
        IF \/ ~is_valid_location_path(location.api_path)
           \/ \E path \in paths : location_paths_conflict(path, location.api_path)
        THEN paths ELSE paths \cup {location.api_path}
  IN  FoldLeft(keep, {}, SubSeq(parsed.locations, 1, i - 1))

IdentityErrors(i) ==
  LET location == parsed.locations[i] IN
  CASE ~is_valid_location_path(location.api_path)
         -> Report("invalid_location_path", location.path_at)
    [] is_valid_location_path(location.api_path)
         /\ \E path \in PathsBefore(i) : location_paths_conflict(path, location.api_path)
         -> Report("conflicting_location_path", location.path_at)
    [] OTHER -> <<>>

\* The first directive of a kind in a location, and the errors of the later ones.
Chosen(location, kind) == SelectSeq(location.directives, LAMBDA d : d.kind = kind)

RepeatedErrors(location) ==
  LET all == location.directives
      repeated == {i \in DOMAIN all : \E j \in 1 .. i - 1 : all[j].kind = all[i].kind}
      order == Ascending(repeated, Len(all))
  IN  [n \in DOMAIN order |-> [code |-> "duplicate_location_directive", at |-> all[order[n]].at]]

RootErrors(location) ==
  LET path == Chosen(location, "path") IN
  CASE path = <<>> -> Report("missing_location_root", location.close)
    [] path # <<>> /\ Head(path).value = <<>>
         -> Report("invalid_location_root", Head(path).value_at)
    [] OTHER -> <<>>

Permission(location, kind, default) ==
  IF Chosen(location, kind) = <<>> THEN default ELSE Head(Chosen(location, kind)).value

\* A location without a root gives no settings; one whose path is wrong does, and its
\* error keeps the settings from being released.
Released(location) ==
  [api_path |-> location.api_path, root |-> Head(Chosen(location, "path")).value,
   read |-> Permission(location, "read", TRUE),
   write |-> Permission(location, "write", FALSE),
   delete |-> Permission(location, "delete", FALSE)]

ValidateLocation ==
  /\ stage = "locations" /\ index <= Len(parsed.locations)
  /\ LET location == parsed.locations[index] IN
     /\ errors' = errors \o IdentityErrors(index) \o RepeatedErrors(location)
                    \o RootErrors(location)
     /\ settings' = IF RootErrors(location) # <<>> THEN settings
                    ELSE [settings EXCEPT !.locations = Append(@, Released(location))]
  /\ index' = index + 1
  /\ UNCHANGED parserVars

\* Errors in source order; those of one place in the order they were found.
Sorted(found) ==
  LET at(place) == SelectSeq(found, LAMBDA error : error.at = place)
      places == Ascending({error.at : error \in Range(found)}, Len(text))
  IN  FlattenSeq([n \in DOMAIN places |-> at(places[n])])

\* The settings are released when nothing was found.
FinishValidation ==
  /\ stage = "locations" /\ index = Len(parsed.locations) + 1
  /\ errors' = Sorted(errors)
  /\ stage' = IF errors = <<>> THEN "bootstrap" ELSE "rejected"
  /\ UNCHANGED <<text, offset, current, parsed, block, directive, failure, settings, index>>

Validate == ValidateDirective \/ ValidateRelationships \/ ValidateLocation \/ FinishValidation

ValidatorInit == errors = <<>> /\ settings = DefaultSettings /\ index = 1
=============================================================================
