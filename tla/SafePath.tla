------------------------------- MODULE SafePath -------------------------------
(***************************************************************************)
(* Request paths and the files they lead to: percent-decoding               *)
(* (src/filesystem/detail/path_request_decoder.cpp), SafePath and           *)
(* SharedRoot, and the descriptors the native operations check once more    *)
(* (linux_directory_entry_reader.cpp, linux_file_read_stream.cpp).          *)
(*                                                                         *)
(* A request path is a sequence of symbols: a character, a word, or one     *)
(* percent escape.  A name is a sequence of symbols, an absolute path a     *)
(* sequence of names.  The kernel's tree (external) says for every path     *)
(* what is there and which file it is; a link holds the path it leads to.   *)
(***************************************************************************)
EXTENDS Integers, Sequences, FiniteSets, FiniteSetsExt, SequencesExt

CONSTANTS
  MaxPathSymbols,   \* maximum_requested_path_bytes
  StagePrefix       \* the symbol an upload stage's name begins with

VARIABLE host       \* the tree: path -> [type, to, node]

\* What an escape stands for; an escape of no hexadecimal digits stands for nothing.
PercentEscape ==
  [e \in {"%2e", "%2f", "%5c", "%25", "%61", "%00", "%ff"} |->
     CASE e = "%2e" -> "." [] e = "%2f" -> "/" [] e = "%5c" -> "\\" [] e = "%25" -> "%"
       [] e = "%61" -> "a" [] e = "%00" -> "nul" [] OTHER -> "bad"]

\* Symbols that begin with two hexadecimal digits: after a percent sign they read as an escape.
HexPairs == {"2e", "2f"}

Rejection(code) == [code |-> code, path |-> <<>>]
Resolved(path)  == [code |-> "ok", path |-> path]

-----------------------------------------------------------------------------
\* The kernel's part

Dir(path)  == path = <<>> \/ (path \in DOMAIN host /\ host[path].type = "directory")
IsLink(path) == path \in DOMAIN host /\ host[path].type = "link"

\* std::filesystem::canonical(): every link followed, everything there.
canonical(path) ==
  LET step(at, name) ==
        LET child == Append(at.path, name) IN
        IF at.code # "ok" \/ ~Dir(at.path) \/ child \notin DOMAIN host
           \/ (IsLink(child) /\ (host[child].to \notin DOMAIN host \/ IsLink(host[child].to)))
        THEN Rejection("resolution_failed")
        ELSE Resolved(IF IsLink(child) THEN host[child].to ELSE child)
  IN  FoldLeft(step, Resolved(<<>>), path)

\* open(O_NOFOLLOW): the file at a path whose last component is no link, or nothing.
Opened(path) ==
  {host[real].node : real \in
     {real \in DOMAIN host : /\ path # <<>> /\ Last(real) = Last(path) /\ ~IsLink(real)
                             /\ Resolved(Front(real)) = canonical(Front(path))}}

\* Where an open file is now.
descriptor_path(node) == {path \in DOMAIN host : host[path].node = node}

-----------------------------------------------------------------------------
\* decode_path_request() and the lexical part of SafePath::resolve()

contains_percent_escape(decoded) ==
  \E i \in 1 .. Len(decoded) - 1 : decoded[i] = "%" /\ decoded[i + 1] \in HexPairs

\* The decoded path, its backslashes turned into slashes.
decode_path_request(requested) ==
  LET once == [i \in DOMAIN requested |->
                 IF requested[i] \in DOMAIN PercentEscape THEN PercentEscape[requested[i]]
                 ELSE requested[i]] IN
  IF "%zz" \in Range(requested) \/ contains_percent_escape(once)
  THEN Rejection("invalid_percent_encoding")
  ELSE Resolved([i \in DOMAIN once |-> IF once[i] = "\\" THEN "/" ELSE once[i]])

\* The names between the slashes; empty ones do not count.
Names(decoded) ==
  LET ends == {i \in 1 .. Len(decoded) + 1 : i > Len(decoded) \/ decoded[i] = "/"}
      order == SelectSeq([i \in 1 .. Len(decoded) + 1 |-> i], LAMBDA i : i \in ends)
      name(n) == SubSeq(decoded, IF n = 1 THEN 1 ELSE order[n - 1] + 1, order[n] - 1)
  IN  SelectSeq([n \in DOMAIN order |-> name(n)], LAMBDA part : part # <<>>)

UpName == <<".", ".">>

\* lexically_normal(); absolute paths do not go above the root of the tree.
Normal(names, absolute) ==
  LET step(done, name) ==
        CASE name = <<".">> -> done
          [] name = UpName /\ done # <<>> /\ Last(done) # UpName -> Front(done)
          [] name = UpName /\ done = <<>> /\ absolute -> done
          [] OTHER -> Append(done, name)
  IN  FoldLeft(step, <<>>, names)

is_upload_stage_component(name) == name # <<>> /\ name[1] = StagePrefix

HasStage(path) == \E i \in DOMAIN path : is_upload_stage_component(path[i])

is_within_root(path, root) == IsPrefix(root, path)

\* Slash-rooted and drive-qualified requests.
has_portable_root(decoded) == decoded # <<>> /\ decoded[1] \in {"/", "c:"}

-----------------------------------------------------------------------------
\* SafePath::resolve()

\* The root still is the directory it was.
recheck_root(root) ==
  LET check(real) ==
        CASE real.code # "ok" -> real
          [] real.code = "ok" /\ real.path # root -> Rejection("outside_shared_root")
          [] OTHER -> IF Dir(root) THEN real ELSE Rejection("resolution_failed")
  IN  check(canonical(root))

\* Each existing component is followed and has to stay below the root; after a missing one
\* nothing is looked at.  A link to nothing is no missing component.
Inside(root, real) ==
  IF real.code = "ok" /\ ~is_within_root(real.path, root) THEN Rejection("outside_shared_root")
  ELSE real

resolve_existing_prefixes(root, relative) ==
  LET step(at, name) ==
        LET child == Append(at.path, name) IN
        CASE at.code = "missing" -> [at EXCEPT !.path = child]
          [] at.code = "ok" /\ ~Dir(at.path) -> Rejection("resolution_failed")
          [] at.code = "ok" /\ Dir(at.path) ->
               IF child \in DOMAIN host THEN Inside(root, canonical(child))
               ELSE [code |-> "missing", path |-> child]
          [] OTHER -> at
      found(last) == IF last.code = "missing" THEN Resolved(last.path) ELSE last
  IN  found(FoldLeft(step, recheck_root(root), relative))

\* A path inside the root leads to no upload stage, however it was reached.
WithoutStage(root, found) ==
  IF found.code = "ok" /\ HasStage(SubSeq(found.path, Len(root) + 1, Len(found.path)))
  THEN Rejection("invalid_component") ELSE found

\* The lexical checks in the order of the code, the first that fails decides.
ConfineNames(root, relative, candidate) ==
  CASE HasStage(relative) -> Rejection("invalid_component")
    [] ~HasStage(relative) /\ ~is_within_root(candidate, root) -> Rejection("outside_shared_root")
    [] OTHER -> WithoutStage(root, resolve_existing_prefixes(root,
                  SubSeq(candidate, Len(root) + 1, Len(candidate))))

ConfineRelative(root, relative) == ConfineNames(root, relative, Normal(root \o relative, TRUE))

ConfineDecoded(root, decoded) ==
  CASE decoded.code # "ok" -> decoded
    [] decoded.code = "ok" /\ "bad" \in Range(decoded.path) -> Rejection("invalid_encoding")
    [] decoded.code = "ok" /\ "bad" \notin Range(decoded.path) ->
         IF "nul" \in Range(decoded.path) THEN Rejection("embedded_null")
         ELSE IF has_portable_root(decoded.path) THEN Rejection("rooted_path")
         ELSE ConfineRelative(root, Normal(Names(decoded.path), FALSE))

resolve(root, requested) ==
  IF Len(requested) > MaxPathSymbols THEN Rejection("path_too_long")
  ELSE ConfineDecoded(root, decode_path_request(requested))

\* lexical_destination(): the entry itself, links not followed; nothing after a last slash.
lexical_destination(root, requested) ==
  LET decoded == decode_path_request(requested).path IN
  IF decoded # <<>> /\ Last(decoded) = "/" THEN <<>>
  ELSE Normal(root \o Normal(Names(decoded), FALSE), TRUE)

\* SharedRoot::create()
SharedRoot(path) ==
  LET check(real) == IF real.code = "ok" /\ Dir(real.path) THEN real
                     ELSE Rejection("invalid_location_root")
  IN  check(canonical(path))

-----------------------------------------------------------------------------
\* Descriptors

\* open_confined_directory(): the root opened where it was, the directory inside it.
open_confined_directory(root, path) ==
  {node \in Opened(path) :
     /\ Dir(path)
     /\ \E at \in descriptor_path(node) : is_within_root(at, root)
     /\ \E top \in Opened(root) : root \in descriptor_path(top)}

\* Mutant: the path was checked when it was resolved, the file is not checked again.
OpenedFileUnchecked(root, path) ==
  {node \in Opened(path) :
     \E at \in descriptor_path(node) : host[at].type = "file"}

\* The file a stream is opened for: regular, and inside the root after it was opened.
OpenedFile(root, path) ==
  {node \in Opened(path) :
     \E at \in descriptor_path(node) : is_within_root(at, root) /\ host[at].type = "file"}

\* encode_path_component(): everything but letters, digits and -._~ is escaped.
encode_path_component(name) ==
  [i \in DOMAIN name |->
     IF \E e \in DOMAIN PercentEscape : PercentEscape[e] = name[i] /\ name[i] \notin {".", "a"}
     THEN CHOOSE e \in DOMAIN PercentEscape : PercentEscape[e] = name[i]
     ELSE name[i]]

child_request(requested, name) ==
  requested \o (IF requested = <<>> \/ Last(requested) \in {"/", "\\"} THEN <<>> ELSE <<"/">>)
    \o encode_path_component(name)

\* What a listing shows: names the iterator finds at the path that can be requested again and
\* whose entry in the directory that was opened leads to something inside the root.
ListedEntries(root, requested, path, directory) ==
  {name \in {Last(child) : child \in {c \in DOMAIN host : Resolved(Front(c)) = canonical(path)}} :
     /\ resolve(root, child_request(requested, name)).code = "ok"
     /\ \E at \in descriptor_path(directory) :
          LET real == canonical(Append(at, name)) IN
          real.code = "ok" /\ is_within_root(real.path, root)}
=============================================================================
