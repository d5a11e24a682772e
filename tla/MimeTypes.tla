------------------------------- MODULE MimeTypes -------------------------------
(***************************************************************************)
(* The MIME types file and the type a download is given                     *)
(* (src/bootstrap/mime_types_loader.cpp, src/http/mime_type_registry.cpp).  *)
(* A file is a sequence of lines, a line a sequence of tokens, one of which *)
(* may be "#".                                                              *)
(***************************************************************************)
EXTENDS Integers, Sequences, FiniteSets, SequencesExt

CONSTANTS
  Extension,      \* normalize_extension(): the spellings that are valid and what they become
  MediaType,      \* is_valid_media_type(): the spellings that are valid, in lower case
  ActiveExtensions, ActiveTypes,
  MaxMimeEntries  \* maximum_entries

SafeText == "text/plain"
Binary   == "application/octet-stream"

\* split_tokens(): what stands before a comment.
split_tokens(line) ==
  LET marks == {i \in DOMAIN line : line[i] = "#"}
  IN  IF marks = {} THEN line
      ELSE SubSeq(line, 1, (CHOOSE i \in marks : \A j \in marks : i <= j) - 1)

\* append_line_mappings(): a line maps each of its extensions to its type.
LineMappings(line) ==
  LET tokens == split_tokens(line)
  IN  [n \in 1 .. Len(tokens) - 1 |-> [extension |-> tokens[n + 1], type |-> tokens[1]]]

NoMimeTypes == [code |-> "mime_types_load_failed", types |-> <<>>]

\* MimeTypeRegistry::create(): every mapping valid, every extension once in any spelling.
Registry(mappings) ==
  LET valid(m) == m.extension \in DOMAIN Extension /\ m.type \in DOMAIN MediaType
      extensions == {Extension[mappings[n].extension] : n \in DOMAIN mappings}
      typeOf(e) == MediaType[mappings[CHOOSE n \in DOMAIN mappings :
                                        Extension[mappings[n].extension] = e].type] IN
  IF \/ Len(mappings) > MaxMimeEntries
     \/ \E n \in DOMAIN mappings : ~valid(mappings[n])
     \/ \E n, m \in DOMAIN mappings :
          n # m /\ Extension[mappings[n].extension] = Extension[mappings[m].extension]
  THEN NoMimeTypes
  ELSE [code |-> "ok", types |-> [e \in extensions |-> typeOf(e)]]

\* MimeTypesLoader::parse(): a line with a type and no extension is an error.
load_mime_types(lines) ==
  IF \E n \in DOMAIN lines : Len(split_tokens(lines[n])) = 1 THEN NoMimeTypes
  ELSE Registry(FlattenSeq([n \in DOMAIN lines |-> LineMappings(lines[n])]))

\* content_type_for_path(): by the extension of the path as it was requested; whatever the
\* file maps, active extensions and active types become plain text.
content_type_for_path(types, path) ==
  LET dots == {i \in DOMAIN path : path[i] = "."}
      dot  == CHOOSE i \in dots : \A j \in dots : j <= i
      word == IF Len(path) = dot + 1 THEN path[dot + 1] ELSE "/"
      extension == IF word \in DOMAIN Extension THEN Extension[word] ELSE "none" IN
  CASE dots = {} -> Binary
    [] dots # {} /\ extension \in ActiveExtensions -> SafeText
    [] dots # {} /\ extension \notin ActiveExtensions /\ extension \in DOMAIN types ->
         IF types[extension] \in ActiveTypes THEN SafeText ELSE types[extension]
    [] OTHER -> Binary
=============================================================================
