---------------------------- MODULE CredentialFile ----------------------------
(***************************************************************************)
(* The owner's credential file: the tool that creates it                    *)
(* (apps/sparenode-credentials, src/authentication/credential_file_         *)
(* provisioner.cpp) and the provider that reads it when the server starts   *)
(* (src/authentication/file_credential_provider.cpp).  Several runs of the  *)
(* tool may write to one path, each may be killed, the machine may lose     *)
(* power, and the server may read at any time.                              *)
(***************************************************************************)
EXTENDS ConfigLexer

CONSTANTS
  Tools,             \* runs of sparenode-credentials
  Login,             \* the login each is given, as symbols
  Verifier,          \* the verifier each obtains from libsodium, as symbols
  MaxLoginBytes,     \* maximum_owner_login_bytes
  MaxFileBytes,      \* maximum_credential_file_bytes
  Nobody

ASSUME CredentialAssumptions ==
  /\ Nobody \notin Tools
  /\ MaxLoginBytes \in Nat \ {0} /\ MaxFileBytes \in Nat \ {0}

VARIABLES
  tpc,          \* where each tool is
  result,       \* what it reported: "none", "success" or an error
  entry,        \* whose file is at the path, or Nobody
  content,      \* the contents of the file each tool created
  flushed,      \* how much of it is on disk for certain
  entry_flushed,\* whether the directory entry is
  source        \* what the provider has read

credentialVars == <<tpc, result, entry, content, flushed, entry_flushed>>

Controls == {"lf", "cr", "tab", "nul"}

\* Bytes from 0x80 on are not control bytes, whatever they spell.
is_valid_owner_login(login) ==
  login # <<>> /\ Len(login) <= MaxLoginBytes /\ Range(login) \cap Controls = {}

escape_login(login) ==
  FlattenSeq([n \in DOMAIN login |-> IF login[n] \in {"\\", "\""} THEN <<"\\", login[n]>>
                                     ELSE <<login[n]>>])

credential_source(t) ==
  <<"owner", " ", "{", "lf", "login", " ", "\"">> \o escape_login(Login[t])
    \o <<"\"", ";", "lf", "password_verifier", " ", "\"">> \o Verifier[t]
    \o <<"\"", ";", "lf", "}", "lf">>

-----------------------------------------------------------------------------
\* The tool

Goto(t, place) == tpc' = [tpc EXCEPT ![t] = place]

Finish(t, outcome) == Goto(t, "done") /\ result' = [result EXCEPT ![t] = outcome]

\* Arguments, the console, the two passwords and libsodium: any of them may end the run
\* before a file is touched.
Prepare(t) ==
  /\ tpc[t] = "begin"
  /\ \/ ~is_valid_owner_login(Login[t]) /\ Finish(t, "invalid_login")
     \/ Finish(t, "failed")
     \/ is_valid_owner_login(Login[t]) /\ Goto(t, "create") /\ UNCHANGED result
  /\ UNCHANGED <<entry, content, flushed, entry_flushed>>

\* Mutant: without O_EXCL.
CreateOver(t) ==
  /\ tpc[t] = "create"
  /\ entry' = t /\ entry_flushed' = FALSE /\ Goto(t, "write")
  /\ UNCHANGED <<result, content, flushed>>

\* open(O_CREAT | O_EXCL | O_NOFOLLOW)
Create(t) ==
  /\ tpc[t] = "create"
  /\ IF entry = Nobody
     THEN entry' = t /\ entry_flushed' = FALSE /\ Goto(t, "write") /\ UNCHANGED result
     ELSE Finish(t, "output_exists") /\ UNCHANGED <<entry, entry_flushed>>
  /\ UNCHANGED <<content, flushed>>

CreateFails(t) ==
  /\ tpc[t] = "create"
  /\ Finish(t, "open_failed")
  /\ UNCHANGED <<entry, content, flushed, entry_flushed>>

\* One write(): any part of what is left.  An interrupted call is repeated.
Write(t) ==
  /\ tpc[t] = "write"
  /\ \E end \in Len(content[t]) + 1 .. Len(credential_source(t)) :
       /\ content' = [content EXCEPT ![t] = SubSeq(credential_source(t), 1, end)]
       /\ Goto(t, IF end = Len(credential_source(t)) THEN "flush" ELSE "write")
  /\ UNCHANGED <<result, entry, flushed, entry_flushed>>

Flush(t) ==
  /\ tpc[t] = "flush"
  /\ flushed' = [flushed EXCEPT ![t] = Len(content[t])]
  /\ Goto(t, "close")
  /\ UNCHANGED <<result, entry, content, entry_flushed>>

CloseFile(t) ==
  /\ tpc[t] = "close"
  /\ Goto(t, "sync_parent")
  /\ UNCHANGED <<result, entry, content, flushed, entry_flushed>>

sync_parent_directory(t) ==
  /\ tpc[t] = "sync_parent"
  /\ entry_flushed' = TRUE
  /\ Finish(t, "success")
  /\ UNCHANGED <<entry, content, flushed>>

\* write, fsync, close or the directory fails: the path is unlinked, whatever is there.
PersistFails(t) ==
  /\ tpc[t] \in {"write", "flush", "close", "sync_parent"}
  /\ Goto(t, "unlink")
  /\ UNCHANGED <<result, entry, content, flushed, entry_flushed>>

Unlink(t) ==
  /\ tpc[t] = "unlink"
  /\ entry' = Nobody /\ entry_flushed' = FALSE
  /\ Finish(t, "write_failed")
  /\ UNCHANGED <<content, flushed>>

\* The process is killed; nothing is cleaned up.
Kill(t) ==
  /\ tpc[t] \notin {"done", "killed"}
  /\ Goto(t, "killed")
  /\ UNCHANGED <<result, entry, content, flushed, entry_flushed>>

\* Power is lost: every run ends, and the end of the file at the path, as far as it was not
\* flushed, and the entry itself may be lost.
PowerLoss ==
  /\ tpc' = [t \in Tools |-> IF tpc[t] = "done" THEN "done" ELSE "killed"]
  /\ \/ entry = Nobody /\ UNCHANGED content
     \/ /\ entry # Nobody
        /\ \E length \in flushed[entry] .. Len(content[entry]) :
             content' = [content EXCEPT ![entry] = SubSeq(@, 1, length)]
  /\ \/ UNCHANGED entry
     \/ ~entry_flushed /\ entry' = Nobody
  /\ UNCHANGED <<result, flushed, entry_flushed>>

ToolStep(t) ==
  \/ Prepare(t) \/ Create(t) \/ CreateFails(t) \/ Write(t) \/ Flush(t) \/ CloseFile(t)
  \/ sync_parent_directory(t) \/ PersistFails(t) \/ Unlink(t) \/ Kill(t)

-----------------------------------------------------------------------------
\* The provider

\* All tokens of a source, up to the end or the first error.
AllTokens(input) ==
  LET more(tokens, i) ==
        IF tokens # <<>> /\ Last(tokens).kind \in {"end", "error"} THEN tokens
        ELSE Append(tokens, next(input, IF tokens = <<>> THEN FirstOffset(input)
                                        ELSE Last(tokens).end))
  IN  FoldLeft(more, <<>>, [i \in 1 .. Len(input) + 1 |-> i])

\* CredentialSourceParser: owner { name "value"; ... }, each name once, nothing else.
CredentialNames == {"login", "password_verifier"}

IsOwnerBlock(tokens) ==
  LET directives == (Len(tokens) - 4) \div 3
      name(d) == tokens[3 * d] IN
  /\ Len(tokens) >= 4 /\ Len(tokens) = 4 + 3 * directives
  /\ tokens[1].lexeme = <<"owner">> /\ tokens[2].kind = "{"
  /\ \A d \in 1 .. directives :
       /\ name(d).kind = "identifier" /\ name(d).lexeme \in {<<n>> : n \in CredentialNames}
       /\ tokens[3 * d + 1].kind = "string" /\ tokens[3 * d + 2].kind = ";"
  /\ \A d, e \in 1 .. directives : name(d).lexeme = name(e).lexeme => d = e
  /\ tokens[Len(tokens) - 1].kind = "}" /\ tokens[Len(tokens)].kind = "end"

\* The values given under a name: none or one.
ValuesOf(tokens, wanted) ==
  {tokens[i + 1].decoded : i \in {i \in 1 .. Len(tokens) - 1 :
     tokens[i].kind = "identifier" /\ tokens[i].lexeme = <<wanted>>}}

\* PasswordVerifier::is_usable(): a complete verifier of the supported profile.
is_usable(verifier) == \E t \in Tools : verifier = Verifier[t]

Rejected(code) == [code |-> code, login |-> <<>>, verifier |-> <<>>]

OwnerOf(logins, verifiers) ==
  CASE logins = {} -> Rejected("missing_login")
    [] logins # {} /\ verifiers = {} -> Rejected("missing_verifier")
    [] OTHER ->
       LET login    == CHOOSE l \in logins : TRUE
           verifier == CHOOSE v \in verifiers : TRUE IN
       IF ~is_valid_owner_login(login) THEN Rejected("invalid_login")
       ELSE IF ~is_usable(verifier) THEN Rejected("invalid_verifier")
       ELSE [code |-> "loaded", login |-> login, verifier |-> verifier]

ParsedOwner(tokens) ==
  IF ~IsOwnerBlock(tokens) THEN Rejected("malformed_file")
  ELSE OwnerOf(ValuesOf(tokens, "login"), ValuesOf(tokens, "password_verifier"))

create_from_source(input) ==
  IF Len(input) > MaxFileBytes THEN Rejected("file_too_large")
  ELSE IF TooLarge(input) THEN Rejected("malformed_file")
  ELSE ParsedOwner(AllTokens(input))

\* Before any tool has run, or after one has.
CredentialInit(provisioned) ==
  LET done == {provisioned} \ {Nobody}
      written == [t \in Tools |-> IF t \in done THEN credential_source(t) ELSE <<>>] IN
  /\ tpc = [t \in Tools |-> IF t \in done THEN "done" ELSE "begin"]
  /\ result = [t \in Tools |-> IF t \in done THEN "success" ELSE "none"]
  /\ entry = provisioned
  /\ content = written
  /\ flushed = [t \in Tools |-> Len(written[t])]
  /\ entry_flushed = (done # {})
  /\ source = <<>>
=============================================================================
