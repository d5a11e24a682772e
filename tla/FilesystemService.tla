--------------------------- MODULE FilesystemService ---------------------------
(***************************************************************************)
(* The filesystem service (src/application/filesystem_service) of one       *)
(* location and the native operations below it: directory listings and file *)
(* streams, uploads that are staged next to their destination, directory    *)
(* creation and removal.  Every operation first acquires a lease of the     *)
(* FilesystemResourceCoordinator, resolves its path again and then works on *)
(* the tree; this module composes the two.                                  *)
(*                                                                         *)
(* The tree is what the kernel keeps (external): every native call is one   *)
(* step, and any of them may fail for reasons of its own.                   *)
(***************************************************************************)
EXTENDS Integers, Sequences, FiniteSets

CONSTANTS
  Operations, Root, Components, MaximumActiveClaims, MaxIdentifier, Interruptions,
  Invalid,
  None,
  Paths,         \* root-relative paths; <<>> is the root
  InitialTree,   \* what is at each path when the service starts
  LinkTarget,    \* where a symbolic link at a path points to
  Permissions    \* the location's permissions: "read", "write", "delete"

ASSUME ServiceAssumptions ==
  /\ <<>> \in Paths /\ InitialTree[<<>>] = "directory"
  /\ \A p \in Paths : p # <<>> => SubSeq(p, 1, Len(p) - 1) \in Paths
  /\ None \notin Paths \cup {Invalid}
  /\ InitialTree \in [Paths -> {"absent", "directory", "file", "link"}]
  /\ \A p \in Paths : InitialTree[p] = "link" => p \in DOMAIN LinkTarget
  /\ \A q \in DOMAIN LinkTarget : q \in Paths /\ LinkTarget[q] \in Paths
  /\ MaximumActiveClaims \in Nat /\ MaxIdentifier \in Nat
  /\ Paths \subseteq Seq(Components) /\ Invalid \notin Paths
  /\ Interruptions \subseteq {"cancelled", "deadline_exceeded"}

VARIABLES
  active, active_claim_count, next_identifier,            \* the coordinator
  pc, requests, claims, interrupted, lease,
  tree,      \* path -> "absent", "directory", "file" or "link"
  spc, job,  \* place and request of each operation in the service
  where,     \* the path its native work is at, once resolved
  stage,     \* the directory in which its staging file is
  source     \* the operation whose stream is being assigned to its own

coordinatorVars == <<active, active_claim_count, next_identifier, pc, requests, claims,
                     interrupted, lease>>
serviceVars     == <<spc, job, where, stage, source>>
vars == <<coordinatorVars, tree, serviceVars>>

-----------------------------------------------------------------------------
\* Paths

Parent(p) == SubSeq(p, 1, Len(p) - 1)

Below(p, q) == Len(p) <= Len(q) /\ SubSeq(q, 1, Len(p)) = p

\* SafePath::resolve: an existing link on the way is replaced by its target; a path
\* through a file, or through a link to nothing, is rejected.  The last component,
\* and anything after a missing one, need not exist.
ResolvePath(p) ==
  LET links == {q \in DOMAIN LinkTarget : Below(q, p) /\ tree[q] = "link"}
      real  == IF links = {} THEN p
               ELSE LET q == CHOOSE q \in links : \A r \in links : Len(q) <= Len(r)
                    IN  LinkTarget[q] \o SubSeq(p, Len(q) + 1, Len(p))
  IN  IF /\ real \in Paths
         /\ \A n \in 0 .. Len(real) - 1 : tree[SubSeq(real, 1, n)] \in {"directory", "absent"}
         /\ \A q \in links : tree[LinkTarget[q]] # "absent"
      THEN real ELSE Invalid

C == INSTANCE FilesystemResourceCoordinator WITH
       Roots <- {Root}, Spellings <- Paths, MaxRequests <- 1,
       resolve <- [p \in Paths |-> ResolvePath(p)]

\* The path a removal works on: the entry itself, even if it is a link, in a parent
\* that is opened without following its last component.
RemovalPath(p) ==
  LET parent == ResolvePath(Parent(p)) IN
  IF p = <<>> \/ tree[Parent(p)] = "link" \/ parent = Invalid
  THEN Invalid ELSE parent \o <<p[Len(p)]>>

IsDirectory(p) == p \in Paths /\ tree[p] = "directory"

\* What a native call that creates an entry at r finds.
Creatable(r) == r # Invalid /\ r # <<>> /\ IsDirectory(Parent(r)) /\ tree[r] = "absent"

Children(p) == {q \in Paths : q # p /\ Below(p, q) /\ tree[q] # "absent"}

-----------------------------------------------------------------------------
\* Permission, and the lease

\* Mutant: a removal is taken for a reader.
ModeOfLenient(op) ==
  IF op \in {"read", "remove"} THEN "shared_read" ELSE "exclusive_mutation"

ModeOf(op) == IF op = "read" THEN "shared_read" ELSE "exclusive_mutation"

PermissionOf(op) ==
  CASE op = "read" -> "read" [] op = "remove" -> "delete" [] OTHER -> "write"

\* What an operation is before its first and after its last step.
NoJob == [op |-> "none", path |-> <<>>]

\* An operation for which the location has no permission returns at once.
Begin(o, op, p) ==
  /\ spc[o] = "idle" /\ PermissionOf(op) \in Permissions
  /\ UNCHANGED tree
  /\ C!AcquireCall(o, <<[root |-> Root, path |-> p, mode |-> ModeOf(op)]>>)
  /\ spc' = [spc EXCEPT ![o] = "acquire"]
  /\ job' = [job EXCEPT ![o] = [op |-> op, path |-> p]]
  /\ UNCHANGED <<where, stage, source>>

\* The coordinator's steps; the operation goes on with a lease or returns without.
Coordinate(o) ==
  /\ spc[o] = "acquire"
  /\ UNCHANGED tree
  /\ \/ C!Precheck(o) \/ C!Prepare(o) \/ C!Refuse(o) \/ C!Grant(o)
     \/ \E status \in Interruptions : C!Interrupt(o, status)
  /\ spc' = [spc EXCEPT ![o] = CASE pc'[o] = "held" -> "native"
                                 [] pc'[o] = "idle" -> "idle"
                                 [] OTHER -> "acquire"]
  /\ job' = IF pc'[o] = "idle" THEN [job EXCEPT ![o] = NoJob] ELSE job
  /\ UNCHANGED <<where, stage, source>>

\* The native work of operation o is over; its lease is released when it returns.
Done(o) ==
  /\ spc' = [spc EXCEPT ![o] = "release"]
  /\ where' = [where EXCEPT ![o] = None]
  /\ job' = [job EXCEPT ![o] = NoJob]

\* Any native call may fail, and so may everything an upload prepares before it.
NativeFails(o) ==
  /\ spc[o] = "native"
  /\ Done(o)
  /\ UNCHANGED <<coordinatorVars, tree, stage, source>>

-----------------------------------------------------------------------------
\* read()

\* A directory is listed entry by entry, a file opened; the path is resolved again.
ReadBegin(o) ==
  /\ spc[o] = "native" /\ job[o].op = "read"
  /\ LET r == ResolvePath(job[o].path) IN
     /\ r # Invalid /\ tree[r] \in {"directory", "file"}
     /\ where' = [where EXCEPT ![o] = r]
     /\ spc' = [spc EXCEPT ![o] = IF tree[r] = "directory" THEN "listing" ELSE "streaming"]
  /\ UNCHANGED <<coordinatorVars, tree, job, stage, source>>

\* The listing is complete, or the stream is closed: before the lease is released.
ReadEnd(o) ==
  /\ spc[o] \in {"listing", "streaming"}
  /\ Done(o)
  /\ UNCHANGED <<coordinatorVars, tree, stage, source>>

\* Mutant: the claims are exchanged first.
AssignLeaseFirst(o, other) ==
  /\ o # other /\ spc[o] = "streaming" /\ spc[other] = "streaming"
  /\ UNCHANGED tree
  /\ C!MoveAssign(o, other)
  /\ spc' = [spc EXCEPT ![o] = "streaming", ![other] = "release"]
  /\ job' = [job EXCEPT ![other] = NoJob]
  /\ UNCHANGED <<where, stage, source>>

\* FilesystemFileRead::operator=, first half: o's descriptor is closed and other's
\* taken over while both leases are still held.
AssignStream(o, other) ==
  /\ o # other /\ spc[o] = "streaming" /\ spc[other] = "streaming"
  /\ where' = [where EXCEPT ![o] = where[other], ![other] = None]
  /\ spc' = [spc EXCEPT ![o] = "assigning", ![other] = "assigned"]
  /\ source' = [source EXCEPT ![o] = other]
  /\ UNCHANGED <<coordinatorVars, tree, job, stage>>

\* Second half: o's old lease is released and other's taken over.
AssignLease(o, other) ==
  /\ spc[o] = "assigning" /\ source[o] = other
  /\ UNCHANGED tree
  /\ C!MoveAssign(o, other)
  /\ spc' = [spc EXCEPT ![o] = "streaming", ![other] = "release"]
  /\ source' = [source EXCEPT ![o] = None]
  /\ job' = [job EXCEPT ![other] = NoJob]
  /\ UNCHANGED <<where, stage>>

-----------------------------------------------------------------------------
\* create_directory() and remove()

CreateDirectory(o) ==
  /\ spc[o] = "native" /\ job[o].op = "mkdir"
  /\ LET r == ResolvePath(job[o].path) IN
     Creatable(r) /\ tree' = [tree EXCEPT ![r] = "directory"]
  /\ Done(o)
  /\ UNCHANGED <<coordinatorVars, stage, source>>

\* unlinkat, and rmdir for a directory that is empty, staging files included.
Removable(e) ==
  /\ e \in Paths
  /\ \/ tree[e] \in {"file", "link"}
     \/ /\ tree[e] = "directory" /\ Children(e) = {}
        /\ \A q \in Operations : stage[q] # e

Remove(o) ==
  /\ spc[o] = "native" /\ job[o].op = "remove"
  /\ ResolvePath(job[o].path) # Invalid
  /\ LET e == RemovalPath(job[o].path) IN
     Removable(e) /\ tree' = [tree EXCEPT ![e] = "absent"]
  /\ Done(o)
  /\ UNCHANGED <<coordinatorVars, stage, source>>

-----------------------------------------------------------------------------
\* upload(): finalize_upload() and publish_confined_upload()

\* The confined parent is opened and a private sibling is created in it.
StageUpload(o) ==
  /\ spc[o] = "native" /\ job[o].op = "upload"
  /\ LET r == ResolvePath(job[o].path) IN
     /\ r # Invalid /\ r # <<>> /\ IsDirectory(Parent(r))
     /\ where' = [where EXCEPT ![o] = r]
     /\ stage' = [stage EXCEPT ![o] = Parent(r)]
  /\ spc' = [spc EXCEPT ![o] = "staged"]
  /\ UNCHANGED <<coordinatorVars, tree, job, source>>

\* linkat: the flushed stage gets the destination's name, unless that exists.
PublishUpload(o) ==
  /\ spc[o] = "staged" /\ tree[where[o]] = "absent"
  /\ tree' = [tree EXCEPT ![where[o]] = "file"]
  /\ spc' = [spc EXCEPT ![o] = "cleanup"]
  /\ UNCHANGED <<coordinatorVars, job, where, stage, source>>

\* Mutant: an interrupted copy returns past the cleanup.
UploadFailsUncleaned(o) ==
  /\ spc[o] = "staged"
  /\ Done(o)
  /\ UNCHANGED <<coordinatorVars, tree, stage, source>>

\* Copying, flushing or publishing fails, or the upload is interrupted between them.
UploadFails(o) ==
  /\ spc[o] = "staged"
  /\ spc' = [spc EXCEPT ![o] = "cleanup"]
  /\ UNCHANGED <<coordinatorVars, tree, job, where, stage, source>>

\* ~StageCleanup unlinks the sibling name, after success and failure alike.
CleanupStage(o) ==
  /\ spc[o] = "cleanup"
  /\ stage' = [stage EXCEPT ![o] = None]
  /\ Done(o)
  /\ UNCHANGED <<coordinatorVars, tree, source>>

\* The operation returns, and ~FilesystemResourceLease releases its claim.
Release(o) ==
  /\ spc[o] = "release"
  /\ UNCHANGED tree
  /\ C!Destroy(o)
  /\ spc' = [spc EXCEPT ![o] = "idle"]
  /\ UNCHANGED <<job, where, stage, source>>

-----------------------------------------------------------------------------
Init ==
  /\ active = {} /\ active_claim_count = 0 /\ next_identifier = 1
  /\ pc = [o \in Operations |-> "idle"]
  /\ requests = [o \in Operations |-> <<>>] /\ claims = [o \in Operations |-> <<>>]
  /\ interrupted = [o \in Operations |-> "none"]
  /\ lease = [o \in Operations |-> 0]
  /\ tree = InitialTree
  /\ spc = [o \in Operations |-> "idle"]
  /\ job = [o \in Operations |-> NoJob]
  /\ where = [o \in Operations |-> None] /\ stage = [o \in Operations |-> None]
  /\ source = [o \in Operations |-> None]

Ops == {"read", "upload", "mkdir", "remove"}

Next == \E o \in Operations :
  \/ \E op \in Ops, p \in Paths : Begin(o, op, p)
  \/ Coordinate(o) \/ NativeFails(o)
  \/ ReadBegin(o) \/ ReadEnd(o)
  \/ \E other \in Operations : AssignStream(o, other) \/ AssignLease(o, other)
  \/ CreateDirectory(o) \/ Remove(o)
  \/ StageUpload(o) \/ PublishUpload(o) \/ UploadFails(o) \/ CleanupStage(o)
  \/ Release(o)

Spec == Init /\ [][Next]_vars

-----------------------------------------------------------------------------
\* Properties

\* No link has been removed.  remove() claims what a link points to and unlinks the
\* link itself, so that the claims of others no longer say what their paths mean.
LinksInPlace == \A q \in DOMAIN LinkTarget : tree[q] = "link"

\* While a directory is being listed or a file is being sent, no operation of the
\* service changes anything at or below it, under whatever name either was asked for:
\* the reader's claim keeps mutations away as long as the links stay.
ReadersUndisturbed ==
  [][\A o \in Operations : spc[o] \in {"listing", "streaming"} /\ LinksInPlace /\ LinksInPlace' =>
       \A p \in Paths : Below(where[o], p) => tree'[p] = tree[p]]_vars

\* The operations at work on the tree that a claim of their own must protect.
AtWork == {o \in Operations : spc[o] \in {"listing", "streaming", "assigning", "staged"}}

\* Work on overlapping parts of the tree, by one name or by two, is work of readers
\* only, and an open stream has a registered claim even while it changes hands.
WorkIsolated ==
  LinksInPlace =>
    /\ \A o, q \in AtWork : o # q /\ Below(where[o], where[q]) => "staged" \notin {spc[o], spc[q]}
    /\ \A o \in AtWork : \E a \in active : \E i \in DOMAIN a.claims :
         Below(a.claims[i].components, where[o])

\* No staging file is left behind by an operation that is over, however it ended.
NoStageLeft ==
  \A o \in Operations : stage[o] # None => spc[o] \in {"staged", "cleanup"}
=============================================================================
