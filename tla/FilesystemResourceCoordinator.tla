-------------------- MODULE FilesystemResourceCoordinator --------------------
(***************************************************************************)
(* The registry of filesystem claims                                        *)
(* (src/application/filesystem_resource_coordinator).  An operation claims  *)
(* one or more resources, to read or to mutate; a claim that overlaps an    *)
(* active one is refused at once unless both read.  A lease releases the    *)
(* claims of one call when it is destroyed or assigned to.                  *)
(*                                                                         *)
(* The mutex is taken twice per call: for an early look at the capacity and *)
(* for the decision.  In between the paths are resolved, without the lock.  *)
(***************************************************************************)
EXTENDS Integers, Sequences, FiniteSets

CONSTANTS
  Operations,           \* the threads that acquire; each has one lease object
  Roots,                \* configured shared roots
  Spellings,            \* request paths as clients write them
  Components,           \* directory and file names
  Paths,                \* root-relative paths, as sequences of components
  MaximumActiveClaims,  \* maximum_active_claims
  MaxRequests,          \* bound: requests of one call
  MaxIdentifier,        \* bound: claim sets registered in one behaviour
  Interruptions,        \* the interruption statuses that can occur
  Invalid               \* a request path SafePath rejects

ASSUME CoordinatorAssumptions ==
  /\ MaximumActiveClaims \in Nat /\ MaxRequests \in Nat /\ MaxIdentifier \in Nat
  /\ Paths \subseteq Seq(Components) /\ Invalid \notin Paths
  /\ Interruptions \subseteq {"cancelled", "deadline_exceeded"}

VARIABLES
  active,              \* the registered claim sets
  active_claim_count,
  next_identifier,
  resolve,             \* what SafePath::resolve makes of a spelling, now
  pc, requests, claims, interrupted,   \* one call per operation
  lease                \* identifier_ of each lease object, 0 when empty

registryVars == <<active, active_claim_count, next_identifier>>
callVars     == <<pc, requests, claims, interrupted>>
vars == <<registryVars, resolve, callVars, lease>>

Modes   == {"shared_read", "exclusive_mutation"}
Request == [root : Roots, path : Spellings, mode : Modes]
Claim   == [root : Roots, components : Paths, mode : Modes]

-----------------------------------------------------------------------------
\* Compatibility of claims

is_prefix(prefix, path) ==
  /\ Len(prefix) <= Len(path)
  /\ \A i \in 1 .. Len(prefix) : prefix[i] = path[i]

\* Mutant: only an ancestor that is already claimed is noticed.
overlapsBelow(left, right) ==
  left.root = right.root /\ is_prefix(left.components, right.components)

overlaps(left, right) ==
  /\ left.root = right.root
  /\ is_prefix(left.components, right.components) \/ is_prefix(right.components, left.components)

conflicts(left, right) ==
  /\ overlaps(left, right)
  /\ left.mode = "exclusive_mutation" \/ right.mode = "exclusive_mutation"

conflicts_with_active(requested) ==
  \E a \in active : \E i \in DOMAIN a.claims, j \in DOMAIN requested :
    conflicts(a.claims[i], requested[j])

-----------------------------------------------------------------------------
\* acquire_all().  acquire() is the same with one request.

\* The call is over.  Which error it returns is not kept: nothing depends on it.
Return(o, place) ==
  /\ pc' = [pc EXCEPT ![o] = place]
  /\ requests' = [requests EXCEPT ![o] = <<>>]
  /\ claims' = [claims EXCEPT ![o] = <<>>]
  /\ interrupted' = [interrupted EXCEPT ![o] = "none"]

HasRoom(n) == n <= MaximumActiveClaims - active_claim_count

\* The call begins.  A token that is requested already is an Interrupt that comes next.
AcquireCall(o, reqs) ==
  /\ pc[o] = "idle" /\ lease[o] = 0
  /\ pc' = [pc EXCEPT ![o] = "precheck"]
  /\ requests' = [requests EXCEPT ![o] = reqs]
  /\ UNCHANGED <<registryVars, resolve, claims, interrupted, lease>>

\* The interruption, invalid_path and capacity_exceeded of the early returns.
ReturnsEarly(o) ==
  \/ interrupted[o] # "none"
  \/ requests[o] = <<>>
  \/ Len(requests[o]) > MaximumActiveClaims
  \/ ~HasRoom(Len(requests[o]))

\* The early returns; the last look is taken under the lock, which is then released.
Precheck(o) ==
  /\ pc[o] = "precheck"
  /\ \/ ReturnsEarly(o) /\ Return(o, "idle")
     \/ /\ ~ReturnsEarly(o)
        /\ pc' = [pc EXCEPT ![o] = "prepare"]
        /\ UNCHANGED <<requests, claims, interrupted>>
  /\ UNCHANGED <<registryVars, resolve, lease>>

\* make_claim() of every request, at this moment's resolution.  The order the sort
\* establishes is not kept: nothing depends on it.
make_claims(reqs) ==
  [i \in 1 .. Len(reqs) |-> [root |-> reqs[i].root,
                             components |-> resolve[reqs[i].path],
                             mode |-> reqs[i].mode]]

\* Paths are resolved without the lock.  A path that is invalid, an interruption, a
\* resolution or an allocation that fails end the call.
Prepare(o) ==
  /\ pc[o] = "prepare"
  /\ \/ /\ \A i \in 1 .. Len(requests[o]) : resolve[requests[o][i].path] # Invalid
        /\ interrupted[o] = "none"
        /\ claims' = [claims EXCEPT ![o] = make_claims(requests[o])]
        /\ pc' = [pc EXCEPT ![o] = "decide"]
        /\ UNCHANGED <<requests, interrupted>>
     \/ Return(o, "idle")
  /\ UNCHANGED <<registryVars, resolve, lease>>

RoomUnderLock(o) == HasRoom(Len(claims[o]))

\* Mutant: an interruption that arrived on the way to the lock is not noticed.
InterruptedUnderLockForgotten(o) == FALSE

InterruptedUnderLock(o) == interrupted[o] # "none"

\* The decision, under the lock: the interruption, capacity_exceeded or conflict.
Refuse(o) ==
  /\ pc[o] = "decide"
  /\ InterruptedUnderLock(o) \/ ~RoomUnderLock(o) \/ conflicts_with_active(claims[o])
  /\ Return(o, "idle")
  /\ UNCHANGED <<registryVars, resolve, lease>>

Register(o) ==
  /\ active' = active \cup {[identifier |-> next_identifier, claims |-> claims[o]]}
  /\ active_claim_count' = active_claim_count + Len(claims[o])
  /\ lease' = [lease EXCEPT ![o] = next_identifier]

\* An identifier is used up even if the registry cannot grow.
Grant(o) ==
  /\ pc[o] = "decide" /\ next_identifier <= MaxIdentifier
  /\ ~InterruptedUnderLock(o) /\ RoomUnderLock(o) /\ ~conflicts_with_active(claims[o])
  /\ next_identifier' = next_identifier + 1
  /\ \/ Register(o) /\ Return(o, "held")
     \/ /\ Return(o, "idle")
        /\ UNCHANGED <<active, active_claim_count, lease>>
  /\ UNCHANGED resolve

\* The stop token is requested or the deadline passes during the call.
Interrupt(o, status) ==
  /\ pc[o] \in {"precheck", "prepare", "decide"} /\ interrupted[o] = "none"
  /\ interrupted' = [interrupted EXCEPT ![o] = status]
  /\ UNCHANGED <<registryVars, resolve, pc, requests, claims, lease>>

-----------------------------------------------------------------------------
\* FilesystemResourceLease

\* The registry without the claim set of identifier id, and its counter.
Released(id) == {a \in active : a.identifier = id}

release(id) ==
  /\ active' = active \ Released(id)
  /\ active_claim_count' =
       IF Released(id) = {} THEN active_claim_count
       ELSE active_claim_count - Len((CHOOSE a \in active : a.identifier = id).claims)

Destroy(o) ==
  /\ pc[o] = "held"
  /\ release(lease[o])
  /\ lease' = [lease EXCEPT ![o] = 0]
  /\ pc' = [pc EXCEPT ![o] = "idle"]
  /\ UNCHANGED <<next_identifier, resolve, requests, claims, interrupted>>

\* Mutant: the source keeps its identifier.
MoveAssignCopies(o, other) ==
  /\ o # other /\ pc[o] = "held" /\ pc[other] = "held"
  /\ release(lease[o])
  /\ lease' = [lease EXCEPT ![o] = lease[other]]
  /\ UNCHANGED <<next_identifier, resolve, callVars>>

\* operator=(&&) of two leases of one caller; a lease assigned to itself stays.
MoveAssign(o, other) ==
  /\ o # other /\ pc[o] = "held" /\ pc[other] = "held"
  /\ release(lease[o])
  /\ lease' = [lease EXCEPT ![o] = lease[other], ![other] = 0]
  /\ UNCHANGED <<next_identifier, resolve, callVars>>

-----------------------------------------------------------------------------
\* Whatever the filesystem does to the meaning of a path between two looks at it.
ResolutionChanges ==
  /\ resolve' \in [Spellings -> Paths \cup {Invalid}]
  /\ UNCHANGED <<registryVars, callVars, lease>>

Init ==
  /\ active = {} /\ active_claim_count = 0 /\ next_identifier = 1
  /\ resolve \in [Spellings -> Paths \cup {Invalid}]
  /\ pc = [o \in Operations |-> "idle"]
  /\ requests = [o \in Operations |-> <<>>] /\ claims = [o \in Operations |-> <<>>]
  /\ interrupted = [o \in Operations |-> "none"]
  /\ lease = [o \in Operations |-> 0]

Statuses == Interruptions \cup {"none"}

CallRequests == UNION {[1 .. n -> Request] : n \in 0 .. MaxRequests}

CallNext(o) ==
  \/ \E reqs \in CallRequests : AcquireCall(o, reqs)
  \/ Precheck(o) \/ Prepare(o) \/ Refuse(o) \/ Grant(o)
  \/ \E status \in Interruptions : Interrupt(o, status)
  \/ Destroy(o)
  \/ \E other \in Operations : MoveAssign(o, other)

Next == (\E o \in Operations : CallNext(o)) \/ ResolutionChanges

Spec == Init /\ [][Next]_vars

-----------------------------------------------------------------------------
\* Properties

RegistryTypes ==
  /\ active \subseteq [identifier : Nat \ {0}, claims : Seq(Claim)]
  /\ active_claim_count \in 0 .. MaximumActiveClaims
  /\ next_identifier \in Nat \ {0}

CallTypes ==
  /\ pc \in [Operations -> {"idle", "precheck", "prepare", "decide", "held"}]
  /\ requests \in [Operations -> Seq(Request)]
  /\ claims \in [Operations -> Seq(Claim)]
  /\ interrupted \in [Operations -> Statuses]
  /\ lease \in [Operations -> Nat]

\* The members keep their types; active_claim_count neither passes the maximum nor
\* wraps, so that the unsigned maximum_active_claims - active_claim_count is right.
TypeOK ==
  /\ RegistryTypes /\ CallTypes
  /\ resolve \in [Spellings -> Paths \cup {Invalid}]

\* One element for every claim that is registered.
ClaimSlots == UNION {{<<a.identifier, i>> : i \in 1 .. Len(a.claims)} : a \in active}

\* The counter that bounds the registry is the number of claims in it, whatever calls
\* of different sizes were granted and released in between.
ActiveCountExact == active_claim_count = Cardinality(ClaimSlots)

\* Every registered claim set belongs to exactly one lease and every lease that is not
\* empty has one: no claim is leaked, released twice or released by another lease.
LeasesMatchRegistry ==
  /\ \A a \in active : \E o \in Operations :
       lease[o] = a.identifier /\ \A q \in Operations \ {o} : lease[q] # lease[o]
  /\ \A o \in Operations : lease[o] # 0 => \E a \in active : a.identifier = lease[o]

\* The registry, its counter and the leases agree, and the counter stays within the maximum.
RegistryConsistent == TypeOK /\ ActiveCountExact /\ LeasesMatchRegistry

\* The claims of two different leases never cover a common file or directory if one
\* of them mutates: a claim covers the whole hierarchy below its path.
ExclusiveAccess ==
  \A a, b \in active : a # b =>
    \A i \in DOMAIN a.claims, j \in DOMAIN b.claims :
      a.claims[i].root = b.claims[j].root
        /\ "exclusive_mutation" \in {a.claims[i].mode, b.claims[j].mode} =>
      ~\E p \in Paths :
         is_prefix(a.claims[i].components, p) /\ is_prefix(b.claims[j].components, p)

\* Ownership is never granted after the interruption, even one that arrives while the
\* call waits for the registry.
NoGrantAfterInterruption ==
  [][\A o \in Operations : interrupted[o] # "none" => lease'[o] = lease[o]]_vars
=============================================================================
