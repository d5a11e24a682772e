--------------------------- MODULE CoordinatorProofs ---------------------------
(***************************************************************************)
(* The registry of filesystem claims keeps incompatible claims apart and    *)
(* counts exactly, for any number of operations, any paths and any maximum. *)
(***************************************************************************)
EXTENDS FilesystemResourceCoordinator, FiniteSetTheorems, TLAPS

\* Identifiers are distinct and older than the next one.
Identifiers ==
  /\ \A a, b \in active : a.identifier = b.identifier => a = b
  /\ \A a \in active : a.identifier < next_identifier

\* Only an operation that holds a lease has a nonempty lease object.
LeaseHolders == \A o \in Operations : lease[o] # 0 => pc[o] = "held"

\* No two lease objects own one claim set.
LeasesDistinct == \A o, q \in Operations : lease[o] # 0 /\ lease[o] = lease[q] => o = q

\* Every claim set has a lease, and every lease that is not empty a claim set.
LeasesCover ==
  /\ \A a \in active : \E o \in Operations : lease[o] = a.identifier
  /\ \A o \in Operations : lease[o] # 0 => \E a \in active : a.identifier = lease[o]

\* No claim of one set is incompatible with a claim of another.
NoConflict ==
  \A a, b \in active : a # b =>
    \A i \in DOMAIN a.claims, j \in DOMAIN b.claims : ~conflicts(a.claims[i], b.claims[j])

CountInv == IsFiniteSet(ClaimSlots) /\ ActiveCountExact

LeaseInv == Identifiers /\ LeaseHolders /\ LeasesDistinct /\ LeasesCover

\* Only a call that has not returned is interrupted.
CallsInterrupted == \A o \in Operations : interrupted[o] # "none" => pc[o] # "held"

IInv == TypeOK /\ LeaseInv /\ NoConflict /\ CountInv

-----------------------------------------------------------------------------
\* Two prefixes of one path are prefixes of each other, one way or the other.
LEMMA CommonPath ==
  ASSUME NEW p \in Paths, NEW q \in Paths, NEW r \in Paths,
         is_prefix(p, r), is_prefix(q, r)
  PROVE  is_prefix(p, q) \/ is_prefix(q, p)
<1>1. p \in Seq(Components) /\ q \in Seq(Components) /\ r \in Seq(Components)
  BY CoordinatorAssumptions
<1>2. Len(p) \in Nat /\ Len(q) \in Nat /\ Len(r) \in Nat
  BY <1>1
<1>. QED  BY <1>2 DEF is_prefix

\* Compatible claim sets never cover a common path.
LEMMA ConflictFree == RegistryTypes /\ NoConflict => ExclusiveAccess
<1>. SUFFICES ASSUME RegistryTypes, NoConflict,
                     NEW a \in active, NEW b \in active, a # b,
                     NEW i \in DOMAIN a.claims, NEW j \in DOMAIN b.claims,
                     a.claims[i].root = b.claims[j].root,
                     "exclusive_mutation" \in {a.claims[i].mode, b.claims[j].mode},
                     NEW p \in Paths,
                     is_prefix(a.claims[i].components, p),
                     is_prefix(b.claims[j].components, p)
              PROVE  FALSE
  BY DEF ExclusiveAccess
<1>1. a.claims \in Seq(Claim) /\ b.claims \in Seq(Claim)
  BY DEF RegistryTypes
<1>2. a.claims[i] \in Claim /\ b.claims[j] \in Claim
  BY <1>1
<1>3. a.claims[i].components \in Paths /\ b.claims[j].components \in Paths
  BY <1>2 DEF Claim
<1>4. overlaps(a.claims[i], b.claims[j])
  BY <1>3, CommonPath DEF overlaps
<1>. QED  BY <1>4 DEF NoConflict, conflicts

\* The claims of one set are as many elements.
LEMMA SlotsOfSet ==
  ASSUME NEW id, NEW n \in Nat
  PROVE  /\ IsFiniteSet({<<id, i>> : i \in 1 .. n})
         /\ Cardinality({<<id, i>> : i \in 1 .. n}) = n
<1>. DEFINE T == {<<id, i>> : i \in 1 .. n}
            f == [i \in 1 .. n |-> <<id, i>>]
<1>a. f \in [1 .. n -> T] /\ \A i \in 1 .. n : f[i] = <<id, i>>
  OBVIOUS
<1>b. \A i, j \in 1 .. n : f[i] = f[j] => i = j
  BY <1>a
<1>c. \A t \in T : \E i \in 1 .. n : f[i] = t
  BY <1>a
<1>. HIDE DEF T, f
<1>1. f \in Bijection(1 .. n, T)
  BY <1>a, <1>b, <1>c DEF Bijection, Injection, IsInjective, Surjection
<1>2. ExistsBijection(1 .. n, T)
  BY <1>1 DEF ExistsBijection
<1>3. IsFiniteSet(T)
  BY <1>2, FS_NatBijection
<1>4. Cardinality(T) = n
  BY <1>2, FS_CountingElements
<1>. QED  BY <1>3, <1>4 DEF T

\* A new claim set adds its claims to the count.
LEMMA RegisterCounts ==
  ASSUME RegistryTypes, Identifiers, CountInv,
         NEW c \in Seq(Claim),
         active' = active \cup {[identifier |-> next_identifier, claims |-> c]},
         active_claim_count' = active_claim_count + Len(c)
  PROVE  CountInv'
<1>. DEFINE T == {<<next_identifier, i>> : i \in 1 .. Len(c)}
<1>1. ClaimSlots' = ClaimSlots \cup T
  <2>. DEFINE e == [identifier |-> next_identifier, claims |-> c]
              S(a) == {<<a.identifier, i>> : i \in 1 .. Len(a.claims)}
  <2>1. S(e) = T
    OBVIOUS
  <2>2. ClaimSlots = UNION {S(a) : a \in active}
        /\ ClaimSlots' = UNION {S(a) : a \in active \cup {e}}
    BY DEF ClaimSlots
  <2>. HIDE DEF S, T, e
  <2>. QED  BY <2>1, <2>2
<1>2. ClaimSlots \cap T = {}
  BY DEF ClaimSlots, Identifiers, RegistryTypes
<1>3. Len(c) \in Nat
  OBVIOUS
<1>4. IsFiniteSet(T) /\ Cardinality(T) = Len(c)
  BY <1>3, SlotsOfSet
<1>. HIDE DEF T
<1>5. IsFiniteSet(ClaimSlots \cup T)
      /\ Cardinality(ClaimSlots \cup T) = Cardinality(ClaimSlots) + Len(c) - Cardinality({})
  <2>1. IsFiniteSet(ClaimSlots)
    BY DEF CountInv
  <2>. QED  BY <2>1, <1>2, <1>4, FS_Union
<1>6. Cardinality(ClaimSlots) \in Nat
  BY FS_CardinalityType DEF CountInv
<1>7. Cardinality(ClaimSlots \cup T) = Cardinality(ClaimSlots) + Len(c)
  BY <1>3, <1>5, <1>6, FS_EmptySet
<1>. QED  BY <1>1, <1>5, <1>7 DEF CountInv, ActiveCountExact

\* Releasing a claim set takes exactly its claims from the count.
LEMMA ReleaseCounts ==
  ASSUME RegistryTypes, Identifiers, CountInv, NEW id, release(id)
  PROVE  /\ CountInv'
         /\ active_claim_count' \in 0 .. MaximumActiveClaims
<1>1. CASE Released(id) = {}
  <2>1. UNCHANGED <<active, active_claim_count>>
    BY <1>1 DEF release
  <2>. QED  BY <2>1 DEF CountInv, ActiveCountExact, ClaimSlots, RegistryTypes
<1>2. CASE Released(id) # {}
  <2>1. PICK a \in active : a.identifier = id
    BY <1>2 DEF Released
  <2>2. a = (CHOOSE b \in active : b.identifier = id)
    BY <2>1 DEF Identifiers
  <2>3. Released(id) = {a}
    BY <2>1 DEF Released, Identifiers
  <2>4. active' = active \ {a} /\ active_claim_count' = active_claim_count - Len(a.claims)
    BY <1>2, <2>2, <2>3 DEF release
  <2>. DEFINE T == {<<id, i>> : i \in 1 .. Len(a.claims)}
  <2>5. ClaimSlots' = ClaimSlots \ T
    BY <2>1, <2>4 DEF ClaimSlots, Identifiers
  <2>6. ClaimSlots \cap T = T
    BY <2>1 DEF ClaimSlots
  <2>7. Len(a.claims) \in Nat
    BY DEF RegistryTypes
  <2>8. Cardinality(T) = Len(a.claims)
    BY <2>7, SlotsOfSet
  <2>. HIDE DEF T
  <2>9. /\ IsFiniteSet(ClaimSlots \ T)
        /\ Cardinality(ClaimSlots \ T) = Cardinality(ClaimSlots) - Len(a.claims)
    <3>1. IsFiniteSet(ClaimSlots)
      BY DEF CountInv
    <3>2. /\ IsFiniteSet(ClaimSlots \ T)
          /\ Cardinality(ClaimSlots \ T) =
               Cardinality(ClaimSlots) - Cardinality(ClaimSlots \cap T)
      BY <3>1, FS_Difference, Zenon
    <3>. QED  BY <3>2, <2>6, <2>8
  <2>10. Cardinality(ClaimSlots \ T) \in Nat
    BY <2>9, FS_CardinalityType
  <2>. QED  BY <2>4, <2>5, <2>7, <2>9, <2>10, CoordinatorAssumptions
            DEF CountInv, ActiveCountExact, RegistryTypes
<1>. QED  BY <1>1, <1>2

\* The registry starts empty.
LEMMA InitInv == Init => IInv
<1>. SUFFICES ASSUME Init PROVE IInv
  OBVIOUS
<1>1. TypeOK
  BY CoordinatorAssumptions DEF Init, TypeOK, RegistryTypes, CallTypes, Statuses
<1>2. LeaseInv
  BY DEF Init, LeaseInv, Identifiers, LeaseHolders, LeasesDistinct, LeasesCover
<1>3. NoConflict
  BY DEF Init, NoConflict
<1>4. ClaimSlots = {}
  BY DEF Init, ClaimSlots
<1>5. CountInv
  BY <1>4, FS_EmptySet DEF Init, CountInv, ActiveCountExact
<1>. QED  BY <1>1, <1>2, <1>3, <1>5 DEF IInv

\* A step that leaves the registry and the leases alone, and no lease holder behind.
LEMMA RegistryUntouched ==
  ASSUME IInv, UNCHANGED <<registryVars, lease>>, TypeOK',
         \A o \in Operations : pc[o] = "held" => pc'[o] = "held"
  PROVE  IInv'
<1>. USE DEF IInv, registryVars
<1>1. LeaseInv'
  BY DEF LeaseInv, Identifiers, LeaseHolders, LeasesDistinct, LeasesCover
<1>2. NoConflict'
  BY DEF NoConflict
<1>3. CountInv'
  BY DEF CountInv, ActiveCountExact, ClaimSlots
<1>. QED  BY <1>1, <1>2, <1>3

\* The call's variables after it has returned.
LEMMA ReturnTypes ==
  ASSUME CallTypes, NEW o \in Operations,
         NEW place \in {"idle", "held"},
         Return(o, place), lease' \in [Operations -> Nat]
  PROVE  CallTypes'
<1>1. <<>> \in Seq(Request) /\ <<>> \in Seq(Claim)
  OBVIOUS
<1>. QED  BY <1>1 DEF CallTypes, Return, Statuses

\* The claims made of requests are well formed.
LEMMA MadeClaims ==
  ASSUME TypeOK, NEW o \in Operations,
         \A i \in 1 .. Len(requests[o]) : resolve[requests[o][i].path] # Invalid
  PROVE  make_claims(requests[o]) \in Seq(Claim)
<1>1. requests[o] \in Seq(Request)
  BY DEF TypeOK, CallTypes
<1>2. Len(requests[o]) \in Nat /\ \A i \in 1 .. Len(requests[o]) : requests[o][i] \in Request
  BY <1>1
<1>3. \A i \in 1 .. Len(requests[o]) : resolve[requests[o][i].path] \in Paths
  BY <1>2 DEF TypeOK, Request
<1>4. \A i \in 1 .. Len(requests[o]) :
        [root |-> requests[o][i].root, components |-> resolve[requests[o][i].path],
         mode |-> requests[o][i].mode] \in Claim
  BY <1>2, <1>3 DEF Request, Claim
<1>. QED  BY <1>2, <1>4 DEF make_claims

\* Everything of a call but the grant leaves the registry alone.
LEMMA CallStep ==
  ASSUME IInv, NEW o \in Operations,
         \/ \E reqs \in CallRequests : AcquireCall(o, reqs)
         \/ Precheck(o) \/ Prepare(o) \/ Refuse(o)
         \/ \E status \in Interruptions : Interrupt(o, status)
  PROVE  IInv'
<1>. USE DEF IInv, TypeOK
<1>0. CallTypes /\ interrupted[o] \in Statuses
  BY DEF CallTypes
<1>1. UNCHANGED <<registryVars, lease, resolve>>
  BY DEF AcquireCall, Precheck, Prepare, Refuse, Interrupt
<1>2. \A q \in Operations : pc[q] = "held" => pc'[q] = "held"
  BY <1>0 DEF AcquireCall, Precheck, Prepare, Refuse, Interrupt, Return, CallTypes
<1>3. lease' \in [Operations -> Nat]
  BY <1>0, <1>1 DEF CallTypes
<1>4. CallTypes'
  <2>1. ASSUME NEW reqs \in CallRequests, AcquireCall(o, reqs) PROVE CallTypes'
    <3>1. reqs \in Seq(Request)
      BY CoordinatorAssumptions DEF CallRequests
    <3>. QED  BY <3>1, <2>1, <1>0 DEF AcquireCall, CallTypes
  <2>2. CASE Precheck(o)
    BY <2>2, <1>0, <1>3, ReturnTypes, CoordinatorAssumptions DEF Precheck, CallTypes, Statuses
  <2>3. CASE Prepare(o)
    <3>1. CASE /\ \A i \in 1 .. Len(requests[o]) : resolve[requests[o][i].path] # Invalid
               /\ claims' = [claims EXCEPT ![o] = make_claims(requests[o])]
               /\ pc' = [pc EXCEPT ![o] = "decide"]
               /\ UNCHANGED <<requests, interrupted>>
      BY <3>1, <1>0, <1>3, MadeClaims DEF CallTypes
    <3>. QED  BY <2>3, <3>1, <1>0, <1>3, ReturnTypes, CoordinatorAssumptions
              DEF Prepare, CallTypes, Statuses
  <2>4. CASE Refuse(o)
    BY <2>4, <1>0, <1>3, ReturnTypes, CoordinatorAssumptions
    DEF Refuse, CallTypes, Statuses, InterruptedUnderLock
  <2>5. ASSUME NEW status \in Interruptions, Interrupt(o, status) PROVE CallTypes'
    BY <2>5, <1>0 DEF Interrupt, CallTypes, Statuses
  <2>. QED  BY <2>1, <2>2, <2>3, <2>4, <2>5
<1>5. TypeOK'
  BY <1>1, <1>4 DEF registryVars, RegistryTypes
<1>. QED  BY <1>1, <1>2, <1>5, RegistryUntouched

\* Granting registers one claim set, compatible with every other, for one lease.
LEMMA GrantStep ==
  ASSUME IInv, NEW o \in Operations, Grant(o)
  PROVE  IInv'
<1>. USE DEF IInv, TypeOK
<1>0. /\ CallTypes /\ RegistryTypes /\ LeaseInv
      /\ claims[o] \in Seq(Claim) /\ Len(claims[o]) \in Nat
      /\ next_identifier \in Nat \ {0}
  BY DEF CallTypes, RegistryTypes
<1>1. CASE Return(o, "idle")
           /\ UNCHANGED <<active, active_claim_count, lease>>
  <2>1. TypeOK'
    BY <1>0, <1>1, ReturnTypes DEF Grant, RegistryTypes, CallTypes
  <2>2. LeaseInv'
    BY <1>0, <1>1 DEF Grant, Return, LeaseInv, Identifiers, LeaseHolders, LeasesDistinct,
       LeasesCover, RegistryTypes, CallTypes
  <2>3. NoConflict' /\ CountInv'
    BY <1>1 DEF NoConflict, CountInv, ActiveCountExact, ClaimSlots
  <2>. QED  BY <2>1, <2>2, <2>3
<1>2. CASE Register(o) /\ Return(o, "held")
  <2>. DEFINE e == [identifier |-> next_identifier, claims |-> claims[o]]
  <2>1. /\ active' = active \cup {e}
        /\ active_claim_count' = active_claim_count + Len(claims[o])
        /\ lease' = [lease EXCEPT ![o] = next_identifier]
        /\ next_identifier' = next_identifier + 1 /\ resolve' = resolve
    BY <1>2 DEF Register, Grant
  <2>2. e \in [identifier : Nat \ {0}, claims : Seq(Claim)]
        /\ e.identifier = next_identifier /\ e.claims = claims[o]
    BY <1>0
  <2>3. pc[o] = "decide" /\ lease[o] = 0 /\ pc' = [pc EXCEPT ![o] = "held"]
    BY <1>0, <1>2 DEF Grant, Return, LeaseInv, LeaseHolders, CallTypes
  <2>4. ~conflicts_with_active(claims[o])
    BY DEF Grant
  <2>5. active_claim_count' \in 0 .. MaximumActiveClaims
    BY <1>0, <2>1, CoordinatorAssumptions DEF Grant, RoomUnderLock, HasRoom, RegistryTypes
  <2>6. lease' \in [Operations -> Nat]
    BY <1>0, <2>1 DEF CallTypes
  <2>7. TypeOK'
    <3>1. CallTypes'
      BY <1>0, <1>2, <2>6, ReturnTypes
    <3>. HIDE DEF e
    <3>2. RegistryTypes'
      BY <1>0, <2>1, <2>2, <2>5 DEF RegistryTypes
    <3>. QED  BY <3>1, <3>2, <2>1
  <2>8. CountInv'
    BY <1>0, <2>1, RegisterCounts DEF LeaseInv
  <2>. HIDE DEF e
  <2>9. Identifiers'
    BY <1>0, <2>1, <2>2 DEF LeaseInv, Identifiers, RegistryTypes
  <2>10. ASSUME NEW q \in Operations PROVE lease[q] < next_identifier
    <3>1. CASE lease[q] = 0
      BY <3>1, <1>0
    <3>2. CASE lease[q] # 0
      <4>1. PICK a \in active : a.identifier = lease[q]
        BY <3>2, <1>0 DEF LeaseInv, LeasesCover
      <4>. QED  BY <4>1, <1>0 DEF LeaseInv, Identifiers
    <3>. QED  BY <3>1, <3>2
  <2>11. LeaseHolders' /\ LeasesDistinct'
    BY <1>0, <2>1, <2>3, <2>10 DEF LeaseInv, LeaseHolders, LeasesDistinct, CallTypes
  <2>12. LeasesCover'
    BY ZenonT(40), <1>0, <2>1, <2>2, <2>3 DEF LeaseInv, LeasesCover, CallTypes, RegistryTypes
  <2>13. NoConflict'
    <3>1. ASSUME NEW a \in active, NEW i \in DOMAIN a.claims, NEW j \in DOMAIN e.claims
          PROVE  ~conflicts(a.claims[i], e.claims[j]) /\ ~conflicts(e.claims[j], a.claims[i])
      BY <3>1, <2>2, <2>4 DEF conflicts_with_active, conflicts, overlaps
    <3>. QED  BY <3>1, <2>1 DEF NoConflict
  <2>. QED  BY <2>7, <2>8, <2>9, <2>11, <2>12, <2>13 DEF LeaseInv
<1>. QED  BY <1>1, <1>2 DEF Grant

\* Releasing the claim set of lease o leaves the others as they are.
LEMMA ReleaseStep ==
  ASSUME IInv, NEW o \in Operations, pc[o] = "held", release(lease[o]),
         UNCHANGED <<next_identifier, resolve, requests, claims, interrupted>>,
         \/ lease' = [lease EXCEPT ![o] = 0] /\ pc' = [pc EXCEPT ![o] = "idle"]
         \/ \E other \in Operations \ {o} :
              /\ lease' = [lease EXCEPT ![o] = lease[other], ![other] = 0]
              /\ UNCHANGED pc
              /\ pc[other] = "held"
  PROVE  IInv'
<1>. USE DEF IInv, TypeOK
<1>0. CallTypes /\ RegistryTypes /\ LeaseInv /\ CountInv /\ NoConflict
  OBVIOUS
<1>1. CountInv' /\ active_claim_count' \in 0 .. MaximumActiveClaims
  BY <1>0, ReleaseCounts DEF LeaseInv
<1>2. active' = {a \in active : a.identifier # lease[o]}
  BY DEF release, Released
<1>3. Identifiers' /\ NoConflict'
  BY <1>0, <1>2 DEF LeaseInv, Identifiers, NoConflict
<1>4. CASE lease' = [lease EXCEPT ![o] = 0] /\ pc' = [pc EXCEPT ![o] = "idle"]
  <2>1. TypeOK'
    BY <1>0, <1>1, <1>2, <1>4 DEF RegistryTypes, CallTypes
  <2>2. LeaseHolders' /\ LeasesDistinct'
    BY <1>0, <1>4 DEF LeaseInv, LeaseHolders, LeasesDistinct, CallTypes
  <2>3. \A q \in Operations : lease'[q] = IF q = o THEN 0 ELSE lease[q]
    BY <1>0, <1>4 DEF CallTypes
  <2>4. \A q \in Operations \ {o} : lease[q] # 0 => lease[q] # lease[o]
    BY <1>0 DEF LeaseInv, LeasesDistinct
  <2>5. LeasesCover'
    BY <1>0, <1>2, <2>3, <2>4 DEF LeaseInv, LeasesCover, RegistryTypes
  <2>. QED  BY <1>1, <1>3, <2>1, <2>2, <2>5 DEF LeaseInv
<1>5. ASSUME NEW other \in Operations \ {o},
             lease' = [lease EXCEPT ![o] = lease[other], ![other] = 0],
             UNCHANGED pc, pc[other] = "held"
      PROVE  IInv'
  <2>1. \A q \in Operations :
          lease'[q] = IF q = o THEN lease[other] ELSE IF q = other THEN 0 ELSE lease[q]
    BY <1>0, <1>5 DEF CallTypes
  <2>2. TypeOK'
    BY <1>0, <1>1, <1>2, <1>5 DEF RegistryTypes, CallTypes
  <2>3. LeaseHolders' /\ LeasesDistinct'
    <3>1. LeaseHolders'
      BY <1>0, <1>5, <2>1 DEF LeaseInv, LeaseHolders
    <3>2. \A q, r \in Operations : lease[q] # 0 /\ lease[q] = lease[r] => q = r
      BY <1>0 DEF LeaseInv, LeasesDistinct
    <3>3. ASSUME NEW q \in Operations, NEW r \in Operations,
                 lease'[q] # 0, lease'[q] = lease'[r]
          PROVE  q = r
      <4>1. q # other /\ r # other
        BY <3>3, <2>1, <1>5
      <4>2. ASSUME q = o, r # o PROVE FALSE
        <5>1. lease[other] = lease[r] /\ lease[other] # 0
          BY <4>1, <4>2, <3>3, <2>1
        <5>. QED  BY <4>1, <5>1, <3>2
      <4>3. ASSUME r = o, q # o PROVE FALSE
        <5>1. lease[q] = lease[other] /\ lease[q] # 0
          BY <4>1, <4>3, <3>3, <2>1
        <5>. QED  BY <4>1, <5>1, <3>2
      <4>4. CASE q # o /\ r # o
        <5>1. lease'[q] = lease[q]
          BY <4>1, <4>4, <2>1
        <5>2. lease'[r] = lease[r]
          BY <4>1, <4>4, <2>1
        <5>. QED  BY <5>1, <5>2, <3>2, <3>3
      <4>. QED  BY <4>2, <4>3, <4>4
    <3>. QED  BY <3>1, <3>3 DEF LeasesDistinct
  <2>4. \A q \in Operations \ {o} : lease[q] # 0 => lease[q] # lease[o]
    BY <1>0 DEF LeaseInv, LeasesDistinct
  <2>5. LeasesCover'
    <3>1. ASSUME NEW a \in active'
          PROVE  \E q \in Operations : lease'[q] = a.identifier
      <4>1. a \in active /\ a.identifier # lease[o] /\ a.identifier # 0
        BY <1>0, <1>2 DEF RegistryTypes
      <4>2. PICK q \in Operations : lease[q] = a.identifier
        BY <4>1, <1>0 DEF LeaseInv, LeasesCover
      <4>3. CASE q = other
        BY <4>2, <4>3, <2>1
      <4>4. CASE q # other
        BY <4>1, <4>2, <4>4, <2>1
      <4>. QED  BY <4>3, <4>4
    <3>2. ASSUME NEW q \in Operations, lease'[q] # 0
          PROVE  \E a \in active' : a.identifier = lease'[q]
      <4>1. PICK r \in Operations \ {o} : lease[r] = lease'[q]
        BY <3>2, <2>1, <1>5
      <4>2. PICK a \in active : a.identifier = lease[r]
        BY <3>2, <4>1, <1>0 DEF LeaseInv, LeasesCover
      <4>. QED  BY <3>2, <4>1, <4>2, <2>4, <1>2
    <3>. QED  BY <3>1, <3>2 DEF LeasesCover
  <2>. QED  BY <1>1, <1>3, <2>2, <2>3, <2>5 DEF LeaseInv
<1>. QED  BY <1>4, <1>5

\* Every step of every operation keeps the inductive invariant.
LEMMA NextInv == IInv /\ [Next]_vars => IInv'
<1>. SUFFICES ASSUME IInv, [Next]_vars PROVE IInv'
  OBVIOUS
<1>1. ASSUME NEW o \in Operations, CallNext(o) PROVE IInv'
  <2>1. CASE Grant(o)
    BY <2>1, GrantStep
  <2>2. CASE Destroy(o)
    BY <2>2, ReleaseStep DEF Destroy
  <2>3. ASSUME NEW other \in Operations, MoveAssign(o, other) PROVE IInv'
    BY <2>3, ReleaseStep DEF MoveAssign, callVars
  <2>. QED  BY <1>1, <2>1, <2>2, <2>3, CallStep DEF CallNext
<1>2. CASE ResolutionChanges
  <2>1. TypeOK'
    BY <1>2 DEF IInv, TypeOK, ResolutionChanges, registryVars, callVars, RegistryTypes, CallTypes
  <2>. QED  BY <1>2, <2>1, RegistryUntouched DEF ResolutionChanges, callVars
<1>3. CASE UNCHANGED vars
  <2>1. TypeOK'
    BY <1>3 DEF IInv, TypeOK, vars, registryVars, callVars, RegistryTypes, CallTypes
  <2>. QED  BY <1>3, <2>1, RegistryUntouched DEF vars, callVars
<1>. QED  BY <1>1, <1>2, <1>3 DEF Next

\* The invariant holds in every reachable state of the registry.
THEOREM Invariance == Spec => []IInv
BY InitInv, NextInv, PTL DEF Spec

\* Claims that one of two leases may mutate are never shared with the other, although
\* the paths are resolved and the capacity is first looked at outside the decision.
THEOREM AccessIsExclusive == Spec => []ExclusiveAccess
<1>1. IInv => ExclusiveAccess
  BY ConflictFree DEF IInv, TypeOK
<1>. QED  BY <1>1, Invariance, PTL

\* The counter is the number of registered claims and stays within the maximum, so the
\* unsigned subtractions of acquire_all() and release() never wrap; leases and registered
\* claim sets correspond one to one.
THEOREM RegistryCorrect == Spec => []RegistryConsistent
<1>1. IInv => LeasesMatchRegistry
  BY DEF IInv, TypeOK, RegistryTypes, LeaseInv, LeasesCover, LeasesDistinct,
     LeasesMatchRegistry
<1>2. IInv => RegistryConsistent
  BY <1>1 DEF IInv, CountInv, RegistryConsistent
<1>. QED  BY <1>2, Invariance, PTL

\* No step gives a lease to an operation that is interrupted: the check under the lock
\* sees an interruption that arrived after the earlier ones.
THEOREM NoLateGrant == Spec => NoGrantAfterInterruption
<1>1. Init => CallsInterrupted
  BY DEF Init, CallsInterrupted
<1>2. IInv /\ CallsInterrupted /\ [Next]_vars => CallsInterrupted'
  <2>. SUFFICES ASSUME IInv, CallsInterrupted, [Next]_vars PROVE CallsInterrupted'
    OBVIOUS
  <2>. USE DEF IInv, TypeOK, CallTypes, CallsInterrupted
  <2>1. ASSUME NEW o \in Operations, CallNext(o) PROVE CallsInterrupted'
    BY <2>1 DEF CallNext, AcquireCall, Precheck, Prepare, Refuse, Grant, Interrupt, Return,
       Destroy, MoveAssign, callVars
  <2>2. CASE ResolutionChanges \/ UNCHANGED vars
    BY <2>2 DEF ResolutionChanges, vars, callVars
  <2>. QED  BY <2>1, <2>2 DEF Next
<1>3. IInv /\ CallsInterrupted /\ [Next]_vars =>
        [\A o \in Operations : interrupted[o] # "none" => lease'[o] = lease[o]]_vars
  <2>. SUFFICES ASSUME IInv, CallsInterrupted, Next,
                       NEW o \in Operations, interrupted[o] # "none"
                PROVE  lease'[o] = lease[o]
    OBVIOUS
  <2>. USE DEF IInv, TypeOK, CallTypes, CallsInterrupted
  <2>1. ASSUME NEW q \in Operations, CallNext(q) PROVE lease'[o] = lease[o]
    BY <2>1 DEF CallNext, AcquireCall, Precheck, Prepare, Refuse, Grant, Register, Interrupt,
       InterruptedUnderLock, Destroy, MoveAssign
  <2>2. CASE ResolutionChanges
    BY <2>2 DEF ResolutionChanges
  <2>. QED  BY <2>1, <2>2 DEF Next
<1>. QED  BY <1>1, <1>2, <1>3, Invariance, PTL DEF Spec, NoGrantAfterInterruption

=============================================================================
