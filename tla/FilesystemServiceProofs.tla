------------------------ MODULE FilesystemServiceProofs ------------------------
(***************************************************************************)
(* The claims of the coordinator protect the work of the filesystem         *)
(* service, and no staging file is left, for any number of operations, any  *)
(* tree and any links in it.                                                *)
(***************************************************************************)
EXTENDS FilesystemService, SequenceTheorems, WellFoundedInduction, TLAPS

\* What is proved of the coordinator, for the one of this service.
Registry == INSTANCE CoordinatorProofs WITH
  Roots <- {Root}, Spellings <- Paths, MaxRequests <- 1,
  resolve <- [p \in Paths |-> ResolvePath(p)]

-----------------------------------------------------------------------------
\* Paths.

\* A set of natural numbers that is not empty has a least element.
LEMMA Least ==
  ASSUME NEW S \in SUBSET Nat, S # {}
  PROVE  \E m \in S : \A n \in S : m <= n
<1>. DEFINE R == OpToRel(<, Nat)
<1>1. IsWellFoundedOn(R, Nat)
  BY NatLessThanWellFounded
<1>2. \E m \in S : \A n \in S : ~(<<n, m>> \in R)
  <2>. HIDE DEF R
  <2>. QED  BY <1>1, WFMin
<1>3. \A m, n \in Nat : ~(<<n, m>> \in R) => m <= n
  BY DEF OpToRel
<1>. HIDE DEF R
<1>. QED  BY <1>2, <1>3

\* A path is below another if it begins with its components.
LEMMA BelowEach ==
  ASSUME NEW p \in Seq(Components), NEW q \in Seq(Components)
  PROVE  Below(p, q) <=> Len(p) <= Len(q) /\ \A i \in 1 .. Len(p) : p[i] = q[i]
<1>1. Len(p) \in Nat /\ Len(q) \in Nat
  BY LenProperties
<1>2. ASSUME Len(p) <= Len(q)
      PROVE  /\ SubSeq(q, 1, Len(p)) \in Seq(Components) /\ Len(SubSeq(q, 1, Len(p))) = Len(p)
             /\ \A i \in 1 .. Len(p) : SubSeq(q, 1, Len(p))[i] = q[i]
  <2>1. \A i \in 1 .. Len(p) : q[i] \in Components
    BY <1>1, <1>2, ElementOfSeq
  <2>2. /\ SubSeq(q, 1, Len(p)) \in Seq(Components)
        /\ Len(SubSeq(q, 1, Len(p))) = IF 1 <= Len(p) THEN Len(p) - 1 + 1 ELSE 0
        /\ \A i \in 1 .. Len(p) - 1 + 1 : SubSeq(q, 1, Len(p))[i] = q[1 + i - 1]
    BY <1>1, <2>1, SubSeqProperties
  <2>. QED  BY <1>1, <2>2
<1>3. ASSUME Len(p) <= Len(q), \A i \in 1 .. Len(p) : p[i] = q[i]
      PROVE  SubSeq(q, 1, Len(p)) = p
  BY <1>1, <1>2, <1>3, SeqEqual
<1>4. ASSUME Len(p) <= Len(q), SubSeq(q, 1, Len(p)) = p
      PROVE  \A i \in 1 .. Len(p) : p[i] = q[i]
  BY <1>2, <1>4
<1>. QED  BY <1>3, <1>4 DEF Below

\* Two prefixes of one path with the same length are the same.
LEMMA SamePrefix ==
  ASSUME NEW p \in Seq(Components), NEW q \in Seq(Components), NEW r \in Seq(Components),
         Below(q, p), Below(r, p), Len(q) = Len(r)
  PROVE  q = r
<1>1. /\ Len(q) <= Len(p) /\ \A i \in 1 .. Len(q) : q[i] = p[i]
      /\ \A i \in 1 .. Len(r) : r[i] = p[i]
  BY BelowEach
<1>. QED  BY <1>1, SeqEqual

\* The directory of an entry: the entry is it and one more component.
LEMMA ParentProperties ==
  ASSUME NEW p \in Seq(Components), p # <<>>
  PROVE  /\ Parent(p) \in Seq(Components) /\ Len(p) \in Nat \ {0} /\ Len(Parent(p)) = Len(p) - 1
         /\ \A i \in 1 .. Len(p) - 1 : Parent(p)[i] = p[i]
         /\ p = Parent(p) \o <<p[Len(p)]>> /\ p[Len(p)] \in Components
<1>1. Len(p) \in Nat /\ Len(p) # 0
  BY LenProperties, EmptySeq
<1>2. /\ Parent(p) \in Seq(Components) /\ Len(Parent(p)) = Len(p) - 1
      /\ \A i \in 1 .. Len(p) - 1 : Parent(p)[i] = p[i]
  <2>1. \A i \in 1 .. Len(p) - 1 : p[i] \in Components
    BY <1>1, ElementOfSeq
  <2>2. /\ SubSeq(p, 1, Len(p) - 1) \in Seq(Components)
        /\ Len(SubSeq(p, 1, Len(p) - 1)) = IF 1 <= Len(p) - 1 THEN (Len(p) - 1) - 1 + 1 ELSE 0
        /\ \A i \in 1 .. (Len(p) - 1) - 1 + 1 : SubSeq(p, 1, Len(p) - 1)[i] = p[1 + i - 1]
    BY <1>1, <2>1, SubSeqProperties
  <2>3. PICK s : s = SubSeq(p, 1, Len(p) - 1)
    OBVIOUS
  <2>4. s \in Seq(Components) /\ Len(s) = Len(p) - 1
    <3>1. s \in Seq(Components)
      BY <2>2, <2>3
    <3>2. Len(s) = IF 1 <= Len(p) - 1 THEN (Len(p) - 1) - 1 + 1 ELSE 0
      BY <2>2, <2>3
    <3>3. \A n \in Nat \ {0} : (IF 1 <= n - 1 THEN (n - 1) - 1 + 1 ELSE 0) = n - 1
      OBVIOUS
    <3>4. Len(s) = Len(p) - 1
      <4>1. Len(p) \in Nat \ {0}
        BY <1>1
      <4>. QED  BY <3>2, <3>3, <4>1, Zenon
    <3>. QED  BY <3>1, <3>4
  <2>5. \A i \in 1 .. Len(p) - 1 : s[i] = p[i]
    BY <1>1, <2>2, <2>3
  <2>. QED  BY <2>3, <2>4, <2>5 DEF Parent
<1>3. p[Len(p)] \in Components
  BY <1>1, ElementOfSeq
<1>4. PICK last \in Components : last = p[Len(p)]
  BY <1>3
<1>5. PICK s : s = Parent(p) \o <<last>>
  OBVIOUS
<1>6. /\ s \in Seq(Components) /\ Len(s) = Len(p)
      /\ \A i \in 1 .. Len(p) : s[i] = p[i]
  <2>1. <<last>> \in Seq(Components) /\ Len(<<last>>) = 1 /\ <<last>>[1] = last
    OBVIOUS
  <2>2. /\ s \in Seq(Components) /\ Len(s) = Len(Parent(p)) + Len(<<last>>)
        /\ \A i \in 1 .. Len(Parent(p)) + Len(<<last>>) :
             s[i] = IF i <= Len(Parent(p)) THEN Parent(p)[i] ELSE <<last>>[i - Len(Parent(p))]
    BY <1>2, <1>5, <2>1, ConcatProperties
  <2>. QED  BY <1>1, <1>2, <1>4, <2>1, <2>2
<1>7. s = p
  BY <1>6, SeqEqual
<1>. QED  BY <1>1, <1>2, <1>3, <1>4, <1>5, <1>7

-----------------------------------------------------------------------------
\* The inductive invariant.

\* The path SafePath::resolve makes of p while all links are in place, if any.
LinksOn(p) == {q \in DOMAIN LinkTarget : Below(q, p)}

Nearest(links) == CHOOSE q \in links : \A r \in links : Len(q) <= Len(r)

RealPath(p) ==
  IF LinksOn(p) = {} THEN p
  ELSE LinkTarget[Nearest(LinksOn(p))]
         \o SubSeq(p, Len(Nearest(LinksOn(p))) + 1, Len(p))

\* The one claim of an operation that works at p.
ClaimOn(p, mode) == <<[root |-> Root, components |-> p, mode |-> mode]>>

\* The lease of o has it registered.
Claimed(o, p, mode) ==
  \E a \in active : a.identifier = lease[o] /\ a.claims = ClaimOn(p, mode)

Places == {"idle", "acquire", "native", "listing", "streaming", "assigning", "assigned",
           "staged", "cleanup", "release"}

ServiceTypes ==
  /\ tree \in [Paths -> {"absent", "directory", "file", "link"}]
  /\ spc \in [Operations -> Places]
  /\ job \in [Operations -> [op : Ops \cup {"none"}, path : Paths]]
  /\ where \in [Operations -> Paths \cup {None}]
  /\ stage \in [Operations -> Paths \cup {None}]
  /\ source \in [Operations -> Operations \cup {None}]

\* The only links are those the tree had at the start.
LinksKnown == \A q \in Paths : tree[q] = "link" => q \in DOMAIN LinkTarget

\* What operation o asks the coordinator for, and what it makes of it.
Asked(o) ==
  spc[o] = "acquire" =>
    /\ requests[o] = <<[root |-> Root, path |-> job[o].path, mode |-> ModeOf(job[o].op)]>>
    /\ pc[o] = "decide" /\ LinksInPlace =>
         claims[o] = ClaimOn(RealPath(job[o].path), ModeOf(job[o].op))

\* The claim that protects the work of o, while the links are in place.
Protected(o) ==
  /\ spc[o] = "native" => Claimed(o, RealPath(job[o].path), ModeOf(job[o].op))
  /\ spc[o] \in {"listing", "streaming"} => Claimed(o, where[o], "shared_read")
  /\ spc[o] = "assigning" => Claimed(source[o], where[o], "shared_read")
  /\ spc[o] = "staged" => Claimed(o, where[o], "exclusive_mutation")

\* A stream that is being assigned has a source of its own.
Sourced(o) ==
  spc[o] = "assigning" =>
    /\ source[o] \in Operations /\ spc[source[o]] = "assigned"
    /\ \A q \in Operations : spc[q] = "assigning" /\ source[q] = source[o] => q = o

Located(o) == o \in AtWork => where[o] \in Paths

WorkInv(o) ==
  Asked(o) /\ (LinksInPlace => Protected(o)) /\ Sourced(o) /\ Located(o)

ServiceInv ==
  ServiceTypes /\ LinksKnown /\ NoStageLeft /\ \A o \in Operations : WorkInv(o)

Inv == Registry!IInv /\ ServiceInv

-----------------------------------------------------------------------------
\* Resolution, and the tree.

LEMMA ResolveType ==
  ASSUME NEW p PROVE ResolvePath(p) \in Paths \cup {Invalid}
BY DEF ResolvePath

\* While all links are in place a path always resolves to the same one, if it does.
LEMMA ResolvedIsReal ==
  ASSUME LinksInPlace, NEW p, ResolvePath(p) # Invalid
  PROVE  ResolvePath(p) = RealPath(p) /\ RealPath(p) \in Paths
<1>. DEFINE found == {q \in DOMAIN LinkTarget : Below(q, p) /\ tree[q] = "link"}
            Real(links) == IF links = {} THEN p
                           ELSE LinkTarget[Nearest(links)]
                                  \o SubSeq(p, Len(Nearest(links)) + 1, Len(p))
<1>1. found = LinksOn(p)
  BY DEF LinksInPlace, LinksOn
<1>2. Real(LinksOn(p)) = RealPath(p)
  BY DEF RealPath
<1>3. ResolvePath(p) \in {Real(found), Invalid}
  BY DEF ResolvePath, Nearest
<1>. HIDE DEF found, Real
<1>4. Real(found) = RealPath(p)
  BY <1>1, <1>2
<1>. QED  BY <1>3, <1>4, ResolveType

\* A step changes one entry of the tree at most, and makes no link.
LEMMA TreeStep ==
  ASSUME ServiceTypes, NoStageLeft, \A o \in Operations : Located(o), [Next]_vars
  PROVE  tree' = tree \/ \E r \in Paths, t \in {"absent", "directory", "file"} :
                           tree' = [tree EXCEPT ![r] = t]
<1>1. ASSUME NEW o \in Operations, CreateDirectory(o)
      PROVE  \E r \in Paths : tree' = [tree EXCEPT ![r] = "directory"]
  BY <1>1, ResolveType DEF CreateDirectory, Creatable
<1>2. ASSUME NEW o \in Operations, Remove(o)
      PROVE  \E r \in Paths : tree' = [tree EXCEPT ![r] = "absent"]
  BY <1>2 DEF Remove, Removable
<1>3. ASSUME NEW o \in Operations, PublishUpload(o)
      PROVE  \E r \in Paths : tree' = [tree EXCEPT ![r] = "file"]
  BY <1>3 DEF PublishUpload, Located, AtWork
<1>4. CASE UNCHANGED vars
  BY <1>4 DEF vars
<1>5. ASSUME NEW o \in Operations, NEW op, NEW p, Begin(o, op, p) PROVE tree' = tree
  BY <1>5 DEF Begin
<1>6. ASSUME NEW o \in Operations, Coordinate(o) \/ Release(o) PROVE tree' = tree
  BY <1>6 DEF Coordinate, Release
<1>7. ASSUME NEW o \in Operations, NEW other, AssignStream(o, other) \/ AssignLease(o, other)
      PROVE  tree' = tree
  BY <1>7 DEF AssignStream, AssignLease
<1>8. ASSUME NEW o \in Operations, NativeFails(o) \/ ReadBegin(o) \/ ReadEnd(o) \/ StageUpload(o)
                                   \/ UploadFails(o) \/ CleanupStage(o)
      PROVE  tree' = tree
  BY <1>8 DEF NativeFails, ReadBegin, ReadEnd, StageUpload, UploadFails, CleanupStage
<1>. QED  BY <1>1, <1>2, <1>3, <1>4, <1>5, <1>6, <1>7, <1>8 DEF Next

\* A link that is gone does not come back.
LEMMA LinksStep ==
  ASSUME ServiceTypes, LinksKnown, NoStageLeft, \A o \in Operations : Located(o), [Next]_vars
  PROVE  /\ LinksKnown' /\ (LinksInPlace' => LinksInPlace)
         /\ tree' \in [Paths -> {"absent", "directory", "file", "link"}]
<1>1. CASE tree' = tree
  BY <1>1 DEF LinksKnown, LinksInPlace, ServiceTypes
<1>2. ASSUME NEW r \in Paths, NEW t \in {"absent", "directory", "file"},
             tree' = [tree EXCEPT ![r] = t]
      PROVE  /\ LinksKnown' /\ (LinksInPlace' => LinksInPlace)
             /\ tree' \in [Paths -> {"absent", "directory", "file", "link"}]
  <2>1. \A q \in Paths : tree'[q] = "link" => tree[q] = "link"
    BY <1>2 DEF ServiceTypes
  <2>2. tree' \in [Paths -> {"absent", "directory", "file", "link"}]
    BY <1>2 DEF ServiceTypes
  <2>. QED  BY <2>1, <2>2, ServiceAssumptions DEF LinksKnown, LinksInPlace
<1>. QED  BY <1>1, <1>2, TreeStep

-----------------------------------------------------------------------------
\* The coordinator of the service takes steps of a coordinator.

LEMMA ResolveStays == UNCHANGED tree => UNCHANGED [p \in Paths |-> ResolvePath(p)]
BY DEF ResolvePath

LEMMA RegistryBegin ==
  ASSUME NEW o \in Operations, NEW op \in Ops, NEW p \in Paths, Begin(o, op, p)
  PROVE  Registry!Next
<1>. DEFINE reqs == <<[root |-> Root, path |-> p, mode |-> ModeOf(op)]>>
<1>1. reqs \in [1 .. 1 -> Registry!Request]
  BY DEF Registry!Request, Registry!Modes, ModeOf
<1>2. reqs \in Registry!CallRequests
  BY <1>1 DEF Registry!CallRequests
<1>3. Registry!AcquireCall(o, reqs)
  BY DEF Begin, C!AcquireCall, Registry!AcquireCall, C!registryVars, Registry!registryVars
<1>. HIDE DEF reqs
<1>. QED  BY <1>2, <1>3 DEF Registry!Next, Registry!CallNext

LEMMA RegistryCoordinate ==
  ASSUME NEW o \in Operations, Coordinate(o) PROVE Registry!Next
<1>1. CASE C!Precheck(o)
  <2>1. Registry!Precheck(o)
    BY <1>1 DEF C!Precheck, Registry!Precheck, C!ReturnsEarly, Registry!ReturnsEarly, C!HasRoom,
       Registry!HasRoom, C!Return, Registry!Return, C!registryVars, Registry!registryVars
  <2>. QED  BY <2>1 DEF Registry!Next, Registry!CallNext
<1>2. CASE C!Prepare(o)
  <2>1. Registry!Prepare(o)
    BY <1>2 DEF C!Prepare, Registry!Prepare, C!make_claims, Registry!make_claims,
       C!Return, Registry!Return, C!registryVars, Registry!registryVars
  <2>. QED  BY <2>1 DEF Registry!Next, Registry!CallNext
<1>3. CASE C!Refuse(o)
  <2>1. Registry!Refuse(o)
    BY <1>3 DEF C!Refuse, Registry!Refuse, C!InterruptedUnderLock, Registry!InterruptedUnderLock,
       C!RoomUnderLock, Registry!RoomUnderLock, C!HasRoom, Registry!HasRoom,
       C!conflicts_with_active, Registry!conflicts_with_active, C!conflicts, Registry!conflicts,
       C!overlaps, Registry!overlaps, C!is_prefix, Registry!is_prefix,
       C!Return, Registry!Return, C!registryVars, Registry!registryVars
  <2>. QED  BY <2>1 DEF Registry!Next, Registry!CallNext
<1>4. CASE C!Grant(o)
  <2>1. Registry!Grant(o)
    BY <1>4 DEF C!Grant, Registry!Grant, C!InterruptedUnderLock, Registry!InterruptedUnderLock,
       C!RoomUnderLock, Registry!RoomUnderLock, C!HasRoom, Registry!HasRoom,
       C!conflicts_with_active, Registry!conflicts_with_active, C!conflicts, Registry!conflicts,
       C!overlaps, Registry!overlaps, C!is_prefix, Registry!is_prefix,
       C!Register, Registry!Register, C!Return, Registry!Return
  <2>. QED  BY <2>1 DEF Registry!Next, Registry!CallNext
<1>5. ASSUME NEW status \in Interruptions, C!Interrupt(o, status) PROVE Registry!Next
  <2>1. Registry!Interrupt(o, status)
    BY <1>5 DEF C!Interrupt, Registry!Interrupt, C!registryVars, Registry!registryVars
  <2>. QED  BY <2>1 DEF Registry!Next, Registry!CallNext
<1>. QED  BY <1>1, <1>2, <1>3, <1>4, <1>5 DEF Coordinate

LEMMA RegistryRelease ==
  ASSUME NEW o \in Operations, Release(o) PROVE Registry!Next
<1>1. Registry!Destroy(o)
  BY DEF Release, C!Destroy, Registry!Destroy, C!release, Registry!release,
     C!Released, Registry!Released
<1>. QED  BY <1>1 DEF Registry!Next, Registry!CallNext

LEMMA RegistryAssign ==
  ASSUME NEW o \in Operations, NEW other \in Operations, AssignLease(o, other) PROVE Registry!Next
<1>1. Registry!MoveAssign(o, other)
  BY DEF AssignLease, C!MoveAssign, Registry!MoveAssign, C!release, Registry!release,
     C!Released, Registry!Released, C!callVars, Registry!callVars
<1>. QED  BY <1>1 DEF Registry!Next, Registry!CallNext

\* Everything else only changes what paths mean.
LEMMA RegistryElse ==
  ASSUME UNCHANGED coordinatorVars PROVE Registry!Next
<1>1. [p \in Paths |-> ResolvePath(p)]' \in [Paths -> Paths \cup {Invalid}]
  BY DEF ResolvePath
<1>. QED  BY <1>1 DEF coordinatorVars, Registry!Next, Registry!ResolutionChanges,
             Registry!registryVars, Registry!callVars

LEMMA RegistryStep == [Next]_vars => Registry!Next
<1>. SUFFICES ASSUME [Next]_vars PROVE Registry!Next
  OBVIOUS
<1>1. CASE UNCHANGED vars
  BY <1>1, RegistryElse DEF vars
<1>2. ASSUME NEW o \in Operations, NativeFails(o) \/ ReadBegin(o) \/ ReadEnd(o) \/ StageUpload(o)
                                   \/ UploadFails(o) \/ CleanupStage(o) \/ PublishUpload(o)
                                   \/ CreateDirectory(o) \/ Remove(o)
      PROVE  Registry!Next
  BY <1>2, RegistryElse DEF NativeFails, ReadBegin, ReadEnd, StageUpload, UploadFails,
     CleanupStage, PublishUpload, CreateDirectory, Remove
<1>3. ASSUME NEW o \in Operations, NEW other \in Operations, AssignStream(o, other)
      PROVE  Registry!Next
  BY <1>3, RegistryElse DEF AssignStream
<1>. QED  BY <1>1, <1>2, <1>3, RegistryBegin, RegistryCoordinate, RegistryRelease, RegistryAssign
          DEF Next

-----------------------------------------------------------------------------
\* Claims.

\* Two operations work on overlapping paths only if both read.
LEMMA Incompatible ==
  ASSUME Registry!IInv, NEW o \in Operations, NEW q \in Operations, o # q,
         NEW p \in Paths, NEW r \in Paths, Below(p, r) \/ Below(r, p),
         NEW m, NEW n, Claimed(o, p, m), Claimed(q, r, n), "exclusive_mutation" \in {m, n}
  PROVE  FALSE
<1>1. PICK a \in active : a.identifier = lease[o] /\ a.claims = ClaimOn(p, m)
  BY DEF Claimed
<1>2. PICK b \in active : b.identifier = lease[q] /\ b.claims = ClaimOn(r, n)
  BY DEF Claimed
<1>3. a.identifier # 0
  BY DEF Registry!IInv, Registry!TypeOK, Registry!RegistryTypes
<1>4. a # b
  BY <1>1, <1>2, <1>3 DEF Registry!IInv, Registry!LeaseInv, Registry!LeasesDistinct
<1>5. PICK c : c = [root |-> Root, components |-> p, mode |-> m]
  OBVIOUS
<1>6. PICK d : d = [root |-> Root, components |-> r, mode |-> n]
  OBVIOUS
<1>7. 1 \in DOMAIN a.claims /\ a.claims[1] = c /\ 1 \in DOMAIN b.claims /\ b.claims[1] = d
  BY <1>1, <1>2, <1>5, <1>6 DEF ClaimOn
<1>8. Registry!is_prefix(p, r) \/ Registry!is_prefix(r, p)
  <2>1. p \in Seq(Components) /\ r \in Seq(Components)
    BY ServiceAssumptions
  <2>. QED  BY <2>1, BelowEach DEF Registry!is_prefix
<1>9. Registry!conflicts(c, d)
  <2>1. c.root = d.root /\ c.components = p /\ d.components = r /\ c.mode = m /\ d.mode = n
    BY <1>5, <1>6
  <2>. QED  BY <1>8, <2>1 DEF Registry!conflicts, Registry!overlaps
<1>. QED  BY <1>4, <1>7, <1>9 DEF Registry!IInv, Registry!NoConflict

\* Registering a claim, or releasing that of another lease, keeps the claim of a lease.
LEMMA ClaimKept ==
  ASSUME NEW o, lease'[o] = lease[o],
         \/ active \subseteq active'
         \/ \E id : id # lease[o] /\ active' = active \ C!Released(id),
         NEW p, NEW m, Claimed(o, p, m)
  PROVE  Claimed(o, p, m)'
<1>1. PICK a \in active : a.identifier = lease[o] /\ a.claims = ClaimOn(p, m)
  BY DEF Claimed
<1>2. a \in active'
  BY <1>1 DEF C!Released
<1>. QED  BY <1>1, <1>2 DEF Claimed, ClaimOn

\* A lease that has a claim is not empty and not the lease of another operation.
LEMMA LeaseOfClaim ==
  ASSUME Registry!IInv, NEW o \in Operations, NEW q \in Operations, o # q,
         NEW p, NEW m, Claimed(o, p, m)
  PROVE  lease[q] # lease[o]
<1>1. PICK a \in active : a.identifier = lease[o]
  BY DEF Claimed
<1>2. a.identifier # 0
  BY DEF Registry!IInv, Registry!TypeOK, Registry!RegistryTypes
<1>. QED  BY <1>1, <1>2 DEF Registry!IInv, Registry!LeaseInv, Registry!LeasesDistinct

-----------------------------------------------------------------------------
\* The steps of one operation, seen from another.

Unmoved(v) ==
  /\ spc'[v] = spc[v] /\ job'[v] = job[v] /\ where'[v] = where[v] /\ source'[v] = source[v]
  /\ stage'[v] = stage[v] /\ pc'[v] = pc[v] /\ requests'[v] = requests[v]
  /\ claims'[v] = claims[v] /\ lease'[v] = lease[v]

ClaimsKept(v) == \A p, m : Claimed(v, p, m) => Claimed(v, p, m)'

\* An operation that does not move keeps its part of the invariant.
LEMMA Bystander ==
  ASSUME NEW v \in Operations, WorkInv(v), Unmoved(v), LinksInPlace' => LinksInPlace,
         ClaimsKept(v), spc[v] = "assigning" => ClaimsKept(source[v]) /\ Sourced(v)'
  PROVE  WorkInv(v)'
<1>1. Asked(v)'
  BY DEF WorkInv, Unmoved, Asked, ClaimOn
<1>2. ASSUME LinksInPlace' PROVE Protected(v)'
  <2>1. Protected(v)
    BY <1>2 DEF WorkInv
  <2>2. CASE spc[v] = "assigning"
    <3>1. Claimed(source[v], where[v], "shared_read")'
      BY <2>1, <2>2 DEF Protected, ClaimsKept, Unmoved, Claimed
    <3>. QED  BY <2>2, <3>1 DEF Protected, Unmoved
  <2>3. CASE spc[v] = "native"
    <3>1. Claimed(v, RealPath(job[v].path), ModeOf(job[v].op))'
      BY <2>1, <2>3 DEF Protected, ClaimsKept, Unmoved, Claimed
    <3>. QED  BY <2>3, <3>1 DEF Protected, Unmoved
  <2>4. CASE spc[v] \in {"listing", "streaming"}
    <3>1. Claimed(v, where[v], "shared_read")'
      BY <2>1, <2>4 DEF Protected, ClaimsKept, Unmoved, Claimed
    <3>. QED  BY <2>4, <3>1 DEF Protected, Unmoved
  <2>5. CASE spc[v] = "staged"
    <3>1. Claimed(v, where[v], "exclusive_mutation")'
      BY <2>1, <2>5 DEF Protected, ClaimsKept, Unmoved, Claimed
    <3>. QED  BY <2>5, <3>1 DEF Protected, Unmoved
  <2>6. CASE spc[v] \notin {"assigning", "native", "listing", "streaming", "staged"}
    BY <2>6 DEF Protected, Unmoved
  <2>. QED  BY <2>2, <2>3, <2>4, <2>5, <2>6
<1>3. Sourced(v)'
  BY DEF Unmoved, Sourced
<1>4. Located(v)'
  BY DEF WorkInv, Unmoved, Located, AtWork
<1>. QED  BY <1>1, <1>2, <1>3, <1>4 DEF WorkInv

\* If one operation moves, and neither is nor becomes part of an assignment, the others
\* keep their parts.
LEMMA OneMoves ==
  ASSUME ServiceInv, NEW o \in Operations, LinksInPlace' => LinksInPlace,
         \A v \in Operations \ {o} : Unmoved(v) /\ ClaimsKept(v),
         spc[o] \notin {"assigning", "assigned"}, spc'[o] \notin {"assigning", "assigned"}
  PROVE  Sourced(o)' /\ \A v \in Operations \ {o} : WorkInv(v)'
<1>1. Sourced(o)'
  BY DEF Sourced
<1>2. ASSUME NEW v \in Operations \ {o} PROVE WorkInv(v)'
  <2>1. WorkInv(v) /\ Unmoved(v) /\ ClaimsKept(v)
    BY DEF ServiceInv
  <2>2. ASSUME spc[v] = "assigning" PROVE ClaimsKept(source[v]) /\ Sourced(v)'
    <3>1. source[v] \in Operations /\ spc[source[v]] = "assigned" /\ source[v] # o
      BY <2>1, <2>2 DEF WorkInv, Sourced
    <3>2. PICK x \in Operations \ {o} : x = source[v]
      BY <3>1
    <3>3. Unmoved(x) /\ ClaimsKept(x) /\ source'[v] = x
      BY <2>1, <3>2 DEF Unmoved
    <3>4. ClaimsKept(source[v])
      BY <3>2, <3>3 DEF ClaimsKept, Claimed
    <3>5. ASSUME NEW q \in Operations, spc'[q] = "assigning", source'[q] = x PROVE q = v
      <4>1. q # o /\ spc[q] = "assigning" /\ source[q] = x
        BY <3>5 DEF Unmoved
      <4>. QED  BY <2>1, <2>2, <3>2, <4>1 DEF WorkInv, Sourced
    <3>6. spc'[x] = "assigned"
      BY <3>1, <3>2, <3>3 DEF Unmoved
    <3>. QED  BY <3>3, <3>4, <3>5, <3>6 DEF Sourced
  <2>. QED  BY <2>1, <2>2, Bystander
<1>. QED  BY <1>1, <1>2

\* A native step of one operation: the coordinator takes none.
LEMMA NativeOthers ==
  ASSUME ServiceTypes, NEW o \in Operations, UNCHANGED coordinatorVars,
         \E place : spc' = [spc EXCEPT ![o] = place],
         job' = job \/ \E x : job' = [job EXCEPT ![o] = x],
         where' = where \/ \E x : where' = [where EXCEPT ![o] = x],
         stage' = stage \/ \E x : stage' = [stage EXCEPT ![o] = x],
         UNCHANGED source
  PROVE  \A v \in Operations \ {o} : Unmoved(v) /\ ClaimsKept(v)
<1>1. ASSUME NEW v \in Operations \ {o} PROVE Unmoved(v)
  BY DEF ServiceTypes, Unmoved, coordinatorVars
<1>2. ASSUME NEW v \in Operations \ {o} PROVE ClaimsKept(v)
  BY DEF ClaimsKept, Claimed, ClaimOn, coordinatorVars
<1>. QED  BY <1>1, <1>2

-----------------------------------------------------------------------------
\* One lemma for each kind of step: what the operation that takes it keeps.

\* An operation whose native work is over needs no claim.
LEMMA DoneKeeps ==
  ASSUME ServiceInv, NEW o \in Operations, Done(o), UNCHANGED <<coordinatorVars, source>>,
         UNCHANGED stage \/ stage' = [stage EXCEPT ![o] = None], stage'[o] = None,
         spc[o] \in {"native", "listing", "streaming", "cleanup"}, LinksInPlace' => LinksInPlace,
         tree' \in [Paths -> {"absent", "directory", "file", "link"}], LinksKnown'
  PROVE  ServiceInv'
<1>0. ServiceTypes /\ NoStageLeft
  BY DEF ServiceInv
<1>1. ServiceTypes'
  <2>1. NoJob \in [op : Ops \cup {"none"}, path : Paths]
    BY ServiceAssumptions DEF NoJob
  <2>. QED  BY <1>0, <2>1 DEF ServiceTypes, Done, Places
<1>2. spc'[o] = "release" /\ where'[o] = None
  BY <1>0 DEF Done, ServiceTypes
<1>3. \A v \in Operations \ {o} : Unmoved(v) /\ ClaimsKept(v)
  BY <1>0, NativeOthers DEF Done
<1>4. Sourced(o)' /\ \A v \in Operations \ {o} : WorkInv(v)'
  BY <1>2, <1>3, OneMoves
<1>5. WorkInv(o)'
  BY <1>2, <1>4 DEF WorkInv, Asked, Protected, Located, AtWork
<1>6. NoStageLeft'
  BY <1>0, <1>3 DEF NoStageLeft, Unmoved
<1>. QED  BY <1>1, <1>4, <1>5, <1>6 DEF ServiceInv

\* What all lemmas below begin with.
LEMMA Parts ==
  ASSUME Inv
  PROVE  /\ ServiceInv /\ ServiceTypes /\ NoStageLeft /\ LinksKnown /\ Registry!IInv
         /\ pc \in [Operations -> {"idle", "precheck", "prepare", "decide", "held"}]
         /\ requests \in [Operations -> Seq(Registry!Request)]
         /\ claims \in [Operations -> Seq(Registry!Claim)]
         /\ interrupted \in [Operations -> Registry!Statuses]
         /\ lease \in [Operations -> Nat]
         /\ \A o \in Operations : WorkInv(o)
BY DEF Inv, ServiceInv, Registry!IInv, Registry!TypeOK, Registry!CallTypes

LEMMA BeginKeeps ==
  ASSUME Inv, LinksInPlace' => LinksInPlace,
         NEW o \in Operations, NEW op \in Ops, NEW p \in Paths, Begin(o, op, p)
  PROVE  ServiceInv'
<1>0. /\ ServiceInv /\ ServiceTypes /\ NoStageLeft /\ LinksKnown
      /\ pc \in [Operations -> {"idle", "precheck", "prepare", "decide", "held"}]
      /\ requests \in [Operations -> Seq(Registry!Request)]
  BY Parts
<1>1. /\ spc[o] = "idle" /\ spc' = [spc EXCEPT ![o] = "acquire"] /\ tree' = tree
      /\ job' = [job EXCEPT ![o] = [op |-> op, path |-> p]] /\ UNCHANGED <<where, stage, source>>
      /\ pc' = [pc EXCEPT ![o] = "precheck"]
      /\ requests' = [requests EXCEPT ![o] = <<[root |-> Root, path |-> p, mode |-> ModeOf(op)]>>]
      /\ UNCHANGED <<active, claims, lease>>
  BY DEF Begin, C!AcquireCall, C!registryVars
<1>2. ServiceTypes'
  BY <1>0, <1>1 DEF ServiceTypes, Places
<1>3. \A v \in Operations \ {o} : Unmoved(v) /\ ClaimsKept(v)
  <2>1. ASSUME NEW v \in Operations \ {o} PROVE Unmoved(v)
    BY <1>0, <1>1 DEF Unmoved, ServiceTypes
  <2>2. ASSUME NEW v \in Operations \ {o} PROVE ClaimsKept(v)
    BY <1>1 DEF ClaimsKept, Claimed, ClaimOn
  <2>. QED  BY <2>1, <2>2
<1>4. spc'[o] = "acquire" /\ pc'[o] = "precheck" /\ job'[o].path = p /\ job'[o].op = op
      /\ requests'[o] = <<[root |-> Root, path |-> p, mode |-> ModeOf(op)]>>
  BY <1>0, <1>1 DEF ServiceTypes
<1>5. Sourced(o)' /\ \A v \in Operations \ {o} : WorkInv(v)'
  BY <1>0, <1>1, <1>3, <1>4, OneMoves
<1>6. Asked(o)'
  BY <1>4 DEF Asked
<1>7. WorkInv(o)'
  BY <1>4, <1>5, <1>6 DEF WorkInv, Protected, Located, AtWork
<1>8. NoStageLeft' /\ LinksKnown'
  BY <1>0, <1>1 DEF NoStageLeft, LinksKnown, ServiceTypes
<1>. QED  BY <1>2, <1>5, <1>7, <1>8 DEF ServiceInv

\* Whatever the coordinator decides, only the call of o and its lease are touched.
LEMMA CoordinateOthers ==
  ASSUME Inv, NEW o \in Operations, Coordinate(o)
  PROVE  \A v \in Operations \ {o} : Unmoved(v) /\ ClaimsKept(v)
<1>0. /\ ServiceTypes
      /\ pc \in [Operations -> {"idle", "precheck", "prepare", "decide", "held"}]
      /\ requests \in [Operations -> Seq(Registry!Request)]
      /\ claims \in [Operations -> Seq(Registry!Claim)]
      /\ lease \in [Operations -> Nat]
  BY Parts
<1>1. ASSUME NEW v \in Operations \ {o}
      PROVE  /\ pc'[v] = pc[v] /\ requests'[v] = requests[v] /\ claims'[v] = claims[v]
             /\ lease'[v] = lease[v] /\ active \subseteq active'
  <2>1. CASE C!Precheck(o)
    BY <1>0, <2>1 DEF C!Precheck, C!Return, C!registryVars
  <2>2. CASE C!Prepare(o)
    BY <1>0, <2>2 DEF C!Prepare, C!Return, C!registryVars
  <2>3. CASE C!Refuse(o)
    BY <1>0, <2>3 DEF C!Refuse, C!Return, C!registryVars
  <2>4. CASE C!Grant(o)
    BY <1>0, <2>4 DEF C!Grant, C!Register, C!Return
  <2>5. ASSUME NEW status \in Interruptions, C!Interrupt(o, status)
        PROVE  /\ pc'[v] = pc[v] /\ requests'[v] = requests[v] /\ claims'[v] = claims[v]
               /\ lease'[v] = lease[v] /\ active \subseteq active'
    BY <2>5 DEF C!Interrupt, C!registryVars
  <2>. QED  BY <2>1, <2>2, <2>3, <2>4, <2>5 DEF Coordinate
<1>2. ASSUME NEW v \in Operations \ {o} PROVE Unmoved(v)
  <2>1. /\ spc'[v] = spc[v] /\ where'[v] = where[v] /\ stage'[v] = stage[v]
        /\ source'[v] = source[v]
    BY <1>0 DEF Coordinate, ServiceTypes
  <2>2. job'[v] = job[v]
    BY <1>0 DEF Coordinate, ServiceTypes
  <2>. QED  BY <1>1, <2>1, <2>2 DEF Unmoved
<1>3. ASSUME NEW v \in Operations \ {o} PROVE ClaimsKept(v)
  BY <1>1, ClaimKept DEF ClaimsKept
<1>. QED  BY <1>2, <1>3

\* A call that goes on keeps its request, and its claim says what its path means.
LEMMA CoordinateAsked ==
  ASSUME Inv, NEW o \in Operations, Coordinate(o), spc'[o] = "acquire" PROVE Asked(o)'
<1>0. /\ ServiceTypes /\ WorkInv(o) /\ spc[o] = "acquire" /\ tree' = tree
      /\ pc \in [Operations -> {"idle", "precheck", "prepare", "decide", "held"}]
      /\ requests \in [Operations -> Seq(Registry!Request)]
      /\ claims \in [Operations -> Seq(Registry!Claim)]
  BY Parts DEF Coordinate
<1>1. pc'[o] \notin {"idle", "held"} /\ job' = job
  BY <1>0 DEF Coordinate, ServiceTypes
<1>2. /\ requests[o] = <<[root |-> Root, path |-> job[o].path, mode |-> ModeOf(job[o].op)]>>
      /\ pc[o] = "decide" /\ LinksInPlace =>
           claims[o] = ClaimOn(RealPath(job[o].path), ModeOf(job[o].op))
  BY <1>0 DEF WorkInv, Asked
<1>3. requests' = requests
      /\ (pc'[o] = "decide" /\ LinksInPlace =>
            claims'[o] = ClaimOn(RealPath(job[o].path), ModeOf(job[o].op)))
  <2>1. CASE C!Precheck(o)
    BY <1>0, <1>1, <2>1 DEF C!Precheck, C!Return
  <2>2. CASE C!Prepare(o)
    <3>1. /\ \A i \in 1 .. Len(requests[o]) :
               [p \in Paths |-> ResolvePath(p)][requests[o][i].path] # Invalid
          /\ claims' = [claims EXCEPT ![o] = C!make_claims(requests[o])]
          /\ requests' = requests
      BY <1>0, <1>1, <2>2 DEF C!Prepare, C!Return
    <3>2. job[o].path \in Paths
      BY <1>0 DEF ServiceTypes
    <3>3. PICK p \in Paths : p = job[o].path
      BY <3>2
    <3>4. PICK m : m = ModeOf(job[o].op)
      OBVIOUS
    <3>5. PICK r : r = [root |-> Root, path |-> p, mode |-> m]
      OBVIOUS
    <3>6. requests[o] = <<r>> /\ r.root = Root /\ r.path = p /\ r.mode = m
      BY <1>2, <3>3, <3>4, <3>5
    <3>7. 1 \in 1 .. Len(requests[o]) /\ requests[o][1] = r /\ Len(requests[o]) = 1
      BY <3>6
    <3>8. ResolvePath(p) # Invalid
      BY <3>1, <3>6, <3>7
    <3>9. C!make_claims(requests[o]) =
            [i \in 1 .. 1 |-> [root |-> Root, components |-> ResolvePath(p), mode |-> m]]
      BY <3>6, <3>7 DEF C!make_claims
    <3>10. claims'[o] = ClaimOn(ResolvePath(p), m)
      BY <1>0, <3>1, <3>9 DEF ClaimOn
    <3>. QED  BY <3>1, <3>3, <3>4, <3>8, <3>10, ResolvedIsReal
  <2>3. CASE C!Refuse(o)
    BY <1>0, <1>1, <2>3 DEF C!Refuse, C!Return
  <2>4. CASE C!Grant(o)
    BY <1>0, <1>1, <2>4 DEF C!Grant, C!Return
  <2>5. ASSUME NEW status \in Interruptions, C!Interrupt(o, status)
        PROVE  requests' = requests /\ pc' = pc /\ claims' = claims
    BY <2>5 DEF C!Interrupt
  <2>. QED  BY <1>2, <2>1, <2>2, <2>3, <2>4, <2>5 DEF Coordinate
<1>4. LinksInPlace' => LinksInPlace
  BY <1>0 DEF LinksInPlace
<1>. QED  BY <1>1, <1>2, <1>3, <1>4 DEF Asked, ClaimOn

\* A call that is granted registers its claim.
LEMMA CoordinateGranted ==
  ASSUME Inv, NEW o \in Operations, Coordinate(o), spc'[o] = "native", LinksInPlace'
  PROVE  Claimed(o, RealPath(job[o].path), ModeOf(job[o].op))'
<1>0. /\ ServiceTypes /\ WorkInv(o) /\ spc[o] = "acquire" /\ tree' = tree
      /\ pc \in [Operations -> {"idle", "precheck", "prepare", "decide", "held"}]
      /\ lease \in [Operations -> Nat]
  BY Parts DEF Coordinate
<1>1. pc'[o] = "held" /\ job' = job
  BY <1>0 DEF Coordinate, ServiceTypes
<1>2. LinksInPlace
  BY <1>0 DEF LinksInPlace
<1>3. C!Grant(o)
  <2>1. ~C!Precheck(o) /\ ~C!Prepare(o) /\ ~C!Refuse(o)
    BY <1>0, <1>1 DEF C!Precheck, C!Prepare, C!Refuse, C!Return
  <2>2. ASSUME NEW status \in Interruptions PROVE ~C!Interrupt(o, status)
    BY <1>1 DEF C!Interrupt
  <2>. QED  BY <2>1, <2>2 DEF Coordinate
<1>4. pc[o] = "decide" /\ C!Register(o)
  BY <1>0, <1>1, <1>3 DEF C!Grant, C!Return
<1>5. claims[o] = ClaimOn(RealPath(job[o].path), ModeOf(job[o].op))
  BY <1>0, <1>2, <1>4 DEF WorkInv, Asked
<1>6. lease'[o] = next_identifier
      /\ [identifier |-> next_identifier, claims |-> claims[o]] \in active'
  BY <1>0, <1>4 DEF C!Register
<1>. QED  BY <1>1, <1>5, <1>6 DEF Claimed, ClaimOn

LEMMA CoordinateKeeps ==
  ASSUME Inv, Registry!IInv', LinksInPlace' => LinksInPlace, NEW o \in Operations, Coordinate(o)
  PROVE  ServiceInv'
<1>0. ServiceInv /\ ServiceTypes /\ NoStageLeft /\ LinksKnown /\ spc[o] = "acquire"
  BY Parts DEF Coordinate
<1>1. /\ tree' = tree /\ UNCHANGED <<where, stage, source>>
      /\ spc' \in [Operations -> Places] /\ spc'[o] \in {"idle", "acquire", "native"}
      /\ job' \in {job, [job EXCEPT ![o] = NoJob]} /\ (spc'[o] = "native" => job' = job)
  BY <1>0 DEF Coordinate, ServiceTypes, Places
<1>2. ServiceTypes'
  <2>1. NoJob \in [op : Ops \cup {"none"}, path : Paths]
    BY ServiceAssumptions DEF NoJob
  <2>. QED  BY <1>0, <1>1, <2>1 DEF ServiceTypes
<1>3. \A v \in Operations \ {o} : Unmoved(v) /\ ClaimsKept(v)
  BY CoordinateOthers
<1>4. Sourced(o)' /\ \A v \in Operations \ {o} : WorkInv(v)'
  BY <1>0, <1>1, <1>3, OneMoves
<1>5. Asked(o)'
  BY CoordinateAsked DEF Asked
<1>6. LinksInPlace' => Protected(o)'
  BY <1>1, CoordinateGranted DEF Protected
<1>7. WorkInv(o)'
  BY <1>1, <1>4, <1>5, <1>6 DEF WorkInv, Located, AtWork
<1>8. NoStageLeft' /\ LinksKnown'
  BY <1>0, <1>1, <1>3 DEF NoStageLeft, LinksKnown, Unmoved
<1>. QED  BY <1>2, <1>4, <1>7, <1>8 DEF ServiceInv

\* The work a lease was acquired for begins: the path is resolved again, to what is claimed.
LEMMA ReadBeginKeeps ==
  ASSUME Inv, LinksInPlace' => LinksInPlace, NEW o \in Operations, ReadBegin(o)
  PROVE  ServiceInv'
<1>0. ServiceInv /\ ServiceTypes /\ NoStageLeft /\ LinksKnown /\ WorkInv(o)
  BY Parts
<1>1. PICK r : r = ResolvePath(job[o].path)
  OBVIOUS
<1>2. r \in Paths /\ r # Invalid
  BY <1>1, ResolveType DEF ReadBegin
<1>3. PICK place \in {"listing", "streaming"} : spc' = [spc EXCEPT ![o] = place]
  BY DEF ReadBegin
<1>4. /\ spc[o] = "native" /\ job[o].op = "read" /\ where' = [where EXCEPT ![o] = r]
      /\ tree' = tree /\ UNCHANGED <<coordinatorVars, job, stage, source>>
  BY <1>1 DEF ReadBegin
<1>5. ServiceTypes'
  BY <1>0, <1>2, <1>3, <1>4 DEF ServiceTypes, Places
<1>6. spc'[o] = place /\ where'[o] = r
  BY <1>0, <1>3, <1>4 DEF ServiceTypes
<1>7. \A v \in Operations \ {o} : Unmoved(v) /\ ClaimsKept(v)
  BY <1>0, <1>3, <1>4, NativeOthers
<1>8. Sourced(o)' /\ \A v \in Operations \ {o} : WorkInv(v)'
  BY <1>0, <1>3, <1>4, <1>6, <1>7, OneMoves
<1>9. ASSUME LinksInPlace' PROVE Protected(o)'
  <2>1. r = RealPath(job[o].path)
    BY <1>1, <1>2, <1>9, ResolvedIsReal
  <2>2. Claimed(o, r, "shared_read")
    BY <1>0, <1>4, <1>9, <2>1 DEF WorkInv, Protected, ModeOf
  <2>3. Claimed(o, where[o], "shared_read")'
    BY <1>4, <1>6, <2>2 DEF Claimed, ClaimOn, coordinatorVars
  <2>. QED  BY <1>3, <1>6, <2>3 DEF Protected
<1>10. Asked(o)' /\ Located(o)'
  BY <1>2, <1>3, <1>6 DEF Asked, Located
<1>11. NoStageLeft' /\ LinksKnown'
  BY <1>0, <1>4, <1>7 DEF NoStageLeft, LinksKnown, Unmoved
<1>. QED  BY <1>5, <1>8, <1>9, <1>10, <1>11 DEF ServiceInv, WorkInv

LEMMA StageUploadKeeps ==
  ASSUME Inv, LinksInPlace' => LinksInPlace, NEW o \in Operations, StageUpload(o)
  PROVE  ServiceInv'
<1>0. ServiceInv /\ ServiceTypes /\ NoStageLeft /\ LinksKnown /\ WorkInv(o)
  BY Parts
<1>1. PICK r : r = ResolvePath(job[o].path)
  OBVIOUS
<1>2. r \in Paths /\ r # Invalid /\ Parent(r) \in Paths
  BY <1>1, ResolveType DEF StageUpload, IsDirectory
<1>3. /\ spc[o] = "native" /\ job[o].op = "upload" /\ where' = [where EXCEPT ![o] = r]
      /\ stage' = [stage EXCEPT ![o] = Parent(r)] /\ spc' = [spc EXCEPT ![o] = "staged"]
      /\ tree' = tree /\ UNCHANGED <<coordinatorVars, job, source>>
  BY <1>1 DEF StageUpload
<1>4. ServiceTypes'
  BY <1>0, <1>2, <1>3 DEF ServiceTypes, Places
<1>5. spc'[o] = "staged" /\ where'[o] = r
  BY <1>0, <1>3 DEF ServiceTypes
<1>6. \A v \in Operations \ {o} : Unmoved(v) /\ ClaimsKept(v)
  BY <1>0, <1>3, NativeOthers
<1>7. Sourced(o)' /\ \A v \in Operations \ {o} : WorkInv(v)'
  BY <1>0, <1>3, <1>5, <1>6, OneMoves
<1>8. ASSUME LinksInPlace' PROVE Protected(o)'
  <2>1. r = RealPath(job[o].path)
    BY <1>1, <1>2, <1>8, ResolvedIsReal
  <2>2. Claimed(o, r, "exclusive_mutation")
    BY <1>0, <1>3, <1>8, <2>1 DEF WorkInv, Protected, ModeOf
  <2>3. Claimed(o, where[o], "exclusive_mutation")'
    BY <1>3, <1>5, <2>2 DEF Claimed, ClaimOn, coordinatorVars
  <2>. QED  BY <1>5, <2>3 DEF Protected
<1>9. Asked(o)' /\ Located(o)'
  BY <1>2, <1>5 DEF Asked, Located
<1>10. NoStageLeft' /\ LinksKnown'
  BY <1>0, <1>3, <1>5, <1>6 DEF NoStageLeft, LinksKnown, Unmoved
<1>. QED  BY <1>4, <1>7, <1>8, <1>9, <1>10 DEF ServiceInv, WorkInv

\* A staged upload is published, or fails; its stage is still to be removed.
LEMMA UploadKeeps ==
  ASSUME Inv, LinksInPlace' => LinksInPlace, LinksKnown',
         tree' \in [Paths -> {"absent", "directory", "file", "link"}],
         NEW o \in Operations, PublishUpload(o) \/ UploadFails(o)
  PROVE  ServiceInv'
<1>0. ServiceInv /\ ServiceTypes /\ NoStageLeft
  BY Parts
<1>1. /\ spc[o] = "staged" /\ spc' = [spc EXCEPT ![o] = "cleanup"]
      /\ UNCHANGED <<coordinatorVars, job, where, stage, source>>
  BY DEF PublishUpload, UploadFails
<1>2. ServiceTypes'
  BY <1>0, <1>1 DEF ServiceTypes, Places
<1>3. spc'[o] = "cleanup"
  BY <1>0, <1>1 DEF ServiceTypes
<1>4. \A v \in Operations \ {o} : Unmoved(v) /\ ClaimsKept(v)
  BY <1>0, <1>1, NativeOthers
<1>5. Sourced(o)' /\ \A v \in Operations \ {o} : WorkInv(v)'
  BY <1>0, <1>1, <1>3, <1>4, OneMoves
<1>6. WorkInv(o)'
  BY <1>3, <1>5 DEF WorkInv, Asked, Protected, Located, AtWork
<1>7. NoStageLeft'
  BY <1>0, <1>1, <1>3, <1>4 DEF NoStageLeft, Unmoved
<1>. QED  BY <1>2, <1>5, <1>6, <1>7 DEF ServiceInv

\* The lease of an operation that is over is released; those of the others stay.
LEMMA ReleaseKeeps ==
  ASSUME Inv, LinksInPlace' => LinksInPlace, NEW o \in Operations, Release(o)
  PROVE  ServiceInv'
<1>0. /\ ServiceInv /\ ServiceTypes /\ NoStageLeft /\ LinksKnown /\ Registry!IInv
      /\ pc \in [Operations -> {"idle", "precheck", "prepare", "decide", "held"}]
      /\ lease \in [Operations -> Nat]
  BY Parts
<1>1. /\ spc[o] = "release" /\ spc' = [spc EXCEPT ![o] = "idle"] /\ tree' = tree
      /\ UNCHANGED <<job, where, stage, source, requests, claims>>
      /\ active' = active \ C!Released(lease[o]) /\ lease' = [lease EXCEPT ![o] = 0]
      /\ pc' = [pc EXCEPT ![o] = "idle"]
  BY DEF Release, C!Destroy, C!release
<1>2. ServiceTypes'
  BY <1>0, <1>1 DEF ServiceTypes, Places
<1>3. spc'[o] = "idle"
  BY <1>0, <1>1 DEF ServiceTypes
<1>4. \A v \in Operations \ {o} : Unmoved(v) /\ ClaimsKept(v)
  <2>1. ASSUME NEW v \in Operations \ {o} PROVE Unmoved(v)
    BY <1>0, <1>1 DEF Unmoved, ServiceTypes
  <2>2. ASSUME NEW v \in Operations \ {o}, NEW p, NEW m, Claimed(v, p, m)
        PROVE  Claimed(v, p, m)'
    <3>1. lease'[v] = lease[v]
      BY <2>1 DEF Unmoved
    <3>2. lease[o] # lease[v]
      BY <1>0, <2>2, LeaseOfClaim
    <3>. QED  BY <1>1, <2>2, <3>1, <3>2, ClaimKept
  <2>. QED  BY <2>1, <2>2 DEF ClaimsKept
<1>5. Sourced(o)' /\ \A v \in Operations \ {o} : WorkInv(v)'
  BY <1>0, <1>1, <1>3, <1>4, OneMoves
<1>6. WorkInv(o)'
  BY <1>3, <1>5 DEF WorkInv, Asked, Protected, Located, AtWork
<1>7. NoStageLeft' /\ LinksKnown'
  BY <1>0, <1>1, <1>4 DEF NoStageLeft, LinksKnown, Unmoved
<1>. QED  BY <1>2, <1>5, <1>6, <1>7 DEF ServiceInv

-----------------------------------------------------------------------------
\* One stream is assigned to another.

\* First half: the open file changes hands, its claim stays with the source.
LEMMA AssignStreamKeeps ==
  ASSUME Inv, LinksInPlace' => LinksInPlace,
         NEW o \in Operations, NEW other \in Operations, AssignStream(o, other)
  PROVE  ServiceInv'
<1>0. /\ ServiceTypes /\ NoStageLeft /\ LinksKnown
      /\ \A v \in Operations : WorkInv(v)
  BY Parts
<1>1. /\ o # other /\ spc[o] = "streaming" /\ spc[other] = "streaming" /\ tree' = tree
      /\ where' = [where EXCEPT ![o] = where[other], ![other] = None]
      /\ spc' = [spc EXCEPT ![o] = "assigning", ![other] = "assigned"]
      /\ source' = [source EXCEPT ![o] = other]
      /\ UNCHANGED <<coordinatorVars, job, stage>>
  BY DEF AssignStream
<1>2. ServiceTypes'
  BY <1>0, <1>1 DEF ServiceTypes, Places
<1>3. /\ spc'[o] = "assigning" /\ spc'[other] = "assigned" /\ source'[o] = other
      /\ where'[o] = where[other]
  BY <1>0, <1>1 DEF ServiceTypes
<1>4. ASSUME NEW v \in Operations \ {o, other} PROVE Unmoved(v)
  BY <1>0, <1>1 DEF Unmoved, ServiceTypes, coordinatorVars
<1>5. ASSUME NEW v \in Operations PROVE ClaimsKept(v)
  BY <1>1 DEF ClaimsKept, Claimed, ClaimOn, coordinatorVars
<1>6. ASSUME NEW v \in Operations, spc[v] = "assigning"
      PROVE  Sourced(v)' /\ source[v] \in Operations \ {o, other} /\ source'[v] = source[v]
  <2>1. source[v] \in Operations \ {o, other} /\ spc[source[v]] = "assigned" /\ v \notin {o, other}
    BY <1>0, <1>1, <1>6 DEF WorkInv, Sourced
  <2>2. spc'[source[v]] = "assigned" /\ source'[v] = source[v]
    BY <1>4, <2>1 DEF Unmoved
  <2>3. ASSUME NEW q \in Operations, spc'[q] = "assigning", source'[q] = source[v] PROVE q = v
    <3>1. q \notin {o, other}
      BY <1>3, <2>1, <2>3
    <3>2. spc[q] = "assigning" /\ source[q] = source[v]
      BY <1>4, <2>3, <3>1 DEF Unmoved
    <3>. QED  BY <1>0, <1>6, <3>2 DEF WorkInv, Sourced
  <2>. QED  BY <2>1, <2>2, <2>3 DEF Sourced
<1>7. ASSUME NEW v \in Operations \ {o, other} PROVE WorkInv(v)'
  <2>1. ASSUME spc[v] = "assigning" PROVE ClaimsKept(source[v]) /\ Sourced(v)'
    <3>1. PICK x \in Operations : x = source[v] /\ x = source'[v]
      BY <1>6, <2>1
    <3>2. ClaimsKept(x)
      BY <1>5
    <3>. QED  BY <1>6, <2>1, <3>1, <3>2 DEF ClaimsKept, Claimed
  <2>. QED  BY <1>0, <1>4, <1>5, <2>1, Bystander
<1>8. Sourced(o)'
  <2>1. ASSUME NEW q \in Operations, spc'[q] = "assigning", source'[q] = other PROVE q = o
    <3>1. CASE q \notin {o, other}
      <4>1. spc[q] = "assigning" /\ source[q] = other
        BY <1>4, <2>1, <3>1 DEF Unmoved
      <4>. QED  BY <1>6, <4>1
    <3>. QED  BY <1>3, <2>1, <3>1
  <2>. QED  BY <1>3, <2>1 DEF Sourced
<1>9. Located(o)' /\ Asked(o)'
  BY <1>0, <1>1, <1>3 DEF WorkInv, Located, AtWork, Asked
<1>10. ASSUME LinksInPlace' PROVE Protected(o)'
  <2>1. Claimed(other, where[other], "shared_read")
    BY <1>0, <1>1, <1>10 DEF WorkInv, Protected
  <2>2. Claimed(source[o], where[o], "shared_read")'
    BY <1>1, <1>3, <2>1 DEF Claimed, ClaimOn, coordinatorVars
  <2>. QED  BY <1>3, <2>2 DEF Protected
<1>11. WorkInv(other)'
  BY <1>3 DEF WorkInv, Asked, Protected, Sourced, Located, AtWork
<1>12. WorkInv(o)'
  BY <1>8, <1>9, <1>10 DEF WorkInv
<1>13. NoStageLeft' /\ LinksKnown'
  BY <1>0, <1>1, <1>4 DEF NoStageLeft, LinksKnown, Unmoved
<1>. QED  BY <1>2, <1>7, <1>11, <1>12, <1>13 DEF ServiceInv

\* Second half: the claim follows the file, and that of the file before is released.
LEMMA AssignLeaseKeeps ==
  ASSUME Inv, LinksInPlace' => LinksInPlace,
         NEW o \in Operations, NEW other \in Operations, AssignLease(o, other)
  PROVE  ServiceInv'
<1>0. /\ ServiceTypes /\ NoStageLeft /\ LinksKnown /\ Registry!IInv
      /\ lease \in [Operations -> Nat] /\ \A v \in Operations : WorkInv(v)
  BY Parts
<1>1. /\ spc[o] = "assigning" /\ source[o] = other /\ o # other /\ tree' = tree
      /\ spc' = [spc EXCEPT ![o] = "streaming", ![other] = "release"]
      /\ source' = [source EXCEPT ![o] = None] /\ job' = [job EXCEPT ![other] = NoJob]
      /\ UNCHANGED <<where, stage, pc, requests, claims>>
      /\ active' = active \ C!Released(lease[o])
      /\ lease' = [lease EXCEPT ![o] = lease[other], ![other] = 0]
  BY DEF AssignLease, C!MoveAssign, C!release, C!callVars
<1>2. ServiceTypes'
  <2>1. NoJob \in [op : Ops \cup {"none"}, path : Paths]
    BY ServiceAssumptions DEF NoJob
  <2>. QED  BY <1>0, <1>1, <2>1 DEF ServiceTypes, Places
<1>3. /\ spc'[o] = "streaming" /\ spc'[other] = "release" /\ lease'[o] = lease[other]
      /\ where'[o] = where[o] /\ spc[other] = "assigned"
  BY <1>0, <1>1 DEF ServiceTypes, WorkInv, Sourced
<1>4. ASSUME NEW v \in Operations \ {o, other} PROVE Unmoved(v)
  BY <1>0, <1>1 DEF Unmoved, ServiceTypes
<1>5. ASSUME NEW v \in Operations \ {o, other} PROVE ClaimsKept(v)
  <2>1. ASSUME NEW p, NEW m, Claimed(v, p, m) PROVE Claimed(v, p, m)'
    <3>1. lease'[v] = lease[v]
      BY <1>4 DEF Unmoved
    <3>2. lease[o] # lease[v]
      BY <1>0, <2>1, LeaseOfClaim
    <3>. QED  BY <1>1, <2>1, <3>1, <3>2, ClaimKept
  <2>. QED  BY <2>1 DEF ClaimsKept
<1>6. ASSUME NEW v \in Operations \ {o, other}, spc[v] = "assigning"
      PROVE  Sourced(v)' /\ source[v] \in Operations \ {o, other} /\ source'[v] = source[v]
  <2>1. source[v] \in Operations \ {o, other} /\ spc[source[v]] = "assigned"
    BY <1>0, <1>1, <1>6 DEF WorkInv, Sourced
  <2>2. spc'[source[v]] = "assigned" /\ source'[v] = source[v]
    BY <1>4, <2>1 DEF Unmoved
  <2>3. ASSUME NEW q \in Operations, spc'[q] = "assigning", source'[q] = source[v] PROVE q = v
    <3>1. q \notin {o, other}
      BY <1>3, <2>3
    <3>2. spc[q] = "assigning" /\ source[q] = source[v]
      BY <1>4, <2>3, <3>1 DEF Unmoved
    <3>. QED  BY <1>0, <1>6, <3>2 DEF WorkInv, Sourced
  <2>. QED  BY <2>1, <2>2, <2>3 DEF Sourced
<1>7. ASSUME NEW v \in Operations \ {o, other} PROVE WorkInv(v)'
  <2>1. ASSUME spc[v] = "assigning" PROVE ClaimsKept(source[v]) /\ Sourced(v)'
    <3>1. PICK x \in Operations \ {o, other} : x = source[v] /\ x = source'[v]
      BY <1>6, <2>1
    <3>2. ClaimsKept(x)
      BY <1>5
    <3>. QED  BY <1>6, <2>1, <3>1, <3>2 DEF ClaimsKept, Claimed
  <2>. QED  BY <1>0, <1>4, <1>5, <2>1, Bystander
<1>8. ASSUME LinksInPlace' PROVE Protected(o)'
  <2>1. Claimed(other, where[o], "shared_read")
    BY <1>0, <1>1, <1>8 DEF WorkInv, Protected
  <2>2. lease[o] # lease[other]
    BY <1>0, <1>1, <2>1, LeaseOfClaim
  <2>3. PICK a \in active : a.identifier = lease[other] /\ a.claims = ClaimOn(where[o], "shared_read")
    BY <2>1 DEF Claimed
  <2>4. a \in active'
    BY <1>1, <2>2, <2>3 DEF C!Released
  <2>5. Claimed(o, where[o], "shared_read")'
    BY <1>3, <2>3, <2>4 DEF Claimed, ClaimOn
  <2>. QED  BY <1>3, <2>5 DEF Protected
<1>9. WorkInv(o)'
  <2>1. where[o] \in Paths
    BY <1>0, <1>1 DEF WorkInv, Located, AtWork
  <2>. QED  BY <1>3, <1>8, <2>1 DEF WorkInv, Asked, Sourced, Located
<1>10. WorkInv(other)'
  BY <1>3 DEF WorkInv, Asked, Protected, Sourced, Located, AtWork
<1>11. NoStageLeft' /\ LinksKnown'
  BY <1>0, <1>1, <1>3, <1>4 DEF NoStageLeft, LinksKnown, Unmoved
<1>. QED  BY <1>2, <1>7, <1>9, <1>10, <1>11 DEF ServiceInv

-----------------------------------------------------------------------------
\* What is removed is what is claimed, unless it is a link.

\* What is above an entry is the entry or above its directory.
LEMMA BelowParent ==
  ASSUME NEW p \in Seq(Components), p # <<>>, NEW q \in Seq(Components)
  PROVE  Below(q, p) <=> q = p \/ Below(q, Parent(p))
<1>1. /\ Parent(p) \in Seq(Components) /\ Len(p) \in Nat \ {0} /\ Len(Parent(p)) = Len(p) - 1
      /\ \A i \in 1 .. Len(p) - 1 : Parent(p)[i] = p[i]
  BY ParentProperties
<1>2. Len(q) \in Nat
  BY LenProperties
<1>3. Below(q, p) <=> Len(q) <= Len(p) /\ \A i \in 1 .. Len(q) : q[i] = p[i]
  BY BelowEach
<1>4. Below(q, Parent(p)) <=> Len(q) <= Len(p) - 1 /\ \A i \in 1 .. Len(q) : q[i] = Parent(p)[i]
  BY <1>1, BelowEach
<1>5. ASSUME Below(q, Parent(p)) PROVE Below(q, p)
  BY <1>1, <1>2, <1>3, <1>4, <1>5
<1>6. ASSUME Below(q, p), Len(q) # Len(p) PROVE Below(q, Parent(p))
  BY <1>1, <1>2, <1>3, <1>4, <1>6
<1>7. ASSUME Below(q, p), Len(q) = Len(p) PROVE q = p
  BY <1>3, <1>7, SeqEqual
<1>8. Below(p, p)
  BY <1>1, BelowEach
<1>. QED  BY <1>5, <1>6, <1>7, <1>8

\* The rest of an entry's path is the rest of its directory's and the name.
LEMMA RestOfEntry ==
  ASSUME NEW p \in Seq(Components), p # <<>>, NEW k \in 0 .. Len(p) - 1
  PROVE  /\ SubSeq(Parent(p), k + 1, Len(p) - 1) \in Seq(Components)
         /\ SubSeq(p, k + 1, Len(p)) = SubSeq(Parent(p), k + 1, Len(p) - 1) \o <<p[Len(p)]>>
<1>1. /\ Parent(p) \in Seq(Components) /\ Len(p) \in Nat \ {0} /\ Len(Parent(p)) = Len(p) - 1
      /\ \A i \in 1 .. Len(p) - 1 : Parent(p)[i] = p[i]
      /\ p[Len(p)] \in Components
  BY ParentProperties
<1>2. PICK n \in Nat \ {0} : n = Len(p)
  BY <1>1
<1>3. k \in Nat /\ k <= n - 1
  BY <1>2
<1>4. PICK s : s = SubSeq(p, k + 1, n)
  OBVIOUS
<1>5. s \in Seq(Components) /\ Len(s) = n - k /\ \A i \in 1 .. n - k : s[i] = p[k + i]
  <2>1. \A i \in k + 1 .. n : p[i] \in Components
    BY <1>2, <1>3, ElementOfSeq
  <2>2. /\ SubSeq(p, k + 1, n) \in Seq(Components)
        /\ Len(SubSeq(p, k + 1, n)) = IF k + 1 <= n THEN n - (k + 1) + 1 ELSE 0
        /\ \A i \in 1 .. n - (k + 1) + 1 : SubSeq(p, k + 1, n)[i] = p[(k + 1) + i - 1]
    BY <1>3, <2>1, SubSeqProperties
  <2>. QED  BY <1>3, <1>4, <2>2
<1>6. PICK t : t = SubSeq(Parent(p), k + 1, n - 1)
  OBVIOUS
<1>7. t \in Seq(Components) /\ Len(t) = n - 1 - k /\ \A i \in 1 .. n - 1 - k : t[i] = p[k + i]
  <2>1. \A i \in k + 1 .. n - 1 : Parent(p)[i] \in Components
    BY <1>1, <1>2, <1>3, ElementOfSeq
  <2>2. /\ SubSeq(Parent(p), k + 1, n - 1) \in Seq(Components)
        /\ Len(SubSeq(Parent(p), k + 1, n - 1)) = IF k + 1 <= n - 1 THEN n - 1 - (k + 1) + 1 ELSE 0
        /\ \A i \in 1 .. n - 1 - (k + 1) + 1 :
             SubSeq(Parent(p), k + 1, n - 1)[i] = Parent(p)[(k + 1) + i - 1]
    BY <1>3, <2>1, SubSeqProperties
  <2>3. t \in Seq(Components) /\ Len(t) = n - 1 - k
    BY <1>3, <1>6, <2>2
  <2>4. \A i \in 1 .. n - 1 - k : t[i] = Parent(p)[k + i] /\ k + i \in 1 .. n - 1
    BY <1>3, <1>6, <2>2
  <2>. QED  BY <1>1, <1>2, <2>3, <2>4
<1>8. PICK last \in Components : last = p[n]
  BY <1>1, <1>2
<1>9. PICK u : u = t \o <<last>>
  OBVIOUS
<1>10. u \in Seq(Components) /\ Len(u) = n - k /\ \A i \in 1 .. n - k : u[i] = p[k + i]
  <2>1. <<last>> \in Seq(Components) /\ Len(<<last>>) = 1 /\ <<last>>[1] = last
    OBVIOUS
  <2>2. /\ u \in Seq(Components) /\ Len(u) = Len(t) + Len(<<last>>)
        /\ \A i \in 1 .. Len(t) + Len(<<last>>) :
             u[i] = IF i <= Len(t) THEN t[i] ELSE <<last>>[i - Len(t)]
    BY <1>7, <1>9, <2>1, ConcatProperties
  <2>3. u \in Seq(Components) /\ Len(u) = n - k
    BY <1>3, <1>7, <2>1, <2>2
  <2>4. \A i \in 1 .. n - 1 - k : u[i] = p[k + i]
    BY <1>3, <1>7, <2>1, <2>2
  <2>5. u[n - k] = p[n]
    <3>1. PICK j : j = n - k
      OBVIOUS
    <3>2. j \in 1 .. Len(t) + Len(<<last>>) /\ ~(j <= Len(t)) /\ j - Len(t) = 1
      BY <1>3, <1>7, <2>1, <3>1
    <3>3. u[j] = <<last>>[j - Len(t)]
      BY <2>2, <3>2
    <3>. QED  BY <1>8, <2>1, <3>1, <3>2, <3>3
  <2>. QED  BY <1>3, <2>3, <2>4, <2>5
<1>11. s = u
  BY <1>5, <1>10, SeqEqual
<1>. QED  BY <1>2, <1>4, <1>6, <1>7, <1>8, <1>9, <1>11

\* There is a nearest link, and only one.
LEMMA NearestLink ==
  ASSUME NEW p \in Seq(Components), LinksOn(p) # {}
  PROVE  /\ Nearest(LinksOn(p)) \in LinksOn(p)
         /\ \A r \in LinksOn(p) : Len(Nearest(LinksOn(p))) <= Len(r)
<1>1. \A q \in LinksOn(p) : q \in Seq(Components) /\ Len(q) \in Nat
  BY ServiceAssumptions, LenProperties DEF LinksOn
<1>2. PICK lengths \in SUBSET Nat : lengths = {Len(q) : q \in LinksOn(p)}
  BY <1>1
<1>3. \E m \in lengths : \A n \in lengths : m <= n
  <2>1. lengths # {}
    BY <1>2
  <2>. QED  BY <2>1, Least
<1>4. \E q \in LinksOn(p) : \A r \in LinksOn(p) : Len(q) <= Len(r)
  BY <1>2, <1>3
<1>. QED  BY <1>4 DEF Nearest

LEMMA RemovedIsReal ==
  ASSUME LinksInPlace, NEW p \in Paths, RemovalPath(p) \in Paths,
         RemovalPath(p) # Invalid, tree[RemovalPath(p)] # "link"
  PROVE  RemovalPath(p) = RealPath(p)
<1>1. PICK up : up = Parent(p)
  OBVIOUS
<1>2. PICK last : last = p[Len(p)]
  OBVIOUS
<1>3. /\ p # <<>> /\ ResolvePath(up) # Invalid
      /\ RemovalPath(p) = ResolvePath(up) \o <<last>>
  BY <1>1, <1>2 DEF RemovalPath
<1>4. /\ p \in Seq(Components) /\ up \in Seq(Components) /\ Len(p) \in Nat \ {0}
      /\ Len(up) = Len(p) - 1 /\ p = up \o <<last>> /\ last \in Components
  BY <1>1, <1>2, <1>3, ServiceAssumptions, ParentProperties
<1>5. RemovalPath(p) = RealPath(up) \o <<last>>
  BY <1>3, ResolvedIsReal
<1>6. \A q \in DOMAIN LinkTarget : q \in Paths /\ q \in Seq(Components) /\ LinkTarget[q] \in Seq(Components)
  BY ServiceAssumptions
<1>7. /\ \A q \in LinksOn(p) : q = p \/ q \in LinksOn(up)
      /\ \A q \in LinksOn(up) : q \in LinksOn(p)
  BY <1>1, <1>3, <1>4, <1>6, BelowParent DEF LinksOn
<1>8. CASE LinksOn(up) = {}
  <2>1. RemovalPath(p) = p
    BY <1>4, <1>5, <1>8 DEF RealPath
  <2>2. p \notin DOMAIN LinkTarget
    BY <2>1 DEF LinksInPlace
  <2>3. LinksOn(p) = {}
    BY <1>7, <1>8, <2>2 DEF LinksOn
  <2>. QED  BY <2>1, <2>3 DEF RealPath
<1>9. CASE LinksOn(up) # {}
  <2>1. PICK n : n = Nearest(LinksOn(up))
    OBVIOUS
  <2>2. PICK m : m = Nearest(LinksOn(p))
    OBVIOUS
  <2>3. /\ n \in LinksOn(up) /\ \A r \in LinksOn(up) : Len(n) <= Len(r)
        /\ m \in LinksOn(p) /\ \A r \in LinksOn(p) : Len(m) <= Len(r) /\ LinksOn(p) # {}
    BY <1>4, <1>7, <1>9, <2>1, <2>2, NearestLink
  <2>4. /\ n \in Seq(Components) /\ m \in Seq(Components) /\ Len(n) \in Nat /\ Len(m) \in Nat
        /\ Below(n, up) /\ Below(n, p) /\ Below(m, p) /\ LinkTarget[n] \in Seq(Components)
    BY <1>6, <1>7, <2>3, LenProperties DEF LinksOn
  <2>5. Len(n) <= Len(p) - 1 /\ Len(m) <= Len(n)
    BY <1>4, <1>7, <2>3, <2>4 DEF Below
  <2>6. m \in LinksOn(up)
    BY <1>4, <1>7, <2>3, <2>4, <2>5
  <2>7. m = n
    <3>1. Len(m) = Len(n)
      BY <2>3, <2>4, <2>5, <2>6
    <3>. QED  BY <1>4, <2>4, <3>1, SamePrefix
  <2>8. PICK k \in 0 .. Len(p) - 1 : k = Len(n)
    BY <1>4, <2>4, <2>5
  <2>9. PICK rest \in Seq(Components) : rest = SubSeq(up, k + 1, Len(p) - 1)
    BY <1>1, <1>3, <1>4, RestOfEntry
  <2>10. SubSeq(p, k + 1, Len(p)) = rest \o <<last>>
    BY <1>1, <1>2, <1>3, <1>4, <2>9, RestOfEntry
  <2>11. RealPath(up) = LinkTarget[n] \o rest
    BY <1>4, <1>9, <2>1, <2>8, <2>9 DEF RealPath
  <2>12. LinksOn(p) # {}
    BY <2>3
  <2>13. RealPath(p) = LinkTarget[n] \o (rest \o <<last>>)
    BY <2>2, <2>7, <2>8, <2>10, <2>12 DEF RealPath
  <2>14. <<last>> \in Seq(Components)
    BY <1>4
  <2>15. PICK target \in Seq(Components) : target = LinkTarget[n]
    BY <2>4
  <2>16. PICK one \in Seq(Components) : one = <<last>>
    BY <2>14
  <2>17. (target \o rest) \o one = target \o (rest \o one)
    BY SMTT(30), ConcatAssociative
  <2>. QED  BY <1>5, <2>11, <2>13, <2>15, <2>16, <2>17
<1>. QED  BY <1>8, <1>9

-----------------------------------------------------------------------------
\* The invariant holds.

LEMMA InitInv == Init => Inv
<1>. SUFFICES ASSUME Init PROVE Inv
  OBVIOUS
<1>1. Registry!Init
  <2>1. [p \in Paths |-> ResolvePath(p)] \in [Paths -> Paths \cup {Invalid}]
    BY ResolveType
  <2>. QED  BY <2>1 DEF Init, Registry!Init
<1>2. Registry!IInv
  BY <1>1, ServiceAssumptions, Registry!InitInv
<1>3. ServiceTypes
  <2>1. NoJob \in [op : Ops \cup {"none"}, path : Paths]
    BY ServiceAssumptions DEF NoJob
  <2>. QED  BY <2>1, ServiceAssumptions DEF Init, ServiceTypes, Places
<1>4. LinksKnown /\ NoStageLeft
  BY ServiceAssumptions DEF Init, LinksKnown, NoStageLeft
<1>5. \A o \in Operations : WorkInv(o)
  BY DEF Init, WorkInv, Asked, Protected, Sourced, Located, AtWork
<1>. QED  BY <1>2, <1>3, <1>4, <1>5 DEF Inv, ServiceInv

LEMMA ServiceStep == Inv /\ [Next]_vars => ServiceInv'
<1>. SUFFICES ASSUME Inv, [Next]_vars PROVE ServiceInv'
  OBVIOUS
<1>0. ServiceInv /\ ServiceTypes /\ NoStageLeft /\ LinksKnown /\ \A o \in Operations : WorkInv(o)
  BY Parts
<1>1. /\ LinksKnown' /\ (LinksInPlace' => LinksInPlace)
      /\ tree' \in [Paths -> {"absent", "directory", "file", "link"}]
  BY <1>0, LinksStep DEF WorkInv
<1>2. Registry!IInv'
  BY Parts, RegistryStep, ServiceAssumptions, Registry!NextInv
<1>3. CASE UNCHANGED vars
  <2>1. UNCHANGED <<tree, serviceVars, coordinatorVars>>
    BY <1>3 DEF vars
  <2>2. ASSUME NEW o \in Operations PROVE WorkInv(o)'
    <3>1. Unmoved(o)
      BY <2>1 DEF Unmoved, serviceVars, coordinatorVars
    <3>2. ASSUME NEW v PROVE ClaimsKept(v)
      BY <2>1 DEF ClaimsKept, Claimed, ClaimOn, coordinatorVars
    <3>3. ASSUME spc[o] = "assigning" PROVE ClaimsKept(source[o]) /\ Sourced(o)'
      <4>1. Sourced(o)'
        BY <1>0, <2>1 DEF WorkInv, Sourced, serviceVars
      <4>2. ClaimsKept(source[o])
        BY <2>1 DEF ClaimsKept, Claimed, ClaimOn, coordinatorVars, serviceVars
      <4>. QED  BY <4>1, <4>2
    <3>. QED  BY <1>0, <1>1, <3>1, <3>2, <3>3, Bystander
  <2>. QED  BY <1>0, <2>1, <2>2 DEF ServiceInv, ServiceTypes, LinksKnown, NoStageLeft, serviceVars
<1>4. ASSUME NEW o \in Operations,
             NativeFails(o) \/ ReadEnd(o) \/ CreateDirectory(o) \/ Remove(o) \/ CleanupStage(o)
      PROVE  ServiceInv'
  <2>1. /\ Done(o) /\ UNCHANGED <<coordinatorVars, source>>
        /\ spc[o] \in {"native", "listing", "streaming", "cleanup"}
        /\ UNCHANGED stage \/ stage' = [stage EXCEPT ![o] = None]
        /\ spc[o] = "cleanup" => stage' = [stage EXCEPT ![o] = None]
    BY <1>4 DEF NativeFails, ReadEnd, CreateDirectory, Remove, CleanupStage
  <2>2. stage'[o] = None
    BY <1>0, <2>1 DEF NoStageLeft, ServiceTypes
  <2>. QED  BY <1>0, <1>1, <2>1, <2>2, DoneKeeps
<1>5. ASSUME NEW o \in Operations, ReadBegin(o) \/ StageUpload(o) \/ Release(o)
      PROVE  ServiceInv'
  BY <1>1, <1>5, ReadBeginKeeps, StageUploadKeeps, ReleaseKeeps
<1>6. ASSUME NEW o \in Operations, PublishUpload(o) \/ UploadFails(o) PROVE ServiceInv'
  BY <1>1, <1>6, UploadKeeps
<1>7. ASSUME NEW o \in Operations, Coordinate(o) PROVE ServiceInv'
  BY <1>1, <1>2, <1>7, CoordinateKeeps
<1>8. ASSUME NEW o \in Operations, NEW op \in Ops, NEW p \in Paths, Begin(o, op, p)
      PROVE  ServiceInv'
  BY <1>1, <1>8, BeginKeeps
<1>9. ASSUME NEW o \in Operations, NEW other \in Operations,
             AssignStream(o, other) \/ AssignLease(o, other)
      PROVE  ServiceInv'
  BY <1>1, <1>9, AssignStreamKeeps, AssignLeaseKeeps
<1>. QED  BY <1>3, <1>4, <1>5, <1>6, <1>7, <1>8, <1>9 DEF Next

LEMMA NextInv == Inv /\ [Next]_vars => Inv'
<1>. SUFFICES ASSUME Inv, [Next]_vars PROVE Inv'
  OBVIOUS
<1>1. Registry!IInv'
  BY Parts, RegistryStep, ServiceAssumptions, Registry!NextInv
<1>. QED  BY <1>1, ServiceStep DEF Inv

\* The registry of the coordinator, the places of the operations and their claims agree.
THEOREM ServiceIsSound == Spec => []Inv
<1>. QED  BY InitInv, NextInv, PTL DEF Spec

-----------------------------------------------------------------------------
\* The operation whose lease protects the work of o.
Holder(o) == IF spc[o] = "assigning" THEN source[o] ELSE o

\* Whoever is at work has a claim on its place, of a holder nobody else has.
LEMMA WorkClaimed ==
  ASSUME Inv, LinksInPlace, NEW o \in AtWork
  PROVE  /\ where[o] \in Paths /\ Holder(o) \in Operations
         /\ \E m : Claimed(Holder(o), where[o], m)
         /\ spc[o] = "staged" => Claimed(o, where[o], "exclusive_mutation") /\ Holder(o) = o
         /\ spc[o] # "staged" => Claimed(Holder(o), where[o], "shared_read")
         /\ \A q \in Operations : spc[q] = "staged" /\ q # o => Holder(o) # q
<1>1. o \in Operations /\ WorkInv(o) /\ spc[o] \in {"listing", "streaming", "assigning", "staged"}
  BY Parts DEF AtWork
<1>2. where[o] \in Paths /\ Holder(o) \in Operations
  BY <1>1 DEF WorkInv, Located, Sourced, Holder
<1>3. spc[o] = "staged" => Claimed(o, where[o], "exclusive_mutation") /\ Holder(o) = o
  BY <1>1 DEF WorkInv, Protected, Holder
<1>4. spc[o] # "staged" => Claimed(Holder(o), where[o], "shared_read")
  BY <1>1 DEF WorkInv, Protected, Holder
<1>5. \A q \in Operations : spc[q] = "staged" /\ q # o => Holder(o) # q
  BY <1>1 DEF WorkInv, Sourced, Holder
<1>6. \E m : Claimed(Holder(o), where[o], m)
  BY <1>3, <1>4
<1>. QED  BY <1>2, <1>3, <1>4, <1>5, <1>6

LEMMA InvIsolates == Inv => WorkIsolated
<1>. SUFFICES ASSUME Inv, LinksInPlace
              PROVE  /\ \A o, q \in AtWork : o # q /\ Below(where[o], where[q]) =>
                          "staged" \notin {spc[o], spc[q]}
                     /\ \A o \in AtWork : \E a \in active : \E i \in DOMAIN a.claims :
                          Below(a.claims[i].components, where[o])
  BY DEF WorkIsolated
<1>0. Registry!IInv
  BY Parts
<1>1. ASSUME NEW o \in AtWork, NEW q \in AtWork, o # q,
             Below(where[o], where[q]) \/ Below(where[q], where[o]), spc[o] = "staged"
      PROVE  FALSE
  <2>1. o \in Operations /\ q \in Operations
    BY DEF AtWork
  <2>2. /\ where[o] \in Paths /\ Claimed(o, where[o], "exclusive_mutation")
        /\ where[q] \in Paths /\ Holder(q) \in Operations /\ Holder(q) # o
    BY <1>1, <2>1, WorkClaimed
  <2>3. PICK m : Claimed(Holder(q), where[q], m)
    BY WorkClaimed
  <2>4. PICK h \in Operations : h = Holder(q)
    BY <2>2
  <2>5. Claimed(h, where[q], m)
    BY <2>3, <2>4
  <2>. QED  BY <1>0, <1>1, <2>1, <2>2, <2>4, <2>5, Incompatible
<1>2. ASSUME NEW o \in AtWork
      PROVE  \E a \in active : \E i \in DOMAIN a.claims : Below(a.claims[i].components, where[o])
  <2>1. where[o] \in Paths /\ where[o] \in Seq(Components)
    BY WorkClaimed, ServiceAssumptions
  <2>2. PICK m : Claimed(Holder(o), where[o], m)
    BY WorkClaimed
  <2>3. PICK a \in active : a.claims = ClaimOn(where[o], m)
    BY <2>2 DEF Claimed
  <2>4. 1 \in DOMAIN a.claims /\ a.claims[1].components = where[o]
    BY <2>3 DEF ClaimOn
  <2>5. Len(where[o]) \in Nat
    BY <2>1, LenProperties
  <2>6. Below(where[o], where[o])
    BY <2>1, <2>5, BelowEach
  <2>. QED  BY <2>4, <2>6
<1>. QED  BY <1>1, <1>2

\* Work on overlapping parts of the tree, by one name or by two, is work of readers only,
\* and every open stream has a registered claim: the coordinator's claims are on the paths
\* the native calls work at, because resolution is stable while the links stay.
THEOREM WorkStaysIsolated == Spec => []WorkIsolated
<1>. QED  BY ServiceIsSound, InvIsolates, PTL

\* finalize_upload leaves no staging file behind, whichever way the operation ends.
THEOREM StagesAreRemoved == Spec => []NoStageLeft
<1>1. Inv => NoStageLeft
  BY DEF Inv, ServiceInv
<1>. QED  BY <1>1, ServiceIsSound, PTL

-----------------------------------------------------------------------------
\* A change of the tree is covered by an exclusive claim of the operation that makes it.
LEMMA ChangeClaimed ==
  ASSUME Inv, [Next]_vars, LinksInPlace, LinksInPlace', NEW p \in Paths, tree'[p] # tree[p]
  PROVE  \E w \in Operations : /\ spc[w] \in {"native", "staged"}
                               /\ Claimed(w, p, "exclusive_mutation")
<1>0. ServiceTypes /\ NoStageLeft /\ LinksKnown /\ \A o \in Operations : WorkInv(o)
  BY Parts
<1>1. ASSUME NEW w \in Operations, CreateDirectory(w)
      PROVE  spc[w] = "native" /\ Claimed(w, p, "exclusive_mutation")
  <2>1. /\ spc[w] = "native" /\ job[w].op = "mkdir" /\ ResolvePath(job[w].path) # Invalid
        /\ tree' = [tree EXCEPT ![ResolvePath(job[w].path)] = "directory"]
    BY <1>1 DEF CreateDirectory, Creatable
  <2>2. p = ResolvePath(job[w].path)
    BY <1>0, <2>1 DEF ServiceTypes
  <2>3. p = RealPath(job[w].path)
    BY <2>1, <2>2, ResolvedIsReal
  <2>. QED  BY <1>0, <2>1, <2>3 DEF WorkInv, Protected, ModeOf
<1>2. ASSUME NEW w \in Operations, Remove(w)
      PROVE  spc[w] = "native" /\ Claimed(w, p, "exclusive_mutation")
  <2>1. /\ spc[w] = "native" /\ job[w].op = "remove" /\ RemovalPath(job[w].path) \in Paths
        /\ tree' = [tree EXCEPT ![RemovalPath(job[w].path)] = "absent"]
    BY <1>2 DEF Remove, Removable
  <2>2. p = RemovalPath(job[w].path) /\ tree'[p] = "absent"
    BY <1>0, <2>1 DEF ServiceTypes
  <2>3. tree[p] # "link"
    BY <1>0, <2>2 DEF LinksKnown, LinksInPlace
  <2>4. job[w].path \in Paths /\ p # Invalid
    BY <1>0, ServiceAssumptions DEF ServiceTypes
  <2>5. p = RealPath(job[w].path)
    BY <2>1, <2>2, <2>3, <2>4, RemovedIsReal
  <2>. QED  BY <1>0, <2>1, <2>5 DEF WorkInv, Protected, ModeOf
<1>3. ASSUME NEW w \in Operations, PublishUpload(w)
      PROVE  spc[w] = "staged" /\ Claimed(w, p, "exclusive_mutation")
  <2>1. spc[w] = "staged" /\ tree' = [tree EXCEPT ![where[w]] = "file"]
    BY <1>3 DEF PublishUpload
  <2>2. p = where[w]
    BY <1>0, <2>1 DEF ServiceTypes
  <2>. QED  BY <1>0, <2>1, <2>2 DEF WorkInv, Protected
<1>4. ~UNCHANGED vars
  BY DEF vars
<1>5. ASSUME NEW o \in Operations, NEW op, NEW q PROVE ~Begin(o, op, q)
  BY DEF Begin
<1>6. ASSUME NEW o \in Operations PROVE ~Coordinate(o) /\ ~Release(o)
  BY DEF Coordinate, Release
<1>7. ASSUME NEW o \in Operations, NEW other PROVE ~AssignStream(o, other) /\ ~AssignLease(o, other)
  BY DEF AssignStream, AssignLease
<1>8. ASSUME NEW o \in Operations
      PROVE  ~(NativeFails(o) \/ ReadBegin(o) \/ ReadEnd(o) \/ StageUpload(o) \/ UploadFails(o)
               \/ CleanupStage(o))
  BY DEF NativeFails, ReadBegin, ReadEnd, StageUpload, UploadFails, CleanupStage
<1>. QED  BY <1>1, <1>2, <1>3, <1>4, <1>5, <1>6, <1>7, <1>8 DEF Next

LEMMA ReadersStep ==
  ASSUME Inv, [Next]_vars, NEW o \in Operations, spc[o] \in {"listing", "streaming"},
         LinksInPlace, LinksInPlace', NEW p \in Paths, Below(where[o], p)
  PROVE  tree'[p] = tree[p]
<1>. SUFFICES ASSUME tree'[p] # tree[p] PROVE FALSE
  OBVIOUS
<1>1. PICK w \in Operations : spc[w] \in {"native", "staged"} /\ Claimed(w, p, "exclusive_mutation")
  BY ChangeClaimed
<1>2. Registry!IInv /\ WorkInv(o)
  BY Parts
<1>3. where[o] \in Paths /\ Claimed(o, where[o], "shared_read")
  BY <1>2 DEF WorkInv, Located, AtWork, Protected
<1>. QED  BY <1>1, <1>2, <1>3, Incompatible

\* While a directory is listed or a file sent, no operation of the service changes
\* anything at or below it, under whatever name either was asked for.
THEOREM ReadersStayUndisturbed == Spec => ReadersUndisturbed
<1>1. Inv /\ [Next]_vars =>
        [\A o \in Operations : spc[o] \in {"listing", "streaming"} /\ LinksInPlace /\ LinksInPlace' =>
           \A p \in Paths : Below(where[o], p) => tree'[p] = tree[p]]_vars
  BY ReadersStep
<1>. QED  BY <1>1, ServiceIsSound, PTL DEF Spec, ReadersUndisturbed
=============================================================================
