--------------------- MODULE SessionAuthenticationProofs ---------------------
(***************************************************************************)
(* The session store and the rate limiter are correct for every number of   *)
(* workers, every policy and every length of the clock.                     *)
(***************************************************************************)
EXTENDS SessionAuthentication, SequenceTheorems, WellFoundedInduction, TLAPS

-----------------------------------------------------------------------------
\* Least elements.  What a recursive function computes is proved by the least
\* argument at which it would be wrong.

\* A set of natural numbers that is not empty has a least element.
LEMMA Least ==
  ASSUME NEW S \in SUBSET Nat, S # {}
  PROVE  \E m \in S : \A n \in S : m <= n
<1>. DEFINE R == OpToRel(<, Nat)
<1>1. IsWellFoundedOn(R, Nat)
  BY NatLessThanWellFounded
<1>2. \E m \in S : \A n \in S : ~(<<n, m>> \in R)
  <2>. HIDE DEF R
  <2>. QED  BY <1>1, WFMin
<1>3. \A m, n \in Nat : ~(<<n, m>> \in R) => m <= n
  BY DEF OpToRel
<1>. HIDE DEF R
<1>. QED  BY <1>2, <1>3

-----------------------------------------------------------------------------
\* remove_expired()

Sessions == [digest : Credentials, created : 0 .. MaxTime, last_activity : 0 .. MaxTime]

\* No digest occurs twice.
Distinct(s) == \A i, j \in 1 .. Len(s) : s[i].digest = s[j].digest => i = j

\* One step of the recursion, from the result for one entry fewer.
KeptStep(f, s, now, n) ==
  IF n = 0 THEN <<>> ELSE IF expired(s[n], now) THEN f[n - 1] ELSE Append(f[n - 1], s[n])

\* The recursive function of remove_expired() for the first m entries.
IsKept(f, s, now, m) == f = [n \in 0 .. m |-> KeptStep(f, s, now, n)]

\* There is such a function.
LEMMA KeptExists ==
  ASSUME NEW s \in Seq(Sessions), NEW now
  PROVE  \A m \in Nat : \E f : IsKept(f, s, now, m)
<1>. DEFINE Bad == {m \in Nat : ~\E f : IsKept(f, s, now, m)}
<1>1. SUFFICES ASSUME Bad # {} PROVE FALSE
  OBVIOUS
<1>2. PICK m \in Bad : \A n \in Bad : m <= n
  BY <1>1, Least
<1>3. m # 0
  <2>1. IsKept([n \in 0 .. 0 |-> <<>>], s, now, 0)
    BY DEF IsKept, KeptStep
  <2>. QED  BY <2>1
<1>4. PICK f : IsKept(f, s, now, m - 1)
  BY <1>2, <1>3
<1>. DEFINE g == [n \in 0 .. m |-> IF n = m THEN KeptStep(f, s, now, m) ELSE f[n]]
<1>5. \A n \in 0 .. m : g[n] = KeptStep(g, s, now, n)
  <2>1. \A n \in 0 .. m - 1 : f[n] = KeptStep(f, s, now, n)
    BY <1>2, <1>3, <1>4 DEF IsKept
  <2>2. \A n \in 0 .. m : n - 1 \in 0 .. m - 1 \/ n = 0
    BY <1>2
  <2>3. \A n \in 0 .. m - 1 : g[n] = f[n]
    BY <1>2
  <2>4. \A n \in 0 .. m : KeptStep(g, s, now, n) = KeptStep(f, s, now, n)
    <3>. HIDE DEF g
    <3>. QED  BY <2>2, <2>3 DEF KeptStep
  <2>. QED  BY <1>2, <2>1, <2>4
<1>6. IsKept(g, s, now, m)
  BY <1>5 DEF IsKept
<1>. QED  BY <1>2, <1>6

\* remove_expired() is the value of that function at the number of entries.
LEMMA RemoveExpiredIsKept ==
  ASSUME NEW now, entries \in Seq(Sessions)
  PROVE  \E f : IsKept(f, entries, now, Len(entries)) /\ remove_expired(now) = f[Len(entries)]
<1>. DEFINE f == CHOOSE f : IsKept(f, entries, now, Len(entries))
<1>1. IsKept(f, entries, now, Len(entries))
  BY KeptExists
<1>2. remove_expired(now) = f[Len(entries)]
  BY DEF remove_expired, IsKept, KeptStep
<1>. QED  BY <1>1, <1>2

\* r holds exactly the first n entries of s that have not expired.
Kept(r, s, n, now) ==
  /\ r \in Seq(Sessions) /\ Len(r) <= n
  /\ \A k \in 1 .. Len(r) : \E i \in 1 .. n : r[k] = s[i] /\ ~expired(s[i], now)
  /\ \A i \in 1 .. n : expired(s[i], now) \/ \E k \in 1 .. Len(r) : r[k] = s[i]

\* Another entry is kept.
LEMMA KeptAppend ==
  ASSUME NEW s \in Seq(Sessions), NEW now, NEW n \in 1 .. Len(s), NEW r,
         Kept(r, s, n - 1, now), Distinct(r), Distinct(s), ~expired(s[n], now)
  PROVE  Kept(Append(r, s[n]), s, n, now) /\ Distinct(Append(r, s[n]))
<1>1. r \in Seq(Sessions) /\ Len(r) \in Nat /\ Len(r) <= n - 1 /\ n \in Nat /\ s[n] \in Sessions
  BY DEF Kept
<1>2. PICK q : q = Append(r, s[n])
  OBVIOUS
<1>3. /\ q \in Seq(Sessions) /\ Len(q) = Len(r) + 1
      /\ \A k \in 1 .. Len(r) : q[k] = r[k]
      /\ q[Len(r) + 1] = s[n]
  BY <1>1, <1>2, AppendProperties
<1>4. \A k \in 1 .. Len(r) : \E i \in 1 .. n - 1 : r[k] = s[i] /\ ~expired(s[i], now)
  BY DEF Kept
<1>5. \A i \in 1 .. n - 1 : expired(s[i], now) \/ \E k \in 1 .. Len(r) : r[k] = s[i]
  BY DEF Kept
<1>6. \A k \in 1 .. Len(q) : \E i \in 1 .. n : q[k] = s[i] /\ ~expired(s[i], now)
  <2>. TAKE k \in 1 .. Len(q)
  <2>1. CASE k \in 1 .. Len(r)
    BY <2>1, <1>1, <1>3, <1>4
  <2>2. CASE k = Len(r) + 1
    BY <2>2, <1>1, <1>3
  <2>. QED  BY <2>1, <2>2, <1>1, <1>3
<1>7. \A i \in 1 .. n : expired(s[i], now) \/ \E k \in 1 .. Len(q) : q[k] = s[i]
  <2>. TAKE i \in 1 .. n
  <2>1. CASE i \in 1 .. n - 1
    BY <2>1, <1>1, <1>3, <1>5
  <2>2. CASE i = n
    BY <2>2, <1>1, <1>3
  <2>. QED  BY <2>1, <2>2, <1>1
<1>8. \A k \in 1 .. Len(r) : r[k].digest # s[n].digest
  BY <1>1, <1>4 DEF Distinct
<1>9. Distinct(q)
  BY <1>1, <1>3, <1>8 DEF Distinct
<1>10. Len(q) <= n
  BY <1>1, <1>3
<1>11. Kept(q, s, n, now)
  BY <1>3, <1>6, <1>7, <1>10 DEF Kept
<1>. QED  BY <1>2, <1>9, <1>11

\* Every value of the recursive function is right.
LEMMA KeptByFunction ==
  ASSUME NEW s \in Seq(Sessions), NEW now, Distinct(s),
         NEW f, IsKept(f, s, now, Len(s))
  PROVE  Kept(f[Len(s)], s, Len(s), now) /\ Distinct(f[Len(s)])
<1>. DEFINE Right(n) == Kept(f[n], s, n, now) /\ Distinct(f[n])
            Wrong == {n \in 0 .. Len(s) : ~Right(n)}
<1>1. SUFFICES ASSUME Wrong # {} PROVE FALSE
  BY LenProperties
<1>2. PICK n \in Wrong : \A m \in Wrong : n <= m
  <2>1. Wrong \in SUBSET Nat
    BY LenProperties
  <2>. QED  BY <1>1, <2>1, Least
<1>3. n \in 0 .. Len(s) /\ Len(s) \in Nat /\ ~Right(n)
  BY <1>2, LenProperties
<1>4. f[n] = KeptStep(f, s, now, n)
  BY <1>3 DEF IsKept
<1>5. CASE n = 0
  <2>1. f[n] = <<>>
    BY <1>4, <1>5 DEF KeptStep
  <2>2. f[n] \in Seq(Sessions) /\ Len(f[n]) = 0
    BY <2>1, EmptySeq
  <2>. QED  BY <1>3, <1>5, <2>2 DEF Kept, Distinct
<1>6. CASE n # 0
  <2>1. n - 1 \in 0 .. Len(s) /\ n \in 1 .. Len(s) /\ ~(n <= n - 1)
    BY <1>3, <1>6
  <2>2. Kept(f[n - 1], s, n - 1, now) /\ Distinct(f[n - 1])
    BY <1>2, <2>1
  <2>3. CASE expired(s[n], now)
    <3>1. f[n] = f[n - 1]
      BY <1>4, <1>6, <2>3 DEF KeptStep
    <3>2. Kept(f[n - 1], s, n, now)
      <4>. HIDE DEF Right
      <4>. QED  BY <2>1, <2>2, <2>3 DEF Kept
    <3>. QED  BY <1>3, <2>2, <3>1, <3>2
  <2>4. CASE ~expired(s[n], now)
    <3>1. f[n] = Append(f[n - 1], s[n])
      BY <1>4, <1>6, <2>4 DEF KeptStep
    <3>. QED  BY <1>3, <2>1, <2>2, <2>4, <3>1, KeptAppend
  <2>. QED  BY <2>3, <2>4
<1>. QED  BY <1>5, <1>6

\* remove_expired() keeps exactly the entries that have not expired.
LEMMA RemoveExpired ==
  ASSUME NEW now, entries \in Seq(Sessions), Distinct(entries)
  PROVE  Kept(remove_expired(now), entries, Len(entries), now) /\ Distinct(remove_expired(now))
BY RemoveExpiredIsKept, KeptByFunction

-----------------------------------------------------------------------------
\* Find() and LeastRecent() find what they look for.

\* The first entry with a digest.
LEMMA FindFirst ==
  ASSUME NEW s \in Seq(Sessions), NEW digest, contains(s, digest)
  PROVE  Find(s, digest) \in 1 .. Len(s) /\ s[Find(s, digest)].digest = digest
<1>. DEFINE Places == {i \in 1 .. Len(s) : s[i].digest = digest}
<1>1. DOMAIN s = 1 .. Len(s) /\ Len(s) \in Nat
  BY LenProperties
<1>2. PICK i \in Places : \A j \in Places : i <= j
  <2>1. Places # {} /\ Places \in SUBSET Nat
    BY <1>1 DEF contains, Digests
  <2>. QED  BY <2>1, Least
<1>3. i \in DOMAIN s /\ s[i].digest = digest /\ \A j \in 1 .. i - 1 : s[j].digest # digest
  BY <1>1, <1>2
<1>4. Find(s, digest) \in DOMAIN s /\ s[Find(s, digest)].digest = digest
  BY <1>3 DEF Find
<1>. QED  BY <1>1, <1>4

\* The entry to evict is as old as any.
LEMMA LeastRecentOldest ==
  ASSUME NEW s \in Seq(Sessions), Len(s) # 0
  PROVE  /\ LeastRecent(s) \in 1 .. Len(s)
         /\ \A j \in 1 .. Len(s) : s[LeastRecent(s)].last_activity <= s[j].last_activity
<1>. DEFINE Times == {s[i].last_activity : i \in 1 .. Len(s)}
<1>1. DOMAIN s = 1 .. Len(s) /\ Len(s) \in Nat /\ \A i \in 1 .. Len(s) : s[i] \in Sessions
  BY LenProperties, ElementOfSeq
<1>2. \A i \in 1 .. Len(s) : s[i].last_activity \in Nat
  BY <1>1, AuthenticationAssumptions DEF Sessions
<1>3. PICK time \in Times : \A other \in Times : time <= other
  <2>1. Times # {} /\ Times \in SUBSET Nat
    BY <1>1, <1>2
  <2>. QED  BY <2>1, Least
<1>. DEFINE Places == {i \in 1 .. Len(s) : s[i].last_activity = time}
<1>4. PICK i \in Places : \A j \in Places : i <= j
  <2>1. Places # {} /\ Places \in SUBSET Nat
    BY <1>1, <1>3
  <2>. QED  BY <2>1, Least
<1>5. i \in 1 .. Len(s) /\ s[i].last_activity = time
  BY <1>4
<1>6. \A j \in 1 .. Len(s) : time <= s[j].last_activity
  BY <1>3
<1>7. \A j \in 1 .. i - 1 : time < s[j].last_activity
  BY <1>1, <1>2, <1>4, <1>5, <1>6
<1>8. /\ i \in DOMAIN s
      /\ \A j \in DOMAIN s : s[i].last_activity <= s[j].last_activity
      /\ \A j \in 1 .. i - 1 : s[i].last_activity < s[j].last_activity
  BY <1>1, <1>5, <1>6, <1>7
<1>9. /\ LeastRecent(s) \in DOMAIN s
      /\ \A j \in DOMAIN s : s[LeastRecent(s)].last_activity <= s[j].last_activity
  BY <1>8 DEF LeastRecent
<1>. QED  BY <1>1, <1>9

\* The entries around the one removed close up.
LEMMA Removed ==
  ASSUME NEW s \in Seq(Sessions), NEW i \in 1 .. Len(s)
  PROVE  /\ RemoveAt(s, i) \in Seq(Sessions)
         /\ Len(RemoveAt(s, i)) = Len(s) - 1
         /\ \A k \in 1 .. Len(s) - 1 : RemoveAt(s, i)[k] = s[IF k < i THEN k ELSE k + 1]
<1>1. Len(s) \in Nat /\ i \in Nat /\ \A k \in 1 .. Len(s) : s[k] \in Sessions
  BY LenProperties, ElementOfSeq
<1>2. PICK a, b : a = SubSeq(s, 1, i - 1) /\ b = SubSeq(s, i + 1, Len(s))
  OBVIOUS
<1>3. /\ a \in Seq(Sessions) /\ Len(a) = i - 1
      /\ \A k \in 1 .. i - 1 : a[k] = s[k]
  <2>1. i - 1 \in Int /\ 1 \in Int /\ \A k \in 1 .. i - 1 : s[k] \in Sessions
    BY <1>1
  <2>2. /\ a \in Seq(Sessions) /\ Len(a) = IF 1 <= i - 1 THEN (i - 1) - 1 + 1 ELSE 0
        /\ \A k \in 1 .. (i - 1) - 1 + 1 : a[k] = s[1 + k - 1]
    BY <2>1, <1>2, SubSeqProperties
  <2>. QED  BY <1>1, <2>2
<1>4. /\ b \in Seq(Sessions) /\ Len(b) = Len(s) - i
      /\ \A k \in 1 .. Len(s) - i : b[k] = s[i + k]
  <2>1. i + 1 \in Int /\ Len(s) \in Int /\ \A k \in i + 1 .. Len(s) : s[k] \in Sessions
    BY <1>1
  <2>2. /\ b \in Seq(Sessions) /\ Len(b) = IF i + 1 <= Len(s) THEN Len(s) - (i + 1) + 1 ELSE 0
        /\ \A k \in 1 .. Len(s) - (i + 1) + 1 : b[k] = s[(i + 1) + k - 1]
    BY <2>1, <1>2, SubSeqProperties
  <2>. QED  BY <1>1, <2>2
<1>5. PICK r : r = a \o b
  OBVIOUS
<1>6. /\ r \in Seq(Sessions) /\ Len(r) = Len(a) + Len(b)
      /\ \A k \in 1 .. Len(a) + Len(b) : r[k] = IF k <= Len(a) THEN a[k] ELSE b[k - Len(a)]
  BY <1>3, <1>4, <1>5, ConcatProperties
<1>7. r \in Seq(Sessions) /\ Len(r) = Len(s) - 1
  BY <1>1, <1>3, <1>4, <1>6
<1>8. ASSUME NEW k \in 1 .. Len(s) - 1
      PROVE  r[k] = s[IF k < i THEN k ELSE k + 1]
  <2>1. k \in 1 .. Len(a) + Len(b)
    BY <1>1, <1>3, <1>4
  <2>2. CASE k < i
    BY <2>1, <2>2, <1>1, <1>3, <1>6
  <2>3. CASE ~(k < i)
    <3>1. k - Len(a) \in 1 .. Len(s) - i /\ i + (k - Len(a)) = k + 1 /\ ~(k <= Len(a))
      BY <2>3, <1>1, <1>3
    <3>. QED  BY <2>1, <2>3, <3>1, <1>4, <1>6
  <2>. QED  BY <2>2, <2>3
<1>. QED  BY <1>2, <1>5, <1>7, <1>8 DEF RemoveAt

\* The digest removed is gone, and the others stay distinct.
LEMMA RemovedDigest ==
  ASSUME NEW s \in Seq(Sessions), NEW i \in 1 .. Len(s), Distinct(s)
  PROVE  /\ Distinct(RemoveAt(s, i))
         /\ Digests(RemoveAt(s, i)) \subseteq Digests(s) \ {s[i].digest}
         /\ \A k \in 1 .. Len(s) : k # i => s[k].digest \in Digests(RemoveAt(s, i))
<1>1. PICK r : r = RemoveAt(s, i)
  OBVIOUS
<1>2. /\ r \in Seq(Sessions) /\ Len(r) = Len(s) - 1
      /\ \A k \in 1 .. Len(s) - 1 : r[k] = s[IF k < i THEN k ELSE k + 1]
  BY <1>1, Removed
<1>3. /\ Len(s) \in Nat /\ i \in Nat
      /\ DOMAIN s = 1 .. Len(s) /\ DOMAIN r = 1 .. Len(s) - 1
  BY <1>2, LenProperties
<1>4. \A k \in 1 .. Len(s) - 1 : \E n \in 1 .. Len(s) : n # i /\ r[k] = s[n]
  BY <1>2, <1>3
<1>5. Distinct(r)
  <2>1. SUFFICES ASSUME NEW a \in 1 .. Len(s) - 1, NEW b \in 1 .. Len(s) - 1,
                        r[a].digest = r[b].digest
                 PROVE  a = b
    BY <1>2 DEF Distinct
  <2>2. PICK m, n : m = (IF a < i THEN a ELSE a + 1) /\ n = (IF b < i THEN b ELSE b + 1)
    OBVIOUS
  <2>3. m \in 1 .. Len(s) /\ n \in 1 .. Len(s) /\ (m = n => a = b)
    BY <1>3, <2>2
  <2>4. s[m].digest = s[n].digest
    BY <1>2, <2>1, <2>2
  <2>. QED  BY <2>3, <2>4 DEF Distinct
<1>6. Digests(r) \subseteq Digests(s) \ {s[i].digest}
  <2>1. SUFFICES ASSUME NEW k \in 1 .. Len(s) - 1
                 PROVE  r[k].digest \in Digests(s) \ {s[i].digest}
    BY <1>3 DEF Digests
  <2>2. PICK n \in 1 .. Len(s) : n # i /\ r[k] = s[n]
    BY <1>4
  <2>3. s[n].digest # s[i].digest
    BY <2>2 DEF Distinct
  <2>4. s[n].digest \in Digests(s)
    BY <1>3 DEF Digests
  <2>. QED  BY <2>2, <2>3, <2>4
<1>7. ASSUME NEW k \in 1 .. Len(s), k # i
      PROVE  s[k].digest \in Digests(r)
  <2>1. CASE k < i
    <3>1. k \in 1 .. Len(s) - 1 /\ r[k] = s[k]
      BY <2>1, <1>2, <1>3
    <3>. QED  BY <3>1, <1>3 DEF Digests
  <2>2. CASE k > i
    <3>1. k - 1 \in 1 .. Len(s) - 1 /\ r[k - 1] = s[k]
      BY <2>2, <1>2, <1>3
    <3>. QED  BY <3>1, <1>3 DEF Digests
  <2>. QED  BY <2>1, <2>2, <1>3, <1>7
<1>. QED  BY <1>1, <1>5, <1>6, <1>7

-----------------------------------------------------------------------------
\* The operations of the store.

\* A store that keeps to its limit and holds no digest twice.
Sound(s) == s \in Seq(Sessions) /\ Len(s) <= MaximumSessions /\ Distinct(s)

\* remove_expired() leaves a sound store, without new digests.
LEMMA RemoveExpiredSound ==
  ASSUME Sound(entries), NEW now
  PROVE  /\ Sound(remove_expired(now))
         /\ Digests(remove_expired(now)) \subseteq Digests(entries)
<1>1. PICK r : r = remove_expired(now)
  OBVIOUS
<1>2. Kept(r, entries, Len(entries), now) /\ Distinct(r) /\ entries \in Seq(Sessions)
  BY <1>1, RemoveExpired DEF Sound
<1>3. /\ DOMAIN r = 1 .. Len(r) /\ DOMAIN entries = 1 .. Len(entries)
      /\ Len(r) \in Nat /\ Len(entries) \in Nat
  BY <1>2, LenProperties DEF Kept
<1>4. Sound(r)
  BY <1>2, <1>3, SessionStoreAssumptions DEF Sound, Kept
<1>5. Digests(r) \subseteq Digests(entries)
  <2>1. SUFFICES ASSUME NEW k \in 1 .. Len(r) PROVE r[k].digest \in Digests(entries)
    BY <1>3 DEF Digests
  <2>2. PICK i \in 1 .. Len(entries) : r[k] = entries[i]
    BY <1>2 DEF Kept
  <2>. QED  BY <1>3, <2>2 DEF Digests
<1>. QED  BY <1>1, <1>4, <1>5

\* What evict_least_recent_if_full() returns has room for one more, and what it
\* gives up is no more recent than what it keeps, in a full store.
LEMMA Evicted ==
  ASSUME NEW s, Sound(s)
  PROVE  LET e == evict_least_recent_if_full(s) IN
         /\ Sound(e) /\ Len(e) < MaximumSessions
         /\ Digests(e) \subseteq Digests(s)
         /\ \A k \in 1 .. Len(e) : \E n \in 1 .. Len(s) : e[k] = s[n]
         /\ \A n \in 1 .. Len(s) :
              \/ s[n].digest \in Digests(e)
              \/ /\ Len(e) = MaximumSessions - 1
                 /\ \A k \in 1 .. Len(e) : s[n].last_activity <= e[k].last_activity
<1>1. PICK e : e = evict_least_recent_if_full(s)
  OBVIOUS
<1>2. /\ s \in Seq(Sessions) /\ DOMAIN s = 1 .. Len(s) /\ Len(s) \in Nat
      /\ Len(s) <= MaximumSessions /\ Distinct(s)
  BY LenProperties DEF Sound
<1>3. CASE Len(s) # MaximumSessions
  <2>1. e = s
    BY <1>1, <1>3 DEF evict_least_recent_if_full
  <2>2. Len(s) < MaximumSessions
    <3>1. \A n, m \in Nat : n <= m /\ n # m => n < m
      OBVIOUS
    <3>. QED  BY <1>2, <1>3, <3>1, SessionStoreAssumptions
  <2>3. \A n \in 1 .. Len(s) : s[n].digest \in Digests(s)
    BY <1>2 DEF Digests
  <2>. QED  BY <1>1, <2>1, <2>2, <2>3
<1>4. CASE Len(s) = MaximumSessions
  <2>1. PICK i : i = LeastRecent(s)
    OBVIOUS
  <2>2. Len(s) # 0
    BY <1>4, SessionStoreAssumptions
  <2>3. i \in 1 .. Len(s) /\ \A j \in 1 .. Len(s) : s[i].last_activity <= s[j].last_activity
    BY <1>2, <2>1, <2>2, LeastRecentOldest
  <2>4. e = RemoveAt(s, i)
    BY <1>1, <1>4, <2>1 DEF evict_least_recent_if_full
  <2>5. /\ e \in Seq(Sessions) /\ Len(e) = Len(s) - 1
        /\ \A k \in 1 .. Len(s) - 1 : e[k] = s[IF k < i THEN k ELSE k + 1]
    BY <1>2, <2>3, <2>4, Removed
  <2>6. /\ Distinct(e) /\ Digests(e) \subseteq Digests(s) \ {s[i].digest}
        /\ \A k \in 1 .. Len(s) : k # i => s[k].digest \in Digests(e)
    BY <1>2, <2>3, <2>4, RemovedDigest
  <2>7. \A k \in 1 .. Len(e) : \E n \in 1 .. Len(s) : e[k] = s[n]
    BY <1>2, <2>3, <2>5
  <2>8. \A k \in 1 .. Len(e) : s[i].last_activity <= e[k].last_activity
    BY <2>3, <2>7
  <2>9. Sound(e) /\ Len(e) < MaximumSessions /\ Len(e) = MaximumSessions - 1
    BY <1>2, <1>4, <2>5, <2>6, SessionStoreAssumptions DEF Sound
  <2>10. \A n \in 1 .. Len(s) :
           \/ s[n].digest \in Digests(e)
           \/ /\ Len(e) = MaximumSessions - 1
              /\ \A k \in 1 .. Len(e) : s[n].last_activity <= e[k].last_activity
    BY <2>6, <2>8, <2>9
  <2>. QED  BY <1>1, <2>6, <2>7, <2>9, <2>10
<1>. QED  BY <1>3, <1>4

\* What is lost of a store when now is the time and e replaces it: expired entries, and
\* a live one only if e is full of live ones that were active no earlier.
LosesLeast(e, now) ==
  \A i \in DOMAIN entries :
    \/ expired(entries[i], now)
    \/ entries[i].digest \in Digests(e)
    \/ /\ Len(e) = MaximumSessions
       /\ \A j \in 1 .. MaximumSessions - 1 :
            /\ ~expired(e[j], now)
            /\ entries[i].last_activity <= e[j].last_activity

\* create_session() with a new digest.
LEMMA InsertedSound ==
  ASSUME Sound(entries), NEW digest \in Credentials, NEW now \in 0 .. MaxTime,
         ~Collides(digest, now)
  PROVE  /\ Sound(Inserted(digest, now))
         /\ Digests(Inserted(digest, now)) \subseteq Digests(entries) \cup {digest}
         /\ LosesLeast(Inserted(digest, now), now)
<1>1. PICK r : r = remove_expired(now)
  OBVIOUS
<1>2. PICK e : e = evict_least_recent_if_full(r)
  OBVIOUS
<1>3. PICK new : new = Append(e, Entry(digest, now))
  OBVIOUS
<1>4. Sound(r) /\ Digests(r) \subseteq Digests(entries) /\ digest \notin Digests(r)
  BY <1>1, RemoveExpiredSound DEF Collides, contains
<1>5. /\ Sound(e) /\ Len(e) < MaximumSessions
      /\ Digests(e) \subseteq Digests(r)
      /\ \A k \in 1 .. Len(e) : \E n \in 1 .. Len(r) : e[k] = r[n]
      /\ \A n \in 1 .. Len(r) :
           \/ r[n].digest \in Digests(e)
           \/ /\ Len(e) = MaximumSessions - 1
              /\ \A k \in 1 .. Len(e) : r[n].last_activity <= e[k].last_activity
  BY <1>2, <1>4, Evicted
<1>6. Entry(digest, now) \in Sessions /\ Entry(digest, now).digest = digest
  BY DEF Entry, Sessions
<1>7. e \in Seq(Sessions) /\ Distinct(e) /\ Len(e) \in Nat /\ DOMAIN e = 1 .. Len(e)
  BY <1>5, LenProperties DEF Sound
<1>8. /\ new \in Seq(Sessions) /\ Len(new) = Len(e) + 1
      /\ \A k \in 1 .. Len(e) : new[k] = e[k]
      /\ new[Len(e) + 1] = Entry(digest, now)
  BY <1>3, <1>6, <1>7, AppendProperties
<1>9. DOMAIN new = 1 .. Len(e) + 1
  BY <1>8, LenProperties
<1>10. \A k \in 1 .. Len(e) : e[k].digest \in Digests(e) /\ e[k].digest # digest
  BY <1>4, <1>5, <1>7 DEF Digests
<1>11. Distinct(new)
  BY <1>6, <1>7, <1>8, <1>10 DEF Distinct
<1>12. Sound(new)
  BY <1>5, <1>7, <1>8, <1>11, SessionStoreAssumptions DEF Sound
<1>13. Digests(new) \subseteq Digests(e) \cup {digest}
  BY <1>6, <1>7, <1>8, <1>9, <1>10 DEF Digests
<1>14. Digests(e) \subseteq Digests(new)
  BY <1>7, <1>8, <1>9 DEF Digests
<1>15. LosesLeast(new, now)
  <2>1. Kept(r, entries, Len(entries), now) /\ DOMAIN entries = 1 .. Len(entries)
    BY <1>1, RemoveExpired, LenProperties DEF Sound
  <2>2. \A k \in 1 .. Len(r) : ~expired(r[k], now)
    BY <2>1 DEF Kept
  <2>3. \A k \in 1 .. Len(e) : ~expired(new[k], now)
    BY <2>2, <1>5, <1>8
  <2>4. ASSUME NEW i \in DOMAIN entries, ~expired(entries[i], now),
               entries[i].digest \notin Digests(new)
        PROVE  /\ Len(new) = MaximumSessions
               /\ \A j \in 1 .. MaximumSessions - 1 :
                    /\ ~expired(new[j], now)
                    /\ entries[i].last_activity <= new[j].last_activity
    <3>1. PICK n \in 1 .. Len(r) : r[n] = entries[i]
      BY <2>1, <2>4 DEF Kept
    <3>2. r[n].digest \notin Digests(e)
      BY <3>1, <2>4, <1>14
    <3>3. /\ Len(e) = MaximumSessions - 1
          /\ \A k \in 1 .. Len(e) : r[n].last_activity <= e[k].last_activity
      BY <3>2, <1>5
    <3>4. Len(new) = MaximumSessions
      BY <3>3, <1>8, SessionStoreAssumptions
    <3>. QED  BY <3>1, <3>3, <3>4, <2>3, <1>8
  <2>. QED  BY <2>4 DEF LosesLeast
<1>. QED  BY <1>1, <1>2, <1>3, <1>4, <1>5, <1>12, <1>13, <1>15 DEF Inserted

\* create_session() with a digest that is taken loses no live entry.
LEMMA RemoveExpiredLoses ==
  ASSUME Sound(entries), NEW now
  PROVE  LosesLeast(remove_expired(now), now)
<1>1. PICK r : r = remove_expired(now)
  OBVIOUS
<1>2. Kept(r, entries, Len(entries), now) /\ DOMAIN entries = 1 .. Len(entries)
  BY <1>1, RemoveExpired, LenProperties DEF Sound
<1>3. DOMAIN r = 1 .. Len(r)
  BY <1>2, LenProperties DEF Kept
<1>. QED  BY <1>1, <1>2, <1>3 DEF Kept, LosesLeast, Digests

\* authenticate()
LEMMA TouchedSound ==
  ASSUME Sound(entries), NEW digest, NEW now \in 0 .. MaxTime
  PROVE  Sound(Touched(digest, now)) /\ Digests(Touched(digest, now)) \subseteq Digests(entries)
<1>1. PICK r : r = remove_expired(now)
  OBVIOUS
<1>2. Sound(r) /\ Digests(r) \subseteq Digests(entries)
  BY <1>1, RemoveExpiredSound
<1>3. CASE ~contains(r, digest)
  BY <1>1, <1>2, <1>3 DEF Touched
<1>4. CASE contains(r, digest)
  <2>1. PICK i : i = Find(r, digest)
    OBVIOUS
  <2>2. /\ r \in Seq(Sessions) /\ Len(r) \in Nat /\ DOMAIN r = 1 .. Len(r)
        /\ Len(r) <= MaximumSessions /\ Distinct(r)
    BY <1>2, LenProperties DEF Sound
  <2>3. i \in 1 .. Len(r) /\ r[i] \in Sessions
    BY <1>4, <2>1, <2>2, FindFirst, ElementOfSeq
  <2>4. PICK entry : entry = [r[i] EXCEPT !.last_activity = now]
    OBVIOUS
  <2>5. entry \in Sessions /\ entry.digest = r[i].digest
    BY <2>3, <2>4 DEF Sessions
  <2>6. PICK new : new = [r EXCEPT ![i] = entry]
    OBVIOUS
  <2>7. /\ new \in Seq(Sessions) /\ Len(new) = Len(r)
        /\ \A j \in 1 .. Len(r) : new[j] = IF j = i THEN entry ELSE r[j]
    BY <2>2, <2>3, <2>5, <2>6, ExceptSeq
  <2>8. \A j \in 1 .. Len(r) : new[j].digest = r[j].digest
    BY <2>5, <2>7
  <2>9. DOMAIN new = 1 .. Len(r)
    BY <2>7, LenProperties
  <2>10. Sound(new)
    BY <2>2, <2>7, <2>8 DEF Sound, Distinct
  <2>11. Digests(new) \subseteq Digests(r)
    BY <2>2, <2>8, <2>9 DEF Digests
  <2>12. Touched(digest, now) = new
    BY <1>1, <1>4, <2>1, <2>4, <2>6 DEF Touched
  <2>. QED  BY <1>2, <2>10, <2>11, <2>12
<1>. QED  BY <1>3, <1>4

\* invalidate()
LEMMA ErasedSound ==
  ASSUME Sound(entries), NEW digest, NEW now
  PROVE  /\ Sound(Erased(digest, now))
         /\ Digests(Erased(digest, now)) \subseteq Digests(entries) \ {digest}
<1>1. PICK r : r = remove_expired(now)
  OBVIOUS
<1>2. Sound(r) /\ Digests(r) \subseteq Digests(entries)
  BY <1>1, RemoveExpiredSound
<1>3. CASE ~contains(r, digest)
  BY <1>1, <1>2, <1>3 DEF Erased, contains
<1>4. CASE contains(r, digest)
  <2>1. PICK i : i = Find(r, digest)
    OBVIOUS
  <2>2. /\ r \in Seq(Sessions) /\ Len(r) \in Nat
        /\ Len(r) <= MaximumSessions /\ Distinct(r)
    BY <1>2, LenProperties DEF Sound
  <2>3. i \in 1 .. Len(r) /\ r[i].digest = digest
    BY <1>4, <2>1, <2>2, FindFirst
  <2>4. Erased(digest, now) = RemoveAt(r, i)
    BY <1>1, <1>4, <2>1 DEF Erased
  <2>5. RemoveAt(r, i) \in Seq(Sessions) /\ Len(RemoveAt(r, i)) = Len(r) - 1
    BY <2>2, <2>3, Removed
  <2>6. Distinct(RemoveAt(r, i)) /\ Digests(RemoveAt(r, i)) \subseteq Digests(r) \ {digest}
    BY <2>2, <2>3, RemovedDigest
  <2>7. Len(r) - 1 <= MaximumSessions
    BY <2>2, SessionStoreAssumptions
  <2>8. Sound(RemoveAt(r, i))
    BY <2>5, <2>6, <2>7 DEF Sound
  <2>. QED  BY <1>2, <2>4, <2>6, <2>8
<1>. QED  BY <1>3, <1>4

-----------------------------------------------------------------------------
\* The inductive invariant.

Places == {"idle", "verify", "replace", "replacing", "generate", "create",
           "logout", "ending", "protected", "checking"}

Calls == [cookie : Cookies, digest : Credentials \cup {None},
          now : 0 .. MaxTime, attempt : 0 .. GenerationAttempts]

CallTypes == pc \in [Threads -> Places] /\ call \in [Threads -> Calls]

\* What a call carries at each place.
CallFits(place, record) ==
  /\ place \notin {"generate", "create"} => record.attempt = 0
  /\ place = "generate" => record.attempt < GenerationAttempts
  /\ place = "create" => record.digest \in Credentials
  /\ place \in {"replace", "replacing", "logout", "ending", "protected", "checking"} =>
       record.cookie # None

CallInv == \A t \in Threads : CallFits(pc[t], call[t])

\* Whoever verifies a password holds the mutex, and was let through by the limiter.
MutexInv ==
  /\ \A t \in Threads : pc[t] = "verify" => mutex = t
  /\ mutex # None => consecutive_failures < MaximumFailures

\* The end of a cooldown that began at this time.
EndOf(time) == IF Cooldown > MaxTime - time THEN MaxTime ELSE time + Cooldown

\* The failures are in the order of time, and the last consecutive_failures of them are
\* those the limiter counts.  The one before these began a cooldown, which was over
\* before the first of them.
FailuresInv(f, c) ==
  /\ \A i \in 1 .. Len(f) : f[i] <= clock
  /\ \A i, j \in 1 .. Len(f) : i <= j => f[i] <= f[j]
  /\ c <= Len(f)
  /\ c < Len(f) =>
       /\ EndOf(f[Len(f) - c]) <= clock
       /\ \A i \in Len(f) - c + 1 .. Len(f) : EndOf(f[Len(f) - c]) <= f[i]

\* Whoever is blocked is blocked by the last failure.
BlockedInv ==
  consecutive_failures = MaximumFailures => blocked_until = EndOf(failures[Len(failures)])

LimiterInv == FailuresInv(failures, consecutive_failures) /\ BlockedInv /\ FailuresBounded

AuthenticationInv == AuthenticationTypeOK /\ MutexInv /\ LimiterInv

StoreInv == Sound(entries) /\ ended \subseteq Credentials /\ EndedIsGone

IInv == CallTypes /\ CallInv /\ AuthenticationInv /\ StoreInv

-----------------------------------------------------------------------------
\* The calls.

\* What a step makes of the call of its thread.
Moves(t, place, record) ==
  /\ place \in Places /\ record \in Calls /\ CallFits(place, record)
  /\ pc' = [pc EXCEPT ![t] = place]
  /\ call' = [call EXCEPT ![t] = record]

\* The call of one thread changes to what fits its new place.
LEMMA MovesKeeps ==
  ASSUME NEW t \in Threads, NEW place, NEW record, Moves(t, place, record),
         CallTypes, CallInv
  PROVE  CallTypes' /\ CallInv'
<1>1. CallTypes'
  BY DEF CallTypes, Moves
<1>2. ASSUME NEW u \in Threads PROVE CallFits(pc'[u], call'[u])
  <2>1. CASE u = t
    BY <2>1 DEF Moves, CallTypes
  <2>2. CASE u # t
    <3>1. pc'[u] = pc[u] /\ call'[u] = call[u]
      BY <2>2 DEF Moves, CallTypes
    <3>. QED  BY <3>1 DEF CallInv
  <2>. QED  BY <2>1, <2>2
<1>. QED  BY <1>1, <1>2 DEF CallInv, CallFits

\* A call that returns leaves nothing behind.
LEMMA ReturnMoves ==
  ASSUME NEW t \in Threads, Return(t)
  PROVE  Moves(t, "idle", NoCall)
<1>1. NoCall \in Calls
  BY AuthenticationAssumptions, SessionAuthenticationAssumptions DEF NoCall, Calls, Cookies
<1>2. CallFits("idle", NoCall)
  BY DEF CallFits, NoCall
<1>. QED  BY <1>1, <1>2 DEF Return, Moves, Places

\* A call that goes on with what it has.
LEMMA GotoMoves ==
  ASSUME NEW t \in Threads, NEW place \in Places, Goto(t, place), UNCHANGED call,
         CallTypes, CallFits(place, call[t])
  PROVE  Moves(t, place, call[t])
<1>1. call[t] \in Calls /\ call' = [call EXCEPT ![t] = call[t]]
  BY DEF CallTypes
<1>. QED  BY <1>1 DEF Goto, Moves

\* Every step of a thread moves its call to a place it fits.
LEMMA StepMoves ==
  ASSUME NEW t \in Threads, Step(t), CallTypes, CallInv, clock \in 0 .. MaxTime
  PROVE  \E place, record : Moves(t, place, record)
<1>1. /\ pc[t] \in Places /\ call[t] \in Calls /\ CallFits(pc[t], call[t])
      /\ call \in [Threads -> Calls]
  BY DEF CallTypes, CallInv
<1>2. CASE LoginBegin(t)
  <2>1. PICK cookie \in Cookies : call' = [call EXCEPT ![t].cookie = cookie]
    BY <1>2 DEF LoginBegin
  <2>2. PICK record : record = [call[t] EXCEPT !.cookie = cookie]
    OBVIOUS
  <2>3. record \in Calls /\ record.attempt = call[t].attempt
    BY <1>1, <2>2 DEF Calls
  <2>4. CallFits("verify", record)
    BY <1>1, <1>2, <2>3 DEF CallFits, LoginBegin
  <2>. QED  BY <1>2, <2>1, <2>2, <2>3, <2>4 DEF LoginBegin, Goto, Moves, Places
<1>3. CASE LoginUnavailable(t)
  BY <1>3, ReturnMoves DEF LoginUnavailable
<1>4. CASE LoginWrong(t)
  BY <1>4, ReturnMoves DEF LoginWrong
<1>5. CASE LoginRight(t)
  <2>1. CASE Return(t)
    BY <2>1, ReturnMoves
  <2>2. CASE Goto(t, IF call[t].cookie = None THEN "generate" ELSE "replace") /\ UNCHANGED call
    <3>1. PICK place : place = IF call[t].cookie = None THEN "generate" ELSE "replace"
      OBVIOUS
    <3>2. place \in Places /\ call[t].attempt = 0
      BY <1>1, <1>5, <3>1 DEF Places, CallFits, LoginRight
    <3>3. CallFits(place, call[t])
      BY <3>1, <3>2, SessionAuthenticationAssumptions DEF CallFits
    <3>. QED  BY <2>2, <3>1, <3>2, <3>3, GotoMoves
  <2>. QED  BY <1>5, <2>1, <2>2 DEF LoginRight
<1>6. CASE Generate(t)
  <2>1. CASE Return(t)
    BY <2>1, ReturnMoves
  <2>2. ASSUME Goto(t, "create"), NEW digest \in Credentials,
               call' = [call EXCEPT ![t].digest = digest, ![t].now = clock, ![t].attempt = @ + 1]
        PROVE  \E place, record : Moves(t, place, record)
    <3>1. PICK record : record = [call[t] EXCEPT !.digest = digest, !.now = clock, !.attempt = @ + 1]
      OBVIOUS
    <3>2. call[t].attempt < GenerationAttempts
      BY <1>1, <1>6 DEF CallFits, Generate
    <3>3. record \in Calls /\ record.digest = digest
      <4>1. call[t].attempt + 1 \in 0 .. GenerationAttempts
        BY <1>1, <3>2, SessionAuthenticationAssumptions DEF Calls
      <4>2. record = [cookie |-> call[t].cookie, digest |-> digest, now |-> clock,
                      attempt |-> call[t].attempt + 1]
        BY <1>1, <3>1 DEF Calls
      <4>. QED  BY <1>1, <4>1, <4>2 DEF Calls
    <3>4. call' = [call EXCEPT ![t] = record]
      BY <1>1, <2>2, <3>1
    <3>5. CallFits("create", record)
      BY <3>3 DEF CallFits
    <3>. QED  BY <2>2, <3>3, <3>4, <3>5 DEF Goto, Moves, Places
  <2>. QED  BY <1>6, <2>1, <2>2 DEF Generate
<1>7. CASE CreateSession(t)
  <2>1. CASE Return(t)
    BY <2>1, ReturnMoves
  <2>2. CASE call[t].attempt < GenerationAttempts /\ Goto(t, "generate") /\ UNCHANGED call
    <3>1. "generate" \in Places /\ CallFits("generate", call[t])
      BY <2>2 DEF Places, CallFits
    <3>. QED  BY <2>2, <3>1, GotoMoves
  <2>. QED  BY <1>7, <2>1, <2>2 DEF CreateSession
<1>8. CASE RequestBegin(t)
  <2>1. PICK cookie \in Cookies \ {None} : call' = [call EXCEPT ![t].cookie = cookie]
    BY <1>8 DEF RequestBegin
  <2>2. PICK record : record = [call[t] EXCEPT !.cookie = cookie]
    OBVIOUS
  <2>3. record \in Calls /\ record.attempt = call[t].attempt /\ record.cookie = cookie
    BY <1>1, <2>2 DEF Calls
  <2>4. CallFits("logout", record) /\ CallFits("protected", record)
    BY <1>1, <1>8, <2>1, <2>3 DEF CallFits, RequestBegin
  <2>. QED  BY <1>8, <2>1, <2>2, <2>3, <2>4 DEF RequestBegin, Goto, Moves, Places
<1>9. CASE ReadClock(t)
  <2>1. CASE Return(t)
    BY <2>1, ReturnMoves
  <2>2. CASE Goto(t, After[pc[t]]) /\ call' = [call EXCEPT ![t].now = clock]
    <3>1. PICK record : record = [call[t] EXCEPT !.now = clock]
      OBVIOUS
    <3>2. record \in Calls /\ record.attempt = call[t].attempt /\ record.cookie = call[t].cookie
      BY <1>1, <3>1 DEF Calls
    <3>3. pc[t] \in {"replace", "logout", "protected"}
      BY <1>9 DEF ReadClock, After
    <3>4. After[pc[t]] \in {"replacing", "ending", "checking"}
      BY <3>3 DEF After
    <3>5. call[t].attempt = 0 /\ call[t].cookie # None
      BY <1>1, <3>3 DEF CallFits
    <3>6. CallFits(After[pc[t]], record)
      BY <3>2, <3>4, <3>5 DEF CallFits
    <3>7. call' = [call EXCEPT ![t] = record]
      BY <1>1, <2>2, <3>1
    <3>. QED  BY <2>2, <3>2, <3>4, <3>6, <3>7 DEF Goto, Moves, Places
  <2>. QED  BY <1>9, <2>1, <2>2 DEF ReadClock
<1>10. CASE Invalidate(t)
  <2>1. CASE Return(t)
    BY <2>1, ReturnMoves
  <2>2. CASE pc[t] = "replacing" /\ Goto(t, "generate") /\ UNCHANGED call
    <3>1. call[t].attempt = 0
      BY <1>1, <2>2 DEF CallFits
    <3>2. "generate" \in Places /\ CallFits("generate", call[t])
      BY <3>1, SessionAuthenticationAssumptions DEF Places, CallFits
    <3>. QED  BY <2>2, <3>2, GotoMoves
  <2>. QED  BY <1>10, <2>1, <2>2 DEF Invalidate
<1>11. CASE InvalidateFails(t)
  BY <1>11, ReturnMoves DEF InvalidateFails
<1>12. CASE Authenticate(t)
  BY <1>12, ReturnMoves DEF Authenticate
<1>. QED
  BY <1>2, <1>3, <1>4, <1>5, <1>6, <1>7, <1>8, <1>9, <1>10, <1>11, <1>12 DEF Step

-----------------------------------------------------------------------------
\* The limiter.

Times == 0 .. MaxTime

\* A cooldown ends within the clock, and no earlier than its length says unless there
\* is not enough time left.
LEMMA EndOfType ==
  ASSUME NEW time \in Times
  PROVE  EndOf(time) \in Times /\ (EndOf(time) = MaxTime \/ EndOf(time) = time + Cooldown)
BY AuthenticationAssumptions DEF EndOf, Times

\* Time goes on.
LEMMA TickFailures ==
  ASSUME NEW f \in Seq(Times), NEW c \in Nat, clock \in Times,
         clock' = clock + 1, FailuresInv(f, c)
  PROVE  FailuresInv(f, c)'
<1>1. \A i \in 1 .. Len(f) : f[i] \in Times
  BY ElementOfSeq
<1>2. Len(f) \in Nat
  BY LenProperties
<1>3. \A i \in 1 .. Len(f) : f[i] <= clock'
  BY <1>1, AuthenticationAssumptions DEF FailuresInv, Times
<1>4. c < Len(f) => EndOf(f[Len(f) - c]) <= clock'
  <2>1. SUFFICES ASSUME c < Len(f) PROVE EndOf(f[Len(f) - c]) <= clock'
    OBVIOUS
  <2>2. f[Len(f) - c] \in Times
    BY <1>1, <1>2, <2>1
  <2>3. EndOf(f[Len(f) - c]) \in Times
    BY <2>2, EndOfType
  <2>4. EndOf(f[Len(f) - c]) <= clock
    BY <2>1 DEF FailuresInv
  <2>. QED  BY <2>3, <2>4, AuthenticationAssumptions DEF Times
<1>. QED  BY <1>3, <1>4 DEF FailuresInv, EndOf

\* A failure now is one more in a row.
LEMMA AppendFailure ==
  ASSUME NEW f \in Seq(Times), NEW c \in Nat, clock \in Times, FailuresInv(f, c)
  PROVE  FailuresInv(Append(f, clock), c + 1)
<1>1. PICK g : g = Append(f, clock)
  OBVIOUS
<1>2. /\ g \in Seq(Times) /\ Len(g) = Len(f) + 1
      /\ \A i \in 1 .. Len(f) : g[i] = f[i]
      /\ g[Len(f) + 1] = clock
  BY <1>1, AppendProperties
<1>3. Len(f) \in Nat /\ (\A i \in 1 .. Len(f) : f[i] \in Times) /\ \A i \in 1 .. Len(g) : g[i] \in Times
  BY <1>2, LenProperties, ElementOfSeq
<1>4. \A i \in 1 .. Len(f) + 1 : g[i] <= clock
  <2>. TAKE i \in 1 .. Len(f) + 1
  <2>1. CASE i = Len(f) + 1
    BY <2>1, <1>2, AuthenticationAssumptions DEF Times
  <2>2. CASE i \in 1 .. Len(f)
    BY <2>2, <1>2 DEF FailuresInv
  <2>. QED  BY <2>1, <2>2, <1>3
<1>5. \A i, j \in 1 .. Len(f) + 1 : i <= j => g[i] <= g[j]
  <2>. TAKE i, j \in 1 .. Len(f) + 1
  <2>1. CASE j = Len(f) + 1
    BY <2>1, <1>2, <1>4
  <2>2. CASE j \in 1 .. Len(f) /\ i <= j
    <3>1. i \in 1 .. Len(f)
      BY <2>2, <1>3
    <3>. QED  BY <3>1, <2>2, <1>2 DEF FailuresInv
  <2>. QED  BY <2>1, <2>2, <1>3
<1>6. c + 1 <= Len(f) + 1
  BY <1>3 DEF FailuresInv
<1>7. ASSUME c + 1 < Len(f) + 1
      PROVE  /\ EndOf(g[(Len(f) + 1) - (c + 1)]) <= clock
             /\ \A i \in (Len(f) + 1) - (c + 1) + 1 .. Len(f) + 1 :
                  EndOf(g[(Len(f) + 1) - (c + 1)]) <= g[i]
  <2>1. (Len(f) + 1) - (c + 1) = Len(f) - c /\ c < Len(f) /\ Len(f) - c \in 1 .. Len(f)
    BY <1>3, <1>7
  <2>2. PICK e : e = EndOf(f[Len(f) - c])
    OBVIOUS
  <2>3. e <= clock /\ \A i \in Len(f) - c + 1 .. Len(f) : e <= f[i]
    BY <2>1, <2>2 DEF FailuresInv
  <2>4. EndOf(g[(Len(f) + 1) - (c + 1)]) = e
    BY <2>1, <2>2, <1>2
  <2>5. ASSUME NEW i \in Len(f) - c + 1 .. Len(f) + 1 PROVE e <= g[i]
    <3>1. CASE i = Len(f) + 1
      BY <3>1, <2>3, <1>2
    <3>2. CASE i \in 1 .. Len(f)
      <4>1. i \in Len(f) - c + 1 .. Len(f)
        BY <3>2, <1>3
      <4>. QED  BY <3>2, <4>1, <2>3, <1>2
    <3>. QED  BY <3>1, <3>2, <2>1, <1>3
  <2>. QED  BY <2>1, <2>3, <2>4, <2>5
<1>. QED  BY <1>1, <1>2, <1>4, <1>5, <1>6, <1>7 DEF FailuresInv

\* The oldest failure is forgotten, when the one before the last c is kept.
LEMMA TailFailure ==
  ASSUME NEW g \in Seq(Times), NEW c \in Nat, c + 1 < Len(g), FailuresInv(g, c)
  PROVE  FailuresInv(Tail(g), c)
<1>1. PICK h : h = Tail(g)
  OBVIOUS
<1>2. Len(g) \in Nat /\ g # <<>>
  BY LenProperties, EmptySeq
<1>3. /\ h \in Seq(Times) /\ Len(h) = Len(g) - 1
      /\ \A i \in 1 .. Len(g) - 1 : h[i] = g[i + 1]
  BY <1>1, <1>2, HeadTailProperties
<1>4. \A i \in 1 .. Len(g) - 1 : i + 1 \in 1 .. Len(g) /\ h[i] = g[i + 1]
  BY <1>2, <1>3
<1>5. \A i \in 1 .. Len(g) - 1 : h[i] <= clock
  BY <1>4 DEF FailuresInv
<1>6. \A i, j \in 1 .. Len(g) - 1 : i <= j => h[i] <= h[j]
  <2>. TAKE i, j \in 1 .. Len(g) - 1
  <2>1. i <= j => i + 1 <= j + 1
    BY <1>2
  <2>. QED  BY <2>1, <1>4 DEF FailuresInv
<1>7. c <= Len(g) - 1
  BY <1>2
<1>8. /\ EndOf(h[(Len(g) - 1) - c]) <= clock
      /\ \A i \in (Len(g) - 1) - c + 1 .. Len(g) - 1 : EndOf(h[(Len(g) - 1) - c]) <= h[i]
  <2>1. /\ (Len(g) - 1) - c \in 1 .. Len(g) - 1 /\ ((Len(g) - 1) - c) + 1 = Len(g) - c
        /\ c < Len(g)
    BY <1>2
  <2>2. PICK e : e = EndOf(g[Len(g) - c])
    OBVIOUS
  <2>3. e <= clock /\ \A i \in Len(g) - c + 1 .. Len(g) : e <= g[i]
    BY <2>1, <2>2 DEF FailuresInv
  <2>4. EndOf(h[(Len(g) - 1) - c]) = e
    BY <2>1, <2>2, <1>4
  <2>5. ASSUME NEW i \in (Len(g) - 1) - c + 1 .. Len(g) - 1 PROVE e <= h[i]
    <3>1. i + 1 \in Len(g) - c + 1 .. Len(g) /\ i \in 1 .. Len(g) - 1
      BY <1>2, <2>1
    <3>. QED  BY <3>1, <2>3, <1>4
  <2>. QED  BY <2>3, <2>4, <2>5
<1>. QED  BY <1>1, <1>3, <1>5, <1>6, <1>7, <1>8 DEF FailuresInv

\* More failures than the limit span a cooldown.
LEMMA FailuresSpan ==
  ASSUME NEW f \in Seq(Times), NEW c \in 1 .. MaximumFailures,
         Len(f) > MaximumFailures, FailuresInv(f, c)
  PROVE  f[Len(f)] - f[1] >= Cooldown \/ f[Len(f)] = MaxTime
<1>1. Len(f) \in Nat /\ \A i \in 1 .. Len(f) : f[i] \in Times
  BY LenProperties, ElementOfSeq
<1>2. /\ c < Len(f) /\ Len(f) - c \in 1 .. Len(f) /\ 1 \in 1 .. Len(f) /\ 1 <= Len(f) - c
      /\ Len(f) \in Len(f) - c + 1 .. Len(f) /\ Len(f) \in 1 .. Len(f)
  BY <1>1, AuthenticationAssumptions
<1>3. PICK e, b, first, last :
        e = EndOf(b) /\ b = f[Len(f) - c] /\ first = f[1] /\ last = f[Len(f)]
  OBVIOUS
<1>4. b \in Times /\ first \in Times /\ last \in Times
  BY <1>1, <1>2, <1>3
<1>5. e <= last /\ first <= b
  BY <1>2, <1>3 DEF FailuresInv
<1>6. e \in Times /\ (e = MaxTime \/ e = b + Cooldown)
  BY <1>3, <1>4, EndOfType
<1>7. last - first >= Cooldown \/ last = MaxTime
  BY <1>4, <1>5, <1>6, AuthenticationAssumptions DEF Times
<1>. QED  BY <1>3, <1>7

\* The limiter after record_failure().
LEMMA FailureRecorded ==
  ASSUME AuthenticationTypeOK, LimiterInv, consecutive_failures < MaximumFailures,
         record_failure, FailureLogged, clock' = clock
  PROVE  /\ consecutive_failures' \in 0 .. MaximumFailures /\ blocked_until' \in 0 .. MaxTime
         /\ failures' \in Seq(Times) /\ Len(failures') <= MaximumFailures + 1
         /\ LimiterInv'
<1>1. /\ clock \in Times /\ failures \in Seq(Times) /\ Len(failures) \in Nat
      /\ consecutive_failures \in Nat /\ blocked_until \in Times
      /\ Len(failures) <= MaximumFailures + 1 /\ FailuresInv(failures, consecutive_failures)
  BY LenProperties, AuthenticationAssumptions DEF AuthenticationTypeOK, Times, LimiterInv
<1>2. PICK c : c = consecutive_failures + 1
  OBVIOUS
<1>3. c \in 1 .. MaximumFailures /\ consecutive_failures' = c
  BY <1>1, <1>2, AuthenticationAssumptions DEF record_failure
<1>4. blocked_until' = IF c = MaximumFailures THEN EndOf(clock) ELSE blocked_until
  BY <1>1, <1>2, AuthenticationAssumptions DEF record_failure, CooldownEnd, EndOf
<1>5. blocked_until' \in 0 .. MaxTime
  BY <1>1, <1>4, EndOfType DEF Times
<1>6. PICK all : all = Append(failures, clock)
  OBVIOUS
<1>7. /\ all \in Seq(Times) /\ Len(all) = Len(failures) + 1 /\ all[Len(all)] = clock
      /\ FailuresInv(all, c)
  BY <1>1, <1>2, <1>6, AppendProperties, AppendFailure
<1>8. failures' = IF Len(all) > MaximumFailures + 1 THEN Tail(all) ELSE all
  BY <1>6 DEF FailureLogged
<1>9. PICK f : f = failures'
  OBVIOUS
<1>10. /\ f \in Seq(Times) /\ Len(f) <= MaximumFailures + 1 /\ Len(f) # 0
       /\ f[Len(f)] = clock /\ FailuresInv(f, c)
  <2>1. CASE Len(all) > MaximumFailures + 1
    <3>1. f = Tail(all) /\ all # <<>> /\ c + 1 < Len(all) /\ c \in Nat
      BY <2>1, <1>1, <1>3, <1>7, <1>8, <1>9, AuthenticationAssumptions, EmptySeq
    <3>2. /\ f \in Seq(Times) /\ Len(f) = Len(all) - 1
          /\ \A i \in 1 .. Len(f) : f[i] = all[i + 1]
      BY <3>1, <1>7, HeadTailProperties
    <3>3. FailuresInv(f, c)
      BY <3>1, <1>7, TailFailure
    <3>4. Len(f) \in 1 .. Len(f) /\ Len(f) + 1 = Len(all) /\ Len(f) <= MaximumFailures + 1
      BY <2>1, <3>2, <1>1, <1>7, AuthenticationAssumptions
    <3>5. f[Len(f)] = all[Len(f) + 1]
      BY <3>2, <3>4
    <3>. QED  BY <3>2, <3>3, <3>4, <3>5, <1>7
  <2>2. CASE ~(Len(all) > MaximumFailures + 1)
    BY <2>2, <1>1, <1>7, <1>8, <1>9, AuthenticationAssumptions
  <2>. QED  BY <2>1, <2>2
<1>11. Len(f) > MaximumFailures => f[Len(f)] - f[1] >= Cooldown \/ f[Len(f)] = MaxTime
  BY <1>3, <1>10, FailuresSpan
<1>12. FailuresBounded'
  BY <1>9, <1>11 DEF FailuresBounded
<1>13. BlockedInv'
  BY <1>3, <1>4, <1>9, <1>10 DEF BlockedInv, EndOf
<1>14. FailuresInv(failures, consecutive_failures)'
  BY <1>3, <1>9, <1>10 DEF FailuresInv, EndOf
<1>. QED  BY <1>3, <1>5, <1>9, <1>10, <1>12, <1>13, <1>14 DEF LimiterInv

\* The limiter after allows() has answered true.
LEMMA Allowed ==
  ASSUME AuthenticationTypeOK, LimiterInv, ~Blocked, Allow, UNCHANGED <<clock, failures>>
  PROVE  /\ consecutive_failures' \in 0 .. MaximumFailures /\ blocked_until' \in 0 .. MaxTime
         /\ consecutive_failures' < MaximumFailures
         /\ LimiterInv'
<1>1. /\ clock \in Times /\ failures \in Seq(Times) /\ Len(failures) \in Nat
      /\ consecutive_failures \in 0 .. MaximumFailures /\ blocked_until \in Times
      /\ FailuresInv(failures, consecutive_failures) /\ BlockedInv /\ FailuresBounded
  BY LenProperties DEF AuthenticationTypeOK, Times, LimiterInv
<1>2. FailuresBounded'
  BY <1>1 DEF FailuresBounded
<1>3. CASE consecutive_failures < MaximumFailures
  <2>1. UNCHANGED <<consecutive_failures, blocked_until>>
    BY <1>3 DEF Allow, limiterVars
  <2>. QED  BY <1>1, <1>2, <1>3, <2>1 DEF LimiterInv, BlockedInv, FailuresInv, EndOf, Times
<1>4. CASE ~(consecutive_failures < MaximumFailures)
  <2>1. consecutive_failures' = 0 /\ blocked_until' = 0 /\ 0 < MaximumFailures
    BY <1>4, AuthenticationAssumptions DEF Allow
  <2>2. consecutive_failures = MaximumFailures /\ blocked_until <= clock
    BY <1>1, <1>4, AuthenticationAssumptions DEF Blocked, Times
  <2>3. EndOf(failures[Len(failures)]) <= clock
    BY <1>1, <2>2 DEF BlockedInv
  <2>4. BlockedInv'
    BY <2>1 DEF BlockedInv
  <2>5. FailuresInv(failures, 0)
    <3>1. Len(failures) - 0 = Len(failures) /\ 0 <= Len(failures)
      BY <1>1
    <3>2. \A i \in Len(failures) - 0 + 1 .. Len(failures) : FALSE
      BY <1>1
    <3>. QED  BY <1>1, <2>3, <3>1, <3>2 DEF FailuresInv
  <2>6. FailuresInv(failures, consecutive_failures)'
    BY <2>1, <2>5 DEF FailuresInv, EndOf
  <2>. QED  BY <1>2, <2>1, <2>4, <2>6, AuthenticationAssumptions DEF LimiterInv
<1>. QED  BY <1>3, <1>4

\* The limiter after record_success().
LEMMA SuccessRecorded ==
  ASSUME record_success, failures' = <<>>
  PROVE  /\ consecutive_failures' \in 0 .. MaximumFailures /\ blocked_until' \in 0 .. MaxTime
         /\ failures' \in Seq(Times) /\ Len(failures') <= MaximumFailures + 1
         /\ LimiterInv'
<1>1. consecutive_failures' = 0 /\ blocked_until' = 0
  BY DEF record_success
<1>2. failures' \in Seq(Times) /\ Len(failures') = 0
  BY EmptySeq
<1>3. FailuresBounded' /\ BlockedInv'
  BY <1>1, <1>2, AuthenticationAssumptions DEF FailuresBounded, BlockedInv
<1>4. FailuresInv(failures, consecutive_failures)'
  BY <1>1, <1>2 DEF FailuresInv
<1>. QED  BY <1>1, <1>2, <1>3, <1>4, AuthenticationAssumptions DEF LimiterInv

\* Only LoginBegin() takes a call to the verification.
LEMMA AnyPlace ==
  ASSUME NEW t \in Threads,
         Return(t) \/ \E place \in Places \ {"verify"} : Goto(t, place)
  PROVE  \E place : pc' = [pc EXCEPT ![t] = place] /\ place # "verify"
<1>1. CASE Return(t)
  <2>1. pc' = [pc EXCEPT ![t] = "idle"] /\ "idle" # "verify"
    BY <1>1 DEF Return
  <2>. QED  BY <2>1
<1>2. CASE \E place \in Places \ {"verify"} : Goto(t, place)
  BY <1>2 DEF Goto
<1>. QED  BY <1>1, <1>2

\* Every step of a thread respects the mutex and the limiter.
LEMMA StepAuthentication ==
  ASSUME NEW t \in Threads, Step(t), CallTypes, AuthenticationInv
  PROVE  AuthenticationInv'
<1>1. AuthenticationTypeOK /\ MutexInv /\ LimiterInv /\ clock' = clock
  BY DEF AuthenticationInv, Step, LoginBegin, LoginUnavailable, LoginWrong, LoginRight,
         Generate, CreateSession, RequestBegin, ReadClock, Invalidate, InvalidateFails,
         Authenticate
<1>2. ASSUME NEW place, pc' = [pc EXCEPT ![t] = place]
      PROVE  /\ pc'[t] = place
             /\ \A u \in Threads : u # t => pc'[u] = pc[u]
  BY <1>2 DEF CallTypes
<1>3. t # None
  BY AuthenticationAssumptions
<1>4. CASE LoginBegin(t)
  <2>1. mutex = None /\ mutex' = t /\ ~Blocked /\ Allow /\ failures' = failures
        /\ pc' = [pc EXCEPT ![t] = "verify"]
    BY <1>4 DEF LoginBegin, MutexFree, Goto
  <2>2. /\ consecutive_failures' \in 0 .. MaximumFailures /\ blocked_until' \in 0 .. MaxTime
        /\ consecutive_failures' < MaximumFailures
        /\ LimiterInv'
    BY <1>1, <2>1, Allowed
  <2>3. AuthenticationTypeOK'
    BY <1>1, <2>1, <2>2 DEF AuthenticationTypeOK
  <2>4. \A u \in Threads : pc'[u] = "verify" => u = t
    BY <1>1, <1>2, <2>1, AuthenticationAssumptions DEF MutexInv
  <2>5. MutexInv'
    BY <2>1, <2>2, <2>4 DEF MutexInv
  <2>. QED  BY <2>2, <2>3, <2>5 DEF AuthenticationInv
<1>5. CASE LoginUnavailable(t) \/ LoginWrong(t) \/ LoginRight(t)
  <2>1. mutex' = None /\ mutex = t /\ consecutive_failures < MaximumFailures
    BY <1>1, <1>3, <1>5 DEF LoginUnavailable, LoginWrong, LoginRight, MutexInv
  <2>2. PICK place : pc' = [pc EXCEPT ![t] = place] /\ place # "verify"
    <3>1. Return(t) \/ Goto(t, IF call[t].cookie = None THEN "generate" ELSE "replace")
      BY <1>5 DEF LoginUnavailable, LoginWrong, LoginRight
    <3>2. Return(t) \/ Goto(t, "generate") \/ Goto(t, "replace")
      BY <3>1
    <3>. QED  BY <3>2, AnyPlace DEF Places
  <2>3. \A u \in Threads : pc'[u] # "verify"
    BY <1>1, <1>2, <2>1, <2>2 DEF MutexInv
  <2>4. MutexInv'
    BY <2>1, <2>3 DEF MutexInv
  <2>5. /\ consecutive_failures' \in 0 .. MaximumFailures /\ blocked_until' \in 0 .. MaxTime
        /\ failures' \in Seq(Times) /\ Len(failures') <= MaximumFailures + 1
        /\ LimiterInv'
    <3>1. CASE LoginUnavailable(t)
      <4>1. UNCHANGED <<consecutive_failures, blocked_until, failures>>
        BY <3>1 DEF LoginUnavailable, limiterVars
      <4>. QED  BY <1>1, <4>1
             DEF AuthenticationTypeOK, LimiterInv, FailuresInv, BlockedInv, FailuresBounded,
                 EndOf, Times
    <3>2. CASE LoginWrong(t)
      <4>1. record_failure /\ FailureLogged
        BY <3>2 DEF LoginWrong
      <4>. QED  BY <1>1, <2>1, <4>1, FailureRecorded
    <3>3. CASE LoginRight(t)
      <4>1. record_success /\ failures' = <<>>
        BY <3>3 DEF LoginRight
      <4>. QED  BY <4>1, SuccessRecorded
    <3>. QED  BY <1>5, <3>1, <3>2, <3>3
  <2>6. AuthenticationTypeOK'
    BY <1>1, <2>1, <2>5 DEF AuthenticationTypeOK, Times
  <2>. QED  BY <2>4, <2>5, <2>6 DEF AuthenticationInv
<1>6. CASE ~(LoginBegin(t) \/ LoginUnavailable(t) \/ LoginWrong(t) \/ LoginRight(t))
  <2>1. UNCHANGED <<consecutive_failures, blocked_until, mutex, failures>>
    BY <1>6 DEF Step, Generate, CreateSession, RequestBegin, ReadClock, Invalidate,
                InvalidateFails, Authenticate, authenticationVars, limiterVars
  <2>2. PICK place : pc' = [pc EXCEPT ![t] = place] /\ place # "verify"
    <3>1. CASE ReadClock(t)
      <4>1. pc[t] \in {"replace", "logout", "protected"}
        BY <3>1 DEF ReadClock, After
      <4>2. After[pc[t]] \in {"replacing", "ending", "checking"}
        BY <4>1 DEF After
      <4>3. Return(t) \/ Goto(t, "replacing") \/ Goto(t, "ending") \/ Goto(t, "checking")
        BY <3>1, <4>2 DEF ReadClock
      <4>. QED  BY <4>3, AnyPlace DEF Places
    <3>2. CASE ~ReadClock(t)
      <4>1. \/ Return(t) \/ Goto(t, "generate") \/ Goto(t, "create")
            \/ Goto(t, "logout") \/ Goto(t, "protected")
        BY <1>6, <3>2 DEF Step, Generate, CreateSession, RequestBegin, Invalidate,
                          InvalidateFails, Authenticate
      <4>. QED  BY <4>1, AnyPlace DEF Places
    <3>. QED  BY <3>1, <3>2
  <2>3. \A u \in Threads : pc'[u] = "verify" => pc[u] = "verify"
    BY <1>2, <2>2
  <2>4. MutexInv'
    BY <1>1, <2>1, <2>3 DEF MutexInv
  <2>5. AuthenticationTypeOK'
    BY <1>1, <2>1 DEF AuthenticationTypeOK
  <2>6. LimiterInv'
    BY <1>1, <2>1 DEF LimiterInv, FailuresInv, BlockedInv, FailuresBounded, EndOf
  <2>. QED  BY <2>4, <2>5, <2>6 DEF AuthenticationInv
<1>. QED  BY <1>4, <1>5, <1>6

-----------------------------------------------------------------------------
\* The store.

\* Every step of a thread leaves a sound store, without the sessions that have ended.
LEMMA StepStore ==
  ASSUME NEW t \in Threads, Step(t), CallTypes, CallInv, StoreInv
  PROVE  StoreInv'
<1>1. Sound(entries) /\ ended \subseteq Credentials /\ Digests(entries) \cap ended = {}
  BY DEF StoreInv, EndedIsGone
<1>2. call[t] \in Calls /\ CallFits(pc[t], call[t]) /\ call[t].now \in 0 .. MaxTime
  BY DEF CallTypes, CallInv, Calls
<1>3. SUFFICES Sound(entries') /\ ended' \subseteq Credentials /\ Digests(entries') \cap ended' = {}
  BY DEF StoreInv, EndedIsGone, Sound, Distinct, Digests
<1>4. CASE CreateSession(t)
  <2>1. PICK digest, now : digest = call[t].digest /\ now = call[t].now
    OBVIOUS
  <2>2. digest \in Credentials /\ now \in 0 .. MaxTime
    BY <1>2, <1>4, <2>1 DEF CallFits, CreateSession
  <2>3. CASE entries' = remove_expired(now) /\ UNCHANGED ended
    BY <1>1, <2>3, RemoveExpiredSound
  <2>4. CASE ~Collides(digest, now) /\ entries' = Inserted(digest, now) /\ ended' = ended \ {digest}
    <3>1. /\ Sound(Inserted(digest, now))
          /\ Digests(Inserted(digest, now)) \subseteq Digests(entries) \cup {digest}
      BY <1>1, <2>2, <2>4, InsertedSound
    <3>. QED  BY <1>1, <2>4, <3>1
  <2>. QED  BY <1>4, <2>1, <2>3, <2>4 DEF CreateSession
<1>5. CASE Invalidate(t)
  <2>1. PICK digest, now : digest = call[t].cookie /\ now = call[t].now
    OBVIOUS
  <2>2. digest \in Credentials
    <3>1. call[t].cookie # None /\ call[t].cookie \in Cookies
      BY <1>2, <1>5 DEF CallFits, Invalidate, Calls
    <3>. QED  BY <2>1, <3>1 DEF Cookies
  <2>3. entries' = Erased(digest, now) /\ ended' = ended \cup {digest}
    BY <1>5, <2>1 DEF Invalidate
  <2>4. /\ Sound(Erased(digest, now))
        /\ Digests(Erased(digest, now)) \subseteq Digests(entries) \ {digest}
    BY <1>1, ErasedSound
  <2>. QED  BY <1>1, <2>2, <2>3, <2>4
<1>6. CASE InvalidateFails(t)
  <2>1. entries' = remove_expired(call[t].now) /\ ended' = ended
    BY <1>6 DEF InvalidateFails
  <2>. QED  BY <1>1, <2>1, RemoveExpiredSound
<1>7. CASE Authenticate(t)
  <2>1. PICK digest, now : digest = call[t].cookie /\ now = call[t].now
    OBVIOUS
  <2>2. entries' = Touched(digest, now) /\ ended' = ended
    BY <1>7, <2>1 DEF Authenticate
  <2>3. Sound(Touched(digest, now)) /\ Digests(Touched(digest, now)) \subseteq Digests(entries)
    BY <1>1, <1>2, <2>1, TouchedSound
  <2>. QED  BY <1>1, <2>2, <2>3
<1>8. CASE ~(CreateSession(t) \/ Invalidate(t) \/ InvalidateFails(t) \/ Authenticate(t))
  <2>1. entries' = entries /\ ended' = ended
    BY <1>8 DEF Step, LoginBegin, LoginUnavailable, LoginWrong, LoginRight, Generate,
                RequestBegin, ReadClock
  <2>. QED  BY <1>1, <2>1
<1>. QED  BY <1>4, <1>5, <1>6, <1>7, <1>8

-----------------------------------------------------------------------------
\* The theorems.

\* The inductive invariant holds at first.
LEMMA InitInv == Init => IInv
<1>. SUFFICES ASSUME Init PROVE IInv
  OBVIOUS
<1>1. CallTypes /\ CallInv
  <2>1. NoCall \in Calls
    BY AuthenticationAssumptions, SessionAuthenticationAssumptions DEF NoCall, Calls, Cookies
  <2>2. CallTypes
    BY <2>1 DEF Init, CallTypes, Places
  <2>3. \A t \in Threads : pc[t] = "idle" /\ call[t] = NoCall
    BY DEF Init
  <2>4. CallInv
    <3>1. CallFits("idle", NoCall)
      BY DEF CallFits, NoCall
    <3>. QED  BY <2>3, <3>1 DEF CallInv
  <2>. QED  BY <2>2, <2>4
<1>2. /\ clock = 0 /\ consecutive_failures = 0 /\ blocked_until = 0 /\ mutex = None
      /\ failures \in Seq(Times) /\ Len(failures) = 0
  BY EmptySeq DEF Init, AuthenticationInit
<1>3. AuthenticationTypeOK
  BY <1>2, AuthenticationAssumptions DEF AuthenticationTypeOK, Times
<1>4. LimiterInv
  BY <1>2, AuthenticationAssumptions
  DEF LimiterInv, FailuresInv, BlockedInv, FailuresBounded
<1>5. MutexInv
  BY <1>2 DEF Init, MutexInv
<1>6. entries \in Seq(Sessions) /\ Len(entries) = 0 /\ ended = {}
  BY EmptySeq DEF Init
<1>7. Sound(entries)
  BY <1>6, SessionStoreAssumptions DEF Sound, Distinct
<1>8. StoreInv
  BY <1>6, <1>7 DEF StoreInv, EndedIsGone
<1>. QED  BY <1>1, <1>3, <1>4, <1>5, <1>8 DEF IInv, AuthenticationInv

\* Every step keeps the inductive invariant.
LEMMA StepInv == IInv /\ [Next]_vars => IInv'
<1>. SUFFICES ASSUME IInv, [Next]_vars PROVE IInv'
  OBVIOUS
<1>1. ASSUME NEW t \in Threads, Step(t) PROVE IInv'
  <2>1. CallTypes /\ CallInv /\ AuthenticationInv /\ StoreInv /\ clock \in 0 .. MaxTime
    BY DEF IInv, AuthenticationInv, AuthenticationTypeOK
  <2>2. CallTypes' /\ CallInv'
    BY <1>1, <2>1, StepMoves, MovesKeeps
  <2>3. AuthenticationInv'
    BY <1>1, <2>1, StepAuthentication
  <2>4. StoreInv'
    BY <1>1, <2>1, StepStore
  <2>. QED  BY <2>2, <2>3, <2>4 DEF IInv
<1>2. CASE Tick
  <2>1. /\ clock \in Times /\ clock' = clock + 1 /\ clock' \in Times
        /\ UNCHANGED <<consecutive_failures, blocked_until, mutex, failures, entries, pc, call, ended>>
    BY <1>2, AuthenticationAssumptions
    DEF Tick, IInv, AuthenticationInv, AuthenticationTypeOK, authenticationVars, limiterVars, Times
  <2>2. CallTypes' /\ CallInv' /\ StoreInv'
    BY <2>1 DEF IInv, CallTypes, CallInv, StoreInv, EndedIsGone
  <2>3. AuthenticationTypeOK' /\ MutexInv' /\ BlockedInv' /\ FailuresBounded'
    BY <2>1 DEF IInv, AuthenticationInv, AuthenticationTypeOK, MutexInv, LimiterInv,
                BlockedInv, FailuresBounded, EndOf, Times
  <2>4. failures \in Seq(Times) /\ consecutive_failures \in Nat
        /\ FailuresInv(failures, consecutive_failures)
    BY AuthenticationAssumptions
    DEF IInv, AuthenticationInv, AuthenticationTypeOK, LimiterInv, Times
  <2>5. FailuresInv(failures, consecutive_failures)'
    BY <2>1, <2>4, TickFailures DEF FailuresInv, EndOf
  <2>. QED  BY <2>2, <2>3, <2>5 DEF IInv, AuthenticationInv, LimiterInv
<1>3. CASE UNCHANGED vars
  BY <1>3 DEF vars, authenticationVars, limiterVars, IInv, CallTypes, CallInv,
              AuthenticationInv, AuthenticationTypeOK, MutexInv, LimiterInv, FailuresInv,
              BlockedInv, FailuresBounded, EndOf, StoreInv, EndedIsGone
<1>. QED  BY <1>1, <1>2, <1>3 DEF Next

\* The calls, the mutex with the limiter, and the store keep to their invariants.
THEOREM Invariance == Spec => []IInv
BY InitInv, StepInv, PTL DEF Spec

\* The store keeps to maximum_sessions and holds no digest twice, however late the calls
\* of the workers come with their readings of the clock.
THEOREM StoreIsConsistent == Spec => []StoreConsistent
<1>1. IInv => StoreConsistent
  <2>. SUFFICES ASSUME IInv PROVE StoreConsistent
    OBVIOUS
  <2>1. entries \in Seq(Sessions) /\ Len(entries) <= MaximumSessions /\ Distinct(entries)
    BY DEF IInv, StoreInv, Sound
  <2>2. TypeOK
    BY <2>1 DEF IInv, AuthenticationInv, CallTypes, StoreInv, TypeOK, Places, Calls, Sessions
  <2>3. DOMAIN entries = 1 .. Len(entries)
    BY <2>1, LenProperties
  <2>. QED  BY <2>1, <2>2, <2>3 DEF StoreConsistent, Distinct
<1>. QED  BY <1>1, Invariance, PTL

\* No entry carries a credential whose session a login or a logout has ended, until
\* create_session() hands it out again.
THEOREM EndedStaysGone == Spec => []EndedIsGone
<1>1. IInv => EndedIsGone
  BY DEF IInv, StoreInv
<1>. QED  BY <1>1, Invariance, PTL

\* No more than maximum_failures attempts in a row fail within a cooldown.
THEOREM FailuresAreBounded == Spec => []FailuresBounded
<1>1. IInv => FailuresBounded
  BY DEF IInv, AuthenticationInv, LimiterInv
<1>. QED  BY <1>1, Invariance, PTL

\* A login gives up a live session only in a store full of live sessions that were
\* active no earlier.
THEOREM LiveIsEvictedLast == Spec => LiveEvictedLast
<1>1. ASSUME IInv, [Next]_vars, NEW t \in Threads, pc[t] = "create", pc'[t] = "idle"
      PROVE  LosesLeast(entries', call[t].now)
  <2>1. PICK u \in Threads : Step(u)
    BY <1>1 DEF Next, Tick, vars
  <2>2. u = t
    <3>1. PICK place, record : Moves(u, place, record)
      BY <1>1, <2>1, StepMoves DEF IInv, AuthenticationInv, AuthenticationTypeOK
    <3>. QED  BY <1>1, <3>1 DEF Moves, IInv, CallTypes
  <2>3. CreateSession(t)
    BY <1>1, <2>1, <2>2
    DEF Step, LoginBegin, LoginUnavailable, LoginWrong, LoginRight, Generate, RequestBegin,
        ReadClock, After, Invalidate, InvalidateFails, Authenticate
  <2>4. PICK digest, now : digest = call[t].digest /\ now = call[t].now
    OBVIOUS
  <2>5. Sound(entries) /\ digest \in Credentials /\ now \in 0 .. MaxTime
    BY <1>1, <2>4 DEF IInv, StoreInv, CallTypes, CallInv, CallFits, Calls
  <2>6. \/ entries' = remove_expired(now)
        \/ ~Collides(digest, now) /\ entries' = Inserted(digest, now)
    BY <2>3, <2>4 DEF CreateSession
  <2>. QED  BY <2>4, <2>5, <2>6, RemoveExpiredLoses, InsertedSound
<1>2. IInv /\ [Next]_vars =>
        [\A t \in Threads : pc[t] = "create" /\ pc'[t] = "idle" =>
           \A i \in DOMAIN entries :
             \/ expired(entries[i], call[t].now)
             \/ entries[i].digest \in Digests(entries')
             \/ /\ Len(entries') = MaximumSessions
                /\ \A j \in 1 .. MaximumSessions - 1 :
                     /\ ~expired(entries'[j], call[t].now)
                     /\ entries[i].last_activity <= entries'[j].last_activity]_vars
  BY <1>1 DEF LosesLeast
<1>. QED  BY <1>2, Invariance, PTL DEF Spec, LiveEvictedLast
=============================================================================
