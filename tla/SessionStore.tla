----------------------------- MODULE SessionStore -----------------------------
(***************************************************************************)
(* The bounded store of login sessions (src/session/session_store.cpp).     *)
(* entries is the vector of the code, in its order.  The operators are what *)
(* happens under the store's mutex; the clock was read by the caller before *)
(* it took the mutex, and is an argument.  A credential stands for its      *)
(* digest, and the principal is always the owner.                           *)
(***************************************************************************)
EXTENDS Naturals, Sequences, SequencesExt

CONSTANTS
  Credentials,        \* what the codec generates
  MaximumSessions,    \* SessionStorePolicy::maximum_sessions
  AbsoluteLifetime,   \* SessionStorePolicy::absolute_lifetime, in ticks
  IdleTimeout         \* SessionStorePolicy::idle_timeout, in ticks

\* What SessionStore::create() insists on.
ASSUME SessionStoreAssumptions ==
  /\ MaximumSessions \in Nat \ {0}
  /\ AbsoluteLifetime \in Nat \ {0} /\ IdleTimeout \in Nat \ {0}

VARIABLES entries   \* a sequence of [digest, created, last_activity]

Entry(digest, now) == [digest |-> digest, created |-> now, last_activity |-> now]

\* A call with an old reading of the clock may meet a younger entry.
expired(entry, now) ==
  now >= entry.created + AbsoluteLifetime \/ now >= entry.last_activity + IdleTimeout

\* std::erase_if(): kept[n] is what is left of the first n entries.
remove_expired(now) ==
  LET kept[n \in 0 .. Len(entries)] ==
        IF n = 0 THEN <<>>
        ELSE IF expired(entries[n], now) THEN kept[n - 1]
        ELSE Append(kept[n - 1], entries[n])
  IN  kept[Len(entries)]

Digests(sessions) == {sessions[i].digest : i \in DOMAIN sessions}

contains(sessions, digest) == digest \in Digests(sessions)

\* Mutant: a generated digest is taken to be new.
CollidesNever(digest, now) == FALSE

\* create_session() has to generate another credential.
Collides(digest, now) == contains(remove_expired(now), digest)

\* The place of the first entry with this digest.
Find(sessions, digest) ==
  CHOOSE i \in DOMAIN sessions :
    /\ sessions[i].digest = digest
    /\ \A j \in 1 .. i - 1 : sessions[j].digest # digest

\* The first of the least recently active entries.
LeastRecent(sessions) ==
  CHOOSE i \in DOMAIN sessions :
    /\ \A j \in DOMAIN sessions : sessions[i].last_activity <= sessions[j].last_activity
    /\ \A j \in 1 .. i - 1 : sessions[i].last_activity < sessions[j].last_activity

\* Mutant: the test for a full store comes after the insertion.
EvictOneLate(sessions) ==
  IF Len(sessions) = MaximumSessions + 1 THEN RemoveAt(sessions, LeastRecent(sessions)) ELSE sessions

evict_least_recent_if_full(sessions) ==
  IF Len(sessions) = MaximumSessions THEN RemoveAt(sessions, LeastRecent(sessions)) ELSE sessions

\* Mutant: room is made before the expired entries are removed.
InsertedEvictingFirst(digest, now) ==
  Append(SelectSeq(evict_least_recent_if_full(entries), LAMBDA entry : ~expired(entry, now)),
         Entry(digest, now))

\* create_session(), when the digest is new.
Inserted(digest, now) ==
  Append(evict_least_recent_if_full(remove_expired(now)), Entry(digest, now))

\* authenticate(): an entry that is found becomes active now, which a later caller
\* with an earlier reading may turn back.
Touched(digest, now) ==
  LET live == remove_expired(now) IN
  IF ~contains(live, digest) THEN live
  ELSE [live EXCEPT ![Find(live, digest)].last_activity = now]

\* invalidate()
Erased(digest, now) ==
  LET live == remove_expired(now) IN
  IF ~contains(live, digest) THEN live ELSE RemoveAt(live, Find(live, digest))
=============================================================================
