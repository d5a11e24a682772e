------------------------ MODULE SessionAuthentication ------------------------
(***************************************************************************)
(* Logins, logouts and protected requests of several workers               *)
(* (src/application/session_authentication_service.cpp and the handlers of  *)
(* src/authentication/api).  A worker reads the clock, then waits for the   *)
(* mutex of the store: other calls may come between, with later readings.   *)
(***************************************************************************)
EXTENDS AuthenticationService, SessionStore

CONSTANTS
  GenerationAttempts    \* maximum_generation_attempts

ASSUME SessionAuthenticationAssumptions ==
  GenerationAttempts \in Nat \ {0} /\ None \notin Credentials

VARIABLES
  pc,       \* where each worker is
  call,     \* its request: cookie presented, candidate digest, clock reading, attempts
  ended     \* history: credentials whose session a login or logout has ended

vars == <<clock, authenticationVars, entries, pc, call, ended>>

NoCall == [cookie |-> None, digest |-> None, now |-> 0, attempt |-> 0]

\* What session_cookie_credential() and the codec make of a request: nothing, or one
\* credential, handed out before or not.  An ambiguous cookie is answered at once.
Cookies == Credentials \cup {None}

Return(t) == pc' = [pc EXCEPT ![t] = "idle"] /\ call' = [call EXCEPT ![t] = NoCall]

Goto(t, place) == pc' = [pc EXCEPT ![t] = place]

-----------------------------------------------------------------------------
\* Login: authenticate, end the session presented, create a new one

\* POST /api/login takes the authentication mutex and asks the limiter.  An attempt that
\* is throttled is answered at once and changes nothing.
LoginBegin(t) ==
  /\ pc[t] = "idle" /\ MutexFree /\ ~Blocked
  /\ Allow
  /\ mutex' = t
  /\ Goto(t, "verify")
  /\ \E cookie \in Cookies : call' = [call EXCEPT ![t].cookie = cookie]
  /\ UNCHANGED <<clock, failures, entries, ended>>

\* The provider or the verifier fails or throws: nothing is recorded.
LoginUnavailable(t) ==
  /\ pc[t] = "verify"
  /\ Return(t)
  /\ mutex' = None
  /\ UNCHANGED <<clock, limiterVars, failures, entries, ended>>

\* An unknown login or a wrong password; the clock is read again for the cooldown.
LoginWrong(t) ==
  /\ pc[t] = "verify"
  /\ record_failure /\ FailureLogged
  /\ Return(t)
  /\ mutex' = None
  /\ UNCHANGED <<clock, entries, ended>>

\* The success is recorded even if the principal cannot be copied after it.
LoginRight(t) ==
  /\ pc[t] = "verify"
  /\ record_success /\ failures' = <<>>
  /\ \/ Goto(t, IF call[t].cookie = None THEN "generate" ELSE "replace") /\ UNCHANGED call
     \/ Return(t)
  /\ mutex' = None
  /\ UNCHANGED <<clock, entries, ended>>

\* A fresh credential and the time of this attempt.
Generate(t) ==
  /\ pc[t] = "generate"
  /\ \/ Return(t)   \* the generator failed
     \/ /\ Goto(t, "create")
        /\ \E digest \in Credentials :
             call' = [call EXCEPT ![t].digest = digest, ![t].now = clock,
                                  ![t].attempt = @ + 1]
  /\ UNCHANGED <<clock, authenticationVars, entries, ended>>

\* create_session(), under the mutex.  The expired entries are gone even if the digest
\* is taken and another one has to be generated.  The session exists even if the
\* response that carries its credential cannot be built.
CreateSession(t) ==
  /\ pc[t] = "create"
  /\ LET digest == call[t].digest
         now == call[t].now IN
     \/ /\ Collides(digest, now)
        /\ entries' = remove_expired(now)
        /\ IF call[t].attempt < GenerationAttempts
           THEN Goto(t, "generate") /\ UNCHANGED call ELSE Return(t)
        /\ UNCHANGED ended
     \/ /\ ~Collides(digest, now)
        /\ entries' = Inserted(digest, now)
        /\ ended' = ended \ {digest}
        /\ Return(t)
  /\ UNCHANGED <<clock, authenticationVars>>

-----------------------------------------------------------------------------
\* Logout and protected requests

\* POST /api/logout or a protected request, with one usable cookie.
RequestBegin(t) ==
  /\ pc[t] = "idle"
  /\ \E cookie \in Cookies \ {None} : call' = [call EXCEPT ![t].cookie = cookie]
  /\ Goto(t, "logout") \/ Goto(t, "protected")
  /\ UNCHANGED <<clock, authenticationVars, entries, ended>>

After == [replace |-> "replacing", logout |-> "ending", protected |-> "checking"]

\* The digest of the cookie is computed, which may fail, and the clock is read.
ReadClock(t) ==
  /\ pc[t] \in DOMAIN After
  /\ \/ Return(t)
     \/ Goto(t, After[pc[t]]) /\ call' = [call EXCEPT ![t].now = clock]
  /\ UNCHANGED <<clock, authenticationVars, entries, ended>>

\* invalidate(), under the mutex, for a logout or for a login that goes on.
Invalidate(t) ==
  /\ pc[t] \in {"replacing", "ending"}
  /\ entries' = Erased(call[t].cookie, call[t].now)
  /\ ended' = ended \cup {call[t].cookie}
  /\ IF pc[t] = "replacing" THEN Goto(t, "generate") /\ UNCHANGED call ELSE Return(t)
  /\ UNCHANGED <<clock, authenticationVars>>

\* The principal cannot be copied: the entry stays, and the call fails.
InvalidateFails(t) ==
  /\ pc[t] \in {"replacing", "ending"}
  /\ entries' = remove_expired(call[t].now)
  /\ contains(entries', call[t].cookie)
  /\ Return(t)
  /\ UNCHANGED <<clock, authenticationVars, ended>>

\* authenticate(), under the mutex.  The request is granted if its session is found,
\* which is then active even if the principal cannot be copied for the handler.
Authenticate(t) ==
  /\ pc[t] = "checking"
  /\ entries' = Touched(call[t].cookie, call[t].now)
  /\ Return(t)
  /\ UNCHANGED <<clock, authenticationVars, ended>>

Tick ==
  /\ clock < MaxTime
  /\ clock' = clock + 1
  /\ UNCHANGED <<authenticationVars, entries, pc, call, ended>>

Init ==
  /\ AuthenticationInit
  /\ entries = <<>>
  /\ pc = [t \in Threads |-> "idle"] /\ call = [t \in Threads |-> NoCall]
  /\ ended = {}

Step(t) ==
  \/ LoginBegin(t) \/ LoginUnavailable(t) \/ LoginWrong(t) \/ LoginRight(t)
  \/ Generate(t) \/ CreateSession(t)
  \/ RequestBegin(t) \/ ReadClock(t) \/ Invalidate(t) \/ InvalidateFails(t)
  \/ Authenticate(t)

Next == Tick \/ \E t \in Threads : Step(t)

Spec == Init /\ [][Next]_vars

-----------------------------------------------------------------------------
\* Properties

TypeOK ==
  /\ AuthenticationTypeOK
  /\ entries \in Seq([digest : Credentials, created : 0 .. MaxTime, last_activity : 0 .. MaxTime])
  /\ pc \in [Threads -> {"idle", "verify", "replace", "replacing", "generate", "create",
                         "logout", "ending", "protected", "checking"}]
  /\ call \in [Threads -> [cookie : Cookies,
                           digest : Credentials \cup {None},
                           now : 0 .. MaxTime, attempt : 0 .. GenerationAttempts]]
  /\ ended \subseteq Credentials

\* The store never grows past maximum_sessions and never holds a digest twice, however
\* generation, expiry and the clock readings of concurrent calls interleave.
StoreConsistent ==
  /\ TypeOK
  /\ Len(entries) <= MaximumSessions
  /\ \A i, j \in DOMAIN entries : entries[i].digest = entries[j].digest => i = j

\* A session that a logout or a login has ended is gone for good: no entry carries its
\* credential until create_session() hands it out again, so no request is granted with it.
EndedIsGone == Digests(entries) \cap ended = {}

\* A live session is given up for a new one only when the store is full of live
\* sessions, none of which was less recently active.
LiveEvictedLast ==
  [][\A t \in Threads : pc[t] = "create" /\ pc'[t] = "idle" =>
       \A i \in DOMAIN entries :
         \/ expired(entries[i], call[t].now)
         \/ entries[i].digest \in Digests(entries')
         \/ /\ Len(entries') = MaximumSessions
            /\ \A j \in 1 .. MaximumSessions - 1 :
                 /\ ~expired(entries'[j], call[t].now)
                 /\ entries[i].last_activity <= entries'[j].last_activity]_vars

\* Whoever tries, and however attempts overlap, no more than maximum_failures of them
\* fail within one cooldown without a success among them.  Only at the very end of the
\* clock is the cooldown cut short.
FailuresBounded ==
  Len(failures) > MaximumFailures =>
    LET last == failures[Len(failures)] IN
    last - failures[1] >= Cooldown \/ last = MaxTime
=============================================================================
