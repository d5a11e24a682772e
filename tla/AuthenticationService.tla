------------------------- MODULE AuthenticationService -------------------------
(***************************************************************************)
(* The process-wide part of password logins: the rate limiter and the mutex *)
(* that is held through a whole attempt, the slow verification included     *)
(* (src/authentication/authentication_service.cpp and                       *)
(* detail/authentication_rate_limiter.cpp).  SessionAuthentication gives    *)
(* the threads that use it.                                                 *)
(***************************************************************************)
EXTENDS Naturals, Sequences

CONSTANTS
  Threads,          \* the workers that handle requests
  MaximumFailures,  \* AuthenticationRateLimitPolicy::maximum_failures
  Cooldown,         \* AuthenticationRateLimitPolicy::cooldown, in ticks
  MaxTime,          \* time_point::max(), in ticks
  None              \* no thread

\* What AuthenticationService::create() insists on.
ASSUME AuthenticationAssumptions ==
  /\ MaximumFailures \in Nat \ {0} /\ Cooldown \in Nat \ {0} /\ MaxTime \in Nat
  /\ None \notin Threads

VARIABLES
  clock,                                \* steady_clock
  consecutive_failures, blocked_until,  \* the limiter
  mutex,                                \* the thread that holds it
  failures                              \* history: times of the last failures in a row

limiterVars == <<consecutive_failures, blocked_until>>
authenticationVars == <<limiterVars, mutex, failures>>

Blocked == consecutive_failures >= MaximumFailures /\ clock < blocked_until

\* allows(), when it answers true.
Allow ==
  IF consecutive_failures < MaximumFailures THEN UNCHANGED limiterVars
  ELSE consecutive_failures' = 0 /\ blocked_until' = 0

\* The end of a cooldown that begins now, saturated at the end of the clock.
CooldownEnd == IF Cooldown > MaxTime - clock THEN MaxTime ELSE clock + Cooldown

record_failure ==
  IF consecutive_failures >= MaximumFailures THEN UNCHANGED limiterVars
  ELSE /\ consecutive_failures' = consecutive_failures + 1
       /\ blocked_until' = IF consecutive_failures + 1 = MaximumFailures
                           THEN CooldownEnd ELSE blocked_until

record_success == consecutive_failures' = 0 /\ blocked_until' = 0

\* The failure that has just been recorded, kept with the MaximumFailures before it.
FailureLogged ==
  LET all == Append(failures, clock) IN
  failures' = IF Len(all) > MaximumFailures + 1 THEN Tail(all) ELSE all

\* Mutant: the mutex guards the limiter only, not the verification.
MutexNotHeld == TRUE

MutexFree == mutex = None

AuthenticationInit ==
  /\ clock = 0 /\ consecutive_failures = 0 /\ blocked_until = 0
  /\ mutex = None /\ failures = <<>>

AuthenticationTypeOK ==
  /\ clock \in 0 .. MaxTime
  /\ consecutive_failures \in 0 .. MaximumFailures /\ blocked_until \in 0 .. MaxTime
  /\ mutex \in Threads \cup {None}
  /\ failures \in Seq(0 .. MaxTime) /\ Len(failures) <= MaximumFailures + 1
=============================================================================
