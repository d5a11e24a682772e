SPECIFICATION Spec
CONSTANTS
  Threads = {t1, t2}
  Credentials = {c1, c2, c3}
  None = None
  MaximumFailures = 1
  Cooldown = 2
  MaxTime = 3
  MaximumSessions = 2
  AbsoluteLifetime = 3
  IdleTimeout = 2
  GenerationAttempts = 2
SYMMETRY Symmetry
INVARIANTS
  StoreConsistent
  EndedIsGone
  FailuresBounded

  
