\* Two clients compete for one place; a stop call, the destructor and failures.
CONSTANTS
  Connections = {c1, c2}
  Capacity = 1
  AdmissionEnabled = TRUE
  Stoppers = {s1}
  Owner = owner
  None = None
SPECIFICATION FairSpec
INVARIANTS
  FailureReportedRightly
  NothingOutlivesServer
PROPERTIES
  ShutdownCompletes
  AcceptedResolved
