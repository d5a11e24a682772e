\* Progress with the admission stage: two submissions compete for the one place
\* inside the dispatcher, with a stop and a destruction at any moment.
CONSTANTS
  Connections = {c1, c2}
  Producers = {p1}
  Workers = {w1}
  Stoppers = {}
  Owner = owner
  AdmissionThread = admission
  Capacity = 1
  AdmissionEnabled = TRUE
  MaxPrefix = 2
  None = None
SPECIFICATION FairSpec
PROPERTIES
  SubmissionsResolved
  ShutdownCompletes
