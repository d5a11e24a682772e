\* The admission pipeline: one acceptor, one worker, room for two connections.
CONSTANTS
  Connections = {c1, c2, c3}
  Producers = {p1}
  Workers = {w1}
  Stoppers = {s1}
  Owner = owner
  AdmissionThread = admission
  Capacity = 2
  AdmissionEnabled = TRUE
  MaxPrefix = 2
  None = None
SYMMETRY Symmetry
SPECIFICATION Spec
INVARIANTS
  QueuesConsistent
  NeverTerminates
  OneOwner
  
PROPERTY
  ImplementsContract
