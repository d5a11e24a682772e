\* No admission stage: two producers compete for a ring of two slots, two workers
\* for its connections.
CONSTANTS
  Connections = {c1, c2, c3, c4}
  Producers = {p1, p2}
  Workers = {w1, w2}
  Stoppers = {s1}
  Owner = owner
  AdmissionThread = admission
  Capacity = 2
  AdmissionEnabled = FALSE
  MaxPrefix = 1
  None = None
SYMMETRY Symmetry
SPECIFICATION Spec
INVARIANTS
  NoWorkStranded
  NoProducerStranded
