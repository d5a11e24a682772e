\* Two calls of up to two requests each, in a registry that holds three claims.
CONSTANTS
  Operations = {o1, o2}
  Roots = {r1}
  Spellings = {x, y}
  Components = {"d", "f", "g"}
  Paths <- MCPaths
  MaximumActiveClaims = 3
  MaxRequests = 2
  MaxIdentifier = 2
  Interruptions = {"cancelled"}
  Invalid = Invalid
SYMMETRY Symmetry
SPECIFICATION Spec
INVARIANTS
  RegistryConsistent
  ExclusiveAccess
PROPERTY
  NoGrantAfterInterruption
