\* Two writers of two operations each share two places.
CONSTANTS
  Writers = {w1, w2}
  MaximumWorkers = 2
  MaxOperations = 2
SYMMETRY Symmetry
SPECIFICATION Spec
INVARIANTS
  PlacesConsistent
  FilesSafe
