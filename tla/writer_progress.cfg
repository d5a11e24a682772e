\* Two writers compete for one place, on a disk that may stall or a clock that may stand.
CONSTANTS
  Writers = {w1, w2}
  MaximumWorkers = 1
  MaxOperations = 1
SPECIFICATION ThreadsSpec
PROPERTIES
  EveryCallReturns
  AbandonedCleanUp
