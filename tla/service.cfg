\* Two operations of any kind on a directory, by its name and through a link, on a
\* file in it and on another file.
CONSTANTS
  Operations = {o1, o2}
  Root = r1
  Components = {"d", "e", "f", "l"}
  MaximumActiveClaims = 2
  MaxIdentifier = 3
  Interruptions = {"cancelled"}
  Invalid = Invalid
  None = None
  Paths <- MCPaths
  InitialTree <- LinkedTree
  LinkTarget <- MCLinkTarget
  Permissions = {"read", "write", "delete"}
SYMMETRY Symmetry
SPECIFICATION Spec
INVARIANTS
  WorkIsolated
  
PROPERTY
  ReadersUndisturbed
