SPECIFICATION Spec
CONSTANTS
  Objects <- MCObjects
  Names <- MCNames
  NameOf <- MCNameOf
  Selectors = {"all", "sel"}
  NoSel = "all"
  BadSel = "bad"
  Match <- MCMatch
  Namespaces = {1, 2}
  Clients = {c1, c2}
  Bundles <- PairBundles
  Requests <- PairRequests
INVARIANT GetAgreesWithList
SYMMETRY ClientSymmetry
\* Every client makes one request and the process may be gone: nothing more happens.
CHECK_DEADLOCK FALSE
