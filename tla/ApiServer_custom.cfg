SPECIFICATION Spec
CONSTANTS
  Objects <- MCObjects
  Names <- MCNames
  NameOf <- MCNameOf
  Selectors = {"all", "sel"}
  NoSel = "all"
  BadSel = "bad"
  Match <- MCMatch
  Namespaces = {1, 2}
  Clients = {c1}
  Bundles <- CustomInTwoNamespaces
  Requests <- CustomListRequests
INVARIANT ApisListComplete
\* Every client makes one request and the process may be gone: nothing more happens.
CHECK_DEADLOCK FALSE
