SPECIFICATION FairSpec
CONSTANTS
  Objects <- MCObjects
  Names <- MCNames
  NameOf <- MCNameOf
  Selectors = {"all", "sel"}
  NoSel = "all"
  BadSel = "bad"
  Match <- MCMatch
  Namespaces = {1, 2}
  Clients = {c1}
  Bundles <- MCBundles
  Requests <- MCRequests
INVARIANTS
  TypeOK
  ListSound
  ListCoversSurvivors
  FailuresExplained
PROPERTIES
  EveryRequestAnswered
  AnswersAtOnce
\* Every client makes one request and the process may be gone: nothing more happens.
CHECK_DEADLOCK FALSE
