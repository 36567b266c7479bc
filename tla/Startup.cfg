SPECIFICATION FairSpec
CONSTANTS
  Clients = {c1}
  GroupVersions = {"v1", "apps/v1", "batch/v1", "batch/v1beta1"}
  Bundles <- MCBundles
  Requests <- MCRequests
INVARIANTS
  TypeOK
  ReadyMeansUsable
  GroupsOnce
  LogAsAsked
  LogNotFoundIsTrue
PROPERTIES
  StartEnds
\* The process ends.
CHECK_DEADLOCK FALSE
