SPECIFICATION FairSpec
CONSTANTS
  NumCalls = 2
  ClusterScoped <- Second
  Names <- WideNames
  AllNamespaces <- MCAll
  MaxNamespaceFanout = 1
  ServerStates <- WideStates
  ServerErrors = {"forbidden"}
  None = None
  MaxInFlight = 1
  ChunkSize = 2
  MayCancel = TRUE
  MaxChanges = 1
  NotRead = NotRead
INVARIANT RouteInvisible
PROPERTIES TimeoutEnds CancelEnds
