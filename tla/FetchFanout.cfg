SPECIFICATION Spec
CONSTANTS
  NumCalls = 2
  ClusterScoped = {2}
  Names <- TwoNames
  AllNamespaces <- MCAll
  MaxNamespaceFanout = 2
  ServerStates <- TwoStates
  ServerErrors = {"forbidden"}
  None = None
  MaxInFlight = 2
  ChunkSize = 1
  MayCancel = TRUE
  MaxChanges = 1
  NotRead = NotRead
INVARIANTS TypeOK SlotsAccounted NoShortRead QuietAtReturn RouteInvisible
PROPERTY ImplementsAtomic
