SPECIFICATION Spec
CONSTANTS
  Closures <- MCClosures
  BuiltIn = {"deployments"}
  Strimzi = "strimzi"
  Namespaces <- MCNamespaces
  Objects <- MCObjects
  Clusters <- MCClusters
  Denials <- MCDenials
  Failures = {"gone"}
  None = None
  Unread = Unread
  MaxChanges = 1
INVARIANTS RowsExact ErrorsWeighed
