SPECIFICATION Spec
CONSTANTS
  StatefulSets <- MCSetsFrom1
  Claims <- MCClaims
  Vols <- MCVols
  Policy <- MCPolicy
  Number <- MCNumber
  Starts <- MCStartsFrom1
  Gone = Gone
  None = None
  MaxReplicas = 2
  MaxChanges = 0
INVARIANT SlotVerdictsMean
