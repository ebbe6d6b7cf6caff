SPECIFICATION Spec
CONSTANTS
  StatefulSets <- MCSets
  Claims <- MCClaims
  Vols <- MCVols
  Policy <- MCPolicy
  Number <- MCNumber
  Starts <- MCStarts
  Gone = Gone
  None = None
  MaxReplicas = 2
  MaxChanges = 3
INVARIANTS UseTold SlotTold PictureCloses
