SPECIFICATION Spec
CONSTANTS
  Unread = Unread
  Failed = Failed
  Forbidden = Forbidden
  None = None
  Kinds = {"Deployment", "StatefulSet", "DaemonSet", "Rollout"}
  MaxDesired = 2
  MaxEdits = 2
  Netpol <- MCNetpol
  Ingress <- MCIngress
  SvcBackends <- MCSvcBackends
  Pdb <- MCPdb
  Hpa <- MCHpa
  Terminating <- MCTerminating
  PvcResize <- MCPvcResize
  Certificate <- MCCertificate
  Autoscaler <- MCAutoscaler
  Pending <- MCPending
  Placement <- MCPlacement
  CommandLine <- MCCommandLine
INVARIANTS TypeOK GapTold DenyTold FaultTrue OKTrue BackendsCounted DrainForetold BlindnessShown DeletionsGraded VerdictMeansFinished ExpansionTold RenewalTold FormatsAgree CauseTrue PlacementTold WordsRead OffersAccepted
