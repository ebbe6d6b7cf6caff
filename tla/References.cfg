SPECIFICATION Spec
CONSTANTS
  NS = {"a", "kube-system"}
  SystemNS = {"kube-system"}
  PodSpecs = {"pods", "deployments", "cronjobs"}
  OtherKinds = {"serviceaccounts", "ingresses"}
  Listing <- MCListing
  Referrers <- MCReferrers
  Starts <- MCStarts
  Invocations <- MCInvocations
  Size <- MCSize
  Text <- MCText
  Errors = {"forbidden"}
  None = None
  MaxChanges = 2
INVARIANTS InUseNeverListed LeftoversTold
