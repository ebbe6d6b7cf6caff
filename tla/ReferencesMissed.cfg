SPECIFICATION Spec
CONSTANTS
  NS = {"a", "kube-system"}
  SystemNS = {"kube-system"}
  PodSpecs = {"pods", "deployments", "cronjobs"}
  OtherKinds = {"serviceaccounts", "ingresses"}
  Listing <- MCListing
  Referrers <- MCReferrersMissed
  Starts <- MCStartsMissed
  Invocations <- MCInvocations
  Size <- MCSize
  Text <- MCText
  Errors = {"forbidden"}
  None = None
  MaxChanges = 0
INVARIANT ReferencesCount
