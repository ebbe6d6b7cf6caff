SPECIFICATION Spec
CONSTANTS
  NS <- MCNS
  Invocations <- MCInvocations
  FetchErrors = {"forbidden"}
  RawGlob = RawGlob
  None = None
  MaxTicks = 1
  MaxChanges = 0
INVARIANT InterruptedExit
