SPECIFICATION FairSpec
CONSTANTS
  NS <- MCNS
  Invocations <- MCInvocations
  FetchErrors = {"forbidden"}
  RawGlob = RawGlob
  None = None
  MaxTicks = 2
  MaxChanges = 1
INVARIANTS TypeOK ScopeHonoursFlag ExitCodeTrue WatchOutlivesErrors QuietInterrupt FramesPaced
PROPERTY InterruptEnds
