SPECIFICATION Spec
CONSTANTS
  SpoofingConfig <- MCSpoofingConfig
  LayeringConfig <- MCLayeringConfig
  WashConfig <- MCWashConfig
  MomentumConfig <- MCMomentumConfig
  TickSize = 1
  ScanInterval = 2
  WindowCapacity <- MCWindowCapacity
  Enabled = {"spoofing", "layering", "wash_trading", "momentum_ignition"}
  Quotes <- MCQuotes
  Trades <- MCTrades
  Withdrawals <- MCWithdrawals
  Steps <- MCSteps
  MaxEvents <- MCMaxEvents
  StartTs = 1
INVARIANTS
  WindowsHoldTheRecent
  SpoofersReportedOnce
  LayersReportedWhole
  WashesReported
  IgnitionsReported
  EvidenceIsRecent
CHECK_DEADLOCK FALSE
