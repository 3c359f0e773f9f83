SPECIFICATION Spec
CONSTANTS
  Stream = {s1, s2}
  Sources = 2
  MaxAttempts = 2
  Window = 2
  MaxFaults = 2
  Setting <- Channels
INVARIANTS OnlyFaultsReload
PROPERTIES WritesLog DoneMeansFinished ServerLetsGo SessionSettles
