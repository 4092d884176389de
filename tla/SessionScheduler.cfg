CONSTANTS
  Request = {1, 2, 3, 4, 5}
  Provider = {"a", "b"}
  ProviderOf <- MCProviderOf
  Signal = {"s", "t"}
  NoSignal = "none"
  SignalOf <- MCSignalOf
  MaxConcurrency = 2
  SessionProviders <- MCSessionProviders
  SessionGlobal = 3
  Ceiling = 2
SPECIFICATION FairSpec
INVARIANT Accounted
PROPERTIES FifoPerProvider EverySettles
CHECK_DEADLOCK FALSE
