CONSTANTS
  Runs = {"r", "s"}
  WakeParent = TRUE
  MaxRetries = 1
  MaxFaults = 1
  MaxPrompts = 1
  MaxRestarts = 1
  Workers = {"w", "x"}
  Tiers = 2
  Gated = {1}
  MaxFalls = 2
  Sessions = {"s", "t"}
  MaxRuntimes = 2
  MaxForeign = 1
  Calls = {"c", "d"}
  HubFaults = 1
SPECIFICATION MCSpec
INVARIANTS ToldOnce DispatchSound HostSound
PROPERTY RunsEnd
CHECK_DEADLOCK FALSE
