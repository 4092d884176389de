CONSTANTS
  Budget = 2
  MaxAnswers = 2
  MaxTools = 1
  MaxEnvelopes = 1
  MaxRenewals = 1
  QueryTurns = 1
  MaxInputs = 1
  Session <- MCSession
  MaxCached = 1
  MaxTroubles = 1
  Callers = {"a", "b", "c"}
  Deaf = {"a"}
  MaxLapses = 1
  Attempts = 2
  Replays = 1
  MaxEvents = 3
  Processes = {"p", "q"}
  Models = {"m", "n"}
  MaxSups = 2
  LocalTroubles = 1
  HookEvents = 4
  Launches = {"k", "l"}
SPECIFICATION MCSpec
INVARIANTS PiSound ClaudeSound ProcessesSound ProbeSound TurnSound LocalSound
PROPERTY WorkersEnd
CHECK_DEADLOCK FALSE
