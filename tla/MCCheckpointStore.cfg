SPECIFICATION MCSpec
CONSTANTS
  N = 3
  Retained = 3
  MaxActive = 1
  Slack = 2
  MaxFaults = 2
  NoFile = NoFile
INVARIANTS ResumeSound RecordsDurable
PROPERTIES SessionGoesLast
CHECK_DEADLOCK FALSE
