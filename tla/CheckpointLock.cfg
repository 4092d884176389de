SPECIFICATION FairSpec
CONSTANTS
  Pid = {{main, thread}, {other}}
  Token = {t1, t2, t3, t4}
  NoFile = NoFile  Unreadable = Unreadable  None = None
INVARIANT OneWriter
PROPERTIES ClaimReturned DeadOwnerReplaced
CHECK_DEADLOCK FALSE
