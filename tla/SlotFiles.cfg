CONSTANTS
  Proc = {p1, p2, p3}
  Nonce = {n1, n2, n3}
  Cap = 1
  NoFile = NoFile
  Unreadable = Unreadable
SPECIFICATION Spec
INVARIANT OneHolder
PROPERTIES ClaimReturned ImplementsTable
CHECK_DEADLOCK FALSE
