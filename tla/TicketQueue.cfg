CONSTANTS
  Nonce = {1, 2, 3}
  MaxTicket = 2
SPECIFICATION Spec
INVARIANTS Exclusive QueueKept
CHECK_DEADLOCK FALSE
