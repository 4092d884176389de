CONSTANTS
  Call = {1, 2, 3}
  Provider = {"a", "b"}
  ProviderOf <- MCProviderOf
  CapOf <- MCCapTwo
  MaxParked = 1
  p1 = p1  p2 = p2  n1 = n1  n2 = n2  n3 = n3
  NoFile = NoFile  Unreadable = Unreadable
SPECIFICATION MCSpec
INVARIANT SlotsAccounted
PROPERTIES FirstInFirstOut EverybodyGetsOn
CHECK_DEADLOCK FALSE
