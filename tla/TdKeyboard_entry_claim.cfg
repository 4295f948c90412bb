CONSTANTS
  u1 = u1  u2 = u2  x1 = x1  p1 = p1
  Caller = {u1, u2}
  Phone = {x1}
  PhoneOf <- MCPhoneOf
  EmptyText = TRUE
  Press = {p1}
  MaxCalls = 2
  MaxTurns = 1
SPECIFICATION Spec
INVARIANTS KeptIsMessageId
CHECK_DEADLOCK FALSE
