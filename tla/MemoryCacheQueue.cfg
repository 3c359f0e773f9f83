SPECIFICATION Spec
CONSTANTS
  a = a
  b = b
  c = c
  Key = {a, b, c}
  Limit = 2
  Slack = 1
  MaxTTL = 1
  MaxWrites = 8
  MaxClock = 1
INVARIANTS QueueIsBounded
