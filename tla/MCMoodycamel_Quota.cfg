SPECIFICATION AllSpec
CONSTANTS
  Objects = {q1, q2}
  Handles = {"k", "l"}
  Movers = {"t", "u"}
  OwnCap = 4
  MaxMade = 2
  Parts = {"takes"}
  Tokens = {"p", "r"}
  Hash <- HashDef
  Plays <- PlaysDef
  FirstCap = 1
  AtOnce = 2
  Plain = {"e"}
  InitialOffset <- OffsetsDef
  MaxListed = 3
  MaxGrown = 2
  MaxOffset = 1
  MaxTurns = 1
  Word = 8
  Wants = {2}
  Quota = 2
  Failures = 1
  Signallers = {"q"}
  Waiters = {"x", "y"}
  Interrupts = 1
  Sizes = {1, 2}
  MaxItems = 3
  Calls <- CallsDef
PROPERTY RotatesAtQuota
