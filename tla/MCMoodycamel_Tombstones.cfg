SPECIFICATION AllSpec
CONSTANTS
  Objects = {q1, q2}
  Handles = {"k", "l"}
  Movers = {"t", "u"}
  OwnCap = 4
  MaxMade = 2
  Parts = {"users"}
  Tokens = {}
  Hash <- HashEight
  Plays <- PlaysEight
  FirstCap = 8
  AtOnce = 1
  Plain = {"e"}
  InitialOffset <- OffsetsDef
  MaxListed = 3
  MaxGrown = 2
  MaxOffset = 1
  MaxTurns = 1
  Word = 8
  Wants = {2}
  Quota = 1
  Failures = 0
  Signallers = {"q"}
  Waiters = {"x", "y"}
  Interrupts = 1
  Sizes = {1, 2}
  MaxItems = 3
  Calls <- CallsDef
INVARIANT SlotFree
