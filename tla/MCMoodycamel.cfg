SPECIFICATION AllSpec
CONSTANTS
  Objects = {q1, q2}
  Handles = {"k", "l"}
  Movers = {"t", "u"}
  OwnCap = 4
  MaxMade = 2
  Parts = {"users", "takes", "blocks", "moves"}
  Tokens = {"p", "r"}
  Hash <- HashDef
  Plays <- PlaysDef
  FirstCap = 1
  AtOnce = 2
  Plain = {"e"}
  InitialOffset <- OffsetsDef
  MaxListed = 3
  MaxGrown = 2
  MaxOffset = 3
  MaxTurns = 1
  Word = 8
  Wants = {2}
  Quota = 1
  Failures = 1
  Signallers = {"q"}
  Waiters = {"x", "y"}
  Interrupts = 1
  Sizes = {1, 2}
  MaxItems = 3
  Calls <- CallsDef
INVARIANTS OneUser FoundAgain EveryoneAsked Spread NoneForgotten Whole
PROPERTIES IsCounting CallsEnd
