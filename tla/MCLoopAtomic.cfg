SPECIFICATION AllSpec
CONSTANTS
  p1 = p1  p2 = p2  c1 = c1
  Producers = {p1, p2}
  Size = 3
  Freq = 2
  Suppliers = {1, 2}
  BufferSize = 1
  AllocationSize = 2
  MaxItems <- ThreeAndOne
  Buffers = {1, 2, 3, 4, 5, 6}
  Consumers = {c1}
  Capacity = 2
  MaxTickets = 3
  Pushers = {1, 2}
  Poppers = {3, 4}
  Room = 1
  Pushings = 4
  Callers = {p1, p2, c1}
  Places = 2
  Words = 4
  Sendings = 3
INVARIANTS NoYieldLost BoundedTurn LateOnlyNotify
PROPERTIES LoopTurnsForever Ends InOrder NobodyStays
