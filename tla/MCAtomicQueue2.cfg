SPECIFICATION Spec
CONSTANTS
  p1 = p1  p2 = p2  c1 = c1  c2 = c2
  Producers = {p1, p2}
  Consumers = {c1, c2}
  MaxPush = 2
  Size = 2
  Wrap = 16
  Remap <- Identity
  Origins <- LastTicket
  Empty = Empty  Storing = Storing  Stored = Stored  Loading = Loading
INVARIANTS NoRace ExactlyOnce
PROPERTIES HonestRefusal IsBag
