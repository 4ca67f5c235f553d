SPECIFICATION AllSpec
CONSTANTS
  p1 = p1  p2 = p2  c1 = c1  c2 = c2
  Producers = {p1, p2}
  Consumers = {c1, c2}
  MaxPush = 2
  Size = 2
  Wrap = 16
  Origins <- LastTicket
  Spsc = FALSE
INVARIANTS NoLostWakeup SlotsApart
PROPERTIES IsBag SingleIsFifo
