SPECIFICATION Spec
CONSTANTS
  c1 = c1  c2 = c2
  Clients = {c1, c2}
  Owner = owner
  Child = child
  MaxDepth = 3
INVARIANT OwnResult
