SPECIFICATION Spec
CONSTANTS
  BLOCK_SIZE = 2
  IndexSize = 2
  Users = {u1, u2, u3}
  Nodes = {n1, n2}
  NoNode = none
  SHOULD_BE_ON_FREELIST = 16
  Setups <- Throwing
INVARIANT CleanEnd
