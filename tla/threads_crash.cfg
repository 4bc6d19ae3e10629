SPECIFICATION ThreadsSpec
CONSTANTS
  Node = {n1, n2}
  Agent = {a1, a2}
  None = None
  Vanish = FALSE
  Destroys = FALSE
INVARIANT NoCrash
