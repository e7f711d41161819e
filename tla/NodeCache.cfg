SPECIFICATION CacheSpec
CONSTANTS
  n1 = n1  n2 = n2  n3 = n3  l1 = l1  l2 = l2
  Nodes = {n1, n2, n3}
  Null = Null
  Loops = {l1, l2}
  IndexMod = 4
INVARIANTS CacheTypeOK MapMatchesQueue
PROPERTIES LoopComplete ImplementsNumbering
