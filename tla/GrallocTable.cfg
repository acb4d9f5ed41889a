SPECIFICATION Spec
CONSTANTS
  Threads = {t1, t2, t3}
  Handles = {h1, h2, h3}
  Geometries = {g1, g2}
  MaxBufs = 2
  Null = null
INVARIANTS QueryTrue
PROPERTIES KnownUntilFreed
