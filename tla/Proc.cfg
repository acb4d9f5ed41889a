SPECIFICATION Spec
CONSTANTS
  Groups = {g1, g2, g3}
  First = g1
  MaxPid = 3
  Nobody = nobody
  Orphan = orphan
  Hidden = {g3}
  Writers = {system, app}
  Capable = {system}
  Uids = {u_root, u_app}
  Root = u_root
  app = app
  u_app = u_app
  Euid <- MCEuid
  OomAdj <- MCOomAdj
  OomScoreAdj <- MCOomScoreAdj
  Programs <- MCPrograms
INVARIANTS ListedOnce OomFloor
CHECK_DEADLOCK FALSE
