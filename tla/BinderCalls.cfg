SPECIFICATION Spec
CONSTANTS
  mgr = mgr
  cli = cli
  srv = srv
  m1 = m1
  m2 = m2
  c1 = c1
  c2 = c2
  d1 = d1
  NoProc = NoProc
  NoThread = NoThread
  ProcOf <- MCProcOf
  Euid <- MCEuid
  Programs <- Calling
  Procs = {mgr, cli, srv}
  Threads = {m1, m2, c1, c2, d1}
  Managers = {mgr}
  Ptrs = {1}
  Cookies = {1}
  MaxBufs = 2
  MaxAsync = 1
  MaxTodo = 1
  MaxPool = 1
  ReadWords = 12
INVARIANTS NoBUG NoDangling StacksMeet CallerAnswered
CHECK_DEADLOCK FALSE
