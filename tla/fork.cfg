SPECIFICATION Spec
CONSTANTS
  Pid = {root, child}
  Root = root
  Opts = {o1}
  Mgr = {m1}
  Srv = {v1}
  Sess = {s1}
  Cur = {k1}
  MaxClient = 1
  MaxLsid = 1
  Habits = {"leftover_objects"}
  NULL = NULL
SYMMETRY Symmetry
INVARIANTS TypeOK OwnCursorsKillable NoForeignKill NoForeignAbort NoSharedLsid ExitClosesOwnClients
CHECK_DEADLOCK FALSE
