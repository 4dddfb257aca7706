SPECIFICATION Spec
CONSTANTS
  Pid = {root, child}
  Root = root
  Opts = {o1}
  Mgr = {m1}
  Srv = {v1}
  Sess = {}
  Cur = {k1}
  MaxClient = 1
  MaxLsid = 1
  Habits = {"server_before_reset"}
  NULL = NULL
SYMMETRY Symmetry
INVARIANTS NoSharedLsid
CHECK_DEADLOCK FALSE
