SPECIFICATION Spec
CONSTANTS
  Pid = {root, child}
  Root = root
  Opts = {o1}
  Mgr = {m1, m2}
  Srv = {}
  Sess = {}
  Cur = {}
  MaxClient = 2
  MaxLsid = 1
  Habits = {"rejected_options"}
  NULL = NULL
SYMMETRY Symmetry
INVARIANTS KeyVaultOutlivesDependents NoForeignDestroy
CHECK_DEADLOCK FALSE
