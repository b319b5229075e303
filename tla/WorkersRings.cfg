SPECIFICATION Spec
CONSTANTS
  init = init
  a = a
  b = b
  mutex = mutex
  Task = {init, a, b}
  InitTask = init
  Sem = {mutex}
  Ready = Ready
  NULL = NULL
  SemInit <- OneCounts
  Scripts <- MutexScripts
  IrqSem = {}
  MaxCount = 0
  IrqAt = "unlocked"
INVARIANT RingsOK
