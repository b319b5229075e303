SPECIFICATION Spec
CONSTANTS
  init = init
  idle1 = idle1
  idle2 = idle2
  idle3 = idle3
  boot = boot
  disk = disk
  Task = {init, idle1, idle2, idle3}
  InitTask = init
  Sem = {boot, disk}
  Ready = Ready
  NULL = NULL
  SemInit <- ZeroCounts
  Scripts <- BootAndCreate
  IrqSem = {disk}
  MaxCount = 2
  IrqAt = "anywhere"
INVARIANT TypeOK
INVARIANT LockDiscipline
INVARIANT ListsLinked
INVARIANT RingsOK
INVARIANT NoTaskLost
INVARIANT OneList
CHECK_DEADLOCK FALSE
