SPECIFICATION FairSpec
CONSTANTS
  init = init
  idle1 = idle1
  idle2 = idle2
  idle3 = idle3
  boot = boot
  disk = disk
  Task = {init, idle1, idle2}
  InitTask = init
  Sem = {boot, disk}
  Ready = Ready
  NULL = NULL
  SemInit <- ZeroCounts
  Scripts <- BootScripts
  IrqSem = {disk}
  MaxCount = 2
  IrqAt = "unlocked"
INVARIANT ExitNeverReturns
INVARIANT WaitersBlocked
PROPERTY DyingIsFinal
PROPERTY SemaphoreSpec
PROPERTY ReadyRuns
PROPERTY CallsReturn
