SPECIFICATION FairSpec
CONSTANTS
  Default = 1048592
  Irq0 = 1114120
  Irq0Full = 1114180
  PfStub = 1048642
  NmiStub = 1114300
  LastVector = 17
  Timer = 15
  Keyboard = 16
  BiosBase = 8
  Devices = {15, 16}
  Reinstall = TRUE
  MaxStmts = 6
  MaxIrqs = 3
INVARIANT GatesAsInstalled
INVARIANT Transparent
INVARIANT OneAtATime
PROPERTY NoEntryAstray
PROPERTY TimerServed
CHECK_DEADLOCK FALSE
