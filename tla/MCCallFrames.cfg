SPECIFICATION Spec
CONSTANTS
  Fns = {"f", "g"}
  LocalSizes <- MCLocals
  Arity <- MCArity
  CodeOf <- MCCode
  Start <- MCStart
  Values = {7}
  Operands <- MCOperands
  Touched = {"rbx"}
  RedZone = 4
  IrqWords = 5
  StackTop = 40
  MaxDepth = 2
  MaxStmts = 3
  MaxIrqs = 1
INVARIANT ArgsArrive
INVARIANT FramesKeep
INVARIANT CalleeSaved
CHECK_DEADLOCK FALSE
