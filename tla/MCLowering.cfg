SPECIFICATION FairSpec
CONSTANTS
  MemSize = 40
  SysResult = 55
  Junk = 99
  Scancode = 30
  Ops <- AllOps
  Operands <- MCOperands
  MoreRegisters = {"rsi", "r8", "r14"}
  Dests = {"rax", "rbx", "rcx", "rdx", "rdi", "r12", "r14"}
  Start <- MCStart
  StartMem <- MCStartMem
INVARIANT Faithful
INVARIANT Keeps
PROPERTY Ends
CHECK_DEADLOCK FALSE
