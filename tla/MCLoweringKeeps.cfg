SPECIFICATION FairSpec
CONSTANTS
  MemSize = 40
  SysResult = 55
  Junk = 99
  Scancode = 30
  Ops = {"gate_cas", "wire_len", "wire_emit"}
  Operands <- MCOperands
  MoreRegisters = {"rsi", "r8", "r14"}
  Dests = {"rax", "rbx", "rcx", "rdx", "rdi", "r12", "r14"}
  Start <- MCStart
  StartMem <- MCStartMem
INVARIANT KeepsAsDocumented
CHECK_DEADLOCK FALSE
