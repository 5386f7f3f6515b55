----------------------------- MODULE MCLowering -----------------------------
(* Instances of Lowering.                                                  *)
EXTENDS Lowering

CONSTANT MoreRegisters  \* registers that only one and two operands range over

\* Small distinct values; r11 and r15 are not the user's.
MCStart ==
  [rax |-> 1, rbx |-> 2, rcx |-> 3, rdx |-> 4, rsi |-> 5, rdi |-> 6, r8 |-> 24, r9 |-> 8,
   r10 |-> 9, r12 |-> 10, r13 |-> 11, r14 |-> 12, r11 |-> 98, r15 |-> 97, rbp |-> 96]

\* Strings of four cells, a zero at every fifth: some are equal, some are not.
\* At 3 and at 24 contexts have been saved.
MCStartMem == [a \in Cells |-> CASE a = 16 -> 3 [] a = 37 -> 24 [] OTHER -> a % 5]

\* A system call's argument registers, a temporary, an ordinary register.
Few == {Reg("rdi"), Reg("rdx"), Reg("rbx"), Reg("r13"), Num(3)}
Some == Few \cup {Reg("rax"), Reg("rcx"), Reg("r12"), Sum("rcx", "rdx")}

MCOperands(n) ==
  CASE n >= 4 -> Few
    [] n = 3 -> Some
    [] OTHER -> Some \cup {Reg(r) : r \in MoreRegisters} \cup {Sum("rax", "r12"), Sum("r12", "rbx")}

AllOps == DOMAIN Arity
=============================================================================
