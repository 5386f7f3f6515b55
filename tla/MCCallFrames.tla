---------------------------- MODULE MCCallFrames ----------------------------
(* Two functions: one with two arguments and locals of one and two words,    *)
(* one with neither.                                                         *)
EXTENDS CallFrames

MCLocals == [f |-> <<1, 2>>, g |-> <<>>]
MCCode == [main |-> 100, f |-> 101, g |-> 102]
MCArity == [f |-> 2, g |-> 0]
MCStart == [r \in Regs |-> CASE r = "rbx" -> 11 [] r = "r12" -> 12 [] r = "r13" -> 13
                            [] r = "r14" -> 14 [] r = "rsi" -> 5 [] r = "rdi" -> 6 [] OTHER -> 0]
MCOperands ==
  {[kind |-> "reg", a |-> r, n |-> 0] : r \in {"rsi", "rdi"}}
    \cup {[kind |-> "local", a |-> "none", n |-> 1], [kind |-> "sum", a |-> "rbx", n |-> 0]}
=============================================================================
