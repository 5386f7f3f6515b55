-------------------------- MODULE MCKernelServices --------------------------
(***************************************************************************)
(* A table of two files, with names of up to two characters, so that a     *)
(* name of three is cut off; two slots, two bits, and two orders of the    *)
(* blocks.  A put into the full table stores the address of the file,      *)
(* which may be inside the section, in the heap's pointer in the first     *)
(* order and in the system call table in the second, where the heap is     *)
(* followed by the files.                                                  *)
(***************************************************************************)
EXTENDS KernelServices

MCNames == {<<>>, <<1>>, <<1, 2>>, <<1, 2, 1>>}
\* Consecutive blocks in the order of a sequence.
Placed(order) ==
  [b \in Blocks |->
     LET before_b == {i \in DOMAIN order : \A j \in 1..i : order[j] # b}
     IN FoldLeft(LAMBDA sum, i : IF i \in before_b THEN sum + Size(order[i]) ELSE sum,
                 Base, [i \in DOMAIN order |-> i])]
MCLayouts ==
  {Placed(<<"ramfs", "systab", "net_allow", "kheap_ptr", "kheap">>),
   Placed(<<"kheap", "ramfs", "net_allow", "kheap_ptr", "systab">>)}
=============================================================================
