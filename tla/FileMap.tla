------------------------------- MODULE FileMap -------------------------------
(***************************************************************************)
(* What a program may expect of kernel:ramfs_init, ramfs_put and ramfs_get *)
(* (docs/KERNEL_CONTRACT.md, tier 4): a map from names to addresses with   *)
(* room for Capacity puts.  The first put of a name is the one that counts.*)
(***************************************************************************)
EXTENDS Naturals

CONSTANTS Names, Addresses, Capacity,
          Nameless   \* the empty name

VARIABLES files, used

Missing == 0

MapInit ==
  /\ files = [n \in Names |-> Missing]
  /\ used = 0

Format ==
  /\ files' = [n \in Names |-> Missing]
  /\ used' = 0

Put(n, a) ==
  /\ used < Capacity /\ n # Nameless
  /\ files' = [m \in Names |->
                 IF m = Nameless THEN Missing
                 ELSE IF m = n /\ files[m] = Missing THEN a
                 ELSE files[m]]
  /\ used' = used + 1

\* A file without a name takes no room, and lasts until the next put.
PutNameless(a) ==
  /\ used < Capacity
  /\ files' = [files EXCEPT ![Nameless] = a]
  /\ UNCHANGED used

\* A put into a full map is lost.

MapNext ==
  \/ Format
  \/ \E n \in Names, a \in Addresses : Put(n, a)
  \/ \E a \in Addresses : PutNameless(a)

MapVars == <<files, used>>

MapSpec == MapInit /\ [][MapNext]_MapVars
=============================================================================
