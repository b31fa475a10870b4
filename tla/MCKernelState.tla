----------------------------- MODULE MCKernelState ----------------------------
(* KernelState for TLC: all twenty-one firmwares, one USB port, and three   *)
(* free slots of the table, the last slot among them.                       *)
EXTENDS KernelState

MCConsoles == {Order[i] : i \in DOMAIN Order}
MCSlots == {0, 1, 2, 8, 15}
=============================================================================
