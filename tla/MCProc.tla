------------------------------- MODULE MCProc -------------------------------
(***************************************************************************)
(* Instances of Proc for TLC.  The .cfg files choose the CPUs, the size of *)
(* the table and the system calls the programs make.                       *)
(***************************************************************************)
EXTENDS ProcInv
=============================================================================
