------------------------------- MODULE MCLog --------------------------------
(***************************************************************************)
(* Instances of Log for TLC.                                               *)
(***************************************************************************)
EXTENDS Log
=============================================================================
