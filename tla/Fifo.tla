-------------------------------- MODULE Fifo --------------------------------
(***************************************************************************)
(* What a pipe promises: a first-in first-out queue of at most Capacity    *)
(* bytes, between two ends that are closed once.                           *)
(***************************************************************************)
EXTENDS Naturals, Sequences

CONSTANTS Byte, Capacity

VARIABLES q, readopen, writeopen

vars == <<q, readopen, writeopen>>

Init == q = <<>> /\ readopen = TRUE /\ writeopen = TRUE

Write == /\ writeopen
         /\ \E n \in 1..Capacity - Len(q) : \E s \in [1..n -> Byte] : q' = q \o s
         /\ UNCHANGED <<readopen, writeopen>>

Read == /\ readopen
        /\ \E n \in 1..Len(q) : q' = SubSeq(q, n + 1, Len(q))
        /\ UNCHANGED <<readopen, writeopen>>

CloseRead == readopen /\ readopen' = FALSE /\ UNCHANGED <<q, writeopen>>

CloseWrite == writeopen /\ writeopen' = FALSE /\ UNCHANGED <<q, readopen>>

Next == Write \/ Read \/ CloseRead \/ CloseWrite

Spec == Init /\ [][Next]_vars
=============================================================================
