-------------------------- MODULE MCWaitObjects --------------------------
(* TLC instances of WaitObjects. *)
EXTENDS WaitObjects, TLC

\* Workers are interchangeable: no constant tells them apart.
WorkerSymmetry == Permutations(Workers)

=============================================================================
