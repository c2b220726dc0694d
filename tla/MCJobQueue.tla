------------------------------ MODULE MCJobQueue -------------------------------
(* TLC instances of JobQueue: workers and keys are interchangeable. *)
EXTENDS JobQueue, TLC

Symmetry == Permutations(Workers) \cup Permutations(Keys)
================================================================================
