------------------------------ MODULE MCJobQueue ------------------------------
(***************************************************************************)
(* Small instances of JobQueue.  Goroutines, clients and tasks are            *)
(* interchangeable; the runs that check liveness do not use the symmetry.     *)
(***************************************************************************)
EXTENDS JobQueue, TLC

Interchangeable == Permutations(Goroutines) \cup Permutations(Clients) \cup Permutations(Tasks)

================================================================================
