------------------------------ MODULE MCWorker -------------------------------
(* Worker on small instances.  The sets of special jobs are given by name, so *)
(* handlers and processes are interchangeable and jobs are not.               *)
EXTENDS Worker, TLC

CONSTANTS j1, j2, j3

Interchangeable == Permutations(Handlers) \cup Permutations(Procs)
==============================================================================
