----------------------------- MODULE MCExecutor ------------------------------
(* Executor on a small instance; where no caller is in Holding, they are   *)
(* interchangeable.                                                        *)
EXTENDS Executor, TLC

CallerSymmetry == Permutations(Callers)
==============================================================================
