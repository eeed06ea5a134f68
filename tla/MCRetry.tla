------------------------------ MODULE MCRetry -------------------------------
(* Instances of RetryQueue for TLC.                                        *)
EXTENDS RetryQueue, TLC

CONSTANTS d1, d2

(* Daemons run the same code and are compared nowhere.                     *)
Interchangeable == Permutations(Daemons)
=============================================================================
