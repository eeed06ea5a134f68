---------------------------- MODULE MCAutopilot -----------------------------
(* Instances of AutopilotQueue for TLC.                                    *)
EXTENDS AutopilotQueue, TLC

CONSTANTS d1, d2, o1, o2

(* Drains run the same code and are compared nowhere; so do operators.     *)
Interchangeable == Permutations(Drains) \cup Permutations(Operators)
=============================================================================
