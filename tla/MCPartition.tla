---------------------------- MODULE MCPartition -----------------------------
(* Instances of PartitionDispatch for TLC.                                 *)
EXTENDS PartitionDispatch

CONSTANTS r1, d1, d2, c1, x1, alice, bob

(* Task 2 depends on task 1, and task 4 on tasks 2 and 3, of those there   *)
(* are; any other task stands on its own.                                  *)
Needs(t) == (CASE t = 2 -> {1} [] t = 4 -> {2, 3} [] OTHER -> {}) \cap Tasks

Plan(halt) == [tasks |-> Tasks, deps |-> [t \in Tasks |-> Needs(t)], halt |-> halt]

ContinuingPlan == {Plan(FALSE)}

HaltingPlan == {Plan(TRUE)}

BothPlans == {Plan(FALSE), Plan(TRUE)}

(* The API and the CLI dispatch from the ratify call that won, and pass    *)
(* the approver's name as claimed_by.                                      *)
OneApprover == [d \in Dispatchers |-> alice]

FromRatify == [d \in Dispatchers |-> r1]

(* Any other caller of dispatch_partition, at any time.                    *)
FromAnywhere == [d \in Dispatchers |-> NULL]
=============================================================================
