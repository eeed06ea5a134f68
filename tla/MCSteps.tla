------------------------------ MODULE MCSteps -------------------------------
(* Instances of StepRun for TLC.                                           *)
EXTENDS StepRun

Plain ==
    [approval |-> FALSE, rules |-> {}, blocks |-> {}, batched |-> FALSE, worktree |-> FALSE,
     gated |-> {}, lenient |-> {}, developer |-> FALSE, review |-> FALSE, git |-> TRUE]

Gated == [Plain EXCEPT !.gated = {2, 3}]

(* A developer's task, which falls back and is deferred, and whose gated   *)
(* step may fail.                                                          *)
Developer == [Plain EXCEPT !.gated = {2}, !.lenient = {2}, !.developer = TRUE]

(* A task that needs approval itself; with a review, or with rules.        *)
Approved == [Plain EXCEPT !.approval = TRUE, !.gated = {3}, !.review = TRUE]
Ruled == [Plain EXCEPT !.approval = TRUE, !.rules = {"approve", "deny"}]

(* Tasks that one of the gates, the batch or the worktree stops.           *)
Stopped ==
    {[Plain EXCEPT !.blocks = {gate}, !.approval = ask] :
         gate \in {"checkout", "cve", "licence"}, ask \in BOOLEAN}
    \cup {[Plain EXCEPT !.batched = TRUE], [Gated EXCEPT !.worktree = TRUE]}

AllTasks == {Gated, Developer, Approved, Ruled} \cup Stopped
Unlicensed == {[Plain EXCEPT !.blocks = {"licence"}]}
=============================================================================
