----------------------------- MODULE MCPipeline -----------------------------
(* Instances of PipelineRun for TLC.                                       *)
EXTENDS PipelineRun, TLC

CONSTANTS api, web

Everywhere == [s \in Stages |-> {}]

(* Two checkpoints, a stage that may fail, one for a single component.     *)
TwoCheckpoints ==
    [gated |-> {2, 3}, scope |-> [Everywhere EXCEPT ![3] = {api}], tagged |-> FALSE,
     continues |-> {2}, selector |-> 0, optional |-> {}, rules |-> {}]

(* The first stage is gated; the second composes the team and may drop the *)
(* third, which is gated too.                                              *)
Composed ==
    [gated |-> {1, 3}, scope |-> Everywhere, tagged |-> FALSE,
     continues |-> {}, selector |-> 2, optional |-> {3},
     rules |-> {"approve", "deny"}]

(* A stage restricted to a tag of the group.                               *)
Tagged ==
    [gated |-> {2}, scope |-> Everywhere, tagged |-> TRUE,
     continues |-> {}, selector |-> 0, optional |-> {}, rules |-> {}]

AllPipelines == {TwoCheckpoints, Composed, Tagged}
=============================================================================
