------------------------------ MODULE MCSwarm -------------------------------
(* Instances of SwarmBus for TLC.                                          *)
EXTENDS SwarmBus, TLC

CONSTANTS i1, i2, w1, w2, acme, other

OneWorkerEach == w1 :> i1 @@ w2 :> i2

(* Nobody serves the tenant `other`.                                       *)
BothServeAcme == i1 :> {acme} @@ i2 :> {acme}
=============================================================================
