------------------------------ MODULE MCSkill -------------------------------
(* Instances of SkillAccept for TLC.                                       *)
EXTENDS SkillAccept, TLC

CONSTANTS p1, p2

(* Two drafts of one skill: a fix of it as it was, and a captured one that *)
(* names no baseline.                                                      *)
FromOriginalOrAnywhere == p1 :> Original @@ p2 :> NoBase
=============================================================================
