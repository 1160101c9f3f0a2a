---------------------------- MODULE MCStewarding ----------------------------
(* The four parts of stewarding, checked side by side: they share no         *)
(* variable, so instead of their product a behaviour picks one of them and   *)
(* the others stay as they began.                                            *)
EXTENDS Collisions, YellowFlags, TrackRules, Penalties, TLC
CONSTANTS d1, d2, v1
VARIABLE part

vars == <<part, collisionVars, flagVars, ruleVars, penaltyVars>>

Init ==
  /\ part \in {"collisions", "flags", "rules", "penalties"}
  /\ CollisionsInit /\ FlagsInit /\ RulesInit /\ PenaltiesInit
  /\ part # "rules" => start.mode = "disabled"
  /\ part # "penalties" => stops.client = "old"

Next ==
  /\ UNCHANGED part
  /\ \/ /\ part = "collisions" /\ CollisionsNext
        /\ UNCHANGED <<flagVars, ruleVars, penaltyVars>>
     \/ /\ part = "flags" /\ FlagsNext
        /\ UNCHANGED <<collisionVars, ruleVars, penaltyVars>>
     \/ /\ part = "rules" /\ RulesNext
        /\ UNCHANGED <<collisionVars, flagVars, penaltyVars>>
     \/ /\ part = "penalties" /\ PenaltiesNext
        /\ UNCHANGED <<collisionVars, flagVars, ruleVars>>

Spec == Init /\ [][Next]_vars

\* The drivers are alike.
Symmetry == Permutations({d1, d2})

\* Old clients differ only in who counts their stops.
PenaltiesFor == [reporting |-> 2, old |-> 1]

\* Each part keeps to its types.
StewardingTypeOK ==
  CollisionsTypeOK /\ FlagsTypeOK /\ RulesTypeOK /\ PenaltiesTypeOK
=============================================================================
