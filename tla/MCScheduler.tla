---------------------------- MODULE MCScheduler ----------------------------
(* Model-checking instances of Scheduler: the operators, and the symmetry of *)
(* operators and counted reasons, which only safety runs use.                *)
EXTENDS Scheduler, TLC

CONSTANTS anna, ben, cooldown, budget

OneAdmin == {anna}
TwoAdmins == {anna, ben}
OneRisk == {cooldown}
TwoRisks == {cooldown, budget}

OperatorSymmetry == Permutations(TwoAdmins) \cup Permutations(TwoRisks)
=============================================================================
