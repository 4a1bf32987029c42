----------------------------- MODULE MCTraining -----------------------------
(* Model-checking instances of Training: who there is. *)
EXTENDS Training

CONSTANTS anna, ben

OneOperator == {anna}
TwoOperators == {anna, ben}
=============================================================================
