------------------------------ MODULE MCTrader ------------------------------
(* Model-checking instances of Trader: the sets of coroutines, and the       *)
(* symmetry of the callers, which only safety runs use.                      *)
EXTENDS Trader, TLC

CONSTANTS scheduler, api, viewer

OneCaller == {scheduler}
TwoCallers == {scheduler, api}
OneViewer == {viewer}
NoViewers == {}

CallerSymmetry == Permutations(TwoCallers)
=============================================================================
