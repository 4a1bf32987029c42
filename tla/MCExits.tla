------------------------------ MODULE MCExits -------------------------------
(* Model-checking instances of Exits: both engines, in both execution modes. *)
EXTENDS Exits

With(on) == [s \in {"scalping", "local", "emergency", "profit_only",
                    "scalping_guard", "holding_profit", "model_profit"} |-> s \in on]

Guards == {"profit_only", "holding_profit", "model_profit"}

\* The defaults of config.py, the profile for scalping, what differs from them
\* where it matters, and both engines without the profit guard.
SomeSettings ==
    {With(on) : on \in {
        {"emergency"} \cup Guards,
        {"local"} \cup Guards,
        {"scalping", "emergency"} \cup Guards,
        {"scalping", "scalping_guard", "local"} \cup Guards,
        {"emergency"},
        {"scalping", "local"}}}

LocalScalping == {With({"scalping", "local", "emergency"} \cup Guards)}
GuardedScalping == {With({"scalping", "scalping_guard"} \cup Guards)}
=============================================================================
