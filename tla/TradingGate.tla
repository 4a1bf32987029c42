---------------------------- MODULE TradingGate ----------------------------
(***************************************************************************)
(* What a pause promises, whoever asked for it and whatever happens to the *)
(* process: no scan starts while trading is paused, the reason that paused *)
(* it stays on record, and only a resume lifts it.  Module Scheduler       *)
(* implements this as long as its database does not fail.                  *)
(***************************************************************************)
EXTENDS Naturals

CONSTANTS
    Reasons,    \* why trading may be paused
    Lapsing     \* reasons that a database without a scheduler row may outlive

VARIABLES
    reason,     \* why trading is paused, or "none"
    scans       \* runs of the trader the scheduler has not seen the end of

gateVars == <<reason, scans>>

GateInit == reason \in Reasons \cup {"none"} /\ scans = 0

\* A pause is ignored while there is one.
PauseFor(why) == reason' = IF reason = "none" THEN why ELSE reason

Pause == (\E why \in Reasons : PauseFor(why)) /\ UNCHANGED scans

Resume == reason' = "none" /\ UNCHANGED scans

BeginScan == reason = "none" /\ scans' = scans + 1 /\ UNCHANGED reason

\* A scan may end with a reason to pause.
EndScan ==
    /\ scans > 0
    /\ scans' = scans - 1
    /\ UNCHANGED reason \/ \E why \in Reasons : PauseFor(why)

Crash == scans' = 0 /\ UNCHANGED reason

Lapse == scans = 0 /\ reason \in Lapsing /\ reason' = "none" /\ UNCHANGED scans

GateNext == Pause \/ Resume \/ BeginScan \/ EndScan \/ Crash \/ Lapse

GateSpec == GateInit /\ [][GateNext]_gateVars

=============================================================================
