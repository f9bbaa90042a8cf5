-------------------------- MODULE ConfirmedEffect --------------------------
(***************************************************************************)
(* What one confirmed effect promises, whoever runs it and whatever fails. *)
(* A confirmation opens the effect.  It is decided once: withdrawn, and    *)
(* then nothing is ever written, or authorized, the point of no return.    *)
(* Only an authorized effect writes, and it may write more than once.  Its *)
(* outcome is reported once, and success only when something was written.  *)
(* An opened effect is eventually decided, an authorized one eventually    *)
(* reported.                                                               *)
(***************************************************************************)

VARIABLES
    decision,   \* none, open, withdrawn or authorized
    written,    \* something was written in the name of the effect
    outcome     \* none, succeeded, failed_terminal or outcome_unknown

effectVars == <<decision, written, outcome>>

Outcomes == {"succeeded", "failed_terminal", "outcome_unknown"}

Init == decision = "none" /\ written = FALSE /\ outcome = "none"

\* A run that ends without a confirmation leaves the effect at "none".
Open == decision = "none" /\ decision' = "open" /\ UNCHANGED <<written, outcome>>

Decide ==
    /\ decision = "open"
    /\ decision' \in {"withdrawn", "authorized"}
    /\ UNCHANGED <<written, outcome>>

Write == decision = "authorized" /\ written' = TRUE /\ UNCHANGED <<decision, outcome>>

Report ==
    /\ decision = "authorized" /\ outcome = "none"
    /\ outcome' \in Outcomes
    /\ outcome' = "succeeded" => written
    /\ UNCHANGED <<decision, written>>

Next == Open \/ Decide \/ Write \/ Report

Safe == Init /\ [][Next]_effectVars

Spec == Safe /\ WF_effectVars(Decide) /\ WF_effectVars(Report)
=============================================================================
