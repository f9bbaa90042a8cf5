----------------------------- MODULE HeldPlace -----------------------------
(***************************************************************************)
(* What the admission of voice sessions promises: no more places are held  *)
(* than there are; a principal holds one at most, a new one replacing only *)
(* a place no call was recorded on; a place on which a call was recorded   *)
(* comes back only after the provider accepted to hang up that call; and a *)
(* session declared over holds no place, ever again.                       *)
(*                                                                         *)
(* It does not promise that the call ended: the provider's yes may leave   *)
(* it alive, and a doubtful place comes back like a silent one.            *)
(***************************************************************************)
EXTENDS Naturals, FiniteSets

CONSTANTS Sessions, Principals, Nobody, Places

VARIABLES place, holder, over

PromiseInit ==
    /\ place = [s \in Sessions |-> "free"]
    /\ holder = [s \in Sessions |-> Nobody]
    /\ over = {}

HeldBy(p) == {s \in Sessions : holder[s] = p}

HeldByOthers(p) == {s \in Sessions : holder[s] \notin {p, Nobody}}

Reserve(s, p) ==
    /\ place[s] = "free" /\ s \notin over
    /\ \A r \in HeldBy(p) : place[r] = "taken"
    /\ Cardinality(HeldByOthers(p)) < Places
    /\ place' = [r \in Sessions |-> IF r = s THEN "taken"
                                    ELSE IF r \in HeldBy(p) THEN "free" ELSE place[r]]
    /\ holder' = [r \in Sessions |-> IF r = s THEN p
                                     ELSE IF r \in HeldBy(p) THEN Nobody ELSE holder[r]]
    /\ UNCHANGED over

Becomes(s, p) == place' = [place EXCEPT ![s] = p] /\ UNCHANGED <<holder, over>>

Record(s) == place[s] = "taken" /\ Becomes(s, "calling")

\* The call is over, or the provider only says so.
Dismiss(s) == place[s] = "calling" /\ (Becomes(s, "silent") \/ Becomes(s, "doubtful"))

FallSilent(s) == place[s] = "doubtful" /\ Becomes(s, "silent")

Freed(s) ==
    /\ place' = [place EXCEPT ![s] = "free"]
    /\ holder' = [holder EXCEPT ![s] = Nobody]

GiveBack(s) == place[s] \in {"taken", "silent", "doubtful"} /\ Freed(s) /\ UNCHANGED over

Close(s) == place[s] # "calling" /\ Freed(s) /\ over' = over \cup {s}

PromiseNext ==
    \E s \in Sessions :
        \/ \E p \in Principals : Reserve(s, p)
        \/ Record(s) \/ Dismiss(s) \/ FallSilent(s) \/ GiveBack(s) \/ Close(s)

Promise == PromiseInit /\ [][PromiseNext]_<<place, holder, over>>
=============================================================================
