-------------------------- MODULE RecordedPayment --------------------------
(***************************************************************************)
(* What the reconciliation promises of the payments a provider takes for   *)
(* an invoice, whatever its messages, handlers and crashes do: a payment   *)
(* is recorded once, after it was taken and never above what is due, and   *)
(* the provider is told to stop announcing it only then.                   *)
(***************************************************************************)
EXTENDS Naturals

CONSTANTS Payments, Due

VARIABLES stage, amount, received, told

PromiseInit ==
    /\ stage = [p \in Payments |-> "none"]
    /\ amount = [p \in Payments |-> 0]
    /\ received = 0
    /\ told = {}

\* The amount of a payment is fixed before anything is taken.
Ask(p) ==
    /\ stage[p] = "none"
    /\ \E a \in 1..Due : amount' = [amount EXCEPT ![p] = a]
    /\ UNCHANGED <<stage, received, told>>

Take(p) ==
    /\ stage[p] = "none"
    /\ stage' = [stage EXCEPT ![p] = "taken"]
    /\ UNCHANGED <<amount, received, told>>

\* Whether the message acted upon is the last one is left open.
Record(p) ==
    /\ stage[p] = "taken"
    /\ received + amount[p] <= Due
    /\ stage' = [stage EXCEPT ![p] = "recorded"]
    /\ received' = received + amount[p]
    /\ told' \in {told, told \cup {p}}
    /\ UNCHANGED amount

Tell(p) ==
    /\ stage[p] = "recorded"
    /\ told' = told \cup {p}
    /\ UNCHANGED <<stage, amount, received>>

\* Money that comes in another way.
ReceiveElsewhere ==
    /\ \E total \in received..Due : received' = total
    /\ UNCHANGED <<stage, amount, told>>

PromiseNext ==
    \/ \E p \in Payments : Ask(p) \/ Take(p) \/ Record(p) \/ Tell(p)
    \/ ReceiveElsewhere

Promise == PromiseInit /\ [][PromiseNext]_<<stage, amount, received, told>>
=============================================================================
