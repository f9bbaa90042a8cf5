---------------------------- MODULE BilledMarket ----------------------------
(***************************************************************************)
(* What the invoices of one signed quote promise together: calls are paid  *)
(* out of the market one after the other, the settlement asks for exactly  *)
(* what is left, and while it stands nothing else moves.                   *)
(***************************************************************************)
EXTENDS Naturals

CONSTANT Market   \* the signed total

VARIABLES called,    \* what the standing deposit and situations ask for
          settled,   \* a final invoice stands
          balance,   \* what it asks for
          withdrawn  \* the client has withdrawn from the contract

marketVars == <<called, settled, balance, withdrawn>>

Init == called = 0 /\ ~settled /\ balance = 0 /\ ~withdrawn

Call ==
    /\ ~settled /\ ~withdrawn
    /\ called' \in (called + 1)..Market
    /\ UNCHANGED <<settled, balance, withdrawn>>

Settle ==
    /\ ~settled /\ ~withdrawn
    /\ settled' = TRUE /\ balance' = Market - called
    /\ UNCHANGED <<called, withdrawn>>

\* A credit note takes back a call; the settlement is taken back first.
TakeBackCall ==
    /\ ~settled
    /\ called > 0 /\ called' \in 0..(called - 1)
    /\ UNCHANGED <<settled, balance, withdrawn>>

TakeBackSettlement ==
    /\ settled
    /\ settled' = FALSE /\ balance' = 0
    /\ UNCHANGED <<called, withdrawn>>

Withdraw ==
    /\ withdrawn' = TRUE
    /\ UNCHANGED <<called, settled, balance>>

Next == Call \/ Settle \/ TakeBackCall \/ TakeBackSettlement \/ Withdraw

Spec == Init /\ [][Next]_marketVars

=============================================================================
