---------------------------- MODULE OneDelivery ----------------------------
(***************************************************************************)
(* What the notification outbox promises of each message, whatever its     *)
(* workers, the provider and the clock do: the recipient gets it at most   *)
(* once, "done" is only said of a message he got, and a message declared   *)
(* done or cancelled keeps that verdict for ever.  A message whose fate    *)
(* cannot be established goes to a human, who may still cancel it.         *)
(***************************************************************************)
CONSTANT Messages

VARIABLES verdict, received

Verdicts == {"none", "open", "done", "cancelled", "review"}

PromiseInit ==
    /\ verdict = [m \in Messages |-> "none"]
    /\ received = [m \in Messages |-> 0]

Becomes(m, v) == verdict' = [verdict EXCEPT ![m] = v] /\ UNCHANGED received

Ask(m) == verdict[m] = "none" /\ Becomes(m, "open")

\* A message already handed over when its intention is revoked may still arrive.
Receive(m) ==
    /\ verdict[m] # "none"
    /\ received[m] = 0
    /\ received' = [received EXCEPT ![m] = 1]
    /\ UNCHANGED verdict

Confirm(m) == verdict[m] = "open" /\ received[m] = 1 /\ Becomes(m, "done")

Revoke(m) == verdict[m] \in {"open", "review"} /\ Becomes(m, "cancelled")

Review(m) == verdict[m] = "open" /\ Becomes(m, "review")

\* A retraction asks for its acknowledgments and revokes the invites at once.
Retract(asked, revoked) ==
    /\ \A m \in revoked : verdict[m] \in {"open", "review"}
    /\ verdict' = [m \in Messages |->
                     CASE m \in revoked -> "cancelled"
                       [] m \in asked /\ verdict[m] = "none" -> "open"
                       [] OTHER -> verdict[m]]
    /\ UNCHANGED received

PromiseNext ==
    \/ \E m \in Messages :
         Ask(m) \/ Receive(m) \/ Confirm(m) \/ Revoke(m) \/ Review(m)
    \/ \E asked, revoked \in SUBSET Messages : Retract(asked, revoked)

Promise == PromiseInit /\ [][PromiseNext]_<<verdict, received>>
=============================================================================
