-------------------------- MODULE CustomerContact --------------------------
(***************************************************************************)
(* The run of the Jarvis definition customer_contact@1: the conversation   *)
(* in which Bob proposes to create or to modify one customer record, shows *)
(* the proposal, has it confirmed and then waits for the receipt of the    *)
(* effect.  The definition is a pure reducer, so this module has no        *)
(* variables: a command is a guard (CanX) and the run it produces.         *)
(*                                                                         *)
(* A run keeps what its transitions and the dispatcher read: the phase,    *)
(* the CAS revision, the step and wake budgets, the verified revision of   *)
(* the target (0 when there is none) and the revision sealed in the        *)
(* proposal, the state of the one confirmation, whether a failure reason   *)
(* is sealed, and whether a receipt of success is recorded.  Identifiers,  *)
(* digests and field values are abstracted: the target digest is an        *)
(* injective image of the target's revision.                               *)
(***************************************************************************)
EXTENDS Naturals

CONSTANTS
    MaxSteps,   \* CUSTOMER_CONTACT_LIMITS.maxSteps (24 in the code)
    MaxWakes    \* CUSTOMER_CONTACT_LIMITS.maxWakes (4 in the code)

ASSUME BudgetAssumption == MaxSteps \in Nat \ {0} /\ MaxWakes \in Nat \ {0}

Modes == {"create", "update"}

Phases == {"none", "resolving_customer", "awaiting_duplicate_review",
           "preparing_proposal", "awaiting_confirmation", "committing",
           "cancelling", "completed", "cancelled", "failed"}

\* "closed" stands for rejected, expired and invalidated alike.
Confirmations == {"none", "issued", "presented", "consumed", "closed"}

TerminalPhases == {"completed", "cancelled", "failed"}

Run == [phase : Phases, mode : Modes, rev : Nat, steps : 0..MaxSteps,
        wakes : 0..MaxWakes, target : Nat, sealed : Nat, confirmation : Confirmations,
        failure : BOOLEAN, receipt : BOOLEAN]

\* The seed of the admission: revision 0, no state, never persisted.
NoRun(mode) ==
    [phase |-> "none", mode |-> mode, rev |-> 0, steps |-> 0, wakes |-> 0,
     target |-> 0, sealed |-> 0, confirmation |-> "none",
     failure |-> FALSE, receipt |-> FALSE]

---------------------------------------------------------------------------
(* withState, withBudgetExemptState and the budget check of commit.        *)

InBudget(run) == run.steps < MaxSteps

Stepped(run) == [run EXCEPT !.rev = @ + 1, !.steps = @ + 1]

\* Mutant: the counter of an exempt command is not capped.
ExemptUncapped(run) == Stepped(run)

ExemptStepped(run) ==
    [run EXCEPT !.rev = @ + 1,
                !.steps = IF @ < MaxSteps THEN @ + 1 ELSE MaxSteps]

---------------------------------------------------------------------------
(* Resolution of the customer.                                             *)

Started(run) == [Stepped(run) EXCEPT !.phase = "resolving_customer"]

CanResolve(run) == run.phase = "resolving_customer" /\ InBudget(run)

\* No duplicate for a creation; for a modification the target is re-read
\* under its row lock and that revision becomes the verified one.
Resolved(run, current) ==
    [Stepped(run) EXCEPT
        !.phase = "preparing_proposal",
        !.target = IF run.mode = "update" THEN current ELSE @]

WithDuplicates(run) == [Stepped(run) EXCEPT !.phase = "awaiting_duplicate_review"]

CanChooseDuplicate(run) == run.phase = "awaiting_duplicate_review" /\ InBudget(run)

ContinueCreate(run) == [Stepped(run) EXCEPT !.phase = "preparing_proposal"]

UseExisting(run) == [Stepped(run) EXCEPT !.phase = "completed"]

---------------------------------------------------------------------------
(* The proposal and its one-shot confirmation.                             *)

CanStage(run, current) ==
    /\ run.phase = "preparing_proposal"
    /\ InBudget(run)
    /\ run.wakes < MaxWakes
    /\ run.mode = "update" => run.target = current

Staged(run) ==
    [Stepped(run) EXCEPT
        !.phase = "awaiting_confirmation", !.wakes = @ + 1,
        !.sealed = run.target, !.confirmation = "issued"]

AwaitsConfirmation(run) == run.phase = "awaiting_confirmation" /\ InBudget(run)

CanPresent(run, ttlPast) ==
    AwaitsConfirmation(run) /\ run.confirmation = "issued" /\ ~ttlPast

Presented(run) == [Stepped(run) EXCEPT !.confirmation = "presented"]

\* closeProposal: the confirmation is spent and the preparation reopens.
ProposalClosed(run) ==
    [Stepped(run) EXCEPT
        !.phase = "preparing_proposal", !.sealed = 0, !.confirmation = "closed"]

CanConfirm(run) == AwaitsConfirmation(run) /\ run.confirmation = "presented"

\* The target moved between the presentation and the confirmation.
StaleTarget(run, current) == run.mode = "update" /\ run.sealed # current

\* "current" is the target's revision, re-read under its row lock.
Invalidated(run, current) == [ProposalClosed(run) EXCEPT !.target = current]

Consumed(run) ==
    [Stepped(run) EXCEPT !.phase = "committing", !.confirmation = "consumed"]

---------------------------------------------------------------------------
(* Closing: the receipt of the effect, and cancellation.  Both are exempt  *)
(* from the step budget.                                                   *)

ExpectsReceipt(run) == run.phase \in {"committing", "cancelling"}

\* Mutant: a requested cancellation masks a success.
ReceiptMasked(run, succeeded) ==
    [ExemptStepped(run) EXCEPT
        !.phase = IF run.phase = "cancelling" THEN "cancelled"
                  ELSE IF succeeded THEN "completed" ELSE "failed"]

ReceiptRecorded(run, succeeded) ==
    IF succeeded
      THEN [ExemptStepped(run) EXCEPT !.phase = "completed", !.receipt = TRUE]
      ELSE [ExemptStepped(run) EXCEPT
              !.phase = IF run.phase = "cancelling" THEN "cancelled" ELSE "failed",
              !.failure = TRUE]

CanCancel(run) ==
    run.phase \notin TerminalPhases \cup {"none", "cancelling"}

CancelRequested(run) ==
    IF run.phase = "committing"
      THEN [ExemptStepped(run) EXCEPT !.phase = "cancelling"]
      ELSE [ExemptStepped(run) EXCEPT
              !.phase = "cancelled",
              !.confirmation = IF @ \in {"issued", "presented"} THEN "closed" ELSE @]
=============================================================================
