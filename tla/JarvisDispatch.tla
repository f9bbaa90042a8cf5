-------------------------- MODULE JarvisDispatch --------------------------
(***************************************************************************)
(* One confirmed Jarvis effect on a customer record, from the commands of  *)
(* its run to the receipt that closes it: the admission transactions, the  *)
(* work item and its fenced lease, the dispatch workers (overlapping ticks *)
(* and processes), the customer effect executor, and the artisan editing   *)
(* the same record.                                                        *)
(*                                                                         *)
(* Every action is one database transaction, or one step of a worker       *)
(* between two of them.  Time is abstracted to the events the code reads:  *)
(* a lease expires, executeBy passes, a confirmation's TTL passes.         *)
(* Everything that goes wrong (a crash, a throw, a pause longer than the   *)
(* lease, an outage, a purge, a closed account) is drawn from one bounded  *)
(* budget, so that fairness alone carries the liveness properties.         *)
(***************************************************************************)
EXTENDS CustomerContact

CONSTANTS
    Workers,          \* dispatch ticks that may overlap
    MaxEdits,         \* bound: edits the artisan makes to the record
    MaxDisturbances   \* bound: things that go wrong

ASSUME DispatchAssumption ==
    /\ MaxEdits \in Nat
    /\ MaxDisturbances \in Nat

VARIABLES
    run,            \* the persisted run envelope (agent_missions)
    item,           \* its only work item (jarvis_work_items)
    receiptAt,      \* revision at which the receipt command was admitted, or 0
    worker,         \* what each worker is doing
    customer,       \* the target record
    edits,          \* edits made by the artisan so far
    landed,         \* history: the executor wrote the record
    world,          \* switches and clocks: see World
    disturbances    \* how many things went wrong so far

vars == <<run, item, receiptAt, worker, customer, edits, landed, world, disturbances>>

---------------------------------------------------------------------------
Settled == {"succeeded", "failed_terminal", "outcome_unknown", "cancelled"}

Unauthorized == {"prepared", "leased", "retry_due"}

\* A result digest exists exactly in the settled statuses, a lease token
\* exactly when the lease is not "none"; token and fence change together.
Item == [status : {"none", "authorized"} \cup Unauthorized \cup Settled,
         fence : Nat, lease : {"none", "live", "expired"},
         authorized : BOOLEAN, signalled : BOOLEAN]

NoItem == [status |-> "none", fence |-> 0, lease |-> "none",
           authorized |-> FALSE, signalled |-> FALSE]

Prepared == [NoItem EXCEPT !.status = "prepared"]

\* own is the artisan's latest edit that the record still contains; a
\* record that does not exist yet has revision 0.
Customer == [rev : Nat, own : Nat]

\* Where a worker stands, the fence and the values it holds in memory.
Steps == {"idle", "check", "target", "retry", "cancel", "authorize",
          "reconcile", "execute", "write", "reread", "store",
          "signal", "admit", "ack"}

Worker == [at : Steps, fence : Nat, rev : Nat, copy : Nat,
           out : {"none"} \cup Settled]

Idle == [at |-> "idle", fence |-> 0, rev |-> 0, copy |-> 0, out |-> "none"]

World == [enabled : BOOLEAN, open : BOOLEAN, payload : BOOLEAN,
          ttlPast : BOOLEAN, late : BOOLEAN]

TypeOK ==
    /\ run \in Run
    /\ item \in Item
    /\ receiptAt \in Nat
    /\ worker \in [Workers -> Worker]
    /\ customer \in Customer
    /\ edits \in 0..MaxEdits
    /\ landed \in BOOLEAN
    /\ world \in World
    /\ disturbances \in 0..MaxDisturbances

Init ==
    /\ \E mode \in Modes :
         /\ run = NoRun(mode)
         /\ customer = [rev |-> IF mode = "update" THEN 1 ELSE 0, own |-> 0]
    /\ item = NoItem
    /\ receiptAt = 0
    /\ worker = [w \in Workers |-> Idle]
    /\ edits = 0
    /\ landed = FALSE
    /\ world = [enabled |-> TRUE, open |-> TRUE, payload |-> TRUE,
                ttlPast |-> FALSE, late |-> FALSE]
    /\ disturbances = 0

---------------------------------------------------------------------------
(* Vocabulary of the steps.                                                *)

\* One more thing goes wrong.
Disturb == disturbances < MaxDisturbances /\ disturbances' = disturbances + 1

At(w, step) == worker[w].at = step

Goto(w, step) == worker' = [worker EXCEPT ![w].at = step]

Rest(w) == worker' = [worker EXCEPT ![w] = Idle]

Yield(w, outcome) ==
    worker' = [worker EXCEPT ![w].at = "store", ![w].out = outcome]

\* The lease the worker holds is still the one on the row.
Holds(w) == item.fence = worker[w].fence

Busy(w) == worker[w].at # "idle"

---------------------------------------------------------------------------
(* Commands of the user, each one admission transaction under the run's    *)
(* CAS: a command built on an older revision is refused and changes        *)
(* nothing.  A closed company admits none of them.                         *)

\* Mutant: the cascade forgets its filter on the status.
CascadeAnyStatus(newRun, current) ==
    IF newRun.phase \in {"cancelling", "cancelled"} /\ current.status # "none"
      THEN [current EXCEPT !.status = "cancelled", !.signalled = TRUE]
      ELSE current

\* What an admission writes besides the run: nothing, unless the run is
\* now cancelled or cancelling; then its unauthorized work items are
\* cancelled in the same transaction, and stamped as signalled.
Cascade(newRun, current) ==
    IF newRun.phase \in {"cancelling", "cancelled"} /\ current.status \in Unauthorized
      THEN [current EXCEPT !.status = "cancelled", !.signalled = TRUE]
      ELSE current

Admit(newRun) ==
    /\ world.open
    /\ run' = newRun
    /\ item' = Cascade(newRun, item)

AdmittedAlone(newRun) ==
    /\ Admit(newRun)
    /\ UNCHANGED <<receiptAt, worker, customer, edits, landed, world, disturbances>>

StartRun == run.phase = "none" /\ AdmittedAlone(Started(run))

Resolve ==
    /\ CanResolve(run)
    /\ \/ AdmittedAlone(Resolved(run, customer.rev))
       \/ run.mode = "create" /\ AdmittedAlone(WithDuplicates(run))

ChooseDuplicate ==
    /\ CanChooseDuplicate(run)
    /\ AdmittedAlone(ContinueCreate(run)) \/ AdmittedAlone(UseExisting(run))

StageProposal ==
    /\ CanStage(run, customer.rev)
    /\ Admit(Staged(run))
    /\ world' = [world EXCEPT !.ttlPast = FALSE]
    /\ UNCHANGED <<receiptAt, worker, customer, edits, landed, disturbances>>

Present == CanPresent(run, world.ttlPast) /\ AdmittedAlone(Presented(run))

Reject == AwaitsConfirmation(run) /\ AdmittedAlone(ProposalClosed(run))

\* The three answers to a confirmation: expired, invalidated, consumed.
\* Only the last one creates the work item.
Confirm ==
    /\ CanConfirm(run)
    /\ \/ world.ttlPast /\ AdmittedAlone(ProposalClosed(run))
       \/ /\ ~world.ttlPast /\ StaleTarget(run, customer.rev)
          /\ AdmittedAlone(Invalidated(run, customer.rev))
       \/ /\ ~world.ttlPast /\ ~StaleTarget(run, customer.rev)
          /\ world.open
          /\ run' = Consumed(run)
          /\ item' = Prepared
          /\ UNCHANGED <<receiptAt, worker, customer, edits, landed, world, disturbances>>

CancelRun == CanCancel(run) /\ AdmittedAlone(CancelRequested(run))

\* The artisan saves the same record from his screen.
ArtisanEdit ==
    /\ world.open /\ customer.rev > 0 /\ edits < MaxEdits
    /\ edits' = edits + 1
    /\ customer' = [rev |-> customer.rev + 1, own |-> edits + 1]
    /\ UNCHANGED <<run, item, receiptAt, worker, landed, world, disturbances>>

---------------------------------------------------------------------------
(* The work item repository: each operation is one compare-and-set.        *)

\* Mutant: an expired lease is not claimed again.
DueUnleased == item.status \in {"prepared", "retry_due"}

Due ==
    \/ item.status \in {"prepared", "retry_due"}
    \/ item.status = "leased" /\ item.lease = "expired"

Leased(newStatus) ==
    [item EXCEPT !.status = newStatus, !.fence = @ + 1, !.lease = "live"]

\* claimDue, the only operation behind the dispatch switch.
Claim(w) ==
    /\ world.enabled /\ At(w, "idle") /\ Due
    /\ item' = Leased("leased")
    /\ worker' = [worker EXCEPT ![w].at = "check", ![w].fence = item.fence + 1]
    /\ UNCHANGED <<run, receiptAt, customer, edits, landed, world, disturbances>>

\* reclaimExpiredAuthorized: the previous holder is presumed dead.
Reclaim(w) ==
    /\ At(w, "idle") /\ item.status = "authorized" /\ item.lease = "expired"
    /\ item' = Leased("authorized")
    /\ worker' = [worker EXCEPT ![w].at = "reconcile", ![w].fence = item.fence + 1]
    /\ UNCHANGED <<run, receiptAt, customer, edits, landed, world, disturbances>>

MarkRetryDue(w) ==
    /\ At(w, "retry")
    /\ item' = IF item.status = "leased" /\ Holds(w)
                 THEN [item EXCEPT !.status = "retry_due", !.lease = "none"]
                 ELSE item
    /\ Rest(w)
    /\ UNCHANGED <<run, receiptAt, customer, edits, landed, world, disturbances>>

\* cancelUnauthorized: fenced, but the lease may have expired.
CanWithdraw(w) ==
    item.status \in {"prepared", "leased"} /\ Holds(w) /\ ~item.authorized

Withdraw(w) ==
    /\ At(w, "cancel")
    /\ IF CanWithdraw(w)
         THEN /\ item' = [item EXCEPT !.status = "cancelled", !.lease = "none"]
              /\ Goto(w, "signal")
         ELSE item' = item /\ Rest(w)
    /\ UNCHANGED <<run, receiptAt, customer, edits, landed, world, disturbances>>

\* Mutant: the authorization does not look at the status.
CanAuthorizeAnyStatus(w) == Holds(w) /\ item.lease = "live" /\ ~world.late

CanAuthorize(w) ==
    item.status = "leased" /\ Holds(w) /\ item.lease = "live" /\ ~world.late

\* The point of no return.  A worker that loses it takes the cancel route.
Authorize(w) ==
    /\ At(w, "authorize")
    /\ IF CanAuthorize(w)
         THEN /\ item' = [item EXCEPT !.status = "authorized", !.authorized = TRUE]
              /\ Goto(w, "execute")
         ELSE item' = item /\ Goto(w, "cancel")
    /\ UNCHANGED <<run, receiptAt, customer, edits, landed, world, disturbances>>

CanStore(w) == item.status = "authorized" /\ Holds(w)

StoreResult(w) ==
    /\ At(w, "store")
    /\ IF CanStore(w)
         THEN /\ item' = [item EXCEPT !.status = worker[w].out, !.lease = "none"]
              /\ worker' = [worker EXCEPT ![w].at = "signal", ![w].copy = 0, ![w].out = "none"]
         ELSE item' = item /\ Rest(w)
    /\ UNCHANGED <<run, receiptAt, customer, edits, landed, world, disturbances>>

---------------------------------------------------------------------------
(* Revalidation, in its own transactions between the claim and the         *)
(* authorization: the switch, the company, the run, executeBy, then the    *)
(* target's seal.                                                          *)

NoLongerExpected == run.phase \in TerminalPhases \cup {"cancelling"}

Recheck(w) ==
    /\ At(w, "check")
    /\ \/ ~world.enabled /\ Goto(w, "retry") /\ UNCHANGED disturbances
       \/ world.enabled /\ Goto(w, "retry") /\ Disturb   \* a read failed
       \/ /\ world.enabled
          /\ Goto(w, IF ~world.open \/ NoLongerExpected \/ world.late THEN "cancel"
                     ELSE IF run.mode = "update" THEN "target" ELSE "authorize")
          /\ UNCHANGED disturbances
    /\ UNCHANGED <<run, item, receiptAt, customer, edits, landed, world>>

\* Mutant: the target digest is never recalculated.
SealUnchecked == TRUE

\* recalculateTargetDigest against the digest sealed by the confirmation.
SealHolds == customer.rev = run.sealed

RecheckTarget(w) ==
    /\ At(w, "target")
    /\ \/ Goto(w, "retry") /\ Disturb
       \/ Goto(w, IF SealHolds THEN "authorize" ELSE "cancel") /\ UNCHANGED disturbances
    /\ UNCHANGED <<run, item, receiptAt, customer, edits, landed, world>>

---------------------------------------------------------------------------
(* The customer effect executor, after the authorization.  It opens a      *)
(* transaction to read the record and another one to write it.             *)

\* reconcileEffect: a modification is always replayed; a creation is looked
\* up at the identifier derived from the effect.
Reconcile(w) ==
    /\ At(w, "reconcile")
    /\ \/ run.mode = "update" /\ Goto(w, "execute") /\ UNCHANGED disturbances
       \/ run.mode = "create" /\ Yield(w, "outcome_unknown") /\ Disturb
       \/ /\ run.mode = "create" /\ UNCHANGED disturbances
          /\ IF customer.rev > 0 THEN Yield(w, "succeeded") ELSE Goto(w, "execute")
    /\ UNCHANGED <<run, item, receiptAt, customer, edits, landed, world>>

\* execute up to the write: the sealed payload, then the current record.
Execute(w) ==
    /\ At(w, "execute")
    /\ \/ Yield(w, "outcome_unknown") /\ Disturb
       \/ Yield(w, "failed_terminal") /\ UNCHANGED disturbances   \* a refused projection
       \/ /\ UNCHANGED disturbances
          /\ IF ~world.payload THEN Yield(w, "failed_terminal")
             ELSE IF run.mode = "create" /\ customer.rev > 0 THEN Yield(w, "succeeded")
             ELSE IF run.mode = "update" /\ customer.rev = 0 THEN Yield(w, "failed_terminal")
             ELSE worker' = [worker EXCEPT ![w].at = "write", ![w].copy = customer.own]
    /\ UNCHANGED <<run, item, receiptAt, customer, edits, landed, world>>

\* Mutant: the write is reported without having been made.
LandingForgotten(w) == At(w, "write") /\ UNCHANGED <<customer, landed>>

\* customers.save is an upsert of every column: what lands is the copy the
\* worker read, overlaid with the proposed fields.
Landing(w) ==
    /\ customer' = [rev |-> customer.rev + 1, own |-> worker[w].copy]
    /\ landed' = TRUE

Write(w) ==
    /\ At(w, "write")
    /\ \/ Landing(w) /\ Yield(w, "succeeded") /\ UNCHANGED disturbances
       \/ Yield(w, "failed_terminal") /\ UNCHANGED <<customer, landed, disturbances>>
       \/ /\ Landing(w) \/ UNCHANGED <<customer, landed>>   \* it threw
          /\ Goto(w, "reread")
          /\ Disturb
    /\ UNCHANGED <<run, item, receiptAt, edits, world>>

\* decideAfterIndecidableWrite: only a creation can look whether its write
\* landed, at the identifier derived from the effect.
Reread(w) ==
    /\ At(w, "reread")
    /\ \/ Yield(w, "outcome_unknown") /\ Disturb
       \/ /\ Yield(w, IF run.mode = "create" /\ customer.rev > 0
                       THEN "succeeded" ELSE "outcome_unknown")
          /\ UNCHANGED disturbances
    /\ UNCHANGED <<run, item, receiptAt, customer, edits, landed, world>>

---------------------------------------------------------------------------
(* The signal: a stored result is brought back to the run, again and again *)
(* until it is acknowledged.                                               *)

\* Mutant: only successes are redelivered.
PendingSuccess == item.status = "succeeded" /\ ~item.signalled

Pending == item.status \in Settled /\ ~item.signalled

\* listPendingSignals, at the start of every tick.
Redeliver(w) ==
    /\ At(w, "idle") /\ Pending
    /\ worker' = [worker EXCEPT ![w].at = "signal", ![w].fence = item.fence]
    /\ UNCHANGED <<run, item, receiptAt, customer, edits, landed, world, disturbances>>

\* The run is read; a success is described from the record it wrote, and
\* is not signalled while it cannot be.
ReadRun(w) ==
    /\ At(w, "signal")
    /\ \/ Rest(w) /\ Disturb
       \/ /\ item.status = "succeeded" => customer.rev > 0
          /\ worker' = [worker EXCEPT ![w].at = "admit", ![w].rev = run.rev]
          /\ UNCHANGED disturbances
       \/ /\ item.status = "succeeded" /\ customer.rev = 0
          /\ Rest(w) /\ UNCHANGED disturbances
    /\ UNCHANGED <<run, item, receiptAt, customer, edits, landed, world>>

\* Mutant: a refused signal is acknowledged all the same.
RefusedButAcknowledged(w) == Goto(w, "ack")

\* stale_revision and every other refusal: left to the next tick.
Refused(w) == Rest(w)

\* The system admission of record_effect_receipt, whose command identifier
\* is derived from the result.  A known identifier replays (and stamps the
\* item) when the same command comes back, built on the same revision and
\* describing the same record, and conflicts otherwise; both are
\* acknowledged.  A run that moved since it was read refuses: the next tick
\* redelivers.
AdmitReceipt(w) ==
    /\ At(w, "admit")
    /\ IF receiptAt > 0
         THEN /\ \/ /\ worker[w].rev = receiptAt   \* the same command: replayed
                    /\ item' = [item EXCEPT !.signalled = TRUE]
                 \/ item' = item                     \* another one: command_conflict
              /\ Goto(w, "ack")
              /\ UNCHANGED <<run, receiptAt>>
       ELSE IF worker[w].rev = run.rev /\ ExpectsReceipt(run)
         THEN /\ run' = ReceiptRecorded(run, item.status = "succeeded")
              /\ item' = Cascade(run', item)
              /\ receiptAt' = worker[w].rev
              /\ Goto(w, "ack")
         ELSE Refused(w) /\ UNCHANGED <<run, item, receiptAt>>
    /\ UNCHANGED <<customer, edits, landed, world, disturbances>>

\* markSignalApplied.
Acknowledge(w) ==
    /\ At(w, "ack")
    /\ item' = IF Holds(w) THEN [item EXCEPT !.signalled = TRUE] ELSE item
    /\ Rest(w)
    /\ UNCHANGED <<run, receiptAt, customer, edits, landed, world, disturbances>>

---------------------------------------------------------------------------
(* The environment.                                                        *)

\* The lease runs out: for nothing when its holder is gone, as a
\* disturbance when the holder is only slow.
Expire ==
    /\ item.lease = "live" /\ item.status \in {"leased", "authorized"}
    /\ item' = [item EXCEPT !.lease = "expired"]
    /\ IF \E w \in Workers : Busy(w) /\ Holds(w) THEN Disturb ELSE UNCHANGED disturbances
    /\ UNCHANGED <<run, receiptAt, worker, customer, edits, landed, world>>

\* A worker dies, or its transaction throws: the row stays as it is.
Crash(w) ==
    /\ Busy(w) /\ Rest(w) /\ Disturb
    /\ UNCHANGED <<run, item, receiptAt, customer, edits, landed, world>>

Turn(newWorld) ==
    /\ world' = newWorld
    /\ Disturb
    /\ UNCHANGED <<run, item, receiptAt, worker, customer, edits, landed>>

SwitchOff == world.enabled /\ Turn([world EXCEPT !.enabled = FALSE])

CloseCompany == world.open /\ Turn([world EXCEPT !.open = FALSE])

PurgePayload == item.status # "none" /\ world.payload /\ Turn([world EXCEPT !.payload = FALSE])

PassTtl ==
    /\ run.phase = "awaiting_confirmation" /\ ~world.ttlPast
    /\ Turn([world EXCEPT !.ttlPast = TRUE])

PassExecuteBy == item.status # "none" /\ ~world.late /\ Turn([world EXCEPT !.late = TRUE])

SwitchOn ==
    /\ ~world.enabled
    /\ world' = [world EXCEPT !.enabled = TRUE]
    /\ UNCHANGED <<run, item, receiptAt, worker, customer, edits, landed, disturbances>>

---------------------------------------------------------------------------
UserCommand ==
    \/ StartRun \/ Resolve \/ ChooseDuplicate \/ StageProposal
    \/ Present \/ Reject \/ Confirm \/ CancelRun

\* One tick of the dispatcher, step after step.  At most one of the three
\* ways to begin is enabled at a time: they need different item statuses.
Tick(w) ==
    \/ Claim(w) \/ Reclaim(w) \/ Redeliver(w)
    \/ Recheck(w) \/ RecheckTarget(w) \/ MarkRetryDue(w) \/ Withdraw(w)
    \/ Authorize(w) \/ Reconcile(w) \/ Execute(w) \/ Write(w) \/ Reread(w)
    \/ StoreResult(w) \/ ReadRun(w) \/ AdmitReceipt(w) \/ Acknowledge(w)

Environment ==
    \/ ArtisanEdit \/ Expire \/ SwitchOff \/ SwitchOn \/ CloseCompany
    \/ PurgePayload \/ PassTtl \/ PassExecuteBy

Next ==
    \/ UserCommand
    \/ Environment
    \/ \E w \in Workers : Tick(w) \/ Crash(w)

\* The cron starts a tick every minute and a started tick runs on; leases
\* expire; an operator eventually switches the dispatch on again.  Nothing
\* is asked of the user, and nothing has to go wrong.
Fairness ==
    /\ \A w \in Workers : WF_vars(Tick(w))
    /\ WF_vars(Expire)
    /\ WF_vars(SwitchOn)

Safe == Init /\ [][Next]_vars

Spec == Safe /\ Fairness

---------------------------------------------------------------------------
(* Safety.                                                                 *)

\* An item closed as "cancelled, no effect" really had none, although the
\* worker that was to run it and the user who cancelled raced for the row.
CancelledMeansNoEffect == item.status = "cancelled" => ~landed

\* A result "succeeded" is stored only when the record was written, through
\* throws, crashes and the reconciliation of another worker's write.
SuccessMeansWritten == item.status = "succeeded" => landed

\* Once the receipt is admitted the run is closed, and closed on the truth:
\* completed exactly when the effect succeeded, even if its cancellation
\* had been requested.
RunReportsTheEffect ==
    receiptAt > 0 =>
        /\ run.phase \in TerminalPhases
        /\ run.phase = "completed" <=> item.status = "succeeded"

\* A result is marked as signalled only after the run recorded it, whoever
\* redelivers it and however often; the one exception is the cascade of a
\* cancellation, which the run decided itself.
AcknowledgedMeansRecorded ==
    item.signalled =>
        \/ receiptAt > 0
        \/ item.status = "cancelled" /\ run.phase \in {"cancelling", "cancelled"}

\* A stored result is immutable: no late worker, cancellation or redelivery
\* replaces it.
ResultIsFinal ==
    [][item.status \in Settled => item'.status = item.status]_vars

\* A record edited while its confirmed modification is still due is never
\* written by it: the next claim sees the broken seal and withdraws.
DriftedWhileDue ==
    run.mode = "update" /\ Due /\ customer.rev # run.sealed

DriftWithdraws == [](DriftedWhileDue => []~item.authorized)

---------------------------------------------------------------------------
(* Liveness and refinement.                                                *)

\* A confirmed run does not stay in "committing" for ever, whichever worker
\* dies wherever (the symptom migration 20260820140000 was written for).
CommittingEnds == run.phase = "committing" ~> run.phase # "committing"

\* Once the effect is authorized, the run is eventually closed, cancelled
\* meanwhile or not.
AuthorizedRunCloses ==
    item.authorized ~> run.phase \in TerminalPhases

\* The dispatch keeps the promise of ConfirmedEffect, with its liveness.
decision ==
    CASE item.status = "none" -> "none"
      [] item.authorized -> "authorized"
      [] ~item.authorized /\ item.status = "cancelled" -> "withdrawn"
      [] ~item.authorized /\ item.status \in Unauthorized -> "open"

outcome ==
    IF item.status \in Settled \ {"cancelled"} THEN item.status ELSE "none"

Effect == INSTANCE ConfirmedEffect WITH written <- landed

EffectPromise == Effect!Spec

---------------------------------------------------------------------------
(* What the comments of the code say, and the code does not do.            *)

\* customer-contact-v1.ts: a cancelled run observes until its receipt, and a
\* run must always be able to close.
CancellationCloses == run.phase = "cancelling" ~> run.phase \in TerminalPhases

\* jarvis-customer-effect.executor.ts: the effect is withdrawn rather than
\* overwriting work the artisan has done since the confirmation.
NoOverwrittenEdit == customer.own = edits

\* jarvis-work-item-dispatch.service.ts: a closed company never runs a
\* deferred effect again.
NoEffectOnceClosed == [][~world.open => customer' = customer]_vars
=============================================================================
