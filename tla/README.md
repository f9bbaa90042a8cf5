# Bob Pro in TLA+

Bob Pro is the administrative copilot of French artisans: quotes, signatures,
invoices, payments, customers, and an assistant, Bob (the Jarvis runs of the
code), that proposes an action, has it confirmed and carries it out. The server
is a NestJS application (`apps/api`) over PostgreSQL, around a domain package
without I/O (`packages/core`).

This directory holds TLA+ models of the parts of that system where several
actors meet on the same rows, the TLC configurations that check them, and
proofs checked by TLAPS.

    tlc -workers 4 -config JarvisDispatch.cfg MCJarvisDispatch
    tlc -workers 4 -config QuoteBilling.cfg MCQuoteBilling
    tlc -workers 4 -config NotificationOutbox.cfg MCNotificationOutbox
    tlc -workers 4 -config StripePayments.cfg MCStripePayments
    tlc -workers 4 -config DocumentArchive.cfg MCDocumentArchive
    tlc -workers 4 -config RealtimeSessions.cfg MCRealtimeSessions
    tlapm JarvisDispatch_proofs.tla
    tlapm QuoteBilling_proofs.tla
    tlapm MarketBilling_proofs.tla
    tlapm NotificationOutbox_proofs.tla
    tlapm StripePayments_proofs.tla
    tlapm DocumentArchive_proofs.tla
    tlapm RealtimeSessions_proofs.tla

## 1. Inventory

| Component | State it keeps | Operations | What is hard in it | What makes it correct |
|---|---|---|---|---|
| Jarvis run `customer_contact@1` (`customer-contact-v1.ts`) | phase, revision, step and wake budgets, proposal, one confirmation, receipt | start, resolve, choose, stage, present, reject, confirm, cancel, receipt | a receipt may arrive after a cancellation; two commands are exempt from the budget | closes exactly once, on what the effect did |
| Run admission (`jarvis-admission.persistence.ts`) | run row, event log, work items | one transaction per command, CAS on the revision, replay by command identifier, cascade of a cancellation | races with the dispatch for the work items | nothing lost, nothing applied twice |
| Work items (`jarvis-work-items.persistence.ts`) | status, lease, fence, result, signal stamp | claim, reclaim, authorize, store, retry, withdraw, list and mark signals | expiring leases, late holders | one decision, one result, fenced |
| Dispatch worker (`jarvis-work-item-dispatch.service.ts`) | only memory | revalidate, authorize, execute, reconcile, store, signal | crash between any two steps, overlapping ticks, several processes | every confirmed effect is settled and signalled |
| Customer effect (`jarvis-customer-effect.executor.ts`, `.authority.ts`) | customers table | read, write, re-read | a write whose answer is lost; an artisan editing the same record | truthful outcomes |
| Notification effect, `single_business_action@1` | run, notification jobs | same protocol | as above | as above |
| Billing of a quote (`application/billing`, `domain/billing`) | invoices, quotes, counters, payments | generate deposit, situation, final; issue; pay; credit; delete; retract | generation reads without a lock; issue locks the company (shared), the invoice, then the quote; the trigger locks more | never bills more than the market, exact deduction of advances, gap-free numbers |
| Quote signature and public tokens (`application/public-access`, `sign-quote.ts`) | token digests, quote status | create, resolve, sign, refuse, expire, revoke | two visitors of one link, expiry during signature | one signature, single use |
| Notification outbox (`notification-jobs.ts`, `notification-delivery.service.ts`, `repositories.ts`) | leased jobs, the provider's idempotency keys | enqueue, claim, quarantine, authorize, check, send, settle, retry, revoke, mirror push | answers lost after the send, leases that run out, a replay later than the provider remembers, a quote withdrawn while its invite is being scheduled | a message arrives at most once, "done" is true, every job closes |
| Document archive (`document-archive-jobs.ts`, `document-archive.service.ts`, two migrations) | snapshots, leased jobs, announced artefacts, objects, documents | seal and order, claim, announce, upload, file, prove, complete, retry | crash or lost answer between any two steps, an upload that is not fenced, a deployment that draws the PDF otherwise, edits of the customer behind and beside the barrier | archived piece equals the issued one, nothing is stored that was not announced |
| Stripe (`payments/`) | checkout attempts, webhook inbox, invoice payments, projected subscription | create a link, claim an event, read Stripe again, book, mark failed | events duplicated and out of order, handlers taken over, links half created, the invoice paid otherwise | a payment is booked once and receipted only then; the projection follows Stripe |
| Expense and quote creation requests | creations by client key | create and publish the key, replay | two requests of one key | one creation per key |
| Draft slots (`quote-draft-slot.ts`) | slot revision, draft | transitions with CAS | two devices | no lost draft |
| Agent missions (`agent-mission.ts`) | mission, line queue, fences | voice turns | stale confirmations | a line is confirmed as shown |
| Voice sessions (`voice/realtime/`) | session leases, cancellation fences, the count of places; the provider's calls | reserve, create the call, bind, activate, renew, cancel, claim, hang up, complete, purge | a call exists before it is recorded; a user, the process, the reaper and the next request end one session; claims that lapse | no more sessions than places, the place of a recorded call returns only after the provider accepted to hang it up, and every place returns |
| Cabinet, contracts, interventions, derivations, clients | see PROJECT.json | | | |

How they meet. A command of the user is one database transaction that moves a
run; a confirmation also inserts the work item. A cron starts a tick of the
dispatcher every minute in every process: it redelivers the results not yet
signalled, reclaims authorized items whose lease expired, claims due items,
revalidates them, authorizes them (the point of no return), has the executor
write the customer, stores the result and admits the receipt as a system
command of the run. The other jobs follow the same pattern: a transaction of the
user leaves a row (a message, an archive order) that a tick leases, acts upon
outside the database and settles. Stripe calls from outside: its events go through
an inbox. Nothing but rows is shared, and two of the models meet in one of them:
the customer that the Jarvis effect writes is the one an issued piece prints
(`EditByEffect` of `DocumentArchive`).

## 2. Plan

Order of work, the most important behaviour first.

1. `CustomerContact`, `JarvisDispatch`: the confirmed effect, end to end, and its
   abstract promise `ConfirmedEffect`. **Done, checked and proved.**
2. `QuoteBilling`: generation (read without a lock, then write), issue under
   locks, credit note, withdrawal, numbering, and its abstract promise
   `BilledMarket`. **Done, checked and proved**, the sums included.
3. `NotificationOutbox` and its promise `OneDelivery`. **Done, checked and proved.**
4. `StripePayments` and its promise `RecordedPayment`. **Done, checked and proved.**
5. `DocumentArchive` and its promise `SealedOriginal`, composed with the edits of
   the Jarvis effect. **Done, checked and proved.**
6. `RealtimeSessions` and its promise `HeldPlace`: voice sessions under a global
   capacity, on the audited OpenAI rail. **Done, checked and proved.** Left: the Mistral
   rail, which ends a call by a proof of its own, and the delivery of speech.
7. Agent missions: one reducer behind one compare-and-set.
8. Pure algorithms: the largest-remainder allocation of rounding differences.

Signature, draft slots, creation requests and cabinet invitations were read for
this plan and left out of it: each of their operations is one transaction that
reads behind the lock it writes under, or one compare-and-set, so that a model
would only say again what the guard says (§6).

## 3. Modules

### CustomerContact
The reducer of `customer_contact@1`. It has no variables: the code is a pure
function from a state and a command to the next state, so each command is a
guard (`CanX`) and the run it produces. A run is a record of what later
transitions and the dispatcher read. Names, phone numbers, digests and
identifiers are abstracted; the target digest becomes the revision of the
target, of which it is an injective image. `withState` is `Stepped`, and
`withBudgetExemptState` is `ExemptStepped`.

### JarvisDispatch
Eight variables: the persisted run and its one work item, the revision at which
the receipt's command was admitted (the idempotency record of the admission),
the memory of each worker, the customer, and three of environment and history.
An action is one transaction of the code, or one step of a worker between two
transactions.

| Code | Model |
|---|---|
| `runJarvisAdmission` with a command of the user | `StartRun` ... `CancelRun` |
| cascade at 470-487 of the admission | `Cascade`, inside every admission |
| `claimDue`, `reclaimExpiredAuthorized` | `Claim`, `Reclaim` |
| `revalidate` before and at the target digest | `Recheck`, `RecheckTarget` |
| `authorize`, `cancelUnauthorized`, `markRetryDue`, `storeResult` | `Authorize`, `Withdraw`, `MarkRetryDue`, `StoreResult` |
| `reconcileReclaimedAuthorized` | `Reconcile` |
| executor: reads, then write, then what it does when the write threw | `Execute`, `Write`, `Reread` |
| `listPendingSignals`, `signalStoredResult`, `markSignalApplied` | `Redeliver`, `ReadRun`, `AdmitReceipt`, `Acknowledge` |

Each of the dispatcher's operations is conditional on the fence, exactly as its
SQL is; the token changes with the fence and is identified with it. Time is
reduced to what the code reads of it: a lease expires, `executeBy` passes, the
confirmation's TTL passes.

A *disturbance* is anything the environment may do to the protocol: a crash, a
transaction that throws (before or after it committed, for the write), a lease
that expires under a live holder, the kill switch, the closure of the company,
the purge of the payload, the two clocks. Together they are bounded by
`MaxDisturbances`. A lease whose holder is gone expires for free, and the
dispatch may be switched on again for free.

### ConfirmedEffect
The promise, in three variables: an effect is opened, decided once (withdrawn
or authorized), written only if authorized, reported once, with success only if
written. `JarvisDispatch` implements it under the mapping `decision`, `outcome`,
`landed`, safety and liveness.

### QuoteBilling
The invoices of one signed quote, in four variables: the quote, its committed
pieces, the two number sequences, and what each request in flight is doing. A
piece is named by its kind, a situation by its order number, which is what the
unique indexes of the database make of it. A request is an HTTP request, that is
one READ COMMITTED transaction: it reads what is committed at the moment of each
statement, what it writes appears at its commit, and the locks it holds are read
off the step it stands at, so that no lock variable can disagree with it.

| Code | Model |
|---|---|
| `GenerateInvoiceFromQuote`: the quote, the sisters, the save | `CheckQuote`, `ComposeDeposit` / `ComposeSituation` / `ComposeFinal`, `SaveDraft` |
| `IssueInvoice`: invoice `FOR UPDATE`, quote `FOR UPDATE` and guards, counter, save, commit | `LockPiece`, `LockQuote` with `MayIssue`, `Allocate`, `WritePiece`, `CommitPiece` |
| the same of a credit note, which skips the quote | `LockCreditNote`, `Allocate`, `WriteCreditNote`, `CommitCreditNote` |
| trigger `enforce_invoice_settlement_semantics_v2` | `SettlementHolds`, `SistersFree`, `CreditAllowed`, `TakesQuoteLate` |
| `quoteBillingEngagement` | `EngagedCalls`, `EmittedCalls`, `NextOrder`, `Billed` |
| `CreateCreditNote`, `DeleteDraftInvoice`, `ExerciseRetractation` | one action each: nothing in them is read before its lock and used after |
| a refusal, a crash, a timeout, the victim of a deadlock | `Rollback` |

Situations are created with the settlement semantics V1 (`situationFromSignedQuote`
never sets another), deposits, finals and their credit notes with V2. The trigger
locks the quote, and refuses a call after an issued final, for V2 only; the model
keeps that difference.

One amount stands for the excluding-tax and including-tax amounts of a piece, and
the amount a situation asks for is any share of the market. The embargo on
off-premises contracts, which the artisan may override, only refuses, and is left
out with the other refusals that `Rollback` stands for. `Frozen` is the freeze of
works within the withdrawal delay. Cancelling an invoice has no caller in
production, so a piece has three statuses. Shared locks on the company, whose
only conflict is the closure of the account, are left out.

### BilledMarket
The promise: calls are paid out of the market, a settlement asks for exactly what
is left, and while it stands nothing is called nor taken back; after the
withdrawal nothing more is billed. `QuoteBilling` implements it seen through what
is emitted and not credited.

### NotificationOutbox
The rows of `notification_jobs`, the ticks that deliver them, the provider's
memory of idempotency keys, and the quote whose payment invites are scheduled
and withdrawn. A job is known by its deduplication key.

| Code | Model |
|---|---|
| `notification_job_enqueue`: insert, or make a failed attempt due again | `Enqueued`, in `Enqueue`, `Schedule`, `Retract` |
| `scheduleEmbargoPayment`: the quote is read, then the invite enqueued | `ReadQuote`, `Schedule` |
| retraction: acknowledgment and `cancelPending` of the invites, one transaction | `Retract`; a payment (`Pay`) revokes nothing |
| `claimForDelivery`: one statement that leases a due job or quarantines it | `Claim`, with `Uncertain` for a replay nobody can account for |
| `listDue`, a payload that no longer matches its fingerprint | `SetAside` |
| `authorizeDeliveryAttempt`, `staleDeliveryReason`, `cancelClaimed` | `Authorize`, `Check`, `CancelClaimed` |
| the notifier's call, taken, refused, or taken with its answer lost | `Send`, `SendThrows` |
| `markDone` and the mirror push, `markFailed` | `MarkDone`, `MarkDoneThrows`, `PushMirror`, `MarkFailed` |

Time is reduced to three comparisons: a job is due (for a leased one, its lease ran
out), 25 minutes have passed since the first attempt, the provider has forgotten a
key. The provider keeps a key for 30 minutes, so 5 minutes lie between the last
two; a send lasts 12 seconds at most. The guard of `Forget` assumes that a worker
authorized inside the window has sent before those 5 minutes are over. Of the
reasons for which a message is found stale, the payment invite's is modelled; the
other kinds are checked by the same call at the same place.

### OneDelivery
The promise: a message is received at most once, declared done only when received,
and what is done or cancelled stays so. A message whose fate cannot be established
goes to a human.

### StripePayments
Payment links of one invoice, the inbox of webhooks, and the projection of the
subscription.

| Code | Model |
|---|---|
| `createInvoicePaymentLink`: the attempt, the session, the attachment, the compensation | `RequestLink`, `OpenSession`, `Attach`, `ExpireSession`, `MarkCheckoutFailed` |
| the same, interrupted or answered too late | `OpenSessionThrows`, `AttachThrows`, `ExpireSessionThrows`, `AbandonLink` |
| Stripe and its client (external) | `Pay`, `Settle`, `SessionExpires`, `ChangeSubscription` |
| a payment booked by hand | `PayByHand` |
| `claimWebhook`: unseen, failed, or processing since 5 minutes | `Claim`, `GoesStale` |
| `handleWebhook`: Stripe is read again, then one transaction | `Read`, `Reconcile` (`Applies`, `Apply`, `Register`) |
| what that transaction refuses; `markWebhookFailed` | `Refuse`, `MarkWebhookFailed` |
| Stripe or the database fails, or a commit's answer is lost; the process dies | `Throws`, `Crash` |

Transactions of handlers take the locks of the rows they write before they write,
and are one step each; what was read of Stripe before them may be old. The read of
the invoice and the insertion of the attempt are one step: the amount kept may be
out of date at any later step anyway. A link asks for the net to pay while the
invoice is due that plus the retained guarantee, hence `Net` and `Retention`. The
reconciliation accepts a session that is complete and not yet paid, so `Pay` leaves
it paid or to be settled later (`Settle`).

### RecordedPayment
The promise: a payment is recorded once, after it was taken, never above what is
due, and the provider is told to stop announcing it only then.

### DocumentArchive
What an issue seals, the job that turns it into stored originals, and the customer
printed on them.

| Code | Model |
|---|---|
| the transaction that issues or signs: company lock, save, PDF data, XML, snapshot and order | `OpenIssue`, `SaveIssued`, `ReadPdfData`, `CommitIssue`, `Rollback` |
| trigger `capture_invoice_archive_audience_v1`, which locks the customer shared | `CustomerHeld` |
| `BackendService.updateCustomer`: company lock, and no original missing | `EditBehindBarrier` |
| `updateCustomer` of the Jarvis effect's authority: neither | `EditByEffect` |
| `listDue` and the claim | `Claim` |
| `renderDocumentArchiveSnapshot`, `document_archive_artifact_intents_prepare_v1` | `Rendering`, `Prepare` |
| `putIfAbsent`, `StoreDocument`, the proof by reading again | `Put`, `Materialize`, `Prove`, `StorageFails` |
| `document_archive_job_complete_v3`, `markFailed` | `Complete`, `MarkFailed` |
| leases and retries, crashes, deployments | `BecomeDue`, `Expire`, `Abandon`, `Redeploy` |

A content is reduced to the version of the customer and the build of the renderer
it comes from; the XML is in the snapshot as it stands, so no build redraws it.
The lease token is identified with its worker. A claim of a row that changed since
it was listed is skipped by the code, which is a stuttering step. `Redeploy` is a
process that restarts with a build that draws the PDF otherwise: the tests pin
the renderer within one build only. "pdf" stands for an invoice's PDF and for a
signed quote.

### SealedOriginal
The promise: what a piece says is sealed at its issue, one rendering of it is chosen,
and the files archived are those, once and for all.

### RealtimeSessions
The admission of voice sessions, from the reservation of a place to its return. The
rail is the audited one of OpenAI: the native rail is locked at build time
(`config/env.ts:24` and 1196).

| Code | Model |
|---|---|
| `reserve`, under the locks of company, principal and capacity | `Reserve`, `ReserveThrows` |
| its first half, when a lapsed row of the principal has a call; `claimExpired` of the reaper | `ClaimExpired`; `Purge` for a row without a call |
| `createCall` at the provider, refused, or its answer lost | `CreateCall`, `Refuse`, `CreateCallLost` |
| `onCallCreated`: `bindProvider` before the answer is read | `Bind`, `BindThrows`, then `Answer` or `Abort` |
| `sideband.attach` with `activate`; `resolveSession` before the client is answered | `Attach`, `Resolve` |
| `compensateCreatedCall`, `cleanupFailedBootstrap`, `release` | `Compensate`, `Release`, and the same with `Throws` |
| `DELETE` of the session: fence, claim, detachment of the local lifecycle | `Hangup` |
| `RealtimeCallLifecycle.terminate` | `GiveUp` |
| `claimTermination`, `claimRowForReaping` | `ClaimTermination`, `Take` |
| the provider's `hangupCall`, `completeReaping` with the claim's token | `HangUpCall`, `HangUpCallThrows`, `Complete` |
| `performHangup`, its historical policy: any 2xx, a 404 or a 409 is a success | `Dismissed` |
| leases that lapse, claims outrun by their lease, processes that fall | `Lapse`, `Overrun`, `Crash`, `CrashCloser` |

A transaction of the code takes the locks of its company and its principal first, so
it is one action; the rows of other companies matter to it only through their
number, which it reads behind the lock of the capacity. `boot` is the process that
serves a request and later its lifecycle; `closer` is a termination under way,
whoever began it. The token of a claim is identified with its termination. `Lapse`
stands for `leaseExpiresAt` and `hardExpiresAt`: an active lease is renewed by its
heartbeat, which changes nothing else, until it is not. A user is told that the
session is over when `claimTermination` found nothing to hang up, or when its own
`completeReaping` deleted the row. A commit whose answer is lost is here a
commit that answers, which only makes `told` larger.

The code takes a hang-up as done on answers that do not say that the call ended: the
reaper, the lifecycle and the `DELETE` always, the compensation on this rail. So `Dismissed`
ends the call or, as one of the things that go wrong, leaves it alive. What the
program learnt and what is true of the call are two variables: `call` belongs to the
provider, and the history variable `dismissed` holds the sessions for which the code
saw a hang-up succeed. No action reads it; the promise does.

### HeldPlace
The promise, in places: no more are held than there are, a principal holds one, a
place on which a call was recorded returns only after the provider accepted to hang
up that call, and a session declared over holds no place again. It does not promise
that the call ended. A place is "silent" when it did, "doubtful" when the hang-up was
accepted and the call lives on, and comes back from either.

## 4. Runs

| Run | Bounds | Shows |
|---|---|---|
| `jarvis_dispatch` | 2 workers, 7 steps, 2 wakes, 1 edit, 2 disturbances; 204,154 states | ten properties hold |
| `jarvis_cancel_stuck` | no edit, no disturbance | a cancellation between confirmation and authorization never closes |
| `jarvis_edit_overwritten` | 1 edit | the confirmed modification overwrites an edit made during its execution |
| `jarvis_closed_effect` | 1 disturbance | a closed company's effect is still written |
| `billing_quote` | 2 requests, market 2, deposit 1, 2 situations; 1,114,970 states | seven properties hold |
| `billing_deadlock` | the same | the final and the credit note of its deposit wait for one another |
| `billing_race` | the same | a draft call and a draft final are generated side by side |
| `notification_outbox` | an invite and an acknowledgment without idempotency, 2 workers, 1 disturbance; 457,559 states | seven properties hold |
| `stripe_payments` | 1 link, 2 handlers, net 1, retention 1, 1 change of the subscription, 1 disturbance; 205,912 states | six properties hold |
| `stripe_order` | 2 changes of the subscription, 2 handlers | an older subscription stays |
| `document_archive` | an invoice and a quote, 2 workers, 1 edit, 2 disturbances; 353,141 states | seven properties hold |
| `realtime_sessions` | 2 sessions, 2 users, 1 place, 2 terminations, 1 disturbance; 253,530 states | three properties hold, one of them the promise |

*Jarvis.* Why these bounds are enough. Two workers are one holder and one successor: all
races over the fence are between the current holder and one late holder. Seven
steps let a run start, pass through a duplicate review, propose, be shown and be
confirmed, with one rejected or invalidated proposal before in the update mode,
and exhaust its budget exactly when it must close. Two disturbances allow each pair of
a fault and a second fault during its repair (a crash after the write, then a
purge; a slow worker, then a late answer). The proofs lift the safety properties
to any number of workers, budgets, edits and disturbances.

*Billing.* Every race is between two requests that hold locks; the actions of one
transaction (credit note, deletion, withdrawal) come at any moment beside them.
A market of two units is the smallest where a deposit and a situation fill it,
where two situations do, and where a third call or a final on a stale deduction
exceeds it. Two situations make "the next order number" and "all the sisters"
mean something. A market of three was run once and holds too (4.4 million
states). The requests are interchangeable, no property names one of them and no
liveness is checked, so the symmetry is sound. Once everything is issued, credited
and withdrawn nothing is left to do: deadlock is not an error there, and what two
requests do to one another is `NoCircularWait`.

*Notifications.* Two workers are a holder and its successor. A time out of a lease, a
retry and the passage of the two windows are free; the one disturbance is a lost
answer, a crash or an unreadable payload, and each alone already reaches a second
attempt. The two jobs are the two that a retraction moves in one transaction, on
the two kinds of channel.

*Stripe.* Two handlers may hold two events of one session, or one event taken over;
redeliveries are free. A payment by hand may come before, between and after. The
change of the subscription shares the inbox with the payment. One link is enough
for every step of an event's life; that two links of one invoice do not exceed what
is due, nor mix their records, is in the theorems, which hold for every set of
links. `EveryEventSettles` is checked in the same run, so no symmetry is used.

*Archive.* One edit is what tells two reads of an issuing transaction apart. Two
disturbances allow a crash after the upload and then a lease that runs out, or two
deployments, so that an announcement is met by a build that cannot draw it and by
one more. A retry and the expiry of a lease whose holder is gone are free.

*Voice.* With one place, two sessions of one user, or of two, contend for it, the
same session is ended by two terminations at once, or one overtakes the other.
That leases lapse, that users cancel at any moment and that calls end by themselves
is free; the one disturbance is a lost answer, a failed hang-up, an accepted one that leaves
the call alive, a slow termination or a process that falls. The invariant of the proof
was checked by TLC also with two disturbances (846,063 states, with the promise), and
with three sessions, two places and one termination (839,050 states up to a
permutation of sessions and of users).

The violations are findings: the comments quoted in PROJECT.json say what
the code does not do. None of them is a race the tests of the repository reach.

*Fairness.* The billing has no liveness property, its requests may be abandoned at
any step.

In the Jarvis dispatch, `WF(Tick(w))` for each worker: the cron fires every minute and a tick
that has begun goes on, whatever step it stands at; a process that dies is
`Crash`, after which the worker is idle and ticks again. `WF(Expire)`: the clock
advances. `WF(SwitchOn)`: an operator does not leave the dispatch off for ever.
No fairness is assumed for the user or the artisan. `Tick` is one disjunction
because a worker is sequential: only one of its steps is enabled, and the three
ways to begin need different statuses of the one item.

In the outbox, `WF(WorkerStep(w))` and `WF` of the claim of each job by some
worker (the cron ticks every minute and lists what is due), `WF(BecomeDue)` and
`WF(WindowCloses)` (time passes). A due job stays due until it is claimed, so weak
fairness is enough. `EveryJobCloses` counts the hands of a human as an end: an
outage of the email provider longer than 25 minutes leads there.

In the payments, `WF(HandlerStep(h))` (a request that began goes on), `WF(GoesStale)`
(time passes) and `SF` of the claim of each event: Stripe delivers again until it
gets a success, at moments when the event may or may not be claimable.
`EveryEventSettles` is stated for behaviours in which, from some point on, no two
handlers work on one event (`Spaced`): without it TLC finds two that fail each
other's processing for ever, because `markWebhookFailed` does not say whose it
fails. Redeliveries are minutes to hours apart, so that takes an accident repeated
for ever.

In the archive, `WF(WorkerStep(w))`, `WF(BecomeDue)` and `SF` of the claim of each
order: the tick takes the orders due the longest first, so none is passed over for
ever, although a worker busy with another disables its claim. Nobody has to issue
or to edit. `EveryOrderArchived` leaves out an order whose announcement was drawn
by a build that some process runs no more (`Stranded`).

In the voice sessions, `WF(Lapse(s))` (time passes, and `hardExpiresAt` ends every
renewal), `WF(Purge(s))` and `SF` of the claim of each lapsed lease: the reaper's cron
claims what is due, at moments when a termination may or may not be free to take
it. `WF(BootStep(s))` and `WF(CloserStep(c))`: a request and a termination that
began go on, or fall. No user has to ask, to cancel or to leave.

## 5. Proofs

`JarvisDispatch_proofs` proves, for every set `Workers` and all values of the
bounds (`BudgetAssumption`, `DispatchAssumption`: natural numbers, budgets not
zero), that

- `Spec => []Inv`, and from it the type invariant and the four safety invariants;
- `ResultIsFinal`, an action property;
- `DriftWithdraws`, whose body is itself temporal;
- `Spec => Effect!Safe`, the refinement of ConfirmedEffect's safety half.

None of the safety invariants is inductive. `Inv` adds what their steps rely on:

- `Revisions`: a worker's fence and remembered revision are never ahead of the rows;
- `ItemNeedsConsent`: an item exists only after a consumed confirmation, in the
  phases that follow it;
- `MarkAgrees`: the authorization mark says exactly which statuses may follow, so
  an item cancelled without effect was never authorized;
- `Written`: a record written in the effect's name implies authorization, a stored success
  implies the write, and for a creation so does the record's existence;
- `WorkersFit`: what a worker is about to do agrees with the row as long as it
  holds the fence (a worker past the authorization holds the fence of an
  authorized item or has lost it; one about to store a success has written);
- `ReceiptNeedsResult`, `SealIsPast`: a receipt follows a settled item; the sealed
  revision is one the record had.

For `DriftWithdraws` the invariant is `Doomed`: once the record has moved past the
seal, no worker that has passed the seal check still holds the fence, and the
revision never comes back; `Doomed` is preserved by every step.

`QuoteBilling_proofs` proves, for every set of requests, every market and deposit
and any number of situations (`ClientsAssumption`, `MarketAssumption`,
`SituationsAssumption`), that

- `Spec => []Inv`, and from it the types, `FinalDeductsItsSisters` and
  `NumbersWithoutGap`;
- `NothingBilledAfterRetractation` and `LegalPiecesStay`, action properties.

A commit writes what its request decided several steps earlier, from what it read
then. So `Inv` says that what was read is still true:

- `LocksExclude`: two requests never hold the same row, quote or counter;
- `RowHeld`, `QuoteHeld`: the locked piece is as it was read, and behind the lock
  of the quote there is no withdrawal;
- `NumberHeld`, with `Counted`: a counter is the number of live pieces (or credit
  notes) of its sequence, their numbers are 1 to that, and an allocated number is
  the next one until its commit;
- `SistersHeld`: what the trigger found of the sisters (the final's deduction, or,
  for a credit note, that no final stands on its piece) holds until the commit.
  Here the locks of two tables meet: the final holds its sisters' rows shared,
  their credit notes included, and the credit note of a call holds its own row;
- `CreditFollowsIssue`: a credit note exists only of a live piece.

`MarketBilling_proofs` proves, under the same assumptions, what rests on sums:
`Spec => []MarketBilledOnce` and the refinement of `BilledMarket`. `Billed` counts the
units that pieces ask for (a cardinality of pairs), which the theorems on finite
sets reach where a fold would need induction. The invariant `AmountsInv` adds to
`Inv`:

- `Priced`: a call asks for something;
- `Balanced`: a final plus the calls it deducts is the market, from its draft on. It stays
  so because what is deducted is live, and a live piece keeps its amount;
- `Fits`: a call that is being issued, added to those emitted, stays within the
  market from its guard to its commit: the lock of the quote keeps the others out.

`NotificationOutbox_proofs` proves, for all jobs, channels, workers and any number of
disturbances (`OutboxAssumption`, `NoOneAssumption`): the types, `DeliveredOnce`,
`DoneIsDelivered`, `NoInviteOnceWithdrawn`, `OnePushPerDelivery` and the refinement
of `OneDelivery`. A worker that was overtaken still acts, so the invariant says what
it can still do:

- `Grounded`, `Shelved`: a worker acts on an attempted job; a job under review waits
  for nobody;
- `Taken`, `Forgotten`, `OneAttempt`: the provider took a message at most once and
  remembers only what it took; when it has forgotten an email, no worker is between
  its authorization and its send; a channel without idempotency has one worker ever;
- `Recorded`, `Pushing`: delivered before recorded, one worker goes on to the push;
- `Sparing`: an invite spared by a withdrawal is neither taken nor past its check.

`StripePayments_proofs` proves, for all links, handlers, amounts and bounds
(`PaymentsAssumption`): the types (`paid` never exceeds what is due),
`RecordedOnce`, `NoReceiptBeforeRecord`, `ReceiptsStay` and the refinement of
`RecordedPayment`. The invariant adds that a handler works on an event that was
emitted, that what it read of a session was true once and that of it a paid one
stays paid (`Grounded`, `Announced`, `Received`), that a link not yet requested
has nothing (`Fresh`), and that an attempt is completed exactly when its
payment is recorded (`Recorded`).

`DocumentArchive_proofs` proves, for all pieces, workers and bounds
(`ArchiveAssumption`, `NoOneAssumption`): the types, `OneCustomerPerPiece`,
`ArchivedAsIssued`, `NothingUnannounced`, `NoStolenLease` and the refinement of
`SealedOriginal`. The invariant adds that an issue which has saved an invoice keeps the
customer at the version it has read (`Issuing`), that an announcement was drawn
from the sealed snapshot by one build (`Sealed`, `Announced`, `Whole`), and that a
worker past its announcement uploads and files what was announced even when its
lease is gone (`AtWork`): renderings differ only between builds, and a worker
that restarts with another one starts over.

`RealtimeSessions_proofs` proves, for every finite set of sessions, all users and
terminations, every capacity and number of disturbances (`SessionsAssumption`,
`NoCloserAssumption`): the types and the refinement of `HeldPlace`, and three
invariants no run states apart, since a run sees them through the promise:
`WithinCapacity`, `OnePlaceEach` and `EndedStaysEnded`. The promise looks at the
places when one is taken; that they are never more than there are at any other
moment follows by induction, on a cardinality. The other parts of the invariant:

- `Owned`, `Admitted`: a row has an owner, a request not yet admitted has no row;
- `Recorded`, `Named`: a row with a call, and a hang-up that was done, belong to a request
  past the recording of its call. So no hang-up is older than the call on the row,
  and a place never comes back on the strength of one;
- `Informed`: a request that releases its place as "confirmed" saw the provider accept
  the hang-up of its call;
- `Terminating`: the same of a termination, even of one that was overtaken, and its
  fence stands before its user is told. Without that last conjunct the invariant
  is not inductive: a termination that answers a user without having left a fence
  would let the session's own request reserve after the answer.

The actions change rows in few ways, so the proof goes through `Moves`: a step keeps
what a row promises, moves one row along the life of a lease, or reserves. Every
part of the invariant follows from the moves but the types and `Terminating`, which are
proved action by action; so does the refinement. None of it says that a call which
was hung up ended, which the code does not know.

Left to TLC, since they need ENABLED: the liveness properties `CommittingEnds`,
`AuthorizedRunCloses`, `EveryJobCloses`, `EveryEventSettles`, `EveryOrderArchived` and
`EveryPlaceComesBack`, and the fairness half of `EffectPromise`.

## 6. Not modelled

In the Jarvis part: `record_effect_submitted`, `record_target_mutation` and
`awaiting_receipt`, which no service of the repository produces; `wake_run`; the
quarantine of unreadable runs; the purge of closed runs; the other run
definition and the notification executor, which use the same dispatch; the
company directory that orders the tenants of a tick (companies share no row);
the admission kill switch, which only suppresses commands. A command replayed by its
identifier changes nothing and is a stuttering step. A customer cannot be
deleted by any path of the code, so the model has no deletion.

Two behaviours are in the model and contradict no comment, but deserve a
reader's attention: `outcome_unknown` closes a cancelling run as cancelled, though
the write may have landed; and a modification that landed, whose worker died
and whose payload was then purged, is reported `failed_terminal`.

In the billing: payments, the retention, price revision, the per-rate closure of
VAT, standalone and contract invoices, and the accounting entry and archive job
that an issue adds to its transaction. Two behaviours contradict no comment. After a
final is issued and totally credited, generation returns that same final for
ever, a new situation may be issued and a new deposit may not (the trigger
does not look at the credit note of the final): the remainder of the market
can no longer be settled by a final. And the unique violation that the generation
catches to converge on the winner has already aborted its transaction, so the
loser of that race gets an error.

In the outbox: the push subscriptions of devices, the wording of messages, and the
limit of 120 minutes on retries, which the review after 25 minutes precedes. One
behaviour deserves attention: a message past its check when its intention is
revoked may still arrive, and its job then stays cancelled although it was
delivered, which `repositories.ts:2125-2127` admits.

In the payments: the binding of a first subscription to a company, the mapping of
prices, the copies of Stripe's own invoices, the billing portal. Three behaviours
contradict no comment. A link paid after the invoice was settled otherwise is never
booked, and its event is refused until Stripe gives up. A link whose
attachment failed is `failed`, and the expiry of its session is then refused in the
same way. A second link can be booked against the retained guarantee.

In the archive: orders without a snapshot, left by an older version, which are only
verified; the quarantine of orphan objects; the attestation of a PDF's profile;
the purge; the delays between retries. One behaviour contradicts no comment: once
a build draws a PDF otherwise, an order announced by an older build and not yet
finished fails at every attempt, since its announcement may not be replaced.

In the voice sessions: the native OpenAI rail, the Mistral rail and its tickets, the delivery of speech, the
quotas, the other capacity modes and changes of the configured capacity, the expiry
of fences and admission events after two hours, contexts and the binding to an agent
mission. `SPEC_BOB_LIVE_CAPACITY.md:123-124` says that a place "ne peut pas être rendue
tant qu'un appel provider pourrait encore vivre". The code does not keep that, in two
ways, both in the model:

- An accepted hang-up proves no end. `openai-realtime-call.adapter.ts:295-299` returns
  on any 2xx, a 404 or a 409, and the place is given back (`Dismissed`, then `Complete` or
  `Release`); the user may have been told that the session is over. The comment at
  292-294 grants "une preuve terminale" to the documented 200 alone, on the native rail;
  `SPEC_BOB_LIVE_NATIVE_SDP_VERTICAL_20260812.md:36-40` and 86-93 call 202, 204, 404 and
  409 uncertain, and the historical semantics of this rail a debt that blocks the
  cutover; `openai-realtime-call.adapter.test.ts:374` keeps it. TLC refutes
  `[][\A s \in Sessions : HasCall(s) /\ ~HasCall(s)' => call[s] # "live"]_vars` on the
  instance of the run, in seven states: reserve, create, bind, give up, a compensation
  that is accepted while the call lives on, release. As the repository discloses the
  debt, `HeldPlace` promises what is left: the acceptance, of a hang-up of that very call.
- When the provider created a call and its answer is lost, or does not name the call,
  nobody can hang it up: the reservation is released as "not created", and the call
  lives on without a place until the provider ends it (`CreateCallLost`, then `Release`).
  `HeldPlace` speaks of the calls that were recorded.

The rest of the repository. Public signature tokens, draft slots, expense and quote
creation requests, cabinet invitations and interventions read what they decide on
behind the lock or the compare-and-set they write under: no interleaving of
theirs is left to explore. Agent missions are a large reducer without
concurrency. Derivations are pure functions; the clients, the
translations, the catalogues of actions and the prompts hold most of the
repository's lines and no protocol. PROJECT.json gives the reason for each.
