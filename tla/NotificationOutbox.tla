------------------------- MODULE NotificationOutbox -------------------------
(***************************************************************************)
(* The notification outbox: jobs enqueued under a deduplication key, the   *)
(* leased delivery by overlapping ticks, the provider that may accept a    *)
(* message and lose its answer, and the payment invite of a signed quote,  *)
(* scheduled for later and revoked when the quote is retracted or paid.    *)
(*                                                                         *)
(* Every action is one database transaction or one provider call.  Time is *)
(* reduced to the comparisons of the code: a job becomes due, which for a  *)
(* leased one means that its lease expired; the 25 minutes in which a      *)
(* replay is still deduplicated pass; the provider forgets a key.          *)
(***************************************************************************)
EXTENDS Naturals, FiniteSets

CONSTANTS
    Jobs,             \* deduplication keys
    Sms,              \* those without provider idempotency (channel <> 'email')
    Invites,          \* kind 'embargo-scheduled-payment' of the quote
    Acks,             \* kind 'retractation-acknowledgment' of the quote
    Workers,          \* ticks of the delivery worker that may overlap
    MaxDisturbances   \* bound: things that go wrong

ASSUME OutboxAssumption ==
    /\ Sms \subseteq Jobs
    /\ Invites \subseteq Jobs
    /\ Acks \subseteq Jobs
    /\ Invites \cap Acks = {}
    /\ MaxDisturbances \in Nat

VARIABLES
    job,            \* the rows of notification_jobs
    worker,         \* what each worker is doing
    quote,          \* the quote the invites are about, and who is scheduling one
    key,            \* provider: idempotency keys it remembers
    accepted,       \* history: messages the provider took, per job
    pushed,         \* history: mirror pushes, per job
    spared,         \* history: invites not under way when the quote was withdrawn
    disturbances    \* how many things went wrong so far

vars == <<job, worker, quote, key, accepted, pushed, spared, disturbances>>

---------------------------------------------------------------------------
NoOne == "no one"

ASSUME NoOneAssumption == NoOne \notin Workers

\* due: nextAttemptAt <= now; review: nextAttemptAt = 9999; lease: the
\* token, named by its worker; attempted: providerAttemptedAt is set;
\* window: it was set less than 25 minutes ago.
Job == [status : {"none", "pending", "failed", "done", "cancelled"},
        due : BOOLEAN, review : BOOLEAN, lease : Workers \cup {NoOne},
        attempted : BOOLEAN, window : BOOLEAN]

NoJob == [status |-> "none", due |-> FALSE, review |-> FALSE, lease |-> NoOne,
          attempted |-> FALSE, window |-> TRUE]

Steps == {"idle", "claimed", "authorized", "stale", "checked", "sent", "threw", "push"}

Idle == [at |-> "idle", job |-> NoOne]

\* state: "paid" once an invoice of the quote received a payment.
Quote == [state : {"signed", "paid", "retracted"}, scheduling : BOOLEAN]

TypeOK ==
    /\ job \in [Jobs -> Job]
    /\ worker \in [Workers -> [at : Steps, job : Jobs \cup {NoOne}]]
    /\ quote \in Quote
    /\ key \in [Jobs -> BOOLEAN]
    /\ accepted \in [Jobs -> Nat]
    /\ pushed \in [Jobs -> Nat]
    /\ spared \subseteq Invites
    /\ disturbances \in 0..MaxDisturbances

Init ==
    /\ job = [j \in Jobs |-> NoJob]
    /\ worker = [w \in Workers |-> Idle]
    /\ quote = [state |-> "signed", scheduling |-> FALSE]
    /\ key = [j \in Jobs |-> FALSE]
    /\ accepted = [j \in Jobs |-> 0]
    /\ pushed = [j \in Jobs |-> 0]
    /\ spared = {}
    /\ disturbances = 0

Open(j) == job[j].status \in {"pending", "failed"}

At(w, step, j) == worker[w].at = step /\ worker[w].job = j

Goto(w, step) == worker' = [worker EXCEPT ![w].at = step]

Rest(w) == worker' = [worker EXCEPT ![w] = Idle]

\* The lease on the row is still the worker's own.
Holds(w) == Open(worker[w].job) /\ job[worker[w].job].lease = w

Withdrawn == quote.state # "signed"

Disturb == disturbances < MaxDisturbances /\ disturbances' = disturbances + 1

Calm == UNCHANGED disturbances

\* Past its last check, a worker's message can no longer be called back.
UnderWay(j) == \E w \in Workers : At(w, "checked", j)

---------------------------------------------------------------------------
(* Producers.                                                              *)

\* The row after an enqueue: a new job, or the failed attempt made due
\* again.  A lease, a review, a job done or cancelled are left alone.
Enqueued(row, dueNow) ==
    IF row.status = "none" THEN [row EXCEPT !.status = "pending", !.due = dueNow]
    ELSE IF row.status \in {"pending", "failed"} /\ row.due /\ row.lease = NoOne
      THEN [row EXCEPT !.status = "pending"]
      ELSE row

Enqueue(j) ==
    /\ j \notin Invites
    /\ job' = [job EXCEPT ![j] = Enqueued(job[j], TRUE)]
    /\ Calm /\ UNCHANGED <<worker, quote, key, accepted, pushed, spared>>

\* scheduleEmbargoPayment reads the quote without a lock ...
ReadQuote ==
    /\ quote.state # "retracted"
    /\ quote' = [quote EXCEPT !.scheduling = TRUE]
    /\ Calm /\ UNCHANGED <<job, worker, key, accepted, pushed, spared>>

\* ... and enqueues the invite later, for a date to come.
Schedule(j) ==
    /\ quote.scheduling
    /\ job' = [job EXCEPT ![j] = Enqueued(job[j], FALSE)]
    /\ quote' = [quote EXCEPT !.scheduling = FALSE]
    /\ Calm /\ UNCHANGED <<worker, key, accepted, pushed, spared>>

Revoked(row) == [row EXCEPT !.status = "cancelled", !.lease = NoOne]

\* The invites nobody is sending: the client must never get one of them.
Spare == spared' = spared \cup {j \in Invites : accepted[j] = 0 /\ ~UnderWay(j)}

\* One transaction: the retraction, its acknowledgment, the revocation.
Retract ==
    /\ quote.state # "retracted"
    /\ quote' = [quote EXCEPT !.state = "retracted"]
    /\ job' = [j \in Jobs |->
                 IF j \in Acks THEN Enqueued(job[j], TRUE)
                 ELSE IF j \in Invites /\ Open(j) THEN Revoked(job[j])
                 ELSE job[j]]
    /\ Spare
    /\ Calm /\ UNCHANGED <<worker, key, accepted, pushed>>

\* A payment revokes nothing: the worker's check finds it.
Pay ==
    /\ quote.state = "signed"
    /\ quote' = [quote EXCEPT !.state = "paid"]
    /\ Spare
    /\ Calm /\ UNCHANGED <<job, worker, key, accepted, pushed>>

---------------------------------------------------------------------------
(* One tick of the delivery worker, one job after another.                 *)

\* Mutant: the window is read, the channel is not.
UncertainWindowOnly(j) == job[j].attempted /\ ~job[j].window

\* The replay of an attempt nobody can account for: no idempotency on this
\* channel, or the provider's window is about to close.
Uncertain(j) == job[j].attempted /\ (j \in Sms \/ ~job[j].window)

\* Mutant: a status the enumeration does not have.
QuarantinedStatus(row) ==
    [row EXCEPT !.status = "quarantined", !.due = FALSE, !.review = TRUE, !.lease = NoOne]

Quarantined(row) ==
    [row EXCEPT !.status = "failed", !.due = FALSE, !.review = TRUE, !.lease = NoOne]

Leased(row, w) == [row EXCEPT !.lease = w, !.due = FALSE, !.attempted = TRUE]

\* Mutant: failed jobs are forgotten.
ClaimablePending(j) == job[j].status = "pending" /\ job[j].due

Claimable(j) == Open(j) /\ job[j].due

\* claimForDelivery: the one statement that leases a due job or puts it
\* in review.
Claim(w, j) ==
    /\ worker[w].at = "idle"
    /\ Claimable(j)
    /\ IF Uncertain(j)
         THEN /\ job' = [job EXCEPT ![j] = Quarantined(@)]
              /\ UNCHANGED worker
         ELSE /\ job' = [job EXCEPT ![j] = Leased(@, w)]
              /\ worker' = [worker EXCEPT ![w] = [at |-> "claimed", job |-> j]]
    /\ Calm /\ UNCHANGED <<quote, key, accepted, pushed, spared>>

\* listDue meets a payload that no longer matches its fingerprint.
SetAside(j) ==
    /\ Open(j) /\ job[j].due
    /\ job' = [job EXCEPT ![j] = Quarantined(@)]
    /\ Disturb /\ UNCHANGED <<worker, quote, key, accepted, pushed, spared>>

\* authorizeDeliveryAttempt: the last look at the lease and at the window.
Authorized(w) ==
    LET j == worker[w].job IN
    /\ Holds(w) /\ ~job[j].due
    /\ j \in Sms \/ job[j].window

Authorize(w) ==
    /\ worker[w].at = "claimed"
    /\ IF Authorized(w) THEN Goto(w, "authorized") ELSE Rest(w)
    /\ Calm /\ UNCHANGED <<job, quote, key, accepted, pushed, spared>>

\* Mutant: the check knows of the retraction only.
StaleIfRetracted(j) == j \in Invites /\ quote.state = "retracted"

\* staleDeliveryReason: an invite whose quote is retracted or paid.
Stale(j) == j \in Invites /\ Withdrawn

Check(w) ==
    /\ worker[w].at = "authorized"
    /\ Goto(w, IF Stale(worker[w].job) THEN "stale" ELSE "checked")
    /\ Calm /\ UNCHANGED <<job, quote, key, accepted, pushed, spared>>

CancelClaimed(w) ==
    /\ worker[w].at = "stale"
    /\ Rest(w)
    /\ job' = IF Holds(w) THEN [job EXCEPT ![worker[w].job] = Revoked(@)] ELSE job
    /\ Calm /\ UNCHANGED <<quote, key, accepted, pushed, spared>>

\* The provider takes the message, unless it knows the key already: then
\* it says so, which the notifier reads as an acknowledgment.
Take(j) ==
    /\ key' = [key EXCEPT ![j] = j \notin Sms]
    /\ accepted' = IF key[j] THEN accepted ELSE [accepted EXCEPT ![j] = @ + 1]

Send(w) ==
    /\ worker[w].at = "checked"
    /\ Take(worker[w].job)
    /\ Goto(w, "sent")
    /\ Calm /\ UNCHANGED <<job, quote, pushed, spared>>

\* Mutant: the error of the provider is swallowed.
SendSwallows(w) ==
    /\ worker[w].at = "checked"
    /\ Take(worker[w].job) \/ UNCHANGED <<key, accepted>>
    /\ Goto(w, "sent")
    /\ Disturb /\ UNCHANGED <<job, quote, pushed, spared>>

\* Refused, or taken with its answer lost: the worker cannot tell.
SendThrows(w) ==
    /\ worker[w].at = "checked"
    /\ Take(worker[w].job) \/ UNCHANGED <<key, accepted>>
    /\ Goto(w, "threw")
    /\ Disturb /\ UNCHANGED <<job, quote, pushed, spared>>

Delivered(row) == [row EXCEPT !.status = "done", !.lease = NoOne]

Done(w) == [job EXCEPT ![worker[w].job] = Delivered(@)]

\* Mutant: the push goes with the send, whoever closed the job.
MarkDoneAndPush(w) ==
    /\ worker[w].at = "sent"
    /\ job' = IF Holds(w) THEN Done(w) ELSE job
    /\ Goto(w, "push")
    /\ Calm /\ UNCHANGED <<quote, key, accepted, pushed, spared>>

\* Only the worker that moves the job to done goes on to the push.
MarkDone(w) ==
    /\ worker[w].at = "sent"
    /\ IF Holds(w) THEN job' = Done(w) /\ Goto(w, "push")
                   ELSE Rest(w) /\ UNCHANGED job
    /\ Calm /\ UNCHANGED <<quote, key, accepted, pushed, spared>>

\* The transaction fails, or commits with its answer lost.
MarkDoneThrows(w) ==
    /\ worker[w].at = "sent"
    /\ \/ Holds(w) /\ job' = Done(w)
       \/ UNCHANGED job
    /\ Goto(w, "threw")
    /\ Disturb /\ UNCHANGED <<quote, key, accepted, pushed, spared>>

\* The retry waits for its date (nextNotificationRetryDelayMs).
Retried(row) == [row EXCEPT !.status = "failed", !.due = FALSE, !.lease = NoOne]

\* Mutant: a failure is booked by whoever met it, lease or not.
MarkFailedUnfenced(w) ==
    /\ worker[w].at = "threw"
    /\ Rest(w)
    /\ job' = [job EXCEPT ![worker[w].job] = Retried(@)]
    /\ Calm /\ UNCHANGED <<quote, key, accepted, pushed, spared>>

MarkFailed(w) ==
    /\ worker[w].at = "threw"
    /\ Rest(w)
    /\ job' = IF Holds(w) THEN [job EXCEPT ![worker[w].job] = Retried(@)] ELSE job
    /\ Calm /\ UNCHANGED <<quote, key, accepted, pushed, spared>>

PushMirror(w) ==
    /\ worker[w].at = "push"
    /\ Rest(w)
    /\ pushed' = [pushed EXCEPT ![worker[w].job] = @ + 1]
    /\ Calm /\ UNCHANGED <<job, quote, key, accepted, spared>>

---------------------------------------------------------------------------
(* Time, the provider's memory, and what goes wrong.                       *)

Unchanged == UNCHANGED <<worker, quote, accepted, pushed, spared>>

Expired(row) == [row EXCEPT !.due = TRUE]

BecomeDue(j) ==
    /\ Open(j) /\ ~job[j].due /\ ~job[j].review
    /\ job' = [job EXCEPT ![j] = Expired(@)]
    /\ Calm /\ Unchanged /\ UNCHANGED key

Outworn(row) == [row EXCEPT !.window = FALSE]

\* Nobody reads the window of a closed job.
WindowCloses(j) ==
    /\ Open(j) /\ job[j].attempted /\ job[j].window
    /\ job' = [job EXCEPT ![j] = Outworn(@)]
    /\ Calm /\ Unchanged /\ UNCHANGED key

\* The provider forgets a key 30 minutes after it took it: 5 minutes at
\* least after the window closed.  Assumed: a worker that was authorized
\* inside the window has sent (12 s at most) before they are over.  (Nor
\* does it matter what it remembers of a closed job.)
Forget(j) ==
    /\ Open(j) /\ key[j] /\ ~job[j].window
    /\ \A w \in Workers : ~At(w, "authorized", j) /\ ~At(w, "checked", j)
    /\ key' = [key EXCEPT ![j] = FALSE]
    /\ Calm /\ Unchanged /\ UNCHANGED job

\* A crash, or a database that fails under a step before the send.
Abandon(w) ==
    /\ worker[w].at # "idle"
    /\ Rest(w)
    /\ Disturb /\ UNCHANGED <<job, quote, key, accepted, pushed, spared>>

---------------------------------------------------------------------------
WorkerStep(w) ==
    \/ Authorize(w)
    \/ Check(w)
    \/ CancelClaimed(w)
    \/ Send(w)
    \/ MarkDone(w)
    \/ MarkFailed(w)
    \/ PushMirror(w)

Fault ==
    \/ \E w \in Workers : SendThrows(w) \/ MarkDoneThrows(w) \/ Abandon(w)
    \/ \E j \in Jobs : SetAside(j)

Next ==
    \/ \E j \in Jobs : Enqueue(j) \/ BecomeDue(j) \/ WindowCloses(j) \/ Forget(j)
    \/ ReadQuote
    \/ \E j \in Invites : Schedule(j)
    \/ Retract
    \/ Pay
    \/ \E w \in Workers : WorkerStep(w) \/ \E j \in Jobs : Claim(w, j)
    \/ Fault

\* The cron ticks, a worker goes on, time passes.
Fairness ==
    /\ \A w \in Workers : WF_vars(WorkerStep(w))
    /\ \A j \in Jobs :
         /\ WF_vars(BecomeDue(j))
         /\ WF_vars(WindowCloses(j))
         /\ WF_vars(\E w \in Workers : Claim(w, j))

Spec == Init /\ [][Next]_vars

FairSpec == Spec /\ Fairness

---------------------------------------------------------------------------
(* Correctness.                                                            *)

\* A recipient gets a message at most once: through lost answers, expired
\* leases, overlapping ticks and repeated enqueues, with a provider that
\* forgets its keys and a channel that has none.
DeliveredOnce == \A j \in Jobs : accepted[j] <= 1

\* "done" is never said of a message the provider did not take.
DoneIsDelivered == \A j \in Jobs : job[j].status = "done" => accepted[j] = 1

\* Once the quote is retracted or paid, its client gets no payment invite,
\* not even one whose scheduling had read the quote before: only a message
\* already on its way at that instant may still arrive.
NoInviteOnceWithdrawn == \A j \in spared : accepted[j] = 0

\* Two workers may both be told that the message went out: one of them at
\* most pushes, and only for a job that is done.
OnePushPerDelivery ==
    \A j \in Jobs : pushed[j] <= 1 /\ (pushed[j] = 1 => job[j].status = "done")

\* Every job ends delivered, cancelled or in a human's hands.
Closed(j) == job[j].status \in {"done", "cancelled"} \/ job[j].review

EveryJobCloses == \A j \in Jobs : Open(j) ~> Closed(j)

---------------------------------------------------------------------------
(* Refinement: the outbox keeps the promise of OneDelivery.                *)

VerdictOf(row) ==
    IF row.status \in {"none", "done", "cancelled"} THEN row.status
    ELSE IF row.review THEN "review" ELSE "open"

verdict == [j \in Jobs |-> VerdictOf(job[j])]

Delivery == INSTANCE OneDelivery WITH Messages <- Jobs, received <- accepted

DeliveryPromise == Delivery!Promise
=============================================================================
