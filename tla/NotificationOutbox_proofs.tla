--------------------- MODULE NotificationOutbox_proofs ---------------------
(***************************************************************************)
(* Theorems about NotificationOutbox, for every set of jobs, channels and  *)
(* workers and every number of faults.  Liveness stays with the run.       *)
(***************************************************************************)
EXTENDS NotificationOutbox, TLAPS

---------------------------------------------------------------------------
(* The inductive invariant.                                                *)

\* A worker that does something does it on a job it once leased, and a job
\* that was once leased has been enqueued.
Grounded ==
    /\ \A w \in Workers : worker[w].at # "idle" =>
         worker[w].job \in Jobs /\ job[worker[w].job].attempted
    /\ \A j \in Jobs : job[j].attempted => job[j].status # "none"

\* A job in review waits for nobody.
Shelf(row) ==
    row.review => ~row.due /\ row.lease = NoOne /\ row.status # "none"

Shelved == \A j \in Jobs : Shelf(job[j])

\* What the provider took was attempted, at most once, and what it remembers
\* it took.
Taken ==
    \A j \in Jobs :
        /\ accepted[j] \in {0, 1}
        /\ accepted[j] = 1 => job[j].attempted
        /\ key[j] => accepted[j] = 1

\* The message of an email taken and forgotten is out of every worker's hands.
Forgotten ==
    \A j \in Jobs \ Sms : accepted[j] = 1 /\ ~key[j] =>
        /\ ~job[j].window
        /\ \A w \in Workers : ~At(w, "authorized", j) /\ ~At(w, "checked", j)

\* A text has one worker ever, and is taken only when that worker is past
\* its send.
Ahead == {"claimed", "authorized", "stale", "checked"}

OneAttempt ==
    \A j \in Sms :
        /\ ~key[j]
        /\ \A w, v \in Workers :
             worker[w].at # "idle" /\ worker[v].at # "idle"
               /\ worker[w].job = j /\ worker[v].job = j => w = v
        /\ accepted[j] = 1 =>
             \A w \in Workers : worker[w].job = j => worker[w].at \notin Ahead

\* Delivery is recorded only after it took place.
Recorded ==
    /\ \A w \in Workers : worker[w].at = "sent" => accepted[worker[w].job] = 1
    /\ DoneIsDelivered

\* The push is in the hands of the one worker that closed the job.
Pushing ==
    /\ \A w \in Workers : worker[w].at = "push" =>
         /\ job[worker[w].job].status = "done"
         /\ pushed[worker[w].job] = 0
    /\ \A w, v \in Workers :
         worker[w].at = "push" /\ worker[v].at = "push"
           /\ worker[w].job = worker[v].job => w = v
    /\ OnePushPerDelivery

\* A spared invite is neither taken nor about to be.
Sparing ==
    \A j \in spared :
        /\ Withdrawn
        /\ accepted[j] = 0
        /\ ~UnderWay(j)

IInv ==
    /\ TypeOK /\ Grounded /\ Shelved /\ Taken /\ Forgotten
    /\ OneAttempt /\ Recorded /\ Pushing /\ Sparing

---------------------------------------------------------------------------
(* What a row may become.                                                  *)

EnqueuedFrom(row, r) ==
    /\ r \in Job
    /\ r.attempted = row.attempted /\ r.window = row.window
    /\ r.status # "none"
    /\ row.status \in {"done", "cancelled"} \/ r.status = "done" => r = row
    /\ Shelf(row) => Shelf(r)
    /\ Shelf(row) => VerdictOf(r) = IF row.status = "none" THEN "open" ELSE VerdictOf(row)

\* An enqueue creates a job, makes a failed one due, or does nothing.
LEMMA EnqueuedRow ==
    ASSUME NEW row \in Job, NEW dueNow \in BOOLEAN
    PROVE  EnqueuedFrom(row, Enqueued(row, dueNow))
  BY DEF Job, Enqueued, EnqueuedFrom, Shelf, VerdictOf

\* A revocation cancels and touches nothing else.
LEMMA RevokedRow ==
    ASSUME NEW row \in Job
    PROVE  /\ Revoked(row) \in Job /\ Revoked(row).status = "cancelled"
           /\ Revoked(row).attempted = row.attempted /\ Revoked(row).window = row.window
           /\ Shelf(row) => Shelf(Revoked(row))
           /\ VerdictOf(Revoked(row)) = "cancelled"
  BY DEF Job, Revoked, Shelf, VerdictOf

\* A quarantined row waits for a human.
LEMMA QuarantinedRow ==
    ASSUME NEW row \in Job
    PROVE  /\ Quarantined(row) \in Job /\ Quarantined(row).status = "failed"
           /\ Quarantined(row).attempted = row.attempted
           /\ Quarantined(row).window = row.window /\ Quarantined(row).review
           /\ Shelf(Quarantined(row)) /\ VerdictOf(Quarantined(row)) = "review"
  BY DEF Job, Quarantined, Shelf, VerdictOf

\* A leased row is attempted and keeps its verdict.
LEMMA LeasedRow ==
    ASSUME NEW row \in Job, NEW w \in Workers
    PROVE  /\ Leased(row, w) \in Job /\ Leased(row, w).status = row.status
           /\ Leased(row, w).attempted /\ Leased(row, w).window = row.window
           /\ ~row.review => Shelf(Leased(row, w))
           /\ VerdictOf(Leased(row, w)) = VerdictOf(row)
  BY DEF Job, Leased, Shelf, VerdictOf

\* A delivered row is done.
LEMMA DeliveredRow ==
    ASSUME NEW row \in Job
    PROVE  /\ Delivered(row) \in Job /\ Delivered(row).status = "done"
           /\ Delivered(row).attempted = row.attempted
           /\ Delivered(row).window = row.window
           /\ ~row.review => Shelf(Delivered(row))
           /\ VerdictOf(Delivered(row)) = "done"
  BY DEF Job, Delivered, Shelf, VerdictOf

\* A failed attempt leaves its job open, without a lease.
LEMMA RetriedRow ==
    ASSUME NEW row \in Job
    PROVE  /\ Retried(row) \in Job /\ Retried(row).status = "failed"
           /\ Retried(row).attempted = row.attempted /\ Retried(row).window = row.window
           /\ Shelf(row) => Shelf(Retried(row))
           /\ row.status \in {"pending", "failed"} => VerdictOf(Retried(row)) = VerdictOf(row)
  BY DEF Job, Retried, Shelf, VerdictOf

\* A row that becomes due keeps its verdict.
LEMMA ExpiredRow ==
    ASSUME NEW row \in Job
    PROVE  /\ Expired(row) \in Job /\ Expired(row).status = row.status
           /\ Expired(row).attempted = row.attempted /\ Expired(row).window = row.window
           /\ ~row.review => Shelf(Expired(row))
           /\ VerdictOf(Expired(row)) = VerdictOf(row)
  BY DEF Job, Expired, Shelf, VerdictOf

\* The passage of the window changes the window.
LEMMA OutwornRow ==
    ASSUME NEW row \in Job
    PROVE  /\ Outworn(row) \in Job /\ Outworn(row).status = row.status
           /\ Outworn(row).attempted = row.attempted /\ ~Outworn(row).window
           /\ Shelf(row) => Shelf(Outworn(row))
           /\ VerdictOf(Outworn(row)) = VerdictOf(row)
  BY DEF Job, Outworn, Shelf, VerdictOf

---------------------------------------------------------------------------
(* Each conjunct is kept by every step.                                    *)

\* The types hold at first.
LEMMA TypeInit == Init => TypeOK
  BY OutboxAssumption DEF Init, TypeOK, Job, NoJob, Idle, Steps, Quote

\* Every step keeps the types.
LEMMA TypeStep == IInv /\ [Next]_vars => TypeOK'
<1> SUFFICES ASSUME IInv, [Next]_vars PROVE TypeOK'
  OBVIOUS
<1>0. TypeOK /\ Grounded
  BY DEF IInv
<1>1. CASE UNCHANGED vars
  BY <1>0, OutboxAssumption, <1>1 DEF vars, TypeOK, Quote, Steps
<1>2. ASSUME NEW j \in Jobs, Enqueue(j) PROVE TypeOK'
  <2>1. EnqueuedFrom(job[j], Enqueued(job[j], TRUE))
    BY <1>0, EnqueuedRow DEF TypeOK, EnqueuedFrom
  <2> QED BY <1>0, OutboxAssumption, <1>2, <2>1 DEF EnqueuedFrom, Enqueue, Calm,
      TypeOK, Quote, Steps
<1>3. CASE ReadQuote
  BY <1>0, OutboxAssumption, <1>3 DEF ReadQuote, Calm, TypeOK, Quote, Steps
<1>4. ASSUME NEW j \in Invites, Schedule(j) PROVE TypeOK'
  BY <1>0, OutboxAssumption, <1>4, EnqueuedRow DEF Schedule, EnqueuedFrom, Calm,
      TypeOK, Quote, Steps
<1>5. CASE Retract
  BY <1>0, OutboxAssumption, <1>5, EnqueuedRow, RevokedRow DEF Retract, Open,
      Spare, UnderWay, EnqueuedFrom, Calm, TypeOK, Quote, Steps
<1>6. CASE Pay
  BY <1>0, OutboxAssumption, <1>6 DEF Pay, Spare, UnderWay, Calm, TypeOK, Quote,
      Steps
<1>7. ASSUME NEW w \in Workers, NEW j \in Jobs, Claim(w, j) PROVE TypeOK'
  <2>1. worker[w].at = "idle" /\ Open(j) /\ job[j].due /\ job[j] \in Job
    BY <1>0, <1>7 DEF Claim, Claimable, TypeOK
  <2>2. CASE Uncertain(j)
    <3>1. job' = [job EXCEPT ![j] = Quarantined(@)]
      BY <1>7, <2>2 DEF Claim
    <3>2. UNCHANGED <<worker, quote, key, accepted, pushed, spared, disturbances>>
      BY <1>7, <2>2 DEF Claim, Calm
    <3> QED BY <1>0, OutboxAssumption, <2>1, <3>1, <3>2, QuarantinedRow DEF Open,
        TypeOK, Quote, Steps
  <2>3. CASE ~Uncertain(j)
    <3>1. job' = [job EXCEPT ![j] = Leased(@, w)]
      BY <1>7, <2>3 DEF Claim
    <3>2. worker' = [worker EXCEPT ![w] = [at |-> "claimed", job |-> j]]
      BY <1>7, <2>3 DEF Claim
    <3>3. UNCHANGED <<quote, key, accepted, pushed, spared, disturbances>>
      BY <1>7, <2>3 DEF Claim, Calm
    <3> QED BY <1>0, OutboxAssumption, <2>1, <3>1, <3>2, <3>3, LeasedRow DEF Open,
        TypeOK, Quote, Steps
  <2> QED BY <2>2, <2>3
<1>8. ASSUME NEW j \in Jobs, SetAside(j) PROVE TypeOK'
  BY <1>0, OutboxAssumption, <1>8, QuarantinedRow DEF SetAside, Open, Disturb,
      TypeOK, Quote, Steps
<1>9. ASSUME NEW w \in Workers, Authorize(w) PROVE TypeOK'
  BY <1>0, OutboxAssumption, <1>9 DEF Authorize, Goto, Rest, Idle, Authorized,
      Holds, Open, Calm, TypeOK, Quote, Steps
<1>10. ASSUME NEW w \in Workers, Check(w) PROVE TypeOK'
  BY <1>0, OutboxAssumption, <1>10 DEF Check, Goto, Stale, Calm, TypeOK, Quote,
      Steps
<1>11. ASSUME NEW w \in Workers, CancelClaimed(w) PROVE TypeOK'
  BY <1>0, OutboxAssumption, <1>11, RevokedRow DEF CancelClaimed, Rest, Idle,
      Holds, Open, Calm, TypeOK, Quote, Steps, Grounded
<1>12. ASSUME NEW w \in Workers, Send(w) PROVE TypeOK'
  BY <1>0, OutboxAssumption, <1>12 DEF Send, Goto, Take, Calm, TypeOK, Quote,
      Steps, Grounded
<1>13. ASSUME NEW w \in Workers, SendThrows(w) PROVE TypeOK'
  <2>1. CASE Take(worker[w].job)
    BY <1>0, OutboxAssumption, <1>13, <2>1 DEF SendThrows, Goto, Take, Disturb,
        TypeOK, Quote, Steps, Grounded
  <2>2. CASE UNCHANGED <<key, accepted>>
    BY <1>0, OutboxAssumption, <1>13, <2>2 DEF SendThrows, Goto, Disturb, TypeOK,
        Quote, Steps, Grounded
  <2> QED BY <1>13, <2>1, <2>2 DEF SendThrows
<1>14. ASSUME NEW w \in Workers, MarkDone(w) PROVE TypeOK'
  BY <1>0, OutboxAssumption, <1>14, DeliveredRow DEF MarkDone, Goto, Rest, Idle,
      Holds, Open, Done, Calm, TypeOK, Quote, Steps, Grounded
<1>15. ASSUME NEW w \in Workers, MarkDoneThrows(w) PROVE TypeOK'
  <2>1. CASE Holds(w) /\ job' = Done(w)
    BY <1>0, OutboxAssumption, <1>15, <2>1, DeliveredRow DEF MarkDoneThrows, Goto,
        Holds, Open, Done, Disturb, TypeOK, Quote, Steps, Grounded
  <2>2. CASE UNCHANGED job
    BY <1>0, OutboxAssumption, <1>15, <2>2, DeliveredRow DEF MarkDoneThrows, Goto,
        Holds, Open, Done, Disturb, TypeOK, Quote, Steps, Grounded
  <2> QED BY <1>15, <2>1, <2>2 DEF MarkDoneThrows
<1>16. ASSUME NEW w \in Workers, MarkFailed(w) PROVE TypeOK'
  BY <1>0, OutboxAssumption, <1>16, RetriedRow DEF MarkFailed, Rest, Idle, Holds,
      Open, Calm, TypeOK, Quote, Steps, Grounded
<1>17. ASSUME NEW w \in Workers, PushMirror(w) PROVE TypeOK'
  BY <1>0, OutboxAssumption, <1>17 DEF PushMirror, Rest, Idle, Calm, TypeOK,
      Quote, Steps, Grounded
<1>18. ASSUME NEW j \in Jobs, BecomeDue(j) PROVE TypeOK'
  BY <1>0, OutboxAssumption, <1>18, ExpiredRow DEF BecomeDue, Open, Unchanged,
      Calm, TypeOK, Quote, Steps
<1>19. ASSUME NEW j \in Jobs, WindowCloses(j) PROVE TypeOK'
  BY <1>0, OutboxAssumption, <1>19, OutwornRow DEF WindowCloses, Open, Unchanged,
      Calm, TypeOK, Quote, Steps
<1>20. ASSUME NEW j \in Jobs, Forget(j) PROVE TypeOK'
  BY <1>0, OutboxAssumption, <1>20 DEF Forget, Open, Unchanged, Calm, TypeOK,
      Quote, Steps
<1>21. ASSUME NEW w \in Workers, Abandon(w) PROVE TypeOK'
  BY <1>0, OutboxAssumption, <1>21 DEF Abandon, Rest, Idle, Disturb, TypeOK,
      Quote, Steps
<1> QED
  BY <1>1, <1>2, <1>3, <1>4, <1>5, <1>6, <1>7, <1>8, <1>9, <1>10, <1>11, <1>12,
      <1>13, <1>14, <1>15, <1>16, <1>17, <1>18, <1>19, <1>20, <1>21 DEF Next,
      WorkerStep, Fault

\* What no step ever does to a row.
RowKept(j) ==
    /\ job[j].attempted => job'[j].attempted
    /\ ~job[j].window => ~job'[j].window
    /\ job[j].status # "none" => job'[j].status # "none"
    /\ job[j].status = "done" => job'[j].status = "done"
    /\ job'[j].attempted => job[j].attempted \/ job[j].status # "none"
    /\ job'[j].status = "done" =>
         job[j].status = "done" \/ \E w \in Workers : At(w, "sent", j)

\* Every step moves each row as RowKept says.
LEMMA RowStep == ASSUME IInv, [Next]_vars, NEW k \in Jobs PROVE RowKept(k)
<1>0. TypeOK /\ Grounded
  BY DEF IInv
<1>1. CASE UNCHANGED vars
  BY <1>0, OutboxAssumption, <1>1 DEF vars, TypeOK, RowKept
<1>2. ASSUME NEW j \in Jobs, Enqueue(j) PROVE RowKept(k)
  <2>1. EnqueuedFrom(job[j], Enqueued(job[j], TRUE))
    BY <1>0, EnqueuedRow DEF TypeOK, RowKept, EnqueuedFrom
  <2> QED BY <1>0, OutboxAssumption, <1>2, <2>1 DEF EnqueuedFrom, Enqueue, Calm,
      TypeOK, RowKept
<1>3. CASE ReadQuote
  BY <1>0, OutboxAssumption, <1>3 DEF ReadQuote, Calm, TypeOK, RowKept
<1>4. ASSUME NEW j \in Invites, Schedule(j) PROVE RowKept(k)
  BY <1>0, OutboxAssumption, <1>4, EnqueuedRow DEF Schedule, EnqueuedFrom, Calm,
      TypeOK, RowKept
<1>5. CASE Retract
  BY <1>0, OutboxAssumption, <1>5, EnqueuedRow, RevokedRow DEF Retract, Open,
      Spare, UnderWay, EnqueuedFrom, Calm, TypeOK, RowKept
<1>6. CASE Pay
  BY <1>0, OutboxAssumption, <1>6 DEF Pay, Spare, UnderWay, Calm, TypeOK, RowKept
<1>7. ASSUME NEW w \in Workers, NEW j \in Jobs, Claim(w, j) PROVE RowKept(k)
  <2>1. worker[w].at = "idle" /\ Open(j) /\ job[j].due /\ job[j] \in Job
    BY <1>0, <1>7 DEF Claim, Claimable, TypeOK, RowKept
  <2>2. CASE Uncertain(j)
    <3>1. job' = [job EXCEPT ![j] = Quarantined(@)]
      BY <1>7, <2>2 DEF Claim
    <3>2. UNCHANGED <<worker, quote, key, accepted, pushed, spared, disturbances>>
      BY <1>7, <2>2 DEF Claim, Calm
    <3> QED BY <1>0, OutboxAssumption, <2>1, <3>1, <3>2, QuarantinedRow DEF Open,
        TypeOK, RowKept
  <2>3. CASE ~Uncertain(j)
    <3>1. job' = [job EXCEPT ![j] = Leased(@, w)]
      BY <1>7, <2>3 DEF Claim
    <3>2. worker' = [worker EXCEPT ![w] = [at |-> "claimed", job |-> j]]
      BY <1>7, <2>3 DEF Claim
    <3>3. UNCHANGED <<quote, key, accepted, pushed, spared, disturbances>>
      BY <1>7, <2>3 DEF Claim, Calm
    <3> QED BY <1>0, OutboxAssumption, <2>1, <3>1, <3>2, <3>3, LeasedRow DEF Open,
        TypeOK, RowKept
  <2> QED BY <2>2, <2>3
<1>8. ASSUME NEW j \in Jobs, SetAside(j) PROVE RowKept(k)
  BY <1>0, OutboxAssumption, <1>8, QuarantinedRow DEF SetAside, Open, Disturb,
      TypeOK, RowKept
<1>9. ASSUME NEW w \in Workers, Authorize(w) PROVE RowKept(k)
  BY <1>0, OutboxAssumption, <1>9 DEF Authorize, Goto, Rest, Idle, Authorized,
      Holds, Open, Calm, TypeOK, RowKept
<1>10. ASSUME NEW w \in Workers, Check(w) PROVE RowKept(k)
  BY <1>0, OutboxAssumption, <1>10 DEF Check, Goto, Stale, Calm, TypeOK, RowKept
<1>11. ASSUME NEW w \in Workers, CancelClaimed(w) PROVE RowKept(k)
  BY <1>0, OutboxAssumption, <1>11, RevokedRow DEF CancelClaimed, Rest, Idle,
      Holds, Open, Calm, TypeOK, RowKept, Grounded
<1>12. ASSUME NEW w \in Workers, Send(w) PROVE RowKept(k)
  BY <1>0, OutboxAssumption, <1>12 DEF Send, Goto, Take, Calm, TypeOK, RowKept, Grounded
<1>13. ASSUME NEW w \in Workers, SendThrows(w) PROVE RowKept(k)
  <2>1. CASE Take(worker[w].job)
    BY <1>0, OutboxAssumption, <1>13, <2>1 DEF SendThrows, Goto, Take, Disturb,
        TypeOK, RowKept, Grounded
  <2>2. CASE UNCHANGED <<key, accepted>>
    BY <1>0, OutboxAssumption, <1>13, <2>2 DEF SendThrows, Goto, Disturb, TypeOK, RowKept,
        Grounded
  <2> QED BY <1>13, <2>1, <2>2 DEF SendThrows
<1>14. ASSUME NEW w \in Workers, MarkDone(w) PROVE RowKept(k)
  BY <1>0, OutboxAssumption, <1>14, DeliveredRow DEF MarkDone, Goto, Rest, Idle,
      Holds, Open, Done, Calm, TypeOK, RowKept, Grounded, At
<1>15. ASSUME NEW w \in Workers, MarkDoneThrows(w) PROVE RowKept(k)
  <2>1. CASE Holds(w) /\ job' = Done(w)
    BY <1>0, OutboxAssumption, <1>15, <2>1, DeliveredRow DEF MarkDoneThrows, Goto,
        Holds, Open, Done, Disturb, TypeOK, RowKept, Grounded, At
  <2>2. CASE UNCHANGED job
    BY <1>0, OutboxAssumption, <1>15, <2>2, DeliveredRow DEF MarkDoneThrows, Goto,
        Holds, Open, Done, Disturb, TypeOK, RowKept, Grounded, At
  <2> QED BY <1>15, <2>1, <2>2 DEF MarkDoneThrows
<1>16. ASSUME NEW w \in Workers, MarkFailed(w) PROVE RowKept(k)
  BY <1>0, OutboxAssumption, <1>16, RetriedRow DEF MarkFailed, Rest, Idle, Holds,
      Open, Calm, TypeOK, RowKept, Grounded
<1>17. ASSUME NEW w \in Workers, PushMirror(w) PROVE RowKept(k)
  BY <1>0, OutboxAssumption, <1>17 DEF PushMirror, Rest, Idle, Calm, TypeOK, RowKept,
      Grounded
<1>18. ASSUME NEW j \in Jobs, BecomeDue(j) PROVE RowKept(k)
  BY <1>0, OutboxAssumption, <1>18, ExpiredRow DEF BecomeDue, Open, Unchanged,
      Calm, TypeOK, RowKept
<1>19. ASSUME NEW j \in Jobs, WindowCloses(j) PROVE RowKept(k)
  BY <1>0, OutboxAssumption, <1>19, OutwornRow DEF WindowCloses, Open, Unchanged,
      Calm, TypeOK, RowKept
<1>20. ASSUME NEW j \in Jobs, Forget(j) PROVE RowKept(k)
  BY <1>0, OutboxAssumption, <1>20 DEF Forget, Open, Unchanged, Calm, TypeOK, RowKept
<1>21. ASSUME NEW w \in Workers, Abandon(w) PROVE RowKept(k)
  BY <1>0, OutboxAssumption, <1>21 DEF Abandon, Rest, Idle, Disturb, TypeOK, RowKept
<1> QED
  BY <1>1, <1>2, <1>3, <1>4, <1>5, <1>6, <1>7, <1>8, <1>9, <1>10, <1>11, <1>12,
      <1>13, <1>14, <1>15, <1>16, <1>17, <1>18, <1>19, <1>20, <1>21 DEF Next,
      WorkerStep, Fault

\* No step makes a row under review wait for a worker.
LEMMA ShelvedStep == ASSUME IInv, [Next]_vars, NEW k \in Jobs PROVE Shelf(job'[k])
<1>0. TypeOK /\ Grounded /\ Shelved
  BY DEF IInv
<1>s. \A i \in Jobs : /\ Shelf(job[i])
                      /\ job[i].due \/ job[i].lease # NoOne => ~job[i].review
  BY <1>0 DEF Shelved, Shelf
<1>1. CASE UNCHANGED vars
  BY <1>0, <1>s, NoOneAssumption, OutboxAssumption, <1>1 DEF vars, TypeOK, Shelved
<1>2. ASSUME NEW j \in Jobs, Enqueue(j) PROVE Shelf(job'[k])
  <2>1. EnqueuedFrom(job[j], Enqueued(job[j], TRUE))
    BY <1>0, EnqueuedRow DEF TypeOK, EnqueuedFrom
  <2> QED BY <1>0, <1>s, NoOneAssumption, OutboxAssumption, <1>2, <2>1 DEF EnqueuedFrom, Enqueue, Calm,
      TypeOK, Shelved
<1>3. CASE ReadQuote
  BY <1>0, <1>s, NoOneAssumption, OutboxAssumption, <1>3 DEF ReadQuote, Calm, TypeOK, Shelved
<1>4. ASSUME NEW j \in Invites, Schedule(j) PROVE Shelf(job'[k])
  BY <1>0, <1>s, NoOneAssumption, OutboxAssumption, <1>4, EnqueuedRow DEF Schedule, EnqueuedFrom, Calm,
      TypeOK, Shelved
<1>5. CASE Retract
  BY <1>0, <1>s, NoOneAssumption, OutboxAssumption, <1>5, EnqueuedRow, RevokedRow DEF Retract, Open,
      Spare, UnderWay, EnqueuedFrom, Calm, TypeOK, Shelved
<1>6. CASE Pay
  BY <1>0, <1>s, NoOneAssumption, OutboxAssumption, <1>6 DEF Pay, Spare, UnderWay, Calm, TypeOK, Shelved
<1>7. ASSUME NEW w \in Workers, NEW j \in Jobs, Claim(w, j) PROVE Shelf(job'[k])
  <2>1. worker[w].at = "idle" /\ Open(j) /\ job[j].due /\ job[j] \in Job
    BY <1>0, <1>7 DEF Claim, Claimable, TypeOK
  <2>2. CASE Uncertain(j)
    <3>1. job' = [job EXCEPT ![j] = Quarantined(@)]
      BY <1>7, <2>2 DEF Claim
    <3>2. UNCHANGED <<worker, quote, key, accepted, pushed, spared, disturbances>>
      BY <1>7, <2>2 DEF Claim, Calm
    <3> QED BY <1>0, <1>s, NoOneAssumption, OutboxAssumption, <2>1, <3>1, <3>2, QuarantinedRow DEF Open,
        TypeOK, Shelved
  <2>3. CASE ~Uncertain(j)
    <3>1. job' = [job EXCEPT ![j] = Leased(@, w)]
      BY <1>7, <2>3 DEF Claim
    <3>2. worker' = [worker EXCEPT ![w] = [at |-> "claimed", job |-> j]]
      BY <1>7, <2>3 DEF Claim
    <3>3. UNCHANGED <<quote, key, accepted, pushed, spared, disturbances>>
      BY <1>7, <2>3 DEF Claim, Calm
    <3> QED BY <1>0, <1>s, NoOneAssumption, OutboxAssumption, <2>1, <3>1, <3>2, <3>3, LeasedRow DEF Open,
        TypeOK, Shelved
  <2> QED BY <2>2, <2>3
<1>8. ASSUME NEW j \in Jobs, SetAside(j) PROVE Shelf(job'[k])
  BY <1>0, <1>s, NoOneAssumption, OutboxAssumption, <1>8, QuarantinedRow DEF SetAside, Open, Disturb,
      TypeOK, Shelved
<1>9. ASSUME NEW w \in Workers, Authorize(w) PROVE Shelf(job'[k])
  BY <1>0, <1>s, NoOneAssumption, OutboxAssumption, <1>9 DEF Authorize, Goto, Rest, Idle, Authorized,
      Holds, Open, Calm, TypeOK, Shelved
<1>10. ASSUME NEW w \in Workers, Check(w) PROVE Shelf(job'[k])
  BY <1>0, <1>s, NoOneAssumption, OutboxAssumption, <1>10 DEF Check, Goto, Stale, Calm, TypeOK, Shelved
<1>11. ASSUME NEW w \in Workers, CancelClaimed(w) PROVE Shelf(job'[k])
  BY <1>0, <1>s, NoOneAssumption, OutboxAssumption, <1>11, RevokedRow DEF CancelClaimed, Rest, Idle,
      Holds, Open, Calm, TypeOK, Shelved, Grounded
<1>12. ASSUME NEW w \in Workers, Send(w) PROVE Shelf(job'[k])
  BY <1>0, <1>s, NoOneAssumption, OutboxAssumption, <1>12 DEF Send, Goto, Take, Calm, TypeOK, Shelved,
      Grounded
<1>13. ASSUME NEW w \in Workers, SendThrows(w) PROVE Shelf(job'[k])
  <2>1. CASE Take(worker[w].job)
    BY <1>0, <1>s, NoOneAssumption, OutboxAssumption, <1>13, <2>1 DEF SendThrows, Goto, Take, Disturb,
        TypeOK, Shelved, Grounded
  <2>2. CASE UNCHANGED <<key, accepted>>
    BY <1>0, <1>s, NoOneAssumption, OutboxAssumption, <1>13, <2>2 DEF SendThrows, Goto, Disturb, TypeOK,
        Shelved, Grounded
  <2> QED BY <1>13, <2>1, <2>2 DEF SendThrows
<1>14. ASSUME NEW w \in Workers, MarkDone(w) PROVE Shelf(job'[k])
  BY <1>0, <1>s, NoOneAssumption, OutboxAssumption, <1>14, DeliveredRow DEF MarkDone, Goto, Rest, Idle,
      Holds, Open, Done, Calm, TypeOK, Shelved, Grounded
<1>15. ASSUME NEW w \in Workers, MarkDoneThrows(w) PROVE Shelf(job'[k])
  <2>1. CASE Holds(w) /\ job' = Done(w)
    BY <1>0, <1>s, NoOneAssumption, OutboxAssumption, <1>15, <2>1, DeliveredRow DEF MarkDoneThrows, Goto,
        Holds, Open, Done, Disturb, TypeOK, Shelved, Grounded
  <2>2. CASE UNCHANGED job
    BY <1>0, <1>s, NoOneAssumption, OutboxAssumption, <1>15, <2>2, DeliveredRow DEF MarkDoneThrows, Goto,
        Holds, Open, Done, Disturb, TypeOK, Shelved, Grounded
  <2> QED BY <1>15, <2>1, <2>2 DEF MarkDoneThrows
<1>16. ASSUME NEW w \in Workers, MarkFailed(w) PROVE Shelf(job'[k])
  BY <1>0, <1>s, NoOneAssumption, OutboxAssumption, <1>16, RetriedRow DEF MarkFailed, Rest, Idle, Holds,
      Open, Calm, TypeOK, Shelved, Grounded
<1>17. ASSUME NEW w \in Workers, PushMirror(w) PROVE Shelf(job'[k])
  BY <1>0, <1>s, NoOneAssumption, OutboxAssumption, <1>17 DEF PushMirror, Rest, Idle, Calm, TypeOK,
      Shelved, Grounded
<1>18. ASSUME NEW j \in Jobs, BecomeDue(j) PROVE Shelf(job'[k])
  BY <1>0, <1>s, NoOneAssumption, OutboxAssumption, <1>18, ExpiredRow DEF BecomeDue, Open, Unchanged,
      Calm, TypeOK, Shelved
<1>19. ASSUME NEW j \in Jobs, WindowCloses(j) PROVE Shelf(job'[k])
  BY <1>0, <1>s, NoOneAssumption, OutboxAssumption, <1>19, OutwornRow DEF WindowCloses, Open, Unchanged,
      Calm, TypeOK, Shelved
<1>20. ASSUME NEW j \in Jobs, Forget(j) PROVE Shelf(job'[k])
  BY <1>0, <1>s, NoOneAssumption, OutboxAssumption, <1>20 DEF Forget, Open, Unchanged, Calm, TypeOK,
      Shelved
<1>21. ASSUME NEW w \in Workers, Abandon(w) PROVE Shelf(job'[k])
  BY <1>0, <1>s, NoOneAssumption, OutboxAssumption, <1>21 DEF Abandon, Rest, Idle, Disturb, TypeOK,
      Shelved
<1> QED
  BY <1>1, <1>2, <1>3, <1>4, <1>5, <1>6, <1>7, <1>8, <1>9, <1>10, <1>11, <1>12,
      <1>13, <1>14, <1>15, <1>16, <1>17, <1>18, <1>19, <1>20, <1>21 DEF Next,
      WorkerStep, Fault

\* A send takes the message exactly once, whether or not the key is known.
TakenBy(j) ==
    /\ \A k \in Jobs : accepted'[k] = IF k = j THEN 1 ELSE accepted[k]
    /\ \A k \in Jobs : key'[k] = IF k = j THEN j \notin Sms ELSE key[k]

\* The provider takes a message that a worker has checked at most once.
LEMMA TakeEffect ==
    ASSUME IInv, NEW w \in Workers, worker[w].at = "checked", Take(worker[w].job)
    PROVE  TakenBy(worker[w].job)
<1> DEFINE j == worker[w].job
<1>1. j \in Jobs /\ At(w, "checked", j)
  BY DEF IInv, Grounded, At
<1>2. accepted \in [Jobs -> Nat] /\ key \in [Jobs -> BOOLEAN]
  BY DEF IInv, TypeOK
<1>3. key[j] => accepted[j] = 1
  BY <1>1 DEF IInv, Taken
<1>4. ~key[j] => accepted[j] = 0
  BY <1>1 DEF IInv, Taken, Forgotten, OneAttempt, Ahead, At
<1> QED BY <1>1, <1>2, <1>3, <1>4 DEF Take, TakenBy

---------------------------------------------------------------------------
(* What a step may do, row contents apart.                                 *)

Others == UNCHANGED <<key, accepted, pushed, spared>>

Quiet == UNCHANGED <<worker, key, accepted, pushed, spared>> /\ (Withdrawn => Withdrawn')

Withdraws == Spare /\ Withdrawn' /\ UNCHANGED <<worker, key, accepted, pushed>>

Leases(w, j) ==
    /\ worker[w].at = "idle" /\ ~Uncertain(j) /\ job'[j].attempted
    /\ worker' = [worker EXCEPT ![w] = [at |-> "claimed", job |-> j]]
    /\ Others /\ UNCHANGED quote

Passes(w) ==
    /\ worker[w].at = "claimed" /\ Goto(w, "authorized") /\ Others /\ UNCHANGED quote
    /\ worker[w].job \in Sms \/ job[worker[w].job].window

Checks(w, step) ==
    /\ worker[w].at = "authorized" /\ Goto(w, step) /\ Others /\ UNCHANGED quote
    /\ step = IF Stale(worker[w].job) THEN "stale" ELSE "checked"

Takes(w, step) ==
    /\ worker[w].at = "checked" /\ Goto(w, step) /\ TakenBy(worker[w].job)
    /\ step \in {"sent", "threw"} /\ UNCHANGED <<quote, pushed, spared>>

Throws(w) ==
    /\ worker[w].at \in {"checked", "sent"} /\ Goto(w, "threw")
    /\ Others /\ UNCHANGED quote

Closes(w) ==
    /\ worker[w].at = "sent" /\ Goto(w, "push") /\ Others /\ UNCHANGED quote
    /\ job[worker[w].job].status # "done" /\ job'[worker[w].job].status = "done"

Rests(w) == worker[w].at # "idle" /\ Rest(w) /\ Others /\ UNCHANGED quote

Pushes(w) ==
    /\ worker[w].at = "push" /\ Rest(w) /\ UNCHANGED <<job, key, accepted, spared, quote>>
    /\ pushed' = [pushed EXCEPT ![worker[w].job] = @ + 1]

Forgets(j) ==
    /\ ~job[j].window
    /\ \A w \in Workers : ~At(w, "authorized", j) /\ ~At(w, "checked", j)
    /\ key' = [key EXCEPT ![j] = FALSE]
    /\ UNCHANGED <<job, worker, accepted, pushed, spared, quote>>

Moves ==
    \/ Quiet
    \/ Withdraws
    \/ \E w \in Workers :
         \/ \E j \in Jobs : Leases(w, j)
         \/ Passes(w) \/ Throws(w) \/ Closes(w) \/ Rests(w) \/ Pushes(w)
         \/ \E step \in Steps : Checks(w, step) \/ Takes(w, step)
    \/ \E j \in Jobs : Forgets(j)

\* A worker that goes on keeps its job, and moves alone.
LEMMA GotoEffect ==
    ASSUME TypeOK, NEW w \in Workers, NEW step, Goto(w, step)
    PROVE  /\ worker'[w].at = step /\ worker'[w].job = worker[w].job
           /\ \A v \in Workers \ {w} : worker'[v] = worker[v]
  BY DEF TypeOK, Goto

\* Every step is one of these moves.
LEMMA MovesStep == IInv /\ [Next]_vars => Moves
<1> SUFFICES ASSUME IInv, [Next]_vars PROVE Moves
  OBVIOUS
<1>0. job \in [Jobs -> Job] /\ Grounded /\ quote \in Quote
  BY DEF IInv, TypeOK
<1>1. CASE UNCHANGED vars
  BY <1>1 DEF vars, Moves, Quiet, Withdrawn
<1>2. ASSUME NEW j \in Jobs, Enqueue(j) PROVE Moves
  BY <1>2 DEF Enqueue, Moves, Quiet, Withdrawn
<1>3. CASE ReadQuote
  BY <1>0, <1>3 DEF ReadQuote, Moves, Quiet, Withdrawn, Quote
<1>4. ASSUME NEW j \in Invites, Schedule(j) PROVE Moves
  BY <1>0, <1>4 DEF Schedule, Moves, Quiet, Withdrawn, Quote
<1>5. CASE Retract
  BY <1>0, <1>5 DEF Retract, Moves, Withdraws, Withdrawn, Quote
<1>6. CASE Pay
  BY <1>0, <1>6 DEF Pay, Moves, Withdraws, Withdrawn, Quote
<1>7. ASSUME NEW w \in Workers, NEW j \in Jobs, Claim(w, j) PROVE Moves
  <2>1. CASE Uncertain(j)
    BY <1>7, <2>1 DEF Claim, Moves, Quiet, Withdrawn
  <2>2. CASE ~Uncertain(j)
    <3>1. job' = [job EXCEPT ![j] = Leased(@, w)]
      BY <1>7, <2>2 DEF Claim
    <3>2. job'[j].attempted
      BY <1>0, <3>1, LeasedRow
    <3>3. Leases(w, j)
      BY <1>7, <2>2, <3>2 DEF Claim, Leases, Others
    <3> QED BY <3>3 DEF Moves
  <2> QED BY <2>1, <2>2
<1>8. ASSUME NEW j \in Jobs, SetAside(j) PROVE Moves
  BY <1>8 DEF SetAside, Moves, Quiet, Withdrawn
<1>9. ASSUME NEW w \in Workers, Authorize(w) PROVE Moves
  <2>1. CASE Authorized(w)
    BY <1>9, <2>1 DEF Authorize, Authorized, Moves, Passes, Others
  <2>2. CASE ~Authorized(w)
    BY <1>9, <2>2 DEF Authorize, Moves, Rests, Others
  <2> QED BY <2>1, <2>2
<1>10. ASSUME NEW w \in Workers, Check(w) PROVE Moves
  <2> DEFINE step == IF Stale(worker[w].job) THEN "stale" ELSE "checked"
  <2>1. step \in Steps /\ Checks(w, step)
    BY <1>10 DEF Check, Checks, Others, Steps
  <2> QED BY <2>1 DEF Moves
<1>11. ASSUME NEW w \in Workers, CancelClaimed(w) PROVE Moves
  BY <1>11 DEF CancelClaimed, Moves, Rests, Others
<1>12. ASSUME NEW w \in Workers, Send(w) PROVE Moves
  <2>1. "sent" \in Steps /\ Takes(w, "sent")
    BY <1>12, TakeEffect DEF Send, Takes, Steps
  <2> QED BY <2>1 DEF Moves
<1>13. ASSUME NEW w \in Workers, SendThrows(w) PROVE Moves
  <2>1. CASE Take(worker[w].job)
    <3>1. "threw" \in Steps /\ Takes(w, "threw")
      BY <1>13, <2>1, TakeEffect DEF SendThrows, Takes, Steps
    <3> QED BY <3>1 DEF Moves
  <2>2. CASE UNCHANGED <<key, accepted>>
    BY <1>13, <2>2 DEF SendThrows, Moves, Throws, Others
  <2> QED BY <1>13, <2>1, <2>2 DEF SendThrows
<1>14. ASSUME NEW w \in Workers, MarkDone(w) PROVE Moves
  <2>1. CASE Holds(w)
    <3>1. worker[w].job \in Jobs
      BY <1>0, <1>14 DEF Grounded, MarkDone
    <3>2. job' = [job EXCEPT ![worker[w].job] = Delivered(@)]
      BY <1>14, <2>1 DEF MarkDone, Done
    <3>3. job'[worker[w].job].status = "done"
      BY <1>0, <3>1, <3>2, DeliveredRow
    <3>4. Closes(w)
      BY <1>14, <2>1, <3>3 DEF MarkDone, Closes, Others, Holds, Open
    <3> QED BY <3>4 DEF Moves
  <2>2. CASE ~Holds(w)
    BY <1>14, <2>2 DEF MarkDone, Moves, Rests, Others
  <2> QED BY <2>1, <2>2
<1>15. ASSUME NEW w \in Workers, MarkDoneThrows(w) PROVE Moves
  BY <1>15 DEF MarkDoneThrows, Moves, Throws, Others
<1>16. ASSUME NEW w \in Workers, MarkFailed(w) PROVE Moves
  BY <1>16 DEF MarkFailed, Moves, Rests, Others
<1>17. ASSUME NEW w \in Workers, PushMirror(w) PROVE Moves
  BY <1>17 DEF PushMirror, Moves, Pushes
<1>18. ASSUME NEW j \in Jobs, BecomeDue(j) PROVE Moves
  BY <1>18 DEF BecomeDue, Unchanged, Moves, Quiet, Withdrawn
<1>19. ASSUME NEW j \in Jobs, WindowCloses(j) PROVE Moves
  BY <1>19 DEF WindowCloses, Unchanged, Moves, Quiet, Withdrawn
<1>20. ASSUME NEW j \in Jobs, Forget(j) PROVE Moves
  BY <1>20 DEF Forget, Unchanged, Moves, Forgets
<1>21. ASSUME NEW w \in Workers, Abandon(w) PROVE Moves
  BY <1>21 DEF Abandon, Moves, Rests, Others
<1> QED
  BY <1>1, <1>2, <1>3, <1>4, <1>5, <1>6, <1>7, <1>8, <1>9, <1>10, <1>11, <1>12, <1>13,
     <1>14, <1>15, <1>16, <1>17, <1>18, <1>19, <1>20, <1>21 DEF Next, WorkerStep, Fault

\* A worker still acts on an attempted job.
LEMMA GroundedStep == IInv /\ [Next]_vars => Grounded'
<1> SUFFICES ASSUME IInv, [Next]_vars PROVE Grounded'
  OBVIOUS
<1>0. TypeOK /\ Grounded
  BY DEF IInv
<1>1. Moves /\ \A k \in Jobs : RowKept(k)
  BY MovesStep, RowStep
<1>2. CASE Quiet
  BY <1>0, <1>1, <1>2 DEF Quiet, Grounded, TypeOK, RowKept, Steps
<1>3. CASE Withdraws
  BY <1>0, <1>1, <1>3 DEF Withdraws, Spare, UnderWay, Grounded, TypeOK, RowKept,
      Steps
<1>4. ASSUME NEW w \in Workers, NEW j \in Jobs, Leases(w, j) PROVE Grounded'
  BY <1>0, <1>1, <1>4 DEF Leases, Uncertain, Others, Grounded, TypeOK, RowKept,
      Steps
<1>5. ASSUME NEW w \in Workers, Passes(w) PROVE Grounded'
  BY <1>0, <1>1, <1>5 DEF Passes, Goto, Others, Grounded, TypeOK, RowKept, Steps
<1>6. ASSUME NEW w \in Workers, Throws(w) PROVE Grounded'
  BY <1>0, <1>1, <1>6 DEF Throws, Goto, Others, Grounded, TypeOK, RowKept, Steps
<1>7. ASSUME NEW w \in Workers, Closes(w) PROVE Grounded'
  <2>1. Goto(w, "push")
    BY <1>7 DEF Closes
  <2>2. /\ worker'[w].at = "push" /\ worker'[w].job = worker[w].job
        /\ \A v \in Workers \ {w} : worker'[v] = worker[v]
    BY <1>0, <2>1, GotoEffect
  <2> QED BY <1>0, <1>1, <1>7, <2>2 DEF Closes, Others, Grounded, TypeOK, RowKept,
      Steps
<1>8. ASSUME NEW w \in Workers, Rests(w) PROVE Grounded'
  BY <1>0, <1>1, <1>8 DEF Rests, Rest, Idle, Others, Grounded, TypeOK, RowKept,
      Steps
<1>9. ASSUME NEW w \in Workers, Pushes(w) PROVE Grounded'
  BY <1>0, <1>1, <1>9 DEF Pushes, Rest, Idle, Grounded, TypeOK, RowKept, Steps
<1>10. ASSUME NEW w \in Workers, NEW step \in Steps, Checks(w, step) PROVE
    Grounded'
  BY <1>0, <1>1, <1>10 DEF Checks, Goto, Others, Grounded, TypeOK, RowKept, Steps
<1>11. ASSUME NEW w \in Workers, NEW step \in Steps, Takes(w, step) PROVE
    Grounded'
  <2>1. Goto(w, step)
    BY <1>11 DEF Takes
  <2>2. /\ worker'[w].at = step /\ worker'[w].job = worker[w].job
        /\ \A v \in Workers \ {w} : worker'[v] = worker[v]
    BY <1>0, <2>1, GotoEffect
  <2> QED BY <1>0, <1>1, <1>11, <2>2 DEF Takes, TakenBy, Grounded, TypeOK,
      RowKept, Steps
<1>12. ASSUME NEW j \in Jobs, Forgets(j) PROVE Grounded'
  BY <1>0, <1>1, <1>12 DEF Forgets, Grounded, TypeOK, RowKept, Steps
<1> QED BY <1>1, <1>2, <1>3, <1>4, <1>5, <1>6, <1>7, <1>8, <1>9, <1>10, <1>11,
    <1>12 DEF Moves

\* The provider took each message at most once, and remembers no other.
LEMMA TakenStep == IInv /\ [Next]_vars => Taken'
<1> SUFFICES ASSUME IInv, [Next]_vars PROVE Taken'
  OBVIOUS
<1>0. TypeOK /\ Grounded /\ Taken
  BY DEF IInv
<1>1. Moves /\ \A k \in Jobs : RowKept(k)
  BY MovesStep, RowStep
<1>2. CASE Quiet
  BY <1>0, <1>1, <1>2 DEF Quiet, Taken, Grounded, TypeOK, RowKept
<1>3. CASE Withdraws
  BY <1>0, <1>1, <1>3 DEF Withdraws, Spare, UnderWay, Taken, Grounded, TypeOK,
      RowKept
<1>4. ASSUME NEW w \in Workers, NEW j \in Jobs, Leases(w, j) PROVE Taken'
  BY <1>0, <1>1, <1>4 DEF Leases, Uncertain, Others, Taken, Grounded, TypeOK,
      RowKept
<1>5. ASSUME NEW w \in Workers, Passes(w) PROVE Taken'
  BY <1>0, <1>1, <1>5 DEF Passes, Goto, Others, Taken, Grounded, TypeOK, RowKept
<1>6. ASSUME NEW w \in Workers, Throws(w) PROVE Taken'
  BY <1>0, <1>1, <1>6 DEF Throws, Goto, Others, Taken, Grounded, TypeOK, RowKept
<1>7. ASSUME NEW w \in Workers, Closes(w) PROVE Taken'
  <2>1. Goto(w, "push")
    BY <1>7 DEF Closes
  <2>2. /\ worker'[w].at = "push" /\ worker'[w].job = worker[w].job
        /\ \A v \in Workers \ {w} : worker'[v] = worker[v]
    BY <1>0, <2>1, GotoEffect
  <2> QED BY <1>0, <1>1, <1>7, <2>2 DEF Closes, Others, Taken, Grounded, TypeOK,
      RowKept
<1>8. ASSUME NEW w \in Workers, Rests(w) PROVE Taken'
  BY <1>0, <1>1, <1>8 DEF Rests, Rest, Idle, Others, Taken, Grounded, TypeOK,
      RowKept
<1>9. ASSUME NEW w \in Workers, Pushes(w) PROVE Taken'
  BY <1>0, <1>1, <1>9 DEF Pushes, Rest, Idle, Taken, Grounded, TypeOK, RowKept
<1>10. ASSUME NEW w \in Workers, NEW step \in Steps, Checks(w, step) PROVE Taken'
  BY <1>0, <1>1, <1>10 DEF Checks, Goto, Others, Taken, Grounded, TypeOK, RowKept
<1>11. ASSUME NEW w \in Workers, NEW step \in Steps, Takes(w, step) PROVE Taken'
  <2>1. Goto(w, step)
    BY <1>11 DEF Takes
  <2>2. /\ worker'[w].at = step /\ worker'[w].job = worker[w].job
        /\ \A v \in Workers \ {w} : worker'[v] = worker[v]
    BY <1>0, <2>1, GotoEffect
  <2> QED BY <1>0, <1>1, <1>11, <2>2 DEF Takes, TakenBy, Taken, Grounded, TypeOK,
      RowKept
<1>12. ASSUME NEW j \in Jobs, Forgets(j) PROVE Taken'
  BY <1>0, <1>1, <1>12 DEF Forgets, Taken, Grounded, TypeOK, RowKept
<1> QED BY <1>1, <1>2, <1>3, <1>4, <1>5, <1>6, <1>7, <1>8, <1>9, <1>10, <1>11,
    <1>12 DEF Moves

\* A forgotten email is still out of every worker's hands.
LEMMA ForgottenStep == IInv /\ [Next]_vars => Forgotten'
<1> SUFFICES ASSUME IInv, [Next]_vars PROVE Forgotten'
  OBVIOUS
<1>0. TypeOK /\ Grounded /\ Taken /\ Forgotten
  BY DEF IInv
<1>1. Moves /\ \A k \in Jobs : RowKept(k)
  BY MovesStep, RowStep
<1>2. CASE Quiet
  BY <1>0, <1>1, <1>2 DEF Quiet, Forgotten, At, Grounded, TypeOK, RowKept
<1>3. CASE Withdraws
  BY <1>0, <1>1, <1>3 DEF Withdraws, Spare, UnderWay, Forgotten, At, Grounded,
      TypeOK, RowKept
<1>4. ASSUME NEW w \in Workers, NEW j \in Jobs, Leases(w, j) PROVE Forgotten'
  BY <1>0, <1>1, <1>4 DEF Leases, Uncertain, Others, Forgotten, At, Grounded,
      TypeOK, RowKept
<1>5. ASSUME NEW w \in Workers, Passes(w) PROVE Forgotten'
  BY <1>0, <1>1, <1>5 DEF Passes, Goto, Others, Forgotten, At, Grounded, TypeOK,
      RowKept
<1>6. ASSUME NEW w \in Workers, Throws(w) PROVE Forgotten'
  BY <1>0, <1>1, <1>6 DEF Throws, Goto, Others, Forgotten, At, Grounded, TypeOK,
      RowKept
<1>7. ASSUME NEW w \in Workers, Closes(w) PROVE Forgotten'
  <2>1. Goto(w, "push")
    BY <1>7 DEF Closes
  <2>2. /\ worker'[w].at = "push" /\ worker'[w].job = worker[w].job
        /\ \A v \in Workers \ {w} : worker'[v] = worker[v]
    BY <1>0, <2>1, GotoEffect
  <2> QED BY <1>0, <1>1, <1>7, <2>2 DEF Closes, Others, Forgotten, At, Grounded,
      TypeOK, RowKept
<1>8. ASSUME NEW w \in Workers, Rests(w) PROVE Forgotten'
  BY <1>0, <1>1, <1>8 DEF Rests, Rest, Idle, Others, Forgotten, At, Grounded,
      TypeOK, RowKept
<1>9. ASSUME NEW w \in Workers, Pushes(w) PROVE Forgotten'
  BY <1>0, <1>1, <1>9 DEF Pushes, Rest, Idle, Forgotten, At, Grounded, TypeOK,
      RowKept
<1>10. ASSUME NEW w \in Workers, NEW step \in Steps, Checks(w, step) PROVE
    Forgotten'
  BY <1>0, <1>1, <1>10 DEF Checks, Goto, Others, Forgotten, At, Grounded, TypeOK,
      RowKept
<1>11. ASSUME NEW w \in Workers, NEW step \in Steps, Takes(w, step) PROVE
    Forgotten'
  <2>1. Goto(w, step)
    BY <1>11 DEF Takes
  <2>2. /\ worker'[w].at = step /\ worker'[w].job = worker[w].job
        /\ \A v \in Workers \ {w} : worker'[v] = worker[v]
    BY <1>0, <2>1, GotoEffect
  <2>3. ASSUME NEW k \in Jobs \ Sms, accepted'[k] = 1, ~key'[k]
        PROVE  k # worker[w].job /\ accepted[k] = 1 /\ ~key[k]
    BY <1>11, <2>3 DEF Takes, TakenBy
  <2>4. ASSUME NEW k \in Jobs \ Sms, accepted'[k] = 1, ~key'[k], NEW v \in Workers
        PROVE  ~At(v, "authorized", k)' /\ ~At(v, "checked", k)'
    BY <1>0, <1>11, <2>2, <2>3, <2>4 DEF Forgotten, At, Takes
  <2> QED BY <1>0, <1>1, <2>3, <2>4 DEF Forgotten, RowKept
<1>12. ASSUME NEW j \in Jobs, Forgets(j) PROVE Forgotten'
  BY <1>0, <1>1, <1>12 DEF Forgets, Forgotten, At, Grounded, TypeOK, RowKept
<1> QED BY <1>1, <1>2, <1>3, <1>4, <1>5, <1>6, <1>7, <1>8, <1>9, <1>10, <1>11,
    <1>12 DEF Moves

\* A text still has one worker ever.
LEMMA OneAttemptStep == IInv /\ [Next]_vars => OneAttempt'
<1> SUFFICES ASSUME IInv, [Next]_vars PROVE OneAttempt'
  OBVIOUS
<1>0. TypeOK /\ Grounded /\ Taken /\ OneAttempt
  BY DEF IInv
<1>1. Moves /\ \A k \in Jobs : RowKept(k)
  BY MovesStep, RowStep
<1>2. CASE Quiet
  BY <1>0, <1>1, <1>2 DEF Quiet, OneAttempt, Ahead, Grounded, TypeOK, RowKept
<1>3. CASE Withdraws
  BY <1>0, <1>1, <1>3 DEF Withdraws, Spare, UnderWay, OneAttempt, Ahead, Grounded,
      TypeOK, RowKept
<1>4. ASSUME NEW w \in Workers, NEW j \in Jobs, Leases(w, j) PROVE OneAttempt'
  BY <1>0, <1>1, <1>4 DEF Leases, Uncertain, Others, OneAttempt, Ahead, Grounded,
      TypeOK, RowKept, Taken
<1>5. ASSUME NEW w \in Workers, Passes(w) PROVE OneAttempt'
  BY <1>0, <1>1, <1>5 DEF Passes, Goto, Others, OneAttempt, Ahead, Grounded,
      TypeOK, RowKept
<1>6. ASSUME NEW w \in Workers, Throws(w) PROVE OneAttempt'
  BY <1>0, <1>1, <1>6 DEF Throws, Goto, Others, OneAttempt, Ahead, Grounded,
      TypeOK, RowKept
<1>7. ASSUME NEW w \in Workers, Closes(w) PROVE OneAttempt'
  <2>1. Goto(w, "push")
    BY <1>7 DEF Closes
  <2>2. /\ worker'[w].at = "push" /\ worker'[w].job = worker[w].job
        /\ \A v \in Workers \ {w} : worker'[v] = worker[v]
    BY <1>0, <2>1, GotoEffect
  <2>3. ASSUME NEW v \in Workers
        PROVE  /\ worker'[v].job = worker[v].job
               /\ worker'[v].at # "idle" => worker[v].at # "idle"
               /\ worker'[v].at \in Ahead => worker[v].at \in Ahead
    BY <2>2, <1>7 DEF Closes, Ahead
  <2> QED BY <1>0, <2>3, <1>7 DEF Closes, Others, OneAttempt
<1>8. ASSUME NEW w \in Workers, Rests(w) PROVE OneAttempt'
  BY <1>0, <1>1, <1>8 DEF Rests, Rest, Idle, Others, OneAttempt, Ahead, Grounded,
      TypeOK, RowKept
<1>9. ASSUME NEW w \in Workers, Pushes(w) PROVE OneAttempt'
  BY <1>0, <1>1, <1>9 DEF Pushes, Rest, Idle, OneAttempt, Ahead, Grounded, TypeOK,
      RowKept
<1>10. ASSUME NEW w \in Workers, NEW step \in Steps, Checks(w, step) PROVE
    OneAttempt'
  BY <1>0, <1>1, <1>10 DEF Checks, Goto, Others, OneAttempt, Ahead, Grounded,
      TypeOK, RowKept
<1>11. ASSUME NEW w \in Workers, NEW step \in Steps, Takes(w, step) PROVE
    OneAttempt'
  <2>1. Goto(w, step)
    BY <1>11 DEF Takes
  <2>2. /\ worker'[w].at = step /\ worker'[w].job = worker[w].job
        /\ \A v \in Workers \ {w} : worker'[v] = worker[v]
    BY <1>0, <2>1, GotoEffect
  <2>3. ASSUME NEW v \in Workers
        PROVE  /\ worker'[v].job = worker[v].job
               /\ worker'[v].at # "idle" => worker[v].at # "idle"
               /\ worker'[v].at \in Ahead => v # w /\ worker[v].at \in Ahead
    BY <2>2, <1>11 DEF Takes, Ahead
  <2>4. ASSUME NEW k \in Sms PROVE ~key'[k]
    BY <1>0, <1>11, <2>4, OutboxAssumption DEF Takes, TakenBy, OneAttempt
  <2>5. ASSUME NEW k \in Sms, accepted'[k] = 1, NEW v \in Workers, worker'[v].job = k,
               worker'[v].at \in Ahead
        PROVE  FALSE
    <3>1. v # w /\ worker[v].at \in Ahead /\ worker[v].job = k
      BY <2>3, <2>5
    <3>2. CASE k = worker[w].job
      BY <1>0, <1>11, <3>1, <3>2 DEF OneAttempt, Takes, Ahead
    <3>3. CASE k # worker[w].job
      BY <1>0, <1>11, <2>5, <3>1, <3>3, OutboxAssumption DEF OneAttempt, Takes, TakenBy
    <3> QED BY <3>2, <3>3
  <2> QED BY <1>0, <2>3, <2>4, <2>5 DEF OneAttempt
<1>12. ASSUME NEW j \in Jobs, Forgets(j) PROVE OneAttempt'
  BY <1>0, <1>1, <1>12 DEF Forgets, OneAttempt, Ahead, Grounded, TypeOK, RowKept
<1> QED BY <1>1, <1>2, <1>3, <1>4, <1>5, <1>6, <1>7, <1>8, <1>9, <1>10, <1>11,
    <1>12 DEF Moves

\* A job is recorded done after its delivery.
LEMMA RecordedStep == IInv /\ [Next]_vars => Recorded'
<1> SUFFICES ASSUME IInv, [Next]_vars PROVE Recorded'
  OBVIOUS
<1>0. TypeOK /\ Grounded /\ Recorded
  BY DEF IInv
<1>1. Moves /\ \A k \in Jobs : RowKept(k)
  BY MovesStep, RowStep
<1>2. CASE Quiet
  BY <1>0, <1>1, <1>2 DEF Quiet, Recorded, DoneIsDelivered, At, Grounded, TypeOK,
      RowKept
<1>3. CASE Withdraws
  BY <1>0, <1>1, <1>3 DEF Withdraws, Spare, UnderWay, Recorded, DoneIsDelivered,
      At, Grounded, TypeOK, RowKept
<1>4. ASSUME NEW w \in Workers, NEW j \in Jobs, Leases(w, j) PROVE Recorded'
  BY <1>0, <1>1, <1>4 DEF Leases, Uncertain, Others, Recorded, DoneIsDelivered,
      At, Grounded, TypeOK, RowKept
<1>5. ASSUME NEW w \in Workers, Passes(w) PROVE Recorded'
  BY <1>0, <1>1, <1>5 DEF Passes, Goto, Others, Recorded, DoneIsDelivered, At,
      Grounded, TypeOK, RowKept
<1>6. ASSUME NEW w \in Workers, Throws(w) PROVE Recorded'
  BY <1>0, <1>1, <1>6 DEF Throws, Goto, Others, Recorded, DoneIsDelivered, At,
      Grounded, TypeOK, RowKept
<1>7. ASSUME NEW w \in Workers, Closes(w) PROVE Recorded'
  <2>1. Goto(w, "push")
    BY <1>7 DEF Closes
  <2>2. /\ worker'[w].at = "push" /\ worker'[w].job = worker[w].job
        /\ \A v \in Workers \ {w} : worker'[v] = worker[v]
    BY <1>0, <2>1, GotoEffect
  <2> QED BY <1>0, <1>1, <1>7, <2>2 DEF Closes, Others, Recorded, DoneIsDelivered,
      At, Grounded, TypeOK, RowKept
<1>8. ASSUME NEW w \in Workers, Rests(w) PROVE Recorded'
  BY <1>0, <1>1, <1>8 DEF Rests, Rest, Idle, Others, Recorded, DoneIsDelivered,
      At, Grounded, TypeOK, RowKept
<1>9. ASSUME NEW w \in Workers, Pushes(w) PROVE Recorded'
  BY <1>0, <1>1, <1>9 DEF Pushes, Rest, Idle, Recorded, DoneIsDelivered, At,
      Grounded, TypeOK, RowKept
<1>10. ASSUME NEW w \in Workers, NEW step \in Steps, Checks(w, step) PROVE
    Recorded'
  BY <1>0, <1>1, <1>10 DEF Checks, Goto, Others, Recorded, DoneIsDelivered, At,
      Grounded, TypeOK, RowKept
<1>11. ASSUME NEW w \in Workers, NEW step \in Steps, Takes(w, step) PROVE
    Recorded'
  <2>1. Goto(w, step)
    BY <1>11 DEF Takes
  <2>2. /\ worker'[w].at = step /\ worker'[w].job = worker[w].job
        /\ \A v \in Workers \ {w} : worker'[v] = worker[v]
    BY <1>0, <2>1, GotoEffect
  <2> QED BY <1>0, <1>1, <1>11, <2>2 DEF Takes, TakenBy, Recorded,
      DoneIsDelivered, At, Grounded, TypeOK, RowKept
<1>12. ASSUME NEW j \in Jobs, Forgets(j) PROVE Recorded'
  BY <1>0, <1>1, <1>12 DEF Forgets, Recorded, DoneIsDelivered, At, Grounded,
      TypeOK, RowKept
<1> QED BY <1>1, <1>2, <1>3, <1>4, <1>5, <1>6, <1>7, <1>8, <1>9, <1>10, <1>11,
    <1>12 DEF Moves

\* One worker goes on to the push of a job.
LEMMA PushingStep == IInv /\ [Next]_vars => Pushing'
<1> SUFFICES ASSUME IInv, [Next]_vars PROVE Pushing'
  OBVIOUS
<1>0. TypeOK /\ Grounded /\ Pushing
  BY DEF IInv
<1>1. Moves /\ \A k \in Jobs : RowKept(k)
  BY MovesStep, RowStep
<1>2. CASE Quiet
  BY <1>0, <1>1, <1>2 DEF Quiet, Pushing, OnePushPerDelivery, Grounded, TypeOK,
      RowKept
<1>3. CASE Withdraws
  BY <1>0, <1>1, <1>3 DEF Withdraws, Spare, UnderWay, Pushing, OnePushPerDelivery,
      Grounded, TypeOK, RowKept
<1>4. ASSUME NEW w \in Workers, NEW j \in Jobs, Leases(w, j) PROVE Pushing'
  BY <1>0, <1>1, <1>4 DEF Leases, Uncertain, Others, Pushing, OnePushPerDelivery,
      Grounded, TypeOK, RowKept
<1>5. ASSUME NEW w \in Workers, Passes(w) PROVE Pushing'
  BY <1>0, <1>1, <1>5 DEF Passes, Goto, Others, Pushing, OnePushPerDelivery,
      Grounded, TypeOK, RowKept
<1>6. ASSUME NEW w \in Workers, Throws(w) PROVE Pushing'
  BY <1>0, <1>1, <1>6 DEF Throws, Goto, Others, Pushing, OnePushPerDelivery,
      Grounded, TypeOK, RowKept
<1>7. ASSUME NEW w \in Workers, Closes(w) PROVE Pushing'
  <2>1. Goto(w, "push")
    BY <1>7 DEF Closes
  <2>2. /\ worker'[w].at = "push" /\ worker'[w].job = worker[w].job
        /\ \A v \in Workers \ {w} : worker'[v] = worker[v]
    BY <1>0, <2>1, GotoEffect
  <2>3. worker[w].job \in Jobs /\ pushed[worker[w].job] = 0
    <3>1. worker[w].job \in Jobs
      BY <1>0, <1>7 DEF Closes, Grounded
    <3>2. pushed[worker[w].job] \in Nat
      BY <1>0, <3>1 DEF TypeOK
    <3>3. pushed[worker[w].job] <= 1 /\ pushed[worker[w].job] # 1
      BY <1>0, <1>7, <3>1 DEF Closes, Pushing, OnePushPerDelivery
    <3> QED BY <3>1, <3>2, <3>3
  <2>4. ASSUME NEW v \in Workers, worker'[v].at = "push"
        PROVE  v = w \/ (worker[v].at = "push" /\ worker[v].job # worker[w].job)
    BY <1>0, <1>7, <2>2, <2>4 DEF Closes, Pushing
  <2>5. ASSUME NEW v \in Workers, worker'[v].at = "push"
        PROVE  /\ job'[worker'[v].job].status = "done"
               /\ pushed'[worker'[v].job] = 0
    BY <1>0, <1>1, <1>7, <2>2, <2>3, <2>4, <2>5 DEF Closes, Others, Pushing, Grounded, RowKept
  <2>6. ASSUME NEW u \in Workers, NEW v \in Workers, worker'[u].at = "push",
               worker'[v].at = "push", worker'[u].job = worker'[v].job
        PROVE  u = v
    BY <1>0, <2>2, <2>4, <2>6 DEF Pushing
  <2>7. OnePushPerDelivery'
    BY <1>0, <1>1, <1>7 DEF Closes, Others, Pushing, OnePushPerDelivery, RowKept
  <2> QED BY <2>5, <2>6, <2>7 DEF Pushing
<1>8. ASSUME NEW w \in Workers, Rests(w) PROVE Pushing'
  BY <1>0, <1>1, <1>8 DEF Rests, Rest, Idle, Others, Pushing, OnePushPerDelivery,
      Grounded, TypeOK, RowKept
<1>9. ASSUME NEW w \in Workers, Pushes(w) PROVE Pushing'
  BY <1>0, <1>1, <1>9 DEF Pushes, Rest, Idle, Pushing, OnePushPerDelivery,
      Grounded, TypeOK, RowKept
<1>10. ASSUME NEW w \in Workers, NEW step \in Steps, Checks(w, step) PROVE
    Pushing'
  BY <1>0, <1>1, <1>10 DEF Checks, Goto, Others, Pushing, OnePushPerDelivery,
      Grounded, TypeOK, RowKept
<1>11. ASSUME NEW w \in Workers, NEW step \in Steps, Takes(w, step) PROVE Pushing'
  <2>1. Goto(w, step)
    BY <1>11 DEF Takes
  <2>2. /\ worker'[w].at = step /\ worker'[w].job = worker[w].job
        /\ \A v \in Workers \ {w} : worker'[v] = worker[v]
    BY <1>0, <2>1, GotoEffect
  <2> QED BY <1>0, <1>1, <1>11, <2>2 DEF Takes, TakenBy, Pushing,
      OnePushPerDelivery, Grounded, TypeOK, RowKept
<1>12. ASSUME NEW j \in Jobs, Forgets(j) PROVE Pushing'
  BY <1>0, <1>1, <1>12 DEF Forgets, Pushing, OnePushPerDelivery, Grounded, TypeOK,
      RowKept
<1> QED BY <1>1, <1>2, <1>3, <1>4, <1>5, <1>6, <1>7, <1>8, <1>9, <1>10, <1>11,
    <1>12 DEF Moves

\* A spared invite is still neither taken nor under way.
LEMMA SparingStep == IInv /\ [Next]_vars => Sparing'
<1> SUFFICES ASSUME IInv, [Next]_vars PROVE Sparing'
  OBVIOUS
<1>0. TypeOK /\ Grounded /\ Taken /\ Sparing
  BY DEF IInv
<1>1. Moves /\ \A k \in Jobs : RowKept(k)
  BY MovesStep, RowStep
<1>2. CASE Quiet
  BY <1>0, <1>1, <1>2 DEF Quiet, Sparing, UnderWay, At, Withdrawn, Grounded,
      TypeOK, RowKept
<1>3. CASE Withdraws
  BY <1>0, <1>1, <1>3 DEF Withdraws, Spare, UnderWay, Sparing, At, Withdrawn,
      Grounded, TypeOK, RowKept
<1>4. ASSUME NEW w \in Workers, NEW j \in Jobs, Leases(w, j) PROVE Sparing'
  BY <1>0, <1>1, <1>4 DEF Leases, Uncertain, Others, Sparing, UnderWay, At,
      Withdrawn, Grounded, TypeOK, RowKept
<1>5. ASSUME NEW w \in Workers, Passes(w) PROVE Sparing'
  BY <1>0, <1>1, <1>5 DEF Passes, Goto, Others, Sparing, UnderWay, At, Withdrawn,
      Grounded, TypeOK, RowKept
<1>6. ASSUME NEW w \in Workers, Throws(w) PROVE Sparing'
  BY <1>0, <1>1, <1>6 DEF Throws, Goto, Others, Sparing, UnderWay, At, Withdrawn,
      Grounded, TypeOK, RowKept
<1>7. ASSUME NEW w \in Workers, Closes(w) PROVE Sparing'
  <2>1. Goto(w, "push")
    BY <1>7 DEF Closes
  <2>2. /\ worker'[w].at = "push" /\ worker'[w].job = worker[w].job
        /\ \A v \in Workers \ {w} : worker'[v] = worker[v]
    BY <1>0, <2>1, GotoEffect
  <2> QED BY <1>0, <1>1, <1>7, <2>2 DEF Closes, Others, Sparing, UnderWay, At,
      Withdrawn, Grounded, TypeOK, RowKept
<1>8. ASSUME NEW w \in Workers, Rests(w) PROVE Sparing'
  BY <1>0, <1>1, <1>8 DEF Rests, Rest, Idle, Others, Sparing, UnderWay, At,
      Withdrawn, Grounded, TypeOK, RowKept
<1>9. ASSUME NEW w \in Workers, Pushes(w) PROVE Sparing'
  BY <1>0, <1>1, <1>9 DEF Pushes, Rest, Idle, Sparing, UnderWay, At, Withdrawn,
      Grounded, TypeOK, RowKept
<1>10. ASSUME NEW w \in Workers, NEW step \in Steps, Checks(w, step) PROVE
    Sparing'
  BY <1>0, <1>1, <1>10 DEF Checks, Goto, Others, Sparing, UnderWay, At, Withdrawn,
      Grounded, TypeOK, RowKept, Stale
<1>11. ASSUME NEW w \in Workers, NEW step \in Steps, Takes(w, step) PROVE Sparing'
  <2>1. Goto(w, step)
    BY <1>11 DEF Takes
  <2>2. /\ worker'[w].at = step /\ worker'[w].job = worker[w].job
        /\ \A v \in Workers \ {w} : worker'[v] = worker[v]
    BY <1>0, <2>1, GotoEffect
  <2>3. worker[w].job \notin spared
    BY <1>0, <1>11 DEF Sparing, UnderWay, At, Takes
  <2>4. spared' = spared /\ Withdrawn' = Withdrawn /\ spared \subseteq Jobs
    BY <1>0, <1>11, OutboxAssumption DEF Takes, Withdrawn, TypeOK
  <2>5. ASSUME NEW k \in spared PROVE accepted'[k] = 0
    BY <1>0, <1>11, <2>3, <2>4, <2>5 DEF Takes, TakenBy, Sparing
  <2>6. ASSUME NEW k \in spared, NEW v \in Workers PROVE ~At(v, "checked", k)'
    BY <1>0, <1>11, <2>2, <2>6 DEF Takes, Sparing, UnderWay, At
  <2> QED BY <1>0, <2>4, <2>5, <2>6 DEF Sparing, UnderWay
<1>12. ASSUME NEW j \in Jobs, Forgets(j) PROVE Sparing'
  BY <1>0, <1>1, <1>12 DEF Forgets, Sparing, UnderWay, At, Withdrawn, Grounded,
      TypeOK, RowKept
<1> QED BY <1>1, <1>2, <1>3, <1>4, <1>5, <1>6, <1>7, <1>8, <1>9, <1>10, <1>11,
    <1>12 DEF Moves

---------------------------------------------------------------------------
(* The theorems.                                                           *)

\* A job under review waits for nobody.
LEMMA ShelvedAll == IInv /\ [Next]_vars => Shelved'
  BY ShelvedStep DEF Shelved

\* The invariant holds at first ...
LEMMA IInvInit == Init => IInv
<1> SUFFICES ASSUME Init PROVE IInv
  OBVIOUS
<1>1. TypeOK
  BY TypeInit
<1>2. Grounded /\ Shelved /\ Taken /\ Forgotten /\ OneAttempt
  BY OutboxAssumption DEF Init, Idle, Shelved, Shelf, NoJob, Grounded, Taken, Forgotten, OneAttempt, At, Ahead
<1>3. Recorded /\ Pushing /\ Sparing
  BY DEF Init, Idle, NoJob, Recorded, DoneIsDelivered, Pushing, OnePushPerDelivery, Sparing
<1> QED BY <1>1, <1>2, <1>3 DEF IInv

\* ... and after every step.
LEMMA IInvStep == IInv /\ [Next]_vars => IInv'
  BY TypeStep, GroundedStep, ShelvedAll, TakenStep, ForgottenStep, OneAttemptStep, RecordedStep,
     PushingStep, SparingStep DEF IInv

\* The inductive invariant holds in every reachable state.
THEOREM OutboxInvariance == Spec => []IInv
  BY IInvInit, IInvStep, PTL DEF Spec

\* Type correctness.
THEOREM OutboxTypes == Spec => []TypeOK
<1>1. IInv => TypeOK
  BY DEF IInv
<1> QED BY <1>1, OutboxInvariance, PTL

\* No recipient gets a message twice.
THEOREM AtMostOnce == Spec => []DeliveredOnce
<1>1. IInv => DeliveredOnce
  BY DEF IInv, Taken, DeliveredOnce
<1> QED BY <1>1, OutboxInvariance, PTL

\* What is recorded as done was delivered.
THEOREM DoneIsTrue == Spec => []DoneIsDelivered
<1>1. IInv => DoneIsDelivered
  BY DEF IInv, Recorded
<1> QED BY <1>1, OutboxInvariance, PTL

\* A withdrawn quote invites nobody to pay.
THEOREM WithdrawnInvitesNobody == Spec => []NoInviteOnceWithdrawn
<1>1. IInv => NoInviteOnceWithdrawn
  BY DEF IInv, Sparing, NoInviteOnceWithdrawn
<1> QED BY <1>1, OutboxInvariance, PTL

\* One push per delivery.
THEOREM PushedOnce == Spec => []OnePushPerDelivery
<1>1. IInv => OnePushPerDelivery
  BY DEF IInv, Pushing
<1> QED BY <1>1, OutboxInvariance, PTL

---------------------------------------------------------------------------
(* The outbox implements OneDelivery.                                      *)

\* Rows that keep their verdicts keep the map of verdicts.
LEMMA SameVerdicts ==
    ASSUME \A k \in Jobs : VerdictOf(job'[k]) = VerdictOf(job[k])
    PROVE  verdict' = verdict
  BY DEF verdict

\* A row that changes its verdict changes the map at its own place.
LEMMA OneVerdict ==
    ASSUME NEW j \in Jobs, NEW v,
           \A k \in Jobs : VerdictOf(job'[k]) = IF k = j THEN v ELSE VerdictOf(job[k])
    PROVE  verdict' = [verdict EXCEPT ![j] = v]
  BY DEF verdict

\* A row that changes alone.
LEMMA OneRow ==
    ASSUME TypeOK, NEW j \in Jobs, NEW row, job' = [job EXCEPT ![j] = row]
    PROVE  \A k \in Jobs : job'[k] = IF k = j THEN row ELSE job[k]
  BY DEF TypeOK

\* The first state is one of OneDelivery's.
LEMMA PromiseInitHolds == Init => Delivery!PromiseInit
  BY DEF Init, NoJob, verdict, VerdictOf, Delivery!PromiseInit

Kept == Delivery!PromiseNext \/ UNCHANGED <<verdict, accepted>>

\* What the provider takes is received for the first time, or again and
\* ignored.
LEMMA TakeKept ==
    ASSUME IInv, IInv', NEW w \in Workers, worker[w].at = "checked",
           Take(worker[w].job), UNCHANGED job
    PROVE  Kept
<1> DEFINE j == worker[w].job
<1>1. TakenBy(j)
  BY TakeEffect
<1>2. accepted \in [Jobs -> Nat] /\ accepted' \in [Jobs -> Nat]
  BY DEF IInv, TypeOK
<1>3. j \in Jobs /\ job[j].status # "none"
  BY DEF IInv, Grounded
<1>4. verdict' = verdict /\ verdict[j] # "none"
  BY <1>3 DEF verdict, VerdictOf
<1>5. accepted[j] \in {0, 1}
  BY <1>3 DEF IInv, Taken
<1>6. CASE accepted[j] = 1
  <2>1. accepted' = accepted
    BY <1>1, <1>2, <1>3, <1>6 DEF TakenBy
  <2> QED BY <1>4, <2>1 DEF Kept
<1>7. CASE accepted[j] = 0
  <2>1. accepted' = [accepted EXCEPT ![j] = 1]
    BY <1>1, <1>2, <1>3, <1>7 DEF TakenBy
  <2>2. Delivery!Receive(j)
    BY <1>4, <1>7, <2>1 DEF Delivery!Receive
  <2> QED BY <1>3, <2>2 DEF Kept, Delivery!PromiseNext
<1> QED BY <1>5, <1>6, <1>7

\* A job is marked done after its message was received.
LEMMA DoneKept ==
    ASSUME IInv, NEW w \in Workers, worker[w].at = "sent", Holds(w), job' = Done(w),
           UNCHANGED accepted
    PROVE  Kept
<1> DEFINE j == worker[w].job
<1>1. j \in Jobs /\ accepted[j] = 1 /\ Shelf(job[j]) /\ job[j] \in Job /\ TypeOK
  BY DEF IInv, Grounded, Recorded, Shelved, TypeOK
<1>2. verdict[j] = "open"
  BY <1>1, NoOneAssumption DEF Holds, Open, Shelf, verdict, VerdictOf
<1>3. \A k \in Jobs : job'[k] = IF k = j THEN Delivered(job[j]) ELSE job[k]
  BY <1>1, OneRow DEF Done
<1>4. verdict' = [verdict EXCEPT ![j] = "done"]
  <2>1. VerdictOf(Delivered(job[j])) = "done"
    BY <1>1, DeliveredRow
  <2>2. \A k \in Jobs : VerdictOf(job'[k]) = IF k = j THEN "done" ELSE VerdictOf(job[k])
    BY <1>3, <2>1
  <2> QED BY <1>1, <2>2, OneVerdict
<1>5. Delivery!Confirm(j)
  BY <1>1, <1>2, <1>4 DEF Delivery!Confirm, Delivery!Becomes
<1> QED BY <1>1, <1>5 DEF Kept, Delivery!PromiseNext

\* A quarantine hands the message to a human.
LEMMA ReviewKept ==
    ASSUME IInv, NEW j \in Jobs, Open(j), job' = [job EXCEPT ![j] = Quarantined(@)],
           UNCHANGED accepted
    PROVE  Kept
<1>1. TypeOK /\ job[j] \in Job
  BY DEF IInv, TypeOK
<1>2. \A k \in Jobs : job'[k] = IF k = j THEN Quarantined(job[j]) ELSE job[k]
  BY <1>1, OneRow
<1>3. verdict' = [verdict EXCEPT ![j] = "review"]
  BY <1>1, <1>2, QuarantinedRow, OneVerdict
<1>4. CASE verdict[j] = "open"
  <2>1. Delivery!Review(j)
    BY <1>3, <1>4 DEF Delivery!Review, Delivery!Becomes
  <2> QED BY <2>1 DEF Kept, Delivery!PromiseNext
<1>5. CASE verdict[j] = "review"
  BY <1>3, <1>5 DEF Kept, verdict
<1> QED BY <1>4, <1>5 DEF Open, verdict, VerdictOf

\* An enqueue asks for a message, or changes no verdict.
LEMMA EnqueueKept ==
    ASSUME IInv, NEW j \in Jobs, NEW dueNow \in BOOLEAN,
           job' = [job EXCEPT ![j] = Enqueued(@, dueNow)], UNCHANGED accepted
    PROVE  Kept
<1>1. TypeOK /\ job[j] \in Job /\ Shelf(job[j])
  BY DEF IInv, TypeOK, Shelved
<1>2. \A k \in Jobs : job'[k] = IF k = j THEN Enqueued(job[j], dueNow) ELSE job[k]
  BY <1>1, OneRow
<1>3. VerdictOf(Enqueued(job[j], dueNow)) =
        IF job[j].status = "none" THEN "open" ELSE VerdictOf(job[j])
  BY <1>1, EnqueuedRow DEF EnqueuedFrom
<1>4. CASE job[j].status = "none"
  <2>1. verdict' = [verdict EXCEPT ![j] = "open"]
    BY <1>2, <1>3, <1>4, OneVerdict
  <2>2. Delivery!Ask(j)
    BY <1>4, <2>1 DEF Delivery!Ask, Delivery!Becomes, verdict, VerdictOf
  <2> QED BY <2>2 DEF Kept, Delivery!PromiseNext
<1>5. CASE job[j].status # "none"
  <2>1. verdict' = verdict
    BY <1>2, <1>3, <1>5, SameVerdicts
  <2> QED BY <2>1 DEF Kept
<1> QED BY <1>4, <1>5

\* A retraction asks for its acknowledgments and revokes the invites.
LEMMA RetractKept == IInv /\ Retract => Kept
<1> SUFFICES ASSUME IInv, Retract PROVE Kept
  OBVIOUS
<1> DEFINE revoked == {j \in Invites : Open(j)}
<1>1. /\ Acks \in SUBSET Jobs /\ revoked \in SUBSET Jobs /\ Acks \cap revoked = {}
      /\ \A j \in Jobs : job[j] \in Job /\ Shelf(job[j])
  BY OutboxAssumption DEF IInv, TypeOK, Shelved
<1>2. \A j \in Jobs : job'[j] = IF j \in Acks THEN Enqueued(job[j], TRUE)
                                ELSE IF j \in revoked THEN Revoked(job[j]) ELSE job[j]
  BY DEF Retract
<1>3. ASSUME NEW j \in Jobs
      PROVE  VerdictOf(job'[j]) =
               CASE j \in revoked -> "cancelled"
                 [] j \in Acks /\ VerdictOf(job[j]) = "none" -> "open"
                 [] OTHER -> VerdictOf(job[j])
  <2>1. VerdictOf(job[j]) = "none" <=> job[j].status = "none"
    BY DEF VerdictOf
  <2>2. VerdictOf(Enqueued(job[j], TRUE)) =
          IF job[j].status = "none" THEN "open" ELSE VerdictOf(job[j])
    BY <1>1, EnqueuedRow DEF EnqueuedFrom
  <2>3. VerdictOf(Revoked(job[j])) = "cancelled"
    BY <1>1, RevokedRow
  <2> QED BY <1>1, <1>2, <2>1, <2>2, <2>3
<1>4. \A m \in revoked : verdict[m] \in {"open", "review"}
  BY <1>1 DEF Open, verdict, VerdictOf
<1>5. verdict' = [m \in Jobs |-> CASE m \in revoked -> "cancelled"
                                   [] m \in Acks /\ verdict[m] = "none" -> "open"
                                   [] OTHER -> verdict[m]]
  BY <1>3 DEF verdict
<1>6. Delivery!Retract(Acks, revoked)
  BY <1>4, <1>5 DEF Retract, Delivery!Retract
<1> QED BY <1>1, <1>6 DEF Kept, Delivery!PromiseNext

\* The cancellation of a stale message revokes it.
LEMMA CancelKept == ASSUME IInv, NEW w \in Workers, CancelClaimed(w) PROVE Kept
<1> DEFINE j == worker[w].job
<1>1. j \in Jobs /\ TypeOK /\ job[j] \in Job
  BY DEF IInv, Grounded, TypeOK, CancelClaimed
<1>2. CASE Holds(w)
  <2>1. \A k \in Jobs : job'[k] = IF k = j THEN Revoked(job[j]) ELSE job[k]
    BY <1>1, <1>2, OneRow DEF CancelClaimed
  <2>2. verdict' = [verdict EXCEPT ![j] = "cancelled"]
    BY <1>1, <2>1, RevokedRow, OneVerdict
  <2>3. verdict[j] \in {"open", "review"}
    BY <1>1, <1>2 DEF Holds, Open, verdict, VerdictOf
  <2>4. Delivery!Revoke(j)
    BY <2>2, <2>3 DEF CancelClaimed, Delivery!Revoke, Delivery!Becomes
  <2> QED BY <1>1, <2>4 DEF Kept, Delivery!PromiseNext
<1>3. CASE ~Holds(w)
  BY <1>3 DEF CancelClaimed, Kept, verdict
<1> QED BY <1>2, <1>3

\* A row that changes without changing its verdict.
LEMMA SilentRow ==
    ASSUME IInv, NEW j \in Jobs, NEW row, job' = [job EXCEPT ![j] = row],
           VerdictOf(row) = VerdictOf(job[j]), UNCHANGED accepted
    PROVE  Kept
<1>1. \A k \in Jobs : job'[k] = IF k = j THEN row ELSE job[k]
  BY OneRow DEF IInv
<1>2. verdict' = verdict
  BY <1>1, SameVerdicts
<1> QED BY <1>2 DEF Kept

\* Every step is one of OneDelivery's or a stutter.
LEMMA PromiseStep == IInv /\ IInv' /\ [Next]_vars => Kept
<1> SUFFICES ASSUME IInv, IInv', [Next]_vars PROVE Kept
  OBVIOUS
<1>0. \A j \in Jobs : job[j] \in Job
  BY DEF IInv, TypeOK
<1>s. ASSUME UNCHANGED <<job, accepted>> PROVE Kept
  BY <1>s DEF Kept, verdict
<1>1. CASE UNCHANGED vars
  BY <1>1, <1>s DEF vars
<1>2. ASSUME NEW j \in Jobs, Enqueue(j) PROVE Kept
  BY <1>2, EnqueueKept DEF Enqueue
<1>3. CASE ReadQuote \/ Pay
  BY <1>3, <1>s DEF ReadQuote, Pay
<1>4. ASSUME NEW j \in Invites, Schedule(j) PROVE Kept
  BY <1>4, EnqueueKept, OutboxAssumption DEF Schedule
<1>5. CASE Retract
  BY <1>5, RetractKept
<1>6. ASSUME NEW w \in Workers, NEW j \in Jobs, Claim(w, j) PROVE Kept
  <2>1. Open(j) /\ UNCHANGED accepted
    BY <1>6 DEF Claim, Claimable
  <2>2. CASE Uncertain(j)
    BY <1>6, <2>1, <2>2, ReviewKept DEF Claim
  <2>3. CASE ~Uncertain(j)
    <3>1. job' = [job EXCEPT ![j] = Leased(job[j], w)]
      BY <1>6, <2>3 DEF Claim
    <3>2. VerdictOf(Leased(job[j], w)) = VerdictOf(job[j])
      BY <1>0, LeasedRow
    <3> QED BY <2>1, <3>1, <3>2, SilentRow
  <2> QED BY <2>2, <2>3
<1>7. ASSUME NEW j \in Jobs, SetAside(j) PROVE Kept
  BY <1>7, ReviewKept DEF SetAside
<1>8. ASSUME NEW w \in Workers, Authorize(w) \/ Check(w) \/ PushMirror(w) \/ Abandon(w)
      PROVE  Kept
  BY <1>8, <1>s DEF Authorize, Check, PushMirror, Abandon
<1>9. ASSUME NEW w \in Workers, CancelClaimed(w) PROVE Kept
  BY <1>9, CancelKept
<1>10. ASSUME NEW w \in Workers, Send(w) PROVE Kept
  BY <1>10, TakeKept DEF Send
<1>11. ASSUME NEW w \in Workers, SendThrows(w) PROVE Kept
  BY <1>11, <1>s, TakeKept DEF SendThrows
<1>12. ASSUME NEW w \in Workers, MarkDone(w) PROVE Kept
  BY <1>12, <1>s, DoneKept DEF MarkDone
<1>13. ASSUME NEW w \in Workers, MarkDoneThrows(w) PROVE Kept
  BY <1>13, <1>s, DoneKept DEF MarkDoneThrows
<1>14. ASSUME NEW w \in Workers, MarkFailed(w) PROVE Kept
  <2>1. worker[w].job \in Jobs /\ UNCHANGED accepted
    BY <1>14 DEF MarkFailed, IInv, Grounded
  <2>2. CASE Holds(w)
    <3>1. job' = [job EXCEPT ![worker[w].job] = Retried(job[worker[w].job])]
      BY <1>14, <2>2 DEF MarkFailed
    <3>2. VerdictOf(Retried(job[worker[w].job])) = VerdictOf(job[worker[w].job])
      BY <1>0, <2>1, <2>2, RetriedRow DEF Holds, Open
    <3> QED BY <2>1, <3>1, <3>2, SilentRow
  <2>3. CASE ~Holds(w)
    BY <1>14, <1>s, <2>3 DEF MarkFailed
  <2> QED BY <2>2, <2>3
<1>15. ASSUME NEW j \in Jobs, BecomeDue(j) PROVE Kept
  <2>1. job' = [job EXCEPT ![j] = Expired(job[j])] /\ UNCHANGED accepted
    BY <1>15 DEF BecomeDue, Unchanged
  <2>2. VerdictOf(Expired(job[j])) = VerdictOf(job[j])
    BY <1>0, ExpiredRow
  <2> QED BY <2>1, <2>2, SilentRow
<1>16. ASSUME NEW j \in Jobs, WindowCloses(j) PROVE Kept
  <2>1. job' = [job EXCEPT ![j] = Outworn(job[j])] /\ UNCHANGED accepted
    BY <1>16 DEF WindowCloses, Unchanged
  <2>2. VerdictOf(Outworn(job[j])) = VerdictOf(job[j])
    BY <1>0, OutwornRow
  <2> QED BY <2>1, <2>2, SilentRow
<1>17. ASSUME NEW j \in Jobs, Forget(j) PROVE Kept
  BY <1>17, <1>s DEF Forget, Unchanged
<1> QED
  BY <1>1, <1>2, <1>3, <1>4, <1>5, <1>6, <1>7, <1>8, <1>9, <1>10, <1>11, <1>12, <1>13,
     <1>14, <1>15, <1>16, <1>17 DEF Next, WorkerStep, Fault

\* The outbox keeps its promise: refinement of OneDelivery.
THEOREM OutboxKeepsPromise == Spec => DeliveryPromise
<1>1. Init => Delivery!PromiseInit
  BY PromiseInitHolds
<1>2. IInv /\ IInv' /\ [Next]_vars => [Delivery!PromiseNext]_<<verdict, accepted>>
  BY PromiseStep DEF Kept
<1> QED BY <1>1, <1>2, OutboxInvariance, PTL DEF Spec, DeliveryPromise, Delivery!Promise

=============================================================================
