----------------------- MODULE JarvisDispatch_proofs -----------------------
(***************************************************************************)
(* Theorems about JarvisDispatch, for every set of workers, every budget   *)
(* and every bound: type correctness, the safety invariants the runs check *)
(* (from one inductive invariant, Inv), two action properties, and the     *)
(* safety part of the refinement of ConfirmedEffect.                       *)
(***************************************************************************)
EXTENDS JarvisDispatch, TLAPS

---------------------------------------------------------------------------
(* The inductive invariant.                                                *)

\* The phases before the confirmation is consumed.
Preparing == {"none", "resolving_customer", "awaiting_duplicate_review",
              "preparing_proposal", "awaiting_confirmation"}

Results == {"succeeded", "failed_terminal", "outcome_unknown"}

\* A run starts with its whole budget, and every command moves its revision.
Revisions ==
    /\ run.phase = "none" => run.steps = 0
    /\ run.phase # "none" => run.rev > 0

\* The work item is born of the consumed confirmation, never before.
ItemNeedsConsent == run.phase \in Preparing => item = NoItem /\ receiptAt = 0

\* The mark of the authorization and the status tell the same story.
MarkAgrees == item.authorized <=> item.status \in {"authorized"} \cup Results

\* Nothing is written without the mark; a record created, or reported as a
\* success, was written.
Written ==
    /\ landed => item.authorized
    /\ run.mode = "create" /\ customer.rev > 0 => landed
    /\ item.status = "succeeded" => landed

\* What a worker is doing fits the state: past the authorization the item
\* has the mark, a signal has a settled item behind it, an acknowledgement
\* an admitted receipt; a result about to be stored is a true one; and a
\* fence was once the item's.
Fits(x) ==
    /\ x.at \in {"reconcile", "execute", "write", "reread", "store"} => item.authorized
    /\ x.at \in {"signal", "admit", "ack"} => item.status \in Settled
    /\ x.at = "ack" => receiptAt > 0
    /\ x.at = "store" => x.out \in Results /\ (x.out = "succeeded" => landed)
    /\ x.fence <= item.fence

WorkersFit == \A w \in Workers : Fits(worker[w])

\* The receipt is admitted on a settled item.
ReceiptNeedsResult == receiptAt > 0 => item.status \in Settled

\* The sealed revision is one the target has had.
SealIsPast == item.status # "none" /\ run.mode = "update" => run.sealed <= customer.rev

Inv ==
    /\ TypeOK
    /\ Revisions
    /\ ItemNeedsConsent
    /\ MarkAgrees
    /\ Written
    /\ WorkersFit
    /\ ReceiptNeedsResult
    /\ RunReportsTheEffect
    /\ AcknowledgedMeansRecorded
    /\ SealIsPast

\* A modification whose target has moved and that no live authorization can
\* reach any more: what DriftedWhileDue leads to, and never leaves.
Doomed ==
    /\ run.mode = "update" /\ item.status # "none"
    /\ customer.rev > run.sealed
    /\ ~item.authorized
    /\ \A w \in Workers :
         worker[w].at = "authorize" =>
            ~(item.status = "leased" /\ item.lease = "live" /\ Holds(w))

---------------------------------------------------------------------------
(* The reducer: what its operators keep, for every run.                    *)

\* Every reduced run is a run, of the same mode, at the next revision.
LEMMA ReducedRuns ==
    ASSUME NEW r \in Run, NEW current \in Nat, NEW succeeded \in BOOLEAN
    PROVE  /\ ExemptStepped(r) \in Run
           /\ ReceiptRecorded(r, succeeded) \in Run
           /\ CancelRequested(r) \in Run
           /\ InBudget(r) =>
                /\ Stepped(r) \in Run
                /\ Started(r) \in Run
                /\ Resolved(r, current) \in Run
                /\ WithDuplicates(r) \in Run
                /\ ContinueCreate(r) \in Run
                /\ UseExisting(r) \in Run
                /\ r.wakes < MaxWakes => Staged(r) \in Run
                /\ Presented(r) \in Run
                /\ ProposalClosed(r) \in Run
                /\ Invalidated(r, current) \in Run
                /\ Consumed(r) \in Run
<1>0. /\ MaxSteps \in Nat \ {0} /\ MaxWakes \in Nat \ {0}
      /\ r.steps \in 0..MaxSteps /\ r.rev \in Nat
  BY BudgetAssumption DEF Run
<1>1. ExemptStepped(r) \in Run
  <2> DEFINE rev == r.rev + 1
             steps == IF r.steps < MaxSteps THEN r.steps + 1 ELSE MaxSteps
  <2>1. rev \in Nat /\ steps \in 0..MaxSteps
    BY <1>0
  <2>2. ExemptStepped(r) = [r EXCEPT !.rev = rev, !.steps = steps]
    BY DEF ExemptStepped
  <2> HIDE DEF rev, steps
  <2> QED
    BY <2>1, <2>2 DEF Run
<1>2. ASSUME InBudget(r)
      PROVE  Stepped(r) \in Run
  <2> DEFINE rev == r.rev + 1
             steps == r.steps + 1
  <2>1. rev \in Nat /\ steps \in 0..MaxSteps
    BY <1>0, <1>2 DEF InBudget
  <2>2. Stepped(r) = [r EXCEPT !.rev = rev, !.steps = steps]
    BY DEF Stepped
  <2> HIDE DEF rev, steps
  <2> QED
    BY <2>1, <2>2 DEF Run
<1>3. r.wakes < MaxWakes => r.wakes + 1 \in 0..MaxWakes
  BY BudgetAssumption DEF Run
<1>4. ReceiptRecorded(r, succeeded) \in Run
  BY <1>1 DEF ReceiptRecorded, Run, Phases
<1>5. CancelRequested(r) \in Run
  BY <1>1 DEF CancelRequested, Run, Phases, Confirmations
<1>6. ASSUME InBudget(r)
      PROVE  /\ Started(r) \in Run
             /\ Resolved(r, current) \in Run
             /\ WithDuplicates(r) \in Run
             /\ ContinueCreate(r) \in Run
             /\ UseExisting(r) \in Run
  BY <1>2, <1>6 DEF Started, Resolved, WithDuplicates, ContinueCreate, UseExisting, Run, Phases
<1>7. ASSUME InBudget(r), r.wakes < MaxWakes
      PROVE  Staged(r) \in Run
  <2>1. Stepped(r).wakes = r.wakes
    BY DEF Stepped, Run
  <2> QED
    BY <1>2, <1>3, <1>7, <2>1 DEF Staged, Run, Phases, Confirmations
<1>8. ASSUME InBudget(r)
      PROVE  /\ Presented(r) \in Run
             /\ ProposalClosed(r) \in Run
             /\ Consumed(r) \in Run
  BY <1>2, <1>8 DEF Presented, ProposalClosed, Consumed, Run, Phases, Confirmations
<1>9. ASSUME InBudget(r)
      PROVE  Invalidated(r, current) \in Run
  BY <1>8, <1>9 DEF Invalidated, Run
<1> QED
  BY <1>1, <1>2, <1>4, <1>5, <1>6, <1>7, <1>8, <1>9

\* A command that reduces a run which is not committing keeps it in
\* preparation or closes it; only Consumed commits it.
LEMMA ReducedPhases ==
    ASSUME NEW r \in Run, NEW current \in Nat
    PROVE  /\ \A n \in {Started(r), Resolved(r, current), WithDuplicates(r),
                        ContinueCreate(r), Staged(r), ProposalClosed(r),
                        Invalidated(r, current)} :
                n.phase \in Preparing \ {"none"} /\ n.rev = r.rev + 1 /\ n.mode = r.mode
           /\ Presented(r).phase = r.phase /\ Presented(r).rev = r.rev + 1
           /\ Presented(r).mode = r.mode
           /\ UseExisting(r).phase = "completed" /\ UseExisting(r).rev = r.rev + 1
           /\ UseExisting(r).mode = r.mode
           /\ Consumed(r).phase = "committing" /\ Consumed(r).rev = r.rev + 1
           /\ Consumed(r).mode = r.mode /\ Consumed(r).sealed = r.sealed
           /\ CancelRequested(r).phase =
                IF r.phase = "committing" THEN "cancelling" ELSE "cancelled"
           /\ CancelRequested(r).rev = r.rev + 1 /\ CancelRequested(r).mode = r.mode
           /\ CancelRequested(r).sealed = r.sealed
<1> USE DEF Stepped, ExemptStepped, Run, Preparing
<1>1. \A n \in {Started(r), Resolved(r, current), WithDuplicates(r), ContinueCreate(r)} :
        n.phase \in Preparing \ {"none"} /\ n.rev = r.rev + 1 /\ n.mode = r.mode
  BY DEF Started, Resolved, WithDuplicates, ContinueCreate
<1>2. \A n \in {Staged(r), ProposalClosed(r), Invalidated(r, current)} :
        n.phase \in Preparing \ {"none"} /\ n.rev = r.rev + 1 /\ n.mode = r.mode
  BY DEF Staged, ProposalClosed, Invalidated
<1>3. /\ Presented(r).phase = r.phase /\ Presented(r).rev = r.rev + 1
      /\ Presented(r).mode = r.mode
      /\ UseExisting(r).phase = "completed" /\ UseExisting(r).rev = r.rev + 1
      /\ UseExisting(r).mode = r.mode
      /\ Consumed(r).phase = "committing" /\ Consumed(r).rev = r.rev + 1
      /\ Consumed(r).mode = r.mode /\ Consumed(r).sealed = r.sealed
  BY DEF Presented, UseExisting, Consumed
<1>4. /\ CancelRequested(r).phase =
            IF r.phase = "committing" THEN "cancelling" ELSE "cancelled"
      /\ CancelRequested(r).rev = r.rev + 1 /\ CancelRequested(r).mode = r.mode
      /\ CancelRequested(r).sealed = r.sealed
  BY DEF CancelRequested
<1> QED
  BY <1>1, <1>2, <1>3, <1>4

\* The receipt closes the run, as completed exactly when it reports a success.
LEMMA ReceiptPhases ==
    ASSUME NEW r \in Run, NEW succeeded \in BOOLEAN
    PROVE  /\ ReceiptRecorded(r, succeeded).rev = r.rev + 1
           /\ ReceiptRecorded(r, succeeded).mode = r.mode
           /\ ReceiptRecorded(r, succeeded).sealed = r.sealed
           /\ ReceiptRecorded(r, succeeded).phase \in TerminalPhases
           /\ ReceiptRecorded(r, succeeded).phase = "completed" <=> succeeded
  BY DEF ReceiptRecorded, TerminalPhases, Stepped, ExemptStepped, Run, Preparing

---------------------------------------------------------------------------
(* The commands of the user, in three kinds.                               *)

\* A command before the consent leaves no item behind it.
PrepareKind ==
    /\ run.phase \in Preparing
    /\ run'.phase \in (Preparing \ {"none"}) \cup {"completed", "cancelled"}
    /\ item' = item

\* The consent: the item is born on a seal that holds.
ConsentKind ==
    /\ run.phase = "awaiting_confirmation"
    /\ run'.phase = "committing" /\ run'.sealed = run.sealed
    /\ run.mode = "update" => run.sealed = customer.rev
    /\ item' = Prepared

\* The cancellation of a committing run withdraws what is not authorized.
CancelKind ==
    /\ run.phase = "committing"
    /\ run'.phase = "cancelling" /\ run'.sealed = run.sealed
    /\ item' = Cascade(run', item)

\* Every command of the user is of one of the three kinds, and touches
\* nothing but the run, the item and, when it stages, the TTL.
LEMMA UserCommandKinds ==
    ASSUME TypeOK, Revisions, ItemNeedsConsent, UserCommand
    PROVE  /\ run' \in Run
           /\ run'.rev = run.rev + 1 /\ run'.mode = run.mode
           /\ PrepareKind \/ ConsentKind \/ CancelKind
           /\ UNCHANGED <<receiptAt, worker, customer, edits, landed, disturbances>>
           /\ world' = world \/ world' = [world EXCEPT !.ttlPast = FALSE]
<1> DEFINE Same == /\ UNCHANGED <<receiptAt, worker, customer, edits, landed, disturbances>>
                   /\ world' = world \/ world' = [world EXCEPT !.ttlPast = FALSE]
<1>1. /\ run \in Run /\ customer.rev \in Nat
      /\ MaxSteps \in Nat \ {0} /\ run.steps \in 0..MaxSteps
  BY BudgetAssumption DEF TypeOK, Customer, Run
<1>2. run.phase \in Preparing => item = NoItem
  BY DEF ItemNeedsConsent
<1>3. \A n : Cascade(n, NoItem) = NoItem
  BY DEF Cascade, NoItem, Unauthorized
<1> DEFINE Reduced(n) == n \in Run /\ n.rev = run.rev + 1 /\ n.mode = run.mode
<1> DEFINE Goal == Reduced(run') /\ (PrepareKind \/ ConsentKind \/ CancelKind) /\ Same
\* An admission from a preparing run, to a run that prepares or closes.
<1>4. ASSUME NEW n, Reduced(n), run.phase \in Preparing, Admit(n), Same,
             n.phase \in (Preparing \ {"none"}) \cup {"completed", "cancelled"}
      PROVE  Goal
  <2>1. run' = n /\ item' = item
    BY <1>2, <1>3, <1>4 DEF Admit
  <2> QED
    BY <1>4, <2>1 DEF PrepareKind
<1>5. ASSUME NEW n, AdmittedAlone(n)
      PROVE  Admit(n) /\ Same
  BY <1>5 DEF AdmittedAlone
<1>6. CASE StartRun
  <2>1. run.phase = "none" /\ InBudget(run) /\ AdmittedAlone(Started(run))
    BY <1>1, <1>6 DEF StartRun, Revisions, InBudget
  <2>2. Reduced(Started(run)) /\ Started(run).phase \in Preparing \ {"none"}
    BY <1>1, <2>1, ReducedRuns, ReducedPhases
  <2> QED
    BY <1>4, <1>5, <2>1, <2>2 DEF Preparing
<1>7. CASE Resolve
  <2>1. PICK n \in {Resolved(run, customer.rev), WithDuplicates(run)} : AdmittedAlone(n)
    BY <1>7 DEF Resolve
  <2>2. InBudget(run) /\ run.phase \in Preparing
    BY <1>7 DEF Resolve, CanResolve, Preparing
  <2>3. /\ Reduced(WithDuplicates(run))
        /\ WithDuplicates(run).phase \in Preparing \ {"none"}
    BY <1>1, <2>2, ReducedRuns, ReducedPhases
  <2>4. Resolved(run, customer.rev) \in Run
    BY <1>1, <2>2, ReducedRuns
  <2>5. /\ Resolved(run, customer.rev).rev = run.rev + 1
        /\ Resolved(run, customer.rev).mode = run.mode
        /\ Resolved(run, customer.rev).phase \in Preparing \ {"none"}
    BY <1>1, ReducedPhases
  <2> QED
    BY <1>4, <1>5, <2>1, <2>2, <2>3, <2>4, <2>5
<1>8. CASE ChooseDuplicate
  <2>1. PICK n \in {ContinueCreate(run), UseExisting(run)} : AdmittedAlone(n)
    BY <1>8 DEF ChooseDuplicate
  <2>2. InBudget(run) /\ run.phase \in Preparing
    BY <1>8 DEF ChooseDuplicate, CanChooseDuplicate, Preparing
  <2>3. /\ Reduced(ContinueCreate(run)) /\ Reduced(UseExisting(run))
        /\ ContinueCreate(run).phase \in Preparing \ {"none"}
        /\ UseExisting(run).phase = "completed"
    BY <1>1, <2>2, ReducedRuns, ReducedPhases
  <2> QED
    BY <1>4, <1>5, <2>1, <2>2, <2>3
<1>9. CASE StageProposal
  <2>1. /\ Admit(Staged(run)) /\ Same /\ InBudget(run) /\ run.wakes < MaxWakes
        /\ run.phase \in Preparing
    BY <1>9 DEF StageProposal, CanStage, Preparing
  <2>2. Reduced(Staged(run)) /\ Staged(run).phase \in Preparing \ {"none"}
    BY <1>1, <2>1, ReducedRuns, ReducedPhases
  <2> QED
    BY <1>4, <2>1, <2>2
<1>10. CASE Present
  <2>1. /\ AdmittedAlone(Presented(run)) /\ InBudget(run)
        /\ run.phase = "awaiting_confirmation"
    BY <1>10 DEF Present, CanPresent, AwaitsConfirmation
  <2>2. Reduced(Presented(run)) /\ Presented(run).phase = run.phase
    BY <1>1, <2>1, ReducedRuns, ReducedPhases
  <2> QED
    BY <1>4, <1>5, <2>1, <2>2 DEF Preparing
<1>11. CASE Reject
  <2>1. /\ AdmittedAlone(ProposalClosed(run)) /\ InBudget(run)
        /\ run.phase \in Preparing
    BY <1>11 DEF Reject, AwaitsConfirmation, Preparing
  <2>2. Reduced(ProposalClosed(run)) /\ ProposalClosed(run).phase \in Preparing \ {"none"}
    BY <1>1, <2>1, ReducedRuns, ReducedPhases
  <2> QED
    BY <1>4, <1>5, <2>1, <2>2
<1>12. CASE Confirm
  <2>1. InBudget(run) /\ run.phase = "awaiting_confirmation" /\ run.phase \in Preparing
    BY <1>12 DEF Confirm, CanConfirm, AwaitsConfirmation, Preparing
  <2>2. CASE \E n \in {ProposalClosed(run), Invalidated(run, customer.rev)} : AdmittedAlone(n)
    <3>1. PICK n \in {ProposalClosed(run), Invalidated(run, customer.rev)} : AdmittedAlone(n)
      BY <2>2
    <3>2. /\ Reduced(ProposalClosed(run)) /\ Reduced(Invalidated(run, customer.rev))
          /\ ProposalClosed(run).phase \in Preparing \ {"none"}
          /\ Invalidated(run, customer.rev).phase \in Preparing \ {"none"}
      BY <1>1, <2>1, ReducedRuns, ReducedPhases
    <3> QED
      BY <1>4, <1>5, <2>1, <3>1, <3>2
  <2>3. CASE /\ ~StaleTarget(run, customer.rev)
             /\ run' = Consumed(run) /\ item' = Prepared
             /\ Same
    <3>1. /\ Reduced(Consumed(run)) /\ Consumed(run).phase = "committing"
          /\ Consumed(run).sealed = run.sealed
      BY <1>1, <2>1, ReducedRuns, ReducedPhases
    <3> QED
      BY <2>1, <2>3, <3>1 DEF ConsentKind, StaleTarget
  <2> QED
    BY <1>12, <2>2, <2>3 DEF Confirm
<1>13. CASE CancelRun
  <2>1. AdmittedAlone(CancelRequested(run)) /\ run.phase \in Preparing \cup {"committing"}
    BY <1>1, <1>13 DEF CancelRun, CanCancel, Run, Phases, Preparing, TerminalPhases
  <2>2. /\ Reduced(CancelRequested(run))
        /\ CancelRequested(run).phase =
             IF run.phase = "committing" THEN "cancelling" ELSE "cancelled"
        /\ CancelRequested(run).sealed = run.sealed
    BY <1>1, ReducedRuns, ReducedPhases
  <2>3. CASE run.phase = "committing"
    BY <1>5, <2>1, <2>2, <2>3 DEF CancelKind, Admit
  <2>4. CASE run.phase # "committing"
    <3>1. run.phase \in Preparing
      BY <2>1, <2>4
    <3> QED
      BY <1>4, <1>5, <2>1, <2>2, <2>4, <3>1
  <2> QED
    BY <2>3, <2>4
<1> QED
  BY <1>6, <1>7, <1>8, <1>9, <1>10, <1>11, <1>12, <1>13 DEF UserCommand

---------------------------------------------------------------------------
(* The moves of a worker: each one replaces one entry of the table.        *)

\* Worker w becomes x, and only w changes.
Becomes(w, x) ==
    /\ x \in Worker
    /\ worker' = [worker EXCEPT ![w] = x]

\* The three moves the steps are written with.
LEMMA Moves ==
    ASSUME worker \in [Workers -> Worker], NEW w \in Workers
    PROVE  /\ Rest(w) => Becomes(w, Idle)
           /\ \A step \in Steps :
                Goto(w, step) => Becomes(w, [worker[w] EXCEPT !.at = step])
           /\ \A out \in Results :
                Yield(w, out) => Becomes(w, [worker[w] EXCEPT !.at = "store", !.out = out])
<1>0. worker[w] \in Worker
  OBVIOUS
<1>1. Idle \in Worker
  BY DEF Idle, Worker, Steps, Settled
<1>2. \A step \in Steps : [worker[w] EXCEPT !.at = step] \in Worker
  BY <1>0 DEF Worker
<1>3. \A out \in Results : [worker[w] EXCEPT !.at = "store", !.out = out] \in Worker
  BY <1>0 DEF Worker, Results, Settled, Steps
<1> QED
  BY <1>1, <1>2, <1>3 DEF Becomes, Rest, Goto, Yield

\* What a move changes, read entry by entry.
LEMMA BecomesFacts ==
    ASSUME worker \in [Workers -> Worker], NEW w \in Workers, NEW x, Becomes(w, x)
    PROVE  /\ worker' \in [Workers -> Worker]
           /\ worker'[w] = x
           /\ \A v \in Workers : v # w => worker'[v] = worker[v]
BY DEF Becomes

---------------------------------------------------------------------------
(* Type correctness.                                                       *)

\* The item stays an item through every one of its operations.
LEMMA ItemMoves ==
    ASSUME item \in Item
    PROVE  /\ NoItem \in Item /\ Prepared \in Item
           /\ \A n : Cascade(n, item) \in Item
           /\ \A s \in {"leased", "authorized"} : Leased(s) \in Item
           /\ [item EXCEPT !.status = "retry_due", !.lease = "none"] \in Item
           /\ [item EXCEPT !.status = "cancelled", !.lease = "none"] \in Item
           /\ [item EXCEPT !.status = "authorized", !.authorized = TRUE] \in Item
           /\ \A out \in Results : [item EXCEPT !.status = out, !.lease = "none"] \in Item
           /\ \A b \in BOOLEAN : [item EXCEPT !.signalled = b] \in Item
           /\ [item EXCEPT !.lease = "expired"] \in Item
<1> USE DEF Item, Unauthorized, Settled
<1>1. NoItem \in Item /\ Prepared \in Item
  BY DEF NoItem, Prepared
<1>2. \A n : Cascade(n, item) \in Item
  BY DEF Cascade
<1>3. \A s \in {"leased", "authorized"} : Leased(s) \in Item
  <2> DEFINE fence == item.fence + 1
  <2>1. fence \in Nat
    OBVIOUS
  <2>2. \A s : Leased(s) = [item EXCEPT !.status = s, !.fence = fence, !.lease = "live"]
    BY DEF Leased
  <2> HIDE DEF fence
  <2> QED
    BY <2>1, <2>2
<1>4. /\ [item EXCEPT !.status = "retry_due", !.lease = "none"] \in Item
      /\ [item EXCEPT !.status = "cancelled", !.lease = "none"] \in Item
      /\ [item EXCEPT !.status = "authorized", !.authorized = TRUE] \in Item
  OBVIOUS
<1>5. \A out \in Results : [item EXCEPT !.status = out, !.lease = "none"] \in Item
  BY DEF Results
<1>6. \A b \in BOOLEAN : [item EXCEPT !.signalled = b] \in Item
  OBVIOUS
<1>7. [item EXCEPT !.lease = "expired"] \in Item
  OBVIOUS
<1> QED
  BY <1>1, <1>2, <1>3, <1>4, <1>5, <1>6, <1>7

---------------------------------------------------------------------------
(* A step of a worker.                                                     *)

\* What no step undoes: the mark, a result, a written record, a receipt,
\* and the growth of the fence.
Progress ==
    /\ item.authorized => item'.authorized
    /\ item.status \in Settled => item'.status = item.status
    /\ item.fence <= item'.fence
    /\ landed => landed'
    /\ receiptAt > 0 => receiptAt' > 0

\* Whatever a worker does to the item, the mark agrees with the status, and
\* nothing is undone; an item that does not exist stays so.
LEMMA ItemStep ==
    ASSUME Inv, NEW w \in Workers, Tick(w) \/ Crash(w)
    PROVE  /\ item' \in Item
           /\ MarkAgrees'
           /\ item.authorized => item'.authorized
           /\ item.status \in Settled => item'.status = item.status
           /\ item.fence <= item'.fence
           /\ item.status = "none" => item' = item
           /\ item'.status = "succeeded" => item.status = "succeeded" \/ landed
           /\ item'.signalled => item.signalled \/ receiptAt > 0
<1>1. item \in Item /\ MarkAgrees /\ Fits(worker[w]) /\ item.fence \in Nat
  BY DEF Inv, TypeOK, WorkersFit, Item
<1> USE DEF MarkAgrees, Item, Settled, Results
<1>2. CASE Claim(w)
  <2>1. item' = Leased("leased") /\ item.status \in {"prepared", "retry_due", "leased"}
    BY <1>2 DEF Claim, Due
  <2>2. item' \in Item
    BY <1>1, <2>1, ItemMoves
  <2> QED
    BY <1>1, <2>1, <2>2 DEF Leased
<1>3. CASE Reclaim(w)
  <2>1. item' = Leased("authorized") /\ item.status = "authorized"
    BY <1>3 DEF Reclaim
  <2>2. item' \in Item
    BY <1>1, <2>1, ItemMoves
  <2> QED
    BY <1>1, <2>1, <2>2 DEF Leased
<1>4. CASE MarkRetryDue(w)
  <2>1. CASE item.status = "leased" /\ Holds(w)
    <3>1. item' = [item EXCEPT !.status = "retry_due", !.lease = "none"]
      BY <1>4, <2>1 DEF MarkRetryDue
    <3>2. item' \in Item
      BY <1>1, <3>1, ItemMoves
    <3> QED
      BY <1>1, <2>1, <3>1, <3>2
  <2>2. CASE ~(item.status = "leased" /\ Holds(w))
    <3>1. item' = item
      BY <1>4, <2>2 DEF MarkRetryDue
    <3> QED
      BY <1>1, <3>1
  <2> QED
    BY <2>1, <2>2
<1>5. CASE Withdraw(w)
  <2>1. CASE CanWithdraw(w)
    <3>1. item' = [item EXCEPT !.status = "cancelled", !.lease = "none"]
      BY <1>5, <2>1 DEF Withdraw
    <3>2. item' \in Item
      BY <1>1, <3>1, ItemMoves
    <3> QED
      BY <1>1, <2>1, <3>1, <3>2 DEF CanWithdraw
  <2>2. CASE ~CanWithdraw(w)
    <3>1. item' = item
      BY <1>5, <2>2 DEF Withdraw
    <3> QED
      BY <1>1, <3>1
  <2> QED
    BY <2>1, <2>2
<1>6. CASE Authorize(w)
  <2>1. CASE CanAuthorize(w)
    <3>1. item' = [item EXCEPT !.status = "authorized", !.authorized = TRUE]
      BY <1>6, <2>1 DEF Authorize
    <3>2. item' \in Item
      BY <1>1, <3>1, ItemMoves
    <3> QED
      BY <1>1, <2>1, <3>1, <3>2 DEF CanAuthorize
  <2>2. CASE ~CanAuthorize(w)
    <3>1. item' = item
      BY <1>6, <2>2 DEF Authorize
    <3> QED
      BY <1>1, <3>1
  <2> QED
    BY <2>1, <2>2
<1>7. CASE StoreResult(w)
  <2>1. CASE CanStore(w)
    <3>1. item' = [item EXCEPT !.status = worker[w].out, !.lease = "none"]
      BY <1>7, <2>1 DEF StoreResult
    <3>2. worker[w].out \in Results /\ (worker[w].out = "succeeded" => landed)
      BY <1>1, <1>7 DEF StoreResult, At, Fits
    <3>3. item' \in Item
      BY <1>1, <3>1, <3>2, ItemMoves DEF Results
    <3> QED
      BY <1>1, <2>1, <3>1, <3>2, <3>3 DEF CanStore
  <2>2. CASE ~CanStore(w)
    <3>1. item' = item
      BY <1>7, <2>2 DEF StoreResult
    <3> QED
      BY <1>1, <3>1
  <2> QED
    BY <2>1, <2>2
<1>8. CASE AdmitReceipt(w)
  <2>1. item.status \in Settled
    BY <1>1, <1>8 DEF AdmitReceipt, At, Fits
  <2>2. \A n : Cascade(n, item) = item
    BY <2>1 DEF Cascade, Unauthorized
  <2>3. \/ item' = item
        \/ receiptAt > 0 /\ \E b \in BOOLEAN : item' = [item EXCEPT !.signalled = b]
    BY <1>1, <1>8, <2>2 DEF AdmitReceipt
  <2>4. item' \in Item
    BY <1>1, <2>3, ItemMoves
  <2> QED
    BY <1>1, <2>1, <2>3, <2>4
<1>9. CASE Acknowledge(w)
  <2>1. item' = item \/ item' = [item EXCEPT !.signalled = TRUE]
    BY <1>9 DEF Acknowledge
  <2>3. receiptAt > 0 /\ item.status \in Settled
    BY <1>1, <1>9 DEF Acknowledge, At, Fits
  <2>2. item' \in Item
    BY <1>1, <2>1
  <2> QED
    BY <1>1, <2>1, <2>2, <2>3
<1>10. CASE \/ Redeliver(w) \/ Recheck(w) \/ RecheckTarget(w) \/ Reconcile(w)
            \/ Execute(w) \/ Write(w) \/ Reread(w) \/ ReadRun(w) \/ Crash(w)
  <2>1. item' = item
    BY <1>10 DEF Redeliver, Recheck, RecheckTarget, Reconcile, Execute, Write,
                 Reread, ReadRun, Crash
  <2> QED
    BY <1>1, <2>1
<1> QED
  BY <1>2, <1>3, <1>4, <1>5, <1>6, <1>7, <1>8, <1>9, <1>10 DEF Tick

\* The entry a step leaves to its worker fits the state the step leaves.
LEMMA WorkerStep ==
    ASSUME Inv, NEW w \in Workers, Tick(w) \/ Crash(w)
    PROVE  \E x \in Worker : Becomes(w, x) /\ Fits(x)'
<1> DEFINE Goal == \E x \in Worker : Becomes(w, x) /\ Fits(x)'
<1> SUFFICES Goal
  OBVIOUS
<1>1. /\ worker \in [Workers -> Worker] /\ worker[w] \in Worker /\ Fits(worker[w])
      /\ item \in Item /\ item.fence \in Nat /\ run.rev \in Nat /\ customer.own \in Nat
      /\ worker[w].fence \in Nat /\ receiptAt \in Nat
  BY DEF Inv, TypeOK, WorkersFit, Item, Run, Customer, Worker
<1>2. /\ item' \in Item /\ item'.fence \in Nat /\ MarkAgrees'
      /\ item.authorized => item'.authorized
      /\ item.status \in Settled => item'.status = item.status
      /\ item.fence <= item'.fence
  BY ItemStep DEF Item
<1>2a. worker[w].fence <= item'.fence
  BY <1>1, <1>2 DEF Fits
<1>2b. ASSUME NEW x \in Worker, Becomes(w, x), x.fence <= item'.fence,
              x.at \in {"reconcile", "execute", "write", "reread", "store"} => item'.authorized,
              x.at \in {"signal", "admit", "ack"} => item'.status \in Settled,
              x.at = "ack" => receiptAt' > 0,
              x.at = "store" => x.out \in Results /\ (x.out = "succeeded" => landed')
       PROVE  Goal
  <2>1. Fits(x)'
    BY <1>2b DEF Fits
  <2> QED
    BY <1>2b, <2>1
<1>2c. worker[w] \in Worker
  BY <1>1
<1> HIDE DEF Goal
<1> USE DEF Steps
\* The plain steps: the fence is kept and nothing is about to be stored.
<1>3. ASSUME NEW step \in Steps \ {"store"}, Goto(w, step),
             step \in {"reconcile", "execute", "write", "reread"} => item'.authorized,
             step \in {"signal", "admit", "ack"} => item'.status \in Settled,
             step = "ack" => receiptAt' > 0
      PROVE  Goal
  <2> DEFINE x == [worker[w] EXCEPT !.at = step]
  <2>1. Becomes(w, x)
    BY <1>1, <1>3, Moves
  <2>2. x \in Worker /\ x.at = step /\ x.fence = worker[w].fence
    BY <1>1 DEF Worker
  <2> HIDE DEF x
  <2> QED
    BY <1>3, <1>2a, <1>2b, <2>1, <2>2
<1>4. ASSUME Rest(w)
      PROVE  Goal
  <2>1. Becomes(w, Idle) /\ Idle \in Worker
    BY <1>1, <1>4, Moves DEF Becomes
  <2>2. 0 <= item'.fence
    BY <1>2
  <2> QED
    BY <1>2b, <2>1, <2>2 DEF Idle
<1>5. ASSUME NEW out \in Results, Yield(w, out), item'.authorized,
             out = "succeeded" => landed'
      PROVE  Goal
  <2> DEFINE x == [worker[w] EXCEPT !.at = "store", !.out = out]
  <2>1. Becomes(w, x)
    BY <1>1, <1>5, Moves
  <2>2. x \in Worker
    BY <2>1 DEF Becomes
  <2>3. x.at = "store" /\ x.fence = worker[w].fence /\ x.out = out
    BY <1>1 DEF Worker
  <2> HIDE DEF x
  <2> QED
    BY <1>5, <1>2a, <1>2b, <2>1, <2>2, <2>3
<1>7. CASE Claim(w)
  <2> DEFINE fence == item'.fence
  <2> DEFINE x == [worker[w] EXCEPT !.at = "check", !.fence = fence]
  <2>1. item'.fence = item.fence + 1
    BY <1>1, <1>7 DEF Claim, Leased, Item
  <2>2. worker' = [worker EXCEPT ![w] = x]
    BY <1>1, <1>7, <2>1 DEF Claim
  <2>8. fence \in Nat /\ fence <= item'.fence
    BY <1>2
  <2> HIDE DEF fence
  <2>9. x \in Worker /\ x.at = "check" /\ x.fence = fence
    BY <1>2c, <2>8 DEF Worker
  <2>10. Becomes(w, x) /\ x.fence <= item'.fence
    BY <2>2, <2>8, <2>9 DEF Becomes
  <2> HIDE DEF x
  <2> QED
    BY <1>2b, <2>9, <2>10
<1>8. CASE Reclaim(w)
  <2> DEFINE fence == item'.fence
  <2> DEFINE x == [worker[w] EXCEPT !.at = "reconcile", !.fence = fence]
  <2>1. item'.fence = item.fence + 1 /\ item'.status = "authorized"
    BY <1>1, <1>8 DEF Reclaim, Leased, Item
  <2>2. worker' = [worker EXCEPT ![w] = x]
    BY <1>1, <1>8, <2>1 DEF Reclaim
  <2>3. item'.authorized
    BY <1>2, <2>1 DEF MarkAgrees
  <2>8. fence \in Nat /\ fence <= item'.fence
    BY <1>2
  <2> HIDE DEF fence
  <2>9. x \in Worker /\ x.at = "reconcile" /\ x.fence = fence
    BY <1>2c, <2>8 DEF Worker
  <2>10. Becomes(w, x) /\ x.fence <= item'.fence
    BY <2>2, <2>8, <2>9 DEF Becomes
  <2> HIDE DEF x
  <2> QED
    BY <1>2b, <2>3, <2>9, <2>10
<1>9. CASE Redeliver(w)
  <2> DEFINE fence == item'.fence
  <2> DEFINE x == [worker[w] EXCEPT !.at = "signal", !.fence = fence]
  <2>1. item' = item /\ item.status \in Settled
    BY <1>9 DEF Redeliver, Pending
  <2>2. worker' = [worker EXCEPT ![w] = x]
    BY <1>1, <1>9, <2>1 DEF Redeliver
  <2>8. fence \in Nat /\ fence <= item'.fence
    BY <1>2
  <2> HIDE DEF fence
  <2>9. x \in Worker /\ x.at = "signal" /\ x.fence = fence
    BY <1>2c, <2>8 DEF Worker
  <2>10. Becomes(w, x) /\ x.fence <= item'.fence
    BY <2>2, <2>8, <2>9 DEF Becomes
  <2> HIDE DEF x
  <2> QED
    BY <1>2b, <2>1, <2>9, <2>10
<1>10. CASE Recheck(w)
  BY <1>3, <1>10 DEF Recheck
<1>11. CASE RecheckTarget(w)
  BY <1>3, <1>11 DEF RecheckTarget
<1>12. CASE MarkRetryDue(w) \/ Acknowledge(w) \/ Crash(w)
  BY <1>4, <1>12 DEF MarkRetryDue, Acknowledge, Crash
<1>13. CASE Withdraw(w)
  <2>1. CASE CanWithdraw(w)
    <3>1. item'.status = "cancelled" /\ Goto(w, "signal")
      BY <1>1, <1>13, <2>1 DEF Withdraw, Item
    <3> QED
      BY <1>3, <3>1 DEF Settled
  <2>2. CASE ~CanWithdraw(w)
    BY <1>4, <1>13, <2>2 DEF Withdraw
  <2> QED
    BY <2>1, <2>2
<1>14. CASE Authorize(w)
  <2>1. CASE CanAuthorize(w)
    <3>1. item'.authorized /\ Goto(w, "execute")
      BY <1>1, <1>14, <2>1 DEF Authorize, Item
    <3> QED
      BY <1>3, <3>1
  <2>2. CASE ~CanAuthorize(w)
    BY <1>3, <1>14, <2>2 DEF Authorize
  <2> QED
    BY <2>1, <2>2
<1>15. CASE Reconcile(w)
  <2>1. item'.authorized /\ landed' = landed
    BY <1>1, <1>2, <1>15 DEF Reconcile, At, Fits
  <2>2. run.mode = "create" /\ customer.rev > 0 => landed
    BY DEF Inv, Written
  <2> QED
    BY <1>3, <1>5, <1>15, <2>1, <2>2 DEF Reconcile, Results
<1>16. CASE Execute(w)
  <2>1. item'.authorized /\ landed' = landed
    BY <1>1, <1>2, <1>16 DEF Execute, At, Fits
  <2>2. run.mode = "create" /\ customer.rev > 0 => landed
    BY DEF Inv, Written
  <2>3. CASE worker' = [worker EXCEPT ![w].at = "write", ![w].copy = customer.own]
    <3> DEFINE x == [worker[w] EXCEPT !.at = "write", !.copy = customer.own]
    <3>1. x \in Worker /\ x.at = "write" /\ x.fence = worker[w].fence
      BY <1>1 DEF Worker
    <3>2. Becomes(w, x)
      BY <1>1, <2>3, <3>1 DEF Becomes
    <3> HIDE DEF x
    <3> QED
      BY <1>2a, <1>2b, <2>1, <3>1, <3>2
  <2>4. CASE \E out \in Results : Yield(w, out) /\ (out = "succeeded" => landed)
    BY <1>5, <2>1, <2>4
  <2> QED
    BY <1>16, <2>2, <2>3, <2>4 DEF Execute, Results
<1>17. CASE Write(w)
  <2>1. item'.authorized
    BY <1>1, <1>2, <1>17 DEF Write, At, Fits
  <2>2. CASE Goto(w, "reread")
    BY <1>3, <2>1, <2>2
  <2>3. CASE Landing(w) /\ Yield(w, "succeeded")
    BY <1>5, <2>1, <2>3 DEF Landing, Results
  <2>4. CASE Yield(w, "failed_terminal")
    BY <1>5, <2>1, <2>4 DEF Results
  <2> QED
    BY <1>17, <2>2, <2>3, <2>4 DEF Write
<1>18. CASE Reread(w)
  <2>1. item'.authorized /\ landed' = landed
    BY <1>1, <1>2, <1>18 DEF Reread, At, Fits
  <2>2. run.mode = "create" /\ customer.rev > 0 => landed
    BY DEF Inv, Written
  <2>3. Yield(w, "outcome_unknown") \/ (Yield(w, "succeeded") /\ landed)
    BY <1>18, <2>2 DEF Reread
  <2> QED
    BY <1>5, <2>1, <2>3 DEF Results
<1>19. CASE StoreResult(w)
  <2>1. CASE CanStore(w)
    <3> DEFINE x == [worker[w] EXCEPT !.at = "signal", !.copy = 0, !.out = "none"]
    <3>1. x \in Worker /\ x.at = "signal" /\ x.fence = worker[w].fence
      BY <1>1 DEF Worker
    <3>2. Becomes(w, x)
      BY <1>1, <1>19, <2>1, <3>1 DEF StoreResult, Becomes
    <3>3. worker[w].out \in Results
      BY <1>1, <1>19 DEF StoreResult, At, Fits
    <3>4. item'.status \in Settled
      BY <1>1, <1>19, <2>1, <3>3 DEF StoreResult, Item, Settled, Results
    <3> HIDE DEF x
    <3> QED
      BY <1>2a, <1>2b, <3>1, <3>2, <3>4
  <2>2. CASE ~CanStore(w)
    BY <1>4, <1>19, <2>2 DEF StoreResult
  <2> QED
    BY <2>1, <2>2
<1>20. CASE ReadRun(w)
  <2>1. item'.status \in Settled
    BY <1>1, <1>2, <1>20 DEF ReadRun, At, Fits
  <2>2. CASE worker' = [worker EXCEPT ![w].at = "admit", ![w].rev = run.rev]
    <3> DEFINE x == [worker[w] EXCEPT !.at = "admit", !.rev = run.rev]
    <3>1. x \in Worker /\ x.at = "admit" /\ x.fence = worker[w].fence
      BY <1>1 DEF Worker
    <3>2. Becomes(w, x)
      BY <1>1, <2>2, <3>1 DEF Becomes
    <3> HIDE DEF x
    <3> QED
      BY <1>2a, <1>2b, <2>1, <3>1, <3>2
  <2> QED
    BY <1>4, <1>20, <2>2 DEF ReadRun
<1>21. CASE AdmitReceipt(w)
  <2>1. item'.status \in Settled
    BY <1>1, <1>2, <1>21 DEF AdmitReceipt, At, Fits
  <2>2. run.rev > 0 \/ ~ExpectsReceipt(run)
    BY DEF Inv, Revisions, ExpectsReceipt
  <2>3. Goto(w, "ack") => receiptAt' > 0
    <3>1. CASE receiptAt > 0
      BY <1>21, <3>1 DEF AdmitReceipt
    <3>2. CASE ~(receiptAt > 0) /\ worker[w].rev = run.rev /\ ExpectsReceipt(run)
      BY <1>21, <2>2, <3>2 DEF AdmitReceipt
    <3>3. CASE ~(receiptAt > 0) /\ ~(worker[w].rev = run.rev /\ ExpectsReceipt(run))
      <4>1. worker'[w].at = "idle"
        BY <1>1, <1>21, <3>3 DEF AdmitReceipt, Refused, Rest, Idle
      <4>2. Goto(w, "ack") => worker'[w].at = "ack"
        BY <1>1 DEF Goto, Worker
      <4> QED
        BY <4>1, <4>2
    <3> QED
      BY <3>1, <3>2, <3>3
  <2>4. Goto(w, "ack") \/ Rest(w)
    BY <1>21 DEF AdmitReceipt, Refused
  <2> QED
    BY <1>3, <1>4, <2>1, <2>3, <2>4
<1> QED
  BY <1>7, <1>8, <1>9, <1>10, <1>11, <1>12, <1>13, <1>14, <1>15, <1>16, <1>17,
     <1>18, <1>19, <1>20, <1>21 DEF Tick

---------------------------------------------------------------------------
(* Every step keeps the invariant.                                         *)

\* A table of fitting workers stays one when nothing is undone and the one
\* worker that moved fits.
LEMMA TableStep ==
    ASSUME Inv, Progress, item'.fence \in Nat,
           UNCHANGED worker \/ \E w \in Workers : \E x \in Worker : Becomes(w, x) /\ Fits(x)'
    PROVE  worker' \in [Workers -> Worker] /\ WorkersFit'
<1>1. /\ worker \in [Workers -> Worker] /\ WorkersFit /\ item.fence \in Nat
      /\ receiptAt \in Nat
  BY DEF Inv, TypeOK, Item
<1>2. ASSUME NEW x \in Worker, Fits(x)
      PROVE  Fits(x)'
  BY <1>1, <1>2 DEF Fits, Progress, Worker
<1>3. CASE UNCHANGED worker
  BY <1>1, <1>2, <1>3 DEF WorkersFit
<1>4. CASE \E w \in Workers : \E x \in Worker : Becomes(w, x) /\ Fits(x)'
  <2>1. PICK w \in Workers, x \in Worker : Becomes(w, x) /\ Fits(x)'
    BY <1>4
  <2>2. /\ worker' \in [Workers -> Worker] /\ worker'[w] = x
        /\ \A v \in Workers : v # w => worker'[v] = worker[v]
    BY <1>1, <2>1, BecomesFacts
  <2>3. ASSUME NEW v \in Workers
        PROVE  Fits(worker[v])'
    <3>1. CASE v = w
      BY <2>1, <2>2, <3>1 DEF Fits
    <3>2. CASE v # w
      <4>1. worker'[v] = worker[v] /\ worker[v] \in Worker /\ Fits(worker[v])
        BY <1>1, <2>2, <3>2 DEF WorkersFit
      <4>2. PICK y \in Worker : y = worker[v]
        BY <4>1
      <4>3. Fits(y)'
        BY <1>2, <4>1, <4>2
      <4> QED
        BY <4>1, <4>2, <4>3 DEF Fits
    <3> QED
      BY <3>1, <3>2
  <2> QED
    BY <2>2, <2>3 DEF WorkersFit
<1> QED
  BY <1>3, <1>4

\* What a step of a worker does to everything but the item and the table:
\* a write lands under the mark, and a receipt closes the run.
LEMMA OtherStep ==
    ASSUME Inv, NEW w \in Workers, Tick(w) \/ Crash(w)
    PROVE  /\ UNCHANGED <<edits, world>>
           /\ disturbances' \in 0..MaxDisturbances
           /\ \/ UNCHANGED <<customer, landed>>
              \/ /\ item.authorized /\ landed' = TRUE
                 /\ customer' \in Customer /\ customer'.rev = customer.rev + 1
           /\ \/ UNCHANGED <<run, receiptAt>>
              \/ /\ item.status \in Settled
                 /\ receiptAt' \in Nat /\ receiptAt' > 0
                 /\ run' \in Run /\ run'.rev > 0
                 /\ run'.mode = run.mode /\ run'.sealed = run.sealed
                 /\ run'.phase \in TerminalPhases
                 /\ run'.phase = "completed" <=> item.status = "succeeded"
<1> DEFINE Bounded == disturbances' \in 0..MaxDisturbances
<1> DEFINE Wrote == /\ item.authorized /\ landed' = TRUE
                    /\ customer' \in Customer /\ customer'.rev = customer.rev + 1
<1> DEFINE Closed == /\ item.status \in Settled
                     /\ receiptAt' \in Nat /\ receiptAt' > 0
                     /\ run' \in Run /\ run'.rev > 0
                     /\ run'.mode = run.mode /\ run'.sealed = run.sealed
                     /\ run'.phase \in TerminalPhases
                     /\ run'.phase = "completed" <=> item.status = "succeeded"
<1>1. /\ run \in Run /\ run.rev \in Nat /\ customer.rev \in Nat
      /\ worker[w] \in Worker /\ worker[w].copy \in Nat /\ Fits(worker[w])
      /\ disturbances \in 0..MaxDisturbances /\ MaxDisturbances \in Nat
  BY DispatchAssumption DEF Inv, TypeOK, Run, Customer, Worker, WorkersFit
<1>2. ASSUME Disturb \/ UNCHANGED disturbances
      PROVE  Bounded
  BY <1>1, <1>2 DEF Disturb
<1>3. CASE Write(w)
  <2>1. item.authorized
    BY <1>1, <1>3 DEF Write, At, Fits
  <2>2. Landing(w) => Wrote
    BY <1>1, <2>1 DEF Landing, Customer
  <2> QED
    BY <1>2, <1>3, <2>2 DEF Write
<1>4. CASE AdmitReceipt(w)
  <2>1. item.status \in Settled
    BY <1>1, <1>4 DEF AdmitReceipt, At, Fits
  <2>2. ExpectsReceipt(run) => run.rev > 0
    BY DEF Inv, Revisions, ExpectsReceipt
  <2>3. CASE receiptAt = 0 /\ worker[w].rev = run.rev /\ ExpectsReceipt(run)
    <3> DEFINE succeeded == item.status = "succeeded"
    <3>1. run' = ReceiptRecorded(run, succeeded) /\ receiptAt' = run.rev
      BY <1>4, <2>3 DEF AdmitReceipt
    <3>2. ReceiptRecorded(run, succeeded) \in Run
      BY <1>1, ReducedRuns
    <3>3. /\ ReceiptRecorded(run, succeeded).rev = run.rev + 1
          /\ ReceiptRecorded(run, succeeded).mode = run.mode
          /\ ReceiptRecorded(run, succeeded).sealed = run.sealed
          /\ ReceiptRecorded(run, succeeded).phase \in TerminalPhases
          /\ ReceiptRecorded(run, succeeded).phase = "completed" <=> succeeded
      BY <1>1, ReceiptPhases
    <3>4. run'.rev > 0
      BY <1>1, <3>1, <3>3
    <3>5. Closed
      BY <1>1, <2>1, <2>2, <2>3, <3>1, <3>2, <3>3, <3>4
    <3> QED
      BY <1>1, <1>4, <3>5 DEF AdmitReceipt
  <2>4. CASE ~(receiptAt = 0 /\ worker[w].rev = run.rev /\ ExpectsReceipt(run))
    <3>1. receiptAt > 0 \/ receiptAt = 0
      BY DEF Inv, TypeOK
    <3>2. UNCHANGED <<run, receiptAt, edits, world, disturbances, customer, landed>>
      BY <1>4, <2>4, <3>1 DEF AdmitReceipt
    <3> QED
      BY <1>1, <3>2
  <2> QED
    BY <2>3, <2>4
<1>5. CASE \/ Claim(w) \/ Reclaim(w) \/ Redeliver(w) \/ MarkRetryDue(w) \/ Withdraw(w)
           \/ Authorize(w) \/ StoreResult(w) \/ Acknowledge(w)
  BY <1>1, <1>5 DEF Claim, Reclaim, Redeliver, MarkRetryDue, Withdraw, Authorize,
                    StoreResult, Acknowledge
<1>6. CASE \/ Recheck(w) \/ RecheckTarget(w) \/ Reconcile(w) \/ Execute(w) \/ Reread(w)
           \/ ReadRun(w) \/ Crash(w)
  <2>1. UNCHANGED <<run, receiptAt, customer, edits, landed, world>>
    BY <1>6 DEF Recheck, RecheckTarget, Reconcile, Execute, Reread, ReadRun, Crash
  <2>2. Disturb \/ UNCHANGED disturbances
    BY <1>6 DEF Recheck, RecheckTarget, Reconcile, Execute, Reread, ReadRun, Crash
  <2> QED
    BY <1>2, <2>1, <2>2
<1> QED
  BY <1>3, <1>4, <1>5, <1>6 DEF Tick

\* A step, or the death, of a worker.
LEMMA WorkerKeepsInv ==
    ASSUME Inv, NEW w \in Workers, Tick(w) \/ Crash(w)
    PROVE  Inv' /\ Progress
<1>1. /\ item' \in Item /\ item'.fence \in Nat /\ MarkAgrees'
      /\ item.authorized => item'.authorized
      /\ item.status \in Settled => item'.status = item.status
      /\ item.fence <= item'.fence
      /\ item.status = "none" => item' = item
      /\ item'.status = "succeeded" => item.status = "succeeded" \/ landed
      /\ item'.signalled => item.signalled \/ receiptAt > 0
  BY ItemStep DEF Item
<1>2. UNCHANGED <<edits, world>> /\ disturbances' \in 0..MaxDisturbances
  BY OtherStep
<1>3. \/ UNCHANGED <<customer, landed>>
      \/ /\ item.authorized /\ landed' = TRUE
         /\ customer' \in Customer /\ customer'.rev = customer.rev + 1
  BY OtherStep
<1>4. \/ UNCHANGED <<run, receiptAt>>
      \/ /\ item.status \in Settled
         /\ receiptAt' \in Nat /\ receiptAt' > 0
         /\ run' \in Run /\ run'.rev > 0
         /\ run'.mode = run.mode /\ run'.sealed = run.sealed
         /\ run'.phase \in TerminalPhases
         /\ run'.phase = "completed" <=> item.status = "succeeded"
  BY OtherStep
<1>5. Progress
  BY <1>1, <1>3, <1>4 DEF Progress
<1>6. worker' \in [Workers -> Worker] /\ WorkersFit'
  BY <1>1, <1>5, WorkerStep, TableStep
<1>7. TypeOK'
  BY <1>1, <1>2, <1>3, <1>4, <1>6 DEF Inv, TypeOK
<1>8. Revisions'
  BY <1>4 DEF Inv, Revisions, TerminalPhases
<1>9. ItemNeedsConsent'
  BY <1>1, <1>4 DEF Inv, ItemNeedsConsent, NoItem, Preparing, TerminalPhases
<1>10. Written'
  BY <1>1, <1>3, <1>4 DEF Inv, Written
<1>11. ReceiptNeedsResult'
  BY <1>1, <1>4 DEF Inv, ReceiptNeedsResult
<1>12. RunReportsTheEffect'
  BY <1>1, <1>4 DEF Inv, RunReportsTheEffect, ReceiptNeedsResult, Settled
<1>13. AcknowledgedMeansRecorded'
  <2>1. CASE receiptAt' > 0
    BY <2>1 DEF AcknowledgedMeansRecorded
  <2>2. CASE ~(receiptAt' > 0)
    <3>1. UNCHANGED <<run, receiptAt>>
      BY <1>4, <2>2
    <3> QED
      BY <1>1, <2>2, <3>1 DEF Inv, AcknowledgedMeansRecorded, Settled
  <2> QED
    BY <2>1, <2>2
<1>14. SealIsPast'
  <2>1. run'.mode = run.mode /\ run'.sealed = run.sealed /\ run.sealed \in Nat
    BY <1>4 DEF Inv, TypeOK, Run
  <2>2. customer.rev \in Nat /\ (customer'.rev = customer.rev \/ customer'.rev = customer.rev + 1)
    BY <1>3 DEF Inv, TypeOK, Customer
  <2> QED
    BY <1>1, <2>1, <2>2 DEF Inv, SealIsPast
<1> QED
  BY <1>1, <1>5, <1>6, <1>7, <1>8, <1>9, <1>10, <1>11, <1>12, <1>13, <1>14 DEF Inv

\* A command of the user.
LEMMA UserKeepsInv ==
    ASSUME Inv, UserCommand
    PROVE  Inv' /\ Progress
<1>1. /\ TypeOK /\ Revisions /\ ItemNeedsConsent
      /\ run \in Run /\ run.rev \in Nat /\ item \in Item /\ item.fence \in Nat
      /\ receiptAt \in Nat
  BY DEF Inv, TypeOK, Run, Item
<1>2. /\ run' \in Run /\ run'.rev = run.rev + 1 /\ run'.mode = run.mode
      /\ PrepareKind \/ ConsentKind \/ CancelKind
      /\ UNCHANGED <<receiptAt, worker, customer, edits, landed, disturbances>>
      /\ world' = world \/ world' = [world EXCEPT !.ttlPast = FALSE]
  BY <1>1, UserCommandKinds
<1>3. world' \in World
  BY <1>2 DEF Inv, TypeOK, World
\* What the three kinds leave of the item.
<1>4. /\ item' \in Item /\ item'.fence = item.fence
      /\ item'.authorized = item.authorized
      /\ \/ item' = item
         \/ /\ item' = Prepared /\ item = NoItem /\ ConsentKind
         \/ /\ item.status \in Unauthorized /\ item'.status = "cancelled"
            /\ run'.phase = "cancelling" /\ CancelKind
  <2>1. CASE PrepareKind
    BY <1>1, <2>1 DEF PrepareKind
  <2>2. CASE ConsentKind
    <3>1. item = NoItem /\ item' = Prepared
      BY <1>1, <2>2 DEF ConsentKind, ItemNeedsConsent, Preparing
    <3> QED
      BY <1>1, <2>2, <3>1, ItemMoves DEF NoItem, Prepared
  <2>3. CASE CancelKind
    <3>1. item' \in Item
      BY <1>1, <2>3, ItemMoves DEF CancelKind
    <3> QED
      BY <1>1, <2>3, <3>1 DEF CancelKind, Cascade, Item
  <2> QED
    BY <1>2, <2>1, <2>2, <2>3
<1>5. Progress
  BY <1>1, <1>2, <1>4 DEF Progress, NoItem, Settled, Unauthorized
<1>6. worker' \in [Workers -> Worker] /\ WorkersFit'
  BY <1>1, <1>2, <1>4, <1>5, TableStep
<1>7. TypeOK'
  BY <1>2, <1>3, <1>4, <1>6 DEF Inv, TypeOK
<1>8. Revisions'
  BY <1>1, <1>2 DEF Revisions, PrepareKind, ConsentKind, CancelKind, Preparing
<1>9. ItemNeedsConsent'
  BY <1>1, <1>2 DEF ItemNeedsConsent, PrepareKind, ConsentKind, CancelKind, Preparing
<1>10. MarkAgrees'
  BY <1>4 DEF Inv, MarkAgrees, Prepared, NoItem, Unauthorized, Results
<1>11. Written'
  BY <1>2, <1>4 DEF Inv, Written, Prepared, NoItem
<1>12. ReceiptNeedsResult' /\ RunReportsTheEffect'
  <2>1. receiptAt > 0 => run.phase \in TerminalPhases
    BY DEF Inv, RunReportsTheEffect
  <2>2. run.phase \notin TerminalPhases
    BY <1>2 DEF PrepareKind, ConsentKind, CancelKind, Preparing, TerminalPhases
  <2> QED
    BY <1>1, <1>2, <2>1, <2>2 DEF ReceiptNeedsResult, RunReportsTheEffect
<1>13. AcknowledgedMeansRecorded'
  <2>1. CASE PrepareKind
    BY <1>1, <2>1 DEF PrepareKind, ItemNeedsConsent, AcknowledgedMeansRecorded, NoItem
  <2>2. CASE ConsentKind
    BY <2>2 DEF ConsentKind, AcknowledgedMeansRecorded, Prepared, NoItem
  <2>3. CASE CancelKind
    BY <1>1, <1>2, <1>4, <2>3
       DEF CancelKind, Inv, AcknowledgedMeansRecorded, Prepared, NoItem, Unauthorized
  <2> QED
    BY <1>2, <2>1, <2>2, <2>3
<1>14. SealIsPast'
  <2>1. CASE PrepareKind
    BY <1>1, <2>1 DEF PrepareKind, ItemNeedsConsent, SealIsPast, NoItem
  <2>2. CASE ConsentKind
    BY <1>1, <1>2, <2>2 DEF ConsentKind, SealIsPast, Inv, TypeOK, Customer
  <2>3. CASE CancelKind
    <3>1. run'.sealed = run.sealed /\ run'.mode = run.mode /\ customer' = customer
      BY <1>2, <2>3 DEF CancelKind
    <3>2. item'.status # "none" => item.status # "none"
      BY <1>1, <2>3 DEF CancelKind, Cascade, Unauthorized
    <3> QED
      BY <3>1, <3>2 DEF SealIsPast, Inv
  <2> QED
    BY <1>2, <2>1, <2>2, <2>3
<1> QED
  BY <1>5, <1>6, <1>7, <1>8, <1>9, <1>10, <1>11, <1>12, <1>13, <1>14 DEF Inv

\* A step of the environment: only an edit, a lease and a switch move.
LEMMA EnvironmentKeepsInv ==
    ASSUME Inv, Environment
    PROVE  Inv' /\ Progress
<1>1. /\ TypeOK /\ item \in Item /\ item.fence \in Nat /\ receiptAt \in Nat
      /\ customer.rev \in Nat /\ disturbances \in 0..MaxDisturbances
      /\ edits \in 0..MaxEdits /\ run.sealed \in Nat
      /\ MaxEdits \in Nat /\ MaxDisturbances \in Nat
  BY DispatchAssumption DEF Inv, TypeOK, Item, Customer, Run
<1>2. ASSUME Disturb \/ UNCHANGED disturbances
      PROVE  disturbances' \in 0..MaxDisturbances
  BY <1>1, <1>2 DEF Disturb
<1>3. /\ UNCHANGED <<run, receiptAt, worker, landed>>
      /\ item' = item \/ item' = [item EXCEPT !.lease = "expired"]
  BY DEF Environment, ArtisanEdit, Expire, SwitchOff, SwitchOn, CloseCompany,
         PurgePayload, PassTtl, PassExecuteBy, Turn
<1>4. /\ item' \in Item /\ item'.status = item.status /\ item'.fence = item.fence
      /\ item'.authorized = item.authorized /\ item'.signalled = item.signalled
      /\ item.status = "none" => item' = item
  <2>1. item.status = "none" => item' = item
    BY DEF Environment, ArtisanEdit, Expire, SwitchOff, SwitchOn, CloseCompany,
           PurgePayload, PassTtl, PassExecuteBy, Turn
  <2>2. item' \in Item
    BY <1>1, <1>3, ItemMoves
  <2> QED
    BY <1>1, <1>3, <2>1, <2>2 DEF Item
<1>5. /\ edits' \in 0..MaxEdits /\ customer' \in Customer
      /\ customer' = customer \/ (customer.rev > 0 /\ customer'.rev = customer.rev + 1)
  <2>1. CASE ArtisanEdit
    <3>1. edits' = edits + 1 /\ edits < MaxEdits /\ customer.rev > 0
          /\ customer' = [rev |-> customer.rev + 1, own |-> edits + 1]
      BY <2>1 DEF ArtisanEdit
    <3> QED
      BY <1>1, <3>1 DEF Customer
  <2>2. CASE ~ArtisanEdit
    <3>1. UNCHANGED <<customer, edits>>
      BY <2>2 DEF Environment, Expire, SwitchOff, SwitchOn, CloseCompany,
                  PurgePayload, PassTtl, PassExecuteBy, Turn
    <3> QED
      BY <1>1, <3>1 DEF TypeOK
  <2> QED
    BY <2>1, <2>2
<1>6. world' \in World
  BY DEF Inv, TypeOK, World, Environment, ArtisanEdit, Expire, SwitchOff, SwitchOn,
         CloseCompany, PurgePayload, PassTtl, PassExecuteBy, Turn
<1>7. disturbances' \in 0..MaxDisturbances
  BY <1>2 DEF Environment, ArtisanEdit, Expire, SwitchOff, SwitchOn, CloseCompany,
              PurgePayload, PassTtl, PassExecuteBy, Turn
<1>8. Progress
  BY <1>1, <1>3, <1>4 DEF Progress
<1>9. worker' \in [Workers -> Worker] /\ WorkersFit'
  BY <1>1, <1>3, <1>4, <1>8, TableStep
<1>10. TypeOK'
  BY <1>3, <1>4, <1>5, <1>6, <1>7, <1>9 DEF Inv, TypeOK
<1>11. Revisions' /\ ItemNeedsConsent'
  BY <1>3, <1>4 DEF Inv, Revisions, ItemNeedsConsent, NoItem
<1>12. MarkAgrees' /\ Written'
  BY <1>1, <1>3, <1>4, <1>5 DEF Inv, MarkAgrees, Written
<1>13. ReceiptNeedsResult' /\ RunReportsTheEffect' /\ AcknowledgedMeansRecorded'
  BY <1>3, <1>4 DEF Inv, ReceiptNeedsResult, RunReportsTheEffect, AcknowledgedMeansRecorded
<1>14. SealIsPast'
  BY <1>1, <1>3, <1>4, <1>5 DEF Inv, SealIsPast
<1> QED
  BY <1>8, <1>9, <1>10, <1>11, <1>12, <1>13, <1>14 DEF Inv

\* The initial states.
LEMMA InitGivesInv == Init => Inv
<1> SUFFICES ASSUME Init PROVE Inv
  OBVIOUS
<1>1. /\ MaxSteps \in Nat \ {0} /\ MaxWakes \in Nat \ {0}
      /\ MaxEdits \in Nat /\ MaxDisturbances \in Nat
  BY BudgetAssumption, DispatchAssumption
<1>2. PICK mode \in Modes :
        /\ run = NoRun(mode)
        /\ customer = [rev |-> IF mode = "update" THEN 1 ELSE 0, own |-> 0]
  BY DEF Init
<1>3. run \in Run
  BY <1>1, <1>2 DEF NoRun, Run, Phases, Confirmations
<1>4. customer \in Customer /\ (mode = "create" => customer.rev = 0)
  BY <1>2 DEF Customer, Modes
<1>5. item \in Item /\ item = NoItem
  BY DEF Init, Item, NoItem
<1>6. worker \in [Workers -> Worker] /\ \A w \in Workers : worker[w] = Idle
  <2>1. Idle \in Worker
    BY DEF Idle, Worker, Steps, Settled
  <2> QED
    BY <2>1 DEF Init
<1>7. TypeOK
  <2>1. edits \in 0..MaxEdits /\ disturbances \in 0..MaxDisturbances
    BY <1>1 DEF Init
  <2>2. receiptAt \in Nat /\ landed \in BOOLEAN /\ world \in World
    BY DEF Init, World
  <2> QED
    BY <1>3, <1>4, <1>5, <1>6, <2>1, <2>2 DEF TypeOK
<1>8. /\ run.phase = "none" /\ run.steps = 0 /\ run.mode = mode
      /\ receiptAt = 0 /\ landed = FALSE
  BY <1>2 DEF Init, NoRun
<1>9. Revisions /\ ItemNeedsConsent /\ MarkAgrees /\ Written
  BY <1>4, <1>5, <1>8
     DEF Revisions, ItemNeedsConsent, MarkAgrees, Written, NoItem, Results
<1>10. WorkersFit
  BY <1>5, <1>6 DEF WorkersFit, Fits, Idle, NoItem
<1>11. ReceiptNeedsResult /\ RunReportsTheEffect /\ AcknowledgedMeansRecorded /\ SealIsPast
  BY <1>5, <1>8 DEF ReceiptNeedsResult, RunReportsTheEffect, AcknowledgedMeansRecorded,
                    SealIsPast, NoItem
<1> QED
  BY <1>7, <1>9, <1>10, <1>11 DEF Inv

\* The invariant is inductive, and no step undoes anything.
LEMMA NextKeepsInv == Inv /\ [Next]_vars => Inv' /\ (Progress \/ UNCHANGED vars)
<1> SUFFICES ASSUME Inv, [Next]_vars PROVE Inv' /\ (Progress \/ UNCHANGED vars)
  OBVIOUS
<1>1. CASE UNCHANGED vars
  <2>1. Inv'
    BY <1>1 DEF vars, Inv, TypeOK, Revisions, ItemNeedsConsent, MarkAgrees, Written,
                WorkersFit, Fits, ReceiptNeedsResult, RunReportsTheEffect,
                AcknowledgedMeansRecorded, SealIsPast
  <2> QED
    BY <1>1, <2>1
<1>2. CASE UserCommand
  BY <1>2, UserKeepsInv
<1>3. CASE Environment
  BY <1>3, EnvironmentKeepsInv
<1>4. CASE \E w \in Workers : Tick(w) \/ Crash(w)
  BY <1>4, WorkerKeepsInv
<1> QED
  BY <1>1, <1>2, <1>3, <1>4 DEF Next

---------------------------------------------------------------------------
(* The theorems.                                                           *)

\* The inductive invariant, for every set of workers and every bound.
THEOREM Invariance == Spec => []Inv
<1>1. Init => Inv
  BY InitGivesInv
<1>2. Inv /\ [Next]_vars => Inv'
  BY NextKeepsInv
<1> QED
  BY <1>1, <1>2, PTL DEF Spec, Safe

\* Every variable keeps its type; the step and wake budgets are never
\* exceeded, by the commands that check them and by those that do not.
THEOREM TypeCorrect == Spec => []TypeOK
<1>1. Inv => TypeOK
  BY DEF Inv
<1> QED
  BY <1>1, Invariance, PTL

\* An item closed as cancelled never had an effect, whoever raced for it.
THEOREM CancelledHasNoEffect == Spec => []CancelledMeansNoEffect
<1>1. Inv => CancelledMeansNoEffect
  BY DEF Inv, MarkAgrees, Written, CancelledMeansNoEffect, Results
<1> QED
  BY <1>1, Invariance, PTL

\* A stored success was written.
THEOREM SuccessWasWritten == Spec => []SuccessMeansWritten
<1>1. Inv => SuccessMeansWritten
  BY DEF Inv, Written, SuccessMeansWritten
<1> QED
  BY <1>1, Invariance, PTL

\* The receipt closes the run on what the effect really did.
THEOREM ReceiptIsTruthful == Spec => []RunReportsTheEffect
<1>1. Inv => RunReportsTheEffect
  BY DEF Inv
<1> QED
  BY <1>1, Invariance, PTL

\* No result is acknowledged before the run has recorded it, or has itself
\* cancelled the item.
THEOREM AcknowledgementIsEarned == Spec => []AcknowledgedMeansRecorded
<1>1. Inv => AcknowledgedMeansRecorded
  BY DEF Inv
<1> QED
  BY <1>1, Invariance, PTL

\* A stored result is never replaced.
THEOREM ResultsAreFinal == Spec => ResultIsFinal
<1>1. Inv /\ [Next]_vars => [item.status \in Settled => item'.status = item.status]_vars
  BY NextKeepsInv DEF Progress
<1> QED
  BY <1>1, Invariance, PTL DEF Spec, Safe, ResultIsFinal

---------------------------------------------------------------------------
(* A drifted target withdraws its modification.                            *)

\* A worker's step does not free a doomed modification: no worker comes to
\* the authorization on a broken seal, and an old lease never holds again.
LEMMA WorkerKeepsDoom ==
    ASSUME Inv, Doomed, NEW w \in Workers, Tick(w) \/ Crash(w)
    PROVE  Doomed'
<1>1. /\ item \in Item /\ item.fence \in Nat /\ customer.rev \in Nat /\ run.sealed \in Nat
      /\ worker \in [Workers -> Worker] /\ WorkersFit
      /\ \A v \in Workers : worker[v].fence \in Nat
  BY DEF Inv, TypeOK, Item, Customer, Run, Worker
<1>2. ~item.authorized /\ run.mode = "update" /\ item.status # "none" /\ ~SealHolds
  BY <1>1 DEF Doomed, SealHolds
<1>3. ~(At(w, "authorize") /\ CanAuthorize(w))
  BY DEF Doomed, At, CanAuthorize
<1>4. run'.mode = "update" /\ run'.sealed = run.sealed /\ customer' = customer
  BY <1>2, OtherStep DEF Doomed
<1>5. ~item'.authorized /\ item'.status # "none"
  <2>1. item' \in Item /\ MarkAgrees'
    BY ItemStep
  <2>2. CASE Authorize(w)
    BY <1>2, <1>3, <2>2 DEF Authorize
  <2>3. CASE StoreResult(w) \/ Reclaim(w)
    BY <1>1, <1>2, <2>3 DEF Inv, MarkAgrees, StoreResult, CanStore, Reclaim
  <2>4. CASE Claim(w)
    BY <1>1, <1>2, <2>4 DEF Claim, Leased, Item
  <2>5. CASE MarkRetryDue(w) \/ Withdraw(w) \/ Acknowledge(w)
    BY <1>1, <1>2, <2>5 DEF MarkRetryDue, Withdraw, Acknowledge, Item
  <2>6. CASE AdmitReceipt(w)
    <3>1. item.status \in Settled
      BY <1>1, <2>6 DEF AdmitReceipt, At, WorkersFit, Fits
    <3>2. \A n : Cascade(n, item) = item
      BY <3>1 DEF Cascade, Unauthorized, Settled
    <3> QED
      BY <1>1, <1>2, <2>6, <3>2 DEF AdmitReceipt, Item
  <2>7. CASE \/ Redeliver(w) \/ Recheck(w) \/ RecheckTarget(w) \/ Reconcile(w)
             \/ Execute(w) \/ Write(w) \/ Reread(w) \/ ReadRun(w) \/ Crash(w)
    <3>1. item' = item
      BY <2>7 DEF Redeliver, Recheck, RecheckTarget, Reconcile, Execute, Write,
                  Reread, ReadRun, Crash
    <3> QED
      BY <1>2, <3>1
  <2> QED
    BY <2>2, <2>3, <2>4, <2>5, <2>6, <2>7 DEF Tick
\* Only a claim makes a lease live, and it moves the fence.
<1>6. CASE Claim(w)
  <2>1. item'.fence = item.fence + 1 /\ worker'[w].at = "check"
        /\ \A v \in Workers : v # w => worker'[v] = worker[v]
    BY <1>1, <1>6 DEF Claim, Leased, Item, Worker
  <2>2. ASSUME NEW v \in Workers, worker'[v].at = "authorize"
        PROVE  worker'[v].fence # item'.fence
    <3>1. worker'[v] = worker[v] /\ worker[v].fence <= item.fence
      BY <1>1, <2>1, <2>2 DEF WorkersFit, Fits
    <3> QED
      BY <1>1, <2>1, <3>1
  <2> QED
    BY <1>1, <1>2, <1>4, <1>5, <2>2 DEF Doomed, Holds
<1>7. CASE ~Claim(w)
  <2>1. item'.status = "leased" /\ item'.lease = "live" =>
          item.status = "leased" /\ item.lease = "live" /\ item'.fence = item.fence
    <3>1. \/ item' = item
          \/ \E b \in BOOLEAN : item' = [item EXCEPT !.signalled = b]
          \/ item'.status # "leased"
      <4>1. CASE Reclaim(w)
        BY <1>1, <1>2, <4>1 DEF Reclaim, Inv, MarkAgrees
      <4>2. CASE MarkRetryDue(w) \/ Withdraw(w) \/ Acknowledge(w)
        BY <1>1, <4>2 DEF MarkRetryDue, Withdraw, Acknowledge, Item
      <4>3. CASE StoreResult(w) \/ Authorize(w)
        BY <1>1, <1>2, <1>3, <4>3 DEF StoreResult, Authorize, CanStore, Inv, MarkAgrees
      <4>4. CASE AdmitReceipt(w)
        <5>1. item.status \in Settled
          BY <1>1, <4>4 DEF AdmitReceipt, At, WorkersFit, Fits
        <5>2. item'.status = item.status
          BY <5>1, ItemStep
        <5> QED
          BY <5>1, <5>2 DEF Settled
      <4>5. CASE \/ Redeliver(w) \/ Recheck(w) \/ RecheckTarget(w) \/ Reconcile(w)
                 \/ Execute(w) \/ Write(w) \/ Reread(w) \/ ReadRun(w) \/ Crash(w)
        BY <4>5 DEF Redeliver, Recheck, RecheckTarget, Reconcile, Execute, Write,
                    Reread, ReadRun, Crash
      <4> QED
        BY <1>7, <4>1, <4>2, <4>3, <4>4, <4>5 DEF Tick
    <3> QED
      BY <1>1, <3>1 DEF Item
  <2>2. worker'[w].at # "authorize" \/ worker'[w] = worker[w]
    <3>1. CASE Recheck(w)
      BY <1>1, <1>2, <3>1 DEF Recheck, Goto, Worker
    <3>2. CASE RecheckTarget(w)
      BY <1>1, <1>2, <3>2 DEF RecheckTarget, Goto, Worker
    <3>3. CASE \/ Reclaim(w) \/ Redeliver(w) \/ MarkRetryDue(w) \/ Withdraw(w) \/ Authorize(w)
               \/ Acknowledge(w) \/ Crash(w) \/ AdmitReceipt(w)
      BY <1>1, <3>3 DEF Reclaim, Redeliver, MarkRetryDue, Withdraw, Authorize, Acknowledge,
                        Crash, AdmitReceipt, Refused, Goto, Rest, Idle, Worker
    <3>4. CASE \/ Reconcile(w) \/ Execute(w) \/ Write(w) \/ Reread(w)
               \/ StoreResult(w) \/ ReadRun(w)
      BY <1>1, <3>4 DEF Reconcile, Execute, Write, Reread, StoreResult, ReadRun,
                        Goto, Yield, Rest, Idle, Worker
    <3> QED
      BY <1>7, <3>1, <3>2, <3>3, <3>4 DEF Tick
  <2>3. \A v \in Workers : v # w => worker'[v] = worker[v]
    BY <1>1, WorkerStep, BecomesFacts
  <2>4. ASSUME NEW v \in Workers, worker'[v].at = "authorize"
        PROVE  worker'[v] = worker[v]
    BY <2>2, <2>3, <2>4
  <2> QED
    BY <1>1, <1>2, <1>4, <1>5, <2>1, <2>4 DEF Doomed, Holds
<1> QED
  BY <1>6, <1>7

\* Nothing frees a doomed modification.
LEMMA NextKeepsDoom == Inv /\ Doomed /\ [Next]_vars => Doomed'
<1> SUFFICES ASSUME Inv, Doomed, [Next]_vars PROVE Doomed'
  OBVIOUS
<1>1. /\ item \in Item /\ customer.rev \in Nat /\ run.sealed \in Nat
      /\ item.status # "none"
  BY DEF Inv, TypeOK, Item, Customer, Run, Doomed
<1>2. CASE UNCHANGED vars
  BY <1>2 DEF vars, Doomed, Holds
<1>3. CASE UserCommand
  <2>1. /\ run'.mode = run.mode /\ UNCHANGED <<worker, customer>>
        /\ PrepareKind \/ ConsentKind \/ CancelKind
    BY <1>3, UserCommandKinds DEF Inv
  <2>2. CancelKind
    BY <1>1, <2>1 DEF PrepareKind, ConsentKind, Inv, ItemNeedsConsent, Preparing, NoItem
  <2>3. item' = item \/ item' = [item EXCEPT !.status = "cancelled", !.signalled = TRUE]
    BY <2>2 DEF CancelKind, Cascade
  <2> QED
    BY <1>1, <2>1, <2>2, <2>3 DEF CancelKind, Doomed, Holds, Item
<1>4. CASE Environment
  <2>1. /\ UNCHANGED <<run, worker>>
        /\ item' = item \/ item' = [item EXCEPT !.lease = "expired"]
        /\ customer'.rev = customer.rev \/ customer'.rev = customer.rev + 1
    BY <1>4 DEF Environment, ArtisanEdit, Expire, SwitchOff, SwitchOn, CloseCompany,
                PurgePayload, PassTtl, PassExecuteBy, Turn
  <2> QED
    BY <1>1, <2>1 DEF Doomed, Holds, Item
<1>5. CASE \E w \in Workers : Tick(w) \/ Crash(w)
  BY <1>5, WorkerKeepsDoom
<1> QED
  BY <1>2, <1>3, <1>4, <1>5 DEF Next

\* A record edited while its confirmed modification is due is never written
\* by it: the modification is doomed from then on.
THEOREM DriftIsWithdrawn == Spec => DriftWithdraws
<1>1. Inv /\ DriftedWhileDue => Doomed
  <2> SUFFICES ASSUME Inv, DriftedWhileDue PROVE Doomed
    OBVIOUS
  <2>1. /\ run.mode = "update" /\ customer.rev # run.sealed
        /\ customer.rev \in Nat /\ run.sealed \in Nat
        /\ \/ item.status \in {"prepared", "retry_due"}
           \/ item.status = "leased" /\ item.lease = "expired"
    BY DEF DriftedWhileDue, Due, Inv, TypeOK, Customer, Run
  <2>2. ~item.authorized /\ run.sealed <= customer.rev
    BY <2>1 DEF Inv, MarkAgrees, Results, SealIsPast
  <2> QED
    BY <2>1, <2>2 DEF Doomed
<1>2. Doomed => ~item.authorized
  BY DEF Doomed
<1>3. Inv /\ Doomed /\ [Next]_vars => Doomed'
  BY NextKeepsDoom
<1> QED
  BY <1>1, <1>2, <1>3, Invariance, PTL DEF Spec, Safe, DriftWithdraws

---------------------------------------------------------------------------
(* The dispatch implements the safety of ConfirmedEffect.                  *)

\* The abstract decision and outcome, status by status.
Mapped ==
    /\ item.status = "none" => decision = "none"
    /\ item.authorized => decision = "authorized"
    /\ item.status = "cancelled" => decision = "withdrawn"
    /\ item.status \in Unauthorized => decision = "open"
    /\ outcome = IF item.status \in Results THEN item.status ELSE "none"

\* The invariant fixes the abstract state of every status.
LEMMA Mapping == Inv => Mapped
<1> SUFFICES ASSUME item \in Item, MarkAgrees PROVE Mapped
  BY DEF Inv, TypeOK
<1> QED
  BY DEF Mapped, decision, outcome, Item, MarkAgrees, Settled, Unauthorized, Results

\* The transitions of the item that the abstract specification sees.
Stays == item'.status = item.status /\ (landed' = landed \/ (item.authorized /\ landed' = TRUE))

Decides ==
    /\ item.status \in Unauthorized /\ landed' = landed
    /\ item'.status \in Unauthorized \cup {"cancelled", "authorized"}

Reports ==
    /\ item.status = "authorized" /\ landed' = landed
    /\ item'.status \in Results /\ (item'.status = "succeeded" => landed)

\* A step of a worker is one of the three, as the abstraction sees it.
LEMMA WorkerTransitions ==
    ASSUME Inv, NEW w \in Workers, Tick(w) \/ Crash(w)
    PROVE  Stays \/ Decides \/ Reports
<1>1. item \in Item /\ worker[w] \in Worker /\ Fits(worker[w])
  BY DEF Inv, TypeOK, WorkersFit
<1> USE DEF Unauthorized, Results
<1>2. CASE Write(w)
  <2>1. item' = item /\ item.authorized /\ (landed' = landed \/ landed' = TRUE)
    BY <1>1, <1>2 DEF Write, Landing, At, Fits
  <2> QED
    BY <2>1 DEF Stays
<1>3. CASE Claim(w) \/ Reclaim(w)
  BY <1>1, <1>3 DEF Claim, Reclaim, Due, Leased, Item, Stays, Decides
<1>4. CASE MarkRetryDue(w)
  BY <1>1, <1>4 DEF MarkRetryDue, Item, Stays, Decides
<1>5. CASE Withdraw(w)
  BY <1>1, <1>5 DEF Withdraw, CanWithdraw, Item, Stays, Decides
<1>6. CASE Authorize(w)
  BY <1>1, <1>6 DEF Authorize, CanAuthorize, Item, Stays, Decides
<1>7. CASE StoreResult(w)
  <2>1. worker[w].out \in Results /\ (worker[w].out = "succeeded" => landed)
    BY <1>1, <1>7 DEF StoreResult, At, Fits
  <2> QED
    BY <1>1, <1>7, <2>1 DEF StoreResult, CanStore, Item, Stays, Reports
<1>8. CASE AdmitReceipt(w)
  <2>1. item.status \in Settled /\ landed' = landed
    BY <1>1, <1>8 DEF AdmitReceipt, At, Fits
  <2> QED
    BY <2>1, ItemStep DEF Stays
<1>9. CASE Acknowledge(w)
  BY <1>1, <1>9 DEF Acknowledge, Item, Stays
<1>10. CASE \/ Redeliver(w) \/ Recheck(w) \/ RecheckTarget(w) \/ Reconcile(w)
            \/ Execute(w) \/ Reread(w) \/ ReadRun(w) \/ Crash(w)
  BY <1>10 DEF Redeliver, Recheck, RecheckTarget, Reconcile, Execute, Reread, ReadRun,
               Crash, Stays
<1> QED
  BY <1>2, <1>3, <1>4, <1>5, <1>6, <1>7, <1>8, <1>9, <1>10 DEF Tick

\* The dispatch keeps the safety half of the promise EffectPromise: the
\* effect is opened once, decided once, written only when authorized and
\* reported once, and truthfully.
THEOREM KeepsThePromise == Spec => Effect!Safe
<1>1. Init => Effect!Init
  <2> SUFFICES ASSUME Init PROVE Effect!Init
    OBVIOUS
  <2>1. item.status = "none" /\ landed = FALSE
    BY DEF Init, NoItem
  <2>2. Mapped
    BY InitGivesInv, Mapping
  <2> QED
    BY <2>1, <2>2 DEF Mapped, Effect!Init, Results
<1>2. Inv /\ Inv' /\ [Next]_vars => [Effect!Next]_Effect!effectVars
  <2> SUFFICES ASSUME Inv, Inv', [Next]_vars PROVE [Effect!Next]_Effect!effectVars
    OBVIOUS
  <2>1. /\ item \in Item /\ MarkAgrees /\ Written /\ item' \in Item /\ MarkAgrees'
        /\ landed \in BOOLEAN /\ landed' \in BOOLEAN /\ Mapped
    BY Mapping DEF Inv, TypeOK
  <2>2. Mapped'
    BY Mapping, PTL
  <2> USE DEF Mapped, MarkAgrees, Item, Settled, Unauthorized, Results
  <2>3. CASE Stays
    <3>1. item'.authorized = item.authorized /\ outcome' = outcome
      BY <2>1, <2>2, <2>3 DEF Stays
    <3>2. decision' = decision
      BY <2>1, <2>2, <2>3, <3>1 DEF Stays
    <3> QED
      BY <2>1, <2>3, <3>1, <3>2 DEF Stays, Effect!Next, Effect!Write, Effect!effectVars
  <2>4. CASE Decides
    <3>1. decision = "open" /\ decision' \in {"open", "withdrawn", "authorized"}
      BY <2>1, <2>2, <2>4 DEF Decides
    <3>2. outcome = "none" /\ outcome' = "none" /\ landed' = landed
      BY <2>1, <2>2, <2>4 DEF Decides
    <3> QED
      BY <3>1, <3>2 DEF Effect!Next, Effect!Decide, Effect!effectVars
  <2>5. CASE Reports
    <3>1. decision = "authorized" /\ decision' = "authorized" /\ outcome = "none"
      BY <2>1, <2>2, <2>5 DEF Reports
    <3>2. /\ outcome' \in Results /\ landed' = landed
          /\ outcome' = "succeeded" => landed
      BY <2>1, <2>2, <2>5 DEF Reports
    <3> QED
      BY <3>1, <3>2 DEF Effect!Next, Effect!Report, Effect!Outcomes
  <2>6. CASE item = NoItem /\ item' = Prepared /\ landed' = landed
    <3>1. item.status = "none" /\ item'.status = "prepared"
      BY <2>6 DEF NoItem, Prepared
    <3>2. decision = "none" /\ decision' = "open" /\ outcome = "none" /\ outcome' = "none"
      BY <2>1, <2>2, <3>1
    <3> QED
      BY <2>6, <3>2 DEF Effect!Next, Effect!Open
  <2>7. CASE UNCHANGED vars
    BY <2>3, <2>7 DEF vars, Stays
  <2>8. CASE UserCommand
    <3>1. PrepareKind \/ ConsentKind \/ CancelKind
      BY <2>8, UserCommandKinds DEF Inv
    <3>2. landed' = landed
      BY <2>8, UserCommandKinds DEF Inv
    <3>3. CASE PrepareKind
      BY <2>3, <3>2, <3>3 DEF PrepareKind, Stays
    <3>4. CASE ConsentKind
      BY <2>6, <3>2, <3>4 DEF ConsentKind, Inv, ItemNeedsConsent, Preparing
    <3>5. CASE CancelKind
      BY <2>1, <2>3, <2>4, <3>2, <3>5 DEF CancelKind, Cascade, Stays, Decides
    <3> QED
      BY <3>1, <3>3, <3>4, <3>5
  <2>9. CASE Environment
    <3>1. landed' = landed /\ (item' = item \/ item' = [item EXCEPT !.lease = "expired"])
      BY <2>9 DEF Environment, ArtisanEdit, Expire, SwitchOff, SwitchOn, CloseCompany,
                  PurgePayload, PassTtl, PassExecuteBy, Turn
    <3> QED
      BY <2>1, <2>3, <3>1 DEF Stays
  <2>10. CASE \E w \in Workers : Tick(w) \/ Crash(w)
    BY <2>3, <2>4, <2>5, <2>10, WorkerTransitions
  <2> QED
    BY <2>7, <2>8, <2>9, <2>10 DEF Next
<1> QED
  BY <1>1, <1>2, Invariance, NextKeepsInv, PTL DEF Spec, Safe, Effect!Safe
=============================================================================
