--------------------------- MODULE StripePayments ---------------------------
(***************************************************************************)
(* Card payments of one invoice through Stripe, and the subscription of    *)
(* the company: links created in three steps (attempt row, session at the  *)
(* provider, attachment), the inbox that makes redelivered webhooks apply  *)
(* once, and the handlers that read Stripe again before they write.        *)
(*                                                                         *)
(* Every action is one database transaction or one call of the provider.   *)
(* A transaction takes the row locks of what it writes (attempt, invoice,  *)
(* inbox), so it is one step; what a handler read before it is not.        *)
(***************************************************************************)
EXTENDS Naturals

CONSTANTS
    Links,            \* payment links asked for on the invoice
    Net,              \* net to pay: what a link asks for
    Retention,        \* retained guarantee: due on the invoice, asked by no link
    MaxChanges,       \* bound: changes of the subscription
    Handlers,         \* webhook requests handled at the same time
    MaxDisturbances   \* bound: things that go wrong

ASSUME PaymentsAssumption ==
    /\ "subscription" \notin Links
    /\ Net \in Nat /\ Retention \in Nat
    /\ MaxChanges \in Nat
    /\ MaxDisturbances \in Nat

VARIABLES
    request,        \* what the request that creates a link is doing
    attempt,        \* stripe_checkout_attempts: the status of the link's row
    asked,          \* stripe_checkout_attempts: the amount expected
    session,        \* Stripe: the state of the link's checkout session
    authority,      \* Stripe: the version of the subscription
    emitted,        \* Stripe: the events it delivers until a 2xx
    inbox,          \* stripe_webhook_events
    handler,        \* what each webhook request is doing
    recorded,       \* payments recorded under the key of the link's session
    paid,           \* invoices: what the invoice has received
    projected,      \* subscriptions: the version of the last write
    disturbances    \* how many things went wrong so far

links == <<request, attempt, asked>>
stripe == <<session, authority, emitted>>
books == <<recorded, paid, projected>>
vars == <<links, stripe, inbox, handler, books, disturbances>>

---------------------------------------------------------------------------
Due == Net + Retention

\* Closed: the session is no longer open; Settled: the outcome of a payment
\* that was still pending then; Changed: a version of the subscription.
Closed(l) == <<l, "closed">>
Settled(l) == <<l, "settled">>
Changed(n) == <<"subscription", n>>

Events == {Closed(l) : l \in Links} \cup {Settled(l) : l \in Links}
            \cup {Changed(n) : n \in 1..MaxChanges}

About(e) == e[1]

NoEvent == <<"none", 0>>

RequestSteps == {"none", "creating", "opened", "handed", "expiring", "marking", "over"}

SessionStates == {"none", "open", "unpaid", "paid", "expired"}

\* stale: processing since 5 minutes or more.
Row == [status : {"none", "processing", "failed", "processed"}, stale : BOOLEAN]

\* seen, version: what the handler read of the session or subscription.
Work == [at : {"idle", "claimed", "read", "threw"}, event : Events \cup {NoEvent},
         seen : SessionStates, version : 0..MaxChanges]

Taking(e) == [at |-> "claimed", event |-> e, seen |-> "none", version |-> 0]

Idle == [at |-> "idle", event |-> NoEvent, seen |-> "none", version |-> 0]

TypeOK ==
    /\ request \in [Links -> RequestSteps]
    /\ attempt \in [Links -> {"none", "creating", "open", "failed", "expired", "completed"}]
    /\ asked \in [Links -> 0..Net]
    /\ session \in [Links -> SessionStates]
    /\ authority \in 0..MaxChanges
    /\ emitted \subseteq Events
    /\ inbox \in [Events -> Row]
    /\ handler \in [Handlers -> Work]
    /\ recorded \in [Links -> Nat]
    /\ paid \in 0..Due
    /\ projected \in 0..MaxChanges
    /\ disturbances \in 0..MaxDisturbances

Init ==
    /\ request = [l \in Links |-> "none"]
    /\ attempt = [l \in Links |-> "none"]
    /\ asked = [l \in Links |-> 0]
    /\ session = [l \in Links |-> "none"]
    /\ authority = 0
    /\ emitted = {}
    /\ inbox = [e \in Events |-> [status |-> "none", stale |-> FALSE]]
    /\ handler = [h \in Handlers |-> Idle]
    /\ recorded = [l \in Links |-> 0]
    /\ paid = 0
    /\ projected = 0
    /\ disturbances = 0

Disturb == disturbances < MaxDisturbances /\ disturbances' = disturbances + 1

Calm == UNCHANGED disturbances

Emit(e) == emitted' = emitted \cup {e}

---------------------------------------------------------------------------
(* A payment link: createInvoicePaymentLink.                               *)

RequestGoes(l, step) == request' = [request EXCEPT ![l] = step]

Pending(l) == attempt[l] \in {"creating", "open"}

\* The invoice is read without a lock; the attempt keeps what was left.
RequestLink(l) ==
    /\ request[l] = "none"
    /\ paid < Net
    /\ RequestGoes(l, "creating")
    /\ attempt' = [attempt EXCEPT ![l] = "creating"]
    /\ asked' = [asked EXCEPT ![l] = Net - paid]
    /\ Calm /\ UNCHANGED <<stripe, inbox, handler, books>>

SessionOpens(l) == session' = [session EXCEPT ![l] = "open"]

OpenSession(l) ==
    /\ request[l] = "creating"
    /\ SessionOpens(l)
    /\ RequestGoes(l, "opened")
    /\ Calm /\ UNCHANGED <<attempt, asked, authority, emitted, inbox, handler, books>>

\* Refused, or created with the answer lost: the request knows no session.
OpenSessionThrows(l) ==
    /\ request[l] = "creating"
    /\ SessionOpens(l) \/ UNCHANGED session
    /\ RequestGoes(l, "marking")
    /\ Disturb /\ UNCHANGED <<attempt, asked, authority, emitted, inbox, handler, books>>

Attached(l) == Pending(l) /\ attempt' = [attempt EXCEPT ![l] = "open"]

\* Only an attached session is handed out to the client.
Attach(l) ==
    /\ request[l] = "opened"
    /\ \/ Attached(l) /\ RequestGoes(l, "handed")
       \/ ~Pending(l) /\ RequestGoes(l, "expiring") /\ UNCHANGED attempt
    /\ Calm /\ UNCHANGED <<asked, stripe, inbox, handler, books>>

AttachThrows(l) ==
    /\ request[l] = "opened"
    /\ Attached(l) \/ UNCHANGED attempt
    /\ RequestGoes(l, "expiring")
    /\ Disturb /\ UNCHANGED <<asked, stripe, inbox, handler, books>>

Expires(l) ==
    /\ session' = [session EXCEPT ![l] = "expired"]
    /\ Emit(Closed(l))

ExpireSession(l) ==
    /\ request[l] = "expiring"
    /\ IF session[l] = "open" THEN Expires(l) ELSE UNCHANGED <<session, emitted>>
    /\ RequestGoes(l, "marking")
    /\ Calm /\ UNCHANGED <<attempt, asked, authority, inbox, handler, books>>

\* Best effort: a session that could not be expired stays open.
ExpireSessionThrows(l) ==
    /\ request[l] = "expiring"
    /\ RequestGoes(l, "marking")
    /\ Disturb /\ UNCHANGED <<attempt, asked, stripe, inbox, handler, books>>

MarkCheckoutFailed(l) ==
    /\ request[l] = "marking"
    /\ IF Pending(l) THEN attempt' = [attempt EXCEPT ![l] = "failed"]
                     ELSE UNCHANGED attempt
    /\ RequestGoes(l, "over")
    /\ Calm /\ UNCHANGED <<asked, stripe, inbox, handler, books>>

\* A crash, or the failure of a step whose failure is ignored.
AbandonLink(l) ==
    /\ request[l] \in {"creating", "opened", "expiring", "marking"}
    /\ RequestGoes(l, "over")
    /\ Disturb /\ UNCHANGED <<attempt, asked, stripe, inbox, handler, books>>

---------------------------------------------------------------------------
(* Stripe, the client and the company's own hand.                          *)

\* At once, or by a method that settles later: links offer cards only, the
\* reconciliation accepts both.
Pay(l) ==
    /\ request[l] = "handed" /\ session[l] = "open"
    /\ \E status \in {"paid", "unpaid"} : session' = [session EXCEPT ![l] = status]
    /\ Emit(Closed(l))
    /\ Calm /\ UNCHANGED <<links, authority, inbox, handler, books>>

\* A delayed payment succeeds, or never will.
Settle(l) ==
    /\ session[l] = "unpaid" /\ Settled(l) \notin emitted
    /\ session' \in {session, [session EXCEPT ![l] = "paid"]}
    /\ Emit(Settled(l))
    /\ Calm /\ UNCHANGED <<links, authority, inbox, handler, books>>

SessionExpires(l) ==
    /\ session[l] = "open"
    /\ Expires(l)
    /\ Calm /\ UNCHANGED <<links, authority, inbox, handler, books>>

PayByHand(amount) ==
    /\ paid + amount <= Due
    /\ paid' = paid + amount
    /\ Calm /\ UNCHANGED <<links, stripe, inbox, handler, recorded, projected>>

ChangeSubscription ==
    /\ authority < MaxChanges
    /\ authority' = authority + 1
    /\ Emit(Changed(authority + 1))
    /\ Calm /\ UNCHANGED <<links, session, inbox, handler, books>>

---------------------------------------------------------------------------
(* A webhook request: handleWebhook.                                       *)

HandlerGoes(h, step) == handler' = [handler EXCEPT ![h].at = step]

Rest(h) == handler' = [handler EXCEPT ![h] = Idle]

\* Mutant: an event is only taken up again after a failure.
ClaimableOnce(e) == inbox[e].status \in {"none", "failed"}

Claimable(e) ==
    \/ inbox[e].status \in {"none", "failed"}
    \/ inbox[e].status = "processing" /\ inbox[e].stale

\* claimWebhook, in a transaction of its own.  A stale event is taken over
\* from a handler that may still be at work.
Claim(h, e) ==
    /\ handler[h].at = "idle"
    /\ e \in emitted /\ Claimable(e)
    /\ inbox' = [inbox EXCEPT ![e] = [status |-> "processing", stale |-> FALSE]]
    /\ handler' = [handler EXCEPT ![h] = Taking(e)]
    /\ Calm /\ UNCHANGED <<links, stripe, books>>

\* Stripe is read again; the payload of the event is not trusted.
Read(h) ==
    LET topic == About(handler[h].event) IN
    /\ handler[h].at = "claimed"
    /\ handler' = [handler EXCEPT
         ![h].at = "read",
         ![h].version = authority,
         ![h].seen = IF topic \in Links THEN session[topic] ELSE "none"]
    /\ Calm /\ UNCHANGED <<links, stripe, inbox, books>>

\* Mutant: what is left is not looked at.
RegistersUnbounded(l) == TRUE

\* RegisterPayment: idempotent under the session's key, refused above what
\* is left on the invoice.
Registers(l) == recorded[l] > 0 \/ asked[l] <= Due - paid

\* Mutant: the key of the payment is the event's, not the session's.
RegisterPerEvent(l) ==
    /\ recorded' = [recorded EXCEPT ![l] = @ + 1]
    /\ paid' = IF paid + asked[l] <= Due THEN paid + asked[l] ELSE paid

Register(l) ==
    IF recorded[l] > 0
      THEN UNCHANGED <<recorded, paid>>
      ELSE /\ recorded' = [recorded EXCEPT ![l] = @ + 1]
           /\ paid' = paid + asked[l]

\* What the transaction of a handler requires; otherwise it rolls back.
Finalisable(h) == inbox[handler[h].event].status = "processing"

\* Mutant: a session that is complete is taken for a paid one.
IsPaidWhenComplete(h) == handler[h].seen \in {"unpaid", "paid"}

IsPaid(h) == handler[h].seen = "paid"

AttemptIs(l, status) == attempt' = [attempt EXCEPT ![l] = status]

Applies(h) ==
    LET l == About(handler[h].event) IN
    /\ Finalisable(h)
    /\ l \in Links =>
         CASE handler[h].seen = "expired" -> attempt[l] \in {"creating", "open", "expired"}
           [] IsPaid(h) ->
                Registers(l) /\ attempt[l] \in {"creating", "open", "completed"}
           [] OTHER -> TRUE

\* The booking of a payment, its attempt and the receipt commit together.
Apply(h) ==
    LET l == About(handler[h].event) IN
    /\ inbox' = [inbox EXCEPT ![handler[h].event].status = "processed"]
    /\ IF l \notin Links
         THEN projected' = handler[h].version /\ UNCHANGED <<attempt, recorded, paid>>
         ELSE /\ UNCHANGED projected
              /\ CASE handler[h].seen = "expired" ->
                        AttemptIs(l, "expired") /\ UNCHANGED <<recorded, paid>>
                   [] IsPaid(h) ->
                        AttemptIs(l, "completed") /\ Register(l)
                   [] OTHER -> UNCHANGED <<attempt, recorded, paid>>

\* Mutant: the receipt is written whatever became of the booking.
ReconcileSwallows(h) ==
    /\ handler[h].at = "read"
    /\ IF Applies(h) THEN Apply(h)
                     ELSE /\ inbox' = [inbox EXCEPT ![handler[h].event].status = "processed"]
                          /\ UNCHANGED <<attempt, books>>
    /\ Rest(h)
    /\ Calm /\ UNCHANGED <<request, asked, stripe>>

Reconcile(h) ==
    /\ handler[h].at = "read"
    /\ Applies(h) /\ Apply(h)
    /\ Rest(h)
    /\ Calm /\ UNCHANGED <<request, asked, stripe>>

Refuse(h) ==
    /\ handler[h].at = "read"
    /\ ~Applies(h)
    /\ HandlerGoes(h, "threw")
    /\ Calm /\ UNCHANGED <<links, stripe, inbox, books>>

\* Stripe or the database fails, or commits with its answer lost.
Throws(h) ==
    /\ handler[h].at \in {"claimed", "read"}
    /\ HandlerGoes(h, "threw")
    /\ \/ UNCHANGED <<attempt, inbox, books>>
       \/ handler[h].at = "read" /\ Applies(h) /\ Apply(h)
    /\ Disturb /\ UNCHANGED <<request, asked, stripe>>

\* Mutant: the failure is written over a receipt.
MarkFailedBlindly(h) ==
    /\ handler[h].at = "threw"
    /\ inbox' = [inbox EXCEPT ![handler[h].event].status = "failed"]
    /\ Rest(h)
    /\ Calm /\ UNCHANGED <<links, stripe, books>>

\* Nothing says whose processing it is: another handler's may fail here.
MarkWebhookFailed(h) ==
    /\ handler[h].at = "threw"
    /\ inbox' = IF Finalisable(h)
                  THEN [inbox EXCEPT ![handler[h].event].status = "failed"] ELSE inbox
    /\ Rest(h)
    /\ Calm /\ UNCHANGED <<links, stripe, books>>

Crash(h) ==
    /\ handler[h].at # "idle"
    /\ Rest(h)
    /\ Disturb /\ UNCHANGED <<links, stripe, inbox, books>>

\* Five minutes pass, whether or not the handler is still at work.
GoesStale(e) ==
    /\ inbox[e].status = "processing" /\ ~inbox[e].stale
    /\ inbox' = [inbox EXCEPT ![e].stale = TRUE]
    /\ Calm /\ UNCHANGED <<links, stripe, handler, books>>

---------------------------------------------------------------------------
LinkStep(l) ==
    \/ RequestLink(l)
    \/ OpenSession(l)
    \/ Attach(l)
    \/ ExpireSession(l)
    \/ MarkCheckoutFailed(l)

World ==
    \/ \E l \in Links : Pay(l) \/ Settle(l) \/ SessionExpires(l)
    \/ \E amount \in 1..Due : PayByHand(amount)
    \/ ChangeSubscription
    \/ \E e \in Events : GoesStale(e)

HandlerStep(h) ==
    \/ Read(h)
    \/ Reconcile(h)
    \/ Refuse(h)
    \/ MarkWebhookFailed(h)

Fault ==
    \/ \E l \in Links :
         OpenSessionThrows(l) \/ AttachThrows(l) \/ ExpireSessionThrows(l) \/ AbandonLink(l)
    \/ \E h \in Handlers : Throws(h) \/ Crash(h)

Next ==
    \/ \E l \in Links : LinkStep(l)
    \/ World
    \/ \E h \in Handlers : HandlerStep(h) \/ \E e \in Events : Claim(h, e)
    \/ Fault

\* A request that began goes on, time passes, and Stripe delivers an event
\* again and again until it gets a 2xx.
Fairness ==
    /\ \A h \in Handlers : WF_vars(HandlerStep(h))
    /\ \A e \in Events :
         WF_vars(GoesStale(e)) /\ SF_vars(\E h \in Handlers : Claim(h, e))

Spec == Init /\ [][Next]_vars

FairSpec == Spec /\ Fairness

---------------------------------------------------------------------------
(* Correctness.                                                            *)

Processed(e) == inbox[e].status = "processed"

\* A session's payment is recorded at most once, and its attempt says so:
\* through redeliveries, two events of one session, handlers that were
\* taken over, transactions whose answer was lost and failed links.
RecordedOnce ==
    \A l \in Links :
      /\ recorded[l] <= 1
      /\ attempt[l] = "completed" <=> recorded[l] = 1

\* The event that announced the payment, when there is one.
PaymentEvent(l) == IF Settled(l) \in emitted THEN Settled(l) ELSE Closed(l)

\* Stripe is never told to stop announcing a payment that is not recorded.
NoReceiptBeforeRecord ==
    \A l \in Links :
      session[l] = "paid" /\ Processed(PaymentEvent(l)) => recorded[l] = 1

\* A receipt and what it stands for are for good: an event processed stays
\* so, and so does the payment.
ReceiptsStay ==
    [][/\ \A e \in Events : Processed(e) => Processed(e)'
       /\ \A l \in Links : recorded[l] <= recorded'[l]]_vars

\* Two events can never be processed: the payment of a link when the rest
\* of the invoice was paid otherwise meanwhile, and the expiry of a session
\* whose link was given up.
Hopeless(l) ==
    \/ session[l] = "paid" /\ recorded[l] = 0 /\ asked[l] > Due - paid
    \/ session[l] = "expired" /\ attempt[l] = "failed"

\* Redeliveries are hours apart and a request lasts seconds: two requests
\* at work on one event meet by accident, not for ever.
Spaced == \A g, h \in Handlers :
    handler[g].at # "idle" /\ handler[g].event = handler[h].event => g = h

\* Every other event is processed in the end, a paid session's included,
\* once requests stop failing each other's processing.
EveryEventSettles ==
    <>[]Spaced =>
      \A e \in Events :
        e \in emitted ~> Processed(e) \/ (About(e) \in Links /\ Hopeless(About(e)))

\* The subscription's state is Stripe's once every event is processed and
\* nobody is at work ("an old event cannot revoke the current state").
StripeIsAuthority ==
    (/\ \A e \in Events : e \in emitted => Processed(e)
     /\ \A h \in Handlers : handler[h].at = "idle") => projected = authority

---------------------------------------------------------------------------
(* Refinement: the promise of RecordedPayment.                             *)

StageOf(l) ==
    IF recorded[l] > 0 THEN "recorded"
    ELSE IF session[l] = "paid" THEN "taken" ELSE "none"

stage == [l \in Links |-> StageOf(l)]

told == {l \in Links : session[l] = "paid" /\ Processed(PaymentEvent(l))}

Recording == INSTANCE RecordedPayment WITH
    Payments <- Links, amount <- asked, received <- paid

PaymentPromise == Recording!Promise
=============================================================================
