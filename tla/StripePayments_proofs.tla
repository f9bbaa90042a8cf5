------------------------ MODULE StripePayments_proofs ------------------------
(***************************************************************************)
(* Theorems about StripePayments, for every set of links and handlers and  *)
(* every number of faults.  Liveness stays with the runs.                  *)
(***************************************************************************)
EXTENDS StripePayments, TLAPS

---------------------------------------------------------------------------
(* The inductive invariant.                                                *)

\* A link that was not opened has no session, one not asked for no attempt.
Fresh ==
    \A l \in Links :
      /\ request[l] \in {"none", "creating"} => session[l] = "none"
      /\ request[l] = "none" => attempt[l] = "none"

\* What was announced of a session tells where it is at least.
Announced ==
    \A l \in Links :
      /\ session[l] \in {"unpaid", "paid", "expired"} <=> Closed(l) \in emitted
      /\ Settled(l) \in emitted => session[l] \in {"unpaid", "paid"}

\* A payment is recorded once, of a session that is paid, with its attempt.
Recorded ==
    /\ RecordedOnce
    /\ \A l \in Links : recorded[l] = 1 => session[l] = "paid"

\* What a handler read is what the session still is, unless the session was
\* waiting for a payment whose event has come since.
ReadOf(h, l) ==
    /\ handler[h].seen \in {"unpaid", "paid", "expired"}
    /\ handler[h].seen \in {"paid", "expired"} => session[l] = handler[h].seen
    /\ handler[h].event = Settled(l) => session[l] = handler[h].seen
    /\ handler[h].seen = "unpaid" => session[l] = "unpaid" \/ Settled(l) \in emitted

Grounded ==
    \A h \in Handlers : handler[h].at # "idle" =>
      /\ handler[h].event \in emitted
      /\ \A l \in Links :
           handler[h].at = "read" /\ About(handler[h].event) = l => ReadOf(h, l)

\* Nothing is in the inbox that was not emitted.
Received == \A e \in Events : inbox[e].status # "none" => e \in emitted

IInv ==
    /\ TypeOK
    /\ Fresh
    /\ Announced
    /\ Recorded
    /\ Grounded
    /\ Received
    /\ NoReceiptBeforeRecord

---------------------------------------------------------------------------
(* Facts about the constants and the events.                               *)

\* The amounts are numbers, and no link asks for more than is due.
LEMMA Amounts == Net \in Nat /\ Due \in Nat /\ Net <= Due
BY PaymentsAssumption DEF Due

\* An event tells what it is about.
LEMMA EventFacts ==
    /\ \A l \in Links :
         /\ Closed(l) \in Events /\ Settled(l) \in Events
         /\ About(Closed(l)) = l /\ About(Settled(l)) = l
         /\ Closed(l) # Settled(l)
    /\ \A n \in 1..MaxChanges : Changed(n) \in Events /\ About(Changed(n)) \notin Links
    /\ \A e \in Events : About(e) \in Links =>
         e = Closed(About(e)) \/ e = Settled(About(e))
BY PaymentsAssumption DEF Events, Closed, Settled, Changed, About

\* A change of the subscription is no event of a link.
LEMMA ChangesApart ==
    ASSUME NEW n, NEW l \in Links
    PROVE  Changed(n) # Closed(l) /\ Changed(n) # Settled(l)
BY PaymentsAssumption DEF Closed, Settled, Changed

---------------------------------------------------------------------------
(* Type correctness.                                                       *)

\* What the transaction of a handler leaves behind.
LEMMA ApplyType ==
    ASSUME TypeOK, NEW h \in Handlers, handler[h].at = "read", Applies(h), Apply(h)
    PROVE  /\ inbox' \in [Events -> Row]
           /\ attempt' \in [Links -> {"none", "creating", "open", "failed", "expired", "completed"}]
           /\ recorded' \in [Links -> Nat]
           /\ paid' \in 0..Due
           /\ projected' \in 0..MaxChanges
<1>. USE Amounts, PaymentsAssumption
<1>. DEFINE l == About(handler[h].event)
<1>1. inbox' \in [Events -> Row]
  BY DEF Apply, TypeOK, Row
<1>2. handler[h].version \in 0..MaxChanges
  BY DEF TypeOK, Work
<1>3. CASE l \notin Links
  BY <1>1, <1>2, <1>3 DEF Apply, TypeOK
<1>4. CASE l \in Links /\ handler[h].seen = "expired"
  BY <1>1, <1>4 DEF Apply, TypeOK, AttemptIs, IsPaid
<1>5. CASE l \in Links /\ IsPaid(h) /\ handler[h].seen # "expired"
  <2>1. Registers(l) /\ attempt' = [attempt EXCEPT ![l] = "completed"] /\ Register(l)
    BY <1>5 DEF Applies, Apply, AttemptIs
  <2>2. recorded' \in [Links -> Nat] /\ paid' \in 0..Due
    BY <2>1, <1>5 DEF Registers, Register, TypeOK
  <2>. QED
    BY <1>1, <1>5, <2>1, <2>2 DEF Apply, TypeOK
<1>6. CASE l \in Links /\ ~IsPaid(h) /\ handler[h].seen # "expired"
  BY <1>1, <1>6 DEF Apply, TypeOK
<1>. QED
  BY <1>3, <1>4, <1>5, <1>6

\* Every step keeps the types; a payment never exceeds what is due.
LEMMA TypeStep == TypeOK /\ [Next]_vars => TypeOK'
<1>. SUFFICES ASSUME TypeOK, [Next]_vars
     PROVE  TypeOK'
  OBVIOUS

<1>. USE Amounts, PaymentsAssumption
<1>1. ASSUME NEW l \in Links, RequestLink(l)
       PROVE  TypeOK'
  BY <1>1 DEF RequestLink, RequestGoes, TypeOK, links, stripe, books, Calm, Disturb, RequestSteps
<1>2. ASSUME NEW l \in Links, OpenSession(l)
       PROVE  TypeOK'
  BY <1>2, EventFacts DEF OpenSession, RequestGoes, SessionOpens, TypeOK, links, stripe, books, Calm, Disturb, RequestSteps, SessionStates
<1>3. ASSUME NEW l \in Links, Attach(l)
       PROVE  TypeOK'
  BY <1>3, EventFacts DEF Attach, RequestGoes, Attached, Pending, TypeOK, links, stripe, books, Calm, Disturb, RequestSteps, SessionStates
<1>4. ASSUME NEW l \in Links, ExpireSession(l)
       PROVE  TypeOK'
  BY <1>4, EventFacts DEF ExpireSession, RequestGoes, Expires, Emit, TypeOK, links, stripe, books, Calm, Disturb, RequestSteps, SessionStates
<1>5. ASSUME NEW l \in Links, MarkCheckoutFailed(l)
       PROVE  TypeOK'
  BY <1>5, EventFacts DEF MarkCheckoutFailed, RequestGoes, Pending, TypeOK, links, stripe, books, Calm, Disturb, RequestSteps, SessionStates
<1>6. ASSUME NEW l \in Links, OpenSessionThrows(l)
       PROVE  TypeOK'
  BY <1>6, EventFacts DEF OpenSessionThrows, RequestGoes, SessionOpens, TypeOK, links, stripe, books, Calm, Disturb, RequestSteps, SessionStates
<1>7. ASSUME NEW l \in Links, AttachThrows(l)
       PROVE  TypeOK'
  BY <1>7, EventFacts DEF AttachThrows, RequestGoes, Attached, Pending, TypeOK, links, stripe, books, Calm, Disturb, RequestSteps, SessionStates
<1>8. ASSUME NEW l \in Links, ExpireSessionThrows(l)
       PROVE  TypeOK'
  BY <1>8, EventFacts DEF ExpireSessionThrows, RequestGoes, TypeOK, links, stripe, books, Calm, Disturb, RequestSteps, SessionStates
<1>9. ASSUME NEW l \in Links, AbandonLink(l)
       PROVE  TypeOK'
  BY <1>9, EventFacts DEF AbandonLink, RequestGoes, TypeOK, links, stripe, books, Calm, Disturb, RequestSteps, SessionStates
<1>10. ASSUME NEW l \in Links, Pay(l)
       PROVE  TypeOK'
  BY <1>10, EventFacts DEF Pay, Emit, TypeOK, links, stripe, books, Calm, Disturb, SessionStates
<1>11. ASSUME NEW l \in Links, Settle(l)
       PROVE  TypeOK'
  BY <1>11, EventFacts DEF Settle, Emit, TypeOK, links, stripe, books, Calm, Disturb, SessionStates
<1>12. ASSUME NEW l \in Links, SessionExpires(l)
       PROVE  TypeOK'
  BY <1>12, EventFacts DEF SessionExpires, Expires, Emit, TypeOK, links, stripe, books, Calm, Disturb, SessionStates
<1>13. ASSUME NEW amount \in 1..Due, PayByHand(amount)
       PROVE  TypeOK'
  BY <1>13 DEF PayByHand, TypeOK, links, stripe, books, Calm, Disturb, Work, Idle, SessionStates
<1>14. ASSUME ChangeSubscription
       PROVE  TypeOK'
  BY <1>14, EventFacts DEF ChangeSubscription, Emit, TypeOK, links, stripe, books, Calm, Disturb
<1>15. ASSUME NEW e \in Events, GoesStale(e)
       PROVE  TypeOK'
  BY <1>15 DEF GoesStale, TypeOK, links, stripe, books, Calm, Disturb, Work, Row, Idle, SessionStates
<1>16. ASSUME NEW h \in Handlers, NEW e \in Events, Claim(h, e)
       PROVE  TypeOK'
  <2>1. handler' \in [Handlers -> Work]
    <3>1. Taking(e) \in Work
      BY DEF Taking, Work, SessionStates
    <3>. QED
      BY <1>16, <3>1 DEF Claim, TypeOK
  <2>2. inbox' \in [Events -> Row]
    BY <1>16 DEF Claim, TypeOK, Row
  <2>. QED
    BY <1>16, <2>1, <2>2 DEF Claim, TypeOK, links, stripe, books, Calm
<1>17. ASSUME NEW h \in Handlers, Read(h)
       PROVE  TypeOK'
  <2>. DEFINE topic == About(handler[h].event)
                read == IF topic \in Links THEN session[topic] ELSE "none"
  <2>1. read \in SessionStates /\ authority \in 0..MaxChanges
    BY DEF TypeOK, SessionStates
  <2>2. handler' \in [Handlers -> Work]
    <3>1. handler' = [handler EXCEPT ![h].at = "read", ![h].version = authority, ![h].seen = read]
      BY <1>17 DEF Read
    <3>. HIDE DEF read
    <3>. QED
      BY <2>1, <3>1 DEF TypeOK, Work
  <2>. QED
    BY <1>17, <2>2 DEF Read, TypeOK, links, stripe, books, Calm
<1>18. ASSUME NEW h \in Handlers, Reconcile(h)
       PROVE  TypeOK'
  <2>1. handler' \in [Handlers -> Work]
    BY <1>18 DEF Reconcile, Rest, TypeOK, Work, Idle, SessionStates
  <2>. QED
    BY <1>18, <2>1, ApplyType DEF Reconcile, TypeOK, stripe, Calm
<1>19. ASSUME NEW h \in Handlers, Refuse(h)
       PROVE  TypeOK'
  BY <1>19 DEF Refuse, HandlerGoes, TypeOK, links, stripe, books, Calm, Disturb, Work, Idle, SessionStates
<1>20. ASSUME NEW h \in Handlers, MarkWebhookFailed(h)
       PROVE  TypeOK'
  <2>1. handler' \in [Handlers -> Work]
    BY <1>20 DEF MarkWebhookFailed, Rest, TypeOK, Work, Idle, SessionStates
  <2>2. inbox' \in [Events -> Row]
    BY <1>20 DEF MarkWebhookFailed, TypeOK, Row
  <2>. QED
    BY <1>20, <2>1, <2>2 DEF MarkWebhookFailed, TypeOK, links, stripe, books, Calm
<1>21. ASSUME NEW h \in Handlers, Throws(h)
       PROVE  TypeOK'
  BY <1>21, ApplyType DEF Throws, HandlerGoes, TypeOK, links, stripe, books, Calm, Disturb, Work, Idle
<1>22. ASSUME NEW h \in Handlers, Crash(h)
       PROVE  TypeOK'
  BY <1>22 DEF Crash, Rest, TypeOK, links, stripe, books, Calm, Disturb, Work, Idle, SessionStates
<1>23. CASE UNCHANGED vars
  BY <1>23 DEF TypeOK, vars, links, stripe, books
<1>. QED
  BY <1>1, <1>2, <1>3, <1>4, <1>5, <1>6, <1>7, <1>8, <1>9, <1>10, <1>11, <1>12, <1>13, <1>14, <1>15, <1>16, <1>17, <1>18, <1>19, <1>20, <1>21, <1>22, <1>23
  DEF Next, LinkStep, World, HandlerStep, Fault

---------------------------------------------------------------------------
(* What a step does to the sessions, to a handler, to the books.           *)

Same(l) ==
    /\ session'[l] = session[l]
    /\ Closed(l) \in emitted' <=> Closed(l) \in emitted
    /\ Settled(l) \in emitted' <=> Settled(l) \in emitted

Opens(l) ==
    /\ session[l] = "none" /\ session'[l] = "open"
    /\ Closed(l) \in emitted' <=> Closed(l) \in emitted
    /\ Settled(l) \in emitted' <=> Settled(l) \in emitted

Closes(l) ==
    /\ session[l] = "open" /\ session'[l] \in {"unpaid", "paid", "expired"}
    /\ Closed(l) \in emitted'
    /\ Settled(l) \in emitted' <=> Settled(l) \in emitted

Settles(l) ==
    /\ session[l] = "unpaid" /\ session'[l] \in {"unpaid", "paid"}
    /\ Settled(l) \notin emitted /\ Settled(l) \in emitted'
    /\ Closed(l) \in emitted' <=> Closed(l) \in emitted

SessionMove(l) == Same(l) \/ Opens(l) \/ Closes(l) \/ Settles(l)

SessionMoves == emitted \subseteq emitted' /\ \A l \in Links : SessionMove(l)

\* Every step leaves a session, opens, closes or settles it.
LEMMA SessionStep == TypeOK /\ Fresh /\ [Next]_vars => SessionMoves
<1>. SUFFICES ASSUME TypeOK, Fresh, [Next]_vars
     PROVE  SessionMoves
  OBVIOUS
<1>0. (session' = session /\ emitted' = emitted) => SessionMoves
  BY DEF SessionMoves, SessionMove, Same
<1>1. ASSUME NEW l \in Links, RequestLink(l)
       PROVE  SessionMoves
  BY <1>1, <1>0 DEF RequestLink, stripe
<1>2. ASSUME NEW l \in Links, OpenSession(l)
       PROVE  SessionMoves
  BY <1>2, <1>0 DEF OpenSession, RequestGoes, SessionOpens, TypeOK, Fresh, SessionMoves, SessionMove, Same, Opens
<1>3. ASSUME NEW l \in Links, Attach(l)
       PROVE  SessionMoves
  BY <1>3, <1>0 DEF Attach, stripe
<1>4. ASSUME NEW l \in Links, ExpireSession(l)
       PROVE  SessionMoves
  BY <1>4, <1>0, EventFacts DEF ExpireSession, RequestGoes, Expires, Emit, TypeOK, SessionMoves, SessionMove, Same, Closes
<1>5. ASSUME NEW l \in Links, MarkCheckoutFailed(l)
       PROVE  SessionMoves
  BY <1>5, <1>0 DEF MarkCheckoutFailed, stripe
<1>6. ASSUME NEW l \in Links, OpenSessionThrows(l)
       PROVE  SessionMoves
  BY <1>6, <1>0 DEF OpenSessionThrows, RequestGoes, SessionOpens, TypeOK, Fresh, SessionMoves, SessionMove, Same, Opens
<1>7. ASSUME NEW l \in Links, AttachThrows(l)
       PROVE  SessionMoves
  BY <1>7, <1>0 DEF AttachThrows, stripe
<1>8. ASSUME NEW l \in Links, ExpireSessionThrows(l)
       PROVE  SessionMoves
  BY <1>8, <1>0 DEF ExpireSessionThrows, stripe
<1>9. ASSUME NEW l \in Links, AbandonLink(l)
       PROVE  SessionMoves
  BY <1>9, <1>0 DEF AbandonLink, stripe
<1>10. ASSUME NEW l \in Links, Pay(l)
       PROVE  SessionMoves
  BY <1>10, EventFacts DEF Pay, Emit, TypeOK, SessionMoves, SessionMove, Same, Closes
<1>11. ASSUME NEW l \in Links, Settle(l)
       PROVE  SessionMoves
  BY <1>11, EventFacts DEF Settle, Emit, TypeOK, SessionMoves, SessionMove, Same, Settles
<1>12. ASSUME NEW l \in Links, SessionExpires(l)
       PROVE  SessionMoves
  BY <1>12, <1>0, EventFacts DEF SessionExpires, Expires, Emit, TypeOK, SessionMoves, SessionMove, Same, Closes
<1>13. ASSUME NEW amount \in 1..Due, PayByHand(amount)
       PROVE  SessionMoves
  BY <1>13, <1>0 DEF PayByHand, stripe
<1>14. ASSUME ChangeSubscription
       PROVE  SessionMoves
  BY <1>14, EventFacts, ChangesApart DEF ChangeSubscription, Emit, TypeOK, SessionMoves, SessionMove, Same
<1>15. ASSUME NEW e \in Events, GoesStale(e)
       PROVE  SessionMoves
  BY <1>15, <1>0 DEF GoesStale, stripe
<1>16. ASSUME NEW h \in Handlers, NEW e \in Events, Claim(h, e)
       PROVE  SessionMoves
  BY <1>16, <1>0 DEF Claim, stripe
<1>17. ASSUME NEW h \in Handlers, Read(h)
       PROVE  SessionMoves
  BY <1>17, <1>0 DEF Read, stripe
<1>18. ASSUME NEW h \in Handlers, Reconcile(h)
       PROVE  SessionMoves
  BY <1>18, <1>0 DEF Reconcile, stripe
<1>19. ASSUME NEW h \in Handlers, Refuse(h)
       PROVE  SessionMoves
  BY <1>19, <1>0 DEF Refuse, stripe
<1>20. ASSUME NEW h \in Handlers, MarkWebhookFailed(h)
       PROVE  SessionMoves
  BY <1>20, <1>0 DEF MarkWebhookFailed, stripe
<1>21. ASSUME NEW h \in Handlers, Throws(h)
       PROVE  SessionMoves
  BY <1>21, <1>0 DEF Throws, stripe
<1>22. ASSUME NEW h \in Handlers, Crash(h)
       PROVE  SessionMoves
  BY <1>22, <1>0 DEF Crash, stripe
<1>23. CASE UNCHANGED vars
  BY <1>23, <1>0 DEF vars, stripe
<1>. QED
  BY <1>1, <1>2, <1>3, <1>4, <1>5, <1>6, <1>7, <1>8, <1>9, <1>10, <1>11, <1>12, <1>13, <1>14, <1>15, <1>16, <1>17, <1>18, <1>19, <1>20, <1>21, <1>22, <1>23
  DEF Next, LinkStep, World, HandlerStep, Fault

HandlerMove(h) ==
    \/ handler'[h] = handler[h]
    \/ handler'[h].at = "idle"
    \/ \E e \in emitted : handler'[h] = Taking(e)
    \/ /\ handler[h].at = "claimed" /\ handler'[h].at = "read"
       /\ handler'[h].event = handler[h].event
       /\ About(handler[h].event) \in Links =>
            handler'[h].seen = session[About(handler[h].event)]
       /\ session' = session /\ emitted' = emitted
    \/ /\ handler[h].at # "idle" /\ handler'[h].at = "threw"
       /\ handler'[h].event = handler[h].event

HandlerMoves == \A h \in Handlers : HandlerMove(h)

\* Every step moves each handler in one of these ways.
LEMMA HandlerMovesStep == TypeOK /\ [Next]_vars => HandlerMoves
<1>. SUFFICES ASSUME TypeOK, [Next]_vars
     PROVE  HandlerMoves
  OBVIOUS
<1>0. handler' = handler => HandlerMoves
  BY DEF HandlerMoves, HandlerMove
<1>1. ASSUME NEW l \in Links, RequestLink(l)
       PROVE  HandlerMoves
  BY <1>1, <1>0 DEF RequestLink
<1>2. ASSUME NEW l \in Links, OpenSession(l)
       PROVE  HandlerMoves
  BY <1>2, <1>0 DEF OpenSession
<1>3. ASSUME NEW l \in Links, Attach(l)
       PROVE  HandlerMoves
  BY <1>3, <1>0 DEF Attach
<1>4. ASSUME NEW l \in Links, ExpireSession(l)
       PROVE  HandlerMoves
  BY <1>4, <1>0 DEF ExpireSession
<1>5. ASSUME NEW l \in Links, MarkCheckoutFailed(l)
       PROVE  HandlerMoves
  BY <1>5, <1>0 DEF MarkCheckoutFailed
<1>6. ASSUME NEW l \in Links, OpenSessionThrows(l)
       PROVE  HandlerMoves
  BY <1>6, <1>0 DEF OpenSessionThrows
<1>7. ASSUME NEW l \in Links, AttachThrows(l)
       PROVE  HandlerMoves
  BY <1>7, <1>0 DEF AttachThrows
<1>8. ASSUME NEW l \in Links, ExpireSessionThrows(l)
       PROVE  HandlerMoves
  BY <1>8, <1>0 DEF ExpireSessionThrows
<1>9. ASSUME NEW l \in Links, AbandonLink(l)
       PROVE  HandlerMoves
  BY <1>9, <1>0 DEF AbandonLink
<1>10. ASSUME NEW l \in Links, Pay(l)
       PROVE  HandlerMoves
  BY <1>10, <1>0 DEF Pay
<1>11. ASSUME NEW l \in Links, Settle(l)
       PROVE  HandlerMoves
  BY <1>11, <1>0 DEF Settle
<1>12. ASSUME NEW l \in Links, SessionExpires(l)
       PROVE  HandlerMoves
  BY <1>12, <1>0 DEF SessionExpires
<1>13. ASSUME NEW amount \in 1..Due, PayByHand(amount)
       PROVE  HandlerMoves
  BY <1>13, <1>0 DEF PayByHand
<1>14. ASSUME ChangeSubscription
       PROVE  HandlerMoves
  BY <1>14, <1>0 DEF ChangeSubscription
<1>15. ASSUME NEW e \in Events, GoesStale(e)
       PROVE  HandlerMoves
  BY <1>15, <1>0 DEF GoesStale
<1>16. ASSUME NEW h \in Handlers, NEW e \in Events, Claim(h, e)
       PROVE  HandlerMoves
  BY <1>16 DEF Claim, TypeOK, HandlerMoves, HandlerMove
<1>17. ASSUME NEW h \in Handlers, Read(h)
       PROVE  HandlerMoves
  BY <1>17 DEF Read, TypeOK, Work, stripe, HandlerMoves, HandlerMove
<1>18. ASSUME NEW h \in Handlers, Reconcile(h)
       PROVE  HandlerMoves
  BY <1>18 DEF Reconcile, Rest, Idle, TypeOK, Work, HandlerMoves, HandlerMove
<1>19. ASSUME NEW h \in Handlers, Refuse(h)
       PROVE  HandlerMoves
  BY <1>19 DEF Refuse, HandlerGoes, TypeOK, Work, HandlerMoves, HandlerMove
<1>20. ASSUME NEW h \in Handlers, MarkWebhookFailed(h)
       PROVE  HandlerMoves
  BY <1>20 DEF MarkWebhookFailed, Rest, Idle, TypeOK, Work, HandlerMoves, HandlerMove
<1>21. ASSUME NEW h \in Handlers, Throws(h)
       PROVE  HandlerMoves
  BY <1>21 DEF Throws, HandlerGoes, TypeOK, Work, HandlerMoves, HandlerMove
<1>22. ASSUME NEW h \in Handlers, Crash(h)
       PROVE  HandlerMoves
  BY <1>22 DEF Crash, Rest, Idle, TypeOK, Work, HandlerMoves, HandlerMove
<1>23. CASE UNCHANGED vars
  BY <1>23, <1>0 DEF vars
<1>. QED
  BY <1>1, <1>2, <1>3, <1>4, <1>5, <1>6, <1>7, <1>8, <1>9, <1>10, <1>11, <1>12, <1>13, <1>14, <1>15, <1>16, <1>17, <1>18, <1>19, <1>20, <1>21, <1>22, <1>23
  DEF Next, LinkStep, World, HandlerStep, Fault

\* The transaction of a handler commits ...
Commits(h) ==
    /\ handler[h].at = "read" /\ Applies(h) /\ Apply(h)
    /\ UNCHANGED <<request, asked, stripe>>

\* ... or nothing is recorded nor processed.
Kept(e) ==
    \/ inbox'[e].status = inbox[e].status
    \/ /\ e \in emitted
       /\ inbox[e].status # "processed" /\ inbox'[e].status # "processed"

AttemptKept(l) ==
    \/ attempt'[l] = attempt[l]
    \/ attempt[l] # "completed" /\ attempt'[l] # "completed"

Elsewhere ==
    /\ recorded' = recorded
    /\ \A e \in Events : Kept(e)
    /\ \A l \in Links : AttemptKept(l)

BookMoves == Elsewhere \/ \E h \in Handlers : Commits(h)

\* Every step is the commit of a handler, or books nothing.
LEMMA BookStep == TypeOK /\ Fresh /\ Grounded /\ [Next]_vars => BookMoves
<1>. SUFFICES ASSUME TypeOK, Fresh, Grounded, [Next]_vars
     PROVE  BookMoves
  OBVIOUS
<1>0. (recorded' = recorded /\ inbox' = inbox /\ \A l \in Links : AttemptKept(l)) => BookMoves
  BY DEF BookMoves, Elsewhere, Kept
<1>a. (recorded' = recorded /\ attempt' = attempt /\ \A e \in Events : Kept(e)) => BookMoves
  BY DEF BookMoves, Elsewhere, AttemptKept
<1>1. ASSUME NEW l \in Links, RequestLink(l)
       PROVE  BookMoves
  BY <1>1, <1>0 DEF RequestLink, books, AttemptKept, TypeOK, Fresh
<1>2. ASSUME NEW l \in Links, OpenSession(l)
       PROVE  BookMoves
  BY <1>2, <1>0 DEF OpenSession, books, AttemptKept
<1>3. ASSUME NEW l \in Links, Attach(l)
       PROVE  BookMoves
  BY <1>3, <1>0 DEF Attach, Attached, Pending, books, AttemptKept, TypeOK
<1>4. ASSUME NEW l \in Links, ExpireSession(l)
       PROVE  BookMoves
  BY <1>4, <1>0 DEF ExpireSession, books, AttemptKept
<1>5. ASSUME NEW l \in Links, MarkCheckoutFailed(l)
       PROVE  BookMoves
  BY <1>5, <1>0 DEF MarkCheckoutFailed, Attached, Pending, books, AttemptKept, TypeOK
<1>6. ASSUME NEW l \in Links, OpenSessionThrows(l)
       PROVE  BookMoves
  BY <1>6, <1>0 DEF OpenSessionThrows, books, AttemptKept
<1>7. ASSUME NEW l \in Links, AttachThrows(l)
       PROVE  BookMoves
  BY <1>7, <1>0 DEF AttachThrows, Attached, Pending, books, AttemptKept, TypeOK
<1>8. ASSUME NEW l \in Links, ExpireSessionThrows(l)
       PROVE  BookMoves
  BY <1>8, <1>0 DEF ExpireSessionThrows, books, AttemptKept
<1>9. ASSUME NEW l \in Links, AbandonLink(l)
       PROVE  BookMoves
  BY <1>9, <1>0 DEF AbandonLink, books, AttemptKept
<1>10. ASSUME NEW l \in Links, Pay(l)
       PROVE  BookMoves
  BY <1>10, <1>0 DEF Pay, links, books, AttemptKept
<1>11. ASSUME NEW l \in Links, Settle(l)
       PROVE  BookMoves
  BY <1>11, <1>0 DEF Settle, links, books, AttemptKept
<1>12. ASSUME NEW l \in Links, SessionExpires(l)
       PROVE  BookMoves
  BY <1>12, <1>0 DEF SessionExpires, links, books, AttemptKept
<1>13. ASSUME NEW amount \in 1..Due, PayByHand(amount)
       PROVE  BookMoves
  BY <1>13, <1>0 DEF PayByHand, links, books, AttemptKept
<1>14. ASSUME ChangeSubscription
       PROVE  BookMoves
  BY <1>14, <1>0 DEF ChangeSubscription, links, books, AttemptKept
<1>15. ASSUME NEW e \in Events, GoesStale(e)
       PROVE  BookMoves
  BY <1>15, <1>a DEF GoesStale, links, books, Kept, TypeOK, Row
<1>16. ASSUME NEW h \in Handlers, NEW e \in Events, Claim(h, e)
       PROVE  BookMoves
  BY <1>16, <1>a DEF Claim, Claimable, links, books, Kept, TypeOK, Row
<1>17. ASSUME NEW h \in Handlers, Read(h)
       PROVE  BookMoves
  BY <1>17, <1>0 DEF Read, links, books, AttemptKept
<1>18. ASSUME NEW h \in Handlers, Reconcile(h)
       PROVE  BookMoves
  BY <1>18 DEF Reconcile, BookMoves, Commits
<1>19. ASSUME NEW h \in Handlers, Refuse(h)
       PROVE  BookMoves
  BY <1>19, <1>0 DEF Refuse, links, books, AttemptKept
<1>20. ASSUME NEW h \in Handlers, MarkWebhookFailed(h)
       PROVE  BookMoves
  BY <1>20, <1>a DEF MarkWebhookFailed, Finalisable, links, books, Kept, Grounded, TypeOK, Row
<1>21. ASSUME NEW h \in Handlers, Throws(h)
       PROVE  BookMoves
  <2>1. CASE UNCHANGED <<attempt, inbox, books>>
    BY <1>21, <2>1, <1>0 DEF books, AttemptKept
  <2>2. CASE handler[h].at = "read" /\ Applies(h) /\ Apply(h)
    BY <1>21, <2>2 DEF Throws, BookMoves, Commits
  <2>. QED
    BY <1>21, <2>1, <2>2 DEF Throws
<1>22. ASSUME NEW h \in Handlers, Crash(h)
       PROVE  BookMoves
  BY <1>22, <1>0 DEF Crash, links, books, AttemptKept
<1>23. CASE UNCHANGED vars
  BY <1>23, <1>0 DEF vars, links, books, AttemptKept
<1>. QED
  BY <1>1, <1>2, <1>3, <1>4, <1>5, <1>6, <1>7, <1>8, <1>9, <1>10, <1>11, <1>12, <1>13, <1>14, <1>15, <1>16, <1>17, <1>18, <1>19, <1>20, <1>21, <1>22, <1>23
  DEF Next, LinkStep, World, HandlerStep, Fault

---------------------------------------------------------------------------
(* The conjuncts of the invariant.                                         *)

\* A link that was not opened still has no session.
LEMMA FreshStep == TypeOK /\ Fresh /\ [Next]_vars => Fresh'
<1>. SUFFICES ASSUME TypeOK, Fresh, [Next]_vars
     PROVE  Fresh'
  OBVIOUS
<1>0. ASSUME NEW h \in Handlers, Applies(h), Apply(h), UNCHANGED <<request, session>>
      PROVE  Fresh'
  <2>1. \A l \in Links : attempt'[l] # attempt[l] => attempt[l] # "none"
    BY <1>0 DEF Applies, Apply, AttemptIs, IsPaid, TypeOK
  <2>. QED
    BY <1>0, <2>1 DEF Fresh
<1>1. ASSUME NEW l \in Links, RequestLink(l)
       PROVE  Fresh'
  BY <1>1 DEF RequestLink, RequestGoes, Fresh, TypeOK, links, stripe
<1>2. ASSUME NEW l \in Links, OpenSession(l)
       PROVE  Fresh'
  BY <1>2 DEF OpenSession, RequestGoes, SessionOpens, Fresh, TypeOK, links, stripe
<1>3. ASSUME NEW l \in Links, Attach(l)
       PROVE  Fresh'
  BY <1>3 DEF Attach, RequestGoes, Attached, Pending, Fresh, TypeOK, links, stripe
<1>4. ASSUME NEW l \in Links, ExpireSession(l)
       PROVE  Fresh'
  BY <1>4 DEF ExpireSession, RequestGoes, Expires, Emit, Fresh, TypeOK, links, stripe
<1>5. ASSUME NEW l \in Links, MarkCheckoutFailed(l)
       PROVE  Fresh'
  BY <1>5 DEF MarkCheckoutFailed, RequestGoes, Pending, Fresh, TypeOK, links, stripe
<1>6. ASSUME NEW l \in Links, OpenSessionThrows(l)
       PROVE  Fresh'
  BY <1>6 DEF OpenSessionThrows, RequestGoes, SessionOpens, Fresh, TypeOK, links, stripe
<1>7. ASSUME NEW l \in Links, AttachThrows(l)
       PROVE  Fresh'
  BY <1>7 DEF AttachThrows, RequestGoes, Attached, Pending, Fresh, TypeOK, links, stripe
<1>8. ASSUME NEW l \in Links, ExpireSessionThrows(l)
       PROVE  Fresh'
  BY <1>8 DEF ExpireSessionThrows, RequestGoes, Fresh, TypeOK, links, stripe
<1>9. ASSUME NEW l \in Links, AbandonLink(l)
       PROVE  Fresh'
  BY <1>9 DEF AbandonLink, RequestGoes, Fresh, TypeOK, links, stripe
<1>10. ASSUME NEW l \in Links, Pay(l)
       PROVE  Fresh'
  BY <1>10 DEF Pay, Emit, Fresh, TypeOK, links, stripe
<1>11. ASSUME NEW l \in Links, Settle(l)
       PROVE  Fresh'
  BY <1>11 DEF Settle, Emit, Fresh, TypeOK, links, stripe
<1>12. ASSUME NEW l \in Links, SessionExpires(l)
       PROVE  Fresh'
  BY <1>12 DEF SessionExpires, Expires, Emit, Fresh, TypeOK, links, stripe
<1>13. ASSUME NEW amount \in 1..Due, PayByHand(amount)
       PROVE  Fresh'
  BY <1>13 DEF PayByHand, Fresh, TypeOK, links, stripe
<1>14. ASSUME ChangeSubscription
       PROVE  Fresh'
  BY <1>14 DEF ChangeSubscription, Emit, Fresh, TypeOK, links, stripe
<1>15. ASSUME NEW e \in Events, GoesStale(e)
       PROVE  Fresh'
  BY <1>15 DEF GoesStale, Fresh, TypeOK, links, stripe
<1>16. ASSUME NEW h \in Handlers, NEW e \in Events, Claim(h, e)
       PROVE  Fresh'
  BY <1>16 DEF Claim, Idle, Claimable, Fresh, TypeOK, links, stripe
<1>17. ASSUME NEW h \in Handlers, Read(h)
       PROVE  Fresh'
  BY <1>17 DEF Read, Fresh, TypeOK, links, stripe
<1>18. ASSUME NEW h \in Handlers, Reconcile(h)
       PROVE  Fresh'
  BY <1>18, <1>0 DEF Reconcile, stripe
<1>19. ASSUME NEW h \in Handlers, Refuse(h)
       PROVE  Fresh'
  BY <1>19 DEF Refuse, HandlerGoes, Fresh, TypeOK, links, stripe
<1>20. ASSUME NEW h \in Handlers, MarkWebhookFailed(h)
       PROVE  Fresh'
  BY <1>20 DEF MarkWebhookFailed, Rest, Finalisable, Fresh, TypeOK, links, stripe
<1>21. ASSUME NEW h \in Handlers, Throws(h)
       PROVE  Fresh'
  <2>1. CASE UNCHANGED <<attempt, inbox, books>>
    BY <1>21, <2>1 DEF Throws, Fresh, stripe
  <2>2. CASE handler[h].at = "read" /\ Applies(h) /\ Apply(h)
    BY <1>21, <2>2, <1>0 DEF Throws, stripe
  <2>. QED
    BY <1>21, <2>1, <2>2 DEF Throws
<1>22. ASSUME NEW h \in Handlers, Crash(h)
       PROVE  Fresh'
  BY <1>22 DEF Crash, Rest, Fresh, TypeOK, links, stripe
<1>23. CASE UNCHANGED vars
  BY <1>23 DEF Fresh, vars, links, stripe
<1>. QED
  BY <1>1, <1>2, <1>3, <1>4, <1>5, <1>6, <1>7, <1>8, <1>9, <1>10, <1>11, <1>12, <1>13, <1>14, <1>15, <1>16, <1>17, <1>18, <1>19, <1>20, <1>21, <1>22, <1>23
  DEF Next, LinkStep, World, HandlerStep, Fault

\* A session moves with its events.
LEMMA AnnouncedStep == Announced /\ SessionMoves => Announced'
BY DEF Announced, SessionMoves, SessionMove, Same, Opens, Closes, Settles

\* A paid or expired session stays what it is; an unpaid one is announced.
LEMMA SessionStays ==
    ASSUME Announced, SessionMoves, NEW l \in Links
    PROVE  /\ session[l] \in {"paid", "expired"} => session'[l] = session[l]
           /\ Settled(l) \in emitted => session'[l] = session[l]
           /\ session[l] = "unpaid" => session'[l] = "unpaid" \/ Settled(l) \in emitted'
BY DEF Announced, SessionMoves, SessionMove, Same, Opens, Closes, Settles

\* What a handler has read outlasts the moves of its session.
LEMMA GroundedStep ==
    TypeOK /\ Announced /\ Grounded /\ SessionMoves /\ HandlerMoves => Grounded'
<1>. SUFFICES ASSUME TypeOK, Announced, Grounded, SessionMoves, HandlerMoves,
                     NEW h \in Handlers, handler'[h].at # "idle"
     PROVE  /\ handler'[h].event \in emitted'
            /\ \A l \in Links :
                 handler'[h].at = "read" /\ About(handler'[h].event) = l => ReadOf(h, l)'
  BY DEF Grounded
<1>0. emitted \subseteq emitted'
  BY DEF SessionMoves
<1>1. CASE handler'[h] = handler[h]
  <2>1. ASSUME NEW l \in Links, handler'[h].at = "read", About(handler'[h].event) = l
        PROVE  ReadOf(h, l)'
    BY <1>0, <1>1, <2>1, SessionStays DEF Grounded, ReadOf, Announced
  <2>. QED
    BY <1>0, <1>1, <2>1 DEF Grounded
<1>2. CASE \E e \in emitted : handler'[h] = Taking(e)
  BY <1>0, <1>2 DEF Taking
<1>3. CASE /\ handler[h].at = "claimed" /\ handler'[h].at = "read"
           /\ handler'[h].event = handler[h].event
           /\ About(handler[h].event) \in Links =>
                handler'[h].seen = session[About(handler[h].event)]
           /\ session' = session /\ emitted' = emitted
  <2>1. ASSUME NEW l \in Links, About(handler'[h].event) = l
        PROVE  ReadOf(h, l)'
    <3>1. handler'[h].event \in Events /\ handler'[h].event \in emitted
      BY <1>3 DEF Grounded, TypeOK
    <3>2. handler'[h].event = Closed(l) \/ handler'[h].event = Settled(l)
      BY <2>1, <3>1, EventFacts
    <3>3. handler'[h].seen = session[l] /\ session'[l] = session[l]
      BY <1>3, <2>1
    <3>4. session[l] \in {"unpaid", "paid", "expired"}
      BY <3>1, <3>2 DEF Announced
    <3>. QED
      BY <3>3, <3>4 DEF ReadOf
  <2>. QED
    BY <1>3, <2>1 DEF Grounded
<1>4. CASE handler[h].at # "idle" /\ handler'[h].at = "threw"
             /\ handler'[h].event = handler[h].event
  BY <1>0, <1>4 DEF Grounded
<1>. QED
  BY <1>1, <1>2, <1>3, <1>4 DEF HandlerMoves, HandlerMove

\* What a commit does, field by field.
LEMMA CommitEffect ==
    ASSUME TypeOK, Recorded, Grounded, NEW h \in Handlers, Commits(h)
    PROVE  /\ handler[h].event \in Events
           /\ inbox'[handler[h].event].status = "processed"
           /\ \A e \in Events : e # handler[h].event => inbox'[e] = inbox[e]
           /\ session' = session /\ emitted' = emitted
           /\ \A l \in Links :
                \/ /\ recorded'[l] = recorded[l] /\ attempt'[l] = attempt[l]
                   /\ About(handler[h].event) = l => handler[h].seen # "paid"
                \/ /\ About(handler[h].event) = l /\ handler[h].seen = "expired"
                   /\ attempt[l] # "completed" /\ attempt'[l] = "expired"
                   /\ recorded'[l] = recorded[l]
                \/ /\ About(handler[h].event) = l /\ handler[h].seen = "paid"
                   /\ attempt'[l] = "completed" /\ recorded'[l] = 1
<1>. DEFINE l == About(handler[h].event)
<1>0. handler[h].event \in Events
  BY DEF Commits, Grounded, TypeOK
<1>1. /\ inbox'[handler[h].event].status = "processed"
      /\ \A e \in Events : e # handler[h].event => inbox'[e] = inbox[e]
  BY <1>0 DEF Commits, Apply, TypeOK, Row
<1>2. session' = session /\ emitted' = emitted
  BY DEF Commits, stripe
<1>3. CASE l \notin Links
  BY <1>0, <1>1, <1>2, <1>3 DEF Commits, Apply
<1>4. CASE l \in Links /\ handler[h].seen = "expired"
  BY <1>0, <1>1, <1>2, <1>4 DEF Commits, Applies, Apply, AttemptIs, IsPaid, TypeOK
<1>5. CASE l \in Links /\ handler[h].seen = "paid"
  <2>1. attempt' = [attempt EXCEPT ![l] = "completed"] /\ Register(l)
    BY <1>5 DEF Commits, Apply, AttemptIs, IsPaid
  <2>2. recorded'[l] = 1 /\ \A m \in Links : m # l => recorded'[m] = recorded[m]
    BY <2>1, <1>5 DEF Register, TypeOK, Recorded, RecordedOnce
  <2>. QED
    BY <1>0, <1>1, <1>2, <1>5, <2>1, <2>2 DEF TypeOK
<1>6. CASE l \in Links /\ handler[h].seen \notin {"paid", "expired"}
  BY <1>0, <1>1, <1>2, <1>6 DEF Commits, Apply, IsPaid
<1>. QED
  BY <1>3, <1>4, <1>5, <1>6

\* A commit records a payment once, with its attempt.
LEMMA RecordedStep ==
    TypeOK /\ Announced /\ Recorded /\ Grounded /\ SessionMoves /\ BookMoves => Recorded'
<1>. SUFFICES ASSUME TypeOK, Announced, Recorded, Grounded, SessionMoves, BookMoves
     PROVE  Recorded'
  OBVIOUS
<1>1. CASE Elsewhere
  BY <1>1, SessionStays DEF Elsewhere, AttemptKept, Recorded, RecordedOnce
<1>2. ASSUME NEW h \in Handlers, Commits(h)
      PROVE  Recorded'
  <2>1. ASSUME NEW l \in Links, About(handler[h].event) = l, handler[h].seen = "paid"
        PROVE  session[l] = "paid"
    BY <1>2, <2>1 DEF Commits, Grounded, ReadOf
  <2>. QED
    BY <1>2, <2>1, CommitEffect DEF Recorded, RecordedOnce
<1>. QED
  BY <1>1, <1>2 DEF BookMoves

\* Only an event that was emitted gets into the inbox.
LEMMA ReceivedStep ==
    TypeOK /\ Recorded /\ Grounded /\ Received /\ SessionMoves /\ BookMoves => Received'
<1>. SUFFICES ASSUME TypeOK, Recorded, Grounded, Received, SessionMoves, BookMoves
     PROVE  Received'
  OBVIOUS
<1>0. emitted \subseteq emitted'
  BY DEF SessionMoves
<1>1. CASE Elsewhere
  BY <1>0, <1>1 DEF Elsewhere, Kept, Received
<1>2. ASSUME NEW h \in Handlers, Commits(h)
      PROVE  Received'
  <2>1. handler[h].event \in emitted
    BY <1>2 DEF Commits, Grounded
  <2>. QED
    BY <1>0, <1>2, <2>1, CommitEffect DEF Received
<1>. QED
  BY <1>1, <1>2 DEF BookMoves

\* A handler that commits without recording the payment acts on an event
\* that did not announce it.
LEMMA NoReceiptStep ==
    TypeOK /\ Announced /\ Recorded /\ Grounded /\ Received /\ NoReceiptBeforeRecord
      /\ SessionMoves /\ BookMoves => NoReceiptBeforeRecord'
<1>. SUFFICES ASSUME TypeOK, Announced, Recorded, Grounded, Received, NoReceiptBeforeRecord,
                     SessionMoves, BookMoves, NEW l \in Links,
                     session'[l] = "paid", Processed(PaymentEvent(l))'
     PROVE  recorded'[l] = 1
  BY DEF NoReceiptBeforeRecord
<1>0. PaymentEvent(l) \in Events /\ PaymentEvent(l)' \in Events
  BY EventFacts DEF PaymentEvent
<1>1. CASE Elsewhere
  <2>1. Processed(PaymentEvent(l)')
    BY <1>0, <1>1 DEF Elsewhere, Kept, Processed, PaymentEvent
  <2>2. PaymentEvent(l)' \in emitted
    BY <1>0, <2>1 DEF Received, Processed
  <2>3. session[l] = "paid" /\ PaymentEvent(l)' = PaymentEvent(l)
    <3>1. CASE Settled(l) \in emitted'
      BY <2>2, <3>1, SessionStays DEF PaymentEvent
    <3>2. CASE Settled(l) \notin emitted'
      BY <2>2, <3>2, SessionStays DEF PaymentEvent, Announced, SessionMoves, SessionMove, Same, Opens, Closes, Settles
    <3>. QED
      BY <3>1, <3>2
  <2>. QED
    BY <1>1, <2>1, <2>3 DEF Elsewhere, NoReceiptBeforeRecord
<1>2. ASSUME NEW h \in Handlers, Commits(h)
      PROVE  recorded'[l] = 1
  <2>0. session' = session /\ emitted' = emitted
    BY <1>2, CommitEffect
  <2>1. PaymentEvent(l)' = PaymentEvent(l) /\ session[l] = "paid"
    BY <2>0 DEF PaymentEvent
  <2>2. CASE handler[h].event # PaymentEvent(l)
    <3>1. Processed(PaymentEvent(l))
      BY <1>0, <1>2, <2>1, <2>2, CommitEffect DEF Processed
    <3>2. recorded[l] = 1
      BY <2>1, <3>1 DEF NoReceiptBeforeRecord
    <3>. QED
      BY <1>2, <3>2, CommitEffect
  <2>3. CASE handler[h].event = PaymentEvent(l)
    <3>1. About(handler[h].event) = l
      BY <2>3, EventFacts DEF PaymentEvent
    <3>2. ReadOf(h, l)
      BY <1>2, <3>1 DEF Commits, Grounded
    <3>3. handler[h].seen = "paid"
      BY <2>1, <2>3, <3>2, EventFacts DEF ReadOf, PaymentEvent
    <3>. QED
      BY <1>2, <3>1, <3>3, CommitEffect
  <2>. QED
    BY <2>2, <2>3
<1>. QED
  BY <1>1, <1>2 DEF BookMoves

---------------------------------------------------------------------------
(* The theorems.                                                           *)

\* At first nothing is asked for.
LEMMA InitHolds == Init => IInv
<1>. SUFFICES ASSUME Init
     PROVE  IInv
  OBVIOUS
<1>1. TypeOK
  BY Amounts, PaymentsAssumption DEF Init, TypeOK, RequestSteps, SessionStates, Row, Work, Idle
<1>2. Fresh /\ Announced /\ Recorded /\ Grounded /\ Received
  BY EventFacts DEF Init, Fresh, Announced, Recorded, RecordedOnce, Grounded, Received, Idle
<1>3. NoReceiptBeforeRecord
  BY DEF Init, NoReceiptBeforeRecord
<1>. QED
  BY <1>1, <1>2, <1>3 DEF IInv

\* The inductive invariant holds in every reachable state.
THEOREM PaymentsInvariance == Spec => []IInv
<1>1. IInv /\ [Next]_vars => IInv'
  <2>. SUFFICES ASSUME IInv, [Next]_vars
       PROVE  IInv'
    OBVIOUS
  <2>1. SessionMoves /\ HandlerMoves /\ BookMoves
    BY SessionStep, HandlerMovesStep, BookStep DEF IInv
  <2>2. TypeOK' /\ Fresh' /\ Announced'
    BY <2>1, TypeStep, FreshStep, AnnouncedStep DEF IInv
  <2>3. Recorded' /\ Grounded' /\ Received' /\ NoReceiptBeforeRecord'
    BY <2>1, RecordedStep, GroundedStep, ReceivedStep, NoReceiptStep DEF IInv
  <2>. QED
    BY <2>2, <2>3 DEF IInv
<1>. QED
  BY <1>1, InitHolds, PTL DEF Spec

\* Types: what the invoice received never exceeds what is due (RegisterPayment
\* under the invoice's lock).
THEOREM PaymentsTypes == Spec => []TypeOK
<1>1. IInv => TypeOK
  BY DEF IInv
<1>. QED
  BY <1>1, PaymentsInvariance, PTL

\* A session's payment is recorded at most once, with its attempt completed.
THEOREM PaymentsRecordedOnce == Spec => []RecordedOnce
<1>1. IInv => RecordedOnce
  BY DEF IInv, Recorded
<1>. QED
  BY <1>1, PaymentsInvariance, PTL

\* Stripe gets its receipt for a payment only once the payment is recorded.
THEOREM ReceiptMeansRecorded == Spec => []NoReceiptBeforeRecord
<1>1. IInv => NoReceiptBeforeRecord
  BY DEF IInv
<1>. QED
  BY <1>1, PaymentsInvariance, PTL

\* Neither a receipt nor a recorded payment is ever taken back.
THEOREM ReceiptsAreForGood == Spec => ReceiptsStay
<1>. DEFINE Stays == /\ \A e \in Events : Processed(e) => Processed(e)'
                    /\ \A l \in Links : recorded[l] <= recorded'[l]
<1>1. IInv /\ [Next]_vars => [Stays]_vars
  <2>. SUFFICES ASSUME IInv, [Next]_vars
       PROVE  Stays
    OBVIOUS
  <2>1. BookMoves
    BY BookStep DEF IInv
  <2>2. CASE Elsewhere
    BY <2>2 DEF Elsewhere, Kept, Processed, IInv, TypeOK
  <2>3. ASSUME NEW h \in Handlers, Commits(h)
        PROVE  Stays
    <3>1. \A l \in Links : recorded[l] \in Nat /\ recorded[l] <= 1
      BY DEF IInv, TypeOK, Recorded, RecordedOnce
    <3>2. \A l \in Links : recorded'[l] = recorded[l] \/ recorded'[l] = 1
      BY <2>3, CommitEffect DEF IInv
    <3>3. \A e \in Events : Processed(e) => Processed(e)'
      BY <2>3, CommitEffect DEF IInv, Processed
    <3>. QED
      BY <3>1, <3>2, <3>3
  <2>. QED
    BY <2>1, <2>2, <2>3 DEF BookMoves
<1>. QED
  BY <1>1, PaymentsInvariance, PTL DEF Spec, ReceiptsStay


---------------------------------------------------------------------------
(* Refinement: every step keeps the promise of RecordedPayment.            *)

Keeps == [Recording!PromiseNext]_<<stage, asked, paid, told>>

\* A step that commits nothing tells Stripe nothing either.
LEMMA ElsewhereTells ==
    ASSUME IInv, SessionMoves, Elsewhere
    PROVE  told' = told
<1>. SUFFICES ASSUME NEW l \in Links
     PROVE  (session'[l] = "paid" /\ Processed(PaymentEvent(l))')
              <=> (session[l] = "paid" /\ Processed(PaymentEvent(l)))
  BY DEF told
<1>0. PaymentEvent(l) \in Events /\ PaymentEvent(l)' \in Events
  BY EventFacts DEF PaymentEvent
<1>1. ASSUME session'[l] = "paid", Processed(PaymentEvent(l))'
      PROVE  session[l] = "paid" /\ Processed(PaymentEvent(l))
  <2>1. Processed(PaymentEvent(l)')
    BY <1>0, <1>1 DEF Elsewhere, Kept, Processed, PaymentEvent
  <2>2. PaymentEvent(l)' \in emitted
    BY <1>0, <2>1 DEF IInv, Received, Processed
  <2>3. CASE Settled(l) \in emitted'
    BY <1>1, <2>1, <2>2, <2>3, SessionStays DEF PaymentEvent, IInv
  <2>4. CASE Settled(l) \notin emitted'
    BY <1>1, <2>1, <2>2, <2>4, SessionStays
    DEF PaymentEvent, IInv, Announced, SessionMoves, SessionMove, Same, Opens, Closes, Settles
  <2>. QED
    BY <2>3, <2>4
<1>2. ASSUME session[l] = "paid", Processed(PaymentEvent(l))
      PROVE  session'[l] = "paid" /\ Processed(PaymentEvent(l))'
  <2>1. session'[l] = "paid" /\ PaymentEvent(l)' = PaymentEvent(l)
    BY <1>2 DEF SessionMoves, SessionMove, Same, Opens, Closes, Settles, PaymentEvent
  <2>. QED
    BY <1>0, <1>2, <2>1 DEF Elsewhere, Kept, Processed
<1>. QED
  BY <1>1, <1>2

\* A step that takes no payment and asks for none is a stutter.
LEMMA Silent ==
    ASSUME IInv, SessionMoves, Elsewhere, UNCHANGED <<asked, paid>>,
           \A l \in Links : session'[l] = "paid" <=> session[l] = "paid"
    PROVE  Keeps
<1>1. stage' = stage
  BY DEF stage, StageOf, Elsewhere
<1>. QED
  BY <1>1, ElsewhereTells DEF Keeps

\* The session of a link becomes paid.
LEMMA Taken ==
    ASSUME IInv, SessionMoves, Elsewhere, UNCHANGED <<asked, paid>>,
           NEW l \in Links, session[l] # "paid",
           session' = [session EXCEPT ![l] = "paid"]
    PROVE  Keeps
<1>1. recorded[l] = 0 /\ recorded' = recorded
  BY DEF IInv, TypeOK, Recorded, RecordedOnce, Elsewhere
<1>2. stage[l] = "none"
  BY <1>1 DEF stage, StageOf
<1>3. stage' = [stage EXCEPT ![l] = "taken"]
  <2>1. \A m \in Links : StageOf(m)' = IF m = l THEN "taken" ELSE StageOf(m)
    BY <1>1 DEF StageOf, IInv, TypeOK
  <2>. QED
    BY <2>1 DEF stage
<1>4. Recording!Take(l)
  BY <1>2, <1>3, ElsewhereTells DEF Recording!Take
<1>. QED
  BY <1>4 DEF Keeps, Recording!PromiseNext

\* The commit of a handler records, tells, or does both.
LEMMA Committed ==
    ASSUME IInv, IInv', SessionMoves, BookMoves, NEW h \in Handlers, Commits(h)
    PROVE  Keeps
<1>. DEFINE l == About(handler[h].event)
<1>. USE DEF IInv
<1>0. handler[h].event \in Events
  BY CommitEffect
<1>1. session' = session /\ emitted' = emitted /\ asked' = asked
  BY DEF Commits, stripe
<1>2. \A m \in Links : PaymentEvent(m)' = PaymentEvent(m) /\ PaymentEvent(m) \in Events
  BY <1>1, EventFacts DEF PaymentEvent
<1>3. \A m \in Links : m # l => (Processed(PaymentEvent(m))' <=> Processed(PaymentEvent(m)))
  <2>. SUFFICES ASSUME NEW m \in Links, m # l
       PROVE  Processed(PaymentEvent(m))' <=> Processed(PaymentEvent(m))
    OBVIOUS
  <2>1. PaymentEvent(m) # handler[h].event
    BY EventFacts DEF PaymentEvent
  <2>. QED
    BY <1>2, <2>1, CommitEffect DEF Processed
<1>4. \A m \in Links : Processed(PaymentEvent(m)) => Processed(PaymentEvent(m))'
  BY <1>2, CommitEffect DEF Processed
<1>5. told' \in {told, told \cup {l}} /\ (told' # told => l \in Links /\ l \in told')
  BY <1>1, <1>3, <1>4 DEF told
<1>6. l \in told' => recorded'[l] = 1
  BY DEF told, NoReceiptBeforeRecord
<1>7. CASE recorded' = recorded /\ paid' = paid
  <2>1. stage' = stage
    BY <1>1, <1>7 DEF stage, StageOf
  <2>2. CASE told' = told
    BY <1>1, <1>7, <2>1, <2>2 DEF Keeps
  <2>3. CASE told' # told
    <3>1. stage[l] = "recorded" /\ l \in Links
      BY <1>5, <1>6, <1>7, <2>3 DEF stage, StageOf
    <3>2. Recording!Tell(l)
      BY <1>1, <1>5, <1>7, <2>1, <2>3, <3>1 DEF Recording!Tell
    <3>. QED
      BY <3>1, <3>2 DEF Keeps, Recording!PromiseNext
  <2>. QED
    BY <2>2, <2>3
<1>8. CASE ~(recorded' = recorded /\ paid' = paid)
  <2>1. l \in Links /\ handler[h].seen = "paid" /\ recorded[l] = 0
    BY <1>8 DEF Commits, Apply, Register, IsPaid, TypeOK
  <2>2. /\ recorded' = [recorded EXCEPT ![l] = recorded[l] + 1]
        /\ paid' = paid + asked[l] /\ asked[l] <= Due - paid
    BY <2>1 DEF Commits, Applies, Apply, Register, Registers, IsPaid
  <2>3. session[l] = "paid"
    BY <2>1 DEF Commits, Grounded, ReadOf
  <2>4. stage[l] = "taken" /\ stage' = [stage EXCEPT ![l] = "recorded"]
    <3>1. \A m \in Links : StageOf(m)' = IF m = l THEN "recorded" ELSE StageOf(m)
      BY <1>1, <2>1, <2>2 DEF StageOf, TypeOK
    <3>2. StageOf(l) = "taken"
      BY <2>1, <2>3 DEF StageOf
    <3>. QED
      BY <2>1, <3>1, <3>2 DEF stage
  <2>5. paid + asked[l] <= Due
    BY <2>1, <2>2, Amounts DEF TypeOK
  <2>6. Recording!Record(l)
    BY <1>1, <1>5, <2>2, <2>4, <2>5 DEF Recording!Record
  <2>. QED
    BY <2>1, <2>6 DEF Keeps, Recording!PromiseNext
<1>. QED
  BY <1>7, <1>8

\* Every step is one of RecordedPayment's or a stutter.
LEMMA PromiseStep == IInv /\ IInv' /\ [Next]_vars => Keeps
<1>. SUFFICES ASSUME IInv, IInv', [Next]_vars
     PROVE  Keeps
  OBVIOUS
<1>0. SessionMoves /\ BookMoves
  BY SessionStep, BookStep DEF IInv
<1>a. ASSUME UNCHANGED <<asked, paid>>, \A l \in Links : session'[l] = "paid" <=> session[l] = "paid"
      PROVE  Keeps
  BY <1>0, <1>a, Silent, Committed DEF BookMoves
<1>1. ASSUME NEW l \in Links, RequestLink(l)
       PROVE  Keeps
  <2>1. Net - paid \in 1..Due /\ stage[l] = "none"
    BY <1>1, Amounts DEF RequestLink, stage, StageOf, IInv, TypeOK, Fresh, Recorded, RecordedOnce
  <2>2. recorded' = recorded /\ session' = session /\ paid' = paid /\ inbox' = inbox /\ emitted' = emitted
    BY <1>1 DEF RequestLink, stripe, books
  <2>3. stage' = stage /\ told' = told
    BY <2>2 DEF stage, StageOf, told, Processed, PaymentEvent
  <2>4. Recording!Ask(l)
    BY <1>1, <2>1, <2>2, <2>3 DEF RequestLink, Recording!Ask
  <2>. QED
    BY <2>4 DEF Keeps, Recording!PromiseNext
<1>2. ASSUME NEW l \in Links, OpenSession(l)
       PROVE  Keeps
  BY <1>2, <1>a DEF OpenSession, RequestGoes, SessionOpens, links, books, stripe, IInv, TypeOK, Fresh
<1>3. ASSUME NEW l \in Links, Attach(l)
       PROVE  Keeps
  BY <1>3, <1>a DEF Attach, RequestGoes, Attached, Pending, links, books, stripe, IInv, TypeOK, Fresh
<1>4. ASSUME NEW l \in Links, ExpireSession(l)
       PROVE  Keeps
  BY <1>4, <1>a DEF ExpireSession, RequestGoes, Expires, Emit, links, books, stripe, IInv, TypeOK, Fresh
<1>5. ASSUME NEW l \in Links, MarkCheckoutFailed(l)
       PROVE  Keeps
  BY <1>5, <1>a DEF MarkCheckoutFailed, RequestGoes, Pending, links, books, stripe, IInv, TypeOK, Fresh
<1>6. ASSUME NEW l \in Links, OpenSessionThrows(l)
       PROVE  Keeps
  BY <1>6, <1>a DEF OpenSessionThrows, RequestGoes, SessionOpens, links, books, stripe, IInv, TypeOK, Fresh
<1>7. ASSUME NEW l \in Links, AttachThrows(l)
       PROVE  Keeps
  BY <1>7, <1>a DEF AttachThrows, RequestGoes, Attached, Pending, links, books, stripe, IInv, TypeOK, Fresh
<1>8. ASSUME NEW l \in Links, ExpireSessionThrows(l)
       PROVE  Keeps
  BY <1>8, <1>a DEF ExpireSessionThrows, RequestGoes, links, books, stripe, IInv, TypeOK, Fresh
<1>9. ASSUME NEW l \in Links, AbandonLink(l)
       PROVE  Keeps
  BY <1>9, <1>a DEF AbandonLink, RequestGoes, links, books, stripe, IInv, TypeOK, Fresh
<1>10. ASSUME NEW l \in Links, Pay(l)
       PROVE  Keeps
  <2>1. Elsewhere /\ UNCHANGED <<asked, paid>>
    BY <1>10 DEF Pay, Elsewhere, Kept, AttemptKept, links, books
  <2>2. session' = session \/ session' = [session EXCEPT ![l] = "unpaid"]
          \/ session' = [session EXCEPT ![l] = "paid"]
    BY <1>10 DEF Pay
  <2>3. CASE session' = [session EXCEPT ![l] = "paid"]
    BY <1>10, <1>0, <2>1, <2>3, Taken DEF Pay
  <2>4. CASE session' # [session EXCEPT ![l] = "paid"]
    BY <1>10, <1>0, <2>1, <2>2, <2>4, Silent DEF Pay, IInv, TypeOK
  <2>. QED
    BY <2>3, <2>4
<1>11. ASSUME NEW l \in Links, Settle(l)
       PROVE  Keeps
  <2>1. Elsewhere /\ UNCHANGED <<asked, paid>>
    BY <1>11 DEF Settle, Elsewhere, Kept, AttemptKept, links, books
  <2>2. session' = session \/ session' = [session EXCEPT ![l] = "unpaid"]
          \/ session' = [session EXCEPT ![l] = "paid"]
    BY <1>11 DEF Settle
  <2>3. CASE session' = [session EXCEPT ![l] = "paid"]
    BY <1>11, <1>0, <2>1, <2>3, Taken DEF Settle
  <2>4. CASE session' # [session EXCEPT ![l] = "paid"]
    BY <1>11, <1>0, <2>1, <2>2, <2>4, Silent DEF Settle, IInv, TypeOK
  <2>. QED
    BY <2>3, <2>4
<1>12. ASSUME NEW l \in Links, SessionExpires(l)
       PROVE  Keeps
  BY <1>12, <1>a DEF SessionExpires, Expires, Emit, links, books, stripe, IInv, TypeOK, Fresh
<1>13. ASSUME NEW amount \in 1..Due, PayByHand(amount)
       PROVE  Keeps
  <2>1. /\ recorded' = recorded /\ session' = session /\ asked' = asked
        /\ inbox' = inbox /\ emitted' = emitted
    BY <1>13 DEF PayByHand, stripe, links
  <2>2. stage' = stage /\ told' = told
    BY <2>1 DEF stage, StageOf, told, Processed, PaymentEvent
  <2>3. paid' \in paid..Due
    BY <1>13, Amounts DEF PayByHand, IInv, TypeOK
  <2>4. Recording!ReceiveElsewhere
    BY <2>1, <2>2, <2>3 DEF Recording!ReceiveElsewhere
  <2>. QED
    BY <2>4 DEF Keeps, Recording!PromiseNext
<1>14. ASSUME ChangeSubscription
       PROVE  Keeps
  BY <1>14, <1>a DEF ChangeSubscription, Emit, links, books, stripe, IInv, TypeOK, Fresh
<1>15. ASSUME NEW e \in Events, GoesStale(e)
       PROVE  Keeps
  BY <1>15, <1>a DEF GoesStale, links, books, stripe, IInv, TypeOK, Fresh
<1>16. ASSUME NEW h \in Handlers, NEW e \in Events, Claim(h, e)
       PROVE  Keeps
  BY <1>16, <1>a DEF Claim, Idle, Claimable, links, books, stripe, IInv, TypeOK, Fresh
<1>17. ASSUME NEW h \in Handlers, Read(h)
       PROVE  Keeps
  BY <1>17, <1>a DEF Read, links, books, stripe, IInv, TypeOK, Fresh
<1>18. ASSUME NEW h \in Handlers, Reconcile(h)
       PROVE  Keeps
  BY <1>18, <1>0, Committed DEF Reconcile, Commits
<1>19. ASSUME NEW h \in Handlers, Refuse(h)
       PROVE  Keeps
  BY <1>19, <1>a DEF Refuse, HandlerGoes, links, books, stripe, IInv, TypeOK, Fresh
<1>20. ASSUME NEW h \in Handlers, MarkWebhookFailed(h)
       PROVE  Keeps
  BY <1>20, <1>a DEF MarkWebhookFailed, Rest, Finalisable, links, books, stripe, IInv, TypeOK, Fresh
<1>21. ASSUME NEW h \in Handlers, Throws(h)
       PROVE  Keeps
  <2>1. CASE UNCHANGED <<attempt, inbox, books>>
    BY <1>21, <2>1, <1>a DEF Throws, books, stripe
  <2>2. CASE handler[h].at = "read" /\ Applies(h) /\ Apply(h)
    BY <1>21, <2>2, <1>0, Committed DEF Throws, Commits
  <2>. QED
    BY <1>21, <2>1, <2>2 DEF Throws
<1>22. ASSUME NEW h \in Handlers, Crash(h)
       PROVE  Keeps
  BY <1>22, <1>a DEF Crash, Rest, links, books, stripe, IInv, TypeOK, Fresh
<1>23. CASE UNCHANGED vars
  BY <1>23, <1>a DEF vars, links, books, stripe
<1>. QED
  BY <1>1, <1>2, <1>3, <1>4, <1>5, <1>6, <1>7, <1>8, <1>9, <1>10, <1>11, <1>12, <1>13, <1>14, <1>15, <1>16, <1>17, <1>18, <1>19, <1>20, <1>21, <1>22, <1>23
  DEF Next, LinkStep, World, HandlerStep, Fault

\* The reconciliation keeps its promise: refinement of RecordedPayment.
THEOREM PaymentsKeepPromise == Spec => PaymentPromise
<1>1. Init => Recording!PromiseInit
  BY DEF Init, stage, StageOf, told, Recording!PromiseInit
<1>2. IInv /\ IInv' /\ [Next]_vars => [Recording!PromiseNext]_<<stage, asked, paid, told>>
  BY PromiseStep DEF Keeps
<1>. QED
  BY <1>1, <1>2, PaymentsInvariance, PTL DEF Spec, PaymentPromise, Recording!Promise

=============================================================================
