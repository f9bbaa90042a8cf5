---------------------------- MODULE QuoteBilling ----------------------------
(***************************************************************************)
(* The invoices drawn from one signed quote: a deposit, numbered           *)
(* situations and a final invoice that deducts them, each with at most one *)
(* total credit note.  Several requests run at once, each in its own READ  *)
(* COMMITTED transaction: a request reads what is committed at the moment  *)
(* of each statement, its own writes appear at its commit, and the row     *)
(* locks it took are held until then.                                      *)
(*                                                                         *)
(* Three authorities share the work: the use cases GenerateInvoiceFromQuote*)
(* and IssueInvoice, the repositories that lock and save, and the database *)
(* (unique indexes, foreign keys, the settlement trigger).                 *)
(***************************************************************************)
EXTENDS Naturals, FiniteSets, FiniteSetsExt

CONSTANTS Clients,        \* the requests in flight
          Market,         \* the signed total, in units of money
          DepositAmount,  \* what depositPct makes of it
          MaxSituations   \* bound on the order numbers of the situations

ASSUME ClientsAssumption == Clients # {}
ASSUME MarketAssumption == Market \in Nat \ {0} /\ DepositAmount \in 1..Market
ASSUME SituationsAssumption == MaxSituations \in Nat

VARIABLES quote,   \* the signed quote
          piece,   \* the committed invoices drawn from it
          counter, \* the last committed F- and A- numbers
          work     \* what each request is doing

vars == <<quote, piece, counter, work>>

(* A piece is named by its kind, a situation by its order number.          *)
Deposit == 0
Situations == 1..MaxSituations
Final == MaxSituations + 1
Calls == {Deposit} \cup Situations   \* what the final deducts
Pieces == Calls \cup {Final}

\* A kind is named by its first piece, until a situation has its number.
Kinds == {Deposit, 1, Final}

Statuses == {"none", "draft", "live"}
Numbers == 0..Cardinality(Pieces)   \* of each sequence, no number is lost

\* "live" stands for issued, partially paid, paid and late; ttc is what the
\* piece itself asks for: of a final, the market less what it deducts.
Piece == [status : Statuses, ttc : 0..Market, deducts : SUBSET Calls, number : Numbers,
          credit : Statuses, creditNumber : Numbers]

NoPiece == [status |-> "none", ttc |-> 0, deducts |-> {}, number |-> 0,
            credit |-> "none", creditNumber |-> 0]

\* The steps of a request: generating (checked, composed), or issuing the
\* piece in slot, or its credit note (locked, guarded, numbered, written).
IssueSteps == {"locked", "guarded", "numbered", "written"}
Work == [at : {"idle", "checked", "composed"} \cup IssueSteps, slot : Pieces,
         credit : BOOLEAN, ttc : 0..Market, deducts : SUBSET Calls, number : Numbers]

Idle == [at |-> "idle", slot |-> Deposit, credit |-> FALSE,
         ttc |-> 0, deducts |-> {}, number |-> 0]

---------------------------------------------------------------------------
(* What quoteBillingEngagement reads among the committed pieces.           *)

Credited(s) == piece[s].credit = "live"
Alive(s) == piece[s].status # "none" /\ ~Credited(s)
Emitted(s) == piece[s].status = "live" /\ ~Credited(s)

EngagedCalls == {s \in Calls : Alive(s)}
EmittedCalls == {s \in Calls : Emitted(s)}

\* The sum of their amounts, counted unit by unit.
Units(S) == {unit \in S \X (1..Market) : unit[2] <= piece[unit[1]].ttc}
Billed(S) == Cardinality(Units(S))

NextOrder == 1 + Max({0} \cup {s \in Situations : piece[s].status # "none"})

\* The withdrawal delay freezes what asks payment for work done.
Frozen(s) == quote.consumer /\ ~quote.early /\ quote.delayRuns /\ s # Deposit

\* An advance is not recovered from a professional.
AdvanceRefused(s, deducted) ==
    ~quote.consumer /\ (s = Deposit \/ (s = Final /\ Deposit \in deducted))

---------------------------------------------------------------------------
(* Row locks, read off what each request is doing.                         *)

\* FOR UPDATE on the piece, or on its credit note.
LocksRow(d, s, credit) ==
    work[d].at \in IssueSteps /\ work[d].slot = s /\ work[d].credit = credit

\* FOR SHARE on every sister, taken by the trigger when a final is written.
SharesSisters(d) == work[d].at = "written" /\ work[d].slot = Final /\ ~work[d].credit

\* The trigger locks the quote for a V2 credit note; situations are V1.
TakesQuoteLate(w) == w.credit /\ w.slot \notin Situations

LocksQuote(d) ==
    \/ work[d].at \in {"guarded", "numbered", "written"} /\ ~work[d].credit
    \/ work[d].at = "written" /\ TakesQuoteLate(work[d])

LocksCounter(d, credit) ==
    work[d].at \in {"numbered", "written"} /\ work[d].credit = credit

\* Mutant: the status is trusted without the row's lock.
RowUnlocked(s, credit) == TRUE

RowFree(s, credit) ==
    ~\E d \in Clients : LocksRow(d, s, credit) \/ (SharesSisters(d) /\ s # Final)
QuoteFree == ~\E d \in Clients : LocksQuote(d)

---------------------------------------------------------------------------
(* GenerateInvoiceFromQuote: nothing is locked, three reads then a save.   *)

\* The quote is read: signed, not withdrawn, not frozen for this kind.  An
\* existing deposit or final is returned as it is.
CheckQuote(c, kind) ==
    /\ work[c].at = "idle"
    /\ kind \in {Deposit, Final} => piece[kind].status = "none"
    /\ ~quote.retracted /\ ~Frozen(kind)
    /\ work' = [work EXCEPT ![c] = [Idle EXCEPT !.at = "checked", !.slot = kind]]
    /\ UNCHANGED <<quote, piece, counter>>

Composed(c, s, ttc, deducts) ==
    /\ work' = [work EXCEPT ![c] = [Idle EXCEPT !.at = "composed", !.slot = s,
                                                !.ttc = ttc, !.deducts = deducts]]
    /\ UNCHANGED <<quote, piece, counter>>

\* The sisters are read once, at another moment than the quote.
ComposeDeposit(c) ==
    /\ work[c].at = "checked" /\ work[c].slot = Deposit
    /\ ~Alive(Final) /\ ~AdvanceRefused(Deposit, {})
    /\ Composed(c, Deposit, DepositAmount, {})

\* A situation takes the next order number and a share of what is left,
\* the drafts counted in.
ComposeSituation(c) ==
    /\ work[c].at = "checked" /\ work[c].slot \in Situations
    /\ ~Alive(Final) /\ NextOrder \in Situations
    /\ \E ttc \in 1..Market :
        /\ Billed(EngagedCalls) + ttc <= Market
        /\ Composed(c, NextOrder, ttc, {})

\* The final deducts what is emitted; something must be left of the works.
ComposeFinal(c) ==
    /\ work[c].at = "checked" /\ work[c].slot = Final
    /\ Billed(EmittedCalls \cap Situations) < Market
    /\ ~AdvanceRefused(Final, EmittedCalls)
    /\ \E ttc \in 0..Market :
        /\ Billed(EmittedCalls) + ttc = Market
        /\ Composed(c, Final, ttc, EmittedCalls)

\* The insert waits for the quote row (foreign key); the unique indexes
\* refuse a second piece of the same name, and the request ends.
SaveDraft(c) ==
    /\ work[c].at = "composed" /\ QuoteFree
    /\ LET s == work[c].slot IN
       piece' = [piece EXCEPT ![s] =
           IF @.status # "none" THEN @
           ELSE [NoPiece EXCEPT !.status = "draft", !.ttc = work[c].ttc,
                                !.deducts = work[c].deducts]]
    /\ work' = [work EXCEPT ![c] = Idle]
    /\ UNCHANGED <<quote, counter>>

---------------------------------------------------------------------------
(* IssueInvoice of a piece: invoice row, quote row, counter, save.         *)

LockPiece(c, s) ==
    /\ work[c].at = "idle"
    /\ piece[s].status = "draft" /\ RowFree(s, FALSE)
    /\ work' = [work EXCEPT ![c] = [Idle EXCEPT !.at = "locked", !.slot = s]]
    /\ UNCHANGED <<quote, piece, counter>>

\* Mutant: the total is not counted again at the issue.
MayIssueUncounted(s) ==
    /\ ~quote.retracted /\ ~Frozen(s) /\ ~AdvanceRefused(s, piece[s].deducts)
    /\ s \in Calls => ~Emitted(Final)
    /\ s = Final => Market - piece[s].ttc = Billed(EmittedCalls)

\* The guards of the use case, on the sisters read behind the quote's lock.
MayIssue(s) ==
    /\ ~quote.retracted /\ ~Frozen(s) /\ ~AdvanceRefused(s, piece[s].deducts)
    /\ s \in Calls => /\ ~Emitted(Final)
                      /\ Billed(EmittedCalls \cup {s}) <= Market
    /\ s = Final => Market - piece[s].ttc = Billed(EmittedCalls)

LockQuote(c) ==
    /\ work[c].at = "locked" /\ ~work[c].credit
    /\ QuoteFree /\ MayIssue(work[c].slot)
    /\ work' = [work EXCEPT ![c].at = "guarded"]
    /\ UNCHANGED <<quote, piece, counter>>

\* Mutant: the number is allocated in a transaction of its own.
AllocateAtOnce(c) ==
    /\ work[c].at = IF work[c].credit THEN "locked" ELSE "guarded"
    /\ LET key == IF work[c].credit THEN "credit" ELSE "invoice" IN
       /\ counter' = [counter EXCEPT ![key] = @ + 1]
       /\ work' = [work EXCEPT ![c].at = "numbered", ![c].number = counter[key] + 1]
    /\ UNCHANGED <<quote, piece>>

\* Mutant: the counter is read without its lock.
AllocateUnlocked(c) ==
    /\ work[c].at = IF work[c].credit THEN "locked" ELSE "guarded"
    /\ LET last == IF work[c].credit THEN counter.credit ELSE counter.invoice IN
       work' = [work EXCEPT ![c].at = "numbered", ![c].number = last + 1]
    /\ UNCHANGED <<quote, piece, counter>>

\* The counter row is locked by the allocation, and rolled back with it.
Allocate(c) ==
    /\ work[c].at = IF work[c].credit THEN "locked" ELSE "guarded"
    /\ ~\E d \in Clients : LocksCounter(d, work[c].credit)
    /\ LET last == IF work[c].credit THEN counter.credit ELSE counter.invoice IN
       work' = [work EXCEPT ![c].at = "numbered", ![c].number = last + 1]
    /\ UNCHANGED <<quote, piece, counter>>

\* enforce_invoice_settlement_semantics_v2, of a piece that becomes live: a
\* final that was ever live refuses a deposit; the final waits for its
\* sisters' rows and must deduct exactly the emitted ones.
SettlementHolds(s) ==
    /\ s = Deposit => piece[Final].status # "live"
    /\ s = Final => piece[s].deducts = EmittedCalls

\* Mutant: the sisters are read without their locks.
SistersUnlocked(c) == TRUE

SistersFree(c) ==
    ~\E d \in Clients \ {c}, s \in Calls, credit \in BOOLEAN : LocksRow(d, s, credit)

WritePiece(c) ==
    /\ work[c].at = "numbered" /\ ~work[c].credit
    /\ work[c].slot = Final => SistersFree(c)
    /\ SettlementHolds(work[c].slot)
    /\ work' = [work EXCEPT ![c].at = "written"]
    /\ UNCHANGED <<quote, piece, counter>>

CommitPiece(c) ==
    /\ work[c].at = "written" /\ ~work[c].credit
    /\ piece' = [piece EXCEPT ![work[c].slot].status = "live",
                              ![work[c].slot].number = work[c].number]
    /\ counter' = [counter EXCEPT !.invoice = work[c].number]
    /\ work' = [work EXCEPT ![c] = Idle]
    /\ UNCHANGED quote

---------------------------------------------------------------------------
(* CreateCreditNote, and IssueInvoice of a credit note.                    *)

\* A draft credit note of a live piece; a second request finds the first.
CreateCreditNote(s) ==
    /\ piece[s].status = "live" /\ piece[s].credit = "none" /\ QuoteFree
    /\ piece' = [piece EXCEPT ![s].credit = "draft"]
    /\ UNCHANGED <<quote, counter, work>>

LockCreditNote(c, s) ==
    /\ work[c].at = "idle"
    /\ piece[s].credit = "draft" /\ RowFree(s, TRUE)
    /\ work' = [work EXCEPT ![c] = [Idle EXCEPT !.at = "locked", !.slot = s,
                                                !.credit = TRUE]]
    /\ UNCHANGED <<quote, piece, counter>>

\* Mutant: what a final deducts is credited like anything else.
CreditUnchecked(s) == TRUE

\* The trigger refuses to credit what a live final still deducts.
CreditAllowed(s) == ~(Emitted(Final) /\ s \in piece[Final].deducts)

WriteCreditNote(c) ==
    /\ work[c].at = "numbered" /\ work[c].credit
    /\ TakesQuoteLate(work[c]) => QuoteFree
    /\ CreditAllowed(work[c].slot)
    /\ work' = [work EXCEPT ![c].at = "written"]
    /\ UNCHANGED <<quote, piece, counter>>

CommitCreditNote(c) ==
    /\ work[c].at = "written" /\ work[c].credit
    /\ piece' = [piece EXCEPT ![work[c].slot].credit = "live",
                              ![work[c].slot].creditNumber = work[c].number]
    /\ counter' = [counter EXCEPT !.credit = work[c].number]
    /\ work' = [work EXCEPT ![c] = Idle]
    /\ UNCHANGED quote

---------------------------------------------------------------------------
(* What else happens to the rows.                                          *)

\* DeleteDraftInvoice reads the status again under the row's lock.
DeleteDraft(s) ==
    /\ piece[s].status = "draft" /\ RowFree(s, FALSE)
    /\ piece' = [piece EXCEPT ![s] = NoPiece]
    /\ UNCHANGED <<quote, counter, work>>

DeleteDraftCreditNote(s) ==
    /\ piece[s].credit = "draft" /\ RowFree(s, TRUE)
    /\ piece' = [piece EXCEPT ![s].credit = "none"]
    /\ UNCHANGED <<quote, counter, work>>

\* Mutant: the withdrawal does not wait for the quote.
ExerciseUnlocked ==
    /\ quote.consumer /\ quote.delayRuns /\ ~quote.retracted
    /\ quote' = [quote EXCEPT !.retracted = TRUE]
    /\ UNCHANGED <<piece, counter, work>>

\* ExerciseRetractation, one transaction under the quote's lock.
ExerciseRetractation ==
    /\ quote.consumer /\ quote.delayRuns /\ ~quote.retracted /\ QuoteFree
    /\ quote' = [quote EXCEPT !.retracted = TRUE]
    /\ UNCHANGED <<piece, counter, work>>

DelayPasses ==
    /\ quote.delayRuns
    /\ quote' = [quote EXCEPT !.delayRuns = FALSE]
    /\ UNCHANGED <<piece, counter, work>>

\* A refusal, a crash, a timeout or the victim of a deadlock: the request
\* ends and nothing it wrote is kept.
Rollback(c) ==
    /\ work[c].at # "idle"
    /\ work' = [work EXCEPT ![c] = Idle]
    /\ UNCHANGED <<quote, piece, counter>>

Init ==
    /\ \E consumer, early \in BOOLEAN :
        /\ early => consumer
        /\ quote = [consumer |-> consumer, early |-> early,
                    delayRuns |-> consumer, retracted |-> FALSE]
    /\ piece = [s \in Pieces |-> NoPiece]
    /\ counter = [invoice |-> 0, credit |-> 0]
    /\ work = [c \in Clients |-> Idle]

Generate(c) ==
    \/ \E kind \in Kinds : CheckQuote(c, kind)
    \/ ComposeDeposit(c) \/ ComposeSituation(c) \/ ComposeFinal(c)
    \/ SaveDraft(c)

Issue(c) ==
    \/ \E s \in Pieces : LockPiece(c, s) \/ LockCreditNote(c, s)
    \/ LockQuote(c) \/ Allocate(c)
    \/ WritePiece(c) \/ WriteCreditNote(c)
    \/ CommitPiece(c) \/ CommitCreditNote(c)

Next ==
    \/ \E c \in Clients : Generate(c) \/ Issue(c) \/ Rollback(c)
    \/ \E s \in Pieces : CreateCreditNote(s) \/ DeleteDraft(s) \/ DeleteDraftCreditNote(s)
    \/ ExerciseRetractation \/ DelayPasses

Spec == Init /\ [][Next]_vars

---------------------------------------------------------------------------
(* What must hold.                                                         *)

\* Every variable has its type.
TypeOK ==
    /\ quote \in [consumer : BOOLEAN, early : BOOLEAN, delayRuns : BOOLEAN, retracted : BOOLEAN]
    /\ piece \in [Pieces -> Piece]
    /\ counter \in [invoice : Numbers, credit : Numbers]
    /\ work \in [Clients -> Work]

\* The signed market is never billed beyond 100 %: what is emitted and not
\* credited stays within it, and makes it exactly once a final is emitted.
MarketBilledOnce ==
    /\ Billed(EmittedCalls) <= Market
    /\ Emitted(Final) => Billed(EmittedCalls) + piece[Final].ttc = Market

\* A final that stands deducts exactly the deposit and situations that
\* stand: none is issued, and none credited, behind its back.
FinalDeductsItsSisters ==
    Emitted(Final) => piece[Final].deducts = EmittedCalls

\* The F- and the A- numbers in use are 1, 2, ... without a gap or a double.
NumbersWithoutGap ==
    LET Issued == {s \in Pieces : piece[s].status = "live"}
        Notes == {s \in Pieces : Credited(s)}
    IN  /\ {piece[s].number : s \in Issued} = 1..Cardinality(Issued)
        /\ {piece[s].creditNumber : s \in Notes} = 1..Cardinality(Notes)

\* Once the client has withdrawn, no piece is issued any more; while the
\* delay freezes the works, neither a situation nor the final is.
NothingBilledAfterRetractation ==
    [][\A s \in Pieces : piece[s].status # "live" /\ piece'[s].status = "live" =>
            ~quote.retracted /\ ~Frozen(s)]_vars

\* What was issued is never deleted, renumbered or changed: it can only be
\* credited, once, under a number that stays.
LegalPiecesStay ==
    [][\A s \in Pieces :
        /\ piece[s].status = "live" =>
             \A field \in {"status", "ttc", "deducts", "number"} :
                piece'[s][field] = piece[s][field]
        /\ Credited(s) => piece'[s] = piece[s]]_vars

---------------------------------------------------------------------------
(* The promise these pieces make together: the billing of one market.      *)

MarketLedger == INSTANCE BilledMarket WITH
    called <- Billed(EmittedCalls),
    settled <- Emitted(Final),
    balance <- IF Emitted(Final) THEN piece[Final].ttc ELSE 0,
    withdrawn <- quote.retracted

\* Seen through what is emitted and not credited, the concurrent requests
\* bill one market, one step at a time.
MarketPromise == MarketLedger!Spec

---------------------------------------------------------------------------
(* What the comments of the code say, and the code does not keep.          *)

\* c cannot take its next step before d ends.
WaitsFor(c, d) ==
    /\ c # d
    /\ \/ work[c].at = "locked" /\ ~work[c].credit /\ LocksQuote(d)
       \/ /\ work[c].at = IF work[c].credit THEN "locked" ELSE "guarded"
          /\ LocksCounter(d, work[c].credit)
       \/ /\ work[c].at = "numbered" /\ ~work[c].credit /\ work[c].slot = Final
          /\ \E s \in Calls, credit \in BOOLEAN : LocksRow(d, s, credit)
       \/ work[c].at = "numbered" /\ TakesQuoteLate(work[c]) /\ LocksQuote(d)

\* "Ordre GLOBAL des verrous [...] jamais inversé (deadlock sinon)": no
\* requests wait for one another in a circle.
NoCircularWait ==
    ~\E Circle \in SUBSET Clients :
        Circle # {} /\ \A c \in Circle : \E d \in Circle : WaitsFor(c, d)

\* "dès qu'une facture FINALE vit sur ce devis, plus AUCUNE pièce d'appel
\* n'est générée", the draft of a final included.
NoCallBesideAFinal ==
    [][\A s \in Calls : piece[s].status = "none" /\ piece'[s].status = "draft" =>
            ~Alive(Final)]_vars

=============================================================================
