------------------------ MODULE MarketBilling_proofs ------------------------
(***************************************************************************)
(* Theorems about the amounts of QuoteBilling, for every set of requests,  *)
(* every market and every number of situations: the market is billed once, *)
(* and the concurrent requests keep the promise of BilledMarket.           *)
(***************************************************************************)
EXTENDS QuoteBilling_proofs

---------------------------------------------------------------------------
(* Sums of amounts, for any rows p of the pieces.                          *)

UnitsOf(p, S) == {unit \in S \X (1..Market) : unit[2] <= p[unit[1]].ttc}

Sum(p, S) == Cardinality(UnitsOf(p, S))

\* A sum is a natural number.
LEMMA SumType ==
    ASSUME NEW p \in [Pieces -> Piece], NEW S \in SUBSET Pieces
    PROVE  IsFiniteSet(UnitsOf(p, S)) /\ Sum(p, S) \in Nat
<1>1. IsFiniteSet(1..Market) /\ IsFiniteSet(S)
  <2>1. 1 \in Int /\ Market \in Int
    BY MarketAssumption
  <2> QED BY <2>1, FS_Interval, FS_Subset, PiecesFinite
<1>2. IsFiniteSet(S \X (1..Market))
  BY <1>1, FS_Product
<1>3. UnitsOf(p, S) \in SUBSET (S \X (1..Market))
  BY DEF UnitsOf
<1>4. IsFiniteSet(UnitsOf(p, S))
  BY <1>2, <1>3, FS_Subset
<1> QED BY <1>4, FS_CardinalityType DEF Sum

\* Nothing asks for nothing.
LEMMA SumEmpty == ASSUME NEW p PROVE Sum(p, {}) = 0
<1>1. UnitsOf(p, {}) = {}
  BY DEF UnitsOf
<1> QED BY <1>1, FS_EmptySet DEF Sum

\* One piece more adds its amount.
LEMMA SumAdd ==
    ASSUME NEW p \in [Pieces -> Piece], NEW S \in SUBSET Pieces,
           NEW s \in Pieces, s \notin S
    PROVE  Sum(p, S \cup {s}) = Sum(p, S) + p[s].ttc
<1> DEFINE n == p[s].ttc
           alone == {s} \X (1..n)
<1>1. n \in Nat /\ n <= Market
  BY MarketAssumption DEF Piece
<1>2. IsFiniteSet(alone) /\ Cardinality(alone) = n
  <2>1. IsFiniteSet(1..n) /\ Cardinality(1..n) = n
    BY <1>1, FS_Interval
  <2>2. IsFiniteSet({s}) /\ Cardinality({s}) = 1
    BY FS_Singleton
  <2> HIDE DEF n
  <2>3. IsFiniteSet(alone) /\ Cardinality(alone) = 1 * n
    BY <2>1, <2>2, FS_Product
  <2> QED BY <1>1, <2>3
<1>3. UnitsOf(p, S \cup {s}) = UnitsOf(p, S) \cup alone
  <2>1. ASSUME NEW unit
        PROVE  unit \in UnitsOf(p, S \cup {s}) <=> unit \in UnitsOf(p, S) \cup alone
    <3>1. unit \in alone <=> unit \in {s} \X (1..Market) /\ unit[2] <= n
      BY <1>1, MarketAssumption
    <3> QED BY <3>1 DEF UnitsOf
  <2> QED BY <2>1
<1>4. UnitsOf(p, S) \cap alone = {}
  BY DEF UnitsOf
<1>5. IsFiniteSet(UnitsOf(p, S)) /\ Sum(p, S) \in Nat
  BY SumType
<1> HIDE DEF alone
<1>6. Cardinality(UnitsOf(p, S) \cup alone)
        = Cardinality(UnitsOf(p, S)) + Cardinality(alone) - Cardinality(UnitsOf(p, S) \cap alone)
  BY <1>2, <1>5, FS_Union
<1>7. Cardinality(UnitsOf(p, S) \cap alone) = 0
  BY <1>4, FS_EmptySet
<1> HIDE DEF n
<1>8. Cardinality(UnitsOf(p, S) \cup alone) = Sum(p, S) + n
  <2>1. Sum(p, S) = Cardinality(UnitsOf(p, S))
    BY DEF Sum
  <2> QED BY <1>1, <1>2, <1>5, <1>6, <1>7, <2>1
<1>9. Sum(p, S \cup {s}) = Sum(p, S) + n
  BY <1>3, <1>8 DEF Sum
<1> QED BY <1>9 DEF n

\* Fewer pieces ask for less.
LEMMA SumMonotone ==
    ASSUME NEW p \in [Pieces -> Piece], NEW S \in SUBSET Pieces, NEW T \in SUBSET S
    PROVE  Sum(p, T) <= Sum(p, S)
<1>1. UnitsOf(p, T) \in SUBSET UnitsOf(p, S)
  BY DEF UnitsOf
<1> QED BY <1>1, SumType, FS_Subset DEF Sum

\* A sum reads nothing but the amounts of its pieces.
LEMMA SumSame ==
    ASSUME NEW p, NEW q, NEW S, \A s \in S : q[s].ttc = p[s].ttc
    PROVE  Sum(q, S) = Sum(p, S)
<1>1. UnitsOf(q, S) = UnitsOf(p, S)
  BY DEF UnitsOf
<1> QED BY <1>1 DEF Sum

\* What the requests bill is such a sum.
LEMMA BilledIsSum ==
    /\ \A S : Billed(S) = Sum(piece, S)
    /\ Billed(EmittedCalls)' = Sum(piece', EmittedCalls')
BY DEF Billed, Units, Sum, UnitsOf

---------------------------------------------------------------------------
(* What a step does to an amount.                                          *)

\* A draft is saved as a request composed it.
SavedBy(c, s) ==
    /\ work[c].at = "composed" /\ work[c].slot = s /\ piece[s].status = "none"
    /\ piece'[s].status = "draft"
    /\ piece'[s].ttc = work[c].ttc /\ piece'[s].deducts = work[c].deducts

Stays(s) ==
    /\ piece'[s].ttc = piece[s].ttc /\ piece'[s].deducts = piece[s].deducts
    /\ piece[s].status # "none"
    /\ piece[s].status = "live" => piece'[s].status = "live"

\* A piece is not there, keeps what it asks for, or has just been saved.
LEMMA RowMoves ==
    ASSUME Inv, [Next]_vars, NEW s \in Pieces
    PROVE  \/ piece[s].status # "live" /\ piece'[s].status = "none"
           \/ Stays(s)
           \/ \E c \in Clients : SavedBy(c, s)
<1> DEFINE Moves == \/ piece[s].status # "live" /\ piece'[s].status = "none"
                    \/ Stays(s)
                    \/ \E c \in Clients : SavedBy(c, s)
<1>0. piece \in [Pieces -> Piece] /\ work \in [Clients -> Work] /\ NoPiece.status = "none"
  BY DEF Inv, TypeOK, NoPiece
<1>1. CASE piece'[s] = piece[s]
  BY <1>0, <1>1 DEF Stays, Piece, Statuses
<1>2. ASSUME NEW c \in Clients, SaveDraft(c) PROVE Moves
  <2>1. CASE work[c].slot # s \/ piece[s].status # "none"
    BY <1>0, <1>1, <1>2, <2>1 DEF SaveDraft
  <2>2. CASE work[c].slot = s /\ piece[s].status = "none"
    <3>1. piece'[s] = [NoPiece EXCEPT !.status = "draft", !.ttc = work[c].ttc,
                                      !.deducts = work[c].deducts]
      BY <1>0, <1>2, <2>2 DEF SaveDraft
    <3>2. /\ piece'[s].status = "draft"
          /\ piece'[s].ttc = work[c].ttc /\ piece'[s].deducts = work[c].deducts
      BY <3>1 DEF NoPiece
    <3>3. work[c].at = "composed"
      BY <1>2 DEF SaveDraft
    <3> QED BY <2>2, <3>2, <3>3 DEF SavedBy
  <2> QED BY <2>1, <2>2
<1>3. ASSUME NEW c \in Clients, CommitPiece(c) PROVE Moves
  <2>1. work[c].slot \in Pieces /\ piece[work[c].slot].status = "draft"
    BY <1>0, <1>3 DEF Inv, Held, RowHeld, CommitPiece, IssueSteps, Work
  <2>2. CASE work[c].slot # s
    BY <1>1, <1>3, <2>2, CommitEffect
  <2>3. CASE work[c].slot = s
    BY <1>0, <1>3, <2>1, <2>3 DEF CommitPiece, Stays, Piece
  <2> QED BY <2>2, <2>3
<1>4. ASSUME NEW c \in Clients, CommitCreditNote(c) PROVE Moves
  <2>1. work[c].slot \in Pieces /\ piece[work[c].slot].status = "live"
    BY <1>0, <1>4 DEF Inv, Held, RowHeld, CommitCreditNote, IssueSteps, Work, CreditFollowsIssue
  <2>2. CASE work[c].slot # s
    BY <1>1, <1>4, <2>2, CommitEffect
  <2>3. CASE work[c].slot = s
    BY <1>0, <1>4, <2>1, <2>3 DEF CommitCreditNote, Stays, Piece
  <2> QED BY <2>2, <2>3
<1>5. ASSUME NEW c \in Clients, Generate(c) \/ Issue(c) \/ Rollback(c)
      PROVE  \/ piece' = piece \/ SaveDraft(c)
             \/ CommitPiece(c) \/ CommitCreditNote(c)
  BY <1>5 DEF Generate, Issue, Rollback, CheckQuote, ComposeDeposit, ComposeSituation,
              ComposeFinal, Composed, LockPiece, LockCreditNote, LockQuote, Allocate,
              WritePiece, WriteCreditNote
<1>6. ASSUME NEW t \in Pieces, CreateCreditNote(t) \/ DeleteDraftCreditNote(t) PROVE Moves
  <2>1. t # s => piece'[s] = piece[s]
    BY <1>0, <1>6 DEF CreateCreditNote, DeleteDraftCreditNote
  <2>2. piece[t].status = "live"
    BY <1>0, <1>6 DEF CreateCreditNote, DeleteDraftCreditNote, Inv, CreditFollowsIssue
  <2>3. CASE t = s
    <3>1. PICK draft \in {"draft", "none"} : piece' = [piece EXCEPT ![s].credit = draft]
      BY <1>6, <2>3 DEF CreateCreditNote, DeleteDraftCreditNote
    <3>2. piece'[s] = [piece[s] EXCEPT !.credit = draft]
      BY <1>0, <3>1
    <3> QED BY <1>0, <2>2, <2>3, <3>2 DEF Stays, Piece
  <2> QED BY <1>1, <2>1, <2>3
<1>7. ASSUME NEW t \in Pieces, DeleteDraft(t) PROVE Moves
  BY <1>0, <1>1, <1>7 DEF DeleteDraft
<1>8. CASE ExerciseRetractation \/ DelayPasses \/ UNCHANGED vars
  BY <1>1, <1>8 DEF ExerciseRetractation, DelayPasses, vars
<1> QED BY <1>1, <1>2, <1>3, <1>4, <1>5, <1>6, <1>7, <1>8 DEF Next

\* A request that has composed composes now, or stays as it is.
LEMMA ComposedMoves ==
    ASSUME Inv, [Next]_vars, NEW c \in Clients, work'[c].at = "composed"
    PROVE  \/ work'[c] = work[c]
           \/ ComposeDeposit(c) \/ ComposeSituation(c) \/ ComposeFinal(c)
<1>0. work \in [Clients -> Work]
  BY DEF Inv, TypeOK
<1>1. CASE work' = work
  BY <1>1
<1>2. ASSUME NEW d \in Clients, d # c, Generate(d) \/ Issue(d) \/ Rollback(d)
      PROVE  work'[c] = work[c]
  BY <1>0, <1>2 DEF Generate, Issue, Rollback, CheckQuote, ComposeDeposit, ComposeSituation,
                    ComposeFinal, Composed, SaveDraft, LockPiece, LockCreditNote, LockQuote,
                    Allocate, WritePiece, WriteCreditNote, CommitPiece, CommitCreditNote
<1>3. ASSUME Issue(c) PROVE FALSE
  <2>1. ASSUME NEW s \in Pieces, LockPiece(c, s) \/ LockCreditNote(c, s) PROVE FALSE
    BY <1>0, <2>1 DEF LockPiece, LockCreditNote, Idle
  <2>2. CASE LockQuote(c) \/ Allocate(c) \/ WritePiece(c) \/ WriteCreditNote(c)
    BY <1>0, <2>2 DEF LockQuote, Allocate, WritePiece, WriteCreditNote, Work
  <2>3. CASE CommitPiece(c) \/ CommitCreditNote(c)
    BY <1>0, <2>3 DEF CommitPiece, CommitCreditNote, Idle
  <2> QED BY <1>3, <2>1, <2>2, <2>3 DEF Issue
<1>4. ASSUME Rollback(c) \/ SaveDraft(c) PROVE FALSE
  BY <1>0, <1>4 DEF Rollback, SaveDraft, Idle
<1>5. ASSUME NEW kind \in Kinds, CheckQuote(c, kind) PROVE FALSE
  BY <1>0, <1>5 DEF CheckQuote, Idle
<1>6. ASSUME NEW s \in Pieces,
             CreateCreditNote(s) \/ DeleteDraft(s) \/ DeleteDraftCreditNote(s)
      PROVE  work' = work
  BY <1>6 DEF CreateCreditNote, DeleteDraft, DeleteDraftCreditNote
<1>7. CASE ExerciseRetractation \/ DelayPasses
  BY <1>1, <1>7 DEF ExerciseRetractation, DelayPasses
<1> QED BY <1>1, <1>2, <1>3, <1>4, <1>5, <1>6, <1>7 DEF Next, vars, Generate

---------------------------------------------------------------------------
(* What the amounts of a final rest on.                                    *)

\* What r deducts was issued, and r asks for what is left.
Balances(p, r) ==
    /\ \A s \in r.deducts : p[s].status = "live"
    /\ Sum(p, r.deducts) + r.ttc = Market

\* A final balances as soon as it is composed.
Balanced ==
    /\ piece[Final].status # "none" => Balances(piece, piece[Final])
    /\ \A c \in Clients :
        work[c].at = "composed" /\ work[c].slot = Final => Balances(piece, work[c])

\* A call asks for something.
Priced ==
    /\ \A s \in Calls : piece[s].status # "none" => piece[s].ttc > 0
    /\ \A c \in Clients :
        work[c].at = "composed" /\ work[c].slot \in Calls => work[c].ttc > 0

\* Behind the quote's lock, the call that is issued fits in the market.
Fits(c) ==
    work[c].at \in {"guarded", "numbered", "written"} /\ ~work[c].credit
        /\ work[c].slot \in Calls =>
            Sum(piece, EmittedCalls \cup {work[c].slot}) <= Market

AmountsInv ==
    /\ Inv /\ Priced /\ Balanced /\ \A c \in Clients : Fits(c)
    /\ Sum(piece, EmittedCalls) <= Market

\* Issued pieces stay issued, and their sum stays.
LEMMA LiveStay ==
    ASSUME Inv, [Next]_vars, NEW S, S \subseteq Pieces, \A s \in S : piece[s].status = "live"
    PROVE  /\ Sum(piece', S) = Sum(piece, S)
           /\ \A s \in S : piece'[s].status = "live"
<1>1. \A s \in S : Stays(s)
  BY RowMoves DEF SavedBy
<1>2. \A s \in S : piece'[s].ttc = piece[s].ttc /\ piece'[s].status = "live"
  BY <1>1 DEF Stays
<1> QED BY <1>2, SumSame

\* A balance stays.
LEMMA BalanceStays ==
    ASSUME Inv, [Next]_vars, NEW r, r.deducts \subseteq Calls, Balances(piece, r),
           NEW q, q.deducts = r.deducts, q.ttc = r.ttc
    PROVE  Balances(piece', q)
<1>1. r.deducts \subseteq Pieces
  BY PieceNames
<1> QED BY <1>1, LiveStay DEF Balances

\* What stands was issued.
LEMMA EmittedLive ==
    /\ EmittedCalls \subseteq Calls /\ EmittedCalls \subseteq Pieces
    /\ \A s \in EmittedCalls : piece[s].status = "live"
BY PieceNames DEF EmittedCalls, Emitted

\* A composed request, as it is composed.
LEMMA ComposedNow ==
    ASSUME Inv, NEW c \in Clients, ComposeDeposit(c) \/ ComposeSituation(c) \/ ComposeFinal(c)
    PROVE  /\ piece' = piece
           /\ work'[c].slot \in Calls => work'[c].ttc > 0
           /\ work'[c].slot = Final => /\ work'[c].deducts = EmittedCalls
                                       /\ Sum(piece, EmittedCalls) + work'[c].ttc = Market
<1> USE PieceNames
<1>0. work \in [Clients -> Work]
  BY DEF Inv, TypeOK
<1>1. ASSUME NEW s, NEW ttc, NEW deducts, Composed(c, s, ttc, deducts)
      PROVE  piece' = piece /\ work'[c].slot = s /\ work'[c].ttc = ttc /\ work'[c].deducts = deducts
  BY <1>0, <1>1 DEF Composed, Idle
<1>2. CASE ComposeDeposit(c)
  <2>1. Composed(c, Deposit, DepositAmount, {})
    BY <1>2 DEF ComposeDeposit
  <2> QED BY <1>1, <2>1, MarketAssumption
<1>3. CASE ComposeSituation(c)
  <2>1. PICK ttc \in 1..Market : NextOrder \in Situations /\ Composed(c, NextOrder, ttc, {})
    BY <1>3 DEF ComposeSituation
  <2> QED BY <1>1, <2>1
<1>4. CASE ComposeFinal(c)
  <2>1. PICK ttc \in 0..Market : /\ Billed(EmittedCalls) + ttc = Market
                                 /\ Composed(c, Final, ttc, EmittedCalls)
    BY <1>4 DEF ComposeFinal
  <2> QED BY <1>1, <2>1, BilledIsSum
<1> QED BY <1>2, <1>3, <1>4

\* A call keeps asking for something.
LEMMA PricedStep == ASSUME Inv, Priced, [Next]_vars PROVE Priced'
<1>0. Calls \subseteq Pieces
  BY PieceNames
<1>1. ASSUME NEW s \in Calls, piece'[s].status # "none" PROVE piece'[s].ttc > 0
  <2>1. CASE Stays(s)
    BY <2>1 DEF Priced, Stays
  <2>2. ASSUME NEW c \in Clients, SavedBy(c, s) PROVE piece'[s].ttc > 0
    BY <2>2 DEF Priced, SavedBy
  <2> QED BY <1>0, <1>1, <2>1, <2>2, RowMoves
<1>2. ASSUME NEW c \in Clients, work'[c].at = "composed", work'[c].slot \in Calls
      PROVE  work'[c].ttc > 0
  <2>1. CASE work'[c] = work[c]
    BY <1>2, <2>1 DEF Priced
  <2> QED BY <1>2, <2>1, ComposedMoves, ComposedNow
<1> QED BY <1>1, <1>2 DEF Priced

\* A final keeps its balance.
LEMMA BalancedStep == ASSUME Inv, Balanced, [Next]_vars PROVE Balanced'
<1>0. /\ piece \in [Pieces -> Piece] /\ work \in [Clients -> Work]
      /\ Final \in Pieces /\ piece[Final].deducts \subseteq Calls
      /\ \A c \in Clients : work[c].deducts \subseteq Calls
  BY PieceNames DEF Inv, TypeOK, Piece, Work
<1>1. ASSUME piece'[Final].status # "none" PROVE Balances(piece', piece'[Final])
  <2>1. CASE Stays(Final)
    BY <1>0, <2>1, BalanceStays DEF Balanced, Stays
  <2>2. ASSUME NEW c \in Clients, SavedBy(c, Final) PROVE Balances(piece', piece'[Final])
    BY <1>0, <2>2, BalanceStays DEF Balanced, SavedBy
  <2> QED BY <1>0, <1>1, <2>1, <2>2, RowMoves
<1>2. ASSUME NEW c \in Clients, work'[c].at = "composed", work'[c].slot = Final
      PROVE  Balances(piece', work'[c])
  <2>1. CASE work'[c] = work[c]
    BY <1>0, <1>2, <2>1, BalanceStays DEF Balanced
  <2>2. CASE ComposeDeposit(c) \/ ComposeSituation(c) \/ ComposeFinal(c)
    BY <1>2, <2>2, ComposedNow, EmittedLive DEF Balances
  <2> QED BY <1>2, <2>1, <2>2, ComposedMoves
<1> QED BY <1>1, <1>2 DEF Balanced

---------------------------------------------------------------------------
(* What a step does to what stands.                                        *)

\* Between commits, what stands stays.
LEMMA NoCommit ==
    ASSUME Inv, [Next]_vars, \A c \in Clients : ~CommitPiece(c) /\ ~CommitCreditNote(c)
    PROVE  EmittedCalls' = EmittedCalls /\ (Emitted(Final)' <=> Emitted(Final))
<1>1. \A s \in Pieces : Emitted(s)' <=> Emitted(s)
  BY EmittedMoves
<1>2. EmittedCalls' = {s \in Calls : Emitted(s)'}
  BY DEF EmittedCalls
<1> QED BY <1>1, <1>2, PieceNames DEF EmittedCalls

\* A commit adds its piece, or takes it back.
LEMMA CommitMoves ==
    ASSUME Inv, [Next]_vars, NEW c \in Clients, NEW s, s = work[c].slot,
           CommitPiece(c) \/ CommitCreditNote(c)
    PROVE  /\ s \in Pieces /\ quote' = quote
           /\ CommitPiece(c) => /\ piece[s].status = "draft"
                                /\ ~Emitted(s) /\ Emitted(s)'
           /\ CommitCreditNote(c) => Emitted(s) /\ ~Emitted(s)'
           /\ s = Final => EmittedCalls' = EmittedCalls
           /\ s # Final => /\ s \in Calls
                           /\ Emitted(Final)' <=> Emitted(Final)
                           /\ CommitPiece(c) => /\ EmittedCalls' = EmittedCalls \cup {s}
                                                /\ s \notin EmittedCalls
                           /\ CommitCreditNote(c) => /\ EmittedCalls = EmittedCalls' \cup {s}
                                                     /\ s \notin EmittedCalls'
<1>0. /\ s \in Pieces /\ \A t \in Pieces : t # s => (Emitted(t)' <=> Emitted(t))
      /\ quote' = quote
  BY CommitEffect DEF Emitted, Credited, CommitPiece, CommitCreditNote
<1>1. EmittedCalls' = {t \in Calls : Emitted(t)'}
  BY DEF EmittedCalls
<1>2. ASSUME CommitPiece(c)
      PROVE  piece[s].status = "draft" /\ ~Emitted(s) /\ Emitted(s)'
  <2>1. piece[s].status = "draft" /\ piece[s].credit = "none"
    BY <1>0, <1>2 DEF Inv, Held, RowHeld, CommitPiece, IssueSteps, CreditFollowsIssue
  <2>2. piece'[s].status = "live" /\ piece'[s].credit = "none"
    BY <1>2, <2>1, CommitEffect
  <2> QED BY <2>1, <2>2 DEF Emitted, Credited
<1>3. ASSUME CommitCreditNote(c) PROVE Emitted(s) /\ ~Emitted(s)'
  <2>1. piece[s].status = "live" /\ piece[s].credit = "draft"
    BY <1>0, <1>3 DEF Inv, Held, RowHeld, CommitCreditNote, IssueSteps, CreditFollowsIssue
  <2>2. piece'[s].credit = "live"
    BY <1>3, CommitEffect
  <2> QED BY <2>1, <2>2 DEF Emitted, Credited
<1>4. ASSUME s = Final PROVE EmittedCalls' = EmittedCalls
  BY <1>0, <1>1, <1>4, PieceNames DEF EmittedCalls
<1>5. ASSUME s # Final
      PROVE  /\ s \in Calls /\ (Emitted(Final)' <=> Emitted(Final))
             /\ CommitPiece(c) => EmittedCalls' = EmittedCalls \cup {s} /\ s \notin EmittedCalls
             /\ CommitCreditNote(c) => EmittedCalls = EmittedCalls' \cup {s} /\ s \notin EmittedCalls'
  <2>1. s \in Calls /\ Final \in Pieces /\ Calls \subseteq Pieces
    BY <1>0, <1>5, PieceNames DEF Pieces
  <2> QED BY <1>0, <1>1, <1>2, <1>3, <1>5, <2>1 DEF EmittedCalls
<1> QED BY <1>0, <1>2, <1>3, <1>4, <1>5

\* Behind the quote's lock nothing else is issued: the call still fits.
LEMMA FitsStep ==
    ASSUME AmountsInv, [Next]_vars, NEW d \in Clients
    PROVE  Fits(d)'
<1> DEFINE Past(w) == w.at \in {"guarded", "numbered", "written"} /\ ~w.credit /\ w.slot \in Calls
<1> USE PieceNames
<1>0. /\ Inv /\ Fits(d) /\ work \in [Clients -> Work] /\ piece \in [Pieces -> Piece]
      /\ work[d].slot \in Pieces /\ RowHeld(d)'
  BY RowHeldStep DEF AmountsInv, Inv, TypeOK, Work
<1>1. ASSUME work'[d] = work[d], Past(work[d]) PROVE Fits(d)'
  <2> DEFINE s == work[d].slot
  <2>1. EmittedCalls' \subseteq EmittedCalls
    <3>1. ASSUME NEW c \in Clients, CommitPiece(c), work[c].slot # Final PROVE FALSE
      <4>1. LocksQuote(c) /\ LocksQuote(d)
        BY <1>1, <3>1 DEF CommitPiece, LocksQuote
      <4>2. c # d
        BY <1>0, <1>1, <3>1 DEF CommitPiece, Idle
      <4> QED BY <1>0, <4>1, <4>2 DEF Inv, LocksExclude
    <3>2. ASSUME NEW c \in Clients, CommitPiece(c) \/ CommitCreditNote(c)
          PROVE  EmittedCalls' \subseteq EmittedCalls
      BY <1>0, <3>1, <3>2, CommitMoves
    <3> QED BY <1>0, <3>2, NoCommit
  <2>2. Stays(s)
    <3>1. piece[s].status = "draft" /\ piece'[s].status = "draft"
      BY <1>0, <1>1 DEF Inv, Held, RowHeld, IssueSteps
    <3> QED BY <1>0, <3>1, RowMoves DEF SavedBy
  <2>3. \A t \in EmittedCalls : Stays(t)
    BY <1>0, EmittedLive, RowMoves DEF SavedBy
  <2>4. Sum(piece', EmittedCalls' \cup {s}) = Sum(piece, EmittedCalls' \cup {s})
    <3>1. \A t \in EmittedCalls' \cup {s} : piece'[t].ttc = piece[t].ttc
      BY <2>1, <2>2, <2>3 DEF Stays
    <3> QED BY <3>1, SumSame
  <2>5. Sum(piece, EmittedCalls' \cup {s}) <= Sum(piece, EmittedCalls \cup {s})
    <3>1. EmittedCalls \cup {s} \in SUBSET Pieces
      BY <1>0, EmittedLive
    <3>2. EmittedCalls' \cup {s} \in SUBSET (EmittedCalls \cup {s})
      BY <2>1
    <3> QED BY <1>0, <3>1, <3>2, SumMonotone
  <2>6. Sum(piece, EmittedCalls \cup {s}) <= Market
    BY <1>0, <1>1 DEF Fits
  <2>7. /\ Sum(piece, EmittedCalls' \cup {s}) \in Nat /\ Sum(piece, EmittedCalls \cup {s}) \in Nat
    BY <1>0, <2>1, EmittedLive, SumType
  <2>8. Sum(piece', EmittedCalls' \cup {s}) <= Market
    BY <2>4, <2>5, <2>6, <2>7, MarketAssumption
  <2> QED BY <1>1, <2>8 DEF Fits
<1>2. CASE ~Past(work'[d])
  BY <1>2 DEF Fits
<1>3. ASSUME LockQuote(d) PROVE Fits(d)'
  <2>1. MayIssue(work[d].slot) /\ piece' = piece /\ work'[d].slot = work[d].slot
    BY <1>0, <1>3 DEF LockQuote, Work
  <2>2. EmittedCalls' = EmittedCalls
    BY <2>1 DEF EmittedCalls, Emitted, Credited
  <2> QED BY <2>1, <2>2, BilledIsSum DEF Fits, MayIssue
<1>4. ASSUME Allocate(d) \/ WritePiece(d) \/ WriteCreditNote(d), Past(work'[d])
      PROVE  Fits(d)'
  <2>1. /\ piece' = piece /\ work'[d].slot = work[d].slot
        /\ work'[d].credit = work[d].credit /\ Past(work[d])
    BY <1>0, <1>4 DEF Allocate, WritePiece, WriteCreditNote, Work
  <2>2. EmittedCalls' = EmittedCalls
    BY <2>1 DEF EmittedCalls, Emitted, Credited
  <2> QED BY <1>0, <2>1, <2>2 DEF Fits
<1>5. ASSUME NEW s \in Pieces, LockPiece(d, s) \/ LockCreditNote(d, s) PROVE ~Past(work'[d])
  BY <1>0, <1>5 DEF LockPiece, LockCreditNote, Idle
<1> QED BY <1>0, <1>1, <1>2, <1>3, <1>4, <1>5, WorkMoves

\* What is called after a step.
Called == Sum(piece, EmittedCalls)

\* The sum of what stands changes by the piece that commits, and only then.
LEMMA CalledMoves ==
    ASSUME AmountsInv, [Next]_vars
    PROVE  /\ Called \in Nat /\ Called' \in Nat
           /\ EmittedCalls' = EmittedCalls => Called' = Called
           /\ \A c \in Clients : work[c].slot \in Calls =>
                /\ CommitPiece(c) =>
                    /\ Called' = Called + piece[work[c].slot].ttc
                    /\ Called' <= Market /\ piece[work[c].slot].ttc > 0
                /\ CommitCreditNote(c) =>
                    /\ Called = Called' + piece[work[c].slot].ttc
                    /\ piece[work[c].slot].ttc > 0
<1> USE PieceNames
<1>0. /\ Inv /\ piece \in [Pieces -> Piece] /\ work \in [Clients -> Work] /\ TypeOK'
      /\ EmittedCalls \subseteq Calls
  BY TypeStep, EmittedLive DEF AmountsInv, Inv, TypeOK
<1>1. piece' \in [Pieces -> Piece] /\ EmittedCalls' \subseteq Pieces
  BY <1>0 DEF TypeOK, EmittedCalls
<1>2. Called \in Nat /\ Called' \in Nat
  <2>1. EmittedCalls' \in SUBSET Pieces /\ EmittedCalls \in SUBSET Pieces
    BY <1>0, <1>1
  <2> HIDE DEF Sum
  <2> QED BY <1>0, <1>1, <2>1, SumType DEF Called
<1>3. Sum(piece', EmittedCalls) = Called
  BY <1>0, EmittedLive, LiveStay DEF Called
<1>4. ASSUME EmittedCalls' = EmittedCalls PROVE Called' = Called
  BY <1>3, <1>4 DEF Called
<1>5. ASSUME NEW c \in Clients, work[c].slot \in Calls, CommitPiece(c)
      PROVE  /\ Called' = Called + piece[work[c].slot].ttc
             /\ Called' <= Market /\ piece[work[c].slot].ttc > 0
  <2> DEFINE s == work[c].slot
  <2>1. /\ s \in Pieces /\ s # Final /\ piece[s].status = "draft"
        /\ EmittedCalls' = EmittedCalls \cup {s} /\ s \notin EmittedCalls
    BY <1>0, <1>5, CommitMoves
  <2>2. \A t \in EmittedCalls' : piece'[t].ttc = piece[t].ttc
    <3>1. \A t \in EmittedCalls : Stays(t)
      BY <1>0, EmittedLive, RowMoves DEF SavedBy
    <3>2. piece'[s].status = "live"
      BY <1>0, <1>5, CommitEffect
    <3>3. Stays(s)
      BY <1>0, <2>1, <3>2, RowMoves DEF SavedBy
    <3> QED BY <2>1, <3>1, <3>3 DEF Stays
  <2>3. Called' = Sum(piece, EmittedCalls \cup {s})
    BY <2>1, <2>2, SumSame DEF Called
  <2>4. Sum(piece, EmittedCalls \cup {s}) = Called + piece[s].ttc
    <3>1. EmittedCalls \in SUBSET Pieces
      BY <1>0
    <3> QED BY <1>0, <2>1, <3>1, SumAdd DEF Called
  <2>5. Sum(piece, EmittedCalls \cup {s}) <= Market
    BY <1>5 DEF AmountsInv, Fits, CommitPiece
  <2>6. piece[s].ttc > 0
    BY <1>5, <2>1 DEF AmountsInv, Priced
  <2> QED BY <2>3, <2>4, <2>5, <2>6
<1>6. ASSUME NEW c \in Clients, work[c].slot \in Calls, CommitCreditNote(c)
      PROVE  /\ Called = Called' + piece[work[c].slot].ttc
             /\ piece[work[c].slot].ttc > 0
  <2> DEFINE s == work[c].slot
  <2>1. /\ s \in Pieces /\ s # Final
        /\ EmittedCalls = EmittedCalls' \cup {s} /\ s \notin EmittedCalls'
    BY <1>0, <1>6, CommitMoves
  <2>2. EmittedCalls' \in SUBSET Pieces /\ s \in EmittedCalls
    BY <1>1, <2>1
  <2>3. Sum(piece, EmittedCalls) = Sum(piece, EmittedCalls') + piece[s].ttc
    BY <1>0, <2>1, <2>2, SumAdd
  <2>4. Sum(piece', EmittedCalls') = Sum(piece, EmittedCalls')
    BY <1>0, <1>1, <2>1, EmittedLive, LiveStay
  <2>5. piece[s].status = "live"
    BY <2>2, EmittedLive
  <2>6. piece[s].ttc > 0
    BY <1>6, <2>5 DEF AmountsInv, Priced
  <2> QED BY <2>3, <2>4, <2>6 DEF Called
<1> QED BY <1>2, <1>4, <1>5, <1>6

\* What is called stays within the market.
LEMMA CalledStep == ASSUME AmountsInv, [Next]_vars PROVE Called' <= Market
<1>0. Inv /\ Called <= Market /\ Called \in Nat /\ Called' \in Nat
  BY CalledMoves DEF AmountsInv, Called
<1>1. ASSUME NEW c \in Clients, CommitPiece(c) \/ CommitCreditNote(c), work[c].slot \in Calls
      PROVE  Called' <= Market
  <2>1. piece[work[c].slot].ttc \in Nat
    BY <1>0, <1>1, PieceNames, MarketAssumption DEF Inv, TypeOK, Piece
  <2>2. CASE CommitPiece(c)
    BY <1>1, <2>2, CalledMoves
  <2>3. CASE CommitCreditNote(c)
    <3>1. Called = Called' + piece[work[c].slot].ttc
      BY <1>1, <2>3, CalledMoves
    <3> QED BY <1>0, <2>1, <3>1, MarketAssumption
  <2> QED BY <1>1, <2>2, <2>3
<1>2. CASE EmittedCalls' = EmittedCalls
  BY <1>0, <1>2, CalledMoves
<1> QED BY <1>0, <1>1, <1>2, NoCommit, CommitMoves

---------------------------------------------------------------------------
(* The theorems.                                                           *)

\* The amounts hold initially.
LEMMA AmountsInit == Init => AmountsInv
<1> SUFFICES ASSUME Init PROVE AmountsInv
  OBVIOUS
<1> USE PieceNames
<1>1. /\ \A s \in Pieces : piece[s].status = "none"
      /\ \A c \in Clients : work[c].at = "idle"
  BY DEF Init, NoPiece, Idle
<1>2. EmittedCalls = {}
  BY <1>1 DEF EmittedCalls, Emitted
<1>3. Sum(piece, EmittedCalls) <= Market
  BY <1>2, SumEmpty, MarketAssumption
<1>4. Priced /\ Balanced /\ \A c \in Clients : Fits(c)
  BY <1>1 DEF Priced, Balanced, Fits
<1> QED BY <1>3, <1>4, InvInit DEF AmountsInv

\* Every step preserves them.
LEMMA AmountsStep == AmountsInv /\ [Next]_vars => AmountsInv'
<1> SUFFICES ASSUME AmountsInv, [Next]_vars PROVE AmountsInv'
  OBVIOUS
<1>1. Inv' /\ Priced' /\ Balanced'
  BY InvStep, PricedStep, BalancedStep DEF AmountsInv
<1>2. \A c \in Clients : Fits(c)'
  BY FitsStep
<1>3. Sum(piece, EmittedCalls)' <= Market
  BY CalledStep DEF Called
<1> QED BY <1>1, <1>2, <1>3 DEF AmountsInv

\* The invariant of the amounts holds in every reachable state.
THEOREM AmountsInvariance == Spec => []AmountsInv
<1> QED BY AmountsInit, AmountsStep, PTL DEF Spec

\* The signed market is never billed beyond 100 %, and exactly once by a
\* final that stands with what it deducts.
THEOREM MarketIsBilledOnce == Spec => []MarketBilledOnce
<1>1. ASSUME AmountsInv PROVE MarketBilledOnce
  <2>1. Billed(EmittedCalls) = Sum(piece, EmittedCalls)
    BY BilledIsSum
  <2>2. ASSUME Emitted(Final) PROVE Sum(piece, EmittedCalls) + piece[Final].ttc = Market
    <3>1. Balances(piece, piece[Final]) /\ piece[Final].deducts = EmittedCalls
      BY <1>1, <2>2 DEF AmountsInv, Inv, FinalDeductsItsSisters, Balanced, Emitted
    <3> QED BY <3>1 DEF Balances
  <2> QED BY <1>1, <2>1, <2>2 DEF AmountsInv, MarketBilledOnce
<1>2. AmountsInv => MarketBilledOnce
  BY <1>1
<1> QED BY <1>2, AmountsInvariance, PTL

\* What the final that stands asks for.
Balance == IF Emitted(Final) THEN piece[Final].ttc ELSE 0

\* A step of a request is a step of the ledger, or leaves it as it is.
LEMMA LedgerStep ==
    ASSUME AmountsInv, [Next]_vars
    PROVE  \/ MarketLedger!Next
           \/ UNCHANGED <<Called, Emitted(Final), Balance, quote.retracted>>
<1> USE PieceNames
<1>0. /\ Inv /\ piece \in [Pieces -> Piece] /\ work \in [Clients -> Work]
      /\ Called \in Nat /\ Called' \in Nat /\ Called' <= Market
      /\ Billed(EmittedCalls) = Called /\ Billed(EmittedCalls)' = Called'
      /\ quote \in [consumer : BOOLEAN, early : BOOLEAN, delayRuns : BOOLEAN, retracted : BOOLEAN]
  BY CalledMoves, CalledStep, BilledIsSum DEF AmountsInv, Inv, TypeOK, Called
<1>1. ASSUME Emitted(Final), Emitted(Final)' PROVE Balance' = Balance
  <2>1. Stays(Final)
    BY <1>0, <1>1, RowMoves DEF Emitted, SavedBy
  <2> QED BY <1>1, <2>1 DEF Balance, Stays
<1>2. ASSUME Emitted(Final)' <=> Emitted(Final) PROVE Balance' = Balance
  BY <1>1, <1>2 DEF Balance
<1>3. ASSUME \A c \in Clients : ~CommitPiece(c) /\ ~CommitCreditNote(c)
      PROVE  \/ MarketLedger!Withdraw
             \/ UNCHANGED <<Called, Emitted(Final), Balance, quote.retracted>>
  <2>1. Called' = Called /\ (Emitted(Final)' <=> Emitted(Final)) /\ Balance' = Balance
    BY <1>0, <1>2, <1>3, NoCommit, CalledMoves
  <2>2. Emitted(Final)' = Emitted(Final)
    BY <2>1 DEF Emitted, Credited
  <2>3. CASE ExerciseRetractation
    <3>1. quote'.retracted = TRUE
      BY <1>0, <2>3 DEF ExerciseRetractation
    <3> QED BY <1>0, <2>1, <2>2, <3>1 DEF MarketLedger!Withdraw, Balance
  <2>4. CASE quote' = quote \/ DelayPasses
    <3>1. quote'.retracted = quote.retracted
      BY <1>0, <2>4 DEF DelayPasses
    <3> QED BY <2>1, <2>2, <3>1
  <2> QED BY <2>3, <2>4, QuoteMoves
<1>4. ASSUME NEW c \in Clients, CommitPiece(c), work[c].slot # Final PROVE MarketLedger!Call
  <2>1. /\ work[c].slot \in Calls /\ quote' = quote
        /\ Emitted(Final)' <=> Emitted(Final)
    BY <1>0, <1>4, CommitMoves
  <2>2. ~Emitted(Final) /\ ~quote.retracted
    BY <1>0, <1>4, <2>1 DEF Inv, Held, QuoteHeld, CommitPiece
  <2>3. piece[work[c].slot].ttc \in Nat
    BY <1>0, <2>1, MarketAssumption DEF Piece
  <2>4. Called' \in (Called + 1)..Market
    BY <1>0, <1>4, <2>1, <2>3, CalledMoves, MarketAssumption
  <2>5. Emitted(Final)' = Emitted(Final) /\ Balance' = Balance
    BY <1>2, <2>1 DEF Emitted, Credited
  <2> QED BY <1>0, <2>1, <2>2, <2>4, <2>5 DEF MarketLedger!Call, Balance
<1>5. ASSUME NEW c \in Clients, CommitPiece(c), work[c].slot = Final PROVE MarketLedger!Settle
  <2>1. /\ EmittedCalls' = EmittedCalls /\ quote' = quote /\ piece[Final].status = "draft"
        /\ ~Emitted(Final) /\ Emitted(Final)'
    BY <1>0, <1>5, CommitMoves
  <2>2. ~quote.retracted /\ piece[Final].deducts = EmittedCalls
    BY <1>0, <1>5 DEF Inv, Held, QuoteHeld, SistersHeld, CommitPiece
  <2>3. Called + piece[Final].ttc = Market
    BY <2>1, <2>2 DEF AmountsInv, Balanced, Balances, Called
  <2>4. piece'[Final].ttc = piece[Final].ttc
    <3>1. Stays(Final)
      BY <1>0, <2>1, RowMoves DEF SavedBy, Emitted
    <3> QED BY <3>1 DEF Stays
  <2>5. piece[Final].ttc \in Nat
    BY <1>0, MarketAssumption DEF Piece
  <2>6. Balance' = Market - Called
    BY <1>0, <2>1, <2>3, <2>4, <2>5, MarketAssumption DEF Balance
  <2>7. Called' = Called
    BY <2>1, CalledMoves
  <2>8. Emitted(Final)' = TRUE
    BY <2>1 DEF Emitted, Credited
  <2> QED BY <1>0, <2>1, <2>2, <2>6, <2>7, <2>8 DEF MarketLedger!Settle, Balance
<1>6. ASSUME NEW c \in Clients, CommitCreditNote(c), work[c].slot # Final
      PROVE  MarketLedger!TakeBackCall
  <2>1. /\ work[c].slot \in Calls /\ quote' = quote /\ work[c].slot \in EmittedCalls
        /\ Emitted(Final)' <=> Emitted(Final)
    BY <1>0, <1>6, CommitMoves
  <2>2. ~Emitted(Final)
    BY <1>0, <1>6, <2>1 DEF Inv, Held, SistersHeld, CommitCreditNote, CreditAllowed,
                            FinalDeductsItsSisters
  <2>3. piece[work[c].slot].ttc \in Nat
    BY <1>0, <2>1, MarketAssumption DEF Piece
  <2>4. Called > 0 /\ Called' \in 0..(Called - 1)
    BY <1>0, <1>6, <2>1, <2>3, CalledMoves
  <2>5. Emitted(Final)' = Emitted(Final) /\ Balance' = Balance
    BY <1>2, <2>1 DEF Emitted, Credited
  <2> QED BY <1>0, <2>1, <2>2, <2>4, <2>5 DEF MarketLedger!TakeBackCall, Balance
<1>7. ASSUME NEW c \in Clients, CommitCreditNote(c), work[c].slot = Final
      PROVE  MarketLedger!TakeBackSettlement
  <2>1. /\ EmittedCalls' = EmittedCalls /\ quote' = quote
        /\ Emitted(Final) /\ ~Emitted(Final)'
    BY <1>0, <1>7, CommitMoves
  <2>2. Called' = Called /\ Balance' = 0 /\ Emitted(Final)' = FALSE
    BY <2>1, CalledMoves DEF Balance, Emitted, Credited
  <2> QED BY <1>0, <2>1, <2>2 DEF MarketLedger!TakeBackSettlement, Balance
<1> QED BY <1>3, <1>4, <1>5, <1>6, <1>7 DEF MarketLedger!Next

\* The concurrent requests keep the promise of the market's ledger: each
\* step, of any number of them, is one call, one settlement, or a credit
\* note of what no settlement counts.
THEOREM MarketKeepsPromise == Spec => MarketPromise
<1>1. Init => MarketLedger!Init
  <2> SUFFICES ASSUME Init PROVE MarketLedger!Init
    OBVIOUS
  <2>1. \A s \in Pieces : piece[s].status = "none"
    BY DEF Init, NoPiece
  <2>2. EmittedCalls = {} /\ ~Emitted(Final) /\ quote.retracted = FALSE
    BY <2>1, PieceNames DEF Init, EmittedCalls, Emitted
  <2>3. Billed(EmittedCalls) = 0
    BY <2>2, SumEmpty, BilledIsSum
  <2> QED BY <2>2, <2>3 DEF MarketLedger!Init
<1>2. AmountsInv /\ [Next]_vars => [MarketLedger!Next]_MarketLedger!marketVars
  <2>1. Billed(EmittedCalls) = Called /\ Billed(EmittedCalls)' = Called'
    BY BilledIsSum DEF Called
  <2> QED BY <2>1, LedgerStep DEF MarketLedger!marketVars, Balance
<1> QED BY <1>1, <1>2, AmountsInvariance, PTL DEF Spec, MarketPromise, MarketLedger!Spec

=============================================================================
