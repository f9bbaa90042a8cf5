------------------------ MODULE QuoteBilling_proofs ------------------------
(***************************************************************************)
(* Theorems about QuoteBilling, for every set of requests, every market    *)
(* and every number of situations: types, the numbers without a gap, the   *)
(* final that deducts its sisters, the withdrawal, and the pieces that     *)
(* stay.  What rests on the sums of the pieces is in MarketBilling_proofs. *)
(***************************************************************************)
EXTENDS QuoteBilling, FiniteSetTheorems, TLAPS

---------------------------------------------------------------------------
(* The inductive invariant.                                                *)

Live == {s \in Pieces : piece[s].status = "live"}
Notes == {s \in Pieces : Credited(s)}

\* Only what was issued is credited.
CreditFollowsIssue == \A s \in Pieces : piece[s].credit # "none" => piece[s].status = "live"

\* The committed counters count what has a number.
Counted ==
    /\ counter.invoice = Cardinality(Live)
    /\ {piece[s].number : s \in Live} = 1..counter.invoice
    /\ counter.credit = Cardinality(Notes)
    /\ {piece[s].creditNumber : s \in Notes} = 1..counter.credit

\* Two requests never hold the same lock.
LocksExclude ==
    \A c, d \in Clients : c # d =>
        /\ ~(LocksQuote(c) /\ LocksQuote(d))
        /\ \A credit \in BOOLEAN : ~(LocksCounter(c, credit) /\ LocksCounter(d, credit))
        /\ \A s \in Pieces, credit \in BOOLEAN :
            /\ ~(LocksRow(c, s, credit) /\ LocksRow(d, s, credit))
            /\ s # Final => ~(SharesSisters(c) /\ LocksRow(d, s, credit))

\* What a request has read behind a lock is still true:
\* the row it locked is a draft,
RowHeld(c) ==
    work[c].at \in IssueSteps =>
        IF work[c].credit THEN piece[work[c].slot].credit = "draft"
                          ELSE piece[work[c].slot].status = "draft"

\* the guards it checked on the quote hold,
QuoteHeld(c) ==
    work[c].at \in {"guarded", "numbered", "written"} /\ ~work[c].credit =>
        /\ ~quote.retracted /\ ~Frozen(work[c].slot)
        /\ work[c].slot \in Calls => ~Emitted(Final)

\* its number is the next one,
NumberHeld(c) ==
    work[c].at \in {"numbered", "written"} =>
        work[c].number = 1 + (IF work[c].credit THEN counter.credit ELSE counter.invoice)

\* and what the trigger checked on the sisters holds.
SistersHeld(c) ==
    work[c].at = "written" =>
        IF work[c].credit
        THEN CreditAllowed(work[c].slot)
        ELSE work[c].slot = Final => piece[Final].deducts = EmittedCalls

Held == \A c \in Clients : RowHeld(c) /\ QuoteHeld(c) /\ NumberHeld(c) /\ SistersHeld(c)

Inv == /\ TypeOK /\ CreditFollowsIssue /\ Counted
       /\ LocksExclude /\ Held /\ FinalDeductsItsSisters

---------------------------------------------------------------------------
(* The names of the pieces.                                                *)

\* The final is not one of the calls it deducts.
LEMMA PieceNames ==
    /\ Deposit \in Calls /\ Situations \subseteq Calls /\ Calls \subseteq Pieces
    /\ Final \in Pieces /\ Final \notin Calls /\ Deposit \notin Situations
    /\ Kinds \subseteq Pieces
BY SituationsAssumption, SMT DEF Deposit, Situations, Final, Calls, Pieces, Kinds

\* There are finitely many pieces, and some.
LEMMA PiecesFinite == IsFiniteSet(Pieces) /\ Cardinality(Pieces) \in Nat
<1>1. IsFiniteSet(Situations)
  BY SituationsAssumption, FS_Interval DEF Situations
<1>2. IsFiniteSet(Situations \cup {Deposit})
  BY <1>1, FS_AddElement
<1>3. IsFiniteSet((Situations \cup {Deposit}) \cup {Final})
  BY <1>2, FS_AddElement
<1>4. Pieces = (Situations \cup {Deposit}) \cup {Final}
  BY Zenon DEF Pieces, Calls
<1> QED BY <1>3, <1>4, FS_CardinalityType

\* A subset of the pieces that misses one leaves room for one more number.
LEMMA RoomForOne ==
    ASSUME NEW S \in SUBSET Pieces, NEW s \in Pieces, s \notin S
    PROVE  /\ IsFiniteSet(S) /\ Cardinality(S) + 1 \in Numbers
           /\ Cardinality(S \cup {s}) = Cardinality(S) + 1
<1>1. IsFiniteSet(S) /\ Cardinality(S) \in Nat
  BY PiecesFinite, FS_Subset, FS_CardinalityType
<1>2. Cardinality(S \cup {s}) = Cardinality(S) + 1
  BY <1>1, FS_AddElement
<1>3. S \cup {s} \in SUBSET Pieces
  OBVIOUS
<1>4. Cardinality(S \cup {s}) <= Cardinality(Pieces)
  BY <1>3, PiecesFinite, FS_Subset
<1> QED BY <1>1, <1>2, <1>4, PiecesFinite, SMT DEF Numbers

---------------------------------------------------------------------------
(* The types.                                                              *)

\* The next number is a number, as long as the piece it is for has none.
LEMMA NextNumber ==
    ASSUME Inv, NEW c \in Clients, work[c].at \in IssueSteps
    PROVE  1 + (IF work[c].credit THEN counter.credit ELSE counter.invoice) \in Numbers
<1>1. work[c].slot \in Pieces /\ work[c].credit \in BOOLEAN
  BY DEF Inv, TypeOK, Work
<1>2. RowHeld(c)
  BY DEF Inv, Held
<1>3. Live \in SUBSET Pieces /\ Notes \in SUBSET Pieces
  BY DEF Live, Notes
<1>4. CASE work[c].credit
  <2>1. work[c].slot \notin Notes
    BY <1>2, <1>4 DEF RowHeld, Notes, Credited
  <2>2. Cardinality(Notes) + 1 \in Numbers
    BY <1>1, <1>3, <2>1, RoomForOne
  <2>3. counter.credit = Cardinality(Notes) /\ counter.credit \in Numbers
    BY DEF Inv, Counted, TypeOK
  <2> QED BY <1>4, <2>2, <2>3, PiecesFinite DEF Numbers
<1>5. CASE ~work[c].credit
  <2>1. work[c].slot \notin Live
    BY <1>2, <1>5 DEF RowHeld, Live
  <2>2. Cardinality(Live) + 1 \in Numbers
    BY <1>1, <1>3, <2>1, RoomForOne
  <2>3. counter.invoice = Cardinality(Live) /\ counter.invoice \in Numbers
    BY DEF Inv, Counted, TypeOK
  <2> QED BY <1>5, <2>2, <2>3, PiecesFinite DEF Numbers
<1> QED BY <1>4, <1>5

\* A quote starts without pieces, numbers or requests.
LEMMA TypeInit == Init => TypeOK
BY PieceNames, PiecesFinite, MarketAssumption
   DEF Init, TypeOK, Piece, NoPiece, Statuses, Numbers, Work, Idle

\* Every step keeps the types.
LEMMA TypeStep == Inv /\ [Next]_vars => TypeOK'
<1> SUFFICES ASSUME Inv, [Next]_vars PROVE TypeOK'
  OBVIOUS
<1> USE PieceNames, PiecesFinite, MarketAssumption
<1>0. /\ TypeOK /\ 0 \in Numbers /\ Idle \in Work /\ NoPiece \in Piece
  BY DEF Inv, Idle, Work, NoPiece, Piece, Statuses, Numbers
<1>1. CASE UNCHANGED vars
  BY <1>0, <1>1 DEF vars, TypeOK
<1>2. ASSUME NEW c \in Clients, Generate(c) PROVE TypeOK'
  <2>1. ASSUME NEW kind \in Kinds, CheckQuote(c, kind) PROVE TypeOK'
    BY <1>0, <2>1 DEF TypeOK, CheckQuote, Work, Idle, Numbers
  <2>2. ASSUME NEW s \in Pieces, NEW ttc \in 0..Market, NEW deducts \in SUBSET Calls,
               Composed(c, s, ttc, deducts)
        PROVE  TypeOK'
    BY <1>0, <2>2 DEF TypeOK, Composed, Work, Idle, Numbers
  <2>3. CASE ComposeDeposit(c)
    BY <2>2, <2>3 DEF ComposeDeposit
  <2>4. CASE ComposeSituation(c)
    BY <2>2, <2>4 DEF ComposeSituation
  <2>5. CASE ComposeFinal(c)
    BY <2>2, <2>5 DEF ComposeFinal, EmittedCalls
  <2>6. CASE SaveDraft(c)
    <3>1. work[c] \in Work /\ work' \in [Clients -> Work]
      BY <1>0, <2>6 DEF TypeOK, SaveDraft
    <3>2. [NoPiece EXCEPT !.status = "draft", !.ttc = work[c].ttc,
                          !.deducts = work[c].deducts] \in Piece
      BY <1>0, <3>1 DEF Piece, NoPiece, Work, Statuses
    <3>3. piece' \in [Pieces -> Piece]
      BY <1>0, <2>6, <3>2 DEF TypeOK, SaveDraft
    <3> QED BY <1>0, <2>6, <3>1, <3>3 DEF TypeOK, SaveDraft
  <2> QED BY <1>2, <2>1, <2>3, <2>4, <2>5, <2>6 DEF Generate
<1>3. ASSUME NEW c \in Clients, Issue(c) PROVE TypeOK'
  <2>1. ASSUME NEW s \in Pieces, LockPiece(c, s) \/ LockCreditNote(c, s) PROVE TypeOK'
    <3>1. [Idle EXCEPT !.at = "locked", !.slot = s] \in Work
      BY <1>0 DEF Idle, Work, IssueSteps
    <3>2. [Idle EXCEPT !.at = "locked", !.slot = s, !.credit = TRUE] \in Work
      BY <1>0 DEF Idle, Work, IssueSteps
    <3>3. CASE LockPiece(c, s)
      BY <1>0, <3>1, <3>3 DEF TypeOK, LockPiece
    <3>4. CASE LockCreditNote(c, s)
      BY <1>0, <3>2, <3>4 DEF TypeOK, LockCreditNote
    <3> QED BY <2>1, <3>3, <3>4
  <2>2. CASE LockQuote(c)
    BY <1>0, <2>2 DEF TypeOK, LockQuote, Work, IssueSteps
  <2>3. CASE Allocate(c)
    <3>1. work[c].at \in IssueSteps
      BY <2>3 DEF Allocate, IssueSteps
    <3>2. 1 + (IF work[c].credit THEN counter.credit ELSE counter.invoice) \in Numbers
      BY <3>1, NextNumber
    <3>3. PICK n \in Numbers : work' = [work EXCEPT ![c].at = "numbered", ![c].number = n]
      <4>1. counter.invoice \in Nat /\ counter.credit \in Nat
        BY <1>0 DEF TypeOK, Numbers
      <4>2. CASE work[c].credit
        <5>1. counter.credit + 1 \in Numbers
          BY <3>2, <4>1, <4>2
        <5>2. work' = [work EXCEPT ![c].at = "numbered", ![c].number = counter.credit + 1]
          BY <2>3, <4>2 DEF Allocate
        <5> QED BY <5>1, <5>2
      <4>3. CASE ~work[c].credit
        <5>1. counter.invoice + 1 \in Numbers
          BY <3>2, <4>1, <4>3
        <5>2. work' = [work EXCEPT ![c].at = "numbered", ![c].number = counter.invoice + 1]
          BY <2>3, <4>3 DEF Allocate
        <5> QED BY <5>1, <5>2
      <4> QED BY <4>2, <4>3
    <3>4. work' \in [Clients -> Work]
      BY <1>0, <3>3 DEF TypeOK, Work, IssueSteps
    <3> QED BY <1>0, <2>3, <3>4 DEF TypeOK, Allocate
  <2>4. CASE WritePiece(c) \/ WriteCreditNote(c)
    BY <1>0, <2>4 DEF TypeOK, WritePiece, WriteCreditNote, Work, IssueSteps
  <2>5. CASE CommitPiece(c) \/ CommitCreditNote(c)
    <3>1. /\ work[c] \in Work /\ work' \in [Clients -> Work]
          /\ work[c].slot \in Pieces /\ work[c].number \in Numbers
      BY <1>0, <2>5 DEF TypeOK, CommitPiece, CommitCreditNote, Work
    <3>2. counter' \in [invoice : Numbers, credit : Numbers]
      BY <1>0, <2>5, <3>1 DEF TypeOK, CommitPiece, CommitCreditNote
    <3>3. piece' \in [Pieces -> Piece]
      BY <1>0, <2>5, <3>1 DEF TypeOK, CommitPiece, CommitCreditNote, Piece, Statuses
    <3> QED BY <1>0, <2>5, <3>1, <3>2, <3>3 DEF TypeOK, CommitPiece, CommitCreditNote
  <2> QED BY <1>3, <2>1, <2>2, <2>3, <2>4, <2>5 DEF Issue
<1>4. ASSUME NEW c \in Clients, Rollback(c) PROVE TypeOK'
  BY <1>0, <1>4 DEF TypeOK, Rollback
<1>5. ASSUME NEW s \in Pieces, CreateCreditNote(s) \/ DeleteDraftCreditNote(s) PROVE TypeOK'
  <2>1. piece' = [piece EXCEPT ![s].credit = "draft"]
        \/ piece' = [piece EXCEPT ![s].credit = "none"]
    BY <1>5 DEF CreateCreditNote, DeleteDraftCreditNote
  <2>2. piece' \in [Pieces -> Piece]
    BY <1>0, <2>1 DEF TypeOK, Piece, Statuses
  <2> QED BY <1>0, <1>5, <2>2 DEF TypeOK, CreateCreditNote, DeleteDraftCreditNote
<1>6. ASSUME NEW s \in Pieces, DeleteDraft(s) PROVE TypeOK'
  BY <1>0, <1>6 DEF TypeOK, DeleteDraft
<1>7. CASE ExerciseRetractation \/ DelayPasses
  BY <1>0, <1>7 DEF TypeOK, ExerciseRetractation, DelayPasses
<1> QED BY <1>1, <1>2, <1>3, <1>4, <1>5, <1>6, <1>7 DEF Next

---------------------------------------------------------------------------
(* What a step does to the pieces, and to the numbers.                     *)

\* A step leaves the pieces alone, or saves or deletes a draft, or creates
\* or deletes a draft credit note, or commits a piece or a credit note.
Saves(s) ==
    /\ piece[s].status = "none"
    /\ \E p \in Piece :
        /\ p.status = "draft" /\ p.credit = "none"
        /\ piece' = [piece EXCEPT ![s] = p]

Erases(s) ==
    /\ piece[s].status = "draft" /\ RowFree(s, FALSE)
    /\ piece' = [piece EXCEPT ![s] = NoPiece]

Drafts(s) ==
    /\ piece[s].status = "live" /\ piece[s].credit = "none"
    /\ piece' = [piece EXCEPT ![s].credit = "draft"]

Undrafts(s) ==
    /\ piece[s].credit = "draft" /\ RowFree(s, TRUE)
    /\ piece' = [piece EXCEPT ![s].credit = "none"]

\* A step leaves the pieces, saves or deletes a draft, or is a commit.
LEMMA PieceMoves ==
    ASSUME Inv, [Next]_vars
    PROVE  \/ piece' = piece
           \/ \E s \in Pieces : Saves(s) \/ Erases(s) \/ Drafts(s) \/ Undrafts(s)
           \/ \E c \in Clients : CommitPiece(c) \/ CommitCreditNote(c)
<1>0. TypeOK /\ NoPiece \in Piece
  BY PieceNames, PiecesFinite, MarketAssumption DEF Inv, NoPiece, Piece, Statuses, Numbers
<1>1. CASE UNCHANGED vars
  BY <1>1 DEF vars
<1>2. ASSUME NEW c \in Clients, SaveDraft(c)
      PROVE  piece' = piece \/ \E s \in Pieces : Saves(s)
  <2>1. work[c] \in Work /\ work[c].slot \in Pieces /\ piece \in [Pieces -> Piece]
    BY <1>0 DEF TypeOK, Work
  <2>2. CASE piece[work[c].slot].status # "none"
    BY <1>2, <2>1, <2>2 DEF SaveDraft
  <2>3. CASE piece[work[c].slot].status = "none"
    <3> DEFINE p == [NoPiece EXCEPT !.status = "draft", !.ttc = work[c].ttc,
                                    !.deducts = work[c].deducts]
    <3>1. p \in Piece /\ p.status = "draft" /\ p.credit = "none"
      BY <1>0, <2>1 DEF Work, Piece, NoPiece, Statuses
    <3>2. piece' = [piece EXCEPT ![work[c].slot] = p]
      BY <1>2, <2>1, <2>3 DEF SaveDraft
    <3> HIDE DEF p
    <3> QED BY <2>1, <2>3, <3>1, <3>2 DEF Saves
  <2> QED BY <2>2, <2>3
<1>3. ASSUME NEW c \in Clients, Generate(c) \/ Issue(c) \/ Rollback(c)
      PROVE  \/ piece' = piece \/ SaveDraft(c)
             \/ CommitPiece(c) \/ CommitCreditNote(c)
  BY <1>3 DEF Generate, Issue, Rollback, CheckQuote, ComposeDeposit, ComposeSituation,
              ComposeFinal, Composed, LockPiece, LockCreditNote, LockQuote, Allocate,
              WritePiece, WriteCreditNote
<1>4. ASSUME NEW s \in Pieces,
             CreateCreditNote(s) \/ DeleteDraft(s) \/ DeleteDraftCreditNote(s)
      PROVE  Erases(s) \/ Drafts(s) \/ Undrafts(s)
  BY <1>4 DEF CreateCreditNote, DeleteDraft, DeleteDraftCreditNote, Erases, Drafts, Undrafts
<1>5. CASE ExerciseRetractation \/ DelayPasses
  BY <1>5 DEF ExerciseRetractation, DelayPasses
<1> QED BY <1>1, <1>2, <1>3, <1>4, <1>5 DEF Next

\* A draft credit note changes nothing of its piece.
LEMMA DraftEffect ==
    ASSUME piece \in [Pieces -> Piece], NEW s \in Pieces, Drafts(s) \/ Undrafts(s)
    PROVE  /\ \A t \in Pieces : t # s => piece'[t] = piece[t]
           /\ piece'[s].status = piece[s].status /\ piece'[s].deducts = piece[s].deducts
           /\ piece[s].credit # "live" /\ piece'[s].credit # "live"
<1>1. CASE Drafts(s)
  BY <1>1 DEF Drafts, Piece
<1>2. CASE Undrafts(s)
  BY <1>2 DEF Undrafts, Piece
<1> QED BY <1>1, <1>2

\* A commit makes one piece, or one credit note, live.
LEMMA CommitEffect ==
    ASSUME Inv, NEW c \in Clients, NEW s, s = work[c].slot,
           CommitPiece(c) \/ CommitCreditNote(c)
    PROVE  /\ s \in Pieces /\ \A t \in Pieces : t # s => piece'[t] = piece[t]
           /\ piece'[s].deducts = piece[s].deducts
           /\ CommitPiece(c) => /\ ~work[c].credit /\ piece'[s].status = "live"
                                /\ piece'[s].credit = piece[s].credit
           /\ CommitCreditNote(c) => /\ work[c].credit /\ piece'[s].credit = "live"
                                     /\ piece'[s].status = piece[s].status
<1>1. piece \in [Pieces -> Piece] /\ s \in Pieces
  BY DEF Inv, TypeOK, Work
<1>2. CASE CommitPiece(c)
  <2>1. /\ ~work[c].credit
        /\ piece' = [piece EXCEPT ![s].status = "live", ![s].number = work[c].number]
    BY <1>2 DEF CommitPiece
  <2>2. \A t \in Pieces : t # s => piece'[t] = piece[t]
    BY <1>1, <2>1
  <2>3. /\ piece'[s].deducts = piece[s].deducts /\ piece'[s].status = "live"
        /\ piece'[s].credit = piece[s].credit
    BY <1>1, <2>1 DEF Piece
  <2> QED BY <1>1, <1>2, <2>1, <2>2, <2>3 DEF CommitCreditNote
<1>3. CASE CommitCreditNote(c)
  <2>1. /\ work[c].credit
        /\ piece' = [piece EXCEPT ![s].credit = "live", ![s].creditNumber = work[c].number]
    BY <1>3 DEF CommitCreditNote
  <2>2. \A t \in Pieces : t # s => piece'[t] = piece[t]
    BY <1>1, <2>1
  <2>3. /\ piece'[s].deducts = piece[s].deducts /\ piece'[s].credit = "live"
        /\ piece'[s].status = piece[s].status
    BY <1>1, <2>1 DEF Piece
  <2> QED BY <1>1, <1>3, <2>1, <2>2, <2>3 DEF CommitPiece
<1> QED BY <1>2, <1>3

\* A credit note is only made of an issued piece, and lives with it.
LEMMA CreditFollowsStep == Inv /\ [Next]_vars => CreditFollowsIssue'
<1> SUFFICES ASSUME Inv, [Next]_vars PROVE CreditFollowsIssue'
  OBVIOUS
<1>0. piece \in [Pieces -> Piece] /\ CreditFollowsIssue /\ NoPiece.credit = "none"
  BY DEF Inv, TypeOK, NoPiece
<1>1. CASE piece' = piece
  BY <1>0, <1>1 DEF CreditFollowsIssue
<1>2. ASSUME NEW s \in Pieces, Saves(s) \/ Erases(s) \/ Drafts(s) \/ Undrafts(s)
      PROVE  CreditFollowsIssue'
  BY <1>0, <1>2 DEF CreditFollowsIssue, Saves, Erases, Drafts, Undrafts, Piece
<1>3. ASSUME NEW c \in Clients, CommitPiece(c) \/ CommitCreditNote(c)
      PROVE  CreditFollowsIssue'
  <2>1. work[c].slot \in Pieces /\ RowHeld(c)
    BY DEF Inv, TypeOK, Held, Work
  <2> QED BY <1>0, <1>3, <2>1
          DEF CreditFollowsIssue, CommitPiece, CommitCreditNote, RowHeld, IssueSteps, Piece
<1> QED BY <1>1, <1>2, <1>3, PieceMoves

\* Only a commit advances a sequence, by the number it allocated.
LEMMA CounterMoves ==
    ASSUME [Next]_vars
    PROVE  counter' = counter \/ \E c \in Clients : CommitPiece(c) \/ CommitCreditNote(c)
BY DEF Next, vars, Generate, Issue, Rollback, CheckQuote, ComposeDeposit, ComposeSituation,
       ComposeFinal, Composed, SaveDraft, LockPiece, LockCreditNote, LockQuote, Allocate,
       WritePiece, WriteCreditNote, CreateCreditNote, DeleteDraft, DeleteDraftCreditNote,
       ExerciseRetractation, DelayPasses

\* Nothing else than a commit touches what has a number.
LEMMA SameNumbers ==
    ASSUME Inv, counter' = counter,
           \A s \in Pieces :
              /\ piece'[s].status = "live" <=> piece[s].status = "live"
              /\ piece'[s].credit = "live" <=> piece[s].credit = "live"
              /\ piece[s].status = "live" => piece'[s].number = piece[s].number
              /\ piece[s].credit = "live" => piece'[s].creditNumber = piece[s].creditNumber
    PROVE  Counted'
<1>1. Live' = Live /\ Notes' = Notes
  BY DEF Live, Notes, Credited
<1>2. \A s \in Live : piece'[s].number = piece[s].number
  BY DEF Live
<1>3. \A s \in Notes : piece'[s].creditNumber = piece[s].creditNumber
  BY DEF Notes, Credited
<1>4. {piece'[s].number : s \in Live} = {piece[s].number : s \in Live}
  BY <1>2
<1>5. {piece'[s].creditNumber : s \in Notes} = {piece[s].creditNumber : s \in Notes}
  BY <1>3
<1> QED BY <1>1, <1>4, <1>5 DEF Inv, Counted

\* A sequence counts the live pieces, before and after a commit.
LEMMA CountedStep == Inv /\ [Next]_vars => Counted'
<1> SUFFICES ASSUME Inv, [Next]_vars PROVE Counted'
  OBVIOUS
<1>0. /\ piece \in [Pieces -> Piece] /\ CreditFollowsIssue /\ Counted
      /\ NoPiece.status = "none" /\ NoPiece.credit = "none"
      /\ counter \in [invoice : Numbers, credit : Numbers]
      /\ counter.invoice \in Nat /\ counter.credit \in Nat
  BY PiecesFinite DEF Inv, TypeOK, NoPiece, Numbers
<1>1. CASE piece' = piece /\ counter' = counter
  BY <1>1, SameNumbers
<1>2. ASSUME NEW s \in Pieces, Saves(s) \/ Erases(s) \/ Drafts(s) \/ Undrafts(s),
             counter' = counter
      PROVE  Counted'
  <2> DEFINE Same(t) ==
           /\ piece'[t].status = "live" <=> piece[t].status = "live"
           /\ piece'[t].credit = "live" <=> piece[t].credit = "live"
           /\ piece[t].status = "live" => piece'[t].number = piece[t].number
           /\ piece[t].credit = "live" => piece'[t].creditNumber = piece[t].creditNumber
  <2>1. \A t \in Pieces : t # s => Same(t)
    BY <1>0, <1>2 DEF Saves, Erases, Drafts, Undrafts
  <2>2. ASSUME Saves(s) \/ Erases(s) PROVE Same(s)
    BY <1>0, <2>2 DEF CreditFollowsIssue, Saves, Erases
  <2>3. ASSUME Drafts(s) PROVE Same(s)
    BY <1>0, <2>3 DEF Drafts, Piece
  <2>4. ASSUME Undrafts(s) PROVE Same(s)
    BY <1>0, <2>4 DEF Undrafts, Piece
  <2>5. Same(s)
    BY <1>2, <2>2, <2>3, <2>4
  <2> QED BY <1>2, <2>1, <2>5, SameNumbers
<1>3. ASSUME NEW c \in Clients, CommitPiece(c) PROVE Counted'
  <2> DEFINE s == work[c].slot
             n == counter.invoice + 1
  <2>1. /\ s \in Pieces /\ piece[s].status = "draft" /\ piece[s].credit = "none"
        /\ work[c].number = n
    <3>1. s \in Pieces /\ RowHeld(c) /\ NumberHeld(c)
      BY DEF Inv, TypeOK, Held, Work
    <3> QED BY <1>0, <1>3, <3>1
            DEF RowHeld, NumberHeld, CreditFollowsIssue, CommitPiece, IssueSteps
  <2>2. counter' = [counter EXCEPT !.invoice = n]
    BY <1>3, <2>1 DEF CommitPiece
  <2>3. counter'.invoice = n /\ counter'.credit = counter.credit
    BY <1>0, <2>2
  <2>4. /\ piece'[s].status = "live" /\ piece'[s].number = n
        /\ \A t \in Pieces : /\ t # s => piece'[t] = piece[t]
                             /\ piece'[t].credit = piece[t].credit
                             /\ piece'[t].creditNumber = piece[t].creditNumber
    BY <1>0, <1>3, <2>1 DEF CommitPiece, Piece
  <2> HIDE DEF s, n
  <2>5. s \notin Live /\ Live' = Live \cup {s} /\ Notes' = Notes
    BY <2>1, <2>4 DEF Live, Notes, Credited
  <2>6. Cardinality(Live') = Cardinality(Live) + 1
    BY <2>1, <2>5, RoomForOne DEF Live
  <2>7. {piece'[t].number : t \in Live'} = 1..n
    <3>1. \A t \in Live : piece'[t].number = piece[t].number
      BY <2>4, <2>5 DEF Live
    <3>2. {piece'[t].number : t \in Live \cup {s}} = {piece[t].number : t \in Live} \cup {n}
      BY <2>4, <3>1
    <3>3. {piece[t].number : t \in Live} = 1..counter.invoice
      BY <1>0 DEF Counted
    <3>4. (1..counter.invoice) \cup {n} = 1..n
      BY <1>0 DEF n
    <3> QED BY <2>5, <3>2, <3>3, <3>4
  <2>8. {piece'[t].creditNumber : t \in Notes'} = {piece[t].creditNumber : t \in Notes}
    BY <2>4, <2>5 DEF Notes
  <2> QED BY <1>0, <2>3, <2>5, <2>6, <2>7, <2>8 DEF Counted, n
<1>4. ASSUME NEW c \in Clients, CommitCreditNote(c) PROVE Counted'
  <2> DEFINE s == work[c].slot
             n == counter.credit + 1
  <2>1. s \in Pieces /\ piece[s].credit = "draft" /\ work[c].number = n
    <3>1. s \in Pieces /\ RowHeld(c) /\ NumberHeld(c)
      BY DEF Inv, TypeOK, Held, Work
    <3> QED BY <1>0, <1>4, <3>1 DEF RowHeld, NumberHeld, CommitCreditNote, IssueSteps
  <2>2. counter' = [counter EXCEPT !.credit = n]
    BY <1>4, <2>1 DEF CommitCreditNote
  <2>3. counter'.credit = n /\ counter'.invoice = counter.invoice
    BY <1>0, <2>2
  <2>4. /\ piece'[s].credit = "live" /\ piece'[s].creditNumber = n
        /\ \A t \in Pieces : /\ t # s => piece'[t] = piece[t]
                             /\ piece'[t].status = piece[t].status
                             /\ piece'[t].number = piece[t].number
    BY <1>0, <1>4, <2>1 DEF CommitCreditNote, Piece
  <2> HIDE DEF s, n
  <2>5. s \notin Notes /\ Notes' = Notes \cup {s} /\ Live' = Live
    BY <2>1, <2>4 DEF Live, Notes, Credited
  <2>6. Cardinality(Notes') = Cardinality(Notes) + 1
    BY <2>1, <2>5, RoomForOne DEF Notes
  <2>7. {piece'[t].creditNumber : t \in Notes'} = 1..n
    <3>1. \A t \in Notes : piece'[t].creditNumber = piece[t].creditNumber
      BY <2>4, <2>5 DEF Notes
    <3>2. {piece'[t].creditNumber : t \in Notes \cup {s}}
            = {piece[t].creditNumber : t \in Notes} \cup {n}
      BY <2>4, <3>1
    <3>3. {piece[t].creditNumber : t \in Notes} = 1..counter.credit
      BY <1>0 DEF Counted
    <3>4. (1..counter.credit) \cup {n} = 1..n
      BY <1>0 DEF n
    <3> QED BY <2>5, <3>2, <3>3, <3>4
  <2>8. {piece'[t].number : t \in Live'} = {piece[t].number : t \in Live}
    BY <2>4, <2>5 DEF Live
  <2> QED BY <1>0, <2>3, <2>5, <2>6, <2>7, <2>8 DEF Counted, n
<1> QED BY <1>1, <1>2, <1>3, <1>4, PieceMoves, CounterMoves

---------------------------------------------------------------------------
(* The locks.                                                              *)

\* The locks of a request at step w.
HasRow(w, s, credit) == w.at \in IssueSteps /\ w.slot = s /\ w.credit = credit
HasQuote(w) ==
    \/ w.at \in {"guarded", "numbered", "written"} /\ ~w.credit
    \/ w.at = "written" /\ TakesQuoteLate(w)
HasCounter(w, credit) == w.at \in {"numbered", "written"} /\ w.credit = credit
HasSisters(w) == w.at = "written" /\ w.slot = Final /\ ~w.credit

Excludes(v, w) ==
    /\ ~(HasQuote(v) /\ HasQuote(w))
    /\ \A credit \in BOOLEAN : ~(HasCounter(v, credit) /\ HasCounter(w, credit))
    /\ \A s \in Pieces, credit \in BOOLEAN :
        /\ ~(HasRow(v, s, credit) /\ HasRow(w, s, credit))
        /\ s # Final => ~(HasSisters(v) /\ HasRow(w, s, credit))

\* The locks a request holds depend on its own step alone.
LEMMA LocksAtWork ==
    ASSUME LocksExclude
    PROVE  \A c, d \in Clients : c # d => Excludes(work[c], work[d])
BY DEF LocksExclude, Excludes, HasRow, HasQuote, HasCounter, HasSisters,
       LocksRow, LocksQuote, LocksCounter, SharesSisters

\* The request that moves must fit beside each of the others.
LEMMA OneMoves ==
    ASSUME Inv, NEW c \in Clients, NEW w, work' = [work EXCEPT ![c] = w],
           \A d \in Clients \ {c} : Excludes(w, work[d]) /\ Excludes(work[d], w)
    PROVE  LocksExclude'
<1>1. work \in [Clients -> Work] /\ \A a, b \in Clients : a # b => Excludes(work[a], work[b])
  BY LocksAtWork DEF Inv, TypeOK
<1>2. \A a, b \in Clients : a # b => Excludes(work'[a], work'[b])
  BY <1>1
<1> QED BY <1>2 DEF LocksExclude, Excludes, HasRow, HasQuote, HasCounter, HasSisters,
            LocksRow, LocksQuote, LocksCounter, SharesSisters

\* No step takes a lock that another request holds.
LEMMA LocksExcludeStep == Inv /\ [Next]_vars => LocksExclude'
<1> SUFFICES ASSUME Inv, [Next]_vars PROVE LocksExclude'
  OBVIOUS
<1> DEFINE Others(c) == Clients \ {c}
<1>0. /\ work \in [Clients -> Work] /\ LocksExclude
      /\ \A a, b \in Clients : a # b => Excludes(work[a], work[b])
  BY LocksAtWork DEF Inv, TypeOK
<1>1. CASE work' = work
  BY <1>0, <1>1 DEF LocksExclude, LocksRow, LocksQuote, LocksCounter, SharesSisters
<1>2. ASSUME NEW c \in Clients, NEW w, work' = [work EXCEPT ![c] = w],
             w.at \in {"idle", "checked", "composed"}
      PROVE  LocksExclude'
  <2>1. \A d \in Others(c) : Excludes(w, work[d]) /\ Excludes(work[d], w)
    BY <1>2 DEF Excludes, HasRow, HasQuote, HasCounter, HasSisters, IssueSteps
  <2> QED BY <1>2, <2>1, OneMoves
<1>3. ASSUME NEW c \in Clients, Generate(c) \/ Rollback(c) PROVE LocksExclude'
  <2>1. ASSUME NEW kind \in Kinds, CheckQuote(c, kind) PROVE LocksExclude'
    BY <1>2, <2>1 DEF CheckQuote, Idle
  <2>2. CASE ComposeDeposit(c) \/ ComposeSituation(c) \/ ComposeFinal(c)
    BY <1>2, <2>2 DEF ComposeDeposit, ComposeSituation, ComposeFinal, Composed, Idle
  <2>3. CASE SaveDraft(c) \/ Rollback(c)
    BY <1>2, <2>3 DEF SaveDraft, Rollback, Idle
  <2> QED BY <1>3, <2>1, <2>2, <2>3 DEF Generate
<1>4. ASSUME NEW c \in Clients, NEW s \in Pieces, NEW credit \in BOOLEAN, NEW w,
             work' = [work EXCEPT ![c] = w], RowFree(s, credit),
             w.at = "locked", w.slot = s, w.credit = credit
      PROVE  LocksExclude'
  <2>1. \A d \in Others(c) : ~HasRow(work[d], s, credit) /\ (s # Final => ~HasSisters(work[d]))
    BY <1>4 DEF RowFree, LocksRow, SharesSisters, HasRow, HasSisters
  <2>2. \A d \in Others(c) : Excludes(w, work[d]) /\ Excludes(work[d], w)
    BY <1>4, <2>1 DEF Excludes, HasRow, HasQuote, HasCounter, HasSisters
  <2> QED BY <1>4, <2>2, OneMoves
<1>5. ASSUME NEW c \in Clients, NEW s \in Pieces, LockPiece(c, s) \/ LockCreditNote(c, s)
      PROVE  LocksExclude'
  <2> DEFINE v == [Idle EXCEPT !.at = "locked", !.slot = s]
             w == [Idle EXCEPT !.at = "locked", !.slot = s, !.credit = TRUE]
  <2>1. /\ v.at = "locked" /\ v.slot = s /\ v.credit = FALSE
        /\ w.at = "locked" /\ w.slot = s /\ w.credit = TRUE
    BY DEF Idle
  <2>2. CASE LockPiece(c, s)
    <3>1. work' = [work EXCEPT ![c] = v] /\ RowFree(s, FALSE)
      BY <2>2 DEF LockPiece
    <3> QED BY <1>4, <2>1, <3>1
  <2>3. CASE LockCreditNote(c, s)
    <3>1. work' = [work EXCEPT ![c] = w] /\ RowFree(s, TRUE)
      BY <2>3 DEF LockCreditNote
    <3> QED BY <1>4, <2>1, <3>1
  <2> QED BY <1>5, <2>2, <2>3
<1>6. ASSUME NEW c \in Clients, LockQuote(c) PROVE LocksExclude'
  <2> DEFINE w == [work[c] EXCEPT !.at = "guarded"]
  <2>1. \A d \in Others(c) : ~HasQuote(work[d])
    BY <1>6 DEF LockQuote, QuoteFree, LocksQuote, HasQuote
  <2>2. work' = [work EXCEPT ![c] = w] /\ w.at = "guarded" /\ work[c].at = "locked"
        /\ w.slot = work[c].slot /\ w.credit = work[c].credit /\ ~w.credit
    BY <1>0, <1>6 DEF LockQuote, Work
  <2> HIDE DEF w
  <2>3. \A d \in Others(c) : Excludes(w, work[d]) /\ Excludes(work[d], w)
    BY <1>0, <2>1, <2>2
       DEF Excludes, HasRow, HasQuote, HasCounter, HasSisters, IssueSteps, TakesQuoteLate
  <2> QED BY <2>2, <2>3, OneMoves
<1>7. ASSUME NEW c \in Clients, Allocate(c) PROVE LocksExclude'
  <2>1. \A d \in Others(c) : ~HasCounter(work[d], work[c].credit)
    BY <1>7 DEF Allocate, LocksCounter, HasCounter
  <2> DEFINE last == IF work[c].credit THEN counter.credit ELSE counter.invoice
             w == [work[c] EXCEPT !.at = "numbered", !.number = last + 1]
  <2>2. /\ work' = [work EXCEPT ![c] = w] /\ w.at = "numbered"
        /\ w.slot = work[c].slot /\ w.credit = work[c].credit
        /\ work[c].at = IF w.credit THEN "locked" ELSE "guarded"
    <3>1. work' = [work EXCEPT ![c].at = "numbered", ![c].number = last + 1]
      BY <1>7 DEF Allocate
    <3> HIDE DEF last
    <3>2. w.at = "numbered" /\ w.slot = work[c].slot /\ w.credit = work[c].credit
      BY <1>0 DEF Work
    <3>3. work[c].at = IF work[c].credit THEN "locked" ELSE "guarded"
      BY <1>7 DEF Allocate
    <3> QED BY <1>0, <3>1, <3>2, <3>3
  <2> HIDE DEF w
  <2>3. \A d \in Others(c) : Excludes(w, work[d]) /\ Excludes(work[d], w)
    BY <1>0, <2>1, <2>2
       DEF Excludes, HasRow, HasQuote, HasCounter, HasSisters, IssueSteps, TakesQuoteLate
  <2> QED BY <2>2, <2>3, OneMoves
<1>8. ASSUME NEW c \in Clients, WritePiece(c) \/ WriteCreditNote(c) PROVE LocksExclude'
  <2> DEFINE w == [work[c] EXCEPT !.at = "written"]
  <2>1. ~w.credit /\ w.slot = Final =>
            \A d \in Others(c), s \in Calls, credit \in BOOLEAN : ~HasRow(work[d], s, credit)
    BY <1>0, <1>8 DEF WritePiece, WriteCreditNote, SistersFree, LocksRow, HasRow, Work
  <2>2. TakesQuoteLate(w) => \A d \in Others(c) : ~HasQuote(work[d])
    BY <1>0, <1>8 DEF WritePiece, WriteCreditNote, QuoteFree, LocksQuote, HasQuote,
                      TakesQuoteLate, Work
  <2>3. work' = [work EXCEPT ![c] = w] /\ w.at = "written" /\ work[c].at = "numbered"
        /\ w.slot = work[c].slot /\ w.credit = work[c].credit
    BY <1>0, <1>8 DEF WritePiece, WriteCreditNote, Work
  <2> HIDE DEF w
  <2>4. \A d \in Others(c) : Excludes(w, work[d]) /\ Excludes(work[d], w)
    BY <1>0, <2>1, <2>2, <2>3
       DEF Excludes, HasRow, HasQuote, HasCounter, HasSisters, IssueSteps, Pieces
  <2> QED BY <2>3, <2>4, OneMoves
<1>9. ASSUME NEW c \in Clients, CommitPiece(c) \/ CommitCreditNote(c) PROVE LocksExclude'
  BY <1>2, <1>9 DEF CommitPiece, CommitCreditNote, Idle
<1>10. ASSUME NEW c \in Clients, Issue(c) PROVE LocksExclude'
  BY <1>5, <1>6, <1>7, <1>8, <1>9, <1>10 DEF Issue
<1>11. ASSUME NEW s \in Pieces,
              CreateCreditNote(s) \/ DeleteDraft(s) \/ DeleteDraftCreditNote(s)
       PROVE  LocksExclude'
  BY <1>1, <1>11 DEF CreateCreditNote, DeleteDraft, DeleteDraftCreditNote
<1>12. CASE ExerciseRetractation \/ DelayPasses
  BY <1>1, <1>12 DEF ExerciseRetractation, DelayPasses
<1> QED BY <1>1, <1>3, <1>10, <1>11, <1>12 DEF Next, vars

---------------------------------------------------------------------------
(* What a request has read behind its locks stays true.                    *)

\* A step leaves a request where it is, ends it, or is one of its own.
LEMMA WorkMoves ==
    ASSUME Inv, [Next]_vars, NEW d \in Clients
    PROVE  \/ work'[d] = work[d]
           \/ work'[d].at \in {"idle", "checked", "composed"}
           \/ \E s \in Pieces : LockPiece(d, s) \/ LockCreditNote(d, s)
           \/ LockQuote(d) \/ Allocate(d) \/ WritePiece(d) \/ WriteCreditNote(d)
<1>0. work \in [Clients -> Work]
  BY DEF Inv, TypeOK
<1>1. CASE work' = work
  BY <1>1
<1>2. ASSUME NEW c \in Clients, NEW w, work' = [work EXCEPT ![c] = w],
             w.at \in {"idle", "checked", "composed"}
      PROVE  work'[d] = work[d] \/ work'[d].at \in {"idle", "checked", "composed"}
  BY <1>0, <1>2
<1>3. ASSUME NEW c \in Clients, Generate(c) \/ Rollback(c)
      PROVE  work'[d] = work[d] \/ work'[d].at \in {"idle", "checked", "composed"}
  <2>1. ASSUME NEW kind \in Kinds, CheckQuote(c, kind)
        PROVE  work'[d] = work[d] \/ work'[d].at \in {"idle", "checked", "composed"}
    BY <1>2, <2>1 DEF CheckQuote, Idle
  <2>2. CASE ComposeDeposit(c) \/ ComposeSituation(c) \/ ComposeFinal(c)
    BY <1>2, <2>2 DEF ComposeDeposit, ComposeSituation, ComposeFinal, Composed, Idle
  <2>3. CASE SaveDraft(c) \/ Rollback(c)
    BY <1>2, <2>3 DEF SaveDraft, Rollback, Idle
  <2> QED BY <1>3, <2>1, <2>2, <2>3 DEF Generate
<1>4. ASSUME NEW c \in Clients, CommitPiece(c) \/ CommitCreditNote(c)
      PROVE  work'[d] = work[d] \/ work'[d].at \in {"idle", "checked", "composed"}
  BY <1>2, <1>4 DEF CommitPiece, CommitCreditNote, Idle
<1>5. ASSUME NEW c \in Clients, c # d,
             \/ \E s \in Pieces : LockPiece(c, s) \/ LockCreditNote(c, s)
             \/ LockQuote(c) \/ Allocate(c) \/ WritePiece(c) \/ WriteCreditNote(c)
      PROVE  work'[d] = work[d]
  BY <1>0, <1>5 DEF LockPiece, LockCreditNote, LockQuote, Allocate, WritePiece, WriteCreditNote
<1>6. ASSUME NEW s \in Pieces,
             CreateCreditNote(s) \/ DeleteDraft(s) \/ DeleteDraftCreditNote(s)
      PROVE  work' = work
  BY <1>6 DEF CreateCreditNote, DeleteDraft, DeleteDraftCreditNote
<1>7. CASE ExerciseRetractation \/ DelayPasses
  BY <1>7 DEF ExerciseRetractation, DelayPasses
<1> QED BY <1>1, <1>3, <1>4, <1>5, <1>6, <1>7 DEF Next, vars, Issue

\* What a lock excludes.
LEMMA LockedRow ==
    ASSUME Inv, NEW d \in Clients, work[d].at \in IssueSteps
    PROVE  ~RowFree(work[d].slot, work[d].credit)
BY DEF RowFree, LocksRow

\* The row a request has locked stays as the request read it.
LEMMA RowHeldStep ==
    ASSUME Inv, [Next]_vars, NEW d \in Clients
    PROVE  RowHeld(d)'
<1>0. /\ piece \in [Pieces -> Piece] /\ work \in [Clients -> Work] /\ CreditFollowsIssue
      /\ work[d].slot \in Pieces /\ work[d].credit \in BOOLEAN /\ RowHeld(d)
      /\ Idle.credit = FALSE /\ NoPiece.status = "none"
  BY DEF Inv, TypeOK, Work, Held, Idle, NoPiece
<1>1. ASSUME work'[d] = work[d], work[d].at \in IssueSteps
      PROVE  RowHeld(d)'
  <2>0. /\ IF work[d].credit THEN piece[work[d].slot].credit = "draft"
                             ELSE piece[work[d].slot].status = "draft"
        /\ ~RowFree(work[d].slot, work[d].credit)
        /\ work[d].credit => piece[work[d].slot].status = "live"
    BY <1>0, <1>1, LockedRow DEF RowHeld, CreditFollowsIssue
  <2>1. CASE piece' = piece
    BY <1>0, <1>1, <2>1 DEF RowHeld
  <2>2. ASSUME NEW s \in Pieces, Saves(s) \/ Erases(s) PROVE RowHeld(d)'
    <3>1. s # work[d].slot
      BY <1>0, <2>0, <2>2 DEF Saves, Erases
    <3>2. piece'[work[d].slot] = piece[work[d].slot]
      BY <1>0, <2>2, <3>1 DEF Saves, Erases
    <3> QED BY <1>0, <1>1, <3>2 DEF RowHeld
  <2>3. ASSUME NEW s \in Pieces, Drafts(s) \/ Undrafts(s) PROVE RowHeld(d)'
    <3>1. work[d].credit => s # work[d].slot
      BY <1>0, <2>0, <2>3 DEF Drafts, Undrafts
    <3>2. /\ piece'[work[d].slot].status = piece[work[d].slot].status
          /\ work[d].credit => piece'[work[d].slot] = piece[work[d].slot]
      BY <1>0, <2>3, <3>1, DraftEffect
    <3> QED BY <1>0, <1>1, <3>2 DEF RowHeld
  <2>4. ASSUME NEW c \in Clients, CommitPiece(c) \/ CommitCreditNote(c) PROVE RowHeld(d)'
    <3>1. c # d /\ work[c].slot \in Pieces
      BY <1>0, <1>1, <2>4 DEF CommitPiece, CommitCreditNote, Idle, IssueSteps, Work
    <3>2. (work[c].credit <=> work[d].credit) => work[c].slot # work[d].slot
      <4>1. Excludes(work[c], work[d])
        BY <3>1, LocksAtWork DEF Inv
      <4>2. work[c].at = "written" /\ work[c].credit \in BOOLEAN
        BY <1>0, <2>4 DEF CommitPiece, CommitCreditNote, Work
      <4> QED BY <1>0, <1>1, <3>1, <4>1, <4>2 DEF Excludes, HasRow, IssueSteps
    <3>3. IF work[d].credit THEN piece'[work[d].slot].credit = piece[work[d].slot].credit
                            ELSE piece'[work[d].slot].status = piece[work[d].slot].status
      <4>1. CASE CommitPiece(c)
        BY <1>0, <3>1, <3>2, <4>1, CommitEffect
      <4>2. CASE CommitCreditNote(c)
        BY <1>0, <3>1, <3>2, <4>2, CommitEffect
      <4> QED BY <2>4, <4>1, <4>2
    <3> QED BY <1>0, <1>1, <3>3 DEF RowHeld
  <2> QED BY <2>1, <2>2, <2>3, <2>4, PieceMoves
<1>2. CASE work'[d].at \notin IssueSteps
  BY <1>2 DEF RowHeld
<1>3. ASSUME NEW s \in Pieces, LockPiece(d, s) \/ LockCreditNote(d, s) PROVE RowHeld(d)'
  BY <1>0, <1>3 DEF RowHeld, LockPiece, LockCreditNote, Idle
<1>4. ASSUME LockQuote(d) \/ Allocate(d) \/ WritePiece(d) \/ WriteCreditNote(d)
      PROVE  RowHeld(d)'
  <2>1. /\ work[d].at \in IssueSteps /\ piece' = piece
        /\ work'[d].slot = work[d].slot /\ work'[d].credit = work[d].credit
    BY <1>0, <1>4 DEF LockQuote, Allocate, WritePiece, WriteCreditNote, IssueSteps, Work
  <2> QED BY <1>0, <2>1 DEF RowHeld
<1> QED BY <1>1, <1>2, <1>3, <1>4, WorkMoves DEF IssueSteps, RowHeld

\* Only the commit of a piece, or of its credit note, changes whether it stands.
LEMMA EmittedMoves ==
    ASSUME Inv, [Next]_vars, NEW s \in Pieces,
           \A c \in Clients : CommitPiece(c) \/ CommitCreditNote(c) => work[c].slot # s
    PROVE  Emitted(s)' <=> Emitted(s)
<1>0. piece \in [Pieces -> Piece] /\ NoPiece.status = "none"
  BY DEF Inv, TypeOK, NoPiece
<1>1. CASE piece' = piece
  BY <1>1 DEF Emitted, Credited
<1>2. ASSUME NEW t \in Pieces, Saves(t) \/ Erases(t) PROVE Emitted(s)' <=> Emitted(s)
  BY <1>0, <1>2 DEF Emitted, Credited, Saves, Erases
<1>3. ASSUME NEW t \in Pieces, Drafts(t) \/ Undrafts(t) PROVE Emitted(s)' <=> Emitted(s)
  BY <1>0, <1>3, DraftEffect DEF Emitted, Credited
<1>4. ASSUME NEW c \in Clients, CommitPiece(c) \/ CommitCreditNote(c)
      PROVE  Emitted(s)' <=> Emitted(s)
  BY <1>4, CommitEffect DEF Emitted, Credited
<1> QED BY <1>1, <1>2, <1>3, <1>4, PieceMoves

\* What a piece deducts is written with its draft.
LEMMA DeductsMoves ==
    ASSUME Inv, [Next]_vars, NEW s \in Pieces
    PROVE  piece'[s].deducts = piece[s].deducts \/ Saves(s) \/ Erases(s)
<1>0. piece \in [Pieces -> Piece]
  BY DEF Inv, TypeOK
<1>1. CASE piece' = piece
  BY <1>1
<1>2. ASSUME NEW t \in Pieces, t # s, Saves(t) \/ Erases(t) PROVE piece'[s] = piece[s]
  BY <1>0, <1>2 DEF Saves, Erases
<1>3. ASSUME NEW t \in Pieces, Drafts(t) \/ Undrafts(t)
      PROVE  piece'[s].deducts = piece[s].deducts
  BY <1>0, <1>3, DraftEffect
<1>4. ASSUME NEW c \in Clients, CommitPiece(c) \/ CommitCreditNote(c)
      PROVE  piece'[s].deducts = piece[s].deducts
  BY <1>4, CommitEffect
<1> QED BY <1>1, <1>2, <1>3, <1>4, PieceMoves

\* The quote only moves by a withdrawal, or by passing time.
LEMMA QuoteMoves ==
    ASSUME [Next]_vars
    PROVE  quote' = quote \/ ExerciseRetractation \/ DelayPasses
BY DEF Next, vars, Generate, Issue, Rollback, CheckQuote, ComposeDeposit, ComposeSituation,
       ComposeFinal, Composed, SaveDraft, LockPiece, LockCreditNote, LockQuote, Allocate,
       WritePiece, WriteCreditNote, CommitPiece, CommitCreditNote,
       CreateCreditNote, DeleteDraft, DeleteDraftCreditNote

\* Behind the quote's lock there is no withdrawal.
LEMMA QuoteHeldStep ==
    ASSUME Inv, [Next]_vars, NEW d \in Clients
    PROVE  QuoteHeld(d)'
<1> USE PieceNames
<1> DEFINE Past(w) == w.at \in {"guarded", "numbered", "written"} /\ ~w.credit
<1>0. /\ work \in [Clients -> Work] /\ work[d].slot \in Pieces /\ QuoteHeld(d)
      /\ quote \in [consumer : BOOLEAN, early : BOOLEAN, delayRuns : BOOLEAN, retracted : BOOLEAN]
  BY DEF Inv, TypeOK, Work, Held
<1>1. ASSUME Past(work[d]), work'[d] = work[d] PROVE QuoteHeld(d)'
  <2>1. LocksQuote(d)
    BY <1>1 DEF LocksQuote
  <2>2. ~quote'.retracted /\ ~Frozen(work[d].slot)'
    <3>1. ~quote.retracted /\ ~Frozen(work[d].slot)
      BY <1>0, <1>1 DEF QuoteHeld
    <3>2. ~ExerciseRetractation
      BY <2>1 DEF ExerciseRetractation, QuoteFree
    <3>3. CASE quote' = quote
      BY <1>1, <3>1, <3>3 DEF Frozen
    <3>4. CASE DelayPasses
      BY <1>0, <1>1, <3>1, <3>4 DEF Frozen, DelayPasses
    <3> QED BY <3>2, <3>3, <3>4, QuoteMoves
  <2>3. ASSUME work[d].slot \in Calls PROVE ~Emitted(Final)'
    <3>1. ~Emitted(Final)
      BY <1>0, <1>1, <2>3 DEF QuoteHeld
    <3>2. ASSUME NEW c \in Clients, CommitPiece(c) PROVE work[c].slot # Final
      <4>1. LocksQuote(c)
        BY <3>2 DEF CommitPiece, LocksQuote
      <4>2. c = d
        BY <2>1, <4>1 DEF Inv, LocksExclude
      <4> QED BY <2>3, <4>2
    <3>3. ASSUME NEW c \in Clients, CommitCreditNote(c), work[c].slot = Final
          PROVE  ~Emitted(Final)'
      BY <3>3, CommitEffect DEF Emitted, Credited
    <3> QED BY <3>1, <3>2, <3>3, EmittedMoves
  <2> QED BY <1>1, <2>2, <2>3 DEF QuoteHeld
<1>2. CASE ~Past(work'[d])
  BY <1>2 DEF QuoteHeld
<1>3. ASSUME LockQuote(d) PROVE QuoteHeld(d)'
  <2>1. MayIssue(work[d].slot) /\ UNCHANGED <<quote, piece>> /\ work'[d].slot = work[d].slot
    BY <1>0, <1>3 DEF LockQuote, Work
  <2> QED BY <2>1 DEF QuoteHeld, MayIssue, Frozen, Emitted, Credited
<1>4. ASSUME Allocate(d) \/ WritePiece(d) \/ WriteCreditNote(d) PROVE QuoteHeld(d)'
  <2>1. /\ UNCHANGED <<quote, piece>> /\ work'[d].slot = work[d].slot
        /\ work'[d].credit = work[d].credit /\ (~work[d].credit => Past(work[d]))
    BY <1>0, <1>4 DEF Allocate, WritePiece, WriteCreditNote, Work
  <2> QED BY <1>0, <2>1 DEF QuoteHeld, Frozen, Emitted, Credited
<1>5. ASSUME NEW s \in Pieces, LockPiece(d, s) \/ LockCreditNote(d, s) PROVE ~Past(work'[d])
  BY <1>0, <1>5 DEF LockPiece, LockCreditNote, Idle
<1> QED BY <1>1, <1>2, <1>3, <1>4, <1>5, WorkMoves

\* The number a request has allocated is the next one until it commits.
LEMMA NumberHeldStep ==
    ASSUME Inv, [Next]_vars, NEW d \in Clients
    PROVE  NumberHeld(d)'
<1>0. /\ work \in [Clients -> Work] /\ work[d].credit \in BOOLEAN /\ NumberHeld(d)
      /\ counter \in [invoice : Numbers, credit : Numbers]
      /\ counter.invoice \in Nat /\ counter.credit \in Nat
  BY PiecesFinite DEF Inv, TypeOK, Work, Held, Numbers
<1>1. ASSUME work[d].at \in {"numbered", "written"}, work'[d] = work[d] PROVE NumberHeld(d)'
  <2>1. CASE counter' = counter
    BY <1>0, <1>1, <2>1 DEF NumberHeld
  <2>2. ASSUME NEW c \in Clients, CommitPiece(c) \/ CommitCreditNote(c) PROVE NumberHeld(d)'
    <3>1. c # d /\ work[c].credit \in BOOLEAN
      BY <1>0, <1>1, <2>2 DEF CommitPiece, CommitCreditNote, Idle, Work
    <3>2. CASE CommitPiece(c)
      <4>1. work[d].credit
        BY <1>0, <1>1, <3>1, <3>2 DEF Inv, LocksExclude, LocksCounter, CommitPiece
      <4> QED BY <1>0, <1>1, <3>2, <4>1 DEF CommitPiece, NumberHeld
    <3>3. CASE CommitCreditNote(c)
      <4>1. ~work[d].credit
        BY <1>0, <1>1, <3>1, <3>3 DEF Inv, LocksExclude, LocksCounter, CommitCreditNote
      <4> QED BY <1>0, <1>1, <3>3, <4>1 DEF CommitCreditNote, NumberHeld
    <3> QED BY <2>2, <3>2, <3>3
  <2> QED BY <2>1, <2>2, CounterMoves
<1>2. CASE work'[d].at \notin {"numbered", "written"}
  BY <1>2 DEF NumberHeld
<1>3. ASSUME Allocate(d) PROVE NumberHeld(d)'
  <2> DEFINE last == IF work[d].credit THEN counter.credit ELSE counter.invoice
  <2>1. last \in Nat
    BY <1>0
  <2>2. work' = [work EXCEPT ![d].at = "numbered", ![d].number = last + 1] /\ counter' = counter
    BY <1>3 DEF Allocate
  <2> HIDE DEF last
  <2>3. work'[d].number = 1 + last /\ work'[d].credit = work[d].credit
    BY <1>0, <2>1, <2>2 DEF Work
  <2> QED BY <2>2, <2>3 DEF NumberHeld, last
<1>4. ASSUME WritePiece(d) \/ WriteCreditNote(d) PROVE NumberHeld(d)'
  <2>1. /\ counter' = counter /\ work[d].at = "numbered"
        /\ work'[d].number = work[d].number /\ work'[d].credit = work[d].credit
    BY <1>0, <1>4 DEF WritePiece, WriteCreditNote, Work
  <2> QED BY <1>0, <2>1 DEF NumberHeld
<1>5. ASSUME \/ \E s \in Pieces : LockPiece(d, s) \/ LockCreditNote(d, s)
             \/ LockQuote(d)
      PROVE  work'[d].at \notin {"numbered", "written"}
  <2>1. ASSUME NEW s \in Pieces, LockPiece(d, s) \/ LockCreditNote(d, s)
        PROVE  work'[d].at = "locked"
    BY <1>0, <2>1 DEF LockPiece, LockCreditNote, Idle
  <2>2. ASSUME LockQuote(d) PROVE work'[d].at = "guarded"
    BY <1>0, <2>2 DEF LockQuote, Work
  <2> QED BY <1>5, <2>1, <2>2
<1> QED BY <1>1, <1>2, <1>3, <1>4, <1>5, WorkMoves

\* Behind the final's locks no sister moves: the emitted calls stay.
LEMMA SistersStay ==
    ASSUME Inv, [Next]_vars, NEW d \in Clients, work'[d] = work[d],
           work[d].at = "written", ~work[d].credit, work[d].slot = Final
    PROVE  EmittedCalls' = EmittedCalls /\ piece'[Final].deducts = piece[Final].deducts
<1> USE PieceNames
<1>0. work \in [Clients -> Work] /\ LocksQuote(d) /\ SharesSisters(d)
  BY DEF Inv, TypeOK, LocksQuote, SharesSisters
<1>1. ASSUME NEW c \in Clients, CommitPiece(c) \/ CommitCreditNote(c)
      PROVE  c # d
  BY <1>0, <1>1 DEF CommitPiece, CommitCreditNote, Idle
<1>2. ASSUME NEW s \in Calls, NEW c \in Clients, CommitPiece(c) PROVE FALSE
  <2>1. LocksQuote(c)
    BY <1>2 DEF CommitPiece, LocksQuote
  <2> QED BY <1>0, <1>1, <1>2, <2>1 DEF Inv, LocksExclude
<1>3. ASSUME NEW s \in Calls, NEW c \in Clients, CommitCreditNote(c), work[c].slot = s PROVE FALSE
  <2>1. work[c].credit \in BOOLEAN /\ LocksRow(c, s, work[c].credit)
    BY <1>0, <1>3 DEF CommitCreditNote, LocksRow, IssueSteps, Work
  <2> QED BY <1>0, <1>1, <1>3, <2>1 DEF Inv, LocksExclude
<1>4. \A s \in Calls : Emitted(s)' <=> Emitted(s)
  BY <1>2, <1>3, EmittedMoves
<1>5. ~Saves(Final) /\ ~Erases(Final)
  <2>1. piece[Final].status = "draft" /\ ~RowFree(Final, FALSE)
    BY LockedRow DEF Inv, Held, RowHeld, IssueSteps, RowFree, LocksRow
  <2> QED BY <2>1 DEF Saves, Erases
<1>6. piece'[Final].deducts = piece[Final].deducts
  BY <1>5, DeductsMoves
<1>7. EmittedCalls' = {s \in Calls : Emitted(s)'}
  BY DEF EmittedCalls
<1> QED BY <1>4, <1>6, <1>7 DEF EmittedCalls

\* Behind the lock of a call's credit note no final that deducts it appears.
LEMMA CreditStaysAllowed ==
    ASSUME Inv, [Next]_vars, NEW d \in Clients, work'[d] = work[d],
           work[d].at = "written", work[d].credit
    PROVE  CreditAllowed(work[d].slot)'
<1> USE PieceNames
<1>0. /\ work \in [Clients -> Work] /\ piece \in [Pieces -> Piece]
      /\ work[d].slot \in Pieces /\ CreditAllowed(work[d].slot)
      /\ piece[Final].deducts \subseteq Calls
  BY DEF Inv, TypeOK, Work, Held, SistersHeld, Piece
<1>1. CASE Saves(Final) \/ Erases(Final)
  <2>1. NoPiece.status = "none"
    BY DEF NoPiece
  <2>2. piece'[Final].status # "live"
    BY <1>0, <1>1, <2>1 DEF Saves, Erases
  <2> QED BY <2>2 DEF CreditAllowed, Emitted
<1>2. CASE ~Saves(Final) /\ ~Erases(Final)
  <2>1. piece'[Final].deducts = piece[Final].deducts
    BY <1>2, DeductsMoves
  <2>2. CASE work[d].slot = Final
    BY <1>0, <2>1, <2>2 DEF CreditAllowed
  <2>3. CASE work[d].slot # Final
    <3>1. ASSUME NEW c \in Clients, CommitPiece(c) PROVE work[c].slot # Final
      <4>1. SUFFICES ASSUME work[c].slot = Final PROVE FALSE
        OBVIOUS
      <4>2. c # d /\ SharesSisters(c)
        BY <3>1, <4>1 DEF CommitPiece, SharesSisters
      <4>3. LocksRow(d, work[d].slot, work[d].credit) /\ work[d].credit \in BOOLEAN
        BY <1>0 DEF LocksRow, IssueSteps, Work
      <4> QED BY <1>0, <2>3, <4>2, <4>3 DEF Inv, LocksExclude
    <3>2. ASSUME NEW c \in Clients, CommitCreditNote(c), work[c].slot = Final
          PROVE  ~Emitted(Final)'
      BY <3>2, CommitEffect DEF Emitted, Credited
    <3>3. Emitted(Final)' => Emitted(Final)
      BY <3>1, <3>2, EmittedMoves
    <3> QED BY <1>0, <2>1, <3>3 DEF CreditAllowed
  <2> QED BY <2>2, <2>3
<1> QED BY <1>1, <1>2

\* What the trigger checked of the sisters holds until the commit.
LEMMA SistersHeldStep ==
    ASSUME Inv, [Next]_vars, NEW d \in Clients
    PROVE  SistersHeld(d)'
<1>0. work \in [Clients -> Work] /\ SistersHeld(d) /\ work[d].credit \in BOOLEAN
  BY DEF Inv, TypeOK, Held, Work
<1>1. ASSUME work[d].at = "written", work'[d] = work[d] PROVE SistersHeld(d)'
  <2>1. CASE work[d].credit
    <3>1. CreditAllowed(work[d].slot)'
      BY <1>1, <2>1, CreditStaysAllowed
    <3> QED BY <1>1, <2>1, <3>1 DEF SistersHeld, CreditAllowed
  <2>2. CASE ~work[d].credit /\ work[d].slot = Final
    BY <1>0, <1>1, <2>2, SistersStay DEF SistersHeld
  <2>3. CASE ~work[d].credit /\ work[d].slot # Final
    BY <1>1, <2>3 DEF SistersHeld
  <2> QED BY <1>0, <2>1, <2>2, <2>3
<1>2. CASE work'[d].at # "written"
  BY <1>2 DEF SistersHeld
<1>3. ASSUME WritePiece(d) PROVE SistersHeld(d)'
  <2>1. /\ piece' = piece /\ work'[d].slot = work[d].slot /\ work'[d].credit = work[d].credit
        /\ ~work[d].credit /\ SettlementHolds(work[d].slot)
    BY <1>0, <1>3 DEF WritePiece, Work
  <2> QED BY <2>1 DEF SistersHeld, SettlementHolds, EmittedCalls, Emitted, Credited
<1>4. ASSUME WriteCreditNote(d) PROVE SistersHeld(d)'
  <2>1. /\ piece' = piece /\ work'[d].slot = work[d].slot /\ work'[d].credit = work[d].credit
        /\ work[d].credit /\ CreditAllowed(work[d].slot)
    BY <1>0, <1>4 DEF WriteCreditNote, Work
  <2> QED BY <2>1 DEF SistersHeld, CreditAllowed, Emitted, Credited
<1>5. ASSUME NEW s \in Pieces, LockPiece(d, s) \/ LockCreditNote(d, s)
      PROVE  work'[d].at # "written"
  BY <1>0, <1>5 DEF LockPiece, LockCreditNote, Idle
<1>6. ASSUME LockQuote(d) \/ Allocate(d) PROVE work'[d].at # "written"
  BY <1>0, <1>6 DEF LockQuote, Allocate, Work
<1> QED BY <1>1, <1>2, <1>3, <1>4, <1>5, <1>6, WorkMoves

---------------------------------------------------------------------------
(* The final deducts what stands.                                          *)

\* The deduction of a final that stands stays exact.
LEMMA FinalStep == Inv /\ [Next]_vars => FinalDeductsItsSisters'
<1> SUFFICES ASSUME Inv, [Next]_vars, Emitted(Final)'
             PROVE  piece'[Final].deducts = EmittedCalls'
  BY DEF FinalDeductsItsSisters
<1> USE PieceNames
<1>0. /\ work \in [Clients -> Work] /\ piece \in [Pieces -> Piece]
      /\ FinalDeductsItsSisters /\ NoPiece.status = "none"
  BY DEF Inv, TypeOK, NoPiece
<1>1. piece'[Final].deducts = piece[Final].deducts
  <2>1. ~Saves(Final) /\ ~Erases(Final)
    BY <1>0 DEF Saves, Erases, Emitted
  <2> QED BY <2>1, DeductsMoves
<1>2. EmittedCalls' = {s \in Calls : Emitted(s)'}
  BY DEF EmittedCalls
<1>3. ASSUME NEW c \in Clients, CommitPiece(c), work[c].slot = Final
      PROVE  piece'[Final].deducts = EmittedCalls'
  <2>1. piece[Final].deducts = EmittedCalls
    BY <1>3 DEF Inv, Held, SistersHeld, CommitPiece
  <2>2. \A t \in Calls : piece'[t] = piece[t]
    BY <1>3, CommitEffect
  <2>3. \A t \in Calls : Emitted(t)' <=> Emitted(t)
    BY <2>2 DEF Emitted, Credited
  <2> QED BY <1>1, <1>2, <2>1, <2>3 DEF EmittedCalls
<1>4. ASSUME \A c \in Clients : CommitPiece(c) => work[c].slot # Final
      PROVE  piece'[Final].deducts = EmittedCalls'
  <2>1. ASSUME NEW c \in Clients, CommitCreditNote(c) PROVE work[c].slot # Final
    <3>1. SUFFICES ASSUME work[c].slot = Final PROVE FALSE
      OBVIOUS
    <3>2. piece'[Final].credit = "live"
      BY <2>1, <3>1, CommitEffect
    <3> QED BY <3>2 DEF Emitted, Credited
  <2>2. Emitted(Final) /\ piece[Final].deducts = EmittedCalls
    BY <1>0, <1>4, <2>1, EmittedMoves DEF FinalDeductsItsSisters
  <2>3. ASSUME NEW c \in Clients, CommitPiece(c), work[c].slot \in Calls PROVE FALSE
    BY <2>2, <2>3 DEF Inv, Held, QuoteHeld, CommitPiece
  <2>4. ASSUME NEW c \in Clients, CommitCreditNote(c), work[c].slot \in Calls PROVE FALSE
    <3>1. /\ piece[work[c].slot].credit = "draft" /\ CreditAllowed(work[c].slot)
          /\ piece[work[c].slot].status = "live"
      BY <2>4 DEF Inv, Held, RowHeld, SistersHeld, CommitCreditNote, IssueSteps, CreditFollowsIssue
    <3>2. work[c].slot \in EmittedCalls
      BY <2>4, <3>1 DEF EmittedCalls, Emitted, Credited
    <3> QED BY <2>2, <3>1, <3>2 DEF CreditAllowed
  <2>5. \A t \in Calls : Emitted(t)' <=> Emitted(t)
    BY <2>3, <2>4, EmittedMoves
  <2> QED BY <1>1, <1>2, <2>2, <2>5 DEF EmittedCalls
<1> QED BY <1>3, <1>4

---------------------------------------------------------------------------
(* The theorems.                                                           *)

\* The invariant holds initially.
LEMMA InvInit == Init => Inv
<1> SUFFICES ASSUME Init PROVE Inv
  OBVIOUS
<1> USE PieceNames
<1>1. /\ \A s \in Pieces : /\ piece[s].status = "none" /\ piece[s].credit = "none"
                           /\ ~Emitted(s) /\ ~Credited(s)
      /\ \A c \in Clients : work[c].at = "idle"
      /\ counter.invoice = 0 /\ counter.credit = 0
  BY DEF Init, NoPiece, Idle, Emitted, Credited
<1>2. Live = {} /\ Notes = {}
  BY <1>1 DEF Live, Notes
<1>3. Counted
  BY <1>1, <1>2, FS_EmptySet DEF Counted
<1>4. LocksExclude
  BY <1>1 DEF LocksExclude, LocksQuote, LocksCounter, LocksRow, SharesSisters, IssueSteps
<1>5. Held
  BY <1>1 DEF Held, RowHeld, QuoteHeld, NumberHeld, SistersHeld, IssueSteps
<1>6. CreditFollowsIssue /\ FinalDeductsItsSisters
  BY <1>1 DEF CreditFollowsIssue, FinalDeductsItsSisters
<1> QED BY <1>3, <1>4, <1>5, <1>6, TypeInit DEF Inv

\* Every step preserves the invariant.
LEMMA InvStep == Inv /\ [Next]_vars => Inv'
<1> SUFFICES ASSUME Inv, [Next]_vars PROVE Inv'
  OBVIOUS
<1>1. \A c \in Clients : RowHeld(c)' /\ QuoteHeld(c)' /\ NumberHeld(c)' /\ SistersHeld(c)'
  BY RowHeldStep, QuoteHeldStep, NumberHeldStep, SistersHeldStep
<1>2. Held'
  BY <1>1 DEF Held
<1> QED BY <1>2, TypeStep, CreditFollowsStep, CountedStep, LocksExcludeStep, FinalStep DEF Inv

\* The strengthened invariant holds in every reachable state: the locks
\* exclude each other, and what was read behind them is still true.
THEOREM BillingInvariance == Spec => []Inv
<1> QED BY InvInit, InvStep, PTL DEF Spec

\* Types, the numbers included: no sequence outgrows the pieces.
THEOREM BillingTypes == Spec => []TypeOK
<1>1. Inv => TypeOK
  BY DEF Inv
<1> QED BY <1>1, BillingInvariance, PTL

\* A final that stands deducts exactly the deposit and situations that stand.
THEOREM FinalIsExact == Spec => []FinalDeductsItsSisters
<1>1. Inv => FinalDeductsItsSisters
  BY DEF Inv
<1> QED BY <1>1, BillingInvariance, PTL

\* Neither sequence of numbers has a gap or a double.
THEOREM NumbersAreGapless == Spec => []NumbersWithoutGap
<1>1. Inv => NumbersWithoutGap
  BY DEF Inv, Counted, NumbersWithoutGap, Live, Notes
<1> QED BY <1>1, BillingInvariance, PTL

\* No piece is issued after the withdrawal, nor works within the delay.
THEOREM WithdrawalStops == Spec => NothingBilledAfterRetractation
<1> DEFINE Stops == \A s \in Pieces : piece[s].status # "live" /\ piece'[s].status = "live" =>
                        ~quote.retracted /\ ~Frozen(s)
<1>1. Inv /\ [Next]_vars => [Stops]_vars
  <2> SUFFICES ASSUME Inv, [Next]_vars, NEW s \in Pieces,
                      piece[s].status # "live", piece'[s].status = "live"
               PROVE  ~quote.retracted /\ ~Frozen(s)
    OBVIOUS
  <2>0. piece \in [Pieces -> Piece] /\ NoPiece.status = "none"
    BY DEF Inv, TypeOK, NoPiece
  <2>1. ASSUME NEW t \in Pieces, Saves(t) \/ Erases(t) PROVE FALSE
    BY <2>0, <2>1 DEF Saves, Erases
  <2>2. ASSUME NEW t \in Pieces, Drafts(t) \/ Undrafts(t) PROVE FALSE
    BY <2>0, <2>2, DraftEffect
  <2>3. PICK c \in Clients : CommitPiece(c) \/ CommitCreditNote(c)
    BY <2>1, <2>2, PieceMoves
  <2>4. work[c].slot = s /\ CommitPiece(c)
    BY <2>3, CommitEffect
  <2> QED BY <2>4 DEF Inv, Held, QuoteHeld, CommitPiece
<1> QED BY <1>1, BillingInvariance, PTL DEF Spec, NothingBilledAfterRetractation

\* What was issued stays as it is; it is only credited, once.
THEOREM IssuedPiecesStay == Spec => LegalPiecesStay
<1> DEFINE Stay == \A s \in Pieces :
                /\ piece[s].status = "live" =>
                     \A field \in {"status", "ttc", "deducts", "number"} :
                        piece'[s][field] = piece[s][field]
                /\ Credited(s) => piece'[s] = piece[s]
<1>1. Inv /\ [Next]_vars => [Stay]_vars
  <2> SUFFICES ASSUME Inv, [Next]_vars, NEW s \in Pieces, piece[s].status = "live"
               PROVE  /\ piece'[s].status = piece[s].status
                      /\ piece'[s].ttc = piece[s].ttc
                      /\ piece'[s].deducts = piece[s].deducts
                      /\ piece'[s].number = piece[s].number
                      /\ Credited(s) => piece'[s] = piece[s]
    BY DEF Inv, CreditFollowsIssue, Credited
  <2>0. piece \in [Pieces -> Piece] /\ work \in [Clients -> Work]
    BY DEF Inv, TypeOK
  <2>1. ASSUME NEW t \in Pieces, Saves(t) \/ Erases(t) PROVE piece'[s] = piece[s]
    BY <2>0, <2>1 DEF Saves, Erases
  <2>2. ASSUME NEW t \in Pieces, t # s, Drafts(t) \/ Undrafts(t) PROVE piece'[s] = piece[s]
    BY <2>0, <2>2, DraftEffect
  <2>3. CASE Drafts(s)
    BY <2>0, <2>3 DEF Drafts, Piece, Credited
  <2>4. CASE Undrafts(s)
    BY <2>0, <2>4 DEF Undrafts, Piece, Credited
  <2>5. ASSUME NEW c \in Clients, CommitPiece(c) PROVE piece'[s] = piece[s]
    <3>1. piece[work[c].slot].status = "draft"
      BY <2>5 DEF Inv, Held, RowHeld, CommitPiece, IssueSteps
    <3> QED BY <2>5, <3>1, CommitEffect
  <2>6. ASSUME NEW c \in Clients, CommitCreditNote(c), work[c].slot # s
        PROVE  piece'[s] = piece[s]
    BY <2>6, CommitEffect
  <2>7. ASSUME NEW c \in Clients, CommitCreditNote(c), work[c].slot = s
        PROVE  /\ piece'[s].status = piece[s].status /\ piece'[s].ttc = piece[s].ttc
               /\ piece'[s].deducts = piece[s].deducts
               /\ piece'[s].number = piece[s].number /\ ~Credited(s)
    <3>1. piece[s].credit = "draft"
      BY <2>7 DEF Inv, Held, RowHeld, CommitCreditNote, IssueSteps
    <3>2. piece' = [piece EXCEPT ![s].credit = "live", ![s].creditNumber = work[c].number]
      BY <2>7 DEF CommitCreditNote
    <3> QED BY <2>0, <3>1, <3>2 DEF Piece, Credited
  <2> QED BY <2>1, <2>2, <2>3, <2>4, <2>5, <2>6, <2>7, PieceMoves
<1> QED BY <1>1, BillingInvariance, PTL DEF Spec, LegalPiecesStay

=============================================================================
