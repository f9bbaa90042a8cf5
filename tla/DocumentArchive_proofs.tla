----------------------- MODULE DocumentArchive_proofs -----------------------
(***************************************************************************)
(* Theorems about DocumentArchive, for every set of pieces and workers and *)
(* every number of edits and faults.  Liveness stays with the runs.        *)
(***************************************************************************)
EXTENDS DocumentArchive, TLAPS

---------------------------------------------------------------------------
(* The inductive invariant.                                                *)

\* A piece is issued once, and an invoice's customer is held from its
\* reading to the commit.
Issuing ==
    \A p \in Pieces :
      /\ issue[p].at # "no" => ~Ordered(p)
      /\ issue[p].at = "read" => issue[p].read \in Versions
      /\ issue[p].at = "read" /\ p \in Invoices => issue[p].read = customer

\* The order and its snapshot come together.
Sealed ==
    \A p \in Pieces :
      /\ ~Ordered(p) => job[p] = NoJob
      /\ \A k \in Kinds : snapshot[p][k] # 0 <=> Ordered(p) /\ k \in Files(p)

RenderedBy(p, b) == [k \in Kinds |-> Rendering(p, k, b)]

\* What is announced of a piece is its snapshot, drawn by one build.
Announced ==
    \A p \in Pieces : intents[p] # Nothing =>
      Ordered(p) /\ \E b \in Renderings : intents[p] = RenderedBy(p, b)

\* A worker past the announcement has what was announced, and files what is
\* in the storage.
WorkOf(w) ==
    worker[w].at # "idle" =>
      /\ worker[w].piece \in Pieces
      /\ Ordered(worker[w].piece)
      /\ worker[w].todo \subseteq Files(worker[w].piece)
      /\ worker[w].at \in {"putting", "stored", "proving", "proved"} =>
           intents[worker[w].piece] = Rendered(w)
      /\ worker[w].at = "stored" => ObjectOf(w) \in storage

AtWork == \A w \in Workers : WorkOf(w)

\* No empty object is uploaded.
Something == \A object \in storage : object[3] # NoBytes

\* No file of an archived piece is missing.
Whole == \A p \in Pieces : Archived(p) =>
           \A k \in Files(p) : documents[p][k] # NoBytes

IInv ==
    /\ TypeOK
    /\ Issuing
    /\ Sealed
    /\ OneCustomerPerPiece
    /\ Announced
    /\ AtWork
    /\ NothingUnannounced
    /\ Something
    /\ Whole

---------------------------------------------------------------------------
(* Facts about the constants and the renderings.                           *)

\* Versions and renderings are numbers, and 0 is none of them.
LEMMA Numbers ==
    /\ \A v \in Versions : v \in Nat /\ v # 0
    /\ \A b \in Renderings : b \in Nat /\ b # 0
    /\ 1 \in Versions /\ 1 \in Renderings /\ 0 \notin Versions
BY ArchiveAssumption DEF Versions, Renderings

\* Every piece has a PDF.
LEMMA FilesAreKinds ==
    \A p \in Pieces : Files(p) \subseteq Kinds /\ "pdf" \in Files(p)
BY DEF Files, Kinds

\* The version and the build can be read off a PDF.
LEMMA DrawnTwice ==
    ASSUME NEW v, NEW k, NEW b
    PROVE  /\ Drawn(v, k, b).of = v
           /\ k # "facturx_xml" => Drawn(v, k, b).by = b
BY DEF Drawn

\* A worker's current file is one of its piece's.
LEMMA CurrentFile ==
    ASSUME NEW w \in Workers, NEW p \in Pieces, worker[w].piece = p,
           worker[w].todo \subseteq Files(p)
    PROVE  Current(w) \in Files(p)
BY FilesAreKinds DEF Current

\* What is drawn of an order is never nothing.
LEMMA SomethingRendered ==
    ASSUME TypeOK, Sealed, NEW p \in Pieces, Ordered(p), NEW b
    PROVE  /\ \A k \in Files(p) : Rendering(p, k, b) # NoBytes
           /\ \A k \in Kinds \ Files(p) : Rendering(p, k, b) = NoBytes
           /\ RenderedBy(p, b) # Nothing
<1>1. \A k \in Files(p) : Rendering(p, k, b) # NoBytes
  <2>. SUFFICES ASSUME NEW k \in Files(p)
       PROVE  Rendering(p, k, b) # NoBytes
    OBVIOUS
  <2>1. snapshot[p][k] # 0
    BY FilesAreKinds DEF Sealed
  <2>2. Rendering(p, k, b).of = snapshot[p][k]
    BY DrawnTwice DEF Rendering
  <2>. QED
    BY <2>1, <2>2 DEF NoBytes
<1>2. RenderedBy(p, b)["pdf"] # NoBytes
  BY <1>1, FilesAreKinds DEF RenderedBy
<1>. QED
  BY <1>1, <1>2, FilesAreKinds DEF Nothing, Rendering, Kinds

---------------------------------------------------------------------------
(* Type correctness.                                                       *)

\* What a worker renders are bytes.
LEMMA RenderedType ==
    ASSUME TypeOK, NEW w \in Workers, worker[w].piece \in Pieces
    PROVE  Rendered(w) \in [Kinds -> Bytes]
<1>1. build[w] \in Renderings
  BY ArchiveAssumption DEF TypeOK, Renderings
<1>2. ASSUME NEW k \in Kinds
      PROVE  Rendering(worker[w].piece, k, build[w]) \in Bytes
  BY <1>1, <1>2 DEF Rendering, Drawn, TypeOK, Bytes, NoBytes
<1>. QED
  BY <1>2 DEF Rendered

\* The parts of a step that change one field of a record.
LEMMA GotoType ==
    ASSUME TypeOK, NEW w \in Workers, NEW step \in Steps, Goto(w, step)
    PROVE  /\ worker' \in [Workers -> Work]
           /\ worker'[w] = [at |-> step, piece |-> worker[w].piece, todo |-> worker[w].todo]
           /\ \A v \in Workers : v # w => worker'[v] = worker[v]
<1>1. worker[w] \in Work /\ worker \in [Workers -> Work]
  BY DEF TypeOK
<1>2. [worker[w] EXCEPT !.at = step]
        = [at |-> step, piece |-> worker[w].piece, todo |-> worker[w].todo]
  BY <1>1 DEF Work
<1>3. worker' = [worker EXCEPT ![w] = [worker[w] EXCEPT !.at = step]]
  BY DEF Goto
<1>. QED
  BY <1>1, <1>2, <1>3 DEF Work

\* An issuing transaction that moves on moves alone.
LEMMA IssueGoes ==
    ASSUME TypeOK, NEW p \in Pieces, NEW step \in {"no", "open", "saved", "read"},
           issue' = [issue EXCEPT ![p].at = step]
    PROVE  /\ issue' \in [Pieces -> Issue]
           /\ issue'[p] = [at |-> step, read |-> issue[p].read]
           /\ \A q \in Pieces : q # p => issue'[q] = issue[q]
<1>1. issue[p] \in Issue /\ issue \in [Pieces -> Issue]
  BY DEF TypeOK
<1>2. [issue[p] EXCEPT !.at = step] = [at |-> step, read |-> issue[p].read]
  BY <1>1 DEF Issue
<1>3. issue' = [issue EXCEPT ![p] = [issue[p] EXCEPT !.at = step]]
  OBVIOUS
<1>. QED
  BY <1>1, <1>2, <1>3 DEF Issue

\* An order that becomes due keeps its status and its lease.
LEMMA JobComesDue ==
    ASSUME TypeOK, NEW p \in Pieces, BecomesDue(p)
    PROVE  /\ job' \in [Pieces -> Job]
           /\ job'[p].status = job[p].status /\ job'[p].lease = job[p].lease
           /\ job'[p] = [job[p] EXCEPT !.due = TRUE]
           /\ \A q \in Pieces : q # p => job'[q] = job[q]
<1>1. job[p] \in Job /\ job \in [Pieces -> Job]
  BY DEF TypeOK
<1>2. job' = [job EXCEPT ![p] = [job[p] EXCEPT !.due = TRUE]]
  BY DEF BecomesDue
<1>3. [job[p] EXCEPT !.due = TRUE] \in Job
  BY <1>1 DEF Job
<1>4. job'[p] = [job[p] EXCEPT !.due = TRUE]
  BY <1>1, <1>2
<1>. QED
  BY <1>1, <1>2, <1>3, <1>4 DEF Job

\* An order that is done has no lease.
LEMMA JobFinishes ==
    ASSUME TypeOK, NEW p \in Pieces, Finished(p)
    PROVE  /\ job' \in [Pieces -> Job]
           /\ job'[p].status = "done" /\ job'[p].lease = NoOne
           /\ \A q \in Pieces : q # p => job'[q] = job[q]
<1>1. job[p] \in Job /\ job \in [Pieces -> Job]
  BY DEF TypeOK
<1>2. job' = [job EXCEPT ![p] = [job[p] EXCEPT !.status = "done", !.lease = NoOne]]
  BY <1>1 DEF Finished, Job
<1>3. [job[p] EXCEPT !.status = "done", !.lease = NoOne] \in Job
  BY <1>1 DEF Job
<1>4. job'[p] = [job[p] EXCEPT !.status = "done", !.lease = NoOne]
  BY <1>1, <1>2
<1>. QED
  BY <1>1, <1>2, <1>3, <1>4 DEF Job

\* Filing one document leaves the others alone.
LEMMA FileFiled ==
    ASSUME TypeOK, NEW p \in Pieces, NEW k \in Kinds, NEW b \in Bytes,
           documents' = [documents EXCEPT ![p][k] = b]
    PROVE  /\ documents' \in [Pieces -> [Kinds -> Bytes]]
           /\ documents'[p][k] = b
           /\ \A q \in Pieces, i \in Kinds :
                <<q, i>> # <<p, k>> => documents'[q][i] = documents[q][i]
<1>1. documents \in [Pieces -> [Kinds -> Bytes]] /\ documents[p] \in [Kinds -> Bytes]
  BY DEF TypeOK
<1>2. documents' = [documents EXCEPT ![p] = [documents[p] EXCEPT ![k] = b]]
  OBVIOUS
<1>. QED
  BY <1>1, <1>2

\* A longer range holds the shorter one.
LEMMA RangeGrows ==
    ASSUME NEW m \in Nat, NEW n \in Nat, m <= n, NEW b \in 1..(m + 1)
    PROVE  b \in 1..(n + 1)
OBVIOUS

\* A step that counts at most one fault keeps the counter and the builds
\* in their bounds.
LEMMA FaultsType ==
    ASSUME TypeOK, Calm \/ Disturb
    PROVE  /\ disturbances' \in 0..MaxDisturbances
           /\ build' = build => build' \in [Workers -> 1..(disturbances' + 1)]
<1>1. /\ disturbances' \in 0..MaxDisturbances
      /\ disturbances \in Nat /\ disturbances' \in Nat /\ disturbances <= disturbances'
  BY ArchiveAssumption DEF TypeOK, Calm, Disturb
<1>2. ASSUME NEW b \in 1..(disturbances + 1)
      PROVE  b \in 1..(disturbances' + 1)
  BY <1>1, <1>2, RangeGrows
<1>. QED
  BY <1>1, <1>2 DEF TypeOK

\* Every step keeps the types.
LEMMA TypeStep == TypeOK /\ Issuing /\ AtWork /\ [Next]_vars => TypeOK'
<1>. SUFFICES ASSUME TypeOK, Issuing, AtWork, [Next]_vars
     PROVE  TypeOK'
  OBVIOUS
<1>. USE ArchiveAssumption, NoOneAssumption
<1>1. ASSUME NEW p \in Pieces, OpenIssue(p)
       PROVE  TypeOK'
  <2>1. issue' \in [Pieces -> Issue]
    BY <1>1, IssueGoes DEF OpenIssue
  <2>. QED
    BY <1>1, <2>1, FaultsType
    DEF OpenIssue, Archives, TypeOK, Calm, Disturb, Job, Work, Issue, Steps, Idle,
        Unissued, NoJob
<1>2. ASSUME NEW p \in Pieces, SaveIssued(p)
       PROVE  TypeOK'
  <2>1. issue' \in [Pieces -> Issue]
    BY <1>2, IssueGoes DEF SaveIssued
  <2>. QED
    BY <1>2, <2>1, FaultsType
    DEF SaveIssued, Archives, TypeOK, Calm, Disturb, Job, Work, Issue, Steps, Idle,
        Unissued, NoJob
<1>3. ASSUME NEW p \in Pieces, ReadPdfData(p)
       PROVE  TypeOK'
  BY <1>3, FaultsType
  DEF ReadPdfData, Archives, TypeOK, Calm, Disturb, Job, Work, Issue, Steps, Idle,
      Unissued, NoJob
<1>4. ASSUME NEW p \in Pieces, CommitIssue(p)
       PROVE  TypeOK'
  <2>1. issue[p].read \in Versions /\ customer \in Versions
    BY <1>4 DEF Issuing, TypeOK, CommitIssue
  <2>. QED
    BY <1>4, <2>1, FaultsType
    DEF CommitIssue, Archives, Enqueued, TypeOK, Calm, Disturb, Job, Work, Issue,
        Steps, Idle, Unissued, NoJob
<1>5. ASSUME NEW p \in Pieces, Rollback(p)
       PROVE  TypeOK'
  BY <1>5, FaultsType
  DEF Rollback, Archives, TypeOK, Calm, Disturb, Job, Work, Issue, Steps, Idle,
      Unissued, NoJob
<1>6. ASSUME NEW p \in Pieces, BecomeDue(p)
       PROVE  TypeOK'
  <2>1. job' \in [Pieces -> Job]
    BY <1>6, JobComesDue DEF BecomeDue
  <2>. QED
    BY <1>6, <2>1, FaultsType
    DEF BecomeDue, BecomesDue, TypeOK, Calm, Disturb, Job, Work, Issue, Steps, Idle,
        Unissued, NoJob
<1>7. ASSUME NEW p \in Pieces, Expire(p)
       PROVE  TypeOK'
  <2>1. job' \in [Pieces -> Job]
    BY <1>7, JobComesDue DEF Expire
  <2>. QED
    BY <1>7, <2>1, FaultsType
    DEF Expire, BecomesDue, TypeOK, Calm, Disturb, Job, Work, Issue, Steps, Idle,
        Unissued, NoJob
<1>8. ASSUME EditBehindBarrier
       PROVE  TypeOK'
  BY <1>8, FaultsType
  DEF EditBehindBarrier, Edited, Archives, TypeOK, Calm, Disturb, Job, Work, Issue,
      Steps, Idle, Unissued, NoJob, Versions
<1>9. ASSUME EditByEffect
       PROVE  TypeOK'
  BY <1>9, FaultsType
  DEF EditByEffect, Edited, Archives, TypeOK, Calm, Disturb, Job, Work, Issue, Steps,
      Idle, Unissued, NoJob, Versions
<1>10. ASSUME NEW w \in Workers, NEW p \in Pieces, Claim(w, p)
       PROVE  TypeOK'
  BY <1>10, FilesAreKinds, FaultsType
  DEF Claim, Claimable, TypeOK, Calm, Disturb, Job, Work, Issue, Steps, Idle,
      Unissued, NoJob
<1>11. ASSUME NEW w \in Workers, Prepare(w)
       PROVE  TypeOK'
  <2>1. worker[w].piece \in Pieces
    BY <1>11 DEF AtWork, WorkOf, At, Prepare
  <2>2. Rendered(w) \in [Kinds -> Bytes]
    BY <2>1, RenderedType
  <2>3. worker' \in [Workers -> Work]
    BY <1>11, GotoType DEF Prepare, Steps
  <2>4. intents' \in [Pieces -> [Kinds -> Bytes]]
    BY <1>11, <2>1, <2>2 DEF Prepare, Announce, TypeOK
  <2>. QED
    BY <1>11, <2>3, <2>4, FaultsType
    DEF Prepare, Announce, Goto, TypeOK, Calm, Disturb, Job, Work, Issue, Steps, Idle,
        Unissued, NoJob
<1>12. ASSUME NEW w \in Workers, Put(w)
       PROVE  TypeOK'
  <2>1. At(w, "putting") => ObjectOf(w) \in Pieces \X Kinds \X Bytes
    <3>. SUFFICES ASSUME At(w, "putting")
         PROVE  ObjectOf(w) \in Pieces \X Kinds \X Bytes
      OBVIOUS
    <3>1. worker[w].piece \in Pieces
      BY DEF AtWork, WorkOf, At
    <3>2. Rendered(w) \in [Kinds -> Bytes]
      BY <3>1, RenderedType
    <3>3. Current(w) \in Kinds
      BY DEF Current, Kinds
    <3>. QED
      BY <3>1, <3>2, <3>3 DEF ObjectOf
  <2>2. worker' \in [Workers -> Work]
    BY <1>12, GotoType DEF Put, Steps
  <2>3. storage' \subseteq Pieces \X Kinds \X Bytes
    BY <1>12, <2>1 DEF Put, TypeOK
  <2>. QED
    BY <1>12, <2>2, <2>3, FaultsType
    DEF Put, Goto, rows, TypeOK, Calm, Disturb, Job, Work, Issue, Steps, Idle,
        Unissued, NoJob
<1>13. ASSUME NEW w \in Workers, Materialize(w)
       PROVE  TypeOK'
  <2>1. worker[w].piece \in Pieces
    BY <1>13 DEF AtWork, WorkOf, At, Materialize
  <2>2. Rendered(w) \in [Kinds -> Bytes]
    BY <2>1, RenderedType
  <2>3. Current(w) \in Kinds
    BY DEF Current, Kinds
  <2>4. documents' \in [Pieces -> [Kinds -> Bytes]]
    BY <1>13, <2>1, <2>2, <2>3, FileFiled DEF Materialize, TypeOK
  <2>5. worker[w].todo \subseteq Kinds /\ worker \in [Workers -> Work]
    BY DEF TypeOK, Work
  <2>6. worker' \in [Workers -> Work]
    <3>1. CASE Goto(w, "failing")
      BY <3>1, GotoType DEF Steps
    <3>2. CASE ~Goto(w, "failing")
      <4>. DEFINE left == worker[w].todo \ {Current(w)}
      <4>1. worker' = [worker EXCEPT ![w] =
                  [at |-> IF left = {} THEN "proving" ELSE "putting",
                   piece |-> worker[w].piece, todo |-> left]]
        BY <1>13, <3>2 DEF Materialize
      <4>2. [at |-> IF left = {} THEN "proving" ELSE "putting",
             piece |-> worker[w].piece, todo |-> left] \in Work
        BY <2>1, <2>5 DEF Work, Steps
      <4>. QED
        BY <2>5, <4>1, <4>2
    <3>. QED
      BY <3>1, <3>2
  <2>. QED
    BY <1>13, <2>4, <2>6, FaultsType
    DEF Materialize, Goto, TypeOK, Calm, Disturb, Job, Work, Issue, Steps, Idle,
        Unissued, NoJob
<1>14. ASSUME NEW w \in Workers, Prove(w)
       PROVE  TypeOK'
  <2>1. worker' \in [Workers -> Work]
    BY <1>14, GotoType DEF Prove, Steps
  <2>. QED
    BY <1>14, <2>1, FaultsType
    DEF Prove, Goto, rows, TypeOK, Calm, Disturb, Job, Work, Issue, Steps, Idle,
        Unissued, NoJob
<1>15. ASSUME NEW w \in Workers, Complete(w)
       PROVE  TypeOK'
  <2>1. worker[w].piece \in Pieces
    BY <1>15 DEF AtWork, WorkOf, At, Complete
  <2>2. job' \in [Pieces -> Job]
    BY <1>15, <2>1, JobFinishes DEF Complete, TypeOK
  <2>3. worker' \in [Workers -> Work]
    <3>1. CASE Goto(w, "failing")
      BY <3>1, GotoType DEF Steps
    <3>2. CASE Rest(w)
      BY <3>2 DEF Rest, Idle, Steps, Work, TypeOK
    <3>. QED
      BY <1>15, <3>1, <3>2 DEF Complete
  <2>. QED
    BY <1>15, <2>2, <2>3, FaultsType
    DEF Complete, Finished, Rest, Goto, TypeOK, Calm, Disturb, Job, Work, Issue,
        Steps, Idle, Unissued, NoJob
<1>16. ASSUME NEW w \in Workers, MarkFailed(w)
       PROVE  TypeOK'
  <2>1. worker[w].piece \in Pieces
    BY <1>16 DEF AtWork, WorkOf, At, MarkFailed
  <2>. QED
    BY <1>16, <2>1, FaultsType
    DEF MarkFailed, Retried, Rest, TypeOK, Calm, Disturb, Job, Work, Issue, Steps,
        Idle, Unissued, NoJob
<1>17. ASSUME NEW w \in Workers, StorageFails(w)
       PROVE  TypeOK'
  <2>1. At(w, "putting") => ObjectOf(w) \in Pieces \X Kinds \X Bytes
    <3>. SUFFICES ASSUME At(w, "putting")
         PROVE  ObjectOf(w) \in Pieces \X Kinds \X Bytes
      OBVIOUS
    <3>1. worker[w].piece \in Pieces
      BY DEF AtWork, WorkOf, At
    <3>2. Rendered(w) \in [Kinds -> Bytes]
      BY <3>1, RenderedType
    <3>3. Current(w) \in Kinds
      BY DEF Current, Kinds
    <3>. QED
      BY <3>1, <3>2, <3>3 DEF ObjectOf
  <2>2. worker' \in [Workers -> Work]
    BY <1>17, GotoType DEF StorageFails, Steps
  <2>3. storage' \subseteq Pieces \X Kinds \X Bytes
    BY <1>17, <2>1 DEF StorageFails, TypeOK
  <2>. QED
    BY <1>17, <2>2, <2>3, FaultsType
    DEF StorageFails, Goto, rows, TypeOK, Calm, Disturb, Job, Work, Issue, Steps,
        Idle, Unissued, NoJob
<1>18. ASSUME NEW w \in Workers, Abandon(w)
       PROVE  TypeOK'
  BY <1>18, FaultsType
  DEF Abandon, Rest, rows, TypeOK, Calm, Disturb, Job, Work, Issue, Steps, Idle,
      Unissued, NoJob
<1>19. ASSUME NEW w \in Workers, Redeploy(w)
       PROVE  TypeOK'
  <2>1. disturbances' = disturbances + 1 /\ disturbances' \in 0..MaxDisturbances
    BY <1>19, FaultsType DEF Redeploy, Disturb
  <2>2. build' \in [Workers -> 1..(disturbances' + 1)]
    BY <1>19, <2>1 DEF Redeploy, TypeOK
  <2>. QED
    BY <1>19, <2>1, <2>2, FaultsType
    DEF Redeploy, Rest, rows, TypeOK, Calm, Disturb, Job, Work, Issue, Steps, Idle,
        Unissued, NoJob
<1>20. CASE UNCHANGED vars
  BY <1>20 DEF TypeOK, vars, rows
<1>. QED
  BY <1>1, <1>2, <1>3, <1>4, <1>5, <1>6, <1>7, <1>8, <1>9, <1>10, <1>11, <1>12, <1>13,
      <1>14, <1>15, <1>16, <1>17, <1>18, <1>19, <1>20
  DEF Next, IssueStep, WorkerStep, Fault

---------------------------------------------------------------------------
(* What a step may do to the rows and the storage.                         *)

OrdersMove ==
    /\ \A p \in Pieces : Ordered(p) => Ordered(p)'
    /\ \A p \in Pieces : Ordered(p)' => Ordered(p) \/ CommitIssue(p)
    /\ \A p \in Pieces : ~Ordered(p)' => job'[p] = job[p]

ArchiveMoves ==
    /\ \A p \in Pieces : Archived(p) => Archived(p)'
    /\ \A p \in Pieces : Archived(p)' =>
         Archived(p) \/ (intents[p] = documents[p]
                          /\ \E w \in Workers : Complete(w) /\ worker[w].piece = p)

RowsMove ==
    /\ snapshot' = snapshot \/ \E p \in Pieces : CommitIssue(p)
    /\ intents' = intents \/ \E w \in Workers : Prepare(w) /\ Announce(w)
    /\ \/ documents' = documents
       \/ \E w \in Workers :
            /\ Materialize(w)
            /\ documents[worker[w].piece][Current(w)] \in {NoBytes, Rendered(w)[Current(w)]}
            /\ documents' = [documents EXCEPT
                 ![worker[w].piece][Current(w)] = Rendered(w)[Current(w)]]
    /\ \/ storage' = storage
       \/ \E w \in Workers :
            /\ At(w, "putting") /\ UNCHANGED rows
            /\ storage' = storage \cup {ObjectOf(w)}

Moves == OrdersMove /\ ArchiveMoves /\ RowsMove

\* A step that leaves the jobs, or changes one that stays ordered and open.
LEMMA JobsKept ==
    ASSUME job' = job
    PROVE  OrdersMove /\ ArchiveMoves
BY DEF OrdersMove, ArchiveMoves, Ordered, Archived

\* An open order that stays open, alone to change.
LEMMA JobStaysOpen ==
    ASSUME NEW p \in Pieces, Open(p), job'[p].status \in {"pending", "failed"},
           \A q \in Pieces : q # p => job'[q] = job[q]
    PROVE  OrdersMove /\ ArchiveMoves
BY DEF OrdersMove, ArchiveMoves, Ordered, Archived, Open

\* Every step is one of these moves.
LEMMA MovesStep == TypeOK /\ Issuing /\ AtWork /\ [Next]_vars => Moves
<1>. SUFFICES ASSUME TypeOK, Issuing, AtWork, [Next]_vars
     PROVE  Moves
  OBVIOUS
<1>1. ASSUME NEW p \in Pieces, OpenIssue(p)
       PROVE  Moves
  BY <1>1, JobsKept DEF Moves, RowsMove, OpenIssue, rows, Archives
<1>2. ASSUME NEW p \in Pieces, SaveIssued(p)
       PROVE  Moves
  BY <1>2, JobsKept DEF Moves, RowsMove, SaveIssued, rows, Archives
<1>3. ASSUME NEW p \in Pieces, ReadPdfData(p)
       PROVE  Moves
  BY <1>3, JobsKept DEF Moves, RowsMove, ReadPdfData, rows, Archives
<1>4. ASSUME NEW p \in Pieces, CommitIssue(p)
       PROVE  Moves
  <2>1. ~Ordered(p)
    BY <1>4 DEF CommitIssue, Issuing
  <2>2. \A q \in Pieces : q # p => job'[q] = job[q]
    BY <1>4 DEF CommitIssue, Enqueued, TypeOK
  <2>3. job'[p].status = "pending"
    BY <1>4 DEF CommitIssue, Enqueued, TypeOK
  <2>4. OrdersMove
    BY <1>4, <2>1, <2>2, <2>3 DEF OrdersMove, Ordered
  <2>5. ArchiveMoves
    BY <2>1, <2>2, <2>3 DEF ArchiveMoves, Ordered, Archived
  <2>. QED
    BY <1>4, <2>4, <2>5 DEF Moves, RowsMove, CommitIssue, Archives
<1>5. ASSUME NEW p \in Pieces, Rollback(p)
       PROVE  Moves
  BY <1>5, JobsKept DEF Moves, RowsMove, Rollback, rows, Archives
<1>6. ASSUME NEW p \in Pieces, BecomeDue(p)
       PROVE  Moves
  <2>1. OrdersMove /\ ArchiveMoves
    BY <1>6, JobComesDue, JobStaysOpen DEF BecomeDue, Open
  <2>. QED
    BY <1>6, <2>1 DEF Moves, RowsMove, BecomeDue
<1>7. ASSUME NEW p \in Pieces, Expire(p)
       PROVE  Moves
  <2>1. OrdersMove /\ ArchiveMoves
    BY <1>7, JobComesDue, JobStaysOpen DEF Expire, Open
  <2>. QED
    BY <1>7, <2>1 DEF Moves, RowsMove, Expire
<1>8. ASSUME EditBehindBarrier
       PROVE  Moves
  BY <1>8, JobsKept DEF Moves, RowsMove, EditBehindBarrier, rows, Archives
<1>9. ASSUME EditByEffect
       PROVE  Moves
  BY <1>9, JobsKept DEF Moves, RowsMove, EditByEffect, rows, Archives
<1>10. ASSUME NEW w \in Workers, NEW p \in Pieces, Claim(w, p)
       PROVE  Moves
  <2>1. Open(p) /\ job' = [job EXCEPT ![p] = [status |-> "failed", due |-> FALSE, lease |-> w]]
    BY <1>10 DEF Claim, Claimable
  <2>2. OrdersMove /\ ArchiveMoves
    BY <2>1, JobStaysOpen DEF TypeOK
  <2>. QED
    BY <1>10, <2>2 DEF Moves, RowsMove, Claim
<1>11. ASSUME NEW w \in Workers, Prepare(w)
       PROVE  Moves
  BY <1>11, JobsKept DEF Moves, RowsMove, Prepare, rows, Archives
<1>12. ASSUME NEW w \in Workers, Put(w)
       PROVE  Moves
  BY <1>12, JobsKept DEF Moves, RowsMove, Put, rows, Archives
<1>13. ASSUME NEW w \in Workers, Materialize(w)
       PROVE  Moves
  BY <1>13, JobsKept DEF Moves, RowsMove, Materialize, rows, Archives
<1>14. ASSUME NEW w \in Workers, Prove(w)
       PROVE  Moves
  BY <1>14, JobsKept DEF Moves, RowsMove, Prove, rows, Archives
<1>15. ASSUME NEW w \in Workers, Complete(w)
       PROVE  Moves
  <2>1. worker[w].piece \in Pieces
    BY <1>15 DEF AtWork, WorkOf, At, Complete
  <2>2. OrdersMove /\ ArchiveMoves
    <3>1. CASE job' = job
      BY <3>1, JobsKept
    <3>2. CASE job' # job
      <4>1. /\ Holds(w) /\ Finished(worker[w].piece)
            /\ intents[worker[w].piece] = documents[worker[w].piece]
        BY <1>15, <3>2 DEF Complete
      <4>2. Open(worker[w].piece) /\ job'[worker[w].piece].status = "done"
        BY <4>1, <2>1, JobFinishes DEF Holds
      <4>3. \A q \in Pieces : q # worker[w].piece => job'[q] = job[q]
        BY <4>1, <2>1, JobFinishes
      <4>4. OrdersMove
        BY <2>1, <4>2, <4>3 DEF OrdersMove, Ordered, Open
      <4>5. ArchiveMoves
        BY <1>15, <2>1, <4>1, <4>2, <4>3 DEF ArchiveMoves, Archived, Open
      <4>. QED
        BY <4>4, <4>5
    <3>. QED
      BY <3>1, <3>2
  <2>. QED
    BY <1>15, <2>2 DEF Moves, RowsMove, Complete
<1>16. ASSUME NEW w \in Workers, MarkFailed(w)
       PROVE  Moves
  <2>1. worker[w].piece \in Pieces
    BY <1>16 DEF AtWork, WorkOf, At, MarkFailed
  <2>2. OrdersMove /\ ArchiveMoves
    <3>1. CASE ~Holds(w)
      BY <1>16, <3>1, JobsKept DEF MarkFailed
    <3>2. CASE Holds(w)
      <4>1. job' = [job EXCEPT ![worker[w].piece] = Retried(job[worker[w].piece])]
        BY <1>16, <3>2 DEF MarkFailed
      <4>. QED
        BY <4>1, <3>2, <2>1, JobStaysOpen DEF Holds, Retried, TypeOK
    <3>. QED
      BY <3>1, <3>2
  <2>. QED
    BY <1>16, <2>2 DEF Moves, RowsMove, MarkFailed
<1>17. ASSUME NEW w \in Workers, StorageFails(w)
       PROVE  Moves
  BY <1>17, JobsKept DEF Moves, RowsMove, StorageFails, rows, Archives
<1>18. ASSUME NEW w \in Workers, Abandon(w)
       PROVE  Moves
  BY <1>18, JobsKept DEF Moves, RowsMove, Abandon, rows, Archives
<1>19. ASSUME NEW w \in Workers, Redeploy(w)
       PROVE  Moves
  BY <1>19, JobsKept DEF Moves, RowsMove, Redeploy, rows, Archives
<1>20. CASE UNCHANGED vars
  BY <1>20, JobsKept DEF Moves, RowsMove, vars, rows
<1>. QED
  BY <1>1, <1>2, <1>3, <1>4, <1>5, <1>6, <1>7, <1>8, <1>9, <1>10, <1>11, <1>12, <1>13,
      <1>14, <1>15, <1>16, <1>17, <1>18, <1>19, <1>20
  DEF Next, IssueStep, WorkerStep, Fault

---------------------------------------------------------------------------
(* Nothing that was ordered, announced or uploaded changes.                *)

Grows ==
    /\ \A p \in Pieces : Ordered(p) => Ordered(p)' /\ snapshot'[p] = snapshot[p]
    /\ \A p \in Pieces : intents[p] # Nothing => intents'[p] = intents[p]
    /\ \A p \in Pieces, k \in Kinds :
         documents[p][k] # NoBytes => documents'[p][k] = documents[p][k]
    /\ storage \subseteq storage'

\* The snapshot of an ordered piece is for good.
LEMMA SnapshotsStay ==
    ASSUME TypeOK, Issuing, Moves, NEW p \in Pieces, Ordered(p)
    PROVE  snapshot'[p] = snapshot[p]
<1>1. CASE snapshot' = snapshot
  BY <1>1
<1>2. ASSUME NEW q \in Pieces, CommitIssue(q)
      PROVE  snapshot'[p] = snapshot[p]
  BY <1>2 DEF CommitIssue, Issuing, TypeOK
<1>. QED
  BY <1>1, <1>2 DEF Moves, RowsMove

\* These moves change nothing that is there.
LEMMA GrowsStep ==
    ASSUME TypeOK, Issuing, AtWork, Moves
    PROVE  Grows
<1>1. \A p \in Pieces : Ordered(p) => Ordered(p)' /\ snapshot'[p] = snapshot[p]
  BY SnapshotsStay DEF Moves, OrdersMove
<1>2. \A p \in Pieces : intents[p] # Nothing => intents'[p] = intents[p]
  <2>1. ASSUME NEW w \in Workers, Prepare(w), Announce(w)
        PROVE  \A p \in Pieces : intents[p] # Nothing => intents'[p] = intents[p]
    BY <2>1 DEF Announce, TypeOK
  <2>. QED
    BY <2>1 DEF Moves, RowsMove
<1>3. \A p \in Pieces, k \in Kinds :
        documents[p][k] # NoBytes => documents'[p][k] = documents[p][k]
  <2>1. ASSUME NEW w \in Workers, Materialize(w),
               documents[worker[w].piece][Current(w)] \in {NoBytes, Rendered(w)[Current(w)]},
               documents' = [documents EXCEPT
                 ![worker[w].piece][Current(w)] = Rendered(w)[Current(w)]]
        PROVE  \A p \in Pieces, k \in Kinds :
                 documents[p][k] # NoBytes => documents'[p][k] = documents[p][k]
    <3>1. worker[w].piece \in Pieces
      BY <2>1 DEF Materialize, At, AtWork, WorkOf
    <3>2. Current(w) \in Kinds
      BY DEF Current, Kinds
    <3>3. Rendered(w)[Current(w)] \in Bytes
      BY <3>1, <3>2, RenderedType
    <3>. QED
      BY <2>1, <3>1, <3>2, <3>3, FileFiled
  <2>. QED
    BY <2>1 DEF Moves, RowsMove
<1>4. storage \subseteq storage'
  BY DEF Moves, RowsMove
<1>. QED
  BY <1>1, <1>2, <1>3, <1>4 DEF Grows

---------------------------------------------------------------------------
(* Issuing, and the customer held meanwhile.                               *)

\* A step that neither issues nor edits.
LEMMA NotIssuedElsewhere ==
    ASSUME TypeOK, Issuing, Moves, issue' = issue, customer' = customer
    PROVE  Issuing'
<1>1. \A p \in Pieces : ~CommitIssue(p)
  BY DEF CommitIssue, Unissued, TypeOK
<1>. QED
  BY <1>1 DEF Issuing, Moves, OrdersMove

\* A customer held by an issuing transaction is not edited.
LEMMA IssuingStep == TypeOK /\ Issuing /\ Moves /\ [Next]_vars => Issuing'
<1>. SUFFICES ASSUME TypeOK, Issuing, Moves, [Next]_vars
     PROVE  Issuing'
  OBVIOUS
<1>1. ASSUME NEW p \in Pieces, OpenIssue(p)
       PROVE  Issuing'
  <2>1. issue' = [issue EXCEPT ![p].at = "open"] /\ ~Ordered(p)
    BY <1>1 DEF Issuing, OpenIssue
  <2>2. job' = job /\ customer' = customer
    BY <1>1 DEF OpenIssue
  <2>3. issue'[p].at = "open" /\ \A q \in Pieces : q # p => issue'[q] = issue[q]
    BY <2>1 DEF TypeOK, Issue
  <2>. QED
    BY <2>1, <2>2, <2>3 DEF Issuing, Ordered
<1>2. ASSUME NEW p \in Pieces, SaveIssued(p)
       PROVE  Issuing'
  <2>1. issue' = [issue EXCEPT ![p].at = "saved"] /\ ~Ordered(p)
    BY <1>2 DEF Issuing, SaveIssued
  <2>2. job' = job /\ customer' = customer
    BY <1>2 DEF SaveIssued
  <2>3. issue'[p].at = "saved" /\ \A q \in Pieces : q # p => issue'[q] = issue[q]
    BY <2>1 DEF TypeOK, Issue
  <2>. QED
    BY <2>1, <2>2, <2>3 DEF Issuing, Ordered
<1>3. ASSUME NEW p \in Pieces, ReadPdfData(p)
       PROVE  Issuing'
  BY <1>3 DEF Issuing, Ordered, TypeOK, Unissued, ReadPdfData
<1>4. ASSUME NEW p \in Pieces, CommitIssue(p)
       PROVE  Issuing'
  BY <1>4
  DEF Issuing, Moves, OrdersMove, Ordered, TypeOK, Unissued, Enqueued, CommitIssue
<1>5. ASSUME NEW p \in Pieces, Rollback(p)
       PROVE  Issuing'
  BY <1>5 DEF Issuing, Ordered, TypeOK, Unissued, Rollback
<1>6. ASSUME NEW p \in Pieces, BecomeDue(p)
       PROVE  Issuing'
  <2>1. issue' = issue /\ customer' = customer
    BY <1>6 DEF rows, BecomeDue
  <2>. QED
    BY <1>6, <2>1, NotIssuedElsewhere DEF BecomeDue
<1>7. ASSUME NEW p \in Pieces, Expire(p)
       PROVE  Issuing'
  <2>1. issue' = issue /\ customer' = customer
    BY <1>7 DEF rows, Expire
  <2>. QED
    BY <1>7, <2>1, NotIssuedElsewhere DEF Expire
<1>8. ASSUME EditBehindBarrier
       PROVE  Issuing'
  <2>1. issue' = issue /\ job' = job
    BY <1>8 DEF EditBehindBarrier
  <2>2. \A p \in Invoices : issue[p].at # "read"
    BY <1>8 DEF Pieces, CustomerHeld, EditBehindBarrier
  <2>. QED
    BY <2>1, <2>2 DEF Issuing, Ordered
<1>9. ASSUME EditByEffect
       PROVE  Issuing'
  <2>1. issue' = issue /\ job' = job
    BY <1>9 DEF EditByEffect
  <2>2. \A p \in Invoices : issue[p].at # "read"
    BY <1>9 DEF Pieces, CustomerHeld, EditByEffect
  <2>. QED
    BY <2>1, <2>2 DEF Issuing, Ordered
<1>10. ASSUME NEW w \in Workers, NEW p \in Pieces, Claim(w, p)
       PROVE  Issuing'
  <2>1. issue' = issue /\ customer' = customer
    BY <1>10 DEF rows, Claim
  <2>. QED
    BY <1>10, <2>1, NotIssuedElsewhere DEF Claim
<1>11. ASSUME NEW w \in Workers, Prepare(w)
       PROVE  Issuing'
  <2>1. issue' = issue /\ customer' = customer
    BY <1>11 DEF rows, Prepare
  <2>. QED
    BY <1>11, <2>1, NotIssuedElsewhere DEF Prepare
<1>12. ASSUME NEW w \in Workers, Put(w)
       PROVE  Issuing'
  <2>1. issue' = issue /\ customer' = customer
    BY <1>12 DEF rows, Put
  <2>. QED
    BY <1>12, <2>1, NotIssuedElsewhere DEF Put
<1>13. ASSUME NEW w \in Workers, Materialize(w)
       PROVE  Issuing'
  <2>1. issue' = issue /\ customer' = customer
    BY <1>13 DEF rows, Materialize
  <2>. QED
    BY <1>13, <2>1, NotIssuedElsewhere DEF Materialize
<1>14. ASSUME NEW w \in Workers, Prove(w)
       PROVE  Issuing'
  <2>1. issue' = issue /\ customer' = customer
    BY <1>14 DEF rows, Prove
  <2>. QED
    BY <1>14, <2>1, NotIssuedElsewhere DEF Prove
<1>15. ASSUME NEW w \in Workers, Complete(w)
       PROVE  Issuing'
  <2>1. issue' = issue /\ customer' = customer
    BY <1>15 DEF rows, Complete
  <2>. QED
    BY <1>15, <2>1, NotIssuedElsewhere DEF Complete
<1>16. ASSUME NEW w \in Workers, MarkFailed(w)
       PROVE  Issuing'
  <2>1. issue' = issue /\ customer' = customer
    BY <1>16 DEF rows, MarkFailed
  <2>. QED
    BY <1>16, <2>1, NotIssuedElsewhere DEF MarkFailed
<1>17. ASSUME NEW w \in Workers, StorageFails(w)
       PROVE  Issuing'
  <2>1. issue' = issue /\ customer' = customer
    BY <1>17 DEF rows, StorageFails
  <2>. QED
    BY <1>17, <2>1, NotIssuedElsewhere DEF StorageFails
<1>18. ASSUME NEW w \in Workers, Abandon(w)
       PROVE  Issuing'
  <2>1. issue' = issue /\ customer' = customer
    BY <1>18 DEF rows, Abandon
  <2>. QED
    BY <1>18, <2>1, NotIssuedElsewhere DEF Abandon
<1>19. ASSUME NEW w \in Workers, Redeploy(w)
       PROVE  Issuing'
  <2>1. issue' = issue /\ customer' = customer
    BY <1>19 DEF rows, Redeploy
  <2>. QED
    BY <1>19, <2>1, NotIssuedElsewhere DEF Redeploy
<1>20. CASE UNCHANGED vars
  BY <1>20, NotIssuedElsewhere DEF vars
<1>. QED
  BY <1>1, <1>2, <1>3, <1>4, <1>5, <1>6, <1>7, <1>8, <1>9, <1>10, <1>11, <1>12, <1>13,
      <1>14, <1>15, <1>16, <1>17, <1>18, <1>19, <1>20
  DEF Next, IssueStep, WorkerStep, Fault

---------------------------------------------------------------------------
(* The snapshot, and what is announced of it.                              *)

\* The order and its snapshot are committed together.
LEMMA SealedStep ==
    ASSUME TypeOK, Issuing, Sealed, Moves
    PROVE  Sealed'
<1>1. \A p \in Pieces : ~Ordered(p)' => job'[p] = NoJob
  BY DEF Sealed, Moves, OrdersMove
<1>2. ASSUME NEW q \in Pieces, CommitIssue(q)
      PROVE  \A p \in Pieces, k \in Kinds :
               snapshot'[p][k] # 0 <=> Ordered(p)' /\ k \in Files(p)
  <2>1. job'[q].status = "pending" /\ \A p \in Pieces : p # q => job'[p] = job[p]
    BY <1>2 DEF CommitIssue, Enqueued, TypeOK
  <2>2. issue[q].read \in Versions /\ customer \in Versions
    BY <1>2 DEF CommitIssue, Issuing, TypeOK
  <2>3. \A p \in Pieces : p # q => snapshot'[p] = snapshot[p]
    BY <1>2 DEF CommitIssue, TypeOK
  <2>4. \A k \in Kinds : snapshot'[q][k] # 0 <=> k \in Files(q)
    BY <1>2, <2>2, Numbers DEF CommitIssue, TypeOK
  <2>. QED
    BY <2>1, <2>3, <2>4 DEF Sealed, Ordered
<1>3. CASE snapshot' = snapshot /\ \A q \in Pieces : ~CommitIssue(q)
  BY <1>3 DEF Sealed, Moves, OrdersMove
<1>. QED
  BY <1>1, <1>2, <1>3 DEF Sealed, Moves, RowsMove

\* A commit seals the version its transaction has held.
LEMMA OneCustomerStep ==
    ASSUME TypeOK, Issuing, OneCustomerPerPiece, Moves
    PROVE  OneCustomerPerPiece'
<1>1. ASSUME NEW q \in Pieces, CommitIssue(q)
      PROVE  OneCustomerPerPiece'
  <2>1. ASSUME NEW p \in Invoices
        PROVE  snapshot'[p]["pdf"] = snapshot'[p]["facturx_xml"]
    <3>1. CASE p = q
      BY <1>1, <2>1, <3>1 DEF CommitIssue, Issuing, Files, Kinds, TypeOK, Pieces
    <3>2. CASE p # q
      BY <1>1, <2>1, <3>2 DEF CommitIssue, OneCustomerPerPiece, TypeOK, Pieces
    <3>. QED
      BY <3>1, <3>2
  <2>. QED
    BY <2>1 DEF OneCustomerPerPiece
<1>2. CASE snapshot' = snapshot
  BY <1>2 DEF OneCustomerPerPiece
<1>. QED
  BY <1>1, <1>2 DEF Moves, RowsMove

\* A worker renders by its own build.
LEMMA RenderedIsBy ==
    ASSUME NEW w \in Workers
    PROVE  Rendered(w) = RenderedBy(worker[w].piece, build[w])
BY DEF Rendered, RenderedBy

\* A rendering reads nothing but the snapshot.
LEMMA RenderedStays ==
    ASSUME NEW p \in Pieces, snapshot'[p] = snapshot[p], NEW b
    PROVE  RenderedBy(p, b)' = RenderedBy(p, b)
BY DEF RenderedBy, Rendering

\* What is announced by a step is the rendering of one build.
LEMMA AnnouncedStep ==
    ASSUME TypeOK, Issuing, AtWork, Announced, Moves, Grows
    PROVE  Announced'
<1>. SUFFICES ASSUME NEW p \in Pieces, intents'[p] # Nothing
     PROVE  Ordered(p)' /\ \E b \in Renderings : intents'[p] = RenderedBy(p, b)'
  BY DEF Announced
<1>1. CASE intents[p] # Nothing
  <2>1. intents'[p] = intents[p] /\ Ordered(p)' /\ snapshot'[p] = snapshot[p]
    BY <1>1 DEF Announced, Grows
  <2>. QED
    BY <1>1, <2>1, RenderedStays DEF Announced
<1>2. CASE intents[p] = Nothing
  <2>1. PICK w \in Workers : Prepare(w) /\ Announce(w)
    BY <1>2 DEF Moves, RowsMove
  <2>2. worker[w].piece = p
    BY <1>2, <2>1 DEF Announce, TypeOK
  <2>3. Ordered(p) /\ intents'[p] = RenderedBy(p, build[w])
    BY <2>1, <2>2, RenderedIsBy DEF Announce, TypeOK, AtWork, WorkOf, Prepare, At
  <2>4. build[w] \in Renderings
    BY ArchiveAssumption DEF TypeOK, Renderings
  <2>. QED
    BY <2>3, <2>4, RenderedStays DEF Grows
<1>. QED
  BY <1>1, <1>2

---------------------------------------------------------------------------
(* The workers.                                                            *)

\* What a worker has rendered does not change under it.
LEMMA SameRendering ==
    ASSUME AtWork, Grows, NEW w \in Workers, worker[w].at # "idle",
           worker'[w].piece = worker[w].piece, build'[w] = build[w]
    PROVE  Rendered(w)' = Rendered(w)
<1>1. worker[w].piece \in Pieces /\ snapshot'[worker[w].piece] = snapshot[worker[w].piece]
  BY DEF AtWork, WorkOf, Grows
<1>. QED
  BY <1>1 DEF Rendered, Rendering

\* An announcement a worker agrees with is not changed under it.
LEMMA SameIntents ==
    ASSUME TypeOK, Sealed, AtWork, Grows, NEW w \in Workers, worker[w].at # "idle",
           intents[worker[w].piece] = Rendered(w)
    PROVE  intents'[worker[w].piece] = Rendered(w)
<1>1. worker[w].piece \in Pieces /\ Ordered(worker[w].piece)
  BY DEF AtWork, WorkOf
<1>2. Rendered(w) # Nothing
  BY <1>1, SomethingRendered, RenderedIsBy
<1>. QED
  BY <1>1, <1>2 DEF Grows

\* A worker that goes on with its piece, to another step than "stored".
LEMMA Onward ==
    ASSUME TypeOK, Sealed, AtWork, Grows, NEW w \in Workers,
           worker[w].at # "idle",
           worker'[w].piece = worker[w].piece,
           worker'[w].todo \subseteq worker[w].todo,
           worker'[w].at # "stored",
           worker'[w].at \in {"putting", "proving", "proved"} =>
             intents'[worker[w].piece] = Rendered(w),
           build'[w] = build[w]
    PROVE  WorkOf(w)'
<1>1. /\ worker[w].piece \in Pieces /\ Ordered(worker[w].piece)
      /\ worker[w].todo \subseteq Files(worker[w].piece)
  BY DEF AtWork, WorkOf
<1>2. Rendered(w)' = Rendered(w)
  BY SameRendering
<1>3. Ordered(worker[w].piece)'
  BY <1>1 DEF Grows
<1>. QED
  BY <1>1, <1>2, <1>3 DEF WorkOf, Files

\* A worker that does not move keeps what it relies on.
LEMMA Untouched ==
    ASSUME TypeOK, Sealed, AtWork, Grows, NEW w \in Workers,
           worker'[w] = worker[w], build'[w] = build[w]
    PROVE  WorkOf(w)'
<1>1. CASE worker[w].at = "idle"
  BY <1>1 DEF WorkOf
<1>2. CASE worker[w].at # "idle"
  <2>1. Rendered(w)' = Rendered(w)
    BY <1>2, SameRendering
  <2>2. worker[w].at \in {"putting", "stored", "proving", "proved"} =>
          intents'[worker[w].piece] = Rendered(w)
    BY <1>2, SameIntents DEF AtWork, WorkOf
  <2>3. CASE worker[w].at # "stored"
    BY <1>2, <2>2, <2>3, Onward
  <2>4. CASE worker[w].at = "stored"
    <3>1. ObjectOf(w)' = ObjectOf(w)
      BY <2>1 DEF ObjectOf, Current
    <3>2. ObjectOf(w) \in storage'
      BY <1>2, <2>4 DEF AtWork, WorkOf, Grows
    <3>3. worker[w].piece \in Pieces /\ Ordered(worker[w].piece)'
      BY <1>2 DEF AtWork, WorkOf, Grows
    <3>. QED
      BY <1>2, <2>1, <2>2, <2>4, <3>1, <3>2, <3>3 DEF AtWork, WorkOf, Files, Ordered
  <2>. QED
    BY <2>3, <2>4
<1>. QED
  BY <1>1, <1>2


\* The others when one worker moves.
Others(w) == \A v \in Workers : v # w => worker'[v] = worker[v] /\ build'[v] = build[v]

\* It is enough to look at the worker that moves ...
LEMMA OneMoves ==
    ASSUME TypeOK, Sealed, AtWork, Grows, NEW w \in Workers, Others(w), WorkOf(w)'
    PROVE  AtWork'
<1>1. ASSUME NEW v \in Workers, v # w
      PROVE  WorkOf(v)'
  BY <1>1, Untouched DEF Others
<1>. QED
  BY <1>1 DEF AtWork

\* ... and at none when none does.
LEMMA NoneMoves ==
    ASSUME TypeOK, Sealed, AtWork, Grows, worker' = worker, build' = build
    PROVE  AtWork'
BY Untouched DEF AtWork

\* A worker that fails, and one that rests.
LEMMA FailingWork ==
    ASSUME TypeOK, Sealed, AtWork, Grows, NEW w \in Workers, worker[w].at # "idle",
           Goto(w, "failing"), build' = build
    PROVE  AtWork'
<1>1. /\ worker'[w] = [at |-> "failing", piece |-> worker[w].piece, todo |-> worker[w].todo]
      /\ Others(w)
  BY GotoType DEF Steps, Others
<1>2. WorkOf(w)'
  BY <1>1, Onward
<1>. QED
  BY <1>1, <1>2, OneMoves

\* A worker that rests relies on nothing.
LEMMA RestingWork ==
    ASSUME TypeOK, Sealed, AtWork, Grows, NEW w \in Workers, Rest(w),
           \A v \in Workers : v # w => build'[v] = build[v]
    PROVE  AtWork'
<1>1. Others(w)
  BY DEF Rest, Others, TypeOK
<1>2. worker'[w].at = "idle"
  BY DEF Rest, Idle, TypeOK
<1>3. WorkOf(w)'
  BY <1>2 DEF WorkOf
<1>. QED
  BY <1>1, <1>3, OneMoves

\* Every step leaves each worker with what it relies on.
LEMMA AtWorkStep == TypeOK /\ Sealed /\ AtWork /\ Grows /\ [Next]_vars => AtWork'
<1>. SUFFICES ASSUME TypeOK, Sealed, AtWork, Grows, [Next]_vars
     PROVE  AtWork'
  OBVIOUS
<1>1. ASSUME NEW p \in Pieces, OpenIssue(p)
       PROVE  AtWork'
  BY <1>1, NoneMoves DEF Archives, OpenIssue
<1>2. ASSUME NEW p \in Pieces, SaveIssued(p)
       PROVE  AtWork'
  BY <1>2, NoneMoves DEF Archives, SaveIssued
<1>3. ASSUME NEW p \in Pieces, ReadPdfData(p)
       PROVE  AtWork'
  BY <1>3, NoneMoves DEF Archives, ReadPdfData
<1>4. ASSUME NEW p \in Pieces, CommitIssue(p)
       PROVE  AtWork'
  BY <1>4, NoneMoves DEF Archives, CommitIssue
<1>5. ASSUME NEW p \in Pieces, Rollback(p)
       PROVE  AtWork'
  BY <1>5, NoneMoves DEF Archives, Rollback
<1>6. ASSUME NEW p \in Pieces, BecomeDue(p)
       PROVE  AtWork'
  BY <1>6, NoneMoves DEF Archives, BecomeDue
<1>7. ASSUME NEW p \in Pieces, Expire(p)
       PROVE  AtWork'
  BY <1>7, NoneMoves DEF Archives, Expire
<1>8. ASSUME EditBehindBarrier
       PROVE  AtWork'
  BY <1>8, NoneMoves DEF Archives, EditBehindBarrier
<1>9. ASSUME EditByEffect
       PROVE  AtWork'
  BY <1>9, NoneMoves DEF Archives, EditByEffect
<1>10. ASSUME NEW w \in Workers, NEW p \in Pieces, Claim(w, p)
       PROVE  AtWork'
  <2>1. /\ worker' = [worker EXCEPT ![w] = [at |-> "claimed", piece |-> p, todo |-> Files(p)]]
        /\ build' = build /\ Open(p)
    BY <1>10 DEF Claim, Claimable
  <2>2. Others(w)
    BY <2>1 DEF Others, TypeOK
  <2>3. worker'[w] = [at |-> "claimed", piece |-> p, todo |-> Files(p)]
    BY <2>1 DEF TypeOK
  <2>4. Ordered(p)'
    BY <2>1 DEF Grows, Open, Ordered
  <2>5. WorkOf(w)'
    BY <2>3, <2>4 DEF WorkOf, Files, Ordered
  <2>. QED
    BY <2>2, <2>5, OneMoves
<1>11. ASSUME NEW w \in Workers, Prepare(w)
       PROVE  AtWork'
  <2>1. worker[w].at # "idle" /\ build' = build
    BY <1>11 DEF At, Prepare
  <2>2. CASE Goto(w, "failing")
    BY <2>1, <2>2, FailingWork
  <2>3. CASE Announce(w) /\ Goto(w, "putting")
    <3>1. /\ worker'[w] = [at |-> "putting", piece |-> worker[w].piece, todo |-> worker[w].todo]
          /\ Others(w)
      BY <2>1, <2>3, GotoType DEF Steps, Others
    <3>2. intents'[worker[w].piece] = Rendered(w)
      BY <2>1, <2>3 DEF Announce, AtWork, WorkOf, TypeOK
    <3>3. WorkOf(w)'
      BY <2>1, <3>1, <3>2, Onward
    <3>. QED
      BY <3>1, <3>3, OneMoves
  <2>. QED
    BY <1>11, <2>2, <2>3 DEF Prepare
<1>12. ASSUME NEW w \in Workers, Put(w)
       PROVE  AtWork'
  <2>1. worker[w].at # "idle" /\ build' = build
    BY <1>12 DEF At, Put
  <2>2. /\ worker'[w] = [at |-> "stored", piece |-> worker[w].piece, todo |-> worker[w].todo]
        /\ Others(w)
    BY <1>12, GotoType DEF Put, Steps, Others
  <2>3. Rendered(w)' = Rendered(w)
    BY <2>1, <2>2, SameRendering
  <2>4. intents'[worker[w].piece] = Rendered(w)
    BY <1>12, <2>1, SameIntents DEF Put, At, AtWork, WorkOf
  <2>5. ObjectOf(w)' = ObjectOf(w) /\ ObjectOf(w) \in storage'
    BY <1>12, <2>2, <2>3 DEF Put, ObjectOf, Current
  <2>6. /\ worker[w].piece \in Pieces /\ Ordered(worker[w].piece)'
        /\ worker[w].todo \subseteq Files(worker[w].piece)
    BY <2>1, <2>2 DEF AtWork, WorkOf, Grows, Ordered
  <2>7. WorkOf(w)'
    BY <2>2, <2>3, <2>4, <2>5, <2>6 DEF WorkOf, Files, Ordered
  <2>. QED
    BY <2>2, <2>7, OneMoves
<1>13. ASSUME NEW w \in Workers, Materialize(w)
       PROVE  AtWork'
  <2>1. worker[w].at # "idle" /\ build' = build
    BY <1>13 DEF At, Materialize
  <2>2. CASE Goto(w, "failing")
    BY <2>1, <2>2, FailingWork
  <2>3. CASE ~Goto(w, "failing")
    <3>. DEFINE left == worker[w].todo \ {Current(w)}
    <3>1. worker' = [worker EXCEPT ![w] =
                [at |-> IF left = {} THEN "proving" ELSE "putting",
                 piece |-> worker[w].piece, todo |-> left]]
      BY <1>13, <2>3 DEF Materialize
    <3>2. Others(w)
      BY <2>1, <3>1 DEF Others, TypeOK
    <3>3. /\ worker'[w].at \in {"proving", "putting"} /\ worker'[w].piece = worker[w].piece
          /\ worker'[w].todo \subseteq worker[w].todo
      BY <3>1 DEF TypeOK
    <3>4. intents'[worker[w].piece] = Rendered(w)
      BY <1>13, <2>1, SameIntents DEF Materialize, At, AtWork, WorkOf
    <3>5. WorkOf(w)'
      BY <2>1, <3>3, <3>4, Onward
    <3>. QED
      BY <3>2, <3>5, OneMoves
  <2>. QED
    BY <2>2, <2>3
<1>14. ASSUME NEW w \in Workers, Prove(w)
       PROVE  AtWork'
  <2>1. worker[w].at # "idle" /\ build' = build
    BY <1>14 DEF At, Prove
  <2>2. CASE Goto(w, "failing")
    BY <2>1, <2>2, FailingWork
  <2>3. CASE Goto(w, "proved")
    <3>1. /\ worker'[w] = [at |-> "proved", piece |-> worker[w].piece, todo |-> worker[w].todo]
          /\ Others(w)
      BY <2>1, <2>3, GotoType DEF Steps, Others
    <3>2. intents'[worker[w].piece] = Rendered(w)
      BY <1>14, <2>1, SameIntents DEF Prove, At, AtWork, WorkOf
    <3>3. WorkOf(w)'
      BY <2>1, <3>1, <3>2, Onward
    <3>. QED
      BY <3>1, <3>3, OneMoves
  <2>. QED
    BY <1>14, <2>2, <2>3 DEF Prove
<1>15. ASSUME NEW w \in Workers, Complete(w)
       PROVE  AtWork'
  <2>1. worker[w].at # "idle" /\ build' = build
    BY <1>15 DEF At, Complete
  <2>2. Goto(w, "failing") \/ Rest(w)
    BY <1>15 DEF Complete
  <2>. QED
    BY <2>1, <2>2, FailingWork, RestingWork
<1>16. ASSUME NEW w \in Workers, MarkFailed(w)
       PROVE  AtWork'
  BY <1>16, RestingWork DEF MarkFailed
<1>17. ASSUME NEW w \in Workers, StorageFails(w)
       PROVE  AtWork'
  <2>1. worker[w].at # "idle" /\ build' = build
    BY <1>17 DEF At, StorageFails
  <2>2. Goto(w, "failing")
    BY <1>17 DEF StorageFails
  <2>. QED
    BY <2>1, <2>2, FailingWork
<1>18. ASSUME NEW w \in Workers, Abandon(w)
       PROVE  AtWork'
  BY <1>18, RestingWork DEF Abandon
<1>19. ASSUME NEW w \in Workers, Redeploy(w)
       PROVE  AtWork'
  <2>1. Rest(w) /\ \A v \in Workers : v # w => build'[v] = build[v]
    BY <1>19 DEF Redeploy, TypeOK
  <2>. QED
    BY <2>1, RestingWork
<1>20. CASE UNCHANGED vars
  BY <1>20, NoneMoves DEF vars
<1>. QED
  BY <1>1, <1>2, <1>3, <1>4, <1>5, <1>6, <1>7, <1>8, <1>9, <1>10, <1>11, <1>12, <1>13,
      <1>14, <1>15, <1>16, <1>17, <1>18, <1>19, <1>20
  DEF Next, IssueStep, WorkerStep, Fault

---------------------------------------------------------------------------
(* The storage, the documents, and the archived pieces.                    *)

\* What a worker uploads is what was announced.
LEMMA ObjectAnnounced ==
    ASSUME TypeOK, Sealed, AtWork, NEW w \in Workers, worker[w].at \in {"putting", "stored"}
    PROVE  /\ worker[w].piece \in Pieces /\ Current(w) \in Files(worker[w].piece)
           /\ intents[worker[w].piece][Current(w)] = Rendered(w)[Current(w)]
           /\ Rendered(w)[Current(w)] # NoBytes
<1>1. /\ worker[w].piece \in Pieces /\ Ordered(worker[w].piece)
      /\ worker[w].todo \subseteq Files(worker[w].piece)
      /\ intents[worker[w].piece] = Rendered(w)
  BY DEF AtWork, WorkOf
<1>2. Current(w) \in Files(worker[w].piece)
  BY <1>1, CurrentFile
<1>3. Rendered(w)[Current(w)] = Rendering(worker[w].piece, Current(w), build[w])
  BY <1>1, <1>2, FilesAreKinds DEF Rendered
<1>. QED
  BY <1>1, <1>2, <1>3, SomethingRendered

\* An upload is of an announced object, a filing of an uploaded one.
LEMMA NothingUnannouncedStep ==
    ASSUME TypeOK, TypeOK', Sealed, AtWork, Announced, NothingUnannounced, Something,
           Moves, Grows
    PROVE  NothingUnannounced' /\ Something'
<1>1. ASSUME NEW object \in storage'
      PROVE  intents'[object[1]][object[2]] = object[3] /\ object[3] # NoBytes
  <2>1. PICK p \in Pieces, k \in Kinds, b \in Bytes : object = <<p, k, b>>
    BY <1>1 DEF TypeOK
  <2>2. CASE object \in storage
    <3>1. intents[p][k] = b /\ b # NoBytes
      BY <2>1, <2>2 DEF NothingUnannounced, Something
    <3>2. intents[p] # Nothing
      BY <3>1 DEF Nothing
    <3>. QED
      BY <2>1, <3>1, <3>2 DEF Grows
  <2>3. CASE object \notin storage
    <3>1. PICK w \in Workers : /\ At(w, "putting") /\ UNCHANGED rows
                               /\ storage' = storage \cup {ObjectOf(w)}
      BY <1>1, <2>3 DEF Moves, RowsMove
    <3>2. object = ObjectOf(w) /\ intents' = intents
      BY <1>1, <2>3, <3>1 DEF rows
    <3>. QED
      BY <3>1, <3>2, ObjectAnnounced DEF ObjectOf, At
  <2>. QED
    BY <2>2, <2>3
<1>2. ASSUME NEW p \in Pieces, NEW k \in Kinds, documents'[p][k] # NoBytes
      PROVE  <<p, k, documents'[p][k]>> \in storage'
  <2>1. CASE documents[p][k] # NoBytes
    BY <1>2, <2>1 DEF Grows, NothingUnannounced
  <2>2. CASE documents[p][k] = NoBytes
    <3>1. PICK w \in Workers :
            /\ Materialize(w)
            /\ documents' = [documents EXCEPT
                 ![worker[w].piece][Current(w)] = Rendered(w)[Current(w)]]
      BY <1>2, <2>2 DEF Moves, RowsMove
    <3>2. /\ worker[w].piece \in Pieces /\ ObjectOf(w) \in storage
      BY <3>1 DEF Materialize, At, AtWork, WorkOf
    <3>3. Current(w) \in Kinds /\ Rendered(w)[Current(w)] \in Bytes
      BY <3>2, RenderedType DEF Current, Kinds
    <3>4. documents'[worker[w].piece][Current(w)] = Rendered(w)[Current(w)]
      BY <3>1, <3>2, <3>3, FileFiled
    <3>5. p = worker[w].piece /\ k = Current(w)
      BY <1>2, <2>2, <3>1, <3>2, <3>3 DEF TypeOK
    <3>. QED
      BY <3>2, <3>4, <3>5 DEF ObjectOf, Grows
  <2>. QED
    BY <2>1, <2>2
<1>. QED
  BY <1>1, <1>2 DEF NothingUnannounced, Something

\* An order is completed with all its files.
LEMMA WholeStep ==
    ASSUME TypeOK, Sealed, AtWork, Whole, Moves, Grows
    PROVE  Whole'
<1>. SUFFICES ASSUME NEW p \in Pieces, Archived(p)', NEW k \in Files(p)
     PROVE  documents'[p][k] # NoBytes
  BY DEF Whole, Files
<1>1. CASE documents[p][k] # NoBytes
  BY <1>1, FilesAreKinds DEF Grows
<1>2. CASE ~Archived(p)
  <2>1. PICK w \in Workers : Complete(w) /\ worker[w].piece = p /\ intents[p] = documents[p]
    BY <1>2 DEF Moves, ArchiveMoves
  <2>2. Ordered(p) /\ intents[p] = Rendered(w)
    BY <2>1 DEF Complete, At, AtWork, WorkOf
  <2>3. documents[p][k] # NoBytes
    BY <2>1, <2>2, SomethingRendered, FilesAreKinds DEF Rendered
  <2>. QED
    BY <2>3, <1>1
<1>. QED
  BY <1>1, <1>2 DEF Whole

---------------------------------------------------------------------------
(* The invariants.                                                         *)

\* At first nothing is issued.
LEMMA InitHolds == Init => IInv
<1>. SUFFICES ASSUME Init
     PROVE  IInv
  OBVIOUS
<1>1. TypeOK
  BY Numbers, ArchiveAssumption
  DEF Init, TypeOK, Issue, Unissued, Job, NoJob, Nothing, NoBytes, Bytes, Work, Idle,
      Steps
<1>2. Issuing /\ Sealed /\ OneCustomerPerPiece /\ Announced
  BY DEF Init, Issuing, Unissued, Sealed, Ordered, NoJob, OneCustomerPerPiece, Pieces,
      Kinds,
         Announced
<1>3. AtWork /\ NothingUnannounced /\ Something /\ Whole
  BY DEF Init, AtWork, WorkOf, Idle, NothingUnannounced, Nothing, NoBytes, Something,
      Whole,
         Archived, NoJob
<1>. QED
  BY <1>1, <1>2, <1>3 DEF IInv

\* The inductive invariant holds in every reachable state.
THEOREM ArchiveInvariance == Spec => []IInv
<1>1. IInv /\ [Next]_vars => IInv'
  <2>. SUFFICES ASSUME IInv, [Next]_vars
       PROVE  IInv'
    OBVIOUS
  <2>1. TypeOK' /\ Moves
    BY TypeStep, MovesStep DEF IInv
  <2>2. Grows
    BY <2>1, GrowsStep DEF IInv
  <2>3. Issuing' /\ Sealed' /\ OneCustomerPerPiece'
    BY <2>1, IssuingStep, SealedStep, OneCustomerStep DEF IInv
  <2>4. Announced' /\ AtWork'
    BY <2>1, <2>2, AnnouncedStep, AtWorkStep DEF IInv
  <2>5. NothingUnannounced' /\ Something' /\ Whole'
    BY <2>1, <2>2, NothingUnannouncedStep, WholeStep DEF IInv
  <2>. QED
    BY <2>1, <2>3, <2>4, <2>5 DEF IInv
<1>. QED
  BY InitHolds, <1>1, PTL DEF Spec

\* Type correctness, for every number of pieces, workers, edits and faults.
THEOREM ArchiveTypes == Spec => []TypeOK
<1>1. IInv => TypeOK
  BY DEF IInv
<1>. QED
  BY <1>1, ArchiveInvariance, PTL

\* An invoice's PDF and XML name one customer, whatever Bob's effect writes
\* while the invoice is issued.
THEOREM InvoiceNamesOneCustomer == Spec => []OneCustomerPerPiece
<1>1. IInv => OneCustomerPerPiece
  BY DEF IInv
<1>. QED
  BY <1>1, ArchiveInvariance, PTL

\* Every document has its object, and every object was announced.
THEOREM EveryObjectAnnounced == Spec => []NothingUnannounced
<1>1. IInv => NothingUnannounced
  BY DEF IInv
<1>. QED
  BY <1>1, ArchiveInvariance, PTL

\* What an archived piece is made of.
LEMMA ArchivedFiles ==
    ASSUME IInv, NEW p \in Pieces, Archived(p)
    PROVE  /\ Ordered(p) /\ documents[p] = intents[p]
           /\ \A k \in Files(p) : <<p, k, documents[p][k]>> \in storage
           /\ \E b \in Renderings : intents[p] = RenderedBy(p, b)
<1>1. Ordered(p)
  BY DEF Archived, Ordered
<1>2. \A k \in Files(p) : documents[p][k] # NoBytes
  BY DEF IInv, Whole
<1>3. \A k \in Kinds : documents[p][k] # NoBytes =>
        /\ <<p, k, documents[p][k]>> \in storage
        /\ intents[p][k] = documents[p][k]
  BY DEF IInv, NothingUnannounced
<1>4. intents[p] # Nothing
  BY <1>2, <1>3, FilesAreKinds DEF Nothing
<1>5. PICK b \in Renderings : intents[p] = RenderedBy(p, b)
  BY <1>4 DEF IInv, Announced
<1>6. \A k \in Kinds \ Files(p) : intents[p][k] = NoBytes
  BY <1>5 DEF RenderedBy, Rendering
<1>7. \A k \in Kinds : documents[p][k] = intents[p][k]
  BY <1>2, <1>3, <1>6
<1>8. documents[p] = intents[p]
  BY <1>7 DEF IInv, TypeOK
<1>. QED
  BY <1>1, <1>2, <1>3, <1>5, <1>8, FilesAreKinds

\* An archived piece is the one that was issued, drawn by one build.
THEOREM ArchiveIsAsIssued == Spec => []ArchivedAsIssued
<1>1. IInv => ArchivedAsIssued
  <2>. SUFFICES ASSUME IInv, NEW p \in Pieces, Archived(p)
       PROVE  /\ \E b \in Renderings : \A k \in Files(p) :
                   documents[p][k] = Drawn(snapshot[p][k], k, b)
              /\ \A k \in Files(p) : <<p, k, documents[p][k]>> \in storage
    BY DEF ArchivedAsIssued
  <2>1. PICK b \in Renderings : intents[p] = RenderedBy(p, b)
    BY ArchivedFiles
  <2>2. \A k \in Files(p) : documents[p][k] = Drawn(snapshot[p][k], k, b)
    BY <2>1, ArchivedFiles, FilesAreKinds DEF RenderedBy, Rendering
  <2>. QED
    BY <2>2, ArchivedFiles
<1>. QED
  BY <1>1, ArchiveInvariance, PTL

---------------------------------------------------------------------------
(* Nobody takes a running lease.                                           *)

LeasesKept ==
    \A p \in Pieces, w \in Workers :
      job[p].lease = w /\ ~job[p].due /\ job'[p] # job[p] =>
        \/ job'[p] = [job[p] EXCEPT !.due = TRUE]
        \/ worker[w].piece = p /\ worker'[w] # worker[w]

\* A running lease ends by its holder or by the clock, at every step.
LEMMA LeasesStep == TypeOK /\ Issuing /\ Sealed /\ AtWork /\ [Next]_vars => LeasesKept
<1>. SUFFICES ASSUME TypeOK, Issuing, Sealed, AtWork, [Next]_vars
     PROVE  LeasesKept
  OBVIOUS
<1>1. ASSUME NEW p \in Pieces, OpenIssue(p)
       PROVE  LeasesKept
  BY <1>1 DEF LeasesKept, rows, Archives, OpenIssue
<1>2. ASSUME NEW p \in Pieces, SaveIssued(p)
       PROVE  LeasesKept
  BY <1>2 DEF LeasesKept, rows, Archives, SaveIssued
<1>3. ASSUME NEW p \in Pieces, ReadPdfData(p)
       PROVE  LeasesKept
  BY <1>3 DEF LeasesKept, rows, Archives, ReadPdfData
<1>4. ASSUME NEW p \in Pieces, CommitIssue(p)
       PROVE  LeasesKept
  <2>1. job[p].lease = NoOne
    BY <1>4 DEF CommitIssue, Issuing, Sealed, NoJob
  <2>2. \A q \in Pieces : q # p => job'[q] = job[q]
    BY <1>4 DEF CommitIssue, Enqueued, TypeOK
  <2>. QED
    BY <2>1, <2>2, NoOneAssumption DEF LeasesKept
<1>5. ASSUME NEW p \in Pieces, Rollback(p)
       PROVE  LeasesKept
  BY <1>5 DEF LeasesKept, rows, Archives, Rollback
<1>6. ASSUME NEW p \in Pieces, BecomeDue(p)
       PROVE  LeasesKept
  BY <1>6, JobComesDue DEF LeasesKept, BecomeDue
<1>7. ASSUME NEW p \in Pieces, Expire(p)
       PROVE  LeasesKept
  BY <1>7, JobComesDue DEF LeasesKept, Expire
<1>8. ASSUME EditBehindBarrier
       PROVE  LeasesKept
  BY <1>8 DEF LeasesKept, rows, Archives, EditBehindBarrier
<1>9. ASSUME EditByEffect
       PROVE  LeasesKept
  BY <1>9 DEF LeasesKept, rows, Archives, EditByEffect
<1>10. ASSUME NEW w \in Workers, NEW p \in Pieces, Claim(w, p)
       PROVE  LeasesKept
  <2>1. job[p].due
    BY <1>10 DEF Claim, Claimable
  <2>2. \A q \in Pieces : q # p => job'[q] = job[q]
    BY <1>10 DEF Claim, TypeOK
  <2>. QED
    BY <2>1, <2>2 DEF LeasesKept
<1>11. ASSUME NEW w \in Workers, Prepare(w)
       PROVE  LeasesKept
  BY <1>11 DEF LeasesKept, rows, Archives, Prepare
<1>12. ASSUME NEW w \in Workers, Put(w)
       PROVE  LeasesKept
  BY <1>12 DEF LeasesKept, rows, Archives, Put
<1>13. ASSUME NEW w \in Workers, Materialize(w)
       PROVE  LeasesKept
  BY <1>13 DEF LeasesKept, rows, Archives, Materialize
<1>14. ASSUME NEW w \in Workers, Prove(w)
       PROVE  LeasesKept
  BY <1>14 DEF LeasesKept, rows, Archives, Prove
<1>15. ASSUME NEW w \in Workers, Complete(w)
       PROVE  LeasesKept
  <2>1. worker[w].piece \in Pieces /\ worker[w].at # "idle"
    BY <1>15 DEF AtWork, WorkOf, At, Complete
  <2>2. CASE job' = job
    BY <2>2 DEF LeasesKept
  <2>3. CASE job' # job
    <3>1. job[worker[w].piece].lease = w /\ worker'[w] # worker[w]
      BY <1>15, <2>1, <2>3 DEF Complete, Holds, Rest, Idle, TypeOK
    <3>2. \A q \in Pieces : q # worker[w].piece => job'[q] = job[q]
      BY <1>15, <2>1, <2>3, JobFinishes DEF Complete
    <3>. QED
      BY <3>1, <3>2 DEF LeasesKept
  <2>. QED
    BY <2>2, <2>3
<1>16. ASSUME NEW w \in Workers, MarkFailed(w)
       PROVE  LeasesKept
  <2>1. worker[w].piece \in Pieces /\ worker[w].at # "idle"
    BY <1>16 DEF AtWork, WorkOf, At, MarkFailed
  <2>2. CASE job' = job
    BY <2>2 DEF LeasesKept
  <2>3. CASE job' # job
    <3>1. job[worker[w].piece].lease = w /\ worker'[w] # worker[w]
      BY <1>16, <2>1, <2>3 DEF MarkFailed, Holds, Rest, Idle, TypeOK
    <3>2. \A q \in Pieces : q # worker[w].piece => job'[q] = job[q]
      BY <1>16, <2>1, <2>3 DEF MarkFailed, TypeOK
    <3>. QED
      BY <3>1, <3>2 DEF LeasesKept
  <2>. QED
    BY <2>2, <2>3
<1>17. ASSUME NEW w \in Workers, StorageFails(w)
       PROVE  LeasesKept
  BY <1>17 DEF LeasesKept, rows, Archives, StorageFails
<1>18. ASSUME NEW w \in Workers, Abandon(w)
       PROVE  LeasesKept
  BY <1>18 DEF LeasesKept, rows, Archives, Abandon
<1>19. ASSUME NEW w \in Workers, Redeploy(w)
       PROVE  LeasesKept
  BY <1>19 DEF LeasesKept, rows, Archives, Redeploy
<1>20. CASE UNCHANGED vars
  BY <1>20 DEF LeasesKept, vars, rows
<1>. QED
  BY <1>1, <1>2, <1>3, <1>4, <1>5, <1>6, <1>7, <1>8, <1>9, <1>10, <1>11, <1>12, <1>13,
      <1>14, <1>15, <1>16, <1>17, <1>18, <1>19, <1>20
  DEF Next, IssueStep, WorkerStep, Fault

\* A running lease is changed by its holder only, or runs out.
THEOREM LeasesAreKept == Spec => NoStolenLease
<1>1. IInv /\ [Next]_vars => LeasesKept
  BY LeasesStep DEF IInv
<1>. QED
  BY <1>1, ArchiveInvariance, PTL DEF Spec, NoStolenLease, LeasesKept

---------------------------------------------------------------------------
(* The promise of SealedOriginal.                                          *)

Keeps ==
    \/ Original!PromiseNext
    \/ UNCHANGED <<sealed, chosen, archived>>

\* The files of an archived piece do not change.
LEMMA ArchivedStay ==
    ASSUME IInv, IInv', Moves, Grows, NEW p \in Pieces, Archived(p)
    PROVE  archived'[p] = archived[p]
<1>1. Archived(p)'
  BY DEF Moves, ArchiveMoves
<1>2. \A k \in Files(p) : documents'[p][k] = documents[p][k]
  BY FilesAreKinds DEF IInv, Whole, Grows
<1>3. documents[p] = intents[p] /\ \E b \in Renderings : intents[p] = RenderedBy(p, b)
  BY ArchivedFiles
<1>4. \A k \in Kinds \ Files(p) : intents[p][k] = NoBytes
  BY <1>3 DEF RenderedBy, Rendering
<1>5. intents'[p] = intents[p]
  <2>1. "pdf" \in Files(p) /\ "pdf" \in Kinds
    BY FilesAreKinds
  <2>2. intents[p]["pdf"] # NoBytes
    BY <1>3, <2>1 DEF IInv, Whole
  <2>. QED
    BY <2>1, <2>2 DEF Grows, Nothing
<1>6. \A k \in Kinds : documents'[p][k] # NoBytes => intents'[p][k] = documents'[p][k]
  BY DEF IInv, NothingUnannounced
<1>7. \A k \in Kinds : documents'[p][k] = documents[p][k]
  BY <1>2, <1>3, <1>4, <1>5, <1>6
<1>8. documents'[p] = documents[p]
  BY <1>7 DEF IInv, TypeOK
<1>. QED
  BY <1>1, <1>8 DEF archived

\* The pieces that are not archived before nor after.
LEMMA ArchivedSame ==
    ASSUME IInv, IInv', Moves, Grows, NEW p \in Pieces, Archived(p)' => Archived(p)
    PROVE  archived'[p] = archived[p]
<1>1. CASE Archived(p)
  BY <1>1, ArchivedStay
<1>2. CASE ~Archived(p)
  BY <1>2 DEF archived
<1>. QED
  BY <1>1, <1>2

\* A step that seals, announces and completes nothing is a stutter.
LEMMA Quiet ==
    ASSUME IInv, IInv', Moves, Grows, snapshot' = snapshot, intents' = intents,
           \A p \in Pieces : Archived(p)' => Archived(p)
    PROVE  Keeps
<1>1. \A p \in Pieces : archived'[p] = archived[p]
  BY ArchivedSame
<1>2. archived' = archived
  BY <1>1 DEF archived
<1>3. sealed' = sealed /\ chosen' = chosen
  BY DEF sealed, chosen
<1>. QED
  BY <1>2, <1>3 DEF Keeps

\* Every step is one of SealedOriginal's or a stutter.
LEMMA PromiseStep == IInv /\ IInv' /\ Moves /\ Grows /\ [Next]_vars => Keeps
<1>. SUFFICES ASSUME IInv, IInv', Moves, Grows, [Next]_vars
     PROVE  Keeps
  OBVIOUS
<1>1. ASSUME NEW p \in Pieces, OpenIssue(p)
       PROVE  Keeps
  BY <1>1, Quiet DEF Archived, rows, Archives, OpenIssue
<1>2. ASSUME NEW p \in Pieces, SaveIssued(p)
       PROVE  Keeps
  BY <1>2, Quiet DEF Archived, rows, Archives, SaveIssued
<1>3. ASSUME NEW p \in Pieces, ReadPdfData(p)
       PROVE  Keeps
  BY <1>3, Quiet DEF Archived, rows, Archives, ReadPdfData
<1>4. ASSUME NEW p \in Pieces, CommitIssue(p)
       PROVE  Keeps
  <2>1. ~Ordered(p) /\ issue[p].read \in Versions
    BY <1>4 DEF CommitIssue, IInv, Issuing
  <2>2. \A q \in Pieces : Archived(q)' => Archived(q)
    BY <1>4 DEF CommitIssue, Enqueued, Archived, IInv, TypeOK
  <2>3. archived' = archived
    <3>1. \A q \in Pieces : archived'[q] = archived[q]
      BY <2>2, ArchivedSame
    <3>. QED
      BY <3>1 DEF archived
  <2>4. sealed[p] = 0
    BY <2>1 DEF sealed, IInv, Sealed, Kinds
  <2>5. /\ snapshot'[p]["pdf"] = issue[p].read
        /\ \A q \in Pieces : q # p => snapshot'[q] = snapshot[q]
    BY <1>4, FilesAreKinds DEF CommitIssue, IInv, TypeOK
  <2>6. sealed' = [sealed EXCEPT ![p] = issue[p].read]
    BY <2>5 DEF sealed
  <2>7. chosen' = chosen
    BY <1>4 DEF CommitIssue, Archives, chosen
  <2>8. Original!Seal(p)
    BY <2>1, <2>3, <2>4, <2>6, <2>7 DEF Original!Seal
  <2>. QED
    BY <2>8 DEF Keeps, Original!PromiseNext
<1>5. ASSUME NEW p \in Pieces, Rollback(p)
       PROVE  Keeps
  BY <1>5, Quiet DEF Archived, rows, Archives, Rollback
<1>6. ASSUME NEW p \in Pieces, BecomeDue(p)
       PROVE  Keeps
  <2>1. \A q \in Pieces : Archived(q)' => Archived(q)
    BY <1>6, JobComesDue DEF IInv, Archived, BecomeDue
  <2>. QED
    BY <1>6, <2>1, Quiet DEF BecomeDue
<1>7. ASSUME NEW p \in Pieces, Expire(p)
       PROVE  Keeps
  <2>1. \A q \in Pieces : Archived(q)' => Archived(q)
    BY <1>7, JobComesDue DEF IInv, Archived, Expire
  <2>. QED
    BY <1>7, <2>1, Quiet DEF Expire
<1>8. ASSUME EditBehindBarrier
       PROVE  Keeps
  BY <1>8, Quiet DEF Archived, rows, Archives, EditBehindBarrier
<1>9. ASSUME EditByEffect
       PROVE  Keeps
  BY <1>9, Quiet DEF Archived, rows, Archives, EditByEffect
<1>10. ASSUME NEW w \in Workers, NEW p \in Pieces, Claim(w, p)
       PROVE  Keeps
  <2>1. \A q \in Pieces : Archived(q)' => Archived(q)
    BY <1>10 DEF IInv, TypeOK, Archived, Retried, Claim
  <2>. QED
    BY <1>10, <2>1, Quiet DEF Claim
<1>11. ASSUME NEW w \in Workers, Prepare(w)
       PROVE  Keeps
  <2>1. \A q \in Pieces : Archived(q)' => Archived(q)
    BY <1>11 DEF Prepare, Archived
  <2>2. CASE intents' = intents
    BY <1>11, <2>1, <2>2, Quiet DEF Prepare
  <2>3. CASE intents' # intents
    <3>. DEFINE p == worker[w].piece
    <3>1. p \in Pieces /\ Ordered(p)
      BY <1>11 DEF Prepare, At, IInv, AtWork, WorkOf
    <3>2. intents[p] = Nothing /\ intents' = [intents EXCEPT ![p] = Rendered(w)]
      <4>1. intents[p] \in {Nothing, Rendered(w)} /\ intents' = [intents EXCEPT ![p] = Rendered(w)]
        BY <1>11, <2>3 DEF Prepare, Announce
      <4>. QED
        BY <2>3, <3>1, <4>1 DEF IInv, TypeOK
    <3>3. Rendered(w)["pdf"].by = build[w]
      BY <3>1, FilesAreKinds, DrawnTwice DEF Rendered, Rendering
    <3>4. build[w] \in Renderings
      BY ArchiveAssumption DEF IInv, TypeOK, Renderings
    <3>5. chosen' = [chosen EXCEPT ![p] = build[w]]
      BY <3>1, <3>2, <3>3 DEF chosen, IInv, TypeOK
    <3>6. chosen[p] = 0
      BY <3>1, <3>2 DEF chosen, Nothing, NoBytes, Kinds
    <3>7. sealed[p] # 0
      BY <3>1, FilesAreKinds DEF sealed, IInv, Sealed
    <3>8. sealed' = sealed
      BY <1>11 DEF Prepare, sealed
    <3>9. archived' = archived
      <4>1. \A q \in Pieces : archived'[q] = archived[q]
        BY <2>1, ArchivedSame
      <4>. QED
        BY <4>1 DEF archived
    <3>10. Original!Choose(p)
      BY <3>1, <3>4, <3>5, <3>6, <3>7, <3>8, <3>9 DEF Original!Choose
    <3>. QED
      BY <3>1, <3>10 DEF Keeps, Original!PromiseNext
  <2>. QED
    BY <2>2, <2>3
<1>12. ASSUME NEW w \in Workers, Put(w)
       PROVE  Keeps
  BY <1>12, Quiet DEF Archived, rows, Archives, Put
<1>13. ASSUME NEW w \in Workers, Materialize(w)
       PROVE  Keeps
  BY <1>13, Quiet DEF Archived, rows, Archives, Materialize
<1>14. ASSUME NEW w \in Workers, Prove(w)
       PROVE  Keeps
  BY <1>14, Quiet DEF Archived, rows, Archives, Prove
<1>15. ASSUME NEW w \in Workers, Complete(w)
       PROVE  Keeps
  <2>1. CASE job' = job
    BY <1>15, <2>1, Quiet DEF Complete, Archived
  <2>2. CASE job' # job
    <3>. DEFINE p == worker[w].piece
    <3>1. /\ p \in Pieces /\ Ordered(p) /\ intents[p] = Rendered(w)
      BY <1>15 DEF Complete, At, IInv, AtWork, WorkOf
    <3>2. Open(p) /\ intents[p] = documents[p] /\ Finished(p)
      BY <1>15, <2>2 DEF Complete, Holds
    <3>3. /\ job'[p].status = "done" /\ job[p].status # "done"
          /\ \A q \in Pieces : q # p => job'[q] = job[q]
      BY <3>1, <3>2, JobFinishes DEF IInv, Open
    <3>4. snapshot' = snapshot /\ intents' = intents /\ documents' = documents
      BY <1>15 DEF Complete
    <3>5. build[w] \in Renderings
      BY ArchiveAssumption DEF IInv, TypeOK, Renderings
    <3>6. chosen[p] = build[w]
      BY <3>1, FilesAreKinds, DrawnTwice DEF chosen, Rendered, Rendering
    <3>7. archived[p] = Nothing /\ archived'[p] = Rendered(w)
      BY <3>1, <3>2, <3>3, <3>4 DEF archived, Archived
    <3>8. \A q \in Pieces : q # p => archived'[q] = archived[q]
      BY <3>3, <3>4 DEF archived, Archived
    <3>9. \A k \in Files(p) : snapshot[p][k] = sealed[p]
      BY <3>1 DEF IInv, OneCustomerPerPiece, Files, Kinds, sealed
    <3>10. Rendered(w) = [k \in Kinds |-> IF k \in Files(p) THEN Drawn(sealed[p], k, chosen[p])
                                                ELSE Nothing[k]]
      BY <3>6, <3>9 DEF Rendered, Rendering, Nothing
    <3>11. archived' = [archived EXCEPT ![p] = Rendered(w)]
      BY <3>1, <3>7, <3>8 DEF archived
    <3>12. sealed' = sealed /\ chosen' = chosen
      BY <3>4 DEF sealed, chosen
    <3>13. Original!Archive(p)
      BY <3>5, <3>6, <3>7, <3>10, <3>11, <3>12, Numbers DEF Original!Archive
    <3>. QED
      BY <3>1, <3>13 DEF Keeps, Original!PromiseNext
  <2>. QED
    BY <2>1, <2>2
<1>16. ASSUME NEW w \in Workers, MarkFailed(w)
       PROVE  Keeps
  <2>1. \A q \in Pieces : Archived(q)' => Archived(q)
    BY <1>16 DEF IInv, TypeOK, Archived, Retried, MarkFailed
  <2>. QED
    BY <1>16, <2>1, Quiet DEF MarkFailed
<1>17. ASSUME NEW w \in Workers, StorageFails(w)
       PROVE  Keeps
  BY <1>17, Quiet DEF Archived, rows, Archives, StorageFails
<1>18. ASSUME NEW w \in Workers, Abandon(w)
       PROVE  Keeps
  BY <1>18, Quiet DEF Archived, rows, Archives, Abandon
<1>19. ASSUME NEW w \in Workers, Redeploy(w)
       PROVE  Keeps
  BY <1>19, Quiet DEF Archived, rows, Archives, Redeploy
<1>20. CASE UNCHANGED vars
  BY <1>20, Quiet DEF vars, rows, Archived
<1>. QED
  BY <1>1, <1>2, <1>3, <1>4, <1>5, <1>6, <1>7, <1>8, <1>9, <1>10, <1>11, <1>12, <1>13,
      <1>14, <1>15, <1>16, <1>17, <1>18, <1>19, <1>20
  DEF Next, IssueStep, WorkerStep, Fault

\* The archive keeps its promise: refinement of SealedOriginal.
THEOREM ArchiveKeepsPromise == Spec => OriginalPromise
<1>1. Init => Original!PromiseInit
  BY DEF Init, sealed, chosen, archived, Archived, NoJob, Nothing, NoBytes, Kinds,
         Original!PromiseInit
<1>2. IInv /\ IInv' /\ [Next]_vars => [Original!PromiseNext]_<<sealed, chosen, archived>>
  <2>. SUFFICES ASSUME IInv, IInv', [Next]_vars
       PROVE  [Original!PromiseNext]_<<sealed, chosen, archived>>
    OBVIOUS
  <2>1. Moves
    BY MovesStep DEF IInv
  <2>2. Grows
    BY <2>1, GrowsStep DEF IInv
  <2>. QED
    BY <2>1, <2>2, PromiseStep DEF Keeps
<1>. QED
  BY <1>1, <1>2, ArchiveInvariance, PTL DEF Spec, OriginalPromise, Original!Promise

=============================================================================
