--------------------------- MODULE DocumentArchive ---------------------------
(***************************************************************************)
(* The legal originals of issued invoices and signed quotes: the snapshot  *)
(* sealed by the transaction that issues the piece, the leased job that    *)
(* renders it, announces what it is about to upload, uploads it, files it  *)
(* and proves it, and the edits of the customer printed on the piece.      *)
(*                                                                         *)
(* Every action is one database transaction, one call of the object        *)
(* storage, or one step of an issuing transaction.  An object is named by  *)
(* its content.  Bytes are reduced to what they were rendered from: a      *)
(* version of the customer, by a build of the renderer.                    *)
(***************************************************************************)
EXTENDS Naturals

CONSTANTS
    Invoices,         \* issued invoices: a PDF and a Factur-X XML
    Quotes,           \* signed quotes (or consumers' invoices): a PDF alone
    Workers,          \* archive ticks and kicks that may overlap
    MaxEdits,         \* bound: edits of the customer
    MaxDisturbances   \* bound: things that go wrong

Pieces == Invoices \cup Quotes

ASSUME ArchiveAssumption ==
    /\ Invoices \cap Quotes = {}
    /\ MaxEdits \in Nat
    /\ MaxDisturbances \in Nat

VARIABLES
    customer,       \* version of the customer's row
    issue,          \* the transaction that issues or signs each piece
    snapshot,       \* document_archive_render_snapshots: version printed, per file
    job,            \* document_archive_jobs
    intents,        \* document_archive_artifact_intents
    storage,        \* objects in the bucket
    documents,      \* documents: the generated originals
    worker,         \* what each worker is doing
    build,          \* the build of the renderer each worker runs
    disturbances    \* how many things went wrong so far

rows == <<snapshot, job, intents, documents>>
vars == <<customer, issue, rows, storage, worker, build, disturbances>>

---------------------------------------------------------------------------
\* An invoice_pdf or a signed_quote, and the XML of an invoice.
Kinds == {"pdf", "facturx_xml"}

Files(p) == IF p \in Invoices THEN Kinds ELSE {"pdf"}

NoOne == "no one"

ASSUME NoOneAssumption == NoOne \notin Workers /\ NoOne \notin Pieces

Versions == 1..(MaxEdits + 1)

Renderings == 1..(MaxDisturbances + 1)

Bytes == [of : {0} \cup Versions, by : {0} \cup Renderings]

NoBytes == [of |-> 0, by |-> 0]

Nothing == [k \in Kinds |-> NoBytes]

\* The XML is in the snapshot as it stands; the PDF is drawn from it, with
\* the XML inside, always alike by one build.
Drawn(version, k, b) == [of |-> version, by |-> IF k = "facturx_xml" THEN 0 ELSE b]

\* due: nextAttemptAt <= now; lease: the token, named by its worker.
Job == [status : {"none", "pending", "failed", "done"},
        due : BOOLEAN, lease : Workers \cup {NoOne}]

NoJob == [status |-> "none", due |-> FALSE, lease |-> NoOne]

Steps == {"idle", "claimed", "putting", "stored", "proving", "proved", "failing"}

\* todo: the files not filed yet.
Work == [at : Steps, piece : Pieces \cup {NoOne}, todo : SUBSET Kinds]

Idle == [at |-> "idle", piece |-> NoOne, todo |-> {}]

\* read: the version of the customer the PDF's data were read from.
Issue == [at : {"no", "open", "saved", "read"}, read : {0} \cup Versions]

Unissued == [at |-> "no", read |-> 0]

TypeOK ==
    /\ customer \in Versions
    /\ issue \in [Pieces -> Issue]
    /\ snapshot \in [Pieces -> [Kinds -> {0} \cup Versions]]
    /\ job \in [Pieces -> Job]
    /\ intents \in [Pieces -> [Kinds -> Bytes]]
    /\ storage \subseteq Pieces \X Kinds \X Bytes
    /\ documents \in [Pieces -> [Kinds -> Bytes]]
    /\ worker \in [Workers -> Work]
    /\ build \in [Workers -> 1..(disturbances + 1)]
    /\ disturbances \in 0..MaxDisturbances

Init ==
    /\ customer = 1
    /\ issue = [p \in Pieces |-> Unissued]
    /\ snapshot = [p \in Pieces |-> [k \in Kinds |-> 0]]
    /\ job = [p \in Pieces |-> NoJob]
    /\ intents = [p \in Pieces |-> Nothing]
    /\ storage = {}
    /\ documents = [p \in Pieces |-> Nothing]
    /\ worker = [w \in Workers |-> Idle]
    /\ build = [w \in Workers |-> 1]
    /\ disturbances = 0

Ordered(p) == job[p].status # "none"

Archived(p) == job[p].status = "done"

Open(p) == job[p].status \in {"pending", "failed"}

At(w, step) == worker[w].at = step

Goto(w, step) == worker' = [worker EXCEPT ![w].at = step]

Rest(w) == worker' = [worker EXCEPT ![w] = Idle]

\* The lease is the worker's own, and has not run out.
Holds(w) ==
    LET p == worker[w].piece IN Open(p) /\ job[p].lease = w /\ ~job[p].due

Disturb == disturbances < MaxDisturbances /\ disturbances' = disturbances + 1

Calm == UNCHANGED disturbances

---------------------------------------------------------------------------
(* Issuing a piece, and editing the customer it is about.                  *)

Archives == UNCHANGED <<intents, storage, documents, worker, build>>

\* The company's row is locked, shared.
OpenIssue(p) ==
    /\ issue[p].at = "no" /\ ~Ordered(p)
    /\ issue' = [issue EXCEPT ![p].at = "open"]
    /\ Calm /\ Archives /\ UNCHANGED <<customer, snapshot, job>>

SaveIssued(p) ==
    /\ issue[p].at = "open"
    /\ issue' = [issue EXCEPT ![p].at = "saved"]
    /\ Calm /\ Archives /\ UNCHANGED <<customer, snapshot, job>>

\* Mutant: the trigger reads the customer's type without a lock.
CustomerHeldByNone == FALSE

\* Saving an issued invoice locks its customer, shared (the trigger that
\* captures its type); saving a signed quote does not.
CustomerHeld == \E p \in Invoices : issue[p].at \in {"saved", "read"}

\* buildInvoicePdfData, quotePdfData.
ReadPdfData(p) ==
    /\ issue[p].at = "saved"
    /\ issue' = [issue EXCEPT ![p] = [at |-> "read", read |-> customer]]
    /\ Calm /\ Archives /\ UNCHANGED <<customer, snapshot, job>>

\* document_archive_job_enqueue_v3 stores the order with its snapshot.
Enqueued(p) == job' = [job EXCEPT ![p] = [status |-> "pending", due |-> TRUE, lease |-> NoOne]]

\* buildInvoiceFacturXXml reads the customer again; the snapshot is sealed
\* and the order given by the transaction that issues.
CommitIssue(p) ==
    /\ issue[p].at = "read"
    /\ issue' = [issue EXCEPT ![p] = Unissued]
    /\ snapshot' = [snapshot EXCEPT ![p] =
         [k \in Kinds |-> IF k \notin Files(p) THEN 0
                          ELSE IF k = "pdf" THEN issue[p].read ELSE customer]]
    /\ Enqueued(p)
    /\ Calm /\ Archives /\ UNCHANGED customer

Rollback(p) ==
    /\ issue[p].at # "no"
    /\ issue' = [issue EXCEPT ![p] = Unissued]
    /\ Calm /\ Archives /\ UNCHANGED <<customer, snapshot, job>>

Edited == customer <= MaxEdits /\ customer' = customer + 1

\* updateCustomer: the company's row, locked, keeps the issues away, and
\* nothing is edited while an original is missing.
EditBehindBarrier ==
    /\ \A p \in Pieces : issue[p].at = "no" /\ (Ordered(p) => Archived(p))
    /\ Edited
    /\ Calm /\ Archives /\ UNCHANGED <<issue, snapshot, job>>

\* Bob's effect takes neither the lock nor the barrier: only a lock on the
\* customer's own row makes it wait.
EditByEffect ==
    /\ ~CustomerHeld
    /\ Edited
    /\ Calm /\ Archives /\ UNCHANGED <<issue, snapshot, job>>

---------------------------------------------------------------------------
(* One job of a tick: runDocumentArchiveJobs.                              *)

\* Mutant: a job that failed once is left alone.
ClaimablePending(p) == job[p].status = "pending" /\ job[p].due

Claimable(p) == Open(p) /\ job[p].due

\* Mutant: the order claimed is named by a status of its own.
ClaimAsLeased(w, p) ==
    /\ At(w, "idle")
    /\ Claimable(p)
    /\ job' = [job EXCEPT ![p] = [status |-> "leased", due |-> FALSE, lease |-> w]]
    /\ worker' = [worker EXCEPT ![w] = [at |-> "claimed", piece |-> p, todo |-> Files(p)]]
    /\ Calm /\ UNCHANGED <<customer, issue, snapshot, intents, storage, documents, build>>

Claim(w, p) ==
    /\ At(w, "idle")
    /\ Claimable(p)
    /\ job' = [job EXCEPT ![p] = [status |-> "failed", due |-> FALSE, lease |-> w]]
    /\ worker' = [worker EXCEPT ![w] = [at |-> "claimed", piece |-> p, todo |-> Files(p)]]
    /\ Calm /\ UNCHANGED <<customer, issue, snapshot, intents, storage, documents, build>>

\* Mutant: rendered from the records as they are now.
RenderingOfNow(p, k, b) == IF k \in Files(p) THEN Drawn(customer, k, b) ELSE NoBytes

\* renderDocumentArchiveSnapshot: nothing is read but the snapshot.
Rendering(p, k, b) == IF k \in Files(p) THEN Drawn(snapshot[p][k], k, b) ELSE NoBytes

Rendered(w) == [k \in Kinds |-> Rendering(worker[w].piece, k, build[w])]

\* Mutant: what was announced is announced anew.
AnnounceAnew(w) ==
    /\ Holds(w)
    /\ intents' = [intents EXCEPT ![worker[w].piece] = Rendered(w)]

\* document_archive_artifact_intents_prepare_v1: all the files at once,
\* under the lease, and once for all.
Announce(w) ==
    LET p == worker[w].piece IN
    /\ Holds(w)
    /\ intents[p] \in {Nothing, Rendered(w)}
    /\ intents' = [intents EXCEPT ![p] = Rendered(w)]

Announceable(w) ==
    Holds(w) /\ intents[worker[w].piece] \in {Nothing, Rendered(w)}

\* Mutant: the refusal of the database is not looked at.
PrepareUnchecked(w) ==
    /\ At(w, "claimed")
    /\ Goto(w, "putting")
    /\ Announce(w) \/ (~Announceable(w) /\ UNCHANGED intents)
    /\ Calm /\ UNCHANGED <<customer, issue, snapshot, job, storage, documents, build>>

Prepare(w) ==
    /\ At(w, "claimed")
    /\ \/ Announce(w) /\ Goto(w, "putting")
       \/ ~Announceable(w) /\ Goto(w, "failing") /\ UNCHANGED intents
    /\ Calm /\ UNCHANGED <<customer, issue, snapshot, job, storage, documents, build>>

\* The files in the order of their names.
Current(w) == IF "facturx_xml" \in worker[w].todo THEN "facturx_xml" ELSE "pdf"

ObjectOf(w) == <<worker[w].piece, Current(w), Rendered(w)[Current(w)]>>

\* An object already there is adopted when it is the same: and it is, since
\* its name is its content.  The lease is not looked at again.
Put(w) ==
    /\ At(w, "putting")
    /\ storage' = storage \cup {ObjectOf(w)}
    /\ Goto(w, "stored")
    /\ Calm /\ UNCHANGED <<customer, issue, rows, build>>

\* The upload is refused, or accepted and its answer lost, or its object
\* cannot be read again, then or when it is proved.
StorageFails(w) ==
    /\ \/ At(w, "putting") /\ storage' \in {storage, storage \cup {ObjectOf(w)}}
       \/ At(w, "proving") /\ UNCHANGED storage
    /\ Goto(w, "failing")
    /\ Disturb /\ UNCHANGED <<customer, issue, rows, build>>

\* StoreDocument under the name the piece gives it: inserted, or confirmed
\* to be exactly this one, or a conflict.
Materialize(w) ==
    LET p == worker[w].piece
        k == Current(w)
        left == worker[w].todo \ {k}
    IN /\ At(w, "stored")
       /\ IF documents[p][k] \in {NoBytes, Rendered(w)[k]}
            THEN /\ documents' = [documents EXCEPT ![p][k] = Rendered(w)[k]]
                 /\ worker' = [worker EXCEPT ![w] =
                      [at |-> IF left = {} THEN "proving" ELSE "putting",
                       piece |-> p, todo |-> left]]
            ELSE Goto(w, "failing") /\ UNCHANGED documents
       /\ Calm /\ UNCHANGED <<customer, issue, snapshot, job, intents, storage, build>>

\* Every file has its document, and its bytes are read again.
Proven(p) ==
    \A k \in Files(p) : documents[p][k] # NoBytes /\ <<p, k, documents[p][k]>> \in storage

Prove(w) ==
    /\ At(w, "proving")
    /\ Goto(w, IF Proven(worker[w].piece) THEN "proved" ELSE "failing")
    /\ Calm /\ UNCHANGED <<customer, issue, rows, storage, build>>

Finished(p) == job' = [job EXCEPT ![p].status = "done", ![p].lease = NoOne]

\* document_archive_job_complete_v3: what was proved is what was announced.
Complete(w) ==
    LET p == worker[w].piece IN
    /\ At(w, "proved")
    /\ IF Holds(w) /\ intents[p] = documents[p]
         THEN Finished(p) /\ Rest(w)
         ELSE Goto(w, "failing") /\ UNCHANGED job
    /\ Calm /\ UNCHANGED <<customer, issue, snapshot, intents, storage, documents, build>>

Retried(row) == [status |-> "failed", due |-> FALSE, lease |-> NoOne]

\* Mutant: a failure is booked by whoever met it, lease or not.
MarkFailedUnfenced(w) ==
    /\ At(w, "failing")
    /\ Rest(w)
    /\ job' = [job EXCEPT ![worker[w].piece] = Retried(@)]
    /\ Calm /\ UNCHANGED <<customer, issue, snapshot, intents, storage, documents, build>>

MarkFailed(w) ==
    /\ At(w, "failing")
    /\ Rest(w)
    /\ job' = IF Holds(w) THEN [job EXCEPT ![worker[w].piece] = Retried(@)] ELSE job
    /\ Calm /\ UNCHANGED <<customer, issue, snapshot, intents, storage, documents, build>>

---------------------------------------------------------------------------
(* Time, deployments, and what goes wrong.                                 *)

BecomesDue(p) == job' = [job EXCEPT ![p].due = TRUE]

Leased(p) == \E w \in Workers : job[p].lease = w /\ worker[w].piece = p

\* The retry's date comes, or a lease whose holder is gone runs out.
BecomeDue(p) ==
    /\ Open(p) /\ ~job[p].due /\ ~Leased(p)
    /\ BecomesDue(p)
    /\ Calm /\ UNCHANGED <<customer, issue, snapshot, intents, storage, documents, worker, build>>

\* A lease runs out while its holder is still at work.
Expire(p) ==
    /\ Open(p) /\ ~job[p].due /\ Leased(p)
    /\ BecomesDue(p)
    /\ Disturb /\ UNCHANGED <<customer, issue, snapshot, intents, storage, documents, worker, build>>

\* A crash, or a transaction that throws before or after its commit.
Abandon(w) ==
    /\ ~At(w, "idle")
    /\ Rest(w)
    /\ Disturb /\ UNCHANGED <<customer, issue, rows, storage, build>>

\* A process restarts with a build that draws the PDF otherwise.
Redeploy(w) ==
    /\ Rest(w)
    /\ build' = [build EXCEPT ![w] = @ + 1]
    /\ Disturb /\ UNCHANGED <<customer, issue, rows, storage>>

---------------------------------------------------------------------------
WorkerStep(w) ==
    \/ Prepare(w)
    \/ Put(w)
    \/ Materialize(w)
    \/ Prove(w)
    \/ Complete(w)
    \/ MarkFailed(w)

IssueStep(p) ==
    \/ OpenIssue(p)
    \/ SaveIssued(p)
    \/ ReadPdfData(p)
    \/ CommitIssue(p)
    \/ Rollback(p)

Fault ==
    \/ \E w \in Workers : StorageFails(w) \/ Abandon(w) \/ Redeploy(w)
    \/ \E p \in Pieces : Expire(p)

Next ==
    \/ \E p \in Pieces : IssueStep(p) \/ BecomeDue(p)
    \/ EditBehindBarrier \/ EditByEffect
    \/ \E w \in Workers : WorkerStep(w) \/ \E p \in Pieces : Claim(w, p)
    \/ Fault

\* The cron ticks and takes the jobs due the longest first, a worker goes
\* on, time passes.  Nobody has to issue, and nothing else has to happen.
Fairness ==
    /\ \A w \in Workers : WF_vars(WorkerStep(w))
    /\ \A p \in Pieces :
         WF_vars(BecomeDue(p)) /\ SF_vars(\E w \in Workers : Claim(w, p))

Spec == Init /\ [][Next]_vars

FairSpec == Spec /\ Fairness

---------------------------------------------------------------------------
(* Correctness.                                                            *)

\* The PDF of an invoice and its XML, read apart from one another by a
\* transaction that sees every commit, name the same customer, although
\* Bob's effect waits for neither the company's lock nor the barrier.
OneCustomerPerPiece ==
    \A p \in Invoices : snapshot[p]["pdf"] = snapshot[p]["facturx_xml"]

\* An archived piece is the one that was issued, whatever was edited, tried
\* and deployed since: each file is drawn from the sealed snapshot, all by
\* one build, and its bytes are in the storage.
ArchivedAsIssued ==
    \A p \in Pieces : Archived(p) =>
      /\ \E b \in Renderings : \A k \in Files(p) :
           documents[p][k] = Drawn(snapshot[p][k], k, b)
      /\ \A k \in Files(p) : <<p, k, documents[p][k]>> \in storage

\* A document is never without its object, and no object is ever uploaded
\* that was not announced: not by a holder whose lease ran out, not by two
\* builds side by side, not by an upload whose answer was lost.
NothingUnannounced ==
    /\ \A p \in Pieces, k \in Kinds :
         documents[p][k] # NoBytes => <<p, k, documents[p][k]>> \in storage
    /\ \A object \in storage : intents[object[1]][object[2]] = object[3]

\* A job under a running lease changes by its holder's own step or by the
\* lease running out: never by a late worker.
NoStolenLease ==
    [][\A p \in Pieces, w \in Workers :
         job[p].lease = w /\ ~job[p].due /\ job'[p] # job[p] =>
           \/ job'[p] = [job[p] EXCEPT !.due = TRUE]
           \/ worker[w].piece = p /\ worker'[w] # worker[w]]_vars

\* What was announced was drawn by a build that some process runs no more.
Stranded(p) ==
    /\ intents[p] # Nothing
    /\ \E w \in Workers : intents[p]["pdf"].by # build[w]

\* Every order is archived in the end, unless a deployment changed how the
\* PDF is drawn between its announcement and its archive.
EveryOrderArchived ==
    \A p \in Pieces : Ordered(p) ~> (Archived(p) \/ Stranded(p))

---------------------------------------------------------------------------
(* Refinement: the promise of SealedOriginal.                              *)

sealed == [p \in Pieces |-> snapshot[p]["pdf"]]

chosen == [p \in Pieces |-> intents[p]["pdf"].by]

archived == [p \in Pieces |-> IF Archived(p) THEN documents[p] ELSE Nothing]

Original == INSTANCE SealedOriginal

OriginalPromise == Original!Promise
=============================================================================
