-------------------------- MODULE RealtimeSessions --------------------------
(***************************************************************************)
(* Bob Live: the admission of voice sessions under a global capacity.  A   *)
(* request reserves a place (the lease), has the provider create a call,   *)
(* binds the call to the lease, activates it and serves.  Whoever ends a   *)
(* session (its user, its own process, the reaper, the next request of     *)
(* the same user) first claims the lease, then hangs up, then gives the    *)
(* place back.                                                             *)
(*                                                                         *)
(* An action is one database transaction or one call of the provider.      *)
(* Provider: OpenAI, on its audited rail; the native rail, which asks more *)
(* of a hang-up, is locked at build time.  Time is reduced to              *)
(* "leaseExpiresAt or hardExpiresAt is past"; the two hours of the fences  *)
(* and of the admission events, and the quotas, are left out.              *)
(***************************************************************************)
EXTENDS Naturals, FiniteSets

CONSTANTS
    Sessions,         \* session identifiers, one admission request each
    Principals,       \* who asks for them: a company and a user
    Closers,          \* terminations under way at once
    Places,           \* globalMaxSessions
    MaxDisturbances   \* bound: things that go wrong

ASSUME SessionsAssumption ==
    /\ IsFiniteSet(Sessions)
    /\ Places \in Nat \ {0}
    /\ MaxDisturbances \in Nat

VARIABLES
    lease,          \* realtime_session_leases, by session
    boot,           \* what the request (later the lifecycle) of a session does
    call,           \* provider: the call made for a session
    dismissed,      \* history: the calls whose hang-up the program took as done
    closer,         \* what each termination does
    fenced,         \* realtime_admission_cancellation_fences
    told,           \* sessions whose user was answered "ended"
    disturbances    \* how many things went wrong so far

vars == <<lease, boot, call, dismissed, closer, fenced, told, disturbances>>

---------------------------------------------------------------------------
NoOne == "no one"

ASSUME NoCloserAssumption == NoOne \notin Closers \cup Sessions \cup Principals

\* by: the reaper token, named by the termination that holds it.
Lease == [state : {"none", "reserved", "bound", "active", "reaping"},
          lapsed : BOOLEAN, by : Closers \cup {NoOne}, owner : Principals \cup {NoOne}]

NoLease == [state |-> "none", lapsed |-> FALSE, by |-> NoOne, owner |-> NoOne]

Steps == {"idle", "reserved", "created", "bound", "answered", "attached", "serving",
          "withdrawing", "compensating", "hung up", "over"}

\* user: the termination answers a request of the user.
Closer == [at : {"idle", "claimed", "hung up"}, session : Sessions \cup {NoOne}, user : BOOLEAN]

Idle == [at |-> "idle", session |-> NoOne, user |-> FALSE]

TypeOK ==
    /\ lease \in [Sessions -> Lease]
    /\ boot \in [Sessions -> Steps]
    /\ call \in [Sessions -> {"none", "live", "ended"}]
    /\ dismissed \subseteq Sessions
    /\ closer \in [Closers -> Closer]
    /\ fenced \subseteq Sessions
    /\ told \subseteq Sessions
    /\ disturbances \in 0..MaxDisturbances

Init ==
    /\ lease = [s \in Sessions |-> NoLease]
    /\ boot = [s \in Sessions |-> "idle"]
    /\ call = [s \in Sessions |-> "none"]
    /\ dismissed = {}
    /\ closer = [c \in Closers |-> Idle]
    /\ fenced = {}
    /\ told = {}
    /\ disturbances = 0

\* A row with a provider: it can only go through a claim, or with the
\* proof that its call was hung up.
HasCall(s) == lease[s].state \in {"bound", "active", "reaping"}

Usable(s, state) == lease[s].state = state /\ ~lease[s].lapsed

Goto(s, step) == boot' = [boot EXCEPT ![s] = step]

Deleted(s) == [lease EXCEPT ![s] = NoLease]

Disturb == disturbances < MaxDisturbances /\ disturbances' = disturbances + 1

Calm == UNCHANGED disturbances

---------------------------------------------------------------------------
(* Admission.                                                              *)

Leases == {s \in Sessions : lease[s].state # "none"}

LeasesOf(p) == {s \in Leases : lease[s].owner = p}

\* Mutant: a lapsed row is deleted whether a call is bound to it or not.
ReplaceableIfLapsed(r) == lease[r].lapsed

\* The next request of the owner deletes a lapsed reservation.
Replaceable(r) == lease[r].state = "reserved" /\ lease[r].lapsed

\* reserve, under the locks of the company and of the principal, then of
\* the capacity.  A session is admitted once (its admission event), and
\* never after its fence.
MayReserve(s, p) ==
    /\ boot[s] = "idle" /\ s \notin fenced
    /\ \A r \in LeasesOf(p) : Replaceable(r)
    /\ Cardinality(Leases \ LeasesOf(p)) < Places

Reserved(p) == [NoLease EXCEPT !.state = "reserved", !.owner = p]

Reserving(s, p) ==
    lease' = [r \in Sessions |-> IF r = s THEN Reserved(p)
                                 ELSE IF r \in LeasesOf(p) THEN NoLease ELSE lease[r]]

Reserve(s, p) ==
    /\ MayReserve(s, p)
    /\ Reserving(s, p)
    /\ Goto(s, "reserved")
    /\ Calm /\ UNCHANGED <<call, dismissed, closer, fenced, told>>

\* The transaction commits and its answer is lost: the request is refused.
ReserveThrows(s, p) ==
    /\ MayReserve(s, p)
    /\ Reserving(s, p)
    /\ Goto(s, "over")
    /\ Disturb /\ UNCHANGED <<call, dismissed, closer, fenced, told>>

\* The client gives up, or the provider refuses.
Refuse(s) ==
    /\ boot[s] = "reserved"
    /\ Goto(s, "withdrawing")
    /\ Calm /\ UNCHANGED <<lease, call, dismissed, closer, fenced, told>>

CreateCall(s) ==
    /\ boot[s] = "reserved"
    /\ call' = [call EXCEPT ![s] = "live"]
    /\ Goto(s, "created")
    /\ Calm /\ UNCHANGED <<lease, dismissed, closer, fenced, told>>

\* The provider created the call, its answer is lost or does not name it.
CreateCallLost(s) ==
    /\ boot[s] = "reserved"
    /\ call' = [call EXCEPT ![s] = "live"]
    /\ Goto(s, "withdrawing")
    /\ Disturb /\ UNCHANGED <<lease, dismissed, closer, fenced, told>>

Bound(s) == [lease EXCEPT ![s].state = "bound"]

\* onCallCreated: the identity of the call is persisted before its answer
\* is read.
Bind(s) ==
    /\ boot[s] = "created"
    /\ IF Usable(s, "reserved")
         THEN lease' = Bound(s) /\ Goto(s, "bound")
         ELSE Goto(s, "compensating") /\ UNCHANGED lease
    /\ Calm /\ UNCHANGED <<call, dismissed, closer, fenced, told>>

BindThrows(s) ==
    /\ boot[s] = "created"
    /\ \/ Usable(s, "reserved") /\ lease' = Bound(s)
       \/ UNCHANGED lease
    /\ Goto(s, "compensating")
    /\ Disturb /\ UNCHANGED <<call, dismissed, closer, fenced, told>>

Answer(s) ==
    /\ boot[s] = "bound"
    /\ Goto(s, "answered")
    /\ Calm /\ UNCHANGED <<lease, call, dismissed, closer, fenced, told>>

\* The client gives up, or the answer of the provider is unusable.
Abort(s) ==
    /\ boot[s] \in {"created", "bound"}
    /\ Goto(s, "compensating")
    /\ Calm /\ UNCHANGED <<lease, call, dismissed, closer, fenced, told>>

\* The sideband is attached, and activates the lease.
Attach(s) ==
    /\ boot[s] = "answered" /\ Usable(s, "bound")
    /\ lease' = [lease EXCEPT ![s].state = "active"]
    /\ Goto(s, "attached")
    /\ Calm /\ UNCHANGED <<call, dismissed, closer, fenced, told>>

\* resolveSession: the last look before the client gets the call.
Resolve(s) ==
    /\ boot[s] = "attached" /\ Usable(s, "active") /\ s \notin fenced
    /\ Goto(s, "serving")
    /\ Calm /\ UNCHANGED <<lease, call, dismissed, closer, fenced, told>>

---------------------------------------------------------------------------
(* A request that failed before its lifecycle existed cleans up after      *)
(* itself.                                                                 *)

HungUp(s) == call' = [call EXCEPT ![s] = IF @ = "live" THEN "ended" ELSE @]

\* A hang-up is done with any 2xx, a 404 or a 409: the call may live on.
Dismissed(s) ==
    /\ \/ HungUp(s) /\ Calm
       \/ call[s] = "live" /\ UNCHANGED call /\ Disturb
    /\ dismissed' = dismissed \cup {s}

Compensate(s) ==
    /\ boot[s] = "compensating"
    /\ Dismissed(s)
    /\ Goto(s, "hung up")
    /\ UNCHANGED <<lease, closer, fenced, told>>

\* The call hung up or not, nobody knows: a bound lease is left to the reaper.
CompensateThrows(s) ==
    /\ boot[s] = "compensating"
    /\ HungUp(s) \/ UNCHANGED call
    /\ Goto(s, "over")
    /\ Disturb /\ UNCHANGED <<lease, dismissed, closer, fenced, told>>

\* release: "confirmed" deletes the lease in any state, "not_created" only
\* a reservation.
Releasable(s) ==
    \/ boot[s] = "hung up"
    \/ boot[s] = "withdrawing" /\ ~HasCall(s)

Release(s) ==
    /\ boot[s] \in {"withdrawing", "hung up"}
    /\ lease' = IF Releasable(s) THEN Deleted(s) ELSE lease
    /\ Goto(s, "over")
    /\ Calm /\ UNCHANGED <<call, dismissed, closer, fenced, told>>

ReleaseThrows(s) ==
    /\ boot[s] \in {"withdrawing", "hung up"}
    /\ \/ Releasable(s) /\ lease' = Deleted(s)
       \/ UNCHANGED lease
    /\ Goto(s, "over")
    /\ Disturb /\ UNCHANGED <<call, dismissed, closer, fenced, told>>

---------------------------------------------------------------------------
(* Terminations: claim, hang up, complete.                                 *)

Claimed(s, c) ==
    [lease EXCEPT ![s].state = "reaping", ![s].lapsed = FALSE, ![s].by = c]

Take(c, s, user) ==
    /\ lease' = Claimed(s, c)
    /\ closer' = [closer EXCEPT ![c] = [at |-> "claimed", session |-> s, user |-> user]]

\* claimTermination: the fence first; then a reservation is deleted, a
\* claim under way is left alone, and a lease with a call is claimed.
ClaimTermination(c, s, user) ==
    /\ closer[c].at = "idle"
    /\ fenced' = fenced \cup {s}
    /\ IF ~HasCall(s)
         THEN /\ lease' = Deleted(s)
              /\ told' = IF user THEN told \cup {s} ELSE told
              /\ UNCHANGED closer
       ELSE IF Usable(s, "reaping")
         THEN UNCHANGED <<lease, closer, told>>
         ELSE Take(c, s, user) /\ UNCHANGED told

Alive == {"answered", "attached", "serving"}

\* DELETE of the session by its user, at any moment and on any replica.
\* In the process of the session itself, the lifecycle is fenced off.
Hangup(c, s) ==
    /\ ClaimTermination(c, s, TRUE)
    /\ UNCHANGED boot \/ (boot[s] \in Alive /\ Goto(s, "over"))
    /\ Calm /\ UNCHANGED <<call, dismissed>>

\* The lifecycle ends its own session: bootstrap failed, lease lost, hard
\* expiry, superseded, closed channel.
GiveUp(c, s) ==
    /\ boot[s] \in Alive
    /\ ClaimTermination(c, s, FALSE)
    /\ Goto(s, "over")
    /\ Calm /\ UNCHANGED <<call, dismissed>>

\* Mutant: a claim whose holder disappeared is not taken again.
ClaimableOnce(s) == lease[s].state \in {"bound", "active"} /\ lease[s].lapsed

Claimable(s) == HasCall(s) /\ lease[s].lapsed

\* The reaper, or the next request of the same principal.
ClaimExpired(c, s) ==
    /\ closer[c].at = "idle" /\ Claimable(s)
    /\ Take(c, s, FALSE)
    /\ Calm /\ UNCHANGED <<boot, call, dismissed, fenced, told>>

Purgeable(s) == lease[s].state = "reserved" /\ lease[s].lapsed

\* The reaper, or the next request of the same principal.
Purge(s) ==
    /\ Purgeable(s)
    /\ lease' = Deleted(s)
    /\ Calm /\ UNCHANGED <<boot, call, dismissed, closer, fenced, told>>

HangUpCall(c) ==
    /\ closer[c].at = "claimed"
    /\ Dismissed(closer[c].session)
    /\ closer' = [closer EXCEPT ![c].at = "hung up"]
    /\ UNCHANGED <<lease, boot, fenced, told>>

\* After three attempts: the claim stays until it lapses.
HangUpCallThrows(c) ==
    /\ closer[c].at = "claimed"
    /\ HungUp(closer[c].session) \/ UNCHANGED call
    /\ closer' = [closer EXCEPT ![c] = Idle]
    /\ Disturb /\ UNCHANGED <<lease, boot, dismissed, fenced, told>>

Owns(c) == lease[closer[c].session].state = "reaping" /\ lease[closer[c].session].by = c

\* completeReaping, with the token of the claim.
Complete(c) ==
    /\ closer[c].at = "hung up"
    /\ IF Owns(c)
         THEN /\ lease' = Deleted(closer[c].session)
              /\ told' = IF closer[c].user THEN told \cup {closer[c].session} ELSE told
         ELSE UNCHANGED <<lease, told>>
    /\ closer' = [closer EXCEPT ![c] = Idle]
    /\ Calm /\ UNCHANGED <<boot, call, dismissed, fenced>>

---------------------------------------------------------------------------
(* Time, the provider, and what goes wrong.                                *)

\* The claim of a termination that still runs.
Guarded(s) ==
    /\ lease[s].state = "reaping"
    /\ \E c \in Closers : closer[c].session = s /\ lease[s].by = c

\* Mutant: a row that lapses takes a status of its own.
LapsedByStatus(s) == lease' = [lease EXCEPT ![s].state = "expired"]

Lapsed(s) == lease' = [lease EXCEPT ![s].lapsed = TRUE]

Lapse(s) ==
    /\ lease[s].state # "none" /\ ~lease[s].lapsed /\ ~Guarded(s)
    /\ Lapsed(s)
    /\ Calm /\ UNCHANGED <<boot, call, dismissed, closer, fenced, told>>

\* A termination slower than its claim.
Overrun(s) ==
    /\ Usable(s, "reaping") /\ Guarded(s)
    /\ Lapsed(s)
    /\ Disturb /\ UNCHANGED <<boot, call, dismissed, closer, fenced, told>>

\* The caller leaves, or the provider ends the call.
CallEnds(s) ==
    /\ call[s] = "live"
    /\ HungUp(s)
    /\ Calm /\ UNCHANGED <<lease, boot, dismissed, closer, fenced, told>>

Crash(s) ==
    /\ boot[s] \notin {"idle", "over"}
    /\ Goto(s, "over")
    /\ Disturb /\ UNCHANGED <<lease, call, dismissed, closer, fenced, told>>

CrashCloser(c) ==
    /\ closer[c].at # "idle"
    /\ closer' = [closer EXCEPT ![c] = Idle]
    /\ Disturb /\ UNCHANGED <<lease, boot, call, dismissed, fenced, told>>

---------------------------------------------------------------------------
BootStep(s) ==
    \/ CreateCall(s) \/ Refuse(s)
    \/ Bind(s) \/ Abort(s)
    \/ Answer(s)
    \/ Attach(s)
    \/ Resolve(s)
    \/ Compensate(s)
    \/ Release(s)

CloserStep(c) == HangUpCall(c) \/ Complete(c)

Fault ==
    \/ \E s \in Sessions :
         \/ \E p \in Principals : ReserveThrows(s, p)
         \/ CreateCallLost(s) \/ BindThrows(s)
         \/ CompensateThrows(s) \/ ReleaseThrows(s) \/ Overrun(s) \/ Crash(s)
    \/ \E c \in Closers : HangUpCallThrows(c) \/ CrashCloser(c)

Next ==
    \/ \E s \in Sessions, p \in Principals : Reserve(s, p)
    \/ \E s \in Sessions : BootStep(s) \/ Purge(s) \/ Lapse(s) \/ CallEnds(s)
    \/ \E c \in Closers, s \in Sessions : Hangup(c, s) \/ GiveUp(c, s) \/ ClaimExpired(c, s)
    \/ \E c \in Closers : CloserStep(c)
    \/ Fault

\* Leases lapse with time, the reaper's cron ticks, a request or a
\* termination that began goes on.
Fairness ==
    /\ \A s \in Sessions :
         /\ WF_vars(BootStep(s))
         /\ WF_vars(Lapse(s))
         /\ WF_vars(Purge(s))
         /\ SF_vars(\E c \in Closers : ClaimExpired(c, s))
    /\ \A c \in Closers : WF_vars(CloserStep(c))

Spec == Init /\ [][Next]_vars

FairSpec == Spec /\ Fairness

---------------------------------------------------------------------------
(* Correctness.                                                            *)

\* No place is lost: crashes, refused hang-ups and claims abandoned half
\* way leave a lease that lapses, and somebody ends it.
EveryPlaceComesBack == \A s \in Sessions : lease[s].state # "none" ~> lease[s].state = "none"

---------------------------------------------------------------------------
(* Refinement: the admission keeps the promise of HeldPlace.  Whether a    *)
(* call lives is the provider's to know: a place comes back on what the    *)
(* program learnt, and never before it learnt that of this very call.      *)

PlaceOf(s) ==
    IF HasCall(s)
      THEN IF s \notin dismissed THEN "calling"
           ELSE IF call[s] = "live" THEN "doubtful" ELSE "silent"
    ELSE IF lease[s].state = "reserved" THEN "taken" ELSE "free"

place == [s \in Sessions |-> PlaceOf(s)]

holder == [s \in Sessions |-> lease[s].owner]

Held == INSTANCE HeldPlace WITH over <- told, Nobody <- NoOne

PlacePromise == Held!Promise
=============================================================================
