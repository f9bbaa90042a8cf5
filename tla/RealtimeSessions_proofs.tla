---------------------- MODULE RealtimeSessions_proofs ----------------------
(***************************************************************************)
(* Theorems about RealtimeSessions, for every finite set of sessions, every *)
(* set of principals and terminations, every number of places and faults.  *)
(* Liveness stays with the run.                                            *)
(***************************************************************************)
EXTENDS RealtimeSessions, FiniteSetTheorems, TLAPS

---------------------------------------------------------------------------
(* The inductive invariant.                                                *)

\* A row has an owner.
Owned == \A s \in Sessions : lease[s].state = "none" <=> lease[s].owner = NoOne

\* A request before its call was recorded on its row: no hang-up has a
\* call of it to name.
Early == {"idle", "reserved", "created"}

\* The row of a request that was not admitted does not exist.
Admitted == \A s \in Sessions : boot[s] = "idle" => lease[s].state = "none"

\* A row with a call is the row of a request that recorded one.
Recorded == \A s \in Sessions : HasCall(s) => boot[s] \notin Early

\* No hang-up is done before the call it ends was recorded: what is known of
\* a call is never older than the call.
Named == \A s \in dismissed : boot[s] \notin Early

\* A request that says "hung up" saw the provider accept it.
Informed == \A s \in Sessions : boot[s] = "hung up" => s \in dismissed

\* A termination works at a call that was recorded, and completes once the
\* provider accepted to hang it up; its fence stands before the user who
\* asked for it is told.
TerminatingOf(c) ==
    /\ closer[c].user => closer[c].session \in fenced
    /\ closer[c].at # "idle" => closer[c].session \in Sessions
    /\ closer[c].at = "claimed" => boot[closer[c].session] \notin Early
    /\ closer[c].at = "hung up" => closer[c].session \in dismissed

Terminating == \A c \in Closers : TerminatingOf(c)

\* A user answered "ended" is not held to a place again: neither by the
\* request still creating the call, nor by one that arrives after, nor by
\* a termination that was overtaken.
EndedStaysEnded == \A s \in told : lease[s].state = "none" /\ s \in fenced

\* The global capacity and the one place of a principal, at every moment and
\* not only when they are looked at.
WithinCapacity == Cardinality(Leases) <= Places

OnePlaceEach == \A r, s \in Leases : lease[r].owner = lease[s].owner => r = s

IInv ==
    /\ TypeOK
    /\ Owned
    /\ Admitted
    /\ Recorded
    /\ Named
    /\ Informed
    /\ Terminating
    /\ EndedStaysEnded
    /\ WithinCapacity
    /\ OnePlaceEach

---------------------------------------------------------------------------
(* What a step may do to one row.                                          *)

\* The row of one session changes.
RowOf(s, state, owner) ==
    /\ lease' \in [Sessions -> Lease]
    /\ lease'[s].state = state /\ lease'[s].owner = owner
    /\ \A r \in Sessions : r # s => lease'[r] = lease[r]

LEMMA RowReplaced ==
    ASSUME TypeOK, NEW s \in Sessions, NEW row \in Lease, lease' = [lease EXCEPT ![s] = row]
    PROVE  RowOf(s, row.state, row.owner)
BY DEF TypeOK, RowOf

\* A row that changes state keeps its owner.
LEMMA StateChanges ==
    ASSUME TypeOK, NEW s \in Sessions,
           NEW state \in {"none", "reserved", "bound", "active", "reaping"},
           lease' = [lease EXCEPT ![s].state = state]
    PROVE  RowOf(s, state, lease[s].owner)
<1>. DEFINE row == [lease[s] EXCEPT !.state = state]
<1>1. lease[s] \in Lease
  BY DEF TypeOK
<1>2. row \in Lease /\ row.state = state /\ row.owner = lease[s].owner
  BY <1>1 DEF Lease
<1>3. lease' = [lease EXCEPT ![s] = row]
  OBVIOUS
<1>. QED
  BY <1>2, <1>3, RowReplaced

LEMMA RowLapses ==
    ASSUME TypeOK, NEW s \in Sessions, Lapsed(s)
    PROVE  RowOf(s, lease[s].state, lease[s].owner)
<1>. DEFINE row == [lease[s] EXCEPT !.lapsed = TRUE]
<1>1. lease[s] \in Lease
  BY DEF TypeOK
<1>2. row \in Lease /\ row.state = lease[s].state /\ row.owner = lease[s].owner
  BY <1>1 DEF Lease
<1>3. lease' = [lease EXCEPT ![s] = row]
  BY DEF Lapsed
<1>. QED
  BY <1>2, <1>3, RowReplaced

LEMMA RowClaimed ==
    ASSUME TypeOK, NEW s \in Sessions, NEW c \in Closers, lease' = Claimed(s, c)
    PROVE  RowOf(s, "reaping", lease[s].owner)
<1>. DEFINE row == [lease[s] EXCEPT !.state = "reaping", !.lapsed = FALSE, !.by = c]
<1>1. lease[s] \in Lease /\ lease \in [Sessions -> Lease]
  BY DEF TypeOK
<1>2. row \in Lease /\ row.state = "reaping" /\ row.owner = lease[s].owner
  BY <1>1 DEF Lease
<1>3. lease' = [lease EXCEPT ![s] = row]
  BY <1>1 DEF Claimed, Lease
<1>. QED
  BY <1>2, <1>3, RowReplaced

LEMMA RowDeleted ==
    ASSUME TypeOK, NEW s \in Sessions, lease' = Deleted(s)
    PROVE  RowOf(s, "none", NoOne)
<1>1. NoLease \in Lease /\ NoLease.state = "none" /\ NoLease.owner = NoOne
  BY DEF NoLease, Lease
<1>. QED
  BY <1>1, RowReplaced DEF Deleted

\* A reservation may replace the lapsed ones of its owner.
LEMMA RowsReserved ==
    ASSUME TypeOK, NEW s \in Sessions, NEW p \in Principals, Reserving(s, p)
    PROVE  /\ lease' \in [Sessions -> Lease]
           /\ lease'[s].state = "reserved" /\ lease'[s].owner = p
           /\ \A r \in Sessions : r # s =>
                lease'[r] = IF r \in LeasesOf(p) THEN NoLease ELSE lease[r]
<1>1. NoLease \in Lease
  BY DEF NoLease, Lease
<1>2. Reserved(p) \in Lease /\ Reserved(p).state = "reserved" /\ Reserved(p).owner = p
  BY <1>1 DEF Reserved, Lease
<1>. QED
  BY <1>1, <1>2 DEF Reserving, TypeOK

\* A termination that hung up keeps its session.
LEMMA CloserAdvances ==
    ASSUME TypeOK, NEW c \in Closers, closer' = [closer EXCEPT ![c].at = "hung up"]
    PROVE  /\ closer' \in [Closers -> Closer]
           /\ closer'[c].at = "hung up" /\ closer'[c].session = closer[c].session
           /\ closer'[c].user = closer[c].user
           /\ \A d \in Closers : d # c => closer'[d] = closer[d]
<1>. DEFINE row == [closer[c] EXCEPT !.at = "hung up"]
<1>1. closer[c] \in Closer /\ closer \in [Closers -> Closer]
  BY DEF TypeOK
<1>2. row \in Closer /\ row.at = "hung up" /\ row.session = closer[c].session
      /\ row.user = closer[c].user
  BY <1>1 DEF Closer
<1>3. closer' = [closer EXCEPT ![c] = row]
  OBVIOUS
<1>. QED
  BY <1>1, <1>2, <1>3

\* A call is hung up or goes on.
LEMMA CallHungUp ==
    ASSUME TypeOK, NEW s \in Sessions, HungUp(s) \/ UNCHANGED call
    PROVE  /\ call' \in [Sessions -> {"none", "live", "ended"}]
           /\ call'[s] \in {call[s], "ended"}
           /\ call[s] # "live" => call'[s] = call[s]
           /\ \A r \in Sessions : r # s => call'[r] = call[r]
BY DEF HungUp, TypeOK

LEMMA CallDismissed ==
    ASSUME TypeOK, NEW s \in Sessions, Dismissed(s)
    PROVE  /\ HungUp(s) \/ UNCHANGED call
           /\ dismissed' = dismissed \cup {s} /\ dismissed' \subseteq Sessions
           /\ disturbances' \in 0..MaxDisturbances
BY SessionsAssumption DEF Dismissed, TypeOK, Calm, Disturb

LEMMA DisturbancesType ==
    ASSUME TypeOK, Calm \/ Disturb
    PROVE  disturbances' \in 0..MaxDisturbances
BY SessionsAssumption DEF TypeOK, Calm, Disturb

---------------------------------------------------------------------------
(* Type correctness.                                                       *)

\* A claim keeps the types of the rows and of the terminations.
LEMMA TakeType ==
    ASSUME TypeOK, NEW c \in Closers, NEW s \in Sessions, NEW user \in BOOLEAN,
           Take(c, s, user)
    PROVE  /\ lease' \in [Sessions -> Lease]
           /\ closer' \in [Closers -> Closer]
BY RowClaimed DEF Take, RowOf, TypeOK, Closer

LEMMA ClaimType ==
    ASSUME TypeOK, NEW c \in Closers, NEW s \in Sessions, NEW user \in BOOLEAN,
           ClaimTermination(c, s, user)
    PROVE  /\ lease' \in [Sessions -> Lease]
           /\ closer' \in [Closers -> Closer]
           /\ fenced' \subseteq Sessions /\ told' \subseteq Sessions
BY TakeType, RowDeleted DEF ClaimTermination, RowOf, TypeOK

\* Every step keeps the types.
LEMMA TypeStep == TypeOK /\ Terminating /\ [Next]_vars => TypeOK'
<1>. SUFFICES ASSUME TypeOK, Terminating, [Next]_vars
     PROVE  TypeOK'
  OBVIOUS
<1>1. ASSUME NEW s \in Sessions, NEW p \in Principals, Reserve(s, p)
      PROVE  TypeOK'
  BY <1>1, DisturbancesType, RowsReserved
  DEF Reserve, Goto, TypeOK, Steps
<1>2. ASSUME NEW s \in Sessions, NEW p \in Principals, ReserveThrows(s, p)
      PROVE  TypeOK'
  BY <1>2, DisturbancesType, RowsReserved
  DEF ReserveThrows, Goto, TypeOK, Steps
<1>3. ASSUME NEW s \in Sessions, CreateCall(s)
      PROVE  TypeOK'
  BY <1>3, DisturbancesType
  DEF CreateCall, Goto, TypeOK, Steps
<1>4. ASSUME NEW s \in Sessions, Refuse(s)
      PROVE  TypeOK'
  BY <1>4, DisturbancesType
  DEF Refuse, Goto, TypeOK, Steps
<1>5. ASSUME NEW s \in Sessions, Bind(s)
      PROVE  TypeOK'
  BY <1>5, DisturbancesType, StateChanges
  DEF Bind, Goto, TypeOK, Steps, RowOf, Bound
<1>6. ASSUME NEW s \in Sessions, Abort(s)
      PROVE  TypeOK'
  BY <1>6, DisturbancesType
  DEF Abort, Goto, TypeOK, Steps
<1>7. ASSUME NEW s \in Sessions, Answer(s)
      PROVE  TypeOK'
  BY <1>7, DisturbancesType
  DEF Answer, Goto, TypeOK, Steps
<1>8. ASSUME NEW s \in Sessions, Attach(s)
      PROVE  TypeOK'
  BY <1>8, DisturbancesType, StateChanges
  DEF Attach, Goto, TypeOK, Steps, RowOf, Bound
<1>9. ASSUME NEW s \in Sessions, Resolve(s)
      PROVE  TypeOK'
  BY <1>9, DisturbancesType
  DEF Resolve, Goto, TypeOK, Steps
<1>10. ASSUME NEW s \in Sessions, Compensate(s)
      PROVE  TypeOK'
  BY <1>10, CallDismissed, CallHungUp
  DEF Compensate, Goto, TypeOK, Steps
<1>11. ASSUME NEW s \in Sessions, Release(s)
      PROVE  TypeOK'
  BY <1>11, DisturbancesType, RowDeleted
  DEF Release, Goto, TypeOK, Steps, RowOf
<1>12. ASSUME NEW s \in Sessions, Purge(s)
      PROVE  TypeOK'
  BY <1>12, DisturbancesType, RowDeleted
  DEF Purge, Goto, TypeOK, Steps, RowOf
<1>13. ASSUME NEW s \in Sessions, Lapse(s)
      PROVE  TypeOK'
  BY <1>13, DisturbancesType, RowLapses
  DEF Lapse, Goto, TypeOK, Steps, RowOf
<1>14. ASSUME NEW s \in Sessions, CallEnds(s)
      PROVE  TypeOK'
  BY <1>14, DisturbancesType, CallHungUp
  DEF CallEnds, Goto, TypeOK, Steps
<1>15. ASSUME NEW s \in Sessions, CreateCallLost(s)
      PROVE  TypeOK'
  BY <1>15, DisturbancesType
  DEF CreateCallLost, Goto, TypeOK, Steps
<1>16. ASSUME NEW s \in Sessions, BindThrows(s)
      PROVE  TypeOK'
  BY <1>16, DisturbancesType, StateChanges
  DEF BindThrows, Goto, TypeOK, Steps, RowOf, Bound
<1>17. ASSUME NEW s \in Sessions, CompensateThrows(s)
      PROVE  TypeOK'
  BY <1>17, DisturbancesType, CallHungUp
  DEF CompensateThrows, Goto, TypeOK, Steps
<1>18. ASSUME NEW s \in Sessions, ReleaseThrows(s)
      PROVE  TypeOK'
  BY <1>18, DisturbancesType, RowDeleted
  DEF ReleaseThrows, Goto, TypeOK, Steps, RowOf
<1>19. ASSUME NEW s \in Sessions, Overrun(s)
      PROVE  TypeOK'
  BY <1>19, DisturbancesType, RowLapses
  DEF Overrun, Goto, TypeOK, Steps, RowOf
<1>20. ASSUME NEW s \in Sessions, Crash(s)
      PROVE  TypeOK'
  BY <1>20, DisturbancesType
  DEF Crash, Goto, TypeOK, Steps
<1>21. ASSUME NEW c \in Closers, NEW s \in Sessions, Hangup(c, s)
      PROVE  TypeOK'
  BY <1>21, DisturbancesType, ClaimType
  DEF Hangup, Goto, TypeOK, Steps
<1>22. ASSUME NEW c \in Closers, NEW s \in Sessions, GiveUp(c, s)
      PROVE  TypeOK'
  BY <1>22, DisturbancesType, ClaimType
  DEF GiveUp, Goto, TypeOK, Steps
<1>23. ASSUME NEW c \in Closers, NEW s \in Sessions, ClaimExpired(c, s)
      PROVE  TypeOK'
  BY <1>23, DisturbancesType, TakeType
  DEF ClaimExpired, Goto, TypeOK, Steps
<1>24. ASSUME NEW c \in Closers, HangUpCall(c)
      PROVE  TypeOK'
  <2>1. closer[c].session \in Sessions
    BY <1>24 DEF HangUpCall, Terminating, TerminatingOf
  <2>. QED
    BY <1>24, <2>1, CallDismissed, CallHungUp, CloserAdvances DEF HangUpCall, TypeOK
<1>25. ASSUME NEW c \in Closers, Complete(c)
      PROVE  TypeOK'
  <2>1. closer[c].session \in Sessions
    BY <1>25 DEF Complete, Terminating, TerminatingOf
  <2>2. lease' \in [Sessions -> Lease] /\ told' \subseteq Sessions
    BY <1>25, <2>1, RowDeleted DEF Complete, RowOf, TypeOK
  <2>. QED
    BY <1>25, <2>2, DisturbancesType DEF Complete, TypeOK, Closer, Idle
<1>26. ASSUME NEW c \in Closers, HangUpCallThrows(c)
      PROVE  TypeOK'
  BY <1>26, DisturbancesType, CallHungUp
  DEF HangUpCallThrows, Goto, TypeOK, Steps, Terminating, TerminatingOf,
      Closer, Idle
<1>27. ASSUME NEW c \in Closers, CrashCloser(c)
      PROVE  TypeOK'
  BY <1>27, DisturbancesType
  DEF CrashCloser, Goto, TypeOK, Steps, Closer, Idle
<1>28. CASE UNCHANGED vars
  BY <1>28 DEF vars, TypeOK
<1>. QED
  BY <1>1, <1>2, <1>3, <1>4, <1>5, <1>6, <1>7, <1>8, <1>9, <1>10, <1>11,
     <1>12, <1>13, <1>14, <1>15, <1>16, <1>17, <1>18, <1>19, <1>20, <1>21,
     <1>22, <1>23, <1>24, <1>25, <1>26, <1>27, <1>28
  DEF Next, BootStep, CloserStep, Fault

---------------------------------------------------------------------------
(* What a step does to the places, the calls and the sessions told over.   *)

\* Rows may be claimed, activated or lapse; the places stay held as they were.
SamePlaces ==
    \A s \in Sessions :
      /\ lease'[s].owner = lease[s].owner
      /\ HasCall(s)' = HasCall(s)
      /\ lease'[s].state = "none" <=> lease[s].state = "none"

\* Calls are made for requests that wait for one, and end; a hang-up is only
\* done for a call that was recorded.
CallsMove ==
    \/ UNCHANGED <<call, dismissed>>
    \/ \E s \in Sessions :
         /\ boot[s] = "reserved" /\ call' = [call EXCEPT ![s] = "live"]
         /\ UNCHANGED dismissed
    \/ \E s \in Sessions :
         /\ HungUp(s) \/ UNCHANGED call
         /\ \/ UNCHANGED dismissed
            \/ boot'[s] \notin Early /\ dismissed' = dismissed \cup {s}

\* A place without a call, or whose call the provider accepted to hang up, is
\* given back.
Returned(s) ==
    /\ ~HasCall(s) \/ s \in dismissed
    /\ lease' = Deleted(s)
    /\ UNCHANGED <<call, dismissed>>
    /\ told' \in {told, told \cup {s}}

PlacesMove ==
    \/ SamePlaces /\ CallsMove /\ UNCHANGED told
    \/ \E s \in Sessions, p \in Principals :
         /\ MayReserve(s, p) /\ Reserving(s, p)
         /\ boot'[s] # "idle"
         /\ UNCHANGED <<call, dismissed, told>>
    \/ \E s \in Sessions :
         /\ boot[s] = "created" /\ boot'[s] \notin Early
         /\ Usable(s, "reserved") /\ lease' = Bound(s)
         /\ UNCHANGED <<call, dismissed, told>>
    \/ \E s \in Sessions : Returned(s)

\* A request does not begin again, nor return before its call was recorded,
\* and says "hung up" when the provider did.
RequestsMove ==
    \A s \in Sessions :
      /\ boot'[s] = "idle" => boot[s] = "idle"
      /\ boot'[s] \in Early => boot[s] \in Early
      /\ boot'[s] = "hung up" => boot[s] = "hung up" \/ s \in dismissed'

\* Whoever is told is fenced, for good.
Moves ==
    /\ PlacesMove
    /\ RequestsMove
    /\ fenced \subseteq fenced'
    /\ told' \subseteq told \cup fenced'

\* A step that leaves the rows alone.
LEMMA RowsKept ==
    ASSUME lease' = lease
    PROVE  SamePlaces
BY DEF SamePlaces, HasCall

LEMMA RequestsKept ==
    ASSUME boot' = boot
    PROVE  RequestsMove
BY DEF RequestsMove

LEMMA StateKept ==
    ASSUME TypeOK, NEW s \in Sessions, NEW state, RowOf(s, state, lease[s].owner),
           \/ state = lease[s].state
           \/ HasCall(s) /\ state \in {"bound", "active", "reaping"}
    PROVE  SamePlaces
BY DEF RowOf, SamePlaces, HasCall

\* A request that goes on.
LEMMA RequestGoes ==
    ASSUME TypeOK, NEW s \in Sessions, NEW step \in Steps, Goto(s, step), step # "idle"
    PROVE  /\ boot'[s] = step
           /\ \A r \in Sessions : r # s => boot'[r] = boot[r]
BY DEF Goto, TypeOK

\* A claim leaves the place held; a reservation is given back at once.
LEMMA TakeMoves ==
    ASSUME TypeOK, NEW c \in Closers, NEW s \in Sessions, NEW user \in BOOLEAN,
           HasCall(s), Take(c, s, user)
    PROVE  SamePlaces
BY RowClaimed, StateKept DEF Take

LEMMA ClaimMoves ==
    ASSUME TypeOK, NEW c \in Closers, NEW s \in Sessions, NEW user \in BOOLEAN,
           ClaimTermination(c, s, user), UNCHANGED <<call, dismissed>>
    PROVE  /\ PlacesMove
           /\ fenced \subseteq fenced' /\ told' \subseteq told \cup fenced'
<1>1. CASE ~HasCall(s)
  <2>1. Returned(s)
    BY <1>1 DEF ClaimTermination, Returned
  <2>. QED
    BY <1>1, <2>1 DEF ClaimTermination, PlacesMove
<1>2. CASE HasCall(s) /\ Usable(s, "reaping")
  BY <1>2, RowsKept DEF ClaimTermination, PlacesMove, CallsMove
<1>3. CASE HasCall(s) /\ ~Usable(s, "reaping")
  BY <1>3, TakeMoves DEF ClaimTermination, PlacesMove, CallsMove
<1>. QED
  BY <1>1, <1>2, <1>3

\* Every step is one of these moves.
LEMMA MovesStep == TypeOK /\ Informed /\ Terminating /\ [Next]_vars => Moves
<1>. SUFFICES ASSUME TypeOK, Informed, Terminating, [Next]_vars
     PROVE  Moves
  OBVIOUS
<1>1. ASSUME NEW s \in Sessions, NEW p \in Principals, Reserve(s, p)
      PROVE  Moves
  <2>1. RequestsMove
    BY <1>1, RequestGoes
    DEF Reserve, RequestsMove, Early, Steps, MayReserve
  <2>2. boot'[s] # "idle"
    BY <1>1, RequestGoes DEF Reserve, Steps
  <2>. QED
    BY <1>1, <2>1, <2>2 DEF Reserve, Moves, PlacesMove
<1>2. ASSUME NEW s \in Sessions, NEW p \in Principals, ReserveThrows(s, p)
      PROVE  Moves
  <2>1. RequestsMove
    BY <1>2, RequestGoes
    DEF ReserveThrows, RequestsMove, Early, Steps, MayReserve
  <2>2. boot'[s] # "idle"
    BY <1>2, RequestGoes DEF ReserveThrows, Steps
  <2>. QED
    BY <1>2, <2>1, <2>2 DEF ReserveThrows, Moves, PlacesMove
<1>3. ASSUME NEW s \in Sessions, CreateCall(s)
      PROVE  Moves
  <2>1. RequestsMove
    BY <1>3, RequestGoes
    DEF CreateCall, RequestsMove, Early, Steps
  <2>. QED
    BY <1>3, <2>1, RowsKept
    DEF CreateCall, Moves, PlacesMove, CallsMove
<1>4. ASSUME NEW s \in Sessions, Refuse(s)
      PROVE  Moves
  <2>1. RequestsMove
    BY <1>4, RequestGoes
    DEF Refuse, RequestsMove, Early, Steps
  <2>. QED
    BY <1>4, <2>1, RowsKept
    DEF Refuse, Moves, PlacesMove, CallsMove
<1>5. ASSUME NEW s \in Sessions, Bind(s)
      PROVE  Moves
  <2>1. RequestsMove
    BY <1>5, RequestGoes
    DEF Bind, RequestsMove, Early, Steps
  <2>2. CASE Usable(s, "reserved") /\ lease' = Bound(s)
    <3>1. boot'[s] \notin Early
      BY <1>5, <2>2, RequestGoes DEF Bind, Steps, Early
    <3>. QED
      BY <1>5, <2>1, <2>2, <3>1 DEF Bind, Moves, PlacesMove
  <2>3. CASE lease' = lease
    BY <1>5, <2>1, <2>3, RowsKept DEF Bind, Moves, PlacesMove, CallsMove
  <2>. QED
    BY <1>5, <2>2, <2>3 DEF Bind
<1>6. ASSUME NEW s \in Sessions, Abort(s)
      PROVE  Moves
  <2>1. RequestsMove
    BY <1>6, RequestGoes
    DEF Abort, RequestsMove, Early, Steps
  <2>. QED
    BY <1>6, <2>1, RowsKept
    DEF Abort, Moves, PlacesMove, CallsMove
<1>7. ASSUME NEW s \in Sessions, Answer(s)
      PROVE  Moves
  <2>1. RequestsMove
    BY <1>7, RequestGoes
    DEF Answer, RequestsMove, Early, Steps
  <2>. QED
    BY <1>7, <2>1, RowsKept
    DEF Answer, Moves, PlacesMove, CallsMove
<1>8. ASSUME NEW s \in Sessions, Attach(s)
      PROVE  Moves
  <2>1. RequestsMove
    BY <1>8, RequestGoes
    DEF Attach, RequestsMove, Early, Steps
  <2>2. SamePlaces
    BY <1>8, StateChanges, StateKept DEF Attach, Usable, HasCall
  <2>. QED
    BY <1>8, <2>1, <2>2 DEF Attach, Moves, PlacesMove, CallsMove
<1>9. ASSUME NEW s \in Sessions, Resolve(s)
      PROVE  Moves
  <2>1. RequestsMove
    BY <1>9, RequestGoes
    DEF Resolve, RequestsMove, Early, Steps
  <2>. QED
    BY <1>9, <2>1, RowsKept
    DEF Resolve, Moves, PlacesMove, CallsMove
<1>10. ASSUME NEW s \in Sessions, Compensate(s)
      PROVE  Moves
  <2>1. boot'[s] \notin Early /\ RequestsMove
    BY <1>10, CallDismissed, RequestGoes
    DEF Compensate, RequestsMove, Early, Steps
  <2>2. CallsMove
    BY <1>10, <2>1, CallDismissed DEF Compensate, CallsMove
  <2>. QED
    BY <1>10, <2>1, <2>2, RowsKept DEF Compensate, Moves, PlacesMove
<1>11. ASSUME NEW s \in Sessions, Release(s)
      PROVE  Moves
  <2>1. RequestsMove
    BY <1>11, RequestGoes
    DEF Release, RequestsMove, Early, Steps
  <2>2. CASE Releasable(s) /\ lease' = Deleted(s)
    <3>1. Returned(s)
      BY <1>11, <2>2 DEF Release, Releasable, Returned, Informed
    <3>. QED
      BY <1>11, <2>1, <3>1 DEF Release, Moves, PlacesMove
  <2>3. CASE lease' = lease
    BY <1>11, <2>1, <2>3, RowsKept DEF Release, Moves, PlacesMove, CallsMove
  <2>. QED
    BY <1>11, <2>2, <2>3 DEF Release
<1>12. ASSUME NEW s \in Sessions, Purge(s)
      PROVE  Moves
  <2>1. Returned(s)
    BY <1>12 DEF Purge, Purgeable, Returned, HasCall
  <2>. QED
    BY <1>12, <2>1, RequestsKept DEF Purge, Moves, PlacesMove
<1>13. ASSUME NEW s \in Sessions, Lapse(s)
      PROVE  Moves
  <2>1. SamePlaces
    BY <1>13, RowLapses, StateKept DEF Lapse
  <2>. QED
    BY <1>13, <2>1, RequestsKept DEF Lapse, Moves, PlacesMove, CallsMove
<1>14. ASSUME NEW s \in Sessions, CallEnds(s)
      PROVE  Moves
  BY <1>14, RowsKept, RequestsKept
  DEF CallEnds, Moves, PlacesMove, CallsMove
<1>15. ASSUME NEW s \in Sessions, CreateCallLost(s)
      PROVE  Moves
  <2>1. RequestsMove
    BY <1>15, RequestGoes
    DEF CreateCallLost, RequestsMove, Early, Steps
  <2>. QED
    BY <1>15, <2>1, RowsKept
    DEF CreateCallLost, Moves, PlacesMove, CallsMove
<1>16. ASSUME NEW s \in Sessions, BindThrows(s)
      PROVE  Moves
  <2>1. RequestsMove
    BY <1>16, RequestGoes
    DEF BindThrows, RequestsMove, Early, Steps
  <2>2. CASE Usable(s, "reserved") /\ lease' = Bound(s)
    <3>1. boot'[s] \notin Early
      BY <1>16, <2>2, RequestGoes DEF BindThrows, Steps, Early
    <3>. QED
      BY <1>16, <2>1, <2>2, <3>1 DEF BindThrows, Moves, PlacesMove
  <2>3. CASE lease' = lease
    BY <1>16, <2>1, <2>3, RowsKept DEF BindThrows, Moves, PlacesMove, CallsMove
  <2>. QED
    BY <1>16, <2>2, <2>3 DEF BindThrows
<1>17. ASSUME NEW s \in Sessions, CompensateThrows(s)
      PROVE  Moves
  <2>1. RequestsMove
    BY <1>17, RequestGoes
    DEF CompensateThrows, RequestsMove, Early, Steps
  <2>. QED
    BY <1>17, <2>1, RowsKept
    DEF CompensateThrows, Moves, PlacesMove, CallsMove
<1>18. ASSUME NEW s \in Sessions, ReleaseThrows(s)
      PROVE  Moves
  <2>1. RequestsMove
    BY <1>18, RequestGoes
    DEF ReleaseThrows, RequestsMove, Early, Steps
  <2>2. CASE Releasable(s) /\ lease' = Deleted(s)
    <3>1. Returned(s)
      BY <1>18, <2>2 DEF ReleaseThrows, Releasable, Returned, Informed
    <3>. QED
      BY <1>18, <2>1, <3>1 DEF ReleaseThrows, Moves, PlacesMove
  <2>3. CASE lease' = lease
    BY <1>18, <2>1, <2>3, RowsKept DEF ReleaseThrows, Moves, PlacesMove, CallsMove
  <2>. QED
    BY <1>18, <2>2, <2>3 DEF ReleaseThrows
<1>19. ASSUME NEW s \in Sessions, Overrun(s)
      PROVE  Moves
  <2>1. SamePlaces
    BY <1>19, RowLapses, StateKept DEF Overrun
  <2>. QED
    BY <1>19, <2>1, RequestsKept DEF Overrun, Moves, PlacesMove, CallsMove
<1>20. ASSUME NEW s \in Sessions, Crash(s)
      PROVE  Moves
  <2>1. RequestsMove
    BY <1>20, RequestGoes
    DEF Crash, RequestsMove, Early, Steps
  <2>. QED
    BY <1>20, <2>1, RowsKept
    DEF Crash, Moves, PlacesMove, CallsMove
<1>21. ASSUME NEW c \in Closers, NEW s \in Sessions, Hangup(c, s)
      PROVE  Moves
  <2>1. RequestsMove
    BY <1>21, RequestGoes, RequestsKept DEF Hangup, RequestsMove, Early, Steps
  <2>. QED
    BY <1>21, <2>1, ClaimMoves DEF Hangup, Moves
<1>22. ASSUME NEW c \in Closers, NEW s \in Sessions, GiveUp(c, s)
      PROVE  Moves
  <2>1. RequestsMove
    BY <1>22, RequestGoes, RequestsKept DEF GiveUp, RequestsMove, Early, Steps
  <2>. QED
    BY <1>22, <2>1, ClaimMoves DEF GiveUp, Moves
<1>23. ASSUME NEW c \in Closers, NEW s \in Sessions, ClaimExpired(c, s)
      PROVE  Moves
  <2>1. SamePlaces
    BY <1>23, TakeMoves DEF ClaimExpired, Claimable
  <2>. QED
    BY <1>23, <2>1, RequestsKept DEF ClaimExpired, Moves, PlacesMove, CallsMove
<1>24. ASSUME NEW c \in Closers, HangUpCall(c)
      PROVE  Moves
  <2>. DEFINE s == closer[c].session
  <2>1. s \in Sessions /\ boot'[s] \notin Early
    BY <1>24 DEF HangUpCall, Terminating, TerminatingOf
  <2>2. CallsMove
    BY <1>24, <2>1, CallDismissed DEF HangUpCall, CallsMove
  <2>. QED
    BY <1>24, <2>2, RowsKept, RequestsKept DEF HangUpCall, Moves, PlacesMove
<1>25. ASSUME NEW c \in Closers, Complete(c)
      PROVE  Moves
  <2>. DEFINE s == closer[c].session
  <2>1. /\ s \in Sessions /\ s \in dismissed
        /\ closer[c].user => s \in fenced
    BY <1>25 DEF Complete, Terminating, TerminatingOf
  <2>2. CASE Owns(c)
    <3>1. /\ lease' = Deleted(s) /\ UNCHANGED <<boot, call, dismissed, fenced>>
          /\ told' = IF closer[c].user THEN told \cup {s} ELSE told
      BY <1>25, <2>2 DEF Complete
    <3>2. Returned(s)
      BY <2>1, <3>1 DEF Returned
    <3>. QED
      BY <2>1, <3>1, <3>2, RequestsKept DEF Moves, PlacesMove
  <2>3. CASE ~Owns(c)
    BY <1>25, <2>3, RowsKept, RequestsKept DEF Complete, Moves, PlacesMove, CallsMove
  <2>. QED
    BY <2>2, <2>3
<1>26. ASSUME NEW c \in Closers, HangUpCallThrows(c)
      PROVE  Moves
  BY <1>26, RowsKept, RequestsKept
  DEF HangUpCallThrows, Moves, PlacesMove, CallsMove, Terminating,
      TerminatingOf
<1>27. ASSUME NEW c \in Closers, CrashCloser(c)
      PROVE  Moves
  BY <1>27, RowsKept, RequestsKept
  DEF CrashCloser, Moves, PlacesMove, CallsMove
<1>28. CASE UNCHANGED vars
  BY <1>28, RowsKept, RequestsKept DEF vars, Moves, PlacesMove, CallsMove
<1>. QED
  BY <1>1, <1>2, <1>3, <1>4, <1>5, <1>6, <1>7, <1>8, <1>9, <1>10, <1>11,
     <1>12, <1>13, <1>14, <1>15, <1>16, <1>17, <1>18, <1>19, <1>20, <1>21,
     <1>22, <1>23, <1>24, <1>25, <1>26, <1>27, <1>28
  DEF Next, BootStep, CloserStep, Fault

---------------------------------------------------------------------------
(* The parts of the invariant that follow from the moves.                  *)

\* A hang-up that was done stays done.
LEMMA DismissalsStay ==
    ASSUME Moves
    PROVE  dismissed \subseteq dismissed'
BY DEF Moves, PlacesMove, CallsMove, Returned

LEMMA OwnedStep ==
    ASSUME TypeOK, Owned, Moves
    PROVE  Owned'
<1>1. CASE SamePlaces
  BY <1>1 DEF Owned, SamePlaces
<1>2. ASSUME NEW s \in Sessions, NEW p \in Principals, Reserving(s, p)
      PROVE  Owned'
  BY <1>2, RowsReserved, NoCloserAssumption DEF Owned, NoLease
<1>3. ASSUME NEW s \in Sessions, Usable(s, "reserved"), lease' = Bound(s)
      PROVE  Owned'
  BY <1>3, StateChanges DEF Owned, RowOf, Bound, Usable
<1>4. ASSUME NEW s \in Sessions, Returned(s)
      PROVE  Owned'
  BY <1>4, RowDeleted DEF Owned, RowOf, Returned
<1>. QED
  BY <1>1, <1>2, <1>3, <1>4 DEF Moves, PlacesMove

LEMMA RecordedStep ==
    ASSUME TypeOK, Recorded, Moves
    PROVE  Recorded'
<1>1. \A s \in Sessions : boot'[s] \in Early => boot[s] \in Early
  BY DEF Moves, RequestsMove
<1>2. ASSUME \A s \in Sessions : HasCall(s)' => HasCall(s)
      PROVE  Recorded'
  BY <1>1, <1>2 DEF Recorded
<1>3. CASE SamePlaces
  BY <1>2, <1>3 DEF SamePlaces
<1>4. ASSUME NEW s \in Sessions, NEW p \in Principals, Reserving(s, p)
      PROVE  Recorded'
  BY <1>2, <1>4, RowsReserved DEF HasCall, NoLease
<1>5. ASSUME NEW s \in Sessions, boot'[s] \notin Early, lease' = Bound(s)
      PROVE  Recorded'
  BY <1>1, <1>5, StateChanges DEF Recorded, HasCall, RowOf, Bound
<1>6. ASSUME NEW s \in Sessions, Returned(s)
      PROVE  Recorded'
  BY <1>2, <1>6, RowDeleted DEF HasCall, RowOf, Returned
<1>. QED
  BY <1>3, <1>4, <1>5, <1>6 DEF Moves, PlacesMove

LEMMA NamedStep ==
    ASSUME TypeOK, Named, Moves
    PROVE  Named'
<1>1. ASSUME NEW s \in dismissed
      PROVE  boot'[s] \notin Early
  BY <1>1 DEF TypeOK, Named, Moves, RequestsMove
<1>2. ASSUME NEW s \in dismissed', s \notin dismissed
      PROVE  boot'[s] \notin Early
  BY <1>2 DEF Moves, PlacesMove, CallsMove, Returned
<1>. QED
  BY <1>1, <1>2 DEF Named

\* Only a session that is not fenced is admitted, and only an admitted one bound.
LEMMA EndedStep ==
    ASSUME TypeOK, EndedStaysEnded, Moves
    PROVE  EndedStaysEnded'
<1>1. told' \subseteq fenced'
  BY DEF EndedStaysEnded, Moves
<1>2. CASE SamePlaces /\ UNCHANGED told
  BY <1>1, <1>2 DEF EndedStaysEnded, SamePlaces, TypeOK
<1>3. ASSUME NEW s \in Sessions, NEW p \in Principals, MayReserve(s, p), Reserving(s, p),
             UNCHANGED told
      PROVE  EndedStaysEnded'
  BY <1>1, <1>3, RowsReserved DEF EndedStaysEnded, MayReserve, NoLease, TypeOK
<1>4. ASSUME NEW s \in Sessions, Usable(s, "reserved"), lease' = Bound(s), UNCHANGED told
      PROVE  EndedStaysEnded'
  BY <1>1, <1>4, StateChanges DEF EndedStaysEnded, RowOf, Bound, Usable, TypeOK
<1>5. ASSUME NEW s \in Sessions, Returned(s)
      PROVE  EndedStaysEnded'
  BY <1>1, <1>5, RowDeleted DEF EndedStaysEnded, RowOf, Returned, TypeOK
<1>. QED
  BY <1>2, <1>3, <1>4, <1>5 DEF Moves, PlacesMove

LEMMA LeasesFinite ==
    /\ IsFiniteSet(Leases)
    /\ Cardinality(Leases) \in Nat
    /\ \A S \in SUBSET Leases :
         IsFiniteSet(S) /\ Cardinality(S) \in Nat /\ Cardinality(S) <= Cardinality(Leases)
<1>1. IsFiniteSet(Leases)
  BY SessionsAssumption, FS_Subset DEF Leases
<1>. QED
  BY <1>1, FS_Subset, FS_CardinalityType

\* The rows after each move.
LEMMA LeasesMove ==
    ASSUME TypeOK, Moves
    PROVE  \/ Leases' \subseteq Leases
           \/ \E s \in Sessions, p \in Principals :
                /\ MayReserve(s, p) /\ Reserving(s, p)
                /\ Leases' = (Leases \ LeasesOf(p)) \cup {s}
<1>1. CASE SamePlaces
  BY <1>1 DEF SamePlaces, Leases
<1>2. ASSUME NEW s \in Sessions, NEW p \in Principals, Reserving(s, p)
      PROVE  Leases' = (Leases \ LeasesOf(p)) \cup {s}
  <2>1. \A r \in Sessions :
          lease'[r].state # "none"
            <=> r = s \/ (lease[r].state # "none" /\ r \notin LeasesOf(p))
    BY <1>2, RowsReserved DEF NoLease, LeasesOf, Leases
  <2>. QED
    BY <2>1 DEF Leases, LeasesOf
<1>3. ASSUME NEW s \in Sessions, Usable(s, "reserved"), lease' = Bound(s)
      PROVE  Leases' \subseteq Leases
  BY <1>3, StateChanges DEF Leases, RowOf, Bound, Usable
<1>4. ASSUME NEW s \in Sessions, Returned(s)
      PROVE  Leases' \subseteq Leases
  BY <1>4, RowDeleted DEF Leases, RowOf, Returned
<1>. QED
  BY <1>1, <1>2, <1>3, <1>4 DEF Moves, PlacesMove

\* A reservation counts the places of the others.
LEMMA CapacityStep ==
    ASSUME TypeOK, WithinCapacity, Moves
    PROVE  WithinCapacity'
<1>1. ASSUME Leases' \subseteq Leases
      PROVE  Cardinality(Leases') <= Places
  <2>1. Cardinality(Leases') \in Nat /\ Cardinality(Leases') <= Cardinality(Leases)
    BY <1>1, LeasesFinite
  <2>. QED
    BY <2>1, LeasesFinite, SessionsAssumption DEF WithinCapacity
<1>2. ASSUME NEW s \in Sessions, NEW p \in Principals, MayReserve(s, p),
             Leases' = (Leases \ LeasesOf(p)) \cup {s}
      PROVE  Cardinality(Leases') <= Places
  <2>. DEFINE Others == Leases \ LeasesOf(p)
  <2>1. IsFiniteSet(Others) /\ Cardinality(Others) \in Nat
    BY LeasesFinite
  <2>2. Cardinality(Others) < Places
    BY <1>2 DEF MayReserve
  <2>3. Cardinality(Others \cup {s}) \in {Cardinality(Others), Cardinality(Others) + 1}
    BY <2>1, FS_AddElement
  <2>4. Cardinality(Others \cup {s}) <= Places
    BY <2>1, <2>2, <2>3, SessionsAssumption
  <2>. QED
    BY <1>2, <2>4
<1>. QED
  BY <1>1, <1>2, LeasesMove DEF WithinCapacity

\* A reservation replaces what its owner had.
LEMMA OnePlaceStep ==
    ASSUME TypeOK, OnePlaceEach, Moves
    PROVE  OnePlaceEach'
<1>1. CASE SamePlaces
  BY <1>1 DEF SamePlaces, OnePlaceEach, Leases
<1>2. ASSUME NEW s \in Sessions, NEW p \in Principals, Reserving(s, p)
      PROVE  OnePlaceEach'
  BY <1>2, RowsReserved DEF OnePlaceEach, Leases, LeasesOf, NoLease
<1>3. ASSUME NEW s \in Sessions, Usable(s, "reserved"), lease' = Bound(s)
      PROVE  OnePlaceEach'
  BY <1>3, StateChanges DEF OnePlaceEach, Leases, RowOf, Bound, Usable
<1>4. ASSUME NEW s \in Sessions, Returned(s)
      PROVE  OnePlaceEach'
  BY <1>4, RowDeleted DEF OnePlaceEach, Leases, RowOf, Returned
<1>. QED
  BY <1>1, <1>2, <1>3, <1>4 DEF Moves, PlacesMove

---------------------------------------------------------------------------
(* The requests and the terminations.                                      *)

LEMMA AdmittedStep ==
    ASSUME TypeOK, Admitted, Moves
    PROVE  Admitted'
<1>1. ASSUME NEW s \in Sessions, boot'[s] = "idle"
      PROVE  lease'[s].state = "none"
  <2>1. lease[s].state = "none"
    BY <1>1 DEF Moves, RequestsMove, Admitted
  <2>2. ASSUME NEW r \in Sessions, NEW p \in Principals, Reserving(r, p), boot'[r] # "idle"
        PROVE  lease'[s].state = "none"
    BY <1>1, <2>1, <2>2, RowsReserved DEF NoLease
  <2>3. ASSUME NEW r \in Sessions, Usable(r, "reserved"), lease' = Bound(r)
        PROVE  lease'[s].state = "none"
    BY <2>1, <2>3, StateChanges DEF RowOf, Bound, Usable
  <2>4. ASSUME NEW r \in Sessions, Returned(r)
        PROVE  lease'[s].state = "none"
    BY <2>1, <2>4, RowDeleted DEF RowOf, Returned
  <2>. QED
    BY <2>1, <2>2, <2>3, <2>4 DEF Moves, PlacesMove, SamePlaces
<1>. QED
  BY <1>1 DEF Admitted

\* What a request saw stays seen.
LEMMA InformedStep ==
    ASSUME Informed, Moves
    PROVE  Informed'
BY DismissalsStay DEF Informed, Moves, RequestsMove

\* A termination that stays where it is.
LEMMA TerminationKept ==
    ASSUME TypeOK, Terminating, Moves, NEW c \in Closers, closer'[c] = closer[c]
    PROVE  TerminatingOf(c)'
BY DismissalsStay DEF Terminating, TerminatingOf, Moves, RequestsMove, TypeOK, Closer

LEMMA TerminationsKept ==
    ASSUME TypeOK, Terminating, Moves, UNCHANGED closer
    PROVE  Terminating'
BY TerminationKept DEF Terminating

\* A termination that takes a session, and one that stops.
LEMMA TerminationBegins ==
    ASSUME TypeOK, Recorded, Terminating, Moves,
           NEW c \in Closers, NEW s \in Sessions, NEW user \in BOOLEAN,
           HasCall(s), Take(c, s, user), user => s \in fenced'
    PROVE  Terminating'
<1>1. /\ closer'[c] = [at |-> "claimed", session |-> s, user |-> user]
      /\ \A d \in Closers : d # c => closer'[d] = closer[d]
  BY DEF Take, TypeOK
<1>2. boot'[s] \notin Early
  BY DEF Recorded, Moves, RequestsMove
<1>3. TerminatingOf(c)'
  BY <1>1, <1>2 DEF TerminatingOf
<1>4. \A d \in Closers : d # c => TerminatingOf(d)'
  BY <1>1, TerminationKept
<1>. QED
  BY <1>3, <1>4 DEF Terminating

LEMMA TerminationEnds ==
    ASSUME TypeOK, Terminating, Moves,
           NEW c \in Closers, closer' = [closer EXCEPT ![c] = Idle]
    PROVE  Terminating'
<1>1. closer'[c] = Idle /\ \A d \in Closers : d # c => closer'[d] = closer[d]
  BY DEF TypeOK
<1>2. TerminatingOf(c)'
  <2>1. closer'[c].at = "idle" /\ ~closer'[c].user
    BY <1>1 DEF Idle
  <2>. QED
    BY <2>1 DEF TerminatingOf
<1>3. \A d \in Closers : d # c => TerminatingOf(d)'
  BY <1>1, TerminationKept
<1>. QED
  BY <1>2, <1>3 DEF Terminating

LEMMA ClaimTerminates ==
    ASSUME TypeOK, Recorded, Terminating, Moves,
           NEW c \in Closers, NEW s \in Sessions, NEW user \in BOOLEAN,
           ClaimTermination(c, s, user)
    PROVE  Terminating'
<1>1. CASE UNCHANGED closer
  BY <1>1, TerminationsKept
<1>2. CASE HasCall(s) /\ Take(c, s, user)
  <2>1. s \in fenced'
    BY DEF ClaimTermination
  <2>. QED
    BY <1>2, <2>1, TerminationBegins
<1>. QED
  BY <1>1, <1>2 DEF ClaimTermination

\* Every step keeps what the terminations rely on.
LEMMA TerminatingStep ==
    ASSUME TypeOK, Recorded, Terminating, Moves, [Next]_vars
    PROVE  Terminating'
<1>1. ASSUME NEW c \in Closers, NEW s \in Sessions,
             Hangup(c, s) \/ GiveUp(c, s)
      PROVE  Terminating'
  BY <1>1, ClaimTerminates DEF Hangup, GiveUp
<1>2. ASSUME NEW c \in Closers, NEW s \in Sessions, ClaimExpired(c, s)
      PROVE  Terminating'
  BY <1>2, TerminationBegins DEF ClaimExpired, Claimable
<1>3. ASSUME NEW c \in Closers, HangUpCall(c)
      PROVE  Terminating'
  <2>. DEFINE s == closer[c].session
  <2>1. s \in Sessions /\ Dismissed(s)
    BY <1>3 DEF HangUpCall, Terminating, TerminatingOf
  <2>2. s \in dismissed'
    BY <2>1, CallDismissed
  <2>3. closer[c].user => s \in fenced'
    BY <1>3 DEF HangUpCall, Terminating, TerminatingOf
  <2>4. /\ closer'[c].at = "hung up" /\ closer'[c].session = s
        /\ closer'[c].user = closer[c].user
        /\ \A d \in Closers : d # c => closer'[d] = closer[d]
    BY <1>3, CloserAdvances DEF HangUpCall
  <2>. QED
    BY <2>1, <2>2, <2>3, <2>4, TerminationKept DEF Terminating, TerminatingOf
<1>4. ASSUME NEW c \in Closers, HangUpCallThrows(c) \/ Complete(c) \/ CrashCloser(c)
      PROVE  Terminating'
  BY <1>4, TerminationEnds DEF HangUpCallThrows, Complete, CrashCloser
<1>5. ASSUME NEW s \in Sessions, NEW p \in Principals,
             Reserve(s, p) \/ ReserveThrows(s, p)
      PROVE  Terminating'
  BY <1>5, TerminationsKept DEF Reserve, ReserveThrows
<1>6. ASSUME NEW s \in Sessions, BootStep(s)
      PROVE  Terminating'
  BY <1>6, TerminationsKept
  DEF BootStep, CreateCall, Refuse, Bind, Abort, Answer, Attach, Resolve, Compensate,
      Release
<1>7. ASSUME NEW s \in Sessions,
             Purge(s) \/ Lapse(s) \/ CallEnds(s) \/ Overrun(s) \/ Crash(s)
      PROVE  Terminating'
  BY <1>7, TerminationsKept DEF Purge, Lapse, CallEnds, Overrun, Crash
<1>8. ASSUME NEW s \in Sessions,
             CreateCallLost(s) \/ BindThrows(s) \/ CompensateThrows(s) \/ ReleaseThrows(s)
      PROVE  Terminating'
  BY <1>8, TerminationsKept
  DEF CreateCallLost, BindThrows, CompensateThrows, ReleaseThrows
<1>9. CASE UNCHANGED vars
  BY <1>9, TerminationsKept DEF vars
<1>. QED
  BY <1>1, <1>2, <1>3, <1>4, <1>5, <1>6, <1>7, <1>8, <1>9 DEF Next, CloserStep, Fault

---------------------------------------------------------------------------
(* The theorems.                                                           *)

LEMMA InvStep == IInv /\ [Next]_vars => IInv'
<1>. SUFFICES ASSUME IInv, [Next]_vars
     PROVE  IInv'
  OBVIOUS
<1>1. TypeOK /\ Owned /\ Admitted /\ Recorded /\ Named /\ Informed /\ Terminating
      /\ EndedStaysEnded /\ WithinCapacity /\ OnePlaceEach
  BY DEF IInv
<1>2. Moves
  BY <1>1, MovesStep
<1>3. TypeOK'
  BY <1>1, TypeStep
<1>. QED
  BY <1>1, <1>2, <1>3, OwnedStep, AdmittedStep, RecordedStep, NamedStep,
     InformedStep, TerminatingStep, EndedStep, CapacityStep, OnePlaceStep
  DEF IInv

\* The invariant holds throughout.
THEOREM AdmissionInvariance == Spec => []IInv
<1>1. Init => IInv
  <2>. SUFFICES ASSUME Init
       PROVE  IInv
    OBVIOUS
  <2>1. NoLease \in Lease /\ Idle \in Closer
    BY DEF NoLease, Lease, Idle, Closer
  <2>2. TypeOK
    BY <2>1, SessionsAssumption DEF Init, TypeOK, Steps
  <2>3. Owned /\ Admitted /\ Recorded /\ Named
    BY DEF Init, Owned, Admitted, Recorded, Named, HasCall, NoLease
  <2>4. Informed /\ Terminating /\ EndedStaysEnded
    BY DEF Init, Informed, Terminating, TerminatingOf, EndedStaysEnded, Idle
  <2>5. Leases = {} /\ Cardinality({}) = 0
    BY FS_EmptySet DEF Init, Leases, NoLease
  <2>6. WithinCapacity /\ OnePlaceEach
    BY <2>5, SessionsAssumption DEF WithinCapacity, OnePlaceEach
  <2>. QED
    BY <2>2, <2>3, <2>4, <2>6 DEF IInv
<1>. QED
  BY <1>1, InvStep, PTL DEF Spec

\* The rows, the requests, the calls and the terminations have their types.
THEOREM TypeCorrect == Spec => []TypeOK
<1>1. IInv => TypeOK
  BY DEF IInv
<1>. QED
  BY <1>1, AdmissionInvariance, PTL

\* A user who was answered "ended" is never held to a place again, whatever
\* request or termination was still under way.
THEOREM AnsweredEndedStaysEnded == Spec => []EndedStaysEnded
<1>1. IInv => EndedStaysEnded
  BY DEF IInv
<1>. QED
  BY <1>1, AdmissionInvariance, PTL

\* No more sessions are admitted than there are places, whatever lapses,
\* crashes or is replaced.
THEOREM CapacityHolds == Spec => []WithinCapacity
<1>1. IInv => WithinCapacity
  BY DEF IInv
<1>. QED
  BY <1>1, AdmissionInvariance, PTL

\* A principal never has two places.
THEOREM OnePlaceHolds == Spec => []OnePlaceEach
<1>1. IInv => OnePlaceEach
  BY DEF IInv
<1>. QED
  BY <1>1, AdmissionInvariance, PTL

\* What a place looks like only depends on its row, its call, and whether
\* that call was hung up.
LEMMA PlaceSame ==
    ASSUME NEW s \in Sessions, HasCall(s)' = HasCall(s), call'[s] = call[s],
           s \in dismissed' <=> s \in dismissed,
           lease'[s].state = "reserved" <=> lease[s].state = "reserved"
    PROVE  PlaceOf(s)' = PlaceOf(s)
BY DEF PlaceOf

LEMMA SamePlacesSame ==
    ASSUME TypeOK, TypeOK', SamePlaces, NEW s \in Sessions
    PROVE  /\ lease'[s].state = "reserved" <=> lease[s].state = "reserved"
           /\ holder'[s] = holder[s]
BY DEF SamePlaces, TypeOK, Lease, HasCall, holder

\* A step that moves no place.
LEMMA PlacesStay ==
    ASSUME TypeOK, TypeOK', SamePlaces, UNCHANGED told,
           \A s \in Sessions :
             \/ ~HasCall(s)
             \/ /\ s \in dismissed' <=> s \in dismissed
                /\ s \in dismissed => call'[s] = call[s]
    PROVE  UNCHANGED <<place, holder, told>>
<1>1. ASSUME NEW s \in Sessions
      PROVE  PlaceOf(s)' = PlaceOf(s)
  BY <1>1, SamePlacesSame DEF PlaceOf, SamePlaces
<1>2. place' = place
  BY <1>1 DEF place
<1>3. holder' = holder
  BY SamePlacesSame DEF holder
<1>. QED
  BY <1>2, <1>3

\* A hang-up is done: the place of the call may come back, silent or not.
LEMMA DismissingStep ==
    ASSUME TypeOK, TypeOK', SamePlaces, UNCHANGED told, NEW s \in Sessions,
           HungUp(s) \/ UNCHANGED call, HasCall(s), s \notin dismissed,
           dismissed' = dismissed \cup {s}
    PROVE  Held!Dismiss(s)
<1>1. place[s] = "calling" /\ PlaceOf(s)' \in {"silent", "doubtful"}
  BY DEF place, PlaceOf, SamePlaces
<1>2. \A r \in Sessions : r # s => PlaceOf(r)' = PlaceOf(r)
  BY CallHungUp, SamePlacesSame, PlaceSame DEF SamePlaces
<1>3. place' = [place EXCEPT ![s] = PlaceOf(s)']
  BY <1>2 DEF place
<1>4. holder' = holder
  BY SamePlacesSame DEF holder
<1>. QED
  BY <1>1, <1>3, <1>4 DEF Held!Dismiss, Held!Becomes

\* A call that was to be hung up ends after all.
LEMMA CallEndingStep ==
    ASSUME TypeOK, TypeOK', SamePlaces, UNCHANGED told, NEW s \in Sessions,
           HungUp(s), HasCall(s), s \in dismissed, call[s] = "live",
           UNCHANGED dismissed
    PROVE  Held!FallSilent(s)
<1>1. call'[s] = "ended" /\ \A r \in Sessions : r # s => call'[r] = call[r]
  BY DEF HungUp, TypeOK
<1>2. place[s] = "doubtful" /\ PlaceOf(s)' = "silent"
  BY <1>1 DEF place, PlaceOf, SamePlaces
<1>3. \A r \in Sessions : r # s => PlaceOf(r)' = PlaceOf(r)
  BY <1>1, SamePlacesSame, PlaceSame DEF SamePlaces
<1>4. place' = [place EXCEPT ![s] = "silent"]
  BY <1>2, <1>3 DEF place
<1>5. holder' = holder
  BY SamePlacesSame DEF holder
<1>. QED
  BY <1>2, <1>4, <1>5 DEF Held!FallSilent, Held!Becomes

\* A call is hung up, or ends by itself.
LEMMA HangingUpStep ==
    ASSUME TypeOK, TypeOK', SamePlaces, UNCHANGED told, NEW s \in Sessions,
           HungUp(s) \/ UNCHANGED call,
           UNCHANGED dismissed \/ dismissed' = dismissed \cup {s}
    PROVE  [Held!PromiseNext]_<<place, holder, told>>
<1>1. CASE HasCall(s) /\ s \notin dismissed /\ dismissed' = dismissed \cup {s}
  BY <1>1, DismissingStep DEF Held!PromiseNext
<1>2. CASE HasCall(s) /\ s \in dismissed /\ call[s] = "live" /\ HungUp(s)
  <2>1. UNCHANGED dismissed
    BY <1>2
  <2>. QED
    BY <1>2, <2>1, CallEndingStep DEF Held!PromiseNext
<1>3. CASE /\ ~(HasCall(s) /\ s \notin dismissed /\ dismissed' = dismissed \cup {s})
           /\ ~(HasCall(s) /\ s \in dismissed /\ call[s] = "live" /\ HungUp(s))
  <2>1. ASSUME NEW r \in Sessions, HasCall(r)
        PROVE  /\ r \in dismissed' <=> r \in dismissed
               /\ r \in dismissed => call'[r] = call[r]
    BY <1>3, <2>1, CallHungUp
  <2>. QED
    BY <2>1, PlacesStay
<1>. QED
  BY <1>1, <1>2, <1>3

\* The rows of a principal are the places it holds, the other rows the
\* places held by others.
LEMMA HoldersAreOwners ==
    ASSUME Owned, NEW p \in Principals
    PROVE  /\ Held!HeldBy(p) = LeasesOf(p)
           /\ Held!HeldByOthers(p) = Leases \ LeasesOf(p)
BY NoCloserAssumption DEF Owned, Held!HeldBy, Held!HeldByOthers, holder, LeasesOf, Leases

\* A reservation.
LEMMA ReservingStep ==
    ASSUME IInv, NEW s \in Sessions, NEW p \in Principals,
           MayReserve(s, p), Reserving(s, p), UNCHANGED <<call, dismissed, told>>
    PROVE  Held!Reserve(s, p)
<1>1. TypeOK /\ Owned /\ lease[s].state = "none" /\ s \notin told
  BY DEF IInv, Admitted, MayReserve, EndedStaysEnded
<1>2. place[s] = "free"
  BY <1>1 DEF place, PlaceOf, HasCall
<1>3. \A r \in LeasesOf(p) : place[r] = "taken"
  BY DEF MayReserve, Replaceable, place, PlaceOf, HasCall, LeasesOf, Leases
<1>4. /\ lease'[s].state = "reserved" /\ lease'[s].owner = p
      /\ \A r \in Sessions : r # s =>
           lease'[r] = IF r \in LeasesOf(p) THEN NoLease ELSE lease[r]
  BY <1>1, RowsReserved
<1>5. ASSUME NEW r \in Sessions
      PROVE  PlaceOf(r)' = IF r = s THEN "taken"
                           ELSE IF r \in LeasesOf(p) THEN "free" ELSE PlaceOf(r)
  BY <1>4, <1>5 DEF PlaceOf, HasCall, NoLease
<1>6. place' = [r \in Sessions |-> IF r = s THEN "taken"
                                    ELSE IF r \in LeasesOf(p) THEN "free" ELSE place[r]]
  BY <1>5 DEF place
<1>7. holder' = [r \in Sessions |-> IF r = s THEN p
                                     ELSE IF r \in LeasesOf(p) THEN NoOne ELSE holder[r]]
  BY <1>4 DEF holder, NoLease
<1>8. Cardinality(Leases \ LeasesOf(p)) < Places
  BY DEF MayReserve
<1>9. Held!HeldBy(p) = LeasesOf(p) /\ Held!HeldByOthers(p) = Leases \ LeasesOf(p)
  BY <1>1, HoldersAreOwners
<1>10. Held!Cardinality(Held!HeldByOthers(p)) < Places
  <2>1. Held!Cardinality(Leases \ LeasesOf(p)) = Cardinality(Leases \ LeasesOf(p))
    BY DEF Held!Cardinality, Cardinality
  <2>. QED
    BY <1>8, <1>9, <2>1
<1>11. told' = told
  OBVIOUS
<1>. QED
  BY <1>1, <1>2, <1>3, <1>6, <1>7, <1>9, <1>10, <1>11 DEF Held!Reserve

\* A call is recorded on a reservation.
LEMMA RecordingStep ==
    ASSUME TypeOK, Named, NEW s \in Sessions, boot[s] = "created",
           Usable(s, "reserved"), lease' = Bound(s), UNCHANGED <<call, dismissed, told>>
    PROVE  Held!Record(s)
<1>1. RowOf(s, "bound", lease[s].owner)
  BY StateChanges DEF Bound
<1>2. place[s] = "taken"
  BY DEF Usable, place, PlaceOf, HasCall
<1>3. PlaceOf(s)' = "calling"
  BY <1>1 DEF RowOf, PlaceOf, HasCall, Named, Early
<1>4. \A r \in Sessions : r # s => PlaceOf(r)' = PlaceOf(r)
  BY <1>1 DEF RowOf, PlaceOf, HasCall
<1>5. place' = [place EXCEPT ![s] = "calling"]
  BY <1>3, <1>4 DEF place
<1>6. holder' = holder
  BY <1>1 DEF RowOf, holder
<1>. QED
  BY <1>2, <1>5, <1>6 DEF Held!Record, Held!Becomes

\* A place given back is free, or was free already.
LEMMA ReturnedStep ==
    ASSUME IInv, NEW s \in Sessions, Returned(s)
    PROVE  [Held!PromiseNext]_<<place, holder, told>>
<1>1. TypeOK /\ Owned /\ RowOf(s, "none", NoOne) /\ UNCHANGED <<call, dismissed>>
  BY RowDeleted DEF IInv, Returned
<1>2. place[s] \in {"taken", "silent", "doubtful", "free"}
  BY DEF Returned, place, PlaceOf
<1>3. PlaceOf(s)' = "free" /\ \A r \in Sessions : r # s => PlaceOf(r)' = PlaceOf(r)
  BY <1>1 DEF RowOf, PlaceOf, HasCall
<1>4. place' = [place EXCEPT ![s] = "free"]
  BY <1>3 DEF place
<1>5. holder' = [holder EXCEPT ![s] = NoOne]
  BY <1>1 DEF RowOf, holder
<1>6. CASE told' = told /\ place[s] # "free"
  BY <1>2, <1>4, <1>5, <1>6 DEF Held!GiveBack, Held!Freed, Held!PromiseNext
<1>7. CASE told' = told /\ place[s] = "free"
  <2>1. holder[s] = NoOne
    BY <1>1, <1>7 DEF Owned, TypeOK, Lease, place, PlaceOf, HasCall, holder
  <2>2. place' = place /\ holder' = holder
    BY <1>4, <1>5, <1>7, <2>1 DEF place, holder
  <2>. QED
    BY <1>7, <2>2
<1>8. CASE told' = told \cup {s}
  BY <1>2, <1>4, <1>5, <1>8 DEF Held!Close, Held!Freed, Held!PromiseNext
<1>. QED
  BY <1>6, <1>7, <1>8 DEF Returned

\* The admission keeps its promise: refinement of HeldPlace.  No more places
\* are held than there are, and a place on which a call was recorded comes
\* back only after the provider accepted to hang up that very call: whoever
\* gives it back, the request, a termination or the one that overtook it.
\* That the call ended is not promised: a place may come back doubtful.
THEOREM AdmissionKeepsPromise == Spec => PlacePromise
<1>1. Init => Held!PromiseInit
  BY DEF Init, Held!PromiseInit, place, PlaceOf, HasCall, holder, NoLease
<1>2. IInv /\ IInv' /\ [Next]_vars => [Held!PromiseNext]_<<place, holder, told>>
  <2>. SUFFICES ASSUME IInv, IInv', [Next]_vars
       PROVE  [Held!PromiseNext]_<<place, holder, told>>
    OBVIOUS
  <2>1. TypeOK /\ TypeOK' /\ Recorded /\ Named /\ Informed /\ Terminating
    BY DEF IInv
  <2>2. PlacesMove
    BY <2>1, MovesStep DEF Moves
  <2>3. CASE SamePlaces /\ CallsMove /\ UNCHANGED told
    <3>1. CASE UNCHANGED <<call, dismissed>>
      BY <2>1, <2>3, <3>1, PlacesStay
    <3>2. ASSUME NEW s \in Sessions, boot[s] = "reserved",
                 call' = [call EXCEPT ![s] = "live"], UNCHANGED dismissed
          PROVE  UNCHANGED <<place, holder, told>>
      <4>1. ~HasCall(s)
        BY <2>1, <3>2 DEF Recorded, Early
      <4>2. \A r \in Sessions : call'[r] = call[r] \/ ~HasCall(r)
        BY <2>1, <3>2, <4>1 DEF TypeOK
      <4>. QED
        BY <2>1, <2>3, <3>2, <4>2, PlacesStay
    <3>3. ASSUME NEW s \in Sessions, HungUp(s) \/ UNCHANGED call,
                 UNCHANGED dismissed \/ dismissed' = dismissed \cup {s}
          PROVE  [Held!PromiseNext]_<<place, holder, told>>
      BY <2>1, <2>3, <3>3, HangingUpStep
    <3>. QED
      BY <2>3, <3>1, <3>2, <3>3 DEF CallsMove
  <2>4. ASSUME NEW s \in Sessions, NEW p \in Principals,
               MayReserve(s, p), Reserving(s, p), UNCHANGED <<call, dismissed, told>>
        PROVE  [Held!PromiseNext]_<<place, holder, told>>
    BY <2>4, ReservingStep DEF Held!PromiseNext
  <2>5. ASSUME NEW s \in Sessions, boot[s] = "created", Usable(s, "reserved"),
               lease' = Bound(s), UNCHANGED <<call, dismissed, told>>
        PROVE  [Held!PromiseNext]_<<place, holder, told>>
    BY <2>1, <2>5, RecordingStep DEF Held!PromiseNext
  <2>6. ASSUME NEW s \in Sessions, Returned(s)
        PROVE  [Held!PromiseNext]_<<place, holder, told>>
    BY <2>6, ReturnedStep
  <2>. QED
    BY <2>2, <2>3, <2>4, <2>5, <2>6 DEF PlacesMove
<1>. QED
  BY <1>1, <1>2, AdmissionInvariance, PTL DEF Spec, PlacePromise, Held!Promise

=============================================================================
