-------------------------- MODULE OnboardingWorker --------------------------
(* The pump of the onboarding driver: workers claim queued runs, walk them    *)
(* under a lease kept by LeaseGuard, and settle the queue                     *)
(* (ops/onboarding/worker.py, ops/onboarding/lease_store.py, and the lease    *)
(* handling of drive_run in ops/onboarding/driver.py).                        *)
(*                                                                            *)
(* What a phase does is abstracted to how its step ends: the durable position *)
(* of a run is open, waiting (paused, captcha_paused) or terminal.  The walk  *)
(* itself is module OnboardingDriver.                                         *)
(*                                                                            *)
(* The code stores absolute instants and compares them with now.  The model   *)
(* stores what is left: deadline - now and not_before - now, which the        *)
(* passing of time decreases.  "deadline < now" is left < 0 and               *)
(* "not_before <= now" is wait <= 0.  Nothing tells instants further past     *)
(* than Horizon apart but their order, and the order is kept up to Horizon.   *)
EXTENDS Integers, FiniteSets

CONSTANTS
    Workers,        \* the concurrent claim_and_drive turns, in any process
    NoWorker,       \* holder IS NULL
    TTL,            \* LeaseTimings.ttl_seconds
    RenewInterval,  \* LeaseTimings.renew_interval_seconds
    Horizon,        \* how far into the past instants are told apart
    Backoff,        \* the longest deferral: WAITING_BACKOFF_SECONDS or a phase's own
    Runs,
    MaxStep,        \* the longest time between two ownership checks of one walk
    MaxClaims       \* bound: the claims of a run that may end without an outcome

\* LeaseTimings.__post_init__ and the Settings validator.
ASSUME LeaseAssumption ==
    /\ NoWorker \notin Workers
    /\ TTL \in Nat /\ RenewInterval \in Nat /\ Horizon \in Nat
    /\ RenewInterval >= 1 /\ Horizon >= 1
    /\ RenewInterval * 3 <= TTL

ASSUME BackoffAssumption == Backoff \in Nat

ASSUME WorkerAssumption == MaxStep \in Nat /\ MaxClaims \in Nat

NoRun == "no run"

ASSUME RunAssumption == NoRun \notin Runs

-----------------------------------------------------------------------------
(* The rows, and what each verb of SQLiteLeaseStore and SQLiteRunQueue does   *)
(* to one of them.  Every verb is one BEGIN IMMEDIATE transaction, so a       *)
(* caller's step applies exactly one operator atomically.                     *)

LeaseRow == [holder : Workers \cup {NoWorker}, token : Nat, left : -Horizon..TTL]

\* No row, or the row a release leaves behind: nobody holds the run.
NeverClaimed == [holder |-> NoWorker, token |-> 0, left |-> 0]

-----------------------------------------------------------------------------
(* SQLiteLeaseStore                                                           *)

\* Mutants: a live lease is claimable by anyone, or a dead worker's by nobody;
\* a claim reuses the token.
ClaimableAlways(l) == TRUE

ClaimableOnlyReleased(l) == l.holder = NoWorker

ClaimRowSameToken(l, w) == [holder |-> w, token |-> l.token, left |-> TTL]

\* The WHERE clause of _CLAIM_SQL: holder IS NULL OR deadline < now.
Claimable(l) == l.holder = NoWorker \/ l.left < 0

ClaimRow(l, w) == [holder |-> w, token |-> l.token + 1, left |-> TTL]

\* The WHERE clause of renew and release: no clock in it.
Owns(l, w, t) == l.holder = w /\ l.token = t

RenewRow(l, w, t) == IF Owns(l, w, t) THEN [l EXCEPT !.left = TTL] ELSE l

ReleaseRow(l, w, t) ==
    IF Owns(l, w, t) THEN [l EXCEPT !.holder = NoWorker, !.left = 0] ELSE l

\* holds: a holder whose deadline has not passed.
Holds(l) == l.holder # NoWorker /\ l.left >= 0

-----------------------------------------------------------------------------
(* SQLiteRunQueue.  queued says whether the row exists.                       *)

QueueRow == [queued : BOOLEAN, wait : -Horizon..Backoff]

NotQueued == [queued |-> FALSE, wait |-> 0]

\* enqueue keeps the earlier of the two ready times: MIN(not_before, excluded).
EnqueueRow(q, wait) ==
    [queued |-> TRUE,
     wait   |-> IF q.queued /\ q.wait < wait THEN q.wait ELSE wait]

\* defer sets the ready time whatever it was, and inserts a missing row.
DeferRow(q, wait) == [queued |-> TRUE, wait |-> wait]

RemoveRow(q) == NotQueued

Due(q) == q.queued /\ q.wait <= 0

\* ORDER BY COALESCE(held.deadline, queued.not_before): a released lease has a
\* NULL deadline and falls back on the ready time.
ClaimOrder(l, q) == IF l.holder = NoWorker THEN q.wait ELSE l.left

-----------------------------------------------------------------------------
(* The passing of one unit of time.                                           *)

Sooner(t) == IF t > -Horizon THEN t - 1 ELSE t

AgeLease(l) == IF l.holder = NoWorker THEN l ELSE [l EXCEPT !.left = Sooner(@)]

AgeQueue(q) == IF q.queued THEN [q EXCEPT !.wait = Sooner(@)] ELSE q

-----------------------------------------------------------------------------
(* The workers                                                                *)

VARIABLES
    lease,      \* lease[r]: the row of onboarding_leases
    queue,      \* queue[r]: the row of onboarding_queue
    life,       \* life[r]: the durable position of the run
    walk,       \* walk[w]: the turn worker w is in
    lapsed      \* history: the runs whose lease ran out under a walk still inside

vars == <<lease, queue, life, walk>>

(* pc: idle | claimed (deps_for) | top (of the drive_run loop) | step         *)
(*     (_drive_phase and the commit) | unwind (LeaseGuard.__exit__) | settle  *)
(* token, left, since, failures: the guard's lease copy, its deadline - now,  *)
(*     now - confirmed_at, and its failure count                              *)
(* busy: time since the last ownership check;  seen: the phase the walk       *)
(*     believes the run stopped at                                            *)
Idle == [pc |-> "idle", run |-> NoRun, token |-> 0, left |-> 0, since |-> 0,
         failures |-> 0, busy |-> 0, seen |-> "open"]

Life == {"absent", "open", "waiting", "terminal"}

Walk == [pc : {"idle", "claimed", "top", "step", "unwind", "settle"},
         run : Runs \cup {NoRun}, token : Nat, left : -Horizon..TTL,
         since : Nat, failures : 0..1, busy : 0..MaxStep,
         seen : Life \cup {"raised"}]

MaxRenewalFailures == 2     \* MAX_RENEWAL_FAILURES

Init ==
    /\ lease = [r \in Runs |-> NeverClaimed]
    /\ queue = [r \in Runs |-> NotQueued]
    /\ life = [r \in Runs |-> "absent"]
    /\ walk = [w \in Workers |-> Idle]
    /\ lapsed = {}

\* More trouble may still befall the run: a bound, so that behaviours end.
MoreTrouble(r) == lease[r].token < MaxClaims

\* What is left of a walk that stopped: the lease to release, what it saw.
Unwinding(k, seen) ==
    [pc |-> "unwind", run |-> k.run, token |-> k.token, left |-> 0, since |-> 0,
     failures |-> 0, busy |-> 0, seen |-> seen]

\* before_step let the walk go on; it renewed; it forgave one failed renewal.
Stepping(k) == [k EXCEPT !.pc = "step", !.busy = 0]

Renewed(k) == [k EXCEPT !.left = TTL, !.since = 0, !.failures = 0]

Forgiven(k) == [k EXCEPT !.failures = k.failures + 1]

-----------------------------------------------------------------------------
(* The API and the sweeps                                                     *)

\* _enqueue_onboarding, after the run itself is durable.
Create(r) ==
    /\ life[r] = "absent"
    /\ life' = [life EXCEPT ![r] = "open"]
    /\ queue' = [queue EXCEPT ![r] = EnqueueRow(@, 0)]
    /\ UNCHANGED <<lease, walk>>

\* _resume_onboarding_phase: the phase is committed and the queue is left alone.
OperatorResumes(r) ==
    /\ life[r] = "waiting"
    /\ life' = [life EXCEPT ![r] = "open"]
    /\ UNCHANGED <<lease, queue, walk>>

\* RunTakeoverService._continue_run: the same commit, then enqueue.
TakeoverResumes(r) ==
    /\ life[r] = "waiting"
    /\ life' = [life EXCEPT ![r] = "open"]
    /\ queue' = [queue EXCEPT ![r] = EnqueueRow(@, 0)]
    /\ UNCHANGED <<lease, walk>>

\* OnboardingRunControlService.cancel_run: no lease is taken or asked for.
OperatorCancels(r) ==
    /\ life[r] \in {"open", "waiting"}
    /\ life' = [life EXCEPT ![r] = "terminal"]
    /\ UNCHANGED <<lease, queue, walk>>

-----------------------------------------------------------------------------
(* One turn: claim_and_drive, _drive, drive_run, _settle                      *)

Candidates == {r \in Runs : Due(queue[r]) /\ Claimable(lease[r])}

\* SQLiteLeaseStore.claim_next: select and claim are one transaction.
ClaimNext(w) ==
    /\ walk[w].pc = "idle"
    /\ \E r \in Candidates :
        /\ \A s \in Candidates :
            ClaimOrder(lease[r], queue[r]) <= ClaimOrder(lease[s], queue[s])
        /\ life[r] = "waiting" => MoreTrouble(r)    \* bound on idle re-claims
        /\ lease' = [lease EXCEPT ![r] = ClaimRow(@, w)]
        /\ walk' = [walk EXCEPT ![w] =
                [pc |-> "claimed", run |-> r, token |-> lease[r].token + 1, left |-> TTL,
                 since |-> 0, failures |-> 0, busy |-> 0, seen |-> "open"]]
    /\ UNCHANGED <<queue, life>>

\* deps_for raised: the worker itself releases, and does not touch the queue.
ComposeFails(w) ==
    LET r == walk[w].run IN
    /\ walk[w].pc = "claimed"
    /\ MoreTrouble(r)
    /\ lease' = [lease EXCEPT ![r] = ReleaseRow(@, w, walk[w].token)]
    /\ walk' = [walk EXCEPT ![w] = Idle]
    /\ UNCHANGED <<queue, life>>

\* drive_run reads the history once and builds the guard, whose confirmed_at
\* is now; a run already terminal or waiting is not walked at all.
BeginDrive(w) ==
    LET r == walk[w].run IN
    /\ walk[w].pc = "claimed"
    /\ walk' = [walk EXCEPT ![w] =
            IF life[r] = "open" THEN [@ EXCEPT !.pc = "top", !.since = 0]
            ELSE Unwinding(@, life[r])]
    /\ UNCHANGED <<lease, queue, life>>

\* Reading the history, the resumption phase or the profile raised: drive_run
\* does this before it enters the guard, so nobody releases the lease.
BeginDriveRaises(w) ==
    /\ walk[w].pc = "claimed" /\ MoreTrouble(walk[w].run)
    /\ walk' = [walk EXCEPT ![w] = [Unwinding(@, "raised") EXCEPT !.pc = "settle"]]
    /\ UNCHANGED <<lease, queue, life>>

RenewalDue(w) == walk[w].since >= RenewInterval

\* Mutant: the guard goes on past its second unconfirmed renewal.
UnconfirmedGoesOn(w) ==
    /\ walk[w].pc = "top" /\ RenewalDue(w) /\ MoreTrouble(walk[w].run)
    /\ walk' = [walk EXCEPT ![w] = Stepping(@)]
    /\ UNCHANGED <<lease, queue, life>>

\* before_step, nothing to renew yet.
NotDue(w) ==
    /\ walk[w].pc = "top" /\ ~RenewalDue(w)
    /\ walk' = [walk EXCEPT ![w] = Stepping(@)]
    /\ UNCHANGED <<lease, queue, life>>

\* before_step, the renewal went through: None is a fence and stops the walk.
Renews(w) ==
    LET r == walk[w].run IN
    /\ walk[w].pc = "top" /\ RenewalDue(w)
    /\ lease' = [lease EXCEPT ![r] = RenewRow(@, w, walk[w].token)]
    /\ IF Owns(lease[r], w, walk[w].token)
       THEN walk' = [walk EXCEPT ![w] = Stepping(Renewed(@))]
       ELSE walk' = [walk EXCEPT ![w] = Unwinding(@, "open")]
    /\ UNCHANGED <<queue, life>>

\* before_step, the store raised: _unconfirmed counts it and asks the deadline.
RenewalUnconfirmed(w) ==
    /\ walk[w].pc = "top" /\ RenewalDue(w) /\ MoreTrouble(walk[w].run)
    /\ LET stop == walk[w].left <= 0 \/ walk[w].failures + 1 >= MaxRenewalFailures
       IN  walk' = [walk EXCEPT ![w] =
                IF stop THEN Unwinding(@, "open") ELSE Stepping(Forgiven(@))]
    /\ UNCHANGED <<lease, queue, life>>

\* The phase advanced and its boundary was committed, or was a replay that
\* wrote nothing.  commit_phase asks neither the lease nor the current phase.
StepAdvances(w) ==
    LET r == walk[w].run IN
    /\ walk[w].pc = "step"
    /\ \E durable \in {"open", life[r]} : life' = [life EXCEPT ![r] = durable]
    /\ walk' = [walk EXCEPT ![w].pc = "top"]
    /\ UNCHANGED <<lease, queue>>

StepWaits(w) ==
    LET r == walk[w].run IN
    /\ walk[w].pc = "step" /\ MoreTrouble(r)
    /\ life' = [life EXCEPT ![r] = "waiting"]
    /\ walk' = [walk EXCEPT ![w] = Unwinding(@, "waiting")]
    /\ UNCHANGED <<lease, queue>>

StepTerminates(w) ==
    /\ walk[w].pc = "step"
    /\ life' = [life EXCEPT ![walk[w].run] = "terminal"]
    /\ walk' = [walk EXCEPT ![w] = Unwinding(@, "terminal")]
    /\ UNCHANGED <<lease, queue>>

\* PhaseStep.yield: the driver's only queue write.
StepYields(w) ==
    LET r == walk[w].run IN
    /\ walk[w].pc = "step" /\ MoreTrouble(r)
    /\ \E wait \in 0..Backoff : queue' = [queue EXCEPT ![r] = DeferRow(@, wait)]
    /\ walk' = [walk EXCEPT ![w] = Unwinding(@, "open")]
    /\ UNCHANGED <<lease, life>>

\* An exception out of the handler or of a refused transition.
StepRaises(w) ==
    /\ walk[w].pc = "step" /\ MoreTrouble(walk[w].run)
    /\ walk' = [walk EXCEPT ![w] = Unwinding(@, "raised")]
    /\ UNCHANGED <<lease, queue, life>>

\* LeaseGuard.__exit__
Unwind(w) ==
    LET r == walk[w].run IN
    /\ walk[w].pc = "unwind"
    /\ lease' = [lease EXCEPT ![r] = ReleaseRow(@, w, walk[w].token)]
    /\ walk' = [walk EXCEPT ![w].pc = "settle"]
    /\ UNCHANGED <<queue, life>>

\* _record_autonomy_outcome raised, after the guard let the lease go.
RecordRaises(w) ==
    /\ walk[w].pc = "settle" /\ walk[w].seen = "terminal" /\ MoreTrouble(walk[w].run)
    /\ walk' = [walk EXCEPT ![w].seen = "raised"]
    /\ UNCHANGED <<lease, queue, life>>

\* _settle and the except branch of _drive: by what the walk saw, under no lease.
Settle(w) ==
    LET r == walk[w].run IN
    /\ walk[w].pc = "settle"
    /\ queue' = [queue EXCEPT ![r] =
            IF walk[w].seen = "terminal" THEN RemoveRow(@)
            ELSE IF walk[w].seen \in {"waiting", "raised"} THEN DeferRow(@, Backoff)
            ELSE @]
    /\ walk' = [walk EXCEPT ![w] = Idle]
    /\ UNCHANGED <<lease, life>>

\* The process dies wherever it is, or an exception no clause names ends the turn.
Dies(w) ==
    /\ walk[w].pc # "idle" /\ MoreTrouble(walk[w].run)
    /\ walk' = [walk EXCEPT ![w] = Idle]
    /\ UNCHANGED <<lease, queue, life>>

-----------------------------------------------------------------------------

Walking(w) == walk[w].pc \in {"claimed", "top", "step"}

AgeWalk(k) ==
    IF k.pc \in {"claimed", "top", "step"}
    THEN [k EXCEPT !.left = Sooner(@), !.busy = @ + 1,
                   !.since = IF @ < RenewInterval THEN @ + 1 ELSE @]
    ELSE k

Tick ==
    /\ \A w \in Workers : Walking(w) => walk[w].busy < MaxStep
    /\ lease' = [r \in Runs |-> AgeLease(lease[r])]
    /\ queue' = [r \in Runs |-> AgeQueue(queue[r])]
    /\ walk' = [w \in Workers |-> AgeWalk(walk[w])]
    /\ UNCHANGED life

StepEnds(w) == StepWaits(w) \/ StepTerminates(w) \/ StepYields(w) \/ StepRaises(w)

WorkerNext(w) ==
    \/ ClaimNext(w) \/ ComposeFails(w) \/ BeginDrive(w) \/ BeginDriveRaises(w)
    \/ NotDue(w) \/ Renews(w) \/ RenewalUnconfirmed(w)
    \/ StepAdvances(w) \/ StepWaits(w) \/ StepTerminates(w)
    \/ StepYields(w) \/ StepRaises(w)
    \/ Unwind(w) \/ RecordRaises(w) \/ Settle(w) \/ Dies(w)

RunNext(r) ==
    Create(r) \/ OperatorResumes(r) \/ TakeoverResumes(r) \/ OperatorCancels(r)

Next ==
    \/ \E w \in Workers : WorkerNext(w)
    \/ \E r \in Runs : RunNext(r)
    \/ Tick

(* The code keeps no account of leases that ran out under a walk: nothing     *)
(* reads lapsed but the properties.                                           *)
Outlived(w) == Walking(w) /\ walk[w].left < 0

Watch == lapsed' = lapsed \cup {walk'[w].run : w \in {v \in Workers : Outlived(v)'}}

Spec == Init /\ [][Next /\ Watch]_<<vars, lapsed>>

(* Fairness.  The polling thread claims whenever there is something to claim  *)
(* and runs its own code to the end (weak fairness).  Strong fairness where   *)
(* a retry can intervene: composition succeeds if tried for ever (it fails    *)
(* only while the deployment lacks a port), and a walk ends if it keeps       *)
(* stepping (the phase table is finite and every ladder in it is bounded).    *)
Fairness ==
    /\ WF_vars(Tick)
    /\ \A w \in Workers :
        /\ WF_vars(ClaimNext(w)) /\ SF_vars(BeginDrive(w))
        /\ WF_vars(NotDue(w)) /\ WF_vars(Renews(w)) /\ SF_vars(StepEnds(w))
        /\ WF_vars(Unwind(w)) /\ WF_vars(Settle(w))

FairSpec == Spec /\ Fairness

-----------------------------------------------------------------------------
(* Properties                                                                 *)

\* Rows and walks stay in their domains; a run that was created keeps a queue
\* row of the right shape.
TypeOK ==
    /\ lease \in [Runs -> LeaseRow]
    /\ queue \in [Runs -> QueueRow]
    /\ life \in [Runs -> Life]
    /\ walk \in [Workers -> Walk]

\* LeaseStore.claim: "two workers never both believe they own a run" while the
\* deadline each of them was given lies in the future.
OneLiveWalk ==
    \A v, w \in Workers :
        (v # w /\ Walking(v) /\ Walking(w) /\ walk[v].run = walk[w].run)
            => walk[v].left < 0 \/ walk[w].left < 0

\* ops/onboarding/lease.py: "a run is driven by exactly one worker at a time",
\* a paused process that wakes up included.
OneDriver ==
    \A v, w \in Workers :
        (walk[v].pc = "step" /\ walk[w].pc = "step" /\ walk[v].run = walk[w].run) => v = w

\* No step runs past the lease that covers it: the first walk of a claim may
\* have spent one step before its guard, another before the renewal it finds
\* due, and a third under the one unconfirmed renewal that is forgiven.
TimelySteps == RenewInterval + 3 * MaxStep <= TTL + 1

\* drive_run I1: a walk performs a phase's effects only as the owner of its run, to
\* whom the store would renew the lease and beside whom nobody may claim it, for as
\* long as the deadline it was given lies ahead, whatever happened to its lease, its
\* renewals and the other workers in between; and under timely steps it always does.
OwnerActs ==
    /\ \A w \in Workers :
        (walk[w].pc = "step" /\ walk[w].left >= 0) =>
            Owns(lease[walk[w].run], w, walk[w].token) /\ Holds(lease[walk[w].run])
    /\ TimelySteps => lapsed = {}

\* RunQueue.dequeue_candidates: "a candidate stays queued until the run is
\* terminal", whoever dies, yields, is fenced or settles late, unless a walk of that
\* very run outlived its lease.
UnfinishedRunStaysQueued ==
    \A r \in Runs \ lapsed : life[r] \in {"open", "waiting"} => queue[r].queued

\* Once a run is over its queue row goes away, whatever late deferral of a slow
\* worker put it back in the meantime.
FinishedRunLeavesQueue ==
    \A r \in Runs : (life[r] = "terminal") ~> (life[r] = "terminal" => ~queue[r].queued)

\* A run that is due does not wait for ever behind the others.
DueRunIsWalked ==
    \A r \in Runs :
        (Due(queue[r]) /\ life[r] = "open")
            ~> (life[r] # "open" \/ \E w \in Workers : walk[w].run = r)

\* The lease rows implement fenced ownership: whatever the workers and the
\* clock do, the run changes hands only under a larger token, and only while
\* nobody holds it.
Fenced == INSTANCE FencedLease WITH
    grantee <- [r \in Runs |-> lease[r].holder],
    epoch <- [r \in Runs |-> lease[r].token],
    live <- [r \in Runs |-> Holds(lease[r])]

ImplementsFencedLease == Fenced!Spec

=============================================================================
