---------------------------- MODULE AgentProofs -----------------------------
(* Proofs about who walks a run, and about what acts on a vendor's page while *)
(* it is walked.  The worker (OnboardingWorker) is proved for any set of      *)
(* workers and runs, any lease timings LeaseTimings accepts and any bounds.   *)
(* The loops its steps enter (MCBrowserAgent) are the drive of a reviewed     *)
(* trace (TraceLoop), the signup form (SignupForm), the onboarding action     *)
(* loop (ActionLoop) and one round of candidates (ActionCandidates): each has *)
(* an inductive invariant of its own, and a behaviour of MCSpec is one of the *)
(* four.                                                                      *)
EXTENDS OnboardingWorker, MCBrowserAgent, TLAPS, FiniteSetTheorems, SequenceTheorems,
        NaturalsInduction, WellFoundedInduction

-----------------------------------------------------------------------------
(* OnboardingWorker                                                          *)

(* The inductive invariant behind ownership                                   *)

\* A turn that has begun is a turn of some run, under a token that was issued.
TurnHasRun ==
    \A w \in Workers : walk[w].pc # "idle" =>
        walk[w].run \in Runs /\ walk[w].token <= lease[walk[w].run].token

\* No two turns of one run have the same token.
TokensDiffer ==
    \A v, w \in Workers :
        (v # w /\ walk[v].pc # "idle" /\ walk[w].pc # "idle" /\ walk[v].run = walk[w].run)
            => walk[v].token # walk[w].token

\* A walk whose token is the stored one holds the row, and its copy of the
\* deadline is the stored deadline.
CurrentHolds ==
    \A w \in Workers :
        (Walking(w) /\ walk[w].token = lease[walk[w].run].token)
            => /\ lease[walk[w].run].holder = w
               /\ lease[walk[w].run].left = walk[w].left

\* A walk that was superseded has outlived the deadline it was given.
SupersededLapsed ==
    \A w \in Workers :
        (Walking(w) /\ walk[w].token # lease[walk[w].run].token) => walk[w].left < 0

Ownership == TypeOK /\ TurnHasRun /\ TokensDiffer /\ CurrentHolds /\ SupersededLapsed

-----------------------------------------------------------------------------

LEMMA Bounds ==
    /\ 0 \in -Horizon..TTL /\ TTL \in -Horizon..TTL
    /\ 0 \in 0..MaxStep /\ 0 \in -Horizon..Backoff /\ Backoff \in 0..Backoff
    /\ \A b \in 0..Backoff : b \in -Horizon..Backoff
BY LeaseAssumption, BackoffAssumption, WorkerAssumption
   DEF LeaseAssumption, BackoffAssumption, WorkerAssumption

LEMMA IdleType == Idle \in Walk
BY Bounds DEF Idle, Walk, Life

LEMMA InitOwnership == Init => Ownership
<1>1. NeverClaimed \in LeaseRow /\ NotQueued \in QueueRow
  BY Bounds DEF NeverClaimed, NotQueued, LeaseRow, QueueRow
<1>2. Idle.pc = "idle"
  BY DEF Idle
<1>3. QED
  BY <1>1, <1>2, IdleType DEF Init, Ownership, TypeOK, TurnHasRun, TokensDiffer,
       CurrentHolds, SupersededLapsed, Life, Walking

\* What is left of a walk that stopped is a walk record that no longer walks.
LEMMA UnwindingType ==
    ASSUME NEW k \in Walk, NEW s \in Life \cup {"raised"}
    PROVE  /\ Unwinding(k, s) \in Walk
           /\ Unwinding(k, s).pc = "unwind"
           /\ Unwinding(k, s).run = k.run
           /\ Unwinding(k, s).token = k.token
           /\ Unwinding(k, s).seen = s
<1>1. k.run \in Runs \cup {NoRun} /\ k.token \in Nat
  BY DEF Walk
<1>2. Unwinding(k, s) \in Walk
  BY <1>1, Bounds DEF Unwinding, Walk
<1>3. QED
  BY <1>2 DEF Unwinding

\* The verbs of the stores map rows to rows.
LEMMA LeaseRowType ==
    ASSUME NEW l \in LeaseRow, NEW w \in Workers, NEW t \in Nat
    PROVE  /\ ClaimRow(l, w) \in LeaseRow
           /\ RenewRow(l, w, t) \in LeaseRow
           /\ ReleaseRow(l, w, t) \in LeaseRow
<1>1. ClaimRow(l, w) \in LeaseRow
  BY Bounds DEF ClaimRow, LeaseRow
<1>2. RenewRow(l, w, t) \in LeaseRow
  BY Bounds DEF RenewRow, LeaseRow
<1>3. ReleaseRow(l, w, t) \in LeaseRow
  BY Bounds DEF ReleaseRow, LeaseRow
<1>4. QED
  BY <1>1, <1>2, <1>3

LEMMA QueueRowType ==
    ASSUME NEW q \in QueueRow, NEW b \in 0..Backoff
    PROVE  /\ EnqueueRow(q, b) \in QueueRow /\ EnqueueRow(q, b).queued
           /\ DeferRow(q, b) \in QueueRow /\ DeferRow(q, b).queued
           /\ RemoveRow(q) \in QueueRow
<1>1. q.wait \in -Horizon..Backoff /\ b \in -Horizon..Backoff
  BY Bounds DEF QueueRow
<1>2. QED
  BY <1>1, Bounds DEF EnqueueRow, DeferRow, RemoveRow, NotQueued, QueueRow

\* Time moves a deadline by one unit, down to the horizon.
LEMMA SoonerType ==
    ASSUME NEW top \in Int, NEW t \in -Horizon..top
    PROVE  /\ Sooner(t) \in -Horizon..top
           /\ t < 0 => Sooner(t) < 0
           /\ t >= 0 => Sooner(t) = t - 1
BY LeaseAssumption DEF LeaseAssumption, Sooner

LEMMA AgeRowType ==
    ASSUME NEW l \in LeaseRow, NEW q \in QueueRow
    PROVE  /\ AgeLease(l) \in LeaseRow
           /\ AgeLease(l).holder = l.holder /\ AgeLease(l).token = l.token
           /\ l.holder # NoWorker => AgeLease(l).left = Sooner(l.left)
           /\ AgeQueue(q) \in QueueRow
           /\ AgeQueue(q).queued = q.queued
<1>1. Sooner(l.left) \in -Horizon..TTL
  BY SoonerType, LeaseAssumption DEF LeaseAssumption, LeaseRow
<1>2. Sooner(q.wait) \in -Horizon..Backoff
  BY SoonerType, BackoffAssumption DEF BackoffAssumption, QueueRow
<1>3. AgeLease(l) \in LeaseRow
  BY <1>1 DEF AgeLease, LeaseRow
<1>4. AgeQueue(q) \in QueueRow
  BY <1>2 DEF AgeQueue, QueueRow
<1>5. QED
  BY <1>3, <1>4 DEF AgeLease, AgeQueue, LeaseRow, QueueRow

\* Time leaves a walk where it is and costs it one unit of its lease.
LEMMA AgeWalkType ==
    ASSUME NEW k \in Walk, k.pc \in {"claimed", "top", "step"} => k.busy < MaxStep
    PROVE  /\ AgeWalk(k) \in Walk
           /\ AgeWalk(k).pc = k.pc /\ AgeWalk(k).run = k.run /\ AgeWalk(k).token = k.token
           /\ AgeWalk(k).seen = k.seen /\ AgeWalk(k).failures = k.failures
           /\ k.pc \in {"claimed", "top", "step"} =>
                /\ AgeWalk(k).left = Sooner(k.left)
                /\ AgeWalk(k).busy = k.busy + 1
                /\ AgeWalk(k).since = IF k.since < RenewInterval THEN k.since + 1 ELSE k.since
<1>1. Sooner(k.left) \in -Horizon..TTL
  BY SoonerType, LeaseAssumption DEF LeaseAssumption, Walk
<1>2. k.pc \in {"claimed", "top", "step"} => k.busy + 1 \in 0..MaxStep
  BY WorkerAssumption DEF WorkerAssumption, Walk
<1>3. (IF k.since < RenewInterval THEN k.since + 1 ELSE k.since) \in Nat
  BY LeaseAssumption DEF LeaseAssumption, Walk
<1>4. AgeWalk(k) \in Walk
  BY <1>1, <1>2, <1>3 DEF AgeWalk, Walk
<1>5. QED
  BY <1>4 DEF AgeWalk, Walk

-----------------------------------------------------------------------------
(* Every step keeps the types                                                 *)

\* The three ways a turn is rewritten in place.
LEMMA WalkTypes ==
    ASSUME NEW k \in Walk
    PROVE  /\ Stepping(k) \in Walk
           /\ [k EXCEPT !.pc = "top"] \in Walk
           /\ [k EXCEPT !.pc = "top", !.since = 0] \in Walk
           /\ [k EXCEPT !.pc = "settle"] \in Walk
           /\ [k EXCEPT !.seen = "raised"] \in Walk
           /\ Renewed(k) \in Walk
           /\ k.failures + 1 < MaxRenewalFailures => Forgiven(k) \in Walk
<1>1. Stepping(k) \in Walk
  BY Bounds DEF Stepping, Walk
<1>2. /\ [k EXCEPT !.pc = "top"] \in Walk
      /\ [k EXCEPT !.pc = "top", !.since = 0] \in Walk
      /\ [k EXCEPT !.pc = "settle"] \in Walk
  BY DEF Walk
<1>3. [k EXCEPT !.seen = "raised"] \in Walk
  BY DEF Walk
<1>4. Renewed(k) \in Walk
  <2>1. \A a \in -Horizon..TTL, b \in Nat, c \in 0..1 :
            [k EXCEPT !.left = a, !.since = b, !.failures = c] \in Walk
    BY DEF Walk
  <2>2. TTL \in -Horizon..TTL /\ 0 \in Nat /\ 0 \in 0..1
    BY Bounds
  <2>3. QED
    BY <2>1, <2>2, Zenon DEF Renewed
<1>5. ASSUME k.failures + 1 < MaxRenewalFailures
      PROVE  Forgiven(k) \in Walk
  <2>1. k.failures + 1 \in 0..1
    BY <1>5 DEF MaxRenewalFailures, Walk
  <2>2. QED
    BY <2>1 DEF Forgiven, Walk
<1>6. QED
  BY <1>1, <1>2, <1>3, <1>4, <1>5

LEMMA TypeStep == TypeOK /\ TurnHasRun /\ [Next]_vars => TypeOK'
<1> SUFFICES ASSUME TypeOK, TurnHasRun, [Next]_vars
             PROVE  TypeOK'
  OBVIOUS
<1> USE DEF TypeOK
<1>w. ASSUME NEW w \in Workers, walk[w].pc # "idle"
      PROVE  /\ walk[w] \in Walk /\ walk[w].run \in Runs /\ walk[w].token \in Nat
             /\ lease[walk[w].run] \in LeaseRow /\ queue[walk[w].run] \in QueueRow
             /\ life[walk[w].run] \in Life
  BY <1>w DEF TurnHasRun, Walk
<1>1. ASSUME NEW r \in Runs, Create(r)
      PROVE  TypeOK'
  BY <1>1, QueueRowType, BackoffAssumption DEF BackoffAssumption, Create, Life
<1>2. ASSUME NEW r \in Runs, OperatorResumes(r) \/ OperatorCancels(r)
      PROVE  TypeOK'
  BY <1>2 DEF OperatorResumes, OperatorCancels, Life
<1>3. ASSUME NEW r \in Runs, TakeoverResumes(r)
      PROVE  TypeOK'
  <2>1. EnqueueRow(queue[r], 0) \in QueueRow
    <3>1. queue[r] \in QueueRow /\ 0 \in 0..Backoff
      BY Bounds, BackoffAssumption DEF BackoffAssumption
    <3>2. QED
      BY <3>1, QueueRowType
  <2>2. QED
    BY <1>3, <2>1 DEF TakeoverResumes, Life
<1>4. ASSUME NEW w \in Workers, ClaimNext(w)
      PROVE  TypeOK'
  <2>1. PICK r \in Runs :
          /\ lease' = [lease EXCEPT ![r] = ClaimRow(@, w)]
          /\ walk' = [walk EXCEPT ![w] =
                [pc |-> "claimed", run |-> r, token |-> lease[r].token + 1, left |-> TTL,
                 since |-> 0, failures |-> 0, busy |-> 0, seen |-> "open"]]
    BY <1>4 DEF ClaimNext, Candidates
  <2>2. lease[r] \in LeaseRow /\ lease[r].token + 1 \in Nat
    BY DEF LeaseRow
  <2>3. [pc |-> "claimed", run |-> r, token |-> lease[r].token + 1, left |-> TTL,
         since |-> 0, failures |-> 0, busy |-> 0, seen |-> "open"] \in Walk
    BY <2>2, Bounds DEF Walk, Life
  <2>4. ClaimRow(lease[r], w) \in LeaseRow
    BY <2>2, LeaseRowType
  <2>5. QED
    BY <1>4, <2>1, <2>3, <2>4 DEF ClaimNext
<1>5. ASSUME NEW w \in Workers, ComposeFails(w)
      PROVE  TypeOK'
  BY <1>5, <1>w, LeaseRowType, IdleType DEF ComposeFails
<1>6. ASSUME NEW w \in Workers, BeginDrive(w)
      PROVE  TypeOK'
  BY <1>6, <1>w, WalkTypes, UnwindingType DEF BeginDrive
<1>7. ASSUME NEW w \in Workers, BeginDriveRaises(w)
      PROVE  TypeOK'
  <2>1. Unwinding(walk[w], "raised") \in Walk
    BY <1>7, UnwindingType DEF BeginDriveRaises
  <2>2. [Unwinding(walk[w], "raised") EXCEPT !.pc = "settle"] \in Walk
    BY <2>1, WalkTypes
  <2>3. QED
    BY <1>7, <2>2 DEF BeginDriveRaises
<1>8. ASSUME NEW w \in Workers, NotDue(w)
      PROVE  TypeOK'
  BY <1>8, WalkTypes DEF NotDue
<1>9. ASSUME NEW w \in Workers, Renews(w)
      PROVE  TypeOK'
  <2>1. lease' \in [Runs -> LeaseRow]
    BY <1>9, <1>w, LeaseRowType DEF Renews
  <2>2. /\ Unwinding(walk[w], "open") \in Walk
        /\ Stepping(Renewed(walk[w])) \in Walk
    BY WalkTypes, UnwindingType DEF Life
  <2>3. QED
    BY <1>9, <2>1, <2>2 DEF Renews
<1>10. ASSUME NEW w \in Workers, RenewalUnconfirmed(w)
       PROVE  TypeOK'
  <2>1. Unwinding(walk[w], "open") \in Walk
    BY UnwindingType DEF Life
  <2>2. walk[w].failures + 1 < MaxRenewalFailures
          => Stepping(Forgiven(walk[w])) \in Walk
    BY WalkTypes
  <2>3. walk[w].failures + 1 < MaxRenewalFailures \/ walk[w].failures + 1 >= MaxRenewalFailures
    BY DEF Walk, MaxRenewalFailures
  <2>4. \/ walk' = [walk EXCEPT ![w] = Unwinding(walk[w], "open")]
        \/ /\ walk[w].failures + 1 < MaxRenewalFailures
           /\ walk' = [walk EXCEPT ![w] = Stepping(Forgiven(walk[w]))]
    BY <1>10, <2>3, Zenon DEF RenewalUnconfirmed
  <2>5. QED
    BY <1>10, <2>1, <2>2, <2>4 DEF RenewalUnconfirmed
<1>11. ASSUME NEW w \in Workers, StepAdvances(w)
       PROVE  TypeOK'
  BY <1>11, <1>w, WalkTypes DEF StepAdvances, Life
<1>12. ASSUME NEW w \in Workers,
              StepWaits(w) \/ StepTerminates(w) \/ StepRaises(w)
       PROVE  TypeOK'
  BY <1>12, <1>w, UnwindingType DEF StepWaits, StepTerminates, StepRaises, Life
<1>13. ASSUME NEW w \in Workers, StepYields(w)
       PROVE  TypeOK'
  <2>1. Unwinding(walk[w], "open") \in Walk
    BY UnwindingType DEF Life
  <2>2. \A b \in 0..Backoff : DeferRow(queue[walk[w].run], b) \in QueueRow
    BY <1>13, <1>w, QueueRowType DEF StepYields
  <2>3. QED
    BY <1>13, <1>w, <2>1, <2>2 DEF StepYields
<1>14. ASSUME NEW w \in Workers, Unwind(w)
       PROVE  TypeOK'
  BY <1>14, <1>w, WalkTypes, LeaseRowType DEF Unwind
<1>15. ASSUME NEW w \in Workers, RecordRaises(w)
       PROVE  TypeOK'
  BY <1>15, <1>w, WalkTypes DEF RecordRaises
<1>16. ASSUME NEW w \in Workers, Settle(w)
       PROVE  TypeOK'
  BY <1>16, <1>w, IdleType, QueueRowType, Bounds DEF Settle
<1>17. ASSUME NEW w \in Workers, Dies(w)
       PROVE  TypeOK'
  BY <1>17, IdleType DEF Dies
<1>18. ASSUME Tick
       PROVE  TypeOK'
  <2>1. \A w \in Workers : AgeWalk(walk[w]) \in Walk
    BY <1>18, AgeWalkType DEF Tick, Walking
  <2>2. QED
    BY <1>18, <2>1, AgeRowType DEF Tick
<1>19. CASE UNCHANGED vars
  BY <1>19 DEF vars
<1>20. QED
  BY <1>1, <1>2, <1>3, <1>4, <1>5, <1>6, <1>7, <1>8, <1>9, <1>10, <1>11, <1>12, <1>13,
     <1>14, <1>15, <1>16, <1>17, <1>18, <1>19 DEF Next, WorkerNext, RunNext

-----------------------------------------------------------------------------
(* Every step keeps ownership                                                 *)

Walks(k) == k.pc \in {"claimed", "top", "step"}

\* A turn changes in place, or ends, and touches the row at most to release it.
LEMMA InPlace ==
    ASSUME Ownership, TypeOK', NEW w \in Workers, NEW k, walk[w].pc # "idle",
           walk' = [walk EXCEPT ![w] = k],
           \/ k.pc = "idle"
           \/ /\ k.run = walk[w].run /\ k.token = walk[w].token
              /\ Walks(k) => Walks(walk[w]) /\ k.left = walk[w].left,
           \/ lease' = lease
           \/ /\ ~Walks(k)
              /\ lease' = [lease EXCEPT ![walk[w].run] = ReleaseRow(@, w, walk[w].token)]
    PROVE  Ownership'
<1> DEFINE r == walk[w].run
<1>1. r \in Runs /\ lease[r] \in LeaseRow /\ lease'[r] \in LeaseRow
  BY DEF Ownership, TypeOK, TurnHasRun
<1>2. walk'[w] = k /\ \A v \in Workers \ {w} : walk'[v] = walk[v]
  BY DEF Ownership, TypeOK
<1>3. \A s \in Runs : lease'[s].token = lease[s].token /\ (s # r => lease'[s] = lease[s])
  <2>1. ReleaseRow(lease[r], w, walk[w].token).token = lease[r].token
    BY <1>1 DEF ReleaseRow, LeaseRow
  <2>2. QED
    BY <1>1, <2>1 DEF Ownership, TypeOK
<1>4. lease'[r] # lease[r] => ~Walks(k) /\ lease[r].token = walk[w].token
  BY <1>1 DEF Ownership, TypeOK, ReleaseRow, Owns, LeaseRow
<1>5. TurnHasRun'
  BY <1>2, <1>3 DEF Ownership, TurnHasRun
<1>6. TokensDiffer'
  BY <1>2 DEF Ownership, TokensDiffer
<1>7. CurrentHolds'
  <2> SUFFICES ASSUME NEW v \in Workers, Walking(v)', (walk[v].token = lease[walk[v].run].token)'
               PROVE  (/\ lease[walk[v].run].holder = v
                       /\ lease[walk[v].run].left = walk[v].left)'
    BY DEF CurrentHolds
  <2>0. walk'[v].run \in Runs
    BY <1>5 DEF TurnHasRun, Walking
  <2>1. CASE v = w
    <3>1. lease'[r] = lease[r]
      BY <1>2, <1>4, <2>1 DEF Walking, Walks
    <3>2. Walking(w) /\ k.run = r /\ k.left = walk[w].left /\ k.token = walk[w].token
      BY <1>2, <2>1 DEF Walking, Walks
    <3>3. QED
      BY <1>2, <2>1, <3>1, <3>2 DEF Ownership, CurrentHolds
  <2>2. CASE v # w
    <3>1. walk'[v] = walk[v] /\ Walking(v)
      BY <1>2, <2>2 DEF Walking
    <3>2. walk[v].token = lease[walk[v].run].token
      BY <1>3, <2>0, <3>1
    <3>3. walk[v].run = r => lease'[r] = lease[r]
      BY <1>4, <2>2, <3>1, <3>2 DEF Ownership, TokensDiffer, Walking
    <3>4. lease'[walk[v].run] = lease[walk[v].run]
      BY <1>3, <2>0, <3>1, <3>3
    <3>5. QED
      BY <3>1, <3>2, <3>4 DEF Ownership, CurrentHolds
  <2>3. QED
    BY <2>1, <2>2
<1>8. SupersededLapsed'
  <2> SUFFICES ASSUME NEW v \in Workers, Walking(v)', (walk[v].token # lease[walk[v].run].token)'
               PROVE  walk'[v].left < 0
    BY DEF SupersededLapsed
  <2>1. walk'[v].run \in Runs
    BY <1>5 DEF TurnHasRun, Walking
  <2>2. /\ Walking(v) /\ walk'[v].run = walk[v].run
        /\ walk'[v].token = walk[v].token /\ walk'[v].left = walk[v].left
    BY <1>2 DEF Walking, Walks
  <2>3. QED
    BY <1>3, <2>1, <2>2 DEF Ownership, SupersededLapsed
<1>9. QED
  BY <1>5, <1>6, <1>7, <1>8 DEF Ownership

LEMMA ClaimOwnership ==
    ASSUME Ownership, TypeOK', NEW w \in Workers, ClaimNext(w)
    PROVE  Ownership'
<1>1. PICK r \in Runs :
        /\ Claimable(lease[r])
        /\ lease' = [lease EXCEPT ![r] = ClaimRow(@, w)]
        /\ walk' = [walk EXCEPT ![w] =
                [pc |-> "claimed", run |-> r, token |-> lease[r].token + 1, left |-> TTL,
                 since |-> 0, failures |-> 0, busy |-> 0, seen |-> "open"]]
  BY DEF ClaimNext, Candidates
<1>2. /\ walk'[w].pc = "claimed" /\ walk'[w].run = r /\ walk'[w].left = TTL
      /\ walk'[w].token = lease[r].token + 1
      /\ \A v \in Workers \ {w} : walk'[v] = walk[v]
  BY <1>1 DEF Ownership, TypeOK
<1>3. /\ lease'[r].holder = w /\ lease'[r].left = TTL
      /\ lease'[r].token = lease[r].token + 1 /\ lease[r].token \in Nat
      /\ \A s \in Runs \ {r} : lease'[s] = lease[s]
  BY <1>1 DEF Ownership, TypeOK, ClaimRow, LeaseRow
<1>4. \A v \in Workers : walk[v].token \in Nat /\ walk[v].left \in Int
  BY DEF Ownership, TypeOK, Walk
<1>5. TurnHasRun'
  BY <1>2, <1>3, <1>4 DEF Ownership, TurnHasRun
<1>6. TokensDiffer'
  <2>1. \A v \in Workers : (walk[v].pc # "idle" /\ walk[v].run = r)
                              => walk[v].token # lease[r].token + 1
    BY <1>3, <1>4 DEF Ownership, TurnHasRun
  <2>2. QED
    BY <1>2, <2>1 DEF Ownership, TokensDiffer
<1>7. \A v \in Workers \ {w} :
        (Walking(v) /\ walk[v].run = r /\ walk[v].token = lease[r].token) => walk[v].left < 0
  BY <1>1, LeaseAssumption DEF LeaseAssumption, Ownership, CurrentHolds, Claimable
<1>8. CurrentHolds'
  <2> SUFFICES ASSUME NEW v \in Workers, Walking(v)', (walk[v].token = lease[walk[v].run].token)'
               PROVE  (/\ lease[walk[v].run].holder = v
                       /\ lease[walk[v].run].left = walk[v].left)'
    BY DEF CurrentHolds
  <2>1. CASE v = w
    BY <1>2, <1>3, <2>1
  <2>2. CASE v # w
    <3>1. walk'[v] = walk[v] /\ Walking(v) /\ walk[v].run \in Runs
      BY <1>2, <1>5, <2>2 DEF Walking, TurnHasRun
    <3>2. walk[v].run # r
      BY <1>3, <1>4, <3>1 DEF Ownership, TurnHasRun, Walking
    <3>3. QED
      BY <1>3, <3>1, <3>2 DEF Ownership, CurrentHolds
  <2>3. QED
    BY <2>1, <2>2
<1>9. SupersededLapsed'
  <2> SUFFICES ASSUME NEW v \in Workers, Walking(v)', (walk[v].token # lease[walk[v].run].token)'
               PROVE  walk'[v].left < 0
    BY DEF SupersededLapsed
  <2>1. v # w
    BY <1>2, <1>3
  <2>2. walk'[v] = walk[v] /\ Walking(v) /\ walk[v].run \in Runs
    BY <1>2, <1>5, <2>1 DEF Walking, TurnHasRun
  <2>3. CASE walk[v].run = r
    BY <1>7, <2>1, <2>2, <2>3 DEF Ownership, SupersededLapsed
  <2>4. CASE walk[v].run # r
    BY <1>3, <2>2, <2>4 DEF Ownership, SupersededLapsed
  <2>5. QED
    BY <2>3, <2>4
<1>10. QED
  BY <1>5, <1>6, <1>8, <1>9 DEF Ownership

\* A renewal moves the deadline of the row and of the walk together, or finds
\* the row under another token and changes nothing.
LEMMA RenewOwnership ==
    ASSUME Ownership, TypeOK', NEW w \in Workers, Renews(w)
    PROVE  Ownership'
<1> DEFINE r == walk[w].run
<1>0. /\ walk[w].pc = "top" /\ Walking(w) /\ r \in Runs /\ lease[r] \in LeaseRow
      /\ walk[w] \in Walk
  BY DEF Renews, Ownership, TypeOK, TurnHasRun, Walking
<1>1. CASE Owns(lease[r], w, walk[w].token)
  <2>1. /\ lease' = [lease EXCEPT ![r] = [lease[r] EXCEPT !.left = TTL]]
        /\ walk' = [walk EXCEPT ![w] = Stepping(Renewed(walk[w]))]
    BY <1>1 DEF Renews, RenewRow
  <2>2. /\ walk'[w].pc = "step" /\ walk'[w].run = r /\ walk'[w].left = TTL
        /\ walk'[w].token = walk[w].token
        /\ \A v \in Workers \ {w} : walk'[v] = walk[v]
    BY <1>0, <2>1 DEF Ownership, TypeOK, Stepping, Renewed, Walk
  <2>3. /\ lease'[r].holder = w /\ lease'[r].left = TTL
        /\ lease'[r].token = walk[w].token /\ lease[r].token = walk[w].token
        /\ \A s \in Runs \ {r} : lease'[s] = lease[s]
    BY <1>0, <1>1, <2>1 DEF Ownership, TypeOK, LeaseRow, Owns
  <2>4. TurnHasRun'
    BY <1>0, <2>2, <2>3 DEF Ownership, TurnHasRun
  <2>5. TokensDiffer'
    BY <1>0, <2>2 DEF Ownership, TokensDiffer
  <2>6. ASSUME NEW v \in Workers \ {w}, Walking(v)'
        PROVE  /\ walk'[v] = walk[v] /\ Walking(v) /\ walk[v].run \in Runs
               /\ walk[v].run = r => walk[v].token # lease[r].token
               /\ walk[v].run # r => lease'[walk[v].run] = lease[walk[v].run]
    <3>1. walk'[v] = walk[v] /\ Walking(v) /\ walk[v].run \in Runs
      BY <2>2, <2>4, <2>6 DEF Walking, TurnHasRun
    <3>2. walk[v].run = r => walk[v].token # walk[w].token
      BY <1>0, <3>1 DEF Ownership, TokensDiffer, Walking
    <3>3. QED
      BY <2>3, <3>1, <3>2
  <2>7. CurrentHolds'
    BY <2>2, <2>3, <2>6 DEF Ownership, CurrentHolds, Walking
  <2>8. SupersededLapsed'
    BY <2>2, <2>3, <2>6 DEF Ownership, SupersededLapsed, Walking
  <2>9. QED
    BY <2>4, <2>5, <2>7, <2>8 DEF Ownership
<1>2. CASE ~Owns(lease[r], w, walk[w].token)
  <2>1. walk' = [walk EXCEPT ![w] = Unwinding(walk[w], "open")]
    BY <1>2 DEF Renews
  <2>2. lease' = lease
    BY <1>0, <1>2 DEF Renews, RenewRow, Ownership, TypeOK
  <2>3. /\ Unwinding(walk[w], "open").run = r /\ Unwinding(walk[w], "open").token = walk[w].token
        /\ ~Walks(Unwinding(walk[w], "open"))
    BY DEF Unwinding, Walks
  <2>4. QED
    BY <1>0, <2>1, <2>2, <2>3, InPlace
<1>3. QED
  BY <1>1, <1>2

\* Time passes for the row and for the walk alike.
LEMMA TickOwnership ==
    ASSUME Ownership, TypeOK', Tick
    PROVE  Ownership'
<1>1. \A v \in Workers :
        /\ walk'[v].pc = walk[v].pc /\ walk'[v].run = walk[v].run
        /\ walk'[v].token = walk[v].token
        /\ Walking(v) => walk'[v].left = Sooner(walk[v].left)
  <2> SUFFICES ASSUME NEW v \in Workers
               PROVE  /\ walk'[v].pc = walk[v].pc /\ walk'[v].run = walk[v].run
                      /\ walk'[v].token = walk[v].token
                      /\ Walking(v) => walk'[v].left = Sooner(walk[v].left)
    OBVIOUS
  <2>1. walk[v] \in Walk /\ walk'[v] = AgeWalk(walk[v])
    BY DEF Tick, Ownership, TypeOK
  <2>2. walk[v].pc \in {"claimed", "top", "step"} => walk[v].busy < MaxStep
    BY DEF Tick, Walking
  <2>3. QED
    BY <2>1, <2>2, AgeWalkType DEF Walking
<1>2. \A s \in Runs :
        /\ lease'[s].holder = lease[s].holder /\ lease'[s].token = lease[s].token
        /\ lease[s].holder # NoWorker => lease'[s].left = Sooner(lease[s].left)
  BY AgeRowType DEF Tick, Ownership, TypeOK
<1>3. \A v \in Workers : Walking(v)' <=> Walking(v)
  BY <1>1 DEF Walking
<1>4. TurnHasRun'
  BY <1>1, <1>2 DEF Ownership, TurnHasRun
<1>5. TokensDiffer'
  BY <1>1 DEF Ownership, TokensDiffer
<1>6. CurrentHolds'
  <2> SUFFICES ASSUME NEW v \in Workers, Walking(v), (walk[v].token = lease[walk[v].run].token)'
               PROVE  (/\ lease[walk[v].run].holder = v
                       /\ lease[walk[v].run].left = walk[v].left)'
    BY <1>3 DEF CurrentHolds
  <2>1. walk[v].run \in Runs
    BY DEF Ownership, TurnHasRun, Walking
  <2>2. lease[walk[v].run].holder = v /\ lease[walk[v].run].left = walk[v].left
    BY <1>1, <1>2, <2>1 DEF Ownership, CurrentHolds
  <2>3. v # NoWorker
    BY LeaseAssumption DEF LeaseAssumption
  <2>4. QED
    BY <1>1, <1>2, <2>1, <2>2, <2>3
<1>7. SupersededLapsed'
  <2> SUFFICES ASSUME NEW v \in Workers, Walking(v), (walk[v].token # lease[walk[v].run].token)'
               PROVE  walk'[v].left < 0
    BY <1>3 DEF SupersededLapsed
  <2>1. walk[v].left < 0 /\ walk[v].left \in -Horizon..TTL
    BY <1>1, <1>2 DEF Ownership, TurnHasRun, SupersededLapsed, Walking, TypeOK, Walk
  <2>2. QED
    BY <1>1, <2>1, SoonerType, LeaseAssumption DEF LeaseAssumption
<1>8. QED
  BY <1>4, <1>5, <1>6, <1>7 DEF Ownership

LEMMA OwnershipStep == Ownership /\ [Next]_vars => Ownership'
<1> SUFFICES ASSUME Ownership, [Next]_vars
             PROVE  Ownership'
  OBVIOUS
<1>0. TypeOK'
  BY TypeStep DEF Ownership
<1>1. ASSUME NEW w \in Workers, WorkerNext(w)
      PROVE  Ownership'
  <2>0. walk[w] \in Walk
    BY DEF Ownership, TypeOK
  <2>u. \A s : LET k == Unwinding(walk[w], s)
               IN  k.run = walk[w].run /\ k.token = walk[w].token /\ ~Walks(k)
    BY DEF Unwinding, Walks
  <2>1. CASE ClaimNext(w)
    BY <1>0, <2>1, ClaimOwnership
  <2>2. CASE ComposeFails(w)
    BY <1>0, <2>2, InPlace DEF ComposeFails, Idle, Walks
  <2>3. CASE BeginDrive(w)
    <3>1. CASE life[walk[w].run] = "open"
      <4> DEFINE k == [walk[w] EXCEPT !.pc = "top", !.since = 0]
      <4>1. /\ k.run = walk[w].run /\ k.token = walk[w].token /\ k.left = walk[w].left
            /\ Walks(walk[w])
        BY <2>0, <2>3 DEF BeginDrive, Walk, Walks
      <4>2. walk' = [walk EXCEPT ![w] = k] /\ lease' = lease /\ walk[w].pc # "idle"
        BY <2>3, <3>1 DEF BeginDrive
      <4>3. QED
        BY <1>0, <4>1, <4>2, InPlace
    <3>2. CASE life[walk[w].run] # "open"
      BY <1>0, <2>3, <2>u, <3>2, InPlace DEF BeginDrive
    <3>3. QED
      BY <3>1, <3>2
  <2>4. CASE BeginDriveRaises(w)
    <3> DEFINE k == [Unwinding(walk[w], "raised") EXCEPT !.pc = "settle"]
    <3>1. k.run = walk[w].run /\ k.token = walk[w].token /\ ~Walks(k)
      BY DEF Unwinding, Walks
    <3>2. walk' = [walk EXCEPT ![w] = k] /\ lease' = lease /\ walk[w].pc # "idle"
      BY <2>4 DEF BeginDriveRaises
    <3>3. QED
      BY <1>0, <3>1, <3>2, InPlace
  <2>5. CASE NotDue(w)
    <3> DEFINE k == Stepping(walk[w])
    <3>1. /\ k.run = walk[w].run /\ k.token = walk[w].token /\ k.left = walk[w].left
          /\ Walks(walk[w])
      BY <2>0, <2>5 DEF NotDue, Stepping, Walk, Walks
    <3>2. walk' = [walk EXCEPT ![w] = k] /\ lease' = lease /\ walk[w].pc # "idle"
      BY <2>5 DEF NotDue
    <3>3. QED
      BY <1>0, <3>1, <3>2, InPlace
  <2>6. CASE Renews(w)
    BY <1>0, <2>6, RenewOwnership
  <2>7. CASE RenewalUnconfirmed(w)
    <3> DEFINE k == Stepping(Forgiven(walk[w]))
    <3>1. /\ k.run = walk[w].run /\ k.token = walk[w].token /\ k.left = walk[w].left
          /\ Walks(walk[w]) /\ walk[w].pc # "idle"
      BY <2>0, <2>7 DEF RenewalUnconfirmed, Stepping, Forgiven, Walk, Walks
    <3>2. \/ walk' = [walk EXCEPT ![w] = k]
          \/ walk' = [walk EXCEPT ![w] = Unwinding(walk[w], "open")]
      BY <2>7, Zenon DEF RenewalUnconfirmed
    <3>3. lease' = lease
      BY <2>7 DEF RenewalUnconfirmed
    <3>4. CASE walk' = [walk EXCEPT ![w] = k]
      BY <1>0, <3>1, <3>3, <3>4, InPlace
    <3>5. CASE walk' = [walk EXCEPT ![w] = Unwinding(walk[w], "open")]
      BY <1>0, <2>u, <3>1, <3>3, <3>5, InPlace
    <3>6. QED
      BY <3>2, <3>4, <3>5
  <2>8. CASE StepAdvances(w)
    <3> DEFINE k == [walk[w] EXCEPT !.pc = "top"]
    <3>1. /\ k.run = walk[w].run /\ k.token = walk[w].token /\ k.left = walk[w].left
          /\ Walks(walk[w])
      BY <2>0, <2>8 DEF StepAdvances, Walk, Walks
    <3>2. walk' = [walk EXCEPT ![w] = k] /\ lease' = lease /\ walk[w].pc # "idle"
      BY <2>8 DEF StepAdvances
    <3>3. QED
      BY <1>0, <3>1, <3>2, InPlace
  <2>9. CASE StepWaits(w) \/ StepTerminates(w) \/ StepYields(w) \/ StepRaises(w)
    <3>1. PICK s : walk' = [walk EXCEPT ![w] = Unwinding(walk[w], s)]
      BY <2>9 DEF StepWaits, StepTerminates, StepYields, StepRaises
    <3>2. lease' = lease /\ walk[w].pc # "idle"
      BY <2>9 DEF StepWaits, StepTerminates, StepYields, StepRaises
    <3>3. QED
      BY <1>0, <2>u, <3>1, <3>2, InPlace
  <2>10. CASE Unwind(w)
    <3> DEFINE k == [walk[w] EXCEPT !.pc = "settle"]
    <3>1. k.run = walk[w].run /\ k.token = walk[w].token /\ ~Walks(k)
      BY <2>0 DEF Walk, Walks
    <3>2. walk' = [walk EXCEPT ![w] = k] /\ walk[w].pc # "idle"
      BY <2>10 DEF Unwind
    <3>3. lease' = [lease EXCEPT ![walk[w].run] = ReleaseRow(@, w, walk[w].token)]
      BY <2>10 DEF Unwind
    <3>4. QED
      BY <1>0, <3>1, <3>2, <3>3, InPlace
  <2>11. CASE RecordRaises(w)
    <3> DEFINE k == [walk[w] EXCEPT !.seen = "raised"]
    <3>1. k.run = walk[w].run /\ k.token = walk[w].token /\ ~Walks(k)
      BY <2>0, <2>11 DEF RecordRaises, Walk, Walks
    <3>2. walk' = [walk EXCEPT ![w] = k] /\ lease' = lease /\ walk[w].pc # "idle"
      BY <2>11 DEF RecordRaises
    <3>3. QED
      BY <1>0, <3>1, <3>2, InPlace
  <2>12. CASE Settle(w) \/ Dies(w)
    BY <1>0, <2>12, InPlace DEF Settle, Dies, Idle
  <2>13. QED
    BY <1>1, <2>1, <2>2, <2>3, <2>4, <2>5, <2>6, <2>7, <2>8, <2>9, <2>10, <2>11, <2>12
       DEF WorkerNext
<1>2. ASSUME NEW r \in Runs, RunNext(r)
      PROVE  Ownership'
  <2>1. lease' = lease /\ walk' = walk
    BY <1>2 DEF RunNext, Create, OperatorResumes, TakeoverResumes, OperatorCancels
  <2>2. QED
    BY <1>0, <2>1 DEF Ownership, TurnHasRun, TokensDiffer, CurrentHolds, SupersededLapsed, Walking
<1>3. CASE Tick
  BY <1>0, <1>3, TickOwnership
<1>4. CASE UNCHANGED vars
  BY <1>0, <1>4 DEF vars, Ownership, TurnHasRun, TokensDiffer, CurrentHolds,
       SupersededLapsed, Walking
<1>5. QED
  BY <1>1, <1>2, <1>3, <1>4 DEF Next

\* The history only watches.
LEMMA WatchedStep == [Next /\ Watch]_<<vars, lapsed>> => [Next]_vars
BY DEF vars

\* Whatever the timings: rows and turns keep their types, and of two turns that
\* walk one run at most one is within the deadline it was given, so a worker
\* that trusts its deadline never meets another one that does
\* (SQLiteLeaseStore.claim, renew, release under LeaseGuard).
THEOREM OwnershipSafety == Spec => [](TypeOK /\ OneLiveWalk)
<1>1. Ownership => TypeOK /\ OneLiveWalk
  BY DEF Ownership, TypeOK, OneLiveWalk, TokensDiffer, SupersededLapsed, Walking
<1>2. QED
  BY <1>1, InitOwnership, OwnershipStep, WatchedStep, PTL DEF Spec

-----------------------------------------------------------------------------
(* Timely steps                                                               *)

\* How long ago the walk's lease was granted or renewed, by where the walk is.
\* While a renewal is not yet due, the age is at most one step (spent before
\* the guard existed) and the time since the guard's last confirmation.
LeaseAge(k) == TTL - k.left

AgeBounded(k) ==
    /\ k.pc = "claimed" => LeaseAge(k) <= k.busy /\ k.failures = 0
    /\ k.pc \in {"top", "step"} =>
        /\ k.since < RenewInterval => LeaseAge(k) <= MaxStep + k.since /\ k.failures = 0
        /\ k.failures = 0 => LeaseAge(k) <= MaxStep + RenewInterval - 1 + k.busy
        /\ k.failures = 1 => LeaseAge(k) <= 2 * MaxStep + RenewInterval - 1 + k.busy

Timely == \A w \in Workers : AgeBounded(walk[w])

LEMMA TimelyHasTime ==
    ASSUME TimelySteps, NEW k \in Walk, AgeBounded(k), Walks(k)
    PROVE  k.left >= 0
<1>1. /\ k.busy \in 0..MaxStep /\ k.left \in -Horizon..TTL /\ k.failures \in 0..1
      /\ k.pc \in {"claimed", "top", "step"}
  BY DEF Walk, Walks
<1>2. QED
  BY <1>1, LeaseAssumption, WorkerAssumption
     DEF LeaseAssumption, WorkerAssumption, TimelySteps, AgeBounded, LeaseAge

LEMMA IdleTimely == AgeBounded(Idle)
BY DEF AgeBounded, Idle

LEMMA TimelyStep == TimelySteps /\ Ownership /\ Timely /\ [Next]_vars => Timely'
<1> SUFFICES ASSUME TimelySteps, Ownership, Timely, [Next]_vars
             PROVE  Timely'
  OBVIOUS
<1>a. /\ walk \in [Workers -> Walk]
      /\ \A w \in Workers : walk[w] \in Walk /\ AgeBounded(walk[w])
  BY DEF Ownership, TypeOK, Timely
<1>b. ASSUME NEW w \in Workers, NEW k, walk' = [walk EXCEPT ![w] = k], AgeBounded(k)
      PROVE  Timely'
  BY <1>a, <1>b DEF Timely
<1>u. \A k, s : AgeBounded(Unwinding(k, s))
  BY DEF AgeBounded, Unwinding
<1> USE LeaseAssumption, WorkerAssumption
<1>1. ASSUME NEW w \in Workers, WorkerNext(w)
      PROVE  Timely'
  <2>t. /\ walk[w] \in Walk /\ AgeBounded(walk[w])
        /\ walk[w].busy \in 0..MaxStep /\ walk[w].left \in -Horizon..TTL
        /\ walk[w].failures \in 0..1 /\ walk[w].since \in Nat
    BY <1>a DEF Walk
  <2>1. CASE ClaimNext(w)
    <3>1. PICK r \in Runs : walk' = [walk EXCEPT ![w] =
                [pc |-> "claimed", run |-> r, token |-> lease[r].token + 1, left |-> TTL,
                 since |-> 0, failures |-> 0, busy |-> 0, seen |-> "open"]]
      BY <2>1 DEF ClaimNext, Candidates
    <3>2. AgeBounded([pc |-> "claimed", run |-> r, token |-> lease[r].token + 1,
                 left |-> TTL, since |-> 0, failures |-> 0, busy |-> 0, seen |-> "open"])
      BY DEF AgeBounded, LeaseAge, LeaseAssumption
    <3>3. QED
      BY <1>b, <3>1, <3>2
  <2>2. CASE ComposeFails(w) \/ Settle(w) \/ Dies(w)
    BY <1>b, <2>2, IdleTimely DEF ComposeFails, Settle, Dies
  <2>3. CASE BeginDrive(w)
    <3>1. CASE life[walk[w].run] = "open"
      <4> DEFINE k == [walk[w] EXCEPT !.pc = "top", !.since = 0]
      <4>1. /\ k.pc = "top" /\ k.since = 0 /\ k.left = walk[w].left
            /\ k.busy = walk[w].busy /\ k.failures = walk[w].failures
        BY <2>t DEF Walk
      <4>2. LeaseAge(walk[w]) <= walk[w].busy /\ walk[w].failures = 0
        BY <2>t, <2>3 DEF BeginDrive, AgeBounded
      <4>3. AgeBounded(k)
        BY <2>t, <4>1, <4>2 DEF AgeBounded, LeaseAge, LeaseAssumption, WorkerAssumption
      <4>4. walk' = [walk EXCEPT ![w] = k]
        BY <2>3, <3>1 DEF BeginDrive
      <4>5. QED
        BY <1>b, <4>3, <4>4
    <3>2. CASE life[walk[w].run] # "open"
      BY <1>b, <1>u, <2>3, <3>2 DEF BeginDrive
    <3>3. QED
      BY <3>1, <3>2
  <2>4. CASE BeginDriveRaises(w)
    <3>1. AgeBounded([Unwinding(walk[w], "raised") EXCEPT !.pc = "settle"])
      BY DEF AgeBounded, Unwinding
    <3>2. QED
      BY <1>b, <2>4, <3>1 DEF BeginDriveRaises
  <2>5. CASE NotDue(w)
    <3> DEFINE k == Stepping(walk[w])
    <3>1. /\ k.pc = "step" /\ k.since = walk[w].since /\ k.left = walk[w].left
          /\ k.busy = 0 /\ k.failures = walk[w].failures
      BY <2>t DEF Walk, Stepping
    <3>2. /\ walk[w].since < RenewInterval
          /\ LeaseAge(walk[w]) <= MaxStep + walk[w].since /\ walk[w].failures = 0
      BY <2>t, <2>5 DEF NotDue, RenewalDue, AgeBounded, LeaseAssumption
    <3>3. AgeBounded(k)
      BY <2>t, <3>1, <3>2 DEF AgeBounded, LeaseAge, LeaseAssumption, WorkerAssumption
    <3>4. QED
      BY <1>b, <2>5, <3>3 DEF NotDue
  <2>6. CASE Renews(w)
    <3> DEFINE k == Stepping(Renewed(walk[w]))
    <3>1. k.pc = "step" /\ k.since = 0 /\ k.left = TTL /\ k.busy = 0 /\ k.failures = 0
      BY <2>t DEF Walk, Stepping, Renewed
    <3>2. AgeBounded(k)
      BY <3>1 DEF AgeBounded, LeaseAge, LeaseAssumption, WorkerAssumption
    <3>3. QED
      BY <1>b, <1>u, <2>6, <3>2 DEF Renews
  <2>7. CASE RenewalUnconfirmed(w)
    <3> DEFINE k == Stepping(Forgiven(walk[w]))
    <3>1. /\ k.pc = "step" /\ k.since = walk[w].since /\ k.left = walk[w].left
          /\ k.busy = 0 /\ k.failures = walk[w].failures + 1
      BY <2>t DEF Walk, Stepping, Forgiven
    <3>2. /\ walk[w].pc = "top" /\ walk[w].since >= RenewInterval
          /\ \/ walk' = [walk EXCEPT ![w] = Unwinding(walk[w], "open")]
             \/ ~(walk[w].failures + 1 >= MaxRenewalFailures) /\ walk' = [walk EXCEPT ![w] = k]
      BY <2>7, Zenon DEF RenewalUnconfirmed, RenewalDue
    <3>3. CASE walk' = [walk EXCEPT ![w] = Unwinding(walk[w], "open")]
      BY <1>b, <1>u, <3>3
    <3>4. CASE ~(walk[w].failures + 1 >= MaxRenewalFailures) /\ walk' = [walk EXCEPT ![w] = k]
      <4>1. walk[w].failures = 0
        BY <2>t, <3>4 DEF MaxRenewalFailures
      <4>2. LeaseAge(walk[w]) <= MaxStep + RenewInterval - 1 + walk[w].busy
        BY <2>t, <3>2, <4>1 DEF AgeBounded
      <4>3. AgeBounded(k)
        BY <2>t, <3>1, <3>2, <4>1, <4>2
           DEF AgeBounded, LeaseAge, LeaseAssumption, WorkerAssumption
      <4>4. QED
        BY <1>b, <3>4, <4>3
    <3>5. QED
      BY <3>2, <3>3, <3>4
  <2>8. CASE StepAdvances(w)
    <3> DEFINE k == [walk[w] EXCEPT !.pc = "top"]
    <3>1. /\ k.pc = "top" /\ k.since = walk[w].since /\ k.left = walk[w].left
          /\ k.busy = walk[w].busy /\ k.failures = walk[w].failures
      BY <2>t DEF Walk
    <3>2. AgeBounded(k)
      BY <2>t, <2>8, <3>1 DEF StepAdvances, AgeBounded, LeaseAge
    <3>3. QED
      BY <1>b, <2>8, <3>2 DEF StepAdvances
  <2>9. CASE StepWaits(w) \/ StepTerminates(w) \/ StepYields(w) \/ StepRaises(w)
    BY <1>b, <1>u, <2>9 DEF StepWaits, StepTerminates, StepYields, StepRaises
  <2>10. CASE Unwind(w)
    <3>1. AgeBounded([walk[w] EXCEPT !.pc = "settle"])
      BY <2>t DEF AgeBounded, Walk
    <3>2. QED
      BY <1>b, <2>10, <3>1 DEF Unwind
  <2>11. CASE RecordRaises(w)
    <3>1. AgeBounded([walk[w] EXCEPT !.seen = "raised"])
      BY <2>t, <2>11 DEF AgeBounded, Walk, RecordRaises
    <3>2. QED
      BY <1>b, <2>11, <3>1 DEF RecordRaises
  <2>12. QED
    BY <1>1, <2>1, <2>2, <2>3, <2>4, <2>5, <2>6, <2>7, <2>8, <2>9, <2>10, <2>11
       DEF WorkerNext
<1>2. ASSUME NEW r \in Runs, RunNext(r)
      PROVE  Timely'
  BY <1>2 DEF RunNext, Create, OperatorResumes, TakeoverResumes, OperatorCancels, Timely
<1>3. CASE Tick
  <2> SUFFICES ASSUME NEW w \in Workers
               PROVE  AgeBounded(walk'[w])
    BY DEF Timely
  <2> DEFINE k == walk[w]
  <2>1. k \in Walk /\ AgeBounded(k) /\ walk'[w] = AgeWalk(k)
    BY <1>a, <1>3 DEF Tick
  <2>2. Walks(k) => k.busy < MaxStep
    BY <1>3 DEF Tick, Walking, Walks
  <2>3. CASE ~Walks(k)
    BY <2>1, <2>3 DEF AgeWalk, Walks
  <2>4. CASE Walks(k)
    <3>1. k.left >= 0
      BY <2>1, <2>4, TimelyHasTime
    <3>2. /\ k.left \in -Horizon..TTL /\ k.busy \in 0..MaxStep /\ k.failures \in 0..1
          /\ k.since \in Nat
      BY <2>1 DEF Walk
    <3>3. Sooner(k.left) = k.left - 1
      BY <3>1, <3>2, SoonerType DEF LeaseAssumption
    <3>4. /\ AgeWalk(k).pc = k.pc /\ AgeWalk(k).failures = k.failures
          /\ AgeWalk(k).left = k.left - 1 /\ AgeWalk(k).busy = k.busy + 1
          /\ AgeWalk(k).since = IF k.since < RenewInterval THEN k.since + 1 ELSE k.since
      BY <2>1, <2>2, <2>4, <3>3, AgeWalkType DEF Walks
    <3>5. QED
      BY <2>1, <2>4, <3>2, <3>4 DEF AgeBounded, LeaseAge, Walks, LeaseAssumption, WorkerAssumption
  <2>5. QED
    BY <2>3, <2>4
<1>4. CASE UNCHANGED vars
  BY <1>4 DEF vars, Timely
<1>5. QED
  BY <1>1, <1>2, <1>3, <1>4 DEF Next

-----------------------------------------------------------------------------
(* The queue, while no walk of the run outlives its lease                     *)

Driving(k) == k.pc \in {"top", "step"}

\* Nobody is inside a walk of a run that some turn saw finished.
SawTheEnd ==
    \A w \in Workers :
        (/\ walk[w].pc \in {"unwind", "settle"} /\ walk[w].seen = "terminal"
         /\ walk[w].run \notin lapsed) =>
            /\ life[walk[w].run] = "terminal"
            /\ \A v \in Workers : walk[v].run = walk[w].run => ~Driving(walk[v])

DrivenIsQueued ==
    \A w \in Workers :
        (Driving(walk[w]) /\ walk[w].run \notin lapsed) => queue[walk[w].run].queued

QueueInv == UnfinishedRunStaysQueued /\ SawTheEnd /\ DrivenIsQueued

\* The history misses no walk that outlived its lease.
Watched == \A w \in Workers : Outlived(w) => walk[w].run \in lapsed

LEMMA WatchStep == Watch => Watched' /\ lapsed \subseteq lapsed'
BY DEF Watch, Watched

\* A walk within its deadline owns its run.
LEMMA WalkerOwns ==
    ASSUME Ownership, NEW w \in Workers, Walking(w), walk[w].left >= 0
    PROVE  Owns(lease[walk[w].run], w, walk[w].token) /\ Holds(lease[walk[w].run])
<1>1. walk[w].left \in Int
  BY DEF Ownership, TypeOK, Walk
<1>2. walk[w].token = lease[walk[w].run].token
  BY <1>1 DEF Ownership, SupersededLapsed
<1>3. QED
  BY <1>1, <1>2, LeaseAssumption DEF LeaseAssumption, Ownership, CurrentHolds, Owns, Holds

\* While no walk of a run has outlived its lease, one turn at most walks it.
LEMMA SoleWalker ==
    ASSUME Ownership, Watched, NEW w \in Workers, Walking(w), walk[w].run \notin lapsed
    PROVE  \A v \in Workers : (Walking(v) /\ walk[v].run = walk[w].run) => v = w
<1>1. ASSUME NEW v \in Workers, Walking(v), walk[v].run = walk[w].run
      PROVE  walk[v].token = lease[walk[v].run].token
  <2>1. walk[v].left >= 0 /\ walk[v].left \in Int
    BY <1>1 DEF Ownership, TypeOK, Walk, Watched, Outlived
  <2>2. QED
    BY <1>1, <2>1 DEF Ownership, SupersededLapsed
<1>2. QED
  BY <1>1 DEF Ownership, TokensDiffer, Walking

LEMMA QueueStep ==
    Ownership /\ Watched /\ QueueInv /\ [Next]_vars /\ lapsed \subseteq lapsed' => QueueInv'
<1> SUFFICES ASSUME Ownership, Watched, QueueInv, [Next]_vars, lapsed \subseteq lapsed'
             PROVE  QueueInv'
  OBVIOUS
<1> USE DEF QueueInv, Driving
<1>t. /\ queue \in [Runs -> QueueRow] /\ life \in [Runs -> Life]
      /\ walk \in [Workers -> Walk]
      /\ \A w \in Workers : walk[w] \in Walk /\ (walk[w].pc # "idle" => walk[w].run \in Runs)
  BY DEF Ownership, TypeOK, TurnHasRun
<1>u. \A k, s : /\ Unwinding(k, s).pc = "unwind" /\ Unwinding(k, s).run = k.run
                /\ Unwinding(k, s).seen = s
  BY DEF Unwinding
\* A turn goes on, or ends having seen no end, and neither the positions nor
\* the queue lose anything.
<1>q. ASSUME NEW w \in Workers, NEW k, walk' = [walk EXCEPT ![w] = k],
             life' = life, queue' = queue,
             k.pc = "idle" \/ (k.run = walk[w].run /\ walk[w].pc # "idle"),
             Driving(k) => Driving(walk[w]) \/ life[walk[w].run] = "open",
             (k.pc \in {"unwind", "settle"} /\ k.seen = "terminal")
                => walk[w].pc \in {"unwind", "settle"} /\ walk[w].seen = "terminal"
      PROVE  QueueInv'
  <2>1. walk'[w] = k /\ \A v \in Workers \ {w} : walk'[v] = walk[v]
    BY <1>q, <1>t
  <2>2. UnfinishedRunStaysQueued'
    BY <1>q DEF UnfinishedRunStaysQueued
  <2>3. DrivenIsQueued'
    BY <1>q, <1>t, <2>1 DEF DrivenIsQueued, UnfinishedRunStaysQueued
  <2>4. SawTheEnd'
    BY <1>q, <1>t, <2>1 DEF SawTheEnd
  <2>5. QED
    BY <2>2, <2>3, <2>4
<1>1. ASSUME NEW r \in Runs, RunNext(r)
      PROVE  QueueInv'
  <2>1. walk' = walk
    BY <1>1 DEF RunNext, Create, OperatorResumes, TakeoverResumes, OperatorCancels
  <2>2. \A s \in Runs : queue[s].queued => queue'[s].queued
    BY <1>1, <1>t DEF RunNext, Create, OperatorResumes, TakeoverResumes, OperatorCancels, EnqueueRow
  <2>3. \A s \in Runs : life[s] = "terminal" => life'[s] = "terminal"
    BY <1>1, <1>t DEF RunNext, Create, OperatorResumes, TakeoverResumes, OperatorCancels
  <2>4. UnfinishedRunStaysQueued'
    <3>1. CASE Create(r)
      BY <1>t, <2>2, <3>1 DEF Create, EnqueueRow, UnfinishedRunStaysQueued
    <3>2. CASE OperatorResumes(r)
      BY <1>t, <2>2, <3>2 DEF OperatorResumes, UnfinishedRunStaysQueued
    <3>3. CASE TakeoverResumes(r)
      BY <1>t, <2>2, <3>3 DEF TakeoverResumes, EnqueueRow, UnfinishedRunStaysQueued
    <3>4. CASE OperatorCancels(r)
      BY <1>t, <2>2, <3>4 DEF OperatorCancels, UnfinishedRunStaysQueued
    <3>5. QED
      BY <1>1, <3>1, <3>2, <3>3, <3>4 DEF RunNext
  <2>5. DrivenIsQueued'
    BY <1>t, <2>1, <2>2 DEF DrivenIsQueued
  <2>6. SawTheEnd'
    BY <1>t, <2>1, <2>3 DEF SawTheEnd
  <2>7. QED
    BY <2>4, <2>5, <2>6
<1>2. ASSUME NEW w \in Workers, WorkerNext(w)
      PROVE  QueueInv'
  <2>1. CASE ClaimNext(w)
    <3>1. PICK r \in Runs : walk' = [walk EXCEPT ![w] =
                [pc |-> "claimed", run |-> r, token |-> lease[r].token + 1, left |-> TTL,
                 since |-> 0, failures |-> 0, busy |-> 0, seen |-> "open"]]
      BY <2>1 DEF ClaimNext, Candidates
    <3>2. /\ walk'[w].pc = "claimed" /\ \A v \in Workers \ {w} : walk'[v] = walk[v]
          /\ queue' = queue /\ life' = life
      BY <1>t, <2>1, <3>1 DEF ClaimNext
    <3>3. QED
      BY <3>2 DEF UnfinishedRunStaysQueued, DrivenIsQueued, SawTheEnd
  <2>2. CASE ComposeFails(w) \/ Dies(w)
    BY <1>q, <2>2 DEF ComposeFails, Dies, Idle
  <2>3. CASE BeginDrive(w)
    <3>1. CASE life[walk[w].run] = "open"
      <4> DEFINE k == [walk[w] EXCEPT !.pc = "top", !.since = 0]
      <4>1. k.pc = "top" /\ k.run = walk[w].run
        BY <1>t DEF Walk
      <4>2. /\ walk' = [walk EXCEPT ![w] = k] /\ walk[w].pc # "idle"
            /\ life' = life /\ queue' = queue
        BY <2>3, <3>1 DEF BeginDrive
      <4>3. QED
        BY <1>q, <3>1, <4>1, <4>2
    <3>2. CASE life[walk[w].run] # "open"
      <4> DEFINE k == Unwinding(walk[w], life[walk[w].run])
      <4>1. /\ walk' = [walk EXCEPT ![w] = k] /\ Walking(w)
            /\ life' = life /\ queue' = queue
        BY <2>3, <3>2 DEF BeginDrive, Walking
      <4>2. walk'[w] = k /\ \A v \in Workers \ {w} : walk'[v] = walk[v]
        BY <1>t, <4>1
      <4>3. walk[w].run \notin lapsed =>
              \A v \in Workers \ {w} : walk[v].run = walk[w].run => ~Driving(walk[v])
        BY <4>1, SoleWalker DEF Walking
      <4>4. SawTheEnd'
        BY <1>u, <4>1, <4>2, <4>3 DEF SawTheEnd
      <4>5. UnfinishedRunStaysQueued' /\ DrivenIsQueued'
        BY <1>u, <4>1, <4>2 DEF UnfinishedRunStaysQueued, DrivenIsQueued
      <4>6. QED
        BY <4>4, <4>5
    <3>3. QED
      BY <3>1, <3>2
  <2>4. CASE BeginDriveRaises(w)
    <3> DEFINE k == [Unwinding(walk[w], "raised") EXCEPT !.pc = "settle"]
    <3>1. k.pc = "settle" /\ k.run = walk[w].run /\ k.seen = "raised"
      BY DEF Unwinding
    <3>2. /\ walk' = [walk EXCEPT ![w] = k] /\ walk[w].pc # "idle"
          /\ life' = life /\ queue' = queue
      BY <2>4 DEF BeginDriveRaises
    <3>3. QED
      BY <1>q, <3>1, <3>2
  <2>5. CASE NotDue(w)
    <3>1. Stepping(walk[w]).pc = "step" /\ Stepping(walk[w]).run = walk[w].run
      BY <1>t DEF Walk, Stepping
    <3>2. QED
      BY <1>q, <2>5, <3>1 DEF NotDue
  <2>6. CASE Renews(w)
    <3>1. /\ Stepping(Renewed(walk[w])).pc = "step"
          /\ Stepping(Renewed(walk[w])).run = walk[w].run
      BY <1>t DEF Walk, Stepping, Renewed
    <3>2. QED
      BY <1>q, <1>u, <2>6, <3>1 DEF Renews
  <2>7. CASE RenewalUnconfirmed(w)
    <3> DEFINE k == Stepping(Forgiven(walk[w]))
    <3>1. k.pc = "step" /\ k.run = walk[w].run
      BY <1>t DEF Walk, Stepping, Forgiven
    <3>2. /\ \/ walk' = [walk EXCEPT ![w] = Unwinding(walk[w], "open")]
             \/ walk' = [walk EXCEPT ![w] = k]
          /\ walk[w].pc = "top" /\ life' = life /\ queue' = queue
      BY <2>7, Zenon DEF RenewalUnconfirmed
    <3>3. QED
      BY <1>q, <1>u, <3>1, <3>2
  <2>8. CASE StepAdvances(w)
    <3>1. /\ walk[w].pc = "step" /\ walk' = [walk EXCEPT ![w].pc = "top"] /\ queue' = queue
          /\ \A s \in Runs : s # walk[w].run => life'[s] = life[s]
      BY <1>t, <2>8 DEF StepAdvances
    <3>2. /\ walk'[w].pc = "top" /\ walk'[w].run = walk[w].run
          /\ \A v \in Workers \ {w} : walk'[v] = walk[v]
      BY <1>t, <3>1 DEF Walk
    <3>3. UnfinishedRunStaysQueued'
      BY <3>1 DEF UnfinishedRunStaysQueued, DrivenIsQueued
    <3>4. DrivenIsQueued'
      BY <3>1, <3>2 DEF DrivenIsQueued
    <3>5. SawTheEnd'
      BY <1>t, <3>1, <3>2 DEF SawTheEnd
    <3>6. QED
      BY <3>3, <3>4, <3>5
  <2>9. CASE StepWaits(w)
    <3>1. /\ walk[w].pc = "step" /\ walk' = [walk EXCEPT ![w] = Unwinding(walk[w], "waiting")]
          /\ queue' = queue /\ \A s \in Runs : s # walk[w].run => life'[s] = life[s]
      BY <1>t, <2>9 DEF StepWaits
    <3>2. /\ walk'[w].pc = "unwind" /\ walk'[w].seen = "waiting"
          /\ \A v \in Workers \ {w} : walk'[v] = walk[v]
      BY <1>t, <1>u, <3>1
    <3>3. UnfinishedRunStaysQueued'
      BY <3>1 DEF UnfinishedRunStaysQueued, DrivenIsQueued
    <3>4. DrivenIsQueued'
      BY <3>1, <3>2 DEF DrivenIsQueued
    <3>5. SawTheEnd'
      BY <1>t, <3>1, <3>2 DEF SawTheEnd
    <3>6. QED
      BY <3>3, <3>4, <3>5
  <2>10. CASE StepTerminates(w)
    <3>1. /\ Walking(w) /\ walk' = [walk EXCEPT ![w] = Unwinding(walk[w], "terminal")]
          /\ queue' = queue /\ life' = [life EXCEPT ![walk[w].run] = "terminal"]
          /\ walk[w].run \in Runs
      BY <1>t, <2>10 DEF StepTerminates, Walking
    <3>2. /\ walk'[w].pc = "unwind" /\ walk'[w].run = walk[w].run
          /\ \A v \in Workers \ {w} : walk'[v] = walk[v]
      BY <1>t, <1>u, <3>1
    <3>3. walk[w].run \notin lapsed =>
              \A v \in Workers \ {w} : walk[v].run = walk[w].run => ~Driving(walk[v])
      BY <3>1, SoleWalker DEF Walking
    <3>4. UnfinishedRunStaysQueued'
      BY <1>t, <3>1 DEF UnfinishedRunStaysQueued
    <3>5. DrivenIsQueued'
      BY <3>1, <3>2 DEF DrivenIsQueued
    <3>6. SawTheEnd'
      BY <1>t, <3>1, <3>2, <3>3 DEF SawTheEnd
    <3>7. QED
      BY <3>4, <3>5, <3>6
  <2>11. CASE StepYields(w)
    <3>1. /\ walk[w].pc = "step" /\ walk' = [walk EXCEPT ![w] = Unwinding(walk[w], "open")]
          /\ life' = life /\ walk[w].run \in Runs
      BY <1>t, <2>11 DEF StepYields
    <3>2. \A s \in Runs : queue[s].queued => queue'[s].queued
      BY <1>t, <2>11 DEF StepYields, DeferRow
    <3>3. /\ walk'[w].pc = "unwind" /\ walk'[w].seen = "open"
          /\ \A v \in Workers \ {w} : walk'[v] = walk[v]
      BY <1>t, <1>u, <3>1
    <3>4. UnfinishedRunStaysQueued'
      BY <3>1, <3>2 DEF UnfinishedRunStaysQueued
    <3>5. DrivenIsQueued'
      BY <1>t, <3>2, <3>3 DEF DrivenIsQueued
    <3>6. SawTheEnd'
      BY <3>1, <3>3 DEF SawTheEnd
    <3>7. QED
      BY <3>4, <3>5, <3>6
  <2>12. CASE StepRaises(w)
    <3> DEFINE k == Unwinding(walk[w], "raised")
    <3>1. k.pc = "unwind" /\ k.run = walk[w].run /\ k.seen = "raised"
      BY <1>u
    <3>2. /\ walk' = [walk EXCEPT ![w] = k] /\ walk[w].pc = "step"
          /\ life' = life /\ queue' = queue
      BY <2>12 DEF StepRaises
    <3>3. QED
      BY <1>q, <3>1, <3>2
  <2>13. CASE Unwind(w)
    <3> DEFINE k == [walk[w] EXCEPT !.pc = "settle"]
    <3>1. k.pc = "settle" /\ k.run = walk[w].run /\ k.seen = walk[w].seen
      BY <1>t DEF Walk
    <3>2. /\ walk' = [walk EXCEPT ![w] = k] /\ walk[w].pc = "unwind"
          /\ life' = life /\ queue' = queue
      BY <2>13 DEF Unwind
    <3>3. QED
      BY <1>q, <3>1, <3>2
  <2>14. CASE RecordRaises(w)
    <3> DEFINE k == [walk[w] EXCEPT !.seen = "raised"]
    <3>1. k.pc = walk[w].pc /\ k.run = walk[w].run /\ k.seen = "raised"
      BY <1>t DEF Walk
    <3>2. /\ walk' = [walk EXCEPT ![w] = k] /\ walk[w].pc = "settle"
          /\ life' = life /\ queue' = queue
      BY <2>14 DEF RecordRaises
    <3>3. QED
      BY <1>q, <3>1, <3>2
  <2>15. CASE Settle(w)
    <3>1. /\ walk[w].pc = "settle" /\ walk' = [walk EXCEPT ![w] = Idle] /\ life' = life
          /\ walk[w].run \in Runs
          /\ \A s \in Runs : s # walk[w].run => queue'[s] = queue[s]
      BY <1>t, <2>15 DEF Settle
    <3>2. walk'[w].pc = "idle" /\ \A v \in Workers \ {w} : walk'[v] = walk[v]
      BY <1>t, <3>1 DEF Idle
    <3>3. walk[w].seen # "terminal" => (queue[walk[w].run].queued => queue'[walk[w].run].queued)
      BY <1>t, <2>15, <3>1 DEF Settle, DeferRow
    <3>4. (walk[w].seen = "terminal" /\ walk[w].run \notin lapsed) =>
            /\ life[walk[w].run] = "terminal"
            /\ \A v \in Workers : walk[v].run = walk[w].run => ~Driving(walk[v])
      BY <3>1 DEF SawTheEnd
    <3>5. UnfinishedRunStaysQueued'
      BY <3>1, <3>3, <3>4 DEF UnfinishedRunStaysQueued
    <3>6. DrivenIsQueued'
      BY <1>t, <3>1, <3>2, <3>3, <3>4 DEF DrivenIsQueued
    <3>7. SawTheEnd'
      BY <3>1, <3>2 DEF SawTheEnd
    <3>8. QED
      BY <3>5, <3>6, <3>7
  <2>16. QED
    BY <1>2, <2>1, <2>2, <2>3, <2>4, <2>5, <2>6, <2>7, <2>8, <2>9, <2>10, <2>11, <2>12,
       <2>13, <2>14, <2>15 DEF WorkerNext
<1>3. CASE Tick
  <2>1. \A v \in Workers :
        /\ walk'[v].pc = walk[v].pc /\ walk'[v].run = walk[v].run /\ walk'[v].seen = walk[v].seen
    BY <1>t, <1>3, AgeWalkType DEF Tick, Walking
  <2>2. \A s \in Runs : queue'[s].queued = queue[s].queued
    BY <1>3, <1>t DEF Tick, AgeQueue, QueueRow
  <2>3. life' = life
    BY <1>3 DEF Tick
  <2>4. UnfinishedRunStaysQueued'
    BY <2>2, <2>3 DEF UnfinishedRunStaysQueued
  <2>5. DrivenIsQueued'
    BY <1>t, <2>1, <2>2 DEF DrivenIsQueued
  <2>6. SawTheEnd'
    BY <2>1, <2>3 DEF SawTheEnd
  <2>7. QED
    BY <2>4, <2>5, <2>6
<1>4. CASE UNCHANGED vars
  BY <1>4 DEF vars, UnfinishedRunStaysQueued, DrivenIsQueued, SawTheEnd
<1>5. QED
  BY <1>1, <1>2, <1>3, <1>4 DEF Next

\* Whatever the timings, crashes and failed renewals: a phase's effects are
\* performed, while the deadline of the walk lies ahead, only by the worker whose
\* token and deadline are the stored ones (drive_run I1), and a run that is not
\* finished drops out of the queue (RunQueue.dequeue_candidates) only if a walk of
\* that very run outlived its lease, whoever crashes, yields or settles late.  If an
\* interval and three steps fit into the lease (TimelySteps), no walk ever does.
THEOREM WalksAreExclusive == Spec => [](OwnerActs /\ UnfinishedRunStaysQueued)
<1> DEFINE Lasting == TimelySteps => Timely /\ lapsed = {}
           IInv == Ownership /\ Watched /\ QueueInv /\ Lasting
<1>1. Init => IInv
  <2>1. Init => Watched /\ QueueInv /\ Lasting
    BY IdleTimely DEF Init, Timely, QueueInv, UnfinishedRunStaysQueued, SawTheEnd,
         DrivenIsQueued, Driving, Watched, Outlived, Walking, Idle
  <2>2. QED
    BY <2>1, InitOwnership
<1>2. IInv /\ [Next /\ Watch]_<<vars, lapsed>> => IInv'
  <2> SUFFICES ASSUME IInv, [Next /\ Watch]_<<vars, lapsed>>
               PROVE  IInv'
    OBVIOUS
  <2>1. [Next]_vars /\ lapsed \subseteq lapsed'
    BY WatchStep, WatchedStep
  <2>2. Ownership' /\ QueueInv'
    BY <2>1, OwnershipStep, QueueStep
  <2>3. Watched'
    BY WatchStep DEF vars, Watched, Outlived, Walking
  <2>4. ASSUME TimelySteps
        PROVE  Timely' /\ lapsed' = {}
    <3>1. Timely'
      BY <2>1, <2>4, TimelyStep
    <3>2. \A w \in Workers : ~Outlived(w)'
      <4>1. ASSUME NEW w \in Workers, Walking(w)'
            PROVE  walk'[w].left >= 0 /\ walk'[w].left \in Int
        <5>1. walk'[w] \in Walk /\ AgeBounded(walk'[w]) /\ Walks(walk'[w])
          BY <2>2, <3>1, <4>1 DEF Ownership, TypeOK, Timely, AgeBounded, LeaseAge, Walking, Walks
        <5>2. QED
          BY <2>4, <5>1, TimelyHasTime DEF Walk
      <4>2. QED
        BY <4>1 DEF Outlived
    <3>3. QED
      BY <2>4, <3>1, <3>2 DEF Watch
  <2>5. QED
    BY <2>2, <2>3, <2>4
<1>3. IInv => OwnerActs /\ UnfinishedRunStaysQueued
  BY WalkerOwns DEF OwnerActs, QueueInv, Walking
<1>4. QED
  BY <1>1, <1>2, <1>3, PTL DEF Spec

-----------------------------------------------------------------------------
(* Refinement                                                                 *)

\* The lease rows under every verb, crash and clock tick implement fenced
\* ownership: the run changes hands only while nobody holds it and only under
\* the next token (_CLAIM_SQL, renew, release).
THEOREM LeasesAreFenced == Spec => ImplementsFencedLease
<1>1. Init => Fenced!Init
  <2>1. /\ NeverClaimed.holder = NoWorker /\ NeverClaimed.token = 0
        /\ Holds(NeverClaimed) = FALSE
    BY DEF NeverClaimed, Holds
  <2>2. QED
    BY <2>1 DEF Init, Fenced!Init
<1>2. Ownership /\ [Next]_vars => [Fenced!Next]_Fenced!vars
  <2> SUFFICES ASSUME Ownership, [Next]_vars
               PROVE  [Fenced!Next]_Fenced!vars
    OBVIOUS
  <2>t. lease \in [Runs -> LeaseRow]
    BY DEF Ownership, TypeOK
  <2>s. lease' = lease => [Fenced!Next]_Fenced!vars
    BY DEF Fenced!vars, Holds
  <2>r. ASSUME NEW w \in Workers, walk[w].pc # "idle",
               lease' = [lease EXCEPT ![walk[w].run] = ReleaseRow(@, w, walk[w].token)]
        PROVE  [Fenced!Next]_Fenced!vars
    <3>1. PICK r \in Runs : r = walk[w].run
      BY <2>r DEF Ownership, TurnHasRun
    <3>2. CASE Owns(lease[r], w, walk[w].token)
      <4>1. lease' = [lease EXCEPT ![r] = [lease[r] EXCEPT !.holder = NoWorker, !.left = 0]]
        BY <2>r, <3>1, <3>2 DEF ReleaseRow
      <4>2. /\ lease'[r].holder = NoWorker /\ lease'[r].token = lease[r].token
            /\ \A s \in Runs \ {r} : lease'[s] = lease[s]
            /\ \A s \in Runs : lease[s].holder \in Workers \cup {NoWorker}
        BY <2>t, <3>1, <4>1 DEF LeaseRow
      <4>3. \A s \in Runs : Holds(lease'[s]) =
                [[q \in Runs |-> Holds(lease[q])] EXCEPT ![r] = FALSE][s]
        BY <3>1, <4>2 DEF Holds
      <4>4. /\ [s \in Runs |-> lease'[s].holder] \in [Runs -> Workers \cup {NoWorker}]
            /\ [s \in Runs |-> lease'[s].token] = [s \in Runs |-> lease[s].token]
            /\ [s \in Runs |-> Holds(lease'[s])] =
                    [[s \in Runs |-> Holds(lease[s])] EXCEPT ![r] = FALSE]
        BY <3>1, <4>2, <4>3
      <4>5. Fenced!Forgo(r)
        BY <3>1, <4>2, <4>4 DEF Fenced!Forgo
      <4>6. QED
        BY <3>1, <4>5 DEF Fenced!Next
    <3>3. CASE ~Owns(lease[r], w, walk[w].token)
      <4>1. lease' = lease
        BY <2>r, <2>t, <3>1, <3>3 DEF ReleaseRow
      <4>2. QED
        BY <2>s, <4>1
    <3>4. QED
      BY <3>2, <3>3
  <2>1. ASSUME NEW w \in Workers, WorkerNext(w)
        PROVE  [Fenced!Next]_Fenced!vars
    <3>1. CASE ClaimNext(w)
      <4>1. PICK r \in Runs :
              Claimable(lease[r]) /\ lease' = [lease EXCEPT ![r] = ClaimRow(@, w)]
        BY <3>1 DEF ClaimNext, Candidates
      <4>2. /\ lease'[r].holder = w /\ lease'[r].token = lease[r].token + 1
            /\ lease'[r].left = TTL
            /\ \A s \in Runs \ {r} : lease'[s] = lease[s]
        BY <2>t, <4>1 DEF ClaimRow
      <4>3. ~Holds(lease[r]) /\ Holds(lease'[r])
        BY <2>t, <4>1, <4>2, LeaseAssumption DEF LeaseAssumption, Claimable, Holds, LeaseRow
      <4>4. Fenced!Grant(r, w)
        BY <4>2, <4>3 DEF Fenced!Grant
      <4>5. QED
        BY <4>4 DEF Fenced!Next
    <3>2. CASE ComposeFails(w)
      BY <2>r, <3>2 DEF ComposeFails
    <3>3. CASE Unwind(w)
      BY <2>r, <3>3 DEF Unwind
    <3>4. CASE Renews(w)
      <4> DEFINE r == walk[w].run
      <4>1. r \in Runs
        BY <3>4 DEF Renews, Ownership, TurnHasRun
      <4>2. CASE Owns(lease[r], w, walk[w].token)
        <5>1. lease' = [lease EXCEPT ![r] = [lease[r] EXCEPT !.left = TTL]]
          BY <3>4, <4>2 DEF Renews, RenewRow
        <5>2. /\ lease[r].holder = w /\ lease'[r].holder = w
              /\ lease'[r].token = lease[r].token /\ lease'[r].left = TTL
              /\ \A s \in Runs \ {r} : lease'[s] = lease[s]
          BY <2>t, <4>1, <4>2, <5>1 DEF Owns, LeaseRow
        <5>3. w # NoWorker /\ Holds(lease'[r])
          BY <5>2, LeaseAssumption DEF LeaseAssumption, Holds
        <5>4. Fenced!Revive(r)
          BY <4>1, <5>2, <5>3 DEF Fenced!Revive
        <5>5. QED
          BY <4>1, <5>4 DEF Fenced!Next
      <4>3. CASE ~Owns(lease[r], w, walk[w].token)
        <5>1. lease' = lease
          BY <2>t, <3>4, <4>1, <4>3 DEF Renews, RenewRow
        <5>2. QED
          BY <2>s, <5>1
      <4>4. QED
        BY <4>2, <4>3
    <3>5. CASE lease' = lease
      BY <2>s, <3>5
    <3>6. QED
      BY <2>1, <3>1, <3>2, <3>3, <3>4, <3>5
         DEF WorkerNext, BeginDrive, BeginDriveRaises, NotDue, RenewalUnconfirmed,
             StepAdvances, StepWaits, StepTerminates, StepYields, StepRaises, RecordRaises,
             Settle, Dies
  <2>2. ASSUME NEW r \in Runs, RunNext(r)
        PROVE  [Fenced!Next]_Fenced!vars
    BY <2>2, <2>s DEF RunNext, Create, OperatorResumes, TakeoverResumes, OperatorCancels
  <2>3. CASE Tick
    <3>1. \A s \in Runs :
            /\ lease'[s].holder = lease[s].holder /\ lease'[s].token = lease[s].token
            /\ Holds(lease'[s]) => Holds(lease[s])
      BY <2>t, <2>3 DEF Tick, AgeLease, Sooner, Holds, LeaseRow
    <3>2. Fenced!Lapse
      BY <3>1 DEF Fenced!Lapse, Holds
    <3>3. QED
      BY <3>2 DEF Fenced!Next
  <2>4. CASE UNCHANGED vars
    BY <2>4, <2>s DEF vars
  <2>5. QED
    BY <2>1, <2>2, <2>3, <2>4 DEF Next
<1>3. QED
  BY <1>1, <1>2, InitOwnership, OwnershipStep, WatchedStep, PTL DEF Spec, ImplementsFencedLease, Fenced!Spec

-----------------------------------------------------------------------------
(* MCBrowserAgent                                                            *)

\* A set of naturals has a least element.
LEMMA LeastOfSet ==
    ASSUME NEW set, set \subseteq Nat, set # {}
    PROVE  \E i \in set : \A j \in set : i <= j
  <1>1. PICK x \in set : \A y \in set : ~(<<y, x>> \in OpToRel(<, Nat))
    BY WFMin, NatLessThanWellFounded
  <1>2. ASSUME NEW y \in set PROVE x <= y
    <2>1. x \in Nat /\ y \in Nat
      OBVIOUS
    <2>2. ~(y < x)
      BY <1>1, <2>1 DEF OpToRel
    <2> QED  BY <2>1, <2>2
  <1> QED  BY <1>2

-----------------------------------------------------------------------------
(* TraceLoop                                                                  *)

BrowserStates == [cp : 1..(Checkpoints + 1), handoffs : 0..MaxHandoffs, probed : BOOLEAN,
                  retried : BOOLEAN, dark : BOOLEAN, typed : 0..MaxDrives]

DrivePlaces == {"rest", "inject", "target", "disposition", "resumed", "loop", "gates",
                "choose", "execute", "after"}

DriveStates == [pc : DrivePlaces, secrets : {"none", "pair", "code"}, resume : BOOLEAN,
                create : BOOLEAN, steps : 0..MaxSteps, repeated : [Screens -> Nat],
                modelFails : 0..(MaxModelFails - 1), actFails : 0..(MaxActFails - 1),
                at : Screens, moved : BOOLEAN]

DriveReports == {"none", "human", "failed", "blocked", "ready"}

TraceTypes ==
    /\ screen \in Screens /\ shifts \in 0..MaxShifts
    /\ browser \in BrowserStates /\ drive \in DriveStates
    /\ drives \in 0..MaxDrives /\ report \in DriveReports

\* What was typed was typed by a drive of its own; a checkpoint is chosen for while one
\* is left; and what is planned on is the page, unless it moved by itself.
Follows ==
    /\ drive.pc = "inject" => browser.typed < drives
    /\ drive.pc \in {"choose", "execute", "after"} => browser.cp <= Checkpoints
    /\ drive.pc = "gates" /\ ~drive.moved => drive.at = screen
    /\ T!PlansOffTheWall

TraceInvariant ==
    /\ TraceTypes /\ browser.typed <= drives
    /\ T!CheckpointsAreProven /\ Follows

\* A screen's verdict moves no checkpoint: the drive ends, or goes where nothing is chosen.
Turns ==
    /\ drive' \in DriveStates /\ drive'.pc \in {"rest", "target", "disposition", "loop"}
    /\ browser' \in BrowserStates /\ browser'.cp = browser.cp /\ browser'.typed <= drives
    /\ report' \in DriveReports /\ shifts' = shifts /\ drives' = drives

LEMMA TraceBounds ==
    /\ Checkpoints \in Nat /\ MaxSteps \in Nat /\ MaxHandoffs \in Nat /\ MaxShifts \in Nat
    /\ MaxRepeated \in Nat
    /\ MaxActFails \in Nat \ {0} /\ MaxModelFails \in Nat \ {0} /\ MaxDrives \in Nat \ {0}
  BY BrowserAgentAssumption DEF BrowserAgentAssumption, T!TraceAssumption

LEMMA TraceFields ==
    ASSUME TraceTypes
    PROVE  /\ browser.cp \in 1..(Checkpoints + 1) /\ browser.handoffs \in 0..MaxHandoffs
           /\ browser.probed \in BOOLEAN /\ browser.retried \in BOOLEAN
           /\ browser.dark \in BOOLEAN /\ browser.typed \in 0..MaxDrives
           /\ drive.pc \in DrivePlaces /\ drive.secrets \in {"none", "pair", "code"}
           /\ drive.steps \in 0..MaxSteps /\ drive.repeated \in [Screens -> Nat]
           /\ drive.modelFails \in 0..(MaxModelFails - 1)
           /\ drive.actFails \in 0..(MaxActFails - 1) /\ drive.at \in Screens
  BY DEF TraceTypes, BrowserStates, DriveStates

LEMMA RestingIsADrive ==
    ASSUME Screens # {}
    PROVE  T!Resting \in DriveStates /\ T!Resting.pc = "rest"
  <1>1. (CHOOSE s \in Screens : TRUE) \in Screens
    OBVIOUS
  <1>2. 0 \in 0..MaxSteps /\ 0 \in 0..(MaxModelFails - 1) /\ 0 \in 0..(MaxActFails - 1)
    BY TraceBounds
  <1>3. [s \in Screens |-> 0] \in [Screens -> Nat]
    OBVIOUS
  <1> QED  BY <1>1, <1>2, <1>3 DEF T!Resting, DriveStates, DrivePlaces

LEMMA TraceInitially ==
    ASSUME T!TInit PROVE TraceInvariant
  <1>1. screen \in Screens /\ drive = T!Resting /\ drives = 0 /\ shifts = 0 /\ report = "none"
    BY DEF T!TInit
  <1>2. drive \in DriveStates /\ drive.pc = "rest"
    BY <1>1, RestingIsADrive
  <1>3. browser \in BrowserStates /\ browser.cp = 1 /\ browser.typed = 0
    BY TraceBounds DEF T!TInit, BrowserStates
  <1>4. TraceTypes
    BY <1>1, <1>2, <1>3, TraceBounds DEF TraceTypes, DriveReports
  <1>5. T!CheckpointsAreProven
    BY <1>3 DEF T!CheckpointsAreProven
  <1>6. Follows
    BY <1>2 DEF Follows, T!PlansOffTheWall
  <1> QED  BY <1>1, <1>3, <1>4, <1>5, <1>6 DEF TraceInvariant

LEMMA TurningKeeps ==
    ASSUME TraceInvariant, Turns, screen' \in Screens, proven' = proven
    PROVE  TraceInvariant'
  <1>1. TraceTypes' /\ browser'.typed <= drives'
    BY DEF TraceInvariant, TraceTypes, Turns
  <1>2. T!CheckpointsAreProven'
    BY DEF TraceInvariant, Turns, T!CheckpointsAreProven
  <1>3. Follows'
    BY DEF Turns, Follows, T!PlansOffTheWall
  <1> QED  BY <1>1, <1>2, <1>3 DEF TraceInvariant

(* How a drive ends: at rest, whatever it counted.                             *)

LEMMA RestingTurns ==
    ASSUME TraceInvariant, NEW status \in DriveReports, T!Rests(status),
           browser' \in BrowserStates, browser'.cp = browser.cp, browser'.typed <= drives
    PROVE  Turns
  <1>1. T!Resting \in DriveStates /\ T!Resting.pc = "rest"
    BY RestingIsADrive DEF TraceInvariant, TraceTypes
  <1> QED  BY <1>1 DEF T!Rests, Turns

LEMMA EndingTurns ==
    ASSUME TraceInvariant, NEW status \in DriveReports, T!Rests(status), UNCHANGED browser
    PROVE  Turns
  <1>1. browser' \in BrowserStates /\ browser'.cp = browser.cp /\ browser'.typed <= drives
    BY DEF TraceInvariant, TraceTypes
  <1> QED  BY <1>1, RestingTurns

LEMMA HandingOffTurns ==
    ASSUME TraceInvariant, NEW b \in BrowserStates, b.cp = browser.cp, b.typed <= drives,
           T!BoundedLoginHandoff(b)
    PROVE  Turns
  <1> DEFINE more == [b EXCEPT !.handoffs = @ + 1]
             status == IF b.handoffs >= MaxHandoffs THEN "failed" ELSE "human"
  <1>1. status \in DriveReports /\ T!Rests(status)
    BY DEF T!BoundedLoginHandoff, DriveReports
  <1>2. browser' = IF b.handoffs >= MaxHandoffs THEN b ELSE more
    BY DEF T!BoundedLoginHandoff
  <1>3. ASSUME ~(b.handoffs >= MaxHandoffs)
        PROVE  more \in BrowserStates /\ more.cp = b.cp /\ more.typed = b.typed
    <2>1. b.handoffs + 1 \in 0..MaxHandoffs
      BY <1>3, TraceBounds DEF BrowserStates
    <2> QED  BY <2>1 DEF BrowserStates
  <1>4. browser' \in BrowserStates /\ browser'.cp = browser.cp /\ browser'.typed <= drives
    BY <1>2, <1>3
  <1> HIDE DEF status
  <1> QED  BY <1>1, <1>4, RestingTurns

LEMMA ReadyTurns ==
    ASSUME TraceInvariant, T!ProvesGoal
    PROVE  Turns
  <1> DEFINE dark == [browser EXCEPT !.dark = TRUE]
  <1>1. browser' = dark /\ T!Rests("ready")
    BY DEF T!ProvesGoal
  <1>2. dark \in BrowserStates /\ dark.cp = browser.cp /\ dark.typed = browser.typed
    BY DEF TraceInvariant, TraceTypes, BrowserStates
  <1>3. browser.typed <= drives /\ "ready" \in DriveReports
    BY DEF TraceInvariant, DriveReports
  <1> HIDE DEF dark
  <1> QED  BY <1>1, <1>2, <1>3, RestingTurns

LEMMA AnswerTurns ==
    ASSUME TraceInvariant, NEW b \in BrowserStates, b.cp = browser.cp, b.typed <= drives,
           NEW said, T!Answers(said, b)
    PROVE  Turns
  <1>1. CASE T!BoundedLoginHandoff(b)
    BY <1>1, HandingOffTurns
  <1>2. CASE T!Rests("failed") /\ browser' = b
    BY <1>2, RestingTurns DEF DriveReports
  <1> QED  BY <1>1, <1>2 DEF T!Answers

LEMMA GoingTurns ==
    ASSUME TraceInvariant, NEW to \in {"target", "disposition", "loop"}, T!Goes(to),
           browser' \in BrowserStates, browser'.cp = browser.cp, browser'.typed <= drives
    PROVE  Turns /\ proven' = proven
  <1>1. [drive EXCEPT !.pc = to] \in DriveStates /\ [drive EXCEPT !.pc = to].pc = to
    BY DEF TraceInvariant, TraceTypes, DriveStates, DrivePlaces
  <1> QED  BY <1>1 DEF T!Goes, Turns, TraceInvariant, TraceTypes

LEMMA KeptBrowser ==
    ASSUME TraceInvariant
    PROVE  browser \in BrowserStates /\ browser.typed <= drives
  BY DEF TraceInvariant, TraceTypes

(* Beginning a drive                                                           *)

LEMMA NavigationKeepsTrace ==
    ASSUME TraceInvariant, T!NavigateOnboarding PROVE TraceInvariant'
  <1>1. screen' \in Screens /\ shifts' = shifts /\ browser' = browser /\ proven' = proven
        /\ drives' = 1 /\ drives = 0
    BY DEF T!NavigateOnboarding
  <1>2. browser.typed = 0 /\ browser.typed < drives' /\ drives' \in 0..MaxDrives
    BY <1>1, TraceBounds, TraceFields DEF TraceInvariant
  <1>3. drive' \in DriveStates /\ drive'.pc \in {"rest", "inject", "loop"}
        /\ report' \in DriveReports
    <2>1. CASE report' = "blocked" /\ drive' = drive
      BY <2>1 DEF TraceInvariant, TraceTypes, DriveReports, T!NavigateOnboarding
    <2>2. CASE \E secrets \in {"none", "pair"}, create \in BOOLEAN :
                 /\ drive' = [T!Resting EXCEPT !.pc = IF secrets = "none" THEN "loop" ELSE "inject",
                                               !.secrets = secrets, !.create = create]
                 /\ report' = report
      <3>1. T!Resting \in DriveStates
        BY RestingIsADrive DEF TraceInvariant, TraceTypes
      <3>2. PICK secrets \in {"none", "pair"}, create \in BOOLEAN :
              drive' = [T!Resting EXCEPT !.pc = IF secrets = "none" THEN "loop" ELSE "inject",
                                         !.secrets = secrets, !.create = create]
        BY <2>2
      <3>3. drive' \in DriveStates /\ drive'.pc \in {"loop", "inject"}
        BY <3>1, <3>2 DEF DriveStates, DrivePlaces
      <3> QED  BY <2>2, <3>3 DEF TraceInvariant, TraceTypes
    <2> QED  BY <2>1, <2>2 DEF T!NavigateOnboarding
  <1>4. TraceTypes' /\ browser'.typed <= drives'
    BY <1>1, <1>2, <1>3 DEF TraceInvariant, TraceTypes
  <1>5. T!CheckpointsAreProven'
    BY <1>1 DEF TraceInvariant, T!CheckpointsAreProven
  <1>6. Follows'
    BY <1>1, <1>2, <1>3 DEF Follows, T!PlansOffTheWall
  <1> QED  BY <1>4, <1>5, <1>6 DEF TraceInvariant

LEMMA ResumptionKeepsTrace ==
    ASSUME TraceInvariant, T!ResumeAfterHitl PROVE TraceInvariant'
  <1>1. UNCHANGED <<screen, shifts, browser, report, proven>> /\ drives' = drives + 1
        /\ drives < MaxDrives
    BY DEF T!ResumeAfterHitl
  <1>2. browser.typed < drives' /\ drives' \in 0..MaxDrives
    BY <1>1, TraceBounds, TraceFields DEF TraceInvariant, TraceTypes
  <1>3. drive' \in DriveStates /\ drive'.pc \in {"resumed", "inject"}
    <2>1. T!Resting \in DriveStates
      BY RestingIsADrive DEF TraceInvariant, TraceTypes
    <2>2. PICK secrets \in {"none", "pair", "code"}, create \in BOOLEAN :
            drive' = [T!Resting EXCEPT !.pc = IF secrets = "none" THEN "resumed" ELSE "inject",
                                       !.secrets = secrets, !.resume = TRUE, !.create = create]
      BY DEF T!ResumeAfterHitl
    <2> QED  BY <2>1, <2>2 DEF DriveStates, DrivePlaces
  <1>4. TraceTypes' /\ browser'.typed <= drives'
    <2>1. screen' \in Screens /\ shifts' \in 0..MaxShifts /\ browser' \in BrowserStates
          /\ report' \in DriveReports
      BY <1>1 DEF TraceInvariant, TraceTypes
    <2>2. browser'.typed <= drives'
      BY <1>1, <1>2, TraceFields DEF TraceInvariant
    <2> QED  BY <1>2, <1>3, <2>1, <2>2 DEF TraceTypes
  <1>5. T!CheckpointsAreProven'
    BY <1>1 DEF TraceInvariant, T!CheckpointsAreProven
  <1>6. Follows'
    BY <1>1, <1>2, <1>3 DEF Follows, T!PlansOffTheWall
  <1> QED  BY <1>4, <1>5, <1>6 DEF TraceInvariant

LEMMA HumanKeepsTrace ==
    ASSUME TraceInvariant, T!HumanActs PROVE TraceInvariant'
  <1>1. drive.pc = "rest" /\ screen' \in Screens
        /\ UNCHANGED <<shifts, browser, drive, drives, report, proven>>
    BY DEF T!HumanActs
  <1>2. Follows'
    BY <1>1 DEF Follows, T!PlansOffTheWall
  <1> QED  BY <1>1, <1>2 DEF TraceInvariant, TraceTypes, T!CheckpointsAreProven

(* The sign-in                                                                 *)

LEMMA InjectionKeepsTrace ==
    ASSUME TraceInvariant, T!InjectCredentials PROVE TraceInvariant'
  <1> DEFINE typed == [browser EXCEPT !.typed = @ + 1]
  <1>1. drive.pc = "inject" /\ proven' = proven /\ browser.typed < drives
    BY DEF T!InjectCredentials, TraceInvariant, Follows
  <1>2. typed \in BrowserStates /\ typed.cp = browser.cp /\ typed.typed <= drives
    <2>1. browser.typed + 1 \in 0..MaxDrives /\ browser.typed + 1 <= drives
      BY <1>1, TraceBounds, TraceFields DEF TraceInvariant, TraceTypes
    <2> QED  BY <2>1 DEF TraceInvariant, TraceTypes, BrowserStates
  <1> HIDE DEF typed
  <1>3. CASE T!ApplyResumeSecrets(screen.login)
    <2>1. screen' \in Screens /\ \/ T!InspectAfterLoginSubmit(typed)
                                 \/ T!Answers(T!LoginVerdict(screen'.login, TRUE), typed)
                                 \/ T!BoundedLoginHandoff(typed)
      BY <1>1, <1>3 DEF T!InjectCredentials, typed
    <2>2. CASE T!InspectAfterLoginSubmit(typed)
      <3>1. CASE T!BoundedLoginHandoff(typed)
        BY <1>1, <1>2, <2>1, <3>1, HandingOffTurns, TurningKeeps
      <3>2. CASE T!Goes("target") /\ browser' = typed
        BY <1>1, <1>2, <2>1, <3>2, GoingTurns, TurningKeeps
      <3> QED  BY <2>2, <3>1, <3>2 DEF T!InspectAfterLoginSubmit
    <2>3. CASE T!Answers(T!LoginVerdict(screen'.login, TRUE), typed)
      BY <1>1, <1>2, <2>1, <2>3, AnswerTurns, TurningKeeps
    <2>4. CASE T!BoundedLoginHandoff(typed)
      BY <1>1, <1>2, <2>1, <2>4, HandingOffTurns, TurningKeeps
    <2> QED  BY <2>1, <2>2, <2>3, <2>4
  <1>4. CASE ~T!ApplyResumeSecrets(screen.login)
    <2>1. screen' = screen /\ screen' \in Screens
      BY <1>4 DEF T!InjectCredentials, TraceInvariant, TraceTypes
    <2>2. \/ T!BoundedLoginHandoff(browser)
          \/ T!Answers(T!LoginVerdict(screen.login, TRUE), browser)
          \/ T!Goes("target") /\ UNCHANGED browser
      BY <1>4 DEF T!InjectCredentials
    <2>3. CASE T!BoundedLoginHandoff(browser)
      BY <1>1, <2>1, <2>3, KeptBrowser, HandingOffTurns, TurningKeeps
    <2>4. CASE T!Answers(T!LoginVerdict(screen.login, TRUE), browser)
      BY <1>1, <2>1, <2>4, KeptBrowser, AnswerTurns, TurningKeeps
    <2>5. CASE T!Goes("target") /\ UNCHANGED browser
      BY <1>1, <2>1, <2>5, KeptBrowser, GoingTurns, TurningKeeps
    <2> QED  BY <2>2, <2>3, <2>4, <2>5
  <1> QED  BY <1>3, <1>4

LEMMA StoppedInjectionKeepsTrace ==
    ASSUME TraceInvariant, T!InjectionStops PROVE TraceInvariant'
  <1>1. screen' \in Screens /\ proven' = proven
    BY DEF T!InjectionStops, TraceInvariant, TraceTypes
  <1>2. CASE T!BoundedLoginHandoff(browser)
    BY <1>1, <1>2, KeptBrowser, HandingOffTurns, TurningKeeps
  <1>3. CASE T!Rests("failed") /\ UNCHANGED browser
    BY <1>1, <1>3, EndingTurns, TurningKeeps DEF DriveReports
  <1>4. CASE T!Goes("loop") /\ UNCHANGED browser
    BY <1>1, <1>4, KeptBrowser, GoingTurns, TurningKeeps
  <1> QED  BY <1>2, <1>3, <1>4 DEF T!InjectionStops

LEMMA ProbeKeepsTrace ==
    ASSUME TraceInvariant, T!ProbeTarget PROVE TraceInvariant'
  <1> DEFINE probed == [browser EXCEPT !.probed = TRUE]
  <1>1. probed \in BrowserStates /\ probed.cp = browser.cp /\ probed.typed = browser.typed
    BY DEF TraceInvariant, TraceTypes, BrowserStates
  <1>2. screen' \in Screens
    BY DEF T!ProbeTarget, TraceInvariant, TraceTypes
  <1> HIDE DEF probed
  <1>3. CASE T!Goes("disposition") /\ UNCHANGED browser
    BY <1>2, <1>3, KeptBrowser, GoingTurns, TurningKeeps
  <1>4. CASE T!Rests("failed") /\ proven' = proven /\ browser' = probed
    <2>1. Turns
      BY <1>1, <1>4, KeptBrowser, RestingTurns DEF DriveReports
    <2> QED  BY <1>2, <1>4, <2>1, TurningKeeps
  <1>5. CASE T!Goes("disposition") /\ browser' = probed
    <2>1. Turns /\ proven' = proven
      BY <1>1, <1>5, KeptBrowser, GoingTurns
    <2> QED  BY <1>2, <2>1, TurningKeeps
  <1> QED  BY <1>3, <1>4, <1>5 DEF T!ProbeTarget, probed

LEMMA WallTurns ==
    ASSUME TraceInvariant, T!Wall PROVE Turns
  <1>1. CASE T!Rests("blocked") /\ UNCHANGED browser
    BY <1>1, EndingTurns DEF DriveReports
  <1>2. CASE T!ProvesGoal
    BY <1>2, ReadyTurns
  <1>3. CASE T!Answers(T!LoginVerdict(screen.login, FALSE), browser)
    BY <1>3, KeptBrowser, AnswerTurns
  <1>4. CASE T!BoundedLoginHandoff(browser)
    BY <1>4, KeptBrowser, HandingOffTurns
  <1>5. CASE T!Rests("failed") /\ UNCHANGED browser
    BY <1>5, EndingTurns DEF DriveReports
  <1> QED  BY <1>1, <1>2, <1>3, <1>4, <1>5 DEF T!Wall

LEMMA DispositionKeepsTrace ==
    ASSUME TraceInvariant, T!LoginDispositionAfterTarget PROVE TraceInvariant'
  <1>1. screen' \in Screens /\ proven' = proven
    BY DEF T!LoginDispositionAfterTarget, TraceInvariant, TraceTypes
  <1>2. CASE T!Wall
    BY <1>1, <1>2, WallTurns, TurningKeeps
  <1>3. CASE T!Goes("loop") /\ UNCHANGED browser
    BY <1>1, <1>3, KeptBrowser, GoingTurns, TurningKeeps
  <1> QED  BY <1>2, <1>3 DEF T!LoginDispositionAfterTarget

LEMMA ResumedLoginKeepsTrace ==
    ASSUME TraceInvariant, T!ResumeLoginAfterHitl PROVE TraceInvariant'
  <1> DEFINE retried == [browser EXCEPT !.retried = TRUE]
  <1>1. screen' \in Screens /\ proven' = proven
    BY DEF T!ResumeLoginAfterHitl, TraceInvariant, TraceTypes
  <1>2. retried \in BrowserStates /\ retried.cp = browser.cp /\ retried.typed = browser.typed
    BY DEF TraceInvariant, TraceTypes, BrowserStates
  <1> HIDE DEF retried
  <1>3. CASE T!Wall
    BY <1>1, <1>3, WallTurns, TurningKeeps
  <1>4. CASE T!Goes("disposition") /\ UNCHANGED browser
    BY <1>1, <1>4, KeptBrowser, GoingTurns, TurningKeeps
  <1>5. CASE T!Rests("failed") /\ browser' = retried
    <2>1. Turns
      BY <1>2, <1>5, KeptBrowser, RestingTurns DEF DriveReports
    <2> QED  BY <1>1, <2>1, TurningKeeps
  <1>6. CASE T!Goes("disposition") /\ browser' = retried
    <2>1. Turns
      BY <1>2, <1>6, KeptBrowser, GoingTurns
    <2> QED  BY <1>1, <2>1, TurningKeeps
  <1> QED  BY <1>3, <1>4, <1>5, <1>6 DEF T!ResumeLoginAfterHitl, retried

(* One step of the loop                                                        *)

LEMMA EndKeepsTrace ==
    ASSUME TraceInvariant, NEW status \in DriveReports, T!Ends(status), screen' \in Screens
    PROVE  TraceInvariant'
  <1>1. Turns /\ proven' = proven
    BY EndingTurns DEF T!Ends
  <1> QED  BY <1>1, TurningKeeps

LEMMA InspectionKeepsTrace ==
    ASSUME TraceInvariant, T!Inspect PROVE TraceInvariant'
  <1>1. screen' = screen /\ screen \in Screens
    BY DEF T!Inspect, TraceInvariant, TraceTypes
  <1>2. ASSUME NEW status \in {"human", "failed", "blocked"}, T!Ends(status)
        PROVE  TraceInvariant'
    BY <1>1, <1>2, EndKeepsTrace DEF DriveReports
  <1>3. CASE T!ProvesGoal /\ UNCHANGED proven
    BY <1>1, <1>3, ReadyTurns, TurningKeeps
  <1>4. CASE /\ drive.steps < MaxSteps /\ drive' = T!Stepped
             /\ UNCHANGED <<shifts, browser, drives, report, proven>>
    <2>1. drive.steps + 1 \in 0..MaxSteps
      BY <1>4, TraceBounds, TraceFields DEF TraceInvariant
    <2>2. drive' \in DriveStates /\ drive'.pc = "gates" /\ drive'.at = screen
      BY <1>1, <1>4, <2>1 DEF T!Stepped, TraceInvariant, TraceTypes, DriveStates, DrivePlaces
    <2>3. Follows'
      BY <1>1, <2>2 DEF Follows, T!PlansOffTheWall
    <2> QED  BY <1>1, <1>4, <2>2, <2>3 DEF TraceInvariant, TraceTypes, T!CheckpointsAreProven
  <1> QED  BY <1>2, <1>3, <1>4 DEF T!Inspect

LEMMA ReachedIsProven ==
    ASSUME NEW s, NEW cp \in 1..(Checkpoints + 1)
    PROVE  /\ T!Reached(s, cp) \in cp..(Checkpoints + 1)
           /\ \A j \in cp..(T!Reached(s, cp) - 1) : T!Proves(s, j)
  <1> DEFINE open == {k \in cp..(Checkpoints + 1) : k = Checkpoints + 1 \/ ~T!Proves(s, k)}
             Is(k) == /\ \A j \in cp..(k - 1) : T!Proves(s, j)
                      /\ k = Checkpoints + 1 \/ ~T!Proves(s, k)
  <1>1. Checkpoints + 1 \in open /\ open \subseteq Nat
    BY TraceBounds
  <1>2. PICK k \in open : \A j \in open : k <= j
    BY <1>1, LeastOfSet
  <1>3. Is(k)
    <2>1. ASSUME NEW j \in cp..(k - 1) PROVE T!Proves(s, j)
      <3>1. j \in cp..(Checkpoints + 1) /\ ~(k <= j)
        BY <1>1, <2>1, TraceBounds
      <3> QED  BY <1>2, <3>1
    <2> QED  BY <2>1
  <1>4. \E i \in cp..(Checkpoints + 1) : Is(i)
    BY <1>3
  <1>5. T!Reached(s, cp) = CHOOSE i \in cp..(Checkpoints + 1) : Is(i)
    BY DEF T!Reached
  <1> HIDE DEF Is
  <1>6. T!Reached(s, cp) \in cp..(Checkpoints + 1) /\ Is(T!Reached(s, cp))
    BY <1>4, <1>5
  <1> QED  BY <1>6 DEF Is

LEMMA GatesKeepTrace ==
    ASSUME TraceInvariant, T!CheckGates PROVE TraceInvariant'
  <1> DEFINE cp == T!Reached(drive.at, browser.cp)
             again == drive.repeated[drive.at] + 1
             moved == [browser EXCEPT !.cp = cp]
             chosen_ == [drive EXCEPT !.pc = "choose", !.repeated[drive.at] = again]
  <1>1. drive.pc = "gates" /\ screen' = screen /\ screen \in Screens /\ TraceTypes
    BY DEF T!CheckGates, TraceInvariant, TraceTypes
  <1>2. ASSUME NEW status \in DriveReports, T!Rests(status), UNCHANGED <<browser, proven>>
        PROVE  TraceInvariant'
    BY <1>1, <1>2, EndingTurns, TurningKeeps
  <1>3. CASE T!BoundedLoginHandoff(browser) /\ UNCHANGED proven
    BY <1>1, <1>3, KeptBrowser, HandingOffTurns, TurningKeeps
  <1>4. CASE /\ ~T!WallInLoop
             /\ browser' = moved
             /\ proven' = proven \cup {k \in 1..Checkpoints : T!Proves(drive.at, k)}
             /\ \/ /\ cp > Checkpoints \/ T!NeedsHuman(cp)
                   /\ drive' = T!Resting /\ report' = "human"
                \/ /\ cp <= Checkpoints /\ ~T!NeedsHuman(cp)
                   /\ drive' = chosen_ /\ report' = report
             /\ UNCHANGED <<shifts, drives>>
    <2>1. /\ browser.cp \in 1..(Checkpoints + 1) /\ browser.cp \in Nat
          /\ cp \in browser.cp..(Checkpoints + 1)
          /\ \A j \in browser.cp..(cp - 1) : T!Proves(drive.at, j)
      BY <1>1, TraceFields, TraceBounds, ReachedIsProven
    <2>2. cp \in 1..(Checkpoints + 1)
      BY <2>1, TraceBounds
    <2> HIDE DEF cp
    <2>3. moved \in BrowserStates /\ moved.cp = cp /\ moved.typed = browser.typed
      BY <1>1, <2>2 DEF TraceTypes, BrowserStates
    <2>4. T!CheckpointsAreProven'
      <3> SUFFICES ASSUME NEW k \in 1..(cp - 1) PROVE k \in proven'
        BY <1>4, <2>3 DEF T!CheckpointsAreProven
      <3>1. CASE k \in 1..(browser.cp - 1)
        BY <1>4, <3>1 DEF TraceInvariant, T!CheckpointsAreProven
      <3>2. CASE k \notin 1..(browser.cp - 1)
        <4>1. k \in browser.cp..(cp - 1) /\ k \in 1..Checkpoints
          BY <2>1, <2>2, <3>2, TraceBounds
        <4> QED  BY <1>4, <2>1, <4>1
      <3> QED  BY <3>1, <3>2
    <2>5. CASE drive' = T!Resting /\ report' = "human"
      <3>1. drive' \in DriveStates /\ drive'.pc = "rest"
        BY <1>1, <2>5, RestingIsADrive
      <3>2. Follows'
        BY <3>1 DEF Follows, T!PlansOffTheWall
      <3>3. TraceTypes' /\ browser'.typed <= drives'
        BY <1>1, <1>4, <2>3, <2>5, <3>1 DEF TraceInvariant, TraceTypes, DriveReports
      <3> QED  BY <2>4, <3>2, <3>3 DEF TraceInvariant
    <2>6. CASE cp <= Checkpoints /\ drive' = chosen_ /\ report' = report
      <3>1. drive.repeated \in [Screens -> Nat] /\ drive.at \in Screens /\ again \in Nat
        BY <1>1, TraceFields
      <3>2. [drive.repeated EXCEPT ![drive.at] = again] \in [Screens -> Nat]
        BY <3>1
      <3>3. chosen_ = [drive EXCEPT !.pc = "choose",
                                    !.repeated = [drive.repeated EXCEPT ![drive.at] = again]]
        BY <1>1 DEF TraceTypes, DriveStates
      <3> HIDE DEF again
      <3>4. /\ drive' \in DriveStates /\ drive'.pc = "choose" /\ drive'.at = drive.at
            /\ drive'.moved = drive.moved /\ drive'.secrets = drive.secrets
        BY <1>1, <2>6, <3>2, <3>3 DEF TraceTypes, DriveStates, DrivePlaces
      <3>5. drive.secrets = "none" /\ ~drive.moved => drive.at.login = "none"
        BY <1>1, <1>4 DEF TraceInvariant, Follows, T!WallInLoop
      <3>6. Follows'
        BY <1>4, <2>3, <2>6, <3>4, <3>5 DEF Follows, T!PlansOffTheWall
      <3>7. TraceTypes' /\ browser'.typed <= drives'
        BY <1>1, <1>4, <2>3, <2>6, <3>4 DEF TraceInvariant, TraceTypes
      <3> QED  BY <2>4, <3>6, <3>7 DEF TraceInvariant
    <2> QED  BY <1>4, <2>5, <2>6
  <1> QED  BY <1>2, <1>3, <1>4 DEF T!CheckGates, T!Ends, DriveReports

LEMMA ChoiceKeepsTrace ==
    ASSUME TraceInvariant, T!ChooseCandidate PROVE TraceInvariant'
  <1>1. drive.pc = "choose" /\ screen' = screen /\ screen \in Screens /\ TraceTypes
        /\ browser.cp <= Checkpoints
    BY DEF T!ChooseCandidate, TraceInvariant, TraceTypes, Follows
  <1>2. CASE T!Goes("execute") /\ UNCHANGED browser
    <2>1. drive' \in DriveStates /\ drive'.pc = "execute"
      BY <1>1, <1>2 DEF T!Goes, TraceTypes, DriveStates, DrivePlaces
    <2>2. Follows'
      BY <1>1, <1>2, <2>1 DEF Follows, T!PlansOffTheWall
    <2> QED  BY <1>1, <1>2, <2>1, <2>2
             DEF T!Goes, TraceInvariant, TraceTypes, T!CheckpointsAreProven
  <1>3. CASE T!Ends("human")
    BY <1>1, <1>3, EndKeepsTrace DEF DriveReports
  <1>4. CASE /\ drive.modelFails + 1 < MaxModelFails
             /\ drive' = [drive EXCEPT !.pc = "loop", !.modelFails = @ + 1]
             /\ UNCHANGED <<shifts, browser, drives, report, proven>>
    <2>1. drive.modelFails + 1 \in 0..(MaxModelFails - 1)
      BY <1>1, <1>4, TraceBounds, TraceFields
    <2>2. drive' \in DriveStates /\ drive'.pc = "loop"
      BY <1>1, <1>4, <2>1 DEF TraceTypes, DriveStates, DrivePlaces
    <2>3. Turns
      BY <1>4, <2>2 DEF Turns, TraceInvariant, TraceTypes
    <2> QED  BY <1>1, <1>4, <2>3, TurningKeeps
  <1> QED  BY <1>2, <1>3, <1>4 DEF T!ChooseCandidate

LEMMA FailedActKeepsTrace ==
    ASSUME TraceInvariant, T!ActFailed, screen' \in Screens PROVE TraceInvariant'
  <1>1. CASE T!Ends("failed")
    BY <1>1, EndKeepsTrace DEF DriveReports
  <1>2. CASE /\ ~(drive.actFails + 1 >= MaxActFails)
             /\ drive' = [drive EXCEPT !.pc = "loop", !.actFails = @ + 1]
             /\ UNCHANGED <<shifts, browser, drives, report, proven>>
    <2>1. drive.actFails + 1 \in 0..(MaxActFails - 1)
      BY <1>2, TraceBounds, TraceFields DEF TraceInvariant
    <2>2. drive' \in DriveStates /\ drive'.pc = "loop"
      BY <1>2, <2>1 DEF TraceInvariant, TraceTypes, DriveStates, DrivePlaces
    <2>3. Turns
      BY <1>2, <2>2 DEF Turns, TraceInvariant, TraceTypes
    <2> QED  BY <1>2, <2>3, TurningKeeps
  <1> QED  BY <1>1, <1>2 DEF T!ActFailed

LEMMA ExecutionKeepsTrace ==
    ASSUME TraceInvariant, T!ExecuteCandidate PROVE TraceInvariant'
  <1>1. drive.pc = "execute" /\ screen' \in Screens /\ TraceTypes /\ browser.cp <= Checkpoints
    BY DEF T!ExecuteCandidate, TraceInvariant, TraceTypes, Follows
  <1>2. CASE T!Ends("blocked")
    BY <1>1, <1>2, EndKeepsTrace DEF DriveReports
  <1>3. CASE T!ActFailed
    BY <1>1, <1>3, FailedActKeepsTrace
  <1>4. CASE T!Goes("loop") /\ UNCHANGED browser
    BY <1>1, <1>4, KeptBrowser, GoingTurns, TurningKeeps
  <1>5. CASE T!Goes("after") /\ UNCHANGED browser
    <2>1. drive' \in DriveStates /\ drive'.pc = "after"
      BY <1>1, <1>5 DEF T!Goes, TraceTypes, DriveStates, DrivePlaces
    <2>2. Follows'
      BY <1>1, <1>5, <2>1 DEF Follows, T!PlansOffTheWall
    <2> QED  BY <1>1, <1>5, <2>1, <2>2
             DEF T!Goes, TraceInvariant, TraceTypes, T!CheckpointsAreProven
  <1> QED  BY <1>2, <1>3, <1>4, <1>5 DEF T!ExecuteCandidate

LEMMA TransitionKeepsTrace ==
    ASSUME TraceInvariant, T!VerifyTransition PROVE TraceInvariant'
  <1> DEFINE passed == [browser EXCEPT !.cp = @ + 1]
  <1>1. drive.pc = "after" /\ screen' = screen /\ screen' \in Screens /\ TraceTypes
        /\ browser.cp <= Checkpoints
    BY DEF T!VerifyTransition, TraceInvariant, TraceTypes, Follows
  <1>2. ASSUME NEW status \in {"human", "blocked"}, T!Ends(status) PROVE TraceInvariant'
    BY <1>1, <1>2, EndKeepsTrace DEF DriveReports
  <1>3. CASE T!ActFailed
    BY <1>1, <1>3, FailedActKeepsTrace
  <1>4. CASE T!Goes("loop") /\ UNCHANGED browser
    BY <1>1, <1>4, KeptBrowser, GoingTurns, TurningKeeps
  <1>5. CASE /\ browser' = passed /\ proven' = proven \cup {browser.cp}
             /\ drive' = [drive EXCEPT !.pc = "loop"] /\ UNCHANGED <<shifts, drives, report>>
    <2>1. browser.cp \in 1..(Checkpoints + 1) /\ browser.cp + 1 \in 1..(Checkpoints + 1)
      BY <1>1, TraceBounds, TraceFields
    <2>2. passed \in BrowserStates /\ passed.cp = browser.cp + 1 /\ passed.typed = browser.typed
      BY <1>1, <2>1 DEF TraceTypes, BrowserStates
    <2>3. drive' \in DriveStates /\ drive'.pc = "loop"
      BY <1>1, <1>5 DEF TraceTypes, DriveStates, DrivePlaces
    <2>4. T!CheckpointsAreProven'
      <3> SUFFICES ASSUME NEW k \in 1..((browser.cp + 1) - 1) PROVE k \in proven'
        BY <1>5, <2>2 DEF T!CheckpointsAreProven
      <3>1. k = browser.cp \/ k \in 1..(browser.cp - 1)
        BY <2>1
      <3> QED  BY <1>5, <3>1 DEF TraceInvariant, T!CheckpointsAreProven
    <2>5. Follows'
      BY <2>3 DEF Follows, T!PlansOffTheWall
    <2>6. TraceTypes' /\ browser'.typed <= drives'
      BY <1>1, <1>5, <2>2, <2>3 DEF TraceInvariant, TraceTypes
    <2> QED  BY <2>4, <2>5, <2>6 DEF TraceInvariant
  <1> QED  BY <1>2, <1>3, <1>4, <1>5 DEF T!VerifyTransition

LEMMA ShiftKeepsTrace ==
    ASSUME TraceInvariant, T!ScreenShifts PROVE TraceInvariant'
  <1>1. /\ drive.pc # "rest" /\ shifts < MaxShifts /\ shifts' = shifts + 1
        /\ screen' \in Screens /\ drive' = [drive EXCEPT !.moved = TRUE]
        /\ UNCHANGED <<browser, drives, report, proven>>
    BY DEF T!ScreenShifts
  <1>2. shifts' \in 0..MaxShifts
    BY <1>1, TraceBounds DEF TraceInvariant, TraceTypes
  <1>3. drive' \in DriveStates /\ drive'.pc = drive.pc /\ drive'.moved = TRUE
    BY <1>1 DEF TraceInvariant, TraceTypes, DriveStates
  <1>4. Follows'
    BY <1>1, <1>3 DEF TraceInvariant, Follows, T!PlansOffTheWall
  <1> QED  BY <1>1, <1>2, <1>3, <1>4 DEF TraceInvariant, TraceTypes, T!CheckpointsAreProven

LEMMA TraceStep ==
    ASSUME TraceInvariant, T!TNext PROVE TraceInvariant'
  <1>1. CASE T!DriveStep
    BY <1>1, InjectionKeepsTrace, StoppedInjectionKeepsTrace, ProbeKeepsTrace,
       DispositionKeepsTrace, ResumedLoginKeepsTrace, InspectionKeepsTrace, GatesKeepTrace,
       ChoiceKeepsTrace, ExecutionKeepsTrace, TransitionKeepsTrace DEF T!DriveStep
  <1> QED  BY <1>1, NavigationKeepsTrace, ResumptionKeepsTrace, HumanKeepsTrace,
           ShiftKeepsTrace DEF T!TNext

LEMMA TraceStutters ==
    ASSUME TraceInvariant, UNCHANGED traced PROVE TraceInvariant'
  BY DEF traced, TraceInvariant, TraceTypes, Follows, T!CheckpointsAreProven, T!PlansOffTheWall

LEMMA TraceInvariantSuffices ==
    ASSUME TraceInvariant
    PROVE  T!TTypeOK /\ T!CheckpointsAreProven /\ T!PlansOffTheWall
  <1>1. {browser.probed, browser.retried, browser.dark} \subseteq BOOLEAN
    BY TraceFields DEF TraceInvariant
  <1>2. T!TTypeOK
    BY <1>1, TraceFields DEF TraceInvariant, TraceTypes, T!TTypeOK, DrivePlaces, DriveReports
  <1> QED  BY <1>2 DEF TraceInvariant, Follows

-----------------------------------------------------------------------------
(* SignupForm                                                                 *)

SheetStates == [page : Sheets, kept : BOOLEAN, ticked : BOOLEAN]

SheetPaths == {p.path : p \in Sheets} \cup {F!NoPath}
Kinds == {"failed", "captcha", "gate", "moved", "unverified"}

FormStates == [filled : BOOLEAN, emailFilled : BOOLEAN, emailSubmitted : BOOLEAN,
               emailDone : BOOLEAN, submitted : BOOLEAN, pending : BOOLEAN,
               legalIssued : BOOLEAN, handedOff : BOOLEAN, handoffs : 0..MaxPauses,
               pendingPath : SheetPaths, submittedPath : SheetPaths,
               flow : {"none", "email_first", "email_password"},
               evidence : Kinds \cup {"none", "click"}]

CallPlaces == {"rest", "secret", "route", "step", "fill", "submit"}
CallStates == [pc : CallPlaces, signal : {"none", "human_completed", "captcha_completed"},
               secrets : {"none", "pair", "code"}]

TallyStates == [email : 0..1, final : 0..1, idp : 0..1, human : 0..1, unasked : BOOLEAN]

SignupTypes ==
    /\ sheet \in SheetStates /\ form \in FormStates /\ call \in CallStates
    /\ calls \in 0..MaxSignups /\ tally \in TallyStates
    /\ answer \in {"none", "human", "failed", "continue"}

\* What the session remembers of what was clicked: every step that went out is marked as
\* sent, and a form that waits for a person, or that a person sent, was not sent by code.
Remembered(f, t) ==
    /\ t.email = 1 => f.emailSubmitted
    /\ t.final = 1 => f.submitted
    /\ t.idp = 1 => f.handedOff
    /\ f.pending => t.final = 0
    /\ t.human = 1 => t.final = 0 /\ (f.pending \/ f.submitted)
    /\ policy = "none" => ~t.unasked

StepOf(f) ==
    IF f.flow = "email_password" THEN "pair" ELSE IF f.emailDone THEN "password" ELSE "email"

\* A form is filled, or about to be submitted, only for a step that has not gone out and
\* that no person was asked to send.
MaySend(f) ==
    /\ ~f.pending
    /\ StepOf(f) = "email" => ~f.emailSubmitted
    /\ StepOf(f) # "email" => ~f.submitted

SignupInvariant ==
    /\ SignupTypes /\ Remembered(form, tally)
    /\ call.pc \in {"fill", "submit"} => MaySend(form)

LEMMA SignupBounds ==
    MaxPauses \in Nat /\ MaxSignups \in Nat
  BY BrowserAgentAssumption DEF BrowserAgentAssumption, F!SignupAssumption

LEMMA SignupFields ==
    ASSUME SignupTypes
    PROVE  /\ sheet.page \in Sheets /\ sheet.kept \in BOOLEAN /\ sheet.ticked \in BOOLEAN
           /\ form.handoffs \in 0..MaxPauses
           /\ form.flow \in {"none", "email_first", "email_password"}
           /\ call.pc \in CallPlaces
           /\ call.signal \in {"none", "human_completed", "captcha_completed"}
           /\ call.secrets \in {"none", "pair", "code"}
           /\ tally.email \in 0..1 /\ tally.final \in 0..1 /\ tally.idp \in 0..1
           /\ tally.human \in 0..1
  BY DEF SignupTypes, SheetStates, FormStates, CallStates, TallyStates

LEMMA FreshIsASheet ==
    ASSUME NEW p \in Sheets PROVE F!Fresh(p) \in SheetStates
  BY DEF F!Fresh, SheetStates

LEMMA SignupInitially ==
    ASSUME F!FInit PROVE SignupInvariant
  <1>1. sheet \in SheetStates
    BY FreshIsASheet DEF F!FInit
  <1>2. 0 \in 0..MaxPauses /\ 0 \in 0..MaxSignups
    BY SignupBounds
  <1>3. form \in FormStates /\ ~form.pending /\ ~form.submitted
    BY <1>2 DEF F!FInit, FormStates, SheetPaths
  <1>4. /\ tally \in TallyStates /\ tally.email = 0 /\ tally.final = 0 /\ tally.idp = 0
        /\ tally.human = 0 /\ ~tally.unasked
    BY DEF F!FInit, TallyStates
  <1>5. call \in CallStates /\ call.pc = "rest" /\ calls = 0 /\ answer = "none"
    BY DEF F!FInit, F!AtRest, CallStates, CallPlaces
  <1>6. Remembered(form, tally)
    BY <1>3, <1>4 DEF Remembered
  <1> QED  BY <1>1, <1>2, <1>3, <1>4, <1>5, <1>6 DEF SignupInvariant, SignupTypes

(* How a call ends, and how it goes on.                                        *)

LEMMA ReturnKeepsSignup ==
    ASSUME SignupInvariant, NEW f \in FormStates, NEW status \in {"human", "failed", "continue"},
           F!Returns(status, f), sheet' \in SheetStates, tally' \in TallyStates,
           Remembered(f, tally')
    PROVE  SignupInvariant'
  <1> DEFINE more == [f EXCEPT !.handoffs = @ + (IF answer' = "human" THEN 1 ELSE 0)]
  <1>1. /\ answer' = IF status = "human" /\ f.handoffs >= MaxPauses THEN "failed" ELSE status
        /\ form' = more /\ call' = F!AtRest /\ calls' = calls /\ policy' = policy
    BY DEF F!Returns, F!HandoffBudget
  <1>2. f.handoffs + (IF answer' = "human" THEN 1 ELSE 0) \in 0..MaxPauses
    BY <1>1, SignupBounds DEF FormStates
  <1>3. more \in FormStates
    BY <1>2 DEF FormStates
  <1>4. /\ more.emailSubmitted = f.emailSubmitted /\ more.submitted = f.submitted
        /\ more.handedOff = f.handedOff /\ more.pending = f.pending
    BY DEF FormStates
  <1> HIDE DEF more
  <1>5. call' \in CallStates /\ call'.pc = "rest"
    BY <1>1 DEF F!AtRest, CallStates, CallPlaces
  <1>6. answer' \in {"none", "human", "failed", "continue"}
    BY <1>1
  <1>7. Remembered(form, tally)'
    BY <1>1, <1>4 DEF Remembered
  <1>8. SignupTypes'
    BY <1>1, <1>3, <1>5, <1>6 DEF SignupInvariant, SignupTypes
  <1> QED  BY <1>5, <1>7, <1>8 DEF SignupInvariant

LEMMA GoingKeepsSignup ==
    ASSUME SignupInvariant, NEW f \in FormStates, NEW to \in CallPlaces, F!Goes(to, f),
           sheet' \in SheetStates, tally' \in TallyStates, Remembered(f, tally'),
           to \in {"fill", "submit"} => MaySend(f)
    PROVE  SignupInvariant'
  <1>1. call' \in CallStates /\ call'.pc = to
    BY DEF F!Goes, SignupInvariant, SignupTypes, CallStates
  <1>2. form' = f /\ calls' = calls /\ policy' = policy /\ answer' = answer
    BY DEF F!Goes
  <1>3. Remembered(form, tally)' /\ (call'.pc \in {"fill", "submit"} => MaySend(form)')
    BY <1>1, <1>2 DEF Remembered, MaySend, StepOf
  <1>4. SignupTypes'
    BY <1>1, <1>2 DEF SignupInvariant, SignupTypes
  <1> QED  BY <1>3, <1>4 DEF SignupInvariant

LEMMA StandingForm ==
    ASSUME SignupInvariant
    PROVE  /\ form \in FormStates /\ tally \in TallyStates /\ sheet \in SheetStates
           /\ Remembered(form, tally)
  BY DEF SignupInvariant, SignupTypes

LEMMA PlainReturnKeepsSignup ==
    ASSUME SignupInvariant, NEW status \in {"human", "failed", "continue"},
           F!Returns(status, form), UNCHANGED tally, sheet' \in SheetStates
    PROVE  SignupInvariant'
  <1>1. Remembered(form, tally')
    BY StandingForm DEF Remembered
  <1> QED  BY <1>1, StandingForm, ReturnKeepsSignup

LEMMA PauseKeepsSignup ==
    ASSUME SignupInvariant, F!Pauses \/ F!Fails PROVE SignupInvariant'
  BY PlainReturnKeepsSignup, StandingForm DEF F!Pauses, F!Fails

LEMMA PlainGoingKeepsSignup ==
    ASSUME SignupInvariant, NEW to \in CallPlaces, F!Goes(to, form), UNCHANGED tally,
           sheet' \in SheetStates, to \in {"fill", "submit"} => MaySend(form)
    PROVE  SignupInvariant'
  <1>1. Remembered(form, tally')
    BY StandingForm DEF Remembered
  <1> QED  BY <1>1, StandingForm, GoingKeepsSignup

LEMMA KindHasAStatus ==
    ASSUME NEW p, NEW before
    PROVE  /\ F!Classify(p, before) \in Kinds
           /\ \A kind \in Kinds : F!Status(kind) \in {"human", "failed", "continue"}
  BY DEF F!Classify, F!Status, Kinds

LEMMA StatusReturnKeepsSignup ==
    ASSUME SignupInvariant, NEW p, NEW before, UNCHANGED <<sheet, tally>>,
           F!Returns(F!Status(F!Classify(p, before)), form)
    PROVE  SignupInvariant'
  <1>1. F!Status(F!Classify(p, before)) \in {"human", "failed", "continue"}
    BY KindHasAStatus
  <1> QED  BY <1>1, StandingForm, PlainReturnKeepsSignup

LEMMA HandoffKeepsSignup ==
    ASSUME SignupInvariant, F!HandoffOrPause PROVE SignupInvariant'
  <1>1. CASE F!Pauses
    BY <1>1, PauseKeepsSignup
  <1>2. CASE F!IdentityHandoff
    <2> DEFINE f == [form EXCEPT !.handedOff = TRUE]
               t == [tally EXCEPT !.idp = @ + 1]
    <2>1. /\ ~form.handedOff /\ tally' = t /\ sheet' \in SheetStates
          /\ F!Returns("failed", f) \/ F!Returns("human", f)
      BY <1>2, FreshIsASheet DEF F!IdentityHandoff
    <2>2. tally.idp + 1 = 1
      BY <2>1, StandingForm DEF Remembered, TallyStates
    <2>3. /\ t \in TallyStates /\ t.email = tally.email /\ t.final = tally.final
          /\ t.human = tally.human /\ t.unasked = tally.unasked
      BY <2>2, StandingForm DEF TallyStates
    <2>4. /\ f \in FormStates /\ f.emailSubmitted = form.emailSubmitted
          /\ f.submitted = form.submitted /\ f.pending = form.pending /\ f.handedOff
      BY StandingForm DEF FormStates
    <2> HIDE DEF f, t
    <2>5. Remembered(f, t)
      BY <2>3, <2>4, StandingForm DEF Remembered
    <2> QED  BY <2>1, <2>3, <2>4, <2>5, ReturnKeepsSignup
  <1> QED  BY <1>1, <1>2 DEF F!HandoffOrPause

(* A call, and what it reads first                                             *)

LEMMA BeginningKeepsSignup ==
    ASSUME SignupInvariant, F!BeginSignup PROVE SignupInvariant'
  <1>1. /\ calls < MaxSignups /\ calls' = calls + 1
        /\ UNCHANGED <<sheet, form, tally, policy, answer>>
    BY DEF F!BeginSignup
  <1>2. calls' \in 0..MaxSignups
    BY <1>1, SignupBounds DEF SignupInvariant, SignupTypes
  <1>3. PICK signal \in {"human_completed", "captcha_completed"}, secrets \in {"none", "pair", "code"} :
          call' = [pc |-> IF F!ContinuationReady(secrets) THEN "secret" ELSE "route",
                   signal |-> IF calls = 0 THEN "none" ELSE signal, secrets |-> secrets]
    BY DEF F!BeginSignup
  <1>4. call' \in CallStates /\ call'.pc \in {"secret", "route"}
    BY <1>3 DEF CallStates, CallPlaces
  <1>5. Remembered(form, tally)'
    BY <1>1, StandingForm DEF Remembered
  <1> QED  BY <1>1, <1>2, <1>4, <1>5 DEF SignupInvariant, SignupTypes

LEMMA ContinuationKeepsSignup ==
    ASSUME SignupInvariant, F!InjectContinuation PROVE SignupInvariant'
  <1>1. tally' = tally /\ sheet' \in SheetStates
    BY FreshIsASheet DEF F!InjectContinuation
  <1>2. CASE F!Goes("route", form)
    BY <1>1, <1>2, PlainGoingKeepsSignup DEF CallPlaces
  <1>3. CASE answer' \in {"human", "failed"} /\ call' = F!AtRest /\ UNCHANGED <<form, calls, policy>>
    <2>1. call' \in CallStates /\ call'.pc = "rest"
      BY <1>3 DEF F!AtRest, CallStates, CallPlaces
    <2>2. Remembered(form, tally)'
      BY <1>1, <1>3, StandingForm DEF Remembered
    <2> QED  BY <1>1, <1>3, <2>1, <2>2 DEF SignupInvariant, SignupTypes
  <1> QED  BY <1>2, <1>3 DEF F!InjectContinuation

LEMMA RoutingKeepsSignup ==
    ASSUME SignupInvariant, F!DriveSignup PROVE SignupInvariant'
  <1>1. CASE F!Fails \/ F!Pauses
    BY <1>1, PauseKeepsSignup
  <1>2. CASE /\ F!ResolveFlow(sheet.page) # "none"
             /\ F!Goes("step", [form EXCEPT !.flow = F!ResolveFlow(sheet.page)])
             /\ UNCHANGED <<sheet, tally>>
    <2> DEFINE f == [form EXCEPT !.flow = F!ResolveFlow(sheet.page)]
    <2>1. F!ResolveFlow(sheet.page) \in {"none", "email_first", "email_password"}
      BY SignupFields DEF SignupInvariant, F!ResolveFlow
    <2>2. /\ f \in FormStates /\ f.emailSubmitted = form.emailSubmitted
          /\ f.submitted = form.submitted /\ f.pending = form.pending
          /\ f.handedOff = form.handedOff
      BY <2>1, StandingForm DEF FormStates
    <2>3. F!Goes("step", f) /\ tally' = tally /\ sheet' \in SheetStates
      BY <1>2, StandingForm
    <2> HIDE DEF f
    <2>4. Remembered(f, tally')
      BY <2>2, <2>3, StandingForm DEF Remembered
    <2> QED  BY <2>2, <2>3, <2>4, StandingForm, GoingKeepsSignup DEF CallPlaces
  <1> QED  BY <1>1, <1>2 DEF F!DriveSignup

LEMMA AwaitedSubmitKeepsSignup ==
    ASSUME SignupInvariant, F!AwaitHumanSubmit PROVE SignupInvariant'
  <1>1. CASE F!Pauses
    BY <1>1, PauseKeepsSignup
  <1>2. CASE /\ UNCHANGED <<sheet, tally>>
             /\ F!Returns(F!Status(F!Classify(sheet.page, form.pendingPath)),
                          [form EXCEPT !.submitted = TRUE, !.pending = FALSE,
                                       !.pendingPath = F!NoPath,
                                       !.evidence = F!Classify(sheet.page, form.pendingPath)])
    <2> DEFINE kind == F!Classify(sheet.page, form.pendingPath)
               f == [form EXCEPT !.submitted = TRUE, !.pending = FALSE,
                                 !.pendingPath = F!NoPath, !.evidence = kind]
    <2>1. kind \in Kinds /\ F!Status(kind) \in {"human", "failed", "continue"}
      BY KindHasAStatus
    <2>2. F!Returns(F!Status(kind), f)
      BY <1>2
    <2> HIDE DEF kind
    <2>3. /\ f \in FormStates /\ f.emailSubmitted = form.emailSubmitted
          /\ f.submitted /\ ~f.pending /\ f.handedOff = form.handedOff
      BY <2>1, StandingForm DEF FormStates, SheetPaths
    <2> HIDE DEF f
    <2>4. Remembered(f, tally') /\ tally' \in TallyStates /\ sheet' \in SheetStates
      BY <1>2, <2>3, StandingForm DEF Remembered
    <2> QED  BY <2>1, <2>2, <2>3, <2>4, ReturnKeepsSignup
  <1> QED  BY <1>1, <1>2 DEF F!AwaitHumanSubmit

LEMMA ReadingKeepsSignup ==
    ASSUME SignupInvariant, F!ReadSubmission PROVE SignupInvariant'
  BY StatusReturnKeepsSignup DEF F!ReadSubmission

LEMMA EmailReadingKeepsSignup ==
    ASSUME SignupInvariant, F!ReadEmailStep PROVE SignupInvariant'
  <1> DEFINE kind == F!Classify(sheet.page, form.submittedPath)
             f == [form EXCEPT !.emailDone = TRUE]
  <1>1. /\ f \in FormStates /\ f.emailSubmitted = form.emailSubmitted
        /\ f.submitted = form.submitted /\ f.pending = form.pending
        /\ f.handedOff = form.handedOff
    BY StandingForm DEF FormStates
  <1>2. f = F!EmailStepDone
    BY DEF F!EmailStepDone
  <1>3. F!Status(kind) \in {"human", "failed", "continue"}
    BY KindHasAStatus
  <1> HIDE DEF f
  <1>4. CASE F!Fails
    BY <1>4, PauseKeepsSignup
  <1>5. ASSUME UNCHANGED <<sheet, tally>>
        PROVE  Remembered(f, tally') /\ tally' \in TallyStates /\ sheet' \in SheetStates
    BY <1>1, <1>5, StandingForm DEF Remembered
  <1>6. CASE UNCHANGED <<sheet, tally>> /\ F!Goes("step", f)
    BY <1>1, <1>5, <1>6, GoingKeepsSignup DEF CallPlaces
  <1>7. CASE UNCHANGED <<sheet, tally>> /\ F!Returns(F!Status(kind), f)
    <2> HIDE DEF kind
    <2> QED  BY <1>1, <1>3, <1>5, <1>7, ReturnKeepsSignup
  <1>8. CASE UNCHANGED <<sheet, tally>> /\ F!Returns(F!Status(kind), form)
    BY <1>8, StatusReturnKeepsSignup
  <1> QED  BY <1>2, <1>4, <1>6, <1>7, <1>8 DEF F!ReadEmailStep

(* Finding and filling the form                                                *)

LEMMA FoundKeepsSignup ==
    ASSUME SignupInvariant, F!Found, MaySend(form) PROVE SignupInvariant'
  <1>1. CASE F!Fails
    BY <1>1, PauseKeepsSignup
  <1>2. CASE F!Goes("fill", form) /\ UNCHANGED <<sheet, tally>>
    BY <1>2, StandingForm, PlainGoingKeepsSignup DEF CallPlaces
  <1> QED  BY <1>1, <1>2 DEF F!Found

LEMMA EmailFormKeepsSignup ==
    ASSUME SignupInvariant, F!FindEmailForm PROVE SignupInvariant'
  <1>1. MaySend(form)
    BY DEF F!FindEmailForm, F!Looking, F!Step, MaySend, StepOf
  <1> QED  BY <1>1, PauseKeepsSignup, HandoffKeepsSignup, FoundKeepsSignup DEF F!FindEmailForm

LEMMA PairFormKeepsSignup ==
    ASSUME SignupInvariant, F!FindPairForm PROVE SignupInvariant'
  <1>1. MaySend(form)
    BY DEF F!FindPairForm, F!Looking, F!Step, F!AlreadySubmitted, MaySend, StepOf
  <1> QED  BY <1>1, PauseKeepsSignup, HandoffKeepsSignup, FoundKeepsSignup DEF F!FindPairForm

LEMMA PasswordFormKeepsSignup ==
    ASSUME SignupInvariant, F!FindPasswordForm PROVE SignupInvariant'
  <1>1. MaySend(form)
    BY DEF F!FindPasswordForm, F!Looking, F!Step, F!AlreadySubmitted, MaySend, StepOf
  <1> QED  BY <1>1, PauseKeepsSignup, FoundKeepsSignup, StatusReturnKeepsSignup
           DEF F!FindPasswordForm

LEMMA TypedKeepsTheSheet ==
    ASSUME F!Typed PROVE sheet' \in SheetStates /\ tally' = tally
  <1>1. PICK q \in F!Reactions(sheet.page) : sheet' = [F!Fresh(q) EXCEPT !.kept = TRUE]
    BY DEF F!Typed
  <1>2. q \in Sheets
    BY DEF F!Reactions
  <1>3. F!Fresh(q) \in SheetStates
    BY <1>2, FreshIsASheet
  <1> QED  BY <1>1, <1>3 DEF SheetStates, F!Typed

LEMMA CompanyKeepsSignup ==
    ASSUME SignupInvariant, NEW f \in FormStates, F!CompanyFields(f), MaySend(f),
           sheet' \in SheetStates, tally' \in TallyStates, Remembered(f, tally')
    PROVE  SignupInvariant'
  <1>1. CASE F!Goes("submit", f)
    BY <1>1, GoingKeepsSignup DEF CallPlaces
  <1>2. CASE F!Returns("human", f) \/ F!Returns("failed", f)
    BY <1>2, ReturnKeepsSignup
  <1> QED  BY <1>1, <1>2 DEF F!CompanyFields

LEMMA EmailFillKeepsSignup ==
    ASSUME SignupInvariant, F!FillEmail PROVE SignupInvariant'
  <1> DEFINE f == [form EXCEPT !.emailFilled = TRUE]
  <1>1. MaySend(form)
    BY DEF F!FillEmail, F!Filling, SignupInvariant
  <1>2. /\ f \in FormStates /\ f.emailSubmitted = form.emailSubmitted
        /\ f.submitted = form.submitted /\ f.pending = form.pending /\ f.flow = form.flow
        /\ f.handedOff = form.handedOff /\ f.emailDone = form.emailDone
    BY StandingForm DEF FormStates
  <1> HIDE DEF f
  <1>3. CASE F!Typed /\ F!Goes("submit", f)
    <2>1. MaySend(f)
      BY <1>1, <1>2 DEF MaySend, StepOf
    <2>2. Remembered(f, tally') /\ tally' \in TallyStates
      BY <1>2, <1>3, StandingForm, TypedKeepsTheSheet DEF Remembered
    <2> QED  BY <1>2, <1>3, <2>1, <2>2, TypedKeepsTheSheet, GoingKeepsSignup DEF CallPlaces
  <1>4. CASE F!Goes("submit", form) /\ UNCHANGED <<sheet, tally>>
    BY <1>1, <1>4, StandingForm, PlainGoingKeepsSignup DEF CallPlaces
  <1>5. CASE F!Fails \/ F!HandoffOrPause
    BY <1>5, PauseKeepsSignup, HandoffKeepsSignup
  <1> QED  BY <1>3, <1>4, <1>5 DEF F!FillEmail, f

LEMMA CredentialFillKeepsSignup ==
    ASSUME SignupInvariant, F!FillCredentials, MaySend(form) PROVE SignupInvariant'
  <1> DEFINE f == [form EXCEPT !.filled = TRUE]
  <1>1. /\ f \in FormStates /\ f.emailSubmitted = form.emailSubmitted
        /\ f.submitted = form.submitted /\ f.pending = form.pending /\ f.flow = form.flow
        /\ f.handedOff = form.handedOff /\ f.emailDone = form.emailDone
    BY StandingForm DEF FormStates
  <1> HIDE DEF f
  <1>2. CASE F!Typed /\ F!CompanyFields(f)
    <2>1. MaySend(f)
      BY <1>1 DEF MaySend, StepOf
    <2>2. Remembered(f, tally') /\ tally' \in TallyStates
      BY <1>1, <1>2, StandingForm, TypedKeepsTheSheet DEF Remembered
    <2> QED  BY <1>1, <1>2, <2>1, <2>2, TypedKeepsTheSheet, CompanyKeepsSignup
  <1>3. CASE F!CompanyFields(form) /\ UNCHANGED <<sheet, tally>>
    <2>1. Remembered(form, tally') /\ tally' \in TallyStates /\ sheet' \in SheetStates
      BY <1>3, StandingForm DEF Remembered
    <2> QED  BY <1>3, <2>1, StandingForm, CompanyKeepsSignup
  <1>4. CASE F!Fails \/ F!Pauses
    BY <1>4, PauseKeepsSignup
  <1> QED  BY <1>2, <1>3, <1>4 DEF F!FillCredentials, f

LEMMA FillKeepsSignup ==
    ASSUME SignupInvariant, F!FillPair \/ F!FillPassword PROVE SignupInvariant'
  <1>1. MaySend(form)
    BY DEF F!FillPair, F!FillPassword, F!Filling, SignupInvariant
  <1> QED  BY <1>1, CredentialFillKeepsSignup, PauseKeepsSignup DEF F!FillPair, F!FillPassword

LEMMA ConsentKeepsSignup ==
    ASSUME SignupInvariant, F!ConsentGate PROVE SignupInvariant'
  <1>1. MaySend(form)
    BY DEF F!ConsentGate, SignupInvariant
  <1>2. CASE /\ F!AcceptLegal /\ sheet' = [sheet EXCEPT !.ticked = TRUE]
             /\ tally' = [tally EXCEPT !.unasked = @ \/ policy = "none"]
             /\ F!Goes("submit", form)
    <2> DEFINE t == [tally EXCEPT !.unasked = @ \/ policy = "none"]
    <2>1. (tally.unasked \/ policy = "none") \in BOOLEAN
      OBVIOUS
    <2>2. t \in TallyStates
      BY <2>1, StandingForm, Zenon DEF TallyStates
    <2>3. /\ t.email = tally.email /\ t.final = tally.final /\ t.idp = tally.idp
          /\ t.human = tally.human /\ (t.unasked <=> tally.unasked \/ policy = "none")
      BY StandingForm DEF TallyStates
    <2>4. sheet' \in SheetStates
      BY <1>2, StandingForm DEF SheetStates
    <2>5. tally' = t
      BY <1>2
    <2> HIDE DEF t
    <2>6. Remembered(form, tally')
      BY <1>2, <2>3, <2>5, StandingForm DEF Remembered, F!AcceptLegal
    <2> QED  BY <1>1, <1>2, <2>2, <2>4, <2>5, <2>6, StandingForm, GoingKeepsSignup DEF CallPlaces
  <1>3. CASE /\ UNCHANGED <<sheet, tally>>
             /\ F!Returns("human", [form EXCEPT !.legalIssued = TRUE])
    <2> DEFINE f == [form EXCEPT !.legalIssued = TRUE]
    <2>1. /\ f \in FormStates /\ f.emailSubmitted = form.emailSubmitted
          /\ f.submitted = form.submitted /\ f.pending = form.pending
          /\ f.handedOff = form.handedOff
      BY StandingForm DEF FormStates
    <2>2. F!Returns("human", f)
      BY <1>3
    <2> HIDE DEF f
    <2>3. Remembered(f, tally') /\ tally' \in TallyStates /\ sheet' \in SheetStates
      BY <1>3, <2>1, StandingForm DEF Remembered
    <2> QED  BY <2>1, <2>2, <2>3, ReturnKeepsSignup
  <1> QED  BY <1>2, <1>3 DEF F!ConsentGate

(* Submitting the form, and the person in the live browser                     *)

LEMMA ObstructionKeepsSignup ==
    ASSUME SignupInvariant, F!EmailBlocked \/ F!PairBlocked \/ F!PasswordBlocked \/ F!FillGate
    PROVE  SignupInvariant'
  BY PauseKeepsSignup, HandoffKeepsSignup
     DEF F!EmailBlocked, F!PairBlocked, F!PasswordBlocked, F!Obstructed, F!FillGate

LEMMA LegalSubmitKeepsSignup ==
    ASSUME SignupInvariant, F!LegalSubmit PROVE SignupInvariant'
  <1> DEFINE f == [form EXCEPT !.pending = TRUE, !.pendingPath = sheet.page.path]
  <1>1. F!Returns("human", f) /\ UNCHANGED <<sheet, tally>>
    BY DEF F!LegalSubmit
  <1>2. ~form.submitted
    BY DEF F!LegalSubmit, F!Submittable, F!Step, SignupInvariant, MaySend, StepOf
  <1>3. tally.final = 0
    BY <1>2, StandingForm DEF Remembered, TallyStates
  <1>4. sheet.page.path \in SheetPaths
    BY SignupFields DEF SignupInvariant, SheetPaths
  <1>5. /\ f \in FormStates /\ f.emailSubmitted = form.emailSubmitted
        /\ f.submitted = form.submitted /\ f.pending /\ f.handedOff = form.handedOff
    BY <1>4, StandingForm DEF FormStates
  <1> HIDE DEF f
  <1>6. Remembered(f, tally') /\ tally' \in TallyStates /\ sheet' \in SheetStates
    BY <1>1, <1>3, <1>5, StandingForm DEF Remembered
  <1> QED  BY <1>1, <1>5, <1>6, ReturnKeepsSignup

\* A click is marked before it is made; what it asks nobody for, nobody agreed to.
LEMMA ClickKeepsSignup ==
    ASSUME SignupInvariant, NEW f \in FormStates, NEW t \in TallyStates, F!Click(f, t),
           f.pending = form.pending, Remembered(f, t)
    PROVE  SignupInvariant'
  <1> DEFINE sent == [f EXCEPT !.submittedPath = sheet.page.path]
             asked == [t EXCEPT !.unasked = @ \/ (sheet.page.legal /\ policy = "none")]
  <1>1. /\ ~sheet.page.legal \/ F!AcceptLegal
        /\ F!Returns("failed", sent) \/ F!Goes("step", sent)
        /\ tally' = asked
    BY DEF F!Click
  <1>2. sheet' \in SheetStates
    BY StandingForm, FreshIsASheet DEF F!Click
  <1>3. sheet.page.path \in SheetPaths
    BY SignupFields DEF SignupInvariant, SheetPaths
  <1>4. /\ sent \in FormStates /\ sent.emailSubmitted = f.emailSubmitted
        /\ sent.submitted = f.submitted /\ sent.pending = f.pending
        /\ sent.handedOff = f.handedOff
    BY <1>3 DEF FormStates
  <1>5. (t.unasked \/ (sheet.page.legal /\ policy = "none")) \in BOOLEAN
    OBVIOUS
  <1>6. asked \in TallyStates
    BY <1>5, Zenon DEF TallyStates
  <1>7. /\ asked.email = t.email /\ asked.final = t.final /\ asked.idp = t.idp
        /\ asked.human = t.human
        /\ (asked.unasked <=> t.unasked \/ (sheet.page.legal /\ policy = "none"))
    BY DEF TallyStates
  <1> HIDE DEF sent, asked
  <1>8. Remembered(sent, asked)
    BY <1>1, <1>4, <1>7 DEF Remembered, F!AcceptLegal
  <1>9. Remembered(sent, tally') /\ tally' \in TallyStates
    BY <1>1, <1>6, <1>8
  <1>10. CASE F!Returns("failed", sent)
    BY <1>2, <1>4, <1>9, <1>10, ReturnKeepsSignup
  <1>11. CASE F!Goes("step", sent)
    BY <1>2, <1>4, <1>9, <1>11, GoingKeepsSignup DEF CallPlaces
  <1> QED  BY <1>1, <1>10, <1>11

LEMMA EmailClickKeepsSignup ==
    ASSUME SignupInvariant, F!ClickEmail PROVE SignupInvariant'
  <1> DEFINE f == [form EXCEPT !.emailSubmitted = TRUE]
             t == [tally EXCEPT !.email = @ + 1]
  <1>1. F!Click(f, t)
    BY DEF F!ClickEmail
  <1>2. ~form.emailSubmitted
    BY DEF F!ClickEmail, F!Submittable, F!Step, SignupInvariant, MaySend, StepOf
  <1>3. tally.email + 1 = 1
    BY <1>2, StandingForm DEF Remembered, TallyStates
  <1>4. /\ t \in TallyStates /\ t.final = tally.final /\ t.idp = tally.idp
        /\ t.human = tally.human /\ t.unasked = tally.unasked
    BY <1>3, StandingForm DEF TallyStates
  <1>5. /\ f \in FormStates /\ f.emailSubmitted /\ f.submitted = form.submitted
        /\ f.pending = form.pending /\ f.handedOff = form.handedOff
    BY StandingForm DEF FormStates
  <1> HIDE DEF f, t
  <1>6. Remembered(f, t)
    BY <1>4, <1>5, StandingForm DEF Remembered
  <1> QED  BY <1>1, <1>4, <1>5, <1>6, ClickKeepsSignup

LEMMA FinalClickKeepsSignup ==
    ASSUME SignupInvariant, F!ClickPair \/ F!ClickPassword PROVE SignupInvariant'
  <1> DEFINE f == [form EXCEPT !.submitted = TRUE, !.evidence = "click"]
             t == [tally EXCEPT !.final = @ + 1]
  <1>1. F!Click(f, t)
    BY DEF F!ClickPair, F!ClickPassword
  <1>2. ~form.submitted /\ ~form.pending
    BY DEF F!ClickPair, F!ClickPassword, F!Submittable, F!Step, SignupInvariant, MaySend, StepOf
  <1>3. tally.final + 1 = 1 /\ tally.human # 1
    BY <1>2, StandingForm DEF Remembered, TallyStates
  <1>4. /\ t \in TallyStates /\ t.email = tally.email /\ t.idp = tally.idp
        /\ t.human = tally.human /\ t.unasked = tally.unasked
    BY <1>3, StandingForm DEF TallyStates
  <1>5. /\ f \in FormStates /\ f.emailSubmitted = form.emailSubmitted /\ f.submitted
        /\ f.pending = form.pending /\ f.handedOff = form.handedOff
    BY StandingForm DEF FormStates
  <1> HIDE DEF f, t
  <1>6. Remembered(f, t)
    BY <1>2, <1>3, <1>4, <1>5, StandingForm DEF Remembered
  <1> QED  BY <1>1, <1>4, <1>5, <1>6, ClickKeepsSignup

LEMMA HumanWorkKeepsSignup ==
    ASSUME SignupInvariant, F!HumanWorks \/ F!TraceMoves PROVE SignupInvariant'
  <1>1. sheet' \in SheetStates
    <2>1. CASE F!HumanWorks
      <3>1. PICK p \in Sheets, k \in BOOLEAN, t \in BOOLEAN :
              sheet' = [page |-> p, kept |-> k /\ sheet.kept /\ p.path = sheet.page.path,
                        ticked |-> t]
        BY <2>1 DEF F!HumanWorks
      <3>2. (k /\ sheet.kept /\ p.path = sheet.page.path) \in BOOLEAN
        OBVIOUS
      <3> QED  BY <3>1, <3>2, Zenon DEF SheetStates
    <2>2. CASE F!TraceMoves
      BY <2>2, FreshIsASheet DEF F!TraceMoves
    <2> QED  BY <2>1, <2>2
  <1>2. UNCHANGED <<form, call, calls, tally, policy>> /\ call.pc = "rest"
        /\ answer' \in {"none", "human", "failed", "continue"}
    BY DEF F!HumanWorks, F!TraceMoves, SignupInvariant, SignupTypes
  <1>3. Remembered(form, tally)'
    BY <1>2, StandingForm DEF Remembered
  <1> QED  BY <1>1, <1>2, <1>3 DEF SignupInvariant, SignupTypes

LEMMA HumanSubmitKeepsSignup ==
    ASSUME SignupInvariant, F!HumanSubmits PROVE SignupInvariant'
  <1>1. /\ UNCHANGED <<form, call, calls, policy, answer>> /\ call.pc = "rest"
        /\ form.pending /\ tally' = [tally EXCEPT !.human = 1]
    BY DEF F!HumanSubmits
  <1>2. sheet' \in SheetStates
    BY StandingForm, FreshIsASheet DEF F!HumanSubmits, F!Reactions, SheetStates
  <1>3. /\ tally' \in TallyStates /\ tally'.email = tally.email /\ tally'.final = tally.final
        /\ tally'.idp = tally.idp /\ tally'.human = 1 /\ tally'.unasked = tally.unasked
    BY <1>1, StandingForm DEF TallyStates
  <1>4. Remembered(form, tally)'
    BY <1>1, <1>3, StandingForm DEF Remembered
  <1> QED  BY <1>1, <1>2, <1>3, <1>4 DEF SignupInvariant, SignupTypes

LEMMA SignupStep ==
    ASSUME SignupInvariant, F!FNext PROVE SignupInvariant'
  <1>1. CASE \/ F!BeginSignup \/ F!InjectContinuation \/ F!DriveSignup
             \/ F!AwaitHumanSubmit \/ F!ReadSubmission \/ F!ReadEmailStep
    BY <1>1, BeginningKeepsSignup, ContinuationKeepsSignup, RoutingKeepsSignup,
       AwaitedSubmitKeepsSignup, ReadingKeepsSignup, EmailReadingKeepsSignup
  <1>2. CASE \/ F!FindEmailForm \/ F!FindPairForm \/ F!FindPasswordForm
             \/ F!FillGate \/ F!FillEmail \/ F!FillPair \/ F!FillPassword \/ F!ConsentGate
    BY <1>2, EmailFormKeepsSignup, PairFormKeepsSignup, PasswordFormKeepsSignup,
       ObstructionKeepsSignup, EmailFillKeepsSignup, FillKeepsSignup, ConsentKeepsSignup
  <1>3. CASE \/ F!EmailBlocked \/ F!PairBlocked \/ F!PasswordBlocked
             \/ F!LegalSubmit \/ F!ClickEmail \/ F!ClickPair \/ F!ClickPassword
    BY <1>3, ObstructionKeepsSignup, LegalSubmitKeepsSignup, EmailClickKeepsSignup,
       FinalClickKeepsSignup
  <1>4. CASE F!HumanWorks \/ F!HumanSubmits \/ F!TraceMoves
    BY <1>4, HumanWorkKeepsSignup, HumanSubmitKeepsSignup
  <1> QED  BY <1>1, <1>2, <1>3, <1>4 DEF F!FNext

LEMMA SignupStutters ==
    ASSUME SignupInvariant, UNCHANGED signed PROVE SignupInvariant'
  BY DEF signed, SignupInvariant, SignupTypes, Remembered, MaySend, StepOf

LEMMA SignupInvariantSuffices ==
    ASSUME SignupInvariant
    PROVE  F!FTypeOK /\ F!SubmitsOnce /\ F!HumanSubmitStands /\ F!AcceptanceIsHuman
  <1>1. /\ {sheet.kept, sheet.ticked} \subseteq BOOLEAN
        /\ {tally.email, tally.final, tally.idp, tally.human} \subseteq Nat
    BY SignupFields DEF SignupInvariant
  <1>2. F!FTypeOK
    BY <1>1, SignupFields DEF SignupInvariant, SignupTypes, F!FTypeOK, CallPlaces
  <1>3. F!SubmitsOnce
    BY SignupFields DEF SignupInvariant, F!SubmitsOnce
  <1>4. F!HumanSubmitStands /\ F!AcceptanceIsHuman
    BY SignupFields, StandingForm
       DEF SignupInvariant, Remembered, F!HumanSubmitStands, F!AcceptanceIsHuman
  <1> QED  BY <1>2, <1>3, <1>4

-----------------------------------------------------------------------------
(* ActionLoop                                                                 *)

PageStates == {At(p, g) : p \in Pages, g \in Nat}
Stages == {"observe", "candidates", "decide", "act", "verify"}
Endings == {"none", "done", "gate", "exhausted", "raised", "denied_fatal"}
Limits == {"actions", "model_calls", "no_progress"}
Reasons == Limits \cup {"none", "wallclock", "outcome_unknown", "candidate_risk_requires_human",
                        "host_denied", "decision_failed", "decision_unusable", "success",
                        "page_gate", "action_failed"}
Choices == Controls \cup {NoControl}

LoopRecords ==
    [pc : {"first", "top", "plan", "decide", "reobserve", "act", "verify", "done"},
     stage : Stages, actions : 0..MaxActions, calls : 0..MaxModelCalls,
     denials : 0..MaxDenials, idle : Nat, badDecisions : 0..MaxDecisionFailures,
     badActions : 0..MaxActionFailures, pending : Choices, avoid : SUBSET Controls,
     satisfied : SUBSET Posts, chosen : Choices, outcome : Endings, reason : Reasons]

\* A loop that goes on has a refusal, a decision and an action left to fail.
GoesOn(l) ==
    /\ l.denials < MaxDenials /\ l.badDecisions < MaxDecisionFailures
    /\ l.badActions < MaxActionFailures /\ l.outcome = "none"

\* What the loop relies on at each place: a budget for what it is about to spend, the
\* stage an interrupted call is judged by, and a reading as old as the last touch; a
\* reading is missed only after an action, and then the phase ends before another.
Relies(l, s, t) ==
    /\ l.pc # "done" => GoesOn(l)
    /\ l.pc \in {"plan", "decide", "act"} => l.actions < MaxActions
    /\ l.pc \in {"plan", "decide"} => l.calls < MaxModelCalls
    /\ l.pc = "act" => l.stage = "act" /\ l.chosen \in Controls
    /\ l.pc = "verify" => l.stage = "verify"
    /\ l.pc \in {"top", "plan", "decide", "act"} => s.touch = t
    /\ l.pc = "reobserve" /\ l.stage \notin {"act", "verify"} => s.touch = t
    /\ l.pc = "done" => l.outcome # "none"
    /\ l.outcome = "done" => s.touch = t /\ Posts \subseteq s.page.met

Stands(l, s, t) == l \in LoopRecords /\ Relies(l, s, t)

LoopInvariant ==
    /\ page \in PageStates /\ moves \in 0..MaxMoves /\ touches \in Nat
    /\ seen \in [page : PageStates, touch : Nat]
    /\ Stands(loop, seen, touches)

LEMMA LoopBounds ==
    /\ MaxActions \in Nat \ {0} /\ MaxModelCalls \in Nat \ {0} /\ MaxNoProgress \in Nat \ {0}
    /\ MaxDenials \in Nat \ {0} /\ MaxDecisionFailures \in Nat \ {0}
    /\ MaxActionFailures \in Nat \ {0} /\ MaxMoves \in Nat
  BY LoopBudgetAssumption

LEMMA PageFields ==
    ASSUME NEW p \in PageStates
    PROVE  /\ p.ctls \subseteq Controls /\ p.met \subseteq Posts /\ p.gen \in Nat
           /\ At(p, 0) \in {At(q, 0) : q \in Pages}
  <1>1. PICK q \in Pages, g \in Nat : p = At(q, g)
    BY DEF PageStates
  <1>2. p.ctls = q.ctls /\ p.met = q.met /\ p.gen = g /\ At(p, 0) = At(q, 0)
    BY <1>1 DEF At
  <1> QED  BY <1>1, <1>2, PagesAssumption

LEMMA LoopInitially ==
    ASSUME AInit PROVE LoopInvariant
  <1>1. /\ page \in {At(p, 0) : p \in {q \in Pages : q.home}} /\ moves = 0
        /\ seen = [page |-> page, touch |-> 0] /\ loop = LInit0 /\ touches = 0
    BY DEF AInit, AInitWith
  <1>2. page \in PageStates
    BY <1>1 DEF PageStates
  <1>3. 0 \in 0..MaxActions /\ 0 \in 0..MaxModelCalls /\ 0 \in 0..MaxDenials
        /\ 0 \in 0..MaxDecisionFailures /\ 0 \in 0..MaxActionFailures /\ 0 \in 0..MaxMoves
    BY LoopBounds
  <1>4. LInit0 \in LoopRecords
    BY <1>3 DEF LInit0, LoopRecords, Stages, Endings, Reasons, Choices
  <1>5. Relies(LInit0, seen, touches)
    BY LoopBounds DEF LInit0, Relies, GoesOn
  <1> QED  BY <1>1, <1>2, <1>3, <1>4, <1>5 DEF LoopInvariant, Stands

LEMMA ReadingStands ==
    ASSUME LoopInvariant
    PROVE  /\ Reading \in [page : PageStates, touch : Nat]
           /\ Reading.touch = touches /\ Reading.page = page
  BY DEF LoopInvariant, Reading

LEMMA LoopFields ==
    ASSUME NEW l \in LoopRecords
    PROVE  /\ l.actions \in 0..MaxActions /\ l.calls \in 0..MaxModelCalls
           /\ l.denials \in 0..MaxDenials /\ l.idle \in Nat
           /\ l.badDecisions \in 0..MaxDecisionFailures
           /\ l.badActions \in 0..MaxActionFailures /\ l.pending \in Choices
           /\ l.avoid \subseteq Controls /\ l.satisfied \subseteq Posts
           /\ l.chosen \in Choices /\ l.outcome \in Endings /\ l.stage \in Stages
  BY DEF LoopRecords

(* How an iteration ends.                                                      *)

LEMMA EndedStands ==
    ASSUME NEW l \in LoopRecords, NEW outcome \in Endings \ {"none", "done"},
           NEW reason \in Reasons, NEW s, NEW t
    PROVE  Stands(Ended(l, outcome, reason), s, t)
  <1>1. Ended(l, outcome, reason) \in LoopRecords
    BY DEF Ended, LoopRecords, Choices
  <1>2. /\ Ended(l, outcome, reason).pc = "done"
        /\ Ended(l, outcome, reason).outcome = outcome
    BY DEF Ended, LoopRecords
  <1> QED  BY <1>1, <1>2 DEF Stands, Relies

LEMMA UnknownStands ==
    ASSUME NEW l \in LoopRecords, NEW s, NEW t
    PROVE  Stands(Unknown(l), s, t)
  BY EndedStands DEF Unknown, Endings, Reasons

LEMMA GatedStands ==
    ASSUME NEW l \in LoopRecords, NEW s, NEW t
    PROVE  Stands(Gated(l), s, t)
  BY EndedStands DEF Gated, Endings, Reasons

LEMMA ReobserveStands ==
    ASSUME NEW l \in LoopRecords, GoesOn(l), NEW stage \in Stages, NEW s, NEW t,
           stage \notin {"act", "verify"} => s.touch = t
    PROVE  Stands(Reobserve(l, stage), s, t)
  <1> DEFINE n == Reobserve(l, stage)
  <1>1. l.idle + 1 \in Nat
    BY LoopFields
  <1>2. n \in LoopRecords
    BY <1>1 DEF Reobserve, LoopRecords, Choices
  <1>3. /\ n.pc = "reobserve" /\ n.stage = stage /\ n.denials = l.denials
        /\ n.badDecisions = l.badDecisions /\ n.badActions = l.badActions
        /\ n.outcome = l.outcome
    BY DEF Reobserve, LoopRecords
  <1> HIDE DEF n
  <1>4. Stands(n, s, t)
    BY <1>2, <1>3 DEF Stands, Relies, GoesOn
  <1> QED  BY <1>4 DEF n

\* One more idle round, from the top.
LEMMA IdleStands ==
    ASSUME NEW l \in LoopRecords, GoesOn(l), NEW s, NEW t, s.touch = t
    PROVE  Stands([l EXCEPT !.idle = @ + 1, !.pc = "top", !.chosen = NoControl], s, t)
  <1> DEFINE n == [l EXCEPT !.idle = @ + 1, !.pc = "top", !.chosen = NoControl]
  <1>1. l.idle + 1 \in Nat
    BY LoopFields
  <1>2. n \in LoopRecords
    BY <1>1 DEF LoopRecords, Choices
  <1>3. /\ n.pc = "top" /\ n.denials = l.denials /\ n.badDecisions = l.badDecisions
        /\ n.badActions = l.badActions /\ n.outcome = l.outcome
    BY DEF LoopRecords
  <1> HIDE DEF n
  <1>4. Stands(n, s, t)
    BY <1>2, <1>3 DEF Stands, Relies, GoesOn
  <1> QED  BY <1>4 DEF n

LEMMA TimedOutStands ==
    ASSUME NEW l \in LoopRecords, GoesOn(l), NEW s, NEW t,
           l.stage \notin {"act", "verify"} => s.touch = t
    PROVE  Stands(TimedOut(l), s, t)
  BY UnknownStands, IdleStands DEF TimedOut

LEMMA RaisedStands ==
    ASSUME NEW l \in LoopRecords, GoesOn(l), NEW s, NEW t,
           l.stage \notin {"act", "verify"} => s.touch = t
    PROVE  Stands(Raised(l), s, t)
  <1> DEFINE m == [l EXCEPT !.idle = @ + 1, !.badActions = @ + 1, !.pc = "top",
                            !.chosen = NoControl]
  <1>1. l.idle + 1 \in Nat /\ l.badActions + 1 \in 0..MaxActionFailures
    BY LoopFields, LoopBounds DEF GoesOn
  <1>2. m \in LoopRecords
    BY <1>1 DEF LoopRecords, Choices
  <1>3. /\ m.pc = "top" /\ m.denials = l.denials /\ m.badDecisions = l.badDecisions
        /\ m.badActions = l.badActions + 1 /\ m.outcome = l.outcome
    BY DEF LoopRecords
  <1>4. Raised(l) = IF l.stage \in {"act", "verify"} THEN Unknown(l)
                    ELSE IF m.badActions >= MaxActionFailures THEN Unknown(m) ELSE m
    BY DEF Raised
  <1> HIDE DEF m
  <1>5. CASE l.stage \in {"act", "verify"}
    BY <1>4, <1>5, UnknownStands
  <1>6. CASE l.stage \notin {"act", "verify"} /\ m.badActions >= MaxActionFailures
    BY <1>2, <1>4, <1>6, UnknownStands
  <1>7. CASE l.stage \notin {"act", "verify"} /\ ~(m.badActions >= MaxActionFailures)
    <2>1. m.badActions < MaxActionFailures
      BY <1>1, <1>3, <1>7, LoopBounds
    <2>2. Relies(m, s, t)
      BY <1>3, <1>7, <2>1 DEF Relies, GoesOn
    <2> QED  BY <1>2, <1>4, <1>7, <2>2 DEF Stands
  <1> QED  BY <1>5, <1>6, <1>7

LEMMA DeniedStands ==
    ASSUME NEW l \in LoopRecords, GoesOn(l), NEW s, NEW t
    PROVE  Stands(Denied(l), s, t)
  <1> DEFINE m == [l EXCEPT !.denials = @ + 1]
  <1>1. l.denials + 1 \in 0..MaxDenials
    BY LoopFields, LoopBounds DEF GoesOn
  <1>2. m \in LoopRecords
    BY <1>1 DEF LoopRecords
  <1>3. /\ m.denials = l.denials + 1 /\ m.badDecisions = l.badDecisions
        /\ m.badActions = l.badActions /\ m.outcome = l.outcome
    BY DEF LoopRecords
  <1>4. Denied(l) = IF m.denials >= MaxDenials THEN Ended(m, "denied_fatal", "host_denied")
                    ELSE Reobserve(m, "act")
    BY DEF Denied
  <1> HIDE DEF m
  <1>5. CASE m.denials >= MaxDenials
    BY <1>2, <1>4, <1>5, EndedStands DEF Endings, Reasons
  <1>6. CASE ~(m.denials >= MaxDenials)
    <2>1. GoesOn(m)
      BY <1>1, <1>3, <1>6, LoopBounds DEF GoesOn
    <2> QED  BY <1>2, <1>4, <1>6, <2>1, ReobserveStands DEF Stages
  <1> QED  BY <1>5, <1>6

LEMMA ProceedStands ==
    ASSUME NEW l \in LoopRecords, GoesOn(l), l.actions < MaxActions, NEW c \in Controls,
           NEW s, NEW t, s.touch = t
    PROVE  Stands(Proceed(l, c), s, t)
  <1> DEFINE n == [l EXCEPT !.chosen = c, !.pc = "act", !.stage = "act"]
  <1>1. n \in LoopRecords
    BY DEF LoopRecords, Choices, Stages
  <1>2. /\ n.pc = "act" /\ n.stage = "act" /\ n.chosen = c /\ n.denials = l.denials
        /\ n.badDecisions = l.badDecisions /\ n.badActions = l.badActions
        /\ n.outcome = l.outcome /\ n.actions = l.actions
    BY DEF LoopRecords
  <1>3. Proceed(l, c) \in {Gated(l), Reobserve(l, "decide"), Denied(l), n}
    BY DEF Proceed
  <1> HIDE DEF n
  <1>4. Stands(n, s, t)
    BY <1>1, <1>2 DEF Stands, Relies, GoesOn
  <1> QED  BY <1>3, <1>4, GatedStands, ReobserveStands, DeniedStands DEF Stages

(* The steps of the loop.                                                      *)

LEMMA LoopStanding ==
    ASSUME LoopInvariant
    PROVE  /\ loop \in LoopRecords /\ Relies(loop, seen, touches)
           /\ seen \in [page : PageStates, touch : Nat] /\ seen.page \in PageStates
           /\ page \in PageStates /\ touches \in Nat /\ seen.touch \in Nat
  BY DEF LoopInvariant, Stands

LEMMA OptionsAreControls ==
    ASSUME LoopInvariant PROVE Options \subseteq Controls
  <1>1. Executable(seen) \subseteq Controls
    BY LoopStanding, PageFields DEF Executable
  <1> QED  BY <1>1 DEF Options, OptionsAvoiding

\* A step of the loop alone.
LEMMA LoopOnlyKeeps ==
    ASSUME LoopInvariant, LoopOnly, NEW l, loop' = l, Stands(l, seen, touches)
    PROVE  LoopInvariant'
  BY DEF LoopInvariant, LoopOnly

LEMMA FirstKeepsLoop ==
    ASSUME LoopInvariant, FirstObserve PROVE LoopInvariant'
  <1>1. UNCHANGED <<page, moves, touches>> /\ loop.pc = "first"
    BY DEF FirstObserve
  <1>2. CASE loop' = [loop EXCEPT !.pc = "top"] /\ seen' = Reading
    <2> DEFINE l == [loop EXCEPT !.pc = "top"]
    <2>1. l \in LoopRecords
      BY LoopStanding DEF LoopRecords
    <2>2. /\ l.pc = "top" /\ l.denials = loop.denials /\ l.badDecisions = loop.badDecisions
          /\ l.badActions = loop.badActions /\ l.outcome = loop.outcome
      BY LoopStanding DEF LoopRecords
    <2>3. loop' = l
      BY <1>2
    <2> HIDE DEF l
    <2>4. Stands(l, Reading, touches)
      BY <1>1, <2>1, <2>2, ReadingStands, LoopStanding DEF Stands, Relies, GoesOn
    <2> QED  BY <1>1, <1>2, <2>3, <2>4, ReadingStands DEF LoopInvariant
  <1>3. CASE loop' = Unknown(loop) /\ UNCHANGED seen
    BY <1>1, <1>3, LoopStanding, UnknownStands DEF LoopInvariant
  <1> QED  BY <1>2, <1>3 DEF FirstObserve

LEMMA NothingSpent ==
    ASSUME NEW l \in LoopRecords
    PROVE  /\ ExhaustedBound(l) \in Limits \cup {"none"}
           /\ ExhaustedBound(l) = "none" => l.actions < MaxActions /\ l.calls < MaxModelCalls
  <1>1. l.actions \in Nat /\ l.calls \in Nat /\ l.idle \in Nat
    BY LoopFields, LoopBounds
  <1> QED  BY <1>1, LoopBounds DEF ExhaustedBound, Limits

LEMMA BoundsKeepLoop ==
    ASSUME LoopInvariant, CheckBounds PROVE LoopInvariant'
  <1> DEFINE bound == ExhaustedBound(loop)
             denied == [loop EXCEPT !.denials = @ + 1]
             plan == [loop EXCEPT !.pc = "plan", !.stage = "candidates"]
  <1>1. loop.pc = "top" /\ LoopOnly
        /\ \/ bound # "none" /\ loop' = Ended(loop, "exhausted", bound)
           \/ loop' = Ended(loop, "exhausted", "wallclock")
           \/ bound = "none" /\ loop' = plan
           \/ loop' = Ended(denied, "denied_fatal", "host_denied")
    BY DEF CheckBounds
  <1>2. bound \in Limits \cup {"none"} /\ (bound = "none" => loop.actions < MaxActions /\ loop.calls < MaxModelCalls)
    BY LoopStanding, NothingSpent
  <1>3. GoesOn(loop) /\ seen.touch = touches
    BY <1>1, LoopStanding DEF Relies
  <1>4. denied \in LoopRecords
    <2>1. loop.denials + 1 \in 0..MaxDenials
      BY <1>3, LoopStanding, LoopFields, LoopBounds DEF GoesOn
    <2> QED  BY <2>1, LoopStanding DEF LoopRecords
  <1>5. plan \in LoopRecords
    BY LoopStanding DEF LoopRecords, Stages
  <1>6. /\ plan.pc = "plan" /\ plan.denials = loop.denials
        /\ plan.badDecisions = loop.badDecisions /\ plan.badActions = loop.badActions
        /\ plan.outcome = loop.outcome /\ plan.actions = loop.actions
        /\ plan.calls = loop.calls
    BY LoopStanding DEF LoopRecords
  <1> HIDE DEF bound, denied, plan
  <1>7. bound = "none" => Stands(plan, seen, touches)
    BY <1>2, <1>3, <1>5, <1>6 DEF Stands, Relies, GoesOn
  <1>8. bound # "none" => Stands(Ended(loop, "exhausted", bound), seen, touches)
    BY <1>2, LoopStanding, EndedStands DEF Endings, Reasons
  <1>9. /\ Stands(Ended(loop, "exhausted", "wallclock"), seen, touches)
        /\ Stands(Ended(denied, "denied_fatal", "host_denied"), seen, touches)
    BY <1>4, LoopStanding, EndedStands DEF Endings, Reasons
  <1> QED  BY <1>1, <1>7, <1>8, <1>9, LoopOnlyKeeps

LEMMA PlanKeepsLoop ==
    ASSUME LoopInvariant, Plan PROVE LoopInvariant'
  <1> DEFINE ask == [loop EXCEPT !.pc = "decide", !.stage = "decide", !.pending = NoControl]
             intent == [loop EXCEPT !.pending = NoControl]
  <1>1. loop.pc = "plan" /\ LoopOnly
        /\ \/ loop' = Reobserve(loop, "candidates")
           \/ loop' = Gated(loop)
           \/ loop.pending \in Options /\ loop' = Proceed(intent, loop.pending)
           \/ loop' = ask
    BY DEF Plan
  <1>2. /\ GoesOn(loop) /\ seen.touch = touches /\ loop.actions < MaxActions
        /\ loop.calls < MaxModelCalls
    BY <1>1, LoopStanding DEF Relies
  <1>3. /\ intent \in LoopRecords /\ intent.denials = loop.denials
        /\ intent.badDecisions = loop.badDecisions /\ intent.badActions = loop.badActions
        /\ intent.outcome = loop.outcome /\ intent.actions = loop.actions
    BY LoopStanding DEF LoopRecords, Choices
  <1>4. /\ ask \in LoopRecords /\ ask.pc = "decide" /\ ask.denials = loop.denials
        /\ ask.badDecisions = loop.badDecisions /\ ask.badActions = loop.badActions
        /\ ask.outcome = loop.outcome /\ ask.actions = loop.actions
        /\ ask.calls = loop.calls
    BY LoopStanding DEF LoopRecords, Choices, Stages
  <1> HIDE DEF ask, intent
  <1>5. Stands(ask, seen, touches)
    BY <1>2, <1>4 DEF Stands, Relies, GoesOn
  <1>6. GoesOn(intent)
    BY <1>2, <1>3 DEF GoesOn
  <1>7. loop.pending \in Options => Stands(Proceed(intent, loop.pending), seen, touches)
    BY <1>2, <1>3, <1>6, OptionsAreControls, ProceedStands
  <1>8. Stands(Reobserve(loop, "candidates"), seen, touches) /\ Stands(Gated(loop), seen, touches)
    BY <1>2, LoopStanding, ReobserveStands, GatedStands DEF Stages
  <1> QED  BY <1>1, <1>5, <1>7, <1>8, LoopOnlyKeeps

LEMMA DecidingStands ==
    ASSUME LoopInvariant, loop.pc = "decide"
    PROVE  /\ loop \in LoopRecords /\ GoesOn(loop) /\ seen.touch = touches
           /\ loop.actions < MaxActions /\ loop.calls < MaxModelCalls
  BY LoopStanding DEF Relies

LEMMA ScreenKeepsLoop ==
    ASSUME LoopInvariant, ScreenRefuses PROVE LoopInvariant'
  <1>1. Stands(Reobserve(loop, "decide"), seen, touches)
    BY DecidingStands, ReobserveStands DEF ScreenRefuses, Stages
  <1> QED  BY <1>1, LoopOnlyKeeps DEF ScreenRefuses

LEMMA FailedDecisionKeepsLoop ==
    ASSUME LoopInvariant, DecisionFails PROVE LoopInvariant'
  <1> DEFINE l == [loop EXCEPT !.badDecisions = @ + 1, !.idle = @ + 1, !.pc = "top"]
  <1>1. /\ loop.pc = "decide" /\ LoopOnly
        /\ loop' = IF l.badDecisions >= MaxDecisionFailures
                   THEN Ended(l, "raised", "decision_failed") ELSE l
    BY DEF DecisionFails
  <1>2. loop.badDecisions + 1 \in 0..MaxDecisionFailures /\ loop.idle + 1 \in Nat
    BY <1>1, DecidingStands, LoopFields, LoopBounds DEF GoesOn
  <1>3. l \in LoopRecords
    BY <1>2, LoopStanding DEF LoopRecords
  <1>4. /\ l.pc = "top" /\ l.denials = loop.denials /\ l.badDecisions = loop.badDecisions + 1
        /\ l.badActions = loop.badActions /\ l.outcome = loop.outcome
    BY LoopStanding DEF LoopRecords
  <1> HIDE DEF l
  <1>5. CASE l.badDecisions >= MaxDecisionFailures
    <2>1. Stands(Ended(l, "raised", "decision_failed"), seen, touches)
      BY <1>3, EndedStands DEF Endings, Reasons
    <2> QED  BY <1>1, <1>5, <2>1, LoopOnlyKeeps
  <1>6. CASE ~(l.badDecisions >= MaxDecisionFailures)
    <2>1. l.badDecisions < MaxDecisionFailures
      BY <1>2, <1>4, <1>6, LoopBounds
    <2>2. Stands(l, seen, touches)
      BY <1>1, <1>3, <1>4, <2>1, DecidingStands DEF Stands, Relies, GoesOn
    <2> QED  BY <1>1, <1>6, <2>2, LoopOnlyKeeps
  <1> QED  BY <1>5, <1>6

LEMMA BrokenDecisionKeepsLoop ==
    ASSUME LoopInvariant, DecisionBreaks PROVE LoopInvariant'
  <1>1. Stands(TimedOut(loop), seen, touches) /\ Stands(Raised(loop), seen, touches)
    BY DecidingStands, TimedOutStands, RaisedStands DEF DecisionBreaks
  <1> QED  BY <1>1, LoopOnlyKeeps DEF DecisionBreaks

LEMMA AnswerKeepsLoop ==
    ASSUME LoopInvariant, ModelAnswers PROVE LoopInvariant'
  <1> DEFINE l == [loop EXCEPT !.calls = @ + 1, !.badDecisions = 0]
  <1>1. /\ loop.pc = "decide" /\ LoopOnly
        /\ loop' \in {Reobserve(l, "decide"), Gated(l), Ended(l, "exhausted", "decision_unusable")}
                     \cup {Proceed(l, c) : c \in Options}
    BY DEF ModelAnswers
  <1>2. loop.calls + 1 \in 0..MaxModelCalls /\ 0 \in 0..MaxDecisionFailures
        /\ 0 < MaxDecisionFailures
    BY <1>1, DecidingStands, LoopFields, LoopBounds
  <1>3. l \in LoopRecords
    BY <1>2, LoopStanding DEF LoopRecords
  <1>4. /\ l.denials = loop.denials /\ l.badDecisions = 0 /\ l.actions = loop.actions
        /\ l.badActions = loop.badActions /\ l.outcome = loop.outcome
    BY LoopStanding DEF LoopRecords
  <1> HIDE DEF l
  <1>5. GoesOn(l) /\ l.actions < MaxActions /\ seen.touch = touches
    BY <1>1, <1>2, <1>4, DecidingStands DEF GoesOn
  <1>6. /\ Stands(Reobserve(l, "decide"), seen, touches) /\ Stands(Gated(l), seen, touches)
        /\ Stands(Ended(l, "exhausted", "decision_unusable"), seen, touches)
    BY <1>3, <1>5, ReobserveStands, GatedStands, EndedStands DEF Stages, Endings, Reasons
  <1>7. \A c \in Options : Stands(Proceed(l, c), seen, touches)
    BY <1>3, <1>5, OptionsAreControls, ProceedStands
  <1>8. Stands(loop', seen, touches)
    BY <1>1, <1>6, <1>7
  <1> QED  BY <1>1, <1>8 DEF LoopInvariant, LoopOnly

LEMMA ReobservationKeepsLoop ==
    ASSUME LoopInvariant, Reobserved PROVE LoopInvariant'
  <1>1. UNCHANGED <<page, moves, touches>> /\ loop.pc = "reobserve"
    BY DEF Reobserved
  <1>2. GoesOn(loop) /\ (loop.stage \notin {"act", "verify"} => seen.touch = touches)
    BY <1>1, LoopStanding DEF Relies
  <1>3. CASE loop' = [loop EXCEPT !.pc = "top", !.stage = "observe"] /\ seen' = Reading
    <2> DEFINE l == [loop EXCEPT !.pc = "top", !.stage = "observe"]
    <2>1. l \in LoopRecords
      BY LoopStanding DEF LoopRecords, Stages
    <2>2. /\ l.pc = "top" /\ l.denials = loop.denials /\ l.badDecisions = loop.badDecisions
          /\ l.badActions = loop.badActions /\ l.outcome = loop.outcome
      BY LoopStanding DEF LoopRecords
    <2>3. loop' = l
      BY <1>3
    <2> HIDE DEF l
    <2>4. Stands(l, Reading, touches)
      BY <1>2, <2>1, <2>2, ReadingStands DEF Stands, Relies, GoesOn
    <2> QED  BY <1>1, <1>3, <2>3, <2>4, ReadingStands DEF LoopInvariant
  <1>4. CASE loop' \in {TimedOut(loop), Raised(loop)} /\ UNCHANGED seen
    <2>1. Stands(TimedOut(loop), seen, touches) /\ Stands(Raised(loop), seen, touches)
      BY <1>2, LoopStanding, TimedOutStands, RaisedStands
    <2> QED  BY <1>1, <1>4, <2>1 DEF LoopInvariant
  <1> QED  BY <1>3, <1>4 DEF Reobserved

(* The act call: the page may have been touched, and the reading is then older. *)

LEMMA TouchedStands ==
    ASSUME LoopInvariant, UNCHANGED <<page, touches>> \/ Touched
    PROVE  page' \in PageStates /\ touches' \in Nat
  <1>1. CASE UNCHANGED <<page, touches>>
    BY <1>1 DEF LoopInvariant
  <1>2. CASE Touched
    <2>1. page.gen + 1 \in Nat /\ touches' \in Nat
      BY <1>2, LoopStanding, PageFields DEF Touched
    <2> QED  BY <1>2, <2>1 DEF Touched, PageStates
  <1> QED  BY <1>1, <1>2

LEMMA ActingStands ==
    ASSUME LoopInvariant, loop.pc = "act"
    PROVE  /\ loop \in LoopRecords /\ GoesOn(loop) /\ loop.stage = "act"
           /\ loop.actions < MaxActions /\ loop.chosen \in Controls /\ seen.touch = touches
  BY LoopStanding DEF Relies

LEMMA StaleActKeepsLoop ==
    ASSUME LoopInvariant, ActIsStale PROVE LoopInvariant'
  <1> DEFINE m == Reobserve(loop, "act")
             l == [m EXCEPT !.pending = loop.chosen]
  <1>1. loop.pc = "act" /\ LoopOnly /\ loop' = l
    BY DEF ActIsStale
  <1>2. Stands(m, seen, touches) /\ m.pc = "reobserve" /\ m.stage = "act"
    <2>1. m.pc = "reobserve" /\ m.stage = "act"
      BY LoopStanding DEF Reobserve, LoopRecords
    <2> QED  BY <1>1, <2>1, ActingStands, ReobserveStands DEF Stages
  <1> HIDE DEF m
  <1>3. /\ l \in LoopRecords /\ l.pc = m.pc /\ l.stage = m.stage /\ l.denials = m.denials
        /\ l.badDecisions = m.badDecisions /\ l.badActions = m.badActions
        /\ l.outcome = m.outcome
    BY <1>1, <1>2, ActingStands DEF Stands, LoopRecords, Choices
  <1> HIDE DEF l
  <1>4. Stands(l, seen, touches)
    BY <1>2, <1>3 DEF Stands, Relies, GoesOn
  <1> QED  BY <1>1, <1>4, LoopOnlyKeeps

LEMMA AvoidingStands ==
    ASSUME NEW l \in LoopRecords, l.chosen \in Controls
    PROVE  /\ Avoiding(l) \in LoopRecords /\ (GoesOn(l) => GoesOn(Avoiding(l)))
           /\ Avoiding(l).stage = l.stage /\ Avoiding(l).badActions = l.badActions
           /\ Avoiding(l).denials = l.denials /\ Avoiding(l).badDecisions = l.badDecisions
           /\ Avoiding(l).outcome = l.outcome /\ Avoiding(l).idle = l.idle
  <1>1. l.avoid \cup {l.chosen} \subseteq Controls
    BY LoopFields
  <1>2. Avoiding(l) \in LoopRecords
    BY <1>1 DEF Avoiding, LoopRecords
  <1> QED  BY <1>2 DEF Avoiding, LoopRecords, GoesOn

LEMMA BlockedActKeepsLoop ==
    ASSUME LoopInvariant, ActIsBlocked PROVE LoopInvariant'
  <1>1. /\ loop.pc = "act" /\ (UNCHANGED <<page, touches>> \/ Touched)
        /\ loop' = Denied(Avoiding(loop)) /\ UNCHANGED <<moves, seen>>
    BY DEF ActIsBlocked
  <1>2. Stands(Denied(Avoiding(loop)), seen, touches')
    BY <1>1, ActingStands, AvoidingStands, DeniedStands
  <1> QED  BY <1>1, <1>2, TouchedStands DEF LoopInvariant

LEMMA FailedActKeepsLoop ==
    ASSUME LoopInvariant, ActFails PROVE LoopInvariant'
  <1> DEFINE m == Avoiding(loop)
             l == [m EXCEPT !.badActions = @ + 1]
             more == [l EXCEPT !.idle = @ + 1]
  <1>1. /\ loop.pc = "act" /\ (UNCHANGED <<page, touches>> \/ Touched)
        /\ UNCHANGED <<moves, seen>>
        /\ loop' = IF l.badActions >= MaxActionFailures
                   THEN Ended(more, "exhausted", "action_failed") ELSE Reobserve(l, "act")
    BY DEF ActFails
  <1>2. m \in LoopRecords /\ GoesOn(m)
    BY <1>1, ActingStands, AvoidingStands
  <1> HIDE DEF m
  <1>3. m.badActions + 1 \in 0..MaxActionFailures
    BY <1>2, LoopFields, LoopBounds DEF GoesOn
  <1>4. /\ l \in LoopRecords /\ l.denials = m.denials /\ l.badDecisions = m.badDecisions
        /\ l.badActions = m.badActions + 1 /\ l.outcome = m.outcome
    BY <1>2, <1>3 DEF LoopRecords
  <1> HIDE DEF l
  <1>5. l.idle + 1 \in Nat
    BY <1>4, LoopFields
  <1>6. more \in LoopRecords
    BY <1>4, <1>5 DEF LoopRecords
  <1> HIDE DEF more
  <1>7. CASE l.badActions >= MaxActionFailures
    <2>1. Stands(Ended(more, "exhausted", "action_failed"), seen, touches')
      BY <1>6, EndedStands DEF Endings, Reasons
    <2> QED  BY <1>1, <1>7, <2>1, TouchedStands DEF LoopInvariant
  <1>8. CASE ~(l.badActions >= MaxActionFailures)
    <2>1. GoesOn(l)
      BY <1>2, <1>3, <1>4, <1>8, LoopBounds DEF GoesOn
    <2>2. Stands(Reobserve(l, "act"), seen, touches')
      BY <1>4, <2>1, ReobserveStands DEF Stages
    <2> QED  BY <1>1, <1>8, <2>2, TouchedStands DEF LoopInvariant
  <1> QED  BY <1>7, <1>8

LEMMA BrokenActKeepsLoop ==
    ASSUME LoopInvariant, ActBreaks PROVE LoopInvariant'
  <1>1. /\ loop.pc = "act" /\ (UNCHANGED <<page, touches>> \/ Touched)
        /\ loop' \in {TimedOut(loop), Raised(loop)} /\ UNCHANGED <<moves, seen>>
    BY DEF ActBreaks
  <1>2. Stands(TimedOut(loop), seen, touches') /\ Stands(Raised(loop), seen, touches')
    BY <1>1, ActingStands, TimedOutStands, RaisedStands
  <1> QED  BY <1>1, <1>2, TouchedStands DEF LoopInvariant

LEMMA ExecutedActKeepsLoop ==
    ASSUME LoopInvariant, ActExecuted PROVE LoopInvariant'
  <1> DEFINE l == [loop EXCEPT !.badActions = 0, !.avoid = @ \ {loop.chosen},
                               !.actions = @ + 1, !.pc = "verify", !.stage = "verify",
                               !.chosen = NoControl]
  <1>1. loop.pc = "act" /\ Touched /\ loop' = l /\ UNCHANGED <<moves, seen>>
    BY DEF ActExecuted
  <1>2. /\ loop.actions + 1 \in 0..MaxActions /\ 0 \in 0..MaxActionFailures
        /\ 0 < MaxActionFailures /\ loop.avoid \ {loop.chosen} \subseteq Controls
    BY <1>1, ActingStands, LoopFields, LoopBounds
  <1>3. l \in LoopRecords
    BY <1>2, LoopStanding DEF LoopRecords, Stages, Choices
  <1>4. /\ l.pc = "verify" /\ l.stage = "verify" /\ l.badActions = 0
        /\ l.denials = loop.denials /\ l.badDecisions = loop.badDecisions
        /\ l.outcome = loop.outcome
    BY LoopStanding DEF LoopRecords
  <1> HIDE DEF l
  <1>5. Stands(l, seen, touches')
    BY <1>1, <1>2, <1>3, <1>4, ActingStands DEF Stands, Relies, GoesOn
  <1> QED  BY <1>1, <1>5, TouchedStands DEF LoopInvariant

LEMMA VerificationKeepsLoop ==
    ASSUME LoopInvariant, Verify PROVE LoopInvariant'
  <1> DEFINE idle == IF Satisfied(Reading) \subseteq loop.satisfied THEN loop.idle + 1 ELSE 0
             l == [loop EXCEPT !.idle = idle, !.satisfied = Satisfied(Reading),
                               !.pc = "top", !.stage = "observe"]
             done == Ended(loop, "done", "success")
  <1>1. loop.pc = "verify" /\ UNCHANGED <<page, moves, touches>>
    BY DEF Verify
  <1>2. GoesOn(loop) /\ loop.stage = "verify"
    BY <1>1, LoopStanding DEF Relies
  <1>3. CASE seen' = Reading
    <2>1. Satisfied(Reading) \subseteq Posts /\ Satisfied(Reading) = Reading.page.met
      BY ReadingStands, LoopStanding, PageFields DEF Satisfied
    <2>2. idle \in Nat
      BY LoopStanding, LoopFields
    <2>3. CASE AllMet(loop, Reading) /\ loop' = done
      <3>1. done \in LoopRecords /\ done.pc = "done" /\ done.outcome = "done"
        BY LoopStanding DEF Ended, LoopRecords, Endings, Reasons, Choices
      <3> HIDE DEF done
      <3>2. Posts \subseteq Reading.page.met
        BY <2>1, <2>3 DEF AllMet
      <3>3. Stands(done, Reading, touches)
        BY <3>1, <3>2, ReadingStands DEF Stands, Relies
      <3> QED  BY <1>1, <1>3, <2>3, <3>3, ReadingStands DEF LoopInvariant
    <2>4. CASE loop' = Ended(loop, "gate", "page_gate")
      <3>1. Stands(Ended(loop, "gate", "page_gate"), Reading, touches)
        BY LoopStanding, EndedStands DEF Endings, Reasons
      <3> QED  BY <1>1, <1>3, <2>4, <3>1, ReadingStands DEF LoopInvariant
    <2>5. CASE loop' = l
      <3> HIDE DEF idle
      <3>1. l \in LoopRecords
        BY <2>1, <2>2, LoopStanding DEF LoopRecords, Stages
      <3>2. /\ l.pc = "top" /\ l.denials = loop.denials /\ l.badDecisions = loop.badDecisions
            /\ l.badActions = loop.badActions /\ l.outcome = loop.outcome
        BY LoopStanding DEF LoopRecords
      <3> HIDE DEF l
      <3>3. Stands(l, Reading, touches)
        BY <1>2, <3>1, <3>2, ReadingStands DEF Stands, Relies, GoesOn
      <3> QED  BY <1>1, <1>3, <2>5, <3>3, ReadingStands DEF LoopInvariant
    <2>6. \/ AllMet(loop, Reading) /\ loop' = done
          \/ loop' = Ended(loop, "gate", "page_gate")
          \/ loop' = l
          \/ loop' \in {TimedOut(loop), Raised(loop)} /\ UNCHANGED seen
      BY DEF Verify
    <2>7. CASE loop' \in {TimedOut(loop), Raised(loop)} /\ UNCHANGED seen
      <3>1. Stands(TimedOut(loop), seen, touches) /\ Stands(Raised(loop), seen, touches)
        BY <1>2, LoopStanding, TimedOutStands, RaisedStands
      <3> QED  BY <1>1, <2>7, <3>1 DEF LoopInvariant
    <2> QED  BY <2>3, <2>4, <2>5, <2>6, <2>7
  <1>4. CASE loop' \in {TimedOut(loop), Raised(loop)} /\ UNCHANGED seen
    <2>1. Stands(TimedOut(loop), seen, touches) /\ Stands(Raised(loop), seen, touches)
      BY <1>2, LoopStanding, TimedOutStands, RaisedStands
    <2> QED  BY <1>1, <1>4, <2>1 DEF LoopInvariant
  <1> QED  BY <1>3, <1>4 DEF Verify

LEMMA PageMoveKeepsLoop ==
    ASSUME LoopInvariant, PageMoves PROVE LoopInvariant'
  <1>1. /\ moves < MaxMoves /\ moves' = moves + 1 /\ UNCHANGED <<seen, loop, touches>>
        /\ \E p \in Pages : page' = At(p, page.gen + 1)
    BY DEF PageMoves
  <1>2. page.gen + 1 \in Nat /\ moves' \in 0..MaxMoves
    BY <1>1, LoopStanding, PageFields, LoopBounds DEF LoopInvariant
  <1>3. page' \in PageStates
    BY <1>1, <1>2 DEF PageStates
  <1> QED  BY <1>1, <1>2, <1>3 DEF LoopInvariant

LEMMA LoopTakesAStep ==
    ASSUME LoopInvariant, ANext PROVE LoopInvariant'
  <1>1. CASE LoopStep
    BY <1>1, FirstKeepsLoop, BoundsKeepLoop, PlanKeepsLoop, ScreenKeepsLoop,
       FailedDecisionKeepsLoop, BrokenDecisionKeepsLoop, AnswerKeepsLoop,
       ReobservationKeepsLoop, StaleActKeepsLoop, BlockedActKeepsLoop, FailedActKeepsLoop,
       BrokenActKeepsLoop, ExecutedActKeepsLoop, VerificationKeepsLoop DEF LoopStep
  <1> QED  BY <1>1, PageMoveKeepsLoop DEF ANext

LEMMA LoopStutters ==
    ASSUME LoopInvariant, UNCHANGED loopVars PROVE LoopInvariant'
  BY DEF loopVars, LoopInvariant

LEMMA LoopInvariantSuffices ==
    ASSUME LoopInvariant
    PROVE  ATypeOK /\ NoBlindClick /\ DoneMeansMet
  <1>1. NoBlindClick /\ DoneMeansMet
    BY LoopStanding DEF Relies, NoBlindClick, DoneMeansMet
  <1>2. loop.outcome # "none" <=> loop.pc = "done"
    BY LoopStanding DEF Relies, GoesOn
  <1>3. ATypeOK
    BY <1>2, LoopStanding, LoopFields, PageFields
       DEF LoopInvariant, ATypeOK, LoopRecords, Choices
  <1> QED  BY <1>1, <1>3

-----------------------------------------------------------------------------
(* ActionCandidates                                                           *)

LEMMA SameSize ==
    ASSUME NEW set PROVE C!Cardinality(set) = Cardinality(set)
  BY DEF C!Cardinality, Cardinality

LEMMA CandidateBounds ==
    /\ MaxCandidates \in Nat \ {0} /\ MaxRefs \in Nat \ {0} /\ MaxValues \in Nat \ {0}
    /\ MaxPerKind \in Nat \ {0} /\ MaxMoves \in Nat
  BY BrowserAgentAssumption DEF BrowserAgentAssumption, C!CandidatesAssumption

LEMMA ListsAreSequences ==
    ASSUME NEW s \in {Elements, Refs, GotoUrls}
    PROVE  /\ s \in Seq({s[i] : i \in DOMAIN s}) /\ DOMAIN s = 1..Len(s) /\ Len(s) \in Nat
           /\ (s # <<>> => Len(s) > 0)
  <1>1. s \in Seq({s[i] : i \in DOMAIN s})
    BY BrowserAgentAssumption DEF BrowserAgentAssumption, C!CandidatesAssumption
  <1>2. DOMAIN s = 1..Len(s) /\ Len(s) \in Nat
    BY <1>1, LenProperties
  <1>3. s # <<>> => Len(s) \in Nat \ {0}
    BY <1>1, EmptySeq
  <1> QED  BY <1>1, <1>2, <1>3

\* The k-th number of a set is one of it: the least up to which the set holds k.
LEMMA NthOfSet ==
    ASSUME NEW n \in Nat, NEW set, set \subseteq 1..n, NEW k \in 1..Cardinality(set)
    PROVE  \E i \in set : Cardinality(set \cap 1..i) = k
  <1> DEFINE upto(i) == set \cap 1..i
             enough == {i \in 1..n : Cardinality(upto(i)) >= k}
  <1>1. \A i \in 0..n : IsFiniteSet(upto(i)) /\ Cardinality(upto(i)) \in Nat
    <2> TAKE i \in 0..n
    <2>1. IsFiniteSet(1..i) /\ upto(i) \in SUBSET (1..i)
      BY FS_Interval
    <2> HIDE DEF upto
    <2> QED  BY <2>1, FS_Subset, FS_CardinalityType
  <1>2. Cardinality(set) \in Nat /\ upto(n) = set
    <2>1. upto(n) = set
      OBVIOUS
    <2> QED  BY <1>1, <2>1
  <1>3. Cardinality(upto(0)) = 0
    <2>1. upto(0) = {}
      OBVIOUS
    <2> QED  BY <2>1, FS_EmptySet
  <1>4. ASSUME NEW i \in 1..n, i \notin set PROVE upto(i) = upto(i - 1)
    <2> SUFFICES ASSUME NEW j \in set PROVE j \in 1..i <=> j \in 1..(i - 1)
      OBVIOUS
    <2> QED  BY <1>4
  <1>5. ASSUME NEW i \in 1..n, i \in set
        PROVE  Cardinality(upto(i)) = Cardinality(upto(i - 1)) + 1
    <2>1. upto(i) = upto(i - 1) \cup {i} /\ i \notin upto(i - 1)
      <3>1. i \notin upto(i - 1)
        OBVIOUS
      <3>2. ASSUME NEW j \in set PROVE j \in 1..i <=> (j \in 1..(i - 1) \/ j = i)
        OBVIOUS
      <3> QED  BY <1>5, <3>1, <3>2
    <2>2. IsFiniteSet(upto(i - 1))
      <3>1. i - 1 \in 0..n
        OBVIOUS
      <3> HIDE DEF upto
      <3> QED  BY <1>1, <3>1
    <2> HIDE DEF upto
    <2> QED  BY <2>1, <2>2, FS_AddElement
  <1>6. \A i \in 1..n : i \in enough <=> Cardinality(upto(i)) >= k
    OBVIOUS
  <1>7. enough \subseteq 1..n
    OBVIOUS
  <1> HIDE DEF upto, enough
  <1>8. n \in enough
    <2>1. n \in 1..n
      <3>1. k \in Nat /\ 1 <= k /\ k <= Cardinality(set)
        BY <1>2
      <3>2. n # 0
        BY <1>2, <1>3, <3>1
      <3> QED  BY <3>2
    <2> QED  BY <1>2, <1>6, <2>1
  <1>9. PICK i \in enough : \A j \in enough : i <= j
    <2>1. enough \subseteq Nat
      BY <1>7
    <2> QED  BY <1>8, <2>1, LeastOfSet
  <1>10. i \in 1..n /\ Cardinality(upto(i)) >= k
    BY <1>6, <1>7
  <1>11. i - 1 \in 0..n /\ Cardinality(upto(i - 1)) < k
    <2>1. i - 1 \in 0..n /\ i - 1 \notin enough
      BY <1>7, <1>9, <1>10
    <2>2. CASE i - 1 = 0
      BY <1>2, <1>3, <2>1, <2>2
    <2>3. CASE i - 1 # 0
      <3>1. i - 1 \in 1..n
        BY <1>10, <2>3
      <3>2. ~(Cardinality(upto(i - 1)) >= k)
        BY <1>6, <2>1, <3>1
      <3> QED  BY <1>1, <1>2, <2>1, <3>2
    <2> QED  BY <2>2, <2>3
  <1>12. Cardinality(upto(i)) \in Nat /\ Cardinality(upto(i - 1)) \in Nat /\ k \in Nat
    BY <1>1, <1>2, <1>10, <1>11
  <1>13. i \in set
    BY <1>4, <1>10, <1>11, <1>12
  <1>14. Cardinality(upto(i)) = k
    BY <1>5, <1>10, <1>11, <1>12, <1>13
  <1> QED  BY <1>13, <1>14 DEF upto

\* A set of numbers in order: as long as the set, and made of its numbers.
LEMMA OrderIsASequence ==
    ASSUME NEW n \in Nat, NEW set, set \subseteq 1..n
    PROVE  /\ C!InOrder(set) \in Seq(set) /\ Len(C!InOrder(set)) = Cardinality(set)
           /\ Cardinality(set) \in Nat /\ (set # {} => Cardinality(set) > 0)
           /\ (set = {} => Cardinality(set) = 0)
  <1> DEFINE nth(k) == CHOOSE i \in set : C!Cardinality(set \cap 1..i) = k
             order == [k \in 1..C!Cardinality(set) |-> nth(k)]
  <1>1. PICK size : size = Cardinality(set)
    OBVIOUS
  <1>2. size \in Nat /\ (set = {} <=> size = 0)
    <2>1. IsFiniteSet(1..n) /\ set \in SUBSET (1..n)
      BY FS_Interval
    <2>2. IsFiniteSet(set)
      BY <2>1, FS_Subset
    <2> QED  BY <1>1, <2>2, FS_CardinalityType, FS_EmptySet
  <1>3. ASSUME NEW k \in 1..size PROVE nth(k) \in set
    <2>1. PICK i \in set : Cardinality(set \cap 1..i) = k
      BY <1>1, NthOfSet
    <2>2. \E j \in set : C!Cardinality(set \cap 1..j) = k
      BY <2>1, SameSize
    <2> QED  BY <2>2
  <1>4. C!InOrder(set) = order /\ C!Cardinality(set) = size
    BY <1>1, SameSize DEF C!InOrder
  <1> HIDE DEF nth
  <1>5. order \in [1..size -> set] /\ DOMAIN order = 1..size
    BY <1>3, <1>4
  <1> HIDE DEF order
  <1>6. order \in Seq(set)
    BY <1>2, <1>5, SeqDef
  <1>7. Len(order) = size
    <2>1. Len(order) \in Nat /\ 1..Len(order) = 1..size
      BY <1>5, <1>6, LenProperties
    <2> QED  BY <1>2, <2>1
  <1>8. C!InOrder(set) \in Seq(set) /\ Len(C!InOrder(set)) = size
    BY <1>4, <1>6, <1>7
  <1>9. size \in Nat /\ (size # 0 => size > 0)
    <2>1. size \in Nat
      BY <1>2
    <2> QED  BY <2>1
  <1> QED  BY <1>1, <1>2, <1>8, <1>9

\* What is taken from a sequence: elements of it, the first among them.
LEMMA TakenFromASequence ==
    ASSUME NEW set, NEW s \in Seq(set), NEW n \in Nat \ {0}
    PROVE  /\ C!Take(s, n) \in Seq(set) /\ Len(C!Take(s, n)) \in Nat
           /\ Len(s) > 0 => Len(C!Take(s, n)) > 0 /\ C!Take(s, n)[1] = s[1]
           /\ Len(s) = 0 => Len(C!Take(s, n)) = 0
  <1>1. Len(s) \in Nat /\ \A i \in 1..Len(s) : s[i] \in set
    BY LenProperties
  <1>2. PICK m : m = IF n < Len(s) THEN n ELSE Len(s)
    OBVIOUS
  <1>3. m \in Nat /\ m <= Len(s) /\ (Len(s) > 0 => m > 0)
    BY <1>1, <1>2
  <1>4. C!Take(s, n) = SubSeq(s, 1, m)
    BY <1>2 DEF C!Take
  <1>5. \A i \in 1..m : s[i] \in set
    BY <1>1, <1>3
  <1>6. /\ SubSeq(s, 1, m) \in Seq(set)
        /\ Len(SubSeq(s, 1, m)) = IF 1 <= m THEN m - 1 + 1 ELSE 0
        /\ \A i \in 1..(m - 1 + 1) : SubSeq(s, 1, m)[i] = s[1 + i - 1]
    BY <1>3, <1>5, SubSeqProperties
  <1>7. Len(SubSeq(s, 1, m)) = m
    BY <1>3, <1>6
  <1>8. m > 0 => SubSeq(s, 1, m)[1] = s[1]
    BY <1>3, <1>6
  <1> QED  BY <1>1, <1>3, <1>4, <1>6, <1>7, <1>8

(* The groups of candidates.                                                   *)

\* What the page affords in one group, the actions of its candidates, and their elements.
IsGroup(group, afforded, actions, els) ==
    /\ DOMAIN group \subseteq Nat \ {0} /\ (afforded <=> 1 \in DOMAIN group)
    /\ (DOMAIN group # {} => afforded)
    /\ \A k \in DOMAIN group : group[k].action \in actions /\ group[k].el \in els

IsView(p) == p.live \subseteq p.shown /\ p.shown \subseteq DOMAIN Elements /\ p.held \subseteq p.shown

LEMMA ListedInOrder ==
    ASSUME NEW set, set \subseteq DOMAIN Elements, NEW m \in Nat \ {0}
    PROVE  LET s == C!Take(C!InOrder(set), m)
           IN  /\ s \in Seq(set) /\ DOMAIN s = 1..Len(s) /\ Len(s) \in Nat
               /\ (set # {} <=> Len(s) > 0)
  <1> DEFINE order == C!InOrder(set)
             s == C!Take(order, m)
  <1>1. Len(Elements) \in Nat /\ set \subseteq 1..Len(Elements)
    BY ListsAreSequences
  <1>2. /\ order \in Seq(set) /\ Len(order) = Cardinality(set) /\ Cardinality(set) \in Nat
        /\ (set # {} => Cardinality(set) > 0) /\ (set = {} => Cardinality(set) = 0)
    BY <1>1, OrderIsASequence
  <1> HIDE DEF order
  <1>3. /\ s \in Seq(set) /\ Len(s) \in Nat /\ (Len(order) > 0 => Len(s) > 0)
        /\ (Len(order) = 0 => Len(s) = 0)
    BY <1>2, TakenFromASequence
  <1>4. DOMAIN s = 1..Len(s)
    BY <1>3, LenProperties
  <1> HIDE DEF s
  <1>5. set # {} => Len(s) > 0
    BY <1>2, <1>3
  <1>6. set = {} => ~(Len(s) > 0)
    BY <1>2, <1>3
  <1>7. s \in Seq(set) /\ DOMAIN s = 1..Len(s) /\ Len(s) \in Nat /\ (set # {} <=> Len(s) > 0)
    BY <1>3, <1>4, <1>5, <1>6
  <1> QED  BY <1>7 DEF s, order

\* A group made of a listing, element by element.
LEMMA ListingIsAGroup ==
    ASSUME NEW set, NEW s \in Seq(set), DOMAIN s = 1..Len(s), Len(s) \in Nat,
           NEW afforded \in BOOLEAN, afforded <=> Len(s) > 0,
           NEW actions, NEW els, NEW group, DOMAIN group = DOMAIN s,
           \A k \in DOMAIN s : group[k].action \in actions /\ group[k].el \in els
    PROVE  IsGroup(group, afforded, actions, els)
  <1>1. DOMAIN group \subseteq Nat \ {0} /\ (Len(s) > 0 <=> 1 \in DOMAIN group)
    OBVIOUS
  <1>2. DOMAIN group # {} => Len(s) > 0
    OBVIOUS
  <1> QED  BY <1>1, <1>2 DEF IsGroup

LEMMA ClicksAreAGroup ==
    ASSUME NEW p, IsView(p)
    PROVE  IsGroup(C!Clicks(p), C!Named(p) # {}, {"click"}, p.live)
  <1> DEFINE s == C!Take(C!InOrder(C!Relevant(p)), MaxCandidates)
             group == [k \in DOMAIN s |-> C!Candidate("click", s[k], C!None)]
  <1>1. /\ C!Relevant(p) \subseteq p.live /\ C!Relevant(p) \subseteq DOMAIN Elements
        /\ (C!Relevant(p) # {} <=> C!Named(p) # {})
    BY DEF IsView, C!Relevant, C!Named
  <1>2. /\ s \in Seq(C!Relevant(p)) /\ DOMAIN s = 1..Len(s) /\ Len(s) \in Nat
        /\ (C!Relevant(p) # {} <=> Len(s) > 0)
    BY <1>1, CandidateBounds, ListedInOrder
  <1>3. C!Clicks(p) = group
    BY DEF C!Clicks
  <1> HIDE DEF s
  <1>4. ASSUME NEW k \in DOMAIN s
        PROVE  group[k].action \in {"click"} /\ group[k].el \in p.live
    <2>1. s[k] \in p.live
      BY <1>1, <1>2, <1>4, ElementOfSeq
    <2> QED  BY <2>1 DEF C!Candidate
  <1>5. DOMAIN group = DOMAIN s
    OBVIOUS
  <1>6. (C!Named(p) # {}) \in BOOLEAN
    OBVIOUS
  <1> HIDE DEF group
  <1> QED  BY <1>1, <1>2, <1>3, <1>4, <1>5, <1>6, ListingIsAGroup

LEMMA TogglesAreAGroup ==
    ASSUME NEW p, IsView(p)
    PROVE  IsGroup(C!Toggles(p), \E i \in p.live : C!Tickable(i), {"check", "uncheck"}, p.live)
  <1> DEFINE set == {i \in p.live : C!Tickable(i)}
             s == C!Take(C!InOrder(set), MaxPerKind)
             group == [k \in DOMAIN s |->
                         C!Candidate(IF s[k] \in p.held THEN "uncheck" ELSE "check", s[k], C!None)]
  <1>1. set \subseteq p.live /\ set \subseteq DOMAIN Elements
        /\ (set # {} <=> \E i \in p.live : C!Tickable(i))
    BY DEF IsView
  <1>2. C!Toggles(p) = group
    BY DEF C!Toggles
  <1> HIDE DEF set
  <1>3. /\ s \in Seq(set) /\ DOMAIN s = 1..Len(s) /\ Len(s) \in Nat
        /\ (set # {} <=> Len(s) > 0)
    BY <1>1, CandidateBounds, ListedInOrder
  <1> HIDE DEF s
  <1>4. ASSUME NEW k \in DOMAIN s
        PROVE  group[k].action \in {"check", "uncheck"} /\ group[k].el \in p.live
    <2>1. s[k] \in p.live
      BY <1>1, <1>3, <1>4, ElementOfSeq
    <2> QED  BY <2>1 DEF C!Candidate
  <1>5. DOMAIN group = DOMAIN s
    OBVIOUS
  <1>6. (\E i \in p.live : C!Tickable(i)) \in BOOLEAN
    OBVIOUS
  <1> HIDE DEF group
  <1> QED  BY <1>1, <1>2, <1>3, <1>4, <1>5, <1>6, ListingIsAGroup

LEMMA PressesAreAGroup ==
    ASSUME NEW p, IsView(p)
    PROVE  IsGroup(C!Presses(p), \E i \in p.live : C!Submits(i), {"press"}, p.live)
  <1> DEFINE set == {i \in p.live : C!Submits(i)}
             s == C!Take(C!InOrder(set), MaxPerKind)
             group == [k \in DOMAIN s |-> C!Candidate("press", s[k], C!None)]
  <1>1. set \subseteq p.live /\ set \subseteq DOMAIN Elements
        /\ (set # {} <=> \E i \in p.live : C!Submits(i))
    BY DEF IsView
  <1>2. C!Presses(p) = group
    BY DEF C!Presses
  <1> HIDE DEF set
  <1>3. /\ s \in Seq(set) /\ DOMAIN s = 1..Len(s) /\ Len(s) \in Nat
        /\ (set # {} <=> Len(s) > 0)
    BY <1>1, CandidateBounds, ListedInOrder
  <1> HIDE DEF s
  <1>4. ASSUME NEW k \in DOMAIN s
        PROVE  group[k].action \in {"press"} /\ group[k].el \in p.live
    <2>1. s[k] \in p.live
      BY <1>1, <1>3, <1>4, ElementOfSeq
    <2> QED  BY <2>1 DEF C!Candidate
  <1>5. DOMAIN group = DOMAIN s
    OBVIOUS
  <1>6. (\E i \in p.live : C!Submits(i)) \in BOOLEAN
    OBVIOUS
  <1> HIDE DEF group
  <1> QED  BY <1>1, <1>2, <1>3, <1>4, <1>5, <1>6, ListingIsAGroup

LEMMA GotosAreAGroup ==
    ASSUME ways \in {<<>>, GotoUrls}
    PROVE  IsGroup(C!Gotos, ways # <<>>, {"goto"}, {0})
  <1> DEFINE set == {ways[i] : i \in DOMAIN ways}
             s == C!Take(ways, MaxCandidates)
             group == [k \in DOMAIN s |-> C!Candidate("goto", 0, ways[k])]
  <1>1. ways \in Seq(set) /\ (ways # <<>> => Len(ways) > 0)
    <2>1. CASE ways = <<>>
      BY <2>1, EmptySeq
    <2>2. CASE ways = GotoUrls
      BY <2>2, ListsAreSequences
    <2> QED  BY <2>1, <2>2
  <1>2. Len(<<>>) = 0
    BY EmptySeq
  <1> HIDE DEF set
  <1>3. /\ s \in Seq(set) /\ Len(s) \in Nat /\ (Len(ways) > 0 => Len(s) > 0)
        /\ (Len(ways) = 0 => Len(s) = 0)
    BY <1>1, CandidateBounds, TakenFromASequence
  <1>4. C!Gotos = group
    BY DEF C!Gotos
  <1> HIDE DEF s
  <1>5. DOMAIN s = 1..Len(s) /\ DOMAIN group = DOMAIN s
    BY <1>3, LenProperties
  <1>6. \A k \in DOMAIN s : group[k].action \in {"goto"} /\ group[k].el \in {0}
    BY DEF C!Candidate
  <1>7. (ways # <<>>) \in BOOLEAN /\ (ways # <<>> <=> Len(s) > 0)
    <2>1. ways # <<>> => Len(s) > 0
      BY <1>1, <1>3
    <2>2. ways = <<>> => ~(Len(s) > 0)
      BY <1>2, <1>3
    <2> QED  BY <2>1, <2>2
  <1> HIDE DEF group
  <1> QED  BY <1>3, <1>4, <1>5, <1>6, <1>7, ListingIsAGroup

\* The approved references are a list: none when it is empty.
LEMMA ApprovedRefsAreAList ==
    Len(C!ApprovedRefs) \in Nat /\ (C!ApprovedRefs # <<>> <=> Len(C!ApprovedRefs) > 0)
  <1> DEFINE set == {k \in DOMAIN Refs : Refs[k] \in Approved}
             good == C!Take(C!InOrder(set), MaxRefs)
             list == [k \in DOMAIN good |-> Refs[good[k]]]
             all == {Refs[k] : k \in DOMAIN Refs}
  <1>1. set \subseteq 1..Len(Refs) /\ Len(Refs) \in Nat /\ set \subseteq DOMAIN Refs
    BY ListsAreSequences
  <1>2. C!ApprovedRefs = list
    BY DEF C!ApprovedRefs
  <1> HIDE DEF set
  <1>3. C!InOrder(set) \in Seq(set)
    BY <1>1, OrderIsASequence
  <1>4. good \in Seq(set)
    BY <1>3, CandidateBounds, TakenFromASequence
  <1> HIDE DEF good
  <1>5. DOMAIN good = 1..Len(good) /\ Len(good) \in Nat
    BY <1>4, LenProperties
  <1>6. \A k \in DOMAIN good : Refs[good[k]] \in all
    <2> TAKE k \in DOMAIN good
    <2>1. good[k] \in DOMAIN Refs
      BY <1>1, <1>4, <1>5, ElementOfSeq
    <2> QED  BY <2>1
  <1> HIDE DEF all
  <1>7. list \in [1..Len(good) -> all] /\ DOMAIN list = 1..Len(good)
    BY <1>5, <1>6
  <1> HIDE DEF list
  <1>8. list \in Seq(all)
    BY <1>5, <1>7, SeqDef
  <1>9. Len(list) \in Nat /\ (list # <<>> => Len(list) \in Nat \ {0}) /\ Len(<<>>) = 0
    BY <1>8, LenProperties, EmptySeq
  <1>10. list = <<>> => ~(Len(list) > 0)
    BY <1>9
  <1>11. list # <<>> => Len(list) > 0
    BY <1>9
  <1> QED  BY <1>2, <1>9, <1>10, <1>11

\* The inputs by need: all of them, and an empty one first as long as there is one.
LEMMA NeedComesFirst ==
    ASSUME NEW p, NEW set, set \subseteq DOMAIN Elements
    PROVE  LET empty == {i \in set : ~C!HasValue(i, p)}
               order == C!ByNeed(set, p)
           IN  /\ order \in Seq(set) /\ Len(order) \in Nat /\ (set # {} <=> Len(order) > 0)
               /\ empty # {} => order[1] \in empty
  <1> DEFINE filled == {i \in set : C!HasValue(i, p)}
             empty == {i \in set : ~C!HasValue(i, p)}
             rest == set \ filled
             first == C!InOrder(rest)
             rear == C!InOrder(filled)
  <1>1. rest = empty /\ filled \cup rest = set
    OBVIOUS
  <1>2. C!ByNeed(set, p) = first \o rear
    BY DEF C!ByNeed
  <1>3. /\ Len(Elements) \in Nat /\ set \subseteq 1..Len(Elements)
        /\ rest \subseteq 1..Len(Elements) /\ filled \subseteq 1..Len(Elements)
    BY ListsAreSequences
  <1>4. rest \subseteq set /\ filled \subseteq set
    OBVIOUS
  <1> HIDE DEF filled, rest, empty
  <1>5. /\ first \in Seq(rest) /\ Len(first) = Cardinality(rest) /\ Cardinality(rest) \in Nat
        /\ (rest # {} => Cardinality(rest) > 0) /\ (rest = {} => Cardinality(rest) = 0)
    BY <1>3, OrderIsASequence
  <1>6. /\ rear \in Seq(filled) /\ Len(rear) = Cardinality(filled) /\ Cardinality(filled) \in Nat
        /\ (filled # {} => Cardinality(filled) > 0) /\ (filled = {} => Cardinality(filled) = 0)
    BY <1>3, OrderIsASequence
  <1>7. first \in Seq(set) /\ rear \in Seq(set)
    BY <1>4, <1>5, <1>6, SeqMonotonic
  <1> HIDE DEF first, rear
  <1> DEFINE order == first \o rear
  <1>8. /\ order \in Seq(set) /\ Len(order) = Len(first) + Len(rear)
        /\ \A i \in 1..(Len(first) + Len(rear)) :
              order[i] = IF i <= Len(first) THEN first[i] ELSE rear[i - Len(first)]
    BY <1>7, ConcatProperties
  <1> HIDE DEF order
  <1>9. Len(order) \in Nat
    BY <1>5, <1>6, <1>8
  <1>10. set # {} => Len(order) > 0
    <2>1. CASE rest # {}
      BY <2>1, <1>5, <1>6, <1>8
    <2>2. CASE filled # {}
      BY <2>2, <1>5, <1>6, <1>8
    <2> QED  BY <1>1, <2>1, <2>2
  <1>11. set = {} => ~(Len(order) > 0)
    <2> SUFFICES ASSUME set = {} PROVE Len(order) = 0
      BY <1>9
    <2>1. rest = {} /\ filled = {}
      BY <1>4
    <2>2. Len(first) = 0 /\ Len(rear) = 0
      BY <2>1, <1>5, <1>6
    <2> QED  BY <2>2, <1>8
  <1>12. empty # {} => order[1] \in empty
    <2> SUFFICES ASSUME empty # {} PROVE order[1] \in empty
      OBVIOUS
    <2>1. Len(first) \in Nat /\ Len(first) > 0 /\ Len(rear) \in Nat
      BY <1>1, <1>5, <1>6
    <2>2. 1 \in 1..Len(first) /\ 1 \in 1..(Len(first) + Len(rear)) /\ 1 <= Len(first)
      BY <2>1
    <2>3. order[1] = first[1]
      BY <1>8, <2>2
    <2>4. first[1] \in rest
      BY <1>5, <2>2, ElementOfSeq
    <2> QED  BY <1>1, <2>3, <2>4
  <1>13. set # {} <=> Len(order) > 0
    BY <1>10, <1>11
  <1> QED  BY <1>2, <1>8, <1>9, <1>12, <1>13 DEF order, empty

LEMMA Products ==
    ASSUME NEW a \in Nat, NEW b \in Nat
    PROVE  a * b \in Nat /\ (a > 0 /\ b > 0 => a * b > 0) /\ (a = 0 => a * b = 0)
           /\ (b = 0 => a * b = 0)
  OBVIOUS

LEMMA Remainders ==
    ASSUME NEW a \in Nat, NEW b \in Nat \ {0}
    PROVE  (a % b) + 1 \in 1..b /\ 0 % b = 0
  OBVIOUS

\* Inputs times references: there are some when there are both, and the first is for
\* an empty input as long as there is one.
LEMMA InputsAreAGroup ==
    ASSUME NEW p, NEW action, NEW set, set \subseteq DOMAIN Elements
    PROVE  LET group == C!InputsByRefs(action, set, p)
               empty == {i \in set : ~C!HasValue(i, p)}
           IN  /\ IsGroup(group, C!ApprovedRefs # <<>> /\ set # {}, {action}, set)
               /\ C!ApprovedRefs # <<>> /\ empty # {} => 1 \in DOMAIN group /\ group[1].el \in empty
  <1> DEFINE empty == {i \in set : ~C!HasValue(i, p)}
             order == C!ByNeed(set, p)
             inputs == C!Take(order, MaxValues)
             pairs == Len(inputs) * Len(C!ApprovedRefs)
             size == IF pairs < MaxValues THEN pairs ELSE MaxValues
             group == [k \in 1..size |->
                         C!Candidate(action, inputs[((k - 1) % Len(inputs)) + 1],
                                     C!ApprovedRefs[((k - 1) \div Len(inputs)) + 1])]
  <1>1. /\ order \in Seq(set) /\ Len(order) \in Nat /\ (set # {} <=> Len(order) > 0)
        /\ (empty # {} => order[1] \in empty)
    BY NeedComesFirst
  <1>2. C!InputsByRefs(action, set, p) = group
    BY DEF C!InputsByRefs
  <1>3. empty \subseteq set
    OBVIOUS
  <1> HIDE DEF order, empty
  <1>4. /\ inputs \in Seq(set) /\ Len(inputs) \in Nat
        /\ (Len(order) > 0 => Len(inputs) > 0 /\ inputs[1] = order[1])
        /\ (Len(order) = 0 => Len(inputs) = 0)
    BY <1>1, CandidateBounds, TakenFromASequence
  <1> HIDE DEF inputs
  <1>5. /\ pairs \in Nat /\ (Len(inputs) > 0 /\ Len(C!ApprovedRefs) > 0 => pairs > 0)
        /\ (Len(inputs) = 0 => pairs = 0) /\ (Len(C!ApprovedRefs) = 0 => pairs = 0)
    BY <1>4, ApprovedRefsAreAList, Products
  <1> HIDE DEF pairs
  <1>6. size \in Nat /\ (pairs > 0 => size > 0) /\ (pairs = 0 => size = 0)
    BY <1>5, CandidateBounds
  <1>7. C!ApprovedRefs # <<>> /\ set # {} => size > 0
    BY <1>1, <1>4, <1>5, <1>6, ApprovedRefsAreAList
  <1>8. size > 0 => C!ApprovedRefs # <<>> /\ set # {} /\ Len(inputs) > 0
    <2>1. size > 0 => Len(inputs) # 0 /\ Len(C!ApprovedRefs) # 0
      BY <1>5, <1>6
    <2>2. Len(inputs) # 0 => Len(order) # 0 /\ Len(inputs) > 0
      BY <1>4
    <2>3. Len(C!ApprovedRefs) # 0 => C!ApprovedRefs # <<>>
      BY ApprovedRefsAreAList
    <2>4. Len(order) # 0 => set # {}
      BY <1>1
    <2> QED  BY <2>1, <2>2, <2>3, <2>4
  <1> HIDE DEF size
  <1>9. ASSUME NEW k \in 1..size
        PROVE  group[k].action = action /\ group[k].el = inputs[((k - 1) % Len(inputs)) + 1]
               /\ group[k].el \in set
    <2>1. k - 1 \in Nat /\ Len(inputs) \in Nat \ {0}
      BY <1>4, <1>6, <1>8, <1>9
    <2>2. ((k - 1) % Len(inputs)) + 1 \in 1..Len(inputs)
      BY <2>1, Remainders
    <2>3. inputs[((k - 1) % Len(inputs)) + 1] \in set
      BY <1>4, <2>2, ElementOfSeq
    <2> QED  BY <1>9, <2>3 DEF C!Candidate
  <1>10. DOMAIN group = 1..size
    OBVIOUS
  <1> HIDE DEF group
  <1>11. IsGroup(group, C!ApprovedRefs # <<>> /\ set # {}, {action}, set)
    <2>1. DOMAIN group \subseteq Nat \ {0} /\ (1 \in DOMAIN group <=> size > 0)
      BY <1>6, <1>10
    <2>2. DOMAIN group # {} => size > 0
      BY <1>6, <1>10
    <2> QED  BY <1>7, <1>8, <1>9, <1>10, <2>1, <2>2 DEF IsGroup
  <1>12. ASSUME C!ApprovedRefs # <<>>, empty # {}
         PROVE  1 \in DOMAIN group /\ group[1].el \in empty
    <2>1. size > 0 /\ Len(inputs) > 0 /\ inputs[1] \in empty
      BY <1>1, <1>3, <1>4, <1>7, <1>12
    <2>2. 1 \in 1..size
      BY <1>6, <2>1
    <2>3. ((1 - 1) % Len(inputs)) + 1 = 1
      <3>1. Len(inputs) \in Nat \ {0} /\ 1 - 1 = 0
        BY <1>4, <2>1
      <3>2. 0 % Len(inputs) = 0
        BY <3>1, Remainders
      <3> QED  BY <3>1, <3>2
    <2> QED  BY <1>9, <1>10, <2>1, <2>2, <2>3
  <1> QED  BY <1>2, <1>11, <1>12 DEF empty

(* The allocation.                                                             *)

LEMMA NumbersUpTo ==
    IsFiniteSet(1..6) /\ IsFiniteSet(1..2) /\ Cardinality(1..2) = 2
  <1>1. \A n \in Nat : IsFiniteSet(1..n) /\ Cardinality(1..n) = n
    BY FS_Interval
  <1>2. 6 \in Nat /\ 2 \in Nat
    OBVIOUS
  <1> QED  BY <1>1, <1>2, Zenon

\* Of the groups that have a candidate, those up to the g-th.
FirstSeats(groups, g) == {h \in 1..6 : h <= g /\ 1 \in DOMAIN groups[h]}

\* Nothing is offered that is in no group; and a group's first candidate is offered
\* when the budget seats the first candidates up to its own.
LEMMA FirstsAreServed ==
    ASSUME NEW groups, DOMAIN groups = 1..6, \A g \in 1..6 : DOMAIN groups[g] \subseteq Nat \ {0}
    PROVE  /\ \A c \in C!Allocate(groups) :
                 \E g \in 1..6 : \E i \in DOMAIN groups[g] : c = groups[g][i]
           /\ \A g \in 1..6 :
                 1 \in DOMAIN groups[g] /\ Cardinality(FirstSeats(groups, g)) <= MaxCandidates
                    => groups[g][1] \in C!Allocate(groups)
  <1> DEFINE seats == UNION {{<<g, i>> : i \in DOMAIN groups[g]} : g \in DOMAIN groups}
             served == {t \in seats : C!Rank(t, seats) <= MaxCandidates}
  <1>1. C!Allocate(groups) = {groups[s[1]][s[2]] : s \in served}
    BY DEF C!Allocate
  <1>2. \A s \in seats : \E g \in 1..6 : \E i \in DOMAIN groups[g] : s = <<g, i>>
    OBVIOUS
  <1>3. \A g \in 1..6 : \A i \in DOMAIN groups[g] : <<g, i>> \in seats
    OBVIOUS
  <1>4. served \subseteq seats /\ \A t \in seats : t \in served <=> C!Rank(t, seats) <= MaxCandidates
    OBVIOUS
  <1> HIDE DEF seats, served
  <1>5. ASSUME NEW c \in C!Allocate(groups)
        PROVE  \E g \in 1..6 : \E i \in DOMAIN groups[g] : c = groups[g][i]
    <2>1. PICK s \in served : c = groups[s[1]][s[2]]
      BY <1>1
    <2>2. PICK g, i : g \in 1..6 /\ i \in DOMAIN groups[g] /\ s = <<g, i>>
      BY <1>2, <1>4
    <2> QED  BY <2>1, <2>2
  <1>6. ASSUME NEW g \in 1..6, 1 \in DOMAIN groups[g],
               Cardinality(FirstSeats(groups, g)) <= MaxCandidates
        PROVE  groups[g][1] \in C!Allocate(groups)
    <2> DEFINE seat == <<g, 1>>
               ahead == {s \in seats : s[2] < seat[2] \/ (s[2] = seat[2] /\ s[1] <= seat[1])}
               firsts == FirstSeats(groups, g)
               f == [s \in ahead |-> s[1]]
    <2>1. \A s \in ahead : s = <<s[1], 1>> /\ s[1] \in firsts
      <3> TAKE s \in ahead
      <3>1. PICK h, i : h \in 1..6 /\ i \in DOMAIN groups[h] /\ s = <<h, i>>
        BY <1>2
      <3>2. i \in Nat \ {0} /\ (i < 1 \/ (i = 1 /\ h <= g))
        BY <3>1
      <3>3. i = 1 /\ h <= g
        BY <3>2
      <3> QED  BY <3>1, <3>3 DEF FirstSeats
    <2>2. IsFiniteSet(firsts)
      <3>1. firsts \in SUBSET (1..6)
        BY DEF FirstSeats
      <3> HIDE DEF firsts
      <3> QED  BY <3>1, NumbersUpTo, FS_Subset, Zenon
    <2>3. C!Rank(seat, seats) = Cardinality(ahead)
      BY SameSize DEF C!Rank
    <2> HIDE DEF firsts, ahead
    <2>4. f \in Injection(ahead, firsts)
      <3>1. f \in [ahead -> firsts]
        BY <2>1
      <3>2. \A s, t \in ahead : f[s] = f[t] => s = t
        BY <2>1
      <3> QED  BY <3>1, <3>2 DEF Injection, IsInjective
    <2> HIDE DEF f
    <2>5. Cardinality(ahead) <= Cardinality(firsts) /\ IsFiniteSet(ahead)
      BY <2>2, <2>4, FS_Injection
    <2>6. Cardinality(ahead) \in Nat /\ Cardinality(firsts) \in Nat
      BY <2>2, <2>5, FS_CardinalityType
    <2>7. C!Rank(seat, seats) <= MaxCandidates
      <3>1. Cardinality(firsts) <= MaxCandidates
        BY <1>6 DEF firsts
      <3> QED  BY <2>3, <2>5, <2>6, <3>1, CandidateBounds
    <2>8. seat \in served
      BY <1>3, <1>4, <1>6, <2>7
    <2>9. groups[seat[1]][seat[2]] = groups[g][1]
      OBVIOUS
    <2> HIDE DEF seat
    <2> QED  BY <1>1, <2>8, <2>9
  <1> QED  BY <1>5, <1>6

Kinds6 == <<"click", "fill", "select", "toggle", "goto", "press">>
KindOf(c) == IF c.action \in {"check", "uncheck"} THEN "toggle" ELSE c.action
Groups(p) == <<C!Clicks(p), C!Fills(p), C!Selects(p), C!Toggles(p), C!Gotos, C!Presses(p)>>

\* The six groups of a page: what is in them, and when there is anything.
LEMMA GroupsOfAPage ==
    ASSUME NEW p, IsView(p), ways \in {<<>>, GotoUrls}, NEW g \in 1..6
    PROVE  /\ DOMAIN Groups(p)[g] \subseteq Nat \ {0}
           /\ (Kinds6[g] \in C!Affords(p) <=> 1 \in DOMAIN Groups(p)[g])
           /\ (DOMAIN Groups(p)[g] # {} => Kinds6[g] \in C!Affords(p))
           /\ \A k \in DOMAIN Groups(p)[g] :
                 /\ KindOf(Groups(p)[g][k]) = Kinds6[g]
                 /\ Groups(p)[g][k].el \in {0} \cup p.live
  <1> DEFINE writable == {i \in p.live : C!Writable(i)}
             selectable == {i \in p.live : C!Selectable(i)}
  <1>1. CASE g = 1
    <2>1. Groups(p)[g] = C!Clicks(p) /\ Kinds6[g] = "click"
      BY <1>1 DEF Groups, Kinds6
    <2>2. "click" \in C!Affords(p) <=> C!Named(p) # {}
      BY DEF C!Affords
    <2> QED  BY <2>1, <2>2, ClicksAreAGroup DEF IsGroup, KindOf
  <1>2. CASE g = 2
    <2>1. Groups(p)[g] = C!InputsByRefs("fill", writable, p) /\ Kinds6[g] = "fill"
      BY <1>2 DEF Groups, Kinds6, C!Fills
    <2>2. "fill" \in C!Affords(p) <=> C!ApprovedRefs # <<>> /\ writable # {}
      BY DEF C!Affords
    <2>3. writable \subseteq DOMAIN Elements /\ writable \subseteq p.live
      BY DEF IsView
    <2> HIDE DEF writable
    <2>4. IsGroup(Groups(p)[g], C!ApprovedRefs # <<>> /\ writable # {}, {"fill"}, writable)
      BY <2>1, <2>3, InputsAreAGroup DEF IsGroup
    <2> QED  BY <2>1, <2>2, <2>3, <2>4 DEF IsGroup, KindOf
  <1>3. CASE g = 3
    <2>1. Groups(p)[g] = C!InputsByRefs("select", selectable, p) /\ Kinds6[g] = "select"
      BY <1>3 DEF Groups, Kinds6, C!Selects
    <2>2. "select" \in C!Affords(p) <=> C!ApprovedRefs # <<>> /\ selectable # {}
      BY DEF C!Affords
    <2>3. selectable \subseteq DOMAIN Elements /\ selectable \subseteq p.live
      BY DEF IsView
    <2> HIDE DEF selectable
    <2>4. IsGroup(Groups(p)[g], C!ApprovedRefs # <<>> /\ selectable # {}, {"select"}, selectable)
      BY <2>1, <2>3, InputsAreAGroup DEF IsGroup
    <2> QED  BY <2>1, <2>2, <2>3, <2>4 DEF IsGroup, KindOf
  <1>4. CASE g = 4
    <2>1. Groups(p)[g] = C!Toggles(p) /\ Kinds6[g] = "toggle"
      BY <1>4 DEF Groups, Kinds6
    <2>2. "toggle" \in C!Affords(p) <=> \E i \in p.live : C!Tickable(i)
      BY DEF C!Affords
    <2> QED  BY <2>1, <2>2, TogglesAreAGroup DEF IsGroup, KindOf
  <1>5. CASE g = 5
    <2>1. Groups(p)[g] = C!Gotos /\ Kinds6[g] = "goto"
      BY <1>5 DEF Groups, Kinds6
    <2>2. "goto" \in C!Affords(p) <=> ways # <<>>
      BY DEF C!Affords
    <2> QED  BY <2>1, <2>2, GotosAreAGroup DEF IsGroup, KindOf
  <1>6. CASE g = 6
    <2>1. Groups(p)[g] = C!Presses(p) /\ Kinds6[g] = "press"
      BY <1>6 DEF Groups, Kinds6
    <2>2. "press" \in C!Affords(p) <=> \E i \in p.live : C!Submits(i)
      BY DEF C!Affords
    <2> QED  BY <2>1, <2>2, PressesAreAGroup DEF IsGroup, KindOf
  <1> QED  BY <1>1, <1>2, <1>3, <1>4, <1>5, <1>6

LEMMA OfferIsOfAPage ==
    ASSUME NEW p, IsView(p), ways \in {<<>>, GotoUrls}
    PROVE  /\ \A c \in C!GenerateCandidates(p) :
                 KindOf(c) \in C!Affords(p) /\ c.el \in {0} \cup p.live
           /\ \A g \in 1..6 :
                 1 \in DOMAIN Groups(p)[g] /\ Cardinality(FirstSeats(Groups(p), g)) <= MaxCandidates
                    => Groups(p)[g][1] \in C!GenerateCandidates(p)
  <1>1. DOMAIN Groups(p) = 1..6
    BY DEF Groups
  <1>2. C!GenerateCandidates(p) = C!Allocate(Groups(p))
    BY DEF C!GenerateCandidates, Groups
  <1>3. \A g \in 1..6 : DOMAIN Groups(p)[g] \subseteq Nat \ {0}
    BY GroupsOfAPage
  <1>4. /\ \A c \in C!Allocate(Groups(p)) :
              \E g \in 1..6 : \E i \in DOMAIN Groups(p)[g] : c = Groups(p)[g][i]
        /\ \A g \in 1..6 :
              1 \in DOMAIN Groups(p)[g] /\ Cardinality(FirstSeats(Groups(p), g)) <= MaxCandidates
                 => Groups(p)[g][1] \in C!Allocate(Groups(p))
    BY <1>1, <1>3, FirstsAreServed
  <1>5. ASSUME NEW c \in C!GenerateCandidates(p)
        PROVE  KindOf(c) \in C!Affords(p) /\ c.el \in {0} \cup p.live
    <2>1. PICK g, i : g \in 1..6 /\ i \in DOMAIN Groups(p)[g] /\ c = Groups(p)[g][i]
      BY <1>2, <1>4
    <2> QED  BY <2>1, GroupsOfAPage
  <1> QED  BY <1>2, <1>4, <1>5

\* The kinds a page affords are as many as the groups that have a candidate.
LEMMA KindsAreFirsts ==
    ASSUME NEW p, IsView(p), ways \in {<<>>, GotoUrls}, NEW g \in 1..6
    PROVE  Cardinality(FirstSeats(Groups(p), g)) <= Cardinality(C!Affords(p))
           /\ Cardinality(C!Affords(p)) \in Nat /\ Cardinality(FirstSeats(Groups(p), g)) \in Nat
  <1> DEFINE firsts(h) == FirstSeats(Groups(p), h)
             f == [h \in firsts(6) |-> Kinds6[h]]
  <1>1. IsFiniteSet(firsts(6)) /\ firsts(g) \in SUBSET firsts(6)
    <2>1. firsts(6) \in SUBSET (1..6)
      BY DEF FirstSeats
    <2>2. firsts(g) \in SUBSET firsts(6)
      BY DEF FirstSeats
    <2> HIDE DEF firsts
    <2>3. IsFiniteSet(firsts(6))
      BY <2>1, NumbersUpTo, FS_Subset, Zenon
    <2> QED  BY <2>2, <2>3
  <1>2. \A h \in 1..6 : h \in firsts(6) <=> Kinds6[h] \in C!Affords(p)
    BY GroupsOfAPage DEF FirstSeats
  <1>3. firsts(6) \subseteq 1..6
    BY DEF FirstSeats
  <1>4. \A k \in C!Affords(p) : \E h \in 1..6 : k = Kinds6[h]
    BY DEF C!Affords, Kinds6
  <1>5. \A h, j \in 1..6 : Kinds6[h] = Kinds6[j] => h = j
    BY DEF Kinds6
  <1> HIDE DEF firsts
  <1>6. f \in [firsts(6) -> C!Affords(p)]
    BY <1>2, <1>3
  <1>7. f \in Injection(firsts(6), C!Affords(p))
    <2>1. \A h, j \in firsts(6) : f[h] = f[j] => h = j
      BY <1>3, <1>5
    <2> QED  BY <1>6, <2>1 DEF Injection, IsInjective
  <1>8. f \in Surjection(firsts(6), C!Affords(p))
    <2>1. \A k \in C!Affords(p) : \E h \in firsts(6) : f[h] = k
      BY <1>2, <1>4
    <2> QED  BY <1>6, <2>1 DEF Surjection
  <1> HIDE DEF f
  <1>9. IsFiniteSet(C!Affords(p)) /\ Cardinality(C!Affords(p)) = Cardinality(firsts(6))
    BY <1>1, <1>7, <1>8, FS_Surjection
  <1>10. Cardinality(firsts(g)) <= Cardinality(firsts(6)) /\ IsFiniteSet(firsts(g))
    BY <1>1, FS_Subset
  <1>11. Cardinality(C!Affords(p)) \in Nat /\ Cardinality(firsts(g)) \in Nat
    BY <1>9, <1>10, FS_CardinalityType
  <1> QED  BY <1>9, <1>10, <1>11 DEF firsts

LEMMA EveryKindIsServed ==
    ASSUME NEW p, IsView(p), ways \in {<<>>, GotoUrls},
           Cardinality(C!Affords(p)) <= MaxCandidates
    PROVE  C!Offered(p) = C!Affords(p)
  <1>1. C!Offered(p) = {KindOf(c) : c \in C!GenerateCandidates(p)}
    BY DEF C!Offered, KindOf
  <1>2. ASSUME NEW k \in C!Affords(p)
        PROVE  \E c \in C!GenerateCandidates(p) : KindOf(c) = k
    <2>1. PICK g \in 1..6 : k = Kinds6[g]
      BY <1>2 DEF C!Affords, Kinds6
    <2>2. 1 \in DOMAIN Groups(p)[g] /\ KindOf(Groups(p)[g][1]) = k
      BY <1>2, <2>1, GroupsOfAPage
    <2>3. Cardinality(FirstSeats(Groups(p), g)) <= MaxCandidates
      BY KindsAreFirsts, CandidateBounds
    <2> QED  BY <2>2, <2>3, OfferIsOfAPage
  <1> QED  BY <1>1, <1>2, OfferIsOfAPage

LEMMA EveryNeedIsServed ==
    ASSUME NEW p, IsView(p), ways \in {<<>>, GotoUrls}, MaxCandidates > 1,
           C!ApprovedRefs # <<>>,
           {i \in p.live : C!Writable(i) /\ ~C!HasValue(i, p)} # {}
    PROVE  \E c \in C!Executables(p) :
              /\ c.action = "fill"
              /\ c.el \in {i \in p.live : C!Writable(i) /\ ~C!HasValue(i, p)}
  <1> DEFINE writable == {i \in p.live : C!Writable(i)}
             empty == {i \in writable : ~C!HasValue(i, p)}
             c == Groups(p)[2][1]
  <1>1. empty = {i \in p.live : C!Writable(i) /\ ~C!HasValue(i, p)} /\ empty # {}
    OBVIOUS
  <1>2. Groups(p)[2] = C!InputsByRefs("fill", writable, p)
    BY DEF Groups, C!Fills
  <1>3. writable \subseteq DOMAIN Elements
    BY DEF IsView
  <1> HIDE DEF writable
  <1>4. /\ IsGroup(Groups(p)[2], C!ApprovedRefs # <<>> /\ writable # {}, {"fill"}, writable)
        /\ 1 \in DOMAIN Groups(p)[2] /\ c.el \in empty
    BY <1>1, <1>2, <1>3, InputsAreAGroup DEF IsGroup
  <1>5. c.action = "fill"
    BY <1>4 DEF IsGroup
  <1>6. Cardinality(FirstSeats(Groups(p), 2)) <= MaxCandidates
    <2>1. FirstSeats(Groups(p), 2) \in SUBSET (1..2)
      BY DEF FirstSeats
    <2>2. Cardinality(FirstSeats(Groups(p), 2)) <= Cardinality(1..2)
          /\ IsFiniteSet(FirstSeats(Groups(p), 2))
      BY <2>1, NumbersUpTo, FS_Subset, Zenon
    <2>3. Cardinality(FirstSeats(Groups(p), 2)) <= 2 /\ IsFiniteSet(FirstSeats(Groups(p), 2))
      BY <2>2, NumbersUpTo, Zenon
    <2>4. Cardinality(FirstSeats(Groups(p), 2)) \in Nat
      BY <2>3, FS_CardinalityType
    <2> QED  BY <2>3, <2>4, CandidateBounds
  <1>7. c \in C!GenerateCandidates(p)
    BY <1>4, <1>6, OfferIsOfAPage
  <1> HIDE DEF empty, c
  <1>8. c \in C!Executables(p)
    BY <1>5, <1>7 DEF C!Executables
  <1> QED  BY <1>1, <1>4, <1>5, <1>8

(* One round.                                                                  *)

ViewRecords ==
    [url : {v.url : v \in Views}, home : {v.home : v \in Views}, shown : SUBSET DOMAIN Elements,
     live : SUBSET DOMAIN Elements, held : SUBSET DOMAIN Elements]

RoundInvariant ==
    /\ view \in ViewRecords /\ IsView(view) /\ reading \in ViewRecords /\ IsView(reading)
    /\ pc \in {"look", "choose", "act", "verify", "human"}
    /\ verdict \in {C!None, "moved", "still"} /\ drift \in 0..MaxMoves
    /\ ways \in {<<>>, GotoUrls}
    /\ chosen.el \in {0} \cup DOMAIN Elements /\ acted.on \in {0} \cup DOMAIN Elements
    /\ C!ActsOnOwnElement /\ C!SecretsAreNotTyped

LEMMA ShownViews ==
    ASSUME NEW v \in Views, NEW held, held \subseteq DOMAIN Elements
    PROVE  C!Show(v, held) \in ViewRecords /\ IsView(C!Show(v, held))
  <1>1. v.live \subseteq v.shown /\ v.shown \subseteq DOMAIN Elements
    BY BrowserAgentAssumption DEF BrowserAgentAssumption, C!CandidatesAssumption
  <1> QED  BY <1>1 DEF C!Show, ViewRecords, IsView

LEMMA HeldElements ==
    ASSUME RoundInvariant
    PROVE  /\ view.held \subseteq view.shown /\ view.shown \subseteq DOMAIN Elements
           /\ view.held \subseteq DOMAIN Elements /\ IsFiniteSet(view.shown)
           /\ 0 \notin view.shown
  <1>1. /\ view.held \subseteq view.shown /\ view.shown \subseteq DOMAIN Elements
        /\ view.held \subseteq DOMAIN Elements
    BY DEF RoundInvariant, IsView
  <1>2. Len(Elements) \in Nat /\ DOMAIN Elements = 1..Len(Elements)
    BY ListsAreSequences
  <1>3. IsFiniteSet(1..Len(Elements)) /\ view.shown \in SUBSET (1..Len(Elements))
    BY <1>1, <1>2, FS_Interval
  <1>4. IsFiniteSet(view.shown)
    BY <1>3, FS_Subset
  <1>5. 0 \notin view.shown
    BY <1>2, <1>3
  <1> QED  BY <1>1, <1>4, <1>5

LEMMA RoundInitially ==
    ASSUME C!CandidatesInit PROVE RoundInvariant
  <1>1. PICK v \in Views : view = C!Show(v, {})
    BY DEF C!CandidatesInit
  <1>2. view \in ViewRecords /\ IsView(view) /\ reading = view
    BY <1>1, ShownViews DEF C!CandidatesInit
  <1>3. chosen.el = 0 /\ acted.on = 0 /\ acted.action = C!None /\ acted.there = FALSE
    BY DEF C!CandidatesInit, C!NoCandidate, C!NoAct
  <1>4. C!ActsOnOwnElement /\ C!SecretsAreNotTyped
    BY <1>3 DEF C!ActsOnOwnElement, C!SecretsAreNotTyped, C!ValueActions, C!None
  <1>5. 0 \in 0..MaxMoves
    BY CandidateBounds
  <1> QED  BY <1>2, <1>3, <1>4, <1>5 DEF RoundInvariant, C!CandidatesInit

\* What is found for an element is shown; and an element that is shown finds itself.
LEMMA Resolution ==
    ASSUME NEW i, NEW p
    PROVE  /\ C!ResolveIdentity(i, p) \subseteq p.shown
           /\ i \in p.shown => i \in C!ResolveIdentity(i, p)
  <1> DEFINE met == {t \in 1..5 : C!Tiers(i, p)[t] # {}}
             first == CHOOSE t \in met : \A u \in met : t <= u
  <1>1. met # {} => first \in met /\ \A u \in met : first <= u
    <2> SUFFICES ASSUME met # {} PROVE \E t \in met : \A u \in met : t <= u
      OBVIOUS
    <2>1. met \subseteq Nat
      OBVIOUS
    <2> HIDE DEF met
    <2> QED  BY <2>1, LeastOfSet
  <1>2. C!ResolveIdentity(i, p) = IF met = {} THEN {} ELSE C!Tiers(i, p)[first]
    BY DEF C!ResolveIdentity
  <1>3. \A t \in 1..5 : C!Tiers(i, p)[t] \subseteq p.shown
    BY DEF C!Tiers, C!TierTestId, C!TierExact, C!TierLabel, C!TierHref, C!TierHeading
  <1>4. met \subseteq 1..5 /\ \A t \in 1..5 : t \in met <=> C!Tiers(i, p)[t] # {}
    OBVIOUS
  <1> HIDE DEF first, met
  <1>5. ASSUME i \in p.shown PROVE i \in C!ResolveIdentity(i, p)
    <2>1. i \in C!Tiers(i, p)[2]
      BY <1>5 DEF C!Tiers, C!TierExact, C!SameFrame
    <2>2. 2 \in met /\ first \in 1..5 /\ first <= 2
      <3>1. 2 \in 1..5 /\ C!Tiers(i, p)[2] # {}
        BY <2>1
      <3>2. 2 \in met
        BY <1>4, <3>1, Zenon
      <3> QED  BY <1>1, <1>4, <3>2
    <2>3. CASE first = 1
      <3>1. C!Tiers(i, p)[1] = C!TierTestId(i, p) /\ C!Tiers(i, p)[1] # {}
        BY <1>1, <1>4, <2>2, <2>3 DEF C!Tiers
      <3>2. i \in C!TierTestId(i, p)
        BY <1>5, <3>1 DEF C!TierTestId
      <3> QED  BY <1>2, <2>2, <2>3, <3>1, <3>2
    <2>4. CASE first = 2
      BY <1>2, <2>1, <2>2, <2>4
    <2> QED  BY <2>2, <2>3, <2>4
  <1> QED  BY <1>1, <1>2, <1>3, <1>4, <1>5

LEMMA LookKeepsRound ==
    ASSUME RoundInvariant, C!Look PROVE RoundInvariant'
  BY DEF RoundInvariant, C!Look, C!Goes, C!ActsOnOwnElement, C!SecretsAreNotTyped

LEMMA ChoiceKeepsRound ==
    ASSUME RoundInvariant, C!Choose PROVE RoundInvariant'
  <1>1. UNCHANGED <<view, reading, acted, verdict, drift, ways>> /\ pc' \in {"act", "human"}
    BY DEF C!Choose, C!Goes
  <1>2. chosen'.el \in {0} \cup DOMAIN Elements
    <2>1. CASE chosen' \in C!Executables(reading)
      <3>1. chosen' \in C!GenerateCandidates(reading)
        BY <2>1 DEF C!Executables
      <3>2. chosen'.el \in {0} \cup reading.live
        BY <3>1, OfferIsOfAPage DEF RoundInvariant
      <3> QED  BY <3>2 DEF RoundInvariant, IsView
    <2>2. CASE UNCHANGED chosen
      BY <2>2 DEF RoundInvariant
    <2> QED  BY <2>1, <2>2 DEF C!Choose
  <1> QED  BY <1>1, <1>2 DEF RoundInvariant, C!ActsOnOwnElement, C!SecretsAreNotTyped

\* A round that ends without an action.
LEMMA EndKeepsRound ==
    ASSUME RoundInvariant, UNCHANGED <<view, reading, acted, drift, ways>>,
           chosen' = C!NoCandidate, pc' \in {"look", "human"},
           verdict' \in {C!None, "moved", "still"}
    PROVE  RoundInvariant'
  <1>1. chosen'.el = 0
    BY DEF C!NoCandidate
  <1> QED  BY <1>1 DEF RoundInvariant, C!ActsOnOwnElement, C!SecretsAreNotTyped

LEMMA NothingDoneKeepsRound ==
    ASSUME RoundInvariant, C!Stale \/ C!Blocked \/ C!ExecutionFails \/ C!Verify
    PROVE  RoundInvariant'
  <1>1. /\ UNCHANGED <<view, reading, acted, drift, ways>> /\ chosen' = C!NoCandidate
        /\ pc' \in {"look", "human"}
    BY DEF C!Stale, C!Blocked, C!ExecutionFails, C!Verify, C!Goes
  <1>2. verdict' \in {C!None, "moved", "still"}
    BY DEF C!Stale, C!Blocked, C!ExecutionFails, C!Verify, RoundInvariant
  <1> QED  BY <1>1, <1>2, EndKeepsRound

LEMMA ReactionIsAView ==
    ASSUME RoundInvariant, NEW t, t \in view.shown \/ chosen.action = "goto",
           NEW v \in C!Reacts(t)
    PROVE  v \in ViewRecords /\ IsView(v)
  <1>1. CASE chosen.action \in C!ValueActions \cup {"check"}
    <2>1. v = [view EXCEPT !.held = @ \cup {t}] /\ t \in view.shown
      BY <1>1 DEF C!Reacts, C!ValueActions
    <2> QED  BY <2>1, HeldElements DEF RoundInvariant, ViewRecords, IsView
  <1>2. CASE chosen.action = "uncheck"
    <2>1. v = [view EXCEPT !.held = @ \ {t}]
      BY <1>2 DEF C!Reacts, C!ValueActions
    <2> QED  BY <2>1, HeldElements DEF RoundInvariant, ViewRecords, IsView
  <1>3. CASE chosen.action \notin C!ValueActions \cup {"check", "uncheck"}
    <2>1. v = view \/ \E w \in Views : v = C!Show(w, view.held)
      BY <1>3 DEF C!Reacts
    <2> QED  BY <2>1, HeldElements, ShownViews DEF RoundInvariant
  <1> QED  BY <1>1, <1>2, <1>3

LEMMA ExecutionKeepsRound ==
    ASSUME RoundInvariant, C!Execute PROVE RoundInvariant'
  <1>1. PICK t \in C!Targets :
          /\ view' \in C!Reacts(t)
          /\ acted' = [action |-> chosen.action, el |-> chosen.el, on |-> t,
                       there |-> chosen.el \in view.shown]
    BY DEF C!Execute
  <1>2. /\ UNCHANGED <<reading, chosen, verdict, drift, ways>> /\ pc' \in {"verify", "look"}
        /\ C!Fresh /\ ~C!Guarded
    BY DEF C!Execute, C!Goes
  <1>3. C!Targets = {t}
    <2>1. Cardinality(C!Targets) = 1
      BY <1>2, SameSize DEF C!Fresh
    <2>2. IsFiniteSet(C!Targets)
      <3>1. CASE chosen.action = "goto"
        BY <3>1, FS_Singleton DEF C!Targets
      <3>2. CASE chosen.action # "goto"
        <4>1. C!Targets \in SUBSET view.shown
          BY <3>2, Resolution DEF C!Targets
        <4> QED  BY <4>1, HeldElements, FS_Subset
      <3> QED  BY <3>1, <3>2
    <2>3. PICK x : C!Targets = {x}
      BY <2>1, <2>2, FS_Singleton
    <2> QED  BY <1>1, <2>3
  <1>4. CASE chosen.action = "goto"
    <2>1. t = 0
      BY <1>1, <1>4 DEF C!Targets
    <2>2. view' \in ViewRecords /\ IsView(view)'
      BY <1>1, <1>4, ReactionIsAView DEF IsView
    <2>3. acted'.on = 0 /\ acted'.action = "goto"
      BY <1>1, <1>4, <2>1
    <2>4. C!ActsOnOwnElement' /\ C!SecretsAreNotTyped'
      BY <2>3 DEF C!ActsOnOwnElement, C!SecretsAreNotTyped, C!ValueActions
    <2> QED  BY <1>2, <2>2, <2>3, <2>4 DEF RoundInvariant, IsView
  <1>5. CASE chosen.action # "goto"
    <2>1. C!Targets = C!ResolveIdentity(chosen.el, view)
      BY <1>5 DEF C!Targets
    <2>2. t \in view.shown /\ (chosen.el \in view.shown => chosen.el = t)
      BY <1>3, <2>1, Resolution
    <2>3. view' \in ViewRecords /\ IsView(view)'
      BY <1>1, <2>2, ReactionIsAView DEF IsView
    <2>4. /\ acted'.on = t /\ acted'.action = chosen.action /\ acted'.el = chosen.el
          /\ acted'.there = (chosen.el \in view.shown)
      BY <1>1
    <2>5. acted'.on \in DOMAIN Elements
      BY <2>2, <2>4, HeldElements
    <2>6. C!ActsOnOwnElement'
      BY <2>2, <2>4 DEF C!ActsOnOwnElement
    <2>7. chosen.action \in C!ValueActions => ~C!Secretish(t)
      <3>1. C!Targets # {0}
        BY <1>1, <2>2, HeldElements
      <3>2. (CHOOSE u \in C!Targets : TRUE) = t
        BY <1>3
      <3> QED  BY <1>2, <3>1, <3>2 DEF C!Guarded
    <2>8. C!SecretsAreNotTyped'
      BY <2>4, <2>7 DEF C!SecretsAreNotTyped, C!ValueActions, C!Secretish, C!E
    <2> QED  BY <1>2, <2>3, <2>5, <2>6, <2>8 DEF RoundInvariant, IsView
  <1> QED  BY <1>4, <1>5

LEMMA DriftKeepsRound ==
    ASSUME RoundInvariant, C!PageDrifts PROVE RoundInvariant'
  <1>1. PICK v \in Views : view' = C!Show(v, view.held)
    BY DEF C!PageDrifts
  <1>2. view' \in ViewRecords /\ IsView(view)'
    BY <1>1, HeldElements, ShownViews DEF IsView
  <1>3. drift' \in 0..MaxMoves
    BY CandidateBounds DEF C!PageDrifts, RoundInvariant
  <1>4. UNCHANGED <<reading, pc, chosen, acted, verdict, ways>>
    BY DEF C!PageDrifts
  <1> QED  BY <1>2, <1>3, <1>4
           DEF RoundInvariant, IsView, C!ActsOnOwnElement, C!SecretsAreNotTyped

LEMMA RoundTakesAStep ==
    ASSUME RoundInvariant, C!CandidatesNext PROVE RoundInvariant'
  BY LookKeepsRound, ChoiceKeepsRound, NothingDoneKeepsRound, ExecutionKeepsRound,
     DriftKeepsRound DEF C!CandidatesNext

LEMMA RoundStutters ==
    ASSUME RoundInvariant, UNCHANGED offered PROVE RoundInvariant'
  BY DEF offered, RoundInvariant, IsView, C!ActsOnOwnElement, C!SecretsAreNotTyped

LEMMA RoundInvariantSuffices ==
    ASSUME RoundInvariant
    PROVE  /\ C!CandidatesTypeOK /\ C!KindsAreServed /\ C!NeedIsServed
           /\ C!ActsOnOwnElement /\ C!SecretsAreNotTyped
  <1>1. C!CandidatesTypeOK
    BY DEF RoundInvariant, IsView, C!CandidatesTypeOK
  <1>2. C!KindsAreServed
    <2>1. Cardinality(C!Affords(reading)) <= MaxCandidates
             => C!Offered(reading) = C!Affords(reading)
      BY EveryKindIsServed DEF RoundInvariant
    <2> QED  BY <2>1, SameSize DEF C!KindsAreServed
  <1>3. C!NeedIsServed
    BY EveryNeedIsServed DEF RoundInvariant, C!NeedIsServed
  <1> QED  BY <1>1, <1>2, <1>3 DEF RoundInvariant

-----------------------------------------------------------------------------
(* The safety theorems.                                                       *)

NextHere == [MCNext]_<<part, loopVars, traced, signed, offered>>

\* A behaviour is of one part: a step is a step of that part or leaves it alone.
LEMMA PartsStand ==
    ASSUME NextHere
    PROVE  /\ part' = part
           /\ part = "trace" => T!TNext \/ UNCHANGED traced
           /\ part = "signup" => F!FNext \/ UNCHANGED signed
           /\ part = "loop" => ANext \/ UNCHANGED loopVars
           /\ part = "round" => C!CandidatesNext \/ UNCHANGED offered
  BY DEF NextHere, MCNext

\* A reviewed trace's drive (_drive_action_loop): a checkpoint is passed only on a page
\* that proves it, and nothing is planned on a login wall, on any screens and for any
\* number of checkpoints, drives and retries.
THEOREM TraceIsSafe == MCSpec => []TraceSafety
  <1> DEFINE Inv == part = "trace" => TraceInvariant
  <1>1. MCInit => Inv
    BY TraceInitially DEF MCInit
  <1>2. Inv /\ NextHere => Inv'
    BY PartsStand, TraceStep, TraceStutters
  <1>3. Inv => TraceSafety
    BY TraceInvariantSuffices DEF TraceSafety
  <1> HIDE DEF Inv
  <1> QED  BY <1>1, <1>2, <1>3, PTL DEF MCSpec, NextHere

\* The signup form (drive_signup): sent once, never after a person sent it, and the
\* terms are accepted by a person or not at all, on any pages.
THEOREM SignupIsSafe == MCSpec => []SignupSafety
  <1> DEFINE Inv == part = "signup" => SignupInvariant
  <1>1. MCInit => Inv
    BY SignupInitially DEF MCInit
  <1>2. Inv /\ NextHere => Inv'
    BY PartsStand, SignupStep, SignupStutters
  <1>3. Inv => SignupSafety
    BY SignupInvariantSuffices DEF SignupSafety
  <1> HIDE DEF Inv
  <1> QED  BY <1>1, <1>2, <1>3, PTL DEF MCSpec, NextHere

\* The action loop (run_action_loop) never acts on a page it has not read since its last
\* touch and reports done only on a reading that meets every postcondition; and a round
\* of candidates (generate_candidates, resolve_identity) offers every kind of action the
\* page affords, seats an empty input, and acts on the element it was planned for and
\* on no credential field: for any pages, elements and budgets.
THEOREM LoopIsSafe == MCSpec => []LoopSafety
  <1> DEFINE Inv == (part = "loop" => LoopInvariant) /\ (part = "round" => RoundInvariant)
  <1>1. MCInit => Inv
    BY LoopInitially, RoundInitially DEF MCInit, AInit
  <1>2. Inv /\ NextHere => Inv'
    BY PartsStand, LoopTakesAStep, LoopStutters, RoundTakesAStep, RoundStutters
  <1>3. Inv => LoopSafety
    BY LoopInvariantSuffices, RoundInvariantSuffices DEF LoopSafety
  <1> HIDE DEF Inv
  <1> QED  BY <1>1, <1>2, <1>3, PTL DEF MCSpec, NextHere

=============================================================================
