---------------------------- MODULE IntakeProofs ----------------------------
(* Proofs about what a run is before and between its walks (MCIntake): its    *)
(* creation (RunIntake), its plan (RunPlanning), the schema of the ledger     *)
(* (LedgerSchema) and its recovery (RunRecovery).  Each of the four has an    *)
(* inductive invariant of its own; a behaviour of MCSpec is one of the four.  *)
EXTENDS MCIntake, TLAPS, FiniteSetTheorems, WellFoundedInduction

-----------------------------------------------------------------------------
(* RunIntake                                                                  *)

CallPcs == {"idle", "research", "lookup", "ready", "commit", "open", "start",
            "replay", "answer", "enqueue", "done"}

\* A call that has a run in hand.
Holding == {"open", "start", "replay", "answer", "enqueue", "done"}

Calls == [pc: CallPcs, ask: Asked, at: DOMAIN Batch, route: Routes, run: Nat]

RunRows == [app: Apps, fp: {1, 2}, route: Routes, hosts: SUBSET Hosts,
            status: {"route_selected", "started", "configuration_required"},
            opened: BOOLEAN, hinted: BOOLEAN, queued: BOOLEAN]

IntakeTypes ==
    /\ catalog \in [Apps -> Catalogs]
    /\ stored \in [Apps -> Routes] /\ found \in [Apps -> Routes]
    /\ runs \in Seq(RunRows)
    /\ call \in [Callers -> Calls]
    /\ created \subseteq (Nat \X BOOLEAN)
    /\ posts \in 0..MaxPosts /\ restarts \in 0..MaxRestarts

\* A request names a run that exists, one it was answered with too.
RunsExist ==
    /\ \A c \in Callers : /\ call[c].run \in 0..Len(runs)
                          /\ call[c].pc \in Holding => call[c].run \in 1..Len(runs)
    /\ \A a \in created : a[1] \in 1..Len(runs)

\* A route about to be committed passed the overlay under the catalog in force.
RoutesInHand ==
    \A c \in Callers :
        /\ call[c].pc \in {"ready", "commit"} =>
              call[c].route \in catalog[App(c)].hosts \cup {"none"}
        /\ call[c].pc = "commit" => call[c].route # "none"

\* The order of the last two writes.
HintPrecedesQueue ==
    /\ \A c \in Callers :
          /\ call[c].pc \in {"enqueue", "done"} => runs[call[c].run].hinted
          /\ call[c].pc = "done" => runs[call[c].run].queued
    /\ QueuedIsHinted

\* Until a restart, a run without its opening boundary has a create that owes it.
OpenIsOwed ==
    restarts = 0 =>
        \A i \in DOMAIN runs : \/ runs[i].opened
                               \/ \E c \in Callers : call[c].pc = "open" /\ call[c].run = i

IntakeInvariant ==
    /\ IntakeTypes /\ RunsExist /\ RoutesInHand /\ HintPrecedesQueue /\ OpenIsOwed
    /\ OneRunPerMember /\ PromisedIsQueued /\ RouteIsReviewed

LEMMA BatchShape ==
    /\ DOMAIN Batch = 1..Len(Batch) /\ Len(Batch) \in Nat \ {0}
    /\ Apps = {Batch[i] : i \in DOMAIN Batch}
    /\ "none" \notin Hosts
    /\ \A r \in Catalogs : r.hosts \subseteq Hosts /\ r.signup \in r.hosts \cup {"none"}
    /\ MaxPosts \in Nat /\ MaxRestarts \in Nat
  BY IntakeAssumption DEF IntakeAssumption, Apps, Range

\* What is in hand after a step of one call is in hand before, but for that call.
LEMMA CallGoes ==
    ASSUME IntakeTypes, NEW c \in Callers, NEW to \in Calls, Goes(c, to)
    PROVE  /\ call' \in [Callers -> Calls]
           /\ call'[c] = to
           /\ \A d \in Callers \ {c} : call'[d] = call[d]
  BY DEF IntakeTypes, Goes

LEMMA NextMemberShape ==
    ASSUME IntakeTypes, NEW c \in Callers
    PROVE  /\ NextMember(c) \in Calls
           /\ NextMember(c).pc \in {"idle", "research"}
           /\ NextMember(c).run = 0
  <1>1. call[c] \in Calls /\ call[c].at \in 1..Len(Batch)
    BY BatchShape DEF IntakeTypes, Calls
  <1>2. NoCall \in Calls /\ NoCall.pc = "idle" /\ NoCall.run = 0
    BY BatchShape DEF NoCall, Calls, CallPcs, Asked, NoRequest, Routes
  <1>3. CASE call[c].at = Len(Batch)
    BY <1>2, <1>3 DEF NextMember
  <1>4. CASE call[c].at # Len(Batch)
    <2>1. call[c].at + 1 \in DOMAIN Batch
      BY <1>1, <1>4, BatchShape
    <2>2. NextMember(c) = [pc |-> "research", ask |-> call[c].ask, at |-> call[c].at + 1,
                           route |-> call[c].route, run |-> 0]
      BY <1>1, <1>4 DEF NextMember, Calls
    <2> QED  BY <1>1, <2>1, <2>2 DEF Calls, CallPcs
  <1> QED  BY <1>3, <1>4

LEMMA RouteShape ==
    ASSUME IntakeTypes, NEW app \in Apps
    PROVE  /\ RouteInForce(app) \in catalog[app].hosts \cup {"none"}
           /\ RouteInForce(app) \in Routes
           /\ OverlayFor(app) \in [Apps -> Routes]
           /\ Researched(app) \in Routes
  <1>1. catalog[app] \in Catalogs
    BY DEF IntakeTypes
  <1>2. catalog[app].hosts \subseteq Hosts /\ catalog[app].signup \in catalog[app].hosts \cup {"none"}
    BY <1>1, BatchShape
  <1> QED  BY <1>2 DEF RouteInForce, Installs, OverlayFor, Researched, Routes, IntakeTypes

LEMMA IntakeInitially ==
    ASSUME IntakeInit PROVE IntakeInvariant
  <1>1. NoCall \in Calls /\ NoCall.pc = "idle" /\ NoCall.run = 0
    BY BatchShape DEF NoCall, Calls, CallPcs, Asked, NoRequest, Routes
  <1>2. \A c \in Callers : call[c] = NoCall
    BY DEF IntakeInit
  <1>3. runs = <<>> /\ created = {} /\ Len(runs) = 0 /\ DOMAIN runs = {}
    BY DEF IntakeInit
  <1>4. IntakeTypes
    BY <1>1, BatchShape DEF IntakeInit, IntakeTypes, Routes
  <1>5. RunsExist /\ RoutesInHand
    BY <1>1, <1>2, <1>3 DEF RunsExist, RoutesInHand, Holding
  <1>6. HintPrecedesQueue /\ OpenIsOwed /\ OneRunPerMember /\ PromisedIsQueued /\ RouteIsReviewed
    BY <1>1, <1>2, <1>3 DEF HintPrecedesQueue, QueuedIsHinted, OpenIsOwed, OneRunPerMember,
                            PromisedIsQueued, RouteIsReviewed
  <1> QED  BY <1>4, <1>5, <1>6 DEF IntakeInvariant

\* A step of one call that leaves the runs alone, and may answer with one of them.
LEMMA CallOnly ==
    ASSUME IntakeInvariant, NEW c \in Callers, NEW to \in Calls, Goes(c, to),
           UNCHANGED <<catalog, runs, restarts>>,
           created' \subseteq (Nat \X BOOLEAN),
           \A a \in created' : \/ a \in created
                               \/ a[1] \in 1..Len(runs) /\ (a[2] => runs[a[1]].queued),
           stored' \in [Apps -> Routes], found' \in [Apps -> Routes], posts' \in 0..MaxPosts,
           call[c].pc # "open",
           to.run \in 0..Len(runs),
           to.pc \in Holding => to.run \in 1..Len(runs),
           to.pc \in {"ready", "commit"} =>
                to.route \in catalog[Batch[to.at]].hosts \cup {"none"},
           to.pc = "commit" => to.route # "none",
           to.pc \notin {"enqueue", "done"}
    PROVE  IntakeInvariant'
  <1>1. /\ call' \in [Callers -> Calls] /\ call'[c] = to
        /\ \A d \in Callers \ {c} : call'[d] = call[d]
    BY CallGoes DEF IntakeInvariant
  <1>2. IntakeTypes'
    BY <1>1 DEF IntakeInvariant, IntakeTypes
  <1>3. RunsExist'
    BY <1>1 DEF IntakeInvariant, RunsExist
  <1>4. RoutesInHand'
    BY <1>1 DEF IntakeInvariant, RoutesInHand, App
  <1>5. HintPrecedesQueue'
    BY <1>1 DEF IntakeInvariant, HintPrecedesQueue, QueuedIsHinted
  <1>6. OpenIsOwed'
    BY <1>1 DEF IntakeInvariant, OpenIsOwed
  <1>7. (OneRunPerMember /\ PromisedIsQueued /\ RouteIsReviewed)'
    BY DEF IntakeInvariant, OneRunPerMember, PromisedIsQueued, RouteIsReviewed
  <1> QED  BY <1>2, <1>3, <1>4, <1>5, <1>6, <1>7 DEF IntakeInvariant

\* A write to the run a call has in hand.
LEMMA RunWrites ==
    ASSUME IntakeInvariant, NEW c \in Callers, NEW new \in RunRows, NEW pc \in Holding,
           Writes(c, new, pc), call[c].pc \in Holding,
           new.app = runs[Mine(c)].app, new.route = runs[Mine(c)].route,
           new.hosts = runs[Mine(c)].hosts,
           runs[Mine(c)].opened => new.opened, runs[Mine(c)].hinted => new.hinted,
           runs[Mine(c)].queued => new.queued, new.queued => new.hinted,
           pc # "open", call[c].pc = "open" => new.opened,
           pc \in {"enqueue", "done"} => new.hinted, pc = "done" => new.queued
    PROVE  IntakeInvariant'
  <1> DEFINE m == Mine(c)
             to == [call[c] EXCEPT !.pc = pc]
  <1>1. /\ m \in 1..Len(runs) /\ m = call[c].run /\ runs \in Seq(RunRows)
        /\ call[c] \in Calls
    BY DEF IntakeInvariant, RunsExist, IntakeTypes, Mine
  <1>2. /\ runs' \in Seq(RunRows) /\ Len(runs') = Len(runs) /\ DOMAIN runs' = DOMAIN runs
        /\ DOMAIN runs = 1..Len(runs)
        /\ runs'[m] = new /\ \A i \in 1..Len(runs) : i # m => runs'[i] = runs[i]
    BY <1>1 DEF Writes
  <1>3. /\ to \in Calls /\ to.pc = pc /\ to.run = m /\ Goes(c, to)
        /\ UNCHANGED <<catalog, stored, found, created, posts, restarts>>
    BY <1>1 DEF Writes, Calls, CallPcs, Holding
  <1>4. /\ call' \in [Callers -> Calls] /\ call'[c] = to
        /\ \A d \in Callers \ {c} : call'[d] = call[d]
    BY <1>3, CallGoes DEF IntakeInvariant
  <1> HIDE DEF m, to
  <1>5. IntakeTypes'
    BY <1>2, <1>3, <1>4 DEF IntakeInvariant, IntakeTypes
  <1>6. RunsExist'
    BY <1>1, <1>2, <1>3, <1>4 DEF IntakeInvariant, RunsExist
  <1>7. RoutesInHand'
    BY <1>3, <1>4 DEF IntakeInvariant, RoutesInHand, App, Holding
  <1>8. HintPrecedesQueue'
    <2>1. QueuedIsHinted'
      BY <1>1, <1>2 DEF IntakeInvariant, HintPrecedesQueue, QueuedIsHinted, m
    <2>2. ASSUME NEW d \in Callers
          PROVE  /\ call'[d].pc \in {"enqueue", "done"} => runs'[call'[d].run].hinted
                 /\ call'[d].pc = "done" => runs'[call'[d].run].queued
      <3>1. CASE d = c
        BY <1>2, <1>3, <1>4, <3>1
      <3>2. CASE d # c
        <4>1. call'[d] = call[d] /\ (call[d].pc \in Holding => call[d].run \in 1..Len(runs))
          BY <1>4, <3>2 DEF IntakeInvariant, RunsExist
        <4>2. CASE call[d].run = m
          BY <1>2, <4>1, <4>2 DEF IntakeInvariant, HintPrecedesQueue, m
        <4>3. CASE call[d].run # m
          BY <1>2, <4>1, <4>3 DEF IntakeInvariant, HintPrecedesQueue, Holding
        <4> QED  BY <4>2, <4>3
      <3> QED  BY <3>1, <3>2
    <2> QED  BY <2>1, <2>2 DEF HintPrecedesQueue
  <1>9. OpenIsOwed'
    <2> SUFFICES ASSUME restarts = 0, NEW i \in 1..Len(runs), ~runs'[i].opened
                 PROVE  \E d \in Callers : call'[d].pc = "open" /\ call'[d].run = i
      BY <1>2, <1>3 DEF OpenIsOwed
    <2>1. ~runs[i].opened
      BY <1>2 DEF m
    <2>2. PICK d \in Callers : call[d].pc = "open" /\ call[d].run = i
      BY <1>2, <2>1 DEF IntakeInvariant, OpenIsOwed
    <2>3. d # c
      BY <1>1, <1>2, <2>2 DEF m
    <2> QED  BY <1>4, <2>2, <2>3
  <1>10. OneRunPerMember'
    BY <1>2 DEF IntakeInvariant, OneRunPerMember, m
  <1>11. PromisedIsQueued' /\ RouteIsReviewed'
    <2>1. PromisedIsQueued'
      BY <1>2, <1>3 DEF IntakeInvariant, PromisedIsQueued, RunsExist, m
    <2>2. RouteIsReviewed'
      BY <1>2 DEF IntakeInvariant, RouteIsReviewed, m
    <2> QED  BY <2>1, <2>2
  <1> QED  BY <1>5, <1>6, <1>7, <1>8, <1>9, <1>10, <1>11 DEF IntakeInvariant

\* The transaction of create_run inserts a run that nobody has.
LEMMA RunInserts ==
    ASSUME IntakeInvariant, NEW c \in Callers, call[c].pc = "commit",
           Matching(App(c)) = {}, runs' = Append(runs, NewRun(c)),
           Goes(c, [call[c] EXCEPT !.pc = "open", !.run = Len(runs) + 1]),
           UNCHANGED <<catalog, stored, found, created, posts, restarts>>
    PROVE  IntakeInvariant'
  <1> DEFINE n == Len(runs) + 1
             to == [call[c] EXCEPT !.pc = "open", !.run = n]
  <1>1. /\ runs \in Seq(RunRows) /\ Len(runs) \in Nat /\ DOMAIN runs = 1..Len(runs)
        /\ call[c] \in Calls /\ App(c) \in Apps
    BY BatchShape DEF IntakeInvariant, IntakeTypes, App, Calls
  <1>2. /\ catalog[App(c)].hosts \subseteq Hosts
        /\ call[c].route \in catalog[App(c)].hosts
    BY <1>1, BatchShape DEF IntakeInvariant, IntakeTypes, RoutesInHand
  <1>3. NewRun(c) \in RunRows /\ NewRun(c).app = App(c) /\ NewRun(c).route \in NewRun(c).hosts
        /\ ~NewRun(c).queued
    BY <1>1, <1>2 DEF NewRun, RunRows, Calls, Asked
  <1>4. /\ runs' \in Seq(RunRows) /\ Len(runs') = n /\ DOMAIN runs' = 1..n
        /\ runs'[n] = NewRun(c) /\ \A i \in 1..Len(runs) : runs'[i] = runs[i]
        /\ n \in Nat
    BY <1>1, <1>3
  <1>5. to \in Calls /\ to.pc = "open" /\ to.run = n
    BY <1>1, <1>4 DEF Calls, CallPcs
  <1>6. /\ call' \in [Callers -> Calls] /\ call'[c] = to
        /\ \A d \in Callers \ {c} : call'[d] = call[d]
    BY <1>5, CallGoes DEF IntakeInvariant
  <1> HIDE DEF to
  <1>7. IntakeTypes'
    BY <1>4, <1>6 DEF IntakeInvariant, IntakeTypes
  <1>8. RunsExist'
    BY <1>1, <1>4, <1>5, <1>6 DEF IntakeInvariant, RunsExist
  <1>9. RoutesInHand'
    BY <1>5, <1>6 DEF IntakeInvariant, RoutesInHand, App
  <1>10. HintPrecedesQueue'
    <2>1. QueuedIsHinted'
      BY <1>1, <1>3, <1>4 DEF IntakeInvariant, HintPrecedesQueue, QueuedIsHinted
    <2>2. ASSUME NEW d \in Callers
          PROVE  /\ call'[d].pc \in {"enqueue", "done"} => runs'[call'[d].run].hinted
                 /\ call'[d].pc = "done" => runs'[call'[d].run].queued
      <3>1. CASE d = c
        BY <1>5, <1>6, <3>1
      <3>2. CASE d # c
        <4>1. call'[d] = call[d] /\ (call[d].pc \in Holding => call[d].run \in 1..Len(runs))
          BY <1>6, <3>2 DEF IntakeInvariant, RunsExist
        <4> QED  BY <1>4, <4>1 DEF IntakeInvariant, HintPrecedesQueue, Holding
      <3> QED  BY <3>1, <3>2
    <2> QED  BY <2>1, <2>2 DEF HintPrecedesQueue
  <1>11. OpenIsOwed'
    <2> SUFFICES ASSUME restarts = 0, NEW i \in 1..n, ~runs'[i].opened
                 PROVE  \E d \in Callers : call'[d].pc = "open" /\ call'[d].run = i
      BY <1>4 DEF OpenIsOwed
    <2>1. CASE i = n
      BY <1>5, <1>6, <2>1
    <2>2. CASE i # n
      <3>1. i \in 1..Len(runs) /\ ~runs[i].opened
        BY <1>1, <1>4, <2>2
      <3>2. PICK d \in Callers : call[d].pc = "open" /\ call[d].run = i
        BY <1>1, <3>1 DEF IntakeInvariant, OpenIsOwed
      <3> QED  BY <1>6, <3>2
    <2> QED  BY <2>1, <2>2
  <1>12. OneRunPerMember'
    <2>1. \A i \in 1..Len(runs) : runs[i].app # App(c)
      BY <1>1 DEF Matching
    <2> QED  BY <1>1, <1>3, <1>4, <2>1 DEF IntakeInvariant, OneRunPerMember
  <1>13. PromisedIsQueued' /\ RouteIsReviewed'
    <2>1. PromisedIsQueued'
      BY <1>4 DEF IntakeInvariant, PromisedIsQueued, RunsExist
    <2>2. RouteIsReviewed'
      BY <1>1, <1>3, <1>4 DEF IntakeInvariant, RouteIsReviewed
    <2> QED  BY <2>1, <2>2
  <1> QED  BY <1>7, <1>8, <1>9, <1>10, <1>11, <1>12, <1>13 DEF IntakeInvariant

LEMMA IntakeSteps ==
    ASSUME IntakeInvariant, IntakeNext PROVE IntakeInvariant'
  <1>1. IntakeTypes /\ RunsExist /\ RoutesInHand /\ HintPrecedesQueue
    BY DEF IntakeInvariant
  <1>2. runs \in Seq(RunRows) /\ Len(runs) \in Nat /\ DOMAIN runs = 1..Len(runs)
    BY <1>1 DEF IntakeTypes
  <1>3. /\ stored \in [Apps -> Routes] /\ found \in [Apps -> Routes]
        /\ posts \in 0..MaxPosts /\ created \subseteq (Nat \X BOOLEAN)
        /\ \A a \in created : a[1] \in 1..Len(runs)
    BY <1>1 DEF IntakeTypes, RunsExist
  <1>4. ASSUME NEW c \in Callers
        PROVE  /\ call[c] \in Calls /\ App(c) \in Apps /\ App(c) = Batch[call[c].at]
               /\ call[c].run \in 0..Len(runs)
               /\ call[c].pc \in Holding => Mine(c) \in 1..Len(runs) /\ runs[Mine(c)] \in RunRows
               /\ Mine(c) = call[c].run
    BY <1>1, <1>2, BatchShape DEF IntakeTypes, App, Mine, Calls, RunsExist
  <1>5. ASSUME NEW c \in Callers, Post(c) PROVE IntakeInvariant'
    <2>1. PICK ask \in Asked : Goes(c, [NoCall EXCEPT !.pc = "research", !.ask = ask])
      BY <1>5 DEF Post
    <2> DEFINE to == [NoCall EXCEPT !.pc = "research", !.ask = ask]
    <2>2. NoCall \in Calls /\ NoCall.pc = "idle" /\ NoCall.run = 0
      BY BatchShape DEF NoCall, Calls, CallPcs, Asked, NoRequest, Routes
    <2>4. Goes(c, to) /\ to \in Calls /\ to.pc = "research" /\ to.run = 0
      BY <2>1, <2>2 DEF Calls, CallPcs
    <2> HIDE DEF to
    <2>3. posts' \in 0..MaxPosts
      BY <1>3, <1>5, BatchShape DEF Post
    <2> QED  BY <1>2, <1>3, <1>5, <2>3, <2>4, CallOnly DEF Post, Holding
  <1>6. ASSUME NEW c \in Callers, ResearchSignupRoute(c) PROVE IntakeInvariant'
    <2> DEFINE to == [call[c] EXCEPT !.pc = "lookup"]
    <2>1. Goes(c, to) /\ to \in Calls /\ to.pc = "lookup" /\ to.run \in 0..Len(runs)
      BY <1>4, <1>6 DEF ResearchSignupRoute, Calls, CallPcs
    <2>2. stored' \in [Apps -> Routes] /\ found' \in [Apps -> Routes]
      <3>1. Researched(App(c)) \in Routes /\ OverlayFor(App(c)) \in [Apps -> Routes]
        BY <1>1, <1>4, RouteShape
      <3> QED  BY <1>3, <1>6, <3>1 DEF ResearchSignupRoute
    <2> HIDE DEF to
    <2> QED  BY <1>2, <1>3, <1>6, <2>1, <2>2, CallOnly DEF ResearchSignupRoute, Holding
  <1>7. ASSUME NEW c \in Callers, LookupIdempotent(c) PROVE IntakeInvariant'
    <2>0. call[c].pc = "lookup" /\ UNCHANGED <<catalog, stored, runs, created, posts, restarts>>
      BY <1>7 DEF LookupIdempotent
    <2>1. /\ found' \in [Apps -> Routes]
          /\ RouteInForce(App(c)) \in catalog[App(c)].hosts \cup {"none"}
          /\ RouteInForce(App(c)) \in Routes
      BY <1>1, <1>4, <1>7, RouteShape DEF LookupIdempotent
    <2>2. CASE Goes(c, [call[c] EXCEPT !.pc = "ready", !.route = RouteInForce(App(c))])
      <3> DEFINE to == [call[c] EXCEPT !.pc = "ready", !.route = RouteInForce(App(c))]
      <3>1. /\ to \in Calls /\ to.pc = "ready" /\ to.run \in 0..Len(runs)
            /\ to.route = RouteInForce(App(c)) /\ Batch[to.at] = App(c) /\ Goes(c, to)
        BY <1>4, <2>1, <2>2 DEF Calls, CallPcs
      <3> HIDE DEF to
      <3> QED  BY <1>2, <1>3, <2>0, <2>1, <3>1, CallOnly DEF Holding
    <2>3. ASSUME NEW i \in Matching(App(c)), Goes(c, [call[c] EXCEPT !.pc = "replay", !.run = i])
          PROVE  IntakeInvariant'
      <3> DEFINE to == [call[c] EXCEPT !.pc = "replay", !.run = i]
      <3>1. i \in 1..Len(runs) /\ i \in Nat
        BY <1>2 DEF Matching
      <3>2. to \in Calls /\ to.pc = "replay" /\ to.run = i
        BY <1>4, <3>1 DEF Calls, CallPcs
      <3>3. Goes(c, to)
        BY <2>3
      <3> HIDE DEF to
      <3> QED  BY <1>2, <1>3, <2>0, <2>1, <3>1, <3>2, <3>3, CallOnly, SMTT(30) DEF Holding
    <2>4. CASE Goes(c, NextMember(c))
      <3> DEFINE to == NextMember(c)
      <3>1. to \in Calls /\ to.pc \in {"idle", "research"} /\ to.run = 0
        BY <1>1, NextMemberShape
      <3> HIDE DEF to
      <3>2. Goes(c, to)
        BY <2>4 DEF to
      <3> QED  BY <1>2, <1>3, <2>0, <2>1, <3>1, <3>2, CallOnly DEF Holding
    <2> QED  BY <1>7, <2>2, <2>3, <2>4 DEF LookupIdempotent
  <1>8. ASSUME NEW c \in Callers, CheckReadiness(c) PROVE IntakeInvariant'
    <2>1. CASE call[c].route # "none" /\ Goes(c, [call[c] EXCEPT !.pc = "commit"])
      <3> DEFINE to == [call[c] EXCEPT !.pc = "commit"]
      <3>1. /\ to \in Calls /\ to.pc = "commit" /\ to.run \in 0..Len(runs) /\ Goes(c, to)
            /\ to.route = call[c].route /\ Batch[to.at] = App(c) /\ call[c].pc = "ready"
        BY <1>4, <1>8, <2>1 DEF Calls, CallPcs, CheckReadiness
      <3>2. call[c].route \in catalog[App(c)].hosts \cup {"none"}
        BY <1>1, <3>1 DEF RoutesInHand
      <3> HIDE DEF to
      <3> QED  BY <1>2, <1>3, <1>8, <2>1, <3>1, <3>2, CallOnly DEF CheckReadiness, Holding
    <2>2. CASE Goes(c, NextMember(c))
      <3> DEFINE to == NextMember(c)
      <3>1. to \in Calls /\ to.pc \in {"idle", "research"} /\ to.run = 0
        BY <1>1, NextMemberShape
      <3> HIDE DEF to
      <3>2. Goes(c, to)
        BY <2>2 DEF to
      <3> QED  BY <1>2, <1>3, <1>8, <3>1, <3>2, CallOnly DEF CheckReadiness, Holding
    <2> QED  BY <1>8, <2>1, <2>2 DEF CheckReadiness
  <1>9. ASSUME NEW c \in Callers, CommitRun(c) PROVE IntakeInvariant'
    <2>1. CASE /\ Matching(App(c)) = {} /\ runs' = Append(runs, NewRun(c))
               /\ Goes(c, [call[c] EXCEPT !.pc = "open", !.run = Len(runs) + 1])
      BY <1>9, <2>1, RunInserts DEF CommitRun
    <2>2. ASSUME UNCHANGED runs, NEW i \in Matching(App(c)),
                 Goes(c, [call[c] EXCEPT !.pc = "answer", !.run = i])
          PROVE  IntakeInvariant'
      <3> DEFINE to == [call[c] EXCEPT !.pc = "answer", !.run = i]
      <3>1. i \in 1..Len(runs) /\ i \in Nat
        BY <1>2 DEF Matching
      <3>2. to \in Calls /\ to.pc = "answer" /\ to.run = i
        BY <1>4, <3>1 DEF Calls, CallPcs
      <3>3. Goes(c, to)
        BY <2>2
      <3> HIDE DEF to
      <3> QED  BY <1>2, <1>3, <1>9, <2>2, <3>1, <3>2, <3>3, CallOnly DEF CommitRun, Holding
    <2>3. CASE UNCHANGED runs /\ Goes(c, NextMember(c))
      <3> DEFINE to == NextMember(c)
      <3>1. to \in Calls /\ to.pc \in {"idle", "research"} /\ to.run = 0
        BY <1>1, NextMemberShape
      <3> HIDE DEF to
      <3>2. Goes(c, to)
        BY <2>3 DEF to
      <3> QED  BY <1>2, <1>3, <1>9, <2>3, <3>1, <3>2, CallOnly DEF CommitRun, Holding
    <2> QED  BY <1>9, <2>1, <2>2, <2>3 DEF CommitRun, InsertsOnce
  <1>10. ASSUME NEW c \in Callers, OpenHistory(c) PROVE IntakeInvariant'
    <2> DEFINE new == [runs[Mine(c)] EXCEPT !.opened = TRUE]
    <2>1. /\ call[c].pc = "open" /\ runs[Mine(c)] \in RunRows /\ Mine(c) \in 1..Len(runs)
          /\ Writes(c, new, "start")
      BY <1>4, <1>10 DEF OpenHistory, Holding
    <2>2. /\ new \in RunRows /\ new.opened /\ new.app = runs[Mine(c)].app
          /\ new.route = runs[Mine(c)].route /\ new.hosts = runs[Mine(c)].hosts
          /\ new.hinted = runs[Mine(c)].hinted /\ new.queued = runs[Mine(c)].queued
      BY <2>1 DEF RunRows
    <2>3. runs[Mine(c)].queued => runs[Mine(c)].hinted
      BY <1>1, <1>2, <2>1 DEF HintPrecedesQueue, QueuedIsHinted
    <2> HIDE DEF new
    <2> QED  BY <2>1, <2>2, <2>3, RunWrites DEF Holding
  <1>11. ASSUME NEW c \in Callers, StartRun(c) \/ ReplayRun(c) PROVE IntakeInvariant'
    <2>1. /\ call[c].pc \in {"start", "replay"} /\ runs[Mine(c)] \in RunRows
          /\ Mine(c) \in 1..Len(runs)
      BY <1>4, <1>11 DEF StartRun, ReplayRun, Holding
    <2>2. runs[Mine(c)].queued => runs[Mine(c)].hinted
      BY <1>1, <1>2, <2>1 DEF HintPrecedesQueue, QueuedIsHinted
    <2>3. CASE Writes(c, [runs[Mine(c)] EXCEPT !.status = "started", !.opened = TRUE], "answer")
      <3> DEFINE new == [runs[Mine(c)] EXCEPT !.status = "started", !.opened = TRUE]
      <3>1. /\ new \in RunRows /\ new.opened /\ new.app = runs[Mine(c)].app
            /\ new.route = runs[Mine(c)].route /\ new.hosts = runs[Mine(c)].hosts
            /\ new.hinted = runs[Mine(c)].hinted /\ new.queued = runs[Mine(c)].queued
        BY <2>1 DEF RunRows
      <3>2. Writes(c, new, "answer")
        BY <2>3
      <3> HIDE DEF new
      <3> QED  BY <2>1, <2>2, <3>1, <3>2, RunWrites DEF Holding
    <2>4. CASE Writes(c, [runs[Mine(c)] EXCEPT !.status = "configuration_required"], "answer")
      <3> DEFINE new == [runs[Mine(c)] EXCEPT !.status = "configuration_required"]
      <3>1. /\ new \in RunRows /\ new.opened = runs[Mine(c)].opened /\ new.app = runs[Mine(c)].app
            /\ new.route = runs[Mine(c)].route /\ new.hosts = runs[Mine(c)].hosts
            /\ new.hinted = runs[Mine(c)].hinted /\ new.queued = runs[Mine(c)].queued
        BY <2>1 DEF RunRows
      <3>2. Writes(c, new, "answer")
        BY <2>4
      <3> HIDE DEF new
      <3> QED  BY <2>1, <2>2, <3>1, <3>2, RunWrites DEF Holding
    <2>5. CASE Writes(c, runs[Mine(c)], "answer")
      BY <2>1, <2>2, <2>5, RunWrites DEF Holding
    <2> QED  BY <1>11, <2>3, <2>4, <2>5 DEF StartRun, ReplayRun
  <1>12. ASSUME NEW c \in Callers, Hint(c) PROVE IntakeInvariant'
    <2> DEFINE new == [runs[Mine(c)] EXCEPT !.hinted = TRUE]
    <2>1. /\ call[c].pc = "answer" /\ runs[Mine(c)] \in RunRows /\ Mine(c) \in 1..Len(runs)
          /\ Writes(c, new, "enqueue")
      BY <1>4, <1>12 DEF Hint, RequestOnboarding, Holding
    <2>2. /\ new \in RunRows /\ new.hinted /\ new.app = runs[Mine(c)].app
          /\ new.route = runs[Mine(c)].route /\ new.hosts = runs[Mine(c)].hosts
          /\ new.opened = runs[Mine(c)].opened /\ new.queued = runs[Mine(c)].queued
      BY <2>1 DEF RunRows
    <2> HIDE DEF new
    <2> QED  BY <2>1, <2>2, RunWrites DEF Holding
  <1>13. ASSUME NEW c \in Callers, Enqueue(c) PROVE IntakeInvariant'
    <2> DEFINE new == [runs[Mine(c)] EXCEPT !.queued = TRUE]
    <2>1. /\ call[c].pc = "enqueue" /\ runs[Mine(c)] \in RunRows /\ Mine(c) \in 1..Len(runs)
          /\ Writes(c, new, "done") /\ runs[Mine(c)].hinted
      BY <1>1, <1>4, <1>13 DEF Enqueue, Holding, HintPrecedesQueue
    <2>2. /\ new \in RunRows /\ new.hinted /\ new.queued /\ new.app = runs[Mine(c)].app
          /\ new.route = runs[Mine(c)].route /\ new.hosts = runs[Mine(c)].hosts
          /\ new.opened = runs[Mine(c)].opened
      BY <2>1 DEF RunRows
    <2> HIDE DEF new
    <2> QED  BY <2>1, <2>2, RunWrites DEF Holding
  <1>14. ASSUME NEW c \in Callers, AnswerCreated(c) PROVE IntakeInvariant'
    <2> DEFINE to == NextMember(c)
    <2>1. to \in Calls /\ to.pc \in {"idle", "research"} /\ to.run = 0
      BY <1>1, NextMemberShape
    <2> HIDE DEF to
    <2>2. /\ Goes(c, to) /\ call[c].pc \in {"done", "answer"}
          /\ created' = created \cup {<<Mine(c), call[c].ask.onboarding>>}
          /\ call[c].ask.onboarding => call[c].pc = "done"
          /\ UNCHANGED <<catalog, stored, found, runs, posts, restarts>>
      BY <1>14 DEF AnswerCreated, to
    <2>3. Mine(c) \in 1..Len(runs) /\ call[c].ask.onboarding \in BOOLEAN
      BY <1>4, <2>2 DEF Holding, Calls, Asked
    <2>4. call[c].ask.onboarding => runs[Mine(c)].queued
      BY <1>1, <2>2 DEF HintPrecedesQueue, Mine
    <2>5. /\ created' \subseteq (Nat \X BOOLEAN)
          /\ \A a \in created' : \/ a \in created
                                 \/ a[1] \in 1..Len(runs) /\ (a[2] => runs[a[1]].queued)
      BY <1>2, <1>3, <2>2, <2>3, <2>4
    <2> QED  BY <1>2, <1>3, <2>1, <2>2, <2>5, CallOnly DEF Holding
  <1>15. CASE Restart
    <2>1. NoCall \in Calls /\ NoCall.pc = "idle" /\ NoCall.run = 0
      BY BatchShape DEF NoCall, Calls, CallPcs, Asked, NoRequest, Routes
    <2>2. call' = [c \in Callers |-> NoCall] /\ UNCHANGED <<stored, runs, created, posts>>
      BY <1>15 DEF Restart
    <2>3. restarts' \in 0..MaxRestarts /\ restarts' # 0
      BY <1>1, <1>15, BatchShape DEF Restart, IntakeTypes
    <2>4. catalog' \in [Apps -> Catalogs] /\ found' = stored
      BY <1>1, <1>15 DEF Restart, IntakeTypes
    <2>5. IntakeTypes'
      BY <1>1, <2>1, <2>2, <2>3, <2>4 DEF IntakeTypes
    <2>6. RunsExist' /\ RoutesInHand'
      BY <1>1, <1>2, <2>1, <2>2 DEF RunsExist, RoutesInHand, Holding
    <2>7. HintPrecedesQueue' /\ OpenIsOwed'
      BY <1>1, <2>1, <2>2, <2>3 DEF HintPrecedesQueue, QueuedIsHinted, OpenIsOwed
    <2>8. (OneRunPerMember /\ PromisedIsQueued /\ RouteIsReviewed)'
      BY <2>2 DEF IntakeInvariant, OneRunPerMember, PromisedIsQueued, RouteIsReviewed
    <2> QED  BY <2>5, <2>6, <2>7, <2>8 DEF IntakeInvariant
  <1> QED  BY <1>5, <1>6, <1>7, <1>8, <1>9, <1>10, <1>11, <1>12, <1>13, <1>14, <1>15
           DEF IntakeNext

LEMMA IntakeSafe ==
    ASSUME IntakeInvariant
    PROVE  /\ IntakeTypeOK /\ OneRunPerMember /\ PromisedIsQueued /\ QueuedIsHinted
           /\ RouteIsReviewed /\ AnsweredIsOpen
  <1>1. IntakeTypes /\ RunsExist /\ HintPrecedesQueue /\ OpenIsOwed
    BY DEF IntakeInvariant
  <1>2. runs \in Seq(RunRows) /\ Len(runs) \in Nat /\ DOMAIN runs = 1..Len(runs)
    BY <1>1 DEF IntakeTypes
  <1>3. \A i \in DOMAIN runs : runs[i] \in RunRows
    BY <1>2
  <1>4. IntakeTypeOK
    <2>1. \A c \in Callers : call[c] \in Calls /\ call[c].run \in 0..Len(runs)
      BY <1>1 DEF IntakeTypes, RunsExist
    <2>2. \A a \in created : a[1] \in DOMAIN runs /\ a[2] \in BOOLEAN
      BY <1>1, <1>2 DEF IntakeTypes, RunsExist
    <2> QED  BY <1>1, <1>3, <2>1, <2>2 DEF IntakeTypeOK, IntakeTypes, Calls, RunRows
  <1>5. AnsweredIsOpen
    BY <1>1, <1>2 DEF AnsweredIsOpen, OpenIsOwed, RunsExist
  <1> QED  BY <1>1, <1>4, <1>5 DEF IntakeInvariant, HintPrecedesQueue

-----------------------------------------------------------------------------
(* RunPlanning                                                                *)

Surfaces == {"app", "auth", "none"} \X {"login", "keys", "join", "none"}
PlannedRoutes == {p \in [surfaces: Seq(Surfaces), cred: Surfaces, source: {"planner", "recipe"}] :
              p.surfaces # <<>>}
PlanRows == [plan: PlannedRoutes, status: {"active", "superseded"}, by: Nat]
PlanPcs == {"idle", "record", "start", "drive", "resolve", "compare", "replan", "project"}
Planners == [pc: PlanPcs, plan: PlannedRoutes \cup {P!NoPlan}, page: MCPages \cup {"none"},
             rev: 0..MaxRevision, effect: Nat, step: Nat, act: {"none", "proceed", "pause"},
             again: BOOLEAN]

PlanningTypes ==
    /\ recipe \in MCRecipes /\ plans \in Seq(PlanRows) /\ replans \in 0..MaxRestarts
    /\ run \in [rev: 0..MaxRevision, attempt: Nat, effect: Nat, running: BOOLEAN]
    /\ thread \in [Threads -> Planners]

\* The page is one of the plan's hosts, as far as it claims to be on the way.
OnRoute(page, plan) ==
    page.status \in {"navigating", "ready"} =>
        \E i \in 1..Len(plan.surfaces) : P!Host(page.at) = P!Host(plan.surfaces[i])

\* What a thread has in hand: nobody drives without a plan, nobody starts on one that
\* is not valid, and as long as the run's revision is the one the thread observed, the
\* plan is the one it compares the page with.
Stands(x) ==
    /\ x.pc \in PlanPcs \ {"idle", "record"} => plans # <<>>
    /\ x.pc \in {"record", "start"} => x.plan \in PlannedRoutes
    /\ x.pc = "start" => P!ValidPlan(x.plan, recipe)
    /\ x.pc \in {"resolve", "compare", "replan", "project"} => x.page \in MCPages
    /\ x.rev <= run.rev
    /\ x.rev = run.rev /\ x.pc = "compare" => x.step \in 1..Len(P!Active.surfaces)
    /\ x.rev = run.rev /\ x.pc = "project" /\ x.act = "proceed" => OnRoute(x.page, P!Active)

PlanningInvariant ==
    /\ PlanningTypes /\ (run.running => plans # <<>>)
    /\ \A t \in Threads : Stands(thread[t])
    /\ P!PlansAreLinear /\ P!ShownIsOnRoute

LEMMA PlanningBounds ==
    /\ MaxRevision \in Nat /\ MaxRestarts \in Nat
  BY IntakePartsAssumption DEF IntakePartsAssumption, P!PlanningAssumption

\* The recipes and the answers of the instance.
LEMMA SurfaceShape ==
    /\ {<<"auth", "login">>, <<"app", "login">>, <<"app", "keys">>, <<"auth", "keys">>,
        <<"app", "join">>, <<"none", "none">>} \subseteq Surfaces
    /\ P!NoSurface = <<"none", "none">> /\ NoSurface = <<"none", "none">>
    /\ <<"none", "none">> \notin {<<"auth", "login">>, <<"app", "login">>}
  <1>1. \A a \in {"app", "auth", "none"}, b \in {"login", "keys", "join", "none"} :
           <<a, b>> \in Surfaces
    BY DEF Surfaces
  <1>2. P!NoSurface = <<"none", "none">> /\ NoSurface = <<"none", "none">>
    BY DEF P!NoSurface, NoSurface
  <1>3. <<"none", "none">> # <<"auth", "login">> /\ <<"none", "none">> # <<"app", "login">>
    OBVIOUS
  <1>4. /\ <<"auth", "login">> \in Surfaces /\ <<"app", "login">> \in Surfaces
        /\ <<"app", "keys">> \in Surfaces /\ <<"auth", "keys">> \in Surfaces
        /\ <<"app", "join">> \in Surfaces /\ <<"none", "none">> \in Surfaces
    BY <1>1
  <1> QED  BY <1>2, <1>3, <1>4

LEMMA TwoSurfaces ==
    ASSUME NEW a \in Surfaces, NEW b \in Surfaces
    PROVE  <<a, b>> \in Seq(Surfaces) /\ <<a>> \in Seq(Surfaces) /\ <<a, b>> # <<>> /\ <<a>> # <<>>
  OBVIOUS

LEMMA RecipeShape ==
    ASSUME NEW r \in MCRecipes
    PROVE  /\ r.login \in Surfaces /\ r.login # P!NoSurface
           /\ r.steps \in Seq(Surfaces) /\ r.cred \in Surfaces
  <1>1. CASE r = Keys
    <2>1. r.login = <<"auth", "login">>
      BY <1>1 DEF Keys
    <2>2. r.steps = <<<<"auth", "login">>, NoSurface>>
      BY <1>1 DEF Keys
    <2>3. r.cred = <<"app", "keys">>
      BY <1>1 DEF Keys
    <2> QED  BY <2>1, <2>2, <2>3, SurfaceShape, TwoSurfaces
  <1>2. CASE r = Entry
    <2>1. r.login = <<"app", "login">>
      BY <1>2 DEF Entry
    <2>2. r.steps = <<<<"app", "login">>, NoSurface>>
      BY <1>2 DEF Entry
    <2>3. r.cred = NoSurface
      BY <1>2 DEF Entry
    <2> QED  BY <2>1, <2>2, <2>3, SurfaceShape, TwoSurfaces
  <1> QED  BY <1>1, <1>2 DEF MCRecipes

LEMMA ProposedShape == MCProposed \subseteq PlannedRoutes
  <1>1. ASSUME NEW s \in Seq(Surfaces), s # <<>>, NEW c \in Surfaces
        PROVE  Plan(s, c) \in PlannedRoutes
    BY <1>1 DEF Plan, PlannedRoutes
  <1>2. Plan(<<<<"auth", "login">>, <<"app", "keys">>>>, <<"app", "keys">>) \in PlannedRoutes
    BY <1>1, SurfaceShape, TwoSurfaces
  <1>3. Plan(<<<<"auth", "keys">>>>, <<"app", "keys">>) \in PlannedRoutes
    BY <1>1, SurfaceShape, TwoSurfaces
  <1>4. Plan(<<<<"app", "join">>, <<"app", "login">>>>, NoSurface) \in PlannedRoutes
    BY <1>1, SurfaceShape, TwoSurfaces
  <1> QED  BY <1>2, <1>3, <1>4 DEF MCProposed

LEMMA PageShape ==
    ASSUME NEW p \in MCPages
    PROVE  p.status \in {"ready", "navigating", "human", "failed"}
  <1>1. PICK at, status, visible :
           p = Page(at, status, visible) /\ status \in {"ready", "navigating", "human", "failed"}
    BY DEF MCPages
  <1> QED  BY <1>1 DEF Page

LEMMA SameSize ==
    ASSUME NEW set PROVE P!Cardinality(set) = Cardinality(set)
  BY DEF P!Cardinality, Cardinality

\* A set of naturals has a least element, and an n-th one if it is large enough.
LEMMA LeastOfSet ==
    ASSUME NEW set, set \subseteq Nat, set # {}
    PROVE  \E i \in set : \A j \in set : i <= j
  <1>1. PICK x \in set : \A y \in set : ~(<<y, x>> \in OpToRel(<, Nat))
    BY WFMin, NatLessThanWellFounded
  <1>2. ASSUME NEW y \in set PROVE x <= y
    <2>1. x \in Nat /\ y \in Nat
      OBVIOUS
    <2>2. ~(y < x)
      BY <1>1, <2>1 DEF OpToRel
    <2> QED  BY <2>1, <2>2
  <1> QED  BY <1>2

LEMMA NthOfSet ==
    ASSUME NEW set, set \subseteq Nat, IsFiniteSet(set), NEW n \in 1..Cardinality(set)
    PROVE  \E i \in set : Cardinality({j \in set : j < i}) = n - 1
  <1> DEFINE below(i) == {j \in set : j < i}
             failing == {m \in 1..Cardinality(set) : ~\E i \in set : Cardinality(below(i)) = m - 1}
  <1>1. Cardinality(set) \in Nat
    BY FS_CardinalityType
  <1>2. \A i \in set : below(i) \subseteq set /\ i \notin below(i)
    OBVIOUS
  <1>3. ASSUME NEW i \in set, NEW h \in set, h > i, \A j \in set : j > i => h <= j
        PROVE  below(h) = below(i) \cup {i}
    <2> SUFFICES ASSUME NEW j \in set PROVE j \in below(h) <=> j \in below(i) \cup {i}
      OBVIOUS
    <2> QED  BY <1>3
  <1>4. ASSUME NEW i \in set, \A j \in set : i <= j PROVE below(i) = {}
    <2> SUFFICES ASSUME NEW j \in set PROVE j \in below(i) <=> j \in {}
      OBVIOUS
    <2> QED  BY <1>4
  <1>5. ASSUME NEW i \in set, \A j \in set : j <= i PROVE set = below(i) \cup {i}
    <2> SUFFICES ASSUME NEW j \in set PROVE j \in set <=> j \in below(i) \cup {i}
      OBVIOUS
    <2> QED  BY <1>5
  <1>6. \A k \in 1..Cardinality(set) :
           k \in failing <=> ~\E i \in set : Cardinality(below(i)) = k - 1
    OBVIOUS
  <1>7. failing \subseteq 1..Cardinality(set)
    OBVIOUS
  <1> HIDE DEF failing, below
  <1>8. ASSUME failing # {} PROVE FALSE
    <2>1. failing \subseteq Nat
      BY <1>1, <1>7
    <2>2. PICK m \in failing : \A k \in failing : m <= k
      BY <1>8, <2>1, LeastOfSet
    <2>3. m \in 1..Cardinality(set) /\ ~\E i \in set : Cardinality(below(i)) = m - 1
      BY <1>6, <1>7, <2>2
    <2>4. CASE m = 1
      <3>1. set # {}
        BY <1>1, <2>3, FS_EmptySet
      <3>2. PICK i \in set : \A j \in set : i <= j
        BY <3>1, LeastOfSet
      <3>3. below(i) = {}
        BY <1>4, <3>2
      <3> QED  BY <2>3, <2>4, <3>3, FS_EmptySet
    <2>5. CASE m # 1
      <3>1. m - 1 \in 1..Cardinality(set) /\ m - 1 \notin failing
        <4>1. ~(m <= m - 1) /\ m - 1 \in 1..Cardinality(set)
          BY <1>1, <2>3, <2>5
        <4> QED  BY <2>2, <4>1
      <3>2. PICK i \in set : Cardinality(below(i)) = (m - 1) - 1
        BY <1>6, <3>1
      <3>3. IsFiniteSet(below(i))
        BY <1>2, FS_Subset
      <3>4. Cardinality(below(i) \cup {i}) = m - 1
        <4>1. Cardinality(below(i) \cup {i}) = Cardinality(below(i)) + 1
          BY <1>2, <3>3, FS_AddElement
        <4> QED  BY <1>1, <2>3, <3>2, <4>1
      <3> DEFINE above == {j \in set : j > i}
      <3>5. above # {}
        <4> SUFFICES ASSUME above = {} PROVE FALSE
          OBVIOUS
        <4>1. \A j \in set : j <= i
          OBVIOUS
        <4>2. Cardinality(set) = m - 1
          BY <1>5, <3>4, <4>1
        <4> QED  BY <1>1, <2>3, <4>2
      <3>6. PICK h \in above : \A j \in above : h <= j
        <4>1. above \subseteq Nat
          OBVIOUS
        <4> HIDE DEF above
        <4> QED  BY <3>5, <4>1, LeastOfSet
      <3>7. h \in set /\ h > i /\ \A j \in set : j > i => h <= j
        BY <3>6
      <3>8. below(h) = below(i) \cup {i}
        BY <1>3, <3>7
      <3> QED  BY <2>3, <3>4, <3>7, <3>8
    <2> QED  BY <2>4, <2>5
  <1>9. \E i \in set : Cardinality(below(i)) = n - 1
    BY <1>6, <1>8
  <1> QED  BY <1>9 DEF below

\* The reviewed route names a surface at least, whatever the steps.
LEMMA ReviewedRoute ==
    ASSUME NEW r \in MCRecipes PROVE P!RecipeRoutePlan(r) \in PlannedRoutes
  <1> DEFINE candidates == <<r.login>> \o r.steps
             kept == {i \in DOMAIN candidates :
                         candidates[i] # P!NoSurface /\
                         \A j \in 1..(i - 1) : candidates[j] # candidates[i]}
             size(i) == P!Cardinality({j \in kept : j < i})
             nth(n) == CHOOSE i \in kept : size(i) = n - 1
             route == [n \in 1..P!Cardinality(kept) |-> candidates[nth(n)]]
  <1>1. /\ candidates \in Seq(Surfaces) /\ DOMAIN candidates = 1..Len(candidates)
        /\ Len(candidates) \in Nat /\ 1 \in DOMAIN candidates /\ candidates[1] = r.login
    BY RecipeShape
  <1>2. P!RecipeRoutePlan(r) = [surfaces |-> route, cred |-> r.cred, source |-> "recipe"]
    BY DEF P!RecipeRoutePlan
  <1> HIDE DEF candidates
  <1>3. 1 \in kept /\ kept \subseteq 1..Len(candidates)
    BY <1>1, RecipeShape
  <1> HIDE DEF kept
  <1>4. IsFiniteSet(kept) /\ Cardinality(kept) \in Nat /\ Cardinality(kept) # 0
    <2>1. IsFiniteSet(1..Len(candidates))
      BY <1>1, FS_Interval
    <2>2. IsFiniteSet(kept)
      BY <1>3, <2>1, FS_Subset
    <2> QED  BY <1>3, <2>2, FS_EmptySet, FS_CardinalityType
  <1>5. ASSUME NEW n \in 1..Cardinality(kept) PROVE candidates[nth(n)] \in Surfaces
    <2>1. \E i \in kept : size(i) = n - 1
      <3>1. kept \subseteq Nat
        BY <1>1, <1>3
      <3> QED  BY <1>4, <3>1, NthOfSet, SameSize
    <2> HIDE DEF size
    <2>2. nth(n) \in kept
      BY <2>1
    <2>3. \A i \in kept : candidates[i] \in Surfaces
      BY <1>1, <1>3
    <2> HIDE DEF nth
    <2> QED  BY <2>2, <2>3
  <1>6. route \in Seq(Surfaces) /\ route # <<>>
    <2>1. P!Cardinality(kept) = Cardinality(kept)
      BY SameSize
    <2> HIDE DEF nth
    <2>2. route = [n \in 1..Cardinality(kept) |-> candidates[nth(n)]]
      BY <2>1
    <2> HIDE DEF route
    <2>3. route \in [1..Cardinality(kept) -> Surfaces]
      BY <1>5, <2>2
    <2> QED  BY <1>4, <2>3
  <1> HIDE DEF route
  <1> QED  BY <1>2, <1>6, RecipeShape DEF PlannedRoutes

LEMMA ActivePlan ==
    ASSUME plans \in Seq(PlanRows)
    PROVE  /\ plans # <<>> => /\ P!Active = plans[Len(plans)].plan /\ P!Active \in PlannedRoutes
                              /\ P!Active # P!NoPlan
                              /\ P!Active.surfaces \in Seq(Surfaces) /\ Len(P!Active.surfaces) \in Nat \ {0}
           /\ plans = <<>> => P!Active = P!NoPlan
  <1>1. CASE plans # <<>>
    <2>1. Len(plans) \in 1..Len(plans) /\ plans[Len(plans)] \in PlanRows
      BY <1>1
    <2>2. P!Active = plans[Len(plans)].plan
      BY <1>1 DEF P!Active, P!Last
    <2>3. P!Active \in PlannedRoutes
      BY <2>1, <2>2 DEF PlanRows
    <2>4. P!Active.surfaces \in Seq(Surfaces) /\ P!Active.surfaces # <<>>
      BY <2>3 DEF PlannedRoutes
    <2>5. P!NoPlan.surfaces = <<>>
      BY DEF P!NoPlan
    <2> QED  BY <1>1, <2>2, <2>3, <2>4, <2>5
  <1>2. CASE plans = <<>>
    BY <1>2 DEF P!Active
  <1> QED  BY <1>1, <1>2

LEMMA DecidedRoute ==
    ASSUME PlanningTypes, NEW p \in P!DecideRunPlan(recipe) PROVE p \in PlannedRoutes
  BY ReviewedRoute, ProposedShape DEF PlanningTypes, P!DecideRunPlan

\* What a thread has in hand stays good when the revision moves on, whatever is
\* recorded then, and when the first plan is recorded.
LEMMA StandsStill ==
    ASSUME NEW x \in Planners, Stands(x), UNCHANGED recipe, PlanningTypes, PlanningTypes',
           run.rev <= run'.rev, plans # <<>> => plans' # <<>>,
           plans' = plans \/ plans = <<>> \/ run.rev < run'.rev
    PROVE  Stands(x)'
  <1>1. x.rev \in Nat /\ run.rev \in Nat /\ run'.rev \in Nat /\ x.pc \in PlanPcs
    BY PlanningBounds DEF PlanningTypes, Planners
  <1>2. x.rev <= run'.rev /\ (x.rev = run'.rev => x.rev = run.rev /\ run'.rev = run.rev)
    BY <1>1 DEF Stands
  <1>3. plans' = plans => P!Active' = P!Active
    BY DEF P!Active, P!Last
  <1>4. x.rev = run'.rev /\ x.pc \in PlanPcs \ {"idle", "record"} => P!Active' = P!Active
    BY <1>1, <1>2, <1>3 DEF Stands
  <1>5. /\ x.rev = run'.rev /\ x.pc = "compare" => x.step \in 1..Len(P!Active'.surfaces)
        /\ x.rev = run'.rev /\ x.pc = "project" /\ x.act = "proceed" => OnRoute(x.page, P!Active')
    BY <1>2, <1>4 DEF Stands, PlanPcs
  <1> QED  BY <1>2, <1>5 DEF Stands, OnRoute

LEMMA ThreadGoes ==
    ASSUME thread \in [Threads -> Planners], NEW t \in Threads, NEW to \in Planners, P!Goes(t, to)
    PROVE  /\ thread' \in [Threads -> Planners] /\ thread'[t] = to
           /\ \A u \in Threads \ {t} : thread'[u] = thread[u]
  BY DEF P!Goes

\* A step of one thread.
LEMMA PlannerMoves ==
    ASSUME PlanningInvariant, NEW t \in Threads, NEW to \in Planners, P!Goes(t, to),
           PlanningTypes', UNCHANGED <<recipe, replans>>, Stands(to)',
           run.rev <= run'.rev, plans # <<>> => plans' # <<>>,
           plans' = plans \/ plans = <<>> \/ run.rev < run'.rev,
           run'.running => plans' # <<>>, P!PlansAreLinear', P!ShownIsOnRoute'
    PROVE  PlanningInvariant'
  <1>1. /\ thread' \in [Threads -> Planners] /\ thread'[t] = to
        /\ \A u \in Threads \ {t} : thread'[u] = thread[u]
    BY ThreadGoes DEF PlanningInvariant, PlanningTypes
  <1>2. ASSUME NEW u \in Threads PROVE Stands(thread[u])'
    <2>1. CASE u = t
      BY <1>1, <2>1 DEF Stands
    <2>2. CASE u # t
      <3>1. PICK x : x = thread[u]
        OBVIOUS
      <3>2. x \in Planners /\ Stands(x)
        BY <3>1 DEF PlanningInvariant, PlanningTypes
      <3>3. Stands(x)'
        BY <3>2, StandsStill DEF PlanningInvariant
      <3>4. thread'[u] = x
        BY <1>1, <2>2, <3>1
      <3> QED  BY <3>3, <3>4 DEF Stands
    <2> QED  BY <2>1, <2>2
  <1> QED  BY <1>2 DEF PlanningInvariant

\* A step of one thread that writes nothing else.
LEMMA PlannerTurns ==
    ASSUME PlanningInvariant, NEW t \in Threads, NEW to \in Planners, P!Goes(t, to),
           UNCHANGED <<recipe, plans, run, shown, replans>>, Stands(to)
    PROVE  PlanningInvariant'
  <1>1. PlanningTypes'
    BY ThreadGoes DEF PlanningInvariant, PlanningTypes
  <1>2. run.rev <= run.rev
    BY PlanningBounds DEF PlanningInvariant, PlanningTypes
  <1>3. Stands(to)'
    BY <1>1, <1>2, StandsStill DEF PlanningInvariant
  <1>4. P!PlansAreLinear' /\ P!ShownIsOnRoute'
    BY DEF PlanningInvariant, P!PlansAreLinear, P!ShownIsOnRoute
  <1> QED  BY <1>1, <1>2, <1>3, <1>4, PlannerMoves DEF PlanningInvariant

\* A record of a plan: the one before it is superseded.
LEMMA PlanRecords ==
    ASSUME plans \in Seq(PlanRows), P!PlansAreLinear, Len(plans) <= 1, NEW new \in PlannedRoutes,
           P!RecordRunPlan(new)
    PROVE  /\ plans' \in Seq(PlanRows) /\ plans' # <<>> /\ P!PlansAreLinear'
           /\ P!Last(plans').plan = new
  <1> DEFINE old == [i \in DOMAIN plans |-> IF plans[i].status = "active"
                                            THEN [plans[i] EXCEPT !.status = "superseded", !.by = Len(plans) + 1]
                                            ELSE plans[i]]
             last == [plan |-> new, status |-> "active", by |-> 0]
  <1>1. plans' = Append(old, last)
    BY DEF P!RecordRunPlan
  <1>2. Len(plans) \in {0, 1} /\ DOMAIN plans = 1..Len(plans)
    OBVIOUS
  <1>3. last \in PlanRows
    BY DEF PlanRows
  <1>4. ASSUME NEW i \in 1..Len(plans)
        PROVE  old[i] \in PlanRows /\ old[i].status = "superseded" /\ old[i].by = Len(plans) + 1
    <2>1. i = 1 /\ Len(plans) = 1 /\ plans[1] \in PlanRows /\ 1 \in DOMAIN plans
      <3>1. Len(plans) = 1
        BY <1>2
      <3> HIDE DEF old, last
      <3>2. i = 1
        BY <3>1
      <3>3. \A k \in 1..Len(plans) : plans[k] \in PlanRows
        OBVIOUS
      <3> QED  BY <1>2, <3>1, <3>2, <3>3
    <2>2. plans[i].status = "active"
      BY <2>1 DEF P!PlansAreLinear
    <2>3. old[i] = [plans[i] EXCEPT !.status = "superseded", !.by = Len(plans) + 1]
      BY <1>2, <2>2
    <2> HIDE DEF old
    <2>4. plans[i] \in PlanRows
      BY <2>1
    <2>5. PICK q, n : q = plans[i] /\ n = Len(plans) + 1
      OBVIOUS
    <2>6. q \in PlanRows /\ n \in Nat
      BY <2>1, <2>4, <2>5
    <2>7. old[i] = [q EXCEPT !.status = "superseded", !.by = n]
      BY <2>3, <2>5
    <2>8. old[i] \in PlanRows /\ old[i].status = "superseded" /\ old[i].by = n
      BY <2>6, <2>7 DEF PlanRows
    <2> QED  BY <2>5, <2>8
  <1>5. old \in [1..Len(plans) -> PlanRows]
    <2>1. DOMAIN old = 1..Len(plans) /\ old = [i \in 1..Len(plans) |-> old[i]]
      BY <1>2
    <2> HIDE DEF old
    <2> QED  BY <1>4, <2>1
  <1> HIDE DEF old, last
  <1>6. old \in Seq(PlanRows) /\ Len(old) = Len(plans)
    BY <1>2, <1>5
  <1>7. /\ plans' \in Seq(PlanRows) /\ Len(plans') = Len(plans) + 1 /\ plans' # <<>>
        /\ \A i \in 1..Len(plans) : plans'[i] = old[i]
        /\ plans'[Len(plans) + 1] = last /\ DOMAIN plans' = 1..(Len(plans) + 1)
    BY <1>1, <1>2, <1>3, <1>6
  <1>8. P!PlansAreLinear'
    <2>1. Len(plans') <= 2
      BY <1>2, <1>7
    <2>2. ASSUME NEW i \in DOMAIN plans'
          PROVE  IF i = Len(plans') THEN plans'[i].status = "active" /\ plans'[i].by = 0
                 ELSE plans'[i].status = "superseded" /\ plans'[i].by = i + 1
      <3>1. CASE i = Len(plans')
        BY <1>7, <3>1 DEF last
      <3>2. CASE i # Len(plans')
        <4>1. i = 1 /\ Len(plans) = 1
          BY <1>2, <1>7, <3>2
        <4> QED  BY <1>4, <1>7, <3>2, <4>1
      <3> QED  BY <3>1, <3>2
    <2> QED  BY <2>1, <2>2 DEF P!PlansAreLinear
  <1>9. P!Last(plans').plan = new
    BY <1>2, <1>7 DEF P!Last, last
  <1> QED  BY <1>7, <1>8, <1>9

LEMMA StepToCompare ==
    ASSUME NEW page \in MCPages, NEW plan \in PlannedRoutes
    PROVE  LET step == P!AdherenceStepIndex(page, plan)
           IN  /\ step \in 0..Len(plan.surfaces)
               /\ step = 0 => page.status \in {"failed", "human"}
  <1> DEFINE matches == {i \in DOMAIN plan.surfaces : plan.surfaces[i] = page.at}
             keys == {i \in DOMAIN plan.surfaces : plan.surfaces[i] = plan.cred}
             lowest(set) == CHOOSE i \in set : \A j \in set : i <= j
  <1>1. /\ page.status \in {"ready", "navigating", "human", "failed"} /\ plan # P!NoPlan
        /\ Len(plan.surfaces) \in Nat \ {0} /\ DOMAIN plan.surfaces = 1..Len(plan.surfaces)
    <2>1. plan.surfaces \in Seq(Surfaces) /\ plan.surfaces # <<>>
      BY DEF PlannedRoutes
    <2>2. P!NoPlan.surfaces = <<>>
      BY DEF P!NoPlan
    <2> QED  BY <2>1, <2>2, PageShape
  <1>2. matches \subseteq 1..Len(plan.surfaces) /\ keys \subseteq 1..Len(plan.surfaces)
    BY <1>1
  <1>3. PICK first, key, n :
           first = lowest(matches) /\ key = lowest(keys) /\ n = Len(plan.surfaces)
    OBVIOUS
  <1>4. PICK step :
           /\ step = P!AdherenceStepIndex(page, plan)
           /\ step = CASE page.status = "failed" \/ plan = P!NoPlan    -> 0
                       [] page.status # "failed" /\ matches # {}     -> first
                       [] page.status = "human" /\ matches = {}      -> 0
                       [] page.status = "navigating" /\ matches = {} -> 1
                       [] page.status = "ready" /\ matches = {}      -> IF keys # {} THEN key ELSE n
    <2>1. P!AdherenceStepIndex(page, plan) =
             CASE page.status = "failed" \/ plan = P!NoPlan    -> 0
               [] page.status # "failed" /\ matches # {}     -> lowest(matches)
               [] page.status = "human" /\ matches = {}      -> 0
               [] page.status = "navigating" /\ matches = {} -> 1
               [] page.status = "ready" /\ matches = {}      -> IF keys # {} THEN lowest(keys) ELSE Len(plan.surfaces)
      BY DEF P!AdherenceStepIndex
    <2> HIDE DEF matches, keys, lowest
    <2> QED  BY <1>3, <2>1
  <1> HIDE DEF matches, keys
  <1>5. ASSUME NEW set, set \subseteq 1..Len(plan.surfaces), set # {}
        PROVE  lowest(set) \in set
    <2>1. \E i \in set : \A j \in set : i <= j
      <3>1. set \subseteq Nat
        BY <1>1, <1>5
      <3> QED  BY <1>5, <3>1, LeastOfSet
    <2> QED  BY <2>1
  <1> HIDE DEF lowest
  <1>6. /\ matches # {} => first \in 1..n
        /\ keys # {} => key \in 1..n
        /\ n \in Nat \ {0}
    BY <1>1, <1>2, <1>3, <1>5
  <1>7. step \in 0..n /\ (step = 0 => page.status \in {"failed", "human"})
    <2>1. CASE matches # {}
      <3>1. step = IF page.status = "failed" THEN 0 ELSE first
        BY <1>1, <1>4, <2>1
      <3> QED  BY <1>6, <2>1, <3>1
    <2>2. CASE matches = {}
      <3>1. /\ page.status \in {"failed", "human"} => step = 0
            /\ page.status = "navigating" => step = 1
            /\ page.status = "ready" => step = IF keys # {} THEN key ELSE n
        BY <1>1, <1>4, <2>2
      <3> QED  BY <1>1, <1>6, <3>1
    <2> QED  BY <2>1, <2>2
  <1> QED  BY <1>3, <1>4, <1>7

\* A comparison that lets the browser proceed found the page on a host of the plan.
LEMMA ComparedRoute ==
    ASSUME NEW page, NEW plan \in PlannedRoutes, NEW step \in 1..Len(plan.surfaces), NEW count,
           P!DecideAdherence(page, plan, step, count) = "proceed"
    PROVE  OnRoute(page, plan)
  <1>1. plan # P!NoPlan /\ Len(plan.surfaces) \in Nat
    <2>1. plan.surfaces \in Seq(Surfaces) /\ plan.surfaces # <<>>
      BY DEF PlannedRoutes
    <2>2. P!NoPlan.surfaces = <<>>
      BY DEF P!NoPlan
    <2> QED  BY <2>1, <2>2
  <1>2. plan.surfaces[step] = page.at \/ P!Host(page.at) = P!Host(plan.surfaces[step])
    BY <1>1 DEF P!DecideAdherence
  <1> QED  BY <1>2 DEF OnRoute

LEMMA IdleStands ==
    /\ P!Idle \in Planners
    /\ PlanningTypes => Stands(P!Idle)
  <1>1. P!Idle \in Planners
    BY PlanningBounds DEF P!Idle, Planners, PlanPcs
  <1>2. PlanningTypes => Stands(P!Idle)
    BY PlanningBounds DEF P!Idle, Stands, PlanPcs, PlanningTypes
  <1> QED  BY <1>1, <1>2

LEMMA PlanningInitially ==
    ASSUME P!PlanningInit PROVE PlanningInvariant
  <1>1. PlanningTypes
    BY PlanningBounds, IdleStands DEF P!PlanningInit, PlanningTypes
  <1>2. \A t \in Threads : Stands(thread[t])
    BY <1>1, IdleStands DEF P!PlanningInit
  <1>3. P!PlansAreLinear
    BY DEF P!PlanningInit, P!PlansAreLinear
  <1>4. P!ShownIsOnRoute
    BY DEF P!PlanningInit, P!ShownIsOnRoute
  <1> QED  BY <1>1, <1>2, <1>3, <1>4 DEF PlanningInvariant, P!PlanningInit

-----------------------------------------------------------------------------
(* The steps of a thread. *)
LEMMA PlanAdmissionStep ==
    ASSUME PlanningInvariant, NEW t \in Threads, P!PlanAdmission(t) PROVE PlanningInvariant'
  <1> PICK x : x = thread[t]  OBVIOUS
  <1>1. /\ x \in Planners /\ x.pc = "idle" /\ Stands(x)
        /\ UNCHANGED <<recipe, plans, run, shown, replans>>
    BY DEF PlanningInvariant, PlanningTypes, P!PlanAdmission
  <1>2. ASSUME P!Goes(t, P!Idle) PROVE PlanningInvariant'
    BY <1>1, <1>2, IdleStands, PlannerTurns DEF PlanningInvariant
  <1>3. ASSUME NEW plan \in PlannedRoutes, P!ValidPlan(plan, recipe), NEW pc \in {"start", "record"},
               pc = "start" => plans # <<>>, P!Goes(t, [x EXCEPT !.pc = pc, !.plan = plan])
        PROVE  PlanningInvariant'
    <2>1. PICK to : to = [x EXCEPT !.pc = pc, !.plan = plan]
      OBVIOUS
    <2>2. /\ to \in Planners /\ to.pc = pc /\ to.plan = plan /\ to.rev = x.rev
      BY <1>1, <2>1 DEF Planners, PlanPcs
    <2>3. Stands(to)
      BY <1>1, <1>3, <2>2 DEF Stands
    <2>4. P!Goes(t, to)
      BY <1>3, <2>1
    <2> QED  BY <1>1, <2>2, <2>3, <2>4, PlannerTurns
  <1>4. CASE P!Reuses(t)
    <2>1. plans # <<>> /\ P!Active \in PlannedRoutes
      BY <1>4, ActivePlan DEF P!Reuses, PlanningInvariant, PlanningTypes
    <2>2. CASE P!ValidPlan(P!Active, recipe)
      <3>1. P!Goes(t, [x EXCEPT !.pc = "start", !.plan = P!Active])
        BY <1>4, <2>2 DEF P!Reuses
      <3> QED  BY <1>3, <2>1, <2>2, <3>1
    <2>3. CASE ~P!ValidPlan(P!Active, recipe)
      BY <1>2, <1>4, <2>3 DEF P!Reuses
    <2> QED  BY <2>2, <2>3
  <1>5. CASE P!Plans(t)
    <2>1. PICK plan \in P!DecideRunPlan(recipe) :
             P!Goes(t, IF P!ValidPlan(plan, recipe) THEN [x EXCEPT !.pc = "record", !.plan = plan]
                       ELSE P!Idle)
      BY <1>5 DEF P!Plans
    <2>2. plan \in PlannedRoutes
      BY DecidedRoute DEF PlanningInvariant
    <2>3. CASE P!ValidPlan(plan, recipe)
      <3>1. P!Goes(t, [x EXCEPT !.pc = "record", !.plan = plan])
        BY <2>1, <2>3
      <3> QED  BY <1>3, <2>2, <2>3, <3>1
    <2>4. CASE ~P!ValidPlan(plan, recipe)
      BY <1>2, <2>1, <2>4
    <2> QED  BY <2>3, <2>4
  <1> QED  BY <1>4, <1>5 DEF P!PlanAdmission

LEMMA ObserveStep ==
    ASSUME PlanningInvariant, NEW t \in Threads, P!Observe(t) PROVE PlanningInvariant'
  <1> PICK x : x = thread[t]  OBVIOUS
  <1>1. /\ x \in Planners /\ x.pc = "drive" /\ Stands(x) /\ run.rev \in 0..MaxRevision
        /\ UNCHANGED <<recipe, plans, run, shown, replans>>
    BY DEF PlanningInvariant, PlanningTypes, P!Observe
  <1>2. CASE run.effect = x.effect
    <2>1. PICK page \in MCPages : P!Goes(t, [x EXCEPT !.pc = "resolve", !.page = page, !.rev = run.rev])
      BY <1>2 DEF P!Observe
    <2>2. PICK to : to = [x EXCEPT !.pc = "resolve", !.page = page, !.rev = run.rev]
      OBVIOUS
    <2>3. to \in Planners /\ to.pc = "resolve" /\ to.page = page /\ to.rev = run.rev
      BY <1>1, <2>2 DEF Planners, PlanPcs
    <2>4. Stands(to)
      BY <1>1, <2>3, PlanningBounds DEF Stands, PlanPcs
    <2> QED  BY <1>1, <2>1, <2>2, <2>3, <2>4, PlannerTurns
  <1>3. CASE run.effect # x.effect
    <2>1. P!Goes(t, P!Idle)
      BY <1>3 DEF P!Observe
    <2> QED  BY <1>1, <2>1, IdleStands, PlannerTurns DEF PlanningInvariant
  <1> QED  BY <1>2, <1>3

LEMMA ResolveStepStep ==
    ASSUME PlanningInvariant, NEW t \in Threads, P!ResolveStep(t) PROVE PlanningInvariant'
  <1> PICK x : x = thread[t]  OBVIOUS
  <1>1. /\ x \in Planners /\ x.pc = "resolve" /\ Stands(x)
        /\ UNCHANGED <<recipe, plans, run, shown, replans>>
    BY DEF PlanningInvariant, PlanningTypes, P!ResolveStep
  <1>2. plans # <<>> /\ x.page \in MCPages /\ P!Active \in PlannedRoutes /\ x.rev <= run.rev
    BY <1>1, ActivePlan DEF Stands, PlanPcs, PlanningInvariant, PlanningTypes
  <1>3. PICK step : step = P!AdherenceStepIndex(x.page, P!Active)
    OBVIOUS
  <1>4. /\ step \in 0..Len(P!Active.surfaces) /\ Len(P!Active.surfaces) \in Nat
        /\ step = 0 => x.page.status \in {"failed", "human"}
    <2>1. Len(P!Active.surfaces) \in Nat
      BY <1>2 DEF PlannedRoutes
    <2> QED  BY <1>2, <1>3, <2>1, StepToCompare
  <1>5. CASE step = 0
    <2>1. PICK to : to = [x EXCEPT !.pc = "project", !.act = "proceed"]
      OBVIOUS
    <2>2. P!Goes(t, to)
      BY <1>3, <1>5, <2>1 DEF P!ResolveStep
    <2>3. to \in Planners /\ to.pc = "project" /\ to.page = x.page /\ to.rev = x.rev
      BY <1>1, <2>1 DEF Planners, PlanPcs
    <2>4. Stands(to)
      BY <1>2, <1>4, <1>5, <2>3 DEF Stands, OnRoute
    <2> QED  BY <1>1, <2>2, <2>3, <2>4, PlannerTurns
  <1>6. CASE step # 0
    <2>1. PICK to : to = [x EXCEPT !.pc = "compare", !.step = step]
      OBVIOUS
    <2>2. P!Goes(t, to)
      BY <1>3, <1>6, <2>1 DEF P!ResolveStep
    <2>3. to \in Planners /\ to.pc = "compare" /\ to.page = x.page /\ to.rev = x.rev /\ to.step = step
      <3>1. step \in Nat
        BY <1>4
      <3> QED  BY <1>1, <2>1, <3>1 DEF Planners, PlanPcs
    <2>4. Stands(to)
      BY <1>2, <1>4, <1>6, <2>3 DEF Stands
    <2> QED  BY <1>1, <2>2, <2>3, <2>4, PlannerTurns
  <1> QED  BY <1>5, <1>6

LEMMA ObserveSurfaceStep ==
    ASSUME PlanningInvariant, NEW t \in Threads, P!ObserveSurface(t) PROVE PlanningInvariant'
  <1> PICK x : x = thread[t]  OBVIOUS
  <1>1. /\ x \in Planners /\ x.pc = "compare" /\ Stands(x)
        /\ UNCHANGED <<recipe, plans, run, shown, replans>>
    BY DEF PlanningInvariant, PlanningTypes, P!ObserveSurface
  <1>2. /\ plans # <<>> /\ x.page \in MCPages /\ P!Active \in PlannedRoutes /\ x.rev <= run.rev
        /\ x.rev = run.rev => x.step \in 1..Len(P!Active.surfaces)
    BY <1>1, ActivePlan DEF Stands, PlanPcs, PlanningInvariant, PlanningTypes
  <1>3. PICK act : act = P!DecideAdherence(x.page, P!Active, x.step, Len(plans))
    OBVIOUS
  <1>4. x.rev = run.rev /\ act = "proceed" => OnRoute(x.page, P!Active)
    BY <1>2, <1>3, ComparedRoute
  <1>5. CASE act = "replan" /\ ~x.again
    <2>1. PICK to : to = [x EXCEPT !.pc = "replan"]
      OBVIOUS
    <2>2. P!Goes(t, to)
      BY <1>3, <1>5, <2>1 DEF P!ObserveSurface
    <2>3. to \in Planners /\ to.pc = "replan" /\ to.page = x.page /\ to.rev = x.rev
      BY <1>1, <2>1 DEF Planners, PlanPcs
    <2>4. Stands(to)
      BY <1>2, <2>3 DEF Stands
    <2> QED  BY <1>1, <2>2, <2>3, <2>4, PlannerTurns
  <1>6. CASE ~(act = "replan" /\ ~x.again)
    <2>1. PICK d : d = IF act = "proceed" THEN act ELSE "pause"
      OBVIOUS
    <2>2. PICK to : to = [x EXCEPT !.pc = "project", !.act = d]
      OBVIOUS
    <2>3. P!Goes(t, to)
      BY <1>3, <1>6, <2>1, <2>2 DEF P!ObserveSurface
    <2>4. d \in {"proceed", "pause"} /\ (d = "proceed" => act = "proceed")
      BY <2>1
    <2>5. /\ to \in Planners /\ to.pc = "project" /\ to.page = x.page /\ to.rev = x.rev
          /\ to.act = d
      BY <1>1, <2>2, <2>4 DEF Planners, PlanPcs
    <2>6. Stands(to)
      BY <1>2, <1>4, <2>4, <2>5 DEF Stands
    <2> QED  BY <1>1, <2>3, <2>5, <2>6, PlannerTurns
  <1> QED  BY <1>5, <1>6

LEMMA DriveAgainStep ==
    ASSUME PlanningInvariant, NEW t \in Threads, P!DriveAgain(t) PROVE PlanningInvariant'
  <1>1. /\ run.running /\ plans # <<>> /\ run \in [rev: 0..MaxRevision, attempt: Nat, effect: Nat, running: BOOLEAN]
        /\ UNCHANGED <<recipe, plans, run, shown, replans>>
    BY DEF PlanningInvariant, PlanningTypes, P!DriveAgain
  <1>2. PICK to : to = [P!Idle EXCEPT !.pc = "drive", !.effect = run.effect]
    OBVIOUS
  <1>3. P!Goes(t, to)
    BY <1>2 DEF P!DriveAgain
  <1>4. to \in Planners /\ to.pc = "drive" /\ to.rev = 0
    BY <1>1, <1>2, IdleStands DEF Planners, PlanPcs, P!Idle
  <1>5. Stands(to)
    BY <1>1, <1>4, PlanningBounds DEF Stands, PlanPcs
  <1> QED  BY <1>1, <1>3, <1>4, <1>5, PlannerTurns

Rows == [rev: 0..MaxRevision, attempt: Nat, effect: Nat, running: BOOLEAN]

LEMMA RecordAdmittedStep ==
    ASSUME PlanningInvariant, NEW t \in Threads, P!RecordAdmitted(t) PROVE PlanningInvariant'
  <1> PICK x : x = thread[t]  OBVIOUS
  <1>1. /\ x \in Planners /\ x.pc = "record" /\ x.plan \in PlannedRoutes /\ x.rev <= run.rev
        /\ UNCHANGED <<recipe, run, shown, replans>>
    BY DEF PlanningInvariant, PlanningTypes, Stands, P!RecordAdmitted
  <1>2. PICK winner : winner = P!Last(plans').plan
    OBVIOUS
  <1>3. /\ plans' \in Seq(PlanRows) /\ plans' # <<>> /\ P!PlansAreLinear'
        /\ winner \in PlannedRoutes /\ (plans' = plans \/ plans = <<>>)
    <2>1. CASE plans = <<>>
      <3>1. P!RecordRunPlan(x.plan)
        BY <2>1 DEF P!RecordAdmitted, P!RecordInitialPlan
      <3>2. Len(plans) <= 1
        BY <2>1
      <3> QED  BY <1>1, <1>2, <2>1, <3>1, <3>2, PlanRecords DEF PlanningInvariant, PlanningTypes
    <2>2. CASE plans # <<>>
      <3>1. plans' = plans
        BY <2>2 DEF P!RecordAdmitted, P!RecordInitialPlan
      <3>2. P!Active \in PlannedRoutes /\ P!Active = P!Last(plans).plan
        BY <2>2, ActivePlan DEF PlanningInvariant, PlanningTypes, P!Active
      <3>3. winner = P!Last(plans).plan
        BY <1>2, <3>1
      <3>4. P!PlansAreLinear'
        BY <3>1 DEF PlanningInvariant, P!PlansAreLinear
      <3> QED  BY <2>2, <3>1, <3>2, <3>3, <3>4 DEF PlanningInvariant, PlanningTypes
    <2> QED  BY <2>1, <2>2
  <1>4. PICK to : to = IF P!ValidPlan(winner, recipe) THEN [x EXCEPT !.pc = "start", !.plan = winner]
                       ELSE P!Idle
    OBVIOUS
  <1>5. P!Goes(t, to)
    BY <1>2, <1>4 DEF P!RecordAdmitted
  <1>6. to \in Planners /\ Stands(to)'
    <2>1. CASE P!ValidPlan(winner, recipe)
      <3>1. to = [x EXCEPT !.pc = "start", !.plan = winner]
        BY <1>4, <2>1
      <3>2. to \in Planners /\ to.pc = "start" /\ to.plan = winner /\ to.rev = x.rev
        BY <1>1, <1>3, <3>1 DEF Planners, PlanPcs
      <3>3. P!ValidPlan(to.plan, recipe')
        BY <1>1, <2>1, <3>2
      <3> QED  BY <1>1, <1>3, <3>2, <3>3 DEF Stands, P!ValidPlan, P!Declared, P!Admits
    <2>2. CASE ~P!ValidPlan(winner, recipe)
      <3>1. to = P!Idle
        BY <1>4, <2>2
      <3>2. to \in Planners /\ to.pc = "idle" /\ to.rev = 0
        BY <3>1, IdleStands DEF P!Idle
      <3>3. 0 <= run'.rev
        BY <1>1, PlanningBounds DEF PlanningInvariant, PlanningTypes
      <3> QED  BY <3>2, <3>3 DEF Stands
    <2> QED  BY <2>1, <2>2
  <1>7. PlanningTypes'
    BY <1>1, <1>3, <1>5, <1>6, ThreadGoes DEF PlanningInvariant, PlanningTypes
  <1>8. P!ShownIsOnRoute'
    BY <1>1 DEF PlanningInvariant, P!ShownIsOnRoute
  <1>9. run.rev <= run'.rev
    BY <1>1, PlanningBounds DEF PlanningInvariant, PlanningTypes
  <1> QED  BY <1>1, <1>3, <1>5, <1>6, <1>7, <1>8, <1>9, PlannerMoves DEF PlanningInvariant

\* A step of one thread that writes the run's row and no plan.
LEMMA RowMoves ==
    ASSUME PlanningInvariant, NEW t \in Threads, NEW to \in Planners, P!Goes(t, to),
           UNCHANGED <<recipe, plans, replans>>, run' \in Rows, run.rev <= run'.rev,
           run'.running => plans # <<>>,
           to.pc \in {"idle", "drive"}, to.rev = 0, to.pc = "drive" => plans # <<>>,
           P!ShownIsOnRoute'
    PROVE  PlanningInvariant'
  <1>1. PlanningTypes'
    BY ThreadGoes DEF PlanningInvariant, PlanningTypes, Rows
  <1>2. to.rev <= run'.rev
    BY PlanningBounds DEF Rows
  <1>3. Stands(to)'
    BY <1>2 DEF Stands
  <1>4. P!PlansAreLinear'
    BY DEF PlanningInvariant, P!PlansAreLinear
  <1> QED  BY <1>1, <1>3, <1>4, PlannerMoves

LEMMA StartStep ==
    ASSUME PlanningInvariant, NEW t \in Threads, P!Start(t) PROVE PlanningInvariant'
  <1>1. /\ thread[t].pc = "start" /\ plans # <<>> /\ run \in Rows /\ run.rev < MaxRevision
        /\ UNCHANGED <<recipe, plans, shown, replans>>
        /\ run' = [rev |-> run.rev + 1, attempt |-> run.attempt + 1, effect |-> run.attempt + 1, running |-> TRUE]
    BY DEF PlanningInvariant, PlanningTypes, Stands, PlanPcs, P!Start, Rows
  <1>2. PICK to : to = [P!Idle EXCEPT !.pc = "drive", !.effect = run.attempt + 1]
    OBVIOUS
  <1>3. P!Goes(t, to)
    BY <1>2 DEF P!Start
  <1>4. run.attempt + 1 \in Nat /\ run.rev + 1 \in 0..MaxRevision /\ run.rev <= run.rev + 1
    BY <1>1, PlanningBounds DEF Rows
  <1>5. to \in Planners /\ to.pc = "drive" /\ to.rev = 0
    BY <1>2, <1>4, IdleStands DEF Planners, PlanPcs, P!Idle
  <1>6. run' \in Rows /\ run'.rev = run.rev + 1
    BY <1>1, <1>4 DEF Rows
  <1>7. P!ShownIsOnRoute'
    BY <1>1 DEF PlanningInvariant, P!ShownIsOnRoute
  <1> QED  BY <1>1, <1>3, <1>4, <1>5, <1>6, <1>7, RowMoves

LEMMA ProjectStep ==
    ASSUME PlanningInvariant, NEW t \in Threads, P!Project(t) PROVE PlanningInvariant'
  <1> PICK x : x = thread[t]  OBVIOUS
  <1>1. /\ x \in Planners /\ x.pc = "project" /\ plans # <<>> /\ x.page \in MCPages /\ Stands(x)
        /\ run \in Rows /\ P!Goes(t, P!Idle) /\ P!Idle \in Planners
        /\ P!Idle.pc = "idle" /\ P!Idle.rev = 0
        /\ UNCHANGED <<recipe, plans, replans>>
    BY IdleStands DEF PlanningInvariant, PlanningTypes, Stands, PlanPcs, P!Project, Rows, P!Idle
  <1>2. CASE run.running /\ run.rev = x.rev /\ run.effect = x.effect /\ run.rev < MaxRevision
    <2>1. shown' = [page |-> x.page, plan |-> P!Active, act |-> x.act]
      BY <1>2 DEF P!Project
    <2>2. run' = [run EXCEPT !.rev = @ + 1, !.running = x.act = "proceed" /\ x.page.status = "navigating"]
      BY <1>2 DEF P!Project
    <2>3. run.rev + 1 \in 0..MaxRevision /\ run.rev <= run.rev + 1
      BY <1>1, <1>2, PlanningBounds DEF Rows
    <2>4. PICK b \in BOOLEAN : b = (x.act = "proceed" /\ x.page.status = "navigating")
      OBVIOUS
    <2>5. run' = [run EXCEPT !.rev = run.rev + 1, !.running = b]
      BY <2>2, <2>4
    <2>6. run' \in Rows /\ run'.rev = run.rev + 1
      BY <1>1, <2>3, <2>5 DEF Rows
    <2>7. P!ShownIsOnRoute'
      <3> SUFFICES ASSUME x.act = "proceed", x.page.status \in {"navigating", "ready"}
                   PROVE  P!Host(x.page.at) \in {P!Host(s) : s \in P!Range(P!Active.surfaces)}
        BY <2>1 DEF P!ShownIsOnRoute
      <3>1. OnRoute(x.page, P!Active)
        BY <1>1, <1>2 DEF Stands
      <3>2. PICK i \in 1..Len(P!Active.surfaces) : P!Host(x.page.at) = P!Host(P!Active.surfaces[i])
        BY <3>1 DEF OnRoute
      <3>3. P!Active.surfaces \in Seq(Surfaces)
        BY <1>1, ActivePlan DEF PlanningInvariant, PlanningTypes
      <3>4. P!Active.surfaces[i] \in P!Range(P!Active.surfaces)
        BY <3>2, <3>3 DEF P!Range
      <3> QED  BY <3>2, <3>4
    <2> QED  BY <1>1, <2>3, <2>6, <2>7, RowMoves
  <1>3. CASE ~(run.running /\ run.rev = x.rev /\ run.effect = x.effect /\ run.rev < MaxRevision)
    <2>1. UNCHANGED <<shown, run>>
      BY <1>3 DEF P!Project
    <2>2. P!ShownIsOnRoute'
      BY <2>1 DEF PlanningInvariant, P!ShownIsOnRoute
    <2>3. run.rev <= run'.rev
      BY <1>1, <2>1, PlanningBounds DEF Rows
    <2> QED  BY <1>1, <2>1, <2>2, <2>3, RowMoves
  <1> QED  BY <1>2, <1>3

LEMMA ReplanRunRouteStep ==
    ASSUME PlanningInvariant, NEW t \in Threads, P!ReplanRunRoute(t) PROVE PlanningInvariant'
  <1> PICK x : x = thread[t]  OBVIOUS
  <1>1. /\ x \in Planners /\ x.pc = "replan" /\ plans # <<>> /\ x.page \in MCPages /\ Stands(x)
        /\ run \in Rows /\ run.rev < MaxRevision
        /\ UNCHANGED <<recipe, shown, replans>>
    BY DEF PlanningInvariant, PlanningTypes, Stands, PlanPcs, P!ReplanRunRoute, Rows
  <1>2. CASE ~run.running \/ run.rev # x.rev \/ run.effect # x.effect
    <2>1. P!Goes(t, P!Idle) /\ UNCHANGED <<plans, run>>
      BY <1>2 DEF P!ReplanRunRoute
    <2> QED  BY <1>1, <2>1, IdleStands, PlannerTurns DEF PlanningInvariant
  <1>3. CASE run.running /\ run.rev = x.rev /\ run.effect = x.effect
    <2>1. PICK plan \in P!DecideRunPlan(recipe) :
             IF P!ValidPlan(plan, recipe) /\ Len(plans) = 1
             THEN /\ P!RecordRunPlan(plan) /\ run' = P!ReplannedRow
                  /\ P!Goes(t, [x EXCEPT !.pc = "resolve", !.rev = @ + 1, !.again = TRUE])
             ELSE /\ UNCHANGED <<plans, run>>
                  /\ P!Goes(t, [x EXCEPT !.pc = "project", !.act = "pause"])
      BY <1>3 DEF P!ReplanRunRoute
    <2>2. CASE P!ValidPlan(plan, recipe) /\ Len(plans) = 1
      <3>1. plan \in PlannedRoutes
        BY DecidedRoute DEF PlanningInvariant
      <3>2. P!RecordRunPlan(plan) /\ run' = [run EXCEPT !.rev = @ + 1, !.attempt = @ + 1]
        BY <2>1, <2>2 DEF P!ReplannedRow
      <3>3. plans' \in Seq(PlanRows) /\ plans' # <<>> /\ P!PlansAreLinear'
        BY <2>2, <3>1, <3>2, PlanRecords DEF PlanningInvariant, PlanningTypes
      <3>4. /\ run.rev + 1 \in 0..MaxRevision /\ run.rev < run.rev + 1 /\ run.rev <= run.rev + 1
            /\ run.attempt + 1 \in Nat
        BY <1>1, PlanningBounds DEF Rows
      <3>5. run' \in Rows /\ run'.rev = run.rev + 1
        BY <1>1, <3>2, <3>4 DEF Rows
      <3>6. PICK to : to = [x EXCEPT !.pc = "resolve", !.rev = run.rev + 1, !.again = TRUE]
        OBVIOUS
      <3>7. P!Goes(t, to)
        BY <1>1, <1>3, <2>1, <2>2, <3>6 DEF Planners
      <3>8. to \in Planners /\ to.pc = "resolve" /\ to.page = x.page /\ to.rev = run.rev + 1
        BY <1>1, <3>4, <3>6 DEF Planners, PlanPcs
      <3>9. Stands(to)'
        BY <1>1, <3>3, <3>4, <3>5, <3>8 DEF Stands
      <3>10. PlanningTypes'
        BY <1>1, <3>3, <3>5, <3>7, <3>8, ThreadGoes DEF PlanningInvariant, PlanningTypes, Rows
      <3>11. P!ShownIsOnRoute'
        BY <1>1 DEF PlanningInvariant, P!ShownIsOnRoute
      <3> QED  BY <1>1, <3>3, <3>4, <3>5, <3>7, <3>8, <3>9, <3>10, <3>11, PlannerMoves
    <2>3. CASE ~(P!ValidPlan(plan, recipe) /\ Len(plans) = 1)
      <3>1. PICK to : to = [x EXCEPT !.pc = "project", !.act = "pause"]
        OBVIOUS
      <3>2. P!Goes(t, to) /\ UNCHANGED <<plans, run>>
        BY <2>1, <2>3, <3>1
      <3>3. /\ to \in Planners /\ to.pc = "project" /\ to.page = x.page /\ to.rev = x.rev
            /\ to.act = "pause"
        BY <1>1, <3>1 DEF Planners, PlanPcs
      <3>4. Stands(to)
        BY <1>1, <3>3 DEF Stands
      <3> QED  BY <1>1, <3>2, <3>3, <3>4, PlannerTurns
    <2> QED  BY <2>2, <2>3
  <1> QED  BY <1>2, <1>3

-----------------------------------------------------------------------------
(* The run's own steps, and a restart. *)
LEMMA PauseRunStep ==
    ASSUME PlanningInvariant, P!PauseRun PROVE PlanningInvariant'
  <1>1. /\ run \in Rows /\ run.rev < MaxRevision /\ UNCHANGED <<recipe, plans, thread, shown, replans>>
        /\ run' = [run EXCEPT !.rev = @ + 1, !.running = FALSE]
    BY DEF PlanningInvariant, PlanningTypes, P!PauseRun, Rows
  <1>2. run.rev + 1 \in 0..MaxRevision /\ run.rev <= run.rev + 1
    BY <1>1, PlanningBounds DEF Rows
  <1>3. run' \in Rows /\ run'.rev = run.rev + 1 /\ run'.running = FALSE
    BY <1>1, <1>2 DEF Rows
  <1>4. PlanningTypes'
    BY <1>1, <1>3 DEF PlanningInvariant, PlanningTypes, Rows
  <1>5. ASSUME NEW u \in Threads PROVE Stands(thread[u])'
    <2>1. PICK x : x = thread[u]
      OBVIOUS
    <2>2. x \in Planners /\ Stands(x)
      BY <2>1 DEF PlanningInvariant, PlanningTypes
    <2>3. Stands(x)'
      BY <1>1, <1>2, <1>3, <1>4, <2>2, StandsStill DEF PlanningInvariant
    <2>4. thread'[u] = x
      BY <1>1, <2>1
    <2> QED  BY <2>3, <2>4 DEF Stands
  <1>6. P!PlansAreLinear' /\ P!ShownIsOnRoute'
    BY <1>1 DEF PlanningInvariant, P!PlansAreLinear, P!ShownIsOnRoute
  <1> QED  BY <1>3, <1>4, <1>5, <1>6 DEF PlanningInvariant

LEMMA RedeployStep ==
    ASSUME PlanningInvariant, P!Redeploy PROVE PlanningInvariant'
  <1>1. /\ run \in Rows /\ replans \in 0..MaxRestarts /\ replans < MaxRestarts /\ replans' = replans + 1
        /\ thread' = [t \in Threads |-> P!Idle] /\ recipe' \in MCRecipes
        /\ run' = [run EXCEPT !.running = FALSE] /\ UNCHANGED <<plans, shown>>
    BY DEF PlanningInvariant, PlanningTypes, P!Redeploy, Rows
  <1>2. run' \in Rows /\ run'.rev = run.rev /\ run'.running = FALSE
    BY <1>1 DEF Rows
  <1>3. PlanningTypes'
    <2>1. replans' \in 0..MaxRestarts
      BY <1>1, PlanningBounds
    <2> QED  BY <1>1, <1>2, <2>1, IdleStands DEF PlanningInvariant, PlanningTypes, Rows
  <1>4. ASSUME NEW u \in Threads PROVE Stands(thread[u])'
    <2>1. thread'[u].pc = "idle" /\ thread'[u].rev = 0
      BY <1>1 DEF P!Idle
    <2>2. 0 <= run'.rev
      BY <1>2, PlanningBounds DEF Rows
    <2> QED  BY <2>1, <2>2 DEF Stands
  <1>5. P!PlansAreLinear' /\ P!ShownIsOnRoute'
    BY <1>1 DEF PlanningInvariant, P!PlansAreLinear, P!ShownIsOnRoute
  <1> QED  BY <1>2, <1>3, <1>4, <1>5 DEF PlanningInvariant

LEMMA PlanningSteps ==
    ASSUME PlanningInvariant, P!PlanningNext PROVE PlanningInvariant'
  <1>1. ASSUME NEW t \in Threads,
               \/ P!PlanAdmission(t) \/ P!RecordAdmitted(t) \/ P!Start(t) \/ P!Observe(t)
               \/ P!ResolveStep(t) \/ P!ObserveSurface(t) \/ P!ReplanRunRoute(t) \/ P!Project(t)
               \/ P!DriveAgain(t)
        PROVE  PlanningInvariant'
    BY <1>1, PlanAdmissionStep, RecordAdmittedStep, StartStep, ObserveStep, ResolveStepStep,
       ObserveSurfaceStep, ReplanRunRouteStep, ProjectStep, DriveAgainStep
  <1> QED  BY <1>1, PauseRunStep, RedeployStep DEF P!PlanningNext

LEMMA PlanningSafe ==
    ASSUME PlanningInvariant
    PROVE  P!PlanningTypeOK /\ P!PlansAreLinear /\ P!StartsOnReviewedRoute /\ P!ShownIsOnRoute
  <1>1. Len(plans) \in Nat /\ Len(plans) <= 2
    BY DEF PlanningInvariant, PlanningTypes, P!PlansAreLinear
  <1>2. P!PlanningTypeOK
    BY <1>1 DEF PlanningInvariant, PlanningTypes, P!PlanningTypeOK
  <1>3. P!StartsOnReviewedRoute
    BY DEF PlanningInvariant, Stands, P!StartsOnReviewedRoute
  <1> QED  BY <1>2, <1>3 DEF PlanningInvariant
-----------------------------------------------------------------------------
(* LedgerSchema                                                               *)

OpenerPcs == {"idle", "peek", "rename", "create", "copy", "script", "columns", "status",
              "rebuild", "index", "use"}

TableRows == [made: BOOLEAN, wide: BOOLEAN, rows: SUBSET Runs]

SchemaTypes ==
    /\ ledger \in S!Ledger /\ odd \subseteq Runs
    /\ table \in [S!TableNames -> TableRows] /\ legacy \in [S!TableNames -> TableRows]
    /\ recorded \in [S!TableNames -> SUBSET Runs]
    /\ opener \in [Openers -> [pc: OpenerPcs, at: 1..2, seen: SUBSET Columns]]
    /\ deaths \in 0..MaxDeaths

\* What an opener has seen of the table of runs is still there, and from the status
\* CHECK on it has every column; whoever is at work found the table.
SeenIsThere ==
    /\ \A p \in Openers :
          /\ opener[p].pc # "idle" => ledger.made
          /\ opener[p].pc \in {"peek", "rename", "create", "copy", "script", "columns"} =>
                opener[p].seen \subseteq ledger.cols
          /\ opener[p].pc \in {"status", "rebuild", "index", "use"} => ledger.cols = Columns
          /\ opener[p].pc = "rebuild" => opener[p].seen = Columns
          /\ opener[p].pc \in {"index", "use"} => ledger.check

LedgerInvariant == SchemaTypes /\ SeenIsThere

LEMMA SchemaBounds ==
    /\ MaxDeaths \in Nat /\ Altered \subseteq Columns /\ S!Tables = <<"admission", "plans">>
    /\ \A i \in 1..2 : S!Tables[i] \in S!TableNames
  BY IntakePartsAssumption
     DEF IntakePartsAssumption, S!SchemaAssumption, S!Tables, S!TableNames

LEMMA LedgerInitially ==
    ASSUME S!SchemaInit PROVE LedgerInvariant
  <1>1. PICK rows \in SUBSET Runs, strange \in SUBSET Runs, cols \in {{}, Columns \ Altered} :
           /\ strange \subseteq rows
           /\ \/ ledger = [made |-> TRUE, cols |-> cols, check |-> FALSE, index |-> cols # {},
                           rows |-> rows]
              \/ rows = {} /\ ledger = S!NoLedger
           /\ odd = strange
           /\ table = [t \in S!TableNames |-> IF ledger.made
                                              THEN [made |-> TRUE, wide |-> FALSE, rows |-> rows]
                                              ELSE S!NoTable]
           /\ recorded = [t \in S!TableNames |-> rows]
    BY DEF S!SchemaInit
  <1>2. S!NoTable \in TableRows /\ [made |-> TRUE, wide |-> FALSE, rows |-> rows] \in TableRows
    BY DEF S!NoTable, TableRows
  <1>3. ledger \in S!Ledger
    <2>1. /\ S!NoLedger \in S!Ledger
          /\ [made |-> TRUE, cols |-> cols, check |-> FALSE, index |-> cols # {}, rows |-> rows]
                \in S!Ledger
      BY DEF S!NoLedger, S!Ledger
    <2> QED  BY <1>1, <2>1
  <1>4. table \in [S!TableNames -> TableRows] /\ legacy \in [S!TableNames -> TableRows]
    BY <1>1, <1>2 DEF S!SchemaInit
  <1>5. opener \in [Openers -> [pc: OpenerPcs, at: 1..2, seen: SUBSET Columns]]
    BY DEF S!SchemaInit, S!AtRest, OpenerPcs
  <1>6. recorded \in [S!TableNames -> SUBSET Runs] /\ odd \subseteq Runs
    BY <1>1
  <1>7. deaths \in 0..MaxDeaths
    BY SchemaBounds DEF S!SchemaInit
  <1>8. \A p \in Openers : opener[p].pc = "idle"
    BY DEF S!SchemaInit, S!AtRest
  <1> QED  BY <1>3, <1>4, <1>5, <1>6, <1>7, <1>8 DEF LedgerInvariant, SchemaTypes, SeenIsThere

Opening == [pc: OpenerPcs, at: 1..2, seen: SUBSET Columns]

\* A step of one opener that leaves the table of runs alone.
LEMMA OpenerMoves ==
    ASSUME LedgerInvariant, NEW p \in Openers, NEW to \in Opening, S!Goes(p, to),
           UNCHANGED <<ledger, odd>>,
           table' \in [S!TableNames -> TableRows], legacy' \in [S!TableNames -> TableRows],
           recorded' \in [S!TableNames -> SUBSET Runs], deaths' \in 0..MaxDeaths,
           to.pc # "idle" => ledger.made,
           to.pc \in {"peek", "rename", "create", "copy", "script", "columns"} =>
               to.seen \subseteq ledger.cols,
           to.pc \in {"status", "rebuild", "index", "use"} => ledger.cols = Columns,
           to.pc = "rebuild" => to.seen = Columns,
           to.pc \in {"index", "use"} => ledger.check
    PROVE  LedgerInvariant'
  <1>1. /\ opener' \in [Openers -> Opening] /\ opener'[p] = to
        /\ \A q \in Openers \ {p} : opener'[q] = opener[q]
    BY DEF LedgerInvariant, SchemaTypes, S!Goes, Opening
  <1>2. SchemaTypes'
    BY <1>1 DEF LedgerInvariant, SchemaTypes, Opening
  <1>3. SeenIsThere'
    BY <1>1 DEF LedgerInvariant, SeenIsThere
  <1> QED  BY <1>2, <1>3 DEF LedgerInvariant

\* A step that changes the table of runs: it keeps what others have seen of it.
LEMMA LedgerMoves ==
    ASSUME LedgerInvariant, NEW p \in Openers, NEW to \in Opening, S!Goes(p, to),
           UNCHANGED <<odd, table, legacy, recorded, deaths>>,
           ledger' \in S!Ledger,
           ledger'.made, ledger.check => ledger'.check,
           ledger.made => ledger.cols \subseteq ledger'.cols,
           to.pc \in {"peek", "rename", "create", "copy", "script", "columns"} =>
               to.seen \subseteq ledger'.cols,
           to.pc \in {"status", "rebuild"} => FALSE,
           to.pc \in {"index", "use"} => ledger'.check /\ ledger'.cols = Columns
    PROVE  LedgerInvariant'
  <1>1. /\ opener' \in [Openers -> Opening] /\ opener'[p] = to
        /\ \A q \in Openers \ {p} : opener'[q] = opener[q]
    BY DEF LedgerInvariant, SchemaTypes, S!Goes, Opening
  <1>2. SchemaTypes'
    BY <1>1 DEF LedgerInvariant, SchemaTypes, Opening
  <1>3. ledger'.cols \subseteq Columns
    BY DEF S!Ledger
  <1>4. ASSUME NEW q \in Openers, q # p
        PROVE  /\ opener'[q].pc \in {"peek", "rename", "create", "copy", "script", "columns"} =>
                     opener'[q].seen \subseteq ledger'.cols
               /\ opener'[q].pc \in {"status", "rebuild", "index", "use"} => ledger'.cols = Columns
               /\ opener'[q].pc = "rebuild" => opener'[q].seen = Columns
               /\ opener'[q].pc \in {"index", "use"} => ledger'.check
    <2>1. opener'[q] = opener[q]
      BY <1>1, <1>4
    <2>2. opener[q].pc # "idle" => ledger.cols \subseteq ledger'.cols
      BY DEF LedgerInvariant, SeenIsThere
    <2> QED  BY <1>3, <2>1, <2>2 DEF LedgerInvariant, SeenIsThere
  <1>5. SeenIsThere'
    BY <1>1, <1>4 DEF SeenIsThere
  <1> QED  BY <1>2, <1>5 DEF LedgerInvariant

LEMMA LedgerSteps ==
    ASSUME LedgerInvariant, S!SchemaNext PROVE LedgerInvariant'
  <1>1. SchemaTypes /\ SeenIsThere
    BY DEF LedgerInvariant
  <1>2. /\ ledger \in S!Ledger
        /\ table \in [S!TableNames -> TableRows] /\ legacy \in [S!TableNames -> TableRows]
        /\ recorded \in [S!TableNames -> SUBSET Runs] /\ deaths \in 0..MaxDeaths
    BY <1>1 DEF SchemaTypes
  <1>3. ASSUME NEW p \in Openers
        PROVE  opener[p] \in Opening /\ S!T(p) \in S!TableNames
    BY <1>1, SchemaBounds DEF SchemaTypes, Opening, S!T
  <1>4. S!AtRest \in Opening /\ S!AtRest.pc = "idle"
    BY DEF S!AtRest, Opening, OpenerPcs
  <1>5. PICK p \in Openers :
            \/ S!CreateTables(p) \/ S!PeekTable(p) \/ S!RenameTable(p) \/ S!CreateReplacement(p)
            \/ S!CopyRows(p) \/ S!RunScript(p) \/ S!AddColumn(p) \/ S!PeekStatus(p)
            \/ S!RebuildRuns(p) \/ S!CreateIndex(p) \/ S!CreateRun(p) \/ S!RecordRow(p) \/ S!OpenerDies(p)
    BY DEF S!SchemaNext
  <1> DEFINE t == S!T(p)
  <1>6. opener[p] \in Opening /\ t \in S!TableNames
    BY <1>3
  <1>7. /\ opener[p].pc # "idle" => ledger.made
        /\ opener[p].pc \in {"peek", "rename", "create", "copy", "script", "columns"} =>
              opener[p].seen \subseteq ledger.cols
        /\ opener[p].pc \in {"status", "rebuild", "index", "use"} => ledger.cols = Columns
        /\ opener[p].pc = "rebuild" => opener[p].seen = Columns
        /\ opener[p].pc \in {"index", "use"} => ledger.check
    BY <1>1 DEF SeenIsThere
  <1> HIDE DEF t
  \* An opener that gives up, or is done.
  <1>8. ASSUME S!Goes(p, S!AtRest), UNCHANGED <<ledger, odd>>,
               table' \in [S!TableNames -> TableRows], legacy' \in [S!TableNames -> TableRows],
               recorded' \in [S!TableNames -> SUBSET Runs], deaths' \in 0..MaxDeaths
        PROVE  LedgerInvariant'
    BY <1>4, <1>8, OpenerMoves
  \* A step of the two rebuilds: the opener stays within the base script.
  <1>9. ASSUME NEW pc \in {"peek", "rename", "create", "copy", "script", "columns"},
               NEW at \in 1..2, opener[p].pc \in {"peek", "rename", "create", "copy", "script"},
               S!Goes(p, [opener[p] EXCEPT !.pc = pc, !.at = at]),
               UNCHANGED <<ledger, odd, recorded, deaths>>,
               table' \in [S!TableNames -> TableRows], legacy' \in [S!TableNames -> TableRows]
        PROVE  LedgerInvariant'
    <2> DEFINE to == [opener[p] EXCEPT !.pc = pc, !.at = at]
    <2>1. to \in Opening /\ to.pc = pc /\ to.seen = opener[p].seen /\ S!Goes(p, to)
      BY <1>6, <1>9 DEF Opening, OpenerPcs
    <2> HIDE DEF to
    <2> QED  BY <1>2, <1>7, <1>9, <2>1, OpenerMoves
  <1>10. ASSUME NEW pc \in {"peek", "rename", "create", "copy", "script", "columns"},
                S!Goes(p, [opener[p] EXCEPT !.pc = pc])
         PROVE  S!Goes(p, [opener[p] EXCEPT !.pc = pc, !.at = opener[p].at])
    <2>1. [opener[p] EXCEPT !.pc = pc] = [opener[p] EXCEPT !.pc = pc, !.at = opener[p].at]
      BY <1>6 DEF Opening
    <2> QED  BY <1>10, <2>1
  <1>11. opener[p].at \in 1..2
    BY <1>6 DEF Opening
  <1>12. S!NoTable \in TableRows
    BY DEF S!NoTable, TableRows
  <1>13. CASE S!CreateTables(p)
    <2> DEFINE to == [pc |-> "peek", at |-> 1, seen |-> ledger'.cols]
    <2>1. /\ ledger' = IF ledger.made THEN ledger
                       ELSE [S!NoLedger EXCEPT !.made = TRUE, !.cols = Columns \ Altered]
          /\ UNCHANGED <<odd, table, legacy, recorded, deaths>>
          /\ S!Goes(p, to)
      BY <1>13 DEF S!CreateTables
    <2>2. CASE ledger.made
      <3>1. to \in Opening /\ to.pc = "peek" /\ to.seen = ledger.cols
        BY <1>2, <2>1, <2>2 DEF Opening, OpenerPcs, S!Ledger
      <3> HIDE DEF to
      <3> QED  BY <1>2, <2>1, <2>2, <3>1, OpenerMoves
    <2>3. CASE ~ledger.made
      <3>1. ledger' \in S!Ledger /\ ledger'.made /\ ledger'.cols = Columns \ Altered
        BY <2>1, <2>3 DEF S!NoLedger, S!Ledger
      <3>2. to \in Opening /\ to.pc = "peek" /\ to.seen = ledger'.cols
        BY <3>1 DEF Opening, OpenerPcs, S!Ledger
      <3>3. \A q \in Openers : opener[q].pc = "idle"
        BY <1>1, <2>3 DEF SeenIsThere
      <3> HIDE DEF to
      <3>4. /\ opener' \in [Openers -> Opening] /\ opener'[p] = to
            /\ \A q \in Openers \ {p} : opener'[q] = opener[q]
        BY <1>1, <2>1, <3>2 DEF SchemaTypes, S!Goes, Opening
      <3>5. SchemaTypes'
        BY <1>1, <2>1, <3>1, <3>4 DEF SchemaTypes, Opening
      <3>6. SeenIsThere'
        BY <3>1, <3>2, <3>3, <3>4 DEF SeenIsThere
      <3> QED  BY <3>5, <3>6 DEF LedgerInvariant
    <2> QED  BY <2>2, <2>3
  <1>14. CASE S!PeekTable(p)
    <2>1. /\ opener[p].pc = "peek"
          /\ UNCHANGED <<ledger, odd, table, legacy, recorded, deaths>>
          /\ \/ S!Goes(p, [opener[p] EXCEPT !.pc = "rename"])
             \/ S!Goes(p, [opener[p] EXCEPT !.pc = "script"])
      BY <1>14 DEF S!PeekTable, S!At
    <2> QED  BY <1>2, <1>9, <1>10, <1>11, <2>1
  <1>15. CASE S!RenameTable(p)
    <2>1. opener[p].pc = "rename" /\ UNCHANGED <<ledger, odd, recorded, deaths>>
      BY <1>15 DEF S!RenameTable, S!At
    <2>2. CASE /\ legacy' = [legacy EXCEPT ![t] = table[t]]
               /\ table' = [table EXCEPT ![t] = S!NoTable]
               /\ S!Goes(p, [opener[p] EXCEPT !.pc = "create"])
      <3>1. legacy' \in [S!TableNames -> TableRows] /\ table' \in [S!TableNames -> TableRows]
        BY <1>2, <1>6, <1>12, <2>2
      <3> QED  BY <1>9, <1>10, <1>11, <2>1, <2>2, <3>1
    <2>3. CASE S!Goes(p, S!AtRest) /\ UNCHANGED <<table, legacy>>
      BY <1>2, <1>8, <2>1, <2>3
    <2> QED  BY <1>15, <2>2, <2>3 DEF S!RenameTable, S!Fails, t
  <1>16. S!Created(t) \in [S!TableNames -> TableRows]
    <2>1. [made |-> TRUE, wide |-> TRUE, rows |-> {}] \in TableRows
      BY DEF TableRows
    <2> QED  BY <1>2, <1>6, <2>1 DEF S!Created
  <1>17. CASE S!CreateReplacement(p)
    <2>1. /\ opener[p].pc = "create" /\ table' = S!Created(t)
          /\ S!Goes(p, [opener[p] EXCEPT !.pc = "copy"])
          /\ UNCHANGED <<ledger, odd, legacy, recorded, deaths>>
      BY <1>17 DEF S!CreateReplacement, S!At, t
    <2> QED  BY <1>2, <1>9, <1>10, <1>11, <1>16, <2>1
  <1>18. CASE S!CopyRows(p)
    <2>1. opener[p].pc = "copy" /\ UNCHANGED <<ledger, odd, recorded, deaths>>
      BY <1>18 DEF S!CopyRows, S!At
    <2>2. CASE /\ table' = [table EXCEPT ![t].rows = table[t].rows \cup legacy[t].rows]
               /\ legacy' = [legacy EXCEPT ![t] = S!NoTable]
               /\ S!Goes(p, [opener[p] EXCEPT !.pc = "script"])
      <3>1. legacy' \in [S!TableNames -> TableRows]
        BY <1>2, <1>6, <1>12, <2>2
      <3>2. table' \in [S!TableNames -> TableRows]
        <4>1. table[t] \in TableRows /\ legacy[t] \in TableRows
          BY <1>2, <1>6
        <4>2. [table[t] EXCEPT !.rows = table[t].rows \cup legacy[t].rows] \in TableRows
          BY <4>1 DEF TableRows
        <4>3. table' = [table EXCEPT ![t] = [table[t] EXCEPT !.rows = table[t].rows \cup legacy[t].rows]]
          BY <2>2
        <4> QED  BY <1>2, <1>6, <4>2, <4>3
      <3> QED  BY <1>9, <1>10, <1>11, <2>1, <2>2, <3>1, <3>2
    <2>3. CASE S!Goes(p, S!AtRest) /\ UNCHANGED <<table, legacy>>
      BY <1>2, <1>8, <2>1, <2>3
    <2> QED  BY <1>18, <2>2, <2>3 DEF S!CopyRows, S!Fails, t
  <1>19. CASE S!RunScript(p)
    <2>1. /\ opener[p].pc = "script" /\ table' = S!Created(t)
          /\ UNCHANGED <<ledger, odd, legacy, recorded, deaths>>
      BY <1>19 DEF S!RunScript, S!At, t
    <2>2. CASE S!Goes(p, [opener[p] EXCEPT !.pc = "columns"])
      BY <1>2, <1>9, <1>10, <1>11, <1>16, <2>1, <2>2
    <2>3. CASE /\ opener[p].at < Len(S!Tables)
               /\ S!Goes(p, [opener[p] EXCEPT !.pc = "peek", !.at = opener[p].at + 1])
      <3>1. opener[p].at + 1 \in 1..2
        BY <1>11, <2>3, SchemaBounds
      <3> QED  BY <1>2, <1>9, <1>16, <2>1, <2>3, <3>1
    <2> QED  BY <1>19, <2>2, <2>3 DEF S!RunScript
  <1>20. CASE S!AddColumn(p)
    <2>1. opener[p].pc = "columns" /\ UNCHANGED <<odd, table, legacy, recorded, deaths>>
      BY <1>20 DEF S!AddColumn, S!At
    <2>2. opener[p].seen \subseteq ledger.cols /\ ledger.cols \subseteq Columns /\ ledger.made
      BY <1>2, <1>7, <2>1 DEF S!Ledger
    <2>3. CASE /\ opener[p].seen = Columns /\ UNCHANGED ledger
               /\ S!Goes(p, [opener[p] EXCEPT !.pc = "status"])
      <3> DEFINE to == [opener[p] EXCEPT !.pc = "status"]
      <3>1. to \in Opening /\ to.pc = "status" /\ S!Goes(p, to) /\ ledger.cols = Columns
        BY <1>6, <2>2, <2>3 DEF Opening, OpenerPcs
      <3> HIDE DEF to
      <3> QED  BY <1>2, <2>1, <2>2, <2>3, <3>1, OpenerMoves
    <2>4. ASSUME NEW c \in Columns \ opener[p].seen,
                 ledger' = [ledger EXCEPT !.cols = @ \cup {c}],
                 S!Goes(p, [opener[p] EXCEPT !.seen = @ \cup {c}])
          PROVE  LedgerInvariant'
      <3> DEFINE to == [opener[p] EXCEPT !.seen = @ \cup {c}]
      <3>1. /\ to \in Opening /\ to.pc = "columns" /\ S!Goes(p, to)
            /\ to.seen = opener[p].seen \cup {c}
        BY <1>6, <2>1, <2>4 DEF Opening
      <3> HIDE DEF to
      <3>2. /\ ledger' \in S!Ledger /\ ledger'.made /\ ledger'.check = ledger.check
            /\ ledger'.cols = ledger.cols \cup {c}
        BY <1>2, <2>2, <2>4 DEF S!Ledger
      <3> QED  BY <2>1, <2>2, <3>1, <3>2, LedgerMoves
    <2> QED  BY <1>20, <2>3, <2>4 DEF S!AddColumn
  <1>21. CASE S!PeekStatus(p)
    <2>1. /\ opener[p].pc = "status"
          /\ UNCHANGED <<ledger, odd, table, legacy, recorded, deaths>>
      BY <1>21 DEF S!PeekStatus, S!At
    <2>2. ledger.cols = Columns /\ ledger.made
      BY <1>7, <2>1
    <2>3. CASE ledger.check /\ S!Goes(p, [opener[p] EXCEPT !.pc = "index"])
      <3> DEFINE to == [opener[p] EXCEPT !.pc = "index"]
      <3>1. to \in Opening /\ to.pc = "index" /\ S!Goes(p, to)
        BY <1>6, <2>3 DEF Opening, OpenerPcs
      <3> HIDE DEF to
      <3> QED  BY <1>2, <2>1, <2>2, <2>3, <3>1, OpenerMoves
    <2>4. CASE S!Goes(p, [opener[p] EXCEPT !.pc = "rebuild", !.seen = ledger.cols])
      <3> DEFINE to == [opener[p] EXCEPT !.pc = "rebuild", !.seen = ledger.cols]
      <3>1. to \in Opening /\ to.pc = "rebuild" /\ to.seen = Columns /\ S!Goes(p, to)
        BY <1>6, <2>2, <2>4 DEF Opening, OpenerPcs
      <3> HIDE DEF to
      <3> QED  BY <1>2, <2>1, <2>2, <2>4, <3>1, OpenerMoves
    <2> QED  BY <1>21, <2>3, <2>4 DEF S!PeekStatus
  <1>22. CASE S!RebuildRuns(p)
    <2>1. opener[p].pc = "rebuild" /\ UNCHANGED <<odd, table, legacy, recorded, deaths>>
      BY <1>22 DEF S!RebuildRuns, S!At
    <2>2. ledger.cols = Columns /\ ledger.made /\ opener[p].seen = Columns
      BY <1>7, <2>1
    <2>3. CASE /\ ledger' = [ledger EXCEPT !.cols = opener[p].seen, !.check = TRUE, !.index = FALSE]
               /\ S!Goes(p, [opener[p] EXCEPT !.pc = "index"])
      <3> DEFINE to == [opener[p] EXCEPT !.pc = "index"]
      <3>1. to \in Opening /\ to.pc = "index" /\ S!Goes(p, to)
        BY <1>6, <2>3 DEF Opening, OpenerPcs
      <3> HIDE DEF to
      <3>2. ledger' \in S!Ledger /\ ledger'.made /\ ledger'.check /\ ledger'.cols = Columns
        BY <1>2, <2>2, <2>3 DEF S!Ledger
      <3> QED  BY <2>1, <2>2, <3>1, <3>2, LedgerMoves
    <2>4. CASE S!Goes(p, S!AtRest) /\ UNCHANGED ledger
      BY <1>2, <1>8, <2>1, <2>4
    <2> QED  BY <1>22, <2>3, <2>4 DEF S!RebuildRuns, S!Fails
  <1>23. CASE S!CreateIndex(p) \/ S!CreateRun(p)
    <2>1. /\ opener[p].pc \in {"index", "use"}
          /\ UNCHANGED <<odd, table, legacy, recorded, deaths>>
      BY <1>23 DEF S!CreateIndex, S!CreateRun, S!At
    <2>2. /\ ledger' \in S!Ledger
          /\ ledger'.made /\ ledger'.check /\ ledger'.cols = ledger.cols /\ ledger.cols = Columns
      <3>1. CASE S!CreateIndex(p)
        BY <1>2, <1>7, <2>1, <3>1 DEF S!CreateIndex, S!Ledger
      <3>2. CASE S!CreateRun(p)
        BY <1>2, <1>7, <2>1, <3>2 DEF S!CreateRun, S!Ledger
      <3> QED  BY <1>23, <3>1, <3>2
    <2>3. CASE S!CreateIndex(p)
      <3> DEFINE to == [opener[p] EXCEPT !.pc = "use"]
      <3>1. to \in Opening /\ to.pc = "use" /\ S!Goes(p, to)
        BY <1>6, <2>3 DEF Opening, OpenerPcs, S!CreateIndex
      <3> HIDE DEF to
      <3> QED  BY <2>1, <2>2, <3>1, LedgerMoves
    <2>4. CASE S!CreateRun(p)
      <3>1. S!Goes(p, S!AtRest)
        BY <2>4 DEF S!CreateRun
      <3> QED  BY <1>4, <2>1, <2>2, <3>1, LedgerMoves
    <2> QED  BY <1>23, <2>3, <2>4
  <1>24. CASE S!RecordRow(p)
    <2>1. S!Goes(p, S!AtRest) /\ UNCHANGED <<ledger, odd, legacy, deaths>>
      BY <1>24 DEF S!RecordRow
    <2>2. PICK u \in S!TableNames, r \in ledger.rows :
             \/ /\ table' = [table EXCEPT ![u].rows = table[u].rows \cup {r}]
                /\ recorded' = [recorded EXCEPT ![u] = recorded[u] \cup {r}]
             \/ UNCHANGED <<table, recorded>>
      BY <1>24 DEF S!RecordRow
    <2>3. r \in Runs /\ table[u] \in TableRows
      BY <1>2, <2>2 DEF S!Ledger
    <2>4. CASE /\ table' = [table EXCEPT ![u].rows = table[u].rows \cup {r}]
               /\ recorded' = [recorded EXCEPT ![u] = recorded[u] \cup {r}]
      <3>1. [table[u] EXCEPT !.rows = table[u].rows \cup {r}] \in TableRows
        BY <2>3 DEF TableRows
      <3>2. table' = [table EXCEPT ![u] = [table[u] EXCEPT !.rows = table[u].rows \cup {r}]]
        BY <2>4
      <3>3. table' \in [S!TableNames -> TableRows]
        BY <1>2, <3>1, <3>2
      <3>4. recorded' \in [S!TableNames -> SUBSET Runs]
        BY <1>2, <2>3, <2>4
      <3> QED  BY <1>2, <1>8, <2>1, <3>3, <3>4
    <2>5. CASE UNCHANGED <<table, recorded>>
      BY <1>2, <1>8, <2>1, <2>5
    <2> QED  BY <2>2, <2>4, <2>5
  <1>25. CASE S!OpenerDies(p)
    <2>1. /\ S!Goes(p, S!AtRest) /\ deaths' = deaths + 1 /\ deaths < MaxDeaths
          /\ UNCHANGED <<ledger, odd, table, legacy, recorded>>
      BY <1>25 DEF S!OpenerDies
    <2>2. deaths' \in 0..MaxDeaths
      BY <1>2, <2>1, SchemaBounds
    <2> QED  BY <1>2, <1>8, <2>1, <2>2
  <1> QED  BY <1>5, <1>13, <1>14, <1>15, <1>17, <1>18, <1>19, <1>20, <1>21, <1>22, <1>23, <1>24, <1>25

-----------------------------------------------------------------------------
(* The rows of the rebuilt tables: a table that is not there has none, and    *)
(* whatever was recorded is in the table or in its predecessor.               *)

RowsStand ==
    /\ S!NoRowIsDestroyed
    /\ \A t \in S!TableNames :
          (~table[t].made => table[t].rows = {}) /\ (~legacy[t].made => legacy[t].rows = {})

LEMMA RowsSteps ==
    ASSUME LedgerInvariant, RowsStand, S!SchemaNext PROVE RowsStand'
  <1>1. /\ table \in [S!TableNames -> TableRows] /\ legacy \in [S!TableNames -> TableRows]
        /\ recorded \in [S!TableNames -> SUBSET Runs]
    BY DEF LedgerInvariant, SchemaTypes
  <1>2. PICK p \in Openers :
            \/ S!CreateTables(p) \/ S!PeekTable(p) \/ S!RenameTable(p) \/ S!CreateReplacement(p)
            \/ S!CopyRows(p) \/ S!RunScript(p) \/ S!AddColumn(p) \/ S!PeekStatus(p)
            \/ S!RebuildRuns(p) \/ S!CreateIndex(p) \/ S!CreateRun(p) \/ S!RecordRow(p)
            \/ S!OpenerDies(p)
    BY DEF S!SchemaNext
  <1> DEFINE t == S!T(p)
  <1>3. t \in S!TableNames
    BY SchemaBounds DEF LedgerInvariant, SchemaTypes, S!T
  <1> HIDE DEF t
  <1>4. CASE UNCHANGED <<table, legacy, recorded>>
    BY <1>4 DEF RowsStand, S!NoRowIsDestroyed
  <1>5. CASE S!RenameTable(p) /\ ~UNCHANGED <<table, legacy>>
    <2>1. /\ table[t].made /\ ~legacy[t].made /\ UNCHANGED recorded
          /\ legacy' = [legacy EXCEPT ![t] = table[t]]
          /\ table' = [table EXCEPT ![t] = S!NoTable]
      BY <1>5 DEF S!RenameTable, t
    <2>2. legacy'[t] = table[t] /\ table'[t] = S!NoTable
      BY <1>1, <1>3, <2>1
    <2>3. ASSUME NEW u \in S!TableNames, u # t
          PROVE  legacy'[u] = legacy[u] /\ table'[u] = table[u]
      BY <1>1, <2>1, <2>3
    <2> QED  BY <1>1, <1>3, <2>1, <2>2, <2>3 DEF RowsStand, S!NoRowIsDestroyed, S!NoTable
  <1>6. CASE table' = S!Created(t) /\ UNCHANGED <<legacy, recorded>>
    <2>1. ASSUME NEW u \in S!TableNames
          PROVE  /\ table[u].made => table'[u] = table[u]
                 /\ ~table[u].made => table'[u].rows = {}
      BY <1>1, <1>3, <1>6, <2>1 DEF S!Created, RowsStand
    <2>2. ASSUME NEW u \in S!TableNames PROVE table'[u].rows = table[u].rows
      BY <2>1 DEF RowsStand
    <2> QED  BY <1>6, <2>1, <2>2 DEF RowsStand, S!NoRowIsDestroyed
  <1>7. CASE S!CopyRows(p) /\ ~UNCHANGED <<table, legacy>>
    <2>1. /\ table[t].made /\ UNCHANGED recorded
          /\ table' = [table EXCEPT ![t].rows = table[t].rows \cup legacy[t].rows]
          /\ legacy' = [legacy EXCEPT ![t] = S!NoTable]
      BY <1>7 DEF S!CopyRows, t
    <2>2. /\ legacy'[t] = S!NoTable /\ table'[t].made
          /\ table'[t].rows = table[t].rows \cup legacy[t].rows
      BY <1>1, <1>3, <2>1 DEF TableRows
    <2>3. ASSUME NEW u \in S!TableNames, u # t
          PROVE  legacy'[u] = legacy[u] /\ table'[u] = table[u]
      BY <1>1, <2>1, <2>3
    <2> QED  BY <1>1, <1>3, <2>1, <2>2, <2>3 DEF RowsStand, S!NoRowIsDestroyed, S!NoTable
  <1>8. CASE S!RecordRow(p) /\ ~UNCHANGED <<table, recorded>>
    <2>1. PICK u \in S!TableNames, r \in ledger.rows :
             /\ table[u].made
             /\ table' = [table EXCEPT ![u].rows = table[u].rows \cup {r}]
             /\ recorded' = [recorded EXCEPT ![u] = recorded[u] \cup {r}]
      BY <1>8 DEF S!RecordRow
    <2>2. UNCHANGED legacy
      BY <1>8 DEF S!RecordRow
    <2>3. /\ table'[u].made /\ table'[u].rows = table[u].rows \cup {r}
          /\ recorded'[u] = recorded[u] \cup {r}
      BY <1>1, <2>1 DEF TableRows
    <2>4. ASSUME NEW v \in S!TableNames, v # u
          PROVE  recorded'[v] = recorded[v] /\ table'[v] = table[v]
      BY <1>1, <2>1, <2>4
    <2> QED  BY <1>1, <2>1, <2>2, <2>3, <2>4 DEF RowsStand, S!NoRowIsDestroyed
  <1>9. \/ UNCHANGED <<table, legacy, recorded>>
        \/ table' = S!Created(t) /\ UNCHANGED <<legacy, recorded>>
        \/ S!RenameTable(p) \/ S!CopyRows(p) \/ S!RecordRow(p)
    BY <1>2 DEF S!CreateTables, S!PeekTable, S!CreateReplacement, S!RunScript, S!AddColumn,
                S!PeekStatus, S!RebuildRuns, S!CreateIndex, S!CreateRun, S!OpenerDies, t
  <1>10. S!RenameTable(p) \/ S!CopyRows(p) => UNCHANGED recorded
    BY DEF S!RenameTable, S!CopyRows
  <1>11. S!RecordRow(p) => UNCHANGED legacy
    BY DEF S!RecordRow
  <1> QED  BY <1>4, <1>5, <1>6, <1>7, <1>8, <1>9, <1>10, <1>11

-----------------------------------------------------------------------------
(* What an opener has behind it: a table whose script it has run is of the    *)
(* new form, and there unless a rebuild took it away; the index stands unless *)
(* a rebuild of runs dropped it.                                              *)

Late == {"columns", "status", "rebuild", "index", "use"}
Behind(p, t) ==
    \/ opener[p].pc \in Late
    \/ opener[p].pc # "idle" /\ \E i \in 1..2 : i < opener[p].at /\ S!Tables[i] = t
Rewritten(p, t) == opener[p].pc \in {"create", "copy", "script"} /\ S!T(p) = t

TablesStand ==
    \A p \in Openers, t \in S!TableNames :
        /\ Behind(p, t) \/ Rewritten(p, t) => (table[t].made => table[t].wide)
        /\ Behind(p, t) => table[t].made \/ S!Renaming(t)

IndexStands == \A p \in Openers : opener[p].pc = "use" => ledger.index \/ S!Indexing

SchemaInvariant == LedgerInvariant /\ RowsStand /\ TablesStand /\ IndexStands

\* What one opener's step does to what it, and what the others, have behind them.
LEMMA OtherOpeners ==
    ASSUME LedgerInvariant, NEW p \in Openers, NEW to \in Opening, S!Goes(p, to)
    PROVE  /\ opener'[p] = to
           /\ \A q \in Openers \ {p}, t \in S!TableNames :
                 /\ opener'[q] = opener[q] /\ S!T(q)' = S!T(q)
                 /\ Behind(q, t)' = Behind(q, t) /\ Rewritten(q, t)' = Rewritten(q, t)
  <1>1. opener'[p] = to /\ \A q \in Openers \ {p} : opener'[q] = opener[q]
    BY DEF LedgerInvariant, SchemaTypes, S!Goes
  <1> QED  BY <1>1 DEF Behind, Rewritten, S!T

LEMMA IndexSteps ==
    ASSUME LedgerInvariant, IndexStands, S!SchemaNext PROVE IndexStands'
  <1>1. PICK p \in Openers :
            \/ S!CreateTables(p) \/ S!PeekTable(p) \/ S!RenameTable(p) \/ S!CreateReplacement(p)
            \/ S!CopyRows(p) \/ S!RunScript(p) \/ S!AddColumn(p) \/ S!PeekStatus(p)
            \/ S!RebuildRuns(p) \/ S!CreateIndex(p) \/ S!CreateRun(p) \/ S!RecordRow(p)
            \/ S!OpenerDies(p)
    BY DEF S!SchemaNext
  <1>2. opener \in [Openers -> Opening] /\ ledger \in S!Ledger /\ deaths \in Nat
    BY SchemaBounds DEF LedgerInvariant, SchemaTypes, Opening
  \* A step that leaves the index alone, of an opener that was not about to create it.
  <1>3. ASSUME NEW to \in Opening, S!Goes(p, to), to.pc # "use", opener[p].pc # "index",
               ledger'.index = ledger.index, deaths' = deaths
        PROVE  IndexStands'
    <2>1. opener'[p] = to /\ \A q \in Openers \ {p} : opener'[q] = opener[q]
      BY <1>2, <1>3 DEF S!Goes
    <2> SUFFICES ASSUME NEW q \in Openers, opener'[q].pc = "use", ~ledger'.index
                 PROVE  S!Indexing'
      BY DEF IndexStands
    <2>2. opener[q].pc = "use" /\ ~ledger.index
      BY <1>3, <2>1
    <2>3. deaths > 0 \/ \E x \in Openers : opener[x].pc = "index"
      BY <2>2 DEF IndexStands, S!Indexing, S!At
    <2>4. ASSUME NEW x \in Openers, opener[x].pc = "index" PROVE opener'[x].pc = "index"
      BY <1>3, <2>1, <2>4
    <2> QED  BY <1>3, <2>3, <2>4 DEF S!Indexing, S!At
  <1>4. opener[p] \in Opening /\ S!AtRest \in Opening /\ S!AtRest.pc = "idle"
    BY <1>2 DEF S!AtRest, Opening, OpenerPcs
  <1>5. CASE S!CreateTables(p)
    <2>1. CASE ledger.made
      <3> DEFINE to == [pc |-> "peek", at |-> 1, seen |-> ledger'.cols]
      <3>1. S!Goes(p, to) /\ opener[p].pc = "idle" /\ ledger' = ledger /\ deaths' = deaths
        BY <1>5, <2>1 DEF S!CreateTables, S!At
      <3>2. to \in Opening /\ to.pc = "peek"
        BY <1>2, <3>1 DEF Opening, OpenerPcs, S!Ledger
      <3> HIDE DEF to
      <3> QED  BY <1>3, <3>1, <3>2
    <2>2. CASE ~ledger.made
      <3>1. \A q \in Openers : opener[q].pc = "idle"
        BY <2>2 DEF LedgerInvariant, SeenIsThere
      <3>2. \A q \in Openers : opener'[q].pc # "use"
        BY <1>2, <1>5, <3>1 DEF S!CreateTables, S!Goes
      <3> QED  BY <3>2 DEF IndexStands
    <2> QED  BY <2>1, <2>2
  <1>6. CASE S!OpenerDies(p)
    <2>1. deaths' > 0
      BY <1>2, <1>6 DEF S!OpenerDies
    <2> QED  BY <2>1 DEF IndexStands, S!Indexing
  <1>7. CASE S!CreateIndex(p)
    <2>1. ledger'.index
      BY <1>2, <1>7 DEF S!CreateIndex, S!Ledger
    <2> QED  BY <2>1 DEF IndexStands
  <1>8. CASE S!RebuildRuns(p)
    <2>1. CASE S!Goes(p, [opener[p] EXCEPT !.pc = "index"])
      <3>1. opener'[p].pc = "index"
        BY <1>2, <2>1 DEF S!Goes, Opening
      <3> QED  BY <3>1 DEF IndexStands, S!Indexing, S!At
    <2>2. CASE S!Goes(p, S!AtRest) /\ UNCHANGED ledger
      <3>1. opener[p].pc = "rebuild" /\ deaths' = deaths
        BY <1>8 DEF S!RebuildRuns, S!At
      <3> QED  BY <1>3, <1>4, <2>2, <3>1
    <2> QED  BY <1>8, <2>1, <2>2 DEF S!RebuildRuns, S!Fails
  <1>9. CASE S!AddColumn(p)
    <2>1. opener[p].pc = "columns" /\ deaths' = deaths
      BY <1>9 DEF S!AddColumn, S!At
    <2>2. CASE S!Goes(p, [opener[p] EXCEPT !.pc = "status"]) /\ UNCHANGED ledger
      <3> DEFINE to == [opener[p] EXCEPT !.pc = "status"]
      <3>1. to \in Opening /\ to.pc = "status" /\ S!Goes(p, to)
        BY <1>4, <2>2 DEF Opening, OpenerPcs
      <3> HIDE DEF to
      <3> QED  BY <1>3, <2>1, <2>2, <3>1
    <2>3. ASSUME NEW c \in Columns \ opener[p].seen,
                 ledger' = [ledger EXCEPT !.cols = @ \cup {c}],
                 S!Goes(p, [opener[p] EXCEPT !.seen = @ \cup {c}])
          PROVE  IndexStands'
      <3> DEFINE to == [opener[p] EXCEPT !.seen = @ \cup {c}]
      <3>1. to \in Opening /\ to.pc = "columns" /\ S!Goes(p, to)
        BY <1>4, <2>1, <2>3 DEF Opening
      <3>2. ledger'.index = ledger.index
        BY <1>2, <2>3 DEF S!Ledger
      <3> HIDE DEF to
      <3> QED  BY <1>3, <2>1, <3>1, <3>2
    <2> QED  BY <1>9, <2>2, <2>3 DEF S!AddColumn
  <1>10. CASE S!CreateRun(p) \/ S!RecordRow(p)
    <2>1. /\ opener[p].pc = "use" /\ deaths' = deaths /\ S!Goes(p, S!AtRest)
          /\ ledger'.index = ledger.index
      BY <1>2, <1>10 DEF S!CreateRun, S!RecordRow, S!At, S!Ledger
    <2> QED  BY <1>3, <1>4, <2>1
  <1>11. CASE \/ S!PeekTable(p) \/ S!RenameTable(p) \/ S!CreateReplacement(p)
              \/ S!CopyRows(p) \/ S!RunScript(p) \/ S!PeekStatus(p)
    <2>1. UNCHANGED ledger /\ deaths' = deaths
      BY <1>11 DEF S!PeekTable, S!RenameTable, S!CreateReplacement, S!CopyRows, S!RunScript,
                   S!PeekStatus
    <2>2. opener[p].pc # "index"
      BY <1>11 DEF S!PeekTable, S!RenameTable, S!CreateReplacement, S!CopyRows, S!RunScript,
                   S!PeekStatus, S!At
    \* Where the step goes: onward within the migration, to the other table, or home.
    <2>3. \/ \E pc \in OpenerPcs \ {"use"} : S!Goes(p, [opener[p] EXCEPT !.pc = pc])
          \/ /\ opener[p].at < Len(S!Tables)
             /\ S!Goes(p, [opener[p] EXCEPT !.pc = "peek", !.at = @ + 1])
          \/ S!Goes(p, [opener[p] EXCEPT !.pc = "rebuild", !.seen = ledger.cols])
          \/ S!Goes(p, S!AtRest)
      <3>1. {"rename", "create", "copy", "script", "columns", "index"} \subseteq OpenerPcs \ {"use"}
        BY DEF OpenerPcs
      <3> QED  BY <1>11, <3>1
                  DEF S!PeekTable, S!RenameTable, S!CreateReplacement, S!CopyRows, S!RunScript,
                      S!PeekStatus, S!Fails
    <2>4. ASSUME NEW pc \in OpenerPcs \ {"use"}, S!Goes(p, [opener[p] EXCEPT !.pc = pc])
          PROVE  IndexStands'
      <3> DEFINE to == [opener[p] EXCEPT !.pc = pc]
      <3>1. to \in Opening /\ to.pc = pc /\ S!Goes(p, to)
        BY <1>4, <2>4 DEF Opening
      <3> HIDE DEF to
      <3> QED  BY <1>3, <2>1, <2>2, <2>4, <3>1
    <2>5. ASSUME opener[p].at < Len(S!Tables),
                 S!Goes(p, [opener[p] EXCEPT !.pc = "peek", !.at = @ + 1])
          PROVE  IndexStands'
      <3> DEFINE to == [opener[p] EXCEPT !.pc = "peek", !.at = @ + 1]
      <3>1. opener[p].at + 1 \in 1..2
        BY <1>4, <2>5, SchemaBounds DEF Opening
      <3>2. to \in Opening /\ to.pc = "peek" /\ S!Goes(p, to)
        BY <1>4, <2>5, <3>1 DEF Opening, OpenerPcs
      <3> HIDE DEF to
      <3> QED  BY <1>3, <2>1, <2>2, <3>2
    <2>6. ASSUME S!Goes(p, [opener[p] EXCEPT !.pc = "rebuild", !.seen = ledger.cols])
          PROVE  IndexStands'
      <3> DEFINE to == [opener[p] EXCEPT !.pc = "rebuild", !.seen = ledger.cols]
      <3>1. to \in Opening /\ to.pc = "rebuild" /\ S!Goes(p, to)
        BY <1>2, <1>4, <2>6 DEF Opening, OpenerPcs, S!Ledger
      <3> HIDE DEF to
      <3> QED  BY <1>3, <2>1, <2>2, <3>1
    <2> QED  BY <1>3, <1>4, <2>1, <2>2, <2>3, <2>4, <2>5, <2>6
  <1> QED  BY <1>1, <1>5, <1>6, <1>7, <1>8, <1>9, <1>10, <1>11

\* A step that makes no table narrow and takes none away unannounced.
LEMMA TablesKeep ==
    ASSUME LedgerInvariant, TablesStand, NEW p \in Openers, NEW to \in Opening, S!Goes(p, to),
           \A u \in S!TableNames :
              /\ (table[u].made => table[u].wide) => (table'[u].made => table'[u].wide)
              /\ table[u].made \/ S!Renaming(u) => table'[u].made \/ S!Renaming(u)'
              /\ Behind(p, u)' \/ Rewritten(p, u)' => (table'[u].made => table'[u].wide)
              /\ Behind(p, u)' => table'[u].made \/ S!Renaming(u)'
    PROVE  TablesStand'
  <1>1. ASSUME NEW q \in Openers, q # p, NEW u \in S!TableNames
        PROVE  Behind(q, u)' = Behind(q, u) /\ Rewritten(q, u)' = Rewritten(q, u)
    BY <1>1, OtherOpeners
  <1> QED  BY <1>1 DEF TablesStand

\* Nobody but the opener at work changes what is being renamed.
LEMMA RenamingKeeps ==
    ASSUME LedgerInvariant, NEW p \in Openers, NEW to \in Opening, S!Goes(p, to),
           deaths' = deaths, NEW u \in S!TableNames, S!Renaming(u),
           ~(opener[p].pc = "create" /\ S!T(p) = u)
    PROVE  S!Renaming(u)'
  <1>1. CASE deaths > 0
    BY <1>1 DEF S!Renaming
  <1>2. ASSUME NEW q \in Openers, S!At(q, "create"), S!T(q) = u PROVE S!Renaming(u)'
    <2>1. q # p /\ opener'[q] = opener[q] /\ S!T(q)' = S!T(q)
      BY <1>2, OtherOpeners DEF S!At
    <2> QED  BY <1>2, <2>1 DEF S!Renaming, S!At
  <1> QED  BY <1>1, <1>2 DEF S!Renaming

LEMMA TablesSteps ==
    ASSUME LedgerInvariant, TablesStand, S!SchemaNext PROVE TablesStand'
  <1>1. PICK p \in Openers :
            \/ S!CreateTables(p) \/ S!PeekTable(p) \/ S!RenameTable(p) \/ S!CreateReplacement(p)
            \/ S!CopyRows(p) \/ S!RunScript(p) \/ S!AddColumn(p) \/ S!PeekStatus(p)
            \/ S!RebuildRuns(p) \/ S!CreateIndex(p) \/ S!CreateRun(p) \/ S!RecordRow(p)
            \/ S!OpenerDies(p)
    BY DEF S!SchemaNext
  <1>2. /\ opener \in [Openers -> Opening] /\ ledger \in S!Ledger /\ deaths \in Nat
        /\ table \in [S!TableNames -> TableRows]
    BY SchemaBounds DEF LedgerInvariant, SchemaTypes, Opening
  <1>3. S!T(p) \in S!TableNames
    BY <1>2, SchemaBounds DEF Opening, S!T
  <1>4. PICK t \in S!TableNames : t = S!T(p)
    BY <1>3
  <1>5. /\ opener[p] \in Opening /\ t \in S!TableNames
        /\ S!AtRest \in Opening /\ S!AtRest.pc = "idle"
    BY <1>2 DEF S!AtRest, Opening, OpenerPcs
  \* Of a step that leaves the tables as they are, only what it has behind it matters.
  <1>6. ASSUME NEW to \in Opening, S!Goes(p, to), UNCHANGED table, deaths' = deaths,
               opener[p].pc # "create",
               \A u \in S!TableNames : Behind(p, u)' => Behind(p, u),
               \A u \in S!TableNames :
                  Rewritten(p, u)' => Rewritten(p, u) \/ (table[u].made => table[u].wide)
        PROVE  TablesStand'
    <2>1. \A u \in S!TableNames : S!Renaming(u) => S!Renaming(u)'
      BY <1>6, RenamingKeeps
    <2> QED  BY <1>6, <2>1, TablesKeep DEF TablesStand
  <1>7. ASSUME S!Goes(p, S!AtRest)
        PROVE  \A u \in S!TableNames : ~Behind(p, u)' /\ ~Rewritten(p, u)'
    <2>1. opener'[p].pc = "idle"
      BY <1>5, <1>7, OtherOpeners
    <2> QED  BY <2>1 DEF Behind, Rewritten, Late
  \* The same for an opener that gives up, or is done.
  <1>8. ASSUME S!Goes(p, S!AtRest), deaths' = deaths, opener[p].pc # "create",
               \A u \in S!TableNames :
                  table'[u].made = table[u].made /\ table'[u].wide = table[u].wide
        PROVE  TablesStand'
    <2>1. \A u \in S!TableNames : S!Renaming(u) => S!Renaming(u)'
      BY <1>5, <1>8, RenamingKeeps
    <2> QED  BY <1>5, <1>7, <1>8, <2>1, TablesKeep
  <1>9. CASE S!CreateTables(p)
    <2> DEFINE to == [pc |-> "peek", at |-> 1, seen |-> ledger'.cols]
    <2>1. S!Goes(p, to) /\ opener[p].pc = "idle" /\ UNCHANGED table /\ deaths' = deaths
      BY <1>9 DEF S!CreateTables, S!At
    <2>2. ledger'.cols \subseteq Columns
      BY <1>2, <1>9 DEF S!CreateTables, S!Ledger, S!NoLedger
    <2>3. to \in Opening /\ to.pc = "peek" /\ to.at = 1
      BY <2>2 DEF Opening, OpenerPcs
    <2> HIDE DEF to
    <2>4. opener'[p].pc = "peek" /\ opener'[p].at = 1
      BY <2>1, <2>3, OtherOpeners
    <2>5. \A u \in S!TableNames : ~Behind(p, u)' /\ ~Rewritten(p, u)'
      BY <2>4 DEF Behind, Rewritten, Late
    <2> QED  BY <1>6, <2>1, <2>3, <2>5
  <1>10. CASE S!PeekTable(p)
    <2>1. /\ opener[p].pc = "peek" /\ UNCHANGED table /\ deaths' = deaths
          /\ \/ S!Goes(p, [opener[p] EXCEPT !.pc = "rename"])
             \/ S!Goes(p, [opener[p] EXCEPT !.pc = "script"]) /\ (table[t].made => table[t].wide)
      BY <1>10, <1>4 DEF S!PeekTable, S!At
    <2>2. PICK pc \in {"rename", "script"} :
             /\ S!Goes(p, [opener[p] EXCEPT !.pc = pc])
             /\ pc = "script" => (table[t].made => table[t].wide)
      BY <2>1
    <2> DEFINE to == [opener[p] EXCEPT !.pc = pc]
    <2>3. to \in Opening /\ to.pc = pc /\ to.at = opener[p].at /\ S!Goes(p, to)
      BY <1>5, <2>2 DEF Opening, OpenerPcs
    <2> HIDE DEF to
    <2>4. opener'[p].pc = pc /\ opener'[p].at = opener[p].at /\ S!T(p)' = t
      BY <2>3, OtherOpeners, <1>4 DEF S!T
    <2>5. \A u \in S!TableNames : Behind(p, u)' => Behind(p, u)
      BY <2>1, <2>2, <2>4 DEF Behind, Late
    <2>6. \A u \in S!TableNames : Rewritten(p, u)' => (table[u].made => table[u].wide)
      BY <2>2, <2>4 DEF Rewritten
    <2> QED  BY <1>6, <2>1, <2>3, <2>5, <2>6
  <1>11. CASE S!RenameTable(p)
    <2>1. opener[p].pc = "rename" /\ deaths' = deaths
      BY <1>11 DEF S!RenameTable, S!At
    <2>2. CASE S!Goes(p, S!AtRest) /\ UNCHANGED table
      BY <1>8, <2>1, <2>2
    <2>3. CASE /\ table' = [table EXCEPT ![t] = S!NoTable]
               /\ S!Goes(p, [opener[p] EXCEPT !.pc = "create"])
      <3> DEFINE to == [opener[p] EXCEPT !.pc = "create"]
      <3>1. to \in Opening /\ to.pc = "create" /\ to.at = opener[p].at /\ S!Goes(p, to)
        BY <1>5, <2>3 DEF Opening, OpenerPcs
      <3> HIDE DEF to
      <3>2. opener'[p].pc = "create" /\ opener'[p].at = opener[p].at /\ S!T(p)' = t
        BY <3>1, OtherOpeners, <1>4 DEF S!T
      <3>3. ~table'[t].made /\ S!Renaming(t)'
        BY <1>2, <1>5, <2>3, <3>2 DEF S!NoTable, S!Renaming, S!At
      <3>4. ASSUME NEW u \in S!TableNames, u # t
            PROVE  table'[u] = table[u] /\ (S!Renaming(u) => S!Renaming(u)')
        BY <1>2, <2>1, <2>3, <3>1, <3>4, RenamingKeeps
      <3>5. ASSUME NEW u \in S!TableNames, Behind(p, u)' PROVE Behind(p, u)
        BY <2>1, <3>2, <3>5 DEF Behind, Late
      <3>6. ASSUME NEW u \in S!TableNames, Rewritten(p, u)' PROVE u = t
        BY <3>2, <3>6 DEF Rewritten
      <3> QED  BY <3>1, <3>3, <3>4, <3>5, <3>6, TablesKeep DEF TablesStand
    <2> QED  BY <1>11, <2>2, <2>3, <1>4 DEF S!RenameTable, S!Fails
  \* CREATE TABLE IF NOT EXISTS: of the new form where it was this opener's to make.
  <1>12. /\ S!Created(t)[t].made
         /\ (table[t].made => table[t].wide) => S!Created(t)[t].wide
         /\ \A u \in S!TableNames \ {t} : S!Created(t)[u] = table[u]
    BY <1>2, <1>5 DEF S!Created
  <1>13. CASE S!CreateReplacement(p)
    <2> DEFINE to == [opener[p] EXCEPT !.pc = "copy"]
    <2>1. /\ opener[p].pc = "create" /\ table' = S!Created(t) /\ deaths' = deaths
          /\ S!Goes(p, to)
      BY <1>13, <1>4 DEF S!CreateReplacement, S!At
    <2>2. to \in Opening /\ to.pc = "copy" /\ to.at = opener[p].at
      BY <1>5 DEF Opening, OpenerPcs
    <2> HIDE DEF to
    <2>3. opener'[p].pc = "copy" /\ opener'[p].at = opener[p].at /\ S!T(p)' = t
      BY <2>1, <2>2, OtherOpeners, <1>4 DEF S!T
    <2>4. table[t].made => table[t].wide
      BY <1>5, <2>1, <1>4 DEF TablesStand, Rewritten
    <2>5. ASSUME NEW u \in S!TableNames, u # t PROVE S!Renaming(u) => S!Renaming(u)'
      BY <2>1, <2>2, <2>5, RenamingKeeps, <1>4
    <2>6. \A u \in S!TableNames : Behind(p, u)' => Behind(p, u)
      BY <2>1, <2>3 DEF Behind, Late
    <2>7. \A u \in S!TableNames : Rewritten(p, u)' => u = t
      BY <2>3 DEF Rewritten
    <2> QED  BY <1>12, <2>1, <2>2, <2>4, <2>5, <2>6, <2>7, TablesKeep DEF TablesStand
  <1>14. CASE S!CopyRows(p)
    <2>1. opener[p].pc = "copy" /\ deaths' = deaths
      BY <1>14 DEF S!CopyRows, S!At
    <2>2. CASE S!Goes(p, S!AtRest) /\ UNCHANGED table
      BY <1>8, <2>1, <2>2
    <2>3. CASE /\ table' = [table EXCEPT ![t].rows = table[t].rows \cup legacy[t].rows]
               /\ S!Goes(p, [opener[p] EXCEPT !.pc = "script"])
      <3> DEFINE to == [opener[p] EXCEPT !.pc = "script"]
      <3>1. to \in Opening /\ to.pc = "script" /\ to.at = opener[p].at /\ S!Goes(p, to)
        BY <1>5, <2>3 DEF Opening, OpenerPcs
      <3> HIDE DEF to
      <3>2. opener'[p].pc = "script" /\ opener'[p].at = opener[p].at /\ S!T(p)' = t
        BY <3>1, OtherOpeners, <1>4 DEF S!T
      <3>3. \A u \in S!TableNames :
               table'[u].made = table[u].made /\ table'[u].wide = table[u].wide
        BY <1>2, <2>3 DEF TableRows
      <3>4. \A u \in S!TableNames : S!Renaming(u) => S!Renaming(u)'
        BY <2>1, <3>1, RenamingKeeps
      <3>5. \A u \in S!TableNames : Behind(p, u)' => Behind(p, u)
        BY <2>1, <3>2 DEF Behind, Late
      <3>6. \A u \in S!TableNames : Rewritten(p, u)' => Rewritten(p, u)
        BY <2>1, <3>2, <1>4 DEF Rewritten
      <3> QED  BY <3>1, <3>3, <3>4, <3>5, <3>6, TablesKeep DEF TablesStand
    <2> QED  BY <1>14, <2>2, <2>3, <1>4 DEF S!CopyRows, S!Fails
  <1>15. CASE S!RunScript(p)
    <2>1. opener[p].pc = "script" /\ table' = S!Created(t) /\ deaths' = deaths
      BY <1>15, <1>4 DEF S!RunScript, S!At
    <2>2. table[t].made => table[t].wide
      BY <1>5, <2>1, <1>4 DEF TablesStand, Rewritten
    <2>3. \/ /\ opener[p].at = 1
             /\ S!Goes(p, [opener[p] EXCEPT !.pc = "peek", !.at = 2])
          \/ /\ opener[p].at = 2
             /\ S!Goes(p, [opener[p] EXCEPT !.pc = "columns", !.at = 2])
      <3>1. opener[p].at \in 1..2 /\ Len(S!Tables) = 2
        BY <1>5, SchemaBounds DEF Opening
      <3>2. CASE opener[p].at = 1
        <4>1. S!Goes(p, [opener[p] EXCEPT !.pc = "peek", !.at = opener[p].at + 1])
          BY <1>15, <3>1, <3>2 DEF S!RunScript
        <4> QED  BY <3>2, <4>1
      <3>3. CASE opener[p].at = 2
        <4>1. S!Goes(p, [opener[p] EXCEPT !.pc = "columns"])
          BY <1>15, <3>1, <3>3 DEF S!RunScript
        <4>2. [opener[p] EXCEPT !.pc = "columns"] = [opener[p] EXCEPT !.pc = "columns", !.at = 2]
          BY <1>5, <3>3 DEF Opening
        <4> QED  BY <3>3, <4>1, <4>2
      <3> QED  BY <3>1, <3>2, <3>3
    <2>4. PICK pc \in {"peek", "columns"} :
             /\ S!Goes(p, [opener[p] EXCEPT !.pc = pc, !.at = 2])
             /\ pc = "peek" => opener[p].at = 1
             /\ pc = "columns" => opener[p].at = 2
      BY <2>3
    <2> DEFINE to == [opener[p] EXCEPT !.pc = pc, !.at = 2]
    <2>5. to \in Opening /\ to.pc = pc /\ to.at = 2 /\ S!Goes(p, to)
      <3>1. pc \in OpenerPcs /\ 2 \in 1..2
        BY DEF OpenerPcs
      <3> QED  BY <1>5, <2>4, <3>1 DEF Opening
    <2> HIDE DEF to
    <2>6. opener'[p].pc = pc /\ opener'[p].at = 2
      BY <2>5, OtherOpeners
    <2>7. ASSUME NEW u \in S!TableNames, u # t
          PROVE  table'[u] = table[u] /\ (S!Renaming(u) => S!Renaming(u)')
      BY <1>12, <2>1, <2>5, <2>7, RenamingKeeps
    <2>8. ASSUME NEW u \in S!TableNames, Behind(p, u)' PROVE u = t \/ Behind(p, u)
      <3>1. CASE pc = "peek"
        <4>1. u = S!Tables[1] /\ opener[p].at = 1
          BY <2>4, <2>6, <2>8, <3>1 DEF Behind, Late
        <4> QED  BY <4>1, <1>4 DEF S!T
      <3>2. CASE pc = "columns"
        <4>1. opener[p].at = 2 /\ (u = S!Tables[1] \/ u = S!Tables[2])
          BY <2>4, <3>2, SchemaBounds DEF S!TableNames
        <4>2. u = S!Tables[1] => Behind(p, u)
          BY <2>1, <4>1 DEF Behind
        <4> QED  BY <4>1, <4>2, <1>4 DEF S!T
      <3> QED  BY <3>1, <3>2
    <2>9. \A u \in S!TableNames : ~Rewritten(p, u)'
      BY <2>6 DEF Rewritten
    <2> QED  BY <1>12, <2>1, <2>2, <2>5, <2>7, <2>8, <2>9, TablesKeep DEF TablesStand
  <1>16. CASE S!AddColumn(p) \/ S!PeekStatus(p) \/ S!RebuildRuns(p) \/ S!CreateIndex(p)
    <2>1. opener[p].pc \in Late /\ UNCHANGED table /\ deaths' = deaths
      BY <1>16 DEF S!AddColumn, S!PeekStatus, S!RebuildRuns, S!CreateIndex, S!At, Late
    <2>2. \A u \in S!TableNames : Behind(p, u)
      BY <2>1 DEF Behind
    <2>3. ASSUME NEW to \in Opening, S!Goes(p, to), to.pc \in Late PROVE TablesStand'
      <3>1. opener'[p].pc \in Late
        BY <2>3, OtherOpeners
      <3>2. \A u \in S!TableNames : ~Rewritten(p, u)'
        BY <3>1 DEF Rewritten, Late
      <3>3. opener[p].pc # "create"
        BY <2>1 DEF Late
      <3> QED  BY <1>6, <2>1, <2>2, <2>3, <3>2, <3>3
    <2>4. CASE S!AddColumn(p)
      <3>1. ASSUME S!Goes(p, [opener[p] EXCEPT !.pc = "status"]) PROVE TablesStand'
        <4> DEFINE to == [opener[p] EXCEPT !.pc = "status"]
        <4>1. to \in Opening /\ to.pc = "status" /\ S!Goes(p, to)
          BY <1>5, <3>1 DEF Opening, OpenerPcs
        <4> HIDE DEF to
        <4> QED  BY <2>3, <4>1 DEF Late
      <3>2. ASSUME NEW c \in Columns, S!Goes(p, [opener[p] EXCEPT !.seen = @ \cup {c}])
            PROVE  TablesStand'
        <4> DEFINE to == [opener[p] EXCEPT !.seen = @ \cup {c}]
        <4>1. to \in Opening /\ to.pc = opener[p].pc /\ S!Goes(p, to)
          BY <1>5, <3>2 DEF Opening
        <4> HIDE DEF to
        <4> QED  BY <2>1, <2>3, <4>1
      <3> QED  BY <2>4, <3>1, <3>2 DEF S!AddColumn
    <2>5. CASE S!PeekStatus(p)
      <3>1. CASE S!Goes(p, [opener[p] EXCEPT !.pc = "index"])
        <4> DEFINE to == [opener[p] EXCEPT !.pc = "index"]
        <4>1. to \in Opening /\ to.pc = "index" /\ S!Goes(p, to)
          BY <1>5, <3>1 DEF Opening, OpenerPcs
        <4> HIDE DEF to
        <4> QED  BY <2>3, <4>1 DEF Late
      <3>2. CASE S!Goes(p, [opener[p] EXCEPT !.pc = "rebuild", !.seen = ledger.cols])
        <4> DEFINE to == [opener[p] EXCEPT !.pc = "rebuild", !.seen = ledger.cols]
        <4>1. to \in Opening /\ to.pc = "rebuild" /\ S!Goes(p, to)
          BY <1>2, <1>5, <3>2 DEF Opening, OpenerPcs, S!Ledger
        <4> HIDE DEF to
        <4> QED  BY <2>3, <4>1 DEF Late
      <3> QED  BY <2>5, <3>1, <3>2 DEF S!PeekStatus
    <2>6. ASSUME NEW pc \in {"index", "use"}, S!Goes(p, [opener[p] EXCEPT !.pc = pc])
          PROVE  TablesStand'
      <3> DEFINE to == [opener[p] EXCEPT !.pc = pc]
      <3>1. to \in Opening /\ to.pc = pc /\ S!Goes(p, to)
        BY <1>5, <2>6 DEF Opening, OpenerPcs
      <3> HIDE DEF to
      <3> QED  BY <2>3, <2>6, <3>1 DEF Late
    <2>7. ASSUME S!Goes(p, S!AtRest) PROVE TablesStand'
      BY <1>8, <2>1, <2>7 DEF Late
    <2> QED  BY <1>16, <2>4, <2>5, <2>6, <2>7 DEF S!RebuildRuns, S!CreateIndex, S!Fails
  <1>17. CASE S!CreateRun(p) \/ S!RecordRow(p)
    <2>1. opener[p].pc = "use" /\ deaths' = deaths /\ S!Goes(p, S!AtRest)
      BY <1>17 DEF S!CreateRun, S!RecordRow, S!At
    <2>2. \A u \in S!TableNames :
             table'[u].made = table[u].made /\ table'[u].wide = table[u].wide
      BY <1>2, <1>17 DEF S!CreateRun, S!RecordRow, TableRows
    <2> QED  BY <1>8, <2>1, <2>2
  <1>18. CASE S!OpenerDies(p)
    <2>1. deaths' > 0 /\ S!Goes(p, S!AtRest) /\ UNCHANGED table
      BY <1>2, <1>18 DEF S!OpenerDies
    <2>2. \A u \in S!TableNames : S!Renaming(u)'
      BY <2>1 DEF S!Renaming
    <2> QED  BY <1>5, <1>7, <2>1, <2>2, TablesKeep
  <1> QED  BY <1>1, <1>9, <1>10, <1>11, <1>13, <1>14, <1>15, <1>16, <1>17, <1>18

LEMMA SchemaInitially ==
    ASSUME S!SchemaInit PROVE SchemaInvariant
  <1>1. LedgerInvariant
    BY LedgerInitially
  <1>2. \A p \in Openers : opener[p].pc = "idle"
    BY DEF S!SchemaInit, S!AtRest
  <1>3. TablesStand
    BY <1>2 DEF TablesStand, Behind, Rewritten, Late
  <1>4. IndexStands
    BY <1>2 DEF IndexStands
  <1>5. RowsStand
    <2>1. PICK rows \in SUBSET Runs, cols \in {{}, Columns \ Altered} :
             /\ \/ ledger = [made |-> TRUE, cols |-> cols, check |-> FALSE, index |-> cols # {},
                             rows |-> rows]
                \/ rows = {} /\ ledger = S!NoLedger
             /\ table = [t \in S!TableNames |-> IF ledger.made
                                                THEN [made |-> TRUE, wide |-> FALSE, rows |-> rows]
                                                ELSE S!NoTable]
             /\ recorded = [t \in S!TableNames |-> rows]
      BY DEF S!SchemaInit
    <2>2. legacy = [t \in S!TableNames |-> S!NoTable]
      BY DEF S!SchemaInit
    <2>3. rows = {} \/ ledger.made
      BY <2>1
    <2> QED  BY <2>1, <2>2, <2>3 DEF RowsStand, S!NoRowIsDestroyed, S!NoTable
  <1> QED  BY <1>1, <1>3, <1>4, <1>5 DEF SchemaInvariant

LEMMA SchemaSteps ==
    ASSUME SchemaInvariant, S!SchemaNext PROVE SchemaInvariant'
  BY LedgerSteps, RowsSteps, TablesSteps, IndexSteps DEF SchemaInvariant

LEMMA SchemaSafe ==
    ASSUME SchemaInvariant
    PROVE  S!SchemaTypeOK /\ S!NoRowIsDestroyed /\ S!OperationsFindTheSchema
  <1>1. S!SchemaTypeOK
    BY DEF SchemaInvariant, LedgerInvariant, SchemaTypes, S!SchemaTypeOK, TableRows
  <1>2. S!OperationsFindTheSchema
    BY DEF SchemaInvariant, LedgerInvariant, SeenIsThere, TablesStand, IndexStands, Behind, Late,
           S!OperationsFindTheSchema, S!At
  <1>3. S!NoRowIsDestroyed
    BY DEF SchemaInvariant, RowsStand
  <1> QED  BY <1>1, <1>2, <1>3

-----------------------------------------------------------------------------
(* RunRecovery                                                                *)

WalkerPcs == {"idle", "effects", "reattach", "decide", "commit", "drive", "captcha",
              "effect", "settle"}

Dispositions == {"none", "execute", "skip", "reconcile", "pause_outcome_unknown"}

Walkers == [pc: WalkerPcs, phase: R!Phases, attempt: Nat, to: R!Phases,
            bound: Sessions \cup {"none"}, planned: SUBSET Dispositions,
            disposition: Dispositions]

Reservations ==
    [phase: R!Phases \cup {"none"}, disposition: Dispositions, receipt: BOOLEAN]

RecoveryTypes ==
    /\ history \in Seq(R!Boundary) /\ history # <<>>
    /\ intent \in [R!Effects -> {"none", "pending", "completed", "outcome_unknown"}]
    /\ row \in [R!Effects -> Reservations]
    /\ pause \in [phase: R!Phases \cup {"none"}, prompts: Nat]
    /\ worker \in [Workers -> Walkers]
    /\ operator \in [pc: {"idle", "busy", "release"}, keys: SUBSET R!Effects,
                     plan: R!Boundary]
    /\ sent \in [R!Effects -> Nat]

\* A phase that bears an effect was only ever entered with its effect reserved.
Known(phase) == phase \in R!Effects => intent[phase] # "none"

EffectsAreKnown ==
    /\ \A i \in DOMAIN history : Known(history[i].to)
    /\ Known(pause.phase) /\ Known(operator.plan.to)
    /\ \A w \in Workers : Known(worker[w].phase)
    /\ \A e \in R!Effects : sent[e] > 0 => intent[e] # "none"

\* A worker that may submit: its reservation was the first of the key.
Armed(w) == worker[w].pc = "effect" /\ worker[w].disposition = "execute"

OneAuthority ==
    /\ \A w \in Workers : /\ worker[w].pc \in {"effect", "settle"} => worker[w].phase \in R!Effects
                          /\ Armed(w) => sent[worker[w].phase] = 0
    /\ \A v, w \in Workers : Armed(v) /\ Armed(w) /\ worker[v].phase = worker[w].phase => v = w
    /\ R!SubmittedOnce

\* Whoever compared the count did so below the budget.
Counting == {w \in Workers : worker[w].pc = "captcha"}

PromptsAreBounded ==
    pause.prompts + Cardinality(Counting) <= MaxPauses + Cardinality(Workers) - 1

RecoveryInvariant ==
    /\ RecoveryTypes /\ EffectsAreKnown /\ OneAuthority /\ PromptsAreBounded
    /\ R!ReservationHasPhase

LEMMA RecoveryBounds ==
    /\ IsFiniteSet(Workers) /\ Workers # {} /\ MaxPauses \in Nat
    /\ Cardinality(Workers) \in Nat \ {0}
  <1>1. IsFiniteSet(Workers) /\ Workers # {} /\ MaxPauses \in Nat
    BY IntakePartsAssumption DEF IntakePartsAssumption, R!RecoveryAssumption, R!IsFiniteSet,
                                 IsFiniteSet
  <1>2. Cardinality(Workers) \in Nat /\ Cardinality(Workers) # 0
    BY <1>1, FS_CardinalityType, FS_EmptySet
  <1> QED  BY <1>1, <1>2

\* The instance brings its own copy of the standard operator.
LEMMA SameCardinality ==
    ASSUME NEW set PROVE R!Cardinality(set) = Cardinality(set)
  BY DEF R!Cardinality, Cardinality

LEMMA PhaseShape ==
    /\ R!Effects \subseteq R!Phases
    /\ \A p \in DOMAIN R!PhaseSuccessors : R!PhaseSuccessors[p] \in R!Phases
    /\ {"research", "vault_check", "route_selected_login", "paused", "captcha_paused",
        "cancelled"} \subseteq R!Phases \ R!Effects
    /\ "none" \notin R!Effects
  <1>1. R!Effects \subseteq R!Phases /\ "none" \notin R!Effects
    BY DEF R!Effects, R!Phases, R!Resumable, R!SessionBearing
  <1>2. \A p \in DOMAIN R!PhaseSuccessors : R!PhaseSuccessors[p] \in R!Phases
    BY DEF R!PhaseSuccessors, R!Phases, R!Resumable, R!SessionBearing
  <1>3. {"research", "vault_check", "route_selected_login", "paused", "captcha_paused",
         "cancelled"} \subseteq R!Phases \ R!Effects
    BY DEF R!Effects, R!Phases, R!Resumable, R!SessionBearing, R!Terminal
  <1> QED  BY <1>1, <1>2, <1>3

\* The row that an upsert writes.
LEMMA UpsertShape ==
    ASSUME NEW old \in Reservations, NEW ph \in R!Phases \cup {"none"}, NEW d \in Dispositions,
           NEW q, \/ q = [phase |-> ph, disposition |-> d, receipt |-> TRUE]
                  \/ q = [phase |-> ph, disposition |-> d, receipt |-> old.receipt]
    PROVE  q \in Reservations /\ q.phase = ph
  <1>1. old.receipt \in BOOLEAN
    BY DEF Reservations
  <1>2. CASE q = [phase |-> ph, disposition |-> d, receipt |-> TRUE]
    BY <1>2 DEF Reservations
  <1>3. CASE q = [phase |-> ph, disposition |-> d, receipt |-> old.receipt]
    BY <1>1, <1>3 DEF Reservations
  <1> QED  BY <1>2, <1>3

\* What a commit leaves of the history, whether it was a replay or not.
LEMMA HistoryGrows ==
    ASSUME RecoveryTypes, NEW b \in R!Boundary, history' = R!CommitPhase(history, b)
    PROVE  /\ history' \in Seq(R!Boundary) /\ history' # <<>>
           /\ \A i \in DOMAIN history : i \in DOMAIN history' /\ history'[i] = history[i]
           /\ \A i \in DOMAIN history' : \/ history'[i] = b
                                         \/ i \in DOMAIN history /\ history'[i] = history[i]
           /\ \E i \in DOMAIN history' : history'[i].to = b.to
  <1>1. /\ history \in Seq(R!Boundary) /\ Len(history) \in Nat /\ DOMAIN history = 1..Len(history)
        /\ history # <<>>
    BY DEF RecoveryTypes
  <1>2. CASE R!Replayed(history, b)
    <2>1. history' = history
      BY <1>2 DEF R!CommitPhase
    <2>2. PICK i \in DOMAIN history : R!SameKey(history[i], b)
      BY <1>2 DEF R!Replayed
    <2> QED  BY <1>1, <2>1, <2>2 DEF R!SameKey
  <1>3. CASE ~R!Replayed(history, b)
    <2>1. history' = Append(history, b)
      BY <1>3 DEF R!CommitPhase
    <2>2. /\ history' \in Seq(R!Boundary) /\ Len(history') = Len(history) + 1
          /\ DOMAIN history' = 1..(Len(history) + 1)
          /\ history'[Len(history) + 1] = b
          /\ \A i \in 1..Len(history) : history'[i] = history[i]
      BY <1>1, <2>1
    <2>3. Len(history) + 1 \in DOMAIN history' /\ history' # <<>>
      BY <1>1, <2>2
    <2> QED  BY <1>1, <2>2, <2>3
  <1> QED  BY <1>2, <1>3

LEMMA LastShape ==
    ASSUME RecoveryTypes, EffectsAreKnown
    PROVE  R!Last \in R!Boundary /\ Known(R!Last.to)
  <1>1. Len(history) \in DOMAIN history /\ history[Len(history)] \in R!Boundary
    BY DEF RecoveryTypes
  <1> QED  BY <1>1 DEF EffectsAreKnown, R!Last, R!LastBoundary

LEMMA RecoveryInitially ==
    ASSUME R!RecoveryInit PROVE RecoveryInvariant
  <1>1. /\ \A w \in Workers : worker[w] = R!Idle
        /\ worker \in [Workers -> Walkers] /\ R!Idle.pc = "idle" /\ R!Idle.phase = "research"
    BY PhaseShape DEF R!RecoveryInit, R!Idle, Walkers, WalkerPcs, Dispositions
  <1>2. /\ R!Crossing("research", "vault_check", 0, "research", "step") \in R!Boundary
        /\ R!Crossing("vault_check", "route_selected_login", 0, "vault_check", "step") \in R!Boundary
        /\ R!Crossing("research", "research", 0, "research", "step") \in R!Boundary
    BY PhaseShape DEF R!Crossing, R!Boundary, R!Codes
  <1>3. /\ history \in Seq(R!Boundary) /\ history # <<>>
        /\ \A i \in DOMAIN history : history[i].to \in {"vault_check", "route_selected_login"}
    BY <1>2 DEF R!RecoveryInit, R!Crossing
  <1>4. RecoveryTypes
    BY <1>1, <1>2, <1>3, PhaseShape DEF R!RecoveryInit, RecoveryTypes, R!NoRow, Dispositions, Reservations
  <1>5. EffectsAreKnown
    BY <1>1, <1>3, PhaseShape DEF R!RecoveryInit, EffectsAreKnown, Known, R!Crossing
  <1>6. OneAuthority
    BY <1>1 DEF R!RecoveryInit, OneAuthority, Armed, R!SubmittedOnce
  <1>7. PromptsAreBounded
    <2>1. Counting = {} /\ pause.prompts = 0
      BY <1>1 DEF Counting, R!RecoveryInit
    <2> QED  BY <2>1, FS_EmptySet, RecoveryBounds DEF PromptsAreBounded
  <1>8. R!ReservationHasPhase
    BY DEF R!RecoveryInit, R!ReservationHasPhase
  <1> QED  BY <1>4, <1>5, <1>6, <1>7, <1>8 DEF RecoveryInvariant

\* A walk moves without touching a store, and without a new authority.
LEMMA WalkMoves ==
    ASSUME RecoveryInvariant, NEW w \in Workers, NEW new \in Walkers,
           worker' = [worker EXCEPT ![w] = new],
           UNCHANGED <<history, intent, row, pause, operator, sent>>,
           new.pc \notin {"effect", "settle"}, Known(new.phase),
           new.pc = "captcha" => pause.prompts < MaxPauses
    PROVE  RecoveryInvariant'
  <1>1. /\ worker' \in [Workers -> Walkers] /\ worker'[w] = new
        /\ \A v \in Workers \ {w} : worker'[v] = worker[v]
    BY DEF RecoveryInvariant, RecoveryTypes
  <1>2. RecoveryTypes'
    BY <1>1 DEF RecoveryInvariant, RecoveryTypes
  <1>3. EffectsAreKnown'
    BY <1>1 DEF RecoveryInvariant, EffectsAreKnown, Known
  <1>4. OneAuthority'
    BY <1>1 DEF RecoveryInvariant, OneAuthority, Armed, R!SubmittedOnce
  <1>5. PromptsAreBounded'
    <2>1. /\ Counting' \subseteq Workers /\ IsFiniteSet(Workers) /\ IsFiniteSet(Counting)
          /\ Cardinality(Counting') \in Nat /\ Cardinality(Counting) \in Nat
          /\ Cardinality(Counting') <= Cardinality(Workers)
          /\ pause.prompts \in Nat /\ pause' = pause
      <3>1. Counting' \subseteq Workers /\ Counting \subseteq Workers
        BY DEF Counting
      <3> QED  BY <3>1, FS_Subset, FS_CardinalityType, RecoveryBounds
               DEF RecoveryInvariant, RecoveryTypes
    <2>2. CASE new.pc = "captcha"
      BY <2>1, <2>2, RecoveryBounds DEF PromptsAreBounded
    <2>3. CASE new.pc # "captcha"
      <3>1. Counting' \subseteq Counting
        BY <1>1, <2>3 DEF Counting
      <3>2. Cardinality(Counting') <= Cardinality(Counting)
        BY <2>1, <3>1, FS_Subset
      <3> QED  BY <2>1, <3>2, RecoveryBounds DEF RecoveryInvariant, PromptsAreBounded
    <2> QED  BY <2>2, <2>3
  <1>6. R!ReservationHasPhase'
    BY DEF RecoveryInvariant, R!ReservationHasPhase
  <1> QED  BY <1>2, <1>3, <1>4, <1>5, <1>6 DEF RecoveryInvariant

\* A key is settled: its authority and its phase stay.
LEMMA KeySettles ==
    ASSUME RecoveryInvariant, NEW e \in R!Effects,
           R!CompleteEffect(e) \/ R!MarkOutcomeUnknown(e),
           UNCHANGED <<history, pause, sent>>,
           worker' \in [Workers -> Walkers],
           \A w \in Workers : worker'[w] = worker[w] \/ worker'[w] = R!Idle,
           operator' \in [pc: {"idle", "busy", "release"}, keys: SUBSET R!Effects,
                          plan: R!Boundary],
           operator'.plan = operator.plan
    PROVE  RecoveryInvariant'
  <1>1. RecoveryTypes /\ EffectsAreKnown /\ OneAuthority /\ PromptsAreBounded
    BY DEF RecoveryInvariant
  <1>2. /\ intent' \in [R!Effects -> {"none", "pending", "completed", "outcome_unknown"}]
        /\ \A x \in R!Effects : intent[x] # "none" => intent'[x] # "none"
    BY <1>1 DEF RecoveryTypes, R!CompleteEffect, R!MarkOutcomeUnknown
  <1>3. /\ row' \in [R!Effects -> Reservations]
        /\ \A x \in R!Effects : row'[x] # R!NoRow => row[x] # R!NoRow /\ row'[x].phase = row[x].phase
    <2>1. row[e] # R!NoRow /\ row[e] \in Reservations
      BY <1>1 DEF RecoveryTypes, R!CompleteEffect, R!MarkOutcomeUnknown
    <2>2. PICK q : /\ row' = [row EXCEPT ![e] = q]
                   /\ \/ q = [phase |-> row[e].phase, disposition |-> "skip", receipt |-> TRUE]
                      \/ q = [phase |-> row[e].phase, disposition |-> "pause_outcome_unknown",
                              receipt |-> row[e].receipt]
      <3>1. row[e].receipt \in BOOLEAN
        BY <2>1 DEF Reservations
      <3> QED  BY <3>1 DEF R!CompleteEffect, R!MarkOutcomeUnknown, R!Upsert
    <2>3. q \in Reservations /\ q.phase = row[e].phase
      <3>1. row[e].phase \in R!Phases \cup {"none"}
        BY <2>1 DEF Reservations
      <3>2. {"skip", "pause_outcome_unknown"} \subseteq Dispositions
        BY DEF Dispositions
      <3> QED  BY <2>1, <2>2, <3>1, <3>2, UpsertShape
    <2> QED  BY <1>1, <2>1, <2>2, <2>3 DEF RecoveryTypes
  <1>4. R!Idle.pc = "idle" /\ R!Idle.phase = "research" /\ R!Idle.phase \notin R!Effects
    BY PhaseShape DEF R!Idle
  <1>5. RecoveryTypes'
    BY <1>1, <1>2, <1>3 DEF RecoveryTypes
  <1>6. EffectsAreKnown'
    BY <1>1, <1>2, <1>4 DEF EffectsAreKnown, Known
  <1>7. OneAuthority'
    BY <1>1, <1>4 DEF OneAuthority, Armed, R!SubmittedOnce
  <1>8. PromptsAreBounded'
    <2>1. Counting' \subseteq Counting /\ Counting \subseteq Workers /\ pause' = pause
      BY <1>4 DEF Counting
    <2>2. /\ Cardinality(Counting') <= Cardinality(Counting)
          /\ Cardinality(Counting') \in Nat /\ Cardinality(Counting) \in Nat
      BY <2>1, FS_Subset, FS_CardinalityType, RecoveryBounds
    <2> QED  BY <1>1, <2>1, <2>2, RecoveryBounds DEF PromptsAreBounded, RecoveryTypes
  <1>9. R!ReservationHasPhase'
    BY <1>3 DEF RecoveryInvariant, R!ReservationHasPhase
  <1> QED  BY <1>5, <1>6, <1>7, <1>8, <1>9 DEF RecoveryInvariant

\* A boundary that reserves nothing: a worker ends its turn, or a control commits.
LEMMA PlainCommit ==
    ASSUME RecoveryInvariant, NEW b \in R!Boundary, Known(b.to),
           history' = R!CommitPhase(history, b),
           UNCHANGED <<intent, row, pause, sent>>,
           worker' \in [Workers -> Walkers],
           \A w \in Workers : worker'[w] = worker[w] \/ worker'[w] = R!Idle,
           operator' \in [pc: {"idle", "busy", "release"}, keys: SUBSET R!Effects,
                          plan: R!Boundary],
           operator'.plan = operator.plan
    PROVE  RecoveryInvariant'
  <1>1. RecoveryTypes /\ EffectsAreKnown /\ OneAuthority /\ PromptsAreBounded
    BY DEF RecoveryInvariant
  <1>2. /\ history' \in Seq(R!Boundary) /\ history' # <<>>
        /\ \A i \in DOMAIN history : i \in DOMAIN history' /\ history'[i] = history[i]
        /\ \A i \in DOMAIN history' : \/ history'[i] = b
                                      \/ i \in DOMAIN history /\ history'[i] = history[i]
    BY <1>1, HistoryGrows
  <1>3. R!Idle.pc = "idle" /\ R!Idle.phase = "research" /\ R!Idle.phase \notin R!Effects
    BY PhaseShape DEF R!Idle
  <1>4. RecoveryTypes'
    BY <1>1, <1>2 DEF RecoveryTypes
  <1>5. EffectsAreKnown'
    BY <1>1, <1>2, <1>3 DEF EffectsAreKnown, Known
  <1>6. OneAuthority'
    BY <1>1, <1>3 DEF OneAuthority, Armed, R!SubmittedOnce
  <1>7. PromptsAreBounded'
    <2>1. Counting' \subseteq Counting /\ Counting \subseteq Workers /\ pause' = pause
      BY <1>3 DEF Counting
    <2>2. /\ Cardinality(Counting') <= Cardinality(Counting)
          /\ Cardinality(Counting') \in Nat /\ Cardinality(Counting) \in Nat
      BY <2>1, FS_Subset, FS_CardinalityType, RecoveryBounds
    <2> QED  BY <1>1, <2>1, <2>2, RecoveryBounds DEF PromptsAreBounded, RecoveryTypes
  <1>8. R!ReservationHasPhase'
    BY <1>2 DEF RecoveryInvariant, R!ReservationHasPhase
  <1> QED  BY <1>4, <1>5, <1>6, <1>7, <1>8 DEF RecoveryInvariant

\* Nothing but the authority of a worker that holds none is left to say of a
\* standing disposition: it is to submit only where nobody reserved before.
LEMMA PlanShape ==
    ASSUME RecoveryTypes, NEW e \in R!Effects
    PROVE  /\ R!StandingPlan(e) \in Dispositions
           /\ R!StandingPlan(e) = "execute" => intent[e] = "none"
           /\ R!Reserved(intent[e]) \in {"pending", "completed", "outcome_unknown"}
  <1>1. intent[e] \in {"none", "pending", "completed", "outcome_unknown"}
    BY DEF RecoveryTypes
  <1> QED  BY <1>1 DEF R!StandingPlan, R!PlanForRowStatus, R!Reserved, Dispositions

\* The boundary that reserves its phase's effect.
LEMMA ReservingCommit ==
    ASSUME RecoveryInvariant, NEW w \in Workers, NEW b \in R!Boundary, b.to \in R!Effects,
           R!CommitWithReservation(w, b), UNCHANGED <<pause, operator, sent>>
    PROVE  RecoveryInvariant'
  <1> DEFINE e == b.to
             plan == R!StandingPlan(e)
             new == [worker[w] EXCEPT !.pc = "effect", !.phase = e, !.disposition = plan]
  <1>1. RecoveryTypes /\ EffectsAreKnown /\ OneAuthority /\ PromptsAreBounded
    BY DEF RecoveryInvariant
  <1>2. /\ plan \in Dispositions /\ (plan = "execute" => intent[e] = "none")
        /\ R!Reserved(intent[e]) \in {"pending", "completed", "outcome_unknown"}
        /\ e \in R!Phases
    BY <1>1, PlanShape, PhaseShape
  <1>3. /\ history' = R!CommitPhase(history, b)
        /\ R!Replayed(history, b) => UNCHANGED <<intent, row>>
        /\ ~R!Replayed(history, b) =>
              /\ intent' = [intent EXCEPT ![e] = R!Reserved(intent[e])]
              /\ row' = [row EXCEPT ![e] = R!Upsert(row[e], e, plan, FALSE)]
        /\ worker' = [worker EXCEPT ![w].pc = "effect", ![w].phase = e, ![w].disposition = plan]
    BY DEF R!CommitWithReservation
  <1>16. worker' = [worker EXCEPT ![w] = new]
    <2>1. worker \in [Workers -> Walkers]
      BY <1>1 DEF RecoveryTypes
    <2>2. worker' = [worker EXCEPT ![w] = [@ EXCEPT !.pc = "effect", !.phase = e, !.disposition = plan]]
      BY <1>3, <2>1 DEF Walkers
    <2> QED  BY <2>1, <2>2
  <1>4. /\ new \in Walkers /\ new.pc = "effect" /\ new.phase = e /\ new.disposition = plan
    <2>1. PICK x, f, d : x = worker[w] /\ f = e /\ d = plan
      OBVIOUS
    <2>2. x \in Walkers /\ f \in R!Phases /\ d \in Dispositions
      BY <1>1, <1>2, <2>1 DEF RecoveryTypes
    <2>3. new = [x EXCEPT !.pc = "effect", !.phase = f, !.disposition = d]
      BY <2>1
    <2> HIDE DEF new, e, plan
    <2> QED  BY <2>1, <2>2, <2>3 DEF Walkers, WalkerPcs
  <1>5. e \in R!Effects
    OBVIOUS
  <1> HIDE DEF e, plan, new
  <1>6. /\ worker' \in [Workers -> Walkers] /\ worker'[w] = new
        /\ \A v \in Workers \ {w} : worker'[v] = worker[v]
    BY <1>1, <1>4, <1>16 DEF RecoveryTypes
  <1>7. /\ history' \in Seq(R!Boundary) /\ history' # <<>>
        /\ \A i \in DOMAIN history : i \in DOMAIN history' /\ history'[i] = history[i]
        /\ \A i \in DOMAIN history' : \/ history'[i] = b
                                      \/ i \in DOMAIN history /\ history'[i] = history[i]
        /\ \E i \in DOMAIN history' : history'[i].to = e
    BY <1>1, <1>3, HistoryGrows DEF e
  <1>8. R!Replayed(history, b) => intent[e] # "none"
    <2>1. ASSUME NEW i \in DOMAIN history, R!SameKey(history[i], b) PROVE intent[e] # "none"
      BY <1>1, <1>5, <2>1 DEF R!SameKey, EffectsAreKnown, Known, e
    <2> QED  BY <2>1 DEF R!Replayed
  <1>9. /\ intent' \in [R!Effects -> {"none", "pending", "completed", "outcome_unknown"}]
        /\ \A x \in R!Effects : intent[x] # "none" => intent'[x] # "none"
        /\ intent'[e] # "none"
    BY <1>1, <1>2, <1>3, <1>5, <1>8 DEF RecoveryTypes
  <1>10. /\ row' \in [R!Effects -> Reservations]
         /\ \A x \in R!Effects : row'[x] = row[x] \/ row'[x].phase = e
    <2>1. PICK q : q = [phase |-> e, disposition |-> plan, receipt |-> row[e].receipt]
      OBVIOUS
    <2>2. q \in Reservations /\ q.phase = e
      BY <1>1, <1>2, <1>5, <2>1, UpsertShape DEF RecoveryTypes
    <2>3. CASE row' = row
      BY <1>1, <2>3 DEF RecoveryTypes
    <2>4. CASE row' = [row EXCEPT ![e] = q]
      BY <1>1, <1>5, <2>2, <2>4 DEF RecoveryTypes
    <2>5. row[e].receipt \in BOOLEAN
      BY <1>1, <1>5 DEF RecoveryTypes, Reservations
    <2>6. ~R!Replayed(history, b) => row' = [row EXCEPT ![e] = q]
      BY <1>3, <2>1, <2>5 DEF R!Upsert
    <2> QED  BY <1>3, <2>3, <2>4, <2>6
  <1>11. RecoveryTypes'
    BY <1>1, <1>6, <1>7, <1>9, <1>10 DEF RecoveryTypes
  <1>12. EffectsAreKnown'
    BY <1>1, <1>4, <1>6, <1>7, <1>9 DEF EffectsAreKnown, Known, e
  <1>13. OneAuthority'
    <2>1. \A v \in Workers : worker[v].phase = e => intent[e] # "none"
      BY <1>1, <1>5 DEF EffectsAreKnown, Known
    <2>2. intent[e] = "none" => sent[e] = 0
      BY <1>1, <1>5 DEF EffectsAreKnown, RecoveryTypes
    <2> QED  BY <1>1, <1>2, <1>4, <1>5, <1>6, <2>1, <2>2 DEF OneAuthority, Armed, R!SubmittedOnce
  <1>14. PromptsAreBounded'
    <2>1. Counting' \subseteq Counting /\ Counting \subseteq Workers /\ pause' = pause
      BY <1>4, <1>6 DEF Counting
    <2>2. /\ Cardinality(Counting') <= Cardinality(Counting)
          /\ Cardinality(Counting') \in Nat /\ Cardinality(Counting) \in Nat
      BY <2>1, FS_Subset, FS_CardinalityType, RecoveryBounds
    <2> QED  BY <1>1, <2>1, <2>2, RecoveryBounds DEF PromptsAreBounded, RecoveryTypes
  <1>15. R!ReservationHasPhase'
    BY <1>7, <1>10 DEF RecoveryInvariant, R!ReservationHasPhase
  <1> QED  BY <1>11, <1>12, <1>13, <1>14, <1>15 DEF RecoveryInvariant

LEMMA RecoverySteps ==
    ASSUME RecoveryInvariant, R!RecoveryNext PROVE RecoveryInvariant'
  <1>1. RecoveryTypes /\ EffectsAreKnown /\ OneAuthority /\ PromptsAreBounded
    BY DEF RecoveryInvariant
  <1>2. ASSUME NEW w \in Workers
        PROVE  worker[w] \in Walkers /\ Known(worker[w].phase)
    BY <1>1 DEF RecoveryTypes, EffectsAreKnown
  <1>3. /\ R!Idle \in Walkers /\ R!Idle.pc = "idle" /\ Known(R!Idle.phase)
    BY PhaseShape DEF R!Idle, Walkers, WalkerPcs, Dispositions, Known
  <1>4. R!Last \in R!Boundary /\ Known(R!Last.to)
    BY <1>1, LastShape
  <1>5. operator \in [pc: {"idle", "busy", "release"}, keys: SUBSET R!Effects, plan: R!Boundary]
    BY <1>1 DEF RecoveryTypes
  <1>6. ASSUME NEW w \in Workers, R!RecoverReads(w) PROVE RecoveryInvariant'
    <2> DEFINE new == [R!Idle EXCEPT !.pc = "effects", !.phase = R!ResumptionPhase(history),
                                     !.attempt = R!ResumptionAttempt(history)]
    <2>1. R!ResumptionPhase(history) = R!Last.to /\ R!ResumptionAttempt(history) = R!Last.attempt
      BY <1>1 DEF RecoveryTypes, R!ResumptionPhase, R!ResumptionAttempt, R!Last
    <2>2. /\ new \in Walkers /\ new.pc = "effects" /\ Known(new.phase)
      BY <1>3, <1>4, <2>1 DEF Walkers, WalkerPcs, R!Boundary
    <2>3. /\ worker' = [worker EXCEPT ![w] = new]
          /\ UNCHANGED <<history, intent, row, pause, operator, sent>>
      BY <1>6 DEF R!RecoverReads
    <2> HIDE DEF new
    <2> QED  BY <2>2, <2>3, WalkMoves
  <1>7. ASSUME NEW w \in Workers, R!RecoverReadsEffects(w) PROVE RecoveryInvariant'
    <2> DEFINE standing == R!StandingDispositions(worker[w].phase)
               to == IF worker[w].phase \in R!SessionBearing THEN "reattach" ELSE "decide"
               new == [worker[w] EXCEPT !.planned = standing, !.pc = to]
    <2>1. standing \subseteq Dispositions
      BY <1>1 DEF R!StandingDispositions, RecoveryTypes, Reservations
    <2>2. worker' = [worker EXCEPT ![w].planned = standing, ![w].pc = to]
      BY <1>7 DEF R!RecoverReadsEffects
    <2>3. to \in {"reattach", "decide"}
      OBVIOUS
    <2> HIDE DEF standing, to
    <2>4. /\ new \in Walkers /\ new.pc = to /\ new.phase = worker[w].phase
          /\ worker' = [worker EXCEPT ![w] = new]
      BY <1>1, <1>2, <2>1, <2>2, <2>3 DEF Walkers, WalkerPcs, RecoveryTypes
    <2>5. UNCHANGED <<history, intent, row, pause, operator, sent>>
      BY <1>7 DEF R!RecoverReadsEffects
    <2> HIDE DEF new
    <2> QED  BY <1>2, <2>3, <2>4, <2>5, WalkMoves
  <1>8. ASSUME NEW w \in Workers, NEW pc \in {"decide", "drive", "commit"},
               NEW to \in R!Phases, NEW bound \in Sessions \cup {"none"},
               worker' = [worker EXCEPT ![w] = [worker[w] EXCEPT !.pc = pc, !.to = to, !.bound = bound]],
               UNCHANGED <<history, intent, row, pause, operator, sent>>
        PROVE  RecoveryInvariant'
    <2> DEFINE new == [worker[w] EXCEPT !.pc = pc, !.to = to, !.bound = bound]
    <2>1. new \in Walkers /\ new.pc = pc /\ new.phase = worker[w].phase
      BY <1>2 DEF Walkers, WalkerPcs
    <2>2. worker' = [worker EXCEPT ![w] = new]
      BY <1>8
    <2> HIDE DEF new
    <2> QED  BY <1>2, <1>8, <2>1, <2>2, WalkMoves
  <1>9. ASSUME NEW w \in Workers, R!RecoverReattaches(w) PROVE RecoveryInvariant'
    <2>1. UNCHANGED <<history, intent, row, pause, operator, sent>>
      BY <1>9 DEF R!RecoverReattaches
    <2>2. ASSUME NEW s \in Sessions, worker' = [worker EXCEPT ![w].pc = "decide", ![w].bound = s]
          PROVE  RecoveryInvariant'
      <3>1. worker' = [worker EXCEPT ![w] = [worker[w] EXCEPT !.pc = "decide", !.to = worker[w].to,
                                                              !.bound = s]]
        BY <1>1, <1>2, <2>2 DEF Walkers, RecoveryTypes
      <3> QED  BY <1>2, <1>8, <2>1, <3>1 DEF Walkers
    <2>3. CASE worker' = [worker EXCEPT ![w].pc = "decide"]
      <3>1. worker' = [worker EXCEPT ![w] = [worker[w] EXCEPT !.pc = "decide", !.to = worker[w].to,
                                                              !.bound = worker[w].bound]]
        BY <1>1, <1>2, <2>3 DEF Walkers, RecoveryTypes
      <3> QED  BY <1>2, <1>8, <2>1, <3>1 DEF Walkers
    <2> QED  BY <1>9, <2>2, <2>3 DEF R!RecoverReattaches
  \* Every other step of a walk that only plans a boundary.
  <1>10. ASSUME NEW w \in Workers, NEW to \in R!Phases,
                worker' = [worker EXCEPT ![w].pc = "commit", ![w].to = to],
                UNCHANGED <<history, intent, row, pause, operator, sent>>
         PROVE  RecoveryInvariant'
    <2>1. worker' = [worker EXCEPT ![w] = [worker[w] EXCEPT !.pc = "commit", !.to = to,
                                                            !.bound = worker[w].bound]]
      BY <1>1, <1>2, <1>10 DEF Walkers, RecoveryTypes
    <2>2. worker[w].bound \in Sessions \cup {"none"}
      BY <1>2 DEF Walkers
    <2> QED  BY <1>8, <1>10, <2>1, <2>2
  <1>11. ASSUME NEW w \in Workers, R!RecoverPauses(w) \/ R!DriveFails(w) PROVE RecoveryInvariant'
    <2>1. "paused" \in R!Phases
      BY PhaseShape
    <2> QED  BY <1>10, <1>11, <2>1 DEF R!RecoverPauses, R!DriveFails
  <1>12. ASSUME NEW w \in Workers, R!RecoverCreates(w) PROVE RecoveryInvariant'
    <2>1. UNCHANGED <<history, intent, row, pause, operator, sent>>
      BY <1>12 DEF R!RecoverCreates
    <2>2. ASSUME NEW s \in Sessions, worker' = [worker EXCEPT ![w].pc = "drive", ![w].bound = s]
          PROVE  RecoveryInvariant'
      <3>1. worker' = [worker EXCEPT ![w] = [worker[w] EXCEPT !.pc = "drive", !.to = worker[w].to,
                                                              !.bound = s]]
        BY <1>1, <1>2, <2>2 DEF Walkers, RecoveryTypes
      <3> QED  BY <1>2, <1>8, <2>1, <3>1 DEF Walkers
    <2>3. "paused" \in R!Phases
      BY PhaseShape
    <2>4. CASE worker' = [worker EXCEPT ![w].pc = "commit", ![w].to = "paused"]
      BY <1>10, <2>1, <2>3, <2>4
    <2> QED  BY <1>12, <2>2, <2>4 DEF R!RecoverCreates
  <1>13. ASSUME NEW w \in Workers, R!RecoverContinues(w) PROVE RecoveryInvariant'
    <2>1. /\ worker' = [worker EXCEPT ![w].pc = "drive"]
          /\ UNCHANGED <<history, intent, row, pause, operator, sent>>
      BY <1>13 DEF R!RecoverContinues
    <2>2. worker' = [worker EXCEPT ![w] = [worker[w] EXCEPT !.pc = "drive", !.to = worker[w].to,
                                                            !.bound = worker[w].bound]]
      BY <1>1, <1>2, <2>1 DEF Walkers, RecoveryTypes
    <2>3. worker[w].bound \in Sessions \cup {"none"} /\ worker[w].to \in R!Phases
      BY <1>2 DEF Walkers
    <2> QED  BY <1>8, <2>1, <2>2, <2>3
  <1>14. ASSUME NEW w \in Workers, worker' = [worker EXCEPT ![w] = R!Idle],
                UNCHANGED <<history, intent, row, pause, operator, sent>>
         PROVE  RecoveryInvariant'
    BY <1>3, <1>14, WalkMoves
  <1>15. ASSUME NEW w \in Workers, R!DriveStops(w) \/ R!Adopts(w) \/ R!WorkerCrashes(w)
         PROVE  RecoveryInvariant'
    BY <1>14, <1>15 DEF R!DriveStops, R!Adopts, R!WorkerCrashes
  <1>16. ASSUME NEW w \in Workers, R!DriveAdvances(w) PROVE RecoveryInvariant'
    <2>1. R!PhaseSuccessors[worker[w].phase] \in R!Phases
      BY <1>16, PhaseShape DEF R!DriveAdvances
    <2> QED  BY <1>10, <1>16, <2>1 DEF R!DriveAdvances
  <1>17. ASSUME NEW w \in Workers, R!DriveMeetsCaptcha(w) PROVE RecoveryInvariant'
    <2>1. UNCHANGED <<history, intent, row, pause, operator, sent>> /\ pause.prompts \in Nat
      BY <1>1, <1>17 DEF R!DriveMeetsCaptcha, RecoveryTypes
    <2>2. CASE pause.prompts >= MaxPauses
      <3>1. worker' = [worker EXCEPT ![w].pc = "commit", ![w].to = "paused"]
        BY <1>17, <2>2 DEF R!DriveMeetsCaptcha
      <3> QED  BY <1>10, <2>1, <3>1, PhaseShape
    <2>3. CASE ~(pause.prompts >= MaxPauses)
      <3> DEFINE new == [worker[w] EXCEPT !.pc = "captcha"]
      <3>1. worker' = [worker EXCEPT ![w].pc = "captcha"]
        BY <1>17, <2>3 DEF R!DriveMeetsCaptcha
      <3>2. /\ new \in Walkers /\ new.pc = "captcha" /\ new.phase = worker[w].phase
            /\ worker' = [worker EXCEPT ![w] = new]
        BY <1>1, <1>2, <3>1 DEF Walkers, WalkerPcs, RecoveryTypes
      <3>3. pause.prompts < MaxPauses
        BY <2>1, <2>3, RecoveryBounds
      <3> HIDE DEF new
      <3> QED  BY <1>2, <2>1, <3>2, <3>3, WalkMoves
    <2> QED  BY <2>2, <2>3
  <1>18. ASSUME NEW w \in Workers, R!DriveRecordsPause(w) PROVE RecoveryInvariant'
    <2> DEFINE new == [worker[w] EXCEPT !.pc = "commit", !.to = "captcha_paused"]
    <2>1. /\ worker[w].pc = "captcha"
          /\ worker' = [worker EXCEPT ![w].pc = "commit", ![w].to = "captcha_paused"]
          /\ pause' = [phase |-> worker[w].phase, prompts |-> pause.prompts + 1]
          /\ UNCHANGED <<history, intent, row, operator, sent>>
      BY <1>18 DEF R!DriveRecordsPause, R!RecordsPause
    <2>2. /\ new \in Walkers /\ new.pc = "commit" /\ new.phase = worker[w].phase
          /\ worker' = [worker EXCEPT ![w] = new]
      <3>1. worker[w] \in Walkers /\ "captcha_paused" \in R!Phases
        BY <1>2, PhaseShape
      <3>2. new \in Walkers /\ new.pc = "commit" /\ new.phase = worker[w].phase
        BY <3>1 DEF Walkers, WalkerPcs
      <3>3. worker' = [worker EXCEPT ![w] = new]
        BY <1>1, <2>1 DEF RecoveryTypes, Walkers
      <3> QED  BY <3>2, <3>3
    <2> HIDE DEF new
    <2>3. /\ worker' \in [Workers -> Walkers] /\ worker'[w] = new
          /\ \A v \in Workers \ {w} : worker'[v] = worker[v]
      BY <1>1, <2>2 DEF RecoveryTypes
    <2>4. pause.prompts \in Nat /\ worker[w].phase \in R!Phases
      BY <1>1, <1>2 DEF RecoveryTypes, Walkers
    <2>5. pause' \in [phase: R!Phases \cup {"none"}, prompts: Nat]
      BY <2>1, <2>4
    <2>6. RecoveryTypes'
      BY <1>1, <2>1, <2>3, <2>5 DEF RecoveryTypes
    <2>7. EffectsAreKnown'
      BY <1>1, <1>2, <2>1, <2>2, <2>3 DEF EffectsAreKnown, Known
    <2>8. OneAuthority'
      BY <1>1, <2>1, <2>2, <2>3 DEF OneAuthority, Armed, R!SubmittedOnce
    <2>9. PromptsAreBounded'
      <3>1. /\ Counting' = Counting \ {w} /\ w \in Counting /\ Counting \subseteq Workers
            /\ pause'.prompts = pause.prompts + 1
        BY <2>1, <2>2, <2>3 DEF Counting
      <3>2. IsFiniteSet(Counting) /\ Cardinality(Counting) \in Nat
        BY <3>1, FS_Subset, FS_CardinalityType, RecoveryBounds
      <3>3. Cardinality(Counting') = Cardinality(Counting) - 1
        BY <3>1, <3>2, FS_RemoveElement
      <3> QED  BY <1>1, <2>4, <3>1, <3>2, <3>3, RecoveryBounds DEF PromptsAreBounded
    <2>10. R!ReservationHasPhase'
      BY <2>1 DEF RecoveryInvariant, R!ReservationHasPhase
    <2> QED  BY <2>6, <2>7, <2>8, <2>9, <2>10 DEF RecoveryInvariant
  <1>19. ASSUME NEW w \in Workers, R!WalkCommits(w) PROVE RecoveryInvariant'
    <2> DEFINE b == R!Crossing(worker[w].phase, worker[w].to, worker[w].attempt, worker[w].phase, "step")
    <2>1. b \in R!Boundary /\ b.to = worker[w].to
      BY <1>2 DEF R!Crossing, R!Boundary, Walkers, R!Codes
    <2>2. UNCHANGED <<pause, operator, sent>>
      BY <1>19 DEF R!WalkCommits
    <2>3. CASE worker[w].to \in R!Effects
      <3>1. R!CommitWithReservation(w, b)
        BY <1>19, <2>3 DEF R!WalkCommits
      <3> HIDE DEF b
      <3> QED  BY <2>1, <2>2, <2>3, <3>1, ReservingCommit
    <2>4. CASE worker[w].to \notin R!Effects
      <3>1. /\ history' = R!CommitPhase(history, b) /\ worker' = [worker EXCEPT ![w] = R!Idle]
            /\ UNCHANGED <<intent, row>>
        BY <1>19, <2>4 DEF R!WalkCommits
      <3> HIDE DEF b
      <3>2. /\ worker' \in [Workers -> Walkers]
            /\ \A v \in Workers : worker'[v] = worker[v] \/ worker'[v] = R!Idle
        BY <1>1, <1>3, <3>1 DEF RecoveryTypes
      <3>3. Known(b.to)
        BY <2>1, <2>4 DEF Known
      <3> QED  BY <1>5, <2>1, <2>2, <3>1, <3>2, <3>3, PlainCommit
    <2> QED  BY <2>3, <2>4
  <1>20. ASSUME NEW w \in Workers, R!Submits(w) PROVE RecoveryInvariant'
    <2> DEFINE e == worker[w].phase
               new == [worker[w] EXCEPT !.pc = "settle"]
    <2>1. /\ Armed(w) /\ e \in R!Effects /\ sent[e] = 0 /\ intent[e] # "none"
      BY <1>1, <1>2, <1>20 DEF R!Submits, Armed, OneAuthority, Known
    <2>2. /\ sent' = [sent EXCEPT ![e] = 1]
          /\ UNCHANGED <<history, intent, row, pause, operator>>
      BY <1>1, <1>20, <2>1 DEF R!Submits, RecoveryTypes
    <2>3. /\ new \in Walkers /\ new.pc = "settle" /\ new.phase = e
          /\ worker' = [worker EXCEPT ![w] = new]
      BY <1>1, <1>2, <1>20 DEF R!Submits, Walkers, WalkerPcs, RecoveryTypes
    <2> HIDE DEF e, new
    <2>4. /\ worker' \in [Workers -> Walkers] /\ worker'[w] = new
          /\ \A v \in Workers \ {w} : worker'[v] = worker[v]
      BY <1>1, <2>3 DEF RecoveryTypes
    <2>5. RecoveryTypes'
      BY <1>1, <2>2, <2>4 DEF RecoveryTypes
    <2>6. EffectsAreKnown'
      BY <1>1, <2>1, <2>2, <2>3, <2>4, <1>2 DEF EffectsAreKnown, Known, RecoveryTypes, e
    <2>7. OneAuthority'
      <3>1. ASSUME NEW v \in Workers \ {w}, Armed(v)
            PROVE  worker[v].phase # e /\ worker[v].phase \in R!Effects
        BY <1>1, <2>1, <3>1 DEF OneAuthority, Armed, e
      <3>2. \A x \in R!Effects : sent'[x] = IF x = e THEN 1 ELSE sent[x]
        BY <1>1, <2>1, <2>2 DEF RecoveryTypes
      <3>3. \A v \in Workers : Armed(v)' => v # w /\ Armed(v)
        BY <2>3, <2>4 DEF Armed
      <3>4. \A v \in Workers : /\ worker'[v].pc \in {"effect", "settle"} => worker'[v].phase \in R!Effects
                               /\ Armed(v)' => sent'[worker'[v].phase] = 0
        BY <1>1, <2>1, <2>3, <2>4, <3>1, <3>2, <3>3 DEF OneAuthority
      <3>5. \A u, v \in Workers : Armed(u)' /\ Armed(v)' /\ worker'[u].phase = worker'[v].phase => u = v
        BY <1>1, <2>4, <3>3 DEF OneAuthority
      <3>6. R!SubmittedOnce'
        BY <1>1, <3>2 DEF OneAuthority, R!SubmittedOnce
      <3> QED  BY <3>4, <3>5, <3>6 DEF OneAuthority
    <2>8. PromptsAreBounded'
      <3>1. Counting' \subseteq Counting /\ Counting \subseteq Workers /\ pause' = pause
        BY <2>2, <2>3, <2>4 DEF Counting
      <3>2. /\ Cardinality(Counting') <= Cardinality(Counting)
            /\ Cardinality(Counting') \in Nat /\ Cardinality(Counting) \in Nat
        BY <3>1, FS_Subset, FS_CardinalityType, RecoveryBounds
      <3> QED  BY <1>1, <3>1, <3>2, RecoveryBounds DEF PromptsAreBounded, RecoveryTypes
    <2>9. R!ReservationHasPhase'
      BY <2>2 DEF RecoveryInvariant, R!ReservationHasPhase
    <2> QED  BY <2>5, <2>6, <2>7, <2>8, <2>9 DEF RecoveryInvariant
  <1>21. ASSUME NEW w \in Workers, R!Settles(w) PROVE RecoveryInvariant'
    <2> DEFINE e == worker[w].phase
    <2>1. e \in R!Effects /\ (R!CompleteEffect(e) \/ R!MarkOutcomeUnknown(e))
      BY <1>1, <1>21 DEF R!Settles, OneAuthority
    <2>2. /\ worker' = [worker EXCEPT ![w] = R!Idle] /\ UNCHANGED <<history, pause, operator, sent>>
      BY <1>21 DEF R!Settles
    <2>3. /\ worker' \in [Workers -> Walkers]
          /\ \A v \in Workers : worker'[v] = worker[v] \/ worker'[v] = R!Idle
      BY <1>1, <1>3, <2>2 DEF RecoveryTypes
    <2> HIDE DEF e
    <2> QED  BY <1>5, <2>1, <2>2, <2>3, KeySettles
  <1>22. ASSUME NEW b \in R!Boundary, NEW keys \in SUBSET R!Effects, Known(b.to),
                R!Controls(b, keys), UNCHANGED <<history, intent, row, pause, worker, sent>>
         PROVE  RecoveryInvariant'
    <2>1. operator' = [pc |-> "busy", keys |-> keys, plan |-> b]
      BY <1>22 DEF R!Controls
    <2>2. RecoveryTypes'
      BY <1>1, <1>22, <2>1 DEF RecoveryTypes
    <2>3. EffectsAreKnown'
      BY <1>1, <1>22, <2>1 DEF EffectsAreKnown, Known
    <2> QED  BY <1>22, <2>2, <2>3
             DEF RecoveryInvariant, OneAuthority, Armed, R!SubmittedOnce, PromptsAreBounded,
                 Counting, R!ReservationHasPhase
  <1>23. CASE R!ResumeFromCaptcha
    <2> DEFINE b == R!Crossing("captcha_paused", pause.phase, R!Last.attempt + 1, "captcha_paused", "step")
    <2>1. b \in R!Boundary /\ b.to = pause.phase
      BY <1>1, <1>4, <1>23, PhaseShape
         DEF R!ResumeFromCaptcha, R!Crossing, R!Boundary, R!Codes, RecoveryTypes
    <2>2. R!Controls(b, {}) /\ UNCHANGED <<history, intent, row, pause, worker, sent>>
      BY <1>23 DEF R!ResumeFromCaptcha
    <2> HIDE DEF b
    <2> QED  BY <1>1, <1>22, <2>1, <2>2 DEF EffectsAreKnown
  <1>24. CASE R!CancelAtCaptcha
    <2> DEFINE b == R!Crossing("captcha_paused", "cancelled", R!Last.attempt, "captcha_paused", "step")
    <2>1. b \in R!Boundary /\ b.to = "cancelled"
      BY <1>4, PhaseShape DEF R!Crossing, R!Boundary, R!Codes
    <2>2. R!Controls(b, {}) /\ UNCHANGED <<history, intent, row, pause, worker, sent>>
      BY <1>24 DEF R!CancelAtCaptcha
    <2>3. Known("cancelled")
      BY PhaseShape DEF Known
    <2> HIDE DEF b
    <2> QED  BY <1>22, <2>1, <2>2, <2>3
  <1>25. CASE R!RequestPause
    <2> DEFINE pauses == R!PauseCount(history)
               b == R!Crossing(R!Last.to, "paused", R!Last.attempt + pauses, "paused", "step")
               keys == {e \in R!Effects : row[e].disposition \in {"execute", "reconcile"}}
    <2>1. pauses \in Nat
      <3>1. DOMAIN history = 1..Len(history) /\ Len(history) \in Nat
        BY <1>1 DEF RecoveryTypes
      <3>2. IsFiniteSet(1..Len(history))
        BY <3>1, FS_Interval
      <3>3. IsFiniteSet({i \in DOMAIN history : history[i].to = "paused"})
        BY <3>1, <3>2, FS_Subset
      <3> QED  BY <3>3, FS_CardinalityType, SameCardinality DEF R!PauseCount
    <2> HIDE DEF pauses
    <2>2. b \in R!Boundary /\ b.to = "paused"
      BY <1>4, <2>1, PhaseShape DEF R!Crossing, R!Boundary, R!Codes
    <2>3. R!Controls(b, keys) /\ UNCHANGED <<history, intent, row, pause, worker, sent>>
      BY <1>25 DEF R!RequestPause, pauses
    <2>4. Known("paused") /\ keys \subseteq R!Effects
      BY PhaseShape DEF Known
    <2> HIDE DEF b, keys
    <2> QED  BY <1>22, <2>2, <2>3, <2>4
  <1>26. CASE R!PauseSettles
    <2>1. PICK e \in operator.keys : /\ R!CompleteEffect(e) \/ R!MarkOutcomeUnknown(e)
                                     /\ operator' = [operator EXCEPT !.keys = @ \ {e}]
      BY <1>26 DEF R!PauseSettles
    <2>2. UNCHANGED <<history, pause, worker, sent>>
      BY <1>26 DEF R!PauseSettles
    <2>3. /\ operator' \in [pc: {"idle", "busy", "release"}, keys: SUBSET R!Effects, plan: R!Boundary]
          /\ operator'.plan = operator.plan /\ e \in R!Effects
      BY <1>5, <2>1
    <2>4. worker' \in [Workers -> Walkers]
      BY <1>1, <2>2 DEF RecoveryTypes
    <2> QED  BY <2>1, <2>2, <2>3, <2>4, KeySettles
  <1>27. CASE R!ControlCommits
    <2> DEFINE b == operator.plan
               to == IF b.to = "cancelled" THEN "release" ELSE "idle"
    <2>1. /\ UNCHANGED <<intent, row, pause, worker, sent>>
          /\ operator' = [operator EXCEPT !.pc = to]
          /\ history' = R!CommitPhase(history, b) \/ history' = history
      BY <1>27 DEF R!ControlCommits
    <2>2. /\ operator' \in [pc: {"idle", "busy", "release"}, keys: SUBSET R!Effects, plan: R!Boundary]
          /\ operator'.plan = operator.plan
      BY <1>5, <2>1
    <2>3. b \in R!Boundary /\ Known(b.to) /\ worker' \in [Workers -> Walkers]
      BY <1>1, <1>5, <2>1 DEF EffectsAreKnown, RecoveryTypes
    <2> HIDE DEF b, to
    <2>4. CASE history' = R!CommitPhase(history, b)
      BY <2>1, <2>2, <2>3, <2>4, PlainCommit
    <2>5. CASE history' = history
      BY <1>1, <2>1, <2>2, <2>5
         DEF RecoveryInvariant, RecoveryTypes, EffectsAreKnown, Known, OneAuthority, Armed,
             R!SubmittedOnce, PromptsAreBounded, Counting, R!ReservationHasPhase
    <2> QED  BY <2>1, <2>4, <2>5
  <1>28. CASE R!CancelReleases \/ (\E s \in Sessions : R!SessionExpires(s))
    <2>1. /\ UNCHANGED <<history, intent, row, pause, worker, sent>>
          /\ operator' = operator \/ operator' = [operator EXCEPT !.pc = "idle"]
      BY <1>28 DEF R!CancelReleases, R!SessionExpires
    <2>2. /\ operator' \in [pc: {"idle", "busy", "release"}, keys: SUBSET R!Effects, plan: R!Boundary]
          /\ operator'.plan = operator.plan
      BY <1>5, <2>1
    <2> QED  BY <1>1, <2>1, <2>2
             DEF RecoveryInvariant, RecoveryTypes, EffectsAreKnown, Known, OneAuthority, Armed,
                 R!SubmittedOnce, PromptsAreBounded, Counting, R!ReservationHasPhase
  <1> QED  BY <1>6, <1>7, <1>9, <1>11, <1>12, <1>13, <1>15, <1>16, <1>17, <1>18, <1>19, <1>20,
              <1>21, <1>23, <1>24, <1>25, <1>26, <1>27, <1>28 DEF R!RecoveryNext, R!WorkerStep

LEMMA RecoverySafe ==
    ASSUME RecoveryInvariant
    PROVE  R!RecoveryTypeOK /\ R!SubmittedOnce /\ R!CountCoversSent /\ R!ReservationHasPhase
  <1>1. RecoveryTypes /\ EffectsAreKnown /\ OneAuthority /\ PromptsAreBounded
    BY DEF RecoveryInvariant
  <1>2. Counting \subseteq Workers
    BY DEF Counting
  <1>3. Cardinality(Counting) \in Nat
    BY <1>2, FS_Subset, FS_CardinalityType, RecoveryBounds
  <1>4. pause.prompts \in 0..(MaxPauses + R!Cardinality(Workers) - 1)
    BY <1>1, <1>3, RecoveryBounds, SameCardinality DEF RecoveryTypes, PromptsAreBounded
  <1>5. \A i \in DOMAIN history : history[i] \in R!Boundary
    BY <1>1 DEF RecoveryTypes
  <1>6. R!RecoveryTypeOK
    BY <1>1, <1>4, <1>5 DEF R!RecoveryTypeOK, RecoveryTypes, Walkers
  <1>7. R!CountCoversSent
    BY <1>1 DEF R!CountCoversSent, R!SubmissionCount, EffectsAreKnown, RecoveryTypes
  <1> QED  BY <1>1, <1>6, <1>7 DEF RecoveryInvariant, OneAuthority


-----------------------------------------------------------------------------
(* The theorems: a behaviour of MCSpec keeps the invariant of its part.       *)

\* Creating a batch (ops/runs/service.py): whoever posts it again, races with it or
\* dies over it, a batch leaves one run per member, what was promised is queued and
\* carries its hint, an answered run is open, and a signup route is one that was
\* reviewed.
THEOREM IntakeIsSafe == MCSpec => []IntakeSafety
  <1> DEFINE Inv == part = "intake" => IntakeInvariant
  <1>1. MCInit => Inv
    BY IntakeInitially DEF MCInit
  <1>2. Inv /\ [MCNext]_<<part, intakeVars, planned, schema, recovered>> => Inv'
    <2> SUFFICES ASSUME Inv, [MCNext]_<<part, intakeVars, planned, schema, recovered>>,
                        part' = "intake"
                 PROVE  IntakeInvariant'
      OBVIOUS
    <2>1. part = "intake" /\ IntakeInvariant
      BY DEF MCNext
    <2>2. IntakeNext \/ UNCHANGED intakeVars
      BY <2>1 DEF MCNext
    <2>3. CASE IntakeNext
      BY <2>1, <2>3, IntakeSteps
    <2>4. CASE UNCHANGED intakeVars
      BY <2>1, <2>4
         DEF intakeVars, IntakeInvariant, IntakeTypes, RunsExist, RoutesInHand, App,
             HintPrecedesQueue, OpenIsOwed, OneRunPerMember, PromisedIsQueued, QueuedIsHinted,
             RouteIsReviewed
    <2> QED  BY <2>2, <2>3, <2>4
  <1>3. Inv => IntakeSafety
    BY IntakeSafe DEF IntakeSafety
  <1> QED  BY <1>1, <1>2, <1>3, PTL DEF MCSpec

\* Planning and replanning a route (ops/planner, ops/runs/service.py replan_run_route):
\* whatever admissions and drives race for, the plans of a run form one line of at most
\* two revisions, a session starts on a plan the recipe in force admits, and a page is
\* shown as on the way only if it is on a host of the plan it was held against.
THEOREM PlanningIsSafe == MCSpec => []PlanningSafety
  <1> DEFINE Inv == part = "planning" => PlanningInvariant
  <1>1. MCInit => Inv
    BY PlanningInitially DEF MCInit
  <1>2. Inv /\ [MCNext]_<<part, intakeVars, planned, schema, recovered>> => Inv'
    <2> SUFFICES ASSUME Inv, [MCNext]_<<part, intakeVars, planned, schema, recovered>>,
                        part' = "planning"
                 PROVE  PlanningInvariant'
      OBVIOUS
    <2>1. part = "planning" /\ PlanningInvariant
      BY DEF MCNext
    <2>2. P!PlanningNext \/ UNCHANGED planned
      BY <2>1 DEF MCNext
    <2>3. CASE P!PlanningNext
      BY <2>1, <2>3, PlanningSteps
    <2>4. CASE UNCHANGED planned
      BY <2>1, <2>4
         DEF planned, PlanningInvariant, PlanningTypes, Stands, P!Active, P!Last,
             P!PlansAreLinear, P!ShownIsOnRoute
    <2> QED  BY <2>2, <2>3, <2>4
  <1>3. Inv => PlanningSafety
    BY PlanningSafe DEF PlanningSafety
  <1> QED  BY <1>1, <1>2, <1>3, PTL DEF MCSpec

\* Opening the run ledger (ops/core/storage.py initialize): wherever any of the openers
\* is killed, and in whatever order they migrate the tables, no row of a rebuilt table is
\* destroyed, and an operation that is let through finds the columns and the CHECK it
\* relies on; a table or the index is missing only behind another opener's rebuild.
THEOREM SchemaIsSafe == MCSpec => []SchemaSafety
  <1> DEFINE Inv == part = "schema" => SchemaInvariant
  <1>1. MCInit => Inv
    BY SchemaInitially DEF MCInit
  <1>2. Inv /\ [MCNext]_<<part, intakeVars, planned, schema, recovered>> => Inv'
    <2> SUFFICES ASSUME Inv, [MCNext]_<<part, intakeVars, planned, schema, recovered>>,
                        part' = "schema"
                 PROVE  SchemaInvariant'
      OBVIOUS
    <2>1. part = "schema" /\ SchemaInvariant
      BY DEF MCNext
    <2>2. S!SchemaNext \/ UNCHANGED schema
      BY <2>1 DEF MCNext
    <2>3. CASE S!SchemaNext
      BY <2>1, <2>3, SchemaSteps
    <2>4. CASE UNCHANGED schema
      BY <2>1, <2>4
         DEF schema, SchemaInvariant, LedgerInvariant, SchemaTypes, SeenIsThere, RowsStand,
             TablesStand, IndexStands, Behind, Rewritten, S!T, S!At, S!Renaming, S!Indexing,
             S!NoRowIsDestroyed
    <2> QED  BY <2>2, <2>3, <2>4
  <1>3. Inv => SchemaSafety
    BY SchemaSafe DEF SchemaSafety
  <1> QED  BY <1>1, <1>2, <1>3, PTL DEF MCSpec

\* Recovering an interrupted run (ops/runs/resume.py, ops/onboarding/driver.py): with
\* any number of rival workers, pauses and deaths, an effect is submitted at most once,
\* the count covers what was sent, and a reservation belongs to a phase of the history.
THEOREM RecoveryIsSafe == MCSpec => []RecoverySafety
  <1> DEFINE Inv == part = "recovery" => RecoveryInvariant
  <1>1. MCInit => Inv
    BY RecoveryInitially DEF MCInit
  <1>2. Inv /\ [MCNext]_<<part, intakeVars, planned, schema, recovered>> => Inv'
    <2> SUFFICES ASSUME Inv, [MCNext]_<<part, intakeVars, planned, schema, recovered>>,
                        part' = "recovery"
                 PROVE  RecoveryInvariant'
      OBVIOUS
    <2>1. part = "recovery" /\ RecoveryInvariant
      BY DEF MCNext
    <2>2. R!RecoveryNext \/ UNCHANGED recovered
      BY <2>1 DEF MCNext
    <2>3. CASE R!RecoveryNext
      BY <2>1, <2>3, RecoverySteps
    <2>4. CASE UNCHANGED recovered
      BY <2>1, <2>4
         DEF recovered, RecoveryInvariant, RecoveryTypes, EffectsAreKnown, Known, Armed,
             OneAuthority, R!SubmittedOnce, Counting, PromptsAreBounded, R!ReservationHasPhase
    <2> QED  BY <2>2, <2>3, <2>4
  <1>3. Inv => RecoverySafety
    BY RecoverySafe DEF RecoverySafety
  <1> QED  BY <1>1, <1>2, <1>3, PTL DEF MCSpec
=============================================================================
