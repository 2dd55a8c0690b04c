----------------------------- MODULE RunIntake -----------------------------
(***************************************************************************)
(* How a run comes into being: the API's create and batch create           *)
(* (api/service.py), the canonical runtime's create (ops/workflow/         *)
(* canonical_runtime.py) on the run ledger, and the researched signup      *)
(* routes that are laid over the reviewed catalog (ops/recipes/            *)
(* signup_overlay.py, ops/research/signup_agent.py).  Callers post the     *)
(* same batch under one idempotency key, again after a crash, and with     *)
(* another configuration; a restart may bring another catalog.             *)
(***************************************************************************)
EXTENDS Integers, Sequences, FiniteSets, SequencesExt

CONSTANTS
    Callers,        \* concurrent HTTP requests
    Batch,          \* the apps of the batch, in request order
    Hosts,          \* hosts a signup route may be on
    Catalogs,       \* the reviewed recipes an app may have
    Site,           \* the host each app's own site links to for registration
    MaxPosts,       \* bound: requests
    MaxRestarts     \* bound: restarts of the process

ASSUME IntakeAssumption ==
    /\ IsFiniteSet(Callers) /\ IsFiniteSet(Hosts) /\ "none" \notin Hosts
    /\ Batch \in Seq(STRING) /\ Batch # <<>> /\ IsInjective(Batch)
    \* A reviewed signup route lies on a reviewed host.
    /\ \A r \in Catalogs : /\ r.hosts \subseteq Hosts
                            /\ r.signup \in r.hosts \cup {"none"}
    /\ MaxPosts \in Nat /\ MaxRestarts \in Nat

VARIABLES
    catalog,    \* the reviewed recipe of each app: its hosts and its own signup route
    stored,     \* signup_overlays.db: the researched finding of each app
    found,      \* the process-wide registry of findings
    runs,       \* the run ledger, in creation order
    call,       \* the requests in progress
    created,    \* runs answered as created, with whether onboarding was asked for
    posts, restarts

intakeVars == <<catalog, stored, found, runs, call, created, posts, restarts>>

Apps == Range(Batch)
Routes == Hosts \cup {"none"}
Asked == [fp: {1, 2}, onboarding: BOOLEAN]
NoRequest == [fp |-> 1, onboarding |-> FALSE]
NoCall == [pc |-> "idle", ask |-> NoRequest, at |-> 1, route |-> "none", run |-> 0]

IntakeTypeOK ==
    /\ catalog \in [Apps -> Catalogs]
    /\ stored \in [Apps -> Routes] /\ found \in [Apps -> Routes]
    /\ \A i \in DOMAIN runs :
          /\ runs[i].app \in Apps /\ runs[i].fp \in {1, 2} /\ runs[i].route \in Routes
          /\ runs[i].status \in {"route_selected", "started", "configuration_required"}
          /\ runs[i].opened \in BOOLEAN /\ runs[i].hinted \in BOOLEAN /\ runs[i].queued \in BOOLEAN
    /\ \A c \in Callers : call[c].at \in DOMAIN Batch /\ call[c].ask \in Asked /\ call[c].run \in 0..Len(runs)
    /\ \A a \in created : a[1] \in DOMAIN runs /\ a[2] \in BOOLEAN
    /\ posts \in 0..MaxPosts /\ restarts \in 0..MaxRestarts

IntakeInit ==
    /\ catalog \in [Apps -> Catalogs]
    /\ stored = [a \in Apps |-> "none"] /\ found = stored
    /\ runs = <<>> /\ call = [c \in Callers |-> NoCall] /\ created = {}
    /\ posts = 0 /\ restarts = 0

----------------------------------------------------------------------------

(* The overlay: a finding fills a gap of the reviewed recipe, on a host    *)
(* the recipe already navigates to, or it is refused.                      *)

\* apply_signup_finding
Installs(app, finding) ==
    finding # "none" /\ catalog[app].signup = "none" /\ finding \in catalog[app].hosts

\* get_app_recipe: the route in force, the reviewed one first.
RouteInForce(app) ==
    IF Installs(app, found[app]) THEN found[app] ELSE catalog[app].signup

\* overlay_for drops a finding that the catalog no longer admits.
OverlayFor(app) == [found EXCEPT ![app] = IF Installs(app, @) THEN @ ELSE "none"]

\* research_signup_route: the reviewed hosts alone decide what may be found.
Researched(app) == IF Site[app] \in catalog[app].hosts THEN Site[app] ELSE "none"

Goes(c, to) == call' = [call EXCEPT ![c] = to]
App(c) == Batch[call[c].at]

Post(c) ==
    /\ call[c].pc = "idle" /\ posts < MaxPosts
    /\ c = CHOOSE d \in Callers : call[d].pc = "idle"    \* callers are alike
    /\ posts' = posts + 1
    /\ \E ask \in Asked : Goes(c, [NoCall EXCEPT !.pc = "research", !.ask = ask])
    /\ UNCHANGED <<catalog, stored, found, runs, created, restarts>>

\* _research_signup_route: only for a route nobody reviewed or found, and
\* best-effort; install_signup_finding keeps in memory what it cannot store.
ResearchSignupRoute(c) ==
    /\ call[c].pc = "research"
    /\ LET app == App(c)
           finding == Researched(app)
       IN  IF RouteInForce(app) = "none" /\ Installs(app, finding)
           THEN \/ /\ found' = [found EXCEPT ![app] = finding]
                   /\ stored' \in {stored, [stored EXCEPT ![app] = finding]}
                \/ found' = OverlayFor(app) /\ UNCHANGED stored    \* the site does not answer
           ELSE found' = OverlayFor(app) /\ UNCHANGED stored
    /\ Goes(c, [call[c] EXCEPT !.pc = "lookup"])
    /\ UNCHANGED <<catalog, runs, created, posts, restarts>>

----------------------------------------------------------------------------
(* CanonicalRuntime.create_run, once per app of the batch.                 *)
Matching(app) == {i \in DOMAIN runs : runs[i].app = app}

\* create_run_batch: the app's entry is written, and the next one is begun.
NextMember(c) ==
    IF call[c].at = Len(Batch) THEN NoCall
    ELSE [call[c] EXCEPT !.pc = "research", !.at = @ + 1, !.run = 0]

\* The read that needs no transaction; the recipe is bound here.
LookupIdempotent(c) ==
    /\ call[c].pc = "lookup"
    /\ found' = OverlayFor(App(c))
    /\ \/ /\ Matching(App(c)) = {}
          /\ Goes(c, [call[c] EXCEPT !.pc = "ready", !.route = RouteInForce(App(c))])
       \/ \E i \in Matching(App(c)) :
             IF runs[i].fp = call[c].ask.fp THEN Goes(c, [call[c] EXCEPT !.pc = "replay", !.run = i])
             ELSE Goes(c, NextMember(c))    \* idempotency_conflict
    /\ UNCHANGED <<catalog, stored, runs, created, posts, restarts>>

\* Refused before a row exists: no signup route, or a provider that is not ready.
CheckReadiness(c) ==
    /\ call[c].pc = "ready"
    /\ \/ call[c].route # "none" /\ Goes(c, [call[c] EXCEPT !.pc = "commit"])
       \/ Goes(c, NextMember(c))
    /\ UNCHANGED <<catalog, stored, found, runs, created, posts, restarts>>

NewRun(c) ==
    [app |-> App(c), fp |-> call[c].ask.fp, route |-> call[c].route, hosts |-> catalog[App(c)].hosts,
     status |-> "route_selected", opened |-> FALSE, hinted |-> FALSE, queued |-> FALSE]

InsertsAnyway(c) ==
    /\ runs' = Append(runs, NewRun(c))
    /\ Goes(c, [call[c] EXCEPT !.pc = "open", !.run = Len(runs) + 1])

\* The transaction repeats the read, so that one of two creates inserts.
InsertsOnce(c) ==
    \/ /\ Matching(App(c)) = {}
       /\ runs' = Append(runs, NewRun(c))
       /\ Goes(c, [call[c] EXCEPT !.pc = "open", !.run = Len(runs) + 1])
    \/ /\ \E i \in Matching(App(c)) :
             IF runs[i].fp = call[c].ask.fp THEN Goes(c, [call[c] EXCEPT !.pc = "answer", !.run = i])
             ELSE Goes(c, NextMember(c))
       /\ UNCHANGED runs

CommitRun(c) ==
    /\ call[c].pc = "commit" /\ InsertsOnce(c)
    /\ UNCHANGED <<catalog, stored, found, created, posts, restarts>>

Mine(c) == call[c].run
Writes(c, run, pc) ==
    /\ runs' = [runs EXCEPT ![Mine(c)] = run] /\ Goes(c, [call[c] EXCEPT !.pc = pc])
    /\ UNCHANGED <<catalog, stored, found, created, posts, restarts>>

\* _commit_phase_boundary, outside of the run's transaction.
OpenHistory(c) ==
    call[c].pc = "open" /\ Writes(c, [runs[Mine(c)] EXCEPT !.opened = TRUE], "start")

\* Staging the login may fail; otherwise the attempt starts, which commits the
\* boundaries that are still missing.
StartRun(c) ==
    /\ call[c].pc = "start"
    /\ \/ Writes(c, [runs[Mine(c)] EXCEPT !.status = "started", !.opened = TRUE], "answer")
       \/ Writes(c, [runs[Mine(c)] EXCEPT !.status = "configuration_required"], "answer")

\* A replay continues a run that nobody has started, and answers the others.
ReplayRun(c) ==
    /\ call[c].pc = "replay"
    /\ IF runs[Mine(c)].status = "route_selected"
       THEN \/ Writes(c, [runs[Mine(c)] EXCEPT !.status = "started", !.opened = TRUE], "answer")
            \/ Writes(c, [runs[Mine(c)] EXCEPT !.status = "configuration_required"], "answer")
       ELSE Writes(c, runs[Mine(c)], "answer")

----------------------------------------------------------------------------

(* Back in the API: the onboarding request and its queue row, in this      *)
(* order, and then the answer.                                             *)

\* _enqueue_onboarding: append_audit_event
RequestOnboarding(c) == Writes(c, [runs[Mine(c)] EXCEPT !.hinted = TRUE], "enqueue")

Hint(c) == call[c].pc = "answer" /\ call[c].ask.onboarding /\ RequestOnboarding(c)

\* The queue folds a second enqueue into the row it has.
Enqueue(c) ==
    call[c].pc = "enqueue" /\ Writes(c, [runs[Mine(c)] EXCEPT !.queued = TRUE], "done")

AnswerCreated(c) ==
    /\ call[c].pc = IF call[c].ask.onboarding THEN "done" ELSE "answer"
    /\ created' = created \cup {<<Mine(c), call[c].ask.onboarding>>}
    /\ Goes(c, NextMember(c))
    /\ UNCHANGED <<catalog, stored, found, runs, posts, restarts>>

\* Requests die with the process; the next one reads the store again, and may
\* have been built with another catalog.
Restart ==
    /\ restarts < MaxRestarts /\ restarts' = restarts + 1
    /\ call' = [c \in Callers |-> NoCall] /\ found' = stored
    /\ \/ UNCHANGED catalog
       \/ \E app \in Apps, recipe \in Catalogs : catalog' = [catalog EXCEPT ![app] = recipe]
    /\ UNCHANGED <<stored, runs, created, posts>>

IntakeNext ==
    \/ \E c \in Callers :
          \/ Post(c) \/ ResearchSignupRoute(c) \/ LookupIdempotent(c) \/ CheckReadiness(c)
          \/ CommitRun(c) \/ OpenHistory(c) \/ StartRun(c) \/ ReplayRun(c)
          \/ Hint(c) \/ Enqueue(c) \/ AnswerCreated(c)
    \/ Restart

IntakeSpec == IntakeInit /\ [][IntakeNext]_intakeVars

----------------------------------------------------------------------------
\* However often one batch is posted, and however the posts interleave with each
\* other and with restarts, an app of it has one run.
OneRunPerMember == \A i, j \in DOMAIN runs : runs[i].app = runs[j].app => i = j

\* An answer that promised onboarding names a run that a worker will find.
PromisedIsQueued == \A a \in created : a[2] => runs[a[1]].queued

\* A run that a worker may claim carries what the request asked for, although the
\* process may die between the two writes.
QueuedIsHinted == \A i \in DOMAIN runs : runs[i].queued => runs[i].hinted

\* A run's signup route lies on a host that was reviewed when the run was made,
\* whatever was researched under an earlier catalog.
RouteIsReviewed == \A i \in DOMAIN runs : runs[i].route \in runs[i].hosts

\* A run that was answered has its opening boundary, or the create that made it
\* is about to write it.  (After a crash in between, a replay that cannot start
\* the run leaves it without: see README.)
AnsweredIsOpen ==
    \A a \in created :
        restarts = 0 => \/ runs[a[1]].opened
                        \/ \E c \in Callers : call[c].pc = "open" /\ call[c].run = a[1]
=============================================================================
