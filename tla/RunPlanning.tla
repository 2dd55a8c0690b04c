---------------------------- MODULE RunPlanning ----------------------------
(***************************************************************************)
(* The route a run may drive (ops/planner, ops/runs/service.py             *)
(* replan_run_route): a model picks and orders surfaces out of the values  *)
(* a reviewed recipe declares, the reviewed route is the fallback, the     *)
(* validator compares either with the recipe, and the plan is recorded     *)
(* before the first session.  While the browser runs, what it landed on is *)
(* compared with the plan, which may be replaced once.                     *)
(*                                                                         *)
(* A surface is a host and a path.  A path "contains" a success fragment   *)
(* iff it is in the recipe's set success.                                  *)
(***************************************************************************)
EXTENDS Integers, Sequences, FiniteSets, SequencesExt

CONSTANTS
    Threads,        \* threads of the canonical runtime at work on one run
    Recipes,        \* the recipes the catalog may have for the app
    Pages,          \* where a browser may be found
    Proposed,       \* bound: the answers a model may give
    MaxRevision,    \* bound: state revisions of the run
    MaxRestarts     \* bound: restarts, with another catalog perhaps

NoSurface == <<"none", "none">>
Host(s) == s[1]
Path(s) == s[2]
Targets(recipe) == {s \in Range(recipe.steps) : s # NoSurface}

\* BrowserRecipe.validate_browser
ValidBrowser(recipe) ==
    /\ \A s \in Targets(recipe) : Host(s) \in recipe.exact \cup recipe.postAuth
    /\ recipe.exact \cap recipe.postAuth = {}
    /\ recipe.scope = "credential_surface" => recipe.success # {}

\* AppRecipe._validate_playwright
ValidRecipe(recipe) ==
    /\ ValidBrowser(recipe)
    /\ Host(recipe.login) \in recipe.exact /\ recipe.steps[1] = recipe.login
    /\ recipe.signup # NoSurface => Host(recipe.signup) \in recipe.exact
    /\ (recipe.scope = "entry_only") <=> (recipe.cred = NoSurface)

PlanningAssumption ==
    /\ IsFiniteSet(Threads) /\ MaxRevision \in Nat /\ MaxRestarts \in Nat
    /\ \A recipe \in Recipes : ValidRecipe(recipe)

VARIABLES
    recipe,     \* get_app_recipe: the recipe in force
    plans,      \* onboarding_run_plans of the run, by revision
    run,        \* the run's row
    thread,     \* the threads
    shown,      \* what was projected last: the page and the plan it was held against
    restarts

planningVars == <<recipe, plans, run, thread, shown, restarts>>

NoPlan == [surfaces |-> <<>>, cred |-> NoSurface, source |-> "none"]
Idle == [pc |-> "idle", plan |-> NoPlan, page |-> "none", rev |-> 0, effect |-> 0,
         step |-> 0, act |-> "none", again |-> FALSE]

----------------------------------------------------------------------------
(* The planning decision.                                                  *)

\* declared_surface_paths
DeclaredPaths(r) ==
    {Path(s) : s \in ({r.login, r.signup, r.portal, r.cred} \cup Targets(r)) \ {NoSurface}}

\* DeclaredPaths.admits: a declared path, or one with a success fragment.
Admits(r, path) == path \in DeclaredPaths(r) \cup r.success

\* What the schema lets a model say; it cannot author a host or a path.
Offered(r) == r.exact \X DeclaredPaths(r)

\* plan_decision_schema and _payload_validator
Sayable(payload, r) ==
    /\ Len(payload.surfaces) \in 1..Len(r.steps) /\ Range(payload.surfaces) \subseteq Offered(r)
    /\ IF r.scope = "entry_only" THEN payload.cred = NoSurface ELSE payload.cred \in Offered(r)

\* recipe_route_plan: the entry, then the steps' targets, each once, in order.
RecipeRoutePlan(r) ==
    LET candidates == <<r.login>> \o r.steps
        Kept == {i \in DOMAIN candidates :
                    candidates[i] # NoSurface /\ \A j \in 1..(i - 1) : candidates[j] # candidates[i]}
        Nth(n) == CHOOSE i \in Kept : Cardinality({j \in Kept : j < i}) = n - 1
    IN  [surfaces |-> [n \in 1..Cardinality(Kept) |-> candidates[Nth(n)]], cred |-> r.cred, source |-> "recipe"]

\* _check_surface
Declared(r, s) == Host(s) \in r.exact /\ Admits(r, Path(s))

\* validate_plan
ValidPlan(plan, r) ==
    /\ Len(plan.surfaces) <= Len(r.steps)
    /\ \A i \in DOMAIN plan.surfaces : Declared(r, plan.surfaces[i])
    /\ IF r.scope = "entry_only" THEN plan.cred = NoSurface
       ELSE plan.cred # NoSurface /\ Host(plan.cred) \in r.exact /\ Path(plan.cred) \in r.success

\* decide_run_plan: no provider, an unusable prompt, a failed or an unusable
\* decision end at the reviewed route.
DecideRunPlan(r) ==
    {RecipeRoutePlan(r)} \cup {p \in Proposed : Sayable(p, r) /\ ValidPlan(p, r)}

----------------------------------------------------------------------------
(* The plan table.                                                         *)
Active == IF plans = <<>> THEN NoPlan ELSE Last(plans).plan

\* record_run_plan: the revision before it is superseded in the same transaction.
RecordRunPlan(plan) ==
    plans' = Append([i \in DOMAIN plans |-> IF plans[i].status = "active"
                                            THEN [plans[i] EXCEPT !.status = "superseded", !.by = Len(plans) + 1]
                                            ELSE plans[i]],
                    [plan |-> plan, status |-> "active", by |-> 0])

\* record_initial_plan: the first of two admissions wins.
RecordInitialPlan(plan) == IF plans = <<>> THEN RecordRunPlan(plan) ELSE UNCHANGED plans

Goes(t, to) == thread' = [thread EXCEPT ![t] = to]

PlanningInit ==
    /\ recipe \in Recipes /\ plans = <<>>
    /\ run = [rev |-> 0, attempt |-> 0, effect |-> 0, running |-> FALSE]
    /\ thread = [t \in Threads |-> Idle] /\ shown = [page |-> "none", plan |-> NoPlan, act |-> "none"] /\ restarts = 0

----------------------------------------------------------------------------
(* _start_playwright: plan_admission comes before the start is reserved.      *)

ReusesUnseen(t) ==
    Active # NoPlan /\ Goes(t, [thread[t] EXCEPT !.pc = "start", !.plan = Active])

\* An active plan is validated and reused.
Reuses(t) ==
    /\ Active # NoPlan
    /\ Goes(t, IF ValidPlan(Active, recipe) THEN [thread[t] EXCEPT !.pc = "start", !.plan = Active]
               ELSE Idle)    \* plan_refused

Plans(t) ==
    /\ Active = NoPlan
    /\ \E plan \in DecideRunPlan(recipe) :
          Goes(t, IF ValidPlan(plan, recipe) THEN [thread[t] EXCEPT !.pc = "record", !.plan = plan]
                  ELSE Idle)    \* the reviewed route is refused too

PlanAdmission(t) ==
    /\ thread[t].pc = "idle" /\ ~run.running /\ run.rev < MaxRevision
    /\ Reuses(t) \/ Plans(t)
    /\ UNCHANGED <<recipe, plans, run, shown, restarts>>

\* The durable winner is validated, whoever proposed it.
RecordAdmitted(t) ==
    /\ thread[t].pc = "record"
    /\ RecordInitialPlan(thread[t].plan)
    /\ LET winner == Last(plans').plan
       IN  Goes(t, IF ValidPlan(winner, recipe) THEN [thread[t] EXCEPT !.pc = "start", !.plan = winner]
                   ELSE Idle)
    /\ UNCHANGED <<recipe, run, shown, restarts>>

Start(t) ==
    /\ thread[t].pc = "start" /\ run.rev < MaxRevision
    /\ run' = [rev |-> run.rev + 1, attempt |-> run.attempt + 1, effect |-> run.attempt + 1, running |-> TRUE]
    /\ Goes(t, [Idle EXCEPT !.pc = "drive", !.effect = run.attempt + 1])
    /\ UNCHANGED <<recipe, plans, shown, restarts>>

----------------------------------------------------------------------------
(* _apply_browser_observation: the page, the revision it is held against, and    *)
(* the plan, which is read again for each question.                        *)
Observe(t) ==
    /\ thread[t].pc = "drive" /\ run.running
    /\ IF run.effect = thread[t].effect
       THEN \E page \in Pages : Goes(t, [thread[t] EXCEPT !.pc = "resolve", !.page = page, !.rev = run.rev])
       ELSE Goes(t, Idle)
    /\ UNCHANGED <<recipe, plans, run, shown, restarts>>

\* _adherence_step_index: the surface the page is, or the one it should be;
\* 0 when there is nothing to compare.
AdherenceStepIndex(page, plan) ==
    LET matches == {i \in DOMAIN plan.surfaces : plan.surfaces[i] = page.at}
        keys == {i \in DOMAIN plan.surfaces : plan.surfaces[i] = plan.cred}
        Lowest(S) == CHOOSE i \in S : \A j \in S : i <= j
    IN  CASE page.status = "failed" \/ plan = NoPlan    -> 0
          [] page.status # "failed" /\ matches # {}     -> Lowest(matches)
          [] page.status = "human" /\ matches = {}      -> 0
          [] page.status = "navigating" /\ matches = {} -> 1
          [] page.status = "ready" /\ matches = {}      ->
                IF keys # {} THEN Lowest(keys) ELSE Len(plan.surfaces)

ResolveStep(t) ==
    /\ thread[t].pc = "resolve"
    /\ LET step == AdherenceStepIndex(thread[t].page, Active)
       IN  Goes(t, IF step = 0 THEN [thread[t] EXCEPT !.pc = "project", !.act = "proceed"]
                   ELSE [thread[t] EXCEPT !.pc = "compare", !.step = step])
    /\ UNCHANGED <<recipe, plans, run, shown, restarts>>

\* observe_surface and decide_adherence; a step the plan has no surface for is inert.
DecideAdherence(page, plan, step, count) ==
    CASE plan = NoPlan \/ step > Len(plan.surfaces)                        -> "proceed"
      [] plan # NoPlan /\ step <= Len(plan.surfaces) ->
            CASE plan.surfaces[step] = page.at                             -> "proceed"
              [] plan.surfaces[step] # page.at /\ ~page.shown              -> "pause"
              [] plan.surfaces[step] # page.at /\ page.shown ->
                    IF Host(page.at) = Host(plan.surfaces[step]) THEN "proceed"
                    ELSE IF count > 1 THEN "pause" ELSE "replan"

ObserveSurface(t) ==
    /\ thread[t].pc = "compare"
    /\ LET act == DecideAdherence(thread[t].page, Active, thread[t].step, Len(plans))
       IN  Goes(t, IF act = "replan" /\ ~thread[t].again
                   THEN [thread[t] EXCEPT !.pc = "replan"]
                   ELSE [thread[t] EXCEPT !.pc = "project", !.act = IF act = "proceed" THEN act ELSE "pause"])
    /\ UNCHANGED <<recipe, plans, run, shown, restarts>>

\* What the transaction writes to the run's row.
ReplannedRow == [run EXCEPT !.rev = @ + 1, !.attempt = @ + 1]

\* replan_run_route: the operation must still own the run; the plan may have been
\* replaced already, and then only by the same one.
ReplanRunRoute(t) ==
    /\ thread[t].pc = "replan" /\ run.rev < MaxRevision
    /\ IF ~run.running \/ run.rev # thread[t].rev \/ run.effect # thread[t].effect
       THEN Goes(t, Idle) /\ UNCHANGED <<plans, run>>    \* stale
       ELSE \E plan \in DecideRunPlan(recipe) :
               IF ValidPlan(plan, recipe) /\ Len(plans) = 1
               THEN /\ RecordRunPlan(plan) /\ run' = ReplannedRow
                    /\ Goes(t, [thread[t] EXCEPT !.pc = "resolve", !.rev = @ + 1, !.again = TRUE])
               ELSE /\ UNCHANGED <<plans, run>>
                    /\ Goes(t, [thread[t] EXCEPT !.pc = "project", !.act = "pause"])
    /\ UNCHANGED <<recipe, shown, restarts>>

Project(t) ==
    /\ thread[t].pc = "project"
    /\ IF run.running /\ run.rev = thread[t].rev /\ run.effect = thread[t].effect /\ run.rev < MaxRevision
       THEN /\ shown' = [page |-> thread[t].page, plan |-> Active, act |-> thread[t].act]
            /\ run' = [run EXCEPT !.rev = @ + 1,
                                  !.running = thread[t].act = "proceed" /\ thread[t].page.status = "navigating"]
       ELSE UNCHANGED <<shown, run>>
    /\ Goes(t, Idle)
    /\ UNCHANGED <<recipe, plans, restarts>>

\* An owner's action, a sweep, a second drive of the same session.
DriveAgain(t) ==
    /\ thread[t].pc = "idle" /\ run.running
    /\ Goes(t, [Idle EXCEPT !.pc = "drive", !.effect = run.effect])
    /\ UNCHANGED <<recipe, plans, run, shown, restarts>>

PauseRun ==
    /\ run.running /\ run.rev < MaxRevision
    /\ run' = [run EXCEPT !.rev = @ + 1, !.running = FALSE]
    /\ UNCHANGED <<recipe, plans, thread, shown, restarts>>

Redeploy ==
    /\ restarts < MaxRestarts /\ restarts' = restarts + 1
    /\ thread' = [t \in Threads |-> Idle] /\ recipe' \in Recipes
    /\ run' = [run EXCEPT !.running = FALSE]    \* the sessions end with the process
    /\ UNCHANGED <<plans, shown>>

PlanningNext ==
    \/ \E t \in Threads :
          \/ PlanAdmission(t) \/ RecordAdmitted(t) \/ Start(t) \/ Observe(t) \/ ResolveStep(t)
          \/ ObserveSurface(t) \/ ReplanRunRoute(t) \/ Project(t) \/ DriveAgain(t)
    \/ PauseRun \/ Redeploy

PlanningSpec == PlanningInit /\ [][PlanningNext]_planningVars

----------------------------------------------------------------------------
PlanningTypeOK ==
    /\ recipe \in Recipes /\ Len(plans) <= 3 /\ restarts \in 0..MaxRestarts
    /\ run.rev \in 0..MaxRevision /\ run.running \in BOOLEAN

\* A run has one active plan, the newest, each older one names its successor, and
\* it is replaced at most once, whatever two admissions or two drives race for.
PlansAreLinear ==
    /\ Len(plans) <= 2
    /\ \A i \in DOMAIN plans :
          IF i = Len(plans) THEN plans[i].status = "active" /\ plans[i].by = 0
          ELSE plans[i].status = "superseded" /\ plans[i].by = i + 1

\* A session is only ever started on a plan that the recipe in force admits,
\* although the plan may have been recorded under another catalog.
StartsOnReviewedRoute ==
    \A t \in Threads : thread[t].pc = "start" => ValidPlan(thread[t].plan, recipe)

\* What a run is shown to have reached without a person is on a host of the plan
\* it was held against, even if the plan changed while it was being compared.
ShownIsOnRoute ==
    (shown.act = "proceed" /\ shown.plan # NoPlan /\ shown.page.status \in {"navigating", "ready"}) =>
        Host(shown.page.at) \in {Host(s) : s \in Range(shown.plan.surfaces)}

\* "an admissible fallback: a human already reviewed every value in it": the
\* reviewed route of a recipe that the catalog accepts is a plan the validator
\* accepts.  It is not when a step opens a post-authentication host, or the
\* credential page's path has none of the success fragments.
FallbackIsAdmissible == ValidPlan(RecipeRoutePlan(recipe), recipe)

\* "every planned surface must be declared by the run's own recipe": the validator
\* compares hosts and paths apart, and admits a path of one host on another.
PlannedIsDeclared ==
    \A i \in DOMAIN plans :
        Range(plans[i].plan.surfaces) \subseteq
            UNION {{r.login, r.signup, r.portal, r.cred} \cup Targets(r) : r \in Recipes}
=============================================================================
