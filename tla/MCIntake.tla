------------------------------ MODULE MCIntake ------------------------------
(***************************************************************************)
(* What a run is before and between its walks, in one model: its creation, *)
(* its plan, the schema of the ledger it is stored in, and its recovery    *)
(* after an interruption.  A behaviour is one of the four; the others stay *)
(* where they start.                                                       *)
(***************************************************************************)
EXTENDS RunIntake, TLC

CONSTANTS
    Threads, MaxRevision,
    Openers, Runs, Columns, Altered, MaxDeaths,
    Workers, Sessions, MaxHistory, MaxPauses, MaxControls, MaxFaults

VARIABLES
    part,
    recipe, plans, run, thread, shown, replans,
    ledger, odd, table, legacy, opener, recorded, deaths,
    history, intent, row, pause, session, worker, operator, sent, faults

planned == <<recipe, plans, run, thread, shown, replans>>
schema == <<ledger, odd, table, legacy, opener, recorded, deaths>>
recovered == <<history, intent, row, pause, session, worker, operator, sent, faults>>

-----------------------------------------------------------------------------
(* A batch of two apps.  The first app's site links to a host its recipe may  *)
(* or may not navigate to, the second one's recipe may have a reviewed route. *)

MCBatch == <<"a", "b">>
MCSite == [a |-> "h1", b |-> "h2"]
MCCatalogs ==
    {[hosts |-> {"h1"}, signup |-> "none"], [hosts |-> {"h2"}, signup |-> "none"],
     [hosts |-> {"h1", "h2"}, signup |-> "h2"]}

-----------------------------------------------------------------------------
(* A recipe that ends at a credential page behind another host's login, and   *)
(* one that only names the entry; a browser on and off the route; a planner   *)
(* that answers with the route, with a page nobody reviewed, or with another  *)
(* recipe's route.                                                            *)

NoSurface == <<"none", "none">>

Keys ==
    [scope |-> "credential_surface", exact |-> {"app", "auth"}, postAuth |-> {"console"},
     login |-> <<"auth", "login">>, signup |-> NoSurface, portal |-> NoSurface,
     cred |-> <<"app", "keys">>, steps |-> <<<<"auth", "login">>, NoSurface>>,
     success |-> {"keys"}]

Entry ==
    [scope |-> "entry_only", exact |-> {"app"}, postAuth |-> {},
     login |-> <<"app", "login">>, signup |-> <<"app", "join">>, portal |-> NoSurface,
     cred |-> NoSurface, steps |-> <<<<"app", "login">>, NoSurface>>, success |-> {"home"}]

Page(at, status, visible) == [at |-> at, status |-> status, shown |-> visible]

MCPages ==
    {Page(<<"app", "keys">>, "ready", TRUE), Page(<<"auth", "login">>, "navigating", TRUE),
     Page(<<"app", "home">>, "navigating", TRUE), Page(NoSurface, "navigating", FALSE),
     Page(<<"console", "login">>, "human", TRUE), Page(<<"app", "login">>, "failed", TRUE)}

Plan(surfaces, cred) == [surfaces |-> surfaces, cred |-> cred, source |-> "planner"]

MCProposed ==
    {Plan(<<<<"auth", "login">>, <<"app", "keys">>>>, <<"app", "keys">>),
     Plan(<<<<"auth", "keys">>>>, <<"app", "keys">>),
     Plan(<<<<"app", "join">>, <<"app", "login">>>>, NoSurface)}

MCRecipes == {Keys, Entry}

P == INSTANCE RunPlanning WITH
        restarts <- replans, Recipes <- MCRecipes, Pages <- MCPages, Proposed <- MCProposed
S == INSTANCE LedgerSchema
R == INSTANCE RunRecovery

ASSUME IntakePartsAssumption ==
    P!PlanningAssumption /\ S!SchemaAssumption /\ R!RecoveryAssumption

-----------------------------------------------------------------------------
MCInit ==
    /\ part \in {"intake", "planning", "schema", "recovery"}
    /\ IntakeInit /\ \A x \in Apps : catalog[x].signup = "none"
    /\ part # "intake" => catalog = [x \in Apps |-> [hosts |-> {"h1"}, signup |-> "none"]]
    /\ P!PlanningInit /\ (part # "planning" => recipe = Keys)
    /\ S!SchemaInit /\ (part # "schema" => ~ledger.made)
    /\ R!RecoveryInit

MCNext ==
    /\ UNCHANGED part
    /\ \/ part = "intake" /\ IntakeNext /\ UNCHANGED <<planned, schema, recovered>>
       \/ part = "planning" /\ P!PlanningNext /\ UNCHANGED <<intakeVars, schema, recovered>>
       \/ part = "schema" /\ S!SchemaNext /\ UNCHANGED <<intakeVars, planned, recovered>>
       \/ part = "recovery" /\ R!RecoveryNext /\ UNCHANGED <<intakeVars, planned, schema>>

MCSpec == MCInit /\ [][MCNext]_<<part, intakeVars, planned, schema, recovered>>

-----------------------------------------------------------------------------
\* POST /runs, replayed or raced: a batch leaves one run per member, a run whose
\* onboarding was promised is queued, with its hint first, and whatever signup
\* route it was given was reviewed or lies on a reviewed host.
IntakeSafety == part = "intake" =>
    /\ IntakeTypeOK /\ OneRunPerMember /\ PromisedIsQueued /\ QueuedIsHinted
    /\ RouteIsReviewed /\ AnsweredIsOpen

\* The plans of a run form one line of revisions whoever records them, a browser
\* starts on a plan validated against the recipe in force, and a page is only
\* shown as on route when it is.
PlanningSafety == part = "planning" =>
    P!PlanningTypeOK /\ P!PlansAreLinear /\ P!StartsOnReviewedRoute /\ P!ShownIsOnRoute

\* Whoever opens an older database, and wherever a migration is killed: no row of
\* a rebuilt table is destroyed, and an operation that is let through finds the
\* columns and the CHECK of its release.  A rebuilt table or the index of runs it
\* may miss, but only while another opener is rebuilding what was rebuilt before.
SchemaSafety == part = "schema" =>
    S!SchemaTypeOK /\ S!NoRowIsDestroyed /\ S!OperationsFindTheSchema

\* recover_run with rival workers, pauses and deaths: an effect is submitted at
\* most once, the submission count covers what was sent, and a reservation
\* belongs to a phase the history has.
RecoverySafety == part = "recovery" =>
    R!RecoveryTypeOK /\ R!SubmittedOnce /\ R!CountCoversSent /\ R!ReservationHasPhase

\* What the comments of the two rebuild migrations say of the rows they move.
RowsArePreserved == S!RowsArePreserved

\* What recover_run says of a phase behind the login.
DrivesSignedIn == R!DrivesSignedIn
=============================================================================
