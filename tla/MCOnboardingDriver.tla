------------------------- MODULE MCOnboardingDriver -------------------------
(***************************************************************************)
(* One run, driven in two regimes: the whole walk by one worker, with      *)
(* operators between its turns; or two workers at once, with an operator   *)
(* between any two of their steps, which are beyond TLC for the whole      *)
(* walk, so they race up to the account.  Budgets of one or two are enough *)
(* to be met and to be passed.  Liveness, and the budget of generations,   *)
(* are run on the walk's two halves: up to the account's verification, and *)
(* from a signed-in session on, whose history SignedIn is the shortest one *)
(* the login route leaves.                                                 *)
(***************************************************************************)
EXTENDS OnboardingDriver, TLC

CONSTANTS w1, w2, w3

ToAccount == {"research", "vault_check", "awaiting_admission", "route_selected_signup",
              "signup", "route_selected_login"}

ToCredential == {"developer_app", "credential_generation", "vault_storage",
                 "credential_validation"}

Halves == ToAccount \cup ToCredential \cup {"email_verification"}

Alone(controls, bound, phases) ==
    [workers |-> {w1}, longSteps |-> FALSE, concurrent |-> FALSE,
     controls |-> controls, maxControls |-> bound, explored |-> phases]

WholeWalk == Alone({"resume", "cancel", "reset", "decide"}, 1, Phases)

\* An operator who comes twice: before there is a session, and in a run whose account
\* is held already.
Twice == {Alone({"resume", "cancel", "reset", "decide"}, 2, Phases \ ToCredential),
          Alone({"resume", "reset"}, 2, Phases \ {"signup"})}

Rivals ==
    [workers |-> {w2, w3}, longSteps |-> TRUE, concurrent |-> TRUE,
     controls |-> {"decide", "authorize", "cancel"}, maxControls |-> 1, explored |-> ToAccount]

WalkAndRivals == {WholeWalk, Rivals} \cup Twice

EitherHalf == {Alone(ControlKinds, 1, Halves)}

\* One worker up to the account, and a cancel during any of its steps.
Race == {[Alone({"cancel"}, 1, ToAccount) EXCEPT !.concurrent = TRUE]}

Symmetry == Permutations({w2, w3})

Step(from, to) == Crossing(from, to, 0, from, "step")

SignedIn ==
    << Step("research", "vault_check"),
       Step("vault_check", "route_selected_login"),
       Step("route_selected_login", "authenticated"),
       Step("authenticated", "developer_app") >>

InitSignedIn ==
    /\ hist = SignedIn /\ owner = NoWorker
    /\ walk = [w \in Workers |-> Idle]
    /\ decision = "login" /\ standing = FALSE /\ login = TRUE
    /\ counters = [captcha |-> 0, admission |-> 0, verification |-> 0,
                   validation |-> 0, generation |-> 0]
    /\ effects = [signup |-> "none", devapp |-> "none", minted |-> {}, spent |-> {}]
    /\ outcome = NoOutcome /\ pauseOpen = FALSE /\ control = NoControl /\ asked = 0
    /\ regime \in Regimes

\* The owner was asked and has answered, and nothing has been done about it yet.
InitAnswered ==
    /\ hist = << Step("research", "vault_check"), Step("vault_check", "awaiting_admission") >>
    /\ owner = NoWorker /\ walk = [w \in Workers |-> Idle]
    /\ decision \in {"signup", "cancelled"} /\ standing = FALSE /\ login = FALSE
    /\ counters = [captcha |-> 0, admission |-> 1, verification |-> 0,
                   validation |-> 0, generation |-> 0]
    /\ effects = [signup |-> "none", devapp |-> "none", minted |-> {}, spent |-> {}]
    /\ outcome = NoOutcome /\ pauseOpen = FALSE /\ control = NoControl /\ asked = 1
    /\ regime \in Regimes

HalvesSpec ==
    /\ Init \/ InitAnswered \/ InitSignedIn
    /\ [][Next]_vars /\ Fairness

-----------------------------------------------------------------------------
\* One worker at a time, and operators between its turns only.
Sequential == ~regime.longSteps /\ ~regime.concurrent

\* The regime gives the app no standing authorization after its run has begun.
NeverAuthorized == "authorize" \notin regime.controls

\* One worker over every phase, with crashes and operators between its turns: no
\* account without a recorded agreement, no CAPTCHA past the budget, the first
\* credential resumed at its validation once it is stored, and an end that is final.
WalkSafety ==
    /\ []TypeOK /\ [](NeverAuthorized => SignupIsAuthorized)
    /\ [](Sequential => CaptchaWithinBudget /\ StoredIsResumedAtValidation)
    /\ [][Sequential => KeepsItsEnd]_vars

\* Two workers at once and an operator between any two of their steps: one prompt,
\* every CAPTCHA pause counted before it is asked, no transition the table refuses,
\* and no effect ahead of its boundary.
RivalsSafety ==
    AdmissionAskedOnce /\ CountedBeforeAsked /\ NoRefusedStep /\ EffectsFollowBoundaries

\* A replaced credential stays within its budget, a completed run was minted, and
\* the recorded outcome names a phase the run reached.
MintSafety ==
    /\ ~regime.longSteps => MintsWithinBudget /\ CompletedIsMinted
    /\ OutcomeIsCommitted

\* A decision moves the run off the gate, and every ended run gets its outcome.
DriverIsLive == DecisionIsActedOn /\ EndIsRecorded
=============================================================================
