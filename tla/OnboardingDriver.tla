-------------------------- MODULE OnboardingDriver --------------------------
(* The walk of one onboarding run through its phases: drive_run and the phase *)
(* handlers (ops/onboarding/driver.py, handlers.py, admission.py,             *)
(* credentials.py, ops/browser/signup.py), the operator's controls            *)
(* (ops/runs/resume.py, reconciliation.py, api/service.py), and the durable   *)
(* rows they share: the phase history, the run counters, the admission        *)
(* decision, the login references in the vault, the credential reservations   *)
(* and the autonomy outcome.                                                  *)
(*                                                                            *)
(* Every read and every write of a row is a transaction of its own.  A step   *)
(* of the model is one of them, or several that no interleaving can tell from *)
(* one.  Which worker may walk is OnboardingWorker's subject: here owner is   *)
(* the worker that holds the run's fencing token, and before_step lets only   *)
(* that worker go on.                                                         *)
EXTENDS OnboardingPhase

CONSTANTS
    Workers,
    NoWorker,
    Regimes,            \* what a behaviour is exposed to: one of these
    CaptchaBudget,      \* CaptchaBudget.max_pauses
    VerificationBudget, \* VerificationBudget.max_attempts
    ValidationBudget,   \* CredentialBudgets.validation_attempts
    Generations         \* CredentialBudgets.generations

ControlKinds == {"pause", "resume", "cancel", "reset", "retry", "decide", "authorize"}

(* workers: who claims the run; longSteps: a phase may outlast its lease, so  *)
(* another worker claims; concurrent: operators act while a worker is walking *)
(* the run; controls: those an operator uses; maxControls: bound, how often;  *)
(* explored: bound, the phases a walk drives (in others it stands still).     *)
ASSUME DriverAssumption ==
    /\ NoWorker \notin Workers /\ IsFiniteSet(Workers)
    /\ \A r \in Regimes :
        /\ r.workers \subseteq Workers /\ r.controls \subseteq ControlKinds
        /\ r.longSteps \in BOOLEAN /\ r.concurrent \in BOOLEAN
        /\ r.maxControls \in Nat /\ r.explored \subseteq Phases
    /\ CaptchaBudget \in Nat /\ VerificationBudget \in Nat
    /\ ValidationBudget \in Nat \ {0} /\ Generations \in Nat \ {0}

VARIABLES
    hist,       \* onboarding_phase_history
    owner,      \* the worker whose fencing token the lease row carries
    walk,       \* walk[w]: the drive_run call worker w is in
    decision,   \* onboarding_admission_decisions: none, login, signup, cancelled
    standing,   \* the deployment's standing authorization covers this app
    login,      \* the vault holds the account's login references
    counters,   \* onboarding_run_state: captcha_prompts, admission_prompts, ...
    effects,    \* what the effect ledger holds for the run's three effects
    outcome,    \* the run's autonomy outcome, or NoOutcome
    pauseOpen,  \* what pause_requested answers
    control,    \* the operator request in progress
    asked,      \* admission prompts emitted to the operator
    regime

vars == <<hist, owner, walk, decision, standing, login, counters, effects, outcome,
          pauseOpen, control, asked, regime>>

(* pc: idle | top (of the loop) | drive (the phase's handler) | captcha (the  *)
(*     pause count is read, not yet written) | store, prove (the credential   *)
(*     is captured; is stored) | commit | unwind | record                     *)
(* to, code: the step the handler reported; prompted: the walk committed a    *)
(*     CAPTCHA pause; reroute: reroute_pending; gen: the generation the       *)
(*     lifecycle read; memo: CredentialOutcomeMemo                            *)
Idle == [pc |-> "idle", phase |-> "research", attempt |-> 0, to |-> "research",
         code |-> "step", reroute |-> FALSE, prompted |-> FALSE, gen |-> 0,
         memo |-> "none"]

Memos == {"none", "completed", "credential_generation"}

Walk == [pc : {"idle", "top", "drive", "captcha", "store", "prove", "commit", "unwind",
               "record"},
         phase : Phases, attempt : Nat, to : Phases, code : Codes,
         reroute : BOOLEAN, prompted : BOOLEAN, gen : Nat, memo : Memos]

Counters == [captcha : Nat, admission : 0..1, verification : 0..VerificationBudget,
             validation : 0..ValidationBudget, generation : Nat]

\* open: reserved and not answered, which a later arrival is told to pause on.
\* duplicate is what the provider answered; the row says completed for both.
Effects == [signup : {"none", "open", "created", "duplicate"},
            devapp : {"none", "open", "completed"},
            minted : SUBSET Nat,    \* generations whose mint is completed
            spent : SUBSET Nat]     \* generations whose mint is open

Routes == {"none", "login", "signup", "cancelled"}

Verdicts == {"none", "fully_autonomous", "operator_assisted", "cancelled", "blocked"}

NoOutcome == [phase |-> "research", verdict |-> "none"]

\* kind: what is left of an operator's request; plan: the boundary it will
\* commit, computed from the last boundary it read.
NoPlan == Crossing("research", "research", 0, "research", "step")

NoControl == [kind |-> "none", plan |-> NoPlan, used |-> 0]

ControlRequest == [kind : {"none", "commit", "resume", "cancel", "reset", "reset_due",
                           "cancel_due"},
                   plan : Boundary, used : Nat]

Init ==
    /\ hist = << >> /\ owner = NoWorker
    /\ walk = [w \in Workers |-> Idle]
    /\ decision = "none" /\ standing \in BOOLEAN /\ login \in BOOLEAN
    /\ counters = [captcha |-> 0, admission |-> 0, verification |-> 0,
                   validation |-> 0, generation |-> 0]
    /\ effects = [signup |-> "none", devapp |-> "none", minted |-> {}, spent |-> {}]
    /\ outcome = NoOutcome /\ pauseOpen = FALSE /\ control = NoControl /\ asked = 0
    /\ regime \in Regimes

rows == <<decision, standing, login, counters, effects>>

-----------------------------------------------------------------------------
(* drive_run: entering, ownership, and the two ways out of a step             *)

Walking(w) == walk[w].pc # "idle"

\* A worker claims a run nobody holds, one whose worker died, and, where a step
\* can outlast its lease, one that is still being driven.  A parked run is
\* claimed and let go at once, which changes nothing.
Claim(w) ==
    /\ w \in regime.workers /\ ~Walking(w)
    /\ regime.longSteps \/ \A v \in Workers : owner = v => ~Walking(v)
    /\ regime.concurrent \/ control.kind = "none"
    /\ ResumptionPhase(hist) \notin Waiting
    /\ ResumptionPhase(hist) \in Terminal => outcome = NoOutcome
    /\ owner' = w
    /\ walk' = [walk EXCEPT ![w] = [Idle EXCEPT
            !.pc = IF ResumptionPhase(hist) \in Terminal THEN "unwind" ELSE "top",
            !.phase = ResumptionPhase(hist), !.attempt = ResumptionAttempt(hist),
            !.reroute = RerouteStands(hist)]]
    /\ UNCHANGED <<hist, rows, outcome, pauseOpen, control, asked, regime>>

\* before_step: the owner goes on, anyone else is fenced out.
BeforeStep(w) ==
    /\ walk[w].pc = "top" /\ walk[w].phase \in regime.explored
    /\ walk' = [walk EXCEPT ![w].pc = IF owner = w THEN "drive" ELSE "unwind"]
    /\ UNCHANGED <<hist, owner, rows, outcome, pauseOpen, control, asked, regime>>

At(w, phase) == walk[w].pc = "drive" /\ walk[w].phase = phase

\* The handler returned PhaseStep.advance or .pause.
Reports(w, to, code) ==
    walk' = [walk EXCEPT ![w].pc = "commit", ![w].to = to, ![w].code = code]

\* The handler returned PhaseStep.yield: nothing is committed.
Defers(w) == walk' = [walk EXCEPT ![w].pc = "unwind"]

apart == <<hist, owner, outcome, pauseOpen, control, regime>>

-----------------------------------------------------------------------------
(* The handlers                                                               *)

\* ResearchPhaseHandler: a profile, or a deferral; no failure is a transition.
Research(w) ==
    /\ At(w, "research")
    /\ Reports(w, "vault_check", "step") \/ Defers(w)
    /\ UNCHANGED <<apart, rows, asked>>

\* record_admission_decision: ON CONFLICT(run_id) DO NOTHING.
Winner(route) == IF decision = "none" THEN route ELSE decision

\* VaultCheckPhaseHandler: the route comes from the probe, not from the winner.
VaultCheck(w) ==
    /\ At(w, "vault_check")
    /\ IF login THEN decision' = Winner("login") /\ Reports(w, "route_selected_login", "step")
       ELSE IF standing
       THEN decision' = Winner("signup") /\ Reports(w, "route_selected_signup", "step")
       ELSE UNCHANGED decision /\ Reports(w, "awaiting_admission", "step")
    /\ UNCHANGED <<apart, standing, login, counters, effects, asked>>

\* Mutant: the standing authorization is not looked up again.
AdmissionWithoutRecheck(w) ==
    /\ At(w, "awaiting_admission")
    /\ \/ decision = "signup" /\ Reports(w, "route_selected_signup", "step")
       \/ decision = "cancelled" /\ Reports(w, "cancelled", "step")
    /\ UNCHANGED <<apart, rows, asked>>

\* AdmissionPhaseHandler with an answer: the recorded one, or the one the
\* standing authorization gives if nobody was quicker.  (A login decision makes
\* the handler raise, see HandlerRaises; research keeps the profile a run has, so
\* a decision for another profile does not occur.)
Admission(w) ==
    LET answer == IF standing THEN Winner("signup") ELSE decision IN
    /\ At(w, "awaiting_admission")
    /\ decision' = answer
    /\ \/ answer = "signup" /\ Reports(w, "route_selected_signup", "step")
       \/ answer = "cancelled" /\ Reports(w, "cancelled", "step")
    /\ UNCHANGED <<apart, standing, login, counters, effects, asked>>

\* AdmissionPhaseHandler with nobody's answer: record_admission_prompt counts
\* only while the committed phase is awaiting_admission and the count is zero.
AskAdmission(w) ==
    LET due == counters.admission = 0 /\ ResumptionPhase(hist) = "awaiting_admission" IN
    /\ At(w, "awaiting_admission")
    /\ decision = "none" /\ ~standing
    /\ counters' = [counters EXCEPT !.admission = IF due THEN 1 ELSE @]
    /\ asked' = IF due THEN asked + 1 ELSE asked
    /\ Defers(w)
    /\ UNCHANGED <<apart, decision, standing, login, effects>>

\* enter_signup
EnterSignup(w) ==
    /\ At(w, "route_selected_signup")
    /\ \E to \in {"signup", "paused"} : Reports(w, to, "step")
    /\ UNCHANGED <<apart, rows, asked>>

\* _promote, best effort: the staged pair may stay in the staged scope.
Promotes == \E done \in BOOLEAN : login' = (login \/ done)

\* SignupPhaseHandler on a key that has a row: skip, or pause on an open one.
SignupAgain(w) ==
    /\ At(w, "signup")
    /\ \/ /\ effects.signup \in {"created", "duplicate"}
          /\ Promotes
          /\ Reports(w, "email_verification", "step")
       \/ effects.signup = "open" /\ Reports(w, "paused", "step") /\ UNCHANGED login
    /\ UNCHANGED <<apart, decision, standing, counters, effects, asked>>

\* ... on a fresh key: the submission and what the provider answered.  A gate
\* that is not a CAPTCHA and an unknown outcome leave the key open; a failed
\* submission, a refused plan and an absent policy leave it unused.
Signup(w) ==
    /\ At(w, "signup") /\ effects.signup = "none"
    /\ \/ /\ effects' = [effects EXCEPT !.signup = "created"]
          /\ Promotes
          /\ \E to \in {"email_verification", "paused"} : Reports(w, to, "step")
       \/ /\ effects' = [effects EXCEPT !.signup = "duplicate"]
          /\ Promotes
          /\ Reports(w, "route_selected_login", "duplicate_account")
       \/ /\ \E s \in {"none", "open"} : effects' = [effects EXCEPT !.signup = s]
          /\ Reports(w, "paused", "step") /\ UNCHANGED login
    /\ UNCHANGED <<apart, decision, standing, counters, asked>>

\* _drive_verification: a rung of the durable ladder per visit; past the last
\* one only the comparison matters, so the count stays there.
Verification(w) ==
    /\ At(w, "email_verification")
    /\ \/ /\ counters.verification >= VerificationBudget
          /\ Reports(w, "paused", "step") /\ UNCHANGED counters
       \/ /\ counters.verification < VerificationBudget
          /\ counters' = [counters EXCEPT !.verification = @ + 1]
          /\ \/ \E to \in {"authenticated", "paused"} : Reports(w, to, "step")
             \/ Defers(w)
    /\ UNCHANGED <<apart, decision, standing, login, effects, asked>>

\* I4: a re-routed run has its signup references adopted before the login phase
\* is driven.
Adopts(w) == login' = (login \/ (walk[w].reroute /\ walk[w].phase = "route_selected_login"))

\* run_action_loop: done, or a pause with a reason; a refused plan and a failed
\* decision pause too.
LoopPhase(w) ==
    /\ At(w, "route_selected_login") \/ At(w, "authenticated")
    /\ Adopts(w)
    /\ \E to \in {PhaseSuccessors[walk[w].phase], "paused"} :
          walk' = [walk EXCEPT ![w].pc = "commit", ![w].to = to, ![w].code = "step",
                               ![w].reroute = FALSE]
    /\ UNCHANGED <<apart, decision, standing, counters, effects, asked>>

\* drive_developer_app: a gate pauses above the reservation, a phase that stopped
\* short leaves it open.
DeveloperApp(w) ==
    /\ At(w, "developer_app")
    /\ \/ /\ effects.devapp = "completed" \/ effects.devapp = "none"
          /\ effects' = [effects EXCEPT !.devapp = "completed"]
          /\ Reports(w, "credential_generation", "step")
       \/ /\ \E s \in {"none", "open"} :
                effects' = [effects EXCEPT !.devapp = IF @ = "none" THEN s ELSE @]
          /\ effects.devapp # "completed"
          /\ Reports(w, "paused", "step")
    /\ UNCHANGED <<apart, decision, standing, login, counters, asked>>

-----------------------------------------------------------------------------
(* CAPTCHA pauses                                                             *)

\* A handler stopped between its reservation and the answer.
LeftOpen(phase) ==
    [effects EXCEPT
        !.signup = IF phase = "signup" /\ @ = "none" THEN "open" ELSE @,
        !.devapp = IF phase = "developer_app" /\ @ = "none" THEN "open" ELSE @]

CaptchaSpent(n) == n >= CaptchaBudget

\* The loop, or the signup form, met a CAPTCHA: pause_for_captcha reads how many
\* prompts the run has had.  Signup and developer_app reserved before they met it.
MeetsCaptcha(w) ==
    /\ walk[w].pc = "drive"
    /\ walk[w].phase \in SessionBearing \ {"captcha_paused", "email_verification"}
    /\ walk[w].phase = "signup" => effects.signup = "none"
    /\ walk[w].phase = "developer_app" => effects.devapp = "none"
    /\ effects' = LeftOpen(walk[w].phase)
    /\ Adopts(w)
    /\ IF CaptchaSpent(counters.captcha)
       THEN walk' = [walk EXCEPT ![w].pc = "commit", ![w].to = "paused", ![w].code = "step",
                                 ![w].reroute = FALSE]
       ELSE walk' = [walk EXCEPT ![w].pc = "captcha", ![w].reroute = FALSE]
    /\ UNCHANGED <<apart, decision, standing, counters, asked>>

\* Mutant: the pause is committed and never counted.
RecordsNothing(w) ==
    /\ walk[w].pc = "captcha"
    /\ Reports(w, "captcha_paused", "step")
    /\ UNCHANGED <<apart, rows, asked>>

\* ... and then records this one: record_captcha_pause.
RecordsCaptcha(w) ==
    /\ walk[w].pc = "captcha"
    /\ counters' = [counters EXCEPT !.captcha = @ + 1]
    /\ Reports(w, "captcha_paused", "step")
    /\ UNCHANGED <<apart, decision, standing, login, effects, asked>>

-----------------------------------------------------------------------------
(* The credential: capture_store_validate_publish, entered from               *)
(* credential_generation and, when no memo is held, from credential_validation *)

EntersLifecycle(w) ==
    At(w, "credential_generation") \/ (At(w, "credential_validation") /\ walk[w].memo = "none")

\* _stored_reference: adopt this generation's credential, or capture it.
Capture(w) ==
    /\ EntersLifecycle(w)
    /\ effects.devapp = "completed" /\ counters.generation \notin effects.spent
    /\ effects' = [effects EXCEPT !.minted = @ \cup {counters.generation}]
    /\ walk' = [walk EXCEPT ![w].pc = "store", ![w].gen = counters.generation]
    /\ UNCHANGED <<apart, decision, standing, login, counters, asked>>

\* No developer application, no specification, an unarmed surface, an open key,
\* or a capture whose outcome is unknown, which spends the key.
CaptureFails(w) ==
    LET g == counters.generation IN
    /\ EntersLifecycle(w)
    /\ \/ UNCHANGED effects
       \/ /\ effects.devapp = "completed" /\ g \notin effects.minted \cup effects.spent
          /\ effects' = [effects EXCEPT !.spent = @ \cup {g}]
    /\ Reports(w, "paused", "step")
    /\ UNCHANGED <<apart, decision, standing, login, counters, asked>>

Stored(h, thread) ==
    LET attempt == ResumptionAttempt(h)
    IN  CommitPhase(
            CommitPhase(h, Crossing("credential_generation", "vault_storage", attempt, thread,
                                    "step")),
            Crossing("vault_storage", "credential_validation", attempt, thread, "step"))

\* _commit_storage_boundaries, at the attempt the history stands at.
Stores(w) ==
    /\ walk[w].pc = "store"
    /\ hist' = Stored(hist, walk[w].phase)
    /\ walk' = [walk EXCEPT ![w].pc = "prove"]
    /\ UNCHANGED <<owner, outcome, pauseOpen, control, rows, asked, regime>>

\* The step the lifecycle earned.  credential_generation keeps an advance in the
\* memo and reports the boundary that is already durable.
Earns(w, to) ==
    IF walk[w].phase = "credential_generation"
    THEN walk' = [walk EXCEPT ![w].pc = "commit", ![w].to = "vault_storage",
                              ![w].code = "step", ![w].memo = to]
    ELSE Reports(w, to, "step")

\* Mutant: the generation is compared, not the mints made.
MayRegenerateOnceMore(g) == g < Generations

\* generation counts from zero: the run has made one mint more.
MayRegenerate(g) == g + 1 < Generations

\* next_validation_attempt, then the probe: valid, unavailable, or invalid.
Prove(w) ==
    LET used == counters.validation + 1
        counted == [counters EXCEPT !.validation = IF used <= ValidationBudget THEN used ELSE @]
        g == walk[w].gen
    IN
    /\ walk[w].pc = "prove"
    /\ \/ counters' = counted /\ Earns(w, "completed")
       \/ /\ counters' = counted
          /\ \/ used < ValidationBudget /\ Defers(w)
             \/ used >= ValidationBudget /\ Reports(w, "paused", "step")
       \/ /\ MayRegenerate(g)
          /\ counters' = [counted EXCEPT !.generation = @ + 1]
          /\ Earns(w, "credential_generation")
       \/ ~MayRegenerate(g) /\ counters' = counted /\ Reports(w, "paused", "step")
    /\ UNCHANGED <<apart, decision, standing, login, effects, asked>>

\* VaultStoragePhaseHandler
VaultStorage(w) ==
    /\ At(w, "vault_storage")
    /\ Reports(w, "credential_validation", "step")
    /\ UNCHANGED <<apart, rows, asked>>

\* CredentialValidationPhaseHandler with a remembered step
Validation(w) ==
    /\ At(w, "credential_validation") /\ walk[w].memo # "none"
    /\ walk' = [walk EXCEPT ![w].pc = "commit", ![w].to = walk[w].memo, ![w].code = "step",
                            ![w].memo = "none"]
    /\ UNCHANGED <<apart, rows, asked>>

-----------------------------------------------------------------------------
(* The end of a step, and of a walk                                           *)

Stops == Waiting \cup Terminal

AfterCommit(k) ==
    [k EXCEPT !.pc = IF k.to \in Stops THEN "unwind" ELSE "top",
              !.phase = k.to,
              !.prompted = k.prompted \/ (k.to = "captcha_paused" /\
                  ~Replayed(hist, Crossing(k.phase, k.to, k.attempt, k.phase, k.code))),
              !.reroute = k.reroute \/ k.code = "duplicate_account"]

\* The one place the driver makes a boundary durable.  A replay is counted and
\* the walk goes on from the phase it asked for.
CommitStep(w) ==
    LET k == walk[w] IN
    /\ k.pc = "commit"
    /\ hist' = CommitPhase(hist, Crossing(k.phase, k.to, k.attempt, k.phase, k.code))
    /\ walk' = [walk EXCEPT ![w] = AfterCommit(@)]
    /\ UNCHANGED <<owner, rows, outcome, pauseOpen, control, asked, regime>>

\* An exception out of a handler, before or after it reserved its effect.
HandlerRaises(w) ==
    /\ walk[w].pc = "drive"
    /\ effects' \in {effects, LeftOpen(walk[w].phase)}
    /\ Defers(w)
    /\ UNCHANGED <<apart, decision, standing, login, counters, asked>>

\* LeaseGuard.__exit__: release, if the lease is still this worker's.
Unwind(w) ==
    /\ walk[w].pc = "unwind"
    /\ owner' = IF owner = w THEN NoWorker ELSE owner
    /\ walk' = [walk EXCEPT ![w] =
            IF walk[w].phase \in Terminal THEN [@ EXCEPT !.pc = "record"] ELSE Idle]
    /\ UNCHANGED <<hist, rows, outcome, pauseOpen, control, asked, regime>>

\* autonomy_verdict, of the prompts this walk committed.
Verdict(k) ==
    IF k.phase # "completed" THEN k.phase
    ELSE IF k.prompted THEN "operator_assisted" ELSE "fully_autonomous"

\* _record_autonomy_outcome: write once, by the store.
Record(w) ==
    /\ walk[w].pc = "record"
    /\ outcome' = IF outcome = NoOutcome
                  THEN [phase |-> walk[w].phase, verdict |-> Verdict(walk[w])] ELSE outcome
    /\ walk' = [walk EXCEPT ![w] = Idle]
    /\ UNCHANGED <<hist, owner, rows, pauseOpen, control, asked, regime>>

\* The process dies; its lease row stays until it runs out.
Dies(w) ==
    /\ Walking(w)
    /\ walk' = [walk EXCEPT ![w] = Idle]
    /\ UNCHANGED <<hist, owner, rows, outcome, pauseOpen, control, asked, regime>>

-----------------------------------------------------------------------------
(* The operator's controls.  Each reads the last boundary, and commits the    *)
(* one it computed from it in a later transaction, under no lease.  One       *)
(* request at a time.                                                         *)

still == <<owner, walk, login, counters, effects, outcome, asked, regime>>

Last == LastBoundary(hist)

MayAct(kind) ==
    /\ kind \in regime.controls /\ hist # << >>
    /\ control.kind = "none" /\ control.used < regime.maxControls
    /\ regime.concurrent \/ \A w \in Workers : ~Walking(w)

\* OnboardingRunControlService._commit: the thread is the phase committed into.
Plans(kind, to, attempt, code) ==
    control' = [kind |-> kind, plan |-> Crossing(Last.to, to, attempt, to, code),
                used |-> control.used + 1]

Spends == control' = [control EXCEPT !.used = @ + 1]

\* request_pause: the request is durable whether or not the table admits paused.
RequestPause ==
    /\ MayAct("pause") /\ Last.to \notin Terminal \cup {"paused"}
    /\ pauseOpen' = TRUE
    /\ IF Legal(Last.to, "paused")
       THEN Plans("commit", "paused", Last.attempt + PauseCount(hist), "step") ELSE Spends
    /\ UNCHANGED <<hist, decision, standing, still>>

\* resume_from_pause: back to the phase at pause, where the table has the edge.
RequestResume ==
    /\ MayAct("resume") /\ Last.to \in Waiting
    /\ Legal(Last.to, PhaseAtPause(hist))
    /\ Plans("resume", PhaseAtPause(hist), Last.attempt + 1, "step")
    /\ UNCHANGED <<hist, pauseOpen, decision, standing, still>>

Cancellable == Last.to \notin Terminal /\ Legal(Last.to, "cancelled")

\* cancel_run, from the resume route or on the operator's negative decision.
RequestCancel ==
    /\ MayAct("cancel") /\ Cancellable
    /\ Plans("cancel", "cancelled", Last.attempt, "step")
    /\ UNCHANGED <<hist, pauseOpen, decision, standing, still>>

\* reset_run: straight to research, or by way of paused.
RequestReset ==
    LET attempt == Last.attempt + 1 + ResetCount(hist) IN
    /\ MayAct("reset") /\ Last.to \notin Terminal
    /\ \/ Legal(Last.to, "research") /\ Plans("reset", "research", attempt, "reset")
       \/ /\ ~Legal(Last.to, "research") /\ Legal(Last.to, "paused")
          /\ Plans("reset", "paused", attempt, "reset")
    /\ UNCHANGED <<hist, pauseOpen, decision, standing, still>>

\* retry_current_step: the same phase again, at the next attempt.  The table of
\* reservations it consults is written by nobody, so it refuses nothing.
RequestRetry ==
    /\ MayAct("retry") /\ Last.to \notin Stops
    /\ Plans("commit", Last.to, Last.attempt + 1, "step")
    /\ UNCHANGED <<hist, pauseOpen, decision, standing, still>>

\* _decision_sync, at the gate and before anybody has answered.
Decide(route) ==
    /\ MayAct("decide") /\ Last.to = "awaiting_admission" /\ decision = "none"
    /\ decision' = route
    /\ control' = [control EXCEPT !.used = @ + 1,
                   !.kind = IF route = "cancelled" THEN "cancel_due" ELSE "none"]
    /\ UNCHANGED <<hist, pauseOpen, standing, still>>

\* A deployment that turns unattended signup on for this app.
Authorize ==
    /\ MayAct("authorize") /\ ~standing
    /\ standing' = TRUE
    /\ Spends
    /\ UNCHANGED <<hist, pauseOpen, decision, still>>

Forgets == control' = [NoControl EXCEPT !.used = control.used]

\* The request reads the history again: cancel_run after the decision was
\* recorded, and a reset between its two boundaries.
ControlRereads ==
    /\ \/ /\ control.kind = "cancel_due"
          /\ IF Cancellable
             THEN control' = [control EXCEPT !.kind = "cancel",
                    !.plan = Crossing(Last.to, "cancelled", Last.attempt, "cancelled", "step")]
             ELSE Forgets
       \/ /\ control.kind = "reset_due"
          /\ IF Legal(Last.to, "research")
             THEN control' = [control EXCEPT !.kind = "reset",
                    !.plan = Crossing(Last.to, "research", Last.attempt + 1 + ResetCount(hist),
                                      "research", "reset")]
             ELSE Forgets       \* commit_phase raises
    /\ UNCHANGED <<hist, pauseOpen, decision, standing, still>>

\* A request's boundary; only a committed one is projected and audited.
ControlCommits ==
    LET fresh == ~Replayed(hist, control.plan) IN
    /\ control.kind \in {"commit", "resume", "cancel", "reset"}
    /\ hist' = CommitPhase(hist, control.plan)
    /\ pauseOpen' = (pauseOpen /\ ~(fresh /\ control.kind \in {"resume", "cancel"}))
    /\ IF control.kind = "reset" /\ control.plan.to = "paused" /\ fresh
       THEN control' = [control EXCEPT !.kind = "reset_due", !.plan = NoPlan]
       ELSE Forgets
    /\ UNCHANGED <<decision, standing, still>>

\* The API process dies between two transactions of a request.
ControlDies ==
    /\ control.kind # "none"
    /\ Forgets
    /\ UNCHANGED <<hist, pauseOpen, decision, standing, still>>

-----------------------------------------------------------------------------

Handles(w) ==
    \/ Research(w) \/ VaultCheck(w) \/ Admission(w) \/ AskAdmission(w)
    \/ EnterSignup(w) \/ SignupAgain(w) \/ Signup(w) \/ Verification(w)
    \/ LoopPhase(w) \/ DeveloperApp(w) \/ MeetsCaptcha(w) \/ RecordsCaptcha(w)
    \/ Capture(w) \/ CaptureFails(w) \/ Stores(w) \/ Prove(w)
    \/ VaultStorage(w) \/ Validation(w) \/ HandlerRaises(w)

WorkerNext(w) ==
    \/ Claim(w) \/ BeforeStep(w) \/ Handles(w) \/ CommitStep(w)
    \/ Unwind(w) \/ Record(w) \/ Dies(w)

OperatorNext ==
    \/ RequestPause \/ RequestResume \/ RequestCancel \/ RequestReset \/ RequestRetry
    \/ \E route \in {"signup", "cancelled"} : Decide(route)
    \/ Authorize \/ ControlRereads \/ ControlCommits \/ ControlDies

Next == (\E w \in Workers : WorkerNext(w)) \/ OperatorNext

Spec == Init /\ [][Next]_vars

(* Fairness: the worker's polling thread takes its turns, and a handler       *)
(* returns (every wait in it has a deadline).  A turn may be cut short by a   *)
(* crash any number of times, but not every time: strong fairness.            *)
Fairness ==
    \A w \in Workers :
        /\ SF_vars(Claim(w)) /\ SF_vars(BeforeStep(w)) /\ SF_vars(Admission(w))
        /\ WF_vars(Handles(w))
        /\ SF_vars(CommitStep(w)) /\ SF_vars(Unwind(w)) /\ SF_vars(Record(w))
        /\ WF_vars(ControlCommits) /\ WF_vars(ControlRereads)

FairSpec == Spec /\ Fairness

-----------------------------------------------------------------------------
(* Properties                                                                 *)

\* Every row and every walk stays in its domain.
TypeOK ==
    /\ hist \in Seq(Boundary)
    /\ owner \in Workers \cup {NoWorker}
    /\ walk \in [Workers -> Walk]
    /\ decision \in Routes /\ standing \in BOOLEAN /\ login \in BOOLEAN
    /\ counters \in Counters /\ effects \in Effects
    /\ outcome.phase \in Phases /\ outcome.verdict \in Verdicts
    /\ pauseOpen \in BOOLEAN /\ control \in ControlRequest /\ asked \in Nat
    /\ control.used <= regime.maxControls

Into(phase) == {i \in DOMAIN hist : hist[i].to = phase}

\* AdmissionPhaseHandler: "at most one signup_authorization prompt exists for this
\* run no matter how many times this handler runs", across crashes, a second
\* worker and resets.
AdmissionAskedOnce == asked <= 1

\* pause_for_captcha Q1: a prompt is counted before the boundary that asks for
\* it, so no crash or takeover leaves a pause the budget does not know of.
CountedBeforeAsked == Cardinality(Into("captcha_paused")) <= counters.captcha

\* Nothing asks for a transition the table refuses: neither a handler's step at
\* the phase its walk believes in, nor an operator's request.
NoRefusedStep ==
    /\ \A w \in Workers : walk[w].pc = "commit" => Legal(walk[w].phase, walk[w].to)
    /\ Legal(control.plan.from, control.plan.to)

\* drive_run Q2: a phase with a provider-visible effect is driven only behind a
\* durable boundary into it.
EffectsFollowBoundaries ==
    \A w \in Workers :
        walk[w].pc \in {"drive", "store", "prove"} /\ walk[w].phase \in EffectBearing
            => Into(walk[w].phase) # {}

\* No account is created without a recorded agreement to create one.
SignupIsAuthorized ==
    \A w \in Workers : At(w, "signup") => decision = "signup"

\* The autonomy outcome names a terminal phase the history reached.
OutcomeIsCommitted == outcome # NoOutcome => Into(outcome.phase) # {}

\* A run reported complete has its current generation's credential.
CompletedIsMinted ==
    ResumptionPhase(hist) = "completed" => counters.generation \in effects.minted

\* phase.py: "completed, blocked, and cancelled are terminal and admit nothing but
\* themselves".
KeepsItsEnd == hist # << >> /\ Last.to \in Terminal => hist' = hist

TerminalIsFinal == [][KeepsItsEnd]_vars

\* pause_for_captcha Q3: "the count cannot creep past the bound".
CaptchaWithinBudget == counters.captcha <= CaptchaBudget

\* CredentialBudgets.generations bounds the credentials a run mints.
MintsWithinBudget == Cardinality(effects.minted) <= Generations

\* CredentialGenerationPhaseHandler: whatever stops it once the run's first credential
\* is stored, a resumed run "re-enters at the further of the two" storage boundaries.
\* Those of a later generation are replays of the first one's.
StoredIsResumedAtValidation ==
    \A w \in Workers : walk[w].pc = "prove" /\ walk[w].gen = 0
        => ResumptionPhase(hist) = "credential_validation"

\* A run told to go on at the gate goes on: AdmissionPhaseHandler's deferred run
\* "picks itself up the moment the decision row exists", and a standing
\* authorization granted later releases the waiting runs.
DecisionIsActedOn ==
    (ResumptionPhase(hist) = "awaiting_admission" /\ (decision # "none" \/ standing))
        ~> ResumptionPhase(hist) # "awaiting_admission"

\* drive_run Q5: a run that ended gets its autonomy outcome, also when an operator
\* ended it or the worker died before it could write one.
EndIsRecorded == (hist # << >> /\ Last.to \in Terminal) ~> outcome # NoOutcome

\* autonomy_verdict: "a completed run that needed one [a CAPTCHA pause] is
\* operator-assisted".
AutonomousMeansUnprompted ==
    outcome.verdict = "fully_autonomous" => Into("captcha_paused") = {}

=============================================================================
