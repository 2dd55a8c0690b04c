-------------------------- MODULE OnboardingPhase ---------------------------
(* The phase machine of an onboarding run (ops/onboarding/phase.py) and the   *)
(* durable phase history kept by SQLitePhaseHistoryStore                      *)
(* (ops/onboarding/driver.py), as operators on one run's history.             *)
EXTENDS Naturals, Sequences, FiniteSets

Terminal == {"completed", "blocked", "cancelled"}

SessionBearing ==
    {"route_selected_login", "signup", "email_verification", "authenticated",
     "developer_app", "credential_generation", "captcha_paused"}

Resumable ==
    SessionBearing \cup
    {"research", "vault_check", "awaiting_admission", "route_selected_signup",
     "vault_storage", "credential_validation", "paused"}

Phases == Resumable \cup Terminal

Waiting == {"paused", "captcha_paused"}

EffectBearing == {"signup", "developer_app", "credential_generation"}

-----------------------------------------------------------------------------
(* The transition table                                                       *)

LegalTargets ==
    [research |-> {"blocked", "cancelled", "vault_check"},
     vault_check |-> {"awaiting_admission", "blocked", "route_selected_login",
        "route_selected_signup"},
     awaiting_admission |-> {"cancelled", "paused", "route_selected_signup"},
     route_selected_login |-> {"authenticated", "cancelled", "captcha_paused", "paused"},
     route_selected_signup |-> {"cancelled", "paused", "signup"},
     signup |-> {"cancelled", "captcha_paused", "email_verification", "paused",
        "route_selected_login"},
     email_verification |-> {"authenticated", "cancelled", "captcha_paused", "paused"},
     authenticated |-> {"cancelled", "captcha_paused", "developer_app", "paused"},
     developer_app |-> {"cancelled", "captcha_paused", "credential_generation", "paused"},
     credential_generation |-> {"cancelled", "captcha_paused", "paused", "vault_storage"},
     vault_storage |-> {"cancelled", "credential_validation", "paused"},
     credential_validation |-> {"cancelled", "completed", "credential_generation",
        "paused"},
     captcha_paused |-> {"authenticated", "cancelled", "credential_generation",
        "developer_app", "email_verification", "paused", "route_selected_login",
        "signup"},
     paused |-> {"cancelled", "research"},
     completed |-> {},
     blocked |-> {},
     cancelled |-> {}]

\* is_legal_phase_transition: the identity is always admitted.
Legal(from, to) == to = from \/ to \in LegalTargets[from]

\* PHASE_SUCCESSORS: where a phase driven by the action loop goes when done.
PhaseSuccessors ==
    [route_selected_login |-> "authenticated",
     signup |-> "email_verification",
     email_verification |-> "authenticated",
     authenticated |-> "developer_app",
     developer_app |-> "credential_generation",
     credential_generation |-> "vault_storage"]

-----------------------------------------------------------------------------
(* The history.  A correlation id is a digest of the run, a phase and the     *)
(* attempt: thread is that phase.  code tells apart the reason codes that     *)
(* something reads back.                                                      *)

Codes == {"step", "duplicate_account", "reset"}

Boundary == [from : Phases, to : Phases, attempt : Nat, thread : Phases, code : Codes]

Crossing(from, to, attempt, thread, code) ==
    [from |-> from, to |-> to, attempt |-> attempt, thread |-> thread, code |-> code]

\* UNIQUE (run_id, from_phase, to_phase, attempt, correlation_id)
SameKey(b, c) ==
    /\ b.from = c.from /\ b.to = c.to
    /\ b.attempt = c.attempt /\ b.thread = c.thread

Replayed(h, b) == \E i \in DOMAIN h : SameKey(h[i], b)

\* commit_phase: the table is asked about the caller's from_phase (a refusal
\* raises; OnboardingDriver's NoRefusedStep shows there is none); neither the
\* lease nor the phase the run stands in is read.  A replay writes nothing.
CommitPhase(h, b) == IF Replayed(h, b) THEN h ELSE Append(h, b)

LastBoundary(h) == h[Len(h)]

\* Mutant: the walk resumes one boundary too early.
ResumptionPhaseEarlier(h) == IF Len(h) < 2 THEN "research" ELSE h[Len(h) - 1].to

\* resumption_phase.  Every phase is terminal or resumable, so the walk back
\* through earlier boundaries is never taken.
ResumptionPhase(h) == IF h = << >> THEN "research" ELSE LastBoundary(h).to

ResumptionAttempt(h) == IF h = << >> THEN 0 ELSE LastBoundary(h).attempt

\* is_duplicate_account_reroute, of the last boundary
RerouteStands(h) ==
    /\ h # << >>
    /\ LastBoundary(h).to = "route_selected_login"
    /\ LastBoundary(h).from = "signup"
    /\ LastBoundary(h).code = "duplicate_account"

\* _pause_count, _reset_count
PauseCount(h) == Cardinality({i \in DOMAIN h : h[i].to = "paused"})

ResetCount(h) ==
    Cardinality({i \in DOMAIN h : h[i].to = "research" /\ h[i].code = "reset"})

\* _phase_at_pause: the source of the last boundary into a waiting phase.
IntoWaiting(h) == {i \in DOMAIN h : h[i].to \in Waiting}

PhaseAtPause(h) ==
    LET i == CHOOSE i \in IntoWaiting(h) : \A j \in IntoWaiting(h) : j <= i
    IN  h[i].from

=============================================================================
