------------------------ MODULE OnboardingDriverProofs ------------------------
(* Proofs about the walk of an onboarding run (OnboardingDriver): drive_run,   *)
(* the phase handlers, crashes and the operator's controls, for any workers,   *)
(* regimes and budgets.                                                        *)
EXTENDS MCOnboardingDriver, TLAPS, FiniteSetTheorems, SequenceTheorems

-----------------------------------------------------------------------------
(* The invariant of every regime.                                             *)

\* The phases a CAPTCHA pause is entered from.
Prompting == SessionBearing \ {"captcha_paused", "email_verification"}

\* The lifecycle of a credential is entered from two phases; a step that waits for its
\* commit is one the table admits; only an ended walk records an outcome.
InPlace(k) ==
    /\ k.pc \in {"store", "prove"} => k.phase \in {"credential_generation", "credential_validation"}
    /\ k.pc = "captcha" => k.phase \in Prompting
    /\ k.pc = "commit" => Legal(k.phase, k.to)
    /\ k.pc = "commit" /\ k.to = "captcha_paused" => k.phase \in Prompting
    /\ k.pc = "record" => k.phase \in Terminal

\* A durable boundary led into the phase, or every run starts in it.
Reached(h, phase) == phase = "research" \/ \E i \in DOMAIN h : h[i].to = phase

\* Who has counted a CAPTCHA pause and not committed it.
Asking == {w \in Workers : walk[w].pc = "commit" /\ walk[w].to = "captcha_paused"}

\* What an operator may be about to commit: a pause, a cancellation or a reset; the same
\* phase again; or the phase a CAPTCHA interrupted.
PlanShape(plan) ==
    /\ Legal(plan.from, plan.to)
    /\ \/ plan.to \in {"paused", "cancelled", "research"}
       \/ plan.from = plan.to /\ plan.to \notin Stops
       \/ plan.from = "captcha_paused" /\ plan.to \in Prompting

DriverInvariant ==
    /\ TypeOK /\ regime \in Regimes
    /\ asked <= counters.admission
    /\ \A w \in Workers : InPlace(walk[w])
    /\ \A w \in Workers : walk[w].pc # "idle" => Reached(hist, walk[w].phase)
    /\ outcome # NoOutcome => outcome.phase \in Terminal /\ Reached(hist, outcome.phase)
    /\ \A i \in DOMAIN hist : hist[i].to = "captcha_paused" => hist[i].from \in Prompting
    /\ PlanShape(control.plan) /\ (control.kind # "none" => hist # << >>)
    /\ Cardinality(Into("captcha_paused")) + Cardinality(Asking) <= counters.captcha

LEMMA Bounds ==
    /\ NoWorker \notin Workers /\ IsFiniteSet(Workers)
    /\ CaptchaBudget \in Nat /\ VerificationBudget \in Nat
    /\ ValidationBudget \in Nat \ {0} /\ Generations \in Nat \ {0}
    /\ \A r \in Regimes : r.workers \subseteq Workers /\ r.maxControls \in Nat
    /\ \A r \in Regimes : r.longSteps \in BOOLEAN /\ r.concurrent \in BOOLEAN
  BY DriverAssumption DEF DriverAssumption

\* Records of a walk: one that reports a step, one that stops.
LEMMA Reported ==
    ASSUME TypeOK, NEW w \in Workers, NEW to \in Phases, NEW code \in Codes,
           Reports(w, to, code)
    PROVE  /\ walk' \in [Workers -> Walk] /\ \A v \in Workers \ {w} : walk'[v] = walk[v]
           /\ walk'[w] = [walk[w] EXCEPT !.pc = "commit", !.to = to, !.code = code]
  <1>1. walk \in [Workers -> Walk] /\ walk[w] \in Walk
    BY DEF TypeOK
  <1>2. [walk[w] EXCEPT !.pc = "commit", !.to = to, !.code = code] \in Walk
    BY <1>1 DEF Walk
  <1>3. walk' = [walk EXCEPT ![w] = [walk[w] EXCEPT !.pc = "commit", !.to = to, !.code = code]]
    BY <1>1 DEF Reports
  <1> QED  BY <1>1, <1>2, <1>3

LEMMA Deferred ==
    ASSUME TypeOK, NEW w \in Workers, Defers(w)
    PROVE  /\ walk' \in [Workers -> Walk] /\ \A v \in Workers \ {w} : walk'[v] = walk[v]
           /\ walk'[w] = [walk[w] EXCEPT !.pc = "unwind"]
  <1>1. walk \in [Workers -> Walk] /\ walk[w] \in Walk
    BY DEF TypeOK
  <1>2. [walk[w] EXCEPT !.pc = "unwind"] \in Walk
    BY <1>1 DEF Walk
  <1>3. walk' = [walk EXCEPT ![w] = [walk[w] EXCEPT !.pc = "unwind"]]
    BY <1>1 DEF Defers
  <1> QED  BY <1>1, <1>2, <1>3

\* A handler works on the rows of its run; the history, the lease, the outcome and the
\* operator's request are not its own.
Aside(w) ==
    /\ walk' \in [Workers -> Walk] /\ \A v \in Workers \ {w} : walk'[v] = walk[v]
    /\ walk'[w].phase = walk[w].phase /\ walk'[w].attempt = walk[w].attempt
    /\ owner' = owner /\ outcome' = outcome /\ pauseOpen' = pauseOpen
    /\ control' = control /\ regime' = regime

RowsTyped ==
    /\ decision \in Routes /\ standing \in BOOLEAN /\ login \in BOOLEAN
    /\ counters \in Counters /\ effects \in Effects /\ asked \in Nat

LEMMA HandlerKeeps ==
    ASSUME DriverInvariant, NEW w \in Workers, Aside(w), hist' = hist, RowsTyped',
           walk[w].pc \notin {"idle", "commit"}, InPlace(walk'[w]),
           asked' <= counters'.admission, counters'.captcha >= counters.captcha,
           (walk'[w].pc = "commit" /\ walk'[w].to = "captcha_paused")
                => counters'.captcha = counters.captcha + 1
    PROVE  DriverInvariant'
  <1>1. TypeOK'
    BY DEF DriverInvariant, TypeOK, Aside, RowsTyped
  <1>2. \A v \in Workers : InPlace(walk'[v])
    BY DEF DriverInvariant, Aside
  <1>3. \A v \in Workers : walk'[v].pc # "idle" => Reached(hist', walk'[v].phase)
    BY DEF DriverInvariant, Aside
  <1>4. Cardinality(Into("captcha_paused"))' + Cardinality(Asking)' <= counters'.captcha
    <2>1. Into("captcha_paused")' = Into("captcha_paused")
      BY DEF Into
    <2>2. w \notin Asking /\ IsFiniteSet(Asking) /\ Cardinality(Asking) \in Nat
      BY Bounds, FS_Subset, FS_CardinalityType DEF Asking
    <2>3. counters.captcha \in Nat /\ counters'.captcha \in Nat
      BY DEF DriverInvariant, TypeOK, RowsTyped, Counters
    <2>4. Cardinality(Into("captcha_paused")) \in Nat
      <3>1. IsFiniteSet(1..Len(hist)) /\ DOMAIN hist = 1..Len(hist)
        BY FS_Interval, LenProperties DEF DriverInvariant, TypeOK
      <3> QED  BY <3>1, FS_Subset, FS_CardinalityType DEF Into
    <2>5. CASE walk'[w].pc = "commit" /\ walk'[w].to = "captcha_paused"
      <3>1. Asking' = Asking \cup {w}
        BY <2>5 DEF Asking, Aside
      <3>2. Cardinality(Asking') = Cardinality(Asking) + 1
        BY <2>2, <3>1, FS_AddElement
      <3> QED  BY <2>1, <2>2, <2>3, <2>4, <2>5, <3>2 DEF DriverInvariant
    <2>6. CASE ~(walk'[w].pc = "commit" /\ walk'[w].to = "captcha_paused")
      <3>1. Asking' = Asking
        BY <2>2, <2>6 DEF Asking, Aside
      <3> QED  BY <2>1, <2>2, <2>3, <2>4, <3>1 DEF DriverInvariant
    <2> QED  BY <2>5, <2>6
  <1> QED  BY <1>1, <1>2, <1>3, <1>4 DEF DriverInvariant, Aside, Reached

-----------------------------------------------------------------------------
(* The handlers                                                               *)

LEMMA Typed ==
    ASSUME DriverInvariant, NEW w \in Workers
    PROVE  /\ RowsTyped /\ walk[w] \in Walk /\ walk \in [Workers -> Walk] /\ hist \in Seq(Boundary)
           /\ counters.captcha \in Nat /\ counters.admission \in 0..1 /\ asked \in Nat
           /\ TypeOK /\ asked <= counters.admission /\ counters.captcha >= counters.captcha
           /\ walk[w].phase \in Phases /\ InPlace(walk[w])
  BY DEF DriverInvariant, TypeOK, RowsTyped, Counters, Walk

LEMMA PhaseNames ==
    /\ {"research", "vault_check", "awaiting_admission", "route_selected_login",
        "route_selected_signup", "signup", "email_verification", "authenticated",
        "developer_app", "credential_generation", "vault_storage", "credential_validation",
        "captcha_paused", "paused", "completed", "blocked", "cancelled"} = Phases
    /\ {"step", "duplicate_account", "reset"} = Codes
  BY DEF Phases, Resumable, SessionBearing, Terminal, Codes

\* Reporting a step of the table, no CAPTCHA pause, keeps a walk in its place.
LEMMA ReportKeeps ==
    ASSUME DriverInvariant, NEW w \in Workers, NEW to \in Phases, NEW code \in Codes,
           Reports(w, to, code), Legal(walk[w].phase, to), to # "captcha_paused",
           walk[w].pc \notin {"idle", "commit"}, UNCHANGED apart, RowsTyped',
           asked' <= counters'.admission, counters'.captcha = counters.captcha
    PROVE  DriverInvariant'
  <1>a. walk[w] \in Walk /\ InPlace(walk[w])
    BY Typed
  <1>b. /\ walk' \in [Workers -> Walk] /\ \A v \in Workers \ {w} : walk'[v] = walk[v]
        /\ walk'[w] = [walk[w] EXCEPT !.pc = "commit", !.to = to, !.code = code]
    <2>1. TypeOK
      BY DEF DriverInvariant
    <2> QED  BY <2>1, Reported
  <1>c. /\ walk'[w].pc = "commit" /\ walk'[w].to = to
        /\ walk'[w].phase = walk[w].phase /\ walk'[w].attempt = walk[w].attempt
    BY <1>a, <1>b DEF Walk
  <1>1. Aside(w) /\ InPlace(walk'[w]) /\ walk'[w].to = to
    BY <1>a, <1>b, <1>c DEF Aside, apart, InPlace
  <1>2. counters'.captcha \in Nat
    BY DEF RowsTyped, Counters
  <1> QED  BY <1>1, <1>2, HandlerKeeps DEF apart

LEMMA DeferKeeps ==
    ASSUME DriverInvariant, NEW w \in Workers, Defers(w),
           walk[w].pc \notin {"idle", "commit"}, UNCHANGED apart, RowsTyped',
           asked' <= counters'.admission, counters'.captcha = counters.captcha
    PROVE  DriverInvariant'
  <1>a. walk[w] \in Walk /\ InPlace(walk[w])
    BY Typed
  <1>b. /\ walk' \in [Workers -> Walk] /\ \A v \in Workers \ {w} : walk'[v] = walk[v]
        /\ walk'[w] = [walk[w] EXCEPT !.pc = "unwind"]
    BY Typed, Deferred
  <1>1. Aside(w) /\ InPlace(walk'[w]) /\ walk'[w].pc = "unwind"
    BY <1>a, <1>b DEF Aside, apart, InPlace, Walk
  <1>2. counters'.captcha \in Nat
    BY DEF RowsTyped, Counters
  <1> QED  BY <1>1, <1>2, HandlerKeeps DEF apart

LEMMA ResearchKeeps ==
    ASSUME DriverInvariant, NEW w \in Workers, Research(w) PROVE DriverInvariant'
  <1>1. RowsTyped' /\ asked' <= counters'.admission /\ counters'.captcha = counters.captcha
    BY Typed DEF Research, RowsTyped, rows
  <1>2. walk[w].pc = "drive" /\ walk[w].phase = "research" /\ UNCHANGED apart
    BY DEF Research, At
  <1>3. Legal("research", "vault_check")
    BY DEF Legal, LegalTargets
  <1> QED  BY <1>1, <1>2, <1>3, PhaseNames, ReportKeeps, DeferKeeps DEF Research

LEMMA VaultCheckKeeps ==
    ASSUME DriverInvariant, NEW w \in Workers, VaultCheck(w) PROVE DriverInvariant'
  <1>1. RowsTyped' /\ asked' <= counters'.admission /\ counters'.captcha = counters.captcha
    BY Typed DEF VaultCheck, RowsTyped, Winner, Routes
  <1>2. walk[w].pc = "drive" /\ walk[w].phase = "vault_check" /\ UNCHANGED apart
    BY DEF VaultCheck, At
  <1>3. \A to \in {"route_selected_login", "route_selected_signup", "awaiting_admission"} :
            Legal("vault_check", to)
    BY DEF Legal, LegalTargets
  <1>4. \E to \in {"route_selected_login", "route_selected_signup", "awaiting_admission"} :
            Reports(w, to, "step")
    BY DEF VaultCheck
  <1> QED  BY <1>1, <1>2, <1>3, <1>4, PhaseNames, ReportKeeps

LEMMA AdmissionKeeps ==
    ASSUME DriverInvariant, NEW w \in Workers, Admission(w) \/ AskAdmission(w)
    PROVE  DriverInvariant'
  <1>1. CASE Admission(w)
    <2>1. RowsTyped' /\ asked' <= counters'.admission /\ counters'.captcha = counters.captcha
      BY <1>1, Typed DEF Admission, RowsTyped, Winner, Routes
    <2>2. walk[w].pc = "drive" /\ walk[w].phase = "awaiting_admission" /\ UNCHANGED apart
      BY <1>1 DEF Admission, At
    <2>3. \A to \in {"route_selected_signup", "cancelled"} : Legal("awaiting_admission", to)
      BY DEF Legal, LegalTargets
    <2>4. \E to \in {"route_selected_signup", "cancelled"} : Reports(w, to, "step")
      BY <1>1 DEF Admission
    <2> QED  BY <2>1, <2>2, <2>3, <2>4, PhaseNames, ReportKeeps
  <1>2. CASE AskAdmission(w)
    <2>1. counters' \in Counters /\ counters'.captcha = counters.captcha
      BY <1>2, Typed DEF AskAdmission, RowsTyped, Counters
    <2>2. asked' \in Nat /\ asked' <= counters'.admission
      BY <1>2, Typed DEF AskAdmission, RowsTyped, Counters
    <2>3. RowsTyped'
      BY <1>2, <2>1, <2>2, Typed DEF AskAdmission, RowsTyped
    <2>4. walk[w].pc = "drive" /\ UNCHANGED apart /\ Defers(w)
      BY <1>2 DEF AskAdmission, At
    <2> QED  BY <2>1, <2>2, <2>3, <2>4, DeferKeeps
  <1> QED  BY <1>1, <1>2

LEMMA SignupKeeps ==
    ASSUME DriverInvariant, NEW w \in Workers,
           EnterSignup(w) \/ SignupAgain(w) \/ Signup(w)
    PROVE  DriverInvariant'
  <1>1. CASE EnterSignup(w)
    <2>1. RowsTyped' /\ asked' <= counters'.admission /\ counters'.captcha = counters.captcha
      BY <1>1, Typed DEF EnterSignup, RowsTyped, rows
    <2>2. walk[w].pc = "drive" /\ walk[w].phase = "route_selected_signup" /\ UNCHANGED apart
      BY <1>1 DEF EnterSignup, At
    <2>3. \A to \in {"signup", "paused"} : Legal("route_selected_signup", to)
      BY DEF Legal, LegalTargets
    <2>4. \E to \in {"signup", "paused"} : Reports(w, to, "step")
      BY <1>1 DEF EnterSignup
    <2> QED  BY <2>1, <2>2, <2>3, <2>4, PhaseNames, ReportKeeps
  <1>2. CASE SignupAgain(w) \/ Signup(w)
    <2>1. effects' \in Effects
      BY <1>2, Typed DEF SignupAgain, Signup, RowsTyped, Effects
    <2>2. login' \in BOOLEAN
      BY <1>2, Typed DEF SignupAgain, Signup, RowsTyped, Promotes
    <2>3. RowsTyped' /\ asked' <= counters'.admission /\ counters'.captcha = counters.captcha
      BY <1>2, <2>1, <2>2, Typed DEF SignupAgain, Signup, RowsTyped
    <2>4. walk[w].pc = "drive" /\ walk[w].phase = "signup" /\ UNCHANGED apart
      BY <1>2 DEF SignupAgain, Signup, At
    <2>5. \A to \in {"email_verification", "paused", "route_selected_login"} : Legal("signup", to)
      BY DEF Legal, LegalTargets
    <2>6. \E to \in {"email_verification", "paused", "route_selected_login"} :
             \E code \in Codes : Reports(w, to, code)
      BY <1>2, PhaseNames DEF SignupAgain, Signup
    <2> QED  BY <2>3, <2>4, <2>5, <2>6, PhaseNames, ReportKeeps
  <1> QED  BY <1>1, <1>2

LEMMA VerificationKeeps ==
    ASSUME DriverInvariant, NEW w \in Workers, Verification(w) PROVE DriverInvariant'
  <1>1. counters' \in Counters /\ counters'.captcha = counters.captcha
          /\ counters'.admission = counters.admission
    BY Typed, Bounds DEF Verification, RowsTyped, Counters
  <1>2. RowsTyped' /\ asked' <= counters'.admission
    BY <1>1, Typed DEF Verification, RowsTyped
  <1>3. walk[w].pc = "drive" /\ walk[w].phase = "email_verification" /\ UNCHANGED apart
    BY DEF Verification, At
  <1>4. \A to \in {"authenticated", "paused"} : Legal("email_verification", to)
    BY DEF Legal, LegalTargets
  <1>5. Defers(w) \/ \E to \in {"authenticated", "paused"} : Reports(w, to, "step")
    BY DEF Verification
  <1> QED  BY <1>1, <1>2, <1>3, <1>4, <1>5, PhaseNames, ReportKeeps, DeferKeeps

LEMMA LoopPhaseKeeps ==
    ASSUME DriverInvariant, NEW w \in Workers, LoopPhase(w) PROVE DriverInvariant'
  <1>1. walk[w] \in Walk /\ walk \in [Workers -> Walk] /\ walk[w].pc = "drive"
          /\ walk[w].phase \in {"route_selected_login", "authenticated"}
    BY Typed DEF LoopPhase, At
  <1>2. PICK to \in {PhaseSuccessors[walk[w].phase], "paused"} :
          walk' = [walk EXCEPT ![w].pc = "commit", ![w].to = to, ![w].code = "step",
                               ![w].reroute = FALSE]
    BY DEF LoopPhase
  <1>3. to \in Phases /\ Legal(walk[w].phase, to) /\ to # "captcha_paused"
    BY <1>1, PhaseNames DEF PhaseSuccessors, Legal, LegalTargets
  <1>4. walk'[w] = [walk[w] EXCEPT !.pc = "commit", !.to = to, !.code = "step", !.reroute = FALSE]
          /\ \A v \in Workers \ {w} : walk'[v] = walk[v]
    BY <1>1, <1>2
  <1>5. walk'[w] \in Walk /\ walk'[w].pc = "commit" /\ walk'[w].to = to
          /\ walk'[w].phase = walk[w].phase /\ walk'[w].attempt = walk[w].attempt
    <2>1. "step" \in Codes /\ to \in Phases
      BY <1>3, PhaseNames
    <2> QED  BY <1>1, <1>4, <2>1 DEF Walk
  <1>6. walk' \in [Workers -> Walk]
    BY <1>1, <1>2, <1>5
  <1>7. Aside(w) /\ InPlace(walk'[w])
    BY <1>3, <1>4, <1>5, <1>6 DEF Aside, InPlace, LoopPhase, apart
  <1>8. RowsTyped' /\ asked' <= counters'.admission /\ counters'.captcha = counters.captcha
    BY Typed DEF LoopPhase, RowsTyped, Adopts
  <1>9. hist' = hist /\ counters'.captcha >= counters.captcha
    BY <1>8, Typed DEF LoopPhase, apart
  <1> QED  BY <1>1, <1>3, <1>5, <1>7, <1>8, <1>9, HandlerKeeps

LEMMA DeveloperAppKeeps ==
    ASSUME DriverInvariant, NEW w \in Workers, DeveloperApp(w) PROVE DriverInvariant'
  <1>1. effects' \in Effects
    BY Typed DEF DeveloperApp, RowsTyped, Effects
  <1>2. RowsTyped' /\ asked' <= counters'.admission /\ counters'.captcha = counters.captcha
    BY <1>1, Typed DEF DeveloperApp, RowsTyped
  <1>3. walk[w].pc = "drive" /\ walk[w].phase = "developer_app" /\ UNCHANGED apart
    BY DEF DeveloperApp, At
  <1>4. \A to \in {"credential_generation", "paused"} : Legal("developer_app", to)
    BY DEF Legal, LegalTargets
  <1>5. \E to \in {"credential_generation", "paused"} : Reports(w, to, "step")
    BY DEF DeveloperApp
  <1> QED  BY <1>2, <1>3, <1>4, <1>5, PhaseNames, ReportKeeps

LEMMA LeftOpenType ==
    ASSUME effects \in Effects, NEW phase PROVE LeftOpen(phase) \in Effects
  BY DEF LeftOpen, Effects

LEMMA MeetsCaptchaKeeps ==
    ASSUME DriverInvariant, NEW w \in Workers, MeetsCaptcha(w) PROVE DriverInvariant'
  <1>1. walk[w] \in Walk /\ walk \in [Workers -> Walk] /\ walk[w].pc = "drive"
          /\ walk[w].phase \in Prompting
    BY Typed DEF MeetsCaptcha, Prompting
  <1>2. effects' \in Effects
    BY Typed, LeftOpenType DEF MeetsCaptcha, RowsTyped
  <1>3. RowsTyped' /\ asked' <= counters'.admission /\ counters'.captcha = counters.captcha
    BY <1>2, Typed DEF MeetsCaptcha, RowsTyped, Adopts
  <1>4. Legal(walk[w].phase, "paused")
    BY <1>1 DEF Prompting, SessionBearing, Legal, LegalTargets
  <1>5. PICK k \in Walk :
          /\ walk' = [walk EXCEPT ![w] = k] /\ k.phase = walk[w].phase /\ k.attempt = walk[w].attempt
          /\ k.pc = "captcha" \/ (k.pc = "commit" /\ k.to = "paused")
    <2>1. CASE CaptchaSpent(counters.captcha)
      <3> DEFINE k == [walk[w] EXCEPT !.pc = "commit", !.to = "paused", !.code = "step",
                                      !.reroute = FALSE]
      <3>1. k \in Walk /\ k.phase = walk[w].phase /\ k.attempt = walk[w].attempt
              /\ k.pc = "commit" /\ k.to = "paused"
        BY <1>1, PhaseNames DEF Walk
      <3>2. walk' = [walk EXCEPT ![w] = k]
        BY <1>1, <2>1 DEF MeetsCaptcha
      <3> QED  BY <3>1, <3>2
    <2>2. CASE ~CaptchaSpent(counters.captcha)
      <3> DEFINE k == [walk[w] EXCEPT !.pc = "captcha", !.reroute = FALSE]
      <3>1. k \in Walk /\ k.phase = walk[w].phase /\ k.attempt = walk[w].attempt
              /\ k.pc = "captcha"
        BY <1>1 DEF Walk
      <3>2. walk' = [walk EXCEPT ![w].pc = "captcha", ![w].reroute = FALSE]
        BY <2>2 DEF MeetsCaptcha
      <3>3. walk' = [walk EXCEPT ![w] = k]
        BY <1>1, <3>2
      <3> QED  BY <3>1, <3>3
    <2> QED  BY <2>1, <2>2
  <1>6. walk' \in [Workers -> Walk] /\ walk'[w] = k /\ \A v \in Workers \ {w} : walk'[v] = walk[v]
    BY <1>1, <1>5
  <1>7. Aside(w) /\ InPlace(walk'[w])
    BY <1>1, <1>4, <1>5, <1>6 DEF Aside, InPlace, MeetsCaptcha, apart
  <1>8. hist' = hist /\ counters'.captcha >= counters.captcha
    BY <1>3, Typed DEF MeetsCaptcha, apart
  <1> QED  BY <1>1, <1>3, <1>5, <1>6, <1>7, <1>8, HandlerKeeps

LEMMA RecordsCaptchaKeeps ==
    ASSUME DriverInvariant, NEW w \in Workers, RecordsCaptcha(w) PROVE DriverInvariant'
  <1>1. walk[w] \in Walk /\ walk[w].pc = "captcha" /\ walk[w].phase \in Prompting
    BY Typed DEF RecordsCaptcha, InPlace
  <1>2. Legal(walk[w].phase, "captcha_paused")
    BY <1>1 DEF Prompting, SessionBearing, Legal, LegalTargets
  <1>3. counters' \in Counters /\ counters'.captcha = counters.captcha + 1
          /\ counters'.admission = counters.admission
    BY Typed DEF RecordsCaptcha, RowsTyped, Counters
  <1>4. RowsTyped' /\ asked' <= counters'.admission /\ counters'.captcha >= counters.captcha
    BY <1>3, Typed DEF RecordsCaptcha, RowsTyped
  <1>a. /\ walk' \in [Workers -> Walk] /\ \A v \in Workers \ {w} : walk'[v] = walk[v]
        /\ walk'[w] = [walk[w] EXCEPT !.pc = "commit", !.to = "captcha_paused", !.code = "step"]
    <2>1. TypeOK /\ Reports(w, "captcha_paused", "step")
      BY DEF DriverInvariant, RecordsCaptcha
    <2> QED  BY <2>1, Reported, PhaseNames
  <1>5. /\ walk'[w].pc = "commit" /\ walk'[w].to = "captcha_paused"
        /\ walk'[w].phase = walk[w].phase /\ walk'[w].attempt = walk[w].attempt
    BY <1>1, <1>a DEF Walk
  <1>6. Aside(w) /\ InPlace(walk'[w]) /\ hist' = hist
    BY <1>1, <1>2, <1>a, <1>5 DEF Aside, InPlace, RecordsCaptcha, apart
  <1> QED  BY <1>1, <1>3, <1>4, <1>6, HandlerKeeps

LEMMA CaptureKeeps ==
    ASSUME DriverInvariant, NEW w \in Workers, Capture(w) \/ CaptureFails(w)
    PROVE  DriverInvariant'
  <1>1. walk[w] \in Walk /\ walk \in [Workers -> Walk] /\ walk[w].pc = "drive"
          /\ walk[w].phase \in {"credential_generation", "credential_validation"}
    BY Typed DEF Capture, CaptureFails, EntersLifecycle, At
  <1>2. counters.generation \in Nat
    BY Typed DEF RowsTyped, Counters
  <1>3. effects' \in Effects
    BY <1>2, Typed DEF Capture, CaptureFails, RowsTyped, Effects
  <1>4. RowsTyped' /\ asked' <= counters'.admission /\ counters'.captcha = counters.captcha
    BY <1>3, Typed DEF Capture, CaptureFails, RowsTyped
  <1>5. UNCHANGED apart
    BY DEF Capture, CaptureFails
  <1>6. CASE Capture(w)
    <2> DEFINE k == [walk[w] EXCEPT !.pc = "store", !.gen = counters.generation]
    <2>1. k \in Walk /\ k.phase = walk[w].phase /\ k.attempt = walk[w].attempt /\ k.pc = "store"
      BY <1>1, <1>2 DEF Walk
    <2>2. walk' = [walk EXCEPT ![w].pc = "store", ![w].gen = counters.generation]
      BY <1>6 DEF Capture
    <2>3. walk' = [walk EXCEPT ![w] = k]
      BY <1>1, <2>2
    <2> HIDE DEF k
    <2>4. walk' \in [Workers -> Walk] /\ walk'[w] = k /\ \A v \in Workers \ {w} : walk'[v] = walk[v]
      BY <1>1, <2>1, <2>3
    <2>5. Aside(w) /\ InPlace(walk'[w]) /\ hist' = hist /\ counters'.captcha >= counters.captcha
      BY <1>1, <1>4, <1>5, <2>1, <2>4, Typed DEF Aside, InPlace, apart
    <2> QED  BY <1>1, <1>4, <2>1, <2>4, <2>5, HandlerKeeps
  <1>7. CASE CaptureFails(w)
    <2>1. Legal(walk[w].phase, "paused")
      BY <1>1 DEF Legal, LegalTargets
    <2>2. Reports(w, "paused", "step")
      BY <1>7 DEF CaptureFails
    <2> QED  BY <1>1, <1>4, <1>5, <2>1, <2>2, PhaseNames, ReportKeeps
  <1> QED  BY <1>6, <1>7

\* What a probe earns: a report of the storage boundary, with the step in the memo, or of
\* the step itself.
LEMMA Earned ==
    ASSUME TypeOK, NEW w \in Workers, NEW to \in {"completed", "credential_generation"},
           Earns(w, to)
    PROVE  /\ walk' \in [Workers -> Walk] /\ \A v \in Workers \ {w} : walk'[v] = walk[v]
           /\ walk'[w] = IF walk[w].phase = "credential_generation"
                         THEN [walk[w] EXCEPT !.pc = "commit", !.to = "vault_storage",
                                              !.code = "step", !.memo = to]
                         ELSE [walk[w] EXCEPT !.pc = "commit", !.to = to, !.code = "step"]
  <1>1. walk \in [Workers -> Walk] /\ walk[w] \in Walk
    BY DEF TypeOK
  <1>2. to \in Phases /\ "vault_storage" \in Phases /\ "step" \in Codes /\ to \in Memos
    BY PhaseNames DEF Memos
  <1>3. CASE walk[w].phase = "credential_generation"
    <2> DEFINE k == [walk[w] EXCEPT !.pc = "commit", !.to = "vault_storage", !.code = "step",
                                    !.memo = to]
    <2>1. walk' = [walk EXCEPT ![w].pc = "commit", ![w].to = "vault_storage",
                               ![w].code = "step", ![w].memo = to]
      BY <1>3 DEF Earns
    <2>2. k \in Walk
      BY <1>1, <1>2 DEF Walk
    <2>3. walk' = [walk EXCEPT ![w] = k]
      BY <1>1, <2>1
    <2> QED  BY <1>1, <1>3, <2>2, <2>3
  <1>4. CASE walk[w].phase # "credential_generation"
    <2>1. Reports(w, to, "step")
      BY <1>4 DEF Earns
    <2>2. /\ walk' \in [Workers -> Walk] /\ \A v \in Workers \ {w} : walk'[v] = walk[v]
          /\ walk'[w] = [walk[w] EXCEPT !.pc = "commit", !.to = to, !.code = "step"]
      <3>1. to \in Phases /\ "step" \in Codes
        BY <1>2
      <3> QED  BY <2>1, <3>1, Reported
    <2> QED  BY <1>4, <2>2
  <1> QED  BY <1>3, <1>4

LEMMA ProveKeeps ==
    ASSUME DriverInvariant, NEW w \in Workers, Prove(w) PROVE DriverInvariant'
  <1>1. walk[w] \in Walk /\ walk \in [Workers -> Walk] /\ walk[w].pc = "prove"
          /\ walk[w].phase \in {"credential_generation", "credential_validation"}
    BY Typed DEF Prove, InPlace
  <1>2. counters' \in Counters /\ counters'.captcha = counters.captcha
          /\ counters'.admission = counters.admission
    <2> DEFINE used == counters.validation + 1
               counted == [counters EXCEPT !.validation = IF used <= ValidationBudget
                                                          THEN used ELSE @]
    <2>1. counters \in Counters /\ counters.generation \in Nat
      BY Typed DEF RowsTyped, Counters
    <2>2. counted \in Counters /\ counted.captcha = counters.captcha
            /\ counted.admission = counters.admission /\ counted.generation = counters.generation
      BY <2>1, Bounds DEF Counters
    <2>3. counters' = counted \/ counters' = [counted EXCEPT !.generation = @ + 1]
      BY DEF Prove
    <2> HIDE DEF counted
    <2>4. [counted EXCEPT !.generation = @ + 1] \in Counters
      BY <2>1, <2>2 DEF Counters
    <2> QED  BY <2>1, <2>2, <2>3, <2>4 DEF Counters
  <1>3. RowsTyped' /\ asked' <= counters'.admission /\ UNCHANGED apart
    BY <1>2, Typed DEF Prove, RowsTyped
  <1>4. CASE Defers(w) \/ Reports(w, "paused", "step")
    <2>1. Legal(walk[w].phase, "paused")
      BY <1>1 DEF Legal, LegalTargets
    <2> QED  BY <1>1, <1>2, <1>3, <1>4, <2>1, PhaseNames, ReportKeeps, DeferKeeps
  <1>5. ASSUME NEW to \in {"completed", "credential_generation"}, Earns(w, to)
        PROVE  DriverInvariant'
    <2>1. TypeOK
      BY DEF DriverInvariant
    <2>2. /\ walk' \in [Workers -> Walk] /\ \A v \in Workers \ {w} : walk'[v] = walk[v]
          /\ walk'[w] = IF walk[w].phase = "credential_generation"
                         THEN [walk[w] EXCEPT !.pc = "commit", !.to = "vault_storage",
                                              !.code = "step", !.memo = to]
                         ELSE [walk[w] EXCEPT !.pc = "commit", !.to = to, !.code = "step"]
      BY <1>5, <2>1, Earned
    <2>3. /\ walk'[w].pc = "commit" /\ walk'[w].phase = walk[w].phase
          /\ walk'[w].attempt = walk[w].attempt
          /\ walk'[w].to = IF walk[w].phase = "credential_generation" THEN "vault_storage" ELSE to
      BY <1>1, <2>2 DEF Walk
    <2>4. Legal(walk'[w].phase, walk'[w].to) /\ walk'[w].to # "captcha_paused"
      BY <1>1, <2>3 DEF Legal, LegalTargets
    <2>5. Aside(w) /\ InPlace(walk'[w]) /\ hist' = hist /\ counters'.captcha >= counters.captcha
      BY <1>2, <1>3, <2>2, <2>3, <2>4, Typed DEF Aside, InPlace, apart
    <2> QED  BY <1>1, <1>2, <1>3, <2>4, <2>5, HandlerKeeps
  <1> QED  BY <1>4, <1>5 DEF Prove

LEMMA StorageKeeps ==
    ASSUME DriverInvariant, NEW w \in Workers, VaultStorage(w) \/ Validation(w)
    PROVE  DriverInvariant'
  <1>1. RowsTyped' /\ asked' <= counters'.admission /\ counters'.captcha = counters.captcha
    BY Typed DEF VaultStorage, Validation, RowsTyped, rows
  <1>2. CASE VaultStorage(w)
    <2>1. walk[w].pc = "drive" /\ walk[w].phase = "vault_storage" /\ UNCHANGED apart
            /\ Reports(w, "credential_validation", "step")
      BY <1>2 DEF VaultStorage, At
    <2>2. Legal("vault_storage", "credential_validation")
      BY DEF Legal, LegalTargets
    <2> QED  BY <1>1, <2>1, <2>2, PhaseNames, ReportKeeps
  <1>3. CASE Validation(w)
    <2>1. walk[w] \in Walk /\ walk \in [Workers -> Walk] /\ walk[w].pc = "drive"
            /\ walk[w].phase = "credential_validation" /\ UNCHANGED apart
            /\ walk[w].memo \in {"completed", "credential_generation"}
      BY <1>3, Typed DEF Validation, At, Walk, Memos
    <2> DEFINE k == [walk[w] EXCEPT !.pc = "commit", !.to = walk[w].memo, !.code = "step",
                                    !.memo = "none"]
    <2>2. walk' = [walk EXCEPT ![w].pc = "commit", ![w].to = walk[w].memo, ![w].code = "step",
                               ![w].memo = "none"]
      BY <1>3 DEF Validation
    <2>3. walk' = [walk EXCEPT ![w] = k]
      BY <2>1, <2>2
    <2>4. "step" \in Codes /\ walk[w].memo \in Phases /\ "none" \in Memos
      BY <2>1, PhaseNames DEF Memos
    <2>5. k \in Walk /\ k.pc = "commit" /\ k.to = walk[w].memo /\ k.phase = walk[w].phase
            /\ k.attempt = walk[w].attempt
      BY <2>1, <2>4 DEF Walk
    <2> HIDE DEF k
    <2>6. walk' \in [Workers -> Walk] /\ walk'[w] = k /\ \A v \in Workers \ {w} : walk'[v] = walk[v]
      BY <2>1, <2>3, <2>5
    <2>7. Legal("credential_validation", walk[w].memo) /\ walk[w].memo # "captcha_paused"
      BY <2>1 DEF Legal, LegalTargets
    <2>8. Aside(w) /\ InPlace(walk'[w]) /\ hist' = hist /\ counters'.captcha >= counters.captcha
      BY <1>1, <2>1, <2>5, <2>6, <2>7, Typed DEF Aside, InPlace, apart
    <2> QED  BY <1>1, <2>1, <2>5, <2>6, <2>7, <2>8, HandlerKeeps
  <1> QED  BY <1>2, <1>3

LEMMA HandlerRaisesKeeps ==
    ASSUME DriverInvariant, NEW w \in Workers, HandlerRaises(w) PROVE DriverInvariant'
  <1>1. effects' \in Effects
    BY Typed, LeftOpenType DEF HandlerRaises, RowsTyped
  <1>2. RowsTyped' /\ asked' <= counters'.admission /\ counters'.captcha = counters.captcha
    BY <1>1, Typed DEF HandlerRaises, RowsTyped
  <1>3. walk[w].pc = "drive" /\ UNCHANGED apart /\ Defers(w)
    BY DEF HandlerRaises
  <1> QED  BY <1>2, <1>3, DeferKeeps


-----------------------------------------------------------------------------
(* The history                                                                *)

Extends(h, g) ==
    /\ g \in Seq(Boundary) /\ Len(h) <= Len(g)
    /\ \A i \in DOMAIN h : i \in DOMAIN g /\ g[i] = h[i]

Arrivals(h, phase) == {i \in DOMAIN h : h[i].to = phase}

LEMMA ArrivalsType ==
    ASSUME NEW h \in Seq(Boundary), NEW phase
    PROVE  IsFiniteSet(Arrivals(h, phase)) /\ Cardinality(Arrivals(h, phase)) \in Nat
  <1>1. IsFiniteSet(1..Len(h)) /\ DOMAIN h = 1..Len(h)
    BY FS_Interval, LenProperties
  <1> QED  BY <1>1, FS_Subset, FS_CardinalityType DEF Arrivals

LEMMA CrossingType ==
    ASSUME NEW from \in Phases, NEW to \in Phases, NEW attempt \in Nat, NEW thread \in Phases,
           NEW code \in Codes
    PROVE  /\ Crossing(from, to, attempt, thread, code) \in Boundary
           /\ Crossing(from, to, attempt, thread, code).from = from
           /\ Crossing(from, to, attempt, thread, code).to = to
           /\ Crossing(from, to, attempt, thread, code).attempt = attempt
           /\ Crossing(from, to, attempt, thread, code).thread = thread
           /\ Crossing(from, to, attempt, thread, code).code = code
  BY DEF Crossing, Boundary

\* A commit keeps what is there, and ends with the boundary there, first made or replayed.
LEMMA Committed ==
    ASSUME NEW h \in Seq(Boundary), NEW b \in Boundary
    PROVE  /\ Extends(h, CommitPhase(h, b))
           /\ \/ Replayed(h, b) /\ CommitPhase(h, b) = h
              \/ /\ CommitPhase(h, b) = Append(h, b) /\ Len(CommitPhase(h, b)) = Len(h) + 1
                 /\ CommitPhase(h, b)[Len(h) + 1] = b
           /\ Replayed(CommitPhase(h, b), b)
           /\ \A i \in DOMAIN CommitPhase(h, b) :
                 i \in DOMAIN h \/ CommitPhase(h, b)[i] = b
           /\ \A i \in DOMAIN h : CommitPhase(h, b)[i] = h[i]
  <1> DEFINE g == CommitPhase(h, b)
  <1>1. CASE Replayed(h, b)
    <2>1. g = h
      BY <1>1 DEF CommitPhase
    <2> QED  BY <1>1, <2>1 DEF Extends
  <1>2. CASE ~Replayed(h, b)
    <2>1. g = Append(h, b)
      BY <1>2 DEF CommitPhase
    <2>2. g \in Seq(Boundary) /\ Len(g) = Len(h) + 1 /\ g[Len(h) + 1] = b
            /\ \A i \in 1..Len(h) : g[i] = h[i]
      BY <2>1, AppendProperties
    <2>3. DOMAIN h = 1..Len(h) /\ DOMAIN g = 1..(Len(h) + 1) /\ Len(h) \in Nat
      BY <2>2, LenProperties
    <2>4. SameKey(g[Len(h) + 1], b)
      BY <2>2 DEF SameKey
    <2>5. Replayed(g, b)
      BY <2>3, <2>4 DEF Replayed
    <2> QED  BY <2>1, <2>2, <2>3, <2>5 DEF Extends
  <1> QED  BY <1>1, <1>2

\* One commit is at most one arrival, in the phase it commits.
LEMMA CommittedArrivals ==
    ASSUME NEW h \in Seq(Boundary), NEW b \in Boundary, NEW phase
    PROVE  /\ b.to # phase => Arrivals(CommitPhase(h, b), phase) = Arrivals(h, phase)
           /\ Cardinality(Arrivals(CommitPhase(h, b), phase))
                <= Cardinality(Arrivals(h, phase)) + 1
  <1> DEFINE g == CommitPhase(h, b)
  <1>1. CASE g = h
    BY <1>1, ArrivalsType
  <1>2. CASE Len(g) = Len(h) + 1 /\ g[Len(h) + 1] = b
    <2>1. g \in Seq(Boundary) /\ \A i \in DOMAIN h : g[i] = h[i]
      BY Committed DEF Extends
    <2>2. DOMAIN h = 1..Len(h) /\ DOMAIN g = 1..(Len(h) + 1) /\ Len(h) \in Nat
      BY <1>2, <2>1, LenProperties
    <2>3. Arrivals(g, phase) = IF b.to = phase THEN Arrivals(h, phase) \cup {Len(h) + 1}
                               ELSE Arrivals(h, phase)
      BY <1>2, <2>1, <2>2 DEF Arrivals
    <2>4. Len(h) + 1 \notin Arrivals(h, phase)
      BY <2>2 DEF Arrivals
    <2>5. IsFiniteSet(Arrivals(h, phase)) /\ Cardinality(Arrivals(h, phase)) \in Nat
      BY ArrivalsType
    <2>6. Cardinality(Arrivals(h, phase) \cup {Len(h) + 1}) = Cardinality(Arrivals(h, phase)) + 1
      BY <2>4, <2>5, FS_AddElement
    <2> HIDE DEF g
    <2>7. (b.to # phase => Arrivals(g, phase) = Arrivals(h, phase))
            /\ Cardinality(Arrivals(g, phase)) <= Cardinality(Arrivals(h, phase)) + 1
      BY <2>3, <2>5, <2>6
    <2> QED  BY <2>7 DEF g
  <1> QED  BY <1>1, <1>2, Committed

LEMMA StillReached ==
    ASSUME NEW h, NEW g, Extends(h, g), NEW phase, Reached(h, phase)
    PROVE  Reached(g, phase)
  BY DEF Extends, Reached

LEMMA CommitReaches ==
    ASSUME NEW h \in Seq(Boundary), NEW b \in Boundary
    PROVE  Reached(CommitPhase(h, b), b.to)
  BY Committed DEF Replayed, SameKey, Reached

LEMMA LastType ==
    ASSUME NEW h \in Seq(Boundary)
    PROVE  /\ h # << >> => /\ LastBoundary(h) \in Boundary /\ Len(h) \in DOMAIN h
                           /\ Len(h) \in Nat \ {0} /\ DOMAIN h = 1..Len(h)
           /\ ResumptionPhase(h) \in Phases /\ ResumptionAttempt(h) \in Nat
           /\ Reached(h, ResumptionPhase(h))
           /\ h # << >> => ResumptionPhase(h) = LastBoundary(h).to
                             /\ ResumptionAttempt(h) = LastBoundary(h).attempt
  <1>1. CASE h = << >>
    BY <1>1, PhaseNames DEF ResumptionPhase, ResumptionAttempt, Reached
  <1>2. CASE h # << >>
    <2>1. Len(h) \in Nat \ {0} /\ DOMAIN h = 1..Len(h)
      BY <1>2, EmptySeq, LenProperties
    <2>2. Len(h) \in DOMAIN h /\ LastBoundary(h) \in Boundary
      BY <2>1, ElementOfSeq DEF LastBoundary
    <2> QED  BY <1>2, <2>1, <2>2 DEF ResumptionPhase, ResumptionAttempt, Reached, Boundary, LastBoundary
  <1> QED  BY <1>1, <1>2

-----------------------------------------------------------------------------
(* Commits, the walk's ends, and the operator                                 *)

\* The history grows by boundaries the invariant admits, and the pauses it gains are those
\* that were counted.
LEMMA HistoryKeeps ==
    ASSUME DriverInvariant, Extends(hist, hist'),
           \A i \in DOMAIN hist' : i \in DOMAIN hist \/ hist'[i].to # "captcha_paused"
                                     \/ hist'[i].from \in Prompting,
           walk' \in [Workers -> Walk], \A w \in Workers : InPlace(walk'[w]),
           \A w \in Workers : walk'[w].pc # "idle" => Reached(hist', walk'[w].phase),
           Cardinality(Arrivals(hist', "captcha_paused")) + Cardinality(Asking')
                <= Cardinality(Arrivals(hist, "captcha_paused")) + Cardinality(Asking),
           owner' \in Workers \cup {NoWorker}, control' \in ControlRequest,
           PlanShape(control'.plan), control'.used <= regime.maxControls, pauseOpen' \in BOOLEAN,
           control'.kind = "none" \/ control.kind # "none",
           decision' \in Routes, standing' \in BOOLEAN,
           UNCHANGED <<login, counters, effects, outcome, asked, regime>>
    PROVE  DriverInvariant'
  <1>1. TypeOK'
    BY DEF DriverInvariant, TypeOK, Extends
  <1>2. Cardinality(Into("captcha_paused"))' + Cardinality(Asking)' <= counters'.captcha
    <2>1. Into("captcha_paused") = Arrivals(hist, "captcha_paused")
            /\ Into("captcha_paused")' = Arrivals(hist', "captcha_paused")
      BY DEF Into, Arrivals
    <2>2. Cardinality(Arrivals(hist, "captcha_paused")) \in Nat
            /\ Cardinality(Arrivals(hist', "captcha_paused")) \in Nat
      BY ArrivalsType DEF DriverInvariant, TypeOK, Extends
    <2>3. Cardinality(Asking) \in Nat /\ Cardinality(Asking') \in Nat /\ counters.captcha \in Nat
      BY Bounds, FS_Subset, FS_CardinalityType DEF Asking, DriverInvariant, TypeOK, Counters
    <2> QED  BY <2>1, <2>2, <2>3 DEF DriverInvariant
  <1>3. \A i \in DOMAIN hist' : hist'[i].to = "captcha_paused" => hist'[i].from \in Prompting
    BY DEF DriverInvariant, Extends
  <1>4. (outcome # NoOutcome => outcome.phase \in Terminal /\ Reached(hist, outcome.phase))'
    BY StillReached DEF DriverInvariant
  <1>5. control'.kind # "none" => hist' # << >>
    <2>1. ASSUME hist # << >> PROVE hist' # << >>
      BY <2>1, EmptySeq, LenProperties DEF Extends, DriverInvariant, TypeOK
    <2> QED  BY <2>1 DEF DriverInvariant
  <1> QED  BY <1>1, <1>2, <1>3, <1>4, <1>5 DEF DriverInvariant

\* A walk that changes without reporting a CAPTCHA pause, over a history that stays.
LEMMA WalkKeeps ==
    ASSUME DriverInvariant, NEW w \in Workers, NEW k \in Walk, walk' = [walk EXCEPT ![w] = k],
           InPlace(k), k.pc # "idle" => Reached(hist, k.phase), k.pc # "commit",
           owner' \in Workers \cup {NoWorker},
           outcome' = outcome \/
               (outcome'.phase \in Terminal /\ Reached(hist, outcome'.phase)
                  /\ outcome'.verdict \in Verdicts),
           UNCHANGED <<hist, rows, pauseOpen, control, asked, regime>>
    PROVE  DriverInvariant'
  <1>1. walk' \in [Workers -> Walk] /\ walk'[w] = k /\ \A v \in Workers \ {w} : walk'[v] = walk[v]
    BY DEF DriverInvariant, TypeOK
  <1>2. TypeOK'
    BY <1>1, PhaseNames DEF DriverInvariant, TypeOK, rows, Terminal
  <1>3. Cardinality(Into("captcha_paused"))' + Cardinality(Asking)' <= counters'.captcha
    <2>1. Into("captcha_paused")' = Into("captcha_paused") /\ counters' = counters
      BY DEF Into, rows
    <2>2. Asking' \subseteq Asking /\ IsFiniteSet(Asking)
      BY <1>1, Bounds, FS_Subset DEF Asking
    <2>3. Cardinality(Asking') <= Cardinality(Asking)
            /\ Cardinality(Asking) \in Nat /\ Cardinality(Asking') \in Nat
      BY <2>2, FS_Subset, FS_CardinalityType
    <2>4. Cardinality(Arrivals(hist, "captcha_paused")) \in Nat
            /\ Into("captcha_paused") = Arrivals(hist, "captcha_paused")
      BY ArrivalsType DEF DriverInvariant, TypeOK, Arrivals, Into
    <2>5. counters.captcha \in Nat
      BY DEF DriverInvariant, TypeOK, Counters
    <2> QED  BY <2>1, <2>3, <2>4, <2>5 DEF DriverInvariant
  <1>4. \A v \in Workers : InPlace(walk'[v]) /\ (walk'[v].pc # "idle" => Reached(hist', walk'[v].phase))
    BY <1>1 DEF DriverInvariant
  <1>5. (outcome # NoOutcome => outcome.phase \in Terminal /\ Reached(hist, outcome.phase))'
    BY DEF DriverInvariant
  <1> QED  BY <1>2, <1>3, <1>4, <1>5 DEF DriverInvariant, rows

LEMMA StoresKeeps ==
    ASSUME DriverInvariant, NEW w \in Workers, Stores(w) PROVE DriverInvariant'
  <1>1. walk[w] \in Walk /\ walk \in [Workers -> Walk] /\ hist \in Seq(Boundary)
          /\ walk[w].phase \in {"credential_generation", "credential_validation"}
    BY Typed DEF Stores, InPlace
  <1> DEFINE attempt == ResumptionAttempt(hist)
             thread == walk[w].phase
             b == Crossing("credential_generation", "vault_storage", attempt, thread, "step")
             c == Crossing("vault_storage", "credential_validation", attempt, thread, "step")
             h == CommitPhase(hist, b)
             k == [walk[w] EXCEPT !.pc = "prove"]
  <1>2. b \in Boundary /\ c \in Boundary /\ b.to = "vault_storage" /\ c.to = "credential_validation"
    <2>1. attempt \in Nat /\ thread \in Phases
      BY <1>1, LastType DEF Walk
    <2>2. {"credential_generation", "vault_storage", "credential_validation"} \subseteq Phases
            /\ "step" \in Codes
      BY PhaseNames
    <2> HIDE DEF attempt, thread
    <2>3. b \in Boundary /\ b.to = "vault_storage"
      BY <2>1, <2>2, CrossingType
    <2>4. c \in Boundary /\ c.to = "credential_validation"
      BY <2>1, <2>2, CrossingType
    <2> QED  BY <2>3, <2>4
  <1>3. hist' = CommitPhase(h, c)
    BY DEF Stores, Stored
  <1> HIDE DEF b, c
  <1>4. Extends(hist, h) /\ h \in Seq(Boundary) /\ \A i \in DOMAIN h : i \in DOMAIN hist \/ h[i] = b
    BY <1>1, <1>2, Committed DEF Extends
  <1> HIDE DEF h
  <1>5. Extends(h, hist') /\ \A i \in DOMAIN hist' : i \in DOMAIN h \/ hist'[i] = c
    BY <1>2, <1>3, <1>4, Committed
  <1>6. Extends(hist, hist')
    BY <1>1, <1>4, <1>5, LenProperties DEF Extends
  <1>7. \A i \in DOMAIN hist' : i \in DOMAIN hist \/ hist'[i].to # "captcha_paused"
    BY <1>2, <1>4, <1>5 DEF Extends
  <1>8. Arrivals(hist', "captcha_paused") = Arrivals(hist, "captcha_paused")
    <2>1. Arrivals(h, "captcha_paused") = Arrivals(hist, "captcha_paused")
      BY <1>1, <1>2, CommittedArrivals DEF h
    <2>2. Arrivals(hist', "captcha_paused") = Arrivals(h, "captcha_paused")
      BY <1>2, <1>3, <1>4, CommittedArrivals
    <2> QED  BY <2>1, <2>2
  <1>9. k \in Walk /\ k.pc = "prove" /\ k.phase = walk[w].phase
    BY <1>1 DEF Walk
  <1>10. walk' = [walk EXCEPT ![w] = k] /\ walk[w].pc = "store"
    BY <1>1 DEF Stores
  <1> HIDE DEF k
  <1>11. walk' \in [Workers -> Walk] /\ walk'[w] = k /\ \A v \in Workers \ {w} : walk'[v] = walk[v]
    BY <1>1, <1>9, <1>10
  <1>12. Asking' = Asking
    BY <1>9, <1>10, <1>11 DEF Asking
  <1>13. \A v \in Workers : InPlace(walk'[v])
    BY <1>1, <1>9, <1>11 DEF DriverInvariant, InPlace
  <1>14. \A v \in Workers : walk'[v].pc # "idle" => Reached(hist', walk'[v].phase)
    <2>1. \A v \in Workers : walk[v].pc # "idle" => Reached(hist', walk[v].phase)
      BY <1>6, StillReached DEF DriverInvariant
    <2> QED  BY <1>9, <1>10, <1>11, <2>1
  <1>15. /\ Cardinality(Arrivals(hist', "captcha_paused")) \in Nat /\ Cardinality(Asking') \in Nat
         /\ control \in ControlRequest /\ control.used <= regime.maxControls /\ PlanShape(control.plan)
    BY <1>1, <1>8, <1>12, ArrivalsType, Bounds, FS_Subset, FS_CardinalityType
      DEF Asking, DriverInvariant, TypeOK
  <1>16. owner \in Workers \cup {NoWorker} /\ pauseOpen \in BOOLEAN /\ decision \in Routes
           /\ standing \in BOOLEAN
    BY DEF DriverInvariant, TypeOK
  <1>17. UNCHANGED <<owner, outcome, pauseOpen, control, decision, standing, login, counters,
                     effects, asked, regime>>
    BY DEF Stores, rows
  <1> QED  BY <1>6, <1>7, <1>8, <1>11, <1>12, <1>13, <1>14, <1>15, <1>16, <1>17, HistoryKeeps

LEMMA IdleType == Idle \in Walk /\ Idle.pc = "idle"
  <1>1. "research" \in Phases /\ "step" \in Codes /\ "none" \in Memos
    BY PhaseNames DEF Memos
  <1> QED  BY <1>1 DEF Idle, Walk

LEMMA ClaimKeeps ==
    ASSUME DriverInvariant, NEW w \in Workers, Claim(w) PROVE DriverInvariant'
  <1> DEFINE k == [Idle EXCEPT
            !.pc = IF ResumptionPhase(hist) \in Terminal THEN "unwind" ELSE "top",
            !.phase = ResumptionPhase(hist), !.attempt = ResumptionAttempt(hist),
            !.reroute = RerouteStands(hist)]
  <1>1. ResumptionPhase(hist) \in Phases /\ ResumptionAttempt(hist) \in Nat
          /\ Reached(hist, ResumptionPhase(hist)) /\ RerouteStands(hist) \in BOOLEAN
    BY Typed, LastType DEF RerouteStands
  <1>2. k \in Walk /\ k.pc \in {"top", "unwind"} /\ k.phase = ResumptionPhase(hist)
    BY <1>1, IdleType DEF Walk
  <1>3. walk' = [walk EXCEPT ![w] = k] /\ owner' = w
          /\ UNCHANGED <<hist, rows, outcome, pauseOpen, control, asked, regime>>
    BY DEF Claim
  <1> HIDE DEF k
  <1>4. InPlace(k)
    BY <1>2 DEF InPlace
  <1> QED  BY <1>1, <1>2, <1>3, <1>4, WalkKeeps

LEMMA BeforeStepKeeps ==
    ASSUME DriverInvariant, NEW w \in Workers, BeforeStep(w) PROVE DriverInvariant'
  <1> DEFINE k == [walk[w] EXCEPT !.pc = IF owner = w THEN "drive" ELSE "unwind"]
  <1>1. walk[w] \in Walk /\ walk \in [Workers -> Walk] /\ Reached(hist, walk[w].phase)
          /\ owner \in Workers \cup {NoWorker}
    BY Typed DEF DriverInvariant, TypeOK, BeforeStep
  <1>2. k \in Walk /\ k.pc \in {"drive", "unwind"} /\ k.phase = walk[w].phase
    BY <1>1 DEF Walk
  <1>3. walk' = [walk EXCEPT ![w] = k] /\ owner' = owner
          /\ UNCHANGED <<hist, rows, outcome, pauseOpen, control, asked, regime>>
    BY <1>1 DEF BeforeStep
  <1> HIDE DEF k
  <1>4. InPlace(k)
    BY <1>2 DEF InPlace
  <1> QED  BY <1>1, <1>2, <1>3, <1>4, WalkKeeps

LEMMA UnwindKeeps ==
    ASSUME DriverInvariant, NEW w \in Workers, Unwind(w) \/ Dies(w) PROVE DriverInvariant'
  <1>1. walk[w] \in Walk /\ walk \in [Workers -> Walk] /\ walk[w].pc # "idle"
          /\ Reached(hist, walk[w].phase) /\ owner' \in Workers \cup {NoWorker}
    BY Typed DEF DriverInvariant, TypeOK, Unwind, Dies, Walking
  <1>2. UNCHANGED <<hist, rows, outcome, pauseOpen, control, asked, regime>>
    BY DEF Unwind, Dies
  <1>3. CASE walk' = [walk EXCEPT ![w] = Idle]
    BY <1>1, <1>2, <1>3, IdleType, WalkKeeps DEF InPlace
  <1>4. CASE walk[w].phase \in Terminal /\ walk' = [walk EXCEPT ![w] = [walk[w] EXCEPT !.pc = "record"]]
    <2> DEFINE k == [walk[w] EXCEPT !.pc = "record"]
    <2>1. k \in Walk /\ k.pc = "record" /\ k.phase = walk[w].phase
      BY <1>1 DEF Walk
    <2>2. walk' = [walk EXCEPT ![w] = k]
      BY <1>4
    <2> HIDE DEF k
    <2>3. InPlace(k)
      BY <1>4, <2>1 DEF InPlace
    <2> QED  BY <1>1, <1>2, <2>1, <2>2, <2>3, WalkKeeps
  <1> QED  BY <1>1, <1>3, <1>4 DEF Unwind, Dies

LEMMA RecordKeeps ==
    ASSUME DriverInvariant, NEW w \in Workers, Record(w) PROVE DriverInvariant'
  <1>1. walk[w].phase \in Terminal /\ Reached(hist, walk[w].phase)
    BY DEF DriverInvariant, Record, InPlace
  <1>2. Verdict(walk[w]) \in Verdicts
    BY <1>1 DEF Verdict, Verdicts, Terminal
  <1>3. outcome' = outcome \/ outcome' = [phase |-> walk[w].phase, verdict |-> Verdict(walk[w])]
    BY DEF Record
  <1>4. walk' = [walk EXCEPT ![w] = Idle] /\ owner' = owner /\ owner \in Workers \cup {NoWorker}
          /\ UNCHANGED <<hist, rows, pauseOpen, control, asked, regime>>
    BY DEF Record, DriverInvariant, TypeOK
  <1>5. outcome' = outcome \/
            (outcome'.phase \in Terminal /\ Reached(hist, outcome'.phase)
               /\ outcome'.verdict \in Verdicts)
    BY <1>1, <1>2, <1>3
  <1>6. InPlace(Idle)
    BY IdleType DEF InPlace
  <1> QED  BY <1>4, <1>5, <1>6, IdleType, WalkKeeps

LEMMA CommitStepKeeps ==
    ASSUME DriverInvariant, NEW w \in Workers, CommitStep(w) PROVE DriverInvariant'
  <1> DEFINE b == Crossing(walk[w].phase, walk[w].to, walk[w].attempt, walk[w].phase, walk[w].code)
             k == AfterCommit(walk[w])
  <1>1. walk[w] \in Walk /\ walk \in [Workers -> Walk] /\ walk[w].pc = "commit"
          /\ hist \in Seq(Boundary)
          /\ (walk[w].to = "captcha_paused" => walk[w].phase \in Prompting)
    BY Typed DEF CommitStep, InPlace
  <1>2. b \in Boundary /\ b.to = walk[w].to /\ b.from = walk[w].phase
    <2>1. walk[w].phase \in Phases /\ walk[w].to \in Phases /\ walk[w].attempt \in Nat
            /\ walk[w].code \in Codes
      BY <1>1 DEF Walk
    <2> QED  BY <2>1, CrossingType
  <1>3. hist' = CommitPhase(hist, b) /\ walk' = [walk EXCEPT ![w] = k]
    BY DEF CommitStep
  <1>4. k \in Walk /\ k.pc \in {"unwind", "top"} /\ k.phase = walk[w].to
    <2>1. Replayed(hist, b) \in BOOLEAN
      BY DEF Replayed
    <2> HIDE DEF b
    <2> DEFINE prompted == walk[w].prompted \/ (walk[w].to = "captcha_paused" /\ ~Replayed(hist, b))
               reroute == walk[w].reroute \/ walk[w].code = "duplicate_account"
    <2>2. prompted \in BOOLEAN /\ reroute \in BOOLEAN
      BY <1>1, <2>1 DEF Walk
    <2>3. k = [walk[w] EXCEPT !.pc = IF walk[w].to \in Stops THEN "unwind" ELSE "top",
                              !.phase = walk[w].to, !.prompted = prompted, !.reroute = reroute]
      BY DEF AfterCommit, b
    <2> HIDE DEF prompted, reroute, k
    <2> QED  BY <1>1, <2>2, <2>3 DEF Walk
  <1> HIDE DEF b, k
  <1>5. walk' \in [Workers -> Walk] /\ walk'[w] = k /\ \A v \in Workers \ {w} : walk'[v] = walk[v]
    BY <1>1, <1>3, <1>4
  <1>6. Extends(hist, hist') /\ Reached(hist', walk[w].to)
          /\ \A i \in DOMAIN hist' : i \in DOMAIN hist \/ hist'[i] = b
    BY <1>1, <1>2, <1>3, Committed, CommitReaches
  <1>7. \A i \in DOMAIN hist' : i \in DOMAIN hist \/ hist'[i].to # "captcha_paused"
                                     \/ hist'[i].from \in Prompting
    BY <1>1, <1>2, <1>6
  <1>8. \A v \in Workers : InPlace(walk'[v])
    BY <1>4, <1>5 DEF DriverInvariant, InPlace
  <1>9. \A v \in Workers : walk'[v].pc # "idle" => Reached(hist', walk'[v].phase)
    <2>1. \A v \in Workers : walk[v].pc # "idle" => Reached(hist', walk[v].phase)
      BY <1>6, StillReached DEF DriverInvariant
    <2> QED  BY <1>4, <1>5, <1>6, <2>1
  <1>10. Cardinality(Arrivals(hist', "captcha_paused")) + Cardinality(Asking')
            <= Cardinality(Arrivals(hist, "captcha_paused")) + Cardinality(Asking)
    <2>1. /\ Cardinality(Arrivals(hist, "captcha_paused")) \in Nat
          /\ Cardinality(Arrivals(hist', "captcha_paused")) \in Nat
      BY <1>1, <1>6, ArrivalsType DEF Extends
    <2>2. IsFiniteSet(Asking) /\ Cardinality(Asking) \in Nat
      BY Bounds, FS_Subset, FS_CardinalityType DEF Asking
    <2>3. Asking' = Asking \ {w}
      BY <1>4, <1>5 DEF Asking
    <2>4. CASE walk[w].to = "captcha_paused"
      <3>1. w \in Asking
        BY <1>1, <2>4 DEF Asking
      <3>2. Cardinality(Asking') = Cardinality(Asking) - 1 /\ Cardinality(Asking') \in Nat
        BY <2>2, <2>3, <3>1, FS_RemoveElement, FS_Subset, FS_CardinalityType
      <3>3. Cardinality(Arrivals(hist', "captcha_paused"))
              <= Cardinality(Arrivals(hist, "captcha_paused")) + 1
        BY <1>1, <1>2, <1>3, CommittedArrivals
      <3> QED  BY <2>1, <2>2, <3>2, <3>3
    <2>5. CASE walk[w].to # "captcha_paused"
      <3>1. Asking' = Asking
        BY <2>3, <2>5 DEF Asking
      <3>2. Arrivals(hist', "captcha_paused") = Arrivals(hist, "captcha_paused")
        BY <1>1, <1>2, <1>3, <2>5, CommittedArrivals
      <3> QED  BY <2>1, <2>2, <3>1, <3>2
    <2> QED  BY <2>4, <2>5
  <1>11. control \in ControlRequest /\ control.used <= regime.maxControls /\ PlanShape(control.plan)
           /\ owner \in Workers \cup {NoWorker} /\ pauseOpen \in BOOLEAN /\ decision \in Routes
           /\ standing \in BOOLEAN
    BY DEF DriverInvariant, TypeOK
  <1>12. UNCHANGED <<owner, outcome, pauseOpen, control, decision, standing, login, counters,
                     effects, asked, regime>>
    BY DEF CommitStep, rows
  <1> QED  BY <1>5, <1>6, <1>7, <1>8, <1>9, <1>10, <1>11, <1>12, HistoryKeeps

-----------------------------------------------------------------------------
(* The operator                                                               *)

\* A plan computed from the last boundary.
LEMMA PlanType ==
    ASSUME DriverInvariant, hist # << >>, NEW to \in Phases, NEW attempt \in Nat,
           NEW thread \in Phases, NEW code \in Codes, Legal(Last.to, to),
           \/ to \in {"paused", "cancelled", "research"}
           \/ Last.to = to /\ to \notin Stops
           \/ Last.to = "captcha_paused" /\ to \in Prompting
    PROVE  LET plan == Crossing(Last.to, to, attempt, thread, code) IN
             /\ plan \in Boundary /\ PlanShape(plan) /\ plan.to = to /\ plan.from = Last.to
             /\ plan.attempt = attempt /\ plan.thread = thread /\ plan.code = code
  <1>1. Last.to \in Phases
    BY LastType, Typed DEF DriverInvariant, TypeOK, Last, Boundary
  <1> QED  BY <1>1, CrossingType DEF PlanShape

\* A request that only leaves something to commit.
LEMMA RequestKeeps ==
    ASSUME DriverInvariant, control' \in ControlRequest, PlanShape(control'.plan),
           control'.used <= regime.maxControls, control'.kind # "none" => hist # << >>,
           pauseOpen' \in BOOLEAN, decision' \in Routes,
           standing' \in BOOLEAN, UNCHANGED <<hist, still>>
    PROVE  DriverInvariant'
  <1>1. TypeOK'
    BY DEF DriverInvariant, TypeOK, still
  <1>2. Into("captcha_paused")' = Into("captcha_paused") /\ Asking' = Asking
    BY DEF Into, Asking, still
  <1> QED  BY <1>1, <1>2 DEF DriverInvariant, still, Reached

LEMMA ControlType ==
    ASSUME DriverInvariant
    PROVE  /\ control \in ControlRequest /\ control.used \in Nat /\ regime.maxControls \in Nat
           /\ control.used <= regime.maxControls /\ PlanShape(control.plan)
           /\ (control.kind # "none" => hist # << >>)
           /\ pauseOpen \in BOOLEAN /\ decision \in Routes /\ standing \in BOOLEAN
           /\ hist \in Seq(Boundary) /\ control.plan \in Boundary
  BY Bounds DEF DriverInvariant, TypeOK, ControlRequest

\* One more request, with what it has still to commit.
LEMMA RequestType ==
    ASSUME DriverInvariant, control.used < regime.maxControls,
           NEW kind \in {"none", "commit", "resume", "cancel", "reset", "reset_due", "cancel_due"},
           NEW plan \in Boundary, PlanShape(plan),
           control' = [kind |-> kind, plan |-> plan, used |-> control.used + 1]
    PROVE  control' \in ControlRequest /\ PlanShape(control'.plan)
             /\ control'.used <= regime.maxControls
  BY ControlType DEF ControlRequest

LEMMA SpendsType ==
    ASSUME DriverInvariant, control.used < regime.maxControls, NEW kind \in {"none", "cancel_due"},
           control.kind = "none",
           Spends \/ control' = [control EXCEPT !.used = @ + 1, !.kind = kind]
    PROVE  control' \in ControlRequest /\ PlanShape(control'.plan)
             /\ control'.used <= regime.maxControls
  <1>1. control' = [kind |-> control'.kind, plan |-> control.plan, used |-> control.used + 1]
          /\ control'.kind \in {"none", "cancel_due"}
    BY ControlType DEF ControlRequest, Spends
  <1> QED  BY <1>1, ControlType DEF ControlRequest

LEMMA ForgetsType ==
    ASSUME DriverInvariant, Forgets
    PROVE  control' \in ControlRequest /\ PlanShape(control'.plan)
             /\ control'.used <= regime.maxControls /\ control'.plan = NoPlan
             /\ control'.kind = "none"
  <1>1. NoPlan \in Boundary /\ PlanShape(NoPlan)
    <2>1. "research" \in Phases /\ "step" \in Codes /\ 0 \in Nat
      BY PhaseNames
    <2> QED  BY <2>1, CrossingType DEF NoPlan, PlanShape, Legal
  <1>2. control' = [kind |-> "none", plan |-> NoPlan, used |-> control.used]
    BY DEF Forgets, NoControl
  <1> QED  BY <1>1, <1>2, ControlType DEF ControlRequest

LEMMA CountsType ==
    ASSUME NEW h \in Seq(Boundary)
    PROVE  PauseCount(h) \in Nat /\ ResetCount(h) \in Nat
  <1>1. IsFiniteSet(1..Len(h)) /\ DOMAIN h = 1..Len(h)
    BY FS_Interval, LenProperties
  <1> QED  BY <1>1, FS_Subset, FS_CardinalityType DEF PauseCount, ResetCount

\* The phase at pause is where the last boundary came from, when that one was the pause.
LEMMA PausedFrom ==
    ASSUME NEW h \in Seq(Boundary), h # << >>, LastBoundary(h).to \in Waiting
    PROVE  PhaseAtPause(h) = LastBoundary(h).from
  <1>1. Len(h) \in Nat \ {0} /\ DOMAIN h = 1..Len(h) /\ Len(h) \in DOMAIN h
    BY LastType
  <1>2. Len(h) \in IntoWaiting(h) /\ \A j \in IntoWaiting(h) : j <= Len(h)
    BY <1>1 DEF IntoWaiting, LastBoundary
  <1>3. \A i \in IntoWaiting(h) : (\A j \in IntoWaiting(h) : j <= i) => i = Len(h)
    BY <1>1, <1>2 DEF IntoWaiting
  <1>4. (CHOOSE i \in IntoWaiting(h) : \A j \in IntoWaiting(h) : j <= i) = Len(h)
    BY <1>2, <1>3
  <1> QED  BY <1>4 DEF PhaseAtPause, LastBoundary

LEMMA RequestsKeep ==
    ASSUME DriverInvariant, RequestPause \/ RequestResume \/ RequestCancel \/ RequestReset
                              \/ RequestRetry \/ Authorize
                              \/ \E route \in {"signup", "cancelled"} : Decide(route)
    PROVE  DriverInvariant'
  <1>1. pauseOpen' \in BOOLEAN /\ decision' \in Routes /\ standing' \in BOOLEAN
          /\ UNCHANGED <<hist, still>>
    BY ControlType DEF RequestPause, RequestResume, RequestCancel, RequestReset, RequestRetry,
      Decide, Authorize, Routes
  <1>2. hist # << >> /\ control.used < regime.maxControls /\ control.kind = "none"
          /\ hist \in Seq(Boundary)
    BY Typed, ControlType DEF RequestPause, RequestResume, RequestCancel, RequestReset, RequestRetry,
      Decide, Authorize, MayAct
  <1>3. Last \in Boundary /\ Last.to \in Phases /\ Last.attempt \in Nat /\ Last.from \in Phases
          /\ Len(hist) \in DOMAIN hist /\ Last = hist[Len(hist)]
          /\ PauseCount(hist) \in Nat /\ ResetCount(hist) \in Nat
    BY <1>2, LastType, CountsType DEF Last, Boundary, LastBoundary
  <1>4. {"paused", "cancelled", "research"} \subseteq Phases /\ Codes = {"step", "duplicate_account", "reset"}
    BY PhaseNames
  <1>5. ASSUME NEW kind \in {"commit", "resume", "cancel", "reset"}, NEW to \in Phases,
               NEW attempt \in Nat, NEW code \in Codes, Plans(kind, to, attempt, code),
               Legal(Last.to, to),
               \/ to \in {"paused", "cancelled", "research"}
               \/ Last.to = to /\ to \notin Stops
               \/ Last.to = "captcha_paused" /\ to \in Prompting
        PROVE  DriverInvariant'
    <2> DEFINE plan == Crossing(Last.to, to, attempt, to, code)
    <2>1. plan \in Boundary /\ PlanShape(plan)
      BY <1>2, <1>5, PlanType
    <2>2. control' = [kind |-> kind, plan |-> plan, used |-> control.used + 1]
      BY <1>5 DEF Plans
    <2> HIDE DEF plan
    <2>3. control' \in ControlRequest /\ PlanShape(control'.plan) /\ control'.used <= regime.maxControls
      BY <1>2, <2>1, <2>2, RequestType
    <2> QED  BY <1>1, <1>2, <2>3, RequestKeeps
  <1>6. ASSUME NEW kind \in {"none", "cancel_due"},
               Spends \/ control' = [control EXCEPT !.used = @ + 1, !.kind = kind]
        PROVE  DriverInvariant'
    BY <1>1, <1>2, <1>6, SpendsType, RequestKeeps
  <1>7. CASE RequestPause
    <2>1. CASE Legal(Last.to, "paused")
      <3>1. Plans("commit", "paused", Last.attempt + PauseCount(hist), "step")
        BY <1>7, <2>1 DEF RequestPause
      <3>2. Last.attempt + PauseCount(hist) \in Nat /\ "paused" \in Phases /\ "step" \in Codes
        BY <1>3, <1>4
      <3> QED  BY <1>5, <2>1, <3>1, <3>2
    <2>2. CASE ~Legal(Last.to, "paused")
      BY <1>6, <1>7, <2>2 DEF RequestPause
    <2> QED  BY <2>1, <2>2
  <1>8. CASE RequestResume
    <2>1. Last.to \in Waiting /\ Legal(Last.to, PhaseAtPause(hist))
            /\ Plans("resume", PhaseAtPause(hist), Last.attempt + 1, "step")
            /\ PhaseAtPause(hist) = Last.from
      BY <1>2, <1>8, PausedFrom DEF RequestResume, Last
    <2>2. \/ Last.from \in {"paused", "cancelled", "research"}
          \/ Last.to = "captcha_paused" /\ Last.from \in Prompting
      <3>1. CASE Last.to = "paused"
        BY <2>1, <3>1 DEF Legal, LegalTargets
      <3>2. CASE Last.to = "captcha_paused"
        BY <1>3, <3>2 DEF DriverInvariant
      <3> QED  BY <2>1, <3>1, <3>2 DEF Waiting
    <2>3. Last.attempt + 1 \in Nat /\ "step" \in Codes
      BY <1>3, <1>4
    <2> QED  BY <1>3, <1>5, <2>1, <2>2, <2>3
  <1>9. CASE RequestCancel
    <2>1. Legal(Last.to, "cancelled") /\ Plans("cancel", "cancelled", Last.attempt, "step")
      BY <1>9 DEF RequestCancel, Cancellable
    <2> QED  BY <1>3, <1>4, <1>5, <2>1
  <1>10. CASE RequestReset
    <2>1. \E to \in {"research", "paused"} : Legal(Last.to, to)
             /\ Plans("reset", to, Last.attempt + 1 + ResetCount(hist), "reset")
      BY <1>10 DEF RequestReset
    <2>2. Last.attempt + 1 + ResetCount(hist) \in Nat /\ "reset" \in Codes
      BY <1>3, <1>4
    <2> QED  BY <1>4, <1>5, <2>1, <2>2
  <1>11. CASE RequestRetry
    <2>1. Last.to \notin Stops /\ Legal(Last.to, Last.to)
            /\ Plans("commit", Last.to, Last.attempt + 1, "step")
      BY <1>11 DEF RequestRetry, Legal
    <2>2. Last.attempt + 1 \in Nat /\ "step" \in Codes
      BY <1>3, <1>4
    <2> QED  BY <1>3, <1>5, <2>1, <2>2
  <1>12. CASE Authorize
    BY <1>6, <1>12 DEF Authorize
  <1>13. CASE \E route \in {"signup", "cancelled"} : Decide(route)
    BY <1>6, <1>13 DEF Decide
  <1> QED  BY <1>7, <1>8, <1>9, <1>10, <1>11, <1>12, <1>13

LEMMA RereadsKeeps ==
    ASSUME DriverInvariant, ControlRereads \/ ControlDies PROVE DriverInvariant'
  <1>1. pauseOpen' \in BOOLEAN /\ decision' \in Routes /\ standing' \in BOOLEAN
          /\ UNCHANGED <<hist, still>>
    BY ControlType DEF ControlRereads, ControlDies
  <1>2. CASE Forgets
    BY <1>1, <1>2, ForgetsType, RequestKeeps
  <1>3. ASSUME hist # << >>, NEW kind \in {"cancel", "reset"}, NEW to \in {"cancelled", "research"},
               NEW attempt \in Nat, NEW code \in Codes, Legal(Last.to, to),
               control' = [control EXCEPT !.kind = kind,
                              !.plan = Crossing(Last.to, to, attempt, to, code)]
        PROVE  DriverInvariant'
    <2> DEFINE plan == Crossing(Last.to, to, attempt, to, code)
    <2>1. plan \in Boundary /\ PlanShape(plan)
      BY <1>3, PlanType, PhaseNames
    <2>2. control' = [control EXCEPT !.kind = kind, !.plan = plan]
      BY <1>3
    <2> HIDE DEF plan
    <2>3. control' \in ControlRequest /\ PlanShape(control'.plan) /\ control'.used <= regime.maxControls
      BY <2>1, <2>2, ControlType DEF ControlRequest
    <2> QED  BY <1>1, <1>3, <2>3, RequestKeeps
  <1>4. CASE ControlRereads /\ ~Forgets
    <2>1. hist \in Seq(Boundary) /\ {"step", "reset"} \subseteq Codes
      BY ControlType, PhaseNames
    <2>2. hist # << >>
      BY <1>4, ControlType DEF ControlRereads
    <2>3. Last.attempt \in Nat /\ ResetCount(hist) \in Nat /\ Last.attempt + 1 + ResetCount(hist) \in Nat
      <3>1. Last \in Boundary /\ ResetCount(hist) \in Nat
        BY <2>1, <2>2, LastType, CountsType DEF Last
      <3>2. Last.attempt \in Nat
        BY <3>1 DEF Boundary
      <3> QED  BY <3>1, <3>2
    <2>4. CASE control.kind = "cancel_due"
      <3>1. Legal(Last.to, "cancelled")
              /\ control' = [control EXCEPT !.kind = "cancel",
                    !.plan = Crossing(Last.to, "cancelled", Last.attempt, "cancelled", "step")]
        BY <1>4, <2>4 DEF ControlRereads, Cancellable
      <3> QED  BY <1>3, <2>1, <2>2, <2>3, <3>1
    <2>5. CASE control.kind = "reset_due"
      <3>1. Legal(Last.to, "research")
              /\ control' = [control EXCEPT !.kind = "reset",
                    !.plan = Crossing(Last.to, "research", Last.attempt + 1 + ResetCount(hist),
                                      "research", "reset")]
        BY <1>4, <2>5 DEF ControlRereads
      <3> QED  BY <1>3, <2>1, <2>2, <2>3, <3>1
    <2> QED  BY <1>4, <2>4, <2>5 DEF ControlRereads
  <1> QED  BY <1>2, <1>4 DEF ControlDies, ControlRereads

LEMMA ControlCommitsKeeps ==
    ASSUME DriverInvariant, ControlCommits PROVE DriverInvariant'
  <1> DEFINE b == control.plan
  <1>1. hist \in Seq(Boundary) /\ b \in Boundary /\ PlanShape(b) /\ hist' = CommitPhase(hist, b)
    BY ControlType DEF ControlCommits
  <1>2. b.to # "captcha_paused"
    BY <1>1 DEF PlanShape, Stops, Waiting, Prompting
  <1>3. Extends(hist, hist') /\ \A i \in DOMAIN hist' : i \in DOMAIN hist \/ hist'[i] = b
    BY <1>1, Committed
  <1>4. Arrivals(hist', "captcha_paused") = Arrivals(hist, "captcha_paused")
    BY <1>1, <1>2, CommittedArrivals
  <1>5. \A i \in DOMAIN hist' : i \in DOMAIN hist \/ hist'[i].to # "captcha_paused"
    BY <1>2, <1>3
  <1>6. /\ control' \in ControlRequest /\ PlanShape(control'.plan)
        /\ control'.used <= regime.maxControls /\ control.kind # "none"
    <2>1. CASE Forgets
      BY <2>1, ForgetsType DEF ControlCommits
    <2>2. CASE control' = [control EXCEPT !.kind = "reset_due", !.plan = NoPlan]
      <3>1. "research" \in Phases /\ "step" \in Codes /\ 0 \in Nat
        BY PhaseNames
      <3>2. NoPlan \in Boundary /\ PlanShape(NoPlan)
        BY <3>1, CrossingType DEF NoPlan, PlanShape, Legal
      <3> QED  BY <2>2, <3>2, ControlType DEF ControlRequest, ControlCommits
    <2> QED  BY <2>1, <2>2 DEF ControlCommits
  <1>7. pauseOpen' \in BOOLEAN /\ decision \in Routes /\ standing \in BOOLEAN
          /\ owner \in Workers \cup {NoWorker} /\ walk \in [Workers -> Walk]
    BY ControlType DEF ControlCommits, DriverInvariant, TypeOK
  <1>8. UNCHANGED <<decision, standing, still>>
    BY DEF ControlCommits
  <1>9. \A w \in Workers : InPlace(walk'[w]) /\ (walk'[w].pc # "idle" => Reached(hist', walk'[w].phase))
    BY <1>3, <1>8, StillReached DEF DriverInvariant, still
  <1>10. /\ Asking' = Asking
         /\ Cardinality(Arrivals(hist', "captcha_paused")) \in Nat /\ Cardinality(Asking') \in Nat
    BY <1>1, <1>4, <1>8, ArrivalsType, Bounds, FS_Subset, FS_CardinalityType DEF Asking, still
  <1> QED  BY <1>3, <1>4, <1>5, <1>6, <1>7, <1>8, <1>9, <1>10, HistoryKeeps DEF still

LEMMA DriverStep ==
    ASSUME DriverInvariant, [Next]_vars PROVE DriverInvariant'
  <1>1. ASSUME NEW w \in Workers, WorkerNext(w) PROVE DriverInvariant'
    <2>1. CASE Handles(w)
      BY <2>1, ResearchKeeps, VaultCheckKeeps, AdmissionKeeps, SignupKeeps, VerificationKeeps,
        LoopPhaseKeeps, DeveloperAppKeeps, MeetsCaptchaKeeps, RecordsCaptchaKeeps, CaptureKeeps,
        StoresKeeps, ProveKeeps, StorageKeeps, HandlerRaisesKeeps DEF Handles
    <2> QED  BY <1>1, <2>1, ClaimKeeps, BeforeStepKeeps, CommitStepKeeps, UnwindKeeps, RecordKeeps
      DEF WorkerNext
  <1>2. CASE OperatorNext
    BY <1>2, RequestsKeep, RereadsKeeps, ControlCommitsKeeps DEF OperatorNext
  <1>3. CASE UNCHANGED vars
    BY <1>3 DEF vars, DriverInvariant, TypeOK, Into, Asking, Reached
  <1> QED  BY <1>1, <1>2, <1>3 DEF Next

\* A history that begins a run: nobody is walking, nothing is requested or recorded.
Fresh ==
    /\ hist \in Seq(Boundary) /\ Into("captcha_paused") = {}
    /\ owner = NoWorker /\ walk = [w \in Workers |-> Idle]
    /\ decision \in Routes /\ standing \in BOOLEAN /\ login \in BOOLEAN
    /\ asked \in 0..1
    /\ counters = [captcha |-> 0, admission |-> asked, verification |-> 0,
                   validation |-> 0, generation |-> 0]
    /\ effects = [signup |-> "none", devapp |-> "none", minted |-> {}, spent |-> {}]
    /\ outcome = NoOutcome /\ pauseOpen = FALSE /\ control = NoControl
    /\ regime \in Regimes

LEMMA StepType ==
    ASSUME NEW from \in Phases, NEW to \in Phases
    PROVE  /\ Step(from, to) \in Boundary /\ Step(from, to).to = to /\ Step(from, to).from = from
           /\ Step(from, to).attempt = 0 /\ Step(from, to).thread = from
  <1>1. "step" \in Codes /\ 0 \in Nat
    BY PhaseNames
  <1> QED  BY <1>1 DEF Step, Crossing, Boundary

LEMMA FreshStarts == Init \/ InitAnswered \/ InitSignedIn => Fresh
  <1>1. ASSUME Init PROVE Fresh
    <2>1. hist \in Seq(Boundary) /\ Into("captcha_paused") = {}
      BY <1>1 DEF Init, Into
    <2> QED  BY <1>1, <2>1 DEF Init, Fresh, Routes
  <1>2. ASSUME InitAnswered PROVE Fresh
    <2>1. /\ Step("research", "vault_check") \in Boundary
          /\ Step("research", "vault_check").to = "vault_check"
          /\ Step("vault_check", "awaiting_admission") \in Boundary
          /\ Step("vault_check", "awaiting_admission").to = "awaiting_admission"
      BY PhaseNames, StepType
    <2>2. hist \in Seq(Boundary) /\ DOMAIN hist = 1..2
            /\ \A i \in 1..2 : hist[i].to # "captcha_paused"
      BY <1>2, <2>1 DEF InitAnswered
    <2>3. Into("captcha_paused") = {}
      BY <2>2 DEF Into
    <2>4. decision \in Routes /\ asked \in 0..1
      BY <1>2 DEF InitAnswered, Routes
    <2>5. standing \in BOOLEAN /\ login \in BOOLEAN /\ pauseOpen = FALSE
      BY <1>2 DEF InitAnswered
    <2>6. counters = [captcha |-> 0, admission |-> asked, verification |-> 0,
                      validation |-> 0, generation |-> 0]
      BY <1>2 DEF InitAnswered
    <2>7. /\ owner = NoWorker /\ walk = [w \in Workers |-> Idle]
          /\ effects = [signup |-> "none", devapp |-> "none", minted |-> {}, spent |-> {}]
          /\ outcome = NoOutcome /\ control = NoControl /\ regime \in Regimes
      BY <1>2 DEF InitAnswered
    <2> QED  BY <2>2, <2>3, <2>4, <2>5, <2>6, <2>7 DEF Fresh
  <1>3. ASSUME InitSignedIn PROVE Fresh
    <2>1. /\ Step("research", "vault_check") \in Boundary
          /\ Step("research", "vault_check").to = "vault_check"
          /\ Step("vault_check", "route_selected_login") \in Boundary
          /\ Step("vault_check", "route_selected_login").to = "route_selected_login"
          /\ Step("route_selected_login", "authenticated") \in Boundary
          /\ Step("route_selected_login", "authenticated").to = "authenticated"
          /\ Step("authenticated", "developer_app") \in Boundary
          /\ Step("authenticated", "developer_app").to = "developer_app"
      BY PhaseNames, StepType
    <2>2. hist \in Seq(Boundary) /\ DOMAIN hist = 1..4
            /\ \A i \in 1..4 : hist[i].to # "captcha_paused"
      BY <1>3, <2>1 DEF InitSignedIn, SignedIn
    <2>3. Into("captcha_paused") = {}
      BY <2>2 DEF Into
    <2>4. decision \in Routes /\ asked \in 0..1
      BY <1>3 DEF InitSignedIn, Routes
    <2>5. standing \in BOOLEAN /\ login \in BOOLEAN /\ pauseOpen = FALSE
      BY <1>3 DEF InitSignedIn
    <2>6. counters = [captcha |-> 0, admission |-> asked, verification |-> 0,
                      validation |-> 0, generation |-> 0]
      BY <1>3 DEF InitSignedIn
    <2>7. /\ owner = NoWorker /\ walk = [w \in Workers |-> Idle]
          /\ effects = [signup |-> "none", devapp |-> "none", minted |-> {}, spent |-> {}]
          /\ outcome = NoOutcome /\ control = NoControl /\ regime \in Regimes
      BY <1>3 DEF InitSignedIn
    <2> QED  BY <2>2, <2>3, <2>4, <2>5, <2>6, <2>7 DEF Fresh
  <1> QED  BY <1>1, <1>2, <1>3

LEMMA DriverStart == Fresh => DriverInvariant
  <1> SUFFICES ASSUME Fresh PROVE DriverInvariant
    OBVIOUS
  <1>1. walk \in [Workers -> Walk] /\ \A w \in Workers : walk[w] = Idle
    BY IdleType DEF Fresh
  <1>2. counters \in Counters /\ effects \in Effects /\ counters.captcha = 0
          /\ asked = counters.admission /\ asked \in Nat
    BY Bounds DEF Fresh, Counters, Effects
  <1>3. control \in ControlRequest /\ PlanShape(control.plan) /\ control.used = 0
          /\ control.kind = "none"
    <2>1. "research" \in Phases /\ "step" \in Codes /\ 0 \in Nat
      BY PhaseNames
    <2>2. NoPlan \in Boundary /\ PlanShape(NoPlan)
      BY <2>1, CrossingType DEF NoPlan, PlanShape, Legal
    <2>3. control = [kind |-> "none", plan |-> NoPlan, used |-> 0]
      BY DEF Fresh, NoControl
    <2> QED  BY <2>2, <2>3 DEF ControlRequest
  <1>4. TypeOK
    <2>1. regime.maxControls \in Nat /\ control.used <= regime.maxControls
      BY <1>3, Bounds DEF Fresh
    <2>2. outcome.phase \in Phases /\ outcome.verdict \in Verdicts
      BY PhaseNames DEF Fresh, NoOutcome, Verdicts
    <2> QED  BY <1>1, <1>2, <1>3, <2>1, <2>2 DEF Fresh, TypeOK
  <1>5. Asking = {} /\ Cardinality(Into("captcha_paused")) + Cardinality(Asking) <= counters.captcha
    <2>1. Asking = {} /\ Into("captcha_paused") = {}
      BY <1>1, IdleType DEF Asking, Fresh
    <2>2. Cardinality(Into("captcha_paused")) = 0 /\ Cardinality(Asking) = 0
      BY <2>1, FS_EmptySet
    <2> QED  BY <1>2, <2>1, <2>2
  <1>6. \A i \in DOMAIN hist : hist[i].to # "captcha_paused"
    BY DEF Fresh, Into
  <1>7. \A w \in Workers : InPlace(walk[w]) /\ walk[w].pc = "idle"
    BY <1>1, IdleType DEF InPlace
  <1> QED  BY <1>2, <1>3, <1>4, <1>5, <1>6, <1>7 DEF DriverInvariant, Fresh

LEMMA DriverInvariantHolds ==
    (Init \/ InitAnswered \/ InitSignedIn) /\ [][Next]_vars => []DriverInvariant
  <1>1. Init \/ InitAnswered \/ InitSignedIn => DriverInvariant
    BY FreshStarts, DriverStart
  <1>2. DriverInvariant /\ [Next]_vars => DriverInvariant'
    BY DriverStep
  <1> QED  BY <1>1, <1>2, PTL

\* Two workers at once and an operator between any two of their steps: one prompt, every
\* CAPTCHA pause counted before it is asked, no transition the table refuses, and no effect
\* ahead of its boundary, in every regime.
THEOREM RivalsAreSafe == Spec => []RivalsSafety
  <1>1. ASSUME DriverInvariant PROVE RivalsSafety
    <2>1. AdmissionAskedOnce
      BY <1>1 DEF AdmissionAskedOnce, DriverInvariant, TypeOK, Counters
    <2>2. CountedBeforeAsked
      <3>1. /\ Cardinality(Arrivals(hist, "captcha_paused")) \in Nat
            /\ Into("captcha_paused") = Arrivals(hist, "captcha_paused")
        BY <1>1, ArrivalsType DEF DriverInvariant, TypeOK, Into, Arrivals
      <3>2. Cardinality(Asking) \in Nat /\ counters.captcha \in Nat
        BY <1>1, Bounds, FS_Subset, FS_CardinalityType DEF Asking, DriverInvariant, TypeOK, Counters
      <3> QED  BY <1>1, <3>1, <3>2 DEF CountedBeforeAsked, DriverInvariant
    <2>3. NoRefusedStep
      BY <1>1 DEF NoRefusedStep, DriverInvariant, InPlace, PlanShape
    <2>4. EffectsFollowBoundaries
      BY <1>1 DEF EffectsFollowBoundaries, DriverInvariant, Reached, EffectBearing, Into
    <2> QED  BY <2>1, <2>2, <2>3, <2>4 DEF RivalsSafety
  <1> QED  BY <1>1, DriverInvariantHolds, PTL DEF Spec

-----------------------------------------------------------------------------
(* What a handler does to a walk                                              *)

\* Every handler but the three of a credential's capture, proof and memo: it stops the
\* walk, or goes on along an edge of the table, and keeps the mints and the CAPTCHA count.
Light(w) ==
    /\ walk' \in [Workers -> Walk] /\ \A v \in Workers \ {w} : walk'[v] = walk[v]
    /\ walk[w].pc \in {"drive", "captcha"}
    /\ walk'[w].phase = walk[w].phase /\ walk'[w].attempt = walk[w].attempt
    /\ walk'[w].memo = walk[w].memo
    /\ walk'[w].pc \in {"unwind", "captcha", "commit"}
    /\ walk'[w].pc = "captcha" => walk[w].pc = "drive" /\ counters.captcha < CaptchaBudget
                                    /\ walk[w].phase \in Prompting
    /\ walk'[w].pc = "commit" => /\ walk'[w].to \in LegalTargets[walk[w].phase] \ {"completed"}
                                 /\ walk[w].phase \notin Waiting
    /\ walk'[w].pc = "commit" /\ walk[w].phase = "credential_validation"
          => walk[w].memo = "none" /\ walk'[w].to = "paused"
    /\ counters'.generation = counters.generation /\ effects'.minted = effects.minted
    /\ counters'.captcha = IF walk[w].pc = "captcha" THEN counters.captcha + 1
                           ELSE counters.captcha
    /\ UNCHANGED apart

LEMMA ReportIsLight ==
    ASSUME DriverInvariant, NEW w \in Workers, NEW to \in Phases, NEW code \in Codes,
           Reports(w, to, code), walk[w].pc \in {"drive", "captcha"},
           to \in LegalTargets[walk[w].phase] \ {"completed"}, walk[w].phase \notin Waiting,
           walk[w].phase = "credential_validation" => walk[w].memo = "none" /\ to = "paused",
           counters'.generation = counters.generation, effects'.minted = effects.minted,
           counters'.captcha = IF walk[w].pc = "captcha" THEN counters.captcha + 1
                               ELSE counters.captcha,
           UNCHANGED apart
    PROVE  Light(w)
  <1>1. /\ walk' \in [Workers -> Walk] /\ \A v \in Workers \ {w} : walk'[v] = walk[v]
        /\ walk'[w] = [walk[w] EXCEPT !.pc = "commit", !.to = to, !.code = code]
    <2>1. TypeOK
      BY DEF DriverInvariant
    <2> QED  BY <2>1, Reported, ZenonT(60)
  <1>2. /\ walk'[w].pc = "commit" /\ walk'[w].to = to /\ walk'[w].memo = walk[w].memo
        /\ walk'[w].phase = walk[w].phase /\ walk'[w].attempt = walk[w].attempt
    BY <1>1, Typed DEF Walk
  <1> QED  BY <1>1, <1>2 DEF Light

LEMMA DeferIsLight ==
    ASSUME DriverInvariant, NEW w \in Workers, Defers(w), walk[w].pc = "drive",
           counters'.generation = counters.generation, effects'.minted = effects.minted,
           counters'.captcha = counters.captcha, UNCHANGED apart
    PROVE  Light(w)
  <1>1. /\ walk' \in [Workers -> Walk] /\ \A v \in Workers \ {w} : walk'[v] = walk[v]
        /\ walk'[w] = [walk[w] EXCEPT !.pc = "unwind"]
    <2>1. TypeOK
      BY DEF DriverInvariant
    <2> QED  BY <2>1, Deferred
  <1>2. /\ walk'[w].pc = "unwind" /\ walk'[w].memo = walk[w].memo
        /\ walk'[w].phase = walk[w].phase /\ walk'[w].attempt = walk[w].attempt
    BY <1>1, Typed DEF Walk
  <1> QED  BY <1>1, <1>2 DEF Light

LEMMA RouteIsLight ==
    ASSUME DriverInvariant, NEW w \in Workers,
           Research(w) \/ VaultCheck(w) \/ Admission(w) \/ AskAdmission(w) \/ EnterSignup(w)
    PROVE  Light(w)
  <1>1. walk[w].pc = "drive" /\ UNCHANGED apart /\ counters \in Counters
    BY Typed DEF Research, VaultCheck, Admission, AskAdmission, EnterSignup, At, RowsTyped
  <1>2. counters'.generation = counters.generation /\ effects'.minted = effects.minted
          /\ counters'.captcha = counters.captcha
    BY <1>1 DEF Research, VaultCheck, Admission, AskAdmission, EnterSignup, rows, Counters
  <1>3. Defers(w) \/ \E to \in LegalTargets[walk[w].phase] \ {"completed"} :
                        to \in Phases /\ Reports(w, to, "step")
    <2>1. CASE Research(w)
      BY <2>1, PhaseNames DEF Research, At, LegalTargets
    <2>2. CASE VaultCheck(w)
      BY <2>2, PhaseNames DEF VaultCheck, At, LegalTargets
    <2>3. CASE Admission(w)
      BY <2>3, PhaseNames DEF Admission, At, LegalTargets
    <2>4. CASE AskAdmission(w)
      BY <2>4 DEF AskAdmission
    <2>5. CASE EnterSignup(w)
      BY <2>5, PhaseNames DEF EnterSignup, At, LegalTargets
    <2> QED  BY <2>1, <2>2, <2>3, <2>4, <2>5
  <1>4. walk[w].phase # "credential_validation" /\ "step" \in Codes /\ walk[w].phase \notin Waiting
    BY PhaseNames DEF Research, VaultCheck, Admission, AskAdmission, EnterSignup, At, Waiting
  <1> QED  BY <1>1, <1>2, <1>3, <1>4, ReportIsLight, DeferIsLight

LEMMA AccountIsLight ==
    ASSUME DriverInvariant, NEW w \in Workers,
           \/ SignupAgain(w) \/ Signup(w) \/ Verification(w) \/ DeveloperApp(w)
           \/ VaultStorage(w) \/ CaptureFails(w) \/ HandlerRaises(w)
    PROVE  Light(w)
  <1>1. walk[w].pc = "drive" /\ UNCHANGED apart /\ counters \in Counters /\ effects \in Effects
    BY Typed DEF SignupAgain, Signup, Verification, DeveloperApp, VaultStorage, CaptureFails,
      HandlerRaises, EntersLifecycle, At, RowsTyped
  <1>2. counters'.generation = counters.generation /\ counters'.captcha = counters.captcha
    BY <1>1 DEF SignupAgain, Signup, Verification, DeveloperApp, VaultStorage, CaptureFails,
      HandlerRaises, rows, Counters
  <1>3. effects'.minted = effects.minted
    BY <1>1 DEF SignupAgain, Signup, Verification, DeveloperApp, VaultStorage, CaptureFails,
      HandlerRaises, rows, LeftOpen, Effects
  <1>4. Defers(w) \/ \E to \in LegalTargets[walk[w].phase] \ {"completed"} : \E code \in Codes :
                        to \in Phases /\ Reports(w, to, code) /\ walk[w].phase \notin Waiting
                          /\ (walk[w].phase = "credential_validation"
                                => walk[w].memo = "none" /\ to = "paused")
    <2>1. CASE SignupAgain(w)
      BY <2>1, PhaseNames DEF SignupAgain, At, LegalTargets, Waiting
    <2>2. CASE Signup(w)
      BY <2>2, PhaseNames DEF Signup, At, LegalTargets, Waiting
    <2>3. CASE Verification(w)
      BY <2>3, PhaseNames DEF Verification, At, LegalTargets, Waiting
    <2>4. CASE DeveloperApp(w)
      BY <2>4, PhaseNames DEF DeveloperApp, At, LegalTargets, Waiting
    <2>5. CASE VaultStorage(w)
      BY <2>5, PhaseNames DEF VaultStorage, At, LegalTargets, Waiting
    <2>6. CASE CaptureFails(w)
      BY <2>6, PhaseNames DEF CaptureFails, EntersLifecycle, At, LegalTargets, Waiting
    <2>7. CASE HandlerRaises(w)
      BY <2>7 DEF HandlerRaises
    <2> QED  BY <2>1, <2>2, <2>3, <2>4, <2>5, <2>6, <2>7
  <1> QED  BY <1>1, <1>2, <1>3, <1>4, ReportIsLight, DeferIsLight

LEMMA LoopIsLight ==
    ASSUME DriverInvariant, NEW w \in Workers, LoopPhase(w) \/ MeetsCaptcha(w) \/ RecordsCaptcha(w)
    PROVE  Light(w)
  <1>1. walk[w] \in Walk /\ walk \in [Workers -> Walk] /\ UNCHANGED apart
          /\ counters \in Counters /\ effects \in Effects /\ counters.captcha \in Nat
    BY Typed DEF LoopPhase, MeetsCaptcha, RecordsCaptcha, RowsTyped
  <1>2. counters'.generation = counters.generation /\ effects'.minted = effects.minted
    BY <1>1 DEF LoopPhase, MeetsCaptcha, RecordsCaptcha, LeftOpen, Counters, Effects
  <1>3. CASE RecordsCaptcha(w)
    <2>1. walk[w].pc = "captcha" /\ walk[w].phase \in Prompting /\ Reports(w, "captcha_paused", "step")
            /\ counters'.captcha = counters.captcha + 1
      BY <1>1, <1>3, Typed DEF RecordsCaptcha, InPlace, Counters
    <2>2. "captcha_paused" \in LegalTargets[walk[w].phase] \ {"completed"}
      BY <2>1 DEF Prompting, SessionBearing, LegalTargets
    <2>3. walk[w].phase # "credential_validation" /\ "captcha_paused" \in Phases /\ "step" \in Codes
            /\ walk[w].phase \notin Waiting
      BY <2>1, PhaseNames DEF Prompting, SessionBearing, Waiting
    <2> QED  BY <1>1, <1>2, <2>1, <2>2, <2>3, ReportIsLight
  <1>4. ASSUME LoopPhase(w) \/ MeetsCaptcha(w),
               NEW k \in Walk, walk' = [walk EXCEPT ![w] = k], k.phase = walk[w].phase,
               k.attempt = walk[w].attempt, k.memo = walk[w].memo,
               \/ k.pc = "captcha" /\ counters.captcha < CaptchaBudget /\ walk[w].phase \in Prompting
               \/ k.pc = "commit" /\ k.to \in LegalTargets[walk[w].phase] \ {"completed"}
        PROVE  Light(w)
    <2>1. walk[w].pc = "drive" /\ walk[w].phase # "credential_validation"
            /\ counters'.captcha = counters.captcha /\ walk[w].phase \notin Waiting
      BY <1>4 DEF LoopPhase, MeetsCaptcha, At, SessionBearing, Waiting
    <2>2. walk' \in [Workers -> Walk] /\ walk'[w] = k /\ \A v \in Workers \ {w} : walk'[v] = walk[v]
      BY <1>1, <1>4
    <2> QED  BY <1>1, <1>2, <1>4, <2>1, <2>2 DEF Light
  <1>5. CASE LoopPhase(w)
    <2>1. PICK to \in {PhaseSuccessors[walk[w].phase], "paused"} :
            walk' = [walk EXCEPT ![w].pc = "commit", ![w].to = to, ![w].code = "step",
                                 ![w].reroute = FALSE]
      BY <1>5 DEF LoopPhase
    <2>2. to \in LegalTargets[walk[w].phase] \ {"completed"} /\ to \in Phases /\ "step" \in Codes
      BY <1>5, PhaseNames DEF LoopPhase, At, PhaseSuccessors, LegalTargets
    <2> DEFINE k == [walk[w] EXCEPT !.pc = "commit", !.to = to, !.code = "step", !.reroute = FALSE]
    <2>3. k \in Walk /\ k.phase = walk[w].phase /\ k.attempt = walk[w].attempt
            /\ k.memo = walk[w].memo /\ k.pc = "commit" /\ k.to = to
      BY <1>1, <2>2 DEF Walk
    <2>4. walk' = [walk EXCEPT ![w] = k]
      BY <1>1, <2>1
    <2> HIDE DEF k
    <2> QED  BY <1>4, <1>5, <2>2, <2>3, <2>4
  <1>6. CASE MeetsCaptcha(w)
    <2>1. walk[w].phase \in Prompting
      BY <1>6 DEF MeetsCaptcha, Prompting
    <2>2. CASE CaptchaSpent(counters.captcha)
      <3> DEFINE k == [walk[w] EXCEPT !.pc = "commit", !.to = "paused", !.code = "step",
                                      !.reroute = FALSE]
      <3>1. k \in Walk /\ k.phase = walk[w].phase /\ k.attempt = walk[w].attempt
              /\ k.memo = walk[w].memo /\ k.pc = "commit" /\ k.to = "paused"
        <4>1. "paused" \in Phases /\ "step" \in Codes
          BY PhaseNames
        <4> QED  BY <1>1, <4>1 DEF Walk
      <3>2. walk' = [walk EXCEPT ![w] = k]
        BY <1>1, <1>6, <2>2 DEF MeetsCaptcha
      <3>3. "paused" \in LegalTargets[walk[w].phase] \ {"completed"}
        BY <2>1 DEF Prompting, SessionBearing, LegalTargets
      <3> HIDE DEF k
      <3> QED  BY <1>4, <1>6, <3>1, <3>2, <3>3
    <2>3. CASE ~CaptchaSpent(counters.captcha)
      <3> DEFINE k == [walk[w] EXCEPT !.pc = "captcha", !.reroute = FALSE]
      <3>1. k \in Walk /\ k.phase = walk[w].phase /\ k.attempt = walk[w].attempt
              /\ k.memo = walk[w].memo /\ k.pc = "captcha"
        BY <1>1 DEF Walk
      <3>2. walk' = [walk EXCEPT ![w].pc = "captcha", ![w].reroute = FALSE]
        BY <1>6, <2>3 DEF MeetsCaptcha
      <3>3. walk' = [walk EXCEPT ![w] = k]
        BY <1>1, <3>2
      <3>4. counters.captcha < CaptchaBudget
        BY <1>1, <2>3, Bounds DEF CaptchaSpent
      <3> HIDE DEF k
      <3> QED  BY <1>4, <1>6, <2>1, <3>1, <3>3, <3>4
    <2> QED  BY <2>2, <2>3
  <1> QED  BY <1>3, <1>5, <1>6

-----------------------------------------------------------------------------
(* One worker at a time: no phase outlasts its lease.                         *)

\* A worker that is neither walking nor only recording an outcome has let go of the run.
AtRest(w) == walk[w].pc \in {"idle", "record"}

\* What holds of a walk that is being driven: its run has not completed, the CAPTCHA it
\* is about to count fits the budget, the credential it stores and proves was minted in the
\* run's generation, and a remembered step is on its way to the validation it is for.
Settled(w) ==
    walk[w].pc \notin {"idle", "record", "unwind"} =>
        /\ ResumptionPhase(hist) # "completed"
        /\ walk[w].pc = "captcha" => counters.captcha < CaptchaBudget
        /\ walk[w].pc \in {"store", "prove"} =>
              /\ walk[w].gen = counters.generation /\ counters.generation \in effects.minted
              /\ walk[w].memo = "none"
        /\ walk[w].memo # "none" =>
              \/ walk[w].phase = "vault_storage"
              \/ walk[w].phase = "credential_validation" /\ walk[w].pc \in {"top", "drive"}
              \/ /\ walk[w].phase = "credential_generation" /\ walk[w].pc = "commit"
                 /\ walk[w].to = "vault_storage"
        /\ (walk[w].pc = "commit" /\ walk[w].to = "completed") \/ walk[w].memo = "completed"
              => counters.generation \in effects.minted

Budgeted ==
    /\ counters.captcha <= CaptchaBudget
    /\ effects.minted \subseteq 0..counters.generation /\ counters.generation < Generations
    /\ ResumptionPhase(hist) = "completed" => counters.generation \in effects.minted

SoleInvariant ==
    ~regime.longSteps =>
        /\ \A w \in Workers : ~AtRest(w) => owner = w
        /\ \A w \in Workers : Settled(w)
        /\ Budgeted

\* A worker at work is the only one.
LEMMA AloneAtWork ==
    ASSUME SoleInvariant, ~regime.longSteps, NEW w \in Workers, ~AtRest(w)
    PROVE  owner = w /\ Settled(w) /\ Budgeted /\ \A v \in Workers \ {w} : AtRest(v)
  BY DEF SoleInvariant

\* The run stands where it stood, or where the commit leads.
LEMMA CommitLeads ==
    ASSUME NEW h \in Seq(Boundary), NEW b \in Boundary
    PROVE  /\ CommitPhase(h, b) \in Seq(Boundary)
           /\ \/ CommitPhase(h, b) = h
              \/ /\ CommitPhase(h, b) # << >> /\ LastBoundary(CommitPhase(h, b)) = b
                 /\ ResumptionPhase(CommitPhase(h, b)) = b.to
                 /\ ResumptionAttempt(CommitPhase(h, b)) = b.attempt
           /\ ResumptionPhase(CommitPhase(h, b)) \in {ResumptionPhase(h), b.to}
  <1> DEFINE g == CommitPhase(h, b)
  <1>1. g \in Seq(Boundary)
    BY Committed DEF Extends
  <1>2. CASE g = h
    BY <1>1, <1>2
  <1>3. CASE Len(g) = Len(h) + 1 /\ g[Len(h) + 1] = b
    <2>1. LastBoundary(g) = b
      BY <1>3 DEF LastBoundary
    <2>2. g # << >>
      BY <1>1, <1>3, EmptySeq, LenProperties
    <2> QED  BY <1>1, <2>1, <2>2 DEF ResumptionPhase, ResumptionAttempt
  <1> QED  BY <1>2, <1>3, Committed

LEMMA SoleKeeps ==
    ASSUME NEW w \in Workers, \A v \in Workers \ {w} : walk'[v] = walk[v] /\ AtRest(v),
           ~AtRest(w)' => owner' = w, Settled(w)', Budgeted'
    PROVE  SoleInvariant'
  <1>1. \A v \in Workers \ {w} : AtRest(v)'
    BY DEF AtRest
  <1>2. \A v \in Workers : (~AtRest(v) => owner = v)'
    BY <1>1
  <1>3. \A v \in Workers \ {w} : Settled(v)'
    BY <1>1 DEF AtRest, Settled
  <1>4. \A v \in Workers : Settled(v)'
    BY <1>3
  <1> QED  BY <1>2, <1>4 DEF SoleInvariant

LEMMA LightSettles ==
    ASSUME DriverInvariant, SoleInvariant, ~regime.longSteps, NEW w \in Workers, Light(w)
    PROVE  SoleInvariant'
  <1>1. walk[w] \in Walk /\ counters.captcha \in Nat /\ ~AtRest(w) /\ CaptchaBudget \in Nat
          /\ effects' = effects' /\ InPlace(walk[w])
    BY Typed, Bounds DEF Light, AtRest
  <1>2. owner = w /\ Settled(w) /\ Budgeted /\ \A v \in Workers \ {w} : AtRest(v)
    BY <1>1, AloneAtWork
  <1>3. hist' = hist /\ owner' = owner /\ regime' = regime
    BY DEF Light, apart
  <1>4. Budgeted'
    BY <1>1, <1>2, <1>3 DEF Light, Budgeted, Settled
  <1>5. Settled(w)'
    <2>1. ResumptionPhase(hist') # "completed" /\ counters'.generation = counters.generation
            /\ effects'.minted = effects.minted
      BY <1>2, <1>3 DEF Light, Settled
    <2>2. walk'[w].memo # "none" => walk[w].phase \in {"vault_storage", "credential_validation"}
      BY <1>2 DEF Light, Settled
    <2>3. walk'[w].pc \in {"unwind", "captcha", "commit"}
            /\ walk'[w].phase = walk[w].phase /\ walk'[w].memo = walk[w].memo
            /\ (walk'[w].pc = "captcha" =>
                  counters'.captcha < CaptchaBudget /\ walk[w].phase \in Prompting)
            /\ (walk'[w].pc = "commit" => walk'[w].to # "completed")
            /\ (walk'[w].pc = "commit" /\ walk[w].phase = "credential_validation"
                  => walk[w].memo = "none")
      BY DEF Light
    <2>4. walk'[w].memo # "none" /\ walk'[w].pc # "unwind" => walk'[w].phase = "vault_storage"
      BY <2>2, <2>3 DEF Prompting, SessionBearing
    <2>5. walk'[w].memo = "completed" => counters'.generation \in effects'.minted
      BY <1>2, <2>1, <2>3 DEF Settled, Light
    <2> QED  BY <2>1, <2>3, <2>4, <2>5 DEF Settled
  <1> QED  BY <1>2, <1>3, <1>4, <1>5, SoleKeeps DEF Light

LEMMA CaptureSettles ==
    ASSUME DriverInvariant, SoleInvariant, ~regime.longSteps, NEW w \in Workers, Capture(w)
    PROVE  SoleInvariant'
  <1>1. walk[w] \in Walk /\ walk \in [Workers -> Walk] /\ walk[w].pc = "drive" /\ ~AtRest(w)
          /\ (walk[w].phase = "credential_generation" \/
                (walk[w].phase = "credential_validation" /\ walk[w].memo = "none"))
          /\ counters \in Counters /\ effects \in Effects /\ counters.generation \in Nat
    BY Typed DEF Capture, EntersLifecycle, At, AtRest, RowsTyped, Counters
  <1>2. owner = w /\ Settled(w) /\ Budgeted /\ \A v \in Workers \ {w} : AtRest(v)
    BY <1>1, AloneAtWork
  <1>3. /\ walk'[w] = [walk[w] EXCEPT !.pc = "store", !.gen = counters.generation]
        /\ \A v \in Workers \ {w} : walk'[v] = walk[v]
    BY <1>1 DEF Capture
  <1>4. /\ walk'[w].pc = "store" /\ walk'[w].gen = counters.generation
        /\ walk'[w].memo = walk[w].memo /\ walk'[w].phase = walk[w].phase
    BY <1>1, <1>3 DEF Walk
  <1>5. effects'.minted = effects.minted \cup {counters.generation} /\ counters' = counters
          /\ hist' = hist /\ owner' = owner
    BY <1>1 DEF Capture, Effects, apart
  <1>6. walk[w].memo = "none"
    BY <1>1, <1>2 DEF Settled
  <1>7. Settled(w)'
    BY <1>1, <1>2, <1>4, <1>5, <1>6 DEF Settled
  <1>8. Budgeted'
    BY <1>1, <1>2, <1>5 DEF Budgeted
  <1> QED  BY <1>2, <1>3, <1>5, <1>7, <1>8, SoleKeeps

LEMMA StoresSettles ==
    ASSUME DriverInvariant, SoleInvariant, ~regime.longSteps, NEW w \in Workers, Stores(w)
    PROVE  SoleInvariant'
  <1>1. walk[w] \in Walk /\ walk \in [Workers -> Walk] /\ hist \in Seq(Boundary)
          /\ walk[w].phase \in {"credential_generation", "credential_validation"}
          /\ walk[w].pc = "store" /\ ~AtRest(w) /\ counters' = counters /\ effects' = effects
          /\ owner' = owner
    BY Typed DEF Stores, InPlace, AtRest, rows
  <1>2. owner = w /\ Settled(w) /\ Budgeted /\ \A v \in Workers \ {w} : AtRest(v)
    BY <1>1, AloneAtWork
  <1>3. /\ walk'[w] = [walk[w] EXCEPT !.pc = "prove"]
        /\ \A v \in Workers \ {w} : walk'[v] = walk[v]
    BY <1>1 DEF Stores
  <1>4. /\ walk'[w].pc = "prove" /\ walk'[w].gen = walk[w].gen /\ walk'[w].memo = walk[w].memo
    BY <1>1, <1>3 DEF Walk
  <1>5. ResumptionPhase(hist') # "completed"
    <2> DEFINE attempt == ResumptionAttempt(hist)
               thread == walk[w].phase
               b == Crossing("credential_generation", "vault_storage", attempt, thread, "step")
               c == Crossing("vault_storage", "credential_validation", attempt, thread, "step")
               h == CommitPhase(hist, b)
    <2>1. b \in Boundary /\ c \in Boundary /\ b.to = "vault_storage" /\ c.to = "credential_validation"
      <3>1. attempt \in Nat /\ thread \in Phases
        BY <1>1, LastType DEF Walk
      <3>2. {"credential_generation", "vault_storage", "credential_validation"} \subseteq Phases
              /\ "step" \in Codes
        BY PhaseNames
      <3> HIDE DEF attempt, thread
      <3>3. b \in Boundary /\ b.to = "vault_storage"
        BY <3>1, <3>2, CrossingType
      <3>4. c \in Boundary /\ c.to = "credential_validation"
        BY <3>1, <3>2, CrossingType
      <3> QED  BY <3>3, <3>4
    <2>2. hist' = CommitPhase(h, c)
      BY DEF Stores, Stored
    <2> HIDE DEF b, c
    <2>3. h \in Seq(Boundary) /\ ResumptionPhase(h) \in {ResumptionPhase(hist), b.to}
      BY <1>1, <2>1, CommitLeads
    <2> HIDE DEF h
    <2>4. ResumptionPhase(hist') \in {ResumptionPhase(h), c.to}
      BY <2>1, <2>2, <2>3, CommitLeads
    <2>5. ResumptionPhase(hist) # "completed"
      BY <1>1, <1>2 DEF Settled
    <2> QED  BY <2>1, <2>3, <2>4, <2>5
  <1>6. Settled(w)'
    BY <1>1, <1>2, <1>4, <1>5 DEF Settled
  <1>7. Budgeted'
    BY <1>1, <1>2, <1>5 DEF Budgeted
  <1> QED  BY <1>1, <1>2, <1>3, <1>6, <1>7, SoleKeeps

LEMMA ProveSettles ==
    ASSUME DriverInvariant, SoleInvariant, ~regime.longSteps, NEW w \in Workers, Prove(w)
    PROVE  SoleInvariant'
  <1>1. walk[w] \in Walk /\ walk[w].pc = "prove" /\ ~AtRest(w)
          /\ walk[w].phase \in {"credential_generation", "credential_validation"}
          /\ counters \in Counters /\ effects' = effects /\ hist' = hist /\ owner' = owner
          /\ counters.generation \in Nat /\ counters.captcha \in Nat
    BY Typed DEF Prove, InPlace, AtRest, RowsTyped, Counters, apart
  <1>2. owner = w /\ Settled(w) /\ Budgeted /\ \A v \in Workers \ {w} : AtRest(v)
    BY <1>1, AloneAtWork
  <1>3. ResumptionPhase(hist) # "completed" /\ walk[w].gen = counters.generation
          /\ counters.generation \in effects.minted /\ walk[w].memo = "none"
    BY <1>1, <1>2 DEF Settled
  <1> DEFINE used == counters.validation + 1
             counted == [counters EXCEPT !.validation = IF used <= ValidationBudget
                                                        THEN used ELSE @]
  <1>4. counted.captcha = counters.captcha /\ counted.generation = counters.generation
          /\ [counted EXCEPT !.generation = @ + 1].generation = counters.generation + 1
          /\ [counted EXCEPT !.generation = @ + 1].captcha = counters.captcha
    BY <1>1 DEF Counters
  <1>5. \/ counters' = counted /\ Earns(w, "completed")
        \/ counters' = counted /\ (Defers(w) \/ Reports(w, "paused", "step"))
        \/ /\ counters.generation + 1 < Generations
           /\ counters' = [counted EXCEPT !.generation = @ + 1]
           /\ Earns(w, "credential_generation")
    BY <1>3 DEF Prove, MayRegenerate
  <1> HIDE DEF counted
  <1>6. counters'.captcha = counters.captcha
          /\ counters'.generation \in {counters.generation, counters.generation + 1}
          /\ counters'.generation < Generations
    BY <1>2, <1>4, <1>5 DEF Budgeted
  <1>7. Budgeted'
    BY <1>1, <1>2, <1>3, <1>6 DEF Budgeted
  <1>8. (\A v \in Workers \ {w} : walk'[v] = walk[v]) /\ Settled(w)'
    <2>0. TypeOK
      BY DEF DriverInvariant
    <2>1. CASE Defers(w)
      <3>1. (\A v \in Workers \ {w} : walk'[v] = walk[v])
              /\ walk'[w] = [walk[w] EXCEPT !.pc = "unwind"]
        BY <2>0, <2>1, Deferred
      <3>2. walk'[w].pc = "unwind"
        BY <1>1, <3>1 DEF Walk
      <3> QED  BY <3>1, <3>2 DEF Settled
    <2>2. CASE Reports(w, "paused", "step")
      <3>1. (\A v \in Workers \ {w} : walk'[v] = walk[v])
              /\ walk'[w] = [walk[w] EXCEPT !.pc = "commit", !.to = "paused", !.code = "step"]
        <4>1. "paused" \in Phases /\ "step" \in Codes
          BY PhaseNames
        <4> QED  BY <2>0, <2>2, <4>1, Reported, ZenonT(60)
      <3>2. walk'[w].pc = "commit" /\ walk'[w].to = "paused" /\ walk'[w].memo = "none"
        BY <1>1, <1>3, <3>1 DEF Walk
      <3> QED  BY <1>1, <1>3, <3>1, <3>2 DEF Settled
    <2>3. ASSUME NEW to \in {"completed", "credential_generation"}, Earns(w, to),
                 to = "completed" => counters' = counted
          PROVE  (\A v \in Workers \ {w} : walk'[v] = walk[v]) /\ Settled(w)'
      <3>1. /\ \A v \in Workers \ {w} : walk'[v] = walk[v]
            /\ walk'[w] = IF walk[w].phase = "credential_generation"
                           THEN [walk[w] EXCEPT !.pc = "commit", !.to = "vault_storage",
                                                !.code = "step", !.memo = to]
                           ELSE [walk[w] EXCEPT !.pc = "commit", !.to = to, !.code = "step"]
        BY <2>0, <2>3, Earned, ZenonT(60)
      <3>2. /\ walk'[w].pc = "commit" /\ walk'[w].phase = walk[w].phase
            /\ \/ /\ walk[w].phase = "credential_generation" /\ walk'[w].to = "vault_storage"
                  /\ walk'[w].memo = to
               \/ walk'[w].to = to /\ walk'[w].memo = "none"
        BY <1>1, <1>3, <3>1 DEF Walk
      <3>3. to = "completed" => counters'.generation \in effects'.minted
        BY <1>1, <1>3, <1>4, <2>3
      <3> QED  BY <1>1, <1>3, <2>3, <3>1, <3>2, <3>3 DEF Settled
    <2> QED  BY <1>5, <2>1, <2>2, <2>3
  <1> QED  BY <1>1, <1>2, <1>7, <1>8, SoleKeeps

LEMMA ValidationSettles ==
    ASSUME DriverInvariant, SoleInvariant, ~regime.longSteps, NEW w \in Workers, Validation(w)
    PROVE  SoleInvariant'
  <1>1. walk[w] \in Walk /\ walk \in [Workers -> Walk] /\ walk[w].pc = "drive" /\ ~AtRest(w)
          /\ UNCHANGED apart /\ UNCHANGED rows
    BY Typed DEF Validation, At, AtRest
  <1>2. owner = w /\ Settled(w) /\ Budgeted /\ \A v \in Workers \ {w} : AtRest(v)
    BY <1>1, AloneAtWork
  <1>3. /\ walk'[w] = [walk[w] EXCEPT !.pc = "commit", !.to = walk[w].memo, !.code = "step",
                                      !.memo = "none"]
        /\ \A v \in Workers \ {w} : walk'[v] = walk[v]
    BY <1>1 DEF Validation
  <1>4. walk'[w].pc = "commit" /\ walk'[w].to = walk[w].memo /\ walk'[w].memo = "none"
    BY <1>1, <1>3 DEF Walk
  <1>5. Settled(w)'
    BY <1>1, <1>2, <1>4 DEF Settled, rows, apart
  <1>6. Budgeted'
    BY <1>1, <1>2 DEF Budgeted, rows, apart
  <1> QED  BY <1>1, <1>2, <1>3, <1>5, <1>6, SoleKeeps DEF apart

LEMMA CommitSettles ==
    ASSUME DriverInvariant, SoleInvariant, ~regime.longSteps, NEW w \in Workers, CommitStep(w)
    PROVE  SoleInvariant'
  <1> DEFINE b == Crossing(walk[w].phase, walk[w].to, walk[w].attempt, walk[w].phase, walk[w].code)
             k == AfterCommit(walk[w])
  <1>1. walk[w] \in Walk /\ walk \in [Workers -> Walk] /\ walk[w].pc = "commit" /\ ~AtRest(w)
          /\ hist \in Seq(Boundary) /\ owner' = owner /\ counters' = counters /\ effects' = effects
          /\ Legal(walk[w].phase, walk[w].to)
    BY Typed DEF CommitStep, InPlace, AtRest, rows
  <1>2. owner = w /\ Settled(w) /\ Budgeted /\ \A v \in Workers \ {w} : AtRest(v)
    BY <1>1, AloneAtWork
  <1>3. b \in Boundary /\ b.to = walk[w].to
    <2>1. walk[w].phase \in Phases /\ walk[w].to \in Phases /\ walk[w].attempt \in Nat
            /\ walk[w].code \in Codes
      BY <1>1 DEF Walk
    <2> QED  BY <2>1, CrossingType
  <1>4. hist' = CommitPhase(hist, b) /\ walk'[w] = k /\ \A v \in Workers \ {w} : walk'[v] = walk[v]
    BY <1>1 DEF CommitStep
  <1>5. k.pc = (IF walk[w].to \in Stops THEN "unwind" ELSE "top") /\ k.phase = walk[w].to
          /\ k.memo = walk[w].memo
    BY <1>1 DEF AfterCommit, Walk
  <1> HIDE DEF b, k
  <1>6. ResumptionPhase(hist') \in {ResumptionPhase(hist), walk[w].to}
    BY <1>1, <1>3, <1>4, CommitLeads
  <1>7. Settled(w)'
    <2>1. CASE walk[w].to \in Stops
      BY <1>4, <1>5, <2>1 DEF Settled
    <2>2. CASE walk[w].to \notin Stops
      <3>1. ResumptionPhase(hist') # "completed"
        BY <1>1, <1>2, <1>6, <2>2 DEF Settled, Stops, Terminal
      <3>2. walk[w].memo # "none" => walk[w].to \in {"vault_storage", "credential_validation"}
        BY <1>1, <1>2, <2>2 DEF Settled, Legal, LegalTargets, Stops, Waiting, Terminal
      <3>3. walk[w].memo = "completed" => counters.generation \in effects.minted
        BY <1>1, <1>2 DEF Settled
      <3> QED  BY <1>1, <1>4, <1>5, <2>2, <3>1, <3>2, <3>3 DEF Settled
    <2> QED  BY <2>1, <2>2
  <1>8. Budgeted'
    BY <1>1, <1>2, <1>6 DEF Budgeted, Settled
  <1> QED  BY <1>1, <1>2, <1>4, <1>7, <1>8, SoleKeeps

LEMMA ClaimSettles ==
    ASSUME DriverInvariant, SoleInvariant, ~regime.longSteps, NEW w \in Workers, Claim(w)
    PROVE  SoleInvariant'
  <1>1. walk[w].pc = "idle" /\ \A v \in Workers : owner = v => ~Walking(v)
    BY DEF Claim, Walking
  <1>2. \A v \in Workers : AtRest(v)
    BY <1>1 DEF SoleInvariant, AtRest, Walking
  <1>3. owner' = w /\ hist' = hist /\ counters' = counters /\ effects' = effects
          /\ \A v \in Workers \ {w} : walk'[v] = walk[v]
    BY Typed DEF Claim, rows
  <1>4. walk'[w] = [Idle EXCEPT
            !.pc = IF ResumptionPhase(hist) \in Terminal THEN "unwind" ELSE "top",
            !.phase = ResumptionPhase(hist), !.attempt = ResumptionAttempt(hist),
            !.reroute = RerouteStands(hist)]
    BY Typed DEF Claim
  <1>5. walk'[w].pc = (IF ResumptionPhase(hist) \in Terminal THEN "unwind" ELSE "top")
          /\ walk'[w].memo = "none"
    BY <1>4 DEF Idle
  <1>6. Settled(w)'
    BY <1>3, <1>5 DEF Settled, Terminal
  <1>7. Budgeted'
    BY <1>3 DEF Budgeted, SoleInvariant
  <1> QED  BY <1>2, <1>3, <1>6, <1>7, SoleKeeps

LEMMA TurnSettles ==
    ASSUME DriverInvariant, SoleInvariant, ~regime.longSteps, NEW w \in Workers,
           BeforeStep(w) \/ Unwind(w)
    PROVE  SoleInvariant'
  <1>1. walk[w] \in Walk /\ walk \in [Workers -> Walk] /\ walk[w].pc \in {"top", "unwind"} /\ ~AtRest(w)
          /\ hist' = hist /\ counters' = counters /\ effects' = effects
    BY Typed DEF BeforeStep, Unwind, AtRest, rows
  <1>2. owner = w /\ Settled(w) /\ Budgeted /\ \A v \in Workers \ {w} : AtRest(v)
    BY <1>1, AloneAtWork
  <1>3. \A v \in Workers \ {w} : walk'[v] = walk[v]
    BY <1>1 DEF BeforeStep, Unwind
  <1>4. Budgeted'
    BY <1>1, <1>2 DEF Budgeted
  <1>5. Settled(w)' /\ (~AtRest(w)' => owner' = w)
    <2>1. CASE BeforeStep(w)
      <3>1. walk'[w] = [walk[w] EXCEPT !.pc = IF owner = w THEN "drive" ELSE "unwind"]
              /\ owner' = owner /\ walk[w].pc = "top"
        BY <1>1, <2>1 DEF BeforeStep
      <3>2. walk'[w].pc = "drive" /\ walk'[w].phase = walk[w].phase /\ walk'[w].memo = walk[w].memo
        BY <1>1, <1>2, <3>1 DEF Walk
      <3> QED  BY <1>1, <1>2, <3>1, <3>2 DEF Settled
    <2>2. CASE Unwind(w)
      <3>1. walk'[w] = IF walk[w].phase \in Terminal THEN [walk[w] EXCEPT !.pc = "record"] ELSE Idle
        BY <1>1, <2>2 DEF Unwind
      <3>2. walk'[w].pc \in {"record", "idle"}
        BY <1>1, <3>1 DEF Walk, Idle
      <3> QED  BY <3>2 DEF Settled, AtRest
    <2> QED  BY <2>1, <2>2
  <1> QED  BY <1>2, <1>3, <1>4, <1>5, SoleKeeps

LEMMA LeavesSettles ==
    ASSUME DriverInvariant, SoleInvariant, ~regime.longSteps, NEW w \in Workers, Record(w) \/ Dies(w)
    PROVE  SoleInvariant'
  <1>1. walk \in [Workers -> Walk] /\ hist' = hist /\ counters' = counters /\ effects' = effects
          /\ walk'[w] = Idle /\ owner' = owner /\ \A v \in Workers \ {w} : walk'[v] = walk[v]
    BY Typed DEF Record, Dies, rows
  <1>2. AtRest(w)' /\ Settled(w)'
    BY <1>1, IdleType DEF AtRest, Settled
  <1>3. \A v \in Workers : Settled(v)'
    BY <1>1, <1>2 DEF SoleInvariant, Settled
  <1>4. \A v \in Workers : (~AtRest(v))' => owner' = v
    BY <1>1, <1>2 DEF SoleInvariant, AtRest
  <1>5. Budgeted'
    BY <1>1 DEF SoleInvariant, Budgeted
  <1> QED  BY <1>3, <1>4, <1>5 DEF SoleInvariant

LEMMA OperatorSettles ==
    ASSUME DriverInvariant, SoleInvariant, ~regime.longSteps, OperatorNext
    PROVE  SoleInvariant'
  <1>1. UNCHANGED still
    BY DEF OperatorNext, RequestPause, RequestResume, RequestCancel, RequestReset, RequestRetry,
      Decide, Authorize, ControlRereads, ControlCommits, ControlDies
  <1>2. ResumptionPhase(hist') = "completed" => ResumptionPhase(hist) = "completed"
    <2>1. CASE ControlCommits
      <3>1. hist \in Seq(Boundary) /\ control.plan \in Boundary /\ PlanShape(control.plan)
              /\ hist' = CommitPhase(hist, control.plan)
        BY <2>1, ControlType DEF ControlCommits
      <3>2. control.plan.to # "completed"
        BY <3>1 DEF PlanShape, Stops, Terminal, Prompting, SessionBearing
      <3>3. ResumptionPhase(hist') \in {ResumptionPhase(hist), control.plan.to}
        BY <3>1, CommitLeads
      <3> QED  BY <3>2, <3>3
    <2>2. CASE hist' = hist
      BY <2>2
    <2> QED  BY <2>1, <2>2 DEF OperatorNext, RequestPause, RequestResume, RequestCancel,
      RequestReset, RequestRetry, Decide, Authorize, ControlRereads, ControlDies, still
  <1>3. \A w \in Workers : Settled(w)'
    BY <1>1, <1>2 DEF SoleInvariant, Settled, still
  <1>4. Budgeted'
    BY <1>1, <1>2 DEF SoleInvariant, Budgeted, still
  <1>5. \A w \in Workers : (~AtRest(w))' => owner' = w
    BY <1>1 DEF SoleInvariant, AtRest, still
  <1> QED  BY <1>3, <1>4, <1>5 DEF SoleInvariant

LEMMA RegimeStays == ASSUME [Next]_vars PROVE regime' = regime
  <1>1. ASSUME NEW w \in Workers, Handles(w) PROVE regime' = regime
    <2>1. CASE Stores(w)
      BY <2>1 DEF Stores
    <2>2. CASE UNCHANGED apart
      BY <2>2 DEF apart
    <2> QED  BY <1>1, <2>1, <2>2 DEF Handles, Research, VaultCheck, Admission, AskAdmission,
      EnterSignup, SignupAgain, Signup, Verification, LoopPhase, DeveloperApp, MeetsCaptcha,
      RecordsCaptcha, Capture, CaptureFails, Prove, VaultStorage, Validation, HandlerRaises
  <1>2. ASSUME NEW w \in Workers, WorkerNext(w) PROVE regime' = regime
    BY <1>1, <1>2 DEF WorkerNext, Claim, BeforeStep, CommitStep, Unwind, Record, Dies
  <1>3. CASE OperatorNext
    <2>1. UNCHANGED still
      BY <1>3 DEF OperatorNext, RequestPause, RequestResume, RequestCancel, RequestReset,
        RequestRetry, Decide, Authorize, ControlRereads, ControlCommits, ControlDies
    <2> QED  BY <2>1 DEF still
  <1>4. CASE UNCHANGED vars
    BY <1>4 DEF vars
  <1> QED  BY <1>2, <1>3, <1>4 DEF Next

LEMMA SoleStep ==
    ASSUME DriverInvariant, SoleInvariant, [Next]_vars PROVE SoleInvariant'
  <1>1. regime' = regime
    BY RegimeStays
  <1>2. CASE regime.longSteps
    BY <1>1, <1>2 DEF SoleInvariant
  <1>3. CASE ~regime.longSteps
    <2>1. ASSUME NEW w \in Workers, WorkerNext(w) PROVE SoleInvariant'
      <3>1. CASE Handles(w)
        <4>1. ASSUME Light(w) PROVE SoleInvariant'
          BY <1>3, <4>1, LightSettles
        <4> QED  BY <1>3, <3>1, <4>1, RouteIsLight, AccountIsLight, LoopIsLight, CaptureSettles,
            StoresSettles, ProveSettles, ValidationSettles DEF Handles
      <3> QED  BY <1>3, <2>1, <3>1, ClaimSettles, TurnSettles, CommitSettles, LeavesSettles
        DEF WorkerNext
    <2>2. CASE UNCHANGED vars
      BY <2>2 DEF vars, SoleInvariant, AtRest, Settled, Budgeted
    <2> QED  BY <1>3, <2>1, <2>2, OperatorSettles DEF Next
  <1> QED  BY <1>2, <1>3

LEMMA SoleStart == Init \/ InitAnswered \/ InitSignedIn => SoleInvariant
  <1> SUFFICES ASSUME Init \/ InitAnswered \/ InitSignedIn PROVE SoleInvariant
    OBVIOUS
  <1>1. Fresh
    BY FreshStarts
  <1>2. \A w \in Workers : walk[w] = Idle
    BY <1>1 DEF Fresh
  <1>3. \A w \in Workers : AtRest(w) /\ Settled(w)
    BY <1>2, IdleType DEF AtRest, Settled
  <1>4. counters.captcha = 0 /\ counters.generation = 0 /\ effects.minted = {}
    BY <1>1 DEF Fresh
  <1>5. ResumptionPhase(hist) # "completed"
    BY DEF Init, InitAnswered, InitSignedIn, SignedIn, ResumptionPhase, LastBoundary, Step, Crossing
  <1>6. Budgeted
    BY <1>4, <1>5, Bounds DEF Budgeted
  <1> QED  BY <1>3, <1>6 DEF SoleInvariant

LEMMA SoleInvariantHolds ==
    (Init \/ InitAnswered \/ InitSignedIn) /\ [][Next]_vars => [](DriverInvariant /\ SoleInvariant)
  <1>1. DriverInvariant /\ SoleInvariant /\ [Next]_vars => SoleInvariant'
    BY SoleStep
  <1> QED  BY <1>1, SoleStart, DriverInvariantHolds, PTL

\* A replaced credential stays within its budget and a completed run was minted, where no
\* phase outlasts its lease; in every regime the outcome names a phase the run reached.
LEMMA MintFollows == DriverInvariant /\ SoleInvariant => MintSafety
  <1> SUFFICES ASSUME DriverInvariant, SoleInvariant PROVE MintSafety
    OBVIOUS
  <1>1. OutcomeIsCommitted
    BY DEF OutcomeIsCommitted, DriverInvariant, Reached, Terminal, Into
  <1>2. ASSUME ~regime.longSteps PROVE MintsWithinBudget /\ CompletedIsMinted
    <2>1. Budgeted /\ counters.generation \in Nat
      BY <1>2, Typed DEF SoleInvariant, DriverInvariant, TypeOK, Counters
    <2>2. Cardinality(effects.minted) <= counters.generation + 1
      <3>1. IsFiniteSet(0..counters.generation)
              /\ Cardinality(0..counters.generation) = counters.generation + 1
        <4> DEFINE n == counters.generation
        <4>1. 0 \in Int /\ n \in Int /\ ~(0 > n) /\ n - 0 + 1 = n + 1
          BY <2>1
        <4> HIDE DEF n
        <4>2. IsFiniteSet(0..n) /\ Cardinality(0..n) = n + 1
          BY <4>1, FS_Interval
        <4> QED  BY <4>2 DEF n
      <3>2. Cardinality(effects.minted) <= Cardinality(0..counters.generation)
        BY <2>1, <3>1, FS_Subset DEF Budgeted
      <3> QED  BY <3>1, <3>2
    <2>3. IsFiniteSet(effects.minted) /\ Cardinality(effects.minted) \in Nat
      <3>1. IsFiniteSet(0..counters.generation)
        BY <2>1, FS_Interval
      <3> QED  BY <2>1, <3>1, FS_Subset, FS_CardinalityType DEF Budgeted
    <2>4. MintsWithinBudget
      BY <2>1, <2>2, <2>3, Bounds DEF MintsWithinBudget, Budgeted
    <2> QED  BY <2>1, <2>4 DEF CompletedIsMinted, Budgeted
  <1> QED  BY <1>1, <1>2 DEF MintSafety

\* The same, of the fair walk of its two halves.
THEOREM MintIsSafe == HalvesSpec => []MintSafety
  BY SoleInvariantHolds, MintFollows, PTL DEF HalvesSpec

-----------------------------------------------------------------------------
(* The route to an account, where nobody extends the standing authorization.  *)

ToSignup == {"route_selected_signup", "signup"}

\* What each part of the state says of the decision: a step towards an account follows a
\* recorded signup decision, and nothing waits at the gate of an app with a standing
\* authorization.
Agrees(phase) ==
    /\ phase \in ToSignup => decision = "signup"
    /\ standing => phase # "awaiting_admission"

RouteInvariant ==
    NeverAuthorized =>
        /\ decision = "login" => login
        /\ decision = "cancelled" => ~standing
        /\ \A i \in DOMAIN hist : Agrees(hist[i].from) /\ Agrees(hist[i].to)
        /\ \A w \in Workers : walk[w].pc # "idle" => Agrees(walk[w].phase)
        /\ \A w \in Workers : walk[w].pc = "commit" => Agrees(walk[w].to)
        /\ Agrees(control.plan.from) /\ Agrees(control.plan.to)

\* The rows and the one walk that move: the decision is written once.
LEMMA RouteKeeps ==
    ASSUME RouteInvariant, NeverAuthorized, NEW w \in Workers, hist' = hist, control' = control,
           standing' = standing, decision' = decision \/ decision = "none",
           decision' = "login" => login', decision' = "cancelled" => ~standing,
           \A v \in Workers \ {w} : walk'[v] = walk[v],
           (walk[w].pc # "idle" => Agrees(walk[w].phase))',
           (walk[w].pc = "commit" => Agrees(walk[w].to))'
    PROVE  RouteInvariant'
  <1>1. \A phase : Agrees(phase) => Agrees(phase)'
    BY DEF Agrees
  <1>2. ASSUME NEW v \in Workers, v # w
        PROVE  (walk[v].pc # "idle" => Agrees(walk[v].phase))'
                 /\ (walk[v].pc = "commit" => Agrees(walk[v].to))'
    <2>1. walk'[v] = walk[v]
      BY <1>2
    <2>2. /\ walk[v].pc # "idle" => Agrees(walk[v].phase)
          /\ walk[v].pc = "commit" => Agrees(walk[v].to)
      BY DEF RouteInvariant
    <2> QED  BY <2>1, <2>2 DEF Agrees
  <1>3. \A v \in Workers : (walk[v].pc # "idle" => Agrees(walk[v].phase))'
                             /\ (walk[v].pc = "commit" => Agrees(walk[v].to))'
    BY <1>2
  <1>4. \A i \in DOMAIN hist' : (Agrees(hist[i].from))' /\ (Agrees(hist[i].to))'
    <2>1. \A i \in DOMAIN hist : Agrees(hist[i].from) /\ Agrees(hist[i].to)
      BY DEF RouteInvariant
    <2> QED  BY <2>1 DEF Agrees
  <1>5. (Agrees(control.plan.from))' /\ (Agrees(control.plan.to))'
    <2>1. Agrees(control.plan.from) /\ Agrees(control.plan.to)
      BY DEF RouteInvariant
    <2> QED  BY <2>1 DEF Agrees
  <1>6. (decision = "login" => login)' /\ (decision = "cancelled" => ~standing)'
    OBVIOUS
  <1> QED  BY <1>3, <1>4, <1>5, <1>6 DEF RouteInvariant

LEMMA LightRoutes ==
    ASSUME DriverInvariant, RouteInvariant, NeverAuthorized, NEW w \in Workers, Light(w),
           walk[w].phase \in {"vault_check", "awaiting_admission"} => walk'[w].pc # "commit",
           UNCHANGED <<decision, standing>>, login => login'
    PROVE  RouteInvariant'
  <1>1. hist' = hist /\ control' = control /\ walk[w].pc # "idle"
          /\ \A v \in Workers \ {w} : walk'[v] = walk[v]
    BY DEF Light, apart
  <1>2. (Agrees(walk[w].phase))'
    <2>1. Agrees(walk[w].phase) /\ walk'[w].phase = walk[w].phase
      BY <1>1 DEF RouteInvariant, Light
    <2> QED  BY <2>1 DEF Agrees
  <1>3. ASSUME walk'[w].pc = "commit" PROVE (Agrees(walk[w].to))'
    <2>1. walk'[w].to \in LegalTargets[walk[w].phase] /\ walk[w].phase \notin Waiting
            /\ walk[w].phase \in Phases /\ walk[w].phase \notin {"vault_check", "awaiting_admission"}
      BY <1>3, Typed DEF Light
    <2>2. walk'[w].to # "awaiting_admission" /\ walk'[w].to # "route_selected_signup"
      BY <2>1, PhaseNames DEF LegalTargets, Waiting
    <2>3. walk'[w].to = "signup" => walk[w].phase = "route_selected_signup"
      BY <2>1, PhaseNames DEF LegalTargets, Waiting
    <2>4. walk[w].phase = "route_selected_signup" => decision = "signup"
      BY <1>1 DEF RouteInvariant, Agrees, ToSignup
    <2> QED  BY <2>2, <2>3, <2>4 DEF Agrees, ToSignup
  <1> QED  BY <1>1, <1>2, <1>3, RouteKeeps DEF RouteInvariant

LEMMA VaultCheckRoutes ==
    ASSUME DriverInvariant, RouteInvariant, NeverAuthorized, NEW w \in Workers, VaultCheck(w)
    PROVE  RouteInvariant'
  <1>1. walk[w] \in Walk /\ walk[w].pc = "drive" /\ walk[w].phase = "vault_check"
          /\ hist' = hist /\ control' = control /\ standing' = standing /\ login' = login
          /\ TypeOK /\ decision \in Routes
    BY Typed DEF VaultCheck, At, apart, RowsTyped
  <1>2. /\ decision = "login" => login
        /\ decision = "cancelled" => ~standing
    BY DEF RouteInvariant
  <1>3. PICK to \in {"route_selected_login", "route_selected_signup", "awaiting_admission"} :
          /\ Reports(w, to, "step")
          /\ to = "route_selected_login" => login /\ decision' = Winner("login")
          /\ to = "route_selected_signup" => ~login /\ standing /\ decision' = Winner("signup")
          /\ to = "awaiting_admission" => ~standing /\ decision' = decision
    BY DEF VaultCheck
  <1>4. /\ \A v \in Workers \ {w} : walk'[v] = walk[v]
        /\ walk'[w] = [walk[w] EXCEPT !.pc = "commit", !.to = to, !.code = "step"]
    <2>1. to \in Phases /\ "step" \in Codes
      BY PhaseNames
    <2> QED  BY <1>1, <1>3, <2>1, Reported, ZenonT(60)
  <1>5. walk'[w].pc = "commit" /\ walk'[w].to = to /\ walk'[w].phase = "vault_check"
    BY <1>1, <1>4 DEF Walk
  <1>6. /\ decision' = decision \/ decision = "none"
        /\ decision' = "login" => login'
        /\ decision' = "cancelled" => ~standing
        /\ to = "route_selected_signup" => decision' = "signup"
    BY <1>1, <1>2, <1>3 DEF Winner, Routes
  <1>7. (Agrees(walk[w].phase))' /\ (Agrees(walk[w].to))'
    BY <1>1, <1>3, <1>5, <1>6 DEF Agrees, ToSignup
  <1> QED  BY <1>1, <1>4, <1>6, <1>7, RouteKeeps

LEMMA GateRoutes ==
    ASSUME DriverInvariant, RouteInvariant, NeverAuthorized, NEW w \in Workers,
           Admission(w) \/ AskAdmission(w)
    PROVE  RouteInvariant'
  <1>1. walk[w] \in Walk /\ walk[w].pc = "drive" /\ walk[w].phase = "awaiting_admission"
          /\ hist' = hist /\ control' = control /\ standing' = standing /\ login' = login /\ TypeOK
    BY Typed DEF Admission, AskAdmission, At, apart
  <1>2. /\ decision = "login" => login
        /\ decision = "cancelled" => ~standing
        /\ ~standing
    BY <1>1 DEF RouteInvariant, Agrees
  <1>3. decision' = decision
    BY <1>2 DEF Admission, AskAdmission
  <1>4. CASE AskAdmission(w)
    <2>1. /\ \A v \in Workers \ {w} : walk'[v] = walk[v]
          /\ walk'[w] = [walk[w] EXCEPT !.pc = "unwind"]
      BY <1>1, <1>4, Deferred DEF AskAdmission
    <2>2. walk'[w].pc = "unwind" /\ walk'[w].phase = "awaiting_admission"
      BY <1>1, <2>1 DEF Walk
    <2>3. (Agrees(walk[w].phase))'
      BY <1>1, <1>2, <2>2 DEF Agrees, ToSignup
    <2> QED  BY <1>1, <1>2, <1>3, <2>1, <2>2, <2>3, RouteKeeps
  <1>5. CASE Admission(w)
    <2>1. PICK to \in {"route_selected_signup", "cancelled"} :
            Reports(w, to, "step") /\ (to = "route_selected_signup" => decision = "signup")
      BY <1>2, <1>5 DEF Admission
    <2>2. /\ \A v \in Workers \ {w} : walk'[v] = walk[v]
          /\ walk'[w] = [walk[w] EXCEPT !.pc = "commit", !.to = to, !.code = "step"]
      <3>1. to \in Phases /\ "step" \in Codes
        BY PhaseNames
      <3> QED  BY <1>1, <2>1, <3>1, Reported, ZenonT(60)
    <2>3. walk'[w].pc = "commit" /\ walk'[w].to = to /\ walk'[w].phase = "awaiting_admission"
      BY <1>1, <2>2 DEF Walk
    <2>4. (Agrees(walk[w].phase))' /\ (Agrees(walk[w].to))'
      BY <1>1, <1>2, <1>3, <2>1, <2>3 DEF Agrees, ToSignup
    <2> QED  BY <1>1, <1>2, <1>3, <2>2, <2>3, <2>4, RouteKeeps
  <1> QED  BY <1>4, <1>5

\* A phase that is none of the gate's and the account's agrees with any decision.
LEMMA ElsewhereAgrees ==
    ASSUME NEW phase, phase \notin ToSignup \cup {"awaiting_admission"} PROVE Agrees(phase)
  BY DEF Agrees

LEMMA HandlerRoutes ==
    ASSUME DriverInvariant, RouteInvariant, NeverAuthorized, NEW w \in Workers,
           \/ Research(w) \/ EnterSignup(w) \/ SignupAgain(w) \/ Signup(w) \/ Verification(w)
           \/ LoopPhase(w) \/ DeveloperApp(w) \/ MeetsCaptcha(w) \/ RecordsCaptcha(w)
           \/ CaptureFails(w) \/ VaultStorage(w) \/ HandlerRaises(w)
    PROVE  RouteInvariant'
  <1>1. Light(w)
    BY RouteIsLight, AccountIsLight, LoopIsLight
  <1>2. walk[w] \in Walk /\ InPlace(walk[w]) /\ login \in BOOLEAN
    BY Typed DEF RowsTyped
  <1>3. UNCHANGED <<decision, standing>>
    BY DEF Research, EnterSignup, SignupAgain, Signup, Verification, LoopPhase, DeveloperApp,
      MeetsCaptcha, RecordsCaptcha, CaptureFails, VaultStorage, HandlerRaises, rows
  <1>4. login => login'
    BY <1>2 DEF Research, EnterSignup, SignupAgain, Signup, Verification, LoopPhase, DeveloperApp,
      MeetsCaptcha, RecordsCaptcha, CaptureFails, VaultStorage, HandlerRaises, rows, Promotes, Adopts
  <1>5. walk[w].phase \in {"vault_check", "awaiting_admission"} => walk'[w].pc # "commit"
    <2>1. CASE HandlerRaises(w)
      <3>1. TypeOK
        BY DEF DriverInvariant
      <3>2. walk'[w] = [walk[w] EXCEPT !.pc = "unwind"]
        BY <2>1, <3>1, Deferred DEF HandlerRaises
      <3> QED  BY <1>2, <3>2 DEF Walk
    <2>2. CASE MeetsCaptcha(w) \/ RecordsCaptcha(w)
      BY <1>2, <2>2 DEF MeetsCaptcha, RecordsCaptcha, SessionBearing, InPlace, Prompting
    <2> QED  BY <2>1, <2>2 DEF Research, EnterSignup, SignupAgain, Signup, Verification, LoopPhase,
      DeveloperApp, CaptureFails, VaultStorage, EntersLifecycle, At
  <1> QED  BY <1>1, <1>3, <1>4, <1>5, LightRoutes

LEMMA CredentialRoutes ==
    ASSUME DriverInvariant, RouteInvariant, NeverAuthorized, NEW w \in Workers,
           Capture(w) \/ Prove(w) \/ Validation(w)
    PROVE  RouteInvariant'
  <1>1. walk[w] \in Walk /\ walk \in [Workers -> Walk] /\ TypeOK
          /\ walk[w].phase \in {"credential_generation", "credential_validation"}
          /\ UNCHANGED <<apart, decision, standing, login>>
    BY Typed DEF Capture, Prove, Validation, EntersLifecycle, At, InPlace, rows
  <1>2. /\ decision = "login" => login
        /\ decision = "cancelled" => ~standing
    BY DEF RouteInvariant
  <1>3. /\ \A v \in Workers \ {w} : walk'[v] = walk[v]
        /\ walk'[w].phase = walk[w].phase
        /\ walk'[w].pc = "commit" => walk'[w].to \notin ToSignup \cup {"awaiting_admission"}
    <2>1. CASE Capture(w)
      <3>1. walk'[w] = [walk[w] EXCEPT !.pc = "store", !.gen = counters.generation]
              /\ \A v \in Workers \ {w} : walk'[v] = walk[v]
        BY <1>1, <2>1 DEF Capture
      <3> QED  BY <1>1, <3>1 DEF Walk
    <2>2. CASE Validation(w)
      <3>1. walk'[w] = [walk[w] EXCEPT !.pc = "commit", !.to = walk[w].memo, !.code = "step",
                                       !.memo = "none"]
              /\ \A v \in Workers \ {w} : walk'[v] = walk[v]
        BY <1>1, <2>2 DEF Validation
      <3>2. walk[w].memo \in {"completed", "credential_generation"}
        BY <1>1, <2>2 DEF Validation, Walk, Memos
      <3> QED  BY <1>1, <3>1, <3>2 DEF Walk, ToSignup
    <2>3. CASE Defers(w)
      <3>1. walk'[w] = [walk[w] EXCEPT !.pc = "unwind"] /\ \A v \in Workers \ {w} : walk'[v] = walk[v]
        BY <1>1, <2>3, Deferred
      <3> QED  BY <1>1, <3>1 DEF Walk
    <2>4. CASE Reports(w, "paused", "step")
      <3>1. "paused" \in Phases /\ "step" \in Codes
        BY PhaseNames
      <3>2. walk'[w] = [walk[w] EXCEPT !.pc = "commit", !.to = "paused", !.code = "step"]
              /\ \A v \in Workers \ {w} : walk'[v] = walk[v]
        BY <1>1, <2>4, <3>1, Reported, ZenonT(60)
      <3> QED  BY <1>1, <3>2 DEF Walk, ToSignup
    <2>5. ASSUME NEW to \in {"completed", "credential_generation"}, Earns(w, to)
          PROVE  /\ \A v \in Workers \ {w} : walk'[v] = walk[v]
                 /\ walk'[w].phase = walk[w].phase
                 /\ walk'[w].to \notin ToSignup \cup {"awaiting_admission"}
      <3>1. /\ \A v \in Workers \ {w} : walk'[v] = walk[v]
            /\ walk'[w] = IF walk[w].phase = "credential_generation"
                           THEN [walk[w] EXCEPT !.pc = "commit", !.to = "vault_storage",
                                                !.code = "step", !.memo = to]
                           ELSE [walk[w] EXCEPT !.pc = "commit", !.to = to, !.code = "step"]
        BY <1>1, <2>5, Earned, ZenonT(60)
      <3> QED  BY <1>1, <3>1 DEF Walk, ToSignup
    <2> QED  BY <2>1, <2>2, <2>3, <2>4, <2>5 DEF Prove
  <1>4. (Agrees(walk[w].phase))' /\ (walk[w].pc = "commit" => Agrees(walk[w].to))'
    BY <1>1, <1>3 DEF Agrees, ToSignup
  <1> QED  BY <1>1, <1>2, <1>3, <1>4, RouteKeeps DEF apart

\* A history that grows by a boundary whose ends agree.
LEMMA CommitAgrees ==
    ASSUME NEW h \in Seq(Boundary), NEW b \in Boundary,
           \A i \in DOMAIN h : Agrees(h[i].from) /\ Agrees(h[i].to),
           Agrees(b.from), Agrees(b.to)
    PROVE  \A i \in DOMAIN CommitPhase(h, b) :
              Agrees(CommitPhase(h, b)[i].from) /\ Agrees(CommitPhase(h, b)[i].to)
  <1>1. \A i \in DOMAIN CommitPhase(h, b) : i \in DOMAIN h \/ CommitPhase(h, b)[i] = b
    BY Committed
  <1>2. \A i \in DOMAIN h : CommitPhase(h, b)[i] = h[i]
    BY Committed
  <1> QED  BY <1>1, <1>2

LEMMA StoresRoutes ==
    ASSUME DriverInvariant, RouteInvariant, NeverAuthorized, NEW w \in Workers, Stores(w)
    PROVE  RouteInvariant'
  <1>1. walk[w] \in Walk /\ walk \in [Workers -> Walk] /\ hist \in Seq(Boundary)
          /\ walk[w].phase \in {"credential_generation", "credential_validation"}
          /\ UNCHANGED <<control, decision, standing, login>>
    BY Typed DEF Stores, InPlace, rows
  <1>2. /\ walk'[w] = [walk[w] EXCEPT !.pc = "prove"]
        /\ \A v \in Workers \ {w} : walk'[v] = walk[v]
    BY <1>1 DEF Stores
  <1>3. walk'[w].pc = "prove" /\ walk'[w].phase = walk[w].phase
    BY <1>1, <1>2 DEF Walk
  <1> DEFINE attempt == ResumptionAttempt(hist)
             thread == walk[w].phase
             b == Crossing("credential_generation", "vault_storage", attempt, thread, "step")
             c == Crossing("vault_storage", "credential_validation", attempt, thread, "step")
             h == CommitPhase(hist, b)
  <1>4. b \in Boundary /\ c \in Boundary /\ Agrees(b.from) /\ Agrees(b.to)
          /\ Agrees(c.from) /\ Agrees(c.to)
    <2>1. attempt \in Nat /\ thread \in Phases
      BY <1>1, LastType DEF Walk
    <2>2. {"credential_generation", "vault_storage", "credential_validation"} \subseteq Phases
            /\ "step" \in Codes
      BY PhaseNames
    <2> HIDE DEF attempt, thread
    <2>3. b \in Boundary /\ b.from = "credential_generation" /\ b.to = "vault_storage"
      BY <2>1, <2>2, CrossingType
    <2>4. c \in Boundary /\ c.from = "vault_storage" /\ c.to = "credential_validation"
      BY <2>1, <2>2, CrossingType
    <2> HIDE DEF b, c
    <2> QED  BY <2>3, <2>4 DEF Agrees, ToSignup
  <1>5. hist' = CommitPhase(h, c)
    BY DEF Stores, Stored
  <1> HIDE DEF b, c
  <1>6. h \in Seq(Boundary) /\ \A i \in DOMAIN h : Agrees(h[i].from) /\ Agrees(h[i].to)
    BY <1>1, <1>4, CommitAgrees, CommitLeads DEF RouteInvariant
  <1> HIDE DEF h
  <1>7. \A i \in DOMAIN hist' : Agrees(hist'[i].from) /\ Agrees(hist'[i].to)
    BY <1>4, <1>5, <1>6, CommitAgrees
  <1>8. \A i \in DOMAIN hist' : (Agrees(hist[i].from))' /\ (Agrees(hist[i].to))'
    BY <1>1, <1>7 DEF Agrees
  <1>9. \A v \in Workers : (walk[v].pc # "idle" => Agrees(walk[v].phase))'
                             /\ (walk[v].pc = "commit" => Agrees(walk[v].to))'
    BY <1>1, <1>2, <1>3 DEF RouteInvariant, Agrees, ToSignup
  <1> QED  BY <1>1, <1>8, <1>9 DEF RouteInvariant, Agrees

LEMMA CommitRoutes ==
    ASSUME DriverInvariant, RouteInvariant, NeverAuthorized, NEW w \in Workers, CommitStep(w)
    PROVE  RouteInvariant'
  <1> DEFINE b == Crossing(walk[w].phase, walk[w].to, walk[w].attempt, walk[w].phase, walk[w].code)
             k == AfterCommit(walk[w])
  <1>1. walk[w] \in Walk /\ walk \in [Workers -> Walk] /\ walk[w].pc = "commit"
          /\ hist \in Seq(Boundary) /\ UNCHANGED <<control, decision, standing, login>>
    BY Typed DEF CommitStep, rows
  <1>2. Agrees(walk[w].phase) /\ Agrees(walk[w].to)
    BY <1>1 DEF RouteInvariant
  <1>3. b \in Boundary /\ b.to = walk[w].to /\ b.from = walk[w].phase
    <2>1. walk[w].phase \in Phases /\ walk[w].to \in Phases /\ walk[w].attempt \in Nat
            /\ walk[w].code \in Codes
      BY <1>1 DEF Walk
    <2> QED  BY <2>1, CrossingType
  <1>4. hist' = CommitPhase(hist, b) /\ walk'[w] = k /\ \A v \in Workers \ {w} : walk'[v] = walk[v]
    BY <1>1 DEF CommitStep
  <1>5. k.pc \in {"unwind", "top"} /\ k.phase = walk[w].to
    BY <1>1 DEF AfterCommit, Walk
  <1> HIDE DEF b, k
  <1>6. \A i \in DOMAIN hist' : Agrees(hist'[i].from) /\ Agrees(hist'[i].to)
    BY <1>1, <1>2, <1>3, <1>4, CommitAgrees DEF RouteInvariant
  <1>7. \A i \in DOMAIN hist' : (Agrees(hist[i].from))' /\ (Agrees(hist[i].to))'
    BY <1>1, <1>6 DEF Agrees
  <1>8. \A v \in Workers : (walk[v].pc # "idle" => Agrees(walk[v].phase))'
                             /\ (walk[v].pc = "commit" => Agrees(walk[v].to))'
    BY <1>1, <1>2, <1>4, <1>5 DEF RouteInvariant, Agrees
  <1> QED  BY <1>1, <1>7, <1>8 DEF RouteInvariant, Agrees

LEMMA TurnRoutes ==
    ASSUME DriverInvariant, RouteInvariant, NeverAuthorized, NEW w \in Workers,
           Claim(w) \/ BeforeStep(w) \/ Unwind(w) \/ Record(w) \/ Dies(w)
    PROVE  RouteInvariant'
  <1>1. walk[w] \in Walk /\ walk \in [Workers -> Walk] /\ hist \in Seq(Boundary)
          /\ UNCHANGED <<hist, control, decision, standing, login>>
    BY Typed DEF Claim, BeforeStep, Unwind, Record, Dies, rows
  <1>2. /\ \A v \in Workers \ {w} : walk'[v] = walk[v]
        /\ walk'[w].pc # "commit"
        /\ walk'[w].pc # "idle" => Agrees(walk'[w].phase)
    <2>1. CASE Claim(w)
      <3>1. walk'[w] = [Idle EXCEPT
            !.pc = IF ResumptionPhase(hist) \in Terminal THEN "unwind" ELSE "top",
            !.phase = ResumptionPhase(hist), !.attempt = ResumptionAttempt(hist),
            !.reroute = RerouteStands(hist)] /\ \A v \in Workers \ {w} : walk'[v] = walk[v]
        BY <1>1, <2>1 DEF Claim
      <3>2. walk'[w].pc \in {"unwind", "top"} /\ walk'[w].phase = ResumptionPhase(hist)
        BY <3>1 DEF Idle
      <3>3. Agrees(ResumptionPhase(hist))
        <4>1. CASE hist = << >>
          BY <4>1 DEF ResumptionPhase, Agrees, ToSignup
        <4>2. CASE hist # << >>
          BY <1>1, <4>2, LastType DEF ResumptionPhase, LastBoundary, RouteInvariant
        <4> QED  BY <4>1, <4>2
      <3> QED  BY <3>1, <3>2, <3>3
    <2>2. CASE BeforeStep(w) \/ Unwind(w) \/ Record(w) \/ Dies(w)
      <3>1. /\ \A v \in Workers \ {w} : walk'[v] = walk[v]
            /\ \/ walk'[w] = Idle
               \/ /\ walk[w].pc # "idle"
                  /\ \E pc \in {"drive", "unwind", "record"} : walk'[w] = [walk[w] EXCEPT !.pc = pc]
        BY <1>1, <2>2 DEF BeforeStep, Unwind, Record, Dies, Walking
      <3> QED  BY <1>1, <3>1, IdleType DEF Walk, RouteInvariant
    <2> QED  BY <2>1, <2>2
  <1>3. (walk[w].pc # "idle" => Agrees(walk[w].phase))' /\ (walk[w].pc = "commit" => Agrees(walk[w].to))'
    BY <1>1, <1>2 DEF Agrees
  <1>4. /\ decision' = "login" => login'
        /\ decision' = "cancelled" => ~standing
    BY <1>1 DEF RouteInvariant
  <1> QED  BY <1>1, <1>2, <1>3, <1>4, RouteKeeps

LEMMA OperatorRoutes ==
    ASSUME DriverInvariant, RouteInvariant, NeverAuthorized, OperatorNext PROVE RouteInvariant'
  <1>1. UNCHANGED still /\ hist \in Seq(Boundary) /\ control \in ControlRequest
    BY ControlType DEF OperatorNext, RequestPause, RequestResume, RequestCancel, RequestReset,
      RequestRetry, Decide, Authorize, ControlRereads, ControlCommits, ControlDies
  <1>2. /\ decision = "login" => login
        /\ decision = "cancelled" => ~standing
        /\ \A i \in DOMAIN hist : Agrees(hist[i].from) /\ Agrees(hist[i].to)
        /\ Agrees(control.plan.from) /\ Agrees(control.plan.to)
    BY DEF RouteInvariant
  <1>3. ~Authorize
    BY DEF Authorize, MayAct, NeverAuthorized
  <1>4. standing' = standing /\ (decision' = decision \/ \E route \in {"signup", "cancelled"} : Decide(route))
    BY <1>3 DEF OperatorNext, RequestPause, RequestResume, RequestCancel, RequestReset,
      RequestRetry, Decide, ControlRereads, ControlCommits, ControlDies
  <1>5. hist # << >> => Agrees(Last.to) /\ Agrees(Last.from)
    BY <1>1, <1>2, LastType DEF Last, LastBoundary
  <1>6. /\ decision' = decision \/ decision = "none"
        /\ decision' = "login" => login
        /\ decision' = "cancelled" => ~standing
    <2>1. ASSUME NEW route \in {"signup", "cancelled"}, Decide(route)
          PROVE  decision = "none" /\ decision' = route /\ ~standing
      BY <1>5, <2>1 DEF Decide, MayAct, Agrees
    <2> QED  BY <1>2, <1>4, <2>1
  <1>7. \A phase : Agrees(phase) => (Agrees(phase))'
    BY <1>4, <1>6 DEF Agrees
  <1>8. Agrees("paused") /\ Agrees("cancelled") /\ Agrees("research")
    BY DEF Agrees, ToSignup
  <1>9. Agrees(NoPlan.from) /\ Agrees(NoPlan.to)
    BY <1>8 DEF NoPlan, Crossing
  <1>10. (Agrees(control.plan.from))' /\ (Agrees(control.plan.to))'
    <2>1. ASSUME NEW to, NEW attempt, NEW code, hist # << >>, Agrees(to),
                 control'.plan = Crossing(Last.to, to, attempt, to, code)
          PROVE  Agrees(control'.plan.from) /\ Agrees(control'.plan.to)
      BY <1>5, <2>1 DEF Crossing
    <2>2. Agrees(control'.plan.from) /\ Agrees(control'.plan.to)
      <3>1. CASE control'.plan = control.plan
        BY <1>2, <3>1
      <3>2. CASE control'.plan = NoPlan
        BY <1>9, <3>2
      <3>3. CASE RequestPause
        <4>1. CASE Spends
          BY <1>1, <3>1, <4>1 DEF Spends, ControlRequest
        <4>2. CASE \E attempt : Plans("commit", "paused", attempt, "step")
          BY <1>8, <2>1, <3>3, <4>2 DEF RequestPause, MayAct, Plans
        <4> QED  BY <3>3, <4>1, <4>2 DEF RequestPause
      <3>4. CASE RequestResume
        <4>1. PhaseAtPause(hist) = Last.from /\ hist # << >>
          BY <1>1, <3>4, PausedFrom DEF RequestResume, MayAct, Last
        <4> QED  BY <1>5, <2>1, <3>4, <4>1 DEF RequestResume, Plans
      <3>5. CASE RequestCancel \/ RequestReset
        BY <1>8, <2>1, <3>5 DEF RequestCancel, RequestReset, MayAct, Plans
      <3>6. CASE RequestRetry
        BY <1>5, <2>1, <3>6 DEF RequestRetry, MayAct, Plans
      <3>7. CASE ControlRereads
        <4>1. hist # << >>
          BY <3>7, ControlType DEF ControlRereads
        <4>2. CASE Forgets
          BY <3>2, <4>2 DEF Forgets, NoControl
        <4>3. CASE ~Forgets
          <5>1. CASE control.kind = "cancel_due"
            <6>1. control' = [control EXCEPT !.kind = "cancel",
                    !.plan = Crossing(Last.to, "cancelled", Last.attempt, "cancelled", "step")]
              BY <3>7, <4>3, <5>1 DEF ControlRereads
            <6>2. control'.plan = Crossing(Last.to, "cancelled", Last.attempt, "cancelled", "step")
              BY <1>1, <6>1 DEF ControlRequest
            <6> QED  BY <1>8, <2>1, <4>1, <6>2
          <5>2. CASE control.kind = "reset_due"
            <6>1. control' = [control EXCEPT !.kind = "reset",
                    !.plan = Crossing(Last.to, "research", Last.attempt + 1 + ResetCount(hist),
                                      "research", "reset")]
              BY <3>7, <4>3, <5>2 DEF ControlRereads
            <6>2. control'.plan = Crossing(Last.to, "research",
                                     Last.attempt + 1 + ResetCount(hist), "research", "reset")
              BY <1>1, <6>1 DEF ControlRequest
            <6> QED  BY <1>8, <2>1, <4>1, <6>2
          <5> QED  BY <3>7, <5>1, <5>2 DEF ControlRereads
        <4> QED  BY <4>2, <4>3
      <3>8. CASE ControlCommits \/ ControlDies
        <4>1. CASE Forgets
          BY <3>2, <4>1 DEF Forgets, NoControl
        <4>2. CASE control' = [control EXCEPT !.kind = "reset_due", !.plan = NoPlan]
          BY <1>1, <3>2, <4>2 DEF ControlRequest
        <4> QED  BY <3>8, <4>1, <4>2 DEF ControlCommits, ControlDies
      <3>9. CASE \E route \in {"signup", "cancelled"} : Decide(route)
        BY <1>1, <3>1, <3>9 DEF Decide, ControlRequest
      <3> QED  BY <1>3, <3>3, <3>4, <3>5, <3>6, <3>7, <3>8, <3>9 DEF OperatorNext
    <2> QED  BY <1>7, <2>2 DEF Agrees
  <1>11. \A i \in DOMAIN hist' : Agrees(hist'[i].from) /\ Agrees(hist'[i].to)
    <2>1. CASE ControlCommits
      BY <1>1, <1>2, <2>1, CommitAgrees, ControlType DEF ControlCommits
    <2>2. CASE hist' = hist
      BY <1>2, <2>2
    <2> QED  BY <2>1, <2>2 DEF OperatorNext, RequestPause, RequestResume, RequestCancel,
      RequestReset, RequestRetry, Decide, Authorize, ControlRereads, ControlDies
  <1>12. \A i \in DOMAIN hist' : (Agrees(hist[i].from))' /\ (Agrees(hist[i].to))'
    <2>1. \A i \in DOMAIN hist' : Agrees(hist'[i].from) /\ Agrees(hist'[i].to)
      BY <1>11
    <2> QED  BY <1>4, <1>6, <2>1 DEF Agrees
  <1>13. \A v \in Workers : (walk[v].pc # "idle" => Agrees(walk[v].phase))'
                             /\ (walk[v].pc = "commit" => Agrees(walk[v].to))'
    BY <1>1, <1>4, <1>6 DEF RouteInvariant, Agrees, still
  <1> QED  BY <1>1, <1>4, <1>6, <1>10, <1>12, <1>13 DEF RouteInvariant, still

LEMMA RouteStep ==
    ASSUME DriverInvariant, RouteInvariant, [Next]_vars PROVE RouteInvariant'
  <1>1. regime' = regime
    BY RegimeStays
  <1>2. CASE ~NeverAuthorized
    BY <1>1, <1>2 DEF RouteInvariant, NeverAuthorized
  <1>3. CASE NeverAuthorized
    <2>1. ASSUME NEW w \in Workers, WorkerNext(w) PROVE RouteInvariant'
      <3>1. CASE Handles(w)
        BY <1>3, <3>1, VaultCheckRoutes, GateRoutes, HandlerRoutes, CredentialRoutes, StoresRoutes
          DEF Handles
      <3> QED  BY <1>3, <2>1, <3>1, TurnRoutes, CommitRoutes DEF WorkerNext
    <2>2. CASE UNCHANGED vars
      BY <2>2 DEF vars, RouteInvariant, Agrees, NeverAuthorized
    <2> QED  BY <1>3, <2>1, <2>2, OperatorRoutes DEF Next
  <1> QED  BY <1>2, <1>3

LEMMA RouteStart == Init => RouteInvariant
  <1> SUFFICES ASSUME Init PROVE RouteInvariant
    OBVIOUS
  <1>1. decision = "none" /\ DOMAIN hist = {} /\ \A w \in Workers : walk[w] = Idle
    BY DEF Init
  <1>2. \A w \in Workers : walk[w].pc = "idle"
    BY <1>1, IdleType
  <1>3. Agrees(control.plan.from) /\ Agrees(control.plan.to)
    BY DEF Init, NoControl, NoPlan, Crossing, Agrees, ToSignup
  <1> QED  BY <1>1, <1>2, <1>3 DEF RouteInvariant

\* No account is entered without a recorded agreement to create one, whoever races, where
\* the standing authorization does not change under a run.
THEOREM SignupNeedsDecision == Spec => [](NeverAuthorized => SignupIsAuthorized)
  <1>1. DriverInvariant /\ RouteInvariant /\ [Next]_vars => RouteInvariant'
    BY RouteStep
  <1>2. DriverInvariant /\ RouteInvariant => (NeverAuthorized => SignupIsAuthorized)
    BY DEF RouteInvariant, SignupIsAuthorized, At, Agrees, ToSignup
  <1> QED  BY <1>1, <1>2, RouteStart, DriverInvariantHolds, PTL DEF Spec

-----------------------------------------------------------------------------
(* Operators between a worker's turns only.                                   *)

\* A walk that may still write.
Active(w) == walk[w].pc \notin {"idle", "record", "unwind"}

\* Who walks an ended run only leaves it, and a request stands only while nobody walks and
\* the run has not ended.
EndInvariant ==
    Sequential =>
        /\ \A w \in Workers : Active(w) => ResumptionPhase(hist) \notin Terminal
        /\ control.kind # "none" => /\ \A w \in Workers : walk[w].pc = "idle"
                                    /\ ResumptionPhase(hist) \notin Terminal

-----------------------------------------------------------------------------
(* The line a run follows: within an attempt, from a phase to a later one.    *)

Rank ==
    [research |-> 0, vault_check |-> 1, awaiting_admission |-> 2, route_selected_signup |-> 3,
     signup |-> 4, route_selected_login |-> 5, email_verification |-> 5, authenticated |-> 6,
     developer_app |-> 7, credential_generation |-> 8, vault_storage |-> 9,
     credential_validation |-> 10, captcha_paused |-> 11, paused |-> 11,
     completed |-> 12, blocked |-> 12, cancelled |-> 12]

\* No boundary is of a later attempt than the last, nor, in its attempt, of a later phase.
Ordered(h) ==
    \A i \in DOMAIN h :
        /\ h[i].attempt <= ResumptionAttempt(h)
        /\ h[i].attempt = ResumptionAttempt(h) => Rank[h[i].to] <= Rank[ResumptionPhase(h)]

\* A boundary that goes on along the line.
Further(h, b) ==
    \/ b.attempt > ResumptionAttempt(h)
    \/ b.attempt = ResumptionAttempt(h) /\ Rank[ResumptionPhase(h)] <= Rank[b.to]

Threads == {"credential_generation", "credential_validation"}

Storing(attempt, thread) ==
    Crossing("credential_generation", "vault_storage", attempt, thread, "step")

\* Of the two storage boundaries of a thread, the second is never without the first.
Paired(h) ==
    \A i \in DOMAIN h :
        (/\ h[i].from = "vault_storage" /\ h[i].to = "credential_validation"
         /\ h[i].thread \in Threads)
            => Replayed(h, Storing(h[i].attempt, h[i].thread))

\* A walk is where its run stands; or it replays the storage boundaries that its own capture
\* has made durable, on its way to the validation the run already stands at.
Follows(w) ==
    Active(w) =>
        /\ walk[w].attempt = ResumptionAttempt(hist) /\ walk[w].memo # "credential_generation"
        /\ \/ /\ walk[w].phase = ResumptionPhase(hist)
              /\ walk[w].pc = "commit" => Rank[walk[w].phase] < Rank[walk[w].to]
              /\ walk[w].pc = "prove" => walk[w].phase = "credential_validation"
           \/ /\ walk[w].phase = "vault_storage" /\ walk[w].pc \in {"top", "drive", "commit"}
              /\ ResumptionPhase(hist) = "credential_validation"
              /\ walk[w].pc = "commit" => Rank["credential_validation"] <= Rank[walk[w].to]
           \/ /\ walk[w].phase = "credential_generation" /\ walk[w].pc \in {"prove", "commit"}
              /\ ResumptionPhase(hist) = "credential_validation"
              /\ walk[w].pc = "commit" => walk[w].to \in {"vault_storage", "paused"}
              /\ Replayed(hist, Storing(walk[w].attempt, "credential_generation"))

\* One worker at a time, and the run's first credential.
FirstLine == Sequential /\ counters.generation = 0

LineInvariant ==
    FirstLine =>
        /\ Ordered(hist) /\ Paired(hist)
        /\ \A w \in Workers : Follows(w)
        /\ control.kind \in {"commit", "resume", "cancel", "reset"} => Further(hist, control.plan)

-----------------------------------------------------------------------------
(* The end is final where operators come between a worker's turns.            *)

\* Only a worker at work has changed: it has not ended the run, or it has stopped.
LEMMA EndKeeps ==
    ASSUME NEW w \in Workers, \A v \in Workers \ {w} : walk'[v] = walk[v] /\ AtRest(v),
           control'.kind = "none", Active(w)' => ResumptionPhase(hist') \notin Terminal
    PROVE  EndInvariant'
  <1>1. \A v \in Workers \ {w} : ~Active(v)'
    BY DEF AtRest, Active
  <1> QED  BY <1>1 DEF EndInvariant

LEMMA AtWork ==
    ASSUME SoleInvariant, EndInvariant, Sequential, NEW w \in Workers, ~AtRest(w)
    PROVE  /\ \A v \in Workers \ {w} : AtRest(v)
           /\ control.kind = "none" /\ (Active(w) => ResumptionPhase(hist) \notin Terminal)
  BY AloneAtWork DEF EndInvariant, Sequential, AtRest

LEMMA HandlerMoves ==
    ASSUME DriverInvariant, NEW w \in Workers, Handles(w)
    PROVE  /\ walk[w].pc \in {"drive", "captcha", "store", "prove"}
           /\ control' = control /\ (hist' = hist \/ Stores(w))
           /\ \A v \in Workers \ {w} : walk'[v] = walk[v]
  <1>1. walk \in [Workers -> Walk]
    BY Typed
  <1>2. CASE Stores(w)
    BY <1>1, <1>2 DEF Stores
  <1>3. CASE Prove(w)
    <2>1. Earns(w, "completed") \/ Earns(w, "credential_generation") \/ Defers(w)
            \/ Reports(w, "paused", "step")
      BY <1>3 DEF Prove
    <2>2. \A v \in Workers \ {w} : walk'[v] = walk[v]
      BY <1>1, <2>1 DEF Earns, Reports, Defers
    <2> QED  BY <1>3, <2>2 DEF Prove, apart
  <1>4. CASE Capture(w) \/ Validation(w)
    BY <1>1, <1>4 DEF Capture, Validation, EntersLifecycle, At, apart
  <1>5. ASSUME Light(w) PROVE walk[w].pc \in {"drive", "captcha"} /\ UNCHANGED apart
                              /\ \A v \in Workers \ {w} : walk'[v] = walk[v]
    BY <1>5 DEF Light
  <1>6. ASSUME ~Stores(w), ~Prove(w), ~Capture(w), ~Validation(w) PROVE Light(w)
    BY <1>6, RouteIsLight, AccountIsLight, LoopIsLight DEF Handles
  <1> QED  BY <1>2, <1>3, <1>4, <1>5, <1>6 DEF apart

\* Storing a credential leaves the run where it stood, or leads it to a storage boundary.
LEMMA StoresLead ==
    ASSUME DriverInvariant, NEW w \in Workers, Stores(w)
    PROVE  ResumptionPhase(hist') \in {ResumptionPhase(hist), "vault_storage", "credential_validation"}
  <1> DEFINE attempt == ResumptionAttempt(hist)
             thread == walk[w].phase
             b == Crossing("credential_generation", "vault_storage", attempt, thread, "step")
             c == Crossing("vault_storage", "credential_validation", attempt, thread, "step")
             h == CommitPhase(hist, b)
  <1>1. attempt \in Nat /\ thread \in Phases /\ hist \in Seq(Boundary)
    BY Typed, LastType DEF Walk
  <1>2. {"credential_generation", "vault_storage", "credential_validation"} \subseteq Phases
          /\ "step" \in Codes
    BY PhaseNames
  <1>3. hist' = CommitPhase(h, c)
    BY DEF Stores, Stored
  <1> HIDE DEF attempt, thread
  <1>4. b \in Boundary /\ b.to = "vault_storage"
    BY <1>1, <1>2, CrossingType
  <1>5. c \in Boundary /\ c.to = "credential_validation"
    BY <1>1, <1>2, CrossingType
  <1> HIDE DEF b, c
  <1>6. h \in Seq(Boundary) /\ ResumptionPhase(h) \in {ResumptionPhase(hist), b.to}
    BY <1>1, <1>4, CommitLeads
  <1> HIDE DEF h
  <1>7. ResumptionPhase(hist') \in {ResumptionPhase(h), c.to}
    BY <1>3, <1>5, <1>6, CommitLeads
  <1> QED  BY <1>4, <1>5, <1>6, <1>7

LEMMA HandlersEnd ==
    ASSUME DriverInvariant, SoleInvariant, EndInvariant, Sequential, NEW w \in Workers, Handles(w)
    PROVE  EndInvariant'
  <1>1. /\ walk[w].pc \in {"drive", "captcha", "store", "prove"}
        /\ control' = control /\ (hist' = hist \/ Stores(w))
        /\ \A v \in Workers \ {w} : walk'[v] = walk[v]
    BY HandlerMoves
  <1>2. ~AtRest(w) /\ Active(w)
    BY <1>1 DEF AtRest, Active
  <1>3. /\ \A v \in Workers \ {w} : AtRest(v)
        /\ control.kind = "none" /\ ResumptionPhase(hist) \notin Terminal
    BY <1>2, AtWork
  <1>4. ResumptionPhase(hist') \notin Terminal
    BY <1>1, <1>3, StoresLead DEF Terminal
  <1> QED  BY <1>1, <1>3, <1>4, EndKeeps

LEMMA CommitEnds ==
    ASSUME DriverInvariant, SoleInvariant, EndInvariant, Sequential, NEW w \in Workers, CommitStep(w)
    PROVE  EndInvariant'
  <1> DEFINE b == Crossing(walk[w].phase, walk[w].to, walk[w].attempt, walk[w].phase, walk[w].code)
             k == AfterCommit(walk[w])
  <1>1. walk[w] \in Walk /\ walk \in [Workers -> Walk] /\ walk[w].pc = "commit" /\ ~AtRest(w)
          /\ hist \in Seq(Boundary) /\ control' = control /\ Active(w)
    BY Typed DEF CommitStep, AtRest, Active
  <1>2. /\ \A v \in Workers \ {w} : AtRest(v)
        /\ control.kind = "none" /\ ResumptionPhase(hist) \notin Terminal
    BY <1>1, AtWork
  <1>3. b \in Boundary /\ b.to = walk[w].to
    <2>1. walk[w].phase \in Phases /\ walk[w].to \in Phases /\ walk[w].attempt \in Nat
            /\ walk[w].code \in Codes
      BY <1>1 DEF Walk
    <2> QED  BY <2>1, CrossingType
  <1>4. hist' = CommitPhase(hist, b) /\ walk'[w] = k /\ \A v \in Workers \ {w} : walk'[v] = walk[v]
    BY <1>1 DEF CommitStep
  <1>5. k.pc = IF walk[w].to \in Stops THEN "unwind" ELSE "top"
    BY <1>1 DEF AfterCommit, Walk
  <1> HIDE DEF b, k
  <1>6. ResumptionPhase(hist') \in {ResumptionPhase(hist), walk[w].to}
    BY <1>1, <1>3, <1>4, CommitLeads
  <1>7. Active(w)' => ResumptionPhase(hist') \notin Terminal
    BY <1>2, <1>4, <1>5, <1>6 DEF Active, Stops
  <1> QED  BY <1>1, <1>2, <1>4, <1>7, EndKeeps

LEMMA TurnEnds ==
    ASSUME DriverInvariant, SoleInvariant, EndInvariant, Sequential, NEW w \in Workers,
           Claim(w) \/ BeforeStep(w) \/ Unwind(w) \/ Record(w) \/ Dies(w)
    PROVE  EndInvariant'
  <1>1. walk \in [Workers -> Walk] /\ hist' = hist /\ control' = control
          /\ \A v \in Workers \ {w} : walk'[v] = walk[v]
    BY Typed DEF Claim, BeforeStep, Unwind, Record, Dies
  <1>2. CASE Claim(w)
    <2>1. \A v \in Workers : AtRest(v)
      BY <1>2 DEF SoleInvariant, AtRest, Walking, Claim, Sequential
    <2>2. walk'[w] = [Idle EXCEPT
            !.pc = IF ResumptionPhase(hist) \in Terminal THEN "unwind" ELSE "top",
            !.phase = ResumptionPhase(hist), !.attempt = ResumptionAttempt(hist),
            !.reroute = RerouteStands(hist)]
      BY <1>1, <1>2 DEF Claim
    <2>3. walk'[w].pc = IF ResumptionPhase(hist) \in Terminal THEN "unwind" ELSE "top"
      BY <2>2 DEF Idle
    <2>4. control'.kind = "none"
      BY <1>1, <1>2 DEF Claim, Sequential
    <2> QED  BY <1>1, <2>1, <2>3, <2>4, EndKeeps DEF Active
  <1>3. CASE BeforeStep(w) \/ Unwind(w)
    <2>1. walk[w].pc \in {"top", "unwind"} /\ ~AtRest(w)
      BY <1>3 DEF BeforeStep, Unwind, AtRest
    <2>2. /\ \A v \in Workers \ {w} : AtRest(v)
          /\ control.kind = "none" /\ (Active(w) => ResumptionPhase(hist) \notin Terminal)
      BY <2>1, AtWork
    <2>3. Active(w)' => Active(w)
      <3>1. CASE Unwind(w)
        <4>1. walk'[w] = IF walk[w].phase \in Terminal THEN [walk[w] EXCEPT !.pc = "record"] ELSE Idle
          BY <1>1, <3>1 DEF Unwind
        <4>2. walk'[w].pc \in {"record", "idle"}
          BY <1>1, <4>1 DEF Walk, Idle
        <4> QED  BY <4>2 DEF Active
      <3>2. CASE BeforeStep(w)
        BY <3>2 DEF Active, BeforeStep
      <3> QED  BY <1>3, <3>1, <3>2
    <2> QED  BY <1>1, <2>2, <2>3, EndKeeps
  <1>4. CASE Record(w) \/ Dies(w)
    <2>1. walk[w].pc # "idle" /\ walk'[w] = Idle
      BY <1>1, <1>4 DEF Record, Dies, Walking
    <2>2. control.kind = "none"
      BY <2>1 DEF EndInvariant
    <2>3. \A v \in Workers : Active(v)' => Active(v)
      BY <1>1, <2>1, IdleType DEF Active
    <2> QED  BY <1>1, <2>2, <2>3 DEF EndInvariant
  <1> QED  BY <1>2, <1>3, <1>4

LEMMA OperatorEnds ==
    ASSUME DriverInvariant, EndInvariant, Sequential, OperatorNext
    PROVE  EndInvariant'
  <1>1. UNCHANGED still /\ hist \in Seq(Boundary) /\ control \in ControlRequest
    BY ControlType DEF OperatorNext, RequestPause, RequestResume, RequestCancel, RequestReset,
      RequestRetry, Decide, Authorize, ControlRereads, ControlCommits, ControlDies
  <1>2. \A w \in Workers : walk[w].pc = "idle"
    BY DEF EndInvariant, Sequential, OperatorNext, RequestPause, RequestResume, RequestCancel,
      RequestReset, RequestRetry, Decide, Authorize, ControlRereads, ControlCommits, ControlDies,
      MayAct, Walking
  <1>3. (Forgets \/ (Spends /\ control.kind = "none")) => control'.kind = "none"
    BY <1>1 DEF Forgets, NoControl, Spends, ControlRequest
  <1>4. control'.kind # "none" => ResumptionPhase(hist') \notin Terminal
    <2>1. hist # << >> => ResumptionPhase(hist) = Last.to
      BY <1>1, LastType DEF Last
    <2>2. Waiting \cap Terminal = {} /\ Terminal \subseteq Stops /\ "awaiting_admission" \notin Terminal
      BY DEF Waiting, Terminal, Stops
    <2>3. CASE RequestPause \/ RequestResume \/ RequestCancel \/ RequestReset \/ RequestRetry
                 \/ Authorize \/ \E route \in {"signup", "cancelled"} : Decide(route)
      BY <1>3, <2>1, <2>2, <2>3 DEF RequestPause, RequestResume, RequestCancel, RequestReset,
        RequestRetry, Decide, Authorize, MayAct, Cancellable
    <2>4. CASE ControlRereads \/ ControlDies
      BY <2>4 DEF ControlRereads, ControlDies, EndInvariant
    <2>5. CASE ControlCommits
      <3>1. hist' = CommitPhase(hist, control.plan) /\ control.plan \in Boundary
              /\ ResumptionPhase(hist) \notin Terminal
        BY <2>5, ControlType DEF ControlCommits, EndInvariant
      <3>2. control'.kind # "none" => control.plan.to = "paused"
        BY <1>3, <2>5 DEF ControlCommits
      <3>3. ResumptionPhase(hist') \in {ResumptionPhase(hist), control.plan.to}
        BY <1>1, <3>1, CommitLeads
      <3> QED  BY <3>1, <3>2, <3>3 DEF Terminal
    <2> QED  BY <2>3, <2>4, <2>5 DEF OperatorNext
  <1> QED  BY <1>1, <1>2, <1>4 DEF EndInvariant, Active, still

LEMMA EndStep ==
    ASSUME DriverInvariant, SoleInvariant, EndInvariant, [Next]_vars PROVE EndInvariant'
  <1>1. regime' = regime
    BY RegimeStays
  <1>2. CASE ~Sequential
    BY <1>1, <1>2 DEF EndInvariant, Sequential
  <1>3. CASE Sequential
    <2>1. ASSUME NEW w \in Workers, WorkerNext(w) PROVE EndInvariant'
      BY <1>3, <2>1, HandlersEnd, CommitEnds, TurnEnds DEF WorkerNext
    <2>2. CASE UNCHANGED vars
      BY <2>2 DEF vars, EndInvariant, Active, Sequential
    <2> QED  BY <1>3, <2>1, <2>2, OperatorEnds DEF Next
  <1> QED  BY <1>2, <1>3

LEMMA EndStays ==
    ASSUME DriverInvariant, EndInvariant, Sequential, [Next]_vars PROVE KeepsItsEnd
  <1> SUFFICES ASSUME hist # << >>, Last.to \in Terminal PROVE hist' = hist
    BY DEF KeepsItsEnd
  <1>1. ResumptionPhase(hist) \in Terminal
    BY Typed, LastType DEF Last, DriverInvariant, TypeOK
  <1>2. ASSUME NEW w \in Workers, WorkerNext(w) PROVE hist' = hist
    <2>1. ~Active(w)
      BY <1>1 DEF EndInvariant
    <2>2. ~Handles(w) /\ ~CommitStep(w)
      BY <2>1, HandlerMoves DEF Active, CommitStep
    <2> QED  BY <1>2, <2>2 DEF WorkerNext, Claim, BeforeStep, Unwind, Record, Dies
  <1>3. CASE OperatorNext
    <2>1. ~ControlCommits
      BY <1>1 DEF EndInvariant, ControlCommits
    <2> QED  BY <1>3, <2>1 DEF OperatorNext, RequestPause, RequestResume, RequestCancel, RequestReset,
      RequestRetry, Decide, Authorize, ControlRereads, ControlDies
  <1>4. CASE UNCHANGED vars
    BY <1>4 DEF vars
  <1> QED  BY <1>2, <1>3, <1>4 DEF Next

LEMMA EndStart == Init => EndInvariant
  <1>1. Init => control.kind = "none" /\ \A w \in Workers : ~Active(w)
    BY IdleType DEF Init, NoControl, Active
  <1> QED  BY <1>1 DEF EndInvariant

LEMMA EndInvariantHolds == Spec => [](DriverInvariant /\ SoleInvariant /\ EndInvariant)
  <1>1. DriverInvariant /\ SoleInvariant /\ EndInvariant /\ [Next]_vars => EndInvariant'
    BY EndStep
  <1> QED  BY <1>1, EndStart, SoleInvariantHolds, PTL DEF Spec

\* A run that was completed, blocked or cancelled stays so, where one worker at a time
\* walks it and operators come between a worker's turns.
THEOREM EndIsFinal == Spec => [][Sequential => KeepsItsEnd]_vars
  <1>1. DriverInvariant /\ EndInvariant /\ [Next]_vars => [Sequential => KeepsItsEnd]_vars
    BY EndStays
  <1> QED  BY <1>1, EndInvariantHolds, PTL DEF Spec

LEMMA RankType ==
    /\ \A phase \in Phases : Rank[phase] \in Nat /\ Rank[phase] <= 12
    /\ \A phase \in Phases \ Terminal : Rank[phase] <= 11
  BY DEF Rank, Phases, Resumable, SessionBearing, Terminal

\* Every edge of the table leads on, but those out of a pause and the way back to a new
\* credential.
LEMMA RankRises ==
    ASSUME NEW from \in Phases \ Waiting, NEW to \in LegalTargets[from],
           from = "credential_validation" => to # "credential_generation"
    PROVE  Rank[from] < Rank[to]
  BY DEF Rank, LegalTargets, Phases, Resumable, SessionBearing, Terminal, Waiting

\* A history stays ordered by what it is extended with: boundaries no later than its new end.
LEMMA StillOrdered ==
    ASSUME NEW h \in Seq(Boundary), NEW g \in Seq(Boundary), Ordered(h),
           \/ ResumptionAttempt(h) < ResumptionAttempt(g)
           \/ /\ ResumptionAttempt(h) = ResumptionAttempt(g)
              /\ Rank[ResumptionPhase(h)] <= Rank[ResumptionPhase(g)],
           \A i \in DOMAIN g :
              \/ i \in DOMAIN h /\ g[i] = h[i]
              \/ /\ g[i].attempt = ResumptionAttempt(g)
                 /\ Rank[g[i].to] <= Rank[ResumptionPhase(g)]
    PROVE  Ordered(g)
  <1> DEFINE m == ResumptionAttempt(h)
             n == ResumptionAttempt(g)
             p == Rank[ResumptionPhase(h)]
             q == Rank[ResumptionPhase(g)]
  <1>1. m \in Nat /\ n \in Nat /\ p \in Nat /\ q \in Nat
    BY LastType, RankType
  <1>2. (m < n) \/ (m = n /\ p <= q)
    OBVIOUS
  <1>3. ASSUME NEW i \in DOMAIN g
        PROVE  g[i].attempt <= n /\ (g[i].attempt = n => Rank[g[i].to] <= q)
    <2>1. CASE i \in DOMAIN h /\ g[i] = h[i]
      <3>1. h[i] \in Boundary
        BY <2>1, ElementOfSeq, LenProperties
      <3>2. h[i].attempt \in Nat /\ Rank[h[i].to] \in Nat
        BY <3>1, RankType DEF Boundary
      <3>3. h[i].attempt <= m /\ (h[i].attempt = m => Rank[h[i].to] <= p)
        BY <2>1 DEF Ordered
      <3> DEFINE a == h[i].attempt
                 r == Rank[h[i].to]
      <3>4. g[i].attempt = a /\ Rank[g[i].to] = r
        BY <2>1
      <3>5. a \in Nat /\ r \in Nat /\ a <= m /\ (a = m => r <= p)
        BY <3>2, <3>3
      <3> HIDE DEF a, r, m, n, p, q
      <3>6. a <= n /\ (a = n => r <= q)
        BY <1>1, <1>2, <3>5
      <3> QED  BY <3>4, <3>6
    <2>2. CASE g[i].attempt = n /\ Rank[g[i].to] <= q
      BY <1>1, <2>2
    <2> QED  BY <2>1, <2>2
  <1> QED  BY <1>3 DEF Ordered

LEMMA OrderedCommit ==
    ASSUME NEW h \in Seq(Boundary), NEW b \in Boundary, Ordered(h), Further(h, b)
    PROVE  Ordered(CommitPhase(h, b))
  <1> DEFINE g == CommitPhase(h, b)
  <1>1. g \in Seq(Boundary) /\ \/ g = h
                               \/ ResumptionPhase(g) = b.to /\ ResumptionAttempt(g) = b.attempt
    BY CommitLeads
  <1>2. CASE g = h
    BY <1>2
  <1>3. CASE ResumptionPhase(g) = b.to /\ ResumptionAttempt(g) = b.attempt
    <2>1. \A i \in DOMAIN g : (i \in DOMAIN h /\ g[i] = h[i]) \/ g[i] = b
      BY Committed
    <2>2. Rank[b.to] \in Nat
      BY RankType DEF Boundary
    <2>3. Rank[b.to] <= Rank[b.to]
      BY <2>2
    <2>4. \/ ResumptionAttempt(h) < ResumptionAttempt(g)
          \/ /\ ResumptionAttempt(h) = ResumptionAttempt(g)
             /\ Rank[ResumptionPhase(h)] <= Rank[ResumptionPhase(g)]
      BY <1>3 DEF Further
    <2>5. \A i \in DOMAIN g :
              \/ i \in DOMAIN h /\ g[i] = h[i]
              \/ /\ g[i].attempt = ResumptionAttempt(g)
                 /\ Rank[g[i].to] <= Rank[ResumptionPhase(g)]
      BY <1>3, <2>1, <2>3
    <2>6. Ordered(g)
      <3> HIDE DEF g
      <3> QED  BY <1>1, <2>4, <2>5, StillOrdered
    <2> QED  BY <2>6
  <1> QED  BY <1>1, <1>2, <1>3

\* In its attempt nothing is replayed that goes beyond the phase the run stands at.
LEMMA BeyondIsNew ==
    ASSUME NEW h \in Seq(Boundary), NEW b \in Boundary, Ordered(h),
           b.attempt = ResumptionAttempt(h), Rank[ResumptionPhase(h)] < Rank[b.to]
    PROVE  /\ ~Replayed(h, b) /\ ResumptionPhase(CommitPhase(h, b)) = b.to
           /\ ResumptionAttempt(CommitPhase(h, b)) = b.attempt
  <1>1. Rank[ResumptionPhase(h)] \in Nat /\ Rank[b.to] \in Nat
    BY LastType, RankType DEF Boundary
  <1>2. ~Replayed(h, b)
    <2>1. SUFFICES ASSUME NEW i \in DOMAIN h, SameKey(h[i], b) PROVE FALSE
      BY DEF Replayed
    <2>2. Rank[b.to] <= Rank[ResumptionPhase(h)]
      BY <2>1 DEF Ordered, SameKey
    <2> QED  BY <1>1, <2>2
  <1>3. CommitPhase(h, b) # h
    BY <1>2, Committed
  <1> QED  BY <1>2, <1>3, CommitLeads

LEMMA StillReplayed ==
    ASSUME NEW h \in Seq(Boundary), NEW b \in Boundary, NEW c, Replayed(h, c)
    PROVE  Replayed(CommitPhase(h, b), c)
  <1>1. CommitPhase(h, b) = h \/ \A i \in DOMAIN h : i \in DOMAIN CommitPhase(h, b)
    BY Committed DEF Extends
  <1> QED  BY <1>1, Committed DEF Replayed

\* The second storage boundary of a thread, unless its first is there.
SecondOf(b) ==
    b.from = "vault_storage" /\ b.to = "credential_validation" /\ b.thread \in Threads

LEMMA PairedCommit ==
    ASSUME NEW h \in Seq(Boundary), NEW b \in Boundary, Paired(h),
           SecondOf(b) => Replayed(h, Storing(b.attempt, b.thread))
    PROVE  Paired(CommitPhase(h, b))
  <1> DEFINE g == CommitPhase(h, b)
  <1>1. \A c : Replayed(h, c) => Replayed(g, c)
    BY StillReplayed
  <1>2. \A i \in DOMAIN g : (i \in DOMAIN h /\ g[i] = h[i]) \/ g[i] = b
    BY Committed
  <1> HIDE DEF g
  <1>3. ASSUME NEW i \in DOMAIN g, SecondOf(g[i])
        PROVE  Replayed(h, Storing(g[i].attempt, g[i].thread))
    BY <1>2, <1>3 DEF Paired, SecondOf
  <1>4. Paired(g)
    BY <1>1, <1>3 DEF Paired, SecondOf
  <1> QED  BY <1>4 DEF g

\* Only a worker at work has changed.
LEMMA LineKeeps ==
    ASSUME NEW w \in Workers, \A v \in Workers \ {w} : walk'[v] = walk[v] /\ AtRest(v),
           control'.kind = "none", Ordered(hist'), Paired(hist'), Follows(w)'
    PROVE  LineInvariant'
  <1>1. \A v \in Workers \ {w} : ~Active(v)'
    BY DEF AtRest, Active
  <1>2. \A v \in Workers : Follows(v)'
    BY <1>1 DEF Follows
  <1> QED  BY <1>2 DEF LineInvariant

\* What a worker at work may rely on.
LEMMA OnTheLine ==
    ASSUME DriverInvariant, SoleInvariant, EndInvariant, LineInvariant, FirstLine,
           NEW w \in Workers, ~AtRest(w)
    PROVE  /\ \A v \in Workers \ {w} : AtRest(v)
           /\ control.kind = "none" /\ Ordered(hist) /\ Paired(hist) /\ Follows(w)
           /\ walk[w] \in Walk /\ walk \in [Workers -> Walk] /\ hist \in Seq(Boundary)
           /\ InPlace(walk[w]) /\ ResumptionPhase(hist) \in Phases
  BY AtWork, Typed, LastType DEF LineInvariant, FirstLine

LEMMA LightFollows ==
    ASSUME DriverInvariant, SoleInvariant, EndInvariant, LineInvariant, FirstLine,
           NEW w \in Workers, Light(w)
    PROVE  LineInvariant'
  <1>1. ~AtRest(w) /\ Active(w) /\ walk[w].pc \in {"drive", "captcha"}
    BY DEF Light, AtRest, Active
  <1>2. /\ \A v \in Workers \ {w} : AtRest(v)
        /\ control.kind = "none" /\ Ordered(hist) /\ Paired(hist) /\ Follows(w)
        /\ walk[w] \in Walk
    BY <1>1, OnTheLine
  <1>3. hist' = hist /\ control' = control /\ \A v \in Workers \ {w} : walk'[v] = walk[v]
    BY DEF Light, apart
  <1>4. /\ walk'[w].pc \in {"unwind", "captcha", "commit"}
        /\ walk'[w].phase = walk[w].phase /\ walk'[w].attempt = walk[w].attempt
        /\ walk'[w].memo = walk[w].memo
        /\ walk'[w].pc = "captcha" => walk[w].phase \in Prompting
    BY DEF Light
  <1>5. ASSUME walk'[w].pc = "commit"
        PROVE  walk'[w].to \in LegalTargets[walk[w].phase] /\ Rank[walk[w].phase] < Rank[walk'[w].to]
    <2>1. walk'[w].to \in LegalTargets[walk[w].phase] /\ walk[w].phase \in Phases \ Waiting
            /\ (walk[w].phase = "credential_validation" => walk'[w].to = "paused")
      BY <1>2, <1>5 DEF Light, Walk
    <2> QED  BY <2>1, RankRises
  <1>6. CASE walk[w].phase = ResumptionPhase(hist)
    <2>1. Follows(w)'
      BY <1>1, <1>2, <1>3, <1>4, <1>5, <1>6 DEF Follows
    <2> QED  BY <1>2, <1>3, <2>1, LineKeeps
  <1>7. CASE walk[w].phase = "vault_storage" /\ ResumptionPhase(hist) = "credential_validation"
    <2>1. walk'[w].pc # "captcha"
      BY <1>4, <1>7 DEF Prompting, SessionBearing
    <2>2. walk'[w].pc = "commit" => Rank["credential_validation"] <= Rank[walk'[w].to]
      BY <1>5, <1>7 DEF LegalTargets, Rank
    <2>3. Follows(w)'
      BY <1>1, <1>2, <1>3, <1>4, <1>7, <2>1, <2>2 DEF Follows, Active
    <2> QED  BY <1>2, <1>3, <2>3, LineKeeps
  <1> QED  BY <1>1, <1>2, <1>6, <1>7 DEF Follows

LEMMA CaptureFollows ==
    ASSUME DriverInvariant, SoleInvariant, EndInvariant, LineInvariant, FirstLine,
           NEW w \in Workers, Capture(w)
    PROVE  LineInvariant'
  <1>1. ~AtRest(w) /\ Active(w) /\ walk[w].pc = "drive"
          /\ walk[w].phase \in {"credential_generation", "credential_validation"}
    BY DEF Capture, EntersLifecycle, At, AtRest, Active
  <1>2. /\ \A v \in Workers \ {w} : AtRest(v)
        /\ control.kind = "none" /\ Ordered(hist) /\ Paired(hist) /\ Follows(w)
        /\ walk[w] \in Walk /\ walk \in [Workers -> Walk]
    BY <1>1, OnTheLine
  <1>3. hist' = hist /\ control' = control /\ \A v \in Workers \ {w} : walk'[v] = walk[v]
    BY <1>2 DEF Capture, apart
  <1>4. walk'[w] = [walk[w] EXCEPT !.pc = "store", !.gen = counters.generation]
    BY <1>2 DEF Capture
  <1>5. /\ walk'[w].pc = "store" /\ walk'[w].memo = walk[w].memo
        /\ walk'[w].phase = walk[w].phase /\ walk'[w].attempt = walk[w].attempt
    BY <1>2, <1>4 DEF Walk
  <1>6. Follows(w)'
    BY <1>1, <1>2, <1>3, <1>5 DEF Follows
  <1> QED  BY <1>2, <1>3, <1>6, LineKeeps

\* The storage boundaries of a capture end the history at the validation: two new ones behind
\* the generation's phase; behind the validation's, what of them was missing.
LEMMA StoresFollows ==
    ASSUME DriverInvariant, SoleInvariant, EndInvariant, LineInvariant, FirstLine,
           NEW w \in Workers, Stores(w)
    PROVE  LineInvariant'
  <1> DEFINE attempt == ResumptionAttempt(hist)
             thread == walk[w].phase
             b == Storing(attempt, thread)
             c == Crossing("vault_storage", "credential_validation", attempt, thread, "step")
             h == CommitPhase(hist, b)
             g == CommitPhase(h, c)
  <1>1. ~AtRest(w) /\ Active(w) /\ walk[w].pc = "store" /\ control' = control
    BY DEF Stores, AtRest, Active
  <1>2. /\ \A v \in Workers \ {w} : AtRest(v)
        /\ control.kind = "none" /\ Ordered(hist) /\ Paired(hist) /\ Follows(w)
        /\ walk[w] \in Walk /\ walk \in [Workers -> Walk] /\ hist \in Seq(Boundary)
        /\ InPlace(walk[w]) /\ ResumptionPhase(hist) \in Phases
    BY <1>1, OnTheLine
  <1>3. thread \in Threads /\ thread = ResumptionPhase(hist) /\ walk[w].attempt = attempt
          /\ walk[w].memo # "credential_generation"
    BY <1>1, <1>2 DEF Follows, InPlace, Threads
  <1>4. hist' = g
    BY DEF Stores, Stored, Storing
  <1>5. /\ \A v \in Workers \ {w} : walk'[v] = walk[v]
        /\ walk'[w].pc = "prove" /\ walk'[w].memo = walk[w].memo
        /\ walk'[w].phase = thread /\ walk'[w].attempt = attempt
    <2>1. walk'[w] = [walk[w] EXCEPT !.pc = "prove"] /\ \A v \in Workers \ {w} : walk'[v] = walk[v]
      BY <1>2 DEF Stores
    <2> QED  BY <1>2, <1>3, <2>1 DEF Walk
  <1>6. attempt \in Nat /\ thread \in Phases /\ "step" \in Codes
          /\ {"credential_generation", "vault_storage", "credential_validation"} \subseteq Phases
    BY <1>2, PhaseNames, LastType DEF Walk
  <1> HIDE DEF attempt, thread
  <1>7. /\ b \in Boundary /\ b.to = "vault_storage" /\ b.from = "credential_generation"
        /\ b.attempt = attempt /\ b.thread = thread
    BY <1>6, CrossingType DEF Storing
  <1>8. /\ c \in Boundary /\ c.to = "credential_validation" /\ c.from = "vault_storage"
        /\ c.attempt = attempt /\ c.thread = thread
    BY <1>6, CrossingType
  <1> HIDE DEF b, c
  <1>9. /\ h \in Seq(Boundary) /\ Replayed(h, b)
        /\ \A i \in DOMAIN h : (i \in DOMAIN hist /\ h[i] = hist[i]) \/ h[i] = b
    BY <1>2, <1>7, Committed, CommitLeads
  <1>10. /\ g \in Seq(Boundary) /\ Replayed(g, b)
         /\ \A i \in DOMAIN g : (i \in DOMAIN h /\ g[i] = h[i]) \/ g[i] = c
    <2> HIDE DEF h
    <2> QED  BY <1>8, <1>9, Committed, CommitLeads, StillReplayed
  <1>11. ResumptionPhase(g) = "credential_validation" /\ ResumptionAttempt(g) = attempt
    <2>1. CASE g # h
      <3> HIDE DEF h
      <3> QED  BY <1>8, <1>9, <2>1, CommitLeads
    <2>2. CASE g = h
      <3>1. Replayed(h, c)
        <4> HIDE DEF h
        <4>1. Replayed(CommitPhase(h, c), c)
          BY <1>8, <1>9, Committed
        <4> QED  BY <2>2, <4>1
      <3>2. PICK i \in DOMAIN h : SameKey(h[i], c)
        BY <3>1 DEF Replayed
      <3>3. i \in DOMAIN hist /\ SameKey(hist[i], c)
        BY <1>7, <1>8, <1>9, <3>2 DEF SameKey
      <3>4. Rank["credential_validation"] <= Rank[ResumptionPhase(hist)]
        BY <1>2, <1>8, <3>3 DEF Ordered, SameKey, attempt
      <3>5. thread = "credential_validation"
        BY <1>3, <3>4 DEF Threads, Rank
      <3>6. Replayed(hist, b)
        BY <1>2, <1>3, <1>8, <3>3 DEF Paired, SameKey, b
      <3>7. h = hist
        BY <3>6 DEF CommitPhase
      <3> QED  BY <1>3, <2>2, <3>5, <3>7 DEF attempt
    <2> QED  BY <2>1, <2>2
  <1>12. Ordered(g)
    <2>1. \A i \in DOMAIN g : (i \in DOMAIN hist /\ g[i] = hist[i]) \/ g[i] = b \/ g[i] = c
      BY <1>9, <1>10
    <2> HIDE DEF g
    <2>2. Rank[b.to] <= Rank[ResumptionPhase(g)] /\ Rank[c.to] <= Rank[ResumptionPhase(g)]
      BY <1>7, <1>8, <1>11 DEF Rank
    <2>3. Rank[ResumptionPhase(hist)] <= Rank[ResumptionPhase(g)]
      BY <1>3, <1>11 DEF Rank, Threads
    <2>4. ResumptionAttempt(hist) = ResumptionAttempt(g)
      BY <1>11 DEF attempt
    <2>5. \A i \in DOMAIN g :
              \/ i \in DOMAIN hist /\ g[i] = hist[i]
              \/ /\ g[i].attempt = ResumptionAttempt(g)
                 /\ Rank[g[i].to] <= Rank[ResumptionPhase(g)]
      BY <1>7, <1>8, <1>11, <2>1, <2>2
    <2> QED  BY <1>2, <1>10, <2>3, <2>4, <2>5, StillOrdered
  <1>13. Paired(g)
    <2>1. Paired(h)
      BY <1>2, <1>7, PairedCommit DEF SecondOf
    <2>2. Storing(c.attempt, c.thread) = b
      BY <1>8 DEF b
    <2> HIDE DEF h
    <2> QED  BY <1>8, <1>9, <2>1, <2>2, PairedCommit
  <1>14. Follows(w)'
    <2>1. Replayed(hist', Storing(walk'[w].attempt, thread))
      BY <1>4, <1>5, <1>10 DEF b
    <2> HIDE DEF g
    <2> QED  BY <1>3, <1>4, <1>5, <1>11, <2>1 DEF Follows, Threads
  <1> HIDE DEF g
  <1>15. Ordered(hist') /\ Paired(hist') /\ control'.kind = "none"
    BY <1>1, <1>2, <1>4, <1>12, <1>13
  <1> QED  BY <1>2, <1>5, <1>14, <1>15, LineKeeps

\* What the first credential's proof earns is the end of the run, a pause, or another
\* generation.
LEMMA ProveFollows ==
    ASSUME DriverInvariant, SoleInvariant, EndInvariant, LineInvariant, FirstLine,
           NEW w \in Workers, Prove(w)
    PROVE  LineInvariant'
  <1>1. ~AtRest(w) /\ Active(w) /\ walk[w].pc = "prove" /\ control' = control /\ hist' = hist
    BY DEF Prove, AtRest, Active, apart
  <1>2. /\ \A v \in Workers \ {w} : AtRest(v)
        /\ control.kind = "none" /\ Ordered(hist) /\ Paired(hist) /\ Follows(w)
        /\ walk[w] \in Walk /\ walk \in [Workers -> Walk] /\ hist \in Seq(Boundary)
    BY <1>1, OnTheLine
  <1>3. CASE Earns(w, "credential_generation") /\ counters'.generation # counters.generation
    BY <1>3 DEF LineInvariant, FirstLine
  <1>4. \/ Earns(w, "completed") \/ Defers(w) \/ Reports(w, "paused", "step")
        \/ Earns(w, "credential_generation") /\ counters'.generation # counters.generation
    <2> DEFINE used == counters.validation + 1
               counted == [counters EXCEPT !.validation = IF used <= ValidationBudget
                                                          THEN used ELSE @]
    <2>1. counters \in Counters
      BY DEF DriverInvariant, TypeOK
    <2>2. counted \in [captcha : Nat, admission : 0..1, verification : 0..VerificationBudget,
                        validation : Int, generation : Nat]
            /\ counted.generation = counters.generation /\ counters.generation \in Nat
      BY <2>1, DriverAssumption DEF Counters
    <2> HIDE DEF counted
    <2>3. counters' = [counted EXCEPT !.generation = @ + 1]
            => counters'.generation # counters.generation
      BY <2>2
    <2> QED  BY <2>3 DEF Prove, counted
  <1>5. /\ walk[w].attempt = ResumptionAttempt(hist) /\ walk[w].memo # "credential_generation"
        /\ ResumptionPhase(hist) = "credential_validation"
        /\ \/ walk[w].phase = "credential_validation"
           \/ /\ walk[w].phase = "credential_generation"
              /\ Replayed(hist, Storing(walk[w].attempt, "credential_generation"))
    BY <1>1, <1>2 DEF Follows
  <1>6. TypeOK
    BY DEF DriverInvariant
  <1>7. CASE Defers(w)
    <2>1. (\A v \in Workers \ {w} : walk'[v] = walk[v])
            /\ walk'[w] = [walk[w] EXCEPT !.pc = "unwind"]
      BY <1>6, <1>7, Deferred
    <2>2. ~Active(w)'
      BY <1>2, <2>1 DEF Active, Walk
    <2>3. Follows(w)'
      BY <2>2 DEF Follows
    <2> QED  BY <1>1, <1>2, <2>1, <2>3, LineKeeps
  <1>8. CASE Reports(w, "paused", "step")
    <2>1. (\A v \in Workers \ {w} : walk'[v] = walk[v])
            /\ walk'[w] = [walk[w] EXCEPT !.pc = "commit", !.to = "paused", !.code = "step"]
      <3>1. "paused" \in Phases /\ "step" \in Codes
        BY PhaseNames
      <3> QED  BY <1>6, <1>8, <3>1, Reported, ZenonT(60)
    <2>2. /\ walk'[w].pc = "commit" /\ walk'[w].to = "paused" /\ walk'[w].memo = walk[w].memo
          /\ walk'[w].phase = walk[w].phase /\ walk'[w].attempt = walk[w].attempt
      BY <1>2, <2>1 DEF Walk
    <2>3. Follows(w)'
      BY <1>1, <1>5, <2>2 DEF Follows, Rank
    <2> QED  BY <1>1, <1>2, <2>1, <2>3, LineKeeps
  <1>9. CASE Earns(w, "completed")
    <2>1. /\ \A v \in Workers \ {w} : walk'[v] = walk[v]
          /\ walk'[w] = IF walk[w].phase = "credential_generation"
                         THEN [walk[w] EXCEPT !.pc = "commit", !.to = "vault_storage",
                                              !.code = "step", !.memo = "completed"]
                         ELSE [walk[w] EXCEPT !.pc = "commit", !.to = "completed", !.code = "step"]
      <3>1. "completed" \in {"completed", "credential_generation"}
        OBVIOUS
      <3> QED  BY <1>6, <1>9, <3>1, Earned, ZenonT(60)
    <2>2. /\ walk'[w].pc = "commit" /\ walk'[w].memo \in {"completed", walk[w].memo}
          /\ walk'[w].phase = walk[w].phase /\ walk'[w].attempt = walk[w].attempt
          /\ walk'[w].to = IF walk[w].phase = "credential_generation" THEN "vault_storage"
                           ELSE "completed"
      BY <1>2, <2>1 DEF Walk
    <2>3. Follows(w)'
      BY <1>1, <1>5, <2>2 DEF Follows, Rank
    <2> QED  BY <1>1, <1>2, <2>1, <2>3, LineKeeps
  <1> QED  BY <1>3, <1>4, <1>7, <1>8, <1>9

LEMMA ValidationFollows ==
    ASSUME DriverInvariant, SoleInvariant, EndInvariant, LineInvariant, FirstLine,
           NEW w \in Workers, Validation(w)
    PROVE  LineInvariant'
  <1>1. ~AtRest(w) /\ Active(w) /\ walk[w].pc = "drive" /\ walk[w].phase = "credential_validation"
          /\ walk[w].memo # "none" /\ control' = control /\ hist' = hist
    BY DEF Validation, At, AtRest, Active, apart
  <1>2. /\ \A v \in Workers \ {w} : AtRest(v)
        /\ control.kind = "none" /\ Ordered(hist) /\ Paired(hist) /\ Follows(w)
        /\ walk[w] \in Walk /\ walk \in [Workers -> Walk]
    BY <1>1, OnTheLine
  <1>3. walk[w].memo = "completed" /\ ResumptionPhase(hist) = "credential_validation"
          /\ walk[w].attempt = ResumptionAttempt(hist)
    BY <1>1, <1>2 DEF Follows, Walk, Memos
  <1>4. /\ walk'[w] = [walk[w] EXCEPT !.pc = "commit", !.to = walk[w].memo, !.code = "step",
                                      !.memo = "none"]
        /\ \A v \in Workers \ {w} : walk'[v] = walk[v]
    BY <1>2 DEF Validation
  <1>5. /\ walk'[w].pc = "commit" /\ walk'[w].to = "completed" /\ walk'[w].memo = "none"
        /\ walk'[w].phase = "credential_validation" /\ walk'[w].attempt = walk[w].attempt
    BY <1>1, <1>2, <1>3, <1>4 DEF Walk
  <1>6. Follows(w)'
    BY <1>1, <1>3, <1>5 DEF Follows, Rank
  <1> QED  BY <1>1, <1>2, <1>4, <1>6, LineKeeps

LEMMA CommitFollows ==
    ASSUME DriverInvariant, SoleInvariant, EndInvariant, LineInvariant, FirstLine,
           NEW w \in Workers, CommitStep(w)
    PROVE  LineInvariant'
  <1> DEFINE b == Crossing(walk[w].phase, walk[w].to, walk[w].attempt, walk[w].phase, walk[w].code)
             k == AfterCommit(walk[w])
  <1>1. ~AtRest(w) /\ Active(w) /\ walk[w].pc = "commit" /\ control' = control
    BY DEF CommitStep, AtRest, Active
  <1>2. /\ \A v \in Workers \ {w} : AtRest(v)
        /\ control.kind = "none" /\ Ordered(hist) /\ Paired(hist) /\ Follows(w)
        /\ walk[w] \in Walk /\ walk \in [Workers -> Walk] /\ hist \in Seq(Boundary)
        /\ InPlace(walk[w])
    BY <1>1, OnTheLine
  <1>3. /\ b \in Boundary /\ b.to = walk[w].to /\ b.from = walk[w].phase
        /\ b.attempt = walk[w].attempt /\ b.thread = walk[w].phase
    <2>1. walk[w].phase \in Phases /\ walk[w].to \in Phases /\ walk[w].attempt \in Nat
            /\ walk[w].code \in Codes
      BY <1>2 DEF Walk
    <2> QED  BY <2>1, CrossingType
  <1>4. hist' = CommitPhase(hist, b) /\ walk'[w] = k /\ \A v \in Workers \ {w} : walk'[v] = walk[v]
    BY <1>2 DEF CommitStep
  <1>5. k.pc = (IF walk[w].to \in Stops THEN "unwind" ELSE "top") /\ k.phase = walk[w].to
          /\ k.memo = walk[w].memo /\ k.attempt = walk[w].attempt
    BY <1>2 DEF AfterCommit, Walk
  <1> HIDE DEF b, k
  <1>6. walk[w].attempt = ResumptionAttempt(hist) /\ walk[w].memo # "credential_generation"
    BY <1>1, <1>2 DEF Follows
  <1>7. Paired(hist')
    <2>1. ~SecondOf(b)
      BY <1>3 DEF SecondOf, Threads
    <2> QED  BY <1>2, <1>3, <1>4, <2>1, PairedCommit
  <1>8. ASSUME walk[w].to \in Stops PROVE Follows(w)'
    BY <1>4, <1>5, <1>8 DEF Follows, Active
  <1>9. CASE walk[w].phase = ResumptionPhase(hist) /\ Rank[walk[w].phase] < Rank[walk[w].to]
    <2>1. Further(hist, b)
      <3>1. Rank[walk[w].phase] \in Nat /\ Rank[walk[w].to] \in Nat
        BY <1>2, RankType DEF Walk
      <3> QED  BY <1>3, <1>6, <1>9, <3>1 DEF Further
    <2>2. Ordered(hist')
      BY <1>2, <1>3, <1>4, <2>1, OrderedCommit
    <2>3. ResumptionPhase(hist') = walk[w].to /\ ResumptionAttempt(hist') = walk[w].attempt
      BY <1>2, <1>3, <1>4, <1>6, <1>9, BeyondIsNew
    <2>4. Follows(w)'
      BY <1>4, <1>5, <1>6, <1>8, <2>3 DEF Follows
    <2> QED  BY <1>1, <1>2, <1>4, <1>7, <2>2, <2>4, LineKeeps
  <1>10. CASE /\ walk[w].phase = "vault_storage" /\ ResumptionPhase(hist) = "credential_validation"
              /\ Rank["credential_validation"] <= Rank[walk[w].to]
    <2>1. Further(hist, b)
      BY <1>3, <1>6, <1>10 DEF Further
    <2>2. Ordered(hist')
      BY <1>2, <1>3, <1>4, <2>1, OrderedCommit
    <2>3. walk[w].to \in Stops \cup {"credential_validation"}
      BY <1>1, <1>2, <1>10 DEF InPlace, Legal, LegalTargets, Rank, Stops, Waiting, Terminal
    <2>4. ResumptionPhase(hist') \in {"credential_validation", walk[w].to}
            /\ ResumptionAttempt(hist') = walk[w].attempt
      BY <1>2, <1>3, <1>4, <1>6, <1>10, CommitLeads
    <2>5. Follows(w)'
      BY <1>4, <1>5, <1>6, <1>8, <2>3, <2>4 DEF Follows
    <2> QED  BY <1>1, <1>2, <1>4, <1>7, <2>2, <2>5, LineKeeps
  <1>11. CASE /\ walk[w].phase = "credential_generation"
              /\ ResumptionPhase(hist) = "credential_validation"
              /\ walk[w].to \in {"vault_storage", "paused"}
              /\ Replayed(hist, Storing(walk[w].attempt, "credential_generation"))
    <2>1. CASE walk[w].to = "vault_storage"
      <3>1. Replayed(hist, b)
        BY <1>3, <1>11, <2>1 DEF Replayed, SameKey, Storing, Crossing
      <3>2. hist' = hist
        BY <1>4, <3>1 DEF CommitPhase
      <3>3. Follows(w)'
        BY <1>4, <1>5, <1>6, <1>11, <2>1, <3>2 DEF Follows, Stops, Waiting, Terminal
      <3> QED  BY <1>1, <1>2, <1>4, <3>2, <3>3, LineKeeps
    <2>2. CASE walk[w].to = "paused"
      <3>1. Further(hist, b)
        BY <1>3, <1>6, <1>11, <2>2 DEF Further, Rank
      <3>2. Ordered(hist')
        BY <1>2, <1>3, <1>4, <3>1, OrderedCommit
      <3>3. Follows(w)'
        BY <1>8, <2>2 DEF Stops, Waiting
      <3> QED  BY <1>1, <1>2, <1>4, <1>7, <3>2, <3>3, LineKeeps
    <2> QED  BY <1>11, <2>1, <2>2
  <1> QED  BY <1>1, <1>2, <1>9, <1>10, <1>11 DEF Follows

LEMMA TurnFollows ==
    ASSUME DriverInvariant, SoleInvariant, EndInvariant, LineInvariant, FirstLine, NEW w \in Workers,
           Claim(w) \/ BeforeStep(w) \/ Unwind(w) \/ Record(w) \/ Dies(w)
    PROVE  LineInvariant'
  <1>1. walk \in [Workers -> Walk] /\ walk[w] \in Walk /\ hist' = hist /\ control' = control
          /\ \A v \in Workers \ {w} : walk'[v] = walk[v]
    BY Typed DEF Claim, BeforeStep, Unwind, Record, Dies
  <1>2. Ordered(hist) /\ Paired(hist) /\ (\A v \in Workers : Follows(v)) /\ Sequential
    BY DEF LineInvariant, FirstLine
  <1>3. CASE Claim(w)
    <2>1. \A v \in Workers : AtRest(v)
      BY <1>2, <1>3 DEF SoleInvariant, AtRest, Walking, Claim, Sequential
    <2>2. walk'[w] = [Idle EXCEPT
            !.pc = IF ResumptionPhase(hist) \in Terminal THEN "unwind" ELSE "top",
            !.phase = ResumptionPhase(hist), !.attempt = ResumptionAttempt(hist),
            !.reroute = RerouteStands(hist)]
      BY <1>1, <1>3 DEF Claim
    <2>3. /\ walk'[w].pc \in {"unwind", "top"} /\ walk'[w].phase = ResumptionPhase(hist)
          /\ walk'[w].attempt = ResumptionAttempt(hist) /\ walk'[w].memo = "none"
      BY <2>2 DEF Idle
    <2>4. control'.kind = "none"
      BY <1>1, <1>2, <1>3 DEF Claim, Sequential
    <2>5. Follows(w)'
      BY <1>1, <2>3 DEF Follows
    <2> QED  BY <1>1, <1>2, <2>1, <2>4, <2>5, LineKeeps
  <1>4. CASE BeforeStep(w)
    <2>1. walk[w].pc = "top" /\ ~AtRest(w) /\ Active(w)
      BY <1>4 DEF BeforeStep, AtRest, Active
    <2>2. (\A v \in Workers \ {w} : AtRest(v)) /\ control.kind = "none"
      BY <1>2, <2>1, AtWork
    <2>3. walk'[w] = [walk[w] EXCEPT !.pc = IF owner = w THEN "drive" ELSE "unwind"]
      BY <1>1, <1>4 DEF BeforeStep
    <2>4. /\ walk'[w].pc \in {"drive", "unwind"} /\ walk'[w].phase = walk[w].phase
          /\ walk'[w].attempt = walk[w].attempt /\ walk'[w].memo = walk[w].memo
      BY <1>1, <2>3 DEF Walk
    <2>5. Follows(w)'
      BY <1>1, <1>2, <2>1, <2>4 DEF Follows, Active
    <2> QED  BY <1>1, <1>2, <2>2, <2>5, LineKeeps
  <1>5. CASE Unwind(w) \/ Record(w) \/ Dies(w)
    <2>1. walk[w].pc # "idle" /\ ~Active(w)'
      <3>1. CASE Unwind(w)
        <4>1. walk'[w] = IF walk[w].phase \in Terminal THEN [walk[w] EXCEPT !.pc = "record"] ELSE Idle
          BY <1>1, <3>1 DEF Unwind
        <4>2. walk'[w].pc \in {"record", "idle"}
          BY <1>1, <4>1 DEF Walk, Idle
        <4> QED  BY <3>1, <4>2 DEF Active, Unwind
      <3>2. CASE Record(w) \/ Dies(w)
        BY <1>1, <3>2, IdleType DEF Active, Record, Dies, Walking
      <3> QED  BY <1>5, <3>1, <3>2
    <2>2. control.kind = "none"
      BY <1>2, <2>1 DEF EndInvariant
    <2>3. \A v \in Workers : Follows(v)'
      <3>1. Follows(w)'
        BY <2>1 DEF Follows
      <3>2. ASSUME NEW v \in Workers \ {w} PROVE Follows(v)'
        BY <1>1, <1>2 DEF Follows, Active
      <3> QED  BY <3>1, <3>2
    <2> QED  BY <1>1, <1>2, <2>2, <2>3 DEF LineInvariant
  <1> QED  BY <1>3, <1>4, <1>5

LEMMA OperatorFollows ==
    ASSUME DriverInvariant, EndInvariant, LineInvariant, FirstLine, OperatorNext
    PROVE  LineInvariant'
  <1>1. UNCHANGED still /\ hist \in Seq(Boundary) /\ control \in ControlRequest
    BY ControlType DEF OperatorNext, RequestPause, RequestResume, RequestCancel, RequestReset,
      RequestRetry, Decide, Authorize, ControlRereads, ControlCommits, ControlDies
  <1>2. \A w \in Workers : walk[w].pc = "idle"
    BY DEF EndInvariant, FirstLine, Sequential, OperatorNext, RequestPause, RequestResume, RequestCancel,
      RequestReset, RequestRetry, Decide, Authorize, ControlRereads, ControlCommits, ControlDies,
      MayAct, Walking
  <1>3. Ordered(hist) /\ Paired(hist)
    BY DEF LineInvariant
  <1>4. \A w \in Workers : Follows(w)'
    BY <1>1, <1>2 DEF Follows, Active, still
  <1>5. (Forgets \/ (Spends /\ control.kind = "none")) => control'.kind = "none"
    BY <1>1 DEF Forgets, NoControl, Spends, ControlRequest
  <1> DEFINE Committing == {"commit", "resume", "cancel", "reset"}
  <1>6. CASE ControlCommits
    <2>1. hist' = CommitPhase(hist, control.plan) /\ control.plan \in Boundary
            /\ PlanShape(control.plan) /\ control.kind \in Committing
      BY <1>6, ControlType DEF ControlCommits
    <2>2. Further(hist, control.plan)
      BY <2>1 DEF LineInvariant
    <2>3. ~SecondOf(control.plan)
      BY <2>1 DEF PlanShape, SecondOf
    <2>4. Ordered(hist') /\ Paired(hist')
      BY <1>1, <1>3, <2>1, <2>2, <2>3, OrderedCommit, PairedCommit
    <2>5. control'.kind \notin Committing
      BY <1>1, <1>5, <1>6 DEF ControlCommits, ControlRequest
    <2> QED  BY <1>4, <2>4, <2>5 DEF LineInvariant
  <1>7. CASE hist' = hist
    <2>1. SUFFICES ASSUME control'.kind \in Committing PROVE Further(hist, control'.plan)
      BY <1>3, <1>4, <1>7 DEF LineInvariant
    <2>2. CASE control' = control
      BY <2>1, <2>2 DEF LineInvariant
    <2>3. ASSUME NEW to \in Phases, NEW attempt, NEW code, hist # << >>,
                 control'.plan = Crossing(Last.to, to, attempt, to, code),
                 \/ attempt > Last.attempt
                 \/ attempt = Last.attempt /\ Rank[Last.to] <= Rank[to]
          PROVE  Further(hist, control'.plan)
      <3>1. ResumptionPhase(hist) = Last.to /\ ResumptionAttempt(hist) = Last.attempt
        BY <1>1, <2>3, LastType DEF Last
      <3> QED  BY <2>3, <3>1 DEF Further, Crossing
    <2>4. hist # << >> =>
             /\ Last.attempt \in Nat /\ Last.to \in Phases /\ Last.from \in Phases
             /\ PauseCount(hist) \in Nat /\ ResetCount(hist) \in Nat
      <3>1. hist # << >> => Last \in Boundary
        BY <1>1, LastType DEF Last
      <3> QED  BY <1>1, <3>1, CountsType DEF Boundary
    <2>5. {"paused", "cancelled", "research"} \subseteq Phases
      BY PhaseNames
    <2>6. hist # << >> => Rank[Last.to] <= Rank["cancelled"]
      BY <2>4, RankType DEF Rank
    <2>7. CASE RequestPause
      <3>1. hist # << >> /\ Plans("commit", "paused", Last.attempt + PauseCount(hist), "step")
        BY <1>5, <2>1, <2>7 DEF RequestPause, MayAct
      <3>2. control'.plan = Crossing(Last.to, "paused", Last.attempt + PauseCount(hist), "paused", "step")
        BY <3>1 DEF Plans
      <3>3. Rank[Last.to] <= Rank["paused"]
        BY <2>4, <2>7, <3>1, RankType DEF RequestPause, Rank
      <3>4. Last.attempt + PauseCount(hist) > Last.attempt
              \/ Last.attempt + PauseCount(hist) = Last.attempt
        BY <2>4, <3>1
      <3> QED  BY <2>3, <2>5, <3>1, <3>2, <3>3, <3>4
    <2>8. CASE RequestResume
      <3>1. hist # << >> /\ PhaseAtPause(hist) = Last.from
              /\ Plans("resume", PhaseAtPause(hist), Last.attempt + 1, "step")
        BY <1>1, <2>8, PausedFrom DEF RequestResume, MayAct, Last
      <3>2. control'.plan = Crossing(Last.to, Last.from, Last.attempt + 1, Last.from, "step")
        BY <3>1 DEF Plans
      <3>3. Last.attempt + 1 > Last.attempt
        BY <2>4, <3>1
      <3> QED  BY <2>3, <2>4, <3>1, <3>2, <3>3
    <2>9. CASE RequestCancel
      <3>1. hist # << >>
              /\ control'.plan = Crossing(Last.to, "cancelled", Last.attempt, "cancelled", "step")
        BY <2>9 DEF RequestCancel, MayAct, Plans
      <3> QED  BY <2>3, <2>5, <2>6, <3>1
    <2>10. CASE RequestReset
      <3>1. hist # << >> /\ \E to \in {"research", "paused"} :
              control'.plan = Crossing(Last.to, to, Last.attempt + 1 + ResetCount(hist), to, "reset")
        BY <2>10 DEF RequestReset, MayAct, Plans
      <3>2. Last.attempt + 1 + ResetCount(hist) > Last.attempt
        BY <2>4, <3>1
      <3> QED  BY <2>3, <2>5, <3>1, <3>2
    <2>11. CASE RequestRetry
      <3>1. hist # << >>
              /\ control'.plan = Crossing(Last.to, Last.to, Last.attempt + 1, Last.to, "step")
        BY <2>11 DEF RequestRetry, MayAct, Plans
      <3>2. Last.attempt + 1 > Last.attempt
        BY <2>4, <3>1
      <3> QED  BY <2>3, <2>4, <3>1, <3>2
    <2>12. CASE ControlRereads
      <3>1. hist # << >>
        BY <2>12, ControlType DEF ControlRereads
      <3>2. CASE control.kind = "cancel_due"
        <4>1. control' = [control EXCEPT !.kind = "cancel",
                 !.plan = Crossing(Last.to, "cancelled", Last.attempt, "cancelled", "step")]
          BY <1>5, <2>1, <2>12, <3>2 DEF ControlRereads
        <4>2. control'.plan = Crossing(Last.to, "cancelled", Last.attempt, "cancelled", "step")
          BY <1>1, <4>1 DEF ControlRequest
        <4> QED  BY <2>3, <2>5, <2>6, <3>1, <4>2
      <3>3. CASE control.kind = "reset_due"
        <4>1. control' = [control EXCEPT !.kind = "reset",
                 !.plan = Crossing(Last.to, "research", Last.attempt + 1 + ResetCount(hist),
                                   "research", "reset")]
          BY <1>5, <2>1, <2>12, <3>3 DEF ControlRereads
        <4>2. control'.plan = Crossing(Last.to, "research", Last.attempt + 1 + ResetCount(hist),
                                       "research", "reset")
          BY <1>1, <4>1 DEF ControlRequest
        <4>3. Last.attempt + 1 + ResetCount(hist) > Last.attempt
          BY <2>4, <3>1
        <4> QED  BY <2>3, <2>5, <3>1, <4>2, <4>3
      <3> QED  BY <2>12, <3>2, <3>3 DEF ControlRereads
    <2>13. CASE Authorize \/ ControlDies \/ \E route \in {"signup", "cancelled"} : Decide(route)
      <3>1. control'.kind \in {"none", "cancel_due"}
        BY <1>1, <1>5, <2>13 DEF Authorize, ControlDies, Decide, MayAct, ControlRequest
      <3> QED  BY <2>1, <3>1
    <2>14. CASE ControlCommits
      BY <1>1, <1>5, <2>1, <2>14 DEF ControlCommits, ControlRequest
    <2> QED  BY <2>7, <2>8, <2>9, <2>10, <2>11, <2>12, <2>13, <2>14 DEF OperatorNext
  <1> QED  BY <1>6, <1>7 DEF OperatorNext, RequestPause, RequestResume, RequestCancel, RequestReset,
      RequestRetry, Decide, Authorize, ControlRereads, ControlDies

\* A generation that was given up does not come back.
LEMMA GenerationStays ==
    ASSUME DriverInvariant, counters.generation # 0, [Next]_vars
    PROVE  counters'.generation # 0
  <1>1. counters \in Counters /\ counters.generation \in Nat
    BY DEF DriverInvariant, TypeOK, Counters
  <1>2. ASSUME NEW w \in Workers, Prove(w) PROVE counters'.generation # 0
    <2> DEFINE used == counters.validation + 1
               counted == [counters EXCEPT !.validation = IF used <= ValidationBudget
                                                          THEN used ELSE @]
    <2>1. counted.generation = counters.generation
            /\ [counted EXCEPT !.generation = @ + 1].generation = counters.generation + 1
      BY <1>1 DEF Counters
    <2>2. PICK more : more = [counted EXCEPT !.generation = @ + 1]
      OBVIOUS
    <2>3. counters' = counted \/ counters' = more
      BY <1>2, <2>2 DEF Prove
    <2>4. more.generation = counters.generation + 1
      BY <2>1, <2>2
    <2>5. counted.generation = counters.generation
      BY <2>1
    <2> HIDE DEF counted
    <2>6. CASE counters' = counted
      BY <2>5, <2>6
    <2>7. CASE counters' = more
      BY <1>1, <2>4, <2>7
    <2> QED  BY <2>3, <2>6, <2>7
  <1>3. ASSUME NEW w \in Workers, Handles(w) PROVE counters'.generation # 0
    <2>1. ASSUME Light(w) PROVE counters'.generation # 0
      BY <2>1 DEF Light
    <2>2. CASE Stores(w) \/ Capture(w) \/ Validation(w)
      BY <2>2 DEF Stores, Capture, Validation, rows
    <2>3. ASSUME ~Stores(w), ~Prove(w), ~Capture(w), ~Validation(w) PROVE Light(w)
      BY <1>3, <2>3, RouteIsLight, AccountIsLight, LoopIsLight DEF Handles
    <2> QED  BY <1>2, <2>1, <2>2, <2>3
  <1>4. ASSUME NEW w \in Workers, WorkerNext(w) PROVE counters'.generation # 0
    BY <1>3, <1>4 DEF WorkerNext, Claim, BeforeStep, CommitStep, Unwind, Record, Dies, rows
  <1>5. CASE OperatorNext
    BY <1>5 DEF OperatorNext, RequestPause, RequestResume, RequestCancel, RequestReset,
      RequestRetry, Decide, Authorize, ControlRereads, ControlCommits, ControlDies, still
  <1> QED  BY <1>4, <1>5 DEF Next, vars

LEMMA LineStep ==
    ASSUME DriverInvariant, SoleInvariant, EndInvariant, LineInvariant, [Next]_vars
    PROVE  LineInvariant'
  <1>1. regime' = regime
    BY RegimeStays
  <1>2. CASE ~FirstLine
    <2>1. ~FirstLine'
      BY <1>1, <1>2, GenerationStays DEF FirstLine, Sequential
    <2> QED  BY <2>1 DEF LineInvariant
  <1>3. CASE FirstLine
    <2>1. ASSUME NEW w \in Workers, WorkerNext(w) PROVE LineInvariant'
      <3>1. CASE Handles(w)
        <4>1. ASSUME Light(w) PROVE LineInvariant'
          BY <1>3, <4>1, LightFollows
        <4> QED  BY <1>3, <3>1, <4>1, RouteIsLight, AccountIsLight, LoopIsLight, CaptureFollows,
            StoresFollows, ProveFollows, ValidationFollows DEF Handles
      <3> QED  BY <1>3, <2>1, <3>1, CommitFollows, TurnFollows DEF WorkerNext
    <2>2. CASE UNCHANGED vars
      BY <2>2 DEF vars, LineInvariant, Follows, Active, FirstLine, Sequential
    <2> QED  BY <1>3, <2>1, <2>2, OperatorFollows DEF Next
  <1> QED  BY <1>2, <1>3

LEMMA LineStart == Init => LineInvariant
  <1> SUFFICES ASSUME Init PROVE LineInvariant
    OBVIOUS
  <1>1. DOMAIN hist = {} /\ control.kind = "none" /\ \A w \in Workers : walk[w].pc = "idle"
    BY IdleType DEF Init, NoControl
  <1> QED  BY <1>1 DEF LineInvariant, Ordered, Paired, Follows, Active

LEMMA LineInvariantHolds == Spec => [](DriverInvariant /\ SoleInvariant /\ LineInvariant)
  <1>1. DriverInvariant /\ SoleInvariant /\ EndInvariant /\ LineInvariant /\ [Next]_vars
            => LineInvariant'
    BY LineStep
  <1> QED  BY <1>1, LineStart, EndInvariantHolds, PTL DEF Spec

\* Where one worker at a time walks the run and operators come between its turns, no CAPTCHA
\* pause is counted past the budget; and a run whose first credential is stored is resumed
\* at its validation.
LEMMA LineFollows ==
    /\ SoleInvariant => (Sequential => CaptchaWithinBudget)
    /\ SoleInvariant /\ LineInvariant => (Sequential => StoredIsResumedAtValidation)
  <1>1. SoleInvariant => (Sequential => CaptchaWithinBudget)
    BY DEF SoleInvariant, Sequential, CaptchaWithinBudget, Budgeted
  <1>2. SoleInvariant /\ LineInvariant => (Sequential => StoredIsResumedAtValidation)
    <2>1. SUFFICES ASSUME SoleInvariant, LineInvariant, Sequential, NEW w \in Workers,
                          walk[w].pc = "prove", walk[w].gen = 0
                   PROVE  ResumptionPhase(hist) = "credential_validation"
      BY DEF StoredIsResumedAtValidation
    <2>2. counters.generation = 0
      BY <2>1 DEF SoleInvariant, Settled, Sequential
    <2> QED  BY <2>1, <2>2 DEF LineInvariant, FirstLine, Follows, Active
  <1> QED  BY <1>1, <1>2

\* The whole of what a run driven by one worker promises, however many generations of its
\* credential it may mint: no account without a recorded agreement, no CAPTCHA past the
\* budget, the first credential resumed at its validation once it is stored, and an end
\* that is final.
THEOREM WalkIsSafe == Spec => WalkSafety
  <1>1. DriverInvariant => TypeOK
    BY DEF DriverInvariant
  <1> QED  BY <1>1, LineFollows, SignupNeedsDecision, EndInvariantHolds, EndIsFinal,
              LineInvariantHolds, PTL DEF WalkSafety
=============================================================================
