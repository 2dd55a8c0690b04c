------------------------------- MODULE TraceLoop -------------------------------
(***************************************************************************)
(* The closed loop the browser service runs for one navigate or resume     *)
(* (ops/playwright/worker.py: navigate_onboarding, resume_after_hitl,      *)
(* _drive_action_loop), with the deterministic sign-in in front of it      *)
(* (ops/browser/login.py).                                                 *)
(*                                                                         *)
(* A drive types the owner's secrets by code, then walks the checkpoints   *)
(* of a reviewed trace until the credential page is proven, a human is     *)
(* needed, or a bound is spent.  A human answers, and the next drive goes  *)
(* on in the same browser session.  A screen is what the inspections can   *)
(* tell of a page.                                                         *)
(***************************************************************************)
EXTENDS Integers, FiniteSets

CONSTANTS
    Screens,       \* records [id, login, challenge, gate, proves, goal, capture, home]
    Checkpoints,   \* how many checkpoints the trace has
    Creation,      \* the checkpoints with reviewed credential-creation controls
    Unprovable,    \* the checkpoints a legacy trace marks as requiring a human
    MaxSteps, MaxRepeated, MaxModelFails, MaxActFails, MaxHandoffs,
    MaxDrives, MaxShifts    \* bounds on drives and on screens that change by themselves

TraceAssumption ==
    /\ {Checkpoints, MaxSteps, MaxRepeated, MaxHandoffs, MaxShifts} \subseteq Nat
    /\ {MaxModelFails, MaxActFails, MaxDrives} \subseteq Nat \ {0}

VARIABLES
    screen,    \* what the page is
    shifts,    \* how often it has changed by itself
    browser,   \* the worker's session record
    drive,     \* the drive under way
    drives,    \* drives begun
    report,    \* the observation the last drive returned
    proven     \* checkpoints some inspected screen proved

traceVars == <<screen, shifts, browser, drive, drives, report, proven>>

Forms == {"form"}                       \* email, password, or both
Gates == {"otp"}                        \* a code, a magic link, an account chooser

Resting ==
    [pc |-> "rest", secrets |-> "none", resume |-> FALSE, create |-> FALSE,
     steps |-> 0, repeated |-> [s \in Screens |-> 0], modelFails |-> 0,
     actFails |-> 0, at |-> CHOOSE s \in Screens : TRUE, moved |-> FALSE]

TInit ==
    /\ screen \in Screens
    /\ shifts = 0
    /\ browser = [cp |-> 1, handoffs |-> 0, probed |-> FALSE, retried |-> FALSE,
                  dark |-> FALSE, typed |-> 0]
    /\ drive = Resting
    /\ drives = 0
    /\ report = "none"
    /\ proven = {}

(***************************************************************************)
(* How a drive ends                                                        *)
(***************************************************************************)

Rests(status) ==
    /\ drive' = Resting
    /\ report' = status
    /\ UNCHANGED <<shifts, drives>>

Ends(status) == Rests(status) /\ UNCHANGED <<browser, proven>>

\* At most two login pauses in one session; after that the drive fails.
BoundedLoginHandoff(b) ==
    /\ Rests(IF b.handoffs >= MaxHandoffs THEN "failed" ELSE "human")
    /\ browser' = IF b.handoffs >= MaxHandoffs THEN b
                  ELSE [b EXCEPT !.handoffs = @ + 1]

ProvesGoal ==
    /\ Rests("ready")
    /\ browser' = [browser EXCEPT !.dark = TRUE]

\* What a login inspection says by itself: an end, a pause, or nothing.
LoginVerdict(login, hadCredentials) ==
    CASE login = "bad" -> "failed"
      [] login \in Gates -> "handoff"
      [] login \in Forms /\ hadCredentials -> "failed"
      [] OTHER -> "none"

Answers(verdict, b) ==
    \/ verdict = "failed" /\ Rests("failed") /\ browser' = b
    \/ verdict = "handoff" /\ BoundedLoginHandoff(b)

Goes(pc) ==
    /\ drive' = [drive EXCEPT !.pc = pc]
    /\ UNCHANGED <<shifts, drives, report, proven>>

(***************************************************************************)
(* Beginning a drive                                                       *)
(***************************************************************************)

\* The first drive opens the reviewed target; it is blocked when that fails.
NavigateOnboarding ==
    /\ drive.pc = "rest" /\ drives = 0
    /\ drives' = 1
    /\ screen' \in Screens
    /\ \/ report' = "blocked" /\ UNCHANGED drive
       \/ \E secrets \in {"none", "pair"}, create \in BOOLEAN :
             /\ drive' = [Resting EXCEPT !.pc = IF secrets = "none" THEN "loop" ELSE "inject",
                                         !.secrets = secrets, !.create = create]
             /\ UNCHANGED report
    /\ UNCHANGED <<shifts, browser, proven>>

\* A human answered; the same session goes on where it is.
ResumeAfterHitl ==
    /\ drive.pc = "rest" /\ report = "human" /\ drives < MaxDrives
    /\ drives' = drives + 1
    /\ \E secrets \in {"none", "pair", "code"}, create \in BOOLEAN :
          drive' = [Resting EXCEPT !.pc = IF secrets = "none" THEN "resumed" ELSE "inject",
                                   !.secrets = secrets, !.resume = TRUE, !.create = create]
    /\ UNCHANGED <<screen, shifts, browser, report, proven>>

\* The owner cancels, or acts in the live browser while nothing drives it.
HumanActs ==
    /\ drive.pc = "rest" /\ report = "human"
    /\ screen' \in Screens
    /\ UNCHANGED <<shifts, browser, drive, drives, report, proven>>

(***************************************************************************)
(* The deterministic sign-in                                               *)
(***************************************************************************)

\* A code goes only into a proven code surface, a pair only into a login form.
ApplyResumeSecrets(login) ==
    login \in (IF drive.secrets = "code" THEN Gates ELSE Forms)

\* A pair that leaves no login surface behind may have met a visible challenge.
InspectAfterLoginSubmit(b) ==
    /\ screen'.login = "none"
    /\ IF screen'.challenge /\ drive.secrets = "pair"
       THEN BoundedLoginHandoff(b)
       ELSE Goes("target") /\ browser' = b

\* The provider answers what was typed with some screen.
InjectCredentials ==
    /\ drive.pc = "inject"
    /\ UNCHANGED proven
    /\ LET typed == [browser EXCEPT !.typed = @ + 1]
       IN
       \/ /\ ApplyResumeSecrets(screen.login)
          /\ screen' \in Screens
          /\ \/ InspectAfterLoginSubmit(typed)
             \/ Answers(LoginVerdict(screen'.login, TRUE), typed)
             \/ screen' = screen /\ BoundedLoginHandoff(typed)
       \/ /\ ~ApplyResumeSecrets(screen.login)
          /\ UNCHANGED screen
          /\ \/ drive.secrets = "code" /\ BoundedLoginHandoff(browser)
             \/ drive.secrets = "pair" /\ Answers(LoginVerdict(screen.login, TRUE), browser)
             \/ /\ drive.secrets = "pair" /\ screen.login = "none"
                /\ Goes("target") /\ UNCHANGED browser

\* A field that would not fill, a form or frame nobody reviewed, or a step that
\* raised: the last one falls through into the loop with the secrets still held.
InjectionStops ==
    /\ drive.pc = "inject"
    /\ UNCHANGED <<screen, proven>>
    /\ \/ BoundedLoginHandoff(browser)
       \/ Rests("failed") /\ UNCHANGED browser
       \/ Goes("loop") /\ UNCHANGED browser

\* No login surface: probe the reviewed target, once in a session.
ProbeTarget ==
    /\ drive.pc = "target"
    /\ \/ screen.goal /\ Goes("disposition") /\ UNCHANGED <<screen, browser>>
       \/ ~screen.goal /\ Rests("failed") /\ UNCHANGED <<screen, proven>>
          /\ browser' = [browser EXCEPT !.probed = TRUE]
       \/ /\ ~screen.goal /\ ~browser.probed
          /\ browser' = [browser EXCEPT !.probed = TRUE]
          /\ screen' \in Screens
          /\ Goes("disposition")

\* What a screen says of the login once no secret is in hand: proven, a wall, or
\* nothing to say.
Wall ==
    \/ ~screen.home /\ Rests("blocked") /\ UNCHANGED browser
    \/ screen.home /\ screen.goal /\ ProvesGoal
    \/ screen.home /\ ~screen.goal /\
         \/ Answers(LoginVerdict(screen.login, FALSE), browser)
         \/ /\ LoginVerdict(screen.login, FALSE) = "none"
            /\ \/ screen.challenge /\ BoundedLoginHandoff(browser)
               \/ ~screen.challenge /\ screen.login \in Forms
                    /\ (BoundedLoginHandoff(browser) \/ (Rests("failed") /\ UNCHANGED browser))
Clear == screen.home /\ ~screen.goal /\ screen.login = "none" /\ ~screen.challenge

LoginDispositionAfterTarget ==
    /\ drive.pc = "disposition"
    /\ UNCHANGED <<screen, proven>>
    /\ \/ Wall
       \/ Clear /\ Goes("loop") /\ UNCHANGED browser

\* After a human: the wall is re-read, then the target opened once in a session.
ResumeLoginAfterHitl ==
    /\ drive.pc = "resumed"
    /\ UNCHANGED proven
    /\ \/ Wall /\ UNCHANGED screen
       \/ Clear /\ browser.retried /\ Goes("disposition") /\ UNCHANGED <<screen, browser>>
       \/ /\ Clear /\ ~browser.retried
          /\ browser' = [browser EXCEPT !.retried = TRUE]
          /\ \/ Rests("failed") /\ UNCHANGED screen
             \/ Goes("disposition") /\ screen' \in Screens

(***************************************************************************)
(* One step of the loop                                                    *)
(***************************************************************************)

Proves(s, cp) == cp \in s.proves /\ cp \notin Creation

\* The first checkpoint from cp on that the screen does not prove.
Reached(s, cp) ==
    CHOOSE k \in cp..(Checkpoints + 1) :
        /\ \A j \in cp..(k - 1) : Proves(s, j)
        /\ k = Checkpoints + 1 \/ ~Proves(s, k)

\* The counters live as long as the drive.
Stepped ==
    [drive EXCEPT !.pc = "gates", !.steps = @ + 1, !.at = screen, !.moved = FALSE]

Inspect ==
    /\ drive.pc = "loop"
    /\ UNCHANGED screen
    /\ \/ drive.steps >= MaxSteps /\ Ends("human")
       \/ drive.steps < MaxSteps /\ Ends("failed")           \* the deadline passed
       \/ /\ drive.steps < MaxSteps
          /\ \/ ~screen.home /\ Ends("blocked")
             \/ /\ screen.home /\ screen.goal
                /\ (~drive.create \/ Creation = {} \/ screen.capture)
                /\ ProvesGoal /\ UNCHANGED proven
             \/ /\ screen.home
                /\ (~screen.goal \/ (drive.create /\ Creation # {} /\ ~screen.capture))
                /\ drive' = Stepped
                /\ UNCHANGED <<shifts, browser, drives, report, proven>>

\* The live page is asked for a login wall again, unless secrets are in hand.
WallInLoop == drive.secrets = "none" /\ (screen.login # "none" \/ screen.challenge)

NeedsHuman(cp) ==
    cp \in Unprovable /\ ~(cp \in Creation /\ drive.create)

CheckGates ==
    /\ drive.pc = "gates"
    /\ UNCHANGED screen
    /\ LET cp == Reached(drive.at, browser.cp)
           again == drive.repeated[drive.at] + 1
       IN
       \/ /\ WallInLoop /\ UNCHANGED proven
          /\ \/ screen.login = "bad" /\ Rests("failed") /\ UNCHANGED browser
             \/ screen.login # "bad" /\ BoundedLoginHandoff(browser)
             \/ screen.login = "none" /\ Rests("human") /\ UNCHANGED browser
       \/ ~WallInLoop /\ drive.at.gate /\ Ends("human")
       \/ ~WallInLoop /\ ~drive.at.gate /\ again > MaxRepeated /\ Ends("human")
       \/ /\ ~WallInLoop /\ ~drive.at.gate /\ again <= MaxRepeated
          /\ browser' = [browser EXCEPT !.cp = cp]
          /\ proven' = proven \cup {k \in 1..Checkpoints : Proves(drive.at, k)}
          /\ \/ /\ (cp > Checkpoints \/ NeedsHuman(cp))
                /\ drive' = Resting /\ report' = "human"
             \/ /\ cp <= Checkpoints /\ ~NeedsHuman(cp)
                /\ drive' = [drive EXCEPT !.pc = "choose", !.repeated[drive.at] = again]
                /\ UNCHANGED report
          /\ UNCHANGED <<shifts, drives>>

\* A control found deterministically or by the model; no control, a refusing
\* model or a risk verdict hands over; a failing model is asked twice.
ChooseCandidate ==
    /\ drive.pc = "choose"
    /\ UNCHANGED screen
    /\ \/ Goes("execute") /\ UNCHANGED browser
       \/ Ends("human")
       \/ /\ drive.modelFails + 1 < MaxModelFails
          /\ drive' = [drive EXCEPT !.pc = "loop", !.modelFails = @ + 1]
          /\ UNCHANGED <<shifts, browser, drives, report, proven>>

ActFailed ==
    IF drive.actFails + 1 >= MaxActFails THEN Ends("failed")
    ELSE /\ drive' = [drive EXCEPT !.pc = "loop", !.actFails = @ + 1]
         /\ UNCHANGED <<shifts, browser, drives, report, proven>>

ExecuteCandidate ==
    /\ drive.pc = "execute"
    /\ \/ Ends("blocked") /\ UNCHANGED screen
       \/ ActFailed /\ screen' \in Screens
       \/ Goes("loop") /\ UNCHANGED <<screen, browser>>           \* stale
       \/ Goes("after") /\ screen' \in Screens /\ UNCHANGED browser

\* The checkpoint advances only on what a fresh inspection proves.
VerifyTransitionOnClick ==
    /\ drive.pc = "after"
    /\ UNCHANGED <<screen, shifts, drives, report, proven>>
    /\ browser' = [browser EXCEPT !.cp = @ + 1]
    /\ drive' = [drive EXCEPT !.pc = "loop"]
VerifyTransition ==
    /\ drive.pc = "after"
    /\ UNCHANGED screen
    /\ \/ ~screen.home /\ Ends("blocked")
       \/ screen.home /\ Ends("human")                           \* a dialog or download
       \/ /\ screen.home /\ Proves(screen, browser.cp)
          /\ browser' = [browser EXCEPT !.cp = @ + 1]
          /\ proven' = proven \cup {browser.cp}
          /\ drive' = [drive EXCEPT !.pc = "loop"]
          /\ UNCHANGED <<shifts, drives, report>>
       \/ /\ screen.home /\ ~Proves(screen, browser.cp)
          /\ IF screen = drive.at THEN ActFailed
             ELSE Goes("loop") /\ UNCHANGED browser

\* The page changes by itself under a drive.
ScreenShifts ==
    /\ drive.pc # "rest" /\ shifts < MaxShifts
    /\ shifts' = shifts + 1
    /\ screen' \in Screens \ {screen}
    /\ drive' = [drive EXCEPT !.moved = TRUE]
    /\ UNCHANGED <<browser, drives, report, proven>>

DriveStep ==
    \/ InjectCredentials \/ InjectionStops \/ ProbeTarget
    \/ LoginDispositionAfterTarget \/ ResumeLoginAfterHitl
    \/ Inspect \/ CheckGates \/ ChooseCandidate \/ ExecuteCandidate \/ VerifyTransition

TNext == DriveStep \/ NavigateOnboarding \/ ResumeAfterHitl \/ HumanActs \/ ScreenShifts

\* Every browser operation has a timeout, so a drive keeps moving.
TFairness == WF_traceVars(DriveStep)
TSpec == TInit /\ [][TNext]_traceVars /\ TFairness

(***************************************************************************)
(* Properties                                                              *)
(***************************************************************************)

TTypeOK ==
    /\ screen \in Screens /\ shifts \in 0..MaxShifts
    /\ browser.cp \in 1..(Checkpoints + 1)
    /\ browser.handoffs \in 0..MaxHandoffs
    /\ {browser.probed, browser.retried, browser.dark} \subseteq BOOLEAN
    /\ browser.typed \in 0..MaxDrives
    /\ drive.pc \in {"rest", "inject", "target", "disposition", "resumed", "loop",
                     "gates", "choose", "execute", "after"}
    /\ drive.steps \in 0..MaxSteps /\ drive.actFails \in 0..(MaxActFails - 1)
    /\ drive.modelFails \in 0..(MaxModelFails - 1)
    /\ report \in {"none", "human", "failed", "blocked", "ready"}

\* The trace position never runs ahead of the evidence: every checkpoint behind
\* it was proven by an inspected screen of this session, whatever was clicked,
\* redirected or done by a human in between.
CheckpointsAreProven == 1..(browser.cp - 1) \subseteq proven

\* A drive without secrets never plans a click on a sign-in screen: on a first or
\* a resumed pass, a redirect back to the login wall is a gate, not a page to
\* interpret (unless the page changed after it was inspected).
PlansOffTheWall ==
    drive.pc = "choose" /\ drive.secrets = "none" /\ ~drive.moved => drive.at.login = "none"

\* Every drive returns: no screen, model or provider keeps it busy for ever.
DriveEnds == [](drive.pc # "rest" => <>(drive.pc = "rest"))

\* The checkpoint matcher is never asked to interpret a login page.
MatcherNeverSeesLogin == drive.pc = "choose" => drive.at.login = "none"
===============================================================================
