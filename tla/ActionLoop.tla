------------------------------ MODULE ActionLoop ------------------------------
(***************************************************************************)
(* One phase driven by the bounded action loop                             *)
(* (ops/onboarding/action_loop.py, run_action_loop), over the observe/act  *)
(* pair of the browser service (ServiceLoopSession, service_client,        *)
(* PlaywrightBrowserWorker._execute_candidate).                            *)
(*                                                                         *)
(* The loop looks at the page, lets a model choose one control out of the  *)
(* ones policy allows, has the browser service execute it against the page *)
(* the plan was made on, and reads the page again.  Every await has a      *)
(* deadline, and the page moves on its own between them.  A control is an  *)
(* element of Controls; its Kind is what the policies say of it.           *)
(***************************************************************************)
EXTENDS Integers, FiniteSets

CONSTANTS
    Controls,             \* candidate ids: stable for as long as the control is
    Kind,                 \* [Controls -> {"plain", "risky", "leaving", "twin"}]
    Posts,                \* postconditions of the phase goal
    Pages,                \* records [home, url, ctls, met, human]
    MaxActions, MaxModelCalls, MaxNoProgress, MaxDenials,   \* LoopBudget
    MaxDecisionFailures, MaxActionFailures,
    MaxMoves              \* bound on the moves the page makes on its own

ASSUME LoopBudgetAssumption ==
    /\ {MaxActions, MaxModelCalls, MaxNoProgress, MaxDenials,
        MaxDecisionFailures, MaxActionFailures} \subseteq Nat \ {0}
    /\ MaxModelCalls >= MaxActions
    /\ MaxMoves \in Nat

ASSUME PagesAssumption ==
    \A p \in Pages : p.ctls \subseteq Controls /\ p.met \subseteq Posts

NoControl == "-"

VARIABLES
    page,      \* what the browser shows, and how often its DOM has changed
    moves,     \* how often it has moved without the loop
    seen,      \* the last reading: the page, and the touches before it
    loop,      \* the loop's own variables
    touches,   \* actions that may have reached the page
    last       \* the DOM the last executed action was planned on, and the one it ran on

loopVars == <<page, moves, seen, loop, touches, last>>

At(p, g) == [home |-> p.home, url |-> p.url, ctls |-> p.ctls, met |-> p.met,
             human |-> p.human, gen |-> g]

Reading == [page |-> page, touch |-> touches]

LInit0 ==
    [pc |-> "first", stage |-> "observe", actions |-> 0, calls |-> 0,
     denials |-> 0, idle |-> 0, badDecisions |-> 0, badActions |-> 0,
     pending |-> NoControl, avoid |-> {}, satisfied |-> {},
     chosen |-> NoControl, outcome |-> "none", reason |-> "none"]

AInitWith(l) ==
    /\ page \in {At(p, 0) : p \in {q \in Pages : q.home}}
    /\ moves = 0
    /\ seen = [page |-> page, touch |-> 0]
    /\ loop = l
    /\ touches = 0
    /\ last = [planned |-> 0, ran |-> 0]

AInit == AInitWith(LInit0)

(***************************************************************************)
(* What policy makes of a reading                                          *)
(***************************************************************************)

Executable(r) == r.page.ctls
Autonomous(c) == Kind[c] # "risky"

\* The controls the model is shown: an avoided one only when nothing else is left.
OptionsAvoiding(r, avoid) ==
    LET allowed == {c \in Executable(r) : Autonomous(c)}
    IN  IF allowed \ avoid = {} THEN allowed ELSE allowed \ avoid
Options == OptionsAvoiding(seen, loop.avoid)

\* The first spent bound, in the order the loop checks them.
ExhaustedBound(l) ==
    CASE l.actions >= MaxActions -> "actions"
      [] l.actions < MaxActions /\ l.calls >= MaxModelCalls -> "model_calls"
      [] l.actions < MaxActions /\ l.calls < MaxModelCalls /\ l.idle >= MaxNoProgress -> "no_progress"
      [] OTHER -> "none"

Satisfied(r) == r.page.met
\* Postconditions remembered from earlier readings are not met ones.
AllMet(l, r) == Posts \subseteq Satisfied(r)

(***************************************************************************)
(* How an iteration ends                                                   *)
(***************************************************************************)

Ended(l, outcome, reason) ==
    [l EXCEPT !.pc = "done", !.outcome = outcome, !.reason = reason,
              !.chosen = NoControl]
Unknown(l) == Ended(l, "exhausted", "outcome_unknown")

\* One rung spent, and the page read again before the next iteration.
ReobserveFree(l, stage) ==
    [l EXCEPT !.pc = "reobserve", !.stage = stage, !.chosen = NoControl]
Reobserve(l, stage) ==
    [l EXCEPT !.idle = @ + 1, !.pc = "reobserve", !.stage = stage,
              !.chosen = NoControl]

Gated(l) == Ended(l, "gate", "candidate_risk_requires_human")

\* The containment clauses: an await that timed out, and one that raised.
TimedOutForgiving(l) ==
    IF l.stage = "act" THEN Unknown(l)
    ELSE [l EXCEPT !.idle = @ + 1, !.pc = "top", !.chosen = NoControl]
TimedOut(l) ==
    IF l.stage \in {"act", "verify"} THEN Unknown(l)
    ELSE [l EXCEPT !.idle = @ + 1, !.pc = "top", !.chosen = NoControl]

Raised(l) ==
    IF l.stage \in {"act", "verify"} THEN Unknown(l)
    ELSE LET m == [l EXCEPT !.idle = @ + 1, !.badActions = @ + 1, !.pc = "top",
                            !.chosen = NoControl]
         IN  IF m.badActions >= MaxActionFailures THEN Unknown(m) ELSE m

Denied(l) ==
    LET m == [l EXCEPT !.denials = @ + 1]
    IN  IF m.denials >= MaxDenials THEN Ended(m, "denied_fatal", "host_denied")
        ELSE Reobserve(m, "act")

\* What stands between a chosen control and the live click.
Proceed(l, c) ==
    CASE ~Autonomous(c) -> Gated(l)
      [] Autonomous(c) /\ Kind[c] = "twin" -> Reobserve(l, "decide")
      [] Autonomous(c) /\ Kind[c] = "leaving" -> Denied(l)
      [] OTHER -> [l EXCEPT !.chosen = c, !.pc = "act", !.stage = "act"]

(***************************************************************************)
(* Steps of the loop                                                       *)
(***************************************************************************)

LoopOnly == UNCHANGED <<page, moves, seen, touches, last>>

FirstObserve ==
    /\ loop.pc = "first"
    /\ UNCHANGED <<page, moves, touches, last>>
    /\ \/ loop' = [loop EXCEPT !.pc = "top"] /\ seen' = Reading
       \/ loop' = Unknown(loop) /\ UNCHANGED seen

\* Budgets first, then where the browser really is.
CheckBounds ==
    /\ loop.pc = "top"
    /\ LoopOnly
    /\ LET bound == ExhaustedBound(loop)
       IN  \/ bound # "none" /\ loop' = Ended(loop, "exhausted", bound)
           \/ bound = "none" /\ loop' = Ended(loop, "exhausted", "wallclock")
           \/ /\ bound = "none"
              /\ loop' = IF seen.page.home
                         THEN [loop EXCEPT !.pc = "plan", !.stage = "candidates"]
                         ELSE Ended([loop EXCEPT !.denials = @ + 1],
                                    "denied_fatal", "host_denied")

\* Candidates, the risk filter, the avoid list and the retained intent.
Plan ==
    /\ loop.pc = "plan"
    /\ LoopOnly
    /\ loop' = CASE Executable(seen) = {} -> Reobserve(loop, "candidates")
                 [] Executable(seen) # {} /\ Options = {} -> Gated(loop)
                 [] loop.pending \in Options ->
                        Proceed([loop EXCEPT !.pending = NoControl], loop.pending)
                 [] OTHER -> [loop EXCEPT !.pc = "decide", !.stage = "decide",
                                          !.pending = NoControl]

\* The prompt tripped the screen, so nothing was asked.
ScreenRefuses ==
    /\ loop.pc = "decide"
    /\ LoopOnly
    /\ loop' = Reobserve(loop, "decide")

DecisionFails ==
    /\ loop.pc = "decide"
    /\ LoopOnly
    /\ LET l == [loop EXCEPT !.badDecisions = @ + 1, !.idle = @ + 1, !.pc = "top"]
       IN  loop' = IF l.badDecisions >= MaxDecisionFailures
                   THEN Ended(l, "raised", "decision_failed") ELSE l

DecisionBreaks ==
    /\ loop.pc = "decide"
    /\ LoopOnly
    /\ loop' \in {TimedOut(loop), Raised(loop)}

ModelAnswers ==
    /\ loop.pc = "decide"
    /\ LoopOnly
    /\ LET l == [loop EXCEPT !.calls = @ + 1, !.badDecisions = 0]
       IN  loop' \in {Reobserve(l, "decide"), Gated(l),
                      Ended(l, "exhausted", "decision_unusable")}
                     \cup {Proceed(l, c) : c \in Options}

Reobserved ==
    /\ loop.pc = "reobserve"
    /\ UNCHANGED <<page, moves, touches, last>>
    /\ \/ loop' = [loop EXCEPT !.pc = "top", !.stage = "observe"] /\ seen' = Reading
       \/ loop' \in {TimedOut(loop), Raised(loop)} /\ UNCHANGED seen

(***************************************************************************)
(* The act call: what the service does, and what the loop makes of it      *)
(***************************************************************************)

\* The service acts when the page is on the list, at the URL the plan quoted,
\* and holds the control.  The quoted generation counts readings and is not compared.
OnPlannedPage == page.home /\ page.url = seen.page.url /\ loop.chosen \in page.ctls

\* The page after an action of ours.
Touched ==
    /\ \E p \in Pages : page' = At(p, page.gen + 1)
    /\ touches' = touches + 1

Avoiding(l) == [l EXCEPT !.avoid = @ \cup {l.chosen}]

ActIsStale ==
    /\ loop.pc = "act" /\ page.home /\ ~OnPlannedPage
    /\ LoopOnly
    /\ loop' = [Reobserve(loop, "act") EXCEPT !.pending = loop.chosen]

\* Policy refused, or the service answered with an HTTP error; a gateway timeout
\* is one of those, and it does not stop the action it waited for.
ActIsBlocked ==
    /\ loop.pc = "act"
    /\ \/ UNCHANGED <<page, touches>>
       \/ OnPlannedPage /\ Touched
    /\ loop' = Denied(Avoiding(loop))
    /\ UNCHANGED <<moves, seen, last>>

\* A typed failure, a transport that did not answer, an action timeout: the page
\* may or may not have been touched.
ActFails ==
    /\ loop.pc = "act"
    /\ \/ UNCHANGED <<page, touches>>
       \/ OnPlannedPage /\ Touched
    /\ LET l == [Avoiding(loop) EXCEPT !.badActions = @ + 1]
       IN  loop' = IF l.badActions >= MaxActionFailures
                   THEN Ended([l EXCEPT !.idle = @ + 1], "exhausted", "action_failed")
                   ELSE Reobserve(l, "act")
    /\ UNCHANGED <<moves, seen, last>>

\* The deadline passed, or the adapter raised: the phase ends on the spot.
ActBreaks ==
    /\ loop.pc = "act"
    /\ \/ UNCHANGED <<page, touches>>
       \/ OnPlannedPage /\ Touched
    /\ loop' \in {TimedOut(loop), Raised(loop)}
    /\ UNCHANGED <<moves, seen, last>>

ActExecuted ==
    /\ loop.pc = "act" /\ OnPlannedPage
    /\ Touched
    /\ last' = [planned |-> seen.page.gen, ran |-> page.gen]
    /\ loop' = [loop EXCEPT !.badActions = 0, !.avoid = @ \ {loop.chosen},
                            !.actions = @ + 1, !.pc = "verify", !.stage = "verify",
                            !.chosen = NoControl]
    /\ UNCHANGED <<moves, seen>>

Verify ==
    /\ loop.pc = "verify"
    /\ UNCHANGED <<page, moves, touches, last>>
    /\ \/ /\ seen' = Reading
          /\ loop' = CASE AllMet(loop, Reading) -> Ended(loop, "done", "success")
                       [] ~AllMet(loop, Reading) /\ page.human ->
                              Ended(loop, "gate", "page_gate")
                       [] OTHER ->
                              [loop EXCEPT !.idle = IF Satisfied(Reading) \subseteq loop.satisfied
                                                    THEN @ + 1 ELSE 0,
                                           !.satisfied = Satisfied(Reading),
                                           !.pc = "top", !.stage = "observe"]
       \/ loop' \in {TimedOut(loop), Raised(loop)} /\ UNCHANGED seen

\* The page re-renders or redirects by itself.
PageMoves ==
    /\ moves < MaxMoves /\ loop.pc # "done"
    /\ moves' = moves + 1
    /\ \E p \in Pages : page' = At(p, page.gen + 1)
    /\ UNCHANGED <<seen, loop, touches, last>>

LoopStep ==
    \/ FirstObserve \/ CheckBounds \/ Plan
    \/ ScreenRefuses \/ DecisionFails \/ DecisionBreaks \/ ModelAnswers
    \/ Reobserved
    \/ ActIsStale \/ ActIsBlocked \/ ActFails \/ ActBreaks \/ ActExecuted
    \/ Verify

ANext == LoopStep \/ PageMoves

\* Every await of the loop has a deadline (StepDeadlines), so it goes on.
AFairness == WF_loopVars(LoopStep)
ASpec == AInit /\ [][ANext]_loopVars /\ AFairness

(***************************************************************************)
(* Properties                                                              *)
(***************************************************************************)

ATypeOK ==
    /\ At(page, 0) \in {At(p, 0) : p \in Pages} /\ page.gen \in Nat
    /\ moves \in 0..MaxMoves
    /\ seen.touch \in Nat
    /\ loop.pc \in {"first", "top", "plan", "decide", "reobserve", "act", "verify", "done"}
    /\ loop.actions \in 0..MaxActions /\ loop.calls \in 0..MaxModelCalls
    /\ loop.denials \in 0..MaxDenials
    /\ loop.badDecisions \in 0..MaxDecisionFailures
    /\ loop.badActions \in 0..MaxActionFailures
    /\ loop.avoid \subseteq Controls /\ loop.satisfied \subseteq Posts
    /\ loop.chosen \in Controls \cup {NoControl}
    /\ loop.pending \in Controls \cup {NoControl}
    /\ (loop.outcome # "none") <=> (loop.pc = "done")

\* The loop acts only on a plan made from a reading taken after everything it
\* may have done to the page: an action that ran, failed or was lost is followed
\* by a successful reading or by the end of the phase, never by another click.
NoBlindClick == loop.pc = "act" => seen.touch = touches

\* done is only reported when the last reading, taken after the last action,
\* shows every postcondition at once; postconditions that held on different
\* readings do not add up to success.
DoneMeansMet ==
    loop.outcome = "done" => seen.touch = touches /\ Posts \subseteq seen.page.met

\* The phase always ends: flapping postconditions, stale clicks, refused prompts
\* and re-rendered pages all spend something that runs out.
PhaseEnds == <>(loop.pc = "done")

\* An action runs on the page it was planned on: between the reading and the
\* execution the DOM did not change.
ActsOnPlannedPage == last.planned = last.ran
===============================================================================
