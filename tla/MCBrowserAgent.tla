--------------------------- MODULE MCBrowserAgent ---------------------------
(***************************************************************************)
(* What acts on a vendor's page, in one model: the onboarding action loop, *)
(* the rounds it is made of, the worker's drive of a reviewed trace, and    *)
(* the signup form.  A behaviour is one of them; a loop at rest has ended, *)
(* the others at rest have not begun.                                      *)
(***************************************************************************)
EXTENDS ActionLoop, TLC

CONSTANTS
    Screens, Checkpoints, Creation, Unprovable, MaxSteps, MaxRepeated, MaxModelFails,
    MaxActFails, MaxHandoffs, MaxDrives, MaxShifts,
    Sheets, EntryPaths, Policies, Handoff, MaxPauses, MaxSignups,
    Markup, Views, Signals, FinalWords, SecretWords, Refs, Approved, GotoUrls,
    MaxCandidates, MaxRefs, MaxValues, MaxPerKind

VARIABLES
    part,
    screen, shifts, browser, drive, drives, report, proven,
    sheet, form, call, calls, tally, policy, answer,
    view, reading, pc, chosen, acted, verdict, drift, ways

traced == <<screen, shifts, browser, drive, drives, report, proven>>
signed == <<sheet, form, call, calls, tally, policy, answer>>
offered == <<view, reading, pc, chosen, acted, verdict, drift, ways>>

MCKind == [c \in Controls |-> CASE c = "r" -> "risky" [] c = "l" -> "leaving"
                                [] c = "t" -> "twin" [] OTHER -> "plain"]

Page(home, url, ctls, met, human) ==
    [home |-> home, url |-> url, ctls |-> ctls, met |-> met, human |-> human]

MCPages ==
    {Page(TRUE, "u", {"a", "b", "r"}, {}, FALSE), Page(TRUE, "u", {"a"}, {"p"}, FALSE),
     Page(TRUE, "v", {"l", "t"}, {"q"}, TRUE), Page(TRUE, "u", {}, {"p", "q"}, FALSE),
     Page(TRUE, "v", {"r"}, {}, FALSE), Page(FALSE, "w", {"a"}, {}, FALSE)}

Screen(id, login, challenge, gate, proves, goal, capture, home) ==
    [id |-> id, login |-> login, challenge |-> challenge, gate |-> gate,
     proves |-> proves, goal |-> goal, capture |-> capture, home |-> home]

MCScreens ==
    {Screen(1, "form", FALSE, FALSE, {}, FALSE, FALSE, TRUE),
     Screen(2, "otp", FALSE, FALSE, {}, FALSE, FALSE, TRUE),
     Screen(3, "none", FALSE, FALSE, {1}, FALSE, FALSE, TRUE),
     Screen(4, "none", TRUE, FALSE, {}, FALSE, FALSE, TRUE),
     Screen(5, "none", FALSE, FALSE, {1, 2}, TRUE, FALSE, TRUE),
     Screen(6, "none", FALSE, FALSE, {1, 2}, TRUE, TRUE, TRUE),
     Screen(7, "bad", FALSE, TRUE, {}, FALSE, FALSE, FALSE)}

Sheet(path, surface, challenge, gate, box, legal, submit, own, idp, safe) ==
    [path |-> path, surface |-> surface, challenge |-> challenge, gate |-> gate,
     box |-> box, legal |-> legal, submit |-> submit, own |-> own, idp |-> idp, safe |-> safe]

MCSheets ==
    {Sheet(1, "email", FALSE, "none", FALSE, FALSE, "unique", "unique", TRUE, TRUE),
     Sheet(1, "pair", FALSE, "none", FALSE, TRUE, "unique", "unique", FALSE, TRUE),
     Sheet(1, "pair", FALSE, "none", TRUE, FALSE, "ambiguous", "unique", FALSE, TRUE),
     Sheet(1, "pair", TRUE, "none", FALSE, TRUE, "unique", "unique", FALSE, TRUE),
     Sheet(1, "none", FALSE, "none", FALSE, FALSE, "missing", "missing", TRUE, TRUE),
     Sheet(1, "email", FALSE, "none", FALSE, FALSE, "missing", "unique", TRUE, TRUE),
     Sheet(1, "email", FALSE, "none", FALSE, FALSE, "ambiguous", "ambiguous", FALSE, TRUE),
     Sheet(1, "pair", FALSE, "none", FALSE, FALSE, "missing", "missing", TRUE, TRUE),
     Sheet(1, "many", FALSE, "none", FALSE, FALSE, "missing", "missing", FALSE, TRUE),
     Sheet(2, "password", FALSE, "none", TRUE, FALSE, "unique", "unique", FALSE, TRUE),
     Sheet(2, "none", FALSE, "otp", FALSE, FALSE, "missing", "missing", FALSE, TRUE),
     Sheet(2, "many", FALSE, "billing", FALSE, FALSE, "ambiguous", "ambiguous", FALSE, FALSE),
     Sheet(2, "password", FALSE, "billing", FALSE, TRUE, "ambiguous", "ambiguous", FALSE, TRUE),
     Sheet(2, "password", TRUE, "none", FALSE, FALSE, "missing", "missing", FALSE, TRUE),
     Sheet(2, "password", FALSE, "none", FALSE, FALSE, "missing", "missing", FALSE, TRUE),
     Sheet(3, "none", FALSE, "none", FALSE, FALSE, "missing", "missing", FALSE, TRUE)}

Element(role, type, words, tid, href, head) ==
    [role |-> role, type |-> type, words |-> words, frame |-> "top", tid |-> tid,
     href |-> href, head |-> head]

MCMarkup ==
    <<Element("input", "text", {"name"}, "none", "none", "form"),
      Element("input", "email", {"email"}, "none", "none", "none"),
      Element("input", "tel", {"phone"}, "none", "none", "none"),
      Element("input", "password", {"name", "again"}, "none", "none", "form"),
      Element("select", "select", {"region"}, "none", "none", "none"),
      Element("input", "checkbox", {"agree"}, "none", "none", "none"),
      Element("button", "button", {"create"}, "none", "none", "keys"),
      Element("button", "button", {"create", "delete"}, "none", "none", "keys"),
      Element("button", "button", {"create"}, "t1", "none", "keys"),
      Element("link", "a", {"docs"}, "none", "/docs", "none")>>

View(url, home, shown, live) == [url |-> url, home |-> home, shown |-> shown, live |-> live]

\* A form larger than the budget, the same page with look-alikes in place of some of its
\* controls, one where a twin appears, one with a person's choice only, and two others.
MCViews ==
    {View("u", TRUE, {1, 2, 3, 5, 6, 7}, {1, 2, 3, 5, 6, 7}),
     View("u", TRUE, {2, 3, 4, 6, 8}, {2, 3, 4, 6, 8}),
     View("u", TRUE, {1, 7, 9, 10}, {1, 9, 10}),
     View("u", TRUE, {8}, {8}),
     View("v", TRUE, {5, 7, 10}, {5, 7, 10}),
     View("w", FALSE, {2}, {2})}

MCRefs == <<"r1", "other", "r2", "r3">>
MCGotoUrls == <<"v", "u">>

\* The elements of the site's pages, in the order of its markup.
Elements == Markup

T == INSTANCE TraceLoop
F == INSTANCE SignupForm WITH Pages <- Sheets, MaxHandoffs <- MaxPauses
C == INSTANCE ActionCandidates

ASSUME BrowserAgentAssumption ==
    T!TraceAssumption /\ F!SignupAssumption /\ C!CandidatesAssumption

MCInit ==
    /\ part \in {"loop", "round", "trace", "signup"}
    /\ AInitWith(IF part = "loop" THEN LInit0
                 ELSE [LInit0 EXCEPT !.pc = "done", !.outcome = "exhausted"])
    /\ part # "loop" => page = At(CHOOSE p \in Pages : p.home, 0)
    /\ T!TInit /\ (part # "trace" => screen = CHOOSE s \in Screens : TRUE)
    /\ F!FInit
    /\ part # "signup" => /\ policy = CHOOSE q \in Policies : TRUE
                          /\ sheet.page = CHOOSE p \in Sheets : p.path \in EntryPaths
    /\ C!CandidatesInit
    /\ part # "round" => view = C!Show(CHOOSE v \in Views : TRUE, {}) /\ ways = <<>>

MCNext ==
    /\ UNCHANGED part
    /\ \/ part = "loop" /\ ANext /\ UNCHANGED <<traced, signed, offered>>
       \/ part = "trace" /\ T!TNext /\ UNCHANGED <<loopVars, signed, offered>>
       \/ part = "signup" /\ F!FNext /\ UNCHANGED <<loopVars, traced, offered>>
       \/ part = "round" /\ C!CandidatesNext /\ UNCHANGED <<loopVars, traced, signed>>

MCSpec == MCInit /\ [][MCNext]_<<part, loopVars, traced, signed, offered>> /\ AFairness /\ T!TFairness

-----------------------------------------------------------------------------
\* The action loop: no click on a page that was not read after the last one, and done
\* only on postconditions met on one reading, within every budget.  And its rounds:
\* every kind of action the page affords is offered, an empty input can be filled
\* however many there are, and the action lands on the element it was made for, never
\* on a credential field, whatever the page became in between.
LoopSafety ==
    /\ part = "loop" => ATypeOK /\ NoBlindClick /\ DoneMeansMet
    /\ part = "round" =>
          /\ C!CandidatesTypeOK /\ C!KindsAreServed /\ C!NeedIsServed
          /\ C!ActsOnOwnElement /\ C!SecretsAreNotTyped

\* The drive of a reviewed trace: a checkpoint is passed only on a page that proves
\* it, and nothing is planned on a login wall.
TraceSafety == part = "trace" =>
    T!TTypeOK /\ T!CheckpointsAreProven /\ T!PlansOffTheWall

\* The signup form: sent once, not after a person sent it, and the terms are accepted
\* by a person or not at all.
SignupSafety == part = "signup" =>
    F!FTypeOK /\ F!SubmitsOnce /\ F!HumanSubmitStands /\ F!AcceptanceIsHuman

\* The loop and the drive end, whatever the page and the model do.
AgentReturns == PhaseEnds /\ T!DriveEnds
=============================================================================
