--------------------------- MODULE ActionCandidates ---------------------------
(***************************************************************************)
(* What one round of either action loop may do to a page: the bounded set  *)
(* of candidates policy derives from a reading (ops/browser/candidates.py, *)
(* generate_candidates), the choice out of it, the target that is looked   *)
(* up again on the live page (resolve_identity, _execute_candidate), and   *)
(* the transition that is verified afterwards (ops/playwright/             *)
(* predicates.py).                                                         *)
(*                                                                         *)
(* A page shows some of the Elements, in their order; between the reading  *)
(* and the action it may show others.  An element's name is the set of its *)
(* words: case and punctuation, which the code normalises away, are left   *)
(* out.  The budgets around the round are those of ActionLoop and          *)
(* TraceLoop.                                                              *)
(***************************************************************************)
EXTENDS Integers, Sequences, FiniteSets

CONSTANTS
    Elements,        \* a sequence of [role, type, words, frame, tid, href, head]
    Views,           \* what the page may show: records [url, home, shown, live]
    Signals,         \* words the checkpoint expects
    FinalWords,      \* words of an irreversible intent
    SecretWords,     \* words of a credential-bearing field
    Refs,            \* the value references the checkpoint allows, best first
    Approved,        \* the reviewed references
    GotoUrls,        \* the reviewed destinations
    MaxCandidates, MaxRefs, MaxValues, MaxPerKind,
    MaxMoves         \* bound: how often the page moves on its own

CandidatesAssumption ==
    /\ {MaxCandidates, MaxRefs, MaxValues, MaxPerKind} \subseteq Nat \ {0}
    /\ MaxMoves \in Nat
    /\ \A s \in {Elements, Refs, GotoUrls} : s \in Seq({s[i] : i \in DOMAIN s})
    /\ \A v \in Views : v.live \subseteq v.shown /\ v.shown \subseteq DOMAIN Elements

VARIABLES
    view,      \* the page, and the elements that hold a value or a tick
    reading,   \* the reading the round was planned on
    pc,        \* where the round is
    chosen,    \* the candidate that was chosen
    acted,     \* what the last action was meant for, and what it was done to
    verdict,   \* whether the last action was found to have moved the page
    drift,     \* moves of the page's own
    ways       \* where the checkpoint may go: nowhere, when it is an in-page step

candidateVars == <<view, reading, pc, chosen, acted, verdict, drift, ways>>

None == "none"
NoCandidate == [action |-> None, el |-> 0, ref |-> None]
NoAct == [action |-> None, el |-> 0, on |-> 0, there |-> FALSE]
Show(v, held) == [url |-> v.url, home |-> v.home, shown |-> v.shown, live |-> v.live,
                  held |-> held \cap v.shown]

CandidatesInit ==
    /\ view \in {Show(v, {}) : v \in Views}
    /\ reading = view /\ pc = "look" /\ chosen = NoCandidate
    /\ acted = NoAct /\ verdict = None /\ drift = 0 /\ ways \in {<<>>, GotoUrls}

(***************************************************************************)
(* The snapshot                                                            *)
(***************************************************************************)

E(i) == Elements[i]
Secretish(i) == E(i).words \cap SecretWords # {} \/ E(i).type = "password"
\* A secret-bearing field is read as empty, whatever is in it.
HasValue(i, p) == i \in p.held /\ ~Secretish(i)
Irreversible(i) == E(i).words \cap FinalWords # {}

Writable(i) == E(i).type \in {"text", "email", "search", "url", "tel"} /\ ~Secretish(i)
Submits(i) == E(i).type \in {"text", "email", "search"} /\ ~Secretish(i)
Selectable(i) == E(i).role = "select"
Tickable(i) == E(i).type \in {"checkbox", "radio"} /\ ~Secretish(i) /\ ~Irreversible(i)

(***************************************************************************)
(* generate_candidates                                                     *)
(***************************************************************************)

Candidate(action, el, ref) == [action |-> action, el |-> el, ref |-> ref]
Take(s, n) == SubSeq(s, 1, IF n < Len(s) THEN n ELSE Len(s))

\* The elements of a set of numbers, the smallest first.
InOrder(S) == [k \in 1..Cardinality(S) |-> CHOOSE i \in S : Cardinality(S \cap 1..i) = k]

\* The inputs that are still empty come first.
ByNeed(S, p) ==
    LET filled == {i \in S : HasValue(i, p)}
    IN  InOrder(S \ filled) \o InOrder(filled)

\* The signals are a filter of relevance, dropped when nothing fits them.
Named(p) == {i \in p.live : E(i).words # {}}
Relevant(p) ==
    LET fitting == {i \in Named(p) : E(i).words \cap Signals # {}}
    IN  IF fitting = {} THEN Named(p) ELSE fitting

Clicks(p) ==
    LET controls == Take(InOrder(Relevant(p)), MaxCandidates)
    IN  [k \in DOMAIN controls |-> Candidate("click", controls[k], None)]

\* Inputs times references, the first reference of every input before the second
\* of any: bounded per input, and as a whole.
ApprovedRefs ==
    LET good == Take(InOrder({k \in DOMAIN Refs : Refs[k] \in Approved}), MaxRefs)
    IN  [k \in DOMAIN good |-> Refs[good[k]]]
InputsByRefs(action, S, p) ==
    LET inputs == Take(ByNeed(S, p), MaxValues)
        pairs == Len(inputs) * Len(ApprovedRefs)
    IN  [k \in 1..(IF pairs < MaxValues THEN pairs ELSE MaxValues) |->
            Candidate(action, inputs[((k - 1) % Len(inputs)) + 1],
                              ApprovedRefs[((k - 1) \div Len(inputs)) + 1])]

Fills(p) == InputsByRefs("fill", {i \in p.live : Writable(i)}, p)
Selects(p) == InputsByRefs("select", {i \in p.live : Selectable(i)}, p)

Toggles(p) ==
    LET boxes == Take(InOrder({i \in p.live : Tickable(i)}), MaxPerKind)
    IN  [k \in DOMAIN boxes |->
            Candidate(IF boxes[k] \in p.held THEN "uncheck" ELSE "check", boxes[k], None)]

Gotos == [k \in DOMAIN Take(ways, MaxCandidates) |-> Candidate("goto", 0, ways[k])]

Presses(p) ==
    LET inputs == Take(InOrder({i \in p.live : Submits(i)}), MaxPerKind)
    IN  [k \in DOMAIN inputs |-> Candidate("press", inputs[k], None)]

\* A seat is the i-th candidate of group g; the budget is dealt round-robin, so
\* that no group gets a second seat before every group had its first.
Rank(seat, seats) ==
    Cardinality({s \in seats : s[2] < seat[2] \/ (s[2] = seat[2] /\ s[1] <= seat[1])})
Allocate(groups) ==
    LET seats == UNION {{<<g, i>> : i \in DOMAIN groups[g]} : g \in DOMAIN groups}
    IN  {groups[s[1]][s[2]] : s \in {t \in seats : Rank(t, seats) <= MaxCandidates}}

GenerateCandidates(p) ==
    Allocate(<<Clicks(p), Fills(p), Selects(p), Toggles(p), Gotos, Presses(p)>>)

\* An irreversible control is listed for a human, and not to be chosen.
Executables(p) == {c \in GenerateCandidates(p) : ~(c.action = "click" /\ Irreversible(c.el))}

(***************************************************************************)
(* resolve_identity: one match at the strongest tier that matches at all   *)
(***************************************************************************)

SameFrame(i, j) == E(i).frame = E(j).frame
TierTestId(i, p) == {j \in p.shown : E(i).tid # None /\ E(j).tid = E(i).tid}
TierExact(i, p) ==
    {j \in p.shown : /\ SameFrame(i, j) /\ E(j).role = E(i).role
                     /\ E(j).words = E(i).words /\ E(j).type = E(i).type}
TierLabel(i, p) ==
    {j \in p.shown : SameFrame(i, j) /\ E(j).role = E(i).role
                     /\ E(i).words # {} /\ E(j).words = E(i).words}
TierHref(i, p) == {j \in p.shown : SameFrame(i, j) /\ E(i).href # None /\ E(j).href = E(i).href}
TierHeading(i, p) ==
    {j \in p.shown : /\ SameFrame(i, j) /\ E(i).head # None /\ E(j).head = E(i).head
                     /\ E(i).words # {} /\ E(i).words \subseteq E(j).words}

Tiers(i, p) == <<TierTestId(i, p), TierExact(i, p), TierLabel(i, p), TierHref(i, p), TierHeading(i, p)>>

\* What is found: nothing, one element, or a tie that is never broken.
ResolveIdentity(i, p) ==
    LET met == {t \in 1..5 : Tiers(i, p)[t] # {}}
    IN  IF met = {} THEN {} ELSE Tiers(i, p)[CHOOSE t \in met : \A u \in met : t <= u]

(***************************************************************************)
(* One round                                                               *)
(***************************************************************************)

Goes(to) == pc' = to

\* A page off the reviewed hosts, or on which every option is a human's, ends the drive.
Look ==
    /\ pc = "look"
    /\ reading' = view
    /\ Goes(IF ~view.home \/ Executables(view) = {} THEN "human" ELSE "choose")
    /\ UNCHANGED <<view, chosen, acted, verdict, drift, ways>>

\* The deterministic match, or the id the model echoed; it may also decline.
Choose ==
    /\ pc = "choose"
    /\ \/ Goes("act") /\ chosen' \in Executables(reading)
       \/ Goes("human") /\ UNCHANGED chosen
    /\ UNCHANGED <<view, reading, acted, verdict, drift, ways>>

ValueActions == {"fill", "select"}
Targets == IF chosen.action = "goto" THEN {0} ELSE ResolveIdentity(chosen.el, view)

\* The page moved, or the target is gone or not the only one: plan again.
Stale ==
    /\ pc = "act"
    /\ view.home
    /\ view.url # reading.url \/ Cardinality(Targets) # 1
    /\ Goes("look") /\ chosen' = NoCandidate
    /\ UNCHANGED <<view, reading, acted, verdict, drift, ways>>

Fresh == pc = "act" /\ view.home /\ view.url = reading.url /\ Cardinality(Targets) = 1
Guarded == Targets # {0} /\ chosen.action \in ValueActions /\ Secretish(CHOOSE t \in Targets : TRUE)

\* Off the reviewed hosts nothing is done, and the executor itself never writes into
\* a credential field.
Blocked ==
    /\ pc = "act"
    /\ ~view.home \/ (Fresh /\ Guarded)
    /\ Goes("human") /\ chosen' = NoCandidate
    /\ UNCHANGED <<view, reading, acted, verdict, drift, ways>>

\* What the page shows after the action.
Reacts(t) ==
    CASE chosen.action \in ValueActions \cup {"check"} -> {[view EXCEPT !.held = @ \cup {t}]}
      [] chosen.action = "uncheck" -> {[view EXCEPT !.held = @ \ {t}]}
      [] OTHER -> {view} \cup {Show(v, view.held) : v \in Views}

\* The node is pinned before the action, which may still fail after it took effect.
Execute ==
    /\ Fresh /\ ~Guarded
    /\ \E t \in Targets :
          /\ view' \in Reacts(t)
          /\ acted' = [action |-> chosen.action, el |-> chosen.el, on |-> t,
                       there |-> chosen.el \in view.shown]
    /\ Goes("verify") \/ Goes("look")
    /\ UNCHANGED <<reading, chosen, verdict, drift, ways>>

ExecutionFails ==
    /\ Fresh /\ ~Guarded
    /\ Goes("look") /\ chosen' = NoCandidate
    /\ UNCHANGED <<view, reading, acted, verdict, drift, ways>>

(***************************************************************************)
(* The transition of the action itself                                     *)
(***************************************************************************)

\* ElementPredicate.matches, for the element the candidate was made for
Like(i, p) ==
    IF E(i).tid # None THEN {j \in p.shown : E(j).tid = E(i).tid}
    ELSE {j \in p.shown : /\ E(j).role = E(i).role /\ SameFrame(i, j)
                          /\ E(j).type = E(i).type /\ E(i).words \subseteq E(j).words}
LikeControl(i, p) ==
    {j \in p.shown : E(j).role = E(i).role /\ SameFrame(i, j) /\ E(i).words \subseteq E(j).words}

\* The fingerprint holds the path and the names, not what the fields hold.
StructuralChange(before, after) == before.url # after.url \/ before.shown # after.shown

Satisfied(c, before, after) ==
    CASE c.action = "click" ->
            \/ after.url # before.url
            \/ LikeControl(c.el, before) # {} /\ LikeControl(c.el, after) = {}
      [] c.action = "goto" -> after.url = c.ref
      [] c.action = "press" -> after.url # before.url
      [] c.action \in {"check", "select"} ->
            \E t \in Like(c.el, after) : Like(c.el, after) = {t} /\ t \in after.held
      [] c.action = "uncheck" ->
            \E t \in Like(c.el, after) : Like(c.el, after) = {t} /\ t \notin after.held
      [] OTHER -> StructuralChange(before, after)

Verify ==
    /\ pc = "verify"
    /\ verdict' = IF Satisfied(chosen, reading, view) THEN "moved" ELSE "still"
    /\ Goes(IF view.home THEN "look" ELSE "human") /\ chosen' = NoCandidate
    /\ UNCHANGED <<view, reading, acted, drift, ways>>

\* A re-render, a banner, a redirect.
PageDrifts ==
    /\ drift < MaxMoves /\ pc # "human"
    /\ drift' = drift + 1
    /\ view' \in {Show(v, view.held) : v \in Views}
    /\ UNCHANGED <<reading, pc, chosen, acted, verdict, ways>>

CandidatesNext ==
    Look \/ Choose \/ Stale \/ Blocked \/ Execute \/ ExecutionFails \/ Verify \/ PageDrifts

CandidatesSpec == CandidatesInit /\ [][CandidatesNext]_candidateVars

(***************************************************************************)
(* Properties                                                              *)
(***************************************************************************)

CandidatesTypeOK ==
    /\ view.live \subseteq view.shown /\ view.held \subseteq view.shown
    /\ pc \in {"look", "choose", "act", "verify", "human"}
    /\ chosen.el \in {0} \cup DOMAIN Elements /\ acted.on \in {0} \cup DOMAIN Elements
    /\ verdict \in {None, "moved", "still"} /\ drift \in 0..MaxMoves

\* The kinds of action a page affords, said of the page alone.
Affords(p) ==
    {k \in {"click", "fill", "select", "goto", "press"} :
        \/ k = "click" /\ Named(p) # {}
        \/ k = "fill" /\ ApprovedRefs # <<>> /\ \E i \in p.live : Writable(i)
        \/ k = "select" /\ ApprovedRefs # <<>> /\ \E i \in p.live : Selectable(i)
        \/ k = "goto" /\ ways # <<>>
        \/ k = "press" /\ \E i \in p.live : Submits(i)}
    \cup (IF \E i \in p.live : Tickable(i) THEN {"toggle"} ELSE {})

Offered(p) ==
    {IF c.action \in {"check", "uncheck"} THEN "toggle" ELSE c.action : c \in GenerateCandidates(p)}

\* However crowded the page, every kind of action it affords is among the
\* candidates when the budget seats that many kinds: typing does not starve
\* submitting or navigating.
KindsAreServed ==
    pc = "choose" => (Cardinality(Affords(reading)) <= MaxCandidates => Offered(reading) = Affords(reading))

\* A form larger than the budget can still be completed: as long as an input is
\* empty, filling some empty input is on offer, after any sequence of fills, ticks
\* and re-renders.
NeedIsServed ==
    pc = "choose" /\ MaxCandidates > 1 /\ ApprovedRefs # <<>> =>
        LET empty == {i \in reading.live : Writable(i) /\ ~HasValue(i, reading)}
        IN  empty # {} => \E c \in Executables(reading) : c.action = "fill" /\ c.el \in empty

\* While the element the candidate was made for is still on the page, nothing else
\* is acted on in its place, whatever look-alikes the re-rendered page shows.
ActsOnOwnElement == acted.there /\ acted.action # "goto" => acted.on = acted.el

\* No choice, re-render or look-alike makes the agent write into a credential field.
SecretsAreNotTyped == acted.action \in ValueActions => ~Secretish(acted.on)

\* What the comment on the irreversible intents says of the agent's clicks.
ClicksAreReversible == acted.on # 0 => ~Irreversible(acted.on)

\* What _by_need says of a form: a fill is a step towards its end.
FillsCount == verdict = "still" => acted.action # "fill"
===============================================================================
