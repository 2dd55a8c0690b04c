------------------------------ MODULE SignupForm ------------------------------
(***************************************************************************)
(* The deterministic registration of one browser session                   *)
(* (ops/browser/signup.py: drive_signup and the three drivers behind it),  *)
(* as the worker calls it once per navigate or resume.                     *)
(*                                                                         *)
(* The form state outlives a call, the page does not wait: a call may meet *)
(* a gate anywhere, a click may register and still raise, and between two  *)
(* calls a human works in the same browser.  A route without a reviewed    *)
(* policy leaves every acceptance to that human.                           *)
(***************************************************************************)
EXTENDS Integers

CONSTANTS
    Pages,          \* records [path, surface, challenge, gate, box, legal, submit, own, idp, safe]
    EntryPaths,     \* the reviewed entry paths
    Policies,       \* the signup policies tried: "none", "email_first", "dom_detected"
    Handoff,        \* whether the operator authorized an identity provider
    MaxHandoffs,    \* the session's budget of signup pauses
    MaxSignups      \* bound on calls

SignupAssumption == MaxHandoffs \in Nat /\ MaxSignups \in Nat

VARIABLES
    sheet,    \* the page, whether its fields keep what was typed, its box
    form,     \* SignupSessionState, and the evidence it was marked as submitted on
    call,     \* the call under way
    calls,    \* calls begun
    tally,    \* clicks: [email, final, idp, human], and what was accepted unasked
    policy,
    answer    \* what the last call answered

signupVars == <<sheet, form, call, calls, tally, policy, answer>>

NoPath == 0
Fresh(p) == [page |-> p, kept |-> FALSE, ticked |-> FALSE]
AtRest == [pc |-> "rest", signal |-> "none", secrets |-> "none"]

FInit ==
    /\ sheet \in {Fresh(p) : p \in {q \in Pages : q.path \in EntryPaths}}
    /\ form = [filled |-> FALSE, emailFilled |-> FALSE, emailSubmitted |-> FALSE,
               emailDone |-> FALSE, submitted |-> FALSE, pending |-> FALSE,
               legalIssued |-> FALSE, handedOff |-> FALSE, handoffs |-> 0,
               pendingPath |-> NoPath, submittedPath |-> NoPath, flow |-> "none",
               evidence |-> "none"]
    /\ call = AtRest
    /\ calls = 0
    /\ tally = [email |-> 0, final |-> 0, idp |-> 0, human |-> 0, unasked |-> FALSE]
    /\ policy \in Policies
    /\ answer = "none"

(***************************************************************************)
(* Answers                                                                 *)
(***************************************************************************)

\* The worker counts every pause of the signup; past the budget it fails.
HandoffBudget(f, status) ==
    IF status = "human" /\ f.handoffs >= MaxHandoffs THEN "failed" ELSE status

Returns(status, f) ==
    /\ answer' = HandoffBudget(f, status)
    /\ form' = [f EXCEPT !.handoffs = @ + (IF answer' = "human" THEN 1 ELSE 0)]
    /\ call' = AtRest
    /\ UNCHANGED <<calls, policy>>

Pauses == Returns("human", form) /\ UNCHANGED <<sheet, tally>>
Fails == Returns("failed", form) /\ UNCHANGED <<sheet, tally>>

Goes(pc, f) ==
    /\ call' = [call EXCEPT !.pc = pc]
    /\ form' = f
    /\ UNCHANGED <<calls, policy, answer>>

\* _classify_after_submit: a typed gate, or a path other than the one before.
TypedGate(p) == p.gate # "none"
Classify(p, before) ==
    CASE ~p.safe -> "failed"
      [] p.safe /\ p.challenge -> "captcha"
      [] p.safe /\ ~p.challenge /\ TypedGate(p) -> "gate"
      [] p.safe /\ ~p.challenge /\ ~TypedGate(p) /\ before # NoPath /\ p.path # before -> "moved"
      [] OTHER -> "unverified"
Status(kind) ==
    CASE kind = "failed" -> "failed" [] kind = "moved" -> "continue" [] OTHER -> "human"

(***************************************************************************)
(* Calls                                                                   *)
(***************************************************************************)

\* After the registration went out, or a code after the email step, the secrets
\* go to the login injector first.
ContinuationReady(secrets) ==
    secrets # "none" /\ (form.submitted \/ (form.emailDone /\ secrets = "code"))

BeginSignup ==
    /\ call.pc = "rest" /\ calls < MaxSignups /\ answer \in {"none", "human", "continue"}
    /\ calls' = calls + 1
    /\ \E signal \in {"human_completed", "captcha_completed"}, secrets \in {"none", "pair", "code"} :
          call' = [pc |-> IF ContinuationReady(secrets) THEN "secret" ELSE "route",
                   signal |-> IF calls = 0 THEN "none" ELSE signal, secrets |-> secrets]
    /\ UNCHANGED <<sheet, form, tally, policy, answer>>

\* The injector answers for the call, or the page it leaves is driven on.
InjectContinuation ==
    /\ call.pc = "secret"
    /\ UNCHANGED tally
    /\ sheet' \in {Fresh(p) : p \in Pages}
    /\ \/ Goes("route", form)
       \/ /\ answer' \in {"human", "failed"} /\ call' = AtRest
          /\ UNCHANGED <<form, calls, policy>>

\* A researched route reads its step order off the first form it recognises.
ResolveFlow(p) ==
    CASE policy = "none" -> "email_password"
      [] policy = "email_first" -> "email_first"
      [] OTHER -> IF form.flow # "none" THEN form.flow
                  ELSE IF p.surface = "email" THEN "email_first"
                  ELSE IF p.surface = "pair" THEN "email_password" ELSE "none"

DriveSignup ==
    /\ call.pc = "route"
    /\ LET p == sheet.page
           off == policy = "dom_detected" /\ form.flow = "none" /\ p.path \notin EntryPaths
       IN  \/ (~p.safe \/ off) /\ Fails
           \/ p.safe /\ ~off /\ ResolveFlow(p) = "none" /\ Pauses
           \/ /\ p.safe /\ ~off /\ ResolveFlow(p) # "none"
              /\ Goes("step", [form EXCEPT !.flow = ResolveFlow(p)])
              /\ UNCHANGED <<sheet, tally>>

Step ==
    IF form.flow = "email_password" THEN "pair"
    ELSE IF form.emailDone THEN "password" ELSE "email"

AcceptLegal == policy # "none"

\* The identity provider's own control, clicked at most once in a session; the
\* attempt is recorded before the click, whose outcome may stay unknown.
IdentityHandoff ==
    /\ Handoff /\ ~form.handedOff /\ sheet.page.idp
    /\ tally' = [tally EXCEPT !.idp = @ + 1]
    /\ sheet' \in {Fresh(p) : p \in Pages}
    /\ LET f == [form EXCEPT !.handedOff = TRUE]
       IN  Returns("failed", f) \/ (sheet'.page.safe /\ Returns("human", f))
HandoffOrPause ==
    \/ IdentityHandoff
    \/ ~(Handoff /\ ~form.handedOff /\ sheet.page.idp) /\ Pauses

(***************************************************************************)
(* One step: what was already sent                                         *)
(***************************************************************************)

\* A human owns the acceptance-bearing submit: the call only looks whether the
\* page advanced, and asks again when it did not.
AwaitHumanSubmit ==
    /\ call.pc = "step" /\ Step = "pair" /\ form.pending
    /\ LET kind == Classify(sheet.page, form.pendingPath)
       IN  \/ (call.signal # "human_completed" \/ kind = "unverified") /\ Pauses
           \/ /\ call.signal = "human_completed" /\ kind # "unverified"
              /\ UNCHANGED <<sheet, tally>>
              /\ Returns(Status(kind), [form EXCEPT !.submitted = TRUE, !.pending = FALSE,
                                                    !.pendingPath = NoPath, !.evidence = kind])

AlreadySubmittedUnlessGated == form.submitted /\ call.signal # "captcha_completed"
AlreadySubmitted == form.submitted

ReadSubmission ==
    /\ call.pc = "step" /\ Step # "email" /\ ~form.pending /\ AlreadySubmitted
    /\ Returns(Status(Classify(sheet.page, form.submittedPath)), form)
    /\ UNCHANGED <<sheet, tally>>

\* What the email step leaves behind: the path it was sent from stays on record.
EmailStepDone == [form EXCEPT !.emailDone = TRUE]

\* The email step is done when the password form, a typed gate or another path
\* shows; a page nobody recognises is answered for as it stands.
ReadEmailStep ==
    /\ call.pc = "step" /\ Step = "email" /\ form.emailSubmitted
    /\ LET p == sheet.page
           kind == Classify(p, form.submittedPath)
           password == p.surface \in {"password", "pair"}
           recognized == password \/ p.path # form.submittedPath \/ kind = "gate"
       IN  \/ p.surface = "many" /\ Fails
           \/ /\ p.surface # "many" /\ UNCHANGED <<sheet, tally>>
              /\ \/ recognized /\ password /\ Goes("step", EmailStepDone)
                 \/ recognized /\ ~password /\ Returns(Status(kind), EmailStepDone)
                 \/ ~recognized /\ Returns(Status(kind), form)

(***************************************************************************)
(* One step: find the form                                                 *)
(***************************************************************************)

Looking(step) == call.pc = "step" /\ Step = step /\ ~form.pending

\* The one form of the step: its action may still lead off the reviewed hosts.
Found == Fails \/ (Goes("fill", form) /\ UNCHANGED <<sheet, tally>>)

FindEmailForm ==
    /\ Looking("email") /\ ~form.emailSubmitted
    /\ LET p == sheet.page
           entry == p.path \in EntryPaths
           ready == form.emailFilled \/ call.secrets = "pair"
       IN  \/ (~entry \/ (ready /\ p.surface = "many")) /\ Fails
           \/ entry /\ ~ready /\ Pauses
           \/ entry /\ ready /\ p.surface \notin {"email", "many"} /\ HandoffOrPause
           \/ entry /\ ready /\ p.surface = "email" /\ Found

FindPairForm ==
    /\ Looking("pair") /\ ~AlreadySubmitted
    /\ LET p == sheet.page
           ready == form.filled \/ call.secrets = "pair"
       IN  \/ ~ready /\ Pauses
           \/ ready /\ p.surface = "many" /\ Fails
           \/ ready /\ p.surface \notin {"pair", "many"} /\ HandoffOrPause
           \/ ready /\ p.surface = "pair" /\ Found

\* Without a password form the step is read like a submission: the trace alone
\* can prove the rest.
FindPasswordForm ==
    /\ Looking("password") /\ ~AlreadySubmitted
    /\ LET p == sheet.page
       IN  \/ p.surface = "many" /\ Fails
           \/ p.surface \in {"password", "pair"} /\ Found
           \/ /\ p.surface \in {"email", "none"} /\ UNCHANGED <<sheet, tally>>
              /\ Returns(Status(Classify(p, form.submittedPath)), form)

(***************************************************************************)
(* One step: fill the form                                                 *)
(***************************************************************************)

\* A challenge, a payment or a passkey stops the call before and after filling.
Gated == sheet.page.challenge \/ sheet.page.gate = "billing"
FillGate == call.pc \in {"fill", "submit"} /\ Gated /\ Pauses

Filling(step) == call.pc = "fill" /\ Step = step /\ ~Gated

\* The vendor's form reacts to what is typed: a challenge shows, a button greys.
Reactions(p) == {q \in Pages : q.path = p.path /\ q.surface = p.surface}
Typed ==
    /\ UNCHANGED tally
    /\ \E q \in Reactions(sheet.page) : sheet' = [Fresh(q) EXCEPT !.kept = TRUE]

\* The approved company values: one may fit two fields, or no option.
CompanyFields(f) == Goes("submit", f) \/ Returns("human", f) \/ Returns("failed", f)

\* Values typed before are never read back: either they are still there, or the
\* signup has to be started again.
FillEmail ==
    /\ Filling("email")
    /\ \/ ~form.emailFilled /\ Fails                       \* the field refused the value
       \/ ~form.emailFilled /\ Typed /\ Goes("submit", [form EXCEPT !.emailFilled = TRUE])
       \/ form.emailFilled /\ ~sheet.kept /\ HandoffOrPause
       \/ form.emailFilled /\ sheet.kept /\ Goes("submit", form) /\ UNCHANGED <<sheet, tally>>

FillCredentials ==
    \/ ~form.filled /\ Fails                               \* ambiguous, or refused
    \/ ~form.filled /\ Typed /\ CompanyFields([form EXCEPT !.filled = TRUE])
    \/ form.filled /\ ~sheet.kept /\ Pauses
    \/ form.filled /\ sheet.kept /\ CompanyFields(form) /\ UNCHANGED <<sheet, tally>>

FillPair == Filling("pair") /\ FillCredentials

FillPassword ==
    /\ Filling("password")
    /\ \/ ~form.filled /\ call.secrets # "pair" /\ Pauses
       \/ (form.filled \/ call.secrets = "pair") /\ FillCredentials

\* An open consent box is a human's, unless the route is a partner's.
ConsentGate ==
    /\ call.pc = "submit" /\ ~Gated /\ sheet.page.box /\ ~sheet.ticked
    /\ \/ /\ AcceptLegal
          /\ sheet' = [sheet EXCEPT !.ticked = TRUE]
          /\ tally' = [tally EXCEPT !.unasked = @ \/ policy = "none"]
          /\ Goes("submit", form)
       \/ /\ UNCHANGED <<sheet, tally>>                   \* nobody's, or it would not tick
          /\ Returns("human", [form EXCEPT !.legalIssued = TRUE])

(***************************************************************************)
(* One step: submit the form                                               *)
(***************************************************************************)

Submittable(step) ==
    call.pc = "submit" /\ Step = step /\ ~Gated /\ (sheet.page.box => sheet.ticked)

\* A reviewed route is held to its labels; a researched one may look past them,
\* and past the identity providers' buttons, for the form's own control.
EmailControl ==
    IF sheet.page.submit = "missing" /\ policy = "dom_detected"
    THEN sheet.page.own ELSE sheet.page.submit
FinalControl ==
    IF sheet.page.submit # "unique" /\ policy = "dom_detected"
    THEN sheet.page.own ELSE sheet.page.submit

\* A required field nobody filled, a payment, or a control out of reach.
Obstructed == Pauses

EmailBlocked ==
    /\ Submittable("email")
    /\ Obstructed \/ (EmailControl = "missing" /\ HandoffOrPause) \/ (EmailControl = "ambiguous" /\ Fails)
PairBlocked ==
    /\ Submittable("pair")
    /\ Obstructed \/ (FinalControl = "missing" /\ HandoffOrPause) \/ (FinalControl = "ambiguous" /\ Fails)
PasswordBlocked ==
    /\ Submittable("password")
    /\ Obstructed \/ (FinalControl = "ambiguous" /\ Fails)

LegalSubmit ==
    /\ Submittable("pair") /\ FinalControl = "unique"
    /\ sheet.page.legal /\ ~AcceptLegal
    /\ Returns("human", [form EXCEPT !.pending = TRUE, !.pendingPath = sheet.page.path])
    /\ UNCHANGED <<sheet, tally>>

\* The step is marked as sent before the click, which may register and raise; a
\* click that returns has its page read like any later call's.
Click(f, t) ==
    /\ ~sheet.page.legal \/ AcceptLegal
    /\ sheet' \in {Fresh(p) : p \in Pages} \cup {sheet}
    /\ LET sent == [f EXCEPT !.submittedPath = sheet.page.path]
       IN  Returns("failed", sent) \/ Goes("step", sent)
    /\ tally' = [t EXCEPT !.unasked = @ \/ (sheet.page.legal /\ policy = "none")]

ClickEmail ==
    /\ Submittable("email") /\ EmailControl = "unique"
    /\ Click([form EXCEPT !.emailSubmitted = TRUE], [tally EXCEPT !.email = @ + 1])
ClickPair ==
    /\ Submittable("pair") /\ FinalControl = "unique"
    /\ Click([form EXCEPT !.submitted = TRUE, !.evidence = "click"], [tally EXCEPT !.final = @ + 1])
ClickPassword ==
    /\ Submittable("password") /\ FinalControl = "unique"
    /\ Click([form EXCEPT !.submitted = TRUE, !.evidence = "click"], [tally EXCEPT !.final = @ + 1])

(***************************************************************************)
(* The human in the live browser                                           *)
(***************************************************************************)

\* Anything but the registration itself: a challenge, a box, a reload.
HumanWorks ==
    /\ call.pc = "rest" /\ answer = "human"
    /\ sheet' \in {[page |-> p, kept |-> k /\ sheet.kept /\ p.path = sheet.page.path, ticked |-> t] :
                      p \in Pages, k \in BOOLEAN, t \in BOOLEAN}
    /\ UNCHANGED <<form, call, calls, tally, policy, answer>>

HumanSubmits ==
    /\ call.pc = "rest" /\ answer = "human" /\ form.pending /\ tally.human = 0
    /\ sheet.page.surface = "pair"
    /\ sheet' \in {Fresh(p) : p \in Pages}
                  \cup {[sheet EXCEPT !.page = q] : q \in Reactions(sheet.page)}
    /\ tally' = [tally EXCEPT !.human = 1]
    /\ UNCHANGED <<form, call, calls, policy, answer>>

\* The trace loop went on after the signup, and moved the page.
TraceMoves ==
    /\ call.pc = "rest" /\ answer = "continue"
    /\ sheet' \in {Fresh(p) : p \in Pages}
    /\ answer' = "human"
    /\ UNCHANGED <<form, call, calls, tally, policy>>

FNext ==
    \/ BeginSignup \/ InjectContinuation \/ DriveSignup
    \/ AwaitHumanSubmit \/ ReadSubmission \/ ReadEmailStep
    \/ FindEmailForm \/ FindPairForm \/ FindPasswordForm
    \/ FillGate \/ FillEmail \/ FillPair \/ FillPassword \/ ConsentGate
    \/ EmailBlocked \/ PairBlocked \/ PasswordBlocked
    \/ LegalSubmit \/ ClickEmail \/ ClickPair \/ ClickPassword
    \/ HumanWorks \/ HumanSubmits \/ TraceMoves

FSpec == FInit /\ [][FNext]_signupVars

(***************************************************************************)
(* Properties                                                              *)
(***************************************************************************)

FTypeOK ==
    /\ sheet.page \in Pages /\ {sheet.kept, sheet.ticked} \subseteq BOOLEAN
    /\ form.handoffs \in 0..MaxHandoffs
    /\ form.flow \in {"none", "email_first", "email_password"}
    /\ call.pc \in {"rest", "secret", "route", "step", "fill", "submit"}
    /\ call.signal \in {"none", "human_completed", "captcha_completed"}
    /\ calls \in 0..MaxSignups
    /\ {tally.email, tally.final, tally.idp, tally.human} \subseteq Nat
    /\ answer \in {"none", "human", "failed", "continue"}

\* One session registers at most one account: over any pauses, unknown outcomes
\* and reloads the agent sends each step and opens the identity provider once.
SubmitsOnce == tally.email <= 1 /\ tally.final <= 1 /\ tally.idp <= 1

\* Where a human sent the form at the agent's request, the agent never sends it.
HumanSubmitStands == tally.human > 0 => tally.final = 0

\* On a route nobody reviewed, the agent agrees to nothing: it neither ticks a
\* consent box nor clicks an acceptance-bearing submit, however often it is resumed.
AcceptanceIsHuman == policy = "none" => ~tally.unasked

\* The registration a human owns is recorded only once the page advanced or a
\* typed gate showed.
CompletionIsProven == form.submitted => form.evidence \in {"click", "moved", "gate"}
===============================================================================
