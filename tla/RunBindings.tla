---------------------------- MODULE RunBindings ----------------------------
(***************************************************************************)
(* The durable facts a phase is driven from, and how a worker reads them:  *)
(* the vault probe of admission (ops/onboarding/admission.py), the signup  *)
(* identity and its staged pair (SignupPhaseHandler, ops/browser/          *)
(* signup.py), the recorded verification recipient and the adoption of the *)
(* stored pair as login references (ops/onboarding/publishers.py).         *)
(*                                                                         *)
(* One run, several workers, deaths between any two durable writes, a      *)
(* redeploy that names another signup address, a reattach that moves the   *)
(* run to another session.  An address is a model value; the pair in the   *)
(* account scope is the set of its fields and the number of its vault ids: *)
(* every promotion deletes the old rows and inserts new ones.              *)
(***************************************************************************)
EXTENDS Naturals, FiniteSets

CONSTANTS
    Workers,        \* worker processes that may drive the run
    Addresses,      \* signup addresses a deployment may name
    MaxSession,     \* bound on reattached sessions
    MaxDeploys,     \* bound on redeploys
    MaxPromotions,  \* bound on promotions
    MaxFaults       \* bound on deaths, lost answers and failed writes

None == "none"
Fields == {"login_email", "login_password"}   \* REUSABLE_LOGIN_FIELDS

BindingsAssumption ==
    /\ None \notin Addresses
    /\ MaxSession \in Nat /\ MaxDeploys \in Nat /\ MaxPromotions \in Nat /\ MaxFaults \in Nat

VARIABLES
    address,    \* the deployment's signup address
    row,        \* the run's columns: account (a ref was minted), session
    staged,     \* the address of the staged pair
    pair,       \* the account scope: fields stored, and which insertion wrote them
    submit,     \* the reservation of the signup submission
    account,    \* the address the provider registered
    recipient,  \* the latest recorded recipient: address and session
    phase,
    walk,       \* per worker: step, identity read, references or target in hand
    searched,   \* history: addresses a verification search was made for
    bindings,   \* history: references bound for the login route
    deploys, faults

bindingsVars == <<address, row, staged, pair, submit, account, recipient, phase,
                  walk, searched, bindings, deploys, faults>>

NoRecipient == [address |-> None, session |-> 0]
Away == [pc |-> "away", address |-> None, session |-> 0, to |-> None]

BindingsInit ==
    /\ address \in Addresses
    /\ row \in [account : BOOLEAN, session : {0}]
    /\ staged = None
    /\ pair \in [fields : {{}, {"login_email"}, Fields}, ids : {0}]
    /\ submit = "absent" /\ account = None /\ recipient = NoRecipient
    /\ phase = "vault_check" /\ walk = [w \in Workers |-> Away]
    /\ searched = {} /\ bindings = {} /\ deploys = 0 /\ faults = 0

Goes(w, changed) == walk' = [walk EXCEPT ![w] = changed]
Steps(w, pc) == Goes(w, [walk[w] EXCEPT !.pc = pc])
Reports(w, to) == Goes(w, [walk[w] EXCEPT !.pc = "commit", !.to = to])
Fault == faults < MaxFaults /\ faults' = faults + 1
At(w, pc, p) == walk[w].pc = pc /\ phase = p

----------------------------------------------------------------------------
(***************************************************************************)
(* Admission: the route the vault implies.                                 *)
(***************************************************************************)

\* account_login_references: an absent account binding reads as nothing.
References == IF row.account THEN pair.fields ELSE {}

IsComplete(fields) == fields = Fields

\* probe_login_refs and admit_from_vault; the authority for the signup route
\* is OnboardingDriver's subject and is given here.
AdmitFromVault(w) ==
    /\ At(w, "away", "vault_check")
    /\ IF IsComplete(References)
       THEN /\ Reports(w, "login")
            /\ bindings' = bindings \cup {pair}
       ELSE Reports(w, "signup") /\ UNCHANGED bindings
    /\ UNCHANGED <<address, row, staged, pair, submit, account, recipient, phase,
                   searched, deploys, faults>>

----------------------------------------------------------------------------
(***************************************************************************)
(* SignupPhaseHandler.                                                     *)
(***************************************************************************)

\* LedgerSignupRunBinding: the row's account and session, the deployment's
\* address; a run without an account binding is refused by the vault.
SignupIdentity(w) ==
    /\ At(w, "away", "signup") /\ row.account
    /\ Goes(w, [Away EXCEPT !.pc = "stage", !.address = address, !.session = row.session])
    /\ UNCHANGED <<address, row, staged, pair, submit, account, recipient, phase,
                   searched, bindings, deploys, faults>>

\* stage_signup_credentials: the run's own staged pair is read back first.
StagedPair(generated) == IF staged # None THEN staged ELSE generated

StageSignupCredentials(w) ==
    /\ walk[w].pc = "stage"
    /\ staged' = StagedPair(walk[w].address)
    /\ Steps(w, "reserve")
    /\ UNCHANGED <<address, row, pair, submit, account, recipient, phase,
                   searched, bindings, deploys, faults>>

\* plan_effect: execute, skip or reconcile.
ReserveSubmission(w) ==
    /\ walk[w].pc = "reserve"
    /\ submit' = IF submit \in {"absent", "failed"} THEN "pending" ELSE submit
    /\ Goes(w, [walk[w] EXCEPT !.pc = "recipient",
                               !.to = IF submit = "completed" THEN "skip"
                                      ELSE IF submit \in {"absent", "failed"} THEN "execute"
                                      ELSE "reconcile"])
    /\ UNCHANGED <<address, row, staged, pair, account, recipient, phase,
                   searched, bindings, deploys, faults>>

\* The recipient is recorded whatever the plan says, from the identity read.
BindVerificationRecipient(w) ==
    /\ walk[w].pc = "recipient"
    /\ recipient' = [address |-> walk[w].address, session |-> walk[w].session]
    /\ CASE walk[w].to = "skip" -> Goes(w, [walk[w] EXCEPT !.pc = "promote", !.to = "verification"])
         [] walk[w].to = "execute" -> Steps(w, "submit")
         [] OTHER -> Reports(w, "paused")
    /\ UNCHANGED <<address, row, staged, pair, submit, account, phase,
                   searched, bindings, deploys, faults>>

\* The worker types the staged pair.  The provider registers it, knows it
\* already, asks for a person, or the answer is lost.
SubmitSignup(w) ==
    /\ walk[w].pc = "submit"
    /\ \/ /\ account' = staged /\ submit' = "completed" /\ UNCHANGED faults
          /\ \E to \in {"verification", "paused"} :
                Goes(w, [walk[w] EXCEPT !.pc = "promote", !.to = to])
       \/ /\ account' = staged /\ submit' = "completed" /\ UNCHANGED faults
          /\ Goes(w, [walk[w] EXCEPT !.pc = "promote", !.to = "login"])
       \/ Reports(w, "paused") /\ UNCHANGED <<account, submit, faults>>
       \/ Reports(w, "paused") /\ submit' = "failed" /\ UNCHANGED <<account, faults>>
       \/ /\ Fault /\ Reports(w, "paused") /\ submit' = "outcome_unknown"
          /\ account' \in {account, staged}
    /\ UNCHANGED <<address, row, staged, pair, recipient, phase, searched, bindings, deploys>>

\* promote_staged_signup_login_pair: old rows deleted, new rows inserted.
Promoted == [fields |-> Fields, ids |-> pair.ids + 1]

\* _promote: best effort.
Promote(w) ==
    /\ walk[w].pc = "promote"
    /\ \/ pair.ids < MaxPromotions /\ pair' = Promoted /\ UNCHANGED faults
       \/ Fault /\ UNCHANGED pair
    /\ Reports(w, walk[w].to)
    /\ UNCHANGED <<address, row, staged, submit, account, recipient, phase,
                   searched, bindings, deploys>>

\* The driver commits the boundary; a rival's commit of the same edge is a
\* replay, and a phase that has moved on refuses it.
Commit(w) ==
    /\ walk[w].pc = "commit"
    /\ phase' = IF phase \in {"vault_check", "signup"} /\ walk[w].to # phase THEN walk[w].to ELSE phase
    /\ Goes(w, Away)
    /\ UNCHANGED <<address, row, staged, pair, submit, account, recipient,
                   searched, bindings, deploys, faults>>

----------------------------------------------------------------------------
(***************************************************************************)
(* What the later phases read.                                             *)
(***************************************************************************)

\* LedgerVerificationBinding: the latest recorded recipient, and its session.
VerificationContext(w) ==
    /\ At(w, "away", "verification") /\ recipient # NoRecipient
    /\ searched' = searched \cup {recipient.address}
    /\ UNCHANGED <<address, row, staged, pair, submit, account, recipient, phase, walk,
                   bindings, deploys, faults>>

\* VaultLoginReferenceBinder.adopt_signup_references_for_login: read first.
AdoptStored(w) ==
    /\ At(w, "away", "login") /\ row.account
    /\ IF IsComplete(References)
       THEN bindings' = bindings \cup {pair} /\ UNCHANGED walk
       ELSE Steps(w, "adopt") /\ UNCHANGED bindings
    /\ UNCHANGED <<address, row, staged, pair, submit, account, recipient, phase,
                   searched, deploys, faults>>

\* Nothing complete was read: promote this run's staged pair.
AdoptPromotes(w) ==
    /\ walk[w].pc = "adopt"
    /\ \/ /\ staged # None /\ pair.ids < MaxPromotions
          /\ pair' = Promoted /\ Steps(w, "reread")
       \/ staged = None /\ Goes(w, Away) /\ UNCHANGED pair
    /\ UNCHANGED <<address, row, staged, submit, account, recipient, phase,
                   searched, bindings, deploys, faults>>

AdoptRereads(w) ==
    /\ walk[w].pc = "reread"
    /\ bindings' = IF IsComplete(References) THEN bindings \cup {pair} ELSE bindings
    /\ Goes(w, Away)
    /\ UNCHANGED <<address, row, staged, pair, submit, account, recipient, phase,
                   searched, deploys, faults>>

----------------------------------------------------------------------------
Resume ==
    /\ phase = "paused" /\ phase' = "signup"
    /\ UNCHANGED <<address, row, staged, pair, submit, account, recipient, walk,
                   searched, bindings, deploys, faults>>

\* Another deployment: new processes, and perhaps another signup address.
Redeploy ==
    /\ deploys < MaxDeploys /\ deploys' = deploys + 1
    /\ address' \in Addresses /\ walk' = [w \in Workers |-> Away]
    /\ UNCHANGED <<row, staged, pair, submit, account, recipient, phase,
                   searched, bindings, faults>>

Reattach ==
    /\ row.session < MaxSession /\ row' = [row EXCEPT !.session = @ + 1]
    /\ UNCHANGED <<address, staged, pair, submit, account, recipient, phase, walk,
                   searched, bindings, deploys, faults>>

WalkDies(w) ==
    /\ walk[w].pc # "away" /\ Fault /\ Goes(w, Away)
    /\ UNCHANGED <<address, row, staged, pair, submit, account, recipient, phase,
                   searched, bindings, deploys>>

BindingsNext ==
    \/ Resume \/ Redeploy \/ Reattach
    \/ \E w \in Workers :
          \/ AdmitFromVault(w) \/ SignupIdentity(w) \/ StageSignupCredentials(w)
          \/ ReserveSubmission(w) \/ BindVerificationRecipient(w) \/ SubmitSignup(w)
          \/ Promote(w) \/ Commit(w) \/ VerificationContext(w)
          \/ AdoptStored(w) \/ AdoptPromotes(w) \/ AdoptRereads(w) \/ WalkDies(w)

BindingsSpec == BindingsInit /\ [][BindingsNext]_bindingsVars

----------------------------------------------------------------------------
\* The type of the state.
BindingsTypeOK ==
    /\ address \in Addresses /\ row \in [account : BOOLEAN, session : 0 .. MaxSession]
    /\ staged \in Addresses \cup {None} /\ account \in Addresses \cup {None}
    /\ pair \in [fields : SUBSET Fields, ids : 0 .. MaxPromotions]
    /\ submit \in {"absent", "pending", "failed", "outcome_unknown", "completed"}
    /\ recipient \in [address : Addresses \cup {None}, session : 0 .. MaxSession]
    /\ phase \in {"vault_check", "signup", "paused", "verification", "login"}
    /\ searched \subseteq Addresses \cup {None}
    /\ deploys \in 0 .. MaxDeploys /\ faults \in 0 .. MaxFaults

\* Whatever the deployment names by the time a retry submits, the account the
\* provider registers is the one whose password the vault holds.
AccountIsHeld == account # None => account = staged

\* The login route is bound to a whole pair of an account the run owns.
BoundIsComplete ==
    \A b \in bindings : row.account /\ b.fields = Fields

\* What fails after a rotation: "a deployment that rotates its signup alias
\* must not retarget a run that is mid-flight".  A signup driven again after
\* the submission records the new alias over the one it was submitted under.
VerifiesOwnAddress ==
    [][\A a \in searched' \ searched : account # None => a = account]_bindingsVars

\* What fails between two workers: "a re-driven re-route (a crash, a second
\* worker) rebinds the same references and promotes nothing".  Both read an
\* incomplete pair, both promote, and the second promotion deletes the rows
\* the first worker bound.
RebindsSameReferences ==
    [][\A b \in bindings : (bindings' # bindings /\ phase = "login") => bindings' \subseteq {b}]_bindingsVars
=============================================================================
