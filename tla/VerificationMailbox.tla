------------------------ MODULE VerificationMailbox ------------------------
(***************************************************************************)
(* Emailed verification codes and links: the inbox of one connected        *)
(* account, the runs of one vendor that wait for a message in it, and the  *)
(* two exactly-once schemes they claim it with.  A canonical run reserves  *)
(* the message in the effect ledger (ops/gmail/worker.py,                  *)
(* ops/runs/verification.py); an onboarding run takes an ingestion lease   *)
(* in the vault (ops/gmail/verification_provider.py, secret_store.py and   *)
(* the driver's await_verification).  Neither reads the other's rows.      *)
(*                                                                         *)
(* A message is its position in the inbox, oldest first.                   *)
(***************************************************************************)
EXTENDS Integers, Sequences, FiniteSets

CONSTANTS
    Resolvers,      \* records [run, engine, id]: the callers that read the inbox
    MaxMail,        \* bound: messages delivered
    MaxReads,       \* bound: reads of the inbox
    MailRegimes     \* records [engine, faults, lost, shared]: whose runs, which hazards

VRuns == {c.run : c \in Resolvers}
OnboardingRuns == {c.run : c \in {d \in Resolvers : d.engine = "onboarding"}}
CanonicalRuns == VRuns \ OnboardingRuns
Nobody == "nobody"

\* A run is of one engine, and has a name of its own.
ASSUME MailboxAssumption ==
    /\ MaxMail \in Nat
    /\ \A c \in Resolvers : c.engine \in {"canonical", "onboarding"} /\ c.run # Nobody
    /\ \A c, d \in Resolvers : c.run = d.run => c.engine = d.engine
    /\ MailRegimes \subseteq [engine : {"canonical", "onboarding"}, faults : BOOLEAN,
                              lost : BOOLEAN, shared : BOOLEAN]

VARIABLES
    inbox,      \* messages: whose challenge each answers, and whether it binds
    vrun,       \* each run's gate and the time of its challenge
    reader,     \* each resolver's progress
    reads,      \* reads of the inbox so far
    ledger,     \* message -> status of its row in external_effects
    lease,      \* message -> its row in gmail_message_ingestions
    typed,      \* <<message, run>> -> how often the browser was given the secret
    accepted,   \* <<message, run>> pairs whose page reported success
    mail        \* the regime

mailboxVars == <<inbox, vrun, reader, reads, ledger, lease, typed, accepted, mail>>

Mail == 1..MaxMail
NoLease == [owner |-> Nobody, st |-> "none", live |-> FALSE]
AtRest == [pc |-> "idle", msg |-> 0, seen |-> 0, skipped |-> {}, end |-> "none"]
RunSt == {"none", "waiting", "resumed", "verified", "paused"}

VTypeOK ==
    /\ inbox \in Seq([for: VRuns, binds: BOOLEAN]) /\ Len(inbox) <= MaxMail
    /\ vrun \in [VRuns -> [st: RunSt, since: 0..MaxMail]]
    /\ \A c \in Resolvers :
         /\ reader[c].pc \in {"idle", "claim", "use", "end"} /\ reader[c].msg \in 0..MaxMail
         /\ reader[c].skipped \subseteq Mail /\ reader[c].end \in {"none", "complete", "release", "unknown"}
         \* Whoever is about to use a message holds its claim.
         /\ reader[c].pc \in {"use", "end"} =>
              IF c.engine = "canonical" THEN ledger[reader[c].msg] = "pending"
              ELSE lease[reader[c].msg].owner = c.run /\ lease[reader[c].msg].st = "processing"
    /\ ledger \in [Mail -> {"absent", "pending", "failed", "completed", "outcome_unknown"}]
    /\ \A m \in Mail : lease[m].owner \in VRuns \cup {Nobody}
    /\ typed \in [Mail \X VRuns -> Nat] /\ accepted \subseteq Mail \X VRuns
    /\ mail \in MailRegimes

VInit ==
    /\ mail \in MailRegimes
    /\ inbox = <<>> /\ vrun = [r \in VRuns |-> [st |-> "none", since |-> 0]]
    /\ reader = [c \in Resolvers |-> AtRest] /\ reads = 0
    /\ ledger = [m \in Mail |-> "absent"] /\ lease = [m \in Mail |-> NoLease]
    /\ typed = [p \in Mail \X VRuns |-> 0] /\ accepted = {}

----------------------------------------------------------------------------
(* The vendor and the run's gate.                                          *)

\* A run reaches its gate: verification_requested_at, or the boundary into
\* email_verification.
Challenge(r) ==
    /\ vrun[r].st \in {"none", "resumed"} /\ \E c \in Resolvers : c.run = r /\ c.engine = mail.engine
    /\ vrun' = [vrun EXCEPT ![r] = [st |-> "waiting", since |-> Len(inbox)]]
    /\ UNCHANGED <<inbox, reader, reads, ledger, lease, typed, accepted, mail>>

\* The vendor answers a challenge.  binds: the recipient, sender, timestamp and
\* secret all pass the selector's checks.
Delivered(r) ==
    /\ vrun[r].st = "waiting" /\ Len(inbox) < MaxMail
    /\ \E b \in BOOLEAN : inbox' = Append(inbox, [for |-> r, binds |-> b])
    /\ UNCHANGED <<vrun, reader, reads, ledger, lease, typed, accepted, mail>>

----------------------------------------------------------------------------
(* select_verification                                                     *)

\* bind_recipient: runs at one address cannot be told apart; runs with a
\* plus-tag each can (tag_conflict, recipient_tag_missing).
BindRecipient(r, m) == mail.shared \/ inbox[m].for = r

\* Before any is passed over.
SelectableSeen(c) ==
    {m \in 1..reader[c].seen : /\ inbox[m].binds /\ BindRecipient(c.run, m) /\ m > vrun[c.run].since}

SelectableUntilClaimed(c) == IF reader[c].skipped = {} THEN SelectableSeen(c) ELSE {}

\* Fresh, newer than the challenge, bound, reviewed, authenticated and carrying
\* a secret; a message this read already found claimed is passed over.
Selectable(c) ==
    {m \in 1..reader[c].seen : /\ inbox[m].binds /\ BindRecipient(c.run, m)
                               /\ m > vrun[c.run].since /\ m \notin reader[c].skipped}

\* _order_newest_first
Newest(S) == CHOOSE m \in S : \A n \in S : n <= m

----------------------------------------------------------------------------
(* Canonical runs: fetch_verification and resolve_email_verification.      *)

\* resolve_email_verification: only a run waiting at the email_otp gate.  The
\* candidates are one read of the inbox.
BeginRead(c) ==
    /\ reader[c].pc = "idle" /\ vrun[c.run].st = "waiting" /\ reads < MaxReads
    /\ reader' = [reader EXCEPT ![c] = [AtRest EXCEPT !.pc = "claim", !.seen = Len(inbox)]]
    /\ reads' = reads + 1
    /\ UNCHANGED <<inbox, vrun, ledger, lease, typed, accepted, mail>>

\* _claim_verification over SQLiteEffectStore.reserve: a settled or unsettled
\* earlier claim makes the reader consider an older message.
Claimable(st) == st \in {"absent", "failed"}

ClaimVerification(c) ==
    /\ c.engine = "canonical" /\ reader[c].pc = "claim"
    /\ IF Selectable(c) = {} THEN reader' = [reader EXCEPT ![c] = AtRest] /\ UNCHANGED ledger
       ELSE LET m == Newest(Selectable(c)) IN
            \/ /\ Claimable(ledger[m])
               /\ ledger' = [ledger EXCEPT ![m] = "pending"]
               /\ reader' = [reader EXCEPT ![c].pc = "use", ![c].msg = m]
            \/ /\ ~Claimable(ledger[m])
               /\ reader' = [reader EXCEPT ![c].skipped = @ \cup {m}] /\ UNCHANGED ledger
            \* The ledger cannot be used: verification_claim_failed.
            \/ mail.faults /\ reader' = [reader EXCEPT ![c] = AtRest] /\ UNCHANGED ledger
    /\ UNCHANGED <<inbox, vrun, reads, lease, typed, accepted, mail>>

Ends(c, how) == reader' = [reader EXCEPT ![c].pc = "end", ![c].end = how]
Types(c) == typed' = [typed EXCEPT ![<<reader[c].msg, c.run>>] = @ + 1]

\* resume_run with the secret as browser_login: typed and acknowledged, ...
Resumed(c) ==
    /\ vrun[c.run].st = "waiting" /\ Types(c) /\ Ends(c, "complete")
    /\ vrun' = [vrun EXCEPT ![c.run].st = "resumed"]

\* ... refused under the run lock or by the run's status before the browser, ...
ResumeRefused(c) ==
    /\ vrun[c.run].st # "waiting" \/ \E o \in Resolvers \ {c} : o.run = c.run /\ reader[o].pc = "use"
    /\ Ends(c, "release") /\ UNCHANGED <<typed, vrun>>

\* ... the browser session lost before the injection (session_lost,
\* browser_unavailable), or a broker failure that leaves the run at its gate
\* and is reported as an ordinary result, ...
ResumeMissed(c) ==
    /\ mail.faults /\ vrun[c.run].st = "waiting" /\ \E how \in {"release", "complete"} : Ends(c, how)
    /\ UNCHANGED <<typed, vrun>>

\* ... an exception at a point the caller cannot tell, ...
ResumeRaised(c) ==
    /\ mail.faults /\ vrun[c.run].st = "waiting" /\ Ends(c, "unknown")
    /\ Types(c) \/ UNCHANGED typed
    /\ UNCHANGED vrun

\* ... or typed, and refused when the observation is projected: the same
\* RunConflictError as a refusal before the browser.
ResumeDiscarded(c) ==
    /\ mail.lost /\ vrun[c.run].st = "waiting" /\ Types(c) /\ Ends(c, "release")
    /\ UNCHANGED vrun

UseVerification(c) ==
    /\ c.engine = "canonical" /\ reader[c].pc = "use"
    /\ Resumed(c) \/ ResumeRefused(c) \/ ResumeMissed(c) \/ ResumeRaised(c) \/ ResumeDiscarded(c)
    /\ UNCHANGED <<inbox, reads, ledger, lease, accepted, mail>>

\* complete_verification_claim, release_verification_claim (mark_failed) and
\* mark_verification_claim_outcome_unknown.
EndClaim(c) ==
    /\ c.engine = "canonical" /\ reader[c].pc = "end"
    /\ ledger' = [ledger EXCEPT ![reader[c].msg] =
                     CASE reader[c].end = "complete" -> "completed"
                       [] reader[c].end = "release" -> "failed"
                       [] reader[c].end = "unknown" -> "outcome_unknown"]
    /\ reader' = [reader EXCEPT ![c] = AtRest]
    /\ UNCHANGED <<inbox, vrun, reads, lease, typed, accepted, mail>>

----------------------------------------------------------------------------
(* Onboarding runs: await_verification.                                    *)

\* begin_gmail_message_ingestion: another run's message is answered as one that
\* was consumed, its own as held until the lease runs out.
BeginGmailIngestion(m, r) ==
    IF lease[m].st = "none" THEN "acquired"
    ELSE IF lease[m].st = "completed" \/ lease[m].owner # r THEN "completed"
    ELSE IF lease[m].live THEN "busy" ELSE "acquired"

\* A message whose consumption is settled advances the run (Requirement 7.24);
\* one that is held defers it.
Advances(answer) == answer = "completed"

AwaitClaims(c) ==
    /\ c.engine = "onboarding" /\ reader[c].pc = "claim"
    /\ IF Selectable(c) = {} THEN reader' = [reader EXCEPT ![c] = AtRest] /\ UNCHANGED <<lease, vrun>>
       ELSE LET m == Newest(Selectable(c))
                answer == BeginGmailIngestion(m, c.run)
            IN  \/ /\ answer = "acquired"
                   /\ lease' = [lease EXCEPT ![m] = [owner |-> c.run, st |-> "processing", live |-> TRUE]]
                   /\ reader' = [reader EXCEPT ![c].pc = "use", ![c].msg = m] /\ UNCHANGED vrun
                \/ /\ answer # "acquired" /\ reader' = [reader EXCEPT ![c] = AtRest]
                   /\ vrun' = IF Advances(answer) THEN [vrun EXCEPT ![c.run].st = "verified"] ELSE vrun
                   /\ UNCHANGED lease
    /\ UNCHANGED <<inbox, reads, ledger, typed, accepted, mail>>

\* navigate_verification_link or inject_one_time_code, then a fresh observation
\* that decides between settle and release.  A link outside the allow-list
\* pauses the run with its claim released; an exception leaves the claim held.
InjectVerification(c) ==
    /\ c.engine = "onboarding" /\ reader[c].pc = "use"
    /\ \/ /\ Types(c) /\ Ends(c, "complete") /\ accepted' = accepted \cup {<<reader[c].msg, c.run>>}
          /\ UNCHANGED vrun
       \/ Types(c) /\ Ends(c, "release") /\ UNCHANGED <<vrun, accepted>>
       \/ /\ Ends(c, "release")
          /\ vrun' = [vrun EXCEPT ![c.run].st = "paused"] /\ UNCHANGED <<typed, accepted>>
       \/ /\ mail.faults /\ reader' = [reader EXCEPT ![c] = AtRest]
          /\ Types(c) \/ UNCHANGED typed
          /\ UNCHANGED <<vrun, accepted>>
    /\ UNCHANGED <<inbox, reads, ledger, lease, mail>>

\* complete_gmail_message_ingestion and release_gmail_message_ingestion.
SettleVerification(c) ==
    /\ c.engine = "onboarding" /\ reader[c].pc = "end"
    /\ \/ /\ reader[c].end = "complete"
          /\ lease' = [lease EXCEPT ![reader[c].msg].st = "completed", ![reader[c].msg].live = FALSE]
          /\ vrun' = [vrun EXCEPT ![c.run].st = "verified"]
       \/ /\ reader[c].end = "release"
          /\ lease' = [lease EXCEPT ![reader[c].msg].live = FALSE] /\ UNCHANGED vrun
    /\ reader' = [reader EXCEPT ![c] = AtRest]
    /\ UNCHANGED <<inbox, reads, ledger, typed, accepted, mail>>

LeaseLapses(m) ==
    /\ lease[m].live /\ \A c \in Resolvers : reader[c].pc \in {"idle", "claim"} \/ reader[c].msg # m
    /\ lease' = [lease EXCEPT ![m].live = FALSE]
    /\ UNCHANGED <<inbox, vrun, reader, reads, ledger, typed, accepted, mail>>

\* The process dies: what it had claimed stays claimed.
ReaderDies(c) ==
    /\ mail.faults /\ reader[c].pc # "idle" /\ reader' = [reader EXCEPT ![c] = AtRest]
    /\ UNCHANGED <<inbox, vrun, reads, ledger, lease, typed, accepted, mail>>

VNext ==
    \/ \E r \in VRuns : Challenge(r) \/ Delivered(r)
    \/ \E c \in Resolvers : \/ BeginRead(c) \/ ClaimVerification(c) \/ UseVerification(c) \/ EndClaim(c)
                            \/ AwaitClaims(c) \/ InjectVerification(c) \/ SettleVerification(c) \/ ReaderDies(c)
    \/ \E m \in Mail : LeaseLapses(m)

VSpec == VInit /\ [][VNext]_mailboxVars

----------------------------------------------------------------------------
CanonicalUses(m) == {r \in CanonicalRuns : typed[<<m, r>>] > 0}

\* One message is given to one browser of a canonical run once, whoever reads
\* the inbox in between, and stays refused after an outcome nobody knows
\* (fetch_verification) -- unless an observation is refused after the use.
CodeIsUsedOnce ==
    ~mail.lost => \A m \in Mail : /\ Cardinality(CanonicalUses(m)) <= 1
                                  /\ \A r \in CanonicalRuns : typed[<<m, r>>] <= 1

\* The same without the exception: "These failures happen before the browser
\* accepts the one-time value, so the reservation can safely be retried."
ReleasedIsUnused == \A m \in Mail, r \in CanonicalRuns : typed[<<m, r>>] <= 1

\* An onboarding run's message is never given to another onboarding run, also
\* after its lease ran out (begin_gmail_message_ingestion).
LeaseIsPinned ==
    \A m \in Mail : Cardinality({r \in OnboardingRuns : typed[<<m, r>>] > 0}) <= 1

\* A run that advanced past its verification saw its page accept a message of
\* its own -- as long as no two runs share an address.
VerifiedByOwnMessage ==
    ~mail.shared => \A r \in OnboardingRuns : vrun[r].st = "verified" => \E m \in Mail : <<m, r>> \in accepted

\* The same for runs of one address: "this run already consumed the message on
\* an earlier attempt, so the provider-side verification already happened."
AdvancedIsVerified ==
    \A r \in OnboardingRuns : vrun[r].st = "verified" => \E m \in Mail : <<m, r>> \in accepted

\* A claimed message does not hide an older one: a read that finds nothing has
\* found every message it could use claimed by somebody (fetch_verification).
EmptyHandedMeansClaimed ==
    [][\A c \in Resolvers :
          c.engine = "canonical" /\ reader[c].pc = "claim" /\ reader'[c].pc = "idle" /\ ~mail.faults
          => \A m \in SelectableSeen(c) : ledger[m] \notin {"absent"}]_mailboxVars

\* However many runs read one mailbox, and whoever dies between a claim and its
\* use: a code is typed once, a lease stays with the run it was given to, a run
\* verified by a message was sent that message, and a resolver that leaves
\* empty-handed while a message of its own is in the box has left it to a claim
\* somebody made.
MailboxSafety ==
    /\ [](VTypeOK /\ CodeIsUsedOnce /\ LeaseIsPinned /\ VerifiedByOwnMessage)
    /\ EmptyHandedMeansClaimed
=============================================================================
