-------------------------- MODULE OutreachReplies --------------------------
(***************************************************************************)
(* Replies to outreach mail (ops/runs/email.py, with the claims of         *)
(* ops/gmail/worker.py and ops/core/secret_store.py): the poller thread    *)
(* that serves the waiting runs oldest first under a budget, an operator   *)
(* who polls one run, and the intake of one reply: claim, classify, follow *)
(* up, commit, complete.                                                   *)
(*                                                                         *)
(* A run is its age rank, oldest first; a reply is its place in the run's  *)
(* thread.  Only the newest reply of a thread is ever read.                *)
(***************************************************************************)
EXTENDS Integers, Sequences, FiniteSets

CONSTANTS
    Outreach,           \* runs waiting for a vendor, by age
    PollBudget,         \* EMAIL_POLL_MAX_RUNS_PER_CYCLE
    MaxRounds,          \* max_outreach_rounds
    MaxReplies,         \* bound: replies in all threads
    MaxDeaths,          \* bound: process deaths
    ReplyRegimes        \* records [faults]: whether failures happen

ASSUME RepliesAssumption ==
    /\ IsFiniteSet(Outreach) /\ Outreach \subseteq Nat \ {0}
    /\ MaxRounds \in Nat /\ MaxReplies \in Nat /\ MaxDeaths \in Nat
    /\ ReplyRegimes \subseteq [faults : BOOLEAN]

VARIABLES
    orun,       \* each run's status
    thread,     \* each run's replies, by what they say
    claims,     \* <<run, reply>> -> its row in gmail_message_ingestions
    intake,     \* each poller's progress with one run
    cycle,      \* the runs left of the poller's pass
    follow,     \* <<run, reply>> -> its follow-up's row in the effect ledger
    sends, stored, applied,     \* per reply: follow-ups sent, credential rows, commits (up to 2)
    deaths, replies

replyVars == <<orun, thread, claims, intake, cycle, follow, sends, stored, applied, deaths, replies>>

\* What a reply may say, as far as the run's next status depends on it.
Says == {"credentials", "rejected", "question", "other"}
Letters == Outreach \X (1..MaxReplies)
Pollers == {"poller", "operator"}
Free == [pc |-> "idle", run |-> 0, msg |-> 0]
NoIngestion == [st |-> "none", live |-> FALSE]

OTypeOK ==
    /\ orun \in [Outreach -> {"waiting_for_reply", "completed", "blocked"}]
    /\ \A r \in Outreach : thread[r] \in Seq(Says) /\ Len(thread[r]) <= MaxReplies
    /\ \A p \in Pollers :
         /\ intake[p].pc \in {"idle", "read", "follow", "commit", "complete"}
         \* The run lock: nobody else takes in this run's mail.
         /\ intake[p].pc # "idle" => \A q \in Pollers \ {p} : intake[q].run # intake[p].run
         /\ intake[p].pc \in {"follow", "commit", "complete"} =>
              claims[<<intake[p].run, intake[p].msg>>].st = "processing"
    /\ cycle \subseteq Outreach
    /\ follow \in [Letters -> {"absent", "pending", "completed", "failed", "outcome_unknown"}]
    /\ deaths \in 0..MaxDeaths /\ replies \in ReplyRegimes

OInit ==
    /\ replies \in ReplyRegimes
    /\ orun = [r \in Outreach |-> "waiting_for_reply"] /\ thread = [r \in Outreach |-> <<>>]
    /\ claims = [l \in Letters |-> NoIngestion] /\ intake = [p \in Pollers |-> Free]
    /\ cycle = {} /\ follow = [l \in Letters |-> "absent"]
    /\ sends = [l \in Letters |-> 0] /\ stored = [l \in Letters |-> 0] /\ applied = [l \in Letters |-> 0]
    /\ deaths = 0

----------------------------------------------------------------------------
\* The vendor answers, or never does.
VendorReplies(r) ==
    /\ Cardinality({l \in Letters : l[2] <= Len(thread[l[1]])}) < MaxReplies
    /\ \E s \in Says : thread' = [thread EXCEPT ![r] = Append(@, s)]
    /\ UNCHANGED <<orun, claims, intake, cycle, follow, sends, stored, applied, deaths, replies>>

Waiting == {r \in Outreach : orun[r] = "waiting_for_reply"}
OldestOneShort(n) == {r \in Waiting : Cardinality({q \in Waiting : q < r}) < n - 1}
Oldest(n) == {r \in Waiting : Cardinality({q \in Waiting : q < r}) < n}

\* poll_waiting_runs: every page of the ledger is scanned, and of the waiting
\* runs the oldest are attempted.
BeginCycle ==
    /\ cycle = {} /\ intake["poller"].pc = "idle" /\ Waiting # {}
    /\ cycle' = Oldest(PollBudget)
    /\ UNCHANGED <<orun, thread, claims, intake, follow, sends, stored, applied, deaths, replies>>

\* poll_email's lock and its early refusals: a run somebody else polls, and one
\* that no longer waits.  A failing run costs its place in the pass.
Takes(p, r) ==
    IF orun[r] = "waiting_for_reply" /\ \A q \in Pollers \ {p} : intake[q].run # r
    THEN intake' = [intake EXCEPT ![p] = [Free EXCEPT !.pc = "read", !.run = r]]
    ELSE UNCHANGED intake

CycleNext ==
    /\ intake["poller"].pc = "idle"
    /\ \E r \in cycle : (\A q \in cycle : r <= q) /\ Takes("poller", r) /\ cycle' = cycle \ {r}
    /\ UNCHANGED <<orun, thread, claims, follow, sends, stored, applied, deaths, replies>>

OperatorPolls(r) ==
    /\ intake["operator"].pc = "idle" /\ Takes("operator", r) /\ intake' # intake
    /\ UNCHANGED <<orun, thread, claims, cycle, follow, sends, stored, applied, deaths, replies>>

Leaves(p) == intake' = [intake EXCEPT ![p] = Free]

StoresAgain(l) == [stored EXCEPT ![l] = IF claims[l].st # "completed" THEN @ + 1 ELSE @]

\* _insert_email_credentials, in the transaction that inserts the claim; a
\* claim taken again answers with the references it has.
Stores(l) == [stored EXCEPT ![l] = IF claims[l].st = "none" THEN @ + 1 ELSE @]

\* begin_gmail_message_ingestion
Acquirable(l) == claims[l].st # "completed" /\ ~claims[l].live

\* _latest_exact_inbound, then claim_outreach_reply.  No reply, one that was
\* taken in and one that is being taken in all end the poll.
ClaimReply(p) ==
    LET r == intake[p].run
        l == <<r, Len(thread[r])>>
    IN  /\ intake[p].pc = "read"
        /\ IF Len(thread[r]) = 0 \/ ~Acquirable(l)
           THEN Leaves(p) /\ UNCHANGED <<claims, stored>>
           ELSE /\ claims' = [claims EXCEPT ![l] = [st |-> "processing", live |-> TRUE]]
                /\ stored' = Stores(l)
                /\ intake' = [intake EXCEPT ![p].pc = "follow", ![p].msg = l[2]]
        /\ UNCHANGED <<orun, thread, cycle, follow, sends, applied, deaths, replies>>

Letter(p) == <<intake[p].run, intake[p].msg>>
Said(p) == thread[intake[p].run][intake[p].msg]

\* A question is answered in the first rounds of a thread.
Asks(p) == Said(p) = "question" /\ intake[p].msg <= MaxRounds

\* GmailWorker.reply under the key of the inbound message: completed before,
\* unsettled before, or sent now.
Sendable(st) == st \in {"absent", "failed"}

FollowUp(p) ==
    LET l == Letter(p) IN
    /\ intake[p].pc = "follow"
    /\ \/ /\ ~(Asks(p) /\ Sendable(follow[l]))
          /\ intake' = [intake EXCEPT ![p].pc = "commit"] /\ UNCHANGED <<follow, sends>>
       \/ /\ Asks(p) /\ Sendable(follow[l])
          /\ \/ /\ follow' = [follow EXCEPT ![l] = "completed"] /\ sends' = [sends EXCEPT ![l] = @ + 1]
             \* A refusal is settled as failed, a lost answer as unknown.
             \/ replies.faults /\ follow' = [follow EXCEPT ![l] = "failed"] /\ UNCHANGED sends
             \/ /\ replies.faults /\ follow' = [follow EXCEPT ![l] = "outcome_unknown"]
                /\ sends' \in {sends, [sends EXCEPT ![l] = @ + 1]}
          /\ intake' = [intake EXCEPT ![p].pc = "commit"]
    /\ UNCHANGED <<orun, thread, claims, cycle, stored, applied, deaths, replies>>

\* The next status by the reply's class.
NextStatus(s) ==
    CASE s = "credentials" -> "completed" [] s = "rejected" -> "blocked" [] OTHER -> "waiting_for_reply"

\* The unit of work: status and the reply_received event.
CommitReply(p) ==
    /\ intake[p].pc = "commit"
    /\ orun' = [orun EXCEPT ![intake[p].run] = NextStatus(Said(p))]
    /\ applied' = [applied EXCEPT ![Letter(p)] = IF @ < 2 THEN @ + 1 ELSE @]
    /\ intake' = [intake EXCEPT ![p].pc = "complete"]
    /\ UNCHANGED <<thread, claims, cycle, follow, sends, stored, deaths, replies>>

\* Anything that raises before the commit releases the claim.
IntakeFails(p) ==
    /\ replies.faults /\ intake[p].pc \in {"follow", "commit"}
    /\ claims' = [claims EXCEPT ![Letter(p)].live = FALSE]
    /\ Leaves(p)
    /\ UNCHANGED <<orun, thread, cycle, follow, sends, stored, applied, deaths, replies>>

\* complete_gmail_message_ingestion: the run lock keeps the claim this poll's
\* own.  A completion that fails raises ingestion_finalize_failed; the row stays.
CompleteReply(p) ==
    /\ intake[p].pc = "complete"
    /\ \/ claims' = [claims EXCEPT ![Letter(p)] = [st |-> "completed", live |-> FALSE]]
       \/ replies.faults /\ UNCHANGED claims
    /\ Leaves(p)
    /\ UNCHANGED <<orun, thread, cycle, follow, sends, stored, applied, deaths, replies>>

\* Fifteen minutes pass; no intake takes that long.
IngestionLapses(l) ==
    /\ claims[l].live /\ \A p \in Pollers : intake[p].pc \in {"idle", "read"} \/ Letter(p) # l
    /\ claims' = [claims EXCEPT ![l].live = FALSE]
    /\ UNCHANGED <<orun, thread, intake, cycle, follow, sends, stored, applied, deaths, replies>>

\* The process dies, also between the provider's send and the receipt.
ApiDies ==
    /\ replies.faults /\ deaths < MaxDeaths
    /\ deaths' = deaths + 1 /\ intake' = [p \in Pollers |-> Free] /\ cycle' = {}
    /\ \/ UNCHANGED <<follow, sends>>
       \/ \E p \in Pollers :
            /\ intake[p].pc = "follow" /\ Asks(p) /\ Sendable(follow[Letter(p)])
            /\ follow' = [follow EXCEPT ![Letter(p)] = "pending"]
            /\ sends' \in {sends, [sends EXCEPT ![Letter(p)] = @ + 1]}
    /\ UNCHANGED <<orun, thread, claims, stored, applied, replies>>

Intake(p) == ClaimReply(p) \/ FollowUp(p) \/ CommitReply(p) \/ IntakeFails(p) \/ CompleteReply(p)

ONext ==
    \/ \E r \in Outreach : VendorReplies(r) \/ OperatorPolls(r)
    \/ BeginCycle \/ CycleNext \/ ApiDies
    \/ \E p \in Pollers : Intake(p)
    \/ \E l \in Letters : IngestionLapses(l)

\* The daemon loops for ever and every poll returns.
OFairness ==
    /\ WF_replyVars(BeginCycle) /\ WF_replyVars(CycleNext)
    /\ \A p \in Pollers : WF_replyVars(Intake(p))
    /\ \A l \in Letters : WF_replyVars(IngestionLapses(l))

OSpec == OInit /\ [][ONext]_replyVars /\ OFairness

----------------------------------------------------------------------------
\* A question is answered at most once, and a thread at most max_outreach_rounds
\* times, whatever fails or dies between the send and the commit (poll_email).
FollowUpsAreBounded ==
    /\ \A l \in Letters : sends[l] <= 1 /\ (sends[l] = 1 => l[2] <= MaxRounds)
    /\ \A r \in Outreach : Cardinality({l \in Letters : l[1] = r /\ sends[l] > 0}) <= MaxRounds

\* A reply's credentials are vaulted once, also when its claim is taken again
\* (begin_gmail_message_ingestion), and before the run completes on them.
CredentialsStoredOnce ==
    /\ \A l \in Letters : stored[l] <= 1
    /\ \A r \in Outreach : orun[r] = "completed" =>
          \E i \in 1..Len(thread[r]) : thread[r][i] = "credentials" /\ stored[<<r, i>>] = 1

\* A reply is applied to its run once, whoever polls it -- as long as every
\* commit is followed by its completion.
AppliedOnce == ~replies.faults => \A l \in Letters : applied[l] <= 1

\* The same with failures: "Idempotent: poll_email acts only on a genuinely new
\* inbound reply" (poll_waiting_runs).
ActsOnNewRepliesOnly == \A l \in Letters : applied[l] <= 1

\* poll_email, called by the poller and by an operator, with deaths and failures
\* between any two of its writes: a question is followed up once and within the
\* rounds, a reply's credentials are vaulted once, and a reply is applied once.
RepliesSafety == OTypeOK /\ FollowUpsAreBounded /\ CredentialsStoredOnce /\ AppliedOnce

Unread(r) == orun[r] = "waiting_for_reply" /\ Len(thread[r]) > 0 /\ claims[<<r, Len(thread[r])>>].st = "none"

\* A reply of a waiting run is read in the end, as long as the budget covers
\* every waiting run (poll_waiting_runs, _poller_loop).
AnsweredRunIsRead ==
    PollBudget >= Cardinality(Outreach) => \A r \in Outreach : Unread(r) ~> ~Unread(r)

\* The same under any budget: "Oldest-first drains: whatever is served
\* completes and leaves the waiting set." (poll_waiting_runs)
OldestFirstDrains == \A r \in Outreach : Unread(r) ~> ~Unread(r)
=============================================================================
