--------------------------- MODULE MCOutsideWorld ---------------------------
(***************************************************************************)
(* What a run does to the outside world and what it waits for from it, in  *)
(* one model: the effect-bearing handlers over the effect ledger; the      *)
(* verification messages of a shared mailbox; two runs that wait for a     *)
(* vendor's reply, a poller with room for both and an operator who polls   *)
(* by hand; one run at the gates it meets, and the advancer.  A behaviour  *)
(* is one of the four; the others stay where they start.  A configuration  *)
(* takes the Parts it asks about.  The fairness is that of the modules.    *)
(*                                                                         *)
(* One key per handler kind and two callers.  Keys never interact, so it   *)
(* is enough to let at most MaxKeysInUse of them be reserved in one        *)
(* behaviour: two show a caller moving from one key to another while the   *)
(* other caller, or a request of a dead one, is still busy with the first. *)
(***************************************************************************)
EXTENDS ExternalEffects, VerificationMailbox, OutreachReplies, GateAdvance, TLC

CONSTANTS signup, devapp, cred, mailing, session, c1, c2, MaxKeysInUse, Parts

VARIABLE part

MCKindOf ==
    (signup :> "signup_submit") @@ (devapp :> "create_dev_app")
    @@ (cred :> "generate_credential") @@ (mailing :> "send")
    @@ (session :> "start_session")

KeysInUse == Cardinality({k \in Keys : row[k].status # "absent"}) <= MaxKeysInUse

Resolver(run, engine, id) == [run |-> run, engine |-> engine, id |-> id]

\* Two canonical runs, one of them resolved by two callers, and two onboarding
\* runs, all at one address.
MCResolvers ==
    {Resolver("p", "canonical", 1), Resolver("o", "canonical", 1), Resolver("o", "canonical", 2),
     Resolver("d", "onboarding", 1), Resolver("e", "onboarding", 1)}

Regime(engine, faults, lost, shared) ==
    [engine |-> engine, faults |-> faults, lost |-> lost, shared |-> shared]

MCMailRegimes ==
    {Regime("canonical", f, FALSE, TRUE) : f \in BOOLEAN}
    \cup {Regime("onboarding", TRUE, FALSE, s) : s \in BOOLEAN}
    \cup {Regime("canonical", FALSE, TRUE, FALSE)}

MCRuns == 1..2
MCReplyRegimes == {[faults |-> f] : f \in BOOLEAN}

\* A retry on its own, and a crash with and without a failing write.
MCFaults == {{}, {"crash"}, {"crash", "write"}, {"retry"}}

\* The operator admitted the run on its profile; or the recipe speaks of the terms
\* and nobody saw where the gate is; or the admission names another profile.
Approved == [login |-> FALSE, recipe |-> FALSE, url |-> "inside", admitted |-> "profile",
             route |-> "signup", by |-> "operator"]
MCGrounds ==
    {Approved, [Approved EXCEPT !.recipe = TRUE, !.url = "none"],
     [Approved EXCEPT !.admitted = "other", !.login = TRUE]}

MCInit ==
    /\ part \in Parts
    /\ Init /\ (part # "effects" => key = [c \in Callers |-> signup])
    /\ VInit /\ (part # "mailbox" => mail = Regime("canonical", FALSE, FALSE, TRUE))
    /\ OInit /\ (part # "replies" => ~replies.faults)
    /\ AdvanceInit /\ (part # "gates" => authority = Approved /\ fault = {})

MCNext ==
    /\ UNCHANGED part
    /\ \/ part = "effects" /\ Next /\ UNCHANGED <<mailboxVars, replyVars, advanceVars>>
       \/ part = "mailbox" /\ VNext /\ UNCHANGED <<vars, replyVars, advanceVars>>
       \/ part = "replies" /\ ONext /\ UNCHANGED <<vars, mailboxVars, advanceVars>>
       \/ part = "gates" /\ AdvanceNext /\ UNCHANGED <<vars, mailboxVars, replyVars>>

MCSpec ==
    /\ MCInit /\ [][MCNext]_<<part, vars, mailboxVars, replyVars, advanceVars>>
    /\ WF_replyVars(part = "replies" /\ BeginCycle)
    /\ WF_replyVars(part = "replies" /\ CycleNext)
    /\ \A p \in Pollers : WF_replyVars(part = "replies" /\ Intake(p))
    /\ \A l \in Letters : WF_replyVars(part = "replies" /\ IngestionLapses(l))
    /\ WF_advanceVars(part = "gates" /\ AdvancerStep)

-----------------------------------------------------------------------------
\* Nothing that waits is forgotten: a vendor's reply is read in the end, and a login
\* wall (the gate with the longest ladder) is taken up or handed back.
WaitingIsServed == AnsweredRunIsRead /\ TakenUp("login_required")
=============================================================================
