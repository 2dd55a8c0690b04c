-------------------------- MODULE CredentialProof --------------------------
(***************************************************************************)
(* From a minted credential to published provider configuration:           *)
(* capture_store_validate_publish (ops/onboarding/credentials.py) with its *)
(* collaborators - the capture contract of the bound profile               *)
(* (capture_specs.py), the validation policy and the read-only probe       *)
(* (ops/credentials/validator.py), the vault's lifecycle status, and the   *)
(* publisher over managed auth (ops/onboarding/publishers.py).             *)
(*                                                                         *)
(* One run; a lapsed lease lets a second worker into the same phase, and a *)
(* worker may die between any two durable writes.  A generation is one     *)
(* mint: its reservation, its vault row, its probes.  The connection at    *)
(* Composio is made under an effect identity of the run.                   *)
(***************************************************************************)
EXTENDS Naturals, FiniteSets

CONSTANTS
    Workers,        \* worker processes that may drive the run
    Generations,    \* CredentialBudgets.generations
    Attempts,       \* CredentialBudgets.validation_attempts
    MaxProbes,      \* bound on the attempts counted
    MaxFaults       \* bound on lost answers and deaths

ProofAssumption ==
    /\ Generations \in Nat \ {0} /\ Attempts \in Nat \ {0}
    /\ MaxProbes \in Nat /\ MaxFaults \in Nat
    /\ IsFiniteSet(Workers)

\* The counter moves once per worker that found the last budgeted-for
\* generation invalid, so rivals can carry it past the budget.
Mints == 0 .. Generations + Cardinality(Workers)

VARIABLES
    fact,       \* what the profile, the recipe and research say of the provider
    phase,      \* the run: driving, paused or completed
    mint,       \* the reservation of each generation
    vault,      \* credential_status of the row each generation captured
    generation, \* the durable generation counter
    attempts,   \* the durable validation attempt counter
    link,       \* the reservation of each effect identity at managed auth
    linked,     \* connections Composio holds for each effect identity
    recorded,   \* runs.connection_request_id: the identity it was linked under, if any
    timeline,   \* generations the published events name
    walk,       \* per worker: step, generation in hand, attempts used
    proven,     \* history: generations a probe called valid
    sent,       \* history: <<generation, where its value went, its row's status>>
    faults

proofVars == <<fact, phase, mint, vault, generation, attempts, link, linked,
               recorded, timeline, walk, proven, sent, faults>>

None == "none"
Away == [pc |-> "away", gen |-> 0, used |-> 0]

\* reviewed: a NetworkEndpointPolicy entry; research: the endpoint research
\* supplied; scheme: VALIDATION_AUTH_SCHEMES of the run's credential kind;
\* contract: what the broker finds to capture against.
Facts == [reviewed : BOOLEAN, research : {"absent", "malformed", "vendor", "elsewhere"},
          scheme : {"bearer", "unprovable"},
          contract : {"recipe", "bound", "unbound", "altered", "no_entry"}]

\* plan_effect: the row a reservation leaves, and the disposition it gives.
Reserved(row) == IF row \in {"absent", "failed"} THEN "pending" ELSE row
Plan(row) == IF row = "completed" THEN "skip"
             ELSE IF row \in {"absent", "failed"} THEN "execute" ELSE "reconcile"

\* publication_effect_identity: the run and nothing else.
\* a bug the runs must notice: the identity names the reference
IdentityPerReference(g) == g
PublicationEffectIdentity(g) == 0

ProofInit ==
    /\ fact \in Facts /\ phase = "driving"
    /\ mint = [g \in Mints |-> "absent"] /\ vault = [g \in Mints |-> "absent"]
    /\ generation = 0 /\ attempts = 0
    /\ link = [g \in Mints |-> "absent"] /\ linked = [g \in Mints |-> 0]
    /\ recorded = {} /\ timeline = {}
    /\ walk = [w \in Workers |-> Away]
    /\ proven = {} /\ sent = {} /\ faults = 0

Goes(w, changed) == walk' = [walk EXCEPT ![w] = changed]
Steps(w, pc) == Goes(w, [walk[w] EXCEPT !.pc = pc])
Fault == faults < MaxFaults /\ faults' = faults + 1

\* An exception leaves the walk: the worker is done with the run for now and
\* the durable phase stays where it is.
Raises(w) == Goes(w, Away)

\* CredentialStep.pause, committed by the driver; a run that ended stays ended.
Pauses(w) == Goes(w, Away) /\ phase' = IF phase = "driving" THEN "paused" ELSE phase

----------------------------------------------------------------------------
(***************************************************************************)
(* What may be probed, and what may be captured.                           *)
(***************************************************************************)

\* _admitted_validation_endpoint: the reviewed entry, else the research
\* endpoint when it is well formed and on the profile's registrable domain.
AdmittedValidationEndpoint(f) ==
    IF f.reviewed THEN "reviewed"
    ELSE IF f.research = "vendor" THEN f.research ELSE None

\* profile_validation_policy: a kind only a bearer probe proves, and an
\* endpoint; CredentialValidationPolicy's own checks hold of such a pair.
ValidationPolicy(f) ==
    IF f.scheme = "bearer" THEN AdmittedValidationEndpoint(f) ELSE None

\* _minting_flow: some declared flow mints the kind and names its entry URL.
MintingFlow(f) == f.contract # "no_entry"

\* The broker's contract: the reviewed recipe, else profile_capture_contract,
\* which refuses an unbound profile and one whose body no longer has the
\* digest the run recorded.
CaptureContract(f) == f.contract \notin {"unbound", "altered"} /\ MintingFlow(f)

----------------------------------------------------------------------------
(***************************************************************************)
(* The lifecycle.                                                          *)
(***************************************************************************)

\* An unprovable credential is not minted.
Enter(w) ==
    /\ walk[w].pc = "away" /\ phase = "driving"
    /\ IF ValidationPolicy(fact) = None THEN Pauses(w)
       ELSE /\ Goes(w, [Away EXCEPT !.pc = "store", !.gen = generation])
            /\ UNCHANGED phase
    /\ UNCHANGED <<fact, mint, vault, generation, attempts, link, linked, recorded,
                   timeline, proven, sent, faults>>

\* Retry Current Step, or a resume of the paused run.
Retry ==
    /\ phase = "paused" /\ phase' = "driving"
    /\ UNCHANGED <<fact, mint, vault, generation, attempts, link, linked, recorded,
                   timeline, walk, proven, sent, faults>>

\* _recomposed_reference: a completed mint's receipt names the row of its own
\* generation, in the run's own app and kind.
RecomposedReference(g) == mint[g] = "completed"

\* _stored_reference: adopt the recorded reference, capture, or pause.
StoredReference(w) ==
    LET g == walk[w].gen IN
    /\ walk[w].pc = "store"
    /\ mint' = [mint EXCEPT ![g] = Reserved(mint[g])]
    /\ CASE Plan(mint[g]) = "skip" /\ RecomposedReference(g) -> Steps(w, "count") /\ UNCHANGED phase
         [] Plan(mint[g]) = "execute" -> Steps(w, "capture") /\ UNCHANGED phase
         [] OTHER -> Pauses(w)
    /\ UNCHANGED <<fact, vault, generation, attempts, link, linked, recorded,
                   timeline, proven, sent, faults>>

\* A session that cannot be armed renders nothing; the reservation stays open.
Unarmed(w) ==
    /\ walk[w].pc = "capture" /\ Fault /\ Pauses(w)
    /\ UNCHANGED <<fact, mint, vault, generation, attempts, link, linked, recorded,
                   timeline, proven, sent>>

\* The broker writes the row before it answers.
Capture(w) ==
    LET g == walk[w].gen IN
    /\ walk[w].pc = "capture" /\ CaptureContract(fact)
    /\ vault' = [vault EXCEPT ![g] = "active"]
    /\ Steps(w, "captured")
    /\ UNCHANGED <<fact, phase, mint, generation, attempts, link, linked, recorded,
                   timeline, proven, sent, faults>>

\* No contract, a transport error, or an answer lost after the row was
\* written: ambiguous, and no second mint under this key.
CaptureFails(w) ==
    LET g == walk[w].gen IN
    /\ walk[w].pc \in {"capture", "captured"}
    /\ IF walk[w].pc = "capture" /\ ~CaptureContract(fact) THEN UNCHANGED faults ELSE Fault
    /\ mint' = [mint EXCEPT ![g] = IF @ = "pending" THEN "outcome_unknown" ELSE @]
    /\ Pauses(w)
    /\ UNCHANGED <<fact, vault, generation, attempts, link, linked, recorded,
                   timeline, proven, sent>>

CompleteCapture(w) ==
    LET g == walk[w].gen IN
    /\ walk[w].pc = "captured"
    /\ mint' = [mint EXCEPT ![g] = "completed"]
    /\ Steps(w, "count")
    /\ UNCHANGED <<fact, phase, vault, generation, attempts, link, linked, recorded,
                   timeline, proven, sent, faults>>

\* The storage boundaries are durable (OnboardingDriver has them); the attempt
\* is counted before it is made.
NextValidationAttempt(w) ==
    /\ walk[w].pc = "count" /\ attempts < MaxProbes
    /\ attempts' = attempts + 1
    /\ Goes(w, [walk[w] EXCEPT !.pc = "probe", !.used = attempts + 1])
    /\ UNCHANGED <<fact, phase, mint, vault, generation, link, linked, recorded,
                   timeline, proven, sent, faults>>

\* CredentialValidator.validate, by what came back.  A policy of a profile
\* names no account path, so any 2xx is the whole proof.
Verdict == [ok |-> "valid", refused |-> "invalid", busy |-> "unavailable",
            unreachable |-> "unavailable", protocol_error |-> "failed",
            unexpected |-> "failed"]

\* secret_store.get: an abandoned row is as good as absent.
Resolves(g) == vault[g] = "active"

\* What the walk does next with a verdict; the attempts used are those counted.
AfterVerdict(w, verdict) ==
    IF verdict = "valid" THEN Steps(w, "publish") /\ UNCHANGED phase
    ELSE IF verdict = "invalid" THEN Steps(w, "retire") /\ UNCHANGED phase
    ELSE IF walk[w].used < Attempts THEN Goes(w, Away) /\ UNCHANGED phase
    ELSE Pauses(w)

Validate(w) ==
    LET g == walk[w].gen IN
    /\ walk[w].pc = "probe"
    /\ \/ /\ Resolves(g)
          /\ sent' = sent \cup {<<g, ValidationPolicy(fact), vault[g]>>}
          /\ \E reply \in DOMAIN Verdict :
                /\ AfterVerdict(w, Verdict[reply])
                /\ proven' = IF Verdict[reply] = "valid" THEN proven \cup {g} ELSE proven
       \/ /\ ~Resolves(g) /\ AfterVerdict(w, "failed")
          /\ UNCHANGED <<sent, proven>>
    /\ UNCHANGED <<fact, mint, vault, generation, attempts, link, linked, recorded,
                   timeline, faults>>

----------------------------------------------------------------------------
(***************************************************************************)
(* publish_provider_configuration over start_connection, whose own steps   *)
(* ManagedAuth has: reserve, link, complete; a replay returns the receipt, *)
(* an unsettled reservation looks the connection up by its alias.          *)
(***************************************************************************)

StartConnection(w) ==
    LET i == PublicationEffectIdentity(walk[w].gen) IN
    /\ walk[w].pc = "publish"
    /\ CASE Plan(link[i]) = "skip" -> Steps(w, "record") /\ UNCHANGED link
         [] Plan(link[i]) = "execute" ->
               Steps(w, "link") /\ link' = [link EXCEPT ![i] = "pending"]
         [] Plan(link[i]) = "reconcile" /\ linked[i] > 0 ->
               Steps(w, "record") /\ link' = [link EXCEPT ![i] = "completed"]
         [] OTHER -> Raises(w) /\ UNCHANGED link
    /\ UNCHANGED <<fact, phase, mint, vault, generation, attempts, linked, recorded,
                   timeline, proven, sent, faults>>

\* The call reaches Composio; its answer may be lost.
Link(w) ==
    LET i == PublicationEffectIdentity(walk[w].gen) IN
    /\ walk[w].pc = "link"
    /\ linked' = [linked EXCEPT ![i] = @ + 1]
    /\ \/ Steps(w, "complete") /\ UNCHANGED <<link, faults>>
       \/ /\ Fault /\ Raises(w)
          /\ link' = [link EXCEPT ![i] = IF @ = "pending" THEN "outcome_unknown" ELSE @]
    /\ UNCHANGED <<fact, phase, mint, vault, generation, attempts, recorded,
                   timeline, proven, sent>>

CompleteLink(w) ==
    LET i == PublicationEffectIdentity(walk[w].gen) IN
    /\ walk[w].pc = "complete"
    /\ link' = [link EXCEPT ![i] = "completed"]
    /\ Steps(w, "record")
    /\ UNCHANGED <<fact, phase, mint, vault, generation, attempts, linked, recorded,
                   timeline, proven, sent, faults>>

\* update_run, then the timeline: two writes.
RecordConnection(w) ==
    /\ walk[w].pc = "record"
    /\ recorded' = {PublicationEffectIdentity(walk[w].gen)} /\ Steps(w, "announce")
    /\ UNCHANGED <<fact, phase, mint, vault, generation, attempts, link, linked,
                   timeline, proven, sent, faults>>

AnnouncePublished(w) ==
    /\ walk[w].pc = "announce"
    /\ timeline' = timeline \cup {walk[w].gen} /\ Steps(w, "earned")
    /\ UNCHANGED <<fact, phase, mint, vault, generation, attempts, link, linked,
                   recorded, proven, sent, faults>>

\* The driver commits the completed boundary the step asked for.
Completes(w) ==
    /\ walk[w].pc = "earned"
    /\ phase' = "completed" /\ Goes(w, Away)
    /\ UNCHANGED <<fact, mint, vault, generation, attempts, link, linked, recorded,
                   timeline, proven, sent, faults>>

----------------------------------------------------------------------------
(***************************************************************************)
(* invalid: retire the row, then supersede it or give up.                  *)
(***************************************************************************)

\* _set_credential_status: an active row moves, one already there is
\* rewritten, a row at the other verdict is reported absent.
SetsStatus(g, status) == vault[g] \in {"active", status}

MayRegenerate(g) == g + 1 < Generations

Retire(w) ==
    LET g == walk[w].gen
        status == IF MayRegenerate(g) THEN "superseded" ELSE "unusable"
    IN
    /\ walk[w].pc = "retire"
    /\ IF SetsStatus(g, status)
       THEN /\ vault' = [vault EXCEPT ![g] = status]
            /\ IF MayRegenerate(g) THEN Steps(w, "regenerate") /\ UNCHANGED phase
               ELSE Pauses(w)
       ELSE Raises(w) /\ UNCHANGED <<vault, phase>>
    /\ UNCHANGED <<fact, mint, generation, attempts, link, linked, recorded,
                   timeline, proven, sent, faults>>

\* next_generation moves the counter, whatever it stands at by now.
NextGeneration(w) ==
    /\ walk[w].pc = "regenerate" /\ generation + 1 \in Mints
    /\ generation' = generation + 1 /\ Goes(w, Away)
    /\ UNCHANGED <<fact, phase, mint, vault, attempts, link, linked, recorded,
                   timeline, proven, sent, faults>>

WalkDies(w) ==
    /\ walk[w].pc # "away" /\ Fault /\ Goes(w, Away)
    /\ UNCHANGED <<fact, phase, mint, vault, generation, attempts, link, linked,
                   recorded, timeline, proven, sent>>

ProofNext ==
    \/ Retry
    \/ \E w \in Workers :
          \/ Enter(w) \/ StoredReference(w) \/ Unarmed(w) \/ Capture(w) \/ CaptureFails(w)
          \/ CompleteCapture(w) \/ NextValidationAttempt(w) \/ Validate(w)
          \/ StartConnection(w) \/ Link(w) \/ CompleteLink(w) \/ RecordConnection(w)
          \/ AnnouncePublished(w) \/ Completes(w) \/ Retire(w) \/ NextGeneration(w)
          \/ WalkDies(w)

ProofSpec == ProofInit /\ [][ProofNext]_proofVars

----------------------------------------------------------------------------
\* The type of the state.
ProofTypeOK ==
    /\ fact \in Facts /\ phase \in {"driving", "paused", "completed"}
    /\ mint \in [Mints -> {"absent", "pending", "outcome_unknown", "completed"}]
    /\ vault \in [Mints -> {"absent", "active", "superseded", "unusable"}]
    /\ generation \in Mints /\ attempts \in 0 .. MaxProbes
    /\ link \in [Mints -> {"absent", "pending", "outcome_unknown", "completed"}]
    /\ linked \in [Mints -> 0 .. Cardinality(Workers) + MaxFaults]
    /\ recorded \subseteq Mints /\ timeline \subseteq Mints
    /\ \A w \in Workers : walk[w].gen \in Mints /\ walk[w].used \in 0 .. MaxProbes
    /\ proven \subseteq Mints /\ faults \in 0 .. MaxFaults

\* However often the terminal step is taken again - after a death between the
\* link and the row, by a second worker, for the generation that replaced a
\* superseded one - the run holds one connection at Composio.
OneConnectionPerRun ==
    \A i, j \in Mints : linked[i] + (IF i = j THEN 0 ELSE linked[j]) <= 1

\* A completed run has its connection on its row, the connection exists, and
\* every reference its timeline calls published was proven by a probe.
CompletedIsPublished ==
    /\ phase = "completed" =>
          timeline # {} /\ \E i \in recorded : linked[i] > 0
    /\ timeline \subseteq proven

\* A value leaves the vault only while its row is active, and only for the
\* reviewed endpoint or the vendor's own domain.
ValuesStayHome ==
    \A s \in sent : s[2] \in {"reviewed", "vendor"} /\ s[3] = "active"

\* The promise of the lifecycle's contract that fails: "a superseded or
\* terminally invalid credential is ... never published".  A rival probe calls
\* the credential invalid and retires it while the first worker, which was
\* answered valid, is on its way to publish it.
RetiredIsNotPublished ==
    [][\A g \in timeline' \ timeline : vault[g] = "active"]_proofVars

\* Rivals that both found a generation invalid both move the counter, so more
\* credentials are minted than the generation budget allows.
MintsWithinGenerations ==
    Cardinality({g \in Mints : vault[g] # "absent"}) <= Generations
=============================================================================
