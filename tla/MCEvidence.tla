----------------------------- MODULE MCEvidence -----------------------------
(***************************************************************************)
(* What a walk learns, holds and proves, in one model: the enrichment of a *)
(* verified record, the model's decisions and memory, the provider's       *)
(* profile, the browser session in hand, the run's identity and recipient, *)
(* and the proof of a credential.  A behaviour is one of the six; the      *)
(* others stay where they start.                                           *)
(***************************************************************************)
EXTENDS Enrichment, Integers, Sequences, TLC

CONSTANTS
    c1, c2, home, about,
    Order, Selections, TotalSeconds, ProviderSeconds, MaxProviders, Cooldown, MaxSteps,
    DecisionClock, MaxTotal,
    Walks, Runs, Webs, Invented, RouteKind, Shared, Adapters, Attempts, MaxBuilds,
    Workers, Sessions, MaxGeneration,
    Addresses, MaxSession, MaxPromotions,
    Generations, MaxProbes

VARIABLES
    part,
    time, breaker, decider, stored, pinned, decisionFaults,
    builder, web, profiles, bound, committed, served, builds,
    row, session, driver, recorded, driven, captured, bindingFaults,
    address, columns, staged, pair, submit, account, recipient, stage, signer, searched,
    bindings, redeploys, signFaults,
    fact, phase, mint, vault, generation, attempts, link, linked, request, timeline,
    prover, proven, sent, proofFaults

decided == <<time, breaker, decider, stored, pinned, decisionFaults>>
researched == <<builder, web, profiles, bound, committed, served, builds>>
bound_ == <<row, session, driver, recorded, driven, captured, bindingFaults>>
signed == <<address, columns, staged, pair, submit, account, recipient, stage, signer,
            searched, bindings, redeploys, signFaults>>
proved == <<fact, phase, mint, vault, generation, attempts, link, linked, request,
            timeline, prover, proven, sent, proofFaults>>

-----------------------------------------------------------------------------
\* The documentation page links to the one page that completes the coverage.
MCLinks == [u \in Urls |-> IF u = home THEN {about} ELSE {}]

MCOrder == <<"mercury", "groq">>

-----------------------------------------------------------------------------
(* A vendor whose home page is mirrored word for word under another URL,      *)
(* whose docs agree with it, and a rival's page among the search results; the *)
(* vendor may move its key page between two builds.                           *)

V(d, n) == [domain |-> d, page |-> n]
Says(f, v) == [field |-> f, value |-> v]

HomePage(n) ==
    [url |-> "home", domain |-> "acme", by |-> "search", text |-> "t1",
     says |-> {Says("registrable_domain", V("acme", 0)), Says("login_url", V("acme", 1)),
               Says("api_key_flow", V("acme", n))}]
Mirror(n) == [HomePage(n) EXCEPT !.url = "mirror"]
Docs ==
    [url |-> "docs", domain |-> "acme", by |-> "anchors", text |-> "t2",
     says |-> {Says("registrable_domain", V("acme", 0)), Says("login_url", V("acme", 1))}]
Rival ==
    [url |-> "other", domain |-> "rival", by |-> "search", text |-> "t3",
     says |-> {Says("registrable_domain", V("rival", 0))}]

MCWebs == {{HomePage(1), Docs, Mirror(1), Rival}, {HomePage(2), Docs, Mirror(2)}}
MCInvented == {Says("login_url", V("acme", 9))}
MCRoutes == [r \in Runs |-> "managed_auth"]
MCShared == {"github.io"}
MCAdapters == <<"search", "anchors">>

D == INSTANCE ModelDecision WITH
        MaxClock <- DecisionClock, clock <- time, walk <- decider, faults <- decisionFaults
P == INSTANCE ProviderResearch WITH walk <- builder
S == INSTANCE SessionBinding WITH walk <- driver, faults <- bindingFaults
B == INSTANCE RunBindings WITH
        row <- columns, phase <- stage, walk <- signer, deploys <- redeploys,
        faults <- signFaults
C == INSTANCE CredentialProof WITH
        recorded <- request, walk <- prover, faults <- proofFaults

ASSUME EvidencePartsAssumption ==
    /\ D!DecisionAssumption /\ P!ResearchAssumption /\ S!BindingAssumption
    /\ B!BindingsAssumption /\ C!ProofAssumption
    /\ DecisionClock # 0

-----------------------------------------------------------------------------
(* To keep the instance small, a behaviour has one kind of disturbance: a     *)
(* bound may be used up before it begins.                                     *)

\* An answer is lost, or the cache's rows age, or a redeploy narrows the policy.
MCEnrichmentInit ==
    /\ policy \in Policies /\ (part # "enrichment" => policy = CHOOSE p \in Policies : TRUE)
    /\ cache = [k \in Keys |-> NoRow] /\ holder = [k \in Keys |-> None]
    /\ call = [c \in Callers |-> Idle]
    /\ \/ faults = 0 /\ clock = MaxClock /\ deploys = MaxDeploys
       \/ part = "enrichment" /\ faults = MaxFaults /\ clock = 0 /\ deploys = MaxDeploys
       \/ part = "enrichment" /\ faults = MaxFaults /\ clock = MaxClock /\ deploys = 0

\* A walk has the whole budget's time and no fault, or less time and a fault: a
\* death, a lapsed lease, a reset or a failed read or write.
MCDecisionInit ==
    /\ \/ part = "decision" /\ time = 0 /\ decisionFaults = MaxFaults
       \/ time = DecisionClock - 1 /\ decisionFaults = 0
    /\ pinned \in [Runs -> Selections]
    /\ part # "decision" => \A r \in Runs : pinned[r] = "none"
    /\ breaker = [c \in D!Chains |-> [p \in D!Providers |-> D!Closed]]
    /\ decider = [w \in Workers |-> D!Away]
    /\ stored = [r \in Runs |-> D!Fresh]

MCInit ==
    /\ part \in {"enrichment", "decision", "research", "session", "identity", "proof"}
    /\ MCEnrichmentInit
    /\ MCDecisionInit
    /\ P!ResearchInit /\ (part # "research" => web = CHOOSE v \in Webs : TRUE)
    /\ S!BindingInit
    /\ B!BindingsInit
    /\ part # "identity" => /\ address = CHOOSE a \in Addresses : TRUE
                            /\ ~columns.account /\ pair.fields = {}
    /\ C!ProofInit
    /\ part # "proof" => fact = CHOOSE f \in C!Facts : TRUE

MCNext ==
    /\ UNCHANGED part
    /\ \/ /\ part = "enrichment" /\ EnrichmentNext
          /\ UNCHANGED <<decided, researched, bound_, signed, proved>>
       \/ /\ part = "decision" /\ D!DecisionNext
          /\ UNCHANGED <<enrichmentVars, researched, bound_, signed, proved>>
       \/ /\ part = "research" /\ P!ResearchNext
          /\ UNCHANGED <<enrichmentVars, decided, bound_, signed, proved>>
       \/ /\ part = "session" /\ S!BindingNext
          /\ UNCHANGED <<enrichmentVars, decided, researched, signed, proved>>
       \/ /\ part = "identity" /\ B!BindingsNext
          /\ UNCHANGED <<enrichmentVars, decided, researched, bound_, proved>>
       \/ /\ part = "proof" /\ C!ProofNext
          /\ UNCHANGED <<enrichmentVars, decided, researched, bound_, signed>>

MCSpec ==
    MCInit /\ [][MCNext]_<<part, enrichmentVars, decided, researched, bound_, signed, proved>>

\* The workers of a run are interchangeable, and so are the walks that research it.
Symmetry == Permutations(Workers)

-----------------------------------------------------------------------------
\* What research hands on: a concurrent or repeated enrichment pays for an answer
\* once and leaves no key locked, the routes it serves pass the policy in force,
\* and a profile's fields lie on one domain, its anchors stated by two texts.
ResearchSafety ==
    /\ part = "enrichment" =>
          EnrichmentTypeOK /\ PaidOnce /\ LocksAreReleased /\ ServedRoutesAreTrusted
    /\ part = "research" =>
          P!ResearchTypeOK /\ P!BoundaryNamesProfile /\ P!ProfileIsCorroborated

\* However many providers a decision asks and however slow they are, it ends within
\* its budget; the phase memory's window is its latest steps.
DecisionSafety == part = "decision" =>
    D!DecisionTypeOK /\ D!DecisionFitsBudget /\ D!WindowIsLatest

\* What a run holds is what it acts with: a session is driven only after its id is
\* durable and only inside the allow-list, an account is registered with the pair
\* the vault holds, and the login route binds complete pairs only.
BindingSafety ==
    /\ part = "session" =>
          /\ S!BindingTypeOK /\ S!DrivenIsRecorded /\ S!DrivenIsConfined
          /\ S!HandleWasRecorded
    /\ part = "identity" => B!BindingsTypeOK /\ B!AccountIsHeld /\ B!BoundIsComplete

\* However often a credential is minted, probed, superseded and republished: a run
\* has one connection, a completed run's is published, and no value is sent anywhere
\* but to its vendor and the vault.
ProofSafety == part = "proof" =>
    C!ProofTypeOK /\ C!OneConnectionPerRun /\ C!CompletedIsPublished /\ C!ValuesStayHome

\* A worker that dies, or whose write fails, takes nothing of the phase's memory
\* along; only a walk that overlapped another one, or that could not read what was
\* there, saves less than was remembered.
MemoryOutlivesCrash == D!MemoryOutlivesCrash

\* What LedgerVerificationBinding says of a redeploy that rotates the alias.
VerifiesOwnAddress == B!VerifiesOwnAddress

\* What run_credential_phases says of a credential that was superseded.
RetiredIsNotPublished == C!RetiredIsNotPublished
=============================================================================
