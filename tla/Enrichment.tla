---------------------------- MODULE Enrichment ----------------------------
(***************************************************************************)
(* The evidence pipeline behind an operational-research record: discovery, *)
(* the optional Research call, the page contents and the extraction        *)
(* (ops/research/operational_research.py, ops/you/), and the SQLite cache  *)
(* the four stages share (ops/research/cache.py, ops/you/cache.py).        *)
(*                                                                         *)
(* Callers are enrichments of one application that run at the same time in *)
(* one process.  A stage reads the cache, takes the key's lock, reads      *)
(* again, computes and stores; the outcome's lock is held across the whole *)
(* pipeline, so an inner lock is always taken inside it.  The locks die    *)
(* with the process and the rows do not: a redeployment may bring another  *)
(* reviewed host policy, which no cache key contains.                      *)
(*                                                                         *)
(* A page is its URL.  Search issues one query here (the code issues up to *)
(* two, one after the other, through the same steps), and the page limits  *)
(* are not reached.                                                        *)
(***************************************************************************)
EXTENDS Naturals, FiniteSets

CONSTANTS
    Callers,    \* enrichments that may run at once
    Urls,       \* pages the web has
    Home,       \* the documentation page the verified record names
    Baseline,   \* routes the verified baseline already holds
    Covering,   \* pages whose category completes the coverage
    Links,      \* Links[u]: the URLs written in the text of page u
    Policies,   \* reviewed policies a deployment may bring: sets of pages
    TTL,        \* lifetime of a cached row, in ticks
    MaxClock,   \* bound on time
    MaxDeploys, \* bound on redeployments
    MaxFaults   \* bound on outages, failed reads and writes

None == "none"

ASSUME EnrichmentAssumption ==
    /\ Home \in Urls /\ Baseline \subseteq Urls /\ Covering \subseteq Urls
    /\ Links \in [Urls -> SUBSET Urls]
    /\ Policies # {} /\ \A p \in Policies : p \subseteq Urls
    /\ TTL \in Nat \ {0} /\ MaxClock \in Nat /\ MaxDeploys \in Nat /\ MaxFaults \in Nat
    /\ None \notin Callers

VARIABLES
    policy,     \* pages on the hosts the running deployment trusts
    cache,      \* research_cache: a row, or NoRow, for every key
    holder,     \* SqliteResearchCache._key_locks: who holds each key's lock
    call,       \* where each enrichment is and what it has gathered
    clock,
    deploys,
    faults

enrichmentVars == <<policy, cache, holder, call, clock, deploys, faults>>

\* cache_key: the stage, and for the contents the pages asked for.  The host
\* policy is part of no key (the outcome's key holds the record and the
\* baseline, the search's the bare domains).
Keys == {<<stage, {}>> : stage \in {"outcome", "search", "research"}}
          \cup {<<"contents", urls>> : urls \in (SUBSET Urls) \ {{}}}

NoRow == [pages |-> {}, routes |-> {}, expires |-> 0]
Idle == [stage |-> "idle", at |-> None, found |-> {}, docs |-> {}, routes |-> {}]

\* OfficialURLPolicy: what survives of an answer is on a trusted host.
OnPolicy(pages) == pages \cap policy

CandidateUrls(found) == OnPolicy({Home} \cup found)

KeyOf(c) ==
    <<call[c].stage,
      IF call[c].stage = "contents" THEN CandidateUrls(call[c].found) ELSE {}>>

EnrichmentInit ==
    /\ policy \in Policies
    /\ cache = [k \in Keys |-> NoRow] /\ holder = [k \in Keys |-> None]
    /\ call = [c \in Callers |-> Idle] /\ clock = 0 /\ deploys = 0 /\ faults = 0

----------------------------------------------------------------------------
(***************************************************************************)
(* What counts as evidence.                                                *)
(***************************************************************************)

\* _validate_operational_urls: a route reaffirms the baseline, or passes the
\* host policy and is, or is written in, a fetched document its claim cites.
Grounded(route, docs) ==
    \/ route \in Baseline
    \/ /\ route \in policy
       /\ \E d \in docs : route = d \/ route \in Links[d]

\* _retain_supported_extraction, then _merge_discovered_operational_routes.
Retained(extracted, docs) == {r \in extracted : Grounded(r, docs)}
Merged(kept, found, docs) == kept \cup OnPolicy(found \cap docs)

HasSufficientCoverage(found) == Covering \subseteq found

\* The deserializers: a row that no longer parses under the current policy is
\* a miss.  Search and contents drop the pages off the policy and miss only
\* when none is left; Research misses when one is off it; the outcome checks
\* its routes, and its documents only as the source of a claim.
Readable(stage, row) ==
    CASE stage \in {"search", "contents"} -> row.pages = {} \/ OnPolicy(row.pages) # {}
      [] stage = "research" -> row.pages \subseteq policy
      [] stage = "outcome" -> \A r \in row.routes : Grounded(r, row.pages)
ReadPages(stage, row) == IF stage = "outcome" THEN row.pages ELSE OnPolicy(row.pages)

\* SqliteResearchCache.get: an expired row is deleted and is a miss.
Live(row) == row.expires > clock
Hit(k) == Live(cache[k]) /\ Readable(k[1], cache[k])

----------------------------------------------------------------------------
(***************************************************************************)
(* A stage ends: the pipeline goes on with what it returned.               *)
(***************************************************************************)

Free(c, k) == IF holder[k] = c THEN [holder EXCEPT ![k] = None] ELSE holder

Enter(stage) == [stage |-> stage, at |-> "look"]
Onto(c, next, found, docs, routes) ==
    call' = [call EXCEPT ![c] = [stage |-> next.stage, at |-> next.at, found |-> found,
                                 docs |-> docs, routes |-> routes]]

\* CompositeEvidenceDiscovery asks the next provider, _compute asks Research,
\* only while the coverage is insufficient.
AfterDiscovery(found) ==
    IF CandidateUrls(found) = {} THEN [stage |-> "http", at |-> "ask"] ELSE Enter("contents")
AfterSearch(found) ==
    IF HasSufficientCoverage(found) THEN AfterDiscovery(found) ELSE [stage |-> "legacy", at |-> "ask"]
AfterLegacy(found) ==
    IF HasSufficientCoverage(found) THEN AfterDiscovery(found) ELSE Enter("research")

\* The stage that returned is left behind, and its lock with it.
Returns(c, pages, routes) ==
    LET stage == call[c].stage
        found == call[c].found \cup pages
    IN CASE stage = "search" -> Onto(c, AfterSearch(found), found, {}, {})
         [] stage = "research" -> Onto(c, AfterDiscovery(found), found, {}, {})
         [] stage = "contents" -> Onto(c, [stage |-> "http", at |-> "ask"], call[c].found, pages, {})
         [] stage = "outcome" -> Onto(c, [stage |-> "done", at |-> None], {}, pages, routes)

\* An exception leaves every _cached on the way out, each releasing its lock.
Raised(c) ==
    /\ holder' = [k \in Keys |-> IF holder[k] = c THEN None ELSE holder[k]]
    /\ Onto(c, [stage |-> "done", at |-> "raised"], {}, {}, Baseline)

----------------------------------------------------------------------------
(***************************************************************************)
(* _cached, for each of the four keyed stages.                             *)
(***************************************************************************)

BeginEnrich(c) ==
    /\ call[c].stage = "idle"
    /\ Onto(c, Enter("outcome"), {}, {}, {})
    /\ UNCHANGED <<policy, cache, holder, clock, deploys, faults>>

\* The read deletes an expired row; a failing read raises, at either place.
Drops(k) ==
    cache' = IF cache[k] # NoRow /\ ~Live(cache[k]) THEN [cache EXCEPT ![k] = NoRow] ELSE cache

Look(c) ==
    LET k == KeyOf(c) IN
    /\ call[c].at = "look"
    /\ Drops(k)
    /\ IF Hit(k)
       THEN Returns(c, ReadPages(k[1], cache[k]), cache[k].routes)
       ELSE call' = [call EXCEPT ![c].at = "lock"]
    /\ UNCHANGED <<policy, holder, clock, deploys, faults>>

ReadFails(c) ==
    /\ call[c].at \in {"look", "again"} /\ faults < MaxFaults
    /\ Raised(c) /\ faults' = faults + 1
    /\ UNCHANGED <<policy, cache, clock, deploys>>

\* a bug the runs must notice: lock_for makes a lock of its own every time
LockForAnew(c) ==
    /\ call[c].at = "lock"
    /\ holder' = [holder EXCEPT ![KeyOf(c)] = c]
    /\ call' = [call EXCEPT ![c].at = "again"]
    /\ UNCHANGED <<policy, cache, clock, deploys, faults>>

LockFor(c) ==
    /\ call[c].at = "lock" /\ holder[KeyOf(c)] = None
    /\ holder' = [holder EXCEPT ![KeyOf(c)] = c]
    /\ call' = [call EXCEPT ![c].at = "again"]
    /\ UNCHANGED <<policy, cache, clock, deploys, faults>>

LookAgain(c) ==
    LET k == KeyOf(c) IN
    /\ call[c].at = "again"
    /\ Drops(k)
    /\ IF Hit(k)
       THEN /\ Returns(c, ReadPages(k[1], cache[k]), cache[k].routes)
            /\ holder' = Free(c, k)
       ELSE /\ IF k[1] = "outcome"
               THEN Onto(c, Enter("search"), {}, {}, {})
               ELSE call' = [call EXCEPT ![c].at = "ask"]
            /\ UNCHANGED holder
    /\ UNCHANGED <<policy, clock, deploys, faults>>

\* The put of a value that is not None, its failures suppressed, and the
\* release of the lock.
Stores(c, pages, routes) ==
    LET k == KeyOf(c) IN
    /\ \/ /\ cache' = [cache EXCEPT ![k] = [pages |-> pages, routes |-> routes,
                                            expires |-> clock + TTL]]
          /\ UNCHANGED faults
       \/ /\ faults < MaxFaults /\ faults' = faults + 1 /\ UNCHANGED cache
    /\ holder' = Free(c, k) /\ Returns(c, pages, routes)

StoresNothing(c, pages, routes) ==
    /\ holder' = Free(c, KeyOf(c)) /\ Returns(c, pages, routes) /\ UNCHANGED cache

----------------------------------------------------------------------------
(***************************************************************************)
(* The providers.  What one answers is any set of pages; what the code     *)
(* keeps of it is on the policy.                                           *)
(***************************************************************************)

Asking(c, stage) == call[c].stage = stage /\ call[c].at = "ask"
Outage == faults < MaxFaults /\ faults' = faults + 1

\* PerplexitySearchDiscovery: one request, its answer is URLs and nothing else.
Discovered == SUBSET Urls

\* OfficialEvidenceFetcher: a page, or the page it redirects to, on the policy
\* at every hop; a page that cannot be read is skipped.
Fetchable(urls) == {pages \in SUBSET policy : Cardinality(pages) <= Cardinality(urls)}

\* YouSearchDiscovery: an outage is raised through _cached, then skipped.
AskSearch(c) ==
    /\ Asking(c, "search")
    /\ \/ \E answer \in SUBSET Urls : Stores(c, OnPolicy(answer), {})
       \/ Outage /\ StoresNothing(c, {}, {})
    /\ UNCHANGED <<policy, clock, deploys>>

\* LegacyDiscoveryAdapter: not cached; an error of the SDK's own is not among
\* the ones CompositeEvidenceDiscovery skips.
AskLegacy(c) ==
    /\ Asking(c, "legacy")
    /\ \/ \E answer \in Discovered :
             LET found == call[c].found \cup (OnPolicy(answer))
             IN /\ Onto(c, AfterLegacy(found), found, {}, {})
                /\ UNCHANGED <<holder, faults>>
       \/ Outage /\ Raised(c)
    /\ UNCHANGED <<policy, cache, clock, deploys>>

\* YouResearchFallback: an outage and an empty answer are both None.
AskResearch(c) ==
    /\ Asking(c, "research")
    /\ \/ \E answer \in SUBSET Urls :
             IF OnPolicy(answer) = {}
             THEN StoresNothing(c, {}, {}) /\ UNCHANGED faults
             ELSE Stores(c, OnPolicy(answer), {})
       \/ Outage /\ StoresNothing(c, {}, {})
    /\ UNCHANGED <<policy, clock, deploys>>

\* YouContentsFetcher: an outage is no documents, a value like any other.
AskContents(c) ==
    /\ Asking(c, "contents")
    /\ \/ \E answer \in SUBSET Urls : Stores(c, OnPolicy(answer), {})
       \/ Outage /\ LET k == KeyOf(c)
                    IN /\ cache' = [cache EXCEPT ![k] = [pages |-> {}, routes |-> {},
                                                         expires |-> clock + TTL]]
                       /\ holder' = Free(c, k) /\ Returns(c, {}, {})
    /\ UNCHANGED <<policy, clock, deploys>>

\* FallbackEvidenceContentFetcher fetches what the primary missed, one page at
\* a time, every redirect on the policy; without a document there is no result.
AskHttp(c) ==
    LET missing == CandidateUrls(call[c].found) \ call[c].docs IN
    /\ Asking(c, "http")
    /\ \E docs \in {call[c].docs \cup fetched : fetched \in Fetchable(missing)} :
          IF docs = {}
          THEN /\ holder' = Free(c, <<"outcome", {}>>)
               /\ Onto(c, [stage |-> "done", at |-> None], {}, {}, Baseline)
          ELSE /\ Onto(c, [stage |-> "extract", at |-> "ask"], call[c].found, docs, {})
               /\ UNCHANGED holder
    /\ UNCHANGED <<policy, cache, clock, deploys, faults>>

\* StructuredExtractor.extract answers with any routes, or fails and leaves the
\* baseline; an answer about another application raises.
AskExtractor(c) ==
    /\ Asking(c, "extract")
    /\ \/ \E kept \in {Retained(e, call[c].docs) : e \in SUBSET Urls} \cup {Baseline} :
             /\ Onto(c, [stage |-> "outcome", at |-> "put"], call[c].found, call[c].docs,
                     Merged(kept, call[c].found, call[c].docs))
             /\ UNCHANGED <<holder, faults>>
       \/ Outage /\ Raised(c)
    /\ UNCHANGED <<policy, cache, clock, deploys>>

StoreOutcome(c) ==
    /\ call[c].stage = "outcome" /\ call[c].at = "put"
    /\ Stores(c, call[c].docs, call[c].routes)
    /\ UNCHANGED <<policy, clock, deploys>>

----------------------------------------------------------------------------
Tick ==
    /\ clock < MaxClock /\ clock' = clock + 1
    /\ UNCHANGED <<policy, cache, holder, call, deploys, faults>>

\* The process ends; another deployment opens the same cache file.
Redeploy ==
    /\ deploys < MaxDeploys /\ deploys' = deploys + 1
    /\ policy' \in Policies
    /\ holder' = [k \in Keys |-> None] /\ call' = [c \in Callers |-> Idle]
    /\ UNCHANGED <<cache, clock, faults>>

EnrichStep(c) ==
    \/ Look(c) \/ ReadFails(c) \/ LockFor(c) \/ LookAgain(c)
    \/ AskSearch(c) \/ AskLegacy(c) \/ AskResearch(c) \/ AskContents(c)
    \/ AskHttp(c) \/ AskExtractor(c) \/ StoreOutcome(c)

EnrichmentNext ==
    \/ \E c \in Callers : BeginEnrich(c) \/ EnrichStep(c)
    \/ Tick \/ Redeploy

EnrichmentSpec == EnrichmentInit /\ [][EnrichmentNext]_enrichmentVars

----------------------------------------------------------------------------
(***************************************************************************)
(* Properties.                                                             *)
(***************************************************************************)

Stages == {"idle", "outcome", "search", "legacy", "research", "contents", "http", "extract", "done"}
Rows == [pages : SUBSET Urls, routes : SUBSET Urls, expires : 0..(MaxClock + TTL)]

EnrichmentTypeOK ==
    /\ policy \in Policies /\ cache \in [Keys -> Rows]
    /\ holder \in [Keys -> Callers \cup {None}]
    /\ call \in [Callers -> [stage : Stages, at : {None, "look", "lock", "again", "ask", "put", "raised"},
                             found : SUBSET Urls, docs : SUBSET Urls, routes : SUBSET Urls]]
    /\ clock \in 0..MaxClock /\ deploys \in 0..MaxDeploys /\ faults \in 0..MaxFaults

\* A provider is asked only while the cache holds no answer: a caller that
\* waited for another one's call reads its row instead of paying again (the
\* second read of _cached, under the lock that lock_for keeps per key).
PaidOnce ==
    \A c \in Callers :
        call[c].at = "ask" /\ call[c].stage \in {"search", "research", "contents"}
            => ~Hit(KeyOf(c))

\* A lock is held by a caller that is inside the call it guards, whatever
\* raised on the way, and the callers never wait for each other in a circle:
\* the holder of an inner lock waits for no other one.
LocksAreReleased ==
    \A k \in Keys : holder[k] # None =>
        LET c == call[holder[k]]
        IN IF k[1] = "outcome"
           THEN /\ c.stage \notin {"idle", "done"}
                /\ c.stage = "outcome" => c.at \in {"again", "put"}
           ELSE KeyOf(holder[k]) = k /\ c.at \in {"again", "ask"}

\* A route an enrichment returns is the verified baseline's, or on a host the
\* running deployment trusts and written in a page that was fetched: a row
\* stored under an older, wider policy does not bring its routes back.
ServedRoutesAreTrusted ==
    \A c \in Callers :
        call[c].stage = "done" => \A r \in call[c].routes : Grounded(r, call[c].docs)

\* The evidence documents of a result are on trusted hosts too: "newly
\* off-policy rows are misses" (OperationalResearchEnricher._enrich_rich).
ServedEvidenceIsTrusted ==
    \A c \in Callers : call[c].stage = "done" => call[c].docs \subseteq policy

============================================================================
