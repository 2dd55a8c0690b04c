-------------------------- MODULE ProviderResearch --------------------------
(***************************************************************************)
(* The research phase: how an unknown provider becomes one stored profile. *)
(*                                                                         *)
(* A walk of a run asks the discovery adapters for pages, elects the one   *)
(* registrable domain the pages agree on, fetches pages of that domain,    *)
(* has claims extracted from them, and keeps what enough of the fetched    *)
(* text supports (ops/providers/profile_builder.py, profile_fetcher.py,    *)
(* profile_extractor.py, anchor_discovery.py).  The profile is stored once *)
(* under its digest and bound to the run (profile_store.py), and the phase *)
(* handler commits the boundary that names it (ops/onboarding/handlers.py).*)
(*                                                                         *)
(* The web may change between two walks, a walk may die between any two    *)
(* steps, and two walks of one run may overlap after a lost lease.  A      *)
(* profile's digest is modelled by its body: equal bodies, equal digests.  *)
(***************************************************************************)
EXTENDS Integers, FiniteSets, Sequences

CONSTANTS
    Walks,          \* the walks that may be under way at once
    Runs,           \* the runs they research
    Adapters,       \* the registered discovery adapters, in order
    Attempts,       \* onboarding_research_adapter_attempts
    Webs,           \* what the web may serve: each a set of pages with a url,
                    \* a domain, a text and the claims the text states
    Shared,         \* MULTI_TENANT_SUFFIXES: domains nobody owns
    Invented,       \* claims an extractor may make up
    RouteKind,      \* the reviewed route of each run
    MaxBuilds       \* bound: builds begun

None == [domain |-> "none", fields |-> {}]
Fields == {"registrable_domain", "signup_url", "login_url", "api_key_flow"}
AnchorFields == {"registrable_domain", "signup_url", "login_url"}     \* _ANCHOR_FIELDS
MinCorroborations == 2
MinVotes == 2

ResearchAssumption ==
    /\ Attempts \in Nat \ {0} /\ MaxBuilds \in Nat
    /\ Runs # {} /\ Adapters \in Seq({Adapters[i] : i \in DOMAIN Adapters})
    /\ RouteKind \in [Runs -> {"playwright", "managed_auth", "gated"}]
    /\ \A w \in Webs : \A p, q \in w : p.url = q.url => p = q
    /\ IsFiniteSet(UNION Webs)

VARIABLES
    walk,       \* per walk: its run, its place and what it has found
    web,        \* what is served now
    profiles,   \* provider_profiles: the stored bodies
    bound,      \* provider_profile_runs: the profile each run is bound to
    committed,  \* profiles named by the boundaries into vault_check, per run
    served,     \* every page any walk was ever served
    builds      \* builds begun

researchVars == <<walk, web, profiles, bound, committed, served, builds>>

WebUrls == UNION {{p.url : p \in w} : w \in Webs}
Pages == UNION Webs
Rest == [pc |-> "away", run |-> CHOOSE r \in Runs : TRUE, next |-> 1, tries |-> 0,
         urls |-> {}, docs |-> {}, claims |-> {}, built |-> None]

ResearchInit ==
    /\ walk = [w \in Walks |-> Rest] /\ web \in Webs
    /\ profiles = {} /\ bound = [r \in Runs |-> None] /\ committed = [r \in Runs |-> {}]
    /\ served = {} /\ builds = 0

Goes(w, changes) == walk' = [walk EXCEPT ![w] = changes]

----------------------------------------------------------------------------
(***************************************************************************)
(* Discovery: each adapter degrades on its own.                            *)
(***************************************************************************)

\* ResearchPhaseHandler: a run that has a profile does not research again.
BeginResearch(w, r) ==
    /\ walk[w].pc = "away"
    /\ \/ /\ bound[r] # None
          /\ Goes(w, [Rest EXCEPT !.pc = "advance", !.run = r, !.built = bound[r]])
          /\ UNCHANGED builds
       \/ /\ bound[r] = None /\ builds < MaxBuilds
          /\ Goes(w, [Rest EXCEPT !.pc = "discover", !.run = r])
          /\ builds' = builds + 1
    /\ UNCHANGED <<web, profiles, bound, committed, served>>

\* _research_retry: no boundary is committed, and the run comes back later.
ResearchRetry(w) == Goes(w, Rest)

\* _discover: only a raising attempt is repeated, up to the adapter's cap.
AdapterFails(w) ==
    /\ walk[w].pc = "discover" /\ walk[w].next <= Len(Adapters)
    /\ Goes(w, IF walk[w].tries + 1 < Attempts THEN [walk[w] EXCEPT !.tries = @ + 1]
               ELSE [walk[w] EXCEPT !.tries = 0, !.next = @ + 1])
    /\ UNCHANGED <<web, profiles, bound, committed, served, builds>>

AdapterAnswers(w) ==
    /\ walk[w].pc = "discover" /\ walk[w].next <= Len(Adapters)
    /\ \E found \in {{p.url : p \in {q \in web : q.by = Adapters[walk[w].next]}}, {}} :
         Goes(w, [walk[w] EXCEPT !.tries = 0, !.next = @ + 1, !.urls = @ \cup found])
    /\ UNCHANGED <<web, profiles, bound, committed, served, builds>>

----------------------------------------------------------------------------
(***************************************************************************)
(* Fetching: one domain is elected before anything is dereferenced.        *)
(***************************************************************************)

DomainOf(url) == (CHOOSE p \in Pages : p.url = url).domain
Votes(urls, d) == Cardinality({u \in urls : DomainOf(u) = d})

\* elect_registrable_domain: enough votes, a strict winner, and not a hosting
\* suffix everybody shares; the runner-up is never promoted.
ElectRegistrableDomain(urls) ==
    {d \in {DomainOf(u) : u \in urls} :
        /\ Votes(urls, d) >= MinVotes
        /\ \A e \in {DomainOf(u) : u \in urls} \ {d} : Votes(urls, e) < Votes(urls, d)
        /\ d \notin Shared}

\* fetch_many and _confine: pages of the elected domain, some unreachable.
FetchMany(w) ==
    /\ walk[w].pc = "discover" /\ walk[w].next > Len(Adapters)
    /\ LET elected == ElectRegistrableDomain(walk[w].urls)
           confined == {p \in web : p.url \in walk[w].urls /\ p.domain \in elected}
       IN  \E docs \in SUBSET confined :
             /\ served' = served \cup docs
             /\ IF docs = {} THEN ResearchRetry(w)
                ELSE Goes(w, [walk[w] EXCEPT !.pc = "extract", !.docs = docs])
    /\ UNCHANGED <<web, profiles, bound, committed, builds>>

----------------------------------------------------------------------------
(***************************************************************************)
(* Claims: extracted, verified again, and counted by distinct text.        *)
(***************************************************************************)

\* _verified_claims: the cited document was fetched and states the claim.
Verified(claims, docs) ==
    {c \in claims : \E p \in docs : p.url = c.cites /\ [field |-> c.field, value |-> c.value] \in p.says}

Stated(p, said) == {[field |-> s.field, value |-> s.value, cites |-> p.url] : s \in said}

\* ProfileClaimExtractor.extract: a document whose call fails contributes
\* nothing; a model may volunteer what the page does not say.
Extract(w) ==
    /\ walk[w].pc = "extract"
    /\ \E heard \in SUBSET walk[w].docs, made \in SUBSET Invented :
         LET claims == UNION {Stated(p, p.says \cup made) : p \in heard}
         IN  Goes(w, [walk[w] EXCEPT !.pc = "build", !.claims = Verified(claims, walk[w].docs)])
    /\ UNCHANGED <<web, profiles, bound, committed, served, builds>>

\* _resolve_domain: the anchor claims name one domain, or there is none.
ClaimedDomains(claims) == {c.value.domain : c \in {x \in claims : x.field \in AnchorFields}}

\* _admitted_claims: everything off the resolved domain is dropped.
Admitted(claims, d) == {c \in claims : c.value.domain = d}

\* _corroborated_evidence: distinct texts, not documents, support a value.
TextOf(docs, url) == (CHOOSE p \in docs : p.url = url).text
Support(claims, docs, f, v) ==
    {TextOf(docs, c.cites) : c \in {x \in claims : x.field = f /\ x.value = v}}
Corroborated(claims, docs) ==
    {e \in {[field |-> c.field, value |-> c.value] : c \in claims} :
        Cardinality(Support(claims, docs, e.field, e.value))
            >= IF e.field \in AnchorFields THEN MinCorroborations ELSE 1}

\* _best_per_field: one value per field, one of the best supported.
BestPerField(evidence, claims, docs) ==
    {chosen \in SUBSET evidence :
        /\ \A f \in {e.field : e \in evidence} : Cardinality({e \in chosen : e.field = f}) = 1
        /\ \A e \in chosen, x \in evidence : x.field = e.field =>
              Cardinality(Support(claims, docs, x.field, x.value))
                 <= Cardinality(Support(claims, docs, e.field, e.value))}

\* _required_fields: what a profile of this route cannot do without.
RequiredFields(route) ==
    CASE route = "gated" -> {"registrable_domain"}
      [] route = "managed_auth" -> {"registrable_domain", "login_url", "api_key_flow"}
      [] OTHER -> {"registrable_domain", "signup_url", "login_url"}

\* build_profile after the extraction: inconclusive, or a body to store.
BuildProfile(w) ==
    /\ walk[w].pc = "build"
    /\ LET domains == ClaimedDomains(walk[w].claims)
       IN  IF Cardinality(domains) # 1 THEN ResearchRetry(w)
           ELSE LET d == CHOOSE x \in domains : TRUE
                    claims == Admitted(walk[w].claims, d)
                IN  \E chosen \in BestPerField(Corroborated(claims, walk[w].docs), claims, walk[w].docs) :
                      IF RequiredFields(RouteKind[walk[w].run]) \subseteq {e.field : e \in chosen}
                      THEN Goes(w, [walk[w] EXCEPT !.pc = "put", !.claims = {}, !.urls = {}, !.docs = {},
                                                   !.built = [domain |-> d, fields |-> chosen]])
                      ELSE ResearchRetry(w)
    /\ UNCHANGED <<web, profiles, bound, committed, served, builds>>

----------------------------------------------------------------------------
(***************************************************************************)
(* The store, and the boundary.                                            *)
(***************************************************************************)

\* _bind_run: a run is bound once; another digest is a contradiction.
Bindable(r, body) == bound[r] \in {None, body}

\* put: the body and the binding in one transaction, rolled back together.
Put(w) ==
    /\ walk[w].pc = "put"
    /\ LET r == walk[w].run
       IN  IF Bindable(r, walk[w].built)
           THEN /\ profiles' = profiles \cup {walk[w].built}
                /\ bound' = [bound EXCEPT ![r] = walk[w].built]
                /\ Goes(w, [walk[w] EXCEPT !.pc = "advance"])
           ELSE ResearchRetry(w) /\ UNCHANGED <<profiles, bound>>
    /\ UNCHANGED <<web, committed, served, builds>>

\* The step into vault_check names the digest.
Advance(w) ==
    /\ walk[w].pc = "advance"
    /\ committed' = [committed EXCEPT ![walk[w].run] = @ \cup {walk[w].built}]
    /\ Goes(w, Rest)
    /\ UNCHANGED <<web, profiles, bound, served, builds>>

WalkDies(w) ==
    /\ walk[w].pc # "away" /\ Goes(w, Rest)
    /\ UNCHANGED <<web, profiles, bound, committed, served, builds>>

WebChanges ==
    /\ web' \in Webs \ {web}
    /\ UNCHANGED <<walk, profiles, bound, committed, served, builds>>

ResearchNext ==
    \/ \E w \in Walks :
         \/ \E r \in Runs : BeginResearch(w, r)
         \/ AdapterFails(w) \/ AdapterAnswers(w) \/ FetchMany(w) \/ Extract(w)
         \/ BuildProfile(w) \/ Put(w) \/ Advance(w) \/ WalkDies(w)
    \/ WebChanges

ResearchSpec == ResearchInit /\ [][ResearchNext]_researchVars

----------------------------------------------------------------------------
ResearchTypeOK ==
    /\ web \in Webs /\ builds \in 0..MaxBuilds /\ served \subseteq Pages
    /\ \A w \in Walks :
         /\ walk[w].pc \in {"away", "discover", "extract", "build", "put", "advance"}
         /\ walk[w].run \in Runs /\ walk[w].tries \in 0..(Attempts - 1)
         /\ walk[w].next \in 1..(Len(Adapters) + 1)
         /\ walk[w].urls \subseteq WebUrls /\ walk[w].docs \subseteq served
    /\ \A r \in Runs : bound[r] \in profiles \cup {None}

\* Whatever walks overlapped or died and however the web changed between them,
\* every boundary of a run names the one profile the run is bound to.
BoundaryNamesProfile ==
    \A r \in Runs : committed[r] \subseteq {bound[r]} /\ None \notin committed[r]

\* Every field of a stored profile was stated by pages that were really served,
\* the anchors by two different texts, and lies on the profile's one domain.
ProfileIsCorroborated ==
    \A body \in profiles : \A e \in body.fields :
        /\ e.value.domain = body.domain
        /\ Cardinality({p.text : p \in {q \in served : e \in q.says}})
             >= IF e.field \in AnchorFields THEN MinCorroborations ELSE 1

=============================================================================
