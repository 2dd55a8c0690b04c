----------------------------- MODULE ManagedAuth ----------------------------
(* ComposioManagedAuthProvider (ops/providers/composio_managed_auth.py) for   *)
(* one toolkit and scheme: start_connection, or create_api_key_connection,    *)
(* which has the same control and creates a connection that is active at      *)
(* once.  A call resolves or creates the toolkit's auth config, creates one   *)
(* connection per effect identity, recovers an ambiguous one by its alias and *)
(* adopts the connection that made a second one impossible.                   *)
(*                                                                            *)
(* Every ledger verb and every provider request is a step of its own; several *)
(* calls, for the same identity too, are in flight at once, and a request     *)
(* that timed out may still reach the provider.                               *)
EXTENDS EffectLedger, Naturals, FiniteSets

CONSTANTS
    Identities,     \* effect identities: one per run and purpose
    Callers,
    TheConfig,      \* the receipt of the config effect
    Earlier         \* identities connected before, through a config made by hand

ASSUME ManagedAssumption ==
    /\ Receipts = Identities \cup {TheConfig} /\ TheConfig \notin Identities
    /\ Earlier \subseteq Identities

VARIABLES
    row,        \* the ledger rows of the connection effects
    configRow,  \* the ledger row of the toolkit's config effect
    call,       \* call[c]: the call caller c is in
    wire,       \* requests the provider has not decided
    config,     \* an auth config for the toolkit is visible at the provider
    configs,    \* how many configs this deployment created
    account,    \* account[e]: the connection that carries e's alias
    made        \* made[e]: how many connections were created with e's alias

vars == <<row, configRow, call, wire, config, configs, account, made>>

(* pc: idle | config (first lookup) | reserve | recheck | create (config      *)
(*     request out) | link | linking (connection request out) | adopt |       *)
(*     adopted | find | found                                                 *)
(* recovering: the reservation said reconcile_required; answer: the           *)
(*     provider's, to the request that is out; target: the connection found   *)
(* result: what the last call returned                                        *)
Call == [pc : {"idle", "config", "reserve", "recheck", "create", "link", "linking",
               "adopt", "adopted", "find", "found"},
         effect : Identities, target : Identities, recovering : BOOLEAN,
         answer : {"none", "took", "refused"},
         result : {"none", "fresh", "replayed", "raised"}]

Request == [for : {"config", "link"}, from : Callers, effect : Identities]

\* A config made by hand leaves no config row.  Either it is still there and so
\* are its connections, or their owner has disabled the one and revoked the other.
Init ==
    /\ row = [e \in Identities |->
                IF e \in Earlier THEN [status |-> "completed", receipt |-> e] ELSE NoRow]
    /\ configRow = NoRow
    /\ \E e \in Identities :
        call = [c \in Callers |-> [pc |-> "idle", effect |-> e, target |-> e,
                    recovering |-> FALSE, answer |-> "none", result |-> "none"]]
    /\ wire = {} /\ config \in BOOLEAN /\ configs = 0
    /\ account = [e \in Identities |-> IF e \notin Earlier THEN "none"
                                       ELSE IF config THEN "active" ELSE "revoked"]
    /\ made = [e \in Identities |-> IF e \in Earlier THEN 1 ELSE 0]

provider == <<wire, config, configs, account, made>>

At(c, pc) == call[c].pc = pc

Effect(c) == call[c].effect

Goes(c, pc) == call' = [call EXCEPT ![c].pc = pc, ![c].answer = "none"]

\* What the caller keeps of a call that ended.
Ended(c, result) ==
    [call[c] EXCEPT !.pc = "idle", !.answer = "none", !.recovering = FALSE,
                    !.target = call[c].effect, !.result = result]

Returns(c, result) == call' = [call EXCEPT ![c] = Ended(c, result)]

-----------------------------------------------------------------------------
(* Entering                                                                   *)

\* A completed effect is replayed after its connection is read again; an open
\* one is reconciled; otherwise this call may create the connection.
Enter(c, e) ==
    LET status == ReserveStatus(row[e])
        begun == [call[c] EXCEPT !.effect = e, !.target = e, !.result = "none",
                     !.pc = "config", !.recovering = (status = "reconcile_required")]
    IN
    /\ At(c, "idle")
    /\ row' = [row EXCEPT ![e] = ReserveRow(@)]
    /\ IF status = "completed"
       THEN \E result \in {"replayed", "raised"} :
                call' = [call EXCEPT ![c] = [begun EXCEPT !.pc = "idle", !.result = result]]
       ELSE call' = [call EXCEPT ![c] = begun]
    /\ UNCHANGED <<configRow, provider>>

-----------------------------------------------------------------------------
(* _resolve_or_create_auth_config                                             *)

\* The call that may still create the connection gives its reservation back.
ConfigRaises(c) ==
    /\ row' = IF call[c].recovering THEN row
              ELSE [row EXCEPT ![Effect(c)] = MarkFailedRow(@)]
    /\ Returns(c, "raised")

ConfigResolved(c) == Goes(c, IF call[c].recovering THEN "find" ELSE "link")

LookupConfig(c) ==
    /\ At(c, "config")
    /\ \/ config /\ ConfigResolved(c) /\ UNCHANGED row
       \/ ~config /\ Goes(c, "reserve") /\ UNCHANGED row
       \/ ConfigRaises(c)
    /\ UNCHANGED <<configRow, provider>>

ReserveConfig(c) ==
    LET status == ReserveStatus(configRow) IN
    /\ At(c, "reserve")
    /\ configRow' = ReserveRow(configRow)
    /\ \/ status = "completed" /\ ConfigResolved(c) /\ UNCHANGED row
       \/ status = "reconcile_required" /\ ConfigRaises(c)
       \/ status = "reserved" /\ Goes(c, "recheck") /\ UNCHANGED row
    /\ UNCHANGED provider

\* The lookup after the reservation: found, failed, or absent and then created.
RecheckConfig(c) ==
    /\ At(c, "recheck")
    /\ \/ /\ config
          /\ configRow' = CompleteRow(configRow, TheConfig)
          /\ ConfigResolved(c)
          /\ UNCHANGED <<row, wire>>
       \/ configRow' = MarkFailedRow(configRow) /\ ConfigRaises(c) /\ UNCHANGED wire
       \/ /\ ~config
          /\ Goes(c, "create")
          /\ wire' = wire \cup {[for |-> "config", from |-> c, effect |-> Effect(c)]}
          /\ UNCHANGED <<row, configRow>>
    /\ UNCHANGED <<config, configs, account, made>>

ConfigCreated(c) ==
    /\ At(c, "create") /\ call[c].answer = "took"
    /\ configRow' = CompleteRow(configRow, TheConfig)
    /\ ConfigResolved(c)
    /\ UNCHANGED <<row, provider>>

\* _mark_create_failure: a refusal the server issued (4xx) proves that nothing
\* was created; a timeout, a reset, a 5xx and an unreadable answer do not.
CreateFails(c) ==
    /\ At(c, "create")
    /\ configRow' = IF call[c].answer = "refused" THEN MarkFailedRow(configRow)
                    ELSE MarkOutcomeUnknownRow(configRow)
    /\ ConfigRaises(c)
    /\ UNCHANGED provider

-----------------------------------------------------------------------------
(* The connection itself                                                      *)

Link(c) ==
    /\ At(c, "link")
    /\ Goes(c, "linking")
    /\ wire' = wire \cup {[for |-> "link", from |-> c, effect |-> Effect(c)]}
    /\ UNCHANGED <<row, configRow, config, configs, account, made>>

\* _complete_or_fail_closed: a refused completion is marked unknown, which the
\* ledger refuses too unless the row is still pending.
Closes(c, receipt, result) ==
    LET e == Effect(c) IN
    IF CompleteAccepted(row[e], receipt)
    THEN row' = [row EXCEPT ![e] = CompleteRow(@, receipt)] /\ Returns(c, result)
    ELSE row' = [row EXCEPT ![e] = MarkOutcomeUnknownRow(@)] /\ Returns(c, "raised")

Linked(c) ==
    /\ At(c, "linking") /\ call[c].answer = "took"
    /\ Closes(c, Effect(c), "fresh")
    /\ UNCHANGED <<configRow, provider>>

\* Mutant: a failed request is given back for a retry.
LinkFailsRetryable(c) ==
    /\ At(c, "linking")
    /\ row' = [row EXCEPT ![Effect(c)] = MarkFailedRow(@)]
    /\ Returns(c, "raised")
    /\ UNCHANGED <<configRow, provider>>

\* Any exception but the SDK's refusal, and an answer that cannot be read.
LinkFails(c) ==
    /\ At(c, "linking")
    /\ row' = [row EXCEPT ![Effect(c)] = MarkOutcomeUnknownRow(@)]
    /\ Returns(c, "raised")
    /\ UNCHANGED <<configRow, provider>>

\* ComposioMultipleConnectedAccountsError: an active connection exists already.
LinkRefused(c) ==
    /\ At(c, "linking") /\ call[c].answer = "refused"
    /\ Goes(c, "adopt")
    /\ UNCHANGED <<row, configRow, provider>>

Active == {e \in Identities : account[e] = "active"}

\* _adopt_active_connection: the one active connection; otherwise, and when the
\* lookup fails, the reservation is given back.
AdoptLookup(c) ==
    /\ At(c, "adopt")
    /\ \/ /\ \E e \in Active : /\ Active = {e} /\ made[e] = 1
                               /\ call' = [call EXCEPT ![c].pc = "adopted", ![c].target = e]
          /\ UNCHANGED row
       \/ row' = [row EXCEPT ![Effect(c)] = MarkFailedRow(@)] /\ Returns(c, "raised")
    /\ UNCHANGED <<configRow, provider>>

\* ... whose state is read again and recorded.
Adopts(c) ==
    /\ At(c, "adopted")
    /\ Closes(c, call[c].target, "replayed")
    /\ UNCHANGED <<configRow, provider>>

\* That read failed: nothing gives the reservation back.
AdoptRaises(c) ==
    /\ At(c, "adopted")
    /\ Returns(c, "raised")
    /\ UNCHANGED <<row, configRow, provider>>

\* _reconcile_connection: the connection is looked up by its alias; absent or
\* ambiguous, or on a failed lookup, the call raises.
FindByAlias(c) ==
    /\ At(c, "find")
    /\ \/ made[Effect(c)] = 1 /\ Goes(c, "found")
       \/ Returns(c, "raised")
    /\ UNCHANGED <<row, configRow, provider>>

\* ... its state is read (which may fail), and reconcile_completed records it.
Reconciles(c) ==
    LET e == Effect(c) t == call[c].target IN
    /\ At(c, "found")
    /\ \/ /\ row' = [row EXCEPT ![e] = ReconcileCompletedRow(@, t)]
          /\ Returns(c, IF ReconcileAccepted(row[e], t) THEN "replayed" ELSE "raised")
       \/ UNCHANGED row /\ Returns(c, "raised")
    /\ UNCHANGED <<configRow, provider>>

\* The process dies, or the ledger cannot be written.
Dies(c) ==
    /\ ~At(c, "idle")
    /\ Returns(c, "none")
    /\ UNCHANGED <<row, configRow, provider>>

-----------------------------------------------------------------------------
(* Composio and the owner of the account: not code of this repository.        *)

Answered(r, answer) ==
    LET k == call[r.from]
        waits == /\ k.effect = r.effect /\ k.answer = "none"
                 /\ k.pc = IF r.for = "link" THEN "linking" ELSE "create"
    IN  call' = IF waits THEN [call EXCEPT ![r.from].answer = answer] ELSE call

ConfigLands(r) ==
    /\ r.for = "config"
    /\ wire' = wire \ {r}
    /\ config' = TRUE /\ configs' = configs + 1
    /\ Answered(r, "took")
    /\ UNCHANGED <<row, configRow, account, made>>

LinkLands(r) ==
    /\ r.for = "link"
    /\ wire' = wire \ {r}
    /\ made' = [made EXCEPT ![r.effect] = @ + 1]
    /\ \E status \in {"initiated", "active"} :     \* a link; an imported key
          account' = [account EXCEPT ![r.effect] = status]
    /\ Answered(r, "took")
    /\ UNCHANGED <<row, configRow, config, configs>>

\* A config request is refused for any reason, a link only because an active
\* connection exists; every other failure is a lost request.
Refuses(r) ==
    /\ r.for = "link" => Active # {}
    /\ wire' = wire \ {r}
    /\ Answered(r, "refused")
    /\ UNCHANGED <<row, configRow, config, configs, account, made>>

Loses(r) ==
    /\ wire' = wire \ {r}
    /\ UNCHANGED <<row, configRow, call, config, configs, account, made>>

OwnerAuthorizes(e) ==
    /\ account[e] = "initiated"
    /\ account' = [account EXCEPT ![e] = "active"]
    /\ UNCHANGED <<row, configRow, call, wire, config, configs, made>>

OwnerRevokes(e) ==
    /\ account[e] = "active"
    /\ account' = [account EXCEPT ![e] = "revoked"]
    /\ UNCHANGED <<row, configRow, call, wire, config, configs, made>>

-----------------------------------------------------------------------------

ConfigStep(c) ==
    LookupConfig(c) \/ ReserveConfig(c) \/ RecheckConfig(c) \/ ConfigCreated(c) \/ CreateFails(c)

LinkStep(c) ==
    \/ Link(c) \/ Linked(c) \/ LinkFails(c) \/ LinkRefused(c)
    \/ AdoptLookup(c) \/ Adopts(c) \/ AdoptRaises(c)

RecoverStep(c) == FindByAlias(c) \/ Reconciles(c)

CallerNext(c) ==
    \/ \E e \in Identities : Enter(c, e)
    \/ ConfigStep(c) \/ LinkStep(c) \/ RecoverStep(c) \/ Dies(c)

ProviderNext ==
    \/ \E r \in wire : ConfigLands(r) \/ LinkLands(r) \/ Refuses(r) \/ Loses(r)
    \/ \E e \in Identities : OwnerAuthorizes(e) \/ OwnerRevokes(e)

Next == (\E c \in Callers : CallerNext(c)) \/ ProviderNext

Spec == Init /\ [][Next]_vars

(* Fairness: the provider decides, a caller's own code runs to its end, and   *)
(* the run keeps asking (the operator's connect button and the driver's       *)
(* publication both repeat the call under the same identity).  A lookup may   *)
(* fail and a process may die any number of times, but not every time.        *)
Asks(e) == \E c \in Callers : Enter(c, e)

Resolves(e) ==
    \E c \in Callers : LookupConfig(c) /\ Effect(c) = e /\ call'[c].pc \in {"link", "find"}

Finds(e) == \E c \in Callers : FindByAlias(c) /\ Effect(c) = e /\ call'[c].pc = "found"

Records(e) == \E c \in Callers : Reconciles(c) /\ Effect(c) = e /\ call'[c].result = "replayed"

Fairness ==
    /\ \A c \in Callers : WF_vars(ConfigStep(c) \/ LinkStep(c) \/ RecoverStep(c))
    /\ \A e \in Identities :
        SF_vars(Asks(e)) /\ SF_vars(Resolves(e)) /\ SF_vars(Finds(e)) /\ SF_vars(Records(e))

FairSpec == Spec /\ Fairness

-----------------------------------------------------------------------------
(* Properties                                                                 *)

\* Rows, calls and requests stay in their domains.
TypeOK ==
    /\ row \in [Identities -> Row] /\ configRow \in Row
    /\ call \in [Callers -> Call] /\ wire \in SUBSET Request
    /\ config \in BOOLEAN /\ configs \in Nat
    /\ account \in [Identities -> {"none", "initiated", "active", "revoked"}]
    /\ made \in [Identities -> Nat]

\* "create at most one connection link per effect", whatever callers race, die
\* or time out and however late a request lands.
OneConnectionPerEffect == \A e \in Identities : made[e] <= 1

\* The config key is shared by every run of the deployment: none of them creates
\* a second config for the toolkit.
OneConfig == configs <= 1

\* A recorded receipt names a connection the provider made, and names another
\* run's only where this identity has none of its own.
ReceiptNamesConnection ==
    \A e \in Identities :
        row[e].status = "completed" =>
            /\ made[row[e].receipt] = 1
            /\ row[e].receipt # e => made[e] = 0

\* reconcile_completed: a second process that records the connection first does
\* so with the receipt the creating call is about to write, so that call is not
\* refused ("closes the crash window").
CreatorIsNotRefused ==
    \A c \in Callers :
        call[c].pc = "linking" /\ call[c].answer = "took" =>
            CompleteAccepted(row[Effect(c)], Effect(c))

\* start_connection and create_api_key_connection, with requests that time out and
\* land later: one config for the toolkit, one connection per identity, receipts that
\* name what exists, and a creator that its own recovery does not refuse.
ManagedSafety ==
    TypeOK /\ OneConnectionPerEffect /\ OneConfig /\ ReceiptNamesConnection /\ CreatorIsNotRefused

\* A connection that exists is recorded in the end, however the call that
\* created it ended: recovery "by its deterministic alias".
ConnectionIsRecorded ==
    \A e \in Identities : (made[e] = 1) ~> (row[e].status = "completed")

\* _adopt_active_connection: "Leaving it pending is the trap this arm exists to
\* avoid" - when the adoption of an existing connection raises, the reservation
\* has been given back.
RefusedLinkIsReleased ==
    [][\A c \in Callers :
        (call[c].pc \in {"adopt", "adopted"} /\ call'[c].result = "raised")
            => row'[Effect(c)].status # "pending"]_vars
=============================================================================
