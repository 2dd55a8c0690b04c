---------------------------- MODULE SecretStore -----------------------------
(***************************************************************************)
(* The vault (ops/core/secret_store.py) and those who read and write it.   *)
(* First, one run's one-time rows and grants: how a login reaches the      *)
(* isolated browser and a credential leaves it.  Then the sign-in pairs of *)
(* one app under several runs.                                             *)
(***************************************************************************)
EXTENDS Integers, FiniteSets

(***************************************************************************)
(* Grants.  One-time vault rows, the grants that release them, the broker  *)
(* that redeems a grant under the run's lock                               *)
(* (api/browser_secret_broker.py), its client in the browser service, and  *)
(* the canonical runtime's calls around them.  One run.  A value is named  *)
(* by its payload's serial number and its field.                           *)
(***************************************************************************)
CONSTANTS
    MaxOperation,   \* bound: starts and resumes of the run
    MaxPayload      \* bound: login payloads that are vaulted

ASSUME GrantsAssumption == MaxOperation \in Nat /\ MaxPayload \in Nat

VARIABLES
    grow,       \* the run's row: its phase and its operation's number
    caller,     \* the runtime's start or resume call
    payloads,   \* login payloads vaulted so far
    oneTime,    \* one-time rows in the vault that have not expired
    grants,     \* browser_secret_grants rows of action consume
    handoff,    \* the browser service's work on each operation's login
    released,   \* how often a value went to the browser service
    capGrant,   \* the browser_secret_grants row of action capture
    capCall,    \* the browser service's capture call
    capRows,    \* vault rows the capture inserted
    orphaned    \* payloads a dying process left behind

grantVars == <<grow, caller, payloads, oneTime, grants, handoff, released,
               capGrant, capCall, capRows, orphaned>>

Fields == {"login_email", "login_password"}
Operations == 1..MaxOperation
Payloads == 1..MaxPayload

Ref(n, f) == [n |-> n, f |-> f]
Refs == [n: Payloads, f: Fields]
RefsOf(n) == {Ref(n, f) : f \in Fields}

NoCall == [pc |-> "idle", kind |-> "none", op |-> 0, n |-> 0]
NoHandoff == [pc |-> "none", n |-> 0, got |-> {}]

GTypeOK ==
    /\ grow \in [phase: {"pending", "auth", "gate", "ready", "capturing", "over"},
                 op: 0..MaxOperation]
    /\ caller \in [pc: {"idle", "stored", "granted", "reserved", "bound", "awaiting"},
                   kind: {"none", "start", "resume"}, op: 0..MaxOperation, n: 0..MaxPayload]
    /\ oneTime \subseteq Refs /\ payloads \in 0..MaxPayload
    /\ grants \subseteq [ref: Refs, op: Operations, st: {"reserved", "expired", "completed"}]
    /\ \A g, h \in grants : g.ref = h.ref => g = h
    /\ \A r \in Refs : released[r] \in Nat
    /\ capGrant \in {"none", "reserved", "expired", "completed"}
    /\ capRows \in Nat /\ capCall \in [pc: {"none", "sent", "resent", "captured", "unknown"}, flying: 0..2]

GInit ==
    /\ grow = [phase |-> "pending", op |-> 0]
    /\ caller = NoCall /\ payloads = 0 /\ oneTime = {} /\ grants = {}
    /\ handoff = [o \in Operations |-> NoHandoff]
    /\ released = [r \in Refs |-> 0]
    /\ capGrant = "none" /\ capCall = [pc |-> "none", flying |-> 0] /\ capRows = 0
    /\ orphaned = {}

----------------------------------------------------------------------------
(* The runtime's side.                                                     *)

\* store_transient_browser_secrets that fails partway deletes what it stored.
StoreRollsBack(n) == oneTime' = oneTime

StoreTransients(n) == oneTime' = oneTime \cup RefsOf(n)

\* delete_transient for every field: only rows that are still there.
Discard(n) == oneTime' = oneTime \ RefsOf(n)

\* A start (from a fresh run) or a resume (at a gate) vaults the login first.
VaultsLogin(kind) ==
    /\ caller = NoCall /\ payloads < MaxPayload /\ grow.op < MaxOperation
    /\ grow.phase = (IF kind = "start" THEN "pending" ELSE "gate")
    /\ payloads' = payloads + 1
    /\ \/ /\ StoreTransients(payloads + 1)
          /\ caller' = [pc |-> "stored", kind |-> kind, op |-> grow.op + 1, n |-> payloads + 1]
       \/ StoreRollsBack(payloads + 1) /\ UNCHANGED caller
    /\ UNCHANGED <<grow, grants, handoff, released, capGrant, capCall, capRows, orphaned>>

\* reserve_browser_secret_grant, once for each field of the payload.
ReserveConsume(c) ==
    grants' = grants \cup {[ref |-> r, op |-> c.op, st |-> "reserved"] : r \in RefsOf(c.n)}

\* resume_run reserves the grants before its row moves; a drive thread after it.
ReservesGrants ==
    /\ \/ caller.kind = "resume" /\ caller.pc = "stored"
          /\ caller' = [caller EXCEPT !.pc = "granted"] /\ ReserveConsume(caller)
          /\ UNCHANGED <<oneTime, handoff>>
       \/ /\ caller.kind = "start" /\ caller.pc = "bound"
          /\ grow = [phase |-> "auth", op |-> caller.op]
          /\ ReserveConsume(caller) /\ caller' = [caller EXCEPT !.pc = "awaiting"]
          /\ handoff' = [handoff EXCEPT ![caller.op] = [NoHandoff EXCEPT !.pc = "consume", !.n = caller.n]]
          /\ UNCHANGED oneTime
    /\ UNCHANGED <<grow, payloads, released, capGrant, capCall, capRows, orphaned>>

\* The unit of work that makes this operation the row's: start before its
\* worker call, resume after its grants.  A resume is dispatched at once.
MovesRow ==
    /\ caller.pc = (IF caller.kind = "start" THEN "stored" ELSE "granted")
    /\ grow.phase = (IF caller.kind = "start" THEN "pending" ELSE "gate")
    /\ grow' = [phase |-> "auth", op |-> caller.op]
    /\ \/ /\ caller.kind = "start" /\ caller' = [caller EXCEPT !.pc = "reserved"]
          /\ UNCHANGED handoff
       \/ /\ caller.kind = "resume" /\ caller' = [caller EXCEPT !.pc = "awaiting"]
          /\ handoff' = [handoff EXCEPT ![caller.op] = [NoHandoff EXCEPT !.pc = "consume", !.n = caller.n]]
    /\ UNCHANGED <<payloads, oneTime, grants, released, capGrant, capCall, capRows, orphaned>>

\* worker.start answered and the session is bound to the row.
BindsSession ==
    /\ caller.kind = "start" /\ caller.pc = "reserved"
    /\ caller' = [caller EXCEPT !.pc = "bound"]
    /\ UNCHANGED <<grow, payloads, oneTime, grants, handoff, released, capGrant, capCall, capRows, orphaned>>

\* Every way out before the payload was dispatched discards it: the unit of
\* work raised, the key was taken, worker.start failed, the thread did not
\* start, or the drive thread no longer finds its row.
GivesUpUndispatched ==
    /\ caller.pc \in {"stored", "granted", "reserved", "bound"}
    /\ Discard(caller.n) /\ caller' = NoCall
    /\ \/ caller.pc \in {"stored", "granted"} /\ UNCHANGED grow
       \/ /\ caller.pc \in {"reserved", "bound"}
          /\ grow' = IF grow.op = caller.op THEN [grow EXCEPT !.phase = "over"] ELSE grow
    /\ UNCHANGED <<payloads, grants, handoff, released, capGrant, capCall, capRows, orphaned>>

\* The row moves on under the lock without the caller: a sweep or the owner
\* stops the run, an operator's retry makes it startable again.
RowStopped ==
    /\ grow.phase \in {"auth", "gate", "ready"} /\ grow' = [grow EXCEPT !.phase = "over"]
    /\ UNCHANGED <<caller, payloads, oneTime, grants, handoff, released, capGrant, capCall, capRows, orphaned>>

RowRetried ==
    /\ grow.phase = "over" /\ caller = NoCall /\ grow' = [grow EXCEPT !.phase = "pending"]
    /\ UNCHANGED <<caller, payloads, oneTime, grants, handoff, released, capGrant, capCall, capRows, orphaned>>

\* The call to the browser service ends: with what the handoff came to, or
\* with a timeout that leaves the service at work.  Only the operation that
\* the row still names is projected.
CallReturns ==
    /\ caller.pc = "awaiting" /\ caller' = NoCall
    /\ LET h == handoff[caller.op]
           phase == CASE h.pc = "typed"   -> {"ready", "gate", "over"}
                      [] h.pc = "refused" -> {IF caller.kind = "resume" THEN "gate" ELSE "over"}
                      [] OTHER            -> {"over"}
       IN IF grow = [phase |-> "auth", op |-> caller.op]
          THEN \E p \in phase : grow' = [grow EXCEPT !.phase = p]
          ELSE UNCHANGED grow
    /\ UNCHANGED <<payloads, oneTime, grants, handoff, released, capGrant, capCall, capRows, orphaned>>

\* The API process dies: what it had vaulted and not dispatched stays.
RuntimeDies ==
    /\ caller # NoCall /\ caller' = NoCall
    /\ orphaned' = orphaned \cup {caller.n}
    /\ UNCHANGED <<grow, payloads, oneTime, grants, handoff, released, capGrant, capCall, capRows>>

----------------------------------------------------------------------------
(* The broker and the browser service.                                     *)

\* _bound_active_run with _current_operation_key, for a consume.
BoundActiveRun(op) == grow = [phase |-> "auth", op |-> op]

\* consume_transient_with_grant: the row goes and the grant is used, together.
ConsumeTransient(g) ==
    /\ oneTime' = oneTime \ {g.ref}
    /\ grants' = (grants \ {g}) \cup {[g EXCEPT !.st = "completed"]}

\* _consume_sync, under the run's lock: what it takes for a value to leave.
Releases(o, g) == BoundActiveRun(o) /\ g.st = "reserved" /\ g.ref \in oneTime

\* _resolve_credential_refs, one field: released (and perhaps lost on the
\* way back), or refused; a consume is not repeated.
Consumes(o, f) ==
    LET h == handoff[o] IN
    /\ h.pc = "consume" /\ f \notin h.got
    /\ \E g \in grants :
         /\ g.ref = Ref(h.n, f)
         /\ \/ /\ Releases(o, g) /\ ConsumeTransient(g)
               /\ released' = [released EXCEPT ![g.ref] = @ + 1]
               /\ handoff' \in {[handoff EXCEPT ![o].pc = "refused"],      \* the answer was lost
                                [handoff EXCEPT ![o].got = @ \cup {f},
                                                ![o].pc = IF h.got \cup {f} = Fields THEN "typed" ELSE @]}
            \/ /\ ~Releases(o, g)
               /\ handoff' = [handoff EXCEPT ![o].pc = "refused"]
               /\ UNCHANGED <<oneTime, grants, released>>
    /\ UNCHANGED <<grow, caller, payloads, capGrant, capCall, capRows, orphaned>>

\* _is_expired, of a one-time row or of a grant.
Expires ==
    /\ \/ \E r \in oneTime : oneTime' = oneTime \ {r} /\ UNCHANGED grants
       \/ \E g \in grants : /\ g.st = "reserved"
                            /\ grants' = (grants \ {g}) \cup {[g EXCEPT !.st = "expired"]}
                            /\ UNCHANGED oneTime
    /\ UNCHANGED <<grow, caller, payloads, handoff, released, capGrant, capCall, capRows, orphaned>>

\* The capture effect and its grant, under the lock.  A grant that cannot be
\* reserved fails the effect, which a retry may reserve again; a reservation
\* extends an unused grant.
ReserveCaptureGrant ==
    /\ grow.phase = "ready" /\ capCall.pc = "none"
    /\ \/ /\ grow' = [grow EXCEPT !.phase = "capturing"]
          /\ capGrant' = "reserved"
          /\ capCall' = [pc |-> "sent", flying |-> 1]
       \/ /\ grow' = [grow EXCEPT !.phase = "over"]
          /\ capGrant' \in {capGrant, "reserved"}     \* of several fields, some were granted
          /\ UNCHANGED capCall
    /\ UNCHANGED <<caller, payloads, oneTime, grants, handoff, released, capRows, orphaned>>

CaptureInsertsAgain == grow.phase = "capturing" /\ capRows' = capRows + 1 /\ capGrant' = "completed"

\* capture_with_grant behind _capture_sync: the first call inserts the row and
\* uses the grant up; a completed grant answers with the row it made.
CaptureWithGrant ==
    /\ grow.phase = "capturing"
    /\ \/ capGrant = "reserved" /\ capRows' = capRows + 1 /\ capGrant' = "completed"
       \/ capGrant = "completed" /\ UNCHANGED <<capRows, capGrant>>

CaptureRefused ==
    /\ grow.phase # "capturing" \/ capGrant \in {"none", "expired"}
    /\ UNCHANGED <<capRows, capGrant>>

\* A capture request reaches the broker; its answer may come too late.
CaptureLands ==
    /\ capCall.flying > 0
    /\ \/ /\ CaptureWithGrant
          /\ capCall' \in {[capCall EXCEPT !.flying = @ - 1],
                           [pc |-> IF capCall.pc \in {"sent", "resent"} THEN "captured" ELSE capCall.pc,
                            flying |-> capCall.flying - 1]}
       \/ /\ CaptureRefused
          /\ capCall' \in {[capCall EXCEPT !.flying = @ - 1],
                           [pc |-> IF capCall.pc \in {"sent", "resent"} THEN "unknown" ELSE capCall.pc,
                            flying |-> capCall.flying - 1]}
    /\ UNCHANGED <<grow, caller, payloads, oneTime, grants, handoff, released, orphaned>>

\* BrowserSecretBrokerClient._post repeats a capture once after a transport
\* error, whatever became of the first request; then it gives up.
CaptureTimesOut ==
    /\ \/ capCall.pc = "sent" /\ capCall' = [pc |-> "resent", flying |-> capCall.flying + 1]
       \/ capCall.pc = "resent" /\ capCall' = [capCall EXCEPT !.pc = "unknown"]
    /\ UNCHANGED <<grow, caller, payloads, oneTime, grants, handoff, released, capGrant, capRows, orphaned>>

\* The runtime's capture call ends, or times out while the service is at it.
CaptureCallReturns ==
    /\ grow.phase = "capturing" /\ grow' = [grow EXCEPT !.phase = "over"]
    /\ UNCHANGED <<caller, payloads, oneTime, grants, handoff, released, capGrant, capCall, capRows, orphaned>>

CaptureGrantExpires ==
    /\ capGrant = "reserved" /\ capGrant' = "expired"
    /\ UNCHANGED <<grow, caller, payloads, oneTime, grants, handoff, released, capCall, capRows, orphaned>>

GNext ==
    \/ \E kind \in {"start", "resume"} : VaultsLogin(kind)
    \/ ReservesGrants \/ MovesRow \/ BindsSession \/ GivesUpUndispatched
    \/ RowStopped \/ RowRetried \/ CallReturns \/ RuntimeDies
    \/ \E o \in Operations, f \in Fields : Consumes(o, f)
    \/ Expires
    \/ ReserveCaptureGrant \/ CaptureLands \/ CaptureTimesOut \/ CaptureCallReturns \/ CaptureGrantExpires

GSpec == GInit /\ [][GNext]_grantVars

----------------------------------------------------------------------------
\* A capture whose requests were lost, repeated or late leaves one vault row
\* (the idempotence that BrowserSecretBrokerClient.capture retries on).
CaptureLeavesOneRow == capRows <= 1

\* A login that never reached the browser service is not left in the vault:
\* every row there belongs to a dispatched payload, to the call in progress or
\* to a process that died (_discard_pre_dispatch_browser_secrets and the
\* rollback in store_transient_browser_secrets).
UndispatchedIsDiscarded ==
    \A r \in oneTime : \/ \E o \in Operations : handoff[o].n = r.n
                       \/ caller.n = r.n \/ r.n \in orphaned

\* What the vault holds for one run: neither a second copy of a captured credential
\* nor a login nobody will use.
GrantsSafety == GTypeOK /\ CaptureLeavesOneRow /\ UndispatchedIsDiscarded

\* Once the row has left an operation's authentication, no value of it is
\* released any more: a handoff still at work is refused by the broker, and
\* types nothing.
StoppedRunReleasesNothing ==
    [][\A o \in Operations : grow # [phase |-> "auth", op |-> o]
                             => /\ \A f \in Fields : handoff[o].n # 0 =>
                                     released'[Ref(handoff[o].n, f)] = released[Ref(handoff[o].n, f)]
                                /\ handoff[o].pc # "typed" => handoff'[o].pc # "typed"]_grantVars
----------------------------------------------------------------------------
(***************************************************************************)
(* Pairs.  The sign-in pairs of one app and one mailbox                    *)
(* (ops/runs/login_secrets.py, and the canonical runtime's use of them):   *)
(* the generated pair a signup stages, the pair an owner supplies, the     *)
(* reusable pair both are promoted to, and the repair that takes a signup  *)
(* identity from a finished run.  Each store call is one transaction; the  *)
(* repair is four.  The vendor is a single account under the mailbox.      *)
(***************************************************************************)
CONSTANTS
    Runs,           \* runs of the app under one account reference
    MaxPairs,       \* bound: pairs generated or supplied
    LoginRegimes    \* records [race, human]: which hazards happen

ASSUME VaultAssumption ==
    /\ "none" \notin Runs /\ MaxPairs \in Nat \ {0}
    /\ LoginRegimes \subseteq [race: BOOLEAN, human: BOOLEAN]

VARIABLES
    lrun,       \* each run's account mode, status and the pair in its browser
    claim,      \* each run's progress in stage_signup_login
    signup,     \* the staged_signup_logins row of the app and account
    existing,   \* the staged_existing_logins row of each run
    reusable,   \* the account-scoped pair in vault_entries
    pairs,      \* pairs made so far
    vendor,     \* the pair the vendor's account has
    proven,     \* pairs the vendor has accepted
    regime

loginVars == <<lrun, claim, signup, existing, reusable, pairs, vendor, proven, regime>>

NoPair == 0
NoStage == [run |-> "none", pair |-> NoPair, st |-> "none"]
NoClaim == [pc |-> "none", holder |-> "none"]

\* _FINISHED_RUN_STATUSES: of the four, the two these runs reach.
Finished == {"failed", "completed"}

LTypeOK ==
    /\ \A r \in Runs :
         /\ (existing[r].pair = NoPair) = (existing[r].st = "none")
         /\ lrun[r] \in [mode: {"create_account", "existing_account"}, pair: 0..MaxPairs, signedIn: BOOLEAN,
                         st: {"new", "driving", "waiting_for_hitl", "configuration_required", "failed", "completed"}]
         /\ claim[r].pc \in {"none", "owner", "status", "release", "restage"}
         /\ existing[r].st \in {"none", "pending", "promoted"}
    /\ signup.run \in Runs => signup.pair # NoPair /\ signup.st \in {"pending", "promoted"}
    /\ reusable \in 0..MaxPairs /\ vendor \in 0..MaxPairs /\ proven \subseteq 1..MaxPairs
    /\ regime \in LoginRegimes

LInit ==
    /\ regime \in LoginRegimes
    /\ \E mode \in {"create_account", "existing_account"} :
         /\ lrun = [r \in Runs |-> [mode |-> mode, st |-> "new", pair |-> NoPair, signedIn |-> FALSE]]
         \* An owner who signs in to an existing account already has one pair.
         /\ \/ mode = "create_account" /\ pairs = 0 /\ vendor = NoPair /\ reusable = NoPair /\ proven = {}
            \/ mode = "existing_account" /\ pairs = 1 /\ vendor = 1
               /\ \/ reusable = NoPair /\ proven = {}
                  \/ reusable = 1 /\ proven = {1}
    /\ claim = [r \in Runs |-> NoClaim]
    /\ signup = NoStage /\ existing = [r \in Runs |-> NoStage]

Becomes(r, st) == lrun' = [lrun EXCEPT ![r].st = st]
Drives(r, pair) == lrun' = [lrun EXCEPT ![r].st = "driving", ![r].pair = pair, ![r].signedIn = FALSE]

----------------------------------------------------------------------------
(* Signup: the pair is generated and staged under one run.                 *)

\* stage_signup_login_pair: a new row, the run's own row, or a refusal.
StageSignup(r) ==
    \/ /\ signup = NoStage /\ pairs < MaxPairs
       /\ pairs' = pairs + 1
       /\ signup' = [run |-> r, pair |-> pairs + 1, st |-> "pending"]
       /\ Drives(r, pairs + 1) /\ claim' = [claim EXCEPT ![r] = NoClaim]
    \/ /\ signup.run = r
       /\ Drives(r, signup.pair) /\ claim' = [claim EXCEPT ![r] = NoClaim]
       /\ UNCHANGED <<signup, pairs>>
    \/ /\ signup.run \in Runs \ {r}
       /\ IF signup.st = "pending" /\ claim[r].pc = "none"
          THEN claim' = [claim EXCEPT ![r].pc = "owner"] /\ UNCHANGED lrun
          ELSE Becomes(r, "configuration_required") /\ claim' = [claim EXCEPT ![r] = NoClaim]
       /\ UNCHANGED <<signup, pairs>>

\* create_run
BeginSignup(r) ==
    /\ lrun[r].mode = "create_account" /\ lrun[r].st = "new" /\ claim[r].pc = "none"
    /\ StageSignup(r)
    /\ UNCHANGED <<existing, reusable, vendor, proven, regime>>

\* retry_browser_run signs up again with this very run's staged pair, and is
\* refused without one.  Without races no run is retried while it is examined.
RetrySignup(r) ==
    /\ lrun[r].mode = "create_account" /\ lrun[r].st \in {"failed", "configuration_required"}
    /\ regime.race \/ \A o \in Runs : claim[o].holder # r
    /\ signup.run = r /\ Drives(r, signup.pair)
    /\ UNCHANGED <<claim, signup, existing, reusable, pairs, vendor, proven, regime>>

Refused(r) == Becomes(r, "configuration_required") /\ claim' = [claim EXCEPT ![r] = NoClaim]

\* _release_finished_signup_identity: the row's owner, then its run's status,
\* then the release.  Every doubt leaves the claim in place.
ReadOwner(r) ==
    /\ claim[r].pc = "owner"
    /\ IF signup.st = "pending"
       THEN claim' = [claim EXCEPT ![r] = [pc |-> "status", holder |-> signup.run]] /\ UNCHANGED lrun
       ELSE Refused(r)
    /\ UNCHANGED <<signup, existing, reusable, pairs, vendor, proven, regime>>

ReadStatus(r) ==
    /\ claim[r].pc = "status"
    /\ IF lrun[claim[r].holder].st \in Finished
       THEN claim' = [claim EXCEPT ![r].pc = "release"] /\ UNCHANGED lrun
       ELSE Refused(r)
    /\ UNCHANGED <<signup, existing, reusable, pairs, vendor, proven, regime>>

\* release_staged_signup_login_pair deletes a pending row of the named run.
Releasable(holder) == signup.run = holder /\ signup.st = "pending"

ReleaseStaged(r) ==
    /\ claim[r].pc = "release"
    /\ IF Releasable(claim[r].holder)
       THEN signup' = NoStage /\ claim' = [claim EXCEPT ![r].pc = "restage"] /\ UNCHANGED lrun
       ELSE Refused(r) /\ UNCHANGED signup
    /\ UNCHANGED <<existing, reusable, pairs, vendor, proven, regime>>

Restage(r) ==
    /\ claim[r].pc = "restage" /\ StageSignup(r)
    /\ UNCHANGED <<existing, reusable, vendor, proven, regime>>

\* The browser submits the registration form.  A mailbox has one account.
SubmitRegistration(r) ==
    /\ lrun[r].st = "driving" /\ lrun[r].mode = "create_account" /\ vendor = NoPair
    /\ vendor' = lrun[r].pair /\ proven' = proven \cup {lrun[r].pair}
    /\ lrun' = [lrun EXCEPT ![r].signedIn = TRUE]
    /\ UNCHANGED <<claim, signup, existing, reusable, pairs, regime>>

\* A CAPTCHA, a code or a duplicate account stops the form.
SignupGated(r) ==
    /\ lrun[r].st = "driving" /\ lrun[r].mode = "create_account" /\ Becomes(r, "waiting_for_hitl")
    /\ UNCHANGED <<claim, signup, existing, reusable, pairs, vendor, proven, regime>>

\* resume_run re-issues the staged pair of this very run, if it has one.
ResumeSignup(r) ==
    /\ lrun[r].st = "waiting_for_hitl" /\ lrun[r].mode = "create_account"
    /\ lrun' = [lrun EXCEPT ![r].st = "driving", ![r].pair = IF signup.run = r THEN signup.pair ELSE @]
    /\ UNCHANGED <<claim, signup, existing, reusable, pairs, vendor, proven, regime>>

----------------------------------------------------------------------------
(* Existing account: the owner supplies a pair, or one is on record.       *)

\* stage_existing_login_pair: a promoted stage answers with its own pair.
StageExisting(r, pair) ==
    IF existing[r].st = "promoted" THEN existing[r]
    ELSE [run |-> r, pair |-> pair, st |-> "pending"]

\* What a run without a submission signs in with: its own stage, else the
\* reusable pair.
OnRecord(r) == IF existing[r] # NoStage THEN existing[r].pair ELSE reusable

\* create_run or resume_run, with a pair (the right one or a wrong one) or
\* without; retry_browser_run without.
SignsIn(r) ==
    /\ lrun[r].mode = "existing_account"
    /\ lrun[r].st \in {"new", "waiting_for_hitl", "failed"}
    /\ \/ /\ lrun[r].st # "failed"
          /\ \E pair \in {vendor} \cup (IF pairs < MaxPairs THEN {pairs + 1} ELSE {}) :
               /\ pairs' = IF pair > pairs THEN pair ELSE pairs
               /\ existing' = [existing EXCEPT ![r] = StageExisting(r, pair)]
       \/ UNCHANGED <<pairs, existing>>
    /\ lrun' = [lrun EXCEPT ![r].st = "driving", ![r].pair = IF existing' # existing THEN existing'[r].pair ELSE OnRecord(r),
                            ![r].signedIn = lrun[r].signedIn /\ lrun[r].st = "waiting_for_hitl"]
    /\ UNCHANGED <<claim, signup, reusable, vendor, proven, regime>>

\* The vendor accepts the pair, or the run waits for its owner.
LoginAnswered(r) ==
    /\ lrun[r].st = "driving" /\ ~lrun[r].signedIn /\ lrun[r].mode = "existing_account"
    /\ \/ /\ lrun[r].pair = vendor
          /\ proven' = proven \cup {vendor} /\ lrun' = [lrun EXCEPT ![r].signedIn = TRUE]
       \/ Becomes(r, "waiting_for_hitl") /\ UNCHANGED proven
    /\ UNCHANGED <<claim, signup, existing, reusable, pairs, vendor, regime>>

\* The owner signs in by hand in the live view.
OwnerSignsIn(r) ==
    /\ regime.human /\ lrun[r].st = "waiting_for_hitl" /\ ~lrun[r].signedIn
    /\ lrun' = [lrun EXCEPT ![r].signedIn = TRUE]
    /\ UNCHANGED <<claim, signup, existing, reusable, pairs, vendor, proven, regime>>

----------------------------------------------------------------------------
\* promote_staged_signup_login_pair: the staged pair becomes the reusable one.
PromoteSignup(r) ==
    signup' = [signup EXCEPT !.st = "promoted"] /\ reusable' = signup.pair

\* promote_staged_existing_login_pair: without a stage nothing changes.
PromoteExisting(r) ==
    IF existing[r] = NoStage THEN UNCHANGED <<existing, reusable>>
    ELSE existing' = [existing EXCEPT ![r].st = "promoted"] /\ reusable' = existing[r].pair

\* credential_page_ready: a page that shows somebody is signed in.
ProtectedPage(r) == lrun[r].signedIn

\* _apply_browser_observation on a page that only a signed-in user sees.  The
\* run goes on, or ends with the promotion.
PageReady(r) ==
    /\ lrun[r].st = "driving" /\ ProtectedPage(r)
    /\ \/ /\ lrun[r].mode = "create_account" /\ signup.run = r
          /\ PromoteSignup(r) /\ lrun' \in {lrun, [lrun EXCEPT ![r].st = "completed"]} /\ UNCHANGED existing
       \/ /\ lrun[r].mode = "create_account" /\ signup.run # r
          /\ Becomes(r, "configuration_required") /\ UNCHANGED <<signup, existing, reusable>>
       \/ /\ lrun[r].mode = "existing_account" /\ PromoteExisting(r)
          /\ lrun' \in {lrun, [lrun EXCEPT ![r].st = "completed"]} /\ UNCHANGED signup
    /\ UNCHANGED <<claim, pairs, vendor, proven, regime>>

RunFails(r) ==
    /\ lrun[r].st \in {"driving", "waiting_for_hitl"} /\ Becomes(r, "failed")
    /\ UNCHANGED <<claim, signup, existing, reusable, pairs, vendor, proven, regime>>

LNext ==
    \E r \in Runs :
        \/ BeginSignup(r) \/ RetrySignup(r) \/ ReadOwner(r) \/ ReadStatus(r) \/ ReleaseStaged(r) \/ Restage(r)
        \/ SubmitRegistration(r) \/ SignupGated(r) \/ ResumeSignup(r) \/ SignsIn(r) \/ LoginAnswered(r) \/ OwnerSignsIn(r)
        \/ PageReady(r) \/ RunFails(r)

LSpec == LInit /\ [][LNext]_loginVars

----------------------------------------------------------------------------
\* A live run keeps its identity (stage_signup_login): the browser of a
\* driving signup holds the pair that the vault holds for the app, so no two
\* runs register at once -- unless a run is retried while it is examined.
LiveRunKeepsIdentity ==
    \A r \in Runs : ~regime.race /\ lrun[r].mode = "create_account" /\ lrun[r].st = "driving"
                    => signup.run = r /\ signup.pair = lrun[r].pair

\* The same with retries at any time: "A live run keeps its identity and the
\* refusal stands."
IdentityIsExclusive ==
    \A r \in Runs : lrun[r].mode = "create_account" /\ lrun[r].st = "driving"
                    => signup.run = r /\ signup.pair = lrun[r].pair

\* A promoted identity is never given up, also when its run was promoted
\* between the examination and the release (release_staged_signup_login_pair).
PromotedIsKept == [][signup.st = "promoted" => signup' = signup]_loginVars

\* The reusable pair is one the vendor has accepted: a failed signup, a pair
\* that was only typed or a pair of another run never replaces it -- as long
\* as nobody signs in by hand.
ReusableWasAccepted == ~regime.human => (reusable # NoPair => reusable \in proven)

\* The vault of an app: the identity of a live run is not released, and a pair is
\* reusable only after a protected page accepted it.
VaultSafety == LTypeOK /\ LiveRunKeepsIdentity /\ ReusableWasAccepted

\* The same with owners who sign in by hand: "The staged pair is therefore
\* promoted only after positive authentication evidence, never when a typo
\* merely gets typed." (_apply_browser_observation)
ReusableIsProven == reusable # NoPair => reusable \in proven

\* A vendor account made with a generated pair can still be signed in to: the
\* pair is in the vault.
AccountIsReachable ==
    \A r \in Runs : lrun[r].mode = "create_account" /\ vendor # NoPair => vendor \in {signup.pair, reusable}
=============================================================================
