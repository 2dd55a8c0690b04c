------------------------- MODULE ControlPlaneProofs --------------------------
(* What the control plane's runs may do once and may not lose: a managed run's *)
(* connection and key (CanonicalRuntime), the secrets of a run and the sign-in *)
(* pairs of an app (SecretStore), for any runs and bounds.                     *)
EXTENDS MCControlPlane, TLAPS

-----------------------------------------------------------------------------
(* CanonicalRuntime, a managed run: the inductive invariant.                  *)

ManagedPhases ==
    {"connection_required", "connection_starting", "connection_start_failed",
     "waiting_for_connection", "connection_poll_failed", "connection_failed",
     "key_submission_required", "key_publish_reserved", "key_publish_failed",
     "key_publish_incomplete", "outreach_review", "outreach_sending",
     "waiting_for_reply", "outreach_send_failed", "completed"}

ManagedRow ==
    [route: Routes, phase: ManagedPhases, request: BOOLEAN, bundle: BOOLEAN,
     status: {"connection_required", "route_selected", "waiting_for_reply",
              "completed", "failed", "configuration_required"}]

\* A call works on a run of its own route.
OnItsRoute ==
    /\ handler \in {"connecting", "polling"} => mrow.route = "managed_auth"
    /\ handler \in {"vaulting", "publishing", "published", "settling"} => mrow.route = "managed_key"
    /\ handler = "sending" => mrow.route = "gated"

\* Before Composio has the key it is in the vault, and a run that still asks for its
\* key, or whose key is on its way to the vault, has published none.
VaultedBefore ==
    mrow.route = "managed_key" =>
        /\ handler \in {"publishing", "published"} \/ sent = 1 => refs = 1
        /\ mrow.phase = "key_submission_required" =>
              handler = "none" /\ sent = 0 /\ mrow.status = "route_selected"
        /\ handler \in {"vaulting", "publishing"} => sent = 0

MInv == ManagedRunSafety /\ mrow \in ManagedRow /\ OnItsRoute /\ VaultedBefore

-----------------------------------------------------------------------------
(* SecretStore, the grants: the inductive invariant.                          *)

GrantRow == [phase: {"pending", "auth", "gate", "ready", "capturing", "over"},
             op: 0..MaxOperation]
Caller == [pc: {"idle", "stored", "granted", "reserved", "bound", "awaiting"},
           kind: {"none", "start", "resume"}, op: 0..MaxOperation, n: 0..MaxPayload]
Handoff == [pc: {"none", "consume", "typed", "refused"}, n: 0..MaxPayload, got: SUBSET Fields]

GrantTypes ==
    /\ handoff \in [Operations -> Handoff] /\ released \in [Refs -> Nat]
    /\ orphaned \subseteq 0..MaxPayload

\* One capture inserts one row: a completed grant is the record of it, and nothing is
\* captured before the call is sent.
OneInsert ==
    /\ capRows = IF capGrant = "completed" THEN 1 ELSE 0
    /\ capCall.pc = "none" => capCall.flying = 0 /\ capGrant # "completed"
    /\ capCall.pc = "sent" => capCall.flying \in 0..1

\* A call has a payload and an operation of its own; the row names the operation once
\* the call has moved it.
CallIsOwn ==
    caller # NoCall =>
        /\ caller.pc # "idle" /\ caller.kind \in {"start", "resume"}
        /\ caller.op \in Operations /\ caller.n \in 1..payloads
        /\ caller.pc \in {"stored", "granted"} => caller.op = grow.op + 1
        /\ caller.pc \in {"reserved", "bound", "awaiting"} => caller.op = grow.op
        /\ caller.pc = "granted" => caller.kind = "resume"
        /\ caller.pc \in {"reserved", "bound"} => caller.kind = "start"

\* Until it is dispatched a payload is in nobody's hands ...
UndispatchedIsNew ==
    caller.pc \in {"stored", "granted", "reserved", "bound"} =>
        /\ \A o \in Operations : handoff[o].n # caller.n
        /\ caller.pc # "granted" => \A g \in grants : g.ref.n # caller.n
        /\ caller.pc \in {"reserved", "bound"} => handoff[caller.op].n = 0

\* ... and then in those of its operation alone.
DispatchedOnce ==
    /\ caller.pc = "awaiting" => handoff[caller.op].n = caller.n
    /\ \A o \in Operations : handoff[o].n # 0 => o <= grow.op
    /\ \A o, p \in Operations : handoff[o].n # 0 /\ handoff[o].n = handoff[p].n => o = p

\* What the vault and the handoffs know of was made.
MadeBefore ==
    /\ \A g \in grants : g.ref.n <= payloads
    /\ \A o \in Operations : handoff[o].n <= payloads
    /\ \A r \in oneTime : r.n <= payloads

GInv ==
    /\ GrantsSafety /\ GrantTypes /\ OneInsert /\ CallIsOwn
    /\ UndispatchedIsNew /\ DispatchedOnce /\ MadeBefore

-----------------------------------------------------------------------------
(* SecretStore, the pairs: the inductive invariant.                           *)

LoginRun == [mode: {"create_account", "existing_account"}, pair: 0..MaxPairs, signedIn: BOOLEAN,
             st: {"new", "driving", "waiting_for_hitl", "configuration_required", "failed", "completed"}]
Stage == [run: Runs \cup {"none"}, pair: 0..MaxPairs, st: {"none", "pending", "promoted"}]

VaultTypes ==
    /\ lrun \in [Runs -> LoginRun] /\ signup \in Stage /\ existing \in [Runs -> Stage]
    /\ claim \in [Runs -> [pc: {"none", "owner", "status", "release", "restage"},
                           holder: Runs \cup {"none"}]]
    /\ pairs \in 0..MaxPairs
    /\ signup = NoStage \/ (signup.run \in Runs /\ signup.st # "none")
    /\ \A r \in Runs : existing[r] = NoStage \/ existing[r].st # "none"

\* A run that wants a held identity has not begun; it signs up.
ClaimantIsNew ==
    \A r \in Runs : claim[r].pc # "none" =>
        /\ lrun[r].mode = "create_account" /\ lrun[r].st = "new"
        /\ claim[r].pc \in {"status", "release"} =>
              claim[r].holder \in Runs /\ lrun[claim[r].holder].mode = "create_account"

\* The examined run stays finished while nobody retries it.
HolderStaysFinished ==
    ~regime.race => \A r \in Runs :
        claim[r].pc = "release" => lrun[claim[r].holder].st \in Finished

\* The stage is that of a run which has begun, with the pair in its browser.
StageIsItsRuns ==
    signup.run \in Runs =>
        /\ lrun[signup.run].mode = "create_account" /\ lrun[signup.run].st # "new"
        /\ lrun[signup.run].pair = signup.pair

\* A run that signs up and may drive on keeps its stage.
LiveKeepsStage ==
    \A r \in Runs : lrun[r].mode = "create_account" /\ lrun[r].st \in {"driving", "waiting_for_hitl"} =>
        /\ lrun[r].pair # NoPair
        /\ ~regime.race => signup.run = r

\* Only a sign-in has a stage of its own, with the pair in its browser, and the vendor
\* has an account before it.
SignInIsStaged ==
    \A r \in Runs :
        /\ existing[r] # NoStage => lrun[r].mode = "existing_account" /\ existing[r].pair = lrun[r].pair
        /\ lrun[r].mode = "existing_account" => vendor # NoPair

\* Without a person's hand a page shows somebody signed in only after the vendor
\* accepted the pair in the browser.
SignedInIsProven ==
    ~regime.human => \A r \in Runs :
        /\ lrun[r].signedIn => lrun[r].pair \in proven
        /\ lrun[r].mode = "existing_account" /\ lrun[r].st = "waiting_for_hitl" => ~lrun[r].signedIn

LInv ==
    /\ VaultSafety /\ VaultTypes /\ ClaimantIsNew /\ HolderStaysFinished /\ StageIsItsRuns
    /\ LiveKeepsStage /\ SignInIsStaged /\ SignedInIsProven

-----------------------------------------------------------------------------
(* A managed run.                                                             *)

LEMMA ManagedInit ==
  ASSUME MInit
  PROVE  MInv
<1>1. PICK route \in Routes :
         mrow = [route |-> route, status |-> Opening(route)[1], phase |-> Opening(route)[2],
                 request |-> FALSE, bundle |-> FALSE]
  BY DEF MInit
<1>2. mrow \in ManagedRow /\ mrow.route = route /\ mrow.bundle = FALSE
      /\ mrow.status \in {"connection_required", "route_selected"}
  BY <1>1 DEF ManagedRow, Opening, Routes, ManagedPhases
<1>3. CompletedIsConnected /\ KeyPublishedOnce
  <2>1. sent = 0 /\ sent # 1 /\ sent <= 1
    BY DEF MInit
  <2>2. mrow.status # "completed"
    BY <1>2
  <2>3. mrow.bundle = (mrow.status = "completed")
    BY <1>2, <2>2, Zenon
  <2> QED BY <1>2, <2>1, <2>3 DEF CompletedIsConnected, KeyPublishedOnce
<1>5. MTypeOK
  <2>1. calls \in 0..MaxCalls /\ refs \in 0..1 /\ sent \in 0..1
    BY ManagedRunAssumption DEF MInit
  <2> QED BY <1>2, <2>1 DEF MInit, MTypeOK, ManagedRow
<1>4. OnItsRoute /\ VaultedBefore
  <2>1. mrow.phase = "key_submission_required" => mrow.status = "route_selected"
    BY <1>1 DEF Opening, Routes
  <2> QED BY <2>1 DEF MInit, OnItsRoute, VaultedBefore
<1> QED BY <1>2, <1>3, <1>4, <1>5 DEF MInv, ManagedRunSafety

\* A handler begins, the connection is made, answered and polled.
LEMMA ConnectionSteps ==
  ASSUME MInv, \/ ConnectManagedRun \/ ComposioLinks \/ ConnectionStarted
               \/ PollManagedConnection \/ ConnectionPolled
               \/ \E to \in {"active", "terminal"} : UserAuthorizes(to)
  PROVE  MInv'
<1> USE ManagedRunAssumption
    DEF MInv, ManagedRunSafety, MTypeOK, CompletedIsConnected, KeyPublishedOnce, OnItsRoute,
        VaultedBefore, ManagedRow, Routes, ManagedPhases
<1>1. CASE ConnectManagedRun
  <2>1. calls' \in 0..MaxCalls
    BY <1>1 DEF ConnectManagedRun, Begins
  <2>2. mrow' \in ManagedRow
    BY <1>1 DEF ConnectManagedRun, Begins, Row
  <2> QED BY <1>1, <2>1, <2>2 DEF ConnectManagedRun, Begins, Row
<1>2. CASE ComposioLinks
  BY <1>2 DEF ComposioLinks
<1>3. CASE ConnectionStarted
  BY ZenonT(60), <1>3 DEF ConnectionStarted, Row
<1>4. CASE PollManagedConnection
  <2>1. calls' \in 0..MaxCalls
    BY <1>4 DEF PollManagedConnection, Begins
  <2>2. mrow' \in ManagedRow
    BY <1>4 DEF PollManagedConnection, Begins, Row
  <2> QED BY <1>4, <2>1, <2>2 DEF PollManagedConnection, Begins, Row
<1>5. CASE ConnectionPolled
  <2>1. PolledRow \in {<<"completed", "completed">>, <<"failed", "connection_failed">>,
                       <<"connection_required", "waiting_for_connection">>}
        /\ (PolledRow[1] = "completed" => account = "active")
    BY DEF PolledRow
  <2>2. mrow.route = "managed_auth" /\ ~mrow.bundle
    BY <1>5 DEF ConnectionPolled
  <2>3. CASE mrow' = [mrow EXCEPT !.status = PolledRow[1], !.phase = PolledRow[2],
                                  !.bundle = (PolledRow[1] = "completed")]
    <3>1. CASE PolledRow = <<"completed", "completed">>
      <4>1. mrow' = [mrow EXCEPT !.status = "completed", !.phase = "completed", !.bundle = TRUE]
        BY <2>3, <3>1
      <4> QED BY <1>5, <2>1, <2>2, <3>1, <4>1 DEF ConnectionPolled
    <3>2. CASE PolledRow = <<"failed", "connection_failed">>
      <4>1. mrow' = [mrow EXCEPT !.status = "failed", !.phase = "connection_failed", !.bundle = FALSE]
        BY <2>3, <3>2
      <4> QED BY <1>5, <2>2, <4>1 DEF ConnectionPolled
    <3>3. CASE PolledRow = <<"connection_required", "waiting_for_connection">>
      <4>1. mrow' = [mrow EXCEPT !.status = "connection_required", !.phase = "waiting_for_connection",
                                 !.bundle = FALSE]
        BY <2>3, <3>3
      <4> QED BY <1>5, <2>2, <4>1 DEF ConnectionPolled
    <3> QED BY <2>1, <3>1, <3>2, <3>3
  <2>4. CASE Row("connection_required", "connection_poll_failed")
    BY <1>5, <2>2, <2>4 DEF ConnectionPolled, Row
  <2> QED BY <1>5, <2>3, <2>4 DEF ConnectionPolled
<1>6. CASE \E to \in {"active", "terminal"} : UserAuthorizes(to)
  BY <1>6 DEF UserAuthorizes
<1> QED BY <1>1, <1>2, <1>3, <1>4, <1>5, <1>6

\* The owner's key is taken, vaulted and published.
LEMMA KeySteps ==
  ASSUME MInv, \/ SubmitManagedKey \/ KeyVaulted \/ KeyPublished \/ PublishSettled
               \/ \E to \in {"active", "terminal"} : ComposioPublishes(to)
  PROVE  MInv'
<1> USE ManagedRunAssumption
    DEF MInv, ManagedRunSafety, MTypeOK, CompletedIsConnected, KeyPublishedOnce, OnItsRoute,
        VaultedBefore, ManagedRow, Routes, ManagedPhases
<1>1. CASE SubmitManagedKey
  <2>1. calls' \in 0..MaxCalls
    BY <1>1 DEF SubmitManagedKey, Begins
  <2>2. mrow' \in ManagedRow
    BY <1>1 DEF SubmitManagedKey, Begins, Row
  <2>3. /\ mrow'.route = "managed_key" /\ mrow'.status = mrow.status /\ mrow'.bundle = mrow.bundle
        /\ mrow'.request = mrow.request /\ mrow.status = "route_selected"
        /\ mrow'.phase = "key_publish_reserved" /\ handler' = "vaulting" /\ publish' = "pending"
        /\ mrow.route = "managed_key" /\ mrow.phase = "key_submission_required"
        /\ UNCHANGED <<refs, account, sent>> /\ handler = "none"
    BY <1>1 DEF SubmitManagedKey, Begins, Row
  <2>4. MTypeOK'
    BY <2>1, <2>2, <2>3
  <2>5. CompletedIsConnected' /\ KeyPublishedOnce'
    BY <2>3
  <2>6. OnItsRoute' /\ VaultedBefore'
    BY <2>3
  <2> QED BY <2>2, <2>4, <2>5, <2>6
<1>2. CASE KeyVaulted
  BY <1>2 DEF KeyVaulted
<1>3. CASE KeyPublished
  BY ZenonT(60), <1>3 DEF KeyPublished, Row
<1>4. CASE \E to \in {"active", "terminal"} : ComposioPublishes(to)
  BY <1>4 DEF ComposioPublishes
<1>5. CASE PublishSettled
  BY <1>5 DEF PublishSettled
<1> QED BY <1>1, <1>2, <1>3, <1>4, <1>5

\* The gated mail is sent, or a handler dies.
LEMMA MailSteps ==
  ASSUME MInv, SendGatedOutreach \/ GmailSends \/ OutreachSent \/ HandlerDies
  PROVE  MInv'
<1> USE ManagedRunAssumption
    DEF MInv, ManagedRunSafety, MTypeOK, CompletedIsConnected, KeyPublishedOnce, OnItsRoute,
        VaultedBefore, ManagedRow, Routes, ManagedPhases
<1>1. CASE SendGatedOutreach
  <2>1. calls' \in 0..MaxCalls
    BY <1>1 DEF SendGatedOutreach, Begins
  <2>2. mrow' \in ManagedRow
    BY <1>1 DEF SendGatedOutreach, Begins, Row
  <2> QED BY <1>1, <2>1, <2>2 DEF SendGatedOutreach, Begins, Row
<1>2. CASE GmailSends
  BY <1>2 DEF GmailSends
<1>3. CASE OutreachSent
  BY ZenonT(60), <1>3 DEF OutreachSent, Row
<1>4. CASE HandlerDies
  BY <1>4 DEF HandlerDies
<1> QED BY <1>1, <1>2, <1>3, <1>4

\* The canonical runtime's managed runs (start_managed_run, poll_managed_connection,
\* submit_managed_key): a run is completed only on an account that Composio reports
\* ACTIVE, a published key is in the vault, and no retry or crash publishes a second one.
THEOREM ManagedRunIsSafe == MSpec => []ManagedRunSafety
<1>1. MInit => MInv
  BY ManagedInit
<1>2. MInv /\ [MNext]_managedVars => MInv'
  <2> SUFFICES ASSUME MInv, [MNext]_managedVars PROVE MInv'
    OBVIOUS
  <2>1. CASE MNext
    BY <2>1, ConnectionSteps, KeySteps, MailSteps DEF MNext
  <2>2. CASE UNCHANGED managedVars
    BY <2>2 DEF managedVars, MInv, ManagedRunSafety, MTypeOK, CompletedIsConnected,
       KeyPublishedOnce, OnItsRoute, VaultedBefore, ManagedRow
  <2> QED BY <2>1, <2>2
<1>3. MInv => ManagedRunSafety
  BY DEF MInv
<1> QED BY <1>1, <1>2, <1>3, PTL DEF MSpec


-----------------------------------------------------------------------------
(* SecretStore, the grants.                                                   *)

CaptureTypes ==
    /\ capGrant \in {"none", "reserved", "expired", "completed"}
    /\ capCall \in [pc: {"none", "sent", "resent", "captured", "unknown"}, flying: 0..2]
    /\ capRows \in Nat

LoginTypes ==
    /\ oneTime \subseteq Refs /\ payloads \in 0..MaxPayload
    /\ grants \subseteq [ref: Refs, op: Operations, st: {"reserved", "expired", "completed"}]
    /\ \A g, h \in grants : g.ref = h.ref => g = h
    /\ GrantTypes

GCapture == CaptureTypes /\ OneInsert
GLogin ==
    /\ LoginTypes /\ UndispatchedIsDiscarded /\ CallIsOwn
    /\ UndispatchedIsNew /\ DispatchedOnce /\ MadeBefore
GParts == grow \in GrantRow /\ caller \in Caller /\ GCapture /\ GLogin

\* The invariant is one of the capture and one of the logins.
LEMMA GInvIsParts == GInv <=> GParts
<1>1. GInv => GParts
  BY DEF GInv, GParts, GCapture, GLogin, CaptureTypes, LoginTypes, GrantsSafety, GTypeOK,
         GrantTypes, GrantRow, Caller
<1>2. GParts => GInv
  <2> SUFFICES ASSUME GParts PROVE GInv
    OBVIOUS
  <2>1. CaptureLeavesOneRow
    BY DEF GParts, GCapture, OneInsert, CaptureLeavesOneRow
  <2>2. \A r \in Refs : released[r] \in Nat
    BY DEF GParts, GLogin, LoginTypes, GrantTypes
  <2> QED BY <2>1, <2>2 DEF GInv, GParts, GCapture, GLogin, CaptureTypes, LoginTypes, GrantsSafety,
                           GTypeOK, GrantRow, Caller
<1> QED BY <1>1, <1>2

LEMMA GrantsInit ==
  ASSUME GInit
  PROVE  GParts
<1> USE GrantsAssumption
<1>1. grow \in GrantRow /\ caller \in Caller
  BY DEF GInit, NoCall, GrantRow, Caller
<1>2. GCapture
  BY DEF GInit, GCapture, CaptureTypes, OneInsert
<1>3. LoginTypes
  BY DEF GInit, LoginTypes, GrantTypes, Handoff, NoHandoff, Refs, Operations, Payloads, Fields
<1>4. UndispatchedIsDiscarded /\ CallIsOwn /\ MadeBefore
  BY DEF GInit, UndispatchedIsDiscarded, CallIsOwn, MadeBefore, NoHandoff
<1>5. UndispatchedIsNew /\ DispatchedOnce
  BY DEF GInit, UndispatchedIsNew, DispatchedOnce, NoHandoff, NoCall
<1> QED BY <1>1, <1>2, <1>3, <1>4, <1>5 DEF GParts, GLogin

\* What only moves the row's phase leaves the logins as they are.
LEMMA LoginsKept ==
  ASSUME GLogin, grow'.op = grow.op,
         UNCHANGED <<caller, payloads, oneTime, grants, handoff, released, orphaned>>
  PROVE  GLogin'
BY DEF GLogin, LoginTypes, GrantTypes, UndispatchedIsDiscarded, CallIsOwn, UndispatchedIsNew,
       DispatchedOnce, MadeBefore

LEMMA CaptureKept ==
  ASSUME GCapture, UNCHANGED <<capGrant, capCall, capRows>>
  PROVE  GCapture'
BY DEF GCapture, CaptureTypes, OneInsert

\* The capture, and what moves the row without the caller.
LEMMA CaptureSteps ==
  ASSUME GParts, \/ ReserveCaptureGrant \/ CaptureLands \/ CaptureTimesOut
                 \/ CaptureCallReturns \/ CaptureGrantExpires
  PROVE  GParts'
<1>1. grow' \in GrantRow /\ grow'.op = grow.op
  BY DEF GParts, GrantRow, ReserveCaptureGrant, CaptureLands, CaptureTimesOut,
         CaptureCallReturns, CaptureGrantExpires
<1>2. UNCHANGED <<caller, payloads, oneTime, grants, handoff, released, orphaned>>
  BY DEF ReserveCaptureGrant, CaptureLands, CaptureTimesOut, CaptureCallReturns, CaptureGrantExpires
<1>3. GLogin' /\ caller' \in Caller
  BY <1>1, <1>2, LoginsKept DEF GParts
<1>4. GCapture'
  <2> USE DEF GParts, GCapture, CaptureTypes, OneInsert
  <2>1. CASE ReserveCaptureGrant
    BY <2>1 DEF ReserveCaptureGrant
  <2>2. CASE CaptureLands
    <3>1. capCall' \in [pc: {"none", "sent", "resent", "captured", "unknown"}, flying: 0..2]
          /\ capCall'.flying = capCall.flying - 1 /\ capCall'.pc \in {capCall.pc, "captured", "unknown"}
      BY <2>2 DEF CaptureLands
    <3>2. capCall.pc # "none" /\ capCall'.pc # "none"
      BY <2>2, <3>1 DEF CaptureLands
    <3>3. \/ UNCHANGED <<capRows, capGrant>>
          \/ capGrant = "reserved" /\ capRows' = capRows + 1 /\ capGrant' = "completed"
      BY <2>2 DEF CaptureLands, CaptureWithGrant, CaptureRefused
    <3> QED BY <3>1, <3>2, <3>3
  <2>3. CASE CaptureTimesOut
    BY <2>3 DEF CaptureTimesOut
  <2>4. CASE CaptureCallReturns
    BY <2>4 DEF CaptureCallReturns
  <2>5. CASE CaptureGrantExpires
    BY <2>5 DEF CaptureGrantExpires
  <2> QED BY <2>1, <2>2, <2>3, <2>4, <2>5
<1> QED BY <1>1, <1>3, <1>4 DEF GParts

\* Without the caller: the row is stopped or retried.
LEMMA RowSteps ==
  ASSUME GParts, RowStopped \/ RowRetried
  PROVE  GParts'
<1>1. grow' \in GrantRow /\ grow'.op = grow.op
  BY DEF GParts, GrantRow, RowStopped, RowRetried
<1>2. UNCHANGED <<caller, payloads, oneTime, grants, handoff, released, orphaned>>
      /\ UNCHANGED <<capGrant, capCall, capRows>>
  BY DEF RowStopped, RowRetried
<1> QED BY <1>1, <1>2, LoginsKept, CaptureKept DEF GParts

\* A login is vaulted.
LEMMA VaultStep ==
  ASSUME GParts, NEW kind \in {"start", "resume"}, VaultsLogin(kind)
  PROVE  GParts'
<1> USE GrantsAssumption
<1> DEFINE n == payloads + 1
<1>1. /\ n \in 1..MaxPayload /\ payloads \in Nat /\ payloads' = n /\ caller = NoCall
      /\ UNCHANGED <<grow, grants, handoff, released, orphaned>>
      /\ UNCHANGED <<capGrant, capCall, capRows>>
  BY DEF VaultsLogin, GParts, GLogin, LoginTypes
<1>2. GCapture' /\ grow' \in GrantRow
  BY <1>1, CaptureKept DEF GParts
<1>3. caller.n = 0 /\ caller.pc = "idle"
  BY <1>1 DEF NoCall
<1>4. CASE StoreTransients(n) /\ caller' = [pc |-> "stored", kind |-> kind, op |-> grow.op + 1, n |-> n]
  <2>0. grow.op \in 0..MaxOperation /\ grow.op + 1 \in Operations
    BY DEF VaultsLogin, GParts, GrantRow, Operations
  <2>1. caller' \in Caller /\ caller'.n = n /\ caller'.pc = "stored" /\ caller'.op = grow.op + 1
        /\ caller'.kind = kind
    BY <1>1, <1>4, <2>0 DEF Caller, Operations
  <2>2. RefsOf(n) \subseteq Refs /\ \A r \in RefsOf(n) : r.n = n
    BY <1>1 DEF RefsOf, Refs, Ref, Payloads
  <2>3. LoginTypes'
    <3>1. oneTime' \subseteq Refs
      BY <1>4, <2>2 DEF StoreTransients, GParts, GLogin, LoginTypes
    <3>2. payloads' \in 0..MaxPayload
      BY <1>1
    <3> QED BY <1>1, <3>1, <3>2 DEF GParts, GLogin, LoginTypes, GrantTypes
  <2>4. UndispatchedIsDiscarded'
    <3> SUFFICES ASSUME NEW r \in oneTime'
                 PROVE  (\/ \E o \in Operations : handoff[o].n = r.n
                         \/ caller.n = r.n \/ r.n \in orphaned)'
      BY DEF UndispatchedIsDiscarded
    <3>1. CASE r \in RefsOf(n)
      BY <2>1, <2>2, <3>1
    <3>2. CASE r \in oneTime
      <4>1. r.n # 0
        BY <3>2 DEF GParts, GLogin, LoginTypes, Refs, Payloads
      <4> QED BY <1>1, <1>3, <3>2, <4>1 DEF GParts, GLogin, UndispatchedIsDiscarded
    <3> QED BY <1>4, <3>1, <3>2 DEF StoreTransients
  <2>5. CallIsOwn'
    BY <1>1, <2>0, <2>1 DEF CallIsOwn, NoCall
  <2>6. UndispatchedIsNew'
    <3>1. \A o \in Operations : handoff[o].n # n
      BY <1>1 DEF GParts, GLogin, MadeBefore, LoginTypes, GrantTypes, Handoff
    <3>2. \A g \in grants : g.ref.n # n
      BY <1>1 DEF GParts, GLogin, MadeBefore, LoginTypes, Refs, Payloads
    <3> QED BY <1>1, <2>1, <3>1, <3>2 DEF UndispatchedIsNew
  <2>7. DispatchedOnce'
    BY <1>1, <2>1 DEF GParts, GLogin, DispatchedOnce
  <2>8. MadeBefore'
    <3>1. \A g \in grants : g.ref.n <= payloads'
      BY <1>1 DEF GParts, GLogin, MadeBefore, LoginTypes, Refs, Payloads
    <3>2. \A o \in Operations : handoff[o].n <= payloads'
      BY <1>1 DEF GParts, GLogin, MadeBefore, LoginTypes, GrantTypes, Handoff
    <3>3. \A r \in oneTime : r.n <= payloads'
      BY <1>1 DEF GParts, GLogin, MadeBefore, LoginTypes, Refs, Payloads
    <3> QED BY <1>1, <1>4, <2>2, <3>1, <3>2, <3>3 DEF MadeBefore, StoreTransients
  <2> QED BY <1>2, <2>1, <2>3, <2>4, <2>5, <2>6, <2>7, <2>8 DEF GParts, GLogin
<1>5. CASE StoreRollsBack(n) /\ UNCHANGED caller
  <2>1. UNCHANGED oneTime
    BY <1>5 DEF StoreRollsBack
  <2>2. MadeBefore'
    <3>1. \A g \in grants : g.ref.n <= payloads'
      BY <1>1 DEF GParts, GLogin, MadeBefore, LoginTypes, Refs, Payloads
    <3>2. \A o \in Operations : handoff[o].n <= payloads'
      BY <1>1 DEF GParts, GLogin, MadeBefore, LoginTypes, GrantTypes, Handoff
    <3>3. \A r \in oneTime : r.n <= payloads'
      BY <1>1 DEF GParts, GLogin, MadeBefore, LoginTypes, Refs, Payloads
    <3> QED BY <1>1, <2>1, <3>1, <3>2, <3>3 DEF MadeBefore
  <2>3. LoginTypes' /\ UndispatchedIsDiscarded'
    BY <1>1, <1>5, <2>1 DEF GParts, GLogin, LoginTypes, GrantTypes, UndispatchedIsDiscarded
  <2>4. CallIsOwn' /\ UndispatchedIsNew' /\ DispatchedOnce'
    BY <1>1, <1>3, <1>5, <2>1 DEF GParts, GLogin, CallIsOwn, UndispatchedIsNew, DispatchedOnce
  <2> QED BY <1>2, <1>5, <2>2, <2>3, <2>4 DEF GParts, GLogin
<1> QED BY <1>4, <1>5 DEF VaultsLogin

\* Where the login's payload is new, it may be handed to its operation.
LEMMA Dispatch ==
  ASSUME GParts, caller.pc \in {"granted", "bound"}, grow'.op = caller.op,
         handoff' = [handoff EXCEPT ![caller.op] = [NoHandoff EXCEPT !.pc = "consume", !.n = caller.n]],
         handoff[caller.op].n = 0,
         caller' = [caller EXCEPT !.pc = "awaiting"],
         UNCHANGED <<payloads, oneTime, released, orphaned>>,
         LoginTypes', \A g \in grants' : g.ref.n <= payloads
  PROVE  GLogin' /\ caller' \in Caller
<1>1. caller \in Caller /\ caller.op \in Operations /\ caller.n \in 1..payloads
      /\ caller.kind \in {"start", "resume"}
  BY DEF GParts, GLogin, CallIsOwn, NoCall
<1>2. caller' \in Caller /\ caller'.pc = "awaiting" /\ caller'.op = caller.op /\ caller'.n = caller.n
      /\ caller'.kind = caller.kind
  BY <1>1 DEF Caller
<1>3. handoff \in [Operations -> Handoff]
  BY DEF GParts, GLogin, LoginTypes, GrantTypes
<1>4. handoff'[caller.op].n = caller.n
      /\ \A o \in Operations : o # caller.op => handoff'[o] = handoff[o]
  BY <1>1, <1>3 DEF NoHandoff
<1>5. \A o \in Operations : handoff[o].n # caller.n
  BY DEF GParts, GLogin, UndispatchedIsNew
<1>6. UndispatchedIsDiscarded'
  <2> SUFFICES ASSUME NEW r \in oneTime
               PROVE  (\/ \E o \in Operations : handoff[o].n = r.n
                       \/ caller.n = r.n \/ r.n \in orphaned)'
    BY DEF UndispatchedIsDiscarded
  <2>1. r.n # 0
    BY DEF GParts, GLogin, LoginTypes, Refs, Payloads
  <2>2. CASE \E o \in Operations : handoff[o].n = r.n
    BY <1>4, <2>1, <2>2
  <2> QED BY <1>2, <2>2 DEF GParts, GLogin, UndispatchedIsDiscarded
<1>7. CallIsOwn'
  BY <1>1, <1>2 DEF CallIsOwn
<1>8. UndispatchedIsNew'
  BY <1>2 DEF UndispatchedIsNew
<1>9. DispatchedOnce'
  <2>1. \A o \in Operations : handoff[o].n # 0 => o <= caller.op
    <3>1. caller.op \in {grow.op, grow.op + 1} /\ grow.op \in Int
      BY DEF GParts, GLogin, CallIsOwn, NoCall, GrantRow
    <3> QED BY <3>1 DEF GParts, GLogin, DispatchedOnce, Operations
  <2>2. \A o \in Operations : handoff'[o].n # 0 => o <= caller.op
    BY <1>1, <1>4, <2>1 DEF Operations
  <2> QED BY <1>1, <1>2, <1>4, <1>5, <2>2 DEF GParts, GLogin, DispatchedOnce
<1>10. MadeBefore'
  BY <1>1, <1>4 DEF GParts, GLogin, MadeBefore
<1> QED BY <1>2, <1>6, <1>7, <1>8, <1>9, <1>10 DEF GLogin

\* The grants of one payload are new rows for its values.
LEMMA GrantsAreNew ==
  ASSUME GParts, caller.pc \in {"stored", "bound"}, ReserveConsume(caller)
  PROVE  /\ grants' \subseteq [ref: Refs, op: Operations, st: {"reserved", "expired", "completed"}]
         /\ \A g, h \in grants' : g.ref = h.ref => g = h
         /\ \A g \in grants' : g.ref.n <= payloads
<1> DEFINE new == {[ref |-> r, op |-> caller.op, st |-> "reserved"] : r \in RefsOf(caller.n)}
<1>1. caller.op \in Operations /\ caller.n \in 1..payloads /\ payloads \in 0..MaxPayload
  BY DEF GParts, GLogin, CallIsOwn, NoCall, LoginTypes
<1>2. RefsOf(caller.n) \subseteq Refs /\ \A r \in RefsOf(caller.n) : r.n = caller.n
  BY <1>1, GrantsAssumption DEF RefsOf, Refs, Ref, Payloads
<1>3. new \subseteq [ref: Refs, op: Operations, st: {"reserved", "expired", "completed"}]
  BY <1>1, <1>2
<1>4. \A g \in new : g.ref.n = caller.n /\ \A h \in new : g.ref = h.ref => g = h
  BY <1>2
<1>5. \A g \in grants : g.ref.n # caller.n /\ g.ref.n <= payloads
  BY DEF GParts, GLogin, UndispatchedIsNew, MadeBefore
<1>6. grants' = grants \cup new
  BY DEF ReserveConsume
<1>7. /\ grants \subseteq [ref: Refs, op: Operations, st: {"reserved", "expired", "completed"}]
      /\ \A g, h \in grants : g.ref = h.ref => g = h
  BY DEF GParts, GLogin, LoginTypes
<1> HIDE DEF new
<1>8. \A g, h \in grants' : g.ref = h.ref => g = h
  BY <1>4, <1>5, <1>6, <1>7
<1>9. \A g \in grants' : g.ref.n <= payloads
  BY <1>1, <1>4, <1>5, <1>6
<1> QED BY <1>3, <1>6, <1>7, <1>8, <1>9

LEMMA GrantStep ==
  ASSUME GParts, ReservesGrants
  PROVE  GParts'
<1>1. /\ UNCHANGED <<payloads, released, orphaned, oneTime>>
      /\ UNCHANGED grow /\ UNCHANGED <<capGrant, capCall, capRows>>
  BY DEF ReservesGrants
<1>2. GCapture' /\ grow' \in GrantRow
  BY <1>1, CaptureKept DEF GParts
<1>3. CASE /\ caller.kind = "resume" /\ caller.pc = "stored"
           /\ caller' = [caller EXCEPT !.pc = "granted"] /\ ReserveConsume(caller)
           /\ UNCHANGED <<oneTime, handoff>>
  <2>1. /\ caller' \in Caller /\ caller'.pc = "granted" /\ caller'.op = caller.op
        /\ caller'.n = caller.n /\ caller'.kind = caller.kind
    BY <1>3 DEF GParts, Caller
  <2>2. LoginTypes' /\ MadeBefore'
    <3>1. \A g \in grants' : g.ref.n <= payloads
      BY <1>3, GrantsAreNew
    <3>2. LoginTypes'
      BY <1>1, <1>3, GrantsAreNew DEF GParts, GLogin, LoginTypes, GrantTypes
    <3> QED BY <1>1, <1>3, <3>1, <3>2 DEF GParts, GLogin, MadeBefore
  <2>3. UndispatchedIsDiscarded' /\ DispatchedOnce'
    BY <1>1, <1>3, <2>1 DEF GParts, GLogin, UndispatchedIsDiscarded, DispatchedOnce
  <2>4. CallIsOwn'
    BY <1>1, <1>3, <2>1 DEF GParts, GLogin, CallIsOwn, NoCall
  <2>5. UndispatchedIsNew'
    BY <1>1, <1>3, <2>1 DEF GParts, GLogin, UndispatchedIsNew
  <2> QED BY <1>2, <2>1, <2>2, <2>3, <2>4, <2>5 DEF GParts, GLogin
<1>4. CASE /\ caller.kind = "start" /\ caller.pc = "bound"
           /\ grow = [phase |-> "auth", op |-> caller.op]
           /\ ReserveConsume(caller) /\ caller' = [caller EXCEPT !.pc = "awaiting"]
           /\ handoff' = [handoff EXCEPT ![caller.op] = [NoHandoff EXCEPT !.pc = "consume", !.n = caller.n]]
           /\ UNCHANGED oneTime
  <2>1. caller.n \in 0..MaxPayload
    BY DEF GParts, Caller
  <2>2. handoff' \in [Operations -> Handoff]
    BY <1>4, <2>1 DEF GParts, GLogin, LoginTypes, GrantTypes, Handoff, NoHandoff, Fields
  <2>3. LoginTypes'
    BY <1>1, <1>4, <2>2, GrantsAreNew DEF GParts, GLogin, LoginTypes, GrantTypes
  <2>4. handoff[caller.op].n = 0
    BY <1>4 DEF GParts, GLogin, UndispatchedIsNew
  <2>5. \A g \in grants' : g.ref.n <= payloads
    BY <1>4, GrantsAreNew
  <2>6. grow'.op = caller.op
    BY <1>1, <1>4
  <2>7. GLogin' /\ caller' \in Caller
    BY <1>1, <1>4, <2>3, <2>4, <2>5, <2>6, Dispatch
  <2> QED BY <1>2, <2>7 DEF GParts
<1> QED BY <1>3, <1>4 DEF ReservesGrants

LEMMA MoveStep ==
  ASSUME GParts, MovesRow
  PROVE  GParts'
<1>1. /\ UNCHANGED <<payloads, released, orphaned, oneTime>>
      /\ UNCHANGED grants /\ UNCHANGED <<capGrant, capCall, capRows>>
      /\ grow' = [phase |-> "auth", op |-> caller.op]
  BY DEF MovesRow
<1>2. caller.op \in Operations /\ caller.op = grow.op + 1 /\ caller.pc \in {"stored", "granted"}
      /\ caller \in Caller /\ grow.op \in 0..MaxOperation
  BY DEF MovesRow, GParts, GLogin, CallIsOwn, NoCall, GrantRow
<1>3. GCapture' /\ grow' \in GrantRow /\ grow'.op = caller.op
  BY <1>1, <1>2, GrantsAssumption, CaptureKept DEF GParts, GrantRow, Operations
<1>4. handoff[caller.op].n = 0
  BY <1>2 DEF GParts, GLogin, DispatchedOnce
<1>5. CASE caller.kind = "start" /\ caller' = [caller EXCEPT !.pc = "reserved"] /\ UNCHANGED handoff
  <2>1. /\ caller' \in Caller /\ caller'.pc = "reserved" /\ caller'.op = caller.op
        /\ caller'.n = caller.n /\ caller'.kind = caller.kind
    BY <1>2, <1>5 DEF Caller
  <2>2. caller.pc = "stored"
    BY <1>5 DEF MovesRow
  <2>3. LoginTypes' /\ MadeBefore' /\ UndispatchedIsDiscarded'
    BY <1>1, <1>5, <2>1 DEF GParts, GLogin, LoginTypes, GrantTypes, MadeBefore, UndispatchedIsDiscarded
  <2>4. CallIsOwn'
    BY <1>1, <1>3, <1>5, <2>1, <2>2 DEF GParts, GLogin, CallIsOwn, NoCall
  <2>5. UndispatchedIsNew'
    BY <1>1, <1>4, <1>5, <2>1, <2>2 DEF GParts, GLogin, UndispatchedIsNew
  <2>6. DispatchedOnce'
    <3>1. \A o \in Operations : handoff[o].n # 0 => o <= caller.op
      BY <1>2 DEF GParts, GLogin, DispatchedOnce, Operations
    <3> QED BY <1>1, <1>3, <1>5, <2>1, <3>1 DEF GParts, GLogin, DispatchedOnce
  <2> QED BY <1>3, <2>1, <2>3, <2>4, <2>5, <2>6 DEF GParts, GLogin
<1>6. CASE /\ caller.kind = "resume" /\ caller' = [caller EXCEPT !.pc = "awaiting"]
           /\ handoff' = [handoff EXCEPT ![caller.op] = [NoHandoff EXCEPT !.pc = "consume", !.n = caller.n]]
  <2>1. caller.pc = "granted" /\ caller.n \in 0..MaxPayload
    BY <1>2, <1>6 DEF MovesRow, Caller
  <2>2. handoff' \in [Operations -> Handoff]
    BY <1>6, <2>1 DEF GParts, GLogin, LoginTypes, GrantTypes, Handoff, NoHandoff, Fields
  <2>3. LoginTypes'
    BY <1>1, <2>2 DEF GParts, GLogin, LoginTypes, GrantTypes
  <2>4. \A g \in grants' : g.ref.n <= payloads
    BY <1>1 DEF GParts, GLogin, MadeBefore
  <2>5. GLogin' /\ caller' \in Caller
    BY <1>1, <1>3, <1>4, <1>6, <2>1, <2>3, <2>4, Dispatch
  <2> QED BY <1>3, <2>5 DEF GParts
<1> QED BY <1>5, <1>6 DEF MovesRow

\* The session is bound, or the call ends one way or another.
LEMMA CallerSteps ==
  ASSUME GParts, BindsSession \/ GivesUpUndispatched \/ CallReturns \/ RuntimeDies
  PROVE  GParts'
<1>1. /\ UNCHANGED <<payloads, grants, handoff, released>> /\ UNCHANGED <<capGrant, capCall, capRows>>
  BY DEF BindsSession, GivesUpUndispatched, CallReturns, RuntimeDies
<1>2. grow' \in GrantRow /\ grow'.op = grow.op /\ GCapture'
  <2>1. grow' = grow \/ \E p \in {"pending", "auth", "gate", "ready", "capturing", "over"} :
                           grow' = [grow EXCEPT !.phase = p]
    BY DEF BindsSession, GivesUpUndispatched, CallReturns, RuntimeDies
  <2> QED BY <1>1, <2>1, CaptureKept DEF GParts, GrantRow
<1>3. CASE BindsSession
  <2>1. /\ caller' \in Caller /\ caller'.pc = "bound" /\ caller'.op = caller.op
        /\ caller'.n = caller.n /\ caller'.kind = caller.kind /\ caller.pc = "reserved"
        /\ UNCHANGED <<oneTime, orphaned>>
    BY <1>3 DEF BindsSession, GParts, Caller
  <2>2. LoginTypes' /\ MadeBefore' /\ UndispatchedIsDiscarded'
    BY <1>1, <2>1 DEF GParts, GLogin, LoginTypes, GrantTypes, MadeBefore, UndispatchedIsDiscarded
  <2>3. CallIsOwn' /\ UndispatchedIsNew' /\ DispatchedOnce'
    BY <1>1, <1>2, <1>3, <2>1 DEF GParts, GLogin, CallIsOwn, NoCall, UndispatchedIsNew, DispatchedOnce,
       BindsSession
  <2> QED BY <1>2, <2>1, <2>2, <2>3 DEF GParts, GLogin
<1>4. CASE GivesUpUndispatched \/ CallReturns \/ RuntimeDies
  <2>1. caller' = NoCall /\ caller # NoCall /\ oneTime' \subseteq oneTime
        /\ caller'.pc = "idle" /\ caller' \in Caller
    BY <1>4, GrantsAssumption DEF GivesUpUndispatched, CallReturns, RuntimeDies, Discard, NoCall, Caller
  <2>2. caller.n \in 0..MaxPayload
    BY DEF GParts, Caller
  <2>3. orphaned' \subseteq 0..MaxPayload
    BY <1>4, <2>2 DEF GivesUpUndispatched, CallReturns, RuntimeDies, GParts, GLogin, LoginTypes, GrantTypes
  <2>4. LoginTypes' /\ MadeBefore'
    BY <1>1, <2>1, <2>3 DEF GParts, GLogin, LoginTypes, GrantTypes, MadeBefore
  <2>5. CallIsOwn' /\ UndispatchedIsNew' /\ DispatchedOnce'
    BY <1>1, <1>2, <2>1 DEF GParts, GLogin, CallIsOwn, UndispatchedIsNew, DispatchedOnce
  <2>6. UndispatchedIsDiscarded'
    <3> SUFFICES ASSUME NEW r \in oneTime'
                 PROVE  (\E o \in Operations : handoff[o].n = r.n) \/ r.n \in orphaned'
      BY <1>1 DEF UndispatchedIsDiscarded
    <3>1. r \in oneTime /\ r \in Refs
      BY <2>1 DEF GParts, GLogin, LoginTypes
    <3>2. \/ \E o \in Operations : handoff[o].n = r.n
          \/ caller.n = r.n \/ r.n \in orphaned
      BY <3>1 DEF GParts, GLogin, UndispatchedIsDiscarded
    <3>3. orphaned \subseteq orphaned'
      BY <1>4 DEF GivesUpUndispatched, CallReturns, RuntimeDies
    <3>4. CASE caller.n = r.n
      <4>1. CASE GivesUpUndispatched
        <5>1. r \in RefsOf(caller.n)
          BY <3>1, <3>4 DEF Refs, RefsOf, Ref
        <5> QED BY <4>1, <5>1 DEF GivesUpUndispatched, Discard
      <4>2. CASE CallReturns
        BY <3>4, <4>2 DEF CallReturns, GParts, GLogin, DispatchedOnce, CallIsOwn, NoCall
      <4>3. CASE RuntimeDies
        BY <3>4, <4>3 DEF RuntimeDies
      <4> QED BY <1>4, <4>1, <4>2, <4>3
    <3> QED BY <3>2, <3>3, <3>4
  <2> QED BY <1>2, <2>1, <2>4, <2>5, <2>6 DEF GParts, GLogin
<1> QED BY <1>3, <1>4

\* A grant changes its state only.
LEMMA GrantMoves ==
  ASSUME GLogin, NEW g \in grants, NEW st \in {"reserved", "expired", "completed"},
         grants' = (grants \ {g}) \cup {[g EXCEPT !.st = st]}
  PROVE  /\ grants' \subseteq [ref: Refs, op: Operations, st: {"reserved", "expired", "completed"}]
         /\ \A e, h \in grants' : e.ref = h.ref => e = h
         /\ \A h \in grants' : \E e \in grants : h.ref = e.ref
<1> DEFINE k == [g EXCEPT !.st = st]
<1>1. /\ grants \subseteq [ref: Refs, op: Operations, st: {"reserved", "expired", "completed"}]
      /\ \A e, h \in grants : e.ref = h.ref => e = h
  BY DEF GLogin, LoginTypes
<1>2. k \in [ref: Refs, op: Operations, st: {"reserved", "expired", "completed"}] /\ k.ref = g.ref
  BY <1>1
<1>3. grants' = (grants \ {g}) \cup {k}
  OBVIOUS
<1> HIDE DEF k
<1> QED BY <1>1, <1>2, <1>3

\* The broker's step, and what expires.
LEMMA BrokerSteps ==
  ASSUME GParts, (\E o \in Operations, f \in Fields : Consumes(o, f)) \/ Expires
  PROVE  GParts'
<1>1. /\ UNCHANGED <<grow, caller, payloads, orphaned>> /\ UNCHANGED <<capGrant, capCall, capRows>>
  BY DEF Consumes, Expires
<1>2. GCapture' /\ grow' \in GrantRow /\ caller' \in Caller
  BY <1>1, CaptureKept DEF GParts
<1>3. /\ grants' \subseteq [ref: Refs, op: Operations, st: {"reserved", "expired", "completed"}]
      /\ \A e, h \in grants' : e.ref = h.ref => e = h
      /\ \A h \in grants' : \E e \in grants : h.ref = e.ref
  <2>1. \/ grants' = grants
        \/ \E g \in grants, st \in {"reserved", "expired", "completed"} :
              grants' = (grants \ {g}) \cup {[g EXCEPT !.st = st]}
    BY DEF Consumes, Expires, ConsumeTransient
  <2>2. CASE grants' = grants
    BY <2>2 DEF GParts, GLogin, LoginTypes
  <2> QED BY <2>1, <2>2, GrantMoves DEF GParts
<1>4. oneTime' \subseteq oneTime
  BY DEF Consumes, Expires, ConsumeTransient
<1>5. handoff \in [Operations -> Handoff] /\ released \in [Refs -> Nat]
  BY DEF GParts, GLogin, LoginTypes, GrantTypes
<1>6. handoff' \in [Operations -> Handoff] /\ released' \in [Refs -> Nat]
      /\ \A o \in Operations : handoff'[o].n = handoff[o].n
  <2>1. CASE Expires
    BY <1>5, <2>1 DEF Expires
  <2>2. ASSUME NEW o \in Operations, NEW f \in Fields, Consumes(o, f)
        PROVE  /\ handoff' \in [Operations -> Handoff] /\ released' \in [Refs -> Nat]
               /\ \A p \in Operations : handoff'[p].n = handoff[p].n
    <3>1. \/ handoff' = [handoff EXCEPT ![o].pc = "refused"]
          \/ handoff' = [handoff EXCEPT ![o].got = @ \cup {f},
                            ![o].pc = IF handoff[o].got \cup {f} = Fields THEN "typed" ELSE @]
      BY <2>2 DEF Consumes
    <3>2. handoff[o] \in Handoff
      BY <1>5
    <3>3. \/ handoff' = [handoff EXCEPT ![o] = [pc |-> "refused", n |-> handoff[o].n, got |-> handoff[o].got]]
          \/ \E pc \in {"consume", "typed"} :
               handoff' = [handoff EXCEPT ![o] = [pc |-> pc, n |-> handoff[o].n, got |-> handoff[o].got \cup {f}]]
      BY <1>5, <2>2, <3>1, <3>2 DEF Handoff, Consumes
    <3>4. handoff' \in [Operations -> Handoff] /\ \A p \in Operations : handoff'[p].n = handoff[p].n
      BY <1>5, <3>2, <3>3 DEF Handoff
    <3>5. released' \in [Refs -> Nat]
      <4>1. \/ released' = released
            \/ \E g \in grants : released' = [released EXCEPT ![g.ref] = @ + 1]
        BY <2>2 DEF Consumes
      <4>2. \A g \in grants : g.ref \in Refs
        BY DEF GParts, GLogin, LoginTypes
      <4> QED BY <1>5, <4>1, <4>2
    <3> QED BY <3>4, <3>5
  <2> QED BY <2>1, <2>2
<1>7. LoginTypes'
  BY <1>1, <1>3, <1>4, <1>6 DEF GParts, GLogin, LoginTypes, GrantTypes
<1>8. UndispatchedIsDiscarded' /\ CallIsOwn'
  BY <1>1, <1>4, <1>6 DEF GParts, GLogin, UndispatchedIsDiscarded, CallIsOwn, NoCall
<1>9. DispatchedOnce' /\ MadeBefore'
  <2>1. caller.pc = "awaiting" => caller.op \in Operations
    BY DEF GParts, GLogin, CallIsOwn, NoCall
  <2> QED BY <1>1, <1>3, <1>4, <1>6, <2>1 DEF GParts, GLogin, DispatchedOnce, MadeBefore
<1>10. UndispatchedIsNew'
  <2>1. caller.pc # "idle" => caller.op \in Operations
    BY DEF GParts, GLogin, CallIsOwn, NoCall
  <2> QED BY <1>1, <1>3, <1>6, <2>1 DEF GParts, GLogin, UndispatchedIsNew
<1> QED BY <1>2, <1>7, <1>8, <1>9, <1>10 DEF GParts, GLogin

LEMMA GrantsStep ==
  ASSUME GInv, [GNext]_grantVars
  PROVE  GInv'
<1>1. GParts
  BY GInvIsParts
<1>2. CASE GNext
  <2>1. GParts'
    BY <1>1, <1>2, VaultStep, GrantStep, MoveStep, CallerSteps, RowSteps, BrokerSteps, CaptureSteps DEF GNext
  <2> QED BY <2>1, GInvIsParts, PTL
<1>3. CASE UNCHANGED grantVars
  <2>1. grow' = grow /\ caller' = caller
        /\ UNCHANGED <<caller, payloads, oneTime, grants, handoff, released, orphaned>>
        /\ UNCHANGED <<capGrant, capCall, capRows>>
    BY <1>3 DEF grantVars
  <2>2. GParts'
    BY <1>1, <2>1, LoginsKept, CaptureKept DEF GParts
  <2> QED BY <2>2, GInvIsParts, PTL
<1> QED BY <1>2, <1>3

\* One-time vault rows, grants and captures (ops/core/secret_store.py, the secret
\* broker and its callers): a capture leaves one vault row however often it is sent,
\* and no login stays in the vault that nobody was given.
THEOREM GrantsAreSafe == GSpec => []GrantsSafety
<1>1. GInit => GInv
  BY GrantsInit, GInvIsParts
<1>2. GInv /\ [GNext]_grantVars => GInv'
  BY GrantsStep
<1>3. GInv => GrantsSafety
  BY DEF GInv
<1> QED BY <1>1, <1>2, <1>3, PTL DEF GSpec

\* A value leaves the broker for the operation that the row still names.
LEMMA OnlyBoundReleases ==
  ASSUME GParts, GNext, NEW o \in Operations, grow # [phase |-> "auth", op |-> o]
  PROVE  /\ \A f \in Fields : handoff[o].n # 0 =>
                released'[Ref(handoff[o].n, f)] = released[Ref(handoff[o].n, f)]
         /\ handoff[o].pc # "typed" => handoff'[o].pc # "typed"
<1>1. handoff \in [Operations -> Handoff] /\ released \in [Refs -> Nat]
  BY DEF GParts, GLogin, LoginTypes, GrantTypes
<1>2. CASE \E p \in Operations, f \in Fields : Consumes(p, f)
  <2>1. PICK p \in Operations, f \in Fields : Consumes(p, f)
    BY <1>2
  <2>2. PICK g \in grants :
          /\ g.ref = Ref(handoff[p].n, f)
          /\ \/ /\ Releases(p, g)
                /\ released' = [released EXCEPT ![g.ref] = @ + 1]
                /\ handoff' \in {[handoff EXCEPT ![p].pc = "refused"],
                                 [handoff EXCEPT ![p].got = @ \cup {f},
                                    ![p].pc = IF handoff[p].got \cup {f} = Fields THEN "typed" ELSE @]}
             \/ handoff' = [handoff EXCEPT ![p].pc = "refused"] /\ UNCHANGED released
    BY <2>1 DEF Consumes
  <2>3. CASE Releases(p, g)
    <3>1. p # o
      BY <2>3 DEF Releases, BoundActiveRun
    <3>2. handoff'[o] = handoff[o]
      BY <1>1, <2>2, <3>1
    <3>3. g.ref \in Refs /\ handoff[p].n = g.ref.n /\ g.ref.n # 0
      BY <2>2, GrantsAssumption DEF GParts, GLogin, LoginTypes, Refs, Payloads, Ref
    <3>4. ASSUME handoff[o].n # 0, NEW e \in Fields
          PROVE  released'[Ref(handoff[o].n, e)] = released[Ref(handoff[o].n, e)]
      <4>1. handoff[o].n # handoff[p].n
        BY <3>1, <3>3, <3>4 DEF GParts, GLogin, DispatchedOnce
      <4>2. Ref(handoff[o].n, e) # g.ref
        BY <3>3, <4>1 DEF Ref
      <4>3. Ref(handoff[o].n, e) \in Refs
        <5>1. handoff[o].n \in 0..MaxPayload
          BY <1>1 DEF Handoff
        <5> QED BY <3>4, <5>1, GrantsAssumption DEF Ref, Refs, Payloads
      <4> QED BY <1>1, <2>2, <4>2, <4>3
    <3> QED BY <3>2, <3>4
  <2>4. CASE handoff' = [handoff EXCEPT ![p].pc = "refused"] /\ UNCHANGED released
    BY <1>1, <2>4 DEF Handoff
  <2> QED BY <2>2, <2>3, <2>4
<1>3. CASE ReservesGrants \/ MovesRow
  <2>1. UNCHANGED released
    BY <1>3 DEF ReservesGrants, MovesRow
  <2>2. \/ handoff' = handoff
        \/ handoff' = [handoff EXCEPT ![caller.op] = [NoHandoff EXCEPT !.pc = "consume", !.n = caller.n]]
    BY <1>3 DEF ReservesGrants, MovesRow
  <2> QED BY <1>1, <2>1, <2>2 DEF NoHandoff
<1>4. ASSUME UNCHANGED <<released, handoff>>
      PROVE  /\ \A f \in Fields : handoff[o].n # 0 =>
                   released'[Ref(handoff[o].n, f)] = released[Ref(handoff[o].n, f)]
             /\ handoff[o].pc # "typed" => handoff'[o].pc # "typed"
  BY <1>4
<1>5. CASE \/ \E kind \in {"start", "resume"} : VaultsLogin(kind)
           \/ BindsSession \/ GivesUpUndispatched \/ RowStopped \/ RowRetried \/ CallReturns
           \/ RuntimeDies \/ Expires \/ ReserveCaptureGrant \/ CaptureLands \/ CaptureTimesOut
           \/ CaptureCallReturns \/ CaptureGrantExpires
  <2>1. UNCHANGED <<released, handoff>>
    BY <1>5 DEF VaultsLogin, BindsSession, GivesUpUndispatched, RowStopped, RowRetried, CallReturns,
       RuntimeDies, Expires, ReserveCaptureGrant, CaptureLands, CaptureTimesOut,
       CaptureCallReturns, CaptureGrantExpires
  <2> QED BY <1>4, <2>1
<1> QED BY <1>2, <1>3, <1>5 DEF GNext

\* A run that was stopped, or went on to another operation, releases nothing more
\* (_bound_active_run in the secret broker): what a late handoff asks for is refused.
THEOREM StoppedRunsAreSilent == GSpec => StoppedRunReleasesNothing
<1>1. GInit => GInv
  BY GrantsInit, GInvIsParts
<1>2. GInv /\ [GNext]_grantVars => GInv'
  BY GrantsStep
<1>3. GInv /\ [GNext]_grantVars =>
        [\A o \in Operations : grow # [phase |-> "auth", op |-> o]
                             => /\ \A f \in Fields : handoff[o].n # 0 =>
                                     released'[Ref(handoff[o].n, f)] = released[Ref(handoff[o].n, f)]
                                /\ handoff[o].pc # "typed" => handoff'[o].pc # "typed"]_grantVars
  BY GInvIsParts, OnlyBoundReleases
<1> QED BY <1>1, <1>2, <1>3, PTL DEF GSpec, StoppedRunReleasesNothing

-----------------------------------------------------------------------------
(* SecretStore, the pairs.                                                    *)

VaultCells ==
    /\ reusable \in 0..MaxPairs /\ vendor \in 0..MaxPairs /\ proven \subseteq 1..MaxPairs
    /\ regime \in LoginRegimes

StagesAreWhole ==
    /\ \A r \in Runs : existing[r].pair = NoPair <=> existing[r].st = "none"
    /\ signup.run \in Runs => signup.pair # NoPair /\ signup.st \in {"pending", "promoted"}

LParts ==
    /\ VaultTypes /\ VaultCells /\ StagesAreWhole /\ ReusableWasAccepted /\ ClaimantIsNew
    /\ HolderStaysFinished /\ StageIsItsRuns /\ LiveKeepsStage /\ SignInIsStaged /\ SignedInIsProven

LEMMA LInvIsParts == LInv <=> LParts
<1>1. LInv => LParts
  BY DEF LInv, LParts, VaultCells, StagesAreWhole, VaultSafety, LTypeOK
<1>2. LParts => LInv
  <2> SUFFICES ASSUME LParts PROVE LInv
    OBVIOUS
  <2>1. LiveRunKeepsIdentity
    BY DEF LParts, LiveRunKeepsIdentity, LiveKeepsStage, StageIsItsRuns
  <2>2. LTypeOK
    <3>1. \A r \in Runs : (existing[r].pair = NoPair) = (existing[r].st = "none")
      BY DEF LParts, StagesAreWhole
    <3> QED BY <3>1 DEF LParts, VaultTypes, VaultCells, StagesAreWhole, LTypeOK, LoginRun, Stage, NoStage
  <2> QED BY <2>1, <2>2 DEF LInv, LParts, VaultSafety
<1> QED BY <1>1, <1>2

LEMMA VaultInit ==
  ASSUME LInit
  PROVE  LParts
<1> USE VaultAssumption
<1>1. PICK how \in {"create_account", "existing_account"} :
         /\ lrun = [r \in Runs |-> [mode |-> how, st |-> "new", pair |-> NoPair, signedIn |-> FALSE]]
         /\ \/ how = "create_account" /\ pairs = 0 /\ vendor = NoPair /\ reusable = NoPair /\ proven = {}
            \/ how = "existing_account" /\ pairs = 1 /\ vendor = 1
               /\ \/ reusable = NoPair /\ proven = {}
                  \/ reusable = 1 /\ proven = {1}
  BY DEF LInit
<1>2. /\ regime \in LoginRegimes /\ claim = [r \in Runs |-> NoClaim]
      /\ signup = NoStage /\ existing = [r \in Runs |-> NoStage]
  BY DEF LInit
<1>3. \A r \in Runs : lrun[r] \in LoginRun /\ lrun[r].mode = how /\ lrun[r].st = "new" /\ ~lrun[r].signedIn
  BY <1>1 DEF LoginRun, NoPair
<1>4. NoStage \in Stage /\ NoStage.run \notin Runs /\ NoStage.pair = NoPair /\ NoStage.st = "none"
  BY DEF NoStage, Stage, NoPair
<1>5. VaultTypes
  <2>1. lrun \in [Runs -> LoginRun]
    BY <1>1, <1>3
  <2>2. claim \in [Runs -> [pc: {"none", "owner", "status", "release", "restage"},
                            holder: Runs \cup {"none"}]]
    BY <1>2 DEF NoClaim
  <2>3. pairs \in 0..MaxPairs
    BY <1>1
  <2>4. signup \in Stage /\ existing \in [Runs -> Stage] /\ \A r \in Runs : existing[r] = NoStage
    BY <1>2, <1>4
  <2> QED BY <1>2, <2>1, <2>2, <2>3, <2>4 DEF VaultTypes
<1>6. VaultCells /\ StagesAreWhole /\ ReusableWasAccepted
  BY <1>1, <1>2, <1>4 DEF VaultCells, StagesAreWhole, ReusableWasAccepted, NoPair
<1>7. ClaimantIsNew /\ HolderStaysFinished
  BY <1>2 DEF ClaimantIsNew, HolderStaysFinished, NoClaim
<1>8. StageIsItsRuns /\ LiveKeepsStage /\ SignInIsStaged /\ SignedInIsProven
  BY <1>1, <1>2, <1>3, <1>4 DEF StageIsItsRuns, LiveKeepsStage, SignInIsStaged, SignedInIsProven, NoPair
<1> QED BY <1>5, <1>6, <1>7, <1>8 DEF LParts

\* One run's row is written.
LoginStatuses == {"new", "driving", "waiting_for_hitl", "configuration_required", "failed", "completed"}
RunRow(r, st, pair, on) ==
    lrun' = [lrun EXCEPT ![r] = [mode |-> lrun[r].mode, st |-> st, pair |-> pair, signedIn |-> on]]

LEMMA RowWritten ==
  ASSUME LParts, NEW r \in Runs, NEW st \in LoginStatuses, NEW pair \in 0..MaxPairs, NEW on \in BOOLEAN,
         RunRow(r, st, pair, on)
  PROVE  /\ lrun' \in [Runs -> LoginRun]
         /\ lrun'[r].st = st /\ lrun'[r].pair = pair /\ lrun'[r].signedIn = on
         /\ lrun'[r].mode = lrun[r].mode
         /\ \A o \in Runs : o # r => lrun'[o] = lrun[o]
<1>1. lrun \in [Runs -> LoginRun] /\ lrun[r] \in LoginRun
  BY DEF LParts, VaultTypes
<1> QED BY <1>1 DEF RunRow, LoginRun, LoginStatuses

\* The two ways in which the operations write it.
LEMMA RowForms ==
  ASSUME LParts, NEW r \in Runs, NEW st, NEW pair, NEW on
  PROVE  /\ lrun' = [lrun EXCEPT ![r].st = st] =>
               RunRow(r, st, lrun[r].pair, lrun[r].signedIn)
         /\ lrun' = [lrun EXCEPT ![r].signedIn = on] =>
               RunRow(r, lrun[r].st, lrun[r].pair, on)
         /\ lrun' = [lrun EXCEPT ![r].st = st, ![r].pair = pair] =>
               RunRow(r, st, pair, lrun[r].signedIn)
         /\ lrun' = [lrun EXCEPT ![r].st = st, ![r].pair = pair, ![r].signedIn = on] =>
               RunRow(r, st, pair, on)
<1>1. lrun \in [Runs -> LoginRun] /\ lrun[r] \in LoginRun
  BY DEF LParts, VaultTypes
<1>2. lrun' = [lrun EXCEPT ![r].st = st] => RunRow(r, st, lrun[r].pair, lrun[r].signedIn)
  BY ZenonT(60), <1>1 DEF RunRow, LoginRun
<1>3. lrun' = [lrun EXCEPT ![r].signedIn = on] => RunRow(r, lrun[r].st, lrun[r].pair, on)
  BY ZenonT(60), <1>1 DEF RunRow, LoginRun
<1> DEFINE L1 == [lrun EXCEPT ![r].st = st]
           L2 == [L1 EXCEPT ![r].pair = pair]
           L3 == [L2 EXCEPT ![r].signedIn = on]
           R1 == [mode |-> lrun[r].mode, st |-> st, pair |-> lrun[r].pair, signedIn |-> lrun[r].signedIn]
           R2 == [mode |-> lrun[r].mode, st |-> st, pair |-> pair, signedIn |-> lrun[r].signedIn]
           R3 == [mode |-> lrun[r].mode, st |-> st, pair |-> pair, signedIn |-> on]
<1>4. L1 = [lrun EXCEPT ![r] = R1]
  <2>1. [lrun[r] EXCEPT !.st = st] = R1
    BY <1>1 DEF LoginRun
  <2>2. L1 = [lrun EXCEPT ![r] = [lrun[r] EXCEPT !.st = st]]
    OBVIOUS
  <2> QED BY <2>1, <2>2
<1>5. L2 = [lrun EXCEPT ![r] = R2]
  <2>1. L2 = [L1 EXCEPT ![r] = R2]
    <3>1. L1[r] = R1
      BY <1>1, <1>4
    <3>2. [L1[r] EXCEPT !.pair = pair] = R2
      BY <3>1
    <3>3. L2 = [L1 EXCEPT ![r] = [L1[r] EXCEPT !.pair = pair]]
      OBVIOUS
    <3> QED BY <3>2, <3>3
  <2> QED BY <1>1, <1>4, <2>1
<1>6. L3 = [lrun EXCEPT ![r] = R3]
  <2>1. L3 = [L2 EXCEPT ![r] = R3]
    <3>1. L2[r] = R2
      BY <1>1, <1>5
    <3>2. [L2[r] EXCEPT !.signedIn = on] = R3
      <4>1. [R2 EXCEPT !.signedIn = on] = R3
        OBVIOUS
      <4> HIDE DEF L2, R2, R3
      <4> QED BY <3>1, <4>1
    <3>3. L3 = [L2 EXCEPT ![r] = [L2[r] EXCEPT !.signedIn = on]]
      OBVIOUS
    <3> QED BY <3>2, <3>3
  <2> QED BY <1>1, <1>5, <2>1
<1>7. lrun' = [lrun EXCEPT ![r].st = st, ![r].pair = pair] => lrun' = L2
  OBVIOUS
<1>8. lrun' = [lrun EXCEPT ![r].st = st, ![r].pair = pair, ![r].signedIn = on] => lrun' = L3
  OBVIOUS
<1> HIDE DEF L1, L2, L3
<1> QED BY <1>2, <1>3, <1>5, <1>6, <1>7, <1>8 DEF RunRow

\* A row's fields have their types.
LEMMA RowFields ==
  ASSUME LParts, NEW r \in Runs
  PROVE  lrun[r].st \in LoginStatuses /\ lrun[r].pair \in 0..MaxPairs /\ lrun[r].signedIn \in BOOLEAN
BY DEF LParts, VaultTypes, LoginRun, LoginStatuses

\* A run that may not have the identity asks for configuration.
LEMMA RefusedStep ==
  ASSUME LParts, NEW r \in Runs, Becomes(r, "configuration_required"),
         claim' = [claim EXCEPT ![r] = NoClaim],
         lrun[r].st = "new", lrun[r].mode = "create_account",
         UNCHANGED <<signup, pairs, existing, reusable, vendor, proven, regime>>
  PROVE  LParts'
<1>0. /\ claim \in [Runs -> [pc: {"none", "owner", "status", "release", "restage"},
                             holder: Runs \cup {"none"}]]
      /\ NoClaim \in [pc: {"none", "owner", "status", "release", "restage"}, holder: Runs \cup {"none"}]
      /\ NoClaim.pc = "none"
  BY DEF LParts, VaultTypes, NoClaim
<1>1. RunRow(r, "configuration_required", lrun[r].pair, lrun[r].signedIn)
  BY RowForms DEF Becomes
<1>2. /\ lrun' \in [Runs -> LoginRun]
      /\ lrun'[r].st = "configuration_required" /\ lrun'[r].pair = lrun[r].pair
      /\ lrun'[r].signedIn = lrun[r].signedIn /\ lrun'[r].mode = lrun[r].mode
      /\ \A o \in Runs : o # r => lrun'[o] = lrun[o]
  BY <1>1, RowWritten, RowFields DEF LoginStatuses
<1>3. /\ claim' \in [Runs -> [pc: {"none", "owner", "status", "release", "restage"},
                              holder: Runs \cup {"none"}]]
      /\ claim'[r].pc = "none" /\ \A o \in Runs : o # r => claim'[o] = claim[o]
  BY <1>0
<1>4. VaultTypes' /\ VaultCells' /\ StagesAreWhole' /\ ReusableWasAccepted'
  BY <1>2, <1>3
  DEF LParts, VaultTypes, VaultCells, StagesAreWhole, ReusableWasAccepted
<1>5. ClaimantIsNew' /\ HolderStaysFinished'
  BY <1>2, <1>3 DEF LParts, ClaimantIsNew, HolderStaysFinished, Finished
<1>6. StageIsItsRuns' /\ LiveKeepsStage'
  BY <1>2 DEF LParts, StageIsItsRuns, LiveKeepsStage
<1>7. SignInIsStaged' /\ SignedInIsProven'
  BY <1>2 DEF LParts, SignInIsStaged, SignedInIsProven
<1> QED BY <1>4, <1>5, <1>6, <1>7 DEF LParts

\* stage_signup_login_pair for a run that wants the identity: a new row, its own row,
\* or the refusal.
LEMMA StageStep ==
  ASSUME LParts, NEW r \in Runs, StageSignup(r),
         lrun[r].mode = "create_account", lrun[r].st = "new",
         UNCHANGED <<existing, reusable, vendor, proven, regime>>
  PROVE  LParts'
<1> USE VaultAssumption
<1>0. lrun \in [Runs -> LoginRun] /\ signup \in Stage /\ pairs \in 0..MaxPairs
      /\ claim \in [Runs -> [pc: {"none", "owner", "status", "release", "restage"},
                             holder: Runs \cup {"none"}]]
  BY DEF LParts, VaultTypes
<1>1. NoClaim \in [pc: {"none", "owner", "status", "release", "restage"}, holder: Runs \cup {"none"}]
      /\ NoClaim.pc = "none" /\ NoClaim.holder = "none"
  BY DEF NoClaim
<1>2. NoStage.run \notin Runs
  BY DEF NoStage
<1>3. CASE /\ signup = NoStage /\ pairs < MaxPairs /\ pairs' = pairs + 1
           /\ signup' = [run |-> r, pair |-> pairs + 1, st |-> "pending"]
           /\ Drives(r, pairs + 1) /\ claim' = [claim EXCEPT ![r] = NoClaim]
  <2>1. pairs + 1 \in 0..MaxPairs /\ pairs + 1 # NoPair
    BY <1>0, <1>3 DEF NoPair
  <2>2. RunRow(r, "driving", pairs + 1, FALSE)
    BY <1>3, RowForms DEF Drives
  <2>3. /\ lrun' \in [Runs -> LoginRun]
        /\ lrun'[r].st = "driving" /\ lrun'[r].pair = pairs + 1 /\ ~lrun'[r].signedIn
        /\ lrun'[r].mode = "create_account"
        /\ \A o \in Runs : o # r => lrun'[o] = lrun[o]
    BY <2>1, <2>2, RowWritten DEF LoginStatuses
  <2>4. /\ signup'.run = r /\ signup'.pair = pairs + 1 /\ signup'.st = "pending" /\ signup' \in Stage
        /\ pairs' \in 0..MaxPairs
    BY <1>3, <2>1 DEF Stage
  <2>5. /\ claim' \in [Runs -> [pc: {"none", "owner", "status", "release", "restage"},
                                holder: Runs \cup {"none"}]]
        /\ claim'[r].pc = "none" /\ \A o \in Runs : o # r => claim'[o] = claim[o]
    BY <1>0, <1>1, <1>3
  <2>6. VaultTypes' /\ VaultCells' /\ StagesAreWhole' /\ ReusableWasAccepted'
    BY <2>1, <2>3, <2>4, <2>5
    DEF LParts, VaultTypes, VaultCells, StagesAreWhole, ReusableWasAccepted
  <2>7. ClaimantIsNew' /\ HolderStaysFinished'
    BY <2>3, <2>5 DEF LParts, ClaimantIsNew, HolderStaysFinished, Finished
  <2>8. StageIsItsRuns'
    BY <2>3, <2>4 DEF StageIsItsRuns
  <2>9. LiveKeepsStage'
    BY <1>2, <1>3, <2>1, <2>3, <2>4 DEF LParts, LiveKeepsStage
  <2>10. SignInIsStaged' /\ SignedInIsProven'
    BY <2>3 DEF LParts, SignInIsStaged, SignedInIsProven
  <2> QED BY <2>6, <2>7, <2>8, <2>9, <2>10 DEF LParts
<1>4. CASE signup.run = r
  <2>1. lrun[r].st # "new"
    BY <1>4 DEF LParts, StageIsItsRuns
  <2> QED BY <2>1
<1>5. CASE /\ signup.run \in Runs \ {r} /\ signup.st = "pending" /\ claim[r].pc = "none"
           /\ claim' = [claim EXCEPT ![r].pc = "owner"]
           /\ UNCHANGED <<lrun, signup, pairs>>
  <2>1. /\ claim' \in [Runs -> [pc: {"none", "owner", "status", "release", "restage"},
                                holder: Runs \cup {"none"}]]
        /\ claim'[r].pc = "owner" /\ \A o \in Runs : o # r => claim'[o] = claim[o]
    BY <1>0, <1>5
  <2>2. VaultTypes' /\ VaultCells' /\ StagesAreWhole' /\ ReusableWasAccepted'
    BY <1>5, <2>1
    DEF LParts, VaultTypes, VaultCells, StagesAreWhole, ReusableWasAccepted
  <2>3. ClaimantIsNew' /\ HolderStaysFinished'
    BY <1>5, <2>1 DEF LParts, ClaimantIsNew, HolderStaysFinished
  <2>4. StageIsItsRuns' /\ LiveKeepsStage' /\ SignInIsStaged' /\ SignedInIsProven'
    BY <1>5 DEF LParts, StageIsItsRuns, LiveKeepsStage, SignInIsStaged, SignedInIsProven
  <2> QED BY <2>2, <2>3, <2>4 DEF LParts
<1>6. CASE /\ signup.run \in Runs \ {r}
           /\ Becomes(r, "configuration_required") /\ claim' = [claim EXCEPT ![r] = NoClaim]
           /\ UNCHANGED <<signup, pairs>>
  BY <1>6, RefusedStep
<1> QED BY <1>3, <1>4, <1>5, <1>6 DEF StageSignup

\* The repair reads the owner and its status, and releases a finished run's identity.
LEMMA RepairSteps ==
  ASSUME LParts, NEW r \in Runs, ReadOwner(r) \/ ReadStatus(r) \/ ReleaseStaged(r)
  PROVE  LParts'
<1>0. /\ claim \in [Runs -> [pc: {"none", "owner", "status", "release", "restage"},
                             holder: Runs \cup {"none"}]]
      /\ UNCHANGED <<existing, reusable, pairs, vendor, proven, regime>>
      /\ claim[r].pc \in {"owner", "status", "release"}
  BY DEF LParts, VaultTypes, ReadOwner, ReadStatus, ReleaseStaged
<1>1. lrun[r].st = "new" /\ lrun[r].mode = "create_account"
  BY <1>0 DEF LParts, ClaimantIsNew
<1>2. CASE Refused(r) /\ UNCHANGED signup
  BY <1>0, <1>1, <1>2, RefusedStep DEF Refused
<1>3. ASSUME NEW pc \in {"status", "release", "restage"}, NEW holder \in Runs \cup {"none"},
             claim' = [claim EXCEPT ![r] = [pc |-> pc, holder |-> holder]], UNCHANGED lrun,
             pc \in {"status", "release"} =>
                holder \in Runs /\ lrun[holder].mode = "create_account",
             pc = "release" => lrun[holder].st \in Finished,
             signup' = signup \/ /\ signup' = NoStage
                                 /\ \A o \in Runs : signup.run = o /\ ~regime.race =>
                                       lrun[o].st \in Finished
      PROVE  LParts'
  <2>1. /\ claim' \in [Runs -> [pc: {"none", "owner", "status", "release", "restage"},
                                holder: Runs \cup {"none"}]]
        /\ claim'[r].pc = pc /\ claim'[r].holder = holder
        /\ \A o \in Runs : o # r => claim'[o] = claim[o]
    BY <1>0, <1>3
  <2>2. NoStage \in Stage /\ NoStage.run \notin Runs
    BY VaultAssumption DEF NoStage, Stage, NoPair
  <2>3. VaultTypes' /\ VaultCells' /\ StagesAreWhole' /\ ReusableWasAccepted'
    <3>1. VaultTypes'
      BY <1>0, <1>3, <2>1, <2>2 DEF LParts, VaultTypes
    <3>2. VaultCells' /\ ReusableWasAccepted'
      BY <1>0, <1>3 DEF LParts, VaultCells, ReusableWasAccepted
    <3>3. StagesAreWhole'
      BY <1>0, <1>3, <2>2 DEF LParts, StagesAreWhole
    <3> QED BY <3>1, <3>2, <3>3
  <2>4. ClaimantIsNew' /\ HolderStaysFinished'
    BY <1>0, <1>1, <1>3, <2>1 DEF LParts, ClaimantIsNew, HolderStaysFinished
  <2>5. StageIsItsRuns' /\ SignInIsStaged' /\ SignedInIsProven'
    BY <1>0, <1>3, <2>2 DEF LParts, StageIsItsRuns, SignInIsStaged, SignedInIsProven
  <2>6. LiveKeepsStage'
    BY <1>0, <1>3 DEF LParts, LiveKeepsStage, Finished
  <2> QED BY <2>3, <2>4, <2>5, <2>6 DEF LParts
<1>4. CASE ReadOwner(r)
  <2>1. CASE signup.st = "pending" /\ UNCHANGED <<lrun, signup>>
             /\ claim' = [claim EXCEPT ![r] = [pc |-> "status", holder |-> signup.run]]
    <3>1. signup.run \in Runs
      BY <2>1 DEF LParts, VaultTypes, NoStage
    <3>2. lrun[signup.run].mode = "create_account"
      BY <3>1 DEF LParts, StageIsItsRuns
    <3> QED BY <1>3, <2>1, <3>1, <3>2
  <2> QED BY <1>2, <1>4, <2>1 DEF ReadOwner
<1>5. claim[r].pc \in {"status", "release"} =>
        claim[r].holder \in Runs /\ lrun[claim[r].holder].mode = "create_account"
  BY DEF LParts, ClaimantIsNew
<1>6. CASE ReadStatus(r)
  <2>1. CASE lrun[claim[r].holder].st \in Finished /\ UNCHANGED <<lrun, signup>>
             /\ claim' = [claim EXCEPT ![r].pc = "release"]
    <3>1. claim' = [claim EXCEPT ![r] = [pc |-> "release", holder |-> claim[r].holder]]
      <4>1. [claim[r] EXCEPT !.pc = "release"] = [pc |-> "release", holder |-> claim[r].holder]
        BY <1>0
      <4>2. claim' = [claim EXCEPT ![r] = [claim[r] EXCEPT !.pc = "release"]]
        BY <2>1
      <4> QED BY <4>1, <4>2
    <3> QED BY <1>3, <1>5, <1>6, <2>1, <3>1 DEF ReadStatus
  <2> QED BY <1>2, <1>6, <2>1 DEF ReadStatus
<1>7. CASE ReleaseStaged(r)
  <2>1. CASE Releasable(claim[r].holder) /\ signup' = NoStage /\ UNCHANGED lrun
             /\ claim' = [claim EXCEPT ![r].pc = "restage"]
    <3>1. claim' = [claim EXCEPT ![r] = [pc |-> "restage", holder |-> claim[r].holder]]
      <4>1. [claim[r] EXCEPT !.pc = "restage"] = [pc |-> "restage", holder |-> claim[r].holder]
        BY <1>0
      <4>2. claim' = [claim EXCEPT ![r] = [claim[r] EXCEPT !.pc = "restage"]]
        BY <2>1
      <4> QED BY <4>1, <4>2
    <3>2. \A o \in Runs : signup.run = o /\ ~regime.race => lrun[o].st \in Finished
      BY <1>7, <2>1 DEF ReleaseStaged, Releasable, LParts, HolderStaysFinished
    <3>3. claim[r].holder \in Runs \cup {"none"}
      BY <1>0
    <3> QED BY <1>3, <2>1, <3>1, <3>2, <3>3
  <2> QED BY <1>2, <1>7, <2>1 DEF ReleaseStaged
<1> QED BY <1>4, <1>6, <1>7

\* What a run's row may become while the vault and the claims stay: an examined run
\* stays finished, a live signup keeps its stage, a sign-in its pair, and without a
\* person's hand only an accepted pair shows somebody signed in.
MayBecome(r, st, pair, on) ==
    /\ lrun[r].st \in Finished =>
          st \in Finished \/ \A o \in Runs : regime.race \/ claim[o].holder # r
    /\ lrun[r].mode = "create_account" /\ st \in {"driving", "waiting_for_hitl"} =>
          pair # NoPair /\ (~regime.race => signup.run = r)
    /\ signup.run = r => pair = signup.pair
    /\ existing[r] # NoStage => pair = existing[r].pair
    /\ ~regime.human /\ on => pair \in proven'
    /\ ~regime.human /\ lrun[r].mode = "existing_account" /\ st = "waiting_for_hitl" => ~on

LEMMA RowMoves ==
  ASSUME LParts, NEW r \in Runs, NEW st \in LoginStatuses \ {"new"}, NEW pair \in 0..MaxPairs,
         NEW on \in BOOLEAN, RunRow(r, st, pair, on), lrun[r].st # "new", MayBecome(r, st, pair, on),
         UNCHANGED <<claim, signup, existing, reusable, pairs, regime>>,
         \/ UNCHANGED <<vendor, proven>>
         \/ vendor' \in 1..MaxPairs /\ proven' = proven \cup {vendor'}
  PROVE  LParts'
<1>1. /\ lrun' \in [Runs -> LoginRun]
      /\ lrun'[r].st = st /\ lrun'[r].pair = pair /\ lrun'[r].signedIn = on
      /\ lrun'[r].mode = lrun[r].mode
      /\ \A o \in Runs : o # r => lrun'[o] = lrun[o]
  BY RowWritten
<1>2. proven \subseteq proven' /\ proven' \subseteq 1..MaxPairs /\ vendor' \in 0..MaxPairs
      /\ (vendor # NoPair => vendor' # NoPair)
  <2>1. vendor \in 0..MaxPairs /\ proven \subseteq 1..MaxPairs
    BY DEF LParts, VaultCells
  <2>2. CASE UNCHANGED <<vendor, proven>>
    BY <2>1, <2>2
  <2>3. CASE vendor' \in 1..MaxPairs /\ proven' = proven \cup {vendor'}
    BY <2>1, <2>3, VaultAssumption DEF NoPair
  <2> QED BY <2>2, <2>3
<1>3. VaultTypes' /\ VaultCells' /\ StagesAreWhole' /\ ReusableWasAccepted'
  BY <1>1, <1>2 DEF LParts, VaultTypes, VaultCells, StagesAreWhole, ReusableWasAccepted
<1>4. ClaimantIsNew'
  BY <1>1 DEF LParts, ClaimantIsNew
<1>5. HolderStaysFinished'
  <2>1. \A q \in Runs : claim[q].pc = "release" => claim[q].holder \in Runs
    BY DEF LParts, ClaimantIsNew
  <2> QED BY <1>1, <2>1 DEF LParts, HolderStaysFinished, MayBecome
<1>6. StageIsItsRuns' /\ LiveKeepsStage'
  BY <1>1 DEF LParts, StageIsItsRuns, LiveKeepsStage, MayBecome
<1>7. SignInIsStaged' /\ SignedInIsProven'
  BY <1>1, <1>2 DEF LParts, SignInIsStaged, SignedInIsProven, MayBecome
<1> QED BY <1>3, <1>4, <1>5, <1>6, <1>7 DEF LParts

\* The stage of a run that signs up or in is the pair it holds.
LEMMA HeldPair ==
  ASSUME LParts, NEW r \in Runs
  PROVE  /\ signup.run = r => lrun[r].pair = signup.pair /\ lrun[r].mode = "create_account"
         /\ existing[r] # NoStage =>
               existing[r].pair = lrun[r].pair /\ lrun[r].mode = "existing_account"
         /\ lrun[r].mode \in {"create_account", "existing_account"}
         /\ signup.pair \in 0..MaxPairs
BY DEF LParts, StageIsItsRuns, SignInIsStaged, VaultTypes, LoginRun, Stage

LEMMA DriveSteps ==
  ASSUME LParts, NEW r \in Runs,
         \/ RetrySignup(r) \/ SubmitRegistration(r) \/ SignupGated(r) \/ ResumeSignup(r)
         \/ LoginAnswered(r) \/ OwnerSignsIn(r) \/ RunFails(r)
  PROVE  LParts'
<1> DEFINE at == lrun[r]
<1>0. UNCHANGED <<claim, signup, existing, reusable, pairs, regime>>
  BY DEF RetrySignup, SubmitRegistration, SignupGated, ResumeSignup, LoginAnswered, OwnerSignsIn, RunFails
<1>1. /\ at.st \in LoginStatuses /\ at.pair \in 0..MaxPairs /\ at.signedIn \in BOOLEAN
      /\ at.st \in {"driving", "waiting_for_hitl"} => at.st \notin Finished
  BY RowFields DEF Finished
<1>2. /\ signup.run = r => at.pair = signup.pair
      /\ existing[r] # NoStage => at.pair = existing[r].pair /\ at.mode = "existing_account"
      /\ signup.pair \in 0..MaxPairs
  BY HeldPair
<1>3. at.mode = "create_account" /\ at.st \in {"driving", "waiting_for_hitl"} =>
         at.pair # NoPair /\ (~regime.race => signup.run = r)
  BY DEF LParts, LiveKeepsStage
<1>4. ~regime.human /\ at.signedIn => at.pair \in proven
  BY DEF LParts, SignedInIsProven
<1>5. ASSUME NEW st \in LoginStatuses \ {"new"}, NEW on \in BOOLEAN, RunRow(r, st, at.pair, on),
             at.st \in {"driving", "waiting_for_hitl"},
             ~regime.human /\ on => at.pair \in proven',
             ~regime.human /\ at.mode = "existing_account" /\ st = "waiting_for_hitl" => ~on,
             \/ UNCHANGED <<vendor, proven>>
             \/ vendor' \in 1..MaxPairs /\ proven' = proven \cup {vendor'}
      PROVE  LParts'
  <2>1. MayBecome(r, st, at.pair, on)
    BY <1>1, <1>2, <1>3, <1>5 DEF MayBecome
  <2> QED BY <1>0, <1>1, <1>5, <2>1, RowMoves
<1>6. CASE RetrySignup(r)
  <2>1. RunRow(r, "driving", signup.pair, FALSE) /\ signup.run = r
        /\ at.st \in {"failed", "configuration_required"} /\ UNCHANGED <<vendor, proven>>
        /\ (regime.race \/ \A o \in Runs : claim[o].holder # r)
    BY <1>6, RowForms DEF RetrySignup, Drives
  <2>2. signup.pair # NoPair
    BY <2>1 DEF LParts, StagesAreWhole
  <2>3. MayBecome(r, "driving", signup.pair, FALSE)
    BY <1>2, <2>1, <2>2 DEF MayBecome
  <2> QED BY <1>0, <1>2, <2>1, <2>3, RowMoves DEF LoginStatuses
<1>7. CASE SubmitRegistration(r)
  <2>1. RunRow(r, at.st, at.pair, TRUE) /\ at.st = "driving"
        /\ vendor' = at.pair /\ proven' = proven \cup {vendor'} /\ at.mode = "create_account"
    BY <1>7, RowForms DEF SubmitRegistration
  <2>2. at.pair \in 1..MaxPairs /\ at.pair \in proven'
    BY <1>1, <1>3, <2>1, VaultAssumption DEF NoPair
  <2> QED BY <1>1, <1>5, <2>1, <2>2
<1>8. CASE SignupGated(r)
  <2>1. RunRow(r, "waiting_for_hitl", at.pair, at.signedIn) /\ at.st = "driving"
        /\ at.mode = "create_account" /\ UNCHANGED <<vendor, proven>>
    BY <1>8, RowForms DEF SignupGated, Becomes
  <2> QED BY <1>1, <1>4, <1>5, <2>1 DEF LoginStatuses
<1>9. CASE ResumeSignup(r)
  <2>1. RunRow(r, "driving", IF signup.run = r THEN signup.pair ELSE at.pair, at.signedIn)
        /\ at.st = "waiting_for_hitl" /\ UNCHANGED <<vendor, proven>>
    BY <1>9, RowForms DEF ResumeSignup
  <2>2. (IF signup.run = r THEN signup.pair ELSE at.pair) = at.pair
    BY <1>2
  <2> QED BY <1>1, <1>4, <1>5, <2>1, <2>2 DEF LoginStatuses
<1>10. CASE LoginAnswered(r)
  <2>1. at.st = "driving" /\ ~at.signedIn /\ at.mode = "existing_account" /\ UNCHANGED vendor
    BY <1>10 DEF LoginAnswered
  <2>2. CASE at.pair = vendor /\ proven' = proven \cup {vendor}
             /\ lrun' = [lrun EXCEPT ![r].signedIn = TRUE]
    <3>1. vendor # NoPair /\ vendor \in 0..MaxPairs
      BY <2>1 DEF LParts, SignInIsStaged, VaultCells
    <3>2. vendor' \in 1..MaxPairs /\ proven' = proven \cup {vendor'} /\ at.pair \in proven'
      BY <2>1, <2>2, <3>1, VaultAssumption DEF NoPair
    <3>3. RunRow(r, at.st, at.pair, TRUE)
      BY <2>2, RowForms
    <3> QED BY <1>1, <1>5, <2>1, <3>2, <3>3
  <2>3. CASE Becomes(r, "waiting_for_hitl") /\ UNCHANGED proven
    <3>1. RunRow(r, "waiting_for_hitl", at.pair, at.signedIn)
      BY <2>3, RowForms DEF Becomes
    <3> QED BY <1>1, <1>4, <1>5, <2>1, <2>3, <3>1 DEF LoginStatuses
  <2> QED BY <1>10, <2>2, <2>3 DEF LoginAnswered
<1>11. CASE OwnerSignsIn(r)
  <2>1. RunRow(r, at.st, at.pair, TRUE) /\ at.st = "waiting_for_hitl"
        /\ regime.human /\ UNCHANGED <<vendor, proven>>
    BY <1>11, RowForms DEF OwnerSignsIn
  <2> QED BY <1>1, <1>5, <2>1
<1>12. CASE RunFails(r)
  <2>1. RunRow(r, "failed", at.pair, at.signedIn)
        /\ at.st \in {"driving", "waiting_for_hitl"} /\ UNCHANGED <<vendor, proven>>
    BY <1>12, RowForms DEF RunFails, Becomes
  <2> QED BY <1>1, <1>4, <1>5, <2>1 DEF LoginStatuses
<1> QED BY <1>6, <1>7, <1>8, <1>9, <1>10, <1>11, <1>12

\* An owner supplies a pair or a stored one is used.
LEMMA SignInStep ==
  ASSUME LParts, NEW r \in Runs, SignsIn(r)
  PROVE  LParts'
<1> DEFINE held == IF existing' # existing THEN existing'[r].pair ELSE OnRecord(r)
           on == lrun[r].signedIn /\ lrun[r].st = "waiting_for_hitl"
<1>1. /\ lrun[r].mode = "existing_account" /\ lrun[r].st # "driving"
      /\ RunRow(r, "driving", held, on)
      /\ UNCHANGED <<claim, signup, reusable, vendor, proven, regime>>
  BY RowForms DEF SignsIn
<1>2. vendor # NoPair /\ vendor \in 0..MaxPairs /\ pairs \in 0..MaxPairs /\ reusable \in 0..MaxPairs
  BY <1>1 DEF LParts, SignInIsStaged, VaultCells, VaultTypes
<1>3. existing \in [Runs -> Stage] /\ \A o \in Runs : existing[o] = NoStage \/ existing[o].st # "none"
  BY DEF LParts, VaultTypes
<1>4. /\ existing' \in [Runs -> Stage] /\ pairs' \in 0..MaxPairs
      /\ \A o \in Runs : o # r => existing'[o] = existing[o]
      /\ existing'[r] = existing[r] \/ (existing'[r].st # "none" /\ existing'[r].pair # NoPair)
      /\ existing'[r] # NoStage => held = existing'[r].pair
  <2>1. CASE UNCHANGED <<pairs, existing>>
    <3>1. existing[r] # NoStage => held = existing[r].pair
      BY <2>1 DEF OnRecord
    <3> QED BY <1>2, <1>3, <2>1, <3>1
  <2>2. ASSUME NEW pair \in {vendor} \cup (IF pairs < MaxPairs THEN {pairs + 1} ELSE {}),
               pairs' = (IF pair > pairs THEN pair ELSE pairs),
               existing' = [existing EXCEPT ![r] = StageExisting(r, pair)]
        PROVE  /\ existing' \in [Runs -> Stage] /\ pairs' \in 0..MaxPairs
               /\ \A o \in Runs : o # r => existing'[o] = existing[o]
               /\ existing'[r] = existing[r] \/ (existing'[r].st # "none" /\ existing'[r].pair # NoPair)
               /\ existing'[r] # NoStage => held = existing'[r].pair
    <3>1. pair \in 0..MaxPairs /\ pair # NoPair
      <4>1. CASE pair = vendor
        BY <1>2, <4>1
      <4>2. CASE pairs < MaxPairs /\ pair = pairs + 1
        BY <1>2, <4>2, VaultAssumption DEF NoPair
      <4> QED BY <2>2, <4>1, <4>2
    <3>2. /\ StageExisting(r, pair) \in Stage
          /\ \/ StageExisting(r, pair) = existing[r]
             \/ StageExisting(r, pair).st # "none" /\ StageExisting(r, pair).pair # NoPair
      BY <1>3, <3>1 DEF StageExisting, Stage
    <3>3. existing'[r] = StageExisting(r, pair) /\ existing' \in [Runs -> Stage]
          /\ \A o \in Runs : o # r => existing'[o] = existing[o]
      BY <1>3, <2>2, <3>2
    <3>4. pairs' \in 0..MaxPairs
      BY <1>2, <2>2, <3>1
    <3>5. existing'[r] # NoStage => held = existing'[r].pair
      <4>1. CASE existing' = existing
        BY <4>1 DEF OnRecord
      <4> QED BY <4>1
    <3> QED BY <3>2, <3>3, <3>4, <3>5
  <2> QED BY <2>1, <2>2 DEF SignsIn
<1>5. held \in 0..MaxPairs
  BY <1>2, <1>3, <1>4 DEF OnRecord, Stage
<1>6. on = FALSE \/ regime.human
  BY <1>1 DEF LParts, SignedInIsProven
<1>7. on \in BOOLEAN
  BY RowFields
<1> HIDE DEF held, on
<1>8. /\ lrun' \in [Runs -> LoginRun]
      /\ lrun'[r].st = "driving" /\ lrun'[r].pair = held /\ lrun'[r].signedIn = on
      /\ lrun'[r].mode = lrun[r].mode
      /\ \A o \in Runs : o # r => lrun'[o] = lrun[o]
  BY <1>1, <1>5, <1>7, RowWritten DEF LoginStatuses
<1>9. signup.run # r
  BY <1>1 DEF LParts, StageIsItsRuns
<1>10. VaultTypes' /\ VaultCells' /\ ReusableWasAccepted'
  <2>1. \A o \in Runs : existing'[o] = NoStage \/ existing'[o].st # "none"
    BY <1>3, <1>4
  <2> QED BY <1>1, <1>4, <1>8, <2>1 DEF LParts, VaultTypes, VaultCells, ReusableWasAccepted
<1>11. StagesAreWhole'
  BY <1>1, <1>4 DEF LParts, StagesAreWhole
<1>12. ClaimantIsNew' /\ HolderStaysFinished'
  BY <1>1, <1>8 DEF LParts, ClaimantIsNew, HolderStaysFinished
<1>13. StageIsItsRuns' /\ LiveKeepsStage'
  BY <1>1, <1>8, <1>9 DEF LParts, StageIsItsRuns, LiveKeepsStage
<1>14. SignInIsStaged' /\ SignedInIsProven'
  BY <1>1, <1>4, <1>6, <1>8 DEF LParts, SignInIsStaged, SignedInIsProven
<1> QED BY <1>10, <1>11, <1>12, <1>13, <1>14 DEF LParts

\* A page of a signed-in user: the pair in the browser becomes the reusable one.
LEMMA PromoteStep ==
  ASSUME LParts, NEW r \in Runs, PageReady(r)
  PROVE  LParts'
<1>1. /\ lrun[r].st = "driving" /\ lrun[r].signedIn
      /\ UNCHANGED <<claim, pairs, vendor, proven, regime>>
  BY DEF PageReady, ProtectedPage
<1>2. /\ ~regime.human => lrun[r].pair \in proven
      /\ signup.run = r => lrun[r].pair = signup.pair /\ lrun[r].mode = "create_account"
      /\ existing[r] # NoStage => existing[r].pair = lrun[r].pair /\ lrun[r].mode = "existing_account"
      /\ lrun[r].pair \in 0..MaxPairs
  BY <1>1, HeldPair, RowFields DEF LParts, SignedInIsProven
<1>3. lrun[r].mode = "create_account" => lrun[r].pair # NoPair /\ (~regime.race => signup.run = r)
  BY <1>1 DEF LParts, LiveKeepsStage
<1>4. ASSUME NEW st \in {"driving", "completed", "configuration_required"},
             RunRow(r, st, lrun[r].pair, lrun[r].signedIn),
             \/ UNCHANGED signup
             \/ signup.run = r /\ signup' = [signup EXCEPT !.st = "promoted"],
             \/ UNCHANGED existing
             \/ existing[r] # NoStage /\ existing' = [existing EXCEPT ![r].st = "promoted"],
             reusable' = reusable \/ reusable' = lrun[r].pair
      PROVE  LParts'
  <2>1. /\ lrun' \in [Runs -> LoginRun]
        /\ lrun'[r].st = st /\ lrun'[r].pair = lrun[r].pair /\ lrun'[r].signedIn = lrun[r].signedIn
        /\ lrun'[r].mode = lrun[r].mode
        /\ \A o \in Runs : o # r => lrun'[o] = lrun[o]
    BY <1>4, RowWritten, RowFields DEF LoginStatuses
  <2>2. /\ signup' \in Stage /\ signup'.run = signup.run /\ signup'.pair = signup.pair
        /\ signup' = signup \/ (signup.run \in Runs /\ signup'.st = "promoted")
    BY <1>4 DEF LParts, VaultTypes, Stage
  <2>3. /\ existing' \in [Runs -> Stage] /\ \A o \in Runs : existing'[o].pair = existing[o].pair
        /\ \A o \in Runs : existing'[o] = existing[o] \/
              (existing[o] # NoStage /\ existing'[o].st = "promoted")
    <3>1. existing \in [Runs -> Stage]
      BY DEF LParts, VaultTypes
    <3>2. CASE existing[r] # NoStage /\ existing' = [existing EXCEPT ![r].st = "promoted"]
      <4>1. /\ [existing[r] EXCEPT !.st = "promoted"] \in Stage
            /\ [existing[r] EXCEPT !.st = "promoted"].pair = existing[r].pair
            /\ [existing[r] EXCEPT !.st = "promoted"].st = "promoted"
        BY <3>1 DEF Stage
      <4>2. existing' = [existing EXCEPT ![r] = [existing[r] EXCEPT !.st = "promoted"]]
        BY <3>2
      <4> QED BY <3>1, <3>2, <4>1, <4>2
    <3> QED BY <1>4, <3>1, <3>2
  <2>4. VaultTypes' /\ VaultCells'
    BY <1>1, <1>2, <1>4, <2>1, <2>2, <2>3 DEF LParts, VaultTypes, VaultCells
  <2>5. StagesAreWhole'
    BY <2>2, <2>3 DEF LParts, StagesAreWhole, VaultTypes
  <2>6. ReusableWasAccepted'
    BY <1>1, <1>2, <1>4 DEF LParts, ReusableWasAccepted
  <2>7. ClaimantIsNew' /\ HolderStaysFinished'
    BY <1>1, <2>1 DEF LParts, ClaimantIsNew, HolderStaysFinished, Finished
  <2>8. StageIsItsRuns' /\ LiveKeepsStage'
    BY <1>1, <1>3, <2>1, <2>2 DEF LParts, StageIsItsRuns, LiveKeepsStage
  <2>9. SignInIsStaged'
    BY <1>1, <2>1, <2>3 DEF LParts, SignInIsStaged
  <2>10. SignedInIsProven'
    BY <1>1, <2>1 DEF LParts, SignedInIsProven
  <2> QED BY <2>4, <2>5, <2>6, <2>7, <2>8, <2>9, <2>10 DEF LParts
<1>5. lrun' = lrun => RunRow(r, "driving", lrun[r].pair, lrun[r].signedIn)
  BY <1>1 DEF LParts, VaultTypes, LoginRun, RunRow
<1>6. lrun' \in {lrun, [lrun EXCEPT ![r].st = "completed"]} =>
        \E st \in {"driving", "completed"} : RunRow(r, st, lrun[r].pair, lrun[r].signedIn)
  BY <1>5, RowForms
<1>7. CASE /\ lrun[r].mode = "create_account" /\ signup.run = r
           /\ PromoteSignup(r) /\ lrun' \in {lrun, [lrun EXCEPT ![r].st = "completed"]}
           /\ UNCHANGED existing
  BY <1>2, <1>4, <1>6, <1>7 DEF PromoteSignup
<1>8. CASE /\ lrun[r].mode = "create_account" /\ signup.run # r
           /\ Becomes(r, "configuration_required") /\ UNCHANGED <<signup, existing, reusable>>
  BY <1>4, <1>8, RowForms DEF Becomes
<1>9. CASE /\ lrun[r].mode = "existing_account" /\ PromoteExisting(r)
           /\ lrun' \in {lrun, [lrun EXCEPT ![r].st = "completed"]} /\ UNCHANGED signup
  BY <1>2, <1>4, <1>6, <1>9 DEF PromoteExisting
<1> QED BY <1>7, <1>8, <1>9 DEF PageReady

LEMMA VaultStepHolds ==
  ASSUME LInv, [LNext]_loginVars
  PROVE  LInv'
<1>1. LParts
  BY LInvIsParts
<1>2. CASE LNext
  <2>1. PICK r \in Runs :
          \/ BeginSignup(r) \/ RetrySignup(r) \/ ReadOwner(r) \/ ReadStatus(r) \/ ReleaseStaged(r)
          \/ Restage(r) \/ SubmitRegistration(r) \/ SignupGated(r) \/ ResumeSignup(r) \/ SignsIn(r)
          \/ LoginAnswered(r) \/ OwnerSignsIn(r) \/ PageReady(r) \/ RunFails(r)
    BY <1>2 DEF LNext
  <2>2. ASSUME BeginSignup(r) \/ Restage(r) PROVE LParts'
    <3>1. lrun[r].mode = "create_account" /\ lrun[r].st = "new" /\ StageSignup(r)
          /\ UNCHANGED <<existing, reusable, vendor, proven, regime>>
      BY <1>1, <2>2 DEF BeginSignup, Restage, LParts, ClaimantIsNew
    <3> QED BY <1>1, <3>1, StageStep
  <2>3. LParts'
    BY <1>1, <2>1, <2>2, RepairSteps, DriveSteps, SignInStep, PromoteStep
  <2> QED BY <2>3, LInvIsParts, PTL
<1>3. CASE UNCHANGED loginVars
  <2>1. LParts'
    BY <1>1, <1>3 DEF loginVars, LParts, VaultTypes, VaultCells, StagesAreWhole, ReusableWasAccepted,
       ClaimantIsNew, HolderStaysFinished, StageIsItsRuns, LiveKeepsStage, SignInIsStaged, SignedInIsProven
  <2> QED BY <2>1, LInvIsParts, PTL
<1> QED BY <1>2, <1>3

\* The sign-in pairs of an app (stage_signup_login, promote_staged_signup_login_pair and
\* the repair between them): a live run keeps its identity while no run is retried under
\* examination, and a pair is reusable only after the vendor accepted it, unless a
\* person signed in.
THEOREM VaultIsSafe == LSpec => []VaultSafety
<1>1. LInit => LInv
  BY VaultInit, LInvIsParts
<1>2. LInv /\ [LNext]_loginVars => LInv'
  BY VaultStepHolds
<1>3. LInv => VaultSafety
  BY DEF LInv
<1> QED BY <1>1, <1>2, <1>3, PTL DEF LSpec

\* A promoted identity is never given up, whoever examined it before it was promoted
\* (release_staged_signup_login_pair deletes a pending row only).
THEOREM PromotedStays == LSpec => PromotedIsKept
<1>1. LInit => LInv
  BY VaultInit, LInvIsParts
<1>2. LInv /\ [LNext]_loginVars => LInv'
  BY VaultStepHolds
<1>3. LInv /\ [LNext]_loginVars => [signup.st = "promoted" => signup' = signup]_loginVars
  <2> SUFFICES ASSUME LInv, LNext, signup.st = "promoted" PROVE signup' = signup
    OBVIOUS
  <2>1. signup \in Stage /\ signup # NoStage
    BY DEF LInv, VaultTypes, NoStage
  <2>2. [signup EXCEPT !.st = "promoted"] = signup
    BY <2>1 DEF Stage
  <2>3. PICK r \in Runs :
          \/ BeginSignup(r) \/ RetrySignup(r) \/ ReadOwner(r) \/ ReadStatus(r) \/ ReleaseStaged(r)
          \/ Restage(r) \/ SubmitRegistration(r) \/ SignupGated(r) \/ ResumeSignup(r) \/ SignsIn(r)
          \/ LoginAnswered(r) \/ OwnerSignsIn(r) \/ PageReady(r) \/ RunFails(r)
    BY DEF LNext
  <2>4. CASE BeginSignup(r) \/ Restage(r)
    BY <2>1, <2>4 DEF BeginSignup, Restage, StageSignup
  <2>5. CASE ReleaseStaged(r)
    BY <2>5 DEF ReleaseStaged, Releasable
  <2>6. CASE PageReady(r)
    BY <2>2, <2>6 DEF PageReady, PromoteSignup
  <2>7. CASE \/ RetrySignup(r) \/ ReadOwner(r) \/ ReadStatus(r) \/ SubmitRegistration(r)
             \/ SignupGated(r) \/ ResumeSignup(r) \/ SignsIn(r) \/ LoginAnswered(r)
             \/ OwnerSignsIn(r) \/ RunFails(r)
    BY <2>7 DEF RetrySignup, ReadOwner, ReadStatus, SubmitRegistration, SignupGated, ResumeSignup,
       SignsIn, LoginAnswered, OwnerSignsIn, RunFails
  <2> QED BY <2>3, <2>4, <2>5, <2>6, <2>7
<1> QED BY <1>1, <1>2, <1>3, PTL DEF LSpec, PromotedIsKept

-----------------------------------------------------------------------------
(* CanonicalRuntime: the inductive invariant.                                 *)

Operation == [kind: {"none", "start", "resume", "capture", "submit"}, n: 0..MaxAttempt]
RunRecord ==
    [status: Statuses, phase: Phases, att: 0..MaxAttempt, sess: 0..MaxAttempt,
     key: Operation, rev: Nat, plan: 1..2]
ThreadState ==
    [pc: {"idle", "reserve", "refused", "starting", "launching", "bound", "calling", "adhere", "resolve", "capturing",
          "project", "release", "submitting"},
     sess: 0..MaxAttempt, key: Operation, rev: Nat, att: 0..MaxAttempt,
     out: Outcomes \cup AwaitingOwner, refs: BOOLEAN]

\* What a thread that goes on to a projection, or has reserved a submission, has seen.
Answered ==
    \A t \in Threads :
        /\ thread[t].pc = "idle" <=> thread[t] = Idle
        /\ thread[t].pc \in {"adhere", "project"} => thread[t].out \in Outcomes \ {"none"}
        /\ thread[t].pc \in {"resolve", "capturing"} => thread[t].out = "ready"
        /\ thread[t].pc = "submitting" => thread[t].out \in AwaitingOwner
        /\ thread[t].pc = "starting" => thread[t].att # 0

\* Whoever presses Create holds the run's one capture effect, which is not open to
\* another as long as the vendor may have issued a key.
CaptureIsHeld ==
    /\ capture \in {"absent", "failed"} => mints = 0
    /\ \A t \in Threads : thread[t].pc = "capturing" =>
          capture = "pending" /\ (~thread[t].refs => mints = 0)
    /\ \A t, u \in Threads : thread[t].pc = "capturing" /\ thread[u].pc = "capturing" => t = u

SweepState ==
    [pc: {"idle", "stale", "stop", "stranded", "gone", "release"}, rev: Nat, sess: 0..MaxAttempt]

WorldTypes ==
    /\ capture \in {"absent", "pending", "failed", "unknown", "empty", "vaulted"}
    /\ submit \in {"absent", "pending", "failed", "completed"}
    /\ keys \subseteq [kind: {"start", "resume"}, n: 1..MaxAttempt]
    /\ live \subseteq 1..MaxAttempt
    /\ mints \in Nat /\ recorded \in BOOLEAN /\ lost \in BOOLEAN
    /\ lock \in Threads \cup {"free"} /\ sweep \in SweepState /\ mode \in Regimes

RInv ==
    /\ row \in RunRecord /\ WorldTypes /\ thread \in [Threads -> ThreadState]
    /\ Answered /\ CaptureIsHeld /\ OneMint

-----------------------------------------------------------------------------
(* CanonicalRuntime.                                                          *)

LEMMA RuntimeTypes == RInv => RTypeOK
<1> SUFFICES ASSUME RInv PROVE RTypeOK
  OBVIOUS
<1>1. \A t \in Threads : (thread[t].pc = "idle") = (thread[t] = Idle)
  BY DEF RInv, Answered
<1>2. \A t \in Threads : thread[t].out \in Outcomes \cup AwaitingOwner /\ thread[t].sess \in 0..MaxAttempt
  BY DEF RInv, ThreadState
<1> QED BY <1>1, <1>2 DEF RInv, WorldTypes, SweepState, RTypeOK, RunRecord, Operation

LEMMA IdleIsAThread ==
  /\ Idle \in ThreadState /\ Idle.pc = "idle"
  /\ NoSweep \in SweepState /\ NoSweep.pc = "idle"
  /\ NoKey \in Operation
BY RuntimeAssumption DEF Idle, ThreadState, Operation, NoKey, Outcomes, NoSweep, SweepState

LEMMA RuntimeInit ==
  ASSUME RInit
  PROVE  RInv
<1>1. thread \in [Threads -> ThreadState]
  BY IdleIsAThread DEF RInit, ThreadState
<1>2. \A t \in Threads : thread[t] = Idle \/ thread[t] = [Idle EXCEPT !.pc = "reserve"]
  BY DEF RInit
<1>3. \A t \in Threads : thread[t] = Idle \/ thread[t].pc = "reserve"
  BY <1>2 DEF Idle
<1>4. Answered /\ CaptureIsHeld /\ OneMint
  <2>1. capture = "absent" /\ mints = 0
    BY DEF RInit
  <2>2. Answered
    BY <1>3, IdleIsAThread DEF Answered
  <2>3. CaptureIsHeld
    BY <1>3, <2>1, IdleIsAThread DEF CaptureIsHeld
  <2> QED BY <2>1, <2>2, <2>3 DEF OneMint
<1>5. row \in RunRecord
  BY RuntimeAssumption DEF RInit, RunRecord, Statuses, Phases, Operation, NoKey
<1>6. WorldTypes
  BY IdleIsAThread DEF RInit, WorldTypes
<1> QED BY <1>1, <1>4, <1>5, <1>6 DEF RInv

\* A thread's next state is one of a thread, and says what it has seen.
Continues(s) ==
    /\ s \in ThreadState
    /\ s.pc = "idle" <=> s = Idle
    /\ s.pc \in {"adhere", "project"} => s.out \in Outcomes \ {"none"}
    /\ s.pc \in {"resolve", "capturing"} => s.out = "ready"
    /\ s.pc = "submitting" => s.out \in AwaitingOwner
    /\ s.pc = "starting" => s.att # 0

LEMMA ThreadGoes ==
  ASSUME RInv, NEW t \in Threads, NEW s, Goes(t, s), Continues(s)
  PROVE  /\ thread' \in [Threads -> ThreadState] /\ Answered'
         /\ thread'[t] = s /\ \A u \in Threads : u # t => thread'[u] = thread[u]
BY DEF RInv, Goes, Answered, Continues

\* Nobody but ReserveCapture begins a capture.
LEMMA CaptureStays ==
  ASSUME RInv, NEW t \in Threads, NEW s, Goes(t, s), Continues(s), s.pc # "capturing",
         UNCHANGED <<capture, mints>>
  PROVE  thread' \in [Threads -> ThreadState] /\ Answered' /\ CaptureIsHeld' /\ OneMint'
BY ThreadGoes DEF RInv, CaptureIsHeld, OneMint

LEMMA ThreadsStay ==
  ASSUME RInv, UNCHANGED <<thread, capture, mints>>
  PROVE  thread' \in [Threads -> ThreadState] /\ Answered' /\ CaptureIsHeld' /\ OneMint'
BY DEF RInv, Answered, CaptureIsHeld, OneMint

LEMMA IdleContinues == Continues(Idle)
BY IdleIsAThread DEF Continues

\* A write of the row moves its revision.
LEMMA RecordAt ==
  ASSUME NEW r \in RunRecord, NEW status \in Statuses, NEW phase \in Phases
  PROVE  [r EXCEPT !.status = status, !.phase = phase, !.rev = @ + 1] \in RunRecord
<1>1. r.rev + 1 \in Nat
  BY DEF RunRecord
<1>2. [r EXCEPT !.status = status, !.phase = phase, !.rev = r.rev + 1] \in RunRecord
  BY <1>1 DEF RunRecord
<1> QED BY <1>2

LEMMA RecordTyped ==
  ASSUME RInv, NEW status \in Statuses, NEW phase \in Phases, Record(status, phase)
  PROVE  row' \in RunRecord
BY RecordAt DEF RInv, Record

\* A thread that has begun is not idle.
LEMMA BusyContinues ==
  ASSUME NEW s \in ThreadState,
         s.pc \in {"reserve", "refused", "launching", "bound", "calling", "release"}
  PROVE  Continues(s)
BY IdleIsAThread DEF Continues

LEMMA AnsweredContinues ==
  ASSUME NEW s \in ThreadState, s.pc \in {"adhere", "project"}, s.out \in Outcomes \ {"none"}
  PROVE  Continues(s)
BY IdleIsAThread DEF Continues

\* An attempt is begun: a replay, a retry, the reservation of its key.
LEMMA BeginSteps ==
  ASSUME RInv, NEW t \in Threads,
         ReplayCreate(t) \/ RecoverPristine(t) \/ RetryBrowserRun(t) \/ ReserveStart(t)
  PROVE  RInv'
<1> USE RuntimeAssumption
<1>0. /\ row \in RunRecord /\ thread[t] \in ThreadState /\ keys \subseteq [kind: {"start", "resume"}, n: 1..MaxAttempt]
      /\ row.att \in 0..MaxAttempt /\ row.rev \in Nat
  BY DEF RInv, RunRecord, WorldTypes
<1>1. ASSUME NEW att \in 1..MaxAttempt
      PROVE  /\ Continues([Idle EXCEPT !.pc = "reserve", !.att = att])
             /\ [Idle EXCEPT !.pc = "reserve", !.att = att].pc = "reserve"
  <2> DEFINE s == [Idle EXCEPT !.pc = "reserve", !.att = att]
  <2>1. s \in ThreadState /\ s.pc = "reserve"
    <3> DEFINE r == [Idle EXCEPT !.pc = "reserve"]
    <3>1. r \in ThreadState /\ r.pc = "reserve"
      BY IdleIsAThread DEF ThreadState
    <3>2. att \in 0..MaxAttempt
      BY <1>1
    <3>3. s = [r EXCEPT !.att = att]
      OBVIOUS
    <3> HIDE DEF r, s
    <3> QED BY <3>1, <3>2, <3>3 DEF ThreadState
  <2> HIDE DEF s
  <2>2. Continues(s)
    BY <2>1, BusyContinues
  <2> QED BY <2>1, <2>2 DEF s
<1>2. {"configuration_required", "browser_running"} \subseteq Statuses
      /\ {"effect_reconciliation", "recoverable", "credential_ready", "browser_starting"} \subseteq Phases
  BY DEF Statuses, Phases, AwaitingOwner
<1>3. CASE ReplayCreate(t) \/ RecoverPristine(t)
  <2>1. ContinuePristine(t) /\ lock = "free"
    BY <1>3 DEF ReplayCreate, RecoverPristine
  <2>2. row' \in RunRecord
    BY <1>0, <1>2, <2>1, RecordTyped DEF ContinuePristine
  <2>3. WorldTypes'
    BY <2>1 DEF ContinuePristine, RInv, WorldTypes, worldVars, auditVars
  <2>4. thread' \in [Threads -> ThreadState] /\ Answered' /\ CaptureIsHeld' /\ OneMint'
    <3>1. UNCHANGED <<capture, mints>>
      BY <2>1 DEF ContinuePristine, worldVars
    <3>2. UNCHANGED thread \/ Goes(t, [Idle EXCEPT !.pc = "reserve", !.att = 1])
      BY <2>1 DEF ContinuePristine
    <3> DEFINE s == [Idle EXCEPT !.pc = "reserve", !.att = 1]
    <3>3. Continues(s) /\ s.pc = "reserve"
      <4>1. 1 \in 1..MaxAttempt
        OBVIOUS
      <4> QED BY <1>1, <4>1
    <3>4. UNCHANGED thread \/ Goes(t, s)
      BY <3>2
    <3> HIDE DEF s
    <3> QED BY <3>1, <3>3, <3>4, CaptureStays, ThreadsStay
  <2> QED BY <2>2, <2>3, <2>4 DEF RInv
<1>4. CASE RetryBrowserRun(t)
  <2>1. row' \in RunRecord
    <3>1. \/ row' = row \/ OpensOwnerWindow
      BY <1>4 DEF RetryBrowserRun
    <3>2. row.rev + 1 \in Nat /\ 0 \in 0..MaxAttempt
      BY <1>0
    <3>3. [row EXCEPT !.status = "browser_running", !.phase = "credential_ready",
                      !.sess = 0, !.rev = row.rev + 1] \in RunRecord
      BY <1>0, <1>2, <3>2 DEF RunRecord
    <3> QED BY <1>0, <3>1, <3>3 DEF OpensOwnerWindow
  <2>2. WorldTypes'
    BY <1>4 DEF RetryBrowserRun, RInv, WorldTypes, worldVars, auditVars
  <2>3. thread' \in [Threads -> ThreadState] /\ Answered' /\ CaptureIsHeld' /\ OneMint'
    <3>1. UNCHANGED <<capture, mints>>
      BY <1>4 DEF RetryBrowserRun, worldVars
    <3>2. UNCHANGED thread \/ (row.att < MaxAttempt /\
             Goes(t, [Idle EXCEPT !.pc = "reserve", !.att = row.att + 1]))
      BY <1>4 DEF RetryBrowserRun
    <3> DEFINE s == [Idle EXCEPT !.pc = "reserve", !.att = row.att + 1]
    <3>3. row.att < MaxAttempt => row.att + 1 \in 1..MaxAttempt
      BY <1>0
    <3>4. row.att < MaxAttempt => Continues(s) /\ s.pc = "reserve"
      BY <1>1, <3>3
    <3>5. UNCHANGED thread \/ (row.att < MaxAttempt /\ Goes(t, s))
      BY <3>2
    <3> HIDE DEF s
    <3> QED BY <3>1, <3>4, <3>5, CaptureStays, ThreadsStay
  <2> QED BY <2>1, <2>2, <2>3 DEF RInv
<1>5. CASE ReserveStart(t)
  <2> DEFINE att == IF thread[t].att = 0 THEN row.att + 1 ELSE thread[t].att
             key == Key("start", att)
             taken == [row EXCEPT !.phase = "browser_starting", !.key = key, !.att = att, !.rev = @ + 1]
  <2>1. att \in Nat /\ (key \in keys => att <= MaxAttempt) /\ att # 0
    <3>1. att \in Nat /\ att # 0
      BY <1>0 DEF ThreadState
    <3>2. key \in keys => att <= MaxAttempt
      BY <1>0 DEF Key
    <3> QED BY <3>1, <3>2
  <2>2. att <= MaxAttempt => key \in Operation /\ key \in [kind: {"start", "resume"}, n: 1..MaxAttempt]
    BY <2>1 DEF Key, Operation
  <2>3. att <= MaxAttempt => att \in 0..MaxAttempt
    BY <2>1
  <2>4. /\ UNCHANGED <<capture, submit, worldVars, auditVars, sweep, mode>>
        /\ \/ /\ att <= MaxAttempt /\ row' = taken /\ keys' = keys \cup {key}
              /\ Goes(t, [thread[t] EXCEPT !.pc = "starting", !.att = att, !.key = key])
              /\ UNCHANGED lock
           \/ /\ key \in keys /\ row' = taken
              /\ Goes(t, [thread[t] EXCEPT !.pc = "refused"])
              /\ UNCHANGED <<keys, lock>>
           \/ /\ Record("configuration_required", "recoverable")
              /\ Goes(t, Idle) /\ lock' = Holds(t) /\ UNCHANGED keys
    BY <1>5 DEF ReserveStart
  <2> HIDE DEF att, key
  <2>5. ASSUME att <= MaxAttempt
        PROVE  taken \in RunRecord
    <3>1. row.rev + 1 \in Nat
      BY <1>0
    <3>2. [row EXCEPT !.phase = "browser_starting", !.key = key, !.att = att, !.rev = row.rev + 1] \in RunRecord
      BY <1>0, <1>2, <2>2, <2>3, <2>5, <3>1 DEF RunRecord
    <3> QED BY <3>2
  <2>6. row' \in RunRecord
    BY <1>2, <2>1, <2>4, <2>5, RecordTyped
  <2>7. WorldTypes'
    BY <2>2, <2>4 DEF Holds, RInv, WorldTypes, worldVars, auditVars
  <2>8. att <= MaxAttempt => Continues([thread[t] EXCEPT !.pc = "starting", !.att = att, !.key = key])
                             /\ [thread[t] EXCEPT !.pc = "starting", !.att = att, !.key = key].pc = "starting"
    <3> SUFFICES ASSUME att <= MaxAttempt
                 PROVE  /\ Continues([thread[t] EXCEPT !.pc = "starting", !.att = att, !.key = key])
                        /\ [thread[t] EXCEPT !.pc = "starting", !.att = att, !.key = key].pc = "starting"
      OBVIOUS
    <3> DEFINE s == [thread[t] EXCEPT !.pc = "starting", !.att = att, !.key = key]
    <3>1. s \in ThreadState /\ s.pc = "starting" /\ s.att = att
      BY <1>0, <2>2, <2>3 DEF ThreadState
    <3>2. s # Idle
      BY <3>1, IdleIsAThread
    <3> HIDE DEF s
    <3>3. Continues(s)
      BY <2>1, <3>1, <3>2 DEF Continues
    <3> QED BY <3>1, <3>3 DEF s
  <2>9. thread' \in [Threads -> ThreadState] /\ Answered' /\ CaptureIsHeld' /\ OneMint'
    <3>1. UNCHANGED <<capture, mints>>
      BY <2>4 DEF worldVars
    <3>2. \/ Goes(t, Idle) \/ Goes(t, [thread[t] EXCEPT !.pc = "refused"])
          \/ att <= MaxAttempt /\ Goes(t, [thread[t] EXCEPT !.pc = "starting", !.att = att, !.key = key])
      BY <2>4
    <3>3. PICK s : s = [thread[t] EXCEPT !.pc = "refused"]
      OBVIOUS
    <3>4. s \in ThreadState /\ s.pc = "refused"
      BY <1>0, <3>3 DEF ThreadState
    <3>5. Continues(s)
      BY <3>4, BusyContinues
    <3> QED BY <2>8, <3>1, <3>2, <3>3, <3>4, <3>5, CaptureStays, IdleContinues, IdleIsAThread
  <2> QED BY <2>6, <2>7, <2>9 DEF RInv
<1> QED BY <1>3, <1>4, <1>5

\* What a step changes beside a capture.
LEMMA QuietStep ==
  ASSUME RInv, NEW t \in Threads, NEW new, Goes(t, new), Continues(new), new.pc # "capturing",
         UNCHANGED <<capture, mints, sweep, mode>>, row' \in RunRecord,
         submit' \in {"absent", "pending", "failed", "completed"},
         keys' \subseteq [kind: {"start", "resume"}, n: 1..MaxAttempt],
         live' \subseteq 1..MaxAttempt, lock' \in Threads \cup {"free"},
         recorded' \in BOOLEAN, lost' \in BOOLEAN
  PROVE  RInv'
<1>1. WorldTypes'
  BY DEF RInv, WorldTypes
<1> QED BY <1>1, CaptureStays DEF RInv

LEMMA WorldIsTyped ==
  ASSUME RInv
  PROVE  /\ submit \in {"absent", "pending", "failed", "completed"}
         /\ keys \subseteq [kind: {"start", "resume"}, n: 1..MaxAttempt]
         /\ live \subseteq 1..MaxAttempt /\ lock \in Threads \cup {"free"}
         /\ \A t \in Threads : Holds(t) \in Threads \cup {"free"}
         /\ recorded \in BOOLEAN /\ lost \in BOOLEAN
         /\ row \in RunRecord /\ row.rev \in Nat /\ row.key \in Operation
         /\ row.sess \in 0..MaxAttempt /\ row.att \in 0..MaxAttempt
BY DEF RInv, WorldTypes, RunRecord, Holds

\* The session opens and is bound, or the start fails; the drive thread sets out and
\* its answer arrives; a session is released.
LEMMA DriveThreadSteps ==
  ASSUME RInv, NEW t \in Threads,
         \/ RefuseStart(t) \/ SessionOpens(t) \/ BindSession(t) \/ ThreadStarts(t) \/ StartFails(t)
         \/ DriveBrowser(t) \/ ReleaseSession(t) \/ \E out \in Outcomes : ApplyObservation(t, out)
  PROVE  RInv'
<1> USE WorldIsTyped
<1> DEFINE s == thread[t]
<1>0. s \in ThreadState /\ s.att \in 0..MaxAttempt /\ s.sess \in 0..MaxAttempt
  BY DEF RInv, ThreadState
<1>1. {"browser_running", "failed", "configuration_required"} \subseteq Statuses
      /\ {"running", "recoverable", "effect_reconciliation"} \subseteq Phases
  BY DEF Statuses, Phases
<1>2. CASE SessionOpens(t)
  <2> DEFINE new == [s EXCEPT !.sess = s.att]
  <2>1. s.pc = "starting" /\ s.att # 0 /\ Goes(t, new) /\ live' = live \cup {s.att}
        /\ UNCHANGED <<row, capture, submit, keys, mints, recorded, lost, lock, sweep, mode>>
    BY <1>2 DEF SessionOpens, RInv, Answered, rowVars, auditVars
  <2>2. new \in ThreadState /\ new.pc = "starting" /\ new.att = s.att
    BY <1>0, <2>1 DEF ThreadState
  <2>3. live' \subseteq 1..MaxAttempt
    BY <1>0, <2>1
  <2> HIDE DEF new
  <2>4. Continues(new)
    BY <2>1, <2>2, IdleIsAThread DEF Continues
  <2> QED BY <2>1, <2>2, <2>3, <2>4, QuietStep
<1>3. CASE BindSession(t)
  <2> DEFINE new == [s EXCEPT !.pc = "launching"]
  <2>1. Goes(t, new) /\ lock' = lock
        /\ row' = [row EXCEPT !.status = "browser_running", !.phase = "running",
                              !.sess = s.sess, !.rev = row.rev + 1]
        /\ UNCHANGED <<capture, submit, keys, live, mints, recorded, lost, sweep, mode>>
    BY <1>3 DEF BindSession, worldVars, auditVars
  <2>2. new \in ThreadState /\ new.pc = "launching"
    BY <1>0 DEF ThreadState
  <2>3. row.rev + 1 \in Nat
    OBVIOUS
  <2>4. row' \in RunRecord
    BY <1>0, <1>1, <2>1, <2>3 DEF RunRecord
  <2> HIDE DEF new
  <2> QED BY <2>1, <2>2, <2>4, QuietStep, BusyContinues
<1>4. CASE StartFails(t)
  <2>1. row' \in RunRecord
    BY <1>1, <1>4, RecordTyped DEF StartFails
  <2>2. Goes(t, Idle) /\ lock' = Holds(t) /\ live' \subseteq 1..MaxAttempt
        /\ UNCHANGED <<capture, submit, keys, mints, recorded, lost, sweep, mode>>
    BY <1>4 DEF StartFails, auditVars
  <2> QED BY <2>1, <2>2, QuietStep, IdleContinues, IdleIsAThread
<1>5. CASE DriveBrowser(t)
  <2> DEFINE new == [s EXCEPT !.pc = "calling", !.key = row.key]
  <2>1. Goes(t, new) \/ Goes(t, Idle)
    BY <1>5 DEF DriveBrowser
  <2>2. UNCHANGED <<row, capture, submit, keys, live, mints, recorded, lost, lock, sweep, mode>>
    BY <1>5 DEF DriveBrowser, rowVars, worldVars, auditVars
  <2>3. new \in ThreadState /\ new.pc = "calling"
    BY <1>0 DEF ThreadState
  <2> HIDE DEF new
  <2> QED BY <2>1, <2>2, <2>3, QuietStep, BusyContinues, IdleContinues, IdleIsAThread
<1>6. ASSUME NEW out \in Outcomes, ApplyObservation(t, out)
      PROVE  RInv'
  <2> DEFINE new == [s EXCEPT !.pc = "adhere", !.rev = row.rev, !.out = out]
  <2>1. Goes(t, new) \/ Goes(t, Idle)
    BY <1>6 DEF ApplyObservation
  <2>2. UNCHANGED <<row, capture, submit, keys, live, mints, recorded, lost, lock, sweep, mode>>
    BY <1>6 DEF ApplyObservation, rowVars, worldVars, auditVars
  <2>3. out # "none"
    BY <1>6 DEF ApplyObservation, Answers
  <2>4. new \in ThreadState /\ new.pc = "adhere" /\ new.out = out
    BY <1>0 DEF ThreadState
  <2> HIDE DEF new
  <2> QED BY <2>1, <2>2, <2>3, <2>4, QuietStep, AnsweredContinues, IdleContinues, IdleIsAThread
<1>7. CASE ReleaseSession(t)
  <2>1. Goes(t, Idle) /\ live' \subseteq 1..MaxAttempt
        /\ UNCHANGED <<row, capture, submit, keys, lock, mints, recorded, lost, sweep, mode>>
    BY <1>7 DEF ReleaseSession, rowVars, auditVars
  <2> QED BY <2>1, QuietStep, IdleContinues, IdleIsAThread
<1>8. CASE ThreadStarts(t)
  <2> DEFINE new == [s EXCEPT !.pc = "bound"]
  <2>1. Goes(t, new) /\ lock' = Holds(t)
        /\ UNCHANGED <<row, capture, submit, keys, live, mints, recorded, lost, sweep, mode>>
    BY <1>8 DEF ThreadStarts, rowVars, worldVars, auditVars
  <2>2. new \in ThreadState /\ new.pc = "bound"
    BY <1>0 DEF ThreadState
  <2> HIDE DEF new
  <2> QED BY <2>1, <2>2, QuietStep, BusyContinues
<1>9. CASE RefuseStart(t)
  <2>1. row' \in RunRecord
    BY <1>1, <1>9, RecordTyped DEF RefuseStart
  <2>2. Goes(t, Idle) /\ lock' = Holds(t)
        /\ UNCHANGED <<capture, submit, keys, live, mints, recorded, lost, sweep, mode>>
    BY <1>9 DEF RefuseStart, worldVars, auditVars
  <2> QED BY <2>1, <2>2, QuietStep, IdleContinues, IdleIsAThread
<1> QED BY <1>2, <1>3, <1>4, <1>5, <1>6, <1>7, <1>8, <1>9

\* A resume reserves its operation; an answer is compared with the route.
LEMMA ResumeSteps ==
  ASSUME RInv, NEW t \in Threads, ResumeRun(t) \/ AdhereToRoute(t)
  PROVE  RInv'
<1> USE WorldIsTyped
<1> DEFINE s == thread[t]
<1>0. s \in ThreadState
  BY DEF RInv
<1>1. CASE ResumeRun(t)
  <2> DEFINE key == Key("resume", row.att + 1)
             new == [Idle EXCEPT !.pc = "calling", !.sess = row.sess, !.key = key, !.att = row.att + 1]
  <2>1. /\ row' = [row EXCEPT !.status = "browser_running", !.att = row.att + 1,
                              !.phase = "target_probe_pending", !.key = key, !.rev = row.rev + 1]
        /\ keys' = keys \cup {key} /\ Goes(t, new) /\ row.att < MaxAttempt
        /\ UNCHANGED <<capture, submit, live, mints, recorded, lost, lock, sweep, mode>>
    BY <1>1 DEF ResumeRun, worldVars, auditVars
  <2>2. row.att + 1 \in 1..MaxAttempt /\ row.att + 1 \in 0..MaxAttempt /\ row.rev + 1 \in Nat
    BY <2>1, RuntimeAssumption
  <2>3. key \in Operation /\ key \in [kind: {"start", "resume"}, n: 1..MaxAttempt]
    BY <2>2 DEF Key, Operation
  <2> HIDE DEF key
  <2>4. row' \in RunRecord
    <3>1. "browser_running" \in Statuses /\ "target_probe_pending" \in Phases
      BY DEF Statuses, Phases
    <3> QED BY <2>1, <2>2, <2>3, <3>1 DEF RunRecord
  <2>5. new \in ThreadState /\ new.pc = "calling"
    BY <2>2, <2>3, IdleIsAThread DEF ThreadState
  <2> HIDE DEF new
  <2> QED BY <2>1, <2>3, <2>4, <2>5, QuietStep, BusyContinues
<1>2. CASE AdhereToRoute(t)
  <2>1. s.pc = "adhere" /\ s.out \in Outcomes \ {"none"} /\ s.rev \in Nat
        /\ UNCHANGED <<capture, submit, keys, live, mints, recorded, lost, lock, sweep, mode>>
    BY <1>0, <1>2 DEF AdhereToRoute, RInv, Answered, worldVars, auditVars, ThreadState
  <2>2. ASSUME NEW rev \in Nat, NEW action \in {"proceed", "pause"}, Adheres(t, rev, action),
               row' \in RunRecord
        PROVE  RInv'
    <3> DEFINE pc == IF action = "proceed" /\ s.out = "ready" THEN "resolve" ELSE "project"
               out == CASE action = "proceed" -> s.out
                        [] action # "proceed" /\ s.out \in {"ready", "entry"} -> "diverged"
                        [] OTHER -> "blocked"
               new == [s EXCEPT !.rev = rev, !.pc = pc, !.out = out]
    <3>1. Goes(t, new)
      BY <2>2 DEF Adheres
    <3>2. pc \in {"resolve", "project"} /\ out \in Outcomes \ {"none"} /\ (pc = "resolve" => out = "ready")
      BY <2>1 DEF Outcomes
    <3> HIDE DEF pc, out
    <3>3. new \in ThreadState /\ new.pc = pc /\ new.out = out
      BY <1>0, <2>2, <3>2 DEF ThreadState
    <3> HIDE DEF new
    <3>4. Continues(new)
      BY <3>2, <3>3, IdleIsAThread DEF Continues
    <3> QED BY <2>1, <2>2, <3>1, <3>2, <3>3, <3>4, QuietStep
  <2>3. CASE \E action \in {"proceed", "pause"} : Adheres(t, s.rev, action) /\ UNCHANGED row
    BY <2>1, <2>2, <2>3
  <2>4. CASE ReplanRunRoute(t)
    <3>1. CASE /\ row' = [row EXCEPT !.plan = 2, !.rev = @ + 1]
               /\ \E action \in {"proceed", "pause"} : Adheres(t, s.rev + 1, action)
      <4>1. row.rev + 1 \in Nat /\ s.rev + 1 \in Nat /\ 2 \in 1..2
        BY <2>1
      <4>2. row' = [row EXCEPT !.plan = 2, !.rev = row.rev + 1]
        BY <3>1
      <4>3. row' \in RunRecord
        BY <4>1, <4>2 DEF RunRecord
      <4> QED BY <2>2, <3>1, <4>1, <4>3
    <3>2. CASE Adheres(t, s.rev, "pause") /\ UNCHANGED row
      BY <2>1, <2>2, <3>2
    <3>3. CASE Goes(t, Idle) /\ UNCHANGED row
      BY <2>1, <3>3, QuietStep, IdleContinues, IdleIsAThread
    <3> QED BY <2>4, <3>1, <3>2, <3>3 DEF ReplanRunRoute
  <2> QED BY <1>2, <2>3, <2>4 DEF AdhereToRoute, DecideAdherence
<1> QED BY <1>1, <1>2

\* A capture reserves its effect, mints and returns.
LEMMA CaptureEffectSteps ==
  ASSUME RInv, NEW t \in Threads,
         ReserveCapture(t) \/ WorkerMints(t) \/ \E out \in Outcomes : CaptureReturns(t, out)
  PROVE  RInv'
<1> USE WorldIsTyped
<1> DEFINE s == thread[t]
<1>0. s \in ThreadState /\ s.rev \in Nat /\ mints \in Nat
      /\ capture \in {"absent", "pending", "failed", "unknown", "empty", "vaulted"}
  BY DEF RInv, ThreadState, WorldTypes
<1>1. CASE ReserveCapture(t)
  <2>1. UNCHANGED <<submit, keys, live, mints, recorded, lost, lock, sweep, mode>>
        /\ s.pc = "resolve" /\ s.out = "ready"
    BY <1>1 DEF ReserveCapture, RInv, Answered, worldVars, auditVars
  <2>2. CASE /\ Goes(t, [s EXCEPT !.pc = "project"]) /\ UNCHANGED <<row, capture>>
    <3> DEFINE new == [s EXCEPT !.pc = "project"]
    <3>1. new \in ThreadState /\ new.pc = "project" /\ new.out = "ready"
      BY <1>0, <2>1 DEF ThreadState
    <3>2. new.out \in Outcomes \ {"none"}
      BY <3>1 DEF Outcomes
    <3>3. Goes(t, new)
      BY <2>2
    <3> HIDE DEF new
    <3> QED BY <2>1, <2>2, <3>1, <3>2, <3>3, QuietStep, AnsweredContinues
  <2>3. CASE /\ Goes(t, [s EXCEPT !.pc = "project", !.out = "stale"]) /\ UNCHANGED <<row, capture>>
    <3> DEFINE new == [s EXCEPT !.pc = "project", !.out = "stale"]
    <3>1. "stale" \in Outcomes
      BY DEF Outcomes
    <3>2. new \in ThreadState /\ new.pc = "project" /\ new.out = "stale"
      BY <1>0, <3>1 DEF ThreadState
    <3>3. Goes(t, new)
      BY <2>3
    <3> HIDE DEF new
    <3> QED BY <2>1, <2>3, <3>1, <3>2, <3>3, QuietStep, AnsweredContinues
  <2>4. ASSUME row' = [row EXCEPT !.status = "browser_running", !.phase = "capture_reserved",
                                  !.key = CaptureKey, !.rev = @ + 1],
               NEW pc \in {"capturing", "project"}, NEW out \in {"ready", "grantless", "reserved"},
               Goes(t, [[s EXCEPT !.key = CaptureKey, !.rev = @ + 1] EXCEPT !.pc = pc, !.out = out]),
               \/ /\ pc = "capturing" /\ capture \in Reservable /\ capture' = "pending" /\ out = "ready"
               \/ /\ pc = "project" /\ capture \in Reservable /\ capture' = "failed"
               \/ /\ pc = "project" /\ capture \notin Reservable /\ UNCHANGED capture
        PROVE  RInv'
    <3> DEFINE holding == [s EXCEPT !.key = CaptureKey, !.rev = s.rev + 1]
               new == [holding EXCEPT !.pc = pc, !.out = out]
    <3>1. CaptureKey \in Operation /\ row.rev + 1 \in Nat /\ s.rev + 1 \in Nat
      BY <1>0, RuntimeAssumption DEF CaptureKey, Key, Operation
    <3>2. row' \in RunRecord
      <4>1. "browser_running" \in Statuses /\ "capture_reserved" \in Phases
        BY DEF Statuses, Phases
      <4>2. row' = [row EXCEPT !.status = "browser_running", !.phase = "capture_reserved",
                               !.key = CaptureKey, !.rev = row.rev + 1]
        BY <2>4
      <4> QED BY <3>1, <4>1, <4>2 DEF RunRecord
    <3>3. Goes(t, new)
      BY <2>4
    <3>4. holding \in ThreadState
      BY <1>0, <3>1 DEF ThreadState
    <3> HIDE DEF holding
    <3>5. out \in Outcomes \ {"none"}
      BY DEF Outcomes
    <3>6. new \in ThreadState /\ new.pc = pc /\ new.out = out
      BY <3>4, <3>5 DEF ThreadState
    <3> HIDE DEF new
    <3>7. Continues(new)
      BY <2>4, <3>5, <3>6, IdleIsAThread DEF Continues
    <3>8. /\ thread' \in [Threads -> ThreadState] /\ Answered'
          /\ thread'[t] = new /\ \A u \in Threads : u # t => thread'[u] = thread[u]
      BY <3>3, <3>7, ThreadGoes
    <3>9. CaptureIsHeld' /\ OneMint'
      <4>1. capture \in Reservable => mints = 0 /\ \A u \in Threads : thread[u].pc # "capturing"
        BY DEF RInv, CaptureIsHeld, Reservable
      <4>2. s.pc # "capturing"
        BY <2>1
      <4>3. OneMint'
        BY <2>1 DEF RInv, OneMint
      <4>4. CASE pc = "capturing" /\ capture \in Reservable /\ capture' = "pending"
        BY <2>1, <3>6, <3>8, <4>1, <4>3, <4>4 DEF CaptureIsHeld
      <4>5. CASE pc = "project" /\ capture \in Reservable /\ capture' = "failed"
        BY <2>1, <3>6, <3>8, <4>1, <4>3, <4>5 DEF CaptureIsHeld
      <4>6. CASE pc = "project" /\ UNCHANGED capture
        BY <2>1, <3>6, <3>8, <4>3, <4>6 DEF CaptureIsHeld, RInv
      <4> QED BY <2>4, <4>3, <4>4, <4>5, <4>6
    <3>10. WorldTypes'
      BY <2>1, <2>4 DEF RInv, WorldTypes
    <3> QED BY <3>2, <3>8, <3>9, <3>10 DEF RInv
  <2>5. CASE /\ row' = [row EXCEPT !.status = "browser_running", !.phase = "capture_reserved",
                                   !.key = CaptureKey, !.rev = @ + 1]
             /\ \/ /\ capture \in Reservable /\ capture' = "pending"
                   /\ Goes(t, [[s EXCEPT !.key = CaptureKey, !.rev = @ + 1] EXCEPT !.pc = "capturing"])
                \/ /\ capture \in Reservable /\ capture' = "failed"
                   /\ Goes(t, [[s EXCEPT !.key = CaptureKey, !.rev = @ + 1]
                                  EXCEPT !.pc = "project", !.out = "grantless"])
                \/ /\ capture \notin Reservable
                   /\ Goes(t, [[s EXCEPT !.key = CaptureKey, !.rev = @ + 1]
                                  EXCEPT !.pc = "project", !.out = "reserved"])
                   /\ UNCHANGED capture
    <3> DEFINE holding == [s EXCEPT !.key = CaptureKey, !.rev = @ + 1]
    <3>1. [holding EXCEPT !.pc = "capturing"] = [holding EXCEPT !.pc = "capturing", !.out = "ready"]
      <4>1. holding \in ThreadState /\ holding.out = "ready"
        <5>1. CaptureKey \in Operation /\ s.rev + 1 \in Nat
          BY <1>0, RuntimeAssumption DEF CaptureKey, Key, Operation
        <5> QED BY <1>0, <2>1, <5>1 DEF ThreadState
      <4> HIDE DEF holding
      <4> QED BY <4>1 DEF ThreadState
    <3> QED BY <2>4, <2>5, <3>1
  <2> QED BY <1>1, <2>2, <2>3, <2>5 DEF ReserveCapture
<1>2. CASE WorkerMints(t)
  <2> DEFINE new == [s EXCEPT !.refs = TRUE]
  <2>1. /\ s.pc = "capturing" /\ ~s.refs /\ mints' = mints + 1 /\ Goes(t, new)
        /\ UNCHANGED <<row, capture, submit, keys, live, recorded, lost, lock, sweep, mode>>
    BY <1>2 DEF WorkerMints, rowVars, auditVars
  <2>2. new \in ThreadState /\ new.pc = "capturing" /\ new.out = s.out /\ new.refs = TRUE
    BY <1>0, <2>1 DEF ThreadState
  <2> HIDE DEF new
  <2>3. s.out = "ready" /\ mints = 0 /\ capture = "pending"
    BY <2>1 DEF RInv, Answered, CaptureIsHeld
  <2>4. Continues(new)
    BY <2>2, <2>3, IdleIsAThread DEF Continues
  <2>5. /\ thread' \in [Threads -> ThreadState] /\ Answered'
        /\ thread'[t] = new /\ \A u \in Threads : u # t => thread'[u] = thread[u]
    BY <2>1, <2>4, ThreadGoes
  <2>6. CaptureIsHeld'
    BY <2>1, <2>2, <2>3, <2>5 DEF CaptureIsHeld, RInv
  <2>7. WorldTypes' /\ OneMint'
    <3>1. mints' = 1
      BY <2>1, <2>3
    <3> QED BY <2>1, <3>1 DEF RInv, WorldTypes, OneMint
  <2> QED BY <2>1, <2>5, <2>6, <2>7 DEF RInv
<1>3. ASSUME NEW out \in Outcomes, CaptureReturns(t, out)
      PROVE  RInv'
  <2> DEFINE new == [s EXCEPT !.pc = "project", !.out = out, !.refs = out \in FinalizeCaptured]
  <2>1. /\ s.pc = "capturing" /\ Goes(t, new) /\ capture' \in {"unknown", "empty", "vaulted"}
        /\ UNCHANGED <<row, mints, submit, keys, live, recorded, lost, lock, sweep, mode>>
    BY <1>3 DEF CaptureReturns, worldVars, auditVars
  <2>2. out # "none" /\ (out \in FinalizeCaptured) \in BOOLEAN
    <3>1. out \in {"lost", "empty"} \/ out \in FinalizeCaptured
      BY <1>3 DEF CaptureReturns
    <3>2. (out \in FinalizeCaptured) \in BOOLEAN
      OBVIOUS
    <3> QED BY <3>1, <3>2 DEF FinalizeCaptured
  <2>3. new \in ThreadState /\ new.pc = "project" /\ new.out = out
    BY <1>0, <2>2 DEF ThreadState
  <2> HIDE DEF new
  <2>4. Continues(new)
    BY <2>2, <2>3, AnsweredContinues
  <2>5. /\ thread' \in [Threads -> ThreadState] /\ Answered'
        /\ thread'[t] = new /\ \A u \in Threads : u # t => thread'[u] = thread[u]
    BY <2>1, <2>4, ThreadGoes
  <2>6. \A u \in Threads : thread'[u].pc # "capturing"
    BY <2>1, <2>3, <2>5 DEF CaptureIsHeld, RInv
  <2>7. CaptureIsHeld' /\ OneMint'
    BY <2>1, <2>6 DEF CaptureIsHeld, RInv, OneMint
  <2>8. WorldTypes'
    BY <2>1 DEF RInv, WorldTypes
  <2> QED BY <2>1, <2>5, <2>7, <2>8 DEF RInv
<1> QED BY <1>1, <1>2, <1>3

\* The projection, and the owner's submission.
LEMMA ProjectStep ==
  ASSUME RInv, NEW t \in Threads, Project(t)
  PROVE  RInv'
<1> USE WorldIsTyped
<1> DEFINE s == thread[t]
           new == [Idle EXCEPT !.pc = "release", !.sess = s.sess]
<1>0. s \in ThreadState /\ s.sess \in 0..MaxAttempt /\ s.out \in Outcomes \ {"none"} /\ s.refs \in BOOLEAN
  BY DEF RInv, ThreadState, Answered, Project
<1>1. UNCHANGED <<capture, submit, keys, live, mints, lock, sweep, mode>>
  BY DEF Project, worldVars
<1>2. new \in ThreadState /\ new.pc = "release"
  BY <1>0, IdleIsAThread DEF ThreadState
<1>3. Goes(t, Idle) \/ Goes(t, new)
  BY DEF Project
<1>4. recorded' \in BOOLEAN /\ lost' \in BOOLEAN
  <2>1. \/ UNCHANGED recorded
        \/ recorded' = (recorded \/ (s.refs /\ s.out # "unfinal"))
    BY DEF Project
  <2>2. UNCHANGED lost \/ lost' = (lost \/ s.refs)
    BY DEF Project
  <2> QED BY <1>0, <2>1, <2>2
<1>5. row' \in RunRecord
  <2>1. ASSUME NEW to \in {Projected(s.out)} \cup {<<"configuration_required", "recoverable">>},
               row' = [row EXCEPT !.status = to[1], !.phase = to[2], !.rev = @ + 1]
        PROVE  row' \in RunRecord
    <3>1. to \in {<<"waiting_for_hitl", "challenge_pending">>, <<"blocked", "blocked">>,
                  <<"configuration_required", "recoverable">>, <<"failed", "failed">>,
                  <<"browser_running", "target_probe_pending">>, <<"browser_running", "entry_reached">>,
                  <<"browser_running", "credential_ready">>, <<"completed", "completed">>,
                  <<"configuration_required", "effect_reconciliation">>}
      BY <1>0 DEF Projected, Outcomes
    <3>2. to[1] \in Statuses /\ to[2] \in Phases
      BY <3>1 DEF Statuses, Phases, AwaitingOwner
    <3> HIDE <3>1
    <3> QED BY <2>1, <3>2, RecordAt
  <2>2. UNCHANGED row \/ \E to \in {Projected(s.out)} \cup {<<"configuration_required", "recoverable">>} :
                            row' = [row EXCEPT !.status = to[1], !.phase = to[2], !.rev = @ + 1]
    BY DEF Project
  <2> QED BY <2>1, <2>2
<1> HIDE DEF new
<1> QED BY <1>1, <1>2, <1>3, <1>4, <1>5, QuietStep, BusyContinues, IdleContinues, IdleIsAThread

LEMMA OwnerSteps ==
  ASSUME RInv, NEW t \in Threads, OwnerSubmits(t) \/ SubmissionEnds(t)
  PROVE  RInv'
<1> USE WorldIsTyped
<1> DEFINE s == thread[t]
<1>0. s \in ThreadState
  BY DEF RInv
<1>1. CASE OwnerSubmits(t)
  <2> DEFINE new == [Idle EXCEPT !.pc = "submitting", !.out = row.phase]
  <2>1. row' = [row EXCEPT !.phase = "submission_reserved", !.key = Key("submit", 1), !.rev = row.rev + 1]
        /\ row.phase \in AwaitingOwner
        /\ UNCHANGED <<capture, keys, live, mints, recorded, lost, sweep, mode>>
    BY <1>1 DEF OwnerSubmits, OwnerWindow, worldVars, auditVars
  <2>2. row' \in RunRecord
    <3>1. Key("submit", 1) \in Operation /\ row.rev + 1 \in Nat
      BY RuntimeAssumption DEF Key, Operation
    <3>2. "submission_reserved" \in Phases
      BY DEF Phases
    <3> QED BY <2>1, <3>1, <3>2 DEF RunRecord
  <2>3. new \in ThreadState /\ new.pc = "submitting" /\ new.out = row.phase
    BY <2>1, IdleIsAThread DEF ThreadState
  <2>4. \/ submit' = "pending" /\ lock' = t /\ Goes(t, new)
        \/ UNCHANGED <<submit, lock, thread>>
    BY <1>1 DEF OwnerSubmits
  <2> HIDE DEF new
  <2>5. Continues(new)
    BY <2>1, <2>3, IdleIsAThread DEF Continues
  <2>6. CASE submit' = "pending" /\ lock' = t /\ Goes(t, new)
    BY <2>1, <2>2, <2>3, <2>5, <2>6, QuietStep
  <2>7. CASE UNCHANGED <<submit, lock, thread>>
    <3>1. WorldTypes'
      BY <2>1, <2>7 DEF RInv, WorldTypes
    <3> QED BY <2>1, <2>2, <2>7, <3>1, ThreadsStay DEF RInv
  <2> QED BY <2>4, <2>6, <2>7
<1>2. CASE SubmissionEnds(t)
  <2> DEFINE new == [Idle EXCEPT !.pc = "release", !.sess = row.sess]
  <2>1. UNCHANGED <<capture, keys, live, mints, recorded, lost, sweep, mode>>
        /\ lock' = "free" /\ submit' \in {"failed", "completed"}
        /\ s.out \in AwaitingOwner
    BY <1>2 DEF SubmissionEnds, RInv, Answered, worldVars, auditVars
  <2>2. new \in ThreadState /\ new.pc = "release"
    BY IdleIsAThread DEF ThreadState
  <2>3. Goes(t, Idle) \/ Goes(t, new)
    BY <1>2 DEF SubmissionEnds
  <2>4. row' \in RunRecord
    <3>1. CASE row' = [row EXCEPT !.phase = s.out, !.rev = @ + 1]
      <4>1. row.rev + 1 \in Nat /\ s.out \in Phases
        BY <2>1 DEF Phases
      <4>2. row' = [row EXCEPT !.phase = s.out, !.rev = row.rev + 1]
        BY <3>1
      <4> QED BY <4>1, <4>2 DEF RunRecord
    <3>2. ASSUME NEW to \in {<<"credentials_ready", "credential_ready">>, <<"completed", "completed">>,
                             <<"configuration_required", "recoverable">>}, Record(to[1], to[2])
          PROVE  row' \in RunRecord
      <4>1. to[1] \in Statuses /\ to[2] \in Phases
        BY DEF Statuses, Phases, AwaitingOwner
      <4> QED BY <3>2, <4>1, RecordTyped
    <3> QED BY <1>2, <3>1, <3>2 DEF SubmissionEnds
  <2> HIDE DEF new
  <2> QED BY <2>1, <2>2, <2>3, <2>4, QuietStep, BusyContinues, IdleContinues, IdleIsAThread
<1> QED BY <1>1, <1>2

\* The sweeps, and a process that dies.
LEMMA SweepSteps ==
  ASSUME RInv, SweepBegins \/ SweepStep
  PROVE  RInv'
<1> USE WorldIsTyped, IdleIsAThread
<1>1. sweep \in SweepState
  BY DEF RInv, WorldTypes
<1>2. UNCHANGED <<capture, submit, keys, mints, recorded, lost, lock, thread, mode>>
  BY DEF SweepBegins, SweepReads, ReconcileIdle, ReconcileStranded, SweepStep, PauseStaleRun,
         StopCanonicalBrowser, ReconcileOneStranded, SweepReleases, Stops, rowVars, worldVars, auditVars
<1>3. /\ \/ UNCHANGED row
         \/ Record("failed", "failed") \/ Record("configuration_required", "recoverable")
         \/ Record("configuration_required", "session_lost")
      /\ live' \subseteq 1..MaxAttempt
  BY DEF SweepBegins, SweepReads, ReconcileIdle, ReconcileStranded, SweepStep, PauseStaleRun,
         StopCanonicalBrowser, ReconcileOneStranded, SweepReleases, Stops, rowVars, worldVars, auditVars
<1>4. row' \in RunRecord
  <2>1. {"failed", "configuration_required"} \subseteq Statuses
        /\ {"failed", "recoverable", "session_lost"} \subseteq Phases
    BY DEF Statuses, Phases
  <2> QED BY <1>3, <2>1, RecordTyped
<1>5. sweep' \in SweepState
  <2>1. \/ sweep' = NoSweep \/ sweep' = [NoSweep EXCEPT !.pc = "stranded"]
        \/ sweep' = [NoSweep EXCEPT !.pc = "gone"]
        \/ \E pc \in {"stale", "stop"} : sweep' = [pc |-> pc, rev |-> row.rev, sess |-> 0]
        \/ sweep' = [pc |-> "release", rev |-> 0, sess |-> row.sess]
    BY DEF SweepBegins, SweepReads, ReconcileIdle, ReconcileStranded, SweepStep, PauseStaleRun,
           StopCanonicalBrowser, ReconcileOneStranded, SweepReleases, Stops
  <2> QED BY <2>1, RuntimeAssumption DEF SweepState
<1>6. WorldTypes'
  BY <1>2, <1>3, <1>5 DEF RInv, WorldTypes
<1> QED BY <1>2, <1>4, <1>6, ThreadsStay DEF RInv

LEMMA CrashStep ==
  ASSUME RInv, ProcessDies
  PROVE  RInv'
<1>1. UNCHANGED <<row, capture, submit, keys, live, mints, recorded, lost, mode>>
      /\ thread' = [t \in Threads |-> Idle] /\ lock' = "free" /\ sweep' = NoSweep
  BY DEF ProcessDies, rowVars, worldVars, auditVars
<1>2. WorldTypes'
  BY <1>1, IdleIsAThread DEF RInv, WorldTypes
<1>3. thread' \in [Threads -> ThreadState] /\ \A t \in Threads : thread'[t] = Idle
  BY <1>1, IdleIsAThread
<1>4. Answered'
  BY <1>3, IdleIsAThread DEF Answered
<1>5. CaptureIsHeld' /\ OneMint'
  BY <1>1, <1>3, IdleIsAThread DEF RInv, CaptureIsHeld, OneMint
<1> QED BY <1>1, <1>2, <1>3, <1>4, <1>5 DEF RInv

LEMMA RuntimeStep ==
  ASSUME RInv, [RNext]_runtimeVars
  PROVE  RInv'
<1>1. CASE RNext
  <2>1. ASSUME NEW t \in Threads,
               \/ ThreadStep(t) \/ WorkerMints(t) \/ ReplayCreate(t) \/ RecoverPristine(t)
               \/ RetryBrowserRun(t) \/ ResumeRun(t) \/ OwnerSubmits(t)
        PROVE  RInv'
    BY <2>1, BeginSteps, DriveThreadSteps, ResumeSteps, CaptureEffectSteps, ProjectStep, OwnerSteps
    DEF ThreadStep
  <2> QED BY <1>1, <2>1, SweepSteps, CrashStep DEF RNext
<1>2. CASE UNCHANGED runtimeVars
  <2>1. UNCHANGED <<row, capture, submit, keys, live, mints, recorded, lost, lock, thread, sweep, mode>>
    BY <1>2 DEF runtimeVars, rowVars, worldVars, auditVars
  <2>2. WorldTypes'
    BY <2>1 DEF RInv, WorldTypes
  <2> QED BY <2>1, <2>2, ThreadsStay DEF RInv
<1> QED BY <1>1, <1>2

\* The run-scoped capture effect (credential-capture:v1 of _capture_credentials): however
\* replays, retries, sweeps and crashes interleave, the vendor issues at most one key.
THEOREM OneKeyIsMinted == RSpec => [](RTypeOK /\ OneMint)
<1>1. RInit => RInv
  BY RuntimeInit
<1>2. RInv /\ [RNext]_runtimeVars => RInv'
  BY RuntimeStep
<1>3. RInv => RTypeOK /\ OneMint
  BY RuntimeTypes DEF RInv
<1> QED BY <1>1, <1>2, <1>3, PTL DEF RSpec

-----------------------------------------------------------------------------
(* CanonicalRuntime without replays: whose attempt the row is in.             *)

Starters == {"reserve", "refused", "starting"}
Seeing == {"adhere", "resolve", "capturing", "project"}
Driven == Seeing \cup {"calling"}
Attempting == Driven \cup {"starting", "launching", "bound"}
Runnable == {"start", "resume"}

\* Nobody writes the row beside a thread that starts an attempt, from the retry's check
\* (or the creation of the run) to the binding of the session; nor while the owner's key
\* is judged.
Starts(t, s) ==
    /\ s.pc \in Starters => /\ row.status \in {"route_selected", "failed", "configuration_required"}
                            /\ lock = t \/ row.status = "route_selected"
    /\ s.pc = "reserve" => s.att \in {0, row.att + 1}
    /\ s.pc = "starting" => row.key = Key("start", row.att) /\ row.att = s.att
    /\ s.pc = "submitting" => lock = t /\ row.status # "route_selected"

\* A thread drives one attempt, under the key of that attempt, and what it saw last it
\* saw while the row was in it.
DrivesOwn(s) ==
    /\ s.pc \in Attempting => s.att \in 1..row.att
    /\ s.pc = "reserve" => s.sess = 0
    /\ s.pc = "starting" => s.sess \in {0, s.att}
    /\ s.pc \in {"launching", "bound"} => s.sess = s.att
    /\ s.pc \in Driven => s.sess # 0
    /\ s.pc \in Driven => \/ s.key.kind \in Runnable /\ s.key.n = s.att
                          \/ s.pc \in {"capturing", "project"} /\ s.key = CaptureKey
    /\ s.pc \in Seeing => s.rev \in 1..row.rev /\ (s.rev = row.rev => s.att = row.att)

\* The row's operation is one of its attempt, and a running session too.
RowIsItsAttempt ==
    /\ row.rev >= 1 /\ (row.key.kind \in Runnable => row.key.n = row.att)
    /\ row.phase = "running" => row.key.kind \in Runnable /\ row.sess = row.att
    /\ row.status = "waiting_for_hitl" => row.sess # 0

\* One thread starts, and one drives an attempt.
OneStarter ==
    \A t, u \in Threads : thread[t].pc \in Starters /\ thread[u].pc \in Starters => t = u
OneDriver ==
    \A t, u \in Threads : thread[t].pc \in Attempting /\ thread[u].pc \in Attempting
                          /\ thread[t].att = thread[u].att => t = u

\* Whoever starts an attempt while another call launches its thread holds the lock.
StartsBesideLaunch ==
    \A t, u \in Threads : thread[t].pc \in Starters /\ thread[u].pc = "launching" => lock = t

AttemptInv ==
    /\ RowIsItsAttempt /\ OneStarter /\ OneDriver /\ StartsBesideLaunch
    /\ \A t \in Threads : Starts(t, thread[t]) /\ DrivesOwn(thread[t])

\* While the row waits for its owner no thread's answer is one that it takes, a
\* submission is in nobody else's hands, and a session whose thread is about to start
\* is the row's.
Apart(s) ==
    /\ OwnerWindow => /\ s.pc \in Seeing => s.rev # row.rev
                      /\ s.pc = "calling" => ~(row.key = s.key /\ row.sess = s.sess)
    /\ s.pc = "submitting" =>
          row.status = "browser_running" /\ row.phase = "submission_reserved" /\ row.key = Key("submit", 1)
    /\ s.pc = "launching" =>
          row.status = "browser_running" /\ row.phase = "running" /\ row.sess = s.sess

\* The idle sweep acts on a parked run that nobody attends.
SweptIsParked == sweep.pc # "gone" /\ (sweep.pc = "stranded" => Parked /\ Unattended)

\* What the stale sweep read is no row that a call has just bound.
SweptIsOld ==
    sweep.pc = "stale" => /\ sweep.rev <= row.rev
                          /\ sweep.rev = row.rev => \A t \in Threads : thread[t].pc # "launching"

WindowInv == SweptIsParked /\ SweptIsOld /\ \A t \in Threads : Apart(thread[t])

OInv ==
    /\ RInv
    /\ ~mode.replay => AttemptInv
    /\ ~mode.replay /\ ~mode.boot => WindowInv

\* What a step that writes the row by Record leaves as it was.
LEMMA RecordKeeps ==
  ASSUME RInv, RowIsItsAttempt, NEW status, NEW phase, Record(status, phase),
         phase # "running", status # "waiting_for_hitl"
  PROVE  /\ RowIsItsAttempt' /\ row'.status = status /\ row'.phase = phase
         /\ row'.rev = row.rev + 1 /\ row'.att = row.att /\ row'.key = row.key /\ row'.sess = row.sess
<1>1. /\ row'.status = status /\ row'.phase = phase
      /\ row'.rev = row.rev + 1 /\ row'.att = row.att /\ row'.key = row.key /\ row'.sess = row.sess
  BY DEF RInv, RunRecord, Record
<1>2. row.rev \in Nat
  BY DEF RInv, RunRecord
<1> QED BY <1>1, <1>2 DEF RowIsItsAttempt

\* A thread that starts an attempt is alone with the row, and under a free lock nobody
\* starts one of a run that has begun.
LEMMA StarterIsAlone ==
  ASSUME AttemptInv, NEW t \in Threads, thread[t].pc \in Starters, NEW u \in Threads, u # t
  PROVE  thread[u].pc \notin Starters /\ thread[u].pc # "submitting"
BY DEF AttemptInv, OneStarter, Starts

LEMMA NobodyStarts ==
  ASSUME AttemptInv, row.status \notin {"route_selected"}, NEW u \in Threads,
         lock = "free" \/ row.status \notin {"failed", "configuration_required"}
  PROVE  thread[u].pc \notin Starters
BY RuntimeAssumption DEF AttemptInv, Starts

LEMMA NobodySubmits ==
  ASSUME AttemptInv, lock = "free", NEW u \in Threads
  PROVE  thread[u].pc # "submitting"
BY RuntimeAssumption DEF AttemptInv, Starts

LEMMA RestsAttempt ==
  ASSUME NEW t, NEW s, s.pc \in {"idle", "release"}
  PROVE  /\ Starts(t, s)' /\ DrivesOwn(s)' /\ s.pc # "launching"
         /\ s.pc \notin Starters /\ s.pc \notin Attempting
BY DEF Starts, DrivesOwn, Starters, Attempting, Driven, Seeing

\* One thread moves; the row stays, or it moves on while nobody else starts or submits.
LEMMA AttemptFrame ==
  ASSUME RInv, AttemptInv, NEW t \in Threads, NEW s, Goes(t, s),
         RowIsItsAttempt', Starts(t, s)', DrivesOwn(s)',
         s.pc \in Starters => \/ thread[t].pc \in Starters /\ lock' = lock
                              \/ lock' = t /\ \A u \in Threads : thread[u].pc \notin Starters,
         s.pc = "launching" => thread[t].pc \in Starters,
         s.pc \in Attempting => \/ thread[t].pc \in Attempting /\ s.att = thread[t].att
                                \/ s.att = row.att + 1,
         row' = row \/ (row'.rev > row.rev /\ row'.att >= row.att /\ row' \in RunRecord),
         \/ row' = row /\ lock' \in {lock, Holds(t)}
         \/ \A u \in Threads : u # t => thread[u].pc \notin Starters /\ thread[u].pc # "submitting"
         \/ /\ thread[t].pc = "launching" /\ row'.status = "failed"
            /\ row'.att = row.att /\ row'.key = row.key /\ lock' \in {lock, Holds(t)}
  PROVE  AttemptInv'
<1>1. thread' = [thread EXCEPT ![t] = s] /\ thread \in [Threads -> ThreadState]
  BY DEF Goes, RInv
<1>2. thread'[t] = s /\ \A u \in Threads : u # t => thread'[u] = thread[u]
  BY <1>1
<1>3. row.att \in Nat /\ row.rev \in Nat /\ row'.att \in Nat /\ row'.rev \in Nat
  BY RuntimeAssumption DEF RInv, RunRecord
<1>4. \A u \in Threads : thread[u].pc \in Attempting => thread[u].att \in Nat /\ thread[u].att < row.att + 1
  BY <1>3 DEF AttemptInv, DrivesOwn
<1>5. OneStarter'
  BY <1>2 DEF AttemptInv, OneStarter
<1>6. OneDriver'
  <2>1. SUFFICES ASSUME NEW u \in Threads, NEW v \in Threads, thread'[u].pc \in Attempting,
                        thread'[v].pc \in Attempting, thread'[u].att = thread'[v].att
                 PROVE  u = v
    BY DEF OneDriver
  <2> QED BY <1>2, <1>3, <1>4, <2>1 DEF AttemptInv, OneDriver
<1>7. ASSUME NEW u \in Threads, u # t
      PROVE  Starts(u, thread[u])'
  <2>1. thread'[u] = thread[u] /\ Starts(u, thread[u])
    BY <1>2, <1>7 DEF AttemptInv
  <2>2. CASE row' = row /\ lock' \in {lock, Holds(t)}
    BY <1>7, <2>1, <2>2 DEF Starts, Holds
  <2>3. CASE thread[u].pc \notin Starters /\ thread[u].pc # "submitting"
    BY <2>1, <2>3 DEF Starts, Starters
  <2>4. CASE /\ thread[t].pc = "launching" /\ row'.status = "failed"
             /\ row'.att = row.att /\ row'.key = row.key /\ lock' \in {lock, Holds(t)}
    <3>1. thread[u].pc \in Starters \/ thread[u].pc = "submitting" => lock' = u
      BY <1>7, <2>1, <2>4 DEF AttemptInv, StartsBesideLaunch, Starts, Holds
    <3> QED BY <2>1, <2>4, <3>1 DEF Starts, Starters
  <2> QED BY <1>7, <2>2, <2>3, <2>4
<1>8. ASSUME NEW u \in Threads, u # t
      PROVE  DrivesOwn(thread[u])'
  <2>1. thread'[u] = thread[u] /\ DrivesOwn(thread[u])
    BY <1>2, <1>8 DEF AttemptInv
  <2>2. CASE row' = row
    BY <2>1, <2>2 DEF DrivesOwn
  <2>3. CASE row'.rev > row.rev /\ row'.att >= row.att
    BY <1>3, <2>1, <2>3 DEF DrivesOwn
  <2> QED BY <2>2, <2>3
<1>9. StartsBesideLaunch'
  <2>1. SUFFICES ASSUME NEW u \in Threads, NEW v \in Threads, thread'[u].pc \in Starters,
                        thread'[v].pc = "launching"
                 PROVE  lock' = u
    BY DEF StartsBesideLaunch
  <2>2. thread'[u].pc # "launching"
    BY <2>1 DEF Starters
  <2>3. CASE u = t
    BY <1>2, <2>1, <2>2, <2>3 DEF AttemptInv, StartsBesideLaunch
  <2>4. CASE u # t
    <3>1. thread[u].pc \in Starters /\ lock' \in {lock, Holds(t)}
      BY <1>2, <2>1, <2>4
    <3>2. lock = u
      <4>1. CASE v # t
        BY <1>2, <2>1, <3>1, <4>1 DEF AttemptInv, StartsBesideLaunch
      <4>2. CASE v = t
        BY <1>2, <2>1, <2>4, <3>1, <4>2 DEF AttemptInv, OneStarter
      <4> QED BY <4>1, <4>2
    <3> QED BY <2>4, <3>1, <3>2 DEF Holds
  <2> QED BY <2>3, <2>4
<1> QED BY <1>2, <1>5, <1>6, <1>7, <1>8, <1>9 DEF AttemptInv

\* No thread moves; a sweep or an operator writes the row of a run that nobody starts.
LEMMA AttemptStays ==
  ASSUME RInv, AttemptInv, UNCHANGED <<thread, lock>>, RowIsItsAttempt',
         \/ row' = row
         \/ /\ row'.rev > row.rev /\ row'.att = row.att /\ row' \in RunRecord
            /\ row'.status # "route_selected"
            /\ \A u \in Threads : thread[u].pc \notin Starters
  PROVE  AttemptInv'
<1>1. OneStarter' /\ OneDriver' /\ StartsBesideLaunch'
  BY DEF AttemptInv, OneStarter, OneDriver, StartsBesideLaunch
<1>2. row.att \in Nat /\ row.rev \in Nat /\ row'.att \in Nat /\ row'.rev \in Nat
  BY RuntimeAssumption DEF RInv, RunRecord
<1>3. ASSUME NEW u \in Threads
      PROVE  Starts(u, thread[u])' /\ DrivesOwn(thread[u])'
  <2>1. thread'[u] = thread[u] /\ Starts(u, thread[u]) /\ DrivesOwn(thread[u])
    BY DEF AttemptInv
  <2>2. Starts(u, thread[u])'
    BY <2>1 DEF Starts, Starters
  <2>3. DrivesOwn(thread[u])'
    BY <1>2, <2>1 DEF DrivesOwn
  <2> QED BY <2>2, <2>3
<1> QED BY <1>1, <1>3 DEF AttemptInv

\* A thread that ends, or has only its session left to release.
LEMMA AttemptEnds ==
  ASSUME RInv, AttemptInv, NEW t \in Threads, NEW s, Goes(t, s), s.pc \in {"idle", "release"},
         RowIsItsAttempt',
         row' = row \/ (row'.rev > row.rev /\ row'.att >= row.att /\ row' \in RunRecord),
         \/ row' = row /\ lock' \in {lock, Holds(t)}
         \/ \A u \in Threads : u # t => thread[u].pc \notin Starters /\ thread[u].pc # "submitting"
         \/ /\ thread[t].pc = "launching" /\ row'.status = "failed"
            /\ row'.att = row.att /\ row'.key = row.key /\ lock' \in {lock, Holds(t)}
  PROVE  AttemptInv'
BY RestsAttempt, AttemptFrame

LEMMA AttemptOfRetry ==
  ASSUME RInv, AttemptInv, RInv', NEW t \in Threads, RetryBrowserRun(t)
  PROVE  AttemptInv'
<1>1. /\ lock = "free" /\ row.status \in {"failed", "configuration_required"}
      /\ \A u \in Threads : thread[u].pc \notin Starters /\ thread[u].pc # "submitting"
  BY NobodyStarts, NobodySubmits DEF RetryBrowserRun
<1>2. /\ row \in RunRecord /\ row.rev \in Nat /\ row.att \in Nat /\ row' \in RunRecord
  BY RuntimeAssumption DEF RInv, RunRecord
<1>3. CASE OpensOwnerWindow /\ UNCHANGED <<lock, thread>>
  <2>1. /\ row'.rev = row.rev + 1 /\ row'.att = row.att /\ row'.key = row.key
        /\ row'.phase = "credential_ready" /\ row'.status = "browser_running"
    BY <1>2, <1>3 DEF OpensOwnerWindow, RunRecord
  <2>2. RowIsItsAttempt'
    BY <1>2, <2>1 DEF AttemptInv, RowIsItsAttempt
  <2> QED BY <1>1, <1>2, <1>3, <2>1, <2>2, AttemptStays
<1>4. CASE /\ lock' = t /\ UNCHANGED row
           /\ Goes(t, [Idle EXCEPT !.pc = "reserve", !.att = row.att + 1])
  <2>0. PICK s : s = [Idle EXCEPT !.pc = "reserve", !.att = row.att + 1]
    OBVIOUS
  <2>1. s.pc = "reserve" /\ s.att = row.att + 1 /\ s.sess = 0
    BY <2>0 DEF Idle
  <2>2. Starts(t, s)' /\ DrivesOwn(s)'
    BY <1>1, <1>4, <2>1 DEF Starts, DrivesOwn, Starters, Attempting, Driven, Seeing
  <2>3. RowIsItsAttempt' /\ s.pc \notin Attempting
    BY <1>4, <2>1 DEF AttemptInv, RowIsItsAttempt, Attempting, Driven, Seeing
  <2>4. Goes(t, s)
    BY <1>4, <2>0
  <2> QED BY <1>1, <1>4, <2>1, <2>2, <2>3, <2>4, AttemptFrame
<1> QED BY <1>3, <1>4 DEF RetryBrowserRun

LEMMA AttemptOfReserve ==
  ASSUME RInv, AttemptInv, RInv', NEW t \in Threads, ReserveStart(t)
  PROVE  AttemptInv'
<1> DEFINE att == IF thread[t].att = 0 THEN row.att + 1 ELSE thread[t].att
           key == Key("start", att)
<1>1. /\ thread[t].pc = "reserve" /\ thread[t].pc \in Starters
      /\ \A u \in Threads : u # t => thread[u].pc \notin Starters /\ thread[u].pc # "submitting"
  BY StarterIsAlone DEF ReserveStart, Starters
<1>2. /\ row \in RunRecord /\ row.rev \in Nat /\ row.att \in Nat /\ row' \in RunRecord
      /\ thread[t] \in ThreadState /\ att = row.att + 1
  <2>1. thread[t].att \in {0, row.att + 1}
    BY <1>1 DEF AttemptInv, Starts
  <2> QED BY <2>1, RuntimeAssumption DEF RInv, RunRecord
<1>3. key.kind = "start" /\ key.n = att
  BY DEF Key
<1>4. /\ row.status \in {"route_selected", "failed", "configuration_required"}
      /\ lock = t \/ row.status = "route_selected"
  BY <1>1 DEF AttemptInv, Starts
<1>5. CASE /\ row' = [row EXCEPT !.phase = "browser_starting", !.key = key, !.att = att, !.rev = @ + 1]
           /\ Goes(t, [thread[t] EXCEPT !.pc = "starting", !.att = att, !.key = key])
           /\ UNCHANGED lock
  <2>0. PICK s : s = [thread[t] EXCEPT !.pc = "starting", !.att = att, !.key = key]
    OBVIOUS
  <2>1. s.pc = "starting" /\ s.att = att /\ s.sess = thread[t].sess
    BY <1>2, <2>0 DEF ThreadState
  <2>2. /\ row'.rev = row.rev + 1 /\ row'.att = att /\ row'.key = key
        /\ row'.phase = "browser_starting" /\ row'.status = row.status
    BY <1>2, <1>5 DEF RunRecord
  <2>3. thread[t].sess = 0
    BY <1>1 DEF AttemptInv, DrivesOwn
  <2>4. Goes(t, s)
    BY <1>5, <2>0
  <2>5. Starts(t, s)'
    BY <1>4, <1>5, <2>1, <2>2 DEF Starts, Starters
  <2>6. DrivesOwn(s)'
    BY <1>2, <2>1, <2>2, <2>3 DEF DrivesOwn, Attempting, Driven, Seeing
  <2>7. RowIsItsAttempt'
    BY <1>2, <1>3, <1>4, <2>2 DEF AttemptInv, RowIsItsAttempt
  <2> HIDE DEF att
  <2> QED BY <1>1, <1>2, <1>5, <2>1, <2>2, <2>4, <2>5, <2>6, <2>7, AttemptFrame
<1>6. CASE /\ row' = [row EXCEPT !.phase = "browser_starting", !.key = key, !.att = att, !.rev = @ + 1]
           /\ Goes(t, [thread[t] EXCEPT !.pc = "refused"])
           /\ UNCHANGED lock
  <2>0. PICK s : s = [thread[t] EXCEPT !.pc = "refused"]
    OBVIOUS
  <2>1. s.pc = "refused" /\ Goes(t, s)
    BY <1>2, <1>6, <2>0 DEF ThreadState
  <2>2. /\ row'.rev = row.rev + 1 /\ row'.att = att /\ row'.key = key
        /\ row'.phase = "browser_starting" /\ row'.status = row.status
    BY <1>2, <1>6 DEF RunRecord
  <2>3. RowIsItsAttempt'
    BY <1>2, <1>3, <1>4, <2>2 DEF AttemptInv, RowIsItsAttempt
  <2>4. Starts(t, s)' /\ DrivesOwn(s)' /\ s.pc \notin Attempting
    BY <1>4, <1>6, <2>1, <2>2 DEF Starts, DrivesOwn, Starters, Attempting, Driven, Seeing
  <2>5. row'.rev > row.rev /\ row'.att >= row.att
    BY <1>2, <2>2
  <2> HIDE DEF att
  <2> QED BY <1>1, <1>2, <1>6, <2>1, <2>3, <2>4, <2>5, AttemptFrame
<1>7. CASE Record("configuration_required", "recoverable") /\ Goes(t, Idle)
  <2>1. RowIsItsAttempt' /\ row'.rev = row.rev + 1 /\ row'.att = row.att
    BY <1>7, RecordKeeps DEF AttemptInv
  <2> QED BY <1>1, <1>2, <1>7, <2>1, IdleIsAThread, AttemptEnds
<1> QED BY <1>5, <1>6, <1>7 DEF ReserveStart

LEMMA AttemptOfStart ==
  ASSUME RInv, AttemptInv, RInv', NEW t \in Threads,
         \/ RefuseStart(t) \/ SessionOpens(t) \/ BindSession(t)
         \/ StartFails(t) /\ thread[t].pc = "starting"
  PROVE  AttemptInv'
<1>1. /\ thread[t].pc \in Starters /\ (~RefuseStart(t) => thread[t].pc = "starting")
      /\ thread[t].pc = "starting" => thread[t].pc \in Attempting
      /\ \A u \in Threads : u # t => thread[u].pc \notin Starters /\ thread[u].pc # "submitting"
  BY StarterIsAlone DEF RefuseStart, SessionOpens, BindSession, StartFails, Starters, Attempting
<1>2. /\ row \in RunRecord /\ row.rev \in Nat /\ row.att \in Nat /\ row' \in RunRecord
      /\ thread[t] \in ThreadState
  BY RuntimeAssumption DEF RInv, RunRecord
<1>3. Starts(t, thread[t]) /\ DrivesOwn(thread[t]) /\ RowIsItsAttempt
  BY DEF AttemptInv
<1>4. CASE SessionOpens(t)
  <2>0. PICK s : s = [thread[t] EXCEPT !.sess = thread[t].att]
    OBVIOUS
  <2>1. /\ s.pc = "starting" /\ s.att = thread[t].att /\ s.sess = s.att
        /\ thread[t].pc = "starting"
    BY <1>2, <1>4, <2>0 DEF ThreadState, SessionOpens
  <2>2. Goes(t, s) /\ row' = row /\ lock' = lock
    BY <1>4, <2>0 DEF SessionOpens, rowVars
  <2>3. Starts(t, s)'
    BY <1>1, <1>3, <2>1, <2>2 DEF Starts
  <2>4. DrivesOwn(s)'
    BY <1>1, <1>3, <2>1, <2>2 DEF DrivesOwn, Attempting, Driven, Seeing
  <2>5. RowIsItsAttempt'
    BY <1>3, <2>2 DEF RowIsItsAttempt
  <2> QED BY <1>1, <2>1, <2>2, <2>3, <2>4, <2>5, AttemptFrame
<1>5. CASE BindSession(t)
  <2>0. PICK s : s = [thread[t] EXCEPT !.pc = "launching"]
    OBVIOUS
  <2>1. /\ s.pc = "launching" /\ s.att = thread[t].att /\ s.sess = thread[t].sess
        /\ thread[t].pc = "starting"
    BY <1>2, <1>5, <2>0 DEF ThreadState, BindSession
  <2>2. /\ Goes(t, s) /\ thread[t].sess # 0
        /\ row' = [row EXCEPT !.status = "browser_running", !.phase = "running",
                              !.sess = thread[t].sess, !.rev = @ + 1]
    BY <1>5, <2>0 DEF BindSession
  <2>3. /\ row'.status = "browser_running" /\ row'.sess = thread[t].sess /\ row'.rev = row.rev + 1
        /\ row'.att = row.att /\ row'.key = row.key
    BY <1>2, <2>2 DEF RunRecord
  <2>4. thread[t].sess = row.att /\ thread[t].att = row.att /\ row.key = Key("start", row.att)
    BY <1>1, <1>3, <2>1, <2>2 DEF Starts, DrivesOwn
  <2>5. row.key.kind = "start" /\ row.key.n = row.att
    BY <2>4 DEF Key
  <2>6. RowIsItsAttempt'
    BY <1>2, <1>3, <2>3, <2>4, <2>5 DEF RowIsItsAttempt, Runnable
  <2>7. Starts(t, s)' /\ s.pc \notin Starters
    BY <2>1 DEF Starts, Starters
  <2>8. DrivesOwn(s)'
    BY <1>1, <1>3, <2>1, <2>3, <2>4 DEF DrivesOwn, Attempting, Driven, Seeing
  <2>9. row'.rev > row.rev /\ row'.att >= row.att
    BY <1>2, <2>3
  <2> QED BY <1>1, <1>2, <2>1, <2>2, <2>6, <2>7, <2>8, <2>9, AttemptFrame
<1>6. CASE StartFails(t) \/ RefuseStart(t)
  <2>1. PICK status \in {"failed", "configuration_required"}, phase \in {"recoverable", "effect_reconciliation"} :
           Record(status, phase)
    BY <1>6 DEF StartFails, RefuseStart
  <2>2. RowIsItsAttempt' /\ row'.rev = row.rev + 1 /\ row'.att = row.att
    BY <1>3, <2>1, RecordKeeps
  <2> QED BY <1>1, <1>2, <1>6, <2>2, IdleIsAThread, AttemptEnds DEF StartFails, RefuseStart
<1> QED BY <1>4, <1>5, <1>6

\* The thread starts, or it cannot: a call that launches it may find another attempt
\* under way, whose starter holds the lock.
LEMMA AttemptOfLaunch ==
  ASSUME RInv, AttemptInv, RInv', NEW t \in Threads, thread[t].pc = "launching",
         ThreadStarts(t) \/ StartFails(t)
  PROVE  AttemptInv'
<1>1. /\ row \in RunRecord /\ row.rev \in Nat /\ row.att \in Nat /\ row' \in RunRecord
      /\ thread[t] \in ThreadState /\ DrivesOwn(thread[t]) /\ RowIsItsAttempt
      /\ thread[t].pc \in Attempting
  BY RuntimeAssumption DEF RInv, RunRecord, AttemptInv, Attempting
<1>2. CASE ThreadStarts(t)
  <2>0. PICK s : s = [thread[t] EXCEPT !.pc = "bound"]
    OBVIOUS
  <2>1. /\ s.pc = "bound" /\ s.att = thread[t].att /\ s.sess = thread[t].sess
        /\ s.pc \notin Starters
    BY <1>1, <2>0 DEF ThreadState, Starters
  <2>2. Goes(t, s) /\ row' = row /\ lock' = Holds(t)
    BY <1>2, <2>0 DEF ThreadStarts, rowVars
  <2>3. Starts(t, s)' /\ DrivesOwn(s)' /\ RowIsItsAttempt'
    BY <1>1, <2>1, <2>2 DEF Starts, DrivesOwn, Starters, RowIsItsAttempt, Attempting, Driven, Seeing
  <2> QED BY <1>1, <2>1, <2>2, <2>3, AttemptFrame
<1>3. CASE StartFails(t)
  <2>1. Record("failed", "recoverable") /\ Goes(t, Idle) /\ lock' = Holds(t)
    BY <1>3 DEF StartFails
  <2>2. /\ RowIsItsAttempt' /\ row'.rev = row.rev + 1 /\ row'.att = row.att /\ row'.key = row.key
        /\ row'.status = "failed"
    BY <1>1, <2>1, RecordKeeps
  <2>3. row'.rev > row.rev /\ row'.att >= row.att
    BY <1>1, <2>2
  <2> QED BY <1>1, <2>1, <2>2, <2>3, IdleIsAThread, AttemptEnds
<1> QED BY <1>2, <1>3

\* A drive thread goes on in its attempt, while the row and the lock stay.
LEMMA AttemptGoesOn ==
  ASSUME RInv, AttemptInv, NEW t \in Threads, thread[t].pc \in Attempting, NEW s, Goes(t, s),
         row' = row, lock' = lock, s.pc \in Driven, s.att = thread[t].att, DrivesOwn(s)
  PROVE  AttemptInv'
<1>1. RowIsItsAttempt' /\ DrivesOwn(s)'
  BY DEF AttemptInv, RowIsItsAttempt, DrivesOwn
<1>2. Starts(t, s)' /\ s.pc \notin Starters /\ s.pc # "launching"
  BY DEF Starts, Starters, Driven, Seeing
<1> QED BY <1>1, <1>2, AttemptFrame

LEMMA AttemptOfDrive ==
  ASSUME RInv, AttemptInv, RInv', NEW t \in Threads,
         \/ DriveBrowser(t) \/ (\E out \in Outcomes : ApplyObservation(t, out))
         \/ WorkerMints(t) \/ (\E out \in Outcomes : CaptureReturns(t, out))
         \/ ReleaseSession(t)
  PROVE  AttemptInv'
<1>1. row' = row /\ lock' = lock
  BY DEF DriveBrowser, ApplyObservation, WorkerMints, CaptureReturns, ReleaseSession, rowVars
<1>2. /\ thread[t] \in ThreadState /\ row \in RunRecord /\ DrivesOwn(thread[t]) /\ RowIsItsAttempt
      /\ RowIsItsAttempt'
  BY <1>1 DEF RInv, AttemptInv, RowIsItsAttempt
<1>3. CASE Goes(t, Idle)
  BY <1>1, <1>2, <1>3, IdleIsAThread, AttemptEnds
<1>4. CASE DriveBrowser(t)
  <2>1. PICK s : s = [thread[t] EXCEPT !.pc = "calling", !.key = row.key]
    OBVIOUS
  <2>2. /\ s.pc = "calling" /\ s.key = row.key /\ s.att = thread[t].att /\ s.sess = thread[t].sess
        /\ thread[t].pc = "bound" /\ thread[t].pc \in Attempting
    BY <1>2, <1>4, <2>1 DEF ThreadState, DriveBrowser, Attempting
  <2>3. CASE Goes(t, s) /\ row.sess = thread[t].sess /\ row.phase = "running"
    <3>1. row.key.kind \in Runnable /\ row.key.n = row.att /\ row.sess = row.att
      BY <1>2, <2>3 DEF RowIsItsAttempt
    <3>2. thread[t].sess = thread[t].att /\ thread[t].att \in 1..row.att /\ thread[t].att # 0
      BY <1>2, <2>2, RuntimeAssumption DEF DrivesOwn, RunRecord
    <3>3. s.sess # 0 /\ s.key.n = s.att /\ s.key.kind \in Runnable
      BY <2>2, <2>3, <3>1, <3>2
    <3>4. DrivesOwn(s)
      BY <2>2, <3>2, <3>3 DEF DrivesOwn, Seeing
    <3> QED BY <1>1, <2>2, <2>3, <3>4, AttemptGoesOn DEF Driven
  <2> QED BY <1>3, <1>4, <2>1, <2>3 DEF DriveBrowser, Bound
<1>5. ASSUME NEW out \in Outcomes, ApplyObservation(t, out)
      PROVE  AttemptInv'
  <2>1. PICK s : s = [thread[t] EXCEPT !.pc = "adhere", !.rev = row.rev, !.out = out]
    OBVIOUS
  <2>2. /\ s.pc = "adhere" /\ s.rev = row.rev /\ s.key = thread[t].key
        /\ s.att = thread[t].att /\ s.sess = thread[t].sess
        /\ thread[t].pc = "calling" /\ thread[t].pc \in Attempting /\ thread[t].pc \in Driven
    BY <1>2, <1>5, <2>1 DEF ThreadState, ApplyObservation, Attempting, Driven
  <2>3. CASE Goes(t, s) /\ Bound(t, Driving, thread[t].key, 0)
    <3>1. thread[t].key.kind \in Runnable /\ thread[t].key.n = thread[t].att
      BY <1>2, <2>2 DEF DrivesOwn
    <3>2. row.key = thread[t].key
      BY <2>3, <3>1 DEF Bound, Runnable, NoKey
    <3>3. row.att = thread[t].att /\ row.rev \in 1..row.rev
      BY <1>2, <3>1, <3>2 DEF RowIsItsAttempt, RunRecord
    <3>4. DrivesOwn(s)
      BY <1>2, <2>2, <3>1, <3>3 DEF DrivesOwn, Attempting, Driven, Seeing
    <3> QED BY <1>1, <2>2, <2>3, <3>4, AttemptGoesOn DEF Driven, Seeing
  <2> QED BY <1>3, <1>5, <2>1, <2>3 DEF ApplyObservation
<1>6. CASE WorkerMints(t)
  <2>1. PICK s : s = [thread[t] EXCEPT !.refs = TRUE]
    OBVIOUS
  <2>2. /\ s.pc = thread[t].pc /\ s.rev = thread[t].rev /\ s.key = thread[t].key
        /\ s.att = thread[t].att /\ s.sess = thread[t].sess
        /\ thread[t].pc = "capturing" /\ thread[t].pc \in Attempting /\ thread[t].pc \in Driven
    BY <1>2, <1>6, <2>1 DEF ThreadState, WorkerMints, Attempting, Driven, Seeing
  <2>3. DrivesOwn(s)
    BY <1>2, <2>2 DEF DrivesOwn
  <2> QED BY <1>1, <1>6, <2>1, <2>2, <2>3, AttemptGoesOn DEF WorkerMints
<1>7. ASSUME NEW out \in Outcomes, CaptureReturns(t, out)
      PROVE  AttemptInv'
  <2>1. PICK s : s = [thread[t] EXCEPT !.pc = "project", !.out = out, !.refs = out \in FinalizeCaptured]
    OBVIOUS
  <2>2. /\ s.pc = "project" /\ s.rev = thread[t].rev /\ s.key = thread[t].key
        /\ s.att = thread[t].att /\ s.sess = thread[t].sess
        /\ thread[t].pc = "capturing" /\ thread[t].pc \in Attempting /\ s.pc \in Driven
    BY <1>2, <1>7, <2>1 DEF ThreadState, CaptureReturns, Attempting, Driven, Seeing
  <2>3. DrivesOwn(s)
    BY <1>2, <2>2 DEF DrivesOwn, Attempting, Driven, Seeing
  <2> QED BY <1>1, <1>7, <2>1, <2>2, <2>3, AttemptGoesOn DEF CaptureReturns
<1>8. CASE ReleaseSession(t)
  BY <1>3, <1>8 DEF ReleaseSession
<1> QED BY <1>4, <1>5, <1>6, <1>7, <1>8

LEMMA AttemptOfResume ==
  ASSUME RInv, AttemptInv, RInv', NEW t \in Threads, ResumeRun(t)
  PROVE  AttemptInv'
<1> DEFINE key == Key("resume", row.att + 1)
<1>1. /\ row.status = "waiting_for_hitl"
      /\ \A u \in Threads : thread[u].pc \notin Starters /\ thread[u].pc # "submitting"
  BY NobodyStarts, NobodySubmits DEF ResumeRun
<1>2. /\ row \in RunRecord /\ row.rev \in Nat /\ row.att \in Nat /\ row' \in RunRecord
  BY RuntimeAssumption DEF RInv, RunRecord
<1>3. PICK s : s = [Idle EXCEPT !.pc = "calling", !.sess = row.sess, !.key = key, !.att = row.att + 1]
  OBVIOUS
<1>4. /\ s.pc = "calling" /\ s.sess = row.sess /\ s.key.kind = "resume" /\ s.key.n = row.att + 1
      /\ s.att = row.att + 1
  BY <1>3 DEF Idle, Key
<1>5. /\ Goes(t, s) /\ lock' = lock
      /\ row' = [row EXCEPT !.status = "browser_running", !.att = @ + 1,
                            !.phase = "target_probe_pending", !.key = key, !.rev = @ + 1]
  BY <1>3 DEF ResumeRun
<1>6. /\ row'.status = "browser_running" /\ row'.phase = "target_probe_pending"
      /\ row'.att = row.att + 1 /\ row'.rev = row.rev + 1 /\ row'.key.n = row.att + 1
  BY <1>2, <1>5 DEF RunRecord, Key
<1>7. row.sess # 0
  BY <1>1 DEF AttemptInv, RowIsItsAttempt
<1>8. RowIsItsAttempt'
  BY <1>2, <1>6 DEF AttemptInv, RowIsItsAttempt
<1>9. Starts(t, s)' /\ s.pc \notin Starters
  BY <1>4 DEF Starts, Starters
<1>10. DrivesOwn(s)'
  BY <1>2, <1>4, <1>6, <1>7 DEF DrivesOwn, Attempting, Driven, Seeing, Runnable
<1>11. row'.rev > row.rev /\ row'.att >= row.att
  BY <1>2, <1>6
<1> QED BY <1>1, <1>2, <1>4, <1>5, <1>8, <1>9, <1>10, <1>11, AttemptFrame

LEMMA AttemptOfAdhere ==
  ASSUME RInv, AttemptInv, RInv', NEW t \in Threads, AdhereToRoute(t)
  PROVE  AttemptInv'
<1>1. /\ thread[t].pc = "adhere" /\ thread[t].pc \in Attempting /\ thread[t].pc \in Driven
      /\ lock' = lock /\ \A u \in Threads : thread[u].pc # "submitting"
  BY NobodySubmits DEF AdhereToRoute, Attempting, Driven, Seeing
<1>2. /\ row \in RunRecord /\ row.rev \in Nat /\ row.att \in Nat /\ row' \in RunRecord
      /\ thread[t] \in ThreadState /\ DrivesOwn(thread[t]) /\ RowIsItsAttempt
  BY RuntimeAssumption DEF RInv, RunRecord, AttemptInv
<1>3. thread[t].rev \in 1..row.rev
  BY <1>1, <1>2 DEF DrivesOwn, Seeing
<1>4. ASSUME NEW action \in {"proceed", "pause"}, NEW rev \in Nat, Adheres(t, rev, action)
      PROVE  \E s : /\ Goes(t, s) /\ s.pc \in {"resolve", "project"} /\ s.rev = rev /\ s.key = thread[t].key
                    /\ s.att = thread[t].att /\ s.sess = thread[t].sess
  <2>1. PICK pc \in {"resolve", "project"}, out \in {thread[t].out, "diverged", "blocked"} :
           Goes(t, [thread[t] EXCEPT !.rev = rev, !.pc = pc, !.out = out])
    BY <1>4 DEF Adheres
  <2>2. PICK s : s = [thread[t] EXCEPT !.rev = rev, !.pc = pc, !.out = out]
    OBVIOUS
  <2>3. /\ s.pc = pc /\ s.rev = rev /\ s.key = thread[t].key /\ s.att = thread[t].att /\ s.sess = thread[t].sess
    BY <1>2, <2>2 DEF ThreadState
  <2> QED BY <2>1, <2>2, <2>3
<1>5. ASSUME NEW action \in {"proceed", "pause"}, Adheres(t, thread[t].rev, action), row' = row
      PROVE  AttemptInv'
  <2>1. thread[t].rev \in Nat
    BY <1>3
  <2>2. PICK s : /\ Goes(t, s) /\ s.pc \in {"resolve", "project"} /\ s.rev = thread[t].rev
                 /\ s.key = thread[t].key /\ s.att = thread[t].att /\ s.sess = thread[t].sess
    BY <1>4, <1>5, <2>1
  <2>3. DrivesOwn(s) /\ s.pc \in Driven
    BY <1>1, <1>2, <2>2 DEF DrivesOwn, Attempting, Driven, Seeing
  <2> QED BY <1>1, <1>5, <2>2, <2>3, AttemptGoesOn
<1>6. CASE ReplanRunRoute(t)
  <2>1. CASE Goes(t, Idle) /\ row' = row
    <3>1. RowIsItsAttempt'
      BY <1>2, <2>1 DEF RowIsItsAttempt
    <3> QED BY <1>1, <2>1, <3>1, IdleIsAThread, AttemptEnds
  <2>2. ASSUME row.status = "browser_running", row.rev = thread[t].rev,
               row' = [row EXCEPT !.plan = 2, !.rev = @ + 1],
               NEW action \in {"proceed", "pause"}, Adheres(t, thread[t].rev + 1, action)
        PROVE  AttemptInv'
    <3>1. thread[t].rev + 1 \in Nat
      BY <1>3
    <3>2. PICK s : /\ Goes(t, s) /\ s.pc \in {"resolve", "project"} /\ s.rev = thread[t].rev + 1
                   /\ s.key = thread[t].key /\ s.att = thread[t].att /\ s.sess = thread[t].sess
      BY <1>4, <2>2, <3>1
    <3>3. /\ row'.rev = row.rev + 1 /\ row'.att = row.att /\ row'.key = row.key /\ row'.sess = row.sess
          /\ row'.phase = row.phase /\ row'.status = row.status
      BY <1>2, <2>2 DEF RunRecord
    <3>4. thread[t].att = row.att
      BY <1>1, <1>2, <2>2 DEF DrivesOwn, Seeing
    <3>5. RowIsItsAttempt'
      BY <1>2, <3>3 DEF RowIsItsAttempt
    <3>6. Starts(t, s)' /\ s.pc \notin Starters
      BY <3>2 DEF Starts, Starters
    <3>7. DrivesOwn(s)'
      BY <1>1, <1>2, <2>2, <3>2, <3>3, <3>4 DEF DrivesOwn, Attempting, Driven, Seeing
    <3>8. row'.rev > row.rev /\ row'.att >= row.att
      BY <1>2, <3>3
    <3>9. \A u \in Threads : thread[u].pc \notin Starters
      BY <2>2, NobodyStarts
    <3> QED BY <1>1, <1>2, <3>2, <3>5, <3>6, <3>7, <3>8, <3>9, AttemptFrame
  <2> QED BY <1>5, <1>6, <2>1, <2>2 DEF ReplanRunRoute
<1> QED BY <1>5, <1>6 DEF AdhereToRoute, DecideAdherence

\* What a thread that projects or reserves under the row's revision finds.
LEMMA BoundIsItsAttempt ==
  ASSUME RInv, AttemptInv, NEW t \in Threads, thread[t].pc \in Seeing,
         Bound(t, Driving, thread[t].key, thread[t].rev)
  PROVE  /\ row.rev = thread[t].rev /\ row.att = thread[t].att /\ row.sess = thread[t].sess /\ row.sess # 0
         /\ row.status \in Driving /\ row.key = thread[t].key
         /\ \A u \in Threads : thread[u].pc \notin Starters
<1>1. DrivesOwn(thread[t]) /\ thread[t].pc \in Driven
  BY DEF AttemptInv, Driven
<1>2. thread[t].rev # 0 /\ thread[t].key # NoKey
  BY <1>1 DEF DrivesOwn, Runnable, NoKey, CaptureKey, Key
<1>3. row.rev = thread[t].rev /\ row.key = thread[t].key /\ row.sess = thread[t].sess /\ row.status \in Driving
  BY <1>2 DEF Bound
<1>4. row.att = thread[t].att /\ row.sess # 0
  BY <1>1, <1>3 DEF DrivesOwn
<1>5. \A u \in Threads : thread[u].pc \notin Starters
  BY <1>3, NobodyStarts DEF Driving
<1> QED BY <1>3, <1>4, <1>5

LEMMA AttemptOfCapture ==
  ASSUME RInv, AttemptInv, RInv', NEW t \in Threads, ReserveCapture(t)
  PROVE  AttemptInv'
<1>1. /\ thread[t].pc = "resolve" /\ thread[t].pc \in Attempting /\ thread[t].pc \in Seeing
      /\ lock' = lock /\ \A u \in Threads : thread[u].pc # "submitting"
  BY NobodySubmits DEF ReserveCapture, Attempting, Driven, Seeing
<1>2. /\ row \in RunRecord /\ row.rev \in Nat /\ row.att \in Nat /\ row' \in RunRecord
      /\ thread[t] \in ThreadState /\ DrivesOwn(thread[t]) /\ RowIsItsAttempt
  BY RuntimeAssumption DEF RInv, RunRecord, AttemptInv
<1>3. ASSUME NEW out, Goes(t, [thread[t] EXCEPT !.pc = "project", !.out = out]), row' = row
      PROVE  AttemptInv'
  <2>1. PICK s : s = [thread[t] EXCEPT !.pc = "project", !.out = out]
    OBVIOUS
  <2>2. /\ s.pc = "project" /\ s.rev = thread[t].rev /\ s.key = thread[t].key
        /\ s.att = thread[t].att /\ s.sess = thread[t].sess
    BY <1>2, <2>1 DEF ThreadState
  <2>3. DrivesOwn(s) /\ s.pc \in Driven
    BY <1>1, <1>2, <2>2 DEF DrivesOwn, Attempting, Driven, Seeing
  <2> QED BY <1>1, <1>3, <2>1, <2>2, <2>3, AttemptGoesOn
<1>4. ASSUME Bound(t, Driving, thread[t].key, thread[t].rev), NEW s, Goes(t, s),
             s.pc \in {"capturing", "project"}, s.key = CaptureKey, s.rev = thread[t].rev + 1,
             s.att = thread[t].att, s.sess = thread[t].sess,
             row' = [row EXCEPT !.status = "browser_running", !.phase = "capture_reserved",
                                !.key = CaptureKey, !.rev = @ + 1]
      PROVE  AttemptInv'
  <2>1. /\ row'.rev = row.rev + 1 /\ row'.att = row.att /\ row'.key = CaptureKey /\ row'.sess = row.sess
        /\ row'.phase = "capture_reserved" /\ row'.status = "browser_running"
    BY <1>2, <1>4 DEF RunRecord
  <2>2. row.rev = thread[t].rev /\ row.att = thread[t].att /\ \A u \in Threads : thread[u].pc \notin Starters
    BY <1>1, <1>4, BoundIsItsAttempt
  <2>3. RowIsItsAttempt'
    <3>1. CaptureKey.kind \notin Runnable
      BY DEF CaptureKey, Key, Runnable
    <3> QED BY <1>2, <2>1, <3>1 DEF RowIsItsAttempt
  <2>4. Starts(t, s)' /\ s.pc \notin Starters
    BY <1>4 DEF Starts, Starters
  <2>5. DrivesOwn(s)'
    BY <1>1, <1>2, <1>4, <2>1, <2>2 DEF DrivesOwn, Attempting, Driven, Seeing
  <2>6. row'.rev > row.rev /\ row'.att >= row.att
    BY <1>2, <2>1
  <2> QED BY <1>1, <1>2, <1>4, <2>2, <2>3, <2>4, <2>5, <2>6, AttemptFrame
<1>5. ASSUME NEW pc \in {"capturing", "project"}, NEW out
      PROVE  LET s == [[thread[t] EXCEPT !.key = CaptureKey, !.rev = @ + 1] EXCEPT !.pc = pc, !.out = out]
             IN  /\ s.pc = pc /\ s.key = CaptureKey /\ s.rev = thread[t].rev + 1
                 /\ s.att = thread[t].att /\ s.sess = thread[t].sess
  BY <1>2 DEF ThreadState
<1>6. LET s == [[thread[t] EXCEPT !.key = CaptureKey, !.rev = @ + 1] EXCEPT !.pc = "capturing"]
      IN  /\ s.pc = "capturing" /\ s.key = CaptureKey /\ s.rev = thread[t].rev + 1
          /\ s.att = thread[t].att /\ s.sess = thread[t].sess
  BY <1>2 DEF ThreadState
<1>7. CASE Goes(t, [thread[t] EXCEPT !.pc = "project"]) /\ row' = row
  <2>1. [thread[t] EXCEPT !.pc = "project"] = [thread[t] EXCEPT !.pc = "project", !.out = thread[t].out]
    BY <1>2 DEF ThreadState
  <2> QED BY <1>3, <1>7, <2>1
<1>8. CASE Goes(t, [thread[t] EXCEPT !.pc = "project", !.out = "stale"]) /\ row' = row
  BY <1>3, <1>8
<1>9. ASSUME Bound(t, Driving, thread[t].key, thread[t].rev),
             row' = [row EXCEPT !.status = "browser_running", !.phase = "capture_reserved",
                                !.key = CaptureKey, !.rev = @ + 1],
             NEW pc \in {"capturing", "project"}, NEW out,
             Goes(t, [[thread[t] EXCEPT !.key = CaptureKey, !.rev = @ + 1] EXCEPT !.pc = pc, !.out = out])
      PROVE  AttemptInv'
  <2>1. PICK s : s = [[thread[t] EXCEPT !.key = CaptureKey, !.rev = @ + 1] EXCEPT !.pc = pc, !.out = out]
    OBVIOUS
  <2>2. /\ s.pc = pc /\ s.key = CaptureKey /\ s.rev = thread[t].rev + 1
        /\ s.att = thread[t].att /\ s.sess = thread[t].sess
    BY <1>5, <2>1
  <2>3. Goes(t, s)
    BY <1>9, <2>1
  <2> QED BY <1>4, <1>9, <2>2, <2>3
<1>10. ASSUME Bound(t, Driving, thread[t].key, thread[t].rev),
              row' = [row EXCEPT !.status = "browser_running", !.phase = "capture_reserved",
                                 !.key = CaptureKey, !.rev = @ + 1],
              Goes(t, [[thread[t] EXCEPT !.key = CaptureKey, !.rev = @ + 1] EXCEPT !.pc = "capturing"])
       PROVE  AttemptInv'
  <2>1. PICK s : s = [[thread[t] EXCEPT !.key = CaptureKey, !.rev = @ + 1] EXCEPT !.pc = "capturing"]
    OBVIOUS
  <2>2. /\ s.pc = "capturing" /\ s.key = CaptureKey /\ s.rev = thread[t].rev + 1
        /\ s.att = thread[t].att /\ s.sess = thread[t].sess
    BY <1>6, <2>1
  <2>3. Goes(t, s)
    BY <1>10, <2>1
  <2> QED BY <1>4, <1>10, <2>2, <2>3
<1> QED BY <1>7, <1>8, <1>9, <1>10 DEF ReserveCapture

LEMMA AttemptOfProject ==
  ASSUME RInv, AttemptInv, RInv', NEW t \in Threads, Project(t)
  PROVE  AttemptInv'
<1>1. /\ thread[t].pc = "project" /\ thread[t].pc \in Seeing
      /\ lock' = lock /\ \A u \in Threads : thread[u].pc # "submitting"
  BY NobodySubmits DEF Project, Seeing
<1>2. /\ row \in RunRecord /\ row.rev \in Nat /\ row.att \in Nat /\ row' \in RunRecord
      /\ RowIsItsAttempt /\ thread[t] \in ThreadState /\ thread[t].out \in Outcomes \ {"none"}
  BY <1>1, RuntimeAssumption DEF RInv, RunRecord, AttemptInv, Answered
<1>3. PICK s : /\ s.pc \in {"idle", "release"} /\ Goes(t, s)
  <2>1. PICK r : r = [Idle EXCEPT !.pc = "release", !.sess = thread[t].sess]
    OBVIOUS
  <2>2. r.pc = "release"
    BY <2>1 DEF Idle
  <2>3. Goes(t, Idle) \/ Goes(t, r)
    BY <2>1 DEF Project
  <2> QED BY <2>2, <2>3, IdleIsAThread
<1>4. CASE row' = row
  <2>1. RowIsItsAttempt'
    BY <1>2, <1>4 DEF RowIsItsAttempt
  <2> QED BY <1>1, <1>3, <1>4, <2>1, AttemptEnds
<1>5. ASSUME Bound(t, Driving, thread[t].key, thread[t].rev),
             NEW to \in {Projected(thread[t].out)} \cup {<<"configuration_required", "recoverable">>},
             row' = [row EXCEPT !.status = to[1], !.phase = to[2], !.rev = @ + 1]
      PROVE  AttemptInv'
  <2>1. /\ row'.rev = row.rev + 1 /\ row'.att = row.att /\ row'.key = row.key /\ row'.sess = row.sess
        /\ row'.phase = to[2]
    BY <1>2, <1>5 DEF RunRecord
  <2>2. to[2] # "running"
    BY <1>2, <1>5 DEF Projected, Outcomes
  <2>3. row.sess # 0 /\ \A u \in Threads : thread[u].pc \notin Starters
    BY <1>1, <1>5, BoundIsItsAttempt
  <2>4. RowIsItsAttempt'
    BY <1>2, <2>1, <2>2, <2>3 DEF RowIsItsAttempt
  <2>5. row'.rev > row.rev /\ row'.att >= row.att
    BY <1>2, <2>1
  <2> QED BY <1>1, <1>2, <1>3, <2>3, <2>4, <2>5, AttemptEnds
<1> QED BY <1>4, <1>5 DEF Project

LEMMA AttemptOfOwner ==
  ASSUME RInv, AttemptInv, RInv', NEW t \in Threads, OwnerSubmits(t) \/ SubmissionEnds(t)
  PROVE  AttemptInv'
<1>1. /\ row \in RunRecord /\ row.rev \in Nat /\ row.att \in Nat /\ row' \in RunRecord /\ RowIsItsAttempt
  BY RuntimeAssumption DEF RInv, RunRecord, AttemptInv
<1>2. CASE OwnerSubmits(t)
  <2>1. /\ row.status = "browser_running"
        /\ \A u \in Threads : thread[u].pc \notin Starters /\ thread[u].pc # "submitting"
    BY <1>2, NobodyStarts, NobodySubmits DEF OwnerSubmits, OwnerWindow
  <2>2. /\ row'.rev = row.rev + 1 /\ row'.att = row.att /\ row'.key = Key("submit", 1)
        /\ row'.sess = row.sess /\ row'.phase = "submission_reserved" /\ row'.status = row.status
    BY <1>1, <1>2 DEF OwnerSubmits, RunRecord
  <2>3. RowIsItsAttempt'
    <3>1. row'.key.kind \notin Runnable
      BY <2>2 DEF Key, Runnable
    <3> QED BY <1>1, <2>1, <2>2, <3>1 DEF RowIsItsAttempt
  <2>4. row'.rev > row.rev /\ row'.att >= row.att
    BY <1>1, <2>2
  <2>5. CASE UNCHANGED <<submit, lock, thread>>
    BY <1>1, <2>1, <2>2, <2>3, <2>4, <2>5, AttemptStays
  <2>6. CASE lock' = t /\ Goes(t, [Idle EXCEPT !.pc = "submitting", !.out = row.phase])
    <3>1. PICK s : s = [Idle EXCEPT !.pc = "submitting", !.out = row.phase]
      OBVIOUS
    <3>2. s.pc = "submitting" /\ s.pc \notin Starters /\ s.pc \notin Attempting
      BY <3>1 DEF Idle, Starters, Attempting, Driven, Seeing
    <3>3. Starts(t, s)' /\ DrivesOwn(s)'
      BY <2>1, <2>2, <2>6, <3>2 DEF Starts, DrivesOwn, Starters, Attempting, Driven, Seeing
    <3> QED BY <1>1, <2>1, <2>3, <2>4, <2>6, <3>1, <3>2, <3>3, AttemptFrame
  <2> QED BY <1>2, <2>5, <2>6 DEF OwnerSubmits
<1>3. CASE SubmissionEnds(t)
  <2>1. /\ thread[t].pc = "submitting" /\ lock = t /\ row.status # "route_selected"
        /\ \A u \in Threads : u # t => thread[u].pc \notin Starters /\ thread[u].pc # "submitting"
    BY <1>3 DEF SubmissionEnds, AttemptInv, Starts
  <2>2. PICK s : s.pc \in {"idle", "release"} /\ Goes(t, s)
    <3>1. PICK r : r = [Idle EXCEPT !.pc = "release", !.sess = row.sess]
      OBVIOUS
    <3>2. r.pc = "release"
      BY <3>1 DEF Idle
    <3>3. Goes(t, Idle) \/ Goes(t, r)
      BY <1>3, <3>1 DEF SubmissionEnds
    <3> QED BY <3>2, <3>3, IdleIsAThread
  <2>3. thread[t].out \in AwaitingOwner
    BY <2>1 DEF RInv, Answered
  <2>4. RowIsItsAttempt' /\ (row' = row \/ (row'.rev > row.rev /\ row'.att >= row.att))
    <3>1. CASE row' = row
      BY <1>1, <3>1 DEF RowIsItsAttempt
    <3>2. CASE row' = [row EXCEPT !.phase = thread[t].out, !.rev = @ + 1]
      <4>1. /\ row'.rev = row.rev + 1 /\ row'.att = row.att /\ row'.key = row.key
            /\ row'.sess = row.sess /\ row'.phase = thread[t].out /\ row'.status = row.status
        BY <1>1, <3>2 DEF RunRecord
      <4> QED BY <1>1, <2>3, <4>1 DEF RowIsItsAttempt, AwaitingOwner
    <3>3. ASSUME NEW to \in {<<"credentials_ready", "credential_ready">>, <<"completed", "completed">>,
                             <<"configuration_required", "recoverable">>}, Record(to[1], to[2])
          PROVE  RowIsItsAttempt' /\ row'.rev > row.rev /\ row'.att >= row.att
      <4>1. to[2] # "running" /\ to[1] # "waiting_for_hitl"
        OBVIOUS
      <4>2. RowIsItsAttempt' /\ row'.rev = row.rev + 1 /\ row'.att = row.att
        BY <1>1, <3>3, <4>1, RecordKeeps
      <4> QED BY <1>1, <4>2
    <3> QED BY <1>3, <3>1, <3>2, <3>3 DEF SubmissionEnds
  <2> QED BY <1>1, <2>1, <2>2, <2>4, AttemptEnds
<1> QED BY <1>2, <1>3

LEMMA AttemptOfSweep ==
  ASSUME RInv, AttemptInv, RInv', SweepBegins \/ SweepStep
  PROVE  AttemptInv'
<1>1. UNCHANGED <<lock, thread>>
  BY DEF SweepBegins, SweepReads, ReconcileIdle, ReconcileStranded, SweepStep, PauseStaleRun,
         StopCanonicalBrowser, ReconcileOneStranded, SweepReleases, Stops, rowVars, worldVars, auditVars
<1>2. /\ row \in RunRecord /\ row.rev \in Nat /\ row.att \in Nat /\ row' \in RunRecord /\ RowIsItsAttempt
  BY RuntimeAssumption DEF RInv, RunRecord, AttemptInv
<1>3. \/ row' = row
      \/ /\ row.status \in Driving
         /\ \/ Record("failed", "failed") \/ Record("configuration_required", "recoverable")
            \/ Record("configuration_required", "session_lost")
  BY DEF SweepBegins, SweepReads, ReconcileIdle, ReconcileStranded, SweepStep, PauseStaleRun, Parked,
         StopCanonicalBrowser, ReconcileOneStranded, SweepReleases, Stops, rowVars, worldVars, auditVars, Driving
<1>4. CASE row' = row
  <2>1. RowIsItsAttempt'
    BY <1>2, <1>4 DEF RowIsItsAttempt
  <2> QED BY <1>1, <1>4, <2>1, AttemptStays
<1>5. ASSUME row.status \in Driving, NEW status \in {"failed", "configuration_required"},
             NEW phase \in {"failed", "recoverable", "session_lost"}, Record(status, phase)
      PROVE  AttemptInv'
  <2>1. RowIsItsAttempt' /\ row'.rev = row.rev + 1 /\ row'.att = row.att /\ row'.status = status
    BY <1>2, <1>5, RecordKeeps
  <2>2. \A u \in Threads : thread[u].pc \notin Starters
    BY <1>5, NobodyStarts DEF Driving
  <2>3. row'.rev > row.rev /\ row'.status # "route_selected"
    BY <1>2, <2>1
  <2> QED BY <1>1, <1>2, <2>1, <2>2, <2>3, AttemptStays
<1> QED BY <1>3, <1>4, <1>5

LEMMA AttemptOfCrash ==
  ASSUME RInv, AttemptInv, ProcessDies
  PROVE  AttemptInv'
<1>1. row' = row /\ \A t \in Threads : thread'[t].pc = "idle"
  BY IdleIsAThread DEF ProcessDies, rowVars
<1>2. RowIsItsAttempt' /\ OneStarter' /\ OneDriver' /\ StartsBesideLaunch'
  BY <1>1 DEF AttemptInv, RowIsItsAttempt, OneStarter, OneDriver, StartsBesideLaunch, Starters, Attempting, Driven, Seeing
<1>3. \A t \in Threads : Starts(t, thread[t])' /\ DrivesOwn(thread[t])'
  BY <1>1 DEF Starts, DrivesOwn, Starters, Attempting, Driven, Seeing
<1> QED BY <1>2, <1>3 DEF AttemptInv

LEMMA AttemptInit ==
  ASSUME RInit
  PROVE  AttemptInv
<1>1. /\ row.status = "route_selected" /\ row.phase = "browser_pending" /\ row.rev = 1 /\ row.key.kind = "none"
      /\ row.att = 0
  BY DEF RInit, NoKey
<1>2. \A t \in Threads : \/ thread[t].pc = "idle"
                         \/ /\ t = CHOOSE u \in Threads : TRUE
                            /\ thread[t].pc = "reserve" /\ thread[t].att = 0 /\ thread[t].sess = 0
  BY DEF RInit, Idle
<1>3. RowIsItsAttempt /\ OneStarter /\ OneDriver /\ StartsBesideLaunch
  <2>1. RowIsItsAttempt
    BY <1>1 DEF RowIsItsAttempt, Runnable
  <2>2. OneStarter
    BY <1>2 DEF OneStarter, Starters
  <2>3. OneDriver
    BY <1>2 DEF OneDriver, Attempting, Driven, Seeing
  <2>4. StartsBesideLaunch
    BY <1>2 DEF StartsBesideLaunch
  <2> QED BY <2>1, <2>2, <2>3, <2>4
<1>4. \A t \in Threads : Starts(t, thread[t]) /\ DrivesOwn(thread[t])
  BY <1>1, <1>2 DEF Starts, DrivesOwn, Starters, Attempting, Driven, Seeing
<1> QED BY <1>3, <1>4 DEF AttemptInv

LEMMA AttemptStep ==
  ASSUME RInv, AttemptInv, RInv', ~mode.replay, [RNext]_runtimeVars
  PROVE  AttemptInv'
<1>1. ASSUME NEW t \in Threads,
             \/ ThreadStep(t) \/ WorkerMints(t) \/ ReplayCreate(t) \/ RecoverPristine(t)
             \/ RetryBrowserRun(t) \/ ResumeRun(t) \/ OwnerSubmits(t)
      PROVE  AttemptInv'
  <2>1. ~ReplayCreate(t) /\ ~RecoverPristine(t)
    BY DEF ReplayCreate, RecoverPristine
  <2>2. /\ ThreadStarts(t) => thread[t].pc = "launching"
        /\ StartFails(t) => thread[t].pc \in {"starting", "launching"}
    BY DEF ThreadStarts, StartFails
  <2> QED BY <1>1, <2>1, <2>2, AttemptOfRetry, AttemptOfReserve, AttemptOfStart, AttemptOfLaunch,
             AttemptOfDrive, AttemptOfResume, AttemptOfAdhere, AttemptOfCapture, AttemptOfProject,
             AttemptOfOwner DEF ThreadStep
<1>2. CASE UNCHANGED runtimeVars
  <2>1. RowIsItsAttempt' /\ row' = row /\ UNCHANGED <<thread, lock>>
    BY <1>2 DEF runtimeVars, rowVars, AttemptInv, RowIsItsAttempt
  <2> QED BY <2>1, AttemptStays
<1> QED BY <1>1, <1>2, AttemptOfSweep, AttemptOfCrash DEF RNext

\* A late answer is projected by the attempt that the row is in.
LEMMA ProjectsItsAttempt ==
  ASSUME RInv, AttemptInv, ~mode.replay, RNext, NEW t \in Threads,
         thread[t].pc = "project", thread'[t] # thread[t], row' # row
  PROVE  thread[t].att = row.att
<1>1. SUFFICES Project(t)
  <2>1. thread[t].pc \in Seeing
    BY DEF Seeing
  <2>2. ASSUME Project(t)
        PROVE  Bound(t, Driving, thread[t].key, thread[t].rev)
    BY <2>2 DEF Project
  <2> QED BY <1>1, <2>1, <2>2, BoundIsItsAttempt
<1>2. ASSUME NEW u \in Threads,
             \/ ThreadStep(u) \/ WorkerMints(u) \/ ReplayCreate(u) \/ RecoverPristine(u)
             \/ RetryBrowserRun(u) \/ ResumeRun(u) \/ OwnerSubmits(u)
      PROVE  Project(t)
  <2>1. ~ReplayCreate(u) /\ ~RecoverPristine(u)
    BY DEF ReplayCreate, RecoverPristine
  <2>2. (\E s : Goes(u, s)) \/ thread' = thread
    BY <1>2, <2>1 DEF ThreadStep, ReserveStart, RefuseStart, SessionOpens, BindSession, ThreadStarts,
       StartFails, DriveBrowser,
       AdhereToRoute, Adheres, ReplanRunRoute, ReserveCapture, Project, ReleaseSession, SubmissionEnds,
       ApplyObservation, CaptureReturns, WorkerMints, RetryBrowserRun, ResumeRun, OwnerSubmits
  <2>3. u = t
    <3>1. \A s : Goes(u, s) => \A v \in Threads : v # u => thread'[v] = thread[v]
      BY DEF Goes, RInv
    <3> QED BY <2>2, <3>1
  <2>4. CASE ThreadStep(t)
    BY <2>4 DEF ThreadStep, ReserveStart, RefuseStart, SessionOpens, BindSession, ThreadStarts,
       StartFails, DriveBrowser,
       AdhereToRoute, ReserveCapture, ReleaseSession, SubmissionEnds, ApplyObservation, CaptureReturns
  <2>5. CASE WorkerMints(t) \/ RetryBrowserRun(t) \/ ResumeRun(t) \/ OwnerSubmits(t)
    BY <2>5 DEF WorkerMints, RetryBrowserRun, ResumeRun, OwnerSubmits, Free
  <2> QED BY <1>2, <2>1, <2>3, <2>4, <2>5
<1>3. ~(SweepBegins \/ SweepStep \/ ProcessDies)
  BY DEF SweepBegins, SweepReads, ReconcileIdle, ReconcileStranded, SweepStep, PauseStaleRun,
         StopCanonicalBrowser, ReconcileOneStranded, SweepReleases, Stops, ProcessDies, rowVars, worldVars, auditVars
<1> QED BY <1>2, <1>3 DEF RNext

-----------------------------------------------------------------------------
(* CanonicalRuntime without replays or restarts: the owner's window.          *)

LEMMA ApartWhenShut ==
  ASSUME NEW s, ~OwnerWindow', s.pc \notin {"submitting", "launching"}
  PROVE  Apart(s)'
BY DEF Apart

LEMMA ApartWhenAway ==
  ASSUME NEW s, s.pc \notin Driven, s.pc \notin {"submitting", "launching"}
  PROVE  Apart(s)' /\ Apart(s)
BY DEF Apart, Driven

\* The row of a run whose thread is about to start, and who else drives its attempt.
LEMMA LaunchedRow ==
  ASSUME RInv, AttemptInv, WindowInv, NEW t \in Threads, thread[t].pc = "launching"
  PROVE  /\ row.status = "browser_running" /\ row.phase = "running" /\ row.att = thread[t].att
         /\ \A u \in Threads : thread[u].pc \in Attempting /\ thread[u].att = row.att => u = t
<1>1. /\ row.status = "browser_running" /\ row.phase = "running" /\ row.sess = thread[t].sess
      /\ thread[t].sess = thread[t].att /\ thread[t].pc \in Attempting
  BY DEF WindowInv, Apart, AttemptInv, DrivesOwn, Attempting
<1>2. row.att = thread[t].att
  BY <1>1 DEF AttemptInv, RowIsItsAttempt
<1> QED BY <1>1, <1>2 DEF AttemptInv, OneDriver

LEMMA NobodyLaunches ==
  ASSUME RInv, AttemptInv, WindowInv,
         \/ row.status # "browser_running" \/ row.phase # "running"
         \/ \E t \in Threads : thread[t].pc \in Attempting \ {"launching"} /\ thread[t].att = row.att
  PROVE  \A u \in Threads : thread[u].pc # "launching"
BY LaunchedRow

\* One thread moves at most; the row stays, or nobody else submits and none of the
\* others' answers is one that an open window takes.
LEMMA WindowFrame ==
  ASSUME RInv, AttemptInv, WindowInv, NEW t, NEW s,
         \A u \in Threads : u # t => thread'[u] = thread[u],
         t \in Threads => /\ thread'[t] = s /\ Apart(s)'
                          /\ s.pc = "launching" => row'.rev > row.rev,
         SweptIsParked', UNCHANGED sweep \/ SweptIsOld',
         \/ row' = row
         \/ /\ row'.rev > row.rev /\ row' \in RunRecord
            /\ \A u \in Threads : u # t => thread[u].pc \notin {"submitting", "launching"}
            /\ OwnerWindow' => \A u \in Threads : u # t /\ thread[u].pc = "calling" =>
                                  ~(row'.key = thread[u].key /\ row'.sess = thread[u].sess)
  PROVE  WindowInv'
<1>1. (row.rev \in Nat /\ row'.rev \in Nat) \/ row' = row
  BY DEF RInv, RunRecord
<1>2. ASSUME NEW u \in Threads, u # t
      PROVE  Apart(thread[u])'
  <2>1. thread'[u] = thread[u] /\ Apart(thread[u]) /\ DrivesOwn(thread[u])
    BY <1>2 DEF WindowInv, AttemptInv
  <2>2. CASE row' = row
    BY <2>1, <2>2 DEF Apart, OwnerWindow
  <2>3. CASE row'.rev > row.rev /\ row' \in RunRecord
    <3>1. thread[u].pc \in Seeing => thread[u].rev # row'.rev
      <4>1. row.rev \in Nat /\ row'.rev \in Nat
        BY <2>3 DEF RInv, RunRecord
      <4> QED BY <2>1, <2>3, <4>1 DEF DrivesOwn
    <3>2. thread[u].pc \notin {"submitting", "launching"} \/ row' = row
      BY <1>2
    <3> QED BY <1>2, <2>1, <2>2, <3>1, <3>2 DEF Apart
  <2> QED BY <2>2, <2>3
<1>3. SweptIsOld'
  <2>1. SUFFICES ASSUME UNCHANGED sweep, sweep.pc = "stale"
                 PROVE  /\ sweep.rev <= row'.rev
                        /\ sweep.rev = row'.rev => \A u \in Threads : thread'[u].pc # "launching"
    BY DEF SweptIsOld
  <2>2. /\ sweep.rev \in Nat /\ row.rev \in Nat /\ sweep.rev <= row.rev
        /\ sweep.rev = row.rev => \A u \in Threads : thread[u].pc # "launching"
    BY <2>1 DEF RInv, WorldTypes, SweepState, RunRecord, WindowInv, SweptIsOld
  <2>3. CASE row' = row
    BY <2>2, <2>3
  <2>4. CASE row'.rev > row.rev /\ row' \in RunRecord
    <3>1. row'.rev \in Nat
      BY <2>4 DEF RunRecord
    <3> QED BY <2>2, <2>4, <3>1
  <2> QED BY <2>3, <2>4
<1> QED BY <1>2, <1>3 DEF WindowInv

LEMMA NotSwept ==
  ASSUME SweptIsParked, UNCHANGED sweep, ~Parked \/ \E u \in Threads : thread[u].pc # "idle"
  PROVE  SweptIsParked'
BY DEF SweptIsParked, Unattended

LEMMA OthersStay ==
  ASSUME RInv, NEW t \in Threads, NEW s, Goes(t, s)
  PROVE  thread'[t] = s /\ \A u \in Threads : u # t => thread'[u] = thread[u]
BY DEF RInv, Goes

\* A thread at work moves, and the row stays or is none that waits for its owner.
LEMMA WindowShut ==
  ASSUME RInv, AttemptInv, WindowInv, NEW t \in Threads, NEW s, Goes(t, s), UNCHANGED sweep,
         ~Parked \/ thread[t].pc # "idle", s.pc \notin {"submitting", "launching"}, RInv',
         \/ row' = row /\ Apart(s)
         \/ /\ ~OwnerWindow' /\ row'.rev > row.rev
            /\ \A u \in Threads : u # t => thread[u].pc \notin {"submitting", "launching"}
  PROVE  WindowInv'
<1>1. SweptIsParked'
  BY NotSwept DEF WindowInv
<1>2. thread'[t] = s /\ \A u \in Threads : u # t => thread'[u] = thread[u]
  BY OthersStay
<1>3. Apart(s)'
  <2>1. CASE row' = row /\ Apart(s)
    BY <2>1 DEF Apart, OwnerWindow
  <2>2. CASE ~OwnerWindow'
    BY <2>2, ApartWhenShut
  <2> QED BY <2>1, <2>2
<1>4. row' \in RunRecord
  BY DEF RInv
<1> QED BY <1>1, <1>2, <1>3, <1>4, WindowFrame

\* What a step keeps while a run waits for its owner.
Spares == WindowInv' /\ (OwnerWindow => row' = row)

LEMMA SparesOfStart ==
  ASSUME RInv, AttemptInv, WindowInv, RInv', NEW t \in Threads,
         \/ ReserveStart(t) \/ RefuseStart(t) \/ SessionOpens(t) \/ BindSession(t)
         \/ StartFails(t) /\ thread[t].pc = "starting"
  PROVE  Spares
<1>1. /\ thread[t].pc \in Starters /\ thread[t].pc # "idle"
      /\ \A u \in Threads : u # t => thread[u].pc # "submitting"
      /\ UNCHANGED sweep
  BY StarterIsAlone DEF ReserveStart, RefuseStart, SessionOpens, BindSession, StartFails, Starters
<1>2. /\ row \in RunRecord /\ row.rev \in Nat /\ thread[t] \in ThreadState
      /\ row.status \in {"route_selected", "failed", "configuration_required"} /\ ~OwnerWindow
  BY <1>1 DEF RInv, RunRecord, AttemptInv, Starts, OwnerWindow
<1>3. \A u \in Threads : u # t => thread[u].pc \notin {"submitting", "launching"}
  BY <1>1, <1>2, LaunchedRow
<1>4. CASE SessionOpens(t)
  <2>1. PICK s : s = [thread[t] EXCEPT !.sess = thread[t].att]
    OBVIOUS
  <2>2. /\ Goes(t, s) /\ row' = row /\ s.pc = "starting"
    BY <1>2, <1>4, <2>1 DEF SessionOpens, rowVars, ThreadState
  <2>3. Apart(s)
    BY <2>2, ApartWhenAway DEF Driven, Seeing
  <2> QED BY <1>1, <1>2, <2>2, <2>3, WindowShut DEF Spares
<1>5. CASE BindSession(t)
  <2>1. PICK s : s = [thread[t] EXCEPT !.pc = "launching"]
    OBVIOUS
  <2>2. Goes(t, s) /\ s.pc = "launching" /\ s.sess = thread[t].sess
    BY <1>2, <1>5, <2>1 DEF BindSession, ThreadState
  <2>3. /\ row'.status = "browser_running" /\ row'.phase = "running" /\ row'.sess = thread[t].sess
        /\ row'.rev > row.rev /\ row' \in RunRecord
    BY <1>2, <1>5 DEF BindSession, RunRecord, RInv
  <2>4. ~OwnerWindow' /\ Apart(s)'
    BY <2>2, <2>3 DEF Apart, OwnerWindow, AwaitingOwner
  <2>5. SweptIsParked'
    BY <1>1, NotSwept DEF WindowInv
  <2>6. thread'[t] = s /\ \A u \in Threads : u # t => thread'[u] = thread[u]
    BY <2>2, OthersStay
  <2>7. WindowInv'
    BY <1>1, <1>3, <2>3, <2>4, <2>5, <2>6, WindowFrame
  <2> QED BY <1>2, <2>7 DEF Spares
<1>6. ASSUME row'.rev > row.rev, row'.status \in {"route_selected", "failed", "configuration_required"},
             NEW s, Goes(t, s), s.pc \notin {"submitting", "launching"}
      PROVE  Spares
  <2>1. ~OwnerWindow'
    BY <1>6 DEF OwnerWindow
  <2> QED BY <1>1, <1>2, <1>3, <1>6, <2>1, WindowShut DEF Spares
<1>7. CASE ReserveStart(t)
  <2> DEFINE att == IF thread[t].att = 0 THEN row.att + 1 ELSE thread[t].att
             taken == [row EXCEPT !.phase = "browser_starting", !.key = Key("start", att),
                                  !.att = att, !.rev = @ + 1]
  <2>1. taken.status = row.status /\ taken.rev = row.rev + 1
    BY <1>2 DEF RunRecord
  <2>2. row' = taken \/ Record("configuration_required", "recoverable")
    BY <1>7 DEF ReserveStart
  <2>3. row'.rev > row.rev /\ row'.status \in {"route_selected", "failed", "configuration_required"}
    <3>1. CASE Record("configuration_required", "recoverable")
      BY <1>2, <3>1 DEF RunRecord, Record
    <3> HIDE DEF taken
    <3> QED BY <1>2, <2>1, <2>2, <3>1
  <2>4. PICK pc \in {"starting", "refused", "idle"} : \E s : Goes(t, s) /\ s.pc = pc
    <3>1. CASE Goes(t, Idle)
      BY <3>1, IdleIsAThread
    <3>2. ASSUME NEW s, \/ s = [thread[t] EXCEPT !.pc = "refused"]
                        \/ \E a, key : s = [thread[t] EXCEPT !.pc = "starting", !.att = a, !.key = key]
          PROVE  s.pc \in {"starting", "refused"}
      BY <1>2, <3>2 DEF ThreadState
    <3> QED BY <1>7, <3>1, <3>2 DEF ReserveStart
  <2> QED BY <1>6, <2>3, <2>4
<1>8. CASE RefuseStart(t) \/ StartFails(t)
  <2>1. PICK status \in {"failed", "configuration_required"}, phase \in {"recoverable", "effect_reconciliation"} :
                Record(status, phase)
    BY <1>8 DEF RefuseStart, StartFails
  <2>2. row'.rev > row.rev /\ row'.status = status
    BY <1>2, <2>1 DEF RunRecord, Record
  <2>3. Goes(t, Idle) /\ Idle.pc = "idle"
    BY <1>8, IdleIsAThread DEF RefuseStart, StartFails
  <2> QED BY <1>6, <2>2, <2>3
<1> QED BY <1>4, <1>5, <1>7, <1>8

\* The thread of a bound session starts, or fails to: no owner is waited for yet.
LEMMA SparesOfLaunch ==
  ASSUME RInv, AttemptInv, WindowInv, RInv', NEW t \in Threads, thread[t].pc = "launching",
         ThreadStarts(t) \/ StartFails(t)
  PROVE  Spares
<1>1. /\ row \in RunRecord /\ row.rev \in Nat /\ thread[t] \in ThreadState /\ UNCHANGED sweep
      /\ row.status = "browser_running" /\ row.phase = "running" /\ ~OwnerWindow
      /\ \A u \in Threads : thread[u].pc \in Attempting /\ thread[u].att = row.att => u = t
  BY LaunchedRow DEF RInv, RunRecord, ThreadStarts, StartFails, OwnerWindow, AwaitingOwner
<1>2. \A u \in Threads : u # t => thread[u].pc \notin {"submitting", "launching"}
  <2>1. ASSUME NEW u \in Threads, thread[u].pc = "launching"
        PROVE  u = t
    <3>1. thread[u].pc \in Attempting
      BY <2>1 DEF Attempting
    <3> QED BY <1>1, <2>1, <3>1, LaunchedRow
  <2>2. \A u \in Threads : thread[u].pc # "submitting"
    BY <1>1 DEF WindowInv, Apart
  <2> QED BY <2>1, <2>2
<1>3. CASE ThreadStarts(t)
  <2>1. PICK s : s = [thread[t] EXCEPT !.pc = "bound"]
    OBVIOUS
  <2>2. Goes(t, s) /\ row' = row /\ s.pc = "bound"
    BY <1>1, <1>3, <2>1 DEF ThreadStarts, rowVars, ThreadState
  <2>3. Apart(s)
    BY <2>2, ApartWhenAway DEF Driven, Seeing
  <2> QED BY <1>1, <2>2, <2>3, WindowShut DEF Spares
<1>4. CASE StartFails(t)
  <2>1. Record("failed", "recoverable") /\ Goes(t, Idle) /\ Idle.pc = "idle"
    BY <1>4, IdleIsAThread DEF StartFails
  <2>2. row'.rev > row.rev /\ row'.status = "failed"
    BY <1>1, <2>1 DEF RunRecord, Record
  <2>3. ~OwnerWindow'
    BY <2>2 DEF OwnerWindow
  <2> QED BY <1>1, <1>2, <2>1, <2>2, <2>3, WindowShut DEF Spares
<1> QED BY <1>3, <1>4

LEMMA SparesOfDrive ==
  ASSUME RInv, AttemptInv, WindowInv, RInv', NEW t \in Threads,
         \/ DriveBrowser(t) \/ (\E out \in Outcomes : ApplyObservation(t, out))
         \/ WorkerMints(t) \/ (\E out \in Outcomes : CaptureReturns(t, out))
         \/ ReleaseSession(t)
  PROVE  Spares
<1>1. row' = row /\ UNCHANGED sweep /\ thread[t].pc # "idle"
  BY DEF DriveBrowser, ApplyObservation, WorkerMints, CaptureReturns, ReleaseSession, rowVars
<1>2. thread[t] \in ThreadState /\ DrivesOwn(thread[t]) /\ Apart(thread[t])
  BY DEF RInv, AttemptInv, WindowInv
<1>3. ASSUME NEW s, Goes(t, s), Apart(s), s.pc \notin {"submitting", "launching"}
      PROVE  Spares
  BY <1>1, <1>3, WindowShut DEF Spares
<1>4. Goes(t, Idle) => Spares
  <2>1. Apart(Idle) /\ Idle.pc \notin {"submitting", "launching"}
    BY IdleIsAThread, ApartWhenAway DEF Driven, Seeing
  <2> QED BY <1>3, <2>1
<1>5. CASE DriveBrowser(t)
  <2>1. PICK s : s = [thread[t] EXCEPT !.pc = "calling", !.key = row.key]
    OBVIOUS
  <2>2. s.pc = "calling"
    BY <1>2, <2>1 DEF ThreadState
  <2>3. CASE Goes(t, s) /\ row.phase = "running"
    BY <1>3, <2>2, <2>3 DEF Apart, OwnerWindow, AwaitingOwner, Seeing
  <2> QED BY <1>4, <1>5, <2>1, <2>3 DEF DriveBrowser
<1>6. ASSUME NEW out \in Outcomes, ApplyObservation(t, out)
      PROVE  Spares
  <2>1. PICK s : s = [thread[t] EXCEPT !.pc = "adhere", !.rev = row.rev, !.out = out]
    OBVIOUS
  <2>2. s.pc = "adhere" /\ thread[t].pc = "calling"
    BY <1>2, <1>6, <2>1 DEF ThreadState, ApplyObservation
  <2>3. CASE Goes(t, s) /\ Bound(t, Driving, thread[t].key, 0)
    <3>1. thread[t].key # NoKey
      BY <1>2, <2>2 DEF DrivesOwn, Runnable, NoKey, Driven
    <3>2. ~OwnerWindow
      BY <1>2, <2>2, <2>3, <3>1 DEF Bound, Apart
    <3> QED BY <1>3, <2>2, <2>3, <3>2 DEF Apart
  <2> QED BY <1>4, <1>6, <2>1, <2>3 DEF ApplyObservation
<1>7. CASE WorkerMints(t)
  <2>1. PICK s : s = [thread[t] EXCEPT !.refs = TRUE]
    OBVIOUS
  <2>2. s.pc = "capturing" /\ s.rev = thread[t].rev /\ thread[t].pc = "capturing"
    BY <1>2, <1>7, <2>1 DEF ThreadState, WorkerMints
  <2> QED BY <1>2, <1>3, <1>7, <2>1, <2>2 DEF WorkerMints, Apart, Seeing
<1>8. ASSUME NEW out \in Outcomes, CaptureReturns(t, out)
      PROVE  Spares
  <2>1. PICK s : s = [thread[t] EXCEPT !.pc = "project", !.out = out, !.refs = out \in FinalizeCaptured]
    OBVIOUS
  <2>2. s.pc = "project" /\ s.rev = thread[t].rev /\ thread[t].pc = "capturing"
    BY <1>2, <1>8, <2>1 DEF ThreadState, CaptureReturns
  <2>3. Apart(s)
    BY <1>2, <2>2 DEF Apart, Seeing
  <2> QED BY <1>3, <1>8, <2>1, <2>2, <2>3 DEF CaptureReturns
<1> QED BY <1>4, <1>5, <1>6, <1>7, <1>8 DEF ReleaseSession

LEMMA SparesOfAdhere ==
  ASSUME RInv, AttemptInv, WindowInv, RInv', NEW t \in Threads, AdhereToRoute(t)
  PROVE  Spares
<1>1. /\ thread[t].pc = "adhere" /\ thread[t].pc \in Seeing /\ UNCHANGED sweep
      /\ \A u \in Threads : thread[u].pc # "submitting"
  BY NobodySubmits DEF AdhereToRoute, Seeing
<1>2. /\ thread[t] \in ThreadState /\ Apart(thread[t]) /\ row \in RunRecord /\ row.rev \in Nat
  BY DEF RInv, RunRecord, WindowInv
<1>3. ASSUME NEW rev, NEW action, Adheres(t, rev, action)
      PROVE  \E s : Goes(t, s) /\ s.pc \in {"resolve", "project"} /\ s.rev = rev
  <2>1. PICK pc \in {"resolve", "project"}, out \in {thread[t].out, "diverged", "blocked"} :
           Goes(t, [thread[t] EXCEPT !.rev = rev, !.pc = pc, !.out = out])
    BY <1>3 DEF Adheres
  <2>2. PICK s : s = [thread[t] EXCEPT !.rev = rev, !.pc = pc, !.out = out]
    OBVIOUS
  <2>3. s.pc = pc /\ s.rev = rev
    BY <1>2, <2>2 DEF ThreadState
  <2>4. Goes(t, s)
    BY <2>1, <2>2
  <2> QED BY <2>3, <2>4
<1>4. ASSUME NEW action, Adheres(t, thread[t].rev, action), row' = row
      PROVE  Spares
  <2>1. PICK s : Goes(t, s) /\ s.pc \in {"resolve", "project"} /\ s.rev = thread[t].rev
    BY <1>3, <1>4
  <2>2. Apart(s) /\ s.pc # "submitting"
    BY <1>1, <1>2, <2>1 DEF Apart, Seeing
  <2> QED BY <1>1, <1>4, <2>1, <2>2, WindowShut DEF Spares
<1>5. ASSUME row.rev = thread[t].rev, row' = [row EXCEPT !.plan = 2, !.rev = @ + 1],
             NEW action, Adheres(t, thread[t].rev + 1, action)
      PROVE  Spares
  <2>1. ~OwnerWindow
    BY <1>1, <1>2, <1>5 DEF Apart
  <2>2. row'.status = row.status /\ row'.phase = row.phase /\ row'.rev > row.rev
    BY <1>2, <1>5 DEF RunRecord
  <2>3. ~OwnerWindow'
    BY <2>1, <2>2 DEF OwnerWindow
  <2>4. PICK s : Goes(t, s) /\ s.pc \in {"resolve", "project"}
    BY <1>3, <1>5
  <2>5. \A u \in Threads : thread[u].pc # "launching"
    <3>1. thread[t].pc \in Attempting \ {"launching"}
      BY <1>1 DEF Attempting, Driven, Seeing
    <3>2. thread[t].att = row.att
      BY <1>1, <1>5 DEF AttemptInv, DrivesOwn
    <3> QED BY <3>1, <3>2, NobodyLaunches
  <2> QED BY <1>1, <2>1, <2>2, <2>3, <2>4, <2>5, WindowShut DEF Spares
<1>6. CASE Goes(t, Idle) /\ row' = row
  <2>1. Apart(Idle) /\ Idle.pc \notin {"submitting", "launching"}
    BY IdleIsAThread, ApartWhenAway DEF Driven, Seeing
  <2> QED BY <1>1, <1>6, <2>1, WindowShut DEF Spares
<1> QED BY <1>4, <1>5, <1>6 DEF AdhereToRoute, ReplanRunRoute

\* The row that a thread in Seeing finds bound waits for nobody.
LEMMA BoundIsShut ==
  ASSUME RInv, AttemptInv, WindowInv, NEW t \in Threads, thread[t].pc \in Seeing,
         Bound(t, Driving, thread[t].key, thread[t].rev)
  PROVE  ~OwnerWindow /\ \A u \in Threads : thread[u].pc # "launching"
<1>1. ~OwnerWindow /\ thread[t].att = row.att
  BY BoundIsItsAttempt DEF WindowInv, Apart
<1>2. thread[t].pc \in Attempting \ {"launching"}
  BY DEF Attempting, Driven, Seeing
<1> QED BY <1>1, <1>2, NobodyLaunches

LEMMA SparesOfCapture ==
  ASSUME RInv, AttemptInv, WindowInv, RInv', NEW t \in Threads, ReserveCapture(t)
  PROVE  Spares
<1>1. /\ thread[t].pc = "resolve" /\ thread[t].pc \in Seeing /\ UNCHANGED sweep
      /\ \A u \in Threads : thread[u].pc # "submitting"
  BY NobodySubmits DEF ReserveCapture, Seeing
<1>2. /\ thread[t] \in ThreadState /\ Apart(thread[t]) /\ row \in RunRecord /\ row.rev \in Nat
  BY DEF RInv, RunRecord, WindowInv
<1>3. ASSUME NEW s, Goes(t, s), s.pc = "project", s.rev = thread[t].rev, row' = row
      PROVE  Spares
  <2>1. Apart(s) /\ s.pc # "submitting"
    BY <1>1, <1>2, <1>3 DEF Apart, Seeing
  <2> QED BY <1>1, <1>3, <2>1, WindowShut DEF Spares
<1>4. ASSUME NEW s, Goes(t, s), s.pc \in {"capturing", "project"},
             Bound(t, Driving, thread[t].key, thread[t].rev),
             row' = [row EXCEPT !.status = "browser_running", !.phase = "capture_reserved",
                                !.key = CaptureKey, !.rev = @ + 1]
      PROVE  Spares
  <2>1. row'.phase = "capture_reserved" /\ row'.rev > row.rev
    BY <1>2, <1>4 DEF RunRecord
  <2>2. ~OwnerWindow' /\ ~OwnerWindow /\ \A u \in Threads : thread[u].pc # "launching"
    BY <1>1, <1>4, <2>1, BoundIsShut DEF OwnerWindow, AwaitingOwner
  <2> QED BY <1>1, <1>4, <2>1, <2>2, WindowShut DEF Spares
<1>5. CASE row' = row
  <2>1. PICK out : Goes(t, [thread[t] EXCEPT !.pc = "project", !.out = out])
    <3>1. [thread[t] EXCEPT !.pc = "project"] = [thread[t] EXCEPT !.pc = "project", !.out = thread[t].out]
      BY <1>2 DEF ThreadState
    <3>2. \/ Goes(t, [thread[t] EXCEPT !.pc = "project"])
          \/ Goes(t, [thread[t] EXCEPT !.pc = "project", !.out = "stale"])
      <4>1. row' # [row EXCEPT !.status = "browser_running", !.phase = "capture_reserved",
                               !.key = CaptureKey, !.rev = @ + 1]
        <5>1. [row EXCEPT !.status = "browser_running", !.phase = "capture_reserved",
                          !.key = CaptureKey, !.rev = @ + 1].rev = row.rev + 1
          BY <1>2 DEF RunRecord
        <5>2. row.rev # row.rev + 1
          BY <1>2
        <5> QED BY <1>5, <5>1, <5>2
      <4> QED BY <1>5, <4>1 DEF ReserveCapture
    <3> QED BY <3>1, <3>2
  <2>2. PICK s : s = [thread[t] EXCEPT !.pc = "project", !.out = out]
    OBVIOUS
  <2>3. s.pc = "project" /\ s.rev = thread[t].rev
    BY <1>2, <2>2 DEF ThreadState
  <2>4. Goes(t, s)
    BY <2>1, <2>2
  <2> QED BY <1>3, <1>5, <2>3, <2>4
<1>6. CASE row' # row
  <2> DEFINE holding == [thread[t] EXCEPT !.key = CaptureKey, !.rev = @ + 1]
  <2>1. /\ Bound(t, Driving, thread[t].key, thread[t].rev)
        /\ row' = [row EXCEPT !.status = "browser_running", !.phase = "capture_reserved",
                              !.key = CaptureKey, !.rev = @ + 1]
        /\ \/ Goes(t, [holding EXCEPT !.pc = "capturing"])
           \/ Goes(t, [holding EXCEPT !.pc = "project", !.out = "grantless"])
           \/ Goes(t, [holding EXCEPT !.pc = "project", !.out = "reserved"])
    BY <1>6 DEF ReserveCapture
  <2>2. ASSUME NEW x, x = [holding EXCEPT !.pc = "capturing"], Goes(t, x)
        PROVE  Spares
    <3>1. x.pc = "capturing"
      BY <1>2, <2>2 DEF ThreadState
    <3> QED BY <1>4, <2>1, <2>2, <3>1
  <2>3. ASSUME NEW x, NEW out, x = [holding EXCEPT !.pc = "project", !.out = out], Goes(t, x)
        PROVE  Spares
    <3>1. x.pc = "project"
      BY <1>2, <2>3 DEF ThreadState
    <3> QED BY <1>4, <2>1, <2>3, <3>1
  <2> QED BY <2>1, <2>2, <2>3
<1> QED BY <1>5, <1>6

LEMMA SparesOfProject ==
  ASSUME RInv, AttemptInv, WindowInv, RInv', NEW t \in Threads, Project(t)
  PROVE  Spares
<1>1. /\ thread[t].pc = "project" /\ thread[t].pc \in Seeing /\ thread[t].pc \in Attempting
      /\ thread[t].pc # "idle" /\ UNCHANGED sweep
      /\ \A u \in Threads : thread[u].pc # "submitting"
  BY NobodySubmits DEF Project, Seeing, Attempting, Driven
<1>2. row \in RunRecord /\ row.rev \in Nat /\ row' \in RunRecord
  BY DEF RInv, RunRecord
<1>3. PICK s : /\ s.pc \in {"idle", "release"} /\ Goes(t, s)
  <2>1. PICK r : r = [Idle EXCEPT !.pc = "release", !.sess = thread[t].sess]
    OBVIOUS
  <2>2. r.pc = "release"
    BY <2>1 DEF Idle
  <2>3. Goes(t, Idle) \/ Goes(t, r)
    BY <2>1 DEF Project
  <2> QED BY <2>2, <2>3, IdleIsAThread
<1>4. Apart(s) /\ Apart(s)' /\ s.pc \notin {"submitting", "launching"}
  BY <1>3, ApartWhenAway DEF Driven, Seeing
<1>5. CASE row' = row
  BY <1>1, <1>3, <1>4, <1>5, WindowShut DEF Spares
<1>6. ASSUME Bound(t, Driving, thread[t].key, thread[t].rev), NEW status, NEW phase,
             row' = [row EXCEPT !.status = status, !.phase = phase, !.rev = @ + 1]
      PROVE  Spares
  <2>1. row'.rev > row.rev /\ row'.key = row.key /\ row'.sess = row.sess
    BY <1>2, <1>6 DEF RunRecord
  <2>2. ~OwnerWindow /\ row.key = thread[t].key /\ \A u \in Threads : thread[u].pc # "launching"
    BY <1>1, <1>6, BoundIsShut, BoundIsItsAttempt
  <2>3. ASSUME NEW u \in Threads, u # t, thread[u].pc = "calling"
        PROVE  row.key # thread[u].key
    <3>1. /\ thread[u].key.kind \in Runnable /\ thread[u].key.n = thread[u].att /\ thread[u].pc \in Attempting
          /\ \/ thread[t].key.kind \in Runnable /\ thread[t].key.n = thread[t].att
             \/ thread[t].key = CaptureKey
      BY <1>1, <2>3 DEF AttemptInv, DrivesOwn, Driven, Seeing, Attempting
    <3>2. CaptureKey.kind \notin Runnable
      BY DEF CaptureKey, Key, Runnable
    <3>3. thread[u].att # thread[t].att
      BY <1>1, <2>3, <3>1 DEF AttemptInv, OneDriver
    <3> QED BY <2>2, <3>1, <3>2, <3>3
  <2>4. thread'[t] = s /\ \A u \in Threads : u # t => thread'[u] = thread[u]
    BY <1>3, OthersStay
  <2>5. SweptIsParked'
    BY <1>1, NotSwept DEF WindowInv
  <2>6. WindowInv'
    BY <1>1, <1>2, <1>4, <2>1, <2>2, <2>3, <2>4, <2>5, WindowFrame
  <2> QED BY <2>2, <2>6 DEF Spares
<1> QED BY <1>5, <1>6 DEF Project

LEMMA SparesOfPeople ==
  ASSUME RInv, AttemptInv, WindowInv, RInv', NEW t \in Threads,
         RetryBrowserRun(t) \/ ResumeRun(t) \/ SubmissionEnds(t)
  PROVE  Spares
<1>1. row \in RunRecord /\ row.rev \in Nat /\ row' \in RunRecord /\ UNCHANGED sweep
  BY DEF RInv, RunRecord, RetryBrowserRun, ResumeRun, SubmissionEnds
<1>2. CASE RetryBrowserRun(t)
  <2>1. ~OwnerWindow /\ ~Parked /\ \A u \in Threads : thread[u].pc \notin {"submitting", "launching"}
    BY <1>2, NobodySubmits, NobodyLaunches DEF RetryBrowserRun, OwnerWindow, Parked
  <2>2. CASE OpensOwnerWindow /\ thread' = thread
    <3>1. row'.rev > row.rev /\ row'.sess = 0
      BY <1>1, <2>2 DEF OpensOwnerWindow, RunRecord
    <3>2. \A u \in Threads : thread[u].pc = "calling" => thread[u].sess # 0
      BY DEF AttemptInv, DrivesOwn, Driven
    <3>3. SweptIsParked' /\ "free" \notin Threads
      BY <1>1, <2>1, NotSwept, RuntimeAssumption DEF WindowInv
    <3>4. WindowInv'
      BY <1>1, <2>1, <2>2, <3>1, <3>2, <3>3, WindowFrame
    <3> QED BY <2>1, <3>4 DEF Spares
  <2>3. CASE row' = row /\ Goes(t, [Idle EXCEPT !.pc = "reserve", !.att = row.att + 1])
    <3>1. PICK s : s = [Idle EXCEPT !.pc = "reserve", !.att = row.att + 1]
      OBVIOUS
    <3>2. s.pc = "reserve"
      BY <3>1 DEF Idle
    <3>3. Apart(s)
      BY <3>2, ApartWhenAway DEF Driven, Seeing
    <3> QED BY <1>1, <2>1, <2>3, <3>1, <3>2, <3>3, WindowShut DEF Spares
  <2> QED BY <1>2, <2>2, <2>3 DEF RetryBrowserRun
<1>3. CASE ResumeRun(t)
  <2>1. ~OwnerWindow /\ ~Parked /\ \A u \in Threads : thread[u].pc \notin {"submitting", "launching"}
    BY <1>3, NobodySubmits, NobodyLaunches DEF ResumeRun, OwnerWindow, Parked
  <2>2. row'.rev > row.rev /\ row'.phase = "target_probe_pending"
    BY <1>1, <1>3 DEF ResumeRun, RunRecord
  <2>3. ~OwnerWindow'
    BY <2>2 DEF OwnerWindow, AwaitingOwner
  <2>4. PICK s : s = [Idle EXCEPT !.pc = "calling", !.sess = row.sess, !.key = Key("resume", row.att + 1),
                                  !.att = row.att + 1]
    OBVIOUS
  <2>5. s.pc = "calling" /\ Goes(t, s)
    BY <1>3, <2>4 DEF Idle, ResumeRun
  <2> QED BY <1>1, <2>1, <2>2, <2>3, <2>5, WindowShut DEF Spares
<1>4. CASE SubmissionEnds(t)
  <2>1. /\ thread[t].pc = "submitting" /\ thread[t].pc # "idle" /\ row.phase = "submission_reserved"
        /\ row.status = "browser_running" /\ row.key = Key("submit", 1) /\ ~OwnerWindow
        /\ \A u \in Threads : u # t => thread[u].pc \notin {"submitting", "launching"}
    BY <1>4 DEF SubmissionEnds, WindowInv, Apart, OwnerWindow, AwaitingOwner, AttemptInv, Starts
  <2>2. PICK s : s.pc \in {"idle", "release"} /\ Goes(t, s)
    <3>1. PICK r : r = [Idle EXCEPT !.pc = "release", !.sess = row.sess]
      OBVIOUS
    <3>2. r.pc = "release"
      BY <3>1 DEF Idle
    <3>3. Goes(t, Idle) \/ Goes(t, r)
      BY <1>4, <3>1 DEF SubmissionEnds
    <3> QED BY <3>2, <3>3, IdleIsAThread
  <2>3. Apart(s) /\ Apart(s)' /\ s.pc \notin {"submitting", "launching"}
    BY <2>2, ApartWhenAway DEF Driven, Seeing
  <2>4. CASE row' = row
    BY <1>1, <2>1, <2>2, <2>3, <2>4, WindowShut DEF Spares
  <2>5. ASSUME NEW status, NEW phase, row' = [row EXCEPT !.status = status, !.phase = phase, !.rev = @ + 1]
        PROVE  Spares
    <3>1. row'.rev > row.rev /\ row'.key = Key("submit", 1)
      BY <1>1, <2>1, <2>5 DEF RunRecord
    <3>2. \A u \in Threads : thread[u].pc = "calling" => Key("submit", 1) # thread[u].key
      <4>1. \A u \in Threads : thread[u].pc = "calling" => thread[u].key.kind \in Runnable
        BY DEF AttemptInv, DrivesOwn, Driven
      <4>2. Key("submit", 1).kind \notin Runnable
        BY DEF Key, Runnable
      <4> QED BY <4>1, <4>2
    <3>3. thread'[t] = s /\ \A u \in Threads : u # t => thread'[u] = thread[u]
      BY <2>2, OthersStay
    <3>4. SweptIsParked'
      BY <1>1, <2>1, NotSwept DEF WindowInv
    <3>5. WindowInv'
      BY <1>1, <2>1, <2>3, <3>1, <3>2, <3>3, <3>4, WindowFrame
    <3> QED BY <2>1, <3>5 DEF Spares
  <2>6. row' = row \/ \E status, phase : row' = [row EXCEPT !.status = status, !.phase = phase, !.rev = @ + 1]
    <3>1. [row EXCEPT !.phase = thread[t].out, !.rev = @ + 1]
            = [row EXCEPT !.status = row.status, !.phase = thread[t].out, !.rev = @ + 1]
      BY <1>1 DEF RunRecord
    <3>2. CASE row' = [row EXCEPT !.phase = thread[t].out, !.rev = @ + 1]
      BY <3>1, <3>2
    <3>3. ASSUME NEW to, Record(to[1], to[2])
          PROVE  \E status, phase : row' = [row EXCEPT !.status = status, !.phase = phase, !.rev = @ + 1]
      BY <3>3 DEF Record
    <3> QED BY <1>4, <3>2, <3>3 DEF SubmissionEnds
  <2> QED BY <2>4, <2>5, <2>6
<1> QED BY <1>2, <1>3, <1>4

\* The owner's submission closes the window.
LEMMA WindowOfSubmission ==
  ASSUME RInv, AttemptInv, WindowInv, RInv', NEW t \in Threads, OwnerSubmits(t)
  PROVE  WindowInv'
<1>1. /\ row \in RunRecord /\ row.rev \in Nat /\ row' \in RunRecord /\ UNCHANGED sweep
      /\ ~Parked /\ \A u \in Threads : thread[u].pc \notin {"submitting", "launching"}
  BY NobodySubmits, NobodyLaunches DEF RInv, RunRecord, OwnerSubmits, OwnerWindow, AwaitingOwner, Parked
<1>2. /\ row'.rev > row.rev /\ row'.phase = "submission_reserved" /\ row'.key = Key("submit", 1)
      /\ row'.status = "browser_running"
  BY <1>1 DEF OwnerSubmits, OwnerWindow, RunRecord
<1>3. ~OwnerWindow' /\ SweptIsParked' /\ "free" \notin Threads
  BY <1>1, <1>2, NotSwept, RuntimeAssumption DEF OwnerWindow, AwaitingOwner, WindowInv
<1>4. CASE thread' = thread
  BY <1>1, <1>2, <1>3, <1>4, WindowFrame
<1>5. ASSUME NEW s, s = [Idle EXCEPT !.pc = "submitting", !.out = row.phase], Goes(t, s)
      PROVE  WindowInv'
  <2>1. s.pc = "submitting"
    BY <1>5 DEF Idle
  <2>2. Apart(s)'
    BY <1>2, <1>3, <2>1 DEF Apart
  <2>3. thread'[t] = s /\ \A u \in Threads : u # t => thread'[u] = thread[u]
    BY <1>5, OthersStay
  <2> QED BY <1>1, <1>2, <1>3, <2>1, <2>2, <2>3, WindowFrame
<1> QED BY <1>4, <1>5 DEF OwnerSubmits

LEMMA SparesOfSweep ==
  ASSUME RInv, AttemptInv, WindowInv, RInv', ~mode.boot, SweepBegins \/ SweepStep
  PROVE  Spares
<1>1. thread' = thread /\ "free" \notin Threads /\ row \in RunRecord /\ row.rev \in Nat /\ row' \in RunRecord
  BY RuntimeAssumption DEF SweepBegins, SweepReads, ReconcileIdle, ReconcileStranded, SweepStep, PauseStaleRun,
         StopCanonicalBrowser, ReconcileOneStranded, SweepReleases, Stops, rowVars, worldVars, auditVars,
         RInv, RunRecord
<1>2. CASE SweepBegins
  <2>1. row' = row /\ ~ReconcileStranded
    BY <1>2 DEF SweepBegins, SweepReads, ReconcileIdle, ReconcileStranded, rowVars
  <2>2. SweptIsParked'
    <3>1. CASE SweepReads
      BY <3>1 DEF SweepReads, SweptIsParked
    <3>2. CASE ReconcileIdle
      BY <1>1, <2>1, <3>2 DEF ReconcileIdle, SweptIsParked, NoSweep, Parked, Unattended
    <3> QED BY <1>2, <2>1, <3>1, <3>2 DEF SweepBegins
  <2>3. SweptIsOld'
    BY <1>1, <1>2, <2>1 DEF SweepBegins, SweepReads, ReconcileIdle, NoSweep, SweptIsOld
  <2> QED BY <1>1, <2>1, <2>2, <2>3, WindowFrame DEF Spares
<1>3. CASE SweepStep
  <2>1. sweep'.pc \in {"idle", "release"}
    BY <1>3 DEF SweepStep, PauseStaleRun, StopCanonicalBrowser, ReconcileOneStranded, SweepReleases, Stops, NoSweep
  <2>2. SweptIsParked' /\ SweptIsOld'
    BY <2>1 DEF SweptIsParked, SweptIsOld
  <2>3. CASE row' = row
    BY <1>1, <2>2, <2>3, WindowFrame DEF Spares
  <2>4. ASSUME NEW status \in {"failed", "configuration_required"}, NEW phase, Record(status, phase),
               ~OwnerWindow, \A u \in Threads : thread[u].pc \notin {"submitting", "launching"}
        PROVE  Spares
    <3>1. row'.rev > row.rev /\ row'.status = status
      BY <1>1, <2>4 DEF Record, RunRecord
    <3>2. ~OwnerWindow'
      BY <3>1 DEF OwnerWindow
    <3>3. WindowInv'
      BY <1>1, <2>2, <2>4, <3>1, <3>2, WindowFrame
    <3> QED BY <2>4, <3>3 DEF Spares
  <2>5. CASE PauseStaleRun
    <3>1. row' = row \/ \A u \in Threads : thread[u].pc \notin {"submitting", "launching"}
      BY <2>5, NobodySubmits DEF PauseStaleRun, Stops, WindowInv, SweptIsOld
    <3> QED BY <2>3, <2>4, <2>5, <3>1 DEF PauseStaleRun, Stops, Parked, OwnerWindow
  <2>6. CASE StopCanonicalBrowser
    <3>1. row' = row \/ \A u \in Threads : thread[u].pc \notin {"submitting", "launching"}
      BY <2>6, NobodySubmits, NobodyLaunches DEF StopCanonicalBrowser, Stops
    <3> QED BY <2>3, <2>4, <2>6, <3>1 DEF StopCanonicalBrowser, Stops, OwnerWindow
  <2>7. CASE ReconcileOneStranded
    <3>1. /\ ~OwnerWindow /\ \A u \in Threads : thread[u].pc \notin {"submitting", "launching"}
      BY <2>7 DEF ReconcileOneStranded, WindowInv, SweptIsParked, Parked, Unattended, OwnerWindow
    <3> QED BY <2>3, <2>4, <2>7, <3>1 DEF ReconcileOneStranded, Stops
  <2>8. CASE SweepReleases
    BY <2>3, <2>8 DEF SweepReleases, rowVars
  <2> QED BY <1>3, <2>5, <2>6, <2>7, <2>8 DEF SweepStep
<1> QED BY <1>2, <1>3

LEMMA WindowStep ==
  ASSUME RInv, AttemptInv, WindowInv, RInv', ~mode.replay, ~mode.boot, [RNext]_runtimeVars
  PROVE  /\ WindowInv'
         /\ OwnerWindow /\ row' # row => \E t \in Threads : OwnerSubmits(t)
<1>1. ASSUME NEW t \in Threads,
             ThreadStep(t) \/ WorkerMints(t) \/ RetryBrowserRun(t) \/ ResumeRun(t)
      PROVE  Spares
  <2>1. /\ ThreadStarts(t) => thread[t].pc = "launching"
        /\ StartFails(t) => thread[t].pc \in {"starting", "launching"}
    BY DEF ThreadStarts, StartFails
  <2> QED BY <1>1, <2>1, SparesOfStart, SparesOfLaunch, SparesOfDrive, SparesOfAdhere, SparesOfCapture,
             SparesOfProject, SparesOfPeople DEF ThreadStep
<1>2. ASSUME NEW t \in Threads, ReplayCreate(t) \/ RecoverPristine(t)
      PROVE  FALSE
  BY <1>2 DEF ReplayCreate, RecoverPristine
<1>3. CASE ProcessDies
  <2>1. row' = row /\ sweep' = NoSweep /\ \A t \in Threads : thread'[t].pc = "idle"
    BY <1>3, IdleIsAThread DEF ProcessDies, rowVars
  <2>2. \A t \in Threads : Apart(thread[t])'
    BY <2>1 DEF Apart, Seeing
  <2> QED BY <2>1, <2>2 DEF WindowInv, SweptIsParked, SweptIsOld, NoSweep
<1>4. CASE UNCHANGED runtimeVars
  <2>1. UNCHANGED <<row, thread, sweep>>
    BY <1>4 DEF runtimeVars, rowVars
  <2>2. SweptIsParked' /\ SweptIsOld' /\ \A t \in Threads : Apart(thread[t])'
    BY <2>1 DEF WindowInv, SweptIsParked, SweptIsOld, Apart, OwnerWindow, Parked, Unattended
  <2> QED BY <2>1, <2>2 DEF WindowInv
<1>5. CASE SweepBegins \/ SweepStep
  BY <1>5, SparesOfSweep DEF Spares
<1>6. CASE \E t \in Threads : OwnerSubmits(t)
  BY <1>6, WindowOfSubmission
<1> QED BY <1>1, <1>2, <1>3, <1>4, <1>5, <1>6 DEF RNext, Spares

LEMMA ModeStays ==
  ASSUME [RNext]_runtimeVars
  PROVE  mode' = mode
<1>1. CASE SweepBegins \/ SweepStep \/ ProcessDies
  BY <1>1 DEF SweepBegins, SweepReads, ReconcileIdle, ReconcileStranded, SweepStep, PauseStaleRun,
     StopCanonicalBrowser, ReconcileOneStranded, SweepReleases, Stops, ProcessDies
<1>2. ASSUME NEW t \in Threads,
             \/ ThreadStep(t) \/ WorkerMints(t) \/ ReplayCreate(t) \/ RecoverPristine(t)
             \/ RetryBrowserRun(t) \/ ResumeRun(t) \/ OwnerSubmits(t)
      PROVE  mode' = mode
  BY <1>2 DEF ThreadStep, WorkerMints, ReplayCreate, RecoverPristine, ContinuePristine, RetryBrowserRun,
     ResumeRun, OwnerSubmits, ReserveStart, RefuseStart, SessionOpens, BindSession, ThreadStarts, StartFails,
     DriveBrowser, AdhereToRoute,
     ReserveCapture, Project, ReleaseSession, SubmissionEnds, ApplyObservation, CaptureReturns
<1> QED BY <1>1, <1>2 DEF RNext, runtimeVars

LEMMA OwnInit ==
  ASSUME RInit
  PROVE  OInv
<1>1. row.phase = "browser_pending" /\ sweep.pc = "idle"
  BY DEF RInit, NoSweep
<1>2. \A t \in Threads : thread[t] = Idle \/ thread[t] = [Idle EXCEPT !.pc = "reserve"]
  BY DEF RInit
<1>3. \A t \in Threads : thread[t].pc \in {"idle", "reserve"}
  BY <1>2 DEF Idle
<1>4. WindowInv
  BY <1>1, <1>3, ApartWhenAway DEF WindowInv, SweptIsParked, SweptIsOld, Driven, Seeing
<1> QED BY <1>4, RuntimeInit, AttemptInit DEF OInv

\* One step: the invariant, whose answer is projected, and who moves a waiting run.
LEMMA OwnStep ==
  ASSUME OInv, [RNext]_runtimeVars
  PROVE  /\ OInv'
         /\ \A t \in Threads : thread[t].pc = "project" /\ thread'[t] # thread[t] /\ row' # row
                                 => mode.replay \/ thread[t].att = row.att
         /\ OwnerWindow /\ ~mode.replay /\ ~mode.boot /\ row' # row => \E t \in Threads : OwnerSubmits(t)
<1>1. RInv /\ RInv' /\ mode' = mode
  BY RuntimeStep, ModeStays DEF OInv
<1>2. OInv'
  BY <1>1, AttemptStep, WindowStep DEF OInv
<1>3. RNext \/ row' = row
  BY DEF runtimeVars, rowVars
<1>4. ASSUME NEW t \in Threads, thread[t].pc = "project", thread'[t] # thread[t], row' # row, ~mode.replay
      PROVE  thread[t].att = row.att
  BY <1>1, <1>3, <1>4, ProjectsItsAttempt DEF OInv
<1>5. OwnerWindow /\ ~mode.replay /\ ~mode.boot /\ row' # row => \E t \in Threads : OwnerSubmits(t)
  BY <1>1, WindowStep DEF OInv
<1> QED BY <1>2, <1>4, <1>5

\* _apply_browser_observation and the projection's revision check: without replays of a
\* create that still starts, a thread writes only the attempt it was started for.
THEOREM AnswersFindTheirAttempt == RSpec => ProjectsOwnAttempt
<1>1. RInit => OInv
  BY OwnInit
<1>2. OInv /\ [RNext]_runtimeVars => OInv'
  BY OwnStep
<1>3. OInv /\ [RNext]_runtimeVars =>
        [\A t \in Threads : thread[t].pc = "project" /\ thread'[t] # thread[t] /\ row' # row
                              => mode.replay \/ thread[t].att = row.att]_runtimeVars
  BY OwnStep
<1> QED BY <1>1, <1>2, <1>3, PTL DEF RSpec, ProjectsOwnAttempt

\* AWAITING_OWNER_PHASES: without such a replay, and outside the sweep of a process that
\* has just started, nobody but the owner moves a run that waits for its owner.
THEOREM OwnersAreWaitedFor == RSpec => OwnerWindowHolds
<1>1. RInit => OInv
  BY OwnInit
<1>2. OInv /\ [RNext]_runtimeVars => OInv'
  BY OwnStep
<1>3. OInv /\ [RNext]_runtimeVars =>
        [OwnerWindow /\ ~mode.replay /\ ~mode.boot /\ row' # row
           => \E t \in Threads : OwnerSubmits(t)]_runtimeVars
  BY OwnStep
<1> QED BY <1>1, <1>2, <1>3, PTL DEF RSpec, OwnerWindowHolds

-----------------------------------------------------------------------------
(* The composition.                                                           *)

\* A behaviour of the composition is one of each part, most of them at rest.
LEMMA PartsOfControlPlane == MCSpec => MSpec /\ GSpec /\ LSpec
<1>1. MCInit => MInit /\ GInit /\ LInit
  BY DEF MCInit
<1>2. [MCNext]_<<part, runtimeVars, managedVars, grantVars, loginVars>> =>
        [MNext]_managedVars /\ [GNext]_grantVars /\ [LNext]_loginVars
  BY DEF MCNext
<1> QED BY <1>1, <1>2, PTL DEF MCSpec, MSpec, GSpec, LSpec

\* A run's secrets and an app's sign-in pairs (ops/core/secret_store.py) stay safe beside
\* the control plane's other parts.
THEOREM SecretsAreSafe == MCSpec => []SecretsSafety
<1>1. GrantsSafety /\ VaultSafety => SecretsSafety
  BY DEF SecretsSafety
<1> QED BY <1>1, PartsOfControlPlane, GrantsAreSafe, VaultIsSafe, PTL

\* The browser run keeps its invariant beside the other parts, where it is the one that
\* moves; elsewhere it rests.
RunInv == part = "run" => OInv

LEMMA RunPartInit == MCInit => RunInv
BY OwnInit DEF MCInit, RunInv

LEMMA RunPartStep ==
  ASSUME [MCNext]_<<part, runtimeVars, managedVars, grantVars, loginVars>>
  PROVE  part' = part /\ (part = "run" => [RNext]_runtimeVars) /\ (part # "run" => UNCHANGED runtimeVars)
BY DEF MCNext

\* A browser run (ops/workflow/canonical_runtime.py) mints at most one key, whatever the
\* other parts do.
THEOREM RuntimeIsSafe == MCSpec => []RuntimeSafety
<1>1. RunInv /\ [MCNext]_<<part, runtimeVars, managedVars, grantVars, loginVars>> => RunInv'
  BY RunPartStep, OwnStep DEF RunInv
<1>2. RunInv => RuntimeSafety
  BY RuntimeTypes DEF RunInv, OInv, RInv, RuntimeSafety
<1> QED BY <1>1, <1>2, RunPartInit, PTL DEF MCSpec

\* What comes late changes only what is still its own: a worker's answer, a sweep, a
\* broker's release and a vault's release, in the composition.
THEOREM LateStepsDoNoHarm == MCSpec => LateStepsAreHarmless
<1>1. RunInv /\ [MCNext]_<<part, runtimeVars, managedVars, grantVars, loginVars>> => RunInv'
  BY RunPartStep, OwnStep DEF RunInv
<1>2. RunInv /\ [MCNext]_<<part, runtimeVars, managedVars, grantVars, loginVars>> =>
        /\ [\A t \in Threads : thread[t].pc = "project" /\ thread'[t] # thread[t] /\ row' # row
                                 => mode.replay \/ thread[t].att = row.att]_runtimeVars
        /\ [OwnerWindow /\ ~mode.replay /\ ~mode.boot /\ row' # row
              => \E t \in Threads : OwnerSubmits(t)]_runtimeVars
  BY RunPartStep, OwnStep DEF RunInv
<1>3. MCSpec => ProjectsOwnAttempt /\ OwnerWindowHolds
  BY <1>1, <1>2, RunPartInit, PTL DEF MCSpec, ProjectsOwnAttempt, OwnerWindowHolds
<1>4. MCSpec => StoppedRunReleasesNothing /\ PromotedIsKept
  BY PartsOfControlPlane, StoppedRunsAreSilent, PromotedStays, PTL
<1> QED BY <1>3, <1>4 DEF LateStepsAreHarmless
=============================================================================
