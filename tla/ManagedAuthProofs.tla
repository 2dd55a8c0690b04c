------------------------- MODULE ManagedAuthProofs --------------------------
(* ManagedSafety holds of every behaviour of ManagedAuth, for any identities, *)
(* any callers and any set of earlier connections.                            *)
(*                                                                            *)
(* The argument: the ledger hands an identity to one call at a time, and the  *)
(* call that holds it (its creator) is the only one that may send the link    *)
(* request or give the reservation back.  It gives it back only while nothing *)
(* was sent, or once the provider has refused what was sent; a call that came *)
(* second only looks.  The config effect follows the same rule, except that   *)
(* recovering calls create the config too.                                    *)
EXTENDS ManagedAuth, TLAPS

\* The call that reserved its effect and may still create the connection.
Creator(c) == ~At(c, "idle") /\ ~call[c].recovering

\* No connection carries e's alias, and no request is out that would make one.
Untouched(e) == made[e] = 0 /\ \A r \in wire : r.for = "link" => r.effect # e

\* The two kinds of request that are out.
Links == {r \in wire : r.for = "link"}

ConfigRequests == {r \in wire : r.for = "config"}

\* The call that reserved the config effect.
ConfigHolder(c) == call[c].pc \in {"recheck", "create"}

ConfigUntouched == configs = 0 /\ \A r \in wire : r.for # "config"

\* Where a call may be, and what it knows there.
CallsAreWhereTheyAre ==
    \A c \in Callers :
        /\ call[c].recovering =>
               call[c].pc \in {"config", "reserve", "recheck", "create", "find", "found"}
        /\ ~call[c].recovering => call[c].pc \notin {"find", "found"}
        /\ call[c].pc # "adopted" => call[c].target = call[c].effect
        /\ call[c].pc = "adopted" => made[call[c].target] = 1
        /\ call[c].pc = "found" => made[call[c].effect] = 1

\* A creator that has sent nothing, or was refused, has made nothing; one that was
\* answered has made its connection.  Until it ends its row is open, or a
\* recovering call has recorded the very connection it made.
CreatorsHoldTheirRow ==
    \A c \in Callers :
        Creator(c) =>
            /\ call[c].pc # "linking" \/ call[c].answer = "refused" => Untouched(Effect(c))
            /\ call[c].pc = "linking" /\ call[c].answer = "took" => made[Effect(c)] = 1
            /\ \/ row[Effect(c)].status = "pending"
               \/ /\ call[c].pc = "linking" /\ made[Effect(c)] = 1
                  /\ row[Effect(c)].status = "completed" /\ row[Effect(c)].receipt = Effect(c)

OneCreator ==
    \A c, d \in Callers : Creator(c) /\ Creator(d) /\ Effect(c) = Effect(d) => c = d

\* What a row that is not open proves.
RowsAreTrue ==
    \A e \in Identities :
        /\ row[e].status \in {"absent", "failed"} => Untouched(e)
        /\ row[e].status = "completed" =>
               /\ row[e].receipt \in Identities /\ made[row[e].receipt] = 1
               /\ row[e].receipt # e => Untouched(e)

\* A link request that is out is its identity's only one, and came first.
LinkIsFirst ==
    \A r \in wire : r.for = "link" =>
        /\ made[r.effect] = 0
        /\ \A s \in wire : s.for = "link" /\ s.effect = r.effect => s = r

\* The same for the config, whose holder may be a recovering call.
ConfigIsHeldOnce ==
    /\ \A c, d \in Callers : ConfigHolder(c) /\ ConfigHolder(d) => c = d
    /\ \A c \in Callers :
        ConfigHolder(c) =>
            /\ configRow.status = "pending"
            /\ call[c].pc = "recheck" \/ call[c].answer = "refused" => ConfigUntouched
    /\ configRow.status \in {"absent", "failed"} => ConfigUntouched
    /\ \A r \in wire : r.for = "config" =>
        configs = 0 /\ \A s \in wire : s.for = "config" => s = r

\* The two effects share the calls and the wire, and nothing else: the invariant
\* has a part for each.
LinkInv ==
    /\ OneConnectionPerEffect /\ CallsAreWhereTheyAre /\ CreatorsHoldTheirRow
    /\ OneCreator /\ RowsAreTrue /\ LinkIsFirst

ConfigInv == OneConfig /\ ConfigIsHeldOnce

ManagedInv == TypeOK /\ LinkInv /\ ConfigInv

-----------------------------------------------------------------------------
(* The frame: a step of one call leaves every other call as it was.           *)

\* The call goes on at p.
LEMMA GoesFrame ==
    ASSUME TypeOK, NEW c \in Callers,
           NEW p \in {"idle", "config", "reserve", "recheck", "create", "link", "linking",
                      "adopt", "adopted", "find", "found"},
           Goes(c, p)
    PROVE  /\ call' \in [Callers -> Call]
           /\ \A d \in Callers : d # c => call'[d] = call[d]
           /\ call'[c].pc = p /\ call'[c].answer = "none"
           /\ call'[c].effect = call[c].effect /\ call'[c].target = call[c].target
           /\ call'[c].recovering = call[c].recovering
<1>1. call \in [Callers -> Call]
  BY DEF TypeOK
<1>2. call' = [call EXCEPT ![c] = [[call[c] EXCEPT !.pc = p] EXCEPT !.answer = "none"]]
  BY <1>1, Zenon DEF Goes
<1>3. PICK q : q = [[call[c] EXCEPT !.pc = p] EXCEPT !.answer = "none"]
  OBVIOUS
<1>4. /\ q \in Call /\ q.pc = p /\ q.answer = "none" /\ q.effect = call[c].effect
      /\ q.target = call[c].target /\ q.recovering = call[c].recovering
  BY <1>1, <1>3 DEF Call
<1>5. call' = [call EXCEPT ![c] = q]
  BY <1>2, <1>3
<1> QED
  BY <1>1, <1>4, <1>5

\* The call ends, and keeps nothing of what it held.
LEMMA ReturnsFrame ==
    ASSUME TypeOK, NEW c \in Callers, NEW result \in {"none", "fresh", "replayed", "raised"},
           Returns(c, result)
    PROVE  /\ call' \in [Callers -> Call]
           /\ \A d \in Callers : d # c => call'[d] = call[d]
           /\ call'[c].pc = "idle" /\ call'[c].answer = "none"
           /\ call'[c].effect = call[c].effect /\ call'[c].target = call[c].effect
           /\ call'[c].recovering = FALSE
BY ZenonT(60) DEF TypeOK, Returns, Ended, Call

-----------------------------------------------------------------------------
\* Before the first call nothing is out and only earlier connections exist.
LEMMA ManagedInvInit == Init => ManagedInv
<1> SUFFICES ASSUME Init PROVE ManagedInv
  OBVIOUS
<1>1. TypeOK
  BY ManagedAssumption DEF Init, TypeOK, Row, RowStatus, NoRow, Call, Request
<1>2. \A c \in Callers : call[c].pc = "idle" /\ ~call[c].recovering
                         /\ call[c].target = call[c].effect
  BY DEF Init
<1>3. CallsAreWhereTheyAre /\ CreatorsHoldTheirRow /\ OneCreator
  BY <1>2 DEF CallsAreWhereTheyAre, CreatorsHoldTheirRow, OneCreator, Creator, At
<1>4. RowsAreTrue /\ OneConnectionPerEffect
  BY DEF Init, RowsAreTrue, OneConnectionPerEffect, Untouched, NoRow
<1>5. LinkIsFirst /\ OneConfig /\ ConfigIsHeldOnce
  BY <1>2 DEF Init, LinkIsFirst, OneConfig, ConfigIsHeldOnce, ConfigHolder, ConfigUntouched
<1> QED BY <1>1, <1>3, <1>4, <1>5 DEF ManagedInv, LinkInv, ConfigInv

-----------------------------------------------------------------------------
(* Steps of one call, for the connection's part of the invariant.             *)

\* The frame of a step of call c that makes no connection and asks for none.
CallStep(c) ==
    /\ call' \in [Callers -> Call]
    /\ \A d \in Callers : d # c => call'[d] = call[d]
    /\ call'[c].effect = call[c].effect
    /\ made' = made /\ Links' = Links

\* What such a step leaves as it was.
LEMMA CallStepFrame ==
    ASSUME TypeOK, LinkIsFirst, NEW c \in Callers, CallStep(c)
    PROVE  /\ \A e \in Identities : Untouched(e)' <=> Untouched(e)
           /\ LinkIsFirst'
           /\ OneConnectionPerEffect => OneConnectionPerEffect'
<1>1. \A r : r \in wire' /\ r.for = "link" <=> r \in wire /\ r.for = "link"
  BY DEF CallStep, Links
<1> QED BY <1>1 DEF CallStep, Untouched, LinkIsFirst, OneConnectionPerEffect

\* The call goes on, or ends, and its row stays.
LEMMA LinkMove ==
    ASSUME TypeOK, LinkInv, NEW c \in Callers, CallStep(c), row' = row, ~At(c, "idle"),
           call'[c].pc # "idle" => call'[c].recovering = call[c].recovering,
           call'[c].answer = "none" \/ call'[c].answer = call[c].answer,
           call'[c].pc = "linking" => call[c].pc = "linking",
           call[c].pc = "linking" /\ call'[c].pc \notin {"idle", "linking"}
                => call[c].answer = "refused",
           call'[c].recovering =>
               call'[c].pc \in {"config", "reserve", "recheck", "create", "find", "found"},
           ~call'[c].recovering => call'[c].pc \notin {"find", "found"},
           call'[c].pc # "adopted" => call'[c].target = call'[c].effect,
           call'[c].pc = "adopted" => made[call'[c].target] = 1,
           call'[c].pc = "found" => made[call'[c].effect] = 1
    PROVE  LinkInv'
<1> USE DEF LinkInv
<1>1. /\ OneConnectionPerEffect' /\ LinkIsFirst'
      /\ \A e \in Identities : Untouched(e)' <=> Untouched(e)
  BY CallStepFrame
<1>2. CallsAreWhereTheyAre'
  BY DEF CallsAreWhereTheyAre, CallStep
<1>3. \A d \in Callers : Creator(d)' => Creator(d) /\ Effect(d)' = Effect(d)
  BY DEF Creator, Effect, At, CallStep
<1>4. OneCreator'
  BY <1>3 DEF OneCreator
<1>5. CreatorsHoldTheirRow'
  <2> SUFFICES ASSUME NEW d \in Callers, Creator(d)'
               PROVE  /\ call'[d].pc # "linking" \/ call'[d].answer = "refused"
                           => Untouched(Effect(d))'
                      /\ call'[d].pc = "linking" /\ call'[d].answer = "took"
                           => made'[Effect(d)'] = 1
                      /\ \/ row'[Effect(d)'].status = "pending"
                         \/ /\ call'[d].pc = "linking" /\ made'[Effect(d)'] = 1
                            /\ row'[Effect(d)'].status = "completed"
                            /\ row'[Effect(d)'].receipt = Effect(d)'
    BY DEF CreatorsHoldTheirRow
  <2>1. Creator(d) /\ Effect(d)' = Effect(d) /\ Effect(d) \in Identities
    BY <1>3 DEF TypeOK, Call, Effect
  <2>2. Untouched(Effect(d))' <=> Untouched(Effect(d))
    BY <1>1, <2>1 DEF Untouched
  <2>3. CASE d # c
    BY <2>1, <2>2, <2>3 DEF CreatorsHoldTheirRow, CallStep
  <2>4. CASE d = c
    <3>1. call'[c].pc # "idle"
      BY <2>4 DEF Creator, At
    <3> QED BY <2>1, <2>2, <2>4, <3>1 DEF CreatorsHoldTheirRow, Untouched, CallStep
  <2> QED BY <2>3, <2>4
<1>6. RowsAreTrue'
  BY <1>1 DEF RowsAreTrue, CallStep
<1> QED BY <1>1, <1>2, <1>4, <1>5, <1>6

\* A call that ends by writing its own row.  What it writes must be true: it gives
\* the reservation back only if nothing was made, and records only what exists;
\* a row another call still creates for is written only with that call's own
\* connection.
LEMMA LinkEnd ==
    ASSUME TypeOK, LinkInv, NEW c \in Callers, CallStep(c),
           call'[c].pc = "idle", ~call'[c].recovering, call'[c].target = call'[c].effect,
           NEW r \in Row, row' = [row EXCEPT ![Effect(c)] = r],
           r.status \in {"absent", "failed"} => Untouched(Effect(c)),
           r.status = "completed" =>
                /\ r.receipt \in Identities /\ made[r.receipt] = 1
                /\ r.receipt # Effect(c) => Untouched(Effect(c)),
           \/ Creator(c)
           \/ r = row[Effect(c)]
           \/ r.status = "completed" /\ r.receipt = Effect(c)
    PROVE  LinkInv'
<1> USE DEF LinkInv
<1>1. /\ OneConnectionPerEffect' /\ LinkIsFirst'
      /\ \A e \in Identities : Untouched(e)' <=> Untouched(e)
  BY CallStepFrame
<1>2. CallsAreWhereTheyAre'
  BY DEF CallsAreWhereTheyAre, CallStep
<1>3. \A d \in Callers : Creator(d)' => d # c /\ Creator(d) /\ Effect(d)' = Effect(d)
  BY DEF Creator, Effect, At, CallStep
<1>4. OneCreator'
  BY <1>3 DEF OneCreator
<1>5. CreatorsHoldTheirRow'
  <2> SUFFICES ASSUME NEW d \in Callers, Creator(d)'
               PROVE  /\ call'[d].pc # "linking" \/ call'[d].answer = "refused"
                           => Untouched(Effect(d))'
                      /\ call'[d].pc = "linking" /\ call'[d].answer = "took"
                           => made'[Effect(d)'] = 1
                      /\ \/ row'[Effect(d)'].status = "pending"
                         \/ /\ call'[d].pc = "linking" /\ made'[Effect(d)'] = 1
                            /\ row'[Effect(d)'].status = "completed"
                            /\ row'[Effect(d)'].receipt = Effect(d)'
    BY DEF CreatorsHoldTheirRow
  <2>1. d # c /\ Creator(d) /\ Effect(d)' = Effect(d) /\ Effect(d) \in Identities
    BY <1>3 DEF TypeOK, Call, Effect
  <2>2. Untouched(Effect(d))' <=> Untouched(Effect(d))
    BY <1>1, <2>1 DEF Untouched
  <2>3. call'[d] = call[d] /\ made' = made /\ Effect(c) \in Identities
    BY <2>1 DEF CallStep, TypeOK, Call, Effect
  <2>4. CASE Effect(d) # Effect(c)
    <3>1. row'[Effect(d)] = row[Effect(d)]
      BY <2>1, <2>3, <2>4 DEF TypeOK
    <3> QED BY <2>1, <2>2, <2>3, <3>1 DEF CreatorsHoldTheirRow
  <2>5. CASE Effect(d) = Effect(c)
    <3>1. ~Creator(c)
      BY <2>1, <2>5 DEF OneCreator
    <3>2. row'[Effect(d)] = r
      BY <2>3, <2>5 DEF TypeOK
    <3>3. CASE r = row[Effect(c)]
      BY <2>1, <2>2, <2>3, <2>5, <3>2, <3>3 DEF CreatorsHoldTheirRow
    <3>4. CASE r.status = "completed" /\ r.receipt = Effect(c)
      <4>1. made[Effect(d)] = 1
        BY <2>5, <3>4
      <4>2. ~Untouched(Effect(d))
        BY <4>1 DEF Untouched
      <4>3. call[d].pc = "linking" /\ call[d].answer # "refused"
        BY <2>1, <4>2 DEF CreatorsHoldTheirRow
      <4> QED BY <2>1, <2>3, <2>5, <3>2, <3>4, <4>1, <4>3
    <3> QED BY <3>1, <3>3, <3>4
  <2> QED BY <2>4, <2>5
<1>6. RowsAreTrue'
  <2> SUFFICES ASSUME NEW e \in Identities
               PROVE  /\ row'[e].status \in {"absent", "failed"} => Untouched(e)'
                      /\ row'[e].status = "completed" =>
                            /\ row'[e].receipt \in Identities /\ made'[row'[e].receipt] = 1
                            /\ row'[e].receipt # e => Untouched(e)'
    BY DEF RowsAreTrue
  <2>1. CASE e = Effect(c)
    BY <1>1, <2>1 DEF TypeOK, CallStep
  <2>2. CASE e # Effect(c)
    BY <1>1, <2>2 DEF TypeOK, CallStep, RowsAreTrue
  <2> QED BY <2>1, <2>2
<1> QED BY <1>1, <1>2, <1>4, <1>5, <1>6

-----------------------------------------------------------------------------
(* The same for the config's part.                                            *)

\* The frame of a step of call c that makes no config and asks for none.
ConfigCallStep(c) ==
    /\ call' \in [Callers -> Call]
    /\ \A d \in Callers : d # c => call'[d] = call[d]
    /\ configs' = configs /\ ConfigRequests' = ConfigRequests

\* A call that does not hold the config effect afterwards: it writes the config's
\* row only if it held it, and gives it back only if nothing was made.
LEMMA ConfigLeave ==
    ASSUME ConfigInv, NEW c \in Callers, ConfigCallStep(c),
           call'[c].pc \notin {"recheck", "create"},
           configRow' = configRow \/ ConfigHolder(c),
           configRow'.status \in {"absent", "failed"} => ConfigUntouched
    PROVE  ConfigInv'
<1>1. \A r : r \in wire' /\ r.for = "config" <=> r \in wire /\ r.for = "config"
  BY DEF ConfigCallStep, ConfigRequests
<1>2. ConfigUntouched' <=> ConfigUntouched
  BY <1>1 DEF ConfigUntouched, ConfigCallStep
<1>3. \A d \in Callers : ConfigHolder(d)' =>
          d # c /\ ConfigHolder(d) /\ call'[d] = call[d]
  BY DEF ConfigHolder, ConfigCallStep
<1>4. \A d \in Callers : ConfigHolder(d)' => configRow' = configRow
  BY <1>3 DEF ConfigInv, ConfigIsHeldOnce
<1>5. \A d, e \in Callers : ConfigHolder(d)' /\ ConfigHolder(e)' => d = e
  BY <1>3 DEF ConfigInv, ConfigIsHeldOnce
<1>6. \A d \in Callers : ConfigHolder(d)' =>
          /\ configRow'.status = "pending"
          /\ call'[d].pc = "recheck" \/ call'[d].answer = "refused" => ConfigUntouched'
  BY <1>2, <1>3, <1>4 DEF ConfigInv, ConfigIsHeldOnce
<1>7. \A r \in wire' : r.for = "config" =>
          configs' = 0 /\ \A t \in wire' : t.for = "config" => t = r
  BY <1>1 DEF ConfigInv, ConfigIsHeldOnce, ConfigCallStep
<1> QED BY <1>2, <1>5, <1>6, <1>7 DEF ConfigInv, ConfigIsHeldOnce, OneConfig, ConfigCallStep

-----------------------------------------------------------------------------
(* The actions of a call.                                                     *)

\* The reservation makes this call the creator only of an identity that nothing
\* was made for, and that no other call is creating.
LEMMA EnterPreserves ==
    ASSUME ManagedInv, NEW c \in Callers, NEW e \in Identities, Enter(c, e)
    PROVE  ManagedInv'
<1> USE DEF ManagedInv
<1>1. /\ At(c, "idle") /\ row' = [row EXCEPT ![e] = ReserveRow(@)]
      /\ UNCHANGED <<configRow, wire, config, configs, account, made>>
      /\ \A d \in Callers : d # c => call'[d] = call[d]
  BY DEF Enter, provider, TypeOK
<1>2. call' \in [Callers -> Call] /\ call'[c].effect = e /\ call'[c].target = e
      /\ call'[c].pc \in {"idle", "config"}
      /\ (call'[c].recovering <=> ReserveStatus(row[e]) = "reconcile_required")
      /\ (call'[c].pc = "idle" => ReserveStatus(row[e]) = "completed")
      /\ (call'[c].pc = "config" => ReserveStatus(row[e]) # "completed")
  <2> DEFINE status == ReserveStatus(row[e])
             begun == [call[c] EXCEPT !.effect = e, !.target = e, !.result = "none",
                         !.pc = "config", !.recovering = (status = "reconcile_required")]
  <2>1. begun \in Call /\ begun.effect = e /\ begun.target = e /\ begun.pc = "config"
        /\ (begun.recovering <=> status = "reconcile_required")
    BY ZenonT(60) DEF TypeOK, Call
  <2>2. CASE status = "completed"
    <3>1. PICK result \in {"replayed", "raised"} :
              call' = [call EXCEPT ![c] = [begun EXCEPT !.pc = "idle", !.result = result]]
      BY <2>2 DEF Enter
    <3> HIDE DEF begun
    <3>2. [begun EXCEPT !.pc = "idle", !.result = result] \in Call
      BY <2>1 DEF Call
    <3> QED BY <2>1, <2>2, <3>1, <3>2 DEF TypeOK, Call
  <2>3. CASE status # "completed"
    <3>1. call' = [call EXCEPT ![c] = begun]
      BY <2>3 DEF Enter
    <3> HIDE DEF begun
    <3> QED BY <2>1, <2>3, <3>1 DEF TypeOK
  <2> QED BY <2>2, <2>3
<1>3. TypeOK'
  BY <1>1, <1>2 DEF TypeOK, ReserveRow, Row, RowStatus
<1>4. /\ \A x \in Identities : Untouched(x)' <=> Untouched(x)
      /\ OneConnectionPerEffect' /\ LinkIsFirst'
  BY <1>1 DEF Untouched, OneConnectionPerEffect, LinkIsFirst, LinkInv
<1>5. CallsAreWhereTheyAre'
  BY <1>1, <1>2 DEF CallsAreWhereTheyAre, LinkInv, ReserveStatus
<1>6. ConfigInv'
  BY <1>1, <1>2 DEF ConfigInv, OneConfig, ConfigIsHeldOnce, ConfigHolder, ConfigUntouched, At
<1>7. CASE row[e].status \in {"absent", "failed"}
  <2>1. \A d \in Callers : Creator(d) => Effect(d) # e
    <3> SUFFICES ASSUME NEW d \in Callers, Creator(d), Effect(d) = e PROVE FALSE
      OBVIOUS
    <3>1. row[e].status \in {"pending", "completed"}
      BY DEF LinkInv, CreatorsHoldTheirRow
    <3> QED BY <1>7, <3>1
  <2>2. row'[e].status = "pending" /\ Untouched(e)
        /\ \A x \in Identities : x # e => row'[x] = row[x]
    BY <1>1, <1>7 DEF TypeOK, ReserveRow, LinkInv, RowsAreTrue
  <2>3. call'[c].pc = "config"
    BY <1>2, <1>7 DEF ReserveStatus
  <2>4. \A d \in Callers : d # c =>
            (Creator(d)' <=> Creator(d)) /\ Effect(d)' = Effect(d) /\ Effect(d) \in Identities
    BY <1>1 DEF Creator, Effect, At, TypeOK, Call
  <2>5. Effect(c)' = e
    BY <1>2 DEF Effect
  <2>6. OneCreator'
    BY <2>1, <2>4, <2>5 DEF LinkInv, OneCreator
  <2>7. CreatorsHoldTheirRow'
    <3> SUFFICES ASSUME NEW d \in Callers, Creator(d)'
                 PROVE  /\ call'[d].pc # "linking" \/ call'[d].answer = "refused"
                             => Untouched(Effect(d))'
                        /\ call'[d].pc = "linking" /\ call'[d].answer = "took"
                             => made'[Effect(d)'] = 1
                        /\ \/ row'[Effect(d)'].status = "pending"
                           \/ /\ call'[d].pc = "linking" /\ made'[Effect(d)'] = 1
                              /\ row'[Effect(d)'].status = "completed"
                              /\ row'[Effect(d)'].receipt = Effect(d)'
      BY DEF CreatorsHoldTheirRow
    <3>1. CASE d = c
      BY <1>1, <2>2, <2>3, <2>5, <3>1 DEF Untouched
    <3>2. CASE d # c
      <4>1. Creator(d) /\ Effect(d)' = Effect(d) /\ Effect(d) # e /\ call'[d] = call[d]
            /\ row'[Effect(d)] = row[Effect(d)]
        BY <1>1, <2>1, <2>2, <2>4, <3>2
      <4>2. Untouched(Effect(d))' <=> Untouched(Effect(d))
        BY <1>1, <4>1 DEF Untouched
      <4> QED BY <1>1, <4>1, <4>2 DEF LinkInv, CreatorsHoldTheirRow
    <3> QED BY <3>1, <3>2
  <2>8. RowsAreTrue'
    BY <1>1, <1>4, <2>2 DEF LinkInv, RowsAreTrue
  <2> QED BY <1>3, <1>4, <1>5, <1>6, <2>6, <2>7, <2>8 DEF LinkInv
<1>8. CASE row[e].status \notin {"absent", "failed"}
  <2>1. row' = row
    BY <1>1, <1>8 DEF TypeOK, ReserveRow
  <2>2. ~Creator(c)'
    BY <1>2, <1>8 DEF Creator, At, ReserveStatus
  <2>3. \A d \in Callers : Creator(d)' =>
            /\ d # c /\ Creator(d) /\ call'[d] = call[d]
            /\ Effect(d)' = Effect(d) /\ Effect(d) \in Identities
            /\ (Untouched(Effect(d))' <=> Untouched(Effect(d)))
    BY <1>1, <2>2 DEF Creator, Effect, At, TypeOK, Call, Untouched
  <2>4. OneCreator' /\ CreatorsHoldTheirRow'
    BY <1>1, <2>1, <2>3 DEF LinkInv, OneCreator, CreatorsHoldTheirRow
  <2>5. RowsAreTrue'
    BY <1>1, <1>4, <2>1 DEF LinkInv, RowsAreTrue
  <2> QED BY <1>3, <1>4, <1>5, <1>6, <2>4, <2>5 DEF LinkInv
<1> QED BY <1>7, <1>8

\* _resolve_or_create_auth_config raises: a creator has sent nothing yet, so it may
\* give its reservation back; a recovering call leaves the row alone.
LEMMA ConfigRaisesKeepsLink ==
    ASSUME TypeOK, LinkInv, NEW c \in Callers, ConfigRaises(c),
           call[c].pc \in {"config", "reserve", "recheck", "create"},
           made' = made, Links' = Links
    PROVE  /\ LinkInv' /\ row' \in [Identities -> Row]
           /\ call' \in [Callers -> Call] /\ call'[c].pc = "idle"
           /\ \A d \in Callers : d # c => call'[d] = call[d]
<1>1. Returns(c, "raised")
  BY DEF ConfigRaises
<1>2. /\ call' \in [Callers -> Call]
      /\ \A d \in Callers : d # c => call'[d] = call[d]
      /\ call'[c].pc = "idle" /\ call'[c].answer = "none"
      /\ call'[c].effect = call[c].effect /\ call'[c].target = call[c].effect
      /\ call'[c].recovering = FALSE
  BY <1>1, ReturnsFrame
<1>3. CallStep(c)
  BY <1>2 DEF CallStep
<1>4. CASE call[c].recovering
  <2>1. row' = row
    BY <1>4 DEF ConfigRaises
  <2>2. LinkInv'
    BY <1>2, <1>3, <2>1, LinkMove DEF At
  <2> QED BY <1>2, <2>1, <2>2 DEF TypeOK
<1>5. CASE ~call[c].recovering
  <2>1. Creator(c) /\ Effect(c) \in Identities /\ row[Effect(c)] \in Row
    BY <1>5 DEF Creator, At, TypeOK, Call, Effect
  <2>2. Untouched(Effect(c)) /\ row[Effect(c)].status = "pending"
    BY <2>1 DEF LinkInv, CreatorsHoldTheirRow
  <2> DEFINE r == MarkFailedRow(row[Effect(c)])
  <2>3. r \in Row /\ r.status = "failed"
    BY <2>1, <2>2 DEF MarkFailedRow, TransitionRow, TransitionAccepted, Row, RowStatus
  <2>4. row' = [row EXCEPT ![Effect(c)] = r]
    BY <1>5 DEF ConfigRaises
  <2> HIDE DEF r
  <2>5. LinkInv'
    BY <1>2, <1>3, <2>1, <2>2, <2>3, <2>4, LinkEnd
  <2> QED BY <1>2, <2>3, <2>4, <2>5 DEF TypeOK
<1> QED BY <1>4, <1>5

\* ... or goes on, to the connection or to its recovery.
LEMMA ConfigResolvedKeepsLink ==
    ASSUME TypeOK, LinkInv, NEW c \in Callers, row' = row, made' = made, Links' = Links,
           call[c].pc \in {"config", "reserve", "recheck", "create"},
           NEW p, Goes(c, p),
           \/ p = IF call[c].recovering THEN "find" ELSE "link"
           \/ p \in {"reserve", "recheck", "create"}
    PROVE  /\ LinkInv'
           /\ call' \in [Callers -> Call] /\ call'[c].pc = p /\ call'[c].answer = "none"
           /\ \A d \in Callers : d # c => call'[d] = call[d]
<1>1. /\ call' \in [Callers -> Call]
      /\ \A d \in Callers : d # c => call'[d] = call[d]
      /\ call'[c].pc = p /\ call'[c].answer = "none"
      /\ call'[c].effect = call[c].effect /\ call'[c].target = call[c].target
      /\ call'[c].recovering = call[c].recovering
  BY GoesFrame
<1>2. CallStep(c) /\ ~At(c, "idle") /\ call'[c].target = call'[c].effect
  BY <1>1 DEF CallStep, At, LinkInv, CallsAreWhereTheyAre
<1>3. LinkInv'
  BY <1>1, <1>2, LinkMove
<1> QED BY <1>1, <1>3

\* The requests that are out when none of a kind is added or taken.
LEMMA SameRequests ==
    ASSUME wire' = wire
    PROVE  Links' = Links /\ ConfigRequests' = ConfigRequests
BY DEF Links, ConfigRequests

\* The first lookup of the config: found, absent, or failed.
LEMMA LookupConfigPreserves ==
    ASSUME ManagedInv, NEW c \in Callers, LookupConfig(c)
    PROVE  ManagedInv'
<1> USE DEF ManagedInv
<1>1. /\ call[c].pc = "config" /\ configRow' = configRow /\ made' = made
      /\ wire' = wire /\ configs' = configs /\ UNCHANGED <<config, account>>
      /\ Links' = Links /\ ConfigRequests' = ConfigRequests
  BY SameRequests DEF LookupConfig, At, provider
<1>2. /\ LinkInv' /\ row' \in [Identities -> Row]
      /\ call' \in [Callers -> Call] /\ call'[c].pc \notin {"recheck", "create"}
      /\ \A d \in Callers : d # c => call'[d] = call[d]
  <2>1. CASE ConfigRaises(c)
    BY <1>1, <2>1, ConfigRaisesKeepsLink
  <2>2. CASE row' = row /\ \E p \in {"find", "link", "reserve"} :
                  /\ Goes(c, p)
                  /\ p # "reserve" => p = IF call[c].recovering THEN "find" ELSE "link"
    <3>1. PICK p \in {"find", "link", "reserve"} :
                  /\ Goes(c, p)
                  /\ p # "reserve" => p = IF call[c].recovering THEN "find" ELSE "link"
      BY <2>2
    <3> QED BY <1>1, <2>2, <3>1, ConfigResolvedKeepsLink DEF TypeOK
  <2> QED BY <2>1, <2>2 DEF LookupConfig, ConfigResolved
<1>3. TypeOK'
  BY <1>1, <1>2 DEF TypeOK
<1>4. ConfigCallStep(c) /\ (configRow'.status \in {"absent", "failed"} => ConfigUntouched)
  BY <1>1, <1>2 DEF ConfigCallStep, ConfigInv, ConfigIsHeldOnce
<1>5. ConfigInv'
  BY <1>1, <1>2, <1>4, ConfigLeave
<1> QED BY <1>2, <1>3, <1>5

\* The config effect is reserved only when nothing was made and nobody holds it.
LEMMA ReserveConfigPreserves ==
    ASSUME ManagedInv, NEW c \in Callers, ReserveConfig(c)
    PROVE  ManagedInv'
<1> USE DEF ManagedInv
<1>1. /\ call[c].pc = "reserve" /\ configRow' = ReserveRow(configRow) /\ made' = made
      /\ wire' = wire /\ configs' = configs /\ UNCHANGED <<config, account>>
      /\ Links' = Links /\ ConfigRequests' = ConfigRequests
  BY SameRequests DEF ReserveConfig, At, provider
<1>2. configRow' \in Row
  BY <1>1 DEF TypeOK, ReserveRow, Row, RowStatus
<1>3. CASE ReserveStatus(configRow) # "reserved"
  <2>1. /\ LinkInv' /\ row' \in [Identities -> Row]
        /\ call' \in [Callers -> Call] /\ call'[c].pc \notin {"recheck", "create"}
        /\ \A d \in Callers : d # c => call'[d] = call[d]
    <3>1. CASE ConfigRaises(c)
      BY <1>1, <3>1, ConfigRaisesKeepsLink
    <3>2. CASE ConfigResolved(c) /\ row' = row
      <4> DEFINE p == IF call[c].recovering THEN "find" ELSE "link"
      <4>1. Goes(c, p)
        BY <3>2 DEF ConfigResolved
      <4> QED BY <1>1, <3>2, <4>1, ConfigResolvedKeepsLink DEF TypeOK
    <3> QED BY <1>3, <3>1, <3>2 DEF ReserveConfig
  <2>2. configRow' = configRow
    BY <1>1, <1>3 DEF ReserveRow, ReserveStatus
  <2>3. ConfigCallStep(c) /\ (configRow'.status \in {"absent", "failed"} => ConfigUntouched)
    BY <1>1, <2>1, <2>2 DEF ConfigCallStep, ConfigInv, ConfigIsHeldOnce
  <2>4. ConfigInv'
    BY <2>1, <2>2, <2>3, ConfigLeave
  <2> QED BY <1>1, <1>2, <2>1, <2>4 DEF TypeOK
<1>4. CASE ReserveStatus(configRow) = "reserved"
  <2>1. Goes(c, "recheck") /\ row' = row
    BY <1>4 DEF ReserveConfig
  <2>2. /\ LinkInv' /\ call' \in [Callers -> Call]
        /\ call'[c].pc = "recheck" /\ call'[c].answer = "none"
        /\ \A d \in Callers : d # c => call'[d] = call[d]
    BY <1>1, <2>1, ConfigResolvedKeepsLink
  <2>3. configRow.status \in {"absent", "failed"} /\ configRow'.status = "pending"
    BY <1>1, <1>4 DEF ReserveRow, ReserveStatus
  <2>4. ConfigUntouched /\ \A d \in Callers : ~ConfigHolder(d)
    BY <2>3 DEF ConfigInv, ConfigIsHeldOnce
  <2>5. ConfigInv'
    BY <1>1, <2>2, <2>3, <2>4
    DEF ConfigInv, OneConfig, ConfigIsHeldOnce, ConfigHolder, ConfigUntouched
  <2> QED BY <1>1, <1>2, <2>1, <2>2, <2>5 DEF TypeOK
<1> QED BY <1>3, <1>4

\* The holder looks once more, and only then asks for a config.
LEMMA RecheckConfigPreserves ==
    ASSUME ManagedInv, NEW c \in Callers, RecheckConfig(c)
    PROVE  ManagedInv'
<1> USE DEF ManagedInv
<1>1. /\ call[c].pc = "recheck" /\ made' = made /\ configs' = configs
      /\ UNCHANGED <<config, account>> /\ ConfigHolder(c)
      /\ configRow.status = "pending" /\ ConfigUntouched
  BY DEF RecheckConfig, At, ConfigHolder, ConfigInv, ConfigIsHeldOnce
<1>2. CASE /\ configRow' = CompleteRow(configRow, TheConfig)
           /\ ConfigResolved(c) /\ UNCHANGED <<row, wire>>
  <2> DEFINE p == IF call[c].recovering THEN "find" ELSE "link"
  <2>1. Goes(c, p) /\ Links' = Links /\ ConfigRequests' = ConfigRequests
    BY <1>2, SameRequests DEF ConfigResolved
  <2>2. /\ LinkInv' /\ call' \in [Callers -> Call] /\ call'[c].pc = p
        /\ \A d \in Callers : d # c => call'[d] = call[d]
    BY <1>1, <1>2, <2>1, ConfigResolvedKeepsLink
  <2>3. configRow' \in Row /\ configRow'.status = "completed"
    BY <1>1, <1>2, ManagedAssumption
    DEF TypeOK, CompleteRow, TransitionRow, TransitionAccepted, Row, RowStatus
  <2>4. ConfigInv'
    BY <1>1, <2>1, <2>2, <2>3, ConfigLeave DEF ConfigCallStep
  <2> QED BY <1>1, <1>2, <2>2, <2>3, <2>4 DEF TypeOK
<1>3. CASE configRow' = MarkFailedRow(configRow) /\ ConfigRaises(c) /\ UNCHANGED wire
  <2>1. Links' = Links /\ ConfigRequests' = ConfigRequests
    BY <1>3, SameRequests
  <2>2. /\ LinkInv' /\ row' \in [Identities -> Row]
        /\ call' \in [Callers -> Call] /\ call'[c].pc = "idle"
        /\ \A d \in Callers : d # c => call'[d] = call[d]
    BY <1>1, <1>3, <2>1, ConfigRaisesKeepsLink
  <2>3. configRow' \in Row
    BY <1>3 DEF TypeOK, MarkFailedRow, TransitionRow, TransitionAccepted, Row, RowStatus
  <2>4. ConfigInv'
    BY <1>1, <2>1, <2>2, ConfigLeave DEF ConfigCallStep
  <2> QED BY <1>1, <1>3, <2>2, <2>3, <2>4 DEF TypeOK
<1>4. CASE /\ Goes(c, "create")
           /\ wire' = wire \cup {[for |-> "config", from |-> c, effect |-> Effect(c)]}
           /\ UNCHANGED <<row, configRow>>
  <2> DEFINE q == [for |-> "config", from |-> c, effect |-> Effect(c)]
  <2>1. q \in Request /\ q.for = "config"
    BY DEF TypeOK, Call, Effect, Request
  <2>2. Links' = Links
    BY <1>4, <2>1 DEF Links
  <2>3. /\ LinkInv' /\ call' \in [Callers -> Call]
        /\ call'[c].pc = "create" /\ call'[c].answer = "none"
        /\ \A d \in Callers : d # c => call'[d] = call[d]
    BY <1>1, <1>4, <2>2, ConfigResolvedKeepsLink
  <2>4. TypeOK'
    BY <1>1, <1>4, <2>1, <2>3 DEF TypeOK
  <2>5. wire' = wire \cup {q}
    BY <1>4
  <2> HIDE DEF q
  <2>6. \A d \in Callers : ConfigHolder(d)' => d = c
    BY <1>1, <2>3 DEF ConfigHolder, ConfigInv, ConfigIsHeldOnce
  <2>7. ConfigInv'
    BY <1>1, <1>4, <2>1, <2>3, <2>5, <2>6
    DEF ConfigInv, OneConfig, ConfigIsHeldOnce, ConfigUntouched
  <2> QED BY <2>3, <2>4, <2>7
<1> QED BY <1>2, <1>3, <1>4 DEF RecheckConfig

\* The config request's answer, or its failure.
LEMMA CreateConfigPreserves ==
    ASSUME ManagedInv, NEW c \in Callers, ConfigCreated(c) \/ CreateFails(c)
    PROVE  ManagedInv'
<1> USE DEF ManagedInv
<1>1. /\ call[c].pc = "create" /\ made' = made /\ configs' = configs /\ wire' = wire
      /\ UNCHANGED <<config, account>> /\ ConfigHolder(c)
      /\ configRow.status = "pending"
      /\ call[c].answer = "refused" => ConfigUntouched
      /\ Links' = Links /\ ConfigRequests' = ConfigRequests
  BY SameRequests DEF ConfigCreated, CreateFails, At, ConfigHolder, ConfigInv,
     ConfigIsHeldOnce, provider
<1>2. /\ LinkInv' /\ row' \in [Identities -> Row]
      /\ call' \in [Callers -> Call] /\ call'[c].pc \notin {"recheck", "create"}
      /\ \A d \in Callers : d # c => call'[d] = call[d]
  <2>1. CASE CreateFails(c)
    BY <1>1, <2>1, ConfigRaisesKeepsLink DEF CreateFails
  <2>2. CASE ConfigCreated(c)
    <3> DEFINE p == IF call[c].recovering THEN "find" ELSE "link"
    <3>1. Goes(c, p) /\ row' = row
      BY <2>2 DEF ConfigCreated, ConfigResolved
    <3> QED BY <1>1, <3>1, ConfigResolvedKeepsLink DEF TypeOK
  <2> QED BY <2>1, <2>2
<1>3. configRow' \in Row /\ (configRow'.status \in {"absent", "failed"} => ConfigUntouched)
  <2>1. CASE CreateFails(c)
    BY <1>1, <2>1
    DEF CreateFails, TypeOK, MarkFailedRow, MarkOutcomeUnknownRow, TransitionRow,
        TransitionAccepted, Row, RowStatus
  <2>2. CASE ConfigCreated(c)
    BY <1>1, <2>2, ManagedAssumption
    DEF ConfigCreated, TypeOK, CompleteRow, TransitionRow, TransitionAccepted, Row, RowStatus
  <2> QED BY <2>1, <2>2
<1>4. ConfigInv'
  BY <1>1, <1>2, <1>3, ConfigLeave DEF ConfigCallStep
<1> QED BY <1>1, <1>2, <1>3, <1>4 DEF TypeOK

\* A call outside the config's steps leaves the config's part alone.
LEMMA ConfigUntouchedByLink ==
    ASSUME ConfigInv, NEW c \in Callers, call' \in [Callers -> Call],
           \A d \in Callers : d # c => call'[d] = call[d],
           call'[c].pc \notin {"recheck", "create"},
           configRow' = configRow, configs' = configs, ConfigRequests' = ConfigRequests
    PROVE  ConfigInv'
<1>1. configRow'.status \in {"absent", "failed"} => ConfigUntouched
  BY DEF ConfigInv, ConfigIsHeldOnce
<1> QED BY <1>1, ConfigLeave DEF ConfigCallStep

\* The creator sends the identity's first and only link request.
LEMMA LinkPreserves ==
    ASSUME ManagedInv, NEW c \in Callers, Link(c)
    PROVE  ManagedInv'
<1> USE DEF ManagedInv
<1> DEFINE q == [for |-> "link", from |-> c, effect |-> Effect(c)]
<1>1. /\ call[c].pc = "link" /\ Goes(c, "linking") /\ wire' = wire \cup {q}
      /\ UNCHANGED <<row, configRow, config, configs, account, made>>
  BY DEF Link, At
<1>2. /\ call' \in [Callers -> Call]
      /\ \A d \in Callers : d # c => call'[d] = call[d]
      /\ call'[c].pc = "linking" /\ call'[c].answer = "none"
      /\ call'[c].effect = call[c].effect /\ call'[c].target = call[c].target
      /\ call'[c].recovering = call[c].recovering
  BY <1>1, GoesFrame
<1>3. Effect(c) \in Identities /\ q \in Request /\ q.for = "link" /\ q.effect = Effect(c)
  BY DEF TypeOK, Call, Effect, Request
<1> HIDE DEF q
<1>4. TypeOK'
  BY <1>1, <1>2, <1>3 DEF TypeOK
<1>5. Creator(c) /\ Untouched(Effect(c)) /\ row[Effect(c)].status = "pending"
  BY <1>1 DEF LinkInv, CallsAreWhereTheyAre, Creator, At, CreatorsHoldTheirRow
<1>6. ConfigInv'
  <2>1. ConfigRequests' = ConfigRequests
    BY <1>1, <1>3 DEF ConfigRequests
  <2> QED BY <1>1, <1>2, <2>1, ConfigUntouchedByLink
<1>7. OneConnectionPerEffect' /\ LinkIsFirst'
  BY <1>1, <1>3, <1>5 DEF LinkInv, OneConnectionPerEffect, LinkIsFirst, Untouched
<1>8. CallsAreWhereTheyAre'
  BY <1>1, <1>2, <1>5 DEF LinkInv, CallsAreWhereTheyAre, Creator
<1>9. \A d \in Callers : (Creator(d)' <=> Creator(d)) /\ Effect(d)' = Effect(d)
  BY <1>1, <1>2 DEF Creator, Effect, At
<1>10. \A d \in Callers : Creator(d) /\ d # c => Effect(d) # Effect(c)
  BY <1>5 DEF LinkInv, OneCreator
<1>11. OneCreator'
  BY <1>9 DEF LinkInv, OneCreator
<1>12. \A e \in Identities : e # Effect(c) => (Untouched(e)' <=> Untouched(e))
  BY <1>1, <1>3 DEF Untouched
<1>13. CreatorsHoldTheirRow'
  <2> SUFFICES ASSUME NEW d \in Callers, Creator(d)'
               PROVE  /\ call'[d].pc # "linking" \/ call'[d].answer = "refused"
                           => Untouched(Effect(d))'
                      /\ call'[d].pc = "linking" /\ call'[d].answer = "took"
                           => made'[Effect(d)'] = 1
                      /\ \/ row'[Effect(d)'].status = "pending"
                         \/ /\ call'[d].pc = "linking" /\ made'[Effect(d)'] = 1
                            /\ row'[Effect(d)'].status = "completed"
                            /\ row'[Effect(d)'].receipt = Effect(d)'
    BY DEF CreatorsHoldTheirRow
  <2>1. CASE d = c
    BY <1>1, <1>2, <1>5, <1>9, <2>1
  <2>2. CASE d # c
    <3>1. Creator(d) /\ Effect(d)' = Effect(d) /\ Effect(d) \in Identities
          /\ Effect(d) # Effect(c) /\ call'[d] = call[d]
      BY <1>2, <1>9, <1>10, <2>2 DEF TypeOK, Call, Effect
    <3>2. Untouched(Effect(d))' <=> Untouched(Effect(d))
      BY <1>1, <1>3, <3>1 DEF Untouched
    <3> QED BY <1>1, <3>1, <3>2 DEF LinkInv, CreatorsHoldTheirRow
  <2> QED BY <2>1, <2>2
<1>14. RowsAreTrue'
  <2> SUFFICES ASSUME NEW e \in Identities
               PROVE  /\ row'[e].status \in {"absent", "failed"} => Untouched(e)'
                      /\ row'[e].status = "completed" =>
                            /\ row'[e].receipt \in Identities /\ made'[row'[e].receipt] = 1
                            /\ row'[e].receipt # e => Untouched(e)'
    BY DEF RowsAreTrue
  <2>1. CASE e = Effect(c)
    BY <1>1, <1>5, <2>1
  <2>2. CASE e # Effect(c)
    BY <1>1, <1>12, <2>2 DEF LinkInv, RowsAreTrue
  <2> QED BY <2>1, <2>2
<1> QED BY <1>4, <1>6, <1>7, <1>8, <1>11, <1>13, <1>14 DEF LinkInv

\* A call that ends and writes what LinkEnd allows.
LEMMA EndPreserves ==
    ASSUME ManagedInv, NEW c \in Callers,
           NEW result \in {"none", "fresh", "replayed", "raised"}, Returns(c, result),
           UNCHANGED <<configRow, wire, config, configs, account, made>>,
           NEW r \in Row, row' = [row EXCEPT ![Effect(c)] = r],
           r.status \in {"absent", "failed"} => Untouched(Effect(c)),
           r.status = "completed" =>
                /\ r.receipt \in Identities /\ made[r.receipt] = 1
                /\ r.receipt # Effect(c) => Untouched(Effect(c)),
           \/ Creator(c)
           \/ r = row[Effect(c)]
           \/ r.status = "completed" /\ r.receipt = Effect(c)
    PROVE  ManagedInv'
<1> USE DEF ManagedInv
<1>1. /\ call' \in [Callers -> Call]
      /\ \A d \in Callers : d # c => call'[d] = call[d]
      /\ call'[c].pc = "idle"
      /\ call'[c].effect = call[c].effect /\ call'[c].target = call[c].effect
      /\ call'[c].recovering = FALSE
  BY ReturnsFrame
<1>2. Links' = Links /\ ConfigRequests' = ConfigRequests
  BY SameRequests
<1>3. LinkInv'
  BY <1>1, <1>2, LinkEnd DEF CallStep
<1>4. ConfigInv'
  BY <1>1, <1>2, ConfigUntouchedByLink
<1>5. TypeOK'
  BY <1>1 DEF TypeOK
<1> QED BY <1>3, <1>4, <1>5

\* A call that moves on without writing anything.
LEMMA GoPreserves ==
    ASSUME ManagedInv, NEW c \in Callers, CallStep(c),
           UNCHANGED <<row, configRow, wire, config, configs, account, made>>,
           ~At(c, "idle"), call'[c].pc \in {"idle", "adopt", "adopted", "found"},
           call'[c].answer = "none" \/ call'[c].answer = call[c].answer,
           call'[c].pc # "idle" => call'[c].recovering = call[c].recovering,
           call'[c].recovering = (call'[c].pc = "found"),
           call[c].pc = "linking" /\ call'[c].pc # "idle" => call[c].answer = "refused",
           call'[c].pc # "adopted" => call'[c].target = call'[c].effect,
           call'[c].pc = "adopted" => made[call'[c].target] = 1,
           call'[c].pc = "found" => made[call'[c].effect] = 1
    PROVE  ManagedInv'
<1> USE DEF ManagedInv
<1>1. LinkInv'
  BY LinkMove
<1>2. Links' = Links /\ ConfigRequests' = ConfigRequests
  BY SameRequests
<1>3. ConfigInv'
  BY <1>2, ConfigUntouchedByLink DEF CallStep
<1>4. TypeOK'
  BY DEF TypeOK, CallStep
<1> QED BY <1>1, <1>3, <1>4

\* What holds of a creator past the config: its identity, its row, and that only a
\* pending row can be moved by it.
LEMMA CreatorFacts ==
    ASSUME ManagedInv, NEW c \in Callers, call[c].pc \in {"linking", "adopt", "adopted"}
    PROVE  /\ Creator(c) /\ Effect(c) \in Identities /\ row[Effect(c)] \in Row
           /\ Effect(c) \in Receipts
           /\ call[c].pc # "linking" \/ call[c].answer = "refused" => Untouched(Effect(c))
           /\ call[c].pc = "linking" /\ call[c].answer = "took" => made[Effect(c)] = 1
           /\ \/ row[Effect(c)].status = "pending"
              \/ /\ call[c].pc = "linking" /\ made[Effect(c)] = 1
                 /\ row[Effect(c)].status = "completed" /\ row[Effect(c)].receipt = Effect(c)
<1>1. Creator(c)
  BY DEF ManagedInv, LinkInv, CallsAreWhereTheyAre, Creator, At
<1>2. Effect(c) \in Identities
  BY DEF ManagedInv, TypeOK, Call, Effect
<1> QED
  BY <1>1, <1>2, ManagedAssumption DEF ManagedInv, TypeOK, LinkInv, CreatorsHoldTheirRow

\* The creator records its connection; a recovering call can only have recorded the same.
LEMMA LinkedPreserves ==
    ASSUME ManagedInv, NEW c \in Callers, Linked(c)
    PROVE  ManagedInv'
<1> DEFINE e == Effect(c)
           r == CompleteRow(row[e], e)
<1>1. /\ call[c].pc = "linking" /\ call[c].answer = "took" /\ Closes(c, e, "fresh")
      /\ UNCHANGED <<configRow, wire, config, configs, account, made>>
  BY DEF Linked, At, provider
<1>2. /\ Creator(c) /\ e \in Identities /\ row[e] \in Row /\ e \in Receipts /\ made[e] = 1
      /\ \/ row[e].status = "pending"
         \/ row[e].status = "completed" /\ row[e].receipt = e
  BY <1>1, CreatorFacts
<1>3. CompleteAccepted(row[e], e)
  BY <1>2 DEF CompleteAccepted, TransitionAccepted
<1>4. row' = [row EXCEPT ![e] = r] /\ Returns(c, "fresh")
  BY <1>1, <1>3 DEF Closes
<1>5. r \in Row /\ r.status = "completed" /\ r.receipt = e
  BY <1>2, <1>3 DEF CompleteRow, CompleteAccepted, TransitionRow, Row, RowStatus
<1> HIDE DEF r
<1> QED BY <1>1, <1>2, <1>4, <1>5, EndPreserves

\* An ambiguous failure: the row stays open, or the recovering call's record stands.
LEMMA LinkFailsPreserves ==
    ASSUME ManagedInv, NEW c \in Callers, LinkFails(c)
    PROVE  ManagedInv'
<1> DEFINE e == Effect(c)
           r == MarkOutcomeUnknownRow(row[e])
<1>1. /\ call[c].pc = "linking" /\ Returns(c, "raised") /\ row' = [row EXCEPT ![e] = r]
      /\ UNCHANGED <<configRow, wire, config, configs, account, made>>
  BY DEF LinkFails, At, provider
<1>2. /\ Creator(c) /\ e \in Identities /\ row[e] \in Row
      /\ \/ row[e].status = "pending"
         \/ made[e] = 1 /\ row[e].status = "completed" /\ row[e].receipt = e
  BY <1>1, CreatorFacts
<1>3. r \in Row /\ \/ r.status = "outcome_unknown"
                   \/ made[e] = 1 /\ r.status = "completed" /\ r.receipt = e
  BY <1>2 DEF MarkOutcomeUnknownRow, TransitionRow, TransitionAccepted, Row, RowStatus
<1> HIDE DEF r
<1> QED BY <1>1, <1>2, <1>3, EndPreserves

\* The provider refused the link: the creator goes looking for the active connection.
LEMMA LinkRefusedPreserves ==
    ASSUME ManagedInv, NEW c \in Callers, LinkRefused(c)
    PROVE  ManagedInv'
<1>1. /\ call[c].pc = "linking" /\ call[c].answer = "refused" /\ Goes(c, "adopt")
      /\ UNCHANGED <<row, configRow, wire, config, configs, account, made>>
  BY DEF LinkRefused, At, provider
<1>2. /\ call' \in [Callers -> Call]
      /\ \A d \in Callers : d # c => call'[d] = call[d]
      /\ call'[c].pc = "adopt" /\ call'[c].answer = "none"
      /\ call'[c].effect = call[c].effect /\ call'[c].target = call[c].target
      /\ call'[c].recovering = call[c].recovering
  BY <1>1, GoesFrame DEF ManagedInv
<1>3. ~call[c].recovering /\ call[c].target = call[c].effect
  BY <1>1 DEF ManagedInv, LinkInv, CallsAreWhereTheyAre
<1>4. CallStep(c)
  BY <1>1, <1>2, SameRequests DEF CallStep
<1> QED BY <1>1, <1>2, <1>3, <1>4, GoPreserves DEF At, ManagedInv, TypeOK, Call

\* The refused creator has made nothing, so it may adopt another's connection, or
\* give its reservation back.
LEMMA AdoptLookupPreserves ==
    ASSUME ManagedInv, NEW c \in Callers, AdoptLookup(c)
    PROVE  ManagedInv'
<1>1. /\ call[c].pc = "adopt"
      /\ UNCHANGED <<configRow, wire, config, configs, account, made>>
  BY DEF AdoptLookup, At, provider
<1>2. /\ Creator(c) /\ Effect(c) \in Identities /\ row[Effect(c)] \in Row
      /\ Untouched(Effect(c)) /\ row[Effect(c)].status = "pending"
  BY <1>1, CreatorFacts
<1>3. CASE \E e \in Active : /\ Active = {e} /\ made[e] = 1 /\ UNCHANGED row
                             /\ call' = [call EXCEPT ![c].pc = "adopted", ![c].target = e]
  <2>1. PICK e \in Identities : /\ made[e] = 1 /\ UNCHANGED row
                             /\ call' = [call EXCEPT ![c].pc = "adopted", ![c].target = e]
    BY <1>3 DEF Active
  <2>2. /\ call' \in [Callers -> Call]
        /\ \A d \in Callers : d # c => call'[d] = call[d]
        /\ call'[c].pc = "adopted" /\ call'[c].target = e
        /\ call'[c].answer = call[c].answer /\ call'[c].effect = call[c].effect
        /\ call'[c].recovering = call[c].recovering
    <3> DEFINE k == [call[c] EXCEPT !.pc = "adopted", !.target = e]
    <3>1. /\ k \in Call /\ k.pc = "adopted" /\ k.target = e /\ k.answer = call[c].answer
          /\ k.effect = call[c].effect /\ k.recovering = call[c].recovering
      BY DEF ManagedInv, TypeOK, Call
    <3>2. call' = [call EXCEPT ![c] = k]
      BY <2>1
    <3> HIDE DEF k
    <3> QED BY <3>1, <3>2 DEF ManagedInv, TypeOK
  <2>3. CallStep(c)
    BY <1>1, <2>2, SameRequests DEF CallStep
  <2>4. ~call[c].recovering /\ call'[c].recovering = FALSE
    BY <1>2, <2>2 DEF Creator, ManagedInv, TypeOK, Call
  <2> QED BY <1>1, <2>1, <2>2, <2>3, <2>4, GoPreserves DEF At
<1>4. CASE row' = [row EXCEPT ![Effect(c)] = MarkFailedRow(@)] /\ Returns(c, "raised")
  <2> DEFINE r == MarkFailedRow(row[Effect(c)])
  <2>1. r \in Row /\ r.status = "failed" /\ row' = [row EXCEPT ![Effect(c)] = r]
    BY <1>2, <1>4 DEF MarkFailedRow, TransitionRow, TransitionAccepted, Row, RowStatus
  <2> HIDE DEF r
  <2> QED BY <1>1, <1>2, <1>4, <2>1, EndPreserves
<1> QED BY <1>3, <1>4 DEF AdoptLookup

\* The adopted connection is recorded under an identity that has none of its own.
LEMMA AdoptsPreserves ==
    ASSUME ManagedInv, NEW c \in Callers, Adopts(c)
    PROVE  ManagedInv'
<1> DEFINE e == Effect(c)
           t == call[c].target
           r == CompleteRow(row[e], t)
<1>1. /\ call[c].pc = "adopted" /\ Closes(c, t, "replayed")
      /\ UNCHANGED <<configRow, wire, config, configs, account, made>>
  BY DEF Adopts, At, provider
<1>2. /\ Creator(c) /\ e \in Identities /\ row[e] \in Row
      /\ Untouched(e) /\ row[e].status = "pending"
  BY <1>1, CreatorFacts
<1>3. t \in Identities /\ t \in Receipts /\ made[t] = 1
  BY <1>1, ManagedAssumption DEF ManagedInv, LinkInv, CallsAreWhereTheyAre, TypeOK, Call
<1>4. row' = [row EXCEPT ![e] = r] /\ Returns(c, "replayed")
  BY <1>1, <1>2 DEF Closes, CompleteAccepted, TransitionAccepted
<1>5. r \in Row /\ r.status = "completed" /\ r.receipt = t
  BY <1>2, <1>3 DEF CompleteRow, TransitionRow, TransitionAccepted, Row, RowStatus
<1> HIDE DEF r, t
<1> QED BY <1>1, <1>2, <1>3, <1>4, <1>5, EndPreserves

\* A call that ends and leaves every row as it is.
LEMMA QuitPreserves ==
    ASSUME ManagedInv, NEW c \in Callers,
           NEW result \in {"none", "fresh", "replayed", "raised"}, Returns(c, result),
           UNCHANGED <<row, configRow, wire, config, configs, account, made>>,
           ~At(c, "idle")
    PROVE  ManagedInv'
<1>1. /\ call' \in [Callers -> Call]
      /\ \A d \in Callers : d # c => call'[d] = call[d]
      /\ call'[c].pc = "idle" /\ call'[c].answer = "none"
      /\ call'[c].effect = call[c].effect /\ call'[c].target = call[c].effect
      /\ call'[c].recovering = FALSE
  BY ReturnsFrame DEF ManagedInv
<1>2. CallStep(c)
  BY <1>1, SameRequests DEF CallStep
<1> QED BY <1>1, <1>2, GoPreserves

\* A recovering call looks, and records only the connection it found by its alias.
LEMMA RecoverPreserves ==
    ASSUME ManagedInv, NEW c \in Callers, RecoverStep(c)
    PROVE  ManagedInv'
<1> DEFINE e == Effect(c)
           t == call[c].target
           r == ReconcileCompletedRow(row[e], t)
<1>1. /\ call[c].pc \in {"find", "found"} /\ ~At(c, "idle")
      /\ UNCHANGED <<configRow, wire, config, configs, account, made>>
  BY DEF RecoverStep, FindByAlias, Reconciles, At, provider
<1>2. /\ call[c].recovering /\ t = e /\ e \in Identities /\ row[e] \in Row /\ e \in Receipts
      /\ call[c].pc = "found" => made[e] = 1
  BY <1>1, ManagedAssumption
  DEF ManagedInv, LinkInv, CallsAreWhereTheyAre, TypeOK, Call, Effect
<1>3. CASE UNCHANGED row /\ Returns(c, "raised")
  BY <1>1, <1>3, QuitPreserves
<1>4. CASE made[Effect(c)] = 1 /\ Goes(c, "found") /\ UNCHANGED row
  <2>1. /\ call' \in [Callers -> Call]
        /\ \A d \in Callers : d # c => call'[d] = call[d]
        /\ call'[c].pc = "found" /\ call'[c].answer = "none"
        /\ call'[c].effect = call[c].effect /\ call'[c].target = call[c].target
        /\ call'[c].recovering = call[c].recovering
    BY <1>4, GoesFrame DEF ManagedInv
  <2>2. CallStep(c)
    BY <1>1, <2>1, SameRequests DEF CallStep
  <2>3. call'[c].recovering = TRUE
    BY <1>2, <2>1 DEF ManagedInv, TypeOK, Call
  <2> QED BY <1>1, <1>2, <1>4, <2>1, <2>2, <2>3, GoPreserves DEF Effect
<1>5. CASE /\ call[c].pc = "found" /\ row' = [row EXCEPT ![e] = ReconcileCompletedRow(@, t)]
           /\ Returns(c, IF ReconcileAccepted(row[e], t) THEN "replayed" ELSE "raised")
  <2>1. row' = [row EXCEPT ![e] = r]
    BY <1>5
  <2>2. r \in Row /\ (r = row[e] \/ r = [status |-> "completed", receipt |-> e])
    BY <1>2 DEF ReconcileCompletedRow, ReconcileAccepted, Row, RowStatus
  <2>3. /\ row[e].status \in {"absent", "failed"} => Untouched(e)
        /\ row[e].status = "completed" =>
              /\ row[e].receipt \in Identities /\ made[row[e].receipt] = 1
              /\ row[e].receipt # e => Untouched(e)
    BY <1>2 DEF ManagedInv, LinkInv, RowsAreTrue
  <2>4. PICK result \in {"none", "fresh", "replayed", "raised"} : Returns(c, result)
    BY <1>5
  <2>5. CASE r = row[e]
    BY <1>1, <1>2, <2>1, <2>3, <2>4, <2>5, EndPreserves
  <2>6. CASE r = [status |-> "completed", receipt |-> e]
    <3>1. r.status = "completed" /\ r.receipt = e
      BY <2>6
    <3> HIDE DEF r
    <3> QED BY ZenonT(60), <1>1, <1>2, <1>5, <2>1, <2>2, <2>4, <3>1, EndPreserves
  <2> QED BY <2>2, <2>5, <2>6
<1> QED BY <1>1, <1>3, <1>4, <1>5 DEF RecoverStep, FindByAlias, Reconciles, At

-----------------------------------------------------------------------------
(* The provider.                                                              *)

\* An answer reaches the call that waits for it, or nobody; nothing else moves.
AnswerStep(r, answer) ==
    /\ call' \in [Callers -> Call]
    /\ \A d \in Callers :
        /\ call'[d].pc = call[d].pc /\ call'[d].effect = call[d].effect
        /\ call'[d].target = call[d].target /\ call'[d].recovering = call[d].recovering
        /\ \/ call'[d].answer = call[d].answer
           \/ /\ call'[d].answer = answer /\ call[d].effect = r.effect
              /\ call[d].pc = IF r.for = "link" THEN "linking" ELSE "create"

\* Answered is such a step.
LEMMA AnsweredFrame ==
    ASSUME TypeOK, NEW r \in wire, NEW answer \in {"took", "refused"}, Answered(r, answer)
    PROVE  AnswerStep(r, answer)
<1>1. r.from \in Callers
  BY DEF TypeOK, Request
<1> DEFINE k == [call[r.from] EXCEPT !.answer = answer]
           waits == /\ call[r.from].effect = r.effect /\ call[r.from].answer = "none"
                    /\ call[r.from].pc = IF r.for = "link" THEN "linking" ELSE "create"
<1>2. /\ k \in Call /\ k.pc = call[r.from].pc /\ k.effect = call[r.from].effect
      /\ k.target = call[r.from].target /\ k.recovering = call[r.from].recovering
      /\ k.answer = answer
  BY <1>1 DEF TypeOK, Call
<1>3. CASE waits
  <2>1. call' = [call EXCEPT ![r.from] = k]
    BY <1>3 DEF Answered
  <2> HIDE DEF k
  <2> QED BY <1>1, <1>2, <1>3, <2>1 DEF TypeOK, AnswerStep
<1>4. CASE ~waits
  <2>1. call' = call
    BY <1>4 DEF Answered
  <2> QED BY <2>1 DEF TypeOK, AnswerStep
<1> QED BY <1>3, <1>4

\* What an answer leaves alone, whatever becomes of the request.
LEMMA AnswerKeeps ==
    ASSUME ManagedInv, NEW r \in wire, NEW answer \in {"took", "refused"},
           AnswerStep(r, answer)
    PROVE  /\ \A d \in Callers :
                 /\ Creator(d)' <=> Creator(d)
                 /\ Effect(d)' = Effect(d) /\ Effect(d) \in Identities
                 /\ ConfigHolder(d)' <=> ConfigHolder(d)
           /\ OneCreator' /\ r \in Request /\ r.effect \in Identities
<1>1. \A d \in Callers : /\ Creator(d)' <=> Creator(d)
                         /\ Effect(d)' = Effect(d) /\ Effect(d) \in Identities
                         /\ ConfigHolder(d)' <=> ConfigHolder(d)
  BY DEF AnswerStep, Creator, Effect, At, ConfigHolder, ManagedInv, TypeOK, Call
<1>2. OneCreator'
  BY <1>1 DEF ManagedInv, LinkInv, OneCreator
<1> QED BY <1>1, <1>2 DEF ManagedInv, TypeOK, Request

\* The provider makes the identity's first connection, and tells its creator if it waits.
LEMMA LinkLandsPreserves ==
    ASSUME ManagedInv, NEW r \in wire, LinkLands(r)
    PROVE  ManagedInv'
<1> USE DEF ManagedInv
<1>1. /\ r.for = "link" /\ wire' = wire \ {r} /\ Answered(r, "took")
      /\ made' = [made EXCEPT ![r.effect] = @ + 1]
      /\ UNCHANGED <<row, configRow, config, configs>>
      /\ \E status \in {"initiated", "active"} : account' = [account EXCEPT ![r.effect] = status]
  BY DEF LinkLands
<1>2. AnswerStep(r, "took")
  BY <1>1, AnsweredFrame
<1>3. /\ \A d \in Callers :
            /\ Creator(d)' <=> Creator(d)
            /\ Effect(d)' = Effect(d) /\ Effect(d) \in Identities
            /\ ConfigHolder(d)' <=> ConfigHolder(d)
      /\ OneCreator' /\ r \in Request /\ r.effect \in Identities
  BY <1>2, AnswerKeeps
<1>4. /\ made[r.effect] = 0 /\ made'[r.effect] = 1
      /\ \A e \in Identities : e # r.effect => made'[e] = made[e]
      /\ \A t \in wire' : t \in wire /\ (t.for = "link" => t.effect # r.effect)
  BY <1>1, <1>3 DEF LinkInv, LinkIsFirst, TypeOK
<1>5. TypeOK'
  BY <1>1, <1>2, <1>3 DEF TypeOK, AnswerStep
<1>6. OneConnectionPerEffect'
  BY <1>4, <1>3 DEF LinkInv, OneConnectionPerEffect
<1>7. LinkIsFirst'
  BY <1>1, <1>4 DEF LinkInv, LinkIsFirst, TypeOK, Request
<1>8. CallsAreWhereTheyAre'
  <2>1. \A d \in Callers : call[d].effect \in Identities /\ call[d].target \in Identities
    BY DEF TypeOK, Call
  <2> QED BY <1>2, <1>4, <2>1 DEF LinkInv, CallsAreWhereTheyAre, AnswerStep
<1>9. \A e \in Identities : e # r.effect => (Untouched(e)' <=> Untouched(e))
  BY <1>1, <1>4 DEF Untouched
<1>10. ~Untouched(r.effect)
  BY <1>1 DEF Untouched
<1>11. CreatorsHoldTheirRow'
  <2> SUFFICES ASSUME NEW d \in Callers, Creator(d)'
               PROVE  /\ call'[d].pc # "linking" \/ call'[d].answer = "refused"
                           => Untouched(Effect(d))'
                      /\ call'[d].pc = "linking" /\ call'[d].answer = "took"
                           => made'[Effect(d)'] = 1
                      /\ \/ row'[Effect(d)'].status = "pending"
                         \/ /\ call'[d].pc = "linking" /\ made'[Effect(d)'] = 1
                            /\ row'[Effect(d)'].status = "completed"
                            /\ row'[Effect(d)'].receipt = Effect(d)'
    BY DEF CreatorsHoldTheirRow
  <2>1. Creator(d) /\ Effect(d)' = Effect(d) /\ Effect(d) \in Identities
    BY <1>3
  <2>2. /\ call'[d].pc = call[d].pc
        /\ \/ call'[d].answer = call[d].answer
           \/ call'[d].answer = "took" /\ Effect(d) = r.effect /\ call[d].pc = "linking"
    BY <1>1, <1>2 DEF AnswerStep, Effect
  <2>3. CASE Effect(d) = r.effect
    <3>1. call[d].pc = "linking" /\ call[d].answer # "refused"
      BY <1>10, <2>1, <2>3 DEF LinkInv, CreatorsHoldTheirRow
    <3>2. row[Effect(d)].status = "pending"
      BY <1>4, <2>1, <2>3 DEF LinkInv, CreatorsHoldTheirRow
    <3> QED BY <1>1, <1>4, <2>1, <2>2, <2>3, <3>1, <3>2
  <2>4. CASE Effect(d) # r.effect
    <3>1. Untouched(Effect(d))' <=> Untouched(Effect(d))
      BY <1>1, <1>4, <2>1, <2>4 DEF Untouched
    <3> QED BY <1>1, <1>4, <2>1, <2>2, <2>4, <3>1 DEF LinkInv, CreatorsHoldTheirRow
  <2> QED BY <2>3, <2>4
<1>12. RowsAreTrue'
  <2> SUFFICES ASSUME NEW e \in Identities
               PROVE  /\ row'[e].status \in {"absent", "failed"} => Untouched(e)'
                      /\ row'[e].status = "completed" =>
                            /\ row'[e].receipt \in Identities /\ made'[row'[e].receipt] = 1
                            /\ row'[e].receipt # e => Untouched(e)'
    BY DEF RowsAreTrue
  <2>1. CASE e = r.effect
    BY <1>1, <1>4, <1>10, <2>1 DEF LinkInv, RowsAreTrue
  <2>2. CASE e # r.effect
    BY <1>1, <1>4, <1>9, <2>2 DEF LinkInv, RowsAreTrue
  <2> QED BY <2>1, <2>2
<1>13. ConfigInv'
  <2>1. \A t : t \in wire' /\ t.for = "config" <=> t \in wire /\ t.for = "config"
    BY <1>1
  <2>2. ConfigUntouched' <=> ConfigUntouched
    BY <1>1, <2>1 DEF ConfigUntouched
  <2>3. \A d \in Callers : ConfigHolder(d) => call'[d].pc = call[d].pc
                                              /\ call'[d].answer = call[d].answer
    BY <1>1, <1>2 DEF AnswerStep, ConfigHolder
  <2> QED BY <1>1, <1>3, <2>1, <2>2, <2>3 DEF ConfigInv, OneConfig, ConfigIsHeldOnce
<1> QED BY <1>3, <1>5, <1>6, <1>7, <1>8, <1>11, <1>12, <1>13 DEF LinkInv

\* A request that makes no connection: refused, lost, or for the config.
LEMMA RequestGoneKeepsLink ==
    ASSUME ManagedInv, NEW r \in wire, NEW answer \in {"took", "refused"},
           AnswerStep(r, answer), wire' = wire \ {r}, made' = made, row' = row,
           r.for = "link" /\ call' # call => answer = "refused"
    PROVE  LinkInv'
<1> USE DEF ManagedInv
<1>1. /\ \A d \in Callers :
            /\ Creator(d)' <=> Creator(d)
            /\ Effect(d)' = Effect(d) /\ Effect(d) \in Identities
            /\ ConfigHolder(d)' <=> ConfigHolder(d)
      /\ OneCreator' /\ r \in Request /\ r.effect \in Identities
  BY AnswerKeeps
<1>2. \A e \in Identities : Untouched(e) => Untouched(e)'
  BY DEF Untouched
<1>3. r.for = "link" => (Untouched(r.effect))'
  BY DEF LinkInv, LinkIsFirst, Untouched
<1>4. OneConnectionPerEffect' /\ LinkIsFirst'
  BY DEF LinkInv, OneConnectionPerEffect, LinkIsFirst
<1>5. CallsAreWhereTheyAre'
  BY DEF LinkInv, CallsAreWhereTheyAre, AnswerStep
<1>6. RowsAreTrue'
  BY <1>2 DEF LinkInv, RowsAreTrue
<1>7. CreatorsHoldTheirRow'
  <2> SUFFICES ASSUME NEW d \in Callers, Creator(d)'
               PROVE  /\ call'[d].pc # "linking" \/ call'[d].answer = "refused"
                           => Untouched(Effect(d))'
                      /\ call'[d].pc = "linking" /\ call'[d].answer = "took"
                           => made'[Effect(d)'] = 1
                      /\ \/ row'[Effect(d)'].status = "pending"
                         \/ /\ call'[d].pc = "linking" /\ made'[Effect(d)'] = 1
                            /\ row'[Effect(d)'].status = "completed"
                            /\ row'[Effect(d)'].receipt = Effect(d)'
    BY DEF CreatorsHoldTheirRow
  <2>1. Creator(d) /\ Effect(d)' = Effect(d) /\ Effect(d) \in Identities
    BY <1>1
  <2>2. Untouched(Effect(d)) => Untouched(Effect(d))'
    BY <2>1 DEF Untouched
  <2>3. CASE call'[d].answer = call[d].answer
    BY <2>1, <2>2, <2>3 DEF LinkInv, CreatorsHoldTheirRow, AnswerStep
  <2>4. CASE call'[d].answer # call[d].answer
    <3>1. /\ call'[d].answer = answer /\ Effect(d) = r.effect /\ call'[d].pc = call[d].pc
          /\ call[d].pc = IF r.for = "link" THEN "linking" ELSE "create"
      BY <2>4 DEF AnswerStep, Effect
    <3>2. CASE r.for = "link"
      <4>1. answer = "refused" /\ Untouched(Effect(d))'
        BY <1>3, <2>1, <2>4, <3>1, <3>2 DEF Untouched
      <4> QED BY <2>1, <3>1, <3>2, <4>1 DEF LinkInv, CreatorsHoldTheirRow
    <3>3. CASE r.for # "link"
      BY <2>1, <2>2, <3>1, <3>3 DEF LinkInv, CreatorsHoldTheirRow
    <3> QED BY <3>2, <3>3
  <2> QED BY <2>3, <2>4
<1> QED BY <1>1, <1>4, <1>5, <1>6, <1>7 DEF LinkInv

\* A config request is created once, refused or lost; a link request is none of its
\* business.
LEMMA RequestGoneKeepsConfig ==
    ASSUME ManagedInv, NEW r \in wire, NEW answer \in {"took", "refused"},
           AnswerStep(r, answer), wire' = wire \ {r}, configRow' = configRow,
           \/ configs' = configs /\ (r.for = "config" /\ call' # call => answer = "refused")
           \/ configs' = configs + 1 /\ r.for = "config" /\ answer = "took"
    PROVE  ConfigInv'
<1> USE DEF ManagedInv
<1>1. \A d \in Callers : ConfigHolder(d)' <=> ConfigHolder(d)
  BY AnswerKeeps
<1>2. r.for \in {"config", "link"} /\ configs \in Nat
  BY DEF TypeOK, Request
<1>3. r.for = "config" => configs = 0 /\ \A t \in wire' : t.for # "config"
  BY DEF ConfigInv, ConfigIsHeldOnce
<1>4. \A d \in Callers : ConfigHolder(d)' =>
          /\ configRow'.status = "pending"
          /\ call'[d].pc = "recheck" \/ call'[d].answer = "refused" => ConfigUntouched'
  <2> SUFFICES ASSUME NEW d \in Callers, ConfigHolder(d)'
               PROVE  /\ configRow'.status = "pending"
                      /\ call'[d].pc = "recheck" \/ call'[d].answer = "refused"
                            => ConfigUntouched'
    OBVIOUS
  <2>1. /\ ConfigHolder(d) /\ configRow.status = "pending"
        /\ call[d].pc = "recheck" \/ call[d].answer = "refused" => ConfigUntouched
    BY <1>1 DEF ConfigInv, ConfigIsHeldOnce
  <2>2. CASE r.for = "link"
    <3>1. call'[d].pc = call[d].pc /\ call'[d].answer = call[d].answer
      BY <2>1, <2>2 DEF AnswerStep, ConfigHolder
    <3> QED BY <2>1, <2>2, <3>1 DEF ConfigUntouched
  <2>3. CASE r.for = "config"
    <3>1. ~ConfigUntouched
      BY <2>3 DEF ConfigUntouched
    <3>2. CASE configs' = configs
      BY <1>3, <2>1, <2>3, <3>2 DEF ConfigUntouched
    <3>3. CASE configs' # configs
      BY <2>1, <3>1, <3>3 DEF AnswerStep
    <3> QED BY <3>2, <3>3
  <2> QED BY <1>2, <2>2, <2>3
<1>5. configRow'.status \in {"absent", "failed"} => ConfigUntouched'
  <2>1. configRow.status \in {"absent", "failed"} => ConfigUntouched
    BY DEF ConfigInv, ConfigIsHeldOnce
  <2> QED BY <1>2, <2>1 DEF ConfigUntouched
<1>6. \A t \in wire' : t.for = "config" =>
          configs' = 0 /\ \A u \in wire' : u.for = "config" => u = t
  BY <1>2, <1>3 DEF ConfigInv, ConfigIsHeldOnce
<1>7. OneConfig'
  BY <1>2, <1>3 DEF ConfigInv, OneConfig
<1> QED BY <1>1, <1>4, <1>5, <1>6, <1>7 DEF ConfigInv, ConfigIsHeldOnce

\* Every step of the provider and of the owner of the account.
LEMMA ProviderPreserves ==
    ASSUME ManagedInv, ProviderNext
    PROVE  ManagedInv'
<1> USE DEF ManagedInv
<1>1. CASE \E e \in Identities : OwnerAuthorizes(e) \/ OwnerRevokes(e)
  <2>1. UNCHANGED <<row, configRow, call, wire, config, configs, made>>
        /\ account' \in [Identities -> {"none", "initiated", "active", "revoked"}]
    BY <1>1 DEF OwnerAuthorizes, OwnerRevokes, TypeOK
  <2>2. LinkInv'
    BY <2>1 DEF LinkInv, OneConnectionPerEffect, CallsAreWhereTheyAre, CreatorsHoldTheirRow,
                OneCreator, RowsAreTrue, LinkIsFirst, Untouched, Creator, At, Effect
  <2>3. ConfigInv'
    BY <2>1 DEF ConfigInv, OneConfig, ConfigIsHeldOnce, ConfigHolder, ConfigUntouched
  <2> QED BY <2>1, <2>2, <2>3 DEF TypeOK
<1>2. ASSUME NEW r \in wire, ConfigLands(r) PROVE ManagedInv'
  <2>1. /\ r.for = "config" /\ wire' = wire \ {r} /\ Answered(r, "took")
        /\ config' = TRUE /\ configs' = configs + 1
        /\ UNCHANGED <<row, configRow, account, made>>
    BY <1>2 DEF ConfigLands
  <2>2. AnswerStep(r, "took")
    BY <2>1, AnsweredFrame
  <2>3. LinkInv' /\ ConfigInv'
    BY <2>1, <2>2, RequestGoneKeepsLink, RequestGoneKeepsConfig
  <2> QED BY <2>1, <2>2, <2>3 DEF TypeOK, AnswerStep
<1>3. ASSUME NEW r \in wire, Refuses(r) PROVE ManagedInv'
  <2>1. /\ wire' = wire \ {r} /\ Answered(r, "refused")
        /\ UNCHANGED <<row, configRow, config, configs, account, made>>
    BY <1>3 DEF Refuses
  <2>2. AnswerStep(r, "refused")
    BY <2>1, AnsweredFrame
  <2>3. LinkInv' /\ ConfigInv'
    BY <2>1, <2>2, RequestGoneKeepsLink, RequestGoneKeepsConfig
  <2> QED BY <2>1, <2>2, <2>3 DEF TypeOK, AnswerStep
<1>4. ASSUME NEW r \in wire, Loses(r) PROVE ManagedInv'
  <2>1. /\ wire' = wire \ {r}
        /\ UNCHANGED <<row, configRow, call, config, configs, account, made>>
    BY <1>4 DEF Loses
  <2>2. AnswerStep(r, "refused")
    BY <2>1 DEF AnswerStep, TypeOK
  <2>3. LinkInv' /\ ConfigInv'
    BY <2>1, <2>2, RequestGoneKeepsLink, RequestGoneKeepsConfig
  <2> QED BY <2>1, <2>2, <2>3 DEF TypeOK
<1> QED BY <1>1, <1>2, <1>3, <1>4, LinkLandsPreserves DEF ProviderNext

-----------------------------------------------------------------------------
\* The inductive step, one case per action.
LEMMA ManagedInvNext == ManagedInv /\ [Next]_vars => ManagedInv'
<1> SUFFICES ASSUME ManagedInv, [Next]_vars PROVE ManagedInv'
  OBVIOUS
<1>1. ASSUME NEW c \in Callers, CallerNext(c) PROVE ManagedInv'
  <2>1. CASE \E e \in Identities : Enter(c, e)
    BY <2>1, EnterPreserves
  <2>2. CASE ConfigStep(c)
    BY <2>2, LookupConfigPreserves, ReserveConfigPreserves, RecheckConfigPreserves,
       CreateConfigPreserves DEF ConfigStep
  <2>3. CASE AdoptRaises(c)
    <3>1. /\ Returns(c, "raised") /\ ~At(c, "idle")
          /\ UNCHANGED <<row, configRow, wire, config, configs, account, made>>
      BY <2>3 DEF AdoptRaises, At, provider
    <3> QED BY <3>1, QuitPreserves
  <2>4. CASE LinkStep(c)
    BY <2>3, <2>4, LinkPreserves, LinkedPreserves, LinkFailsPreserves, LinkRefusedPreserves,
       AdoptLookupPreserves, AdoptsPreserves DEF LinkStep
  <2>5. CASE RecoverStep(c)
    BY <2>5, RecoverPreserves
  <2>6. CASE Dies(c)
    <3>1. /\ Returns(c, "none") /\ ~At(c, "idle")
          /\ UNCHANGED <<row, configRow, wire, config, configs, account, made>>
      BY <2>6 DEF Dies, provider
    <3> QED BY <3>1, QuitPreserves
  <2> QED BY <1>1, <2>1, <2>2, <2>4, <2>5, <2>6 DEF CallerNext
<1>2. CASE UNCHANGED vars
  BY <1>2 DEF vars, ManagedInv, TypeOK, LinkInv, OneConnectionPerEffect, CallsAreWhereTheyAre,
     CreatorsHoldTheirRow, OneCreator, RowsAreTrue, LinkIsFirst, Untouched, Creator, At, Effect,
     ConfigInv, OneConfig, ConfigIsHeldOnce, ConfigHolder, ConfigUntouched
<1> QED BY <1>1, <1>2, ProviderPreserves DEF Next

\* The inductive invariant gives every part of ManagedSafety.
LEMMA ManagedInvImplies == ManagedInv => ManagedSafety
<1> SUFFICES ASSUME ManagedInv PROVE ManagedSafety
  OBVIOUS
<1>1. ReceiptNamesConnection
  BY DEF ManagedInv, LinkInv, RowsAreTrue, ReceiptNamesConnection, Untouched
<1>2. CreatorIsNotRefused
  <2> SUFFICES ASSUME NEW c \in Callers, call[c].pc = "linking", call[c].answer = "took"
               PROVE  CompleteAccepted(row[Effect(c)], Effect(c))
    BY DEF CreatorIsNotRefused
  <2> QED BY CreatorFacts DEF CompleteAccepted, TransitionAccepted
<1> QED BY <1>1, <1>2 DEF ManagedInv, ManagedSafety, LinkInv, ConfigInv

\* start_connection and create_api_key_connection, for any identities, callers and
\* earlier connections: one config for the toolkit, one connection per identity,
\* receipts that name what exists, and a creator its own recovery never refuses.
THEOREM ManagedAuthSafety == Spec => []ManagedSafety
<1>1. Spec => []ManagedInv
  BY ManagedInvInit, ManagedInvNext, PTL DEF Spec
<1> QED BY <1>1, ManagedInvImplies, PTL
=============================================================================
