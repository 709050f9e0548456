--------------------------- MODULE ServicesProofs ---------------------------
(***************************************************************************)
(* What holds of the parts of Services for all values of their parameters: *)
(* for each part an invariant of its own, whose only steps are the part's, *)
(* since a step of another part leaves its variables alone.  Here are the  *)
(* hints of scenes, the GNSS services, the face service and the receiver.  *)
(***************************************************************************)
EXTENDS Services, SequenceTheorems, FiniteSetTheorems, WellFoundedInduction, TLAPS
---------------------------------------------------------------------------
(* The bounds. *)

LEMMA Bounds ==
  /\ MaxOps \in Nat /\ SvsCount \in Nat /\ MaxBatch \in Nat /\ MaxHandlers \in Nat
  /\ MaxTimers \in Nat /\ MaxCaptures \in Nat /\ MaxExtCalls \in Nat /\ MaxExtReports \in Nat
  /\ MaxFmCalls \in Nat /\ MaxExtras \in Nat /\ MaxErrors \in Nat
BY BoundsAssumption

---------------------------------------------------------------------------
(* Hints follow the requests for them. *)

\* Deaths are reported of dead clients only.
ReportedAreDead == mObitsSent \cap alive = {}

HintInv == TypeOK /\ HintFollowsRequests /\ LiveHoldersLinked /\ ReportedAreDead

\* Nothing is held initially, and no hint is on.
LEMMA HintsInit == Init => HintInv
BY CallsAssumption
   DEF Init, HintInv, TypeOK, HintFollowsRequests, LiveHoldersLinked, Holders, ReportedAreDead, Call

\* What an acquisition does to the requests, and to the hint of its scene.
LEMMA AcquireHint ==
  ASSUME HintInv, NEW t \in Tokens, NEW s \in Scenes, acquirePowerHintBySceneId(t, s)
  PROVE  /\ mPowerHintRequests' \in [Scenes -> SUBSET Tokens]
         /\ linked' \subseteq Tokens \X Scenes
         /\ hint' \in [Scenes -> {0, 1}]
         /\ HintFollowsRequests'
         /\ alive' = alive => LiveHoldersLinked'
<1> USE DEF HintInv, TypeOK
<1>1. CASE t \in Holders(s)
  BY <1>1 DEF acquirePowerHintBySceneId, HintFollowsRequests, LiveHoldersLinked, Holders
<1>2. CASE t \notin Holders(s)
  <2>1. mPowerHintRequests' = [mPowerHintRequests EXCEPT ![s] = @ \cup {t}]
    BY <1>2 DEF acquirePowerHintBySceneId
  <2>2. linked' = IF Links(t) THEN linked \cup {<<t, s>>} ELSE linked
    BY <1>2 DEF acquirePowerHintBySceneId
  <2>3. hint' = [hint EXCEPT ![s] = HintIfFirst(s)]
    BY <1>2 DEF acquirePowerHintBySceneId
  <2>4. HintIfFirst(s) = 1
    BY DEF HintIfFirst, HintFollowsRequests
  <2>5. /\ mPowerHintRequests' \in [Scenes -> SUBSET Tokens]
        /\ linked' \subseteq Tokens \X Scenes
        /\ hint' \in [Scenes -> {0, 1}]
    BY <2>1, <2>2, <2>3, <2>4
  <2>6. HintFollowsRequests'
    <3> SUFFICES ASSUME NEW r \in Scenes
                 PROVE  hint'[r] = 1 <=> mPowerHintRequests'[r] # {}
      BY DEF HintFollowsRequests, Holders
    <3>1. CASE r = s
      BY <2>1, <2>3, <2>4, <3>1
    <3>2. CASE r # s
      BY <2>1, <2>3, <3>2 DEF HintFollowsRequests, Holders
    <3> QED BY <3>1, <3>2
  <2>7. ASSUME alive' = alive PROVE LiveHoldersLinked'
    <3> SUFFICES ASSUME NEW r \in Scenes, NEW u \in mPowerHintRequests'[r], u \in alive
                 PROVE  <<u, r>> \in linked'
      BY <2>7 DEF LiveHoldersLinked, Holders
    <3>1. CASE u \in mPowerHintRequests[r]
      BY <2>2, <3>1 DEF LiveHoldersLinked, Holders
    <3>2. CASE u \notin mPowerHintRequests[r]
      <4>1. r = s /\ u = t
        BY <2>1, <3>2
      <4>2. Links(t)
        BY <4>1 DEF Links, ReportedAreDead
      <4> QED BY <2>2, <4>1, <4>2
    <3> QED BY <3>1, <3>2
  <2> QED BY <2>5, <2>6, <2>7
<1> QED BY <1>1, <1>2

\* What a release does, called by the client or for a dead one.
LEMMA ReleaseHint ==
  ASSUME HintInv, NEW t \in Tokens, NEW s \in Scenes, releasePowerHintBySceneId(t, s)
  PROVE  /\ mPowerHintRequests' \in [Scenes -> SUBSET Tokens]
         /\ linked' \subseteq Tokens \X Scenes
         /\ hint' \in [Scenes -> {0, 1}]
         /\ mObitsSent' \subseteq mObitsSent
         /\ HintFollowsRequests'
         /\ alive' = alive => LiveHoldersLinked'
<1> USE DEF HintInv, TypeOK
<1>1. CASE t \notin Holders(s)
  BY <1>1 DEF releasePowerHintBySceneId, HintFollowsRequests, LiveHoldersLinked, Holders
<1>2. CASE t \in Holders(s)
  <2>1. mPowerHintRequests' = [mPowerHintRequests EXCEPT ![s] = @ \ {t}]
    BY <1>2 DEF releasePowerHintBySceneId
  <2>2. linked' = linked \ {<<t, s>>}
    BY <1>2 DEF releasePowerHintBySceneId
  <2>3. hint' = [hint EXCEPT ![s] = HintIfLast(t, s)]
    BY <1>2 DEF releasePowerHintBySceneId
  <2>4. hint[s] = 1
    BY <1>2 DEF HintFollowsRequests
  <2>5. HintIfLast(t, s) = IF mPowerHintRequests[s] = {t} THEN 0 ELSE 1
    BY <2>4 DEF HintIfLast, Holders
  <2>6. /\ mPowerHintRequests' \in [Scenes -> SUBSET Tokens]
        /\ linked' \subseteq Tokens \X Scenes
        /\ hint' \in [Scenes -> {0, 1}]
    BY <2>1, <2>2, <2>3, <2>5
  <2>7. mObitsSent' \subseteq mObitsSent
    BY <1>2 DEF releasePowerHintBySceneId
  <2>8. HintFollowsRequests'
    <3> SUFFICES ASSUME NEW r \in Scenes
                 PROVE  hint'[r] = 1 <=> mPowerHintRequests'[r] # {}
      BY DEF HintFollowsRequests, Holders
    <3>1. CASE r = s
      BY <1>2, <2>1, <2>3, <2>5, <3>1 DEF Holders
    <3>2. CASE r # s
      BY <2>1, <2>3, <3>2 DEF HintFollowsRequests, Holders
    <3> QED BY <3>1, <3>2
  <2>9. ASSUME alive' = alive PROVE LiveHoldersLinked'
    <3> SUFFICES ASSUME NEW r \in Scenes, NEW u \in mPowerHintRequests'[r], u \in alive
                 PROVE  <<u, r>> \in linked'
      BY <2>9 DEF LiveHoldersLinked, Holders
    <3>1. u \in mPowerHintRequests[r] /\ <<u, r>> # <<t, s>>
      BY <2>1
    <3> QED BY <2>2, <3>1 DEF LiveHoldersLinked, Holders
  <2> QED BY <2>6, <2>7, <2>8, <2>9
<1> QED BY <1>1, <1>2

\* The invariant is inductive.
LEMMA HintsStep == HintInv /\ [Next]_vars => HintInv'
<1> SUFFICES ASSUME HintInv, [Next]_vars PROVE HintInv'
  OBVIOUS
<1> USE DEF HintInv, TypeOK
<1>1. ASSUME NEW c \in Call, Send(c) PROVE HintInv'
  BY <1>1, CallsAssumption
     DEF Send, HintFollowsRequests, LiveHoldersLinked, Holders, ReportedAreDead
<1>2. ASSUME NEW t \in Tokens, Die(t) PROVE HintInv'
  BY <1>2 DEF Die, HintFollowsRequests, LiveHoldersLinked, Holders, ReportedAreDead
<1>3. ASSUME NEW t \in Tokens, ReportDeath(t) PROVE HintInv'
  BY <1>3 DEF ReportDeath, HintFollowsRequests, LiveHoldersLinked, Holders, ReportedAreDead
<1>4. ASSUME NEW t \in Tokens, NEW s \in Scenes, serviceDied(t, s) PROVE HintInv'
  <2>1. releasePowerHintBySceneId(t, s)
    BY <1>4 DEF serviceDied, OnServiceDied
  <2>2. UNCHANGED <<queue, calls, alive>> /\ obits' \subseteq Tokens \X Scenes
    BY <1>4 DEF serviceDied
  <2> QED BY <2>1, <2>2, ReleaseHint DEF ReportedAreDead
<1>5. CASE RunCall
  <2>1. Head(queue) \in Call /\ queue' \in Seq(Call)
    BY <1>5 DEF RunCall
  <2> DEFINE c == Head(queue)
  <2>2. c.token \in Tokens /\ c.scene \in Scenes
    BY <2>1 DEF Call
  <2>3. UNCHANGED <<calls, alive, obits>>
    BY <1>5 DEF RunCall
  <2>4. CASE acquirePowerHintBySceneId(c.token, c.scene) /\ UNCHANGED mObitsSent
    BY <2>1, <2>2, <2>3, <2>4, AcquireHint DEF ReportedAreDead
  <2>5. CASE releasePowerHintBySceneId(c.token, c.scene)
    BY <2>1, <2>2, <2>3, <2>5, ReleaseHint DEF ReportedAreDead
  <2> QED BY <1>5, <2>4, <2>5 DEF RunCall
<1>6. CASE UNCHANGED vars
  BY <1>6 DEF vars, HintFollowsRequests, LiveHoldersLinked, Holders, ReportedAreDead
<1> QED BY <1>1, <1>2, <1>3, <1>4, <1>5, <1>6 DEF Next, Quiet

\* A scene's hint is on exactly while somebody holds the scene.
THEOREM HintsFollow == Spec => []HintFollowsRequests
<1>1. HintInv => HintFollowsRequests
  BY DEF HintInv
<1> QED BY HintsInit, HintsStep, <1>1, PTL DEF Spec

\* The request of a live client always has a death recipient.
THEOREM HoldersLinked == Spec => [](TypeOK /\ LiveHoldersLinked)
<1>1. HintInv => TypeOK /\ LiveHoldersLinked
  BY DEF HintInv
<1> QED BY HintsInit, HintsStep, <1>1, PTL DEF Spec

\* What is linked is held.
LinkedHold == \A t \in Tokens, s \in Scenes : <<t, s>> \in linked => t \in Holders(s)

DeathInv == LinkedHold /\ DeadHoldersLeave

\* A released request is no longer linked, and no other link changes.
LEMMA ReleaseUnlinks ==
  ASSUME DeathInv, HintInv, NEW t \in Tokens, NEW s \in Scenes, releasePowerHintBySceneId(t, s)
  PROVE  linked' = linked \ {<<t, s>>} /\ LinkedHold' /\ mObitsSent' \subseteq mObitsSent
<1>1. CASE t \notin Holders(s)
  BY <1>1 DEF releasePowerHintBySceneId, DeathInv, LinkedHold, Holders
<1>2. CASE t \in Holders(s)
  <2>1. mPowerHintRequests' = [mPowerHintRequests EXCEPT ![s] = @ \ {t}] /\ linked' = linked \ {<<t, s>>}
    BY <1>2 DEF releasePowerHintBySceneId
  <2>2. LinkedHold'
    <3> SUFFICES ASSUME NEW u \in Tokens, NEW r \in Scenes, <<u, r>> \in linked'
                 PROVE  u \in mPowerHintRequests'[r]
      BY DEF LinkedHold, Holders
    <3>1. u \in mPowerHintRequests[r] /\ <<u, r>> # <<t, s>>
      BY <2>1 DEF DeathInv, LinkedHold, Holders
    <3> QED BY <2>1, <3>1 DEF HintInv, TypeOK
  <2>3. mObitsSent' \subseteq mObitsSent
    BY <1>2 DEF releasePowerHintBySceneId
  <2> QED BY <2>1, <2>2, <2>3
<1> QED BY <1>1, <1>2

\* A new request is linked unless the death of its client was reported before.
LEMMA AcquireLinks ==
  ASSUME DeathInv, HintInv, NEW t \in Tokens, NEW s \in Scenes, acquirePowerHintBySceneId(t, s)
  PROVE  LinkedHold' /\ \A l \in linked' : l \in linked \/ l[1] \notin mObitsSent
<1>1. CASE t \in Holders(s)
  BY <1>1 DEF acquirePowerHintBySceneId, DeathInv, LinkedHold, Holders
<1>2. CASE t \notin Holders(s)
  <2>1. /\ mPowerHintRequests' = [mPowerHintRequests EXCEPT ![s] = @ \cup {t}]
        /\ linked' = IF Links(t) THEN linked \cup {<<t, s>>} ELSE linked
    BY <1>2 DEF acquirePowerHintBySceneId
  <2>2. LinkedHold'
    <3> SUFFICES ASSUME NEW u \in Tokens, NEW r \in Scenes, <<u, r>> \in linked'
                 PROVE  u \in mPowerHintRequests'[r]
      BY DEF LinkedHold, Holders
    <3>1. u \in mPowerHintRequests[r] \/ (u = t /\ r = s)
      BY <2>1 DEF DeathInv, LinkedHold, Holders
    <3> QED BY <2>1, <3>1 DEF HintInv, TypeOK
  <2> QED BY <2>1, <2>2 DEF Links
<1> QED BY <1>1, <1>2

\* Links and notices stay in step.
LEMMA DeathsStep == HintInv /\ DeathInv /\ [Next]_vars => DeathInv'
<1> SUFFICES ASSUME HintInv, DeathInv, [Next]_vars PROVE DeathInv'
  OBVIOUS
<1> USE DEF DeathInv, DeadHoldersLeave
<1>1. ASSUME NEW c \in Call, Send(c) PROVE DeathInv'
  BY <1>1 DEF Send, LinkedHold, Holders
<1>2. ASSUME NEW t \in Tokens, Die(t) PROVE DeathInv'
  BY <1>2 DEF Die, LinkedHold, Holders
<1>3. ASSUME NEW t \in Tokens, ReportDeath(t) PROVE DeathInv'
  BY <1>3 DEF ReportDeath, LinkedHold, Holders
<1>4. ASSUME NEW t \in Tokens, NEW s \in Scenes, serviceDied(t, s) PROVE DeathInv'
  <2>1. releasePowerHintBySceneId(t, s) /\ obits' = obits \ {<<t, s>>}
    BY <1>4 DEF serviceDied, OnServiceDied
  <2> QED BY <2>1, ReleaseUnlinks
<1>5. CASE RunCall
  <2> DEFINE c == Head(queue)
  <2>1. c \in Call /\ UNCHANGED obits
    BY <1>5 DEF RunCall, HintInv, TypeOK
  <2>2. c.token \in Tokens /\ c.scene \in Scenes
    BY <2>1 DEF Call
  <2>3. CASE acquirePowerHintBySceneId(c.token, c.scene) /\ UNCHANGED mObitsSent
    BY <2>1, <2>2, <2>3, AcquireLinks
  <2>4. CASE releasePowerHintBySceneId(c.token, c.scene)
    BY <2>1, <2>2, <2>4, ReleaseUnlinks
  <2> QED BY <1>5, <2>3, <2>4 DEF RunCall
<1>6. CASE UNCHANGED vars
  BY <1>6 DEF vars, LinkedHold, Holders
<1> QED BY <1>1, <1>2, <1>3, <1>4, <1>5, <1>6 DEF Next, Quiet

\* Every linked request of a client whose death was reported has its notice under way:
\* what the HAL learns of a death it works off.
THEOREM DeathsWorkedOff == Spec => []DeadHoldersLeave
<1>1. Init => DeathInv
  BY DEF Init, DeathInv, LinkedHold, DeadHoldersLeave
<1>2. DeathInv => DeadHoldersLeave
  BY DEF DeathInv
<1> QED BY HintsInit, HintsStep, <1>1, DeathsStep, <1>2, PTL DEF Spec

\* A behaviour of the suite is one of the hints.
LEMMA SuiteHints == SuiteSpec => Spec
<1>1. SuiteInit => Init
  BY DEF SuiteInit
<1>2. [SuiteNext]_suiteVars => [Next]_vars
  BY DEF SuiteNext, Still, suiteVars
<1> QED
  BY <1>1, <1>2, PTL DEF SuiteSpec, Spec

---------------------------------------------------------------------------
(* The client's side of a scene hint. *)

\* A service that was not lost is known, and has been told; one that died holds nothing.
SceneTold ==
  /\ server = "first" => mService
  /\ server = "first" /\ scene = "used" =>
       /\ monitor = "free" => (holding <=> mCount > 0)
       /\ monitor = "acquire" => mCount = 1
       /\ monitor = "release" => mCount = 0
  /\ server # "first" \/ scene = "finalized" => ~holding

\* What is counted, begun and posted agrees at all times, not only between calls.
SceneCounted ==
  ~crossed => /\ mCount = untimed + timedHolds
              /\ timedHolds = posted + (IF dispatched THEN 1 ELSE 0)

SceneInv == Scene!TypeOK /\ SceneTold /\ SceneCounted

LEMMA SceneInit == ASSUME Scene!Init PROVE SceneInv
<1>1. Scene!TypeOK
  <2>1. /\ mService \in BOOLEAN /\ mHandler \in BOOLEAN /\ dispatched \in BOOLEAN
        /\ holding \in BOOLEAN /\ crossed \in BOOLEAN
    BY Zenon DEF Scene!Init
  <2> QED
    BY <2>1, SMT DEF Scene!Init, Scene!TypeOK
<1>2. SceneTold
  BY DEF Scene!Init, SceneTold
<1>3. SceneCounted
  BY DEF Scene!Init, SceneCounted
<1> QED
  BY <1>1, <1>2, <1>3 DEF SceneInv

LEMMA SceneTypes ==
  ASSUME Scene!TypeOK, Scene!Next
  PROVE  Scene!TypeOK'
<1>1. ASSUME NEW isTimed \in BOOLEAN, Scene!Acquire(isTimed) PROVE Scene!TypeOK'
  BY <1>1 DEF Scene!Acquire, Scene!Called, Scene!Tells, Scene!TypeOK
<1>2. CASE Scene!Release
  <2>1. /\ mCount' \in Int /\ posted' \in Nat /\ untimed' \in Nat /\ timedHolds' \in Nat
        /\ monitor' \in {"free", "acquire", "release"}
    BY <1>2 DEF Scene!Release, Scene!ReleaseLocked, Scene!NonePosted, Scene!Tells, Scene!TypeOK
  <2>2. crossed' \in BOOLEAN
    BY <1>2, Zenon DEF Scene!Release, Scene!TypeOK
  <2> QED
    BY <1>2, <2>1, <2>2 DEF Scene!Release, Scene!TypeOK
<1>3. CASE Scene!Dispatch
  BY <1>3 DEF Scene!Dispatch, Scene!TypeOK, Scene!holdVars
<1>4. CASE Scene!Releaser
  <2>1. /\ mCount' \in Int /\ posted' \in Nat /\ timedHolds' \in Nat
        /\ monitor' \in {"free", "acquire", "release"}
    BY <1>4 DEF Scene!Releaser, Scene!ReleaseLocked, Scene!NonePosted, Scene!Tells, Scene!TypeOK
  <2>2. dispatched' \in BOOLEAN
    BY <1>4, Zenon DEF Scene!Releaser
  <2> QED
    BY <1>4, <2>1, <2>2 DEF Scene!Releaser, Scene!TypeOK
<1>5. CASE Scene!CallService
  BY <1>5 DEF Scene!CallService, Scene!TypeOK, Scene!holdVars
<1>6. CASE Scene!Finalize
  BY <1>6 DEF Scene!Finalize, Scene!TypeOK, Scene!holdVars
<1>7. CASE Scene!ServiceDies
  BY <1>7 DEF Scene!ServiceDies, Scene!TypeOK, Scene!holdVars
<1>8. CASE Scene!ServiceRestarts
  BY <1>8 DEF Scene!ServiceRestarts, Scene!TypeOK, Scene!holdVars
<1>9. CASE Scene!serviceDied
  BY <1>9 DEF Scene!serviceDied, Scene!TypeOK, Scene!holdVars
<1> QED
  BY <1>1, <1>2, <1>3, <1>4, <1>5, <1>6, <1>7, <1>8, <1>9 DEF Scene!Next

LEMMA SceneStep ==
  ASSUME SceneInv, Scene!Next
  PROVE  SceneInv'
<1> USE DEF Scene!TypeOK
<1>0. Scene!TypeOK /\ SceneTold /\ SceneCounted
  BY DEF SceneInv
<1>1. ASSUME NEW isTimed \in BOOLEAN, Scene!Acquire(isTimed)
      PROVE  SceneTold' /\ SceneCounted'
  <2>1. SceneTold'
    BY <1>0, <1>1 DEF Scene!Acquire, Scene!Called, Scene!Tells, SceneTold
  <2>2. SceneCounted'
    BY <1>0, <1>1 DEF Scene!Acquire, Scene!Called, SceneCounted
  <2> QED
    BY <2>1, <2>2
<1>2. ASSUME Scene!Release PROVE SceneTold' /\ SceneCounted'
  <2>1. SceneTold'
    BY <1>0, <1>2 DEF Scene!Release, Scene!ReleaseLocked, Scene!Called, Scene!Tells, SceneTold
  <2>2. SceneCounted'
    <3>1. CASE untimed > 0 /\ untimed' = untimed - 1 /\ UNCHANGED <<timedHolds, crossed>>
      BY <1>0, <1>2, <3>1 DEF Scene!Release, Scene!ReleaseLocked, Scene!NonePosted, SceneCounted
    <3>2. CASE /\ timedHolds > 0 /\ timedHolds' = timedHolds - 1
               /\ crossed' = (crossed \/ untimed + timedHolds > 1 \/ dispatched)
               /\ UNCHANGED untimed
      <4>1. ~crossed' => ~crossed /\ ~dispatched /\ ~(untimed + timedHolds > 1)
        BY <3>2
      <4>2. dispatched' = dispatched
        BY <1>2 DEF Scene!Release
      <4>3. ~crossed' => mCount = 1 /\ posted = 1 /\ untimed = 0 /\ timedHolds = 1
        BY <1>0, <3>2, <4>1 DEF SceneCounted
      <4>4. mCount = 1 => mCount' = 0 /\ posted' = 0
        BY <1>2 DEF Scene!Release, Scene!ReleaseLocked, Scene!NonePosted
      <4> QED
        BY <1>0, <3>2, <4>1, <4>2, <4>3, <4>4 DEF SceneCounted
    <3> QED
      BY <1>2, <3>1, <3>2 DEF Scene!Release
  <2> QED
    BY <2>1, <2>2
<1>3. ASSUME Scene!Dispatch PROVE SceneTold' /\ SceneCounted'
  <2>1. SceneTold'
    BY <1>0, <1>3 DEF Scene!Dispatch, SceneTold
  <2>2. SceneCounted'
    BY <1>0, <1>3 DEF Scene!Dispatch, SceneCounted, Scene!holdVars
  <2> QED
    BY <2>1, <2>2
<1>4. ASSUME Scene!Releaser PROVE SceneTold' /\ SceneCounted'
  <2>1. SceneTold'
    BY <1>0, <1>4 DEF Scene!Releaser, Scene!ReleaseLocked, Scene!Called, Scene!Tells, SceneTold
  <2>2. SceneCounted'
    BY <1>0, <1>4 DEF Scene!Releaser, Scene!ReleaseLocked, Scene!NonePosted, SceneCounted
  <2> QED
    BY <2>1, <2>2
<1>5. ASSUME Scene!CallService PROVE SceneTold' /\ SceneCounted'
  <2>1. SceneTold'
    <3>1. CASE mService /\ server = "first"
      <4>1. holding' <=> monitor = "acquire"
        BY <1>5, <3>1, Zenon DEF Scene!CallService
      <4> QED
        BY <1>0, <1>5, <3>1, <4>1 DEF Scene!CallService, SceneTold
    <3>2. CASE ~(mService /\ server = "first")
      BY <1>0, <1>5, <3>2 DEF Scene!CallService, SceneTold
    <3> QED
      BY <3>1, <3>2
  <2>2. SceneCounted'
    BY <1>0, <1>5 DEF Scene!CallService, SceneCounted, Scene!holdVars
  <2> QED
    BY <2>1, <2>2
<1>6. ASSUME Scene!Finalize PROVE SceneTold' /\ SceneCounted'
  <2>1. SceneTold'
    BY <1>0, <1>6 DEF Scene!Finalize, Scene!Called, SceneTold
  <2>2. SceneCounted'
    BY <1>0, <1>6 DEF Scene!Finalize, SceneCounted, Scene!holdVars
  <2> QED
    BY <2>1, <2>2
<1>7. ASSUME Scene!ServiceDies \/ Scene!ServiceRestarts \/ Scene!serviceDied
      PROVE  SceneTold' /\ SceneCounted'
  <2>1. SceneTold'
    BY <1>0, <1>7 DEF Scene!ServiceDies, Scene!ServiceRestarts, Scene!serviceDied, SceneTold
  <2>2. SceneCounted'
    BY <1>0, <1>7 DEF Scene!ServiceDies, Scene!ServiceRestarts, Scene!serviceDied, SceneCounted,
                      Scene!holdVars
  <2> QED
    BY <2>1, <2>2
<1>8. SceneTold' /\ SceneCounted'
  BY <1>1, <1>2, <1>3, <1>4, <1>5, <1>6, <1>7 DEF Scene!Next
<1> QED
  BY <1>0, <1>8, SceneTypes DEF SceneInv

LEMMA SceneInvHolds == SuiteSpec => []SceneInv
<1>1. SuiteInit => SceneInv
  <2>1. SuiteInit => Scene!Init
    BY DEF SuiteInit
  <2> QED
    BY <2>1, SceneInit
<1>2. SceneInv /\ [SuiteNext]_suiteVars => SceneInv'
  <2>1. ASSUME SceneInv, UNCHANGED sceneVars PROVE SceneInv'
    BY <2>1 DEF sceneVars, SceneInv, Scene!TypeOK, SceneTold, SceneCounted
  <2>2. [SuiteNext]_suiteVars => Scene!Next \/ UNCHANGED sceneVars
    BY DEF SuiteNext, Still, suiteVars
  <2> QED
    BY <2>1, <2>2, SceneStep
<1> QED
  BY <1>1, <1>2, PTL DEF SuiteSpec

\* The service holds a client's scene exactly while the client counts a hold, and until an
\* early release meets its timer the count is that of the holds: for any number of calls.
THEOREM SceneHoldsKept == SuiteSpec => []HoldsKept
<1>1. SceneInv => HoldsKept
  BY DEF SceneInv, Scene!TypeOK, SceneTold, SceneCounted, HoldsKept, Scene!HoldsKept, Scene!Called
<1> QED
  BY <1>1, SceneInvHolds, PTL

---------------------------------------------------------------------------
(* The wakelock of the two engines. *)

WakeIdle == \A t \in Wake!Threads : pc[t] = "idle"
Wanted   == \E t \in Wake!Threads : wants[t]

\* A request that has met no other is the only one under way.
WakeAlone ==
  /\ alone => \A t, u \in Wake!Threads : pc[t] # "idle" /\ pc[u] # "idle" => t = u
  /\ ~alone /\ ~disturbed => WakeIdle

\* What it found of the other engine is still so.
WakeFound ==
  alone => \A t \in Wake!Threads :
    /\ pc[t] \in {"test", "take", "acquire"} => Wanted
    /\ pc[t] \in {"drop", "release"} => ~Wanted

\* A framework that is gone holds nothing.  Unless requests met or frameworks changed under a
\* lock, the framework there is was told what the flag says, up to the call under way.
WakeTold ==
  /\ held => wakeCallback = "alive"
  /\ ~disturbed =>
       /\ WakeIdle /\ wakeCallback = "alive" => (held <=> Wanted)
       /\ \A t \in Wake!Threads : pc[t] \in {"take", "release"} => ~sWakelockHeld
       /\ \A t \in Wake!Threads : pc[t] = "acquire" => sWakelockHeld
       /\ (\A t \in Wake!Threads : pc[t] \notin {"acquire", "release"}) /\ wakeCallback = "alive"
            => (held <=> sWakelockHeld)

WakeInv == Wake!TypeOK /\ WakeAlone /\ WakeFound /\ WakeTold

LEMMA WakeInit == ASSUME Wake!Init PROVE WakeInv
<1>1. WakeIdle /\ ~Wanted
  BY DEF Wake!Init, WakeIdle, Wanted
<1>2. Wake!TypeOK
  BY Zenon DEF Wake!Init, Wake!TypeOK
<1>3. WakeAlone /\ WakeFound /\ WakeTold
  BY <1>1 DEF Wake!Init, WakeAlone, WakeFound, WakeTold, WakeIdle, Wanted
<1> QED
  BY <1>2, <1>3 DEF WakeInv

\* A callback is set or forgotten.
LEMMA WakeCallbackStep ==
  ASSUME WakeInv, Wake!SetCallback \/ Wake!Die \/ Wake!HandleHidlDeath
  PROVE  WakeInv'
<1> USE DEF Wake!TypeOK
<1>0. Wake!TypeOK /\ WakeAlone /\ WakeFound /\ WakeTold
  BY DEF WakeInv
<1>1. /\ disturbed' = (disturbed \/ sWakelockHeld \/ \E t \in Wake!Threads : wants[t] \/ pc[t] # "idle")
      /\ UNCHANGED <<wants, sWakelockHeld, pc, alone>>
      /\ wakeCallback' \in {"none", "alive", "dead"} /\ held' \in BOOLEAN
      /\ held' => held /\ wakeCallback' = "alive"
      /\ wakeRelease' = wakeRelease
  <2>1. CASE Wake!SetCallback
    <3>0. held = TRUE \/ held = FALSE
      BY <1>0, Zenon
    <3>1. held' = held \/ held' = FALSE
      BY <2>1, Zenon DEF Wake!SetCallback
    <3>2. (held' = TRUE \/ held' = FALSE) /\ (held' => held)
      <4>1. CASE held' = held
        BY <3>0, <4>1, Zenon
      <4>2. CASE held' = FALSE
        BY <4>2, Zenon
      <4> QED
        BY <3>1, <4>1, <4>2, Zenon
    <3> QED
      BY <1>0, <2>1, <3>2, Zenon DEF Wake!SetCallback, Wake!CallbackChanges
  <2>2. CASE Wake!Die
    BY <1>0, <2>2, Zenon DEF Wake!Die, Wake!CallbackChanges
  <2>3. CASE Wake!HandleHidlDeath
    <3>1. ~held
      BY <1>0, <2>3 DEF Wake!HandleHidlDeath, WakeTold
    <3> QED
      BY <1>0, <2>3, <3>1, Zenon DEF Wake!HandleHidlDeath, Wake!CallbackChanges
  <2> QED
    BY <2>1, <2>2, <2>3
<1>2. Wake!TypeOK'
  BY <1>0, <1>1
<1>3. WakeAlone' /\ WakeFound'
  BY <1>0, <1>1 DEF WakeAlone, WakeFound, WakeIdle, Wanted
<1>4. ~disturbed' => ~disturbed /\ ~sWakelockHeld /\ WakeIdle /\ ~Wanted
  BY <1>0, <1>1 DEF WakeIdle, Wanted
<1>5. ~disturbed' => ~held'
  BY <1>0, <1>1, <1>4 DEF WakeTold, WakeIdle
<1>6. WakeTold'
  BY <1>0, <1>1, <1>4, <1>5 DEF WakeTold, WakeIdle, Wanted
<1> QED
  BY <1>2, <1>3, <1>6 DEF WakeInv

LEMMA WakeStep ==
  ASSUME WakeInv, Wake!Next
  PROVE  WakeInv'
<1>0. Wake!TypeOK /\ WakeAlone /\ WakeFound /\ WakeTold
  BY DEF WakeInv
<1>00. CASE Wake!SetCallback \/ Wake!Die \/ Wake!HandleHidlDeath
  BY <1>00, WakeCallbackStep
<1>01. CASE \E t \in Wake!Threads : Wake!Update(t)
  <2> PICK t \in Wake!Threads : Wake!Update(t)
    BY <1>01
  <2> USE DEF Wake!TypeOK, Wake!callbackVars, Wake!historyVars
  <2>1. ASSUME Wake!Ask(t) PROVE WakeInv'
    <3>1. alone' <=> WakeIdle
      BY <2>1, Zenon DEF Wake!Ask, WakeIdle
    <3>2. disturbed' <=> disturbed \/ ~alone'
      BY <2>1, Zenon DEF Wake!Ask
    <3>3. Wake!TypeOK'
      BY <1>0, <2>1 DEF Wake!Ask
    <3>4. WakeAlone'
      BY <1>0, <2>1, <3>1, <3>2 DEF Wake!Ask, WakeAlone, WakeIdle
    <3>5. WakeFound'
      BY <1>0, <2>1, <3>1, <3>2 DEF Wake!Ask, WakeFound, WakeIdle
    <3>6. WakeTold'
      BY <1>0, <2>1, <3>1, <3>2 DEF Wake!Ask, WakeTold, WakeIdle
    <3> QED
      BY <3>3, <3>4, <3>5, <3>6 DEF WakeInv
  <2>2. ASSUME Wake!Check(t) PROVE WakeInv'
    <3>1. Wake!TypeOK' /\ WakeAlone'
      BY <1>0, <2>2 DEF Wake!Check, WakeAlone, WakeIdle
    <3>2. WakeFound'
      BY <1>0, <2>2 DEF Wake!Check, WakeAlone, WakeFound, Wanted
    <3>3. WakeTold'
      BY <1>0, <2>2 DEF Wake!Check, WakeAlone, WakeFound, WakeTold, WakeIdle, Wanted
    <3> QED
      BY <3>1, <3>2, <3>3 DEF WakeInv
  <2>3. ASSUME Wake!Decide(t) PROVE WakeInv'
    <3>1. Wake!TypeOK' /\ WakeAlone'
      BY <1>0, <2>3 DEF Wake!Decide, WakeAlone, WakeIdle
    <3>2. WakeFound'
      BY <1>0, <2>3 DEF Wake!Decide, WakeAlone, WakeFound, Wanted
    <3>3. WakeTold'
      BY <1>0, <2>3 DEF Wake!Decide, WakeAlone, WakeFound, WakeTold, WakeIdle, Wanted
    <3> QED
      BY <3>1, <3>2, <3>3 DEF WakeInv
  <2>4. ASSUME Wake!Test(t) PROVE WakeInv'
    <3>1. Wake!TypeOK' /\ WakeAlone'
      BY <1>0, <2>4 DEF Wake!Test, WakeAlone, WakeIdle
    <3>2. WakeFound'
      BY <1>0, <2>4 DEF Wake!Test, WakeAlone, WakeFound, Wanted
    <3>3. WakeTold'
      BY <1>0, <2>4 DEF Wake!Test, WakeAlone, WakeFound, WakeTold, WakeIdle, Wanted
    <3> QED
      BY <3>1, <3>2, <3>3 DEF WakeInv
  <2>5. ASSUME Wake!Take(t) PROVE WakeInv'
    <3>1. Wake!TypeOK' /\ WakeAlone'
      BY <1>0, <2>5 DEF Wake!Take, WakeAlone, WakeIdle
    <3>2. WakeFound'
      BY <1>0, <2>5 DEF Wake!Take, WakeAlone, WakeFound, Wanted
    <3>3. WakeTold'
      BY <1>0, <2>5 DEF Wake!Take, WakeAlone, WakeFound, WakeTold, WakeIdle, Wanted
    <3> QED
      BY <3>1, <3>2, <3>3 DEF WakeInv
  <2>6. ASSUME Wake!Acquire(t) PROVE WakeInv'
    <3>1. Wake!TypeOK' /\ WakeAlone'
      BY <1>0, <2>6 DEF Wake!Acquire, WakeAlone, WakeIdle
    <3>2. WakeFound'
      BY <1>0, <2>6 DEF Wake!Acquire, WakeAlone, WakeFound, Wanted
    <3>3. WakeTold'
      BY <1>0, <2>6 DEF Wake!Acquire, WakeAlone, WakeFound, WakeTold, WakeIdle, Wanted
    <3> QED
      BY <3>1, <3>2, <3>3 DEF WakeInv
  <2>7. ASSUME Wake!Drop(t) PROVE WakeInv'
    <3>1. Wake!TypeOK' /\ WakeAlone'
      BY <1>0, <2>7 DEF Wake!Drop, WakeAlone, WakeIdle
    <3>2. WakeFound'
      BY <1>0, <2>7 DEF Wake!Drop, WakeAlone, WakeFound, Wanted
    <3>3. WakeTold'
      BY <1>0, <2>7 DEF Wake!Drop, WakeAlone, WakeFound, WakeTold, WakeIdle, Wanted
    <3> QED
      BY <3>1, <3>2, <3>3 DEF WakeInv
  <2>8. ASSUME Wake!Release(t) PROVE WakeInv'
    <3>1. Wake!TypeOK' /\ WakeAlone'
      BY <1>0, <2>8 DEF Wake!Release, WakeAlone, WakeIdle
    <3>2. WakeFound'
      BY <1>0, <2>8 DEF Wake!Release, WakeAlone, WakeFound, Wanted
    <3>3. WakeTold'
      BY <1>0, <2>8 DEF Wake!Release, WakeAlone, WakeFound, WakeTold, WakeIdle, Wanted
    <3> QED
      BY <3>1, <3>2, <3>3 DEF WakeInv
  <2> QED
    BY <2>1, <2>2, <2>3, <2>4, <2>5, <2>6, <2>7, <2>8 DEF Wake!Update
<1> QED
  BY <1>00, <1>01 DEF Wake!Next

LEMMA WakeInvHolds == SuiteSpec => []WakeInv
<1>1. SuiteInit => WakeInv
  <2>1. SuiteInit => Wake!Init
    BY DEF SuiteInit
  <2> QED
    BY <2>1, WakeInit
<1>2. WakeInv /\ [SuiteNext]_suiteVars => WakeInv'
  <2>1. ASSUME WakeInv, UNCHANGED wakeVars PROVE WakeInv'
    BY <2>1 DEF wakeVars, WakeInv, Wake!TypeOK, WakeAlone, WakeFound, WakeTold, WakeIdle, Wanted
  <2>2. [SuiteNext]_suiteVars => Wake!Next \/ UNCHANGED wakeVars
    BY DEF SuiteNext, Still, suiteVars
  <2> QED
    BY <2>1, <2>2, WakeStep
<1> QED
  BY <1>1, <1>2, PTL DEF SuiteSpec

LEMMA WakeFollows == WakeInv => Wake!WakelockFollows
BY DEF WakeInv, WakeTold, WakeIdle, Wanted, Wake!WakelockFollows

---------------------------------------------------------------------------
(* The callbacks and the clients of the GNSS services. *)

GnssTypes ==
  /\ gnssAlive \subseteq Clients /\ handled \subseteq Clients \ gnssAlive
  /\ gnssLinked \subseteq Clients /\ dropping \in (Clients \ gnssAlive) \cup {Gnss!Nobody}
  /\ version \in Gnss!Versions
  /\ sGnssCbIface \in [Gnss!Versions -> Clients \cup {Gnss!Nobody}]
  /\ extensionCb \in [Gnss!Activities -> Clients \cup {Gnss!Nobody}]
  /\ hal \in [Gnss!Activities -> Clients \cup {Gnss!Nobody}]
  /\ extensions \subseteq Gnss!Activities /\ told \subseteq Clients
  /\ sFlpSupportsBatching \in BOOLEAN

\* A framework registers under its own version, so that what is linked is all there is.
OwnVersion ==
  /\ \A v \in Gnss!Versions : sGnssCbIface[v] # Gnss!Nobody => v = version
  /\ gnssLinked \subseteq {sGnssCbIface["1.0"]}

\* What the HAL does it does for a client whose death was not handled, and through an extension
\* that the handler stops.
Serving ==
  /\ \A x \in Gnss!Activities : hal[x] \notin handled
  /\ \A x \in Gnss!Activities : hal[x] # Gnss!Nobody => x \in extensions \cup {"navigating"}
  /\ \A v \in Gnss!Versions : sGnssCbIface[v] \notin handled

Dropped ==
  dropping # Gnss!Nobody =>
    /\ gnssLinked = {}
    /\ \A x \in Gnss!Activities : hal[x] = Gnss!Nobody
    /\ \A v \in Gnss!Versions : sGnssCbIface[v] \in {dropping, Gnss!Nobody}

Batching ==
  /\ sFlpSupportsBatching => extensionCb["batching"] # Gnss!Nobody
  /\ hal["batching"] # Gnss!Nobody => extensionCb["batching"] # Gnss!Nobody

GnssInv == GnssTypes /\ OwnVersion /\ Serving /\ Dropped /\ Batching

LEMMA GnssInit == ASSUME Gnss!Init PROVE GnssInv
<1> USE DEF Gnss!Init, Gnss!Versions, Gnss!Activities, Gnss!Nobody
<1>1. GnssTypes
  <2>1. sFlpSupportsBatching \in BOOLEAN
    BY Zenon
  <2> QED
    BY <2>1, SMT DEF GnssTypes
<1>2. OwnVersion /\ Serving /\ Dropped /\ Batching
  BY ClientsAssumption DEF OwnVersion, Serving, Dropped, Batching
<1> QED
  BY <1>1, <1>2 DEF GnssInv

\* Of a call that changes neither callbacks of the service nor clients.
LEMMA GnssHalStep ==
  ASSUME GnssInv, NEW x \in Gnss!Activities, dropping = Gnss!Nobody,
         NEW c \in gnssAlive \cup {Gnss!Nobody, hal[x]}, hal' = [hal EXCEPT ![x] = c],
         c = Gnss!Nobody \/ c = hal[x] \/ x \in extensions \cup {"navigating"},
         c # Gnss!Nobody /\ x = "batching" => sFlpSupportsBatching \/ c = hal[x],
         extensionCb' \in [Gnss!Activities -> Clients \cup {Gnss!Nobody}],
         extensionCb["batching"] # Gnss!Nobody => extensionCb'["batching"] # Gnss!Nobody,
         UNCHANGED <<gnssAlive, handled, gnssLinked, dropping, version, sGnssCbIface, extensions,
                     told, sFlpSupportsBatching>>
  PROVE  GnssInv'
<1>1. Gnss!Nobody \notin handled
  BY ClientsAssumption DEF GnssInv, GnssTypes, Gnss!Nobody
<1>2. GnssTypes'
  BY DEF GnssInv, GnssTypes
<1>3. OwnVersion' /\ Dropped'
  BY DEF GnssInv, OwnVersion, Dropped
<1>4. \A y \in Gnss!Activities : hal'[y] = IF y = x THEN c ELSE hal[y]
  BY DEF GnssInv, GnssTypes
<1>5. Serving'
  BY <1>1, <1>4 DEF GnssInv, GnssTypes, Serving
<1>6. Batching'
  BY <1>4 DEF GnssInv, Batching, Gnss!Activities
<1> QED
  BY <1>2, <1>3, <1>5, <1>6 DEF GnssInv

\* Of a step that leaves the callbacks of the service and what the HAL does.
LEMMA GnssQuietStep ==
  ASSUME GnssInv,
         extensionCb' \in [Gnss!Activities -> Clients \cup {Gnss!Nobody}],
         extensionCb["batching"] # Gnss!Nobody => extensionCb'["batching"] # Gnss!Nobody,
         gnssAlive' \subseteq gnssAlive, extensions \subseteq extensions',
         extensions' \subseteq Gnss!Activities, told' \subseteq Clients,
         sFlpSupportsBatching' \in BOOLEAN,
         sFlpSupportsBatching' => sFlpSupportsBatching \/ extensionCb["batching"] # Gnss!Nobody,
         UNCHANGED <<handled, gnssLinked, dropping, version, sGnssCbIface, hal>>
  PROVE  GnssInv'
<1>1. GnssTypes'
  BY DEF GnssInv, GnssTypes
<1>2. OwnVersion' /\ Serving' /\ Dropped'
  BY DEF GnssInv, OwnVersion, Serving, Dropped
<1>3. Batching'
  BY DEF GnssInv, Batching
<1> QED
  BY <1>1, <1>2, <1>3 DEF GnssInv

LEMMA GnssCallbackStep ==
  ASSUME GnssInv, NEW c \in Clients,
         Gnss!SetCallback(c) \/ Gnss!SetCallback_1_1(c) \/ Gnss!SetCallback_2_0(c)
  PROVE  GnssInv'
<1> USE DEF Gnss!worldVars, Gnss!Called, Gnss!Versions
<1>1. /\ c \in gnssAlive /\ dropping = Gnss!Nobody
      /\ sGnssCbIface' = [sGnssCbIface EXCEPT ![version] = c]
      /\ UNCHANGED <<gnssAlive, handled, dropping, version, hal, extensions, extensionCb,
                     sFlpSupportsBatching>>
  BY DEF Gnss!SetCallback, Gnss!SetCallback_1_1, Gnss!SetCallback_2_0
<1>2. \A v \in Gnss!Versions : sGnssCbIface'[v] = IF v = version THEN c ELSE sGnssCbIface[v]
  BY <1>1 DEF GnssInv, GnssTypes
<1>3. told' \subseteq Clients
  BY DEF Gnss!SetCallback, Gnss!SetCallback_1_1, Gnss!SetCallback_2_0, GnssInv, GnssTypes,
         Gnss!Callbacks
<1>4. gnssLinked' \subseteq Clients /\ gnssLinked' \subseteq {sGnssCbIface'["1.0"]}
  <2>1. CASE Gnss!SetCallback(c)
    BY <1>1, <1>2, <2>1 DEF Gnss!SetCallback, Gnss!Unlinked, GnssInv, GnssTypes, OwnVersion
  <2>2. CASE Gnss!SetCallback_1_1(c) \/ Gnss!SetCallback_2_0(c)
    BY <1>1, <1>2, <2>2 DEF Gnss!SetCallback_1_1, Gnss!SetCallback_2_0, GnssInv, GnssTypes,
                            OwnVersion
  <2> QED
    BY <2>1, <2>2
<1>5. GnssTypes'
  BY <1>1, <1>3, <1>4 DEF GnssInv, GnssTypes
<1>6. OwnVersion'
  BY <1>1, <1>2, <1>4 DEF GnssInv, OwnVersion
<1>7. Serving'
  BY <1>1, <1>2 DEF GnssInv, GnssTypes, Serving
<1>8. Dropped' /\ Batching'
  BY <1>1, <1>4 DEF GnssInv, Dropped, Batching
<1> QED
  BY <1>5, <1>6, <1>7, <1>8 DEF GnssInv

LEMMA GnssDeathStep ==
  ASSUME GnssInv, NEW c \in Clients, Gnss!HandleHidlDeath(c)
  PROVE  GnssInv'
<1> USE DEF Gnss!worldVars
<1>1. /\ c \in gnssLinked \ gnssAlive /\ c \in Clients
      /\ hal' = [x \in Gnss!Activities |->
                   IF x \in extensions \cup {"navigating"} THEN Gnss!Nobody ELSE hal[x]]
      /\ dropping' = c /\ gnssLinked' = gnssLinked \ {c}
      /\ UNCHANGED <<gnssAlive, handled, version, sGnssCbIface, told, extensions, extensionCb,
                     sFlpSupportsBatching>>
  BY DEF Gnss!HandleHidlDeath, Gnss!Closed
<1>2. \A x \in Gnss!Activities : hal'[x] = Gnss!Nobody
  BY <1>1 DEF GnssInv, Serving
<1>3. \A v \in Gnss!Versions : sGnssCbIface[v] \in {c, Gnss!Nobody}
  <2>1. c = sGnssCbIface["1.0"] /\ c # Gnss!Nobody
    BY <1>1, ClientsAssumption DEF GnssInv, OwnVersion, Gnss!Nobody
  <2> QED
    BY <2>1 DEF GnssInv, OwnVersion, Gnss!Versions
<1>4. GnssTypes'
  BY <1>1 DEF GnssInv, GnssTypes
<1>5. OwnVersion' /\ Dropped'
  BY <1>1, <1>2, <1>3 DEF GnssInv, OwnVersion, Dropped
<1>6. Serving' /\ Batching'
  <2>1. Gnss!Nobody \notin handled
    BY ClientsAssumption DEF GnssInv, GnssTypes, Gnss!Nobody
  <2> QED
    BY <1>1, <1>2, <2>1 DEF GnssInv, Serving, Batching, Gnss!Activities
<1> QED
  BY <1>4, <1>5, <1>6 DEF GnssInv

LEMMA GnssForgetStep ==
  ASSUME GnssInv, Gnss!ForgetCallbacks
  PROVE  GnssInv'
<1>1. /\ dropping # Gnss!Nobody /\ sGnssCbIface' = [v \in Gnss!Versions |-> Gnss!Nobody]
      /\ handled' = handled \cup {dropping} /\ dropping' = Gnss!Nobody
      /\ UNCHANGED <<version, gnssAlive, gnssLinked, told, extensions, extensionCb, hal,
                     sFlpSupportsBatching>>
  BY DEF Gnss!ForgetCallbacks
<1>2. Gnss!Nobody \notin handled'
  BY <1>1, ClientsAssumption DEF GnssInv, GnssTypes, Gnss!Nobody
<1>3. gnssLinked = {}
  BY <1>1 DEF GnssInv, Dropped
<1>4. GnssTypes'
  BY <1>1 DEF GnssInv, GnssTypes
<1>5. OwnVersion' /\ Dropped' /\ Batching'
  BY <1>1, <1>3 DEF GnssInv, OwnVersion, Dropped, Batching
<1>6. Serving'
  BY <1>1, <1>2 DEF GnssInv, Serving, Dropped
<1> QED
  BY <1>4, <1>5, <1>6 DEF GnssInv

LEMMA GnssStep == ASSUME GnssInv, Gnss!Next PROVE GnssInv'
<1> USE DEF Gnss!worldVars, Gnss!sessionVars, Gnss!Called
<1>1. ASSUME NEW c \in Clients, Gnss!Start(c) PROVE GnssInv'
  <2> PICK ok \in BOOLEAN : hal' = [hal EXCEPT !["navigating"] =
                                     IF ok THEN c
                                     ELSE IF release = "2.0" /\ mIsActive THEN Gnss!Nobody ELSE @]
    BY <1>1 DEF Gnss!Start
  <2> DEFINE d == IF ok THEN c ELSE IF release = "2.0" /\ mIsActive THEN Gnss!Nobody
                                    ELSE hal["navigating"]
  <2>1. hal' = [hal EXCEPT !["navigating"] = d] /\ d \in gnssAlive \cup {Gnss!Nobody, hal["navigating"]}
    BY <1>1 DEF Gnss!Start
  <2>2. "navigating" \in Gnss!Activities
    BY DEF Gnss!Activities
  <2> HIDE DEF d
  <2>3. /\ dropping = Gnss!Nobody
        /\ UNCHANGED <<gnssAlive, handled, gnssLinked, dropping, version, sGnssCbIface, extensions,
                       extensionCb, told, sFlpSupportsBatching>>
    BY <1>1 DEF Gnss!Start
  <2>4. extensionCb' \in [Gnss!Activities -> Clients \cup {Gnss!Nobody}]
    BY <2>3 DEF GnssInv, GnssTypes
  <2> QED
    BY <2>1, <2>2, <2>3, <2>4, GnssHalStep
<1>2. ASSUME NEW c \in Clients,
             \/ Gnss!Stop(c) \/ Gnss!Cleanup(c) \/ Gnss!CloseMeasurement(c)
             \/ Gnss!CloseMessages(c) \/ Gnss!StopBatching(c)
      PROVE  GnssInv'
  <2>1. \E x \in Gnss!Activities : hal' = [hal EXCEPT ![x] = Gnss!Nobody]
    BY <1>2 DEF Gnss!Stop, Gnss!Cleanup, Gnss!CloseMeasurement, Gnss!CloseMessages,
                Gnss!StopBatching, Gnss!Activities
  <2>2. /\ dropping = Gnss!Nobody
        /\ UNCHANGED <<gnssAlive, handled, gnssLinked, dropping, version, sGnssCbIface, extensions,
                       extensionCb, told, sFlpSupportsBatching>>
    BY <1>2 DEF Gnss!Stop, Gnss!Cleanup, Gnss!CloseMeasurement, Gnss!CloseMessages,
                Gnss!StopBatching
  <2>3. extensionCb' \in [Gnss!Activities -> Clients \cup {Gnss!Nobody}]
    BY <2>2 DEF GnssInv, GnssTypes
  <2> QED
    BY <2>1, <2>2, <2>3, GnssHalStep
<1>3. ASSUME NEW c \in Clients,
             Gnss!SetMeasurementCallback(c) \/ Gnss!SetMessageCallback(c) \/ Gnss!StartBatching(c)
      PROVE  GnssInv'
  <2>1. \E x \in {"measuring", "messages", "batching"}, ok \in BOOLEAN :
          /\ x \in extensions
          /\ hal' = [hal EXCEPT ![x] = IF ok THEN c ELSE hal[x]]
          /\ x = "batching" => sFlpSupportsBatching
    BY <1>3 DEF Gnss!SetMeasurementCallback, Gnss!SetMessageCallback, Gnss!StartBatching
  <2> PICK x \in {"measuring", "messages", "batching"}, ok \in BOOLEAN :
          /\ x \in extensions
          /\ hal' = [hal EXCEPT ![x] = IF ok THEN c ELSE hal[x]]
          /\ x = "batching" => sFlpSupportsBatching
    BY <2>1
  <2>2. /\ dropping = Gnss!Nobody /\ c \in gnssAlive
        /\ UNCHANGED <<gnssAlive, handled, gnssLinked, dropping, version, sGnssCbIface, extensions,
                       told, sFlpSupportsBatching>>
    BY <1>3 DEF Gnss!SetMeasurementCallback, Gnss!SetMessageCallback, Gnss!StartBatching
  <2>3. /\ extensionCb' \in [Gnss!Activities -> Clients \cup {Gnss!Nobody}]
        /\ extensionCb'["batching"] = extensionCb["batching"]
    BY <1>3 DEF Gnss!SetMeasurementCallback, Gnss!SetMessageCallback, Gnss!StartBatching, GnssInv,
                GnssTypes, Gnss!Activities
  <2> DEFINE d == IF ok THEN c ELSE hal[x]
  <2>4. hal' = [hal EXCEPT ![x] = d] /\ d \in gnssAlive \cup {Gnss!Nobody, hal[x]}
        /\ x \in Gnss!Activities
    BY <2>2 DEF Gnss!Activities
  <2> HIDE DEF d
  <2> QED
    BY <2>2, <2>3, <2>4, GnssHalStep
<1>4. ASSUME NEW c \in Clients, NEW x \in Gnss!Activities, Gnss!GetExtension(c, x) PROVE GnssInv'
  BY <1>4, GnssQuietStep DEF Gnss!GetExtension, GnssInv, GnssTypes
<1>5. ASSUME NEW c \in Clients, Gnss!InitBatching(c) PROVE GnssInv'
  <2>1. /\ extensionCb' \in [Gnss!Activities -> Clients \cup {Gnss!Nobody}]
        /\ extensionCb'["batching"] # Gnss!Nobody
    BY <1>5, ClientsAssumption DEF Gnss!InitBatching, GnssInv, GnssTypes, Gnss!Activities,
                                   Gnss!Nobody
  <2> QED
    BY <1>5, <2>1, GnssQuietStep DEF Gnss!InitBatching, GnssInv, GnssTypes
<1>6. ASSUME NEW c \in Clients, Gnss!Die(c) PROVE GnssInv'
  BY <1>6, GnssQuietStep DEF Gnss!Die, GnssInv, GnssTypes
<1>7. CASE Gnss!SetCapabilitiesCb \/ Gnss!CapabilitiesCached
  <2>1. told' \subseteq Clients
    BY <1>7 DEF Gnss!SetCapabilitiesCb, Gnss!CapabilitiesCached, Gnss!Callbacks, GnssInv, GnssTypes
  <2> QED
    BY <1>7, <2>1, GnssQuietStep DEF Gnss!SetCapabilitiesCb, Gnss!CapabilitiesCached, GnssInv,
                                     GnssTypes
<1>8. CASE Gnss!FlpCapabilitiesCb
  <2>1. sFlpSupportsBatching' \in BOOLEAN
    BY <1>8, Zenon DEF Gnss!FlpCapabilitiesCb
  <2> QED
    BY <1>8, <2>1, GnssQuietStep DEF Gnss!FlpCapabilitiesCb, GnssInv, GnssTypes
<1>9. \A c \in Clients :
        /\ Gnss!GetExtensionGnssMeasurement(c) => GnssInv'
        /\ Gnss!GetExtensionGnssNavigationMessage(c) => GnssInv'
        /\ Gnss!GetExtensionGnssBatching(c) => GnssInv'
        /\ Gnss!GetExtensionGnssBatching_2_0(c) => GnssInv'
  BY <1>4 DEF Gnss!GetExtensionGnssMeasurement, Gnss!GetExtensionGnssNavigationMessage,
              Gnss!GetExtensionGnssBatching, Gnss!GetExtensionGnssBatching_2_0, Gnss!Activities
<1> HIDE DEF Gnss!worldVars, Gnss!sessionVars, Gnss!Called
<1>10. \A c \in Clients :
         \/ Gnss!SetCallback(c) \/ Gnss!SetCallback_1_1(c) \/ Gnss!SetCallback_2_0(c)
         \/ Gnss!HandleHidlDeath(c)
         => GnssInv'
  BY GnssCallbackStep, GnssDeathStep
<1> QED
  BY <1>1, <1>2, <1>3, <1>5, <1>6, <1>7, <1>8, <1>9, <1>10, GnssForgetStep DEF Gnss!Next

LEMMA GnssInvHolds == SuiteSpec => []GnssInv
<1>1. SuiteInit => GnssInv
  <2>1. SuiteInit => Gnss!Init
    BY DEF SuiteInit
  <2> QED
    BY <2>1, GnssInit
<1>2. GnssInv /\ [SuiteNext]_suiteVars => GnssInv'
  <2>1. ASSUME GnssInv, UNCHANGED gnssVars PROVE GnssInv'
    BY <2>1 DEF gnssVars, GnssInv, GnssTypes, OwnVersion, Serving, Dropped, Batching
  <2>2. [SuiteNext]_suiteVars => Gnss!Next \/ UNCHANGED gnssVars
    BY DEF SuiteNext, Still, suiteVars
  <2> QED
    BY <2>1, <2>2, GnssStep
<1> QED
  BY <1>1, <1>2, PTL DEF SuiteSpec

LEMMA GnssClientsKept == GnssInv => Gnss!GnssClients
<1> SUFFICES ASSUME GnssInv PROVE Gnss!GnssClients
  OBVIOUS
<1>1. Gnss!DeadClientForgotten
  BY DEF GnssInv, Serving, Gnss!DeadClientForgotten, Gnss!Callbacks
<1>2. Gnss!LiveClientKept
  BY DEF GnssInv, OwnVersion, Dropped, Gnss!LiveClientKept, Gnss!Callbacks
<1>3. Gnss!BatchesTaken
  BY DEF GnssInv, Batching, Gnss!BatchesTaken
<1> QED
  BY <1>1, <1>2, <1>3 DEF Gnss!GnssClients

---------------------------------------------------------------------------
(* Greatest and least elements of sets of numbers. *)

Precedes == {ss \in Nat \X Nat : ss[1] < ss[2]}

\* A set of numbers has a least element: the library says so of well-founded relations.
LEMMA LeastOne ==
  ASSUME NEW T \in SUBSET Nat, T # {}
  PROVE  \E x \in T : \A y \in T : x <= y
<1>1. IsWellFoundedOn(Precedes, Nat)
  BY NatLessThanWellFounded DEF Precedes, OpToRel
<1>2. PICK x \in T : \A y \in T : ~ (<<y, x>> \in Precedes)
  BY <1>1, WFMin, Zenon
<1>3. ASSUME NEW y \in T PROVE x <= y
  <2>1. ~ (<<y, x>> \in Precedes)
    BY <1>2
  <2>2. <<y, x>> \in Nat \X Nat
    BY SMT
  <2>3. ~ (y < x)
    BY <2>1, <2>2 DEF Precedes
  <2> QED
    BY <2>3
<1> QED
  BY <1>3

LEMMA GreatestOne ==
  ASSUME NEW n \in Nat, NEW T \in SUBSET 1..n, T # {}
  PROVE  \E x \in T : \A y \in T : y <= x
<1> DEFINE D == {n - x : x \in T}
<1>1. D \subseteq Nat /\ D # {}
  <2>1. ASSUME NEW x \in T PROVE n - x \in Nat
    <3>1. x \in 1..n
      OBVIOUS
    <3> QED
      BY <3>1
  <2> QED
    BY <2>1
<1>2. PICK d \in D : \A e \in D : d <= e
  <2> HIDE DEF D
  <2> QED
    BY <1>1, LeastOne
<1>3. PICK x \in T : d = n - x
  BY <1>2
<1>4. \A y \in T : n - x <= n - y
  BY <1>2, <1>3
<1> QED
  BY <1>4

\* A list of numbers is bounded: else the shortest one that is not would be bounded without
\* its last number.
LEMMA BoundedList ==
  ASSUME NEW n \in Nat, NEW f \in [1..n -> Nat]
  PROVE  \E b \in Nat : \A i \in 1..n : f[i] <= b
<1> DEFINE Bounded(m, g) == \E b \in Nat : \A i \in 1..m : g[i] <= b
           T == {m \in Nat : \E g \in [1..m -> Nat] : ~Bounded(m, g)}
<1> SUFFICES ASSUME n \in T PROVE FALSE
  OBVIOUS
<1>1. PICK m \in T : \A k \in T : m <= k
  <2>1. T \in SUBSET Nat /\ T # {}
    OBVIOUS
  <2> HIDE DEF T
  <2> QED
    BY <2>1, LeastOne
<1>2. PICK g \in [1..m -> Nat] : ~Bounded(m, g)
  BY <1>1
<1>3. m \in Nat
  BY <1>1
<1>4. m # 0
  <2>1. m = 0 => \A i \in 1..m : g[i] <= 0
    BY <1>3
  <2> QED
    BY <1>2, <2>1
<1>5. m - 1 \in Nat /\ m - 1 \notin T
  <2>1. m - 1 \in Nat /\ ~(m <= m - 1)
    BY <1>3, <1>4
  <2> QED
    BY <1>1, <2>1
<1> DEFINE h == [i \in 1..(m - 1) |-> g[i]]
<1>6. h \in [1..(m - 1) -> Nat]
  <2>1. \A i \in 1..(m - 1) : i \in 1..m
    BY <1>3
  <2>2. \A i \in 1..(m - 1) : g[i] \in Nat
    BY <2>1
  <2> QED
    BY <2>2
<1>7. PICK b \in Nat : \A i \in 1..(m - 1) : h[i] <= b
  BY <1>5, <1>6
<1> HIDE DEF T
<1>8. g[m] \in Nat /\ b + g[m] \in Nat
  BY <1>3, <1>4
<1>9. ASSUME NEW i \in 1..m PROVE g[i] <= b + g[m]
  <2>1. CASE i = m
    BY <1>8, <2>1
  <2>2. CASE i # m
    <3>1. i \in 1..(m - 1) /\ g[i] \in Nat
      <4>1. g[i] \in Nat
        OBVIOUS
      <4>2. i \in 1..(m - 1)
        BY <1>3, <2>2
      <4> QED
        BY <4>1, <4>2
    <3>2. g[i] <= b
      BY <1>7, <3>1
    <3>3. \A x, y, z \in Nat : x <= y => x <= y + z
      OBVIOUS
    <3> QED
      BY <1>8, <3>1, <3>2, <3>3
  <2> QED
    BY <2>1, <2>2
<1> QED
  BY <1>2, <1>8, <1>9

LEMMA BoundedSet ==
  ASSUME NEW T \in SUBSET Nat, IsFiniteSet(T)
  PROVE  \E b \in Nat : \A x \in T : x <= b
<1>1. PICK n \in Nat : ExistsSurjection(1..n, T)
  BY FS_NatSurjection
<1>2. PICK f \in [1..n -> T] : \A x \in T : \E i \in 1..n : f[i] = x
  BY <1>1 DEF ExistsSurjection, Surjection
<1>3. f \in [1..n -> Nat]
  BY <1>2
<1>4. PICK b \in Nat : \A i \in 1..n : f[i] <= b
  BY <1>3, BoundedList
<1> QED
  BY <1>2, <1>4

LEMMA GreatestBelow ==
  ASSUME NEW b \in Nat, NEW T \in SUBSET Nat, T # {}, \A x \in T : x <= b
  PROVE  \E x \in T : \A y \in T : y <= x
<1> DEFINE U == {x + 1 : x \in T}
<1>1. U \subseteq 1..(b + 1) /\ U # {} /\ b + 1 \in Nat
  <2>1. ASSUME NEW x \in T PROVE x + 1 \in 1..(b + 1)
    <3>1. x \in Nat /\ x <= b
      OBVIOUS
    <3> QED
      BY <3>1
  <2>2. U \subseteq 1..(b + 1)
    BY <2>1
  <2>3. U # {}
    OBVIOUS
  <2>4. b + 1 \in Nat
    OBVIOUS
  <2> HIDE DEF U
  <2> QED
    BY <2>2, <2>3, <2>4
<1>2. PICK u \in U : \A y \in U : y <= u
  <2> HIDE DEF U
  <2> QED
    BY <1>1, GreatestOne
<1>3. PICK x \in T : u = x + 1
  BY <1>2
<1>4. ASSUME NEW y \in T PROVE y <= x
  <2>1. y + 1 <= x + 1 /\ y \in Nat /\ x \in Nat
    BY <1>2, <1>3
  <2> QED
    BY <2>1
<1> QED
  BY <1>4

---------------------------------------------------------------------------
(* The extensions of the GNSS services. *)

ExtInstances ==
  /\ extMade \in Nat /\ extMade <= 1 /\ extHanded \in Nat /\ extHanded <= extMade
  /\ extCrashed # "second instance"

ExtCallbacks ==
  /\ extRunning \in Nat /\ extCb \in Nat /\ extCb <= extRunning /\ extLatest = extCb
  /\ extTold # Ext!None => extTold.to \in Nat /\ extTold.to <= extLatest

ExtCrashes ==
  /\ extCrashed = "asked the dead" => extKind[2] = "visibility" /\ extCb < extRunning
  /\ extCrashed = "corrections" => extKind[2] = "corrections"

\* What the HAL is told of a list.
MaskOf(list) ==
  [mask |-> Ext!Sendable(Ext!Whole(list)), svid |-> Ext!LastSvid(list),
   of |-> Ext!Sendable({s[1] : s \in Ext!Single(list)})]

ExtLists ==
  /\ listSet \in Seq(Int \X Int)
  /\ mBlacklistedConstellationSet = Ext!Whole(listSet)
  /\ mBlacklistedSourceSet = Ext!Single(listSet)
  /\ extSetting # Ext!None /\ "mask" \in DOMAIN extSetting => extSetting = MaskOf(listSet)

ExtInv == ExtInstances /\ ExtCallbacks /\ ExtCrashes /\ ExtLists

LEMMA ExtInit == ASSUME Ext!Init PROVE ExtInv
<1> USE DEF Ext!Init, Ext!Nobody
<1>1. ExtInstances
  BY DEF ExtInstances
<1>2. ExtCallbacks
  BY DEF ExtCallbacks
<1>3. ExtCrashes
  BY DEF ExtCrashes
<1>4. ExtLists
  <2>1. listSet = <<>> /\ mBlacklistedConstellationSet = {} /\ mBlacklistedSourceSet = {}
        /\ extSetting = Ext!None
    OBVIOUS
  <2>2. Ext!Whole(<<>>) = {} /\ Ext!Single(<<>>) = {}
    BY DEF Ext!Whole, Ext!Single
  <2> QED
    BY <2>1, <2>2 DEF ExtLists
<1> QED
  BY <1>1, <1>2, <1>3, <1>4 DEF ExtInv

LEMMA ExtPassedStep ==
  ASSUME ExtInv, NEW k, NEW what, NEW answer, Ext!Passed(k, what, answer)
  PROVE  ExtInv'
<1> USE DEF Ext!Passed, Ext!Used, Ext!Called, Ext!stays, Ext!cbVars, Ext!listVars
<1>1. ExtInstances' /\ ExtCallbacks' /\ ExtCrashes'
  BY DEF ExtInv, ExtInstances, ExtCallbacks, ExtCrashes
<1>2. ExtLists'
  BY DEF ExtInv, ExtLists
<1> QED
  BY <1>1, <1>2 DEF ExtInv

LEMMA ExtReportStep ==
  ASSUME ExtInv, NEW k, NEW what, Ext!Report(k, what)
  PROVE  ExtInv'
<1> USE DEF Ext!Report, Ext!stays, Ext!cbVars, Ext!listVars
<1>1. ExtInstances' /\ ExtCrashes' /\ ExtLists'
  BY DEF ExtInv, ExtInstances, ExtCrashes, ExtLists
<1>2. ExtCallbacks'
  BY DEF ExtInv, ExtCallbacks
<1> QED
  BY <1>1, <1>2 DEF ExtInv

LEMMA ExtHandOutStep ==
  ASSUME ExtInv, NEW rel, NEW k, Ext!Extension(rel, k) \/ Ext!NoExtension(rel, k)
  PROVE  ExtInv'
<1> USE DEF Ext!Extension, Ext!NoExtension, Ext!Called, Ext!stays, Ext!cbVars, Ext!listVars
<1>1. ExtInstances' /\ extCrashed' = extCrashed
  <2>1. extMade \in Nat /\ extMade <= 1 /\ extHanded \in Nat /\ extHanded <= extMade /\ extCrashed = "no"
    BY DEF ExtInv, ExtInstances
  <2>2. CASE Ext!Extension(rel, k)
    <3>1. /\ extMade' = extMade \/ (extMade = 0 /\ extMade' = extMade + 1)
          /\ extHanded' = extMade'
          /\ extMade' > 1 \/ extCrashed' = extCrashed
      BY <2>2, Zenon
    <3> HIDE DEF Ext!Extension, Ext!NoExtension
    <3>2. extMade' \in Nat /\ extMade' <= 1 /\ ~ (extMade' > 1)
      BY <2>1, <3>1
    <3>3. extCrashed' = extCrashed
      BY <3>1, <3>2, Zenon
    <3>4. extHanded' \in Nat /\ extHanded' <= extMade'
      BY <3>1, <3>2
    <3> QED
      BY <2>1, <3>2, <3>3, <3>4 DEF ExtInstances
  <2>3. CASE Ext!NoExtension(rel, k)
    BY <2>1, <2>3 DEF ExtInstances
  <2> QED
    BY <2>2, <2>3
<1>2. ExtCrashes'
  BY <1>1 DEF ExtInv, ExtCrashes
<1>3. ExtCallbacks' /\ ExtLists'
  BY DEF ExtInv, ExtCallbacks, ExtLists
<1> QED
  BY <1>1, <1>2, <1>3 DEF ExtInv

LEMMA ExtSetCallbackStep == ASSUME ExtInv, Ext!SetCallback PROVE ExtInv'
<1>1. /\ extCb' = extRunning /\ extLatest' = extRunning /\ extCrashed = "no"
      /\ UNCHANGED <<extKind, extRunning, extMade, extHanded, extTold, extCrashed, extSetting, listSet,
                     mBlacklistedConstellationSet, mBlacklistedSourceSet>>
  BY DEF Ext!SetCallback, Ext!Used, Ext!Called, Ext!stays, Ext!listVars
<1>2. ExtCallbacks'
  BY <1>1 DEF ExtInv, ExtCallbacks
<1>3. ExtInstances' /\ ExtCrashes' /\ ExtLists'
  BY <1>1 DEF ExtInv, ExtInstances, ExtCrashes, ExtLists
<1> QED
  BY <1>2, <1>3 DEF ExtInv

LEMMA ExtEmergencyStep == ASSUME ExtInv, Ext!IsInEmergencySessionCb PROVE ExtInv'
<1> USE DEF Ext!IsInEmergencySessionCb, Ext!stays, Ext!cbVars, Ext!listVars
<1>1. ExtInstances' /\ ExtLists'
  BY DEF ExtInv, ExtInstances, ExtLists
<1>2. extTold'.to = extCb /\ UNCHANGED <<extKind, extRunning, extCb, extLatest>>
  OBVIOUS
<1>3. ExtCallbacks'
  <2> HIDE DEF Ext!IsInEmergencySessionCb
  <2> QED
    BY <1>2 DEF ExtInv, ExtCallbacks
<1>4. ExtCrashes'
  <2>1. extKind[2] = "visibility" /\ extCrashed = "no"
    OBVIOUS
  <2>2. extCb # extRunning => extCb < extRunning
    <3> HIDE DEF Ext!IsInEmergencySessionCb
    <3> QED
      BY DEF ExtInv, ExtCallbacks
  <2>3. extCb = extRunning => extCrashed' = "no"
    OBVIOUS
  <2>4. extCb # extRunning => extCrashed' = "asked the dead"
    OBVIOUS
  <2> HIDE DEF Ext!IsInEmergencySessionCb
  <2> QED
    BY <1>2, <2>1, <2>2, <2>3, <2>4 DEF ExtCrashes
<1> QED
  BY <1>1, <1>3, <1>4 DEF ExtInv

LEMMA ExtFenceStep ==
  ASSUME ExtInv,
         Ext!AddGeofence \/ Ext!PauseGeofence \/ Ext!ResumeGeofence \/ Ext!RemoveGeofence
  PROVE  ExtInv'
<1>1. UNCHANGED <<extKind, extRunning, extCb, extLatest, extMade, extHanded, extTold, extCrashed,
                  extSetting, listSet, mBlacklistedConstellationSet, mBlacklistedSourceSet>>
  BY DEF Ext!AddGeofence, Ext!PauseGeofence, Ext!ResumeGeofence, Ext!RemoveGeofence, Ext!Used,
         Ext!Called, Ext!stays, Ext!cbVars, Ext!listVars
<1> QED
  BY <1>1 DEF ExtInv, ExtInstances, ExtCallbacks, ExtCrashes, ExtLists

LEMMA ExtBlacklistStep == ASSUME ExtInv, Ext!SetBlacklist PROVE ExtInv'
<1>1. /\ UNCHANGED <<extKind, extRunning, extCb, extLatest, extMade, extHanded, extTold, extCrashed>>
      /\ \E list \in Blacklists :
           /\ listSet' = list /\ extSetting' = MaskOf(list)
           /\ mBlacklistedConstellationSet' = Ext!Whole(list)
           /\ mBlacklistedSourceSet' = Ext!Single(list)
  BY DEF Ext!SetBlacklist, Ext!Used, Ext!Called, Ext!stays, Ext!cbVars, MaskOf
<1>2. ExtInstances' /\ ExtCallbacks' /\ ExtCrashes'
  BY <1>1 DEF ExtInv, ExtInstances, ExtCallbacks, ExtCrashes
<1>3. ExtLists'
  <2> PICK list \in Blacklists :
        /\ listSet' = list /\ extSetting' = MaskOf(list)
        /\ mBlacklistedConstellationSet' = Ext!Whole(list)
        /\ mBlacklistedSourceSet' = Ext!Single(list)
    BY <1>1
  <2>1. list \in Seq(Int \X Int)
    <3>1. Constellations \X Int \subseteq Int \X Int
      BY BlacklistsAssumption
    <3>2. Len(list) \in Nat /\ list \in [1..Len(list) -> Constellations \X Int]
      BY BlacklistsAssumption
    <3>3. list \in [1..Len(list) -> Int \X Int]
      BY <3>1, <3>2
    <3> QED
      BY <3>2, <3>3, SeqDef
  <2> QED
    BY <2>1 DEF ExtLists, MaskOf, Ext!Whole, Ext!Single, Ext!Sendable, Ext!LastSvid
<1> QED
  BY <1>2, <1>3 DEF ExtInv

LEMMA ExtCorrectionsStep == ASSUME ExtInv, Ext!SetCorrections PROVE ExtInv'
<1> USE DEF Ext!SetCorrections, Ext!Used, Ext!Called, Ext!stays, Ext!cbVars, Ext!listVars
<1>1. ExtInstances' /\ ExtCrashes'
  BY DEF ExtInv, ExtInstances, ExtCrashes
<1>2. ExtCallbacks' /\ ExtLists'
  BY DEF ExtInv, ExtCallbacks, ExtLists
<1> QED
  BY <1>1, <1>2 DEF ExtInv

LEMMA ExtDieStep == ASSUME ExtInv, Ext!Die PROVE ExtInv'
<1> USE DEF Ext!Die, Ext!cbVars, Ext!listVars
<1>1. ExtInstances' /\ ExtLists'
  BY DEF ExtInv, ExtInstances, ExtLists
<1>2. ExtCallbacks' /\ ExtCrashes'
  BY DEF ExtInv, ExtCallbacks, ExtCrashes
<1> QED
  BY <1>1, <1>2 DEF ExtInv

\* A step hands out an extension, reports, hands a call on, or is one of a few others.
LEMMA ExtKindsOfStep ==
  ASSUME Ext!Next
  PROVE  \/ \E rel, k : Ext!Extension(rel, k) \/ Ext!NoExtension(rel, k)
         \/ \E k, what : Ext!Report(k, what)
         \/ \E k, what, answer : Ext!Passed(k, what, answer)
         \/ Ext!AddGeofence \/ Ext!PauseGeofence \/ Ext!ResumeGeofence \/ Ext!RemoveGeofence
         \/ Ext!SetCallback \/ Ext!IsInEmergencySessionCb \/ Ext!SetBlacklist
         \/ Ext!SetCorrections \/ Ext!Die
<1>1. CASE Ext!GetExtension
  BY <1>1, Zenon DEF Ext!GetExtension,
    Ext!GetExtensionGnssGeofencing, Ext!GetExtensionAGnss, Ext!GetExtensionAGnss_2_0,
    Ext!GetExtensionAGnssRil, Ext!GetExtensionAGnssRil_2_0, Ext!GetExtensionXtra,
    Ext!GetExtensionGnssConfiguration, Ext!GetExtensionGnssConfiguration_1_1,
    Ext!GetExtensionGnssConfiguration_2_0, Ext!GetExtensionGnssDebug,
    Ext!GetExtensionGnssDebug_2_0, Ext!GetExtensionMeasurementCorrections,
    Ext!GetExtensionVisibilityControl, Ext!GetExtensionUnisocExt,
    Ext!GnssExtGetExtensionAGnssRilExt, Ext!GnssExtGetExtensionGnssConfiguration,
    Ext!GnssExtGetExtensionGnssGeofencing, Ext!GnssExtGetExtensionAGnss,
    Ext!GnssExtGetExtensionGnssNi, Ext!GnssExtGetExtensionXtra, Ext!GnssExtGetExtensionGnssDebug
<1>2. CASE \/ Ext!AGnssStatusCb_1_0 \/ Ext!AGnssStatusCb \/ Ext!RequestSetId \/ Ext!RequestRefLoc
           \/ Ext!NiNotifyCb \/ Ext!GnssXtraDownloadRequestCb \/ Ext!NoFrameworkNotifyCb
           \/ Ext!GnssMeasurementCorrectionCapabilityCb \/ Ext!GnssGfTransitionCb
           \/ Ext!GnssGfStatusCb \/ Ext!GnssGfAddCb \/ Ext!GnssGfRemoveCb \/ Ext!GnssGfPauseCb
           \/ Ext!GnssGfResumeCb
  BY <1>2, Zenon DEF Ext!AGnssStatusCb_1_0, Ext!AGnssStatusCb, Ext!RequestSetId,
    Ext!RequestRefLoc, Ext!NiNotifyCb, Ext!GnssXtraDownloadRequestCb, Ext!NoFrameworkNotifyCb,
    Ext!GnssMeasurementCorrectionCapabilityCb, Ext!GnssGfTransitionCb, Ext!GnssGfStatusCb,
    Ext!GnssGfAddCb, Ext!GnssGfRemoveCb, Ext!GnssGfPauseCb, Ext!GnssGfResumeCb
<1>3. CASE \/ Ext!SetSuplEs \/ Ext!SetSuplVersion \/ Ext!SetSuplMode \/ Ext!SetLppProfile
           \/ Ext!SetGpsLock \/ Ext!SetGpsLock_1_0 \/ Ext!SetGlonassPositioningProtocol
           \/ Ext!SetEmergencySuplPdn \/ Ext!DataConnOpen \/ Ext!DataConnClosed
           \/ Ext!DataConnFailed \/ Ext!SetServer \/ Ext!SetRefLocation \/ Ext!SetSetId
           \/ Ext!UpdateNetworkAvailability \/ Ext!AgpsNiMessage \/ Ext!UpdateNetworkState
           \/ Ext!UpdateNetworkState_2_0 \/ Ext!EnableNfwLocationAccess \/ Ext!InjectXtraData
           \/ Ext!SetNetWorkHandle \/ Ext!Respond \/ Ext!GetDebugData \/ Ext!GetDebugData_1_0
           \/ Ext!InjectTime \/ Ext!InjectLocation \/ Ext!InjectBestLocation_2_0
           \/ Ext!DeleteAidingData \/ Ext!SetPositionMode \/ Ext!SetPositionMode_1_1
  BY <1>3, Zenon DEF Ext!SetSuplEs, Ext!SetSuplVersion, Ext!SetSuplMode, Ext!SetLppProfile,
    Ext!SetGpsLock, Ext!SetGpsLock_1_0, Ext!SetGlonassPositioningProtocol,
    Ext!SetEmergencySuplPdn, Ext!DataConnOpen, Ext!DataConnClosed, Ext!DataConnFailed,
    Ext!SetServer, Ext!SetRefLocation, Ext!SetSetId, Ext!UpdateNetworkAvailability,
    Ext!AgpsNiMessage, Ext!UpdateNetworkState, Ext!UpdateNetworkState_2_0,
    Ext!EnableNfwLocationAccess, Ext!InjectXtraData, Ext!SetNetWorkHandle, Ext!Respond,
    Ext!GetDebugData, Ext!GetDebugData_1_0, Ext!InjectTime, Ext!InjectLocation,
    Ext!InjectBestLocation_2_0, Ext!DeleteAidingData, Ext!SetPositionMode,
    Ext!SetPositionMode_1_1
<1> QED
  BY <1>1, <1>2, <1>3 DEF Ext!Next

LEMMA ExtStep == ASSUME ExtInv, Ext!Next PROVE ExtInv'
BY ExtKindsOfStep, ExtHandOutStep, ExtReportStep, ExtPassedStep, ExtSetCallbackStep,
   ExtEmergencyStep, ExtFenceStep, ExtBlacklistStep, ExtCorrectionsStep, ExtDieStep

LEMMA ExtInvHolds == SuiteSpec => []ExtInv
<1>1. SuiteInit => ExtInv
  <2>1. SuiteInit => Ext!Init
    BY DEF SuiteInit
  <2> QED
    BY <2>1, ExtInit
<1>2. ExtInv /\ [SuiteNext]_suiteVars => ExtInv'
  <2>1. ASSUME ExtInv, UNCHANGED extVars PROVE ExtInv'
    BY <2>1 DEF extVars, ExtInv, ExtInstances, ExtCallbacks, ExtCrashes, ExtLists
  <2>2. [SuiteNext]_suiteVars => Ext!Next \/ UNCHANGED extVars
    BY DEF SuiteNext, Still, suiteVars
  <2> QED
    BY <2>1, <2>2, ExtStep
<1> QED
  BY <1>1, <1>2, PTL DEF SuiteSpec

\* Of a list with one satellite, whole constellations aside, the HAL is told that one.
LEMMA LastOfOne ==
  ASSUME NEW list \in Seq(Int \X Int), NEW s, Ext!Single(list) = {s}, s[1] \in 1..6
  PROVE  Ext!LastSvid(list) = s[2]
<1> DEFINE svs == {i \in DOMAIN list : list[i][2] # 0 /\ list[i][1] \in 1..6}
<1>1. DOMAIN list = 1..Len(list) /\ Len(list) \in Nat
  OBVIOUS
<1>2. PICK i \in DOMAIN list : list[i][2] # 0 /\ list[i] = s
  BY DEF Ext!Single
<1>3. svs # {} /\ svs \subseteq 1..Len(list)
  BY <1>1, <1>2
<1>4. \A j \in svs : list[j] = s
  BY DEF Ext!Single
<1> DEFINE l == CHOOSE m \in svs : \A j \in svs : j <= m
<1>5. l \in svs
  <2>1. \E x \in svs : \A y \in svs : y <= x
    <3> HIDE DEF svs
    <3> QED
      BY <1>1, <1>3, GreatestOne
  <2> QED
    BY <2>1, Zenon
<1>6. Ext!LastSvid(list) = list[l][2]
  BY <1>3 DEF Ext!LastSvid
<1> HIDE DEF l, svs
<1> QED
  BY <1>4, <1>5, <1>6

LEMMA ExtensionsFollow == ExtInv => Ext!ExtensionsKept
<1> SUFFICES ASSUME ExtInv PROVE Ext!ExtensionsKept
  OBVIOUS
<1>1. Ext!OneOfEach
  <2>1. extMade \in Nat /\ extMade <= 1 /\ extHanded \in Nat /\ extHanded <= extMade /\ extCrashed # "second instance"
    BY DEF ExtInv, ExtInstances
  <2>2. extMade <= 1 /\ extHanded <= extMade
    BY <2>1
  <2> QED
    BY <2>1, <2>2 DEF Ext!OneOfEach
<1>2. Ext!ReportsReach
  <2>1. extTold # Ext!None => extTold.to <= extLatest
    BY DEF ExtInv, ExtCallbacks
  <2> QED
    BY <2>1 DEF ExtInv, ExtCallbacks, ExtCrashes, Ext!ReportsReach
<1>3. \A i \in DOMAIN listSet : listSet[i] \in Int \X Int
  BY DEF ExtInv, ExtLists
<1>4. ASSUME NEW c \in Constellations, NEW svid \in 1..3
      PROVE  Ext!IsBlacklisted(c, svid)
               <=> \E i \in DOMAIN listSet : listSet[i] \in {<<c, 0>>, <<c, svid>>}
  BY <1>3 DEF ExtInv, ExtLists, Ext!IsBlacklisted, Ext!Whole, Ext!Single
<1>5. ASSUME extSetting # Ext!None /\ "mask" \in DOMAIN extSetting
      PROVE  /\ extSetting.mask = {c \in 1..6 : \E i \in DOMAIN listSet : listSet[i] = <<c, 0>>}
             /\ Cardinality(Ext!Single(listSet)) = 1 =>
                  \A s \in Ext!Single(listSet) :
                    s[1] \in 1..6 => extSetting.of = {s[1]} /\ extSetting.svid = s[2]
  <2>1. extSetting = MaskOf(listSet) /\ listSet \in Seq(Int \X Int)
    BY <1>5 DEF ExtInv, ExtLists
  <2>2. extSetting.mask = {c \in 1..6 : \E i \in DOMAIN listSet : listSet[i] = <<c, 0>>}
    BY <1>3, <2>1, SMTT(20) DEF MaskOf, Ext!Sendable, Ext!Whole
  <2>3. ASSUME Cardinality(Ext!Single(listSet)) = 1, NEW s \in Ext!Single(listSet), s[1] \in 1..6
        PROVE  extSetting.of = {s[1]} /\ extSetting.svid = s[2]
    <3>1. IsFiniteSet(Ext!Single(listSet))
      <4> DEFINE I == {j \in DOMAIN listSet : listSet[j][2] # 0}
                 f == [i \in I |-> listSet[i]]
      <4>1. f \in Surjection(I, Ext!Single(listSet))
        BY DEF Surjection, Ext!Single
      <4>2. IsFiniteSet(I)
        BY <2>1, FS_Interval, FS_Subset
      <4> HIDE DEF I, f
      <4> QED
        BY <4>1, <4>2, FS_Surjection
    <3>2. Ext!Single(listSet) = {s}
      BY <2>3, <3>1, FS_Singleton
    <3>3. extSetting.svid = s[2]
      BY <2>1, <2>3, <3>2, LastOfOne DEF MaskOf
    <3>4. extSetting.of = {s[1]}
      BY <2>1, <2>3, <3>2 DEF MaskOf, Ext!Sendable
    <3> QED
      BY <3>3, <3>4
  <2> QED
    BY <2>2, <2>3
<1>6. Ext!BlacklistExact
  BY <1>4, <1>5 DEF Ext!BlacklistExact, Ext!Cardinality, Cardinality
<1> QED
  BY <1>1, <1>2, <1>6 DEF Ext!ExtensionsKept

---------------------------------------------------------------------------
(* The reports of the GNSS services. *)

\* The count given with the last report of an old clock has been used up.
Counted ==
  /\ oldClocks \in Nat
  /\ input.kind = "clock" /\ input.clock.type = "GPS_TIME" =>
       \A d \in delivered : d.message.discontinuities \in Nat /\ d.message.discontinuities < oldClocks

ReportInv == Reports!ReportsConverted /\ Counted

ReportKinds == {"satellites", "measurements", "clock", "batch", "position"}

\* Of a report that is passed on as it is.
LEMMA ReportElsewhere ==
  ASSUME input.kind \notin ReportKinds, oldClocks \in Nat
  PROVE  ReportInv
BY DEF ReportKinds, ReportInv, Counted, Reports!ReportsConverted, Reports!AccuracyTrue,
       Reports!SatellitesIdentified, Reports!OneGeneration, Reports!GpsTimeKept,
       Reports!BatchFiltered

LEMMA ReportElsewhereNext ==
  ASSUME input'.kind \notin ReportKinds, oldClocks' \in Nat
  PROVE  ReportInv'
BY DEF ReportKinds, ReportInv, Counted, Reports!ReportsConverted, Reports!AccuracyTrue,
       Reports!SatellitesIdentified, Reports!OneGeneration, Reports!GpsTimeKept,
       Reports!BatchFiltered

LEMMA ReportPosition ==
  ASSUME input'.kind = "position", oldClocks' \in Nat, Reports!AccuracyTrue'
  PROVE  ReportInv'
BY DEF ReportInv, Counted, Reports!ReportsConverted,
       Reports!SatellitesIdentified, Reports!OneGeneration, Reports!GpsTimeKept,
       Reports!BatchFiltered

LEMMA ReportSatellites ==
  ASSUME input'.kind = "satellites", oldClocks' \in Nat, Reports!SatellitesIdentified'
  PROVE  ReportInv'
BY DEF ReportInv, Counted, Reports!ReportsConverted, Reports!AccuracyTrue,
       Reports!OneGeneration, Reports!GpsTimeKept, Reports!BatchFiltered

LEMMA ReportMeasurements ==
  ASSUME input'.kind = "measurements", oldClocks' \in Nat, Reports!OneGeneration'
  PROVE  ReportInv'
BY DEF ReportInv, Counted, Reports!ReportsConverted, Reports!AccuracyTrue,
       Reports!SatellitesIdentified, Reports!GpsTimeKept, Reports!BatchFiltered

LEMMA ReportBatch ==
  ASSUME input'.kind = "batch", oldClocks' \in Nat, Reports!BatchFiltered'
  PROVE  ReportInv'
BY DEF ReportInv, Counted, Reports!ReportsConverted, Reports!AccuracyTrue,
       Reports!SatellitesIdentified, Reports!OneGeneration, Reports!GpsTimeKept

LEMMA ReportClock ==
  ASSUME input'.kind = "clock", Counted', Reports!GpsTimeKept'
  PROVE  ReportInv'
BY DEF ReportInv, Reports!ReportsConverted, Reports!AccuracyTrue,
       Reports!SatellitesIdentified, Reports!OneGeneration, Reports!BatchFiltered

LEMMA SentMessages ==
  ASSUME NEW V, NEW m
  PROVE  \A d \in Reports!Sent(V, m) : d.message = m /\ d.to \in V
BY DEF Reports!Sent

LEMMA ReportInit == ASSUME Reports!Init PROVE ReportInv
<1>1. input = Reports!Nothing /\ oldClocks = 0
  BY DEF Reports!Init
<1>2. input.kind \notin ReportKinds
  BY <1>1 DEF Reports!Nothing, ReportKinds
<1> QED
  BY <1>1, <1>2, ReportElsewhere

LEMMA PassedOnStep ==
  ASSUME ReportInv, NEW svc, NEW what, what \notin ReportKinds, Reports!PassedOn(svc, what)
  PROVE  ReportInv'
<1>1. input'.kind = what /\ oldClocks' = oldClocks
  BY DEF Reports!PassedOn, Reports!Report
<1> QED
  BY <1>1, ReportElsewhereNext DEF ReportInv, Counted

LEMMA GarbageStep == ASSUME ReportInv, Reports!GnssExtGnssMeasurementCb PROVE ReportInv'
<1>1. input'.kind = "garbage" /\ oldClocks' = oldClocks
  BY DEF Reports!GnssExtGnssMeasurementCb, Reports!Report
<1> QED
  BY <1>1, ReportElsewhereNext DEF ReportInv, Counted, ReportKinds

LEMMA PositionStep ==
  ASSUME ReportInv, Reports!LocationCb \/ Reports!GnssExtLocationCb
  PROVE  ReportInv'
<1>1. PICK position \in Reports!Positions :
        /\ input' = [kind |-> "position", position |-> position]
        /\ oldClocks' = oldClocks
        /\ \A d \in delivered' : d.message \in {position, Reports!Cleared(position)}
  <2>1. CASE Reports!LocationCb
    BY <2>1, SentMessages DEF Reports!LocationCb, Reports!Report, Reports!ConvertToGnssLocation,
                              Reports!ConvertToGnssLocation_2_0
  <2>2. CASE Reports!GnssExtLocationCb
    BY <2>2, SentMessages DEF Reports!GnssExtLocationCb, Reports!Report,
                              Reports!ConvertToGnssLocation
  <2> QED
    BY <2>1, <2>2
<1>2. ASSUME NEW d \in delivered', "VERTICAL_ACCURACY" \in d.message.flags
      PROVE  d.message.vertical = input'.position.vertical
  <2>1. "VERTICAL_ACCURACY" \notin Reports!Cleared(position).flags
    BY DEF Reports!Cleared
  <2> QED
    BY <1>1, <1>2, <2>1
<1>3. Reports!AccuracyTrue'
  BY <1>2 DEF Reports!AccuracyTrue, Reports!Messages
<1>4. input'.kind = "position" /\ oldClocks' \in Nat
  BY <1>1 DEF ReportInv, Counted
<1> QED
  BY <1>3, <1>4, ReportPosition

LEMMA MeasurementsStep == ASSUME ReportInv, Reports!GnssMeasurementCbs PROVE ReportInv'
<1>1. PICK list :
        /\ input'.kind = "measurements" /\ oldClocks' = oldClocks
        /\ delivered' = IF "2.0" \in measuring THEN Reports!GnssMeasurementCb_2_0(list)
                                               ELSE Reports!GnssMeasurementCb(list)
  BY DEF Reports!GnssMeasurementCbs, Reports!Report
<1> DEFINE D == DOMAIN Reports!Clamped(list, SvsCount)
           m == [i \in D |-> Reports!Known(list[i])]
<1>2. delivered' \in {Reports!Sent({"2.0"}, m), Reports!Sent(measuring \cap {"1.0", "1.1"}, m)}
  BY <1>1 DEF Reports!GnssMeasurementCb_2_0, Reports!GnssMeasurementCb
<1>3. \A i \in DOMAIN m : "TOW_DECODED" \in m[i] => "TOW_KNOWN" \in m[i]
  BY DEF Reports!Known
<1> HIDE DEF m
<1>4. \A d \in delivered' : d.message = m
  BY <1>2, SentMessages
<1>5. \A d, e \in delivered' : d.to = "2.0" => e.to = "2.0"
  BY <1>2, SentMessages
<1>6. Reports!OneGeneration'
  BY <1>3, <1>4, <1>5 DEF Reports!OneGeneration, Reports!Messages
<1>7. oldClocks' \in Nat
  BY <1>1 DEF ReportInv, Counted
<1> QED
  BY <1>1, <1>6, <1>7, ReportMeasurements

LEMMA ClockStep ==
  ASSUME ReportInv, NEW svc, Reports!OldMeasurement(svc)
  PROVE  ReportInv'
<1>1. PICK clock \in Reports!Clocks, garbage \in {0, 5} :
        /\ input' = [kind |-> "clock", clock |-> clock, last |-> Reports!LastCount]
        /\ delivered' = Reports!Sent({"1.0"}, Reports!ConvertedClock(clock, garbage))
        /\ oldClocks' = Reports!NextCount(clock)
  BY DEF Reports!OldMeasurement, Reports!Report
<1> DEFINE m == Reports!ConvertedClock(clock, garbage)
<1>2. oldClocks \in Nat
  BY DEF ReportInv, Counted
<1>3. clock.time \in Int /\ clock.fullBias \in Int
  BY DEF Reports!Clocks
<1>4. m.timeNs - m.fullBiasNs = IF clock.type = "GPS_TIME" THEN clock.time
                                 ELSE clock.time + clock.fullBias
  <2>1. m.timeNs = IF clock.type = "GPS_TIME" THEN 0 ELSE clock.time
    BY Zenon DEF Reports!ConvertedClock
  <2>2. m.fullBiasNs = -(IF clock.type = "GPS_TIME" THEN clock.time ELSE clock.fullBias)
    BY Zenon DEF Reports!ConvertedClock
  <2> HIDE DEF m
  <2> QED
    BY <1>3, <2>1, <2>2
<1>5. clock.type = "GPS_TIME" => m.hasFullBias
  BY Zenon DEF Reports!ConvertedClock
<1>6. clock.type = "GPS_TIME" => m.discontinuities = oldClocks
  BY Zenon DEF Reports!ConvertedClock
<1>7. \A n \in Reports!LastCount : n \in Nat /\ n < oldClocks
  BY DEF ReportInv, Counted, Reports!LastCount
<1>8. clock.type = "GPS_TIME" => m.discontinuities \notin Reports!LastCount
  BY <1>2, <1>6, <1>7
<1>9. input'.kind = "clock" /\ input'.clock = clock /\ input'.last = Reports!LastCount
  BY <1>1
<1> HIDE DEF m
<1>10. \A d \in delivered' : d.message = m
  BY <1>1, SentMessages DEF m
<1>11. Counted'
  <2>1. oldClocks' = IF clock.type = "GPS_TIME" THEN oldClocks + 1 ELSE oldClocks
    BY <1>1 DEF Reports!NextCount
  <2> QED
    BY <1>2, <1>6, <1>9, <1>10, <2>1 DEF Counted
<1>12. Reports!GpsTimeKept'
  BY <1>4, <1>5, <1>8, <1>9, <1>10 DEF Reports!GpsTimeKept, Reports!Messages
<1> QED
  BY <1>9, <1>11, <1>12, ReportClock

LEMMA BatchStep == ASSUME ReportInv, NEW svc, Reports!BatchReport(svc) PROVE ReportInv'
<1>1. PICK n \in 0..MaxBatch + 1 :
        \E list \in [1..n -> Reports!Locations], negative \in BOOLEAN :
          \E order \in Reports!Ascending(Reports!Kept(list, negative)) :
            /\ input'.kind = "batch" /\ oldClocks' = oldClocks
            /\ delivered' = Reports!Sent({svc}, Reports!Batch(list, order))
  BY DEF Reports!BatchReport, Reports!Report
<1> PICK list \in [1..n -> Reports!Locations], negative \in BOOLEAN :
        \E order \in Reports!Ascending(Reports!Kept(list, negative)) :
          /\ input'.kind = "batch" /\ oldClocks' = oldClocks
          /\ delivered' = Reports!Sent({svc}, Reports!Batch(list, order))
  BY <1>1
<1> DEFINE P == Reports!Kept(list, negative)
<1>2. PICK order \in Reports!Ascending(P) :
        /\ input'.kind = "batch" /\ oldClocks' = oldClocks
        /\ delivered' = Reports!Sent({svc}, Reports!Batch(list, order))
  OBVIOUS
<1>3. MaxBatch \in Nat /\ n \in Nat
  BY Bounds
<1>4. /\ P \subseteq 1..MaxBatch /\ \A i \in P : list[i] \in {"gnss", "sensors"}
  <2>1. list \in Seq(Reports!Locations) /\ Len(list) = n
    BY <1>3, IsASeq
  <2>2. DOMAIN <<>> = {} 
    OBVIOUS
  <2>3. DOMAIN Reports!Clamped(list, MaxBatch) \subseteq 1..MaxBatch
    <3>1. CASE n < MaxBatch
      <4>1. Reports!Clamped(list, MaxBatch) = SubSeq(list, 1, n)
        BY <2>1, <3>1 DEF Reports!Clamped
      <4> QED
        BY <1>3, <2>1, <3>1, <4>1, SubSeqProperties
    <3>2. CASE ~ (n < MaxBatch)
      <4>1. Reports!Clamped(list, MaxBatch) = SubSeq(list, 1, MaxBatch)
        BY <2>1, <3>2 DEF Reports!Clamped
      <4> QED
        BY <1>3, <2>1, <3>2, <4>1, SubSeqProperties
    <3> QED
      BY <3>1, <3>2
  <2> QED
    BY <2>2, <2>3 DEF Reports!Kept
<1>5. IsFiniteSet(P) /\ Cardinality(P) \in Nat /\ Cardinality(P) <= MaxBatch
  <2>1. IsFiniteSet(1..MaxBatch) /\ Cardinality(1..MaxBatch) = MaxBatch
    BY <1>3, FS_Interval
  <2> HIDE DEF P
  <2> QED
    BY <1>4, <2>1, FS_Subset, FS_CardinalityType
<1> DEFINE m == Reports!Batch(list, order)
<1> HIDE DEF P
<1>6. order \in [1..Cardinality(P) -> P]
  BY <1>2 DEF Reports!Ascending, Reports!Cardinality, Cardinality
<1>7. Len(m) = Cardinality(P) /\ \A i \in DOMAIN m : m[i].source \in {"gnss", "sensors"}
  <2>1. \A i \in 1..Cardinality(P) : m[i].source = list[order[i]]
    BY <1>6 DEF Reports!Batch
  <2>2. DOMAIN m = 1..Cardinality(P)
    BY <1>6 DEF Reports!Batch
  <2>3. Len(m) = Cardinality(P)
    BY <1>5, <2>2 DEF Reports!Batch
  <2> HIDE DEF m
  <2> QED
    BY <1>4, <1>6, <2>1, <2>2, <2>3
<1> HIDE DEF m
<1>8. \A d \in delivered' : d.message = m
  BY <1>2, SentMessages DEF m
<1>9. Reports!BatchFiltered'
  BY <1>5, <1>7, <1>8 DEF Reports!BatchFiltered, Reports!Messages
<1>10. oldClocks' \in Nat
  BY <1>2 DEF ReportInv, Counted
<1> QED
  BY <1>2, <1>9, <1>10, ReportBatch

\* The numbering of the old interface keeps apart what the new one numbers by constellation.
LEMMA SatelliteNumbered ==
  ASSUME NEW prn \in Int, NEW mask, Reports!Satellite(prn, mask).constellation # "UNKNOWN"
  PROVE  Reports!Satellite(prn, mask).svid
           \in Reports!Numbering[Reports!Satellite(prn, mask).constellation]
<1>1. /\ Reports!Satellite(prn, mask).constellation = Reports!Constellation(prn)
      /\ Reports!Satellite(prn, mask).svid = Reports!Svid(prn)
  BY DEF Reports!Satellite
<1>2. Reports!Constellation(prn) # "UNKNOWN" =>
        Reports!Svid(prn) \in Reports!Numbering[Reports!Constellation(prn)]
  BY DEF Reports!Constellation, Reports!Svid, Reports!Numbering, Reports!GlonassCount
<1> QED
  BY <1>1, <1>2

LEMMA SatellitesApart ==
  ASSUME NEW p \in Int, NEW q \in Int,
         Reports!Constellation(p) = Reports!Constellation(q), Reports!Svid(p) = Reports!Svid(q)
  PROVE  p = q
BY DEF Reports!Constellation, Reports!Svid, Reports!GlonassCount

\* Of a list cut to the framework's length.
LEMMA ClampedLength ==
  ASSUME NEW S, NEW s \in Seq(S), NEW n \in Nat
  PROVE  /\ Reports!Clamped(s, n) \in Seq(S)
         /\ Len(Reports!Clamped(s, n)) <= n /\ Len(Reports!Clamped(s, n)) <= Len(s)
         /\ \A i \in 1..Len(Reports!Clamped(s, n)) : Reports!Clamped(s, n)[i] = s[i]
<1>1. CASE Len(s) < n
  <2>1. Reports!Clamped(s, n) = SubSeq(s, 1, Len(s))
    BY <1>1 DEF Reports!Clamped
  <2> QED
    BY <1>1, <2>1, SubSeqProperties, LenProperties
<1>2. CASE ~ (Len(s) < n)
  <2>1. Reports!Clamped(s, n) = SubSeq(s, 1, n)
    BY <1>2 DEF Reports!Clamped
  <2>2. Len(s) \in Nat /\ n <= Len(s)
    BY <1>2, LenProperties
  <2> QED
    BY <2>1, <2>2, SubSeqProperties
<1> QED
  BY <1>1, <1>2

LEMMA OldSatellitesStep == ASSUME ReportInv, Reports!OldSatellites PROVE ReportInv'
<1>1. PICK list \in UNION {[1..n -> Prns] : n \in 0..2}, mask \in {{0, 31}} :
        /\ Reports!IsInjective(list)
        /\ Reports!Report([kind |-> "satellites", list |-> list],
             Reports!Sent(registered,
               [i \in 1..Len(Reports!Clamped(list, SvsCount)) |-> Reports!Satellite(list[i], mask)]))
        /\ oldClocks' = oldClocks
  BY Zenon DEF Reports!OldSatellites
<1> PICK n \in 0..2 : list \in [1..n -> Prns]
  OBVIOUS
<1> DEFINE l == Len(Reports!Clamped(list, SvsCount))
           m == [i \in 1..l |-> Reports!Satellite(list[i], mask)]
<1>2. n \in Nat /\ SvsCount \in Nat /\ list \in Seq(Prns) /\ Len(list) = n
  BY Bounds, IsASeq
<1>3. l \in Nat /\ l <= SvsCount /\ l <= n
  BY <1>2, ClampedLength, LenProperties
<1> HIDE DEF l
<1>4. Len(m) = l /\ DOMAIN m = 1..l
  BY <1>3
<1>5. \A i \in 1..l : list[i] \in Int
  <2>1. ASSUME NEW i \in 1..l PROVE list[i] \in Int
    <3>1. i \in 1..n
      BY <1>2, <1>3
    <3> QED
      BY <3>1, PrnsAssumption
  <2> QED
    BY <2>1
<1>6. \A i \in DOMAIN m : m[i] = Reports!Satellite(list[i], mask)
  OBVIOUS
<1> HIDE DEF m
<1>7. ASSUME NEW i \in DOMAIN m, m[i].constellation # "UNKNOWN"
      PROVE  m[i].svid \in Reports!Numbering[m[i].constellation]
  BY <1>4, <1>5, <1>6, <1>7, SatelliteNumbered
<1>8. ASSUME NEW i \in DOMAIN m, NEW j \in DOMAIN m, i # j
      PROVE  <<m[i].constellation, m[i].svid>> # <<m[j].constellation, m[j].svid>>
  <2>1. list[i] # list[j]
    BY <1>1, <1>2, <1>3, <1>4, <1>8 DEF Reports!IsInjective
  <2>2. \A k \in {i, j} : /\ m[k].constellation = Reports!Constellation(list[k])
                          /\ m[k].svid = Reports!Svid(list[k])
    BY <1>6 DEF Reports!Satellite
  <2>3. list[i] \in Int /\ list[j] \in Int
    BY <1>4, <1>5
  <2> QED
    BY <2>1, <2>2, <2>3, SatellitesApart
<1>9. ASSUME NEW i \in DOMAIN m
      PROVE  /\ "EPHEMERIS" \in m[i].flags => m[i].constellation = "GPS"
             /\ "CARRIER_FREQUENCY" \notin m[i].flags
  BY <1>6 DEF Reports!Satellite
<1>10. \A d \in delivered' : d.message = m
  BY <1>1, SentMessages DEF m, l, Reports!Report
<1>11. Reports!SatellitesIdentified'
  BY <1>3, <1>4, <1>7, <1>8, <1>9, <1>10 DEF Reports!SatellitesIdentified, Reports!Messages
<1>12. input'.kind = "satellites" /\ oldClocks' \in Nat
  BY <1>1 DEF ReportInv, Counted, Reports!Report
<1> QED
  BY <1>11, <1>12, ReportSatellites

LEMMA NewSatellitesStep ==
  ASSUME ReportInv, NEW without, Reports!NewSatellites(without),
         service' = "1.0" => "CARRIER_FREQUENCY" \in without
  PROVE  ReportInv'
<1>1. PICK n \in 0..SvsCount + 1 :
        /\ Reports!Report([kind |-> "satellites"],
             Reports!Sent(registered,
               Reports!Clamped([i \in 1..n |-> [constellation |-> "BEIDOU", svid |-> i,
                                               flags |-> {"CARRIER_FREQUENCY"} \ without]],
                               SvsCount)))
        /\ oldClocks' = oldClocks
  BY Zenon DEF Reports!NewSatellites
<1> DEFINE Sat(i) == [constellation |-> "BEIDOU", svid |-> i,
                      flags |-> {"CARRIER_FREQUENCY"} \ without]
           list == [i \in 1..n |-> Sat(i)]
           m == Reports!Clamped(list, SvsCount)
           S == {Sat(i) : i \in Nat}
<1>2. n \in Nat /\ SvsCount \in Nat
  BY Bounds
<1>3. list \in Seq(S) /\ Len(list) = n /\ \A i \in 1..n : list[i] = Sat(i)
  <2>1. ASSUME NEW i \in 1..n PROVE Sat(i) \in S
    <3>1. i \in Nat
      BY <1>2
    <3> QED
      BY <3>1, Zenon
  <2>2. \A i \in 1..n : list[i] = Sat(i)
    OBVIOUS
  <2> HIDE DEF Sat, S
  <2> QED
    BY <1>2, <2>1, <2>2, IsASeq
<1>4. \A d \in delivered' : d.message = m
  BY <1>1, SentMessages DEF Reports!Report
<1> HIDE DEF list
<1>5. /\ m \in Seq(S) /\ Len(m) <= SvsCount /\ Len(m) <= n
      /\ \A i \in 1..Len(m) : m[i] = list[i]
  <2> HIDE DEF S
  <2> QED
    BY <1>2, <1>3, ClampedLength
<1> HIDE DEF m
<1>6. DOMAIN m = 1..Len(m) /\ Len(m) \in Nat
  <2> HIDE DEF S
  <2> QED
    BY <1>5
<1>7. ASSUME NEW i \in DOMAIN m PROVE i \in 1..n /\ m[i] = Sat(i)
  <2>1. i \in 1..n
    <3> HIDE DEF S
    <3> QED
      BY <1>2, <1>5, <1>6
  <2> HIDE DEF Sat, S
  <2> QED
    BY <1>3, <1>5, <1>6, <2>1
<1>8. \A i \in DOMAIN m : m[i].constellation = "BEIDOU" /\ m[i].svid = i
                          /\ m[i].flags = {"CARRIER_FREQUENCY"} \ without
  BY <1>7
<1>9. input'.kind = "satellites" /\ "list" \notin DOMAIN input'
  BY <1>1 DEF Reports!Report
<1>10. oldClocks' \in Nat
  BY <1>1 DEF ReportInv, Counted
<1> HIDE DEF Sat, S
<1>11. Reports!SatellitesIdentified'
  BY <1>4, <1>5, <1>8, <1>9 DEF Reports!SatellitesIdentified, Reports!Messages
<1> QED
  BY <1>9, <1>10, <1>11, ReportSatellites

LEMMA ReportStep == ASSUME ReportInv, Reports!Next PROVE ReportInv'
<1>1. CASE \/ Reports!StatusCb \/ Reports!NmeaCb \/ Reports!RequestUtcTimeCb
           \/ Reports!SetSystemInfoCb \/ Reports!GnssNavigationMessageCb
           \/ Reports!GnssExtStatusCb \/ Reports!GnssExtNmeaCb
           \/ Reports!GnssExtRequestUtcTimeCb \/ Reports!GnssExtSetSystemInfoCb
           \/ Reports!GnssExtGnssNavigationMessageCb
  <2>1. \E svc : \E what \in {"status", "nmea", "request of the time", "system info",
                            "navigation message"} : Reports!PassedOn(svc, what)
    BY <1>1, Zenon DEF Reports!StatusCb, Reports!NmeaCb, Reports!RequestUtcTimeCb,
      Reports!SetSystemInfoCb, Reports!GnssNavigationMessageCb, Reports!GnssExtStatusCb,
      Reports!GnssExtNmeaCb, Reports!GnssExtRequestUtcTimeCb, Reports!GnssExtSetSystemInfoCb,
      Reports!GnssExtGnssNavigationMessageCb
  <2>2. PICK svc : \E what \in {"status", "nmea", "request of the time", "system info",
                            "navigation message"} : Reports!PassedOn(svc, what)
    BY <2>1
  <2>3. PICK what \in {"status", "nmea", "request of the time", "system info",
                     "navigation message"} : Reports!PassedOn(svc, what)
    BY <2>2
  <2>4. what \notin ReportKinds
    BY DEF ReportKinds
  <2> QED
    BY <2>3, <2>4, PassedOnStep
<1>2. CASE Reports!GpsSvStatusCb \/ Reports!GnssExtGpsSvStatusCb
  BY <1>2, OldSatellitesStep DEF Reports!GpsSvStatusCb, Reports!GnssExtGpsSvStatusCb
<1>3. CASE Reports!GnssSvStatusCb
  <2>1. service' = "2.0" /\ Reports!NewSatellites({})
    BY <1>3 DEF Reports!GnssSvStatusCb, Reports!NewSatellites, Reports!Report
  <2> QED
    BY <2>1, NewSatellitesStep
<1>4. CASE Reports!GnssExtGnssSvStatusCb
  BY <1>4, NewSatellitesStep DEF Reports!GnssExtGnssSvStatusCb
<1>5. CASE Reports!GpsMeasurementCb \/ Reports!GnssExtGpsMeasurementCb
  BY <1>5, ClockStep DEF Reports!GpsMeasurementCb, Reports!GnssExtGpsMeasurementCb
<1>6. CASE Reports!BatchLocationCb \/ Reports!GnssExtBatchLocationCb
  BY <1>6, BatchStep DEF Reports!BatchLocationCb, Reports!GnssExtBatchLocationCb
<1> QED
  BY <1>1, <1>2, <1>3, <1>4, <1>5, <1>6, PositionStep, MeasurementsStep, GarbageStep
  DEF Reports!Next

LEMMA ReportInvHolds == SuiteSpec => []ReportInv
<1>1. SuiteInit => ReportInv
  <2>1. SuiteInit => Reports!Init
    BY DEF SuiteInit
  <2> QED
    BY <2>1, ReportInit
<1>2. ReportInv /\ [SuiteNext]_suiteVars => ReportInv'
  <2>1. ASSUME ReportInv, UNCHANGED reportVars PROVE ReportInv'
    BY <2>1 DEF reportVars, ReportInv, Counted, Reports!ReportsConverted, Reports!AccuracyTrue,
                Reports!SatellitesIdentified, Reports!OneGeneration, Reports!GpsTimeKept,
                Reports!BatchFiltered, Reports!Messages
  <2>2. [SuiteNext]_suiteVars => Reports!Next \/ UNCHANGED reportVars
    BY DEF SuiteNext, Still, suiteVars
  <2> QED
    BY <2>1, <2>2, ReportStep
<1> QED
  BY <1>1, <1>2, PTL DEF SuiteSpec

---------------------------------------------------------------------------
\* Whatever the order of calls, deaths and reports: a dead client of a linked callback is
\* forgotten and its replacement kept; a framework that is alive holds the wakelock exactly
\* while a thread wants it, as long as requests do not meet and no framework comes or goes
\* under a lock; reports are converted as meant, and the extensions keep what they were set to
\* (Gnss.cpp, GnssExt.cpp and the extensions).
THEOREM GnssHolds == SuiteSpec => []GnssKept
<1>1. GnssInv /\ WakeInv /\ ReportInv /\ ExtInv => GnssKept
  BY GnssClientsKept, WakeFollows, ExtensionsFollow DEF GnssKept, ReportInv
<1> QED
  BY <1>1, GnssInvHolds, WakeInvHolds, ReportInvHolds, ExtInvHolds, PTL

---------------------------------------------------------------------------
(* The face service. *)

FaceWork ==
  [what : {"enroll", "authenticate"}, op : 1..ops, step : {"begin", "started"}]
    \cup [what : {"cancel"}, step : {"begin"}]
    \cup [what : {"process"}, frame : 1..Len(frames), step : {"begin", "process"}]
FaceNotice ==
  [what : {"result", "error", "acquired", "cancelled"}, op : 1..ops,
   step : {"begin", "checked", "tell"}]
    \cup [what : {"processed"}, frame : 1..Len(frames), step : {"begin", "checked", "tell"}]

FaceTypes ==
  /\ ops \in 0..MaxOps /\ sToken \in 0..ops /\ running \in 0..ops /\ cancels \in Nat /\ late \in Nat
  /\ mCancelled \in BOOLEAN /\ sIsAlgoInitialized \in BOOLEAN /\ mClientCallback \in BOOLEAN
  /\ frames \in Seq(Nat) /\ faceAnswers \in Seq(Nat) /\ Len(faceAnswers) = Len(frames)
  /\ faceQueue \in Seq(FaceWork)
  /\ looper \in FaceWork \cup {Face!Idle} /\ notice \in FaceNotice \cup {Face!Idle}
  /\ algo \subseteq 1..Len(frames) /\ dropped \subseteq 1..Len(frames)

\* A result that passed the check may still be told after a cancel; another does not pass.
FacePassed == notice.what \in Face!Filtered /\ notice.step # "begin"
FaceSettled ==
  /\ late <= 1 /\ (mCancelled /\ FacePassed => late = 0)
  /\ ~mCancelled => late = 0
  /\ mCancelled \/ dropped # {} => cancels > 0

\* Where a frame may be on its way: in the looper's queue, in its hands, with the algorithm, or
\* in a notice.  A frame is in one place.
FramesOf(q) == {q[i].frame : i \in {j \in DOMAIN q : q[j].what = "process"}}
EachOnce(q) ==
  \A i, j \in DOMAIN q :
    q[i].what = "process" /\ q[j].what = "process" /\ q[i].frame = q[j].frame => i = j
FaceQueued  == FramesOf(faceQueue)
FaceLooped  == IF looper.what = "process" THEN {looper.frame} ELSE {}
FaceNoticed == IF notice.what = "processed" THEN {notice.frame} ELSE {}

FaceApart ==
  /\ EachOnce(faceQueue)
  /\ FaceQueued \cap (FaceLooped \cup algo \cup FaceNoticed) = {}
  /\ FaceLooped \cap (algo \cup FaceNoticed) = {}
  /\ algo \cap FaceNoticed = {}

FaceReturned ==
  \A f \in 1..Len(frames) :
    faceAnswers[f] + (IF f \in dropped THEN 1 ELSE 0)
      = (IF f \in FaceQueued \cup FaceLooped \cup algo \cup FaceNoticed THEN 0 ELSE 1)

FaceInv == FaceTypes /\ FaceSettled /\ FaceApart /\ FaceReturned

LEMMA FramesOfAppend ==
  ASSUME NEW S, NEW q \in Seq(S), NEW m \in S
  PROVE  /\ FramesOf(Append(q, m))
              = FramesOf(q) \cup (IF m.what = "process" THEN {m.frame} ELSE {})
         /\ EachOnce(q) /\ (m.what = "process" => m.frame \notin FramesOf(q))
              => EachOnce(Append(q, m))
<1> DEFINE r == Append(q, m)
<1>1. /\ r \in Seq(S) /\ DOMAIN q = 1..Len(q) /\ DOMAIN r = 1..(Len(q) + 1) /\ Len(q) \in Nat
      /\ r[Len(q) + 1] = m /\ \A i \in 1..Len(q) : r[i] = q[i]
  OBVIOUS
<1> HIDE DEF r
<1>2. FramesOf(r) = FramesOf(q) \cup (IF m.what = "process" THEN {m.frame} ELSE {})
  <2>1. ASSUME NEW x \in FramesOf(r)
        PROVE  x \in FramesOf(q) \cup (IF m.what = "process" THEN {m.frame} ELSE {})
    <3> PICK i \in DOMAIN r : r[i].what = "process" /\ x = r[i].frame
      BY <2>1 DEF FramesOf
    <3>1. CASE i = Len(q) + 1
      BY <1>1, <3>1
    <3>2. CASE i \in 1..Len(q)
      BY <1>1, <3>2 DEF FramesOf
    <3> QED
      BY <1>1, <3>1, <3>2
  <2>2. ASSUME NEW x \in FramesOf(q) PROVE x \in FramesOf(r)
    <3> PICK i \in DOMAIN q : q[i].what = "process" /\ x = q[i].frame
      BY <2>2 DEF FramesOf
    <3> QED
      BY <1>1 DEF FramesOf
  <2>3. m.what = "process" => m.frame \in FramesOf(r)
    <3>1. Len(q) + 1 \in DOMAIN r
      BY <1>1
    <3> QED
      BY <1>1, <3>1 DEF FramesOf
  <2> QED
    BY <2>1, <2>2, <2>3
<1>3. ASSUME EachOnce(q), m.what = "process" => m.frame \notin FramesOf(q) PROVE EachOnce(r)
  <2> SUFFICES ASSUME NEW i \in DOMAIN r, NEW j \in DOMAIN r, r[i].what = "process",
                      r[j].what = "process", r[i].frame = r[j].frame
               PROVE  i = j
    BY DEF EachOnce
  <2>1. \A k \in 1..Len(q) : q[k].what = "process" => q[k].frame \in FramesOf(q)
    BY <1>1 DEF FramesOf
  <2>2. CASE i \in 1..Len(q) /\ j \in 1..Len(q)
    BY <1>1, <1>3, <2>2 DEF EachOnce
  <2>3. CASE i = Len(q) + 1 \/ j = Len(q) + 1
    BY <1>1, <1>3, <2>1, <2>3
  <2> QED
    BY <1>1, <2>2, <2>3
<1> QED
  BY <1>2, <1>3 DEF r

LEMMA FramesOfTail ==
  ASSUME NEW S, NEW q \in Seq(S), q # <<>>, EachOnce(q)
  PROVE  /\ Tail(q) \in Seq(S) /\ Head(q) \in S
         /\ EachOnce(Tail(q))
         /\ FramesOf(q)
              = FramesOf(Tail(q)) \cup (IF Head(q).what = "process" THEN {Head(q).frame} ELSE {})
         /\ Head(q).what = "process" => Head(q).frame \notin FramesOf(Tail(q))
<1> DEFINE r == Tail(q)
<1>1. /\ r \in Seq(S) /\ Head(q) \in S /\ Head(q) = q[1] /\ Len(q) \in Nat \ {0}
      /\ DOMAIN q = 1..Len(q) /\ DOMAIN r = 1..(Len(q) - 1)
      /\ \A i \in 1..(Len(q) - 1) : r[i] = q[i + 1]
  OBVIOUS
<1> HIDE DEF r
<1>2. EachOnce(r)
  <2> SUFFICES ASSUME NEW i \in DOMAIN r, NEW j \in DOMAIN r, r[i].what = "process",
                      r[j].what = "process", r[i].frame = r[j].frame
               PROVE  i = j
    BY DEF EachOnce
  <2>1. i + 1 \in DOMAIN q /\ j + 1 \in DOMAIN q /\ r[i] = q[i + 1] /\ r[j] = q[j + 1]
    BY <1>1
  <2>2. i + 1 = j + 1
    BY <2>1 DEF EachOnce
  <2> QED
    BY <1>1, <2>2
<1>3. FramesOf(q) = FramesOf(r) \cup (IF Head(q).what = "process" THEN {Head(q).frame} ELSE {})
  <2>1. ASSUME NEW x \in FramesOf(q)
        PROVE  x \in FramesOf(r) \cup (IF Head(q).what = "process" THEN {Head(q).frame} ELSE {})
    <3> PICK i \in DOMAIN q : q[i].what = "process" /\ x = q[i].frame
      BY <2>1 DEF FramesOf
    <3>1. CASE i = 1
      BY <1>1, <3>1
    <3>2. CASE i # 1
      <4>1. i - 1 \in DOMAIN r /\ r[i - 1] = q[i]
        BY <1>1, <3>2
      <4> QED
        BY <4>1 DEF FramesOf
    <3> QED
      BY <3>1, <3>2
  <2>2. ASSUME NEW x \in FramesOf(r) PROVE x \in FramesOf(q)
    <3> PICK i \in DOMAIN r : r[i].what = "process" /\ x = r[i].frame
      BY <2>2 DEF FramesOf
    <3>1. i + 1 \in DOMAIN q /\ r[i] = q[i + 1]
      BY <1>1
    <3> QED
      BY <3>1 DEF FramesOf
  <2>3. Head(q).what = "process" => Head(q).frame \in FramesOf(q)
    <3>1. 1 \in DOMAIN q
      BY <1>1
    <3> QED
      BY <1>1, <3>1 DEF FramesOf
  <2> QED
    BY <2>1, <2>2, <2>3
<1>4. ASSUME Head(q).what = "process", Head(q).frame \in FramesOf(r) PROVE FALSE
  <2> PICK i \in DOMAIN r : r[i].what = "process" /\ Head(q).frame = r[i].frame
    BY <1>4 DEF FramesOf
  <2>1. i + 1 \in DOMAIN q /\ 1 \in DOMAIN q /\ r[i] = q[i + 1] /\ i + 1 # 1
    BY <1>1
  <2> QED
    BY <1>1, <1>4, <2>1 DEF EachOnce
<1> QED
  BY <1>1, <1>2, <1>3, <1>4 DEF r

LEMMA FaceInit == ASSUME Face!Init PROVE FaceInv
<1>1. FaceTypes
  <2>1. /\ mCancelled \in BOOLEAN /\ sIsAlgoInitialized \in BOOLEAN
        /\ mClientCallback \in BOOLEAN
    BY Zenon DEF Face!Init
  <2> QED
    BY <2>1, Bounds, SMT DEF Face!Init, FaceTypes, Face!None, Face!Idle
<1>2. FaceSettled
  BY DEF Face!Init, FaceSettled, Face!Idle, FacePassed, Face!Filtered
<1>3. FaceApart
  BY DEF Face!Init, FaceApart, Face!Idle, EachOnce, FaceQueued, FramesOf, FaceLooped, FaceNoticed
<1>4. FaceReturned
  BY DEF Face!Init, FaceReturned
<1> QED
  BY <1>1, <1>2, <1>3, <1>4 DEF FaceInv

\* What is said of messages and notices stays true of them.
LEMMA FaceGrows ==
  ASSUME ops \in Nat, ops' \in Nat, ops <= ops', Len(frames) \in Nat, Len(frames)' \in Nat,
         Len(frames) <= Len(frames)'
  PROVE  /\ FaceWork \subseteq FaceWork' /\ FaceNotice \subseteq FaceNotice'
         /\ Seq(FaceWork) \subseteq Seq(FaceWork')
<1>1. 1..ops \subseteq 1..ops' /\ 1..Len(frames) \subseteq 1..(Len(frames)')
  OBVIOUS
<1>2. FaceWork \subseteq FaceWork'
  BY <1>1 DEF FaceWork
<1>3. FaceNotice \subseteq FaceNotice'
  BY <1>1 DEF FaceNotice
<1> QED
  BY <1>2, <1>3

LEMMA FaceCallsTyped ==
  ASSUME FaceTypes,
         Face!SetCallback \/ Face!Enroll \/ Face!Authenticate \/ Face!Cancel \/ Face!DoProcess
  PROVE  FaceTypes'
<1> USE DEF FaceTypes, Face!looperVars, Face!worldVars, Face!toldVars, Face!Post
<1>0. Len(frames) \in Nat
  OBVIOUS
<1>1. ops \in Nat /\ ops' \in 0..MaxOps /\ ops <= ops'
  BY Bounds DEF Face!SetCallback, Face!Enroll, Face!Authenticate, Face!Cancel, Face!DoProcess
<1>2. /\ frames' \in Seq(Nat) /\ faceAnswers' \in Seq(Nat) /\ Len(faceAnswers') = Len(frames')
      /\ Len(frames) <= Len(frames')
  <2>1. CASE Face!DoProcess
    BY <1>0, <1>1, <2>1 DEF Face!DoProcess
  <2>2. CASE ~Face!DoProcess
    BY <1>0, <2>2 DEF Face!SetCallback, Face!Enroll, Face!Authenticate, Face!Cancel
  <2> QED
    BY <2>1, <2>2
<1>3. /\ FaceWork \subseteq FaceWork' /\ FaceNotice \subseteq FaceNotice'
      /\ Seq(FaceWork) \subseteq Seq(FaceWork')
  BY <1>0, <1>1, <1>2, FaceGrows
<1>4. faceQueue' \in Seq(FaceWork')
  <2>1. CASE Face!SetCallback
    BY <1>3, <2>1 DEF Face!SetCallback
  <2>2. CASE Face!Enroll
    <3>1. [what |-> "enroll", op |-> ops', step |-> "begin"] \in FaceWork'
      BY <1>1, <2>2 DEF Face!Enroll, FaceWork
    <3> QED
      BY <1>3, <2>2, <3>1 DEF Face!Enroll
  <2>3. CASE Face!Authenticate
    <3>1. [what |-> "authenticate", op |-> ops', step |-> "begin"] \in FaceWork'
      BY <1>1, <2>3 DEF Face!Authenticate, FaceWork
    <3> QED
      BY <1>3, <2>3, <3>1 DEF Face!Authenticate
  <2>4. CASE Face!Cancel
    <3>1. [what |-> "cancel", step |-> "begin"] \in FaceWork'
      BY DEF FaceWork
    <3> QED
      BY <1>3, <2>4, <3>1 DEF Face!Cancel
  <2>5. CASE Face!DoProcess
    <3>1. [what |-> "process", frame |-> Len(frames) + 1, step |-> "begin"] \in FaceWork'
      <4>1. Len(frames)' = Len(frames) + 1
        BY <1>0, <1>1, <2>5 DEF Face!DoProcess
      <4> QED
        BY <1>0, <4>1 DEF FaceWork
    <3> QED
      BY <1>3, <2>5, <3>1 DEF Face!DoProcess
  <2> QED
    BY <2>1, <2>2, <2>3, <2>4, <2>5
<1>5. sToken' \in 0..ops' /\ running' \in 0..ops' /\ cancels' \in Nat /\ late' \in Nat
  <2>1. (sToken' = sToken \/ sToken' = ops') /\ running' = running
    BY Zenon DEF Face!SetCallback, Face!Enroll, Face!Authenticate, Face!Cancel, Face!DoProcess
  <2>2. (cancels' = cancels \/ cancels' = cancels + 1) /\ (late' = late \/ late' = 0)
    BY Zenon DEF Face!SetCallback, Face!Enroll, Face!Authenticate, Face!Cancel, Face!DoProcess
  <2> QED
    BY <1>1, <2>1, <2>2
<1>6. mCancelled' \in BOOLEAN /\ sIsAlgoInitialized' \in BOOLEAN /\ mClientCallback' \in BOOLEAN
  BY Zenon DEF Face!SetCallback, Face!Enroll, Face!Authenticate, Face!Cancel, Face!DoProcess
<1>7. UNCHANGED <<looper, notice, algo, dropped>>
  BY DEF Face!SetCallback, Face!Enroll, Face!Authenticate, Face!Cancel, Face!DoProcess
<1> QED
  BY <1>0, <1>1, <1>2, <1>3, <1>4, <1>5, <1>6, <1>7 DEF Face!Idle

LEMMA FaceWorkTyped ==
  ASSUME FaceTypes,
         \/ Face!Take \/ Face!StartOperation \/ Face!OperationStarted \/ Face!CancelOperation
         \/ Face!CheckFrame \/ Face!ProcessFrame \/ Face!AlgoAnswers \/ Face!AlgoReports
         \/ Face!CheckNotice \/ Face!EndOperation \/ Face!Tell
  PROVE  FaceTypes'
<1> USE DEF FaceTypes, Face!callVars, Face!looperVars, Face!worldVars, Face!toldVars
<1>1. UNCHANGED <<ops, frames, cancels, sToken, mCancelled, mClientCallback>>
  BY DEF Face!Take, Face!StartOperation, Face!OperationStarted, Face!CancelOperation,
         Face!CheckFrame, Face!ProcessFrame, Face!AlgoAnswers, Face!AlgoReports,
         Face!CheckNotice, Face!EndOperation, Face!Tell
<1>2. FaceWork' = FaceWork /\ FaceNotice' = FaceNotice
  BY <1>1 DEF FaceWork, FaceNotice
<1>3. faceQueue' \in Seq(FaceWork)
  <2>1. CASE Face!Take
    BY <2>1 DEF Face!Take
  <2>2. CASE ~Face!Take
    BY <2>2 DEF Face!StartOperation, Face!OperationStarted, Face!CancelOperation,
         Face!CheckFrame, Face!ProcessFrame, Face!AlgoAnswers, Face!AlgoReports,
         Face!CheckNotice, Face!EndOperation, Face!Tell
  <2> QED
    BY <2>1, <2>2
<1>4. looper' \in FaceWork \cup {Face!Idle}
  <2>1. CASE Face!Take
    BY <2>1 DEF Face!Take
  <2>2. CASE Face!StartOperation
    BY <2>2 DEF Face!StartOperation, Face!At, Face!StepTo, Face!Idle, FaceWork
  <2>3. CASE Face!CheckFrame
    BY <2>3 DEF Face!CheckFrame, Face!At, Face!StepTo, Face!Idle, FaceWork
  <2>4. CASE ~(Face!Take \/ Face!StartOperation \/ Face!CheckFrame)
    BY <2>4 DEF Face!OperationStarted, Face!CancelOperation, Face!ProcessFrame, Face!AlgoAnswers,
         Face!AlgoReports, Face!CheckNotice, Face!EndOperation, Face!Tell
  <2> QED
    BY <2>1, <2>2, <2>3, <2>4
<1>5. running' \in 0..ops
  <2>1. CASE Face!StartOperation
    BY <2>1 DEF Face!StartOperation, Face!At, Face!Idle, FaceWork
  <2>2. CASE ~Face!StartOperation
    BY <2>2 DEF Face!Take, Face!OperationStarted, Face!CancelOperation, Face!CheckFrame,
         Face!ProcessFrame, Face!AlgoAnswers, Face!AlgoReports, Face!CheckNotice,
         Face!EndOperation, Face!Tell, Face!None
  <2> QED
    BY <2>1, <2>2
<1>6. notice' \in FaceNotice \cup {Face!Idle}
  <2>1. CASE Face!CancelOperation
    BY <2>1 DEF Face!CancelOperation, Face!None, FaceNotice
  <2>2. CASE Face!AlgoAnswers
    BY <2>2 DEF Face!AlgoAnswers, FaceNotice
  <2>3. CASE Face!AlgoReports
    BY <2>3 DEF Face!AlgoReports, Face!None, FaceNotice
  <2>4. CASE Face!CheckNotice
    BY <2>4 DEF Face!CheckNotice, Face!Bringing, Face!Idle, FaceNotice
  <2>5. CASE Face!EndOperation
    BY <2>5 DEF Face!EndOperation, Face!Bringing, Face!Filtered, Face!Idle, FaceNotice
  <2>6. CASE ~(\/ Face!CancelOperation \/ Face!AlgoAnswers \/ Face!AlgoReports
               \/ Face!CheckNotice \/ Face!EndOperation)
    BY <2>6 DEF Face!Take, Face!StartOperation, Face!OperationStarted, Face!CheckFrame,
         Face!ProcessFrame, Face!Tell
  <2> QED
    BY <2>1, <2>2, <2>3, <2>4, <2>5, <2>6
<1>7. algo' \subseteq 1..Len(frames) /\ dropped' \subseteq 1..Len(frames)
  <2>1. CASE Face!CheckFrame
    <3>1. looper \in FaceWork /\ looper.what = "process"
      BY <2>1 DEF Face!CheckFrame, Face!At, Face!Idle
    <3>2. looper.frame \in 1..Len(frames)
      BY <3>1 DEF FaceWork
    <3>3. algo' = algo /\ (dropped' = dropped \/ dropped' = dropped \cup {looper.frame})
      BY <2>1, Zenon DEF Face!CheckFrame
    <3> QED
      BY <3>2, <3>3
  <2>2. CASE Face!ProcessFrame
    <3>1. looper.frame \in 1..Len(frames)
      BY <2>2 DEF Face!ProcessFrame, Face!At, Face!Idle, FaceWork
    <3>2. dropped' = dropped /\ algo' \subseteq algo \cup {looper.frame}
      BY <2>2 DEF Face!ProcessFrame
    <3> QED
      BY <3>1, <3>2
  <2>3. CASE ~(Face!CheckFrame \/ Face!ProcessFrame)
    BY <2>3 DEF Face!Take, Face!StartOperation, Face!OperationStarted, Face!CancelOperation,
         Face!AlgoAnswers, Face!AlgoReports, Face!CheckNotice, Face!EndOperation, Face!Tell
  <2> QED
    BY <2>1, <2>2, <2>3
<1>8. faceAnswers' \in Seq(Nat) /\ Len(faceAnswers') = Len(frames)
  <2>1. CASE Face!ProcessFrame
    <3>1. looper.frame \in 1..Len(faceAnswers)
      BY <2>1 DEF Face!ProcessFrame, Face!At, Face!Idle, FaceWork
    <3>2. faceAnswers[looper.frame] + 1 \in Nat
      BY <3>1
    <3> QED
      BY <2>1, <3>1, <3>2, ExceptSeq DEF Face!ProcessFrame
  <2>2. CASE Face!Tell
    <3>1. CASE notice.what = "processed"
      <4>1. notice.frame \in 1..Len(faceAnswers)
        BY <3>1 DEF Face!Idle, FaceNotice
      <4>2. faceAnswers[notice.frame] + 1 \in Nat
        BY <4>1
      <4> QED
        BY <2>2, <3>1, <4>1, <4>2, ExceptSeq DEF Face!Tell
    <3>2. CASE notice.what # "processed"
      BY <2>2, <3>2 DEF Face!Tell
    <3> QED
      BY <3>1, <3>2
  <2>3. CASE ~(Face!ProcessFrame \/ Face!Tell)
    BY <2>3 DEF Face!Take, Face!StartOperation, Face!OperationStarted, Face!CancelOperation,
         Face!CheckFrame, Face!AlgoAnswers, Face!AlgoReports, Face!CheckNotice, Face!EndOperation
  <2> QED
    BY <2>1, <2>2, <2>3
<1>9. late' \in Nat
  BY DEF Face!Take, Face!StartOperation, Face!OperationStarted, Face!CancelOperation,
         Face!CheckFrame, Face!ProcessFrame, Face!AlgoAnswers, Face!AlgoReports,
         Face!CheckNotice, Face!EndOperation, Face!Tell
<1>10. sIsAlgoInitialized' \in BOOLEAN
  BY Zenon DEF Face!Take, Face!StartOperation, Face!OperationStarted, Face!CancelOperation,
         Face!CheckFrame, Face!ProcessFrame, Face!AlgoAnswers, Face!AlgoReports,
         Face!CheckNotice, Face!EndOperation, Face!Tell
<1> QED
  BY <1>1, <1>2, <1>3, <1>4, <1>5, <1>6, <1>7, <1>8, <1>9, <1>10

LEMMA FaceTyped == ASSUME FaceTypes, Face!Next PROVE FaceTypes'
BY FaceCallsTyped, FaceWorkTyped DEF Face!Next

\* What was told since the last cancel.
LEMMA FaceSettles == ASSUME FaceTypes, FaceSettled, Face!Next PROVE FaceSettled'
<1> USE DEF FaceTypes, FaceSettled, FacePassed, Face!Filtered, Face!callVars, Face!looperVars,
            Face!worldVars, Face!toldVars, Face!Idle
<1>1. CASE Face!SetCallback \/ Face!DoProcess
  BY <1>1 DEF Face!SetCallback, Face!DoProcess
<1>2. CASE Face!Enroll \/ Face!Authenticate
  BY <1>2 DEF Face!Enroll, Face!Authenticate
<1>3. CASE Face!Cancel
  BY <1>3 DEF Face!Cancel
<1>4. CASE Face!Take \/ Face!StartOperation \/ Face!OperationStarted
  BY <1>4 DEF Face!Take, Face!StartOperation, Face!OperationStarted
<1>5. CASE Face!CancelOperation
  BY <1>5 DEF Face!CancelOperation
<1>6. CASE Face!CheckFrame \/ Face!ProcessFrame
  BY <1>6 DEF Face!CheckFrame, Face!ProcessFrame
<1>7. CASE Face!AlgoAnswers \/ Face!AlgoReports
  BY <1>7 DEF Face!AlgoAnswers, Face!AlgoReports
<1>8. CASE Face!CheckNotice
  BY <1>8 DEF Face!CheckNotice, Face!Bringing, Face!NoticeFiltered, FaceNotice
<1>9. CASE Face!EndOperation
  BY <1>9 DEF Face!EndOperation, Face!Bringing, FaceNotice
<1>10. CASE Face!Tell
  BY <1>10 DEF Face!Tell, Face!Bringing, FaceNotice
<1> QED
  BY <1>1, <1>2, <1>3, <1>4, <1>5, <1>6, <1>7, <1>8, <1>9, <1>10 DEF Face!Next

\* A step that takes no frame from where it is.
LEMMA FaceStays ==
  ASSUME FaceApart, FaceReturned, FaceQueued' = FaceQueued, EachOnce(faceQueue)',
         FaceLooped' = FaceLooped, FaceNoticed' = FaceNoticed,
         UNCHANGED <<algo, frames, faceAnswers, dropped>>
  PROVE  FaceApart' /\ FaceReturned'
BY DEF FaceApart, FaceReturned

\* The messages of an operation and of a cancel are not about frames.
LEMMA FacePosts ==
  ASSUME FaceTypes, FaceTypes', FaceApart, FaceReturned, Face!Enroll \/ Face!Authenticate \/ Face!Cancel
  PROVE  FaceApart' /\ FaceReturned'
<1>1. /\ UNCHANGED <<looper, notice, algo, frames, faceAnswers, dropped>>
      /\ \E m : m.what # "process" /\ faceQueue' = Append(faceQueue, m)
  BY DEF Face!Enroll, Face!Authenticate, Face!Cancel, Face!Post, Face!looperVars, Face!worldVars,
         Face!toldVars
<1> PICK m : m.what # "process" /\ faceQueue' = Append(faceQueue, m)
  BY <1>1
<1> DEFINE S == FaceWork \cup {m}
<1>2. faceQueue \in Seq(S) /\ m \in S
  BY DEF FaceTypes
<1>3. EachOnce(faceQueue)
  BY DEF FaceApart
<1> HIDE DEF S
<1>4. FramesOf(Append(faceQueue, m)) = FramesOf(faceQueue) /\ EachOnce(Append(faceQueue, m))
  <2>1. /\ FramesOf(Append(faceQueue, m))
             = FramesOf(faceQueue) \cup (IF m.what = "process" THEN {m.frame} ELSE {})
        /\ EachOnce(faceQueue) /\ (m.what = "process" => m.frame \notin FramesOf(faceQueue))
             => EachOnce(Append(faceQueue, m))
    BY <1>2, FramesOfAppend
  <2> QED
    BY <1>3, <2>1
<1>5. FaceQueued' = FaceQueued /\ EachOnce(faceQueue)'
  BY <1>4 DEF FaceQueued
<1>6. FaceLooped' = FaceLooped /\ FaceNoticed' = FaceNoticed
  BY <1>1 DEF FaceLooped, FaceNoticed
<1> QED
  BY <1>1, <1>5, <1>6, FaceStays

LEMMA FaceSends ==
  ASSUME FaceTypes, FaceTypes', FaceApart, FaceReturned, Face!DoProcess
  PROVE  FaceApart' /\ FaceReturned'
<1> DEFINE n == Len(frames) + 1
           m == [what |-> "process", frame |-> n, step |-> "begin"]
<1>1. /\ UNCHANGED <<looper, notice, algo, dropped>> /\ faceQueue' = Append(faceQueue, m)
      /\ frames' = Append(frames, ops) /\ faceAnswers' = Append(faceAnswers, 0)
  BY DEF Face!DoProcess, Face!Post, Face!worldVars
<1>2. Len(frames) \in Nat /\ Len(frames)' = n
  BY <1>1 DEF FaceTypes
<1>3. /\ FaceQueued \subseteq 1..Len(frames) /\ FaceLooped \subseteq 1..Len(frames)
      /\ FaceNoticed \subseteq 1..Len(frames) /\ algo \subseteq 1..Len(frames)
      /\ dropped \subseteq 1..Len(frames)
  <2>1. FaceQueued \subseteq 1..Len(frames)
    <3> SUFFICES ASSUME NEW i \in DOMAIN faceQueue, faceQueue[i].what = "process"
                 PROVE  faceQueue[i].frame \in 1..Len(frames)
      BY DEF FaceQueued, FramesOf
    <3>1. faceQueue[i] \in FaceWork
      BY DEF FaceTypes
    <3> QED
      BY <3>1 DEF FaceWork
  <2>2. FaceLooped \subseteq 1..Len(frames)
    <3>1. CASE looper.what = "process"
      <4>1. looper.frame \in 1..Len(frames)
        BY <3>1 DEF FaceTypes, FaceWork, Face!Idle
      <4> QED
        BY <3>1, <4>1 DEF FaceLooped
    <3>2. CASE looper.what # "process"
      BY <3>2 DEF FaceLooped
    <3> QED
      BY <3>1, <3>2
  <2>3. FaceNoticed \subseteq 1..Len(frames)
    <3>1. CASE notice.what = "processed"
      <4>1. notice.frame \in 1..Len(frames)
        BY <3>1 DEF FaceTypes, FaceNotice, Face!Idle
      <4> QED
        BY <3>1, <4>1 DEF FaceNoticed
    <3>2. CASE notice.what # "processed"
      BY <3>2 DEF FaceNoticed
    <3> QED
      BY <3>1, <3>2
  <2> QED
    BY <2>1, <2>2, <2>3 DEF FaceTypes
<1>4. m.what = "process" /\ m.frame = n
  OBVIOUS
<1> DEFINE S == FaceWork \cup {m}
<1>5. faceQueue \in Seq(S) /\ m \in S
  BY DEF FaceTypes
<1>6. n \notin 1..Len(frames)
  BY <1>2
<1> HIDE DEF m, S
<1>7. FaceQueued' = FaceQueued \cup {n} /\ EachOnce(faceQueue)'
  BY <1>1, <1>3, <1>4, <1>5, <1>6, FramesOfAppend DEF FaceApart, FaceQueued
<1>8. FaceLooped' = FaceLooped /\ FaceNoticed' = FaceNoticed
  BY <1>1 DEF FaceLooped, FaceNoticed
<1>9. FaceApart'
  BY <1>1, <1>3, <1>6, <1>7, <1>8 DEF FaceApart
<1>10. faceAnswers'[n] = 0 /\ \A f \in 1..Len(frames) : faceAnswers'[f] = faceAnswers[f]
  <2>1. faceAnswers \in Seq(Nat) /\ Len(faceAnswers) = Len(frames)
    BY DEF FaceTypes
  <2> QED
    BY <1>1, <1>2, <2>1
<1>11. ASSUME NEW f \in 1..Len(frames)'
       PROVE  faceAnswers'[f] + (IF f \in dropped' THEN 1 ELSE 0)
                = (IF f \in FaceQueued' \cup FaceLooped' \cup algo' \cup FaceNoticed' THEN 0 ELSE 1)
  <2>1. CASE f = n
    <3>1. f \in FaceQueued' /\ f \notin dropped' /\ faceAnswers'[f] = 0
      BY <1>1, <1>3, <1>6, <1>7, <1>10, <2>1
    <3> QED
      BY <3>1
  <2>2. CASE f # n
    <3>1. f \in 1..Len(frames)
      BY <1>2, <2>2
    <3> QED
      BY <1>1, <1>7, <1>8, <1>10, <2>2, <3>1 DEF FaceReturned
  <2> QED
    BY <2>1, <2>2
<1>12. FaceReturned'
  BY <1>11 DEF FaceReturned
<1> QED
  BY <1>9, <1>12

LEMMA FaceTakes ==
  ASSUME FaceTypes, FaceApart, FaceReturned, Face!Take
  PROVE  FaceApart' /\ FaceReturned'
<1>1. /\ faceQueue # <<>> /\ looper = Face!Idle /\ looper' = Head(faceQueue)
      /\ faceQueue' = Tail(faceQueue)
      /\ UNCHANGED <<notice, algo, frames, faceAnswers, dropped>>
  BY DEF Face!Take, Face!callVars, Face!worldVars, Face!toldVars
<1>2. faceQueue \in Seq(FaceWork) /\ EachOnce(faceQueue)
  BY DEF FaceTypes, FaceApart
<1>3. FaceLooped = {} /\ FaceNoticed' = FaceNoticed
  BY <1>1 DEF FaceLooped, FaceNoticed, Face!Idle
<1>4. FaceLooped' = (IF Head(faceQueue).what = "process" THEN {Head(faceQueue).frame} ELSE {})
  BY <1>1 DEF FaceLooped
<1>5. EachOnce(faceQueue)' /\ FaceQueued = FaceQueued' \cup FaceLooped'
        /\ FaceQueued' \cap FaceLooped' = {}
  BY <1>1, <1>2, <1>4, FramesOfTail DEF FaceQueued
<1>6. FaceApart'
  BY <1>1, <1>3, <1>5 DEF FaceApart
<1>7. FaceReturned'
  BY <1>1, <1>3, <1>5 DEF FaceReturned
<1> QED
  BY <1>6, <1>7

\* Steps of the looper's thread.
LEMMA FaceWorks ==
  ASSUME FaceTypes, FaceApart, FaceReturned,
         \/ Face!StartOperation \/ Face!OperationStarted \/ Face!CancelOperation
         \/ Face!CheckFrame \/ Face!ProcessFrame
  PROVE  FaceApart' /\ FaceReturned'
<1> USE DEF Face!callVars, Face!looperVars, Face!worldVars, Face!toldVars
<1>1. UNCHANGED <<faceQueue, frames>> /\ FaceQueued' = FaceQueued /\ EachOnce(faceQueue)'
  BY DEF Face!StartOperation, Face!OperationStarted, Face!CancelOperation,
         Face!CheckFrame, Face!ProcessFrame, FaceQueued, FaceApart
<1>2. ASSUME Face!StartOperation \/ Face!OperationStarted \/ Face!CancelOperation
      PROVE  FaceApart' /\ FaceReturned'
  <2>1. UNCHANGED <<algo, faceAnswers, dropped>>
    BY <1>2 DEF Face!StartOperation, Face!OperationStarted, Face!CancelOperation
  <2>2. FaceLooped' = FaceLooped
    BY <1>2 DEF Face!StartOperation, Face!OperationStarted, Face!CancelOperation, Face!At,
                Face!StepTo, Face!Idle, FaceLooped, FaceTypes, FaceWork
  <2>3. FaceNoticed' = FaceNoticed
    BY <1>2 DEF Face!StartOperation, Face!OperationStarted, Face!CancelOperation, Face!Idle,
                FaceNoticed
  <2> QED
    BY <1>1, <2>1, <2>2, <2>3, FaceStays
<1>3. ASSUME Face!CheckFrame \/ Face!ProcessFrame PROVE FaceApart' /\ FaceReturned'
  <2>1. looper.what = "process" /\ looper.frame \in 1..Len(frames) /\ FaceLooped = {looper.frame}
    BY <1>3 DEF Face!CheckFrame, Face!ProcessFrame, Face!At, Face!Idle, FaceLooped, FaceTypes,
                FaceWork
  <2>2. FaceNoticed' = FaceNoticed
    BY <1>3 DEF Face!CheckFrame, Face!ProcessFrame, FaceNoticed
  <2>3. looper' = Face!Idle => FaceLooped' = {}
    BY DEF Face!Idle, FaceLooped
  <2>4. CASE Face!CheckFrame /\ ~mCancelled
    <3>1. FaceLooped' = FaceLooped
      BY <2>1, <2>4 DEF Face!CheckFrame, Face!StepTo, FaceLooped, FaceTypes, FaceWork, Face!Idle
    <3> QED
      BY <1>1, <2>2, <2>4, <3>1, FaceStays DEF Face!CheckFrame
  <2>5. CASE Face!CheckFrame /\ mCancelled
    <3>1. /\ dropped' = dropped \cup {looper.frame} /\ looper' = Face!Idle
          /\ UNCHANGED <<algo, faceAnswers>>
      BY <2>5 DEF Face!CheckFrame
    <3>2. FaceApart'
      BY <1>1, <2>2, <2>3, <3>1 DEF FaceApart
    <3>3. FaceReturned'
      BY <1>1, <2>1, <2>2, <2>3, <3>1 DEF FaceReturned, FaceApart, FaceTypes
    <3> QED
      BY <3>2, <3>3
  <2>6. CASE Face!ProcessFrame /\ sIsAlgoInitialized
    <3>1. /\ algo' = algo \cup {looper.frame} /\ looper' = Face!Idle
          /\ UNCHANGED <<dropped, faceAnswers>>
      BY <2>6 DEF Face!ProcessFrame
    <3>2. FaceApart'
      BY <1>1, <2>1, <2>2, <2>3, <3>1 DEF FaceApart
    <3>3. FaceReturned'
      BY <1>1, <2>1, <2>2, <2>3, <3>1 DEF FaceReturned
    <3> QED
      BY <3>2, <3>3
  <2>7. CASE Face!ProcessFrame /\ ~sIsAlgoInitialized
    <3>1. /\ faceAnswers' = [faceAnswers EXCEPT ![looper.frame] = @ + 1] /\ looper' = Face!Idle
          /\ UNCHANGED <<dropped, algo>>
      BY <2>7 DEF Face!ProcessFrame
    <3>2. FaceApart'
      BY <1>1, <2>1, <2>2, <2>3, <3>1 DEF FaceApart
    <3>3. \A f \in 1..Len(frames) : /\ faceAnswers[f] \in Nat
                                    /\ faceAnswers'[f] = IF f = looper.frame THEN faceAnswers[f] + 1
                                                         ELSE faceAnswers[f]
      <4>1. faceAnswers \in Seq(Nat) /\ Len(faceAnswers) = Len(frames)
        BY DEF FaceTypes
      <4> QED
        BY <3>1, <4>1
    <3>4. FaceReturned'
      BY <1>1, <2>1, <2>2, <2>3, <3>1, <3>3 DEF FaceReturned, FaceApart
    <3> QED
      BY <3>2, <3>4
  <2> QED
    BY <1>3, <2>4, <2>5, <2>6, <2>7
<1> QED
  BY <1>2, <1>3

\* Steps of the algorithm's thread.
LEMMA FaceAnswersFrames ==
  ASSUME FaceTypes, FaceApart, FaceReturned,
         Face!AlgoAnswers \/ Face!AlgoReports \/ Face!CheckNotice \/ Face!EndOperation \/ Face!Tell
  PROVE  FaceApart' /\ FaceReturned'
<1> USE DEF Face!callVars, Face!looperVars, Face!worldVars, Face!toldVars
<1>1. /\ UNCHANGED <<faceQueue, looper, frames, dropped>> /\ FaceQueued' = FaceQueued
      /\ FaceLooped' = FaceLooped /\ EachOnce(faceQueue)'
  BY DEF Face!AlgoAnswers, Face!AlgoReports, Face!CheckNotice, Face!EndOperation, Face!Tell,
         FaceQueued, FaceLooped, FaceApart
<1>2. ASSUME Face!AlgoReports \/ Face!CheckNotice \/ Face!EndOperation
      PROVE  FaceApart' /\ FaceReturned'
  <2>1. UNCHANGED <<algo, faceAnswers>>
    BY <1>2 DEF Face!AlgoReports, Face!CheckNotice, Face!EndOperation
  <2>2. FaceNoticed' = FaceNoticed
    <3>1. CASE Face!AlgoReports
      BY <3>1 DEF Face!AlgoReports, Face!Idle, FaceNoticed
    <3>2. CASE Face!EndOperation
      BY <3>2 DEF Face!EndOperation, Face!Bringing, Face!Idle, Face!Filtered, FaceNoticed,
                  FaceNotice, FaceTypes
    <3>3. CASE Face!CheckNotice
      <4>1. CASE notice.what \in Face!NoticeFiltered /\ mCancelled
        BY <3>3, <4>1 DEF Face!CheckNotice, Face!NoticeFiltered, Face!Filtered, Face!Idle,
                          FaceNoticed
      <4>2. CASE ~(notice.what \in Face!NoticeFiltered /\ mCancelled)
        <5>1. notice \in FaceNotice /\ notice' = [notice EXCEPT !.step = "checked"]
          BY <3>3, <4>2 DEF Face!CheckNotice, Face!Bringing, Face!Idle, FaceTypes
        <5>2. notice'.what = notice.what
          BY <5>1 DEF FaceNotice
        <5>3. notice.what = "processed" => notice'.frame = notice.frame
          BY <5>1 DEF FaceNotice
        <5> QED
          BY <5>2, <5>3 DEF FaceNoticed
      <4> QED
        BY <4>1, <4>2
    <3> QED
      BY <1>2, <3>1, <3>2, <3>3
  <2> QED
    BY <1>1, <2>1, <2>2, FaceStays
<1>3. ASSUME Face!AlgoAnswers PROVE FaceApart' /\ FaceReturned'
  <2> PICK f \in algo : /\ algo' = algo \ {f}
                        /\ notice' = [what |-> "processed", frame |-> f, step |-> "begin"]
    BY <1>3 DEF Face!AlgoAnswers
  <2>1. FaceNoticed = {} /\ FaceNoticed' = {f} /\ UNCHANGED faceAnswers
    BY <1>3 DEF Face!AlgoAnswers, Face!Idle, FaceNoticed
  <2>2. FaceApart'
    BY <1>1, <2>1 DEF FaceApart
  <2>3. FaceReturned'
    BY <1>1, <2>1 DEF FaceReturned
  <2> QED
    BY <2>2, <2>3
<1>4. ASSUME Face!Tell PROVE FaceApart' /\ FaceReturned'
  <2>1. FaceNoticed' = {} /\ UNCHANGED algo
    BY <1>4 DEF Face!Tell, Face!Idle, FaceNoticed
  <2>2. FaceApart'
    BY <1>1, <2>1 DEF FaceApart
  <2>3. CASE notice.what = "processed"
    <3>1. notice.frame \in 1..Len(frames) /\ FaceNoticed = {notice.frame}
      BY <2>3 DEF FaceTypes, FaceNotice, Face!Idle, FaceNoticed
    <3>2. \A f \in 1..Len(frames) : /\ faceAnswers[f] \in Nat
                                    /\ faceAnswers'[f] = IF f = notice.frame THEN faceAnswers[f] + 1
                                                         ELSE faceAnswers[f]
      BY <1>4, <2>3 DEF Face!Tell, FaceTypes
    <3> QED
      BY <1>1, <2>1, <2>2, <3>1, <3>2 DEF FaceReturned, FaceApart
  <2>4. CASE notice.what # "processed"
    <3>1. FaceNoticed = {} /\ UNCHANGED faceAnswers
      BY <1>4, <2>4 DEF Face!Tell, FaceNoticed
    <3> QED
      BY <1>1, <2>1, <2>2, <3>1 DEF FaceReturned
  <2> QED
    BY <2>3, <2>4
<1> QED
  BY <1>2, <1>3, <1>4

LEMMA FaceStep == ASSUME FaceInv, Face!Next PROVE FaceInv'
<1>1. FaceTypes /\ FaceSettled /\ FaceApart /\ FaceReturned /\ FaceTypes' /\ FaceSettled'
  BY FaceTyped, FaceSettles DEF FaceInv
<1>2. ASSUME Face!SetCallback PROVE FaceApart' /\ FaceReturned'
  BY <1>1, <1>2, FaceStays DEF Face!SetCallback, Face!looperVars, Face!worldVars, Face!toldVars,
     FaceApart, FaceQueued, FaceLooped, FaceNoticed
<1>3. FaceApart' /\ FaceReturned'
  BY <1>1, <1>2, FacePosts, FaceSends, FaceTakes, FaceWorks, FaceAnswersFrames DEF Face!Next
<1> QED
  BY <1>1, <1>3 DEF FaceInv

LEMMA FaceInvHolds == SuiteSpec => []FaceInv
<1>1. SuiteInit => FaceInv
  <2>1. SuiteInit => Face!Init
    BY DEF SuiteInit
  <2> QED
    BY <2>1, FaceInit
<1>2. FaceInv /\ [SuiteNext]_suiteVars => FaceInv'
  <2>1. ASSUME FaceInv, UNCHANGED faceVars PROVE FaceInv'
    BY <2>1 DEF faceVars, FaceInv, FaceTypes, FaceSettled, FacePassed, FaceApart, FaceReturned,
                FaceWork, FaceNotice, FaceQueued, FaceLooped, FaceNoticed
  <2>2. [SuiteNext]_suiteVars => Face!Next \/ UNCHANGED faceVars
    BY DEF SuiteNext, Still, suiteVars
  <2> QED
    BY <2>1, <2>2, FaceStep
<1> QED
  BY <1>1, <1>2, PTL DEF SuiteSpec

\* After a cancel the framework is told at most the one result that had passed the check, and
\* each frame is given back exactly once or dropped after a cancel.
THEOREM FaceAnswersKept == SuiteSpec => []FaceAnswers
<1>1. FaceInv => Face!FramesReturned
  <2> SUFFICES ASSUME FaceInv, NEW f \in DOMAIN frames
               PROVE  /\ faceAnswers[f] + (IF f \in dropped THEN 1 ELSE 0)
                           = (IF f \in Face!OnItsWay THEN 0 ELSE 1)
                      /\ f \in dropped => cancels > 0
    BY DEF Face!FramesReturned
  <2>1. Face!OnItsWay = FaceQueued \cup FaceLooped \cup algo \cup FaceNoticed
    BY DEF Face!OnItsWay, FaceQueued, FramesOf, FaceLooped, FaceNoticed
  <2>2. f \in 1..Len(frames)
    BY DEF FaceInv, FaceTypes
  <2> QED
    BY <2>1, <2>2 DEF FaceInv, FaceSettled, FaceReturned
<1>2. FaceInv => Face!CancelSettles
  BY DEF FaceInv, FaceSettled, Face!CancelSettles
<1>3. FaceInv => FaceAnswers
  BY <1>1, <1>2 DEF FaceAnswers, Face!FaceAnswers
<1> QED
  BY <1>3, FaceInvHolds, PTL

---------------------------------------------------------------------------
(* The FM receiver. *)

ChipFields == {"on", "freq", "mute", "rds", "antenna", "step", "searching", "rssi", "snr", "bler",
               "rssi_th", "hbound", "reg"}
IsChip(c)  == ChipFields \subseteq DOMAIN c
ValuesKept(c, d) == c.rssi = d.rssi /\ c.snr = d.snr /\ c.bler = d.bler

\* A place to start from, with no station nearer than a channel.
OnChannel(f) == \A s \in Stations : Apart(s, f) /\ Apart(f, s)
There(start) == {s \in Stations : s >= start /\ Fm!Kept(s)}
Found(list, S) == \A s \in S : \E i \in DOMAIN list : list[i] = s

Scan == [start : Nat, last : Nat, freq : Nat, found : Seq(Nat), seen : BOOLEAN, failed : BOOLEAN,
         ended : BOOLEAN]

\* The list so far: stations in order, from the start on, none above where the scan is; and
\* all of those below, if no seek has failed.
ScanSoFar(s) ==
  /\ s.start >= 8750 /\ OnChannel(s.start)
  /\ \A i \in DOMAIN s.found : s.found[i] \in There(s.start)
  /\ \A i, j \in DOMAIN s.found : i < j => s.found[i] < s.found[j]
  /\ s.last < s.freq => /\ \A i \in DOMAIN s.found : s.found[i] <= s.freq
                        /\ s.freq = s.start - Spacing \/ s.freq >= s.start
  /\ s.ended => s.seen \/ s.last >= s.freq
  /\ s.seen => s.ended
  /\ ~s.failed /\ ~s.seen =>
       IF s.last < s.freq
       THEN /\ s.freq = s.start - Spacing \/ s.freq \in Stations
            /\ Found(s.found, {f \in There(s.start) : f <= s.freq})
       ELSE Found(s.found, There(s.start))

FmScan ==
  fmSearch # Fm!None =>
    /\ fmSearch \in Scan
    /\ fmSearch.seen => fmSearch.ended
    /\ Fm!DriverAgrees => ScanSoFar(fmSearch)
    /\ fmSearch.seen /\ ~fmSearch.failed => chip.freq = cur_freq

FmInv == IsChip(chip) /\ {"ps", "rt"} \subseteq DOMAIN rds /\ FmScan /\ Fm!ReceiverKept

Same(c, d) == IsChip(d) /\ ValuesKept(c, d) /\ d.searching = c.searching

Special == {"autoScan", "seek", "activeAf", "getPs", "getLrText", "getRssi", "getSnr", "getBler"}

\* A call, not of a scan, whose answer no property speaks of but that of its own.
Plain ==
  /\ fmSearch = Fm!None /\ UNCHANGED <<fmSearch, bridge, cfg_data>>
  /\ Same(chip, chip') /\ {"ps", "rt"} \subseteq DOMAIN rds'
  /\ settled' => cur_freq' = asked'

LEMMA PlainStep ==
  ASSUME FmInv, Plain, Fm!DriverAgrees => Fm!ScanExact' /\ Fm!SeekExact', Fm!AnswersSound',
         fmResult'.call # "autoScan"
  PROVE  FmInv'
<1>1. FmScan'
  BY DEF Plain, FmScan
<1>2. Fm!ScanReturns'
  <2>1. fmSearch' = Fm!None /\ ~chip.searching
    BY DEF FmInv, Plain, Fm!ReceiverKept, Fm!ScanReturns
  <2>2. ~chip'.searching
    BY <2>1 DEF Plain, Same
  <2> QED
    BY <2>1, <2>2 DEF Fm!ScanReturns, Fm!StopMet, Plain
<1>3. IsChip(chip)' /\ {"ps", "rt"} \subseteq DOMAIN rds'
  BY DEF Plain, Same
<1> QED
  BY <1>1, <1>2, <1>3 DEF FmInv, Fm!ReceiverKept

LEMMA OtherAnswer ==
  ASSUME FmInv, Plain, NEW w, fmResult'.call = w, w \notin Special
  PROVE  FmInv'
<1>1. Fm!ScanExact' /\ Fm!SeekExact'
  BY DEF Special, Fm!ScanExact, Fm!SeekExact
<1>2. Fm!AnswersSound'
  BY DEF Special, Fm!AnswersSound
<1> QED
  BY <1>1, <1>2, PlainStep DEF Special

LEMMA PowerStep ==
  ASSUME FmInv, Fm!OpenDev \/ Fm!CloseDev \/ Fm!NativePowerUp \/ Fm!NativePowerDown \/ Fm!Tune
  PROVE  FmInv'
<1> USE DEF Fm!Call, Fm!Uncounted, Fm!Answers, Fm!Ioctl, FmInv, Fm!ReceiverKept, Fm!ScanReturns
<1>1. CASE Fm!OpenDev
  <2>1. fmResult'.call = "openDev"
    BY <1>1 DEF Fm!OpenDev
  <2>2. Same(chip, chip')
    BY <1>1 DEF Fm!OpenDev, Fm!COM_open_dev, Same, ValuesKept
  <2>3. Plain
    BY <1>1, <2>2 DEF Fm!OpenDev, Plain
  <2> QED
    BY <2>1, <2>3, OtherAnswer DEF Special
<1>2. CASE Fm!CloseDev
  <2>1. fmResult'.call = "closeDev"
    BY <1>2 DEF Fm!CloseDev
  <2>2. Plain
    BY <1>2 DEF Fm!CloseDev, Plain, Same, ValuesKept
  <2> QED
    BY <2>1, <2>2, OtherAnswer DEF Special
<1>3. CASE Fm!NativePowerUp
  <2>1. fmResult'.call = "powerUp"
    BY <1>3 DEF Fm!NativePowerUp, Fm!FMR_pwr_up
  <2>2. PICK freq : Fm!FMR_pwr_up(freq)
    BY <1>3 DEF Fm!NativePowerUp
  <2>3. \/ UNCHANGED <<chip, cur_freq, asked, settled>>
        \/ settled' = FALSE /\ (chip' = chip \/ chip' = [chip EXCEPT !.on = TRUE, !.freq = 10 * freq])
    BY <2>2 DEF Fm!FMR_pwr_up, Fm!COM_pwr_up
  <2>4. Same(chip, chip')
    <3>1. chip' = chip \/ \E v, w : chip' = [chip EXCEPT !.on = v, !.freq = w]
      BY <2>3, Zenon
    <3>2. CASE chip' = chip
      BY <3>2 DEF Same, ValuesKept
    <3>3. CASE \E v, w : chip' = [chip EXCEPT !.on = v, !.freq = w]
      BY <3>3 DEF Same, ValuesKept, IsChip, ChipFields
    <3> QED
      BY <3>1, <3>2, <3>3, Zenon
  <2>5. Plain
    BY <1>3, <2>3, <2>4 DEF Fm!NativePowerUp, Plain
  <2> QED
    BY <2>1, <2>5, OtherAnswer DEF Special
<1>4. CASE Fm!NativePowerDown
  <2>1. fmResult'.call = "powerDown"
    BY <1>4 DEF Fm!NativePowerDown
  <2>2. chip' = chip \/ chip' = [chip EXCEPT !.on = FALSE]
    BY <1>4 DEF Fm!NativePowerDown, Fm!COM_pwr_down
  <2>3. Same(chip, chip')
    BY <2>2 DEF Same, ValuesKept, IsChip, ChipFields
  <2>4. Plain
    BY <1>4, <2>3 DEF Fm!NativePowerDown, Plain
  <2> QED
    BY <2>1, <2>4, OtherAnswer DEF Special
<1>5. CASE Fm!Tune
  <2>1. fmResult'.call = "tune"
    BY <1>5 DEF Fm!Tune
  <2>2. PICK freq \in Stations : /\ cur_freq' = freq /\ asked' = freq
                                 /\ chip' = chip \/ chip' = [chip EXCEPT !.freq = freq]
    BY <1>5 DEF Fm!Tune, Fm!FMR_tune, Fm!COM_tune, Fm!CurFreqAfterTune
  <2>3. Same(chip, chip')
    BY <2>2 DEF Same, ValuesKept, IsChip, ChipFields
  <2>4. Plain
    BY <1>5, <2>2, <2>3 DEF Fm!Tune, Plain
  <2> QED
    BY <2>1, <2>4, OtherAnswer DEF Special
<1> QED
  BY <1>1, <1>2, <1>3, <1>4, <1>5

LEMMA RdsStep ==
  ASSUME FmInv, Fm!SetRds \/ Fm!ReadRds \/ Fm!GetPs \/ Fm!GetLrText
  PROVE  FmInv'
<1> USE DEF Fm!Call, Fm!Extra, Fm!Answers, FmInv, Fm!ReceiverKept, Fm!ScanReturns
<1>1. CASE Fm!SetRds
  <2>1. fmResult'.call = "setRds"
    BY <1>1 DEF Fm!SetRds
  <2>2. chip' = chip \/ \E on : chip' = [chip EXCEPT !.rds = on]
    BY <1>1 DEF Fm!SetRds, Fm!COM_turn_on_off_rds, Fm!Ioctl
  <2>3. Same(chip, chip')
    BY <2>2 DEF Same, ValuesKept, IsChip, ChipFields
  <2>4. Plain
    BY <1>1, <2>3 DEF Fm!SetRds, Plain
  <2> QED
    BY <2>1, <2>4, OtherAnswer DEF Special
<1>2. CASE Fm!ReadRds
  <2>1. fmResult'.call = "readRds"
    BY <1>2 DEF Fm!ReadRds
  <2>2. {"ps", "rt"} \subseteq DOMAIN rds'
    BY <1>2 DEF Fm!ReadRds
  <2>3. Plain
    BY <1>2, <2>2 DEF Fm!ReadRds, Plain, Same, ValuesKept
  <2> QED
    BY <2>1, <2>3, OtherAnswer DEF Special
<1>3. CASE Fm!GetPs \/ Fm!GetLrText
  <2>1. PICK w \in {"getPs", "getLrText"}, v \in {Fm!None, "clean"} :
          fmResult' = [call |-> w, value |-> v]
    BY <1>3 DEF Fm!GetPs, Fm!GetLrText, Fm!COM_get_ps, Fm!COM_get_rt, Fm!COM_change_string
  <2>2. DOMAIN rds' = DOMAIN rds
    BY <1>3 DEF Fm!GetPs, Fm!GetLrText, Fm!COM_get_ps, Fm!COM_get_rt
  <2>3. Plain
    BY <1>3, <2>2 DEF Fm!GetPs, Fm!GetLrText, Plain, Same, ValuesKept
  <2>4. fmResult'.call = w /\ fmResult'.value = v
    BY <2>1
  <2>5. Fm!ScanExact' /\ Fm!SeekExact'
    BY <2>4 DEF Fm!ScanExact, Fm!SeekExact
  <2>6. Fm!AnswersSound'
    BY <2>4 DEF Fm!AnswersSound
  <2> QED
    BY <2>3, <2>4, <2>5, <2>6, PlainStep
<1> QED
  BY <1>1, <1>2, <1>3

LEMMA ValueStep ==
  ASSUME FmInv, Fm!GetRssi \/ Fm!GetSnr \/ Fm!GetBler
  PROVE  FmInv'
<1> USE DEF Fm!Extra, Fm!Answers, FmInv, Fm!ReceiverKept, Fm!ScanReturns
<1>1. PICK w \in {"getRssi", "getSnr", "getBler"}, v \in {-1, chip.rssi, chip.snr, chip.bler} :
        fmResult' = [call |-> w, value |-> v]
  BY DEF Fm!GetRssi, Fm!GetSnr, Fm!GetBler, Fm!FMR_get_rssi, Fm!FMR_get_snr, Fm!FMR_get_bler,
         Fm!COM_get_rssi, Fm!COM_get_snr, Fm!COM_get_bler
<1>2. chip' = chip
  BY DEF Fm!GetRssi, Fm!GetSnr, Fm!GetBler, Fm!Ioctl
<1>3. Plain
  BY <1>2 DEF Fm!GetRssi, Fm!GetSnr, Fm!GetBler, Plain, Same, ValuesKept
<1>4. fmResult'.call = w /\ fmResult'.value = v
  BY <1>1
<1>5. Fm!ScanExact' /\ Fm!SeekExact'
  BY <1>4 DEF Fm!ScanExact, Fm!SeekExact
<1>6. Fm!AnswersSound'
  BY <1>2, <1>4 DEF Fm!AnswersSound
<1> QED
  BY <1>3, <1>4, <1>5, <1>6, PlainStep

LEMMA ActiveAfStep == ASSUME FmInv, Fm!NativeActiveAf PROVE FmInv'
<1> USE DEF Fm!Call, Fm!Answers, FmInv, Fm!ReceiverKept, Fm!ScanReturns
<1>1. PICK v : /\ fmResult' = [call |-> "activeAf", value |-> v]
               /\ \/ v = 0 /\ UNCHANGED <<chip, cur_freq, asked, settled>>
                  \/ /\ v = Fm!COM_active_af /\ cur_freq' = v /\ asked' = v
                     /\ chip' = [chip EXCEPT !.freq = v, !.rds = TRUE]
  BY DEF Fm!NativeActiveAf, Fm!FMR_active_af
<1>2. fmResult'.call = "activeAf" /\ fmResult'.value = v
  BY <1>1
<1>3. Plain
  <2>1. Same(chip, chip')
    BY <1>1 DEF Same, ValuesKept, IsChip, ChipFields
  <2>2. settled' => cur_freq' = asked'
    BY <1>1
  <2> QED
    BY <2>1, <2>2 DEF Fm!NativeActiveAf, Plain
<1>4. v # 0 => Pamd[v] > 12 /\ chip'.freq = v
  BY <1>1 DEF Fm!COM_active_af, IsChip, ChipFields
<1>5. Fm!ScanExact' /\ Fm!SeekExact'
  BY <1>2 DEF Fm!ScanExact, Fm!SeekExact
<1>6. Fm!AnswersSound'
  BY <1>2, <1>4 DEF Fm!AnswersSound
<1> QED
  BY <1>2, <1>3, <1>5, <1>6, PlainStep

LEMMA SettingStep ==
  ASSUME FmInv, \/ Fm!SupportAsked \/ Fm!SetTuneParm \/ Fm!GetTuneParm \/ Fm!SetAudioParm
                \/ Fm!GetAudioParm \/ Fm!WriteRegParm \/ Fm!ReadRegParm \/ Fm!SetMute
                \/ Fm!SetStep \/ Fm!SwitchAntenna
  PROVE  FmInv'
<1> USE DEF Fm!Extra, Fm!Answers, Fm!Ioctl
<1>1. PICK w \in {"isRdsSupport", "setTuneParm", "getTuneParm", "setAudioParm", "getAudioParm",
                  "writeRegParm", "readRegParm", "setMute", "setStep", "switchAntenna"} :
        fmResult'.call = w
  BY DEF Fm!SupportAsked, Fm!SetTuneParm, Fm!GetTuneParm, Fm!SetAudioParm, Fm!GetAudioParm,
         Fm!WriteRegParm, Fm!ReadRegParm, Fm!SetMute, Fm!SetStep, Fm!SwitchAntenna
<1>2. /\ fmSearch = Fm!None
      /\ UNCHANGED <<fmSearch, bridge, cfg_data, rds, cur_freq, asked, settled>>
  BY DEF Fm!SupportAsked, Fm!SetTuneParm, Fm!GetTuneParm, Fm!SetAudioParm, Fm!GetAudioParm,
         Fm!WriteRegParm, Fm!ReadRegParm, Fm!SetMute, Fm!SetStep, Fm!SwitchAntenna
<1>3. \/ chip' = chip
      \/ \E v : \/ chip' = [chip EXCEPT !.rssi_th = v] \/ chip' = [chip EXCEPT !.hbound = v]
                \/ chip' = [chip EXCEPT !.reg = v] \/ chip' = [chip EXCEPT !.mute = v]
                \/ chip' = [chip EXCEPT !.step = v] \/ chip' = [chip EXCEPT !.antenna = v]
  BY DEF Fm!SupportAsked, Fm!SetTuneParm, Fm!GetTuneParm, Fm!SetAudioParm, Fm!GetAudioParm,
         Fm!WriteRegParm, Fm!ReadRegParm, Fm!SetMute, Fm!SetStep, Fm!SwitchAntenna,
         Fm!COM_set_tune, Fm!COM_set_audio, Fm!COM_rw_reg, Fm!COM_set_mute, Fm!COM_set_step,
         Fm!COM_ana_switch
<1>4. Same(chip, chip')
  BY <1>3 DEF FmInv, Same, ValuesKept, IsChip, ChipFields
<1>5. Plain
  BY <1>2, <1>4 DEF Plain, FmInv, Fm!ReceiverKept, Fm!ScanReturns
<1> QED
  BY <1>1, <1>5, OtherAnswer DEF Special

\* Channels are numbers, and apart by the spacing.
LEMMA Channels ==
  /\ \E top \in Nat : Stations \subseteq 1..top
  /\ \A s \in Stations : s \in Nat
  /\ \A f \in Starts : f \in Nat
  /\ Spacing \in Nat \ {0} /\ Spacing < 8750
  /\ \A s, f \in Stations : Apart(s, f) /\ Apart(f, s)
  /\ \A f \in Starts \cup {8750} : OnChannel(f)
<1>1. \A s \in Stations : s \in Nat
  BY ChannelsAssumption
<1>2. \A f \in Starts \cup {8750} : OnChannel(f)
  BY ChannelsAssumption DEF OnChannel
<1>3. \E top \in Nat : Stations \subseteq 1..top
  <2>1. PICK top \in Stations \cup {0} : Stations \subseteq 1..top
    BY ChannelsAssumption
  <2>2. top \in Nat
    BY <1>1, <2>1
  <2> QED
    BY <2>1, <2>2
<1> QED
  BY <1>1, <1>2, <1>3, ChannelsAssumption

\* The hardware seek: the nearest station ahead, or else the farthest one behind.
LEMMA NextStationIs ==
  ASSUME NEW f \in Int, NEW upward \in BOOLEAN, Stations # {}
  PROVE  LET next  == Fm!NextStation(f, upward)
             ahead == {s \in Stations : IF upward THEN s >= f ELSE s <= f}
         IN  /\ next \in Stations
             /\ IF ahead = {}
                THEN \A s \in Stations : IF upward THEN next <= s ELSE next >= s
                ELSE next \in ahead /\ \A s \in ahead : IF upward THEN next <= s ELSE next >= s
<1> DEFINE ahead == {s \in Stations : IF upward THEN s >= f ELSE s <= f}
           among == IF ahead = {} THEN Stations ELSE ahead
<1>1. among # {} /\ among \subseteq Stations
  OBVIOUS
<1>2. PICK top \in Nat : Stations \subseteq 1..top
  BY Channels
<1>3. \E s \in among : \A t \in among : IF upward THEN s <= t ELSE s >= t
  <2> HIDE DEF among
  <2>1. CASE upward
    <3>1. among \in SUBSET Nat
      BY <1>2, <1>1
    <3> QED
      BY <2>1, <3>1, <1>1, LeastOne
  <2>2. CASE ~upward
    <3>1. among \in SUBSET (1..top)
      BY <1>2, <1>1
    <3>2. \E s \in among : \A t \in among : t <= s
      BY <3>1, <1>2, <1>1, GreatestOne
    <3>3. \A s, t \in among : t <= s => s >= t
      BY <1>2, <1>1
    <3> QED
      BY <2>2, <3>2, <3>3
  <2> QED
    BY <2>1, <2>2
<1>4. Fm!NextStation(f, upward)
        = CHOOSE s \in among : \A t \in among : IF upward THEN s <= t ELSE s >= t
  BY DEF Fm!NextStation
<1>5. /\ Fm!NextStation(f, upward) \in among
      /\ \A t \in among : IF upward THEN Fm!NextStation(f, upward) <= t
                          ELSE Fm!NextStation(f, upward) >= t
  <2> HIDE DEF among
  <2> QED
    BY <1>3, <1>4
<1> QED
  BY <1>1, <1>5

LEMMA ResultKept ==
  ASSUME FmInv, UNCHANGED <<fmResult, bridge, cfg_data>>, ValuesKept(chip, chip'),
         fmSearch' # Fm!None \/ UNCHANGED <<chip, fmSearch>>
  PROVE  (Fm!DriverAgrees => Fm!ScanExact' /\ Fm!SeekExact') /\ Fm!AnswersSound'
<1>1. ASSUME Fm!DriverAgrees PROVE Fm!ScanExact'
  <2> DEFINE there(start) == {s \in Stations : s >= start /\ Fm!Kept(s)}
             exact(start) ==
               \E list \in [DOMAIN fmResult.value -> there(start)] :
                 /\ fmResult.value = Fm!Given(list)
                 /\ \A i, j \in DOMAIN list : i < j => list[i] < list[j]
                 /\ fmResult.failed \/ fmResult.seen
                      \/ \A s \in there(start) : \E i \in DOMAIN list : list[i] = s
  <2>1. fmResult # Fm!None /\ fmResult.call = "autoScan" => exact(fmResult.start)
    BY <1>1 DEF FmInv, Fm!ReceiverKept, Fm!ScanExact
  <2>2. \A f : Fm!SevereDesense(f)' = Fm!SevereDesense(f)
    BY Zenon DEF Fm!SevereDesense
  <2>3. \A f : Fm!Kept(f)' = Fm!Kept(f)
    BY <2>2 DEF Fm!Kept
  <2>4. \A start : there(start)' = there(start)
    BY <2>3
  <2>5. \A list : Fm!Given(list)' = Fm!Given(list)
    BY DEF Fm!Given
  <2>6. fmResult' # Fm!None /\ fmResult'.call = "autoScan" => exact(fmResult.start)'
    <3> HIDE DEF there
    <3> QED
      BY <2>1, <2>4, <2>5
  <2> QED
    BY <2>6 DEF Fm!ScanExact
<1>2. Fm!DriverAgrees => Fm!SeekExact'
  BY DEF FmInv, Fm!ReceiverKept, Fm!SeekExact
<1>3. Fm!AnswersSound'
  BY DEF FmInv, Fm!ReceiverKept, Fm!AnswersSound, ValuesKept
<1> QED
  BY <1>1, <1>2, <1>3

LEMMA ScanIsThere == \A s \in Scan : s # Fm!None
<1>1. \A s \in Scan : "start" \in DOMAIN s
  BY DEF Scan
<1>2. "start" \notin DOMAIN Fm!None
  BY DEF Fm!None
<1> QED
  BY <1>1, <1>2

LEMMA SeekStep == ASSUME FmInv, Fm!Seek PROVE FmInv'
<1>1. PICK ok \in BOOLEAN, start \in Starts, upward \in BOOLEAN :
        LET s == Fm!FMR_seek(ok, start, upward)
        IN  /\ Fm!Ioctl(ok, [chip EXCEPT !.mute = Fm!MuteAfterSeek,
                                         !.freq = IF s.seeks THEN s.found ELSE chip.freq])
            /\ fmResult' = [call |-> "seek", value |-> s.found, start |-> start, up |-> upward,
                            ok |-> ok]
  BY ZenonT(30) DEF Fm!Seek
<1> DEFINE found == Fm!FMR_seek(ok, start, upward).found
<1>2. chip' = chip \/ \E v, w : chip' = [chip EXCEPT !.mute = v, !.freq = w]
  BY <1>1 DEF Fm!Ioctl
<1>3. Same(chip, chip')
  <2>1. CASE chip' = chip
    BY <2>1 DEF Same, ValuesKept, FmInv
  <2>2. CASE \E v, w : chip' = [chip EXCEPT !.mute = v, !.freq = w]
    BY <2>2 DEF Same, ValuesKept, IsChip, ChipFields, FmInv
  <2> QED
    BY <1>2, <2>1, <2>2
<1>4. Plain
  BY <1>3 DEF Plain, Fm!Seek, Fm!Call, FmInv, Fm!ReceiverKept, Fm!ScanReturns
<1>5. /\ fmResult'.call = "seek" /\ fmResult'.value = found /\ fmResult'.start = start
      /\ fmResult'.up = upward /\ fmResult'.ok = ok
  <2> HIDE DEF found
  <2>1. fmResult' = [call |-> "seek", value |-> found, start |-> start, up |-> upward, ok |-> ok]
    BY <1>1 DEF found
  <2> QED
    BY <2>1
<1> DEFINE from == IF upward THEN start + Spacing ELSE start - Spacing
           sought == ok /\ ~Fm!BeyondLimits(start) /\ Stations # {}
<1>6. Fm!DriverAgrees => found = IF sought THEN Fm!NextStation(from, upward) ELSE start
  <2> SUFFICES ASSUME Fm!DriverAgrees
               PROVE  found = IF sought THEN Fm!NextStation(from, upward) ELSE start
    OBVIOUS
  <2>1. Fm!SeekFound(start, upward) =
          LET next == Fm!NextStation(from, upward) IN IF next = 0 THEN start ELSE next
    BY DEF Fm!SeekFound, Fm!COM_seek, Fm!DriverAgrees, Fm!FM_SEEK_UP, Fm!FM_SEEK_DOWN
  <2>2. IF Stations = {} THEN Fm!NextStation(from, upward) = 0
        ELSE Fm!NextStation(from, upward) # 0
    <3>1. Stations = {} => Fm!NextStation(from, upward) = 0
      BY DEF Fm!NextStation
    <3>2. from \in Int
      BY Channels
    <3> HIDE DEF from
    <3>3. Stations # {} => Fm!NextStation(from, upward) \in Stations
      BY <3>2, NextStationIs
    <3>4. 0 \notin Stations
      BY Channels
    <3> QED
      BY <3>1, <3>3, <3>4
  <2> HIDE DEF from
  <2>3. found = IF Fm!BeyondLimits(start) \/ ~ok THEN start ELSE Fm!SeekFound(start, upward)
    BY DEF Fm!FMR_seek
  <2> HIDE DEF found
  <2> QED
    BY <2>1, <2>2, <2>3
<1>7. ASSUME Fm!DriverAgrees PROVE Fm!SeekExact'
  <2> HIDE DEF from, found, sought
  <2>1. CASE ~sought
    BY <1>5, <1>6, <1>7, <2>1 DEF Fm!SeekExact, sought
  <2>2. CASE sought
    <3>1. /\ start \in Nat /\ Spacing \in Nat \ {0} /\ from \in Int
          /\ \A s \in Stations : s \in Nat
      BY Channels DEF from
    <3>2. \A s \in Stations : Apart(s, start) /\ Apart(start, s)
      BY Channels DEF OnChannel
    <3>3. found = Fm!NextStation(from, upward)
      BY <1>6, <1>7, <2>2
    <3>4. /\ found \in Stations
          /\ IF {s \in Stations : IF upward THEN s >= from ELSE s <= from} = {}
             THEN \A s \in Stations : IF upward THEN found <= s ELSE found >= s
             ELSE /\ found \in {s \in Stations : IF upward THEN s >= from ELSE s <= from}
                  /\ \A s \in {t \in Stations : IF upward THEN t >= from ELSE t <= from} :
                       IF upward THEN found <= s ELSE found >= s
      BY <2>2, <3>1, <3>3, NextStationIs DEF sought
    <3>5. \A s \in Stations : Fm!Ahead(s, start, upward) <=> IF upward THEN s >= from ELSE s <= from
      BY <3>1, <3>2 DEF from, Fm!Ahead, Apart
    <3>6. ASSUME NEW s \in Stations, Fm!MetBefore(s, found, start, upward) PROVE FALSE
      <4> DEFINE ahead == {t \in Stations : Fm!Ahead(t, start, upward)}
      <4>1. /\ IF ahead = {}
               THEN \A t \in Stations : IF upward THEN found <= t ELSE found >= t
               ELSE /\ found \in ahead
                    /\ \A t \in ahead : IF upward THEN found <= t ELSE found >= t
        <5>1. ahead = {t \in Stations : IF upward THEN t >= from ELSE t <= from}
          BY <3>5
        <5> HIDE DEF ahead
        <5> QED
          BY <3>4, <5>1
      <4>2. CASE s \in ahead
        <5>1. found \in ahead /\ IF upward THEN found <= s ELSE found >= s
          BY <4>1, <4>2
        <5> QED
          BY <3>1, <3>4, <3>6, <4>2, <5>1 DEF Fm!MetBefore
      <4>3. CASE s \notin ahead
        <5>1. found \notin ahead /\ (IF upward THEN s < found ELSE found < s)
          BY <3>4, <3>6, <4>3 DEF Fm!MetBefore
        <5>2. IF upward THEN found <= s ELSE found >= s
          BY <4>1, <5>1
        <5> QED
          BY <3>1, <3>4, <5>1, <5>2
      <4> QED
        BY <4>2, <4>3
    <3> QED
      BY <1>5, <3>4, <3>6, <2>2 DEF Fm!SeekExact, sought
  <2> QED
    BY <2>1, <2>2
<1>8. Fm!ScanExact' /\ Fm!AnswersSound'
  BY <1>5 DEF Fm!ScanExact, Fm!AnswersSound
<1> QED
  <2>1. Fm!DriverAgrees => Fm!ScanExact' /\ Fm!SeekExact'
    BY <1>7, <1>8
  <2> QED
    BY <1>4, <1>5, <1>8, <2>1, PlainStep

\* What the list has to say does not change while the configuration does not.
LEMMA SoFarKept ==
  ASSUME UNCHANGED cfg_data
  PROVE  \A s : ScanSoFar(s) = ScanSoFar(s)' 
<1>1. \A f : Fm!SevereDesense(f)' = Fm!SevereDesense(f)
  BY Zenon DEF Fm!SevereDesense
<1>2. \A f : Fm!Kept(f)' = Fm!Kept(f)
  BY <1>1 DEF Fm!Kept
<1>3. \A start : There(start)' = There(start)
  BY <1>2 DEF There
<1> QED
  BY <1>3 DEF ScanSoFar

LEMMA AutoScanStep == ASSUME FmInv, Fm!AutoScan PROVE FmInv'
<1>1. PICK first \in Starts \cup {0} :
        fmSearch' = [start |-> Fm!StartFreq(first), last |-> 0,
                     freq |-> Fm!StartFreq(first) - Spacing, found |-> <<>>,
                     seen |-> FALSE, failed |-> FALSE, ended |-> FALSE]
  BY DEF Fm!AutoScan
<1> DEFINE start == Fm!StartFreq(first)
<1>2. start \in Nat /\ start >= 8750 /\ OnChannel(start) /\ start - Spacing \in Nat \ {0}
      /\ Spacing \in Nat \ {0}
  <2>1. start = 8750 \/ (start = first /\ first >= 8750)
    BY DEF Fm!StartFreq
  <2>2. start \in Starts \cup {8750}
    BY <2>1
  <2>3. OnChannel(start) /\ start \in Nat /\ start >= 8750
    BY <2>1, <2>2, Channels
  <2> HIDE DEF start
  <2> QED
    BY <2>3, Channels
<1> HIDE DEF start
<1>3. fmSearch' = [start |-> start, last |-> 0, freq |-> start - Spacing, found |-> <<>>,
                   seen |-> FALSE, failed |-> FALSE, ended |-> FALSE]
  BY <1>1 DEF start
<1>4. fmSearch' \in Scan
  BY <1>2, <1>3 DEF Scan
<1>5. ScanSoFar(fmSearch')
  <2>1. Found(<<>>, {f \in There(start) : f <= start - Spacing})
    BY <1>2, Channels DEF Found, There
  <2> QED
    BY <1>2, <1>3, <2>1 DEF ScanSoFar
<1>6. FmScan'
  <2>1. ~fmSearch'.seen
    BY <1>3
  <2>2. ScanSoFar(fmSearch)'
    BY <1>5, SoFarKept DEF Fm!AutoScan, Fm!Call
  <2> QED
    BY <1>4, <2>1, <2>2 DEF FmScan
<1>7. fmSearch' # Fm!None
  BY <1>4, ScanIsThere
<1>9. ValuesKept(chip, chip') /\ IsChip(chip')
  BY DEF Fm!AutoScan, ValuesKept, FmInv, IsChip, ChipFields
<1>10. (Fm!DriverAgrees => Fm!ScanExact' /\ Fm!SeekExact') /\ Fm!AnswersSound'
  BY <1>7, <1>9, ResultKept DEF Fm!AutoScan, Fm!Call
<1>11. Fm!ScanReturns'
  BY <1>7 DEF Fm!ScanReturns, Fm!StopMet, Fm!AutoScan, FmInv, Fm!ReceiverKept
<1> QED
  BY <1>6, <1>9, <1>10, <1>11 DEF FmInv, Fm!ReceiverKept, Fm!AutoScan

\* A scan that goes on.
LEMMA ScanGoesOn ==
  ASSUME FmInv, UNCHANGED <<fmResult, bridge, cfg_data, cur_freq, asked, settled, rds>>,
         IsChip(chip'), ValuesKept(chip, chip'), fmSearch' \in Scan,
         Fm!DriverAgrees => ScanSoFar(fmSearch'), fmSearch'.seen => fmSearch'.ended,
         fmSearch'.seen /\ ~fmSearch'.failed => chip'.freq = cur_freq
  PROVE  FmInv'
<1>1. fmSearch' # Fm!None
  BY ScanIsThere
<1>2. Fm!DriverAgrees => ScanSoFar(fmSearch)'
  BY SoFarKept
<1>3. FmScan'
  BY <1>2 DEF FmScan
<1>4. (Fm!DriverAgrees => Fm!ScanExact' /\ Fm!SeekExact') /\ Fm!AnswersSound'
  BY <1>1, ResultKept
<1>5. Fm!ScanReturns'
  BY <1>1 DEF Fm!ScanReturns, Fm!StopMet, FmInv, Fm!ReceiverKept
<1> QED
  BY <1>3, <1>4, <1>5 DEF FmInv, Fm!ReceiverKept

LEMMA ScanPauses ==
  ASSUME FmInv, Fm!ScanStopped \/ Fm!ScanEnds \/ Fm!StopScan
  PROVE  FmInv'
<1> USE DEF FmInv, FmScan
<1>1. CASE Fm!ScanStopped
  <2>1. PICK ok \in BOOLEAN :
          /\ Fm!TunesBack(ok, TRUE, FALSE)
          /\ fmSearch' = [fmSearch EXCEPT !.ended = TRUE, !.seen = TRUE,
                                          !.failed = fmSearch.failed \/ ~ok]
    BY <1>1 DEF Fm!ScanStopped
  <2>2. fmSearch \in Scan /\ (Fm!DriverAgrees => ScanSoFar(fmSearch)) /\ fmSearch.failed \in BOOLEAN
    BY <1>1 DEF Fm!ScanStopped, Scan
  <2>3. fmSearch' \in Scan
    BY <2>1, <2>2 DEF Scan
  <2>4. (Fm!DriverAgrees => ScanSoFar(fmSearch')) /\ fmSearch'.ended
    BY <2>1, <2>2 DEF ScanSoFar, Scan
  <2>5. IsChip(chip') /\ ValuesKept(chip, chip') /\ (ok => chip'.freq = cur_freq)
    BY <2>1 DEF Fm!TunesBack, IsChip, ChipFields, ValuesKept
  <2>6. fmSearch'.seen /\ ~fmSearch'.failed => chip'.freq = cur_freq
    BY <2>1, <2>2, <2>5 DEF Scan
  <2> QED
    BY <1>1, <2>3, <2>4, <2>5, <2>6, ScanGoesOn DEF Fm!ScanStopped
<1>2. CASE Fm!ScanEnds
  <2>1. fmSearch \in Scan /\ (Fm!DriverAgrees => ScanSoFar(fmSearch))
    BY <1>2 DEF Fm!ScanEnds
  <2>2. fmSearch' \in Scan
    BY <1>2, <2>1 DEF Scan, Fm!ScanEnds
  <2>5. fmSearch.last >= fmSearch.freq /\ fmSearch' = [fmSearch EXCEPT !.ended = TRUE]
    BY <1>2 DEF Fm!ScanEnds
  <2>6. (Fm!DriverAgrees => ScanSoFar(fmSearch')) /\ fmSearch'.ended
    BY <2>1, <2>5 DEF ScanSoFar, Scan
  <2>3. fmSearch'.seen /\ ~fmSearch'.failed => chip'.freq = cur_freq
    BY <1>2, <2>1 DEF Scan, Fm!ScanEnds
  <2>4. IsChip(chip') /\ ValuesKept(chip, chip')
    BY <1>2 DEF Fm!ScanEnds, ValuesKept
  <2> QED
    BY <1>2, <2>2, <2>3, <2>4, <2>6, ScanGoesOn DEF Fm!ScanEnds
<1>3. CASE Fm!StopScan
  <2>1. IsChip(chip') /\ ValuesKept(chip, chip')
    BY <1>3 DEF Fm!StopScan, ValuesKept
  <2> QED
    BY <1>3, <2>1, ScanGoesOn DEF Fm!StopScan
<1> QED
  BY <1>1, <1>2, <1>3

\* The seek of a scan: no station is passed over.
LEMMA NextAhead ==
  ASSUME NEW f \in Nat
  PROVE  LET next == Fm!NextStation(f, TRUE)
         IN  /\ next \in Nat /\ (next = 0 \/ next \in Stations)
             /\ \A s \in Stations : s >= f => f <= next /\ next <= s
<1>1. CASE Stations # {}
  <2> DEFINE next  == Fm!NextStation(f, TRUE)
             ahead == {s \in Stations : s >= f}
  <2>1. /\ next \in Stations
        /\ ahead # {} => next \in ahead /\ \A s \in ahead : next <= s
    <3>1. f \in Int /\ TRUE \in BOOLEAN
      OBVIOUS
    <3>2. /\ next \in Stations
          /\ IF {s \in Stations : IF TRUE THEN s >= f ELSE s <= f} = {}
             THEN \A s \in Stations : IF TRUE THEN next <= s ELSE next >= s
             ELSE /\ next \in {s \in Stations : IF TRUE THEN s >= f ELSE s <= f}
                  /\ \A s \in {t \in Stations : IF TRUE THEN t >= f ELSE t <= f} :
                       IF TRUE THEN next <= s ELSE next >= s
      BY <1>1, <3>1, NextStationIs, Zenon
    <3>3. {s \in Stations : IF TRUE THEN s >= f ELSE s <= f} = ahead
      OBVIOUS
    <3> HIDE DEF next, ahead
    <3> QED
      BY <3>2, <3>3
  <2>2. \A s \in Stations : s >= f => f <= next /\ next <= s
    <3> HIDE DEF next
    <3>1. \A s \in Stations : s \in Nat
      BY Channels
    <3>2. \A s \in ahead : next \in ahead /\ next <= s
      BY <2>1
    <3> QED
      BY <3>1, <3>2
  <2>3. next \in Nat
    <3> HIDE DEF next, ahead
    <3>1. \A s \in Stations : s \in Nat
      BY Channels
    <3> QED
      BY <2>1, <3>1
  <2> QED
    BY <2>1, <2>2, <2>3
<1>2. CASE Stations = {}
  BY <1>2 DEF Fm!NextStation
<1> QED
  BY <1>1, <1>2

\* One seek further: what it finds is the next station, and there is none between.
LEMMA ScanFinds ==
  ASSUME NEW s \in Scan, ScanSoFar(s), s.last < s.freq, s.ended = FALSE,
         NEW to \in Nat, to = 0 \/ to \in Stations,
         \A f \in Stations : f >= s.freq + Spacing => s.freq + Spacing <= to /\ to <= f
  PROVE  LET t == [s EXCEPT !.last = s.freq, !.freq = to,
                            !.found = IF s.freq < to /\ Fm!Kept(to) THEN Append(@, to) ELSE @]
         IN  t \in Scan /\ ScanSoFar(t) /\ ~t.seen
<1> DEFINE adds == s.freq < to /\ Fm!Kept(to)
           list == IF adds THEN Append(s.found, to) ELSE s.found
           t    == [s EXCEPT !.last = s.freq, !.freq = to, !.found = list]
           clean == ~s.failed
           S    == There(s.start)
<1> HIDE DEF adds, list, t, S, clean
<1>1. /\ s.start \in Nat /\ s.last \in Nat /\ s.freq \in Nat /\ s.found \in Seq(Nat)
      /\ Spacing \in Nat \ {0} /\ \A x \in Stations : x \in Nat
  BY Channels DEF Scan
<1>2. s.seen = FALSE /\ s.failed \in BOOLEAN
  BY DEF Scan, ScanSoFar
<1>3. /\ s.start >= 8750 /\ OnChannel(s.start)
      /\ \A i \in DOMAIN s.found : s.found[i] \in S /\ s.found[i] <= s.freq
      /\ \A i, j \in DOMAIN s.found : i < j => s.found[i] < s.found[j]
      /\ s.freq = s.start - Spacing \/ s.freq >= s.start
      /\ clean => /\ s.freq = s.start - Spacing \/ s.freq \in Stations
                  /\ Found(s.found, {f \in S : f <= s.freq})
  BY <1>2 DEF ScanSoFar, S, clean
\* No station is nearer than a channel to where the seek started.
<1>4. clean => \A f \in S : f <= s.freq \/ f >= s.freq + Spacing
  <2>1. \A f \in S : f \in Stations /\ f >= s.start /\ Apart(s.start, f)
    BY <1>3 DEF There, OnChannel, S
  <2>2. s.freq \in Stations => \A f \in S : Apart(s.freq, f)
    <3>1. \A x, y \in Stations : Apart(x, y)
      BY Channels
    <3> QED
      BY <2>1, <3>1
  <2> QED
    BY <1>1, <1>3, <2>1, <2>2 DEF Apart
<1>5. s.freq < to => to >= s.start
  <2>1. ASSUME s.freq < to, to < s.start PROVE FALSE
    <3>1. Apart(to, s.start)
      BY <1>1, <1>3, <2>1 DEF OnChannel
    <3> QED
      BY <1>1, <1>3, <2>1, <3>1 DEF Apart
  <2> QED
    BY <1>1, <2>1
<1>6. \A f \in S : f < s.freq + Spacing \/ (s.freq < to /\ to <= f)
  <2>1. \A f \in S : f \in Nat /\ f \in Stations
    BY <1>1 DEF There, S
  <2> QED
    BY <1>1, <2>1
<1>7. list \in Seq(Nat)
  BY <1>1 DEF list
<1>8. /\ \A i \in DOMAIN list : list[i] \in S
      /\ \A i, j \in DOMAIN list : i < j => list[i] < list[j]
      /\ s.freq < to => \A i \in DOMAIN list : list[i] <= to
  <2>1. CASE ~adds
    <3>1. \A i \in DOMAIN s.found : s.found[i] \in Nat
      BY <1>1
    <3> QED
      BY <1>1, <1>3, <2>1, <3>1 DEF list
  <2>2. CASE adds
    <3>1. to \in S
      BY <1>1, <1>5, <2>2 DEF There, S, adds
    <3>2. /\ DOMAIN list = 1..(Len(s.found) + 1) /\ DOMAIN s.found = 1..Len(s.found)
          /\ Len(s.found) \in Nat /\ list[Len(s.found) + 1] = to
          /\ \A i \in 1..Len(s.found) : list[i] = s.found[i]
      BY <1>1, <2>2 DEF list
    <3>3. \A i \in 1..Len(s.found) : s.found[i] \in Nat
      BY <1>1
    <3>4. \A i \in 1..Len(s.found) : s.found[i] \in S /\ s.found[i] <= s.freq
      BY <1>3, <3>2
    <3>5. \A i \in 1..Len(s.found) : s.found[i] < to
      BY <1>1, <2>2, <3>3, <3>4 DEF adds
    <3>6. \A i \in DOMAIN list : list[i] \in S /\ list[i] <= to
      BY <3>1, <3>2, <3>3, <3>4, <3>5
    <3>7. ASSUME NEW i \in DOMAIN list, NEW j \in DOMAIN list, i < j PROVE list[i] < list[j]
      <4>1. i \in 1..Len(s.found)
        BY <3>2, <3>7
      <4>2. CASE j = Len(s.found) + 1
        BY <3>2, <3>5, <4>1, <4>2
      <4>3. CASE j \in 1..Len(s.found)
        BY <1>3, <3>2, <3>7, <4>1, <4>3
      <4> QED
        BY <3>2, <4>2, <4>3
    <3> QED
      BY <3>6, <3>7
  <2> QED
    BY <2>1, <2>2
\* What was found stays in the list, and what is to be kept is added.
<1>9. clean /\ s.freq < to => Found(list, {f \in S : f <= to})
  <2>1. ASSUME clean, s.freq < to, NEW f \in S, f <= to
        PROVE  \E i \in DOMAIN list : list[i] = f
    <3>1. f \in Nat
      BY <1>1 DEF There, S
    <3>2. CASE f <= s.freq
      <4>1. PICK i \in DOMAIN s.found : s.found[i] = f
        BY <1>3, <2>1, <3>2 DEF Found
      <4>2. i \in DOMAIN list /\ list[i] = f
        BY <1>1, <4>1 DEF list
      <4> QED
        BY <4>2
    <3>3. CASE f > s.freq
      <4>1. f >= s.freq + Spacing
        BY <1>1, <1>4, <2>1, <3>1, <3>3
      <4>2. f = to
        BY <1>1, <1>6, <2>1, <3>1, <4>1
      <4>3. adds
        BY <2>1, <4>2 DEF There, S, adds
      <4>4. list[Len(s.found) + 1] = to /\ Len(s.found) + 1 \in DOMAIN list
        BY <1>1, <4>3 DEF list
      <4> QED
        BY <4>2, <4>4
    <3> QED
      BY <1>1, <3>1, <3>2, <3>3
  <2> QED
    BY <2>1 DEF Found
<1>10. clean /\ ~(s.freq < to) => Found(list, S)
  <2>1. ASSUME clean, ~(s.freq < to), NEW f \in S PROVE f <= s.freq
    <3>1. f \in Nat
      BY <1>1 DEF There, S
    <3> QED
      BY <1>1, <1>4, <1>6, <2>1, <3>1
  <2>2. ~(s.freq < to) => list = s.found
    BY DEF list, adds
  <2> QED
    BY <1>3, <2>1, <2>2 DEF Found
<1>11. /\ t.start = s.start /\ t.last = s.freq /\ t.freq = to /\ t.found = list
       /\ t.seen = FALSE /\ t.failed = s.failed /\ t.ended = FALSE
  BY <1>2 DEF Scan, t
<1>12. t \in Scan
  BY <1>2, <1>1, <1>7 DEF Scan, t
<1>13. s.freq < to => to >= s.start
  BY <1>1, <1>3, <1>5
<1>14. s.freq < to => to \in Stations
  BY <1>1
<1>15. ~t.failed => clean
  BY <1>11 DEF clean
<1>16. ScanSoFar(t)
  <2>1. ~t.failed /\ ~t.seen =>
          IF t.last < t.freq
          THEN /\ t.freq = t.start - Spacing \/ t.freq \in Stations
               /\ Found(t.found, {f \in There(t.start) : f <= t.freq})
          ELSE Found(t.found, There(t.start))
    BY <1>9, <1>10, <1>11, <1>14, <1>15 DEF S
  <2>2. /\ t.start >= 8750 /\ OnChannel(t.start)
        /\ \A i \in DOMAIN t.found : t.found[i] \in There(t.start)
        /\ \A i, j \in DOMAIN t.found : i < j => t.found[i] < t.found[j]
    BY <1>3, <1>8, <1>11 DEF S
  <2>3. t.last < t.freq => /\ \A i \in DOMAIN t.found : t.found[i] <= t.freq
                           /\ t.freq = t.start - Spacing \/ t.freq >= t.start
    BY <1>8, <1>11, <1>13
  <2>4. ~t.ended /\ ~t.seen
    BY <1>11
  <2> QED
    BY <2>1, <2>2, <2>3, <2>4 DEF ScanSoFar
<1> QED
  BY <1>11, <1>12, <1>16 DEF list, t, adds

\* A seek that fails is tried again one channel on.
LEMMA ScanMisses ==
  ASSUME NEW s \in Scan, ScanSoFar(s), s.last < s.freq, s.ended = FALSE
  PROVE  LET t == [s EXCEPT !.last = s.freq, !.freq = s.freq + Spacing, !.failed = TRUE]
         IN  t \in Scan /\ ScanSoFar(t) /\ ~t.seen
<1> DEFINE t == [s EXCEPT !.last = s.freq, !.freq = s.freq + Spacing, !.failed = TRUE]
<1>1. /\ s.start \in Nat /\ s.last \in Nat /\ s.freq \in Nat /\ s.found \in Seq(Nat)
      /\ Spacing \in Nat \ {0}
  BY Channels DEF Scan
<1>2. t \in Scan
  <2>1. s.freq + Spacing \in Nat
    BY <1>1
  <2> QED
    BY <2>1, <1>1 DEF Scan
<1>3. /\ t.start = s.start /\ t.last = s.freq /\ t.freq = s.freq + Spacing /\ t.found = s.found
      /\ t.seen = s.seen /\ t.failed = TRUE /\ t.ended = s.ended
  BY DEF Scan
<1> HIDE DEF t
<1>4. ~t.seen /\ ~t.ended /\ t.failed
  BY <1>3 DEF ScanSoFar, Scan
<1>5. /\ t.start >= 8750 /\ OnChannel(t.start)
      /\ \A i \in DOMAIN t.found : t.found[i] \in There(t.start)
      /\ \A i, j \in DOMAIN t.found : i < j => t.found[i] < t.found[j]
  BY <1>3 DEF ScanSoFar
<1>6. /\ \A i \in DOMAIN s.found : s.found[i] <= s.freq
      /\ s.freq = s.start - Spacing \/ s.freq >= s.start
  BY DEF ScanSoFar
<1>7. \A i \in DOMAIN t.found : t.found[i] <= t.freq
  <2>1. \A i \in DOMAIN s.found : s.found[i] \in Nat
    BY <1>1
  <2> QED
    BY <1>1, <1>3, <1>6, <2>1
<1>8. t.freq >= t.start
  BY <1>1, <1>3, <1>6
<1> QED
  BY <1>2, <1>4, <1>5, <1>7, <1>8 DEF ScanSoFar, t

LEMMA ScanSeekStep == ASSUME FmInv, Fm!ScanSeek PROVE FmInv'
<1>1. PICK ok \in BOOLEAN :
        LET from == fmSearch.freq + Spacing
            to   == IF ok THEN Fm!COM_seek(from, 0) ELSE from
        IN  /\ Fm!Ioctl(ok, [chip EXCEPT !.freq = to])
            /\ fmSearch' = [fmSearch EXCEPT
                 !.last = fmSearch.freq, !.freq = to, !.failed = fmSearch.failed \/ ~ok,
                 !.found = IF ok /\ fmSearch.freq < to /\ Fm!Kept(to) THEN Append(@, to) ELSE @]
  BY DEF Fm!ScanSeek
<1>2. /\ fmSearch \in Scan /\ (Fm!DriverAgrees => ScanSoFar(fmSearch))
      /\ fmSearch.last < fmSearch.freq /\ fmSearch.ended = FALSE /\ fmSearch.seen = FALSE
      /\ fmSearch.failed \in BOOLEAN
  BY DEF Fm!ScanSeek, FmInv, FmScan, Scan
<1>3. fmSearch' \in Scan /\ ~fmSearch'.seen
  <2> DEFINE from == fmSearch.freq + Spacing
             to   == IF ok THEN Fm!COM_seek(from, 0) ELSE from
             list == IF ok /\ fmSearch.freq < to /\ Fm!Kept(to) THEN Append(fmSearch.found, to)
                     ELSE fmSearch.found
  <2>1. fmSearch.freq \in Nat /\ fmSearch.found \in Seq(Nat) /\ from \in Nat
    BY <1>2, Channels DEF Scan
  <2>2. Fm!COM_seek(from, 0) \in Nat
    <3> DEFINE upward == Fm!FM_SEEK_DOWN = DriverUp
    <3>1. Fm!COM_seek(from, 0) = Fm!NextStation(from, upward)
      BY DEF Fm!COM_seek
    <3>2. upward \in BOOLEAN /\ from \in Int
      BY <2>1
    <3>4. Stations = {} => Fm!NextStation(from, upward) = 0
      BY DEF Fm!NextStation
    <3> HIDE DEF upward, from
    <3>3. Stations # {} => Fm!NextStation(from, upward) \in Stations
      BY <3>2, NextStationIs
    <3>5. Fm!NextStation(from, upward) \in Nat
      <4>1. \A s \in Stations : s \in Nat
        BY Channels
      <4>2. CASE Stations = {}
        BY <3>4, <4>2
      <4>3. CASE Stations # {}
        BY <3>3, <4>1, <4>3
      <4> QED
        BY <4>2, <4>3
    <3> QED
      BY <3>1, <3>5
  <2>3. to \in Nat /\ list \in Seq(Nat)
    <3> HIDE DEF from
    <3>1. to \in Nat
      BY <2>1, <2>2
    <3> HIDE DEF to
    <3> QED
      BY <2>1, <3>1
  <2> HIDE DEF list, to
  <2>4. fmSearch' = [fmSearch EXCEPT !.last = fmSearch.freq, !.freq = to,
                                     !.failed = fmSearch.failed \/ ~ok, !.found = list]
    BY <1>1 DEF list, to
  <2> HIDE DEF from
  <2> QED
    BY <1>2, <2>1, <2>3, <2>4 DEF Scan
<1>30. ASSUME Fm!DriverAgrees PROVE ScanSoFar(fmSearch')
  <2>1. ScanSoFar(fmSearch)
    BY <1>2, <1>30
  <2>2. CASE ok
    <3> DEFINE to == Fm!NextStation(fmSearch.freq + Spacing, TRUE)
    <3>0. Fm!COM_seek(fmSearch.freq + Spacing, 0) = to
      BY <1>30 DEF Fm!COM_seek, Fm!DriverAgrees, Fm!FM_SEEK_UP, Fm!FM_SEEK_DOWN
    <3>1. fmSearch' = [fmSearch EXCEPT !.last = fmSearch.freq, !.freq = to,
             !.found = IF fmSearch.freq < to /\ Fm!Kept(to) THEN Append(@, to) ELSE @]
      <4> HIDE DEF to
      <4> QED
        BY <1>1, <1>2, <2>2, <3>0 DEF Scan
    <3>2. fmSearch.freq + Spacing \in Nat
      BY <1>2, Channels DEF Scan
    <3>3. /\ to \in Nat /\ (to = 0 \/ to \in Stations)
          /\ \A f \in Stations : f >= fmSearch.freq + Spacing =>
                                  fmSearch.freq + Spacing <= to /\ to <= f
      BY <3>2, NextAhead
    <3> HIDE DEF to
    <3> QED
      BY <1>2, <2>1, <3>1, <3>3, ScanFinds
  <2>3. CASE ~ok
    <3>1. fmSearch' = [fmSearch EXCEPT !.last = fmSearch.freq, !.freq = fmSearch.freq + Spacing,
                                       !.failed = TRUE]
      BY <1>1, <1>2, <2>3 DEF Scan
    <3> QED
      BY <1>2, <2>1, <3>1, ScanMisses
  <2> QED
    BY <2>2, <2>3
<1>4. chip' = chip \/ \E v : chip' = [chip EXCEPT !.freq = v]
  BY <1>1 DEF Fm!Ioctl
<1>5. IsChip(chip') /\ ValuesKept(chip, chip')
  BY <1>4 DEF FmInv, IsChip, ChipFields, ValuesKept
<1> QED
  BY <1>3, <1>30, <1>5, ScanGoesOn DEF Fm!ScanSeek

\* What a scan has found is what is said of its list.
LEMMA ScanAnswersStep == ASSUME FmInv, Fm!ScanAnswers PROVE FmInv'
<1> DEFINE s    == fmSearch
           back == scan_stop /\ s.found # <<>>
           S    == There(s.start)
<1>1. PICK ok \in BOOLEAN :
        /\ back \/ ok
        /\ Fm!TunesBack(ok, back, Fm!StaysInSearch(s.found))
        /\ fmResult' = [call |-> "autoScan", start |-> s.start, value |-> Fm!Given(s.found),
                        stopped |-> scan_stop, seen |-> s.seen, failed |-> s.failed \/ ~ok]
  BY DEF Fm!ScanAnswers
<1>2. /\ s \in Scan /\ (Fm!DriverAgrees => ScanSoFar(s)) /\ s.ended
      /\ s.seen /\ ~s.failed => chip.freq = cur_freq
  BY DEF Fm!ScanAnswers, FmInv, FmScan
<1>3. /\ fmSearch' = Fm!None /\ UNCHANGED <<bridge, cfg_data, cur_freq, rds, asked, settled>>
  BY DEF Fm!ScanAnswers
<1>4. /\ fmResult'.call = "autoScan" /\ fmResult'.start = s.start
      /\ fmResult'.value = Fm!Given(s.found)
      /\ fmResult'.stopped = scan_stop /\ fmResult'.seen = s.seen
      /\ fmResult'.failed = (s.failed \/ ~ok)
  BY <1>1
<1>5. /\ s.found \in Seq(Nat) /\ s.start \in Nat /\ s.last \in Nat /\ s.freq \in Nat
      /\ s.seen \in BOOLEAN /\ s.failed \in BOOLEAN
  BY <1>2 DEF Scan
<1>6. /\ IsChip(chip') /\ ~chip'.searching
      /\ chip'.freq = IF ok /\ back THEN cur_freq ELSE chip.freq
  BY <1>1 DEF Fm!TunesBack, Fm!StaysInSearch, FmInv, IsChip, ChipFields
<1>7. Fm!ScanReturns'
  <2>1. DOMAIN fmResult'.value # {} => s.found # <<>>
    BY <1>4 DEF Fm!Given, Fm!ShortsOf
  <2>2. ~fmResult'.failed /\ Fm!StopMet' => chip'.freq = cur_freq
    BY <1>2, <1>4, <1>5, <1>6, <2>1 DEF Fm!StopMet
  <2> QED
    BY <1>3, <1>6, <2>2 DEF Fm!ScanReturns, FmInv, Fm!ReceiverKept
<1>8. ASSUME Fm!DriverAgrees PROVE Fm!ScanExact'
  <2>1. /\ \A i \in DOMAIN s.found : s.found[i] \in S
        /\ \A i, j \in DOMAIN s.found : i < j => s.found[i] < s.found[j]
    BY <1>2, <1>8 DEF ScanSoFar
  <2>2. s.failed \/ s.seen \/ \A f \in S : \E i \in DOMAIN s.found : s.found[i] = f
    BY <1>2, <1>5, <1>8 DEF ScanSoFar, Found
  <2>3. DOMAIN Fm!Given(s.found) = DOMAIN s.found
    BY DEF Fm!Given, Fm!ShortsOf
  <2> DEFINE there(start) == {x \in Stations : x >= start /\ Fm!Kept(x)}
  <2>4. \A f : Fm!SevereDesense(f)' = Fm!SevereDesense(f)
    BY <1>3, Zenon DEF Fm!SevereDesense
  <2>5. \A f : Fm!Kept(f)' = Fm!Kept(f)
    BY <2>4 DEF Fm!Kept
  <2>6. \A start : there(start)' = there(start)
    BY <2>5
  <2>7. \A list : Fm!Given(list)' = Fm!Given(list)
    BY <1>3 DEF Fm!Given
  <2>8. there(s.start) = S
    BY DEF There
  <2>9. PICK list : list = s.found
    OBVIOUS
  <2>10. /\ list \in [DOMAIN fmResult'.value -> S]
         /\ fmResult'.value = Fm!Given(list)
         /\ \A i, j \in DOMAIN list : i < j => list[i] < list[j]
         /\ fmResult'.failed \/ fmResult'.seen \/ \A f \in S : \E i \in DOMAIN list : list[i] = f
    <3> HIDE DEF S
    <3>1. list \in [DOMAIN list -> S]
      BY <1>5, <2>1, <2>9
    <3> QED
      BY <1>4, <1>5, <2>1, <2>2, <2>3, <2>9, <3>1
  <2>11. there(fmResult.start)' = S
    BY <1>4, <2>6, <2>8
  <2>12. fmResult'.value = Fm!Given(list)'
    BY <2>7, <2>10
  <2> HIDE DEF there, S
  <2>13. \E l \in [DOMAIN fmResult.value -> there(fmResult.start)]' :
           /\ (fmResult.value = Fm!Given(l))'
           /\ \A i, j \in DOMAIN l : i < j => l[i] < l[j]
           /\ fmResult'.failed \/ fmResult'.seen
                \/ \A f \in there(fmResult.start)' : \E i \in DOMAIN l : l[i] = f
    BY <2>10, <2>11, <2>12
  <2> QED
    BY <2>13 DEF Fm!ScanExact, there
<1>9. Fm!SeekExact' /\ Fm!AnswersSound'
  BY <1>4 DEF Fm!SeekExact, Fm!AnswersSound
<1>10. FmScan'
  BY <1>3 DEF FmScan
<1> QED
  BY <1>3, <1>6, <1>7, <1>8, <1>9, <1>10 DEF FmInv, Fm!ReceiverKept

LEMMA FmStarts == ASSUME Fm!Init PROVE FmInv
<1>1. /\ fmSearch = Fm!None /\ fmResult = Fm!None /\ ~chip.searching /\ ~settled
      /\ IsChip(chip) /\ {"ps", "rt"} \subseteq DOMAIN rds
  BY DEF Fm!Init, IsChip, ChipFields
<1>2. Fm!ScanExact /\ Fm!SeekExact /\ Fm!ScanReturns /\ Fm!AnswersSound
  BY <1>1 DEF Fm!ScanExact, Fm!SeekExact, Fm!ScanReturns, Fm!AnswersSound
<1> QED
  BY <1>1, <1>2 DEF FmInv, FmScan, Fm!ReceiverKept

LEMMA FmNext == ASSUME FmInv, Fm!Next PROVE FmInv'
<1>1. \/ Fm!OpenDev \/ Fm!CloseDev \/ Fm!NativePowerUp \/ Fm!NativePowerDown \/ Fm!Tune
      \/ Fm!SetRds \/ Fm!ReadRds \/ Fm!GetPs \/ Fm!GetLrText
      \/ Fm!GetRssi \/ Fm!GetSnr \/ Fm!GetBler \/ Fm!NativeActiveAf
      \/ Fm!SupportAsked \/ Fm!SetTuneParm \/ Fm!GetTuneParm \/ Fm!SetAudioParm
      \/ Fm!GetAudioParm \/ Fm!WriteRegParm \/ Fm!ReadRegParm \/ Fm!SetMute
      \/ Fm!SetStep \/ Fm!SwitchAntenna
      \/ Fm!Seek \/ Fm!AutoScan \/ Fm!ScanSeek \/ Fm!ScanAnswers
      \/ Fm!ScanStopped \/ Fm!ScanEnds \/ Fm!StopScan
  BY DEF Fm!Next
<1> QED
  BY <1>1, PowerStep, RdsStep, ValueStep, ActiveAfStep, SettingStep, SeekStep, AutoScanStep,
     ScanSeekStep, ScanAnswersStep, ScanPauses

LEMMA FmInvHolds == SuiteSpec => []FmInv
<1>1. SuiteInit => FmInv
  <2>1. SuiteInit => Fm!Init
    BY DEF SuiteInit
  <2> QED
    BY <2>1, FmStarts
<1>2. FmInv /\ [SuiteNext]_suiteVars => FmInv'
  <2>1. ASSUME FmInv, UNCHANGED fmVars PROVE FmInv'
    <3>1. UNCHANGED <<fmResult, bridge, cfg_data, cur_freq, asked, settled, rds, chip, fmSearch>>
      BY <2>1 DEF fmVars
    <3>2. (Fm!DriverAgrees => Fm!ScanExact' /\ Fm!SeekExact') /\ Fm!AnswersSound'
      BY <2>1, <3>1, ResultKept DEF ValuesKept
    <3>3. Fm!ScanReturns'
      BY <2>1, <3>1 DEF Fm!ScanReturns, Fm!StopMet, FmInv, Fm!ReceiverKept
    <3>4. FmScan'
      <4>1. fmSearch # Fm!None => fmSearch \in Scan /\ (Fm!DriverAgrees => ScanSoFar(fmSearch)')
        BY <2>1, <3>1, SoFarKept DEF FmInv, FmScan
      <4> QED
        BY <2>1, <3>1, <4>1 DEF FmInv, FmScan
    <3> QED
      BY <2>1, <3>1, <3>2, <3>3, <3>4 DEF FmInv, Fm!ReceiverKept
  <2>2. [SuiteNext]_suiteVars => Fm!Next \/ UNCHANGED fmVars
    BY DEF SuiteNext, Still, suiteVars
  <2> QED
    BY <2>1, <2>2, FmNext
<1> QED
  BY <1>1, <1>2, PTL DEF SuiteSpec

\* Below a driver that takes directions as the library does, a scan that ran to its end without
\* failures has found what can be received, in order, and a seek passes over no station in the
\* direction asked for; whatever the driver, a scan that is over has left the search mode, and
\* one whose loop saw a stop, or that was stopped and found something, has turned back
\* (FMR_seek, FMR_seek_Channels and the two bridges).
THEOREM ReceiverHolds == SuiteSpec => []ReceiverKept
<1>1. FmInv => ReceiverKept
  BY DEF FmInv, ReceiverKept
<1> QED
  BY <1>1, FmInvHolds, PTL
=============================================================================
