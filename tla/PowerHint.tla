----------------------------- MODULE PowerHint -----------------------------
(***************************************************************************)
(* Scene hints of the power HAL: power/4.0/default/Power.cpp (3.0 and 2.0  *)
(* hold the same code).                                                    *)
(*                                                                         *)
(* A client asks for a scene with a token, a binder object of its own.     *)
(* Calls are oneway: they wait in one queue, outlive their sender, and are *)
(* run one at a time.  The death of a client is reported on another        *)
(* thread, one serviceDied() per linked request.  Both run entirely under  *)
(* mPowerHintRequestsLock, so each is one step.                            *)
(***************************************************************************)
EXTENDS Integers, Sequences, FiniteSets

CONSTANTS
  Tokens,        \* clients' binder objects; a token stands for its handle too
  Scenes,        \* scene ids
  MaxCalls       \* bound: oneway calls sent

ASSUME CallsAssumption == MaxCalls \in Nat

VARIABLES
  mPowerHintRequests,   \* the tokens that hold each scene
  linked,               \* <<token, scene>> whose death recipient is registered
  hint,                 \* the value last given to the power module, 1 or 0
  queue,                \* oneway calls not yet run
  calls,
  alive,                \* tokens whose process lives
  mObitsSent,           \* tokens whose proxy has reported the death (libhwbinder)
  obits                 \* serviceDied() calls still to be made

vars == <<mPowerHintRequests, linked, hint, queue, calls, alive, mObitsSent, obits>>

Call == [op : {"acquire", "release"}, token : Tokens, scene : Scenes]

Init ==
  /\ mPowerHintRequests = [s \in Scenes |-> {}]
  /\ linked = {}
  /\ hint = [s \in Scenes |-> 0]
  /\ queue = <<>>
  /\ calls = 0
  /\ alive = Tokens
  /\ mObitsSent = {}
  /\ obits = {}

---------------------------------------------------------------------------
(* Clients (external). *)

Send(c) ==
  /\ calls < MaxCalls
  /\ c.token \in alive
  /\ queue' = Append(queue, c)
  /\ calls' = calls + 1
  /\ UNCHANGED <<mPowerHintRequests, linked, hint, alive, mObitsSent, obits>>

Die(t) ==
  /\ t \in alive
  /\ alive' = alive \ {t}
  /\ UNCHANGED <<mPowerHintRequests, linked, hint, queue, calls, mObitsSent, obits>>

---------------------------------------------------------------------------
(* The HAL. *)

Holders(s) == mPowerHintRequests[s]

\* A proxy that has reported the death of its object links nobody any more;
\* the answer of linkToDeath is not looked at.
LinksFirst(t) == t \notin mObitsSent /\ \A s \in Scenes : <<t, s>> \notin linked
Links(t)      == t \notin mObitsSent

\* The first holder of a scene turns its hint on; asking again changes nothing.
CountedHint(s)  == hint[s] + 1
HintIfFirst(s)  == IF Holders(s) = {} THEN 1 ELSE hint[s]

acquirePowerHintBySceneId(t, s) ==
  IF t \in Holders(s)
    THEN UNCHANGED <<mPowerHintRequests, linked, hint>>
    ELSE /\ mPowerHintRequests' = [mPowerHintRequests EXCEPT ![s] = @ \cup {t}]
         /\ linked' = IF Links(t) THEN linked \cup {<<t, s>>} ELSE linked
         /\ hint' = [hint EXCEPT ![s] = HintIfFirst(s)]

\* The last holder's release turns the hint off.
HintOff(t, s)    == 0
HintIfLast(t, s) == IF Holders(s) = {t} THEN 0 ELSE hint[s]

\* The proxy of a token goes away with the last request that holds it.
StillHeld(t, s) == \E r \in Scenes \ {s} : t \in Holders(r)

releasePowerHintBySceneId(t, s) ==
  IF t \notin Holders(s)
    THEN UNCHANGED <<mPowerHintRequests, linked, hint, mObitsSent>>
    ELSE /\ mPowerHintRequests' = [mPowerHintRequests EXCEPT ![s] = @ \ {t}]
         /\ linked' = linked \ {<<t, s>>}
         /\ hint' = [hint EXCEPT ![s] = HintIfLast(t, s)]
         /\ mObitsSent' = IF StillHeld(t, s) THEN mObitsSent ELSE mObitsSent \ {t}

RunCall ==
  /\ queue # <<>>
  /\ queue' = Tail(queue)
  /\ LET c == Head(queue)
     IN  \/ /\ c.op = "acquire"
            /\ acquirePowerHintBySceneId(c.token, c.scene)
            /\ UNCHANGED mObitsSent
         \/ /\ c.op = "release"
            /\ releasePowerHintBySceneId(c.token, c.scene)
  /\ UNCHANGED <<calls, alive, obits>>

\* The kernel reports the death; each recipient linked by now will be told.
ReportDeath(t) ==
  /\ t \notin alive \cup mObitsSent
  /\ \E s \in Scenes : <<t, s>> \in linked
  /\ mObitsSent' = mObitsSent \cup {t}
  /\ obits' = obits \cup {l \in linked : l[1] = t}
  /\ UNCHANGED <<mPowerHintRequests, linked, hint, queue, calls, alive>>

\* PowerHintRequest::serviceDied.
ForgetsRequest(t, s) == UNCHANGED <<mPowerHintRequests, linked, hint, mObitsSent>>
OnServiceDied(t, s)  == releasePowerHintBySceneId(t, s)

serviceDied(t, s) ==
  /\ <<t, s>> \in obits
  /\ obits' = obits \ {<<t, s>>}
  /\ OnServiceDied(t, s)
  /\ UNCHANGED <<queue, calls, alive>>

\* Nothing is left to do for the HAL, and the clients have used up their calls.
Quiet ==
  /\ queue = <<>> /\ obits = {} /\ (calls = MaxCalls \/ alive = {})
  /\ UNCHANGED vars

Next ==
  \/ \E c \in Call : Send(c)
  \/ \E t \in Tokens : Die(t) \/ ReportDeath(t)
  \/ \E t \in Tokens, s \in Scenes : serviceDied(t, s)
  \/ RunCall
  \/ Quiet

Spec == Init /\ [][Next]_vars

---------------------------------------------------------------------------
TypeOK ==
  /\ mPowerHintRequests \in [Scenes -> SUBSET Tokens]
  /\ linked \subseteq Tokens \X Scenes
  /\ hint \in [Scenes -> {0, 1}]
  /\ queue \in Seq(Call)
  /\ calls \in 0..MaxCalls
  /\ alive \subseteq Tokens
  /\ mObitsSent \subseteq Tokens
  /\ obits \subseteq Tokens \X Scenes

\* The hint of a scene is on exactly while some client holds the scene, however
\* acquisitions, releases and deaths of several clients interleave.
HintFollowsRequests == \A s \in Scenes : hint[s] = 1 <=> Holders(s) # {}

\* Only the request of a dead client can be without a death recipient: a hint held
\* by a client that still lives ends with it at the latest.
LiveHoldersLinked ==
  \A s \in Scenes : \A t \in Holders(s) : t \in alive => <<t, s>> \in linked

\* A request does not outlive a client whose death was reported: each that is still linked
\* has its own notice under way, however acquisitions, releases and notices interleave.
DeadHoldersLeave ==
  \A l \in linked : l[1] \in mObitsSent => l \in obits
=============================================================================
