----------------------------- MODULE EffectOnce -----------------------------
(***************************************************************************)
(* What the worker promises of an external effect it may not repeat: the   *)
(* effect is preceded by a stored intent, requested at most once, and      *)
(* recorded as confirmed only when it has happened.  When the outcome      *)
(* stays unknown the intent says so, for good.  The worker's components    *)
(* that call an external service implement this specification, each with   *)
(* its own intent document.                                                *)
(***************************************************************************)
EXTENDS Naturals

VARIABLES
  intent,    \* the stored intent
  requested, \* the requests issued, numbered from 1
  effects    \* the requests that took effect

effectVars == <<intent, requested, effects>>

EffectInit ==
  /\ intent = "none"
  /\ requested = 0
  /\ effects = {}

Prepare ==
  /\ intent = "none"
  /\ intent' = "prepared"
  /\ UNCHANGED <<requested, effects>>

(* Some intents are stored as dispatched at once. *)
Dispatch ==
  /\ intent \in {"none", "prepared"}
  /\ intent' = "dispatched"
  /\ UNCHANGED <<requested, effects>>

Issue ==
  /\ intent = "dispatched"
  /\ requested = 0
  /\ requested' = 1
  /\ UNCHANGED <<intent, effects>>

(* The service may act on a request long after the worker gave up on it. *)
TakeEffect ==
  /\ requested = 1
  /\ effects' = {1}
  /\ UNCHANGED <<intent, requested>>

Confirm ==
  /\ intent = "dispatched"
  /\ effects # {}
  /\ intent' = "confirmed"
  /\ UNCHANGED <<requested, effects>>

GiveUp ==
  /\ intent = "dispatched"
  /\ intent' = "unknown"
  /\ UNCHANGED <<requested, effects>>

EffectNext ==
  Prepare \/ Dispatch \/ Issue \/ TakeEffect \/ Confirm \/ GiveUp

EffectSpec == EffectInit /\ [][EffectNext]_effectVars

-----------------------------------------------------------------------------

(* At most one effect; none without an intent on disk; none confirmed that *)
(* did not happen.                                                         *)
EffectSafe ==
  /\ \A m, n \in effects : m = n
  /\ effects # {} => intent \in {"dispatched", "confirmed", "unknown"}
  /\ intent = "confirmed" => effects # {}

(* A settled intent stays as it is. *)
SettledIsFinal ==
  [][(intent \in {"confirmed", "unknown"}) => (intent' = intent)]_effectVars
=============================================================================
