---------------------------- MODULE CheckoutProofs ----------------------------
(***************************************************************************)
(* The checkout of a run, proved for any number of runs, clocks and ids.   *)
(*                                                                         *)
(* The first part is about CheckoutContinuation: a turn is resumed on a    *)
(* credited checkout only, a run that is canceled stays quiet, and the     *)
(* continuation implements EffectOnce.  The second is about the intents    *)
(* of the payment provider (ProviderIntents): every mutation implements    *)
(* EffectOnce, and a cleanup that reports retained records only has left   *)
(* no subscription running.                                                *)
(***************************************************************************)
EXTENDS CheckoutContinuation, ProviderIntents, RunStoreProofs

(* Where a frame may stand. *)
Label ==
  {"idle", "binding", "poll", "credit", "record", "window", "arm", "dispatch", "latest",
   "answer", "find", "commit", "confirmed", "watch", "failed", "end"}
  \cup {"revoke", "account", "cleanup", "cancel", "clear"}
  \cup {"recover", "reconcile", "stop", "close", "armed", "recovered"}

Cursor == [turn : Turn, status : {"waiting", "running", "done", "error"}]

CheckoutTypeOK ==
  /\ checkout \in Checkout
  /\ external \in External
  /\ runtime \in Cursor
  /\ pc \in [Frame -> Label]
  /\ saved \in Checkout
  /\ sent \in Turn

(* What continueCheckout knows of the stored continuation, by where it     *)
(* stands: up to the dispatch its copy is the stored one, and from then on *)
(* the dispatch is on record.                                              *)
CallKnows ==
  /\ pc["resume"] \in {"binding", "poll", "credit", "record", "window", "arm", "dispatch"} =>
       saved = checkout
  /\ pc["resume"] = "binding" => checkout.status \in {"none", "observed", "dispatched"}
  /\ pc["resume"] = "poll" => checkout.status = "none"
  /\ pc["resume"] \in {"credit", "record", "window", "arm"} =>
       checkout.status \in {"observed", "dispatched"}
  /\ pc["resume"] = "dispatch" => checkout.status = "observed"
  /\ pc["resume"] \in {"latest", "answer", "find", "commit"} => checkout.status = "dispatched"
  /\ pc["resume"] = "latest" => sent = 0
  /\ pc["resume"] = "commit" => saved.turn \in turns

(* Only a dispatched continuation has a request, and only a request a turn.*)
WireKnows ==
  /\ sent \in {0, 1}
  /\ net \subseteq 1..sent
  /\ turns \subseteq 1..sent
  /\ checkout.status \in {"none", "observed"} => sent = 0
  /\ checkout.status = "confirmed" => checkout.turn \in turns
  /\ runtime.turn # 0 => checkout.status = "confirmed" /\ checkout.turn = runtime.turn

(* The credit comes before its marker, and the marker before the dispatch. *)
CreditKnows ==
  /\ external.startedAt = WaitSince /\ WaitSince <= now
  /\ external.status = "credited" => Waited # NoCredit
  /\ pc["resume"] = "record" => Waited # NoCredit
  /\ pc["resume"] \in {"window", "arm", "dispatch", "latest", "answer", "find", "commit"} =>
       external.status = "credited"

(* Calls are served only while the worker is up, and recovery comes first. *)
Serving ==
  /\ pc["resume"] # "idle" => worker = "up"
  /\ pc["boot"] # "idle" => worker = "recovering"
  /\ worker = "down" => pc["stop"] = "idle"
  /\ pc["boot"] = "reconcile" => checkout.status = "dispatched"

(* A stop at work has the store's word for it, revokes the capability      *)
(* first, and goes on only when no continuation is at work; none begins    *)
(* any more, then or after the run is canceled.                            *)
StopKnows ==
  /\ pc["stop"] # "idle" => Status \in {"stopping", "canceled"}
  /\ pc["stop"] \in {"account", "cleanup", "cancel", "clear"} => ~ token
  /\ pc["stop"] \in {"cleanup", "cancel", "clear"} => pc["resume"] = "idle"
  /\ Status = "canceled" => ~ token /\ pc["resume"] = "idle"

WorkInv ==
  /\ CheckoutTypeOK
  /\ CallKnows /\ WireKnows /\ CreditKnows /\ ResumedIsCredited /\ Serving /\ StopKnows

(* The inductive invariant of the continuation, with the store's own.      *)
CheckoutInv == StoreInv /\ WorkInv

-----------------------------------------------------------------------------
(* The store: every step of the worker is a transaction of RunStore or     *)
(* leaves the store alone.                                                 *)

LEMMA RunInStore == run \in RunId /\ wait \in WaitId
  BY CheckoutAssumption

LEMMA Constants ==
  0 \in Turn /\ NoCheckout \in Checkout /\ WaitSince \in Nat
  BY CheckoutAssumption, StoreAssumption DEF Turn, NoCheckout, Checkout

(* Nothing that the credit rests on has changed. *)
CreditKept ==
  now' = now /\ runs'[run].startedAt = runs[run].startedAt /\ Waited' = Waited

LEMMA StoreUntouched ==
  ASSUME UNCHANGED storeVars PROVE Status' = Status /\ CreditKept
  BY DEF storeVars, Status, CreditKept, Waited

LEMMA StopRequested ==
  ASSUME StoreTypeOK, Status = "running" \/ PastDeadline, RequestStop(run)
  PROVE  Status = "running" /\ Status' = "stopping" /\ CreditKept
  BY RunInStore, RequestStopEffect DEF Status, PastDeadline, RequestStop, CreditKept, Waited

LEMMA RunCanceled ==
  ASSUME StoreTypeOK, CancelRun(run)
  PROVE  Status' = "canceled" /\ CreditKept
  BY RunInStore, CancelRunEffect DEF Status, CancelRun, CreditKept, Waited

LEMMA RunFinished ==
  ASSUME StoreTypeOK, NEW verdicts \in VerdictLists, FinishRun(run, verdicts)
  PROVE  Status = "running" /\ Status' = "completed" /\ CreditKept
  BY RunInStore, FinishRunEffect DEF Status, FinishRun, CreditKept, Waited

LEMMA CreditEffect ==
  ASSUME StoreTypeOK, NEW s \in Nat, NEW e \in Nat, CreditExternalWait(run, wait, s, e)
  PROVE  /\ Waited = NoCredit /\ Waited' = [startedAt |-> s, endedAt |-> e]
         /\ Status = "running" /\ Status' = Status
         /\ s <= e /\ e <= now /\ now' = now
         /\ runs[run].startedAt \in Nat
         /\ runs'[run].startedAt = runs[run].startedAt + (e - s)
<1> DEFINE new == [runs[run] EXCEPT !.startedAt = runs[run].startedAt + (e - s)]
<1>1. /\ runs[run] \in Run /\ runs[run].startedAt \in Nat
      /\ s <= e
  BY RunInStore DEF StoreTypeOK, Run, Time, None, CreditExternalWait
<1>2. /\ new \in Run
      /\ new.status = runs[run].status
      /\ new.startedAt = runs[run].startedAt + (e - s)
  BY <1>1 DEF Run, Time
<1>3. SaveRun(run, new)
  BY DEF CreditExternalWait
<1> HIDE DEF new
<1>4. /\ runs'[run].status = new.status /\ runs'[run].startedAt = new.startedAt
  BY <1>2, <1>3, RunInStore, SavedFields
<1>5. Waited' = [startedAt |-> s, endedAt |-> e]
  <2>1. <<run, wait>> \in RunId \X WaitId  BY RunInStore
  <2> QED  BY <2>1 DEF CreditExternalWait, StoreTypeOK, Waited
<1> QED
  BY <1>1, <1>2, <1>4, <1>5 DEF CreditExternalWait, Waited, Status

-----------------------------------------------------------------------------
(* Control: a step moves one frame, and may start the stop. *)

StopStarts == pc["stop"] = "idle" /\ pc'["stop"] = "revoke" /\ Status' = "stopping"

Moves(f, at) ==
  /\ pc' \in [Frame -> Label]
  /\ pc'[f] = at
  /\ \A g \in {"resume", "boot"} \ {f} : pc'[g] = pc[g]
  /\ f # "stop" /\ pc'["stop"] # pc["stop"] => StopStarts

LEMMA ContinueMoves ==
  ASSUME CheckoutTypeOK, NEW f \in Frame, NEW at \in Label, Continue(f, at)
  PROVE  Moves(f, at)
  BY DEF CheckoutTypeOK, Continue, Moves, Frame

LEMMA AwaitMoves ==
  ASSUME CheckoutTypeOK, NEW f \in Frame, NEW at \in Label, Await(f, at)
  PROVE  Moves(f, at)
  BY DEF CheckoutTypeOK, Await, Moves, Frame

LEMMA StartStopMoves ==
  ASSUME CheckoutTypeOK, NEW f \in Frame \ {"stop"}, NEW at \in Label, NEW status,
         status = "stopping" => Status' = "stopping", StartStop(f, at, status)
  PROVE  Moves(f, at)
<1>1. CASE status = "stopping" /\ pc["stop"] = "idle"
  <2> DEFINE moved == [pc EXCEPT ![f] = at]
  <2>1. /\ moved \in [Frame -> Label]
        /\ moved[f] = at
        /\ \A g \in Frame \ {f} : moved[g] = pc[g]
    BY DEF CheckoutTypeOK
  <2>2. pc' = [moved EXCEPT !["stop"] = "revoke"]
    BY <1>1 DEF StartStop
  <2> HIDE DEF moved
  <2>3. "revoke" \in Label /\ "stop" \in Frame
    BY DEF Label, Frame
  <2> QED
    BY <1>1, <2>1, <2>2, <2>3 DEF Moves, StopStarts, Frame
<1>2. CASE ~ (status = "stopping" /\ pc["stop"] = "idle")
  BY <1>2, AwaitMoves DEF StartStop
<1> QED
  BY <1>1, <1>2

LEMMA ExpireMoves ==
  ASSUME StoreTypeOK, CheckoutTypeOK, NEW f \in Frame \ {"stop"}, NEW at \in Label,
         ExpireDeadline(f, at)
  PROVE  /\ Moves(f, at)
         /\ Status = "running" /\ Status' = "stopping" /\ CreditKept
<1>1. Status = "running" /\ Status' = "stopping" /\ CreditKept
  BY StopRequested DEF ExpireDeadline
<1>2. CASE pc["resume"] = "idle"
  <2>1. StartStop(f, at, "stopping")
    BY <1>2 DEF ExpireDeadline
  <2>2. Moves(f, at)
    BY <1>1, <2>1, StartStopMoves
  <2> QED
    BY <1>1, <2>2
<1>3. CASE pc["resume"] # "idle"
  BY <1>1, <1>3, AwaitMoves DEF ExpireDeadline
<1> QED
  BY <1>1, <1>2, <1>3

-----------------------------------------------------------------------------
(* continueCheckout *)

Marked == {"window", "arm", "dispatch", "latest", "answer", "find", "commit"}

(* What a step of continueCheckout leaves of the control. *)
LEMMA CallServes ==
  ASSUME CheckoutInv, NEW at \in Label, Moves("resume", at),
         worker = "up", worker' = worker, token' = token,
         pc["resume"] # "idle" \/ Status = "running",
         Status' = Status \/ (Status = "running" /\ Status' = "stopping")
  PROVE  Serving' /\ StopKnows'
<1> USE DEF CheckoutInv, WorkInv, StoreInv
<1>1. pc["boot"] = "idle"
  BY DEF Serving
<1>2. pc'["boot"] = "idle" /\ pc'["resume"] = at
  BY <1>1 DEF Moves
<1>3. Serving'
  BY <1>2 DEF Serving
<1>4. pc["stop"] \notin {"cleanup", "cancel", "clear"} /\ Status # "canceled"
  BY DEF StopKnows
<1>5. pc'["stop"] # pc["stop"] => StopStarts
  BY DEF Moves
<1>6. StopKnows'
  BY <1>2, <1>4, <1>5 DEF StopKnows, StopStarts
<1> QED
  BY <1>3, <1>6

(* A step that leaves the documents and the wire alone has only to account *)
(* for what continueCheckout knows afterwards.                             *)
LEMMA CallKeeps ==
  ASSUME CheckoutInv, NEW at \in Label, Moves("resume", at), saved' \in Checkout,
         UNCHANGED <<checkout, external, runtime, wire>>, CallKnows', CreditKept,
         at = "record" => Waited # NoCredit, at \in Marked => external.status = "credited"
  PROVE  CheckoutTypeOK' /\ WireKnows' /\ CreditKnows' /\ ResumedIsCredited'
<1> USE DEF CheckoutInv, WorkInv, StoreInv
<1>1. CheckoutTypeOK'
  BY DEF CheckoutTypeOK, Moves, wire
<1>2. WireKnows'
  BY DEF WireKnows, wire
<1>3. CreditKnows'
  BY DEF CreditKnows, CreditKept, Moves, Marked
<1>4. ResumedIsCredited'
  BY DEF ResumedIsCredited, CreditKept, wire
<1> QED
  BY <1>1, <1>2, <1>3, <1>4

(* The steps of continueCheckout that only look, or lead out of it. *)
LEMMA CallBegins ==
  ASSUME CheckoutInv, CallCheckout
  PROVE  WorkInv'
<1> USE DEF CheckoutInv, WorkInv, StoreInv
<1>1. Moves("resume", "binding") /\ Status' = Status /\ CreditKept
  BY AwaitMoves, StoreUntouched DEF CallCheckout, Frame, Label
<1>2. Serving' /\ StopKnows'
  BY <1>1, CallServes DEF CallCheckout, docs, process, Label
<1>3. CallKnows'
  BY <1>1 DEF CallCheckout, CallKnows, Moves, docs
<1>4. saved' \in Checkout
  BY DEF CallCheckout, CheckoutTypeOK
<1> QED
  BY <1>1, <1>2, <1>3, <1>4, CallKeeps DEF CallCheckout, docs, Label, Marked

(* A step that leaves the documents, the wire and the store alone. *)
LEMMA CallLooks ==
  ASSUME CheckoutInv, NEW at \in Label \ {"idle"}, pc["resume"] # "idle",
         Continue("resume", at) \/ Await("resume", at),
         saved' \in Checkout, UNCHANGED <<storeVars, docs, wire, process>>,
         Moves("resume", at) => CallKnows',
         at = "record" => Waited # NoCredit, at \in Marked => external.status = "credited"
  PROVE  WorkInv'
<1> USE DEF CheckoutInv, WorkInv, StoreInv
<1>1. Moves("resume", at) /\ Status' = Status /\ CreditKept
  BY ContinueMoves, AwaitMoves, StoreUntouched DEF Frame, Label
<1>2. worker = "up" /\ worker' = worker /\ token' = token
  BY DEF Serving, docs, process
<1>3. Serving' /\ StopKnows'
  BY <1>1, <1>2, CallServes
<1> QED
  BY <1>1, <1>3, CallKeeps DEF docs

LEMMA CallStepsLook ==
  ASSUME CheckoutInv,
         \/ Bound \/ CreditRefused \/ Arm \/ Answered \/ PostFails \/ Found \/ Leave
  PROVE  WorkInv'
<1> USE DEF CheckoutInv, WorkInv, StoreInv
<1>1. CASE Bound
  <2>1. CASE runtime.status = "waiting" /\ saved.status = "none"
    BY <1>1, <2>1, CallLooks DEF Bound, Resumed, CallKnows, Moves, docs, wire, memory,
       Marked, CheckoutTypeOK, Label
  <2>2. CASE runtime.status = "waiting" /\ saved.status # "none"
    BY <1>1, <2>2, CallLooks DEF Bound, Resumed, CallKnows, Moves, docs, wire, memory,
       Marked, CheckoutTypeOK, Label
  <2>3. CASE runtime.status # "waiting"
    BY <1>1, <2>3, CallLooks DEF Bound, Resumed, CallKnows, Moves, docs, wire, memory,
       Marked, CheckoutTypeOK, Label
  <2> QED
    BY <2>1, <2>2, <2>3
<1>2. CASE CreditRefused
  BY <1>2, CallLooks DEF CreditRefused, At, CallKnows, Moves, docs, wire, memory,
     Marked, CheckoutTypeOK, Label
<1>3. CASE Arm
  <2>0. external.status = "credited"
    BY <1>3 DEF Arm, Resumed, CreditKnows
  <2>1. CASE Active /\ saved.status = "dispatched"
    BY <1>3, <2>0, <2>1, CallLooks DEF Arm, Resumed, CallKnows, Moves, docs, wire,
       Marked, CheckoutTypeOK, Label
  <2>2. CASE Active /\ saved.status # "dispatched"
    BY <1>3, <2>0, <2>2, CallLooks DEF Arm, Resumed, CallKnows, Moves, docs, wire,
       Marked, CheckoutTypeOK, Label
  <2>3. CASE ~ Active
    BY <1>3, <2>3, CallLooks DEF Arm, Resumed, CallKnows, Moves, docs, wire,
       Marked, CheckoutTypeOK, Label
  <2> QED
    BY <2>1, <2>2, <2>3
<1>4. CASE Answered
  <2>0. external.status = "credited"
    BY <1>4 DEF Answered, Resumed, CreditKnows
  <2> QED
    BY <1>4, <2>0, CallLooks DEF Answered, Resumed, CallKnows, Moves, docs, wire, memory,
       Marked, CheckoutTypeOK, Label
<1>5. CASE PostFails
  <2>0. external.status = "credited"
    BY <1>5 DEF PostFails, Resumed, CreditKnows
  <2> QED
    BY <1>5, <2>0, CallLooks DEF PostFails, Resumed, CallKnows, Moves, docs, wire, memory,
       Marked, CheckoutTypeOK, Label
<1>6. CASE Found
  <2>0. external.status = "credited"
    BY <1>6 DEF Found, Resumed, CreditKnows
  <2>1. PICK t \in turns : saved' = [saved EXCEPT !.turn = t]
    BY <1>6 DEF Found
  <2>2. t \in Turn
    BY DEF WireKnows, CheckoutTypeOK, Turn
  <2>3. saved' \in Checkout /\ saved'.turn = t
    BY <2>1, <2>2 DEF CheckoutTypeOK, Checkout
  <2> QED
    BY <1>6, <2>0, <2>3, CallLooks DEF Found, Resumed, CallKnows, Moves, docs, wire,
       Marked, Label
<1>7. CASE Leave
  BY <1>7, CallLooks DEF Leave, CallKnows, Moves, docs, wire, memory,
     Marked, CheckoutTypeOK, Label
<1> QED
  BY <1>1, <1>2, <1>3, <1>4, <1>5, <1>6, <1>7

(* The deadline has passed, and the stop is asked for. *)
LEMMA CallExpires ==
  ASSUME CheckoutInv, pc["resume"] # "idle", ExpireDeadline("resume", "failed"),
         UNCHANGED <<docs, wire, process, saved>>
  PROVE  WorkInv'
<1> USE DEF CheckoutInv, WorkInv, StoreInv
<1>0. "resume" \in Frame \ {"stop"} /\ "failed" \in Label
  BY DEF Frame, Label
<1>1. Moves("resume", "failed") /\ Status = "running" /\ Status' = "stopping" /\ CreditKept
  BY <1>0, ExpireMoves
<1>2. worker = "up" /\ worker' = worker /\ token' = token
  BY DEF Serving, docs, process
<1>3. Serving' /\ StopKnows'
  BY <1>0, <1>1, <1>2, CallServes
<1>4. CallKnows'
  BY <1>1 DEF CallKnows, Moves
<1>5. saved' \in Checkout
  BY DEF CheckoutTypeOK
<1> QED
  BY <1>0, <1>1, <1>3, <1>4, <1>5, CallKeeps DEF docs, Marked

LEMMA CallStepsTime ==
  ASSUME CheckoutInv, WindowChecked \/ PostRefused \/ EndCheckout
  PROVE  WorkInv'
<1> USE DEF CheckoutInv, WorkInv, StoreInv
<1>1. CASE WindowChecked
  <2>1. CASE PastDeadline
    BY <1>1, <2>1, CallExpires DEF WindowChecked, At
  <2>2. CASE ~ PastDeadline /\ pc["resume"] = "window"
    <3>1. external.status = "credited"
      BY <2>2 DEF CreditKnows
    <3> QED
      BY <1>1, <2>2, <3>1, CallLooks DEF WindowChecked, CallKnows, Moves, docs, wire,
         Marked, CheckoutTypeOK, Label
  <2>3. CASE ~ PastDeadline /\ pc["resume"] # "window"
    BY <1>1, <2>3, CallLooks DEF WindowChecked, At, CallKnows, Moves, docs, wire,
       Marked, CheckoutTypeOK, Label
  <2> QED
    BY <2>1, <2>2, <2>3
<1>2. CASE PostRefused
  <2>1. CASE PastDeadline
    BY <1>2, <2>1, CallExpires DEF PostRefused, Resumed
  <2>2. CASE ~ PastDeadline
    BY <1>2, <2>2, CallLooks DEF PostRefused, Resumed, CallKnows, Moves, docs, wire,
       Marked, CheckoutTypeOK, Label
  <2> QED
    BY <2>1, <2>2
<1>3. CASE EndCheckout
  <2>0. "resume" \in Frame \ {"stop"} /\ "idle" \in Label
    BY DEF Frame, Label
  <2>1. Status' = Status /\ CreditKept
    BY <1>3, StoreUntouched DEF EndCheckout
  <2>2. StartStop("resume", "idle", Status) /\ (Status = "stopping" => Status' = "stopping")
    BY <1>3, <2>1 DEF EndCheckout
  <2>3. Moves("resume", "idle")
    BY <2>0, <2>2, StartStopMoves
  <2>4. worker = "up" /\ worker' = worker /\ token' = token /\ pc["resume"] # "idle"
    BY <1>3 DEF EndCheckout, At, Serving, docs, process
  <2>5. Serving' /\ StopKnows'
    BY <2>0, <2>1, <2>3, <2>4, CallServes
  <2>6. CallKnows'
    BY <2>3 DEF CallKnows, Moves
  <2>7. saved' \in Checkout
    BY <1>3, Constants DEF EndCheckout
  <2> QED
    BY <1>3, <2>0, <2>1, <2>3, <2>5, <2>6, <2>7, CallKeeps DEF EndCheckout, docs, Marked
<1> QED
  BY <1>1, <1>2, <1>3

(* The credit is given, once, and then marked. *)
LEMMA CallStepsCredit ==
  ASSUME CheckoutInv, CreditWaited \/ Record
  PROVE  WorkInv'
<1> USE DEF CheckoutInv, WorkInv, StoreInv
<1>1. CASE CreditWaited /\ Waited # NoCredit
  BY <1>1, CallLooks DEF CreditWaited, At, CallKnows, Moves, docs, wire, memory, Marked,
     CheckoutTypeOK, Label, CreditExternalWait, Waited
<1>2. CASE CreditWaited /\ Waited = NoCredit
  <2>0. "resume" \in Frame /\ "record" \in Label
    BY DEF Frame, Label
  <2>1. /\ CreditExternalWait(run, wait, external.startedAt, now)
        /\ Continue("resume", "record") /\ pc["resume"] = "credit"
        /\ UNCHANGED <<docs, wire, process, memory>>
    BY <1>2 DEF CreditWaited, At
  <2>2. external.startedAt \in Nat /\ now \in Nat
    BY DEF CheckoutTypeOK, External, StoreTypeOK
  <2>3. /\ Waited' = [startedAt |-> external.startedAt, endedAt |-> now]
        /\ Status = "running" /\ Status' = Status /\ now' = now
        /\ runs[run].startedAt \in Nat
        /\ runs'[run].startedAt = runs[run].startedAt + (now - external.startedAt)
    BY <2>1, <2>2, CreditEffect
  <2>4. Moves("resume", "record")
    BY <2>0, <2>1, ContinueMoves
  <2>5. worker = "up" /\ worker' = worker /\ token' = token
    BY <2>1 DEF Serving, docs, process
  <2>6. Serving' /\ StopKnows'
    BY <2>0, <2>1, <2>3, <2>4, <2>5, CallServes
  <2>7. CallKnows'
    BY <2>1, <2>4 DEF CallKnows, Moves, docs, memory, wire
  <2>8. CheckoutTypeOK' /\ WireKnows'
    BY <2>1, <2>4 DEF CheckoutTypeOK, WireKnows, Moves, docs, wire, memory
  <2>9. Waited' # NoCredit
    BY <2>2, <2>3 DEF NoCredit, None
  <2>10. CreditKnows'
    BY <2>1, <2>3, <2>4, <2>9 DEF CreditKnows, Moves, docs
  <2>11. ResumedIsCredited'
    <3>1. runs[run].startedAt = 0
      BY <1>2, <2>3 DEF ResumedIsCredited, None
    <3>2. external.status # "credited"
      BY <1>2 DEF CreditKnows
    <3> QED
      BY <2>1, <2>2, <2>3, <2>9, <3>1, <3>2 DEF ResumedIsCredited, CreditKnows, docs, wire
  <2> QED
    BY <2>6, <2>7, <2>8, <2>10, <2>11
<1>3. CASE Record
  <2>0. "resume" \in Frame /\ "window" \in Label
    BY DEF Frame, Label
  <2>1. /\ RecordCredit("resume", "window") /\ pc["resume"] = "record"
        /\ UNCHANGED memory
    BY <1>3 DEF Record, At
  <2>2. /\ Moves("resume", "window") /\ Status' = Status /\ CreditKept
    BY <2>0, <2>1, ContinueMoves, StoreUntouched DEF RecordCredit
  <2>3. worker = "up" /\ worker' = worker /\ token' = token
    BY <2>1 DEF Serving, RecordCredit, process
  <2>4. Serving' /\ StopKnows'
    BY <2>0, <2>1, <2>2, <2>3, CallServes
  <2>5. Waited \in Credit
    <3>1. <<run, wait>> \in RunId \X WaitId  BY RunInStore
    <3> QED  BY <3>1 DEF StoreTypeOK, Waited
  <2>6. /\ external' \in External /\ external'.status = "credited"
        /\ external'.endedAt = Waited.endedAt /\ external'.startedAt = external.startedAt
    BY <2>1, <2>5 DEF RecordCredit, CheckoutTypeOK, External, Credit
  <2>7. CheckoutTypeOK' /\ WireKnows' /\ CallKnows'
    BY <2>1, <2>2, <2>6 DEF RecordCredit, CheckoutTypeOK, WireKnows, CallKnows, Moves, wire,
       memory
  <2>8. Waited # NoCredit
    BY <2>1 DEF CreditKnows
  <2>9. CreditKnows'
    BY <2>1, <2>2, <2>6, <2>8 DEF CreditKnows, CreditKept, Moves
  <2>10. ResumedIsCredited'
    BY <2>1, <2>2, <2>6, <2>8 DEF ResumedIsCredited, CreditKept, RecordCredit, wire
  <2> QED
    BY <2>4, <2>7, <2>9, <2>10
<1> QED
  BY <1>1, <1>2, <1>3

(* The payment is observed; the intent to continue is stored, the request  *)
(* sent, and the answer committed with the cursor.                         *)
LEMMA CallStepsDispatch ==
  ASSUME CheckoutInv, Observe \/ Dispatch \/ Post \/ Commit
  PROVE  WorkInv'
<1> USE DEF CheckoutInv, WorkInv, StoreInv
<1>0. "resume" \in Frame /\ \A at \in {"credit", "latest", "answer", "confirmed", "end"} : at \in Label
  BY DEF Frame, Label
<1>1. CASE Observe
  <2>1. /\ Moves("resume", "credit") /\ Status' = Status /\ CreditKept
        /\ pc["resume"] = "poll"
    BY <1>0, <1>1, ContinueMoves, StoreUntouched DEF Observe, Resumed
  <2>2. worker = "up" /\ worker' = worker /\ token' = token
    BY <1>1, <2>1 DEF Serving, Observe, process
  <2>3. Serving' /\ StopKnows'
    BY <1>0, <2>1, <2>2, CallServes
  <2>4. /\ checkout' \in Checkout /\ checkout'.status = "observed" /\ saved' = checkout'
    BY <1>1, Constants DEF Observe, NoCheckout, Checkout
  <2>5. runtime.turn = 0 /\ sent = 0
    BY <2>1 DEF CallKnows, WireKnows
  <2>6. CheckoutTypeOK' /\ WireKnows' /\ CallKnows'
    BY <1>1, <2>1, <2>4, <2>5 DEF Observe, CheckoutTypeOK, WireKnows, CallKnows, Moves, wire
  <2>7. CreditKnows' /\ ResumedIsCredited'
    BY <1>1, <2>1, <2>5 DEF Observe, CreditKnows, ResumedIsCredited, CreditKept, Moves, wire
  <2> QED
    BY <2>3, <2>6, <2>7
<1>2. CASE Dispatch
  <2>1. /\ Moves("resume", "latest") /\ Status' = Status /\ CreditKept
        /\ pc["resume"] = "dispatch"
    BY <1>0, <1>2, AwaitMoves, StoreUntouched DEF Dispatch, At
  <2>2. worker = "up" /\ worker' = worker /\ token' = token
    BY <1>2, <2>1 DEF Serving, Dispatch, process
  <2>3. Serving' /\ StopKnows'
    BY <1>0, <2>1, <2>2, CallServes
  <2>4. /\ checkout' \in Checkout /\ checkout'.status = "dispatched" /\ saved' = checkout'
    BY <1>2 DEF Dispatch, CheckoutTypeOK, Checkout
  <2>5. runtime.turn = 0 /\ sent = 0 /\ external.status = "credited"
    BY <2>1 DEF CallKnows, WireKnows, CreditKnows
  <2>6. CheckoutTypeOK' /\ WireKnows' /\ CallKnows'
    BY <1>2, <2>1, <2>4, <2>5 DEF Dispatch, CheckoutTypeOK, WireKnows, CallKnows, Moves, wire
  <2>7. CreditKnows' /\ ResumedIsCredited'
    BY <1>2, <2>1, <2>5 DEF Dispatch, CreditKnows, ResumedIsCredited, CreditKept, Moves, wire
  <2> QED
    BY <2>3, <2>6, <2>7
<1>3. CASE Post
  <2>1. /\ Moves("resume", "answer") /\ Status' = Status /\ CreditKept
        /\ pc["resume"] = "latest"
    BY <1>0, <1>3, AwaitMoves, StoreUntouched DEF Post, Resumed
  <2>2. worker = "up" /\ worker' = worker /\ token' = token
    BY <1>3, <2>1 DEF Serving, Post, docs, process
  <2>3. Serving' /\ StopKnows'
    BY <1>0, <2>1, <2>2, CallServes
  <2>4. /\ checkout.status = "dispatched" /\ sent = 0 /\ external.status = "credited"
        /\ runtime.turn = 0
    BY <2>1 DEF CallKnows, CreditKnows, WireKnows
  <2>5. sent' = 1 /\ sent' \in Turn /\ net' = net \cup {1} /\ turns' = turns
    BY <1>3, <2>4, CheckoutAssumption DEF Post, Turn
  <2>6. saved' \in Checkout
    BY <1>3, <2>5, <2>4 DEF Post, CheckoutTypeOK, Checkout
  <2>7. CheckoutTypeOK' /\ WireKnows' /\ CallKnows'
    BY <1>3, <2>1, <2>4, <2>5, <2>6 DEF Post, CheckoutTypeOK, WireKnows, CallKnows, Moves, docs
  <2>8. CreditKnows' /\ ResumedIsCredited'
    BY <1>3, <2>1, <2>4, <2>5 DEF Post, CreditKnows, ResumedIsCredited, CreditKept, Moves, docs
  <2> QED
    BY <2>3, <2>7, <2>8
<1>4. CASE Commit
  <2> DEFINE at == IF Status = "running" THEN "confirmed" ELSE "end"
  <2>0. at \in {"confirmed", "end"} /\ at \in Label /\ Continue("resume", at)
    BY <1>0, <1>4 DEF Commit
  <2> HIDE DEF at
  <2>1. /\ Moves("resume", at) /\ Status' = Status /\ CreditKept
        /\ pc["resume"] = "commit"
    BY <1>0, <1>4, <2>0, ContinueMoves, StoreUntouched DEF Commit, At
  <2>2. worker = "up" /\ worker' = worker /\ token' = token
    BY <1>4, <2>1 DEF Serving, Commit, process
  <2>3. Serving' /\ StopKnows'
    BY <2>0, <2>1, <2>2, CallServes
  <2>4. checkout.status = "dispatched" /\ saved.turn \in turns /\ external.status = "credited"
    BY <2>1 DEF CallKnows, CreditKnows
  <2>5. /\ checkout' \in Checkout /\ checkout'.status = "confirmed"
        /\ checkout'.turn = saved.turn
    BY <1>4 DEF Commit, CheckoutTypeOK, Checkout
  <2>6. runtime' \in Cursor /\ runtime'.turn = saved.turn
    BY <1>4 DEF Commit, CheckoutTypeOK, Checkout, Cursor
  <2>7. CheckoutTypeOK' /\ WireKnows' /\ CallKnows'
    BY <1>4, <2>0, <2>1, <2>4, <2>5, <2>6 DEF Commit, CheckoutTypeOK, WireKnows, CallKnows, Moves,
       memory, wire
  <2>8. CreditKnows' /\ ResumedIsCredited'
    BY <1>4, <2>0, <2>1, <2>4, <2>5, <2>6 DEF Commit, CreditKnows, ResumedIsCredited, CreditKept,
       Moves, wire
  <2> QED
    BY <2>3, <2>7, <2>8
<1> QED
  BY <1>1, <1>2, <1>3, <1>4

LEMMA ContinueCheckoutStep ==
  ASSUME CheckoutInv, ContinueCheckout
  PROVE  WorkInv'
  BY CallStepsLook, CallStepsTime, CallStepsCredit, CallStepsDispatch DEF ContinueCheckout

-----------------------------------------------------------------------------
(* The stop and the end of the run *)

(* A step of another frame, after which continueCheckout stands where it   *)
(* stood.                                                                  *)
LEMMA OthersKeep ==
  ASSUME CheckoutInv, NEW f \in Frame \ {"resume"}, NEW at \in Label, Moves(f, at),
         saved' = saved, checkout' = checkout, external' = external,
         runtime' \in Cursor,
         \/ runtime'.turn = runtime.turn
         \/ runtime'.turn = checkout.turn /\ checkout.status = "confirmed",
         UNCHANGED wire, CreditKept
  PROVE  CheckoutTypeOK' /\ CallKnows' /\ WireKnows' /\ CreditKnows' /\ ResumedIsCredited'
<1> USE DEF CheckoutInv, WorkInv, StoreInv
<1>0. pc'["resume"] = pc["resume"]
  BY DEF Moves
<1>1. CheckoutTypeOK'
  BY DEF CheckoutTypeOK, Moves, wire
<1>2. CallKnows' /\ WireKnows'
  BY <1>0 DEF CallKnows, WireKnows, wire
<1>3. CreditKnows'
  BY <1>0 DEF CreditKnows, CreditKept
<1>4. ResumedIsCredited'
  BY DEF ResumedIsCredited, WireKnows, CreditKept, wire
<1> QED
  BY <1>1, <1>2, <1>3, <1>4

LEMMA StopStep ==
  ASSUME CheckoutInv, Stop
  PROVE  WorkInv'
<1> USE DEF CheckoutInv, WorkInv, StoreInv
<1>0. /\ "stop" \in Frame \ {"resume"}
      /\ \A at \in {"idle", "account", "cleanup", "cancel", "clear"} : at \in Label
  BY DEF Frame, Label
<1> DEFINE Steps(at) ==
      /\ Moves("stop", at) /\ pc'["stop"] = at
      /\ UNCHANGED <<checkout, external, saved, wire, worker>>
      /\ pc'["resume"] = pc["resume"] /\ pc'["boot"] = pc["boot"]
      /\ pc["stop"] # "idle"
<1>1. ASSUME NEW at \in Label, Steps(at) PROVE Serving'
  BY <1>1 DEF Serving
<1>2. CASE Revoke
  <2>1. Steps("account") /\ Status' = Status /\ CreditKept /\ ~ token'
    BY <1>0, <1>2, ContinueMoves, StoreUntouched DEF Revoke, At, Moves, process, memory
  <2>2. StopKnows'
    BY <1>2, <2>1 DEF StopKnows, Revoke, At
  <2> QED
    BY <1>0, <1>1, <1>2, <2>1, <2>2, OthersKeep DEF Revoke, CheckoutTypeOK
<1>3. CASE Account
  <2>1. Steps("cleanup") /\ Status' = Status /\ CreditKept /\ token' = token
    BY <1>0, <1>3, AwaitMoves, StoreUntouched DEF Account, At, Moves, docs, process, memory
  <2>2. StopKnows'
    BY <1>3, <2>1 DEF StopKnows, Account, At
  <2> QED
    BY <1>0, <1>1, <1>3, <2>1, <2>2, OthersKeep DEF Account, CheckoutTypeOK, docs
<1>4. CASE StopFails
  <2>1. Steps("idle") /\ Status' = Status /\ CreditKept /\ token' = token
    BY <1>0, <1>4, AwaitMoves, StoreUntouched DEF StopFails, At, Resumed, Moves, process, memory
  <2>2. StopKnows'
    BY <1>4, <2>1 DEF StopKnows
  <2> QED
    BY <1>0, <1>1, <1>4, <2>1, <2>2, OthersKeep DEF StopFails, CheckoutTypeOK
<1>5. CASE Settle
  <2>1. Steps("cancel") /\ Status' = Status /\ CreditKept /\ token' = token
    BY <1>0, <1>5, ContinueMoves, StoreUntouched DEF Settle, Resumed, Moves, process, memory
  <2>2. StopKnows'
    BY <1>5, <2>1 DEF StopKnows, Settle, Resumed
  <2>3. runtime' \in Cursor /\ runtime'.turn = runtime.turn
    BY <1>5 DEF Settle, CheckoutTypeOK, Cursor
  <2> QED
    BY <1>0, <1>1, <1>5, <2>1, <2>2, <2>3, OthersKeep
<1>6. CASE FinishStop
  <2>0. CancelRun(run)
    BY <1>6 DEF FinishStop
  <2>1. Steps("clear") /\ Status' = "canceled" /\ CreditKept /\ token' = token
    BY <1>0, <1>6, <2>0, ContinueMoves, RunCanceled DEF FinishStop, At, Moves, docs, process, memory
  <2>2. ~ token /\ pc["resume"] = "idle"
    BY <1>6 DEF StopKnows, FinishStop, At
  <2>3. StopKnows'
    BY <1>6, <2>1, <2>2 DEF StopKnows, FinishStop, At
  <2> QED
    BY <1>0, <1>1, <1>6, <2>1, <2>3, OthersKeep DEF FinishStop, CheckoutTypeOK, docs
<1>7. CASE ClearStopError
  <2>1. Steps("idle") /\ Status' = Status /\ CreditKept /\ token' = token
    BY <1>0, <1>7, AwaitMoves, StoreUntouched DEF ClearStopError, At, Moves, process, memory
  <2>2. StopKnows'
    BY <1>7, <2>1 DEF StopKnows
  <2> QED
    BY <1>0, <1>1, <1>7, <2>1, <2>2, OthersKeep DEF ClearStopError, CheckoutTypeOK
<1> QED
  BY <1>2, <1>3, <1>4, <1>5, <1>6, <1>7 DEF Stop

(* A frame that is not the stop may start it, and gives nothing back.      *)
LEMMA OthersStop ==
  ASSUME CheckoutInv, NEW at \in Label, Moves("boot", at), token' => token,
         Status' = Status \/ (Status = "running" /\ Status' \in {"stopping", "completed"})
  PROVE  StopKnows'
<1> USE DEF CheckoutInv, WorkInv, StoreInv
<1>1. pc'["resume"] = pc["resume"] /\ (pc'["stop"] # pc["stop"] => StopStarts)
  BY DEF Moves
<1> QED
  BY <1>1 DEF StopKnows, StopStarts

(* The owner cancels, the deadline passes, or the turn completes the run.  *)
LEMMA ServedStep ==
  ASSUME CheckoutInv, Cancel \/ WatchdogFires \/ Complete
  PROVE  WorkInv'
<1> USE DEF CheckoutInv, WorkInv, StoreInv
<1>0. "boot" \in Frame \ {"resume"} /\ "boot" \in Frame \ {"stop"} /\ "idle" \in Label
  BY DEF Frame, Label
<1>1. CASE Cancel
  <2>1. /\ Status' = "stopping" /\ CreditKept
        /\ Status' = Status \/ (Status = "running" /\ Status' \in {"stopping", "completed"})
    <3>1. CASE UNCHANGED storeVars /\ Status = "stopping"
      BY <3>1, StoreUntouched
    <3>2. CASE RequestStop(run) /\ Status = "running"
      BY <3>2, StopRequested
    <3>3. RequestStop(run) /\ Status \in {"running", "stopping"} => Status = "running"
      BY DEF RequestStop, Status
    <3> QED
      BY <1>1, <3>1, <3>2, <3>3 DEF Cancel
  <2>2. StartStop("boot", "idle", "stopping")
    BY <1>1 DEF Cancel
  <2>3. Moves("boot", "idle")
    BY <1>0, <2>1, <2>2, StartStopMoves
  <2>4. StopKnows'
    BY <1>0, <1>1, <2>1, <2>3, OthersStop DEF Cancel, docs
  <2>5. Serving'
    BY <1>1, <2>3 DEF Serving, Cancel, Moves, process
  <2> QED
    BY <1>0, <1>1, <2>1, <2>3, <2>4, <2>5, OthersKeep DEF Cancel, docs, CheckoutTypeOK
<1>2. CASE WatchdogFires
  <2>1. ExpireDeadline("boot", "idle")
    BY <1>2 DEF WatchdogFires
  <2>2. Moves("boot", "idle") /\ Status = "running" /\ Status' = "stopping" /\ CreditKept
    BY <1>0, <2>1, ExpireMoves
  <2>3. StopKnows'
    BY <1>0, <1>2, <2>2, OthersStop DEF WatchdogFires, docs
  <2>4. Serving'
    BY <1>2, <2>2 DEF Serving, WatchdogFires, Moves, process
  <2> QED
    BY <1>0, <1>2, <2>2, <2>3, <2>4, OthersKeep DEF WatchdogFires, docs, CheckoutTypeOK
<1>3. CASE Complete
  <2>1. PICK verdicts \in VerdictLists : FinishRun(run, verdicts)
    BY <1>3 DEF Complete
  <2>2. Status = "running" /\ Status' = "completed" /\ CreditKept
    BY <2>1, RunFinished
  <2>3. pc["boot"] = "idle" /\ pc' = pc /\ worker' = worker /\ token' = token
    BY <1>3 DEF Complete, Serving, thread, process
  <2>4. Moves("boot", "idle")
    BY <2>3 DEF Moves, CheckoutTypeOK
  <2>5. StopKnows' /\ Serving'
    BY <1>0, <1>3, <2>2, <2>3, <2>4, OthersStop DEF Serving, Complete
  <2>6. runtime' \in Cursor /\ runtime'.turn = runtime.turn
    BY <1>3 DEF Complete, CheckoutTypeOK, Cursor
  <2> QED
    BY <1>0, <1>3, <2>2, <2>4, <2>5, <2>6, OthersKeep DEF Complete, memory
<1> QED
  BY <1>1, <1>2, <1>3

-----------------------------------------------------------------------------
(* Crash and recovery *)

LEMMA CrashStep ==
  ASSUME CheckoutInv, Crash
  PROVE  WorkInv'
<1> USE DEF CheckoutInv, WorkInv, StoreInv
<1>1. \A f \in Frame : pc'[f] = "idle"
  BY DEF Crash
<1>2. pc'["resume"] = "idle" /\ pc'["boot"] = "idle" /\ pc'["stop"] = "idle"
  BY <1>1 DEF Frame
<1>3. pc' \in [Frame -> Label]
  BY DEF Crash, Label
<1>4. Status' = Status /\ CreditKept
  BY StoreUntouched DEF Crash
<1>5. CheckoutTypeOK'
  BY <1>3, Constants DEF Crash, CheckoutTypeOK, docs, wire
<1>6. CallKnows' /\ WireKnows' /\ Serving'
  BY <1>2 DEF Crash, CallKnows, WireKnows, Serving, docs, wire
<1>7. CreditKnows' /\ ResumedIsCredited'
  BY <1>2, <1>4 DEF Crash, CreditKnows, CreditKept, ResumedIsCredited, docs, wire
<1>8. StopKnows'
  BY <1>2, <1>4 DEF Crash, StopKnows, docs
<1> QED
  BY <1>5, <1>6, <1>7, <1>8

(* A step of the recovery at work: nobody is served meanwhile.             *)
LEMMA RecoveryKeeps ==
  ASSUME CheckoutInv, NEW at \in Label, Moves("boot", at), pc["boot"] # "idle",
         \/ worker' = worker
         \/ worker' = "up" /\ at = "idle",
         UNCHANGED <<saved, checkout, external, wire>>, token' => token,
         runtime' \in Cursor,
         \/ runtime'.turn = runtime.turn
         \/ runtime'.turn = checkout.turn /\ checkout.status = "confirmed",
         Status' = Status \/ (Status = "running" /\ Status' = "stopping"), CreditKept,
         at = "reconcile" => checkout.status = "dispatched"
  PROVE  WorkInv'
<1> USE DEF CheckoutInv, WorkInv, StoreInv
<1>0. "boot" \in Frame \ {"resume"}
  BY DEF Frame
<1>1. StopKnows'
  BY OthersStop
<1>2. worker = "recovering" /\ pc'["resume"] = "idle" /\ pc'["boot"] = at
  BY DEF Serving, Moves
<1>3. Serving'
  BY <1>2 DEF Serving
<1> QED
  BY <1>0, <1>1, <1>3, OthersKeep

LEMMA BootStep ==
  ASSUME CheckoutInv, Boot
  PROVE  WorkInv'
<1> USE DEF CheckoutInv, WorkInv, StoreInv
<1>0. "boot" \in Frame \ {"resume"} /\ "recover" \in Label
  BY DEF Frame, Label
<1>1. Moves("boot", "recover") /\ Status' = Status /\ CreditKept
  BY <1>0, ContinueMoves, StoreUntouched DEF Boot
<1>2. pc["resume"] = "idle" /\ pc'["resume"] = "idle" /\ pc'["boot"] = "recover"
  BY <1>1 DEF Boot, Serving, Moves
<1>3. Serving'
  BY <1>2 DEF Boot, Serving
<1>4. StopKnows'
  BY <1>0, <1>1, OthersStop DEF Boot, docs
<1> QED
  BY <1>0, <1>1, <1>3, <1>4, OthersKeep DEF Boot, docs, memory, CheckoutTypeOK

(* The steps that only look: the documents but the capability stay.        *)
LEMMA RecoveryLooks ==
  ASSUME CheckoutInv, NEW at \in Label, Continue("boot", at) \/ Await("boot", at),
         pc["boot"] # "idle", at = "reconcile" => checkout.status = "dispatched",
         UNCHANGED <<storeVars, saved, checkout, external, wire, worker>>,
         token' => token, runtime' \in Cursor,
         \/ runtime'.turn = runtime.turn
         \/ runtime'.turn = checkout.turn /\ checkout.status = "confirmed"
  PROVE  WorkInv'
<1>1. CheckoutTypeOK /\ "boot" \in Frame
  BY DEF CheckoutInv, WorkInv, Frame
<1>2. Moves("boot", at) /\ Status' = Status /\ CreditKept
  BY <1>1, ContinueMoves, AwaitMoves, StoreUntouched
<1> QED
  BY <1>2, RecoveryKeeps

LEMMA RecoverStoppingStep ==
  ASSUME CheckoutInv, RecoverStopping
  PROVE  WorkInv'
<1> USE DEF CheckoutInv, WorkInv, StoreInv
<1>0. "reconcile" \in Label /\ "stop" \in Label
  BY DEF Label
<1>1. CASE checkout.status = "dispatched"
  BY <1>0, <1>1, RecoveryLooks DEF RecoverStopping, At, memory, process, CheckoutTypeOK
<1>2. CASE checkout.status # "dispatched"
  <2>1. /\ runtime' \in Cursor
        /\ \/ runtime'.turn = runtime.turn
           \/ runtime'.turn = checkout.turn /\ checkout.status = "confirmed"
    BY <1>2 DEF RecoverStopping, CheckoutTypeOK, Checkout, Cursor
  <2> QED
    BY <1>0, <1>2, <2>1, RecoveryLooks DEF RecoverStopping, At, memory, process
<1> QED
  BY <1>1, <1>2

(* The turn that answered, if there is one, becomes the confirmed one.     *)
LEMMA ReconcileStep ==
  ASSUME CheckoutInv, Reconcile
  PROVE  WorkInv'
<1> USE DEF CheckoutInv, WorkInv, StoreInv
<1>0. "boot" \in Frame /\ "stop" \in Label
  BY DEF Frame, Label
<1>1. /\ Moves("boot", "stop") /\ Status' = Status /\ CreditKept
      /\ pc["boot"] = "reconcile"
  BY <1>0, ContinueMoves, StoreUntouched DEF Reconcile, Resumed
<1>2. /\ pc["resume"] = "idle" /\ pc'["resume"] = "idle" /\ pc'["boot"] = "stop"
      /\ checkout.status = "dispatched" /\ worker' = worker
  BY <1>1 DEF Serving, Moves, Reconcile, process
<1>3. Serving'
  BY <1>1, <1>2 DEF Serving
<1>4. StopKnows'
  BY <1>0, <1>1, OthersStop DEF Reconcile
<1>5. CallKnows'
  BY <1>2 DEF CallKnows
<1>6. CreditKnows'
  BY <1>1, <1>2 DEF Reconcile, CreditKnows, CreditKept
<1>7. ASSUME NEW t \in turns, checkout' = [status |-> "confirmed", turn |-> t],
             runtime' = [turn |-> t, status |-> "error"]
      PROVE  CheckoutTypeOK' /\ WireKnows' /\ ResumedIsCredited'
  <2>1. t \in Turn
    BY DEF WireKnows, CheckoutTypeOK, Turn
  <2>2. CheckoutTypeOK'
    BY <1>1, <1>7, <2>1 DEF Reconcile, CheckoutTypeOK, Moves, Checkout, Cursor, memory, wire
  <2>3. WireKnows' /\ ResumedIsCredited'
    BY <1>1, <1>7 DEF Reconcile, WireKnows, ResumedIsCredited, CreditKept, wire
  <2> QED
    BY <2>2, <2>3
<1>8. ASSUME checkout' = [checkout EXCEPT !.status = "unknown"], runtime' = runtime
      PROVE  CheckoutTypeOK' /\ WireKnows' /\ ResumedIsCredited'
  <2>1. checkout' \in Checkout /\ checkout'.status = "unknown"
    BY <1>8 DEF CheckoutTypeOK, Checkout
  <2>2. CheckoutTypeOK'
    BY <1>1, <1>8, <2>1 DEF Reconcile, CheckoutTypeOK, Moves, memory, wire
  <2>3. WireKnows' /\ ResumedIsCredited'
    BY <1>1, <1>2, <1>8, <2>1 DEF Reconcile, WireKnows, ResumedIsCredited, CreditKept, wire
  <2> QED
    BY <2>2, <2>3
<1> QED
  BY <1>3, <1>4, <1>5, <1>6, <1>7, <1>8 DEF Reconcile

LEMMA BindingReadyStep ==
  ASSUME CheckoutInv, BindingReady
  PROVE  WorkInv'
<1> USE DEF CheckoutInv, WorkInv, StoreInv
<1>0. "boot" \in Frame /\ "armed" \in Label
  BY DEF Frame, Label
<1>1. CASE ~ (runtime.status = "waiting" /\ Waited # NoCredit)
  BY <1>0, <1>1, RecoveryLooks DEF BindingReady, Resumed, docs, process, CheckoutTypeOK
<1>2. CASE runtime.status = "waiting" /\ Waited # NoCredit
  <2>1. RecordCredit("boot", "armed") /\ saved' = saved /\ pc["boot"] = "binding"
    BY <1>2 DEF BindingReady, Resumed
  <2>2. Moves("boot", "armed") /\ Status' = Status /\ CreditKept
    BY <1>0, <2>1, ContinueMoves, StoreUntouched DEF RecordCredit
  <2>3. /\ pc["resume"] = "idle" /\ pc'["resume"] = "idle" /\ pc'["boot"] = "armed"
        /\ worker' = worker /\ token' = token
    BY <2>1, <2>2 DEF Serving, Moves, RecordCredit, process
  <2>4. Serving'
    BY <2>1, <2>3 DEF Serving
  <2>5. StopKnows'
    BY <1>0, <2>2, <2>3, OthersStop
  <2>6. Waited \in Credit
    <3>1. <<run, wait>> \in RunId \X WaitId  BY RunInStore
    <3> QED  BY <3>1 DEF StoreTypeOK, Waited
  <2>7. /\ external' \in External /\ external'.status = "credited"
        /\ external'.endedAt = Waited.endedAt /\ external'.startedAt = external.startedAt
    BY <2>1, <2>6 DEF RecordCredit, CheckoutTypeOK, External, Credit
  <2>8. CheckoutTypeOK' /\ WireKnows' /\ CallKnows'
    BY <2>1, <2>2, <2>3, <2>7 DEF RecordCredit, CheckoutTypeOK, WireKnows, CallKnows, Moves, wire
  <2>9. CreditKnows'
    BY <1>2, <2>1, <2>2, <2>3, <2>7 DEF CreditKnows, CreditKept
  <2>10. ResumedIsCredited'
    BY <2>1, <2>2, <2>7 DEF ResumedIsCredited, CreditKept, RecordCredit, wire
  <2> QED
    BY <2>4, <2>5, <2>8, <2>9, <2>10
<1> QED
  BY <1>1, <1>2

LEMMA RecoverStep ==
  ASSUME CheckoutInv, Recover
  PROVE  WorkInv'
<1> USE DEF CheckoutInv, WorkInv, StoreInv
<1>0. /\ "boot" \in Frame \ {"stop"}
      /\ \A at \in {"idle", "recovered", "binding", "close", "armed"} : at \in Label
  BY DEF Frame, Label
<1>1. CASE RecoverStop
  <2>1. Status' = Status /\ CreditKept
    BY <1>1, StoreUntouched DEF RecoverStop
  <2>2. StartStop("boot", "recovered", Status) /\ (Status = "stopping" => Status' = "stopping")
    BY <1>1, <2>1 DEF RecoverStop
  <2>3. Moves("boot", "recovered")
    BY <1>0, <2>2, StartStopMoves
  <2> QED
    BY <1>0, <1>1, <2>1, <2>3, RecoveryKeeps DEF RecoverStop, At, docs, memory, process,
       CheckoutTypeOK
<1>2. CASE RecoverExpired
  <2>1. ExpireDeadline("boot", "recovered")
    BY <1>2 DEF RecoverExpired
  <2>2. Moves("boot", "recovered") /\ Status = "running" /\ Status' = "stopping" /\ CreditKept
    BY <1>0, <2>1, ExpireMoves
  <2> QED
    BY <1>0, <1>2, <2>2, RecoveryKeeps DEF RecoverExpired, At, docs, process, CheckoutTypeOK
<1>3. CASE RecoverEnded
  BY <1>0, <1>3, RecoveryLooks DEF RecoverEnded, At, process, memory, CheckoutTypeOK
<1>4. CASE RecoverBinding
  BY <1>0, <1>4, RecoveryLooks DEF RecoverBinding, At, docs, process, memory, CheckoutTypeOK
<1>5. CASE BindingBlocked
  <2>1. runtime' \in Cursor /\ runtime'.turn = runtime.turn
    BY <1>5 DEF BindingBlocked, CheckoutTypeOK, Cursor
  <2> QED
    BY <1>0, <1>5, <2>1, RecoveryLooks DEF BindingBlocked, Resumed, process, memory
<1>6. CASE CloseBlocked
  BY <1>0, <1>6, RecoveryLooks DEF CloseBlocked, At, process, memory, CheckoutTypeOK
<1>7. CASE RecoverArmed
  BY <1>0, <1>7, RecoveryLooks DEF RecoverArmed, At, docs, process, memory, CheckoutTypeOK
<1>8. CASE Recovered
  <2>1. Moves("boot", "idle") /\ Status' = Status /\ CreditKept
    BY <1>0, <1>8, AwaitMoves, StoreUntouched DEF Recovered
  <2> QED
    BY <1>0, <1>8, <2>1, RecoveryKeeps DEF Recovered, Resumed, docs, memory, CheckoutTypeOK
<1> QED
  BY <1>1, <1>2, <1>3, <1>4, <1>5, <1>6, <1>7, <1>8, BootStep, RecoverStoppingStep,
     ReconcileStep, BindingReadyStep DEF Recover

-----------------------------------------------------------------------------
(* The theorems *)

(* The runtime serves a request, time passes, or nothing happens.          *)
LEMMA OutsideStep ==
  ASSUME CheckoutInv, RuntimeAccepts \/ TimePasses \/ UNCHANGED checkoutVars
  PROVE  WorkInv'
<1> USE DEF CheckoutInv, WorkInv, StoreInv
<1>1. CASE RuntimeAccepts
  <2>1. /\ UNCHANGED <<storeVars, docs, sent, process, thread, memory>>
        /\ turns \subseteq turns' /\ turns' \subseteq turns \cup net /\ net' \subseteq net
    BY <1>1 DEF RuntimeAccepts
  <2>2. Status' = Status /\ CreditKept
    BY <2>1, StoreUntouched
  <2>3. CheckoutTypeOK' /\ CallKnows' /\ WireKnows'
    BY <2>1 DEF CheckoutTypeOK, CallKnows, WireKnows, docs, thread, memory
  <2>4. CreditKnows' /\ ResumedIsCredited'
    BY <2>1, <2>2 DEF CreditKnows, ResumedIsCredited, CreditKept, docs, thread
  <2>5. Serving' /\ StopKnows'
    BY <2>1, <2>2 DEF Serving, StopKnows, docs, thread, process
  <2> QED
    BY <2>3, <2>4, <2>5
<1>2. CASE TimePasses
  <2>1. /\ UNCHANGED <<docs, wire, process, thread, memory>>
        /\ now' = now + 1 /\ now \in Nat /\ Status' = Status /\ Waited' = Waited
        /\ runs' = runs
    BY <1>2 DEF TimePasses, Tick, Status, Waited, StoreTypeOK
  <2>2. CheckoutTypeOK' /\ CallKnows' /\ WireKnows'
    BY <2>1 DEF CheckoutTypeOK, CallKnows, WireKnows, docs, wire, thread, memory
  <2>3. CreditKnows'
    BY <2>1, Constants DEF CreditKnows, docs, thread
  <2>4. Waited # NoCredit => Waited.endedAt \in Int
    <3>1. <<run, wait>> \in RunId \X WaitId  BY RunInStore
    <3> QED  BY <3>1 DEF StoreTypeOK, Waited, Credit, Time, None
  <2>5. ResumedIsCredited'
    BY <2>1, <2>4 DEF ResumedIsCredited, docs, wire
  <2>6. Serving' /\ StopKnows'
    BY <2>1 DEF Serving, StopKnows, docs, thread, process
  <2> QED
    BY <2>2, <2>3, <2>5, <2>6
<1>3. CASE UNCHANGED checkoutVars
  <2>1. /\ UNCHANGED <<docs, wire, process, thread, memory>>
        /\ Status' = Status /\ CreditKept
    BY <1>3, StoreUntouched DEF checkoutVars
  <2>2. CheckoutTypeOK' /\ CallKnows' /\ WireKnows'
    BY <2>1 DEF CheckoutTypeOK, CallKnows, WireKnows, docs, wire, thread, memory
  <2>3. CreditKnows' /\ ResumedIsCredited'
    BY <2>1 DEF CreditKnows, ResumedIsCredited, CreditKept, docs, wire, thread
  <2>4. Serving' /\ StopKnows'
    BY <2>1 DEF Serving, StopKnows, docs, thread, process
  <2> QED
    BY <2>2, <2>3, <2>4
<1> QED
  BY <1>1, <1>2, <1>3

(* The store is used by the credit, by RequestStop, by cancelRun and by    *)
(* finishRun only.                                                         *)
LEMMA CheckoutStoreStep ==
  ASSUME CheckoutInv, [CheckoutNext]_checkoutVars
  PROVE  [StoreNext]_storeVars
<1> SUFFICES ASSUME ~ UNCHANGED storeVars PROVE StoreNext
  OBVIOUS
<1>1. CASE RequestStop(run)
  BY <1>1, RunInStore DEF StoreNext
<1>2. CASE ContinueCheckout
  <2>1. CASE CreditWaited
    <3>1. CreditExternalWait(run, wait, external.startedAt, now)
      BY <2>1 DEF CreditWaited
    <3>2. external.startedAt \in 0..now /\ now \in 0..now
      BY Constants DEF CheckoutInv, WorkInv, CreditKnows, StoreInv, StoreTypeOK
    <3> QED
      BY <3>1, <3>2, RunInStore DEF StoreNext, CreditWait
  <2>2. CASE ~ CreditWaited
    BY <1>2, <2>2, <1>1 DEF ContinueCheckout, Bound, Observe, CreditRefused, Record, RecordCredit,
       WindowChecked, Arm, Dispatch, Post, PostRefused, Answered, PostFails, Found, Commit, Leave,
       EndCheckout, ExpireDeadline
  <2> QED
    BY <2>1, <2>2
<1>3. CASE CallCheckout \/ Cancel \/ WatchdogFires
  BY <1>1, <1>3 DEF CallCheckout, Cancel, WatchdogFires, ExpireDeadline
<1>4. CASE Stop
  <2>1. CancelRun(run)
    BY <1>4 DEF Stop, Revoke, Account, StopFails, Settle, FinishStop, ClearStopError
  <2> QED
    BY <2>1, RunInStore DEF StoreNext
<1>5. CASE Complete
  BY <1>5, RunInStore DEF Complete, StoreNext
<1>6. CASE Crash \/ RuntimeAccepts \/ UNCHANGED checkoutVars
  BY <1>6 DEF Crash, RuntimeAccepts, checkoutVars
<1>7. CASE Recover
  BY <1>1, <1>7 DEF Recover, Boot, RecoverStopping, Reconcile, RecoverStop, RecoverEnded,
     RecoverExpired, RecoverBinding, BindingBlocked, CloseBlocked, BindingReady, RecordCredit,
     RecoverArmed, Recovered, ExpireDeadline
<1>8. CASE TimePasses
  BY <1>8 DEF TimePasses, StoreNext
<1> QED
  BY <1>2, <1>3, <1>4, <1>5, <1>6, <1>7, <1>8 DEF CheckoutNext

LEMMA CheckoutInvStep ==
  ASSUME CheckoutInv, [CheckoutNext]_checkoutVars
  PROVE  CheckoutInv'
<1>1. StoreInv'
  BY CheckoutStoreStep, StoreInvStep DEF CheckoutInv
<1>2. WorkInv'
  BY CallBegins, ContinueCheckoutStep, StopStep, ServedStep, CrashStep, RecoverStep, OutsideStep
     DEF CheckoutNext
<1> QED
  BY <1>1, <1>2 DEF CheckoutInv

LEMMA CheckoutInvInit ==
  ASSUME CheckoutInit
  PROVE  CheckoutInv
<1> USE DEF CheckoutInit, WaitingRun, WaitingWorker
<1> DEFINE waiting == [NoRun EXCEPT !.status = "running", !.active = TRUE, !.decision = "allow",
                                    !.startedAt = 0]
<1>1. /\ waiting \in Run /\ waiting.status = "running" /\ waiting.active = TRUE
      /\ waiting.decision = "allow" /\ waiting.startedAt = 0
  BY DEF NoRun, Run, RunStatus, Live, Terminal, Time, None, Outcome, Verdict
<1>2. /\ NoRun \in Run /\ NoRun.status = "absent" /\ NoRun.active = FALSE
      /\ NoRun.decision = "pending" /\ NoRun.startedAt = None
  BY DEF NoRun, Run, RunStatus, Live, Terminal, Time, None, Outcome, Verdict
<1>3. runs = [r \in RunId |-> IF r # run THEN NoRun ELSE waiting]
  OBVIOUS
<1> HIDE DEF waiting
<1>4. /\ runs \in [RunId -> Run] /\ runs[run] = waiting
      /\ \A r \in RunId \ {run} : runs[r] = NoRun
  BY <1>1, <1>2, <1>3, RunInStore
<1>5. StoreTypeOK
  BY <1>4, Constants DEF StoreTypeOK, NoOperation, Operation, NoCredit, Credit, Time, None, Grant
<1>6. StoreInv
  BY <1>1, <1>2, <1>4, <1>5, RunInStore, Constants DEF StoreInv, ActiveColumn, DecisionOfStatus,
     OneActiveRunPerProject, AtMostOneGrant, GrantsAccounted, ElapsedNeverNegative, Live, None
<1>7. /\ Status = "running" /\ runs[run].startedAt = 0 /\ Waited = NoCredit
      /\ \A f \in Frame : pc[f] = "idle"
  <2>1. <<run, wait>> \in RunId \X WaitId  BY RunInStore
  <2> QED  BY <1>1, <1>4, <2>1 DEF Status, Waited
<1>8. pc["resume"] = "idle" /\ pc["boot"] = "idle" /\ pc["stop"] = "idle"
  BY <1>7 DEF Frame
<1>9. CheckoutTypeOK
  BY Constants DEF CheckoutTypeOK, External, Cursor, Label, Time, Turn, None
<1>10. CallKnows /\ WireKnows /\ Serving /\ StopKnows
  BY <1>7, <1>8 DEF CallKnows, WireKnows, Serving, StopKnows, NoCheckout
<1>11. CreditKnows /\ ResumedIsCredited
  BY <1>7, <1>8, Constants DEF CreditKnows, ResumedIsCredited
<1> QED
  BY <1>6, <1>9, <1>10, <1>11 DEF CheckoutInv, WorkInv

LEMMA CheckoutInvariant == CheckoutSpec => []CheckoutInv
  BY CheckoutInvInit, CheckoutInvStep, PTL DEF CheckoutSpec

(* The window of a resumed run has grown by exactly the time that was      *)
(* waited, whatever is interrupted between the credit, its marker, the     *)
(* dispatch and the cursor, and however often it is tried.                 *)
THEOREM ResumedCredited == CheckoutSpec => []ResumedIsCredited
<1>1. CheckoutInv => ResumedIsCredited
  BY DEF CheckoutInv, WorkInv
<1> QED
  BY <1>1, CheckoutInvariant, PTL

(* A run is canceled only when its turn is not being continued, and no     *)
(* continuation begins afterwards.                                         *)
THEOREM CanceledQuiet == CheckoutSpec => []CanceledIsQuiet
<1>1. CheckoutInv => CanceledIsQuiet
  BY DEF CheckoutInv, WorkInv, StopKnows, CanceledIsQuiet
<1> QED
  BY <1>1, CheckoutInvariant, PTL

-----------------------------------------------------------------------------
(* The continuation as one external effect.  Six steps are steps of        *)
(* EffectOnce; the others leave intent, requests and turns alone.          *)

EffectStays == checkout' = checkout /\ sent' = sent /\ turns' = turns

LEMMA EffectStutters ==
  ASSUME EffectStays PROVE UNCHANGED (Effect!effectVars)
  BY DEF EffectStays, Effect!effectVars

LEMMA CallEffects ==
  ASSUME CheckoutInv, ContinueCheckout \/ CallCheckout
  PROVE  Effect!EffectNext \/ EffectStays
<1> USE DEF CheckoutInv, WorkInv
<1>1. CASE Observe
  <2>1. checkout.status = "none" /\ checkout'.status = "observed"
    BY <1>1 DEF Observe, Resumed, CallKnows, NoCheckout
  <2> QED
    BY <1>1, <2>1 DEF Observe, wire, Effect!EffectNext, Effect!Prepare
<1>2. CASE Dispatch
  <2>1. checkout.status = "observed" /\ checkout'.status = "dispatched"
    BY <1>2 DEF Dispatch, At, CallKnows, CheckoutTypeOK, Checkout
  <2> QED
    BY <1>2, <2>1 DEF Dispatch, wire, Effect!EffectNext, Effect!Dispatch
<1>3. CASE Post
  <2>1. checkout.status = "dispatched" /\ sent = 0
    BY <1>3 DEF Post, Resumed, CallKnows
  <2> QED
    BY <1>3, <2>1 DEF Post, docs, Effect!EffectNext, Effect!Issue
<1>4. CASE Commit
  <2>1. checkout.status = "dispatched" /\ turns # {} /\ checkout'.status = "confirmed"
    BY <1>4 DEF Commit, At, CallKnows, CheckoutTypeOK, Checkout
  <2> QED
    BY <1>4, <2>1 DEF Commit, wire, Effect!EffectNext, Effect!Confirm
<1>5. CASE CallCheckout \/ Bound \/ CreditWaited \/ CreditRefused \/ Record \/ WindowChecked
           \/ Arm \/ PostRefused \/ Answered \/ PostFails \/ Found \/ Leave \/ EndCheckout
  BY <1>5 DEF EffectStays, CallCheckout, Bound, CreditWaited, CreditRefused, Record, RecordCredit,
     WindowChecked, Arm, PostRefused, Answered, PostFails, Found, Leave, EndCheckout, docs, wire
<1> QED
  BY <1>1, <1>2, <1>3, <1>4, <1>5 DEF ContinueCheckout

LEMMA OtherEffects ==
  ASSUME CheckoutInv, Recover \/ RuntimeAccepts
  PROVE  Effect!EffectNext \/ EffectStays
<1> USE DEF CheckoutInv, WorkInv
<1>1. CASE Reconcile
  <2>1. checkout.status = "dispatched" /\ UNCHANGED <<sent, turns>>
    BY <1>1 DEF Reconcile, Resumed, Serving, wire
  <2>2. ASSUME NEW t \in turns, checkout' = [status |-> "confirmed", turn |-> t]
        PROVE  Effect!Confirm
    BY <2>1, <2>2 DEF Effect!Confirm
  <2>3. ASSUME checkout' = [checkout EXCEPT !.status = "unknown"]
        PROVE  Effect!GiveUp
    <3>1. checkout'.status = "unknown"
      BY <2>3 DEF CheckoutTypeOK, Checkout
    <3> QED
      BY <2>1, <3>1 DEF Effect!GiveUp
  <2> QED
    BY <1>1, <2>2, <2>3 DEF Reconcile, Effect!EffectNext
<1>2. CASE Recover /\ ~ Reconcile
  BY <1>2 DEF EffectStays, Recover, Boot, RecoverStopping, RecoverStop, RecoverEnded,
     RecoverExpired, RecoverBinding, BindingBlocked, CloseBlocked, BindingReady, RecordCredit,
     RecoverArmed, Recovered, docs, wire
<1>3. CASE RuntimeAccepts
  <2>1. PICK n \in net : turns' = turns \cup {n}
    BY <1>3 DEF RuntimeAccepts
  <2>2. sent = 1 /\ n = 1 /\ turns \subseteq {1}
    BY DEF WireKnows
  <2>3. turns' = {1}
    BY <2>1, <2>2
  <2> QED
    BY <1>3, <2>2, <2>3 DEF RuntimeAccepts, docs, Effect!EffectNext, Effect!TakeEffect
<1> QED
  BY <1>1, <1>2, <1>3

LEMMA EffectStep ==
  ASSUME CheckoutInv, [CheckoutNext]_checkoutVars
  PROVE  [Effect!EffectNext]_(Effect!effectVars)
<1>1. CASE Cancel \/ WatchdogFires \/ Stop \/ Complete \/ Crash \/ TimePasses
           \/ UNCHANGED checkoutVars
  <2>1. EffectStays
    BY <1>1 DEF EffectStays, Cancel, WatchdogFires, Stop, Revoke, Account, StopFails, Settle,
       FinishStop, ClearStopError, Complete, Crash, TimePasses, checkoutVars, docs, wire
  <2> QED
    BY <2>1, EffectStutters
<1> QED
  BY <1>1, CallEffects, OtherEffects, EffectStutters DEF CheckoutNext

(* Continuing the turn after the owner paid is one effect: asked for at    *)
(* most once, after its intent is on record, and confirmed only by a turn  *)
(* that exists, over crashes, lost answers and repeated calls.             *)
THEOREM ContinuationImplementsEffect == CheckoutSpec => ContinuationIsOneEffect
<1>1. CheckoutInit => Effect!EffectInit
  BY DEF CheckoutInit, WaitingWorker, Effect!EffectInit, NoCheckout
<1>2. CheckoutInv /\ [CheckoutNext]_checkoutVars => [Effect!EffectNext]_(Effect!effectVars)
  BY EffectStep
<1> QED
  BY <1>1, <1>2, CheckoutInvariant, PTL DEF CheckoutSpec, ContinuationIsOneEffect,
     Effect!EffectSpec

-------------------------------------------------------------------------------

Kinds == {"create_customer", "create_checkout", "set_period_end",
          "schedule_cancellation", "cleanup"}
MutationNames == {"createCustomer", "beginSubscriptionCheckout",
                  "completeSubscriptionCheckout", "scheduleCancellation", "cleanup"}
InMutation == {"mutate", "request", "answer", "answered"}

ProviderTypes ==
  /\ active \in BOOLEAN /\ time \in Nat /\ periodEnd \in Nat
  /\ operation \in
       [name : MutationNames \cup {"awaitPeriodEnd", "none"},
        id : ProviderCall \cup {"none", "completeSubscriptionCheckout", "cleanup"},
        at : InMutation \cup {"idle", "find", "read", "observe", "expiry"}]
  /\ intents \in [Kinds -> [state : {"none", "sent", "answered"},
                            id : ProviderCall \cup {"none", "completeSubscriptionCheckout",
                                                    "cleanup"},
                            args : Nat]]
  /\ requests \in [Kinds -> {0, 1}] /\ effects \in [Kinds -> SUBSET {1}]
  /\ polar \in [customer : BOOLEAN, checkout : {"none", "open", "succeeded", "expired"},
                subscription : {"none", "active", "canceled"},
                cancelAtPeriodEnd : BOOLEAN, end : Nat]

(* A request follows its row, an effect its request, an answer its effect; *)
(* and whoever is about to send inserted the row and sent nothing yet.     *)
RowsFirst ==
  /\ \A kind \in Kinds :
       /\ effects[kind] # {} => requests[kind] = 1
       /\ requests[kind] = 1 => intents[kind].state # "none"
       /\ intents[kind].state = "answered" => effects[kind] # {}
  /\ operation.at \in InMutation => operation.name \in MutationNames
  /\ operation.at \in {"request", "answer"} => intents[MutationKind].state = "sent"
  /\ operation.at = "request" => requests[MutationKind] = 0

(* The period end is chosen once, before it is asked for.                  *)
PeriodOnce ==
  /\ operation.name = "completeSubscriptionCheckout" /\ operation.at \in InMutation =>
       periodEnd # 0
  /\ intents["set_period_end"].state # "none" =>
       intents["set_period_end"].args = periodEnd /\ periodEnd # 0
  /\ polar.end \in {0, periodEnd}

(* A checkout is created once and paid by who got its URL; a subscription  *)
(* comes from a paid checkout.                                             *)
CheckoutOnce ==
  /\ polar.checkout # "none" => effects["create_checkout"] # {}
  /\ polar.checkout = "succeeded" => "checkout" \in owned
  /\ polar.subscription # "none" => polar.checkout = "succeeded"

(* After such a report nothing can bring a subscription about.             *)
Quiet ==
  /\ operation.name = "cleanup" => ~ active
  /\ operation.at = "expiry" => operation.name = "cleanup"
  /\ cleanupReceipt = "retained" =>
       /\ ~ active /\ operation.name \in {"none", "cleanup"}
       /\ \/ polar.subscription = "canceled"
          \/ polar.subscription = "none"
             /\ ("checkout" \notin owned \/ polar.checkout = "expired")

ProviderInv == ProviderTypes /\ RowsFirst /\ PeriodOnce /\ CheckoutOnce /\ Quiet

-----------------------------------------------------------------------------
(* The operations and their mutations, by name. *)
LEMMA MutationNamed ==
  /\ Mutation = Kinds /\ DOMAIN MutationOf = MutationNames
  /\ MutationOf["createCustomer"] = "create_customer"
  /\ MutationOf["beginSubscriptionCheckout"] = "create_checkout"
  /\ MutationOf["completeSubscriptionCheckout"] = "set_period_end"
  /\ MutationOf["scheduleCancellation"] = "schedule_cancellation"
  /\ MutationOf["cleanup"] = "cleanup"
  BY DEF Mutation, MutationOf, Kinds, MutationNames

(* The operation under way moves on, or ends. *)
LEMMA OperationMoves ==
  ASSUME ProviderTypes
  PROVE  /\ \A place : GoesTo(place) =>
              operation'.name = operation.name /\ operation'.id = operation.id
              /\ operation'.at = place
              /\ (place \in InMutation \cup {"idle", "find", "read", "observe", "expiry"} =>
                    operation' \in [name : MutationNames \cup {"awaitPeriodEnd", "none"},
                                    id : ProviderCall \cup {"none", "cleanup",
                                                            "completeSubscriptionCheckout"},
                                    at : InMutation \cup {"idle", "find", "read", "observe",
                                                          "expiry"}])
         /\ Done => operation'.name = "none" /\ operation'.id = "none" /\ operation'.at = "idle"
                    /\ operation' \in [name : MutationNames \cup {"awaitPeriodEnd", "none"},
                                       id : ProviderCall \cup {"none", "cleanup",
                                                               "completeSubscriptionCheckout"},
                                       at : InMutation \cup {"idle", "find", "read", "observe",
                                                             "expiry"}]
  BY DEF ProviderTypes, GoesTo, Done, NoProviderOperation, InMutation

(* The invariant holds initially. *)
LEMMA ProviderInvInit == ProviderInit => ProviderInv
<1> SUFFICES ASSUME ProviderInit PROVE ProviderInv
  OBVIOUS
<1> USE MutationNamed DEF ProviderInit
<1>1. ProviderTypes
  BY DEF ProviderTypes, Kinds, InMutation, NoRow, NoProviderOperation
<1>2. RowsFirst /\ PeriodOnce /\ CheckoutOnce /\ Quiet
  BY DEF RowsFirst, PeriodOnce, CheckoutOnce, Quiet, Kinds, InMutation, NoRow,
         NoProviderOperation
<1> QED
  BY <1>1, <1>2 DEF ProviderInv

(* The steps that only read, and those that end an operation. *)
LEMMA ReadingKeeps ==
  ASSUME ProviderInv,
         Preflight \/ OperationFails \/ ReadCheckout \/ FindSubscription \/ SetPeriod
           \/ ObserveBefore \/ AwaitPeriodEnd
  PROVE  ProviderInv'
<1> USE OperationMoves DEF ProviderInv, database, network
<1> USE DEF RowsFirst, PeriodOnce, CheckoutOnce, Quiet, InMutation, MutationKind, Stands,
            Performs
<1>1. CASE Preflight
  BY <1>1 DEF Preflight, ProviderTypes
<1>2. CASE OperationFails
  BY <1>2 DEF OperationFails, Fails, ProviderTypes
<1>3. CASE ReadCheckout
  BY <1>3 DEF ReadCheckout, ProviderTypes
<1>4. CASE FindSubscription
  BY <1>4 DEF FindSubscription, ProviderTypes
<1>5. CASE SetPeriod
  BY <1>5 DEF SetPeriod, ProviderTypes, MutationNames
<1>6. CASE ObserveBefore
  BY <1>6 DEF ObserveBefore, ProviderTypes, MutationNames
<1>7. CASE AwaitPeriodEnd
  BY <1>7 DEF AwaitPeriodEnd, ProviderTypes
<1> QED
  BY <1>1, <1>2, <1>3, <1>4, <1>5, <1>6, <1>7

(* An operation begins: no cleanup before the stop, nothing else after it. *)
LEMMA BeginKeeps ==
  ASSUME ProviderInv, NEW name \in DOMAIN Needs, NEW call \in ProviderCall, Begin(name, call)
  PROVE  ProviderInv'
<1> USE DEF ProviderInv, database, network, Begin
<1>1. name \in MutationNames \cup {"awaitPeriodEnd"}
  BY DEF Needs, MutationNames
<1>2. /\ operation'.name = name /\ operation'.id = IdOf(name, call)
      /\ operation'.at = IF name \in {"createCustomer", "beginSubscriptionCheckout"} THEN "mutate"
                         ELSE IF name = "cleanup" THEN "find" ELSE "read"
  OBVIOUS
<1>3. ProviderTypes'
  BY <1>1 DEF ProviderTypes, IdOf, InMutation
<1>4. (RowsFirst /\ PeriodOnce)'
  BY <1>1, <1>2 DEF RowsFirst, PeriodOnce, InMutation, MutationNames, MutationKind
<1>5. (CheckoutOnce /\ Quiet)'
  BY <1>1, <1>2 DEF CheckoutOnce, Quiet
<1> QED
  BY <1>3, <1>4, <1>5

(* A step of #mutate inserts the row, sends its one request, or ends. *)
LEMMA MutatingKeeps ==
  ASSUME ProviderInv, Mutating
  PROVE  ProviderInv'
<1> USE OperationMoves, MutationNamed DEF ProviderInv, database, network, Stands
<1>0. operation.at \in InMutation => MutationKind \in Kinds
  BY DEF RowsFirst, MutationKind, MutationNames, Kinds
<1>1. CASE Known
  BY <1>1 DEF Known, Fails, ProviderTypes, RowsFirst, PeriodOnce, CheckoutOnce, Quiet,
              InMutation, MutationKind
<1>2. CASE Insert
  <2>1. /\ operation.name \in MutationNames /\ MutationKind \in Kinds
        /\ operation'.name = operation.name /\ operation'.at = "request"
        /\ MutationKind' = MutationKind /\ requests[MutationKind] = 0
    BY <1>0, <1>2 DEF Insert, Taken, RowsFirst, InMutation, MutationKind, ProviderTypes
  <2>2. PICK row : row = [state |-> "sent", id |-> operation.id, args |-> Arguments]
    OBVIOUS
  <2>3. /\ intents' = [intents EXCEPT ![MutationKind] = row]
        /\ row.args \in Nat /\ row.state = "sent"
        /\ operation.name = "completeSubscriptionCheckout" => row.args = periodEnd
    BY <1>2, <2>2 DEF Insert, Arguments, ProviderTypes
  <2>4. row \in [state : {"none", "sent", "answered"},
                 id : ProviderCall \cup {"none", "completeSubscriptionCheckout", "cleanup"},
                 args : Nat]
    BY <2>2, <2>3 DEF ProviderTypes
  <2>5. ProviderTypes'
    BY <1>2, <2>1, <2>3, <2>4 DEF Insert, ProviderTypes, InMutation
  <2>6. RowsFirst'
    BY <1>2, <2>1, <2>3 DEF Insert, ProviderTypes, RowsFirst, InMutation
  <2>7. MutationKind = "set_period_end" => operation.name = "completeSubscriptionCheckout"
    BY <2>1 DEF MutationKind, MutationNames
  <2>8. PeriodOnce'
    BY <1>2, <2>1, <2>3, <2>7 DEF Insert, ProviderTypes, PeriodOnce, InMutation, Kinds
  <2>9. (CheckoutOnce /\ Quiet)'
    BY <1>2, <2>1 DEF Insert, CheckoutOnce, Quiet
  <2> QED
    BY <2>5, <2>6, <2>8, <2>9
<1>3. CASE Send
  <2>1. /\ operation.name \in MutationNames /\ MutationKind \in Kinds
        /\ operation'.name = operation.name /\ operation'.at = "answer"
        /\ MutationKind' = MutationKind /\ requests[MutationKind] = 0
        /\ intents[MutationKind].state = "sent"
        /\ requests' = [requests EXCEPT ![MutationKind] = 1]
    <3>1. operation.at = "request" /\ operation.at \in InMutation /\ MutationKind \in Kinds
      BY <1>0, <1>3 DEF Send, InMutation
    <3>2. intents[MutationKind].state = "sent" /\ requests[MutationKind] = 0
          /\ operation.name \in MutationNames
      BY <3>1 DEF RowsFirst
    <3>3. operation'.name = operation.name /\ operation'.at = "answer"
      BY <1>3 DEF Send
    <3>4. requests' = [requests EXCEPT ![MutationKind] = 1]
      BY <1>3, <3>2 DEF Send
    <3> QED
      BY <3>1, <3>2, <3>3, <3>4 DEF MutationKind
  <2>2. ProviderTypes'
    BY <1>3, <2>1 DEF Send, ProviderTypes, InMutation
  <2>3. RowsFirst'
    BY <1>3, <2>1 DEF Send, ProviderTypes, RowsFirst, InMutation
  <2>4. (PeriodOnce /\ CheckoutOnce /\ Quiet)'
    BY <1>3, <2>1 DEF Send, PeriodOnce, CheckoutOnce, Quiet, InMutation
  <2> QED
    BY <2>2, <2>3, <2>4
<1>4. CASE ProviderAnswers
  <2>1. /\ operation.name \in MutationNames /\ MutationKind \in Kinds
        /\ operation'.name = operation.name /\ operation'.at = "answered"
        /\ MutationKind' = MutationKind /\ effects[MutationKind] # {}
        /\ intents' = [intents EXCEPT ![MutationKind].state = "answered"]
        /\ intents[MutationKind].state = "sent"
    BY <1>0, <1>4 DEF ProviderAnswers, RowsFirst, InMutation, MutationKind
  <2>2. ProviderTypes'
    BY <1>4, <2>1 DEF ProviderAnswers, ProviderTypes, InMutation
  <2>3. (RowsFirst /\ PeriodOnce)'
    BY <1>4, <2>1 DEF ProviderAnswers, ProviderTypes, RowsFirst, PeriodOnce, InMutation, Kinds
  <2>4. (CheckoutOnce /\ Quiet)'
    BY <1>4, <2>1 DEF ProviderAnswers, CheckoutOnce, Quiet
  <2> QED
    BY <2>2, <2>3, <2>4
<1>5. CASE Recorded
  BY <1>5 DEF Recorded, ProviderTypes, RowsFirst, PeriodOnce, CheckoutOnce, Quiet,
              InMutation, MutationKind
<1>6. CASE Confirmed
  BY <1>6 DEF Confirmed, ProviderTypes, RowsFirst, PeriodOnce, CheckoutOnce, Quiet,
              InMutation, MutationKind
<1> QED
  BY <1>1, <1>2, <1>3, <1>4, <1>5, <1>6 DEF Mutating

(* A cleanup reports retained records only when nothing runs or can start. *)
LEMMA CleaningKeeps ==
  ASSUME ProviderInv, CleaningUp
  PROVE  ProviderInv'
<1> USE OperationMoves DEF ProviderInv, database, network
<1> USE DEF RowsFirst, PeriodOnce, CheckoutOnce, Quiet, InMutation, MutationKind, Stands,
            Performs
<1>1. CASE FindForCleanup
  BY <1>1 DEF FindForCleanup, ProviderTypes, MutationNames
<1>2. CASE RevokeSubscription
  BY <1>2 DEF RevokeSubscription, ProviderTypes, MutationNames
<1>3. CASE Revoked
  BY <1>3 DEF Revoked, Cleaned, ProviderTypes
<1>4. CASE Unpaid
  BY <1>4 DEF Unpaid, Cleaned, ProviderTypes
<1> QED
  BY <1>1, <1>2, <1>3, <1>4 DEF CleaningUp

(* A request served late changes what only it can change. *)
LEMMA ServingKeeps ==
  ASSUME ProviderInv, NEW kind \in Mutation, ServeMutation(kind)
  PROVE  ProviderInv'
<1> USE DEF ProviderInv, database, network
<1>1. /\ kind \in Kinds /\ requests[kind] = 1 /\ effects[kind] = {}
      /\ effects' = [effects EXCEPT ![kind] = {1}]
      /\ intents[kind].state # "none" /\ intents[kind].args \in Nat
  <2>1. kind \in Kinds
    BY MutationNamed
  <2>2. requests[kind] \in {0, 1} /\ effects[kind] \subseteq {1}
        /\ intents[kind].args \in Nat
    BY <2>1 DEF ProviderTypes
  <2>3. requests[kind] = 1 /\ effects[kind] = {}
    BY <2>2 DEF ServeMutation
  <2>4. effects' = [effects EXCEPT ![kind] = {1}]
    BY <2>3 DEF ServeMutation
  <2> QED
    BY <2>1, <2>2, <2>3, <2>4 DEF RowsFirst
<1>2. /\ ProviderTypes /\ UNCHANGED <<active, time, operation, intents, owned, periodEnd,
                                      cleanupReceipt, requests>>
      /\ MutationKind' = MutationKind
  BY DEF ServeMutation, MutationKind
<1>3. /\ polar' \in [customer : BOOLEAN, checkout : {"none", "open", "succeeded", "expired"},
                     subscription : {"none", "active", "canceled"},
                     cancelAtPeriodEnd : BOOLEAN, end : Nat]
      /\ polar'.end = IF kind = "set_period_end" THEN intents[kind].args ELSE polar.end
      /\ polar'.checkout = IF kind = "create_checkout" THEN "open" ELSE polar.checkout
      /\ polar'.subscription = IF kind = "cleanup" THEN "canceled" ELSE polar.subscription
      /\ kind = "cleanup" => polar.subscription = "active"
  <2>1. CASE kind = "create_customer"
    BY <1>1, <2>1 DEF ServeMutation, After, ProviderTypes
  <2>2. CASE kind = "create_checkout"
    BY <1>1, <2>2 DEF ServeMutation, After, ProviderTypes
  <2>3. CASE kind = "set_period_end"
    BY <1>1, <2>3 DEF ServeMutation, After, ProviderTypes
  <2>4. CASE kind = "schedule_cancellation"
    BY <1>1, <2>4 DEF ServeMutation, After, ProviderTypes
  <2>5. CASE kind = "cleanup"
    BY <1>1, <2>5 DEF ServeMutation, After, ProviderTypes
  <2> QED
    BY <1>1, <2>1, <2>2, <2>3, <2>4, <2>5 DEF Kinds
<1>4. (ProviderTypes /\ RowsFirst)'
  BY <1>1, <1>2, <1>3 DEF ProviderTypes, RowsFirst
<1>5. PeriodOnce'
  BY <1>1, <1>2, <1>3 DEF PeriodOnce
<1>6. kind = "create_checkout" => polar.checkout = "none" /\ polar.subscription = "none"
  BY <1>1 DEF CheckoutOnce
<1>7. CheckoutOnce'
  BY <1>1, <1>2, <1>3, <1>6 DEF CheckoutOnce, ProviderTypes, Kinds
<1>8. Quiet'
  BY <1>1, <1>2, <1>3, <1>6 DEF Quiet
<1> QED
  BY <1>4, <1>5, <1>7, <1>8

(* The world moves on: a checkout ends, a subscription starts or ends. *)
LEMMA WorldKeeps ==
  ASSUME ProviderInv,
         ProcessDies \/ StopRun \/ CheckoutEnds \/ Subscribed \/ PeriodEnds \/ ClockTicks
  PROVE  ProviderInv'
<1> USE OperationMoves DEF ProviderInv, database, network
<1> USE DEF RowsFirst, PeriodOnce, CheckoutOnce, Quiet, InMutation, MutationKind
<1>1. CASE ProcessDies
  BY <1>1 DEF ProcessDies, ProviderTypes
<1>2. CASE StopRun
  <2>1. operation' = operation /\ active' = FALSE /\ cleanupReceipt' = cleanupReceipt
        /\ UNCHANGED <<time, intents, owned, periodEnd, requests, effects, polar>>
    BY <1>2 DEF StopRun
  <2>2. ProviderTypes'
    <3>1. active' \in BOOLEAN
      BY <2>1
    <3> QED
      BY <2>1, <3>1, ZenonT(30) DEF ProviderTypes
  <2>3. RowsFirst'
    BY <2>1
  <2>4. (PeriodOnce /\ CheckoutOnce)'
    BY <2>1
  <2>5. Quiet'
    BY <2>1
  <2> QED
    BY <2>2, <2>3, <2>4, <2>5
<1>3. CASE CheckoutEnds
  BY <1>3 DEF CheckoutEnds, ProviderTypes
<1>4. CASE Subscribed
  BY <1>4 DEF Subscribed, ProviderTypes
<1>5. CASE PeriodEnds
  BY <1>5 DEF PeriodEnds, ProviderTypes
<1>6. CASE ClockTicks
  BY <1>6 DEF ClockTicks, ProviderTypes
<1> QED
  BY <1>1, <1>2, <1>3, <1>4, <1>5, <1>6

(* The invariant is inductive. *)
LEMMA ProviderInvStep == ProviderInv /\ [ProviderNext]_providerVars => ProviderInv'
<1> SUFFICES ASSUME ProviderInv, [ProviderNext]_providerVars
             PROVE  ProviderInv'
  OBVIOUS
<1>1. CASE \E name \in DOMAIN Needs, call \in ProviderCall : Begin(name, call)
  BY <1>1, BeginKeeps
<1>2. CASE \E kind \in Mutation : ServeMutation(kind)
  BY <1>2, ServingKeeps
<1>3. CASE UNCHANGED providerVars
  BY <1>3 DEF providerVars, database, network, ProviderInv, ProviderTypes, RowsFirst,
              PeriodOnce, CheckoutOnce, Quiet, MutationKind
<1> QED
  BY <1>1, <1>2, <1>3, ReadingKeeps, MutatingKeeps, CleaningKeeps, WorldKeeps DEF ProviderNext

(* The intents, the requests and the provider agree in every reachable     *)
(* state: a row before its request, a request before its effect, one       *)
(* period end, and a paid checkout behind every subscription.              *)
THEOREM ProviderConsistent == ProviderSpec => []ProviderInv
BY ProviderInvInit, ProviderInvStep, PTL DEF ProviderSpec

(* Once a cleanup says that only retained records are left, no             *)
(* subscription of the run is running or ever will be, whatever is paid or *)
(* served late (PolarSandboxAdapter.cleanup).                              *)
THEOREM RetainedStaysQuiet == ProviderSpec => []RetainedIsQuiet
<1>1. ProviderInv => RetainedIsQuiet
  BY DEF ProviderInv, Quiet, RetainedIsQuiet
<1> QED
  BY <1>1, ProviderConsistent, PTL

-----------------------------------------------------------------------------
(* One mutation as an effect *)

(* A step that leaves the row, the request and the effect of a mutation    *)
(* alone is no step of its effect.                                         *)
LEMMA OthersStutter ==
  ASSUME NEW kind \in Kinds, intents'[kind].state = intents[kind].state,
         requests'[kind] = requests[kind], effects'[kind] = effects[kind]
  PROVE  UNCHANGED MutationEffect(kind)!effectVars
BY DEF MutationEffect!effectVars, IntentOf

(* Every step is a step of each mutation's effect or leaves it alone: the  *)
(* row is its dispatch, the request its issue, and so on.                  *)
LEMMA MutationSteps ==
  ASSUME ProviderInv, [ProviderNext]_providerVars, NEW kind \in Kinds
  PROVE  [MutationEffect(kind)!EffectNext]_(MutationEffect(kind)!effectVars)
<1> USE DEF ProviderInv, database, network, Stands
<1>1. CASE Insert
  <2>1. MutationKind \in Kinds /\ requests[MutationKind] = 0
        /\ effects[MutationKind] = {} /\ intents[MutationKind].state = "none"
    BY <1>1, MutationNamed DEF Insert, Taken, RowsFirst, InMutation, MutationKind, MutationNames,
       ProviderTypes, Kinds
  <2>2. intents'[MutationKind].state = "sent" /\ requests' = requests /\ effects' = effects
    BY <1>1, <2>1 DEF Insert, ProviderTypes
  <2>3. CASE kind = MutationKind
    BY <2>1, <2>2, <2>3 DEF MutationEffect!EffectNext, MutationEffect!Dispatch, IntentOf
  <2>4. CASE kind # MutationKind
    BY <1>1, <2>1, <2>2, <2>4, OthersStutter DEF Insert, ProviderTypes
  <2> QED
    BY <2>3, <2>4
<1>2. CASE Send
  <2>1. MutationKind \in Kinds /\ requests[MutationKind] = 0
        /\ intents[MutationKind].state = "sent"
    <3>1. operation.at = "request" /\ operation.name \in MutationNames
      BY <1>2 DEF Send, RowsFirst, InMutation
    <3> QED
      BY <3>1, MutationNamed DEF RowsFirst, MutationKind, MutationNames, Kinds
  <2>2. requests' = [requests EXCEPT ![MutationKind] = 1]
        /\ intents' = intents /\ effects' = effects
    BY <1>2, <2>1 DEF Send
  <2>3. CASE kind = MutationKind
    BY <2>1, <2>2, <2>3 DEF MutationEffect!EffectNext, MutationEffect!Issue, IntentOf,
       ProviderTypes
  <2>4. CASE kind # MutationKind
    BY <2>1, <2>2, <2>4, OthersStutter DEF ProviderTypes
  <2> QED
    BY <2>3, <2>4
<1>3. CASE ProviderAnswers
  <2>1. MutationKind \in Kinds /\ effects[MutationKind] # {}
        /\ intents[MutationKind].state = "sent"
    <3>1. operation.at = "answer" /\ operation.name \in MutationNames
      BY <1>3 DEF ProviderAnswers, RowsFirst, InMutation
    <3> QED
      BY <1>3, <3>1, MutationNamed DEF ProviderAnswers, RowsFirst, MutationKind,
         MutationNames, Kinds
  <2>2. intents'[MutationKind].state = "answered" /\ requests' = requests
        /\ effects' = effects
    BY <1>3, <2>1 DEF ProviderAnswers, ProviderTypes
  <2>3. CASE kind = MutationKind
    BY <2>1, <2>2, <2>3 DEF MutationEffect!EffectNext, MutationEffect!Confirm, IntentOf
  <2>4. CASE kind # MutationKind
    BY <1>3, <2>1, <2>2, <2>4, OthersStutter DEF ProviderAnswers, ProviderTypes
  <2> QED
    BY <2>3, <2>4
<1>4. CASE \E served \in Mutation : ServeMutation(served)
  <2>1. PICK served \in Mutation : ServeMutation(served)
    BY <1>4
  <2>2. served \in Kinds /\ requests[served] \in {0, 1} /\ requests[served] # 0
        /\ requests[served] \notin effects[served] /\ effects[served] \subseteq {1}
    BY <2>1, MutationNamed DEF ServeMutation, ProviderTypes
  <2>3. /\ intents' = intents /\ requests' = requests
        /\ effects' = [effects EXCEPT ![served] = @ \cup {requests[served]}]
    BY <2>1 DEF ServeMutation
  <2>4. CASE kind = served
    BY <2>2, <2>3, <2>4 DEF MutationEffect!EffectNext, MutationEffect!TakeEffect, IntentOf,
       ProviderTypes
  <2>5. CASE kind # served
    BY <2>2, <2>3, <2>5, OthersStutter DEF ProviderTypes
  <2> QED
    BY <2>4, <2>5
<1>5. CASE ~ (Insert \/ Send \/ ProviderAnswers \/ \E served \in Mutation : ServeMutation(served))
  <2>1. UNCHANGED <<intents, requests, effects>>
    BY <1>5 DEF ProviderNext, Preflight, Begin, OperationFails, ReadCheckout,
       FindSubscription, SetPeriod, ObserveBefore, AwaitPeriodEnd, Mutating, Known, Recorded,
       Confirmed, CleaningUp, FindForCleanup, RevokeSubscription, Revoked, Unpaid,
       ProcessDies, StopRun, CheckoutEnds, Subscribed, PeriodEnds, ClockTicks, providerVars
  <2> QED
    BY <2>1, OthersStutter
<1> QED
  BY <1>1, <1>2, <1>3, <1>4, <1>5

(* Each mutation of the provider implements EffectOnce: its row first, one *)
(* request, at most one effect, and a period end that is asked for and set *)
(* as it was first chosen (#mutate, #complete).                            *)
THEOREM MutationsHappenOnce == ProviderSpec => MutationsAreOneEffect
<1>1. ProviderInv => /\ intents["set_period_end"].state # "none" =>
                          intents["set_period_end"].args = periodEnd
                     /\ polar.end \in {0, periodEnd}
  BY DEF ProviderInv, PeriodOnce
<1>2. ProviderInit => \A kind \in Mutation : MutationEffect(kind)!EffectInit
  BY MutationNamed DEF ProviderInit, MutationEffect!EffectInit, IntentOf, NoRow, Kinds
<1>3. ProviderInv /\ [ProviderNext]_providerVars =>
        [\A kind \in Mutation :
           [MutationEffect(kind)!EffectNext]_(MutationEffect(kind)!effectVars)]_providerVars
  BY MutationSteps, MutationNamed
<1> QED
  BY <1>1, <1>2, <1>3, ProviderConsistent, PTL DEF ProviderSpec, MutationsAreOneEffect
=============================================================================
