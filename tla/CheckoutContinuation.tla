------------------------ MODULE CheckoutContinuation ------------------------
(***************************************************************************)
(* The external wait of a sandbox run: its turn has ended while the owner  *)
(* pays at the provider's checkout.  continueCheckout verifies the         *)
(* payment, credits the time waited to the execution window and continues  *)
(* the turn (apps/worker/src/controller.ts and checkout-continuation.ts),  *)
(* while the run may be stopped, expire, or the worker die and recover.    *)
(*                                                                         *)
(* The worker is one JavaScript thread: cpu names the frame that holds it  *)
(* and is "none" while every frame awaits.  Each write to the database is  *)
(* a step of its own, because the process may die between two of them.     *)
(***************************************************************************)
EXTENDS RunStore

CONSTANTS
  run, wait,  \* the run and the key of its external wait
  WaitSince,  \* when the wait began
  MaxSent,    \* bound on the requests to continue the turn
  MaxCrash    \* bound on the crashes of the worker

ASSUME CheckoutAssumption ==
  /\ run \in RunId /\ wait \in WaitId
  /\ WaitSince \in 0..MaxTime
  /\ MaxSent \in Nat /\ MaxCrash \in Nat

VARIABLES
  checkout,   \* document checkout-continuation
  external,   \* document external-wait
  runtime,    \* document runtime: the turn it points to and its status
  token,      \* document mcp-token exists
  stopError,  \* document stop-error: why the last finishStop failed
  sent,       \* number of requests to continue the turn, ever
  net,        \* those the runtime has not received
  turns,      \* those the runtime answered with a new turn
  worker,     \* "down", "recovering" or "up"
  crashes,    \* history: crashes so far
  cpu, pc,    \* the thread; where each frame is
  saved,      \* continueCheckout's copy of the continuation
  watchdog    \* the deadline timer is armed

docs == <<checkout, external, runtime, token, stopError>>
wire == <<sent, net, turns>>
process == <<worker, crashes>>
thread == <<cpu, pc>>
memory == <<saved, watchdog>>
checkoutVars == <<storeVars, docs, wire, process, thread, memory>>

Frame == {"resume", "stop", "boot"}
Turn == 0..MaxSent    \* 0 ended before the wait; n answers request n
Checkout == [status : {"none", "observed", "dispatched", "confirmed", "unknown"}, turn : Turn]
External == [status : {"waiting", "credited"}, startedAt : Nat, endedAt : Time]
NoCheckout == [status |-> "none", turn |-> 0]

Status == runs[run].status
Expired == now - runs[run].startedAt >= ActiveMs
Active == Status = "running" /\ ~ Expired
PastDeadline == Status = "running" /\ Expired
Waited == credits[<<run, wait>>]
WaitOpen == runtime.status = "waiting" /\ external.status = "waiting" /\ Waited = NoCredit

At(f, at) == cpu = f /\ pc[f] = at           \* f holds the thread
Resumed(f, at) == cpu = "none" /\ pc[f] = at \* what f awaited is there
Continue(f, at) == pc' = [pc EXCEPT ![f] = at] /\ cpu' = f
Await(f, at) == pc' = [pc EXCEPT ![f] = at] /\ cpu' = "none"

(* A frame ends, or awaits, and calls finishStop, which does nothing       *)
(* unless the run is stopping and no other call is at work.                *)
StartStop(f, at, status) ==
  IF status = "stopping" /\ pc["stop"] = "idle"
  THEN pc' = [pc EXCEPT ![f] = at, !["stop"] = "revoke"] /\ cpu' = "stop"
  ELSE Await(f, at)

(* expireExecutionDeadline of a run past its deadline: finishStop is left  *)
(* to continueCheckout when that is at work.                               *)
ExpireDeadline(f, at) ==
  /\ PastDeadline
  /\ RequestStop(run)
  /\ watchdog' = FALSE
  /\ IF pc["resume"] = "idle" THEN StartStop(f, at, "stopping") ELSE Await(f, at)

-----------------------------------------------------------------------------
(* continueCheckout: one call at a time *)

CallCheckout ==
  /\ worker = "up" /\ cpu = "none" /\ pc["resume"] = "idle"
  /\ checkout.status \in {"none", "observed", "dispatched"}
  /\ Status = "running" /\ runtime.status = "waiting"
  /\ saved' = checkout
  /\ Await("resume", "binding")
  /\ UNCHANGED <<storeVars, docs, wire, process, watchdog>>

(* Mutant: a stored continuation is taken for a credited one. *)
BoundSkipsCredit ==
  /\ Resumed("resume", "binding")
  /\ IF runtime.status = "waiting"
     THEN IF saved.status = "none" THEN Await("resume", "poll") ELSE Continue("resume", "window")
     ELSE Continue("resume", "end")
  /\ UNCHANGED <<storeVars, docs, wire, process, memory>>

Bound ==
  /\ Resumed("resume", "binding")
  /\ IF runtime.status = "waiting"
     THEN IF saved.status = "none" THEN Await("resume", "poll") ELSE Continue("resume", "credit")
     ELSE Continue("resume", "end")
  /\ UNCHANGED <<storeVars, docs, wire, process, memory>>

(* The provider confirms the payment. *)
Observe ==
  /\ Resumed("resume", "poll")
  /\ checkout' = [NoCheckout EXCEPT !.status = "observed"]
  /\ saved' = checkout'
  /\ Continue("resume", "credit")
  /\ UNCHANGED <<storeVars, external, runtime, token, stopError, wire, process, watchdog>>

(* The time waited is credited once: a credit that survived a crash is used *)
(* as it is.                                                               *)
CreditWaited ==
  /\ At("resume", "credit")
  /\ \/ Waited = NoCredit /\ CreditExternalWait(run, wait, external.startedAt, now)
     \/ Waited # NoCredit /\ UNCHANGED storeVars
  /\ Continue("resume", "record")
  /\ UNCHANGED <<docs, wire, process, memory>>

(* The run no longer runs, or the wait was longer than may be credited.    *)
CreditRefused ==
  /\ At("resume", "credit")
  /\ Waited = NoCredit
  /\ Status # "running" \/ now - external.startedAt > ExternalWaitMs
  /\ Continue("resume", "end")
  /\ UNCHANGED <<storeVars, docs, wire, process, memory>>

RecordCredit(f, at) ==
  /\ external' = [external EXCEPT !.status = "credited", !.endedAt = Waited.endedAt]
  /\ Continue(f, at)
  /\ UNCHANGED <<storeVars, checkout, runtime, token, stopError, wire, process>>

Record == At("resume", "record") /\ RecordCredit("resume", "window") /\ UNCHANGED memory

WindowChecked ==
  /\ At("resume", "window") \/ At("resume", "confirmed")
  /\ IF PastDeadline THEN ExpireDeadline("resume", "failed")
     ELSE /\ Await("resume", IF pc["resume"] = "window" THEN "arm" ELSE "watch")
          /\ UNCHANGED <<storeVars, watchdog>>
  /\ UNCHANGED <<docs, wire, process, saved>>

(* Mutant: a stored dispatch is repeated. *)
ArmAndDispatch ==
  /\ Resumed("resume", "arm")
  /\ IF Active
     THEN watchdog' = TRUE /\ Continue("resume", "dispatch")
     ELSE UNCHANGED watchdog /\ Continue("resume", "end")
  /\ UNCHANGED <<storeVars, docs, wire, process, saved>>

Arm ==
  /\ Resumed("resume", "arm")
  /\ IF Active
     THEN /\ watchdog' = TRUE
          /\ IF saved.status = "dispatched" THEN Await("resume", "find")
             ELSE Continue("resume", "dispatch")
     ELSE Continue("resume", "end") /\ UNCHANGED watchdog
  /\ UNCHANGED <<storeVars, docs, wire, process, saved>>

(* The intent is stored, then the runtime is asked for its newest turn. *)
Dispatch ==
  /\ At("resume", "dispatch")
  /\ checkout' = [saved EXCEPT !.status = "dispatched"]
  /\ saved' = checkout'
  /\ Await("resume", "latest")
  /\ UNCHANGED <<storeVars, external, runtime, token, stopError, wire, process, watchdog>>

(* continueTurn: the ended turn is still the newest one, and the run must  *)
(* be within its window when the request goes out.                         *)
Post ==
  /\ Resumed("resume", "latest")
  /\ turns = {} /\ Active
  /\ sent < MaxSent
  /\ sent' = sent + 1
  /\ net' = net \cup {sent + 1}
  /\ saved' = [saved EXCEPT !.turn = sent + 1]
  /\ Await("resume", "answer")
  /\ UNCHANGED <<storeVars, docs, turns, process, watchdog>>

PostRefused ==
  /\ Resumed("resume", "latest")
  /\ turns = {} /\ ~ Active
  /\ IF PastDeadline THEN ExpireDeadline("resume", "failed")
     ELSE Continue("resume", "end") /\ UNCHANGED <<storeVars, watchdog>>
  /\ UNCHANGED <<docs, wire, process, saved>>

Answered ==
  /\ Resumed("resume", "answer")
  /\ saved.turn \in turns
  /\ Continue("resume", "commit")
  /\ UNCHANGED <<storeVars, docs, wire, process, memory>>

(* Any other failure: the outcome is looked up at once. *)
PostFails ==
  /\ Resumed("resume", "latest") \/ Resumed("resume", "answer")
  /\ Await("resume", "find")
  /\ UNCHANGED <<storeVars, docs, wire, process, memory>>

Found ==
  /\ Resumed("resume", "find")
  /\ \E t \in turns : turns = {t} /\ saved' = [saved EXCEPT !.turn = t]
  /\ Continue("resume", "commit")
  /\ UNCHANGED <<storeVars, docs, wire, process, watchdog>>

(* The confirmed turn and the runtime's new cursor are one transaction.    *)
Commit ==
  /\ At("resume", "commit")
  /\ checkout' = [saved EXCEPT !.status = "confirmed"]
  /\ runtime' = [turn |-> saved.turn,
                 status |-> IF Status = "running" THEN "running" ELSE "error"]
  /\ Continue("resume", IF Status = "running" THEN "confirmed" ELSE "end")
  /\ UNCHANGED <<storeVars, external, token, stopError, wire, process, memory>>

(* An awaited call fails, finds nothing, or nothing is left to do. *)
Leave ==
  /\ cpu = "none"
  /\ pc["resume"] \in {"binding", "poll", "find", "failed", "watch"}
  /\ Continue("resume", "end")
  /\ UNCHANGED <<storeVars, docs, wire, process, memory>>

EndCheckout ==
  /\ At("resume", "end")
  /\ StartStop("resume", "idle", Status)
  /\ saved' = NoCheckout
  /\ UNCHANGED <<storeVars, docs, wire, process, watchdog>>

ContinueCheckout ==
  \/ Bound \/ Observe \/ CreditWaited \/ CreditRefused \/ Record \/ WindowChecked \/ Arm
  \/ Dispatch \/ Post \/ PostRefused \/ Answered \/ PostFails \/ Found \/ Commit
  \/ Leave \/ EndCheckout

-----------------------------------------------------------------------------
(* Stopping, and the end of the continued turn *)

Cancel ==
  /\ worker = "up" /\ cpu = "none"
  /\ Status \in {"running", "stopping"} /\ pc["stop"] = "idle"
  /\ \/ Status = "stopping" /\ UNCHANGED storeVars
     \/ RequestStop(run)
  /\ watchdog' = FALSE
  /\ StartStop("boot", "idle", "stopping")
  /\ UNCHANGED <<docs, wire, process, saved>>

WatchdogFires ==
  /\ worker = "up" /\ cpu = "none" /\ watchdog
  /\ ExpireDeadline("boot", "idle")
  /\ UNCHANGED <<docs, wire, process, saved>>

Revoke ==
  /\ At("stop", "revoke")
  /\ token' = FALSE
  /\ Continue("stop", "account")
  /\ UNCHANGED <<storeVars, checkout, external, runtime, stopError, wire, process, memory>>

(* Mutant: a continuation at work does not block the stop. *)
AccountIgnoresCheckout ==
  /\ At("stop", "account")
  /\ Await("stop", "cleanup")
  /\ UNCHANGED <<storeVars, docs, wire, process, memory>>

Account ==
  /\ At("stop", "account")
  /\ pc["resume"] = "idle"
  /\ Await("stop", "cleanup")
  /\ UNCHANGED <<storeVars, docs, wire, process, memory>>

StopFails ==
  /\ \/ At("stop", "account") /\ pc["resume"] # "idle"
     \/ Resumed("stop", "cleanup")
  /\ stopError' = TRUE
  /\ Await("stop", "idle")
  /\ UNCHANGED <<storeVars, checkout, external, runtime, token, wire, process, memory>>

Settle ==
  /\ Resumed("stop", "cleanup")
  /\ runtime' = [runtime EXCEPT !.status = IF @ = "done" THEN @ ELSE "error"]
  /\ Continue("stop", "cancel")
  /\ UNCHANGED <<storeVars, checkout, external, token, stopError, wire, process, memory>>

FinishStop ==
  /\ At("stop", "cancel")
  /\ CancelRun(run)
  /\ Continue("stop", "clear")
  /\ UNCHANGED <<docs, wire, process, memory>>

ClearStopError ==
  /\ At("stop", "clear")
  /\ stopError' = FALSE
  /\ Await("stop", "idle")
  /\ UNCHANGED <<storeVars, checkout, external, runtime, token, wire, process, memory>>

Stop == Revoke \/ Account \/ StopFails \/ Settle \/ FinishStop \/ ClearStopError

(* The continued turn completes the run (module RunLifecycle). *)
Complete ==
  /\ worker = "up" /\ cpu = "none" /\ pc["resume"] = "idle"
  /\ runtime.status = "running"
  /\ \E verdicts \in VerdictLists : FinishRun(run, verdicts)
  /\ runtime' = [runtime EXCEPT !.status = "done"]
  /\ UNCHANGED <<checkout, external, token, stopError, wire, process, thread, memory>>

-----------------------------------------------------------------------------
(* Crash and recovery *)

Crash ==
  /\ worker # "down" /\ crashes < MaxCrash
  /\ worker' = "down" /\ crashes' = crashes + 1
  /\ cpu' = "none" /\ pc' = [f \in Frame |-> "idle"]
  /\ saved' = NoCheckout /\ watchdog' = FALSE
  /\ UNCHANGED <<storeVars, docs, wire>>

Boot ==
  /\ worker = "down"
  /\ worker' = "recovering"
  /\ Continue("boot", "recover")
  /\ UNCHANGED <<storeVars, docs, wire, crashes, memory>>

(* reconcileStoppingContinuations: a dispatched continuation is looked up; *)
(* a stopping run never resumes.                                           *)
RecoverStopping ==
  /\ At("boot", "recover")
  /\ Status = "stopping"
  /\ IF checkout.status = "dispatched"
     THEN Await("boot", "reconcile") /\ UNCHANGED runtime
     ELSE /\ runtime' = IF checkout.status = "confirmed" /\ runtime.turn \in {0, checkout.turn}
                        THEN [turn |-> checkout.turn, status |-> "error"] ELSE runtime
          /\ Continue("boot", "stop")
  /\ UNCHANGED <<storeVars, checkout, external, token, stopError, wire, process, memory>>

Reconcile ==
  /\ Resumed("boot", "reconcile")
  /\ \/ \E t \in turns :
          /\ turns = {t}
          /\ checkout' = [status |-> "confirmed", turn |-> t]
          /\ runtime' = [turn |-> t, status |-> "error"]
     \/ /\ checkout' = [checkout EXCEPT !.status = "unknown"]
        /\ UNCHANGED runtime
  /\ Continue("boot", "stop")
  /\ UNCHANGED <<storeVars, external, token, stopError, wire, process, memory>>

RecoverStop ==
  /\ At("boot", "stop")
  /\ StartStop("boot", "recovered", Status)
  /\ UNCHANGED <<storeVars, docs, wire, process, memory>>

RecoverEnded ==
  /\ At("boot", "recover")
  /\ Status \in Terminal
  /\ token' = (token /\ Status # "canceled")
  /\ Await("boot", "recovered")
  /\ UNCHANGED <<storeVars, checkout, external, runtime, stopError, wire, process, memory>>

(* An open wait does not use up the execution window. *)
RecoverExpired ==
  /\ At("boot", "recover")
  /\ ~ WaitOpen
  /\ ExpireDeadline("boot", "recovered")
  /\ UNCHANGED <<docs, wire, process, saved>>

RecoverBinding ==
  /\ At("boot", "recover")
  /\ Status = "running"
  /\ WaitOpen \/ ~ Expired
  /\ Await("boot", "binding")
  /\ UNCHANGED <<storeVars, docs, wire, process, memory>>

BindingBlocked ==
  /\ Resumed("boot", "binding")
  /\ runtime' = [runtime EXCEPT !.status = "error"]
  /\ Continue("boot", "close")
  /\ UNCHANGED <<storeVars, checkout, external, token, stopError, wire, process, memory>>

CloseBlocked ==
  /\ At("boot", "close")
  /\ token' = FALSE
  /\ Await("boot", "recovered")
  /\ UNCHANGED <<storeVars, checkout, external, runtime, stopError, wire, process, memory>>

(* A credit without its marker gets it back; the deadline is armed again   *)
(* unless the wait is still open.                                          *)
BindingReady ==
  /\ Resumed("boot", "binding")
  /\ IF runtime.status = "waiting" /\ Waited # NoCredit
     THEN RecordCredit("boot", "armed")
     ELSE /\ Continue("boot", "armed")
          /\ UNCHANGED <<storeVars, docs, wire, process>>
  /\ watchdog' = ~ WaitOpen
  /\ UNCHANGED saved

RecoverArmed ==
  /\ At("boot", "armed")
  /\ Await("boot", "recovered")
  /\ UNCHANGED <<storeVars, docs, wire, process, memory>>

Recovered ==
  /\ Resumed("boot", "recovered")
  /\ pc["stop"] = "idle"
  /\ worker' = "up"
  /\ Await("boot", "idle")
  /\ UNCHANGED <<storeVars, docs, wire, crashes, memory>>

Recover ==
  \/ Boot \/ RecoverStopping \/ Reconcile \/ RecoverStop \/ RecoverEnded \/ RecoverExpired
  \/ RecoverBinding \/ BindingBlocked \/ CloseBlocked \/ BindingReady \/ RecoverArmed
  \/ Recovered

-----------------------------------------------------------------------------
(* The specification *)

(* The runtime, external: a request arrives late, or never. *)
RuntimeAccepts ==
  \E n \in net :
    /\ net' = net \ {n}
    /\ turns' = turns \cup {n}
    /\ UNCHANGED <<storeVars, docs, sent, process, thread, memory>>

(* The run has been running since time 0 and its wait began at WaitSince.  *)
WaitingRun ==
  /\ now = WaitSince
  /\ runs = [r \in RunId |-> IF r # run THEN NoRun ELSE
       [NoRun EXCEPT !.status = "running", !.active = TRUE, !.decision = "allow",
                     !.startedAt = 0]]
  /\ ops = [o \in OperationId |-> NoOperation]
  /\ credits = [rw \in RunId \X WaitId |-> NoCredit]
  /\ grants = {}

WaitingWorker ==
  /\ checkout = NoCheckout
  /\ external = [status |-> "waiting", startedAt |-> WaitSince, endedAt |-> None]
  /\ runtime = [turn |-> 0, status |-> "waiting"]
  /\ token = TRUE /\ stopError = FALSE
  /\ sent = 0 /\ net = {} /\ turns = {}
  /\ worker = "up" /\ crashes = 0
  /\ cpu = "none" /\ pc = [f \in Frame |-> "idle"]
  /\ saved = NoCheckout /\ watchdog = FALSE

CheckoutInit == WaitingRun /\ WaitingWorker

TimePasses == Tick /\ UNCHANGED <<docs, wire, process, thread, memory>>

CheckoutNext ==
  \/ CallCheckout \/ ContinueCheckout
  \/ Cancel \/ WatchdogFires \/ Stop \/ Complete
  \/ Crash \/ Recover
  \/ RuntimeAccepts \/ TimePasses

CheckoutSpec == CheckoutInit /\ [][CheckoutNext]_checkoutVars

-----------------------------------------------------------------------------
(* Properties *)

(* Continuing the turn is one effect of a stored intent, over all crashes, *)
(* lost answers and repeated calls.                                        *)
Effect == INSTANCE EffectOnce
  WITH intent <- IF checkout.status = "observed" THEN "prepared" ELSE checkout.status,
       requested <- sent, effects <- turns
ContinuationIsOneEffect == Effect!EffectSpec

(* The window grows by exactly the one credited interval, which lies       *)
(* within the wait, whatever is interrupted between the credit and its     *)
(* marker; the runtime is asked to continue only a turn whose wait is      *)
(* marked as credited, and the cursor moves only with the confirmed        *)
(* continuation.                                                           *)
ResumedIsCredited ==
  /\ runs[run].startedAt # None =>
       runs[run].startedAt =
         IF Waited = NoCredit THEN 0 ELSE Waited.endedAt - Waited.startedAt
  /\ Waited # NoCredit => Waited.startedAt = WaitSince /\ Waited.endedAt <= now
  /\ external.status = "credited" => external.endedAt = Waited.endedAt
  /\ sent > 0 => external.status = "credited"
  /\ runtime.turn # 0 => /\ checkout.status = "confirmed"
                         /\ checkout.turn = runtime.turn
                         /\ runtime.turn \in turns

(* A run is not canceled while a frame of the worker is continuing its     *)
(* turn, and has no tool capability then.  Of a request that was given up  *)
(* this says nothing: it may still arrive.                                 *)
CanceledIsQuiet ==
  Status = "canceled" => ~ token /\ pc["resume"] \notin {"latest", "answer", "commit"}

=============================================================================
