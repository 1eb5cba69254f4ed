---------------------------- MODULE PlanApproval ----------------------------
(***************************************************************************)
(* How an owner's plan decision reaches the agent runtime: decidePlan,     *)
(* resumePlanDecision, cancel, finishStop, the execution deadline and the  *)
(* worker's recovery (apps/worker/src/controller.ts), on top of the        *)
(* transactions of RunStore, for one run whose runtime turn waits for the  *)
(* owner's approval of prepare_fixture.                                    *)
(*                                                                         *)
(* The worker is one JavaScript thread.  A frame (one call of an async     *)
(* method) keeps the thread, in variable cpu, until it awaits or ends;     *)
(* only then may another frame run.  Each write to the database is a step  *)
(* of its own, because the process may die between two of them.            *)
(*                                                                         *)
(* The runtime is external: it is asked to create a turn that continues    *)
(* the waiting one, over a connection that may lose the request, lose the  *)
(* answer, or deliver the request after the worker gave up or died.        *)
(***************************************************************************)
EXTENDS RunStore

CONSTANTS
  run,        \* the run
  Caller,     \* concurrent decidePlan calls of the owner
  Binding,    \* approval and binding hash a caller may name: run, or another
  MaxSent,    \* bound on the requests sent to the runtime
  MaxCrash    \* bound on the crashes of the worker

ASSUME PlanAssumption ==
  /\ RunId = {run}
  /\ run \in Binding
  /\ Caller \cap {"boot", "stop", "none"} = {}
  /\ MaxSent \in Nat
  /\ MaxCrash \in Nat

VARIABLES
  continuation,  \* document runtime-continuation
  runtime,       \* document runtime: the turn it points to and its status
  token,         \* document mcp-token: the run's tool capability exists
  stopError,     \* document stop-error: why the last finishStop failed
  sent,          \* number of requests to continue the waiting turn, ever
  net,           \* those the runtime has not received
  turns,         \* those the runtime answered with a new turn
  worker,        \* "down", "recovering" or "up"
  crashes,       \* history: crashes so far
  cpu,           \* the frame that holds the thread, or "none"
  caller,        \* the frame that started finishStop and goes on when it awaits
  pc,            \* program counter of each frame
  local,         \* each frame's copy of the continuation
  approvalLock,  \* approvalLocks holds the run
  dispatching,   \* runtimeDispatches holds the run
  watchdog       \* the deadline timer is armed

docs == <<continuation, runtime, token, stopError>>
wire == <<sent, net, turns>>
process == <<worker, crashes>>
thread == <<cpu, caller, pc>>
memory == <<local, approvalLock, dispatching, watchdog>>
planVars == <<storeVars, docs, wire, process, thread, memory>>

Frame == Caller \cup {"boot"}          \* the frames that resume a decision
Decision == {"allow", "deny"}
Turn == 0..MaxSent                     \* 0 waits for approval; n answers request n

NoContinuation == [status |-> "none", decision |-> "allow", binding |-> run, turn |-> 0]
Continuation ==
  [status : {"none", "prepared", "dispatched", "confirmed", "unknown"},
   decision : Decision, binding : Binding, turn : Turn]
Runtime == [turn : Turn, status : {"approval", "running", "done", "error"}]

Status == runs[run].status
Decided == runs[run].decision
Expired == runs[run].startedAt # None /\ now - runs[run].startedAt >= ActiveMs
PastDeadline == Status = "running" /\ Expired
Active == Status = "running" /\ Decided = "allow" /\ ~ Expired

-----------------------------------------------------------------------------
(* Frames *)

(* The frame goes on to its next write without giving up the thread. *)
Continue(f, at) == pc' = [pc EXCEPT ![f] = at] /\ UNCHANGED <<cpu, caller>>

(* The frame awaits; the thread is free.  This holds for an await of a     *)
(* promise that is settled already, too: what else is ready goes first.    *)
Await(f, at) == pc' = [pc EXCEPT ![f] = at] /\ cpu' = "none" /\ UNCHANGED caller

(* A call of decidePlan ends; recovery goes on, after an error elsewhere. *)
After(f, error) ==
  IF f # "boot" THEN "idle" ELSE IF error THEN "recovery_failed" ELSE "recover_rest"

End(f, error) ==
  /\ pc' = [pc EXCEPT ![f] = After(f, error)]
  /\ cpu' = IF f = "boot" THEN f ELSE "none"
  /\ UNCHANGED caller

(* finishStop is called and the frame goes to `at`.  The call has no       *)
(* effect unless the run is stopping and no other call is at work (then it *)
(* returns at once); otherwise it runs until it awaits, and then the frame *)
(* has the thread again, or nobody if the frame has ended.                 *)
StartStop(f, at) ==
  LET next == IF at = "idle" THEN "none" ELSE f IN
  IF pc["stop"] = "idle"
  THEN /\ pc' = [pc EXCEPT !["stop"] = "revoke", ![f] = at]
       /\ cpu' = "stop"
       /\ caller' = next
  ELSE /\ pc' = [pc EXCEPT ![f] = at]
       /\ cpu' = next
       /\ UNCHANGED caller

(* decidePlan releases its lock when the frame first awaits inside         *)
(* resumePlanDecision, whose promise it returns without awaiting it.       *)
Unlock(f) == approvalLock' = IF f = "boot" THEN approvalLock ELSE FALSE

(* expireExecutionDeadline of a run past its deadline. *)
ExpireDeadline(f, at) ==
  /\ PastDeadline
  /\ RequestStop(run)
  /\ watchdog' = FALSE
  /\ IF dispatching THEN pc' = [pc EXCEPT ![f] = at]
                         /\ cpu' = (IF at = "idle" THEN "none" ELSE f)
                         /\ UNCHANGED caller
     ELSE StartStop(f, at)

-----------------------------------------------------------------------------
(* decidePlan *)

MayCall(c) ==
  /\ worker = "up" /\ cpu = "none" /\ pc[c] = "idle"
  /\ ~ approvalLock
  /\ Status # "absent"

(* The first decision: the approval the runtime waits for is inspected     *)
(* (and, to allow, the adapter binding) before anything is stored.         *)
DecideFirst(c, decision, binding) ==
  /\ MayCall(c)
  /\ continuation.status = "none"
  /\ runtime.status = "approval"
  /\ approvalLock' = TRUE
  /\ local' = [local EXCEPT ![c] =
       [status |-> "prepared", decision |-> decision, binding |-> binding, turn |-> 0]]
  /\ Await(c, "inspect")
  /\ UNCHANGED <<storeVars, docs, wire, process, dispatching, watchdog>>

(* A decision repeated while one is stored resumes the stored one. *)
DecideAgain(c) ==
  /\ MayCall(c)
  /\ continuation.status # "none"
  /\ continuation.binding = run
  /\ approvalLock' = TRUE
  /\ local' = [local EXCEPT ![c] = continuation]
  /\ cpu' = c
  /\ pc' = [pc EXCEPT ![c] = "resume"]
  /\ UNCHANGED <<storeVars, docs, wire, process, caller, dispatching, watchdog>>

InspectFails(c) ==
  /\ pc[c] = "inspect" /\ cpu = "none"
  /\ approvalLock' = FALSE
  /\ End(c, TRUE)
  /\ UNCHANGED <<storeVars, docs, wire, process, local, dispatching, watchdog>>

(* The decision is stored before anything acts on it. *)
Prepare(c) ==
  /\ pc[c] = "inspect" /\ cpu = "none"
  /\ continuation' = local[c]
  /\ cpu' = c
  /\ pc' = [pc EXCEPT ![c] = "resume_inspected"]
  /\ UNCHANGED <<storeVars, runtime, token, stopError, wire, process, caller, memory>>

-----------------------------------------------------------------------------
(* resumePlanDecision *)

Resuming(f) == cpu = f /\ pc[f] \in {"resume", "resume_inspected"}

(* A stored continuation that names another approval or whose outcome is   *)
(* unknown, or that needs a fresh inspection the runtime does not wait for.*)
ResumeRefused(f) ==
  /\ Resuming(f)
  /\ \/ local[f].binding # run
     \/ local[f].status = "unknown"
     \/ /\ local[f].status = "prepared"
        /\ ~ (local[f].decision = "allow"
                /\ Status \notin {"awaiting_plan_approval", "running"})
        /\ pc[f] = "resume" /\ runtime.status # "approval"
  /\ Unlock(f)
  /\ End(f, TRUE)
  /\ UNCHANGED <<storeVars, docs, wire, process, local, dispatching, watchdog>>

(* An allow prepared for a run that has stopped meanwhile. *)
ResumeStopped(f) ==
  /\ Resuming(f)
  /\ local[f].binding = run
  /\ local[f].status = "prepared" /\ local[f].decision = "allow"
  /\ Status \notin {"awaiting_plan_approval", "running"}
  /\ token' = FALSE
  /\ Unlock(f)
  /\ End(f, FALSE)
  /\ UNCHANGED <<storeVars, continuation, runtime, stopError, wire, process, local, dispatching, watchdog>>

(* Prepared: inspect the approval (unless just done) and, to allow, the    *)
(* adapter binding.  A denial that was just inspected does not await here. *)
ResumePrepared(f) ==
  /\ Resuming(f)
  /\ local[f].binding = run
  /\ local[f].status = "prepared"
  /\ local[f].decision = "allow" => Status \in {"awaiting_plan_approval", "running"}
  /\ pc[f] = "resume" => runtime.status = "approval"
  /\ IF pc[f] = "resume_inspected" /\ local[f].decision = "deny"
     THEN Continue(f, "decide") /\ UNCHANGED approvalLock
     ELSE Await(f, "gate") /\ Unlock(f)
  /\ UNCHANGED <<storeVars, docs, wire, process, local, dispatching, watchdog>>

ResumeSettled(f) ==
  /\ Resuming(f)
  /\ local[f].binding = run
  /\ local[f].status \in {"dispatched", "confirmed"}
  /\ Continue(f, "decide")
  /\ UNCHANGED <<storeVars, docs, wire, process, memory>>

(* The awaited inspection answers or fails. *)
Gate(f) ==
  /\ pc[f] = "gate" /\ cpu = "none"
  /\ UNCHANGED <<storeVars, docs, wire, process, memory>>
  /\ \/ cpu' = f /\ pc' = [pc EXCEPT ![f] = "decide"] /\ UNCHANGED caller
     \/ End(f, TRUE)

(* Mutant: a stored dispatch is repeated. *)
DispatchAgainAfterDecide(f) ==
  IF local[f].status = "confirmed" THEN "tail"
  ELSE IF local[f].decision = "allow" THEN "window" ELSE "mark"

NextAfterDecide(f) ==
  CASE local[f].status = "prepared" ->
         IF local[f].decision = "allow" THEN "window" ELSE "mark"
    [] local[f].status = "dispatched" -> "find"
    [] OTHER -> "tail"

(* runs.decidePlan: records the decision, or finds the same one recorded. *)
Record(f) ==
  /\ cpu = f /\ pc[f] = "decide"
  /\ \/ DecidePlan(run, local[f].binding, local[f].decision)
     \/ Decided = local[f].decision /\ UNCHANGED storeVars
  /\ Continue(f, NextAfterDecide(f))
  /\ UNCHANGED <<docs, wire, process, memory>>

(* Mutant: a decision the store refuses is dispatched all the same. *)
RecordRefusedUnnoticed(f) ==
  /\ cpu = f /\ pc[f] = "decide"
  /\ Decided # local[f].decision
  /\ Continue(f, NextAfterDecide(f))
  /\ UNCHANGED <<storeVars, docs, wire, process, memory>>

(* ... or refuses: stale, expired or contradicting. *)
RecordRefused(f) ==
  /\ cpu = f /\ pc[f] = "decide"
  /\ Decided # local[f].decision
  /\ ~ (Decided = "pending" /\ Status = "awaiting_plan_approval"
         /\ now < runs[run].expiresAt)
  /\ Unlock(f)
  /\ End(f, TRUE)
  /\ UNCHANGED <<storeVars, docs, wire, process, local, dispatching, watchdog>>

(* To allow, the execution window must be open; the answer is awaited.     *)
WindowExpired(f) ==
  /\ cpu = f /\ pc[f] = "window"
  /\ ExpireDeadline(f, After(f, FALSE))
  /\ UNCHANGED <<docs, wire, process, local, approvalLock, dispatching>>

WindowOpen(f) ==
  /\ cpu = f /\ pc[f] = "window"
  /\ ~ PastDeadline
  /\ Unlock(f)
  /\ Await(f, "mark")
  /\ UNCHANGED <<storeVars, docs, wire, process, local, dispatching, watchdog>>

Mark(f) ==
  /\ cpu \in {f, "none"} /\ pc[f] = "mark"
  /\ local' = [local EXCEPT ![f].status = "dispatched"]
  /\ continuation' = [local[f] EXCEPT !.status = "dispatched"]
  /\ dispatching' = TRUE
  /\ Unlock(f)
  /\ Await(f, "latest")
  /\ UNCHANGED <<storeVars, runtime, token, stopError, wire, process, watchdog>>

(* continueApproval: the waiting turn must still be the newest one ...     *)
Latest(f) ==
  /\ pc[f] = "latest" /\ cpu = "none"
  /\ UNCHANGED <<storeVars, docs, wire, process, memory>>
  /\ \/ turns = {} /\ Await(f, "pending")
     \/ cpu' = f /\ pc' = [pc EXCEPT ![f] = "rejected"] /\ UNCHANGED caller

(* ... and, once its pending approvals are read, an allow must still be    *)
(* within the execution window when the request goes out (beforeDispatch). *)
Post(f) ==
  /\ pc[f] = "pending" /\ cpu = "none"
  /\ sent < MaxSent
  /\ local[f].decision = "allow" => Active
  /\ sent' = sent + 1
  /\ net' = net \cup {sent + 1}
  /\ local' = [local EXCEPT ![f].turn = sent + 1]
  /\ Await(f, "answer")
  /\ UNCHANGED <<storeVars, docs, turns, process, approvalLock, dispatching, watchdog>>

PostRefused(f) ==
  /\ pc[f] = "pending" /\ cpu = "none"
  /\ local[f].decision = "allow" /\ ~ Active
  /\ IF PastDeadline
     THEN RequestStop(run) /\ watchdog' = FALSE /\ Await(f, "rejected")
     ELSE UNCHANGED <<storeVars, watchdog>> /\ Continue(f, "rejected")
  /\ UNCHANGED <<docs, wire, process, local, approvalLock, dispatching>>

(* The request fails for the worker, whatever becomes of it in the network. *)
PostFails(f) ==
  /\ pc[f] \in {"pending", "answer"} /\ cpu = "none"
  /\ cpu' = f
  /\ pc' = [pc EXCEPT ![f] = "rejected"]
  /\ UNCHANGED <<storeVars, caller, docs, wire, process, memory>>

Answered(f) ==
  /\ pc[f] = "answer" /\ cpu = "none"
  /\ local[f].turn \in turns
  /\ dispatching' = FALSE
  /\ IF Status = "stopping"
     THEN StartStop(f, "commit")
     ELSE cpu' = f /\ pc' = [pc EXCEPT ![f] = "commit"] /\ UNCHANGED caller
  /\ UNCHANGED <<storeVars, docs, wire, process, local, approvalLock, watchdog>>

(* Mutant: the frame that blocked a stop does not try it again. *)
RejectedForgetsStop(f) ==
  /\ cpu \in {f, "none"} /\ pc[f] = "rejected"
  /\ dispatching' = FALSE
  /\ End(f, TRUE)
  /\ UNCHANGED <<storeVars, docs, wire, process, local, approvalLock, watchdog>>

Rejected(f) ==
  /\ cpu \in {f, "none"} /\ pc[f] = "rejected"
  /\ dispatching' = FALSE
  /\ IF Status = "stopping" THEN StartStop(f, After(f, TRUE)) ELSE End(f, TRUE)
  /\ UNCHANGED <<storeVars, docs, wire, process, local, approvalLock, watchdog>>

(* commitPlanContinuation: the confirmed turn and the runtime's new cursor *)
(* are one transaction.                                                    *)
CommitDocs(c, turn) ==
  /\ continuation' = [c EXCEPT !.status = "confirmed", !.turn = turn]
  /\ runtime' = [turn |-> turn,
                 status |-> IF c.decision = "deny" THEN "done"
                            ELSE IF Status = "running" THEN "running" ELSE "error"]

Commit(f) ==
  /\ cpu = f /\ pc[f] = "commit"
  /\ CommitDocs(local[f], local[f].turn)
  /\ Continue(f, "tail")
  /\ UNCHANGED <<storeVars, token, stopError, wire, process, memory>>

(* A stored dispatch is only looked up, never repeated. *)
Find(f) ==
  /\ cpu = f /\ pc[f] = "find"
  /\ Unlock(f)
  /\ Await(f, "found")
  /\ UNCHANGED <<storeVars, docs, wire, process, local, dispatching, watchdog>>

Found(f) ==
  /\ pc[f] = "found" /\ cpu = "none"
  /\ \E t \in turns :
       /\ turns = {t}
       /\ local' = [local EXCEPT ![f].turn = t]
  /\ cpu' = f
  /\ pc' = [pc EXCEPT ![f] = "commit"]
  /\ UNCHANGED <<storeVars, caller, docs, wire, process, approvalLock, dispatching, watchdog>>

(* Nothing to find yet; a denial gives up the tool capability here. *)
NotFound(f) ==
  /\ pc[f] = "found" /\ cpu = "none"
  /\ turns = {}
  /\ token' = (token /\ local[f].decision = "allow")
  /\ End(f, TRUE)
  /\ UNCHANGED <<storeVars, continuation, runtime, stopError, wire, process, memory>>

(* The lookup (or the binding check before it) fails, or two turns match.  *)
FindFails(f) ==
  /\ pc[f] = "found" /\ cpu = "none"
  /\ End(f, TRUE)
  /\ UNCHANGED <<storeVars, docs, wire, process, memory>>

TailDeny(f) ==
  /\ cpu = f /\ pc[f] = "tail"
  /\ local[f].decision = "deny"
  /\ token' = FALSE
  /\ watchdog' = FALSE
  /\ Unlock(f)
  /\ End(f, FALSE)
  /\ UNCHANGED <<storeVars, continuation, runtime, stopError, wire, process, local, dispatching>>

(* A run that is allowed and still running is watched from now on. *)
TailAllow(f) ==
  /\ cpu = f /\ pc[f] = "tail"
  /\ local[f].decision = "allow"
  /\ CASE f = "boot" \/ Status # "running" -> End(f, FALSE) /\ UNCHANGED <<storeVars, watchdog>>
       [] f # "boot" /\ PastDeadline -> ExpireDeadline(f, "idle")
       [] OTHER -> Await(f, "arm") /\ UNCHANGED <<storeVars, watchdog>>
  /\ Unlock(f)
  /\ UNCHANGED <<docs, wire, process, local, dispatching>>

Arm(f) ==
  /\ cpu = "none" /\ pc[f] = "arm"
  /\ IF PastDeadline
     THEN ExpireDeadline(f, "idle")
     ELSE /\ watchdog' = (watchdog \/ Status = "running")
          /\ End(f, FALSE)
          /\ UNCHANGED storeVars
  /\ UNCHANGED <<docs, wire, process, local, approvalLock, dispatching>>

Resume(f) ==
  \/ ResumeRefused(f) \/ ResumeStopped(f) \/ ResumePrepared(f) \/ ResumeSettled(f)
  \/ Gate(f) \/ Record(f) \/ RecordRefused(f)
  \/ WindowExpired(f) \/ WindowOpen(f) \/ Mark(f)
  \/ Latest(f) \/ Post(f) \/ PostRefused(f) \/ PostFails(f)
  \/ Answered(f) \/ Rejected(f) \/ Commit(f)
  \/ Find(f) \/ Found(f) \/ NotFound(f) \/ FindFails(f)
  \/ TailDeny(f) \/ TailAllow(f) \/ Arm(f)

-----------------------------------------------------------------------------
(* Stopping *)

(* cancel: the stop is recorded at once, and finished in the background. *)
Cancel ==
  /\ worker = "up" /\ cpu = "none"
  /\ \/ RequestStop(run)
     \/ Status = "stopping" /\ UNCHANGED storeVars
  /\ watchdog' = FALSE
  /\ pc["stop"] = "idle"
  /\ pc' = [pc EXCEPT !["stop"] = "revoke"]
  /\ cpu' = "stop"
  /\ UNCHANGED <<docs, wire, process, caller, local, approvalLock, dispatching>>

(* The deadline timer fires. *)
WatchdogFires ==
  /\ worker = "up" /\ cpu = "none"
  /\ watchdog
  /\ PastDeadline
  /\ RequestStop(run)
  /\ watchdog' = FALSE
  /\ IF dispatching \/ pc["stop"] # "idle"
     THEN UNCHANGED <<pc, cpu>>
     ELSE pc' = [pc EXCEPT !["stop"] = "revoke"] /\ cpu' = "stop"
  /\ UNCHANGED <<docs, wire, process, caller, local, approvalLock, dispatching>>

(* finishStop gives the thread back to the frame that started it. *)
YieldStop(at) ==
  /\ pc' = [pc EXCEPT !["stop"] = at]
  /\ cpu' = caller
  /\ caller' = "none"

(* The capability is revoked first, whatever comes after. *)
Revoke ==
  /\ cpu = "stop" /\ pc["stop"] = "revoke"
  /\ token' = FALSE
  /\ Continue("stop", "account")
  /\ UNCHANGED <<storeVars, continuation, runtime, stopError, wire, process, memory>>

(* A dispatch in flight blocks the stop; its frame will try again. *)
Blocked ==
  /\ cpu = "stop" /\ pc["stop"] = "account"
  /\ dispatching
  /\ stopError' = TRUE
  /\ YieldStop("idle")
  /\ UNCHANGED <<storeVars, continuation, runtime, token, wire, process, memory>>

(* Mutant: a dispatch in flight does not block the stop. *)
AccountIgnoresDispatch ==
  /\ cpu = "stop" /\ pc["stop"] = "account"
  /\ IF Decided = "allow" THEN YieldStop("cleanup") ELSE Continue("stop", "settle")
  /\ UNCHANGED <<storeVars, docs, wire, process, memory>>

(* An allowed run is cleaned up before it is canceled. *)
Account ==
  /\ cpu = "stop" /\ pc["stop"] = "account"
  /\ ~ dispatching
  /\ IF Decided = "allow" THEN YieldStop("cleanup") ELSE Continue("stop", "settle")
  /\ UNCHANGED <<storeVars, docs, wire, process, memory>>

CleanupDone ==
  /\ pc["stop"] = "cleanup" /\ cpu = "none"
  /\ pc' = [pc EXCEPT !["stop"] = "settle"]
  /\ cpu' = "stop"
  /\ UNCHANGED <<storeVars, docs, wire, process, caller, memory>>

(* A refused cleanup leaves the run stopping until cancel is called again. *)
CleanupFails ==
  /\ pc["stop"] = "cleanup" /\ cpu = "none"
  /\ stopError' = TRUE
  /\ pc' = [pc EXCEPT !["stop"] = "idle"]
  /\ UNCHANGED <<storeVars, continuation, runtime, token, wire, process, cpu, caller, memory>>

Settle ==
  /\ cpu = "stop" /\ pc["stop"] = "settle"
  /\ runtime' = IF runtime.status \in {"done", "error"} THEN runtime
                ELSE [runtime EXCEPT !.status = "error"]
  /\ Continue("stop", "cancel")
  /\ UNCHANGED <<storeVars, continuation, token, stopError, wire, process, memory>>

FinishStop ==
  /\ cpu = "stop" /\ pc["stop"] = "cancel"
  /\ CancelRun(run)
  /\ Continue("stop", "clear")
  /\ UNCHANGED <<docs, wire, process, memory>>

ClearStopError ==
  /\ cpu = "stop" /\ pc["stop"] = "clear"
  /\ stopError' = FALSE
  /\ YieldStop("idle")
  /\ UNCHANGED <<storeVars, continuation, runtime, token, wire, process, memory>>

Stop ==
  \/ Revoke \/ Blocked \/ Account \/ CleanupDone \/ CleanupFails
  \/ Settle \/ FinishStop \/ ClearStopError

(* The lifecycle the runtime drives from the confirmed turn completes the  *)
(* run.  External here: the tools and the watcher are another component.   *)
Complete ==
  /\ worker = "up" /\ cpu = "none"
  /\ continuation.status = "confirmed" /\ runtime.status = "running"
  /\ \E verdicts \in VerdictLists : FinishRun(run, verdicts)
  /\ runtime' = [runtime EXCEPT !.status = "done"]
  /\ UNCHANGED <<continuation, token, stopError, wire, process, thread, memory>>

-----------------------------------------------------------------------------
(* Crash and recovery *)

Crash ==
  /\ worker # "down" /\ crashes < MaxCrash
  /\ worker' = "down"
  /\ crashes' = crashes + 1
  /\ cpu' = "none" /\ caller' = "none"
  /\ pc' = [f \in Frame \cup {"stop"} |-> "idle"]
  /\ local' = [f \in Frame |-> NoContinuation]
  /\ approvalLock' = FALSE /\ dispatching' = FALSE /\ watchdog' = FALSE
  /\ UNCHANGED <<storeVars, docs, wire>>

Boot ==
  /\ worker = "down"
  /\ worker' = "recovering"
  /\ cpu' = "boot"
  /\ pc' = [pc EXCEPT !["boot"] = "recover"]
  /\ UNCHANGED <<storeVars, docs, wire, crashes, caller, memory>>

Recovering(at) == cpu = "boot" /\ pc["boot"] = at

(* reconcileStoppingContinuations: what became of a dispatched decision is *)
(* looked up; a stopping run never resumes.                                *)
RecoverStopping ==
  /\ Recovering("recover")
  /\ Status = "stopping"
  /\ continuation.status # "none" => continuation.binding = run
  /\ IF continuation.status = "dispatched"
     THEN Await("boot", "reconcile") /\ UNCHANGED runtime
     ELSE /\ runtime' = IF /\ continuation.status = "confirmed"
                           /\ continuation.decision = "allow"
                           /\ runtime.turn \in {0, continuation.turn}
                        THEN [turn |-> continuation.turn, status |-> "error"]
                        ELSE runtime
          /\ Continue("boot", "stop_recovered")
  /\ UNCHANGED <<storeVars, continuation, token, stopError, wire, process, memory>>

(* A continuation stored for another approval cannot be read at all. *)
RecoverStoppingFails ==
  /\ Recovering("recover")
  /\ Status = "stopping"
  /\ continuation.status # "none" /\ continuation.binding # run
  /\ stopError' = TRUE
  /\ Continue("boot", "recovered")
  /\ UNCHANGED <<storeVars, continuation, runtime, token, wire, process, memory>>

Reconcile ==
  /\ pc["boot"] = "reconcile" /\ cpu = "none"
  /\ \/ \E t \in turns :
          /\ turns = {t}
          /\ continuation' = [continuation EXCEPT !.status = "confirmed", !.turn = t]
          /\ runtime' = IF runtime.turn \in {0, t}
                        THEN [turn |-> t, status |-> "error"] ELSE runtime
     \/ /\ continuation' = [continuation EXCEPT !.status = "unknown"]
        /\ UNCHANGED runtime
  /\ cpu' = "boot"
  /\ pc' = [pc EXCEPT !["boot"] = "stop_recovered"]
  /\ UNCHANGED <<storeVars, token, stopError, wire, process, caller, memory>>

RecoverStop ==
  /\ Recovering("stop_recovered")
  /\ StartStop("boot", "recovered")
  /\ UNCHANGED <<storeVars, docs, wire, process, memory>>

RecoverConfirmed ==
  /\ Recovering("recover")
  /\ Status # "stopping"
  /\ continuation.status = "confirmed" /\ continuation.binding = run
  /\ token' = (token /\ continuation.decision = "allow")
  /\ IF continuation.decision = "allow" /\ Status = "running"
          /\ runtime = [turn |-> 0, status |-> "approval"]
     THEN CommitDocs(continuation, continuation.turn)
     ELSE UNCHANGED <<continuation, runtime>>
  /\ Continue("boot", "recover_rest")
  /\ UNCHANGED <<storeVars, stopError, wire, process, memory>>

RecoverPending ==
  /\ Recovering("recover")
  /\ Status # "stopping"
  /\ \/ continuation.status \in {"prepared", "dispatched", "unknown"}
     \/ continuation.status # "none" /\ continuation.binding # run
  /\ local' = [local EXCEPT !["boot"] = continuation]
  /\ Continue("boot", "resume")
  /\ UNCHANGED <<storeVars, docs, wire, process, approvalLock, dispatching, watchdog>>

RecoverUndecided ==
  /\ Recovering("recover")
  /\ Status # "stopping"
  /\ continuation.status = "none"
  /\ Continue("boot", "recover_rest")
  /\ UNCHANGED <<storeVars, docs, wire, process, memory>>

(* An error while resuming closes the runtime and the capability. *)
RecoveryFailed ==
  /\ Recovering("recovery_failed")
  /\ runtime' = [runtime EXCEPT !.status = "error"]
  /\ Continue("boot", "revoke")
  /\ UNCHANGED <<storeVars, continuation, token, stopError, wire, process, memory>>

RecoveryRevokes ==
  /\ Recovering("revoke")
  /\ token' = FALSE
  /\ Continue("boot", "recovered")
  /\ UNCHANGED <<storeVars, continuation, runtime, stopError, wire, process, memory>>

RecoverEnded ==
  /\ Recovering("recover_rest")
  /\ Status \in {"stopping"} \cup Terminal
  /\ token' = (token /\ Status # "canceled")
  /\ Continue("boot", "recovered")
  /\ UNCHANGED <<storeVars, continuation, runtime, stopError, wire, process, memory>>

RecoverExpired ==
  /\ Recovering("recover_rest")
  /\ ExpireDeadline("boot", "recovered")
  /\ UNCHANGED <<docs, wire, process, local, approvalLock, dispatching>>

RecoverBinding ==
  /\ Recovering("recover_rest")
  /\ Status \in {"awaiting_plan_approval", "running"} /\ ~ PastDeadline
  /\ Await("boot", "binding")
  /\ UNCHANGED <<storeVars, docs, wire, process, memory>>

BindingBlocked ==
  /\ pc["boot"] = "binding" /\ cpu = "none"
  /\ cpu' = "boot"
  /\ pc' = [pc EXCEPT !["boot"] = "recovery_failed"]
  /\ watchdog' = FALSE
  /\ UNCHANGED <<storeVars, docs, wire, process, caller, local, approvalLock, dispatching>>

(* The watchdog is armed; a run whose runtime failed before the plan was   *)
(* approved is stopped.                                                    *)
BindingReady ==
  /\ pc["boot"] = "binding" /\ cpu = "none"
  /\ watchdog' = (Status = "running")
  /\ IF Status = "awaiting_plan_approval" /\ runtime.status = "error"
     THEN RequestStop(run) /\ StartStop("boot", "recovered")
     ELSE /\ cpu' = "boot" /\ pc' = [pc EXCEPT !["boot"] = "recovered"]
          /\ UNCHANGED <<storeVars, caller>>
  /\ UNCHANGED <<docs, wire, process, local, approvalLock, dispatching>>

(* Serving starts when recovery has ended, a stop it awaits included. *)
Recovered ==
  /\ Recovering("recovered")
  /\ IF pc["stop"] = "idle"
     THEN worker' = "up" /\ pc' = [pc EXCEPT !["boot"] = "idle"]
     ELSE UNCHANGED <<worker, pc>>
  /\ cpu' = "none"
  /\ UNCHANGED <<storeVars, docs, wire, crashes, caller, memory>>

RecoveryResumes ==
  /\ cpu = "none" /\ pc["boot"] = "recovered" /\ pc["stop"] = "idle"
  /\ cpu' = "boot"
  /\ UNCHANGED <<storeVars, docs, wire, process, caller, pc, memory>>

Recover ==
  \/ Boot \/ RecoverStopping \/ RecoverStoppingFails \/ Reconcile \/ RecoverStop \/ RecoverConfirmed
  \/ RecoverPending \/ RecoverUndecided \/ RecoveryFailed \/ RecoveryRevokes
  \/ RecoverEnded \/ RecoverExpired \/ RecoverBinding \/ BindingBlocked
  \/ BindingReady \/ Recovered \/ RecoveryResumes

-----------------------------------------------------------------------------
(* The runtime, external: modelled from how trueforge.ts uses it. *)

(* A request may arrive at any time, or never (it is lost, or refused: a   *)
(* turn that is continued already may be continued again or not).          *)
RuntimeAccepts ==
  \E n \in net :
    /\ net' = net \ {n}
    /\ turns' = turns \cup {n}
    /\ UNCHANGED <<storeVars, docs, sent, process, thread, memory>>

-----------------------------------------------------------------------------
(* The specification *)

PlanInit ==
  /\ now = 0
  /\ runs = [r \in RunId |->
       [NoRun EXCEPT !.status = "awaiting_plan_approval", !.active = TRUE,
                     !.expiresAt = ApprovalMs]]
  /\ ops = [o \in OperationId |-> NoOperation]
  /\ credits = [rw \in RunId \X WaitId |-> NoCredit]
  /\ grants = {}
  /\ continuation = NoContinuation
  /\ runtime = [turn |-> 0, status |-> "approval"]
  /\ token = TRUE /\ stopError = FALSE
  /\ sent = 0 /\ net = {} /\ turns = {}
  /\ worker = "up" /\ crashes = 0
  /\ cpu = "none" /\ caller = "none"
  /\ pc = [f \in Frame \cup {"stop"} |-> "idle"]
  /\ local = [f \in Frame |-> NoContinuation]
  /\ approvalLock = FALSE /\ dispatching = FALSE /\ watchdog = FALSE

TimePasses == Tick /\ UNCHANGED <<docs, wire, process, thread, memory>>

Owner ==
  \/ \E c \in Caller :
       \/ \E d \in Decision, b \in Binding : DecideFirst(c, d, b)
       \/ DecideAgain(c) \/ InspectFails(c) \/ Prepare(c)
  \/ Cancel

PlanNext ==
  \/ Owner
  \/ \E f \in Frame : Resume(f)
  \/ WatchdogFires \/ Stop \/ Complete
  \/ Crash \/ Recover
  \/ RuntimeAccepts
  \/ TimePasses

PlanSpec == PlanInit /\ [][PlanNext]_planVars

(* The thread runs on, every awaited answer or its timeout comes, and the  *)
(* event loop serves what is ready in order, so that no frame that becomes *)
(* ready again and again is passed over for ever; a dead worker is         *)
(* restarted.  Nothing is assumed of the owner or of the network.          *)
PlanFairness ==
  /\ \A f \in Frame : SF_planVars(Resume(f))
  /\ \A c \in Caller : SF_planVars(InspectFails(c) \/ Prepare(c))
  /\ SF_planVars(Stop)
  /\ SF_planVars(Recover)
  /\ SF_planVars(WatchdogFires)

FairPlanSpec == PlanSpec /\ PlanFairness

-----------------------------------------------------------------------------
(* Properties *)

(* Every decision is the runtime effect of a stored intent, requested at   *)
(* most once and confirmed only when the turn exists, over all crashes,    *)
(* lost answers and repeated calls.                                        *)
Effect == INSTANCE EffectOnce
            WITH intent <- continuation.status, requested <- sent, effects <- turns
DecisionIsOneEffect == Effect!EffectSpec

(* The decision the runtime may have seen is the one the run records: a    *)
(* dispatched or confirmed decision never disagrees with the approval; and *)
(* the cursor never points past the waiting turn unless the continuation   *)
(* to that very turn is confirmed and the runtime created it.              *)
DispatchedIsRecorded ==
  /\ continuation.status \in {"dispatched", "confirmed", "unknown"} =>
       continuation.decision = Decided
  /\ runtime.turn # 0 => /\ continuation.status = "confirmed"
                         /\ continuation.turn = runtime.turn
                         /\ runtime.turn \in turns

(* The runtime is asked at most once to act on a plan decision. *)
DecisionDispatchedOnce == sent <= 1

(* A run whose stop ended: canceled by finishStop, not by a denial.         *)
Stopped == Status = "canceled" /\ Decided # "deny"

(* A stopped run has lost its tools and is closed for good, whatever the   *)
(* calls that raced the stop still do: its tool capability is gone, its    *)
(* runtime is recorded as ended and never as running again, and if the     *)
(* runtime was ever asked to go on (and may still make a turn of that      *)
(* request), the stored continuation says so.                              *)
StoppedIsRevoked ==
  Stopped =>
    /\ ~ token
    /\ runtime.status \in {"done", "error"}
    /\ net \cup turns # {} => continuation.status \in {"dispatched", "confirmed", "unknown"}

(* A stop waits for the dispatch it raced: in a stopped run no frame of    *)
(* the worker still waits for the runtime's answer.  A request whose       *)
(* answer was given up (it failed, or the worker died) is not excluded: it *)
(* may arrive later and make a turn.  That turn has no tools, and the      *)
(* continuation it came from stays on record as one whose outcome is not   *)
(* known, never as confirmed.                                              *)
CanceledIsClosed ==
  /\ StoppedIsRevoked
  /\ Stopped => /\ \A f \in Frame : pc[f] # "answer"
                /\ net # {} => continuation.status \in {"dispatched", "unknown"}

(* A stopped run asks nothing more of the runtime. *)
StoppedAsksNothing == [][Stopped => sent' = sent]_planVars

(* A stored decision is always one for this run's own approval: a call     *)
(* with a foreign approval or binding hash does not use the approval up.   *)
ApprovalNotConsumed ==
  continuation.status # "none" => continuation.binding = run

(* A stop that was requested is finished, or the reason why not is on      *)
(* record: from some point on no run is silently stopping.                 *)
StopNeverSilent == <>[](Status # "stopping" \/ stopError)
=============================================================================
