---------------------------- MODULE RunLifecycle ----------------------------
(***************************************************************************)
(* An approved run from its first tool call to its end: the lifecycle      *)
(* tools the agent runtime calls, the watcher that completes a run whose   *)
(* turn has ended, stopping, cleanup and its retry, the execution deadline *)
(* and the worker's recovery (tool, watchRuntime, completeIncomplete,      *)
(* finishStop, cleanup, retryCleanup and recover of                        *)
(* apps/worker/src/controller.ts), on top of the transactions of RunStore, *)
(* for one run in local replay mode.                                       *)
(*                                                                         *)
(* The worker is one JavaScript thread: cpu names the frame that holds it  *)
(* and is "none" while every frame awaits.  Each write to the database is  *)
(* a step of its own, because the process may die between two of them.     *)
(*                                                                         *)
(* The lifecycle is a chain of steps, each one refused until the one       *)
(* before it is on record, so the flags of the stored context              *)
(* (fixturesReady, completedScenarios, subscriptionCreated, scheduled,     *)
(* advanced) are one number, the length of the chain that is done.         *)
(***************************************************************************)
EXTENDS RunStore, Sequences

CONSTANTS
  run,         \* the run
  CleanupMs,   \* how long an attempt to clean up may start deletions
  LateCalls,   \* a tool call may still arrive when the turn has ended
  MaxCrash     \* bound on the crashes of the worker

(* Kind, action and scenario of each step: prepare_fixture, probe_feature  *)
(* of a scenario, change_test_subscription (create, schedule) and          *)
(* await_period_end; cleanup_run ends the run and is outside the chain.    *)
Chain == <<"prepare", "SC01", "create", "SC02", "schedule", "SC03", "advance", "SC04">>
Step == Request
Position(s) == IF s = "cleanup" THEN 0 ELSE CHOOSE n \in DOMAIN Chain : Chain[n] = s
Probe == {"SC01", "SC02", "SC03", "SC04"}
Change == {"create", "schedule"}
Fixture == {"free", "paid"}

(* "none" stands for the operation id of an empty slot. *)
ASSUME LifecycleAssumption ==
  /\ RunId = {run}
  /\ Request \subseteq {"prepare", "create", "schedule", "advance", "cleanup"}
                 \cup {"SC01", "SC02", "SC03", "SC04"}
  /\ "none" \notin OperationId
  /\ CleanupMs \in Nat
  /\ LateCalls \in BOOLEAN
  /\ MaxCrash \in Nat

VARIABLES
  context,    \* document context
  slots,      \* documents logical-operation: the operation id of each step
  intents,    \* documents cleanup-intent
  cleanupAt,  \* document cleanup-start
  runtime,    \* document runtime: the status of the turn
  token,      \* document mcp-token exists
  stopError,  \* document stop-error: why the last finishStop failed
  net,        \* requests the target has not received
  served,     \* requests the target has carried out
  creates,    \* number of creation requests issued, ever
  deletes,    \* number of deletion requests issued, ever
  worker,     \* "down", "recovering" or "up"
  crashes,    \* history: crashes so far
  cpu, pc,    \* the thread; where each frame is
  call,       \* the tool call at work: operation id, step, copy of the context
  cleaning,   \* the cleanup at work: calling frame, copy of the context, fixture
  blocked,    \* finishStop has found an operation that blocks the stop
  watchdog    \* the deadline timer is armed

docs == <<context, slots, intents, cleanupAt, runtime, token, stopError>>
target == <<net, served, creates, deletes>>
process == <<worker, crashes>>
thread == <<cpu, pc>>
memory == <<call, cleaning, blocked, watchdog>>
lifeVars == <<storeVars, docs, target, process, thread, memory>>

Frame == {"tool", "watch", "stop", "retry", "clean", "boot"}

Context == [known : SUBSET Fixture, progress : 0..Len(Chain),
            cleanup : [Fixture -> {"none", "deleted", "leftover"}]]
NoContext == [known |-> {}, progress |-> 0, cleanup |-> [f \in Fixture |-> "none"]]

NoCall == [op |-> "none", step |-> "cleanup", ctx |-> NoContext]
NoCleaning == [by |-> "none", ctx |-> NoContext, fixture |-> "none"]

Create(f) == <<"create", f>>
Delete(f) == <<"delete", f>>
Message == {"create", "delete"} \X Fixture
Exists(f) == Create(f) \in served /\ Delete(f) \notin served

Status == runs[run].status
Decided == runs[run].decision
Expired == now - runs[run].startedAt >= ActiveMs
Active == Status = "running" /\ ~ Expired
PastDeadline == Status = "running" /\ Expired

-----------------------------------------------------------------------------
(* Frames *)

At(f, at) == cpu = f /\ pc[f] = at           \* f holds the thread
Resumed(f, at) == cpu = "none" /\ pc[f] = at \* what f awaited is there
Continue(f, at) == pc' = [pc EXCEPT ![f] = at] /\ cpu' = f
Await(f, at) == pc' = [pc EXCEPT ![f] = at] /\ cpu' = "none"

(* A frame ends, or awaits, and calls finishStop, which does nothing       *)
(* unless the run is stopping and no other call is at work.                *)
StartStop(f, at, status) ==
  IF status = "stopping" /\ pc["stop"] = "idle"
  THEN pc' = [pc EXCEPT ![f] = at, !["stop"] = "revoke"] /\ cpu' = "stop"
  ELSE Await(f, at)

(* expireExecutionDeadline of a run past its deadline. *)
ExpireDeadline(f, at) ==
  /\ PastDeadline
  /\ RequestStop(run)
  /\ watchdog' = FALSE
  /\ StartStop(f, at, "stopping")

-----------------------------------------------------------------------------
(* tool *)

(* The fixtures are created one after the other: its request is about to   *)
(* leave, or its answer is awaited.                                        *)
Posting(f) == IF f = "free" THEN "post-free" ELSE "post-paid"
Making(f) == IF f = "free" THEN "made-free" ELSE "made-paid"

(* A lifecycle call with a confirmed operation id is answered from the     *)
(* store, and one that comes while another is at work is refused.          *)
CallTool(o, s) ==
  /\ worker = "up" /\ cpu = "none" /\ pc["tool"] = "idle"
  /\ LateCalls \/ runtime = "running"
  /\ \/ ops[o].state = "absent"
     \/ ops[o].state \in {"dispatched", "unknown"} /\ ops[o].request = s
  /\ s # "cleanup" => Active
  /\ call' = [op |-> o, step |-> s, ctx |-> NoContext]
  /\ IF s \in Probe THEN Continue("tool", "slot") ELSE Await("tool", "bind")
  /\ UNCHANGED <<storeVars, docs, target, process, cleaning, blocked, watchdog>>

(* A refused call still retries a stop on its way out. *)
CallRefused ==
  /\ worker = "up" /\ cpu = "none" /\ pc["tool"] = "idle" /\ pc["stop"] = "idle"
  /\ LateCalls \/ runtime = "running"
  /\ Status = "stopping"
  /\ StartStop("tool", "idle", Status)
  /\ UNCHANGED <<storeVars, docs, target, process, memory>>

Bound ==
  /\ Resumed("tool", "bind")
  /\ Continue("tool", "slot") \/ Continue("tool", "end")
  /\ UNCHANGED <<storeVars, docs, target, process, memory>>

(* Mutant: the step may be repeated with another operation id. *)
TakeSlotAgain ==
  /\ At("tool", "slot")
  /\ slots' = [slots EXCEPT ![call.step] = call.op]
  /\ Continue("tool", "claim")
  /\ UNCHANGED <<storeVars, context, intents, cleanupAt, runtime, token, stopError,
                 target, process, memory>>

(* Another operation id never repeats a step that has one. *)
TakeSlot ==
  /\ At("tool", "slot")
  /\ IF slots[call.step] \in {"none", call.op}
     THEN slots' = [slots EXCEPT ![call.step] = call.op] /\ Continue("tool", "claim")
     ELSE UNCHANGED slots /\ Continue("tool", "end")
  /\ UNCHANGED <<storeVars, context, intents, cleanupAt, runtime, token, stopError,
                 target, process, memory>>

ClaimStep ==
  /\ At("tool", "claim")
  /\ \E lease \in LeaseMs : ClaimDispatch(run, run, call.op, call.step, lease)
  /\ call' = [call EXCEPT !.ctx = context]
  /\ Continue("tool", "act")
  /\ UNCHANGED <<docs, target, process, cleaning, blocked, watchdog>>

(* In flight, unknown, past the deadline, over the limit or not running.   *)
ClaimRefused ==
  /\ At("tool", "claim")
  /\ \/ ClaimExpired(run, run, call.op, call.step)
     \/ /\ ~ (Active /\ ops[call.op].state = "absent"
               /\ Cardinality(OperationsOf(run)) < OperationLimit)
        /\ ~ (Status = "running" /\ ops[call.op].state = "dispatched"
               /\ now >= ops[call.op].leaseUntil)
        /\ UNCHANGED storeVars
  /\ Continue("tool", "end")
  /\ UNCHANGED <<docs, target, process, memory>>

(* A claimed step is refused out of order.  A probe and a change of the    *)
(* subscription are one awaited call; the fixtures are created in turn.    *)
Act ==
  /\ At("tool", "act")
  /\ call.step # "cleanup"
  /\ IF context.progress # Position(call.step) - 1 THEN Continue("tool", "end")
     ELSE Await("tool", IF call.step = "prepare" THEN Posting("free") ELSE "work")
  /\ UNCHANGED <<storeVars, docs, target, process, memory>>

(* beforeMutation, just before a request leaves: the run must be active.   *)
Post(f) ==
  /\ Resumed("tool", Posting(f))
  /\ IF Active
     THEN /\ net' = net \cup {Create(f)}
          /\ creates' = [creates EXCEPT ![f] = @ + 1]
          /\ Await("tool", Making(f))
     ELSE Continue("tool", "end") /\ UNCHANGED <<net, creates>>
  /\ UNCHANGED <<storeVars, docs, served, deletes, process, memory>>

Made(f) ==
  /\ Resumed("tool", Making(f))
  /\ Create(f) \in served
  /\ call' = [call EXCEPT !.ctx.known = @ \cup {f}]
  /\ context' = call'.ctx
  /\ IF ~ Active THEN Continue("tool", "end")
     ELSE Await("tool", IF f = "free" THEN Posting("paid") ELSE "work")
  /\ UNCHANGED <<storeVars, slots, intents, cleanupAt, runtime, token, stopError,
                 target, process, cleaning, blocked, watchdog>>

(* The awaited call succeeds; a probe asks once more whether the run is    *)
(* active.  Only then is the step on record.                               *)
Worked ==
  /\ Resumed("tool", "work")
  /\ call.step \in Probe => Active
  /\ call' = [call EXCEPT !.ctx.progress = Position(call.step)]
  /\ context' = call'.ctx
  /\ Continue("tool", "confirm")
  /\ UNCHANGED <<storeVars, slots, intents, cleanupAt, runtime, token, stopError,
                 target, process, cleaning, blocked, watchdog>>

(* Any awaited call may fail, whatever becomes of its request. *)
Fails ==
  /\ cpu = "none"
  /\ pc["tool"] \in {Posting(f) : f \in Fixture} \cup {Making(f) : f \in Fixture}
                    \cup {"work", "failed"}
  /\ Continue("tool", "end")
  /\ UNCHANGED <<storeVars, docs, target, process, memory>>

Confirm ==
  /\ At("tool", "confirm") \/ Resumed("tool", "cleaned")
  /\ \E receipt \in Receipt : ConfirmOperation(run, call.op, receipt)
  /\ Continue("tool", IF call.step = "cleanup" THEN "finish" ELSE "end")
  /\ UNCHANGED <<docs, target, process, memory>>

(* The cleanup step completes the run, unless it is no longer running. *)
Finish ==
  /\ At("tool", "finish")
  /\ \/ \E verdicts \in VerdictLists : FinishRun(run, verdicts)
     \/ Status # "running" /\ UNCHANGED storeVars
  /\ Continue("tool", "end")
  /\ UNCHANGED <<docs, target, process, memory>>

EndTool ==
  /\ At("tool", "end")
  /\ StartStop("tool", "idle", Status)
  /\ call' = NoCall
  /\ UNCHANGED <<storeVars, docs, target, process, cleaning, blocked, watchdog>>

-----------------------------------------------------------------------------
(* cleanup *)

(* Frame f awaits cleanup, which one frame at a time may do; the others    *)
(* fail.  It resumes at "cleaned" or at "failed".                          *)
CallCleanup(f) ==
  IF pc["clean"] = "idle"
  THEN /\ pc' = [pc EXCEPT ![f] = "cleaning", !["clean"] = "start"]
       /\ cpu' = "clean"
       /\ cleaning' = [by |-> f, ctx |-> NoContext, fixture |-> "none"]
  ELSE Await(f, "failed") /\ UNCHANGED cleaning

CleanTool ==
  /\ At("tool", "act")
  /\ call.step = "cleanup"
  /\ CallCleanup("tool")
  /\ UNCHANGED <<storeVars, docs, target, process, call, blocked, watchdog>>

StartCleanup ==
  /\ At("clean", "start")
  /\ cleanupAt' = now
  /\ Await("clean", "ready")
  /\ UNCHANGED <<storeVars, context, slots, intents, runtime, token, stopError,
                 target, process, memory>>

Return(to) ==
  /\ cleaning' = NoCleaning
  /\ pc' = [pc EXCEPT !["clean"] = "idle", ![cleaning.by] = to]
  /\ cpu' = "none"

CleanupReady ==
  /\ Resumed("clean", "ready")
  /\ \/ /\ cleaning' = [cleaning EXCEPT !.ctx = context]
        /\ Continue("clean", "next")
     \/ Return("failed")
  /\ UNCHANGED <<storeVars, docs, target, process, call, blocked, watchdog>>

Leftover(c, f, status) == [c EXCEPT !.ctx.cleanup[f] = status]

(* The fixtures to delete: those the copy of the context knows, free first. *)
Todo == {f \in cleaning.ctx.known : cleaning.ctx.cleanup[f] # "deleted"}
Ordered(todo) == IF "free" \in todo THEN "free" ELSE "paid"
Undone(after) == IF after = "none" THEN Todo ELSE IF after = "free" THEN Todo \cap {"paid"} ELSE {}

(* Mutant: a dispatched deletion is dispatched again. *)
NextFixtureAgain ==
  /\ At("clean", "next")
  /\ Undone(cleaning.fixture) # {}
  /\ LET f == Ordered(Undone(cleaning.fixture)) IN
       /\ cleaning' = [cleaning EXCEPT !.fixture = f]
       /\ intents' = [intents EXCEPT ![f] = "prepared"]
       /\ Await("clean", "delete")
  /\ UNCHANGED <<storeVars, context, slots, cleanupAt, runtime, token, stopError,
                 target, process, call, blocked, watchdog>>

(* The next fixture: one whose deletion was dispatched is not deleted      *)
(* again; its outcome is recorded as it is known.                          *)
NextFixture ==
  /\ At("clean", "next")
  /\ Undone(cleaning.fixture) # {}
  /\ LET f == Ordered(Undone(cleaning.fixture)) IN
     CASE intents[f] \in {"dispatched", "confirmed"} ->
            /\ cleaning' = Leftover([cleaning EXCEPT !.fixture = f], f,
                 IF intents[f] = "confirmed" THEN "deleted" ELSE "leftover")
            /\ Continue("clean", "record")
            /\ UNCHANGED intents
       [] OTHER ->
            /\ cleaning' = [cleaning EXCEPT !.fixture = f]
            /\ intents' = [intents EXCEPT ![f] = "prepared"]
            /\ Await("clean", "delete")
  /\ UNCHANGED <<storeVars, context, slots, cleanupAt, runtime, token, stopError,
                 target, process, call, blocked, watchdog>>

(* Just before the request leaves: the attempt must be in time, and the    *)
(* intent to delete is stored.                                             *)
DispatchDelete ==
  /\ Resumed("clean", "delete")
  /\ IF now - cleanupAt < CleanupMs /\ intents[cleaning.fixture] = "prepared"
     THEN /\ intents' = [intents EXCEPT ![cleaning.fixture] = "dispatched"]
          /\ Continue("clean", "send")
          /\ UNCHANGED cleaning
     ELSE /\ cleaning' = Leftover(cleaning, cleaning.fixture, "leftover")
          /\ Continue("clean", "record")
          /\ UNCHANGED intents
  /\ UNCHANGED <<storeVars, context, slots, cleanupAt, runtime, token, stopError,
                 target, process, call, blocked, watchdog>>

SendDelete ==
  /\ At("clean", "send")
  /\ net' = net \cup {Delete(cleaning.fixture)}
  /\ deletes' = [deletes EXCEPT ![cleaning.fixture] = @ + 1]
  /\ Await("clean", "sent")
  /\ UNCHANGED <<storeVars, docs, served, creates, process, memory>>

Deleted ==
  /\ Resumed("clean", "sent")
  /\ Delete(cleaning.fixture) \in served
  /\ intents' = [intents EXCEPT ![cleaning.fixture] = "confirmed"]
  /\ cleaning' = Leftover(cleaning, cleaning.fixture, "deleted")
  /\ Continue("clean", "record")
  /\ UNCHANGED <<storeVars, context, slots, cleanupAt, runtime, token, stopError,
                 target, process, call, blocked, watchdog>>

DeleteFails ==
  /\ Resumed("clean", "delete") \/ Resumed("clean", "sent")
  /\ cleaning' = Leftover(cleaning, cleaning.fixture, "leftover")
  /\ Continue("clean", "record")
  /\ UNCHANGED <<storeVars, docs, target, process, call, blocked, watchdog>>

(* The copy of the context is written back with the receipt. *)
RecordCleanup ==
  /\ At("clean", "record")
  /\ context' = cleaning.ctx
  /\ Continue("clean", "next")
  /\ UNCHANGED <<storeVars, slots, intents, cleanupAt, runtime, token, stopError,
                 target, process, memory>>

EndCleanup ==
  /\ At("clean", "next")
  /\ Undone(cleaning.fixture) = {}
  /\ context' = cleaning.ctx
  /\ Return("cleaned")
  /\ UNCHANGED <<storeVars, slots, intents, cleanupAt, runtime, token, stopError,
                 target, process, call, blocked, watchdog>>

(* The owner's retry, for a run that has ended with a leftover. *)
RetryCleanup ==
  /\ worker = "up" /\ cpu = "none" /\ pc["retry"] = "idle"
  /\ Status \in Terminal
  /\ \E f \in Fixture : context.cleanup[f] = "leftover"
  /\ pc["clean"] = "idle"
  /\ CallCleanup("retry")
  /\ UNCHANGED <<storeVars, docs, target, process, call, blocked, watchdog>>

RetryEnds ==
  /\ Resumed("retry", "cleaned") \/ Resumed("retry", "failed")
  /\ Await("retry", "idle")
  /\ UNCHANGED <<storeVars, docs, target, process, memory>>

Cleanup ==
  \/ StartCleanup \/ CleanupReady \/ NextFixture \/ DispatchDelete \/ SendDelete
  \/ Deleted \/ DeleteFails \/ RecordCleanup \/ EndCleanup

Tool ==
  \/ Bound \/ TakeSlot \/ ClaimStep \/ ClaimRefused \/ Act
  \/ \E f \in Fixture : Post(f) \/ Made(f)
  \/ Worked \/ Fails \/ CleanTool \/ Confirm \/ Finish \/ EndTool

-----------------------------------------------------------------------------
(* watchRuntime *)

(* Events move the stored cursor, with the status the watcher read first. *)
WatchEvent ==
  /\ Resumed("watch", "stream")
  /\ runtime # "running"
  /\ runtime' = "running"
  /\ UNCHANGED <<storeVars, context, slots, intents, cleanupAt, token, stopError,
                 target, process, thread, memory>>

TurnEnds ==
  /\ Resumed("watch", "stream")
  /\ runtime' \in {"done", "error"}
  /\ Continue("watch", "ended")
  /\ UNCHANGED <<storeVars, context, slots, intents, cleanupAt, token, stopError,
                 target, process, memory>>

(* Mutant: the run is completed while a tool call is at work. *)
CompleteDuringCall ==
  /\ At("watch", "ended")
  /\ IF Status # "running" THEN Await("watch", "idle") /\ UNCHANGED cleaning
     ELSE CallCleanup("watch")
  /\ UNCHANGED <<storeVars, docs, target, process, call, blocked, watchdog>>

(* completeIncomplete: nothing while a tool call is at work. *)
CompleteIncomplete ==
  /\ At("watch", "ended")
  /\ IF Status # "running" \/ pc["tool"] # "idle"
     THEN Await("watch", "idle") /\ UNCHANGED cleaning
     ELSE CallCleanup("watch")
  /\ UNCHANGED <<storeVars, docs, target, process, call, blocked, watchdog>>

Completed ==
  /\ Resumed("watch", "cleaned")
  /\ \E verdicts \in VerdictLists : FinishRun(run, verdicts)
  /\ Await("watch", "idle")
  /\ UNCHANGED <<docs, target, process, memory>>

(* The stream, the cleanup or the completion fails: the run is stopped. *)
WatchFails ==
  /\ \/ Resumed("watch", "stream") \/ Resumed("watch", "failed")
     \/ Resumed("watch", "cleaned") /\ Status # "running"
  /\ runtime' = "error"
  /\ Continue("watch", "cancel")
  /\ UNCHANGED <<storeVars, context, slots, intents, cleanupAt, token, stopError,
                 target, process, memory>>

(* cancel records the stop and starts finishStop in the background. *)
RecordStop(f) ==
  /\ \/ /\ RequestStop(run)
        /\ StartStop(f, "idle", "stopping")
     \/ /\ Status # "running"
        /\ StartStop(f, "idle", Status)
        /\ UNCHANGED storeVars
  /\ watchdog' = FALSE

WatchCancels ==
  /\ At("watch", "cancel")
  /\ RecordStop("watch")
  /\ UNCHANGED <<docs, target, process, call, cleaning, blocked>>

Watch ==
  TurnEnds \/ CompleteIncomplete \/ Completed \/ WatchFails \/ WatchCancels

-----------------------------------------------------------------------------
(* Stopping *)

Cancel ==
  /\ worker = "up" /\ cpu = "none"
  /\ Status \in {"running", "stopping"} /\ pc["stop"] = "idle"
  /\ RecordStop("boot")
  /\ UNCHANGED <<docs, target, process, call, cleaning, blocked>>

WatchdogFires ==
  /\ worker = "up" /\ cpu = "none" /\ watchdog
  /\ ExpireDeadline("boot", "idle")
  /\ UNCHANGED <<docs, target, process, call, cleaning, blocked>>

(* The capability is revoked first, whatever comes after. *)
Revoke ==
  /\ At("stop", "revoke")
  /\ token' = FALSE
  /\ Continue("stop", "account")
  /\ UNCHANGED <<storeVars, context, slots, intents, cleanupAt, runtime, stopError,
                 target, process, memory>>

Unresolved == {o \in OperationsOf(run) : ops[o].state # "confirmed"}

(* Mutant: an unknown creation of fixtures does not block a stop. *)
BlocksOnlyChanges(o) == ops[o].request \in Change

(* An operation whose effect may exist and is not in the inventory. *)
Blocks(o) == \/ ops[o].request = "prepare" /\ context.known # Fixture
             \/ ops[o].request \in Change

Account ==
  /\ At("stop", "account")
  /\ pc["tool"] = "idle"
  /\ blocked' = (\E o \in Unresolved : Blocks(o))
  /\ CallCleanup("stop")
  /\ UNCHANGED <<storeVars, docs, target, process, call, watchdog>>

(* A tool call at work, a failed cleanup or a blocking operation leaves    *)
(* the run stopping, with the reason on record.                            *)
StopFails ==
  /\ \/ At("stop", "account") /\ pc["tool"] # "idle"
     \/ Resumed("stop", "failed")
     \/ Resumed("stop", "cleaned") /\ blocked
  /\ stopError' = TRUE
  /\ blocked' = FALSE
  /\ Await("stop", "idle")
  /\ UNCHANGED <<storeVars, context, slots, intents, cleanupAt, runtime, token,
                 target, process, call, cleaning, watchdog>>

Settle ==
  /\ Resumed("stop", "cleaned")
  /\ ~ blocked
  /\ runtime' = IF runtime = "running" THEN "error" ELSE runtime
  /\ Continue("stop", "cancel")
  /\ UNCHANGED <<storeVars, context, slots, intents, cleanupAt, token, stopError,
                 target, process, memory>>

FinishStop ==
  /\ At("stop", "cancel")
  /\ CancelRun(run)
  /\ Continue("stop", "clear")
  /\ UNCHANGED <<docs, target, process, memory>>

ClearStopError ==
  /\ At("stop", "clear")
  /\ stopError' = FALSE
  /\ Await("stop", "idle")
  /\ UNCHANGED <<storeVars, context, slots, intents, cleanupAt, runtime, token,
                 target, process, memory>>

Stop == Revoke \/ Account \/ StopFails \/ Settle \/ FinishStop \/ ClearStopError

-----------------------------------------------------------------------------
(* Crash and recovery *)

Crash ==
  /\ worker # "down" /\ crashes < MaxCrash
  /\ worker' = "down" /\ crashes' = crashes + 1
  /\ cpu' = "none" /\ pc' = [f \in Frame |-> "idle"]
  /\ call' = NoCall /\ cleaning' = NoCleaning /\ blocked' = FALSE /\ watchdog' = FALSE
  /\ UNCHANGED <<storeVars, docs, target>>

Boot ==
  /\ worker = "down"
  /\ worker' = "recovering"
  /\ \/ AbandonDispatched(run)
     \/ /\ \A o \in OperationsOf(run) : ops[o].state # "dispatched"
        /\ UNCHANGED storeVars
  /\ Continue("boot", "recover")
  /\ UNCHANGED <<docs, target, crashes, memory>>

(* A running run with an operation of unknown outcome is stopped. *)
RecoverStops ==
  /\ At("boot", "recover")
  /\ Status = "running"
  /\ \/ /\ \E o \in OperationsOf(run) : ops[o].state = "unknown"
        /\ RequestStop(run)
        /\ StartStop("boot", "recovered", "stopping")
        /\ UNCHANGED watchdog
     \/ /\ \A o \in OperationsOf(run) : ops[o].state # "unknown"
        /\ ExpireDeadline("boot", "recovered")
  /\ UNCHANGED <<docs, target, process, call, cleaning, blocked>>

RecoverStopping ==
  /\ At("boot", "recover")
  /\ Status = "stopping"
  /\ StartStop("boot", "recovered", Status)
  /\ UNCHANGED <<storeVars, docs, target, process, memory>>

RecoverEnded ==
  /\ At("boot", "recover")
  /\ Status \in Terminal
  /\ token' = (token /\ Status # "canceled")
  /\ Await("boot", "recovered")
  /\ UNCHANGED <<storeVars, context, slots, intents, cleanupAt, runtime, stopError,
                 target, process, memory>>

RecoverRunning ==
  /\ At("boot", "recover")
  /\ Active
  /\ \A o \in OperationsOf(run) : ops[o].state # "unknown"
  /\ Await("boot", "binding")
  /\ UNCHANGED <<storeVars, docs, target, process, memory>>

(* Mutant: recovery does not arm the deadline again. *)
BindingReadyUnwatched ==
  /\ Resumed("boot", "binding")
  /\ pc' = [pc EXCEPT !["boot"] = "recovered",
                      !["watch"] = IF runtime = "running" THEN "stream" ELSE "idle"]
  /\ cpu' = "none"
  /\ UNCHANGED <<storeVars, docs, target, process, memory>>

(* The approved binding still holds: the deadline is armed again and a     *)
(* turn that was running is watched again.                                 *)
BindingReady ==
  /\ Resumed("boot", "binding")
  /\ watchdog' = TRUE
  /\ pc' = [pc EXCEPT !["boot"] = "recovered",
                      !["watch"] = IF runtime = "running" THEN "stream" ELSE "idle"]
  /\ cpu' = "none"
  /\ UNCHANGED <<storeVars, docs, target, process, call, cleaning, blocked>>

(* It does not: nothing resumes, and the run is closed to the runtime. *)
BindingBlocked ==
  /\ Resumed("boot", "binding")
  /\ runtime' = "error"
  /\ Continue("boot", "close")
  /\ UNCHANGED <<storeVars, context, slots, intents, cleanupAt, token, stopError,
                 target, process, memory>>

CloseBlocked ==
  /\ At("boot", "close")
  /\ token' = FALSE
  /\ Await("boot", "recovered")
  /\ UNCHANGED <<storeVars, context, slots, intents, cleanupAt, runtime, stopError,
                 target, process, memory>>

(* Serving starts when recovery, the stop it awaits included, has ended. *)
Recovered ==
  /\ Resumed("boot", "recovered")
  /\ pc["stop"] = "idle"
  /\ worker' = "up"
  /\ Await("boot", "idle")
  /\ UNCHANGED <<storeVars, docs, target, crashes, memory>>

Recover ==
  \/ Boot \/ RecoverStops \/ RecoverStopping \/ RecoverEnded \/ RecoverRunning
  \/ BindingReady \/ BindingBlocked \/ CloseBlocked \/ Recovered

-----------------------------------------------------------------------------
(* The target, external: a request may arrive late, or never (it is lost,  *)
(* or refused).  A repeated one changes nothing.                           *)

TargetServes ==
  \E m \in net :
    /\ net' = net \ {m}
    /\ served' = served \cup {m}
    /\ UNCHANGED <<storeVars, docs, creates, deletes, process, thread, memory>>

-----------------------------------------------------------------------------
(* The specification *)

LifeInit ==
  /\ now = 0
  /\ runs = [r \in RunId |-> [NoRun EXCEPT !.status = "running", !.active = TRUE,
       !.decision = "allow", !.startedAt = 0]]
  /\ ops = [o \in OperationId |-> NoOperation]
  /\ credits = [rw \in RunId \X WaitId |-> NoCredit]
  /\ grants = {}
  /\ context = NoContext
  /\ slots = [s \in Step |-> "none"]
  /\ intents = [f \in Fixture |-> "none"]
  /\ cleanupAt = None
  /\ runtime = "running" /\ token = TRUE /\ stopError = FALSE
  /\ net = {} /\ served = {}
  /\ creates = [f \in Fixture |-> 0] /\ deletes = [f \in Fixture |-> 0]
  /\ worker = "up" /\ crashes = 0
  /\ cpu = "none"
  /\ pc = [f \in Frame |-> IF f = "watch" THEN "stream" ELSE "idle"]
  /\ call = NoCall /\ cleaning = NoCleaning /\ blocked = FALSE /\ watchdog = TRUE

TimePasses == Tick /\ UNCHANGED <<docs, target, process, thread, memory>>

Calls == (\E o \in OperationId, s \in Step : CallTool(o, s)) \/ CallRefused
Retry == RetryCleanup \/ RetryEnds

LifeNext ==
  \/ Calls \/ Tool \/ Cleanup \/ Retry
  \/ WatchEvent \/ Watch
  \/ Cancel \/ WatchdogFires \/ Stop
  \/ Crash \/ Recover
  \/ TargetServes
  \/ TimePasses

LifeSpec == LifeInit /\ [][LifeNext]_lifeVars

(* The thread runs on, every awaited answer or its timeout comes, the      *)
(* event loop serves what is ready in order, time passes and a dead worker *)
(* is restarted.  Nothing is assumed of the runtime, the target or the     *)
(* owner.                                                                  *)
LifeFairness ==
  /\ SF_lifeVars(Tool) /\ SF_lifeVars(Cleanup) /\ SF_lifeVars(Stop)
  /\ SF_lifeVars(CompleteIncomplete \/ Completed \/ WatchFails \/ WatchCancels)
  /\ SF_lifeVars(RetryEnds)
  /\ SF_lifeVars(Recover) /\ SF_lifeVars(WatchdogFires)
  /\ SF_lifeVars(TimePasses)

FairLifeSpec == LifeSpec /\ LifeFairness

-----------------------------------------------------------------------------
(* Properties *)

(* The agent's step is dispatched at most once, whatever operation ids it  *)
(* is called with, however its calls fail and whenever the worker dies;    *)
(* and each fixture is asked for at most once.                             *)
StepDispatchedOnce ==
  /\ \A g, h \in grants : g.request = h.request => g = h
  /\ \A f \in Fixture : creates[f] <= 1

(* The deletion of a fixture is one effect of a stored intent, whoever     *)
(* cleans up: the cleanup step, the watcher, a stop, a recovery, a retry.  *)
FreeDeletion == INSTANCE EffectOnce
  WITH intent <- intents["free"], requested <- deletes["free"],
       effects <- IF Delete("free") \in served THEN {1} ELSE {}
PaidDeletion == INSTANCE EffectOnce
  WITH intent <- intents["paid"], requested <- deletes["paid"],
       effects <- IF Delete("paid") \in served THEN {1} ELSE {}
DeletionIsOneEffect == FreeDeletion!EffectSpec /\ PaidDeletion!EffectSpec

(* When a run is canceled, every fixture the target holds for it is listed *)
(* as a leftover.                                                          *)
CanceledDiscloses ==
  \A f \in Fixture :
    Status = "canceled" /\ Exists(f) => context.cleanup[f] = "leftover"

(* The context keeps every step whose receipt the agent was given: no      *)
(* writer of the context overwrites what another one recorded.             *)
ReceiptsInContext ==
  \A o \in OperationsOf(run) :
    ops[o].state = "confirmed" => context.progress >= Position(ops[o].request)

(* Every run settles: it does not stay running for ever unless recovery    *)
(* has closed it to the runtime, and a stop is finished or the reason why  *)
(* not is on record.                                                       *)
RunSettles == <>[](/\ Status # "running" \/ (runtime = "error" /\ ~ token)
                   /\ Status # "stopping" \/ stopError)
=============================================================================
