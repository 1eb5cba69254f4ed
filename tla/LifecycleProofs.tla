--------------------------- MODULE LifecycleProofs ---------------------------
(***************************************************************************)
(* Proofs about RunLifecycle: the effects the agent's steps and the        *)
(* cleanup have at the target, for any set of operation ids and steps and  *)
(* any number of crashes; and what the record says of them, as long as no  *)
(* tool call arrives after its turn has ended (NoLateCalls).               *)
(***************************************************************************)
EXTENDS RunLifecycle, RunStoreProofs

(* The runtime's tool calls come before the end of their turn.             *)
NoLateCalls == LateCalls = FALSE

-----------------------------------------------------------------------------
(* Types *)

Label ==
  {"idle", "bind", "slot", "claim", "act", "work", "confirm", "finish", "end"}
  \cup {"post-free", "made-free", "post-paid", "made-paid"}
  \cup {"cleaning", "cleaned", "failed", "stream", "ended", "cancel"}
  \cup {"start", "ready", "next", "delete", "send", "sent", "record"}
  \cup {"revoke", "account", "clear"}
  \cup {"recover", "binding", "close", "recovered"}

Call == [op : OperationId \cup {"none"}, step : Step \cup {"cleanup"}, ctx : Context]
Cleaning == [by : Frame \cup {"none"}, ctx : Context, fixture : Fixture \cup {"none"}]

FrameTypes ==
  /\ pc \in [Frame -> Label]
  /\ call \in Call
  /\ cleaning \in Cleaning

DocTypes ==
  /\ context \in Context
  /\ slots \in [Step -> OperationId \cup {"none"}]
  /\ intents \in [Fixture -> {"none", "prepared", "dispatched", "confirmed"}]
  /\ creates \in [Fixture -> Nat]
  /\ deletes \in [Fixture -> Nat]

LifeTypeOK == FrameTypes /\ DocTypes

(* A claimed call has an operation id and a step. *)
Called == {"bind", "slot", "claim", "act", "work", "confirm", "finish", "post-free",
           "made-free", "post-paid", "made-paid", "cleaning", "cleaned", "failed"}

CallNamed == pc["tool"] \in Called => call.op \in OperationId /\ call.step \in Step

-----------------------------------------------------------------------------
(* Each step is dispatched once: its slot names the one operation that was *)
(* granted for it, from before the claim.                                  *)

SlotsInv ==
  /\ \A g \in grants : slots[g.request] = g.op
  /\ pc["tool"] = "claim" => slots[call.step] = call.op

(* Where the creation of the fixture has not been asked for. *)
Before(f) == IF f = "free" THEN {"act", "post-free"}
             ELSE {"act", "post-free", "made-free", "post-paid"}
Creating == {"post-free", "made-free", "post-paid", "made-paid"}

Prepared == \E g \in grants : g.request = "prepare"

CreationsInv ==
  /\ pc["tool"] \in Creating => call.step = "prepare"
  /\ pc["tool"] \in Creating \cup {"act"} /\ call.step = "prepare" => Prepared
  /\ \A f \in Fixture :
       /\ creates[f] > 0 => Prepared
       /\ creates[f] <= 1
       /\ pc["tool"] \in Before(f) /\ call.step = "prepare" => creates[f] = 0
       /\ Create(f) \in net \cup served => creates[f] = 1

(* The deletion of a fixture follows its intent. *)
DeletionInv(f) ==
  /\ intents[f] \in {"none", "prepared"} => deletes[f] = 0
  /\ deletes[f] <= 1
  /\ Delete(f) \in net \cup served => deletes[f] = 1
  /\ intents[f] = "confirmed" => Delete(f) \in served
  /\ cleaning.fixture = f =>
       /\ pc["clean"] = "delete" => intents[f] = "prepared"
       /\ pc["clean"] = "send" => intents[f] = "dispatched" /\ deletes[f] = 0
       /\ pc["clean"] = "sent" => intents[f] = "dispatched" /\ deletes[f] = 1

DeletionsInv ==
  /\ pc["clean"] \in {"delete", "send", "sent", "record"} => cleaning.fixture \in Fixture
  /\ \A f \in Fixture : DeletionInv(f)

(* Who cleans up waits for it. *)
Cleaner == {"tool", "watch", "stop", "retry"}

CleanerInv ==
  pc["clean"] # "idle" => cleaning.by \in Cleaner /\ pc[cleaning.by] = "cleaning"

(* Recovery comes before anything else does. *)
BootInv ==
  /\ pc["boot"] \in {"recover", "binding", "close", "recovered"} => worker = "recovering"
  /\ pc["boot"] \in {"recover", "binding", "close"} => pc["watch"] = "idle"
  /\ worker = "recovering" => pc["tool"] = "idle" /\ pc["retry"] = "idle"
  /\ worker = "down" => \A f \in Frame : pc[f] = "idle"

EffectsInv ==
  /\ StoreInv /\ LifeTypeOK /\ CallNamed
  /\ CleanerInv /\ BootInv
  /\ SlotsInv /\ CreationsInv /\ DeletionsInv

-----------------------------------------------------------------------------
(* Who is at work with whom.  A call that may write the context is at work *)
(* on a run that has not ended, and nobody cleans up.                      *)

Working == {"act", "work", "post-free", "made-free", "post-paid", "made-paid"}

ToolKnows ==
  /\ pc["tool"] \in Working =>
       /\ pc["clean"] = "idle"
       /\ call.ctx = context
       /\ Status \notin Terminal
  /\ pc["tool"] \in {"cleaning", "cleaned", "finish"} => call.step = "cleanup"

StopKnows ==
  /\ pc["stop"] # "idle" => Status # "running"
  /\ pc["stop"] \in {"cleaning", "cleaned", "cancel"} => pc["tool"] \notin Working

WatchKnows ==
  /\ pc["watch"] \in {"ended", "cleaning", "cleaned"} => runtime # "running"
  /\ pc["watch"] \in {"cleaning", "cleaned"} => pc["tool"] = "idle"

RetryKnows == pc["clean"] # "idle" /\ cleaning.by = "retry" => Status \in Terminal

ActorsInv == ToolKnows /\ StopKnows /\ WatchKnows /\ RetryKnows

(* The copy of the context the cleanup works on. *)
Copied == {"next", "delete", "send", "sent", "record"}

CopyKnows ==
  pc["clean"] \in Copied =>
    /\ cleaning.ctx.known = context.known
    /\ cleaning.ctx.progress = context.progress
    /\ \A f \in Fixture :
         context.cleanup[f] # "none" => cleaning.ctx.cleanup[f] # "none"

(* The operations are named for the steps they were claimed for, and a     *)
(* receipt was given for a step on record.                                 *)
ReceiptsHeld ==
  /\ \A o \in OperationsOf(run) : ops[o].request \in Step
  /\ ReceiptsInContext

(* A step is on record one further than the one before it, and its receipt *)
(* is the receipt of the operation that was claimed for it.                *)
StepsInv ==
  /\ pc["tool"] \in Working \cup {"cleaning", "cleaned", "confirm"} =>
       ops[call.op].request = call.step
  /\ pc["tool"] \in Working \ {"act"} => context.progress + 1 = Position(call.step)
  /\ pc["tool"] = "confirm" => context.progress >= Position(call.step)
  /\ ReceiptsHeld

(* What is known of the fixtures: those asked for are in the inventory     *)
(* before the step that creates them is on record.                         *)
InventoryInv ==
  /\ pc["tool"] \in {"post-paid", "made-paid"} => "free" \in context.known
  /\ pc["tool"] = "work" /\ call.step = "prepare" => context.known = Fixture
  /\ context.progress > 0 => context.known = Fixture

Listed == \A f \in Fixture : creates[f] > 0 => f \in context.known
Disclosed ==
  \A f \in Fixture : creates[f] > 0 => f \in context.known /\ context.cleanup[f] # "none"

(* The fixtures the cleanup has been through, and those it has behind it.  *)
Behind(fixture) ==
  IF fixture = "none" THEN {} ELSE IF fixture = "free" THEN {"free"} ELSE Fixture

CleanedSoFar ==
  /\ pc["clean"] \in {"start", "ready"} => cleaning.fixture = "none"
  /\ pc["clean"] = "next" =>
       \A f \in Behind(cleaning.fixture) \cap cleaning.ctx.known :
         cleaning.ctx.cleanup[f] # "none"
  /\ pc["clean"] = "record" =>
       \A f \in Behind(cleaning.fixture) \cap cleaning.ctx.known :
         cleaning.ctx.cleanup[f] # "none"
  /\ pc["clean"] \in {"delete", "send", "sent"} =>
       \A f \in (Behind(cleaning.fixture) \ {cleaning.fixture}) \cap cleaning.ctx.known :
         cleaning.ctx.cleanup[f] # "none"

(* A fixture recorded as deleted is deleted. *)
DeletedIsServed ==
  \A f \in Fixture :
    /\ context.cleanup[f] = "deleted" => Delete(f) \in served
    /\ cleaning.ctx.cleanup[f] = "deleted" => Delete(f) \in served

DisclosureInv ==
  /\ pc["stop"] = "cleaning" /\ ~ blocked => Listed
  /\ pc["stop"] = "cleaned" /\ ~ blocked => Disclosed
  /\ pc["stop"] = "cancel" => Disclosed
  /\ Status = "canceled" => Disclosed

RecordInv == ActorsInv /\ CopyKnows /\ StepsInv
DisclosingInv == InventoryInv /\ CleanedSoFar /\ DeletedIsServed /\ DisclosureInv

LifeInv == EffectsInv /\ RecordInv /\ DisclosingInv

-----------------------------------------------------------------------------
(* Control: a step moves one frame, and may start another. *)

Moves(f, at) ==
  /\ pc' \in [Frame -> Label]
  /\ pc'[f] = at
  /\ \A g \in Frame \ {f} : pc'[g] = pc[g]

(* The frame moves on, and the stop starts if the status asks for it. *)
Starts(f, at, status) ==
  /\ pc' \in [Frame -> Label]
  /\ pc'[f] = at
  /\ \A g \in Frame \ {f, "stop"} : pc'[g] = pc[g]
  /\ \/ pc'["stop"] = pc["stop"]
     \/ pc["stop"] = "idle" /\ pc'["stop"] = "revoke" /\ status = "stopping"

(* The frame calls the cleanup and waits for it. *)
Cleans(f) ==
  /\ pc' \in [Frame -> Label]
  /\ pc["clean"] = "idle" /\ pc'["clean"] = "start"
  /\ pc'[f] = "cleaning"
  /\ \A g \in Frame \ {f, "clean"} : pc'[g] = pc[g]
  /\ cleaning' = [by |-> f, ctx |-> NoContext, fixture |-> "none"]

(* The cleanup ends, and its caller is told. *)
Returns(to) ==
  /\ pc' \in [Frame -> Label]
  /\ pc'["clean"] = "idle"
  /\ pc'[cleaning.by] = to
  /\ \A g \in Frame \ {cleaning.by, "clean"} : pc'[g] = pc[g]
  /\ cleaning' = NoCleaning

LEMMA ContinueMoves ==
  ASSUME FrameTypes, NEW f \in Frame, NEW at \in Label, Continue(f, at)
  PROVE  Moves(f, at)
  BY DEF FrameTypes, Continue, Moves

LEMMA AwaitMoves ==
  ASSUME FrameTypes, NEW f \in Frame, NEW at \in Label, Await(f, at)
  PROVE  Moves(f, at)
  BY DEF FrameTypes, Await, Moves

LEMMA StartStopMoves ==
  ASSUME FrameTypes, NEW f \in Frame \ {"stop"}, NEW at \in Label, NEW status,
         StartStop(f, at, status)
  PROVE  Starts(f, at, status)
<1>1. CASE status = "stopping" /\ pc["stop"] = "idle"
  <2> DEFINE moved == [pc EXCEPT ![f] = at]
  <2>1. /\ moved \in [Frame -> Label]
        /\ moved[f] = at
        /\ \A g \in Frame \ {f} : moved[g] = pc[g]
    BY DEF FrameTypes
  <2>2. pc' = [moved EXCEPT !["stop"] = "revoke"]
    BY <1>1 DEF StartStop
  <2> HIDE DEF moved
  <2>3. "revoke" \in Label /\ "stop" \in Frame
    BY DEF Label, Frame
  <2> QED
    BY <1>1, <2>1, <2>2, <2>3 DEF Starts
<1>2. CASE ~ (status = "stopping" /\ pc["stop"] = "idle")
  BY <1>2, AwaitMoves DEF StartStop, Starts, Moves, Frame
<1> QED
  BY <1>1, <1>2

LEMMA CallCleanupMoves ==
  ASSUME FrameTypes, NEW f \in Cleaner, CallCleanup(f)
  PROVE  Cleans(f) \/ (pc["clean"] # "idle" /\ Moves(f, "failed") /\ UNCHANGED cleaning)
<1>0. f \in Frame /\ f # "clean" /\ "clean" \in Frame /\ "cleaning" \in Label
      /\ "start" \in Label /\ "failed" \in Label
  BY DEF Cleaner, Frame, Label
<1>1. CASE pc["clean"] = "idle"
  <2> DEFINE moved == [pc EXCEPT ![f] = "cleaning"]
  <2>1. /\ moved \in [Frame -> Label]
        /\ moved[f] = "cleaning"
        /\ \A g \in Frame \ {f} : moved[g] = pc[g]
    BY <1>0 DEF FrameTypes
  <2>2. pc' = [moved EXCEPT !["clean"] = "start"]
    BY <1>1 DEF CallCleanup
  <2> HIDE DEF moved
  <2> QED
    BY <1>0, <1>1, <2>1, <2>2 DEF CallCleanup, Cleans
<1>2. CASE pc["clean"] # "idle"
  BY <1>0, <1>2, AwaitMoves DEF CallCleanup
<1> QED
  BY <1>1, <1>2

LEMMA ReturnMoves ==
  ASSUME FrameTypes, CleanerInv, pc["clean"] # "idle", NEW to \in Label, Return(to)
  PROVE  Returns(to)
<1>0. cleaning.by \in Frame /\ cleaning.by # "clean" /\ "clean" \in Frame
      /\ "idle" \in Label
  BY DEF CleanerInv, Cleaner, Frame, Label
<1> DEFINE moved == [pc EXCEPT !["clean"] = "idle"]
<1>1. /\ moved \in [Frame -> Label]
      /\ moved["clean"] = "idle"
      /\ \A g \in Frame \ {"clean"} : moved[g] = pc[g]
  BY <1>0 DEF FrameTypes
<1>2. pc' = [moved EXCEPT ![cleaning.by] = to]
  BY DEF Return
<1> HIDE DEF moved
<1> QED
  BY <1>0, <1>1, <1>2 DEF Return, Returns

-----------------------------------------------------------------------------
(* The store: every step of the worker is a transaction of RunStore or     *)
(* leaves the store alone.                                                 *)

LEMMA RunInStore == run \in RunId
  BY LifecycleAssumption

LEMMA StopRequested ==
  ASSUME StoreTypeOK, RequestStop(run)
  PROVE  /\ Status \in {"awaiting_plan_approval", "running"}
         /\ Status' = "stopping"
         /\ UNCHANGED <<now, ops, credits, grants>>
  BY RunInStore, RequestStopEffect DEF Status, RequestStop

LEMMA RunCanceled ==
  ASSUME StoreTypeOK, CancelRun(run)
  PROVE  /\ Status \in Live /\ Status' = "canceled"
         /\ UNCHANGED <<now, ops, credits, grants>>
  BY RunInStore, CancelRunEffect DEF Status, CancelRun

LEMMA RunFinished ==
  ASSUME StoreTypeOK, NEW verdicts \in VerdictLists, FinishRun(run, verdicts)
  PROVE  /\ Status = "running" /\ Status' = "completed"
         /\ UNCHANGED <<now, ops, credits, grants>>
  BY RunInStore, FinishRunEffect DEF Status, FinishRun

LEMMA StoreUntouched ==
  ASSUME UNCHANGED storeVars
  PROVE  UNCHANGED <<now, runs, ops, credits, grants>> /\ Status' = Status
  BY DEF storeVars, Status

(* A claim dispatches an operation that was absent, for a running run. *)
LEMMA StepClaimed ==
  ASSUME StoreTypeOK, NEW o \in OperationId, NEW s \in Request, NEW lease \in LeaseMs,
         ClaimDispatch(run, run, o, s, lease)
  PROVE  /\ Status = "running" /\ Status' = "running"
         /\ ops[o].state = "absent"
         /\ ops' \in [OperationId -> Operation]
         /\ ops'[o].state = "dispatched" /\ ops'[o].run = run /\ ops'[o].request = s
         /\ \A p \in OperationId \ {o} : ops'[p] = ops[p]
         /\ grants' = grants \cup {[op |-> o, run |-> run, request |-> s, at |-> now]}
<1>1. [StoreNext]_storeVars
  BY RunInStore DEF StoreNext, Claim
<1>2. StoreTypeOK'
  BY <1>1, StoreTypeStep
<1> QED
  BY <1>2 DEF ClaimDispatch, MayClaim, Status, StoreTypeOK, Operation

LEMMA ClaimExpiredKeeps ==
  ASSUME StoreTypeOK, NEW o \in OperationId, NEW s, ClaimExpired(run, run, o, s)
  PROVE  /\ Status' = Status /\ UNCHANGED grants
         /\ \A p \in OperationId :
              /\ ops'[p].run = ops[p].run /\ ops'[p].request = ops[p].request
              /\ \/ ops'[p].state = ops[p].state
                 \/ ops[p].state = "dispatched" /\ ops'[p].state = "unknown"
  BY DEF ClaimExpired, Status, StoreTypeOK, Operation

LEMMA AbandonKeeps ==
  ASSUME StoreTypeOK, AbandonDispatched(run)
  PROVE  /\ Status' = Status /\ UNCHANGED grants
         /\ \A p \in OperationId :
              /\ ops'[p].run = ops[p].run /\ ops'[p].request = ops[p].request
              /\ \/ ops'[p].state = ops[p].state
                 \/ ops[p].state = "dispatched" /\ ops'[p].state = "unknown"
  BY DEF AbandonDispatched, Status, StoreTypeOK, Operation

LEMMA ConfirmKeeps ==
  ASSUME StoreTypeOK, NEW o \in OperationId, NEW c \in Receipt, ConfirmOperation(run, o, c)
  PROVE  /\ Status' = Status /\ UNCHANGED grants
         /\ ops[o].state # "absent"
         /\ \A p \in OperationId :
              /\ ops'[p].run = ops[p].run /\ ops'[p].request = ops[p].request
              /\ p # o => ops'[p].state = ops[p].state
<1>1. \A p \in OperationId : p # o => ops'[p] = ops[p]
  BY DEF ConfirmOperation, StoreTypeOK
<1> DEFINE once == [ops[o] EXCEPT !.state = "confirmed"]
<1>2. once.run = ops[o].run /\ once.request = ops[o].request /\ once \in Operation
  BY DEF StoreTypeOK, Operation
<1>3. ops'[o] = [once EXCEPT !.receipt = c]
  BY DEF ConfirmOperation, StoreTypeOK
<1> HIDE DEF once
<1>4. ops'[o].run = ops[o].run /\ ops'[o].request = ops[o].request
  BY <1>2, <1>3 DEF Operation
<1> QED
  BY <1>1, <1>4 DEF ConfirmOperation, Status, OperationsOf

LEMMA LifeStoreStep ==
  ASSUME FrameTypes, CallNamed, [LifeNext]_lifeVars
  PROVE  [StoreNext]_storeVars
<1> SUFFICES ASSUME ~ UNCHANGED storeVars PROVE StoreNext
  OBVIOUS
<1> USE RunInStore
<1>1. CASE RequestStop(run)
  BY <1>1 DEF StoreNext
<1>2. CASE Tool
  <2>1. CASE ClaimStep
    <3>1. call.op \in OperationId /\ call.step \in Request
      BY <2>1 DEF ClaimStep, At, CallNamed, Called, Step
    <3> QED
      BY <2>1, <3>1 DEF ClaimStep, StoreNext, Claim
  <2>2. CASE ClaimRefused
    <3>1. call.op \in OperationId /\ call.step \in Request
      BY <2>2 DEF ClaimRefused, At, CallNamed, Called, Step
    <3> QED
      BY <2>2, <3>1 DEF ClaimRefused, StoreNext, Claim
  <2>3. CASE Confirm
    <3>1. call.op \in OperationId
      BY <2>3 DEF Confirm, At, Resumed, CallNamed, Called
    <3> QED
      BY <2>3, <3>1 DEF Confirm, StoreNext
  <2>4. CASE Finish
    BY <2>4 DEF Finish, StoreNext
  <2> QED
    BY <1>2, <2>1, <2>2, <2>3, <2>4
       DEF Tool, Bound, TakeSlot, Act, Post, Made, Worked, Fails, CleanTool, EndTool
<1>3. CASE Calls \/ Cleanup \/ Retry \/ WatchEvent
  BY <1>3 DEF Calls, CallTool, CallRefused, Cleanup, StartCleanup, CleanupReady, NextFixture,
     DispatchDelete, SendDelete, Deleted, DeleteFails, RecordCleanup, EndCleanup, Retry,
     RetryCleanup, RetryEnds, WatchEvent
<1>4. CASE Watch \/ Cancel \/ WatchdogFires
  BY <1>1, <1>4 DEF Watch, TurnEnds, CompleteIncomplete, Completed, WatchFails, WatchCancels,
     RecordStop, Cancel, WatchdogFires, ExpireDeadline, StoreNext
<1>5. CASE Stop
  BY <1>5 DEF Stop, Revoke, Account, StopFails, Settle, FinishStop, ClearStopError, StoreNext
<1>6. CASE Recover
  BY <1>1, <1>6 DEF Recover, Boot, RecoverStops, RecoverStopping, RecoverEnded, RecoverRunning,
     BindingReady, BindingBlocked, CloseBlocked, Recovered, ExpireDeadline, StoreNext
<1>7. CASE Crash \/ TargetServes \/ UNCHANGED lifeVars
  BY <1>7 DEF Crash, TargetServes, lifeVars
<1>8. CASE TimePasses
  BY <1>8 DEF TimePasses, StoreNext
<1> QED
  BY <1>2, <1>3, <1>4, <1>5, <1>6, <1>7, <1>8 DEF LifeNext

-----------------------------------------------------------------------------
(* The steps of the watcher, the stop, the retry, the recovery and the     *)
(* owner leave the tool call, the documents and the target alone.  They    *)
(* may start the cleanup.                                                  *)

Elsewhere ==
  \/ CallRefused \/ Retry \/ WatchEvent \/ Watch \/ Cancel \/ WatchdogFires \/ Stop
  \/ Recover \/ TimePasses \/ UNCHANGED lifeVars

ToolKept ==
  /\ pc'["tool"] = pc["tool"]
  /\ UNCHANGED <<call, context, slots, intents, net, served, creates, deletes, grants>>

CleanerKept ==
  /\ UNCHANGED cleaning
  /\ pc'["clean"] = pc["clean"]
  /\ \A f \in Cleaner : pc[f] = "cleaning" => pc'[f] = "cleaning"

CleanerStarts == \E f \in {"watch", "stop", "retry"} : Cleans(f)

FramesKept == pc' \in [Frame -> Label] /\ pc'["tool"] = pc["tool"] /\ CleanerKept

(* A frame that does not wait for the cleanup moves. *)
LEMMA OneMoves ==
  ASSUME FrameTypes, NEW f \in {"watch", "stop", "retry", "boot"}, pc[f] # "cleaning",
         NEW at, Moves(f, at), UNCHANGED cleaning
  PROVE  FramesKept
  BY DEF Moves, FramesKept, CleanerKept, Cleaner, Frame

LEMMA OneStarts ==
  ASSUME FrameTypes, NEW f \in {"watch", "boot", "tool"}, pc[f] # "cleaning",
         NEW at, Starts(f, at, "stopping") \/ Starts(f, at, Status), f = "tool" => at = pc["tool"],
         UNCHANGED cleaning
  PROVE  FramesKept
  BY DEF Starts, FramesKept, CleanerKept, Cleaner, Frame

(* Recovery keeps its place while others move. *)
LEMMA BootKept ==
  ASSUME BootInv, UNCHANGED worker, worker # "down", pc'["boot"] = pc["boot"],
         pc'["watch"] = pc["watch"] \/ pc["watch"] # "idle",
         pc'["tool"] = pc["tool"] \/ worker = "up" \/ pc["tool"] # "idle",
         pc'["retry"] = pc["retry"] \/ worker = "up" \/ pc["retry"] # "idle"
  PROVE  BootInv'
  BY DEF BootInv

LEMMA NotDown ==
  ASSUME BootInv, NEW f \in Frame, pc[f] # "idle" PROVE worker # "down"
  BY DEF BootInv

LEMMA RefusedElsewhere ==
  ASSUME FrameTypes, BootInv, CallRefused PROVE FramesKept /\ BootInv'
<1>1. Starts("tool", "idle", Status) /\ pc["tool"] = "idle"
  BY StartStopMoves DEF CallRefused, Frame, Label
<1>2. FramesKept
  BY <1>1, OneStarts DEF CallRefused, memory
<1>3. BootInv'
  BY <1>1, BootKept DEF CallRefused, Starts, Frame, process
<1> QED
  BY <1>2, <1>3

LEMMA RetryElsewhere ==
  ASSUME FrameTypes, BootInv, Retry
  PROVE  (FramesKept \/ Cleans("retry")) /\ BootInv'
<1>1. CASE RetryCleanup
  <2>1. Cleans("retry")
    BY <1>1, CallCleanupMoves DEF RetryCleanup, Cleaner
  <2>2. BootInv'
    BY <1>1, <2>1, BootKept DEF RetryCleanup, Cleans, Frame, process
  <2> QED
    BY <2>1, <2>2
<1>2. CASE RetryEnds
  <2>1. Moves("retry", "idle") /\ pc["retry"] \in {"cleaned", "failed"}
    BY <1>2, AwaitMoves DEF RetryEnds, Resumed, Frame, Label
  <2>2. FramesKept
    BY <1>2, <2>1, OneMoves DEF RetryEnds, memory
  <2>3. BootInv'
    BY <1>2, <2>1, BootKept, NotDown DEF RetryEnds, Moves, Frame, process
  <2> QED
    BY <2>2, <2>3
<1> QED
  BY <1>1, <1>2 DEF Retry

LEMMA WatchElsewhere ==
  ASSUME FrameTypes, BootInv, Watch
  PROVE  (FramesKept \/ Cleans("watch")) /\ BootInv'
<1>1. CASE TurnEnds
  <2>1. Moves("watch", "ended") /\ pc["watch"] = "stream"
    BY <1>1, ContinueMoves DEF TurnEnds, Resumed, Frame, Label
  <2>2. FramesKept /\ BootInv'
    BY <1>1, <2>1, OneMoves, BootKept, NotDown DEF TurnEnds, Moves, Frame, process, memory
  <2> QED
    BY <2>2
<1>2. CASE CompleteIncomplete
  <2>1. pc["watch"] = "ended" /\ UNCHANGED worker
    BY <1>2 DEF CompleteIncomplete, At, process
  <2>2. \/ Moves("watch", "idle") /\ UNCHANGED cleaning
        \/ Moves("watch", "failed") /\ UNCHANGED cleaning
        \/ Cleans("watch")
    BY <1>2, AwaitMoves, CallCleanupMoves DEF CompleteIncomplete, Frame, Label, Cleaner
  <2>3. FramesKept \/ Cleans("watch")
    BY <2>1, <2>2, OneMoves
  <2>4. pc'["boot"] = pc["boot"] /\ pc'["tool"] = pc["tool"] /\ pc'["retry"] = pc["retry"]
    BY <2>2 DEF Moves, Cleans, Frame
  <2>5. worker # "down"
    BY <2>1, NotDown DEF Frame
  <2>6. BootInv'
    BY <2>1, <2>4, <2>5, BootKept
  <2> QED
    BY <2>3, <2>6
<1>3. CASE Completed
  <2>1. Moves("watch", "idle") /\ pc["watch"] = "cleaned"
    BY <1>3, AwaitMoves DEF Completed, Resumed, Frame, Label
  <2>2. FramesKept /\ BootInv'
    BY <1>3, <2>1, OneMoves, BootKept, NotDown DEF Completed, Moves, Frame, process, memory
  <2> QED
    BY <2>2
<1>4. CASE WatchFails
  <2>1. Moves("watch", "cancel") /\ pc["watch"] \in {"stream", "failed", "cleaned"}
    BY <1>4, ContinueMoves DEF WatchFails, Resumed, Frame, Label
  <2>2. FramesKept /\ BootInv'
    BY <1>4, <2>1, OneMoves, BootKept, NotDown DEF WatchFails, Moves, Frame, process, memory
  <2> QED
    BY <2>2
<1>5. CASE WatchCancels
  <2>1. pc["watch"] = "cancel"
    BY <1>5 DEF WatchCancels, At
  <2>2. Starts("watch", "idle", "stopping") \/ Starts("watch", "idle", Status)
    BY <1>5, StartStopMoves DEF WatchCancels, RecordStop, Frame, Label
  <2>3. FramesKept
    BY <1>5, <2>1, <2>2, OneStarts DEF WatchCancels
  <2>4. pc'["boot"] = pc["boot"] /\ pc'["tool"] = pc["tool"] /\ pc'["retry"] = pc["retry"]
    BY <2>2 DEF Starts, Frame
  <2>5. BootInv'
    BY <1>5, <2>1, <2>4, BootKept, NotDown DEF WatchCancels, Frame, process
  <2> QED
    BY <2>3, <2>5
<1> QED
  BY <1>1, <1>2, <1>3, <1>4, <1>5 DEF Watch

LEMMA StopElsewhere ==
  ASSUME FrameTypes, BootInv, Stop
  PROVE  (FramesKept \/ Cleans("stop")) /\ BootInv'
<1>1. pc["stop"] # "idle" /\ pc["stop"] # "cleaning" /\ UNCHANGED worker
  BY DEF Stop, Revoke, Account, StopFails, Settle, FinishStop, ClearStopError, At, Resumed,
     process
<1>2. ((\E at \in Label : Moves("stop", at)) /\ UNCHANGED cleaning) \/ Cleans("stop")
  <2>1. CASE Account
    BY <2>1, CallCleanupMoves DEF Account, Cleaner, Label
  <2>2. CASE Revoke
    BY <2>2, ContinueMoves DEF Revoke, Frame, Label, memory
  <2>3. CASE StopFails
    BY <2>3, AwaitMoves DEF StopFails, Frame, Label
  <2>4. CASE Settle
    BY <2>4, ContinueMoves DEF Settle, Frame, Label, memory
  <2>5. CASE FinishStop
    BY <2>5, ContinueMoves DEF FinishStop, Frame, Label, memory
  <2>6. CASE ClearStopError
    BY <2>6, AwaitMoves DEF ClearStopError, Frame, Label, memory
  <2> QED
    BY <2>1, <2>2, <2>3, <2>4, <2>5, <2>6 DEF Stop
<1>3. FramesKept \/ Cleans("stop")
  BY <1>1, <1>2, OneMoves
<1>4. /\ pc'["boot"] = pc["boot"] /\ pc'["tool"] = pc["tool"]
      /\ pc'["retry"] = pc["retry"] /\ pc'["watch"] = pc["watch"]
  BY <1>2 DEF Moves, Cleans, Frame
<1>5. BootInv'
  BY <1>1, <1>4, BootKept, NotDown DEF Frame
<1> QED
  BY <1>3, <1>5

LEMMA OwnerElsewhere ==
  ASSUME FrameTypes, BootInv, Cancel \/ WatchdogFires PROVE FramesKept /\ BootInv'
<1>1. worker = "up" /\ UNCHANGED <<worker, cleaning>>
  BY DEF Cancel, WatchdogFires, process
<1>2. Starts("boot", "idle", "stopping") \/ Starts("boot", "idle", Status)
  BY StartStopMoves DEF Cancel, RecordStop, WatchdogFires, ExpireDeadline, Frame, Label
<1>4. FramesKept
  BY <1>1, <1>2 DEF Starts, FramesKept, CleanerKept, Cleaner, Frame
<1>5. BootInv'
  BY <1>1, <1>2 DEF Starts, BootInv, Frame
<1> QED
  BY <1>4, <1>5

(* A step of the recovery, before it has ended. *)
LEMMA RecoverStarts ==
  ASSUME FrameTypes, BootInv, NEW at \in {"recovered", "binding", "close"},
         pc["boot"] \in {"recover", "binding", "close"}, UNCHANGED <<worker, cleaning>>,
         Moves("boot", at) \/ Starts("boot", at, "stopping") \/ Starts("boot", at, Status)
  PROVE  FramesKept /\ BootInv'
<1>1. FramesKept
  BY DEF Moves, Starts, FramesKept, CleanerKept, Cleaner, Frame
<1>2. BootInv'
  BY DEF Moves, Starts, BootInv, Frame
<1> QED
  BY <1>1, <1>2

LEMMA RecoverElsewhere ==
  ASSUME FrameTypes, BootInv, Recover PROVE FramesKept /\ BootInv'
<1>1. CASE Boot
  <2>1. Moves("boot", "recover") /\ UNCHANGED cleaning
    BY <1>1, ContinueMoves DEF Boot, Frame, Label, memory
  <2>2. \A f \in Frame : pc[f] = "idle"
    BY <1>1 DEF Boot, BootInv
  <2>3. FramesKept
    BY <2>1, <2>2, OneMoves DEF Frame
  <2>4. BootInv'
    BY <1>1, <2>1, <2>2 DEF Boot, BootInv, Moves, Frame
  <2> QED
    BY <2>3, <2>4
<1>2. CASE RecoverStops
  <2>1. Starts("boot", "recovered", "stopping")
    BY <1>2, StartStopMoves DEF RecoverStops, ExpireDeadline, Frame, Label
  <2> QED
    BY <1>2, <2>1, RecoverStarts DEF RecoverStops, At, process
<1>3. CASE RecoverStopping
  <2>1. Starts("boot", "recovered", Status)
    BY <1>3, StartStopMoves DEF RecoverStopping, Frame, Label
  <2> QED
    BY <1>3, <2>1, RecoverStarts DEF RecoverStopping, At, process, memory
<1>4. CASE RecoverEnded
  <2>1. Moves("boot", "recovered")
    BY <1>4, AwaitMoves DEF RecoverEnded, Frame, Label
  <2> QED
    BY <1>4, <2>1, RecoverStarts DEF RecoverEnded, At, process, memory
<1>5. CASE RecoverRunning
  <2>1. Moves("boot", "binding")
    BY <1>5, AwaitMoves DEF RecoverRunning, Frame, Label
  <2> QED
    BY <1>5, <2>1, RecoverStarts DEF RecoverRunning, At, process, memory
<1>6. CASE BindingReady
  <2> DEFINE watch == IF runtime = "running" THEN "stream" ELSE "idle"
             moved == [pc EXCEPT !["boot"] = "recovered"]
  <2>1. pc["boot"] = "binding" /\ pc["watch"] = "idle"
    BY <1>6 DEF BindingReady, Resumed, BootInv
  <2>2. /\ moved \in [Frame -> Label]
        /\ moved["boot"] = "recovered"
        /\ \A g \in Frame \ {"boot"} : moved[g] = pc[g]
    BY DEF FrameTypes, Frame, Label
  <2>3. pc' = [moved EXCEPT !["watch"] = watch]
    BY <1>6 DEF BindingReady
  <2>4. watch \in Label /\ watch # "cleaning"
    BY DEF Label
  <2> HIDE DEF moved, watch
  <2>5. /\ pc' \in [Frame -> Label] /\ pc'["boot"] = "recovered"
        /\ \A g \in Frame \ {"boot", "watch"} : pc'[g] = pc[g]
    BY <2>2, <2>3, <2>4 DEF Frame
  <2>6. FramesKept
    BY <1>6, <2>1, <2>5 DEF BindingReady, FramesKept, CleanerKept, Cleaner, Frame
  <2>7. BootInv'
    BY <1>6, <2>1, <2>5 DEF BindingReady, BootInv, Frame, process
  <2> QED
    BY <2>6, <2>7
<1>7. CASE BindingBlocked
  <2>1. Moves("boot", "close")
    BY <1>7, ContinueMoves DEF BindingBlocked, Frame, Label
  <2> QED
    BY <1>7, <2>1, RecoverStarts DEF BindingBlocked, Resumed, process, memory
<1>8. CASE CloseBlocked
  <2>1. Moves("boot", "recovered")
    BY <1>8, AwaitMoves DEF CloseBlocked, Frame, Label
  <2> QED
    BY <1>8, <2>1, RecoverStarts DEF CloseBlocked, At, process, memory
<1>9. CASE Recovered
  <2>1. Moves("boot", "idle") /\ UNCHANGED cleaning /\ pc["boot"] = "recovered"
    BY <1>9, AwaitMoves DEF Recovered, Resumed, Frame, Label, memory
  <2>2. FramesKept
    BY <2>1, OneMoves
  <2>3. BootInv'
    BY <1>9, <2>1 DEF Recovered, BootInv, Moves, Frame
  <2> QED
    BY <2>2, <2>3
<1> QED
  BY <1>1, <1>2, <1>3, <1>4, <1>5, <1>6, <1>7, <1>8, <1>9 DEF Recover

(* Nothing is granted elsewhere than by the tool. *)
LEMMA ElsewhereGrants ==
  ASSUME StoreTypeOK, Elsewhere PROVE UNCHANGED grants
<1>1. CASE CallRefused \/ Retry \/ WatchEvent \/ UNCHANGED lifeVars
  BY <1>1 DEF CallRefused, Retry, RetryCleanup, RetryEnds, WatchEvent, lifeVars, storeVars
<1>2. CASE Watch
  BY <1>2, StopRequested, RunFinished DEF Watch, TurnEnds, CompleteIncomplete, Completed,
     WatchFails, WatchCancels, RecordStop, storeVars
<1>3. CASE Cancel \/ WatchdogFires
  BY <1>3, StopRequested DEF Cancel, RecordStop, WatchdogFires, ExpireDeadline, storeVars
<1>4. CASE Stop
  BY <1>4, RunCanceled DEF Stop, Revoke, Account, StopFails, Settle, FinishStop,
     ClearStopError, storeVars
<1>5. CASE Recover
  BY <1>5, StopRequested, AbandonKeeps DEF Recover, Boot, RecoverStops, RecoverStopping,
     RecoverEnded, RecoverRunning, BindingReady, BindingBlocked, CloseBlocked, Recovered,
     ExpireDeadline, storeVars
<1>6. CASE TimePasses
  BY <1>6 DEF TimePasses, Tick
<1> QED
  BY <1>1, <1>2, <1>3, <1>4, <1>5, <1>6 DEF Elsewhere

LEMMA ElsewhereDocs ==
  ASSUME Elsewhere
  PROVE  UNCHANGED <<call, context, slots, intents, net, served, creates, deletes>>
<1> USE DEF docs, target, memory
<1>1. CASE CallRefused \/ Retry \/ WatchEvent \/ UNCHANGED lifeVars
  BY <1>1 DEF CallRefused, Retry, RetryCleanup, RetryEnds, WatchEvent, lifeVars
<1>2. CASE Watch
  BY <1>2 DEF Watch, TurnEnds, CompleteIncomplete, Completed, WatchFails, WatchCancels
<1>3. CASE Cancel \/ WatchdogFires
  BY <1>3 DEF Cancel, WatchdogFires
<1>4. CASE Stop
  BY <1>4 DEF Stop, Revoke, Account, StopFails, Settle, FinishStop, ClearStopError
<1>5. CASE Recover
  BY <1>5 DEF Recover, Boot, RecoverStops, RecoverStopping, RecoverEnded, RecoverRunning,
     BindingReady, BindingBlocked, CloseBlocked, Recovered
<1>6. CASE TimePasses
  BY <1>6 DEF TimePasses
<1> QED
  BY <1>1, <1>2, <1>3, <1>4, <1>5, <1>6 DEF Elsewhere

LEMMA ElsewhereMoves ==
  ASSUME FrameTypes, CleanerInv, BootInv, Elsewhere
  PROVE  (FramesKept \/ CleanerStarts) /\ BootInv'
<1>1. CASE CallRefused \/ Retry \/ Watch \/ Cancel \/ WatchdogFires \/ Stop \/ Recover
  BY <1>1, RefusedElsewhere, RetryElsewhere, WatchElsewhere, OwnerElsewhere, StopElsewhere,
     RecoverElsewhere DEF CleanerStarts
<1>2. CASE WatchEvent \/ TimePasses \/ UNCHANGED lifeVars
  <2>1. UNCHANGED <<pc, cleaning, worker>>
    BY <1>2 DEF WatchEvent, TimePasses, lifeVars, thread, memory, process
  <2>2. FramesKept
    BY <2>1 DEF FramesKept, CleanerKept, FrameTypes
  <2>3. BootInv'
    BY <2>1 DEF BootInv
  <2> QED
    BY <2>2, <2>3
<1> QED
  BY <1>1, <1>2 DEF Elsewhere

LEMMA ElsewhereKeeps ==
  ASSUME FrameTypes, CleanerInv, BootInv, StoreTypeOK, Elsewhere
  PROVE  ToolKept /\ (FramesKept \/ CleanerStarts) /\ BootInv'
<1>1. (FramesKept \/ CleanerStarts) /\ BootInv'
  BY ElsewhereMoves
<1>2. pc'["tool"] = pc["tool"]
  BY <1>1 DEF FramesKept, CleanerStarts, Cleans, Frame
<1> QED
  BY <1>1, <1>2, ElsewhereDocs, ElsewhereGrants DEF ToolKept

-----------------------------------------------------------------------------
(* Records *)

LEMMA NoContextTyped == NoContext \in Context /\ NoCall \in Call /\ NoCleaning \in Cleaning
<1>1. NoContext \in Context
  BY DEF NoContext, Context, Fixture, Chain
<1> QED
  BY <1>1 DEF NoCall, Call, NoCleaning, Cleaning

LEMMA PositionTyped ==
  /\ \A s \in Step \cup {"cleanup"} : Position(s) \in 0..Len(Chain)
  /\ Position("cleanup") = 0 /\ Position("prepare") = 1
  /\ \A s \in Step : s # "cleanup" => Position(s) > 0
<1>0. Len(Chain) = 8 /\ DOMAIN Chain = 1..8
  BY DEF Chain
<1>a. /\ Chain[1] = "prepare" /\ Chain[2] = "SC01" /\ Chain[3] = "create"
      /\ Chain[4] = "SC02" /\ Chain[5] = "schedule" /\ Chain[6] = "SC03"
      /\ Chain[7] = "advance" /\ Chain[8] = "SC04"
  BY DEF Chain
<1> HIDE DEF Chain
<1>1. \A s \in Step : s # "cleanup" => \E n \in DOMAIN Chain : Chain[n] = s
  BY <1>0, <1>a, LifecycleAssumption DEF Step
<1>2. \A s \in Step : s # "cleanup" => Position(s) \in DOMAIN Chain
  BY <1>1 DEF Position
<1>3. Position("cleanup") = 0
  BY DEF Position
<1>4. Position("prepare") = 1
  <2>1. Position("prepare") = CHOOSE n \in DOMAIN Chain : Chain[n] = "prepare"
    BY DEF Position
  <2>2. Position("prepare") \in DOMAIN Chain /\ Chain[Position("prepare")] = "prepare"
    BY <1>0, <1>a, <2>1
  <2> QED
    BY <1>0, <1>a, <2>2
<1> QED
  BY <1>0, <1>2, <1>3, <1>4

(* What the tool call writes to its copy of the context. *)
LEMMA KnownRecorded ==
  ASSUME NEW c \in Call, NEW f \in Fixture, NEW d,
         d = [c EXCEPT !.ctx.known = @ \cup {f}]
  PROVE  /\ d \in Call /\ d.op = c.op /\ d.step = c.step
         /\ d.ctx \in Context
         /\ d.ctx.known = c.ctx.known \cup {f}
         /\ d.ctx.progress = c.ctx.progress
         /\ d.ctx.cleanup = c.ctx.cleanup
<1> DEFINE ctx == [c.ctx EXCEPT !.known = @ \cup {f}]
<1>1. /\ ctx \in Context /\ ctx.known = c.ctx.known \cup {f}
      /\ ctx.progress = c.ctx.progress /\ ctx.cleanup = c.ctx.cleanup
  BY DEF Call, Context
<1>2. d = [c EXCEPT !.ctx = ctx]
  BY DEF Call
<1> HIDE DEF ctx
<1> QED
  BY <1>1, <1>2 DEF Call

AtStep(c, p) == [c EXCEPT !.ctx.progress = p]

LEMMA ProgressRecorded ==
  ASSUME NEW c \in Call, NEW p \in 0..Len(Chain), NEW d, d = AtStep(c, p)
  PROVE  /\ d \in Call /\ d.op = c.op /\ d.step = c.step
         /\ d.ctx \in Context
         /\ d.ctx.known = c.ctx.known
         /\ d.ctx.progress = p
         /\ d.ctx.cleanup = c.ctx.cleanup
<1> DEFINE ctx == [c.ctx EXCEPT !.progress = p]
<1>1. /\ ctx \in Context /\ ctx.known = c.ctx.known
      /\ ctx.progress = p /\ ctx.cleanup = c.ctx.cleanup
  BY DEF Call, Context
<1>2. d = [c EXCEPT !.ctx = ctx]
  BY DEF Call, AtStep
<1> HIDE DEF ctx
<1> QED
  BY <1>1, <1>2 DEF Call

(* What the cleanup writes to its copy of the context. *)
LEMMA LeftoverRecorded ==
  ASSUME NEW c \in Cleaning, NEW f \in Fixture, NEW status \in {"none", "deleted", "leftover"}
  PROVE  LET d == Leftover(c, f, status) IN
         /\ d \in Cleaning /\ d.by = c.by /\ d.fixture = c.fixture
         /\ d.ctx \in Context
         /\ d.ctx.known = c.ctx.known
         /\ d.ctx.progress = c.ctx.progress
         /\ d.ctx.cleanup[f] = status
<1> DEFINE d == Leftover(c, f, status)
           table == [c.ctx.cleanup EXCEPT ![f] = status]
           ctx == [c.ctx EXCEPT !.cleanup = table]
<1>1. /\ table \in [Fixture -> {"none", "deleted", "leftover"}]
      /\ table[f] = status
  BY DEF Cleaning, Context
<1>2. d = [c EXCEPT !.ctx = ctx]
  BY DEF Leftover, Cleaning, Context
<1> HIDE DEF table
<1>3. /\ ctx \in Context /\ ctx.known = c.ctx.known
      /\ ctx.progress = c.ctx.progress /\ ctx.cleanup = table
  BY <1>1 DEF Cleaning, Context
<1> HIDE DEF ctx
<1> HIDE DEF d
<1>4. d \in Cleaning /\ d.by = c.by /\ d.fixture = c.fixture /\ d.ctx = ctx
  BY <1>2, <1>3 DEF Cleaning
<1> QED
  BY <1>1, <1>3, <1>4 DEF d

LEMMA LeftoverOthers ==
  ASSUME NEW c \in Cleaning, NEW f \in Fixture, NEW status \in {"none", "deleted", "leftover"},
         NEW g \in Fixture, g # f
  PROVE  Leftover(c, f, status).ctx.cleanup[g] = c.ctx.cleanup[g]
<1> DEFINE d == Leftover(c, f, status)
           table == [c.ctx.cleanup EXCEPT ![f] = status]
           ctx == [c.ctx EXCEPT !.cleanup = table]
<1>1. table[g] = c.ctx.cleanup[g]
  BY DEF Cleaning, Context
<1>2. d = [c EXCEPT !.ctx = ctx]
  BY DEF Leftover, Cleaning, Context
<1> HIDE DEF table
<1>3. ctx.cleanup = table
  BY DEF Cleaning, Context
<1> HIDE DEF ctx, d
<1>4. d.ctx = ctx
  BY <1>2 DEF Cleaning
<1> QED
  BY <1>1, <1>3, <1>4 DEF d

(* What the cleanup has, once it has marked a fixture. *)
Marked(c, f, status) ==
  /\ cleaning' \in Cleaning /\ cleaning'.by = c.by /\ cleaning'.fixture = c.fixture
  /\ cleaning'.ctx.known = c.ctx.known
  /\ cleaning'.ctx.progress = c.ctx.progress
  /\ cleaning'.ctx.cleanup[f] = status
  /\ \A g \in Fixture : g # f => cleaning'.ctx.cleanup[g] = c.ctx.cleanup[g]

LEMMA LeftoverMarks ==
  ASSUME NEW c \in Cleaning, NEW f \in Fixture, NEW status \in {"none", "deleted", "leftover"},
         cleaning' = Leftover(c, f, status)
  PROVE  Marked(c, f, status)
<1> DEFINE d == Leftover(c, f, status)
<1>1. /\ d \in Cleaning /\ d.by = c.by /\ d.fixture = c.fixture
      /\ d.ctx.known = c.ctx.known
      /\ d.ctx.progress = c.ctx.progress
      /\ d.ctx.cleanup[f] = status
  BY LeftoverRecorded
<1>2. \A g \in Fixture : g # f => d.ctx.cleanup[g] = c.ctx.cleanup[g]
  BY LeftoverOthers
<1>3. cleaning' = d
  OBVIOUS
<1> HIDE DEF d
<1> QED
  BY <1>1, <1>2, <1>3 DEF Marked

LEMMA FixtureTaken ==
  ASSUME NEW c \in Cleaning, NEW f \in Fixture, NEW d, d = [c EXCEPT !.fixture = f]
  PROVE  d \in Cleaning /\ d.by = c.by /\ d.fixture = f /\ d.ctx = c.ctx
  BY DEF Cleaning

LEMMA ContextTaken ==
  ASSUME NEW c \in Cleaning, NEW ctx \in Context, NEW d, d = [c EXCEPT !.ctx = ctx]
  PROVE  d \in Cleaning /\ d.by = c.by /\ d.fixture = c.fixture /\ d.ctx = ctx
  BY DEF Cleaning

-----------------------------------------------------------------------------
(* The effects *)

LEMMA DeletionsKept ==
  ASSUME DeletionsInv, UNCHANGED <<intents, deletes, served, cleaning>>,
         pc'["clean"] = pc["clean"],
         \A f \in Fixture : Delete(f) \in net' => Delete(f) \in net
  PROVE  DeletionsInv'
<1>1. \A f \in Fixture : DeletionInv(f)'
  BY DEF DeletionsInv, DeletionInv
<1> QED
  BY <1>1 DEF DeletionsInv

LEMMA CreationsKept ==
  ASSUME CreationsInv, UNCHANGED <<grants, creates, net, served>>,
         pc'["tool"] \in Creating => call'.step = "prepare",
         pc'["tool"] \in Creating \cup {"act"} /\ call'.step = "prepare" => Prepared,
         \A f \in Fixture :
           pc'["tool"] \in Before(f) /\ call'.step = "prepare" => creates[f] = 0
  PROVE  CreationsInv'
<1>1. Prepared' = Prepared
  BY DEF Prepared
<1> QED
  BY <1>1 DEF CreationsInv

LEMMA ElsewhereEffects ==
  ASSUME EffectsInv, StoreInv', Elsewhere PROVE EffectsInv'
<1>1. ToolKept /\ (FramesKept \/ CleanerStarts) /\ BootInv'
  BY ElsewhereKeeps DEF EffectsInv, LifeTypeOK, StoreInv
<1>2. LifeTypeOK'
  <2>1. DocTypes' /\ call' \in Call
    BY <1>1 DEF ToolKept, EffectsInv, LifeTypeOK, DocTypes, FrameTypes
  <2>2. pc' \in [Frame -> Label]
    BY <1>1 DEF FramesKept, CleanerStarts, Cleans
  <2>3. cleaning' \in Cleaning
    <3>1. CASE FramesKept
      BY <3>1 DEF FramesKept, CleanerKept, EffectsInv, LifeTypeOK, FrameTypes
    <3>2. CASE CleanerStarts
      BY <3>2, NoContextTyped DEF CleanerStarts, Cleans, Cleaning, Frame
    <3> QED
      BY <1>1, <3>1, <3>2
  <2> QED
    BY <2>1, <2>2, <2>3 DEF LifeTypeOK, FrameTypes
<1>3. CallNamed'
  BY <1>1 DEF ToolKept, EffectsInv, CallNamed
<1>4. CleanerInv'
  <2>1. CASE FramesKept
    BY <2>1 DEF FramesKept, CleanerKept, EffectsInv, CleanerInv
  <2>2. CASE CleanerStarts
    BY <2>2 DEF CleanerStarts, Cleans, CleanerInv, Cleaner
  <2> QED
    BY <1>1, <2>1, <2>2
<1>5. SlotsInv'
  BY <1>1 DEF ToolKept, EffectsInv, SlotsInv
<1>6. CreationsInv'
  <2>1. CreationsInv
    BY DEF EffectsInv
  <2>2. UNCHANGED <<grants, creates, net, served, call>> /\ pc'["tool"] = pc["tool"]
    BY <1>1 DEF ToolKept
  <2> QED
    BY <2>1, <2>2, CreationsKept DEF CreationsInv
<1>7. DeletionsInv'
  <2>1. DeletionsInv /\ UNCHANGED <<deletes, net, served, intents>>
    BY <1>1 DEF ToolKept, EffectsInv
  <2>2. CASE FramesKept
    BY <2>1, <2>2, DeletionsKept DEF FramesKept, CleanerKept
  <2>3. CASE CleanerStarts
    <3>1. pc'["clean"] = "start"
      BY <2>3 DEF CleanerStarts, Cleans
    <3>2. \A f \in Fixture : DeletionInv(f)'
      BY <2>1, <3>1 DEF DeletionsInv, DeletionInv
    <3> QED
      BY <3>1, <3>2 DEF DeletionsInv
  <2> QED
    BY <1>1, <2>2, <2>3
<1> QED
  BY <1>1, <1>2, <1>3, <1>4, <1>5, <1>6, <1>7 DEF EffectsInv

(* A step of the tool call that has only to account for itself. *)
LEMMA ToolEffects ==
  ASSUME EffectsInv, StoreInv', pc["tool"] # "cleaning",
         pc["tool"] # "idle" \/ worker = "up",
         NEW at \in Label, Moves("tool", at) \/ Starts("tool", at, Status),
         UNCHANGED <<cleaning, worker, intents, deletes, served>>,
         call' \in Call, context' \in Context,
         slots' \in [Step -> OperationId \cup {"none"}], creates' \in [Fixture -> Nat],
         \A f \in Fixture : Delete(f) \in net' => Delete(f) \in net,
         CallNamed', SlotsInv', CreationsInv'
  PROVE  EffectsInv'
<1> USE DEF EffectsInv
<1>1. /\ pc' \in [Frame -> Label] /\ pc'["clean"] = pc["clean"]
      /\ pc'["boot"] = pc["boot"] /\ pc'["watch"] = pc["watch"]
      /\ pc'["retry"] = pc["retry"]
      /\ \A f \in Cleaner : pc[f] = "cleaning" => pc'[f] = "cleaning"
  BY DEF Moves, Starts, Frame, Cleaner
<1>2. LifeTypeOK'
  BY <1>1 DEF LifeTypeOK, FrameTypes, DocTypes
<1>3. CleanerInv'
  BY <1>1 DEF CleanerInv
<1>4. BootInv'
  <2>1. worker # "down"
    BY NotDown DEF Frame
  <2> QED
    BY <1>1, <2>1, BootKept
<1>5. DeletionsInv'
  BY <1>1, DeletionsKept
<1> QED
  BY <1>2, <1>3, <1>4, <1>5

LEMMA ToolAdvances ==
  ASSUME EffectsInv, StoreInv', pc["tool"] \notin {"cleaning", "idle"},
         NEW at \in Label \ {"claim", "act"}, Moves("tool", at) \/ Starts("tool", at, Status),
         UNCHANGED <<cleaning, worker, slots, intents, net, served, creates, deletes, grants>>,
         call' \in Call, context' \in Context,
         at # "idle" => call'.op = call.op /\ call'.step = call.step,
         at \in Called => pc["tool"] \in Called,
         at \in Creating => call.step = "prepare" /\ Prepared,
         \A f \in Fixture : at \in Before(f) /\ call.step = "prepare" => creates[f] = 0
  PROVE  EffectsInv'
<1>1. pc'["tool"] = at
  BY DEF Moves, Starts
<1>2. CallNamed'
  BY <1>1 DEF EffectsInv, CallNamed, Called
<1>3. SlotsInv'
  BY <1>1 DEF EffectsInv, SlotsInv
<1>4. CreationsInv'
  <2>1. CreationsInv
    BY DEF EffectsInv
  <2>2. /\ at \in Creating => call'.step = "prepare"
        /\ at \in Creating \cup {"act"} /\ call'.step = "prepare" => Prepared
    BY DEF Creating
  <2>3. \A f \in Fixture : at \in Before(f) /\ call'.step = "prepare" => creates[f] = 0
    BY DEF Before
  <2> QED
    BY <1>1, <2>1, <2>2, <2>3, CreationsKept
<1> QED
  BY <1>2, <1>3, <1>4, ToolEffects DEF EffectsInv, LifeTypeOK, DocTypes

LEMMA CallEffects ==
  ASSUME EffectsInv, StoreInv', NEW o \in OperationId, NEW s \in Step, CallTool(o, s)
  PROVE  EffectsInv'
<1> USE DEF docs, target, process
<1>1. Moves("tool", "slot") \/ Moves("tool", "bind")
  BY ContinueMoves, AwaitMoves DEF CallTool, Frame, Label, EffectsInv, LifeTypeOK
<1>2. /\ call' = [op |-> o, step |-> s, ctx |-> NoContext]
      /\ UNCHANGED <<storeVars, context, slots, intents, net, served, creates, deletes,
                     cleaning, worker>>
      /\ worker = "up" /\ pc["tool"] = "idle"
  BY DEF CallTool
<1>3. call' \in Call /\ call'.op = o /\ call'.step = s
  BY <1>2, NoContextTyped DEF Call
<1>4. CallNamed'
  BY <1>1, <1>3 DEF CallNamed
<1>5. SlotsInv'
  BY <1>1, <1>2 DEF Moves, EffectsInv, SlotsInv, storeVars
<1>6. CreationsInv'
  <2>1. CreationsInv /\ UNCHANGED grants
    BY <1>2 DEF EffectsInv, storeVars
  <2>2. pc'["tool"] \notin Creating \cup {"act"} /\ \A f \in Fixture : pc'["tool"] \notin Before(f)
    BY <1>1 DEF Moves, Creating, Before
  <2> QED
    BY <1>2, <2>1, <2>2, CreationsKept
<1>7. PICK at \in Label : Moves("tool", at)
  BY <1>1 DEF Label
<1> QED
  BY <1>2, <1>3, <1>4, <1>5, <1>6, <1>7, ToolEffects DEF EffectsInv, LifeTypeOK, DocTypes

LEMMA TakeSlotEffects ==
  ASSUME EffectsInv, StoreInv', TakeSlot PROVE EffectsInv'
<1> USE DEF target, process, memory
<1>0. pc["tool"] = "slot" /\ call.op \in OperationId /\ call.step \in Step
  BY DEF TakeSlot, At, EffectsInv, CallNamed, Called
<1>1. CASE slots[call.step] \in {"none", call.op}
  <2>1. Moves("tool", "claim")
    BY <1>1, ContinueMoves DEF TakeSlot, Frame, Label, EffectsInv, LifeTypeOK
  <2>2. /\ slots' = [slots EXCEPT ![call.step] = call.op]
        /\ UNCHANGED <<storeVars, context, intents, net, served, creates, deletes,
                       cleaning, worker, call>>
    BY <1>1 DEF TakeSlot
  <2>3. slots' \in [Step -> OperationId \cup {"none"}] /\ slots'[call.step] = call.op
    BY <1>0, <2>2 DEF EffectsInv, LifeTypeOK, DocTypes
  <2>4. SlotsInv'
    <3>1. \A g \in grants : slots'[g.request] = g.op
      <4> SUFFICES ASSUME NEW g \in grants PROVE slots'[g.request] = g.op
        OBVIOUS
      <4>1. slots[g.request] = g.op /\ g.op \in OperationId /\ g.request \in Step
        BY DEF EffectsInv, SlotsInv, StoreInv, StoreTypeOK, Grant, Step
      <4>2. CASE g.request = call.step
        <5>1. g.op # "none"
          BY <1>0, <4>1, LifecycleAssumption
        <5> QED
          BY <1>1, <2>3, <4>1, <4>2, <5>1
      <4>3. CASE g.request # call.step
        BY <2>2, <4>1, <4>3 DEF EffectsInv, LifeTypeOK, DocTypes
      <4> QED
        BY <4>2, <4>3
    <3> QED
      BY <2>2, <2>3, <3>1 DEF SlotsInv, storeVars
  <2>5. CallNamed'
    BY <1>0, <2>2 DEF CallNamed
  <2>6. CreationsInv'
    <3>1. CreationsInv /\ UNCHANGED grants
      BY <2>2 DEF EffectsInv, storeVars
    <3>2. pc'["tool"] \notin Creating \cup {"act"} /\ \A f \in Fixture : pc'["tool"] \notin Before(f)
      BY <2>1 DEF Moves, Creating, Before
    <3> QED
      BY <2>2, <3>1, <3>2, CreationsKept
  <2> QED
    BY <1>0, <2>1, <2>2, <2>3, <2>4, <2>5, <2>6, ToolEffects
       DEF EffectsInv, LifeTypeOK, DocTypes, FrameTypes, Label
<1>2. CASE slots[call.step] \notin {"none", call.op}
  <2>1. Moves("tool", "end")
    BY <1>2, ContinueMoves DEF TakeSlot, Frame, Label, EffectsInv, LifeTypeOK
  <2>2. UNCHANGED <<storeVars, context, slots, intents, net, served, creates, deletes,
                    cleaning, worker, call>>
    BY <1>2 DEF TakeSlot
  <2> QED
    BY <1>0, <2>1, <2>2, ToolAdvances
       DEF EffectsInv, LifeTypeOK, DocTypes, FrameTypes, Label, Called, Creating, Before, storeVars
<1> QED
  BY <1>1, <1>2

LEMMA ClaimEffects ==
  ASSUME EffectsInv, StoreInv', ClaimStep PROVE EffectsInv'
<1> USE DEF docs, target, process
<1>0. pc["tool"] = "claim" /\ call.op \in OperationId /\ call.step \in Request
  BY DEF ClaimStep, At, EffectsInv, CallNamed, Called, Step
<1>1. Moves("tool", "act")
  BY ContinueMoves DEF ClaimStep, Frame, Label, EffectsInv, LifeTypeOK
<1>2. /\ ops[call.op].state = "absent"
      /\ grants' = grants \cup {[op |-> call.op, run |-> run, request |-> call.step, at |-> now]}
  BY <1>0, StepClaimed DEF ClaimStep, EffectsInv, StoreInv
<1>3. call' = [call EXCEPT !.ctx = context]
  BY DEF ClaimStep
<1>4. call' \in Call /\ call'.op = call.op /\ call'.step = call.step
  BY <1>3 DEF EffectsInv, LifeTypeOK, DocTypes, FrameTypes, Call
<1>5. UNCHANGED <<context, slots, intents, net, served, creates, deletes, cleaning, worker>>
  BY DEF ClaimStep
<1>6. slots[call.step] = call.op
  BY <1>0 DEF EffectsInv, SlotsInv
<1>7. CallNamed'
  BY <1>0, <1>4 DEF CallNamed, Step
<1>8. SlotsInv'
  BY <1>1, <1>2, <1>5, <1>6 DEF Moves, EffectsInv, SlotsInv
<1>9. CreationsInv'
  <2>1. call.step = "prepare" => ~ Prepared
    BY <1>2, <1>6 DEF Prepared, EffectsInv, SlotsInv, StoreInv, GrantsAccounted
  <2>2. Prepared => Prepared'
    BY <1>2 DEF Prepared
  <2>3. \A f \in Fixture : call.step = "prepare" => creates[f] = 0
    BY <2>1 DEF EffectsInv, CreationsInv, LifeTypeOK, DocTypes
  <2>4. pc'["tool"] \notin Creating
    BY <1>1 DEF Moves, Creating
  <2>5. call.step = "prepare" => Prepared'
    <3> DEFINE grant == [op |-> call.op, run |-> run, request |-> call.step, at |-> now]
    <3>1. grant \in grants' /\ grant.request = call.step
      BY <1>2
    <3> HIDE DEF grant
    <3> QED
      BY <3>1 DEF Prepared
  <2> QED
    BY <1>4, <1>5, <2>2, <2>3, <2>4, <2>5 DEF EffectsInv, CreationsInv
<1> QED
  BY <1>0, <1>1, <1>4, <1>5, <1>7, <1>8, <1>9, ToolEffects
     DEF EffectsInv, LifeTypeOK, DocTypes, Label

LEMMA PostEffects ==
  ASSUME EffectsInv, StoreInv', NEW f \in Fixture, Post(f) PROVE EffectsInv'
<1> USE DEF docs, target, process, memory
<1>0. pc["tool"] = Posting(f) /\ call.step = "prepare" /\ creates[f] = 0
  BY DEF Post, Resumed, Posting, EffectsInv, CreationsInv, Creating, Before, Fixture
<1>1. CASE Active
  <2>1. Moves("tool", Making(f))
    BY <1>1, AwaitMoves DEF Post, Making, Frame, Label, EffectsInv, LifeTypeOK
  <2>2. /\ net' = net \cup {Create(f)}
        /\ creates' = [creates EXCEPT ![f] = @ + 1]
        /\ UNCHANGED <<storeVars, context, slots, intents, served, deletes, cleaning,
                       worker, call>>
    BY <1>1 DEF Post
  <2>3. /\ creates' \in [Fixture -> Nat] /\ creates'[f] = 1
        /\ \A g \in Fixture \ {f} : creates'[g] = creates[g]
    BY <1>0, <2>2 DEF EffectsInv, LifeTypeOK, DocTypes
  <2>4. \A g \in Fixture : /\ Delete(g) \in net' => Delete(g) \in net
                           /\ g # f /\ Create(g) \in net' => Create(g) \in net
    BY <2>2 DEF Delete, Create
  <2>5. SlotsInv'
    BY <2>1, <2>2 DEF EffectsInv, SlotsInv, Moves, Making, storeVars
  <2>6. CreationsInv'
    <3>1. Prepared /\ Prepared' = Prepared
      <4>1. pc["tool"] \in Creating
        BY <1>0 DEF Posting, Creating
      <4> QED
        BY <1>0, <2>2, <4>1 DEF EffectsInv, CreationsInv, Prepared, storeVars
    <3>2. pc'["tool"] = Making(f)
      BY <2>1 DEF Moves
    <3>3. \A g \in Fixture :
            /\ creates'[g] <= 1
            /\ pc'["tool"] \in Before(g) => creates'[g] = 0
            /\ Create(g) \in net' \cup served => creates'[g] = 1
      BY <1>0, <2>3, <2>4, <3>2
         DEF EffectsInv, CreationsInv, Before, Making, Posting, Fixture
    <3> QED
      BY <1>0, <2>2, <3>1, <3>3 DEF CreationsInv
  <2>7. CallNamed'
    BY <1>0, <2>2 DEF EffectsInv, CallNamed, Called, Posting
  <2> QED
    BY <1>0, <2>1, <2>2, <2>3, <2>4, <2>5, <2>6, <2>7, ToolEffects
       DEF EffectsInv, LifeTypeOK, DocTypes, FrameTypes, Label, Making, Posting
<1>2. CASE ~ Active
  <2>1. Moves("tool", "end")
    BY <1>2, ContinueMoves DEF Post, Frame, Label, EffectsInv, LifeTypeOK
  <2>2. UNCHANGED <<storeVars, context, slots, intents, net, served, creates, deletes,
                    cleaning, worker, call>>
    BY <1>2 DEF Post
  <2> QED
    BY <1>0, <2>1, <2>2, ToolAdvances
       DEF EffectsInv, LifeTypeOK, DocTypes, FrameTypes, Label, Called, Creating, Before,
           storeVars, Posting
<1> QED
  BY <1>1, <1>2

(* The rest of the call claims nothing and asks for no fixture. *)
LEMMA MadeEffects ==
  ASSUME EffectsInv, StoreInv', NEW f \in Fixture, Made(f) PROVE EffectsInv'
<1> USE DEF docs, target, process, memory
<1>1. pc["tool"] = Making(f)
  BY DEF Made, Resumed
<1>2. \/ Moves("tool", "end") \/ Moves("tool", "work")
      \/ f = "free" /\ Moves("tool", "post-paid")
  BY ContinueMoves, AwaitMoves DEF Made, Frame, Label, EffectsInv, LifeTypeOK, Posting
<1>3. call' = [call EXCEPT !.ctx.known = @ \cup {f}] /\ context' = call'.ctx
  BY DEF Made
<1>4. call' \in Call /\ context' \in Context /\ call'.op = call.op /\ call'.step = call.step
  BY <1>3, KnownRecorded DEF EffectsInv, LifeTypeOK, FrameTypes
<1>5. UNCHANGED <<storeVars, slots, intents, net, served, creates, deletes, cleaning, worker>>
  BY DEF Made
<1>6. PICK at \in {"end", "work", "post-paid"} :
        Moves("tool", at) /\ (at = "post-paid" => f = "free")
  BY <1>2
<1>9. at \in Label \ {"claim", "act"}
  BY DEF Label
<1>7. call.step = "prepare" /\ Prepared
  BY <1>1 DEF Making, EffectsInv, CreationsInv, Creating
<1>8. \A g \in Fixture : at \in Before(g) => creates[g] = 0
  BY <1>1, <1>6, <1>7 DEF Making, Before, Fixture, EffectsInv, CreationsInv
<1> QED
  BY <1>1, <1>4, <1>5, <1>6, <1>7, <1>8, <1>9, ToolAdvances DEF Making, Called, storeVars

LEMMA PlainEffects ==
  ASSUME EffectsInv, StoreInv', Bound \/ ClaimRefused \/ Worked \/ Fails \/ Confirm \/ Finish
  PROVE  EffectsInv'
<1> USE DEF docs, target, process, memory
<1>a. StoreTypeOK /\ FrameTypes /\ DocTypes
  BY DEF EffectsInv, StoreInv, LifeTypeOK
<1>1. pc["tool"] \in Called /\ pc["tool"] # "cleaning"
  BY DEF Bound, ClaimRefused, Worked, Fails, Confirm, Finish, At, Resumed, Called,
     Posting, Making, Fixture
<1>2. call.op \in OperationId /\ call.step \in Step
  BY <1>1 DEF EffectsInv, CallNamed
<1>3. Moves("tool", "slot") \/ Moves("tool", "end") \/ Moves("tool", "confirm")
      \/ Moves("tool", "finish")
  BY <1>a, ContinueMoves DEF Bound, ClaimRefused, Worked, Fails, Confirm, Finish, Frame, Label
<1>4. UNCHANGED grants
  BY <1>a, <1>2, ClaimExpiredKeeps, ConfirmKeeps, RunFinished
     DEF Bound, ClaimRefused, Worked, Fails, Confirm, Finish, storeVars
<1>5. /\ UNCHANGED <<cleaning, worker, slots, intents, net, served, creates, deletes>>
      /\ \/ UNCHANGED <<call, context>>
         \/ call' = [call EXCEPT !.ctx.progress = Position(call.step)] /\ context' = call'.ctx
  BY DEF Bound, ClaimRefused, Worked, Fails, Confirm, Finish
<1>6. call' \in Call /\ context' \in Context /\ call'.op = call.op /\ call'.step = call.step
  <2>1. CASE UNCHANGED <<call, context>>
    BY <1>a, <2>1 DEF FrameTypes, DocTypes
  <2> DEFINE position == Position(call.step)
  <2>2. CASE call' = [call EXCEPT !.ctx.progress = position] /\ context' = call'.ctx
    <3>1. position \in 0..Len(Chain) /\ call \in Call
      BY <1>a, <1>2, PositionTyped DEF FrameTypes
    <3>2. call' = AtStep(call, position) /\ context' = call'.ctx
      BY <2>2 DEF AtStep
    <3> HIDE DEF position
    <3>3. /\ call' \in Call /\ call'.op = call.op /\ call'.step = call.step
          /\ call'.ctx \in Context
      BY <3>1, <3>2, ProgressRecorded
    <3> QED
      BY <3>2, <3>3
  <2> QED
    BY <1>5, <2>1, <2>2
<1>7. PICK at \in {"slot", "end", "confirm", "finish"} : Moves("tool", at)
  BY <1>3
<1>8. /\ at \in Label \ {"claim", "act"} /\ at \notin Creating
      /\ \A f \in Fixture : at \notin Before(f)
  BY DEF Label, Creating, Before
<1> QED
  BY <1>1, <1>4, <1>5, <1>6, <1>7, <1>8, ToolAdvances DEF Called

LEMMA ActEffects ==
  ASSUME EffectsInv, StoreInv', Act PROVE EffectsInv'
<1> USE DEF docs, target, process, memory
<1>1. pc["tool"] = "act"
  BY DEF Act, At
<1>2. \/ Moves("tool", "end") \/ Moves("tool", "work")
      \/ call.step = "prepare" /\ Moves("tool", "post-free")
  BY ContinueMoves, AwaitMoves DEF Act, Posting, Frame, Label, EffectsInv, LifeTypeOK
<1>3. PICK at \in {"end", "work", "post-free"} :
        Moves("tool", at) /\ (at = "post-free" => call.step = "prepare")
  BY <1>2
<1>7. at \in Label \ {"claim", "act"}
  BY DEF Label
<1>4. at \in Creating => call.step = "prepare" /\ Prepared
  BY <1>1, <1>3 DEF Creating, EffectsInv, CreationsInv
<1>5. \A f \in Fixture : at \in Before(f) /\ call.step = "prepare" => creates[f] = 0
  BY <1>1, <1>3 DEF Before, EffectsInv, CreationsInv
<1>6. UNCHANGED <<storeVars, context, slots, intents, net, served, creates, deletes, cleaning,
                  worker, call>>
  BY DEF Act
<1> QED
  BY <1>1, <1>3, <1>4, <1>5, <1>6, <1>7, ToolAdvances
     DEF EffectsInv, LifeTypeOK, DocTypes, FrameTypes, Called, storeVars

LEMMA EndToolEffects ==
  ASSUME EffectsInv, StoreInv', EndTool PROVE EffectsInv'
<1> USE DEF docs, target, process
<1>1. pc["tool"] = "end" /\ Starts("tool", "idle", Status)
  BY StartStopMoves DEF EndTool, At, Frame, Label, EffectsInv, LifeTypeOK
<1>2. UNCHANGED <<storeVars, context, slots, intents, net, served, creates, deletes, cleaning,
                  worker>>
  BY DEF EndTool
<1>3. call' \in Call
  BY NoContextTyped DEF EndTool
<1>4. "idle" \notin Called /\ "idle" \notin Creating /\ \A f \in Fixture : "idle" \notin Before(f)
  BY DEF Called, Creating, Before
<1> QED
  BY <1>1, <1>2, <1>3, <1>4, ToolAdvances
     DEF EffectsInv, LifeTypeOK, DocTypes, Label, storeVars

(* The call hands over to the cleanup, or fails since another one is at    *)
(* work.                                                                   *)
LEMMA CleanToolEffects ==
  ASSUME EffectsInv, StoreInv', CleanTool PROVE EffectsInv'
<1> USE DEF docs, target, process
<1>0. pc["tool"] = "act" /\ call.step = "cleanup"
  BY DEF CleanTool, At
<1>1. UNCHANGED <<storeVars, context, slots, intents, net, served, creates, deletes, worker, call>>
  BY DEF CleanTool
<1>2. CASE pc["clean"] # "idle"
  <2>1. Moves("tool", "failed") /\ UNCHANGED cleaning
    BY <1>2, CallCleanupMoves DEF CleanTool, Cleaner, Cleans, EffectsInv, LifeTypeOK
  <2>2. /\ "failed" \in Label \ {"claim", "act"}
        /\ "failed" \notin Creating /\ \A f \in Fixture : "failed" \notin Before(f)
    BY DEF Label, Creating, Before
  <2> QED
    BY <1>0, <1>1, <2>1, <2>2, ToolAdvances
       DEF EffectsInv, LifeTypeOK, DocTypes, FrameTypes, Called, storeVars
<1>3. CASE pc["clean"] = "idle"
  <2>1. Cleans("tool")
    BY <1>3, CallCleanupMoves DEF CleanTool, Cleaner, EffectsInv, LifeTypeOK
  <2>2. LifeTypeOK'
    <3>1. cleaning' \in Cleaning
      BY <2>1, NoContextTyped DEF Cleans, Cleaning, Frame
    <3> QED
      BY <1>1, <2>1, <3>1 DEF Cleans, EffectsInv, LifeTypeOK, FrameTypes, DocTypes
  <2>3. CallNamed'
    BY <1>0, <1>1 DEF EffectsInv, CallNamed, Called
  <2>4. CleanerInv'
    BY <2>1 DEF Cleans, CleanerInv, Cleaner
  <2>5. BootInv'
    <3>1. worker # "down"
      BY <1>0, NotDown DEF EffectsInv, Frame
    <3> QED
      BY <1>0, <1>1, <2>1, <3>1, BootKept DEF Cleans, EffectsInv, Frame
  <2>6. SlotsInv'
    BY <1>1, <2>1 DEF EffectsInv, SlotsInv, Cleans, Frame, storeVars
  <2>7. CreationsInv'
    <3>1. pc'["tool"] = "cleaning"
      BY <2>1 DEF Cleans
    <3>2. "cleaning" \notin Creating \cup {"act"} /\ \A f \in Fixture : "cleaning" \notin Before(f)
      BY DEF Creating, Before
    <3> QED
      BY <1>1, <3>1, <3>2, CreationsKept DEF EffectsInv, storeVars
  <2>8. DeletionsInv'
    <3>1. pc'["clean"] = "start"
      BY <2>1 DEF Cleans
    <3>2. \A f \in Fixture : DeletionInv(f)'
      BY <1>1, <3>1 DEF EffectsInv, DeletionsInv, DeletionInv
    <3> QED
      BY <3>1, <3>2 DEF DeletionsInv
  <2> QED
    BY <2>2, <2>3, <2>4, <2>5, <2>6, <2>7, <2>8 DEF EffectsInv
<1> QED
  BY <1>2, <1>3

LEMMA ToolKeepsEffects ==
  ASSUME EffectsInv, StoreInv', Tool PROVE EffectsInv'
  BY TakeSlotEffects, ClaimEffects, PostEffects, MadeEffects, PlainEffects, ActEffects,
     EndToolEffects, CleanToolEffects DEF Tool

-----------------------------------------------------------------------------
(* The steps of the cleanup *)

LEMMA CleanEffects ==
  ASSUME EffectsInv, StoreInv', pc["clean"] # "idle",
         NEW at \in Label, Moves("clean", at),
         UNCHANGED <<grants, slots, creates, served, call, worker>>,
         cleaning' \in Cleaning, cleaning'.by = cleaning.by, context' \in Context,
         intents' \in [Fixture -> {"none", "prepared", "dispatched", "confirmed"}],
         deletes' \in [Fixture -> Nat],
         \A f \in Fixture : Create(f) \in net' => Create(f) \in net,
         DeletionsInv'
  PROVE  EffectsInv'
<1> USE DEF EffectsInv
<1>1. /\ pc' \in [Frame -> Label] /\ pc'["tool"] = pc["tool"]
      /\ pc'["boot"] = pc["boot"] /\ pc'["watch"] = pc["watch"]
      /\ pc'["retry"] = pc["retry"] /\ pc'["stop"] = pc["stop"]
  BY DEF Moves, Frame
<1>2. LifeTypeOK'
  BY <1>1 DEF LifeTypeOK, FrameTypes, DocTypes
<1>3. CallNamed' /\ SlotsInv'
  BY <1>1 DEF CallNamed, SlotsInv
<1>4. CleanerInv'
  BY <1>1 DEF CleanerInv, Cleaner
<1>5. BootInv'
  <2>1. worker # "down"
    BY NotDown DEF Frame
  <2> QED
    BY <1>1, <2>1, BootKept
<1>6. CreationsInv'
  <2>1. Prepared' = Prepared
    BY DEF Prepared
  <2> QED
    BY <1>1, <2>1 DEF CreationsInv
<1> QED
  BY <1>2, <1>3, <1>4, <1>5, <1>6

LEMMA CleanupReturns ==
  ASSUME EffectsInv, StoreInv', pc["clean"] # "idle",
         NEW to \in {"cleaned", "failed"}, Returns(to),
         UNCHANGED <<grants, slots, creates, served, call, worker, net, intents, deletes>>,
         context' \in Context
  PROVE  EffectsInv'
<1> USE DEF EffectsInv
<1>1. /\ pc' \in [Frame -> Label] /\ pc'["clean"] = "idle"
      /\ \/ pc'["tool"] = pc["tool"]
         \/ pc["tool"] = "cleaning" /\ pc'["tool"] = to
      /\ pc'["watch"] = pc["watch"] \/ pc["watch"] # "idle"
      /\ pc'["retry"] = pc["retry"] \/ pc["retry"] # "idle"
      /\ pc'["boot"] = pc["boot"]
  <2>1. cleaning.by \in Cleaner /\ pc[cleaning.by] = "cleaning"
    BY DEF CleanerInv
  <2> QED
    BY <2>1 DEF Returns, Frame, Cleaner
<1>2. LifeTypeOK'
  BY <1>1, NoContextTyped DEF Returns, LifeTypeOK, FrameTypes, DocTypes
<1>3. CallNamed' /\ SlotsInv'
  BY <1>1 DEF CallNamed, SlotsInv, Called
<1>4. CleanerInv'
  BY <1>1 DEF CleanerInv
<1>5. BootInv'
  <2>1. worker # "down"
    BY NotDown DEF Frame
  <2> QED
    BY <1>1, <2>1, BootKept
<1>6. CreationsInv'
  <2>1. to \notin Creating \cup {"act"} /\ \A f \in Fixture : to \notin Before(f)
    BY DEF Creating, Before
  <2>2. Prepared' = Prepared
    BY DEF Prepared
  <2> QED
    BY <1>1, <2>1, <2>2 DEF CreationsInv
<1>7. DeletionsInv'
  <2>1. \A f \in Fixture : DeletionInv(f)'
    BY <1>1 DEF DeletionsInv, DeletionInv
  <2> QED
    BY <1>1, <2>1 DEF DeletionsInv
<1> QED
  BY <1>2, <1>3, <1>4, <1>5, <1>6, <1>7

(* Away from the dispatch of a deletion. *)
LEMMA DeletionsAside ==
  ASSUME DeletionsInv, UNCHANGED <<intents, deletes, served, net>>,
         pc'["clean"] \notin {"delete", "send", "sent"},
         pc'["clean"] = "record" => cleaning'.fixture \in Fixture
  PROVE  DeletionsInv'
<1>1. \A f \in Fixture : DeletionInv(f)'
  BY DEF DeletionsInv, DeletionInv
<1> QED
  BY <1>1 DEF DeletionsInv

LEMMA StartCleanupEffects ==
  ASSUME EffectsInv, StoreInv', StartCleanup PROVE EffectsInv'
<1>1. Moves("clean", "ready") /\ pc["clean"] = "start"
  BY AwaitMoves DEF StartCleanup, At, Frame, Label, EffectsInv, LifeTypeOK
<1>2. UNCHANGED <<storeVars, context, slots, intents, net, served, creates, deletes, worker, call,
                  cleaning>>
  BY DEF StartCleanup, target, process, memory
<1>3. DeletionsInv'
  BY <1>1, <1>2, DeletionsAside DEF EffectsInv, Moves
<1> QED
  BY <1>1, <1>2, <1>3, CleanEffects DEF EffectsInv, LifeTypeOK, FrameTypes, DocTypes, Label, storeVars

LEMMA CleanupReadyEffects ==
  ASSUME EffectsInv, StoreInv', CleanupReady PROVE EffectsInv'
<1>1. pc["clean"] = "ready"
  BY DEF CleanupReady, Resumed
<1>2. UNCHANGED <<storeVars, context, slots, intents, net, served, creates, deletes, worker, call>>
  BY DEF CleanupReady, docs, target, process
<1>3. CASE Return("failed")
  <2>1. Returns("failed")
    BY <1>1, <1>3, ReturnMoves DEF EffectsInv, LifeTypeOK, Label
  <2> QED
    BY <1>1, <1>2, <2>1, CleanupReturns DEF EffectsInv, LifeTypeOK, DocTypes, storeVars
<1>4. CASE cleaning' = [cleaning EXCEPT !.ctx = context] /\ Continue("clean", "next")
  <2>1. Moves("clean", "next")
    BY <1>4, ContinueMoves DEF Frame, Label, EffectsInv, LifeTypeOK
  <2>2. cleaning' \in Cleaning /\ cleaning'.by = cleaning.by
    BY <1>4, ContextTaken DEF EffectsInv, LifeTypeOK, FrameTypes, DocTypes
  <2>3. DeletionsInv'
    BY <1>2, <2>1, DeletionsAside DEF EffectsInv, Moves
  <2> QED
    BY <1>1, <1>2, <2>1, <2>2, <2>3, CleanEffects
       DEF EffectsInv, LifeTypeOK, DocTypes, Label, storeVars
<1> QED
  BY <1>3, <1>4 DEF CleanupReady

(* What the choice of the next fixture does, in one place for all proofs.  *)
LEMMA NextFixtureMoves ==
  ASSUME FrameTypes, DocTypes, NextFixture
  PROVE  \E f \in Fixture :
           /\ f = Ordered(Undone(cleaning.fixture)) /\ Undone(cleaning.fixture) # {}
           /\ cleaning' \in Cleaning /\ cleaning'.by = cleaning.by /\ cleaning'.fixture = f
           /\ cleaning'.ctx.known = cleaning.ctx.known
           /\ cleaning'.ctx.progress = cleaning.ctx.progress
           /\ \A g \in Fixture : g # f => cleaning'.ctx.cleanup[g] = cleaning.ctx.cleanup[g]
           /\ \/ /\ Moves("clean", "record")
                 /\ intents' = intents
                 /\ intents[f] \in {"dispatched", "confirmed"}
                 /\ cleaning'.ctx.cleanup[f] =
                      IF intents[f] = "confirmed" THEN "deleted" ELSE "leftover"
              \/ /\ Moves("clean", "delete")
                 /\ intents[f] \in {"none", "prepared"}
                 /\ intents' = [intents EXCEPT ![f] = "prepared"]
                 /\ cleaning'.ctx = cleaning.ctx
<1> DEFINE f == Ordered(Undone(cleaning.fixture))
           taken == [cleaning EXCEPT !.fixture = f]
           status == IF intents[f] = "confirmed" THEN "deleted" ELSE "leftover"
<1>1. f \in Fixture /\ Undone(cleaning.fixture) # {}
  BY DEF NextFixture, Ordered, Fixture
<1>2. status \in {"none", "deleted", "leftover"}
  OBVIOUS
<1>3. \/ /\ intents[f] \in {"dispatched", "confirmed"}
         /\ cleaning' = Leftover(taken, f, status)
         /\ Continue("clean", "record") /\ intents' = intents
      \/ /\ intents[f] \notin {"dispatched", "confirmed"}
         /\ cleaning' = taken
         /\ intents' = [intents EXCEPT ![f] = "prepared"]
         /\ Await("clean", "delete")
  BY DEF NextFixture
<1> HIDE DEF f
<1>4. taken \in Cleaning /\ taken.by = cleaning.by /\ taken.fixture = f
      /\ taken.ctx = cleaning.ctx
  BY <1>1, FixtureTaken DEF FrameTypes
<1> HIDE DEF taken
<1>5. CASE /\ intents[f] \in {"dispatched", "confirmed"}
           /\ cleaning' = Leftover(taken, f, status)
           /\ Continue("clean", "record") /\ intents' = intents
  <2>1. Moves("clean", "record")
    BY <1>5, ContinueMoves DEF Frame, Label
  <2>3. Marked(taken, f, status)
    <3>1. PICK c \in Cleaning, g \in Fixture, v \in {"none", "deleted", "leftover"} :
            c = taken /\ g = f /\ v = status
      BY <1>1, <1>2, <1>4
    <3> HIDE DEF status
    <3>2. Marked(c, g, v)
      BY <1>5, <3>1, LeftoverMarks
    <3> QED
      BY <3>1, <3>2
  <2>2. /\ cleaning' \in Cleaning /\ cleaning'.by = taken.by /\ cleaning'.fixture = taken.fixture
        /\ cleaning'.ctx.known = taken.ctx.known
        /\ cleaning'.ctx.progress = taken.ctx.progress
        /\ cleaning'.ctx.cleanup[f] = status
        /\ \A g \in Fixture : g # f => cleaning'.ctx.cleanup[g] = taken.ctx.cleanup[g]
    BY <2>3 DEF Marked
  <2> QED
    BY <1>1, <1>4, <1>5, <2>1, <2>2 DEF f
<1>6. CASE /\ intents[f] \notin {"dispatched", "confirmed"}
           /\ cleaning' = taken
           /\ intents' = [intents EXCEPT ![f] = "prepared"]
           /\ Await("clean", "delete")
  <2>1. Moves("clean", "delete")
    BY <1>6, AwaitMoves DEF Frame, Label
  <2>2. intents[f] \in {"none", "prepared"}
    BY <1>1, <1>6 DEF DocTypes
  <2> QED
    BY <1>1, <1>4, <1>6, <2>1, <2>2 DEF f
<1> QED
  BY <1>3, <1>5, <1>6

LEMMA NextFixtureEffects ==
  ASSUME EffectsInv, StoreInv', NextFixture PROVE EffectsInv'
<1>0. pc["clean"] = "next" /\ FrameTypes /\ DocTypes
  BY DEF NextFixture, At, EffectsInv, LifeTypeOK
<1>1. UNCHANGED <<storeVars, context, slots, net, served, creates, deletes, worker, call>>
  BY DEF NextFixture, target, process
<1>2. PICK f \in Fixture :
        /\ cleaning' \in Cleaning /\ cleaning'.by = cleaning.by /\ cleaning'.fixture = f
        /\ \/ Moves("clean", "record") /\ intents' = intents
           \/ /\ Moves("clean", "delete")
              /\ intents[f] \in {"none", "prepared"}
              /\ intents' = [intents EXCEPT ![f] = "prepared"]
  BY <1>0, NextFixtureMoves
<1>3. CASE Moves("clean", "record") /\ intents' = intents
  <2>1. DeletionsInv'
    BY <1>1, <1>2, <1>3, DeletionsAside DEF EffectsInv, Moves
  <2> QED
    BY <1>0, <1>1, <1>2, <1>3, <2>1, CleanEffects DEF DocTypes, Label, storeVars
<1>4. CASE /\ Moves("clean", "delete")
           /\ intents[f] \in {"none", "prepared"}
           /\ intents' = [intents EXCEPT ![f] = "prepared"]
  <2>1. /\ intents' \in [Fixture -> {"none", "prepared", "dispatched", "confirmed"}]
        /\ intents'[f] = "prepared"
        /\ \A g \in Fixture : g # f => intents'[g] = intents[g]
    BY <1>0, <1>4 DEF DocTypes
  <2>2. pc'["clean"] = "delete"
    BY <1>4 DEF Moves
  <2>3. ASSUME NEW g \in Fixture PROVE DeletionInv(g)'
    <3>1. DeletionInv(g) /\ UNCHANGED <<deletes, net, served>>
      BY <1>1 DEF EffectsInv, DeletionsInv
    <3>2. CASE g = f
      BY <1>2, <1>4, <2>1, <2>2, <3>1, <3>2 DEF DeletionInv
    <3>3. CASE g # f
      BY <1>2, <2>1, <2>2, <3>1, <3>3 DEF DeletionInv
    <3> QED
      BY <3>2, <3>3
  <2>4. DeletionsInv'
    BY <1>2, <2>3 DEF DeletionsInv
  <2> QED
    BY <1>0, <1>1, <1>2, <1>4, <2>1, <2>4, CleanEffects DEF DocTypes, Label, storeVars
<1> QED
  BY <1>2, <1>3, <1>4

(* The deletion at hand is not started: it is marked as left over. *)
LEMMA LeftoverEffects ==
  ASSUME EffectsInv, StoreInv', pc["clean"] \in {"delete", "sent"},
         Continue("clean", "record"),
         cleaning' = Leftover(cleaning, cleaning.fixture, "leftover"),
         UNCHANGED <<storeVars, context, slots, intents, net, served, creates, deletes, worker,
                     call>>
  PROVE  EffectsInv'
<1>1. cleaning.fixture \in Fixture /\ FrameTypes /\ DocTypes
  BY DEF EffectsInv, DeletionsInv, LifeTypeOK
<1>2. Moves("clean", "record")
  BY <1>1, ContinueMoves DEF Frame, Label
<1>3. cleaning' \in Cleaning /\ cleaning'.by = cleaning.by /\ cleaning'.fixture = cleaning.fixture
  BY <1>1, LeftoverMarks DEF Marked, FrameTypes
<1>4. DeletionsInv'
  BY <1>1, <1>2, <1>3, DeletionsAside DEF EffectsInv, Moves
<1> QED
  BY <1>1, <1>2, <1>3, <1>4, CleanEffects DEF DocTypes, Label, storeVars

LEMMA DispatchDeleteEffects ==
  ASSUME EffectsInv, StoreInv', DispatchDelete PROVE EffectsInv'
<1>0. pc["clean"] = "delete" /\ FrameTypes /\ DocTypes /\ cleaning.fixture \in Fixture
  BY DEF DispatchDelete, Resumed, EffectsInv, LifeTypeOK, DeletionsInv
<1>1. UNCHANGED <<storeVars, context, slots, net, served, creates, deletes, worker, call>>
  BY DEF DispatchDelete, target, process
<1>2. CASE now - cleanupAt < CleanupMs /\ intents[cleaning.fixture] = "prepared"
  <2> DEFINE f == cleaning.fixture
  <2>1. /\ intents' = [intents EXCEPT ![f] = "dispatched"]
        /\ UNCHANGED cleaning
        /\ Moves("clean", "send")
    BY <1>0, <1>2, ContinueMoves DEF DispatchDelete, Frame, Label
  <2>2. /\ intents' \in [Fixture -> {"none", "prepared", "dispatched", "confirmed"}]
        /\ intents'[f] = "dispatched"
        /\ \A g \in Fixture : g # f => intents'[g] = intents[g]
    BY <1>0, <2>1 DEF DocTypes
  <2>3. pc'["clean"] = "send"
    BY <2>1 DEF Moves
  <2>4. ASSUME NEW g \in Fixture PROVE DeletionInv(g)'
    <3>1. DeletionInv(g) /\ UNCHANGED <<deletes, net, served, cleaning>>
      BY <1>1, <2>1 DEF EffectsInv, DeletionsInv
    <3>2. CASE g = f
      BY <1>2, <2>2, <2>3, <3>1, <3>2 DEF DeletionInv
    <3>3. CASE g # f
      BY <2>2, <2>3, <3>1, <3>3 DEF DeletionInv
    <3> QED
      BY <3>2, <3>3
  <2>5. DeletionsInv'
    BY <1>0, <2>1, <2>4 DEF DeletionsInv
  <2> QED
    BY <1>0, <1>1, <2>1, <2>2, <2>5, CleanEffects DEF DocTypes, FrameTypes, Label, storeVars
<1>3. CASE ~ (now - cleanupAt < CleanupMs /\ intents[cleaning.fixture] = "prepared")
  BY <1>0, <1>1, <1>3, LeftoverEffects DEF DispatchDelete
<1> QED
  BY <1>2, <1>3

LEMMA SendDeleteEffects ==
  ASSUME EffectsInv, StoreInv', SendDelete PROVE EffectsInv'
<1> DEFINE f == cleaning.fixture
<1>0. pc["clean"] = "send" /\ FrameTypes /\ DocTypes /\ f \in Fixture
  BY DEF SendDelete, At, EffectsInv, LifeTypeOK, DeletionsInv
<1>1. UNCHANGED <<storeVars, context, slots, intents, served, creates, worker, call, cleaning>>
  BY DEF SendDelete, docs, process, memory
<1>2. /\ net' = net \cup {Delete(f)}
      /\ deletes' = [deletes EXCEPT ![f] = @ + 1]
      /\ Moves("clean", "sent")
  BY <1>0, AwaitMoves DEF SendDelete, Frame, Label
<1>3. deletes[f] = 0 /\ intents[f] = "dispatched"
  BY <1>0 DEF EffectsInv, DeletionsInv, DeletionInv
<1>4. /\ deletes' \in [Fixture -> Nat] /\ deletes'[f] = 1
      /\ \A g \in Fixture : g # f => deletes'[g] = deletes[g]
  BY <1>0, <1>2, <1>3 DEF DocTypes
<1>5. \A g \in Fixture : /\ Create(g) \in net' => Create(g) \in net
                         /\ g # f /\ Delete(g) \in net' => Delete(g) \in net
  BY <1>2 DEF Create, Delete
<1>6. pc'["clean"] = "sent"
  BY <1>2 DEF Moves
<1>7. ASSUME NEW g \in Fixture PROVE DeletionInv(g)'
  <2>1. DeletionInv(g) /\ UNCHANGED <<intents, served, cleaning>>
    BY <1>1 DEF EffectsInv, DeletionsInv
  <2>2. CASE g = f
    BY <1>3, <1>4, <1>6, <2>1, <2>2 DEF DeletionInv
  <2>3. CASE g # f
    BY <1>4, <1>5, <1>6, <2>1, <2>3 DEF DeletionInv
  <2> QED
    BY <2>2, <2>3
<1>8. DeletionsInv'
  BY <1>0, <1>1, <1>7 DEF DeletionsInv
<1> QED
  BY <1>0, <1>1, <1>2, <1>4, <1>5, <1>8, CleanEffects DEF DocTypes, FrameTypes, Label, storeVars

LEMMA DeletedEffects ==
  ASSUME EffectsInv, StoreInv', Deleted PROVE EffectsInv'
<1> DEFINE f == cleaning.fixture
<1>0. pc["clean"] = "sent" /\ FrameTypes /\ DocTypes /\ f \in Fixture
  BY DEF Deleted, Resumed, EffectsInv, LifeTypeOK, DeletionsInv
<1>1. UNCHANGED <<storeVars, context, slots, net, served, creates, deletes, worker, call>>
  BY DEF Deleted, target, process
<1>2. /\ Delete(f) \in served
      /\ intents' = [intents EXCEPT ![f] = "confirmed"]
      /\ cleaning' = Leftover(cleaning, f, "deleted")
      /\ Moves("clean", "record")
  BY <1>0, ContinueMoves DEF Deleted, Frame, Label
<1>3. cleaning' \in Cleaning /\ cleaning'.by = cleaning.by /\ cleaning'.fixture = f
  BY <1>0, <1>2, LeftoverMarks DEF Marked, FrameTypes
<1>4. /\ intents' \in [Fixture -> {"none", "prepared", "dispatched", "confirmed"}]
      /\ intents'[f] = "confirmed"
      /\ \A g \in Fixture : g # f => intents'[g] = intents[g]
  BY <1>0, <1>2 DEF DocTypes
<1>5. pc'["clean"] = "record"
  BY <1>2 DEF Moves
<1>6. ASSUME NEW g \in Fixture PROVE DeletionInv(g)'
  <2>1. DeletionInv(g) /\ UNCHANGED <<deletes, net, served>>
    BY <1>1 DEF EffectsInv, DeletionsInv
  <2>2. CASE g = f
    BY <1>2, <1>4, <1>5, <2>1, <2>2 DEF DeletionInv
  <2>3. CASE g # f
    BY <1>4, <1>5, <2>1, <2>3 DEF DeletionInv
  <2> QED
    BY <2>2, <2>3
<1>7. DeletionsInv'
  BY <1>0, <1>3, <1>6 DEF DeletionsInv
<1> QED
  BY <1>0, <1>1, <1>2, <1>3, <1>4, <1>7, CleanEffects DEF DocTypes, Label, storeVars

LEMMA RecordCleanupEffects ==
  ASSUME EffectsInv, StoreInv', RecordCleanup \/ EndCleanup PROVE EffectsInv'
<1>0. FrameTypes /\ DocTypes /\ pc["clean"] \in {"record", "next"} /\ cleaning \in Cleaning
  BY DEF RecordCleanup, EndCleanup, At, EffectsInv, LifeTypeOK, FrameTypes
<1>1. UNCHANGED <<storeVars, slots, intents, net, served, creates, deletes, worker, call>>
  BY DEF RecordCleanup, EndCleanup, target, process, memory
<1>2. context' \in Context
  BY <1>0 DEF RecordCleanup, EndCleanup, Cleaning
<1>3. CASE RecordCleanup
  <2>1. Moves("clean", "next") /\ UNCHANGED cleaning
    BY <1>0, <1>3, ContinueMoves DEF RecordCleanup, Frame, Label, memory
  <2>2. DeletionsInv'
    BY <1>1, <2>1, DeletionsAside DEF EffectsInv, Moves
  <2> QED
    BY <1>0, <1>1, <1>2, <2>1, <2>2, CleanEffects DEF DocTypes, Label, storeVars
<1>4. CASE EndCleanup
  <2>1. Returns("cleaned")
    BY <1>0, <1>4, ReturnMoves DEF EndCleanup, EffectsInv, Label
  <2> QED
    BY <1>0, <1>1, <1>2, <2>1, CleanupReturns DEF storeVars
<1> QED
  BY <1>3, <1>4

LEMMA CleanupKeepsEffects ==
  ASSUME EffectsInv, StoreInv', Cleanup PROVE EffectsInv'
<1>1. CASE DeleteFails
  BY <1>1, LeftoverEffects DEF DeleteFails, Resumed, docs, target, process
<1> QED
  BY <1>1, StartCleanupEffects, CleanupReadyEffects, NextFixtureEffects, DispatchDeleteEffects,
     SendDeleteEffects, DeletedEffects, RecordCleanupEffects DEF Cleanup

LEMMA CrashEffects ==
  ASSUME EffectsInv, StoreInv', Crash PROVE EffectsInv'
<1> USE DEF docs, target
<1>1. pc' = [f \in Frame |-> "idle"]
  BY DEF Crash
<1>2. \A f \in Frame : pc'[f] = "idle"
  BY <1>1
<1>3. UNCHANGED <<storeVars, context, slots, intents, net, served, creates, deletes>>
  BY DEF Crash
<1>4. LifeTypeOK'
  <2>1. pc' \in [Frame -> Label]
    BY <1>1 DEF Label
  <2> QED
    BY <1>3, <2>1, NoContextTyped DEF Crash, EffectsInv, LifeTypeOK, FrameTypes, DocTypes
<1>5. /\ pc'["tool"] = "idle" /\ pc'["clean"] = "idle" /\ pc'["boot"] = "idle"
      /\ pc'["retry"] = "idle"
  BY <1>2 DEF Frame
<1>6. CallNamed' /\ CleanerInv' /\ SlotsInv'
  BY <1>3, <1>5 DEF EffectsInv, CallNamed, Called, CleanerInv, SlotsInv, storeVars
<1>7. BootInv'
  BY <1>2, <1>5 DEF Crash, BootInv
<1>8. CreationsInv'
  <2>1. "idle" \notin Creating \cup {"act"} /\ \A f \in Fixture : "idle" \notin Before(f)
    BY DEF Creating, Before
  <2> QED
    BY <1>3, <1>5, <2>1, CreationsKept DEF EffectsInv, storeVars
<1>9. DeletionsInv'
  BY <1>3, <1>5, DeletionsAside DEF EffectsInv
<1> QED
  BY <1>4, <1>6, <1>7, <1>8, <1>9 DEF EffectsInv

LEMMA ServeEffects ==
  ASSUME EffectsInv, StoreInv', TargetServes PROVE EffectsInv'
<1>1. UNCHANGED <<storeVars, context, slots, intents, creates, deletes, pc, call, cleaning, worker>>
  BY DEF TargetServes, docs, process, thread, memory
<1>2. net' \cup served' = net \cup served /\ served \subseteq served' /\ net' \subseteq net
  BY DEF TargetServes
<1>3. LifeTypeOK' /\ CallNamed' /\ CleanerInv' /\ BootInv' /\ SlotsInv'
  BY <1>1 DEF EffectsInv, LifeTypeOK, FrameTypes, DocTypes, CallNamed, CleanerInv, BootInv,
     SlotsInv, storeVars
<1>4. CreationsInv'
  BY <1>1, <1>2 DEF EffectsInv, CreationsInv, Prepared, storeVars
<1>5. DeletionsInv'
  <2>1. \A f \in Fixture : DeletionInv(f)'
    BY <1>1, <1>2 DEF EffectsInv, DeletionsInv, DeletionInv
  <2> QED
    BY <1>1, <2>1 DEF EffectsInv, DeletionsInv
<1> QED
  BY <1>3, <1>4, <1>5 DEF EffectsInv

LEMMA EffectsInit == LifeInit => EffectsInv
<1> SUFFICES ASSUME LifeInit PROVE EffectsInv
  OBVIOUS
<1>1. StoreInv
  <2>1. run \in RunId /\ RunId = {run}
    BY LifecycleAssumption
  <2> DEFINE new == [NoRun EXCEPT !.status = "running", !.active = TRUE,
                       !.decision = "allow", !.startedAt = 0]
  <2>2. /\ new \in Run /\ new.status = "running" /\ new.active
        /\ new.decision = "allow" /\ new.startedAt = 0
    BY DEF NoRun, Run, RunStatus, Live, Time, None, Outcome
  <2>3. runs = [r \in RunId |-> new]
    BY DEF LifeInit
  <2> HIDE DEF new
  <2>4. StoreTypeOK
    <3>1. now \in Nat /\ runs \in [RunId -> Run] /\ grants \subseteq Grant
      BY <2>2, <2>3 DEF LifeInit
    <3>2. ops \in [OperationId -> Operation]
      BY DEF LifeInit, NoOperation, Operation
    <3>3. credits \in [RunId \X WaitId -> Credit]
      BY DEF LifeInit, NoCredit, Credit, Time, None
    <3> QED
      BY <3>1, <3>2, <3>3 DEF StoreTypeOK
  <2>5. ActiveColumn /\ DecisionOfStatus /\ ElapsedNeverNegative
    <3>1. /\ \A r \in RunId : runs[r].active /\ runs[r].status = "running"
          /\ \A r \in RunId : runs[r].startedAt = 0
          /\ now = 0
      BY <2>2, <2>3 DEF LifeInit
    <3>2. ActiveColumn
      BY <3>1 DEF ActiveColumn, Live
    <3> QED
      BY <3>1, <3>2 DEF DecisionOfStatus, ElapsedNeverNegative
  <2>6. OneActiveRunPerProject /\ GrantsAccounted /\ AtMostOneGrant
    BY <2>1 DEF LifeInit, OneActiveRunPerProject, GrantsAccounted, AtMostOneGrant
  <2> QED
    BY <2>4, <2>5, <2>6 DEF StoreInv
<1>2. FrameTypes
  BY NoContextTyped DEF LifeInit, FrameTypes, Label, Frame
<1>3. DocTypes
  BY NoContextTyped DEF LifeInit, DocTypes, Fixture
<1>4. /\ pc["tool"] = "idle" /\ pc["clean"] = "idle" /\ pc["boot"] = "idle"
      /\ worker = "up" /\ grants = {}
  BY DEF LifeInit, Frame
<1>5. CallNamed /\ CleanerInv /\ BootInv /\ SlotsInv
  BY <1>4 DEF CallNamed, Called, CleanerInv, BootInv, SlotsInv
<1>6. CreationsInv
  BY <1>4 DEF LifeInit, CreationsInv, Creating, Before
<1>7. DeletionsInv
  BY <1>4 DEF LifeInit, DeletionsInv, DeletionInv
<1> QED
  BY <1>1, <1>2, <1>3, <1>5, <1>6, <1>7 DEF EffectsInv, LifeTypeOK

LEMMA EffectsStep ==
  ASSUME EffectsInv, [LifeNext]_lifeVars PROVE EffectsInv'
<1>1. StoreInv'
  BY LifeStoreStep, StoreInvStep DEF EffectsInv, LifeTypeOK
<1>2. CASE Calls
  BY <1>1, <1>2, CallEffects, ElsewhereEffects DEF Calls, Elsewhere
<1>3. CASE Tool \/ Cleanup
  BY <1>1, <1>3, ToolKeepsEffects, CleanupKeepsEffects
<1>4. CASE Crash \/ TargetServes
  BY <1>1, <1>4, CrashEffects, ServeEffects
<1>5. CASE \/ Retry \/ WatchEvent \/ Watch \/ Cancel \/ WatchdogFires \/ Stop \/ Recover
           \/ TimePasses \/ UNCHANGED lifeVars
  BY <1>1, <1>5, ElsewhereEffects DEF Elsewhere
<1> QED
  BY <1>2, <1>3, <1>4, <1>5 DEF LifeNext

(* The effects the worker has at the target are those it has on record,    *)
(* over crashes, refusals, expired leases and late answers.                *)
THEOREM EffectsRecorded == LifeSpec => []EffectsInv
  BY EffectsInit, EffectsStep, PTL DEF LifeSpec

(* A step of the agent is dispatched at most once, whatever operation ids  *)
(* it is called with: its slot names the one operation that was granted    *)
(* for it, from before the claim; and the target is asked for each fixture *)
(* at most once.                                                           *)
THEOREM StepsDispatchedOnce == LifeSpec => []StepDispatchedOnce
<1>1. EffectsInv => StepDispatchedOnce
  <2> SUFFICES ASSUME EffectsInv PROVE StepDispatchedOnce
    OBVIOUS
  <2>1. \A g, h \in grants : g.request = h.request => g = h
    BY DEF EffectsInv, SlotsInv, StoreInv, AtMostOneGrant
  <2>2. \A f \in Fixture : creates[f] <= 1
    BY DEF EffectsInv, CreationsInv
  <2> QED
    BY <2>1, <2>2 DEF StepDispatchedOnce
<1> QED
  BY <1>1, EffectsRecorded, PTL

-----------------------------------------------------------------------------
(* The deletion of a fixture implements EffectOnce *)

Gone(f) == Delete(f) \in served

(* What a step does to the deletion of a fixture. *)
DeletionStep(f) ==
  \/ UNCHANGED <<intents[f], deletes[f]>> /\ Gone(f)' = Gone(f)
  \/ /\ intents[f] = "none" /\ intents'[f] = "prepared"
     /\ UNCHANGED deletes[f] /\ Gone(f)' = Gone(f)
  \/ /\ intents[f] = "prepared" /\ intents'[f] = "dispatched"
     /\ UNCHANGED deletes[f] /\ Gone(f)' = Gone(f)
  \/ /\ intents[f] = "dispatched" /\ deletes[f] = 0 /\ deletes'[f] = 1
     /\ UNCHANGED intents[f] /\ Gone(f)' = Gone(f)
  \/ /\ deletes[f] = 1 /\ Gone(f)'
     /\ UNCHANGED <<intents[f], deletes[f]>>
  \/ /\ intents[f] = "dispatched" /\ Gone(f) /\ intents'[f] = "confirmed"
     /\ UNCHANGED deletes[f] /\ Gone(f)' = Gone(f)

LEMMA DeletionSteps ==
  ASSUME EffectsInv, [LifeNext]_lifeVars, NEW f \in Fixture PROVE DeletionStep(f)
<1>0. FrameTypes /\ DocTypes
  BY DEF EffectsInv, LifeTypeOK
<1>1. CASE UNCHANGED <<intents, deletes, served>>
  BY <1>1 DEF DeletionStep, Gone
<1>2. CASE Calls \/ Tool
  BY <1>1, <1>2, ElsewhereDocs DEF Calls, CallTool, Elsewhere, Tool, Bound, TakeSlot, ClaimStep,
     ClaimRefused, Act, Post, Made, Worked, Fails, CleanTool, Confirm, Finish, EndTool, docs, target
<1>3. CASE NextFixture
  <2>1. UNCHANGED <<deletes, served>>
    BY <1>3 DEF NextFixture, target
  <2>2. PICK g \in Fixture :
          \/ intents' = intents
          \/ intents[g] \in {"none", "prepared"} /\ intents' = [intents EXCEPT ![g] = "prepared"]
    BY <1>0, <1>3, NextFixtureMoves
  <2> QED
    BY <1>0, <2>1, <2>2 DEF DeletionStep, Gone, DocTypes
<1>4. CASE DispatchDelete
  <2>1. UNCHANGED <<deletes, served>>
    BY <1>4 DEF DispatchDelete, target
  <2>2. \/ intents' = intents
        \/ /\ intents[cleaning.fixture] = "prepared"
           /\ intents' = [intents EXCEPT ![cleaning.fixture] = "dispatched"]
    BY <1>4 DEF DispatchDelete
  <2> QED
    BY <1>0, <2>1, <2>2 DEF DeletionStep, Gone, DocTypes
<1>5. CASE SendDelete
  <2> DEFINE g == cleaning.fixture
  <2>1. UNCHANGED <<intents, served>> /\ deletes' = [deletes EXCEPT ![g] = @ + 1]
    BY <1>5 DEF SendDelete, docs
  <2>2. g \in Fixture /\ deletes[g] = 0 /\ intents[g] = "dispatched"
    BY <1>5 DEF SendDelete, At, EffectsInv, DeletionsInv, DeletionInv
  <2> QED
    BY <1>0, <2>1, <2>2 DEF DeletionStep, Gone, DocTypes
<1>6. CASE Deleted
  <2> DEFINE g == cleaning.fixture
  <2>1. UNCHANGED <<deletes, served>> /\ intents' = [intents EXCEPT ![g] = "confirmed"]
        /\ Delete(g) \in served
    BY <1>6 DEF Deleted, target
  <2>2. g \in Fixture /\ intents[g] = "dispatched"
    BY <1>6 DEF Deleted, Resumed, EffectsInv, DeletionsInv, DeletionInv
  <2> QED
    BY <1>0, <2>1, <2>2 DEF DeletionStep, Gone, DocTypes
<1>7. CASE Cleanup
  BY <1>1, <1>3, <1>4, <1>5, <1>6, <1>7 DEF Cleanup, StartCleanup, CleanupReady, DeleteFails,
     RecordCleanup, EndCleanup, docs, target
<1>8. CASE Crash
  BY <1>1, <1>8 DEF Crash, docs, target
<1>9. CASE TargetServes
  <2>1. UNCHANGED <<intents, deletes>>
    BY <1>9 DEF TargetServes, docs
  <2>2. PICK m \in net : served' = served \cup {m}
    BY <1>9 DEF TargetServes
  <2>3. CASE m = Delete(f)
    <3>1. deletes[f] = 1
      BY <2>2, <2>3 DEF EffectsInv, DeletionsInv, DeletionInv
    <3> QED
      BY <2>1, <2>2, <2>3, <3>1 DEF DeletionStep, Gone
  <2>4. CASE m # Delete(f)
    <3>1. Gone(f)' = Gone(f)
      BY <2>2, <2>4 DEF Gone, Delete
    <3> QED
      BY <2>1, <3>1 DEF DeletionStep
  <2> QED
    BY <2>3, <2>4
<1>10. CASE \/ Retry \/ WatchEvent \/ Watch \/ Cancel \/ WatchdogFires \/ Stop \/ Recover
            \/ TimePasses \/ UNCHANGED lifeVars
  <2>1. UNCHANGED <<intents, deletes, served>>
    BY <1>10, ElsewhereDocs DEF Elsewhere
  <2> QED
    BY <1>1, <2>1
<1> QED
  BY <1>2, <1>7, <1>8, <1>9, <1>10 DEF LifeNext

(* The deletion of a fixture implements EffectOnce, whoever cleans up: a   *)
(* stored intent before the request, at most one request, and a            *)
(* confirmation only of a fixture that is gone.                            *)
THEOREM DeletionImplementsEffect == LifeSpec => DeletionIsOneEffect
<1>1. LifeInit => FreeDeletion!EffectInit /\ PaidDeletion!EffectInit
  BY DEF LifeInit, FreeDeletion!EffectInit, PaidDeletion!EffectInit, Fixture
<1>2. EffectsInv /\ [LifeNext]_lifeVars => [FreeDeletion!EffectNext]_(FreeDeletion!effectVars)
  <2> SUFFICES ASSUME EffectsInv, [LifeNext]_lifeVars
               PROVE  [FreeDeletion!EffectNext]_(FreeDeletion!effectVars)
    OBVIOUS
  <2>1. DeletionStep("free")
    BY DeletionSteps DEF Fixture
  <2> QED
    BY <2>1 DEF DeletionStep, Gone, FreeDeletion!EffectNext, FreeDeletion!effectVars,
       FreeDeletion!Prepare, FreeDeletion!Dispatch, FreeDeletion!Issue,
       FreeDeletion!TakeEffect, FreeDeletion!Confirm
<1>3. EffectsInv /\ [LifeNext]_lifeVars => [PaidDeletion!EffectNext]_(PaidDeletion!effectVars)
  <2> SUFFICES ASSUME EffectsInv, [LifeNext]_lifeVars
               PROVE  [PaidDeletion!EffectNext]_(PaidDeletion!effectVars)
    OBVIOUS
  <2>1. DeletionStep("paid")
    BY DeletionSteps DEF Fixture
  <2> QED
    BY <2>1 DEF DeletionStep, Gone, PaidDeletion!EffectNext, PaidDeletion!effectVars,
       PaidDeletion!Prepare, PaidDeletion!Dispatch, PaidDeletion!Issue,
       PaidDeletion!TakeEffect, PaidDeletion!Confirm
<1> QED
  BY <1>1, <1>2, <1>3, EffectsRecorded, PTL
     DEF LifeSpec, DeletionIsOneEffect, FreeDeletion!EffectSpec, PaidDeletion!EffectSpec

-----------------------------------------------------------------------------
(* Who is at work with whom: what the steps elsewhere do to the status of  *)
(* the run, to the stop and to the watcher.                                *)

(* A status that is terminal stays, and only the stop and the watcher end  *)
(* a run, where they have seen that no call is at work.                    *)
StatusStep ==
  /\ Status \in Terminal => Status' = Status
  /\ \/ Status' = Status
     \/ Status' = "stopping"
     \/ pc["stop"] = "cancel" /\ Status' = "canceled"
     \/ pc["watch"] = "cleaned" /\ Status' = "completed"

StopStep ==
  \/ pc'["stop"] = pc["stop"] /\ (~ blocked' => ~ blocked)
  \/ pc["stop"] = "idle" /\ pc'["stop"] = "revoke" /\ Status' = "stopping"
  \/ /\ pc["stop"] = "account" /\ pc'["stop"] = "cleaning"
     /\ pc["tool"] = "idle"
     /\ ~ blocked' => \A o \in Unresolved : ~ Blocks(o)
  \/ pc["stop"] = "cleaned" /\ ~ blocked /\ pc'["stop"] = "cancel"
  \/ pc["stop"] # "idle" /\ pc'["stop"] \in {"idle", "account", "failed", "clear"}

WatchStep ==
  \/ /\ pc'["watch"] = pc["watch"]
     /\ runtime' = runtime \/ runtime' # "running" \/ pc["watch"] = "stream"
  \/ pc'["watch"] = "ended" /\ runtime' # "running"
  \/ /\ pc["watch"] = "ended" /\ pc'["watch"] = "cleaning" /\ UNCHANGED runtime
     /\ pc["tool"] = "idle"
  \/ pc'["watch"] \in {"idle", "failed", "cancel", "stream"}

CleanStep ==
  \/ pc'["clean"] = pc["clean"] /\ UNCHANGED cleaning
  \/ /\ pc["tool"] = "idle" \/ Status \in Terminal
     /\ cleaning'.by = "retry" => Status \in Terminal

ActorsStep == StatusStep /\ StopStep /\ WatchStep /\ CleanStep

LEMMA StatusKept ==
  ASSUME Status' = Status PROVE StatusStep
  BY DEF StatusStep

LEMMA StopAsked ==
  ASSUME StoreTypeOK, RequestStop(run) PROVE StatusStep /\ Status' = "stopping"
  BY StopRequested DEF StatusStep, Terminal

(* A frame records the stop, if it is not on record, and starts it. *)
LEMMA StopRecorded ==
  ASSUME FrameTypes, StoreTypeOK, NEW f \in {"watch", "boot"}, RecordStop(f), UNCHANGED blocked
  PROVE  /\ StatusStep /\ StopStep
         /\ pc' \in [Frame -> Label] /\ pc'[f] = "idle"
         /\ \A g \in Frame \ {f, "stop"} : pc'[g] = pc[g]
<1>1. CASE RequestStop(run) /\ StartStop(f, "idle", "stopping")
  <2>1. Starts(f, "idle", "stopping")
    BY <1>1, StartStopMoves DEF Frame, Label
  <2>2. StatusStep /\ Status' = "stopping"
    BY <1>1, StopAsked
  <2> QED
    BY <2>1, <2>2 DEF Starts, StopStep
<1>2. CASE StartStop(f, "idle", Status) /\ UNCHANGED storeVars
  <2>1. Starts(f, "idle", Status)
    BY <1>2, StartStopMoves DEF Frame, Label
  <2>2. Status' = Status
    BY <1>2, StoreUntouched
  <2> QED
    BY <2>1, <2>2, StatusKept DEF Starts, StopStep
<1> QED
  BY <1>1, <1>2 DEF RecordStop

LEMMA DeadlineExpires ==
  ASSUME FrameTypes, StoreTypeOK, NEW at \in Label, ExpireDeadline("boot", at), UNCHANGED blocked
  PROVE  /\ StatusStep /\ StopStep
         /\ \A g \in Frame \ {"boot", "stop"} : pc'[g] = pc[g]
<1>1. Starts("boot", at, "stopping")
  BY StartStopMoves DEF ExpireDeadline, Frame
<1>2. StatusStep /\ Status' = "stopping"
  BY StopAsked DEF ExpireDeadline
<1> QED
  BY <1>1, <1>2 DEF Starts, StopStep

LEMMA RefusedActors ==
  ASSUME FrameTypes, CallRefused PROVE ActorsStep
<1>1. Starts("tool", "idle", Status)
  BY StartStopMoves DEF CallRefused, Frame, Label
<1>2. Status' = Status /\ UNCHANGED <<blocked, runtime, cleaning>>
  BY StoreUntouched DEF CallRefused, memory, docs
<1> QED
  BY <1>1, <1>2, StatusKept DEF Starts, ActorsStep, StopStep, WatchStep, CleanStep, Frame

LEMMA RetryActors ==
  ASSUME FrameTypes, Retry PROVE ActorsStep
<1>1. Status' = Status /\ UNCHANGED <<blocked, runtime>>
  BY StoreUntouched DEF Retry, RetryCleanup, RetryEnds, memory, docs
<1>2. CASE RetryCleanup
  <2>1. Cleans("retry")
    BY <1>2, CallCleanupMoves DEF RetryCleanup, Cleaner
  <2>2. Status \in Terminal
    BY <1>2 DEF RetryCleanup
  <2> QED
    BY <1>1, <2>1, <2>2, StatusKept DEF Cleans, ActorsStep, StopStep, WatchStep, CleanStep, Frame
<1>3. CASE RetryEnds
  <2>1. Moves("retry", "idle") /\ UNCHANGED cleaning
    BY <1>3, AwaitMoves DEF RetryEnds, Frame, Label, memory
  <2> QED
    BY <1>1, <2>1, StatusKept DEF Moves, ActorsStep, StopStep, WatchStep, CleanStep, Frame
<1> QED
  BY <1>2, <1>3 DEF Retry

LEMMA WatchActors ==
  ASSUME FrameTypes, StoreTypeOK, Watch PROVE ActorsStep
<1>1. CASE TurnEnds
  <2>1. Moves("watch", "ended") /\ Status' = Status /\ UNCHANGED <<blocked, cleaning>>
    BY <1>1, ContinueMoves, StoreUntouched DEF TurnEnds, Frame, Label, memory
  <2>2. runtime' # "running"
    BY <1>1 DEF TurnEnds
  <2> QED
    BY <2>1, <2>2, StatusKept DEF Moves, ActorsStep, StopStep, WatchStep, CleanStep, Frame
<1>2. CASE CompleteIncomplete
  <2>1. Status' = Status /\ UNCHANGED <<blocked, runtime>> /\ pc["watch"] = "ended"
    BY <1>2, StoreUntouched DEF CompleteIncomplete, At, docs
  <2>2. \/ Moves("watch", "idle") /\ UNCHANGED cleaning
        \/ Moves("watch", "failed") /\ UNCHANGED cleaning
        \/ Cleans("watch") /\ pc["tool"] = "idle"
    BY <1>2, AwaitMoves, CallCleanupMoves DEF CompleteIncomplete, Frame, Label, Cleaner
  <2> QED
    BY <2>1, <2>2, StatusKept
       DEF Moves, Cleans, ActorsStep, StopStep, WatchStep, CleanStep, Frame
<1>3. CASE Completed
  <2>1. /\ Moves("watch", "idle") /\ UNCHANGED <<blocked, cleaning, runtime>>
        /\ pc["watch"] = "cleaned"
    BY <1>3, AwaitMoves DEF Completed, Resumed, Frame, Label, memory, docs
  <2>2. Status = "running" /\ Status' = "completed"
    BY <1>3, RunFinished DEF Completed
  <2>3. StatusStep
    BY <2>1, <2>2 DEF StatusStep, Terminal
  <2> QED
    BY <2>1, <2>3 DEF Moves, ActorsStep, StopStep, WatchStep, CleanStep, Frame
<1>4. CASE WatchFails
  <2>1. Moves("watch", "cancel") /\ Status' = Status /\ UNCHANGED <<blocked, cleaning>>
    BY <1>4, ContinueMoves, StoreUntouched DEF WatchFails, Frame, Label, memory
  <2> QED
    BY <2>1, StatusKept DEF Moves, ActorsStep, StopStep, WatchStep, CleanStep, Frame
<1>5. CASE WatchCancels
  <2>1. RecordStop("watch") /\ UNCHANGED <<blocked, cleaning, runtime>>
    BY <1>5 DEF WatchCancels, docs
  <2> QED
    BY <2>1, StopRecorded DEF ActorsStep, WatchStep, CleanStep, Frame
<1> QED
  BY <1>1, <1>2, <1>3, <1>4, <1>5 DEF Watch

LEMMA OwnerActors ==
  ASSUME FrameTypes, StoreTypeOK, Cancel \/ WatchdogFires PROVE ActorsStep
<1>1. UNCHANGED <<blocked, cleaning, runtime>>
  BY DEF Cancel, WatchdogFires, docs
<1>2. StatusStep /\ StopStep /\ \A g \in Frame \ {"boot", "stop"} : pc'[g] = pc[g]
  BY <1>1, StopRecorded, DeadlineExpires DEF Cancel, WatchdogFires, Label
<1> QED
  BY <1>1, <1>2 DEF ActorsStep, WatchStep, CleanStep, Frame

LEMMA StopActors ==
  ASSUME FrameTypes, StoreTypeOK, Stop PROVE ActorsStep
<1>1. CASE Account
  <2>1. pc["stop"] = "account" /\ pc["tool"] = "idle" /\ UNCHANGED runtime /\ Status' = Status
    BY <1>1, StoreUntouched DEF Account, At, docs
  <2>2. ~ blocked' => \A o \in Unresolved : ~ Blocks(o)
    BY <1>1 DEF Account
  <2>3. (Moves("stop", "failed") /\ UNCHANGED cleaning) \/ Cleans("stop")
    BY <1>1, CallCleanupMoves DEF Account, Cleaner
  <2> QED
    BY <2>1, <2>2, <2>3, StatusKept
       DEF Moves, Cleans, ActorsStep, StopStep, WatchStep, CleanStep, Frame
<1>2. CASE Revoke \/ StopFails \/ ClearStopError
  <2>1. /\ Moves("stop", "account") \/ Moves("stop", "idle")
        /\ pc["stop"] # "idle" /\ UNCHANGED <<cleaning, runtime>> /\ Status' = Status
    BY <1>2, ContinueMoves, AwaitMoves, StoreUntouched
       DEF Revoke, StopFails, ClearStopError, At, Resumed, Frame, Label, memory
  <2> QED
    BY <2>1, StatusKept DEF Moves, ActorsStep, StopStep, WatchStep, CleanStep, Frame
<1>3. CASE Settle
  <2>1. /\ Moves("stop", "cancel") /\ pc["stop"] = "cleaned" /\ ~ blocked
        /\ UNCHANGED cleaning /\ Status' = Status /\ runtime' # "running"
    BY <1>3, ContinueMoves, StoreUntouched DEF Settle, Resumed, Frame, Label, memory
  <2> QED
    BY <2>1, StatusKept DEF Moves, ActorsStep, StopStep, WatchStep, CleanStep, Frame
<1>4. CASE FinishStop
  <2>1. /\ Moves("stop", "clear") /\ pc["stop"] = "cancel"
        /\ UNCHANGED <<cleaning, runtime, blocked>>
    BY <1>4, ContinueMoves DEF FinishStop, At, Frame, Label, memory, docs
  <2>2. StatusStep
    BY <1>4, <2>1, RunCanceled DEF FinishStop, StatusStep, Live, Terminal
  <2> QED
    BY <2>1, <2>2 DEF Moves, ActorsStep, StopStep, WatchStep, CleanStep, Frame
<1> QED
  BY <1>1, <1>2, <1>3, <1>4 DEF Stop

LEMMA RecoverActors ==
  ASSUME FrameTypes, StoreTypeOK, Recover PROVE ActorsStep
<1>1. CASE RecoverStops
  <2>1. UNCHANGED <<blocked, cleaning, runtime>>
    BY <1>1 DEF RecoverStops, docs
  <2>2. CASE RequestStop(run) /\ StartStop("boot", "recovered", "stopping")
    <3>1. Starts("boot", "recovered", "stopping")
      BY <2>2, StartStopMoves DEF Frame, Label
    <3> QED
      BY <2>1, <2>2, <3>1, StopAsked DEF Starts, ActorsStep, StopStep, WatchStep, CleanStep, Frame
  <2>3. CASE ExpireDeadline("boot", "recovered")
    BY <2>1, <2>3, DeadlineExpires DEF ActorsStep, WatchStep, CleanStep, Frame, Label
  <2> QED
    BY <1>1, <2>2, <2>3 DEF RecoverStops
<1>2. CASE RecoverStopping
  <2>1. UNCHANGED <<blocked, cleaning, runtime>> /\ Status' = Status
    BY <1>2, StoreUntouched DEF RecoverStopping, docs, memory
  <2>2. Starts("boot", "recovered", Status)
    BY <1>2, StartStopMoves DEF RecoverStopping, Frame, Label
  <2> QED
    BY <2>1, <2>2, StatusKept DEF Starts, ActorsStep, StopStep, WatchStep, CleanStep, Frame
<1>3. CASE BindingReady
  <2>1. /\ UNCHANGED <<blocked, cleaning, runtime>> /\ Status' = Status
        /\ pc'["stop"] = pc["stop"] /\ pc'["clean"] = pc["clean"]
        /\ pc'["watch"] \in {"idle", "stream"}
    BY <1>3, StoreUntouched DEF BindingReady, docs, FrameTypes, Frame
  <2> QED
    BY <2>1, StatusKept DEF ActorsStep, StopStep, WatchStep, CleanStep
<1>4. CASE Boot \/ RecoverEnded \/ RecoverRunning \/ BindingBlocked \/ CloseBlocked \/ Recovered
  <2>1. UNCHANGED <<blocked, cleaning>> /\ (UNCHANGED runtime \/ runtime' # "running")
    BY <1>4 DEF Boot, RecoverEnded, RecoverRunning, BindingBlocked, CloseBlocked, Recovered,
       docs, memory
  <2>2. Status' = Status
    BY <1>4, StoreUntouched, AbandonKeeps
       DEF Boot, RecoverEnded, RecoverRunning, BindingBlocked, CloseBlocked, Recovered
  <2>3. \E at \in Label : Moves("boot", at)
    BY <1>4, ContinueMoves, AwaitMoves
       DEF Boot, RecoverEnded, RecoverRunning, BindingBlocked, CloseBlocked, Recovered,
           Frame, Label
  <2> QED
    BY <2>1, <2>2, <2>3, StatusKept DEF Moves, ActorsStep, StopStep, WatchStep, CleanStep, Frame
<1> QED
  BY <1>1, <1>2, <1>3, <1>4 DEF Recover

LEMMA ElsewhereActors ==
  ASSUME FrameTypes, StoreTypeOK, Elsewhere PROVE ActorsStep
<1>1. CASE WatchEvent \/ TimePasses \/ UNCHANGED lifeVars
  <2>1. /\ UNCHANGED <<pc, cleaning, blocked>>
        /\ UNCHANGED runtime \/ pc["watch"] = "stream"
    BY <1>1 DEF WatchEvent, Resumed, TimePasses, lifeVars, thread, memory, docs
  <2>2. Status' = Status
    BY <1>1 DEF WatchEvent, TimePasses, Tick, lifeVars, storeVars, Status
  <2> QED
    BY <2>1, <2>2, StatusKept DEF ActorsStep, StopStep, WatchStep, CleanStep
<1> QED
  BY <1>1, RefusedActors, RetryActors, WatchActors, OwnerActors, StopActors, RecoverActors
     DEF Elsewhere

-----------------------------------------------------------------------------
(* The record under the steps elsewhere *)

(* An operation keeps its run and its step, and is confirmed nowhere here. *)
OpsKept ==
  \A o \in OperationId :
    /\ ops'[o].run = ops[o].run /\ ops'[o].request = ops[o].request
    /\ \/ ops'[o].state = ops[o].state
       \/ ops[o].state = "dispatched" /\ ops'[o].state = "unknown"

LEMMA OpsUntouched == ASSUME UNCHANGED ops PROVE OpsKept
  BY DEF OpsKept

LEMMA ElsewhereOps ==
  ASSUME StoreTypeOK, Elsewhere PROVE OpsKept
<1>1. CASE CallRefused \/ Retry \/ WatchEvent \/ UNCHANGED lifeVars
  BY <1>1, OpsUntouched
     DEF CallRefused, Retry, RetryCleanup, RetryEnds, WatchEvent, lifeVars, storeVars
<1>2. CASE Watch
  BY <1>2, StopRequested, RunFinished, OpsUntouched
     DEF Watch, TurnEnds, CompleteIncomplete, Completed, WatchFails, WatchCancels, RecordStop,
         storeVars
<1>3. CASE Cancel \/ WatchdogFires
  BY <1>3, StopRequested, OpsUntouched
     DEF Cancel, RecordStop, WatchdogFires, ExpireDeadline, storeVars
<1>4. CASE Stop
  BY <1>4, RunCanceled, OpsUntouched
     DEF Stop, Revoke, Account, StopFails, Settle, FinishStop, ClearStopError, storeVars
<1>5. CASE Recover
  <2>1. CASE AbandonDispatched(run)
    BY <2>1, AbandonKeeps DEF OpsKept
  <2>2. CASE ~ AbandonDispatched(run)
    <3>1. UNCHANGED storeVars \/ RequestStop(run)
      BY <1>5, <2>2 DEF Recover, Boot, RecoverStops, RecoverStopping, RecoverEnded,
         RecoverRunning, BindingReady, BindingBlocked, CloseBlocked, Recovered, ExpireDeadline
    <3> QED
      BY <3>1, StopRequested, OpsUntouched DEF storeVars
  <2> QED
    BY <2>1, <2>2
<1>6. CASE TimePasses
  BY <1>6, OpsUntouched DEF TimePasses, Tick
<1> QED
  BY <1>1, <1>2, <1>3, <1>4, <1>5, <1>6 DEF Elsewhere

LEMMA ReceiptsStay ==
  ASSUME ReceiptsHeld, OpsKept, context'.progress = context.progress
  PROVE  ReceiptsHeld'
  BY DEF ReceiptsHeld, ReceiptsInContext, OperationsOf, OpsKept

LEMMA StepsStay ==
  ASSUME StepsInv, OpsKept, context'.progress = context.progress, UNCHANGED call,
         call.op \in OperationId \/ pc["tool"] \notin Called,
         \/ pc'["tool"] = pc["tool"]
         \/ pc'["tool"] \in {"idle", "failed"}
         \/ pc["tool"] = "cleaning" /\ pc'["tool"] = "cleaned"
  PROVE  StepsInv'
<1>1. ReceiptsHeld'
  BY ReceiptsStay DEF StepsInv
<1>2. pc'["tool"] \in Working \cup {"cleaning", "cleaned", "confirm"} =>
        ops'[call.op].request = call.step
  BY DEF StepsInv, OpsKept, Working, Called
<1>3. pc'["tool"] \in Working \ {"act"} => context.progress + 1 = Position(call.step)
  BY DEF StepsInv, Working
<1>4. pc'["tool"] = "confirm" => context.progress >= Position(call.step)
  BY DEF StepsInv
<1> QED
  BY <1>1, <1>2, <1>3, <1>4 DEF StepsInv

LEMMA ElsewhereRecord ==
  ASSUME EffectsInv, RecordInv, Elsewhere PROVE RecordInv'
<1>1. /\ pc'["tool"] = pc["tool"] /\ UNCHANGED <<call, context>>
      /\ FramesKept \/ CleanerStarts
  BY ElsewhereKeeps DEF EffectsInv, StoreInv, LifeTypeOK, ToolKept
<1>2. StatusStep /\ StopStep /\ WatchStep /\ CleanStep
  BY ElsewhereActors DEF EffectsInv, StoreInv, LifeTypeOK, ActorsStep
<1>3. ToolKnows'
  <2>1. ToolKnows /\ StopKnows /\ WatchKnows
    BY DEF RecordInv, ActorsInv
  <2>2. ASSUME pc["tool"] \in Working
        PROVE  pc'["clean"] = "idle" /\ call'.ctx = context' /\ Status' \notin Terminal
    <3>1. pc["clean"] = "idle" /\ call.ctx = context /\ Status \notin Terminal
          /\ pc["tool"] # "idle"
      BY <2>1, <2>2 DEF ToolKnows, Working
    <3>2. pc["stop"] # "cancel" /\ pc["watch"] # "cleaned"
      BY <2>1, <2>2, <3>1 DEF StopKnows, WatchKnows
    <3>3. Status' \notin Terminal
      BY <1>2, <3>1, <3>2 DEF StatusStep, Terminal
    <3> QED
      BY <1>1, <1>2, <3>1, <3>3 DEF CleanStep
  <2> QED
    BY <1>1, <2>1, <2>2 DEF ToolKnows
<1>4. StopKnows'
  BY <1>1, <1>2 DEF RecordInv, ActorsInv, StopKnows, StopStep, StatusStep, Working, Terminal
<1>5. WatchKnows'
  BY <1>1, <1>2 DEF RecordInv, ActorsInv, WatchKnows, WatchStep
<1>6. RetryKnows'
  BY <1>2 DEF RecordInv, ActorsInv, RetryKnows, CleanStep, StatusStep
<1>7. CopyKnows'
  <2>1. CASE FramesKept
    BY <1>1, <2>1 DEF RecordInv, CopyKnows, FramesKept, CleanerKept
  <2>2. CASE CleanerStarts
    BY <2>2 DEF CopyKnows, CleanerStarts, Cleans, Copied
  <2> QED
    BY <1>1, <2>1, <2>2
<1>8. StepsInv'
  <2>1. OpsKept
    BY ElsewhereOps DEF EffectsInv, StoreInv
  <2>2. call.op \in OperationId \/ pc["tool"] \notin Called
    BY DEF EffectsInv, CallNamed
  <2> QED
    BY <1>1, <2>1, <2>2, StepsStay DEF RecordInv
<1> QED
  BY <1>3, <1>4, <1>5, <1>6, <1>7, <1>8 DEF RecordInv, ActorsInv

-----------------------------------------------------------------------------
(* The record under the steps of the tool call *)

(* Between its works the call writes nothing. *)
LEMMA ToolRests ==
  ASSUME EffectsInv, RecordInv, pc["watch"] \notin {"cleaning", "cleaned"},
         pc["tool"] # "cleaning",
         NEW at \in {"idle", "bind", "slot", "claim", "finish", "end", "failed"},
         Moves("tool", at) \/ Starts("tool", at, Status),
         Status' = Status \/ Status' = "completed",
         UNCHANGED <<cleaning, runtime, context>>,
         at = "finish" => call'.step = "cleanup",
         ReceiptsHeld'
  PROVE  RecordInv'
<1>1. /\ pc'["tool"] = at /\ pc'["clean"] = pc["clean"] /\ pc'["watch"] = pc["watch"]
      /\ \/ pc'["stop"] = pc["stop"]
         \/ pc'["stop"] = "revoke" /\ Status = "stopping"
  BY DEF Moves, Starts, Frame
<1>2. at \notin Working /\ at \notin {"cleaning", "cleaned", "confirm"}
  BY DEF Working
<1>3. ToolKnows'
  BY <1>1, <1>2 DEF ToolKnows
<1>4. StopKnows'
  BY <1>1, <1>2 DEF RecordInv, ActorsInv, StopKnows
<1>5. WatchKnows'
  BY <1>1 DEF RecordInv, ActorsInv, WatchKnows
<1>6. RetryKnows'
  BY <1>1 DEF RecordInv, ActorsInv, RetryKnows, Terminal
<1>7. CopyKnows'
  BY <1>1 DEF RecordInv, CopyKnows
<1>8. StepsInv'
  BY <1>1, <1>2 DEF StepsInv
<1> QED
  BY <1>3, <1>4, <1>5, <1>6, <1>7, <1>8 DEF RecordInv, ActorsInv

(* At work it is alone with the context. *)
LEMMA ToolWorks ==
  ASSUME EffectsInv, RecordInv, pc["tool"] \in Working \/ Status = "running",
         pc["tool"] # "idle", pc["clean"] = "idle", Status \notin Terminal,
         NEW at \in Working \cup {"confirm"}, Moves("tool", at),
         Status' = Status, UNCHANGED <<cleaning, runtime>>,
         call'.ctx = context', ops'[call'.op].request = call'.step,
         at \in Working \ {"act"} => context'.progress + 1 = Position(call'.step),
         at = "confirm" => context'.progress >= Position(call'.step),
         ReceiptsHeld'
  PROVE  RecordInv'
<1>1. /\ pc'["tool"] = at /\ pc'["clean"] = "idle" /\ pc'["watch"] = pc["watch"]
      /\ pc'["stop"] = pc["stop"]
  BY DEF Moves, Frame
<1>2. at \notin {"cleaning", "cleaned", "finish"}
  BY DEF Working
<1>3. ToolKnows'
  BY <1>1, <1>2 DEF ToolKnows
<1>4. StopKnows'
  BY <1>1 DEF RecordInv, ActorsInv, StopKnows
<1>5. WatchKnows'
  BY <1>1 DEF RecordInv, ActorsInv, WatchKnows
<1>6. RetryKnows' /\ CopyKnows'
  BY <1>1 DEF RetryKnows, CopyKnows, Copied
<1>7. StepsInv'
  BY <1>1, <1>2 DEF StepsInv
<1> QED
  BY <1>3, <1>4, <1>5, <1>6, <1>7 DEF RecordInv, ActorsInv

LEMMA CallRecord ==
  ASSUME NoLateCalls, EffectsInv, RecordInv,
         NEW o \in OperationId, NEW s \in Step, CallTool(o, s)
  PROVE  RecordInv'
<1>1. pc["tool"] = "idle" /\ runtime = "running"
  BY DEF CallTool, NoLateCalls
<1>2. pc["watch"] \notin {"cleaning", "cleaned"}
  BY <1>1 DEF RecordInv, ActorsInv, WatchKnows
<1>3. Moves("tool", "slot") \/ Moves("tool", "bind")
  BY ContinueMoves, AwaitMoves DEF CallTool, Frame, Label, EffectsInv, LifeTypeOK
<1>4. UNCHANGED <<storeVars, cleaning, runtime, context>>
  BY DEF CallTool, docs
<1>5. ReceiptsHeld' /\ Status' = Status
  BY <1>4, StoreUntouched, ReceiptsStay, OpsUntouched DEF RecordInv, StepsInv
<1> QED
  BY <1>1, <1>2, <1>3, <1>4, <1>5, ToolRests

(* A run that is claimed for is not being cleaned up. *)
LEMMA ClaimAlone ==
  ASSUME EffectsInv, ActorsInv, Status = "running", pc["tool"] \notin {"idle", "cleaning"}
  PROVE  pc["clean"] = "idle"
<1>1. SUFFICES ASSUME pc["clean"] # "idle" PROVE FALSE
  OBVIOUS
<1>2. cleaning.by \in Cleaner /\ pc[cleaning.by] = "cleaning"
  BY <1>1 DEF EffectsInv, CleanerInv
<1>3. CASE cleaning.by = "tool"
  BY <1>2, <1>3
<1>4. CASE cleaning.by = "watch"
  BY <1>2, <1>4 DEF ActorsInv, WatchKnows
<1>5. CASE cleaning.by = "stop"
  BY <1>2, <1>5 DEF ActorsInv, StopKnows
<1>6. CASE cleaning.by = "retry"
  BY <1>1, <1>6 DEF ActorsInv, RetryKnows, Terminal
<1> QED
  BY <1>2, <1>3, <1>4, <1>5, <1>6 DEF Cleaner

LEMMA ClaimRecord ==
  ASSUME EffectsInv, RecordInv, ClaimStep PROVE RecordInv'
<1>0. pc["tool"] = "claim" /\ call.op \in OperationId /\ call.step \in Request
  BY DEF ClaimStep, At, EffectsInv, CallNamed, Called, Step
<1>1. Moves("tool", "act")
  BY ContinueMoves DEF ClaimStep, Frame, Label, EffectsInv, LifeTypeOK
<1>2. /\ Status = "running" /\ Status' = "running"
      /\ ops'[call.op].state = "dispatched" /\ ops'[call.op].request = call.step
      /\ \A p \in OperationId \ {call.op} : ops'[p] = ops[p]
  BY <1>0, StepClaimed DEF ClaimStep, EffectsInv, StoreInv
<1>3. call' = [call EXCEPT !.ctx = context] /\ UNCHANGED <<cleaning, runtime, context>>
  BY DEF ClaimStep, docs
<1>4. call'.op = call.op /\ call'.step = call.step /\ call'.ctx = context
  BY <1>3 DEF EffectsInv, LifeTypeOK, FrameTypes, Call
<1>5. pc["clean"] = "idle"
  BY <1>0, <1>2, ClaimAlone DEF RecordInv
<1>6. ReceiptsHeld'
  BY <1>0, <1>2, <1>3 DEF RecordInv, StepsInv, ReceiptsHeld, ReceiptsInContext, OperationsOf, Step
<1> QED
  BY <1>0, <1>1, <1>2, <1>3, <1>4, <1>5, <1>6, ToolWorks DEF Working, Terminal

(* The steps of the call after which it rests. *)
LEMMA RestRecord ==
  ASSUME EffectsInv, RecordInv,
         Bound \/ TakeSlot \/ ClaimRefused \/ Fails \/ Confirm \/ Finish \/ EndTool
  PROVE  RecordInv'
<1>a. StoreTypeOK /\ FrameTypes /\ DocTypes
  BY DEF EffectsInv, StoreInv, LifeTypeOK
<1>1. pc["tool"] \notin {"idle", "cleaning"}
  BY DEF Bound, TakeSlot, ClaimRefused, Fails, Confirm, Finish, EndTool, At, Resumed, Posting,
     Making, Fixture
<1>2. pc["watch"] \notin {"cleaning", "cleaned"}
  BY <1>1 DEF RecordInv, ActorsInv, WatchKnows
<1>3. \/ Moves("tool", "slot") \/ Moves("tool", "end") \/ Moves("tool", "claim")
      \/ Confirm /\ Moves("tool", "finish") /\ call.step = "cleanup"
      \/ Starts("tool", "idle", Status)
  BY <1>a, ContinueMoves, StartStopMoves
     DEF Bound, TakeSlot, ClaimRefused, Fails, Confirm, Finish, EndTool, Frame, Label
<1>4. UNCHANGED <<cleaning, runtime, context>> /\ (EndTool \/ UNCHANGED call)
  BY DEF Bound, TakeSlot, ClaimRefused, Fails, Confirm, Finish, EndTool, docs, memory
<1>5. pc["tool"] \in Called => call.op \in OperationId
  BY DEF EffectsInv, CallNamed
<1>6. ReceiptsHeld' /\ (Status' = Status \/ Status' = "completed")
  <2>1. ReceiptsHeld
    BY DEF RecordInv, StepsInv
  <2>2. CASE Bound \/ TakeSlot \/ Fails \/ EndTool
    BY <1>4, <2>1, <2>2, StoreUntouched, ReceiptsStay, OpsUntouched
       DEF Bound, TakeSlot, Fails, EndTool
  <2>3. CASE ClaimRefused
    <3>1. CASE UNCHANGED storeVars
      BY <1>4, <2>1, <3>1, StoreUntouched, ReceiptsStay, OpsUntouched
    <3>2. CASE ClaimExpired(run, run, call.op, call.step)
      <4>1. call.op \in OperationId
        BY <1>5, <2>3 DEF ClaimRefused, At, Called
      <4>2. Status' = Status /\ OpsKept
        BY <1>a, <3>2, <4>1, ClaimExpiredKeeps DEF OpsKept
      <4> QED
        BY <1>4, <2>1, <4>2, ReceiptsStay
    <3> QED
      BY <2>3, <3>1, <3>2 DEF ClaimRefused
  <2>4. CASE Confirm
    <3>1. pc["tool"] \in {"confirm", "cleaned"} /\ call.op \in OperationId
      BY <1>5, <2>4 DEF Confirm, At, Resumed, Called
    <3>2. /\ Status' = Status
          /\ \A p \in OperationId :
               /\ ops'[p].run = ops[p].run /\ ops'[p].request = ops[p].request
               /\ p # call.op => ops'[p].state = ops[p].state
      BY <1>a, <2>4, <3>1, ConfirmKeeps DEF Confirm
    <3>3. ops[call.op].request = call.step
      BY <3>1 DEF RecordInv, StepsInv
    <3>4. context.progress >= Position(call.step)
      <4>1. CASE pc["tool"] = "confirm"
        BY <4>1 DEF RecordInv, StepsInv
      <4>2. CASE pc["tool"] = "cleaned"
        <5>1. call.step = "cleanup"
          BY <4>2 DEF RecordInv, ActorsInv, ToolKnows
        <5>2. context.progress \in Nat
          BY <1>a DEF DocTypes, Context, Chain
        <5> QED
          BY <5>1, <5>2, PositionTyped
      <4> QED
        BY <3>1, <4>1, <4>2
    <3>5. call.op \in OperationsOf(run)
      BY <2>4 DEF Confirm, ConfirmOperation
    <3>6. ReceiptsHeld'
      BY <1>4, <2>1, <3>2, <3>3, <3>4, <3>5 DEF ReceiptsHeld, ReceiptsInContext, OperationsOf
    <3> QED
      BY <3>2, <3>6
  <2>5. CASE Finish
    <3>1. UNCHANGED ops /\ (Status' = Status \/ Status' = "completed")
      BY <1>a, <2>5, RunFinished, StoreUntouched DEF Finish
    <3> QED
      BY <1>4, <2>1, <3>1, ReceiptsStay, OpsUntouched
  <2> QED
    BY <2>2, <2>3, <2>4, <2>5
<1>7. Confirm => UNCHANGED call
  BY DEF Confirm, memory
<1>8. PICK at \in {"idle", "slot", "claim", "end", "finish"} :
        /\ Moves("tool", at) \/ Starts("tool", at, Status)
        /\ at = "finish" => Confirm /\ call.step = "cleanup"
  BY <1>3
<1> QED
  BY <1>1, <1>2, <1>4, <1>6, <1>7, <1>8, ToolRests

LEMMA ActRecord ==
  ASSUME EffectsInv, RecordInv, Act PROVE RecordInv'
<1>0. pc["tool"] = "act" /\ pc["tool"] \in Working
  BY DEF Act, At, Working
<1>1. UNCHANGED <<storeVars, call, context, cleaning, runtime>>
  BY DEF Act, docs, memory
<1>2. ReceiptsHeld' /\ Status' = Status /\ UNCHANGED ops
  BY <1>1, StoreUntouched, ReceiptsStay, OpsUntouched DEF RecordInv, StepsInv
<1>3. CASE context.progress # Position(call.step) - 1
  <2>1. Moves("tool", "end")
    BY <1>3, ContinueMoves DEF Act, Frame, Label, EffectsInv, LifeTypeOK
  <2>2. pc["watch"] \notin {"cleaning", "cleaned"}
    BY <1>0 DEF RecordInv, ActorsInv, WatchKnows
  <2> QED
    BY <1>0, <1>1, <1>2, <2>1, <2>2, ToolRests
<1>4. CASE context.progress = Position(call.step) - 1
  <2>1. Moves("tool", "work") \/ Moves("tool", "post-free")
    BY <1>4, AwaitMoves DEF Act, Posting, Frame, Label, EffectsInv, LifeTypeOK
  <2>2. pc["clean"] = "idle" /\ call.ctx = context /\ Status \notin Terminal
    BY <1>0 DEF RecordInv, ActorsInv, ToolKnows
  <2>3. ops[call.op].request = call.step
    BY <1>0 DEF RecordInv, StepsInv
  <2>4. context.progress + 1 = Position(call.step)
    <3>1. call.step \in Step /\ context.progress \in Nat
      BY <1>0 DEF EffectsInv, CallNamed, Called, LifeTypeOK, DocTypes, Context, Chain
    <3>2. Position(call.step) \in Nat
      BY <3>1, PositionTyped DEF Chain
    <3> QED
      BY <1>4, <3>1, <3>2
  <2>5. PICK at \in {"work", "post-free"} : Moves("tool", at)
    BY <2>1
  <2>6. at \in Working \cup {"confirm"} /\ at # "confirm"
    BY DEF Working
  <2> QED
    BY <1>0, <1>1, <1>2, <2>2, <2>3, <2>4, <2>5, <2>6, ToolWorks
<1> QED
  BY <1>3, <1>4

LEMMA PostRecord ==
  ASSUME EffectsInv, RecordInv, NEW f \in Fixture, Post(f) PROVE RecordInv'
<1>0. pc["tool"] = Posting(f) /\ pc["tool"] \in Working \ {"act"}
  BY DEF Post, Resumed, Posting, Working
<1>a. pc["tool"] \notin {"idle", "cleaning"}
  BY <1>0 DEF Posting
<1>1. UNCHANGED <<storeVars, call, context, cleaning, runtime>>
  BY DEF Post, docs, memory
<1>2. ReceiptsHeld' /\ Status' = Status /\ UNCHANGED ops
  BY <1>1, StoreUntouched, ReceiptsStay, OpsUntouched DEF RecordInv, StepsInv
<1>3. Moves("tool", "end") \/ Moves("tool", "made-free") \/ Moves("tool", "made-paid")
  BY ContinueMoves, AwaitMoves DEF Post, Making, Frame, Label, EffectsInv, LifeTypeOK
<1>4. CASE Moves("tool", "end")
  <2>1. pc["watch"] \notin {"cleaning", "cleaned"}
    BY <1>a DEF RecordInv, ActorsInv, WatchKnows
  <2> QED
    BY <1>a, <1>1, <1>2, <1>4, <2>1, ToolRests
<1>5. CASE Moves("tool", "made-free") \/ Moves("tool", "made-paid")
  <2>2. pc["clean"] = "idle" /\ call.ctx = context /\ Status \notin Terminal
    BY <1>0 DEF RecordInv, ActorsInv, ToolKnows
  <2>3. ops[call.op].request = call.step /\ context.progress + 1 = Position(call.step)
    BY <1>0 DEF RecordInv, StepsInv
  <2>5. PICK at \in {"made-free", "made-paid"} : Moves("tool", at)
    BY <1>5
  <2>6. at \in Working \cup {"confirm"} /\ at # "confirm"
    BY DEF Working
  <2> QED
    BY <1>0, <1>a, <1>1, <1>2, <2>2, <2>3, <2>5, <2>6, ToolWorks
<1> QED
  BY <1>3, <1>4, <1>5

LEMMA MadeRecord ==
  ASSUME EffectsInv, RecordInv, NEW f \in Fixture, Made(f) PROVE RecordInv'
<1>0. pc["tool"] = Making(f) /\ pc["tool"] \in Working \ {"act"}
  BY DEF Made, Resumed, Making, Working
<1>a. pc["tool"] \notin {"idle", "cleaning"}
  BY <1>0 DEF Making
<1>1. UNCHANGED <<storeVars, cleaning, runtime>>
  BY DEF Made, docs, memory
<1>2. pc["clean"] = "idle" /\ call.ctx = context /\ Status \notin Terminal
  BY <1>0 DEF RecordInv, ActorsInv, ToolKnows
<1>3. call' = [call EXCEPT !.ctx.known = @ \cup {f}] /\ context' = call'.ctx
  BY DEF Made
<1>4. call \in Call
  BY DEF EffectsInv, LifeTypeOK, FrameTypes
<1>5. call'.op = call.op /\ call'.step = call.step /\ context'.progress = context.progress
  BY <1>2, <1>3, <1>4, KnownRecorded
<1>6. ReceiptsHeld' /\ Status' = Status /\ UNCHANGED ops
  BY <1>1, <1>5, StoreUntouched, ReceiptsStay, OpsUntouched DEF RecordInv, StepsInv
<1>7. ops[call.op].request = call.step /\ context.progress + 1 = Position(call.step)
  BY <1>0 DEF RecordInv, StepsInv
<1>8. Moves("tool", "end") \/ Moves("tool", "work") \/ Moves("tool", "post-paid")
  BY ContinueMoves, AwaitMoves DEF Made, Frame, Label, EffectsInv, LifeTypeOK, Posting
<1>9. PICK at \in {"end", "work", "post-paid"} : Moves("tool", at)
  BY <1>8
<1>10. CASE at = "end"
  <2>1. /\ pc'["tool"] = "end" /\ pc'["clean"] = "idle" /\ pc'["watch"] = pc["watch"]
        /\ pc'["stop"] = pc["stop"]
    BY <1>2, <1>9, <1>10 DEF Moves, Frame
  <2>2. ToolKnows' /\ StepsInv'
    BY <1>6, <2>1 DEF ToolKnows, StepsInv, Working
  <2>3. StopKnows'
    BY <1>6, <2>1 DEF RecordInv, ActorsInv, StopKnows, Working
  <2>4. WatchKnows'
    BY <1>1, <1>a, <2>1 DEF RecordInv, ActorsInv, WatchKnows
  <2>5. RetryKnows' /\ CopyKnows'
    BY <2>1 DEF RetryKnows, CopyKnows, Copied
  <2> QED
    BY <2>2, <2>3, <2>4, <2>5 DEF RecordInv, ActorsInv
<1>11. CASE at # "end"
  <2>1. at \in Working \cup {"confirm"} /\ at # "confirm"
    BY <1>9, <1>11 DEF Working
  <2> QED
    BY <1>0, <1>a, <1>1, <1>2, <1>3, <1>5, <1>6, <1>7, <1>9, <2>1, ToolWorks
<1> QED
  BY <1>10, <1>11

LEMMA WorkedRecord ==
  ASSUME EffectsInv, RecordInv, Worked PROVE RecordInv'
<1>0. pc["tool"] = "work" /\ pc["tool"] \in Working \ {"act"}
  BY DEF Worked, Resumed, Working
<1>1. UNCHANGED <<storeVars, cleaning, runtime>>
  BY DEF Worked, docs, memory
<1>2. pc["clean"] = "idle" /\ call.ctx = context /\ Status \notin Terminal
  BY <1>0 DEF RecordInv, ActorsInv, ToolKnows
<1> DEFINE position == Position(call.step)
<1>3. call' = AtStep(call, position) /\ context' = call'.ctx
  BY DEF Worked, AtStep
<1>4. call \in Call /\ call.step \in Step /\ position \in 0..Len(Chain)
        /\ context.progress \in Nat
  <2>1. call \in Call /\ call.step \in Step /\ context.progress \in Nat
    BY <1>0 DEF EffectsInv, LifeTypeOK, FrameTypes, DocTypes, CallNamed, Called, Context, Chain
  <2> QED
    BY <2>1, PositionTyped
<1>5. ops[call.op].request = call.step /\ context.progress + 1 = position
  BY <1>0 DEF RecordInv, StepsInv
<1> HIDE DEF position
<1>6. call'.op = call.op /\ call'.step = call.step /\ context'.progress = position
  BY <1>3, <1>4, ProgressRecorded
<1>7. Status' = Status /\ UNCHANGED ops
  BY <1>1, StoreUntouched
<1>8. ReceiptsHeld'
  <2>1. ReceiptsHeld /\ OperationsOf(run)' = OperationsOf(run)
    BY <1>7 DEF RecordInv, StepsInv, OperationsOf
  <2>2. ASSUME NEW o \in OperationsOf(run), ops[o].state = "confirmed"
        PROVE  context'.progress >= Position(ops[o].request)
    <3>1. context.progress >= Position(ops[o].request)
      BY <2>1, <2>2 DEF ReceiptsHeld, ReceiptsInContext
    <3>3. Position(ops[o].request) \in Nat
      <4>1. ops[o].request \in Step
        BY <2>1 DEF ReceiptsHeld
      <4> QED
        BY <4>1, PositionTyped DEF Chain
    <3> QED
      BY <1>4, <1>5, <1>6, <3>1, <3>3
  <2> QED
    BY <1>7, <2>1, <2>2 DEF ReceiptsHeld, ReceiptsInContext
<1>9. Moves("tool", "confirm")
  BY ContinueMoves DEF Worked, Frame, Label, EffectsInv, LifeTypeOK
<1>10. context'.progress >= Position(call'.step)
  BY <1>4, <1>6 DEF position, Chain
<1>11. "confirm" \in Working \cup {"confirm"} /\ "confirm" \notin Working
  BY DEF Working
<1> QED
  BY <1>0, <1>1, <1>2, <1>3, <1>5, <1>6, <1>7, <1>8, <1>9, <1>10, <1>11, ToolWorks

(* The call that cleans up stops being at work before the cleanup starts. *)
LEMMA CleanToolRecord ==
  ASSUME EffectsInv, RecordInv, CleanTool PROVE RecordInv'
<1>0. pc["tool"] = "act" /\ call.step = "cleanup"
  BY DEF CleanTool, At
<1>1. UNCHANGED <<storeVars, call, context, runtime>>
  BY DEF CleanTool, docs
<1>2. ReceiptsHeld' /\ Status' = Status /\ UNCHANGED ops
  BY <1>1, StoreUntouched, ReceiptsStay, OpsUntouched DEF RecordInv, StepsInv
<1>3. pc["clean"] = "idle"
  BY <1>0 DEF RecordInv, ActorsInv, ToolKnows, Working
<1>4. Cleans("tool")
  BY <1>3, CallCleanupMoves DEF CleanTool, Cleaner, EffectsInv, LifeTypeOK
<1>5. /\ pc'["tool"] = "cleaning" /\ pc'["clean"] = "start" /\ cleaning'.by = "tool"
      /\ pc'["stop"] = pc["stop"] /\ pc'["watch"] = pc["watch"]
  BY <1>4 DEF Cleans, Frame
<1>6. ToolKnows'
  BY <1>0, <1>1, <1>5 DEF ToolKnows, Working
<1>7. StopKnows'
  BY <1>2, <1>5 DEF RecordInv, ActorsInv, StopKnows, Working
<1>8. WatchKnows'
  BY <1>0, <1>1, <1>5 DEF RecordInv, ActorsInv, WatchKnows
<1>9. RetryKnows' /\ CopyKnows'
  BY <1>5 DEF RetryKnows, CopyKnows, Copied
<1>10. StepsInv'
  <2>1. ops[call.op].request = call.step
    BY <1>0 DEF RecordInv, StepsInv, Working
  <2> QED
    BY <1>1, <1>2, <1>5, <2>1 DEF StepsInv, Working
<1> QED
  BY <1>6, <1>7, <1>8, <1>9, <1>10 DEF RecordInv, ActorsInv

LEMMA ToolRecord ==
  ASSUME EffectsInv, RecordInv, Tool PROVE RecordInv'
  BY RestRecord, ClaimRecord, ActRecord, PostRecord, MadeRecord, WorkedRecord, CleanToolRecord
     DEF Tool

-----------------------------------------------------------------------------
(* The record under the steps of the cleanup *)

(* The copy is only marked. *)
CopyMarked ==
  /\ cleaning'.by = cleaning.by
  /\ cleaning'.ctx.known = cleaning.ctx.known
  /\ cleaning'.ctx.progress = cleaning.ctx.progress
  /\ \A f \in Fixture :
       cleaning.ctx.cleanup[f] # "none" => cleaning'.ctx.cleanup[f] # "none"

LEMMA LeftoverCopied ==
  ASSUME FrameTypes, NEW f \in Fixture, NEW status \in {"deleted", "leftover"},
         cleaning' = Leftover(cleaning, f, status)
  PROVE  CopyMarked
<1>1. Marked(cleaning, f, status)
  BY LeftoverMarks DEF FrameTypes
<1> QED
  BY <1>1 DEF Marked, CopyMarked

CopySteps == NextFixture \/ DispatchDelete \/ SendDelete \/ Deleted \/ DeleteFails

LEMMA CopyMoves ==
  ASSUME EffectsInv, CopySteps
  PROVE  /\ CopyMarked /\ pc["clean"] \in Copied
         /\ \E at \in Label : Moves("clean", at)
         /\ UNCHANGED <<storeVars, context, runtime, call>>
<1>0. FrameTypes /\ DocTypes
  BY DEF EffectsInv, LifeTypeOK
<1>1. pc["clean"] \in Copied /\ UNCHANGED <<storeVars, context, runtime, call>>
  BY DEF CopySteps, NextFixture, DispatchDelete, SendDelete, Deleted, DeleteFails, At, Resumed,
     Copied, docs, memory
<1>2. pc["clean"] # "next" => cleaning.fixture \in Fixture
  BY <1>1 DEF EffectsInv, DeletionsInv, Copied
<1>3. CASE NextFixture
  <2>1. PICK f \in Fixture :
          /\ cleaning'.by = cleaning.by
          /\ cleaning'.ctx.known = cleaning.ctx.known
          /\ cleaning'.ctx.progress = cleaning.ctx.progress
          /\ \A g \in Fixture : g # f => cleaning'.ctx.cleanup[g] = cleaning.ctx.cleanup[g]
          /\ \/ Moves("clean", "record") /\ cleaning'.ctx.cleanup[f] \in {"deleted", "leftover"}
             \/ Moves("clean", "delete") /\ cleaning'.ctx = cleaning.ctx
    BY <1>0, <1>3, NextFixtureMoves
  <2>2. CopyMarked
    BY <2>1 DEF CopyMarked
  <2> QED
    BY <1>1, <2>1, <2>2 DEF Label
<1>4. CASE ~ NextFixture
  <2>1. UNCHANGED cleaning \/ cleaning' = Leftover(cleaning, cleaning.fixture, "deleted")
        \/ cleaning' = Leftover(cleaning, cleaning.fixture, "leftover")
    BY <1>4 DEF CopySteps, DispatchDelete, SendDelete, Deleted, DeleteFails, memory
  <2>2. CopyMarked
    <3>1. CASE UNCHANGED cleaning
      BY <3>1 DEF CopyMarked
    <3>2. CASE ~ UNCHANGED cleaning
      <4>1. cleaning.fixture \in Fixture
        BY <1>2, <1>4 DEF CopySteps, DispatchDelete, SendDelete, Deleted, DeleteFails, At, Resumed
      <4> QED
        BY <1>0, <2>1, <3>2, <4>1, LeftoverCopied
    <3> QED
      BY <3>1, <3>2
  <2>3. Moves("clean", "record") \/ Moves("clean", "send") \/ Moves("clean", "sent")
    BY <1>0, <1>4, ContinueMoves, AwaitMoves
       DEF CopySteps, DispatchDelete, SendDelete, Deleted, DeleteFails, Frame, Label
  <2> QED
    BY <1>1, <2>2, <2>3 DEF Label
<1> QED
  BY <1>3, <1>4

(* A step of the cleanup is a step of nobody else. *)
LEMMA CleanMovesRecord ==
  ASSUME EffectsInv, RecordInv, pc["clean"] # "idle",
         NEW at \in Label, Moves("clean", at), cleaning'.by = cleaning.by,
         UNCHANGED <<storeVars, runtime, call>>,
         context'.progress = context.progress, CopyKnows'
  PROVE  RecordInv'
<1>1. \A g \in Frame \ {"clean"} : pc'[g] = pc[g]
  BY DEF Moves
<1>2. pc'["tool"] = pc["tool"] /\ pc'["stop"] = pc["stop"] /\ pc'["watch"] = pc["watch"]
  BY <1>1 DEF Frame
<1>3. Status' = Status /\ OpsKept
  BY StoreUntouched, OpsUntouched
<1>4. pc["tool"] \notin Working
  BY DEF RecordInv, ActorsInv, ToolKnows
<1>5. ToolKnows'
  BY <1>2, <1>4 DEF RecordInv, ActorsInv, ToolKnows
<1>6. StopKnows' /\ WatchKnows' /\ RetryKnows'
  BY <1>2, <1>3 DEF RecordInv, ActorsInv, StopKnows, WatchKnows, RetryKnows
<1>7. StepsInv'
  BY <1>2, <1>3, StepsStay DEF RecordInv, EffectsInv, CallNamed
<1> QED
  BY <1>5, <1>6, <1>7 DEF RecordInv, ActorsInv

LEMMA CleanReturnsRecord ==
  ASSUME EffectsInv, RecordInv, pc["clean"] # "idle",
         NEW to \in {"cleaned", "failed"}, Returns(to),
         UNCHANGED <<storeVars, runtime, call>>, context'.progress = context.progress
  PROVE  RecordInv'
<1>1. cleaning.by \in Cleaner /\ pc[cleaning.by] = "cleaning"
  BY DEF EffectsInv, CleanerInv
<1>2. /\ pc'["clean"] = "idle" /\ pc'[cleaning.by] = to
      /\ \A g \in Frame \ {cleaning.by, "clean"} : pc'[g] = pc[g]
  BY DEF Returns
<1>3. ASSUME NEW g \in Cleaner
      PROVE  pc'[g] = pc[g] \/ (pc[g] = "cleaning" /\ pc'[g] = to)
  BY <1>1, <1>2 DEF Cleaner, Frame
<1>4. Status' = Status /\ OpsKept
  BY StoreUntouched, OpsUntouched
<1>5. pc["tool"] \notin Working
  BY DEF RecordInv, ActorsInv, ToolKnows
<1>6. pc'["tool"] = pc["tool"] \/ (pc["tool"] = "cleaning" /\ pc'["tool"] = to)
  BY <1>3 DEF Cleaner
<1>7. ToolKnows'
  BY <1>5, <1>6 DEF RecordInv, ActorsInv, ToolKnows, Working
<1>8. StopKnows'
  <2>1. pc'["stop"] = pc["stop"] \/ (pc["stop"] = "cleaning" /\ pc'["stop"] = to)
    BY <1>3 DEF Cleaner
  <2> QED
    BY <1>4, <1>5, <1>6, <2>1 DEF RecordInv, ActorsInv, StopKnows, Working
<1>9. WatchKnows'
  <2>1. pc'["watch"] = pc["watch"] \/ (pc["watch"] = "cleaning" /\ pc'["watch"] = to)
    BY <1>3 DEF Cleaner
  <2> QED
    BY <1>6, <2>1 DEF RecordInv, ActorsInv, WatchKnows
<1>10. RetryKnows' /\ CopyKnows'
  BY <1>2 DEF RetryKnows, CopyKnows, Copied
<1>11. StepsInv'
  BY <1>4, <1>6, StepsStay DEF RecordInv, EffectsInv, CallNamed
<1> QED
  BY <1>7, <1>8, <1>9, <1>10, <1>11 DEF RecordInv, ActorsInv

LEMMA CleanupRecord ==
  ASSUME EffectsInv, RecordInv, Cleanup PROVE RecordInv'
<1>0. FrameTypes /\ DocTypes /\ CleanerInv
  BY DEF EffectsInv, LifeTypeOK
<1>1. CASE CopySteps
  <2>1. /\ CopyMarked /\ pc["clean"] \in Copied
        /\ UNCHANGED <<storeVars, context, runtime, call>>
    BY <1>1, CopyMoves
  <2>2. PICK at \in Label : Moves("clean", at)
    BY <1>1, CopyMoves
  <2>3. CopyKnows'
    BY <2>1 DEF CopyMarked, RecordInv, CopyKnows
  <2>4. pc["clean"] # "idle" /\ cleaning'.by = cleaning.by
    BY <2>1 DEF Copied, CopyMarked
  <2> QED
    BY <2>1, <2>2, <2>3, <2>4, CleanMovesRecord
<1>2. CASE StartCleanup
  <2>1. /\ pc["clean"] = "start" /\ Moves("clean", "ready") /\ "ready" \in Label
        /\ UNCHANGED <<storeVars, context, runtime, call, cleaning>>
    BY <1>0, <1>2, AwaitMoves DEF StartCleanup, At, Frame, Label, memory
  <2>2. CopyKnows'
    BY <2>1 DEF Moves, CopyKnows, Copied
  <2> QED
    BY <2>1, <2>2, CleanMovesRecord
<1>3. CASE CleanupReady
  <2>0. pc["clean"] = "ready" /\ UNCHANGED <<storeVars, context, runtime, call>>
    BY <1>3 DEF CleanupReady, Resumed, docs
  <2>1. CASE cleaning' = [cleaning EXCEPT !.ctx = context] /\ Continue("clean", "next")
    <3>1. cleaning'.by = cleaning.by /\ cleaning'.ctx = context
      BY <1>0, <2>1, ContextTaken DEF FrameTypes, DocTypes
    <3>2. Moves("clean", "next") /\ "next" \in Label
      BY <1>0, <2>1, ContinueMoves DEF Frame, Label
    <3>3. CopyKnows'
      BY <2>0, <3>1 DEF CopyKnows
    <3> QED
      BY <2>0, <3>1, <3>2, <3>3, CleanMovesRecord
  <2>2. CASE Return("failed")
    <3>1. Returns("failed")
      BY <1>0, <2>0, <2>2, ReturnMoves DEF Label
    <3> QED
      BY <2>0, <3>1, CleanReturnsRecord
  <2> QED
    BY <1>3, <2>1, <2>2 DEF CleanupReady
<1>4. CASE RecordCleanup
  <2>1. /\ pc["clean"] = "record" /\ Moves("clean", "next") /\ "next" \in Label
        /\ UNCHANGED <<storeVars, runtime, call, cleaning>> /\ context' = cleaning.ctx
    BY <1>0, <1>4, ContinueMoves DEF RecordCleanup, At, Frame, Label, memory
  <2>2. context'.progress = context.progress
    BY <2>1 DEF RecordInv, CopyKnows, Copied
  <2>3. CopyKnows'
    BY <2>1 DEF CopyKnows
  <2> QED
    BY <2>1, <2>2, <2>3, CleanMovesRecord
<1>5. CASE EndCleanup
  <2>1. /\ pc["clean"] = "next" /\ UNCHANGED <<storeVars, runtime, call>>
        /\ context' = cleaning.ctx /\ Return("cleaned")
    BY <1>5 DEF EndCleanup, At
  <2>2. context'.progress = context.progress
    BY <2>1 DEF RecordInv, CopyKnows, Copied
  <2>3. Returns("cleaned")
    BY <1>0, <2>1, ReturnMoves DEF Label
  <2> QED
    BY <2>1, <2>2, <2>3, CleanReturnsRecord
<1> QED
  BY <1>1, <1>2, <1>3, <1>4, <1>5 DEF Cleanup, CopySteps

LEMMA CrashRecord ==
  ASSUME EffectsInv, RecordInv, Crash PROVE RecordInv'
<1>1. pc' = [f \in Frame |-> "idle"] /\ UNCHANGED <<storeVars, context>>
  BY DEF Crash, docs
<1>2. /\ pc'["tool"] = "idle" /\ pc'["clean"] = "idle" /\ pc'["stop"] = "idle"
      /\ pc'["watch"] = "idle"
  BY <1>1 DEF Frame
<1>3. ActorsInv' /\ CopyKnows'
  BY <1>2 DEF ActorsInv, ToolKnows, StopKnows, WatchKnows, RetryKnows, CopyKnows, Working, Copied
<1>4. ReceiptsHeld'
  BY <1>1, StoreUntouched, OpsUntouched, ReceiptsStay DEF RecordInv, StepsInv
<1>5. StepsInv'
  BY <1>2, <1>4 DEF StepsInv, Working
<1> QED
  BY <1>3, <1>5 DEF RecordInv

LEMMA ServeRecord ==
  ASSUME EffectsInv, RecordInv, TargetServes PROVE RecordInv'
<1>1. UNCHANGED <<storeVars, context, runtime, pc, call, cleaning>>
  BY DEF TargetServes, docs, thread, memory
<1>2. Status' = Status /\ UNCHANGED ops
  BY <1>1, StoreUntouched
<1>3. ActorsInv' /\ CopyKnows'
  BY <1>1, <1>2 DEF RecordInv, ActorsInv, ToolKnows, StopKnows, WatchKnows, RetryKnows, CopyKnows
<1>4. StepsInv'
  BY <1>1, <1>2 DEF RecordInv, StepsInv, ReceiptsHeld, ReceiptsInContext, OperationsOf
<1> QED
  BY <1>3, <1>4 DEF RecordInv

LEMMA RecordInit == LifeInit => RecordInv
<1> SUFFICES ASSUME LifeInit PROVE RecordInv
  OBVIOUS
<1>1. /\ pc["tool"] = "idle" /\ pc["clean"] = "idle" /\ pc["stop"] = "idle"
      /\ pc["watch"] = "stream"
  BY DEF LifeInit, Frame
<1>2. OperationsOf(run) = {}
  BY DEF LifeInit, OperationsOf, NoOperation
<1>3. ActorsInv /\ CopyKnows
  BY <1>1 DEF ActorsInv, ToolKnows, StopKnows, WatchKnows, RetryKnows, CopyKnows, Working, Copied
<1>4. StepsInv
  BY <1>1, <1>2 DEF StepsInv, ReceiptsHeld, ReceiptsInContext, Working
<1> QED
  BY <1>3, <1>4 DEF RecordInv

LEMMA RecordStep ==
  ASSUME NoLateCalls, EffectsInv, RecordInv, [LifeNext]_lifeVars PROVE RecordInv'
<1>1. CASE Calls
  BY <1>1, CallRecord, ElsewhereRecord DEF Calls, Elsewhere
<1>2. CASE Tool \/ Cleanup
  BY <1>2, ToolRecord, CleanupRecord
<1>3. CASE Crash \/ TargetServes
  BY <1>3, CrashRecord, ServeRecord
<1>4. CASE \/ Retry \/ WatchEvent \/ Watch \/ Cancel \/ WatchdogFires \/ Stop \/ Recover
           \/ TimePasses \/ UNCHANGED lifeVars
  BY <1>4, ElsewhereRecord DEF Elsewhere
<1> QED
  BY <1>1, <1>2, <1>3, <1>4 DEF LifeNext

(* While a call writes the context nobody else does, and nobody ends the   *)
(* run: the watcher, the stop, the retry and the recovery clean up only    *)
(* when no call is at work.                                                *)
THEOREM ContextGuarded ==
  ASSUME NoLateCalls PROVE LifeSpec => []RecordInv
<1>1. EffectsInv /\ RecordInv /\ [LifeNext]_lifeVars => RecordInv'
  BY RecordStep
<1> QED
  BY <1>1, RecordInit, EffectsRecorded, PTL DEF LifeSpec

(* The context keeps every step whose receipt the agent was given.         *)
THEOREM ReceiptsKept ==
  ASSUME NoLateCalls PROVE LifeSpec => []ReceiptsInContext
<1>1. RecordInv => ReceiptsInContext
  BY DEF RecordInv, StepsInv, ReceiptsHeld
<1> QED
  BY <1>1, ContextGuarded, PTL

-----------------------------------------------------------------------------
(* What a canceled run discloses *)

LEMMA PositionNamed ==
  \A s \in Step : s # "cleanup" /\ Position(s) = 1 => s = "prepare"
<1>0. DOMAIN Chain = 1..8
  BY DEF Chain
<1>a. /\ Chain[1] = "prepare" /\ Chain[2] = "SC01" /\ Chain[3] = "create"
      /\ Chain[4] = "SC02" /\ Chain[5] = "schedule" /\ Chain[6] = "SC03"
      /\ Chain[7] = "advance" /\ Chain[8] = "SC04"
  BY DEF Chain
<1> HIDE DEF Chain
<1>1. \A s \in Step : s # "cleanup" => \E n \in DOMAIN Chain : Chain[n] = s
  BY <1>0, <1>a, LifecycleAssumption DEF Step
<1>2. \A s \in Step : s # "cleanup" => Chain[Position(s)] = s
  BY <1>1 DEF Position
<1> QED
  BY <1>a, <1>2

(* Before the stop cleans up, every fixture that was asked for is listed,  *)
(* or an operation blocks the stop.                                        *)
LEMMA AccountLists ==
  ASSUME EffectsInv, RecordInv, InventoryInv, pc["tool"] = "idle",
         \A o \in Unresolved : ~ Blocks(o)
  PROVE  Listed
<1> SUFFICES ASSUME NEW f \in Fixture, creates[f] > 0 PROVE f \in context.known
  BY DEF Listed
<1>1. PICK g \in grants : g.request = "prepare"
  BY DEF EffectsInv, CreationsInv, Prepared
<1>2. /\ g.op \in OperationId /\ g.run = run
      /\ ops[g.op].state # "absent" /\ ops[g.op].run = run /\ ops[g.op].request = "prepare"
  BY <1>1, LifecycleAssumption DEF EffectsInv, StoreInv, StoreTypeOK, Grant, GrantsAccounted
<1>3. g.op \in OperationsOf(run)
  BY <1>2 DEF OperationsOf
<1>4. CASE ops[g.op].state = "confirmed"
  <2>1. context.progress >= 1
    BY <1>2, <1>3, <1>4, PositionTyped DEF RecordInv, StepsInv, ReceiptsHeld, ReceiptsInContext
  <2>2. context.progress \in Nat
    BY DEF EffectsInv, LifeTypeOK, DocTypes, Context, Chain
  <2> QED
    BY <2>1, <2>2 DEF InventoryInv
<1>5. CASE ops[g.op].state # "confirmed"
  <2>1. ~ Blocks(g.op)
    BY <1>3, <1>5 DEF Unresolved
  <2> QED
    BY <1>2, <2>1 DEF Blocks
<1> QED
  BY <1>4, <1>5

LEMMA ElsewhereDiscloses ==
  ASSUME EffectsInv, RecordInv, DisclosingInv, Elsewhere PROVE DisclosingInv'
<1>1. /\ pc'["tool"] = pc["tool"] /\ UNCHANGED <<call, context, served, creates>>
      /\ FramesKept \/ CleanerStarts
  BY ElsewhereKeeps DEF EffectsInv, StoreInv, LifeTypeOK, ToolKept
<1>2. StatusStep /\ StopStep
  BY ElsewhereActors DEF EffectsInv, StoreInv, LifeTypeOK, ActorsStep
<1>3. InventoryInv'
  BY <1>1 DEF DisclosingInv, InventoryInv
<1>4. CleanedSoFar' /\ DeletedIsServed'
  <2>1. CASE FramesKept
    BY <1>1, <2>1 DEF DisclosingInv, CleanedSoFar, DeletedIsServed, FramesKept, CleanerKept
  <2>2. CASE CleanerStarts
    <3>1. pc'["clean"] = "start" /\ cleaning'.fixture = "none" /\ cleaning'.ctx = NoContext
      BY <2>2 DEF CleanerStarts, Cleans
    <3>2. \A f \in Fixture : cleaning'.ctx.cleanup[f] = "none"
      BY <3>1 DEF NoContext
    <3> QED
      BY <1>1, <3>1, <3>2 DEF DisclosingInv, CleanedSoFar, DeletedIsServed
  <2> QED
    BY <1>1, <2>1, <2>2
<1>5. DisclosureInv'
  <2>1. Listed' = Listed /\ Disclosed' = Disclosed
    BY <1>1 DEF Listed, Disclosed
  <2>2. Status' = "canceled" => Disclosed
    BY <1>2 DEF StatusStep, DisclosingInv, DisclosureInv
  <2>3. pc'["stop"] = "cleaning" /\ ~ blocked' => Listed
    <3>1. CASE pc'["stop"] = pc["stop"] /\ (~ blocked' => ~ blocked)
      BY <3>1 DEF DisclosingInv, DisclosureInv
    <3>2. CASE pc["tool"] = "idle" /\ (~ blocked' => \A o \in Unresolved : ~ Blocks(o))
      BY <3>2, AccountLists DEF DisclosingInv
    <3> QED
      BY <1>2, <3>1, <3>2 DEF StopStep
  <2>4. /\ pc'["stop"] = "cleaned" /\ ~ blocked' => Disclosed
        /\ pc'["stop"] = "cancel" => Disclosed
    BY <1>2 DEF StopStep, DisclosingInv, DisclosureInv
  <2> QED
    BY <2>1, <2>2, <2>3, <2>4 DEF DisclosureInv
<1> QED
  BY <1>3, <1>4, <1>5 DEF DisclosingInv

(* A step of the call that leaves the context alone. *)
LEMMA RestDiscloses ==
  ASSUME EffectsInv, RecordInv, DisclosingInv,
         NEW at \in Label, Moves("tool", at) \/ Starts("tool", at, Status),
         Status' = Status \/ Status' = "completed",
         UNCHANGED <<cleaning, context, served, blocked>>,
         \A f \in Fixture : creates'[f] > 0 => creates[f] > 0 \/ pc["tool"] \in Working,
         at \in {"post-paid", "made-paid"} => "free" \in context.known,
         at = "work" => call'.step # "prepare"
  PROVE  DisclosingInv'
<1>1. /\ pc'["tool"] = at /\ pc'["clean"] = pc["clean"]
      /\ pc'["stop"] = pc["stop"] \/ pc'["stop"] = "revoke"
  BY DEF Moves, Starts, Frame
<1>2. InventoryInv'
  BY <1>1 DEF DisclosingInv, InventoryInv
<1>3. CleanedSoFar' /\ DeletedIsServed'
  BY <1>1 DEF DisclosingInv, CleanedSoFar, DeletedIsServed
<1>4. DisclosureInv'
  <2>1. CASE pc["tool"] \in Working
    <3>1. pc["stop"] \notin {"cleaning", "cleaned", "cancel"} /\ Status # "canceled"
      BY <2>1 DEF RecordInv, ActorsInv, StopKnows, ToolKnows, Terminal
    <3> QED
      BY <1>1, <3>1 DEF DisclosureInv
  <2>2. CASE pc["tool"] \notin Working
    <3>1. (Listed => Listed') /\ (Disclosed => Disclosed')
      BY <2>2 DEF Listed, Disclosed
    <3> QED
      BY <1>1, <3>1 DEF DisclosingInv, DisclosureInv
  <2> QED
    BY <2>1, <2>2
<1> QED
  BY <1>2, <1>3, <1>4 DEF DisclosingInv

LEMMA PlainDiscloses ==
  ASSUME EffectsInv, RecordInv, DisclosingInv,
         \/ \E o \in OperationId, s \in Step : CallTool(o, s)
         \/ Bound \/ TakeSlot \/ ClaimStep \/ ClaimRefused \/ Fails \/ Confirm \/ Finish \/ EndTool
  PROVE  DisclosingInv'
<1>a. StoreTypeOK /\ FrameTypes /\ CallNamed
  BY DEF EffectsInv, StoreInv, LifeTypeOK
<1>1. \/ Moves("tool", "bind") \/ Moves("tool", "slot") \/ Moves("tool", "claim")
      \/ Moves("tool", "act") \/ Moves("tool", "finish") \/ Moves("tool", "end")
      \/ Starts("tool", "idle", Status)
  BY <1>a, ContinueMoves, AwaitMoves, StartStopMoves
     DEF CallTool, Bound, TakeSlot, ClaimStep, ClaimRefused, Fails, Confirm, Finish, EndTool,
         Frame, Label
<1>2. UNCHANGED <<cleaning, context, served, blocked, creates>>
  BY DEF CallTool, Bound, TakeSlot, ClaimStep, ClaimRefused, Fails, Confirm, Finish, EndTool,
     docs, target, memory
<1>3. Status' = Status \/ Status' = "completed"
  <2>1. CASE \/ \E o \in OperationId, s \in Step : CallTool(o, s)
             \/ Bound \/ TakeSlot \/ Fails \/ EndTool
    BY <2>1, StoreUntouched DEF CallTool, Bound, TakeSlot, Fails, EndTool
  <2>2. CASE ClaimStep \/ ClaimRefused \/ Confirm
    BY <2>2, StoreUntouched
       DEF ClaimStep, ClaimRefused, Confirm, ClaimDispatch, ClaimExpired, ConfirmOperation, Status
  <2>3. CASE Finish
    BY <1>a, <2>3, StoreUntouched, RunFinished DEF Finish
  <2> QED
    BY <2>1, <2>2, <2>3
<1>4. PICK at \in {"idle", "bind", "slot", "claim", "act", "finish", "end"} :
        Moves("tool", at) \/ Starts("tool", at, Status)
  BY <1>1
<1>5. at \in Label /\ at \notin {"post-paid", "made-paid", "work"}
  BY <1>4 DEF Label
<1> QED
  BY <1>2, <1>3, <1>4, <1>5, RestDiscloses

LEMMA ActDiscloses ==
  ASSUME EffectsInv, RecordInv, DisclosingInv, Act PROVE DisclosingInv'
<1>1. \/ Moves("tool", "end") \/ Moves("tool", "post-free")
      \/ Moves("tool", "work") /\ call.step # "prepare"
  BY ContinueMoves, AwaitMoves DEF Act, Posting, Frame, Label, EffectsInv, LifeTypeOK
<1>2. UNCHANGED <<call, cleaning, context, served, blocked, creates>> /\ Status' = Status
  BY StoreUntouched DEF Act, docs, target, memory
<1>3. PICK at \in {"end", "post-free", "work"} :
        Moves("tool", at) /\ (at = "work" => call.step # "prepare")
  BY <1>1
<1>4. at \in Label /\ at \notin {"post-paid", "made-paid"}
  BY <1>3 DEF Label
<1> QED
  BY <1>2, <1>3, <1>4, RestDiscloses

LEMMA PostDiscloses ==
  ASSUME EffectsInv, RecordInv, DisclosingInv, NEW f \in Fixture, Post(f) PROVE DisclosingInv'
<1>0. pc["tool"] = Posting(f) /\ pc["tool"] \in Working
  BY DEF Post, Resumed, Posting, Working
<1>1. \/ Moves("tool", "end") \/ Moves("tool", "made-free")
      \/ Moves("tool", "made-paid") /\ f = "paid"
  BY ContinueMoves, AwaitMoves DEF Post, Making, Frame, Label, EffectsInv, LifeTypeOK, Fixture
<1>2. UNCHANGED <<call, cleaning, context, served, blocked>> /\ Status' = Status
  BY StoreUntouched DEF Post, docs, memory
<1>3. PICK at \in {"end", "made-free", "made-paid"} :
        Moves("tool", at) /\ (at = "made-paid" => f = "paid")
  BY <1>1
<1>4. at \in Label /\ at # "post-paid" /\ at # "work"
  BY <1>3 DEF Label
<1>5. at = "made-paid" => "free" \in context.known
  BY <1>0, <1>3 DEF Posting, DisclosingInv, InventoryInv
<1> QED
  BY <1>0, <1>2, <1>3, <1>4, <1>5, RestDiscloses

(* A step of the call that writes its copy of the context: the cleanup of  *)
(* the fixtures stays as it is, and nobody relies on the rest.             *)
LEMMA WriteDiscloses ==
  ASSUME EffectsInv, RecordInv, DisclosingInv, pc["tool"] \in Working,
         NEW at \in Label, Moves("tool", at), Status' = Status,
         UNCHANGED <<cleaning, served>>,
         context'.cleanup = context.cleanup, InventoryInv'
  PROVE  DisclosingInv'
<1>1. pc'["clean"] = pc["clean"] /\ pc'["stop"] = pc["stop"]
  BY DEF Moves, Frame
<1>2. CleanedSoFar' /\ DeletedIsServed'
  BY <1>1 DEF DisclosingInv, CleanedSoFar, DeletedIsServed
<1>3. pc["stop"] \notin {"cleaning", "cleaned", "cancel"} /\ Status # "canceled"
  BY DEF RecordInv, ActorsInv, StopKnows, ToolKnows, Terminal
<1>4. DisclosureInv'
  BY <1>1, <1>3 DEF DisclosureInv
<1> QED
  BY <1>2, <1>4 DEF DisclosingInv

LEMMA MadeDiscloses ==
  ASSUME EffectsInv, RecordInv, DisclosingInv, NEW f \in Fixture, Made(f) PROVE DisclosingInv'
<1>0. pc["tool"] = Making(f) /\ pc["tool"] \in Working
  BY DEF Made, Resumed, Making, Working
<1>1. UNCHANGED <<cleaning, served>> /\ Status' = Status
  BY StoreUntouched DEF Made, target
<1>2. call.ctx = context /\ call \in Call
  BY <1>0 DEF RecordInv, ActorsInv, ToolKnows, EffectsInv, LifeTypeOK, FrameTypes
<1>3. call' = [call EXCEPT !.ctx.known = @ \cup {f}] /\ context' = call'.ctx
  BY DEF Made
<1>4. /\ context'.known = context.known \cup {f}
      /\ context'.progress = context.progress /\ context'.cleanup = context.cleanup
  BY <1>2, <1>3, KnownRecorded
<1>5. \/ Moves("tool", "end")
      \/ f = "paid" /\ Moves("tool", "work")
      \/ f = "free" /\ Moves("tool", "post-paid")
  BY ContinueMoves, AwaitMoves DEF Made, Frame, Label, EffectsInv, LifeTypeOK, Posting, Fixture
<1>6. PICK at \in {"end", "work", "post-paid"} :
        Moves("tool", at) /\ (at = "work" => f = "paid") /\ (at = "post-paid" => f = "free")
  BY <1>5
<1>7. at \in Label /\ pc'["tool"] = at
  BY <1>6 DEF Label, Moves
<1>8. f = "paid" => "free" \in context.known
  BY <1>0 DEF Making, DisclosingInv, InventoryInv
<1>9. context.known \subseteq Fixture
  BY DEF EffectsInv, LifeTypeOK, DocTypes, Context
<1>10. InventoryInv'
  <2>1. at \in {"post-paid", "made-paid"} => "free" \in context'.known
    BY <1>4, <1>6
  <2>2. at = "work" => context'.known = Fixture
    BY <1>4, <1>6, <1>8, <1>9 DEF Fixture
  <2>3. context'.progress > 0 => context'.known = Fixture
    BY <1>4, <1>9 DEF DisclosingInv, InventoryInv
  <2> QED
    BY <1>7, <2>1, <2>2, <2>3 DEF InventoryInv
<1> QED
  BY <1>0, <1>1, <1>4, <1>6, <1>7, <1>10, WriteDiscloses

LEMMA WorkedDiscloses ==
  ASSUME EffectsInv, RecordInv, DisclosingInv, Worked PROVE DisclosingInv'
<1>0. pc["tool"] = "work" /\ pc["tool"] \in Working \ {"act"}
  BY DEF Worked, Resumed, Working
<1>1. UNCHANGED <<cleaning, served>> /\ Status' = Status
  BY StoreUntouched DEF Worked, target
<1> DEFINE position == Position(call.step)
<1>2. /\ call.ctx = context /\ call \in Call /\ call.step \in Step /\ context.progress \in Nat
      /\ context.progress + 1 = position
  BY <1>0 DEF RecordInv, ActorsInv, ToolKnows, StepsInv, EffectsInv, LifeTypeOK, FrameTypes,
     DocTypes, CallNamed, Called, Context, Chain
<1>3. position \in 0..Len(Chain)
  BY <1>2, PositionTyped
<1>4. call' = AtStep(call, position) /\ context' = call'.ctx
  BY DEF Worked, AtStep
<1>5. context.known = Fixture
  <2>1. CASE call.step = "prepare"
    BY <1>0, <2>1 DEF DisclosingInv, InventoryInv
  <2>2. CASE call.step = "cleanup"
    BY <1>2, <2>2, PositionTyped
  <2>3. CASE call.step # "prepare" /\ call.step # "cleanup"
    <3>1. position # 1
      BY <1>2, <2>3, PositionNamed
    <3>2. context.progress > 0
      BY <1>2, <3>1
    <3> QED
      BY <3>2 DEF DisclosingInv, InventoryInv
  <2> QED
    BY <2>1, <2>2, <2>3
<1> HIDE DEF position
<1>6. context'.known = context.known /\ context'.cleanup = context.cleanup
  BY <1>2, <1>3, <1>4, ProgressRecorded
<1>7. Moves("tool", "confirm") /\ "confirm" \in Label /\ pc'["tool"] = "confirm"
  BY ContinueMoves DEF Worked, Frame, Label, EffectsInv, LifeTypeOK, Moves
<1>8. InventoryInv'
  BY <1>5, <1>6, <1>7 DEF InventoryInv
<1> QED
  BY <1>0, <1>1, <1>6, <1>7, <1>8, WriteDiscloses

LEMMA CleanToolDiscloses ==
  ASSUME EffectsInv, RecordInv, DisclosingInv, CleanTool PROVE DisclosingInv'
<1>0. pc["tool"] = "act" /\ pc["tool"] \in Working
  BY DEF CleanTool, At, Working
<1>1. UNCHANGED <<context, served, creates>> /\ Status' = Status
  BY StoreUntouched DEF CleanTool, docs, target
<1>2. pc["clean"] = "idle" /\ pc["stop"] \notin {"cleaning", "cleaned", "cancel"}
      /\ Status # "canceled"
  BY <1>0 DEF RecordInv, ActorsInv, ToolKnows, StopKnows, Terminal
<1>3. Cleans("tool")
  BY <1>2, CallCleanupMoves DEF CleanTool, Cleaner, EffectsInv, LifeTypeOK
<1>4. /\ pc'["tool"] = "cleaning" /\ pc'["clean"] = "start" /\ pc'["stop"] = pc["stop"]
      /\ cleaning'.fixture = "none" /\ cleaning'.ctx = NoContext
  BY <1>3 DEF Cleans, Frame
<1>5. \A f \in Fixture : cleaning'.ctx.cleanup[f] = "none"
  BY <1>4 DEF NoContext
<1> QED
  BY <1>1, <1>2, <1>4, <1>5
     DEF DisclosingInv, InventoryInv, CleanedSoFar, DeletedIsServed, DisclosureInv

LEMMA ToolDiscloses ==
  ASSUME EffectsInv, RecordInv, DisclosingInv, Tool PROVE DisclosingInv'
  BY PlainDiscloses, ActDiscloses, PostDiscloses, MadeDiscloses, WorkedDiscloses,
     CleanToolDiscloses DEF Tool

-----------------------------------------------------------------------------
(* What the cleanup leaves behind it *)

(* The cleanup forgets no fixture, in the context or in its copy. *)
CleanupKept ==
  /\ UNCHANGED <<call, creates, blocked>> /\ Status' = Status
  /\ served \subseteq served'
  /\ context'.known = context.known /\ context'.progress = context.progress
  /\ \A f \in Fixture : context.cleanup[f] # "none" => context'.cleanup[f] # "none"

LEMMA CleanDisclosure ==
  ASSUME EffectsInv, RecordInv, DisclosingInv, pc["clean"] # "idle", CleanupKept,
         pc'["tool"] = pc["tool"] \/ pc'["tool"] \in {"cleaned", "failed"},
         \/ pc'["stop"] = pc["stop"] \/ pc'["stop"] = "failed"
         \/ pc["stop"] = "cleaning" /\ pc'["stop"] = "cleaned" /\ (Listed => Disclosed')
  PROVE  InventoryInv' /\ DisclosureInv'
<1>1. pc["tool"] \notin Working
  BY DEF RecordInv, ActorsInv, ToolKnows
<1>2. InventoryInv'
  BY <1>1 DEF DisclosingInv, InventoryInv, CleanupKept, Working
<1>3. (Listed => Listed') /\ (Disclosed => Disclosed')
  BY DEF Listed, Disclosed, CleanupKept
<1>4. DisclosureInv'
  BY <1>3 DEF DisclosingInv, DisclosureInv, CleanupKept
<1> QED
  BY <1>2, <1>4

(* The cleanup has been through the fixture at hand and those before it.   *)
LEMMA NextFixtureDiscloses ==
  ASSUME EffectsInv, RecordInv, DisclosingInv, NextFixture PROVE DisclosingInv'
<1>0. FrameTypes /\ DocTypes /\ pc["clean"] = "next"
  BY DEF EffectsInv, LifeTypeOK, NextFixture, At
<1>1. UNCHANGED <<call, context, served, creates, blocked>> /\ Status' = Status
  BY StoreUntouched DEF NextFixture, target
<1>2. PICK f \in Fixture :
        /\ f = Ordered(Undone(cleaning.fixture)) /\ Undone(cleaning.fixture) # {}
        /\ cleaning' \in Cleaning /\ cleaning'.fixture = f
        /\ cleaning'.ctx.known = cleaning.ctx.known
        /\ \A g \in Fixture : g # f => cleaning'.ctx.cleanup[g] = cleaning.ctx.cleanup[g]
        /\ \/ /\ Moves("clean", "record")
              /\ intents[f] \in {"dispatched", "confirmed"}
              /\ cleaning'.ctx.cleanup[f] =
                   IF intents[f] = "confirmed" THEN "deleted" ELSE "leftover"
           \/ Moves("clean", "delete") /\ cleaning'.ctx = cleaning.ctx
  BY <1>0, NextFixtureMoves
<1>3. pc'["tool"] = pc["tool"] /\ pc'["stop"] = pc["stop"]
      /\ pc'["clean"] \in {"record", "delete"}
  BY <1>2 DEF Moves, Frame
<1>4. InventoryInv' /\ DisclosureInv'
  BY <1>0, <1>1, <1>3, CleanDisclosure DEF CleanupKept
(* The fixture that comes before f, if it is known, has been cleaned up.   *)
<1>5. \A g \in Behind(f) \cap cleaning.ctx.known :
        g # f => cleaning.ctx.cleanup[g] # "none"
  <2> SUFFICES ASSUME f = "paid", "free" \in cleaning.ctx.known
               PROVE  cleaning.ctx.cleanup["free"] # "none"
    BY DEF Behind, Fixture
  <2>1. "free" \notin Undone(cleaning.fixture)
    BY <1>2 DEF Ordered
  <2>2. CASE cleaning.fixture = "none"
    BY <2>1, <2>2 DEF Undone, Todo
  <2>3. CASE cleaning.fixture = "free"
    BY <1>0, <2>3 DEF DisclosingInv, CleanedSoFar, Behind
  <2>4. CASE cleaning.fixture \notin {"none", "free"}
    BY <1>2, <2>4 DEF Undone
  <2> QED
    BY <2>2, <2>3, <2>4
<1>6. CleanedSoFar'
  <2>1. CASE Moves("clean", "record") /\ cleaning'.ctx.cleanup[f] \in {"deleted", "leftover"}
    <3>1. pc'["clean"] = "record"
      BY <2>1 DEF Moves
    <3>2. \A g \in Behind(f) \cap cleaning.ctx.known : g \in Fixture
      BY DEF Behind, Fixture
    <3>3. \A g \in Behind(f) \cap cleaning.ctx.known : cleaning'.ctx.cleanup[g] # "none"
      BY <1>2, <1>5, <2>1, <3>2
    <3> QED
      BY <1>2, <3>1, <3>3 DEF CleanedSoFar
  <2>2. CASE Moves("clean", "delete") /\ cleaning'.ctx = cleaning.ctx
    <3>1. pc'["clean"] = "delete"
      BY <2>2 DEF Moves
    <3> QED
      BY <1>2, <1>5, <2>2, <3>1 DEF CleanedSoFar
  <2> QED
    BY <1>2, <2>1, <2>2
<1>7. DeletedIsServed'
  <2>1. DeletedIsServed /\ (intents[f] = "confirmed" => Delete(f) \in served)
    BY DEF DisclosingInv, EffectsInv, DeletionsInv, DeletionInv
  <2> QED
    BY <1>1, <1>2, <2>1 DEF DeletedIsServed
<1> QED
  BY <1>4, <1>6, <1>7 DEF DisclosingInv

(* The fixture at hand is marked, and the next is looked for. *)
LEMMA MarkDiscloses ==
  ASSUME EffectsInv, RecordInv, DisclosingInv, pc["clean"] \in {"delete", "sent"},
         Continue("clean", "record"), NEW status \in {"deleted", "leftover"},
         cleaning' = Leftover(cleaning, cleaning.fixture, status),
         status = "deleted" => Delete(cleaning.fixture) \in served,
         UNCHANGED <<call, context, served, creates, blocked>>, Status' = Status
  PROVE  DisclosingInv'
<1>0. FrameTypes /\ cleaning.fixture \in Fixture /\ cleaning \in Cleaning
  BY DEF EffectsInv, LifeTypeOK, FrameTypes, DeletionsInv
<1> DEFINE f == cleaning.fixture
<1>1. Marked(cleaning, f, status)
  BY <1>0, LeftoverMarks
<1>2. Moves("clean", "record")
  BY <1>0, ContinueMoves DEF Frame, Label
<1>3. pc'["tool"] = pc["tool"] /\ pc'["stop"] = pc["stop"] /\ pc'["clean"] = "record"
  BY <1>2 DEF Moves, Frame
<1>4. InventoryInv' /\ DisclosureInv'
  BY <1>3, CleanDisclosure DEF CleanupKept
<1>5. CleanedSoFar'
  <2>1. \A g \in Behind(f) \cap cleaning.ctx.known : g \in Fixture
    BY DEF Behind, Fixture
  <2>2. \A g \in (Behind(f) \ {f}) \cap cleaning.ctx.known : cleaning.ctx.cleanup[g] # "none"
    BY DEF DisclosingInv, CleanedSoFar
  <2>3. \A g \in Behind(f) \cap cleaning.ctx.known : cleaning'.ctx.cleanup[g] # "none"
    BY <1>1, <2>1, <2>2 DEF Marked
  <2> QED
    BY <1>1, <1>3, <2>3 DEF Marked, CleanedSoFar
<1>6. DeletedIsServed'
  BY <1>1 DEF Marked, DisclosingInv, DeletedIsServed
<1> QED
  BY <1>4, <1>5, <1>6 DEF DisclosingInv

LEMMA DeletionDiscloses ==
  ASSUME EffectsInv, RecordInv, DisclosingInv,
         DispatchDelete \/ SendDelete \/ Deleted \/ DeleteFails
  PROVE  DisclosingInv'
<1>0. FrameTypes
  BY DEF EffectsInv, LifeTypeOK
<1>1. UNCHANGED <<call, context, served, creates, blocked>> /\ Status' = Status
  BY StoreUntouched DEF DispatchDelete, SendDelete, Deleted, DeleteFails, docs, target, memory
<1>2. CASE Deleted
  BY <1>1, <1>2, MarkDiscloses DEF Deleted, Resumed
<1>3. CASE DeleteFails
  BY <1>1, <1>3, MarkDiscloses DEF DeleteFails, Resumed
<1>4. CASE DispatchDelete \/ SendDelete
  <2>1. CASE /\ pc["clean"] = "delete" /\ Continue("clean", "record")
             /\ cleaning' = Leftover(cleaning, cleaning.fixture, "leftover")
    BY <1>1, <2>1, MarkDiscloses
  <2>2. CASE /\ pc["clean"] \in {"delete", "send"} /\ UNCHANGED cleaning
             /\ Continue("clean", "send") \/ Await("clean", "sent")
    <3>1. Moves("clean", "send") \/ Moves("clean", "sent")
      BY <1>0, <2>2, ContinueMoves, AwaitMoves DEF Frame, Label
    <3>2. /\ pc'["tool"] = pc["tool"] /\ pc'["stop"] = pc["stop"]
          /\ pc'["clean"] \in {"send", "sent"}
      BY <3>1 DEF Moves, Frame
    <3>3. InventoryInv' /\ DisclosureInv'
      BY <1>1, <2>2, <3>2, CleanDisclosure DEF CleanupKept
    <3>4. CleanedSoFar' /\ DeletedIsServed'
      BY <1>1, <2>2, <3>2 DEF DisclosingInv, CleanedSoFar, DeletedIsServed
    <3> QED
      BY <3>3, <3>4 DEF DisclosingInv
  <2> QED
    BY <1>4, <2>1, <2>2 DEF DispatchDelete, SendDelete, At, Resumed, memory
<1> QED
  BY <1>2, <1>3, <1>4

(* Nothing is behind a cleanup that starts. *)
LEMMA StartDiscloses ==
  ASSUME EffectsInv, RecordInv, DisclosingInv, StartCleanup \/ RecordCleanup
  PROVE  DisclosingInv'
<1>0. FrameTypes
  BY DEF EffectsInv, LifeTypeOK
<1>1. /\ UNCHANGED <<call, served, creates, blocked, cleaning>> /\ Status' = Status
      /\ \/ context' = context /\ pc["clean"] = "start" /\ Moves("clean", "ready")
         \/ context' = cleaning.ctx /\ pc["clean"] = "record" /\ Moves("clean", "next")
  BY <1>0, StoreUntouched, ContinueMoves, AwaitMoves
     DEF StartCleanup, RecordCleanup, At, Frame, Label, target, memory
<1>2. pc'["tool"] = pc["tool"] /\ pc'["stop"] = pc["stop"]
  BY <1>1 DEF Moves, Frame
<1>3. CleanupKept
  BY <1>1 DEF CleanupKept, RecordInv, CopyKnows, Copied
<1>4. InventoryInv' /\ DisclosureInv'
  BY <1>1, <1>2, <1>3, CleanDisclosure
<1>5. CleanedSoFar' /\ DeletedIsServed'
  BY <1>1 DEF Moves, DisclosingInv, CleanedSoFar, DeletedIsServed
<1> QED
  BY <1>4, <1>5 DEF DisclosingInv

LEMMA ReadyDiscloses ==
  ASSUME EffectsInv, RecordInv, DisclosingInv, CleanupReady PROVE DisclosingInv'
<1>0. FrameTypes /\ DocTypes /\ CleanerInv /\ cleaning \in Cleaning /\ context \in Context
  BY DEF EffectsInv, LifeTypeOK, FrameTypes, DocTypes
<1>1. /\ UNCHANGED <<call, context, served, creates, blocked>> /\ Status' = Status
      /\ pc["clean"] = "ready"
  BY StoreUntouched DEF CleanupReady, Resumed, docs, target
<1>2. CASE cleaning' = [cleaning EXCEPT !.ctx = context] /\ Continue("clean", "next")
  <2>1. cleaning'.fixture = "none" /\ cleaning'.ctx = context
    BY <1>0, <1>1, <1>2, ContextTaken DEF DisclosingInv, CleanedSoFar
  <2>2. Moves("clean", "next")
    BY <1>0, <1>2, ContinueMoves DEF Frame, Label
  <2>3. pc'["tool"] = pc["tool"] /\ pc'["stop"] = pc["stop"] /\ pc'["clean"] = "next"
    BY <2>2 DEF Moves, Frame
  <2>4. InventoryInv' /\ DisclosureInv'
    BY <1>1, <2>3, CleanDisclosure DEF CleanupKept
  <2>5. CleanedSoFar' /\ DeletedIsServed'
    BY <1>1, <2>1, <2>3 DEF DisclosingInv, CleanedSoFar, DeletedIsServed, Behind
  <2> QED
    BY <2>4, <2>5 DEF DisclosingInv
<1>3. CASE Return("failed")
  <2>1. Returns("failed")
    BY <1>0, <1>1, <1>3, ReturnMoves DEF Label
  <2>2. cleaning.by \in Cleaner
    BY <1>1 DEF EffectsInv, CleanerInv
  <2>3. /\ pc'["tool"] = pc["tool"] \/ pc'["tool"] = "failed"
        /\ pc'["stop"] = pc["stop"] \/ pc'["stop"] = "failed"
        /\ pc'["clean"] = "idle" /\ cleaning' = NoCleaning
    BY <2>1, <2>2 DEF Returns, Cleaner, Frame
  <2>4. InventoryInv' /\ DisclosureInv'
    BY <1>1, <2>3, CleanDisclosure DEF CleanupKept
  <2>5. \A f \in Fixture : cleaning'.ctx.cleanup[f] = "none"
    BY <2>3 DEF NoCleaning, NoContext
  <2>6. CleanedSoFar' /\ DeletedIsServed'
    BY <1>1, <2>3, <2>5 DEF DisclosingInv, CleanedSoFar, DeletedIsServed
  <2> QED
    BY <2>4, <2>6 DEF DisclosingInv
<1> QED
  BY <1>2, <1>3 DEF CleanupReady

(* The cleanup ends when it has been through every fixture it knows.       *)
LEMMA EndDiscloses ==
  ASSUME EffectsInv, RecordInv, DisclosingInv, EndCleanup PROVE DisclosingInv'
<1>0. FrameTypes /\ CleanerInv /\ cleaning \in Cleaning
  BY DEF EffectsInv, LifeTypeOK, FrameTypes
<1>1. /\ UNCHANGED <<call, served, creates, blocked>> /\ Status' = Status
      /\ pc["clean"] = "next" /\ context' = cleaning.ctx
      /\ Undone(cleaning.fixture) = {} /\ Return("cleaned")
  BY StoreUntouched DEF EndCleanup, At, target
<1>2. Returns("cleaned")
  BY <1>0, <1>1, ReturnMoves DEF Label
<1>3. cleaning.by \in Cleaner /\ pc[cleaning.by] = "cleaning"
  BY <1>1 DEF EffectsInv, CleanerInv
<1>4. /\ pc'["tool"] = pc["tool"] \/ pc'["tool"] = "cleaned"
      /\ \/ pc'["stop"] = pc["stop"]
         \/ pc["stop"] = "cleaning" /\ pc'["stop"] = "cleaned"
      /\ pc'["clean"] = "idle" /\ cleaning' = NoCleaning
  BY <1>2, <1>3 DEF Returns, Cleaner, Frame
<1>5. CleanupKept
  BY <1>1 DEF CleanupKept, RecordInv, CopyKnows, Copied
<1>6. \A f \in cleaning.ctx.known : cleaning.ctx.cleanup[f] # "none"
  <2>1. cleaning.fixture \in Fixture \cup {"none"} /\ cleaning.ctx.known \subseteq Fixture
    BY <1>0 DEF Cleaning, Context
  <2>2. \A f \in Behind(cleaning.fixture) \cap cleaning.ctx.known :
          cleaning.ctx.cleanup[f] # "none"
    BY <1>1 DEF DisclosingInv, CleanedSoFar
  <2>3. CASE cleaning.fixture = "none"
    BY <1>1, <2>3 DEF Undone, Todo
  <2>4. CASE cleaning.fixture = "free"
    BY <1>1, <2>1, <2>2, <2>4 DEF Undone, Todo, Behind, Fixture
  <2>5. CASE cleaning.fixture = "paid"
    BY <2>1, <2>2, <2>5 DEF Behind
  <2> QED
    BY <2>1, <2>3, <2>4, <2>5 DEF Fixture
<1>7. Listed => Disclosed'
  BY <1>1, <1>5, <1>6 DEF Listed, Disclosed, CleanupKept
<1>8. InventoryInv' /\ DisclosureInv'
  BY <1>1, <1>4, <1>5, <1>7, CleanDisclosure
<1>9. \A f \in Fixture : cleaning'.ctx.cleanup[f] = "none"
  BY <1>4 DEF NoCleaning, NoContext
<1>10. CleanedSoFar' /\ DeletedIsServed'
  BY <1>1, <1>4, <1>9 DEF DisclosingInv, CleanedSoFar, DeletedIsServed
<1> QED
  BY <1>8, <1>10 DEF DisclosingInv

LEMMA CleanupDiscloses ==
  ASSUME EffectsInv, RecordInv, DisclosingInv, Cleanup PROVE DisclosingInv'
  BY NextFixtureDiscloses, DeletionDiscloses, StartDiscloses, ReadyDiscloses, EndDiscloses
     DEF Cleanup

LEMMA CrashDiscloses ==
  ASSUME EffectsInv, RecordInv, DisclosingInv, Crash PROVE DisclosingInv'
<1>1. /\ pc' = [f \in Frame |-> "idle"] /\ cleaning' = NoCleaning
      /\ UNCHANGED <<context, served, creates>> /\ Status' = Status
  BY StoreUntouched DEF Crash, docs, target
<1>2. pc'["tool"] = "idle" /\ pc'["clean"] = "idle" /\ pc'["stop"] = "idle"
  BY <1>1 DEF Frame
<1>3. \A f \in Fixture : cleaning'.ctx.cleanup[f] = "none"
  BY <1>1 DEF NoCleaning, NoContext
<1>4. InventoryInv' /\ CleanedSoFar' /\ DeletedIsServed'
  BY <1>1, <1>2, <1>3 DEF DisclosingInv, InventoryInv, CleanedSoFar, DeletedIsServed
<1>5. DisclosureInv'
  BY <1>1, <1>2 DEF DisclosingInv, DisclosureInv, Disclosed
<1> QED
  BY <1>4, <1>5 DEF DisclosingInv

LEMMA ServeDiscloses ==
  ASSUME EffectsInv, RecordInv, DisclosingInv, TargetServes PROVE DisclosingInv'
<1>1. /\ UNCHANGED <<pc, call, cleaning, context, creates, blocked>> /\ Status' = Status
      /\ served \subseteq served'
  BY StoreUntouched DEF TargetServes, docs, thread, memory
<1> QED
  BY <1>1 DEF DisclosingInv, InventoryInv, CleanedSoFar, DeletedIsServed, DisclosureInv, Listed,
     Disclosed

LEMMA DiscloseInit == LifeInit => DisclosingInv
<1> SUFFICES ASSUME LifeInit PROVE DisclosingInv
  OBVIOUS
<1>1. /\ pc["tool"] = "idle" /\ pc["clean"] = "idle" /\ pc["stop"] = "idle"
      /\ context = NoContext /\ cleaning = NoCleaning
  BY DEF LifeInit, Frame
<1>2. Status = "running"
  BY RunInStore DEF LifeInit, Status, NoRun
<1> QED
  BY <1>1, <1>2 DEF DisclosingInv, InventoryInv, CleanedSoFar, DeletedIsServed, DisclosureInv,
     NoContext, NoCleaning

LEMMA DiscloseStep ==
  ASSUME EffectsInv, RecordInv, DisclosingInv, [LifeNext]_lifeVars PROVE DisclosingInv'
<1>1. CASE Calls
  BY <1>1, PlainDiscloses, ElsewhereDiscloses DEF Calls, Elsewhere
<1>2. CASE Tool \/ Cleanup
  BY <1>2, ToolDiscloses, CleanupDiscloses
<1>3. CASE Crash \/ TargetServes
  BY <1>3, CrashDiscloses, ServeDiscloses
<1>4. CASE \/ Retry \/ WatchEvent \/ Watch \/ Cancel \/ WatchdogFires \/ Stop \/ Recover
           \/ TimePasses \/ UNCHANGED lifeVars
  BY <1>4, ElsewhereDiscloses DEF Elsewhere
<1> QED
  BY <1>1, <1>2, <1>3, <1>4 DEF LifeNext

(* A run is canceled only after the stop has seen every fixture that was   *)
(* ever asked for in the inventory and the cleanup has been through it, so *)
(* a fixture the target still holds is listed as a leftover.               *)
THEOREM CanceledRunDiscloses ==
  ASSUME NoLateCalls PROVE LifeSpec => []CanceledDiscloses
<1>1. EffectsInv /\ RecordInv /\ DisclosingInv /\ [LifeNext]_lifeVars => DisclosingInv'
  BY DiscloseStep
<1>2. EffectsInv /\ DisclosingInv => CanceledDiscloses
  <2> SUFFICES ASSUME EffectsInv, DisclosingInv, NEW f \in Fixture,
                      Status = "canceled", Exists(f)
               PROVE  context.cleanup[f] = "leftover"
    BY DEF CanceledDiscloses
  <2>1. creates[f] = 1
    BY DEF Exists, EffectsInv, CreationsInv
  <2>2. context.cleanup[f] # "none"
    BY <2>1 DEF DisclosingInv, DisclosureInv, Disclosed
  <2>3. context.cleanup[f] # "deleted"
    BY DEF Exists, DisclosingInv, DeletedIsServed
  <2>4. context.cleanup[f] \in {"none", "deleted", "leftover"}
    BY DEF EffectsInv, LifeTypeOK, DocTypes, Context
  <2> QED
    BY <2>2, <2>3, <2>4
<1> QED
  BY <1>1, <1>2, DiscloseInit, EffectsRecorded, ContextGuarded, PTL DEF LifeSpec
=============================================================================
