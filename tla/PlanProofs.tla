----------------------------- MODULE PlanProofs -----------------------------
(***************************************************************************)
(* Proofs about PlanApproval, for every number of crashes and requests.    *)
(*                                                                         *)
(* For every set of callers, whether their calls overlap or not: the       *)
(* tables of the store keep their invariant, a stopped run has lost its    *)
(* tools and asks the runtime for nothing more (CallersInv, StopInv).      *)
(*                                                                         *)
(* As long as the calls that resume a decision do not overlap (OneFrame),  *)
(* which one caller guarantees: the runtime effect, the record of the      *)
(* decision, and that a stop waits for the dispatch it raced (RecordInv,   *)
(* AwaitInv).  The run of MCPlanTwice shows two overlapping calls that     *)
(* dispatch one decision twice.                                            *)
(***************************************************************************)
EXTENDS PlanApproval, RunStoreProofs

(* At most one call of decidePlan, or the recovery, is at work. *)
OneFrame == \A f, g \in Frame : pc[f] # "idle" /\ pc[g] # "idle" => f = g

(* Where a frame may stand, and where the stop may. *)
Label ==
  {"idle", "inspect", "resume", "resume_inspected", "gate", "decide", "window", "mark",
   "latest", "pending", "answer", "rejected", "commit", "find", "found", "tail", "arm"}
  \cup {"recover", "reconcile", "stop_recovered", "recover_rest", "recovery_failed",
        "binding", "recovered"}
  \cup {"revoke", "account", "cleanup", "settle", "cancel", "clear"}

PlanTypeOK ==
  /\ continuation \in Continuation
  /\ runtime \in Runtime
  /\ pc \in [Frame \cup {"stop"} -> Label]
  /\ local \in [Frame -> Continuation]
  /\ sent \in Turn

(* Where a frame's copy of the continuation is still the stored one.       *)
Copied == {"resume", "resume_inspected", "gate", "decide", "window", "mark", "find", "found"}

(* Where the store has recorded the frame's decision. *)
Settled ==
  {"window", "mark", "latest", "pending", "answer", "commit", "find", "found", "tail"}

(* What a frame knows of the stored continuation, by where it stands. *)
FrameKnows(f) ==
  /\ pc[f] = "inspect" => continuation.status = "none" /\ local[f].status = "prepared"
  /\ pc[f] \in Copied => local[f] = continuation
  /\ pc[f] \in Settled => local[f].decision = Decided
  /\ pc[f] \in {"window", "mark"} => local[f].status = "prepared"
  /\ pc[f] \in {"find", "found"} => local[f].status = "dispatched"
  /\ pc[f] \in {"latest", "pending", "answer", "commit"} => continuation.status = "dispatched"
  /\ pc[f] \in {"latest", "pending"} => sent = 0
  /\ pc[f] = "commit" => local[f].turn \in turns
  /\ pc[f] \in {"latest", "pending", "answer"} => dispatching

(* Only a dispatched decision has a request, and only a request a turn.    *)
WireInv ==
  /\ sent \in {0, 1}
  /\ net \subseteq 1..sent
  /\ turns \subseteq 1..sent
  /\ net \cap turns = {}
  /\ continuation.status \in {"none", "prepared"} => sent = 0
  /\ continuation.status = "confirmed" => continuation.turn \in turns

RecoveryKnows == pc["boot"] = "reconcile" => continuation.status = "dispatched"

RecordInv ==
  /\ PlanTypeOK
  /\ \A f \in Frame : FrameKnows(f)
  /\ WireInv
  /\ RecoveryKnows
  /\ DispatchedIsRecorded

(* Where a frame resumes a decision. *)
Works == Copied \cup Settled \cup {"rejected", "arm"}

(* What the stored continuation says from the first dispatch on. *)
Given == {"dispatched", "confirmed", "unknown"}

(* Where a frame knows which decision the store has recorded, whatever     *)
(* other frames do to the stored continuation.                             *)
Recorded == {"window", "mark", "latest", "pending"}

(* What a frame knows even when others work on the same decision.          *)
CallerKnows(f) ==
  /\ pc[f] = "inspect" =>
       approvalLock /\ continuation.status = "none" /\ local[f].status = "prepared"
  /\ pc[f] \in Works => continuation.status # "none"
  /\ pc[f] \in {"latest", "pending", "reconcile"} => continuation.status \in Given
  /\ pc[f] \in Recorded => local[f].decision = Decided

(* The approval lock lets one first decision in at a time. *)
OneInspects == \A f, g \in Frame : pc[f] = "inspect" /\ pc[g] = "inspect" => f = g

(* Every request has a number, and none goes out before a dispatch is      *)
(* stored.                                                                 *)
RequestsNumbered ==
  /\ net \cup turns \subseteq 1..sent
  /\ continuation.status \in {"none", "prepared"} => sent = 0

CallersInv ==
  /\ PlanTypeOK
  /\ \A f \in Frame : CallerKnows(f)
  /\ OneInspects
  /\ RequestsNumbered

(* Stopping: the capability is gone once the stop has revoked it, the      *)
(* store says so for as long as the stop is at work, and the runtime is    *)
(* recorded as ended before the run is canceled.                           *)
StopKnows ==
  /\ pc["stop"] # "idle" => Status \in {"stopping", "canceled"} /\ Decided # "deny"
  /\ pc["stop"] \in {"account", "cleanup", "settle", "cancel", "clear"} => ~ token
  /\ pc["stop"] = "cancel" => runtime.status \in {"done", "error"}

(* The first steps of a recovery run before anything else does. *)
BootFirst ==
  /\ pc["boot"] \in {"recover", "reconcile", "stop_recovered"} => pc["stop"] = "idle"
  /\ pc["boot"] \in {"reconcile", "stop_recovered"} => Status = "stopping"

(* Calls are served only while the worker is up, and recovery comes first. *)
Serving ==
  /\ pc["boot"] # "idle" => worker = "recovering"
  /\ \A c \in Caller : pc[c] # "idle" => worker = "up"
  /\ worker = "down" => pc["stop"] = "idle"

DeniedIsCanceled == Decided = "deny" => Status = "canceled"

(* What is left of a stopped run. *)
StoppedIsOver == Stopped => ~ token /\ runtime.status \in {"done", "error"}

StopInv == StopKnows /\ BootFirst /\ Serving /\ DeniedIsCanceled /\ StoppedIsOver

(* From the moment the stop has seen no dispatch in flight, no frame waits *)
(* for an answer.                                                          *)
AwaitInv ==
  pc["stop"] \in {"cleanup", "settle", "cancel", "clear"} \/ Stopped =>
    \A f \in Frame : pc[f] # "answer"

PlanInv == StoreInv /\ CallersInv /\ StopInv /\ RecordInv /\ AwaitInv

-----------------------------------------------------------------------------
(* The store under the plan: every step of the worker is a transaction of  *)
(* RunStore or leaves the store alone.                                     *)

LEMMA RunInStore == run \in RunId /\ run \in Binding
  BY PlanAssumption

(* What a transaction on the run does to its status and its decision.      *)
LEMMA StopRequested ==
  ASSUME StoreTypeOK, RequestStop(run)
  PROVE  /\ Status \in {"awaiting_plan_approval", "running"}
         /\ Status' = "stopping" /\ Decided' = Decided
  BY RunInStore, RequestStopEffect DEF Status, Decided

LEMMA RunCanceled ==
  ASSUME StoreTypeOK, CancelRun(run)
  PROVE  Status \in Live /\ Status' = "canceled" /\ Decided' = Decided
  BY RunInStore, CancelRunEffect DEF Status, Decided

LEMMA PlanDecided ==
  ASSUME StoreTypeOK, NEW b, NEW d \in Decision, DecidePlan(run, b, d)
  PROVE  /\ b = run
         /\ Status = "awaiting_plan_approval" /\ Decided = "pending"
         /\ Status' = IF d = "allow" THEN "running" ELSE "canceled"
         /\ Decided' = d
  BY RunInStore, DecidePlanEffect DEF Status, Decided, Decision

LEMMA RunFinished ==
  ASSUME StoreTypeOK, NEW verdicts \in VerdictLists, FinishRun(run, verdicts)
  PROVE  Status = "running" /\ Status' = "completed" /\ Decided' = Decided
  BY RunInStore, FinishRunEffect DEF Status, Decided

LEMMA StoreUntouched ==
  ASSUME UNCHANGED storeVars
  PROVE  Status' = Status /\ Decided' = Decided /\ PastDeadline' = PastDeadline
  BY DEF storeVars, Status, Decided, PastDeadline, Expired

LEMMA TickEffect ==
  ASSUME Tick PROVE Status' = Status /\ Decided' = Decided
  BY DEF Tick, Status, Decided

(* The store is used by RequestStop, by decidePlan, by cancelRun and by    *)
(* finishRun only.                                                         *)
LEMMA PlanStoreStep ==
  ASSUME PlanTypeOK, [PlanNext]_planVars
  PROVE  [StoreNext]_storeVars
<1> SUFFICES ASSUME ~ UNCHANGED storeVars PROVE StoreNext
  OBVIOUS
<1>1. CASE RequestStop(run)
  BY <1>1, RunInStore DEF StoreNext
<1>2. ASSUME NEW f \in Frame, Record(f) PROVE StoreNext
  <2>1. DecidePlan(run, local[f].binding, local[f].decision)
    BY <1>2 DEF Record
  <2>2. local[f].binding \in RunId /\ local[f].decision \in {"allow", "deny"}
    BY <2>1, RunInStore DEF DecidePlan, PlanTypeOK, Continuation, Decision
  <2> QED
    BY <2>1, <2>2, RunInStore DEF StoreNext, Decide
<1>3. ASSUME NEW f \in Frame, Resume(f), ~ Record(f) PROVE RequestStop(run)
  BY <1>3 DEF Resume, ResumeRefused, ResumeStopped, ResumePrepared, ResumeSettled,
     Gate, RecordRefused, WindowExpired, WindowOpen, Mark, Latest, Post,
     PostRefused, PostFails, Answered, Rejected, Commit, Find, Found, NotFound, FindFails,
     TailDeny, TailAllow, Arm, ExpireDeadline
<1>4. CASE Owner \/ WatchdogFires
  BY <1>4, <1>1 DEF Owner, DecideFirst, DecideAgain, InspectFails, Prepare, Cancel, WatchdogFires
<1>5. CASE Stop
  <2>1. CancelRun(run)
    BY <1>5 DEF Stop, Revoke, Blocked, Account, CleanupDone, CleanupFails, Settle, FinishStop,
       ClearStopError
  <2> QED
    BY <2>1, RunInStore DEF StoreNext
<1>6. CASE Complete
  BY <1>6, RunInStore DEF Complete, StoreNext
<1>7. CASE Recover
  <2>1. RequestStop(run)
    BY <1>7 DEF Recover, Boot, RecoverStopping, RecoverStoppingFails, Reconcile,
       RecoverStop, RecoverConfirmed, RecoverPending, RecoverUndecided, RecoveryFailed,
       RecoveryRevokes, RecoverEnded, RecoverExpired, RecoverBinding, BindingBlocked,
       BindingReady, Recovered, RecoveryResumes, ExpireDeadline
  <2> QED
    BY <2>1, <1>1
<1>8. CASE Crash \/ RuntimeAccepts \/ UNCHANGED planVars
  BY <1>8 DEF Crash, RuntimeAccepts, planVars
<1>9. CASE TimePasses
  BY <1>9 DEF TimePasses, StoreNext
<1> QED
  BY <1>1, <1>2, <1>3, <1>4, <1>5, <1>6, <1>7, <1>8, <1>9 DEF PlanNext

-----------------------------------------------------------------------------
(* Control: a step moves one frame, and may start or move the stop.        *)

Moves(f, at) ==
  /\ pc' \in [Frame \cup {"stop"} -> Label]
  /\ pc'[f] = at
  /\ \A g \in Frame \ {f} : pc'[g] = pc[g]

LEMMA Names == "stop" \notin Frame /\ "none" \notin Frame /\ "boot" \in Frame
               /\ \A c \in Caller : c \in Frame /\ c # "boot"
  BY PlanAssumption DEF Frame

LEMMA ContinueMoves ==
  ASSUME PlanTypeOK, NEW f \in Frame, NEW at \in Label, Continue(f, at)
  PROVE  Moves(f, at) /\ pc'["stop"] = pc["stop"]
  BY Names DEF PlanTypeOK, Continue, Moves

LEMMA AwaitMoves ==
  ASSUME PlanTypeOK, NEW f \in Frame, NEW at \in Label, Await(f, at)
  PROVE  Moves(f, at) /\ pc'["stop"] = pc["stop"]
  BY Names DEF PlanTypeOK, Await, Moves

LEMMA TakesThread ==
  ASSUME PlanTypeOK, NEW f \in Frame, NEW at \in Label, pc' = [pc EXCEPT ![f] = at]
  PROVE  Moves(f, at) /\ pc'["stop"] = pc["stop"]
  BY Names DEF PlanTypeOK, Moves

LEMMA AfterLabel ==
  ASSUME NEW f, NEW error \in BOOLEAN
  PROVE  After(f, error) \in {"idle", "recovery_failed", "recover_rest"}
  BY DEF After

LEMMA EndMoves ==
  ASSUME PlanTypeOK, NEW f \in Frame, NEW error \in BOOLEAN, End(f, error)
  PROVE  Moves(f, After(f, error)) /\ pc'["stop"] = pc["stop"]
<1> DEFINE at == After(f, error)
<1>1. at \in Label
  BY DEF After, Label
<1>2. pc' = [pc EXCEPT ![f] = at]
  BY DEF End
<1> HIDE DEF at
<1>3. Moves(f, at) /\ pc'["stop"] = pc["stop"]
  BY <1>1, <1>2, TakesThread
<1> QED
  BY <1>3 DEF at

LEMMA StartStopMoves ==
  ASSUME PlanTypeOK, NEW f \in Frame, NEW at \in Label, StartStop(f, at)
  PROVE  /\ Moves(f, at)
         /\ pc'["stop"] = IF pc["stop"] = "idle" THEN "revoke" ELSE pc["stop"]
<1>1. CASE pc["stop"] = "idle"
  <2>1. pc' = [pc EXCEPT !["stop"] = "revoke", ![f] = at]
    BY <1>1 DEF StartStop
  <2>2. f # "stop"
    BY Names
  <2> DEFINE revoking == [pc EXCEPT !["stop"] = "revoke"]
  <2>a. /\ revoking \in [Frame \cup {"stop"} -> Label]
        /\ revoking["stop"] = "revoke"
    BY DEF PlanTypeOK, Label
  <2>b. pc' = [revoking EXCEPT ![f] = at]
    BY <2>1
  <2> HIDE DEF revoking
  <2>3. /\ pc' \in [Frame \cup {"stop"} -> Label]
        /\ pc'[f] = at /\ pc'["stop"] = "revoke"
    BY <2>a, <2>b, <2>2
  <2>4. \A g \in Frame \ {f} : pc'[g] = pc[g]
    BY <2>1, Names DEF PlanTypeOK
  <2> QED
    BY <1>1, <2>3, <2>4 DEF Moves
<1>2. CASE pc["stop"] # "idle"
  <2>1. pc' = [pc EXCEPT ![f] = at]
    BY <1>2 DEF StartStop
  <2> QED
    BY <1>2, <2>1, TakesThread
<1> QED
  BY <1>1, <1>2

LEMMA ExpireMoves ==
  ASSUME PlanTypeOK, StoreTypeOK, NEW f \in Frame, NEW at \in Label, ExpireDeadline(f, at)
  PROVE  /\ Moves(f, at)
         /\ Status' = "stopping" /\ Decided' = Decided
         /\ pc'["stop"] \in {"revoke", pc["stop"]}
<1>1. Status' = "stopping" /\ Decided' = Decided
  BY StopRequested DEF ExpireDeadline
<1>2. CASE dispatching
  BY <1>1, <1>2, TakesThread DEF ExpireDeadline
<1>3. CASE ~ dispatching
  BY <1>1, <1>3, StartStopMoves DEF ExpireDeadline
<1> QED
  BY <1>2, <1>3

-----------------------------------------------------------------------------
(* The record of the decision *)

(* A frame that is idle knows nothing, and while one frame is at work all  *)
(* others are idle.                                                        *)
LEMMA OthersIdle ==
  ASSUME PlanTypeOK, OneFrame, NEW f \in Frame, pc[f] # "idle", NEW at, Moves(f, at)
  PROVE  \A g \in Frame \ {f} : FrameKnows(g)'
  BY DEF OneFrame, Moves, FrameKnows, Copied, Settled

(* A step that leaves the stored decision and the wire alone has only to   *)
(* account for what its frame knows afterwards.                            *)
LEMMA FrameStep ==
  ASSUME RecordInv, OneFrame, NEW f \in Frame, pc[f] # "idle", NEW at, Moves(f, at),
         at # "reconcile",
         local' \in [Frame -> Continuation], UNCHANGED <<continuation, runtime, wire>>,
         Decided' = Decided \/ Decided = "pending", FrameKnows(f)'
  PROVE  RecordInv'
<1>1. PlanTypeOK'
  BY DEF RecordInv, PlanTypeOK, Moves, wire
<1>2. \A g \in Frame : FrameKnows(g)'
  BY OthersIdle DEF RecordInv
<1>3. WireInv'
  BY DEF RecordInv, WireInv, wire
<1>4. RecoveryKnows'
  BY Names DEF RecordInv, RecoveryKnows, Moves
<1>5. DispatchedIsRecorded'
  BY DEF RecordInv, DispatchedIsRecorded, wire, PlanTypeOK, Continuation, Decision
<1> QED
  BY <1>1, <1>2, <1>3, <1>4, <1>5 DEF RecordInv

(* Where a frame goes that has nothing more to do with the decision. *)
Elsewhere ==
  {"idle", "recovery_failed", "recover_rest", "rejected", "arm", "binding", "recovered"}

LEMMA FrameLeaves ==
  ASSUME RecordInv, OneFrame, NEW f \in Frame, pc[f] # "idle",
         NEW at \in Elsewhere, Moves(f, at), UNCHANGED <<continuation, runtime, wire, local>>,
         Decided' = Decided
  PROVE  RecordInv'
<1>1. FrameKnows(f)'
  BY DEF Moves, Elsewhere, FrameKnows, Copied, Settled
<1> QED
  BY <1>1, FrameStep DEF Elsewhere, RecordInv, PlanTypeOK
LEMMA FrameEnds ==
  ASSUME RecordInv, OneFrame, NEW f \in Frame, pc[f] # "idle",
         NEW error \in BOOLEAN, End(f, error),
         UNCHANGED <<continuation, runtime, wire, local>>, Decided' = Decided
  PROVE  RecordInv'
<1> DEFINE at == After(f, error)
<1>1. at \in Elsewhere
  BY AfterLabel DEF Elsewhere
<1>2. Moves(f, at)
  BY EndMoves DEF RecordInv
<1> HIDE DEF at
<1> QED
  BY <1>1, <1>2, FrameLeaves

(* resumePlanDecision up to the write-ahead of the dispatch. *)
LEMMA ResumingKeepsRecord ==
  ASSUME StoreTypeOK, RecordInv, OneFrame, NEW f \in Frame,
         \/ ResumeRefused(f) \/ ResumeStopped(f) \/ ResumePrepared(f)
         \/ ResumeSettled(f) \/ Gate(f)
  PROVE  RecordInv'
<1> DEFINE Same == UNCHANGED <<continuation, wire, local>> /\ Decided' = Decided
<1>0. PlanTypeOK /\ FrameKnows(f)
  BY DEF RecordInv
<1>1. CASE ResumeRefused(f)
  BY <1>1, FrameEnds, StoreUntouched DEF ResumeRefused, Resuming, docs
<1>2. CASE ResumeStopped(f)
  BY <1>2, FrameEnds, StoreUntouched DEF ResumeStopped, Resuming
<1>3. CASE ResumePrepared(f)
  <2>1. pc[f] \in {"resume", "resume_inspected"} /\ local[f].status = "prepared"
    BY <1>3 DEF ResumePrepared, Resuming
  <2>2. UNCHANGED <<continuation, runtime, wire, local>> /\ Decided' = Decided
    BY <1>3, StoreUntouched DEF ResumePrepared, docs
  <2>3. Moves(f, "decide") \/ Moves(f, "gate")
    BY <1>0, <1>3, ContinueMoves, AwaitMoves DEF ResumePrepared, Label
  <2>4. FrameKnows(f)'
    BY <1>0, <2>1, <2>2, <2>3 DEF FrameKnows, Moves, Copied, Settled
  <2> QED
    BY <2>1, <2>2, <2>3, <2>4, FrameStep DEF RecordInv, PlanTypeOK
<1>4. CASE ResumeSettled(f)
  <2>1. pc[f] \in {"resume", "resume_inspected"}
    BY <1>4 DEF ResumeSettled, Resuming
  <2>2. UNCHANGED <<continuation, runtime, wire, local>> /\ Decided' = Decided
    BY <1>4, StoreUntouched DEF ResumeSettled, docs, memory
  <2>3. Moves(f, "decide")
    BY <1>0, <1>4, ContinueMoves DEF ResumeSettled, Label
  <2>4. FrameKnows(f)'
    BY <1>0, <2>1, <2>2, <2>3 DEF FrameKnows, Moves, Copied, Settled
  <2> QED
    BY <2>1, <2>2, <2>3, <2>4, FrameStep DEF RecordInv, PlanTypeOK
<1>5. CASE Gate(f)
  <2>1. pc[f] = "gate"
    BY <1>5 DEF Gate
  <2>2. UNCHANGED <<continuation, runtime, wire, local>> /\ Decided' = Decided
    BY <1>5, StoreUntouched DEF Gate, docs, memory
  <2>3. CASE End(f, TRUE)
    BY <2>1, <2>2, <2>3, FrameEnds
  <2>4. CASE pc' = [pc EXCEPT ![f] = "decide"]
    <3>1. Moves(f, "decide")
      BY <1>0, <2>4, TakesThread DEF Label
    <3>2. FrameKnows(f)'
      BY <1>0, <2>1, <2>2, <3>1 DEF FrameKnows, Moves, Copied, Settled
    <3> QED
      BY <2>1, <2>2, <3>1, <3>2, FrameStep DEF RecordInv, PlanTypeOK
  <2> QED
    BY <1>5, <2>3, <2>4 DEF Gate
<1> QED
  BY <1>1, <1>2, <1>3, <1>4, <1>5
(* From the recorded decision to the request at the runtime. *)
LEMMA RecordingKeepsRecord ==
  ASSUME StoreTypeOK, RecordInv, OneFrame, NEW f \in Frame,
         Record(f) \/ RecordRefused(f) \/ WindowExpired(f) \/ WindowOpen(f) \/ Mark(f)
  PROVE  RecordInv'
<1>0. PlanTypeOK /\ FrameKnows(f) /\ WireInv /\ DispatchedIsRecorded
  BY DEF RecordInv
<1>1. CASE Record(f)
  <2> DEFINE at == NextAfterDecide(f)
  <2>1. pc[f] = "decide" /\ local[f] = continuation /\ local[f] \in Continuation
    BY <1>0, <1>1 DEF Record, FrameKnows, Copied, PlanTypeOK
  <2>2. UNCHANGED <<continuation, runtime, wire, local>>
    BY <1>1 DEF Record, docs, memory
  <2>3. local[f].decision = Decided' /\ (Decided' = Decided \/ Decided = "pending")
    BY <1>1, <2>1, StoreUntouched, PlanDecided DEF Record, Continuation
  <2>4. /\ at \in {"window", "mark", "find", "tail"}
        /\ at \in {"window", "mark"} => local[f].status = "prepared"
        /\ at = "find" => local[f].status = "dispatched"
    BY DEF NextAfterDecide
  <2>5. Moves(f, at)
    <3>1. at \in Label
      BY <2>4 DEF Label
    <3> QED
      BY <1>0, <1>1, <3>1, ContinueMoves DEF Record
  <2> HIDE DEF at
  <2>6. FrameKnows(f)'
    BY <2>1, <2>2, <2>3, <2>4, <2>5 DEF FrameKnows, Moves, Copied, Settled
  <2> QED
    BY <2>1, <2>2, <2>3, <2>4, <2>5, <2>6, FrameStep DEF RecordInv, PlanTypeOK
<1>2. CASE RecordRefused(f)
  BY <1>2, FrameEnds, StoreUntouched DEF RecordRefused, docs
<1>3. CASE WindowExpired(f)
  <2> DEFINE at == After(f, FALSE)
  <2>1. at \in Elsewhere /\ at \in Label
    BY AfterLabel DEF Elsewhere, Label
  <2>2. ExpireDeadline(f, at)
    BY <1>3 DEF WindowExpired
  <2> HIDE DEF at
  <2>3. Moves(f, at) /\ Decided' = Decided
    BY <1>0, <2>1, <2>2, ExpireMoves
  <2>4. pc[f] # "idle" /\ UNCHANGED <<continuation, runtime, wire, local>>
    BY <1>3 DEF WindowExpired, docs
  <2> QED
    BY <2>1, <2>3, <2>4, FrameLeaves
<1>4. CASE WindowOpen(f)
  <2>1. pc[f] = "window"
    BY <1>4 DEF WindowOpen
  <2>2. UNCHANGED <<continuation, runtime, wire, local>> /\ Decided' = Decided
    BY <1>4, StoreUntouched DEF WindowOpen, docs
  <2>3. Moves(f, "mark")
    BY <1>0, <1>4, AwaitMoves DEF WindowOpen, Label
  <2>4. FrameKnows(f)'
    BY <1>0, <2>1, <2>2, <2>3 DEF FrameKnows, Moves, Copied, Settled
  <2> QED
    BY <2>1, <2>2, <2>3, <2>4, FrameStep DEF RecordInv, PlanTypeOK
<1>5. CASE Mark(f)
  <2>1. /\ pc[f] = "mark" /\ local[f] = continuation /\ continuation.status = "prepared"
        /\ local[f].decision = Decided /\ continuation \in Continuation
    BY <1>0, <1>5 DEF Mark, FrameKnows, Copied, Settled, PlanTypeOK
  <2>2. UNCHANGED <<runtime, wire>> /\ Decided' = Decided
    BY <1>5, StoreUntouched DEF Mark
  <2>3. Moves(f, "latest")
    BY <1>0, <1>5, AwaitMoves DEF Mark, Label
  <2>4. /\ continuation' = [continuation EXCEPT !.status = "dispatched"]
        /\ local' = [local EXCEPT ![f] = continuation']
        /\ dispatching' = TRUE
    BY <1>5, <2>1 DEF Mark
  <2>5. /\ continuation' \in Continuation /\ continuation'.status = "dispatched"
        /\ continuation'.decision = Decided
    BY <2>1, <2>4 DEF Continuation
  <2>6. local' \in [Frame -> Continuation] /\ local'[f] = continuation'
    BY <1>0, <2>4, <2>5 DEF PlanTypeOK
  <2>7. sent = 0
    BY <1>0, <2>1 DEF WireInv
  <2>8. PlanTypeOK'
    BY <1>0, <2>2, <2>3, <2>5, <2>6 DEF PlanTypeOK, Moves, wire
  <2>9. FrameKnows(f)'
    BY <2>2, <2>3, <2>4, <2>5, <2>6, <2>7 DEF FrameKnows, Moves, Copied, Settled, wire
  <2>10. \A g \in Frame : FrameKnows(g)'
    BY <1>0, <2>1, <2>3, <2>9, OthersIdle
  <2>11. WireInv'
    BY <1>0, <2>2, <2>5 DEF WireInv, wire
  <2>12. RecoveryKnows'
    BY <2>5 DEF RecoveryKnows
  <2>13. DispatchedIsRecorded'
    BY <1>0, <2>1, <2>2, <2>5 DEF DispatchedIsRecorded
  <2> QED
    BY <2>8, <2>10, <2>11, <2>12, <2>13 DEF RecordInv
<1> QED
  BY <1>1, <1>2, <1>3, <1>4, <1>5

(* The request itself, and what the runtime answers. *)
LEMMA DispatchKeepsRecord ==
  ASSUME StoreTypeOK, RecordInv, OneFrame, NEW f \in Frame,
         \/ Latest(f) \/ Post(f) \/ PostRefused(f) \/ PostFails(f)
         \/ Answered(f) \/ Rejected(f) \/ Commit(f)
  PROVE  RecordInv'
<1>0. PlanTypeOK /\ FrameKnows(f) /\ WireInv /\ DispatchedIsRecorded
  BY DEF RecordInv
<1>1. CASE Latest(f)
  <2>1. pc[f] = "latest"
    BY <1>1 DEF Latest
  <2>2. UNCHANGED <<continuation, runtime, wire, local, dispatching>> /\ Decided' = Decided
    BY <1>1, StoreUntouched DEF Latest, docs, memory
  <2>3. CASE pc' = [pc EXCEPT ![f] = "rejected"]
    BY <1>0, <2>1, <2>2, <2>3, TakesThread, FrameLeaves DEF Label, Elsewhere
  <2>4. CASE Await(f, "pending")
    <3>1. Moves(f, "pending")
      BY <1>0, <2>4, AwaitMoves DEF Label
    <3>2. FrameKnows(f)'
      BY <1>0, <2>1, <2>2, <3>1 DEF FrameKnows, Moves, Copied, Settled, wire
    <3> QED
      BY <2>1, <2>2, <3>1, <3>2, FrameStep DEF RecordInv, PlanTypeOK
  <2> QED
    BY <1>1, <2>3, <2>4 DEF Latest
<1>2. CASE Post(f)
  <2>1. pc[f] = "pending" /\ sent = 0 /\ continuation.status = "dispatched" /\ dispatching
    BY <1>0, <1>2 DEF Post, FrameKnows
  <2>2. UNCHANGED <<continuation, runtime, turns, dispatching>> /\ Decided' = Decided
    BY <1>2, StoreUntouched DEF Post, docs
  <2>3. Moves(f, "answer")
    BY <1>0, <1>2, AwaitMoves DEF Post, Label
  <2>4. sent' = 1 /\ net' = net \cup {1}
    BY <1>2, <2>1 DEF Post
  <2>5. /\ local' \in [Frame -> Continuation]
        /\ local'[f].decision = local[f].decision
    <3>1. 1 \in Turn
      BY <1>2, <2>1, PlanAssumption DEF Post, Turn
    <3>2. local' = [local EXCEPT ![f].turn = 1]
      BY <1>2, <2>1 DEF Post
    <3>3. [local[f] EXCEPT !.turn = 1] \in Continuation
      BY <1>0, <3>1 DEF PlanTypeOK, Continuation
    <3> QED
      BY <1>0, <3>2, <3>3 DEF PlanTypeOK, Continuation
  <2>6. PlanTypeOK'
    BY <1>0, <1>2, <2>1, <2>2, <2>3, <2>4, <2>5, PlanAssumption DEF PlanTypeOK, Moves, Post, Turn
  <2>7. FrameKnows(f)'
    BY <1>0, <2>1, <2>2, <2>3, <2>5 DEF FrameKnows, Moves, Copied, Settled
  <2>8. \A g \in Frame : FrameKnows(g)'
    BY <1>0, <2>1, <2>3, <2>7, OthersIdle
  <2>9. WireInv'
    BY <1>0, <2>1, <2>2, <2>4 DEF WireInv
  <2>10. RecoveryKnows' /\ DispatchedIsRecorded'
    BY <1>0, <2>1, <2>2 DEF RecoveryKnows, DispatchedIsRecorded
  <2> QED
    BY <2>6, <2>8, <2>9, <2>10 DEF RecordInv
<1>3. CASE PostRefused(f)
  <2>1. pc[f] # "idle" /\ UNCHANGED <<continuation, runtime, wire, local>>
    BY <1>3 DEF PostRefused, docs
  <2>2. Decided' = Decided
    BY <1>3, StopRequested, StoreUntouched DEF PostRefused
  <2>3. Moves(f, "rejected")
    BY <1>0, <1>3, AwaitMoves, ContinueMoves DEF PostRefused, Label
  <2> QED
    BY <2>1, <2>2, <2>3, FrameLeaves DEF Elsewhere
<1>4. CASE PostFails(f)
  <2>1. pc[f] # "idle" /\ UNCHANGED <<continuation, runtime, wire, local>> /\ Decided' = Decided
    BY <1>4, StoreUntouched DEF PostFails, docs, memory
  <2>2. Moves(f, "rejected")
    BY <1>0, <1>4, TakesThread DEF PostFails, Label
  <2> QED
    BY <2>1, <2>2, FrameLeaves DEF Elsewhere
<1>5. CASE Answered(f)
  <2>1. pc[f] = "answer" /\ local[f].turn \in turns
    BY <1>5 DEF Answered
  <2>2. UNCHANGED <<continuation, runtime, wire, local>> /\ Decided' = Decided
    BY <1>5, StoreUntouched DEF Answered, docs
  <2>3. Moves(f, "commit")
    BY <1>0, <1>5, StartStopMoves, TakesThread DEF Answered, Label
  <2>4. FrameKnows(f)'
    BY <1>0, <2>1, <2>2, <2>3 DEF FrameKnows, Moves, Copied, Settled, wire
  <2> QED
    BY <2>1, <2>2, <2>3, <2>4, FrameStep DEF RecordInv, PlanTypeOK
<1>6. CASE Rejected(f)
  <2>1. pc[f] # "idle" /\ UNCHANGED <<continuation, runtime, wire, local>> /\ Decided' = Decided
    BY <1>6, StoreUntouched DEF Rejected, docs
  <2>2. CASE End(f, TRUE)
    BY <2>1, <2>2, FrameEnds
  <2>3. CASE StartStop(f, After(f, TRUE))
    <3> DEFINE at == After(f, TRUE)
    <3>1. at \in Elsewhere /\ at \in Label
      BY AfterLabel DEF Elsewhere, Label
    <3>2. StartStop(f, at)
      BY <2>3
    <3> HIDE DEF at
    <3>3. Moves(f, at)
      BY <1>0, <3>1, <3>2, StartStopMoves
    <3> QED
      BY <2>1, <3>1, <3>3, FrameLeaves
  <2> QED
    BY <1>6, <2>2, <2>3 DEF Rejected
<1>7. CASE Commit(f)
  <2>1. /\ pc[f] = "commit" /\ local[f].turn \in turns /\ local[f] \in Continuation
        /\ local[f].decision = Decided
    BY <1>0, <1>7 DEF Commit, FrameKnows, Settled, PlanTypeOK
  <2>2. UNCHANGED <<wire, local>> /\ Decided' = Decided
    BY <1>7, StoreUntouched DEF Commit, memory
  <2>3. Moves(f, "tail")
    BY <1>0, <1>7, ContinueMoves DEF Commit, Label
  <2>4. /\ continuation' \in Continuation /\ continuation'.status = "confirmed"
        /\ continuation'.decision = Decided /\ continuation'.turn = local[f].turn
        /\ runtime'.turn = local[f].turn /\ runtime' \in Runtime
    BY <1>7, <2>1 DEF Commit, CommitDocs, Continuation, Runtime
  <2>5. PlanTypeOK'
    BY <1>0, <2>2, <2>3, <2>4 DEF PlanTypeOK, Moves, wire
  <2>6. FrameKnows(f)'
    BY <2>1, <2>2, <2>3 DEF FrameKnows, Moves, Copied, Settled
  <2>7. \A g \in Frame : FrameKnows(g)'
    BY <1>0, <2>1, <2>3, <2>6, OthersIdle
  <2>8. WireInv'
    BY <1>0, <2>1, <2>2, <2>4 DEF WireInv, wire
  <2>9. RecoveryKnows'
    <3>1. pc'["boot"] # "reconcile"
      BY <2>1, <2>3, Names DEF Moves, OneFrame
    <3> QED
      BY <3>1 DEF RecoveryKnows
  <2>10. DispatchedIsRecorded'
    BY <2>1, <2>2, <2>4 DEF DispatchedIsRecorded, wire
  <2> QED
    BY <2>5, <2>7, <2>8, <2>9, <2>10 DEF RecordInv
<1> QED
  BY <1>1, <1>2, <1>3, <1>4, <1>5, <1>6, <1>7
(* Looking up what became of a dispatch, and the end of resumePlanDecision. *)
LEMMA FindingKeepsRecord ==
  ASSUME StoreTypeOK, RecordInv, OneFrame, NEW f \in Frame,
         \/ Find(f) \/ Found(f) \/ NotFound(f) \/ FindFails(f)
         \/ TailDeny(f) \/ TailAllow(f) \/ Arm(f)
  PROVE  RecordInv'
<1>0. PlanTypeOK /\ FrameKnows(f) /\ WireInv
  BY DEF RecordInv
<1>1. CASE Find(f)
  <2>1. pc[f] = "find"
    BY <1>1 DEF Find
  <2>2. UNCHANGED <<continuation, runtime, wire, local>> /\ Decided' = Decided
    BY <1>1, StoreUntouched DEF Find, docs
  <2>3. Moves(f, "found")
    BY <1>0, <1>1, AwaitMoves DEF Find, Label
  <2>4. FrameKnows(f)'
    BY <1>0, <2>1, <2>2, <2>3 DEF FrameKnows, Moves, Copied, Settled
  <2> QED
    BY <2>1, <2>2, <2>3, <2>4, FrameStep DEF RecordInv, PlanTypeOK
<1>2. CASE Found(f)
  <2>1. /\ pc[f] = "found" /\ local[f] = continuation /\ continuation.status = "dispatched"
        /\ local[f].decision = Decided
    BY <1>0, <1>2 DEF Found, FrameKnows, Copied, Settled
  <2>2. UNCHANGED <<continuation, runtime, wire>> /\ Decided' = Decided
    BY <1>2, StoreUntouched DEF Found, docs
  <2>3. Moves(f, "commit")
    BY <1>0, <1>2, TakesThread DEF Found, Label
  <2>4. PICK t \in turns : local' = [local EXCEPT ![f].turn = t]
    BY <1>2 DEF Found
  <2>5. /\ local' \in [Frame -> Continuation]
        /\ local'[f].turn = t /\ local'[f].decision = Decided
    <3>1. t \in Turn
      <4>1. sent \in {0, 1} /\ sent \in Turn /\ t \in 1..sent
        BY <1>0 DEF WireInv, PlanTypeOK
      <4> QED
        BY <4>1, PlanAssumption DEF Turn
    <3>2. [local[f] EXCEPT !.turn = t] \in Continuation
      BY <1>0, <3>1 DEF PlanTypeOK, Continuation
    <3> QED
      BY <1>0, <2>1, <2>4, <3>2 DEF PlanTypeOK, Continuation
  <2>6. FrameKnows(f)'
    BY <2>1, <2>2, <2>3, <2>5 DEF FrameKnows, Moves, Copied, Settled, wire
  <2> QED
    BY <2>1, <2>2, <2>3, <2>5, <2>6, FrameStep
<1>3. CASE NotFound(f) \/ FindFails(f)
  <2>1. /\ pc[f] # "idle" /\ End(f, TRUE)
        /\ UNCHANGED <<continuation, runtime, wire, local>> /\ Decided' = Decided
    BY <1>3, StoreUntouched DEF NotFound, FindFails, docs, memory
  <2> QED
    BY <2>1, FrameEnds
<1>4. CASE TailDeny(f)
  <2>1. /\ pc[f] # "idle" /\ End(f, FALSE)
        /\ UNCHANGED <<continuation, runtime, wire, local>> /\ Decided' = Decided
    BY <1>4, StoreUntouched DEF TailDeny
  <2> QED
    BY <2>1, FrameEnds
<1>5. CASE TailAllow(f) \/ Arm(f)
  <2>1. pc[f] # "idle" /\ UNCHANGED <<continuation, runtime, wire, local>>
    BY <1>5 DEF TailAllow, Arm, docs
  <2>2. \/ End(f, FALSE) /\ UNCHANGED storeVars
        \/ ExpireDeadline(f, "idle")
        \/ Await(f, "arm") /\ UNCHANGED storeVars
    BY <1>5 DEF TailAllow, Arm
  <2>3. CASE End(f, FALSE) /\ UNCHANGED storeVars
    BY <2>1, <2>3, FrameEnds, StoreUntouched
  <2>4. CASE ExpireDeadline(f, "idle")
    BY <1>0, <2>1, <2>4, ExpireMoves, FrameLeaves DEF Label, Elsewhere
  <2>5. CASE Await(f, "arm") /\ UNCHANGED storeVars
    BY <1>0, <2>1, <2>5, AwaitMoves, StoreUntouched, FrameLeaves DEF Label, Elsewhere
  <2> QED
    BY <2>2, <2>3, <2>4, <2>5
<1> QED
  BY <1>1, <1>2, <1>3, <1>4, <1>5

LEMMA ResumeKeepsRecord ==
  ASSUME StoreTypeOK, RecordInv, OneFrame, NEW f \in Frame, Resume(f)
  PROVE  RecordInv'
  BY ResumingKeepsRecord, RecordingKeepsRecord, DispatchKeepsRecord, FindingKeepsRecord
     DEF Resume

(* A step that moves no frame, and leaves the decision, its copies and the *)
(* wire as they are.                                                       *)
LEMMA FramesRest ==
  ASSUME RecordInv, pc' \in [Frame \cup {"stop"} -> Label],
         \A g \in Frame : pc'[g] = pc[g],
         UNCHANGED <<continuation, local, wire, dispatching>>,
         runtime' \in Runtime, runtime'.turn = runtime.turn, Decided' = Decided
  PROVE  RecordInv'
<1>1. PlanTypeOK'
  BY DEF RecordInv, PlanTypeOK, wire
<1>2. \A g \in Frame : FrameKnows(g)'
  BY DEF RecordInv, FrameKnows, wire
<1>3. WireInv'
  BY DEF RecordInv, WireInv, wire
<1>4. RecoveryKnows'
  BY Names DEF RecordInv, RecoveryKnows
<1>5. DispatchedIsRecorded'
  BY DEF RecordInv, DispatchedIsRecorded, wire
<1> QED
  BY <1>1, <1>2, <1>3, <1>4, <1>5 DEF RecordInv
(* A step of the stop moves no frame. *)
LEMMA StopMoves ==
  ASSUME PlanTypeOK, NEW at \in Label, pc' = [pc EXCEPT !["stop"] = at]
  PROVE  /\ pc' \in [Frame \cup {"stop"} -> Label]
         /\ pc'["stop"] = at
         /\ \A g \in Frame : pc'[g] = pc[g]
  BY Names DEF PlanTypeOK

LEMMA StopKeepsRecord ==
  ASSUME StoreTypeOK, RecordInv, Stop
  PROVE  RecordInv'
<1>0. PlanTypeOK
  BY DEF RecordInv
<1>1. UNCHANGED <<continuation, local, wire, dispatching>> /\ Decided' = Decided
  BY StoreUntouched, RunCanceled DEF Stop, Revoke, Blocked, Account, CleanupDone, CleanupFails,
     Settle, FinishStop, ClearStopError, docs, memory
<1>2. runtime' \in Runtime /\ runtime'.turn = runtime.turn
  <2>1. runtime' = runtime \/ runtime' = [runtime EXCEPT !.status = "error"]
    BY DEF Stop, Revoke, Blocked, Account, CleanupDone, CleanupFails,
       Settle, FinishStop, ClearStopError, docs
  <2> QED
    BY <1>0, <2>1 DEF PlanTypeOK, Runtime
<1>3. \/ pc' = [pc EXCEPT !["stop"] = "idle"]
      \/ pc' = [pc EXCEPT !["stop"] = "account"]
      \/ pc' = [pc EXCEPT !["stop"] = "cleanup"]
      \/ pc' = [pc EXCEPT !["stop"] = "settle"]
      \/ pc' = [pc EXCEPT !["stop"] = "cancel"]
      \/ pc' = [pc EXCEPT !["stop"] = "clear"]
  BY DEF Stop, Revoke, Blocked, Account, CleanupDone, CleanupFails,
     Settle, FinishStop, ClearStopError, YieldStop, Continue
<1>4. {"idle", "account", "cleanup", "settle", "cancel", "clear"} \subseteq Label
  BY DEF Label
<1>5. PICK at \in Label : pc' = [pc EXCEPT !["stop"] = at]
  BY <1>3, <1>4
<1> QED
  BY <1>0, <1>1, <1>2, <1>5, StopMoves, FramesRest

(* A call of decidePlan begins: it copies what is stored, or prepares what *)
(* is to be stored.                                                        *)
LEMMA FrameStarts ==
  ASSUME RecordInv, NEW f \in Frame, NEW at, Moves(f, at), at # "reconcile",
         local' \in [Frame -> Continuation], \A g \in Frame \ {f} : local'[g] = local[g],
         UNCHANGED <<continuation, runtime, wire, dispatching>>, Decided' = Decided,
         FrameKnows(f)'
  PROVE  RecordInv'
<1>1. PlanTypeOK'
  BY DEF RecordInv, PlanTypeOK, Moves, wire
<1>2. \A g \in Frame \ {f} : FrameKnows(g)'
  BY DEF RecordInv, FrameKnows, Moves, wire
<1>3. WireInv'
  BY DEF RecordInv, WireInv, wire
<1>4. RecoveryKnows'
  BY Names DEF RecordInv, RecoveryKnows, Moves
<1>5. DispatchedIsRecorded'
  BY DEF RecordInv, DispatchedIsRecorded, wire
<1> QED
  BY <1>1, <1>2, <1>3, <1>4, <1>5 DEF RecordInv

LEMMA OwnerKeepsRecord ==
  ASSUME StoreTypeOK, RecordInv, OneFrame, Owner
  PROVE  RecordInv'
<1>0. PlanTypeOK /\ WireInv /\ DispatchedIsRecorded
  BY DEF RecordInv
<1>1. ASSUME NEW c \in Caller, NEW d \in Decision, NEW b \in Binding, DecideFirst(c, d, b)
      PROVE  RecordInv'
  <2>1. c \in Frame /\ continuation.status = "none"
    BY <1>1, Names DEF DecideFirst
  <2>2. UNCHANGED <<continuation, runtime, wire, dispatching>> /\ Decided' = Decided
    BY <1>1, StoreUntouched DEF DecideFirst, docs
  <2>3. Moves(c, "inspect")
    BY <1>0, <1>1, <2>1, AwaitMoves DEF DecideFirst, Label
  <2>4. /\ local' \in [Frame -> Continuation] /\ local'[c].status = "prepared"
        /\ \A g \in Frame \ {c} : local'[g] = local[g]
    <3> DEFINE new == [status |-> "prepared", decision |-> d, binding |-> b, turn |-> 0]
    <3>1. new \in Continuation
      BY PlanAssumption DEF Continuation, Turn
    <3>2. local' = [local EXCEPT ![c] = new] /\ new.status = "prepared"
      BY <1>1 DEF DecideFirst
    <3> HIDE DEF new
    <3> QED
      BY <1>0, <2>1, <3>1, <3>2 DEF PlanTypeOK
  <2>5. FrameKnows(c)'
    BY <2>1, <2>2, <2>3, <2>4 DEF FrameKnows, Moves, Copied, Settled
  <2> QED
    BY <2>1, <2>2, <2>3, <2>4, <2>5, FrameStarts
<1>2. ASSUME NEW c \in Caller, DecideAgain(c) PROVE RecordInv'
  <2>1. c \in Frame
    BY Names
  <2>2. UNCHANGED <<continuation, runtime, wire, dispatching>> /\ Decided' = Decided
    BY <1>2, StoreUntouched DEF DecideAgain, docs
  <2>3. Moves(c, "resume")
    BY <1>0, <1>2, <2>1, TakesThread DEF DecideAgain, Label
  <2>4. /\ local' \in [Frame -> Continuation] /\ local'[c] = continuation
        /\ \A g \in Frame \ {c} : local'[g] = local[g]
    BY <1>0, <1>2, <2>1 DEF DecideAgain, PlanTypeOK
  <2>5. FrameKnows(c)'
    BY <2>2, <2>3, <2>4 DEF FrameKnows, Moves, Copied, Settled
  <2> QED
    BY <2>1, <2>2, <2>3, <2>4, <2>5, FrameStarts
<1>3. ASSUME NEW c \in Caller, InspectFails(c) PROVE RecordInv'
  <2>1. /\ c \in Frame /\ pc[c] # "idle" /\ End(c, TRUE)
        /\ UNCHANGED <<continuation, runtime, wire, local>> /\ Decided' = Decided
    BY <1>3, Names, StoreUntouched DEF InspectFails, docs
  <2> QED
    BY <2>1, FrameEnds
<1>4. ASSUME NEW c \in Caller, Prepare(c) PROVE RecordInv'
  <2>1. /\ c \in Frame /\ pc[c] = "inspect"
        /\ continuation.status = "none" /\ local[c].status = "prepared"
        /\ local[c] \in Continuation
    BY <1>0, <1>4, Names DEF Prepare, RecordInv, FrameKnows, PlanTypeOK
  <2>2. UNCHANGED <<runtime, wire, local, dispatching>> /\ Decided' = Decided
        /\ continuation' = local[c]
    BY <1>4, StoreUntouched DEF Prepare, docs, memory
  <2>3. Moves(c, "resume_inspected")
    BY <1>0, <1>4, <2>1, TakesThread DEF Prepare, Label
  <2>4. PlanTypeOK'
    BY <1>0, <2>1, <2>2, <2>3 DEF PlanTypeOK, Moves, wire
  <2>5. FrameKnows(c)'
    BY <2>1, <2>2, <2>3 DEF FrameKnows, Moves, Copied, Settled
  <2>6. \A g \in Frame : FrameKnows(g)'
    BY <1>0, <2>1, <2>3, <2>5, OthersIdle
  <2>7. WireInv'
    BY <1>0, <2>1, <2>2 DEF WireInv, wire
  <2>8. RecoveryKnows'
    BY <2>1, <2>3, Names DEF RecoveryKnows, Moves, OneFrame
  <2>9. DispatchedIsRecorded'
    BY <1>0, <2>1, <2>2 DEF DispatchedIsRecorded
  <2> QED
    BY <2>4, <2>6, <2>7, <2>8, <2>9 DEF RecordInv
<1>5. CASE Cancel
  <2>1. /\ UNCHANGED <<continuation, runtime, wire, local, dispatching>>
        /\ pc' = [pc EXCEPT !["stop"] = "revoke"]
    BY <1>5 DEF Cancel, docs
  <2>2. Decided' = Decided
    BY <1>5, StopRequested, StoreUntouched DEF Cancel
  <2> QED
    BY <1>0, <2>1, <2>2, StopMoves, FramesRest DEF Label, PlanTypeOK
<1> QED
  BY <1>1, <1>2, <1>3, <1>4, <1>5 DEF Owner

LEMMA OthersKeepRecord ==
  ASSUME StoreTypeOK, RecordInv, OneFrame,
         \/ WatchdogFires \/ Complete \/ Crash \/ RuntimeAccepts \/ TimePasses
         \/ UNCHANGED planVars
  PROVE  RecordInv'
<1>0. PlanTypeOK /\ WireInv /\ DispatchedIsRecorded
  BY DEF RecordInv
<1>1. CASE WatchdogFires
  <2>1. UNCHANGED <<continuation, runtime, wire, local, dispatching>> /\ Decided' = Decided
    BY <1>1, StopRequested DEF WatchdogFires, docs
  <2>2. pc' = pc \/ pc' = [pc EXCEPT !["stop"] = "revoke"]
    BY <1>1 DEF WatchdogFires
  <2> QED
    BY <1>0, <2>1, <2>2, StopMoves, FramesRest DEF Label, PlanTypeOK
<1>2. CASE Complete
  <2>1. /\ UNCHANGED <<continuation, wire, pc, local, dispatching>>
        /\ runtime' \in Runtime /\ runtime'.turn = runtime.turn
    BY <1>0, <1>2 DEF Complete, thread, memory, PlanTypeOK, Runtime
  <2>2. Decided' = Decided
    BY <1>2, RunFinished DEF Complete
  <2> QED
    BY <1>0, <2>1, <2>2, FramesRest DEF PlanTypeOK
<1>3. CASE Crash
  <2>1. UNCHANGED <<continuation, runtime, wire>> /\ Decided' = Decided
    BY <1>3, StoreUntouched DEF Crash, docs
  <2>2. /\ pc' = [f \in Frame \cup {"stop"} |-> "idle"]
        /\ local' = [f \in Frame |-> NoContinuation]
    BY <1>3 DEF Crash
  <2>3. NoContinuation \in Continuation
    BY PlanAssumption DEF NoContinuation, Continuation, Decision, Turn
  <2>4. PlanTypeOK'
    BY <1>0, <2>1, <2>2, <2>3 DEF PlanTypeOK, wire, Label
  <2>5. \A g \in Frame : FrameKnows(g)'
    BY <2>2 DEF FrameKnows, Copied, Settled
  <2>6. RecoveryKnows' /\ WireInv' /\ DispatchedIsRecorded'
    BY <1>0, <2>1, <2>2, Names DEF RecoveryKnows, WireInv, DispatchedIsRecorded, wire
  <2> QED
    BY <2>4, <2>5, <2>6 DEF RecordInv
<1>4. CASE RuntimeAccepts
  <2>1. PICK n \in net : net' = net \ {n} /\ turns' = turns \cup {n}
    BY <1>4 DEF RuntimeAccepts
  <2>2. UNCHANGED <<continuation, runtime, sent, pc, local, dispatching>> /\ Decided' = Decided
    BY <1>4, StoreUntouched DEF RuntimeAccepts, docs, thread, memory
  <2>3. PlanTypeOK' /\ RecoveryKnows' /\ DispatchedIsRecorded'
    BY <1>0, <2>1, <2>2 DEF PlanTypeOK, RecordInv, RecoveryKnows, DispatchedIsRecorded
  <2>4. WireInv'
    BY <1>0, <2>1, <2>2 DEF WireInv
  <2>5. \A g \in Frame : FrameKnows(g)'
    BY <2>1, <2>2 DEF RecordInv, FrameKnows
  <2> QED
    BY <2>3, <2>4, <2>5 DEF RecordInv
<1>5. CASE TimePasses
  BY <1>0, <1>5, TickEffect, FramesRest DEF TimePasses, docs, thread, memory, PlanTypeOK
<1>6. CASE UNCHANGED planVars
  BY <1>0, <1>6, StoreUntouched, FramesRest DEF planVars, docs, thread, memory, PlanTypeOK
<1> QED
  BY <1>1, <1>2, <1>3, <1>4, <1>5, <1>6
(* Committing what is confirmed already changes nothing. *)
LEMMA ConfirmedAgain ==
  ASSUME NEW c \in Continuation, c.status = "confirmed"
  PROVE  [c EXCEPT !.status = "confirmed", !.turn = c.turn] = c
  BY DEF Continuation

(* The worker starts again: recovery reads the stored decision, looks up   *)
(* what became of a dispatched one and resumes a pending one.              *)
LEMMA RecoverKeepsRecord ==
  ASSUME StoreTypeOK, RecordInv, OneFrame, Recover
  PROVE  RecordInv'
<1>0. PlanTypeOK /\ WireInv /\ DispatchedIsRecorded /\ "boot" \in Frame
  BY Names DEF RecordInv
<1>1. CASE Boot
  <2>1. UNCHANGED <<continuation, runtime, wire, local, dispatching>> /\ Decided' = Decided
    BY <1>1, StoreUntouched DEF Boot, docs, memory
  <2>2. Moves("boot", "recover")
    BY <1>0, <1>1, TakesThread DEF Boot, Label
  <2>3. FrameKnows("boot")'
    BY <2>2 DEF FrameKnows, Moves, Copied, Settled
  <2> QED
    BY <1>0, <2>1, <2>2, <2>3, FrameStarts DEF PlanTypeOK
<1>2. CASE RecoverStopping
  <2>1. pc["boot"] = "recover" /\ UNCHANGED <<continuation, wire, local, dispatching>>
        /\ Decided' = Decided
    BY <1>2, StoreUntouched DEF RecoverStopping, Recovering, memory
  <2>2. CASE continuation.status = "dispatched"
    <3>1. runtime' = runtime /\ Moves("boot", "reconcile")
      BY <1>0, <1>2, <2>2, AwaitMoves DEF RecoverStopping, Label
    <3>2. PlanTypeOK'
      BY <1>0, <2>1, <3>1 DEF PlanTypeOK, Moves, wire
    <3>3. FrameKnows("boot")'
      BY <3>1 DEF FrameKnows, Moves, Copied, Settled
    <3>4. \A g \in Frame : FrameKnows(g)'
      BY <1>0, <2>1, <3>1, <3>3, OthersIdle
    <3>5. WireInv' /\ RecoveryKnows' /\ DispatchedIsRecorded'
      BY <1>0, <2>1, <2>2, <3>1 DEF WireInv, RecoveryKnows, DispatchedIsRecorded, wire
    <3> QED
      BY <3>2, <3>4, <3>5 DEF RecordInv
  <2>3. CASE continuation.status # "dispatched"
    <3>1. Moves("boot", "stop_recovered")
      BY <1>0, <1>2, <2>3, ContinueMoves DEF RecoverStopping, Label
    <3>2. \/ runtime' = runtime
          \/ /\ continuation.status = "confirmed" /\ continuation.decision = "allow"
             /\ runtime'.turn = continuation.turn /\ runtime' \in Runtime
      BY <1>0, <1>2, <2>3 DEF RecoverStopping, PlanTypeOK, Continuation, Runtime
    <3>3. PlanTypeOK'
      BY <1>0, <2>1, <3>1, <3>2 DEF PlanTypeOK, Moves, wire
    <3>4. FrameKnows("boot")'
      BY <3>1 DEF FrameKnows, Moves, Copied, Settled
    <3>5. \A g \in Frame : FrameKnows(g)'
      BY <1>0, <2>1, <3>1, <3>4, OthersIdle
    <3>6. WireInv' /\ RecoveryKnows'
      BY <1>0, <2>1, <3>1 DEF WireInv, RecoveryKnows, Moves, wire
    <3>7. DispatchedIsRecorded'
      BY <1>0, <2>1, <3>2 DEF DispatchedIsRecorded, WireInv, wire
    <3> QED
      BY <3>3, <3>5, <3>6, <3>7 DEF RecordInv
  <2> QED
    BY <2>2, <2>3
<1>3. CASE RecoverStoppingFails
  <2>1. pc["boot"] # "idle" /\ UNCHANGED <<continuation, runtime, wire, local>>
        /\ Decided' = Decided
    BY <1>3, StoreUntouched DEF RecoverStoppingFails, Recovering, memory
  <2>2. Moves("boot", "recovered")
    BY <1>0, <1>3, ContinueMoves DEF RecoverStoppingFails, Label
  <2> QED
    BY <1>0, <2>1, <2>2, FrameLeaves DEF Elsewhere
<1>4. CASE Reconcile
  <2>1. /\ pc["boot"] = "reconcile" /\ continuation.status = "dispatched"
        /\ continuation \in Continuation /\ runtime.turn = 0
    BY <1>0, <1>4 DEF Reconcile, RecordInv, RecoveryKnows, PlanTypeOK, DispatchedIsRecorded
  <2>2. UNCHANGED <<wire, local>> /\ Decided' = Decided
    BY <1>4, StoreUntouched DEF Reconcile, memory
  <2>3. Moves("boot", "stop_recovered")
    BY <1>0, <1>4, TakesThread DEF Reconcile, Label
  <2>4. /\ continuation' \in Continuation /\ continuation'.decision = continuation.decision
        /\ \/ /\ continuation'.status = "confirmed" /\ continuation'.turn \in turns
              /\ runtime'.turn = continuation'.turn
           \/ continuation'.status = "unknown" /\ runtime' = runtime
        /\ runtime' \in Runtime
    <3>1. ASSUME NEW t \in turns,
                 continuation' = [continuation EXCEPT !.status = "confirmed", !.turn = t],
                 runtime' = IF runtime.turn \in {0, t}
                            THEN [turn |-> t, status |-> "error"] ELSE runtime
          PROVE  /\ continuation' \in Continuation
                 /\ continuation'.decision = continuation.decision
                 /\ continuation'.status = "confirmed" /\ continuation'.turn \in turns
                 /\ runtime'.turn = continuation'.turn /\ runtime' \in Runtime
      <4>1. sent \in {0, 1} /\ sent \in Turn /\ t \in 1..sent
        BY <1>0 DEF WireInv, PlanTypeOK
      <4>2. t \in Turn
        BY <4>1, PlanAssumption DEF Turn
      <4> QED
        BY <2>1, <3>1, <4>2 DEF Continuation, Runtime
    <3>2. ASSUME continuation' = [continuation EXCEPT !.status = "unknown"]
          PROVE  /\ continuation' \in Continuation
                 /\ continuation'.decision = continuation.decision
                 /\ continuation'.status = "unknown"
      BY <2>1, <3>2 DEF Continuation
    <3> QED
      BY <1>0, <1>4, <3>1, <3>2 DEF Reconcile, PlanTypeOK
  <2>5. PlanTypeOK'
    BY <1>0, <2>2, <2>3, <2>4 DEF PlanTypeOK, Moves, wire
  <2>6. FrameKnows("boot")'
    BY <2>3 DEF FrameKnows, Moves, Copied, Settled
  <2>7. \A g \in Frame : FrameKnows(g)'
    BY <1>0, <2>1, <2>3, <2>6, OthersIdle
  <2>8. WireInv' /\ RecoveryKnows'
    BY <1>0, <2>2, <2>3, <2>4 DEF WireInv, RecoveryKnows, Moves, wire
  <2>9. DispatchedIsRecorded'
    BY <1>0, <2>1, <2>2, <2>4 DEF DispatchedIsRecorded, wire
  <2> QED
    BY <2>5, <2>7, <2>8, <2>9 DEF RecordInv
<1>5. CASE RecoverStop
  <2>1. pc["boot"] # "idle" /\ UNCHANGED <<continuation, runtime, wire, local>>
        /\ Decided' = Decided
    BY <1>5, StoreUntouched DEF RecoverStop, Recovering, docs, memory
  <2>2. Moves("boot", "recovered")
    BY <1>0, <1>5, StartStopMoves DEF RecoverStop, Label
  <2> QED
    BY <1>0, <2>1, <2>2, FrameLeaves DEF Elsewhere
<1>6. CASE RecoverConfirmed
  <2>1. /\ pc["boot"] = "recover" /\ continuation.status = "confirmed"
        /\ continuation \in Continuation /\ continuation.turn \in turns
    BY <1>0, <1>6 DEF RecoverConfirmed, Recovering, WireInv, PlanTypeOK
  <2>2. UNCHANGED <<wire, local>> /\ Decided' = Decided
    BY <1>6, StoreUntouched DEF RecoverConfirmed, memory
  <2>3. Moves("boot", "recover_rest")
    BY <1>0, <1>6, ContinueMoves DEF RecoverConfirmed, Label
  <2>4. /\ continuation' = continuation
        /\ runtime' \in Runtime
        /\ runtime' = runtime \/ runtime'.turn = continuation.turn
    <3>1. CASE UNCHANGED <<continuation, runtime>>
      BY <1>0, <3>1 DEF PlanTypeOK
    <3>2. CASE CommitDocs(continuation, continuation.turn)
      <4>1. continuation' = continuation
        BY <2>1, <3>2, ConfirmedAgain DEF CommitDocs
      <4>2. runtime' \in Runtime /\ runtime'.turn = continuation.turn
        BY <2>1, <3>2 DEF CommitDocs, Continuation, Runtime
      <4> QED
        BY <4>1, <4>2
    <3> QED
      BY <1>6, <3>1, <3>2 DEF RecoverConfirmed
  <2>5. PlanTypeOK'
    BY <1>0, <2>2, <2>3, <2>4 DEF PlanTypeOK, Moves, wire
  <2>6. FrameKnows("boot")'
    BY <2>3 DEF FrameKnows, Moves, Copied, Settled
  <2>7. \A g \in Frame : FrameKnows(g)'
    BY <1>0, <2>1, <2>3, <2>6, OthersIdle
  <2>8. WireInv' /\ RecoveryKnows' /\ DispatchedIsRecorded'
    BY <1>0, <2>1, <2>2, <2>3, <2>4 DEF WireInv, RecoveryKnows, DispatchedIsRecorded, Moves, wire
  <2> QED
    BY <2>5, <2>7, <2>8 DEF RecordInv
<1>7. CASE RecoverPending
  <2>1. pc["boot"] = "recover" /\ UNCHANGED <<continuation, runtime, wire, dispatching>>
        /\ Decided' = Decided
    BY <1>7, StoreUntouched DEF RecoverPending, Recovering, docs
  <2>2. Moves("boot", "resume")
    BY <1>0, <1>7, ContinueMoves DEF RecoverPending, Label
  <2>3. local' \in [Frame -> Continuation] /\ local'["boot"] = continuation
    BY <1>0, <1>7 DEF RecoverPending, PlanTypeOK
  <2>4. FrameKnows("boot")'
    BY <2>1, <2>2, <2>3 DEF FrameKnows, Moves, Copied, Settled
  <2> QED
    BY <1>0, <2>1, <2>2, <2>3, <2>4, FrameStep
<1>8. CASE RecoverUndecided
  <2>1. pc["boot"] # "idle" /\ UNCHANGED <<continuation, runtime, wire, local>>
        /\ Decided' = Decided
    BY <1>8, StoreUntouched DEF RecoverUndecided, Recovering, docs, memory
  <2>2. Moves("boot", "recover_rest")
    BY <1>0, <1>8, ContinueMoves DEF RecoverUndecided, Label
  <2> QED
    BY <1>0, <2>1, <2>2, FrameLeaves DEF Elsewhere
<1>9. CASE RecoveryFailed \/ RecoveryRevokes
  <2>1. /\ pc["boot"] # "idle" /\ UNCHANGED <<continuation, wire, local>>
        /\ runtime' \in Runtime /\ runtime'.turn = runtime.turn /\ Decided' = Decided
    BY <1>0, <1>9, StoreUntouched
       DEF RecoveryFailed, RecoveryRevokes, Recovering, memory, PlanTypeOK, Runtime
  <2>2. Moves("boot", "revoke") \/ Moves("boot", "recovered")
    BY <1>0, <1>9, ContinueMoves DEF RecoveryFailed, RecoveryRevokes, Label
  <2>3. PlanTypeOK'
    BY <1>0, <2>1, <2>2 DEF PlanTypeOK, Moves, wire
  <2>4. FrameKnows("boot")'
    BY <2>2 DEF FrameKnows, Moves, Copied, Settled
  <2>5. \A g \in Frame : FrameKnows(g)'
    BY <1>0, <2>1, <2>2, <2>4, OthersIdle
  <2>6. WireInv' /\ RecoveryKnows' /\ DispatchedIsRecorded'
    BY <1>0, <2>1, <2>2 DEF WireInv, RecoveryKnows, DispatchedIsRecorded, Moves, wire
  <2> QED
    BY <2>3, <2>5, <2>6 DEF RecordInv
<1>10. CASE RecoverEnded \/ RecoverExpired
  <2>1. pc["boot"] # "idle" /\ UNCHANGED <<continuation, runtime, wire, local>>
    BY <1>10 DEF RecoverEnded, RecoverExpired, Recovering, docs, memory
  <2>2. Moves("boot", "recovered") /\ Decided' = Decided
    BY <1>0, <1>10, ContinueMoves, ExpireMoves, StoreUntouched DEF RecoverEnded,
       RecoverExpired, Label
  <2> QED
    BY <1>0, <2>1, <2>2, FrameLeaves DEF Elsewhere
<1>11. CASE RecoverBinding
  <2>1. pc["boot"] # "idle" /\ UNCHANGED <<continuation, runtime, wire, local, dispatching>>
        /\ Decided' = Decided
    BY <1>11, StoreUntouched DEF RecoverBinding, Recovering, docs, memory
  <2>2. Moves("boot", "binding")
    BY <1>0, <1>11, AwaitMoves DEF RecoverBinding, Label
  <2> QED
    BY <1>0, <2>1, <2>2, FrameLeaves DEF Elsewhere
<1>12. CASE BindingBlocked
  <2>1. pc["boot"] # "idle" /\ UNCHANGED <<continuation, runtime, wire, local>>
        /\ Decided' = Decided
    BY <1>12, StoreUntouched DEF BindingBlocked, docs
  <2>2. Moves("boot", "recovery_failed")
    BY <1>0, <1>12, TakesThread DEF BindingBlocked, Label
  <2> QED
    BY <1>0, <2>1, <2>2, FrameLeaves DEF Elsewhere
<1>13. CASE BindingReady
  <2>1. pc["boot"] # "idle" /\ UNCHANGED <<continuation, runtime, wire, local>>
    BY <1>13 DEF BindingReady, docs
  <2>2. Decided' = Decided
    BY <1>13, StoreUntouched, StopRequested DEF BindingReady
  <2>3. Moves("boot", "recovered")
    BY <1>0, <1>13, TakesThread, StartStopMoves DEF BindingReady, Label
  <2> QED
    BY <1>0, <2>1, <2>2, <2>3, FrameLeaves DEF Elsewhere
<1>14. CASE Recovered
  <2>1. pc["boot"] # "idle" /\ UNCHANGED <<continuation, runtime, wire, local, dispatching>>
        /\ Decided' = Decided
    BY <1>14, StoreUntouched DEF Recovered, Recovering, docs, memory
  <2>2. CASE pc' = [pc EXCEPT !["boot"] = "idle"]
    BY <1>0, <2>1, <2>2, TakesThread, FrameLeaves DEF Elsewhere, Label
  <2>3. CASE pc' = pc
    BY <1>0, <2>1, <2>3, FramesRest DEF PlanTypeOK
  <2> QED
    BY <1>14, <2>2, <2>3 DEF Recovered
<1>15. CASE RecoveryResumes
  BY <1>0, <1>15, StoreUntouched, FramesRest DEF RecoveryResumes, docs, memory, PlanTypeOK
<1> QED
  BY <1>1, <1>2, <1>3, <1>4, <1>5, <1>6, <1>7, <1>8, <1>9, <1>10, <1>11, <1>12, <1>13,
     <1>14, <1>15 DEF Recover

(* The record is kept by every step of the worker and of the runtime. *)
LEMMA RecordStep ==
  ASSUME StoreTypeOK, RecordInv, OneFrame, [PlanNext]_planVars
  PROVE  RecordInv'
  BY ResumeKeepsRecord, StopKeepsRecord, OwnerKeepsRecord, OthersKeepRecord,
     RecoverKeepsRecord DEF PlanNext
LEMMA PlanStoreInit == PlanInit => StoreInv
<1> SUFFICES ASSUME PlanInit PROVE StoreInv
  OBVIOUS
<1>1. /\ runs \in [RunId -> Run]
      /\ \A r \in RunId : /\ runs[r].status = "awaiting_plan_approval" /\ runs[r].active = TRUE
                          /\ runs[r].decision = "pending" /\ runs[r].startedAt = None
  <2> DEFINE waiting == [NoRun EXCEPT !.status = "awaiting_plan_approval", !.active = TRUE,
                                      !.expiresAt = ApprovalMs]
  <2>1. /\ waiting \in Run
        /\ waiting.status = "awaiting_plan_approval" /\ waiting.active = TRUE
        /\ waiting.decision = "pending" /\ waiting.startedAt = None
    BY StoreAssumption DEF NoRun, Run, RunStatus, Live, Time, None, Outcome, Verdict
  <2>2. runs = [r \in RunId |-> waiting]
    BY DEF PlanInit
  <2> HIDE DEF waiting
  <2> QED
    BY <2>1, <2>2
<1>2. grants = {} /\ now = 0
  BY DEF PlanInit
<1>3. StoreTypeOK
  BY <1>1, <1>2 DEF PlanInit, StoreTypeOK, NoOperation, Operation, NoCredit, Credit, Grant,
     Time, None
<1>4. \A r \in RunId : runs[r].status \in Live
  BY <1>1 DEF Live
<1>5. ActiveColumn /\ DecisionOfStatus /\ OneActiveRunPerProject
  BY <1>1, <1>4, PlanAssumption DEF ActiveColumn, DecisionOfStatus, OneActiveRunPerProject
<1>6. GrantsAccounted /\ AtMostOneGrant /\ ElapsedNeverNegative
  BY <1>1, <1>2 DEF GrantsAccounted, AtMostOneGrant, ElapsedNeverNegative
<1> QED
  BY <1>3, <1>5, <1>6 DEF StoreInv

LEMMA RecordInit == PlanInit => RecordInv
<1> SUFFICES ASSUME PlanInit PROVE RecordInv
  OBVIOUS
<1>1. PlanTypeOK
  BY PlanAssumption DEF PlanInit, PlanTypeOK, NoContinuation, Continuation, Decision, Turn,
     Runtime, Label
<1>2. \A f \in Frame : pc[f] = "idle"
  BY DEF PlanInit
<1>3. \A f \in Frame : FrameKnows(f)
  BY <1>2 DEF FrameKnows, Copied, Settled
<1>4. WireInv /\ RecoveryKnows /\ DispatchedIsRecorded
  BY <1>2, Names DEF PlanInit, WireInv, RecoveryKnows, DispatchedIsRecorded, NoContinuation
<1> QED
  BY <1>1, <1>3, <1>4 DEF RecordInv

(* The tables of the store keep their invariant under the worker, too: the *)
(* plan's steps are transactions the store allows.                         *)
LEMMA RecordInvariant == PlanSpec /\ []OneFrame => [](StoreInv /\ RecordInv)
<1>1. StoreInv /\ RecordInv /\ OneFrame /\ [PlanNext]_planVars => (StoreInv /\ RecordInv)'
  BY PlanStoreStep, StoreInvStep, RecordStep DEF StoreInv, RecordInv
<1> QED
  BY <1>1, PlanStoreInit, RecordInit, PTL DEF PlanSpec

(* The decision the runtime may have seen is the one the run records, and  *)
(* the runtime's cursor only ever points at a turn that exists and that    *)
(* the stored continuation confirms: over crashes, lost answers and        *)
(* repeated calls.                                                         *)
THEOREM DecisionRecorded == PlanSpec /\ []OneFrame => []DispatchedIsRecorded
  BY RecordInvariant, PTL DEF RecordInv

(* The runtime is asked at most once to act on a plan decision, as long as *)
(* the calls do not overlap; two calls that do may ask twice, which is     *)
(* what the run MCPlanTwice shows.                                         *)
THEOREM DispatchedOnce == PlanSpec /\ []OneFrame => []DecisionDispatchedOnce
<1>1. RecordInv => DecisionDispatchedOnce
  BY DEF RecordInv, WireInv, DecisionDispatchedOnce
<1> QED
  BY <1>1, RecordInvariant, PTL
-----------------------------------------------------------------------------
(* The refinement *)

(* Each step that touches the stored decision, the requests or the turns   *)
(* is the step of EffectOnce it stands for; all others leave the effect    *)
(* alone.                                                                  *)
LEMMA EffectStep ==
  ASSUME StoreTypeOK, RecordInv, OneFrame, [PlanNext]_planVars
  PROVE  [Effect!EffectNext]_(Effect!effectVars)
<1> DEFINE Same == UNCHANGED <<continuation, sent, turns>>
<1>0. /\ PlanTypeOK /\ WireInv /\ RecoveryKnows /\ \A f \in Frame : FrameKnows(f)
      /\ "boot" \in Frame
  BY Names DEF RecordInv
<1>1. ASSUME Same PROVE UNCHANGED Effect!effectVars
  BY <1>1 DEF Effect!effectVars
<1>2. ASSUME NEW c \in Caller, Prepare(c) PROVE Effect!Prepare
  <2>1. continuation.status = "none" /\ local[c].status = "prepared"
    BY <1>0, <1>2, Names DEF Prepare, FrameKnows
  <2> QED
    BY <1>2, <2>1 DEF Prepare, Effect!Prepare, wire
<1>3. ASSUME NEW f \in Frame, Mark(f) PROVE Effect!Dispatch
  <2>1. /\ local[f] = continuation /\ continuation.status = "prepared"
        /\ continuation \in Continuation
    BY <1>0, <1>3 DEF Mark, FrameKnows, Copied, PlanTypeOK
  <2>2. continuation'.status = "dispatched"
    BY <1>3, <2>1 DEF Mark, Continuation
  <2> QED
    BY <1>3, <2>1, <2>2 DEF Mark, Effect!Dispatch, wire
<1>4. ASSUME NEW f \in Frame, Post(f) PROVE Effect!Issue
  <2>1. continuation.status = "dispatched" /\ sent = 0
    BY <1>0, <1>4 DEF Post, FrameKnows
  <2> QED
    BY <1>4, <2>1 DEF Post, Effect!Issue, docs
<1>5. ASSUME NEW f \in Frame, Commit(f) PROVE Effect!Confirm
  <2>1. continuation.status = "dispatched" /\ turns # {} /\ local[f] \in Continuation
    BY <1>0, <1>5 DEF Commit, FrameKnows, PlanTypeOK
  <2>2. continuation'.status = "confirmed"
    BY <1>5, <2>1 DEF Commit, CommitDocs, Continuation
  <2> QED
    BY <1>5, <2>1, <2>2 DEF Commit, Effect!Confirm, wire
<1>6. ASSUME NEW f \in Frame, Resume(f), ~ Mark(f), ~ Post(f), ~ Commit(f) PROVE Same
  BY <1>6 DEF Resume, ResumeRefused, ResumeStopped, ResumePrepared, ResumeSettled,
     Gate, Record, RecordRefused, WindowExpired, WindowOpen, Latest, PostRefused, PostFails,
     Answered, Rejected, Find, Found, NotFound, FindFails, TailDeny, TailAllow, Arm, docs, wire
<1>7. ASSUME Owner, \A c \in Caller : ~ Prepare(c) PROVE Same
  BY <1>7 DEF Owner, DecideFirst, DecideAgain, InspectFails, Cancel, docs, wire
<1>8. ASSUME Stop PROVE Same
  BY <1>8 DEF Stop, Revoke, Blocked, Account, CleanupDone, CleanupFails,
     Settle, FinishStop, ClearStopError, docs, wire
<1>9. CASE Reconcile
  <2>1. continuation.status = "dispatched" /\ continuation \in Continuation
    BY <1>0, <1>9 DEF Reconcile, RecoveryKnows, PlanTypeOK
  <2>2. \/ turns # {} /\ continuation'.status = "confirmed"
        \/ continuation'.status = "unknown"
    BY <1>9, <2>1 DEF Reconcile, Continuation
  <2> QED
    BY <1>9, <2>1, <2>2 DEF Reconcile, Effect!EffectNext, Effect!Confirm, Effect!GiveUp, wire
<1>10. CASE RecoverConfirmed
  <2>1. continuation.status = "confirmed" /\ continuation \in Continuation
    BY <1>0, <1>10 DEF RecoverConfirmed, PlanTypeOK
  <2>2. continuation' = continuation
    BY <1>10, <2>1, ConfirmedAgain DEF RecoverConfirmed, CommitDocs
  <2> QED
    BY <1>1, <1>10, <2>2 DEF RecoverConfirmed, wire
<1>11. ASSUME Recover, ~ Reconcile, ~ RecoverConfirmed PROVE Same
  BY <1>11 DEF Recover, Boot, RecoverStopping, RecoverStoppingFails, RecoverStop, RecoverPending,
     RecoverUndecided, RecoveryFailed, RecoveryRevokes, RecoverEnded, RecoverExpired,
     RecoverBinding, BindingBlocked, BindingReady, Recovered, RecoveryResumes, docs, wire
<1>12. CASE RuntimeAccepts
  <2>1. PICK n \in net : turns' = turns \cup {n}
    BY <1>12 DEF RuntimeAccepts
  <2>2. sent = 1 /\ n = 1 /\ turns \subseteq {1}
    BY <1>0 DEF WireInv
  <2> QED
    BY <1>12, <2>1, <2>2 DEF RuntimeAccepts, Effect!EffectNext, Effect!TakeEffect, docs
<1>13. ASSUME WatchdogFires \/ Complete \/ Crash \/ TimePasses \/ UNCHANGED planVars PROVE Same
  BY <1>13 DEF WatchdogFires, Complete, Crash, TimePasses, planVars, docs, wire
<1>14. ASSUME NEW f \in Frame, Resume(f) PROVE [Effect!EffectNext]_(Effect!effectVars)
  BY <1>1, <1>3, <1>4, <1>5, <1>6, <1>14 DEF Effect!EffectNext
<1>15. ASSUME Owner PROVE [Effect!EffectNext]_(Effect!effectVars)
  BY <1>1, <1>2, <1>7, <1>15 DEF Effect!EffectNext
<1>16. ASSUME Recover PROVE [Effect!EffectNext]_(Effect!effectVars)
  BY <1>1, <1>9, <1>10, <1>11, <1>16
<1> QED
  BY <1>1, <1>8, <1>12, <1>13, <1>14, <1>15, <1>16 DEF PlanNext

(* The plan decision implements EffectOnce: a stored intent before the     *)
(* request, at most one request, and a confirmation only of a turn that    *)
(* exists, over crashes, lost answers and repeated calls.                  *)
THEOREM DecisionImplementsEffect == PlanSpec /\ []OneFrame => DecisionIsOneEffect
<1>1. PlanInit => Effect!EffectInit
  BY DEF PlanInit, Effect!EffectInit, NoContinuation
<1>2. StoreInv /\ RecordInv /\ OneFrame /\ [PlanNext]_planVars
        => [Effect!EffectNext]_(Effect!effectVars)
  BY EffectStep DEF StoreInv
<1> QED
  BY <1>1, <1>2, RecordInvariant, PTL DEF PlanSpec, DecisionIsOneEffect, Effect!EffectSpec
-----------------------------------------------------------------------------
(* What a step of each frame does *)

Starting == pc["stop"] = "idle" /\ pc'["stop"] = "revoke" /\ Status' = "stopping"

(* The steps of a frame start the stop or leave it alone; only the request *)
(* itself leads to waiting for its answer, only a stored dispatch to the   *)
(* request, and only a recorded decision to the dispatch.                  *)
FrameMoves(f) ==
  /\ pc[f] # "idle" /\ UNCHANGED worker
  /\ pc[f] \in Works /\ pc'[f] # "inspect"
  /\ pc'[f] \in {"latest", "pending"} => Mark(f) \/ Latest(f)
  /\ pc'[f] \in {"window", "mark"} => Record(f) \/ WindowOpen(f)
  /\ \E at \in Label : Moves(f, at) /\ at # "recover"
  /\ pc'["stop"] = pc["stop"] \/ Starting
  /\ pc'[f] = "answer" => Post(f)

LEMMA ResumeMoves ==
  ASSUME StoreTypeOK, PlanTypeOK, NEW f \in Frame, Resume(f)
  PROVE  /\ FrameMoves(f)
         /\ pc[f] \notin {"recover", "reconcile", "stop_recovered"}
         /\ pc'[f] \notin {"recover", "reconcile", "stop_recovered"}
<1> DEFINE Goes(at) == /\ Moves(f, at)
                       /\ pc'["stop"] = pc["stop"] \/ Starting
                       /\ UNCHANGED worker
           Start == {"recover", "reconcile", "stop_recovered"}
<1>0. PlanTypeOK
  OBVIOUS
<1>2. pc[f] \notin Start \cup {"idle"} /\ pc[f] \in Works
  BY DEF Works, Copied, Settled, Resume, ResumeRefused, ResumeStopped, ResumePrepared,
     ResumeSettled, Resuming,
     Gate, Record, RecordRefused, WindowExpired, WindowOpen, Mark, Latest, Post, PostRefused,
     PostFails, Answered, Rejected, Commit, Find, Found, NotFound, FindFails, TailDeny,
     TailAllow, Arm
<1>3. UNCHANGED worker
  BY DEF Resume, ResumeRefused, ResumeStopped, ResumePrepared, ResumeSettled,
     Gate, Record, RecordRefused, WindowExpired, WindowOpen, Mark, Latest, Post, PostRefused,
     PostFails, Answered, Rejected, Commit, Find, Found, NotFound, FindFails, TailDeny,
     TailAllow, Arm, process
<1>4. ASSUME NEW error \in BOOLEAN, End(f, error)
      PROVE  \E at \in {"idle", "recovery_failed", "recover_rest"} : Goes(at)
  BY <1>0, <1>3, <1>4, EndMoves, AfterLabel
<1>5. ASSUME NEW at \in Label, Await(f, at) PROVE Goes(at)
  BY <1>0, <1>3, <1>5, AwaitMoves
<1>6. ASSUME NEW at \in Label, Continue(f, at) PROVE Goes(at)
  BY <1>0, <1>3, <1>6, ContinueMoves
<1>7. ASSUME NEW at \in Label, pc' = [pc EXCEPT ![f] = at] PROVE Goes(at)
  BY <1>0, <1>3, <1>7, TakesThread
<1>8. ASSUME NEW at \in Label, StartStop(f, at), Status = "stopping", UNCHANGED storeVars
      PROVE  Goes(at)
  BY <1>0, <1>3, <1>8, StartStopMoves, StoreUntouched DEF Starting
<1>9. ASSUME NEW at \in Label, ExpireDeadline(f, at) PROVE Goes(at)
  <2>1. Moves(f, at) /\ Status' = "stopping"
    BY <1>0, <1>9, ExpireMoves
  <2>2. pc'["stop"] = pc["stop"] \/ Starting
    <3>1. CASE dispatching
      BY <1>0, <1>9, <3>1, TakesThread DEF ExpireDeadline
    <3>2. CASE ~ dispatching
      BY <1>0, <1>9, <2>1, <3>2, StartStopMoves DEF ExpireDeadline, Starting
    <3> QED
      BY <3>1, <3>2
  <2> QED
    BY <1>3, <2>1, <2>2
<1> DEFINE Next == {"idle", "recovery_failed", "recover_rest", "decide", "gate", "window",
                    "mark", "find", "tail", "latest", "pending", "rejected", "commit",
                    "found", "arm"}
           Rest == Next \ {"window", "mark", "latest", "pending"}
<1>10. Next \subseteq Label /\ "answer" \in Label
  BY DEF Label
<1>11. \A error \in BOOLEAN : After(f, error) \in {"idle", "recovery_failed", "recover_rest"}
  BY AfterLabel
<1> HIDE DEF Goes
<1>12. ASSUME \/ ResumeRefused(f) \/ ResumeStopped(f) \/ RecordRefused(f) \/ NotFound(f)
              \/ FindFails(f) \/ TailDeny(f)
       PROVE  \E at \in Rest : Goes(at)
  <2>1. End(f, TRUE) \/ End(f, FALSE)
    BY <1>12 DEF ResumeRefused, ResumeStopped, RecordRefused, NotFound, FindFails, TailDeny
  <2> QED
    BY <1>4, <2>1
<1>13. ASSUME \/ ResumePrepared(f) \/ ResumeSettled(f)
              \/ PostRefused(f) \/ PostFails(f) \/ Commit(f) \/ Find(f) \/ Found(f)
       PROVE  \E at \in Rest : Goes(at)
  <2>1. \E at \in Rest : Continue(f, at) \/ Await(f, at) \/ pc' = [pc EXCEPT ![f] = at]
    BY <1>13 DEF ResumePrepared, ResumeSettled, PostRefused, PostFails, Commit, Find, Found
  <2> QED
    BY <1>5, <1>6, <1>7, <1>10, <2>1
<1>14. ASSUME Gate(f) PROVE \E at \in Rest : Goes(at)
  <2>1. \/ End(f, TRUE)
        \/ \E at \in Rest : Await(f, at) \/ pc' = [pc EXCEPT ![f] = at]
    BY <1>14 DEF Gate
  <2> QED
    BY <1>4, <1>5, <1>7, <1>10, <2>1
<1>15. ASSUME Record(f) PROVE \E at \in Next \ {"latest", "pending"} : Goes(at)
  <2>1. NextAfterDecide(f) \in Next \ {"latest", "pending"}
    BY DEF NextAfterDecide
  <2>2. Continue(f, NextAfterDecide(f))
    BY <1>15 DEF Record
  <2> QED
    BY <1>6, <1>10, <2>1, <2>2
<1>16. ASSUME WindowExpired(f) PROVE \E at \in Rest : Goes(at)
  <2>1. After(f, FALSE) \in Rest /\ ExpireDeadline(f, After(f, FALSE))
    BY <1>11, <1>16 DEF WindowExpired
  <2> QED
    BY <1>9, <1>10, <2>1
<1>17. ASSUME Answered(f) PROVE \E at \in Rest : Goes(at)
  <2>1. CASE Status = "stopping"
    BY <1>8, <1>10, <1>17, <2>1 DEF Answered
  <2>2. CASE Status # "stopping"
    BY <1>7, <1>10, <1>17, <2>2 DEF Answered
  <2> QED
    BY <2>1, <2>2
<1>18. ASSUME Rejected(f) PROVE \E at \in Rest : Goes(at)
  <2>1. CASE Status = "stopping"
    <3>1. After(f, TRUE) \in Rest /\ StartStop(f, After(f, TRUE)) /\ UNCHANGED storeVars
      BY <1>11, <1>18, <2>1 DEF Rejected
    <3> QED
      BY <1>8, <1>10, <2>1, <3>1
  <2>2. CASE Status # "stopping"
    BY <1>4, <1>18, <2>2 DEF Rejected
  <2> QED
    BY <2>1, <2>2
<1>19. ASSUME TailAllow(f) \/ Arm(f) PROVE \E at \in Rest : Goes(at)
  <2>1. End(f, FALSE) \/ ExpireDeadline(f, "idle") \/ Await(f, "arm")
    BY <1>19 DEF TailAllow, Arm
  <2> QED
    BY <1>4, <1>5, <1>9, <1>10, <2>1
<1>20. CASE \E at \in Rest : Goes(at)
  BY <1>2, <1>3, <1>10, <1>20 DEF Goes, FrameMoves, Moves
<1>22. CASE Record(f)
  BY <1>2, <1>3, <1>10, <1>15, <1>22 DEF Goes, FrameMoves, Moves
<1>23. CASE WindowOpen(f)
  <2>1. Goes("mark")
    BY <1>5, <1>10, <1>23 DEF WindowOpen
  <2> QED
    BY <1>2, <1>3, <1>10, <1>23, <2>1 DEF Goes, FrameMoves, Moves
<1>24. CASE Mark(f)
  <2>1. Goes("latest")
    BY <1>5, <1>10, <1>24 DEF Mark
  <2> QED
    BY <1>2, <1>3, <1>10, <1>24, <2>1 DEF Goes, FrameMoves, Moves
<1>25. CASE Latest(f)
  <2>1. Goes("pending") \/ Goes("rejected")
    BY <1>5, <1>7, <1>10, <1>25 DEF Latest
  <2> QED
    BY <1>2, <1>3, <1>10, <1>25, <2>1 DEF Goes, FrameMoves, Moves
<1>21. CASE Post(f)
  <2>1. Goes("answer")
    BY <1>5, <1>10, <1>21 DEF Post
  <2> QED
    BY <1>2, <1>3, <1>10, <1>21, <2>1 DEF Goes, FrameMoves, Moves
<1> QED
  BY <1>12, <1>13, <1>14, <1>16, <1>17, <1>18, <1>19, <1>20, <1>21, <1>22, <1>23, <1>24, <1>25
     DEF Resume

(* The capability, once revoked, is never issued again. *)
LEMMA TokenOnlyRevoked ==
  ASSUME [PlanNext]_planVars, token' PROVE token
<1>1. ASSUME NEW f \in Frame, Resume(f) PROVE token
  BY <1>1 DEF Resume, ResumeRefused, ResumeStopped, ResumePrepared, ResumeSettled,
     Gate, Record, RecordRefused, WindowExpired, WindowOpen, Mark, Latest, Post, PostRefused,
     PostFails, Answered, Rejected, Commit, Find, Found, NotFound, FindFails, TailDeny,
     TailAllow, Arm, docs
<1>2. ASSUME Owner \/ Stop PROVE token
  BY <1>2 DEF Owner, DecideFirst, DecideAgain, InspectFails, Prepare, Cancel, Stop, Revoke,
     Blocked, Account, CleanupDone, CleanupFails, Settle, FinishStop, ClearStopError, docs
<1>3. ASSUME Recover PROVE token
  BY <1>3 DEF Recover, Boot, RecoverStopping, RecoverStoppingFails, Reconcile,
     RecoverStop, RecoverConfirmed, RecoverPending, RecoverUndecided, RecoveryFailed,
     RecoveryRevokes, RecoverEnded, RecoverExpired, RecoverBinding, BindingBlocked,
     BindingReady, Recovered, RecoveryResumes, docs
<1>4. ASSUME \/ WatchdogFires \/ Complete \/ Crash \/ RuntimeAccepts \/ TimePasses
             \/ UNCHANGED planVars
      PROVE  token
  BY <1>4 DEF WatchdogFires, Complete, Crash, RuntimeAccepts, TimePasses, planVars, docs
<1> QED
  BY <1>1, <1>2, <1>3, <1>4 DEF PlanNext

(* What a step does to the status and the decision of the run. *)
StatusKept == Status' = Status /\ Decided' = Decided

StatusStops ==
  Status \in {"awaiting_plan_approval", "running"} /\ Status' = "stopping" /\ Decided' = Decided

StatusDecided ==
  /\ Status = "awaiting_plan_approval" /\ Decided = "pending"
  /\ \/ Status' = "running" /\ Decided' = "allow"
     \/ Status' = "canceled" /\ Decided' = "deny"

(* The runtime's record ends, and comes to life again only by the commit   *)
(* of a turn while the run is running.                                     *)
RuntimeEnds ==
  \/ runtime' = runtime
  \/ runtime'.status \in {"done", "error"}
  \/ Status = "running" /\ StatusKept

LEMMA RuntimeOnlyEnds ==
  ASSUME PlanTypeOK, [PlanNext]_planVars PROVE RuntimeEnds
<1>1. ASSUME UNCHANGED storeVars, NEW c, NEW turn, CommitDocs(c, turn) PROVE RuntimeEnds
  BY <1>1, StoreUntouched DEF CommitDocs, RuntimeEnds, StatusKept
<1>2. ASSUME NEW f \in Frame, Resume(f) PROVE RuntimeEnds
  <2>1. CASE Commit(f)
    BY <1>1, <2>1 DEF Commit
  <2>2. CASE ~ Commit(f)
    BY <1>2, <2>2 DEF Resume, ResumeRefused, ResumeStopped, ResumePrepared, ResumeSettled,
       Gate, Record, RecordRefused, WindowExpired, WindowOpen, Mark, Latest, Post, PostRefused,
       PostFails, Answered, Rejected, Find, Found, NotFound, FindFails, TailDeny,
       TailAllow, Arm, docs, RuntimeEnds
  <2> QED
    BY <2>1, <2>2
<1>3. ASSUME Owner PROVE RuntimeEnds
  BY <1>3 DEF Owner, DecideFirst, DecideAgain, InspectFails, Prepare, Cancel, docs, RuntimeEnds
<1>4. ASSUME Stop PROVE RuntimeEnds
  BY <1>4 DEF Stop, Revoke, Blocked, Account, CleanupDone, CleanupFails, Settle, FinishStop,
     ClearStopError, docs, RuntimeEnds, PlanTypeOK, Runtime
<1>5. CASE RecoverConfirmed
  BY <1>1, <1>5 DEF RecoverConfirmed, RuntimeEnds
<1>6. CASE RecoverStopping \/ Reconcile
  <2>1. runtime' = runtime \/ \E t : runtime' = [turn |-> t, status |-> "error"]
    BY <1>6 DEF RecoverStopping, Reconcile
  <2> QED
    BY <2>1 DEF RuntimeEnds
<1>7. CASE RecoveryFailed
  BY <1>7 DEF RecoveryFailed, RuntimeEnds, PlanTypeOK, Runtime
<1>8. ASSUME Recover, ~ RecoverConfirmed, ~ RecoverStopping, ~ Reconcile, ~ RecoveryFailed
      PROVE  RuntimeEnds
  BY <1>8 DEF Recover, Boot, RecoverStoppingFails, RecoverStop, RecoverPending, RecoverUndecided,
     RecoveryRevokes, RecoverEnded, RecoverExpired, RecoverBinding, BindingBlocked,
     BindingReady, Recovered, RecoveryResumes, docs, RuntimeEnds
<1>9. ASSUME \/ WatchdogFires \/ Complete \/ Crash \/ RuntimeAccepts \/ TimePasses
             \/ UNCHANGED planVars
      PROVE  RuntimeEnds
  BY <1>9 DEF WatchdogFires, Complete, Crash, RuntimeAccepts, TimePasses, planVars, docs,
     RuntimeEnds, PlanTypeOK, Runtime
<1> QED
  BY <1>2, <1>3, <1>4, <1>5, <1>6, <1>7, <1>8, <1>9 DEF PlanNext

LEMMA ResumeStatus ==
  ASSUME StoreTypeOK, PlanTypeOK, NEW f \in Frame, Resume(f)
  PROVE  StatusKept \/ StatusStops \/ StatusDecided
<1>1. CASE UNCHANGED storeVars
  BY <1>1, StoreUntouched DEF StatusKept
<1>2. CASE RequestStop(run)
  BY <1>2, StopRequested DEF StatusStops
<1>3. ASSUME DecidePlan(run, local[f].binding, local[f].decision) PROVE StatusDecided
  <2>1. local[f].decision \in {"allow", "deny"}
    BY DEF PlanTypeOK, Continuation, Decision
  <2> QED
    BY <1>3, <2>1, PlanDecided DEF StatusDecided, Decision
<1>4. CASE Record(f)
  BY <1>1, <1>3, <1>4 DEF Record
<1>5. ASSUME ~ Record(f) PROVE UNCHANGED storeVars \/ RequestStop(run)
  BY <1>5 DEF Resume, ResumeRefused, ResumeStopped, ResumePrepared, ResumeSettled,
     Gate, RecordRefused, WindowExpired, WindowOpen, Mark, Latest, Post,
     PostRefused, PostFails, Answered, Rejected, Commit, Find, Found, NotFound, FindFails,
     TailDeny, TailAllow, Arm, ExpireDeadline
<1> QED
  BY <1>1, <1>2, <1>4, <1>5

(* A request goes out only for a run that is running or denied. *)
LEMMA PostNeedsRun ==
  ASSUME PlanTypeOK, NEW f \in Frame, CallerKnows(f), Post(f)
  PROVE  /\ Status = "running" \/ Decided = "deny"
         /\ StatusKept /\ pc'["stop"] = pc["stop"]
<1>1. local[f].decision \in {"allow", "deny"} /\ local[f].decision = Decided
  BY DEF CallerKnows, Recorded, Post, PlanTypeOK, Continuation, Decision
<1>2. StatusKept
  BY StoreUntouched DEF Post, StatusKept
<1>3. pc'["stop"] = pc["stop"]
  BY AwaitMoves DEF Post, Label
<1> QED
  BY <1>1, <1>2, <1>3 DEF Post, Active

-----------------------------------------------------------------------------
(* Any callers: what holds also when calls overlap *)

(* The stored continuation never goes back: once prepared it is never      *)
(* replaced by a new one, and a decision once recorded stays.              *)
Advances ==
  \/ continuation'.status = continuation.status
  \/ continuation.status # "none" /\ continuation'.status \in Given

DecidedOnce == Decided' = Decided \/ Decided = "pending"

(* What the other frames know outlives a step of one frame.  A frame that  *)
(* releases the lock is at work on a stored decision or is the one that    *)
(* inspects, so no other frame inspects.                                   *)
LEMMA OthersKeepKnowing ==
  ASSUME CallersInv, NEW f \in Frame, NEW at, Moves(f, at), at # "inspect",
         \A g \in Frame \ {f} : local'[g] = local[g],
         Advances, DecidedOnce,
         (approvalLock => approvalLock') \/ continuation.status # "none" \/ pc[f] = "inspect",
         CallerKnows(f)'
  PROVE  (\A g \in Frame : CallerKnows(g)') /\ OneInspects'
<1>1. ASSUME NEW g \in Frame \ {f} PROVE CallerKnows(g)'
  <2>1. CallerKnows(g) /\ pc'[g] = pc[g] /\ local'[g] = local[g]
    BY <1>1 DEF CallersInv, Moves
  <2>2. pc[g] = "inspect" =>
          approvalLock' /\ continuation'.status = "none" /\ local'[g].status = "prepared"
    BY <1>1, <2>1 DEF CallerKnows, Advances, CallersInv, OneInspects
  <2>3. pc[g] \in Works => continuation'.status # "none"
    BY <2>1 DEF CallerKnows, Advances, Given
  <2>4. pc[g] \in {"latest", "pending", "reconcile"} => continuation'.status \in Given
    BY <2>1 DEF CallerKnows, Advances
  <2>5. pc[g] \in Recorded => local'[g].decision = Decided'
    BY <1>1, <2>1 DEF CallerKnows, DecidedOnce, CallersInv, PlanTypeOK, Continuation, Decision
  <2> QED
    BY <2>1, <2>2, <2>3, <2>4, <2>5 DEF CallerKnows
<1>2. OneInspects'
  BY DEF CallersInv, OneInspects, Moves
<1> QED
  BY <1>1, <1>2

LEMMA NumberedStill ==
  ASSUME RequestsNumbered, Advances, UNCHANGED wire
  PROVE  RequestsNumbered'
  BY DEF RequestsNumbered, Advances, Given, wire

(* A step that moves no frame and leaves the decision alone. *)
LEMMA CallersStay ==
  ASSUME CallersInv, pc' \in [Frame \cup {"stop"} -> Label],
         \A g \in Frame : pc'[g] = pc[g],
         UNCHANGED <<continuation, local, approvalLock, wire>>,
         runtime' \in Runtime, DecidedOnce
  PROVE  CallersInv'
<1>1. PlanTypeOK' /\ RequestsNumbered'
  BY NumberedStill DEF CallersInv, PlanTypeOK, Advances, wire
<1>2. ASSUME NEW g \in Frame PROVE CallerKnows(g)'
  BY <1>2 DEF CallersInv, CallerKnows, DecidedOnce, PlanTypeOK, Continuation, Decision
<1>3. OneInspects'
  BY DEF CallersInv, OneInspects
<1> QED
  BY <1>1, <1>2, <1>3 DEF CallersInv

LEMMA ResumeKeepsCallers ==
  ASSUME StoreTypeOK, CallersInv, NEW f \in Frame, Resume(f)
  PROVE  CallersInv'
<1>0. PlanTypeOK /\ CallerKnows(f) /\ RequestsNumbered
  BY DEF CallersInv
<1>1. FrameMoves(f) /\ pc'[f] # "reconcile"
  BY <1>0, ResumeMoves
<1>2. PICK at \in Label : Moves(f, at)
  BY <1>1 DEF FrameMoves
<1>3. pc[f] \in Works /\ continuation.status # "none" /\ at # "inspect" /\ pc'[f] = at
  BY <1>0, <1>1, <1>2 DEF FrameMoves, CallerKnows, Moves
<1>4. DecidedOnce
  BY <1>0, ResumeStatus DEF DecidedOnce, StatusKept, StatusStops, StatusDecided
(* What each case below has to show. *)
<1>5. ASSUME continuation' \in Continuation, runtime' \in Runtime, sent' \in Turn,
             local' \in [Frame -> Continuation], \A g \in Frame \ {f} : local'[g] = local[g],
             Advances, RequestsNumbered',
             pc'[f] \in {"latest", "pending"} => continuation'.status \in Given,
             pc'[f] \in Recorded => local'[f].decision = Decided'
      PROVE  CallersInv'
  <2>1. PlanTypeOK'
    BY <1>2, <1>5 DEF PlanTypeOK, Moves
  <2>2. continuation'.status # "none"
    BY <1>3, <1>5 DEF Advances, Given
  <2>3. CallerKnows(f)'
    BY <1>1, <1>3, <1>5, <2>2 DEF CallerKnows
  <2>4. (\A g \in Frame : CallerKnows(g)') /\ OneInspects'
    BY <1>2, <1>3, <1>4, <1>5, <2>3, OthersKeepKnowing
  <2> QED
    BY <1>5, <2>1, <2>4 DEF CallersInv
<1>6. CASE Mark(f)
  <2>1. /\ continuation' = [local[f] EXCEPT !.status = "dispatched"]
        /\ local' = [local EXCEPT ![f].status = "dispatched"]
        /\ UNCHANGED <<runtime, sent, wire>> /\ pc[f] = "mark"
    BY <1>6 DEF Mark, wire
  <2>2. continuation' \in Continuation /\ continuation'.status = "dispatched"
    BY <1>0, <2>1 DEF PlanTypeOK, Continuation
  <2>3. /\ local' \in [Frame -> Continuation]
        /\ \A g \in Frame \ {f} : local'[g] = local[g]
        /\ local'[f].decision = local[f].decision
    BY <1>0, <2>1 DEF PlanTypeOK, Continuation
  <2>4. local'[f].decision = Decided'
    BY <1>0, <1>6, <2>1, <2>3, StoreUntouched DEF Mark, CallerKnows, Recorded
  <2>5. Advances
    BY <1>3, <2>2 DEF Advances, Given
  <2>6. RequestsNumbered'
    BY <1>0, <2>1, <2>5, NumberedStill
  <2> QED
    BY <1>0, <1>5, <2>1, <2>2, <2>3, <2>4, <2>5, <2>6 DEF PlanTypeOK, Given
<1>7. CASE Post(f)
  <2>1. /\ local' = [local EXCEPT ![f].turn = sent + 1] /\ sent < MaxSent
        /\ sent' = sent + 1 /\ net' = net \cup {sent + 1}
        /\ UNCHANGED <<continuation, runtime, turns>> /\ pc[f] = "pending"
    BY <1>7 DEF Post, docs
  <2>2. sent' \in Turn /\ sent' >= 1 /\ 1..sent \subseteq 1..sent' /\ sent' \in 1..sent'
    BY <1>0, <2>1, PlanAssumption DEF PlanTypeOK, Turn
  <2>3. /\ local' \in [Frame -> Continuation]
        /\ \A g \in Frame \ {f} : local'[g] = local[g]
    BY <1>0, <2>1, <2>2 DEF PlanTypeOK, Continuation
  <2>4. continuation.status \in Given
    BY <1>0, <2>1 DEF CallerKnows
  <2>5. RequestsNumbered'
    BY <1>0, <2>1, <2>2, <2>4 DEF RequestsNumbered, Given
  <2>6. pc'[f] \notin Recorded
    BY <1>0, <1>7, AwaitMoves DEF Post, Moves, Label, Recorded
  <2> QED
    BY <1>0, <1>5, <2>1, <2>2, <2>3, <2>5, <2>6 DEF PlanTypeOK, Advances, Recorded
<1>8. CASE Commit(f)
  <2>1. /\ continuation' = [local[f] EXCEPT !.status = "confirmed", !.turn = local[f].turn]
        /\ UNCHANGED <<local, sent, wire>>
        /\ runtime'.turn = local[f].turn
        /\ runtime' = [turn |-> runtime'.turn, status |-> runtime'.status]
        /\ runtime'.status \in {"done", "running", "error"}
    BY <1>8 DEF Commit, CommitDocs, wire, memory
  <2>2. continuation' \in Continuation /\ continuation'.status = "confirmed"
    BY <1>0, <2>1 DEF PlanTypeOK, Continuation
  <2>3. runtime' \in Runtime
    BY <1>0, <2>1 DEF PlanTypeOK, Continuation, Runtime
  <2>4. Advances
    BY <1>3, <2>2 DEF Advances, Given
  <2>5. RequestsNumbered'
    BY <1>0, <2>1, <2>4, NumberedStill
  <2>6. pc'[f] \notin Recorded
    BY <1>0, <1>8, ContinueMoves DEF Commit, Moves, Label, Recorded
  <2> QED
    BY <1>0, <1>5, <2>1, <2>2, <2>3, <2>4, <2>5, <2>6 DEF PlanTypeOK, Recorded
<1>9. CASE Found(f)
  <2>1. PICK t \in turns : local' = [local EXCEPT ![f].turn = t]
    BY <1>9 DEF Found
  <2>2. t \in Turn
    BY <1>0, PlanAssumption DEF RequestsNumbered, PlanTypeOK, Turn
  <2>3. /\ local' \in [Frame -> Continuation]
        /\ \A g \in Frame \ {f} : local'[g] = local[g]
    BY <1>0, <2>1, <2>2 DEF PlanTypeOK, Continuation
  <2>4. UNCHANGED <<continuation, runtime, sent, wire>>
    BY <1>9 DEF Found, docs, wire
  <2>5. pc'[f] \notin Recorded
    BY <1>0, <1>9, TakesThread DEF Found, Moves, Label, Recorded
  <2>6. Advances
    BY <2>4 DEF Advances
  <2>7. RequestsNumbered'
    BY <1>0, <2>4, <2>6, NumberedStill
  <2> QED
    BY <1>0, <1>5, <2>3, <2>4, <2>5, <2>6, <2>7 DEF PlanTypeOK, Recorded
<1>10. ASSUME ~ Mark(f), ~ Post(f), ~ Commit(f), ~ Found(f) PROVE CallersInv'
  <2>1. UNCHANGED <<continuation, runtime, local, sent, wire>>
    BY <1>10 DEF Resume, ResumeRefused, ResumeStopped, ResumePrepared, ResumeSettled,
       Gate, Record, RecordRefused, WindowExpired, WindowOpen, Latest, PostRefused, PostFails,
       Answered, Rejected, Find, NotFound, FindFails, TailDeny, TailAllow, Arm,
       docs, wire, memory
  <2>2. Advances
    BY <2>1 DEF Advances
  <2>3. RequestsNumbered'
    BY <1>0, <2>1, <2>2, NumberedStill
  <2>4. pc'[f] \in {"latest", "pending"} => Latest(f)
    BY <1>1, <1>10 DEF FrameMoves
  <2>5. Latest(f) => pc[f] = "latest" /\ Decided' = Decided
    BY StoreUntouched DEF Latest
  <2>6. WindowOpen(f) => pc[f] = "window" /\ Decided' = Decided
    BY StoreUntouched DEF WindowOpen
  <2>7. Record(f) => Decided' = local[f].decision
    <3>1. local[f].decision \in Decision
      BY <1>0 DEF PlanTypeOK, Continuation
    <3> QED
      BY <3>1, PlanDecided, StoreUntouched DEF Record
  <2>8. pc'[f] \in Recorded => local'[f].decision = Decided'
    <3>1. pc'[f] \in Recorded => Latest(f) \/ WindowOpen(f) \/ Record(f)
      BY <1>1, <1>10 DEF FrameMoves, Recorded
    <3> QED
      BY <1>0, <2>1, <2>5, <2>6, <2>7, <3>1 DEF CallerKnows, Recorded
  <2>9. pc'[f] \in {"latest", "pending"} => continuation'.status \in Given
    BY <1>0, <2>1, <2>4, <2>5 DEF CallerKnows
  <2> QED
    BY <1>0, <1>5, <2>1, <2>2, <2>3, <2>8, <2>9 DEF PlanTypeOK
<1> QED
  BY <1>6, <1>7, <1>8, <1>9, <1>10

LEMMA OwnerKeepsCallers ==
  ASSUME StoreTypeOK, CallersInv, Owner
  PROVE  CallersInv'
<1>0. PlanTypeOK /\ RequestsNumbered /\ OneInspects /\ \A g \in Frame : CallerKnows(g)
  BY DEF CallersInv
<1>1. CASE Cancel
  <2>1. DecidedOnce
    BY <1>1, StopRequested, StoreUntouched DEF Cancel, DecidedOnce
  <2>2. pc' \in [Frame \cup {"stop"} -> Label] /\ \A g \in Frame : pc'[g] = pc[g]
    BY <1>0, <1>1, StopMoves DEF Cancel, Label
  <2>3. UNCHANGED <<continuation, local, approvalLock, wire>> /\ runtime' \in Runtime
    BY <1>0, <1>1 DEF Cancel, docs, PlanTypeOK
  <2> QED
    BY <2>1, <2>2, <2>3, CallersStay
<1>2. ASSUME NEW c \in Caller, InspectFails(c) PROVE CallersInv'
  <2>1. c \in Frame /\ Moves(c, After(c, TRUE)) /\ After(c, TRUE) = "idle"
    BY <1>0, <1>2, Names, EndMoves DEF InspectFails, After
  <2>2. UNCHANGED <<continuation, runtime, local, sent, wire>> /\ pc[c] = "inspect"
    BY <1>2 DEF InspectFails, docs, wire
  <2>3. Advances /\ DecidedOnce
    BY <1>2, <2>2, StoreUntouched DEF InspectFails, Advances, DecidedOnce
  <2>4. CallerKnows(c)'
    BY <2>1 DEF CallerKnows, Moves, Works, Copied, Settled, Recorded
  <2>5. (\A g \in Frame : CallerKnows(g)') /\ OneInspects'
    BY <2>1, <2>2, <2>3, <2>4, OthersKeepKnowing
  <2>6. PlanTypeOK' /\ RequestsNumbered'
    BY <1>0, <2>1, <2>2, <2>3, NumberedStill DEF PlanTypeOK, Moves
  <2> QED
    BY <2>5, <2>6 DEF CallersInv
<1>3. ASSUME NEW c \in Caller, DecideAgain(c) PROVE CallersInv'
  <2>1. c \in Frame /\ Moves(c, "resume")
    BY <1>0, <1>3, Names, TakesThread DEF DecideAgain, Label
  <2>2. /\ UNCHANGED <<continuation, runtime, sent, wire>> /\ approvalLock' = TRUE
        /\ local' = [local EXCEPT ![c] = continuation] /\ continuation.status # "none"
    BY <1>3 DEF DecideAgain, docs, wire
  <2>3. Advances /\ DecidedOnce
    BY <1>3, <2>2, StoreUntouched DEF DecideAgain, Advances, DecidedOnce
  <2>4. CallerKnows(c)'
    BY <2>1, <2>2 DEF CallerKnows, Moves, Recorded
  <2>5. /\ local' \in [Frame -> Continuation]
        /\ \A g \in Frame \ {c} : local'[g] = local[g]
    BY <1>0, <2>2 DEF PlanTypeOK
  <2>6. (\A g \in Frame : CallerKnows(g)') /\ OneInspects'
    BY <2>1, <2>2, <2>3, <2>4, <2>5, OthersKeepKnowing
  <2>7. PlanTypeOK' /\ RequestsNumbered'
    BY <1>0, <2>1, <2>2, <2>3, <2>5, NumberedStill DEF PlanTypeOK, Moves
  <2> QED
    BY <2>6, <2>7 DEF CallersInv
<1>4. ASSUME NEW c \in Caller, NEW d \in Decision, NEW b \in Binding, DecideFirst(c, d, b)
      PROVE  CallersInv'
  <2> DEFINE first == [status |-> "prepared", decision |-> d, binding |-> b, turn |-> 0]
  <2>0. first \in Continuation /\ first.status = "prepared"
    BY PlanAssumption DEF Continuation, Turn
  <2>1. c \in Frame /\ Moves(c, "inspect")
    BY <1>0, <1>4, Names, AwaitMoves DEF DecideFirst, Label
  <2>2. /\ UNCHANGED <<continuation, runtime, sent, wire>> /\ approvalLock' = TRUE
        /\ continuation.status = "none" /\ ~ approvalLock
    BY <1>4 DEF DecideFirst, MayCall, docs, wire
  <2>3. local' = [local EXCEPT ![c] = first]
    BY <1>4 DEF DecideFirst
  <2> HIDE DEF first
  <2>4. /\ local' \in [Frame -> Continuation] /\ local'[c] = first
        /\ \A g \in Frame \ {c} : local'[g] = local[g]
    BY <1>0, <2>0, <2>1, <2>3 DEF PlanTypeOK
  <2>5. Advances /\ Decided' = Decided
    BY <1>4, <2>2, StoreUntouched DEF DecideFirst, Advances
  <2>6. \A g \in Frame : pc[g] # "inspect"
    BY <1>0, <2>2 DEF CallerKnows
  <2>7. OneInspects'
    BY <2>1, <2>6 DEF OneInspects, Moves
  <2>8. CallerKnows(c)'
    BY <2>0, <2>1, <2>2, <2>4
       DEF CallerKnows, Moves, Works, Copied, Settled, Recorded
  <2>9. ASSUME NEW g \in Frame \ {c} PROVE CallerKnows(g)'
    BY <1>0, <2>1, <2>2, <2>4, <2>5, <2>6, <2>9 DEF CallerKnows, Moves
  <2>10. PlanTypeOK' /\ RequestsNumbered'
    BY <1>0, <2>1, <2>2, <2>4, <2>5, NumberedStill DEF PlanTypeOK, Moves
  <2> QED
    BY <2>7, <2>8, <2>9, <2>10 DEF CallersInv
<1>5. ASSUME NEW c \in Caller, Prepare(c) PROVE CallersInv'
  <2>1. c \in Frame /\ Moves(c, "resume_inspected")
    BY <1>0, <1>5, Names, TakesThread DEF Prepare, Label
  <2>2. /\ continuation' = local[c] /\ UNCHANGED <<runtime, local, sent, wire>>
        /\ pc[c] = "inspect"
    BY <1>5 DEF Prepare, wire, memory
  <2>3. continuation.status = "none" /\ local[c].status = "prepared" /\ Decided' = Decided
    BY <1>0, <1>5, <2>1, <2>2, StoreUntouched DEF CallerKnows, Prepare
  <2>4. ASSUME NEW g \in Frame PROVE CallerKnows(g)' /\ pc'[g] # "inspect"
    <3>1. g # c => pc[g] # "inspect" /\ pc[g] \notin Works
                     /\ pc[g] \notin {"latest", "pending", "reconcile"}
      BY <1>0, <2>1, <2>2, <2>3 DEF CallerKnows, OneInspects, Given
    <3>2. g # c => pc'[g] = pc[g]
      BY <2>1 DEF Moves
    <3>3. g = c => pc'[g] = "resume_inspected"
      BY <2>1 DEF Moves
    <3>4. continuation'.status = "prepared"
      BY <2>2, <2>3
    <3>5. Recorded \subseteq Works /\ "resume_inspected" \notin Recorded
      BY DEF Recorded, Works, Settled, Copied
    <3> QED
      BY <3>1, <3>2, <3>3, <3>4, <3>5 DEF CallerKnows
  <2>5. OneInspects'
    BY <2>4 DEF OneInspects
  <2>6. PlanTypeOK'
    BY <1>0, <2>1, <2>2 DEF PlanTypeOK, Moves
  <2>7. RequestsNumbered'
    BY <1>0, <2>2, <2>3 DEF RequestsNumbered, wire
  <2> QED
    BY <2>4, <2>5, <2>6, <2>7 DEF CallersInv
<1> QED
  BY <1>1, <1>2, <1>3, <1>4, <1>5 DEF Owner

LEMMA RecoverKeepsCallers ==
  ASSUME StoreTypeOK, CallersInv, Recover
  PROVE  CallersInv'
<1> DEFINE Goes(at) == Moves("boot", at)
<1>0. PlanTypeOK /\ RequestsNumbered /\ CallerKnows("boot") /\ "boot" \in Frame
  BY Names DEF CallersInv
<1>1. UNCHANGED <<approvalLock, wire, sent>>
  BY DEF Recover, Boot, RecoverStopping, RecoverStoppingFails, Reconcile,
     RecoverStop, RecoverConfirmed, RecoverPending, RecoverUndecided, RecoveryFailed,
     RecoveryRevokes, RecoverEnded, RecoverExpired, RecoverBinding, BindingBlocked,
     BindingReady, Recovered, RecoveryResumes, memory, wire
<1>2. DecidedOnce
  <2>1. UNCHANGED storeVars \/ RequestStop(run)
    BY DEF Recover, Boot, RecoverStopping, RecoverStoppingFails, Reconcile,
       RecoverStop, RecoverConfirmed, RecoverPending, RecoverUndecided, RecoveryFailed,
       RecoveryRevokes, RecoverEnded, RecoverExpired, RecoverBinding, BindingBlocked,
       BindingReady, Recovered, RecoveryResumes, ExpireDeadline
  <2> QED
    BY <2>1, StoreUntouched, StopRequested DEF DecidedOnce
<1>3. ASSUME NEW at, Moves("boot", at), at # "inspect", at \notin Recorded,
             at \in Works \/ at = "reconcile" => continuation.status # "none",
             at = "reconcile" => continuation'.status \in Given,
             continuation' \in Continuation, runtime' \in Runtime,
             local' \in [Frame -> Continuation], \A g \in Frame \ {"boot"} : local'[g] = local[g],
             Advances
      PROVE  CallersInv'
  <2>1. PlanTypeOK'
    BY <1>0, <1>1, <1>3 DEF PlanTypeOK, Moves
  <2>2. RequestsNumbered'
    BY <1>0, <1>1, <1>3, NumberedStill
  <2>3. CallerKnows("boot")'
    BY <1>3 DEF CallerKnows, Moves, Advances, Given, Recorded
  <2>4. (\A g \in Frame : CallerKnows(g)') /\ OneInspects'
    BY <1>0, <1>1, <1>2, <1>3, <2>3, OthersKeepKnowing
  <2> QED
    BY <2>1, <2>2, <2>4 DEF CallersInv
<1> DEFINE Ends == {"recover", "stop_recovered", "recover_rest", "recovery_failed", "revoke",
                    "binding", "recovered", "idle"}
<1>4. /\ Ends \subseteq Label /\ Ends \cap Works = {} /\ Ends \cap Recorded = {}
      /\ "inspect" \notin Ends /\ "reconcile" \notin Ends
      /\ {"reconcile", "resume"} \subseteq Label
      /\ {"reconcile", "resume"} \cap Recorded = {}
  BY DEF Label, Works, Copied, Settled, Recorded
<1>5. ASSUME NEW at \in Ends, Moves("boot", at), UNCHANGED <<continuation, local>>,
             runtime' \in Runtime
      PROVE  CallersInv'
  BY <1>0, <1>3, <1>4, <1>5 DEF PlanTypeOK, Advances
<1>6. CASE \/ Boot \/ RecoverStoppingFails \/ RecoverUndecided \/ RecoveryFailed
           \/ RecoveryRevokes \/ RecoverEnded \/ RecoverBinding \/ BindingBlocked
  <2>1. \E at \in Ends : pc' = [pc EXCEPT !["boot"] = at]
    BY <1>6 DEF Boot, RecoverStoppingFails, RecoverUndecided, RecoveryFailed,
       RecoveryRevokes, RecoverEnded, RecoverBinding, BindingBlocked, Await, Continue
  <2>2. UNCHANGED <<continuation, local>>
    BY <1>6 DEF Boot, RecoverStoppingFails, RecoverUndecided, RecoveryFailed,
       RecoveryRevokes, RecoverEnded, RecoverBinding, BindingBlocked, docs, memory
  <2>3. runtime' = runtime \/ runtime' = [runtime EXCEPT !.status = "error"]
    BY <1>6 DEF Boot, RecoverStoppingFails, RecoverUndecided, RecoveryFailed,
       RecoveryRevokes, RecoverEnded, RecoverBinding, BindingBlocked, docs
  <2>4. runtime' \in Runtime
    BY <1>0, <2>3 DEF PlanTypeOK, Runtime
  <2>5. \E at \in Ends : Moves("boot", at)
    BY <1>0, <1>4, <2>1, TakesThread
  <2> QED
    BY <1>5, <2>2, <2>4, <2>5
<1>7. CASE RecoverStopping
  <2>1. UNCHANGED <<continuation, local>>
    BY <1>7 DEF RecoverStopping, memory
  <2>2. runtime' = runtime \/ runtime' = [turn |-> continuation.turn, status |-> "error"]
    BY <1>7 DEF RecoverStopping
  <2>3. runtime' \in Runtime
    BY <1>0, <2>2 DEF PlanTypeOK, Runtime, Continuation
  <2>4. CASE continuation.status = "dispatched"
    <3>1. Moves("boot", "reconcile")
      BY <1>0, <1>4, <1>7, <2>4, AwaitMoves DEF RecoverStopping
    <3>2. "reconcile" # "inspect" /\ "reconcile" \notin Recorded /\ continuation.status \in Given
      BY <1>4, <2>4 DEF Given
    <3> QED
      BY <1>0, <1>3, <2>1, <2>3, <2>4, <3>1, <3>2 DEF PlanTypeOK, Advances
  <2>5. CASE continuation.status # "dispatched"
    <3>1. Moves("boot", "stop_recovered")
      BY <1>0, <1>4, <1>7, <2>5, ContinueMoves DEF RecoverStopping
    <3> QED
      BY <1>5, <2>1, <2>3, <3>1
  <2> QED
    BY <2>4, <2>5
<1>8. CASE Reconcile
  <2>1. Moves("boot", "stop_recovered") /\ pc["boot"] = "reconcile" /\ UNCHANGED local
    BY <1>0, <1>4, <1>8, TakesThread DEF Reconcile, memory
  <2>2. continuation.status \in Given
    BY <1>0, <2>1 DEF CallerKnows
  <2>3. \A t \in turns : t \in Turn
    BY <1>0, PlanAssumption DEF RequestsNumbered, PlanTypeOK, Turn
  <2>4. continuation' \in Continuation /\ continuation'.status \in Given
    <3>1. ASSUME NEW t \in turns,
                 continuation' = [continuation EXCEPT !.status = "confirmed", !.turn = t]
          PROVE  continuation' \in Continuation /\ continuation'.status \in Given
      BY <1>0, <2>3, <3>1 DEF PlanTypeOK, Continuation, Given
    <3>2. CASE continuation' = [continuation EXCEPT !.status = "unknown"]
      BY <1>0, <3>2 DEF PlanTypeOK, Continuation, Given
    <3> QED
      BY <1>8, <3>1, <3>2 DEF Reconcile
  <2>5. runtime' \in Runtime
    <3>1. runtime' = runtime \/ \E t \in turns : runtime' = [turn |-> t, status |-> "error"]
      BY <1>8 DEF Reconcile
    <3> QED
      BY <1>0, <2>3, <3>1 DEF PlanTypeOK, Runtime
  <2>6. Advances
    BY <2>2, <2>4 DEF Advances, Given
  <2> QED
    BY <1>0, <1>3, <1>4, <2>1, <2>4, <2>5, <2>6 DEF PlanTypeOK
<1>9. CASE RecoverConfirmed
  <2>1. Moves("boot", "recover_rest") /\ continuation.status = "confirmed" /\ UNCHANGED local
    BY <1>0, <1>4, <1>9, ContinueMoves DEF RecoverConfirmed, memory
  <2>2. continuation' = continuation
    BY <1>0, <1>9, <2>1, ConfirmedAgain DEF RecoverConfirmed, CommitDocs, PlanTypeOK
  <2>3. runtime' \in Runtime
    <3>1. CASE runtime' = runtime
      BY <1>0, <3>1 DEF PlanTypeOK
    <3>2. CASE CommitDocs(continuation, continuation.turn)
      BY <1>0, <3>2 DEF CommitDocs, PlanTypeOK, Continuation, Runtime
    <3> QED
      BY <1>9, <3>1, <3>2 DEF RecoverConfirmed
  <2> QED
    BY <1>4, <1>5, <2>1, <2>2, <2>3
<1>10. CASE RecoverPending
  <2>1. /\ Moves("boot", "resume") /\ continuation.status # "none"
        /\ local' = [local EXCEPT !["boot"] = continuation] /\ UNCHANGED <<continuation, runtime>>
    BY <1>0, <1>4, <1>10, ContinueMoves DEF RecoverPending, docs
  <2>2. /\ local' \in [Frame -> Continuation]
        /\ \A g \in Frame \ {"boot"} : local'[g] = local[g]
    BY <1>0, <2>1 DEF PlanTypeOK
  <2>3. "resume" # "inspect" /\ "resume" # "reconcile" /\ Advances
    BY <2>1 DEF Advances
  <2> QED
    BY <1>0, <1>3, <1>4, <2>1, <2>2, <2>3 DEF PlanTypeOK
<1>11. CASE RecoverStop \/ RecoverExpired \/ BindingReady
  <2>1. UNCHANGED <<continuation, local, runtime>>
    BY <1>11 DEF RecoverStop, RecoverExpired, BindingReady, docs, memory
  <2>2. \/ StartStop("boot", "recovered") \/ ExpireDeadline("boot", "recovered")
        \/ pc' = [pc EXCEPT !["boot"] = "recovered"]
    BY <1>11 DEF RecoverStop, RecoverExpired, BindingReady
  <2>3. Moves("boot", "recovered")
    BY <1>0, <1>4, <2>2, StartStopMoves, ExpireMoves, TakesThread
  <2> QED
    BY <1>0, <1>5, <2>1, <2>3 DEF PlanTypeOK
<1>12. CASE Recovered \/ RecoveryResumes
  <2>1. UNCHANGED <<continuation, local, runtime>>
    BY <1>12 DEF Recovered, RecoveryResumes, docs, memory
  <2>2. UNCHANGED pc \/ pc' = [pc EXCEPT !["boot"] = "idle"]
    BY <1>12 DEF Recovered, RecoveryResumes
  <2>3. CASE UNCHANGED pc
    BY <1>0, <1>1, <1>2, <2>1, <2>3, CallersStay DEF PlanTypeOK
  <2>4. CASE pc' = [pc EXCEPT !["boot"] = "idle"]
    <3>1. Moves("boot", "idle")
      BY <1>0, <1>4, <2>4, TakesThread
    <3> QED
      BY <1>0, <1>5, <2>1, <3>1 DEF PlanTypeOK
  <2> QED
    BY <2>2, <2>3, <2>4
<1> QED
  BY <1>6, <1>7, <1>8, <1>9, <1>10, <1>11, <1>12 DEF Recover

LEMMA OthersKeepCallers ==
  ASSUME StoreTypeOK, CallersInv,
         \/ Stop \/ WatchdogFires \/ Complete \/ Crash \/ RuntimeAccepts \/ TimePasses
         \/ UNCHANGED planVars
  PROVE  CallersInv'
<1>0. PlanTypeOK /\ RequestsNumbered
  BY DEF CallersInv
<1>1. CASE Crash
  <2>1. /\ \A g \in Frame : pc'[g] = "idle"
        /\ pc' \in [Frame \cup {"stop"} -> Label]
    BY <1>1 DEF Crash, Label
  <2>2. local' \in [Frame -> Continuation] /\ UNCHANGED <<continuation, runtime, sent, wire>>
    BY <1>1, RunInStore, PlanAssumption
       DEF Crash, NoContinuation, Continuation, Decision, Turn, docs, wire
  <2>3. PlanTypeOK' /\ RequestsNumbered'
    BY <1>0, <2>1, <2>2 DEF PlanTypeOK, RequestsNumbered, wire
  <2> QED
    BY <2>1, <2>3
       DEF CallersInv, CallerKnows, OneInspects, Works, Copied, Settled, Recorded
<1>2. CASE RuntimeAccepts
  <2>1. net' \cup turns' \subseteq net \cup turns
    BY <1>2 DEF RuntimeAccepts
  <2>2. UNCHANGED <<pc, continuation, runtime, local, approvalLock, sent>>
    BY <1>2 DEF RuntimeAccepts, docs, thread, memory
  <2>3. Decided' = Decided
    BY <1>2, StoreUntouched DEF RuntimeAccepts
  <2>4. PlanTypeOK' /\ RequestsNumbered' /\ OneInspects'
    BY <1>0, <2>1, <2>2 DEF PlanTypeOK, RequestsNumbered, CallersInv, OneInspects
  <2>5. ASSUME NEW g \in Frame PROVE CallerKnows(g)'
    BY <2>2, <2>3, <2>5 DEF CallersInv, CallerKnows
  <2> QED
    BY <2>4, <2>5 DEF CallersInv
<1>3. CASE Stop
  <2>1. UNCHANGED <<continuation, local, approvalLock, wire>>
    BY <1>3 DEF Stop, Revoke, Blocked, Account, CleanupDone, CleanupFails, Settle, FinishStop,
       ClearStopError, docs, memory
  <2>2. runtime' = runtime \/ runtime' = [runtime EXCEPT !.status = "error"]
    BY <1>3 DEF Stop, Revoke, Blocked, Account, CleanupDone, CleanupFails, Settle, FinishStop,
       ClearStopError, docs
  <2>3. runtime' \in Runtime
    BY <1>0, <2>2 DEF PlanTypeOK, Runtime
  <2>4. UNCHANGED storeVars \/ CancelRun(run)
    BY <1>3 DEF Stop, Revoke, Blocked, Account, CleanupDone, CleanupFails, Settle, FinishStop,
       ClearStopError
  <2>5. DecidedOnce
    BY <2>4, StoreUntouched, RunCanceled DEF DecidedOnce
  <2>6. \E at \in {"idle", "account", "cleanup", "settle", "cancel", "clear"} :
          pc' = [pc EXCEPT !["stop"] = at]
    BY <1>3 DEF Stop, Revoke, Blocked, Account, CleanupDone, CleanupFails, Settle, FinishStop,
       ClearStopError, YieldStop, Continue
  <2>7. pc' \in [Frame \cup {"stop"} -> Label] /\ \A g \in Frame : pc'[g] = pc[g]
    BY <1>0, <2>6, StopMoves DEF Label
  <2> QED
    BY <2>1, <2>3, <2>5, <2>7, CallersStay
<1>4. CASE WatchdogFires
  <2>1. DecidedOnce
    BY <1>4, StopRequested DEF WatchdogFires, DecidedOnce
  <2>2. UNCHANGED pc \/ pc' = [pc EXCEPT !["stop"] = "revoke"]
    BY <1>4 DEF WatchdogFires
  <2>3. pc' \in [Frame \cup {"stop"} -> Label] /\ \A g \in Frame : pc'[g] = pc[g]
    BY <1>0, <2>2, StopMoves DEF Label, PlanTypeOK
  <2>4. UNCHANGED <<continuation, local, approvalLock, wire>> /\ runtime' \in Runtime
    BY <1>0, <1>4 DEF WatchdogFires, docs, PlanTypeOK
  <2> QED
    BY <2>1, <2>3, <2>4, CallersStay
<1>5. CASE Complete
  <2>1. DecidedOnce
    BY <1>5, RunFinished DEF Complete, DecidedOnce
  <2>2. runtime' \in Runtime
    BY <1>0, <1>5 DEF Complete, PlanTypeOK, Runtime
  <2>3. UNCHANGED <<pc, continuation, local, approvalLock, wire>>
    BY <1>5 DEF Complete, thread, memory
  <2> QED
    BY <1>0, <2>1, <2>2, <2>3, CallersStay DEF PlanTypeOK
<1>6. CASE TimePasses \/ UNCHANGED planVars
  <2>1. DecidedOnce
    BY <1>6, TickEffect, StoreUntouched DEF TimePasses, planVars, DecidedOnce
  <2>2. UNCHANGED <<pc, continuation, runtime, local, approvalLock, wire>>
    BY <1>6 DEF TimePasses, planVars, docs, thread, memory
  <2> QED
    BY <1>0, <2>1, <2>2, CallersStay DEF PlanTypeOK
<1> QED
  BY <1>1, <1>2, <1>3, <1>4, <1>5, <1>6

LEMMA CallersStep ==
  ASSUME StoreTypeOK, CallersInv, [PlanNext]_planVars
  PROVE  CallersInv'
  BY ResumeKeepsCallers, OwnerKeepsCallers, RecoverKeepsCallers, OthersKeepCallers DEF PlanNext

LEMMA CallersInit == PlanInit => CallersInv
<1> SUFFICES ASSUME PlanInit PROVE CallersInv
  OBVIOUS
<1>1. \A f \in Frame \cup {"stop"} : pc[f] = "idle"
  BY DEF PlanInit
<1>2. PlanTypeOK
  BY RecordInit DEF RecordInv
<1>3. RequestsNumbered
  BY DEF PlanInit, RequestsNumbered
<1> QED
  BY <1>1, <1>2, <1>3
     DEF CallersInv, CallerKnows, OneInspects, Works, Copied, Settled, Recorded

(* The tables of the store keep their own invariants while the worker, its *)
(* crashes and its recovery use them, however calls overlap: each step is  *)
(* a transaction the store allows.                                         *)
LEMMA CallersInvariant == PlanSpec => [](StoreInv /\ CallersInv)
<1>1. StoreInv /\ CallersInv /\ [PlanNext]_planVars => (StoreInv /\ CallersInv)'
  BY PlanStoreStep, StoreInvStep, CallersStep DEF StoreInv, CallersInv
<1> QED
  BY <1>1, PlanStoreInit, CallersInit, PTL DEF PlanSpec

(* The store keeps its own invariants while the worker, its crashes, its   *)
(* recovery and any number of overlapping calls use it.                    *)
THEOREM StoreUnderPlan == PlanSpec => []StoreInv
  BY CallersInvariant, PTL

-----------------------------------------------------------------------------
(* Stopping *)

LEMMA ResumeKeepsStop ==
  ASSUME StoreTypeOK, CallersInv, StopInv, NEW f \in Frame, Resume(f), token' => token, RuntimeEnds
  PROVE  StopInv'
<1>1. /\ FrameMoves(f)
      /\ pc[f] \notin {"recover", "reconcile", "stop_recovered"}
      /\ pc'[f] \notin {"recover", "reconcile", "stop_recovered"}
  BY ResumeMoves DEF CallersInv
<1>2. StatusKept \/ StatusStops \/ StatusDecided
  BY ResumeStatus DEF CallersInv
<1>3. PICK at \in Label : Moves(f, at)
  BY <1>1 DEF FrameMoves
<1>4. DeniedIsCanceled'
  BY <1>2 DEF StopInv, DeniedIsCanceled, StatusKept, StatusStops, StatusDecided
<1>6. StopKnows'
  <2>1. pc'["stop"] # "idle" => Status' \in {"stopping", "canceled"} /\ Decided' # "deny"
    BY <1>1, <1>2, <1>4 DEF FrameMoves, Starting, StopInv, StopKnows, DeniedIsCanceled,
       StatusKept, StatusStops, StatusDecided
  <2>2. pc'["stop"] \in {"account", "cleanup", "settle", "cancel", "clear"} => ~ token'
    BY <1>1 DEF FrameMoves, Starting, StopInv, StopKnows
  <2>3. pc'["stop"] = "cancel" => runtime'.status \in {"done", "error"}
    BY <1>1 DEF FrameMoves, Starting, StopInv, StopKnows, RuntimeEnds
  <2> QED
    BY <2>1, <2>2, <2>3 DEF StopKnows
<1>7. Serving'
  <2>1. worker # "down" /\ UNCHANGED worker
    BY <1>1 DEF FrameMoves, Frame, StopInv, Serving
  <2>2. \A g \in Frame : pc'[g] # "idle" => pc[g] # "idle"
    BY <1>1, <1>3 DEF FrameMoves, Moves
  <2> QED
    BY <2>1, <2>2, Names DEF StopInv, Serving
<1>8. BootFirst'
  <2>1. CASE pc'["boot"] \in {"recover", "reconcile", "stop_recovered"}
    <3>1. f # "boot" /\ pc'["boot"] = pc["boot"]
      BY <1>1, <1>3, <2>1, Names DEF Moves
    <3>2. f \in Caller /\ pc[f] # "idle"
      BY <1>1, <3>1 DEF FrameMoves, Frame
    <3> QED
      BY <2>1, <3>1, <3>2 DEF StopInv, Serving
  <2> QED
    BY <2>1 DEF BootFirst
<1>9. StoppedIsOver'
  BY <1>2 DEF StopInv, StoppedIsOver, Stopped, RuntimeEnds, StatusKept, StatusStops, StatusDecided
<1> QED
  BY <1>4, <1>6, <1>7, <1>8, <1>9 DEF StopInv

LEMMA StopKeepsStop ==
  ASSUME StoreTypeOK, CallersInv, StopInv, Stop, token' => token, RuntimeEnds
  PROVE  StopInv'
<1>0. PlanTypeOK
  BY DEF CallersInv
<1>1. StatusKept \/ (FinishStop /\ Status' = "canceled" /\ Decided' = Decided)
  BY StoreUntouched, RunCanceled DEF Stop, Revoke, Blocked, Account, CleanupDone, CleanupFails,
     Settle, FinishStop, ClearStopError, StatusKept
<1>2. UNCHANGED worker
  BY DEF Stop, Revoke, Blocked, Account, CleanupDone, CleanupFails,
     Settle, FinishStop, ClearStopError, process
<1> DEFINE To(at) == pc' = [pc EXCEPT !["stop"] = at]
<1>3. \/ Revoke /\ To("account") /\ ~ token'
      \/ (Blocked \/ CleanupFails \/ ClearStopError) /\ To("idle")
      \/ Account /\ pc["stop"] = "account" /\ (To("cleanup") \/ To("settle"))
      \/ CleanupDone /\ pc["stop"] = "cleanup" /\ To("settle")
      \/ Settle /\ pc["stop"] = "settle" /\ To("cancel") /\ runtime'.status \in {"done", "error"}
      \/ FinishStop /\ pc["stop"] = "cancel" /\ To("clear")
  <2>1. Settle => runtime'.status \in {"done", "error"}
    BY <1>0 DEF Settle, PlanTypeOK, Runtime
  <2> QED
    BY <2>1 DEF Stop, Revoke, Blocked, Account, CleanupDone, CleanupFails,
       Settle, FinishStop, ClearStopError, YieldStop, Continue
<1>4. ASSUME NEW at \in Label, To(at)
      PROVE  pc'["stop"] = at /\ \A g \in Frame : pc'[g] = pc[g]
  BY <1>0, <1>4, StopMoves
<1>5. {"idle", "account", "cleanup", "settle", "cancel", "clear"} \subseteq Label
  BY DEF Label
<1> HIDE DEF To
<1>6. \A g \in Frame : pc'[g] = pc[g]
  BY <1>3, <1>4, <1>5
<1>7. \/ pc'["stop"] = "idle"
      \/ pc'["stop"] = "account" /\ ~ token'
      \/ pc'["stop"] \in {"cleanup", "settle"} /\ pc["stop"] = "account"
      \/ pc'["stop"] = "settle" /\ pc["stop"] = "cleanup"
      \/ /\ pc'["stop"] = "cancel" /\ pc["stop"] = "settle"
         /\ runtime'.status \in {"done", "error"}
      \/ pc'["stop"] = "clear" /\ pc["stop"] = "cancel"
  BY <1>3, <1>4, <1>5
<1>8. pc["stop"] # "idle"
  BY DEF Stop, Revoke, Blocked, Account, CleanupDone, CleanupFails,
     Settle, FinishStop, ClearStopError
<1>9. FinishStop => pc["stop"] = "cancel"
  BY DEF FinishStop
<1>10. Status \in {"stopping", "canceled"} /\ Decided # "deny"
  BY <1>8 DEF StopInv, StopKnows
<1>11. Status' \in {"stopping", "canceled"} /\ Decided' # "deny"
  BY <1>1, <1>10 DEF StatusKept
<1>13. StopKnows'
  BY <1>7, <1>11 DEF StopInv, StopKnows
<1>14. BootFirst' /\ Serving'
  BY <1>2, <1>6, <1>8, Names DEF StopInv, BootFirst, Serving
<1>15. DeniedIsCanceled'
  BY <1>11 DEF DeniedIsCanceled
<1>16. StoppedIsOver'
  BY <1>1, <1>9, <1>10 DEF StopInv, StopKnows, StoppedIsOver, Stopped, RuntimeEnds, StatusKept
<1> QED
  BY <1>13, <1>14, <1>15, <1>16 DEF StopInv
(* A call of the owner never starts during recovery, and none of its first *)
(* steps reaches the runtime.                                              *)
LEMMA OwnerKeepsStop ==
  ASSUME StoreTypeOK, CallersInv, StopInv, Owner, token' => token, RuntimeEnds
  PROVE  StopInv'
<1>0. PlanTypeOK
  BY DEF CallersInv
<1>1. CASE Cancel
  <2>1. Status' = "stopping" /\ Decided' = Decided
    BY <1>1, StopRequested, StoreUntouched DEF Cancel
  <2>2. pc'["stop"] = "revoke" /\ \A g \in Frame : pc'[g] = pc[g]
    BY <1>0, <1>1, StopMoves DEF Cancel, Label
  <2>3. worker = "up" /\ UNCHANGED worker
    BY <1>1 DEF Cancel, process
  <2>4. Decided # "deny"
    BY <1>1, StopRequested DEF Cancel, StopInv, DeniedIsCanceled
  <2>5. StopKnows' /\ DeniedIsCanceled' /\ StoppedIsOver'
    BY <2>1, <2>2, <2>4 DEF StopKnows, DeniedIsCanceled, StoppedIsOver, Stopped, RuntimeEnds
  <2>6. Serving' /\ BootFirst'
    BY <2>2, <2>3, Names DEF StopInv, Serving, BootFirst
  <2> QED
    BY <2>5, <2>6 DEF StopInv
<1>2. ASSUME NEW c \in Caller,
             \/ \E d \in Decision, b \in Binding : DecideFirst(c, d, b)
             \/ DecideAgain(c) \/ InspectFails(c) \/ Prepare(c)
      PROVE  StopInv'
  <2>1. c \in Frame /\ c # "boot"
    BY Names
  <2>2. StatusKept /\ UNCHANGED worker
    BY <1>2, StoreUntouched
       DEF DecideFirst, DecideAgain, InspectFails, Prepare, StatusKept, process
  <2>3. worker = "up"
    BY <1>2 DEF DecideFirst, DecideAgain, MayCall, InspectFails, Prepare, StopInv, Serving
  <2>4. /\ \A g \in Frame \ {c} : pc'[g] = pc[g]
        /\ pc'["stop"] = pc["stop"]
        /\ pc'[c] # "answer"
    <3>1. CASE InspectFails(c)
      BY <1>0, <2>1, <3>1, EndMoves, AfterLabel DEF InspectFails, Moves
    <3>2. CASE ~ InspectFails(c)
      <4>1. \E at \in {"inspect", "resume", "resume_inspected"} : pc' = [pc EXCEPT ![c] = at]
        BY <1>2, <3>2 DEF DecideFirst, DecideAgain, Prepare, Await
      <4>2. {"inspect", "resume", "resume_inspected"} \subseteq Label
        BY DEF Label
      <4> QED
        BY <1>0, <2>1, <4>1, <4>2, TakesThread DEF Moves
    <3> QED
      BY <3>1, <3>2
  <2>5. StopKnows' /\ DeniedIsCanceled' /\ StoppedIsOver'
    BY <2>2, <2>4 DEF StopInv, StopKnows, DeniedIsCanceled, StoppedIsOver, Stopped,
       RuntimeEnds, StatusKept
  <2>6. Serving' /\ BootFirst'
    BY <2>1, <2>2, <2>3, <2>4, Names DEF StopInv, Serving, BootFirst, StatusKept
  <2> QED
    BY <2>5, <2>6 DEF StopInv
<1> QED
  BY <1>1, <1>2 DEF Owner

LEMMA OthersKeepStop ==
  ASSUME StoreTypeOK, CallersInv, StopInv, token' => token, RuntimeEnds,
         \/ WatchdogFires \/ Complete \/ Crash \/ RuntimeAccepts \/ TimePasses
         \/ UNCHANGED planVars
  PROVE  StopInv'
<1>0. PlanTypeOK
  BY DEF CallersInv
<1>1. CASE WatchdogFires
  <2>1. StatusStops
    BY <1>1, StopRequested DEF WatchdogFires, StatusStops
  <2>2. /\ pc'["stop"] = pc["stop"] \/ pc'["stop"] = "revoke"
        /\ \A g \in Frame : pc'[g] = pc[g]
    BY <1>0, <1>1, StopMoves DEF WatchdogFires, Label
  <2>3. worker = "up" /\ UNCHANGED worker
    BY <1>1 DEF WatchdogFires, process
  <2>4. StopKnows' /\ DeniedIsCanceled' /\ StoppedIsOver'
    BY <2>1, <2>2 DEF StopInv, StopKnows, DeniedIsCanceled, StoppedIsOver, Stopped,
       RuntimeEnds, StatusStops
  <2>5. Serving' /\ BootFirst'
    BY <2>2, <2>3, Names DEF StopInv, Serving, BootFirst
  <2> QED
    BY <2>4, <2>5 DEF StopInv
<1>2. CASE Complete
  <2>1. Status = "running" /\ Status' = "completed" /\ Decided' = Decided
    BY <1>2, RunFinished DEF Complete
  <2>2. UNCHANGED <<pc, worker>> /\ worker = "up"
    BY <1>2 DEF Complete, thread, process
  <2>3. StopKnows' /\ DeniedIsCanceled' /\ StoppedIsOver'
    BY <2>1, <2>2 DEF StopInv, StopKnows, DeniedIsCanceled, StoppedIsOver, Stopped, RuntimeEnds
  <2>4. Serving' /\ BootFirst'
    BY <2>2, Names DEF StopInv, Serving, BootFirst
  <2> QED
    BY <2>3, <2>4 DEF StopInv
<1>3. CASE Crash
  <2>1. StatusKept
    BY <1>3, StoreUntouched DEF Crash, StatusKept
  <2>2. \A g \in Frame \cup {"stop"} : pc'[g] = "idle"
    BY <1>3 DEF Crash
  <2> QED
    BY <2>1, <2>2, Names DEF StopInv, StopKnows, DeniedIsCanceled, StoppedIsOver, Stopped,
       RuntimeEnds, Serving,
       BootFirst, StatusKept
<1>4. CASE RuntimeAccepts \/ TimePasses \/ UNCHANGED planVars
  <2>1. StatusKept
    BY <1>4, StoreUntouched, TickEffect DEF RuntimeAccepts, TimePasses, planVars, StatusKept
  <2>2. UNCHANGED <<pc, worker>>
    BY <1>4 DEF RuntimeAccepts, TimePasses, planVars, thread, process
  <2> QED
    BY <2>1, <2>2 DEF StopInv, StopKnows, DeniedIsCanceled, StoppedIsOver, Stopped,
       RuntimeEnds, Serving,
       BootFirst, StatusKept
<1> QED
  BY <1>1, <1>2, <1>3, <1>4

LEMMA RecoverKeepsStop ==
  ASSUME StoreTypeOK, CallersInv, StopInv, Recover, token' => token, RuntimeEnds
  PROVE  StopInv'
<1> DEFINE First == {"recover", "reconcile", "stop_recovered"}
           Goes(at) == /\ Moves("boot", at)
                       /\ pc'["stop"] = pc["stop"] \/ Starting
<1>0. PlanTypeOK /\ "boot" \in Frame
  BY Names DEF CallersInv
<1>1. ASSUME NEW at \in Label, pc' = [pc EXCEPT !["boot"] = at]
      PROVE  Goes(at) /\ pc'["stop"] = pc["stop"]
  BY <1>0, <1>1, TakesThread
(* Every step of a recovery but its first is one of these. *)
<1>2. ASSUME NEW at \in Label \ {"answer"}, Goes(at), pc["boot"] # "idle", UNCHANGED worker,
             StatusKept \/ StatusStops,
             at \in {"reconcile", "stop_recovered"} =>
               pc["boot"] \in {"recover", "reconcile"} /\ StatusKept /\ Status = "stopping"
                 /\ pc'["stop"] = pc["stop"],
             at # "recover"
      PROVE  StopInv'
  <2>1. \A g \in Frame : pc'[g] # "idle" => pc[g] # "idle"
    BY <1>2 DEF Moves
  <2>2. \A g \in Frame : pc'[g] = "answer" => pc[g] = "answer"
    BY <1>2 DEF Moves
  <2>3. DeniedIsCanceled'
    BY <1>2 DEF StopInv, DeniedIsCanceled, StatusKept, StatusStops
  <2>4. StopKnows'
    BY <1>2, <2>3 DEF StopInv, StopKnows, DeniedIsCanceled, Starting, RuntimeEnds, StatusKept,
       StatusStops
  <2>5. Serving'
    BY <1>2, <2>1, Names DEF StopInv, Serving
  <2>6. BootFirst'
    BY <1>2 DEF StopInv, BootFirst, Moves, StatusKept
  <2>7. StoppedIsOver'
    BY <1>2, <2>2 DEF StopInv, StoppedIsOver, Stopped, RuntimeEnds, StatusKept, StatusStops
  <2> QED
    BY <2>3, <2>4, <2>5, <2>6, <2>7 DEF StopInv
<1>3. CASE Boot
  <2>1. StatusKept /\ worker = "down" /\ worker' = "recovering"
    BY <1>3, StoreUntouched DEF Boot, StatusKept
  <2>2. Moves("boot", "recover") /\ pc'["stop"] = "idle"
    BY <1>0, <1>3, <2>1, TakesThread DEF Boot, Label, StopInv, Serving
  <2>3. \A g \in Frame : pc'[g] # "answer"
    BY <2>1, <2>2, Names DEF StopInv, Serving, Moves, Frame
  <2>4. Serving'
    BY <2>1, <2>2, Names DEF StopInv, Serving, Moves
  <2> QED
    BY <2>1, <2>2, <2>3, <2>4
       DEF StopInv, StopKnows, DeniedIsCanceled, StoppedIsOver, Stopped, RuntimeEnds,
           BootFirst, StatusKept, Moves
<1>4. CASE RecoverStopping
  <2>1. /\ StatusKept /\ UNCHANGED worker /\ pc["boot"] = "recover" /\ Status = "stopping"
    BY <1>4, StoreUntouched DEF RecoverStopping, Recovering, StatusKept, process
  <2>2. pc' = [pc EXCEPT !["boot"] = "reconcile"] \/ pc' = [pc EXCEPT !["boot"] = "stop_recovered"]
    BY <1>4 DEF RecoverStopping, Await, Continue
  <2>3. \E at \in {"reconcile", "stop_recovered"} : Goes(at) /\ pc'["stop"] = pc["stop"]
    BY <1>1, <2>2 DEF Label
  <2> HIDE DEF Goes
  <2> QED
    BY <1>2, <2>1, <2>3 DEF Label
<1>5. CASE Reconcile
  <2>1. StatusKept /\ UNCHANGED worker /\ pc["boot"] = "reconcile" /\ Status = "stopping"
    BY <1>5, StoreUntouched DEF Reconcile, StatusKept, process, StopInv, BootFirst
  <2>2. Goes("stop_recovered") /\ pc'["stop"] = pc["stop"]
    BY <1>1, <1>5 DEF Reconcile, Label
  <2> HIDE DEF Goes
  <2> QED
    BY <1>2, <2>1, <2>2 DEF Label
<1>6. CASE RecoverStop
  <2>1. /\ StatusKept /\ UNCHANGED worker /\ pc["boot"] = "stop_recovered" /\ Status = "stopping"
    BY <1>6, StoreUntouched
       DEF RecoverStop, Recovering, StatusKept, process, StopInv, BootFirst
  <2>2. Goes("recovered")
    BY <1>0, <1>6, <2>1, StartStopMoves DEF RecoverStop, Label, Starting, StatusKept
  <2> HIDE DEF Goes
  <2> QED
    BY <1>2, <2>1, <2>2 DEF Label
<1>7. CASE \/ RecoverStoppingFails \/ RecoverConfirmed \/ RecoverPending \/ RecoverUndecided
           \/ RecoveryFailed \/ RecoveryRevokes \/ RecoverEnded \/ RecoverBinding
           \/ BindingBlocked
  <2>1. StatusKept /\ UNCHANGED worker /\ pc["boot"] # "idle"
    BY <1>7, StoreUntouched DEF RecoverStoppingFails, RecoverConfirmed, RecoverPending,
       RecoverUndecided, RecoveryFailed, RecoveryRevokes, RecoverEnded, RecoverBinding,
       BindingBlocked, Recovering, StatusKept, process
  <2>2. \E at \in {"recovered", "recover_rest", "resume", "revoke", "binding", "recovery_failed"} :
          pc' = [pc EXCEPT !["boot"] = at]
    BY <1>7 DEF RecoverStoppingFails, RecoverConfirmed, RecoverPending,
       RecoverUndecided, RecoveryFailed, RecoveryRevokes, RecoverEnded, RecoverBinding,
       BindingBlocked, Await, Continue
  <2>3. \E at \in Label \ (First \cup {"answer"}) : Goes(at)
    BY <1>1, <2>2 DEF Label
  <2> HIDE DEF Goes
  <2> QED
    BY <1>2, <2>1, <2>3
<1>8. CASE RecoverExpired
  <2>1. StatusStops /\ UNCHANGED worker /\ pc["boot"] # "idle"
    BY <1>8, StopRequested DEF RecoverExpired, ExpireDeadline, Recovering, StatusStops, process
  <2>2. Goes("recovered")
    <3>1. CASE dispatching
      BY <1>1, <1>8, <3>1 DEF RecoverExpired, ExpireDeadline, Label
    <3>2. CASE ~ dispatching
      BY <1>0, <1>8, <2>1, <3>2, StartStopMoves
         DEF RecoverExpired, ExpireDeadline, Label, Starting, StatusStops
    <3> QED
      BY <3>1, <3>2
  <2> HIDE DEF Goes
  <2> QED
    BY <1>2, <2>1, <2>2 DEF Label
<1>9. CASE BindingReady
  <2>1. UNCHANGED worker /\ pc["boot"] # "idle"
    BY <1>9 DEF BindingReady, process
  <2>2. CASE Status = "awaiting_plan_approval" /\ runtime.status = "error"
    <3>1. StatusStops
      BY <1>9, <2>2, StopRequested DEF BindingReady, StatusStops
    <3>2. Goes("recovered")
      BY <1>0, <1>9, <2>2, <3>1, StartStopMoves DEF BindingReady, Label, Starting, StatusStops
    <3> HIDE DEF Goes
    <3> QED
      BY <1>2, <2>1, <3>1, <3>2 DEF Label
  <2>3. CASE ~ (Status = "awaiting_plan_approval" /\ runtime.status = "error")
    <3>1. StatusKept
      BY <1>9, <2>3, StoreUntouched DEF BindingReady, StatusKept
    <3>2. Goes("recovered")
      BY <1>1, <1>9, <2>3 DEF BindingReady, Label
    <3> HIDE DEF Goes
    <3> QED
      BY <1>2, <2>1, <3>1, <3>2 DEF Label
  <2> QED
    BY <2>2, <2>3
<1>10. CASE Recovered
  <2>1. StatusKept /\ pc["boot"] # "idle" /\ worker = "recovering"
    BY <1>10, StoreUntouched DEF Recovered, Recovering, StatusKept, StopInv, Serving
  <2>2. CASE pc["stop"] = "idle"
    <3>1. worker' = "up" /\ Moves("boot", "idle") /\ pc'["stop"] = pc["stop"]
      BY <1>1, <1>10, <2>2 DEF Recovered, Label
    <3>2. \A c \in Caller : pc'[c] = "idle"
      BY <2>1, <3>1, Names DEF Moves, StopInv, Serving
    <3> QED
      BY <2>1, <2>2, <3>1, <3>2, Names
         DEF StopInv, StopKnows, DeniedIsCanceled, StoppedIsOver, Stopped, RuntimeEnds,
             BootFirst, Serving,
             StatusKept, Moves, Frame
  <2>3. CASE pc["stop"] # "idle"
    BY <1>10, <2>1, <2>3 DEF Recovered, StopInv, StopKnows, DeniedIsCanceled, StoppedIsOver,
       Stopped, RuntimeEnds,
       BootFirst, Serving, StatusKept
  <2> QED
    BY <2>2, <2>3
<1>11. CASE RecoveryResumes
  <2>1. StatusKept /\ UNCHANGED <<pc, worker>>
    BY <1>11, StoreUntouched DEF RecoveryResumes, StatusKept, process
  <2> QED
    BY <2>1 DEF StopInv, StopKnows, DeniedIsCanceled, StoppedIsOver, Stopped, RuntimeEnds,
       BootFirst, Serving, StatusKept
<1> QED
  BY <1>3, <1>4, <1>5, <1>6, <1>7, <1>8, <1>9, <1>10, <1>11 DEF Recover
LEMMA StopStep ==
  ASSUME StoreTypeOK, CallersInv, StopInv, [PlanNext]_planVars
  PROVE  StopInv'
<1>1. (token' => token) /\ RuntimeEnds
  BY TokenOnlyRevoked, RuntimeOnlyEnds DEF CallersInv
<1> QED
  BY <1>1, ResumeKeepsStop, StopKeepsStop, OwnerKeepsStop, OthersKeepStop, RecoverKeepsStop
     DEF PlanNext

LEMMA StopInit == PlanInit => StopInv
<1> SUFFICES ASSUME PlanInit PROVE StopInv
  OBVIOUS
<1>1. Status = "awaiting_plan_approval" /\ Decided = "pending"
  BY RunInStore DEF PlanInit, Status, Decided, NoRun
<1>2. \A f \in Frame \cup {"stop"} : pc[f] = "idle"
  BY DEF PlanInit
<1> QED
  BY <1>1, <1>2, Names DEF StopInv, StopKnows, BootFirst, Serving, DeniedIsCanceled,
     StoppedIsOver, Stopped, RuntimeEnds

(* The inductive invariant that holds for any callers. *)
LEMMA StopInvariant == PlanSpec => [](StoreInv /\ CallersInv /\ StopInv)
<1>1. StoreInv /\ CallersInv /\ StopInv /\ [PlanNext]_planVars => StopInv'
  BY StopStep DEF StoreInv
<1> QED
  BY <1>1, StopInit, CallersInvariant, PTL DEF PlanSpec

(* A run that was stopped and canceled has lost its tools, is closed for   *)
(* good, and names every request that may still reach the runtime, however *)
(* many calls overlapped with the stop.                                    *)
THEOREM StoppedRevoked == PlanSpec => []StoppedIsRevoked
<1>1. CallersInv /\ StopInv => StoppedIsRevoked
  <2> SUFFICES ASSUME CallersInv, StopInv, Stopped PROVE StoppedIsRevoked
    BY DEF StoppedIsRevoked
  <2>1. ~ token /\ runtime.status \in {"done", "error"}
    BY DEF StopInv, StoppedIsOver
  <2>2. ASSUME continuation.status \in {"none", "prepared"} PROVE net \cup turns = {}
    BY <2>2 DEF CallersInv, RequestsNumbered
  <2>3. continuation.status \in {"none", "prepared", "dispatched", "confirmed", "unknown"}
    BY DEF CallersInv, PlanTypeOK, Continuation
  <2> QED
    BY <2>1, <2>2, <2>3 DEF StoppedIsRevoked
<1> QED
  BY <1>1, StopInvariant, PTL

(* A stopped run asks the runtime for nothing more, however many calls     *)
(* overlap: the request goes out only for a run that is still active, or   *)
(* to deliver a denial.                                                    *)
THEOREM StoppedQuiet == PlanSpec => StoppedAsksNothing
<1>1. CallersInv /\ [PlanNext]_planVars => [Stopped => sent' = sent]_planVars
  <2> SUFFICES ASSUME CallersInv, PlanNext, Stopped PROVE sent' = sent
    OBVIOUS
  <2>1. ASSUME NEW f \in Frame, Resume(f) PROVE sent' = sent
    <3>1. ~ Post(f)
      BY PostNeedsRun DEF CallersInv, Stopped
    <3> QED
      BY <2>1, <3>1 DEF Resume, ResumeRefused, ResumeStopped, ResumePrepared, ResumeSettled,
         Gate, Record, RecordRefused, WindowExpired, WindowOpen, Mark, Latest, PostRefused,
         PostFails, Answered, Rejected, Commit, Find, Found, NotFound, FindFails, TailDeny,
         TailAllow, Arm, wire
  <2>2. ASSUME Owner \/ Stop PROVE sent' = sent
    BY <2>2 DEF Owner, DecideFirst, DecideAgain, InspectFails, Prepare, Cancel, Stop, Revoke,
       Blocked, Account, CleanupDone, CleanupFails, Settle, FinishStop, ClearStopError, wire
  <2>3. ASSUME Recover PROVE sent' = sent
    BY <2>3 DEF Recover, Boot, RecoverStopping, RecoverStoppingFails, Reconcile,
       RecoverStop, RecoverConfirmed, RecoverPending, RecoverUndecided, RecoveryFailed,
       RecoveryRevokes, RecoverEnded, RecoverExpired, RecoverBinding, BindingBlocked,
       BindingReady, Recovered, RecoveryResumes, wire
  <2>4. ASSUME WatchdogFires \/ Complete \/ Crash \/ RuntimeAccepts \/ TimePasses
        PROVE  sent' = sent
    BY <2>4 DEF WatchdogFires, Complete, Crash, RuntimeAccepts, TimePasses, wire
  <2> QED
    BY <2>1, <2>2, <2>3, <2>4 DEF PlanNext
<1> QED
  BY <1>1, CallersInvariant, PTL DEF PlanSpec, StoppedAsksNothing

-----------------------------------------------------------------------------
(* One owner who waits for each answer keeps the frames apart: recovery    *)
(* ends before the first call is served, and a crash ends every frame.     *)

OneCaller == \A c, d \in Caller : c = d

LEMMA ServingIsOne == OneCaller /\ Serving => OneFrame
  BY DEF OneCaller, Serving, OneFrame, Frame

(* A frame that waits for an answer shows as a dispatch in flight, and the *)
(* stop does not pass while there is one.                                  *)
LEMMA AwaitStep ==
  ASSUME StoreTypeOK, CallersInv, StopInv, RecordInv, AwaitInv, [PlanNext]_planVars
  PROVE  AwaitInv'
<1> DEFINE Later == {"cleanup", "settle", "cancel", "clear"}
<1>0. PlanTypeOK /\ \A f \in Frame : FrameKnows(f) /\ CallerKnows(f)
  BY DEF RecordInv, CallersInv
<1>1. ASSUME NEW f \in Frame, Resume(f) PROVE AwaitInv'
  <2>1. FrameMoves(f)
    BY <1>0, <1>1, ResumeMoves
  <2>2. PICK at \in Label : Moves(f, at)
    BY <2>1 DEF FrameMoves
  <2>3. StatusKept \/ StatusStops \/ StatusDecided
    BY <1>0, <1>1, ResumeStatus
  <2>4. \A g \in Frame : pc'[g] = "answer" =>
          \/ pc[g] = "answer"
          \/ /\ Status = "running" \/ Decided = "deny"
             /\ StatusKept /\ pc'["stop"] = pc["stop"]
    BY <1>0, <2>1, <2>2, PostNeedsRun DEF FrameMoves, Moves
  <2>5. (pc'["stop"] \in Later => pc["stop"] \in Later) /\ (Stopped' => Stopped)
    BY <2>1, <2>3 DEF FrameMoves, Starting, Stopped, StatusKept, StatusStops, StatusDecided
  <2>6. pc["stop"] \in Later \/ Stopped => Status # "running" /\ Decided # "deny"
    BY DEF StopInv, StopKnows, Stopped
  <2> QED
    BY <2>4, <2>5, <2>6 DEF AwaitInv
<1>2. ASSUME Stop PROVE AwaitInv'
  <2>1. \/ pc' = [pc EXCEPT !["stop"] = "idle"] /\ StatusKept
        \/ pc' = [pc EXCEPT !["stop"] = "account"] /\ StatusKept
        \/ /\ \E at \in Later : pc' = [pc EXCEPT !["stop"] = at]
           /\ ~ dispatching \/ pc["stop"] \in Later
    BY <1>2, StoreUntouched DEF Stop, Revoke, Blocked, Account, CleanupDone, CleanupFails, Settle,
       FinishStop, ClearStopError, YieldStop, Continue, StatusKept
  <2>2. \E at \in Label : pc' = [pc EXCEPT !["stop"] = at]
    BY <2>1 DEF Label
  <2>3. \A g \in Frame : pc'[g] = pc[g]
    BY <1>0, <2>2, StopMoves
  <2>4. CASE ~ dispatching \/ pc["stop"] \in Later
    <3>1. \A g \in Frame : pc[g] # "answer"
      BY <1>0, <2>4 DEF FrameKnows, AwaitInv
    <3> QED
      BY <2>3, <3>1 DEF AwaitInv
  <2>5. CASE (\E at \in {"idle", "account"} : pc' = [pc EXCEPT !["stop"] = at]) /\ StatusKept
    <3>1. pc'["stop"] \notin Later
      BY <1>0, <2>5, StopMoves DEF Label
    <3> QED
      BY <2>3, <2>5, <3>1 DEF AwaitInv, Stopped, StatusKept
  <2> QED
    BY <2>1, <2>4, <2>5
(* No other step leads to waiting for an answer. *)
<1>3. ASSUME \A g \in Frame : pc'[g] = "answer" => pc[g] = "answer",
             pc'["stop"] \in Later => pc["stop"] \in Later, Stopped' => Stopped
      PROVE  AwaitInv'
  BY <1>3 DEF AwaitInv
<1>4. ASSUME Owner PROVE AwaitInv'
  <2>1. CASE Cancel
    <3>1. Status' = "stopping"
      BY <2>1, StopRequested, StoreUntouched DEF Cancel
    <3>2. pc'["stop"] = "revoke" /\ \A g \in Frame : pc'[g] = pc[g]
      BY <1>0, <2>1, StopMoves DEF Cancel, Label
    <3> QED
      BY <1>3, <3>1, <3>2 DEF Stopped
  <2>2. ASSUME NEW c \in Caller,
               \/ \E d \in Decision, b \in Binding : DecideFirst(c, d, b)
               \/ DecideAgain(c) \/ InspectFails(c) \/ Prepare(c)
        PROVE  AwaitInv'
    <3>1. StatusKept
      BY <2>2, StoreUntouched DEF DecideFirst, DecideAgain, InspectFails, Prepare, StatusKept
    <3>2. \E at \in {"inspect", "resume", "resume_inspected", "idle"} : pc' = [pc EXCEPT ![c] = at]
      BY <2>2, Names DEF DecideFirst, DecideAgain, InspectFails, Prepare, Await, End, After
    <3>3. pc'["stop"] = pc["stop"] /\ \A g \in Frame : pc'[g] = "answer" => pc[g] = "answer"
      BY <1>0, <3>2, Names, TakesThread DEF Label, Moves
    <3> QED
      BY <1>3, <3>1, <3>3 DEF Stopped, StatusKept
  <2> QED
    BY <1>4, <2>1, <2>2 DEF Owner
<1>5. ASSUME Recover PROVE AwaitInv'
  <2>1. UNCHANGED storeVars \/ RequestStop(run)
    BY <1>5 DEF Recover, Boot, RecoverStopping, RecoverStoppingFails, Reconcile,
       RecoverStop, RecoverConfirmed, RecoverPending, RecoverUndecided, RecoveryFailed,
       RecoveryRevokes, RecoverEnded, RecoverExpired, RecoverBinding, BindingBlocked,
       BindingReady, Recovered, RecoveryResumes, ExpireDeadline
  <2>2. Stopped' => Stopped
    BY <2>1, StoreUntouched, StopRequested DEF Stopped
  <2> DEFINE Ends == {"recover", "reconcile", "stop_recovered", "recover_rest", "resume",
                      "recovery_failed", "revoke", "binding", "recovered", "idle"}
  <2>3. \/ \E at \in Ends : pc' = [pc EXCEPT !["boot"] = at]
        \/ StartStop("boot", "recovered") \/ ExpireDeadline("boot", "recovered")
        \/ UNCHANGED pc
    BY <1>5 DEF Recover, Boot, RecoverStopping, RecoverStoppingFails, Reconcile,
       RecoverStop, RecoverConfirmed, RecoverPending, RecoverUndecided, RecoveryFailed,
       RecoveryRevokes, RecoverEnded, RecoverExpired, RecoverBinding, BindingBlocked,
       BindingReady, Recovered, RecoveryResumes, Await, Continue
  <2>4. CASE UNCHANGED pc
    BY <1>3, <2>2, <2>4
  <2>5. CASE \E at \in Ends : pc' = [pc EXCEPT !["boot"] = at]
    <3>1. PICK at \in Ends : pc' = [pc EXCEPT !["boot"] = at]
      BY <2>5
    <3>2. at \in Label /\ at # "answer"
      BY DEF Label
    <3>3. Moves("boot", at) /\ pc'["stop"] = pc["stop"]
      BY <1>0, <3>1, <3>2, Names, TakesThread
    <3> QED
      BY <1>3, <2>2, <3>2, <3>3 DEF Moves
  <2>6. CASE StartStop("boot", "recovered") \/ ExpireDeadline("boot", "recovered")
    <3>1. Moves("boot", "recovered") /\ pc'["stop"] \in {"revoke", pc["stop"]}
      BY <1>0, <2>6, Names, StartStopMoves, ExpireMoves DEF Label
    <3> QED
      BY <1>3, <2>2, <3>1 DEF Moves
  <2> QED
    BY <2>3, <2>4, <2>5, <2>6
<1>6. CASE Crash
  <2>1. \A g \in Frame : pc'[g] = "idle"
    BY <1>6 DEF Crash
  <2> QED
    BY <2>1 DEF AwaitInv
<1>7. CASE WatchdogFires
  <2>1. Status' = "stopping"
    BY <1>7, StopRequested DEF WatchdogFires
  <2>2. /\ pc'["stop"] = pc["stop"] \/ pc'["stop"] = "revoke"
        /\ \A g \in Frame : pc'[g] = pc[g]
    BY <1>0, <1>7, StopMoves DEF WatchdogFires, Label
  <2> QED
    BY <1>3, <2>1, <2>2 DEF Stopped
<1>8. CASE Complete \/ RuntimeAccepts \/ TimePasses \/ UNCHANGED planVars
  <2>1. UNCHANGED pc
    BY <1>8 DEF Complete, RuntimeAccepts, TimePasses, planVars, thread
  <2>2. Stopped' => Stopped
    BY <1>8, RunFinished, StoreUntouched, TickEffect
       DEF Complete, RuntimeAccepts, TimePasses, planVars, Stopped
  <2> QED
    BY <1>3, <2>1, <2>2
<1> QED
  BY <1>1, <1>2, <1>4, <1>5, <1>6, <1>7, <1>8 DEF PlanNext

(* With one caller the hypothesis of the theorems above holds by itself,   *)
(* and the whole invariant of the plan approval is inductive.              *)
THEOREM OneCallerOneFrame == OneCaller => (PlanSpec => [](PlanInv /\ OneFrame))
<1> SUFFICES ASSUME OneCaller PROVE PlanSpec => [](PlanInv /\ OneFrame)
  OBVIOUS
<1>1. PlanInv => OneFrame
  BY ServingIsOne DEF PlanInv, StopInv
<1>2. PlanInit => PlanInv
  <2> SUFFICES ASSUME PlanInit PROVE PlanInv
    OBVIOUS
  <2>1. AwaitInv
    BY DEF PlanInit, AwaitInv
  <2> QED
    BY <2>1, PlanStoreInit, CallersInit, RecordInit, StopInit DEF PlanInv
<1>3. PlanInv /\ [PlanNext]_planVars => PlanInv'
  BY <1>1, PlanStoreStep, StoreInvStep, CallersStep, RecordStep, StopStep, AwaitStep
     DEF PlanInv, StoreInv, RecordInv
<1> QED
  BY <1>1, <1>2, <1>3, PTL DEF PlanSpec

(* With one caller a stop waits for the dispatch it raced: in a run that   *)
(* was stopped and canceled no frame still waits for the runtime's answer, *)
(* and a request that may still arrive after its answer was given up is on *)
(* record as dispatched or unknown, never as confirmed.                    *)
THEOREM CanceledClosed == OneCaller => (PlanSpec => []CanceledIsClosed)
<1> SUFFICES ASSUME OneCaller PROVE PlanSpec => []CanceledIsClosed
  OBVIOUS
<1>1. PlanInv /\ StoppedIsRevoked => CanceledIsClosed
  <2> SUFFICES ASSUME PlanInv, StoppedIsRevoked, Stopped PROVE CanceledIsClosed
    BY DEF CanceledIsClosed
  <2>1. \A f \in Frame : pc[f] # "answer"
    BY DEF PlanInv, AwaitInv
  <2>2. ASSUME net # {} PROVE continuation.status \in {"dispatched", "unknown"}
    <3>1. WireInv
      BY DEF PlanInv, RecordInv
    <3>2. PICK n \in net : TRUE
      BY <2>2
    <3>3. n = 1 /\ sent = 1
      BY <3>1, <3>2 DEF WireInv
    <3>4. turns = {}
      <4> SUFFICES ASSUME NEW t \in turns PROVE FALSE
        OBVIOUS
      <4>1. t \in 1..sent
        BY <3>1 DEF WireInv
      <4> QED
        BY <3>1, <3>2, <3>3, <4>1 DEF WireInv
    <3>5. continuation.status \in {"none", "prepared", "dispatched", "confirmed", "unknown"}
      BY DEF PlanInv, RecordInv, PlanTypeOK, Continuation
    <3> QED
      <4>1. continuation.status # "confirmed"
        BY <3>1, <3>4 DEF WireInv
      <4>2. continuation.status \notin {"none", "prepared"}
        BY <3>1, <3>3 DEF WireInv
      <4> QED
        BY <3>5, <4>1, <4>2
  <2> QED
    BY <2>1, <2>2 DEF CanceledIsClosed
<1> QED
  BY <1>1, OneCallerOneFrame, StoppedRevoked, PTL
=============================================================================
