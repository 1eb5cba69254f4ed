------------------------------ MODULE RunStore ------------------------------
(***************************************************************************)
(* The durable control store of src/run/index.ts: runs, their plan         *)
(* approval, the operations a run may dispatch and the external waits that *)
(* extend its execution window.  Every public method is one immediate      *)
(* SQLite transaction, hence one action.  A call the code refuses (it      *)
(* throws a ControlError) and a call that only reads leave the store as it *)
(* is: they are stuttering steps, and their conditions are the guards of   *)
(* the actions below.                                                      *)
(*                                                                         *)
(* The approval id and the binding hash are fresh per run (a random UUID   *)
(* and a hash over a record that holds the run id), so both are modelled   *)
(* by the run they were issued for.  The kind and the argument hash of an  *)
(* operation are only ever compared together: one value, its request.      *)
(* The run_events log is written beside each change and never read by a    *)
(* guard; it is left out.                                                  *)
(***************************************************************************)
EXTENDS Integers, FiniteSets

CONSTANTS
  RunId,            \* run identifiers the store may hand out
  Project,          \* projects
  OperationId,      \* operation identifiers, chosen by the caller
  Request,          \* kind and argument hash of an operation
  Receipt,          \* receipts of confirmed operations
  WaitId,           \* keys of external waits
  VerdictLists,     \* verdict lists a caller may finish with, each as its set
  LeaseMs,          \* lease lengths a caller may ask for
  ApprovalMs,       \* RUN_LIMITS.approvalMilliseconds
  ActiveMs,         \* RUN_LIMITS.activeMilliseconds
  ExternalWaitMs,   \* RUN_LIMITS.externalWaitMilliseconds
  OperationLimit,   \* RUN_LIMITS.operations
  MaxTime           \* bound on the clock

ASSUME StoreAssumption ==
  /\ ApprovalMs \in Nat \ {0}
  /\ ActiveMs \in Nat \ {0}
  /\ ExternalWaitMs \in Nat
  /\ OperationLimit \in Nat
  /\ LeaseMs \subseteq Nat \ {0}
  /\ MaxTime \in Nat
  /\ IsFiniteSet(OperationId)
  /\ VerdictLists \subseteq
       SUBSET {"pass", "fail", "inconclusive", "unsupported", "skipped"}

VARIABLES
  now,       \* the clock the store reads
  runs,      \* table runs
  ops,       \* table operations
  credits,   \* table external_wait_credits
  grants     \* history: the claims that were answered "dispatch"

storeVars == <<now, runs, ops, credits, grants>>

-----------------------------------------------------------------------------
(* Records *)

None == -1                      \* a NULL time
Time == Nat \cup {None}

Live == {"awaiting_plan_approval", "running", "stopping"}
Terminal == {"completed", "canceled"}
RunStatus == {"absent"} \cup Live \cup Terminal
Verdict == {"pass", "fail", "inconclusive", "unsupported", "skipped"}
Outcome == {"none", "passed", "failed", "inconclusive"}

Run == [status    : RunStatus,
        project   : Project \cup {"none"},
        active    : BOOLEAN,      \* the column of the partial unique index
        decision  : {"pending", "allow", "deny"},
        expiresAt : Nat,
        startedAt : Time,
        verdicts  : SUBSET Verdict,
        outcome   : Outcome]

Operation == [state      : {"absent", "dispatched", "unknown", "confirmed"},
              run        : RunId \cup {"none"},
              request    : Request \cup {"none"},
              leaseUntil : Nat,
              receipt    : Receipt \cup {"null"}]

NoRun == [status |-> "absent", project |-> "none", active |-> FALSE,
          decision |-> "pending", expiresAt |-> 0, startedAt |-> None,
          verdicts |-> {}, outcome |-> "none"]

NoOperation == [state |-> "absent", run |-> "none", request |-> "none",
                leaseUntil |-> 0, receipt |-> "null"]

Credit == [startedAt : Time, endedAt : Time]
NoCredit == [startedAt |-> None, endedAt |-> None]

OperationsOf(r) == {o \in OperationId : ops[o].state # "absent" /\ ops[o].run = r}

(* Mutant: a stopping run no longer holds its project. *)
SaveRunReleasesStopping(r, run) ==
  runs' = [runs EXCEPT ![r] =
             [run EXCEPT !.active = run.status \in {"running", "awaiting_plan_approval"}]]

(* saveRun: the active column is recomputed from the status on every save. *)
SaveRun(r, run) ==
  runs' = [runs EXCEPT ![r] =
             [run EXCEPT !.active =
                run.status \in {"running", "stopping", "awaiting_plan_approval"}]]

(* aggregateVerdicts: a list of verdicts is represented by its set. *)
AggregateVerdicts(verdicts) ==
  IF "fail" \in verdicts THEN "failed"
  ELSE IF verdicts = {"pass"} THEN "passed"
  ELSE "inconclusive"

-----------------------------------------------------------------------------
(* Transactions *)

CreateRun(r, p) ==
  /\ runs[r].status = "absent"
  /\ ~ \E q \in RunId : runs[q].project = p /\ runs[q].active
  /\ runs' = [runs EXCEPT ![r] =
       [status |-> "awaiting_plan_approval", project |-> p, active |-> TRUE,
        decision |-> "pending", expiresAt |-> now + ApprovalMs,
        startedAt |-> None, verdicts |-> {}, outcome |-> "none"]]
  /\ UNCHANGED <<now, ops, credits, grants>>

(* A decision carries the approval id and binding hash issued for run b. *)
DecidePlan(r, b, decision) ==
  /\ runs[r].status = "awaiting_plan_approval"
  /\ b = r
  /\ runs[r].decision = "pending"
  /\ now < runs[r].expiresAt
  /\ SaveRun(r, [runs[r] EXCEPT
       !.decision  = decision,
       !.status    = IF decision = "allow" THEN "running" ELSE "canceled",
       !.startedAt = IF decision = "allow" THEN now ELSE None])
  /\ UNCHANGED <<now, ops, credits, grants>>

CreditExternalWait(r, w, startedAt, endedAt) ==
  /\ credits[<<r, w>>] = NoCredit
  /\ runs[r].status = "running"
  /\ runs[r].decision = "allow"
  /\ runs[r].startedAt # None
  /\ runs[r].startedAt <= startedAt
  /\ startedAt <= endedAt
  /\ endedAt <= now
  /\ endedAt - startedAt <= ExternalWaitMs
  /\ SaveRun(r, [runs[r] EXCEPT !.startedAt = @ + (endedAt - startedAt)])
  /\ credits' = [credits EXCEPT ![<<r, w>>] =
                   [startedAt |-> startedAt, endedAt |-> endedAt]]
  /\ UNCHANGED <<now, ops, grants>>

(* Mutant: a stopping run may still dispatch. *)
MayClaimWhileStopping(r, b) ==
  runs[r].status \in {"running", "stopping"} /\ runs[r].decision = "allow" /\ b = r

MayClaim(r, b) ==
  /\ runs[r].status = "running"
  /\ runs[r].decision = "allow"
  /\ b = r

(* Mutant: an operation of unknown outcome is dispatched again. *)
ClaimUnknownAgain(r, b, o, request, lease) ==
  /\ MayClaim(r, b)
  /\ ops[o].state \in {"absent", "unknown"}
  /\ now - runs[r].startedAt < ActiveMs
  /\ Cardinality(OperationsOf(r)) < OperationLimit
  /\ ops' = [ops EXCEPT ![o] =
       [state |-> "dispatched", run |-> r, request |-> request,
        leaseUntil |-> now + lease, receipt |-> "null"]]
  /\ grants' = grants \cup {[op |-> o, run |-> r, request |-> request, at |-> now]}
  /\ UNCHANGED <<now, runs, credits>>

(* claimOperation on an unused id: the intent is stored before the caller *)
(* is told to dispatch.                                                   *)
ClaimDispatch(r, b, o, request, lease) ==
  /\ MayClaim(r, b)
  /\ ops[o].state = "absent"
  /\ runs[r].startedAt # None
  /\ now - runs[r].startedAt < ActiveMs
  /\ Cardinality(OperationsOf(r)) < OperationLimit
  /\ ops' = [ops EXCEPT ![o] =
       [state |-> "dispatched", run |-> r, request |-> request,
        leaseUntil |-> now + lease, receipt |-> "null"]]
  /\ grants' = grants \cup {[op |-> o, run |-> r, request |-> request, at |-> now]}
  /\ UNCHANGED <<now, runs, credits>>

(* claimOperation on a dispatched id whose lease ran out. *)
ClaimExpired(r, b, o, request) ==
  /\ MayClaim(r, b)
  /\ ops[o].state = "dispatched"
  /\ ops[o].run = r
  /\ ops[o].request = request
  /\ now >= ops[o].leaseUntil
  /\ ops' = [ops EXCEPT ![o].state = "unknown"]
  /\ UNCHANGED <<now, runs, credits, grants>>

AbandonDispatched(r) ==
  /\ runs[r].status # "absent"
  /\ \E o \in OperationsOf(r) : ops[o].state = "dispatched"
  /\ ops' = [o \in OperationId |->
       IF o \in OperationsOf(r) /\ ops[o].state = "dispatched"
       THEN [ops[o] EXCEPT !.state = "unknown"]
       ELSE ops[o]]
  /\ UNCHANGED <<now, runs, credits, grants>>

ConfirmOperation(r, o, receipt) ==
  /\ runs[r].status # "absent"
  /\ o \in OperationsOf(r)
  /\ ops[o].state # "confirmed"
  /\ ops' = [ops EXCEPT ![o].state = "confirmed", ![o].receipt = receipt]
  /\ UNCHANGED <<now, runs, credits, grants>>

(* Mutant: a completed run may be canceled. *)
CancelCompleted(r) ==
  /\ runs[r].status \in Live \cup {"completed"}
  /\ SaveRun(r, [runs[r] EXCEPT !.status = "canceled"])
  /\ UNCHANGED <<now, ops, credits, grants>>

CancelRun(r) ==
  /\ runs[r].status \in Live
  /\ SaveRun(r, [runs[r] EXCEPT !.status = "canceled"])
  /\ UNCHANGED <<now, ops, credits, grants>>

RequestStop(r) ==
  /\ runs[r].status \in {"awaiting_plan_approval", "running"}
  /\ SaveRun(r, [runs[r] EXCEPT !.status = "stopping"])
  /\ UNCHANGED <<now, ops, credits, grants>>

FinishRun(r, verdicts) ==
  /\ runs[r].status = "running"
  /\ SaveRun(r, [runs[r] EXCEPT
       !.status   = "completed",
       !.verdicts = verdicts,
       !.outcome  = AggregateVerdicts(verdicts)])
  /\ UNCHANGED <<now, ops, credits, grants>>

Tick ==
  /\ now < MaxTime
  /\ now' = now + 1
  /\ UNCHANGED <<runs, ops, credits, grants>>

-----------------------------------------------------------------------------
(* The store serves any caller: which calls come, and in which order, is  *)
(* not restricted here.                                                   *)

StoreInit ==
  /\ now = 0
  /\ runs = [r \in RunId |-> NoRun]
  /\ ops = [o \in OperationId |-> NoOperation]
  /\ credits = [rw \in RunId \X WaitId |-> NoCredit]
  /\ grants = {}

Claim(r) ==
  \E b \in RunId, o \in OperationId, request \in Request :
    \/ \E lease \in LeaseMs : ClaimDispatch(r, b, o, request, lease)
    \/ ClaimExpired(r, b, o, request)

Decide(r) ==
  \E b \in RunId, decision \in {"allow", "deny"} : DecidePlan(r, b, decision)

CreditWait(r) ==
  \E w \in WaitId, s \in 0..now, e \in 0..now : CreditExternalWait(r, w, s, e)

StoreNext ==
  \/ Tick
  \/ \E r \in RunId :
       \/ \E p \in Project : CreateRun(r, p)
       \/ Decide(r)
       \/ CreditWait(r)
       \/ Claim(r)
       \/ AbandonDispatched(r)
       \/ \E o \in OperationId, receipt \in Receipt : ConfirmOperation(r, o, receipt)
       \/ CancelRun(r)
       \/ RequestStop(r)
       \/ \E verdicts \in VerdictLists : FinishRun(r, verdicts)

StoreSpec == StoreInit /\ [][StoreNext]_storeVars

-----------------------------------------------------------------------------
(* Properties *)

Grant == [op : OperationId, run : RunId, request : Request, at : Nat]

(* Every table holds well-formed records. *)
StoreTypeOK ==
  /\ now \in Nat
  /\ runs \in [RunId -> Run]
  /\ ops \in [OperationId -> Operation]
  /\ credits \in [RunId \X WaitId -> Credit]
  /\ grants \subseteq Grant

(* A project never has two runs that are awaiting approval, running or     *)
(* stopping: createRun looks at the active column only, which saveRun      *)
(* recomputes on every transition, and a run that is stopping keeps its    *)
(* project until cancelRun.                                                *)
OneActiveRunPerProject ==
  \A r, q \in RunId :
    runs[r].status \in Live /\ runs[q].status \in Live
      /\ runs[r].project = runs[q].project => r = q

(* claimOperation answers "dispatch" at most once for an operation id,     *)
(* whatever expired, was abandoned, confirmed late or retried in between,  *)
(* and by whichever run.                                                   *)
AtMostOneGrant ==
  \A g, h \in grants : g.op = h.op => g = h

(* The record of an operation that was ever dispatched still names the run *)
(* and the request it was dispatched for, and that run had an allowed      *)
(* plan.                                                                   *)
GrantsAccounted ==
  \A g \in grants :
    /\ ops[g.op].state # "absent"
    /\ ops[g.op].run = g.run
    /\ ops[g.op].request = g.request
    /\ runs[g.run].decision = "allow"

(* Crediting external waits moves startedAt towards now but never past it: *)
(* the time a run has used is never negative, however many waits are       *)
(* credited and however they overlap.                                      *)
ElapsedNeverNegative ==
  \A r \in RunId : runs[r].startedAt # None => runs[r].startedAt <= now

(* No run ever holds more operations than RUN_LIMITS.operations. *)
WithinOperationLimit ==
  \A r \in RunId : Cardinality(OperationsOf(r)) <= OperationLimit

(* A terminal run is immutable, and so is the receipt of a confirmed       *)
(* operation, also when the confirmation came after the run ended.         *)
TerminalFrozen ==
  [][/\ \A r \in RunId :
          runs[r].status \in Terminal => runs'[r] = runs[r]
     /\ \A o \in OperationId :
          ops[o].state = "confirmed" => ops'[o] = ops[o]]_storeVars

(* Once a stop is requested, and after a run ends, nothing new is          *)
(* dispatched for it; an effect already dispatched may still be confirmed. *)
NoGrantAfterStop ==
  [][\A r \in RunId :
       runs[r].status \in {"stopping"} \cup Terminal =>
         OperationsOf(r)' = OperationsOf(r)]_storeVars
=============================================================================
