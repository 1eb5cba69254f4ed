--------------------------- MODULE RunStoreProofs ---------------------------
(* Proofs about RunStore: its type invariant, its safety invariants and    *)
(* its action properties, for every value of the constants.                *)
EXTENDS RunStore, FiniteSetTheorems, TLAPS

(* SaveRun recomputes the active column: what it stores, field by field.   *)
LEMMA SaveRunType ==
  ASSUME NEW r \in RunId, NEW run \in Run, StoreTypeOK, SaveRun(r, run)
  PROVE  /\ runs' \in [RunId -> Run]
         /\ \A q \in RunId : q # r => runs'[q] = runs[q]
         /\ runs'[r] = [run EXCEPT !.active = run.status \in Live]
         /\ runs'[r].active <=> run.status \in Live
<1> DEFINE live == run.status \in {"running", "stopping", "awaiting_plan_approval"}
<1>1. live \in BOOLEAN /\ live = (run.status \in Live)
  BY DEF Live
<1>2. runs' = [runs EXCEPT ![r] = [run EXCEPT !.active = live]]
  BY DEF SaveRun
<1>3. live <=> run.status \in Live
  BY DEF Live
<1> HIDE DEF live
<1>4. [run EXCEPT !.active = live] \in Run /\ [run EXCEPT !.active = live].active = live
  BY <1>1 DEF Run
<1> QED
  BY <1>1, <1>2, <1>3, <1>4 DEF StoreTypeOK

(* The fields a save stores are those it was given, but for active.        *)
LEMMA SavedFields ==
  ASSUME NEW r \in RunId, NEW run \in Run, StoreTypeOK, SaveRun(r, run)
  PROVE  /\ runs'[r].status = run.status
         /\ runs'[r].decision = run.decision
         /\ runs'[r].startedAt = run.startedAt
<1>1. runs'[r] = [run EXCEPT !.active = run.status \in Live]
  BY SaveRunType
<1> QED
  BY <1>1 DEF Run

(* What each transaction does to the status, the decision and the start of *)
(* the run it is called for.                                               *)
LEMMA RequestStopEffect ==
  ASSUME StoreTypeOK, NEW r \in RunId, RequestStop(r)
  PROVE  /\ runs[r].status \in {"awaiting_plan_approval", "running"}
         /\ runs'[r].status = "stopping"
         /\ runs'[r].decision = runs[r].decision
         /\ runs'[r].startedAt = runs[r].startedAt
<1> DEFINE new == [runs[r] EXCEPT !.status = "stopping"]
<1>1. /\ new \in Run
      /\ new.status = "stopping"
      /\ new.decision = runs[r].decision /\ new.startedAt = runs[r].startedAt
  BY DEF StoreTypeOK, Run, RunStatus, Live
<1>2. SaveRun(r, new)
  BY DEF RequestStop
<1> HIDE DEF new
<1> QED
  BY <1>1, <1>2, SavedFields DEF RequestStop

LEMMA CancelRunEffect ==
  ASSUME StoreTypeOK, NEW r \in RunId, CancelRun(r)
  PROVE  /\ runs[r].status \in Live
         /\ runs'[r].status = "canceled"
         /\ runs'[r].decision = runs[r].decision
         /\ runs'[r].startedAt = runs[r].startedAt
<1> DEFINE new == [runs[r] EXCEPT !.status = "canceled"]
<1>1. /\ new \in Run
      /\ new.status = "canceled"
      /\ new.decision = runs[r].decision /\ new.startedAt = runs[r].startedAt
  BY DEF StoreTypeOK, Run, RunStatus, Terminal
<1>2. SaveRun(r, new)
  BY DEF CancelRun
<1> HIDE DEF new
<1> QED
  BY <1>1, <1>2, SavedFields DEF CancelRun

LEMMA DecidePlanEffect ==
  ASSUME StoreTypeOK, NEW r \in RunId, NEW b, NEW d \in {"allow", "deny"},
         DecidePlan(r, b, d)
  PROVE  /\ b = r
         /\ runs[r].status = "awaiting_plan_approval"
         /\ runs[r].decision = "pending"
         /\ runs'[r].status = IF d = "allow" THEN "running" ELSE "canceled"
         /\ runs'[r].decision = d
         /\ runs'[r].startedAt = IF d = "allow" THEN now ELSE None
<1> DEFINE new == [runs[r] EXCEPT
      !.decision  = d,
      !.status    = IF d = "allow" THEN "running" ELSE "canceled",
      !.startedAt = IF d = "allow" THEN now ELSE None]
<1>1. /\ new \in Run
      /\ new.status = (IF d = "allow" THEN "running" ELSE "canceled")
      /\ new.decision = d
      /\ new.startedAt = (IF d = "allow" THEN now ELSE None)
  BY DEF StoreTypeOK, Run, RunStatus, Live, Terminal, Time, None
<1>2. SaveRun(r, new)
  BY DEF DecidePlan
<1> HIDE DEF new
<1> QED
  BY <1>1, <1>2, SavedFields DEF DecidePlan

LEMMA VerdictListsType == \A verdicts \in VerdictLists : verdicts \in SUBSET Verdict
  BY StoreAssumption DEF Verdict

LEMMA FinishRunEffect ==
  ASSUME StoreTypeOK, NEW r \in RunId, NEW verdicts \in VerdictLists,
         FinishRun(r, verdicts)
  PROVE  /\ runs[r].status = "running"
         /\ runs'[r].status = "completed"
         /\ runs'[r].decision = runs[r].decision
         /\ runs'[r].startedAt = runs[r].startedAt
<1> DEFINE outcome == AggregateVerdicts(verdicts)
           new == [runs[r] EXCEPT !.status = "completed", !.verdicts = verdicts,
                                  !.outcome = outcome]
<1>1. outcome \in Outcome
  BY DEF Outcome, AggregateVerdicts
<1>2. SaveRun(r, new)
  BY DEF FinishRun
<1> HIDE DEF outcome
<1>3. verdicts \in SUBSET Verdict /\ runs[r] \in Run /\ "completed" \in RunStatus
  BY VerdictListsType DEF StoreTypeOK, RunStatus, Terminal
<1>4. /\ new \in Run
      /\ new.status = "completed"
      /\ new.decision = runs[r].decision /\ new.startedAt = runs[r].startedAt
  BY <1>1, <1>3 DEF Run
<1> HIDE DEF new
<1> QED
  BY <1>2, <1>4, SavedFields DEF FinishRun

(* Every transaction keeps the tables well formed, whoever calls it. *)
LEMMA StoreTypeStep ==
  ASSUME StoreTypeOK, [StoreNext]_storeVars PROVE StoreTypeOK'
<1> USE DEF StoreTypeOK
<1>1. CASE Tick
  BY <1>1 DEF Tick
<1>2. ASSUME NEW r \in RunId, NEW p \in Project, CreateRun(r, p) PROVE StoreTypeOK'
  <2>1. now + ApprovalMs \in Nat
    BY StoreAssumption
  <2> QED
    BY <1>2, <2>1 DEF CreateRun, Run, RunStatus, Live, Time, None, Outcome, Verdict
<1>3. ASSUME NEW r \in RunId, NEW b \in RunId, NEW d \in {"allow", "deny"},
             DecidePlan(r, b, d)
      PROVE  StoreTypeOK'
  <2> DEFINE run == [runs[r] EXCEPT
        !.decision  = d,
        !.status    = IF d = "allow" THEN "running" ELSE "canceled",
        !.startedAt = IF d = "allow" THEN now ELSE None]
  <2>1. run \in Run
    BY DEF Run, RunStatus, Live, Terminal, Time, None
  <2>2. SaveRun(r, run)
    BY <1>3 DEF DecidePlan
  <2> QED
    BY <1>3, <2>1, <2>2, SaveRunType DEF DecidePlan
<1>4. ASSUME NEW r \in RunId, NEW w \in WaitId, NEW s \in 0..now, NEW e \in 0..now,
             CreditExternalWait(r, w, s, e)
      PROVE  StoreTypeOK'
  <2> DEFINE run == [runs[r] EXCEPT !.startedAt = @ + (e - s)]
  <2>1. runs[r].startedAt + (e - s) \in Nat
    BY <1>4 DEF CreditExternalWait, Run, Time, None
  <2>2. run \in Run
    BY <2>1 DEF Run, Time
  <2>3. SaveRun(r, run)
    BY <1>4 DEF CreditExternalWait
  <2>4. credits' \in [RunId \X WaitId -> Credit]
    BY <1>4 DEF CreditExternalWait, Credit, Time
  <2> QED
    BY <1>4, <2>2, <2>3, <2>4, SaveRunType DEF CreditExternalWait
<1>5. ASSUME NEW r \in RunId, NEW b \in RunId, NEW o \in OperationId,
             NEW q \in Request, NEW lease \in LeaseMs, ClaimDispatch(r, b, o, q, lease)
      PROVE  StoreTypeOK'
  <2>1. now + lease \in Nat
    BY StoreAssumption
  <2> QED
    BY <1>5, <2>1 DEF ClaimDispatch, Operation, Grant
<1>6. ASSUME NEW r \in RunId, NEW b \in RunId, NEW o \in OperationId,
             NEW q \in Request, ClaimExpired(r, b, o, q)
      PROVE  StoreTypeOK'
  BY <1>6 DEF ClaimExpired, Operation
<1>7. ASSUME NEW r \in RunId, AbandonDispatched(r) PROVE StoreTypeOK'
  BY <1>7 DEF AbandonDispatched, Operation
<1>8. ASSUME NEW r \in RunId, NEW o \in OperationId, NEW c \in Receipt,
             ConfirmOperation(r, o, c)
      PROVE  StoreTypeOK'
  <2> DEFINE new == [ops[o] EXCEPT !.state = "confirmed", !.receipt = c]
  <2>1. new \in Operation
    BY DEF Operation
  <2>2. ops' = [ops EXCEPT ![o] = new]
    BY <1>8 DEF ConfirmOperation
  <2> HIDE DEF new
  <2>3. ops' \in [OperationId -> Operation]
    BY <2>1, <2>2
  <2> QED
    BY <1>8, <2>3 DEF ConfirmOperation
<1>9. ASSUME NEW r \in RunId, CancelRun(r) PROVE StoreTypeOK'
  <2>1. [runs[r] EXCEPT !.status = "canceled"] \in Run
    BY DEF Run, RunStatus, Terminal
  <2> QED
    BY <1>9, <2>1, SaveRunType DEF CancelRun
<1>10. ASSUME NEW r \in RunId, RequestStop(r) PROVE StoreTypeOK'
  <2>1. [runs[r] EXCEPT !.status = "stopping"] \in Run
    BY DEF Run, RunStatus, Live
  <2> QED
    BY <1>10, <2>1, SaveRunType DEF RequestStop
<1>11. ASSUME NEW r \in RunId, NEW verdicts \in VerdictLists, FinishRun(r, verdicts)
       PROVE  StoreTypeOK'
  <2> DEFINE outcome == AggregateVerdicts(verdicts)
             run == [runs[r] EXCEPT !.status = "completed", !.verdicts = verdicts,
                                    !.outcome = outcome]
  <2>1. outcome \in Outcome
    BY DEF Outcome, AggregateVerdicts
  <2>2. SaveRun(r, run)
    BY <1>11 DEF FinishRun
  <2> HIDE DEF outcome
  <2>3. verdicts \in SUBSET Verdict /\ runs[r] \in Run
    BY VerdictListsType
  <2>4. "completed" \in RunStatus
    BY DEF RunStatus, Terminal
  <2>5. run \in Run
    BY <2>1, <2>3, <2>4 DEF Run
  <2> QED
    BY <1>11, <2>2, <2>5, SaveRunType DEF FinishRun
<1>12. CASE UNCHANGED storeVars
  BY <1>12 DEF storeVars
<1> QED
  BY <1>1, <1>2, <1>3, <1>4, <1>5, <1>6, <1>7, <1>8, <1>9, <1>10, <1>11, <1>12
     DEF StoreNext, Decide, CreditWait, Claim

(* Every table of the store keeps well-formed records. *)
THEOREM StoreTypeCorrect == StoreSpec => []StoreTypeOK
<1>1. StoreInit => StoreTypeOK
  BY DEF StoreInit, StoreTypeOK, NoRun, Run, RunStatus, Live, Terminal, Time,
         None, Outcome, Verdict, NoOperation, Operation, NoCredit, Credit, Grant
<1> QED
  BY <1>1, StoreTypeStep, PTL DEF StoreSpec

-----------------------------------------------------------------------------
(* The inductive invariant.  The index the code relies on is kept on the   *)
(* active column, and a grant stays accounted for only because a decision  *)
(* is never taken back: both facts have to be carried along.               *)

ActiveColumn == \A r \in RunId : runs[r].active <=> runs[r].status \in Live

DecisionOfStatus ==
  \A r \in RunId :
    /\ runs[r].status \in {"absent", "awaiting_plan_approval"} =>
         runs[r].decision = "pending"
    /\ runs[r].status = "absent" => runs[r].startedAt = None

StoreInv ==
  /\ StoreTypeOK
  /\ ActiveColumn
  /\ DecisionOfStatus
  /\ OneActiveRunPerProject
  /\ GrantsAccounted
  /\ AtMostOneGrant
  /\ ElapsedNeverNegative

(* The runs a step may change, and how: the parts of the invariant that    *)
(* speak of runs follow from this alone.                                   *)
RunUnchanged(r) == runs'[r] = runs[r]

RunCreated(r) ==
  /\ runs[r].status = "absent"
  /\ \A q \in RunId : runs[q].active => runs[q].project # runs'[r].project
  /\ runs'[r].status = "awaiting_plan_approval"
  /\ runs'[r].active = TRUE
  /\ runs'[r].decision = "pending"
  /\ runs'[r].startedAt = None

RunSaved(r) ==
  /\ runs[r].status \in Live
  /\ runs'[r].status \in {"running", "stopping"} \cup Terminal
  /\ runs'[r].active <=> runs'[r].status \in Live
  /\ runs'[r].project = runs[r].project
  /\ runs[r].decision # "pending" => runs'[r].decision = runs[r].decision
  /\ \/ runs'[r].startedAt = runs[r].startedAt
     \/ runs'[r].startedAt \in Time /\ runs'[r].startedAt <= now

LEMMA RunStep ==
  ASSUME StoreTypeOK, [StoreNext]_storeVars
  PROVE  \/ \A q \in RunId : RunUnchanged(q)
         \/ \E r \in RunId : /\ \A q \in RunId \ {r} : RunUnchanged(q)
                             /\ RunCreated(r) \/ RunSaved(r)
<1> USE DEF StoreTypeOK
<1>1. CASE Tick
  BY <1>1 DEF Tick, RunUnchanged
<1>2. ASSUME NEW r \in RunId, NEW p \in Project, CreateRun(r, p)
      PROVE  RunCreated(r) /\ \A q \in RunId \ {r} : RunUnchanged(q)
  BY <1>2 DEF CreateRun, RunCreated, RunUnchanged
<1>3. ASSUME NEW r \in RunId, NEW b \in RunId, NEW d \in {"allow", "deny"},
             DecidePlan(r, b, d)
      PROVE  RunSaved(r) /\ \A q \in RunId \ {r} : RunUnchanged(q)
  <2> DEFINE run == [runs[r] EXCEPT
        !.decision  = d,
        !.status    = IF d = "allow" THEN "running" ELSE "canceled",
        !.startedAt = IF d = "allow" THEN now ELSE None]
  <2>1. run \in Run
    BY DEF Run, RunStatus, Live, Terminal, Time, None
  <2>2. SaveRun(r, run)
    BY <1>3 DEF DecidePlan
  <2>3. /\ \A q \in RunId : q # r => runs'[q] = runs[q]
        /\ runs'[r] = [run EXCEPT !.active = run.status \in Live]
        /\ runs'[r].active <=> run.status \in Live
    BY <2>1, <2>2, SaveRunType
  <2>4. run.startedAt \in Time /\ run.startedAt <= now
    BY DEF Run, Time, None
  <2> QED
    BY <1>3, <2>1, <2>3, <2>4 DEF DecidePlan, RunSaved, RunUnchanged, Live, Terminal, Run
<1>4. ASSUME NEW r \in RunId, NEW w \in WaitId, NEW s \in 0..now, NEW e \in 0..now,
             CreditExternalWait(r, w, s, e)
      PROVE  RunSaved(r) /\ \A q \in RunId \ {r} : RunUnchanged(q)
  <2> DEFINE started == runs[r].startedAt + (e - s)
             run == [runs[r] EXCEPT !.startedAt = started]
  <2>1. started \in Nat /\ started <= now
    BY <1>4 DEF CreditExternalWait, Run, Time, None
  <2>2. SaveRun(r, run)
    BY <1>4 DEF CreditExternalWait
  <2> HIDE DEF started
  <2>3. run \in Run
    BY <2>1 DEF Run, Time
  <2>4. /\ \A q \in RunId : q # r => runs'[q] = runs[q]
        /\ runs'[r] = [run EXCEPT !.active = run.status \in Live]
        /\ runs'[r].active <=> run.status \in Live
    BY <2>2, <2>3, SaveRunType
  <2> QED
    BY <1>4, <2>1, <2>3, <2>4 DEF CreditExternalWait, RunSaved, RunUnchanged, Live, Run, Time
<1>5. ASSUME NEW r \in RunId, Claim(r) \/ AbandonDispatched(r)
      PROVE  \A q \in RunId : RunUnchanged(q)
  <2>1. UNCHANGED runs
    BY <1>5 DEF Claim, ClaimDispatch, ClaimExpired, AbandonDispatched
  <2> QED
    BY <2>1 DEF RunUnchanged
<1>6. ASSUME NEW r \in RunId, NEW o \in OperationId, NEW c \in Receipt,
             ConfirmOperation(r, o, c)
      PROVE  \A p \in RunId : RunUnchanged(p)
  BY <1>6 DEF ConfirmOperation, RunUnchanged
<1>7. ASSUME NEW r \in RunId, CancelRun(r)
      PROVE  RunSaved(r) /\ \A q \in RunId \ {r} : RunUnchanged(q)
  <2> DEFINE run == [runs[r] EXCEPT !.status = "canceled"]
  <2>1. run \in Run
    BY DEF Run, RunStatus, Terminal
  <2>2. SaveRun(r, run)
    BY <1>7 DEF CancelRun
  <2>3. /\ \A q \in RunId : q # r => runs'[q] = runs[q]
        /\ runs'[r] = [run EXCEPT !.active = run.status \in Live]
        /\ runs'[r].active <=> run.status \in Live
    BY <2>1, <2>2, SaveRunType
  <2> QED
    BY <1>7, <2>3 DEF CancelRun, RunSaved, RunUnchanged, Terminal, Live, Run
<1>8. ASSUME NEW r \in RunId, RequestStop(r)
      PROVE  RunSaved(r) /\ \A q \in RunId \ {r} : RunUnchanged(q)
  <2> DEFINE run == [runs[r] EXCEPT !.status = "stopping"]
  <2>1. run \in Run
    BY DEF Run, RunStatus, Live
  <2>2. SaveRun(r, run)
    BY <1>8 DEF RequestStop
  <2>3. /\ \A q \in RunId : q # r => runs'[q] = runs[q]
        /\ runs'[r] = [run EXCEPT !.active = run.status \in Live]
        /\ runs'[r].active <=> run.status \in Live
    BY <2>1, <2>2, SaveRunType
  <2> QED
    BY <1>8, <2>3 DEF RequestStop, RunSaved, RunUnchanged, Terminal, Live, Run
<1>9. ASSUME NEW r \in RunId, NEW verdicts \in VerdictLists, FinishRun(r, verdicts)
      PROVE  RunSaved(r) /\ \A q \in RunId \ {r} : RunUnchanged(q)
  <2> DEFINE outcome == AggregateVerdicts(verdicts)
             run == [runs[r] EXCEPT !.status = "completed", !.verdicts = verdicts,
                                    !.outcome = outcome]
  <2>1. outcome \in Outcome
    BY DEF Outcome, AggregateVerdicts
  <2>2. SaveRun(r, run)
    BY <1>9 DEF FinishRun
  <2> HIDE DEF outcome
  <2>3. verdicts \in SUBSET Verdict /\ runs[r] \in Run
    BY VerdictListsType
  <2>4. "completed" \in RunStatus
    BY DEF RunStatus, Terminal
  <2>5. run \in Run
    BY <2>1, <2>3, <2>4 DEF Run
  <2>6. /\ \A q \in RunId : q # r => runs'[q] = runs[q]
        /\ runs'[r] = [run EXCEPT !.active = run.status \in Live]
        /\ runs'[r].active <=> run.status \in Live
    BY <2>2, <2>5, SaveRunType
  <2> QED
    BY <1>9, <2>3, <2>6 DEF FinishRun, RunSaved, RunUnchanged, Terminal, Live, Run
<1>10. CASE UNCHANGED storeVars
  BY <1>10 DEF storeVars, RunUnchanged
<1> QED
  BY <1>1, <1>2, <1>3, <1>4, <1>5, <1>6, <1>7, <1>8, <1>9, <1>10
     DEF StoreNext, Decide, CreditWait

(* The operations a step may change, and how. *)
LEMMA OperationStep ==
  ASSUME StoreTypeOK, [StoreNext]_storeVars
  PROVE  \/ /\ grants' = grants
            /\ \A o \in OperationId :
                 /\ ops[o].state = "absent" => ops'[o] = ops[o]
                 /\ ops[o].state # "absent" =>
                      /\ ops'[o].state # "absent"
                      /\ ops'[o].run = ops[o].run
                      /\ ops'[o].request = ops[o].request
                 /\ ops[o].state = "confirmed" => ops'[o] = ops[o]
         \/ \E r \in RunId, o \in OperationId, q \in Request :
              /\ runs[r].status = "running" /\ runs[r].decision = "allow"
              /\ runs' = runs
              /\ ops[o].state = "absent"
              /\ Cardinality(OperationsOf(r)) < OperationLimit
              /\ ops'[o].state = "dispatched"
              /\ ops'[o].run = r /\ ops'[o].request = q
              /\ \A p \in OperationId \ {o} : ops'[p] = ops[p]
              /\ grants' = grants \cup {[op |-> o, run |-> r, request |-> q, at |-> now]}
<1> USE DEF StoreTypeOK
<1>1. ASSUME NEW r \in RunId, NEW b \in RunId, NEW o \in OperationId,
             NEW q \in Request, NEW lease \in LeaseMs, ClaimDispatch(r, b, o, q, lease)
      PROVE  /\ runs[r].status = "running" /\ runs[r].decision = "allow"
             /\ runs' = runs
             /\ ops[o].state = "absent"
             /\ Cardinality(OperationsOf(r)) < OperationLimit
             /\ ops'[o].state = "dispatched"
             /\ ops'[o].run = r /\ ops'[o].request = q
             /\ \A p \in OperationId \ {o} : ops'[p] = ops[p]
             /\ grants' = grants \cup {[op |-> o, run |-> r, request |-> q, at |-> now]}
  BY <1>1 DEF ClaimDispatch, MayClaim
<1> DEFINE Kept == /\ grants' = grants
                   /\ \A o \in OperationId :
                        /\ ops[o].state = "absent" => ops'[o] = ops[o]
                        /\ ops[o].state # "absent" =>
                             /\ ops'[o].state # "absent"
                             /\ ops'[o].run = ops[o].run
                             /\ ops'[o].request = ops[o].request
                        /\ ops[o].state = "confirmed" => ops'[o] = ops[o]
<1>2. ASSUME NEW r \in RunId, NEW b \in RunId, NEW o \in OperationId,
             NEW q \in Request, ClaimExpired(r, b, o, q)
      PROVE  Kept
  BY <1>2 DEF ClaimExpired, Operation
<1>3. ASSUME NEW r \in RunId, AbandonDispatched(r) PROVE Kept
  BY <1>3 DEF AbandonDispatched, Operation
<1>4. ASSUME NEW r \in RunId, NEW o \in OperationId, NEW c \in Receipt,
             ConfirmOperation(r, o, c)
      PROVE  Kept
  BY <1>4 DEF ConfirmOperation, OperationsOf, Operation
<1>5. ASSUME UNCHANGED <<ops, grants>> PROVE Kept
  BY <1>5
<1>6. ASSUME NEW r \in RunId,
             \/ \E p \in Project : CreateRun(r, p)
             \/ Decide(r) \/ CreditWait(r) \/ CancelRun(r) \/ RequestStop(r)
             \/ \E verdicts \in VerdictLists : FinishRun(r, verdicts)
      PROVE  UNCHANGED <<ops, grants>>
  BY <1>6 DEF CreateRun, Decide, DecidePlan, CreditWait, CreditExternalWait,
              CancelRun, RequestStop, FinishRun
<1>7. CASE \E r \in RunId : Claim(r)
  BY <1>7, <1>1, <1>2 DEF Claim
<1>8. CASE Tick \/ UNCHANGED storeVars
  BY <1>8, <1>5 DEF Tick, storeVars
<1> QED
  BY <1>3, <1>4, <1>5, <1>6, <1>7, <1>8 DEF StoreNext

LEMMA ClockStep ==
  ASSUME StoreTypeOK, [StoreNext]_storeVars
  PROVE  now' \in Nat /\ now <= now'
<1>1. CASE UNCHANGED storeVars
  BY <1>1 DEF StoreTypeOK, storeVars
<1>2. CASE Tick
  BY <1>2 DEF StoreTypeOK, Tick
<1>3. ASSUME NEW r \in RunId,
             \/ \E p \in Project : CreateRun(r, p)
             \/ Decide(r) \/ CreditWait(r) \/ CancelRun(r) \/ RequestStop(r)
             \/ \E verdicts \in VerdictLists : FinishRun(r, verdicts)
      PROVE  UNCHANGED now
  BY <1>3 DEF CreateRun, Decide, DecidePlan, CreditWait, CreditExternalWait,
              CancelRun, RequestStop, FinishRun
<1>4. ASSUME NEW r \in RunId,
             \/ Claim(r) \/ AbandonDispatched(r)
             \/ \E o \in OperationId, c \in Receipt : ConfirmOperation(r, o, c)
      PROVE  UNCHANGED now
  BY <1>4 DEF Claim, ClaimDispatch, ClaimExpired, AbandonDispatched, ConfirmOperation
<1> QED
  BY <1>1, <1>2, <1>3, <1>4 DEF StoreTypeOK, StoreNext

(* Every transaction keeps the invariant: each part follows from the way a *)
(* step may change a run or an operation.                                  *)
LEMMA StoreInvStep ==
  ASSUME StoreInv, [StoreNext]_storeVars PROVE StoreInv'
<1>0. StoreTypeOK'
  BY StoreTypeStep DEF StoreInv
<1> DEFINE Changed(r) == /\ \A q \in RunId \ {r} : RunUnchanged(q)
                         /\ RunCreated(r) \/ RunSaved(r)
<1>1. (\A q \in RunId : RunUnchanged(q)) \/ (\E r \in RunId : Changed(r))
  BY RunStep DEF StoreInv
<1>2. ActiveColumn'
  BY <1>1 DEF StoreInv, ActiveColumn, RunUnchanged, RunCreated, RunSaved, Live
<1>3. DecisionOfStatus'
  BY <1>1 DEF StoreInv, DecisionOfStatus, RunUnchanged, RunCreated, RunSaved,
              Live, Terminal
<1>4. OneActiveRunPerProject'
  <2> SUFFICES ASSUME NEW r \in RunId, NEW q \in RunId,
                      runs'[r].status \in Live, runs'[q].status \in Live,
                      runs'[r].project = runs'[q].project, r # q
               PROVE  FALSE
    BY DEF OneActiveRunPerProject
  <2> USE DEF StoreInv, OneActiveRunPerProject, ActiveColumn, RunUnchanged
  <2>1. CASE \A p \in RunId : RunUnchanged(p)
    BY <2>1
  <2>2. ASSUME NEW p \in RunId, Changed(p), RunSaved(p) PROVE FALSE
    BY <2>2 DEF RunSaved
  <2>3. ASSUME NEW p \in RunId, Changed(p), RunCreated(p) PROVE FALSE
    <3>1. ASSUME NEW s \in RunId, s # p, runs'[s].status \in Live
          PROVE  runs'[s].project # runs'[p].project
      <4>1. runs'[s] = runs[s] /\ runs[s].active
        BY <2>3, <3>1
      <4> QED
        BY <2>3, <4>1 DEF RunCreated
    <3>2. CASE r = p
      BY <3>1, <3>2
    <3>3. CASE q = p
      BY <3>1, <3>3
    <3>4. CASE r # p /\ q # p
      BY <2>3, <3>4
    <3> QED
      BY <3>2, <3>3, <3>4
  <2> QED
    BY <1>1, <2>1, <2>2, <2>3
<1>5. ElapsedNeverNegative'
  <2>1. now \in Nat /\ now' \in Nat /\ now <= now' /\ \A r \in RunId : runs[r].startedAt \in Time
    BY ClockStep DEF StoreInv, StoreTypeOK, Run
  <2>2. ASSUME NEW r \in RunId, runs'[r].startedAt # None PROVE runs'[r].startedAt <= now'
    <3>1. \/ runs'[r].startedAt = runs[r].startedAt
          \/ runs'[r].startedAt \in Time /\ runs'[r].startedAt <= now
      BY <1>1, <2>2 DEF RunUnchanged, RunCreated, RunSaved
    <3> QED
      BY <2>1, <2>2, <3>1 DEF StoreInv, ElapsedNeverNegative, Time, None
  <2> QED
    BY <2>2 DEF ElapsedNeverNegative
<1>6. \A r \in RunId : runs[r].decision = "allow" => runs'[r].decision = "allow"
  BY <1>1 DEF StoreInv, DecisionOfStatus, RunUnchanged, RunCreated, RunSaved
<1>7. GrantsAccounted'
  BY <1>6, OperationStep DEF StoreInv, StoreTypeOK, Grant, GrantsAccounted
<1>8. AtMostOneGrant'
  BY OperationStep DEF StoreInv, StoreTypeOK, Grant, GrantsAccounted, AtMostOneGrant
<1> QED
  BY <1>0, <1>2, <1>3, <1>4, <1>5, <1>7, <1>8 DEF StoreInv

(* The invariant holds of the store alone. *)
THEOREM StoreInvariant == StoreSpec => []StoreInv
<1>1. StoreInit => StoreInv
  <2> SUFFICES ASSUME StoreInit PROVE StoreInv
    OBVIOUS
  <2>1. StoreTypeOK
    BY DEF StoreInit, StoreTypeOK, NoRun, Run, RunStatus, Live, Terminal, Time, None,
           Outcome, Verdict, NoOperation, Operation, NoCredit, Credit, Grant
  <2>2. /\ grants = {}
        /\ \A r \in RunId : /\ runs[r].status = "absent" /\ runs[r].active = FALSE
                            /\ runs[r].decision = "pending" /\ runs[r].startedAt = None
    BY DEF StoreInit, NoRun
  <2>3. \A r \in RunId : runs[r].status \notin Live
    BY <2>2 DEF Live
  <2>4. ActiveColumn
    BY <2>2, <2>3 DEF ActiveColumn
  <2>5. DecisionOfStatus /\ OneActiveRunPerProject
    BY <2>2, <2>3 DEF DecisionOfStatus, OneActiveRunPerProject
  <2>6. GrantsAccounted /\ AtMostOneGrant /\ ElapsedNeverNegative
    BY <2>2 DEF GrantsAccounted, AtMostOneGrant, ElapsedNeverNegative
  <2> QED
    BY <2>1, <2>5, <2>6, <2>4 DEF StoreInv
<1> QED
  BY <1>1, StoreInvStep, PTL DEF StoreSpec

(* At most one live run per project, at every reachable state. *)
THEOREM ProjectLockHolds == StoreSpec => []OneActiveRunPerProject
  BY StoreInvariant, PTL DEF StoreInv

(* No operation id is ever answered "dispatch" twice, and every dispatch   *)
(* was made for a run whose plan was allowed.                              *)
THEOREM DispatchOnce == StoreSpec => [](AtMostOneGrant /\ GrantsAccounted)
  BY StoreInvariant, PTL DEF StoreInv

(* The time a run has used is never negative. *)
THEOREM ElapsedSound == StoreSpec => []ElapsedNeverNegative
  BY StoreInvariant, PTL DEF StoreInv

(* A run that is stopping or has ended gets no further operation. *)
THEOREM StopClosesDispatch == StoreSpec => NoGrantAfterStop
<1>1. StoreInv /\ [StoreNext]_storeVars =>
        [\A r \in RunId : runs[r].status \in {"stopping"} \cup Terminal =>
           OperationsOf(r)' = OperationsOf(r)]_storeVars
  <2> SUFFICES ASSUME StoreInv, [StoreNext]_storeVars, NEW r \in RunId,
                      runs[r].status \in {"stopping"} \cup Terminal
               PROVE  OperationsOf(r)' = OperationsOf(r)
    BY DEF storeVars
  <2>1. runs[r].status # "running"
    BY DEF Terminal
  <2>2. \A o \in OperationId :
          (ops'[o].state # "absent" /\ ops'[o].run = r)
            <=> (ops[o].state # "absent" /\ ops[o].run = r)
    BY <2>1, OperationStep DEF StoreInv
  <2> QED
    BY <2>2 DEF OperationsOf
<1> QED
  BY <1>1, StoreInvariant, PTL DEF StoreSpec, NoGrantAfterStop

(* Terminal runs and confirmed receipts never change again. *)
THEOREM TerminalIsFinal == StoreSpec => TerminalFrozen
<1>1. StoreInv /\ [StoreNext]_storeVars =>
        [/\ \A r \in RunId : runs[r].status \in Terminal => runs'[r] = runs[r]
         /\ \A o \in OperationId : ops[o].state = "confirmed" => ops'[o] = ops[o]]_storeVars
  <2> SUFFICES ASSUME StoreInv, [StoreNext]_storeVars
               PROVE  /\ \A r \in RunId : runs[r].status \in Terminal => runs'[r] = runs[r]
                      /\ \A o \in OperationId : ops[o].state = "confirmed" => ops'[o] = ops[o]
    OBVIOUS
  <2>1. \A r \in RunId : runs[r].status \in Terminal => runs'[r] = runs[r]
    BY RunStep DEF StoreInv, RunUnchanged, RunCreated, RunSaved, Terminal, Live
  <2>2. \A o \in OperationId : ops[o].state = "confirmed" => ops'[o] = ops[o]
    BY OperationStep DEF StoreInv
  <2> QED
    BY <2>1, <2>2
<1> QED
  BY <1>1, StoreInvariant, PTL DEF StoreSpec, TerminalFrozen

(* No run holds more operations than the limit, whatever is claimed. *)
THEOREM OperationsBounded == StoreSpec => []WithinOperationLimit
<1>1. \A r \in RunId : IsFiniteSet(OperationsOf(r)) /\ IsFiniteSet(OperationsOf(r)')
  BY StoreAssumption, FS_Subset DEF OperationsOf
<1>2. StoreInit => WithinOperationLimit
  <2> SUFFICES ASSUME StoreInit, NEW r \in RunId
               PROVE  Cardinality(OperationsOf(r)) <= OperationLimit
    BY DEF WithinOperationLimit
  <2>1. OperationsOf(r) = {}
    BY DEF StoreInit, OperationsOf, NoOperation
  <2> QED
    BY <2>1, FS_EmptySet, StoreAssumption
<1>3. StoreInv /\ WithinOperationLimit /\ [StoreNext]_storeVars => WithinOperationLimit'
  <2> SUFFICES ASSUME StoreInv, WithinOperationLimit, [StoreNext]_storeVars,
                      NEW r \in RunId
               PROVE  Cardinality(OperationsOf(r)') <= OperationLimit
    BY DEF WithinOperationLimit
  <2>1. CASE OperationsOf(r)' = OperationsOf(r)
    BY <2>1 DEF WithinOperationLimit
  <2>2. ASSUME NEW o \in OperationId, o \notin OperationsOf(r),
               OperationsOf(r)' = OperationsOf(r) \cup {o},
               Cardinality(OperationsOf(r)) < OperationLimit
        PROVE  Cardinality(OperationsOf(r)') <= OperationLimit
    <3>1. Cardinality(OperationsOf(r)') = Cardinality(OperationsOf(r)) + 1
      BY <1>1, <2>2, FS_AddElement
    <3> QED
      BY <1>1, <2>2, <3>1, FS_CardinalityType, StoreAssumption
  <2>3. CASE \A o \in OperationId :
               /\ ops[o].state = "absent" => ops'[o] = ops[o]
               /\ ops[o].state # "absent" =>
                    ops'[o].state # "absent" /\ ops'[o].run = ops[o].run
    <3>1. OperationsOf(r)' = OperationsOf(r)
      BY <2>3 DEF OperationsOf
    <3> QED
      BY <2>1, <3>1
  <2>4. ASSUME NEW q \in RunId, NEW o \in OperationId,
               ops[o].state = "absent",
               Cardinality(OperationsOf(q)) < OperationLimit,
               ops'[o].state = "dispatched", ops'[o].run = q,
               \A p \in OperationId \ {o} : ops'[p] = ops[p]
        PROVE  Cardinality(OperationsOf(r)') <= OperationLimit
    <3>1. CASE q = r
      <4>1. o \notin OperationsOf(r) /\ OperationsOf(r)' = OperationsOf(r) \cup {o}
        BY <2>4, <3>1 DEF OperationsOf
      <4> QED
        BY <2>2, <2>4, <3>1, <4>1
    <3>2. CASE q # r
      <4>1. OperationsOf(r)' = OperationsOf(r)
        BY <2>4, <3>2 DEF OperationsOf
      <4> QED
        BY <2>1, <4>1
    <3> QED
      BY <3>1, <3>2
  <2> QED
    BY <2>3, <2>4, OperationStep DEF StoreInv
<1> QED
  BY <1>2, <1>3, StoreInvariant, PTL DEF StoreSpec
=============================================================================
