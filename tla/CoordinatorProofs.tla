------------------------- MODULE CoordinatorProofs -------------------------
(***************************************************************************)
(* The repair coordinator and its sandbox runner proved, for every value   *)
(* of the constants: one job on the session at a time, the agent asked and *)
(* told once, a turn posted once, a result about the files that were given.*)
(*                                                                         *)
(* The worker may die between any two of its documents, and its posts may  *)
(* be served long after.  The invariant has two parts: Control, what jobs, *)
(* frames, starts, proposals and the process agree on, and Publications,   *)
(* what intents, calls, posts and turns do.  Both rely on the invariant of *)
(* the repair store.                                                       *)
(*                                                                         *)
(* The runner's invariant counts its posts and its turns against those it  *)
(* knows; the command of a run has one turn, so that a turn that called    *)
(* exactly the command excludes one that ran it on other files.            *)
(***************************************************************************)
EXTENDS RepairProofs, RepairJobs, RepairSandbox, SequenceTheorems

-----------------------------------------------------------------------------
(* The coordinator: what its documents, its jobs and its calls agree on *)

Entry == [after : Nat, kind : {"run", "work", "ask", "allow", "deny"}, job : {0} \cup JobId,
          state : {"running", "approval", "done", "error"}]
JobRecord == [state : {"absent", "preparing", "testing", "verified_local", "abandoned"},
              turn : Nat, proposal : {0, 1, 2}]
WorkRecord == [phase : Phase \cup {"idle"},
               step : {"none", "created", "ready", "post", "sent", "runs", "proposed", "recorded"}]
CallStage == {"idle", "boot", "requested", "allowed", "denied", "check", "post", "sent",
              "tracked", "recover", "find"}
JobsTypeOK ==
  /\ jobs \in [JobId -> JobRecord]
  /\ indexed \subseteq JobId
  /\ asked \in [JobId -> Nat] /\ answered \in [JobId -> Nat]
  /\ DOMAIN shown = JobId
  /\ turns \in Seq(Entry) /\ posted \subseteq Entry
  /\ starts \subseteq [call : Nat, turn : Nat]
  /\ work \in [JobId -> WorkRecord]
  /\ calls \in [JobId -> CallStage]
  /\ worker \in {"up", "recovering", "down"}

Fixes(n) == <<Patch.finding, n>>
AtWork(j) == work[j].phase # "idle"

(* Nothing is at work while the worker is down or recovers, and recovery   *)
(* is not over before every unfinished job it knows of is closed.          *)
ProcessKnows ==
  /\ worker # "up" => starts = {} /\ \A j \in JobId : ~ AtWork(j)
  /\ \A j \in JobId : calls[j] = "boot" => worker = "recovering"
  /\ worker = "recovering" => \A j \in indexed : Unfinished(j) => calls[j] = "boot"
  /\ worker = "up" => \A j \in indexed : Unfinished(j) => AtWork(j)

(* One call of start at a time; once it looked at the jobs, none begins    *)
(* without it.                                                             *)
StartKnows ==
  /\ \A s, t \in starts : s = t
  /\ \A s \in starts : s.turn # 0 => \A j \in JobId : ~ Unfinished(j)

(* The jobs come one after the other.                                      *)
JobsInOrder ==
  /\ \A j \in JobId : /\ AtWork(j) => Unfinished(j)
                      /\ ~ AtWork(j) => work[j].step = "none"
  /\ jobs[2].state # "absent" => jobs[1].state \in {"verified_local", "abandoned"}

(* Whose the proposals are: the first job's is the first, and the second   *)
(* job takes the one that is left.                                         *)
ProposalsKnow ==
  /\ jobs[2].state = "absent" => ~ Exists(Fixes(2)) /\ jobs[2].proposal = 0
  /\ jobs[1].state = "absent" \/ (work[1].phase = "prepare" /\ work[1].step # "proposed") =>
       ~ Exists(Fixes(1))
  /\ jobs[1].proposal # 2
  /\ At(2, "prepare", "proposed") /\ jobs[1].proposal = 1 => Exists(Fixes(2))
  /\ \A j \in JobId :
       /\ At(j, "prepare", "proposed") => Exists(Fixes(1))
       /\ jobs[j].proposal # 0 => Exists(ProposalOf(j))
       /\ work[j].phase \in {"before", "after"} => jobs[j].proposal # 0
       /\ jobs[j].state = "verified_local" \/ work[j].step = "recorded" =>
            jobs[j].proposal # 0 /\ Verified(ProposalOf(j))
  /\ jobs[1].proposal = jobs[2].proposal => jobs[2].proposal = 0

(* The session: a turn without a job is the run's own, and only a request  *)
(* to publish stops at the gate.                                           *)
SessionKnows ==
  /\ \A n \in 1..Newest : /\ turns[n].state = "approval" => turns[n].kind = "ask"
                          /\ turns[n].kind = "ask" => turns[n].job # 0
  /\ \A post \in posted : post.state = "running" /\ post.job # 0
  /\ \A w \in watchers : w[1] \in JobId /\ w[2] \in 1..Newest

(* The turn a job stands at is one of its own once it runs, and what its   *)
(* publication starts from and is shown is never another one's request.    *)
OwnWork(j, n) == n \in TurnsOf(j, {"work"})
Own(j, n) == n \in 1..Newest /\ (turns[n].kind = "ask" => turns[n].job = j)
Publishing(j) == asked[j] # 0 \/ answered[j] # 0 \/ calls[j] \notin {"idle", "boot"}
StandsRight(j) ==
  /\ work[j].phase \in {"before", "after"} \/ work[j].step \in {"runs", "proposed", "recorded"} =>
       OwnWork(j, jobs[j].turn)
  /\ jobs[j].state = "verified_local" =>
       /\ Own(j, jobs[j].turn)
       /\ asked[j] = 0 => OwnWork(j, jobs[j].turn)
  /\ Publishing(j) => jobs[j].state = "verified_local"
  /\ asked[j] # 0 => OwnWork(j, asked[j])
  /\ answered[j] # 0 => answered[j] \in TurnsOf(j, {"ask"})
  /\ calls[j] \in {"allowed", "denied"} => shown[j].turn \in TurnsOf(j, {"ask"})
  /\ shown[j].status # "none" \/ shown[j].turn # 0 => Own(j, shown[j].turn)

(* A continuation is posted once, by the call whose intent is on record    *)
(* and after which nothing has been posted.                                *)
Decisions == {"allow", "deny"}
Words == {"ask"} \cup Decisions
PostsOf(j, kinds) == {post \in posted : post.job = j /\ post.kind \in kinds}
Unsent(j, kinds) == TurnsOf(j, kinds) = {} /\ PostsOf(j, kinds) = {}
Once(j, kinds) ==
  /\ \A m, n \in TurnsOf(j, kinds) : m = n
  /\ \A p, q \in PostsOf(j, kinds) : p = q
  /\ PostsOf(j, kinds) # {} => TurnsOf(j, kinds) = {}
Sending(j) == calls[j] \in {"check", "post"}
SentOnce(j) ==
  /\ Once(j, {"ask"}) /\ Once(j, Decisions)
  /\ asked[j] = 0 \/ (Sending(j) /\ answered[j] = 0) => Unsent(j, {"ask"})
  /\ answered[j] = 0 \/ Sending(j) => Unsent(j, Decisions)
  /\ calls[j] = "requested" => asked[j] = 0
  /\ calls[j] \in {"allowed", "denied"} => answered[j] = 0
  /\ calls[j] \in {"check", "post", "sent", "recover", "find"} => Previous(j) # 0

(* What it says is what the store recorded, at the gate it is about.       *)
OwnersWord(j) == proposals[ProposalOf(j)].approval.decision
SaysRight(j, entry) ==
  /\ entry.kind = "ask" => entry.after = asked[j]
  /\ entry.kind \in Decisions =>
       entry.kind = OwnersWord(j) /\ entry.after \in TurnsOf(j, {"ask"})
SentRight(j) ==
  /\ answered[j] # 0 \/ calls[j] \in {"allowed", "denied"} => OwnersWord(j) \in Decisions
  /\ \A post \in PostsOf(j, Words) : SaysRight(j, post)
  /\ \A n \in TurnsOf(j, Words) : SaysRight(j, turns[n])

(* The inductive invariant of the coordinator. *)
Control == ProcessKnows /\ StartKnows /\ JobsInOrder /\ ProposalsKnow
Publications == SessionKnows /\ \A j \in JobId : StandsRight(j) /\ SentOnce(j) /\ SentRight(j)
CoordinatorInv == StoreInv /\ JobsTypeOK /\ Control /\ Publications

-----------------------------------------------------------------------------
(* The coordinator's transactions *)

(* All but a new proposal leave every proposal there and none appears.     *)
SameExists == \A p \in Proposal : (proposals'[p].state # "absent") <=> Exists(p)
Grows == /\ StoreInv' /\ StoreKept
         /\ \A p \in Proposal : Exists(p) => proposals'[p].state # "absent"

LEMMA SameStore ==
  ASSUME StoreInv, UNCHANGED <<proposals, claimed>>, now' \in Nat
  PROVE  Grows /\ SameExists
  BY DEF StoreInv, Grows, SameExists, StoreKept, Kept, Exists

LEMMA SavedStays ==
  ASSUME StoreInv, NEW p \in Proposal, NEW r, Save(p, r), Exists(p), r.state # "absent"
  PROVE  SameExists
  BY DEF StoreInv, Save, Exists, SameExists

LEMMA FixesAreProposals ==
  /\ Fixes(1) \in Proposal /\ Fixes(2) \in Proposal /\ Fixes(1) # Fixes(2)
  /\ \A p \in Proposal : p = Fixes(1) \/ p = Fixes(2) \/ p[1] # Patch.finding
  BY JobsAssumption DEF Fixes, Proposal

LEMMA ItsProposal ==
  ASSUME JobsTypeOK, NEW j \in JobId, jobs[j].proposal # 0
  PROVE  /\ ProposalOf(j) \in Proposal
         /\ jobs[j].proposal = 1 => ProposalOf(j) = Fixes(1)
         /\ jobs[j].proposal = 2 => ProposalOf(j) = Fixes(2)
  BY JobsAssumption DEF ProposalOf, JobsTypeOK, JobRecord, Fixes, Proposal

LEMMA JobVerifies ==
  ASSUME StoreInv, JobsTypeOK, NEW j \in JobId, jobs[j].proposal # 0,
         RecordVerification(ProposalOf(j),
           [content |-> Patch.content, reproduced |-> TRUE, passed |-> TRUE, at |-> now])
  PROVE  Grows /\ SameExists /\ proposals'[ProposalOf(j)].manifest.content # "none"
<1> DEFINE e == [content |-> Patch.content, reproduced |-> TRUE, passed |-> TRUE, at |-> now]
           p == ProposalOf(j)
           r == [proposals[p] EXCEPT !.manifest = e, !.state = VerifiedAs(proposals[p].mode)]
<1>1. p \in Proposal
  BY ItsProposal
<1>2. e \in Evidence /\ e.content # "none"
  BY JobsAssumption, RepairStoreAssumption DEF Evidence, StoreInv
<1> HIDE DEF e, p
<1>3. RecordVerification(p, e)
  BY DEF e, p
<1>4. StoreInv' /\ StoreKept
  BY <1>1, <1>2, <1>3, VerificationKeeps
<1>5. proposals[p] \in Record
  BY <1>1 DEF StoreInv
<1>6. r.state # "absent" /\ r.manifest = e
  BY <1>5 DEF VerifiedAs, Record
<1>7. Save(p, r) /\ Exists(p)
  BY <1>3 DEF RecordVerification
<1>8. SameExists
  BY <1>1, <1>6, <1>7, SavedStays
<1>9. proposals'[p] = r
  BY <1>1, <1>7 DEF Save, StoreInv
<1> QED
  BY <1>1, <1>2, <1>4, <1>6, <1>8, <1>9 DEF Grows, SameExists, p

LEMMA JobRequests ==
  ASSUME StoreInv, NEW p \in Proposal, NEW text \in Text, RequestPublication(p, text)
  PROVE  Grows /\ SameExists
<1> DEFINE a == [decision |-> "pending", expiresAt |-> now + ApprovalMs, text |-> text]
           r == [proposals[p] EXCEPT !.approval = a, !.state = "awaiting_publication"]
<1>1. StoreInv' /\ StoreKept
  BY RequestKeeps
<1>2. Save(p, r) /\ Exists(p) /\ r.state # "absent"
  BY DEF RequestPublication, StoreInv, Record
<1>3. SameExists
  BY <1>2, SavedStays
<1> QED
  BY <1>1, <1>3 DEF Grows, SameExists

LEMMA JobDecides ==
  ASSUME StoreInv, NEW p \in Proposal, NEW decision \in {"allow", "deny"},
         DecidePublication(p, p, decision)
  PROVE  Grows /\ SameExists /\ proposals'[p].approval.decision = decision
<1> DEFINE r == [proposals[p] EXCEPT
                   !.approval.decision = decision,
                   !.state = IF decision = "deny" THEN "abandoned" ELSE @]
<1>1. StoreInv' /\ StoreKept
  BY DecisionKeeps
<1>2. proposals[p] \in Record /\ Exists(p)
  BY DEF StoreInv, DecidePublication
<1>3. r.state # "absent" /\ r.approval.decision = decision
  BY <1>2 DEF Record, Approval, Exists
<1>4. Save(p, r)
  BY DEF DecidePublication
<1>5. SameExists
  BY <1>2, <1>3, <1>4, SavedStays
<1>6. proposals'[p] = r
  BY <1>4 DEF Save, StoreInv
<1> QED
  BY <1>1, <1>3, <1>5, <1>6 DEF Grows, SameExists

LEMMA JobPublishes ==
  ASSUME StoreInv, NEW p \in Proposal, NEW t \in Token,
         ClaimPublication(p, t, "github") \/ FinishPublication(p, t) \/ ReleasePublication(p, t)
  PROVE  Grows /\ SameExists
<1>1. StoreInv' /\ StoreKept
  BY ClaimKeeps, FinishKeeps, ReleaseKeeps DEF Transport
<1>2. Exists(p)
  BY DEF ClaimPublication, Authorized, FinishPublication, ReleasePublication
<1>3. proposals[p] \in Record
  BY DEF StoreInv
<1>4. CASE ClaimPublication(p, t, "github")
  <2> DEFINE g == IF Attempted(p) THEN proposals[p].progress ELSE Started("github")
             r == [proposals[p] EXCEPT !.progress = g, !.token = t, !.until = now + LeaseMs]
  <2>1. Save(p, r)
    BY <1>4 DEF ClaimPublication
  <2> HIDE DEF g
  <2>2. r.state # "absent"
    BY <1>2, <1>3 DEF Record, Exists
  <2> QED
    BY <1>2, <2>1, <2>2, <1>1, SavedStays DEF Grows, SameExists
<1>5. CASE FinishPublication(p, t)
  <2> DEFINE kind == IF proposals[p].progress.transport = "github"
                     THEN "published" ELSE "synthetic"
             r == [proposals[p] EXCEPT !.progress.result = kind, !.token = "none", !.until = 0,
                     !.state = IF kind = "published" THEN "published" ELSE @]
  <2>1. Save(p, r)
    BY <1>5 DEF FinishPublication
  <2>2. r.state # "absent"
    BY <1>2, <1>3 DEF Record, Exists
  <2> QED
    BY <1>2, <2>1, <2>2, <1>1, SavedStays DEF Grows, SameExists
<1>6. CASE ReleasePublication(p, t)
  <2> DEFINE r == [proposals[p] EXCEPT !.token = "none", !.until = 0]
  <2>1. Save(p, r)
    BY <1>6 DEF ReleasePublication
  <2>2. r.state # "absent"
    BY <1>2, <1>3 DEF Record, Exists
  <2> QED
    BY <1>2, <2>1, <2>2, <1>1, SavedStays DEF Grows, SameExists
<1> QED
  BY <1>4, <1>5, <1>6

(* What the coordinator proposes is one of its two, and was not there.     *)
LEMMA JobProposes ==
  ASSUME StoreInv, NEW n \in {1, 2}, Propose(Fixes(n), Patch.content, "local_replay")
  PROVE  /\ Grows /\ ~ Exists(Fixes(n)) /\ proposals'[Fixes(n)].state # "absent"
         /\ \A p \in Proposal : p # Fixes(n) => proposals'[p] = proposals[p]
<1>1. Fixes(n) \in Proposal
  BY FixesAreProposals
<1>2. StoreInv' /\ StoreKept
  BY <1>1, ProposeKeeps, JobsAssumption
<1>3. ~ Exists(Fixes(n)) /\ Save(Fixes(n), Proposed(Patch.content, "local_replay"))
  BY DEF Propose
<1>4. \A p \in Proposal :
        proposals'[p] = IF p = Fixes(n) THEN Proposed(Patch.content, "local_replay")
                        ELSE proposals[p]
  BY <1>1, <1>3 DEF Save, StoreInv
<1>5. Proposed(Patch.content, "local_replay").state # "absent"
  BY DEF Proposed
<1> QED
  BY <1>1, <1>2, <1>3, <1>4, <1>5 DEF Grows, Exists

-----------------------------------------------------------------------------
(* Jobs, calls of start and the process *)

(* Steps of the publications and of the runtime. *)
LEMMA QuietControl ==
  ASSUME JobsTypeOK, Control, UNCHANGED <<work, starts, indexed, worker>>, Grows, SameExists,
         \A j \in JobId : /\ jobs'[j].state = jobs[j].state
                          /\ jobs'[j].proposal = jobs[j].proposal
                          /\ calls'[j] = "boot" <=> calls[j] = "boot"
  PROVE  Control'
<1>1. ProcessKnows'
  BY DEF Control, ProcessKnows, AtWork, Unfinished, JobsTypeOK
<1>2. StartKnows'
  BY DEF Control, StartKnows, Unfinished
<1>3. JobsInOrder'
  BY DEF Control, JobsInOrder, AtWork, Unfinished, JobId
<1>4. \A j \in JobId : ProposalOf(j)' = ProposalOf(j)
  BY DEF ProposalOf
<1>5. ASSUME NEW j \in JobId, jobs[j].proposal # 0
      PROVE  /\ Exists(ProposalOf(j)) => Exists(ProposalOf(j))'
             /\ Verified(ProposalOf(j)) => Verified(ProposalOf(j))'
  BY <1>4, <1>5, ItsProposal DEF Grows, StoreKept, Kept, Exists, Verified
<1>6. \A n \in {1, 2} : Exists(Fixes(n))' <=> Exists(Fixes(n))
  BY FixesAreProposals DEF SameExists, Exists, Fixes
<1>7. ProposalsKnow'
  BY <1>5, <1>6 DEF Control, ProposalsKnow, At, JobId
<1> QED
  BY <1>1, <1>2, <1>3, <1>7 DEF Control

(* The calls of start, which see the jobs as they are. *)
LEMMA JobsCounted ==
  ASSUME JobsTypeOK, JobsInOrder
  PROVE  /\ Existing \in {{}, {1}, {1, 2}}
         /\ Existing = {} => Cardinality(Existing) = 0
         /\ Existing = {1} => Cardinality(Existing) = 1
         /\ Existing = {1, 2} => Cardinality(Existing) = 2
<1>1. Existing \subseteq {1, 2} /\ (2 \in Existing => 1 \in Existing)
  BY DEF Existing, JobsInOrder, JobId
<1>2. Existing \in {{}, {1}, {1, 2}}
  BY <1>1
<1>3. Cardinality({}) = 0 /\ Cardinality({1}) = 1
  BY FS_EmptySet, FS_Singleton
<1>4. Cardinality({1, 2}) = 2
  <2>1. IsFiniteSet({1})
    BY FS_Singleton
  <2>2. 2 \notin {1} /\ {1} \cup {2} = {1, 2}
    OBVIOUS
  <2> QED
    BY <1>3, <2>1, <2>2, FS_AddElement
<1> QED
  BY <1>2, <1>3, <1>4

LEMMA StartsControl ==
  ASSUME JobsTypeOK, Control, Start \/ \E s \in starts : StartChecks(s) \/ StartFails(s)
  PROVE  Control'
<1>1. CASE Start
  BY <1>1 DEF Start, Serving, Control, ProcessKnows, StartKnows, JobsInOrder, ProposalsKnow, AtWork,
         Unfinished, jobDocs, process, runtime, repairVars, Exists, Verified, ProposalOf, At
<1>2. ASSUME NEW s \in starts, StartChecks(s)
      PROVE  Control'
  <2>1. \A j \in JobId : ~ Unfinished(j)
    BY <1>2 DEF StartChecks, Existing, Unfinished
  <2>2. starts = {s}
    BY DEF Control, StartKnows
  <2>3. PICK t : starts' = {t}
    BY <1>2, <2>2 DEF StartChecks
  <2> QED
    BY <1>2, <2>1, <2>3 DEF StartChecks, Serving, Control, ProcessKnows, StartKnows, JobsInOrder,
         ProposalsKnow, AtWork, Unfinished, jobDocs, process, runtime, repairVars, Exists, Verified,
         ProposalOf, At
<1>3. ASSUME NEW s \in starts, StartFails(s)
      PROVE  Control'
  BY <1>3 DEF StartFails, Serving, Control, ProcessKnows, StartKnows, JobsInOrder, ProposalsKnow,
         AtWork, Unfinished, jobDocs, process, runtime, repairVars, Exists, Verified, ProposalOf, At
<1> QED
  BY <1>1, <1>2, <1>3

LEMMA NewJob ==
  ASSUME JobsTypeOK, Control, NEW s \in starts, StartCreates(s)
  PROVE  \E j \in JobId :
           /\ jobs[j].state = "absent" /\ (j = 2 => jobs[1].state # "absent")
           /\ jobs' = [jobs EXCEPT ![j] = [state |-> "preparing", turn |-> s.turn, proposal |-> 0]]
           /\ work' = [work EXCEPT ![j] = [phase |-> "prepare", step |-> "created"]]
<1>1. /\ Existing \in {{}, {1}, {1, 2}}
      /\ Existing = {} => Cardinality(Existing) = 0
      /\ Existing = {1} => Cardinality(Existing) = 1
      /\ Existing = {1, 2} => Cardinality(Existing) = 2
  BY JobsCounted DEF Control
<1>2. PICK j : j = Cardinality(Existing) + 1
  OBVIOUS
<1>3. j \in JobId
  BY <1>2 DEF StartCreates
<1>4. jobs[j].state = "absent" /\ (j = 2 => jobs[1].state # "absent")
  BY <1>1, <1>2, <1>3 DEF Existing, JobId
<1> DEFINE job == [NoJob EXCEPT !.state = "preparing", !.turn = s.turn]
<1>5. SetJob(j, job) /\ Work(j, "prepare", "created")
  BY <1>2 DEF StartCreates
<1>6. s.turn \in Nat
  BY DEF JobsTypeOK
<1>7. NoJob \in JobRecord /\ NoJob.proposal = 0
  BY DEF NoJob, JobRecord
<1>8. job \in JobRecord /\ job.state = "preparing" /\ job.turn = s.turn /\ job.proposal = 0
  BY <1>6, <1>7 DEF JobRecord
<1> HIDE DEF job
<1>9. job = [state |-> "preparing", turn |-> s.turn, proposal |-> 0]
  BY <1>8 DEF JobRecord
<1> QED
  BY <1>3, <1>4, <1>5, <1>9 DEF SetJob, Work

LEMMA CreateControl ==
  ASSUME JobsTypeOK, Control, NEW s \in starts, StartCreates(s)
  PROVE  Control'
<1>1. PICK j \in JobId :
           /\ jobs[j].state = "absent" /\ (j = 2 => jobs[1].state # "absent")
           /\ jobs' = [jobs EXCEPT ![j] = [state |-> "preparing", turn |-> s.turn, proposal |-> 0]]
           /\ work' = [work EXCEPT ![j] = [phase |-> "prepare", step |-> "created"]]
  BY NewJob
<1>2. \A k \in JobId : ~ Unfinished(k) /\ ~ AtWork(k)
  BY DEF Control, StartKnows, StartCreates, JobsInOrder
<1>3. starts' = {} /\ worker = "up" /\ worker' = worker /\ indexed' = indexed /\ calls' = calls
  BY DEF Control, StartKnows, StartCreates, Serving, process
<1>4. jobs'[j] = [state |-> "preparing", turn |-> s.turn, proposal |-> 0] /\ AtWork(j)'
  BY <1>1 DEF JobsTypeOK, AtWork
<1>5. \A k \in JobId : k # j => jobs'[k] = jobs[k] /\ work'[k] = work[k]
  BY <1>1 DEF JobsTypeOK
<1>6. ProcessKnows'
  <2>1. \A k \in JobId : Unfinished(k)' => AtWork(k)'
    BY <1>2, <1>4, <1>5 DEF Unfinished, AtWork
  <2>2. indexed' \subseteq JobId
    BY <1>3 DEF JobsTypeOK
  <2> QED
    BY <1>3, <2>1, <2>2 DEF Control, ProcessKnows
<1>7. StartKnows'
  BY <1>3 DEF StartKnows
<1>8. jobs[2].state = "absent" /\ (j = 2 => jobs[1].state \in {"verified_local", "abandoned"})
  BY <1>1, <1>2 DEF Control, JobsInOrder, JobsTypeOK, JobRecord, JobId, Unfinished
<1>9. JobsInOrder'
  BY <1>1, <1>4, <1>5, <1>8 DEF Control, JobsInOrder, AtWork, Unfinished, JobId, JobsTypeOK
<1>10. UNCHANGED proposals
  BY DEF StartCreates, repairVars
<1>11. work'[j] = [phase |-> "prepare", step |-> "created"]
  BY <1>1 DEF JobsTypeOK
<1>12. ProposalsKnow'
  BY <1>1, <1>4, <1>5, <1>8, <1>10, <1>11
  DEF Control, ProposalsKnow, At, JobId, ProposalOf, Exists, Verified
<1> QED
  BY <1>6, <1>7, <1>9, <1>12 DEF Control

(* A job at work goes on. *)
LEMMA WorkGoesOn ==
  ASSUME JobsTypeOK, Control, NEW j \in JobId, NEW phase \in Phase, NEW step,
         AtWork(j), Work(j, phase, step),
         UNCHANGED <<starts, worker, calls>>, indexed \subseteq indexed', indexed' \subseteq indexed \cup {j},
         \A k \in JobId : /\ Unfinished(k)' <=> Unfinished(k)
                          /\ jobs'[k].state = "absent" <=> jobs[k].state = "absent"
                          /\ k # j => jobs'[k].state = jobs[k].state
  PROVE  (ProcessKnows /\ StartKnows /\ JobsInOrder)' /\ worker = "up"
<1>1. worker = "up"
  BY DEF Control, ProcessKnows, JobsTypeOK
<1>2. work'[j] = [phase |-> phase, step |-> step] /\ \A k \in JobId : k # j => work'[k] = work[k]
  BY DEF Work, JobsTypeOK
<1>3. \A k \in JobId : AtWork(k)' <=> AtWork(k)
  BY <1>2 DEF AtWork, Phase
<1>4. indexed' \subseteq JobId
  BY DEF JobsTypeOK
<1>5. ProcessKnows'
  BY <1>1, <1>3, <1>4 DEF Control, ProcessKnows
<1>6. StartKnows'
  BY DEF Control, StartKnows
<1>7. j = 1 => jobs[2].state = "absent"
  BY DEF Control, JobsInOrder, Unfinished, JobId
<1>8. JobsInOrder'
  BY <1>2, <1>3, <1>7 DEF Control, JobsInOrder, JobId
<1> QED
  BY <1>1, <1>5, <1>6, <1>8

LEMMA ProposalsStay ==
  ASSUME JobsTypeOK, Control, Grows, SameExists, NEW j \in JobId, AtWork(j),
         NEW phase \in Phase, NEW step, Work(j, phase, step),
         \A k \in JobId : jobs'[k].state = jobs[k].state /\ jobs'[k].proposal = jobs[k].proposal,
         step # "proposed",
         phase = "prepare" => work[j].phase = "prepare" /\ work[j].step # "proposed",
         phase # "prepare" => work[j].phase \in {"before", "after"},
         step = "recorded" => /\ jobs[j].proposal # 0
                              /\ proposals'[ProposalOf(j)].manifest.content # "none"
  PROVE  ProposalsKnow'
<1>1. work'[j] = [phase |-> phase, step |-> step] /\ \A k \in JobId : k # j => work'[k] = work[k]
  BY DEF Work, JobsTypeOK
<1>2. \A k \in JobId : ProposalOf(k)' = ProposalOf(k)
  BY DEF ProposalOf
<1>3. ASSUME NEW k \in JobId, jobs[k].proposal # 0
      PROVE  /\ Exists(ProposalOf(k)) => Exists(ProposalOf(k))'
             /\ Verified(ProposalOf(k)) => Verified(ProposalOf(k))'
  BY <1>2, <1>3, ItsProposal DEF Grows, StoreKept, Kept, Exists, Verified
<1>4. \A n \in {1, 2} : Exists(Fixes(n))' <=> Exists(Fixes(n))
  BY FixesAreProposals DEF SameExists, Exists, Fixes
<1>5. step = "recorded" => Verified(ProposalOf(j))'
  BY <1>2 DEF Verified
<1>6. \A k \in JobId :
        /\ At(k, "prepare", "proposed")' => Exists(Fixes(1))'
        /\ jobs'[k].proposal # 0 => Exists(ProposalOf(k))'
        /\ work'[k].phase \in {"before", "after"} => jobs'[k].proposal # 0
        /\ jobs'[k].state = "verified_local" \/ work'[k].step = "recorded" =>
             jobs'[k].proposal # 0 /\ Verified(ProposalOf(k))'
  BY <1>1, <1>3, <1>4, <1>5 DEF Control, ProposalsKnow, At, Phase
<1>7. /\ jobs'[2].state = "absent" => ~ Exists(Fixes(2))' /\ jobs'[2].proposal = 0
      /\ jobs'[1].state = "absent" \/ (work'[1].phase = "prepare" /\ work'[1].step # "proposed") =>
           ~ Exists(Fixes(1))'
      /\ jobs'[1].proposal # 2
      /\ At(2, "prepare", "proposed")' /\ jobs'[1].proposal = 1 => Exists(Fixes(2))'
      /\ jobs'[1].proposal = jobs'[2].proposal => jobs'[2].proposal = 0
  BY <1>1, <1>4 DEF Control, ProposalsKnow, At, JobId
<1> QED
  BY <1>6, <1>7 DEF ProposalsKnow

(* The steps of a job at work that keep its state and its proposal. *)
LEMMA TurnsControl ==
  ASSUME StoreInv, JobsTypeOK, Control, NEW j \in JobId,
         IndexJob(j) \/ AssertLatest(j) \/ PostTurn(j) \/ TurnKnown(j) \/ Reproduced(j) \/ Passed(j)
  PROVE  Control' /\ Grows /\ SameExists
<1>1. \A k \in JobId : ~ AtWork(k) => work[k].step = "none"
  BY DEF Control, JobsInOrder
<1>2. work[j] \in WorkRecord
  BY DEF JobsTypeOK
<1>3. ASSUME NEW phase \in Phase, NEW step, AtWork(j), Work(j, phase, step),
             UNCHANGED <<starts, worker, calls>>,
             indexed \subseteq indexed', indexed' \subseteq indexed \cup {j},
             \A k \in JobId : jobs'[k].state = jobs[k].state /\ jobs'[k].proposal = jobs[k].proposal
      PROVE  (ProcessKnows /\ StartKnows /\ JobsInOrder)'
  BY <1>3, WorkGoesOn DEF Unfinished
<1>4. CASE IndexJob(j)
  <2>1. AtWork(j) /\ Work(j, "prepare", "ready") /\ "prepare" \in Phase /\ work[j].step = "created"
        /\ work[j].phase = "prepare"
    BY <1>4 DEF IndexJob, AtWork, At, Phase
  <2>2. Grows /\ SameExists
    BY <1>4, SameStore DEF IndexJob, repairVars, StoreInv
  <2>3. UNCHANGED <<starts, worker, calls, jobs>> /\ indexed' = indexed \cup {j}
    BY <1>4 DEF IndexJob, process
  <2>4. ProposalsKnow'
    BY <2>1, <2>2, <2>3, ProposalsStay
  <2>5. (ProcessKnows /\ StartKnows /\ JobsInOrder)'
    BY <1>3, <2>1, <2>3
  <2> QED
    BY <2>2, <2>4, <2>5 DEF Control
<1>5. ASSUME NEW step, NEW next, PhaseStep(j, step, next),
             step \in {"ready", "post", "sent"}, next \in {"post", "sent", "runs"},
             \A k \in JobId : jobs'[k].state = jobs[k].state /\ jobs'[k].proposal = jobs[k].proposal
      PROVE  Control' /\ Grows /\ SameExists
  <2>1. PICK phase : phase = work[j].phase
    OBVIOUS
  <2>2. AtWork(j) /\ phase \in Phase /\ Work(j, phase, next) /\ work[j].step = step
    BY <1>1, <1>2, <1>5, <2>1 DEF PhaseStep, AtWork, WorkRecord
  <2>3. Grows /\ SameExists
    BY <1>5, SameStore DEF PhaseStep, repairVars, StoreInv
  <2>4. UNCHANGED <<starts, worker, calls, indexed>>
    BY <1>5 DEF PhaseStep, process
  <2>5. ProposalsKnow'
    BY <1>5, <2>1, <2>2, <2>3, ProposalsStay DEF Phase
  <2>6. (ProcessKnows /\ StartKnows /\ JobsInOrder)'
    BY <1>3, <1>5, <2>2, <2>4
  <2> QED
    BY <2>3, <2>5, <2>6 DEF Control
<1>6. CASE AssertLatest(j)
  BY <1>5, <1>6 DEF AssertLatest
<1>7. CASE PostTurn(j)
  BY <1>5, <1>7 DEF PostTurn
<1>8. CASE TurnKnown(j)
  <2>1. PICK n \in TurnsOf(j, {"work"}) : SetJob(j, [jobs[j] EXCEPT !.turn = n])
    BY <1>8 DEF TurnKnown
  <2>2. \A k \in JobId : jobs'[k].state = jobs[k].state /\ jobs'[k].proposal = jobs[k].proposal
    BY <2>1 DEF SetJob, JobsTypeOK, JobRecord
  <2> QED
    BY <1>5, <1>8, <2>2 DEF TurnKnown
<1>9. CASE Reproduced(j)
  <2>1. /\ AtWork(j) /\ Work(j, "after", "ready") /\ "after" \in Phase
        /\ work[j].phase = "before"
    BY <1>9 DEF Reproduced, TurnDone, AtWork, At, Phase
  <2>2. Grows /\ SameExists
    BY <1>9, SameStore DEF Reproduced, repairVars, StoreInv
  <2>3. UNCHANGED <<starts, worker, calls, jobs, indexed>>
    BY <1>9 DEF Reproduced, TurnDone, process
  <2>4. ProposalsKnow'
    BY <2>1, <2>2, <2>3, ProposalsStay
  <2>5. (ProcessKnows /\ StartKnows /\ JobsInOrder)'
    BY <1>3, <2>1, <2>3
  <2> QED
    BY <2>2, <2>4, <2>5 DEF Control
<1>10. CASE Passed(j)
  <2>1. /\ AtWork(j) /\ Work(j, "after", "recorded") /\ "after" \in Phase
        /\ work[j].phase = "after"
    BY <1>10 DEF Passed, TurnDone, AtWork, At, Phase
  <2>2. jobs[j].proposal # 0
    BY <2>1 DEF Control, ProposalsKnow
  <2>3. Grows /\ SameExists /\ proposals'[ProposalOf(j)].manifest.content # "none"
    BY <1>10, <2>2, JobVerifies DEF Passed
  <2>4. UNCHANGED <<starts, worker, calls, jobs, indexed>>
    BY <1>10 DEF Passed, TurnDone, process
  <2>5. ProposalsKnow'
    BY <2>1, <2>2, <2>3, <2>4, ProposalsStay
  <2>6. (ProcessKnows /\ StartKnows /\ JobsInOrder)'
    BY <1>3, <2>1, <2>4
  <2> QED
    BY <2>3, <2>5, <2>6 DEF Control
<1> QED
  BY <1>4, <1>6, <1>7, <1>8, <1>9, <1>10

(* The first job proposes what is then the first proposal, the second job  *)
(* the one that is left.                                                   *)
LEMMA PreparedControl ==
  ASSUME StoreInv, JobsTypeOK, Control, NEW j \in JobId, Prepared(j)
  PROVE  Control' /\ Grows
<1>1. /\ AtWork(j) /\ Work(j, "prepare", "proposed") /\ "prepare" \in Phase
      /\ work[j].phase = "prepare" /\ work[j].step = "runs" /\ jobs' = jobs
      /\ UNCHANGED <<starts, worker, calls, indexed>>
  BY DEF Prepared, TurnDone, AtWork, At, Phase, process
<1>2. PICK n \in {1, 2} :
        n = (IF Exists(Fixes(1)) THEN 2 ELSE 1) /\ Propose(Fixes(n), Patch.content, "local_replay")
  BY DEF Prepared, Fixes
<1>3. /\ Grows /\ ~ Exists(Fixes(n)) /\ proposals'[Fixes(n)].state # "absent"
      /\ \A p \in Proposal : p # Fixes(n) => proposals'[p] = proposals[p]
  BY <1>2, JobProposes
<1>4. (ProcessKnows /\ StartKnows /\ JobsInOrder)'
  BY <1>1, WorkGoesOn DEF Unfinished
<1>5. j = 1 => n = 1 /\ jobs[2].state = "absent"
  BY <1>1, <1>2 DEF Control, ProposalsKnow, JobsInOrder, Unfinished
<1>6. j = 2 => jobs[2].state # "absent" /\ jobs[1].state # "absent" /\ work[1].phase = "idle"
  BY <1>1 DEF Control, JobsInOrder, Unfinished, AtWork, JobId
<1>7. Exists(Fixes(n))' /\ \A m \in {1, 2} : m # n => (Exists(Fixes(m))' <=> Exists(Fixes(m)))
  BY <1>3, FixesAreProposals DEF Exists, Fixes
<1>8. Exists(Fixes(1))'
  BY <1>2, <1>7
<1>9. \A k \in JobId : ProposalOf(k)' = ProposalOf(k)
  BY <1>1 DEF ProposalOf
<1>10. ASSUME NEW k \in JobId, jobs[k].proposal # 0
       PROVE  /\ Exists(ProposalOf(k)) => Exists(ProposalOf(k))'
              /\ Verified(ProposalOf(k)) => Verified(ProposalOf(k))'
  BY <1>3, <1>9, <1>10, ItsProposal DEF Grows, StoreKept, Kept, Exists, Verified
<1>11. work'[j] = [phase |-> "prepare", step |-> "proposed"]
       /\ \A k \in JobId : k # j => work'[k] = work[k]
  BY <1>1 DEF Work, JobsTypeOK
<1>12. \A k \in JobId :
        /\ jobs'[k].proposal # 0 => Exists(ProposalOf(k))'
        /\ work'[k].phase \in {"before", "after"} => jobs'[k].proposal # 0
        /\ jobs'[k].state = "verified_local" \/ work'[k].step = "recorded" =>
             jobs'[k].proposal # 0 /\ Verified(ProposalOf(k))'
  BY <1>1, <1>10, <1>11 DEF Control, ProposalsKnow
<1>13. At(2, "prepare", "proposed")' /\ jobs'[1].proposal = 1 => Exists(Fixes(2))'
  <2>1. CASE j = 1
    BY <1>6, <2>1, <1>5, <1>11, <1>1 DEF At, Control, JobsInOrder, Unfinished, JobId, AtWork
  <2>2. CASE j = 2
    <3>1. jobs[1].proposal = 1 => Exists(Fixes(1))
      BY ItsProposal DEF Control, ProposalsKnow, JobId
    <3> QED
      BY <1>1, <1>2, <1>7, <3>1
  <2> QED
    BY <2>1, <2>2 DEF JobId
<1>14. /\ jobs'[2].state = "absent" => ~ Exists(Fixes(2))' /\ jobs'[2].proposal = 0
       /\ jobs'[1].state = "absent" \/ (work'[1].phase = "prepare" /\ work'[1].step # "proposed") =>
            ~ Exists(Fixes(1))'
  <2>1. CASE j = 1
    BY <2>1, <1>1, <1>5, <1>7, <1>11 DEF Control, ProposalsKnow, JobsInOrder, Unfinished, AtWork, JobId
  <2>2. CASE j = 2
    BY <2>2, <1>1, <1>6, <1>11 DEF Control, ProposalsKnow, JobId
  <2> QED
    BY <2>1, <2>2 DEF JobId
<1>15. ProposalsKnow'
  BY <1>1, <1>8, <1>12, <1>13, <1>14 DEF Control, ProposalsKnow
<1> QED
  BY <1>3, <1>4, <1>15 DEF Control

LEMMA ProposedControl ==
  ASSUME StoreInv, JobsTypeOK, Control, NEW j \in JobId, SaveProposed(j)
  PROVE  Control'
<1> DEFINE n == IF Exists(Fixes(2)) THEN 2 ELSE 1
           job == [jobs[j] EXCEPT !.state = "testing", !.proposal = n]
<1>1. /\ AtWork(j) /\ Work(j, "before", "ready") /\ "before" \in Phase
      /\ work[j].phase = "prepare" /\ work[j].step = "proposed" /\ SetJob(j, job)
      /\ UNCHANGED <<starts, worker, calls, indexed, proposals>>
  BY DEF SaveProposed, AtWork, At, Phase, process, Fixes, repairVars
<1>2. n \in {1, 2} /\ (n = 2 <=> Exists(Fixes(2)))
  OBVIOUS
<1> HIDE DEF n
<1>3. job.state = "testing" /\ job.proposal = n
  BY DEF JobsTypeOK, JobRecord
<1> HIDE DEF job
<1>4. jobs'[j] = job /\ \A k \in JobId : k # j => jobs'[k] = jobs[k]
  BY <1>1 DEF SetJob, JobsTypeOK
<1>5. Unfinished(j) /\ Unfinished(j)' /\ jobs[j].state # "absent"
  BY <1>1, <1>3, <1>4 DEF Control, JobsInOrder, Unfinished
<1>6. (ProcessKnows /\ StartKnows /\ JobsInOrder)'
  BY <1>1, <1>3, <1>4, <1>5, WorkGoesOn DEF Unfinished
<1>7. j = 1 => n = 1 /\ jobs[2].state = "absent" /\ jobs[2].proposal = 0
  BY <1>1, <1>2, <1>5 DEF Control, ProposalsKnow, JobsInOrder, Unfinished
<1>8. j = 2 => jobs[1].state # "absent" /\ work[1].phase = "idle"
  BY <1>5 DEF Control, JobsInOrder, Unfinished, AtWork, JobId
<1>9. Exists(Fixes(1)) /\ (j = 2 /\ jobs[1].proposal = 1 => n = 2) /\ jobs[1].proposal # 2
  BY <1>1, <1>2 DEF Control, ProposalsKnow, At
<1>10. work'[j] = [phase |-> "before", step |-> "ready"]
       /\ \A k \in JobId : k # j => work'[k] = work[k]
  BY <1>1 DEF Work, JobsTypeOK
<1>11. ProposalOf(j)' = Fixes(n) /\ \A k \in JobId : k # j => ProposalOf(k)' = ProposalOf(k)
  BY <1>3, <1>4 DEF ProposalOf, Fixes
<1>12. Exists(ProposalOf(j))'
  BY <1>1, <1>2, <1>9, <1>11 DEF Exists
<1>13. \A k \in JobId :
        /\ jobs'[k].proposal # 0 => Exists(ProposalOf(k))'
        /\ work'[k].phase \in {"before", "after"} => jobs'[k].proposal # 0
        /\ jobs'[k].state = "verified_local" \/ work'[k].step = "recorded" =>
             jobs'[k].proposal # 0 /\ Verified(ProposalOf(k))'
  BY <1>1, <1>2, <1>3, <1>4, <1>10, <1>11, <1>12 DEF Control, ProposalsKnow, Exists, Verified
<1>14. \A m \in {1, 2} : Exists(Fixes(m))' <=> Exists(Fixes(m))
  BY <1>1 DEF Exists, Fixes
<1>15. CASE j = 1
  <2>1. jobs'[2] = jobs[2] /\ work'[2] = work[2] /\ jobs'[1] = job /\ work'[1].phase = "before"
    BY <1>4, <1>10, <1>15 DEF JobId
  <2>2. work[2].phase = "idle" /\ ~ Exists(Fixes(2))'
    BY <1>7, <1>14, <1>15 DEF Control, ProposalsKnow, JobsInOrder, AtWork, Unfinished, JobId
  <2>3. \A k \in JobId : ~ At(k, "prepare", "proposed")'
    BY <2>1, <2>2 DEF At, JobId
  <2>4. jobs'[1].state # "absent" /\ jobs'[1].proposal = 1 /\ jobs'[2].proposal = 0
    BY <1>3, <1>7, <1>15, <2>1
  <2>5. ProposalsKnow'
    BY <1>13, <2>1, <2>2, <2>3, <2>4 DEF ProposalsKnow, JobId
  <2> QED
    BY <1>6, <2>5 DEF Control
<1>16. CASE j = 2
  <2>1. \A k \in JobId : ~ At(k, "prepare", "proposed")'
    BY <1>8, <1>10, <1>16 DEF At, JobId
  <2>2. jobs'[1] = jobs[1] /\ work'[1] = work[1] /\ jobs'[2] = job
    BY <1>4, <1>10, <1>16 DEF JobId
  <2>3. jobs'[2].state # "absent" /\ jobs'[1].state # "absent" /\ work'[1].phase = "idle"
    BY <1>3, <1>8, <1>16, <2>2
  <2>4. jobs'[1].proposal # 2 /\ jobs'[1].proposal # jobs'[2].proposal
    BY <1>2, <1>3, <1>9, <1>16, <2>2 DEF JobsTypeOK, JobRecord
  <2>5. ProposalsKnow'
    BY <1>13, <2>1, <2>3, <2>4 DEF ProposalsKnow, JobId
  <2> QED
    BY <1>6, <2>5 DEF Control
<1> QED
  BY <1>6, <1>15, <1>16 DEF JobId, Control

(* A job that ends, by itself or at the next start of the worker. *)
LEMMA EndsControl ==
  ASSUME JobsTypeOK, Control, NEW j \in JobId, NEW state \in {"verified_local", "abandoned"},
         Unfinished(j), SetJob(j, [jobs[j] EXCEPT !.state = state]),
         work' = work \/ work' = [work EXCEPT ![j] = Idle],
         worker = "recovering" \/ work'[j].phase = "idle",
         UNCHANGED <<proposals, starts, indexed, worker>>,
         calls' = calls \/ (worker = "recovering" /\ Call(j, "idle")),
         state = "verified_local" => work[j].step = "recorded"
  PROVE  Control'
<1> DEFINE job == [jobs[j] EXCEPT !.state = state]
<1>1. job.state = state /\ job.proposal = jobs[j].proposal
  BY DEF JobsTypeOK, JobRecord
<1> HIDE DEF job
<1>2. jobs'[j] = job /\ \A k \in JobId : k # j => jobs'[k] = jobs[k]
  BY DEF SetJob, JobsTypeOK, job
<1>3. /\ ~ Unfinished(j)' /\ jobs'[j].state \in {"verified_local", "abandoned"}
      /\ \A k \in JobId : k # j => (Unfinished(k)' <=> Unfinished(k))
  BY <1>1, <1>2 DEF Unfinished
<1>4. work'[j].phase = "idle" /\ work'[j].step = "none"
      /\ \A k \in JobId : k # j => work'[k] = work[k]
  BY DEF JobsTypeOK, Idle, Control, JobsInOrder, ProcessKnows, AtWork
<1>5. \A k \in JobId : k # j => calls'[k] = calls[k]
  BY DEF Call, JobsTypeOK
<1>6. calls'[j] = "boot" => worker = "recovering"
  BY DEF Call, JobsTypeOK, Control, ProcessKnows
<1>7. \A k \in JobId : AtWork(k)' => AtWork(k)
  BY <1>4 DEF AtWork
<1>8. ProcessKnows'
  <2>1. worker' # "up" => starts' = {} /\ \A k \in JobId : ~ AtWork(k)'
    BY <1>7 DEF Control, ProcessKnows
  <2>2. \A k \in JobId : calls'[k] = "boot" => worker' = "recovering"
    BY <1>5, <1>6 DEF Control, ProcessKnows
  <2>3. \A k \in indexed : Unfinished(k)' => k # j /\ Unfinished(k)
    BY <1>3 DEF JobsTypeOK
  <2>4. \A k \in JobId : k # j /\ AtWork(k) => AtWork(k)'
    BY <1>4 DEF AtWork
  <2> QED
    BY <1>5, <2>1, <2>2, <2>3, <2>4 DEF Control, ProcessKnows, JobsTypeOK
<1>9. StartKnows'
  BY <1>3 DEF Control, StartKnows
<1>10. JobsInOrder'
  <2>1. \A k \in JobId : (AtWork(k)' => Unfinished(k)') /\ (~ AtWork(k)' => work'[k].step = "none")
    BY <1>3, <1>4 DEF Control, JobsInOrder, AtWork
  <2>2. jobs'[2].state # "absent" => jobs'[1].state \in {"verified_local", "abandoned"}
    BY <1>2, <1>3 DEF Control, JobsInOrder, JobId, Unfinished
  <2> QED
    BY <2>1, <2>2 DEF JobsInOrder
<1>11. \A k \in JobId : ProposalOf(k)' = ProposalOf(k) /\ jobs'[k].proposal = jobs[k].proposal
  BY <1>1, <1>2 DEF ProposalOf
<1>12. /\ \A n : Exists(Fixes(n))' <=> Exists(Fixes(n))
       /\ \A k \in JobId : /\ Exists(ProposalOf(k))' <=> Exists(ProposalOf(k))
                           /\ Verified(ProposalOf(k))' <=> Verified(ProposalOf(k))
  BY <1>11 DEF Exists, Verified, Fixes
<1>13. \A k \in JobId : jobs'[k].state = "absent" <=> jobs[k].state = "absent"
  BY <1>2, <1>3 DEF Unfinished
<1>14. \A k \in JobId : \A phase, step : phase # "idle" /\ At(k, phase, step)' => At(k, phase, step)
  BY <1>4 DEF At
<1>15. \A k \in JobId :
        /\ At(k, "prepare", "proposed")' => Exists(Fixes(1))'
        /\ jobs'[k].proposal # 0 => Exists(ProposalOf(k))'
        /\ work'[k].phase \in {"before", "after"} => jobs'[k].proposal # 0
        /\ jobs'[k].state = "verified_local" \/ work'[k].step = "recorded" =>
             jobs'[k].proposal # 0 /\ Verified(ProposalOf(k))'
  BY <1>2, <1>1, <1>4, <1>11, <1>12, <1>14 DEF Control, ProposalsKnow
<1>16. work'[1].phase = "prepare" /\ work'[1].step # "proposed" =>
         work[1].phase = "prepare" /\ work[1].step # "proposed"
  BY <1>4 DEF JobId
<1>17. ProposalsKnow'
  BY <1>11, <1>12, <1>13, <1>14, <1>15, <1>16 DEF Control, ProposalsKnow, JobId
<1> QED
  BY <1>8, <1>9, <1>10, <1>17 DEF Control

LEMMA JobEndsControl ==
  ASSUME JobsTypeOK, Control, NEW j \in JobId, SaveVerified(j) \/ JobFails(j)
  PROVE  Control'
<1>1. PICK state \in {"verified_local", "abandoned"} :
        JobEnds(j, state) /\ (state = "verified_local" => work[j].step = "recorded")
  BY DEF SaveVerified, JobFails
<1>2. AtWork(j)
  BY DEF SaveVerified, JobFails, Control, JobsInOrder, AtWork
<1>3. /\ Unfinished(j) /\ SetJob(j, [jobs[j] EXCEPT !.state = state])
      /\ work' = [work EXCEPT ![j] = Idle]
      /\ UNCHANGED <<proposals, starts, indexed, worker>> /\ calls' = calls
  BY <1>1, <1>2 DEF JobEnds, Control, JobsInOrder, process, repairVars
<1>4. work'[j].phase = "idle"
  BY <1>3 DEF JobsTypeOK, Idle
<1> QED
  BY <1>1, <1>3, <1>4, EndsControl

(* The worker dies, and comes back. *)
LEMMA WorkerControl ==
  ASSUME JobsTypeOK, Control, WorkerDies \/ Recovery
  PROVE  Control'
<1>1. CASE WorkerDies
  <2>1. /\ worker' = "down" /\ starts' = {} /\ UNCHANGED <<jobs, indexed, proposals>>
        /\ \A k \in JobId : work'[k] = Idle /\ calls'[k] = "idle"
    BY <1>1 DEF WorkerDies, jobDocs, repairVars
  <2>2. ProcessKnows' /\ StartKnows' /\ JobsInOrder'
    BY <2>1 DEF Control, ProcessKnows, StartKnows, JobsInOrder, AtWork, Idle
  <2>3. ProposalsKnow'
    BY <2>1 DEF Control, ProposalsKnow, At, Idle, Exists, Verified, ProposalOf, JobId
  <2> QED
    BY <2>2, <2>3 DEF Control
<1>2. CASE Boot
  <2>1. /\ worker' = "recovering" /\ UNCHANGED <<jobs, indexed, proposals, starts, work>>
        /\ \A k \in JobId : calls'[k] = IF k \in indexed THEN "boot" ELSE "idle"
    BY <1>2 DEF Boot, jobDocs, repairVars
  <2>2. starts = {} /\ \A k \in JobId : ~ AtWork(k)
    BY <1>2 DEF Boot, Control, ProcessKnows
  <2>3. ProcessKnows'
    BY <2>1, <2>2 DEF ProcessKnows, AtWork, JobsTypeOK
  <2>4. StartKnows' /\ JobsInOrder'
    BY <2>1 DEF Control, StartKnows, JobsInOrder, AtWork, Unfinished
  <2>5. ProposalsKnow'
    BY <2>1 DEF Control, ProposalsKnow, At, Exists, Verified, ProposalOf
  <2> QED
    BY <2>3, <2>4, <2>5 DEF Control
<1>3. ASSUME NEW j \in JobId, RecoverUnfinished(j)
      PROVE  Control'
  <2>1. worker = "recovering"
    BY <1>3 DEF RecoverUnfinished, RecoversNext, Control, ProcessKnows
  <2>2. /\ Unfinished(j) /\ SetJob(j, [jobs[j] EXCEPT !.state = "abandoned"]) /\ Call(j, "idle")
        /\ UNCHANGED <<proposals, starts, indexed, worker, work>>
    BY <1>3 DEF RecoverUnfinished, RecoversNext, process, repairVars
  <2> QED
    BY <2>1, <2>2, EndsControl
<1>4. ASSUME NEW j \in JobId, RecoverFinished(j)
      PROVE  Control'
  <2>1. /\ ~ Unfinished(j) /\ UNCHANGED <<jobs, proposals, starts, indexed, worker, work>>
        /\ calls[j] = "boot"
    BY <1>4 DEF RecoverFinished, RecoversNext, process, repairVars
  <2>2. calls'[j] # "boot" /\ \A k \in JobId : k # j => calls'[k] = calls[k]
    BY <1>4 DEF RecoverFinished, Call, JobsTypeOK
  <2>3. ProcessKnows'
    BY <2>1, <2>2 DEF Control, ProcessKnows, AtWork, Unfinished, JobsTypeOK
  <2>4. StartKnows' /\ JobsInOrder'
    BY <2>1 DEF Control, StartKnows, JobsInOrder, AtWork, Unfinished
  <2>5. ProposalsKnow'
    BY <2>1 DEF Control, ProposalsKnow, At, Exists, Verified, ProposalOf
  <2> QED
    BY <2>3, <2>4, <2>5 DEF Control
<1>5. CASE Recovered
  <2>1. /\ worker' = "up" /\ UNCHANGED <<jobs, proposals, starts, indexed, calls, work>>
        /\ worker = "recovering" /\ \A k \in JobId : calls[k] = "idle"
    BY <1>5 DEF Recovered, jobDocs, memory, repairVars
  <2>2. \A k \in indexed : ~ Unfinished(k)
    BY <2>1 DEF Control, ProcessKnows, JobsTypeOK
  <2>3. ProcessKnows'
    BY <2>1, <2>2 DEF ProcessKnows, Unfinished
  <2>4. StartKnows' /\ JobsInOrder'
    BY <2>1 DEF Control, StartKnows, JobsInOrder, AtWork, Unfinished
  <2>5. ProposalsKnow'
    BY <2>1 DEF Control, ProposalsKnow, At, Exists, Verified, ProposalOf
  <2> QED
    BY <2>3, <2>4, <2>5 DEF Control
<1> QED
  BY <1>1, <1>2, <1>3, <1>4, <1>5 DEF Recovery

(* The publication calls, the tool, the runtime and the clock leave jobs,  *)
(* calls of start and the process as they are.                             *)
LEMMA CallMoves ==
  ASSUME JobsTypeOK, NEW j \in JobId, NEW next, Call(j, next), next # "boot", calls[j] # "boot"
  PROVE  \A k \in JobId : calls'[k] = "boot" <=> calls[k] = "boot"
  BY DEF Call, JobsTypeOK

LEMMA TrackKeeps ==
  ASSUME JobsTypeOK, NEW j \in JobId, NEW n, Track(j, n)
  PROVE  /\ \A k \in JobId : jobs'[k].state = jobs[k].state /\ jobs'[k].proposal = jobs[k].proposal
         /\ jobs'[j].turn = n /\ \A k \in JobId : k # j => jobs'[k] = jobs[k]
         /\ Call(j, "tracked")
<1> DEFINE job == [jobs[j] EXCEPT !.turn = n]
<1>1. job.state = jobs[j].state /\ job.proposal = jobs[j].proposal /\ job.turn = n
  BY DEF JobsTypeOK, JobRecord
<1>2. SetJob(j, job) /\ Call(j, "tracked")
  BY DEF Track
<1> HIDE DEF job
<1>3. jobs'[j] = job /\ \A k \in JobId : k # j => jobs'[k] = jobs[k]
  BY <1>2 DEF SetJob, JobsTypeOK
<1> QED
  BY <1>1, <1>2, <1>3

LEMMA RequestGrows ==
  ASSUME StoreInv, JobsTypeOK, Control, NEW j \in JobId, Request(j)
  PROVE  Grows /\ SameExists
<1>1. jobs[j].proposal # 0
  BY DEF Request, Control, ProposalsKnow
<1>2. ProposalOf(j) \in Proposal
  BY <1>1, ItsProposal
<1>3. CASE RequestPublication(ProposalOf(j), Patch.text)
  BY <1>2, <1>3, JobRequests, JobsAssumption
<1>4. CASE UNCHANGED repairVars
  BY <1>4, SameStore DEF repairVars, StoreInv
<1> QED
  BY <1>3, <1>4 DEF Request

LEMMA DecideGrows ==
  ASSUME StoreInv, JobsTypeOK, Control, NEW j \in JobId, NEW decision \in {"allow", "deny"},
         Decide(j, decision)
  PROVE  Grows /\ SameExists /\ proposals'[ProposalOf(j)].approval.decision = decision
<1>1. ProposalOf(j) \in Proposal
  BY ItsProposal DEF Decide
<1>2. CASE DecidePublication(ProposalOf(j), ProposalOf(j), decision)
  BY <1>1, <1>2, JobDecides
<1>3. CASE proposals[ProposalOf(j)].approval.decision = decision /\ UNCHANGED repairVars
  BY <1>3, SameStore DEF repairVars, StoreInv
<1> QED
  BY <1>2, <1>3 DEF Decide

LEMMA PublicationControl ==
  ASSUME StoreInv, JobsTypeOK, Control, NEW j \in JobId, Publication(j)
  PROVE  Control' /\ Grows /\ SameExists
<1>1. ASSUME UNCHANGED repairVars
      PROVE  Grows /\ SameExists
  BY <1>1, SameStore DEF repairVars, StoreInv
<1>2. ASSUME UNCHANGED <<work, starts, indexed, worker>>, Grows, SameExists,
             \A k \in JobId : jobs'[k].state = jobs[k].state /\ jobs'[k].proposal = jobs[k].proposal,
             calls[j] # "boot", NEW next, next # "boot", Call(j, next)
      PROVE  Control' /\ Grows /\ SameExists
  BY <1>2, CallMoves, QuietControl
<1>3. ASSUME NEW stage, NEW next, Locked(j, stage, next), stage # "boot", next # "boot",
             UNCHANGED <<jobs, indexed>>, Grows, SameExists
      PROVE  Control' /\ Grows /\ SameExists
  BY <1>2, <1>3 DEF Locked, process
<1>4. CASE Request(j)
  BY <1>3, <1>4, RequestGrows DEF Request, jobDocs
<1>5. CASE RequestAgain(j)
  BY <1>1, <1>3, <1>5 DEF RequestAgain, jobDocs
<1>6. CASE NoteRequest(j)
  BY <1>1, <1>2, <1>6 DEF NoteRequest, process
<1>7. CASE \E decision \in {"allow", "deny"} : Decide(j, decision)
  <2>1. PICK decision \in {"allow", "deny"} : Decide(j, decision)
    BY <1>7
  <2>2. PICK next : next \in {"allowed", "denied"} /\ Locked(j, "idle", next)
    BY <2>1 DEF Decide
  <2>3. UNCHANGED <<jobs, indexed>> /\ Grows /\ SameExists
    BY <2>1, DecideGrows DEF Decide, jobDocs
  <2> QED
    BY <1>3, <2>2, <2>3
<1>8. CASE DecideAgain(j)
  BY <1>1, <1>3, <1>8 DEF DecideAgain, jobDocs
<1>9. CASE NoteDecision(j)
  BY <1>1, <1>2, <1>9 DEF NoteDecision, process
<1>10. CASE CheckNewest(j)
  BY <1>1, <1>3, <1>10 DEF CheckNewest, jobDocs
<1>11. CASE PostContinuation(j)
  BY <1>1, <1>3, <1>11 DEF PostContinuation, jobDocs
<1>12. CASE Continued(j)
  <2>1. PICK n \in TurnsOf(j, {Kind(j)}) : Track(j, n)
    BY <1>12 DEF Continued
  <2>2. \A k \in JobId : jobs'[k].state = jobs[k].state /\ jobs'[k].proposal = jobs[k].proposal
    BY <2>1, TrackKeeps
  <2>3. UNCHANGED <<work, starts, indexed, worker>> /\ Call(j, "tracked") /\ calls[j] = "sent"
        /\ Grows /\ SameExists
    BY <1>1, <1>12, <2>1 DEF Continued, Locked, process
  <2> QED
    BY <1>2, <2>2, <2>3
<1>13. CASE ShowTracked(j)
  BY <1>1, <1>2, <1>13 DEF ShowTracked, process
<1>14. CASE Unanswered(j)
  BY <1>1, <1>3, <1>14 DEF Unanswered, jobDocs
<1>15. CASE RecoverRefused(j)
  BY <1>1, <1>2, <1>15 DEF RecoverRefused, process
<1>16. CASE RecoverKnown(j)
  BY <1>1, <1>2, <1>16 DEF RecoverKnown, process, jobDocs
<1>17. CASE Find(j)
  <2>1. PICK next : next # "boot" /\ Call(j, next)
    BY <1>17 DEF Find, Track
  <2>2. \A k \in JobId : jobs'[k].state = jobs[k].state /\ jobs'[k].proposal = jobs[k].proposal
    BY <1>17, TrackKeeps DEF Find
  <2>3. UNCHANGED <<work, starts, indexed, worker>> /\ calls[j] = "find" /\ Grows /\ SameExists
    BY <1>1, <1>17 DEF Find, process
  <2> QED
    BY <1>2, <2>1, <2>2, <2>3
<1> QED
  BY <1>4, <1>5, <1>6, <1>7, <1>8, <1>9, <1>10, <1>11, <1>12, <1>13, <1>14, <1>15, <1>16, <1>17
  DEF Publication

(* The environment: watches, the publish tool, the runtime, the owner's    *)
(* consent and the clock.                                                  *)
Outside ==
  \/ \E w \in watchers : WatchEnds(w)
  \/ \E j \in JobId, t \in Token : jobs[j].proposal # 0 /\ (ToolPublishes(j, t) \/ PublishEnds(j, t))
  \/ (\E post \in posted : ServeTurn(post)) \/ (\E n \in 1..Newest : TurnEnds(n))
  \/ ConsentChanges
  \/ Tick /\ UNCHANGED coordinator
  \/ UNCHANGED jobsVars

LEMMA OutsideControl ==
  ASSUME StoreInv, JobsTypeOK, Control, Outside
  PROVE  Control' /\ Grows /\ SameExists
<1>1. UNCHANGED <<jobs, calls, work, starts, indexed, worker>>
  BY DEF Outside, WatchEnds, ToolPublishes, PublishEnds, ServeTurn, TurnEnds, ConsentChanges,
         coordinator, jobsVars, jobDocs, memory, process, runtime
<1>2. ASSUME NEW j \in JobId, NEW t \in Token, jobs[j].proposal # 0,
             ToolPublishes(j, t) \/ PublishEnds(j, t)
      PROVE  Grows /\ SameExists
  BY <1>2, ItsProposal, JobPublishes DEF ToolPublishes, PublishEnds
<1>3. ASSUME UNCHANGED repairVars
      PROVE  Grows /\ SameExists
  BY <1>3, SameStore DEF repairVars, StoreInv
<1>4. ASSUME Tick
      PROVE  Grows /\ SameExists
  BY <1>4, SameStore DEF Tick, StoreInv
<1>5. Grows /\ SameExists
  BY <1>2, <1>3, <1>4 DEF Outside, WatchEnds, ServeTurn, TurnEnds, ConsentChanges, jobsVars
<1> QED
  BY <1>1, <1>5, QuietControl

-----------------------------------------------------------------------------
(* The session grows, and what is known of a turn stays known *)

TurnsGrow ==
  /\ Newest \in Nat /\ Newest' \in Nat /\ Newest <= Newest'
  /\ \A n \in 1..Newest : /\ turns'[n].kind = turns[n].kind /\ turns'[n].job = turns[n].job
                          /\ turns'[n].after = turns[n].after
SessionOf(j) ==
  /\ \A kinds \in {{"work"}, {"ask"}, Decisions, Words} : TurnsOf(j, kinds)' = TurnsOf(j, kinds)
  /\ \A kinds \in {{"ask"}, Decisions, Words} : PostsOf(j, kinds)' = PostsOf(j, kinds)

LEMMA OwnGrows ==
  ASSUME TurnsGrow, NEW j \in JobId
  PROVE  /\ \A kinds : TurnsOf(j, kinds) \subseteq TurnsOf(j, kinds)'
         /\ \A n : Own(j, n) => Own(j, n)'
         /\ \A n : OwnWork(j, n) => OwnWork(j, n)'
<1>1. \A n \in 1..Newest : n \in 1..Newest'
  BY DEF TurnsGrow
<1>2. ASSUME NEW kinds, NEW n \in TurnsOf(j, kinds)
      PROVE  n \in TurnsOf(j, kinds)'
  BY <1>1 DEF TurnsOf, TurnsGrow
<1>3. \A n : Own(j, n) => Own(j, n)'
  BY <1>1 DEF Own, TurnsGrow
<1> QED
  BY <1>2, <1>3 DEF OwnWork

LEMMA SessionSame ==
  ASSUME JobsTypeOK, turns' = turns
  PROVE  TurnsGrow /\ Newest' = Newest /\ \A j \in JobId : \A kinds : TurnsOf(j, kinds)' = TurnsOf(j, kinds)
<1>1. Newest \in Nat
  BY LenProperties DEF Newest, JobsTypeOK
<1> QED
  BY <1>1 DEF TurnsGrow, TurnsOf, Newest

LEMMA SessionUntouched ==
  ASSUME JobsTypeOK, turns' = turns, posted' = posted
  PROVE  TurnsGrow /\ \A j \in JobId : SessionOf(j)
  BY SessionSame DEF SessionOf, PostsOf

LEMMA TurnServed ==
  ASSUME JobsTypeOK, NEW post \in posted, ServeTurn(post)
  PROVE  /\ turns' \in Seq(Entry) /\ Newest \in Nat /\ Newest' = Newest + 1
         /\ turns'[Newest + 1] = post /\ \A n \in 1..Newest : turns'[n] = turns[n]
<1>1. turns \in Seq(Entry) /\ post \in Entry /\ turns' = Append(turns, post)
  BY DEF JobsTypeOK, ServeTurn
<1> QED
  BY <1>1, AppendProperties DEF Newest

LEMMA ServedSession ==
  ASSUME JobsTypeOK, NEW post \in posted, ServeTurn(post)
  PROVE  /\ TurnsGrow
         /\ \A j \in JobId : \A kinds :
              /\ post.job = j /\ post.kind \in kinds =>
                   /\ TurnsOf(j, kinds)' = TurnsOf(j, kinds) \cup {Newest + 1}
                   /\ PostsOf(j, kinds)' = PostsOf(j, kinds) \ {post}
                   /\ post \in PostsOf(j, kinds)
              /\ ~ (post.job = j /\ post.kind \in kinds) =>
                   /\ TurnsOf(j, kinds)' = TurnsOf(j, kinds)
                   /\ PostsOf(j, kinds)' = PostsOf(j, kinds)
<1>1. /\ Newest \in Nat /\ Newest' = Newest + 1
      /\ turns'[Newest + 1] = post /\ \A n \in 1..Newest : turns'[n] = turns[n]
  BY TurnServed
<1>2. TurnsGrow
  BY <1>1 DEF TurnsGrow
<1>3. \A n : n \in 1..Newest' <=> n \in 1..Newest \/ n = Newest + 1
  BY <1>1
<1>4. \A j \in JobId : \A kinds, n : n \in TurnsOf(j, kinds)' <=>
        \/ n \in TurnsOf(j, kinds)
        \/ n = Newest + 1 /\ post.job = j /\ post.kind \in kinds
  BY <1>1, <1>3 DEF TurnsOf
<1>5. posted' = posted \ {post}
  BY DEF ServeTurn
<1>6. ASSUME NEW j \in JobId, NEW kinds
      PROVE  /\ post.job = j /\ post.kind \in kinds =>
                   /\ TurnsOf(j, kinds)' = TurnsOf(j, kinds) \cup {Newest + 1}
                   /\ PostsOf(j, kinds)' = PostsOf(j, kinds) \ {post}
                   /\ post \in PostsOf(j, kinds)
             /\ ~ (post.job = j /\ post.kind \in kinds) =>
                   /\ TurnsOf(j, kinds)' = TurnsOf(j, kinds)
                   /\ PostsOf(j, kinds)' = PostsOf(j, kinds)
  <2>1. CASE post.job = j /\ post.kind \in kinds
    BY <1>4, <1>5, <2>1 DEF PostsOf
  <2>2. CASE ~ (post.job = j /\ post.kind \in kinds)
    <3>1. \A n : n \in TurnsOf(j, kinds)' <=> n \in TurnsOf(j, kinds)
      BY <1>4, <2>2
    <3>2. \A p : p \in PostsOf(j, kinds)' <=> p \in PostsOf(j, kinds)
      BY <1>5, <2>2 DEF PostsOf
    <3> QED
      BY <2>2, <3>1, <3>2
  <2> QED
    BY <2>1, <2>2
<1> QED
  BY <1>2, <1>6

LEMMA EndedTurn ==
  ASSUME JobsTypeOK, NEW n \in 1..Newest, TurnEnds(n)
  PROVE  /\ TurnsGrow /\ Newest' = Newest /\ turns' \in Seq(Entry)
         /\ \A j \in JobId : SessionOf(j)
         /\ \A m \in 1..Newest : turns'[m].state = "approval" =>
              turns[m].state = "approval" \/ turns[m].kind = "ask"
<1>1. PICK state \in {"approval", "done", "error"} :
        /\ turns' = [turns EXCEPT ![n].state = state]
        /\ state = "approval" => turns[n].kind = "ask"
  BY DEF TurnEnds
<1>2. turns \in Seq(Entry) /\ n \in 1..Len(turns)
  BY DEF JobsTypeOK, Newest
<1>3. turns[n] \in Entry
  BY <1>2, ElementOfSeq
<1> DEFINE entry == [turns[n] EXCEPT !.state = state]
<1>4. /\ entry \in Entry /\ entry.kind = turns[n].kind /\ entry.job = turns[n].job
      /\ entry.after = turns[n].after /\ entry.state = state
  BY <1>3 DEF Entry
<1>5. turns' = [turns EXCEPT ![n] = entry]
  BY <1>1
<1> HIDE DEF entry
<1>6. /\ turns' \in Seq(Entry) /\ Len(turns') = Len(turns) /\ turns'[n] = entry
      /\ \A m \in 1..Len(turns) : m # n => turns'[m] = turns[m]
  BY <1>2, <1>4, <1>5, ExceptSeq
<1>7. Newest' = Newest /\ Newest \in Nat
  BY <1>2, <1>6, LenProperties DEF Newest
<1>8. TurnsGrow
  BY <1>4, <1>6, <1>7 DEF TurnsGrow, Newest
<1>9. \A j \in JobId : \A kinds : TurnsOf(j, kinds)' = TurnsOf(j, kinds)
  BY <1>7, <1>8 DEF TurnsOf, TurnsGrow
<1>10. \A j \in JobId : SessionOf(j)
  BY <1>9 DEF SessionOf, PostsOf, TurnEnds
<1>11. \A m \in 1..Newest : turns'[m].state = "approval" =>
              turns[m].state = "approval" \/ turns[m].kind = "ask"
  BY <1>1, <1>4, <1>6 DEF Newest
<1> QED
  BY <1>6, <1>7, <1>8, <1>10, <1>11

LEMMA PostAdds ==
  ASSUME JobsTypeOK, NEW i \in JobId, NEW kind, NEW after, Post(i, kind, after)
  PROVE  /\ TurnsGrow /\ turns' = turns
         /\ posted' = posted \cup {[after |-> after, kind |-> kind, job |-> i, state |-> "running"]}
         /\ \A j \in JobId : \A kinds : j # i \/ kind \notin kinds => PostsOf(j, kinds)' = PostsOf(j, kinds)
         /\ \A kinds : kind \in kinds => PostsOf(i, kinds)' = PostsOf(i, kinds) \cup
              {[after |-> after, kind |-> kind, job |-> i, state |-> "running"]}
         /\ \A j \in JobId : j # i \/ kind \notin Words => SessionOf(j)
<1> DEFINE e == [after |-> after, kind |-> kind, job |-> i, state |-> "running"]
<1>1. turns' = turns /\ posted' = posted \cup {e}
  BY DEF Post
<1>2. e.kind = kind /\ e.job = i
  OBVIOUS
<1> HIDE DEF e
<1>3. TurnsGrow /\ \A j \in JobId : \A kinds : TurnsOf(j, kinds)' = TurnsOf(j, kinds)
  BY <1>1, SessionSame
<1>4. \A j \in JobId : \A kinds : j # i \/ kind \notin kinds => PostsOf(j, kinds)' = PostsOf(j, kinds)
  BY <1>1, <1>2 DEF PostsOf
<1>5. \A kinds : kind \in kinds => PostsOf(i, kinds)' = PostsOf(i, kinds) \cup {e}
  BY <1>1, <1>2 DEF PostsOf
<1>6. \A j \in JobId : j # i \/ kind \notin Words => SessionOf(j)
  BY <1>3, <1>4 DEF SessionOf, Words
<1> QED
  BY <1>1, <1>3, <1>4, <1>5, <1>6 DEF e

-----------------------------------------------------------------------------
(* What is known of a job's publication *)

LEMMA NothingAsked ==
  ASSUME Publications, NEW j \in JobId, asked[j] = 0
  PROVE  /\ answered[j] = 0 /\ Unsent(j, {"ask"}) /\ Unsent(j, Decisions)
         /\ PostsOf(j, Words) = {} /\ TurnsOf(j, Words) = {}
         /\ calls[j] \in {"allowed", "denied"} => FALSE
<1>1. StandsRight(j) /\ SentOnce(j)
  BY DEF Publications
<1>2. Unsent(j, {"ask"})
  BY <1>1 DEF SentOnce
<1>3. answered[j] = 0
  BY <1>1, <1>2 DEF StandsRight, Unsent
<1>4. Unsent(j, Decisions)
  BY <1>1, <1>3 DEF SentOnce
<1>5. PostsOf(j, Words) = {} /\ TurnsOf(j, Words) = {}
  <2>1. PostsOf(j, Words) = PostsOf(j, {"ask"}) \cup PostsOf(j, Decisions)
    BY DEF PostsOf, Words
  <2>2. TurnsOf(j, Words) = TurnsOf(j, {"ask"}) \cup TurnsOf(j, Decisions)
    BY DEF TurnsOf, Words
  <2> QED
    BY <1>2, <1>4, <2>1, <2>2 DEF Unsent
<1>6. calls[j] \in {"allowed", "denied"} => FALSE
  BY <1>1, <1>2 DEF StandsRight, Unsent
<1> QED
  BY <1>2, <1>3, <1>4, <1>5, <1>6

(* The recorded decision stays, and with it what was said remains right.   *)
LEMMA WordStays ==
  ASSUME JobsTypeOK, Control, Publications, Grows, NEW j \in JobId, Publishing(j),
         jobs'[j].proposal = jobs[j].proposal, OwnersWord(j) \in Decisions
  PROVE  OwnersWord(j)' = OwnersWord(j)
<1>1. jobs[j].proposal # 0
  BY DEF Publications, StandsRight, Control, ProposalsKnow
<1>2. ProposalOf(j) \in Proposal /\ ProposalOf(j)' = ProposalOf(j)
  BY <1>1, ItsProposal DEF ProposalOf
<1>3. Kept(proposals[ProposalOf(j)], proposals'[ProposalOf(j)])
  BY <1>2 DEF Grows, StoreKept
<1> QED
  BY <1>2, <1>3 DEF Kept, OwnersWord, Decisions

LEMMA StillRight ==
  ASSUME JobsTypeOK, Control, Publications, Grows, TurnsGrow, NEW j \in JobId,
         asked[j] # 0 => asked'[j] = asked[j] /\ jobs'[j].proposal = jobs[j].proposal
  PROVE  /\ \A post \in PostsOf(j, Words) : SaysRight(j, post)'
         /\ \A n \in TurnsOf(j, Words) : SaysRight(j, turns[n])'
<1>1. CASE asked[j] = 0
  BY <1>1, NothingAsked
<1>2. CASE asked[j] # 0
  <2>1. Publishing(j) /\ asked'[j] = asked[j] /\ jobs'[j].proposal = jobs[j].proposal
    BY <1>2 DEF Publishing
  <2>2. OwnersWord(j) \in Decisions => OwnersWord(j)' = OwnersWord(j)
    BY <2>1, WordStays
  <2>3. TurnsOf(j, {"ask"}) \subseteq TurnsOf(j, {"ask"})'
    BY OwnGrows
  <2>4. ASSUME NEW entry, SaysRight(j, entry)
        PROVE  /\ entry.kind = "ask" => entry.after = asked'[j]
               /\ entry.kind \in Decisions =>
                    entry.kind = OwnersWord(j)' /\ entry.after \in TurnsOf(j, {"ask"})'
    BY <2>1, <2>2, <2>3, <2>4 DEF SaysRight
  <2>5. SentRight(j)
    BY DEF Publications
  <2>6. ASSUME NEW post \in PostsOf(j, Words)
        PROVE  SaysRight(j, post)'
    BY <2>4, <2>5 DEF SentRight, SaysRight
  <2>7. ASSUME NEW n \in TurnsOf(j, Words)
        PROVE  SaysRight(j, turns[n])'
    <3>1. turns'[n].kind = turns[n].kind /\ turns'[n].after = turns[n].after
      BY DEF TurnsOf, TurnsGrow
    <3>2. SaysRight(j, turns[n])
      BY <2>5 DEF SentRight
    <3> QED
      BY <2>4, <3>1, <3>2 DEF SaysRight
  <2> QED
    BY <2>6, <2>7
<1> QED
  BY <1>1, <1>2

(* While the session has nothing new of it, what is said of a job is right *)
(* when its next step is.                                                  *)
LEMMA RightKept ==
  ASSUME JobsTypeOK, Control, Publications, Grows, TurnsGrow, NEW j \in JobId, SessionOf(j),
         asked[j] # 0 => asked'[j] = asked[j] /\ jobs'[j].proposal = jobs[j].proposal,
         answered'[j] # 0 \/ calls'[j] \in {"allowed", "denied"} => OwnersWord(j)' \in Decisions
  PROVE  SentRight(j)'
<1>1. /\ \A post \in PostsOf(j, Words) : SaysRight(j, post)'
      /\ \A n \in TurnsOf(j, Words) : SaysRight(j, turns[n])'
  BY StillRight
<1>2. PostsOf(j, Words)' = PostsOf(j, Words) /\ TurnsOf(j, Words)' = TurnsOf(j, Words)
  BY DEF SessionOf
<1> QED
  BY <1>1, <1>2 DEF SentRight

LEMMA OnceKept ==
  ASSUME NEW j \in JobId, SessionOf(j)
  PROVE  /\ Once(j, {"ask"})' <=> Once(j, {"ask"})
         /\ Once(j, Decisions)' <=> Once(j, Decisions)
         /\ Unsent(j, {"ask"})' <=> Unsent(j, {"ask"})
         /\ Unsent(j, Decisions)' <=> Unsent(j, Decisions)
<1>1. ASSUME NEW kinds \in {{"ask"}, Decisions}
      PROVE  TurnsOf(j, kinds)' = TurnsOf(j, kinds) /\ PostsOf(j, kinds)' = PostsOf(j, kinds)
  BY DEF SessionOf
<1>2. (Once(j, {"ask"})' <=> Once(j, {"ask"})) /\ (Unsent(j, {"ask"})' <=> Unsent(j, {"ask"}))
  BY <1>1 DEF Once, Unsent
<1>3. (Once(j, Decisions)' <=> Once(j, Decisions)) /\ (Unsent(j, Decisions)' <=> Unsent(j, Decisions))
  BY <1>1 DEF Once, Unsent
<1> QED
  BY <1>2, <1>3

SameJob(j) ==
  /\ jobs'[j] = jobs[j] /\ work'[j] = work[j] /\ calls'[j] = calls[j] /\ shown'[j] = shown[j]
  /\ asked'[j] = asked[j] /\ answered'[j] = answered[j]
About(j) == StandsRight(j) /\ SentOnce(j) /\ SentRight(j)

LEMMA WordsKept ==
  ASSUME JobsTypeOK, Control, Publications, Grows, NEW j \in JobId,
         jobs'[j].proposal = jobs[j].proposal, answered'[j] = answered[j],
         calls'[j] \in {"allowed", "denied"} => calls[j] \in {"allowed", "denied"}
  PROVE  answered'[j] # 0 \/ calls'[j] \in {"allowed", "denied"} => OwnersWord(j)' \in Decisions
<1> SUFFICES ASSUME answered'[j] # 0 \/ calls'[j] \in {"allowed", "denied"}
             PROVE  OwnersWord(j)' \in Decisions
  OBVIOUS
<1>1. answered[j] # 0 \/ calls[j] \in {"allowed", "denied"}
  OBVIOUS
<1>2. OwnersWord(j) \in Decisions /\ Publishing(j)
  BY <1>1 DEF Publications, SentRight, Publishing
<1> QED
  BY <1>2, WordStays

LEMMA StandsKept ==
  ASSUME TurnsGrow, NEW j \in JobId, StandsRight(j), SameJob(j)
  PROVE  StandsRight(j)'
<1>1. /\ TurnsOf(j, {"ask"}) \subseteq TurnsOf(j, {"ask"})'
      /\ \A n : Own(j, n) => Own(j, n)'
      /\ \A n : OwnWork(j, n) => OwnWork(j, n)'
  BY OwnGrows
<1>2. OwnWork(j, jobs[j].turn) => OwnWork(j, jobs[j].turn)'
  BY <1>1 DEF OwnWork, SameJob, TurnsOf
<1> QED
  BY <1>1 DEF StandsRight, SameJob, Publishing, Own, OwnWork

LEMMA JobUntouched ==
  ASSUME JobsTypeOK, Control, Publications, Grows, TurnsGrow, NEW j \in JobId, SessionOf(j),
         SameJob(j)
  PROVE  About(j)'
<1>1. StandsRight(j)'
  BY StandsKept DEF Publications
<1>2. SentOnce(j)'
  BY OnceKept DEF Publications, SentOnce, SameJob, Sending, Previous
<1>3. SentRight(j)'
  BY RightKept, WordsKept DEF SameJob
<1> QED
  BY <1>1, <1>2, <1>3 DEF About

-----------------------------------------------------------------------------
(* A job moves: nothing is published of it yet *)

LEMMA JobMoves ==
  ASSUME JobsTypeOK, Control, Publications, Grows, TurnsGrow, NEW j \in JobId, SessionOf(j),
         jobs[j].state # "verified_local",
         calls'[j] = calls[j] \/ calls'[j] \in {"idle", "boot"},
         shown'[j] = shown[j], asked'[j] = asked[j], answered'[j] = answered[j],
         NEW t, t = jobs'[j].turn,
         (work'[j].phase \in {"before", "after"} \/ work'[j].step \in {"runs", "proposed", "recorded"}
            \/ jobs'[j].state = "verified_local") => t \in TurnsOf(j, {"work"})
  PROVE  About(j)'
<1>1. ~ Publishing(j) /\ asked[j] = 0 /\ answered[j] = 0 /\ calls'[j] \in {"idle", "boot"}
      /\ StandsRight(j) /\ SentOnce(j)
  BY DEF Publications, StandsRight, Publishing
<1>2. /\ \A n : Own(j, n) => Own(j, n)'
      /\ TurnsOf(j, {"work"}) \subseteq TurnsOf(j, {"work"})'
  BY OwnGrows
<1>3. \A n \in TurnsOf(j, {"work"}) : Own(j, n)
  BY DEF TurnsOf, Own
<1>4. t \in TurnsOf(j, {"work"}) => Own(j, t)' /\ OwnWork(j, t)'
  BY <1>2, <1>3 DEF OwnWork
<1>5. StandsRight(j)'
  <2>1. /\ work'[j].phase \in {"before", "after"} \/ work'[j].step \in {"runs", "proposed", "recorded"} =>
             OwnWork(j, t)'
        /\ jobs'[j].state = "verified_local" =>
             /\ Own(j, t)'
             /\ asked'[j] = 0 => OwnWork(j, t)'
    BY <1>4
  <2>2. ~ Publishing(j)' /\ asked'[j] = 0 /\ answered'[j] = 0 /\ calls'[j] \in {"idle", "boot"}
    BY <1>1 DEF Publishing
  <2>3. shown'[j].status # "none" \/ shown'[j].turn # 0 => Own(j, shown[j].turn)'
    BY <1>1, <1>2 DEF StandsRight, Own
  <2> QED
    BY <2>1, <2>2, <2>3 DEF StandsRight, Own, OwnWork
<1>6. SentOnce(j)'
  BY <1>1, OnceKept DEF SentOnce, Sending, Previous
<1>7. SentRight(j)'
  BY <1>1, RightKept
<1> QED
  BY <1>5, <1>6, <1>7 DEF About

LEMMA AllAbout ==
  ASSUME JobsTypeOK, Control, Publications, Grows, TurnsGrow, \A k \in JobId : SessionOf(k),
         NEW j \in JobId, About(j)', UNCHANGED <<asked, answered, shown>>,
         \A k \in JobId : k # j =>
           jobs'[k] = jobs[k] /\ work'[k] = work[k] /\ calls'[k] = calls[k]
  PROVE  \A k \in JobId : About(k)'
  BY JobUntouched DEF SameJob

LEMMA JobsMove ==
  ASSUME JobsTypeOK, Control, Publications, Grows, UNCHANGED <<asked, answered, shown, calls>>,
         NEW j \in JobId, jobs[j].state # "verified_local",
         TurnsGrow, \A k \in JobId : SessionOf(k),
         NEW job, NEW phase, NEW step, jobs' = jobs \/ SetJob(j, job), Work(j, phase, step),
         NEW t, t = jobs'[j].turn,
         (phase \in {"before", "after"} \/ step \in {"runs", "proposed", "recorded"}
            \/ jobs'[j].state = "verified_local") => t \in TurnsOf(j, {"work"})
  PROVE  \A k \in JobId : About(k)'
<1>1. \A k \in JobId : k # j =>
           jobs'[k] = jobs[k] /\ work'[k] = work[k] /\ calls'[k] = calls[k]
  BY DEF JobsTypeOK, SetJob, Work
<1>2. work'[j].phase = phase /\ work'[j].step = step
  BY DEF JobsTypeOK, Work
<1>3. About(j)'
  BY <1>2, JobMoves
<1> QED
  BY <1>1, <1>3, AllAbout

LEMMA StartsAbout ==
  ASSUME JobsTypeOK, Control, Publications, Grows, Starts
  PROVE  \A k \in JobId : About(k)'
<1>1. turns' = turns /\ posted' = posted /\ UNCHANGED <<asked, answered, shown, calls>>
  BY DEF Starts, Start, StartChecks, StartCreates, StartFails, IndexJob, runtime, jobDocs
<1>2. TurnsGrow /\ \A k \in JobId : SessionOf(k)
  BY <1>1, SessionUntouched
<1>3. CASE Start \/ \E s \in starts : StartChecks(s) \/ StartFails(s)
  <2>1. jobs' = jobs /\ work' = work
    BY <1>3 DEF Start, StartChecks, StartFails, jobDocs
  <2> QED
    BY <1>1, <1>2, <2>1, JobUntouched DEF SameJob
<1>4. ASSUME NEW s \in starts, StartCreates(s)
      PROVE  \A k \in JobId : About(k)'
  <2>1. PICK j \in JobId :
           /\ jobs[j].state = "absent" /\ (j = 2 => jobs[1].state # "absent")
           /\ jobs' = [jobs EXCEPT ![j] = [state |-> "preparing", turn |-> s.turn, proposal |-> 0]]
           /\ work' = [work EXCEPT ![j] = [phase |-> "prepare", step |-> "created"]]
    BY <1>4, NewJob
  <2>2. jobs'[j].state = "preparing" /\ jobs'[j].turn = s.turn
    BY <2>1 DEF JobsTypeOK
  <2>3. PICK t : t = s.turn
    OBVIOUS
  <2>4. PICK job : SetJob(j, job) /\ Work(j, "prepare", "created")
    BY <2>1 DEF SetJob, Work
  <2> QED
    BY <1>1, <1>2, <2>1, <2>2, <2>3, <2>4, JobsMove
<1>5. ASSUME NEW j \in JobId, IndexJob(j)
      PROVE  \A k \in JobId : About(k)'
  <2>1. /\ Work(j, "prepare", "ready") /\ jobs' = jobs
        /\ work[j].phase = "prepare"
    BY <1>5 DEF IndexJob, At
  <2>2. jobs[j].state # "verified_local"
    BY <2>1 DEF Control, JobsInOrder, AtWork, Unfinished
  <2> QED
    BY <1>1, <1>2, <2>1, <2>2, JobsMove
<1> QED
  BY <1>3, <1>4, <1>5 DEF Starts

LEMMA WorkIsUnpublished ==
  ASSUME Control, NEW j \in JobId, work[j].step # "none" \/ work[j].phase # "idle"
  PROVE  jobs[j].state # "verified_local" /\ work[j].phase # "idle"
  BY DEF Control, JobsInOrder, AtWork, Unfinished

LEMMA PerformAbout ==
  ASSUME JobsTypeOK, Control, Publications, Grows, NEW j \in JobId, Perform(j)
  PROVE  \A k \in JobId : About(k)'
<1>1. UNCHANGED <<asked, answered, shown, calls>>
  BY DEF Perform, AssertLatest, PostTurn, TurnKnown, PhaseStep, Prepared, SaveProposed, Reproduced,
         Passed, SaveVerified, JobFails, JobEnds, TurnDone
<1>2. ASSUME turns' = turns, posted' = posted
      PROVE  TurnsGrow /\ \A k \in JobId : SessionOf(k)
  BY <1>2, SessionUntouched
<1>3. StandsRight(j)
  BY DEF Publications
<1>4. CASE AssertLatest(j)
  <2>1. /\ Work(j, work[j].phase, "post")
        /\ work[j].step = "ready" /\ jobs' = jobs /\ turns' = turns /\ posted' = posted
    BY <1>4 DEF AssertLatest, PhaseStep
  <2>2. work[j].phase \in {"before", "after"} => jobs[j].turn \in TurnsOf(j, {"work"})
    BY <1>3 DEF StandsRight, OwnWork
  <2>3. jobs[j].state # "verified_local"
    BY <2>1, WorkIsUnpublished
  <2> QED
    BY <1>1, <1>2, <2>1, <2>2, <2>3, JobsMove
<1>5. CASE PostTurn(j)
  <2>1. /\ Work(j, work[j].phase, "sent")
        /\ work[j].step = "post" /\ jobs' = jobs /\ Post(j, "work", jobs[j].turn)
    BY <1>5 DEF PostTurn, PhaseStep
  <2>2. TurnsGrow /\ \A k \in JobId : SessionOf(k)
    BY <2>1, PostAdds DEF Words, Decisions
  <2>3. work[j].phase \in {"before", "after"} => jobs[j].turn \in TurnsOf(j, {"work"})
    BY <1>3 DEF StandsRight, OwnWork
  <2>4. jobs[j].state # "verified_local"
    BY <2>1, WorkIsUnpublished
  <2> QED
    BY <1>1, <2>1, <2>2, <2>3, <2>4, JobsMove
<1>6. CASE TurnKnown(j)
  <2>1. PICK n \in TurnsOf(j, {"work"}) : SetJob(j, [jobs[j] EXCEPT !.turn = n])
    BY <1>6 DEF TurnKnown
  <2>2. /\ Work(j, work[j].phase, "runs")
        /\ work[j].step = "sent" /\ turns' = turns /\ posted' = posted
    BY <1>6 DEF TurnKnown, PhaseStep
  <2>3. jobs'[j].turn = n
    BY <2>1 DEF SetJob, JobsTypeOK, JobRecord
  <2>4. jobs[j].state # "verified_local"
    BY <2>2, WorkIsUnpublished
  <2> QED
    BY <1>1, <1>2, <2>1, <2>2, <2>3, <2>4, JobsMove
<1>7. ASSUME NEW phase, NEW step, NEW old, TurnDone(j, old), Work(j, phase, step), jobs' = jobs
      PROVE  \A k \in JobId : About(k)'
  <2>1. /\ Work(j, phase, step)
        /\ work[j].step = "runs" /\ turns' = turns /\ posted' = posted
    BY <1>7 DEF TurnDone, At, runtime
  <2>2. jobs[j].turn \in TurnsOf(j, {"work"})
    BY <1>3, <2>1 DEF StandsRight, OwnWork
  <2>3. jobs[j].state # "verified_local"
    BY <2>1, WorkIsUnpublished
  <2> QED
    BY <1>1, <1>2, <1>7, <2>1, <2>2, <2>3, JobsMove
<1>8. CASE Prepared(j)
  BY <1>7, <1>8 DEF Prepared
<1>9. CASE SaveProposed(j)
  <2> DEFINE n == IF Exists(<<Patch.finding, 2>>) THEN 2 ELSE 1
             job == [jobs[j] EXCEPT !.state = "testing", !.proposal = n]
  <2>1. /\ Work(j, "before", "ready")
        /\ work[j].step = "proposed" /\ turns' = turns /\ posted' = posted /\ SetJob(j, job)
    BY <1>9 DEF SaveProposed, At, runtime
  <2> HIDE DEF n
  <2>2. job.turn = jobs[j].turn
    BY DEF JobsTypeOK, JobRecord
  <2> HIDE DEF job
  <2>3. jobs'[j].turn = jobs[j].turn
    BY <2>1, <2>2 DEF SetJob, JobsTypeOK
  <2>4. jobs[j].turn \in TurnsOf(j, {"work"})
    BY <1>3, <2>1 DEF StandsRight, OwnWork
  <2>5. jobs[j].state # "verified_local"
    BY <2>1, WorkIsUnpublished
  <2> QED
    BY <1>1, <1>2, <2>1, <2>3, <2>4, <2>5, JobsMove
<1>10. CASE Reproduced(j)
  BY <1>7, <1>10 DEF Reproduced
<1>11. CASE Passed(j)
  BY <1>7, <1>11 DEF Passed
<1>12. ASSUME NEW state, JobEnds(j, state), work[j].phase # "idle" \/ work[j].step # "none",
              state = "verified_local" => work[j].step = "recorded"
       PROVE  \A k \in JobId : About(k)'
  <2> DEFINE job == [jobs[j] EXCEPT !.state = state]
  <2>1. /\ Work(j, "idle", "none") /\ turns' = turns /\ posted' = posted /\ SetJob(j, job)
    BY <1>12 DEF JobEnds, runtime, Work, Idle
  <2>2. job.turn = jobs[j].turn /\ job.state = state
    BY DEF JobsTypeOK, JobRecord
  <2> HIDE DEF job
  <2>3. jobs'[j].turn = jobs[j].turn /\ jobs'[j].state = state
    BY <2>1, <2>2 DEF SetJob, JobsTypeOK
  <2>4. state = "verified_local" => jobs[j].turn \in TurnsOf(j, {"work"})
    BY <1>3, <1>12, <2>1 DEF StandsRight, OwnWork
  <2>5. jobs[j].state # "verified_local"
    BY <1>12, WorkIsUnpublished
  <2> QED
    BY <1>1, <1>2, <2>1, <2>3, <2>4, <2>5, JobsMove
<1>13. CASE SaveVerified(j)
  BY <1>12, <1>13 DEF SaveVerified
<1>14. CASE JobFails(j)
  BY <1>12, <1>14 DEF JobFails
<1> QED
  BY <1>4, <1>5, <1>6, <1>8, <1>9, <1>10, <1>11, <1>13, <1>14 DEF Perform

-----------------------------------------------------------------------------
(* A publication call moves *)

LEMMA OthersAbout ==
  ASSUME JobsTypeOK, Control, Publications, Grows, TurnsGrow, NEW j \in JobId, About(j)',
         \A k \in JobId : k # j => SameJob(k) /\ SessionOf(k)
  PROVE  \A k \in JobId : About(k)'
  BY JobUntouched

(* The call goes to its next stage; what is shown may become a turn that   *)
(* is the publication's own.                                               *)
LEMMA CallRight ==
  ASSUME JobsTypeOK, Control, Publications, Grows, TurnsGrow, NEW j \in JobId, SessionOf(j),
         asked'[j] = asked[j], answered'[j] = answered[j],
         jobs'[j] = jobs[j], work'[j] = work[j] \/ work'[j] = Idle,
         NEW next, calls'[j] = next,
         next \notin {"idle", "boot"} => jobs[j].state = "verified_local",
         next \in {"allowed", "denied"} => /\ shown[j].turn \in TurnsOf(j, {"ask"})
                                           /\ answered[j] = 0 /\ OwnersWord(j)' \in Decisions
                                           /\ shown'[j] = shown[j],
         next \in {"check", "post"} => /\ answered[j] = 0 => Unsent(j, {"ask"})
                                       /\ Unsent(j, Decisions),
         next = "requested" => asked[j] = 0,
         next \in {"check", "post", "sent", "recover", "find"} => Previous(j) # 0,
         NEW n, shown'[j] = shown[j] \/ (shown'[j].turn = n /\ Own(j, n))
  PROVE  About(j)'
<1>1. StandsRight(j) /\ SentOnce(j) /\ SentRight(j)
  BY DEF Publications
<1>2. /\ TurnsOf(j, {"ask"}) \subseteq TurnsOf(j, {"ask"})'
      /\ \A m : Own(j, m) => Own(j, m)'
      /\ \A m : OwnWork(j, m) => OwnWork(j, m)'
  BY OwnGrows
<1>3. PICK t : t = jobs[j].turn
  OBVIOUS
<1>4. StandsRight(j)'
  <2>1. /\ work'[j].phase \in {"before", "after"} \/ work'[j].step \in {"runs", "proposed", "recorded"} =>
             OwnWork(j, t)'
        /\ jobs'[j].state = "verified_local" =>
             /\ Own(j, t)'
             /\ asked'[j] = 0 => OwnWork(j, t)'
    BY <1>1, <1>2, <1>3 DEF StandsRight, Idle
  <2>2. Publishing(j)' => jobs'[j].state = "verified_local"
    BY <1>1 DEF StandsRight, Publishing
  <2>3. PICK m : m = asked[j]
    OBVIOUS
  <2>4. m # 0 => OwnWork(j, m)'
    BY <1>1, <1>2, <2>3 DEF StandsRight
  <2>5. answered'[j] # 0 => answered'[j] \in TurnsOf(j, {"ask"})'
    BY <1>1, <1>2 DEF StandsRight
  <2>6. calls'[j] \in {"allowed", "denied"} => shown'[j].turn \in TurnsOf(j, {"ask"})'
    BY <1>2
  <2>7. PICK u : u = shown'[j].turn
    OBVIOUS
  <2>8. shown'[j].status # "none" \/ u # 0 => Own(j, u)
    BY <1>1, <2>7 DEF StandsRight
  <2>9. shown'[j].status # "none" \/ u # 0 => Own(j, u)'
    BY <1>2, <2>8
  <2> QED
    BY <1>3, <2>1, <2>2, <2>3, <2>4, <2>5, <2>6, <2>7, <2>9 DEF StandsRight, Own, OwnWork
<1>5. SentOnce(j)'
  BY <1>1, OnceKept DEF SentOnce, Sending, Previous
<1>6. SentRight(j)'
  <2>1. answered[j] # 0 => OwnersWord(j) \in Decisions /\ Publishing(j)
    BY <1>1 DEF SentRight, Publishing
  <2>2. answered'[j] # 0 => OwnersWord(j)' \in Decisions
    BY <2>1, WordStays
  <2> QED
    BY <2>2, RightKept
<1> QED
  BY <1>4, <1>5, <1>6 DEF About

(* Its turn is found: the job names it.                                    *)
LEMMA TrackRight ==
  ASSUME JobsTypeOK, Control, Publications, Grows, TurnsGrow, NEW j \in JobId, SessionOf(j),
         asked'[j] = asked[j], answered'[j] = answered[j], shown'[j] = shown[j],
         work'[j] = work[j], calls[j] \in {"sent", "find"}, calls'[j] = "tracked",
         NEW n, Own(j, n), jobs'[j].turn = n,
         jobs'[j].state = jobs[j].state, jobs'[j].proposal = jobs[j].proposal
  PROVE  About(j)'
<1>1. StandsRight(j) /\ SentOnce(j) /\ SentRight(j)
  BY DEF Publications
<1>2. Publishing(j) /\ jobs[j].state = "verified_local" /\ asked[j] # 0
  <2>1. Publishing(j) /\ Previous(j) # 0
    BY <1>1 DEF Publishing, SentOnce
  <2> QED
    BY <1>1, <2>1, NothingAsked DEF StandsRight, Previous
<1>3. work[j].phase = "idle" /\ work[j].step = "none"
  BY <1>2, WorkIsUnpublished
<1>4. /\ TurnsOf(j, {"ask"}) \subseteq TurnsOf(j, {"ask"})'
      /\ \A m : Own(j, m) => Own(j, m)'
      /\ \A m : OwnWork(j, m) => OwnWork(j, m)'
  BY OwnGrows
<1>5. StandsRight(j)'
  <2>1. Own(j, n)'
    BY <1>4
  <2>2. PICK m : m = asked[j]
    OBVIOUS
  <2>3. m # 0 => OwnWork(j, m)'
    BY <1>1, <1>4, <2>2 DEF StandsRight
  <2>4. answered'[j] # 0 => answered'[j] \in TurnsOf(j, {"ask"})'
    BY <1>1, <1>4 DEF StandsRight
  <2>5. PICK u : u = shown[j].turn
    OBVIOUS
  <2>6. shown'[j].status # "none" \/ u # 0 => Own(j, u)'
    BY <1>1, <1>4, <2>5 DEF StandsRight
  <2> QED
    BY <1>2, <1>3, <2>1, <2>2, <2>3, <2>4, <2>5, <2>6 DEF StandsRight, Own, OwnWork, Publishing
<1>6. SentOnce(j)'
  BY <1>1, <1>2, OnceKept DEF SentOnce, Sending, Previous
<1>7. SentRight(j)'
  BY RightKept, WordsKept
<1> QED
  BY <1>5, <1>6, <1>7 DEF About

(* The intent to ask becomes a document.                                   *)
LEMMA NoteRequestRight ==
  ASSUME JobsTypeOK, Control, Publications, Grows, TurnsGrow, NEW j \in JobId, SessionOf(j),
         calls[j] = "requested", calls'[j] = "check", asked'[j] = jobs[j].turn,
         jobs'[j] = jobs[j], work'[j] = work[j], shown'[j] = shown[j], answered'[j] = answered[j]
  PROVE  About(j)'
<1>1. StandsRight(j) /\ SentOnce(j) /\ SentRight(j)
  BY DEF Publications
<1>2. asked[j] = 0 /\ answered[j] = 0 /\ Unsent(j, {"ask"}) /\ Unsent(j, Decisions)
  BY <1>1, NothingAsked DEF SentOnce
<1>3. jobs[j].state = "verified_local"
  BY <1>1 DEF StandsRight, Publishing
<1>4. PICK t : t = jobs[j].turn
  OBVIOUS
<1>5. t \in TurnsOf(j, {"work"}) /\ Own(j, t) /\ t # 0
  BY <1>1, <1>2, <1>3, <1>4 DEF StandsRight, OwnWork, TurnsOf
<1>6. /\ \A m : Own(j, m) => Own(j, m)'
      /\ \A m : OwnWork(j, m) => OwnWork(j, m)'
  BY OwnGrows
<1>7. StandsRight(j)'
  <2>1. Own(j, t)' /\ OwnWork(j, t)'
    BY <1>5, <1>6 DEF OwnWork
  <2>2. PICK u : u = shown[j].turn
    OBVIOUS
  <2>3. shown'[j].status # "none" \/ u # 0 => Own(j, u)'
    BY <1>1, <1>6, <2>2 DEF StandsRight
  <2> QED
    BY <1>2, <1>3, <1>4, <2>1, <2>2, <2>3 DEF StandsRight, Own, OwnWork
<1>8. SentOnce(j)'
  BY <1>1, <1>2, <1>4, <1>5, OnceKept DEF SentOnce, Sending, Previous
<1>9. SentRight(j)'
  BY <1>2, RightKept
<1> QED
  BY <1>7, <1>8, <1>9 DEF About

(* The intent to tell the decision becomes a document.                     *)
LEMMA NoteDecisionRight ==
  ASSUME JobsTypeOK, Control, Publications, Grows, TurnsGrow, NEW j \in JobId, SessionOf(j),
         calls[j] \in {"allowed", "denied"}, calls'[j] = "check", answered'[j] = shown[j].turn,
         jobs'[j] = jobs[j], work'[j] = work[j], shown'[j] = shown[j], asked'[j] = asked[j]
  PROVE  About(j)'
<1>1. StandsRight(j) /\ SentOnce(j) /\ SentRight(j)
  BY DEF Publications
<1>2. PICK u : u = shown[j].turn
  OBVIOUS
<1>3. u \in TurnsOf(j, {"ask"}) /\ u # 0 /\ answered[j] = 0 /\ Unsent(j, Decisions)
  BY <1>1, <1>2 DEF StandsRight, SentOnce, TurnsOf
<1>4. asked[j] # 0
  BY NothingAsked
<1>5. jobs[j].state = "verified_local" /\ Publishing(j)
  BY <1>1 DEF StandsRight, Publishing
<1>6. /\ TurnsOf(j, {"ask"}) \subseteq TurnsOf(j, {"ask"})'
      /\ \A m : Own(j, m) => Own(j, m)'
      /\ \A m : OwnWork(j, m) => OwnWork(j, m)'
  BY OwnGrows
<1>7. StandsRight(j)'
  <2>1. PICK t : t = jobs[j].turn
    OBVIOUS
  <2>2. Own(j, t)' /\ work[j].phase = "idle" /\ work[j].step = "none"
    BY <1>1, <1>5, <1>6, <2>1, WorkIsUnpublished DEF StandsRight
  <2>3. PICK m : m = asked[j]
    OBVIOUS
  <2>4. OwnWork(j, m)'
    BY <1>1, <1>4, <1>6, <2>3 DEF StandsRight
  <2>5. u \in TurnsOf(j, {"ask"})'
    BY <1>3, <1>6
  <2>6. shown[j].status # "none" \/ u # 0 => Own(j, u)'
    BY <1>1, <1>2, <1>6 DEF StandsRight
  <2> QED
    BY <1>2, <1>4, <1>5, <2>1, <2>2, <2>3, <2>4, <2>5, <2>6 DEF StandsRight, Own, OwnWork
<1>8. SentOnce(j)'
  BY <1>1, <1>2, <1>3, <1>4, OnceKept DEF SentOnce, Sending, Previous
<1>9. OwnersWord(j)' \in Decisions
  BY <1>1, <1>5, WordStays DEF SentRight
<1>10. SentRight(j)'
  BY <1>9, RightKept
<1> QED
  BY <1>7, <1>8, <1>10 DEF About

(* The continuation is posted. *)
LEMMA PostRight ==
  ASSUME JobsTypeOK, Control, Publications, Grows, NEW j \in JobId, PostContinuation(j)
  PROVE  About(j)'
<1>1. StandsRight(j) /\ SentOnce(j) /\ SentRight(j)
  BY DEF Publications
<1>2. /\ calls[j] = "post" /\ calls'[j] = "sent" /\ Post(j, Kind(j), Previous(j))
      /\ jobs' = jobs /\ work' = work /\ shown' = shown /\ asked' = asked /\ answered' = answered
      /\ proposals' = proposals
  BY DEF PostContinuation, Locked, Call, JobsTypeOK, jobDocs, repairVars
<1>3. asked[j] # 0 /\ Publishing(j) /\ jobs[j].state = "verified_local"
  BY <1>1, <1>2, NothingAsked DEF SentOnce, Previous, StandsRight, Publishing
<1>4. PICK e : e = [after |-> Previous(j), kind |-> Kind(j), job |-> j, state |-> "running"]
  OBVIOUS
<1>5. /\ TurnsGrow /\ turns' = turns
      /\ \A kinds : Kind(j) \notin kinds => PostsOf(j, kinds)' = PostsOf(j, kinds)
      /\ \A kinds : Kind(j) \in kinds => PostsOf(j, kinds)' = PostsOf(j, kinds) \cup {e}
  BY <1>2, <1>4, PostAdds
<1>6. \A kinds : TurnsOf(j, kinds)' = TurnsOf(j, kinds)
  BY <1>5, SessionSame
<1>7. StandsRight(j)'
  BY <1>1, <1>2, <1>3, <1>5, <1>6
  DEF StandsRight, Own, OwnWork, Publishing, TurnsGrow, Newest
<1>8. \/ answered[j] = 0 /\ Kind(j) = "ask" /\ Unsent(j, {"ask"})
      \/ answered[j] # 0 /\ Kind(j) \in Decisions /\ Unsent(j, Decisions) /\ Kind(j) = OwnersWord(j)
  BY <1>1, <1>2 DEF Kind, SentOnce, SentRight, Sending, OwnersWord
<1>9. Once(j, {"ask"})' /\ Once(j, Decisions)' /\ (answered[j] = 0 => Unsent(j, Decisions)')
  <2>1. CASE answered[j] = 0 /\ Kind(j) = "ask" /\ Unsent(j, {"ask"})
    <3>1. PostsOf(j, {"ask"})' = {e} /\ TurnsOf(j, {"ask"})' = {}
      BY <1>5, <1>6, <2>1 DEF Unsent
    <3>2. PostsOf(j, Decisions)' = PostsOf(j, Decisions) /\ TurnsOf(j, Decisions)' = TurnsOf(j, Decisions)
      BY <1>5, <1>6, <2>1 DEF Decisions
    <3>3. Once(j, {"ask"})'
      BY <3>1 DEF Once
    <3>4. Once(j, Decisions)'
      BY <1>1, <3>2 DEF SentOnce, Once
    <3>5. Unsent(j, Decisions)'
      BY <1>1, <2>1, <3>2 DEF SentOnce, Unsent
    <3> QED
      BY <3>3, <3>4, <3>5
  <2>2. CASE answered[j] # 0 /\ Kind(j) \in Decisions /\ Unsent(j, Decisions)
    <3>1. PostsOf(j, Decisions)' = {e} /\ TurnsOf(j, Decisions)' = {}
      BY <1>5, <1>6, <2>2 DEF Unsent
    <3>2. PostsOf(j, {"ask"})' = PostsOf(j, {"ask"}) /\ TurnsOf(j, {"ask"})' = TurnsOf(j, {"ask"})
      BY <1>5, <1>6, <2>2 DEF Decisions
    <3>3. Once(j, Decisions)'
      BY <3>1 DEF Once
    <3>4. Once(j, {"ask"})'
      BY <1>1, <3>2 DEF SentOnce, Once
    <3> QED
      BY <2>2, <3>3, <3>4
  <2> QED
    BY <1>8, <2>1, <2>2
<1>10. SentOnce(j)'
  BY <1>1, <1>2, <1>3, <1>9 DEF SentOnce, Sending, Previous
<1>11. /\ \A post \in PostsOf(j, Words) : SaysRight(j, post)'
       /\ \A n \in TurnsOf(j, Words) : SaysRight(j, turns[n])'
  BY <1>2, <1>5, StillRight
<1>12. OwnersWord(j)' = OwnersWord(j)
  BY <1>2 DEF OwnersWord, ProposalOf
<1>13. SaysRight(j, e)'
  <2>1. Kind(j) = "ask" => Previous(j) = asked'[j]
    BY <1>2, <1>8 DEF Previous, Decisions
  <2>2. Kind(j) \in Decisions => Kind(j) = OwnersWord(j)' /\ Previous(j) \in TurnsOf(j, {"ask"})'
    BY <1>1, <1>6, <1>8, <1>12 DEF Previous, Decisions, StandsRight
  <2> QED
    BY <1>4, <2>1, <2>2 DEF SaysRight
<1>14. \A post \in PostsOf(j, Words)' : post = e \/ post \in PostsOf(j, Words)
  BY <1>5, <1>8 DEF Words
<1>15. \A post \in PostsOf(j, Words)' : SaysRight(j, post)'
  BY <1>11, <1>13, <1>14
<1>16. \A n \in TurnsOf(j, Words)' : SaysRight(j, turns[n])'
  BY <1>6, <1>11
<1>17. answered'[j] # 0 => OwnersWord(j)' \in Decisions
  BY <1>1, <1>2, <1>12 DEF SentRight
<1>18. SentRight(j)'
  BY <1>2, <1>15, <1>16, <1>17 DEF SentRight
<1> QED
  BY <1>7, <1>10, <1>18 DEF About

(* The runtime serves a post, of this job or of another one.               *)
LEMMA ServedRight ==
  ASSUME JobsTypeOK, Control, Publications, Grows, NEW j \in JobId,
         NEW post \in posted, ServeTurn(post)
  PROVE  About(j)'
<1>1. StandsRight(j) /\ SentOnce(j) /\ SentRight(j)
  BY DEF Publications
<1>2. SameJob(j) /\ proposals' = proposals
  BY DEF ServeTurn, SameJob, jobDocs, memory, repairVars
<1>3. /\ TurnsGrow
      /\ \A kinds :
              /\ post.job = j /\ post.kind \in kinds =>
                   /\ TurnsOf(j, kinds)' = TurnsOf(j, kinds) \cup {Newest + 1}
                   /\ PostsOf(j, kinds)' = PostsOf(j, kinds) \ {post}
                   /\ post \in PostsOf(j, kinds)
              /\ ~ (post.job = j /\ post.kind \in kinds) =>
                   /\ TurnsOf(j, kinds)' = TurnsOf(j, kinds)
                   /\ PostsOf(j, kinds)' = PostsOf(j, kinds)
  BY ServedSession
<1>4. StandsRight(j)'
  BY <1>1, <1>2, <1>3, StandsKept
<1>5. ASSUME NEW kinds, Once(j, kinds)
      PROVE  Once(j, kinds)' /\ (Unsent(j, kinds) => Unsent(j, kinds)')
  <2>1. CASE post.job = j /\ post.kind \in kinds
    <3>1. TurnsOf(j, kinds) = {} /\ \A p \in PostsOf(j, kinds) : p = post
      BY <1>3, <1>5, <2>1 DEF Once
    <3>2. \A n \in TurnsOf(j, kinds)' : n = Newest + 1
      BY <1>3, <2>1, <3>1
    <3>3. post \in PostsOf(j, kinds) /\ PostsOf(j, kinds)' = {}
      BY <1>3, <2>1, <3>1
    <3> QED
      BY <3>1, <3>2, <3>3 DEF Once, Unsent
  <2>2. CASE ~ (post.job = j /\ post.kind \in kinds)
    <3>1. TurnsOf(j, kinds)' = TurnsOf(j, kinds) /\ PostsOf(j, kinds)' = PostsOf(j, kinds)
      BY <1>3, <2>2
    <3> QED
      BY <1>5, <3>1 DEF Once, Unsent
  <2> QED
    BY <2>1, <2>2
<1>6. SentOnce(j)'
  BY <1>1, <1>2, <1>5 DEF SentOnce, SameJob, Sending, Previous
<1>7. /\ \A p \in PostsOf(j, Words) : SaysRight(j, p)'
      /\ \A n \in TurnsOf(j, Words) : SaysRight(j, turns[n])'
  BY <1>2, <1>3, StillRight DEF SameJob
<1>8. answered'[j] # 0 \/ calls'[j] \in {"allowed", "denied"} => OwnersWord(j)' \in Decisions
  BY <1>2, WordsKept DEF SameJob
<1>9. \A p \in PostsOf(j, Words)' : p \in PostsOf(j, Words)
  BY <1>3
<1>10. ASSUME NEW n \in TurnsOf(j, Words)'
       PROVE  SaysRight(j, turns[n])'
  <2>1. CASE n \in TurnsOf(j, Words)
    BY <1>7, <2>1
  <2>2. CASE n \notin TurnsOf(j, Words)
    <3>1. post \in PostsOf(j, Words) /\ n = Newest + 1
      BY <1>3, <2>2
    <3>2. SaysRight(j, post)' /\ turns'[n] = post
      BY <1>7, <3>1, TurnServed
    <3> QED
      BY <3>2 DEF SaysRight
  <2> QED
    BY <2>1, <2>2
<1>11. SentRight(j)'
  BY <1>7, <1>8, <1>9, <1>10 DEF SentRight
<1> QED
  BY <1>4, <1>6, <1>11 DEF About

(* Whatever continues the turn that a publication goes on from is its own. *)
LEMMA PreviousIsOwn ==
  ASSUME Publications, NEW j \in JobId, Previous(j) # 0
  PROVE  Own(j, Previous(j)) /\ turns[Previous(j)].job = j
<1>1. StandsRight(j)
  BY DEF Publications
<1> QED
  BY <1>1 DEF StandsRight, Previous, Own, OwnWork, TurnsOf

LEMMA ContinuationIsOwn ==
  ASSUME JobsTypeOK, Publications, NEW j \in JobId, Previous(j) # 0,
         NEW n \in Continuations(Previous(j))
  PROVE  Own(j, n)
<1>1. turns[Previous(j)].job = j
  BY PreviousIsOwn
<1>2. n \in 1..Newest /\ turns[n].after = Previous(j)
  BY DEF Continuations
<1>3. turns[n] \in Entry
  BY <1>2, ElementOfSeq DEF JobsTypeOK, Newest
<1>4. PICK k : k = turns[n].job
  OBVIOUS
<1>5. ASSUME turns[n].kind = "ask"
      PROVE  k = j
  <2>1. k \in JobId
    BY <1>2, <1>3, <1>4, <1>5 DEF Entry, Publications, SessionKnows
  <2>2. n \in TurnsOf(k, Words)
    BY <1>2, <1>4, <1>5 DEF TurnsOf, Words
  <2>3. asked[k] # 0
    BY <2>1, <2>2, NothingAsked
  <2>4. turns[n].after = asked[k]
    BY <1>5, <2>1, <2>2 DEF Publications, SentRight, SaysRight
  <2>5. turns[asked[k]].job = k
    BY <2>1, <2>3 DEF Publications, StandsRight, OwnWork, TurnsOf
  <2> QED
    BY <1>1, <1>2, <2>4, <2>5
<1> QED
  BY <1>2, <1>4, <1>5 DEF Own

LEMMA OthersSame ==
  ASSUME JobsTypeOK, NEW j \in JobId, NEW job, NEW stage, NEW x, NEW y, NEW z,
         jobs' = jobs \/ SetJob(j, job), work' = work, Call(j, stage),
         asked' = asked \/ asked' = [asked EXCEPT ![j] = x],
         answered' = answered \/ answered' = [answered EXCEPT ![j] = y],
         shown' = shown \/ shown' = [shown EXCEPT ![j] = z]
  PROVE  calls'[j] = stage /\ \A k \in JobId : k # j => SameJob(k)
<1>1. calls'[j] = stage /\ \A k \in JobId : k # j => calls'[k] = calls[k]
  BY DEF Call, JobsTypeOK
<1>2. \A k \in JobId : k # j => jobs'[k] = jobs[k]
  BY DEF SetJob, JobsTypeOK
<1>3. \A k \in JobId : k # j => asked'[k] = asked[k] /\ answered'[k] = answered[k]
  BY DEF JobsTypeOK
<1>4. \A k \in JobId : k # j => shown'[k] = shown[k]
  BY DEF JobsTypeOK
<1> QED
  BY <1>1, <1>2, <1>3, <1>4 DEF SameJob

LEMMA CallAbout ==
  ASSUME JobsTypeOK, Control, Publications, Grows, NEW j \in JobId,
         UNCHANGED <<turns, posted, asked, answered, jobs, work>>,
         NEW next, Call(j, next),
         next \notin {"idle", "boot"} => jobs[j].state = "verified_local",
         next \in {"allowed", "denied"} => /\ shown[j].turn \in TurnsOf(j, {"ask"})
                                           /\ answered[j] = 0 /\ OwnersWord(j)' \in Decisions
                                           /\ shown' = shown,
         next \in {"check", "post"} => /\ answered[j] = 0 => Unsent(j, {"ask"})
                                       /\ Unsent(j, Decisions),
         next = "requested" => asked[j] = 0,
         next \in {"check", "post", "sent", "recover", "find"} => Previous(j) # 0,
         NEW n, NEW status, NEW unknown,
         shown' = shown \/ (Show(j, n, status, unknown) /\ Own(j, n))
  PROVE  \A k \in JobId : About(k)'
<1>1. TurnsGrow /\ \A k \in JobId : SessionOf(k)
  BY SessionUntouched
<1>2. calls'[j] = next /\ \A k \in JobId : k # j => SameJob(k)
  BY OthersSame DEF Show
<1>3. shown'[j] = shown[j] \/ (shown'[j].turn = n /\ Own(j, n))
  BY DEF Show, JobsTypeOK
<1>4. next \in {"allowed", "denied"} => shown'[j] = shown[j]
  OBVIOUS
<1>5. About(j)'
  BY <1>1, <1>2, <1>3, <1>4, CallRight
<1> QED
  BY <1>1, <1>2, <1>5, OthersAbout

LEMMA TrackAbout ==
  ASSUME JobsTypeOK, Control, Publications, Grows, NEW j \in JobId,
         UNCHANGED <<turns, posted, asked, answered, shown, work>>,
         calls[j] \in {"sent", "find"}, NEW n, Own(j, n), Track(j, n)
  PROVE  \A k \in JobId : About(k)'
<1>1. TurnsGrow /\ \A k \in JobId : SessionOf(k)
  BY SessionUntouched
<1>2. /\ \A k \in JobId : jobs'[k].state = jobs[k].state /\ jobs'[k].proposal = jobs[k].proposal
      /\ jobs'[j].turn = n /\ \A k \in JobId : k # j => jobs'[k] = jobs[k]
      /\ Call(j, "tracked")
  BY TrackKeeps
<1>3. calls'[j] = "tracked" /\ \A k \in JobId : k # j => calls'[k] = calls[k]
  BY <1>2 DEF Call, JobsTypeOK
<1>4. About(j)'
  BY <1>1, <1>2, <1>3, TrackRight
<1> QED
  BY <1>1, <1>2, <1>3, <1>4, OthersAbout DEF SameJob

LEMMA PublicationAbout ==
  ASSUME StoreInv, JobsTypeOK, Control, Publications, Grows, NEW j \in JobId, Publication(j)
  PROVE  \A k \in JobId : About(k)'
<1>1. StandsRight(j) /\ SentOnce(j) /\ SentRight(j)
  BY DEF Publications
<1>2. calls[j] \notin {"idle", "boot"} \/ answered[j] # 0 => jobs[j].state = "verified_local"
  BY <1>1 DEF StandsRight, Publishing
<1>3. jobs[j].state = "verified_local" => Own(j, jobs[j].turn)
  BY <1>1 DEF StandsRight
<1>4. CASE Request(j)
  BY <1>4, CallAbout DEF Request, Locked, jobDocs
<1>5. CASE RequestAgain(j)
  <2>1. Previous(j) # 0
    BY <1>5 DEF RequestAgain, Previous
  <2> QED
    BY <1>5, <2>1, CallAbout DEF RequestAgain, Locked, jobDocs
<1>6. CASE NoteRequest(j)
  <2>1. /\ asked' = [asked EXCEPT ![j] = jobs[j].turn] /\ Call(j, "check") /\ calls[j] = "requested"
        /\ jobs' = jobs /\ work' = work /\ answered' = answered /\ shown' = shown
        /\ turns' = turns /\ posted' = posted
    BY <1>6 DEF NoteRequest, runtime
  <2>2. TurnsGrow /\ \A k \in JobId : SessionOf(k)
    BY <2>1, SessionUntouched
  <2>3. PICK x : x = jobs[j].turn
    OBVIOUS
  <2>4. calls'[j] = "check" /\ (\A k \in JobId : k # j => SameJob(k)) /\ asked'[j] = jobs[j].turn
    BY <2>1, <2>3, OthersSame DEF JobsTypeOK
  <2>5. About(j)'
    BY <2>1, <2>2, <2>4, NoteRequestRight
  <2> QED
    BY <2>2, <2>4, <2>5, OthersAbout
<1>7. ASSUME NEW decision \in {"allow", "deny"}, Decide(j, decision)
      PROVE  \A k \in JobId : About(k)'
  <2>1. PICK next : next \in {"allowed", "denied"} /\ Locked(j, "idle", next)
    BY <1>7 DEF Decide
  <2>2. PICK u : u = shown[j].turn
    OBVIOUS
  <2>3. Own(j, u) /\ turns[u].state = "approval" /\ answered[j] = 0
    BY <1>1, <1>7, <2>2 DEF Decide, StandsRight
  <2>4. u \in TurnsOf(j, {"ask"})
    BY <2>3 DEF Own, Publications, SessionKnows, TurnsOf
  <2>5. asked[j] # 0
    BY <2>4, NothingAsked DEF Unsent
  <2>6. jobs[j].state = "verified_local"
    BY <1>1, <2>5 DEF StandsRight, Publishing
  <2>7. ProposalOf(j)' = ProposalOf(j)
    BY <1>7 DEF Decide, ProposalOf, jobDocs
  <2>8. OwnersWord(j)' \in Decisions
    BY <1>7, <2>7, DecideGrows DEF OwnersWord, Decisions
  <2>9. UNCHANGED <<turns, posted, asked, answered, jobs, work, shown>> /\ Call(j, next)
    BY <1>7, <2>1 DEF Decide, Locked, jobDocs
  <2> QED
    BY <2>1, <2>2, <2>3, <2>4, <2>6, <2>8, <2>9, CallAbout
<1>8. CASE DecideAgain(j)
  <2>1. Previous(j) # 0 /\ jobs[j].state = "verified_local"
    BY <1>2, <1>8 DEF DecideAgain, Previous
  <2> QED
    BY <1>8, <2>1, CallAbout DEF DecideAgain, Locked, jobDocs
<1>9. CASE NoteDecision(j)
  <2>1. /\ answered' = [answered EXCEPT ![j] = shown[j].turn] /\ Call(j, "check")
        /\ calls[j] \in {"allowed", "denied"}
        /\ jobs' = jobs /\ work' = work /\ asked' = asked /\ shown' = shown
        /\ turns' = turns /\ posted' = posted
    BY <1>9 DEF NoteDecision, runtime
  <2>2. TurnsGrow /\ \A k \in JobId : SessionOf(k)
    BY <2>1, SessionUntouched
  <2>3. PICK y : y = shown[j].turn
    OBVIOUS
  <2>4. calls'[j] = "check" /\ (\A k \in JobId : k # j => SameJob(k)) /\ answered'[j] = shown[j].turn
    BY <2>1, <2>3, OthersSame DEF JobsTypeOK
  <2>5. About(j)'
    BY <2>1, <2>2, <2>4, NoteDecisionRight
  <2> QED
    BY <2>2, <2>4, <2>5, OthersAbout
<1>10. CASE CheckNewest(j)
  <2>1. PICK next \in {"post", "recover"} : Call(j, next)
    BY <1>10 DEF CheckNewest, Locked
  <2>2. UNCHANGED <<turns, posted, asked, answered, jobs, work, shown>> /\ calls[j] = "check"
    BY <1>10 DEF CheckNewest, Locked, jobDocs
  <2>3. /\ answered[j] = 0 => Unsent(j, {"ask"})
        /\ Unsent(j, Decisions) /\ Previous(j) # 0 /\ jobs[j].state = "verified_local"
    BY <1>1, <1>2, <2>2 DEF SentOnce, Sending
  <2> QED
    BY <2>1, <2>2, <2>3, CallAbout
<1>11. CASE PostContinuation(j)
  <2>1. About(j)'
    BY <1>11, PostRight
  <2>2. TurnsGrow /\ \A k \in JobId : k # j => SessionOf(k)
    BY <1>11, PostAdds DEF PostContinuation
  <2>3. \A k \in JobId : k # j => SameJob(k)
    BY <1>11, OthersSame DEF PostContinuation, Locked, jobDocs
  <2> QED
    BY <2>1, <2>2, <2>3, OthersAbout
<1>12. CASE Continued(j)
  <2>1. PICK n \in TurnsOf(j, {Kind(j)}) : Track(j, n)
    BY <1>12 DEF Continued
  <2>2. Own(j, n)
    BY DEF Own, TurnsOf
  <2>3. UNCHANGED <<turns, posted, asked, answered, shown, work>> /\ calls[j] = "sent"
    BY <1>12 DEF Continued, Locked
  <2> QED
    BY <2>1, <2>2, <2>3, TrackAbout
<1>13. CASE ShowTracked(j)
  <2>1. /\ Show(j, jobs[j].turn, "running", FALSE) /\ Call(j, "idle") /\ calls[j] = "tracked"
        /\ UNCHANGED <<turns, posted, asked, answered, jobs, work>>
    BY <1>13 DEF ShowTracked, runtime
  <2> QED
    BY <1>2, <1>3, <2>1, CallAbout
<1>14. CASE Unanswered(j)
  <2>1. Previous(j) # 0 /\ jobs[j].state = "verified_local"
    BY <1>1, <1>2, <1>14 DEF Unanswered, Locked, SentOnce
  <2> QED
    BY <1>14, <2>1, CallAbout DEF Unanswered, Locked, jobDocs
<1>15. CASE RecoverRefused(j)
  <2>1. /\ Show(j, jobs[j].turn, "error", FALSE) /\ Call(j, "idle") /\ calls[j] = "recover"
        /\ UNCHANGED <<turns, posted, asked, answered, jobs, work>>
    BY <1>15 DEF RecoverRefused, runtime
  <2> QED
    BY <1>2, <1>3, <2>1, CallAbout
<1>16. CASE RecoverKnown(j)
  <2>1. Previous(j) # 0 /\ jobs[j].state = "verified_local"
    BY <1>1, <1>2, <1>16 DEF RecoverKnown, SentOnce
  <2>2. PICK next \in {"idle", "find"} : Call(j, next)
    BY <1>16 DEF RecoverKnown
  <2>3. UNCHANGED <<turns, posted, asked, answered, jobs, work, shown>>
    BY <1>16 DEF RecoverKnown, jobDocs, runtime
  <2> QED
    BY <2>1, <2>2, <2>3, CallAbout
<1>17. CASE Find(j)
  <2>1. Previous(j) # 0 /\ calls[j] = "find"
    BY <1>1, <1>17 DEF Find, SentOnce
  <2>2. UNCHANGED <<turns, posted, asked, answered, work>>
    BY <1>17 DEF Find, runtime
  <2>3. ASSUME NEW n \in Continuations(Previous(j)), Track(j, n), shown' = shown
        PROVE  \A k \in JobId : About(k)'
    BY <2>1, <2>2, <2>3, ContinuationIsOwn, TrackAbout
  <2>4. ASSUME NEW unknown, Show(j, Previous(j), "error", unknown), Call(j, "idle"), jobs' = jobs
        PROVE  \A k \in JobId : About(k)'
    BY <2>1, <2>2, <2>4, PreviousIsOwn, CallAbout
  <2> QED
    BY <1>17, <2>3, <2>4 DEF Find
<1> QED
  BY <1>4, <1>5, <1>6, <1>7, <1>8, <1>9, <1>10, <1>11, <1>12, <1>13, <1>14, <1>15, <1>16, <1>17
  DEF Publication

LEMMA OutsideAbout ==
  ASSUME JobsTypeOK, Control, Publications, Grows, Outside
  PROVE  \A k \in JobId : About(k)'
<1>1. ASSUME UNCHANGED <<jobs, work, calls, shown, asked, answered, turns, posted>>
      PROVE  \A k \in JobId : About(k)'
  BY <1>1, SessionUntouched, JobUntouched DEF SameJob
<1>2. ASSUME NEW w \in watchers, WatchEnds(w)
      PROVE  \A k \in JobId : About(k)'
  <2>1. PICK j \in JobId, n \in 1..Newest : j = w[1] /\ n = w[2]
    BY DEF Publications, SessionKnows
  <2>2. /\ UNCHANGED <<jobs, work, calls, asked, answered, turns, posted>>
        /\ shown' = shown \/ (shown[j].turn = n /\ \E status : Show(j, n, status, FALSE))
    BY <1>2, <2>1 DEF WatchEnds, runtime
  <2>3. TurnsGrow /\ \A k \in JobId : SessionOf(k)
    BY <2>2, SessionUntouched
  <2>4. calls[j] \notin {"allowed", "denied"}
    BY <1>2 DEF WatchEnds, Free, Held
  <2>5. shown'[j] = shown[j] \/ (shown'[j].turn = n /\ Own(j, n))
    <3>1. n # 0
      OBVIOUS
    <3>2. shown[j].turn = n => Own(j, n)
      BY <3>1 DEF Publications, StandsRight
    <3> QED
      BY <2>2, <3>2 DEF Show, JobsTypeOK
  <2>6. PICK next : next = calls[j]
    OBVIOUS
  <2>7. About(j)'
    <3>1. StandsRight(j) /\ SentOnce(j)
      BY DEF Publications
    <3>2. /\ next \notin {"idle", "boot"} => jobs[j].state = "verified_local"
          /\ next \in {"check", "post"} => /\ answered[j] = 0 => Unsent(j, {"ask"})
                                           /\ Unsent(j, Decisions)
          /\ next = "requested" => asked[j] = 0
          /\ next \in {"check", "post", "sent", "recover", "find"} => Previous(j) # 0
      BY <2>6, <3>1 DEF StandsRight, SentOnce, Publishing, Sending
    <3> QED
      BY <2>2, <2>3, <2>4, <2>5, <2>6, <3>2, CallRight
  <2>8. \A k \in JobId : k # j => SameJob(k)
    BY <2>2 DEF SameJob, Show, JobsTypeOK
  <2> QED
    BY <2>3, <2>7, <2>8, OthersAbout
<1>3. ASSUME NEW post \in posted, ServeTurn(post)
      PROVE  \A k \in JobId : About(k)'
  BY <1>3, ServedRight
<1>4. ASSUME NEW n \in 1..Newest, TurnEnds(n)
      PROVE  \A k \in JobId : About(k)'
  <2>1. TurnsGrow /\ \A k \in JobId : SessionOf(k)
    BY <1>4, EndedTurn
  <2>2. \A k \in JobId : SameJob(k)
    BY <1>4 DEF TurnEnds, SameJob, jobDocs, memory
  <2> QED
    BY <2>1, <2>2, JobUntouched
<1>5. ASSUME NEW j \in JobId, NEW t \in Token, ToolPublishes(j, t) \/ PublishEnds(j, t)
      PROVE  \A k \in JobId : About(k)'
  BY <1>1, <1>5 DEF ToolPublishes, PublishEnds, coordinator, jobDocs, runtime, memory
<1>6. CASE ConsentChanges
  BY <1>1, <1>6 DEF ConsentChanges, jobDocs, memory
<1>7. CASE Tick /\ UNCHANGED coordinator
  BY <1>1, <1>7 DEF coordinator, jobDocs, runtime, memory
<1>8. CASE UNCHANGED jobsVars
  BY <1>1, <1>8 DEF jobsVars, coordinator, jobDocs, runtime, memory
<1> QED
  BY <1>2, <1>3, <1>4, <1>5, <1>6, <1>7, <1>8 DEF Outside

LEMMA WorkerAbout ==
  ASSUME JobsTypeOK, Control, Publications, Grows, WorkerDies \/ Recovery
  PROVE  \A k \in JobId : About(k)'
<1>1. turns' = turns /\ posted' = posted /\ UNCHANGED <<asked, answered, shown>>
  BY DEF WorkerDies, Recovery, Boot, Recovered, RecoverUnfinished, RecoverFinished, RecoversNext,
         runtime, jobDocs
<1>2. TurnsGrow /\ \A k \in JobId : SessionOf(k)
  BY <1>1, SessionUntouched
<1>3. ASSUME NEW k \in JobId, calls'[k] \in {"idle", "boot"}, jobs' = jobs,
             work'[k] = work[k] \/ work'[k] = Idle
      PROVE  About(k)'
  <2>1. PICK next : next = calls'[k]
    OBVIOUS
  <2> QED
    BY <1>1, <1>2, <1>3, <2>1, CallRight
<1>4. CASE WorkerDies
  <2>1. jobs' = jobs /\ \A k \in JobId : calls'[k] = "idle" /\ work'[k] = Idle
    BY <1>4 DEF WorkerDies, jobDocs
  <2> QED
    BY <1>3, <2>1
<1>5. CASE Boot
  <2>1. jobs' = jobs /\ work' = work /\ \A k \in JobId : calls'[k] \in {"idle", "boot"}
    BY <1>5 DEF Boot, jobDocs
  <2> QED
    BY <1>3, <2>1
<1>6. ASSUME NEW j \in JobId, RecoverUnfinished(j)
      PROVE  \A k \in JobId : About(k)'
  <2> DEFINE job == [jobs[j] EXCEPT !.state = "abandoned"]
  <2>1. /\ SetJob(j, job) /\ Call(j, "idle") /\ work' = work /\ Unfinished(j)
    BY <1>6 DEF RecoverUnfinished, RecoversNext
  <2>2. job.turn = jobs[j].turn /\ job.state = "abandoned"
    BY DEF JobsTypeOK, JobRecord
  <2> HIDE DEF job
  <2>3. /\ jobs'[j].turn = jobs[j].turn /\ jobs'[j].state = "abandoned"
        /\ calls'[j] = "idle" /\ \A k \in JobId : k # j => SameJob(k)
    BY <1>1, <2>1, <2>2 DEF SetJob, JobsTypeOK, Call, SameJob
  <2>4. PICK t : t = jobs'[j].turn
    OBVIOUS
  <2>5. jobs[j].state # "verified_local"
    BY <2>1 DEF Unfinished
  <2>6. (work'[j].phase \in {"before", "after"} \/ work'[j].step \in {"runs", "proposed", "recorded"}
            \/ jobs'[j].state = "verified_local") => t \in TurnsOf(j, {"work"})
    BY <2>1, <2>3, <2>4 DEF Publications, StandsRight, OwnWork
  <2>7. About(j)'
    BY <1>1, <1>2, <2>3, <2>4, <2>5, <2>6, JobMoves
  <2> QED
    BY <1>2, <2>3, <2>7, OthersAbout
<1>7. ASSUME NEW j \in JobId, RecoverFinished(j)
      PROVE  \A k \in JobId : About(k)'
  <2>1. PICK next \in {"idle", "recover"} :
          Call(j, next) /\ (next = "recover" => Previous(j) # 0)
    BY <1>7 DEF RecoverFinished
  <2>2. Previous(j) # 0 => jobs[j].state = "verified_local"
    BY DEF Publications, StandsRight, Publishing, Previous
  <2>3. jobs' = jobs /\ work' = work
    BY <1>7 DEF RecoverFinished, RecoversNext
  <2> QED
    BY <1>1, <2>1, <2>2, <2>3, CallAbout
<1>8. CASE Recovered
  <2>1. UNCHANGED <<jobs, work, calls>>
    BY <1>8 DEF Recovered, jobDocs, memory
  <2> QED
    BY <1>1, <1>2, <2>1, JobUntouched DEF SameJob
<1> QED
  BY <1>4, <1>5, <1>6, <1>7, <1>8 DEF Recovery

-----------------------------------------------------------------------------
(* The session, the watches and the types *)

LEMMA SessionStays ==
  ASSUME SessionKnows, turns' = turns, posted' = posted, watchers' \subseteq watchers
  PROVE  SessionKnows'
  BY DEF SessionKnows, Newest

LEMMA SessionStep ==
  ASSUME JobsTypeOK, Control, Publications, [JobsNext]_jobsVars
  PROVE  SessionKnows'
<1>1. SessionKnows
  BY DEF Publications
<1>2. CASE Starts
  BY <1>1, <1>2, SessionStays
  DEF Starts, Start, StartChecks, StartCreates, StartFails, IndexJob, runtime
<1>3. ASSUME NEW j \in JobId, NEW kind, NEW after, Post(j, kind, after), watchers' = watchers
      PROVE  SessionKnows'
  <2>1. PICK e : e = [after |-> after, kind |-> kind, job |-> j, state |-> "running"]
    OBVIOUS
  <2>2. turns' = turns /\ posted' = posted \cup {e}
    BY <1>3, <2>1 DEF Post
  <2>3. e.state = "running" /\ e.job # 0
    BY <2>1 DEF JobId
  <2> QED
    BY <1>1, <1>3, <2>2, <2>3 DEF SessionKnows, Newest
<1>4. ASSUME NEW j \in JobId, Perform(j)
      PROVE  SessionKnows'
  <2>1. watchers' = watchers
    BY <1>4 DEF Perform, AssertLatest, PostTurn, TurnKnown, PhaseStep, Prepared, SaveProposed,
         Reproduced, Passed, SaveVerified, JobFails, JobEnds, TurnDone
  <2>2. CASE PostTurn(j)
    BY <1>3, <2>1, <2>2 DEF PostTurn
  <2>3. CASE ~ PostTurn(j)
    BY <1>1, <1>4, <2>1, <2>3, SessionStays
    DEF Perform, AssertLatest, TurnKnown, Prepared, SaveProposed, Reproduced, Passed, SaveVerified,
        JobFails, JobEnds, TurnDone, runtime
  <2> QED
    BY <2>2, <2>3
<1>5. ASSUME NEW j \in JobId, NEW n, Own(j, n), watchers' = watchers \cup {<<j, n>>},
             turns' = turns, posted' = posted
      PROVE  SessionKnows'
  BY <1>1, <1>5 DEF SessionKnows, Newest, Own
<1>6. ASSUME NEW j \in JobId, Publication(j)
      PROVE  SessionKnows'
  <2>1. StandsRight(j)
    BY DEF Publications
  <2>2. CASE PostContinuation(j)
    BY <1>3, <2>2 DEF PostContinuation
  <2>3. CASE ShowTracked(j)
    <3>1. Own(j, jobs[j].turn)
      BY <2>1, <2>3 DEF ShowTracked, StandsRight, Publishing
    <3> QED
      BY <1>5, <2>3, <3>1 DEF ShowTracked, runtime
  <2>4. CASE RecoverKnown(j)
    <3>1. CASE watchers' = watchers
      BY <1>1, <2>4, <3>1, SessionStays DEF RecoverKnown, runtime
    <3>2. CASE shown[j].status # "none" /\ watchers' = watchers \cup {<<j, shown[j].turn>>}
      <4>1. Own(j, shown[j].turn)
        BY <2>1, <3>2 DEF StandsRight
      <4> QED
        BY <1>5, <2>4, <3>2, <4>1 DEF RecoverKnown, runtime
    <3> QED
      BY <2>4, <3>1, <3>2 DEF RecoverKnown
  <2>5. CASE ~ (PostContinuation(j) \/ ShowTracked(j) \/ RecoverKnown(j))
    BY <1>1, <1>6, <2>5, SessionStays
    DEF Publication, Request, RequestAgain, NoteRequest, Decide, DecideAgain, NoteDecision, CheckNewest,
        Continued, Unanswered, RecoverRefused, Find, runtime
  <2> QED
    BY <2>2, <2>3, <2>4, <2>5
<1>7. ASSUME NEW post \in posted, ServeTurn(post)
      PROVE  SessionKnows'
  <2>1. /\ Newest \in Nat /\ Newest' = Newest + 1
        /\ turns'[Newest + 1] = post /\ \A n \in 1..Newest : turns'[n] = turns[n]
    BY <1>7, TurnServed
  <2>2. watchers' = watchers /\ posted' \subseteq posted
    BY <1>7 DEF ServeTurn, memory
  <2>3. post.state = "running" /\ post.job # 0
    BY <1>1 DEF SessionKnows
  <2>4. \A n \in 1..Newest' : /\ turns'[n].state = "approval" => turns'[n].kind = "ask"
                              /\ turns'[n].kind = "ask" => turns'[n].job # 0
    <3>1. \A n \in 1..Newest' : n \in 1..Newest \/ n = Newest + 1
      BY <2>1
    <3> QED
      BY <1>1, <2>1, <2>3, <3>1 DEF SessionKnows
  <2>5. \A n \in 1..Newest : n \in 1..Newest'
    BY <2>1
  <2> QED
    BY <1>1, <2>2, <2>4, <2>5 DEF SessionKnows
<1>8. ASSUME NEW n \in 1..Newest, TurnEnds(n)
      PROVE  SessionKnows'
  <2>1. /\ TurnsGrow /\ Newest' = Newest
        /\ \A m \in 1..Newest : turns'[m].state = "approval" =>
              turns[m].state = "approval" \/ turns[m].kind = "ask"
    BY <1>8, EndedTurn
  <2>2. watchers' = watchers /\ posted' = posted
    BY <1>8 DEF TurnEnds, memory
  <2> QED
    BY <1>1, <2>1, <2>2 DEF SessionKnows, TurnsGrow
<1>9. CASE \/ \E w \in watchers : WatchEnds(w)
           \/ \E j \in JobId, t \in Token : ToolPublishes(j, t) \/ PublishEnds(j, t)
           \/ ConsentChanges \/ (Tick /\ UNCHANGED coordinator) \/ UNCHANGED jobsVars
  BY <1>1, <1>9, SessionStays
  DEF WatchEnds, ToolPublishes, PublishEnds, ConsentChanges, jobsVars, coordinator, runtime, memory
<1>10. CASE WorkerDies \/ Recovery
  BY <1>1, <1>10, SessionStays
  DEF WorkerDies, Recovery, Boot, Recovered, RecoverUnfinished, RecoverFinished, RecoversNext, runtime,
      memory
<1> QED
  BY <1>2, <1>4, <1>6, <1>7, <1>8, <1>9, <1>10 DEF JobsNext

(* What is stored and held has its type. *)
LEMMA JobsTyped ==
  ASSUME JobsTypeOK, Control, Publications, [JobsNext]_jobsVars
  PROVE  jobs' \in [JobId -> JobRecord]
<1>0. \A j \in JobId : jobs[j] \in JobRecord
  BY DEF JobsTypeOK
<1>1. ASSUME NEW j \in JobId, NEW job \in JobRecord, SetJob(j, job)
      PROVE  jobs' \in [JobId -> JobRecord]
  BY <1>1 DEF SetJob, JobsTypeOK
<1>2. ASSUME NEW j \in JobId, NEW n \in Nat, SetJob(j, [jobs[j] EXCEPT !.turn = n])
      PROVE  jobs' \in [JobId -> JobRecord]
  <2> DEFINE job == [jobs[j] EXCEPT !.turn = n]
  <2>1. job \in JobRecord
    BY <1>0 DEF JobRecord
  <2>2. SetJob(j, job)
    BY <1>2
  <2> HIDE DEF job
  <2> QED
    BY <1>1, <2>1, <2>2
<1>3. ASSUME NEW j \in JobId, NEW state \in {"verified_local", "abandoned"},
             SetJob(j, [jobs[j] EXCEPT !.state = state])
      PROVE  jobs' \in [JobId -> JobRecord]
  <2> DEFINE job == [jobs[j] EXCEPT !.state = state]
  <2>1. job \in JobRecord
    BY <1>0 DEF JobRecord
  <2>2. SetJob(j, job)
    BY <1>3
  <2> HIDE DEF job
  <2> QED
    BY <1>1, <2>1, <2>2
<1>4. \A n \in 1..Newest : n \in Nat
  OBVIOUS
<1>5. \A j \in JobId : \A kinds : TurnsOf(j, kinds) \subseteq Nat
  BY <1>4 DEF TurnsOf
<1>6. CASE jobs' = jobs
  BY <1>6 DEF JobsTypeOK
<1>7. ASSUME NEW s \in starts, StartCreates(s)
      PROVE  jobs' \in [JobId -> JobRecord]
  <2>1. PICK j \in JobId :
          jobs' = [jobs EXCEPT ![j] = [state |-> "preparing", turn |-> s.turn, proposal |-> 0]]
    BY <1>7, NewJob
  <2>2. s.turn \in Nat
    BY DEF JobsTypeOK
  <2>3. [state |-> "preparing", turn |-> s.turn, proposal |-> 0] \in JobRecord
    BY <2>2 DEF JobRecord
  <2> QED
    BY <1>1, <2>1, <2>3 DEF SetJob
<1>8. CASE Starts
  BY <1>6, <1>7, <1>8 DEF Starts, Start, StartChecks, StartFails, IndexJob, jobDocs
<1>9. ASSUME NEW j \in JobId, SaveProposed(j)
      PROVE  jobs' \in [JobId -> JobRecord]
  <2>1. PICK n \in {1, 2} :
          SetJob(j, [jobs[j] EXCEPT !.state = "testing", !.proposal = n])
    BY <1>9 DEF SaveProposed
  <2> DEFINE job == [jobs[j] EXCEPT !.state = "testing", !.proposal = n]
  <2>2. job \in JobRecord
    BY <1>0 DEF JobRecord
  <2>3. SetJob(j, job)
    BY <2>1
  <2> HIDE DEF job
  <2> QED
    BY <1>1, <2>2, <2>3
<1>10. ASSUME NEW j \in JobId, Perform(j)
       PROVE  jobs' \in [JobId -> JobRecord]
  <2>1. CASE TurnKnown(j)
    BY <1>2, <1>5, <2>1 DEF TurnKnown
  <2>2. CASE SaveVerified(j) \/ JobFails(j)
    BY <1>3, <2>2 DEF SaveVerified, JobFails, JobEnds
  <2> QED
    BY <1>6, <1>9, <1>10, <2>1, <2>2
    DEF Perform, AssertLatest, PostTurn, Prepared, Reproduced, Passed
<1>11. ASSUME NEW j \in JobId, Publication(j)
       PROVE  jobs' \in [JobId -> JobRecord]
  <2>1. CASE Continued(j)
    BY <1>2, <1>5, <2>1 DEF Continued, Track
  <2>2. CASE Find(j) /\ jobs' # jobs
    <3>1. PICK n \in Continuations(Previous(j)) : Track(j, n)
      BY <2>2 DEF Find
    <3>2. n \in Nat
      BY <1>4, <3>1 DEF Continuations
    <3> QED
      BY <1>2, <3>1, <3>2 DEF Track
  <2> QED
    BY <1>6, <1>11, <2>1, <2>2
    DEF Publication, Request, RequestAgain, NoteRequest, Decide, DecideAgain, NoteDecision, CheckNewest,
        PostContinuation, ShowTracked, Unanswered, RecoverRefused, RecoverKnown, jobDocs
<1>12. CASE WorkerDies \/ Recovery
  BY <1>3, <1>6, <1>12
  DEF WorkerDies, Recovery, Boot, Recovered, RecoverUnfinished, RecoverFinished, jobDocs
<1>13. CASE Outside
  BY <1>6, <1>13 DEF Outside, WatchEnds, ToolPublishes, PublishEnds, ServeTurn, TurnEnds,
     ConsentChanges, coordinator, jobsVars, jobDocs
<1> QED
  BY <1>8, <1>10, <1>11, <1>12, <1>13 DEF JobsNext, Outside

LEMMA DocumentsTyped ==
  ASSUME JobsTypeOK, Control, Publications, [JobsNext]_jobsVars
  PROVE  /\ indexed' \subseteq JobId
         /\ asked' \in [JobId -> Nat] /\ answered' \in [JobId -> Nat]
         /\ DOMAIN shown' = JobId
<1> DEFINE Typed == /\ indexed' \subseteq JobId
                    /\ asked' \in [JobId -> Nat] /\ answered' \in [JobId -> Nat]
                    /\ DOMAIN shown' = JobId
<1>1. ASSUME UNCHANGED <<asked, answered>>, indexed' \subseteq indexed \cup JobId,
             \/ shown' = shown
             \/ \E j, turn, status, unknown : Show(j, turn, status, unknown)
      PROVE  Typed
  BY <1>1 DEF Show, JobsTypeOK
<1>2. CASE Starts
  BY <1>1, <1>2 DEF Starts, Start, StartChecks, StartCreates, StartFails, IndexJob, jobDocs
<1>3. ASSUME NEW j \in JobId, Perform(j)
      PROVE  Typed
  BY <1>1, <1>3 DEF Perform, AssertLatest, PostTurn, TurnKnown, PhaseStep, Prepared, SaveProposed,
     Reproduced, Passed, SaveVerified, JobFails, JobEnds, TurnDone
<1>4. ASSUME NEW j \in JobId, NoteRequest(j)
      PROVE  Typed
  BY <1>4 DEF NoteRequest, JobsTypeOK, JobRecord
<1>5. ASSUME NEW j \in JobId, NoteDecision(j)
      PROVE  Typed
  <2>1. shown[j].turn \in TurnsOf(j, {"ask"})
    BY <1>5 DEF NoteDecision, Publications, StandsRight
  <2>2. shown[j].turn \in Nat
    BY <2>1 DEF TurnsOf
  <2> QED
    BY <1>5, <2>2 DEF NoteDecision, JobsTypeOK
<1>6. ASSUME NEW j \in JobId, Publication(j)
      PROVE  Typed
  <2>1. CASE Request(j) \/ RequestAgain(j) \/ DecideAgain(j) \/ CheckNewest(j) \/ PostContinuation(j)
             \/ Continued(j) \/ Unanswered(j) \/ \E decision \in {"allow", "deny"} : Decide(j, decision)
    BY <1>1, <2>1 DEF Request, RequestAgain, Decide, DecideAgain, CheckNewest, PostContinuation,
       Continued, Unanswered, jobDocs
  <2>2. CASE ShowTracked(j) \/ RecoverRefused(j) \/ RecoverKnown(j) \/ Find(j)
    BY <1>1, <2>2 DEF ShowTracked, RecoverRefused, RecoverKnown, Find, jobDocs
  <2> QED
    BY <1>4, <1>5, <1>6, <2>1, <2>2 DEF Publication
<1>7. CASE WorkerDies \/ Recovery
  BY <1>1, <1>7
  DEF WorkerDies, Recovery, Boot, Recovered, RecoverUnfinished, RecoverFinished, RecoversNext, jobDocs
<1>8. ASSUME NEW w \in watchers, WatchEnds(w)
      PROVE  Typed
  BY <1>1, <1>8 DEF WatchEnds
<1>9. CASE Outside
  BY <1>1, <1>8, <1>9 DEF Outside, ToolPublishes, PublishEnds, ServeTurn, TurnEnds,
     ConsentChanges, coordinator, jobsVars, jobDocs
<1> QED
  BY <1>2, <1>3, <1>6, <1>7, <1>9 DEF JobsNext, Outside

LEMMA SessionTyped ==
  ASSUME JobsTypeOK, Control, Publications, [JobsNext]_jobsVars
  PROVE  turns' \in Seq(Entry) /\ posted' \subseteq Entry
<1>1. CASE UNCHANGED <<turns, posted>>
  BY <1>1 DEF JobsTypeOK
<1>2. ASSUME NEW j \in JobId, NEW kind \in {"work", "ask", "allow", "deny"}, NEW after \in Nat,
             Post(j, kind, after)
      PROVE  turns' \in Seq(Entry) /\ posted' \subseteq Entry
  <2>1. [after |-> after, kind |-> kind, job |-> j, state |-> "running"] \in Entry
    BY DEF Entry
  <2> QED
    BY <1>2, <2>1 DEF Post, JobsTypeOK
<1>3. ASSUME NEW j \in JobId, PostTurn(j)
      PROVE  turns' \in Seq(Entry) /\ posted' \subseteq Entry
  BY <1>2, <1>3 DEF PostTurn, JobsTypeOK, JobRecord
<1>4. ASSUME NEW j \in JobId, PostContinuation(j)
      PROVE  turns' \in Seq(Entry) /\ posted' \subseteq Entry
  <2>1. Kind(j) \in {"ask", "allow", "deny"}
    BY DEF Kind, Publications, SentRight, OwnersWord, Decisions
  <2>2. Previous(j) \in Nat
    BY DEF Previous, JobsTypeOK
  <2> QED
    BY <1>2, <1>4, <2>1, <2>2 DEF PostContinuation
<1>5. ASSUME NEW post \in posted, ServeTurn(post)
      PROVE  turns' \in Seq(Entry) /\ posted' \subseteq Entry
  BY <1>5, TurnServed DEF ServeTurn, JobsTypeOK
<1>6. ASSUME NEW n \in 1..Newest, TurnEnds(n)
      PROVE  turns' \in Seq(Entry) /\ posted' \subseteq Entry
  BY <1>6, EndedTurn DEF TurnEnds, JobsTypeOK
<1>7. CASE Starts
  BY <1>1, <1>7 DEF Starts, Start, StartChecks, StartCreates, StartFails, IndexJob, runtime
<1>8. ASSUME NEW j \in JobId, Perform(j)
      PROVE  turns' \in Seq(Entry) /\ posted' \subseteq Entry
  BY <1>1, <1>3, <1>8 DEF Perform, AssertLatest, TurnKnown, Prepared, SaveProposed,
     Reproduced, Passed, SaveVerified, JobFails, JobEnds, TurnDone, runtime
<1>9. ASSUME NEW j \in JobId, Publication(j)
      PROVE  turns' \in Seq(Entry) /\ posted' \subseteq Entry
  BY <1>1, <1>4, <1>9 DEF Publication, Request, RequestAgain, NoteRequest, Decide, DecideAgain,
     NoteDecision, CheckNewest, Continued, ShowTracked, Unanswered, RecoverRefused, RecoverKnown, Find,
     runtime
<1>10. CASE WorkerDies \/ Recovery
  BY <1>1, <1>10
  DEF WorkerDies, Recovery, Boot, Recovered, RecoverUnfinished, RecoverFinished, RecoversNext, runtime
<1>11. CASE Outside
  BY <1>1, <1>5, <1>6, <1>11 DEF Outside, WatchEnds, ToolPublishes, PublishEnds, ConsentChanges,
     coordinator, jobsVars, runtime
<1> QED
  BY <1>7, <1>8, <1>9, <1>10, <1>11 DEF JobsNext, Outside

LEMMA MemoryTyped ==
  ASSUME JobsTypeOK, Control, Publications, [JobsNext]_jobsVars
  PROVE  /\ starts' \subseteq [call : Nat, turn : Nat]
         /\ work' \in [JobId -> WorkRecord]
         /\ calls' \in [JobId -> CallStage]
         /\ worker' \in {"up", "recovering", "down"}
<1> DEFINE Typed == /\ starts' \subseteq [call : Nat, turn : Nat]
                    /\ work' \in [JobId -> WorkRecord]
                    /\ calls' \in [JobId -> CallStage]
                    /\ worker' \in {"up", "recovering", "down"}
<1>1. ASSUME starts' \subseteq starts \/ starts' \subseteq [call : Nat, turn : Nat],
             \/ work' = work
             \/ \E j \in JobId, here \in WorkRecord : work' = [work EXCEPT ![j] = here],
             calls' = calls \/ \E j \in JobId, stage \in CallStage : Call(j, stage),
             worker' = worker
          PROVE  Typed
  BY <1>1 DEF JobsTypeOK, Call
<1>2. ASSUME NEW j \in JobId, NEW phase \in Phase \cup {"idle"},
             NEW step \in {"created", "ready", "post", "sent", "runs", "proposed", "recorded"},
             Work(j, phase, step)
      PROVE  \E k \in JobId, here \in WorkRecord : work' = [work EXCEPT ![k] = here]
  <2>1. [phase |-> phase, step |-> step] \in WorkRecord
    BY DEF WorkRecord
  <2> QED
    BY <1>2, <2>1 DEF Work
<1>3. Idle \in WorkRecord
  BY DEF Idle, WorkRecord
<1> SUFFICES Typed
  OBVIOUS
<1> HIDE DEF Typed
<1>4. ASSUME NEW s \in starts, StartChecks(s)
      PROVE  Typed
  <2>1. PICK n : /\ n = IF Existing = {} THEN 1 ELSE jobs[Cardinality(Existing)].turn
                 /\ starts' = (starts \ {s}) \cup {[s EXCEPT !.turn = n]}
    BY <1>4 DEF StartChecks
  <2>2. n \in Nat
    <3>1. /\ Existing \in {{}, {1}, {1, 2}}
          /\ Existing = {1} => Cardinality(Existing) = 1
          /\ Existing = {1, 2} => Cardinality(Existing) = 2
      BY JobsCounted DEF Control
    <3>2. Existing # {} => Cardinality(Existing) \in JobId
      BY <3>1 DEF JobId
    <3> QED
      BY <2>1, <3>2 DEF JobsTypeOK, JobRecord
  <2>3. [s EXCEPT !.turn = n] \in [call : Nat, turn : Nat]
    BY <2>2 DEF JobsTypeOK
  <2>4. starts' \subseteq [call : Nat, turn : Nat]
    BY <2>1, <2>3 DEF JobsTypeOK
  <2> QED
    BY <1>1, <1>4, <2>4 DEF StartChecks, process
<1>5. ASSUME NEW s \in starts, StartCreates(s)
      PROVE  Typed
  <2>1. \E j \in JobId : work' = [work EXCEPT ![j] = [phase |-> "prepare", step |-> "created"]]
    BY <1>5, NewJob
  <2>2. \E k \in JobId, here \in WorkRecord : work' = [work EXCEPT ![k] = here]
    BY <1>2, <2>1 DEF Work, Phase
  <2> QED
    BY <1>1, <1>5, <2>2 DEF StartCreates, process
<1>6. ASSUME NEW j \in JobId, IndexJob(j)
      PROVE  Typed
  BY <1>1, <1>2, <1>6 DEF IndexJob, Phase, process
<1>7. CASE Start
  <2>1. starts' \subseteq [call : Nat, turn : Nat]
    BY <1>7 DEF Start
  <2>2. work' = work /\ calls' = calls /\ worker' = worker
    BY <1>7 DEF Start, process
  <2> QED
    BY <1>1, <2>1, <2>2
<1>8. CASE Starts
  <2>1. ASSUME NEW s \in starts, StartFails(s)
        PROVE  Typed
    <3>1. /\ starts' \subseteq starts
          /\ work' = work /\ calls' = calls /\ worker' = worker
      BY <2>1 DEF StartFails, process
    <3> QED
      BY <1>1, <3>1
  <2> QED
    BY <1>4, <1>5, <1>6, <1>7, <1>8, <2>1 DEF Starts
<1>9. ASSUME NEW j \in JobId, NEW step, NEW next \in {"post", "sent", "runs"}, PhaseStep(j, step, next)
      PROVE  Typed
  <2>1. work[j].phase \in Phase \cup {"idle"}
    BY DEF JobsTypeOK, WorkRecord
  <2> QED
    BY <1>1, <1>2, <1>9, <2>1 DEF PhaseStep, process
<1>10. ASSUME NEW j \in JobId, Perform(j)
       PROVE  Typed
  <2>1. CASE AssertLatest(j) \/ PostTurn(j) \/ TurnKnown(j)
    BY <1>9, <2>1 DEF AssertLatest, PostTurn, TurnKnown
  <2>2. CASE Prepared(j) \/ SaveProposed(j) \/ Reproduced(j) \/ Passed(j)
    BY <1>1, <1>2, <2>2 DEF Prepared, SaveProposed, Reproduced, Passed, TurnDone, Phase, process
  <2>3. CASE SaveVerified(j) \/ JobFails(j)
    BY <1>1, <1>3, <2>3 DEF SaveVerified, JobFails, JobEnds, process
  <2> QED
    BY <1>10, <2>1, <2>2, <2>3 DEF Perform
<1>11. ASSUME NEW j \in JobId, Publication(j)
       PROVE  Typed
  <2>1. ASSUME NEW stage, NEW next \in CallStage, Locked(j, stage, next)
        PROVE  UNCHANGED <<starts, work, worker>> /\ \E k \in JobId, m \in CallStage : Call(k, m)
    BY <2>1 DEF Locked, process
  <2>2. UNCHANGED <<starts, work, worker>> /\ \E k \in JobId, m \in CallStage : Call(k, m)
    <3>1. CASE Request(j) \/ RequestAgain(j) \/ DecideAgain(j)
      BY <2>1, <3>1 DEF Request, RequestAgain, DecideAgain, CallStage
    <3>2. ASSUME NEW decision \in {"allow", "deny"}, Decide(j, decision)
          PROVE  UNCHANGED <<starts, work, worker>> /\ \E k \in JobId, m \in CallStage : Call(k, m)
      BY <2>1, <3>2 DEF Decide, CallStage
    <3>3. CASE CheckNewest(j) \/ PostContinuation(j) \/ Continued(j) \/ Unanswered(j)
      BY <2>1, <3>3 DEF CheckNewest, PostContinuation, Continued, Unanswered, CallStage
    <3>4. CASE NoteRequest(j) \/ NoteDecision(j) \/ ShowTracked(j) \/ RecoverRefused(j) \/ RecoverKnown(j)
               \/ Find(j)
      BY <3>4 DEF NoteRequest, NoteDecision, ShowTracked, RecoverRefused, RecoverKnown, Find, Track,
         CallStage, process
    <3> QED
      BY <1>11, <3>1, <3>2, <3>3, <3>4 DEF Publication
  <2> QED
    BY <1>1, <2>2
<1>12. CASE WorkerDies
  <2>1. /\ starts' = {} /\ worker' = "down"
        /\ work' = [j \in JobId |-> Idle] /\ calls' = [j \in JobId |-> "idle"]
    BY <1>12 DEF WorkerDies
  <2> QED
    BY <1>3, <2>1 DEF Typed, CallStage
<1>13. CASE Boot \/ Recovered
  BY <1>13 DEF Typed, Boot, Recovered, memory, JobsTypeOK, CallStage
<1>14. ASSUME NEW j \in JobId, RecoverUnfinished(j) \/ RecoverFinished(j)
       PROVE  Typed
  BY <1>1, <1>14 DEF RecoverUnfinished, RecoverFinished, RecoversNext, CallStage, process
<1>15. CASE Outside
  <2>1. UNCHANGED <<starts, work, calls, worker>>
    BY <1>15 DEF Outside, WatchEnds, ToolPublishes, PublishEnds, ServeTurn, TurnEnds,
       ConsentChanges, coordinator, jobsVars, memory, process
  <2> QED
    BY <1>1, <2>1
<1> QED
  BY <1>8, <1>10, <1>11, <1>12, <1>13, <1>14, <1>15 DEF JobsNext, Outside, Recovery

LEMMA JobsTypeStep ==
  ASSUME JobsTypeOK, Control, Publications, [JobsNext]_jobsVars
  PROVE  JobsTypeOK'
  BY JobsTyped, DocumentsTyped, SessionTyped, MemoryTyped DEF JobsTypeOK

-----------------------------------------------------------------------------
(* The invariant and what follows from it *)

LEMMA CoordinatorStarts ==
  JobsInit => CoordinatorInv
<1> SUFFICES ASSUME JobsInit PROVE CoordinatorInv
  OBVIOUS
<1>1. StoreInv
  BY StoreStarts DEF JobsInit
<1> DEFINE first == [after |-> 0, kind |-> "run", job |-> 0, state |-> "done"]
<1>2. first \in Entry /\ turns = <<first>>
  BY DEF JobsInit, Entry
<1>3. turns \in Seq(Entry) /\ Newest = 1 /\ turns[1] = first
  BY <1>2 DEF Newest
<1>4. first.kind = "run" /\ first.job = 0 /\ first.state = "done"
  OBVIOUS
<1> HIDE DEF first
<1>5. /\ \A j \in JobId : jobs[j] = NoJob /\ work[j] = Idle /\ calls[j] = "idle"
                          /\ asked[j] = 0 /\ answered[j] = 0
                          /\ shown[j].turn = 0 /\ shown[j].status = "none"
      /\ indexed = {} /\ posted = {} /\ starts = {} /\ watchers = {} /\ worker = "up"
  BY DEF JobsInit
<1>6. /\ NoJob.state = "absent" /\ NoJob.turn = 0 /\ NoJob.proposal = 0 /\ NoJob \in JobRecord
      /\ Idle.phase = "idle" /\ Idle.step = "none" /\ Idle \in WorkRecord
  BY DEF NoJob, Idle, JobRecord, WorkRecord
<1>7. JobsTypeOK
  BY <1>3, <1>6 DEF JobsInit, JobsTypeOK, CallStage
<1>8. \A p \in Proposal : ~ Exists(p)
  <2>1. NoRecord.state = "absent"
    BY DEF NoRecord, Proposed
  <2> QED
    BY <2>1 DEF JobsInit, RepairInit, Exists
<1>9. ProcessKnows /\ StartKnows /\ JobsInOrder
  BY <1>5, <1>6 DEF ProcessKnows, StartKnows, JobsInOrder, AtWork, Unfinished, JobId
<1>10. ProposalsKnow
  BY <1>5, <1>6, <1>8, FixesAreProposals DEF ProposalsKnow, At, JobId
<1>11. SessionKnows
  BY <1>3, <1>4, <1>5 DEF SessionKnows
<1>12. ASSUME NEW j \in JobId
       PROVE  StandsRight(j) /\ SentOnce(j) /\ SentRight(j)
  <2>1. \A kinds : PostsOf(j, kinds) = {}
    BY <1>5 DEF PostsOf
  <2>2. \A kinds : TurnsOf(j, kinds) = {}
    BY <1>3, <1>4 DEF TurnsOf, JobId
  <2>3. StandsRight(j)
    BY <1>5, <1>6 DEF StandsRight, Publishing
  <2>4. SentOnce(j)
    BY <1>5, <2>1, <2>2 DEF SentOnce, Once, Unsent, Sending
  <2>5. SentRight(j)
    BY <1>5, <2>1, <2>2 DEF SentRight
  <2> QED
    BY <2>3, <2>4, <2>5
<1> QED
  BY <1>1, <1>7, <1>9, <1>10, <1>11, <1>12 DEF CoordinatorInv, Control, Publications

LEMMA CoordinatorStep ==
  CoordinatorInv /\ [JobsNext]_jobsVars => CoordinatorInv'
<1> SUFFICES ASSUME CoordinatorInv, [JobsNext]_jobsVars PROVE CoordinatorInv'
  OBVIOUS
<1>1. StoreInv /\ JobsTypeOK /\ Control /\ Publications
  BY DEF CoordinatorInv
<1>2. ASSUME UNCHANGED repairVars
      PROVE  Grows
  BY <1>1, <1>2, SameStore DEF repairVars, StoreInv
<1>3. ASSUME Control', Grows, \A k \in JobId : About(k)'
      PROVE  CoordinatorInv'
  <2>1. SessionKnows' /\ JobsTypeOK'
    BY <1>1, SessionStep, JobsTypeStep
  <2> QED
    BY <1>3, <2>1 DEF CoordinatorInv, Publications, About, Grows
<1>4. CASE Starts
  <2>1. Grows
    BY <1>2, <1>4 DEF Starts, Start, StartChecks, StartCreates, StartFails, IndexJob
  <2>2. Control'
    BY <1>1, <1>4, StartsControl, CreateControl, TurnsControl DEF Starts
  <2> QED
    BY <1>1, <1>3, <1>4, <2>1, <2>2, StartsAbout
<1>5. ASSUME NEW j \in JobId, Perform(j)
      PROVE  CoordinatorInv'
  <2>1. Control' /\ Grows
    <3>1. CASE AssertLatest(j) \/ PostTurn(j) \/ TurnKnown(j) \/ Reproduced(j) \/ Passed(j)
      BY <1>1, <3>1, TurnsControl
    <3>2. CASE Prepared(j)
      BY <1>1, <3>2, PreparedControl
    <3>3. CASE SaveProposed(j)
      BY <1>1, <1>2, <3>3, ProposedControl DEF SaveProposed
    <3>4. CASE SaveVerified(j) \/ JobFails(j)
      BY <1>1, <1>2, <3>4, JobEndsControl DEF SaveVerified, JobFails, JobEnds
    <3> QED
      BY <1>5, <3>1, <3>2, <3>3, <3>4 DEF Perform
  <2> QED
    BY <1>1, <1>3, <1>5, <2>1, PerformAbout
<1>6. ASSUME NEW j \in JobId, Publication(j)
      PROVE  CoordinatorInv'
  <2>1. Control' /\ Grows
    BY <1>1, <1>6, PublicationControl
  <2> QED
    BY <1>1, <1>3, <1>6, <2>1, PublicationAbout
<1>7. CASE Outside
  <2>1. Control' /\ Grows
    BY <1>1, <1>7, OutsideControl
  <2> QED
    BY <1>1, <1>3, <1>7, <2>1, OutsideAbout
<1>8. CASE WorkerDies \/ Recovery
  <2>1. Grows
    BY <1>2, <1>8
    DEF WorkerDies, Recovery, Boot, Recovered, RecoverUnfinished, RecoverFinished, RecoversNext
  <2>2. Control'
    BY <1>1, <1>8, WorkerControl
  <2> QED
    BY <1>1, <1>3, <1>8, <2>1, <2>2, WorkerAbout
<1> QED
  BY <1>4, <1>5, <1>6, <1>7, <1>8 DEF JobsNext, Outside

(* The documents, the jobs at work, the session and the calls agree after  *)
(* every step, whatever dies and whenever.                                 *)
THEOREM JobsInvariant == JobsSpec => []CoordinatorInv
<1>1. JobsInit => CoordinatorInv
  BY CoordinatorStarts
<1>2. CoordinatorInv /\ [JobsNext]_jobsVars => CoordinatorInv'
  BY CoordinatorStep
<1> QED
  BY <1>1, <1>2, PTL DEF JobsSpec

(* Every step of the coordinator is a step of the store or none of it. *)
LEMMA CoordinatorUsesStore ==
  ASSUME CoordinatorInv, [JobsNext]_jobsVars
  PROVE  [RepairNext]_repairVars
<1>1. StoreInv /\ JobsTypeOK /\ Control /\ Publications
  BY DEF CoordinatorInv
<1>2. ASSUME NEW p \in Proposal, Owner(p) PROVE RepairNext
  BY <1>2 DEF RepairNext
<1>3. ASSUME NEW p \in Proposal, NEW t \in Token, Publish(p, t) PROVE RepairNext
  BY <1>3 DEF RepairNext
<1>4. CASE UNCHANGED repairVars
  BY <1>4
<1>5. ASSUME NEW j \in JobId, Prepared(j) PROVE RepairNext
  <2>1. PICK n \in {1, 2} : Propose(Fixes(n), Patch.content, "local_replay")
    BY <1>5 DEF Prepared, Fixes
  <2>2. Owner(Fixes(n))
    BY <2>1, JobsAssumption DEF Owner
  <2> QED
    BY <1>2, <2>2, FixesAreProposals
<1>6. ASSUME NEW j \in JobId, Passed(j) PROVE RepairNext
  <2>1. jobs[j].proposal # 0
    BY <1>1, <1>6 DEF Passed, TurnDone, At, Control, ProposalsKnow
  <2>2. ProposalOf(j) \in Proposal
    BY <1>1, <2>1, ItsProposal
  <2> DEFINE e == [content |-> Patch.content, reproduced |-> TRUE, passed |-> TRUE, at |-> now]
  <2>3. e \in [content : Content, reproduced : BOOLEAN, passed : BOOLEAN, at : 0..now]
    BY <1>1, JobsAssumption DEF StoreInv
  <2>4. RecordVerification(ProposalOf(j), e)
    BY <1>6 DEF Passed
  <2> HIDE DEF e
  <2>5. Owner(ProposalOf(j))
    BY <2>3, <2>4 DEF Owner
  <2> QED
    BY <1>2, <2>2, <2>5
<1>7. ASSUME NEW j \in JobId, Request(j), ~ UNCHANGED repairVars PROVE RepairNext
  <2>1. jobs[j].proposal # 0
    BY <1>1, <1>7 DEF Request, Control, ProposalsKnow
  <2>2. ProposalOf(j) \in Proposal
    BY <1>1, <2>1, ItsProposal
  <2>3. Owner(ProposalOf(j))
    BY <1>7, JobsAssumption DEF Request, Owner
  <2> QED
    BY <1>2, <2>2, <2>3
<1>8. ASSUME NEW j \in JobId, NEW decision \in {"allow", "deny"}, Decide(j, decision),
             ~ UNCHANGED repairVars
      PROVE  RepairNext
  <2>1. ProposalOf(j) \in Proposal
    BY <1>1, <1>8, ItsProposal DEF Decide
  <2>2. Owner(ProposalOf(j))
    BY <1>8, <2>1 DEF Decide, Owner
  <2> QED
    BY <1>2, <2>1, <2>2
<1>9. CASE Starts
  BY <1>4, <1>9 DEF Starts, Start, StartChecks, StartCreates, StartFails, IndexJob
<1>10. ASSUME NEW j \in JobId, Perform(j) PROVE [RepairNext]_repairVars
  BY <1>5, <1>6, <1>10 DEF Perform, AssertLatest, PostTurn, TurnKnown, PhaseStep, SaveProposed, Reproduced,
     SaveVerified, JobFails, JobEnds
<1>11. ASSUME NEW j \in JobId, Publication(j) PROVE [RepairNext]_repairVars
  BY <1>7, <1>8, <1>11 DEF Publication, RequestAgain, NoteRequest, DecideAgain, NoteDecision, CheckNewest,
     PostContinuation, Continued, ShowTracked, Unanswered, RecoverRefused, RecoverKnown, Find
<1>12. CASE WorkerDies \/ Recovery
  BY <1>4, <1>12
  DEF WorkerDies, Recovery, Boot, Recovered, RecoverUnfinished, RecoverFinished, RecoversNext
<1>13. ASSUME NEW j \in JobId, NEW t \in Token, jobs[j].proposal # 0,
              ToolPublishes(j, t) \/ PublishEnds(j, t)
       PROVE  RepairNext
  <2>1. ProposalOf(j) \in Proposal
    BY <1>1, <1>13, ItsProposal
  <2>2. Publish(ProposalOf(j), t)
    BY <1>13 DEF ToolPublishes, PublishEnds, Publish, Transport
  <2> QED
    BY <1>3, <2>1, <2>2
<1>14. CASE Outside
  BY <1>13, <1>14 DEF Outside, WatchEnds, ServeTurn, TurnEnds, ConsentChanges, jobsVars, RepairNext
<1> QED
  BY <1>9, <1>10, <1>11, <1>12, <1>14 DEF JobsNext, Outside

(* The coordinator is an implementation of the store's specification: it   *)
(* changes the store by the store's transactions alone, whenever it dies   *)
(* between two of them, so that whatever is proved of the store holds.     *)
THEOREM CoordinatorImplementsStore == JobsSpec => RepairSpec
<1>1. JobsInit => RepairInit
  BY DEF JobsInit
<1>2. CoordinatorInv /\ [JobsNext]_jobsVars => [RepairNext]_repairVars
  BY CoordinatorUsesStore
<1> QED
  BY <1>1, <1>2, JobsInvariant, PTL DEF JobsSpec, RepairSpec

LEMMA AtMostOne ==
  ASSUME NEW S, \A m, n \in S : m = n
  PROVE  Cardinality(S) <= 1
<1>1. CASE S = {}
  BY <1>1, FS_EmptySet
<1>2. CASE S # {}
  <2>1. PICK n : n \in S
    BY <1>2
  <2>2. S = {n}
    BY <2>1
  <2>3. Cardinality({n}) = 1
    BY FS_Singleton
  <2> QED
    BY <2>2, <2>3
<1> QED
  BY <1>1, <1>2

(* One job of a run is at work at a time and a job that says so is, across *)
(* starts, cancellations and restarts; a verified job names a proposal the *)
(* store has verified, and no two jobs name one proposal.                  *)
THEOREM JobsOneAtATime == JobsSpec => []OneJobAtATime
<1>1. ASSUME CoordinatorInv PROVE OneJobAtATime
  <2>1. ProcessKnows /\ JobsInOrder /\ ProposalsKnow
    BY <1>1 DEF CoordinatorInv, Control
  <2>2. \A i, j \in {k \in JobId : work[k].phase # "idle"} : i = j
    BY <2>1 DEF JobsInOrder, AtWork, Unfinished, JobId
  <2>3. Cardinality({j \in JobId : work[j].phase # "idle"}) <= 1
    BY <2>2, AtMostOne
  <2>4. /\ \A j \in JobId : work[j].phase # "idle" => Unfinished(j)
        /\ worker = "up" => \A j \in indexed : Unfinished(j) => work[j].phase # "idle"
    BY <2>1 DEF ProcessKnows, JobsInOrder, AtWork
  <2>5. \A j \in JobId :
          /\ jobs[j].state = "verified_local" => Verified(ProposalOf(j))
          /\ \A i \in JobId \ {j} : jobs[i].proposal = jobs[j].proposal => jobs[j].proposal = 0
    BY <2>1 DEF ProposalsKnow, JobId
  <2> QED
    BY <2>3, <2>4, <2>5 DEF OneJobAtATime
<1> QED
  BY <1>1, JobsInvariant, PTL

(* The agent is asked to publish once and told the owner's decision once,  *)
(* at the gate it was asked to stop at and as the store recorded it,       *)
(* whatever answers are lost and whenever the worker dies.                 *)
THEOREM JobsTellOnce == JobsSpec => []RuntimeToldOnce
<1>1. ASSUME CoordinatorInv PROVE RuntimeToldOnce
  <2> SUFFICES ASSUME NEW j \in JobId
               PROVE  /\ Cardinality(TurnsOf(j, {"ask"})) <= 1
                      /\ Cardinality(TurnsOf(j, {"allow", "deny"})) <= 1
                      /\ \A n \in TurnsOf(j, {"allow", "deny"}) :
                           /\ turns[n].kind = proposals[ProposalOf(j)].approval.decision
                           /\ turns[n].after \in TurnsOf(j, {"ask"})
    BY DEF RuntimeToldOnce
  <2>1. SentOnce(j) /\ SentRight(j)
    BY <1>1 DEF CoordinatorInv, Publications
  <2>2. /\ \A m, n \in TurnsOf(j, {"ask"}) : m = n
        /\ \A m, n \in TurnsOf(j, {"allow", "deny"}) : m = n
    BY <2>1 DEF SentOnce, Once, Decisions
  <2>3. /\ Cardinality(TurnsOf(j, {"ask"})) <= 1
        /\ Cardinality(TurnsOf(j, {"allow", "deny"})) <= 1
    BY <2>2, AtMostOne
  <2>4. \A n \in TurnsOf(j, {"allow", "deny"}) :
          n \in TurnsOf(j, Words) /\ turns[n].kind \in Decisions
    BY DEF TurnsOf, Words, Decisions
  <2>5. \A n \in TurnsOf(j, {"allow", "deny"}) : SaysRight(j, turns[n])
    BY <2>1, <2>4 DEF SentRight
  <2> QED
    BY <2>3, <2>4, <2>5 DEF SaysRight, OwnersWord
<1> QED
  BY <1>1, JobsInvariant, PTL
-----------------------------------------------------------------------------
(* The sandbox runner: what an operation, its turns and its posts agree on *)

SandboxTypes ==
  /\ task \in {"prepare", "run"} /\ at \in Nat
  /\ stand \in {"begin", "intent", "sent", "stream", "verify"}
  /\ dispatched \in BOOLEAN
  /\ known \in Seq(Nat) /\ unserved \in Seq(Turns)
  /\ session \in Seq(SandboxTurn) /\ session # <<>>
  /\ cancel \in {"none", "sent", "served", "lost"}
  /\ ran \in {"none", "given", "changed"}
  /\ observation \in {"none", "pending", "ok", "failed"}
  /\ outcome \in {"none", "ok", "failed"}

(* A turn is posted at a stage that has one, known once it is there, and    *)
(* nothing is posted before something was dispatched.                       *)
TurnsKnow ==
  /\ stand # "begin" => PlanStage \in Turns
  /\ \A i \in 1..Len(known) : known[i] \in 1..LastTurn
  /\ ~ dispatched => known = <<>> /\ stand \in {"begin", "intent"}

(* The turns and the posts of the operation, which are those it knows but   *)
(* for the one whose answer it waits for.                                   *)
Ours == {n \in 1..LastTurn : session[n].by = "us"}
PostsCount ==
  /\ IsFiniteSet(Ours)
  /\ Len(unserved) + Cardinality(Ours) <= Len(known) + (IF stand = "sent" THEN 1 ELSE 0)

(* The stages of `run' that the properties tell apart. *)
ExecTurns == {n \in 1..LastTurn : session[n].by = "us" /\ session[n].for = "exec"}
ExecPosts == {i \in 1..Len(unserved) : unserved[i] = "exec"}
ExecOnce ==
  /\ at < 5 \/ (at = 5 /\ stand \in {"begin", "intent"}) => ExecTurns = {} /\ ExecPosts = {}
  /\ \A m, n \in ExecTurns : m = n
  /\ \A i, k \in ExecPosts : i = k
  /\ ExecTurns = {} \/ ExecPosts = {}

(* The command's turn called exactly the command, after which nobody ran it *)
(* on other files, and the observation is of a command that ran.            *)
ExecKnows ==
  /\ at \in 1..7
  /\ at = 5 /\ stand \in {"stream", "verify"} => known # <<>> /\ PreviousTurn \in ExecTurns
  /\ at = 5 /\ stand = "verify" => session[PreviousTurn].calls = "exact"
  /\ at > 5 => \E n \in ExecTurns : session[n].calls = "exact"
  /\ ran = "changed" => \E n \in ExecTurns : session[n].calls = "other"
  /\ observation = "ok" => ran # "none"
  /\ at = 7 => observation = "ok"
  /\ outcome = "ok" => at = 7
CallsEnd == \A n \in 1..LastTurn : session[n].calls # "none" => session[n].state # "running"
RunKnows == task = "run" => ExecOnce /\ ExecKnows

(* The inductive invariant of the runner. *)
SandboxInv ==
  /\ SandboxTypes /\ TurnsKnow /\ PostsCount /\ CallsEnd /\ RunKnows
  /\ KnownTurnsStopped
LEMMA SandboxStarts == SandboxInit => SandboxInv
<1> SUFFICES ASSUME SandboxInit PROVE SandboxInv
  OBVIOUS
<1>1. PICK state \in {"done", "paused", "error"} :
        session = <<[NewTurn("other", "other") EXCEPT !.state = state]>>
  BY DEF SandboxInit
<1> DEFINE first == [NewTurn("other", "other") EXCEPT !.state = state]
<1>2. /\ first \in SandboxTurn /\ first.by = "other" /\ first.calls = "none"
  BY DEF NewTurn, SandboxTurn
<1>3. session = <<first>>
  BY <1>1
<1> HIDE DEF first
<1>4. session \in Seq(SandboxTurn) /\ LastTurn = 1 /\ session[1] = first /\ session # <<>>
  BY <1>2, <1>3 DEF LastTurn
<1>5. /\ at = 1 /\ stand = "begin" /\ ~ dispatched /\ known = <<>> /\ unserved = <<>>
      /\ ran = "none" /\ observation = "none" /\ outcome = "none"
  BY DEF SandboxInit
<1>6. SandboxTypes
  <2>1. <<>> \in Seq(Nat) /\ <<>> \in Seq(Turns)
    BY EmptySeq
  <2> QED
    BY <1>4, <2>1 DEF SandboxInit, SandboxTypes
<1>7. Ours = {} /\ ExecTurns = {} /\ ExecPosts = {}
  BY <1>2, <1>4, <1>5 DEF Ours, ExecTurns, ExecPosts
<1>8. PostsCount
  BY <1>5, <1>7, FS_EmptySet DEF PostsCount
<1>9. TurnsKnow /\ CallsEnd /\ KnownTurnsStopped
  BY <1>2, <1>4, <1>5 DEF TurnsKnow, CallsEnd, KnownTurnsStopped
<1>10. RunKnows
  BY <1>5, <1>7 DEF RunKnows, ExecOnce, ExecKnows
<1> QED
  BY <1>6, <1>8, <1>9, <1>10 DEF SandboxInv

(* What the runtime does to turns: they stay whose and what they are, those *)
(* that ended as they are, and new ones come after them.                    *)
TurnsGoOn ==
  /\ session' \in Seq(SandboxTurn) /\ LastTurn' \in Nat /\ LastTurn <= LastTurn'
  /\ \A n \in 1..LastTurn : /\ session'[n].by = session[n].by
                            /\ session'[n].for = session[n].for
                            /\ session[n].state # "running" => session'[n] = session[n]
SameTurns == TurnsGoOn /\ LastTurn' = LastTurn

LEMMA TurnsUnchanged ==
  ASSUME SandboxTypes, session' = session
  PROVE  SameTurns
  BY LenProperties DEF SandboxTypes, SameTurns, TurnsGoOn, LastTurn

LEMMA TurnIs ==
  ASSUME SandboxTypes
  PROVE  /\ LastTurn \in Nat \ {0} /\ \A n \in 1..LastTurn : session[n] \in SandboxTurn
  BY LenProperties, ElementOfSeq, EmptySeq DEF SandboxTypes, LastTurn

LEMMA TurnJoins ==
  ASSUME SandboxTypes, NEW turn \in SandboxTurn, session' = Append(session, turn)
  PROVE  /\ TurnsGoOn /\ LastTurn' = LastTurn + 1 /\ session'[LastTurn + 1] = turn
         /\ \A n \in 1..LastTurn : session'[n] = session[n]
  BY AppendProperties, TurnIs DEF SandboxTypes, TurnsGoOn, LastTurn

LEMMA TurnMoves ==
  ASSUME SandboxTypes, NEW n \in 1..LastTurn, NEW state \in {"done", "paused", "error"},
         NEW tools \in {"none", "exact", "other"}, Turned(n, state, tools)
  PROVE  /\ SameTurns /\ session'[n].state = state /\ session'[n].calls = tools
         /\ session[n].state = "running"
         /\ \A m \in 1..LastTurn : m # n => session'[m] = session[m]
<1> DEFINE turn == [session[n] EXCEPT !.state = state, !.calls = tools]
<1>1. session[n] \in SandboxTurn
  BY TurnIs
<1>2. /\ turn \in SandboxTurn /\ turn.by = session[n].by /\ turn.for = session[n].for
      /\ turn.state = state /\ turn.calls = tools
  BY <1>1 DEF SandboxTurn
<1>3. session' = [session EXCEPT ![n] = turn] /\ session[n].state = "running"
  BY DEF Turned
<1> HIDE DEF turn
<1>4. session \in Seq(SandboxTurn) /\ n \in 1..Len(session) /\ LastTurn = Len(session)
  BY DEF SandboxTypes, LastTurn
<1>5. /\ session' \in Seq(SandboxTurn) /\ Len(session') = Len(session) /\ session'[n] = turn
      /\ \A m \in 1..Len(session) : m # n => session'[m] = session[m]
  BY <1>2, <1>3, <1>4, ExceptSeq
<1>6. LastTurn' = LastTurn /\ LastTurn \in Nat
  BY <1>4, <1>5, LenProperties DEF LastTurn
<1> QED
  BY <1>2, <1>3, <1>4, <1>5, <1>6 DEF SameTurns, TurnsGoOn

LEMMA TurnsCanceled ==
  ASSUME SandboxTypes,
         session' = [n \in 1..LastTurn |->
             IF session[n].state = "running" THEN [session[n] EXCEPT !.state = "error"]
             ELSE session[n]]
  PROVE  SameTurns /\ \A n \in 1..LastTurn : /\ session'[n].state # "running"
                                             /\ session'[n].calls = session[n].calls
<1>1. ASSUME NEW n \in 1..LastTurn
      PROVE  /\ session'[n] \in SandboxTurn /\ session'[n].by = session[n].by
             /\ session'[n].for = session[n].for /\ session'[n].state # "running"
             /\ session'[n].calls = session[n].calls
             /\ session[n].state # "running" => session'[n] = session[n]
  <2>1. session[n] \in SandboxTurn
    BY TurnIs
  <2> QED
    BY <2>1 DEF SandboxTurn
<1>2. session' \in [1..LastTurn -> SandboxTurn] /\ LastTurn \in Nat
  BY <1>1, TurnIs
<1>3. session' \in Seq(SandboxTurn) /\ Len(session') = LastTurn
  <2>1. session' \in Seq(SandboxTurn)
    BY <1>2, SeqDef
  <2>2. DOMAIN session' = 1..LastTurn /\ DOMAIN session' = 1..Len(session') /\ Len(session') \in Nat
    BY <1>2, <2>1, LenProperties
  <2>3. PICK m \in Nat, k \in Nat : m = LastTurn /\ k = Len(session')
    BY <1>2, <2>2
  <2>4. 1..m = 1..k
    BY <2>2, <2>3
  <2>5. m = k
    BY <2>4
  <2> QED
    BY <2>1, <2>3, <2>5
<1> QED
  BY <1>1, <1>2, <1>3 DEF SameTurns, TurnsGoOn, LastTurn

(* What the properties tell of the stages of a run. *)
LEMMA StagesOfRun ==
  ASSUME task = "run", at \in 1..7
  PROVE  /\ Len(Plan) = 7
         /\ PlanStage = "exec" <=> at = 5
         /\ PlanStage = "observe" <=> at = 6
         /\ PlanStage = "result" <=> at = 7
         /\ PlanStage = "open" <=> at = 3
         /\ PlanStage = "root" <=> at = 1
         /\ PlanStage \in Turns <=> at \in {1, 2, 4, 5}
<1>1. Plan = <<"root", "transfer", "open", "upload", "exec", "observe", "result">>
  BY DEF Plan
<1>2. at = 1 \/ at = 2 \/ at = 3 \/ at = 4 \/ at = 5 \/ at = 6 \/ at = 7
  OBVIOUS
<1> QED
  BY <1>1, <1>2 DEF PlanStage, Turns, Scripted
(* What the agent does in a turn. *)
Acts ==
  /\ SameTurns /\ CallsEnd' /\ UNCHANGED <<unserved, cancel, operationVars>>
  /\ \/ ran' = ran
     \/ ran = "none" /\ ran' = "given"
     \/ ran' = "changed" /\ \E n \in ExecTurns : session'[n].calls = "other"
AgentActs ==
  \E n \in 1..LastTurn :
    \/ Stores(n) \/ Stages(n) \/ Snapshots(n) \/ RunsCommand(n) \/ CommandEnds(n)
    \/ ActsFreely(n) \/ Breaks(n)

LEMMA AgentDoes ==
  ASSUME SandboxTypes, CallsEnd, AgentActs
  PROVE  Acts
<1>1. PICK n \in 1..LastTurn :
        \/ Stores(n) \/ Stages(n) \/ Snapshots(n) \/ RunsCommand(n) \/ CommandEnds(n)
        \/ ActsFreely(n) \/ Breaks(n)
  BY DEF AgentActs
<1>2. ASSUME NEW state \in {"done", "paused", "error"}, NEW tools \in {"none", "exact", "other"},
             Turned(n, state, tools)
      PROVE  /\ SameTurns /\ CallsEnd' /\ UNCHANGED <<unserved, cancel, operationVars>>
             /\ session'[n].calls = tools
  <2>1. /\ SameTurns /\ session'[n].state = state /\ session'[n].calls = tools
        /\ \A m \in 1..LastTurn : m # n => session'[m] = session[m]
    BY <1>2, TurnMoves
  <2>2. CallsEnd'
    BY <2>1 DEF CallsEnd, SameTurns
  <2> QED
    BY <1>2, <2>1, <2>2 DEF Turned
<1>3. CASE RunsCommand(n)
  <2>1. session' = session
    BY <1>3 DEF RunsCommand
  <2>2. SameTurns
    BY <2>1, TurnsUnchanged
  <2>3. CallsEnd'
    BY <2>1 DEF CallsEnd, LastTurn
  <2> QED
    BY <1>3, <2>2, <2>3 DEF Acts, RunsCommand
<1>4. CASE ActsFreely(n)
  <2>1. /\ Turned(n, "done", "other") /\ session[n].by = "us"
        /\ ran' = ran \/ (session[n].for = "exec" /\ ran' = "changed")
    BY <1>4 DEF ActsFreely
  <2>2. /\ SameTurns /\ CallsEnd' /\ UNCHANGED <<unserved, cancel, operationVars>>
        /\ session'[n].calls = "other"
    BY <1>2, <2>1
  <2>3. session[n].for = "exec" => n \in ExecTurns
    BY <2>1 DEF ExecTurns
  <2> QED
    BY <2>1, <2>2, <2>3 DEF Acts
<1>5. CASE Stores(n) \/ Stages(n) \/ Snapshots(n) \/ CommandEnds(n) \/ Breaks(n)
  <2>1. /\ \E state \in {"done", "paused", "error"}, tools \in {"none", "exact", "other"} :
             Turned(n, state, tools)
        /\ ran' = ran
    BY <1>5 DEF Stores, Stages, Snapshots, CommandEnds, Breaks
  <2> QED
    BY <1>2, <2>1 DEF Acts
<1> QED
  BY <1>1, <1>3, <1>4, <1>5

(* The runtime serves a post, or others post. *)
LEMMA PostServed ==
  ASSUME SandboxTypes, ServePost
  PROVE  /\ UNCHANGED <<cancel, ran, operationVars>>
         /\ unserved # <<>> /\ unserved' \in Seq(Turns) /\ Len(unserved') = Len(unserved) - 1
         /\ \A i \in 1..Len(unserved') : unserved'[i] = unserved[i + 1]
         /\ \/ session' = session
            \/ /\ TurnsGoOn /\ LastTurn' = LastTurn + 1
               /\ session'[LastTurn + 1] = NewTurn("us", unserved[1])
               /\ \A n \in 1..LastTurn : session'[n] = session[n]
<1>1. unserved \in Seq(Turns) /\ unserved # <<>> /\ unserved' = Tail(unserved)
  BY DEF SandboxTypes, ServePost
<1>2. Head(unserved) \in Turns /\ Head(unserved) = unserved[1]
  BY <1>1, HeadTailProperties
<1>3. NewTurn("us", unserved[1]) \in SandboxTurn
  BY <1>2 DEF NewTurn, SandboxTurn
<1>4. session' = session \/ session' = Append(session, NewTurn("us", unserved[1]))
  BY <1>2 DEF ServePost
<1>5. PICK turn \in SandboxTurn : turn = NewTurn("us", unserved[1])
  BY <1>3
<1>6. \/ session' = session
      \/ /\ TurnsGoOn /\ LastTurn' = LastTurn + 1
         /\ session'[LastTurn + 1] = turn
         /\ \A n \in 1..LastTurn : session'[n] = session[n]
  BY <1>4, <1>5, TurnJoins
<1>7. /\ unserved' \in Seq(Turns) /\ Len(unserved') = Len(unserved) - 1
      /\ \A i \in 1..Len(unserved') : unserved'[i] = unserved[i + 1]
  BY <1>1, HeadTailProperties
<1>8. UNCHANGED <<cancel, ran, operationVars>>
  BY DEF ServePost
<1> QED
  BY <1>1, <1>5, <1>6, <1>7, <1>8

LEMMA OtherPosted ==
  ASSUME SandboxTypes, OtherPosts
  PROVE  /\ UNCHANGED <<unserved, cancel, ran, operationVars>>
         /\ TurnsGoOn /\ LastTurn' = LastTurn + 1
         /\ session'[LastTurn + 1] = NewTurn("other", "other")
         /\ \A n \in 1..LastTurn : session'[n] = session[n]
<1>1. PICK turn : turn = NewTurn("other", "other")
  OBVIOUS
<1>2. turn \in SandboxTurn
  BY <1>1 DEF NewTurn, SandboxTurn
<1>3. session' = Append(session, turn)
  BY <1>1 DEF OtherPosts
<1>4. /\ TurnsGoOn /\ LastTurn' = LastTurn + 1 /\ session'[LastTurn + 1] = turn
      /\ \A n \in 1..LastTurn : session'[n] = session[n]
  BY <1>2, <1>3, TurnJoins
<1> QED
  BY <1>1, <1>4 DEF OtherPosts

-----------------------------------------------------------------------------
(* The sandbox runner: every step keeps the types *)

LEMMA PostsAppend ==
  ASSUME SandboxTypes, TurnsKnow, SendTurn
  PROVE  /\ unserved' \in Seq(Turns) /\ Len(unserved) \in Nat /\ Len(unserved') = Len(unserved) + 1
         /\ unserved'[Len(unserved) + 1] = PlanStage
         /\ \A i \in 1..Len(unserved) : unserved'[i] = unserved[i]
<1>1. unserved \in Seq(Turns) /\ PlanStage \in Turns /\ unserved' = Append(unserved, PlanStage)
  BY DEF SandboxTypes, TurnsKnow, SendTurn
<1> QED
  BY <1>1, AppendProperties, LenProperties

LEMMA KnownAppend ==
  ASSUME SandboxTypes, LearnTurn
  PROVE  \E n \in 1..LastTurn :
           /\ session[n].by = "us" /\ session[n].for = PlanStage
           /\ known' \in Seq(Nat) /\ Len(known) \in Nat /\ Len(known') = Len(known) + 1
           /\ known'[Len(known) + 1] = n
           /\ \A i \in 1..Len(known) : known'[i] = known[i]
<1>1. PICK n \in 1..LastTurn :
        session[n].by = "us" /\ session[n].for = PlanStage /\ known' = Append(known, n)
  BY DEF LearnTurn
<1>2. known \in Seq(Nat) /\ n \in Nat
  BY DEF SandboxTypes
<1> QED
  BY <1>1, <1>2, AppendProperties, LenProperties

(* Steps that leave the runtime's turns and posts, and what is known. *)
Quiet == UNCHANGED <<session, unserved, known, ran>>
QuietStep ==
  \/ CheckTurn \/ Followed \/ ReadBack \/ RootKnown \/ OpenBridge \/ AwaitObservation \/ ReadResult
  \/ AbortOperation \/ FailOperation \/ Observed \/ UNCHANGED sandboxVars

LEMMA QuietIs ==
  ASSUME QuietStep
  PROVE  Quiet /\ UNCHANGED task
  BY DEF QuietStep, Quiet, CheckTurn, Followed, ReadBack, RootKnown, OpenBridge, AwaitObservation, ReadResult,
     AbortOperation, FailOperation, Observed, Uncanceled, runtimeVars, operationVars, sandboxVars

LEMMA SandboxSteps ==
  ASSUME [SandboxNext]_sandboxVars
  PROVE  \/ QuietStep \/ SendTurn \/ LearnTurn \/ ServePost \/ ServeCancel \/ OtherPosts
         \/ AgentActs
  BY DEF SandboxNext, SandboxOperation, Runtime, QuietStep, AgentActs

LEMMA TypesStep ==
  ASSUME SandboxTypes, TurnsKnow, CallsEnd, [SandboxNext]_sandboxVars
  PROVE  SandboxTypes'
<1> USE TurnIs
<1>1. CASE QuietStep
  <2>1. Quiet /\ UNCHANGED task
    BY <1>1, QuietIs
  <2>2. /\ at' \in Nat /\ stand' \in {"begin", "intent", "sent", "stream", "verify"}
        /\ dispatched' = dispatched
    BY <1>1 DEF SandboxTypes, QuietStep, CheckTurn, Followed, ReadBack, RootKnown, OpenBridge,
       AwaitObservation, ReadResult, AbortOperation, FailOperation, Observed, Uncanceled, NextStage, Go,
       operationVars, sandboxVars
  <2>3. /\ cancel' \in {"none", "sent", "served", "lost"}
        /\ observation' \in {"none", "pending", "ok", "failed"}
        /\ outcome' \in {"none", "ok", "failed"}
    BY <1>1 DEF SandboxTypes, QuietStep, CheckTurn, Followed, ReadBack, RootKnown, OpenBridge,
       AwaitObservation, ReadResult, AbortOperation, FailOperation, Observed, Uncanceled, NextStage, Go,
       CancelSession, CloseBridge, operationVars, runtimeVars, sandboxVars
  <2> QED
    BY <2>1, <2>2, <2>3 DEF SandboxTypes, Quiet
<1>2. CASE SendTurn
  BY <1>2, PostsAppend DEF SandboxTypes, SendTurn, Go
<1>3. CASE LearnTurn
  BY <1>3, KnownAppend DEF SandboxTypes, LearnTurn, Go, Uncanceled, runtimeVars
<1>4. ASSUME TurnsGoOn PROVE session' \in Seq(SandboxTurn) /\ session' # <<>>
  <2>1. LastTurn' # 0
    BY <1>4 DEF TurnsGoOn
  <2> QED
    BY <1>4, <2>1, EmptySeq DEF TurnsGoOn, LastTurn
<1>5. CASE ServePost
  BY <1>4, <1>5, PostServed DEF SandboxTypes, operationVars
<1>6. CASE ServeCancel
  <2>1. TurnsGoOn
    BY <1>6, TurnsCanceled, TurnsUnchanged DEF ServeCancel, SameTurns
  <2> QED
    BY <1>4, <1>6, <2>1 DEF SandboxTypes, ServeCancel, operationVars
<1>7. CASE OtherPosts
  BY <1>4, <1>7, OtherPosted DEF SandboxTypes, operationVars
<1>8. CASE AgentActs
  BY <1>4, <1>8, AgentDoes DEF Acts, SameTurns, SandboxTypes, operationVars
<1> QED
  BY <1>1, <1>2, <1>3, <1>5, <1>6, <1>7, <1>8, SandboxSteps
-----------------------------------------------------------------------------
(* The sandbox runner: its turns and its posts *)

LEMMA StageSame ==
  ASSUME UNCHANGED <<task, at>>
  PROVE  PlanStage' = PlanStage
  BY DEF PlanStage, Plan

LEMMA StandsQuiet ==
  ASSUME TurnsKnow, QuietStep
  PROVE  /\ stand' # "begin" => UNCHANGED <<task, at>> /\ PlanStage \in Turns
         /\ stand' = "sent" <=> stand = "sent"
         /\ stand' \in {"begin", "intent"} \/ stand' = stand \/ (stand = "stream" /\ stand' = "verify")
         /\ dispatched' = dispatched
<1>1. {"open", "observe", "result"} \cap Turns = {}
  BY DEF Turns, Scripted
<1>2. PlanStage \in {"open", "observe", "result"} => stand = "begin"
  BY <1>1 DEF TurnsKnow
<1>3. CASE CheckTurn \/ Followed \/ ReadBack \/ RootKnown
  BY <1>3 DEF TurnsKnow, CheckTurn, Followed, ReadBack, RootKnown, Uncanceled, NextStage, Go
<1>4. CASE OpenBridge \/ AwaitObservation
  BY <1>2, <1>4 DEF TurnsKnow, OpenBridge, AwaitObservation, Uncanceled, NextStage, Go
<1>5. CASE ReadResult
  BY <1>2, <1>5 DEF TurnsKnow, ReadResult, NextStage, Go
<1>6. CASE AbortOperation \/ FailOperation \/ Observed \/ UNCHANGED sandboxVars
  BY <1>6 DEF TurnsKnow, AbortOperation, FailOperation, Observed, operationVars, sandboxVars
<1> QED
  BY <1>3, <1>4, <1>5, <1>6 DEF QuietStep

LEMMA TurnsKnowStep ==
  ASSUME SandboxTypes, TurnsKnow, CallsEnd, [SandboxNext]_sandboxVars
  PROVE  TurnsKnow'
<1>1. LastTurn \in Nat
  BY TurnIs
<1>2. ASSUME TurnsGoOn, UNCHANGED operationVars
      PROVE  TurnsKnow'
  <2>1. PlanStage' = PlanStage
    BY <1>2, StageSame DEF operationVars
  <2>2. \A i \in 1..Len(known) : known[i] \in 1..LastTurn'
    BY <1>1, <1>2 DEF TurnsKnow, TurnsGoOn
  <2> QED
    BY <1>2, <2>1, <2>2 DEF TurnsKnow, operationVars
<1>3. CASE QuietStep
  <2>1. Quiet /\ UNCHANGED task
    BY <1>3, QuietIs
  <2>2. /\ stand' # "begin" => PlanStage' \in Turns
        /\ stand' \in {"begin", "intent"} \/ stand' = stand \/ (stand = "stream" /\ stand' = "verify")
        /\ dispatched' = dispatched
    BY <1>3, StandsQuiet, StageSame
  <2> QED
    BY <2>1, <2>2 DEF TurnsKnow, Quiet, LastTurn
<1>4. CASE SendTurn
  <2>1. PlanStage' = PlanStage /\ stand = "intent" /\ UNCHANGED <<known, session>> /\ dispatched' = TRUE
    BY <1>4, StageSame DEF SendTurn
  <2> QED
    BY <2>1 DEF TurnsKnow, LastTurn
<1>5. CASE LearnTurn
  <2>1. PlanStage' = PlanStage /\ stand = "sent" /\ stand' = "stream"
        /\ UNCHANGED <<session, dispatched>>
    BY <1>5, StageSame DEF LearnTurn, Uncanceled, runtimeVars, Go
  <2>2. PICK n \in 1..LastTurn :
           /\ Len(known) \in Nat /\ Len(known') = Len(known) + 1
           /\ known'[Len(known) + 1] = n
           /\ \A i \in 1..Len(known) : known'[i] = known[i]
    BY <1>5, KnownAppend
  <2>3. \A i \in 1..Len(known') : i \in 1..Len(known) \/ i = Len(known) + 1
    BY <2>2
  <2>4. \A i \in 1..Len(known') : known'[i] \in 1..LastTurn
    BY <2>2, <2>3 DEF TurnsKnow
  <2> QED
    BY <2>1, <2>4 DEF TurnsKnow, LastTurn
<1>6. CASE ServePost
  BY <1>2, <1>6, PostServed, TurnsUnchanged DEF SameTurns
<1>7. CASE ServeCancel
  BY <1>2, <1>7, TurnsCanceled, TurnsUnchanged DEF ServeCancel, SameTurns
<1>8. CASE OtherPosts
  BY <1>2, <1>8, OtherPosted
<1>9. CASE AgentActs
  BY <1>2, <1>9, AgentDoes DEF Acts, SameTurns
<1> QED
  BY <1>3, <1>4, <1>5, <1>6, <1>7, <1>8, <1>9, SandboxSteps

LEMMA OursSame ==
  ASSUME SameTurns
  PROVE  Ours' = Ours /\ ExecTurns' = ExecTurns
<1>1. \A n : n \in Ours' <=> n \in Ours
  BY DEF Ours, SameTurns, TurnsGoOn
<1>2. \A n : n \in ExecTurns' <=> n \in ExecTurns
  BY DEF ExecTurns, SameTurns, TurnsGoOn
<1> QED
  BY <1>1, <1>2

LEMMA OursGrow ==
  ASSUME LastTurn \in Nat, LastTurn' = LastTurn + 1, NEW by, NEW for,
         session'[LastTurn + 1].by = by, session'[LastTurn + 1].for = for,
         \A n \in 1..LastTurn : session'[n] = session[n]
  PROVE  /\ Ours' = IF by = "us" THEN Ours \cup {LastTurn + 1} ELSE Ours
         /\ ExecTurns' = IF by = "us" /\ for = "exec" THEN ExecTurns \cup {LastTurn + 1} ELSE ExecTurns
         /\ LastTurn + 1 \notin Ours /\ LastTurn + 1 \notin ExecTurns
<1>1. \A n : n \in 1..LastTurn' <=> n \in 1..LastTurn \/ n = LastTurn + 1
  OBVIOUS
<1>2. \A n : n \in Ours' <=> n \in Ours \/ (by = "us" /\ n = LastTurn + 1)
  BY <1>1 DEF Ours
<1>3. \A n : n \in ExecTurns' <=> n \in ExecTurns \/ (by = "us" /\ for = "exec" /\ n = LastTurn + 1)
  BY <1>1 DEF ExecTurns
<1>4. LastTurn + 1 \notin Ours /\ LastTurn + 1 \notin ExecTurns
  BY DEF Ours, ExecTurns
<1> QED
  BY <1>2, <1>3, <1>4

LEMMA PostsCountStep ==
  ASSUME SandboxTypes, TurnsKnow, PostsCount, CallsEnd, [SandboxNext]_sandboxVars
  PROVE  PostsCount'
<1>1. /\ LastTurn \in Nat /\ IsFiniteSet(Ours) /\ Cardinality(Ours) \in Nat
      /\ Len(unserved) \in Nat /\ Len(known) \in Nat
      /\ Len(unserved) + Cardinality(Ours) <= Len(known) + (IF stand = "sent" THEN 1 ELSE 0)
  BY TurnIs, FS_CardinalityType, LenProperties DEF PostsCount, SandboxTypes
<1>2. ASSUME SameTurns, Len(unserved') <= Len(unserved), Len(unserved') \in Nat, known' = known,
             stand' = "sent" <=> stand = "sent"
      PROVE  PostsCount'
  <2>1. Ours' = Ours
    BY <1>2, OursSame
  <2> QED
    BY <1>1, <1>2, <2>1 DEF PostsCount
<1>3. CASE QuietStep
  BY <1>1, <1>2, <1>3, QuietIs, StandsQuiet, TurnsUnchanged DEF Quiet
<1>4. CASE SendTurn
  <2>1. /\ session' = session /\ known' = known /\ stand = "intent" /\ stand' = "sent"
        /\ Len(unserved') = Len(unserved) + 1
    BY <1>4, PostsAppend DEF SendTurn, Go
  <2>2. Ours' = Ours
    BY <2>1, OursSame, TurnsUnchanged
  <2> QED
    BY <1>1, <2>1, <2>2 DEF PostsCount
<1>5. CASE LearnTurn
  <2>1. /\ session' = session /\ unserved' = unserved /\ stand = "sent" /\ stand' = "stream"
        /\ Len(known') = Len(known) + 1
    BY <1>5, KnownAppend DEF LearnTurn, Go, runtimeVars
  <2>2. Ours' = Ours
    BY <2>1, OursSame, TurnsUnchanged
  <2> QED
    BY <1>1, <2>1, <2>2 DEF PostsCount
<1>6. CASE ServePost
  <2>1. /\ known' = known /\ stand' = stand
        /\ Len(unserved') = Len(unserved) - 1 /\ unserved' \in Seq(Turns)
        /\ \/ session' = session
           \/ /\ LastTurn' = LastTurn + 1
              /\ session'[LastTurn + 1] = NewTurn("us", unserved[1])
              /\ \A n \in 1..LastTurn : session'[n] = session[n]
    BY <1>6, PostServed DEF operationVars
  <2>2. Len(unserved') \in Nat
    BY <2>1, LenProperties
  <2>3. CASE session' = session
    BY <1>1, <1>2, <2>1, <2>2, <2>3, TurnsUnchanged
  <2>4. CASE session' # session
    <3>1. /\ session'[LastTurn + 1].by = "us"
          /\ session'[LastTurn + 1].for = unserved[1]
      BY <2>1, <2>4 DEF NewTurn
    <3>2. Ours' = Ours \cup {LastTurn + 1} /\ LastTurn + 1 \notin Ours
      BY <1>1, <2>1, <2>4, <3>1, OursGrow
    <3>3. IsFiniteSet(Ours') /\ Cardinality(Ours') = Cardinality(Ours) + 1
      BY <1>1, <3>2, FS_AddElement
    <3> QED
      BY <1>1, <2>1, <2>2, <3>3 DEF PostsCount
  <2> QED
    BY <2>3, <2>4
<1>7. CASE ServeCancel
  BY <1>1, <1>2, <1>7, TurnsCanceled, TurnsUnchanged DEF ServeCancel, operationVars
<1>8. CASE OtherPosts
  <2>1. /\ UNCHANGED <<unserved, known, stand>> /\ LastTurn' = LastTurn + 1
        /\ session'[LastTurn + 1] = NewTurn("other", "other")
        /\ \A n \in 1..LastTurn : session'[n] = session[n]
    BY <1>8, OtherPosted DEF operationVars
  <2>2. session'[LastTurn + 1].by = "other" /\ session'[LastTurn + 1].for = "other"
    BY <2>1 DEF NewTurn
  <2>3. Ours' = Ours
    BY <1>1, <2>1, <2>2, OursGrow
  <2> QED
    BY <1>1, <2>1, <2>3 DEF PostsCount
<1>9. CASE AgentActs
  BY <1>1, <1>2, <1>9, AgentDoes DEF Acts, operationVars
<1> QED
  BY <1>3, <1>4, <1>5, <1>6, <1>7, <1>8, <1>9, SandboxSteps

LEMMA CallsEndStep ==
  ASSUME SandboxTypes, CallsEnd, [SandboxNext]_sandboxVars
  PROVE  CallsEnd'
<1>1. CASE session' = session
  BY <1>1 DEF CallsEnd, LastTurn
<1>2. CASE AgentActs
  BY <1>2, AgentDoes DEF Acts
<1>3. ASSUME NEW by, NEW for, LastTurn' = LastTurn + 1, session'[LastTurn + 1] = NewTurn(by, for),
             \A n \in 1..LastTurn : session'[n] = session[n]
      PROVE  CallsEnd'
  <2>1. LastTurn \in Nat /\ session'[LastTurn + 1].calls = "none"
    BY <1>3, TurnIs DEF NewTurn
  <2>2. \A n \in 1..LastTurn' : n \in 1..LastTurn \/ n = LastTurn + 1
    BY <1>3, <2>1
  <2> QED
    BY <1>3, <2>1, <2>2 DEF CallsEnd
<1>4. CASE ServePost
  BY <1>1, <1>3, <1>4, PostServed
<1>5. CASE OtherPosts
  BY <1>3, <1>5, OtherPosted
<1>6. CASE ServeCancel
  BY <1>1, <1>6, TurnsCanceled DEF ServeCancel, CallsEnd, SameTurns
<1>7. CASE QuietStep \/ SendTurn \/ LearnTurn
  BY <1>1, <1>7, QuietIs DEF Quiet, SendTurn, LearnTurn, runtimeVars
<1> QED
  BY <1>2, <1>4, <1>5, <1>6, <1>7, SandboxSteps

LEMMA StoppedStep ==
  ASSUME SandboxTypes, TurnsKnow, CallsEnd, KnownTurnsStopped, [SandboxNext]_sandboxVars
  PROVE  KnownTurnsStopped'
<1>1. ASSUME TurnsGoOn, UNCHANGED <<known, outcome, cancel>>
      PROVE  KnownTurnsStopped'
  BY <1>1 DEF KnownTurnsStopped, TurnsKnow, TurnsGoOn
<1>2. CASE outcome' # "failed"
  BY <1>2 DEF KnownTurnsStopped
<1>3. CASE FailOperation
  <2>1. dispatched => cancel' = "sent"
    BY <1>3 DEF FailOperation, CancelSession
  <2>2. ~ dispatched => known' = <<>>
    BY <1>3 DEF FailOperation, TurnsKnow
  <2> QED
    BY <2>1, <2>2 DEF KnownTurnsStopped
<1>4. CASE QuietStep /\ ~ FailOperation
  <2>1. outcome' # "failed" \/ UNCHANGED <<session, known, outcome, cancel>>
    BY <1>4 DEF QuietStep, CheckTurn, Followed, ReadBack, RootKnown, OpenBridge, AwaitObservation, ReadResult,
       AbortOperation, Observed, Uncanceled, Running, runtimeVars, operationVars, sandboxVars
  <2> QED
    BY <1>1, <1>2, <2>1, TurnsUnchanged DEF SameTurns
<1>5. CASE SendTurn \/ LearnTurn
  BY <1>2, <1>5 DEF SendTurn, LearnTurn, Running, Uncanceled
<1>6. CASE ServePost
  BY <1>1, <1>6, PostServed, TurnsUnchanged DEF operationVars, SameTurns
<1>7. CASE OtherPosts
  BY <1>1, <1>7, OtherPosted DEF operationVars
<1>8. CASE AgentActs
  BY <1>1, <1>8, AgentDoes DEF Acts, SameTurns, operationVars
<1>9. CASE ServeCancel
  <2>1. CASE cancel' = "lost"
    BY <2>1 DEF KnownTurnsStopped
  <2>2. CASE cancel' # "lost"
    <3>1. \A n \in 1..LastTurn : session'[n].state # "running"
      BY <1>9, <2>2, TurnsCanceled DEF ServeCancel
    <3> QED
      BY <1>9, <3>1 DEF KnownTurnsStopped, TurnsKnow, ServeCancel, operationVars
  <2> QED
    BY <2>1, <2>2
<1> QED
  BY <1>3, <1>4, <1>5, <1>6, <1>7, <1>8, <1>9, SandboxSteps DEF QuietStep
-----------------------------------------------------------------------------
(* The sandbox runner: the command of a run *)

LEMMA RunQuiet ==
  ASSUME TurnsKnow, task = "run", at \in 1..7, QuietStep
  PROVE  /\ \/ /\ at' = at
               /\ \/ stand' = stand
                  \/ stand = "begin" /\ stand' = "intent"
                  \/ /\ stand = "stream" /\ stand' = "verify"
                     /\ at = 5 => session[PreviousTurn].calls = "exact"
            \/ /\ at' = at + 1 /\ at < 7 /\ stand' = "begin"
               /\ at = 5 => stand = "verify"
               /\ at = 6 => observation = "ok"
         /\ \/ observation' = observation
            \/ observation # "ok" /\ (observation' = "ok" => ran # "none")
            \/ at = 3 /\ at' = 4 /\ observation' = "pending"
         /\ outcome' = "ok" => outcome = "ok" \/ (at = 7 /\ at' = 7)
<1>1. /\ Len(Plan) = 7
      /\ PlanStage = "exec" <=> at = 5
      /\ PlanStage = "observe" <=> at = 6
      /\ PlanStage = "result" <=> at = 7
      /\ PlanStage = "open" <=> at = 3
      /\ PlanStage = "root" <=> at = 1
      /\ PlanStage \in Turns <=> at \in {1, 2, 4, 5}
  BY StagesOfRun
<1>2. PlanStage = "exec" => PlanStage \in Scripted
  BY DEF Scripted
<1>3. CASE CheckTurn
  BY <1>3 DEF CheckTurn, Go, Uncanceled
<1>4. CASE Followed
  BY <1>1, <1>2, <1>4 DEF Followed, Go, Uncanceled
<1>5. CASE ReadBack
  BY <1>1, <1>5 DEF TurnsKnow, ReadBack, NextStage, Go, Uncanceled
<1>6. CASE RootKnown
  BY <1>1, <1>6 DEF RootKnown, NextStage, Go, Uncanceled
<1>7. CASE OpenBridge
  BY <1>1, <1>7 DEF OpenBridge, NextStage, Go, Uncanceled
<1>8. CASE AwaitObservation
  BY <1>1, <1>8 DEF AwaitObservation, NextStage, Go, Uncanceled
<1>9. CASE ReadResult
  BY <1>1, <1>9 DEF ReadResult
<1>10. CASE AbortOperation \/ FailOperation
  BY <1>10 DEF AbortOperation, FailOperation, CloseBridge
<1>11. CASE Observed
  BY <1>11 DEF Observed
<1>12. CASE UNCHANGED sandboxVars
  BY <1>12 DEF sandboxVars, operationVars
<1> QED
  BY <1>3, <1>4, <1>5, <1>6, <1>7, <1>8, <1>9, <1>10, <1>11, <1>12 DEF QuietStep

LEMMA ExecTurnsGoOn ==
  ASSUME SandboxTypes, CallsEnd, TurnsGoOn, NEW n \in ExecTurns
  PROVE  n \in ExecTurns' /\ (session[n].calls # "none" => session'[n] = session[n])
<1>1. n \in 1..LastTurn /\ session[n].by = "us" /\ session[n].for = "exec"
  BY DEF ExecTurns
<1>2. n \in 1..LastTurn'
  BY <1>1, TurnIs DEF TurnsGoOn
<1> QED
  BY <1>1, <1>2 DEF ExecTurns, TurnsGoOn, CallsEnd

(* The runtime's steps leave what is known of the command. *)
LEMMA ExecKnowsOn ==
  ASSUME SandboxTypes, CallsEnd, TurnsGoOn, ExecKnows, UNCHANGED operationVars,
         ran # "none" => ran' # "none",
         ran' = "changed" => ran = "changed" \/ \E n \in ExecTurns : session'[n].calls = "other"
  PROVE  ExecKnows'
<1>1. \A n \in ExecTurns : n \in ExecTurns' /\ (session[n].calls # "none" => session'[n] = session[n])
  BY ExecTurnsGoOn
<1>2. UNCHANGED <<at, stand, known, observation, outcome>> /\ PreviousTurn' = PreviousTurn
  BY DEF operationVars, PreviousTurn
<1>3. /\ at = 5 /\ stand \in {"stream", "verify"} => PreviousTurn \in ExecTurns'
      /\ at = 5 /\ stand = "verify" => session'[PreviousTurn].calls = "exact"
  BY <1>1 DEF ExecKnows
<1>4. at > 5 => \E n \in ExecTurns' : session'[n].calls = "exact"
  BY <1>1 DEF ExecKnows
<1>5. ran' = "changed" => \E n \in ExecTurns' : session'[n].calls = "other"
  BY <1>1 DEF ExecKnows
<1> QED
  BY <1>2, <1>3, <1>4, <1>5 DEF ExecKnows

LEMMA ExecPostsSame ==
  ASSUME unserved' = unserved
  PROVE  ExecPosts' = ExecPosts
  BY DEF ExecPosts

LEMMA ExecPostsGrow ==
  ASSUME SandboxTypes, TurnsKnow, SendTurn
  PROVE  ExecPosts' = IF PlanStage = "exec" THEN ExecPosts \cup {Len(unserved) + 1} ELSE ExecPosts
<1>1. /\ Len(unserved) \in Nat /\ Len(unserved') = Len(unserved) + 1
      /\ unserved'[Len(unserved) + 1] = PlanStage
      /\ \A i \in 1..Len(unserved) : unserved'[i] = unserved[i]
  BY PostsAppend
<1>2. \A i : i \in 1..Len(unserved') <=> i \in 1..Len(unserved) \/ i = Len(unserved) + 1
  BY <1>1
<1>3. \A i : i \in ExecPosts' <=>
               i \in ExecPosts \/ (PlanStage = "exec" /\ i = Len(unserved) + 1)
  BY <1>1, <1>2 DEF ExecPosts
<1> QED
  BY <1>3

LEMMA ExecPostsShift ==
  ASSUME SandboxTypes, ServePost
  PROVE  /\ \A i \in ExecPosts' : i \in Nat \ {0} /\ i + 1 \in ExecPosts
         /\ unserved[1] = "exec" <=> 1 \in ExecPosts
<1>1. /\ unserved # <<>> /\ unserved' \in Seq(Turns) /\ Len(unserved') = Len(unserved) - 1
      /\ \A i \in 1..Len(unserved') : unserved'[i] = unserved[i + 1]
  BY PostServed
<1>2. Len(unserved) \in Nat /\ Len(unserved') \in Nat
  BY <1>1, LenProperties DEF SandboxTypes
<1>3. 1 \in 1..Len(unserved) /\ \A i \in 1..Len(unserved') : i + 1 \in 1..Len(unserved)
  BY <1>1, <1>2
<1> QED
  BY <1>1, <1>3 DEF ExecPosts

LEMMA RunQuietStep ==
  ASSUME SandboxTypes, TurnsKnow, task = "run", ExecOnce, ExecKnows, QuietStep
  PROVE  ExecOnce' /\ ExecKnows'
<1>1. at \in 1..7
  BY DEF ExecKnows
<1>2. /\ \/ /\ at' = at
            /\ \/ stand' = stand
               \/ stand = "begin" /\ stand' = "intent"
               \/ /\ stand = "stream" /\ stand' = "verify"
                  /\ at = 5 => session[PreviousTurn].calls = "exact"
         \/ /\ at' = at + 1 /\ at < 7 /\ stand' = "begin"
            /\ at = 5 => stand = "verify"
            /\ at = 6 => observation = "ok"
      /\ \/ observation' = observation
         \/ observation # "ok" /\ (observation' = "ok" => ran # "none")
         \/ at = 3 /\ at' = 4 /\ observation' = "pending"
      /\ outcome' = "ok" => outcome = "ok" \/ (at = 7 /\ at' = 7)
  BY <1>1, RunQuiet
<1>3. Quiet
  BY QuietIs
<1>4. ExecTurns' = ExecTurns /\ ExecPosts' = ExecPosts /\ PreviousTurn' = PreviousTurn
  BY <1>3, OursSame, TurnsUnchanged, ExecPostsSame DEF Quiet, PreviousTurn
<1>5. ExecOnce'
  BY <1>1, <1>2, <1>4 DEF ExecOnce
<1>6. at' \in 1..7 /\ (at' = 7 => observation' = "ok") /\ (outcome' = "ok" => at' = 7)
  BY <1>1, <1>2 DEF ExecKnows
<1>7. /\ at' = 5 /\ stand' \in {"stream", "verify"} => known # <<>> /\ PreviousTurn \in ExecTurns
      /\ at' = 5 /\ stand' = "verify" => session[PreviousTurn].calls = "exact"
  BY <1>1, <1>2 DEF ExecKnows
<1>8. at' > 5 => \E n \in ExecTurns : session[n].calls = "exact"
  BY <1>1, <1>2 DEF ExecKnows
<1>9. observation' = "ok" => ran # "none"
  BY <1>2 DEF ExecKnows
<1> QED
  BY <1>3, <1>4, <1>5, <1>6, <1>7, <1>8, <1>9 DEF ExecKnows, Quiet

LEMMA RunKnowsStep ==
  ASSUME SandboxTypes, TurnsKnow, CallsEnd, RunKnows, [SandboxNext]_sandboxVars
  PROVE  RunKnows'
<1>1. task' = task
  BY SandboxSteps, QuietIs, PostServed, OtherPosted, AgentDoes
     DEF SendTurn, LearnTurn, Uncanceled, ServeCancel, Acts, operationVars
<1> SUFFICES ASSUME task = "run", ExecOnce, ExecKnows
             PROVE  ExecOnce' /\ ExecKnows'
  BY <1>1 DEF RunKnows
<1>2. at \in 1..7 /\ LastTurn \in Nat /\ (PlanStage = "exec" <=> at = 5)
  BY TurnIs, StagesOfRun DEF ExecKnows
<1>3. CASE QuietStep
  BY <1>3, RunQuietStep
<1>4. CASE SendTurn
  <2>1. /\ session' = session /\ UNCHANGED <<at, known, ran, observation, outcome>>
        /\ stand = "intent" /\ stand' = "sent"
    BY <1>4 DEF SendTurn, Go
  <2>2. ExecTurns' = ExecTurns /\ PreviousTurn' = PreviousTurn
    BY <2>1, OursSame, TurnsUnchanged DEF PreviousTurn
  <2>3. ExecPosts' = IF PlanStage = "exec" THEN ExecPosts \cup {Len(unserved) + 1} ELSE ExecPosts
    BY <1>4, ExecPostsGrow
  <2>4. ExecOnce'
    BY <1>2, <2>1, <2>2, <2>3 DEF ExecOnce
  <2> QED
    BY <2>1, <2>2, <2>4 DEF ExecKnows
<1>5. CASE LearnTurn
  <2>1. /\ session' = session /\ unserved' = unserved
        /\ UNCHANGED <<at, ran, observation, outcome>>
        /\ stand = "sent" /\ stand' = "stream"
    BY <1>5 DEF LearnTurn, Go, runtimeVars, Uncanceled
  <2>2. ExecTurns' = ExecTurns /\ ExecPosts' = ExecPosts
    BY <2>1, OursSame, TurnsUnchanged, ExecPostsSame
  <2>3. PICK n \in 1..LastTurn :
          /\ session[n].by = "us" /\ session[n].for = PlanStage
          /\ Len(known) \in Nat /\ Len(known') = Len(known) + 1
          /\ known'[Len(known) + 1] = n /\ known' \in Seq(Nat)
    BY <1>5, KnownAppend
  <2>4. known' # <<>> /\ PreviousTurn' = n
    BY <2>3, EmptySeq DEF PreviousTurn
  <2>5. at = 5 => n \in ExecTurns
    BY <1>2, <2>3 DEF ExecTurns
  <2>6. ExecOnce'
    BY <1>2, <2>1, <2>2 DEF ExecOnce
  <2> QED
    BY <2>1, <2>2, <2>4, <2>5, <2>6 DEF ExecKnows
<1>6. ASSUME SameTurns, UNCHANGED <<operationVars, unserved>>
      PROVE  ExecOnce'
  <2>1. ExecTurns' = ExecTurns /\ ExecPosts' = ExecPosts /\ at' = at /\ stand' = stand
    BY <1>6, OursSame, ExecPostsSame DEF operationVars
  <2> QED
    BY <2>1 DEF ExecOnce
<1>7. CASE ServePost
  <2>1. /\ UNCHANGED <<ran, operationVars>>
        /\ \/ session' = session
           \/ /\ TurnsGoOn /\ LastTurn' = LastTurn + 1
              /\ session'[LastTurn + 1] = NewTurn("us", unserved[1])
              /\ \A n \in 1..LastTurn : session'[n] = session[n]
    BY <1>7, PostServed
  <2>2. TurnsGoOn
    BY <2>1, TurnsUnchanged DEF SameTurns
  <2>3. ExecKnows'
    BY <2>1, <2>2, ExecKnowsOn
  <2>4. /\ \A i \in ExecPosts' : i \in Nat \ {0} /\ i + 1 \in ExecPosts
        /\ unserved[1] = "exec" <=> 1 \in ExecPosts
    BY <1>7, ExecPostsShift
  <2>5. \/ ExecTurns' = ExecTurns
        \/ 1 \in ExecPosts /\ ExecTurns' = ExecTurns \cup {LastTurn + 1}
    <3>1. CASE session' = session
      BY <3>1, OursSame, TurnsUnchanged
    <3>2. CASE session' # session
      <4>1. session'[LastTurn + 1].by = "us" /\ session'[LastTurn + 1].for = unserved[1]
        BY <2>1, <3>2 DEF NewTurn
      <4> QED
        BY <1>2, <2>1, <2>4, <3>2, <4>1, OursGrow
    <3> QED
      BY <3>1, <3>2
  <2>6. 1 \in ExecPosts => ExecPosts' = {} /\ ExecTurns = {}
    <3>1. ASSUME 1 \in ExecPosts, NEW i \in ExecPosts' PROVE FALSE
      <4>1. i \in Nat \ {0} /\ i + 1 \in ExecPosts
        BY <2>4, <3>1
      <4>2. i + 1 = 1
        BY <3>1, <4>1 DEF ExecOnce
      <4> QED
        BY <4>1, <4>2
    <3> QED
      BY <3>1 DEF ExecOnce
  <2>7. /\ ExecPosts = {} => ExecPosts' = {}
        /\ \A i, k \in ExecPosts' : i = k
    <3>1. \A i, k \in ExecPosts' : i \in Nat /\ k \in Nat /\ i + 1 = k + 1
      BY <2>4 DEF ExecOnce
    <3> QED
      BY <2>4, <3>1
  <2>8. at' = at /\ stand' = stand
    BY <2>1 DEF operationVars
  <2>9. ExecOnce'
    BY <2>5, <2>6, <2>7, <2>8 DEF ExecOnce
  <2> QED
    BY <2>3, <2>9
<1>8. CASE ServeCancel
  <2>1. SameTurns /\ UNCHANGED <<operationVars, unserved, ran>>
    BY <1>8, TurnsCanceled, TurnsUnchanged DEF ServeCancel
  <2> QED
    BY <1>6, <2>1, ExecKnowsOn DEF SameTurns
<1>9. CASE OtherPosts
  <2>1. /\ UNCHANGED <<unserved, ran, operationVars>>
        /\ TurnsGoOn /\ LastTurn' = LastTurn + 1
        /\ session'[LastTurn + 1] = NewTurn("other", "other")
        /\ \A n \in 1..LastTurn : session'[n] = session[n]
    BY <1>9, OtherPosted
  <2>2. session'[LastTurn + 1].by = "other" /\ session'[LastTurn + 1].for = "other"
    BY <2>1 DEF NewTurn
  <2>3. ExecTurns' = ExecTurns /\ ExecPosts' = ExecPosts /\ at' = at /\ stand' = stand
    BY <1>2, <2>1, <2>2, OursGrow, ExecPostsSame DEF operationVars
  <2>4. ExecOnce'
    BY <2>3 DEF ExecOnce
  <2> QED
    BY <2>1, <2>4, ExecKnowsOn
<1>10. CASE AgentActs
  <2>1. /\ SameTurns /\ UNCHANGED <<operationVars, unserved>>
        /\ ran # "none" => ran' # "none"
        /\ ran' = "changed" => ran = "changed" \/ \E n \in ExecTurns : session'[n].calls = "other"
    BY <1>10, AgentDoes DEF Acts
  <2> QED
    BY <1>6, <2>1, ExecKnowsOn DEF SameTurns
<1> QED
  BY <1>3, <1>4, <1>5, <1>7, <1>8, <1>9, <1>10, SandboxSteps

-----------------------------------------------------------------------------
(* The sandbox runner: the theorems *)

LEMMA SandboxStep ==
  ASSUME SandboxInv, [SandboxNext]_sandboxVars
  PROVE  SandboxInv'
  BY TypesStep, TurnsKnowStep, PostsCountStep, CallsEndStep, RunKnowsStep, StoppedStep DEF SandboxInv

(* RepairSandboxRunner, src/repair/sandbox.ts: whatever the agent, the      *)
(* others in the session and the network do, the runner's turns and posts   *)
(* are those it knows but for one, and the turn of its command is one.      *)
THEOREM SandboxInvariant == SandboxSpec => []SandboxInv
<1>1. SandboxInit => SandboxInv
  BY SandboxStarts
<1>2. SandboxInv /\ [SandboxNext]_sandboxVars => SandboxInv'
  BY SandboxStep
<1> QED
  BY <1>1, <1>2, PTL DEF SandboxSpec

LEMMA CountAccounts == ASSUME SandboxInv PROVE PostsAccounted
<1>1. /\ Len(known) \in Nat /\ Len(unserved) \in Nat /\ Cardinality(Ours) \in Nat
      /\ Len(unserved) + Cardinality(Ours) <= Len(known) + (IF stand = "sent" THEN 1 ELSE 0)
  BY LenProperties, FS_CardinalityType DEF SandboxInv, SandboxTypes, PostsCount
<1>2. Len(unserved) + Cardinality(Ours) <= Len(known) + 1
  BY <1>1
<1> QED
  BY <1>2 DEF PostsAccounted, Ours

(* turn: the intent is recorded before a post and the turn's name after it, *)
(* so the session never holds two turns, served or to be served, that the   *)
(* operation does not know, however late or never a post is served.         *)
THEOREM PostedOnce == SandboxSpec => []PostsAccounted
<1>1. SandboxInv => PostsAccounted
  BY CountAccounts
<1> QED
  BY <1>1, SandboxInvariant, PTL

(* fail: an operation that dispatched anything cancels the session, and a   *)
(* cancellation that is served stops every turn the operation knows: no     *)
(* turn is known that starts again or comes after it.                       *)
THEOREM KnownStopped == SandboxSpec => []KnownTurnsStopped
<1>1. SandboxInv => KnownTurnsStopped
  BY DEF SandboxInv
<1> QED
  BY <1>1, SandboxInvariant, PTL

LEMMA KnowsGiven == ASSUME SandboxInv PROVE ResultIsGiven
<1> SUFFICES ASSUME outcome = "ok", task = "run" PROVE ran = "given" /\ observation = "ok"
  BY DEF ResultIsGiven
<1>1. ExecOnce /\ ExecKnows /\ SandboxTypes /\ at = 7
  BY DEF SandboxInv, RunKnows, ExecKnows
<1>2. observation = "ok" /\ ran \in {"given", "changed"}
  BY <1>1 DEF ExecKnows, SandboxTypes
<1>3. \E n \in ExecTurns : session[n].calls = "exact"
  BY <1>1 DEF ExecKnows
<1>4. ran # "changed"
  BY <1>1, <1>3 DEF ExecOnce, ExecKnows
<1> QED
  BY <1>2, <1>4

(* run: a result is of a command that ran on the files that were given and  *)
(* that the oracle observed.  The command has one turn, since a post is     *)
(* never repeated, and that turn called exactly the command: an agent that  *)
(* ran it on other files made other calls in that turn.                     *)
THEOREM ResultAsGiven == SandboxSpec => []ResultIsGiven
<1>1. SandboxInv => ResultIsGiven
  BY KnowsGiven
<1> QED
  BY <1>1, SandboxInvariant, PTL
=============================================================================
