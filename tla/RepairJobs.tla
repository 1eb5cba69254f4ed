----------------------------- MODULE RepairJobs -----------------------------
(***************************************************************************)
(* The repair coordinator of one run, apps/worker/src/repairs.ts, over the *)
(* repair store: repair jobs, the owner's request and decision to publish, *)
(* their recovery after a restart, and the tool call that publishes, whose *)
(* requests to GitHub are the subject of RepairPublication.                *)
(*                                                                         *)
(* All of it continues one runtime session.  A turn of it is posted after  *)
(* a turn the caller takes for the newest, but the check and the post are  *)
(* two requests; the runtime may serve a post at any later time, or never, *)
(* whether or not its caller waits for the answer.  One call of the        *)
(* sandbox runner is one turn here.                                        *)
(* The worker's thread runs from one await to the next; what it stores in  *)
(* between is one action unless it is two transactions, between which the  *)
(* worker may die: the thread is then held (`Held').                       *)
(*                                                                         *)
(* The finding under repair is one.  The deadline of a job and its owner's *)
(* cancellation abort its signal, which only makes one of its awaits or of *)
(* its next checks fail: both are JobFails.                                *)
(***************************************************************************)
EXTENDS RepairStore, FiniteSets, Sequences

CONSTANTS
  MaxTurn,   \* bound on the turns of the session
  MaxDeath,  \* bound on the deaths of the worker
  Patch      \* the content and text the coordinator proposes

ASSUME JobsAssumption ==
  /\ MaxTurn \in Nat /\ MaxDeath \in Nat
  /\ Patch.content \in Content /\ Patch.text \in Text /\ Patch.finding \in Finding
  /\ Attempt = {1, 2} /\ "local_replay" \in Mode

VARIABLES
  jobs,      \* documents repair-job
  indexed,   \* documents repair-job-index, from which the recovery starts
  asked,     \* documents repair-publication-intent: the turn it continues
  answered,  \* documents repair-publication-decision-intent, the same
  shown,     \* documents repair-publication-runtime
  turns,     \* the runtime session: its turns, oldest first
  posted,    \* the posts that it has not served
  consent,   \* the project's consent to the model is in force
  starts,    \* the calls of start at work, with the turn they look at
  work,      \* where each job's perform is
  calls,     \* where each job's locked publication call is
  watchers,  \* the publication turns that are watched
  worker, deaths

jobDocs == <<jobs, indexed, asked, answered, shown>>
runtime == <<turns, posted, consent>>
memory == <<starts, work, calls, watchers>>
process == <<worker, deaths>>
coordinator == <<jobDocs, runtime, memory, process>>
jobsVars == <<repairVars, coordinator>>

-----------------------------------------------------------------------------
(* Records *)

JobId == {1, 2}            \* at most two jobs; a job's id is its attempt
Phase == {"prepare", "before", "after"}

Job == [state : {"absent", "preparing", "testing", "verified_local", "abandoned"},
        turn : 0..MaxTurn, proposal : {0} \cup Attempt]
NoJob == [state |-> "absent", turn |-> 0, proposal |-> 0]
Unfinished(j) == jobs[j].state \in {"preparing", "testing"}
Existing == {j \in JobId : jobs[j].state # "absent"}
ProposalOf(j) == <<Patch.finding, jobs[j].proposal>>
SetJob(j, job) == jobs' = [jobs EXCEPT ![j] = job]

Turn == [after : 0..MaxTurn, kind : {"run", "work", "ask", "allow", "deny"}, job : {0} \cup JobId,
         state : {"running", "approval", "done", "error"}]
Newest == Len(turns)
TurnsOf(j, kinds) == {n \in 1..Newest : turns[n].job = j /\ turns[n].kind \in kinds}
Continuations(n) == {m \in 1..Newest : turns[m].after = n}
Post(j, kind, after) ==
  /\ Newest + Cardinality(posted) < MaxTurn
  /\ posted' = posted \cup {[after |-> after, kind |-> kind, job |-> j, state |-> "running"]}
  /\ UNCHANGED turns

Shown == [turn : 0..MaxTurn, status : {"none", "running", "approval", "done", "error"},
          unknown : BOOLEAN]
Show(j, turn, status, unknown) ==
  shown' = [shown EXCEPT ![j] = [turn |-> turn, status |-> status, unknown |-> unknown]]

Idle == [phase |-> "idle", step |-> "none"]
At(j, phase, step) == work[j].phase = phase /\ work[j].step = step
Work(j, phase, step) == work' = [work EXCEPT ![j] = [phase |-> phase, step |-> step]]
Call(j, stage) == calls' = [calls EXCEPT ![j] = stage]

(* Between two transactions that no await separates. *)
Held ==
  \/ \E j \in JobId : work[j].step \in {"created", "proposed", "recorded"}
  \/ \E j \in JobId : calls[j] \in {"requested", "allowed", "denied", "tracked"}
Free == worker # "down" /\ ~ Held
Serving == worker = "up" /\ Free

-----------------------------------------------------------------------------
(* start *)

(* Mutant: a second start enters while the first one is still reading. *)
StartUnlocked ==
  /\ Serving /\ consent /\ Cardinality(starts) < 2
  /\ starts' = starts \cup {[call |-> Cardinality(starts) + 1, turn |-> 0]}
  /\ UNCHANGED <<jobDocs, runtime, work, calls, watchers, process>> /\ UNCHANGED repairVars

Start ==
  /\ Serving /\ consent /\ starts = {}
  /\ starts' = {[call |-> 1, turn |-> 0]}
  /\ UNCHANGED <<jobDocs, runtime, work, calls, watchers, process>> /\ UNCHANGED repairVars

(* The run's source is there: no job may be at work, one attempt must be   *)
(* left, and the session's last known turn is looked at.                   *)
StartChecks(s) ==
  /\ Serving /\ s.turn = 0
  /\ \A j \in Existing : ~ Unfinished(j)
  /\ Cardinality(Existing) < 2
  /\ starts' = (starts \ {s}) \cup
       {[s EXCEPT !.turn = IF Existing = {} THEN 1 ELSE jobs[Cardinality(Existing)].turn]}
  /\ UNCHANGED <<jobDocs, runtime, work, calls, watchers, process>> /\ UNCHANGED repairVars

(* The turn is done, or failed before it did anything (which its events    *)
(* tell: when they do not, the caller fails).                              *)
Usable(n) == turns[n].state \in {"done", "error"}

StartCreates(s) ==
  LET j == Cardinality(Existing) + 1 IN
  /\ Serving /\ s.turn # 0 /\ j \in JobId
  /\ Usable(s.turn)
  /\ SetJob(j, [NoJob EXCEPT !.state = "preparing", !.turn = s.turn])
  /\ Work(j, "prepare", "created")
  /\ starts' = starts \ {s}
  /\ UNCHANGED <<indexed, asked, answered, shown, runtime, calls, watchers, process>>
  /\ UNCHANGED repairVars

(* save puts the job, and then its index. *)
IndexJob(j) ==
  /\ At(j, "prepare", "created")
  /\ indexed' = indexed \cup {j}
  /\ Work(j, "prepare", "ready")
  /\ UNCHANGED <<jobs, asked, answered, shown, runtime, starts, calls, watchers, process>>
  /\ UNCHANGED repairVars

(* Any refusal, of capacity or of the oracle too. *)
StartFails(s) ==
  /\ Serving
  /\ starts' = starts \ {s}
  /\ UNCHANGED <<jobDocs, runtime, work, calls, watchers, process>> /\ UNCHANGED repairVars

Starts ==
  \/ Start \/ \E s \in starts : StartChecks(s) \/ StartCreates(s) \/ StartFails(s)
  \/ \E j \in JobId : IndexJob(j)

-----------------------------------------------------------------------------
(* perform: one turn of the runner per phase *)

PhaseStep(j, step, next) ==
  /\ Free /\ work[j].step = step
  /\ Work(j, work[j].phase, next)
  /\ UNCHANGED <<indexed, asked, answered, shown, consent, starts, calls, watchers, process>>
  /\ UNCHANGED repairVars

(* Plan, checkout and dependencies have been read; the runner asserts that *)
(* the job's turn is the session's newest.                                 *)
AssertLatest(j) ==
  /\ PhaseStep(j, "ready", "post")
  /\ Newest = jobs[j].turn /\ Usable(jobs[j].turn)
  /\ UNCHANGED <<jobs, turns, posted>>

(* onState(null): the signal and the oracle are checked, then it posts. *)
PostTurn(j) ==
  /\ PhaseStep(j, "post", "sent")
  /\ Post(j, "work", jobs[j].turn)
  /\ UNCHANGED jobs

(* onState(turnId) *)
TurnKnown(j) ==
  /\ PhaseStep(j, "sent", "runs")
  /\ \E n \in TurnsOf(j, {"work"}) :
       /\ n > jobs[j].turn /\ \A m \in TurnsOf(j, {"work"}) : m <= n
       /\ SetJob(j, [jobs[j] EXCEPT !.turn = n])
  /\ UNCHANGED <<turns, posted>>

TurnDone(j, phase) ==
  /\ Free /\ At(j, phase, "runs")
  /\ turns[jobs[j].turn].state = "done"
  /\ UNCHANGED <<indexed, asked, answered, shown, runtime, starts, calls, watchers, process>>

(* The candidate's changes become a proposal, which the job then names. *)
Prepared(j) ==
  /\ TurnDone(j, "prepare")
  /\ Propose(<<Patch.finding, IF Exists(<<Patch.finding, 1>>) THEN 2 ELSE 1>>,
             Patch.content, "local_replay")
  /\ Work(j, "prepare", "proposed")
  /\ UNCHANGED jobs

SaveProposed(j) ==
  /\ At(j, "prepare", "proposed")
  /\ SetJob(j, [jobs[j] EXCEPT !.state = "testing",
                !.proposal = IF Exists(<<Patch.finding, 2>>) THEN 2 ELSE 1])
  /\ Work(j, "before", "ready")
  /\ UNCHANGED <<indexed, asked, answered, shown, runtime, starts, calls, watchers, process>>
  /\ UNCHANGED repairVars

(* The original failure is reproduced by the unchanged application. *)
Reproduced(j) ==
  /\ TurnDone(j, "before")
  /\ Work(j, "after", "ready")
  /\ UNCHANGED <<jobs, repairVars>>

(* The changed one passes: the verification is recorded, and then the job. *)
Passed(j) ==
  /\ TurnDone(j, "after")
  /\ RecordVerification(ProposalOf(j),
       [content |-> Patch.content, reproduced |-> TRUE, passed |-> TRUE, at |-> now])
  /\ Work(j, "after", "recorded")
  /\ UNCHANGED jobs

JobEnds(j, state) ==
  /\ SetJob(j, [jobs[j] EXCEPT !.state = state])
  /\ work' = [work EXCEPT ![j] = Idle]
  /\ UNCHANGED <<indexed, asked, answered, shown, runtime, starts, calls, watchers, process>>
  /\ UNCHANGED repairVars

SaveVerified(j) == work[j].step = "recorded" /\ JobEnds(j, "verified_local")

(* An error anywhere else: an aborted signal, a changed oracle, a lost     *)
(* post, a failed turn, an empty change, a failure that is not reproduced  *)
(* or not repaired.                                                        *)
JobFails(j) == Free /\ work[j].phase # "idle" /\ JobEnds(j, "abandoned")

Perform(j) ==
  \/ AssertLatest(j) \/ PostTurn(j) \/ TurnKnown(j)
  \/ Prepared(j) \/ SaveProposed(j) \/ Reproduced(j) \/ Passed(j) \/ SaveVerified(j)
  \/ JobFails(j)

-----------------------------------------------------------------------------
(* The documents of a publication *)

(* trackPublication: the job is saved, then its turn is shown and watched. *)
Track(j, n) ==
  /\ SetJob(j, [jobs[j] EXCEPT !.turn = n])
  /\ Call(j, "tracked")

ShowTracked(j) ==
  /\ calls[j] = "tracked"
  /\ Show(j, jobs[j].turn, "running", FALSE)
  /\ watchers' = watchers \cup {<<j, jobs[j].turn>>}
  /\ Call(j, "idle")
  /\ UNCHANGED <<jobs, indexed, asked, answered, runtime, starts, work, process>>
  /\ UNCHANGED repairVars

(* recoverPublication reads the decision's intent before the request's. *)
Previous(j) == IF answered[j] # 0 THEN answered[j] ELSE asked[j]

(* Without consent the publication's turn is canceled, not recovered.      *)
RecoverRefused(j) ==
  /\ Free /\ calls[j] = "recover" /\ ~ consent
  /\ Show(j, jobs[j].turn, "error", FALSE)
  /\ Call(j, "idle")
  /\ UNCHANGED <<jobs, indexed, asked, answered, runtime, starts, work, watchers, process>>
  /\ UNCHANGED repairVars

(* A turn that is known is watched again; otherwise it is looked for. *)
RecoverKnown(j) ==
  /\ Free /\ calls[j] = "recover" /\ consent
  /\ IF shown[j].status # "none" /\ shown[j].turn # Previous(j)
     THEN watchers' = watchers \cup {<<j, shown[j].turn>>} /\ Call(j, "idle")
     ELSE Call(j, "find") /\ UNCHANGED watchers
  /\ UNCHANGED <<jobDocs, runtime, starts, work, process>> /\ UNCHANGED repairVars

(* Mutant: an absent continuation is sent again. *)
FindOrSend(j) ==
  /\ Free /\ calls[j] = "find"
  /\ IF Continuations(Previous(j)) = {}
     THEN Call(j, "post") /\ UNCHANGED jobs
     ELSE \E n \in Continuations(Previous(j)) : Track(j, n)
  /\ UNCHANGED <<indexed, asked, answered, shown, runtime, starts, work, watchers, process>>
  /\ UNCHANGED repairVars

(* findContinuation: reads only.  A read may fail, and more than one       *)
(* continuation is a failure.                                              *)
Find(j) ==
  LET found == Continuations(Previous(j)) IN
  /\ Free /\ calls[j] = "find"
  /\ \/ Cardinality(found) = 1 /\ (\E n \in found : Track(j, n)) /\ UNCHANGED shown
     \/ found = {} /\ Show(j, Previous(j), "error", TRUE) /\ Call(j, "idle") /\ UNCHANGED jobs
     \/ Show(j, Previous(j), "error", FALSE) /\ Call(j, "idle") /\ UNCHANGED jobs
  /\ UNCHANGED <<indexed, asked, answered, runtime, starts, work, watchers, process>>
  /\ UNCHANGED repairVars

(* watchPublication ends: the turn is read once more, or that fails too.   *)
(* Nothing is written for a turn that is no longer the one shown.          *)
WatchEnds(w) ==
  LET j == w[1] n == w[2] IN
  /\ Free
  /\ watchers' = watchers \ {w}
  /\ IF shown[j].turn # n THEN UNCHANGED shown
     ELSE \/ Show(j, n, IF turns[n].state = "running" THEN "error" ELSE turns[n].state, FALSE)
          \/ Show(j, n, "error", FALSE)
  /\ UNCHANGED <<jobs, indexed, asked, answered, runtime, starts, work, calls, process>>
  /\ UNCHANGED repairVars

-----------------------------------------------------------------------------
(* requestPublication and decidePublication, one at a time for each job *)

Locked(j, stage, next) ==
  /\ Free /\ calls[j] = stage
  /\ Call(j, next)
  /\ UNCHANGED <<consent, starts, work, process>>

(* The approval is requested of the store before its intent is a document; *)
(* if only the former was done, the store returns the approval it has.     *)
Request(j) ==
  LET p == ProposalOf(j) IN
  /\ Serving /\ consent /\ jobs[j].state = "verified_local"
  /\ asked[j] = 0
  /\ Locked(j, "idle", "requested")
  /\ \/ RequestPublication(p, Patch.text)
     \/ /\ proposals[p].approval.decision = "pending" /\ now < proposals[p].approval.expiresAt
        /\ UNCHANGED repairVars
  /\ UNCHANGED <<jobDocs, turns, posted, watchers>>

RequestAgain(j) ==
  /\ Serving /\ consent /\ jobs[j].state = "verified_local"
  /\ asked[j] # 0
  /\ Locked(j, "idle", "recover")
  /\ UNCHANGED <<jobDocs, turns, posted, watchers>> /\ UNCHANGED repairVars

NoteRequest(j) ==
  /\ calls[j] = "requested"
  /\ asked' = [asked EXCEPT ![j] = jobs[j].turn]
  /\ Call(j, "check")
  /\ UNCHANGED <<jobs, indexed, answered, shown, runtime, starts, work, watchers, process>>
  /\ UNCHANGED repairVars

(* The owner decides while the shown turn waits at the publish tool.  The  *)
(* gate is read from the runtime after shown is; a shown approval's turn   *)
(* stays at its gate until it is continued.  A decision the store has but  *)
(* no document does may be made again.                                     *)
Decide(j, decision) ==
  LET p == ProposalOf(j) IN
  /\ Serving /\ consent
  /\ jobs[j].proposal # 0 /\ shown[j].status = "approval" /\ answered[j] = 0
  /\ turns[shown[j].turn].state = "approval"
  /\ Locked(j, "idle", IF decision = "allow" THEN "allowed" ELSE "denied")
  /\ \/ DecidePublication(p, p, decision)
     \/ proposals[p].approval.decision = decision /\ UNCHANGED repairVars
  /\ UNCHANGED <<jobDocs, turns, posted, watchers>>

(* The same decision again is only recovered; the other one is rejected. *)
DecideAgain(j) ==
  /\ Serving /\ consent /\ answered[j] # 0
  /\ Locked(j, "idle", "recover")
  /\ UNCHANGED <<jobDocs, turns, posted, watchers>> /\ UNCHANGED repairVars

NoteDecision(j) ==
  /\ calls[j] \in {"allowed", "denied"}
  /\ answered' = [answered EXCEPT ![j] = shown[j].turn]
  /\ Call(j, "check")
  /\ UNCHANGED <<jobs, indexed, asked, shown, runtime, starts, work, watchers, process>>
  /\ UNCHANGED repairVars

(* continueTurn and continueApproval: the turn must be the newest.  A      *)
(* refusal goes the way of a lost answer, and then to the caller.          *)
CheckNewest(j) ==
  /\ \/ /\ Newest = Previous(j)
        /\ turns[Newest].state = IF answered[j] # 0 THEN "approval" ELSE "done"
        /\ Locked(j, "check", "post")
     \/ Locked(j, "check", "recover")
  /\ UNCHANGED <<jobDocs, turns, posted, watchers>> /\ UNCHANGED repairVars

Kind(j) == IF answered[j] = 0 THEN "ask" ELSE proposals[ProposalOf(j)].approval.decision

PostContinuation(j) ==
  /\ Locked(j, "post", "sent")
  /\ Post(j, Kind(j), Previous(j))
  /\ UNCHANGED <<jobDocs, watchers>> /\ UNCHANGED repairVars

Continued(j) ==
  /\ Locked(j, "sent", "tracked")
  /\ \E n \in TurnsOf(j, {Kind(j)}) : Track(j, n)
  /\ UNCHANGED <<indexed, asked, answered, shown, turns, posted, watchers>>
  /\ UNCHANGED repairVars

(* No answer arrives, or an error does. *)
Unanswered(j) ==
  /\ Locked(j, "sent", "recover")
  /\ UNCHANGED <<jobDocs, turns, posted, watchers>> /\ UNCHANGED repairVars

Publication(j) ==
  \/ Request(j) \/ RequestAgain(j) \/ NoteRequest(j)
  \/ (\E decision \in {"allow", "deny"} : Decide(j, decision)) \/ DecideAgain(j) \/ NoteDecision(j)
  \/ CheckNewest(j) \/ PostContinuation(j) \/ Continued(j) \/ ShowTracked(j) \/ Unanswered(j)
  \/ RecoverRefused(j) \/ RecoverKnown(j) \/ Find(j)

(* publishFromTool: the allowed turn calls the tool, which publishes.      *)
ToolPublishes(j, t) ==
  /\ Serving /\ consent
  /\ \E n \in TurnsOf(j, {"allow"}) : turns[n].state = "running"
  /\ ClaimPublication(ProposalOf(j), t, "github")
  /\ UNCHANGED coordinator

(* It ends, in this or in another process. *)
PublishEnds(j, t) ==
  /\ FinishPublication(ProposalOf(j), t) \/ ReleasePublication(ProposalOf(j), t)
  /\ UNCHANGED coordinator

-----------------------------------------------------------------------------
(* The runtime, the owner's consent, and the worker's death *)

ServeTurn(post) ==
  /\ posted' = posted \ {post} /\ turns' = Append(turns, post)
  /\ UNCHANGED <<jobDocs, consent, memory, process>> /\ UNCHANGED repairVars

(* A request's turn stops at the gate of the publish tool, unless the agent *)
(* does something else; continuing it takes the gate away.                  *)
TurnEnds(n) ==
  /\ turns[n].state = "running"
  /\ \E state \in IF turns[n].kind = "ask" THEN {"approval", "done", "error"}
                  ELSE {"done", "error"} : turns' = [turns EXCEPT ![n].state = state]
  /\ UNCHANGED <<jobDocs, posted, consent, memory, process>> /\ UNCHANGED repairVars

ConsentChanges ==
  /\ consent /\ consent' = FALSE
  /\ UNCHANGED <<jobDocs, turns, posted, memory, process>> /\ UNCHANGED repairVars

WorkerDies ==
  /\ worker # "down" /\ deaths < MaxDeath
  /\ worker' = "down" /\ deaths' = deaths + 1
  /\ starts' = {} /\ work' = [j \in JobId |-> Idle]
  /\ calls' = [j \in JobId |-> "idle"] /\ watchers' = {}
  /\ UNCHANGED <<jobDocs, runtime>> /\ UNCHANGED repairVars

(* recover takes the indexed jobs one after the other. *)
Boot ==
  /\ worker = "down"
  /\ worker' = "recovering"
  /\ calls' = [j \in JobId |-> IF j \in indexed THEN "boot" ELSE "idle"]
  /\ UNCHANGED <<jobDocs, runtime, starts, work, watchers, deaths>> /\ UNCHANGED repairVars

RecoversNext(j) ==
  /\ Free /\ calls[j] = "boot"
  /\ \A i \in JobId : i < j => calls[i] = "idle"
  /\ UNCHANGED <<indexed, asked, answered, shown, runtime, starts, work, watchers, process>>
  /\ UNCHANGED repairVars

RecoverUnfinished(j) ==
  /\ RecoversNext(j)
  /\ Unfinished(j)
  /\ SetJob(j, [jobs[j] EXCEPT !.state = "abandoned"])
  /\ Call(j, "idle")

RecoverFinished(j) ==
  /\ RecoversNext(j)
  /\ ~ Unfinished(j)
  /\ Call(j, IF Previous(j) = 0 THEN "idle" ELSE "recover")
  /\ UNCHANGED jobs

Recovered ==
  /\ worker = "recovering" /\ \A j \in JobId : calls[j] = "idle"
  /\ worker' = "up"
  /\ UNCHANGED <<jobDocs, runtime, memory, deaths>> /\ UNCHANGED repairVars

Recovery ==
  \/ Boot \/ Recovered \/ \E j \in JobId : RecoverUnfinished(j) \/ RecoverFinished(j)

-----------------------------------------------------------------------------

JobsInit ==
  /\ RepairInit
  /\ jobs = [j \in JobId |-> NoJob] /\ indexed = {}
  /\ asked = [j \in JobId |-> 0] /\ answered = [j \in JobId |-> 0]
  /\ shown = [j \in JobId |-> [turn |-> 0, status |-> "none", unknown |-> FALSE]]
  /\ turns = <<[after |-> 0, kind |-> "run", job |-> 0, state |-> "done"]>>
  /\ posted = {} /\ consent = TRUE
  /\ starts = {} /\ work = [j \in JobId |-> Idle]
  /\ calls = [j \in JobId |-> "idle"] /\ watchers = {}
  /\ worker = "up" /\ deaths = 0

JobsNext ==
  \/ Starts
  \/ \E j \in JobId : Perform(j) \/ Publication(j)
  \/ \E w \in watchers : WatchEnds(w)
  \/ \E j \in JobId, t \in Token : jobs[j].proposal # 0 /\ (ToolPublishes(j, t) \/ PublishEnds(j, t))
  \/ (\E post \in posted : ServeTurn(post)) \/ (\E n \in 1..Newest : TurnEnds(n))
  \/ ConsentChanges \/ WorkerDies \/ Recovery
  \/ Tick /\ UNCHANGED coordinator

JobsSpec == JobsInit /\ [][JobsNext]_jobsVars

-----------------------------------------------------------------------------
(* Properties *)

(* One job of a run is at work at a time, and a job that says so is: no    *)
(* interleaving of two starts, no cancellation and no restart leaves two   *)
(* jobs on one session, or an indexed document that waits for a job nobody *)
(* runs (one that died before it was indexed does, and blocks the others). *)
(* A verified job names a proposal whose verification is recorded, and no  *)
(* two jobs name one proposal.                                             *)
OneJobAtATime ==
  /\ Cardinality({j \in JobId : work[j].phase # "idle"}) <= 1
  /\ \A j \in JobId : work[j].phase # "idle" => Unfinished(j)
  /\ worker = "up" => \A j \in indexed : Unfinished(j) => work[j].phase # "idle"
  /\ \A j \in JobId :
       /\ jobs[j].state = "verified_local" => Verified(ProposalOf(j))
       /\ \A i \in JobId \ {j} : jobs[i].proposal = jobs[j].proposal => jobs[j].proposal = 0

(* The agent is asked to publish once, and told the owner's decision once, *)
(* at the gate it was asked to stop at, as the store recorded it: whatever *)
(* answers are lost and whenever the worker dies.                          *)
RuntimeToldOnce ==
  \A j \in JobId :
    /\ Cardinality(TurnsOf(j, {"ask"})) <= 1
    /\ Cardinality(TurnsOf(j, {"allow", "deny"})) <= 1
    /\ \A n \in TurnsOf(j, {"allow", "deny"}) :
         /\ turns[n].kind = proposals[ProposalOf(j)].approval.decision
         /\ turns[n].after \in TurnsOf(j, {"ask"})

(* What the owner is shown as the publication's turn is a turn that was    *)
(* posted for that publication.                                            *)
ShownIsPublication ==
  \A j \in JobId :
    shown[j].status \in {"running", "approval", "done"} =>
      shown[j].turn \in TurnsOf(j, {"ask", "allow", "deny"})
=============================================================================
