---------------------------- MODULE RepairSandbox ----------------------------
(***************************************************************************)
(* One operation of RepairSandboxRunner, src/repair/sandbox.ts: `prepare'  *)
(* has the agent edit the checkout in the runtime's sandbox, `run' runs a  *)
(* fixed command on given files there while a bridge lets the oracle       *)
(* observe it.  Either is a chain of turns of one runtime session.         *)
(*                                                                         *)
(* Every turn is checked, recorded, posted, recorded again, followed and   *)
(* inspected; what it should have stored is downloaded and compared.  The  *)
(* agent may do otherwise than it is told, others may post to the session, *)
(* the operation may be aborted at any time, and the runtime may serve a   *)
(* request late or never.  A file is what it should be or it is not: the   *)
(* hashes the code compares are that.  The optional setup commands, which  *)
(* the coordinator does not use, are left out.                             *)
(***************************************************************************)
EXTENDS Integers, Sequences, FiniteSets

CONSTANT MaxOther   \* bound on the turns others post to the session

ASSUME SandboxAssumption == MaxOther \in Nat

VARIABLES
  task,        \* "prepare" or "run"
  at,          \* the stage of the plan it is at
  stand,       \* where it is in that stage
  aborted,     \* operation.signal
  dispatched,  \* operation.dispatched
  known,       \* operation.turns
  session,     \* the runtime: the turns of the session, oldest first
  unserved,    \* the runtime: the turns posted and not served
  cancel,      \* the runtime: the last request to cancel the session
  box,         \* the sandbox
  ran,         \* history: the files the command ran on
  bridge, observation,
  outcome

operationVars == <<task, at, stand, aborted, dispatched, known, bridge, observation, outcome>>
runtimeVars == <<session, unserved, cancel, box, ran>>
sandboxVars == <<operationVars, runtimeVars>>

-----------------------------------------------------------------------------

(* `root' initializes a session that has no sandbox yet; an `upload' stores *)
(* the script that the next stage executes.                                *)
Plan ==
  IF task = "prepare"
  THEN <<"root", "transfer", "upload", "stage", "result", "edit", "upload", "snapshot", "result">>
  ELSE <<"root", "transfer", "open", "upload", "exec", "observe", "result">>
PlanStage == Plan[at]
Scripted == {"stage", "exec", "snapshot"}
Turns == {"root", "transfer", "upload", "edit"} \cup Scripted

(* A turn: who posted it and for what, its state, the tools it called (no  *)
(* tool, exactly the expected command with exit code 0, or anything else). *)
SandboxTurn == [by : {"us", "other"}, for : Turns \cup {"other"},
         state : {"running", "done", "paused", "error"},
         calls : {"none", "exact", "other"}]
NewTurn(by, for) == [by |-> by, for |-> for, state |-> "running", calls |-> "none"]

(* The uploaded archive and script, the workspace, and its last snapshot.  *)
(* Edits confined to source files are told from other changes.             *)
Upload == {"none", "intact", "changed"}
Files == {"none", "given", "edited", "changed"}
Box == [made : BOOLEAN, archive : Upload, script : Upload, files : Files, snapshot : Files]

LastTurn == Len(session)
PreviousTurn == IF known = <<>> THEN 1 ELSE known[Len(known)]
Go(next) == stand' = next
NextStage == at' = at + 1 /\ Go("begin")
Running == outcome = "none"
Uncanceled == UNCHANGED <<aborted, task, dispatched, outcome>>

-----------------------------------------------------------------------------
(* The operation *)

(* turn: only after the session's newest turn, which must be finished.     *)
CheckTurn ==
  /\ Running /\ PlanStage \in Turns /\ stand = "begin" /\ ~ aborted
  /\ PlanStage = "root" => ~ box.made
  /\ LastTurn = PreviousTurn /\ session[LastTurn].state \in {"done", "error"}
  /\ Go("intent")
  /\ UNCHANGED <<at, known, bridge, observation, runtimeVars>> /\ Uncanceled

(* Mutant: a post that is not answered is sent again. *)
SendTurnAgain ==
  /\ Running /\ stand \in {"intent", "sent"} /\ ~ aborted /\ Len(unserved) < 2
  /\ dispatched' = TRUE
  /\ unserved' = Append(unserved, PlanStage)
  /\ Go("sent")
  /\ UNCHANGED <<task, at, aborted, known, bridge, observation, outcome,
                 session, cancel, box, ran>>

(* onState(null) has recorded the intent. *)
SendTurn ==
  /\ Running /\ stand = "intent" /\ ~ aborted
  /\ dispatched' = TRUE
  /\ unserved' = Append(unserved, PlanStage)
  /\ Go("sent")
  /\ UNCHANGED <<task, at, aborted, known, bridge, observation, outcome,
                 session, cancel, box, ran>>

(* The answer names the turn; onState(turnId) records it. *)
LearnTurn ==
  /\ Running /\ stand = "sent"
  /\ \E n \in 1..LastTurn :
       /\ session[n].by = "us" /\ session[n].for = PlanStage
       /\ \A i \in 1..Len(known) : known[i] < n
       /\ known' = Append(known, n)
  /\ Go("stream")
  /\ UNCHANGED <<at, bridge, observation, runtimeVars>> /\ Uncanceled

(* Mutant: a turn is judged by its state only. *)
FollowedAnyCalls ==
  /\ Running /\ stand = "stream"
  /\ session[PreviousTurn].state = "done"
  /\ Go("verify")
  /\ UNCHANGED <<at, known, bridge, observation, runtimeVars>> /\ Uncanceled

(* The stream has ended; receipts, then the turn's state. *)
Followed ==
  LET turn == session[PreviousTurn] IN
  /\ Running /\ stand = "stream"
  /\ PlanStage \in {"root", "transfer", "upload"} => turn.calls = "none"
  /\ PlanStage \in Scripted => turn.calls = "exact"
  /\ turn.state = "done"
  /\ Go("verify")
  /\ UNCHANGED <<at, known, bridge, observation, runtimeVars>> /\ Uncanceled

(* What was uploaded is read back, a script also after its execution. *)
ReadBack ==
  /\ Running /\ stand = "verify" /\ ~ aborted
  /\ PlanStage = "root" => box.made
  /\ PlanStage = "transfer" => box.archive = "intact"
  /\ PlanStage \in {"upload"} \cup Scripted => box.script = "intact"
  /\ NextStage
  /\ UNCHANGED <<known, bridge, observation, runtimeVars>> /\ Uncanceled

RootKnown ==
  /\ Running /\ PlanStage = "root" /\ stand = "begin" /\ box.made
  /\ NextStage
  /\ UNCHANGED <<known, bridge, observation, runtimeVars>> /\ Uncanceled

OpenBridge ==
  /\ Running /\ PlanStage = "open" /\ ~ aborted
  /\ bridge' = "open" /\ observation' = "pending"
  /\ NextStage
  /\ UNCHANGED <<known, runtimeVars>> /\ Uncanceled

AwaitObservation ==
  /\ Running /\ PlanStage = "observe" /\ observation = "ok"
  /\ NextStage
  /\ UNCHANGED <<known, bridge, observation, runtimeVars>> /\ Uncanceled

(* result: every file of the snapshot is as it was given, but for the      *)
(* sources after the agent's edits.                                        *)
Acceptable == IF task = "prepare" /\ at = Len(Plan) THEN {"given", "edited"} ELSE {"given"}

ReadResult ==
  /\ Running /\ PlanStage = "result" /\ ~ aborted
  /\ box.snapshot \in Acceptable
  /\ IF at < Len(Plan) THEN NextStage /\ UNCHANGED <<bridge, outcome>>
     ELSE /\ outcome' = "ok" /\ bridge' = "closed"
          /\ UNCHANGED <<at, stand>>
  /\ UNCHANGED <<task, aborted, dispatched, known, observation, runtimeVars>>

CloseBridge ==
  /\ bridge' = IF bridge = "open" THEN "closed" ELSE bridge
  /\ observation' = IF observation = "pending" THEN "failed" ELSE observation
CancelSession == cancel' = IF dispatched THEN "sent" ELSE cancel

(* The owner, the deadline of the job or of the operation. *)
AbortOperation ==
  /\ Running /\ ~ aborted
  /\ aborted' = TRUE
  /\ CancelSession /\ CloseBridge
  /\ UNCHANGED <<task, at, stand, dispatched, known, outcome, session, unserved, box, ran>>

(* Mutant: only an abort cancels the session. *)
FailQuietly ==
  /\ Running
  /\ outcome' = "failed" /\ CloseBridge
  /\ UNCHANGED <<task, at, stand, aborted, dispatched, known, runtimeVars>>

(* Any await fails, or a check above does: the bridge is closed, and the   *)
(* session canceled once something was dispatched.                         *)
FailOperation ==
  /\ Running
  /\ outcome' = "failed" /\ CancelSession /\ CloseBridge
  /\ UNCHANGED <<task, at, stand, aborted, dispatched, known, session, unserved, box, ran>>

SandboxOperation ==
  \/ CheckTurn \/ SendTurn \/ LearnTurn \/ Followed \/ ReadBack
  \/ RootKnown \/ OpenBridge \/ AwaitObservation \/ ReadResult \/ AbortOperation \/ FailOperation

-----------------------------------------------------------------------------
(* The oracle's observation, which closes the bridge when it ends *)

Observed ==
  /\ observation = "pending" /\ ran # "none"
  /\ observation' \in {"ok", "failed"} /\ bridge' = "closed"
  /\ UNCHANGED <<task, at, stand, aborted, dispatched, known, outcome, runtimeVars>>

-----------------------------------------------------------------------------
(* The runtime *)

ServePost ==
  /\ unserved # <<>>
  /\ \/ session' = Append(session, NewTurn("us", Head(unserved)))
     \/ UNCHANGED session
  /\ unserved' = Tail(unserved)
  /\ UNCHANGED <<cancel, box, ran, operationVars>>

ServeCancel ==
  /\ cancel = "sent"
  /\ \/ /\ cancel' = "served"
        /\ session' = [n \in 1..LastTurn |->
             IF session[n].state = "running" THEN [session[n] EXCEPT !.state = "error"]
             ELSE session[n]]
     \/ cancel' = "lost" /\ UNCHANGED session
  /\ UNCHANGED <<unserved, box, ran, operationVars>>

OtherPosts ==
  /\ Len(SelectSeq(session, LAMBDA turn : turn.by = "other")) <= MaxOther
  /\ session' = Append(session, NewTurn("other", "other"))
  /\ UNCHANGED <<unserved, cancel, box, ran, operationVars>>

Turned(n, state, tools) ==
  /\ session[n].state = "running"
  /\ session' = [session EXCEPT ![n].state = state, ![n].calls = tools]
  /\ UNCHANGED <<unserved, cancel, operationVars>>

(* The agent stores what it is sent, or runs the script. *)
Stores(n) ==
  /\ Turned(n, "done", "none")
  /\ box' = CASE session[n].for = "root" -> [box EXCEPT !.made = TRUE]
             [] session[n].for = "transfer" -> [box EXCEPT !.archive = "intact"]
             [] session[n].for = "upload" -> [box EXCEPT !.script = "intact"]
             [] OTHER -> box
  /\ UNCHANGED ran

Unpacks == box.archive = "intact" /\ box.script = "intact" /\ box.files = "none"

Stages(n) ==
  /\ session[n].for = "stage" /\ Turned(n, "done", "exact")
  /\ Unpacks
  /\ box' = [box EXCEPT !.files = "given", !.snapshot = "given"]
  /\ UNCHANGED ran

Snapshots(n) ==
  /\ session[n].for = "snapshot" /\ Turned(n, "done", "exact")
  /\ box.script = "intact"
  /\ box' = [box EXCEPT !.snapshot = box.files]
  /\ UNCHANGED ran

RunsCommand(n) ==
  /\ session[n].for = "exec" /\ session[n].state = "running" /\ ran = "none"
  /\ Unpacks
  /\ box' = [box EXCEPT !.files = "given"] /\ ran' = "given"
  /\ UNCHANGED <<session, unserved, cancel, operationVars>>

(* The command ends when the bridge is closed, or on its own; it may have  *)
(* written to its files.                                                   *)
CommandEnds(n) ==
  /\ session[n].for = "exec" /\ ran # "none"
  /\ \/ bridge # "open" /\ Turned(n, "done", "exact")
     \/ Turned(n, "done", "other")
  /\ box' \in {[box EXCEPT !.snapshot = files] : files \in {box.files, "changed"}}
  /\ UNCHANGED ran

(* The agent edits, or does otherwise than it is told, with other tools.   *)
(* Others' turns do not know the operation's random names.                 *)
ActsFreely(n) ==
  /\ session[n].by = "us" /\ Turned(n, "done", "other")
  /\ \/ \E files \in {box.files, "edited", "changed"} : box' = [box EXCEPT !.files = files]
     \/ box' = [box EXCEPT !.archive = "changed", !.script = "changed"]
     \/ session[n].for = "exec" /\ box' = [box EXCEPT !.snapshot = "given"]
  /\ ran' \in IF session[n].for = "exec" THEN {ran, "changed"} ELSE {ran}

Breaks(n) ==
  /\ \E state \in {"paused", "error"} : Turned(n, state, "none")
  /\ UNCHANGED <<box, ran>>

Runtime ==
  \/ ServePost \/ ServeCancel \/ OtherPosts
  \/ \E n \in 1..LastTurn :
       \/ Stores(n) \/ Stages(n) \/ Snapshots(n) \/ RunsCommand(n) \/ CommandEnds(n)
       \/ ActsFreely(n) \/ Breaks(n)

-----------------------------------------------------------------------------

SandboxInit ==
  /\ task \in {"prepare", "run"}
  /\ at = 1 /\ stand = "begin" /\ aborted = FALSE /\ dispatched = FALSE /\ known = <<>>
  /\ \E state \in {"done", "paused", "error"} :
       session = <<[NewTurn("other", "other") EXCEPT !.state = state]>>
  /\ unserved = <<>> /\ cancel = "none"
  /\ \E made \in BOOLEAN :
       box = [made |-> made, archive |-> "none", script |-> "none", files |-> "none",
              snapshot |-> "none"]
  /\ ran = "none" /\ bridge = "none" /\ observation = "none" /\ outcome = "none"

SandboxNext == SandboxOperation \/ Observed \/ Runtime

SandboxSpec == SandboxInit /\ [][SandboxNext]_sandboxVars

-----------------------------------------------------------------------------
(* Properties *)

(* A result of `run' is about the files that were given: the command ran   *)
(* on them and the oracle observed it, whatever the agent does besides     *)
(* what it is told.                                                        *)
ResultIsGiven == outcome = "ok" /\ task = "run" => ran = "given" /\ observation = "ok"

(* No turn is posted twice: of the operation's turns, those the session    *)
(* has and those whose post is yet to be served, all but one are known to  *)
(* the operation.                                                          *)
PostsAccounted ==
  LET ours == {n \in 1..LastTurn : session[n].by = "us"} IN
  Len(unserved) + Cardinality(ours) <= Len(known) + 1

(* A failed operation leaves none of the turns it knows running, unless    *)
(* its request to cancel the session was lost.                             *)
KnownTurnsStopped ==
  outcome = "failed" /\ cancel \notin {"sent", "lost"} =>
    \A i \in 1..Len(known) : session[known[i]].state # "running"
=============================================================================
