----------------------------- MODULE CodexBridge -----------------------------
(***************************************************************************)
(* The gateway that lets the runtime use a Codex subscription as its model *)
(* (src/integrations/codex-model.ts): requests take turns in               *)
(* SerialModelQueue, and each runs one or two generations, every one in a  *)
(* Codex process of its own (CodexClient, codex-subscription.ts).          *)
(*                                                                         *)
(* A request may be aborted at any time, by its caller or its deadline; a  *)
(* process may answer, fail, try again, exit or hang.  The contents of a   *)
(* generation are the try they are from and what kind of decision it is.   *)
(***************************************************************************)
EXTENDS Naturals, Sequences, FiniteSets, SequencesExt

CONSTANTS
  Completion,   \* the completion requests
  QueueLimit,   \* how many may wait
  MaxTry        \* bound on the tries the process makes of a turn

ASSUME GatewayAssumption == QueueLimit \in Nat /\ MaxTry \in Nat \ {0}

VARIABLES
  active, waiters,  \* SerialModelQueue
  handler,          \* the handler of each request: where it is
  interrupted,      \* the requests whose signal is aborted
  codex,            \* the client of the generation under way
  first,            \* the usage of the empty generation before it
  served            \* the answer of each request

gatewayVars == <<active, waiters, handler, interrupted, codex, first, served>>

(* exactExecContract: no exact instruction; its one command is still to be *)
(* proposed; it has been executed.                                         *)
Contract == {"free", "due", "executed"}
Decision == {"blank", "empty", "text", "command", "other-call"}

(* parseCodexDecision and decisionOutputSchema: what it accepts, and what  *)
(* it calls empty.  "blank" is no text at all, "empty" a decision without  *)
(* content and calls.                                                      *)
Accepts(allowed, decision) ==
  CASE allowed = "due" -> decision = "command"
    [] allowed = "executed" -> decision = "text"
    [] OTHER -> decision \notin {"blank", "empty"}
IsEmpty(allowed, decision) ==
  decision = "blank" \/ (decision = "empty" /\ allowed # "due")

(* What the client asks of the process, in order; "begin" stands for the   *)
(* four calls initialize, the first verification, config/read and          *)
(* thread/start, "turn" for the wait for the turn's end, and "verify" for  *)
(* the second verification.                                                *)
Stages == <<"begin", "turn/start", "turn", "verify", "generated">>
StageAfter(stage) == Stages[1 + CHOOSE i \in 1..4 : Stages[i] = stage]

NoOutput == [text |-> 0, usage |-> 0, decision |-> "blank"]
NoClient ==
  [stage |-> "none", child |-> "none", output |-> NoOutput, done |-> FALSE, try |-> 1]
Broken(client) == [NoClient EXCEPT !.stage = "failed", !.child = client.child]
NoAnswer == [text |-> 0, usage |-> 0]

Standing(r, place) == handler[r] = place
Generating == {r \in Completion : handler[r] \in {"generate", "again"}}
Listening == codex.stage \in {"turn/start", "turn"} /\ ~ codex.done

-----------------------------------------------------------------------------
(* SerialModelQueue *)

(* acquire, once the request has been read and is valid. *)
Acquire(r) ==
  /\ Standing(r, "idle")
  /\ IF ~ active
     THEN /\ active' = TRUE /\ handler' = [handler EXCEPT ![r] = "generate"]
          /\ UNCHANGED waiters
     ELSE /\ UNCHANGED active
          /\ IF Len(waiters) >= QueueLimit
             THEN handler' = [handler EXCEPT ![r] = "ended"] /\ UNCHANGED waiters
             ELSE /\ handler' = [handler EXCEPT ![r] = "waiting"]
                  /\ waiters' = Append(waiters, r)
  /\ UNCHANGED <<interrupted, codex, first, served>>

(* The handler ends and releases its turn, to the first that waits.        *)
ReleaseFrom(r) ==
  IF waiters = <<>>
  THEN /\ active' = FALSE /\ UNCHANGED waiters
       /\ handler' = [handler EXCEPT ![r] = "ended"]
  ELSE /\ UNCHANGED active /\ waiters' = Tail(waiters)
       /\ handler' = [handler EXCEPT ![r] = "ended",
                        ![Head(waiters)] = IF @ = "waiting" THEN "generate" ELSE @]

(* The caller has gone, or the 180 seconds are over. *)
AbortRequest(r) ==
  /\ handler[r] \in {"waiting", "generate", "again"} /\ r \notin interrupted
  /\ interrupted' = interrupted \cup {r}
  /\ IF Standing(r, "waiting")
     THEN /\ handler' = [handler EXCEPT ![r] = "ended"]
          /\ \E i \in DOMAIN waiters : waiters[i] = r /\ waiters' = RemoveAt(waiters, i)
          /\ UNCHANGED codex
     ELSE /\ codex' = IF codex.stage = "none" THEN codex ELSE Broken(codex)
          /\ UNCHANGED <<handler, waiters>>
  /\ UNCHANGED <<active, first, served>>

-----------------------------------------------------------------------------
(* CodexClient *)

Spawn(r) ==
  /\ r \in Generating /\ r \notin interrupted /\ codex.stage = "none"
  /\ codex' = [NoClient EXCEPT !.stage = "begin", !.child = "alive"]
  /\ UNCHANGED <<active, waiters, handler, interrupted, first, served>>

Clients(next) ==
  /\ codex' = next
  /\ UNCHANGED <<active, waiters, handler, interrupted, first, served>>

(* A response to the request the client is at; what it says is what is     *)
(* required, the subscription and its quota among it.                      *)
CodexResponds ==
  /\ codex.child = "alive" /\ codex.stage \in {"begin", "turn/start", "verify"}
  /\ Clients([codex EXCEPT !.stage = StageAfter(@)])

(* It is not, is unexpected or too long, asks for a tool, or is an error.  *)
CodexFails ==
  /\ codex.child = "alive" /\ codex.stage \notin {"failed", "generated"}
  /\ Clients(Broken(codex))

(* Notifications, which may come before the response to turn/start.        *)
ItemCompleted ==
  /\ codex.child = "alive" /\ Listening
  /\ \E decision \in Decision :
       Clients([codex EXCEPT !.output.text = codex.try, !.output.decision = decision])

TokenUsageUpdated ==
  /\ codex.child = "alive" /\ Listening
  /\ Clients([codex EXCEPT !.output.usage = codex.try])

(* Mutant: the text of the broken try stays until there is another. *)
RetriesKeepText ==
  /\ codex.child = "alive" /\ Listening /\ codex.try < MaxTry
  /\ Clients([codex EXCEPT !.try = @ + 1, !.output.usage = 0])

(* error with willRetry: the process starts the turn's stream again.       *)
Retries ==
  /\ codex.child = "alive" /\ Listening /\ codex.try < MaxTry
  /\ Clients([codex EXCEPT !.try = @ + 1, !.output = NoOutput])

TurnCompleted ==
  /\ codex.child = "alive" /\ Listening
  /\ Clients([codex EXCEPT !.done = TRUE])

TurnTaken ==
  /\ codex.stage = "turn" /\ codex.done /\ codex.child = "alive"
  /\ Clients([codex EXCEPT !.stage = StageAfter(@)])

CodexExits ==
  /\ codex.child = "alive"
  /\ LET next == IF codex.stage = "generated" THEN codex ELSE Broken(codex) IN
     Clients([next EXCEPT !.child = "dead"])

(* close: SIGTERM, and SIGKILL after two seconds. *)
CodexClosed ==
  /\ codex.child = "alive" /\ codex.stage \in {"failed", "generated"}
  /\ Clients([codex EXCEPT !.child = "dead"])

Serve == CodexResponds \/ ItemCompleted \/ TokenUsageUpdated \/ Retries \/ TurnCompleted \/ TurnTaken

-----------------------------------------------------------------------------
(* The handler of a request *)

(* The usage of both generations is counted, or none when one is unknown.  *)
CodexAnswer(r) ==
  [text |-> codex.output.text,
   usage |-> IF Standing(r, "again") /\ first = 0 THEN 0 ELSE codex.output.usage]

HandlerEnds(r, answer) ==
  /\ ReleaseFrom(r)
  /\ served' = [served EXCEPT ![r] = answer]
  /\ codex' = NoClient /\ first' = 0
  /\ UNCHANGED interrupted

HandlerRefused(r) ==
  /\ r \in Generating
  /\ \/ codex.stage = "none" /\ r \in interrupted
     \/ codex.child = "dead" /\ (codex.stage = "failed" \/ r \in interrupted)
  /\ HandlerEnds(r, NoAnswer)

(* An empty decision is generated once more, after which nothing is.       *)
GeneratesAgain(r) ==
  /\ handler' = [handler EXCEPT ![r] = "again"]
  /\ codex' = NoClient /\ first' = codex.output.usage
  /\ UNCHANGED <<active, waiters, interrupted, served>>

Generated(r) ==
  /\ r \in Generating /\ r \notin interrupted
  /\ codex.stage = "generated" /\ codex.child = "dead"
  /\ \E allowed \in Contract :
       LET decision == codex.output.decision IN
       IF Standing(r, "generate") /\ IsEmpty(allowed, decision) THEN GeneratesAgain(r)
       ELSE HandlerEnds(r, IF Accepts(allowed, decision) THEN CodexAnswer(r) ELSE NoAnswer)

-----------------------------------------------------------------------------

GatewayInit ==
  /\ active = FALSE /\ waiters = <<>>
  /\ handler = [r \in Completion |-> "idle"]
  /\ interrupted = {}
  /\ codex = NoClient /\ first = 0 /\ served = [r \in Completion |-> NoAnswer]

Handles == \E r \in Completion : Spawn(r) \/ HandlerRefused(r) \/ Generated(r)
Aborts == \E r \in Completion : AbortRequest(r)

GatewayNext ==
  \/ \E r \in Completion : Acquire(r)
  \/ Handles \/ Aborts \/ Serve \/ CodexFails \/ CodexExits \/ CodexClosed

(* The handler whose turn it is goes on, deadlines pass, a closing client  *)
(* kills its process.  Nothing is assumed of the process.                  *)
GatewayGoesOn == Handles \/ Aborts \/ CodexClosed
GatewayFairness == WF_gatewayVars(GatewayGoesOn)

GatewaySpec == GatewayInit /\ [][GatewayNext]_gatewayVars /\ GatewayFairness

-----------------------------------------------------------------------------
(* Properties *)

(* The queue's turn is taken exactly when one request is generating: it is *)
(* not lost when those that wait are aborted, none waits while it is free, *)
(* and no Codex process is at work but for that request.  So an answer is  *)
(* of one try: its text and the usage counted for it are not of a request  *)
(* or a try that broke off before.                                         *)
AnswerIsOfOneTry ==
  /\ active <=> Generating # {}
  /\ waiters # <<>> => active
  /\ Cardinality(Generating) <= 1
  /\ codex.child = "alive" => Generating # {}
  /\ ToSet(waiters) = {r \in Completion : Standing(r, "waiting")}
  /\ \A r \in Completion : served[r].usage # 0 => served[r].usage = served[r].text

(* Every request ends, whatever the process does and whoever waits.        *)
RequestsEnd ==
  <>[](\A r \in Completion : handler[r] \in {"idle", "ended"})
=============================================================================
