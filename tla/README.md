# PaywallProof: a verification development in TLA+

PaywallProof runs an agent (through the TrueForge runtime) against a target
application and a billing provider's sandbox, collects evidence of who may use
a paid feature, and reports whether access follows billing.  It can then
repair the target in a sandbox and publish the repair as a pull request.  The
worker is one Node.js process with SQLite databases beside it; what can go
wrong is almost never a computation but the order of calls: an answer that is
lost, a worker that dies between two writes, an owner who cancels while a tool
call is under way, a deadline that passes while nobody looks.

The modules here describe that part.  `tlc` checks them on small instances,
`tlapm` proves the theorems for every value of the constants.

## 1. The system

| Part | Source | State it keeps | Operations | Called by |
|---|---|---|---|---|
| Control store | `src/run/index.ts` | tables `runs`, `operations`, `external_wait_credits` | create, decide, claim, confirm, abandon, credit, stop, cancel, finish | controller |
| Controller | `apps/worker/src/controller.ts` | documents (context, continuation, runtime, stop error, reconciliation, receipts), MCP tokens, in-memory locks, watchers and timers | `decidePlan`, `tool`, `continueCheckout`, `cancel`, `retryCleanup`, `watchRuntime`, `finishStop`, `recover` | HTTP server, runtime (tool calls), timers |
| Checkout continuation | `apps/worker/src/checkout-continuation.ts` | document of the continued turn | observe, dispatch, confirm | controller |
| TrueForge adapter | `src/integrations/trueforge.ts` | none; the runtime's turns | start, continue, approve, inspect, find a continuation | controller, repairs |
| Repair store and publication | `src/repair/store.ts`, `src/repair/github.ts` | proposals, approval, progress, publication lease | propose, verify, request, decide, claim, guard, finish | repair coordinator |
| Repair coordinator | `apps/worker/src/repairs.ts` | repair jobs, publication intents | start, request and decide publication, recover | controller, HTTP server |
| Repair sandbox, oracle, controls | `src/repair/*.ts` | operation state inside a job | prepare, transfer, execute | repair coordinator |
| Evidence and observation | `src/evidence`, `src/domain` | observations | observe, evaluate, aggregate | controller |
| Evidence review | `apps/worker/src/evidence-review.ts` | reviews and their archive, tokens, watchers | start, authorize, tool, watch, recover | HTTP server, runtime |
| Provider adapters | `src/integrations/polar*.ts`, `replay.ts` | intents with the provider's response, owned resources, periods | create, checkout, complete, schedule, await, clean up | controller |
| Reference target | `src/reference` | users, operations, sessions, events | fixtures, billing events, access | controller, provider |
| HTTP server | `apps/worker/src/http.ts` | sessions, request ids with their response | middleware, routes | web application |
| Web application | `apps/web` | kept request ids, the cursor of a view | press, poll | operator |
| Model gateway | `src/integrations/codex-*.ts` | a queue, one Codex process | completions | runtime |
| Browser, adapters, demo | `src/integrations`, `apps/demo-saas`, `scripts` | none that outlives a call | - | - |

How the parts meet.  Every external effect is preceded by a stored intent and
followed by a stored receipt, and after a restart the worker looks for the
effect and does not request it again.  The control store is the only place
that decides whether a run may dispatch; the controller's documents say how far
it got.  The controller's frames (a decision, a tool call, the watcher of a
turn, a stop, a timer, a recovery) interleave at every `await` and share those
documents; only in-memory sets keep two frames of a kind apart.

What makes each part correct:

- control store: one live run per project, one dispatch per operation id, a
  limit on operations, a window that waiting extends and nothing shrinks,
  immutable results;
- plan approval and checkout continuation: one effect per decision, whatever is
  lost and whenever the worker dies; the recorded decision, the cursor of the
  runtime and the run agree; a stopped run has no tools, asks the runtime for nothing
  more and ends only when no frame of the worker still waits for its answer;
- lifecycle: no logical step twice, no deletion twice, no fixture forgotten, no
  stop left in silence, an end that is quiet;
- publication: one pull request, written only under an unexpired approval;
- repair coordinator: one job on the session at a time, the agent asked and told
  once, the owner shown the right turn;
- sandbox runner, bridge and oracle: a result is about the files that were given
  and a report about all of its parts, nothing is left at work or waiting;
- provider intents: one effect per mutation, a cleanup that tells the truth;
- review: what was recorded stays, a confirmation is never given to a report in
  which the worker itself finds a defect;
- console: an action acts once, however often it is pressed; no event is skipped;
- observation: a failure is reported only after two contradictions that agree.

The hazards of the code, each at its line and with the properties that cover
it, are the list `hazards` of `PROJECT.json`.

## 2. The modules

| Module | What it is |
|---|---|
| `RunStore` | the control store; one action per transaction, any caller |
| `RunStoreProofs` | its type invariant, inductive invariant, safety and action properties, proved |
| `EffectOnce` | abstract: an external effect behind a stored intent |
| `PlanApproval` | one plan decision, over `RunStore`; implements `EffectOnce` |
| `PlanProofs` | its invariants, that implementation and when it holds, proved |
| `RunLifecycle` | a running run: tool calls, cleanup, watcher, stop, recovery; each deletion implements `EffectOnce` |
| `LifecycleProofs` | its inductive invariant, that implementation and the disclosure of a canceled run, proved |
| `CheckoutContinuation` | the continuation after an external checkout; implements `EffectOnce` |
| `RepairStore` | the repair store; one action per transaction |
| `RepairPublication` | publishers and GitHub over `RepairStore`; implements `RepairStore`, and its pull request `EffectOnce` |
| `RepairProofs` | the store's record-by-record invariant, both implementations of the publication and three of its invariants, proved |
| `ReferenceTarget` | fixtures, sessions and webhooks of the target under test |
| `ScenarioObservation` | one scenario: polling the provider, collecting evidence, judging it |
| `TargetProofs` | `ReferenceTarget` and `ScenarioObservation`: their inductive invariants and safety properties, proved |
| `ProviderIntents` | the payment provider's mutations behind their rows, and the cleanup; each mutation implements `EffectOnce` |
| `CheckoutProofs` | `CheckoutContinuation` and `ProviderIntents`: their inductive invariants, both implementations, the credit of a resumed run and the promises of a stop and of a cleanup, proved |
| `RepairJobs` | the repair coordinator over `RepairStore` and one runtime session |
| `RepairSandbox` | one operation of the sandbox runner: a chain of turns of that session |
| `CoordinatorProofs` | `RepairJobs` and `RepairSandbox`: their inductive invariants, that the coordinator implements `RepairStore`, and the safety properties of both, proved |
| `RepairBridge` | host, child process and sandbox module of the bridge between oracle and target |
| `OracleProcess` | the oracle and the process it runs in |
| `EvidenceReview` | the attempts of a review, its tool route and what a review is judged by |
| `CodexBridge` | the queue, the requests and the process of the model gateway |
| `OperatorConsole` | one action and one view of the web application, the proxy and the table of request ids |
| `ServicesProofs` | `OperatorConsole`, `OracleProcess`, `EvidenceReview` and `CodexBridge`: their inductive invariants and safety properties, proved; and what `EffectOnce` guarantees |
| `MC*` | instances for TLC; a module with several questions has several `.cfg` files |

Composition.  `PlanApproval`, `RunLifecycle` and `CheckoutContinuation` each
EXTEND `RunStore` and call its actions as the code calls its methods: they are
three phases of one run, kept apart because each has its own documents and its
own races, and each starts from the state in which the phase before it leaves
the run.  `RepairPublication` EXTENDS `RepairStore` in the same way.
`EffectOnce` is the common abstract specification; a component implements it
when its documents and its messages, mapped by `INSTANCE ... WITH`, behave like
it.  `RepairJobs` EXTENDS `RepairStore` too: its deaths and recoveries fall between
the store's transactions.

`MCCheckout`, `MCRepairs`, `MCTarget` and `MCServices` put components that share no
state side by side: a behaviour picks one of them (`caller`, `part`, `side`,
`service`) and the others stand still.  Nothing is claimed about an interplay of
them; it only lets one search answer for several small machines.

### How state and actions correspond to the code

A transaction of SQLite (`better-sqlite3`, synchronous) is one action.  A call
that the code refuses is not an action: its condition is the guard of the
action.  In the controller's modules the process is one JavaScript thread:
`cpu` names the frame (one call of an `async` method) that holds it, and a frame
lets go of it at each `await` only.  Two database writes of one frame with no
`await` between them are still two steps, because the process may die between
them; nothing else happens between them.  `pc` says at which `await` or write a
frame stands, and the copies a frame took of a document before an `await` are
variables (`local`, `call`, `cleaning`, `saved`, `copy`).  A crash resets what
lives in memory and keeps what is on disk and on the wire.

- `RunStore`: `runs`, `ops` and `credits` are the tables.  `CreateRun`,
  `DecidePlan`, `CreditExternalWait`, `ClaimDispatch` and `ClaimExpired` (two
  outcomes of `claimOperation`), `AbandonDispatched`, `ConfirmOperation`,
  `CancelRun`, `RequestStop`, `FinishRun` are the methods; `Tick` is the clock.
  `grants` is history: the claims answered "dispatch".
- `PlanApproval`: `continuation`, `runtime`, `token` and `stopError` are the
  documents of those names.  `DecideFirst`, `DecideAgain`, `Prepare` are
  `decidePlan`; `Resume` is `resumePlanDecision` with `commitPlanContinuation`,
  used by a caller and by recovery; `Stop` is `finishStop`; `Recover` is
  `recover` with `reconcileStoppingContinuations`.  `net` and `turns` are the
  requests to the runtime that have not arrived and those that made a turn.
- `RunLifecycle`: `context` is the document, `slots` the logical operations,
  `intents` the cleanup intents.  `CallTool` and `Tool` are `tool`; `Cleanup` is
  `cleanup`, entered by the tool `cleanup_run`, the watcher, a stop and a retry;
  `Watch` is what follows the end of a turn.  The flags of the context form a
  chain, each refused before the one before it, hence one number `progress`.
- `CheckoutContinuation`: `checkout` is the continuation document, `external` the
  wait; `ContinueCheckout` is `continueCheckout` with observe, dispatch and
  confirm.
- `RepairStore`: `proposals` is the table; the methods are actions under their own
  names.  `claimed` is history: a lease token is a fresh random value.
- `RepairPublication`: a publisher is one call of `publishRepair`, in this process
  or another; `Claim`, `ReadBase`, `ReadBranch`, ... are the awaited calls in
  their order, each with the `guardPublication` before it.  `net` and `served` are
  GitHub requests; `Others` are people who push.
- `ReferenceTarget`: `users`, `sessions` and `events` are the tables, `queues` the
  chain of promises of `serializeCustomer`; `HandleReplay` and `StartPolar`,
  `ReadSubscription`, `ReadOrders`, `HandlePolar` are the webhook handler between
  its awaits.  `provider` and `sent` stand for Polar.
- `ScenarioObservation`: `Poll` to `Resume` are the first loop of `observeScenario`,
  `Again`, `WindowEnds`, `FirstEnds` and `SecondEnds` the second; `Collect`,
  `ReadBrowser`, `Read` and `Describe` are `observeFeature`; `Evaluate`, `Judge` and
  `ExpectedAccess` are `evaluateEvidence`, `evaluateProbe` and `expectedAccess`.  A
  subscription is one of six phases, which is all that the expectation and the
  scenarios tell apart.
- `ProviderIntents`: `intents`, `owned` and `periodEnd` are the tables `polar_intents`,
  `polar_resources` and `polar_periods`; `operation` is where the one operation
  under way stands.  `Known`, `Insert`, `Send` and `ProviderAnswers` are `#mutate`;
  `ReadCheckout` to `SetPeriod` are `completeSubscriptionCheckout`, `FindForCleanup` to
  `Unpaid` are `cleanup`.  `ServeMutation`, `CheckoutEnds`, `Subscribed` and `PeriodEnds`
  are the provider.
- `RepairJobs`: `jobs`, `indexed`, `asked`, `answered` and `shown` are the documents
  `repair-job`, `repair-job-index`, `repair-publication-intent`, `-decision-intent` and `-runtime`; `turns` and `posted`
  are the session, `work` the frame of each `perform`, `calls` the locked
  publication calls.  `Starts`, `Perform`, `Publication`, `ToolPublishes`, `WatchEnds` and
  `Recovery` are the methods; two transactions of one frame with a possible
  death between them are two actions (`Held`).
- `RepairSandbox`: `Plan` is the chain of stages of `prepare` or `run`, `stand` the await
  inside a stage; `known` is `operation.turns`, `session`, `unserved` and `cancel` the
  runtime, `box` the sandbox.  The agent's actions are unconstrained.
- `RepairBridge`: `call`, `watch` and `closed` are `openBridge` on the host; `queue`, `serving`
  and `sockets` the child's `pending`, `busy` and `available`; `down` and `up` the messages
  between them.
- `OracleProcess`: `oracle` is where `runRepairOracle` stands, `frames` and `replies` the
  messages of the process, `parent` and `settled` `runRepairOracleProcess`.
- `EvidenceReview`: `review`, `archive`, `tokens` and `revoked` are documents; `start`,
  `watcher` and `recovery` the frames of the methods of those names, `calls` the
  requests of the tool route that `Authorize` let in and `Tool` has yet to handle.
  The three puts of `Start`, `NoteStart` and `IssueToken` have no await between them
  (`Held`).  `Defects` is what the worker finds in a report itself, `Grounded` its check of a
  review.
- `CodexBridge`: `active` and `waiters` are `SerialModelQueue`, `handler` the requests,
  `codex` the client of the process at work.
- `OperatorConsole`: `keptId` is `ApiSession.requestIds` for the action, `rows` the table
  `http_requests`, `poll` and `view` the `refresh` of `RunView`.  `Press`, `Learn` and
  `Forget` are the client, `Admit`, `Act` and `Respond` the middleware around a
  handler, `ReadRecord`, `ReadEvents`, `Show`, `PollEnds` and `ReadFails` a refresh.

## 3. The plan

In the order of importance.  All of it is done but what the last point names.

1. `RunStore` with its proofs: everything else relies on it.
2. `EffectOnce`: what every external effect promises.
3. `PlanApproval`: the decision that lets an agent act.
4. `RunLifecycle`: dispatch, cleanup and the ways a run ends.
5. `CheckoutContinuation`: the external wait.
6. `RepairStore` and `RepairPublication` with their proofs: the one effect that
   leaves the sandbox.
7. `ReferenceTarget`: the ordering of billing events.
8. `ScenarioObservation`: what makes a verdict.
9. `RepairJobs`: jobs, publication calls and their recovery.
10. `ProviderIntents` with its proofs: the effects that cost money.
11. `RepairSandbox`, `RepairBridge`, `OracleProcess`: how a repair is run and judged.
12. `EvidenceReview`, `CodexBridge`: what the agent's word is worth, and its model.
13. `OperatorConsole` with its proofs: request ids from the button to the table.
14. The proofs of `PlanApproval`, `RunLifecycle`, `CheckoutContinuation`, `OracleProcess`,
    `EvidenceReview`, `CodexBridge`, `ReferenceTarget` and `ScenarioObservation`.
15. The proofs of `RepairJobs` and `RepairSandbox`.
16. To come: what the runner may rely on while a bridge is open, as safety properties of
    `RepairBridge`, which has a liveness property only.

## 4. What TLC checks

Every run searches the whole state space of its instance.  The bounds are the
constants in the `.cfg` and the ones named in the modules (`MaxTime`, `MaxSent`,
`MaxCrash`, `MaxClock`, `MaxVersion`, `MaxQueue`, `MaxTurn`, `MaxDeath`, `MaxOther`,
`MaxAttempt`, `MaxPending`, `MaxTry`, `MaxPress`, `MaxLog`, `MaxTrouble`).

| Run | Instance | Why it is enough to see the interesting cases |
|---|---|---|
| `checkout`, any callers | 3 runs of 1 project, one of them waiting, 2 operation ids, 1 lease length, limit 1, time to 2 | two runs compete for the project and for an id; the limit is reached; approval, lease and window expire |
| `checkout`, worker | 1 wait, 2 requests, 2 crashes, time to 5 | the window passes with and without the credit, during every await |
| `checkout`, provider | 3 operation ids, time to 2 | three operations name their mutation themselves, so each may repeat another's id; the period end may be reached before, between and after |
| `plan` | 1 caller, own and foreign binding, 2 requests, 2 crashes, time to 2 | a crash in the first attempt and one in its recovery; a second request would be possible if the code sent it |
| `life` | 2 operation ids, steps prepare and cleanup, 1 crash, time to 1 | a retry of a step under another id, both fixtures, every caller of cleanup, deadline before and after |
| `life_live` | 1 operation id, 1 crash, fairness | the same frames under fairness |
| `publication` | 2 publishers, 1 proposal, 2 contents, approval 2, lease 1, time to 3 | the lease and the approval both expire in the middle; one publisher is late while the other one goes on; publishers are symmetric |
| `repairs`, jobs | 2 jobs, 6 turns, 1 death, time to 1 | one job works while the publication of the other is asked for, decided, lost and recovered; the approval expires |
| `repairs`, sandbox | both operations, 1 turn of others | an intruding turn at every point, an abort at every await, every upload changed |
| `target`, target | 2 fixtures, 1 customer of each kind, 2 provider changes, 2 webhooks in flight, 5 replayed events | the fixtures take turns with a customer; two bodies share an id; one event names another subscription, one a customer of the other mode; fixtures are symmetric |
| `target`, observation | 4 scenarios, 3 kinds of target, polling 1, window 2, lag 1, freshness 1, each read 1 | a read may be too old when judged; the target may learn late within the window; the provider may move on at every step, twice and more |
| `services`, review | 2 attempts, 2 reports, 2 reviews, 1 death | the second attempt meets the watcher, the calls and the tokens of the first; the report gets a defect or loses it meanwhile |
| `services`, oracle | both users, every part | a fault at every await of the one exchange there is |
| `services`, bridge | 3 requests, a queue of 1 | one request on the socket, one in the queue, one refused |
| `services`, gateway | 3 requests, a queue of 1, 2 tries | one generates, one waits, one is refused; a try breaks off |
| `services`, console | 2 presses, 2 events, 2 troubles | a retry of a press, with or without its id; a crash and a reload, or a crash in the retry; an event between the two reads of a poll, of this run or another |

What they show.

- `checkout`: at most one live run of a project, one dispatch per operation id
  and each one accounted for, ended runs frozen, nothing dispatched after a
  stop, for any callers of the store.  For the run that waits, the runtime is
  asked at most once after the intent is on record (`EffectOnce`), a resumed run
  was credited exactly its wait, and no frame of the worker continues a canceled
  one (a request that was given up may still arrive).
  Each mutation of the payment provider is one effect whichever operation is
  repeated, and a cleanup that reports retained records only left no
  subscription running, then or later.
- `plan`: the runtime is asked at most once, after the intent is on record; the
  recorded decision, the cursor and the run agree; a stop ends or says why not.
  A stopped run has lost its tool capability, its runtime is recorded as ended,
  no frame of the worker still waits for an answer of the runtime, and whatever
  the runtime was asked is on record as dispatched or unknown
  (`CanceledIsClosed`).  It is not claimed that nothing is in flight: a request
  whose answer failed, or was awaited by a worker that died, stays in `net`, and
  the runtime may make a turn of it after the run is canceled.  That turn finds no
  tool capability; PRD.md:710 calls the runtime's cancellation "best-effort".
- `life`: no step dispatched twice and no fixture requested twice under any ids
  and any crash; each deletion is one effect, whoever cleans up; what a canceled
  run leaves behind it lists; it does not end under a working tool call; no
  writer of the context overwrites the receipt of another.  `life_live`: a run
  settles.
- `publication`: the owner's approval covers every write, at the moment it is
  sent; one pull request is asked for in all attempts together; "published"
  means branch and pull request exist; and publishers change the store by its
  own transactions only.
- `repairs`: one job at a time, documents that agree with it also after a death;
  the agent is asked to publish once and told the recorded decision once.  A
  result of the sandbox runner is about the files that were given, no turn is
  posted twice, and a failed operation leaves no turn it knows running.
- `target`: a webhook that was acknowledged has been applied, a projection
  never goes back, facts of different runs, customers and modes never mix.  A
  target that keeps up is never reported to fail unless the provider moved on,
  a failure was deserved in both sets, a target that does the opposite of what
  is right never passes a probe, and an observation ends in time.
- `services`: a confirmed report has none of the defects the worker looks for,
  a recorded review stays, an accepted oracle report has every part and comes
  from a process that ended, the gateway's turn is not lost and an answer is of
  one try, a press acts once, a view skips no event; and all of them come to an
  end.

Four runs expect a violation.  Each checks one sentence of the repository's
documents against the code and its counterexample is the finding:

- `plan_foreign_binding`: `decidePlan` (controller.ts:1130) stores the
  continuation before the store validates approval id and hash; a stale pair
  uses the approval up, against control-contract.md.
- `plan_two_callers`: `decidePlan` (controller.ts:1120) returns a promise from
  inside `try`/`finally` without awaiting it, so the lock is released while the
  dispatch is under way; two calls dispatch twice.
- `life_late_call`: `cleanup` saves the copy of the context it took before its
  awaits; a fixture that a late tool call recorded in between is lost.  In local
  replay mode `LateCalls = FALSE` holds and the same property is an invariant
  of `life`.
- `repairs_wrong_turn`: `requestPublication` of one job while the next job is at
  work is refused by the adapter, since the newest turn is the other job's; the
  recovery that follows (repairs.ts:569) takes that very turn for the
  publication's and shows it to the owner, against repair-http-contract.md.

Three more observations were made while modelling and have no run.  A `createUser`
whose answer is lost leaves its fixture out of the context, and the turn's
watcher completes the run without disclosing it (controller.ts:1662, PRD.md:220
asks for "a precise unresolved-resource list"); only canceled runs are promised
more here (`CanceledDiscloses`).  A worker that dies between the two puts of a new
repair job (repairs.ts:136) leaves a job that recovery, which starts from the index,
never sees, and that every later `start` takes for one in flight; `OneJobAtATime`
names that exception (`indexed`).  And an evidence review that is started while the
watcher of the attempt before it is still at its stream gets no watcher of its
own (evidence-review.ts:1118); `AttemptsEnd` names that exception (`unwatched`).

Mutants.  For each property of a passing run the modules hold one operator that
changes a definition the way a plausible mistake would (a guard dropped, a
write moved, an answer not recorded); its comment starts with "Mutant".  With it
in place of the definition TLC finds the property violated.  They are not part
of any specification.  `ServicesEnd` is one property of four
services and its mutant is of the review (recovery that watches nothing).  The other
parts break in the same way: without the `SIGKILL` after the deadline (`Kills`) the
oracle's call never ends, without the failed observation in `FailBridge` the bridge's
does not, and a gateway client that is not closed after a failure (`CodexClosed`) blocks
the queue for ever; TLC finds each.

### Fairness

Liveness is stated in three runs.

- `plan` (`StopNeverSilent`) and `life_live` (`RunSettles`).  Frames of the worker are
  strongly fair: the event loop serves ready callbacks in order, so a frame that
  becomes ready again and again, with others holding the thread in between, is
  not passed over for ever, and every call to the outside has a timeout, so an
  awaited answer or its failure comes.  A dead worker is restarted (a supervisor
  does that), and crashes are bounded.  Time passes.  Nothing is assumed of the
  owner, the network, the runtime or the target: a request may be lost (it stays
  in `net`) and a turn may never end.
- `services` (`ServicesEnd`, `ShownCatchesUp`).  The review's frames go on, since its
  stream has a timeout of ten minutes; the oracle's parent has a deadline and a
  kill that the operating system carries out; the bridge's host, its child and
  the target's redialling are event loops of three processes, and the runner
  that opened it aborts in the end; the gateway's requests have a deadline.
  Nothing else is assumed of the Codex process, the oracle or the agent: each may
  hang.  The console's timer fires and a refresh that began goes on; nothing
  makes the operator press, and failed reads are bounded.

`ObservedInTime` is a safety property: an observation that is still under way has
not passed its deadline by more than its last reads.

## 5. What is proved

`tlapm` checks every proof, for all values of the constants under the named
assumptions of each module.
What is proved for every instance is not searched again on a small one when a
run would only repeat it: the type invariants of `RunStore`, `RepairStore` and
`RepairPublication`, the limit on operations, `ElapsedNeverNegative`,
`PublishedWasApproved`, `WrittenOnce` and `HolderKnowsProgress` are
stated beside their models and checked by the prover alone.

- `RunStoreProofs`.  `OneActiveRunPerProject` is not inductive: the code's index is on
  the column `active`, not on the status, and `AtMostOneGrant` rests on
  `GrantsAccounted`, which relies on a plan decision never being taken back.
  `StoreInv` adds that the column agrees with
  the status, that an undecided or absent run has no decision and no start, and
  that elapsed time is not negative.  Steps are first reduced to what they do to
  one run (unchanged, created, saved) and one operation; the invariant is then
  proved from these few cases.  Follow: type correctness, the project lock, one
  dispatch per id, elapsed time, no dispatch after a stop, ended runs frozen, the
  limit on operations (by induction over the set of operations of a run, as a
  cardinality).
- `ServicesProofs`, the protocol.  `EffectInv` adds the range of `requested` to `EffectSafe`.  Every
  component that implements `EffectOnce` inherits `EffectIsSafe` and `SettledStays`.
- `RepairProofs`, the store.  Every transaction replaces one record, so the invariant is
  `Sound`, a predicate of one record, and the action property `Kept`, a relation of
  two.  `Sound` ties the stages together (manifest before approval, approval
  before progress, progress before publication); without these ties a record
  could be published from no evidence, and the goal is not inductive.
- `RepairProofs`, the publication.  Any number of publishers.  `PublicationInv` holds the
  store's invariant, that the lease holder's copy is the stored progress, and
  `PullInv`: a holder about to ask for the pull request has recorded it and nobody
  asked before (`Past`).  It is needed because "asked at most once" is a fact about
  several publishers, of which all but one have lost the lease but not their
  place in the program.  Follow: `PublicationImplementsStore` (the publication's specification
  implies the store's), `PublicationTypeCorrect`, `WritesAreApproved`, `PublishedExists`, `HolderIsCurrent`, and
  `PullRequestIsOne`: the pull request implements `EffectOnce`.

- `CheckoutProofs`, the continuation.  Any runs and clock.  `ResumedIsCredited` compares the
  run's credit with the wait, but credit, marker, dispatch and cursor are written by
  separate steps with a crash possible after each.  `CheckoutInv` ties them by where the
  frame stands: up to the dispatch its copy of the continuation is the stored one
  (`CallKnows`), only a dispatched continuation has a request on the wire, and only a
  request a turn (`WireKnows`), and the credit is on the run before the marker says so
  (`CreditKnows`).  `StopKnows`, that a stop goes on only while nothing is being
  continued, gives `CanceledIsQuiet`.  Follow: `ResumedCredited`, `CanceledQuiet` and
  `ContinuationImplementsEffect`.
- `CheckoutProofs`, the provider.  Any operation ids and any clock.  "No subscription ever again" is
  not inductive: a subscription comes from a paid checkout, which comes from a
  request that may be served long after the run was stopped.  `ProviderInv` adds
  what rules it out: a request follows its row and is sent at most once (`RowsFirst`),
  a checkout is created once and only one whose URL was recorded can be paid
  (`CheckoutOnce`), the period end is chosen once (`PeriodOnce`), and after a report
  of retained records only cleanups run (`Quiet`).  Follow: `RetainedStaysQuiet`, and
  `MutationsHappenOnce`: each of the five mutations implements `EffectOnce`, step by
  step.
- `PlanProofs`.  `MCPlanTwice` shows that the code does not keep two calls of
  `decidePlan` off one decision, so the proofs are in two layers.
  For any callers, however their calls overlap: `CallersInv` says what a frame knows
  whatever other frames do to the stored continuation (which decision the store has
  recorded, that a dispatch is stored before it is sent), and `StopInv` what a stop
  knows while it is at work and what it leaves behind.  Follow: the store keeps
  its invariant (`StoreUnderPlan`), a stopped run has lost its tools, is recorded
  as ended, and has on record whatever the runtime was asked (`StoppedRevoked`), and
  it asks the runtime for nothing more (`StoppedQuiet`).
  Under `[]OneFrame` (at no moment are two frames, calls of `decidePlan` or the
  recovery, at work) `RecordInv` ties the stored continuation to the run, the cursor,
  the wire and the place of that frame; `DispatchedIsRecorded` alone says
  nothing of a worker that died before it stored what it was about to send.
  Follow: a decision sent is the recorded one, it is sent once, and it implements
  `EffectOnce`.  `OneCallerOneFrame` discharges the hypothesis for one caller: recovery
  and a caller exclude each other, because the worker serves only after it
  recovered.  `CanceledClosed` has no hypothesis but the single caller: `AwaitInv` adds
  that from the moment a stop has seen no dispatch in flight no frame waits for an answer.
  With two callers the flag that the stop looks at (`dispatching`) is cleared by one
  call while the other still waits, which is the finding of `plan_two_callers` seen from the stop.
- `LifecycleProofs`.  Any operation ids, crashes and calls.  `EffectsInv` (no assumption)
  ties intents, requests and places: a slot names the operation that was granted for
  it, a creation or a deletion on the wire was asked for once, and a frame about to ask
  stands behind its intent.  "Not twice" is inductive only with the last: a retry under
  a new id is refused because the slot is taken, not because of the id.  Follow
  `StepsDispatchedOnce` and, for each fixture, `DeletionImplementsEffect`.  `RecordInv` says that
  a tool call that may write the context is at work on what is stored while nobody
  cleans up, and that a cleanup's copy lacks nothing that is stored.  It needs
  `LateCalls = FALSE` (`NoLateCalls`: a turn that ended makes no call, which is what local
  replay does), and `MCLifeLate` is the counterexample without.  From it follow
  `ReceiptsInContext` and, with `DisclosingInv`, `CanceledDiscloses`: the latter
  needs the fixtures that the cleanup at work has yet to look at or has been through,
  since what a canceled run lists is written from the cleanup's copy and not from the
  tables.
- `ServicesProofs`, the services.  The console, the oracle, the review and the gateway, each for any
  value of its constants.  Any number of presses, crashes, reloads and expired sessions:
  `PressActsOnce` compares what was done with what the operator knows, and neither
  the client nor the table alone makes it true.  `ConsoleInv` adds that every id but
  the kept one has come to an end that the operator knows (`IdsAccounted`), that a
  row is there from the first handler of its id on and lets in no second one
  (`RowsGuard`), and that a success stored, on its way or shown has happened
  (`SuccessHappened`).  `AcceptedIsWhole` needs that a result frame is final, whatever of the other frames
  is lost, that the oracle went through every part before it sent one (`OraclePassed`), and
  that the second user's routes are asked for and let through only when there is one.  `ConfirmedIsSound` is about calls that are handled after their
  attempt was replaced; `StartKnows` says that from its document on an attempt is the
  latest until its start is over, and `RecordedIsSound` that the recorded review is sound
  for the report it is bound to, which is not always the one then shown.  `AnswerIsOfOneTry` needs that the turn is taken by one request (`TurnIsTaken`), that
  the queue holds who waits, each once (`QueueIsWaiting`), and that usage and decision in
  the client's output are of the try it is at.
- `CoordinatorProofs`, the coordinator.  Two jobs, as in the model (section 6); any number
  of deaths of the worker, between any two of its documents, and posts that are served long after the frame that sent them
  is gone.  `RuntimeToldOnce` and `OneJobAtATime` are about turns and jobs only;
  `CoordinatorInv` ties them to what is on disk and in memory.  `Control`: a job that is
  not over is at work or about to be closed by recovery (`ProcessKnows`), a call of `start`
  that has looked at the jobs excludes any other (`StartKnows`), and a job past its
  preparation has a proposal that no other job has (`ProposalsKnow`).  `Publications`: the
  turn a job stands at is its own (`StandsRight`), a continuation is not on the wire and not in
  the session before the intent that names it is on record and there is at most one
  after (`SentOnce`), and what it says is the decision that the store recorded, at the
  gate that the agent was asked to stop at (`SentRight`).  Follow: `JobsOneAtATime`,
  `JobsTellOnce`, and `CoordinatorImplementsStore`: with all its calls and recoveries the
  coordinator changes proposals by the repair store's transactions alone, so that what
  is proved of that store holds here as well.
- `CoordinatorProofs`, the runner.  Any turns of others, any agent, any loss and delay.
  `PostsAccounted` becomes inductive as `PostsCount`: turns and posts of the operation are at
  most those it knows, and one more only while it waits for an answer.  `KnownTurnsStopped`
  needs that nothing is known before something was dispatched, because only then does
  a failure cancel the session.  For `ResultIsGiven`, `ExecOnce` says that the command has
  one turn or one post that will be it, and `ExecKnows` that past that stage the turn called
  exactly the command, and that whoever ran the command on other files did so in a turn
  of it with other calls: the two turns are one, so there is none.  Follow: `PostedOnce`,
  `KnownStopped` and `ResultAsGiven`.
- `TargetProofs`, the target.  Any fixtures, customers, runs, replayed events and bounds.
  What a handler writes it read from the provider some awaits ago, and a replayed event
  brings its own facts.  `ReferenceInv` says that a webhook says no more than the provider
  knows, that of a customer's handlers only the first has begun and its readings are at
  least as new as its webhook and the row it will write (`HeadsKnow`), and that a row and
  the record of events are of the owner's run, customer and mode.  `Applied` follows for a target without
  an injected fault (`FaultMode = "none"`, the hypothesis of `AcknowledgedApplied` alone;
  the others hold under every fault).  `ReplayAssumption` is about the replayed events: they
  name a known customer and run, as the schema of the route demands.
- `TargetProofs`, the observation.  Any window, freshness, lag and duration of reads.
  `InTime` bounds the clock at each place of the loops, from which `ObservedInTime`
  follows; `KeepsUp` says that an honest target is up to date once the window has passed
  and the provider stood still, and `ReadingsKnow`, `ResultKnows`, `FirstKnows` what the
  collected readings, the verdicts and the first set of failures owe to target and provider.
  Without them nothing ties a verdict to the state in which its evidence was read.

Only model-checked.

- Liveness (`StopNeverSilent`, `RunSettles`, `ServicesEnd`, `ShownCatchesUp`): under fairness
  it is out of the prover's reach.
- `RepairBridge`: what a bridge must do is to end (`BridgeEnds`), which is liveness.

## 6. Approximations

- Time is a small integer; every expiry of the code is a constant of one or two
  ticks.  What matters is the order of expiries and steps.
- Hashes, random ids and lease tokens are distinct values; two of them are equal
  only if the code makes them from the same data.
- A lost request is one that stays in `net`; a late one leaves it late.
- `PlanApproval` starts when the runtime has asked for the approval, `RunLifecycle`
  when the plan is approved, `CheckoutContinuation` when the wait has begun.
- The deadline timer fires only while the worker serves; during recovery the
  deadline is checked by recovery itself.
- An `await` of a promise that is already settled also lets other frames run.
- `RunLifecycle`: the chain's steps without a fixture are the probe, create,
  schedule and advance steps of one kind of call; the run takes `prepare` and
  `cleanup`, which are the ones that make and delete fixtures.
- `CheckoutContinuation`: the restoration of a confirmed checkout at recovery is
  left out because confirm is one transaction and never leaves it to do.
- `RepairPublication`: a read of GitHub is one step with its guard; objects read by
  their hash can only be what they are named after and are part of the step that
  found the name.  That others move or delete the branch once it is ours
  (github.ts:373 looks for it) is not a change of state here: a publisher that meets it
  stops with an error, which `Fail` is, and `PublishedIsReal` is about what was put on
  GitHub, not about what others make of it later.
- `ReferenceTarget`: the status of a subscription is active or canceled; an expired
  session is a deleted one; reading a subscription and its orders are two steps,
  because the provider may change in between.
- `ScenarioObservation`: a timer fires on time and a slow callback counts as a slow
  read; a stop is seen at the checks that look for it.  The first set keeps its
  failures only, because only they are compared.  When the provider moves on after
  the scenario was established the expectation follows it: SC03 may then pass on
  a denial.  The properties about targets therefore say "while the provider stays
  as it is".
- `ProviderIntents`: one run; the responses name the run's own customer, product and
  subscription; the controller runs one operation at a time and its guard is the
  run's being active.
- `RepairJobs`: two jobs, one finding, and a job's calls of the sandbox runner are one
  turn each; the deadline and a cancellation are the same failure of the next
  await.
- `RepairSandbox`, `RepairBridge`: a file is what it should be or it is not; which hash
  tells is not modelled.  Setup commands are left out.
- `OracleProcess`: what an observation decides is any verdict.
- `EvidenceReview`: a report is its hash and what its projection tells apart; of the
  reviews, one that confirms and one that finds a defect.  A retry that is refused
  before the failed attempt is archived (evidence-review.ts:849) rewrites that attempt's
  error and cancels its session again; neither is told apart, so it is no step.
- `CodexBridge`: the contents of a generation are the try they come from and the kind
  of decision; what a request's last exchange allows is any of the three contracts.
- `OperatorConsole`: one action with one body; the page is visible; an answer nobody
  waits for is dropped; a reload starts with no kept ids, which is why `PressActsOnce`
  counts the presses that the operator knows, or gave up, the end of.  A 401 counts as a
  known end, for the client then drops the id: a lost press that is repeated under an
  expired session may have acted, and a new press may act again.

## 7. What is not modelled

Artifacts and control documents are file and table I/O under the documents that
the modules have as variables.  The local replay provider is synchronous and in
memory.  Browser, network and target adapters, the demo and the scripts do I/O
or translate data and keep no state whose order matters beyond one call.  Of the
web application only the action and the view of a run are modelled: the other
views use the same session and the same pattern of polling, with other texts.
Of the controller, the creation of projects and runs checks adapters and calls
the store once.  `components` in `PROJECT.json` says so for each.
