--------------------------- MODULE EvidenceReview ---------------------------
(***************************************************************************)
(* EvidenceReviewCoordinator, apps/worker/src/evidence-review.ts: the      *)
(* advisory review of a completed run.  An attempt is started on a runtime *)
(* session of its own, its turn reads the report and records one synthesis *)
(* of two reviewers through the tool route of apps/worker/src/http.ts, and *)
(* a watcher fails the attempt when its stream ends without a record.      *)
(*                                                                         *)
(* One run is modelled: every document and lock is keyed by the run.  A    *)
(* report is known by its hash, Contents is what the projection of it      *)
(* tells apart.  A request of the tool has each criterion once, as the     *)
(* schema requires; texts and findings that are no error are left out.     *)
(***************************************************************************)
EXTENDS Naturals, FiniteSets

CONSTANTS
  Report,      \* hashes of the reports the run may have
  Contents,    \* what each is
  Proposal,    \* the reviews a turn may try to record
  Proposed,    \* what each says
  MaxAttempt,  \* bound on the attempts
  MaxDeath     \* bound on the deaths of the worker

VARIABLES
  report, consent,               \* the run's report, requireModelConsent passes
  review, archive,               \* documents evidence-review and -attempt
  tokens, revoked,               \* documents evidence-review-token and -revoked
  start, watcher, recovery,      \* the calls under way, as frames
  calls,                         \* tool calls let in and not handled
  opened, canceled, turns,       \* the runtime: sessions and turns by attempt
  unwatched,                     \* history: attempts whose watch returned at once
  deaths

reviewDocuments == <<review, archive, tokens, revoked>>
reviewFrames == <<start, watcher, recovery, calls>>
runtime == <<opened, canceled, turns>>
given == <<report, consent, deaths>>
reviewVars == <<given, reviewDocuments, reviewFrames, runtime, unwatched>>

Attempt == 1..MaxAttempt

-----------------------------------------------------------------------------
(* What a report is judged by *)

Criteria == [coverage |-> {"SCENARIO_ASSERTIONS", "EVIDENCE_COVERAGE", "CLEANUP_AND_LIMITS"},
             binding |-> {"RUN_CONFIGURATION_BINDINGS", "OBSERVATION_BINDINGS",
                          "ARTIFACT_ORACLE_RUNTIME_BINDINGS"}]
Roles == DOMAIN Criteria
Criterion == UNION {Criteria[role] : role \in Roles}
ReviewVerdict == {"confirmed", "needs_attention", "inconclusive"}

Scenarios == {"SC01", "SC02", "SC03", "SC04"}
Sources == {"billing_provider", "application", "api_probe", "browser"}

(* verdicts of the scenarios recorded, the outcome, the observations by    *)
(* scenario and source, those the scenarios cite, those of this run, build *)
(* and policy, the screenshots, the cleanup receipts and inventory, whether*)
(* the run's hashes match, and whether it has its cleanup hash ("omitted"  *)
(* in the projection of older reviews), oracle, versions and limits.       *)
Observation == Scenarios \X Sources
Resource == {"free", "paid", "customer"}
ReviewReport ==
  [verdicts : UNION {[S -> {"pass", "fail", "inconclusive"}] : S \in SUBSET Scenarios},
   outcome : {"passed", "failed", "inconclusive"},
   observations : SUBSET Observation, cited : SUBSET Observation, own : SUBSET Observation,
   pictures : SUBSET Observation,
   delete : SUBSET Resource, retain : SUBSET Resource,
   receipts : UNION {[R -> {"deleted", "retained", "leftover"}] : R \in SUBSET Resource},
   bound : BOOLEAN, cleanupHash : {"hash", "null", "omitted"}, whole : BOOLEAN]

(* dataOnlyReviewReport, or legacyReviewReportWithoutCleanupBinding. *)
Bound(hash, legacy) == [of |-> hash, legacy |-> legacy]
Source(binding) ==
  IF binding.legacy THEN [Contents[binding.of] EXCEPT !.cleanupHash = "omitted"]
  ELSE Contents[binding.of]

DerivedOutcome(r) ==
  LET found == {r.verdicts[s] : s \in DOMAIN r.verdicts} IN
  IF "fail" \in found THEN "failed"
  ELSE IF DOMAIN r.verdicts = Scenarios /\ found = {"pass"} THEN "passed" ELSE "inconclusive"

Browsed(r) == {o \in r.observations : o[2] = "browser"}

(* objectiveDefectCriteria *)
Defective(r, criterion) ==
  CASE criterion = "SCENARIO_ASSERTIONS" ->
         DOMAIN r.verdicts # Scenarios \/ r.outcome # DerivedOutcome(r)
    [] criterion = "EVIDENCE_COVERAGE" ->
         \/ r.observations = {} \/ r.cited # r.observations
         \/ \E s \in DOMAIN r.verdicts, source \in Sources :
              <<s, source>> \notin r.cited \cap r.observations
    [] criterion = "CLEANUP_AND_LIMITS" ->
         \/ Cardinality(r.delete) # 2 \/ r.delete \cap r.retain # {}
         \/ DOMAIN r.receipts # r.delete \cup r.retain
         \/ \E x \in DOMAIN r.receipts :
              r.receipts[x] # IF x \in r.delete THEN "deleted" ELSE "retained"
    [] criterion = "RUN_CONFIGURATION_BINDINGS" -> ~ r.bound \/ r.cleanupHash = "null"
    [] criterion = "OBSERVATION_BINDINGS" ->
         \/ r.cited # r.observations \/ ~ r.observations \subseteq r.own
         \/ \E o \in r.observations : o[1] \notin DOMAIN r.verdicts
    [] OTHER -> ~ r.whole \/ r.pictures # Browsed(r)
Defects(r) == {criterion \in Criterion : Defective(r, criterion)}

(* synthesizedVerdict *)
Synthesized(verdicts) ==
  IF "needs_attention" \in verdicts THEN "needs_attention"
  ELSE IF verdicts = {"confirmed"} THEN "confirmed" ELSE "inconclusive"

(* What a turn asks to record: a verdict on each criterion, the criteria   *)
(* it has an error finding for, those whose citations are complete, and    *)
(* whether it cites what is not in the report.                             *)
Review == [verdict : ReviewVerdict, reviewers : [Roles -> ReviewVerdict],
           criteria : [Criterion -> ReviewVerdict], errors : SUBSET Criterion,
           complete : SUBSET Criterion, stray : BOOLEAN]

(* recordEvidenceReviewSchema *)
WellFormed(r) ==
  /\ \A c \in Criterion : c \in r.errors <=> r.criteria[c] = "needs_attention"
  /\ \A role \in Roles :
       r.reviewers[role] = Synthesized({r.criteria[c] : c \in Criteria[role]})
  /\ r.verdict = Synthesized({r.reviewers[role] : role \in Roles})

(* Mutant: the defects the worker itself finds are left to the reviewers.  *)
GroundedInCitations(r, source) == ~ r.stray

(* assertGrounded *)
Grounded(r, source) ==
  /\ \A c \in Defects(source) : r.criteria[c] = "needs_attention"
  /\ ~ r.stray
  /\ \A c \in {"SCENARIO_ASSERTIONS", "EVIDENCE_COVERAGE", "OBSERVATION_BINDINGS"} :
       r.criteria[c] = "confirmed" => c \in r.complete

ASSUME ReviewAssumption ==
  /\ MaxAttempt \in Nat \ {0} /\ MaxDeath \in Nat
  /\ DOMAIN Contents = Report /\ \A h \in Report : Contents[h] \in ReviewReport
  /\ DOMAIN Proposed = Proposal /\ \A p \in Proposal : Proposed[p] \in Review

-----------------------------------------------------------------------------
(* The documents and the frames *)

Unreviewed == [status |-> "none", attempt |-> 0, report |-> Bound("none", FALSE),
               session |-> FALSE, recorded |-> "none"]
IsLatest(status) == review.status = status
Became(status) == review' = [review EXCEPT !.status = status]

Quiet == [at |-> "idle", attempt |-> 0]
StandsAt(frame, place) == frame.at = place
Moved(frame, place) == [frame EXCEPT !.at = place]

(* The thread puts one document after the other; the worker may die between. *)
Held == start.at \in {"archived", "noted"}
Free == ~ Held
Serving == recovery.at = "done" /\ Free

(* cancelSession: asked, also when it fails. *)
Cancels(attempt) ==
  \/ canceled' = canceled \cup {attempt}
     /\ turns' = [turns EXCEPT ![attempt] = IF @ = "running" THEN "ended" ELSE @]
  \/ UNCHANGED <<canceled, turns>>

(* watch: at once refused when one is watching this run already. *)
Watches(attempt) ==
  IF StandsAt(watcher, "idle")
  THEN /\ watcher' = [at |-> "stream", attempt |-> attempt]
       /\ unwatched' = unwatched \ {attempt}
  ELSE /\ UNCHANGED watcher
       /\ unwatched' = unwatched \cup {attempt}

-----------------------------------------------------------------------------
(* start *)

(* A start that is refused before the failed attempt is archived (its      *)
(* report is not there or not completed) rewrites that attempt's error and *)
(* asks again for its session's end: neither is told apart here, so it is  *)
(* no step of its own.                                                     *)
Start(retryCompleted) ==
  /\ Serving /\ StandsAt(start, "idle") /\ consent
  /\ \/ review.status \in {"none", "error"}
     \/ IsLatest("completed") /\ retryCompleted
  /\ review.attempt < MaxAttempt
  /\ archive' = IF IsLatest("none") THEN archive
                ELSE [archive EXCEPT ![review.attempt] = review]
  /\ start' = [at |-> "archived", attempt |-> review.attempt + 1]
  /\ UNCHANGED <<given, review, tokens, revoked, watcher, recovery, calls, runtime, unwatched>>

NoteStart ==
  /\ StandsAt(start, "archived")
  /\ review' = [Unreviewed EXCEPT !.status = "starting", !.attempt = start.attempt,
                                  !.report = Bound(report, FALSE)]
  /\ start' = Moved(start, "noted")
  /\ UNCHANGED <<given, archive, tokens, revoked, watcher, recovery, calls, runtime, unwatched>>

IssueToken ==
  /\ StandsAt(start, "noted")
  /\ tokens' = tokens \cup {start.attempt}
  /\ start' = Moved(start, "register")
  /\ UNCHANGED <<given, review, archive, revoked, watcher, recovery, calls, runtime, unwatched>>

(* registerSkill, registerMcpServer, then createSession. *)
CreateSession ==
  /\ StandsAt(start, "register")
  /\ opened' = opened \cup {start.attempt}
  /\ start' = Moved(start, "created")
  /\ UNCHANGED <<given, reviewDocuments, watcher, recovery, calls, canceled, turns, unwatched>>

SessionCreated ==
  /\ StandsAt(start, "created")
  /\ review' = [review EXCEPT !.session = TRUE]
  /\ start' = Moved(start, "turn")
  /\ UNCHANGED <<given, archive, tokens, revoked, watcher, recovery, calls, runtime, unwatched>>

BeginTurn ==
  /\ StandsAt(start, "turn")
  /\ turns' = [turns EXCEPT ![start.attempt] = "running"]
  /\ start' = Moved(start, "begun")
  /\ UNCHANGED <<given, reviewDocuments, watcher, recovery, calls, opened, canceled, unwatched>>

TurnBegun ==
  /\ StandsAt(start, "begun")
  /\ Became("running")
  /\ Watches(start.attempt)
  /\ start' = Quiet
  /\ UNCHANGED <<given, archive, tokens, revoked, recovery, calls, runtime>>

(* A request fails, or its answer is lost; then the session is canceled,   *)
(* when it is known, and the attempt has failed.                           *)
StartFails ==
  /\ start.at \in {"register", "created", "turn", "begun"}
  /\ start' = Moved(start, "cancel")
  /\ UNCHANGED <<given, reviewDocuments, watcher, recovery, calls, runtime, unwatched>>

StartCancels ==
  /\ StandsAt(start, "cancel")
  /\ IF review.session THEN Cancels(start.attempt) ELSE UNCHANGED <<canceled, turns>>
  /\ start' = Moved(start, "fail")
  /\ UNCHANGED <<given, reviewDocuments, watcher, recovery, calls, opened, unwatched>>

StartFailed ==
  /\ StandsAt(start, "fail")
  /\ Became("error")
  /\ start' = Quiet
  /\ UNCHANGED <<given, archive, tokens, revoked, watcher, recovery, calls, runtime, unwatched>>

Starting ==
  \/ NoteStart \/ IssueToken
  \/ CreateSession \/ SessionCreated \/ BeginTurn \/ TurnBegun \/ StartFails \/ StartCancels
  \/ StartFailed

-----------------------------------------------------------------------------
(* The tool route and the tools *)

(* authorize, up to the consent. *)
Authorizes(attempt) ==
  /\ attempt \in tokens /\ attempt = review.attempt
  /\ review.status \in {"starting", "running", "completed"}
  /\ attempt \notin revoked

(* The running turn calls; the body of the request may come later.         *)
Authorize(attempt) ==
  /\ Serving /\ turns[attempt] = "running" /\ Authorizes(attempt)
  /\ IF consent THEN calls' = calls \cup {attempt} /\ UNCHANGED revoked
     ELSE revoked' = revoked \cup {attempt} /\ UNCHANGED calls
  /\ UNCHANGED <<given, review, archive, tokens, start, watcher, recovery, runtime, unwatched>>

(* The report as the review is bound to it, or EVIDENCE_REVIEW_REPORT_CHANGED. *)
BoundReport == review.report.of = report

(* record_evidence_review.  Every other call, a read among them, answers   *)
(* and changes nothing.                                                    *)
Record(attempt, p) ==
  /\ WellFormed(Proposed[p])
  /\ IsLatest("running") /\ BoundReport /\ Grounded(Proposed[p], Contents[report])
  /\ review' = [review EXCEPT !.status = "completed", !.recorded = p]
  /\ UNCHANGED <<archive, tokens, revoked>>

Tool(attempt) ==
  /\ Serving /\ attempt \in calls
  /\ calls' = calls \ {attempt}
  /\ (\E p \in Proposal : Record(attempt, p)) \/ UNCHANGED reviewDocuments
  /\ UNCHANGED <<given, start, watcher, recovery, runtime, unwatched>>

-----------------------------------------------------------------------------
(* watch *)

(* The stream ends with the turn, breaks, or is over after 10 minutes.     *)
StreamEnds ==
  /\ Free /\ StandsAt(watcher, "stream")
  /\ watcher' = IF IsLatest("completed") THEN Quiet ELSE Moved(watcher, "inspect")
  /\ UNCHANGED <<given, reviewDocuments, start, recovery, calls, runtime, unwatched>>

(* inspectTurn; when it fails the review is looked at once more.           *)
TurnInspected ==
  /\ Free /\ StandsAt(watcher, "inspect")
  /\ \/ watcher' = Moved(watcher, "cancel")
     \/ IsLatest("completed") /\ watcher' = Quiet
  /\ UNCHANGED <<given, reviewDocuments, start, recovery, calls, runtime, unwatched>>

WatchCancels ==
  /\ Free /\ StandsAt(watcher, "cancel")
  /\ Cancels(watcher.attempt)
  /\ watcher' = Moved(watcher, "fail")
  /\ UNCHANGED <<given, reviewDocuments, start, recovery, calls, opened, unwatched>>

(* Mutant: the attempt is failed without looking at it again. *)
FailAnyway ==
  /\ Free /\ StandsAt(watcher, "fail")
  /\ review' = [review EXCEPT !.attempt = watcher.attempt, !.status = "error"]
  /\ watcher' = Quiet
  /\ UNCHANGED <<given, archive, tokens, revoked, start, recovery, calls, runtime, unwatched>>

WatchFails ==
  /\ Free /\ StandsAt(watcher, "fail")
  /\ IF IsLatest("running") /\ review.attempt = watcher.attempt THEN Became("error")
     ELSE UNCHANGED review
  /\ watcher' = Quiet
  /\ UNCHANGED <<given, archive, tokens, revoked, start, recovery, calls, runtime, unwatched>>

Watching == StreamEnds \/ TurnInspected \/ WatchCancels \/ WatchFails

-----------------------------------------------------------------------------
(* recover, before the worker serves *)

WorkerDies ==
  /\ deaths < MaxDeath
  /\ deaths' = deaths + 1
  /\ start' = Quiet /\ watcher' = Quiet /\ calls' = {}
  /\ recovery' = Moved(recovery, "begin")
  /\ UNCHANGED <<report, consent, reviewDocuments, runtime, unwatched>>

(* Mutant: a running review is left to its turn. *)
RecoverNothing ==
  /\ StandsAt(recovery, "begin") /\ ~ IsLatest("starting")
  /\ recovery' = Moved(recovery, "done")
  /\ UNCHANGED <<given, reviewDocuments, start, watcher, calls, runtime, unwatched>>

RecoverRunning ==
  /\ StandsAt(recovery, "begin") /\ ~ IsLatest("starting")
  /\ recovery' = Moved(recovery, "done")
  /\ IF ~ IsLatest("running") THEN UNCHANGED <<review, watcher, unwatched, canceled, turns>>
     ELSE IF consent
     THEN Watches(review.attempt) /\ UNCHANGED <<review, canceled, turns>>
     ELSE Became("error") /\ Cancels(review.attempt) /\ UNCHANGED <<watcher, unwatched>>
  /\ UNCHANGED <<given, archive, tokens, revoked, start, calls, opened>>

RecoverStarting ==
  /\ StandsAt(recovery, "begin") /\ IsLatest("starting")
  /\ recovery' = Moved(recovery, "cancel")
  /\ IF review.session THEN Cancels(review.attempt) ELSE UNCHANGED <<canceled, turns>>
  /\ UNCHANGED <<given, reviewDocuments, start, watcher, calls, opened, unwatched>>

StartInterrupted ==
  /\ StandsAt(recovery, "cancel")
  /\ Became("error")
  /\ recovery' = Moved(recovery, "done")
  /\ UNCHANGED <<given, archive, tokens, revoked, start, watcher, calls, runtime, unwatched>>

Recovering == RecoverRunning \/ RecoverStarting \/ StartInterrupted

-----------------------------------------------------------------------------
(* Around it *)

TurnEnds(attempt) ==
  /\ turns[attempt] = "running"
  /\ turns' = [turns EXCEPT ![attempt] = "ended"]
  /\ UNCHANGED <<given, reviewDocuments, reviewFrames, opened, canceled, unwatched>>

(* retryCleanup, once something was left over, changes the report of the   *)
(* completed run.                                                          *)
ReportChanges ==
  /\ Free
  /\ \E x \in DOMAIN Contents[report].receipts : Contents[report].receipts[x] = "leftover"
  /\ report' \in {h \in Report :
       Contents[h] = [Contents[report] EXCEPT !.receipts = Contents[h].receipts]}
  /\ UNCHANGED <<consent, deaths, reviewDocuments, reviewFrames, runtime, unwatched>>

ConsentWithdrawn ==
  /\ Free /\ consent /\ consent' = FALSE
  /\ UNCHANGED <<report, deaths, reviewDocuments, reviewFrames, runtime, unwatched>>

ReviewInit ==
  /\ report \in Report /\ consent = TRUE /\ deaths = 0
  /\ \/ review = Unreviewed /\ tokens = {} /\ turns = [a \in Attempt |-> "none"]
     \/ \* a review that an older version of the worker started
        /\ review = [Unreviewed EXCEPT !.status = "running", !.attempt = 1, !.session = TRUE,
                                       !.report = Bound(report, TRUE)]
        /\ tokens = {1} /\ turns = [a \in Attempt |-> IF a = 1 THEN "running" ELSE "none"]
  /\ opened = tokens /\ canceled = {} /\ revoked = {}
  /\ archive = [a \in Attempt |-> Unreviewed]
  /\ start = Quiet /\ watcher = Quiet /\ recovery = [at |-> "begin", attempt |-> 0]
  /\ calls = {} /\ unwatched = {}

ReviewNext ==
  \/ \E retry \in BOOLEAN : Start(retry)
  \/ Starting \/ Watching \/ Recovering \/ WorkerDies \/ ReportChanges \/ ConsentWithdrawn
  \/ \E a \in Attempt : Authorize(a) \/ Tool(a) \/ TurnEnds(a)

(* The worker goes on with what it awaits; a stream is over after ten      *)
(* minutes at the latest.                                                  *)
ReviewGoesOn == Starting \/ Watching \/ Recovering
ReviewFairness == WF_reviewVars(ReviewGoesOn)

ReviewSpec == ReviewInit /\ [][ReviewNext]_reviewVars /\ ReviewFairness

-----------------------------------------------------------------------------
(* Properties *)

(* An unqualified confirmation is of a report in which the worker itself   *)
(* finds no defect, whatever the reviewers say, and whatever became of the *)
(* report while they worked (tool, assertGrounded).                        *)
ConfirmedIsSound ==
  IsLatest("completed") /\ Proposed[review.recorded].verdict = "confirmed" =>
    Defects(Source(review.report)) = {}

(* What was recorded stays: an attempt that completed or failed changes no *)
(* more, whatever watcher, tool call or recovery of it is late, and it is  *)
(* archived as it was when the next attempt takes its place.  No token of  *)
(* an earlier attempt is let in any more, nor one whose use was refused    *)
(* once for the consent (authorize).                                       *)
FinalIsKept ==
  /\ [][review.status \in {"completed", "error"} =>
       \/ review' = review
       \/ review'.attempt = review.attempt + 1 /\ archive'[review.attempt] = review]_reviewVars
  /\ [][\A a \in calls' \ calls : a = review.attempt /\ a \notin revoked /\ consent]_reviewVars

(* An attempt does not stay at work for ever: it is recorded or fails.     *)
(* The exception is real: an attempt started while the watcher of the one  *)
(* before is still at its stream has no watcher (watch, `watchers').       *)
AttemptsEnd ==
  <>[](review.status \in {"starting", "running"} => review.attempt \in unwatched)
=============================================================================
