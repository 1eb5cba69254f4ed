------------------------- MODULE ScenarioObservation -------------------------
(***************************************************************************)
(* How one scenario is judged: observeScenario waits until the provider is *)
(* in the scenario's state, gives the target its synchronization window,   *)
(* and collects evidence with observeFeature; evaluateEvidence compares    *)
(* what the target did with what the provider said (src/evidence,          *)
(* src/domain, and probeScenario of apps/worker/src/controller.ts).        *)
(*                                                                         *)
(* Nothing stands still meanwhile: the provider moves on, the target lags  *)
(* behind it, reads take time, and three of them run side by side.  Time   *)
(* is counted in pauses between two polls.                                 *)
(***************************************************************************)
EXTENDS Integers, Sequences

CONSTANTS
  Scenario,     \* the scenarios to observe
  Conduct,      \* kinds of target
  EstablishMs,  \* how long the provider is polled
  SyncMs,       \* the policy's synchronization window
  FreshMs,      \* how old a reading may be when it is judged
  ReadMs,       \* how long a read may take
  LagMs,        \* how far an honest target stays behind the provider
  MaxTime       \* bound on the clock

ASSUME ObservationAssumption ==
  /\ Scenario \subseteq {"SC01", "SC02", "SC03", "SC04"}
  /\ Conduct \subseteq {"honest", "wrong", "erratic"}
  /\ EstablishMs \in Nat /\ SyncMs \in Nat \ {0} /\ FreshMs \in Nat
  /\ ReadMs \in Nat /\ LagMs \in 0..(SyncMs - 1) /\ MaxTime \in Nat

VARIABLES
  now,
  scenario,  \* the one that is observed
  conduct,   \* the target's kind
  billing,  \* the phase of the provider's subscription
  changed,   \* when it changed, while an honest target has not learned of it
  steady,    \* history: it has not changed since it was confirmed
  shown,     \* the phase the target has learned of
  pc, due,   \* where observeScenario is, and when what it awaits comes at the latest
  confirmed, \* confirmedAt
  round,     \* "window", or "first" and "second" set after it
  readings,  \* the set of evidence at work
  first,     \* the failures of the first set, and (history) which were deserved
  result     \* what observeScenario returned

clocks == <<now, due>>
world == <<billing, changed, steady, shown>>
choices == <<scenario, conduct>>
work == <<confirmed, round, readings, first, result>>
observationVars == <<clocks, choices, world, pc, work>>

-----------------------------------------------------------------------------
(* Facts and verdicts *)

(* "overdue": active past the end of its period, the cancellation not yet  *)
(* confirmed.                                                              *)
Phases == <<"absent", "unpaid", "active", "scheduled", "overdue", "canceled">>
Phase == {Phases[n] : n \in DOMAIN Phases}
Position(p) == CHOOSE n \in DOMAIN Phases : Phases[n] = p

StatusOf(p) == CASE p = "absent" -> "none" [] p = "canceled" -> "canceled" [] OTHER -> "active"

Established(sc, p) ==
  p = CASE sc = "SC01" -> "absent" [] sc = "SC02" -> "active"
        [] sc = "SC03" -> "scheduled" [] sc = "SC04" -> "canceled"

ExpectedAccess(p) ==
  CASE p \in {"active", "scheduled"} -> "allow"
    [] p \in {"absent", "canceled"} -> "deny"
    [] OTHER -> "unknown"

Source == {"provider", "application", "api", "browser"}
Channel == {"api", "browser", "state"}

(* What a probe may get: the marker, a proper denial, a denial with the    *)
(* marker in it, or no answer.                                             *)
Answer == {"allowed", "denied", "leaking", "error"}

PassCodes == {"ACCESS_ALLOWED", "ACCESS_DENIED", "STATE_MATCHES"}
FailCodes == {"PROTECTED_DATA_LEAK", "PAID_ACCESS_DENIED", "STATE_DRIFT"}
Code == PassCodes \cup FailCodes \cup {"UNKNOWN", "TRANSPORT_ERROR", "UNRECOGNIZED_RESPONSE",
                                       "EVIDENCE_STALE", "UNSTABLE_CONTRADICTION"}

(* Mutant: a denial is a denial, whatever it carries. *)
JudgeStatusOnly(expected, answer) ==
  CASE expected = "unknown" -> "UNKNOWN"
    [] answer = "error" -> "TRANSPORT_ERROR"
    [] expected = "deny" /\ answer \in {"denied", "leaking"} -> "ACCESS_DENIED"
    [] expected = "deny" /\ answer = "allowed" -> "PROTECTED_DATA_LEAK"
    [] expected = "allow" /\ answer = "allowed" -> "ACCESS_ALLOWED"
    [] expected = "allow" /\ answer = "denied" -> "PAID_ACCESS_DENIED"
    [] OTHER -> "UNRECOGNIZED_RESPONSE"

(* evaluateProbe *)
Judge(expected, answer) ==
  CASE expected = "unknown" -> "UNKNOWN"
    [] answer = "error" -> "TRANSPORT_ERROR"
    [] expected = "deny" /\ answer \in {"allowed", "leaking"} -> "PROTECTED_DATA_LEAK"
    [] expected = "deny" /\ answer = "denied" -> "ACCESS_DENIED"
    [] expected = "allow" /\ answer = "allowed" -> "ACCESS_ALLOWED"
    [] expected = "allow" /\ answer = "denied" -> "PAID_ACCESS_DENIED"
    [] OTHER -> "UNRECOGNIZED_RESPONSE"

TooOld(set, notBefore) ==
  \E s \in Source : set[s].at < notBefore \/ now - set[s].at > FreshMs

(* evaluateEvidence *)
Evaluate(set, notBefore) ==
  LET expected == ExpectedAccess(set["provider"].value) IN
  IF TooOld(set, notBefore) THEN [c \in Channel |-> "EVIDENCE_STALE"]
  ELSE [c \in Channel |->
          CASE c = "state" ->
                 IF expected = "unknown" THEN "UNKNOWN"
                 ELSE IF set["application"].value = StatusOf(set["provider"].value)
                 THEN "STATE_MATCHES" ELSE "STATE_DRIFT"
            [] OTHER -> Judge(expected, set[c].value)]

(* Mutant: the second set has the last word. *)
Latest(one, two) == two

(* A failure is kept when both sets fail in the same way. *)
Stable(one, two) ==
  [c \in Channel |->
     IF two[c] \in FailCodes /\ one[c] # two[c] THEN "UNSTABLE_CONTRADICTION" ELSE two[c]]

-----------------------------------------------------------------------------
(* The provider and the target *)

Ended == {"returned", "threw"}

(* A subscription that is paid becomes active, one that is scheduled to    *)
(* end does end; it is scheduled by a step of the run before SC03.  What   *)
(* comes after the observation is not followed.                            *)
BillingChanges ==
  /\ pc \notin Ended
  /\ scenario # "SC01" /\ billing # "canceled"
  /\ scenario = "SC02" => billing = "unpaid"
  /\ billing' = Phases[Position(billing) + 1] /\ steady' = FALSE
  /\ changed' = IF conduct = "honest" THEN now ELSE 0
  /\ UNCHANGED <<clocks, choices, shown, pc, work>>

TargetLearns ==
  /\ pc \notin Ended
  /\ shown # billing
  /\ shown' = billing /\ changed' = 0
  /\ UNCHANGED <<clocks, choices, billing, steady, pc, work>>

Entitled(p) == p \in {"active", "scheduled", "overdue"}

(* The honest target answers by what it has learned, the wrong one does    *)
(* the opposite of what is right, the erratic one now this and now that.   *)
Answers ==
  CASE conduct = "honest" -> {IF Entitled(shown) THEN "allowed" ELSE "denied", "error"}
    [] conduct = "wrong" -> IF Entitled(billing) THEN {"denied"} ELSE {"allowed", "leaking"}
    [] OTHER -> {"allowed", "denied"}

-----------------------------------------------------------------------------
(* observeScenario *)

Goto(stage, wait) == pc' = stage /\ due' = now + wait
NoReadings == [s \in Source |-> [at |-> 0, value |-> "unread"]]
NoResult == [c \in Channel |-> "none"]

Deadline == confirmed + SyncMs
NotBefore == IF round = "window" THEN confirmed ELSE Deadline

NoSet == readings' = NoReadings /\ result' = NoResult

Throw == pc' = "threw" /\ NoSet /\ UNCHANGED <<clocks, choices, world, confirmed, round, first>>

(* assertActive is awaited before each poll and around each collection:    *)
(* the run may have stopped or expired since it was asked before.          *)
Refused == pc \in {"pause", "collect", "wait", "done"} /\ Throw

StartCollect(r, at) ==
  /\ round' = r /\ confirmed' = at /\ NoSet
  /\ Goto("collect", 0)

PollAgain ==
  /\ now < EstablishMs
  /\ Goto("pause", 1)
  /\ UNCHANGED <<now, choices, world, work>>

(* Mutant: a read that fails is always tried again. *)
PollFailsAgain ==
  /\ pc = "poll"
  /\ Goto("pause", 1)
  /\ UNCHANGED <<now, choices, world, work>>

PollFails ==
  /\ pc = "poll"
  /\ IF now >= EstablishMs THEN Throw ELSE PollAgain

Poll ==
  /\ pc = "poll"
  /\ IF Established(scenario, billing) /\ now <= EstablishMs
     THEN /\ StartCollect("window", now)
          /\ steady' = TRUE
          /\ UNCHANGED <<now, choices, billing, changed, shown, first>>
     ELSE IF now >= EstablishMs THEN Throw ELSE PollAgain

Resume ==
  /\ pc = "pause" /\ now >= due
  /\ Goto("poll", ReadMs)
  /\ UNCHANGED <<now, choices, world, work>>

(* describe, session and then the browser, which is read first. *)
Collect ==
  /\ pc = "collect"
  /\ Goto("browser", ReadMs)
  /\ UNCHANGED <<now, choices, world, work>>

Reading(s, value) == readings' = [readings EXCEPT ![s] = [at |-> now, value |-> value]]

ReadBrowser ==
  /\ pc = "browser"
  /\ \E a \in Answers : Reading("browser", a)
  /\ Goto("reads", ReadMs)
  /\ UNCHANGED <<now, choices, world, confirmed, round, first, result>>

Pending(s) == s \in Source /\ readings[s].value = "unread"

(* The other three are read side by side. *)
Read ==
  /\ pc = "reads"
  /\ \E s \in Source :
       /\ Pending(s)
       /\ \E value \in CASE s = "provider" -> {billing}
                         [] s = "application" -> {StatusOf(shown)}
                         [] OTHER -> Answers : Reading(s, value)
  /\ IF \E s \in Source : readings'[s].value = "unread"
     THEN UNCHANGED <<pc, due>> ELSE Goto("describe", ReadMs)
  /\ UNCHANGED <<now, choices, world, confirmed, round, first, result>>

(* A build that changed, or a call that fails, ends it. *)
CollectFails == pc \in {"browser", "reads", "describe"} /\ Throw

Describe ==
  /\ pc = "describe"
  /\ result' = Evaluate(readings, NotBefore)
  /\ Goto("done", 0)
  /\ UNCHANGED <<now, choices, world, confirmed, round, readings, first>>

Passes(verdicts) == \A c \in Channel : verdicts[c] \in PassCodes

WindowEnds ==
  /\ pc = "done" /\ round = "window"
  /\ IF Passes(result) THEN Goto("returned", 0) /\ UNCHANGED <<readings, result>>
     ELSE Goto("wait", 1) /\ NoSet
  /\ UNCHANGED <<now, choices, world, confirmed, round, first>>

Again ==
  /\ pc = "wait" /\ now >= due
  /\ StartCollect(IF now >= Deadline THEN "first" ELSE "window", confirmed)
  /\ UNCHANGED <<now, choices, world, first>>

(* The channels on which the readings, made after the window, contradict   *)
(* the provider as it is.                                                  *)
Wrong ==
  {c \in Channel :
     LET s == IF c = "state" THEN "application" ELSE c IN
     /\ readings[s].at >= Deadline
     /\ IF c = "state" THEN readings[s].value # StatusOf(billing)
        ELSE Judge(ExpectedAccess(billing), readings[s].value) \in FailCodes}

FirstEnds ==
  /\ pc = "done" /\ round = "first"
  /\ first' = [failures |-> [c \in Channel |-> IF result[c] \in FailCodes THEN result[c]
                                              ELSE "none"],
               deserved |-> IF steady THEN {c \in Wrong : result[c] \in FailCodes} ELSE {}]
  /\ StartCollect("second", confirmed)
  /\ UNCHANGED <<now, choices, world>>

SecondEnds ==
  /\ pc = "done" /\ round = "second"
  /\ result' = Stable(first.failures, result)
  /\ Goto("returned", 0)
  /\ UNCHANGED <<now, choices, world, confirmed, round, readings, first>>

Observe ==
  \/ Poll \/ PollFails \/ Resume \/ Collect \/ ReadBrowser \/ Read \/ Describe
  \/ WindowEnds \/ Again \/ FirstEnds \/ SecondEnds

(* Every read ends in time, and an honest target keeps up. *)
Tick ==
  /\ pc \notin Ended /\ now < MaxTime /\ now < due
  /\ conduct = "honest" /\ shown # billing => now < changed + LagMs
  /\ now' = now + 1
  /\ UNCHANGED <<due, choices, world, pc, work>>

(* A scenario starts after the run's own step, which the provider and the  *)
(* target may not have carried out yet.                                    *)
Starts(sc) ==
  CASE sc = "SC01" -> {"absent"} [] sc = "SC02" -> {"unpaid", "active"}
    [] sc = "SC03" -> {"active", "scheduled"} [] OTHER -> {"scheduled", "overdue", "canceled"}

ObservationInit ==
  /\ now = 0 /\ changed = 0 /\ steady = FALSE
  /\ scenario \in Scenario /\ conduct \in Conduct
  /\ billing \in Starts(scenario)
  /\ shown \in {p \in Starts(scenario) : Position(p) <= Position(billing)}
  /\ pc = "poll" /\ due = ReadMs
  /\ confirmed = 0 /\ round = "window" /\ readings = NoReadings
  /\ first = [failures |-> NoResult, deserved |-> {}]
  /\ result = NoResult

ObservationNext ==
  Observe \/ Refused \/ CollectFails \/ BillingChanges \/ TargetLearns \/ Tick

ObservationSpec == ObservationInit /\ [][ObservationNext]_observationVars

-----------------------------------------------------------------------------
(* Properties *)

Returned == pc = "returned"

(* A reported failure was deserved twice: in two sets of readings, made    *)
(* after the window, the target contradicted the provider's facts.  So a   *)
(* target that keeps up with the provider within the window and answers by *)
(* what it knows is never reported to fail, however slow the reads are,    *)
(* unless the provider changed again after it was confirmed.               *)
FailureIsDeserved ==
  Returned /\ steady => \A c \in Channel : result[c] \in FailCodes =>
    conduct # "honest" /\ c \in first.deserved \cap Wrong

(* A target that always does the opposite of what the provider's facts ask *)
(* for never passes a probe while they stay as they are.                   *)
WrongNeverPasses ==
  Returned /\ conduct = "wrong" /\ steady =>
    \A c \in {"api", "browser"} : result[c] \notin PassCodes

(* It ends in time, however slow the reads are and whatever the provider   *)
(* and the target say: the provider is polled for EstablishMs, the target  *)
(* for the window, and nine reads may be under way at the ends of them.    *)
ObservedInTime == pc \notin Ended => now <= EstablishMs + SyncMs + 9 * ReadMs
=============================================================================
