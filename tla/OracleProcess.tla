---------------------------- MODULE OracleProcess ----------------------------
(***************************************************************************)
(* The oracle that judges a repair: runRepairOracle (src/repair/oracle.ts) *)
(* in a process of its own (scripts/repair-oracle.ts), started, answered   *)
(* and ended by runRepairOracleProcess (src/repair/oracle-process.ts).     *)
(*                                                                         *)
(* The two exchange frames.  Either may fail between any two of them: the  *)
(* caller aborts, the deadline passes in both, the process is killed or    *)
(* hangs, frames are lost when it exits.  What a scenario's observation    *)
(* decides is the subject of ScenarioObservation; here it is any verdict.  *)
(***************************************************************************)
EXTENDS Integers, Sequences

VARIABLES
  oracle,    \* the process: where it is
  made,      \* the process: the users it created at the target
  judged,    \* the process: what it found
  cleaned,   \* the process: the users it reports on
  exit,      \* the process: its exit code, 3 for a signal
  frames,    \* messages from it
  replies,   \* messages to it
  failure,   \* the parent: why it gave up
  accepted,    \* the parent: the report it accepted
  registration, registering,
  signal,    \* the parent: the last signal it sent
  routes,    \* the target: whose routes it lets through
  settled    \* the parent's promise

process == <<oracle, made, judged, cleaned, exit>>
parent == <<failure, accepted, registration, registering, signal, routes, settled>>
oracleVars == <<process, frames, replies, parent>>

Principal == {"free", "paid"}
Parts == {"controls", "SC01", "SC02", "SC03", "SC04"}
Order == <<"start", "free", "free-routes", "paid", "paid-routes", "link",
           "controls", "SC01", "SC02", "SC03", "SC04">>
Index(place) == CHOOSE i \in 1..Len(Order) : Order[i] = place
Working == {Order[i] : i \in 1..Len(Order)}
NextPlace(place) == IF place = "SC04" THEN "cleanup" ELSE Order[Index(place) + 1]
RouteId(p) == IF p = "free" THEN 1 ELSE 2

Verdict == {"pass", "fail", "unclear"}
Open == "open"   \* not judged
OracleReport == [found : [Parts -> Verdict], users : SUBSET Principal]
NoReport == [found |-> [part \in Parts |-> Open], users |-> {}]

(* oracleExitCode *)
ExitCode(found) ==
  IF \E part \in Parts : found[part] = "fail" THEN 1
  ELSE IF \A part \in Parts : found[part] = "pass" THEN 0 ELSE 2

Alive == oracle \notin {"spawning", "gone"}
Sends(frame) == frames' = Append(frames, frame)
Frame(type, id, content) == [type |-> type, id |-> id, report |-> content]
To(place) == oracle' = place

-----------------------------------------------------------------------------
(* The process *)

ReceivesStart ==
  /\ oracle = "waiting" /\ replies # <<>>
  /\ replies' = Tail(replies)
  /\ To("start")
  /\ UNCHANGED <<made, judged, cleaned, exit, frames, parent>>

(* The target describes itself as the build and feature under test. *)
Describes ==
  /\ oracle = "start"
  /\ To("free")
  /\ UNCHANGED <<made, judged, cleaned, exit, frames, replies, parent>>

CreatesUser(p) ==
  /\ oracle = p
  /\ made' = made \cup {p}
  /\ To(NextPlace(p))
  /\ UNCHANGED <<judged, cleaned, exit, frames, replies, parent>>

Registers(p) ==
  /\ oracle = NextPlace(p)
  /\ Sends(Frame("register", RouteId(p), NoReport))
  /\ To("acknowledge")
  /\ UNCHANGED <<made, judged, cleaned, exit, replies, parent>>

Acknowledged ==
  /\ oracle = "acknowledge" /\ replies # <<>>
  /\ replies' = Tail(replies)
  /\ To(IF Head(replies) = 1 THEN "paid" ELSE "link")
  /\ UNCHANGED <<made, judged, cleaned, exit, frames, parent>>

Links ==
  /\ oracle = "link"
  /\ To("controls")
  /\ UNCHANGED <<made, judged, cleaned, exit, frames, replies, parent>>

(* The controls are negative requests, each of which must be answered as   *)
(* expected and change nothing; a scenario is replayed and observed.       *)
Judges(part) ==
  /\ oracle = part
  /\ \E verdict \in IF part = "controls" THEN {"pass", "fail"} ELSE Verdict :
       judged' = [judged EXCEPT ![part] = verdict]
  /\ To(NextPlace(part))
  /\ UNCHANGED <<made, cleaned, exit, frames, replies, parent>>

(* Mutant: the report is sent also when the run was interrupted. *)
FailsSoftly ==
  /\ oracle \in Working \cup {"acknowledge"}
  /\ To("cleanup")
  /\ UNCHANGED <<made, judged, cleaned, exit, frames, replies, parent>>

(* A request fails or is refused, the target has changed. *)
OracleFails ==
  /\ oracle \in Working \cup {"acknowledge"}
  /\ To("failed")
  /\ UNCHANGED <<made, judged, cleaned, exit, frames, replies, parent>>

(* Each user is removed or reported as left over, also after a failure.    *)
CleansUp ==
  /\ oracle \in {"cleanup", "failed"} /\ cleaned # made
  /\ \E p \in made \ cleaned : cleaned' = cleaned \cup {p}
  /\ UNCHANGED <<oracle, made, judged, exit, frames, replies, parent>>

SendsReport ==
  /\ oracle = "cleanup" /\ cleaned = made
  /\ Sends(Frame("result", 0, [found |-> judged, users |-> cleaned]))
  /\ To("reported")
  /\ UNCHANGED <<made, judged, cleaned, exit, replies, parent>>

Exits ==
  /\ oracle = "reported"
  /\ To("gone") /\ exit' = ExitCode(judged)
  /\ UNCHANGED <<made, judged, cleaned, frames, replies, parent>>

(* finishError: a signal, the deadline, no start in time, the channel is   *)
(* gone, an unexpected message, or the failure above.                      *)
GivesUp ==
  /\ Alive
  /\ oracle = "failed" => cleaned = made
  /\ Sends(Frame("error", 0, NoReport))
  /\ To("gone") /\ exit' = 2
  /\ UNCHANGED <<made, judged, cleaned, replies, parent>>

Dies ==
  /\ Alive
  /\ To("gone") /\ exit' = 3
  /\ UNCHANGED <<made, judged, cleaned, frames, replies, parent>>

Child ==
  \/ ReceivesStart \/ Describes \/ Acknowledged \/ Links \/ OracleFails \/ CleansUp \/ SendsReport
  \/ Exits \/ GivesUp \/ Dies
  \/ \E p \in Principal : CreatesUser(p) \/ Registers(p)
  \/ \E part \in Parts : Judges(part)

-----------------------------------------------------------------------------
(* The parent *)

Gone == settled # "none"
Gives(code) ==
  IF failure # "none" THEN UNCHANGED <<failure, signal>>
  ELSE failure' = code /\ signal' = "SIGTERM"

Spawns ==
  /\ oracle = "spawning"
  /\ \/ To("waiting") /\ UNCHANGED exit
     \/ To("gone") /\ exit' = 3
  /\ replies' = IF oracle' = "waiting" /\ failure = "none" THEN <<0>> ELSE <<>>
  /\ UNCHANGED <<made, judged, cleaned, frames, parent>>

(* The caller aborts, too much output, an error of the process, the        *)
(* deadline.                                                               *)
CallerAborts ==
  /\ ~ Gone /\ failure = "none"
  /\ Gives("aborted")
  /\ UNCHANGED <<process, frames, replies, accepted, registration, registering, routes, settled>>

(* 500 milliseconds after the first signal. *)
Kills ==
  /\ ~ Gone /\ signal = "SIGTERM" /\ Alive
  /\ signal' = "SIGKILL"
  /\ To("gone") /\ exit' = 3
  /\ UNCHANGED <<made, judged, cleaned, frames, replies, failure, accepted, registration,
                 registering, routes, settled>>

Expected(frame) ==
  /\ accepted = NoReport /\ ~ registering
  /\ frame.type = "result" => registration = 2
  /\ frame.type = "register" => frame.id = registration + 1

Hears ==
  /\ frames # <<>> /\ ~ Gone
  /\ frames' = Tail(frames)
  /\ LET frame == Head(frames) IN
       IF failure # "none" THEN UNCHANGED parent
       ELSE \/ /\ frame.type = "error" \/ ~ Expected(frame)
               /\ Gives("process")
               /\ UNCHANGED <<accepted, registration, registering, routes, settled>>
            \/ /\ frame.type = "result" /\ Expected(frame)
               /\ accepted' = frame.report
               /\ UNCHANGED <<failure, signal, registration, registering, routes, settled>>
            \/ /\ frame.type = "register" /\ Expected(frame)
               /\ registering' = TRUE
               /\ UNCHANGED <<failure, accepted, registration, signal, routes, settled>>
  /\ UNCHANGED <<process, replies>>

(* registerRoutes has added them, or refused. *)
RoutesAdded ==
  /\ registering
  /\ \/ /\ routes' = routes + 1
        /\ IF failure # "none" \/ Gone THEN UNCHANGED <<registration, registering, replies>>
           ELSE /\ registration' = registration + 1 /\ registering' = FALSE
                /\ replies' = Append(replies, registration + 1)
        /\ UNCHANGED <<failure, signal>>
     \/ Gives("routes") /\ UNCHANGED <<routes, registration, registering, replies>>
  /\ routes < 2
  /\ UNCHANGED <<process, frames, accepted, settled>>

(* The process is closed: its report counts if it exited as it says.       *)
Closes ==
  /\ oracle = "gone" /\ ~ Gone
  /\ settled' = IF failure = "none" /\ accepted # NoReport /\ exit = ExitCode(accepted.found)
                THEN "accepted" ELSE "rejected"
  /\ UNCHANGED <<process, frames, replies, failure, accepted, registration, registering, signal,
                 routes>>

(* Past the deadline nothing is accepted. *)
ClosesLate ==
  /\ oracle = "gone" /\ ~ Gone
  /\ settled' = "rejected"
  /\ UNCHANGED <<process, frames, replies, failure, accepted, registration, registering, signal,
                 routes>>

Parent == Spawns \/ CallerAborts \/ Kills \/ Hears \/ RoutesAdded \/ Closes \/ ClosesLate

-----------------------------------------------------------------------------

OracleInit ==
  /\ oracle = "spawning" /\ made = {} /\ judged = NoReport.found /\ cleaned = {} /\ exit = 2
  /\ frames = <<>> /\ replies = <<>>
  /\ failure = "none" /\ accepted = NoReport /\ registration = 0 /\ registering = FALSE
  /\ signal = "none" /\ routes = 0 /\ settled = "none"

OracleNext == Child \/ Parent

(* The parent's timers fire and its events are handled.  Nothing is        *)
(* assumed of the process: it may hang anywhere.                           *)
OracleGoesOn == Spawns \/ CallerAborts \/ Kills \/ Closes
OracleFairness == WF_oracleVars(OracleGoesOn)

OracleSpec == OracleInit /\ [][OracleNext]_oracleVars /\ OracleFairness

-----------------------------------------------------------------------------
(* Properties *)

(* An accepted report is whole: every control and scenario was judged, by  *)
(* a process that came to its end, and both users are accounted for; it    *)
(* used a user's routes only after the bridge let them through.            *)
AcceptedIsWhole ==
  /\ settled = "accepted" =>
       /\ \A part \in Parts : judged[part] # Open
       /\ accepted.found = judged /\ accepted.users = Principal
       /\ exit = ExitCode(judged)
  /\ oracle \in {"paid", "paid-routes"} => routes >= 1
  /\ oracle \in {"link"} \cup Parts => routes = 2

(* The call is settled and its process is gone, wherever it hangs.         *)
OracleEnds == <>[](oracle # "spawning" => settled # "none" /\ oracle = "gone")
=============================================================================
