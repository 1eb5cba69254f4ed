--------------------------- MODULE OperatorConsole ---------------------------
(***************************************************************************)
(* The operator's console and the worker's HTTP server: one action of a    *)
(* run, pressed again and again, over a proxy that gives up and a worker   *)
(* that crashes; and the view of the run, which polls its record and its   *)
(* events.  ApiSession.mutate (web/lib/api.ts) keeps a request id until    *)
(* the answer is definite, the table http_requests (worker/src/http.ts)    *)
(* answers an id it knows from what it stored, and RunView (run.tsx) reads *)
(* behind a durable cursor.                                                *)
(***************************************************************************)
EXTENDS Naturals, Sequences, FiniteSets

CONSTANTS
  MaxPress,     \* bound on how often the action is pressed
  MaxLog,       \* bound on the events of the log
  MaxTrouble    \* bound on crashes, reloads, expired sessions and failed reads

ASSUME ConsoleAssumption == {MaxPress, MaxLog, MaxTrouble} \subseteq Nat

VARIABLES
  requests,  \* the request of each press: its id, where it is, its answer,
             \* and, as a history, whether it acted and was seen to succeed
  rows,      \* http_requests: ids to "open" (no response yet) or the response
  keptId,    \* ApiSession.requestIds of this action; 0 is none
  ids,       \* how many ids were made
  awaited,   \* the press whose answer the view waits for; 0 is none
  signedIn,  \* whether the session is in force
  log,       \* run_events: whether each is of this run or of another
  poll,      \* RunView.refresh: whether one is under way and what it has read
  view,      \* what RunView shows
  told,      \* history: presses of which the operator was told the end (an
             \* expired session counts as one, see Definite) or gave up
  trouble    \* how often something went wrong

serverVars == <<requests, rows>>
clientVars == <<keptId, ids, awaited>>
viewVars == <<poll, view>>
consoleVars ==
  <<serverVars, clientVars, signedIn, log, viewVars, told, trouble>>

Presses == 1..Len(requests)

(* "refused" is any definite rejection, "checkout pending" and "approval   *)
(* pending" the preconditions the worker does not store, "unknown" an id   *)
(* whose first request has no response.  A 401 counts as a known end, for  *)
(* the client drops the id then: of a press that was lost and is repeated  *)
(* under an expired session nobody learns whether it acted.                *)
Answer == {"done", "refused", "checkout pending", "approval pending",
           "unknown", "unauthorized"}
Unstored == {"checkout pending", "approval pending"}
Definite == {"done", "refused", "checkout pending", "unauthorized"}

(* Whether the action of a press took place: the history of the effects.   *)
Acted == {p \in Presses : requests[p].acted}
Succeeded == {p \in Presses : requests[p].learned}

OfRun(events) == {i \in DOMAIN events : events[i] = "run"}
NoPoll == [under |-> FALSE, ofAction |-> FALSE, record |-> "unread",
           batch |-> "unread", found |-> 0, events |-> {}, cursor |-> 0]

-----------------------------------------------------------------------------
(* ApiSession.mutate *)

(* An action is pressed: one at a time, until the refresh that follows it  *)
(* ends (actionInFlight), with the id that is kept for it, or a new one.   *)
Press ==
  /\ awaited = 0 /\ ~ poll.ofAction /\ Len(requests) < MaxPress
  /\ keptId' = IF keptId # 0 THEN keptId ELSE ids + 1
  /\ ids' = IF keptId # 0 THEN ids ELSE ids + 1
  /\ requests' = Append(requests, [id |-> keptId', at |-> "sent", answer |-> "none",
                                   acted |-> FALSE, learned |-> FALSE])
  /\ awaited' = Len(requests) + 1
  /\ UNCHANGED <<rows, signedIn, log, viewVars, told, trouble>>

(* Mutant: every answer but a success is held to be definite.             *)
DropsIdAlways(answer) == TRUE

(* Whether the answer lets go of the id: a success, or a status below 500  *)
(* that is not one of the three codes.                                     *)
DropsId(answer) == answer \notin {"unknown", "approval pending", "lost"}

Forget(answer) ==
  /\ keptId' = IF DropsId(answer) THEN 0 ELSE keptId
  /\ told' = IF answer \in Definite THEN told + 1 ELSE told

(* RunView.refresh begins, unless one is under way already. *)
Refreshed(ofAction) ==
  IF poll.under THEN poll
  ELSE [NoPoll EXCEPT !.under = TRUE, !.ofAction = ofAction, !.cursor = view.cursor]

(* The answer arrives; a success is followed by a refresh.                 *)
Learn ==
  /\ awaited # 0 /\ requests[awaited].at = "answered"
  /\ LET answer == requests[awaited].answer IN
     /\ requests' = [requests EXCEPT ![awaited] =
          [@ EXCEPT !.at = "gone", !.answer = "none", !.learned = (answer = "done")]]
     /\ Forget(answer)
     /\ poll' = IF answer = "done" THEN Refreshed(TRUE) ELSE poll
  /\ awaited' = 0
  /\ UNCHANGED <<rows, ids, signedIn, log, view, trouble>>

(* The proxy's timeout (WORKER_UNAVAILABLE, 503), a lost response or one   *)
(* that cannot be read.  The request goes on its way.                      *)
Uncertain ==
  /\ awaited # 0
  /\ Forget("lost")
  /\ awaited' = 0
  /\ requests' = IF requests[awaited].at = "answered"
                 THEN [requests EXCEPT ![awaited] = [@ EXCEPT !.at = "gone", !.answer = "none"]]
                 ELSE requests
  /\ UNCHANGED <<rows, ids, signedIn, log, viewVars, trouble>>

-----------------------------------------------------------------------------
(* The worker: the session, the table of request ids, the handlers *)

(* An answer the console does not wait for any more is lost. *)
AnsweredAs(p, answer) ==
  IF p = awaited THEN [requests EXCEPT ![p].at = "answered", ![p].answer = answer]
  ELSE [requests EXCEPT ![p].at = "gone"]

(* A request arrives, perhaps long after the console gave it up. *)
Unauthorized(p) ==
  /\ requests[p].at = "sent" /\ ~ signedIn
  /\ requests' = AnsweredAs(p, "unauthorized")
  /\ UNCHANGED <<rows, clientVars, signedIn, log, viewVars, told, trouble>>

Known(p) ==
  /\ requests[p].at = "sent" /\ signedIn /\ requests[p].id \in DOMAIN rows
  /\ LET row == rows[requests[p].id] IN
     requests' = AnsweredAs(p, IF row = "open" THEN "unknown" ELSE row)
  /\ UNCHANGED <<rows, clientVars, signedIn, log, viewVars, told, trouble>>

Admit(p) ==
  /\ requests[p].at = "sent" /\ signedIn /\ requests[p].id \notin DOMAIN rows
  /\ rows' = [i \in DOMAIN rows \cup {requests[p].id} |->
                IF i = requests[p].id THEN "open" ELSE rows[i]]
  /\ requests' = [requests EXCEPT ![p].at = "handled"]
  /\ UNCHANGED <<clientVars, signedIn, log, viewVars, told, trouble>>

(* The handler does what the action is for, and says so in the log. *)
Act(p) ==
  /\ requests[p].at = "handled" /\ ~ requests[p].acted /\ Len(log) < MaxLog
  /\ requests' = [requests EXCEPT ![p].acted = TRUE]
  /\ log' = Append(log, "run")
  /\ UNCHANGED <<rows, clientVars, signedIn, viewVars, told, trouble>>

(* The handler is done: onError has made a rejection of what it threw,     *)
(* also of what it threw after it acted.                                   *)
Respond(p, answer) ==
  /\ requests[p].at = "handled"
  /\ answer \in IF requests[p].acted THEN {"done", "refused"} ELSE {"refused"} \cup Unstored
  /\ requests' = AnsweredAs(p, answer)
  /\ rows' = IF answer \in Unstored
             THEN [i \in DOMAIN rows \ {requests[p].id} |-> rows[i]]
             ELSE [rows EXCEPT ![requests[p].id] = answer]
  /\ UNCHANGED <<clientVars, signedIn, log, viewVars, told, trouble>>

-----------------------------------------------------------------------------
(* RunView *)

(* The timer of 2 s, while the page is visible. *)
Tick ==
  /\ ~ poll.under
  /\ poll' = Refreshed(FALSE)
  /\ UNCHANGED <<serverVars, clientVars, signedIn, log, view, told, trouble>>

(* GET /runs/:id and GET /runs/:id/events are answered in either order. *)
ReadRecord ==
  /\ poll.under /\ poll.record = "unread" /\ signedIn
  /\ poll' = [poll EXCEPT !.record = "read", !.found = Cardinality(OfRun(log))]
  /\ UNCHANGED <<serverVars, clientVars, signedIn, log, view, told, trouble>>

Batch(after) == {i \in OfRun(log) : i > after}
CursorOf(batch, after) ==
  IF batch = {} THEN after ELSE CHOOSE i \in batch : \A j \in batch : j <= i

ReadEvents ==
  /\ poll.under /\ poll.batch = "unread" /\ signedIn
  /\ LET batch == Batch(poll.cursor) IN
     poll' = [poll EXCEPT !.batch = "read", !.events = batch,
                          !.cursor = CursorOf(batch, poll.cursor)]
  /\ UNCHANGED <<serverVars, clientVars, signedIn, log, view, told, trouble>>

(* Both are there: the view takes the record, and merges the events. *)
Show ==
  /\ poll.under /\ poll.record = "read" /\ poll.batch = "read"
  /\ view' = [found |-> poll.found, events |-> view.events \cup poll.events,
              cursor |-> IF poll.cursor > view.cursor THEN poll.cursor ELSE view.cursor]
  /\ poll' = NoPoll
  /\ UNCHANGED <<serverVars, clientVars, signedIn, log, told, trouble>>

(* Mutant: a failed read leaves polling.current set.                       *)
PollEndsNever == poll' = [poll EXCEPT !.record = "failed"]

PollEnds == poll' = NoPoll

-----------------------------------------------------------------------------
(* What goes wrong, and what else happens *)

Trouble == trouble < MaxTrouble /\ trouble' = trouble + 1

(* A read fails: refresh ends, and the view shows the error. *)
ReadFails ==
  /\ poll.under /\ (signedIn => Trouble) /\ (~ signedIn => UNCHANGED trouble)
  /\ PollEnds
  /\ UNCHANGED <<serverVars, clientVars, signedIn, log, view, told>>

(* The worker dies and starts again: what it handled is gone, the rows     *)
(* stay.                                                                   *)
Crash ==
  /\ Trouble
  /\ requests' = [p \in Presses |-> IF requests[p].at = "answered" THEN requests[p]
                                    ELSE [requests[p] EXCEPT !.at = "gone"]]
  /\ UNCHANGED <<rows, clientVars, signedIn, log, viewVars, told>>

(* The page is loaded again, with a session of its own, after a login if   *)
(* there is none: an ApiSession keeps its ids in memory.                   *)
Reload ==
  /\ Trouble
  /\ keptId' = 0 /\ awaited' = 0 /\ signedIn' = TRUE
  /\ told' = IF keptId # 0 THEN told + 1 ELSE told
  /\ poll' = [NoPoll EXCEPT !.under = TRUE]
  /\ view' = [found |-> 0, events |-> {}, cursor |-> 0]
  /\ UNCHANGED <<serverVars, ids, log>>

Expire ==
  /\ signedIn /\ Trouble
  /\ signedIn' = FALSE
  /\ UNCHANGED <<serverVars, clientVars, log, viewVars, told>>

(* The run goes on, and so do others. *)
Happen(whose) ==
  /\ Len(log) < MaxLog
  /\ log' = Append(log, whose)
  /\ UNCHANGED <<serverVars, clientVars, signedIn, viewVars, told, trouble>>

ConsoleInit ==
  /\ requests = <<>> /\ rows = [i \in {} |-> "open"]
  /\ keptId = 0 /\ ids = 0 /\ awaited = 0 /\ signedIn = TRUE
  /\ log = <<>> /\ poll = [NoPoll EXCEPT !.under = TRUE]
  /\ view = [found |-> 0, events |-> {}, cursor |-> 0]
  /\ told = 0 /\ trouble = 0

Attend(p) ==
  \/ Unauthorized(p) \/ Known(p) \/ Admit(p) \/ Act(p)
  \/ \E answer \in Answer : Respond(p, answer)

Refreshes == ReadRecord \/ ReadEvents \/ Show

ConsoleNext ==
  \/ Press \/ Learn \/ Uncertain
  \/ \E p \in Presses : Attend(p)
  \/ Tick \/ Refreshes
  \/ ReadFails \/ Crash \/ Reload \/ Expire
  \/ \E whose \in {"run", "other"} : Happen(whose)

(* The timer ticks, and a read is answered or fails: the proxy ends it     *)
(* after 30 s.                                                             *)
ConsoleFairness ==
  /\ WF_consoleVars(Tick)
  /\ WF_consoleVars(Refreshes)

ConsoleSpec == ConsoleInit /\ [][ConsoleNext]_consoleVars /\ ConsoleFairness

-----------------------------------------------------------------------------
(* However often the action is pressed, and whatever is lost, late or      *)
(* dies: between two presses the operator knows the end of, a 401 being    *)
(* one, the action happens at most once (mutate, and the middleware of     *)
(* http.ts:176); and the console never calls a success what did not happen. *)
PressActsOnce ==
  /\ Cardinality(Acted) <= told + 1
  /\ \A p, q \in Acted : requests[p].id = requests[q].id => p = q
  /\ \A p \in Succeeded : \E q \in Acted : requests[q].id = requests[p].id

(* RunView never skips an event: what it shows is all that happened to the *)
(* run up to its cursor, whatever other runs log in between.  And while    *)
(* the page is looked at and the session lasts, it catches up: a read that *)
(* fails, or a refresh that is skipped as another is under way, is made up *)
(* for by the timer.                                                       *)
ShownCatchesUp ==
  /\ [](view.events = {i \in OfRun(log) : i <= view.cursor})
  /\ <>[]signedIn
       => <>[](view.events = OfRun(log) /\ view.found = Cardinality(OfRun(log)))
=============================================================================
