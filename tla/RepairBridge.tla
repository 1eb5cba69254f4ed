----------------------------- MODULE RepairBridge -----------------------------
(***************************************************************************)
(* The bridge between the oracle on the host and the target in the         *)
(* runtime's sandbox: openBridge of src/repair/sandbox.ts, the child       *)
(* process it spawns (HOST_BRIDGE) and the module the target loads         *)
(* (SANDBOX_BRIDGE).                                                       *)
(*                                                                         *)
(* The oracle's HTTP requests go to the host's server, as messages to the  *)
(* child, and one at a time over a socket that the target has dialled.  A  *)
(* socket serves one request and is dialled again.  The observation is     *)
(* awaited by the runner while its turn waits for the target to end, which *)
(* it does when the bridge is closed: each waits for another.              *)
(***************************************************************************)
EXTENDS Integers, Sequences

CONSTANTS
  Call,        \* requests of the oracle
  MaxPending   \* bound on the child's queue

ASSUME BridgeAssumption == MaxPending \in Nat \ {0}

VARIABLES
  call,     \* host: where each request is
  watch,    \* host: the observation
  closed,   \* host: close was called
  down,     \* host: messages to the child
  up,       \* host: messages from it
  child,    \* the child process
  queue,    \* the child: its pending requests
  serving,  \* the child: the request on the socket in use
  sockets,  \* the child: sockets that wait for a request
  target    \* the sandbox: the target's end

hostVars == <<call, watch, closed>>
childVars == <<child, queue, serving, sockets>>
bridgeVars == <<hostVars, down, up, childVars, target>>

NoCall == "nothing"
CallState == {"idle", "reading", "pending", "answered", "rejected"}
SetCall(c, state) == call' = [call EXCEPT ![c] = state]
Says(kind) == up' = Append(up, [kind |-> kind, of |-> NoCall])
Reply(c, verb) == up' = Append(up, [kind |-> verb, of |-> c])
Connected == child \in {"starting", "listening", "broken", "closing"}

-----------------------------------------------------------------------------
(* The host *)

(* Everything that waits for the child fails. *)
FailBridge(next) ==
  /\ call' = [c \in Call |-> IF next[c] = "pending" THEN "rejected" ELSE next[c]]
  /\ watch' = IF watch \in {"opening", "waiting", "observing"} THEN "failed" ELSE watch

(* Also the server and its connections are closed, and the child is told.  *)
(* A request whose body has just been read goes on.                        *)
CloseBridge ==
  /\ ~ closed
  /\ closed' = TRUE
  /\ \E next \in [Call -> CallState] :
       /\ \A c \in Call : next[c] = call[c] \/ (call[c] = "reading" /\ next[c] = "rejected")
       /\ FailBridge(next)
  /\ down' = IF Connected THEN Append(down, "close") ELSE down
  /\ UNCHANGED <<up, childVars, target>>

(* The child's message is handled. *)
HostHears ==
  /\ up # <<>>
  /\ up' = Tail(up)
  /\ LET message == Head(up) IN
       \/ /\ message.kind = "listening"
          /\ watch' = IF watch = "opening" THEN "waiting" ELSE watch
          /\ UNCHANGED <<call, closed>>
       \/ /\ message.kind = "ready"
          /\ watch' = IF watch = "waiting" THEN "observing" ELSE watch
          /\ UNCHANGED <<call, closed>>
       \/ message.kind = "failed" /\ FailBridge(call) /\ UNCHANGED closed
       \/ /\ message.of # NoCall
          /\ call' = [call EXCEPT ![message.of] = IF @ = "pending" THEN message.kind ELSE @]
          /\ UNCHANGED <<watch, closed>>
  /\ UNCHANGED <<down, childVars, target>>

HostSeesExit ==
  /\ child = "gone" /\ up = <<>> /\ ~ closed
  /\ FailBridge(call)
  /\ <<call', watch'>> # <<call, watch>>
  /\ UNCHANGED <<closed, down, up, childVars, target>>

(* The oracle calls while it observes. *)
Requests(c) ==
  /\ watch = "observing" /\ call[c] = "idle"
  /\ SetCall(c, "reading")
  /\ UNCHANGED <<watch, closed, down, up, childVars, target>>

(* The route, the headers or the body are rejected, or it is forwarded. *)
Forwards(c) ==
  /\ call[c] = "reading"
  /\ \/ SetCall(c, "rejected") /\ UNCHANGED down
     \/ Connected /\ SetCall(c, "pending") /\ down' = Append(down, c)
  /\ UNCHANGED <<watch, closed, up, childVars, target>>

(* 15 seconds have passed. *)
RequestExpires(c) ==
  /\ call[c] = "pending"
  /\ SetCall(c, "rejected")
  /\ UNCHANGED <<watch, closed, down, up, childVars, target>>

(* onReady returns when every request of it has been answered, or fails.   *)
Observes ==
  /\ watch = "observing"
  /\ \/ watch' = "ok" /\ \A c \in Call : call[c] \in {"answered", "rejected"}
     \/ watch' = "failed"
  /\ UNCHANGED <<call, closed, down, up, childVars, target>>

(* It is closed when the observation is settled, when the runner's turn    *)
(* fails, on an abort and when its time is over.                           *)
BridgeCloses == CloseBridge /\ watch \in {"ok", "failed"}
BridgeAborted == CloseBridge

Host == HostHears \/ HostSeesExit \/ BridgeCloses \/ \E c \in Call : Forwards(c) \/ RequestExpires(c)

-----------------------------------------------------------------------------
(* The child *)

Listens ==
  /\ child = "starting"
  /\ \/ child' = "listening" /\ Says("listening")
     \/ child' = "broken" /\ Says("failed")
  /\ UNCHANGED <<hostVars, down, queue, serving, sockets, target>>

Receives ==
  /\ Connected /\ child # "starting" /\ down # <<>>
  /\ down' = Tail(down)
  /\ LET message == Head(down) IN
       \/ /\ message = "close"
          /\ child' = "closing" /\ sockets' = 0
          /\ target' = IF target \in {"dialled", "served"} THEN "cut" ELSE target
          /\ UNCHANGED <<queue, serving, up>>
       \/ /\ message \in Call
          /\ IF Len(queue) >= MaxPending
             THEN Reply(message, "rejected") /\ UNCHANGED queue
             ELSE queue' = Append(queue, message) /\ UNCHANGED up
          /\ UNCHANGED <<child, sockets, serving, target>>
  /\ UNCHANGED hostVars

(* pump: one request at a time, on a socket that waits for one. *)
Pumps ==
  /\ Connected /\ serving = NoCall /\ sockets > 0 /\ queue # <<>>
  /\ serving' = Head(queue) /\ queue' = Tail(queue)
  /\ sockets' = sockets - 1
  /\ target' = "served"
  /\ UNCHANGED <<hostVars, down, up, child>>

(* The answer, or a response too large, a failure or 12 seconds: whichever *)
(* is first.  The socket is not used again.                                *)
Answered ==
  /\ Connected /\ serving # NoCall
  /\ \/ target = "served" /\ Reply(serving, "answered")
     \/ Reply(serving, "rejected")
  /\ serving' = NoCall
  /\ target' = IF target = "served" THEN "cut" ELSE target
  /\ UNCHANGED <<hostVars, down, child, queue, sockets>>

(* The server is closed and the channel disconnected, or 500 milliseconds  *)
(* have passed and it is killed.                                           *)
ChildCloses ==
  /\ Connected /\ (child = "closing" \/ closed)
  /\ child' = "gone" /\ sockets' = 0
  /\ target' = IF target \in {"dialled", "served"} THEN "cut" ELSE target
  /\ UNCHANGED <<hostVars, down, up, queue, serving>>

ChildDies ==
  /\ Connected
  /\ child' = "gone" /\ sockets' = 0
  /\ target' = IF target \in {"dialled", "served"} THEN "cut" ELSE target
  /\ UNCHANGED <<hostVars, down, up, queue, serving>>

BridgeChild == Listens \/ Receives \/ Pumps \/ Answered \/ ChildCloses

-----------------------------------------------------------------------------
(* The target's end, in the sandbox *)

(* It dials, sends the token and waits; the first time, the bridge is      *)
(* ready.  A listener that is gone ends it.                                *)
Dials ==
  /\ target \in {"off", "cut"} /\ watch # "opening"
  /\ \/ /\ child = "listening" /\ target' = "dialled"
        /\ sockets' = sockets + 1
        /\ IF target = "off" THEN Says("ready") ELSE UNCHANGED up
     \/ child # "listening" /\ target' = "ended" /\ UNCHANGED <<sockets, up>>
  /\ UNCHANGED <<hostVars, down, child, queue, serving>>

(* The target closes a socket that waits, for it has idled too long. *)
Drops ==
  /\ target = "dialled"
  /\ target' = "cut" /\ sockets' = sockets - 1
  /\ UNCHANGED <<hostVars, down, up, child, queue, serving>>

(* Its command fails or runs into its deadline. *)
Stops ==
  /\ target \notin {"ended"} /\ watch # "opening"
  /\ target' = "ended" /\ sockets' = 0
  /\ UNCHANGED <<hostVars, down, up, child, queue, serving>>

-----------------------------------------------------------------------------

BridgeInit ==
  /\ call = [c \in Call |-> "idle"] /\ watch = "opening" /\ closed = FALSE
  /\ down = <<>> /\ up = <<>>
  /\ child = "starting" /\ queue = <<>> /\ serving = NoCall /\ sockets = 0
  /\ target = "off"

BridgeNext ==
  \/ Host \/ BridgeChild \/ Dials \/ Drops \/ Stops \/ ChildDies \/ Observes \/ BridgeAborted
  \/ \E c \in Call : Requests(c)

(* Messages are delivered, the child runs, the target dials again, timers  *)
(* fire, and a bridge is aborted when its time is over.                    *)
BridgeFairness ==
  /\ WF_bridgeVars(Host) /\ WF_bridgeVars(BridgeChild) /\ WF_bridgeVars(Dials)
  /\ WF_bridgeVars(BridgeAborted)

BridgeSpec == BridgeInit /\ [][BridgeNext]_bridgeVars /\ BridgeFairness

-----------------------------------------------------------------------------
(* Properties *)

(* Whatever fails first, nothing is left behind: the child exits, the      *)
(* target ends, the observation is settled and every request is answered.  *)
BridgeEnds ==
  <>[](child # "starting" =>
         /\ child = "gone" /\ target = "ended" /\ watch \in {"ok", "failed"}
         /\ \A c \in Call : call[c] \in {"idle", "answered", "rejected"})
=============================================================================
