--------------------------- MODULE ReferenceTarget ---------------------------
(***************************************************************************)
(* The reference target, src/reference: the application under test.  It    *)
(* keeps the fixtures of the runs (users, made once per operation id, and  *)
(* their sessions) and a projection of each user's billing, which it       *)
(* updates from webhooks.  A Polar webhook only says where to look: the    *)
(* target reads the provider and stores what it read.  A replayed event    *)
(* carries its facts, and its own time orders it.  Webhooks are lost,      *)
(* repeated and delivered in any order, and the target restarts at will.   *)
(*                                                                         *)
(* A user is known by the operation that made it; an expired session is as *)
(* good as deleted.  The body of an event is the event itself, so that two *)
(* events with one id are two bodies.                                      *)
(***************************************************************************)
EXTENDS Integers, Sequences, Functions

CONSTANTS
  Operation,    \* operation ids of createUser
  Run,          \* runs that own fixtures
  Customer,     \* the provider's customers
  ReplayCustomer, \* customers the provider does not know
  RunOf,        \* the run in a customer's metadata
  Token,        \* session tokens
  Subscription, \* subscription ids that events name
  SubscriptionOf, \* the provider's one subscription of each customer
  ReplayEvent,  \* events the replay provider signs
  FaultMode,    \* the fault the target is told to have
  MaxVersion,   \* bound on the provider's changes
  MaxQueue      \* bound on the webhooks in flight

ASSUME ReferenceAssumption ==
  /\ ReplayCustomer \subseteq Customer
  /\ RunOf \in [Customer -> Run]
  /\ SubscriptionOf \in [Customer -> Subscription]
  /\ "none" \notin Run \cup Customer \cup Subscription \cup Operation
  /\ FaultMode \in {"none", "missing_activation", "missing_cancellation"}
  /\ MaxVersion \in Nat /\ MaxQueue \in Nat

VARIABLES
  users,     \* table reference_users, with reference_operations
  sessions,  \* table reference_sessions
  events,    \* table reference_events: who each recorded event was for
  queues,    \* the webhook handlers of each customer, in order (memory)
  provider,  \* the provider's facts about each customer's subscription
  sent       \* the webhooks the provider has sent, ever

referenceVars == <<users, sessions, events, queues, provider, sent>>
store == <<users, sessions, events>>
outside == <<provider, sent>>

-----------------------------------------------------------------------------
(* Records *)

Status == {"none", "active", "canceled"}
EventMode == {"local_replay", "polar_sandbox"}
Facts == [status : Status, paid : BOOLEAN, version : 0..MaxVersion]
NoFacts == [status |-> "none", paid |-> FALSE, version |-> 0]

(* A replayed event names its facts itself; the provider's version, which  *)
(* is history, says nothing of them.                                       *)
ASSUME ReplayAssumption ==
  \A e \in ReplayEvent :
    /\ e.mode = "local_replay" /\ e.created \in Nat
    /\ e.customer \in Customer /\ e.subscription \in Subscription /\ e.run \in Run
    /\ e.facts \in Facts /\ e.facts.version = 0

(* `facts' is what the user's row says; its version is history. *)
User == [state : {"none", "present", "removed"}, run : Run \cup {"none"},
         customer : Customer \cup {"none"}, subscription : Subscription \cup {"none"},
         facts : Facts, mode : EventMode \cup {"none"}, last : Nat]
NoUser == [state |-> "none", run |-> "none", customer |-> "none", subscription |-> "none",
           facts |-> NoFacts, mode |-> "none", last |-> 0]

(* Facts of a polar webhook are those of the provider when it was sent. *)
PolarEvent == [id : Customer \X (1..MaxVersion), mode : {"polar_sandbox"}, created : Nat,
               customer : Customer, subscription : Subscription, run : Run, facts : Facts]
Event == PolarEvent \cup ReplayEvent

Task == [event : Event, stage : {"waiting", "subscription", "orders", "ready"},
         user : Operation \cup {"none"}, facts : Facts]
NewTask(e) == [event |-> e, stage |-> "waiting", user |-> "none", facts |-> NoFacts]

Present(o) == users[o].state = "present"
Owned(o, r) == Present(o) /\ users[o].run = r
KnownId(e) == \E f \in events : f[1].id = e.id

-----------------------------------------------------------------------------
(* Fixtures *)

(* The same operation again answers with the user it made, or says that it *)
(* was removed: neither changes anything.                                  *)
CreateUser(o, r) ==
  /\ users[o].state = "none"
  /\ users' = [users EXCEPT ![o] = [NoUser EXCEPT !.state = "present", !.run = r]]
  /\ UNCHANGED <<sessions, events, queues, outside>>

(* A customer of the provider must carry the run, which is read before the *)
(* transaction and never changes.                                          *)
LinkCustomer(o, r, c) ==
  /\ Owned(o, r)
  /\ c \in ReplayCustomer \/ RunOf[c] = r
  /\ users[o].customer \in {"none", c}
  /\ \A other \in Operation \ {o} : Present(other) => users[other].customer # c
  /\ users' = [users EXCEPT ![o].customer = c]
  /\ UNCHANGED <<sessions, events, queues, outside>>

Session(o, r, t) ==
  /\ Owned(o, r)
  /\ sessions[t] = "none"
  /\ sessions' = [sessions EXCEPT ![t] = o]
  /\ UNCHANGED <<users, events, queues, outside>>

SessionExpires(t) ==
  /\ sessions[t] # "none"
  /\ sessions' = [sessions EXCEPT ![t] = "none"]
  /\ UNCHANGED <<users, events, queues, outside>>

(* The row goes, with its sessions; the operation stays on record. *)
RemoveUser(o, r) ==
  /\ Owned(o, r)
  /\ users' = [users EXCEPT ![o] = [NoUser EXCEPT !.state = "removed", !.run = r]]
  /\ sessions' = [t \in Token |-> IF sessions[t] = o THEN "none" ELSE sessions[t]]
  /\ UNCHANGED <<events, queues, outside>>

-----------------------------------------------------------------------------
(* Webhooks *)

InFlight == SumFunction([c \in Customer |-> Len(queues[c])])

(* Handlers of one customer run one after the other. *)
Deliver(e) ==
  /\ InFlight < MaxQueue
  /\ queues' = [queues EXCEPT ![e.customer] = Append(@, NewTask(e))]
  /\ UNCHANGED <<store, outside>>

Running(c) == queues[c] # <<>>
First(c) == queues[c][1]
Leave(c) == queues' = [queues EXCEPT ![c] = Tail(@)]
Proceed(c, task) == queues' = [queues EXCEPT ![c][1] = task]

(* customerUser *)
Linked(c) == {o \in Operation : Present(o) /\ users[o].customer = c}

(* Mutant: replayed and real events mix. *)
ApplicableInAnyMode(e, o) ==
  /\ ~ KnownId(e)
  /\ Present(o) /\ users[o].customer = e.customer
  /\ users[o].subscription \in {"none", e.subscription}

(* The checks of applyEvent: what was read before may be stale by now. *)
Applicable(e, o) ==
  /\ ~ KnownId(e)
  /\ Present(o) /\ users[o].customer = e.customer
  /\ users[o].mode \in {"none", e.mode}
  /\ users[o].subscription \in {"none", e.subscription}

Greater(a, b) == IF a > b THEN a ELSE b

SkipProjection(facts) ==
  \/ FaultMode = "missing_activation" /\ facts.status = "active"
  \/ FaultMode = "missing_cancellation" /\ facts.status = "canceled"

Stale(e, o) == e.mode = "local_replay" /\ e.created < users[o].last

Projected(e, o, facts) ==
  IF Stale(e, o) THEN users[o]
  ELSE LET seen == [users[o] EXCEPT !.mode = e.mode, !.last = Greater(@, e.created)]
       IN IF SkipProjection(facts) THEN seen
          ELSE [seen EXCEPT !.facts = facts, !.subscription = e.subscription]

ApplyEvent(e, o, facts) ==
  /\ Applicable(e, o)
  /\ events' = events \cup {<<e, o>>}
  /\ users' = [users EXCEPT ![o] = Projected(e, o, facts)]
  /\ UNCHANGED sessions

(* Mutant: the last event has the last word on the payment. *)
ReplayFactsOnly(e, o) == e.facts

(* A first paid invoice is never forgotten by later replays. *)
ReplayFacts(e, o) ==
  [e.facts EXCEPT
     !.paid = @ \/ (users[o].subscription = e.subscription /\ users[o].facts.paid)]

HandleReplay(c) ==
  /\ Running(c)
  /\ LET e == First(c).event IN
     /\ e.mode = "local_replay" /\ ~ KnownId(e)
     /\ \E o \in Linked(c) :
          /\ e.run = users[o].run
          /\ ApplyEvent(e, o, ReplayFacts(e, o))
  /\ Leave(c)
  /\ UNCHANGED outside

StartPolar(c) ==
  /\ Running(c) /\ First(c).stage = "waiting"
  /\ First(c).event.mode = "polar_sandbox" /\ ~ KnownId(First(c).event)
  /\ \E o \in Linked(c) :
       Proceed(c, [First(c) EXCEPT !.stage = "subscription", !.user = o])
  /\ UNCHANGED <<store, outside>>

(* observe reads the subscription first and its orders later; the customer *)
(* and the subscription must carry the user's run.                         *)
ReadSubscription(c) ==
  /\ Running(c) /\ First(c).stage = "subscription"
  /\ First(c).event.subscription = SubscriptionOf[c]
  /\ Proceed(c, [First(c) EXCEPT !.stage = "orders",
                   !.facts = [provider[c] EXCEPT !.paid = FALSE]])
  /\ UNCHANGED <<store, outside>>

ReadOrders(c) ==
  /\ Running(c) /\ First(c).stage = "orders"
  /\ Proceed(c, [First(c) EXCEPT !.stage = "ready", !.facts.paid = provider[c].paid])
  /\ UNCHANGED <<store, outside>>

HandlePolar(c) ==
  /\ Running(c) /\ First(c).stage = "ready"
  /\ ApplyEvent(First(c).event, First(c).user, First(c).facts)
  /\ Leave(c)
  /\ UNCHANGED outside

(* Mutant: an event whose facts could not be read is put on record. *)
RefuseForGood(c) ==
  /\ Running(c) /\ First(c).stage \in {"subscription", "orders"}
  /\ Applicable(First(c).event, First(c).user)
  /\ events' = events \cup {<<First(c).event, First(c).user>>}
  /\ Leave(c)
  /\ UNCHANGED <<users, sessions, outside>>

(* A duplicate is answered, anything else that is refused or cannot be     *)
(* read is an error; both leave the store as it is.                        *)
Refuse(c) ==
  /\ Running(c)
  /\ LET e == First(c).event IN
     \/ KnownId(e) \/ Linked(c) = {}
     \/ First(c).stage \in {"subscription", "orders"}
     \/ First(c).stage = "ready" /\ ~ Applicable(e, First(c).user)
     \/ e.mode = "local_replay" /\
          \E o \in Linked(c) : ~ Applicable(e, o) \/ e.run # users[o].run
  /\ Leave(c)
  /\ UNCHANGED <<store, outside>>

(* The process ends with what it had in memory and starts again. *)
Restart ==
  /\ \E c \in Customer : Running(c)
  /\ queues' = [c \in Customer |-> <<>>]
  /\ UNCHANGED <<store, outside>>

-----------------------------------------------------------------------------
(* The provider *)

ProviderChanges(c, status, paid) ==
  /\ c \notin ReplayCustomer /\ provider[c].version < MaxVersion
  /\ provider[c].paid => paid
  /\ LET facts == [status |-> status, paid |-> paid, version |-> provider[c].version + 1] IN
     /\ provider' = [provider EXCEPT ![c] = facts]
     /\ sent' = sent \cup {[id |-> <<c, facts.version>>, mode |-> "polar_sandbox",
                            created |-> facts.version, customer |-> c,
                            subscription |-> SubscriptionOf[c], run |-> RunOf[c],
                            facts |-> facts]}
  /\ UNCHANGED <<store, queues>>

-----------------------------------------------------------------------------

ReferenceInit ==
  /\ users = [o \in Operation |-> NoUser]
  /\ sessions = [t \in Token |-> "none"]
  /\ events = {}
  /\ queues = [c \in Customer |-> <<>>]
  /\ provider = [c \in Customer |-> NoFacts]
  /\ sent = {}

Fixtures ==
  \E o \in Operation, r \in Run :
    \/ CreateUser(o, r) \/ RemoveUser(o, r)
    \/ \E c \in Customer : LinkCustomer(o, r, c)
    \/ \E t \in Token : Session(o, r, t)

Webhooks(c) ==
  HandleReplay(c) \/ StartPolar(c) \/ ReadSubscription(c) \/ ReadOrders(c) \/ HandlePolar(c)
  \/ Refuse(c)

ReferenceNext ==
  \/ Fixtures
  \/ \E t \in Token : SessionExpires(t)
  \/ \E e \in sent \cup ReplayEvent : Deliver(e)
  \/ \E c \in Customer : Webhooks(c)
  \/ Restart
  \/ \E c \in Customer, status \in {"active", "canceled"}, paid \in BOOLEAN :
       ProviderChanges(c, status, paid)

ReferenceSpec == ReferenceInit /\ [][ReferenceNext]_referenceVars

-----------------------------------------------------------------------------
(* Properties *)

(* A webhook that was acknowledged has been applied while its user lives:  *)
(* the projection is at least as new as the provider was when it was sent, *)
(* and with replays it is what the newest recorded event says, by the      *)
(* events' own time.                                                       *)
AcknowledgedIsApplied ==
  /\ \A f \in events : f[1].mode = "polar_sandbox" /\ Present(f[2]) =>
       /\ users[f[2]].facts.version >= f[1].facts.version
       /\ f[1].facts.paid => users[f[2]].facts.paid
  /\ \A o \in Operation : Present(o) /\ users[o].mode = "local_replay" =>
       LET mine == {f[1] : f \in {g \in events : g[2] = o}} IN
       /\ \A e \in mine : e.created <= users[o].last
       /\ \E e \in mine : e.created = users[o].last /\ e.facts.status = users[o].facts.status

(* The projection of a user never goes back to older facts, whatever the   *)
(* order in which webhooks arrive and reads are answered.                  *)
ProjectionNeverGoesBack ==
  [][\A o \in Operation : Present(o) /\ users'[o].state = "present" =>
       /\ users'[o].facts.version >= users[o].facts.version
       /\ users[o].facts.paid => users'[o].facts.paid]_referenceVars

(* What a projection says comes from events of the user's own run and      *)
(* customer and of one mode; a fixture that was removed stays without any. *)
BillingIsOwned ==
  \A o \in Operation :
    /\ users[o].mode # "none" =>
         /\ Present(o)
         /\ \E f \in events : f[2] = o /\ f[1].mode = users[o].mode
    /\ \A f \in events : f[2] = o /\ Present(o) =>
         /\ f[1].run = users[o].run /\ f[1].customer = users[o].customer
         /\ f[1].mode = users[o].mode
=============================================================================
