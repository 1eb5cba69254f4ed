----------------------------- MODULE TargetProofs -----------------------------
(***************************************************************************)
(* The reference target and its observation, proved.                       *)
(*                                                                         *)
(* The first part is about ReferenceTarget, for any fixtures, customers,   *)
(* runs, replayed events and bounds: billing is owned, acknowledged        *)
(* webhooks are applied, and a projection never goes back.  The second is  *)
(* about ScenarioObservation, for any window, freshness, lag and duration  *)
(* of reads: reported failures are deserved, wrong targets do not pass,    *)
(* and an observation ends in time.                                        *)
(***************************************************************************)
EXTENDS ReferenceTarget, ScenarioObservation, SequenceTheorems, TLAPS

-----------------------------------------------------------------------------
(* The target: what its tables, its handlers and the provider agree on *)

ReferenceTypeOK ==
  /\ users \in [Operation -> User]
  /\ sessions \in [Token -> Operation \cup {"none"}]
  /\ events \subseteq Event \X Operation
  /\ queues \in [Customer -> Seq(Task)]
  /\ provider \in [Customer -> Facts]
  /\ sent \subseteq PolarEvent

(* One reading of the provider is at least as new as another.              *)
Covers(new, old) == new.version >= old.version /\ (old.paid => new.paid)

(* A webhook names a customer of the provider, with the run of its         *)
(* metadata, and says nothing that the provider did not know.              *)
SentIsTrue ==
  \A e \in sent :
    /\ e.customer \notin ReplayCustomer /\ e.run = RunOf[e.customer]
    /\ Covers(provider[e.customer], e.facts)

(* The handlers of a customer have that customer's events, and all but the *)
(* first wait.                                                             *)
Queued(c, task) == task.event \in sent \cup ReplayEvent /\ task.event.customer = c
InOrder(c, queue) ==
  \A i \in 1..Len(queue) : Queued(c, queue[i]) /\ (i # 1 => queue[i].stage = "waiting")
QueuesKnow == \A c \in Customer : InOrder(c, queues[c])

(* What the first handler read is as new as its webhook and as the row it  *)
(* is about to write, and the provider has not gone back since.            *)
ReadSoFar(task, facts) ==
  facts.version <= task.facts.version
  /\ (task.stage = "ready" /\ facts.paid => task.facts.paid)
Knows(c, task) ==
  /\ task.stage # "waiting" => task.event \in sent /\ task.user \in Operation
  /\ task.stage \in {"orders", "ready"} =>
       /\ Covers(provider[c], task.facts)
       /\ ReadSoFar(task, task.event.facts)
       /\ users[task.user].customer = c /\ users[task.user].mode = "polar_sandbox" =>
            ReadSoFar(task, users[task.user].facts)
HeadsKnow == \A c \in Customer : Running(c) => Knows(c, First(c))

(* A projection belongs to a user with a customer, whose run it is, and    *)
(* says nothing before its first event; a replay's version is zero, and    *)
(* the provider is ahead of what was read from it.                         *)
Consistent(u) ==
  /\ u.mode = "none" => u.facts = NoFacts /\ u.subscription = "none" /\ u.last = 0
  /\ u.mode # "none" => u.state = "present" /\ u.customer # "none"
  /\ u.subscription = "none" => u.facts = NoFacts
  /\ u.customer # "none" => u.customer \in ReplayCustomer \/ RunOf[u.customer] = u.run
  /\ u.mode = "local_replay" => u.facts.version = 0
  /\ u.mode = "polar_sandbox" => Covers(provider[u.customer], u.facts)
UsersKnow == \A o \in Operation : Consistent(users[o])

(* A recorded event was for an operation that made a user.                 *)
EventsKnow == \A f \in events : users[f[2]].state # "none"

(* The inductive invariant of the target.                                  *)
ReferenceInv ==
  /\ ReferenceTypeOK
  /\ SentIsTrue /\ QueuesKnow /\ HeadsKnow /\ UsersKnow /\ EventsKnow
  /\ BillingIsOwned

-----------------------------------------------------------------------------
(* Lemmas about queues and records *)

(* The queue that is left when the first handler is through.               *)
LEMMA TailOfQueue ==
  ASSUME NEW S, NEW q \in Seq(S), q # <<>>
  PROVE /\ q[1] \in S /\ 1 \in 1..Len(q)
        /\ Tail(q) \in Seq(S)
        /\ \A i \in 1..Len(Tail(q)) : i + 1 \in 1..Len(q) /\ Tail(q)[i] = q[i + 1]
<1>1. Len(q) \in Nat /\ Len(q) # 0
  BY EmptySeq
<1>2. Tail(q) \in Seq(S) /\ Len(Tail(q)) = Len(q) - 1
  BY HeadTailProperties
<1>3. \A i \in 1..Len(Tail(q)) : Tail(q)[i] = q[i + 1]
  BY HeadTailProperties
<1>4. q[1] \in S
  BY <1>1, ElementOfSeq
<1> QED
  BY <1>1, <1>2, <1>3, <1>4

(* The queue with another first handler.                                   *)
LEMMA FirstOfQueue ==
  ASSUME NEW S, NEW q \in Seq(S), q # <<>>, NEW t \in S
  PROVE /\ [q EXCEPT ![1] = t] \in Seq(S) /\ [q EXCEPT ![1] = t] # <<>>
        /\ Len([q EXCEPT ![1] = t]) = Len(q)
        /\ [q EXCEPT ![1] = t][1] = t
        /\ \A i \in 1..Len(q) : i # 1 => [q EXCEPT ![1] = t][i] = q[i]
<1>1. Len(q) \in Nat /\ Len(q) # 0
  BY EmptySeq
<1>2. /\ [q EXCEPT ![1] = t] \in Seq(S)
      /\ Len([q EXCEPT ![1] = t]) = Len(q)
      /\ \A i \in 1..Len(q) : [q EXCEPT ![1] = t][i] = IF i = 1 THEN t ELSE q[i]
  BY ExceptSeq
<1>3. [q EXCEPT ![1] = t] # <<>>
  BY <1>1, <1>2, EmptySeq
<1> QED
  BY <1>1, <1>2, <1>3

(* The queue with one more handler.                                        *)
LEMMA LastOfQueue ==
  ASSUME NEW S, NEW q \in Seq(S), NEW t \in S
  PROVE /\ Append(q, t) \in Seq(S)
        /\ Len(Append(q, t)) = Len(q) + 1 /\ Len(q) \in Nat
        /\ \A i \in 1..Len(q) : Append(q, t)[i] = q[i]
        /\ Append(q, t)[Len(q) + 1] = t
BY AppendProperties

LEMMA NewTaskTyped ==
  ASSUME NEW e \in Event
  PROVE /\ NewTask(e) \in Task
        /\ NewTask(e).event = e /\ NewTask(e).stage = "waiting"
BY ReferenceAssumption DEF NewTask, Task, NoFacts, Facts, Status

(* The handler with the next stage, and what it read or found.             *)
LEMMA TaskFound ==
  ASSUME NEW t \in Task, NEW o \in Operation
  PROVE LET next == [t EXCEPT !.stage = "subscription", !.user = o] IN
        next \in Task /\ next.event = t.event /\ next.stage = "subscription" /\ next.user = o
BY DEF Task

LEMMA TaskReads ==
  ASSUME NEW t \in Task, NEW facts \in Facts, NEW stage \in {"orders", "ready"}
  PROVE LET next == [t EXCEPT !.stage = stage, !.facts = facts] IN
        /\ next \in Task /\ next.event = t.event /\ next.stage = stage
        /\ next.user = t.user /\ next.facts = facts
BY DEF Task

-----------------------------------------------------------------------------
(* The target: its invariant is inductive *)

LEMMA ReferenceInvInit == ReferenceInit => ReferenceInv
<1> SUFFICES ASSUME ReferenceInit PROVE ReferenceInv
  OBVIOUS
<1>1. NoUser \in User /\ NoFacts \in Facts /\ Consistent(NoUser) /\ NoUser.mode = "none"
      /\ NoUser.state = "none"
  BY ReferenceAssumption DEF NoUser, User, NoFacts, Facts, Status, Consistent
<1>2. \A c \in Customer : queues[c] = <<>>
  BY DEF ReferenceInit
<1>3. ReferenceTypeOK
  <2>1. <<>> \in Seq(Task)
    BY EmptySeq
  <2> QED
    BY <1>1, <2>1 DEF ReferenceInit, ReferenceTypeOK
<1>4. QueuesKnow /\ HeadsKnow
  <2>1. \A c \in Customer : InOrder(c, queues[c])
    BY <1>2, EmptySeq DEF InOrder
  <2> QED
    BY <1>2, <2>1 DEF QueuesKnow, HeadsKnow, Running
<1>5. UsersKnow /\ BillingIsOwned
  BY <1>1 DEF ReferenceInit, UsersKnow, BillingIsOwned, Present
<1> QED
  BY <1>3, <1>4, <1>5 DEF ReferenceInv, ReferenceInit, SentIsTrue, EventsKnow

(* A queue changes and nothing else.                                       *)
LEMMA QueueStep ==
  ASSUME ReferenceInv, NEW c \in Customer, NEW q \in Seq(Task),
         queues' = [queues EXCEPT ![c] = q],
         UNCHANGED <<store, outside>>,
         InOrder(c, q), q # <<>> => Knows(c, q[1])
  PROVE  ReferenceInv'
<1> USE DEF store, outside
<1>1. ReferenceTypeOK'
  BY DEF ReferenceInv, ReferenceTypeOK
<1>2. \A d \in Customer : queues'[d] = IF d = c THEN q ELSE queues[d]
  BY DEF ReferenceInv, ReferenceTypeOK
<1>3. QueuesKnow'
  <2>1. SUFFICES ASSUME NEW d \in Customer PROVE InOrder(d, queues[d])'
    BY DEF QueuesKnow
  <2>2. InOrder(d, queues'[d])
    BY <1>2 DEF ReferenceInv, QueuesKnow
  <2> QED
    BY <2>2 DEF InOrder, Queued
<1>4. HeadsKnow'
  <2>1. SUFFICES ASSUME NEW d \in Customer, queues'[d] # <<>> PROVE Knows(d, queues[d][1])'
    BY DEF HeadsKnow, Running, First
  <2>2. Knows(d, queues'[d][1])
    BY <1>2, <2>1 DEF ReferenceInv, HeadsKnow, Running, First
  <2> QED
    BY <2>2 DEF Knows, ReadSoFar, Covers
<1>5. SentIsTrue' /\ UsersKnow' /\ EventsKnow' /\ BillingIsOwned'
  BY DEF ReferenceInv, SentIsTrue, UsersKnow, EventsKnow, BillingIsOwned, Consistent, Covers,
         Present
<1> QED
  BY <1>1, <1>3, <1>4, <1>5 DEF ReferenceInv

(* The first handler of a customer ends or goes on.                        *)
LEMMA LeaveStep ==
  ASSUME ReferenceInv, NEW c \in Customer, Running(c), Leave(c), UNCHANGED <<store, outside>>
  PROVE  ReferenceInv'
<1> DEFINE q == Tail(queues[c])
<1>1. queues[c] \in Seq(Task) /\ queues[c] # <<>>
  BY DEF ReferenceInv, ReferenceTypeOK, Running
<1>2. q \in Seq(Task) /\ \A i \in 1..Len(q) : i + 1 \in 1..Len(queues[c]) /\ q[i] = queues[c][i + 1]
  BY <1>1, TailOfQueue
<1>3. queues' = [queues EXCEPT ![c] = q]
  BY DEF Leave
<1>4. \A i \in 1..Len(q) : Queued(c, q[i]) /\ q[i].stage = "waiting"
  BY <1>2 DEF ReferenceInv, QueuesKnow, InOrder
<1>5. InOrder(c, q)
  BY <1>4 DEF InOrder
<1>6. q # <<>> => Knows(c, q[1])
  BY <1>2, <1>4, TailOfQueue DEF Knows
<1> HIDE DEF q
<1> QED
  BY <1>2, <1>3, <1>5, <1>6, QueueStep

LEMMA ProceedStep ==
  ASSUME ReferenceInv, NEW c \in Customer, Running(c), NEW task \in Task, Proceed(c, task),
         task.event = First(c).event, Knows(c, task), UNCHANGED <<store, outside>>
  PROVE  ReferenceInv'
<1> DEFINE q == [queues[c] EXCEPT ![1] = task]
<1>1. queues[c] \in Seq(Task) /\ queues[c] # <<>> /\ 1 \in 1..Len(queues[c])
  BY TailOfQueue DEF ReferenceInv, ReferenceTypeOK, Running
<1>2. /\ q \in Seq(Task) /\ Len(q) = Len(queues[c]) /\ q[1] = task
      /\ \A i \in 1..Len(queues[c]) : i # 1 => q[i] = queues[c][i]
  BY <1>1, FirstOfQueue
<1>3. queues' = [queues EXCEPT ![c] = q]
  BY DEF Proceed
<1>4. \A i \in 1..Len(queues[c]) :
        Queued(c, queues[c][i]) /\ (i # 1 => queues[c][i].stage = "waiting")
  BY DEF ReferenceInv, QueuesKnow, InOrder
<1>5. Queued(c, task)
  BY <1>1, <1>4 DEF Queued, First
<1> HIDE DEF q
<1>6. InOrder(c, q)
  BY <1>2, <1>4, <1>5 DEF InOrder
<1> QED
  BY <1>2, <1>3, <1>6, QueueStep

LEMMA DeliverStep ==
  ASSUME ReferenceInv, NEW e \in sent \cup ReplayEvent, Deliver(e)
  PROVE  ReferenceInv'
<1> DEFINE c == e.customer
<1> DEFINE q == Append(queues[c], NewTask(e))
<1>1. e \in Event /\ c \in Customer
  BY ReplayAssumption DEF ReferenceInv, ReferenceTypeOK, Event, PolarEvent
<1>2. queues[c] \in Seq(Task) /\ NewTask(e) \in Task
  BY <1>1, NewTaskTyped DEF ReferenceInv, ReferenceTypeOK
<1>3. /\ q \in Seq(Task) /\ Len(q) = Len(queues[c]) + 1 /\ Len(queues[c]) \in Nat
      /\ \A i \in 1..Len(queues[c]) : q[i] = queues[c][i]
      /\ q[Len(queues[c]) + 1] = NewTask(e)
  BY <1>2, LastOfQueue
<1>4. queues' = [queues EXCEPT ![c] = q] /\ UNCHANGED <<store, outside>>
  BY DEF Deliver
<1>5. InOrder(c, queues[c])
  BY <1>1 DEF ReferenceInv, QueuesKnow
<1>6. Queued(c, NewTask(e)) /\ NewTask(e).stage = "waiting"
  BY <1>1, NewTaskTyped DEF Queued
<1>7. queues[c] # <<>> => Knows(c, queues[c][1])
  BY <1>1 DEF ReferenceInv, HeadsKnow, Running, First
<1>8. queues[c] # <<>> => 1 \in 1..Len(queues[c])
  BY <1>2, TailOfQueue
<1>9. queues[c] = <<>> => Len(queues[c]) = 0
  BY EmptySeq
<1> HIDE DEF c, q
<1>10. InOrder(c, q)
  BY <1>3, <1>5, <1>6 DEF InOrder
<1>11. q # <<>> => Knows(c, q[1])
  <2>1. CASE queues[c] # <<>>
    BY <1>3, <1>7, <1>8, <2>1
  <2>2. CASE queues[c] = <<>>
    <3>1. q[1] = NewTask(e)
      BY <1>3, <1>9, <2>2
    <3> QED
      BY <1>6, <3>1 DEF Knows
  <2> QED
    BY <2>1, <2>2
<1> QED
  BY <1>1, <1>3, <1>4, <1>10, <1>11, QueueStep DEF c

LEMMA RestartStep == ASSUME ReferenceInv, Restart PROVE ReferenceInv'
<1> USE DEF store, outside
<1>1. /\ queues' = [c \in Customer |-> <<>>]
      /\ UNCHANGED <<users, sessions, events, provider, sent>>
  BY DEF Restart
<1>2. ReferenceTypeOK'
  BY <1>1, EmptySeq DEF ReferenceInv, ReferenceTypeOK
<1>3. QueuesKnow' /\ HeadsKnow'
  BY <1>1, EmptySeq DEF QueuesKnow, HeadsKnow, Running, InOrder
<1>4. SentIsTrue' /\ UsersKnow' /\ EventsKnow' /\ BillingIsOwned'
  BY <1>1 DEF ReferenceInv, SentIsTrue, UsersKnow, EventsKnow, BillingIsOwned, Consistent,
              Covers, Present
<1> QED
  BY <1>2, <1>3, <1>4 DEF ReferenceInv

(* What is known of the first handler of a customer.                       *)
LEMMA FirstKnown ==
  ASSUME ReferenceInv, NEW c \in Customer, Running(c)
  PROVE /\ First(c) \in Task /\ First(c).event \in sent \cup ReplayEvent
        /\ First(c).event.customer = c
        /\ Knows(c, First(c))
        /\ First(c).event \in Event
<1>1. queues[c] \in Seq(Task) /\ queues[c] # <<>>
  BY DEF ReferenceInv, ReferenceTypeOK, Running
<1>2. First(c) \in Task /\ 1 \in 1..Len(queues[c])
  BY <1>1, TailOfQueue DEF First
<1>3. Queued(c, First(c))
  BY <1>2 DEF ReferenceInv, QueuesKnow, InOrder, First
<1>4. First(c).event \in Event
  BY <1>2 DEF Task
<1> QED
  BY <1>2, <1>3, <1>4 DEF ReferenceInv, HeadsKnow, Queued

LEMMA StartStep ==
  ASSUME ReferenceInv, NEW c \in Customer, StartPolar(c)
  PROVE  ReferenceInv'
<1>1. Running(c) /\ First(c).event.mode = "polar_sandbox" /\ UNCHANGED <<store, outside>>
  BY DEF StartPolar
<1>2. PICK o \in Linked(c) : Proceed(c, [First(c) EXCEPT !.stage = "subscription", !.user = o])
  BY DEF StartPolar
<1>3. o \in Operation
  BY DEF Linked
<1> DEFINE next == [First(c) EXCEPT !.stage = "subscription", !.user = o]
<1>4. First(c) \in Task /\ First(c).event \in sent
  BY <1>1, FirstKnown, ReplayAssumption
<1>5. next \in Task /\ next.event = First(c).event /\ next.stage = "subscription" /\ next.user = o
  BY <1>3, <1>4, TaskFound
<1>6. Proceed(c, next)
  BY <1>2
<1> HIDE DEF next
<1>7. Knows(c, next)
  BY <1>3, <1>4, <1>5 DEF Knows
<1> QED
  BY <1>1, <1>5, <1>6, <1>7, ProceedStep

(* A row that was written from the provider says no more than it does now. *)
LEMMA RowsBehind ==
  ASSUME ReferenceInv, NEW c \in Customer, NEW o \in Operation,
         users[o].customer = c, users[o].mode = "polar_sandbox"
  PROVE  Covers(provider[c], users[o].facts)
BY DEF ReferenceInv, UsersKnow, Consistent

LEMMA SubscriptionStep ==
  ASSUME ReferenceInv, NEW c \in Customer, ReadSubscription(c)
  PROVE  ReferenceInv'
<1> DEFINE facts == [provider[c] EXCEPT !.paid = FALSE]
<1> DEFINE next == [First(c) EXCEPT !.stage = "orders", !.facts = facts]
<1>1. /\ Running(c) /\ First(c).stage = "subscription" /\ UNCHANGED <<store, outside>>
      /\ Proceed(c, next)
  BY DEF ReadSubscription
<1>2. First(c) \in Task /\ First(c).event \in sent /\ First(c).user \in Operation
      /\ First(c).event.customer = c
  BY <1>1, FirstKnown DEF Knows
<1>3. provider[c] \in Facts /\ provider[c].version \in Int
  BY DEF ReferenceInv, ReferenceTypeOK, Facts
<1>4. facts \in Facts /\ facts.version = provider[c].version /\ facts.paid = FALSE
  BY <1>3 DEF Facts
<1> HIDE DEF facts
<1>5. /\ next \in Task /\ next.event = First(c).event /\ next.stage = "orders"
      /\ next.user = First(c).user /\ next.facts = facts
  BY <1>2, <1>4, TaskReads
<1> HIDE DEF next
<1>6. Covers(provider[c], next.facts)
  BY <1>3, <1>4, <1>5 DEF Covers
<1>7. Covers(provider[c], First(c).event.facts)
  BY <1>2 DEF ReferenceInv, SentIsTrue
<1>8. ReadSoFar(next, next.event.facts)
  BY <1>4, <1>5, <1>7 DEF Covers, ReadSoFar
<1>9. users[next.user].customer = c /\ users[next.user].mode = "polar_sandbox" =>
        ReadSoFar(next, users[next.user].facts)
  BY <1>2, <1>4, <1>5, RowsBehind DEF Covers, ReadSoFar
<1>10. Knows(c, next)
  BY <1>2, <1>5, <1>6, <1>8, <1>9 DEF Knows
<1> QED
  BY <1>1, <1>5, <1>10, ProceedStep

LEMMA OrdersStep ==
  ASSUME ReferenceInv, NEW c \in Customer, ReadOrders(c)
  PROVE  ReferenceInv'
<1> DEFINE facts == [First(c).facts EXCEPT !.paid = provider[c].paid]
<1> DEFINE next == [First(c) EXCEPT !.stage = "ready", !.facts = facts]
<1>1. /\ Running(c) /\ First(c).stage = "orders" /\ UNCHANGED <<store, outside>>
      /\ Proceed(c, [First(c) EXCEPT !.stage = "ready", !.facts.paid = provider[c].paid])
  BY DEF ReadOrders
<1>2. First(c) \in Task /\ First(c).event \in sent /\ First(c).user \in Operation
      /\ First(c).event.customer = c /\ Knows(c, First(c))
  BY <1>1, FirstKnown DEF Knows
<1>3. provider[c].paid \in BOOLEAN /\ First(c).facts \in Facts
  BY <1>2 DEF ReferenceInv, ReferenceTypeOK, Facts, Task
<1>4. facts \in Facts /\ facts.version = First(c).facts.version /\ facts.paid = provider[c].paid
  BY <1>3 DEF Facts
<1>5. Proceed(c, next)
  BY <1>1, <1>2 DEF Task
<1> HIDE DEF facts
<1>6. /\ next \in Task /\ next.event = First(c).event /\ next.stage = "ready"
      /\ next.user = First(c).user /\ next.facts = facts
  BY <1>2, <1>4, TaskReads
<1> HIDE DEF next
<1>7. /\ Covers(provider[c], First(c).facts)
      /\ ReadSoFar(First(c), First(c).event.facts)
      /\ users[next.user].customer = c /\ users[next.user].mode = "polar_sandbox" =>
           ReadSoFar(First(c), users[next.user].facts)
  BY <1>1, <1>2, <1>6 DEF Knows
<1>8. Covers(provider[c], next.facts)
  BY <1>4, <1>6, <1>7 DEF Covers
<1>9. Covers(provider[c], First(c).event.facts)
  BY <1>2 DEF ReferenceInv, SentIsTrue
<1>10. ReadSoFar(next, next.event.facts)
  BY <1>4, <1>6, <1>7, <1>9 DEF Covers, ReadSoFar
<1>11. users[next.user].customer = c /\ users[next.user].mode = "polar_sandbox" =>
        ReadSoFar(next, users[next.user].facts)
  BY <1>2, <1>4, <1>6, <1>7, RowsBehind DEF Covers, ReadSoFar
<1>12. Knows(c, next)
  BY <1>2, <1>6, <1>8, <1>10, <1>11 DEF Knows
<1> QED
  BY <1>1, <1>5, <1>6, <1>12, ProceedStep

(* A fixture is made, linked or removed: its row says nothing of billing.  *)
LEMMA RowStep ==
  ASSUME ReferenceInv, NEW o \in Operation, NEW u \in User,
         Consistent(u), u.mode = "none", u.state # "none",
         u.state = "present" => \A f \in events : f[2] # o,
         users' = [users EXCEPT ![o] = u],
         sessions' \in [Token -> Operation \cup {"none"}],
         UNCHANGED <<events, queues, outside>>
  PROVE  ReferenceInv'
<1> USE DEF outside
<1>1. ReferenceTypeOK'
  BY DEF ReferenceInv, ReferenceTypeOK
<1>2. \A p \in Operation : users'[p] = IF p = o THEN u ELSE users[p]
  BY DEF ReferenceInv, ReferenceTypeOK
<1>3. SentIsTrue' /\ QueuesKnow'
  BY DEF ReferenceInv, SentIsTrue, QueuesKnow, InOrder, Queued, Covers
<1>4. HeadsKnow'
  <2>1. SUFFICES ASSUME NEW c \in Customer, queues[c] # <<>> PROVE Knows(c, queues[c][1])'
    BY DEF HeadsKnow, Running, First
  <2>2. Knows(c, queues[c][1])
    BY <2>1 DEF ReferenceInv, HeadsKnow, Running, First
  <2> QED
    BY <1>2, <2>2 DEF Knows, ReadSoFar, Covers
<1>5. UsersKnow'
  <2>1. \A p \in Operation : Consistent(users[p])
    BY DEF ReferenceInv, UsersKnow
  <2>2. \A p \in Operation : Consistent(users'[p])
    BY <1>2, <2>1
  <2> QED
    BY <2>2 DEF UsersKnow, Consistent, Covers
<1>6. \A f \in events : f[2] \in Operation
  BY DEF ReferenceInv, ReferenceTypeOK
<1>7. EventsKnow'
  BY <1>2, <1>6 DEF ReferenceInv, EventsKnow
<1>8. BillingIsOwned'
  <2>1. SUFFICES ASSUME NEW p \in Operation
                 PROVE  /\ users'[p].mode # "none" =>
                             /\ users'[p].state = "present"
                             /\ \E f \in events : f[2] = p /\ f[1].mode = users'[p].mode
                        /\ \A f \in events : f[2] = p /\ users'[p].state = "present" =>
                             /\ f[1].run = users'[p].run /\ f[1].customer = users'[p].customer
                             /\ f[1].mode = users'[p].mode
    BY DEF BillingIsOwned, Present
  <2>2. CASE p = o
    BY <1>2, <2>2
  <2>3. CASE p # o
    BY <1>2, <2>3 DEF ReferenceInv, BillingIsOwned, Present
  <2> QED
    BY <2>2, <2>3
<1> QED
  BY <1>1, <1>3, <1>4, <1>5, <1>7, <1>8 DEF ReferenceInv

(* Sessions are apart from everything else.                                *)
LEMMA SessionsOnly ==
  ASSUME ReferenceInv, sessions' \in [Token -> Operation \cup {"none"}],
         UNCHANGED <<users, events, queues, outside>>
  PROVE  ReferenceInv'
BY DEF ReferenceInv, ReferenceTypeOK, SentIsTrue, QueuesKnow, InOrder, Queued, HeadsKnow,
       Running, First, Knows, ReadSoFar, UsersKnow, Consistent, EventsKnow, BillingIsOwned,
       Present, Covers, outside

LEMMA BlankRow ==
  ASSUME NEW r \in Run, NEW state \in {"present", "removed"}
  PROVE  LET u == [NoUser EXCEPT !.state = state, !.run = r] IN
         u \in User /\ Consistent(u) /\ u.mode = "none" /\ u.state = state
<1> DEFINE v == [NoUser EXCEPT !.state = state]
<1> DEFINE u == [v EXCEPT !.run = r]
<1>1. NoFacts \in Facts
  BY ReferenceAssumption DEF NoFacts, Facts, Status
<1>2. /\ NoUser \in User /\ NoUser.mode = "none" /\ NoUser.facts = NoFacts
      /\ NoUser.subscription = "none" /\ NoUser.last = 0 /\ NoUser.customer = "none"
  BY <1>1 DEF NoUser, User
<1>3. /\ v \in User /\ v.mode = "none" /\ v.facts = NoFacts /\ v.state = state
      /\ v.subscription = "none" /\ v.last = 0 /\ v.customer = "none"
  BY <1>2 DEF User
<1> HIDE DEF v
<1>4. /\ u \in User /\ u.mode = "none" /\ u.facts = NoFacts /\ u.state = state
      /\ u.subscription = "none" /\ u.last = 0 /\ u.customer = "none"
  BY <1>3 DEF User
<1> HIDE DEF u
<1>5. Consistent(u)
  BY <1>4 DEF Consistent
<1> QED
  BY <1>4, <1>5 DEF u, v

LEMMA CreateStep ==
  ASSUME ReferenceInv, NEW o \in Operation, NEW r \in Run, CreateUser(o, r)
  PROVE  ReferenceInv'
<1> DEFINE u == [NoUser EXCEPT !.state = "present", !.run = r]
<1>1. u \in User /\ Consistent(u) /\ u.mode = "none" /\ u.state = "present"
  BY BlankRow
<1>2. users' = [users EXCEPT ![o] = u] /\ UNCHANGED <<sessions, events, queues, outside>>
      /\ users[o].state = "none"
  BY DEF CreateUser
<1>3. \A f \in events : f[2] # o
  BY <1>2 DEF ReferenceInv, EventsKnow
<1>4. sessions' \in [Token -> Operation \cup {"none"}]
  BY <1>2 DEF ReferenceInv, ReferenceTypeOK
<1> HIDE DEF u
<1> QED
  BY <1>1, <1>2, <1>3, <1>4, RowStep

LEMMA RemoveStep ==
  ASSUME ReferenceInv, NEW o \in Operation, NEW r \in Run, RemoveUser(o, r)
  PROVE  ReferenceInv'
<1> DEFINE u == [NoUser EXCEPT !.state = "removed", !.run = r]
<1>1. u \in User /\ Consistent(u) /\ u.mode = "none" /\ u.state = "removed"
  BY BlankRow
<1>2. users' = [users EXCEPT ![o] = u] /\ UNCHANGED <<events, queues, outside>>
      /\ sessions' = [t \in Token |-> IF sessions[t] = o THEN "none" ELSE sessions[t]]
  BY DEF RemoveUser
<1>3. sessions' \in [Token -> Operation \cup {"none"}]
  BY <1>2 DEF ReferenceInv, ReferenceTypeOK
<1> HIDE DEF u
<1> QED
  BY <1>1, <1>2, <1>3, RowStep

(* A link made again changes nothing; before the first one there is no     *)
(* event.                                                                  *)
LEMMA LinkStep ==
  ASSUME ReferenceInv, NEW o \in Operation, NEW r \in Run, NEW c \in Customer,
         LinkCustomer(o, r, c)
  PROVE  ReferenceInv'
<1> DEFINE u == [users[o] EXCEPT !.customer = c]
<1>1. /\ users[o].state = "present" /\ users[o].run = r
      /\ c \in ReplayCustomer \/ RunOf[c] = r
      /\ users[o].customer \in {"none", c}
      /\ users' = [users EXCEPT ![o].customer = c]
      /\ UNCHANGED <<sessions, events, queues, outside>>
  BY DEF LinkCustomer, Owned, Present
<1>2. sessions' \in [Token -> Operation \cup {"none"}]
  BY <1>1 DEF ReferenceInv, ReferenceTypeOK
<1>3. users[o] \in User /\ Consistent(users[o]) /\ users' = [users EXCEPT ![o] = u]
  BY <1>1 DEF ReferenceInv, ReferenceTypeOK, UsersKnow
<1>4. /\ u \in User /\ u.customer = c /\ u.state = users[o].state /\ u.run = users[o].run
      /\ u.mode = users[o].mode /\ u.facts = users[o].facts /\ u.last = users[o].last
      /\ u.subscription = users[o].subscription
  BY <1>3 DEF User
<1>5. CASE users[o].customer = c
  <2>1. u = users[o]
    BY <1>3, <1>5 DEF User
  <2>2. users' = users
    BY <1>3, <2>1 DEF ReferenceInv, ReferenceTypeOK
  <2> QED
    BY <1>1, <1>2, <2>2, SessionsOnly
<1>6. CASE users[o].customer = "none"
  <2>1. u.mode = "none" /\ u.state = "present"
    BY <1>1, <1>3, <1>4, <1>6 DEF Consistent
  <2>2. Consistent(u)
    BY <1>1, <1>3, <1>4, <2>1 DEF Consistent
  <2>3. \A f \in events : f[2] # o
    <3>1. SUFFICES ASSUME NEW f \in events, f[2] = o PROVE FALSE
      OBVIOUS
    <3>2. f[1].mode = "none" /\ f[1] \in Event
      BY <1>1, <1>4, <2>1, <3>1 DEF ReferenceInv, ReferenceTypeOK, BillingIsOwned, Present
    <3> QED
      BY <3>2, ReplayAssumption DEF Event, PolarEvent
  <2> HIDE DEF u
  <2> QED
    BY <1>1, <1>2, <1>3, <1>4, <2>1, <2>2, <2>3, RowStep
<1> QED
  BY <1>1, <1>5, <1>6

LEMMA FixtureStep == ASSUME ReferenceInv, Fixtures PROVE ReferenceInv'
<1>1. PICK o \in Operation, r \in Run :
        \/ CreateUser(o, r) \/ RemoveUser(o, r)
        \/ \E c \in Customer : LinkCustomer(o, r, c)
        \/ \E t \in Token : Session(o, r, t)
  BY DEF Fixtures
<1>2. CASE \E t \in Token : Session(o, r, t)
  <2>1. PICK t \in Token : Session(o, r, t)
    BY <1>2
  <2>2. sessions' \in [Token -> Operation \cup {"none"}]
    BY <2>1 DEF Session, ReferenceInv, ReferenceTypeOK
  <2> QED
    BY <2>1, <2>2, SessionsOnly DEF Session
<1> QED
  BY <1>1, <1>2, CreateStep, RemoveStep, LinkStep

(* What applyEvent makes of a row: nothing when a replay is late; and else *)
(* the mode and the time of the event, with its facts unless a fault is    *)
(* injected.                                                               *)
SameFixture(new, old) ==
  new.state = old.state /\ new.run = old.run /\ new.customer = old.customer
SameFacts(new, old) == new.facts = old.facts /\ new.subscription = old.subscription

LEMMA ProjectedCases ==
  ASSUME NEW o \in Operation, users[o] \in User, Consistent(users[o]),
         NEW e \in Event, NEW facts \in Facts, Applicable(e, o)
  PROVE  LET new == Projected(e, o, facts) old == users[o] IN
         /\ new \in User /\ SameFixture(new, old) /\ new.mode = e.mode
         /\ \/ Stale(e, o) /\ new = old
            \/ ~ Stale(e, o) /\ FaultMode # "none" /\ SameFacts(new, old)
            \/ ~ Stale(e, o) /\ new.facts = facts /\ new.subscription = e.subscription
         /\ ~ Stale(e, o) => new.last = Greater(old.last, e.created)
<1> DEFINE old == users[o]
<1> DEFINE v == [old EXCEPT !.mode = e.mode]
<1> DEFINE seen == [v EXCEPT !.last = Greater(old.last, e.created)]
<1> DEFINE w == [seen EXCEPT !.facts = facts]
<1> DEFINE new == [w EXCEPT !.subscription = e.subscription]
<1>1. e.mode \in EventMode /\ e.created \in Nat /\ e.subscription \in Subscription
  BY ReplayAssumption DEF Event, PolarEvent, EventMode
<1>2. old \in User /\ old.last \in Nat /\ Greater(old.last, e.created) \in Nat
  BY <1>1 DEF User, Greater
<1>3. CASE Stale(e, o)
  <2>1. e.mode = "local_replay" /\ old.last # 0
    BY <1>1, <1>2, <1>3 DEF Stale
  <2>2. old.mode = e.mode
    BY <2>1 DEF Applicable, Consistent
  <2> QED
    BY <1>2, <1>3, <2>2 DEF Projected, SameFixture
<1>4. CASE ~ Stale(e, o)
  <2>1. /\ v \in User /\ SameFixture(v, old) /\ SameFacts(v, old) /\ v.mode = e.mode
        /\ v.last = old.last
    BY <1>1, <1>2 DEF User, SameFixture, SameFacts
  <2>2. Projected(e, o, facts) = IF SkipProjection(facts) THEN seen ELSE new
    BY <1>2, <1>4 DEF Projected, User
  <2> HIDE DEF v
  <2>3. /\ seen \in User /\ SameFixture(seen, old) /\ SameFacts(seen, old)
        /\ seen.mode = e.mode /\ seen.last = Greater(old.last, e.created)
    BY <1>2, <2>1 DEF User, SameFixture, SameFacts
  <2> HIDE DEF seen
  <2>4. /\ w \in User /\ SameFixture(w, old) /\ w.facts = facts
        /\ w.mode = e.mode /\ w.last = Greater(old.last, e.created)
    BY <2>3 DEF User, SameFixture
  <2> HIDE DEF w
  <2>5. /\ new \in User /\ SameFixture(new, old) /\ new.facts = facts
        /\ new.subscription = e.subscription
        /\ new.mode = e.mode /\ new.last = Greater(old.last, e.created)
    BY <1>1, <2>4 DEF User, SameFixture
  <2> HIDE DEF new
  <2>6. SkipProjection(facts) => FaultMode # "none"
    BY DEF SkipProjection
  <2> QED
    BY <1>4, <2>2, <2>3, <2>5, <2>6
<1> QED
  BY <1>3, <1>4

(* An event that is put on record with the row it leads to, and its        *)
(* handler's end.                                                          *)
LEMMA ApplyStep ==
  ASSUME ReferenceInv, NEW c \in Customer, Running(c), Leave(c), NEW o \in Operation,
         NEW u \in User, Consistent(u), SameFixture(u, users[o]),
         users[o].state = "present", users[o].customer = c,
         u.mode = First(c).event.mode, First(c).event.run = users[o].run,
         users[o].mode \in {"none", u.mode},
         users' = [users EXCEPT ![o] = u],
         events' = events \cup {<<First(c).event, o>>},
         UNCHANGED <<sessions, outside>>
  PROVE  ReferenceInv'
<1> USE DEF outside
<1> DEFINE e == First(c).event
<1> DEFINE q == Tail(queues[c])
<1>1. e \in Event /\ e.customer = c /\ e \in sent \cup ReplayEvent
  BY FirstKnown
<1>2. queues[c] \in Seq(Task) /\ queues[c] # <<>>
  BY DEF ReferenceInv, ReferenceTypeOK, Running
<1>3. q \in Seq(Task) /\ \A i \in 1..Len(q) : i + 1 \in 1..Len(queues[c]) /\ q[i] = queues[c][i + 1]
  BY <1>2, TailOfQueue
<1>4. q # <<>> => 1 \in 1..Len(q)
  BY <1>3, TailOfQueue
<1>5. \A i \in 1..Len(q) : Queued(c, q[i]) /\ q[i].stage = "waiting"
  BY <1>3 DEF ReferenceInv, QueuesKnow, InOrder
<1>6. \A d \in Customer : queues'[d] = IF d = c THEN q ELSE queues[d]
  BY DEF Leave, ReferenceInv, ReferenceTypeOK
<1>7. ReferenceTypeOK'
  <2>1. queues' \in [Customer -> Seq(Task)]
    BY <1>3 DEF Leave, ReferenceInv, ReferenceTypeOK
  <2>2. users' \in [Operation -> User] /\ events' \subseteq Event \X Operation
    BY <1>1 DEF ReferenceInv, ReferenceTypeOK
  <2> QED
    BY <2>1, <2>2 DEF ReferenceInv, ReferenceTypeOK
<1>8. \A p \in Operation : users'[p] = IF p = o THEN u ELSE users[p]
  BY DEF ReferenceInv, ReferenceTypeOK
<1> HIDE DEF q, e
<1>9. QueuesKnow'
  <2>1. SUFFICES ASSUME NEW d \in Customer PROVE InOrder(d, queues[d])'
    BY DEF QueuesKnow
  <2>2. InOrder(d, queues'[d])
    BY <1>5, <1>6 DEF ReferenceInv, QueuesKnow, InOrder
  <2> QED
    BY <2>2 DEF InOrder, Queued
<1>10. HeadsKnow'
  <2>1. SUFFICES ASSUME NEW d \in Customer, queues'[d] # <<>> PROVE Knows(d, queues[d][1])'
    BY DEF HeadsKnow, Running, First
  <2>2. CASE d = c
    <3>1. queues'[d][1].stage = "waiting"
      BY <1>4, <1>5, <1>6, <2>1, <2>2
    <3> QED
      BY <3>1 DEF Knows
  <2>3. CASE d # c
    <3> DEFINE t == queues[d][1]
    <3>1. Knows(d, t) /\ queues'[d][1] = t
      BY <1>6, <2>1, <2>3 DEF ReferenceInv, HeadsKnow, Running, First
    <3> HIDE DEF t
    <3>2. t.stage # "waiting" =>
            users'[t.user] = users[t.user] \/ users'[t.user].customer # d
      BY <1>8, <2>3, <3>1 DEF Knows, SameFixture
    <3> QED
      BY <3>1, <3>2 DEF Knows, ReadSoFar, Covers
  <2> QED
    BY <2>2, <2>3
<1>11. SentIsTrue'
  BY DEF ReferenceInv, SentIsTrue, Covers
<1>12. UsersKnow'
  <2>1. \A p \in Operation : Consistent(users'[p])
    BY <1>8 DEF ReferenceInv, UsersKnow
  <2> QED
    BY <2>1 DEF UsersKnow, Consistent, Covers
<1>13. \A f \in events : f[2] \in Operation
  BY DEF ReferenceInv, ReferenceTypeOK
<1>14. \A f \in events' : f \in events \/ (f[1] = e /\ f[2] = o)
  BY DEF e
<1>15. <<e, o>> \in events'
  BY DEF e
<1>16. u.state = "present" /\ u.customer = c /\ u.run = e.run /\ u.mode = e.mode
  BY DEF SameFixture, e
<1>17. EventsKnow'
  <2>1. \A f \in events' : users'[f[2]].state # "none"
    BY <1>8, <1>13, <1>14, <1>16 DEF ReferenceInv, EventsKnow
  <2> QED
    BY <2>1 DEF EventsKnow
<1>18. BillingIsOwned'
  <2>1. SUFFICES ASSUME NEW p \in Operation
                 PROVE  /\ users'[p].mode # "none" =>
                             /\ users'[p].state = "present"
                             /\ \E f \in events' : f[2] = p /\ f[1].mode = users'[p].mode
                        /\ \A f \in events' : f[2] = p /\ users'[p].state = "present" =>
                             /\ f[1].run = users'[p].run /\ f[1].customer = users'[p].customer
                             /\ f[1].mode = users'[p].mode
    BY DEF BillingIsOwned, Present
  <2>2. /\ users[p].mode # "none" =>
             /\ users[p].state = "present"
             /\ \E f \in events : f[2] = p /\ f[1].mode = users[p].mode
        /\ \A f \in events : f[2] = p /\ users[p].state = "present" =>
             /\ f[1].run = users[p].run /\ f[1].customer = users[p].customer
             /\ f[1].mode = users[p].mode
    BY DEF ReferenceInv, BillingIsOwned, Present
  <2>3. CASE p = o
    <3>1. users'[p] = u
      BY <1>8, <2>3
    <3>2. \A f \in events : f[2] = o =>
            f[1].run = u.run /\ f[1].customer = c /\ f[1].mode = u.mode
      <4>1. SUFFICES ASSUME NEW f \in events, f[2] = o
                     PROVE  f[1].run = u.run /\ f[1].customer = c /\ f[1].mode = u.mode
        OBVIOUS
      <4>2. f[1].run = users[o].run /\ f[1].customer = c /\ f[1].mode = users[o].mode
        BY <2>2, <2>3, <4>1
      <4>3. f[1].mode # "none"
        BY <4>1, ReplayAssumption DEF ReferenceInv, ReferenceTypeOK, Event, PolarEvent
      <4> QED
        BY <4>2, <4>3 DEF SameFixture
    <3> QED
      BY <1>1, <1>14, <1>15, <1>16, <2>3, <3>1, <3>2
  <2>4. CASE p # o
    <3>1. users'[p] = users[p]
      BY <1>8, <2>4
    <3>2. \A f \in events' : f[2] = p => f \in events
      BY <1>14, <2>4
    <3> QED
      BY <2>2, <3>1, <3>2
  <2> QED
    BY <2>3, <2>4
<1> QED
  BY <1>7, <1>9, <1>10, <1>11, <1>12, <1>17, <1>18 DEF ReferenceInv

(* A replay keeps what was paid, and has no version.                       *)
LEMMA ReplayRow ==
  ASSUME ReferenceInv, NEW c \in Customer, Running(c), NEW o \in Operation,
         First(c).event.mode = "local_replay", Applicable(First(c).event, o)
  PROVE  LET e == First(c).event facts == ReplayFacts(e, o) u == Projected(e, o, facts) IN
         /\ e \in Event /\ facts \in Facts /\ e.customer = c /\ facts.status = e.facts.status
         /\ Consistent(u) /\ Covers(u.facts, users[o].facts)
<1> DEFINE e == First(c).event
<1> DEFINE facts == ReplayFacts(e, o)
<1> DEFINE u == Projected(e, o, facts)
<1> DEFINE old == users[o]
<1>1. e \in Event /\ e.customer = c /\ e \in ReplayEvent
  BY FirstKnown DEF ReferenceInv, ReferenceTypeOK, PolarEvent
<1>2. /\ e.facts \in Facts /\ e.facts.version = 0 /\ e.subscription \in Subscription
      /\ e.mode = "local_replay"
  BY <1>1, ReplayAssumption
<1>3. old \in User /\ Consistent(old) /\ old.facts \in Facts
  BY DEF ReferenceInv, ReferenceTypeOK, UsersKnow, User
<1>4. /\ facts \in Facts /\ facts.version = 0 /\ facts.status = e.facts.status
      /\ facts.paid = (e.facts.paid \/ (old.subscription = e.subscription /\ old.facts.paid))
  BY <1>2, <1>3 DEF ReplayFacts, Facts
<1>5. /\ old.state = "present" /\ old.customer = c /\ old.mode \in {"none", "local_replay"}
      /\ old.subscription \in {"none", e.subscription}
  BY <1>1, <1>2 DEF Applicable, Present
<1>6. old.facts.version = 0 /\ (old.subscription = "none" => old.facts.paid = FALSE)
  BY <1>3, <1>5 DEF Consistent, NoFacts
<1>7. /\ u \in User /\ SameFixture(u, old) /\ u.mode = e.mode
      /\ u = old \/ SameFacts(u, old) \/ (u.facts = facts /\ u.subscription = e.subscription)
  BY <1>1, <1>3, <1>4, ProjectedCases
<1>8. c # "none" /\ e.subscription # "none"
  BY <1>2, ReferenceAssumption
<1> HIDE DEF e, facts, u, old
<1>9. Covers(u.facts, old.facts) /\ u.facts.version = 0
  <2>1. CASE u = old \/ SameFacts(u, old)
    BY <1>6, <2>1 DEF Covers, SameFacts
  <2>2. CASE u.facts = facts /\ u.subscription = e.subscription
    <3>1. old.facts.paid => facts.paid
      BY <1>4, <1>5, <1>6
    <3> QED
      BY <1>4, <1>6, <2>2, <3>1 DEF Covers
  <2> QED
    BY <1>7, <2>1, <2>2
<1>10. u.subscription = "none" => u.facts = NoFacts
  BY <1>3, <1>7, <1>8 DEF SameFacts, Consistent
<1>11. Consistent(u)
  BY <1>2, <1>3, <1>5, <1>7, <1>8, <1>9, <1>10 DEF Consistent, SameFixture
<1> QED
  BY <1>1, <1>4, <1>9, <1>11 DEF e, facts, u, old

(* What was read of the provider is as new as the row.                     *)
LEMMA PolarRow ==
  ASSUME ReferenceInv, NEW c \in Customer, Running(c), First(c).stage = "ready",
         Applicable(First(c).event, First(c).user)
  PROVE  LET e == First(c).event o == First(c).user facts == First(c).facts
             u == Projected(e, o, facts) IN
         /\ e \in Event /\ e \in sent /\ o \in Operation /\ facts \in Facts
         /\ e.customer = c /\ e.mode = "polar_sandbox"
         /\ Covers(facts, e.facts)
         /\ Consistent(u) /\ Covers(u.facts, users[o].facts)
<1> DEFINE e == First(c).event
<1> DEFINE o == First(c).user
<1> DEFINE facts == First(c).facts
<1> DEFINE u == Projected(e, o, facts)
<1> DEFINE old == users[o]
<1>1. /\ e \in Event /\ e.customer = c /\ e \in sent /\ o \in Operation
      /\ Covers(provider[c], facts)
      /\ ReadSoFar(First(c), e.facts)
      /\ old.customer = c /\ old.mode = "polar_sandbox" => ReadSoFar(First(c), old.facts)
  BY FirstKnown DEF Knows
<1>2. facts \in Facts
  BY FirstKnown DEF Task
<1>3. e.mode = "polar_sandbox" /\ e.subscription \in Subscription
  BY <1>1 DEF ReferenceInv, ReferenceTypeOK, PolarEvent
<1>4. old \in User /\ Consistent(old) /\ old.facts \in Facts
  BY <1>1 DEF ReferenceInv, ReferenceTypeOK, UsersKnow, User
<1>5. /\ old.state = "present" /\ old.customer = c /\ old.mode \in {"none", "polar_sandbox"}
      /\ old.subscription \in {"none", e.subscription}
  BY <1>1, <1>3 DEF Applicable, Present
<1>6. /\ u \in User /\ SameFixture(u, old) /\ u.mode = e.mode
      /\ u = old \/ SameFacts(u, old) \/ (u.facts = facts /\ u.subscription = e.subscription)
  BY <1>1, <1>2, <1>4, ProjectedCases
<1>7. c # "none" /\ e.subscription # "none"
  BY <1>3, ReferenceAssumption
<1>8. Covers(facts, e.facts)
  BY <1>1 DEF Covers, ReadSoFar
<1>9. Covers(facts, old.facts)
  <2>1. CASE old.mode = "polar_sandbox"
    BY <1>1, <1>5, <2>1 DEF Covers, ReadSoFar
  <2>2. CASE old.mode = "none"
    <3>1. old.facts = NoFacts
      BY <1>4, <2>2 DEF Consistent
    <3>2. NoFacts.version = 0 /\ NoFacts.paid = FALSE
      BY DEF NoFacts
    <3>3. facts.version \in Nat
      BY <1>2, ReferenceAssumption DEF Facts
    <3> QED
      BY <3>1, <3>2, <3>3 DEF Covers
  <2> QED
    BY <1>5, <2>1, <2>2
<1>10. provider[c] \in Facts
  BY DEF ReferenceInv, ReferenceTypeOK
<1> HIDE DEF e, facts, u, old, o
<1>11. provider[c].version \in Nat /\ facts.version \in Nat /\ old.facts.version \in Nat
  BY <1>2, <1>4, <1>10, ReferenceAssumption DEF Facts
<1>12. Covers(provider[c], old.facts)
  BY <1>1, <1>9, <1>11 DEF Covers
<1>13. Covers(u.facts, old.facts) /\ Covers(provider[c], u.facts)
  <2>1. CASE u = old \/ SameFacts(u, old)
    <3>1. u.facts = old.facts
      BY <2>1 DEF SameFacts
    <3> QED
      BY <1>11, <1>12, <3>1 DEF Covers
  <2>2. CASE u.facts = facts
    BY <1>1, <1>9, <2>2
  <2> QED
    BY <1>6, <2>1, <2>2
<1>14. u.subscription = "none" => u.facts = NoFacts
  BY <1>4, <1>6, <1>7 DEF SameFacts, Consistent
<1>15. Consistent(u)
  BY <1>3, <1>4, <1>5, <1>6, <1>7, <1>13, <1>14 DEF Consistent, SameFixture
<1> QED
  BY <1>1, <1>2, <1>3, <1>8, <1>13, <1>15 DEF e, facts, u, old, o

(* What is put on record, if anything: an event of the first handler of a  *)
(* customer, with the facts it carries or that were read for it.           *)
Put(c, o, facts) ==
  LET e == First(c).event IN
  /\ Running(c) /\ Leave(c) /\ UNCHANGED <<sessions, outside>>
  /\ e \in Event /\ e.customer = c /\ Applicable(e, o) /\ e.run = users[o].run /\ facts \in Facts
  /\ users' = [users EXCEPT ![o] = Projected(e, o, facts)]
  /\ events' = events \cup {<<e, o>>}
  /\ Consistent(Projected(e, o, facts))
  /\ Covers(Projected(e, o, facts).facts, users[o].facts)
  /\ \/ e.mode = "polar_sandbox" /\ Covers(facts, e.facts)
     \/ e.mode = "local_replay" /\ facts.status = e.facts.status
RecordsEvent == \E c \in Customer, o \in Operation, facts \in Facts : Put(c, o, facts)

LEMMA ReplayPuts ==
  ASSUME ReferenceInv, NEW c \in Customer, HandleReplay(c)
  PROVE  RecordsEvent
<1> DEFINE e == First(c).event
<1>1. Running(c) /\ e.mode = "local_replay" /\ Leave(c) /\ UNCHANGED outside
  BY DEF HandleReplay
<1>2. PICK o \in Linked(c) : e.run = users[o].run /\ ApplyEvent(e, o, ReplayFacts(e, o))
  BY DEF HandleReplay
<1>3. o \in Operation /\ Applicable(e, o)
  BY <1>2 DEF Linked, ApplyEvent
<1>4. /\ e \in Event /\ ReplayFacts(e, o) \in Facts /\ e.customer = c
      /\ ReplayFacts(e, o).status = e.facts.status
      /\ Consistent(Projected(e, o, ReplayFacts(e, o)))
      /\ Covers(Projected(e, o, ReplayFacts(e, o)).facts, users[o].facts)
  BY <1>1, <1>3, ReplayRow
<1>5. Put(c, o, ReplayFacts(e, o))
  BY <1>1, <1>2, <1>3, <1>4 DEF Put, ApplyEvent
<1> QED
  BY <1>3, <1>4, <1>5 DEF RecordsEvent

LEMMA PolarPuts ==
  ASSUME ReferenceInv, NEW c \in Customer, HandlePolar(c)
  PROVE  RecordsEvent
<1> DEFINE e == First(c).event
<1> DEFINE o == First(c).user
<1> DEFINE facts == First(c).facts
<1>1. /\ Running(c) /\ First(c).stage = "ready" /\ Leave(c) /\ UNCHANGED outside
      /\ ApplyEvent(e, o, facts)
  BY DEF HandlePolar
<1>2. Applicable(e, o)
  BY <1>1 DEF ApplyEvent
<1>3. /\ e \in Event /\ e \in sent /\ o \in Operation /\ facts \in Facts
      /\ e.customer = c /\ e.mode = "polar_sandbox" /\ Covers(facts, e.facts)
      /\ Consistent(Projected(e, o, facts))
      /\ Covers(Projected(e, o, facts).facts, users[o].facts)
  BY <1>1, <1>2, PolarRow
<1>4. e.run = users[o].run
  <2>1. e.run = RunOf[c] /\ c \notin ReplayCustomer
    BY <1>3 DEF ReferenceInv, SentIsTrue
  <2>2. users[o].customer = c /\ Consistent(users[o]) /\ c # "none"
    BY <1>2, <1>3, ReferenceAssumption DEF Applicable, ReferenceInv, UsersKnow
  <2> QED
    BY <2>1, <2>2 DEF Consistent
<1>5. Put(c, o, facts)
  BY <1>1, <1>2, <1>3, <1>4 DEF Put, ApplyEvent
<1> QED
  BY <1>3, <1>5 DEF RecordsEvent

LEMMA RecordStep == ASSUME ReferenceInv, RecordsEvent PROVE ReferenceInv'
<1>1. PICK c \in Customer, o \in Operation, facts \in Facts : Put(c, o, facts)
  BY DEF RecordsEvent
<1> DEFINE e == First(c).event
<1> DEFINE u == Projected(e, o, facts)
<1>2. /\ Running(c) /\ Leave(c) /\ UNCHANGED <<sessions, outside>>
      /\ e \in Event /\ e.customer = c /\ Applicable(e, o) /\ e.run = users[o].run
      /\ users' = [users EXCEPT ![o] = u] /\ events' = events \cup {<<e, o>>}
      /\ Consistent(u)
  BY <1>1 DEF Put
<1>3. users[o] \in User /\ Consistent(users[o])
  BY DEF ReferenceInv, ReferenceTypeOK, UsersKnow
<1>4. u \in User /\ SameFixture(u, users[o]) /\ u.mode = e.mode
  BY <1>2, <1>3, ProjectedCases
<1>5. /\ users[o].state = "present" /\ users[o].customer = c
      /\ users[o].mode \in {"none", u.mode}
  BY <1>2, <1>4 DEF Applicable, Present
<1> HIDE DEF u
<1> QED
  BY <1>2, <1>4, <1>5, ApplyStep

LEMMA ProviderStep ==
  ASSUME ReferenceInv, NEW c \in Customer, NEW status \in {"active", "canceled"},
         NEW paid \in BOOLEAN, ProviderChanges(c, status, paid)
  PROVE  ReferenceInv'
<1> USE DEF store
<1> DEFINE facts == [status |-> status, paid |-> paid, version |-> provider[c].version + 1]
<1> DEFINE e == [id |-> <<c, facts.version>>, mode |-> "polar_sandbox",
                 created |-> facts.version, customer |-> c,
                 subscription |-> SubscriptionOf[c], run |-> RunOf[c], facts |-> facts]
<1>1. /\ c \notin ReplayCustomer /\ provider[c].version < MaxVersion
      /\ provider[c].paid => paid
      /\ provider' = [provider EXCEPT ![c] = facts]
      /\ sent' = sent \cup {e}
      /\ UNCHANGED <<users, sessions, events, queues>>
  BY DEF ProviderChanges
<1>2. provider[c] \in Facts /\ provider[c].version \in Nat /\ MaxVersion \in Nat
  BY ReferenceAssumption DEF ReferenceInv, ReferenceTypeOK, Facts
<1>3. /\ facts \in Facts /\ facts.version \in 1..MaxVersion
      /\ facts.version = provider[c].version + 1 /\ facts.paid = paid
  BY <1>1, <1>2 DEF Facts, Status
<1> HIDE DEF facts
<1>4. /\ e \in PolarEvent /\ e.customer = c /\ e.run = RunOf[c] /\ e.facts = facts
  BY <1>3, ReferenceAssumption DEF PolarEvent
<1> HIDE DEF e
<1>5. \A d \in Customer : provider'[d] = IF d = c THEN facts ELSE provider[d]
  BY <1>1 DEF ReferenceInv, ReferenceTypeOK
<1>6. \A d \in Customer, old \in Facts : Covers(provider[d], old) => Covers(provider'[d], old)
  BY <1>1, <1>2, <1>3, <1>5, ReferenceAssumption DEF Covers, Facts
<1>7. ReferenceTypeOK'
  BY <1>1, <1>3, <1>4 DEF ReferenceInv, ReferenceTypeOK
<1>8. SentIsTrue'
  <2>1. SUFFICES ASSUME NEW f \in sent'
                 PROVE  /\ f.customer \notin ReplayCustomer /\ f.run = RunOf[f.customer]
                        /\ Covers(provider'[f.customer], f.facts)
    BY DEF SentIsTrue, Covers
  <2>2. CASE f \in sent
    <3>1. f.customer \in Customer /\ f.facts \in Facts
      BY <2>2 DEF ReferenceInv, ReferenceTypeOK, PolarEvent
    <3> QED
      BY <1>6, <2>2, <3>1 DEF ReferenceInv, SentIsTrue
  <2>3. CASE f = e
    BY <1>1, <1>3, <1>4, <1>5, <2>3 DEF Covers
  <2> QED
    BY <1>1, <2>1, <2>2, <2>3
<1>9. QueuesKnow'
  BY <1>1 DEF ReferenceInv, QueuesKnow, InOrder, Queued
<1>10. HeadsKnow'
  <2>1. SUFFICES ASSUME NEW d \in Customer, queues'[d] # <<>> PROVE Knows(d, queues[d][1])'
    BY DEF HeadsKnow, Running, First
  <2>2. PICK t \in Task : t = queues[d][1] /\ Knows(d, t)
    BY <1>1, <2>1, FirstKnown DEF Running, First
  <2>3. t.facts \in Facts /\ queues'[d][1] = t
    BY <1>1, <2>2 DEF Task
  <2>4. t.stage \in {"orders", "ready"} => Covers(provider'[d], t.facts)
    BY <1>6, <2>2, <2>3 DEF Knows
  <2>5. Knows(d, t)'
    BY <1>1, <2>2, <2>4 DEF Knows, ReadSoFar, Covers
  <2> QED
    BY <2>3, <2>5
<1>11. UsersKnow'
  <2>1. SUFFICES ASSUME NEW o \in Operation PROVE Consistent(users[o])'
    BY DEF UsersKnow
  <2>2. Consistent(users[o]) /\ users[o] \in User
    BY DEF ReferenceInv, ReferenceTypeOK, UsersKnow
  <2>3. users[o].facts \in Facts /\ (users[o].mode = "polar_sandbox" => users[o].customer \in Customer)
    BY <2>2 DEF User, Consistent
  <2>4. users[o].mode = "polar_sandbox" =>
          Covers(provider'[users[o].customer], users[o].facts)
    BY <1>6, <2>2, <2>3 DEF Consistent
  <2> QED
    BY <1>1, <2>2, <2>4 DEF Consistent, Covers
<1>12. EventsKnow' /\ BillingIsOwned'
  BY <1>1 DEF ReferenceInv, EventsKnow, BillingIsOwned, Present
<1> QED
  BY <1>7, <1>8, <1>9, <1>10, <1>11, <1>12 DEF ReferenceInv

(* A step of the target changes a fixture, records an event, or leaves the *)
(* rows and the record alone.                                              *)
LEMMA ReferenceCases ==
  ASSUME ReferenceInv, [ReferenceNext]_referenceVars
  PROVE  Fixtures \/ RecordsEvent \/ UNCHANGED <<users, events>>
<1>1. CASE \E c \in Customer : Webhooks(c)
  <2>1. PICK c \in Customer : Webhooks(c)
    BY <1>1
  <2> QED
    BY <2>1, ReplayPuts, PolarPuts
    DEF Webhooks, StartPolar, ReadSubscription, ReadOrders, Refuse, store
<1> QED
  BY <1>1 DEF ReferenceNext, SessionExpires, Deliver, Restart, ProviderChanges, store,
              referenceVars

LEMMA ReferenceInvStep == ReferenceInv /\ [ReferenceNext]_referenceVars => ReferenceInv'
<1> SUFFICES ASSUME ReferenceInv, [ReferenceNext]_referenceVars PROVE ReferenceInv'
  OBVIOUS
<1>1. CASE \E t \in Token : SessionExpires(t)
  <2>1. PICK t \in Token : SessionExpires(t)
    BY <1>1
  <2>2. sessions' \in [Token -> Operation \cup {"none"}]
    BY <2>1 DEF SessionExpires, ReferenceInv, ReferenceTypeOK
  <2> QED
    BY <2>1, <2>2, SessionsOnly DEF SessionExpires
<1>2. CASE \E c \in Customer : Webhooks(c)
  <2>1. PICK c \in Customer : Webhooks(c)
    BY <1>2
  <2>2. CASE Refuse(c)
    BY <2>2, LeaveStep DEF Refuse
  <2>3. CASE HandleReplay(c) \/ HandlePolar(c)
    <3>1. RecordsEvent
      BY <2>3, ReplayPuts, PolarPuts
    <3> QED
      BY <3>1, RecordStep
  <2> QED
    BY <2>1, <2>2, <2>3, StartStep, SubscriptionStep, OrdersStep DEF Webhooks
<1>3. CASE UNCHANGED referenceVars
  <2>1. sessions' \in [Token -> Operation \cup {"none"}]
    BY <1>3 DEF referenceVars, ReferenceInv, ReferenceTypeOK
  <2> QED
    BY <1>3, <2>1, SessionsOnly DEF referenceVars, outside
<1>4. CASE \E e \in sent \cup ReplayEvent : Deliver(e)
  BY <1>4, DeliverStep
<1>5. CASE \E c \in Customer, status \in {"active", "canceled"}, paid \in BOOLEAN :
             ProviderChanges(c, status, paid)
  BY <1>5, ProviderStep
<1> QED
  BY <1>1, <1>2, <1>3, <1>4, <1>5, FixtureStep, RestartStep DEF ReferenceNext

LEMMA ReferenceInvariant == ReferenceSpec => []ReferenceInv
  BY ReferenceInvInit, ReferenceInvStep, PTL DEF ReferenceSpec

(* What a projection says is the user's own: of its run, its customer and  *)
(* one mode, and gone with its fixture, whatever the order of webhooks,    *)
(* reads, links and removals (applyEvent, customerUser).                   *)
THEOREM BillingOwned == ReferenceSpec => []BillingIsOwned
<1>1. ReferenceInv => BillingIsOwned
  BY DEF ReferenceInv
<1> QED
  BY <1>1, ReferenceInvariant, PTL

LEMMA ProjectionStep ==
  ASSUME ReferenceInv, [ReferenceNext]_referenceVars,
         NEW o \in Operation, users[o].state = "present", users'[o].state = "present"
  PROVE  Covers(users'[o].facts, users[o].facts)
<1>1. users \in [Operation -> User] /\ users[o].facts.version \in Int
  BY ReferenceAssumption DEF ReferenceInv, ReferenceTypeOK, User, Facts
<1>2. CASE Fixtures
  <2>1. PICK p \in Operation, r \in Run :
          \/ CreateUser(p, r) \/ RemoveUser(p, r)
          \/ \E c \in Customer : LinkCustomer(p, r, c)
          \/ \E t \in Token : Session(p, r, t)
    BY <1>2 DEF Fixtures
  <2>2. CASE CreateUser(p, r)
    <3>1. users'[o] = users[o]
      BY <1>1, <2>2 DEF CreateUser
    <3> QED
      BY <1>1, <3>1 DEF Covers
  <2>3. CASE RemoveUser(p, r)
    <3> DEFINE u == [NoUser EXCEPT !.state = "removed", !.run = r]
    <3>1. u.state = "removed"
      BY BlankRow
    <3>2. users' = [users EXCEPT ![p] = u]
      BY <2>3 DEF RemoveUser
    <3> HIDE DEF u
    <3>3. users'[o] = users[o]
      BY <1>1, <3>1, <3>2
    <3> QED
      BY <1>1, <3>3 DEF Covers
  <2>4. CASE \E c \in Customer : LinkCustomer(p, r, c)
    <3>1. PICK c \in Customer : users' = [users EXCEPT ![p].customer = c]
      BY <2>4 DEF LinkCustomer
    <3>2. users'[o].facts = users[o].facts
      BY <1>1, <3>1 DEF User
    <3> QED
      BY <1>1, <3>2 DEF Covers
  <2>5. CASE \E t \in Token : Session(p, r, t)
    BY <1>1, <2>5 DEF Session, Covers
  <2> QED
    BY <2>1, <2>2, <2>3, <2>4, <2>5
<1>3. CASE RecordsEvent
  <2>1. PICK c \in Customer, p \in Operation, facts \in Facts : Put(c, p, facts)
    BY <1>3 DEF RecordsEvent
  <2> DEFINE u == Projected(First(c).event, p, facts)
  <2>2. users' = [users EXCEPT ![p] = u] /\ Covers(u.facts, users[p].facts)
    BY <2>1 DEF Put
  <2> HIDE DEF u
  <2> QED
    BY <1>1, <2>2 DEF Covers
<1>4. CASE UNCHANGED <<users, events>>
  BY <1>1, <1>4 DEF Covers
<1> QED
  BY <1>2, <1>3, <1>4, ReferenceCases

(* While a fixture lives, what it says of its billing never becomes older, *)
(* under any order of webhooks and any injected fault.                     *)
THEOREM ProjectionKeepsUp == ReferenceSpec => ProjectionNeverGoesBack
<1>1. ReferenceInv /\ [ReferenceNext]_referenceVars =>
        [\A o \in Operation : Present(o) /\ users'[o].state = "present" =>
           /\ users'[o].facts.version >= users[o].facts.version
           /\ users[o].facts.paid => users'[o].facts.paid]_referenceVars
  BY ProjectionStep DEF Present, Covers
<1> QED
  BY <1>1, ReferenceInvariant, PTL DEF ReferenceSpec, ProjectionNeverGoesBack

(* A recorded event has been applied to its user.                          *)
AppliedPolar(f) ==
  f[1].mode = "polar_sandbox" /\ Present(f[2]) => Covers(users[f[2]].facts, f[1].facts)
Replayed(o) == {f[1] : f \in {g \in events : g[2] = o}}
AppliedReplays(o) ==
  Present(o) /\ users[o].mode = "local_replay" =>
    /\ \A e \in Replayed(o) : e.created <= users[o].last
    /\ \E e \in Replayed(o) : e.created = users[o].last /\ e.facts.status = users[o].facts.status
Applied == (\A f \in events : AppliedPolar(f)) /\ (\A o \in Operation : AppliedReplays(o))

LEMMA AppliedInit == ReferenceInit => Applied
BY DEF ReferenceInit, Applied, AppliedReplays, NoUser, Present

(* A step that leaves the record alone, and the billing of every fixture   *)
(* that lives.                                                             *)
LEMMA AppliedKept ==
  ASSUME ReferenceInv, Applied, events' = events,
         \A o \in Operation : users'[o].state = "present" =>
           \/ users'[o].mode = "none" /\ \A f \in events : f[2] # o
           \/ /\ users[o].state = "present" /\ users'[o].mode = users[o].mode
              /\ users'[o].facts = users[o].facts /\ users'[o].last = users[o].last
  PROVE  Applied'
<1>1. \A f \in events : f[2] \in Operation
  BY DEF ReferenceInv, ReferenceTypeOK
<1>2. \A f \in events : AppliedPolar(f)'
  BY <1>1 DEF Applied, AppliedPolar, Present, Covers
<1>3. \A o \in Operation : AppliedReplays(o)'
  BY DEF Applied, AppliedReplays, Present, Replayed
<1> QED
  BY <1>2, <1>3 DEF Applied

LEMMA AppliedFixtures == ASSUME ReferenceInv, Applied, Fixtures PROVE Applied'
<1>1. PICK p \in Operation, r \in Run :
        \/ CreateUser(p, r) \/ RemoveUser(p, r)
        \/ \E c \in Customer : LinkCustomer(p, r, c)
        \/ \E t \in Token : Session(p, r, t)
  BY DEF Fixtures
<1>2. users \in [Operation -> User]
  BY DEF ReferenceInv, ReferenceTypeOK
<1>3. CASE CreateUser(p, r)
  <2> DEFINE u == [NoUser EXCEPT !.state = "present", !.run = r]
  <2>1. u.mode = "none"
    BY BlankRow
  <2>2. users' = [users EXCEPT ![p] = u] /\ events' = events /\ users[p].state = "none"
    BY <1>3 DEF CreateUser
  <2>3. \A f \in events : f[2] # p
    BY <2>2 DEF ReferenceInv, EventsKnow
  <2> HIDE DEF u
  <2> QED
    BY <1>2, <2>1, <2>2, <2>3, AppliedKept
<1>4. CASE RemoveUser(p, r)
  <2> DEFINE u == [NoUser EXCEPT !.state = "removed", !.run = r]
  <2>1. u.state = "removed"
    BY BlankRow
  <2>2. users' = [users EXCEPT ![p] = u] /\ events' = events
    BY <1>4 DEF RemoveUser
  <2> HIDE DEF u
  <2> QED
    BY <1>2, <2>1, <2>2, AppliedKept
<1>5. CASE \E c \in Customer : LinkCustomer(p, r, c)
  <2>1. PICK c \in Customer : users' = [users EXCEPT ![p].customer = c] /\ events' = events
    BY <1>5 DEF LinkCustomer
  <2>2. \A o \in Operation : /\ users'[o].state = users[o].state
                             /\ users'[o].mode = users[o].mode
                             /\ users'[o].facts = users[o].facts
                             /\ users'[o].last = users[o].last
    BY <1>2, <2>1 DEF User
  <2> QED
    BY <2>1, <2>2, AppliedKept
<1>6. CASE \E t \in Token : Session(p, r, t)
  BY <1>6, AppliedKept DEF Session
<1> QED
  BY <1>1, <1>3, <1>4, <1>5, <1>6

(* Without an injected fault a recorded event is applied, or is a replay   *)
(* that came after a later one.                                            *)
LEMMA AppliedRecords ==
  ASSUME FaultMode = "none", ReferenceInv, Applied, RecordsEvent
  PROVE  Applied'
<1>1. PICK c \in Customer, o \in Operation, facts \in Facts : Put(c, o, facts)
  BY DEF RecordsEvent
<1>2. PICK e \in Event : e = First(c).event
  BY <1>1 DEF Put
<1>3. PICK u \in User : u = Projected(e, o, facts) /\ users' = [users EXCEPT ![o] = u]
  BY <1>1, <1>2, ProjectedCases DEF Put, ReferenceInv, ReferenceTypeOK, UsersKnow
<1>4. PICK old \in User : old = users[o]
  BY DEF ReferenceInv, ReferenceTypeOK
<1>5. /\ events' = events \cup {<<e, o>>}
      /\ Applicable(e, o) /\ Covers(u.facts, old.facts)
      /\ \/ e.mode = "polar_sandbox" /\ Covers(facts, e.facts)
         \/ e.mode = "local_replay" /\ facts.status = e.facts.status
  BY <1>1, <1>2, <1>3, <1>4 DEF Put
<1>6. /\ SameFixture(u, old) /\ u.mode = e.mode
      /\ \/ Stale(e, o) /\ u = old
         \/ ~ Stale(e, o) /\ u.facts = facts
      /\ ~ Stale(e, o) => u.last = Greater(old.last, e.created)
  BY <1>3, <1>4, <1>5, ProjectedCases DEF ReferenceInv, UsersKnow
<1>7. \A p \in Operation : users'[p] = IF p = o THEN u ELSE users[p]
  BY <1>3 DEF ReferenceInv, ReferenceTypeOK
<1>8. \A f \in events' : f \in events \/ (f[1] = e /\ f[2] = o)
  BY <1>5
<1>9. \A f \in events : f[1] \in Event /\ f[2] \in Operation
  BY DEF ReferenceInv, ReferenceTypeOK
<1>10. /\ u.facts.version \in Int /\ old.facts.version \in Int /\ e.facts.version \in Int
       /\ e.created \in Nat /\ old.last \in Nat
  BY ReferenceAssumption, ReplayAssumption DEF User, Facts, Event, PolarEvent
<1>11. ASSUME NEW f \in events' PROVE AppliedPolar(f)'
  <2>1. SUFFICES ASSUME f[1].mode = "polar_sandbox", users'[f[2]].state = "present"
                 PROVE  Covers(users'[f[2]].facts, f[1].facts)
    BY DEF AppliedPolar, Present, Covers
  <2>2. CASE f \in events
    <3>1. f[2] # o => users'[f[2]] = users[f[2]]
      BY <1>7, <1>9, <2>2
    <3>2. CASE f[2] # o
      BY <2>1, <2>2, <3>1, <3>2 DEF Applied, AppliedPolar, Present
    <3>3. CASE f[2] = o
      <4>1. old.state = "present" /\ users'[f[2]] = u
        BY <1>4, <1>5, <1>7, <3>3 DEF Applicable, Present
      <4>2. Covers(old.facts, f[1].facts)
        BY <1>4, <2>1, <2>2, <3>3, <4>1 DEF Applied, AppliedPolar, Present
      <4>3. f[1].facts.version \in Int
        BY <1>9, <2>2, ReferenceAssumption, ReplayAssumption DEF Event, PolarEvent, Facts
      <4> QED
        BY <1>5, <1>10, <4>1, <4>2, <4>3 DEF Covers
    <3> QED
      BY <3>2, <3>3
  <2>3. CASE f[1] = e /\ f[2] = o
    <3>1. ~ Stale(e, o)
      BY <2>1, <2>3 DEF Stale
    <3> QED
      BY <1>5, <1>6, <1>7, <2>1, <2>3, <3>1
  <2> QED
    BY <1>8, <2>2, <2>3
<1>12. ASSUME NEW p \in Operation PROVE AppliedReplays(p)'
  <2>1. SUFFICES ASSUME users'[p].state = "present", users'[p].mode = "local_replay"
                 PROVE  /\ \A f \in events' : f[2] = p => f[1].created <= users'[p].last
                        /\ \E f \in events' : /\ f[2] = p /\ f[1].created = users'[p].last
                                              /\ f[1].facts.status = users'[p].facts.status
    BY DEF AppliedReplays, Present, Replayed
  <2>2. Present(p) /\ users[p].mode = "local_replay" =>
          /\ \A f \in events : f[2] = p => f[1].created <= users[p].last
          /\ \E f \in events : /\ f[2] = p /\ f[1].created = users[p].last
                               /\ f[1].facts.status = users[p].facts.status
    BY DEF Applied, AppliedReplays, Replayed
  <2>3. CASE p # o
    <3>1. users'[p] = users[p] /\ \A f \in events' : f[2] = p => f \in events
      BY <1>7, <1>8, <2>3
    <3> QED
      BY <1>5, <2>1, <2>2, <3>1 DEF Present
  <2>4. CASE p = o
    <3>1. /\ users'[p] = u /\ u.mode = "local_replay" /\ e.mode = "local_replay"
          /\ facts.status = e.facts.status
          /\ old.state = "present" /\ old.mode \in {"none", "local_replay"}
      BY <1>4, <1>5, <1>6, <1>7, <2>1, <2>4 DEF Applicable, Present
    <3>2. CASE Stale(e, o)
      <4>1. u = old /\ e.created <= u.last
        BY <1>4, <1>6, <1>10, <3>2 DEF Stale
      <4>2. \A f \in events : f[2] = p => f[1].created <= u.last
        BY <1>4, <2>2, <2>4, <3>1, <4>1 DEF Present
      <4>3. \E f \in events : /\ f[2] = p /\ f[1].created = u.last
                              /\ f[1].facts.status = u.facts.status
        BY <1>4, <2>2, <2>4, <3>1, <4>1 DEF Present
      <4> QED
        BY <1>5, <1>8, <3>1, <4>1, <4>2, <4>3
    <3>3. CASE ~ Stale(e, o)
      <4>1. old.last <= e.created
        BY <1>4, <1>10, <3>1, <3>3 DEF Stale
      <4>2. u.last = e.created /\ u.facts.status = e.facts.status
        BY <1>6, <1>10, <3>1, <3>3, <4>1 DEF Greater
      <4>3. \A f \in events : f[2] = p => f[1].created <= e.created
        <5>1. SUFFICES ASSUME NEW f \in events, f[2] = p PROVE f[1].created <= e.created
          OBVIOUS
        <5>2. f[1].mode = old.mode /\ f[1].mode # "none"
          BY <1>4, <1>9, <2>4, <3>1, <5>1, ReplayAssumption
          DEF ReferenceInv, BillingIsOwned, Present, Event, PolarEvent
        <5>3. f[1].created <= old.last
          BY <1>4, <2>2, <2>4, <3>1, <5>1, <5>2 DEF Present
        <5>4. f[1].created \in Nat
          BY <1>9, <5>1, ReplayAssumption DEF Event, PolarEvent
        <5> QED
          BY <1>10, <4>1, <5>3, <5>4
      <4>4. <<e, o>> \in events'
        BY <1>5
      <4> QED
        BY <1>8, <1>10, <2>4, <3>1, <4>2, <4>3, <4>4
    <3> QED
      BY <3>2, <3>3
  <2> QED
    BY <2>3, <2>4
<1> QED
  BY <1>11, <1>12 DEF Applied

LEMMA AppliedStep ==
  ASSUME FaultMode = "none", ReferenceInv, Applied, [ReferenceNext]_referenceVars
  PROVE  Applied'
<1>1. CASE UNCHANGED <<users, events>>
  BY <1>1 DEF Applied, AppliedPolar, AppliedReplays, Replayed, Present, Covers
<1> QED
  BY <1>1, AppliedFixtures, AppliedRecords, ReferenceCases

(* What a target without an injected fault acknowledged, it has applied:   *)
(* its projection is at least as new as every real webhook on record, and  *)
(* with replays it says what the latest one says, by the events' own time. *)
THEOREM AcknowledgedApplied ==
  ASSUME FaultMode = "none"
  PROVE  ReferenceSpec => []AcknowledgedIsApplied
<1>1. ReferenceInit => ReferenceInv /\ Applied
  BY ReferenceInvInit, AppliedInit
<1>2. (ReferenceInv /\ Applied) /\ [ReferenceNext]_referenceVars => (ReferenceInv /\ Applied)'
  BY AppliedStep, ReferenceInvStep
<1>3. ReferenceInv /\ Applied => AcknowledgedIsApplied
  BY DEF Applied, AppliedPolar, AppliedReplays, Replayed, AcknowledgedIsApplied, Covers
<1> QED
  BY <1>1, <1>2, <1>3, PTL DEF ReferenceSpec

-----------------------------------------------------------------------------
(* The observation: what it knows where it stands *)

(* How long the work of a round may have taken when it begins, and at each *)
(* of its places: a read is bounded, and a pause is one poll.              *)
RoundBegins(r) ==
  CASE r = "window" -> EstablishMs + SyncMs - 1
    [] r = "first" -> EstablishMs + SyncMs + 3 * ReadMs
    [] r = "second" -> EstablishMs + SyncMs + 6 * ReadMs
DueBy(at, r) ==
  CASE at = "pause" -> EstablishMs
    [] at = "poll" -> EstablishMs + ReadMs
    [] at = "collect" -> RoundBegins(r)
    [] at = "browser" -> RoundBegins(r) + ReadMs
    [] at = "reads" -> RoundBegins(r) + 2 * ReadMs
    [] at \in {"describe", "done"} -> RoundBegins(r) + 3 * ReadMs
    [] at = "wait" -> EstablishMs + SyncMs + 3 * ReadMs
InTime ==
  /\ now \in Nat /\ due \in Nat /\ confirmed \in Nat /\ changed \in Nat
  /\ pc \notin Ended => now <= due /\ due <= DueBy(pc, round)
  /\ confirmed <= EstablishMs /\ confirmed <= now

(* Where it stands: the later rounds come after the window, and a set is   *)
(* judged when every source of it has been read.                           *)
Placed ==
  /\ pc \in {"poll", "pause", "collect", "browser", "reads", "describe", "done", "wait"}
            \cup Ended
  /\ round \in {"window", "first", "second"}
  /\ pc \in {"poll", "pause", "wait"} => round = "window"
  /\ pc = "returned" => round # "first"
  /\ pc \in {"poll", "pause"} => ~ steady
  /\ round # "window" => now >= Deadline
  /\ DOMAIN readings = Source
  /\ pc \in {"describe", "done", "returned"} =>
       \A s \in Source : readings[s].value # "unread"

(* An honest target is behind the provider by its lag at most, and learned *)
(* of everything that happened before a steady scenario was confirmed.     *)
KeepsUp ==
  /\ changed <= now
  /\ conduct = "honest" /\ shown # billing => now <= changed + LagMs
  /\ steady => changed <= confirmed

(* What a reading is worth while the provider stays as it was confirmed.   *)
Truthful(s, reading) ==
  /\ s = "provider" => reading.value = billing
  /\ conduct = "wrong" /\ s \in {"api", "browser"} =>
       reading.value \in IF Entitled(billing) THEN {"denied"} ELSE {"allowed", "leaking"}
  /\ round # "window" =>
       /\ reading.at >= Deadline
       /\ conduct = "honest" /\ s = "application" => reading.value = StatusOf(billing)
       /\ conduct = "honest" /\ s \in {"api", "browser"} =>
            reading.value \in {IF Entitled(billing) THEN "allowed" ELSE "denied", "error"}
ReadingsKnow ==
  steady => \A s \in Source : readings[s].value # "unread" => Truthful(s, readings[s])

(* What a verdict is worth.                                                *)
ResultKnows ==
  steady /\ pc \in {"done", "returned"} =>
    /\ conduct = "wrong" => \A c \in {"api", "browser"} : result[c] \notin PassCodes
    /\ round # "window" =>
         \A c \in Channel : result[c] \in FailCodes => conduct # "honest" /\ c \in Wrong
    /\ pc = "returned" /\ round = "window" => Passes(result)
    /\ pc = "returned" /\ round = "second" =>
         \A c \in Channel : result[c] \in FailCodes => c \in first.deserved
FirstKnows ==
  steady /\ round = "second" =>
    \A c \in Channel : first.failures[c] \in FailCodes => c \in first.deserved

(* The inductive invariant of the observation.                             *)
ObservationInv ==
  InTime /\ Placed /\ KeepsUp /\ ReadingsKnow /\ ResultKnows /\ FirstKnows

LEMMA NoneRead ==
  DOMAIN NoReadings = Source /\ \A s \in Source : NoReadings[s].value = "unread"
BY DEF NoReadings

(* Time is kept at every step.                                             *)
LEMMA InTimeStep ==
  ASSUME ObservationInv, ObservationNext
  PROVE  InTime'
<1> USE ObservationAssumption DEF clocks, choices, world, work, Ended, DueBy, RoundBegins
<1>1. CASE Poll
  BY <1>1 DEF ObservationInv, InTime, Placed, Poll, StartCollect, Goto, NoSet, Throw, PollAgain
<1>2. CASE PollFails
  BY <1>2 DEF ObservationInv, InTime, Placed, PollFails, Throw, PollAgain, Goto, NoSet
<1>3. CASE Resume
  BY <1>3 DEF ObservationInv, InTime, Placed, Resume, Goto
<1>4. CASE Collect
  BY <1>4 DEF ObservationInv, InTime, Placed, Collect, Goto
<1>5. CASE ReadBrowser
  BY <1>5 DEF ObservationInv, InTime, Placed, ReadBrowser, Goto, Reading
<1>6. CASE Read
  BY <1>6 DEF ObservationInv, InTime, Placed, Read, Goto, Reading
<1>7. CASE Describe
  BY <1>7 DEF ObservationInv, InTime, Placed, Describe, Goto
<1>8. CASE WindowEnds
  BY <1>8 DEF ObservationInv, InTime, Placed, WindowEnds, Goto, NoSet
<1>9. CASE Again
  BY <1>9 DEF ObservationInv, InTime, Placed, Again, StartCollect, Goto, NoSet, Deadline
<1>10. CASE FirstEnds
  BY <1>10 DEF ObservationInv, InTime, Placed, FirstEnds, StartCollect, Goto, NoSet
<1>11. CASE SecondEnds
  BY <1>11 DEF ObservationInv, InTime, Placed, SecondEnds, Goto
<1>12. CASE Refused
  BY <1>12 DEF ObservationInv, InTime, Placed, Refused, Throw, NoSet
<1>13. CASE CollectFails
  BY <1>13 DEF ObservationInv, InTime, Placed, CollectFails, Throw, NoSet
<1>14. CASE BillingChanges
  BY <1>14 DEF ObservationInv, InTime, Placed, BillingChanges
<1>15. CASE TargetLearns
  BY <1>15 DEF ObservationInv, InTime, Placed, TargetLearns
<1>16. CASE Tick
  BY <1>16 DEF ObservationInv, InTime, Placed, Tick
<1> QED
  BY <1>1, <1>2, <1>3, <1>4, <1>5, <1>6, <1>7, <1>8, <1>9, <1>10, <1>11, <1>12, <1>13, <1>14, <1>15, <1>16 DEF ObservationNext, Observe

(* So is the order of the rounds.                                          *)
LEMMA PlacedStep ==
  ASSUME ObservationInv, ObservationNext
  PROVE  Placed'
<1> USE ObservationAssumption, NoneRead DEF clocks, choices, world, work, Ended, Deadline
<1>1. CASE Poll
  BY <1>1 DEF ObservationInv, Placed, InTime, Poll, StartCollect, Goto, NoSet, Throw, PollAgain
<1>2. CASE PollFails
  BY <1>2 DEF ObservationInv, Placed, InTime, PollFails, Throw, PollAgain, Goto, NoSet
<1>3. CASE Resume
  BY <1>3 DEF ObservationInv, Placed, InTime, Resume, Goto
<1>4. CASE Collect
  BY <1>4 DEF ObservationInv, Placed, InTime, Collect, Goto
<1>5. CASE ReadBrowser
  BY <1>5 DEF ObservationInv, Placed, InTime, ReadBrowser, Goto, Reading
<1>6. CASE Read
  BY <1>6 DEF ObservationInv, Placed, InTime, Read, Goto, Reading
<1>7. CASE Describe
  BY <1>7 DEF ObservationInv, Placed, InTime, Describe, Goto
<1>8. CASE WindowEnds
  BY <1>8 DEF ObservationInv, Placed, InTime, WindowEnds, Goto, NoSet
<1>9. CASE Again
  BY <1>9 DEF ObservationInv, Placed, InTime, Again, StartCollect, Goto, NoSet, Deadline
<1>10. CASE FirstEnds
  BY <1>10 DEF ObservationInv, Placed, InTime, FirstEnds, StartCollect, Goto, NoSet
<1>11. CASE SecondEnds
  BY <1>11 DEF ObservationInv, Placed, InTime, SecondEnds, Goto
<1>12. CASE Refused
  BY <1>12 DEF ObservationInv, Placed, InTime, Refused, Throw, NoSet
<1>13. CASE CollectFails
  BY <1>13 DEF ObservationInv, Placed, InTime, CollectFails, Throw, NoSet
<1>14. CASE BillingChanges
  BY <1>14 DEF ObservationInv, Placed, InTime, BillingChanges
<1>15. CASE TargetLearns
  BY <1>15 DEF ObservationInv, Placed, InTime, TargetLearns
<1>16. CASE Tick
  BY <1>16 DEF ObservationInv, Placed, InTime, Tick
<1> QED
  BY <1>1, <1>2, <1>3, <1>4, <1>5, <1>6, <1>7, <1>8, <1>9, <1>10, <1>11, <1>12, <1>13, <1>14, <1>15, <1>16 DEF ObservationNext, Observe

(* And an honest target keeps up.                                          *)
LEMMA KeepsUpStep ==
  ASSUME ObservationInv, ObservationNext
  PROVE  KeepsUp'
<1> USE ObservationAssumption DEF clocks, choices, world, work, Ended
<1>1. CASE Poll
  BY <1>1 DEF ObservationInv, KeepsUp, Placed, InTime, Poll, StartCollect, Goto, NoSet, Throw, PollAgain
<1>2. CASE PollFails
  BY <1>2 DEF ObservationInv, KeepsUp, Placed, InTime, PollFails, Throw, PollAgain, Goto, NoSet
<1>3. CASE Resume
  BY <1>3 DEF ObservationInv, KeepsUp, Placed, InTime, Resume, Goto
<1>4. CASE Collect
  BY <1>4 DEF ObservationInv, KeepsUp, Placed, InTime, Collect, Goto
<1>5. CASE ReadBrowser
  BY <1>5 DEF ObservationInv, KeepsUp, Placed, InTime, ReadBrowser, Goto, Reading
<1>6. CASE Read
  BY <1>6 DEF ObservationInv, KeepsUp, Placed, InTime, Read, Goto, Reading
<1>7. CASE Describe
  BY <1>7 DEF ObservationInv, KeepsUp, Placed, InTime, Describe, Goto
<1>8. CASE WindowEnds
  BY <1>8 DEF ObservationInv, KeepsUp, Placed, InTime, WindowEnds, Goto, NoSet
<1>9. CASE Again
  BY <1>9 DEF ObservationInv, KeepsUp, Placed, InTime, Again, StartCollect, Goto, NoSet, Deadline
<1>10. CASE FirstEnds
  BY <1>10 DEF ObservationInv, KeepsUp, Placed, InTime, FirstEnds, StartCollect, Goto, NoSet
<1>11. CASE SecondEnds
  BY <1>11 DEF ObservationInv, KeepsUp, Placed, InTime, SecondEnds, Goto
<1>12. CASE Refused
  BY <1>12 DEF ObservationInv, KeepsUp, Placed, InTime, Refused, Throw, NoSet
<1>13. CASE CollectFails
  BY <1>13 DEF ObservationInv, KeepsUp, Placed, InTime, CollectFails, Throw, NoSet
<1>14. CASE BillingChanges
  BY <1>14 DEF ObservationInv, KeepsUp, Placed, InTime, BillingChanges
<1>15. CASE TargetLearns
  BY <1>15 DEF ObservationInv, KeepsUp, Placed, InTime, TargetLearns
<1>16. CASE Tick
  BY <1>16 DEF ObservationInv, KeepsUp, Placed, InTime, Tick
<1> QED
  BY <1>1, <1>2, <1>3, <1>4, <1>5, <1>6, <1>7, <1>8, <1>9, <1>10, <1>11, <1>12, <1>13, <1>14, <1>15, <1>16 DEF ObservationNext, Observe

(* Once the window has passed, an honest target knows what was confirmed.  *)
LEMMA HonestKnows ==
  ASSUME ObservationInv, steady, round # "window", conduct = "honest"
  PROVE  shown = billing
BY ObservationAssumption DEF ObservationInv, InTime, Placed, KeepsUp, Deadline

(* A reading made now is worth what Truthful asks for.                     *)
LEMMA ReadNow ==
  ASSUME ObservationInv, steady, NEW s \in Source, NEW value,
         s = "provider" => value = billing,
         s = "application" => value = StatusOf(shown),
         s \in {"api", "browser"} => value \in Answers
  PROVE  Truthful(s, [at |-> now, value |-> value])
<1> DEFINE reading == [at |-> now, value |-> value]
<1>1. reading.at = now /\ reading.value = value
  OBVIOUS
<1>2. round # "window" => reading.at >= Deadline
  BY <1>1 DEF ObservationInv, Placed
<1>3. conduct = "wrong" /\ s \in {"api", "browser"} =>
        value \in IF Entitled(billing) THEN {"denied"} ELSE {"allowed", "leaking"}
  BY DEF Answers
<1>4. round # "window" /\ conduct = "honest" => shown = billing
  BY HonestKnows
<1>5. round # "window" /\ conduct = "honest" /\ s \in {"api", "browser"} =>
        value \in {IF Entitled(billing) THEN "allowed" ELSE "denied", "error"}
  BY <1>4 DEF Answers
<1> HIDE DEF reading
<1>6. Truthful(s, reading)
  BY <1>1, <1>2, <1>3, <1>4, <1>5 DEF Truthful
<1> QED
  BY <1>6 DEF reading

(* A step that leaves the readings, and all they are compared with, alone; *)
(* one that starts a new set; and one that makes a single reading.         *)
LEMMA SameReadings ==
  ASSUME ObservationInv, UNCHANGED <<readings, billing, steady, conduct, round, confirmed>>
  PROVE  ReadingsKnow'
BY DEF ObservationInv, ReadingsKnow, Truthful, Deadline

LEMMA NewReadings ==
  ASSUME readings' = NoReadings
  PROVE  ReadingsKnow'
BY NoneRead DEF ReadingsKnow

LEMMA OneReading ==
  ASSUME ObservationInv, NEW s \in Source, NEW value, Reading(s, value),
         s = "provider" => value = billing,
         s = "application" => value = StatusOf(shown),
         s \in {"api", "browser"} => value \in Answers,
         UNCHANGED <<billing, steady, conduct, round, confirmed>>
  PROVE  ReadingsKnow'
<1>1. SUFFICES ASSUME steady, NEW t \in Source, readings'[t].value # "unread"
               PROVE  Truthful(t, readings[t])'
  BY DEF ReadingsKnow
<1>2. readings'[t] = IF t = s THEN [at |-> now, value |-> value] ELSE readings[t]
  BY DEF Reading, ObservationInv, Placed
<1>3. Truthful(t, readings'[t])
  <2>1. CASE t = s
    BY <1>1, <1>2, <2>1, ReadNow
  <2>2. CASE t # s
    BY <1>1, <1>2, <2>2 DEF ObservationInv, ReadingsKnow
  <2> QED
    BY <2>1, <2>2
<1> QED
  BY <1>3 DEF Truthful, Deadline

LEMMA ReadingsStep ==
  ASSUME ObservationInv, ObservationNext
  PROVE  ReadingsKnow'
<1> USE DEF clocks, choices, world, work
<1>1. CASE Poll \/ PollFails
  BY <1>1, SameReadings, NewReadings
  DEF Poll, PollFails, PollAgain, Throw, StartCollect, NoSet
<1>2. CASE ReadBrowser
  <2>1. PICK a \in Answers : Reading("browser", a)
    BY <1>2 DEF ReadBrowser
  <2>2. "browser" \in Source /\ UNCHANGED <<billing, steady, conduct, round, confirmed>>
    BY <1>2 DEF ReadBrowser, Source
  <2> QED
    BY <2>1, <2>2, OneReading
<1>3. CASE Read
  <2>1. PICK s \in Source :
          \E value \in CASE s = "provider" -> {billing}
                         [] s = "application" -> {StatusOf(shown)}
                         [] OTHER -> Answers : Reading(s, value)
    BY <1>3 DEF Read
  <2>2. PICK value : /\ Reading(s, value)
                     /\ s = "provider" => value = billing
                     /\ s = "application" => value = StatusOf(shown)
                     /\ s \in {"api", "browser"} => value \in Answers
    BY <2>1
  <2>3. UNCHANGED <<billing, steady, conduct, round, confirmed>>
    BY <1>3 DEF Read
  <2> QED
    BY <2>2, <2>3, OneReading
<1>4. CASE WindowEnds \/ Again \/ FirstEnds
  BY <1>4, SameReadings, NewReadings DEF WindowEnds, Again, FirstEnds, StartCollect, NoSet
<1>5. CASE Refused \/ CollectFails
  BY <1>5, NewReadings DEF Refused, CollectFails, Throw, NoSet
<1>6. CASE BillingChanges
  BY <1>6 DEF BillingChanges, ReadingsKnow
<1>7. CASE Resume \/ Collect \/ Describe \/ SecondEnds \/ TargetLearns \/ Tick
  BY <1>7, SameReadings DEF Resume, Collect, Describe, SecondEnds, TargetLearns, Tick
<1> QED
  BY <1>1, <1>2, <1>3, <1>4, <1>5, <1>6, <1>7 DEF ObservationNext, Observe

(* How a verdict is reached: nothing passes a wrong target, and what fails *)
(* fails against the provider as it is.                                    *)
LEMMA Judged ==
  ASSUME ObservationInv, steady, pc = "describe", result' = Evaluate(readings, NotBefore)
  PROVE  /\ conduct = "wrong" => \A c \in {"api", "browser"} : result'[c] \notin PassCodes
         /\ round # "window" =>
              \A c \in Channel : result'[c] \in FailCodes => conduct # "honest" /\ c \in Wrong
<1> DEFINE expected == ExpectedAccess(billing)
<1>1. /\ \A s \in Source : Truthful(s, readings[s])
      /\ readings["provider"].value = billing
  BY DEF ObservationInv, Placed, ReadingsKnow, Truthful, Source
<1>2. CASE TooOld(readings, NotBefore)
  <2>1. \A c \in Channel : result'[c] = "EVIDENCE_STALE"
    BY <1>2 DEF Evaluate
  <2> QED
    BY <2>1 DEF Channel, PassCodes, FailCodes
<1>3. CASE ~ TooOld(readings, NotBefore)
  <2>1. /\ \A c \in {"api", "browser"} : result'[c] = Judge(expected, readings[c].value)
        /\ result'["state"] = IF expected = "unknown" THEN "UNKNOWN"
                              ELSE IF readings["application"].value = StatusOf(billing)
                              THEN "STATE_MATCHES" ELSE "STATE_DRIFT"
    BY <1>1, <1>3 DEF Evaluate, Channel
  <2>2. ASSUME conduct = "wrong", NEW c \in {"api", "browser"}
        PROVE  result'[c] \notin PassCodes
    <3>1. readings[c].value \in
            IF Entitled(billing) THEN {"denied"} ELSE {"allowed", "leaking"}
      BY <1>1, <2>2 DEF Truthful, Source
    <3> QED
      BY <2>1, <3>1 DEF Judge, ExpectedAccess, Entitled, PassCodes
  <2>3. ASSUME round # "window", NEW c \in Channel, result'[c] \in FailCodes
        PROVE  conduct # "honest" /\ c \in Wrong
    <3>1. CASE c = "state"
      <4>1. readings["application"].value # StatusOf(billing)
        BY <2>1, <2>3, <3>1 DEF FailCodes
      <4>2. readings["application"].at >= Deadline /\ conduct # "honest"
        BY <1>1, <2>3, <4>1 DEF Truthful, Source
      <4> QED
        BY <3>1, <4>1, <4>2 DEF Wrong, Channel
    <3>2. CASE c \in {"api", "browser"}
      <4>1. Judge(expected, readings[c].value) \in FailCodes
        BY <2>1, <2>3, <3>2
      <4>2. readings[c].at >= Deadline
        BY <1>1, <2>3, <3>2 DEF Truthful, Source
      <4>3. conduct = "honest" =>
              readings[c].value \in {IF Entitled(billing) THEN "allowed" ELSE "denied", "error"}
        BY <1>1, <2>3, <3>2 DEF Truthful, Source
      <4>4. conduct # "honest"
        BY <4>1, <4>3 DEF Judge, ExpectedAccess, Entitled, FailCodes
      <4> QED
        BY <3>2, <4>1, <4>2, <4>4 DEF Wrong, Channel
    <3> QED
      BY <2>3, <3>1, <3>2 DEF Channel
  <2> QED
    BY <2>2, <2>3
<1> QED
  BY <1>2, <1>3

LEMMA SameResult ==
  ASSUME ObservationInv,
         UNCHANGED <<readings, billing, steady, conduct, round, confirmed, pc, result, first>>
  PROVE  ResultKnows'
BY DEF ObservationInv, ResultKnows, Wrong, Deadline, Passes

LEMMA ResultStep ==
  ASSUME ObservationInv, ObservationNext
  PROVE  ResultKnows'
<1> USE DEF clocks, choices, world, work
<1>1. CASE Poll \/ PollFails \/ Resume \/ Collect \/ ReadBrowser \/ Again \/ FirstEnds \/ Refused
           \/ CollectFails
  BY <1>1 DEF Poll, PollFails, PollAgain, Throw, StartCollect, Goto, Resume, Collect, ReadBrowser,
              Again, FirstEnds, Refused, CollectFails, ResultKnows
<1>2. CASE Read
  BY <1>2 DEF Read, Goto, ResultKnows
<1>3. CASE Describe
  <2>1. /\ pc = "describe" /\ pc' = "done" /\ result' = Evaluate(readings, NotBefore)
        /\ UNCHANGED <<readings, billing, steady, conduct, round, confirmed, first>>
    BY <1>3 DEF Describe, Goto
  <2>2. steady => /\ conduct = "wrong" => \A c \in {"api", "browser"} : result'[c] \notin PassCodes
                  /\ round # "window" =>
                       \A c \in Channel : result'[c] \in FailCodes =>
                         conduct # "honest" /\ c \in Wrong
    BY <2>1, Judged
  <2>3. Wrong' = Wrong
    BY <2>1 DEF Wrong, Deadline
  <2> QED
    BY <2>1, <2>2, <2>3 DEF ResultKnows
<1>4. CASE WindowEnds
  <2>1. pc = "done" /\ round = "window" /\ UNCHANGED <<billing, steady, conduct, round>>
    BY <1>4 DEF WindowEnds
  <2>2. CASE Passes(result)
    <3>1. pc' = "returned" /\ UNCHANGED result
      BY <1>4, <2>2 DEF WindowEnds, Goto
    <3> QED
      BY <2>1, <2>2, <3>1 DEF ObservationInv, ResultKnows, Passes
  <2>3. CASE ~ Passes(result)
    BY <1>4, <2>3 DEF WindowEnds, Goto, ResultKnows
  <2> QED
    BY <2>2, <2>3
<1>5. CASE SecondEnds
  <2>1. /\ pc = "done" /\ round = "second" /\ pc' = "returned"
        /\ result' = Stable(first.failures, result)
        /\ UNCHANGED <<readings, billing, steady, conduct, round, confirmed, first>>
    BY <1>5 DEF SecondEnds, Goto
  <2>2. \A c \in Channel :
          \/ result'[c] = "UNSTABLE_CONTRADICTION"
          \/ /\ result'[c] = result[c]
             /\ result[c] \in FailCodes => first.failures[c] \in FailCodes
    BY <2>1 DEF Stable
  <2>3. Wrong' = Wrong
    BY <2>1 DEF Wrong, Deadline
  <2>4. "UNSTABLE_CONTRADICTION" \notin PassCodes \cup FailCodes
    BY DEF PassCodes, FailCodes
  <2>5. SUFFICES ASSUME steady
                 PROVE  /\ conduct = "wrong" =>
                             \A c \in {"api", "browser"} : result'[c] \notin PassCodes
                        /\ \A c \in Channel : result'[c] \in FailCodes =>
                             conduct # "honest" /\ c \in Wrong /\ c \in first.deserved
    BY <2>1, <2>3 DEF ResultKnows
  <2>6. /\ conduct = "wrong" => \A c \in {"api", "browser"} : result[c] \notin PassCodes
        /\ \A c \in Channel : result[c] \in FailCodes => conduct # "honest" /\ c \in Wrong
        /\ \A c \in Channel : first.failures[c] \in FailCodes => c \in first.deserved
    BY <2>1, <2>5 DEF ObservationInv, ResultKnows, FirstKnows
  <2>7. {"api", "browser"} \subseteq Channel
    BY DEF Channel
  <2> QED
    BY <2>2, <2>4, <2>6, <2>7
<1>6. CASE BillingChanges
  BY <1>6 DEF BillingChanges, ResultKnows
<1>7. CASE TargetLearns \/ Tick
  BY <1>7, SameResult DEF TargetLearns, Tick
<1> QED
  BY <1>1, <1>2, <1>3, <1>4, <1>5, <1>6, <1>7 DEF ObservationNext, Observe

LEMMA SameFirst ==
  ASSUME ObservationInv, UNCHANGED <<first, steady, round>>
  PROVE  FirstKnows'
BY DEF ObservationInv, FirstKnows

LEMMA FirstStep ==
  ASSUME ObservationInv, ObservationNext
  PROVE  FirstKnows'
<1> USE DEF clocks, choices, world, work
<1>1. CASE Poll \/ PollFails
  BY <1>1, SameFirst DEF Poll, PollFails, PollAgain, Throw, StartCollect, FirstKnows
<1>2. CASE Again
  BY <1>2 DEF Again, StartCollect, FirstKnows
<1>3. CASE FirstEnds
  <2> DEFINE failures == [c \in Channel |-> IF result[c] \in FailCodes THEN result[c] ELSE "none"]
  <2> DEFINE deserved == IF steady THEN {c \in Wrong : result[c] \in FailCodes} ELSE {}
  <2>1. /\ pc = "done" /\ round = "first" /\ UNCHANGED steady
        /\ first' = [failures |-> failures, deserved |-> deserved]
    BY <1>3 DEF FirstEnds
  <2>2. SUFFICES ASSUME steady, NEW c \in Channel, failures[c] \in FailCodes
                 PROVE  c \in deserved
    BY <2>1 DEF FirstKnows
  <2>3. result[c] \in FailCodes
    BY <2>2 DEF FailCodes
  <2>4. c \in Wrong
    BY <2>1, <2>2, <2>3 DEF ObservationInv, ResultKnows
  <2> QED
    BY <2>2, <2>3, <2>4
<1>4. CASE BillingChanges
  BY <1>4 DEF BillingChanges, FirstKnows
<1>5. CASE Refused \/ CollectFails
  BY <1>5, SameFirst DEF Refused, CollectFails, Throw
<1>6. CASE Resume \/ Collect \/ ReadBrowser \/ Read \/ Describe \/ WindowEnds \/ SecondEnds
           \/ TargetLearns \/ Tick
  BY <1>6, SameFirst
  DEF Resume, Collect, ReadBrowser, Read, Describe, WindowEnds, SecondEnds, TargetLearns, Tick
<1> QED
  BY <1>1, <1>2, <1>3, <1>4, <1>5, <1>6 DEF ObservationNext, Observe

LEMMA ObservationInvInit == ObservationInit => ObservationInv
<1> SUFFICES ASSUME ObservationInit PROVE ObservationInv
  OBVIOUS
<1>1. /\ now = 0 /\ changed = 0 /\ ~ steady /\ pc = "poll" /\ due = ReadMs /\ confirmed = 0
      /\ round = "window" /\ readings = NoReadings
  BY DEF ObservationInit
<1>2. InTime
  BY <1>1, ObservationAssumption DEF InTime, DueBy
<1>3. Placed /\ KeepsUp /\ ReadingsKnow /\ ResultKnows /\ FirstKnows
  BY <1>1, NoneRead, ObservationAssumption
  DEF Placed, KeepsUp, ReadingsKnow, ResultKnows, FirstKnows
<1> QED
  BY <1>2, <1>3 DEF ObservationInv

LEMMA ObservationInvStep ==
  ObservationInv /\ [ObservationNext]_observationVars => ObservationInv'
<1> SUFFICES ASSUME ObservationInv, [ObservationNext]_observationVars PROVE ObservationInv'
  OBVIOUS
<1>1. CASE ObservationNext
  BY <1>1, InTimeStep, PlacedStep, KeepsUpStep, ReadingsStep, ResultStep, FirstStep
  DEF ObservationInv
<1>2. CASE UNCHANGED observationVars
  <2> USE <1>2 DEF observationVars, clocks, choices, world, work
  <2>1. InTime' /\ Placed' /\ KeepsUp'
    BY DEF ObservationInv, InTime, Placed, KeepsUp, Deadline
  <2>2. ReadingsKnow' /\ ResultKnows' /\ FirstKnows'
    BY SameReadings, SameResult, SameFirst
  <2> QED
    BY <2>1, <2>2 DEF ObservationInv
<1> QED
  BY <1>1, <1>2

LEMMA ObservationInvariant == ObservationSpec => []ObservationInv
  BY ObservationInvInit, ObservationInvStep, PTL DEF ObservationSpec

(* A reported failure was deserved twice, and not by an honest target,     *)
(* however slow the reads are and whenever provider and target move        *)
(* (observeScenario, evaluateEvidence).                                    *)
THEOREM FailureDeserved == ObservationSpec => []FailureIsDeserved
<1>1. ObservationInv => FailureIsDeserved
  <2> SUFFICES ASSUME ObservationInv, Returned, steady, NEW c \in Channel, result[c] \in FailCodes
               PROVE  conduct # "honest" /\ c \in first.deserved \cap Wrong
    BY DEF FailureIsDeserved
  <2>1. round # "window"
    BY DEF ObservationInv, ResultKnows, Returned, Passes, PassCodes, FailCodes
  <2>2. round = "second"
    BY <2>1 DEF ObservationInv, Placed, Returned
  <2> QED
    BY <2>1, <2>2 DEF ObservationInv, ResultKnows, Returned
<1> QED
  BY <1>1, ObservationInvariant, PTL

(* A target that always does the opposite of what it should never passes a *)
(* probe while the provider stays as it was confirmed (evaluateProbe).     *)
THEOREM WrongPassesNever == ObservationSpec => []WrongNeverPasses
<1>1. ObservationInv => WrongNeverPasses
  BY DEF ObservationInv, ResultKnows, WrongNeverPasses, Returned
<1> QED
  BY <1>1, ObservationInvariant, PTL

(* However slow the reads are and whatever provider and target say, an     *)
(* observation is over in a time that its settings bound.                  *)
THEOREM EndsInTime == ObservationSpec => []ObservedInTime
<1>1. ObservationInv => ObservedInTime
  BY ObservationAssumption
  DEF ObservationInv, InTime, Placed, DueBy, RoundBegins, ObservedInTime, Ended
<1> QED
  BY <1>1, ObservationInvariant, PTL
=============================================================================
