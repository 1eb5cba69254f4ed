--------------------------- MODULE ProviderIntents ---------------------------
(***************************************************************************)
(* PolarSandboxAdapter, src/integrations/polar-runtime.ts, for one run:    *)
(* its mutations at the payment provider, each behind a row of             *)
(* polar_intents, the resources it records, and the cleanup that says what *)
(* is left.  The controller runs one operation of a run at a time; the     *)
(* operation, a request or its answer may be lost at any point, a request  *)
(* is served at any time after it was sent, and the worker may die.        *)
(*                                                                         *)
(* The reads (src/integrations/polar.ts) check whose customer, product and *)
(* subscription they are told of; here they are the run's.                 *)
(***************************************************************************)
EXTENDS Naturals

CONSTANTS
  ProviderCall,     \* operation ids the runtime may give to an operation
  MaxClock   \* bound on the clock, in verification periods

ASSUME ProviderAssumption == MaxClock \in Nat

VARIABLES
  active,     \* the controller's guard lets the run's mutations through
  time,       \* the clock
  verified,   \* memory: the preflight has passed
  operation,  \* the operation under way
  intents,    \* table polar_intents, by kind
  owned,      \* table polar_resources: the kinds recorded
  periodEnd,  \* table polar_periods, 0 for no row
  cleanupReceipt,    \* what the last cleanup said of the run's resources
  requests,   \* history: the requests sent, by kind
  effects,    \* history: the requests of them that were served
  polar       \* the provider's resources of the run

database == <<intents, owned, periodEnd>>
network == <<requests, effects, polar>>
providerVars == <<active, time, verified, operation, database, cleanupReceipt, network>>

-----------------------------------------------------------------------------

(* The mutation that each operation makes. *)
MutationOf == [createCustomer |-> "create_customer",
               beginSubscriptionCheckout |-> "create_checkout",
               completeSubscriptionCheckout |-> "set_period_end",
               scheduleCancellation |-> "schedule_cancellation",
               cleanup |-> "cleanup"]
Mutation == {MutationOf[name] : name \in DOMAIN MutationOf}

(* Two operations give their mutation an id of their own. *)
IdOf(name, call) ==
  IF name \in {"completeSubscriptionCheckout", "cleanup"} THEN name ELSE call

NoProviderOperation == [name |-> "none", id |-> "none", at |-> "idle"]
Stands(place) == operation.at = place
Performs(name, place) == operation.name = name /\ operation.at = place
GoesTo(place) == operation' = [operation EXCEPT !.at = place]
Done == operation' = NoProviderOperation
MutationKind == MutationOf[operation.name]

(* What the mutation's arguments depend on, as args_hash tells it. *)
Arguments == IF operation.name = "completeSubscriptionCheckout" THEN periodEnd ELSE 0

NoRow == [state |-> "none", id |-> "none", args |-> 0]

(* The controller takes what a failed cleanup should have told for leftover. *)
Fails ==
  /\ Done
  /\ cleanupReceipt' = IF operation.name = "cleanup" THEN "leftover" ELSE cleanupReceipt

-----------------------------------------------------------------------------
(* The operations *)

Preflight ==
  /\ ~ verified
  /\ verified' = TRUE
  /\ UNCHANGED <<active, time, operation, database, cleanupReceipt, network>>

Needs == [createCustomer |-> {}, beginSubscriptionCheckout |-> {"customer"},
          completeSubscriptionCheckout |-> {"customer", "checkout"},
          scheduleCancellation |-> {"customer", "subscription"},
          awaitPeriodEnd |-> {"customer", "subscription"}, cleanup |-> {"customer"}]

Begin(name, call) ==
  /\ Stands("idle") /\ verified
  /\ Needs[name] \subseteq owned
  /\ IF name = "cleanup" THEN ~ active ELSE active
  /\ operation' = [name |-> name, id |-> IdOf(name, call),
            at |-> IF name \in {"createCustomer", "beginSubscriptionCheckout"} THEN "mutate"
                   ELSE IF name = "cleanup" THEN "find" ELSE "read"]
  /\ UNCHANGED <<active, time, verified, database, cleanupReceipt, network>>

(* A read fails or is refused, the run's guard or a precondition is not met. *)
OperationFails ==
  /\ ~ Stands("idle")
  /\ Fails
  /\ UNCHANGED <<active, time, verified, database, network>>

(* completeSubscriptionCheckout: the checkout, its subscription and that   *)
(* it is paid for; nothing yet is an answer, and no failure.               *)
ReadCheckout ==
  /\ Performs("completeSubscriptionCheckout", "read") /\ active
  /\ polar.checkout \in {"open", "succeeded"}
  /\ IF polar.checkout = "succeeded" THEN GoesTo("find") ELSE Done
  /\ UNCHANGED <<active, time, verified, database, cleanupReceipt, network>>

FindSubscription ==
  /\ Performs("completeSubscriptionCheckout", "find")
  /\ IF polar.subscription = "none" THEN Done /\ UNCHANGED owned
     ELSE GoesTo("observe") /\ owned' = owned \cup {"subscription"}
  /\ UNCHANGED <<active, time, verified, intents, periodEnd, cleanupReceipt, network>>

SetPeriod ==
  /\ Performs("completeSubscriptionCheckout", "observe")
  /\ polar.subscription = "active" /\ ~ polar.cancelAtPeriodEnd
  /\ periodEnd' = IF periodEnd = 0 THEN time + 1 ELSE periodEnd
  /\ GoesTo("mutate")
  /\ UNCHANGED <<active, time, verified, intents, owned, cleanupReceipt, network>>

ObserveBefore ==
  /\ Performs("scheduleCancellation", "read")
  /\ polar.subscription = "active" /\ (polar.end = 0 \/ time < polar.end)
  /\ GoesTo("mutate")
  /\ UNCHANGED <<active, time, verified, database, cleanupReceipt, network>>

(* awaitPeriodEnd: it polls while the run is active, until the period has  *)
(* ended (its deadline is a failure).                                      *)
AwaitPeriodEnd ==
  /\ Performs("awaitPeriodEnd", "read") /\ active
  /\ polar.cancelAtPeriodEnd
  /\ polar.subscription = "canceled" /\ time > polar.end
  /\ Done
  /\ UNCHANGED <<active, time, verified, database, cleanupReceipt, network>>

-----------------------------------------------------------------------------
(* #mutate *)

(* The row of this mutation, or the row of another under the same id. *)
Taken == intents[MutationKind].state # "none" \/ \E kind \in Mutation : intents[kind].id = operation.id

(* Mutant: a request without an answer is sent again. *)
SendAgain ==
  /\ Stands("mutate") /\ intents[MutationKind].state # "none"
  /\ GoesTo(IF intents[MutationKind].state = "sent" THEN "request" ELSE "answered")
  /\ UNCHANGED <<active, time, verified, database, cleanupReceipt, network>>

(* There is a row: the same operation gets its answer, nothing is sent     *)
(* (POLAR_OPERATION_CONFLICT, POLAR_RECONCILIATION_REQUIRED).              *)
Known ==
  /\ Stands("mutate") /\ Taken
  /\ IF intents[MutationKind] = [state |-> "answered", id |-> operation.id, args |-> Arguments]
     THEN GoesTo("answered") /\ UNCHANGED cleanupReceipt
     ELSE Fails
  /\ UNCHANGED <<active, time, verified, database, network>>

Insert ==
  /\ Stands("mutate") /\ ~ Taken
  /\ operation.name # "cleanup" => active
  /\ intents' = [intents EXCEPT ![MutationKind] = [state |-> "sent", id |-> operation.id, args |-> Arguments]]
  /\ GoesTo("request")
  /\ UNCHANGED <<active, time, verified, owned, periodEnd, cleanupReceipt, network>>

Send ==
  /\ Stands("request")
  /\ requests' = [requests EXCEPT ![MutationKind] = @ + 1]
  /\ GoesTo("answer")
  /\ UNCHANGED <<active, time, verified, database, cleanupReceipt, effects, polar>>

(* Its answer arrives; without it the operation fails. *)
ProviderAnswers ==
  /\ Stands("answer") /\ effects[MutationKind] # {}
  /\ intents' = [intents EXCEPT ![MutationKind].state = "answered"]
  /\ GoesTo("answered")
  /\ UNCHANGED <<active, time, verified, owned, periodEnd, cleanupReceipt, network>>

(* The created resource is recorded; another mutation is confirmed by a    *)
(* read of the subscription.                                               *)
Recorded ==
  /\ Stands("answered") /\ operation.name \in {"createCustomer", "beginSubscriptionCheckout"}
  /\ owned' = owned \cup {IF operation.name = "createCustomer" THEN "customer" ELSE "checkout"}
  /\ Done
  /\ UNCHANGED <<active, time, verified, intents, periodEnd, cleanupReceipt, network>>

Confirmed ==
  /\ Stands("answered")
  /\ \/ operation.name = "completeSubscriptionCheckout" /\ polar.end = periodEnd
     \/ operation.name = "scheduleCancellation" /\ polar.cancelAtPeriodEnd
        /\ polar.subscription = "active"
  /\ Done
  /\ UNCHANGED <<active, time, verified, database, cleanupReceipt, network>>

Mutating == Known \/ Insert \/ Send \/ ProviderAnswers \/ Recorded \/ Confirmed

-----------------------------------------------------------------------------
(* cleanup *)

Cleaned(status) == Done /\ cleanupReceipt' = status

FindForCleanup ==
  /\ Performs("cleanup", "find")
  /\ IF polar.subscription = "none" THEN GoesTo("expiry")
     ELSE "subscription" \in owned /\ GoesTo("read")
  /\ UNCHANGED <<active, time, verified, database, cleanupReceipt, network>>

RevokeSubscription ==
  /\ Performs("cleanup", "read")
  /\ GoesTo(IF polar.subscription = "canceled" THEN "answered" ELSE "mutate")
  /\ UNCHANGED <<active, time, verified, database, cleanupReceipt, network>>

Revoked ==
  /\ Performs("cleanup", "answered") /\ polar.subscription = "canceled"
  /\ Cleaned("retained")
  /\ UNCHANGED <<active, time, verified, database, network>>

(* Mutant: a checkout without a subscription is taken for unpaid. *)
UnpaidAnyway ==
  /\ Performs("cleanup", "expiry")
  /\ Cleaned("retained")
  /\ UNCHANGED <<active, time, verified, database, network>>

Unpaid ==
  /\ Performs("cleanup", "expiry")
  /\ Cleaned(IF "checkout" \in owned /\ polar.checkout # "expired" THEN "leftover"
             ELSE "retained")
  /\ UNCHANGED <<active, time, verified, database, network>>

CleaningUp == FindForCleanup \/ RevokeSubscription \/ Revoked \/ Unpaid

-----------------------------------------------------------------------------
(* The worker and the controller around it *)

ProcessDies ==
  /\ verified \/ ~ Stands("idle")
  /\ verified' = FALSE /\ Done
  /\ UNCHANGED <<active, time, database, cleanupReceipt, network>>

StopRun ==
  /\ active /\ active' = FALSE
  /\ UNCHANGED <<time, verified, operation, database, cleanupReceipt, network>>

-----------------------------------------------------------------------------
(* The provider *)

After(kind) ==
  CASE kind = "create_customer" -> [polar EXCEPT !.customer = TRUE]
    [] kind = "create_checkout" -> [polar EXCEPT !.checkout = "open"]
    [] kind = "set_period_end" -> [polar EXCEPT !.end = intents[kind].args]
    [] kind = "schedule_cancellation" -> [polar EXCEPT !.cancelAtPeriodEnd = TRUE]
    [] kind = "cleanup" -> [polar EXCEPT !.subscription = "canceled"]

(* A request is served, perhaps long after it was sent, or refused: a      *)
(* canceled subscription does not change.                                  *)
ServeMutation(kind) ==
  /\ requests[kind] \notin effects[kind] \cup {0}
  /\ kind \in {"set_period_end", "schedule_cancellation", "cleanup"} =>
       polar.subscription = "active"
  /\ effects' = [effects EXCEPT ![kind] = @ \cup {requests[kind]}]
  /\ polar' = After(kind)
  /\ UNCHANGED <<active, time, verified, operation, database, cleanupReceipt, requests>>

(* The checkout is paid by who has its URL (checkoutUrl), or expires; its  *)
(* subscription follows.                                                   *)
CheckoutEnds ==
  /\ polar.checkout = "open"
  /\ \E status \in {"succeeded", "expired"} :
       /\ status = "succeeded" => "checkout" \in owned
       /\ polar' = [polar EXCEPT !.checkout = status]
  /\ UNCHANGED <<active, time, verified, operation, database, cleanupReceipt, requests, effects>>

Subscribed ==
  /\ polar.checkout = "succeeded" /\ polar.subscription = "none"
  /\ polar' = [polar EXCEPT !.subscription = "active"]
  /\ UNCHANGED <<active, time, verified, operation, database, cleanupReceipt, requests, effects>>

PeriodEnds ==
  /\ polar.subscription = "active" /\ polar.cancelAtPeriodEnd
  /\ polar.end # 0 /\ time >= polar.end
  /\ polar' = [polar EXCEPT !.subscription = "canceled"]
  /\ UNCHANGED <<active, time, verified, operation, database, cleanupReceipt, requests, effects>>

ClockTicks ==
  /\ time < MaxClock /\ time' = time + 1
  /\ UNCHANGED <<active, verified, operation, database, cleanupReceipt, network>>

-----------------------------------------------------------------------------

ProviderInit ==
  /\ active = TRUE /\ time = 0 /\ verified = FALSE /\ operation = NoProviderOperation
  /\ intents = [kind \in Mutation |-> NoRow] /\ owned = {} /\ periodEnd = 0
  /\ cleanupReceipt = "none"
  /\ requests = [kind \in Mutation |-> 0] /\ effects = [kind \in Mutation |-> {}]
  /\ polar = [customer |-> FALSE, checkout |-> "none", subscription |-> "none",
              cancelAtPeriodEnd |-> FALSE, end |-> 0]

ProviderNext ==
  \/ Preflight \/ (\E name \in DOMAIN Needs, call \in ProviderCall : Begin(name, call))
  \/ OperationFails \/ ReadCheckout \/ FindSubscription \/ SetPeriod \/ ObserveBefore
  \/ AwaitPeriodEnd \/ Mutating \/ CleaningUp \/ ProcessDies \/ StopRun
  \/ (\E kind \in Mutation : ServeMutation(kind)) \/ CheckoutEnds \/ Subscribed \/ PeriodEnds
  \/ ClockTicks

ProviderSpec == ProviderInit /\ [][ProviderNext]_providerVars

-----------------------------------------------------------------------------
(* Properties *)

IntentOf(kind) ==
  CASE intents[kind].state = "none" -> "none"
    [] intents[kind].state = "sent" -> "dispatched"
    [] OTHER -> "confirmed"

MutationEffect(kind) == INSTANCE EffectOnce WITH
  intent <- IntentOf(kind), requested <- requests[kind], effects <- effects[kind]

(* Each mutation of the run is one effect (EffectOnce) at the provider:    *)
(* preceded by its row, requested once and never again, whichever          *)
(* operation is repeated under whatever id and whatever answer was lost.   *)
(* A checkout confirmed again at any later time asks for the same period   *)
(* end, which is the one that the provider has, or else its original one.  *)
MutationsAreOneEffect ==
  /\ [](/\ intents["set_period_end"].state # "none" =>
            intents["set_period_end"].args = periodEnd
         /\ polar.end \in {0, periodEnd})
  /\ \A kind \in Mutation : MutationEffect(kind)!EffectInit
  /\ [][\A kind \in Mutation :
          [MutationEffect(kind)!EffectNext]_(MutationEffect(kind)!effectVars)]_providerVars

(* When a cleanup says that what is left is only retained records, no      *)
(* subscription of the run is running or ever will be: not by a checkout   *)
(* paid meanwhile, nor by a request that is served late.                   *)
RetainedIsQuiet == cleanupReceipt = "retained" => polar.subscription # "active"
=============================================================================
