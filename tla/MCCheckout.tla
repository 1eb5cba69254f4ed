----------------------------- MODULE MCCheckout -----------------------------
(***************************************************************************)
(* Small instances of the control store, of the checkout continuation over *)
(* it and of the payment provider's intents.  In a behaviour the callers   *)
(* of the store are either any callers, for the other runs, or the worker  *)
(* of the run that waits; or they stand still beside the provider.         *)
(***************************************************************************)
EXTENDS CheckoutContinuation, ProviderIntents

CONSTANT StoreTime   \* bound on the clock under any callers

VARIABLE caller

vars == <<caller, checkoutVars, providerVars>>

Init ==
  /\ \/ caller \in {"any", "provider"} /\ StoreInit /\ WaitingWorker
     \/ caller = "worker" /\ CheckoutInit
  /\ ProviderInit

AnyCaller ==
  /\ caller = "any"
  /\ StoreNext /\ runs'[run] = runs[run] /\ now' <= StoreTime
  /\ UNCHANGED <<caller, docs, wire, process, thread, memory, providerVars>>

Worker(A) == caller = "worker" /\ A /\ UNCHANGED <<caller, providerVars>>

Provider == caller = "provider" /\ ProviderNext /\ UNCHANGED <<caller, checkoutVars>>

Next == AnyCaller \/ Worker(CheckoutNext) \/ Provider

Spec == Init /\ [][Next]_vars
=============================================================================
