------------------------------ MODULE MCTarget ------------------------------
(***************************************************************************)
(* Small instances of the target and of its observation, side by side: they*)
(* share nothing, and a behaviour is of one of them, `side', while the     *)
(* other stands still.  Of the target: two fixtures that may take turns    *)
(* with one customer, and replayed events of which two share an id, one    *)
(* names another subscription and one a customer of the provider.          *)
(***************************************************************************)
EXTENDS ReferenceTarget, ScenarioObservation, TLC

VARIABLE side

targetVars == <<side, referenceVars, observationVars>>

OperationSymmetry == Permutations(Operation)

RunOfCustomer == [c \in Customer |-> "run1"]
TheSubscription == [c \in Customer |-> "sub1"]

Replayed(id, created, customer, subscription, status, paid) ==
  [id |-> id, mode |-> "local_replay", created |-> created, customer |-> customer,
   subscription |-> subscription, run |-> "run1",
   facts |-> [status |-> status, paid |-> paid, version |-> 0]]
ReplayedEvents ==
  {Replayed(<<"replay", 1>>, 1, "cus_replay", "sub1", "active", TRUE),
   Replayed(<<"replay", 2>>, 2, "cus_replay", "sub1", "canceled", FALSE),
   Replayed(<<"replay", 2>>, 3, "cus_replay", "sub1", "active", FALSE),
   Replayed(<<"replay", 3>>, 2, "cus_replay", "sub2", "active", FALSE),
   Replayed(<<"replay", 4>>, 1, "cus1", "sub1", "canceled", FALSE)}

TargetInit ==
  /\ side \in {"target", "observation"}
  /\ ReferenceInit /\ ObservationInit
  /\ side = "target" =>
       /\ scenario = "SC01" /\ conduct = "honest"
       /\ billing = "absent" /\ shown = "absent"

TargetNext ==
  /\ UNCHANGED side
  /\ \/ side = "target" /\ ReferenceNext /\ UNCHANGED observationVars
     \/ side = "observation" /\ ObservationNext /\ UNCHANGED referenceVars

TargetSpec == TargetInit /\ [][TargetNext]_targetVars
=============================================================================
