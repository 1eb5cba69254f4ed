------------------------------ MODULE MCServices ------------------------------
(***************************************************************************)
(* Small instances of the services that wait for processes and for the     *)
(* runtime, and of the operator's console, side by side: they share        *)
(* nothing, and a behaviour is of one of them, `service', while the others *)
(* stand still.                                                            *)
(***************************************************************************)
EXTENDS EvidenceReview, OracleProcess, RepairBridge, CodexBridge, OperatorConsole

VARIABLE service

servicesVars == <<service, reviewVars, oracleVars, bridgeVars, gatewayVars,
                  consoleVars>>

(* A run that passed and was cleaned up, and the same with one defect.     *)
Whole == [verdicts |-> [s \in Scenarios |-> "pass"], outcome |-> "passed",
          observations |-> Observation, cited |-> Observation, own |-> Observation,
          pictures |-> Scenarios \X {"browser"},
          delete |-> {"free", "paid"}, retain |-> {"customer"},
          receipts |-> [x \in {"free", "paid", "customer"} |->
                          IF x = "customer" THEN "retained" ELSE "deleted"],
          bound |-> TRUE, cleanupHash |-> "hash", whole |-> TRUE]
ReportContents == [whole |-> Whole, leftover |-> [Whole EXCEPT !.receipts["paid"] = "leftover"]]

Opinion(criteria) ==
  LET of(role) == Synthesized({criteria[c] : c \in Criteria[role]}) IN
  [verdict |-> Synthesized({of(role) : role \in Roles}),
   reviewers |-> [role \in Roles |-> of(role)], criteria |-> criteria,
   errors |-> {c \in Criterion : criteria[c] = "needs_attention"},
   complete |-> Criterion, stray |-> FALSE]
Attentive(found) ==
  Opinion([c \in Criterion |-> IF c \in found THEN "needs_attention" ELSE "confirmed"])
Reviews == [confirmed |-> Attentive({}), attentive |-> Attentive({"CLEANUP_AND_LIMITS"})]

ServicesInit ==
  /\ service \in {"review", "oracle", "bridge", "gateway", "console"}
  /\ ReviewInit /\ OracleInit /\ BridgeInit /\ GatewayInit /\ ConsoleInit
  /\ service # "review" => report = "whole" /\ review = Unreviewed

ServicesNext ==
  /\ UNCHANGED service
  /\ \/ /\ service = "review" /\ ReviewNext
        /\ UNCHANGED <<oracleVars, bridgeVars, gatewayVars, consoleVars>>
     \/ /\ service = "oracle" /\ OracleNext
        /\ UNCHANGED <<reviewVars, bridgeVars, gatewayVars, consoleVars>>
     \/ /\ service = "bridge" /\ BridgeNext
        /\ UNCHANGED <<reviewVars, oracleVars, gatewayVars, consoleVars>>
     \/ /\ service = "gateway" /\ GatewayNext
        /\ UNCHANGED <<reviewVars, oracleVars, bridgeVars, consoleVars>>
     \/ /\ service = "console" /\ ConsoleNext
        /\ UNCHANGED <<reviewVars, oracleVars, bridgeVars, gatewayVars>>

(* The fairness of each, ReviewFairness and so on, while it is at work. *)
ServicesFairness ==
  /\ WF_reviewVars(service = "review" /\ ReviewGoesOn)
  /\ WF_oracleVars(service = "oracle" /\ OracleGoesOn)
  /\ WF_bridgeVars(service = "bridge" /\ Host)
  /\ WF_bridgeVars(service = "bridge" /\ BridgeChild)
  /\ WF_bridgeVars(service = "bridge" /\ Dials)
  /\ WF_bridgeVars(service = "bridge" /\ BridgeAborted)
  /\ WF_gatewayVars(service = "gateway" /\ GatewayGoesOn)
  /\ WF_consoleVars(service = "console" /\ Tick)
  /\ WF_consoleVars(service = "console" /\ Refreshes)

ServicesSpec == ServicesInit /\ [][ServicesNext]_servicesVars /\ ServicesFairness

(* Whatever their processes do, and whoever aborts or dies, the services   *)
(* come to an end: AttemptsEnd of a review, OracleEnds, BridgeEnds, and    *)
(* RequestsEnd of the model gateway.                                       *)
ServicesEnd == AttemptsEnd /\ OracleEnds /\ BridgeEnds /\ RequestsEnd
=============================================================================
