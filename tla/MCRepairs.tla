------------------------------ MODULE MCRepairs ------------------------------
(***************************************************************************)
(* Small instances of the repair coordinator's jobs and of an operation of *)
(* its sandbox runner, side by side: they share nothing, and a behaviour   *)
(* is of one of them, `part', while the other stands still.                *)
(***************************************************************************)
EXTENDS RepairJobs, RepairSandbox, TLC

VARIABLE part

repairsVars == <<part, jobsVars, sandboxVars>>

ThePatch == [content |-> "fix", text |-> "text", finding |-> "SC01"]

RepairsInit ==
  /\ part \in {"jobs", "sandbox"}
  /\ JobsInit /\ SandboxInit
  /\ part # "sandbox" => task = "run" /\ session[1].state = "done" /\ box.made

RepairsNext ==
  /\ UNCHANGED part
  /\ \/ part = "jobs" /\ JobsNext /\ UNCHANGED sandboxVars
     \/ part = "sandbox" /\ SandboxNext /\ UNCHANGED jobsVars

RepairsSpec == RepairsInit /\ [][RepairsNext]_repairsVars
=============================================================================
