-------------------------- MODULE RepairPublication --------------------------
(***************************************************************************)
(* The publication of one approved repair as a pull request: publishRepair *)
(* and GitHubPublicationAdapter of src/repair/github.ts over the store.    *)
(*                                                                         *)
(* A publisher is one call of publishRepair, in this or another process;   *)
(* its lease token is its own name.  Other publishers run between any two  *)
(* of its transactions.  A read of GitHub is one step with the guard that  *)
(* precedes it; reads of objects named by their hash (commits, trees) can  *)
(* only confirm what they are named after, and are part of the read that   *)
(* found the name.  A write is a message: GitHub may act on it, or answer, *)
(* long after the publisher gave it up.                                    *)
(***************************************************************************)
EXTENDS RepairStore, FiniteSets

CONSTANT proposal   \* the proposal that is published

ASSUME PublicationAssumption == proposal \in Proposal

VARIABLES
  pc,      \* where each publisher is
  copy,    \* its copy of the stored progress
  doing,   \* the write it is at
  base,    \* GitHub: the base branch is at the proposal's base commit
  branch,  \* GitHub: the repair branch: "none", "ours" or "foreign"
  net,     \* the writes sent, ever
  served,  \* the writes GitHub acted on
  pulls    \* GitHub: the pull requests of the branch, by publisher

github == <<base, branch, net, served, pulls>>
publishers == <<pc, copy, doing>>
publicationVars == <<repairVars, publishers, github>>

Publisher == Token
Write == {"tree", "commit", "ref", "pull"}
Message == [by : Publisher, write : Write, at : Nat]
Reading == {"base", "branch", "check", "ref", "pulls", "pull", "final", "tip"}
Working == Reading \cup {"adopt", "attempt", "mark", "send", "await", "save", "finish"}
Stage == Working \cup {"idle", "failed", "done", "dead"}

Stored == proposals[proposal].progress
Goto(t, stage) == pc' = [pc EXCEPT ![t] = stage]
Remember(t, progress) == copy' = [copy EXCEPT ![t] = progress]
Sent(t, write) == {m \in net : m.by = t /\ m.write = write}

(* The write that is missing once the branch is known not to exist. *)
Missing(progress) ==
  IF ~ progress.tree THEN "tree" ELSE IF ~ progress.commit THEN "commit" ELSE "ref"
Begin(t, write) == doing' = [doing EXCEPT ![t] = write] /\ Goto(t, "check")

-----------------------------------------------------------------------------
(* A publisher *)

Claim(t) ==
  /\ pc[t] = "idle"
  /\ ClaimPublication(proposal, t, "github")
  /\ Remember(t, proposals'[proposal].progress)
  /\ Goto(t, "base")
  /\ UNCHANGED <<doing, github>>

Read(t, stage) ==
  /\ pc[t] = stage
  /\ GuardPublication(proposal, t, FALSE)
  /\ UNCHANGED <<copy, github>>

ReadBase(t) == Read(t, "base") /\ base /\ Goto(t, "branch") /\ UNCHANGED doing

(* An existing branch is adopted when it is ours; a pull request that may  *)
(* have been asked for, without a branch, is an unknown outcome.           *)
ReadBranch(t) ==
  /\ Read(t, "branch")
  /\ \/ branch = "ours" /\ Goto(t, "adopt") /\ UNCHANGED doing
     \/ branch = "none" /\ ~ copy[t].prAttempted /\ Begin(t, Missing(copy[t]))

(* Mutant: the progress is stored without asking for the lease. *)
PersistAnyway(t, stage, progress) ==
  /\ pc[t] = stage
  /\ Save(proposal, [proposals[proposal] EXCEPT !.progress = progress])
  /\ UNCHANGED <<now, claimed>>
  /\ Remember(t, progress)
  /\ UNCHANGED github

Persist(t, stage, progress) ==
  /\ pc[t] = stage
  /\ SaveProgress(proposal, t, progress)
  /\ Remember(t, progress)
  /\ UNCHANGED github

Adopt(t) ==
  /\ Persist(t, "adopt", [copy[t] EXCEPT !.tree = TRUE, !.commit = TRUE])
  /\ Goto(t, "pulls")
  /\ UNCHANGED doing

(* checkBase before every write *)
CheckBase(t) ==
  /\ Read(t, "check") /\ base
  /\ Goto(t, IF doing[t] = "pull" THEN "attempt" ELSE "send")
  /\ UNCHANGED doing

(* The request of a pull request is guarded and recorded before it is sent. *)
GuardPull(t) ==
  /\ pc[t] = "attempt"
  /\ GuardPublication(proposal, t, TRUE)
  /\ Goto(t, "mark")
  /\ UNCHANGED <<copy, doing, github>>

Mark(t) ==
  /\ Persist(t, "mark", [copy[t] EXCEPT !.prAttempted = TRUE])
  /\ Goto(t, "send")
  /\ UNCHANGED doing

Send(t) ==
  /\ pc[t] = "send"
  /\ GuardPublication(proposal, t, TRUE)
  /\ net' = net \cup {[by |-> t, write |-> doing[t], at |-> now]}
  /\ Goto(t, "await")
  /\ UNCHANGED <<copy, doing, base, branch, served, pulls>>

Answered(t) ==
  /\ pc[t] = "await"
  /\ Sent(t, doing[t]) \cap served # {}
  /\ Goto(t, IF doing[t] \in {"tree", "commit"} THEN "save" ELSE doing[t])
  /\ UNCHANGED <<repairVars, copy, doing, github>>

SaveObject(t) ==
  LET progress == IF doing[t] = "tree" THEN [copy[t] EXCEPT !.tree = TRUE]
                  ELSE [copy[t] EXCEPT !.commit = TRUE]
  IN Persist(t, "save", progress) /\ Begin(t, Missing(progress))

(* Whatever the answer to the branch's creation, the branch must be ours. *)
ReadRef(t) == Read(t, "ref") /\ branch = "ours" /\ Goto(t, "pulls") /\ UNCHANGED doing

(* Mutant: a pull request that was asked for is taken to exist. *)
ReadPullsTrusting(t) ==
  /\ Read(t, "pulls")
  /\ \/ (Cardinality(pulls) = 1 \/ copy[t].prAttempted) /\ Goto(t, "final") /\ UNCHANGED doing
     \/ pulls = {} /\ ~ copy[t].prAttempted /\ Begin(t, "pull")

(* Mutant: a pull request that is not listed is asked for again. *)
ReadPullsRetrying(t) ==
  /\ Read(t, "pulls")
  /\ \/ Cardinality(pulls) = 1 /\ Goto(t, "final") /\ UNCHANGED doing
     \/ pulls = {} /\ Begin(t, "pull")

ReadPulls(t) ==
  /\ Read(t, "pulls")
  /\ \/ Cardinality(pulls) = 1 /\ Goto(t, "final") /\ UNCHANGED doing
     \/ pulls = {} /\ ~ copy[t].prAttempted /\ Begin(t, "pull")

ReadPull(t) == Read(t, "pull") /\ branch = "ours" /\ Goto(t, "final") /\ UNCHANGED doing

ReadFinal(t) == Read(t, "final") /\ base /\ Goto(t, "tip") /\ UNCHANGED doing

ReadTip(t) == Read(t, "tip") /\ branch = "ours" /\ Goto(t, "finish") /\ UNCHANGED doing

Finish(t) ==
  /\ pc[t] = "finish"
  /\ FinishPublication(proposal, t)
  /\ Goto(t, "done")
  /\ UNCHANGED <<copy, doing, github>>

(* A refused guard, a lost answer, a read that does not match or a base    *)
(* that moved ends the call, which gives its lease back.                   *)
Fail(t) ==
  /\ pc[t] \in Working
  /\ Goto(t, "failed")
  /\ \/ ReleasePublication(proposal, t)
     \/ ~ Holds(proposal, t) /\ UNCHANGED repairVars
  /\ UNCHANGED <<copy, doing, github>>

(* The process dies and leaves its lease to expire. *)
Die(t) ==
  /\ pc[t] \in Working
  /\ Goto(t, "dead")
  /\ UNCHANGED <<repairVars, copy, doing, github>>

-----------------------------------------------------------------------------
(* GitHub *)

Serve(m) ==
  /\ m \in net \ served
  /\ m.write = "pull" => branch # "none"
  /\ served' = served \cup {m}
  /\ branch' = IF m.write = "ref" /\ branch = "none" THEN "ours" ELSE branch
  /\ pulls' = IF m.write = "pull" THEN pulls \cup {m.by} ELSE pulls
  /\ UNCHANGED <<repairVars, publishers, base, net>>

(* Others push to the base branch, or take the repair branch's name.  That *)
(* they move or delete the branch once it is ours is left out: a publisher *)
(* that meets it stops with an error, as at any other read (Fail).         *)
Others ==
  /\ \/ base /\ base' = FALSE /\ UNCHANGED branch
     \/ branch = "none" /\ branch' = "foreign" /\ UNCHANGED base
  /\ UNCHANGED <<repairVars, publishers, net, served, pulls>>

-----------------------------------------------------------------------------

PublicationInit ==
  /\ RepairInit
  /\ pc = [t \in Publisher |-> "idle"]
  /\ copy = [t \in Publisher |-> NoProgress]
  /\ doing = [t \in Publisher |-> "tree"]
  /\ base = TRUE /\ branch = "none"
  /\ net = {} /\ served = {} /\ pulls = {}

PublishRepair(t) ==
  \/ Claim(t) \/ ReadBase(t) \/ ReadBranch(t) \/ Adopt(t)
  \/ CheckBase(t) \/ GuardPull(t) \/ Mark(t) \/ Send(t) \/ Answered(t) \/ SaveObject(t)
  \/ ReadRef(t) \/ ReadPulls(t) \/ ReadPull(t) \/ ReadFinal(t) \/ ReadTip(t) \/ Finish(t)
  \/ Fail(t) \/ Die(t)

PublicationNext ==
  \/ (Tick \/ \E p \in Proposal : Owner(p)) /\ UNCHANGED <<publishers, github>>
  \/ \E t \in Publisher : PublishRepair(t)
  \/ \E m \in net : Serve(m)
  \/ Others

PublicationSpec == PublicationInit /\ [][PublicationNext]_publicationVars

-----------------------------------------------------------------------------
(* Properties *)

PublicationTypeOK ==
  /\ pc \in [Publisher -> Stage]
  /\ copy \in [Publisher -> Progress]
  /\ doing \in [Publisher -> Write]
  /\ base \in BOOLEAN /\ branch \in {"none", "ours", "foreign"}
  /\ net \subseteq Message /\ served \subseteq net /\ pulls \subseteq Publisher

(* Every write that was ever sent was sent while the owner's approval was  *)
(* in force, by a publisher that had claimed the proposal; after the       *)
(* approval expired a retry only reads.                                    *)
WritesApproved ==
  \A m \in net :
    /\ proposals[proposal].approval.decision = "allow"
    /\ m.at < proposals[proposal].approval.expiresAt
    /\ m.by \in claimed

(* What the store calls published was put on GitHub: the branch is ours    *)
(* and has a pull request, also when another publisher than the one that   *)
(* asked for it found it.  (What others do to either later is their own.)  *)
PublishedIsReal ==
  proposals[proposal].state = "published" => branch = "ours" /\ pulls # {}

(* The publisher that holds the lease knows what was stored before it:     *)
(* what an earlier one attempted is never overwritten by an older copy.    *)
HolderKnowsProgress ==
  \A t \in Publisher :
    pc[t] \in Working /\ Holds(proposal, t) => copy[t] = Stored

(* The pull request is one effect of a stored intent: asked for at most    *)
(* once by all publishers together, never before the intent is stored, and *)
(* recorded as published only when it exists.                              *)
PullRequest == INSTANCE EffectOnce WITH
  intent <- IF ~ Attempted(proposal) THEN "none"
            ELSE IF Finished(proposal) THEN "confirmed"
            ELSE IF Stored.prAttempted THEN "dispatched" ELSE "prepared",
  requested <- Cardinality({m \in net : m.write = "pull"}),
  effects <- 1..Cardinality(pulls)

PullRequestIsOneEffect == PullRequest!EffectSpec
=============================================================================
