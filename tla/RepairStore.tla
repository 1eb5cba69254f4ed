----------------------------- MODULE RepairStore -----------------------------
(***************************************************************************)
(* The durable store of repairs, src/repair/store.ts: proposals, the       *)
(* verification that turns one into an immutable manifest, the owner's     *)
(* approval of its publication, and the lease under which it is published. *)
(* Every method is one immediate SQLite transaction, hence one action; a   *)
(* call the code refuses leaves the store as it is, and its condition is a *)
(* guard.                                                                  *)
(*                                                                         *)
(* A proposal is known by its finding and attempt, which are unique.  Its  *)
(* content (changes, hashes, branch) is one value, and so are the title    *)
(* and body asked for a publication: the store only compares them.  The    *)
(* approval's id and binding hash are fresh per proposal, and modelled by  *)
(* the proposal they were issued for.                                      *)
(***************************************************************************)
EXTENDS Integers

CONSTANTS
  Finding,     \* confirmed failures of one run
  Attempt,     \* attempts at one finding: 1, and 2 once 1 exists
  Mode,        \* verification modes in use
  Content,     \* what a proposal may change
  Text,        \* titles and bodies of a publication request
  Token,       \* lease tokens, fresh for each claim
  ApprovalMs,  \* lifetime of a publication approval
  LeaseMs,     \* length of the publication lease
  MaxTime      \* bound on the clock

ASSUME RepairStoreAssumption ==
  /\ "none" \notin Content /\ "none" \notin Text /\ "none" \notin Token
  /\ Attempt \subseteq {1, 2}
  /\ Mode \subseteq {"local_replay", "polar_sandbox"}
  /\ ApprovalMs \in Nat \ {0} /\ LeaseMs \in Nat /\ MaxTime \in Nat

VARIABLES
  now,       \* the clock the store reads
  proposals, \* table repair_proposals
  claimed    \* history: the tokens handed out

repairVars == <<now, proposals, claimed>>

-----------------------------------------------------------------------------
(* Records *)

Proposal == Finding \X Attempt
Transport == {"github", "synthetic"}
VerifiedAs(mode) == IF mode = "local_replay" THEN "verified_local" ELSE "verified_polar_sandbox"

(* The receipts of a verification: whether the original failure was seen   *)
(* before the change and nothing failed after it, what change was tested,  *)
(* and when it was observed (the code also orders the receipts among       *)
(* themselves).                                                            *)
Evidence == [content : Content \cup {"none"}, reproduced : BOOLEAN, passed : BOOLEAN, at : Nat]
NoEvidence == [content |-> "none", reproduced |-> FALSE, passed |-> FALSE, at |-> 0]

Approval == [decision : {"none", "pending", "allow", "deny"}, expiresAt : Nat,
             text : Text \cup {"none"}]
NoApproval == [decision |-> "none", expiresAt |-> 0, text |-> "none"]

Progress == [transport : Transport \cup {"none"}, tree : BOOLEAN, commit : BOOLEAN,
             prAttempted : BOOLEAN, result : {"none", "published", "synthetic"}]
Started(transport) == [transport |-> transport, tree |-> FALSE, commit |-> FALSE,
                       prAttempted |-> FALSE, result |-> "none"]
NoProgress == Started("none")

Record == [state     : {"absent", "proposed", "verified_local", "verified_polar_sandbox",
                        "awaiting_publication", "published", "abandoned"},
           createdAt : Nat,
           content   : Content \cup {"none"},
           mode      : Mode \cup {"none"},
           manifest  : Evidence,
           approval  : Approval,
           progress  : Progress,
           token     : Token \cup {"none"},
           until     : Nat]
Proposed(content, mode) ==
  [state |-> "proposed", createdAt |-> now, content |-> content, mode |-> mode,
   manifest |-> NoEvidence, approval |-> NoApproval, progress |-> NoProgress,
   token |-> "none", until |-> 0]
NoRecord == [Proposed("none", "none") EXCEPT !.state = "absent", !.createdAt = 0]

Exists(p) == proposals[p].state # "absent"
Verified(p) == proposals[p].manifest.content # "none"
Asked(p) == proposals[p].approval.decision # "none"
Save(p, record) == proposals' = [proposals EXCEPT ![p] = record]

-----------------------------------------------------------------------------
(* Proposal, verification, approval *)

(* validateProposal has accepted the input. *)
Propose(p, content, mode) ==
  /\ ~ Exists(p)
  /\ p[2] = 2 => Exists(<<p[1], 1>>)
  /\ Save(p, Proposed(content, mode))
  /\ UNCHANGED <<now, claimed>>

(* Receipts of another change, of a run that did not fail before or failed *)
(* after, older than the proposal or from the future are rejected.         *)
Qualifies(p, evidence) ==
  /\ evidence.content = proposals[p].content
  /\ evidence.reproduced /\ evidence.passed
  /\ proposals[p].createdAt <= evidence.at /\ evidence.at <= now

RecordVerification(p, evidence) ==
  /\ Exists(p) /\ ~ Verified(p)
  /\ proposals[p].state = "proposed"
  /\ Qualifies(p, evidence)
  /\ Save(p, [proposals[p] EXCEPT !.manifest = evidence,
                                  !.state = VerifiedAs(proposals[p].mode)])
  /\ UNCHANGED <<now, claimed>>

RequestPublication(p, text) ==
  /\ Exists(p) /\ Verified(p)
  /\ ~ Asked(p)
  /\ proposals[p].state \in {"verified_local", "verified_polar_sandbox"}
  /\ Save(p, [proposals[p] EXCEPT
       !.approval = [decision |-> "pending", expiresAt |-> now + ApprovalMs, text |-> text],
       !.state = "awaiting_publication"])
  /\ UNCHANGED <<now, claimed>>

(* A decision names the approval issued for proposal b. *)
DecidePublication(p, b, decision) ==
  /\ Exists(p) /\ b = p
  /\ proposals[p].approval.decision = "pending"
  /\ now < proposals[p].approval.expiresAt
  /\ proposals[p].state = "awaiting_publication"
  /\ Save(p, [proposals[p] EXCEPT
       !.approval.decision = decision,
       !.state = IF decision = "deny" THEN "abandoned" ELSE @])
  /\ UNCHANGED <<now, claimed>>

-----------------------------------------------------------------------------
(* The publication lease *)

Authorized(p) == Exists(p) /\ Verified(p) /\ proposals[p].approval.decision = "allow"
Attempted(p) == proposals[p].progress.transport # "none"
Finished(p) == Attempted(p) /\ proposals[p].progress.result # "none"
Leased(p) == proposals[p].token # "none" /\ proposals[p].until > now
Holds(p, t) == proposals[p].token = t

ClaimPublication(p, t, transport) ==
  /\ Authorized(p)
  /\ Attempted(p) => proposals[p].progress.transport = transport
  /\ ~ Finished(p) /\ ~ Leased(p)
  /\ t \notin claimed
  /\ claimed' = claimed \cup {t}
  /\ Save(p, [proposals[p] EXCEPT
       !.progress = IF Attempted(p) THEN @ ELSE Started(transport),
       !.token = t, !.until = now + LeaseMs])
  /\ UNCHANGED now

(* Mutant: a write needs no more than a read. *)
MayRequestExpired(p, t, write) ==
  /\ Authorized(p)
  /\ Holds(p, t) /\ proposals[p].until >= now

(* The guard before every request to GitHub; a write also needs an         *)
(* approval that has not expired.                                          *)
MayRequest(p, t, write) ==
  /\ Authorized(p)
  /\ Holds(p, t) /\ proposals[p].until >= now
  /\ write => now < proposals[p].approval.expiresAt

GuardPublication(p, t, write) ==
  /\ MayRequest(p, t, write)
  /\ Save(p, [proposals[p] EXCEPT !.until = now + LeaseMs])
  /\ UNCHANGED <<now, claimed>>

SaveProgress(p, t, progress) ==
  /\ Exists(p) /\ Holds(p, t) /\ Attempted(p)
  /\ progress.transport = proposals[p].progress.transport
  /\ Save(p, [proposals[p] EXCEPT !.progress = progress])
  /\ UNCHANGED <<now, claimed>>

FinishPublication(p, t) ==
  /\ Exists(p) /\ Holds(p, t) /\ Attempted(p)
  /\ LET kind == IF proposals[p].progress.transport = "github" THEN "published" ELSE "synthetic"
     IN Save(p, [proposals[p] EXCEPT
          !.progress.result = kind, !.token = "none", !.until = 0,
          !.state = IF kind = "published" THEN "published" ELSE @])
  /\ UNCHANGED <<now, claimed>>

ReleasePublication(p, t) ==
  /\ Exists(p) /\ Holds(p, t)
  /\ Save(p, [proposals[p] EXCEPT !.token = "none", !.until = 0])
  /\ UNCHANGED <<now, claimed>>

Tick ==
  /\ now < MaxTime
  /\ now' = now + 1
  /\ UNCHANGED <<proposals, claimed>>

-----------------------------------------------------------------------------
(* Any caller, any order *)

RepairInit ==
  /\ now = 0
  /\ proposals = [p \in Proposal |-> NoRecord]
  /\ claimed = {}

Owner(p) ==
  \/ \E content \in Content, mode \in Mode : Propose(p, content, mode)
  \/ \E evidence \in [content : Content, reproduced : BOOLEAN, passed : BOOLEAN,
                      at : 0..now] : RecordVerification(p, evidence)
  \/ \E text \in Text : RequestPublication(p, text)
  \/ \E b \in Proposal, decision \in {"allow", "deny"} : DecidePublication(p, b, decision)

Publish(p, t) ==
  \/ \E transport \in Transport : ClaimPublication(p, t, transport)
  \/ \E write \in BOOLEAN : GuardPublication(p, t, write)
  \/ \E tree, commit, prAttempted \in BOOLEAN :
       SaveProgress(p, t, [proposals[p].progress EXCEPT
         !.tree = tree, !.commit = commit, !.prAttempted = prAttempted])
  \/ FinishPublication(p, t)
  \/ ReleasePublication(p, t)

RepairNext == Tick \/ \E p \in Proposal : Owner(p) \/ \E t \in Token : Publish(p, t)

RepairSpec == RepairInit /\ [][RepairNext]_repairVars

-----------------------------------------------------------------------------
(* Properties *)

(* Every record of the table is well formed. *)
RepairTypeOK ==
  /\ now \in Nat
  /\ proposals \in [Proposal -> Record]
  /\ claimed \subseteq Token

(* A proposal that counts as published carries evidence about exactly its  *)
(* own change, was allowed by its owner and was sent to GitHub itself, not *)
(* to the synthetic transport; and no denied proposal was ever started.    *)
PublishedWasApproved ==
  \A p \in Proposal :
    /\ proposals[p].state = "published" =>
         /\ proposals[p].manifest.content = proposals[p].content
         /\ proposals[p].manifest.reproduced /\ proposals[p].manifest.passed
         /\ proposals[p].approval.decision = "allow"
         /\ proposals[p].progress.transport = "github"
    /\ proposals[p].state = "abandoned" => ~ Attempted(p) /\ proposals[p].token = "none"

(* The manifest, what the owner was asked, the decision and the result are *)
(* each written once: no retry, late publisher or second request changes   *)
(* what was approved or published.                                         *)
WrittenOnce ==
  [][\A p \in Proposal :
       /\ Exists(p) => proposals'[p].content = proposals[p].content
       /\ Verified(p) => proposals'[p].manifest = proposals[p].manifest
       /\ Asked(p) => /\ proposals'[p].approval.text = proposals[p].approval.text
                      /\ proposals'[p].approval.expiresAt = proposals[p].approval.expiresAt
       /\ proposals[p].approval.decision \in {"allow", "deny"} =>
            proposals'[p].approval = proposals[p].approval
       /\ Finished(p) => proposals'[p] = proposals[p]]_repairVars
=============================================================================
