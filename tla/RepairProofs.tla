----------------------------- MODULE RepairProofs -----------------------------
(***************************************************************************)
(* The repair store and what is built on it, proved for every value of the *)
(* constants.                                                              *)
(*                                                                         *)
(* The first part is about RepairStore: every transaction replaces one     *)
(* record by another, so that the invariant and the action property are    *)
(* both proved record by record.  The second is about RepairPublication,   *)
(* for any number of publishers: it uses the store as the store allows,    *)
(* and its pull request is one effect.                                     *)
(***************************************************************************)
EXTENDS RepairPublication, FiniteSetTheorems, TLAPS

-----------------------------------------------------------------------------
(* The store: one record at a time *)

(* What holds of every record that the store ever keeps.                   *)
Sound(r) ==
  /\ r \in Record
  /\ r.manifest.content # "none" =>
       /\ r.manifest.content = r.content
       /\ r.manifest.reproduced /\ r.manifest.passed
       /\ r.state \notin {"absent", "proposed"}
  /\ r.approval.decision # "none" =>
       /\ r.manifest.content # "none"
       /\ r.state \in {"awaiting_publication", "published", "abandoned"}
  /\ r.state = "abandoned" => r.approval.decision = "deny"
  /\ r.state = "published" => r.progress.transport = "github" /\ r.progress.result # "none"
  /\ r.progress.transport # "none" => r.approval.decision = "allow"
  /\ r.progress.transport = "none" => r.token = "none" /\ r.progress.result = "none"
  /\ r.progress.result # "none" => r.token = "none"

(* What a transaction may not change in a record. *)
Kept(r, s) ==
  /\ r.state # "absent" => s.content = r.content
  /\ r.manifest.content # "none" => s.manifest = r.manifest
  /\ r.approval.decision # "none" => /\ s.approval.text = r.approval.text
                                     /\ s.approval.expiresAt = r.approval.expiresAt
  /\ r.approval.decision \in {"allow", "deny"} => s.approval = r.approval
  /\ (r.progress.transport # "none" /\ r.progress.result # "none") => s = r

StoreInv ==
  /\ now \in Nat
  /\ claimed \subseteq Token
  /\ proposals \in [Proposal -> Record]
  /\ \A p \in Proposal : Sound(proposals[p]) /\ proposals[p].token \in claimed \cup {"none"}

StoreKept == \A p \in Proposal : Kept(proposals[p], proposals'[p])

LEMMA SaveOne ==
  ASSUME StoreInv, NEW p \in Proposal, NEW r, Save(p, r), Sound(r), Kept(proposals[p], r),
         now' = now, claimed \subseteq claimed', claimed' \subseteq Token,
         r.token \in claimed' \cup {"none"}
  PROVE  StoreInv' /\ StoreKept
<1>1. proposals' \in [Proposal -> Record] /\ proposals'[p] = r
  BY DEF Save, StoreInv, Sound
<1>2. \A q \in Proposal : q # p => proposals'[q] = proposals[q]
  BY DEF Save, StoreInv
<1>3. \A q \in Proposal : Kept(proposals[q], proposals[q])
  BY DEF Kept
<1> QED
  BY <1>1, <1>2, <1>3 DEF StoreInv, StoreKept

LEMMA ProposeKeeps ==
  ASSUME StoreInv, NEW p \in Proposal, NEW content \in Content, NEW mode \in Mode,
         Propose(p, content, mode)
  PROVE  StoreInv' /\ StoreKept
<1> DEFINE r == Proposed(content, mode)
<1>1. r \in Record
  BY DEF Proposed, Record, NoEvidence, NoApproval, NoProgress, Started, Evidence, Approval,
         Progress, Transport, StoreInv
<1>2. Sound(r)
  BY <1>1 DEF Sound, Proposed, NoEvidence, NoApproval, NoProgress, Started
<1>3. Kept(proposals[p], r)
  BY DEF Kept, Propose, Exists, StoreInv, Sound
<1>4. r.token = "none"
  BY DEF Proposed
<1> QED
  BY <1>2, <1>3, <1>4, SaveOne DEF Propose, StoreInv

LEMMA VerificationKeeps ==
  ASSUME StoreInv, NEW p \in Proposal, NEW evidence \in Evidence, RecordVerification(p, evidence)
  PROVE  StoreInv' /\ StoreKept
<1> DEFINE r == [proposals[p] EXCEPT !.manifest = evidence,
                                     !.state = VerifiedAs(proposals[p].mode)]
<1>0. proposals[p] \in Record /\ Sound(proposals[p])
  BY DEF StoreInv
<1>1. VerifiedAs(proposals[p].mode) \in {"verified_local", "verified_polar_sandbox"}
  BY DEF VerifiedAs
<1>2. r \in Record
  BY <1>0, <1>1 DEF Record
<1>3. Sound(r)
  BY <1>0, <1>1, <1>2 DEF Sound, RecordVerification, Qualifies, Verified, Exists, Record
<1>4. Kept(proposals[p], r)
  BY <1>0 DEF Kept, RecordVerification, Verified, Sound, Record
<1> QED
  BY <1>0, <1>3, <1>4, SaveOne DEF RecordVerification, StoreInv, Record

LEMMA RequestKeeps ==
  ASSUME StoreInv, NEW p \in Proposal, NEW text \in Text, RequestPublication(p, text)
  PROVE  StoreInv' /\ StoreKept
<1> DEFINE a == [decision |-> "pending", expiresAt |-> now + ApprovalMs, text |-> text]
           r == [proposals[p] EXCEPT !.approval = a, !.state = "awaiting_publication"]
<1>0. proposals[p] \in Record /\ Sound(proposals[p])
  BY DEF StoreInv
<1>1. a \in Approval
  BY RepairStoreAssumption DEF Approval, StoreInv
<1> HIDE DEF a
<1>2. r \in Record
  BY <1>0, <1>1 DEF Record
<1>3. a.decision = "pending"
  BY DEF a
<1>4. Sound(r)
  BY <1>0, <1>2, <1>3 DEF Sound, RequestPublication, Verified, Asked, Record
<1>5. Kept(proposals[p], r)
  BY <1>0 DEF Kept, RequestPublication, Asked, Sound, Record
<1>6. Save(p, r)
  BY DEF RequestPublication, a
<1> QED
  BY <1>0, <1>4, <1>5, <1>6, SaveOne DEF RequestPublication, StoreInv, Record

LEMMA DecisionKeeps ==
  ASSUME StoreInv, NEW p \in Proposal, NEW b \in Proposal, NEW decision \in {"allow", "deny"},
         DecidePublication(p, b, decision)
  PROVE  StoreInv' /\ StoreKept
<1> DEFINE r == [proposals[p] EXCEPT
                   !.approval.decision = decision,
                   !.state = IF decision = "deny" THEN "abandoned" ELSE @]
<1>0. proposals[p] \in Record /\ Sound(proposals[p])
  BY DEF StoreInv
<1>1. r \in Record
  BY <1>0 DEF Record, Approval
<1>2. Sound(r)
  BY <1>0, <1>1 DEF Sound, DecidePublication, Record, Approval
<1>3. Kept(proposals[p], r)
  BY <1>0 DEF Kept, DecidePublication, Sound, Record, Approval
<1> QED
  BY <1>0, <1>2, <1>3, SaveOne DEF DecidePublication, StoreInv, Record

LEMMA ClaimKeeps ==
  ASSUME StoreInv, NEW p \in Proposal, NEW t \in Token, NEW transport \in Transport,
         ClaimPublication(p, t, transport)
  PROVE  StoreInv' /\ StoreKept
<1> DEFINE g == IF Attempted(p) THEN proposals[p].progress ELSE Started(transport)
           r == [proposals[p] EXCEPT !.progress = g, !.token = t, !.until = now + LeaseMs]
<1>0. proposals[p] \in Record /\ Sound(proposals[p])
  BY DEF StoreInv
<1>1. Started(transport) \in Progress /\ transport # "none"
  BY DEF Started, Progress, Transport
<1>2. g \in Progress /\ g.transport # "none" /\ g.result = "none"
  BY <1>0, <1>1 DEF Record, Attempted, Finished, ClaimPublication, Started
<1>3. now + LeaseMs \in Nat
  BY RepairStoreAssumption DEF StoreInv
<1> HIDE DEF g
<1>4. r \in Record
  BY <1>0, <1>2, <1>3 DEF Record
<1>5. /\ proposals[p].approval.decision = "allow"
      /\ proposals[p].state # "published"
  BY <1>0 DEF ClaimPublication, Authorized, Finished, Attempted, Sound
<1>6. Sound(r)
  BY <1>0, <1>2, <1>4, <1>5, RepairStoreAssumption DEF Sound, Record
<1>7. Kept(proposals[p], r)
  BY <1>0, <1>2 DEF Kept, ClaimPublication, Finished, Attempted, Sound, Record
<1>8. Save(p, r)
  BY DEF ClaimPublication, g
<1>9. r.token = t
  BY <1>0 DEF Record
<1>10. claimed' = claimed \cup {t} /\ now' = now
  BY DEF ClaimPublication
<1>11. claimed' \subseteq Token
  BY <1>10 DEF StoreInv
<1> HIDE DEF r
<1> QED
  BY <1>6, <1>7, <1>8, <1>9, <1>10, <1>11, SaveOne

LEMMA GuardKeeps ==
  ASSUME StoreInv, NEW p \in Proposal, NEW t \in Token, NEW write \in BOOLEAN,
         GuardPublication(p, t, write)
  PROVE  StoreInv' /\ StoreKept
<1> DEFINE r == [proposals[p] EXCEPT !.until = now + LeaseMs]
<1>0. proposals[p] \in Record /\ Sound(proposals[p])
  BY DEF StoreInv
<1>1. now + LeaseMs \in Nat
  BY RepairStoreAssumption DEF StoreInv
<1>2. r \in Record
  BY <1>0, <1>1 DEF Record
<1>3. Sound(r)
  BY <1>0, <1>2 DEF Sound, Record
<1>4. Kept(proposals[p], r)
  BY <1>0, RepairStoreAssumption
  DEF Kept, GuardPublication, MayRequest, Holds, Sound, Record
<1> QED
  BY <1>0, <1>3, <1>4, SaveOne DEF GuardPublication, StoreInv, Record

LEMMA ProgressKeeps ==
  ASSUME StoreInv, NEW p \in Proposal, NEW t \in Token,
         NEW tree \in BOOLEAN, NEW commit \in BOOLEAN, NEW prAttempted \in BOOLEAN,
         SaveProgress(p, t, [proposals[p].progress EXCEPT
           !.tree = tree, !.commit = commit, !.prAttempted = prAttempted])
  PROVE  StoreInv' /\ StoreKept
<1> DEFINE g == [proposals[p].progress EXCEPT
                   !.tree = tree, !.commit = commit, !.prAttempted = prAttempted]
           r == [proposals[p] EXCEPT !.progress = g]
<1>0. proposals[p] \in Record /\ Sound(proposals[p])
  BY DEF StoreInv
<1>1. proposals[p].progress \in Progress
  BY <1>0 DEF Record
<1>2. /\ g \in Progress /\ g.transport = proposals[p].progress.transport
      /\ g.result = proposals[p].progress.result
  BY <1>1 DEF Progress
<1>3. Holds(p, t) /\ Save(p, r)
  BY DEF SaveProgress
<1> HIDE DEF g
<1>4. r \in Record
  BY <1>0, <1>2 DEF Record
<1>5. Sound(r)
  BY <1>0, <1>2, <1>4 DEF Sound, Record
<1>6. Kept(proposals[p], r)
  BY <1>0, <1>3, RepairStoreAssumption DEF Kept, Holds, Sound, Record
<1> QED
  BY <1>0, <1>3, <1>5, <1>6, SaveOne DEF SaveProgress, StoreInv, Record

LEMMA FinishKeeps ==
  ASSUME StoreInv, NEW p \in Proposal, NEW t \in Token, FinishPublication(p, t)
  PROVE  StoreInv' /\ StoreKept
<1> DEFINE kind == IF proposals[p].progress.transport = "github"
                   THEN "published" ELSE "synthetic"
           g == [proposals[p].progress EXCEPT !.result = kind]
           r == [proposals[p] EXCEPT !.progress.result = kind, !.token = "none", !.until = 0,
                   !.state = IF kind = "published" THEN "published" ELSE @]
<1>0. proposals[p] \in Record /\ Sound(proposals[p]) /\ Holds(p, t) /\ Attempted(p)
  BY DEF StoreInv, FinishPublication
<1>1. r \in Record
  BY <1>0 DEF Record, Progress
<1>2. /\ r.progress.transport = proposals[p].progress.transport /\ r.progress.result = kind
      /\ r.token = "none" /\ r.approval = proposals[p].approval
      /\ r.manifest = proposals[p].manifest /\ r.content = proposals[p].content
      /\ r.state = IF kind = "published" THEN "published" ELSE proposals[p].state
  BY <1>0 DEF Record, Progress
<1>3. Save(p, r) /\ now' = now /\ claimed' = claimed
  BY DEF FinishPublication
<1>4. kind = "published" => proposals[p].progress.transport = "github"
  OBVIOUS
<1>5. kind # "none"
  OBVIOUS
<1>6. proposals[p].state # "abandoned"
  BY <1>0 DEF Attempted, Sound
<1>7. proposals[p].state # "published" \/ kind = "published"
  BY <1>0 DEF Sound
<1> HIDE DEF kind, r
<1>8. Sound(r)
  BY <1>0, <1>1, <1>2, <1>4, <1>5, <1>6, <1>7 DEF Sound, Attempted
<1>9. Kept(proposals[p], r)
  BY <1>0, <1>2, RepairStoreAssumption DEF Kept, Holds, Sound
<1> QED
  BY <1>2, <1>3, <1>8, <1>9, SaveOne DEF StoreInv

LEMMA ReleaseKeeps ==
  ASSUME StoreInv, NEW p \in Proposal, NEW t \in Token, ReleasePublication(p, t)
  PROVE  StoreInv' /\ StoreKept
<1> DEFINE r == [proposals[p] EXCEPT !.token = "none", !.until = 0]
<1>0. proposals[p] \in Record /\ Sound(proposals[p])
  BY DEF StoreInv
<1>1. r \in Record
  BY <1>0 DEF Record
<1>2. Sound(r)
  BY <1>0, <1>1 DEF Sound, Record
<1>3. Kept(proposals[p], r)
  BY <1>0, RepairStoreAssumption DEF Kept, ReleasePublication, Holds, Sound, Record
<1> QED
  BY <1>0, <1>2, <1>3, SaveOne DEF ReleasePublication, StoreInv, Record

(* The owner's calls and the clock, which the publication shares. *)
LEMMA OwnerKeeps ==
  ASSUME StoreInv, NEW p \in Proposal, Owner(p)
  PROVE  StoreInv' /\ StoreKept
<1>1. CASE \E content \in Content, mode \in Mode : Propose(p, content, mode)
  BY <1>1, ProposeKeeps
<1>2. ASSUME NEW evidence \in [content : Content, reproduced : BOOLEAN, passed : BOOLEAN,
                               at : 0..now],
             RecordVerification(p, evidence)
      PROVE  StoreInv' /\ StoreKept
  <2>1. evidence \in Evidence
    BY DEF Evidence
  <2> QED
    BY <1>2, <2>1, VerificationKeeps
<1>3. CASE \E text \in Text : RequestPublication(p, text)
  BY <1>3, RequestKeeps
<1>4. CASE \E b \in Proposal, decision \in {"allow", "deny"} : DecidePublication(p, b, decision)
  BY <1>4, DecisionKeeps
<1> QED
  BY <1>1, <1>2, <1>3, <1>4 DEF Owner

LEMMA StoreStep ==
  ASSUME StoreInv, [RepairNext]_repairVars
  PROVE  StoreInv' /\ StoreKept
<1>1. CASE Tick
  BY <1>1 DEF Tick, StoreInv, StoreKept, Kept
<1>2. CASE \E p \in Proposal : Owner(p)
  BY <1>2, OwnerKeeps
<1>3. CASE \E p \in Proposal, t \in Token : Publish(p, t)
  BY <1>3, ClaimKeeps, GuardKeeps, ProgressKeeps, FinishKeeps, ReleaseKeeps DEF Publish
<1>4. CASE UNCHANGED repairVars
  BY <1>4 DEF repairVars, StoreInv, StoreKept, Kept
<1> QED
  BY <1>1, <1>2, <1>3, <1>4 DEF RepairNext

LEMMA StoreStarts == RepairInit => StoreInv
<1> SUFFICES ASSUME RepairInit PROVE StoreInv
  OBVIOUS
<1>1. NoRecord \in Record
  BY DEF RepairInit, NoRecord, Proposed, Record, NoEvidence, NoApproval, NoProgress, Started,
         Evidence, Approval, Progress, Transport
<1>2. Sound(NoRecord) /\ NoRecord.token = "none"
  BY <1>1 DEF Sound, NoRecord, Proposed, NoEvidence, NoApproval, NoProgress, Started
<1> QED
  BY <1>1, <1>2 DEF RepairInit, StoreInv

LEMMA StoreInvariant == RepairSpec => []StoreInv
<1>1. StoreInv /\ [RepairNext]_repairVars => StoreInv'
  BY StoreStep
<1> QED
  BY <1>1, StoreStarts, PTL DEF RepairSpec

(* The table of proposals keeps well-formed records. *)
THEOREM RepairTypeCorrect == RepairSpec => []RepairTypeOK
<1>1. StoreInv => RepairTypeOK
  BY DEF StoreInv, RepairTypeOK
<1> QED
  BY <1>1, StoreInvariant, PTL

LEMMA SoundIsApproved == StoreInv => PublishedWasApproved
  BY DEF StoreInv, Sound, PublishedWasApproved, Attempted

(* Whatever callers do and in whatever order, a published proposal has     *)
(* evidence about its own change and its owner's approval.                 *)
THEOREM PublishedIsApproved == RepairSpec => []PublishedWasApproved
  BY SoundIsApproved, StoreInvariant, PTL

LEMMA KeptIsWrittenOnce ==
  ASSUME StoreKept
  PROVE  \A p \in Proposal :
       /\ Exists(p) => proposals'[p].content = proposals[p].content
       /\ Verified(p) => proposals'[p].manifest = proposals[p].manifest
       /\ Asked(p) => /\ proposals'[p].approval.text = proposals[p].approval.text
                      /\ proposals'[p].approval.expiresAt = proposals[p].approval.expiresAt
       /\ proposals[p].approval.decision \in {"allow", "deny"} =>
            proposals'[p].approval = proposals[p].approval
       /\ Finished(p) => proposals'[p] = proposals[p]
  BY DEF StoreKept, Kept, Exists, Verified, Asked, Finished, Attempted

(* The content, the manifest, the request, the decision and the result are *)
(* each written once, by whichever caller comes first.                     *)
THEOREM WrittenForGood == RepairSpec => WrittenOnce
<1>1. StoreInv /\ [RepairNext]_repairVars => StoreKept
  BY StoreStep
<1> QED
  BY <1>1, KeptIsWrittenOnce, StoreInvariant, PTL DEF RepairSpec, WrittenOnce

-----------------------------------------------------------------------------
(* What the publisher's transactions do to the published proposal *)

Lease == proposals[proposal].token
Asking == proposals[proposal].approval

LEMMA GuardEffect ==
  ASSUME StoreInv, NEW t \in Publisher, NEW write \in BOOLEAN,
         GuardPublication(proposal, t, write)
  PROVE  /\ Lease = t /\ Lease' = Lease /\ Stored' = Stored /\ Asking' = Asking
         /\ proposals'[proposal].state = proposals[proposal].state
         /\ Asking.decision = "allow" /\ (write => now < Asking.expiresAt)
         /\ claimed' = claimed
BY PublicationAssumption
DEF GuardPublication, MayRequest, Authorized, Holds, Save, StoreInv, Lease, Stored, Asking, Record

LEMMA SaveEffect ==
  ASSUME StoreInv, NEW t \in Publisher, NEW progress, SaveProgress(proposal, t, progress)
  PROVE  /\ Lease = t /\ Lease' = Lease /\ Stored' = progress /\ Asking' = Asking
         /\ progress.transport = Stored.transport /\ Stored.transport # "none"
         /\ proposals'[proposal].state = proposals[proposal].state
         /\ claimed' = claimed
BY PublicationAssumption
DEF SaveProgress, Holds, Attempted, Save, StoreInv, Lease, Stored, Asking, Record

LEMMA ClaimEffect ==
  ASSUME StoreInv, NEW t \in Publisher, ClaimPublication(proposal, t, "github")
  PROVE  /\ t \notin claimed /\ Lease' = t /\ Asking' = Asking
         /\ Asking.decision = "allow" /\ claimed' = claimed \cup {t}
         /\ Stored' = IF Attempted(proposal) THEN Stored ELSE Started("github")
         /\ ~ Finished(proposal)
         /\ proposals'[proposal].state = proposals[proposal].state
BY PublicationAssumption
DEF ClaimPublication, Authorized, Save, StoreInv, Lease, Stored, Asking, Record

LEMMA FinishEffect ==
  ASSUME StoreInv, NEW t \in Publisher, FinishPublication(proposal, t)
  PROVE  /\ Lease = t /\ Lease' = "none" /\ Asking' = Asking
         /\ Stored.transport # "none" /\ Stored'.transport = Stored.transport
         /\ Stored'.prAttempted = Stored.prAttempted /\ Stored'.result # "none"
         /\ claimed' = claimed
<1>1. proposals[proposal] \in Record /\ Holds(proposal, t) /\ Attempted(proposal)
  BY PublicationAssumption DEF StoreInv, FinishPublication
<1> QED
  BY <1>1, PublicationAssumption
  DEF FinishPublication, Holds, Attempted, Save, StoreInv, Lease, Stored, Asking, Record, Progress

LEMMA ReleaseEffect ==
  ASSUME StoreInv, NEW t \in Publisher, ReleasePublication(proposal, t)
  PROVE  /\ Lease' = "none" /\ Stored' = Stored /\ Asking' = Asking
         /\ proposals'[proposal].state = proposals[proposal].state
         /\ claimed' = claimed
BY PublicationAssumption
DEF ReleasePublication, Save, StoreInv, Lease, Stored, Asking, Record

(* The owner and the clock leave a publication alone: a proposal that can  *)
(* be published is never proposed, verified or decided again.              *)
LEMMA OwnerEffect ==
  ASSUME StoreInv, Tick \/ \E p \in Proposal : Owner(p)
  PROVE  /\ \/ Lease' = Lease /\ Stored' = Stored
            \/ Lease' = "none" /\ ~ Attempted(proposal) /\ ~ Attempted(proposal)'
         /\ Asking.decision = "allow" => Asking' = Asking
         /\ proposals'[proposal].state = "published" => proposals[proposal].state = "published"
         /\ claimed' = claimed
<1> USE PublicationAssumption
<1>0. proposals[proposal] \in Record /\ Sound(proposals[proposal])
  BY DEF StoreInv
<1> DEFINE Goal == /\ \/ Lease' = Lease /\ Stored' = Stored
                      \/ Lease' = "none" /\ ~ Attempted(proposal) /\ ~ Attempted(proposal)'
                   /\ Asking.decision = "allow" => Asking' = Asking
                   /\ proposals'[proposal].state = "published" =>
                        proposals[proposal].state = "published"
                   /\ claimed' = claimed
<1>1. CASE Tick
  BY <1>1 DEF Tick, Lease, Stored, Asking
<1>2. ASSUME NEW p \in Proposal, Owner(p), p # proposal PROVE Goal
  <2>1. proposals'[proposal] = proposals[proposal] /\ claimed' = claimed
    BY <1>2 DEF Owner, Propose, RecordVerification, RequestPublication, DecidePublication,
                Save, StoreInv
  <2> QED
    BY <2>1 DEF Lease, Stored, Asking
<1>3. ASSUME NEW content \in Content, NEW mode \in Mode, Propose(proposal, content, mode)
      PROVE  Goal
  <2>1. proposals'[proposal] = Proposed(content, mode)
    BY <1>3 DEF Propose, Save, StoreInv
  <2>2. ~ Attempted(proposal) /\ Asking.decision # "allow"
    BY <1>0, <1>3 DEF Propose, Exists, Attempted, Sound, Asking
  <2> QED
    BY <1>3, <2>1, <2>2
    DEF Propose, Proposed, NoProgress, Started, Attempted, Lease, Stored, Asking
<1>4. ASSUME NEW evidence, RecordVerification(proposal, evidence) PROVE Goal
  BY <1>0, <1>4
  DEF RecordVerification, VerifiedAs, Save, StoreInv, Lease, Stored, Asking, Record
<1>5. ASSUME NEW text, RequestPublication(proposal, text) PROVE Goal
  BY <1>0, <1>5 DEF RequestPublication, Asked, Save, StoreInv, Lease, Stored, Asking, Record
<1>6. ASSUME NEW b, NEW decision, DecidePublication(proposal, b, decision) PROVE Goal
  BY <1>0, <1>6 DEF DecidePublication, Save, StoreInv, Lease, Stored, Asking, Record, Approval
<1> QED
  BY <1>1, <1>2, <1>3, <1>4, <1>5, <1>6 DEF Owner

-----------------------------------------------------------------------------
(* The invariant *)

PullAsked == {m \in net : m.write = "pull"}

(* Where a publisher at a stage, with a write in hand, must find things: a *)
(* holder that is about to ask for the pull request has recorded it, and   *)
(* nobody asked before; who is past it has seen it.                        *)
Past(lease, stage, write, attempted) ==
  /\ lease /\ write = "pull" /\ stage \in {"check", "attempt", "mark"} => ~ attempted
  /\ lease /\ write = "pull" /\ stage = "send" => attempted /\ PullAsked = {}
  /\ stage \in {"pull", "final", "tip", "finish"} => pulls # {}
  /\ stage = "finish" => branch = "ours"

(* The pull request is asked for once, after it was recorded as asked for. *)
PullInv ==
  /\ \A m, n \in PullAsked : m = n
  /\ PullAsked # {} => Stored.transport # "none" /\ Stored.prAttempted
  /\ \A t \in Publisher : Past(Lease = t, pc[t], doing[t], Stored.prAttempted)
  /\ (\E m \in served : m.write = "pull") => pulls # {}
  /\ \A t \in pulls : \E m \in PullAsked : m.by = t

PublicationInv ==
  /\ StoreInv
  /\ PublicationTypeOK
  /\ HolderKnowsProgress
  /\ WritesApproved
  /\ PullInv
  /\ PublishedIsReal

LEMMA PublicationStarts == PublicationInit => PublicationInv
<1> SUFFICES ASSUME PublicationInit PROVE PublicationInv
  OBVIOUS
<1>1. StoreInv /\ proposals[proposal] = NoRecord
  BY StoreStarts, PublicationAssumption DEF PublicationInit, RepairInit
<1>2. NoProgress \in Progress
  BY DEF NoProgress, Started, Progress
<1>3. proposals[proposal].state # "published"
  BY <1>1 DEF NoRecord, Proposed
<1> QED
  BY <1>1, <1>2, <1>3
  DEF PublicationInit, PublicationInv, PublicationTypeOK, HolderKnowsProgress, WritesApproved,
      PullInv, Past, PullAsked, PublishedIsReal, Stage, Working, Reading, Write, Message, Publisher

(* Every step of the publication is a step of the store or none of it. *)
LEMMA PublicationUsesStore ==
  ASSUME PublicationInv, [PublicationNext]_publicationVars
  PROVE  [RepairNext]_repairVars
<1> USE PublicationAssumption
<1> DEFINE Steps == \E t \in Publisher : Publish(proposal, t)
<1>1. Steps => RepairNext
  BY DEF RepairNext, Publisher
<1>2. ASSUME NEW t \in Publisher, NEW write \in BOOLEAN, GuardPublication(proposal, t, write)
      PROVE  Steps
  BY <1>2 DEF Publish
<1>3. ASSUME NEW t \in Publisher, NEW stage \in Working, NEW progress \in Progress,
             Persist(t, stage, progress), progress.result = copy[t].result
      PROVE  Steps
  <2>1. SaveProgress(proposal, t, progress) /\ pc[t] \in Working
    BY <1>3 DEF Persist
  <2>2. copy[t] = Stored /\ progress.transport = Stored.transport
    BY <2>1, SaveEffect
    DEF PublicationInv, HolderKnowsProgress, SaveProgress, Stored
  <2>3. Stored \in Progress
    BY DEF PublicationInv, StoreInv, Stored, Record
  <2>4. progress = [Stored EXCEPT !.tree = progress.tree, !.commit = progress.commit,
                                  !.prAttempted = progress.prAttempted]
    BY <1>3, <2>2, <2>3 DEF Progress
  <2>5. progress.tree \in BOOLEAN /\ progress.commit \in BOOLEAN /\ progress.prAttempted \in BOOLEAN
    BY DEF Progress
  <2> QED
    BY <2>1, <2>4, <2>5 DEF Publish, Stored
<1>4. ASSUME NEW t \in Publisher, PublishRepair(t) PROVE Steps \/ UNCHANGED repairVars
  <2>0. copy[t] \in Progress
    BY DEF PublicationInv, PublicationTypeOK
  <2>1. CASE Claim(t)
    BY <2>1 DEF Claim, Publish, Transport
  <2>2. CASE \E stage \in Reading : Read(t, stage)
    BY <2>2, <1>2 DEF Read
  <2>3. CASE Adopt(t)
    <3>1. [copy[t] EXCEPT !.tree = TRUE, !.commit = TRUE] \in Progress
      BY <2>0 DEF Progress
    <3>2. [copy[t] EXCEPT !.tree = TRUE, !.commit = TRUE].result = copy[t].result
      BY <2>0 DEF Progress
    <3> QED
      BY <2>3, <1>3, <3>1, <3>2 DEF Adopt, Working
  <2>4. CASE GuardPull(t) \/ Send(t)
    BY <2>4, <1>2 DEF GuardPull, Send
  <2>5. CASE Mark(t)
    <3>1. [copy[t] EXCEPT !.prAttempted = TRUE] \in Progress
      BY <2>0 DEF Progress
    <3>2. [copy[t] EXCEPT !.prAttempted = TRUE].result = copy[t].result
      BY <2>0 DEF Progress
    <3> QED
      BY <2>5, <1>3, <3>1, <3>2 DEF Mark, Working
  <2>6. CASE SaveObject(t)
    <3> DEFINE progress == IF doing[t] = "tree" THEN [copy[t] EXCEPT !.tree = TRUE]
                           ELSE [copy[t] EXCEPT !.commit = TRUE]
    <3>1. progress \in Progress
      BY <2>0 DEF Progress
    <3>2. progress.result = copy[t].result
      BY <2>0 DEF Progress
    <3>3. Persist(t, "save", progress)
      BY <2>6 DEF SaveObject
    <3> QED
      BY <1>3, <3>1, <3>2, <3>3 DEF Working
  <2>7. CASE Finish(t)
    BY <2>7 DEF Finish, Publish
  <2>8. CASE Fail(t)
    BY <2>8 DEF Fail, Publish
  <2>9. CASE Answered(t) \/ Die(t)
    BY <2>9 DEF Answered, Die
  <2> QED
    BY <1>4, <2>1, <2>2, <2>3, <2>4, <2>5, <2>6, <2>7, <2>8, <2>9
    DEF PublishRepair, ReadBase, ReadBranch, CheckBase, ReadRef, ReadPulls, ReadPull, ReadFinal,
        ReadTip, Reading
<1>5. ASSUME NEW m \in net, Serve(m) PROVE UNCHANGED repairVars
  BY <1>5 DEF Serve
<1>6. CASE Others
  BY <1>6 DEF Others
<1>7. CASE UNCHANGED publicationVars
  BY <1>7 DEF publicationVars
<1> HIDE DEF Steps
<1> QED
  BY <1>1, <1>4, <1>5, <1>6, <1>7 DEF PublicationNext, RepairNext

(* A step of one publisher that sends nothing keeps the invariant when it  *)
(* leaves the lease to who has it or takes or gives back its own, changes  *)
(* only what it holds, and is itself where it may be.                      *)
LEMMA OneMoves ==
  ASSUME PublicationInv, StoreInv', NEW t \in Publisher, NEW stage \in Stage,
         NEW write \in Write, NEW progress \in Progress,
         pc' = [pc EXCEPT ![t] = stage], doing' = [doing EXCEPT ![t] = write],
         copy' = [copy EXCEPT ![t] = progress], UNCHANGED github,
         Lease' = Lease \/ Lease' \in {t, "none"},
         Stored' = Stored \/ Lease' \in {t, "none"},
         Asking.decision = "allow" => Asking' = Asking,
         claimed \subseteq claimed',
         PullAsked # {} => Stored'.transport # "none" /\ Stored'.prAttempted,
         Lease' = t /\ stage \in Working => progress = Stored',
         proposals'[proposal].state = "published" =>
           \/ PublishedIsReal /\ proposals[proposal].state = "published"
           \/ branch = "ours" /\ pulls # {},
         Past(Lease' = t, stage, write, Stored'.prAttempted)
  PROVE  PublicationInv'
<1> USE DEF PublicationInv
<1>0. "none" \notin Publisher
  BY RepairStoreAssumption DEF Publisher
<1>1. /\ pc'[t] = stage /\ doing'[t] = write /\ copy'[t] = progress
      /\ \A u \in Publisher : u # t => pc'[u] = pc[u] /\ doing'[u] = doing[u] /\ copy'[u] = copy[u]
  BY DEF PublicationTypeOK
<1>2. /\ net' = net /\ served' = served /\ pulls' = pulls /\ branch' = branch /\ base' = base
      /\ PullAsked' = PullAsked
  BY DEF github, PullAsked
<1>3. \A u \in Publisher : u # t /\ Lease' = u => Lease = u /\ Stored' = Stored
  BY <1>0
<1>4. PublicationTypeOK'
  BY <1>2 DEF PublicationTypeOK
<1>5. HolderKnowsProgress'
  BY <1>1, <1>3 DEF HolderKnowsProgress, Holds, Lease
<1>6. WritesApproved'
  BY <1>2 DEF WritesApproved, Asking
<1>7. \A u \in Publisher : Past(Lease = u, pc[u], doing[u], Stored.prAttempted)'
  BY <1>1, <1>2, <1>3 DEF PullInv, Past
<1>8. PullInv'
  BY <1>2, <1>7 DEF PullInv
<1>9. PublishedIsReal'
  BY <1>2 DEF PublishedIsReal
<1> QED
  BY <1>4, <1>5, <1>6, <1>8, <1>9

(* The steps that only look, or go on: store and GitHub stay as they are,  *)
(* but for the end of the lease.                                           *)
LEMMA Looks ==
  ASSUME PublicationInv, StoreInv', NEW t \in Publisher, NEW stage \in Stage,
         NEW write \in Write, pc[t] \in Working,
         pc' = [pc EXCEPT ![t] = stage], doing' = [doing EXCEPT ![t] = write],
         UNCHANGED <<copy, github>>,
         Lease' = Lease, Stored' = Stored, Asking' = Asking, claimed' = claimed,
         proposals'[proposal].state = proposals[proposal].state,
         Past(Lease = t, stage, write, Stored.prAttempted)
  PROVE  PublicationInv'
<1>1. copy[t] \in Progress /\ copy' = [copy EXCEPT ![t] = copy[t]]
  BY DEF PublicationInv, PublicationTypeOK
<1>2. Lease' = t => copy[t] = Stored'
  BY DEF PublicationInv, HolderKnowsProgress, Holds, Lease
<1>3. PullAsked # {} => Stored'.transport # "none" /\ Stored'.prAttempted
  BY DEF PublicationInv, PullInv
<1>4. Past(Lease' = t, stage, write, Stored'.prAttempted) /\ PublishedIsReal /\ UNCHANGED github
  BY DEF PublicationInv
<1>5. stage \in Working /\ Lease' = t => copy[t] = Stored'
  BY <1>2
<1>6. Asking.decision = "allow" => Asking' = Asking
  OBVIOUS
<1> QED
  BY <1>1, <1>3, <1>4, <1>5, <1>6, OneMoves

(* Reads: each is guarded, and goes on only if GitHub is as it must be. *)
LEMMA ReadsKeep ==
  ASSUME PublicationInv, StoreInv', NEW t \in Publisher,
         \/ ReadBase(t) \/ ReadBranch(t) \/ CheckBase(t) \/ GuardPull(t) \/ ReadRef(t)
         \/ ReadPulls(t) \/ ReadPull(t) \/ ReadFinal(t) \/ ReadTip(t)
  PROVE  PublicationInv'
<1>0. /\ pc \in [Publisher -> Stage] /\ doing \in [Publisher -> Write]
      /\ Past(Lease = t, pc[t], doing[t], Stored.prAttempted)
  BY DEF PublicationInv, PublicationTypeOK, PullInv
<1>1. /\ Lease = t /\ Lease' = Lease /\ Stored' = Stored /\ Asking' = Asking
      /\ claimed' = claimed /\ proposals'[proposal].state = proposals[proposal].state
      /\ UNCHANGED <<copy, github>> /\ pc[t] \in Working
  BY GuardEffect
  DEF ReadBase, ReadBranch, CheckBase, GuardPull, ReadRef, ReadPulls, ReadPull, ReadFinal,
      ReadTip, Read, PublicationInv, Working, Reading
<1>2. copy[t] = Stored
  BY <1>1 DEF PublicationInv, HolderKnowsProgress, Holds, Lease
<1>3. doing' = [doing EXCEPT ![t] = doing[t]] \/ doing' # doing
  BY <1>0
<1> DEFINE Stays(stage) == /\ pc' = [pc EXCEPT ![t] = stage] /\ doing' = doing
                           /\ Past(Lease = t, stage, doing[t], Stored.prAttempted)
           Begins(write) == /\ pc' = [pc EXCEPT ![t] = "check"]
                            /\ doing' = [doing EXCEPT ![t] = write]
                            /\ write = "pull" => ~ Stored.prAttempted
<1>4. ASSUME NEW stage \in Stage, Stays(stage) PROVE PublicationInv'
  BY <1>0, <1>1, <1>3, <1>4, Looks
<1>5. ASSUME NEW write \in Write, Begins(write) PROVE PublicationInv'
  <2>1. Past(Lease = t, "check", write, Stored.prAttempted) /\ "check" \in Stage
    BY <1>5 DEF Past, Stage, Working, Reading
  <2> QED
    BY <1>1, <1>5, <2>1, Looks
<1> USE DEF Goto
<1>6. CASE ReadBase(t)
  BY <1>4, <1>6 DEF ReadBase, Past, Stage, Working, Reading
<1>7. CASE ReadBranch(t)
  <2>1. CASE Goto(t, "adopt") /\ doing' = doing
    BY <1>4, <2>1 DEF Past, Stage, Working, Reading
  <2>2. CASE Begin(t, Missing(copy[t]))
    BY <1>5, <2>2 DEF Begin, Missing, Write
  <2> QED
    BY <1>7, <2>1, <2>2 DEF ReadBranch
<1>8. CASE CheckBase(t)
  <2>1. CASE doing[t] = "pull"
    BY <1>0, <1>4, <1>8, <2>1 DEF CheckBase, Read, Past, Stage, Working
  <2>2. CASE doing[t] # "pull"
    BY <1>4, <1>8, <2>2 DEF CheckBase, Past, Stage, Working
  <2> QED
    BY <2>1, <2>2
<1>9. CASE GuardPull(t)
  <2>1. Past(Lease = t, "mark", doing[t], Stored.prAttempted)
    BY <1>0, <1>9 DEF GuardPull, Past
  <2> QED
    BY <1>4, <1>9, <2>1 DEF GuardPull, Stage, Working
<1>10. CASE ReadRef(t)
  BY <1>4, <1>10 DEF ReadRef, Past, Stage, Working, Reading
<1>11. CASE ReadPulls(t)
  <2>1. CASE Cardinality(pulls) = 1 /\ Goto(t, "final") /\ doing' = doing
    <3>1. pulls # {}
      BY <2>1, FS_EmptySet
    <3> QED
      BY <1>4, <2>1, <3>1 DEF Past, Stage, Working, Reading
  <2>2. CASE ~ copy[t].prAttempted /\ Begin(t, "pull")
    BY <1>2, <1>5, <2>2 DEF Begin, Write
  <2> QED
    BY <1>11, <2>1, <2>2 DEF ReadPulls
<1>12. CASE ReadPull(t)
  BY <1>0, <1>4, <1>12 DEF ReadPull, Read, Past, Stage, Working, Reading
<1>13. CASE ReadFinal(t)
  BY <1>0, <1>4, <1>13 DEF ReadFinal, Read, Past, Stage, Working, Reading
<1>14. CASE ReadTip(t)
  BY <1>0, <1>4, <1>14 DEF ReadTip, Read, Past, Stage, Working
<1> QED
  BY <1>6, <1>7, <1>8, <1>9, <1>10, <1>11, <1>12, <1>13, <1>14

(* Claiming takes the lease and a copy of what is stored. *)
LEMMA ClaimKeepsAll ==
  ASSUME PublicationInv, StoreInv', NEW t \in Publisher, Claim(t)
  PROVE  PublicationInv'
<1> USE PublicationAssumption
<1>1. ClaimPublication(proposal, t, "github") /\ UNCHANGED github
  BY DEF Claim
<1>2. /\ Lease' = t /\ Asking' = Asking /\ claimed' = claimed \cup {t}
      /\ Stored' = IF Attempted(proposal) THEN Stored ELSE Started("github")
      /\ proposals'[proposal].state = proposals[proposal].state
  BY <1>1, ClaimEffect DEF PublicationInv
<1>3. /\ Stored' \in Progress /\ copy' = [copy EXCEPT ![t] = Stored']
      /\ pc' = [pc EXCEPT ![t] = "base"] /\ doing' = [doing EXCEPT ![t] = doing[t]]
      /\ doing[t] \in Write
  BY DEF Claim, Remember, Goto, Stored, StoreInv, Record, PublicationInv, PublicationTypeOK
<1>4. PullAsked # {} => Stored'.transport # "none" /\ Stored'.prAttempted
  BY <1>2 DEF PublicationInv, PullInv, Attempted, Stored
<1>5. "base" \in Stage /\ Past(Lease' = t, "base", doing[t], Stored'.prAttempted)
  BY DEF Stage, Working, Reading, Past
<1>6. PublishedIsReal
  BY DEF PublicationInv
<1> QED
  BY <1>1, <1>2, <1>3, <1>4, <1>5, <1>6, OneMoves

(* Storing progress: the holder's copy and the store move together. *)
LEMMA PersistKeeps ==
  ASSUME PublicationInv, StoreInv', NEW t \in Publisher,
         Adopt(t) \/ Mark(t) \/ SaveObject(t)
  PROVE  PublicationInv'
<1>0. /\ copy[t] \in Progress /\ doing[t] \in Write /\ pc \in [Publisher -> Stage]
      /\ doing \in [Publisher -> Write]
      /\ Past(Lease = t, pc[t], doing[t], Stored.prAttempted) /\ PublishedIsReal
      /\ PullAsked # {} => Stored.prAttempted
  BY DEF PublicationInv, PublicationTypeOK, PullInv
<1>1. ASSUME NEW old \in Working, NEW progress \in Progress, NEW stage \in Stage, NEW write \in Write,
             Persist(t, old, progress), pc' = [pc EXCEPT ![t] = stage],
             doing' = [doing EXCEPT ![t] = write],
             copy[t].prAttempted => progress.prAttempted,
             Past(TRUE, stage, write, progress.prAttempted)
      PROVE  PublicationInv'
  <2>1. SaveProgress(proposal, t, progress) /\ pc[t] \in Working /\ UNCHANGED github
        /\ copy' = [copy EXCEPT ![t] = progress]
    BY <1>1 DEF Persist, Remember
  <2>2. /\ Lease = t /\ Lease' = t /\ Stored' = progress /\ Asking' = Asking
        /\ progress.transport # "none" /\ claimed' = claimed
        /\ proposals'[proposal].state = proposals[proposal].state
    BY <2>1, SaveEffect DEF PublicationInv
  <2>3. copy[t] = Stored
    BY <2>1, <2>2 DEF PublicationInv, HolderKnowsProgress, Holds, Lease
  <2>4. PullAsked # {} => Stored'.transport # "none" /\ Stored'.prAttempted
    BY <1>0, <1>1, <2>2, <2>3
  <2>5. Past(Lease' = t, stage, write, Stored'.prAttempted)
    BY <1>1, <2>2 DEF Past
  <2> QED
    BY <1>0, <1>1, <2>1, <2>2, <2>4, <2>5, OneMoves
<1>2. CASE Adopt(t)
  <2> DEFINE g == [copy[t] EXCEPT !.tree = TRUE, !.commit = TRUE]
  <2>1. g \in Progress /\ g.prAttempted = copy[t].prAttempted
    BY <1>0 DEF Progress
  <2>2. /\ Persist(t, "adopt", g) /\ pc' = [pc EXCEPT ![t] = "pulls"]
        /\ doing' = [doing EXCEPT ![t] = doing[t]]
    BY <1>0, <1>2 DEF Adopt, Goto
  <2>3. Past(TRUE, "pulls", doing[t], g.prAttempted) /\ "pulls" \in Stage /\ "adopt" \in Working
    BY DEF Past, Stage, Working, Reading
  <2> HIDE DEF g
  <2> QED
    BY <1>0, <1>1, <2>1, <2>2, <2>3
<1>3. CASE Mark(t)
  <2> DEFINE g == [copy[t] EXCEPT !.prAttempted = TRUE]
  <2>1. g \in Progress /\ g.prAttempted = TRUE
    BY <1>0 DEF Progress
  <2>2. /\ Persist(t, "mark", g) /\ pc' = [pc EXCEPT ![t] = "send"]
        /\ doing' = [doing EXCEPT ![t] = doing[t]] /\ pc[t] = "mark"
    BY <1>0, <1>3 DEF Mark, Goto, Persist
  <2>3. Lease = t
    BY <2>2, SaveEffect DEF Persist, PublicationInv
  <2>4. Past(TRUE, "send", doing[t], g.prAttempted) /\ "send" \in Stage /\ "mark" \in Working
    BY <1>0, <2>1, <2>2, <2>3 DEF Past, Stage, Working
  <2> HIDE DEF g
  <2> QED
    BY <1>0, <1>1, <2>1, <2>2, <2>4
<1>4. CASE SaveObject(t)
  <2> DEFINE g == IF doing[t] = "tree" THEN [copy[t] EXCEPT !.tree = TRUE]
                  ELSE [copy[t] EXCEPT !.commit = TRUE]
  <2>1. g \in Progress /\ g.prAttempted = copy[t].prAttempted
    BY <1>0 DEF Progress
  <2>2. /\ Persist(t, "save", g) /\ pc' = [pc EXCEPT ![t] = "check"]
        /\ doing' = [doing EXCEPT ![t] = Missing(g)]
    BY <1>4 DEF SaveObject, Begin, Goto
  <2>3. /\ Past(TRUE, "check", Missing(g), g.prAttempted) /\ Missing(g) \in Write
        /\ "check" \in Stage /\ "save" \in Working
    BY DEF Past, Missing, Write, Stage, Working, Reading
  <2> HIDE DEF g
  <2> QED
    BY <1>0, <1>1, <2>1, <2>2, <2>3
<1> QED
  BY <1>2, <1>3, <1>4

(* The end of a publisher: finished, failed or dead; and its answers. *)
LEMMA EndKeeps ==
  ASSUME PublicationInv, StoreInv', NEW t \in Publisher,
         Finish(t) \/ Fail(t) \/ Die(t) \/ Answered(t)
  PROVE  PublicationInv'
<1>0. /\ copy[t] \in Progress /\ doing[t] \in Write /\ pc \in [Publisher -> Stage]
      /\ doing' = [doing EXCEPT ![t] = doing[t]] /\ copy' = [copy EXCEPT ![t] = copy[t]]
      /\ Past(Lease = t, pc[t], doing[t], Stored.prAttempted) /\ PublishedIsReal
      /\ UNCHANGED <<copy, github>>
      /\ PullAsked # {} => Stored.transport # "none" /\ Stored.prAttempted
      /\ pc[t] \in Working
  BY DEF PublicationInv, PublicationTypeOK, PullInv, Finish, Fail, Die, Answered, Working
<1>1. CASE Finish(t)
  <2>1. /\ Lease = t /\ Lease' = "none" /\ Asking' = Asking /\ claimed' = claimed
        /\ Stored'.transport = Stored.transport /\ Stored'.prAttempted = Stored.prAttempted
    BY <1>1, FinishEffect DEF Finish, PublicationInv
  <2>2. /\ pc' = [pc EXCEPT ![t] = "done"] /\ branch = "ours" /\ pulls # {}
        /\ "done" \in Stage /\ "done" \notin Working
    BY <1>0, <1>1 DEF Finish, Goto, Past, Stage, Working, Reading
  <2>3. Past(Lease' = t, "done", doing[t], Stored'.prAttempted)
    BY DEF Past
  <2> QED
    BY <1>0, <2>1, <2>2, <2>3, OneMoves
<1>2. CASE Fail(t)
  <2>1. /\ Lease' = Lease \/ Lease' = "none"
        /\ Stored' = Stored /\ Asking' = Asking /\ claimed' = claimed
        /\ proposals'[proposal].state = proposals[proposal].state
    BY <1>2, ReleaseEffect DEF Fail, PublicationInv, repairVars, Lease, Stored, Asking
  <2>2. pc' = [pc EXCEPT ![t] = "failed"] /\ "failed" \in Stage /\ "failed" \notin Working
    BY <1>2 DEF Fail, Goto, Stage, Working, Reading
  <2>3. Past(Lease' = t, "failed", doing[t], Stored'.prAttempted)
    BY DEF Past
  <2> QED
    BY <1>0, <2>1, <2>2, <2>3, OneMoves
<1>3. CASE Die(t)
  <2>1. pc' = [pc EXCEPT ![t] = "dead"] /\ "dead" \in Stage /\ UNCHANGED repairVars
    BY <1>3 DEF Die, Goto, Stage
  <2>2. Past(Lease = t, "dead", doing[t], Stored.prAttempted)
    BY DEF Past
  <2> QED
    BY <1>0, <2>1, <2>2, Looks DEF repairVars, Lease, Stored, Asking
<1>4. CASE Answered(t)
  <2> DEFINE stage == IF doing[t] \in {"tree", "commit"} THEN "save" ELSE doing[t]
  <2>1. pc' = [pc EXCEPT ![t] = stage] /\ UNCHANGED repairVars /\ Sent(t, doing[t]) \cap served # {}
    BY <1>4 DEF Answered, Goto
  <2>2. doing[t] = "pull" => pulls # {}
    BY <2>1 DEF PublicationInv, PullInv, Sent
  <2>3. stage \in Stage /\ Past(Lease = t, stage, doing[t], Stored.prAttempted)
    BY <1>0, <2>2 DEF Write, Past, Stage, Working, Reading
  <2> HIDE DEF stage
  <2> QED
    BY <1>0, <2>1, <2>3, Looks DEF repairVars, Lease, Stored, Asking
<1> QED
  BY <1>1, <1>2, <1>3, <1>4

(* A write is sent under the lease, while the approval is in force.  The   *)
(* pull request was recorded by its sender, and nobody asked for it.       *)
LEMMA SendKeeps ==
  ASSUME PublicationInv, StoreInv', NEW t \in Publisher, Send(t)
  PROVE  PublicationInv'
<1> DEFINE m == [by |-> t, write |-> doing[t], at |-> now]
<1>1. /\ Lease = t /\ Lease' = Lease /\ Stored' = Stored /\ Asking' = Asking
      /\ proposals'[proposal].state = proposals[proposal].state
      /\ Asking.decision = "allow" /\ now < Asking.expiresAt /\ claimed' = claimed
  BY GuardEffect DEF Send, PublicationInv
<1>2. /\ pc[t] = "send" /\ pc' = [pc EXCEPT ![t] = "await"] /\ net' = net \cup {m}
      /\ UNCHANGED <<copy, doing, base, branch, served, pulls>>
  BY DEF Send, Goto
<1>3. t \in claimed /\ now \in Nat
  BY <1>1, PublicationAssumption, RepairStoreAssumption DEF PublicationInv, StoreInv, Lease, Publisher
<1>4. /\ m \in Message /\ m.by = t /\ m.at = now /\ m.write = doing[t]
      /\ pc \in [Publisher -> Stage] /\ pc'[t] = "await"
      /\ \A u \in Publisher : u # t => pc'[u] = pc[u]
  BY <1>2, <1>3 DEF Message, PublicationInv, PublicationTypeOK
<1>5. Past(TRUE, "send", doing[t], Stored.prAttempted)
  BY <1>1, <1>2 DEF PublicationInv, PullInv
<1>6. PublicationTypeOK'
  BY <1>2, <1>4 DEF PublicationInv, PublicationTypeOK, Stage, Working
<1>7. HolderKnowsProgress'
  BY <1>1, <1>2, <1>4 DEF PublicationInv, HolderKnowsProgress, Holds, Lease, Working
<1>8. WritesApproved'
  BY <1>1, <1>2, <1>3, <1>4 DEF PublicationInv, WritesApproved, Asking
<1>9. PullAsked' = IF doing[t] = "pull" THEN PullAsked \cup {m} ELSE PullAsked
  BY <1>2, <1>4 DEF PullAsked
<1>10. doing[t] = "pull" => PullAsked = {} /\ Stored.prAttempted
  BY <1>5 DEF Past
<1>11. Stored.transport # "none"
  BY <1>1, PublicationAssumption, RepairStoreAssumption
  DEF PublicationInv, StoreInv, Sound, Lease, Stored, Publisher
<1>12. ASSUME NEW u \in Publisher PROVE Past(Lease = u, pc[u], doing[u], Stored.prAttempted)'
  <2>1. CASE u = t
    BY <1>4, <2>1 DEF Past
  <2>2. CASE u # t
    <3>1. Past(Lease = u, pc[u], doing[u], Stored.prAttempted) /\ Lease # u
      BY <1>1, <2>2 DEF PublicationInv, PullInv
    <3> QED
      BY <1>1, <1>2, <1>4, <2>2, <3>1 DEF Past
  <2> QED
    BY <2>1, <2>2
<1>13. PullInv'
  BY <1>1, <1>2, <1>4, <1>9, <1>10, <1>11, <1>12 DEF PublicationInv, PullInv
<1>14. PublishedIsReal'
  BY <1>1, <1>2 DEF PublicationInv, PublishedIsReal
<1> QED
  BY <1>6, <1>7, <1>8, <1>13, <1>14 DEF PublicationInv

(* GitHub acts, others push: a pull request or a branch of ours stays. *)
LEMMA GitHubKeeps ==
  ASSUME PublicationInv, (\E m \in net : Serve(m)) \/ Others
  PROVE  PublicationInv'
<1>1. UNCHANGED <<repairVars, publishers, net>> /\ StoreInv'
  BY DEF Serve, Others, PublicationInv, StoreInv, repairVars
<1>2. /\ Lease' = Lease /\ Stored' = Stored /\ Asking' = Asking /\ PullAsked' = PullAsked
      /\ claimed' = claimed /\ proposals' = proposals /\ UNCHANGED <<pc, copy, doing>>
  BY <1>1 DEF repairVars, publishers, Lease, Stored, Asking, PullAsked
<1>3. /\ (branch = "ours" => branch' = "ours") /\ branch' \in {"none", "ours", "foreign"}
      /\ base' \in BOOLEAN /\ pulls \subseteq pulls'
  BY DEF Serve, Others, PublicationInv, PublicationTypeOK
<1>4. /\ served' \subseteq net /\ pulls' \subseteq Publisher
      /\ (\E m \in served' : m.write = "pull") => pulls' # {}
      /\ \A t \in pulls' : \E m \in PullAsked : m.by = t
  <2>1. ASSUME NEW m \in net, Serve(m)
        PROVE  /\ served' = served \cup {m}
               /\ pulls' = IF m.write = "pull" THEN pulls \cup {m.by} ELSE pulls
               /\ m.by \in Publisher
    BY <2>1 DEF Serve, PublicationInv, PublicationTypeOK, Message
  <2>2. CASE Others
    BY <2>2 DEF Others, PublicationInv, PublicationTypeOK, PullInv
  <2>3. CASE \E m \in net : Serve(m)
    BY <2>1, <2>3 DEF PublicationInv, PublicationTypeOK, PullInv, PullAsked
  <2> QED
    BY <2>2, <2>3
<1>5. PublicationTypeOK'
  BY <1>1, <1>2, <1>3, <1>4 DEF PublicationInv, PublicationTypeOK
<1>6. HolderKnowsProgress' /\ WritesApproved'
  BY <1>1, <1>2
  DEF PublicationInv, HolderKnowsProgress, WritesApproved, Holds, Stored, Asking
<1>7. \A t \in Publisher : Past(Lease = t, pc[t], doing[t], Stored.prAttempted)'
  BY <1>2, <1>3 DEF PublicationInv, PullInv, Past
<1>8. PullInv'
  BY <1>2, <1>4, <1>7 DEF PublicationInv, PullInv
<1>9. PublishedIsReal'
  BY <1>2, <1>3 DEF PublicationInv, PublishedIsReal
<1> QED
  BY <1>1, <1>5, <1>6, <1>8, <1>9 DEF PublicationInv

(* The owner's calls and the clock. *)
LEMMA OwnerKeepsAll ==
  ASSUME PublicationInv, StoreInv', Tick \/ \E p \in Proposal : Owner(p),
         UNCHANGED <<publishers, github>>
  PROVE  PublicationInv'
<1>1. /\ \/ Lease' = Lease /\ Stored' = Stored
         \/ Lease' = "none" /\ ~ Attempted(proposal) /\ ~ Attempted(proposal)'
      /\ Asking.decision = "allow" => Asking' = Asking
      /\ proposals'[proposal].state = "published" => proposals[proposal].state = "published"
      /\ claimed' = claimed
  BY OwnerEffect DEF PublicationInv
<1>2. /\ UNCHANGED <<pc, copy, doing, base, branch, net, served, pulls>> /\ PullAsked' = PullAsked
      /\ "none" \notin Publisher
  BY RepairStoreAssumption DEF publishers, github, PullAsked, Publisher
<1>3. PublicationTypeOK' /\ PublishedIsReal'
  BY <1>1, <1>2 DEF PublicationInv, PublicationTypeOK, PublishedIsReal
<1>4. HolderKnowsProgress'
  BY <1>1, <1>2 DEF PublicationInv, HolderKnowsProgress, Holds, Lease
<1>5. WritesApproved'
  BY <1>1, <1>2 DEF PublicationInv, WritesApproved, Asking
<1>6. PullAsked # {} => Stored' = Stored
  BY <1>1 DEF PublicationInv, PullInv, Attempted, Stored
<1>7. \A t \in Publisher : Past(Lease = t, pc[t], doing[t], Stored.prAttempted)'
  BY <1>1, <1>2 DEF PublicationInv, PullInv, Past
<1>8. PullInv'
  BY <1>2, <1>6, <1>7 DEF PublicationInv, PullInv
<1> QED
  BY <1>3, <1>4, <1>5, <1>8 DEF PublicationInv

LEMMA PublicationStep ==
  ASSUME PublicationInv, [PublicationNext]_publicationVars
  PROVE  PublicationInv'
<1>1. StoreInv'
  BY PublicationUsesStore, StoreStep DEF PublicationInv
<1>2. CASE (Tick \/ \E p \in Proposal : Owner(p)) /\ UNCHANGED <<publishers, github>>
  BY <1>1, <1>2, OwnerKeepsAll
<1>3. CASE \E t \in Publisher : PublishRepair(t)
  BY <1>1, <1>3, ReadsKeep, ClaimKeepsAll, PersistKeeps, EndKeeps, SendKeeps DEF PublishRepair
<1>4. CASE (\E m \in net : Serve(m)) \/ Others
  BY <1>4, GitHubKeeps
<1>5. CASE UNCHANGED publicationVars
  BY <1>5
  DEF publicationVars, repairVars, publishers, github, PublicationInv, StoreInv,
      PublicationTypeOK, HolderKnowsProgress, WritesApproved, PullInv, PublishedIsReal, Holds,
      Stored, Lease, PullAsked, Past
<1> QED
  BY <1>2, <1>3, <1>4, <1>5 DEF PublicationNext

LEMMA PublicationInvariant == PublicationSpec => []PublicationInv
<1>1. PublicationInv /\ [PublicationNext]_publicationVars => PublicationInv'
  BY PublicationStep
<1> QED
  BY <1>1, PublicationStarts, PTL DEF PublicationSpec

-----------------------------------------------------------------------------
(* Results *)

(* The publication is an implementation of the store's specification: it   *)
(* changes the store by the store's transactions alone, so that whatever   *)
(* is proved of the store holds of it.                                     *)
THEOREM PublicationImplementsStore == PublicationSpec => RepairSpec
<1>1. PublicationInit => RepairInit
  BY DEF PublicationInit
<1>2. PublicationInv /\ [PublicationNext]_publicationVars => [RepairNext]_repairVars
  BY PublicationUsesStore
<1> QED
  BY <1>1, <1>2, PublicationInvariant, PTL DEF PublicationSpec, RepairSpec

(* What publishers remember and what GitHub received keeps its type.       *)
THEOREM PublicationTypeCorrect == PublicationSpec => []PublicationTypeOK
<1>1. PublicationInv => PublicationTypeOK
  BY DEF PublicationInv
<1> QED
  BY <1>1, PublicationInvariant, PTL

(* No write is ever sent without the owner's approval in force.            *)
THEOREM WritesAreApproved == PublicationSpec => []WritesApproved
<1>1. PublicationInv => WritesApproved
  BY DEF PublicationInv
<1> QED
  BY <1>1, PublicationInvariant, PTL

(* A published proposal has its branch and its pull request.               *)
THEOREM PublishedExists == PublicationSpec => []PublishedIsReal
<1>1. PublicationInv => PublishedIsReal
  BY DEF PublicationInv
<1> QED
  BY <1>1, PublicationInvariant, PTL

(* The publisher that holds the lease never works from an older copy.      *)
THEOREM HolderIsCurrent == PublicationSpec => []HolderKnowsProgress
<1>1. PublicationInv => HolderKnowsProgress
  BY DEF PublicationInv
<1> QED
  BY <1>1, PublicationInvariant, PTL

-----------------------------------------------------------------------------
(* The pull request as one effect *)

Intent == IF ~ Attempted(proposal) THEN "none"
          ELSE IF Finished(proposal) THEN "confirmed"
          ELSE IF Stored.prAttempted THEN "dispatched" ELSE "prepared"
Requested == Cardinality(PullAsked)
Effects == 1..Cardinality(pulls)

(* The number of requests and of pull requests is one or none. *)
Counts ==
  /\ Requested = IF PullAsked = {} THEN 0 ELSE 1
  /\ Effects = IF pulls = {} THEN {} ELSE {1}
  /\ pulls # {} => PullAsked # {}

LEMMA CountPulls ==
  ASSUME PublicationInv
  PROVE  Counts
<1>1. PullAsked # {} => \E m : PullAsked = {m}
  BY DEF PublicationInv, PullInv
<1>2. pulls # {} => PullAsked # {} /\ \E t : pulls = {t}
  BY DEF PublicationInv, PullInv
<1>3. \A m : Cardinality({m}) = 1
  BY FS_Singleton
<1>4. Cardinality({}) = 0
  BY FS_EmptySet
<1>5. 1..0 = {} /\ 1..1 = {1}
  OBVIOUS
<1> QED
  BY <1>1, <1>2, <1>3, <1>4, <1>5 DEF Counts, Requested, Effects

(* A step of the publication, seen as a step of its pull request. *)
LEMMA PullStep ==
  ASSUME PublicationInv, Counts, Counts', [PublicationNext]_publicationVars
  PROVE  [PullRequest!EffectNext]_(PullRequest!effectVars)
<1> USE PublicationAssumption
<1> DEFINE stays == Intent' = Intent /\ Requested' = Requested /\ Effects' = Effects
           Goal == [PullRequest!EffectNext]_(PullRequest!effectVars)
<1>0. /\ Requested = (IF PullAsked = {} THEN 0 ELSE 1) /\ Effects = (IF pulls = {} THEN {} ELSE {1})
      /\ pulls # {} => PullAsked # {}
      /\ PullAsked # {} => Stored.transport # "none" /\ Stored.prAttempted
  BY DEF Counts, PublicationInv, PullInv
<1>0a. Requested' = (IF PullAsked' = {} THEN 0 ELSE 1) /\ Effects' = (IF pulls' = {} THEN {} ELSE {1})
  BY DEF Counts
<1>0b. /\ Lease # "none" => Stored.transport # "none" /\ Stored.result = "none"
       /\ "none" \notin Publisher
  BY RepairStoreAssumption
  DEF PublicationInv, StoreInv, Sound, Lease, Stored, Publisher
<1>1. stays => Goal
  BY DEF PullRequest!effectVars, Intent, Requested, Effects, PullAsked
<1> USE DEF Attempted, Finished
<1>2. ASSUME Stored' = Stored, net' = net, pulls' = pulls PROVE Goal
  <2>1. stays
    BY <1>2 DEF Intent, Requested, Effects, PullAsked, Stored
  <2> QED
    BY <1>1, <2>1
<1>3. ASSUME NEW t \in Publisher, Claim(t) PROVE Goal
  <2>1. /\ Stored' = IF Attempted(proposal) THEN Stored ELSE Started("github")
        /\ UNCHANGED github
    BY <1>3, ClaimEffect DEF Claim, PublicationInv
  <2>2. CASE Attempted(proposal)
    BY <1>2, <2>1, <2>2 DEF github
  <2>3. CASE ~ Attempted(proposal)
    <3>1. /\ Stored'.transport = "github" /\ ~ Stored'.prAttempted /\ Stored'.result = "none"
      BY <2>1, <2>3 DEF Started
    <3>2. Intent = "none" /\ Intent' = "prepared"
      BY <2>3, <3>1 DEF Intent, Stored
    <3>3. Requested' = Requested /\ Effects' = Effects
      BY <2>1 DEF github, Requested, Effects, PullAsked
    <3> QED
      BY <3>2, <3>3
      DEF PullRequest!EffectNext, PullRequest!Prepare, Intent, Requested, Effects, PullAsked
  <2> QED
    BY <2>2, <2>3
<1>4. ASSUME NEW t \in Publisher, NEW progress, Persist(t, pc[t], progress), pc[t] \in Working,
             progress.prAttempted = copy[t].prAttempted, progress.result = copy[t].result
      PROVE  Goal
  <2>1. /\ Lease = t /\ Stored' = progress /\ UNCHANGED github
        /\ progress.transport = Stored.transport
    BY <1>4, SaveEffect DEF Persist, PublicationInv
  <2>2. copy[t] = Stored
    BY <1>4, <2>1 DEF PublicationInv, HolderKnowsProgress, Holds, Lease
  <2>3. stays
    BY <1>4, <2>1, <2>2 DEF Intent, Requested, Effects, PullAsked, Stored, github
  <2> QED
    BY <1>1, <2>3
<1>5. ASSUME NEW t \in Publisher, Adopt(t) \/ SaveObject(t) PROVE Goal
  <2>0. copy[t] \in Progress
    BY DEF PublicationInv, PublicationTypeOK
  <2>1. CASE Adopt(t)
    <3> DEFINE g == [copy[t] EXCEPT !.tree = TRUE, !.commit = TRUE]
    <3>1. Persist(t, pc[t], g) /\ pc[t] \in Working
      BY <2>1 DEF Adopt, Persist, Working
    <3>2. g.prAttempted = copy[t].prAttempted /\ g.result = copy[t].result
      BY <2>0 DEF Progress
    <3> HIDE DEF g
    <3> QED
      BY <1>4, <3>1, <3>2
  <2>2. CASE SaveObject(t)
    <3> DEFINE g == IF doing[t] = "tree" THEN [copy[t] EXCEPT !.tree = TRUE]
                    ELSE [copy[t] EXCEPT !.commit = TRUE]
    <3>1. Persist(t, pc[t], g) /\ pc[t] \in Working
      BY <2>2 DEF SaveObject, Persist, Working
    <3>2. g.prAttempted = copy[t].prAttempted /\ g.result = copy[t].result
      BY <2>0 DEF Progress
    <3> HIDE DEF g
    <3> QED
      BY <1>4, <3>1, <3>2
  <2> QED
    BY <1>5, <2>1, <2>2
<1>6. ASSUME NEW t \in Publisher, Mark(t) PROVE Goal
  <2> DEFINE g == [copy[t] EXCEPT !.prAttempted = TRUE]
  <2>0. copy[t] \in Progress
    BY DEF PublicationInv, PublicationTypeOK
  <2>1. Persist(t, "mark", g)
    BY <1>6 DEF Mark
  <2>2. /\ g.prAttempted = TRUE /\ g.result = copy[t].result /\ g.transport = copy[t].transport
    BY <2>0 DEF Progress
  <2>3. /\ Lease = t /\ Stored' = g /\ UNCHANGED github /\ pc[t] = "mark"
    BY <2>1, SaveEffect DEF Persist, PublicationInv
  <2>4. copy[t] = Stored
    BY <2>3 DEF PublicationInv, HolderKnowsProgress, Holds, Lease, Working
  <2> HIDE DEF g
  <2>5. Intent' = "dispatched"
    BY <1>0b, <2>2, <2>3, <2>4 DEF Intent, Stored
  <2>6. Requested' = Requested /\ Effects' = Effects
    BY <2>3 DEF github, Requested, Effects, PullAsked
  <2>7. Intent \in {"prepared", "dispatched"}
    BY <1>0b, <2>3 DEF Intent, Stored
  <2>8. CASE Intent = "prepared"
    BY <2>5, <2>6, <2>8
    DEF PullRequest!EffectNext, PullRequest!Dispatch, Intent, Requested, Effects, PullAsked
  <2>9. CASE Intent = "dispatched"
    BY <1>1, <2>5, <2>6, <2>9
  <2> QED
    BY <2>7, <2>8, <2>9
<1>7. ASSUME NEW t \in Publisher, Send(t) PROVE Goal
  <2> DEFINE m == [by |-> t, write |-> doing[t], at |-> now]
  <2>1. Lease = t /\ Stored' = Stored
    BY <1>7, GuardEffect DEF Send, PublicationInv
  <2>2. pc[t] = "send" /\ net' = net \cup {m} /\ pulls' = pulls
    BY <1>7 DEF Send
  <2>3. CASE doing[t] = "pull"
    <3>1. Stored.prAttempted /\ PullAsked = {}
      BY <2>1, <2>2, <2>3 DEF PublicationInv, PullInv, Past
    <3>2. m \in net' /\ m.write = "pull"
      BY <2>2, <2>3
    <3>2a. PullAsked' # {}
      BY <3>2 DEF PullAsked
    <3>3. Requested = 0 /\ Requested' = 1 /\ Effects' = Effects
      BY <1>0, <1>0a, <2>2, <3>1, <3>2a
    <3>4. Intent = "dispatched" /\ Intent' = Intent
      BY <1>0b, <2>1, <3>1 DEF Intent, Stored
    <3> QED
      BY <3>3, <3>4
      DEF PullRequest!EffectNext, PullRequest!Issue, Intent, Requested, Effects, PullAsked
  <2>4. CASE doing[t] # "pull"
    <3>1. PullAsked' = PullAsked
      BY <2>2, <2>4 DEF PullAsked
    <3>2. stays
      BY <1>0, <1>0a, <2>1, <2>2, <3>1 DEF Intent, Stored
    <3> QED
      BY <1>1, <3>2
  <2> QED
    BY <2>3, <2>4
<1>8. ASSUME NEW t \in Publisher, Finish(t) PROVE Goal
  <2>1. /\ Stored'.result # "none" /\ Stored'.transport # "none" /\ Lease = t
        /\ UNCHANGED github /\ pc[t] = "finish"
    BY <1>8, FinishEffect DEF Finish, PublicationInv
  <2>2. pulls # {}
    BY <2>1 DEF PublicationInv, PullInv, Past
  <2>3. Intent = "dispatched" /\ Intent' = "confirmed"
    BY <1>0, <1>0b, <2>1, <2>2 DEF Intent, Stored
  <2>4. Effects # {} /\ Effects' = Effects /\ Requested' = Requested
    BY <1>0, <2>1, <2>2 DEF github, Requested, Effects, PullAsked
  <2> QED
    BY <2>3, <2>4
    DEF PullRequest!EffectNext, PullRequest!Confirm, Intent, Requested, Effects, PullAsked
<1>9. ASSUME NEW m \in net, Serve(m) PROVE Goal
  <2>1. Stored' = Stored /\ net' = net
    BY <1>9 DEF Serve, repairVars, Stored
  <2>2. CASE m.write = "pull"
    <3>1. m \in PullAsked /\ pulls' # {} /\ PullAsked' = PullAsked
      BY <1>9, <2>1, <2>2 DEF Serve, PullAsked
    <3>2. Requested = 1 /\ Requested' = 1 /\ Effects' = {1} /\ Intent' = Intent
      BY <1>0, <1>0a, <2>1, <3>1 DEF Intent, Stored
    <3> QED
      BY <3>2
      DEF PullRequest!EffectNext, PullRequest!TakeEffect, Intent, Requested, Effects, PullAsked
  <2>3. CASE m.write # "pull"
    BY <1>2, <1>9, <2>1, <2>3 DEF Serve
  <2> QED
    BY <2>2, <2>3
<1>10. CASE Others
  BY <1>2, <1>10 DEF Others, repairVars, Stored
<1>11. CASE (Tick \/ \E p \in Proposal : Owner(p)) /\ UNCHANGED <<publishers, github>>
  <2>1. \/ Stored' = Stored
        \/ ~ Attempted(proposal) /\ ~ Attempted(proposal)'
    BY <1>11, OwnerEffect DEF PublicationInv
  <2>2. CASE Stored' = Stored
    BY <1>2, <1>11, <2>2 DEF github
  <2>3. CASE ~ Attempted(proposal) /\ ~ Attempted(proposal)'
    <3>1. Requested' = Requested /\ Effects' = Effects /\ Intent = "none" /\ Intent' = "none"
      BY <1>11, <2>3 DEF Intent, Requested, Effects, PullAsked, github
    <3> QED
      BY <1>1, <3>1
  <2> QED
    BY <2>1, <2>2, <2>3
<1>12. ASSUME NEW t \in Publisher, \/ \E stage \in Reading : Read(t, stage) \/ GuardPull(t)
       PROVE  Goal
  <2>1. Stored' = Stored
    BY <1>12, GuardEffect DEF Read, GuardPull, PublicationInv
  <2> QED
    BY <1>2, <1>12, <2>1 DEF Read, GuardPull, github
<1>13. ASSUME NEW t \in Publisher, Fail(t) PROVE Goal
  <2>1. Stored' = Stored
    BY <1>13, ReleaseEffect DEF Fail, repairVars, Stored, PublicationInv
  <2> QED
    BY <1>2, <1>13, <2>1 DEF Fail, github
<1>14. ASSUME NEW t \in Publisher, Die(t) \/ Answered(t) PROVE Goal
  BY <1>2, <1>14 DEF Die, Answered, repairVars, Stored, github
<1>15. CASE UNCHANGED publicationVars
  BY <1>2, <1>15 DEF publicationVars, repairVars, github, Stored
<1> HIDE DEF Goal
<1>16. ASSUME NEW t \in Publisher, PublishRepair(t) PROVE Goal
  BY <1>3, <1>5, <1>6, <1>7, <1>8, <1>12, <1>13, <1>14, <1>16
  DEF PublishRepair, ReadBase, ReadBranch, CheckBase, ReadRef, ReadPulls, ReadPull, ReadFinal,
      ReadTip, Reading
<1> QED
  BY <1>9, <1>10, <1>11, <1>15, <1>16 DEF PublicationNext, Goal

(* However many publishers try, crash and retry, the pull request is asked *)
(* for once, after it is on record, and confirmed only when it exists.     *)
THEOREM PullRequestIsOne == PublicationSpec => PullRequestIsOneEffect
<1>1. PublicationInit => PullRequest!EffectInit
  <2> SUFFICES ASSUME PublicationInit PROVE PullRequest!EffectInit
    OBVIOUS
  <2>1. Stored.transport = "none" /\ PullAsked = {} /\ pulls = {}
    BY PublicationAssumption
    DEF PublicationInit, RepairInit, NoRecord, Proposed, NoProgress, Started, Stored, PullAsked
  <2>2. Cardinality({}) = 0 /\ 1..0 = {}
    BY FS_EmptySet
  <2> QED
    BY <2>1, <2>2 DEF PullRequest!EffectInit, PullAsked, Attempted, Stored
<1>2. PublicationInv => Counts
  BY CountPulls
<1>3. PublicationInv /\ Counts /\ Counts' /\ [PublicationNext]_publicationVars =>
        [PullRequest!EffectNext]_(PullRequest!effectVars)
  BY PullStep
<1> QED
  BY <1>1, <1>2, <1>3, PublicationInvariant, PTL
  DEF PublicationSpec, PullRequestIsOneEffect, PullRequest!EffectSpec
=============================================================================
