--------------------------- MODULE ServicesProofs ---------------------------
(***************************************************************************)
(* The safety of the services that wait for processes and for the runtime, *)
(* and of the operator's console, for any number of requests, attempts,    *)
(* tries, presses and failures: the oracle's report is whole when it is    *)
(* accepted, a review that confirms is sound and is kept, an answer of the *)
(* model gateway is of one try, and a press acts at most once.  The last   *)
(* part is about EffectOnce, which other components implement.             *)
(***************************************************************************)
EXTENDS OracleProcess, EvidenceReview, CodexBridge, OperatorConsole, EffectOnce, SequenceTheorems,
        FiniteSetTheorems, TLAPS

-----------------------------------------------------------------------------
(* The oracle's process and its parent *)

Judging == {"controls", "SC01", "SC02", "SC03", "SC04"}
Creating == {"free", "free-routes", "paid", "paid-routes", "link"}
Place == {"spawning", "waiting", "start", "acknowledge", "cleanup", "failed", "reported", "gone"}
           \cup Creating \cup Judging

(* The places a process is at once it has judged a part.                   *)
Past(part) ==
  {"cleanup", "reported"} \cup
    CASE part = "controls" -> {"SC01", "SC02", "SC03", "SC04"}
      [] part = "SC01" -> {"SC02", "SC03", "SC04"}
      [] part = "SC02" -> {"SC03", "SC04"}
      [] part = "SC03" -> {"SC04"}
      [] OTHER -> {}

(* A report that says what the process found when it had come to its end.  *)
Final(content) ==
  /\ content = [found |-> judged, users |-> cleaned]
  /\ \A part \in Parts : judged[part] # Open
  /\ made = Principal /\ cleaned = Principal
  /\ oracle \in {"reported", "gone"}

FrameRecord ==
  [type : {"register", "result", "error"}, id : {0, 1, 2},
   report : [found : [Parts -> Verdict \cup {Open}], users : SUBSET Principal]]

OracleTypes ==
  /\ oracle \in Place
  /\ made \subseteq Principal /\ cleaned \subseteq made
  /\ judged \in [Parts -> Verdict \cup {Open}]
  /\ frames \in Seq(FrameRecord)
  /\ replies \in Seq(Nat)
  /\ registering \in BOOLEAN
  /\ routes \in 0..2 /\ registration \in 0..routes

(* The process went through the places before the one it is at.            *)
OraclePassed ==
  /\ oracle \in {"free-routes", "paid", "acknowledge"} => "free" \in made
  /\ oracle \in {"paid-routes", "link", "cleanup", "reported"} \cup Judging => made = Principal
  /\ \A part \in Parts : oracle \in Past(part) => judged[part] # Open

(* What is on its way, and what the parent has, is of a process that said  *)
(* it: a result is final, and the second user's routes are asked for, let  *)
(* through and confirmed only once there is a second user.                 *)
TrueFrame(frame) ==
  /\ frame.type = "result" => Final(frame.report)
  /\ frame.type = "register" /\ "paid" \notin made => frame.id = 1
FramesAreTrue == \A i \in 1..Len(frames) : TrueFrame(frames[i])
ParentKnows ==
  /\ accepted # NoReport => Final(accepted)
  /\ "paid" \notin made => registration = 0 \/ (registration = 1 /\ ~ registering)
  /\ settled # "none" => oracle = "gone"
  /\ settled = "accepted" => accepted # NoReport /\ exit = ExitCode(accepted.found)
RepliesAreTrue ==
  /\ \A i \in 1..Len(replies) :
       replies[i] <= registration /\ (replies[i] = 0 => oracle \in {"waiting", "gone"})
  /\ oracle \in {"spawning", "waiting"} =>
       frames = <<>> /\ ~ registering /\ registration = 0 /\ Len(replies) <= 1

(* A user's routes are used once the target lets them through.             *)
RoutesOpen ==
  /\ oracle \in {"paid", "paid-routes"} => routes >= 1
  /\ oracle \in {"link"} \cup Judging => routes = 2

OracleInv == /\ OracleTypes /\ OraclePassed /\ FramesAreTrue /\ ParentKnows /\ RepliesAreTrue
             /\ RoutesOpen

(* Where each place leads. *)
LEMMA NextPlaces ==
  /\ NextPlace("free") = "free-routes" /\ NextPlace("free-routes") = "paid"
  /\ NextPlace("paid") = "paid-routes" /\ NextPlace("paid-routes") = "link"
  /\ NextPlace("controls") = "SC01" /\ NextPlace("SC01") = "SC02" /\ NextPlace("SC02") = "SC03"
  /\ NextPlace("SC03") = "SC04" /\ NextPlace("SC04") = "cleanup"
<1>1. Len(Order) = 11  BY DEF Order
<1>2. /\ Index("free") = 2 /\ Index("free-routes") = 3 /\ Index("paid") = 4
      /\ Index("paid-routes") = 5
  BY <1>1, SMTT(30) DEF Index, Order
<1>3. /\ Index("controls") = 7 /\ Index("SC01") = 8 /\ Index("SC02") = 9 /\ Index("SC03") = 10
  BY <1>1, SMTT(30) DEF Index, Order
<1> QED  BY <1>2, <1>3 DEF NextPlace, Order

LEMMA WorkingPlaces == Working = Creating \cup Judging \cup {"start"}
<1>1. Len(Order) = 11  BY DEF Order
<1> QED  BY <1>1, SMTT(30) DEF Working, Order, Creating, Judging

LEMMA OracleInvInit == OracleInit => OracleInv
<1> SUFFICES ASSUME OracleInit PROVE OracleInv  OBVIOUS
<1> USE DEF OracleInit
<1>1. judged \in [Parts -> Verdict \cup {Open}]  BY DEF NoReport
<1>5. frames \in Seq(FrameRecord) /\ replies \in Seq(Nat)  OBVIOUS
<1>6. oracle \in Place  BY DEF Place
<1>7. made \subseteq Principal /\ cleaned \subseteq made  OBVIOUS
<1>8. registering \in BOOLEAN  OBVIOUS
<1>9. routes \in 0..2 /\ registration \in 0..routes  OBVIOUS
<1>2. OracleTypes  BY <1>1, <1>5, <1>6, <1>7, <1>8, <1>9 DEF OracleTypes
<1>3. OraclePassed  BY DEF OraclePassed, Judging, Past
<1>4. FramesAreTrue /\ ParentKnows /\ RepliesAreTrue /\ RoutesOpen
  BY DEF FramesAreTrue, ParentKnows, RepliesAreTrue, RoutesOpen, Judging
<1> QED  BY <1>2, <1>3, <1>4 DEF OracleInv

(* A report that is final stays so: its process does nothing more. *)
LEMMA FinalStays ==
  ASSUME NEW content, Final(content), judged' = judged, made' = made, cleaned' = cleaned,
         oracle' \in {oracle, "gone"}
  PROVE  Final(content)'
  BY DEF Final

(* A place among those of the process's work, or of its end. *)
LEMMA PlaceIs ==
  ASSUME NEW p \in Creating \cup Judging \cup {"start"}
  PROVE  /\ p \in Place
         /\ p \notin {"spawning", "waiting", "acknowledge", "cleanup", "failed", "reported", "gone"}
  BY DEF Place, Creating, Judging

(* The process takes a step that sends nothing and ends nothing. *)
LEMMA QuietStep ==
  ASSUME OracleInv, UNCHANGED <<frames, parent, exit>>,
         oracle \notin {"spawning", "reported", "gone"},
         oracle' \in Place \ {"spawning", "waiting", "reported", "gone"},
         made \subseteq made', made' \subseteq Principal, cleaned \subseteq cleaned',
         cleaned' \subseteq made', judged' \in [Parts -> Verdict \cup {Open}],
         replies' \in Seq(Nat),
         \A i \in 1..Len(replies') : \E j \in 1..Len(replies) : replies'[i] = replies[j],
         oracle = "waiting" => replies' = <<>>,
         OraclePassed', RoutesOpen'
  PROVE  OracleInv'
<1> USE DEF OracleInv
<1>1. OracleTypes'  BY DEF OracleTypes, parent
<1>2. FramesAreTrue'
  <2> SUFFICES ASSUME NEW i \in 1..Len(frames) PROVE TrueFrame(frames[i])'
    BY DEF FramesAreTrue
  <2>1. TrueFrame(frames[i]) /\ frames' = frames  BY DEF FramesAreTrue
  <2> QED  BY <2>1 DEF TrueFrame, Final
<1>3. ParentKnows'
  <2>1. accepted = NoReport  BY DEF ParentKnows, Final
  <2> QED  BY <2>1 DEF ParentKnows, parent
<1>4. RepliesAreTrue'
  <2>1. \A i \in 1..Len(replies') : replies'[i] <= registration /\ replies'[i] # 0
    <3> SUFFICES ASSUME NEW i \in 1..Len(replies')
                 PROVE  replies'[i] <= registration /\ replies'[i] # 0
      OBVIOUS
    <3>1. CASE oracle = "waiting"  BY <3>1
    <3>2. CASE oracle # "waiting"  BY <3>2 DEF RepliesAreTrue
    <3> QED  BY <3>1, <3>2
  <2> QED  BY <2>1 DEF RepliesAreTrue, parent
<1> QED  BY <1>1, <1>2, <1>3, <1>4

(* The process starts, fails or cleans up, or goes on in its work. *)
LEMMA ProcessWorks ==
  ASSUME OracleInv,
         ReceivesStart \/ Describes \/ Acknowledged \/ Links \/ OracleFails \/ CleansUp
           \/ (\E p \in Principal : CreatesUser(p)) \/ (\E part \in Parts : Judges(part))
  PROVE  OracleInv'
<1> USE DEF OracleInv, To
<1>1. CASE ReceivesStart
  <2>1. replies' = <<>>  BY <1>1 DEF ReceivesStart, RepliesAreTrue, OracleTypes
  <2> QED
    BY <1>1, <2>1, QuietStep DEF ReceivesStart, OracleTypes, Place, OraclePassed, RoutesOpen,
       Judging, Past, parent
<1>2. CASE Describes
  BY <1>2, QuietStep DEF Describes, OracleTypes, Place, OraclePassed, RoutesOpen, Creating,
     Judging, Past, parent
<1>4. CASE Links
  BY <1>4, QuietStep DEF Links, OracleTypes, Place, OraclePassed, RoutesOpen, Creating,
     Judging, Past, parent
<1>5. CASE OracleFails
  BY <1>5, QuietStep, WorkingPlaces, PlaceIs DEF OracleFails, OracleTypes, Place, OraclePassed,
     RoutesOpen, Judging, Past, parent
<1>6. CASE CleansUp
  BY <1>6, QuietStep DEF CleansUp, OracleTypes, Place, OraclePassed,
     RoutesOpen, Judging, Past, parent
<1>7. CASE \E p \in Principal : CreatesUser(p)
  BY <1>7, QuietStep, NextPlaces DEF CreatesUser, Principal, OracleTypes, Place, OraclePassed,
     RoutesOpen, Creating, Judging, Past, parent
<1>8. CASE \E part \in Parts : Judges(part)
  <2>1. PICK part \in Parts : Judges(part)  BY <1>8
  <2>2. judged' \in [Parts -> Verdict \cup {Open}]
    BY <2>1 DEF Judges, OracleTypes, Verdict
  <2>3. judged'[part] # Open /\ \A q \in Parts \ {part} : judged'[q] = judged[q]
    BY <2>1 DEF Judges, OracleTypes, Verdict, Open
  <2>4. \A q \in Parts : oracle' \in Past(q) => q = part \/ oracle \in Past(q)
    BY <2>1, NextPlaces DEF Judges, Parts, Past
  <2>5. /\ oracle' \in {"SC01", "SC02", "SC03", "SC04", "cleanup"}
        /\ oracle = part
    BY <2>1, NextPlaces DEF Judges, Parts
  <2>6. OraclePassed'
    BY <2>1, <2>3, <2>4, <2>5 DEF OraclePassed, Judges, Judging, Parts
  <2>7. RoutesOpen'
    BY <2>1, <2>5 DEF RoutesOpen, Judges, parent, Parts, Judging
  <2> QED
    BY <2>1, <2>2, <2>5, <2>6, <2>7, QuietStep DEF Judges, OracleTypes, Place, Judging, parent,
       Parts
<1>3. CASE Acknowledged
  <2>1. /\ replies # <<>> /\ replies' = Tail(replies) /\ oracle = "acknowledge"
        /\ oracle' = IF Head(replies) = 1 THEN "paid" ELSE "link"
        /\ UNCHANGED <<made, judged, cleaned, exit, frames, parent>>
    BY <1>3 DEF Acknowledged
  <2>2. /\ 1 \in 1..Len(replies) /\ Head(replies) = replies[1] /\ replies' \in Seq(Nat)
        /\ \A i \in 1..Len(replies') : i + 1 \in 1..Len(replies) /\ replies'[i] = replies[i + 1]
    BY <2>1 DEF OracleTypes
  <2>3. replies[1] \in Nat /\ replies[1] # 0 /\ replies[1] <= registration
    BY <2>1, <2>2 DEF RepliesAreTrue, OracleTypes
  <2>4. oracle' = "link" => registration = 2 /\ routes = 2 /\ "paid" \in made
    BY <2>1, <2>2, <2>3 DEF ParentKnows, OracleTypes
  <2>5. oracle' = "paid" => routes >= 1  BY <2>1, <2>2, <2>3 DEF OracleTypes
  <2>6. OraclePassed'
    BY <2>1, <2>4 DEF OraclePassed, Judging, Past, OracleTypes, Principal
  <2>7. RoutesOpen'
    BY <2>1, <2>4, <2>5 DEF RoutesOpen, Judging, parent
  <2>8. \A i \in 1..Len(replies') : \E j \in 1..Len(replies) : replies'[i] = replies[j]
    BY <2>2
  <2> QED
    BY <2>1, <2>2, <2>6, <2>7, <2>8, QuietStep DEF OracleTypes, Place, Creating, parent
<1> QED  BY <1>1, <1>2, <1>3, <1>4, <1>5, <1>6, <1>7, <1>8

(* The process sends a frame. *)
LEMMA ProcessSends ==
  ASSUME OracleInv, (\E p \in Principal : Registers(p)) \/ SendsReport
  PROVE  OracleInv'
<1> USE DEF OracleInv, To, Sends, Frame
<1>1. CASE \E p \in Principal : Registers(p)
  <2>1. PICK p \in Principal : Registers(p)  BY <1>1
  <2> DEFINE frame == Frame("register", RouteId(p), NoReport)
  <2>2. frame.type = "register" /\ (p = "free" => frame.id = 1)
        /\ frame \in FrameRecord
    BY DEF RouteId, NoReport, FrameRecord
  <2>3. /\ frames' = Append(frames, frame) /\ oracle' = "acknowledge" /\ "free" \in made
        /\ oracle \in {"free-routes", "paid-routes"} /\ (p = "paid" => "paid" \in made)
        /\ UNCHANGED <<made, judged, cleaned, exit, replies, parent>>
    BY <2>1, NextPlaces DEF Registers, Principal, OraclePassed
  <2> HIDE DEF frame
  <2>4. OracleTypes'  BY <2>2, <2>3 DEF OracleTypes, Place, parent
  <2>5. OraclePassed'  BY <2>3 DEF OraclePassed, Judging, Past
  <2>6. \A i \in 1..Len(frames') : i = Len(frames) + 1 \/ i \in 1..Len(frames)
    BY <2>3 DEF OracleTypes
  <2>7. frames'[Len(frames) + 1] = frame /\ \A i \in 1..Len(frames) : frames'[i] = frames[i]
    BY <2>3 DEF OracleTypes
  <2>8. FramesAreTrue'
    BY <2>2, <2>3, <2>6, <2>7 DEF FramesAreTrue, TrueFrame, Final, Principal
  <2>9. ParentKnows'  BY <2>3 DEF ParentKnows, Final, parent
  <2>10. RepliesAreTrue' /\ RoutesOpen'
    BY <2>3 DEF RepliesAreTrue, RoutesOpen, Judging, parent
  <2> QED  BY <2>4, <2>5, <2>8, <2>9, <2>10
<1>2. CASE SendsReport
  <2> DEFINE content == [found |-> judged, users |-> cleaned]
             frame == Frame("result", 0, content)
  <2>1. /\ oracle = "cleanup" /\ cleaned = made /\ oracle' = "reported" /\ made = Principal
        /\ frames' = Append(frames, frame)
        /\ UNCHANGED <<made, judged, cleaned, exit, replies, parent>>
    BY <1>2 DEF SendsReport, OraclePassed
  <2>2. \A part \in Parts : judged[part] # Open
    BY <2>1 DEF OraclePassed, Past
  <2>3. Final(content)'
    BY <2>1, <2>2 DEF Final
  <2>4. frame.type = "result" /\ frame.report = content
        /\ frame \in FrameRecord
    BY <2>1 DEF OracleTypes, FrameRecord
  <2> HIDE DEF frame, content
  <2>5. OracleTypes'  BY <2>1, <2>4 DEF OracleTypes, Place, parent
  <2>6. OraclePassed'  BY <2>1, <2>2 DEF OraclePassed, Judging, Past
  <2>7. /\ \A i \in 1..Len(frames') : i = Len(frames) + 1 \/ i \in 1..Len(frames)
        /\ frames'[Len(frames) + 1] = frame /\ \A i \in 1..Len(frames) : frames'[i] = frames[i]
    BY <2>1 DEF OracleTypes
  <2>8. \A i \in 1..Len(frames) : frames[i].type # "result"
    BY <2>1 DEF FramesAreTrue, TrueFrame, Final
  <2>9. FramesAreTrue'
    <3> SUFFICES ASSUME NEW i \in 1..Len(frames') PROVE TrueFrame(frames[i])'
      BY DEF FramesAreTrue
    <3>1. CASE i = Len(frames) + 1
      BY <2>1, <2>3, <2>4, <2>7, <3>1 DEF TrueFrame, Principal, Final, content
    <3>2. CASE i \in 1..Len(frames)
      BY <2>1, <2>7, <2>8, <3>2 DEF TrueFrame, Principal
    <3> QED  BY <2>7, <3>1, <3>2
  <2>10. ParentKnows'  BY <2>1 DEF ParentKnows, Final, parent
  <2>11. RepliesAreTrue' /\ RoutesOpen'
    BY <2>1 DEF RepliesAreTrue, RoutesOpen, Judging, parent
  <2> QED  BY <2>5, <2>6, <2>9, <2>10, <2>11
<1> QED  BY <1>1, <1>2

(* The process ends, by itself or not, perhaps with a last frame. *)
LEMMA ProcessEnds ==
  ASSUME OracleInv,
         /\ oracle \notin {"gone"} /\ oracle' = "gone"
         /\ frames' = frames \/ frames' = Append(frames, Frame("error", 0, NoReport))
         /\ replies' = replies
         /\ UNCHANGED <<made, judged, cleaned, failure, accepted, registration, registering,
                        routes, settled>>
  PROVE  OracleInv'
<1> USE DEF OracleInv
<1> DEFINE frame == Frame("error", 0, NoReport)
<1>1. frame.type = "error"
      /\ frame \in FrameRecord
  BY DEF Frame, NoReport, FrameRecord
<1> HIDE DEF frame
<1>2. /\ Len(frames') \in {Len(frames), Len(frames) + 1} /\ frames' \in Seq(FrameRecord)
      /\ \A i \in 1..Len(frames') :
           \/ i \in 1..Len(frames) /\ frames'[i] = frames[i]
           \/ frames'[i] = frame
  <2>1. CASE frames' = frames  BY <2>1 DEF OracleTypes
  <2>2. CASE frames' = Append(frames, frame)  BY <1>1, <2>2 DEF OracleTypes
  <2> QED  BY <2>1, <2>2 DEF frame
<1>3. OracleTypes'  BY <1>2 DEF OracleTypes, Place
<1>4. OraclePassed' /\ RoutesOpen' /\ RepliesAreTrue'
  BY DEF OraclePassed, Judging, Past, RoutesOpen, RepliesAreTrue
<1>5. ParentKnows'  BY DEF ParentKnows, Final
<1>6. FramesAreTrue'
  <2> SUFFICES ASSUME NEW i \in 1..Len(frames') PROVE TrueFrame(frames[i])'
    BY DEF FramesAreTrue
  <2>1. CASE i \in 1..Len(frames) /\ frames'[i] = frames[i]
    BY <2>1 DEF FramesAreTrue, TrueFrame, Final
  <2>2. CASE frames'[i] = frame
    BY <1>1, <2>2 DEF TrueFrame
  <2> QED  BY <1>2, <2>1, <2>2
<1> QED  BY <1>3, <1>4, <1>5, <1>6

(* The parent starts the process. *)
LEMMA ParentSpawns ==
  ASSUME OracleInv, Spawns
  PROVE  OracleInv'
<1> USE DEF OracleInv
<1>1. /\ oracle = "spawning" /\ oracle' \in {"waiting", "gone"} /\ frames = <<>>
      /\ replies' \in {<<0>>, <<>>}
      /\ UNCHANGED <<made, judged, cleaned, frames, parent>>
  BY DEF Spawns, To, RepliesAreTrue
<1>2. Len(replies') <= 1 /\ replies' \in Seq(Nat) /\ \A i \in 1..Len(replies') : replies'[i] = 0
  <2>1. CASE replies' = <<>>  BY <2>1
  <2>2. CASE replies' = <<0>>  BY <2>2
  <2> QED  BY <1>1, <2>1, <2>2
<1>3. replies' # <<>> => oracle' = "waiting"  BY DEF Spawns
<1>4. OracleTypes'  BY <1>1, <1>2 DEF OracleTypes, Place, parent
<1>5. OraclePassed' /\ RoutesOpen' /\ FramesAreTrue'
  BY <1>1 DEF OraclePassed, Judging, Past, RoutesOpen, parent, FramesAreTrue
<1>6. ParentKnows'  BY <1>1 DEF ParentKnows, Final, parent
<1>7. RepliesAreTrue'
  <2>1. registration' = registration /\ registration \in Nat
    BY <1>1 DEF OracleTypes, parent
  <2> QED  BY <1>1, <1>2, <1>3, <2>1 DEF RepliesAreTrue, parent
<1> QED  BY <1>4, <1>5, <1>6, <1>7

(* The parent does something that the invariant does not speak of. *)
LEMMA ParentElsewhere ==
  ASSUME OracleInv,
         UNCHANGED <<oracle, made, judged, cleaned, exit, frames, replies, accepted,
                     registration, registering, routes, settled>>
  PROVE  OracleInv'
  BY DEF OracleInv, OracleTypes, OraclePassed, FramesAreTrue, TrueFrame, ParentKnows,
     RepliesAreTrue, RoutesOpen, Final

(* The parent hears a frame. *)
LEMMA ParentHears ==
  ASSUME OracleInv, Hears
  PROVE  OracleInv'
<1> USE DEF OracleInv
<1>1. /\ frames # <<>> /\ settled = "none" /\ frames' = Tail(frames)
      /\ UNCHANGED <<oracle, made, judged, cleaned, exit, replies>>
      /\ UNCHANGED <<registration, routes, settled>>
      /\ \/ UNCHANGED <<accepted, registering>>
         \/ Head(frames).type = "result" /\ accepted' = Head(frames).report /\ UNCHANGED registering
         \/ /\ Head(frames).type = "register" /\ Head(frames).id = registration + 1
            /\ ~ registering /\ registering' = TRUE /\ UNCHANGED accepted
  BY DEF Hears, Gone, parent, process, Expected, Gives
<1>2. /\ TrueFrame(Head(frames)) /\ frames' \in Seq(FrameRecord) /\ Len(frames') <= Len(frames)
      /\ \A i \in 1..Len(frames') : i + 1 \in 1..Len(frames) /\ frames'[i] = frames[i + 1]
  BY <1>1 DEF OracleTypes, FramesAreTrue
<1>3. OracleTypes'  BY <1>1, <1>2 DEF OracleTypes
<1>4. OraclePassed' /\ RoutesOpen'
  BY <1>1 DEF OraclePassed, RoutesOpen
<1>5. FramesAreTrue'
  <2> SUFFICES ASSUME NEW i \in 1..Len(frames') PROVE TrueFrame(frames[i])'
    BY DEF FramesAreTrue
  <2>1. TrueFrame(frames[i + 1])  BY <1>2 DEF FramesAreTrue
  <2> QED  BY <1>1, <1>2, <2>1 DEF TrueFrame, Final
<1>6. RepliesAreTrue'  BY <1>1 DEF RepliesAreTrue
<1>7. ParentKnows'
  <2>1. accepted' # NoReport => Final(accepted)'
    BY <1>1, <1>2 DEF ParentKnows, TrueFrame, Final
  <2>2. "paid" \notin made => registration = 0 \/ (registration = 1 /\ ~ registering')
    BY <1>1, <1>2 DEF ParentKnows, TrueFrame, OracleTypes
  <2> QED  BY <1>1, <2>1, <2>2 DEF ParentKnows
<1> QED  BY <1>3, <1>4, <1>5, <1>6, <1>7

(* Routes were added. *)
LEMMA RoutesStep ==
  ASSUME OracleInv, RoutesAdded
  PROVE  OracleInv'
<1> USE DEF OracleInv
<1>1. /\ registering /\ routes < 2
      /\ UNCHANGED <<oracle, made, judged, cleaned, exit, frames, accepted, settled>>
  BY DEF RoutesAdded, process
<1>2. \/ /\ routes' \in {routes, routes + 1} /\ registration' = registration
         /\ registering' = registering /\ replies' = replies
      \/ /\ routes' = routes + 1 /\ registration' = registration + 1 /\ registering' = FALSE
         /\ replies' = Append(replies, registration + 1)
  BY DEF RoutesAdded
<1>3. OraclePassed' /\ FramesAreTrue'
  BY <1>1 DEF OraclePassed, FramesAreTrue, TrueFrame, Final
<1>4. routes \in Nat /\ registration \in Nat /\ registration <= routes /\ replies \in Seq(Nat)
  BY DEF OracleTypes
<1>5. CASE /\ routes' \in {routes, routes + 1} /\ registration' = registration
           /\ registering' = registering /\ replies' = replies
  <2>1. OracleTypes'  BY <1>1, <1>4, <1>5 DEF OracleTypes
  <2>2. RoutesOpen' /\ ParentKnows' /\ RepliesAreTrue'
    BY <1>1, <1>4, <1>5 DEF RoutesOpen, ParentKnows, RepliesAreTrue, Final, OracleTypes
  <2> QED  BY <1>3, <2>1, <2>2
<1>6. CASE /\ routes' = routes + 1 /\ registration' = registration + 1 /\ registering' = FALSE
           /\ replies' = Append(replies, registration + 1)
  <2>1. replies' \in Seq(Nat)  BY <1>4, <1>6
  <2>2. registering' \in BOOLEAN /\ ~ registering'  BY <1>6
  <2>3. OracleTypes'  BY <1>1, <1>4, <1>6, <2>1, <2>2 DEF OracleTypes
  <2>4. RoutesOpen'  BY <1>1, <1>4, <1>6 DEF RoutesOpen, OracleTypes
  <2>5. ParentKnows'  BY <1>1, <1>4, <1>6, <2>2 DEF ParentKnows, Final
  <2>6. \A i \in 1..Len(replies') :
          \/ i \in 1..Len(replies) /\ replies'[i] = replies[i]
          \/ replies'[i] = registration + 1
    BY <1>4, <1>6
  <2>7. \A i \in 1..Len(replies) : replies[i] \in Nat  BY <1>4
  <2>8. oracle \notin {"spawning", "waiting"}  BY <1>1 DEF RepliesAreTrue
  <2>9. RepliesAreTrue'
    BY <1>1, <1>4, <1>6, <2>6, <2>7, <2>8 DEF RepliesAreTrue
  <2> QED  BY <1>3, <2>3, <2>4, <2>5, <2>9
<1> QED  BY <1>2, <1>5, <1>6

(* Every step keeps the invariant. *)
LEMMA OracleInvStep ==
  ASSUME OracleInv, [OracleNext]_oracleVars
  PROVE  OracleInv'
<1>1. CASE Child
  <2>1. CASE Exits \/ GivesUp \/ Dies
    <3>1. oracle # "gone"  BY <2>1 DEF Exits, GivesUp, Dies, Alive
    <3> QED  BY <2>1, <3>1, ProcessEnds DEF Exits, GivesUp, Dies, To, Sends, parent
  <2> QED  BY <1>1, <2>1, ProcessWorks, ProcessSends DEF Child
<1>2. CASE Kills
  BY <1>2, ProcessEnds DEF Kills, To, Alive
<1>3. CASE CallerAborts
  BY <1>3, ParentElsewhere DEF CallerAborts, process
<1>4. CASE Closes \/ ClosesLate
  <2>1. /\ oracle = "gone" /\ settled = "none"
        /\ \/ settled' = "accepted" /\ accepted # NoReport /\ exit = ExitCode(accepted.found)
           \/ settled' = "rejected"
        /\ UNCHANGED <<oracle, made, judged, cleaned, exit, frames, replies, accepted,
                       registration, registering, routes>>
    BY <1>4 DEF Closes, ClosesLate, Gone, process
  <2> QED
    BY <2>1 DEF OracleInv, OracleTypes, OraclePassed, FramesAreTrue, TrueFrame, ParentKnows,
       RepliesAreTrue, RoutesOpen, Final, ExitCode
<1>5. CASE UNCHANGED oracleVars
  BY <1>5, ParentElsewhere DEF oracleVars, process, parent
<1> QED
  BY <1>1, <1>2, <1>3, <1>4, <1>5, ParentSpawns, ParentHears, RoutesStep
     DEF OracleNext, Parent

(* An accepted report is whole: every control and scenario was judged, by  *)
(* a process that came to its end, both users are accounted for, and their *)
(* routes were used only once the bridge let them through                  *)
(* (runRepairOracleProcess), however the two fail.                         *)
THEOREM AcceptedWhole == OracleSpec => []AcceptedIsWhole
<1>1. OracleInv => AcceptedIsWhole
  BY DEF OracleInv, AcceptedIsWhole, ParentKnows, Final, RoutesOpen, Judging, Parts
<1> QED  BY <1>1, OracleInvInit, OracleInvStep, PTL DEF OracleSpec

-----------------------------------------------------------------------------
(* The review of a completed run *)

ReportBinding == [of : Report \cup {"none"}, legacy : BOOLEAN]
ReviewDocument ==
  [status : {"none", "starting", "running", "completed", "error"}, attempt : 0..MaxAttempt,
   report : ReportBinding, session : BOOLEAN,
   recorded : Proposal \cup {"none"}]
ReviewPlace == {"idle", "archived", "noted", "register", "created", "turn", "begun", "cancel",
                "fail", "stream", "inspect", "begin", "done"}
ReviewFrame == [at : ReviewPlace, attempt : 0..MaxAttempt]

ReviewTypes ==
  /\ report \in Report
  /\ review \in ReviewDocument
  /\ archive \in [Attempt -> ReviewDocument]
  /\ start \in ReviewFrame /\ recovery \in ReviewFrame
  /\ review.status # "none" => review.attempt \in Attempt /\ review.report.of \in Report

(* A start has archived the attempt before its own until its document is   *)
(* written; from then on the latest attempt is the one it starts, and      *)
(* nobody else changes that attempt's status.                              *)
StartKnows ==
  /\ start.at = "archived" =>
       /\ start.attempt = review.attempt + 1
       /\ review.status \notin {"starting", "running"}
       /\ review.status # "none" => archive[review.attempt] = review
  /\ start.at \notin {"idle", "archived"} =>
       review.status = "starting" /\ review.attempt = start.attempt
  /\ start.at # "idle" => recovery.at = "done"
  /\ recovery.at = "cancel" => review.status = "starting"

(* What ConfirmedIsSound says, and that what was recorded is a proposal.   *)
RecordedIsSound ==
  review.status = "completed" =>
    /\ review.recorded \in Proposal
    /\ Proposed[review.recorded].verdict = "confirmed" => Defects(Source(review.report)) = {}

ReviewInv == ReviewTypes /\ StartKnows /\ RecordedIsSound

(* A review that confirms and is grounded is of a report without defects.  *)
LEMMA GroundedConfirms ==
  ASSUME NEW r, NEW source, WellFormed(r), Grounded(r, source), r.verdict = "confirmed"
  PROVE  Defects(source) = {}
<1>1. \A S : Synthesized(S) = "confirmed" => S = {"confirmed"}
  BY DEF Synthesized
<1>2. \A role \in Roles : r.reviewers[role] = "confirmed"
  BY <1>1 DEF WellFormed
<1>3. \A role \in Roles : \A c \in Criteria[role] : r.criteria[c] = "confirmed"
  <2> SUFFICES ASSUME NEW role \in Roles, NEW c \in Criteria[role]
               PROVE  r.criteria[c] = "confirmed"
    OBVIOUS
  <2> DEFINE found == {r.criteria[d] : d \in Criteria[role]}
  <2>1. Synthesized(found) = "confirmed"  BY <1>2 DEF WellFormed
  <2>2. found = {"confirmed"}  BY <1>1, <2>1
  <2>3. r.criteria[c] \in found  OBVIOUS
  <2> QED  BY <2>2, <2>3
<1>4. \A c \in Criterion : r.criteria[c] = "confirmed"
  BY <1>3 DEF Criterion
<1>5. Defects(source) \subseteq Criterion  BY DEF Defects
<1> QED  BY <1>4, <1>5 DEF Grounded

(* An older review reads a report without its cleanup hash, which is no    *)
(* defect of it.                                                           *)
LEMMA SourceDefects ==
  ASSUME NEW h \in Report, NEW binding, binding.of = h, binding.legacy \in BOOLEAN
  PROVE  Defects(Source(binding)) \subseteq Defects(Contents[h])
<1> DEFINE r == Contents[h]
           older == [r EXCEPT !.cleanupHash = "omitted"]
<1>1. CASE ~ binding.legacy  BY <1>1 DEF Source
<1>2. CASE binding.legacy
  <2>1. Source(binding) = older  BY <1>2 DEF Source
  <2>2. r \in ReviewReport  BY ReviewAssumption
  <2>3. /\ older.verdicts = r.verdicts /\ older.outcome = r.outcome
        /\ older.observations = r.observations /\ older.cited = r.cited
        /\ older.own = r.own /\ older.pictures = r.pictures /\ older.delete = r.delete
        /\ older.retain = r.retain /\ older.receipts = r.receipts /\ older.bound = r.bound
        /\ older.whole = r.whole /\ older.cleanupHash = "omitted"
    BY <2>2 DEF ReviewReport
  <2> HIDE DEF older, r
  <2>4. DerivedOutcome(older) = DerivedOutcome(r) /\ Browsed(older) = Browsed(r)
    BY <2>3 DEF DerivedOutcome, Browsed
  <2>5. ASSUME NEW c \in Criterion, Defective(older, c)
        PROVE  Defective(r, c)
    BY <2>3, <2>4, <2>5 DEF Defective
  <2> QED  BY <2>1, <2>5 DEF Defects, r
<1> QED  BY <1>1, <1>2

LEMMA ReviewInvInit == ReviewInit => ReviewInv
<1> SUFFICES ASSUME ReviewInit PROVE ReviewInv  OBVIOUS
<1>1. MaxAttempt \in Nat \ {0}  BY ReviewAssumption
<1>2. Unreviewed \in ReviewDocument /\ Unreviewed.status = "none"
  BY <1>1 DEF Unreviewed, ReviewDocument, Bound, ReportBinding
<1>3. Quiet \in ReviewFrame /\ Quiet.at = "idle"  BY <1>1 DEF Quiet, ReviewFrame, ReviewPlace
<1>4. recovery \in ReviewFrame /\ recovery.at = "begin"
  BY <1>1 DEF ReviewInit, ReviewFrame, ReviewPlace
<1>5. \/ review = Unreviewed
      \/ /\ review \in ReviewDocument /\ review.status = "running" /\ review.attempt = 1
         /\ review.report.of \in Report
  <2> DEFINE old == [Unreviewed EXCEPT !.status = "running", !.attempt = 1, !.session = TRUE,
                                       !.report = Bound(report, TRUE)]
  <2>1. report \in Report /\ (review = Unreviewed \/ review = old)  BY DEF ReviewInit
  <2> HIDE DEF old
  <2> DEFINE binding == Bound(report, TRUE)
  <2>2. binding \in ReportBinding /\ binding.of = report
    BY <2>1 DEF Bound, ReportBinding
  <2>3. /\ old \in ReviewDocument /\ old.status = "running" /\ old.attempt = 1
        /\ old.report = binding
    <3> DEFINE d1 == [Unreviewed EXCEPT !.status = "running"]
               d2 == [d1 EXCEPT !.attempt = 1]
               d3 == [d2 EXCEPT !.session = TRUE]
    <3>1. d1 \in ReviewDocument /\ d1.status = "running"  BY <1>2 DEF ReviewDocument
    <3> HIDE DEF d1
    <3>2. d2 \in ReviewDocument /\ d2.status = "running" /\ d2.attempt = 1
      BY <1>1, <3>1 DEF ReviewDocument
    <3> HIDE DEF d2
    <3>3. d3 \in ReviewDocument /\ d3.status = "running" /\ d3.attempt = 1
      BY <3>2 DEF ReviewDocument
    <3> HIDE DEF d3
    <3>4. old = [d3 EXCEPT !.report = binding]  BY DEF old, d1, d2, d3
    <3> HIDE DEF binding
    <3> QED  BY <2>2, <3>3, <3>4 DEF ReviewDocument
  <2> QED  BY <2>1, <2>2, <2>3
<1>6. ReviewTypes
  BY <1>1, <1>2, <1>3, <1>4, <1>5 DEF ReviewInit, ReviewTypes, Attempt
<1> QED
  BY <1>2, <1>3, <1>4, <1>5, <1>6 DEF ReviewInit, ReviewInv, StartKnows, RecordedIsSound

(* What a step keeps that leaves the documents and the start alone. *)
LEMMA ReviewRests ==
  ASSUME ReviewInv, UNCHANGED <<review, archive, start>>, report' \in Report,
         recovery' = recovery
           \/ (recovery' \in ReviewFrame /\ start.at = "idle"
                /\ (recovery'.at = "cancel" => review.status = "starting"))
  PROVE  ReviewInv'
  BY DEF ReviewInv, ReviewTypes, StartKnows, RecordedIsSound

(* The frame of a start moves on. *)
LEMMA StartMoves ==
  ASSUME ReviewInv, NEW place \in ReviewPlace, place # "archived",
         start.at \notin {"idle", "archived"}, start' \in {Moved(start, place), Quiet},
         UNCHANGED <<report, archive, recovery>>,
         review' \in {review, [review EXCEPT !.session = TRUE]}
           \/ (review' \in {[review EXCEPT !.status = "running"], [review EXCEPT !.status = "error"]}
                /\ start' = Quiet)
  PROVE  ReviewInv'
<1> USE DEF ReviewInv
<1>1. MaxAttempt \in Nat \ {0}  BY ReviewAssumption
<1>2. Quiet \in ReviewFrame /\ Quiet.at = "idle"  BY <1>1 DEF Quiet, ReviewFrame, ReviewPlace
<1>3. LET m == Moved(start, place) IN m \in ReviewFrame /\ m.at = place /\ m.attempt = start.attempt
  BY DEF Moved, ReviewTypes, ReviewFrame
<1>4. start' \in ReviewFrame /\ start'.at # "archived"
      /\ (start'.at = "idle" \/ start'.attempt = start.attempt)
  BY <1>2, <1>3
<1>5. /\ review' \in ReviewDocument /\ review'.attempt = review.attempt
      /\ review'.report = review.report /\ review'.status \in {review.status, "running", "error"}
      /\ review'.status # review.status => start' = Quiet
  BY DEF ReviewTypes, ReviewDocument
<1>6. review.status = "starting" /\ review.attempt = start.attempt /\ recovery.at = "done"
  BY DEF StartKnows
<1>7. ReviewTypes'  BY <1>4, <1>5, <1>6 DEF ReviewTypes
<1>8. StartKnows'  BY <1>2, <1>4, <1>5, <1>6 DEF StartKnows
<1>9. RecordedIsSound'  BY <1>5, <1>6 DEF RecordedIsSound
<1> QED  BY <1>7, <1>8, <1>9

LEMMA StartingStep ==
  ASSUME ReviewInv, Starting
  PROVE  ReviewInv'
<1> USE DEF ReviewInv, StandsAt, given, reviewDocuments, Became
<1>1. MaxAttempt \in Nat \ {0}  BY ReviewAssumption
<1>2. CASE NoteStart
  <2> DEFINE new == [Unreviewed EXCEPT !.status = "starting", !.attempt = start.attempt,
                                  !.report = Bound(report, FALSE)]
  <2>1. start.at = "archived" /\ review' = new /\ start' = Moved(start, "noted")
        /\ UNCHANGED <<report, archive, recovery>>
    BY <1>2 DEF NoteStart
  <2>2. start.attempt \in Attempt /\ report \in Report /\ recovery.at = "done"
    BY <2>1 DEF StartKnows, ReviewTypes, ReviewFrame, ReviewDocument, Attempt
  <2> HIDE DEF new
  <2> DEFINE binding == Bound(report, FALSE)
  <2>3. binding \in ReportBinding /\ binding.of = report
    BY <2>2 DEF Bound, ReportBinding
  <2>4. start.attempt \in 0..MaxAttempt  BY <2>2 DEF Attempt
  <2> HIDE DEF binding
  <2>5. /\ new \in ReviewDocument /\ new.status = "starting" /\ new.attempt = start.attempt
        /\ new.report.of = report
    <3> DEFINE d1 == [Unreviewed EXCEPT !.status = "starting"]
               d2 == [d1 EXCEPT !.attempt = start.attempt]
    <3>1. Unreviewed \in ReviewDocument
      BY <1>1 DEF Unreviewed, ReviewDocument, Bound, ReportBinding
    <3>2. d1 \in ReviewDocument /\ d1.status = "starting"  BY <3>1 DEF ReviewDocument
    <3> HIDE DEF d1
    <3>3. d2 \in ReviewDocument /\ d2.status = "starting" /\ d2.attempt = start.attempt
      BY <2>4, <3>2 DEF ReviewDocument
    <3> HIDE DEF d2
    <3>4. new = [d2 EXCEPT !.report = binding]  BY DEF new, d1, d2, binding
    <3> QED  BY <2>3, <3>3, <3>4 DEF ReviewDocument
  <2>6. start' \in ReviewFrame /\ start'.at = "noted" /\ start'.attempt = start.attempt
    BY <2>1 DEF Moved, ReviewTypes, ReviewFrame, ReviewPlace
  <2>7. ReviewTypes'  BY <2>1, <2>2, <2>5, <2>6 DEF ReviewTypes
  <2> QED  BY <2>1, <2>2, <2>5, <2>6, <2>7 DEF StartKnows, RecordedIsSound
<1>3. CASE IssueToken
  BY <1>3, StartMoves DEF IssueToken, ReviewPlace
<1>4. CASE CreateSession
  BY <1>4, StartMoves DEF CreateSession, ReviewPlace
<1>5. CASE SessionCreated
  BY <1>5, StartMoves DEF SessionCreated, ReviewPlace
<1>6. CASE BeginTurn
  BY <1>6, StartMoves DEF BeginTurn, ReviewPlace
<1>7. CASE TurnBegun
  BY <1>7, StartMoves DEF TurnBegun, ReviewPlace
<1>8. CASE StartFails
  BY <1>8, StartMoves DEF StartFails, ReviewPlace
<1>9. CASE StartCancels
  BY <1>9, StartMoves DEF StartCancels, ReviewPlace
<1>10. CASE StartFailed
  BY <1>10, StartMoves DEF StartFailed, ReviewPlace
<1> QED
  BY <1>2, <1>3, <1>4, <1>5, <1>6, <1>7, <1>8, <1>9, <1>10 DEF Starting

(* The latest attempt ends while no start is at work. *)
LEMMA AttemptEnds ==
  ASSUME ReviewInv, start' = start, start.at = "idle" \/ (Free /\ review.status = "running"),
         review.status # "none",
         \/ review' = [review EXCEPT !.status = "error"]
         \/ \E p \in Proposal :
              /\ review' = [review EXCEPT !.status = "completed", !.recorded = p]
              /\ Proposed[p].verdict = "confirmed" => Defects(Source(review.report)) = {},
         UNCHANGED <<report, archive>>, recovery' \in ReviewFrame, recovery'.at # "cancel"
  PROVE  ReviewInv'
<1> USE DEF ReviewInv
<1>1. start.at = "idle"  BY DEF StartKnows, Free, Held
<1>2. CASE review' = [review EXCEPT !.status = "error"]
  <2>1. /\ review' \in ReviewDocument /\ review'.status = "error"
        /\ review'.attempt = review.attempt /\ review'.report = review.report
    BY <1>2 DEF ReviewTypes, ReviewDocument
  <2> QED  BY <1>1, <2>1 DEF ReviewTypes, StartKnows, RecordedIsSound
<1>3. ASSUME NEW p \in Proposal,
             review' = [review EXCEPT !.status = "completed", !.recorded = p],
             Proposed[p].verdict = "confirmed" => Defects(Source(review.report)) = {}
      PROVE  ReviewInv'
  <2>1. /\ review' \in ReviewDocument /\ review'.status = "completed" /\ review'.recorded = p
        /\ review'.attempt = review.attempt /\ review'.report = review.report
    BY <1>3 DEF ReviewTypes, ReviewDocument
  <2> QED  BY <1>1, <1>3, <2>1 DEF ReviewTypes, StartKnows, RecordedIsSound
<1> QED  BY <1>2, <1>3

(* A frame moved to another place is a frame. *)
LEMMA MovedFrame ==
  ASSUME NEW f \in ReviewFrame, NEW place \in ReviewPlace
  PROVE  Moved(f, place) \in ReviewFrame /\ Moved(f, place).at = place
  BY DEF Moved, ReviewFrame

LEMMA WatchingStep ==
  ASSUME ReviewInv, Watching
  PROVE  ReviewInv'
<1> USE DEF given, reviewDocuments, runtime, Became
<1>1. report \in Report /\ recovery \in ReviewFrame
  BY DEF ReviewInv, ReviewTypes
<1>2. CASE StreamEnds \/ TurnInspected \/ WatchCancels
  BY <1>1, <1>2, ReviewRests DEF StreamEnds, TurnInspected, WatchCancels
<1>3. CASE WatchFails
  <2>1. CASE IsLatest("running") /\ review.attempt = watcher.attempt
    <3>1. recovery.at # "cancel"  BY <2>1 DEF ReviewInv, StartKnows, IsLatest
    <3> QED  BY <1>1, <1>3, <2>1, <3>1, AttemptEnds DEF WatchFails, IsLatest
  <2>2. CASE ~ (IsLatest("running") /\ review.attempt = watcher.attempt)
    BY <1>1, <1>3, <2>2, ReviewRests DEF WatchFails
  <2> QED  BY <2>1, <2>2
<1> QED  BY <1>2, <1>3 DEF Watching

LEMMA RecoveringStep ==
  ASSUME ReviewInv, Recovering
  PROVE  ReviewInv'
<1> USE DEF given, reviewDocuments, runtime, Became, StandsAt
<1>1. report \in Report /\ recovery \in ReviewFrame
  BY DEF ReviewInv, ReviewTypes
<1>2. recovery.at # "done" => start.at = "idle"
  BY DEF ReviewInv, StartKnows
<1>3. /\ Moved(recovery, "done") \in ReviewFrame /\ Moved(recovery, "done").at = "done"
      /\ Moved(recovery, "cancel") \in ReviewFrame /\ Moved(recovery, "cancel").at = "cancel"
  BY <1>1, MovedFrame DEF ReviewPlace
<1>4. CASE RecoverRunning
  <2>1. CASE IsLatest("running") /\ ~ consent
    BY <1>2, <1>3, <1>4, <2>1, AttemptEnds DEF RecoverRunning, IsLatest
  <2>2. CASE ~ (IsLatest("running") /\ ~ consent)
    BY <1>1, <1>2, <1>3, <1>4, <2>2, ReviewRests DEF RecoverRunning
  <2> QED  BY <2>1, <2>2
<1>5. CASE RecoverStarting
  BY <1>1, <1>2, <1>3, <1>5, ReviewRests DEF RecoverStarting, IsLatest
<1>6. CASE StartInterrupted
  <2>1. review.status = "starting"  BY <1>6 DEF StartInterrupted, ReviewInv, StartKnows
  <2> QED  BY <1>2, <1>3, <1>6, <2>1, AttemptEnds DEF StartInterrupted
<1> QED  BY <1>4, <1>5, <1>6 DEF Recovering

LEMMA ReviewCalls ==
  ASSUME ReviewInv,
         \/ \E retry \in BOOLEAN : Start(retry)
         \/ \E a \in Attempt : Tool(a)
         \/ WorkerDies
  PROVE  ReviewInv'
<1> USE DEF ReviewInv, given, reviewDocuments, StandsAt
<1>1. MaxAttempt \in Nat \ {0} /\ report \in Report /\ recovery \in ReviewFrame
  BY ReviewAssumption DEF ReviewTypes
<1>2. CASE \E retry \in BOOLEAN : Start(retry)
  <2>1. /\ start.at = "idle" /\ recovery.at = "done" /\ review.attempt < MaxAttempt
        /\ review.status \notin {"starting", "running"}
        /\ archive' = IF review.status = "none" THEN archive
                      ELSE [archive EXCEPT ![review.attempt] = review]
        /\ start' = [at |-> "archived", attempt |-> review.attempt + 1]
        /\ UNCHANGED <<report, review, recovery>>
    BY <1>2 DEF Start, Serving, IsLatest
  <2>2. start' \in ReviewFrame /\ start'.at = "archived" /\ start'.attempt = review.attempt + 1
    BY <1>1, <2>1 DEF ReviewFrame, ReviewPlace, ReviewTypes, ReviewDocument
  <2>3. archive' \in [Attempt -> ReviewDocument]
        /\ (review.status # "none" => archive'[review.attempt] = review)
    BY <2>1 DEF ReviewTypes
  <2>4. ReviewTypes'  BY <2>1, <2>2, <2>3 DEF ReviewTypes
  <2>5. StartKnows'  BY <2>1, <2>2, <2>3 DEF StartKnows
  <2>6. RecordedIsSound'  BY <2>1 DEF RecordedIsSound
  <2> QED  BY <2>4, <2>5, <2>6
<1>3. CASE \E a \in Attempt : Tool(a)
  <2>1. /\ Free /\ recovery.at = "done" /\ UNCHANGED <<report, start, recovery>>
        /\ (\E a \in Attempt, p \in Proposal : Record(a, p)) \/ UNCHANGED <<review, archive>>
    BY <1>3 DEF Tool, Serving
  <2>2. CASE UNCHANGED <<review, archive>>
    BY <1>1, <2>1, <2>2, ReviewRests
  <2>3. ASSUME NEW a \in Attempt, NEW p \in Proposal, Record(a, p)
        PROVE  ReviewInv'
    <3>1. /\ review.status = "running" /\ review.report.of = report /\ archive' = archive
          /\ review' = [review EXCEPT !.status = "completed", !.recorded = p]
          /\ WellFormed(Proposed[p]) /\ Grounded(Proposed[p], Contents[report])
      BY <2>3 DEF Record, IsLatest, BoundReport
    <3>2. ASSUME Proposed[p].verdict = "confirmed"
          PROVE  Defects(Source(review.report)) = {}
      <4>1. Defects(Contents[report]) = {}  BY <3>1, <3>2, GroundedConfirms
      <4>2. review.report.legacy \in BOOLEAN
        BY DEF ReviewTypes, ReviewDocument, ReportBinding
      <4> QED  BY <1>1, <3>1, <4>1, <4>2, SourceDefects
    <3> QED  BY <1>1, <2>1, <3>1, <3>2, AttemptEnds
  <2> QED  BY <2>1, <2>2, <2>3
<1>4. CASE WorkerDies
  <2>1. /\ start' \in ReviewFrame /\ start'.at = "idle"
        /\ recovery' \in ReviewFrame /\ recovery'.at = "begin"
        /\ UNCHANGED <<report, review, archive>>
    BY <1>1, <1>4, MovedFrame DEF WorkerDies, Quiet, ReviewFrame, ReviewPlace
  <2> QED  BY <2>1 DEF ReviewTypes, StartKnows, RecordedIsSound
<1> QED  BY <1>2, <1>3, <1>4

LEMMA ReviewInvStep ==
  ASSUME ReviewInv, [ReviewNext]_reviewVars
  PROVE  ReviewInv'
<1> USE DEF given, reviewDocuments, reviewFrames
<1>1. report \in Report /\ recovery \in ReviewFrame
  BY DEF ReviewInv, ReviewTypes
<1>2. CASE ReportChanges \/ ConsentWithdrawn
  BY <1>1, <1>2, ReviewRests DEF ReportChanges, ConsentWithdrawn
<1>3. CASE \E a \in Attempt : Authorize(a) \/ TurnEnds(a)
  BY <1>1, <1>3, ReviewRests DEF Authorize, TurnEnds
<1>4. CASE UNCHANGED reviewVars
  BY <1>1, <1>4, ReviewRests DEF reviewVars
<1> QED
  BY <1>2, <1>3, <1>4, StartingStep, WatchingStep, RecoveringStep, ReviewCalls DEF ReviewNext

(* An unqualified confirmation is of a report in which the worker itself   *)
(* finds no defect, whatever the reviewers propose and whatever becomes of *)
(* the report meanwhile (assertGrounded).                                  *)
THEOREM ConfirmedSound == ReviewSpec => []ConfirmedIsSound
<1>1. ReviewInv => ConfirmedIsSound
  BY DEF ReviewInv, RecordedIsSound, ConfirmedIsSound, IsLatest
<1> QED  BY <1>1, ReviewInvInit, ReviewInvStep, PTL DEF ReviewSpec

(* What was recorded stays, and no token of an earlier or refused attempt  *)
(* is let in: both steps that FinalIsKept speaks of.                       *)
LEMMA FinalStep ==
  ASSUME ReviewInv, ReviewNext, review.status \in {"completed", "error"}
  PROVE  \/ review' = review
         \/ review'.attempt = review.attempt + 1 /\ archive'[review.attempt] = review
<1> USE DEF ReviewInv, given, reviewDocuments, reviewFrames, StandsAt, Became
<1>1. CASE Starting
  <2>1. CASE NoteStart
    <3>1. review'.attempt = start.attempt  BY <2>1 DEF NoteStart, Unreviewed
    <3> QED  BY <2>1, <3>1 DEF NoteStart, StartKnows
  <2>2. CASE ~ NoteStart
    <3>1. start.at \notin {"idle", "archived"}
      BY <1>1, <2>2 DEF Starting, IssueToken, CreateSession, SessionCreated, BeginTurn, TurnBegun,
         StartFails, StartCancels, StartFailed
    <3> QED  BY <3>1 DEF StartKnows
  <2> QED  BY <2>1, <2>2
<1>2. CASE Watching
  BY <1>2 DEF Watching, StreamEnds, TurnInspected, WatchCancels, WatchFails, IsLatest
<1>3. CASE Recovering
  BY <1>3 DEF Recovering, RecoverRunning, RecoverStarting, StartInterrupted, IsLatest, StartKnows
<1>4. CASE \E a \in Attempt : Tool(a)
  BY <1>4 DEF Tool, Record, IsLatest
<1> QED
  BY <1>1, <1>2, <1>3, <1>4 DEF ReviewNext, Start, WorkerDies, ReportChanges, ConsentWithdrawn,
     Authorize, TurnEnds

LEMMA CallsStep ==
  ASSUME ReviewNext
  PROVE  \A a \in calls' \ calls : a = review.attempt /\ a \notin revoked /\ consent
<1> USE DEF given, reviewDocuments, reviewFrames
<1>1. CASE \E a \in Attempt : Authorize(a)
  BY <1>1 DEF Authorize, Authorizes
<1>2. CASE ~ \E a \in Attempt : Authorize(a)
  <2>1. calls' \subseteq calls
    BY <1>2 DEF ReviewNext, Start, Starting, NoteStart, IssueToken, CreateSession, SessionCreated,
       BeginTurn, TurnBegun, StartFails, StartCancels, StartFailed, Watching, StreamEnds,
       TurnInspected, WatchCancels, WatchFails, Recovering, RecoverRunning, RecoverStarting,
       StartInterrupted, Tool, WorkerDies, ReportChanges, ConsentWithdrawn, TurnEnds
  <2> QED  BY <2>1
<1> QED  BY <1>1, <1>2

(* A completed or failed attempt is not written again, and is archived as  *)
(* it was when the next one takes its place; no token of an earlier or a   *)
(* refused attempt is let in (start, watch, recover, authorize).           *)
THEOREM FinalKept == ReviewSpec => FinalIsKept
<1>1. ReviewInv /\ [ReviewNext]_reviewVars =>
        /\ [review.status \in {"completed", "error"} =>
              \/ review' = review
              \/ review'.attempt = review.attempt + 1
                   /\ archive'[review.attempt] = review]_reviewVars
        /\ [\A a \in calls' \ calls : a = review.attempt /\ a \notin revoked /\ consent]_reviewVars
  BY FinalStep, CallsStep
<1> QED  BY <1>1, ReviewInvInit, ReviewInvStep, PTL DEF ReviewSpec, FinalIsKept

-----------------------------------------------------------------------------
(* The gateway to the Codex model *)

Client ==
  [stage : {"none", "failed", "begin", "turn/start", "turn", "verify", "generated"},
   child : {"none", "alive", "dead"},
   output : [text : Nat, usage : Nat, decision : Decision], done : BOOLEAN, try : Nat]

GatewayTypes ==
  /\ active \in BOOLEAN
  /\ waiters \in Seq(Completion)
  /\ handler \in [Completion -> {"idle", "waiting", "generate", "again", "ended"}]
  /\ codex \in Client
  /\ served \in [Completion -> [text : Nat, usage : Nat]]

(* The turn is taken by one request, for which alone a process is at work. *)
TurnIsTaken ==
  /\ active <=> Generating # {}
  /\ \A q, r \in Generating : q = r
  /\ codex.child = "alive" => Generating # {}

(* The queue holds the requests that wait, each once.                      *)
QueueIsWaiting ==
  /\ waiters # <<>> => active
  /\ \A i, j \in 1..Len(waiters) : waiters[i] = waiters[j] => i = j
  /\ \A r \in Completion :
       handler[r] = "waiting" <=> \E i \in 1..Len(waiters) : waiters[i] = r

(* What the client keeps is of the try it is at, and so is what was served.*)
OutputIsOfOneTry ==
  /\ codex.output.usage \in {0, codex.try}
  /\ codex.output.decision # "blank" => codex.output.text = codex.try
  /\ \A r \in Completion : served[r].usage # 0 => served[r].usage = served[r].text

GatewayInv == GatewayTypes /\ TurnIsTaken /\ QueueIsWaiting /\ OutputIsOfOneTry

LEMMA NoClientIs ==
  /\ NoClient \in Client /\ NoClient.child = "none" /\ NoClient.stage = "none"
  /\ NoClient.output.usage = 0 /\ NoClient.output.decision = "blank"
  BY DEF NoClient, NoOutput, Client, Decision

LEMMA GatewayInvInit == GatewayInit => GatewayInv
<1> SUFFICES ASSUME GatewayInit PROVE GatewayInv  OBVIOUS
<1>1. GatewayTypes
  <2>1. active \in BOOLEAN  BY DEF GatewayInit
  <2>4. waiters \in Seq(Completion)  BY DEF GatewayInit
  <2>5. codex \in Client  BY NoClientIs DEF GatewayInit
  <2>2. handler \in [Completion -> {"idle", "waiting", "generate", "again", "ended"}]
    BY DEF GatewayInit
  <2>3. served \in [Completion -> [text : Nat, usage : Nat]]  BY DEF GatewayInit, NoAnswer
  <2> QED  BY <2>1, <2>2, <2>3, <2>4, <2>5 DEF GatewayTypes
<1>2. Generating = {}  BY DEF GatewayInit, Generating
<1>3. TurnIsTaken /\ QueueIsWaiting /\ OutputIsOfOneTry
  BY <1>2, NoClientIs DEF GatewayInit, TurnIsTaken, QueueIsWaiting, OutputIsOfOneTry, NoAnswer
<1> QED  BY <1>1, <1>3 DEF GatewayInv

(* What RemoveAt leaves: the elements before the place and those after it. *)
LEMMA RemoveAtIs ==
  ASSUME NEW S, NEW s \in Seq(S), NEW i \in 1..Len(s)
  PROVE  /\ RemoveAt(s, i) \in Seq(S) /\ Len(RemoveAt(s, i)) = Len(s) - 1
         /\ \A j \in 1..(Len(s) - 1) :
              RemoveAt(s, i)[j] = IF j < i THEN s[j] ELSE s[j + 1]
<1> DEFINE a == SubSeq(s, 1, i - 1)
           b == SubSeq(s, i + 1, Len(s))
<1>0. Len(s) \in Nat /\ i \in Nat /\ i >= 1 /\ i <= Len(s)  OBVIOUS
<1>1. a \in Seq(S) /\ Len(a) = i - 1 /\ \A j \in 1..(i - 1) : a[j] = s[j]
  BY SubSeqProperties
<1>2. b \in Seq(S) /\ Len(b) = Len(s) - i /\ \A j \in 1..(Len(s) - i) : b[j] = s[i + j]
  <2>1. \A j \in (i + 1)..Len(s) : s[j] \in S  OBVIOUS
  <2>2. /\ SubSeq(s, i + 1, Len(s)) \in Seq(S)
        /\ Len(SubSeq(s, i + 1, Len(s))) =
             IF i + 1 <= Len(s) THEN Len(s) - (i + 1) + 1 ELSE 0
        /\ \A j \in 1..(Len(s) - (i + 1) + 1) : SubSeq(s, i + 1, Len(s))[j] = s[i + 1 + j - 1]
    BY <2>1, SubSeqProperties
  <2>3. Len(s) - (i + 1) + 1 = Len(s) - i  BY <1>0
  <2>4. ASSUME NEW j \in 1..(Len(s) - i) PROVE b[j] = s[i + j]
    <3>1. i + 1 + j - 1 = i + j  BY <1>0
    <3> QED  BY <2>2, <2>3, <3>1
  <2>5. b \in Seq(S)  BY <2>2
  <2>6. Len(b) = Len(s) - i
    <3>1. CASE i + 1 <= Len(s)  BY <2>2, <2>3, <3>1
    <3>2. CASE ~ (i + 1 <= Len(s))
      <4>1. i = Len(s)  BY <1>0, <3>2
      <4>2. Len(b) = 0 /\ Len(s) - i = 0  BY <1>0, <2>2, <3>2, <4>1
      <4> QED  BY <4>2
    <3> QED  BY <3>1, <3>2
  <2> QED  BY <2>4, <2>5, <2>6
<1>3. RemoveAt(s, i) = a \o b  BY DEF RemoveAt
<1> HIDE DEF a, b
<1>4. a \o b \in Seq(S) /\ Len(a \o b) = Len(s) - 1
  <2>1. a \o b \in Seq(S) /\ Len(a \o b) = Len(a) + Len(b)  BY <1>1, <1>2, ConcatProperties
  <2>2. (i - 1) + (Len(s) - i) = Len(s) - 1  BY <1>0
  <2> QED  BY <1>1, <1>2, <2>1, <2>2
<1>5. ASSUME NEW j \in 1..(Len(s) - 1)
      PROVE  (a \o b)[j] = IF j < i THEN s[j] ELSE s[j + 1]
  <2>1. CASE j < i  BY <1>0, <1>1, <1>2, <2>1, ConcatProperties
  <2>2. CASE ~ j < i
    <3>1. (a \o b)[j] = b[j - (i - 1)]  BY <1>0, <1>1, <1>2, <2>2, ConcatProperties
    <3>2. j - (i - 1) \in 1..(Len(s) - i) /\ i + (j - (i - 1)) = j + 1  BY <2>2
    <3> QED  BY <1>2, <2>2, <3>1, <3>2
  <2> QED  BY <2>1, <2>2
<1> QED  BY <1>3, <1>4, <1>5

(* Where a stage of the client leads. *)
LEMMA StagesAfter ==
  /\ StageAfter("begin") = "turn/start" /\ StageAfter("turn/start") = "turn"
  /\ StageAfter("turn") = "verify" /\ StageAfter("verify") = "generated"
  BY DEF StageAfter, Stages

(* The client changes, and nothing else. *)
LEMMA ClientStep ==
  ASSUME GatewayInv, UNCHANGED <<active, waiters, handler, served>>, codex' \in Client,
         codex'.child = "alive" => codex.child = "alive" \/ Generating # {},
         codex'.output.usage \in {0, codex'.try},
         codex'.output.decision # "blank" => codex'.output.text = codex'.try
  PROVE  GatewayInv'
<1> USE DEF GatewayInv
<1>1. Generating' = Generating  BY DEF Generating
<1>2. GatewayTypes'  BY DEF GatewayTypes
<1>3. TurnIsTaken'  BY <1>1 DEF TurnIsTaken
<1>4. QueueIsWaiting'  BY DEF QueueIsWaiting
<1>5. OutputIsOfOneTry'  BY DEF OutputIsOfOneTry
<1> QED  BY <1>2, <1>3, <1>4, <1>5

(* A client that has failed keeps nothing but its process. *)
LEMMA BrokenIs ==
  ASSUME codex \in Client
  PROVE  /\ Broken(codex) \in Client /\ Broken(codex).child = codex.child
         /\ Broken(codex).output = NoOutput
         /\ NoOutput.usage = 0 /\ NoOutput.decision = "blank"
<1> DEFINE failed == [NoClient EXCEPT !.stage = "failed"]
<1>1. failed \in Client /\ failed.output = NoOutput
  <2>1. NoClient.output = NoOutput  BY DEF NoClient
  <2> QED  BY NoClientIs, <2>1 DEF Client
<1>2. Broken(codex) = [failed EXCEPT !.child = codex.child]  BY DEF Broken
<1> HIDE DEF failed
<1>3. codex.child \in {"none", "alive", "dead"}  BY DEF Client
<1> QED  BY <1>1, <1>2, <1>3 DEF Client, NoOutput

LEMMA ClientSteps ==
  ASSUME GatewayInv,
         Serve \/ CodexFails \/ CodexExits \/ CodexClosed \/ (\E r \in Completion : Spawn(r))
  PROVE  GatewayInv'
<1> USE DEF GatewayInv, Clients
<1>1. codex \in Client /\ codex.output \in [text : Nat, usage : Nat, decision : Decision]
      /\ codex.try \in Nat
  BY DEF GatewayTypes, Client
<1>2. NoClient \in Client /\ NoOutput \in [text : Nat, usage : Nat, decision : Decision]
      /\ NoOutput.usage = 0 /\ NoOutput.decision = "blank"
  BY NoClientIs DEF NoOutput, Decision
<1>3. CASE CodexResponds
  <2> DEFINE next == [codex EXCEPT !.stage = StageAfter(@)]
  <2>1. codex' = next /\ UNCHANGED <<active, waiters, handler, served>>
    BY <1>3 DEF CodexResponds
  <2>2. StageAfter(codex.stage) \in {"turn/start", "turn", "generated"}
    BY <1>3, StagesAfter DEF CodexResponds
  <2>3. next \in Client /\ next.child = codex.child /\ next.output = codex.output
        /\ next.try = codex.try
    BY <1>1, <2>2 DEF Client
  <2> HIDE DEF next
  <2> QED  BY <2>1, <2>3, ClientStep DEF OutputIsOfOneTry
<1>4. CASE TurnTaken
  <2> DEFINE next == [codex EXCEPT !.stage = StageAfter(@)]
  <2>1. codex' = next /\ UNCHANGED <<active, waiters, handler, served>>
    BY <1>4 DEF TurnTaken
  <2>2. StageAfter(codex.stage) = "verify"
    BY <1>4, StagesAfter DEF TurnTaken
  <2>3. next \in Client /\ next.child = codex.child /\ next.output = codex.output
        /\ next.try = codex.try
    BY <1>1, <2>2 DEF Client
  <2> HIDE DEF next
  <2> QED  BY <2>1, <2>3, ClientStep DEF OutputIsOfOneTry
<1>5. CASE ItemCompleted
  <2>1. PICK decision \in Decision :
          codex' = [codex EXCEPT !.output.text = codex.try, !.output.decision = decision]
    BY <1>5 DEF ItemCompleted
  <2>2. /\ codex' \in Client /\ codex'.child = codex.child /\ codex'.try = codex.try
        /\ codex'.output.usage = codex.output.usage /\ codex'.output.text = codex.try
    BY <1>1, <2>1 DEF Client
  <2> QED  BY <1>5, <2>2, ClientStep DEF ItemCompleted, OutputIsOfOneTry
<1>6. CASE TokenUsageUpdated
  <2>1. codex' = [codex EXCEPT !.output.usage = codex.try]
    BY <1>6 DEF TokenUsageUpdated
  <2>2. /\ codex' \in Client /\ codex'.child = codex.child /\ codex'.try = codex.try
        /\ codex'.output.usage = codex.try /\ codex'.output.text = codex.output.text
        /\ codex'.output.decision = codex.output.decision
    BY <1>1, <2>1 DEF Client
  <2> QED  BY <1>6, <2>2, ClientStep DEF TokenUsageUpdated, OutputIsOfOneTry
<1>7. CASE Retries
  <2> DEFINE next == [codex EXCEPT !.try = @ + 1]
  <2>1. codex' = [next EXCEPT !.output = NoOutput]
    BY <1>7 DEF Retries
  <2>3. next \in Client /\ next.child = codex.child  BY <1>1 DEF Client
  <2> HIDE DEF next
  <2>2. codex' \in Client /\ codex'.child = codex.child /\ codex'.output = NoOutput
    BY <1>2, <2>1, <2>3 DEF Client
  <2> QED  BY <1>2, <1>7, <2>2, ClientStep DEF Retries
<1>8. CASE TurnCompleted
  <2>1. codex' = [codex EXCEPT !.done = TRUE]
    BY <1>8 DEF TurnCompleted
  <2>2. /\ codex' \in Client /\ codex'.child = codex.child /\ codex'.try = codex.try
        /\ codex'.output = codex.output
    BY <1>1, <2>1 DEF Client
  <2> QED  BY <1>8, <2>2, ClientStep DEF TurnCompleted, OutputIsOfOneTry
<1>9. Broken(codex) \in Client /\ Broken(codex).child = codex.child
      /\ Broken(codex).output = NoOutput
  BY <1>1, BrokenIs
<1>10. CASE CodexFails
  BY <1>2, <1>9, <1>10, ClientStep DEF CodexFails
<1>11. CASE CodexExits
  <2> DEFINE next == IF codex.stage = "generated" THEN codex ELSE Broken(codex)
  <2>1. codex' = [next EXCEPT !.child = "dead"]
    BY <1>11 DEF CodexExits
  <2>2. next \in Client /\ next.output.usage \in {0, next.try}
        /\ (next.output.decision # "blank" => next.output.text = next.try)
    <3>1. CASE codex.stage = "generated"  BY <1>1, <3>1 DEF OutputIsOfOneTry
    <3>2. CASE codex.stage # "generated"  BY <1>2, <1>9, <3>2
    <3> QED  BY <3>1, <3>2
  <2> HIDE DEF next
  <2>3. /\ codex' \in Client /\ codex'.child = "dead" /\ codex'.try = next.try
        /\ codex'.output = next.output
    BY <2>1, <2>2 DEF Client
  <2> QED  BY <1>11, <2>2, <2>3, ClientStep DEF CodexExits
<1>12. CASE CodexClosed
  <2>1. codex' = [codex EXCEPT !.child = "dead"]
    BY <1>12 DEF CodexClosed
  <2>2. /\ codex' \in Client /\ codex'.child = "dead" /\ codex'.try = codex.try
        /\ codex'.output = codex.output
    BY <1>1, <2>1 DEF Client
  <2> QED  BY <1>12, <2>2, ClientStep DEF CodexClosed, OutputIsOfOneTry
<1>13. CASE \E r \in Completion : Spawn(r)
  <2> DEFINE begun == [NoClient EXCEPT !.stage = "begin"]
  <2>1. codex' = [begun EXCEPT !.child = "alive"] /\ Generating # {}
        /\ UNCHANGED <<active, waiters, handler, served>>
    BY <1>13 DEF Spawn
  <2>2. begun \in Client /\ begun.output = NoOutput
    <3>1. NoClient.output = NoOutput  BY DEF NoClient
    <3> QED  BY <1>2, <3>1 DEF Client
  <2> HIDE DEF begun
  <2>3. codex' \in Client /\ codex'.output = NoOutput
    BY <2>1, <2>2 DEF Client
  <2> QED  BY <1>2, <2>1, <2>3, ClientStep
<1> QED
  BY <1>3, <1>4, <1>5, <1>6, <1>7, <1>8, <1>10, <1>11, <1>12, <1>13 DEF Serve

(* The turn is handed on: to the first that waits, or it is free. *)
LEMMA ReleaseStep ==
  ASSUME GatewayInv, NEW r \in Generating, ReleaseFrom(r)
  PROVE  /\ active' \in BOOLEAN /\ waiters' \in Seq(Completion)
         /\ handler' \in [Completion -> {"idle", "waiting", "generate", "again", "ended"}]
         /\ active' <=> Generating' # {}
         /\ \A p, q \in Generating' : p = q
         /\ QueueIsWaiting'
<1> USE DEF GatewayInv
<1>1. r \in Completion /\ handler[r] \in {"generate", "again"} /\ \A q \in Generating : q = r
  BY DEF Generating, TurnIsTaken
<1>2. CASE waiters = <<>>
  <2>1. active' = FALSE /\ waiters' = waiters /\ handler' = [handler EXCEPT ![r] = "ended"]
    BY <1>2 DEF ReleaseFrom
  <2>2. handler' \in [Completion -> {"idle", "waiting", "generate", "again", "ended"}]
    BY <2>1 DEF GatewayTypes
  <2>3. \A q \in Completion : handler'[q] = IF q = r THEN "ended" ELSE handler[q]
    BY <2>1 DEF GatewayTypes
  <2>4. Generating' = {}  BY <1>1, <2>3 DEF Generating
  <2>5. QueueIsWaiting'  BY <1>1, <1>2, <2>1, <2>3 DEF QueueIsWaiting
  <2>6. waiters' \in Seq(Completion)  BY <2>1 DEF GatewayTypes
  <2> QED  BY <2>1, <2>2, <2>4, <2>5, <2>6
<1>3. CASE waiters # <<>>
  <2> DEFINE w == Head(waiters)
  <2>1. /\ active' = active /\ waiters' = Tail(waiters)
        /\ handler' = [handler EXCEPT ![r] = "ended",
                        ![w] = IF @ = "waiting" THEN "generate" ELSE @]
    BY <1>3 DEF ReleaseFrom
  <2>2. /\ 1 \in 1..Len(waiters) /\ w = waiters[1] /\ w \in Completion
        /\ waiters' \in Seq(Completion) /\ Len(waiters') = Len(waiters) - 1
        /\ Len(waiters) \in Nat
        /\ \A i \in 1..Len(waiters') : waiters'[i] = waiters[i + 1]
    BY <1>3, <2>1 DEF GatewayTypes
  <2>3. handler[w] = "waiting" /\ w # r  BY <1>1, <2>2 DEF QueueIsWaiting
  <2> HIDE DEF w
  <2>4. \A q \in Completion :
          handler'[q] = IF q = w THEN "generate" ELSE IF q = r THEN "ended" ELSE handler[q]
    BY <1>1, <2>1, <2>2, <2>3 DEF GatewayTypes
  <2>5. handler' \in [Completion -> {"idle", "waiting", "generate", "again", "ended"}]
    BY <1>1, <2>1, <2>2, <2>3 DEF GatewayTypes
  <2>6. Generating' = {w}
    <3>1. \A q \in Completion : handler[q] \in {"generate", "again"} => q = r
      BY <1>1 DEF Generating
    <3> QED  BY <2>2, <2>4, <3>1 DEF Generating
  <2>7. active  BY <1>3 DEF QueueIsWaiting
  <2>8. \A i, j \in 1..Len(waiters') : waiters'[i] = waiters'[j] => i = j
    <3> SUFFICES ASSUME NEW i \in 1..Len(waiters'), NEW j \in 1..Len(waiters'),
                        waiters'[i] = waiters'[j]
                 PROVE  i = j
      OBVIOUS
    <3>1. i + 1 \in 1..Len(waiters) /\ j + 1 \in 1..Len(waiters)  BY <2>2
    <3> QED  BY <2>2, <3>1 DEF QueueIsWaiting
  <2>9. ASSUME NEW q \in Completion
        PROVE  handler'[q] = "waiting" <=> \E i \in 1..Len(waiters') : waiters'[i] = q
    <3>1. ASSUME NEW i \in 1..Len(waiters'), waiters'[i] = q PROVE handler'[q] = "waiting"
      <4>1. i + 1 \in 1..Len(waiters) /\ i + 1 # 1 /\ waiters[i + 1] = q
        BY <2>2, <3>1
      <4>2. q # w /\ handler[q] = "waiting"
        BY <2>2, <4>1 DEF QueueIsWaiting
      <4> QED  BY <1>1, <2>4, <4>2
    <3>2. ASSUME handler'[q] = "waiting" PROVE \E i \in 1..Len(waiters') : waiters'[i] = q
      <4>1. q # w /\ handler[q] = "waiting"  BY <2>4, <3>2
      <4>2. PICK k \in 1..Len(waiters) : waiters[k] = q  BY <4>1 DEF QueueIsWaiting
      <4>3. k # 1  BY <2>2, <4>1, <4>2
      <4>4. k - 1 \in 1..Len(waiters') /\ (k - 1) + 1 = k  BY <2>2, <4>3
      <4> QED  BY <2>2, <4>2, <4>4
    <3> QED  BY <3>1, <3>2
  <2>10. QueueIsWaiting'  BY <2>1, <2>7, <2>8, <2>9 DEF QueueIsWaiting
  <2>11. active' \in BOOLEAN  BY <2>1 DEF GatewayTypes
  <2> QED  BY <2>1, <2>2, <2>5, <2>6, <2>7, <2>10, <2>11
<1> QED  BY <1>2, <1>3

(* A handler ends. *)
LEMMA HandlerEndsStep ==
  ASSUME GatewayInv, NEW r \in Generating, NEW answer \in [text : Nat, usage : Nat],
         answer.usage # 0 => answer.usage = answer.text, HandlerEnds(r, answer)
  PROVE  GatewayInv'
<1>1. /\ ReleaseFrom(r) /\ codex' = NoClient /\ r \in Completion
      /\ served' = [served EXCEPT ![r] = answer]
  BY DEF HandlerEnds, Generating
<1>2. GatewayTypes'
  BY <1>1, ReleaseStep, NoClientIs DEF GatewayInv, GatewayTypes
<1>3. TurnIsTaken'
  BY <1>1, ReleaseStep, NoClientIs DEF TurnIsTaken
<1>4. OutputIsOfOneTry'
  BY <1>1, NoClientIs DEF GatewayInv, GatewayTypes, OutputIsOfOneTry
<1> QED  BY <1>1, <1>2, <1>3, <1>4, ReleaseStep DEF GatewayInv

LEMMA HandlersStep ==
  ASSUME GatewayInv, NEW r \in Completion, HandlerRefused(r) \/ Generated(r)
  PROVE  GatewayInv'
<1> USE DEF GatewayInv
<1>1. r \in Generating  BY DEF HandlerRefused, Generated
<1>2. NoAnswer \in [text : Nat, usage : Nat] /\ NoAnswer.usage = 0  BY DEF NoAnswer
<1>3. CASE HandlerRefused(r)
  BY <1>1, <1>2, <1>3, HandlerEndsStep DEF HandlerRefused
<1>4. CASE Generated(r)
  <2>1. PICK allowed \in Contract :
          IF Standing(r, "generate") /\ IsEmpty(allowed, codex.output.decision)
          THEN GeneratesAgain(r)
          ELSE HandlerEnds(r, IF Accepts(allowed, codex.output.decision) THEN CodexAnswer(r)
                              ELSE NoAnswer)
    BY <1>4 DEF Generated
  <2>2. CASE GeneratesAgain(r)
    <3>1. /\ handler' = [handler EXCEPT ![r] = "again"] /\ codex' = NoClient
          /\ UNCHANGED <<active, waiters, served>>
      BY <2>2 DEF GeneratesAgain
    <3>2. \A q \in Completion : handler'[q] = IF q = r THEN "again" ELSE handler[q]
      BY <3>1 DEF GatewayTypes
    <3>3. Generating' = Generating  BY <1>1, <3>2 DEF Generating
    <3>4. GatewayTypes'  BY <3>1, NoClientIs DEF GatewayTypes
    <3>5. TurnIsTaken'  BY <3>1, <3>3, NoClientIs DEF TurnIsTaken
    <3>6. handler[r] # "waiting"  BY <1>1 DEF Generating
    <3>7. QueueIsWaiting'  BY <3>1, <3>2, <3>6 DEF QueueIsWaiting
    <3>8. OutputIsOfOneTry'  BY <3>1, NoClientIs DEF OutputIsOfOneTry
    <3> QED  BY <3>4, <3>5, <3>7, <3>8
  <2> DEFINE answer == CodexAnswer(r)
  <2>3. CASE Accepts(allowed, codex.output.decision) /\ HandlerEnds(r, answer)
    <3>1. codex.output.decision # "blank"
      BY <2>3 DEF Accepts, Contract
    <3>2. codex.output.text \in Nat /\ codex.output.usage \in Nat
          /\ codex.output.usage \in {0, codex.output.text}
      BY <3>1 DEF OutputIsOfOneTry, GatewayTypes, Client
    <3>3. answer \in [text : Nat, usage : Nat] /\ answer.text = codex.output.text
          /\ answer.usage \in {0, codex.output.usage}
      BY <3>2 DEF CodexAnswer
    <3> HIDE DEF answer
    <3> QED  BY <1>1, <2>3, <3>2, <3>3, HandlerEndsStep
  <2>4. CASE HandlerEnds(r, NoAnswer)
    BY <1>1, <1>2, <2>4, HandlerEndsStep
  <2> QED  BY <2>1, <2>2, <2>3, <2>4
<1> QED  BY <1>3, <1>4

LEMMA AcquireStep ==
  ASSUME GatewayInv, NEW r \in Completion, Acquire(r)
  PROVE  GatewayInv'
<1> USE DEF GatewayInv
<1>1. handler[r] = "idle" /\ UNCHANGED <<codex, served>> /\ r \notin Generating
  BY DEF Acquire, Standing, Generating
<1>2. OutputIsOfOneTry'  BY <1>1 DEF OutputIsOfOneTry
<1>3. CASE ~ active
  <2>1. active' = TRUE /\ handler' = [handler EXCEPT ![r] = "generate"] /\ waiters' = waiters
    BY <1>3 DEF Acquire
  <2>2. \A q \in Completion : handler'[q] = IF q = r THEN "generate" ELSE handler[q]
    BY <2>1 DEF GatewayTypes
  <2>3. Generating = {} /\ waiters = <<>>  BY <1>3 DEF TurnIsTaken, QueueIsWaiting
  <2>4. Generating' = {r}  BY <2>2, <2>3 DEF Generating
  <2>5. GatewayTypes'  BY <1>1, <2>1 DEF GatewayTypes
  <2>6. TurnIsTaken'  BY <2>1, <2>4 DEF TurnIsTaken
  <2>7. QueueIsWaiting'  BY <1>1, <2>1, <2>2, <2>3 DEF QueueIsWaiting
  <2> QED  BY <1>2, <2>5, <2>6, <2>7
<1>4. CASE active /\ Len(waiters) >= QueueLimit
  <2>1. active' = active /\ handler' = [handler EXCEPT ![r] = "ended"] /\ waiters' = waiters
    BY <1>4 DEF Acquire
  <2>2. \A q \in Completion : handler'[q] = IF q = r THEN "ended" ELSE handler[q]
    BY <2>1 DEF GatewayTypes
  <2>4. Generating' = Generating  BY <1>1, <2>2 DEF Generating
  <2>5. GatewayTypes'  BY <1>1, <2>1 DEF GatewayTypes
  <2>6. TurnIsTaken'  BY <1>1, <2>1, <2>4 DEF TurnIsTaken
  <2>7. QueueIsWaiting'  BY <1>1, <2>1, <2>2 DEF QueueIsWaiting
  <2> QED  BY <1>2, <2>5, <2>6, <2>7
<1>5. CASE active /\ ~ (Len(waiters) >= QueueLimit)
  <2>1. active' = active /\ handler' = [handler EXCEPT ![r] = "waiting"]
        /\ waiters' = Append(waiters, r)
    BY <1>5 DEF Acquire
  <2>2. \A q \in Completion : handler'[q] = IF q = r THEN "waiting" ELSE handler[q]
    BY <2>1 DEF GatewayTypes
  <2>3. /\ waiters' \in Seq(Completion) /\ Len(waiters) \in Nat
        /\ Len(waiters') = Len(waiters) + 1 /\ waiters'[Len(waiters) + 1] = r
        /\ \A i \in 1..Len(waiters) : waiters'[i] = waiters[i]
    BY <2>1 DEF GatewayTypes
  <2>4. Generating' = Generating  BY <1>1, <2>2 DEF Generating
  <2>5. GatewayTypes'  BY <1>1, <2>1, <2>3 DEF GatewayTypes
  <2>6. TurnIsTaken'  BY <1>1, <2>1, <2>4 DEF TurnIsTaken
  <2>7. \A i \in 1..Len(waiters) : waiters[i] # r  BY <1>1 DEF QueueIsWaiting
  <2>8. \A i \in 1..Len(waiters') : i \in 1..Len(waiters) \/ i = Len(waiters) + 1  BY <2>3
  <2>9. \A i, j \in 1..Len(waiters') : waiters'[i] = waiters'[j] => i = j
    BY <2>3, <2>7, <2>8 DEF QueueIsWaiting
  <2>10. ASSUME NEW q \in Completion
         PROVE  handler'[q] = "waiting" <=> \E i \in 1..Len(waiters') : waiters'[i] = q
    <3>1. CASE q = r
      <4>1. Len(waiters) + 1 \in 1..Len(waiters')  BY <2>3
      <4> QED  BY <2>2, <2>3, <3>1, <4>1
    <3>2. CASE q # r
      <4>1. \A i \in 1..Len(waiters) : i \in 1..Len(waiters')  BY <2>3
      <4>2. (\E i \in 1..Len(waiters') : waiters'[i] = q)
              <=> \E i \in 1..Len(waiters) : waiters[i] = q
        BY <2>3, <2>8, <3>2, <4>1
      <4> QED  BY <2>2, <3>2, <4>2 DEF QueueIsWaiting
    <3> QED  BY <3>1, <3>2
  <2>11. QueueIsWaiting'  BY <1>5, <2>1, <2>9, <2>10 DEF QueueIsWaiting
  <2> QED  BY <1>2, <2>5, <2>6, <2>11
<1> QED  BY <1>3, <1>4, <1>5

LEMMA AbortStep ==
  ASSUME GatewayInv, NEW r \in Completion, AbortRequest(r)
  PROVE  GatewayInv'
<1> USE DEF GatewayInv
<1>1. CASE handler[r] = "waiting"
  <2>1. PICK k \in 1..Len(waiters) :
          /\ waiters[k] = r /\ waiters' = RemoveAt(waiters, k)
          /\ handler' = [handler EXCEPT ![r] = "ended"]
          /\ UNCHANGED <<active, codex, served>>
    <3>1. DOMAIN waiters = 1..Len(waiters)  BY DEF GatewayTypes
    <3>2. \E k \in DOMAIN waiters : waiters[k] = r /\ waiters' = RemoveAt(waiters, k)
      BY <1>1 DEF AbortRequest, Standing
    <3>3. handler' = [handler EXCEPT ![r] = "ended"] /\ UNCHANGED <<active, codex, served>>
      BY <1>1 DEF AbortRequest, Standing
    <3> QED  BY <3>1, <3>2, <3>3
  <2>2. /\ waiters' \in Seq(Completion) /\ Len(waiters') = Len(waiters) - 1
        /\ Len(waiters) \in Nat /\ waiters \in Seq(Completion)
        /\ \A j \in 1..Len(waiters') : waiters'[j] = IF j < k THEN waiters[j] ELSE waiters[j + 1]
    <3>1. waiters \in Seq(Completion) /\ Len(waiters) \in Nat  BY DEF GatewayTypes
    <3> DEFINE rest == RemoveAt(waiters, k)
    <3>2. /\ rest \in Seq(Completion) /\ Len(rest) = Len(waiters) - 1
          /\ \A j \in 1..(Len(waiters) - 1) : rest[j] = IF j < k THEN waiters[j] ELSE waiters[j + 1]
      BY <3>1, RemoveAtIs
    <3>3. waiters' = rest  BY <2>1
    <3> HIDE DEF rest
    <3> QED  BY <3>1, <3>2, <3>3
  <2>3. \A q \in Completion : handler'[q] = IF q = r THEN "ended" ELSE handler[q]
    BY <2>1 DEF GatewayTypes
  <2>4. Generating' = Generating  BY <1>1, <2>3 DEF Generating
  <2>5. GatewayTypes'  BY <2>1, <2>2 DEF GatewayTypes
  <2>6. TurnIsTaken'  BY <2>1, <2>4 DEF TurnIsTaken
  <2>7. OutputIsOfOneTry'  BY <2>1 DEF OutputIsOfOneTry
  <2> DEFINE from(j) == IF j < k THEN j ELSE j + 1
  <2>8. \A j \in 1..Len(waiters') :
          from(j) \in 1..Len(waiters) /\ from(j) # k /\ waiters'[j] = waiters[from(j)]
    BY <2>2
  <2>9. ASSUME NEW i \in 1..Len(waiters'), NEW j \in 1..Len(waiters'), waiters'[i] = waiters'[j]
        PROVE  i = j
    <3>1. from(i) = from(j)  BY <2>8, <2>9 DEF QueueIsWaiting
    <3> QED  BY <2>2, <3>1
  <2>10. ASSUME NEW q \in Completion
         PROVE  handler'[q] = "waiting" <=> \E i \in 1..Len(waiters') : waiters'[i] = q
    <3>1. ASSUME NEW i \in 1..Len(waiters'), waiters'[i] = q PROVE handler'[q] = "waiting"
      <4>1. from(i) \in 1..Len(waiters) /\ from(i) # k /\ waiters[from(i)] = q
        BY <2>8, <3>1
      <4> HIDE DEF from
      <4>2. q # r /\ handler[q] = "waiting"
        BY <2>1, <4>1 DEF QueueIsWaiting
      <4> QED  BY <2>3, <4>2
    <3>2. ASSUME handler'[q] = "waiting" PROVE \E i \in 1..Len(waiters') : waiters'[i] = q
      <4>1. q # r /\ handler[q] = "waiting"  BY <2>3, <3>2
      <4>2. PICK n \in 1..Len(waiters) : waiters[n] = q  BY <4>1 DEF QueueIsWaiting
      <4>3. n # k  BY <2>1, <4>1, <4>2
      <4>4. CASE n < k
        <5>1. n \in 1..Len(waiters')  BY <2>2, <4>4
        <5> QED  BY <2>2, <4>2, <4>4, <5>1
      <4>5. CASE n > k
        <5>1. n - 1 \in 1..Len(waiters') /\ ~ (n - 1 < k) /\ (n - 1) + 1 = n  BY <2>2, <4>5
        <5> QED  BY <2>2, <4>2, <5>1
      <4> QED  BY <2>2, <4>3, <4>4, <4>5
    <3> QED  BY <3>1, <3>2
  <2>11. waiters' # <<>> => active'
    <3>1. waiters # <<>>  BY <2>1
    <3> QED  BY <2>1, <3>1 DEF QueueIsWaiting
  <2>12. QueueIsWaiting'  BY <2>9, <2>10, <2>11 DEF QueueIsWaiting
  <2> QED  BY <2>5, <2>6, <2>7, <2>12
<1>2. CASE handler[r] # "waiting"
  <2>1. /\ UNCHANGED <<active, waiters, handler, served>>
        /\ codex' = IF codex.stage = "none" THEN codex ELSE Broken(codex)
    BY <1>2 DEF AbortRequest, Standing
  <2>2. codex \in Client  BY DEF GatewayTypes
  <2>3. CASE codex.stage = "none"
    BY <2>1, <2>2, <2>3, ClientStep DEF OutputIsOfOneTry
  <2>4. CASE codex.stage # "none"
    BY <2>1, <2>2, <2>4, BrokenIs, ClientStep
  <2> QED  BY <2>3, <2>4
<1> QED  BY <1>1, <1>2

LEMMA GatewayInvStep ==
  ASSUME GatewayInv, [GatewayNext]_gatewayVars
  PROVE  GatewayInv'
<1>1. CASE UNCHANGED gatewayVars
  BY <1>1 DEF gatewayVars, GatewayInv, GatewayTypes, TurnIsTaken, QueueIsWaiting,
     OutputIsOfOneTry, Generating
<1> QED
  BY <1>1, AcquireStep, AbortStep, HandlersStep, ClientSteps DEF GatewayNext, Handles, Aborts

(* The queue's turn is taken exactly while one request generates, the      *)
(* queue holds exactly those that wait, and what is answered is the text   *)
(* and the usage of one try (SerialModelQueue, CodexClient), whoever       *)
(* aborts and however the process fails.                                   *)
THEOREM AnswersOfOneTry == GatewaySpec => []AnswerIsOfOneTry
<1>1. ASSUME GatewayInv PROVE AnswerIsOfOneTry
  <2> USE DEF GatewayInv
  <2>1. Cardinality(Generating) <= 1
    <3>1. CASE Generating = {}  BY <3>1, FS_EmptySet
    <3>2. ASSUME NEW r \in Generating PROVE Cardinality(Generating) <= 1
      <4>1. Generating = {r}  BY <1>1, <3>2 DEF TurnIsTaken
      <4>2. Cardinality({r}) = 1  BY FS_Singleton
      <4> QED  BY <4>1, <4>2
    <3> QED  BY <3>1, <3>2
  <2>2. ToSet(waiters) = {r \in Completion : Standing(r, "waiting")}
    <3>1. DOMAIN waiters = 1..Len(waiters) /\ \A i \in 1..Len(waiters) : waiters[i] \in Completion
      BY <1>1 DEF GatewayTypes
    <3> QED  BY <1>1, <3>1 DEF ToSet, Standing, QueueIsWaiting
  <2> QED
    BY <1>1, <2>1, <2>2 DEF AnswerIsOfOneTry, TurnIsTaken, QueueIsWaiting, OutputIsOfOneTry
<1> QED  BY <1>1, GatewayInvInit, GatewayInvStep, PTL DEF GatewaySpec

-----------------------------------------------------------------------------
(* The operator's console *)

RequestRecord ==
  {r \in [id : Nat, at : {"sent", "handled", "answered", "gone"},
          answer : Answer \cup {"none"}, acted : BOOLEAN, learned : BOOLEAN] :
     r.at = "answered" => r.answer # "none"}

(* The id of a press, and whether some press of an id acted.               *)
IdOf(p) == requests[p].id
Happened(id) == \E q \in Presses : requests[q].acted /\ IdOf(q) = id
Handled(p) == requests[p].at = "handled"

ConsoleTypes ==
  /\ requests \in Seq(RequestRecord)
  /\ keptId \in Nat /\ ids \in Nat /\ told \in Nat
  /\ awaited \in Nat /\ awaited <= Len(requests)
  /\ \A i \in DOMAIN rows : rows[i] \in {"open", "done", "refused"}

(* Every id but the one that is kept has come to an end that the operator  *)
(* knows.                                                                  *)
IdsAccounted ==
  /\ keptId <= ids /\ ids <= told + (IF keptId = 0 THEN 0 ELSE 1)
  /\ \A p \in Presses : IdOf(p) \in 1..ids

(* The row of an id is there from its first handler on: it lets only one   *)
(* handler in, and is taken away by a handler that did not act only.       *)
RowsGuard ==
  /\ \A p \in Presses : Handled(p) => IdOf(p) \in DOMAIN rows /\ rows[IdOf(p)] = "open"
  /\ \A p \in Presses : requests[p].acted => IdOf(p) \in DOMAIN rows
  /\ \A p, q \in Presses :
       IdOf(p) = IdOf(q) /\ Handled(p) /\ (Handled(q) \/ requests[q].acted) => p = q
  /\ \A p, q \in Presses :
       IdOf(p) = IdOf(q) /\ requests[p].acted /\ requests[q].acted => p = q

(* A success that is stored, on its way or shown is one that happened.     *)
SuccessHappened ==
  /\ \A i \in DOMAIN rows : rows[i] = "done" => Happened(i)
  /\ \A p \in Presses :
       requests[p].answer = "done" \/ requests[p].learned => Happened(IdOf(p))

ConsoleInv == ConsoleTypes /\ IdsAccounted /\ RowsGuard /\ SuccessHappened

(* What the invariant speaks of.                                           *)
coreVars == <<requests, rows, keptId, ids, awaited, told>>

-----------------------------------------------------------------------------
(* The invariant holds initially. *)
LEMMA ConsoleInvInit == ConsoleInit => ConsoleInv
  BY DEF ConsoleInit, ConsoleInv, ConsoleTypes, IdsAccounted, RowsGuard, SuccessHappened,
         Presses, Happened

(* One request is replaced by another record. *)
LEMMA ReplaceOne ==
  ASSUME requests \in Seq(RequestRecord), NEW p \in Presses, NEW r \in RequestRecord
  PROVE  LET changed == [requests EXCEPT ![p] = r] IN
         /\ changed \in Seq(RequestRecord) /\ Len(changed) = Len(requests)
         /\ \A q \in Presses : q # p => changed[q] = requests[q]
         /\ changed[p] = r
  BY DEF Presses

(* The steps of the view leave it alone. *)
LEMMA ViewSteps ==
  ASSUME ConsoleInv, UNCHANGED coreVars
  PROVE  ConsoleInv'
  BY DEF ConsoleInv, ConsoleTypes, IdsAccounted, RowsGuard, SuccessHappened, coreVars,
         Presses, Happened, IdOf, Handled

(* A press uses the id that is kept, or one that nobody used. *)
LEMMA PressKeeps ==
  ASSUME ConsoleInv, Press
  PROVE  ConsoleInv'
<1> DEFINE r == [id |-> keptId', at |-> "sent", answer |-> "none",
                 acted |-> FALSE, learned |-> FALSE]
<1> USE DEF ConsoleInv, ConsoleTypes
<1>1. /\ keptId' \in Nat /\ keptId' # 0 /\ ids' \in Nat /\ ids <= ids' /\ keptId' <= ids'
      /\ ids' <= told + 1 /\ UNCHANGED <<rows, told>>
  BY DEF Press, IdsAccounted
<1>2. r \in RequestRecord
  BY <1>1 DEF RequestRecord
<1>3. /\ requests' = Append(requests, r) /\ requests' \in Seq(RequestRecord)
      /\ Len(requests') = Len(requests) + 1
      /\ Presses' = Presses \cup {Len(requests) + 1}
      /\ \A p \in Presses : requests'[p] = requests[p]
      /\ requests'[Len(requests) + 1] = r
      /\ Len(requests) + 1 \notin Presses
  BY <1>2 DEF Press, Presses
<1> PICK n \in Nat : n = Len(requests) + 1
  OBVIOUS
<1>4. /\ \A p \in Presses' : p \in Presses \/ p = n
      /\ \A p \in Presses : /\ IdOf(p)' = IdOf(p) /\ Handled(p)' = Handled(p)
                            /\ requests'[p].acted = requests[p].acted
                            /\ requests'[p].answer = requests[p].answer
                            /\ requests'[p].learned = requests[p].learned
      /\ IdOf(n)' = keptId' /\ ~ Handled(n)' /\ ~ requests'[n].acted
      /\ requests'[n].answer = "none" /\ ~ requests'[n].learned
  <2>1. requests'[n] = r
    BY <1>3
  <2>2. r.id = keptId' /\ r.at = "sent" /\ r.answer = "none" /\ ~ r.acted /\ ~ r.learned
    OBVIOUS
  <2> QED
    BY <1>3, <2>1, <2>2 DEF IdOf, Handled
<1> HIDE DEF r
<1>5. ConsoleTypes'
  BY <1>1, <1>3 DEF Press
<1>6. IdsAccounted'
  <2>1. ids' \in Nat /\ ids \in Nat /\ keptId' \in 1..ids' /\ \A p \in Presses : IdOf(p) \in 1..ids
    BY <1>1 DEF IdsAccounted
  <2>2. \A p \in Presses' : IdOf(p)' \in 1..ids'
    BY <1>1, <1>4, <2>1
  <2> QED
    BY <1>1, <2>2 DEF IdsAccounted
<1>7. RowsGuard'
  BY <1>1, <1>4 DEF RowsGuard
<1>8. \A id : Happened(id) => Happened(id)'
  BY <1>3 DEF Happened, IdOf
<1>9. SuccessHappened'
  BY <1>1, <1>4, <1>8 DEF SuccessHappened
<1> QED
  BY <1>5, <1>6, <1>7, <1>9

(* A step that changes only where requests are and their answers: none     *)
(* becomes handled, none acts, and what becomes a success did happen.      *)
LEMMA RequestsMove ==
  ASSUME ConsoleInv,
         requests' \in Seq(RequestRecord), Len(requests') = Len(requests),
         UNCHANGED rows,
         keptId' \in Nat, told' \in Nat, UNCHANGED ids,
         keptId' <= ids, ids <= told' + (IF keptId' = 0 THEN 0 ELSE 1),
         awaited' \in Nat, awaited' <= Len(requests),
         \A p \in Presses :
           /\ requests'[p].id = requests[p].id
           /\ requests'[p].acted = requests[p].acted
           /\ Handled(p)' => Handled(p)
           /\ requests'[p].answer = "done" \/ requests'[p].learned => Happened(IdOf(p))
  PROVE  ConsoleInv'
<1>1. Presses' = Presses
  BY DEF Presses
<1>2. \A id : Happened(id)' <=> Happened(id)
  BY <1>1 DEF Happened, IdOf
<1>3. ConsoleTypes'
  BY DEF ConsoleInv, ConsoleTypes
<1>4. IdsAccounted'
  BY <1>1 DEF ConsoleInv, IdsAccounted, IdOf
<1>5. RowsGuard'
  BY <1>1 DEF ConsoleInv, RowsGuard, IdOf, Handled
<1>6. \A p \in Presses :
        requests'[p].answer = "done" \/ requests'[p].learned =>
          \E q \in Presses : requests'[q].acted /\ requests'[q].id = requests'[p].id
  BY DEF Happened, IdOf
<1>7. SuccessHappened'
  BY <1>1, <1>2, <1>6 DEF ConsoleInv, SuccessHappened, IdOf, Happened
<1> QED
  BY <1>3, <1>4, <1>5, <1>7 DEF ConsoleInv

(* An answer settles its id, or the id is kept. *)
LEMMA LearnKeeps ==
  ASSUME ConsoleInv, Learn
  PROVE  ConsoleInv'
<1> USE DEF ConsoleInv, ConsoleTypes
<1> DEFINE answer == requests[awaited].answer
<1>1. awaited \in Presses /\ requests[awaited] \in RequestRecord
  BY DEF Learn, Presses
<1> DEFINE r == [requests[awaited] EXCEPT
                   !.at = "gone", !.answer = "none", !.learned = (answer = "done")]
<1>3. /\ r \in RequestRecord /\ r.id = requests[awaited].id /\ r.at = "gone"
      /\ r.answer = "none" /\ r.acted = requests[awaited].acted
      /\ r.learned = (answer = "done")
  BY <1>1 DEF RequestRecord
<1>2. /\ requests' \in Seq(RequestRecord) /\ Len(requests') = Len(requests)
      /\ \A p \in Presses : p # awaited => requests'[p] = requests[p]
      /\ requests'[awaited] = r
  <2>1. requests' = [requests EXCEPT ![awaited] = r]
    BY DEF Learn
  <2> HIDE DEF r
  <2> QED
    BY <1>1, <1>3, <2>1, ReplaceOne
<1>4. \A p \in Presses :
        /\ requests'[p].id = requests[p].id
        /\ requests'[p].acted = requests[p].acted
        /\ Handled(p)' => Handled(p)
        /\ requests'[p].answer = "done" \/ requests'[p].learned => Happened(IdOf(p))
  BY <1>1, <1>2, <1>3 DEF SuccessHappened, Handled
<1>5. answer \in Answer \cup {"none"}
  BY <1>1 DEF RequestRecord
<1>6. /\ keptId' \in Nat /\ told' \in Nat /\ keptId' <= ids
      /\ ids <= told' + (IF keptId' = 0 THEN 0 ELSE 1)
  <2>1. DropsId(answer) => answer \in Definite \cup {"none"}
    BY <1>5 DEF DropsId, Definite, Answer
  <2>2. answer # "none"
    BY <1>1 DEF Learn, RequestRecord
  <2>3. /\ keptId' = IF DropsId(answer) THEN 0 ELSE keptId
        /\ told' = IF answer \in Definite THEN told + 1 ELSE told
    BY DEF Learn, Forget
  <2> QED
    BY <2>1, <2>2, <2>3 DEF IdsAccounted
<1> QED
  BY <1>2, <1>4, <1>6, RequestsMove DEF Learn

(* Lost or late: the id is kept. *)
LEMMA UncertainKeeps ==
  ASSUME ConsoleInv, Uncertain
  PROVE  ConsoleInv'
<1> USE DEF ConsoleInv, ConsoleTypes
<1>1. /\ UNCHANGED <<rows, ids, keptId, told>> /\ awaited' = 0
  BY DEF Uncertain, Forget, DropsId, Definite
<1>2. CASE requests[awaited].at = "answered"
  <2> DEFINE r == [requests[awaited] EXCEPT !.at = "gone", !.answer = "none"]
  <2>1. awaited \in Presses /\ requests[awaited] \in RequestRecord
    BY DEF Uncertain, Presses
  <2>2. /\ r \in RequestRecord /\ r.id = requests[awaited].id /\ r.at = "gone"
        /\ r.answer = "none" /\ r.acted = requests[awaited].acted
        /\ r.learned = requests[awaited].learned
    BY <2>1 DEF RequestRecord
  <2>3. requests' = [requests EXCEPT ![awaited] = r]
    BY <1>2 DEF Uncertain
  <2> HIDE DEF r
  <2>4. /\ requests' \in Seq(RequestRecord) /\ Len(requests') = Len(requests)
        /\ \A p \in Presses : p # awaited => requests'[p] = requests[p]
        /\ requests'[awaited] = r
    BY <2>1, <2>2, <2>3, ReplaceOne
  <2> QED
    BY <1>1, <2>1, <2>2, <2>4, RequestsMove DEF IdsAccounted, SuccessHappened, Handled
<1>3. CASE requests[awaited].at # "answered"
  <2>1. requests' = requests
    BY <1>3 DEF Uncertain
  <2> QED
    BY <1>1, <2>1, RequestsMove DEF IdsAccounted, SuccessHappened, Handled
<1> QED
  BY <1>2, <1>3

(* An answer is what was said, or is lost; a success did happen. *)
LEMMA AnswerKeeps ==
  ASSUME ConsoleInv, NEW p \in Presses, NEW answer \in Answer,
         requests' = AnsweredAs(p, answer),
         answer = "done" => Happened(IdOf(p)),
         UNCHANGED <<rows, keptId, ids, awaited, told>>
  PROVE  ConsoleInv'
<1> USE DEF ConsoleInv, ConsoleTypes
<1> DEFINE r == IF p = awaited
                THEN [requests[p] EXCEPT !.at = "answered", !.answer = answer]
                ELSE [requests[p] EXCEPT !.at = "gone"]
<1>1. requests[p] \in RequestRecord
  BY DEF Presses
<1>2. /\ r \in RequestRecord /\ r.id = requests[p].id /\ r.at # "handled"
      /\ r.answer \in {answer, requests[p].answer} /\ r.acted = requests[p].acted
      /\ r.learned = requests[p].learned
  BY <1>1 DEF RequestRecord, Answer
<1>3. requests' = [requests EXCEPT ![p] = r]
  BY DEF AnsweredAs
<1> HIDE DEF r
<1>4. /\ requests' \in Seq(RequestRecord) /\ Len(requests') = Len(requests)
      /\ \A q \in Presses : q # p => requests'[q] = requests[q]
      /\ requests'[p] = r
  BY <1>2, <1>3, ReplaceOne
<1> QED
  BY <1>2, <1>4, RequestsMove DEF IdsAccounted, SuccessHappened, Handled

(* A known id is answered from its row, and nobody acts. *)
LEMMA KnownKeeps ==
  ASSUME ConsoleInv, NEW p \in Presses, Unauthorized(p) \/ Known(p)
  PROVE  ConsoleInv'
<1> DEFINE row == rows[IdOf(p)]
<1>1. CASE Unauthorized(p)
  BY <1>1, AnswerKeeps DEF Unauthorized, Answer, clientVars
<1>2. CASE Known(p)
  <2> DEFINE answer == IF row = "open" THEN "unknown" ELSE row
  <2>1. IdOf(p) \in DOMAIN rows /\ requests' = AnsweredAs(p, answer)
    BY <1>2 DEF Known, IdOf
  <2>2. answer \in Answer /\ (answer = "done" => Happened(IdOf(p)))
    BY <2>1 DEF ConsoleInv, ConsoleTypes, SuccessHappened, Answer
  <2> HIDE DEF answer
  <2> QED
    BY <1>2, <2>1, <2>2, AnswerKeeps DEF Known, clientVars
<1> QED
  BY <1>1, <1>2

(* The first request of an id is let in: nobody handled it or acted before. *)
LEMMA AdmitKeeps ==
  ASSUME ConsoleInv, NEW p \in Presses, Admit(p)
  PROVE  ConsoleInv'
<1> USE DEF ConsoleInv, ConsoleTypes
<1> DEFINE r == [requests[p] EXCEPT !.at = "handled"]
<1>1. requests[p] \in RequestRecord
  BY DEF Presses
<1>2. /\ r \in RequestRecord /\ r.id = requests[p].id /\ r.answer = requests[p].answer
      /\ r.acted = requests[p].acted /\ r.learned = requests[p].learned
  BY <1>1 DEF RequestRecord
<1>3. requests' = [requests EXCEPT ![p] = r] /\ UNCHANGED <<keptId, ids, awaited, told>>
  BY DEF Admit, clientVars
<1> HIDE DEF r
<1>4. /\ requests' \in Seq(RequestRecord) /\ Len(requests') = Len(requests)
      /\ \A q \in Presses : q # p => requests'[q] = requests[q]
      /\ requests'[p] = r /\ Presses' = Presses
  BY <1>2, <1>3, ReplaceOne DEF Presses
<1>5. \A q \in Presses : /\ requests'[q].id = requests[q].id
                         /\ requests'[q].acted <=> requests[q].acted
                         /\ requests'[q].answer = requests[q].answer
                         /\ requests'[q].learned <=> requests[q].learned
                         /\ q # p => (Handled(q)' <=> Handled(q))
  BY <1>2, <1>4 DEF Handled
<1>6. /\ IdOf(p) \notin DOMAIN rows /\ DOMAIN rows' = DOMAIN rows \cup {IdOf(p)}
      /\ rows'[IdOf(p)] = "open" /\ \A i \in DOMAIN rows : rows'[i] = rows[i]
  BY DEF Admit, IdOf
<1>7. ConsoleTypes'
  BY <1>3, <1>4, <1>6
<1>8. IdsAccounted'
  BY <1>3, <1>4, <1>5 DEF IdsAccounted, IdOf
<1>9. RowsGuard'
  BY <1>4, <1>5, <1>6 DEF RowsGuard, IdOf
<1>10. SuccessHappened'
  <2>1. \A i : Happened(i) => \E q \in Presses : requests'[q].acted /\ requests'[q].id = i
    BY <1>5 DEF Happened, IdOf
  <2> QED
    BY <1>4, <1>5, <1>6, <2>1 DEF SuccessHappened, Happened, IdOf
<1> QED
  BY <1>7, <1>8, <1>9, <1>10

(* A handler acts: it is the only one of its id, and nobody acted before. *)
LEMMA ActKeeps ==
  ASSUME ConsoleInv, NEW p \in Presses, Act(p)
  PROVE  ConsoleInv'
<1> USE DEF ConsoleInv, ConsoleTypes
<1> DEFINE r == [requests[p] EXCEPT !.acted = TRUE]
<1>1. requests[p] \in RequestRecord /\ Handled(p)
  BY DEF Presses, Act, Handled
<1>2. /\ r \in RequestRecord /\ r.id = requests[p].id /\ r.answer = requests[p].answer
      /\ r.acted /\ r.learned = requests[p].learned /\ r.at = requests[p].at
  BY <1>1 DEF RequestRecord
<1>3. requests' = [requests EXCEPT ![p] = r] /\ UNCHANGED <<rows, keptId, ids, awaited, told>>
  BY DEF Act, clientVars
<1> HIDE DEF r
<1>4. /\ requests' \in Seq(RequestRecord) /\ Len(requests') = Len(requests)
      /\ \A q \in Presses : q # p => requests'[q] = requests[q]
      /\ requests'[p] = r /\ Presses' = Presses
  BY <1>2, <1>3, ReplaceOne DEF Presses
<1>5. \A q \in Presses : /\ requests'[q].id = requests[q].id
                         /\ requests'[q].acted <=> (requests[q].acted \/ q = p)
                         /\ requests'[q].answer = requests[q].answer
                         /\ requests'[q].learned <=> requests[q].learned
                         /\ Handled(q)' <=> Handled(q)
  BY <1>2, <1>4 DEF Handled
<1>6. ConsoleTypes' /\ IdsAccounted'
  BY <1>3, <1>4, <1>5 DEF IdsAccounted, IdOf
<1>7. RowsGuard'
  BY <1>1, <1>3, <1>4, <1>5 DEF RowsGuard, IdOf
<1>8. SuccessHappened'
  <2>1. \A i : Happened(i) => \E q \in Presses : requests'[q].acted /\ requests'[q].id = i
    BY <1>5 DEF Happened, IdOf
  <2> QED
    BY <1>3, <1>4, <1>5, <2>1 DEF SuccessHappened, Happened, IdOf
<1> QED
  BY <1>6, <1>7, <1>8

(* A handler stores its response, or takes its row away when it did not    *)
(* act.                                                                    *)
LEMMA RespondKeeps ==
  ASSUME ConsoleInv, NEW p \in Presses, NEW answer \in Answer, Respond(p, answer)
  PROVE  ConsoleInv'
<1> USE DEF ConsoleInv, ConsoleTypes
<1> DEFINE r == IF p = awaited
                THEN [requests[p] EXCEPT !.at = "answered", !.answer = answer]
                ELSE [requests[p] EXCEPT !.at = "gone"]
<1>1. requests[p] \in RequestRecord /\ Handled(p)
  BY DEF Presses, Respond, Handled
<1>2. /\ r \in RequestRecord /\ r.id = requests[p].id /\ r.at # "handled"
      /\ r.answer \in {answer, requests[p].answer} /\ r.acted = requests[p].acted
      /\ r.learned = requests[p].learned
  BY <1>1 DEF RequestRecord, Answer
<1>3. requests' = [requests EXCEPT ![p] = r] /\ UNCHANGED <<keptId, ids, awaited, told>>
  BY DEF Respond, AnsweredAs, clientVars
<1> HIDE DEF r
<1>4. /\ requests' \in Seq(RequestRecord) /\ Len(requests') = Len(requests)
      /\ \A q \in Presses : q # p => requests'[q] = requests[q]
      /\ requests'[p] = r /\ Presses' = Presses
  BY <1>2, <1>3, ReplaceOne DEF Presses
<1>5. \A q \in Presses : /\ requests'[q].id = requests[q].id
                         /\ requests'[q].acted <=> requests[q].acted
                         /\ requests'[q].learned <=> requests[q].learned
                         /\ Handled(q)' => q # p /\ Handled(q)
                         /\ q # p => requests'[q].answer = requests[q].answer
  BY <1>2, <1>4 DEF Handled
<1>6. /\ answer = "done" => requests[p].acted
      /\ answer \in Unstored => ~ requests[p].acted
      /\ answer \notin Unstored => answer \in {"done", "refused"}
  BY <1>1 DEF Respond, Unstored, RequestRecord
<1>7. /\ \A i \in DOMAIN rows' : i \in DOMAIN rows
      /\ \A i \in DOMAIN rows : i # IdOf(p) => i \in DOMAIN rows' /\ rows'[i] = rows[i]
      /\ answer \in Unstored => IdOf(p) \notin DOMAIN rows'
      /\ answer \notin Unstored => IdOf(p) \in DOMAIN rows' /\ rows'[IdOf(p)] = answer
  <2>1. IdOf(p) \in DOMAIN rows
    BY <1>1 DEF RowsGuard
  <2>2. CASE answer \in Unstored
    BY <2>1, <2>2 DEF Respond, IdOf
  <2>3. CASE answer \notin Unstored
    <3>1. rows' = [rows EXCEPT ![IdOf(p)] = answer]
      BY <2>3 DEF Respond, IdOf
    <3> QED
      BY <2>1, <2>3, <3>1
  <2> QED
    BY <2>2, <2>3
<1>8. ConsoleTypes' /\ IdsAccounted'
  <2>1. \A i \in DOMAIN rows' : rows'[i] \in {"open", "done", "refused"}
    BY <1>6, <1>7
  <2> QED
    BY <1>3, <1>4, <1>5, <2>1 DEF IdsAccounted, IdOf
<1>9. RowsGuard'
  BY <1>1, <1>4, <1>5, <1>6, <1>7 DEF RowsGuard, IdOf
<1>10. SuccessHappened'
  <2>1. \A i : Happened(i) => \E q \in Presses : requests'[q].acted /\ requests'[q].id = i
    BY <1>5 DEF Happened, IdOf
  <2>2. answer = "done" => Happened(IdOf(p))
    BY <1>6 DEF Happened
  <2>3. \A i \in DOMAIN rows' : rows'[i] = "done" => Happened(i)
    BY <1>6, <1>7, <2>2 DEF SuccessHappened
  <2>4. \A q \in Presses :
          requests'[q].answer = "done" \/ requests'[q].learned => Happened(IdOf(q))
    BY <1>2, <1>4, <1>5, <2>2 DEF SuccessHappened
  <2> QED
    BY <1>4, <1>5, <2>1, <2>3, <2>4 DEF SuccessHappened, Happened, IdOf
<1> QED
  BY <1>8, <1>9, <1>10

(* What a worker that dies was handling is gone, its rows stay; a page     *)
(* that is loaded again gives up the id it kept.                           *)
LEMMA TroubleKeeps ==
  ASSUME ConsoleInv, Crash \/ Reload
  PROVE  ConsoleInv'
<1> USE DEF ConsoleInv, ConsoleTypes
<1>1. CASE Crash
  <2>1. /\ requests' = [p \in 1..Len(requests) |->
             IF requests[p].at = "answered" THEN requests[p]
             ELSE [requests[p] EXCEPT !.at = "gone"]]
        /\ UNCHANGED <<rows, keptId, ids, awaited, told>>
    BY <1>1 DEF Crash, Presses, clientVars
  <2>2. \A p \in Presses : requests[p] \in RequestRecord
    BY DEF Presses
  <2>3. \A p \in Presses :
          /\ requests'[p] \in RequestRecord /\ requests'[p].id = requests[p].id
          /\ requests'[p].acted = requests[p].acted
          /\ requests'[p].answer = requests[p].answer
          /\ requests'[p].learned = requests[p].learned
          /\ requests'[p].at # "handled"
    BY <2>1, <2>2 DEF RequestRecord, Presses
  <2>4. requests' \in Seq(RequestRecord) /\ Len(requests') = Len(requests)
    BY <2>1, <2>3 DEF Presses
  <2> QED
    BY <2>1, <2>3, <2>4, RequestsMove DEF IdsAccounted, SuccessHappened, Handled
<1>2. CASE Reload
  BY <1>2, RequestsMove DEF Reload, serverVars, IdsAccounted, SuccessHappened, Handled
<1> QED
  BY <1>1, <1>2

(* Every step keeps the invariant. *)
LEMMA ConsoleInvStep == ConsoleInv /\ [ConsoleNext]_consoleVars => ConsoleInv'
<1> SUFFICES ASSUME ConsoleInv, [ConsoleNext]_consoleVars
             PROVE  ConsoleInv'
  OBVIOUS
<1>1. CASE Press \/ Learn \/ Uncertain
  BY <1>1, PressKeeps, LearnKeeps, UncertainKeeps
<1>2. ASSUME NEW p \in Presses, Attend(p)
      PROVE  ConsoleInv'
  BY <1>2, KnownKeeps, AdmitKeeps, ActKeeps, RespondKeeps DEF Attend
<1>3. CASE Crash \/ Reload
  BY <1>3, TroubleKeeps
<1>4. CASE Tick \/ Refreshes \/ ReadFails \/ Expire
           \/ (\E whose \in {"run", "other"} : Happen(whose)) \/ UNCHANGED consoleVars
  <2>1. UNCHANGED coreVars
    BY <1>4 DEF Tick, Refreshes, ReadRecord, ReadEvents, Show, ReadFails, Expire, Happen,
                serverVars, clientVars, viewVars, consoleVars, coreVars
  <2> QED
    BY <2>1, ViewSteps
<1> QED
  BY <1>1, <1>2, <1>3, <1>4 DEF ConsoleNext

(* The requests, the rows of the worker and the ids of the console stay    *)
(* consistent through every loss, delay, crash and reload.                 *)
THEOREM ConsoleConsistent == ConsoleSpec => []ConsoleInv
  BY ConsoleInvInit, ConsoleInvStep, PTL DEF ConsoleSpec

(* As an id acts at most once, there are no more presses that acted than   *)
(* ids.                                                                    *)
LEMMA ActedBounded == ConsoleInv => Cardinality(Acted) <= told + 1
<1> SUFFICES ASSUME ConsoleInv
             PROVE  Cardinality(Acted) <= told + 1
  OBVIOUS
<1> USE DEF ConsoleInv, ConsoleTypes
<1>1. /\ IsFiniteSet(1..ids) /\ Cardinality(1..ids) = ids
      /\ IsFiniteSet(1..Len(requests))
  BY FS_Interval
<1>2. IsFiniteSet(Acted) /\ Cardinality(Acted) \in Nat
  BY <1>1, FS_Subset, FS_CardinalityType DEF Acted, Presses
<1>3. Cardinality(Acted) <= ids
  <2>1. SUFFICES ASSUME ids < Cardinality(Acted)
                 PROVE  FALSE
    BY <1>2
  <2> DEFINE f == [p \in Acted |-> IdOf(p)]
  <2>2. f \in [Acted -> 1..ids]
    BY DEF Acted, IdsAccounted
  <2> HIDE DEF f
  <2>3. \E p, q \in Acted : p # q /\ f[p] = f[q]
    BY <1>1, <1>2, <2>1, <2>2, FS_PigeonHole
  <2> QED
    BY <2>3 DEF f, Acted, RowsGuard
<1> QED
  BY <1>2, <1>3 DEF IdsAccounted

(* Between two presses the operator knows the end of, the action happens   *)
(* at most once, and what is shown as a success happened: mutate and the   *)
(* middleware of http.ts:176 together, for any number of presses, crashes, *)
(* reloads and requests that arrive late.                                  *)
THEOREM PressedOnce == ConsoleSpec => []PressActsOnce
<1>1. ConsoleInv => PressActsOnce
  <2> SUFFICES ASSUME ConsoleInv
               PROVE  PressActsOnce
    OBVIOUS
  <2>1. \A p, q \in Acted : requests[p].id = requests[q].id => p = q
    BY DEF ConsoleInv, RowsGuard, Acted, IdOf
  <2>2. \A p \in Succeeded : \E q \in Acted : requests[q].id = requests[p].id
    BY DEF ConsoleInv, SuccessHappened, Succeeded, Acted, Happened, IdOf
  <2> QED
    BY <2>1, <2>2, ActedBounded DEF PressActsOnce
<1> QED
  BY <1>1, ConsoleConsistent, PTL

-----------------------------------------------------------------------------
(* What follows from implementing EffectOnce, for any worker that does: the *)
(* plan decision, the checkout continuation, the deletion of a fixture, a   *)
(* mutation of the payment provider and the pull request implement          *)
(* EffectSpec, and these theorems say what they get from it.                *)

Intent == {"none", "prepared", "dispatched", "confirmed", "unknown"}

(* Only a dispatched intent has a request, and only a request an effect.   *)
EffectInv ==
  /\ intent \in Intent
  /\ requested \in {0, 1}
  /\ effects \subseteq {1}
  /\ requested = 1 => intent \in {"dispatched", "confirmed", "unknown"}
  /\ effects # {} => requested = 1
  /\ intent = "confirmed" => effects # {}

(* The invariant holds initially and is kept by every step. *)
LEMMA EffectInvariant == EffectSpec => []EffectInv
<1>1. EffectInit => EffectInv
  BY DEF EffectInit, EffectInv, Intent
<1>2. EffectInv /\ [EffectNext]_effectVars => EffectInv'
  <2> SUFFICES ASSUME EffectInv, [EffectNext]_effectVars
               PROVE  EffectInv'
    OBVIOUS
  <2> USE DEF EffectInv, Intent
  <2>1. CASE Prepare
    BY <2>1 DEF Prepare
  <2>2. CASE Dispatch
    BY <2>2 DEF Dispatch
  <2>3. CASE Issue
    BY <2>3 DEF Issue
  <2>4. CASE TakeEffect
    BY <2>4 DEF TakeEffect
  <2>5. CASE Confirm
    BY <2>5 DEF Confirm
  <2>6. CASE GiveUp
    BY <2>6 DEF GiveUp
  <2>7. CASE UNCHANGED effectVars
    BY <2>7 DEF effectVars
  <2> QED
    BY <2>1, <2>2, <2>3, <2>4, <2>5, <2>6, <2>7 DEF EffectNext
<1> QED
  BY <1>1, <1>2, PTL DEF EffectSpec

(* At most one effect, none without a stored intent, and none confirmed    *)
(* that did not happen: what the write-ahead of decidePlan,                *)
(* continueCheckout and cleanup is for.                                    *)
THEOREM EffectIsSafe == EffectSpec => []EffectSafe
<1>1. EffectInv => EffectSafe
  BY DEF EffectInv, EffectSafe, Intent
<1> QED
  BY <1>1, EffectInvariant, PTL

(* An intent that is confirmed or given up is never touched again, so that *)
(* no later call or recovery acts on it a second time.                     *)
THEOREM SettledStays == EffectSpec => SettledIsFinal
<1>1. [EffectNext]_effectVars =>
        [(intent \in {"confirmed", "unknown"}) => (intent' = intent)]_effectVars
  BY DEF EffectNext, Prepare, Dispatch, Issue, TakeEffect, Confirm, GiveUp, effectVars
<1> QED
  BY <1>1, PTL DEF EffectSpec, SettledIsFinal
=============================================================================
