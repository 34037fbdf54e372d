----------------------- MODULE DiagnoseEvidenceProofs -----------------------
(***************************************************************************)
(* What MCDiagnoseEvidence checks on small instances, for all values of the *)
(* constants: the publication of an experiment (F), the experiment itself    *)
(* (X) and the root checks (R).  Each part has its inductive invariant, one *)
(* step per action, and the theorems that follow.                           *)
(***************************************************************************)
EXTENDS MCDiagnoseEvidence, Integers, TLAPS
-----------------------------------------------------------------------------
(* The publication of a frequency experiment.                                *)
Owners  == Txs \union {None}
Fences  == [form : {"none", "empty", "torn", "pending", "bound"}, owner : Owners]
Plans   == [base : [Artifacts -> Owners], log : Seq(Owners)]
Bundles == [ev : [Artifacts -> Owners], log : Seq(Owners), fence : Fences,
            cand : SUBSET (Artifacts \union {"log"}), marker : {TRUE, FALSE},
            manifest : {TRUE, FALSE}, report : {TRUE, FALSE}]
Staged  == [at : {"here", "gone", "quarantined", "lost"}, given : SUBSET Artifacts,
            cap : {TRUE, FALSE}, odd : {TRUE, FALSE}, src : SUBSET Artifacts, log : {TRUE, FALSE},
            control : {TRUE, FALSE}, journal : {"none", "prepared", "committed"}, plan : Plans]

\* The steps up to the fence, behind it, and of the cleanup.
Upto   == {"manifest", "report", "marker", "fence", "bind"}
Behind == {"candidates", "deletes", "install", "installed", "log", "installed-log", "settle", "commit"}
Clean  == {"cleanup", "leftovers", "unfence", "journal-out"}
PublisherSteps  == {"idle", "check", "journal", "stage-out"} \union Upto \union Behind \union Clean

StagesTyped  == staging \in [Txs -> Staged]
BundlesTyped == view \in Bundles /\ durable \in Bundles
PlansTyped   == reading \in [Txs -> Plans]
PublishersTyped   == publisher \in [Txs -> PublisherSteps]
LockHeld     == \A t \in Txs : publisher[t] # "idle" => lock = t
CapsApart    == \A t \in Txs : staging[t].given \intersect F!Deletes(t) = {}

\* Only a binding that is being written is not on the disk yet.
FenceSettled ==
  /\ view.fence.form = "torn" => durable.fence.form = "empty"
  /\ view.fence.form # "torn" => durable.fence = view.fence
  /\ view.fence.form = "bound" => view.fence.owner \in Txs
  /\ view.fence.form = "none" => view.fence = F!NoFence

\* Whose fence a publisher may find or have raised.
FenceOwned ==
  \A t \in Txs :
    /\ publisher[t] \in Upto \union Clean /\ view.fence.form \in {"bound", "pending"} => view.fence.owner = t
    /\ publisher[t] \in (Upto \ {"bind"}) \union Clean => view.fence.form # "torn"
    /\ publisher[t] \in Behind \union {"journal"} => view.fence = F!Fence("bound", t)
    /\ publisher[t] = "bind" => view.fence.form = "torn"
    /\ publisher[t] \in {"journal-out", "stage-out"} => view.fence = F!NoFence

\* What would vouch for evidence is withdrawn before the fence is bound.
Withdrawn ==
  \A f \in {view, durable} :
    /\ view.fence.form = "bound" => ~f.marker /\ ~f.manifest /\ ~f.report
    /\ \A t \in Txs : /\ publisher[t] \in Upto \ {"manifest"} => ~f.manifest
                      /\ publisher[t] \in {"marker", "fence", "bind"} => ~f.report
                      /\ publisher[t] \in {"fence", "bind"} => ~f.marker

\* Outside a bound fence the evidence is that of the last commit.
EvidenceFollows == view.fence.form # "bound" => view.ev = good.ev /\ durable.ev = good.ev

\* The journal fixes the plan a publisher works from.
PlanFixed ==
  \A t \in Txs :
    /\ publisher[t] \in Upto \union Behind \union {"journal"} =>
         staging[t].journal # "committed" /\ (staging[t].journal = "prepared" => reading[t] = staging[t].plan)
    /\ publisher[t] \in Behind => staging[t].journal = "prepared"
    /\ publisher[t] \in Clean => staging[t].journal = "committed"

\* How much of the plan has reached the bundle.
Progress ==
  \A t \in Txs :
    /\ publisher[t] \in Behind \ {"candidates", "deletes"} => \A a \in F!Deletes(t) : view.ev[a] = None
    /\ publisher[t] \in {"log", "installed-log", "settle", "commit"} => \A a \in staging[t].given : view.ev[a] = t
    /\ publisher[t] \in {"installed-log", "settle", "commit"} => view.log = F!FinalLog(t, reading[t])
    /\ publisher[t] = "commit" => durable.ev = view.ev /\ durable.log = view.log

\* A commit under its fence: what was planned is there, and on the disk.
Committed ==
  \A t \in Txs :
    staging[t].journal = "committed" /\ view.fence = F!Fence("bound", t) =>
      /\ view.ev = good.ev /\ durable.ev = good.ev /\ view.log = durable.log

PublicationInv == /\ StagesTyped /\ BundlesTyped /\ PlansTyped /\ PublishersTyped /\ LockHeld /\ CapsApart
        /\ FenceSettled /\ FenceOwned /\ Withdrawn /\ EvidenceFollows /\ PlanFixed /\ Progress
        /\ Committed /\ F!CommitIsDurable
-----------------------------------------------------------------------------
(* Preservation. *)

\* What a step leaves of the bundle and of the stages.
SameEvidence(v, w) == v.ev = w.ev /\ v.log = w.log
SameFence(v, w)    == v.fence = w.fence
SameReports(v, w)  == v.marker = w.marker /\ v.manifest = w.manifest /\ v.report = w.report

OrdersKept(t) ==
  \A q \in Txs : /\ staging'[q].given = staging[q].given /\ staging'[q].cap = staging[q].cap
                 /\ q # t => staging'[q].journal = staging[q].journal /\ staging'[q].plan = staging[q].plan
StagesKept ==
  \A q \in Txs : /\ staging'[q].given = staging[q].given /\ staging'[q].cap = staging[q].cap
                 /\ staging'[q].journal = staging[q].journal /\ staging'[q].plan = staging[q].plan

LEMMA BundleUpdates ==
  ASSUME NEW v \in Bundles
  PROVE  /\ [v EXCEPT !.manifest = FALSE] \in Bundles /\ [v EXCEPT !.report = FALSE] \in Bundles
         /\ [v EXCEPT !.marker = FALSE] \in Bundles /\ [v EXCEPT !.cand = {}] \in Bundles
         /\ [v EXCEPT !.fence = F!NoFence] \in Bundles
         /\ \A f \in {"none", "empty", "torn", "pending", "bound"}, t \in Owners :
              [v EXCEPT !.fence = F!Fence(f, t)] \in Bundles
         /\ None \in Owners /\ Txs \subseteq Owners
         /\ \A a \in Artifacts : /\ [v EXCEPT !.ev[a] = None] \in Bundles
                                 /\ \A t \in Txs : [v EXCEPT !.ev[a] = t, !.cand = @ \ {a}] \in Bundles
         /\ \A a \in Artifacts \union {"log"} : [v EXCEPT !.cand = @ \union {a}] \in Bundles
         /\ \A p \in Plans, t \in Txs :
              [v EXCEPT !.log = F!FinalLog(t, p), !.cand = @ \ {"log"}] \in Bundles
<1>1. None \in Owners /\ Txs \subseteq Owners
  BY DEF Owners
<1>2. \A f \in {"none", "empty", "torn", "pending", "bound"}, t \in Owners : F!Fence(f, t) \in Fences
  BY DEF F!Fence, Fences
<1>3. F!NoFence \in Fences
  BY <1>1 DEF F!NoFence, Fences
<1>4. \A p \in Plans, t \in Txs : F!FinalLog(t, p) \in Seq(Owners)
  BY <1>1 DEF F!FinalLog, Plans
<1>5. \A a \in Artifacts, t \in Owners : [v.ev EXCEPT ![a] = t] \in [Artifacts -> Owners]
  BY DEF Bundles
<1> HIDE DEF Owners, Fences, Plans
<1>6. /\ [v EXCEPT !.manifest = FALSE] \in Bundles /\ [v EXCEPT !.report = FALSE] \in Bundles
      /\ [v EXCEPT !.marker = FALSE] \in Bundles /\ [v EXCEPT !.cand = {}] \in Bundles
      /\ [v EXCEPT !.fence = F!NoFence] \in Bundles
  BY <1>3 DEF Bundles
<1>7. \A f \in {"none", "empty", "torn", "pending", "bound"}, t \in Owners :
        [v EXCEPT !.fence = F!Fence(f, t)] \in Bundles
  BY <1>2 DEF Bundles
<1>8. \A a \in Artifacts : [v EXCEPT !.ev[a] = None] \in Bundles
  BY <1>1, <1>5 DEF Bundles
<1>9. \A a \in Artifacts, t \in Txs : [v EXCEPT !.ev[a] = t, !.cand = @ \ {a}] \in Bundles
  BY <1>1, <1>5 DEF Bundles
<1>10. \A a \in Artifacts \union {"log"} : [v EXCEPT !.cand = @ \union {a}] \in Bundles
  BY DEF Bundles
<1>11. \A p \in Plans, t \in Txs : [v EXCEPT !.log = F!FinalLog(t, p), !.cand = @ \ {"log"}] \in Bundles
  BY <1>4 DEF Bundles
<1>12. QED
  BY <1>1, <1>6, <1>7, <1>8, <1>9, <1>10, <1>11

LEMMA SourceUpdates ==
  ASSUME NEW s \in Staged
  PROVE  /\ \A a \in s.src : LET r == [s EXCEPT !.src = @ \ {a}]
                            IN  /\ r \in Staged /\ r.given = s.given /\ r.cap = s.cap
                                /\ r.journal = s.journal /\ r.plan = s.plan
         /\ LET r == [s EXCEPT !.log = FALSE, !.control = FALSE]
            IN  /\ r \in Staged /\ r.given = s.given /\ r.cap = s.cap
                /\ r.journal = s.journal /\ r.plan = s.plan
BY DEF Staged

LEMMA FenceIs ==
  \A f \in Fences : \A t \in Txs : f.form = "bound" /\ f.owner = t => f = F!Fence("bound", t)
BY DEF Fences, F!Fence

LEMMA InitPublication == F!Init => PublicationInv
<1> SUFFICES ASSUME F!Init PROVE PublicationInv
  OBVIOUS
<1>1. F!NoPlan \in Plans /\ F!NoFence \in Fences
  BY DEF F!NoPlan, Plans, Owners, F!NoFence, Fences
<1>2. ASSUME NEW s \in F!Stages
      PROVE  s \in Staged /\ s.journal = "none" /\ (~s.cap => s.given \intersect Cap = {})
  <2>1. PICK g \in {{}, Artifacts \ Cap, Artifacts}, c \in BOOLEAN, o \in BOOLEAN : s = F!StageOf(g, c, o)
    BY DEF F!Stages
  <2>2. ~s.cap => s.given \intersect Cap = {}
    BY DEF F!Stages
  <2>3. g \subseteq Artifacts /\ c \in {TRUE, FALSE} /\ o \in {TRUE, FALSE}
    BY <2>1
  <2>4. s \in Staged /\ s.journal = "none"
    BY <1>1, <2>1, <2>3 DEF F!StageOf, Staged
  <2>5. QED
    BY <2>2, <2>4
<1>3. StagesTyped /\ CapsApart /\ F!CommitIsDurable
  <2>1. \A t \in Txs : staging[t] \in F!Stages
    BY DEF F!Init
  <2>2. QED
    BY <1>2, <2>1 DEF F!Init, StagesTyped, CapsApart, F!Deletes, F!CommitIsDurable
<1>4. BundlesTyped /\ PlansTyped /\ PublishersTyped
  BY <1>1 DEF F!Init, BundlesTyped, Bundles, Owners, PlansTyped, PublishersTyped, PublisherSteps
<1>5. LockHeld /\ FenceSettled /\ FenceOwned /\ Withdrawn /\ EvidenceFollows /\ PlanFixed /\ Progress
  BY DEF F!Init, LockHeld, FenceSettled, FenceOwned, Withdrawn, EvidenceFollows, PlanFixed, Progress,
         F!NoFence, Upto, Behind, Clean
<1>6. Committed
  BY DEF F!Init, Committed, F!NoFence, F!Fence
<1>7. QED
  BY <1>3, <1>4, <1>5, <1>6 DEF PublicationInv

LEMMA BeginKeeps ==
  ASSUME PublicationInv, NEW t \in Txs, F!Begin(t) PROVE PublicationInv'
<1>1. /\ view \in Bundles /\ durable \in Bundles /\ staging \in [Txs -> Staged] /\ staging[t] \in Staged
      /\ view.fence \in Fences
  BY DEF PublicationInv, BundlesTyped, Bundles, StagesTyped
<1>2. PublishersTyped' /\ LockHeld' /\ \A q \in Txs : q # t => publisher[q] = "idle" /\ publisher'[q] = "idle"
  BY PublishAssumption DEF PublicationInv, F!Begin, PublishersTyped, PublisherSteps, Upto, Behind, Clean, LockHeld, F!Goto, F!Leave, F!Rest
<1>3. BundlesTyped'
  BY <1>1 DEF F!Begin, F!Bundle, BundlesTyped
<1>4. StagesTyped'
  BY <1>1 DEF F!Begin, StagesTyped
<1>5. PlansTyped'
  BY DEF PublicationInv, F!Begin, F!Rest, PlansTyped
<1>6. /\ publisher[t] = "idle"
      /\ publisher'[t] = "check"
      /\ view' = view /\ durable' = durable
      /\ staging' = staging
      /\ reading' = reading
      /\ good' = good
  BY <1>1 DEF F!Begin, F!Goto, F!Leave, F!Rest, F!Bundle, PublicationInv, PublishersTyped
<1>7. CapsApart'
  BY <1>6 DEF PublicationInv, CapsApart, F!Deletes, F!FinalLog
<1>8. FenceSettled'
  BY <1>6 DEF PublicationInv, FenceSettled
<1>9. FenceOwned'
  BY <1>1, FenceIs, <1>2, <1>6, PublishAssumption DEF PublicationInv, FenceOwned, FenceSettled, Upto,
       Behind, Clean, F!Fence, F!NoFence
<1>10. Withdrawn'
  BY <1>2, <1>6 DEF PublicationInv, Withdrawn, FenceOwned, FenceSettled, Upto, Behind, Clean, F!Fence,
       F!NoFence
<1>11. EvidenceFollows'
  BY <1>6 DEF PublicationInv, EvidenceFollows
<1>12. PlanFixed'
  BY <1>2, <1>6 DEF PublicationInv, PlanFixed, Upto, Behind, Clean
<1>13. Progress'
  BY <1>1, <1>2, <1>6 DEF PublicationInv, Progress, Upto, Behind, Clean, F!Deletes, F!FinalLog
<1>14. Committed'
  BY <1>6 DEF PublicationInv, Committed
<1>15. F!CommitIsDurable'
  BY <1>6 DEF PublicationInv, F!CommitIsDurable, F!Deletes, F!FinalLog
<1>16. QED
  BY <1>2, <1>3, <1>4, <1>5, <1>6, <1>7, <1>8, <1>9, <1>10, <1>11, <1>12, <1>13, <1>14, <1>15
       DEF PublicationInv

LEMMA FinishEmptyKeeps ==
  ASSUME PublicationInv, NEW t \in Txs, F!FinishEmpty(t) PROVE PublicationInv'
<1>1. /\ view \in Bundles /\ durable \in Bundles /\ staging \in [Txs -> Staged] /\ staging[t] \in Staged
      /\ view.fence \in Fences
  BY DEF PublicationInv, BundlesTyped, Bundles, StagesTyped
<1>2. PublishersTyped' /\ LockHeld' /\ \A q \in Txs : q # t => publisher[q] = "idle" /\ publisher'[q] = "idle"
  BY PublishAssumption DEF PublicationInv, F!FinishEmpty, PublishersTyped, PublisherSteps, Upto, Behind, Clean, LockHeld, F!Goto, F!Leave, F!Rest
<1>3. BundlesTyped'
  BY <1>1 DEF F!FinishEmpty, F!Bundle, BundlesTyped
<1>4. /\ StagesTyped' /\ StagesKept
  <2> DEFINE s == [staging[t] EXCEPT !.at = "gone"]
  <2>1. s \in Staged /\ s.given = staging[t].given /\ s.cap = staging[t].cap /\ s.journal = staging[t].journal /\ s.plan = staging[t].plan
    BY <1>1 DEF Staged
  <2>2. staging' = [staging EXCEPT ![t] = s] \/ staging' = staging
    BY <1>1 DEF F!FinishEmpty, F!Stage
  <2> HIDE DEF s
  <2>3. QED
    BY <1>1, <2>1, <2>2 DEF StagesTyped, StagesKept
<1>5. PlansTyped'
  BY DEF PublicationInv, F!FinishEmpty, F!Rest, PlansTyped
<1>6. /\ publisher'[t] = "idle"
      /\ view' = view /\ durable' = durable
      /\ reading' = reading
      /\ good' = good
  BY <1>1 DEF F!FinishEmpty, F!Goto, F!Leave, F!Rest, F!Bundle, PublicationInv, PublishersTyped
<1>7. CapsApart'
  BY <1>4, <1>6 DEF PublicationInv, CapsApart, StagesKept, F!Deletes, F!FinalLog
<1>8. FenceSettled'
  BY <1>6 DEF PublicationInv, FenceSettled
<1>9. FenceOwned'
  BY <1>1, FenceIs, <1>2, <1>6, PublishAssumption DEF PublicationInv, FenceOwned, FenceSettled, Upto,
       Behind, Clean, F!Fence, F!NoFence
<1>10. Withdrawn'
  BY <1>2, <1>6 DEF PublicationInv, Withdrawn, FenceOwned, FenceSettled, Upto, Behind, Clean, F!Fence,
       F!NoFence
<1>11. EvidenceFollows'
  BY <1>6 DEF PublicationInv, EvidenceFollows
<1>12. PlanFixed'
  BY <1>4, <1>2, <1>6 DEF PublicationInv, PlanFixed, Upto, Behind, Clean, StagesKept
<1>13. Progress'
  BY <1>1, <1>4, <1>2, <1>6 DEF PublicationInv, Progress, Upto, Behind, Clean, StagesKept, F!Deletes,
       F!FinalLog
<1>14. Committed'
  BY <1>4, <1>6 DEF PublicationInv, Committed, StagesKept, F!Deletes, F!FinalLog
<1>15. F!CommitIsDurable'
  BY <1>4, <1>6 DEF PublicationInv, F!CommitIsDurable, StagesKept, F!Deletes, F!FinalLog
<1>16. QED
  BY <1>2, <1>3, <1>4, <1>5, <1>6, <1>7, <1>8, <1>9, <1>10, <1>11, <1>12, <1>13, <1>14, <1>15
       DEF PublicationInv

LEMMA RejectOddKeeps ==
  ASSUME PublicationInv, NEW t \in Txs, F!RejectOdd(t) PROVE PublicationInv'
<1>1. /\ view \in Bundles /\ durable \in Bundles /\ staging \in [Txs -> Staged] /\ staging[t] \in Staged
      /\ view.fence \in Fences
  BY DEF PublicationInv, BundlesTyped, Bundles, StagesTyped
<1>2. PublishersTyped' /\ LockHeld' /\ \A q \in Txs : q # t => publisher[q] = "idle" /\ publisher'[q] = "idle"
  BY PublishAssumption DEF PublicationInv, F!RejectOdd, PublishersTyped, PublisherSteps, Upto, Behind, Clean, LockHeld, F!Goto, F!Leave, F!Rest
<1>3. BundlesTyped'
  BY <1>1 DEF F!RejectOdd, F!Bundle, BundlesTyped
<1>4. /\ StagesTyped' /\ StagesKept
  <2> DEFINE s == [staging[t] EXCEPT !.at = "quarantined"]
  <2>1. s \in Staged /\ s.given = staging[t].given /\ s.cap = staging[t].cap /\ s.journal = staging[t].journal /\ s.plan = staging[t].plan
    BY <1>1 DEF Staged
  <2>2. staging' = [staging EXCEPT ![t] = s] \/ staging' = staging
    BY <1>1 DEF F!RejectOdd, F!Stage
  <2> HIDE DEF s
  <2>3. QED
    BY <1>1, <2>1, <2>2 DEF StagesTyped, StagesKept
<1>5. PlansTyped'
  BY DEF PublicationInv, F!RejectOdd, F!Rest, PlansTyped
<1>6. /\ publisher'[t] = "idle"
      /\ view' = view /\ durable' = durable
      /\ reading' = reading
      /\ good' = good
  BY <1>1 DEF F!RejectOdd, F!Goto, F!Leave, F!Rest, F!Bundle, PublicationInv, PublishersTyped
<1>7. CapsApart'
  BY <1>4, <1>6 DEF PublicationInv, CapsApart, StagesKept, F!Deletes, F!FinalLog
<1>8. FenceSettled'
  BY <1>6 DEF PublicationInv, FenceSettled
<1>9. FenceOwned'
  BY <1>1, FenceIs, <1>2, <1>6, PublishAssumption DEF PublicationInv, FenceOwned, FenceSettled, Upto,
       Behind, Clean, F!Fence, F!NoFence
<1>10. Withdrawn'
  BY <1>2, <1>6 DEF PublicationInv, Withdrawn, FenceOwned, FenceSettled, Upto, Behind, Clean, F!Fence,
       F!NoFence
<1>11. EvidenceFollows'
  BY <1>6 DEF PublicationInv, EvidenceFollows
<1>12. PlanFixed'
  BY <1>4, <1>2, <1>6 DEF PublicationInv, PlanFixed, Upto, Behind, Clean, StagesKept
<1>13. Progress'
  BY <1>1, <1>4, <1>2, <1>6 DEF PublicationInv, Progress, Upto, Behind, Clean, StagesKept, F!Deletes,
       F!FinalLog
<1>14. Committed'
  BY <1>4, <1>6 DEF PublicationInv, Committed, StagesKept, F!Deletes, F!FinalLog
<1>15. F!CommitIsDurable'
  BY <1>4, <1>6 DEF PublicationInv, F!CommitIsDurable, StagesKept, F!Deletes, F!FinalLog
<1>16. QED
  BY <1>2, <1>3, <1>4, <1>5, <1>6, <1>7, <1>8, <1>9, <1>10, <1>11, <1>12, <1>13, <1>14, <1>15
       DEF PublicationInv

LEMMA PreflightKeeps ==
  ASSUME PublicationInv, NEW t \in Txs, F!Preflight(t) PROVE PublicationInv'
<1>1. /\ view \in Bundles /\ durable \in Bundles /\ staging \in [Txs -> Staged] /\ staging[t] \in Staged
      /\ view.fence \in Fences
  BY DEF PublicationInv, BundlesTyped, Bundles, StagesTyped
<1>2. PublishersTyped' /\ LockHeld' /\ \A q \in Txs : q # t => publisher[q] = "idle" /\ publisher'[q] = "idle"
  BY PublishAssumption DEF PublicationInv, F!Preflight, PublishersTyped, PublisherSteps, Upto, Behind, Clean, LockHeld, F!Goto, F!Leave, F!Rest
<1>3. BundlesTyped'
  BY <1>1 DEF F!Preflight, F!Bundle, BundlesTyped
<1>4. StagesTyped'
  BY <1>1 DEF F!Preflight, StagesTyped
<1>5. PlansTyped'
  <2>1. view.ev \in [Artifacts -> Owners] /\ view.log \in Seq(Owners) /\ staging[t].plan \in Plans
    BY <1>1 DEF Bundles, Staged
  <2>2. F!Planned(t) \in Plans
    BY <2>1 DEF F!Planned, F!Held, Plans
  <2>3. QED
    BY <2>2 DEF PublicationInv, F!Preflight, PlansTyped
<1>6. /\ publisher'[t] \in {"manifest", "idle"}
      /\ view' = view /\ durable' = durable
      /\ staging' = staging
      /\ good' = good
      /\ publisher'[t] = "manifest" =>
                    /\ staging[t].journal # "committed"
                    /\ view.fence.form \in {"none", "empty"} \/ (view.fence.form # "torn" /\ view.fence.owner = t)
                    /\ staging[t].journal = "prepared" => reading'[t] = staging[t].plan
  BY <1>1 DEF F!Preflight, F!Goto, F!Leave, F!Rest, F!Bundle, PublicationInv, PublishersTyped, PlansTyped, F!Planned,
       F!FencePasses, F!Emptied, Staged, Bundles, Fences
<1>7. CapsApart'
  BY <1>6 DEF PublicationInv, CapsApart, F!Deletes, F!FinalLog
<1>8. FenceSettled'
  BY <1>6 DEF PublicationInv, FenceSettled
<1>9. FenceOwned'
  BY <1>1, FenceIs, <1>2, <1>6, PublishAssumption DEF PublicationInv, FenceOwned, FenceSettled, Upto,
       Behind, Clean, F!Fence, F!NoFence
<1>10. Withdrawn'
  BY <1>2, <1>6 DEF PublicationInv, Withdrawn, FenceOwned, FenceSettled, Upto, Behind, Clean, F!Fence,
       F!NoFence
<1>11. EvidenceFollows'
  BY <1>6 DEF PublicationInv, EvidenceFollows
<1>12. PlanFixed'
  BY <1>2, <1>6 DEF PublicationInv, PlanFixed, Upto, Behind, Clean
<1>13. Progress'
  BY <1>1, <1>2, <1>6 DEF PublicationInv, Progress, Upto, Behind, Clean, F!Deletes, F!FinalLog
<1>14. Committed'
  BY <1>6 DEF PublicationInv, Committed
<1>15. F!CommitIsDurable'
  BY <1>6 DEF PublicationInv, F!CommitIsDurable, F!Deletes, F!FinalLog
<1>16. QED
  BY <1>2, <1>3, <1>4, <1>5, <1>6, <1>7, <1>8, <1>9, <1>10, <1>11, <1>12, <1>13, <1>14, <1>15
       DEF PublicationInv

LEMMA DropManifestKeeps ==
  ASSUME PublicationInv, NEW t \in Txs, F!DropManifest(t) PROVE PublicationInv'
<1>1. /\ view \in Bundles /\ durable \in Bundles /\ staging \in [Txs -> Staged] /\ staging[t] \in Staged
      /\ view.fence \in Fences
  BY DEF PublicationInv, BundlesTyped, Bundles, StagesTyped
<1>2. PublishersTyped' /\ LockHeld' /\ \A q \in Txs : q # t => publisher[q] = "idle" /\ publisher'[q] = "idle"
  BY PublishAssumption DEF PublicationInv, F!DropManifest, PublishersTyped, PublisherSteps, Upto, Behind, Clean, LockHeld, F!Goto, F!Leave, F!Rest
<1>3. BundlesTyped'
  BY <1>1, BundleUpdates DEF F!DropManifest, F!Sync, F!Write, F!Bundle, BundlesTyped, Staged, PublicationInv, PlansTyped
<1>4. StagesTyped'
  BY <1>1 DEF F!DropManifest, StagesTyped
<1>5. PlansTyped'
  BY DEF PublicationInv, F!DropManifest, F!Rest, PlansTyped
<1>6. /\ publisher[t] = "manifest"
      /\ publisher'[t] = "report"
      /\ SameEvidence(view', view)
      /\ SameFence(view', view)
      /\ view'.marker = view.marker
      /\ view'.manifest = FALSE
      /\ view'.report = view.report
      /\ durable' = view'
      /\ staging' = staging
      /\ reading' = reading
      /\ good' = good
  BY <1>1 DEF F!DropManifest, F!Goto, F!Leave, F!Rest, F!Sync, F!Write, F!Bundle, SameEvidence, SameFence,
       SameReports, PublicationInv, PublishersTyped, Bundles
<1>7. CapsApart'
  BY <1>6 DEF PublicationInv, CapsApart, F!Deletes, F!FinalLog
<1>8. FenceSettled'
  BY <1>3, <1>6, PublishAssumption DEF PublicationInv, FenceSettled, FenceOwned, Upto, Behind, Clean,
       SameFence, F!Fence, F!NoFence
<1>9. FenceOwned'
  BY <1>1, FenceIs, <1>2, <1>6, PublishAssumption DEF PublicationInv, FenceOwned, FenceSettled, Upto,
       Behind, Clean, SameFence, F!Fence, F!NoFence
<1>10. Withdrawn'
  BY <1>2, <1>6 DEF PublicationInv, Withdrawn, FenceOwned, FenceSettled, Upto, Behind, Clean, SameFence,
       SameReports, F!Fence, F!NoFence
<1>11. EvidenceFollows'
  BY <1>6 DEF PublicationInv, EvidenceFollows, FenceOwned, FenceSettled, Committed, PlanFixed, Upto,
       Behind, Clean, SameEvidence, SameFence, F!Fence, F!NoFence
<1>12. PlanFixed'
  BY <1>2, <1>6 DEF PublicationInv, PlanFixed, Upto, Behind, Clean, SameFence
<1>13. Progress'
  BY <1>1, <1>2, <1>6 DEF PublicationInv, Progress, Upto, Behind, Clean, SameEvidence, F!Deletes, F!FinalLog
<1>14. Committed'
  BY <1>6, PublishAssumption DEF PublicationInv, Committed, FenceOwned, FenceSettled, PlanFixed, Progress,
       EvidenceFollows, Upto, Behind, Clean, SameEvidence, SameFence, F!Fence, F!NoFence
<1>15. F!CommitIsDurable'
  BY <1>1, <1>6, PublishAssumption DEF PublicationInv, F!CommitIsDurable, FenceOwned, FenceSettled,
       PlanFixed, Progress, Committed, Upto, Behind, Clean, SameEvidence, SameFence, F!Fence,
       F!NoFence, F!Deletes, F!FinalLog
<1>16. QED
  BY <1>2, <1>3, <1>4, <1>5, <1>6, <1>7, <1>8, <1>9, <1>10, <1>11, <1>12, <1>13, <1>14, <1>15
       DEF PublicationInv

LEMMA DropReportKeeps ==
  ASSUME PublicationInv, NEW t \in Txs, F!DropReport(t) PROVE PublicationInv'
<1>1. /\ view \in Bundles /\ durable \in Bundles /\ staging \in [Txs -> Staged] /\ staging[t] \in Staged
      /\ view.fence \in Fences
  BY DEF PublicationInv, BundlesTyped, Bundles, StagesTyped
<1>2. PublishersTyped' /\ LockHeld' /\ \A q \in Txs : q # t => publisher[q] = "idle" /\ publisher'[q] = "idle"
  BY PublishAssumption DEF PublicationInv, F!DropReport, PublishersTyped, PublisherSteps, Upto, Behind, Clean, LockHeld, F!Goto, F!Leave, F!Rest
<1>3. BundlesTyped'
  BY <1>1, BundleUpdates DEF F!DropReport, F!Sync, F!Write, F!Bundle, BundlesTyped, Staged, PublicationInv, PlansTyped
<1>4. StagesTyped'
  BY <1>1 DEF F!DropReport, StagesTyped
<1>5. PlansTyped'
  BY DEF PublicationInv, F!DropReport, F!Rest, PlansTyped
<1>6. /\ publisher[t] = "report"
      /\ publisher'[t] = "marker"
      /\ SameEvidence(view', view)
      /\ SameFence(view', view)
      /\ view'.marker = view.marker
      /\ view'.manifest = view.manifest
      /\ view'.report = FALSE
      /\ durable' = view'
      /\ staging' = staging
      /\ reading' = reading
      /\ good' = good
  BY <1>1 DEF F!DropReport, F!Goto, F!Leave, F!Rest, F!Sync, F!Write, F!Bundle, SameEvidence, SameFence,
       SameReports, PublicationInv, PublishersTyped, Bundles
<1>7. CapsApart'
  BY <1>6 DEF PublicationInv, CapsApart, F!Deletes, F!FinalLog
<1>8. FenceSettled'
  BY <1>3, <1>6, PublishAssumption DEF PublicationInv, FenceSettled, FenceOwned, Upto, Behind, Clean,
       SameFence, F!Fence, F!NoFence
<1>9. FenceOwned'
  BY <1>1, FenceIs, <1>2, <1>6, PublishAssumption DEF PublicationInv, FenceOwned, FenceSettled, Upto,
       Behind, Clean, SameFence, F!Fence, F!NoFence
<1>10. Withdrawn'
  BY <1>2, <1>6 DEF PublicationInv, Withdrawn, FenceOwned, FenceSettled, Upto, Behind, Clean, SameFence,
       SameReports, F!Fence, F!NoFence
<1>11. EvidenceFollows'
  BY <1>6 DEF PublicationInv, EvidenceFollows, FenceOwned, FenceSettled, Committed, PlanFixed, Upto,
       Behind, Clean, SameEvidence, SameFence, F!Fence, F!NoFence
<1>12. PlanFixed'
  BY <1>2, <1>6 DEF PublicationInv, PlanFixed, Upto, Behind, Clean, SameFence
<1>13. Progress'
  BY <1>1, <1>2, <1>6 DEF PublicationInv, Progress, Upto, Behind, Clean, SameEvidence, F!Deletes, F!FinalLog
<1>14. Committed'
  BY <1>6, PublishAssumption DEF PublicationInv, Committed, FenceOwned, FenceSettled, PlanFixed, Progress,
       EvidenceFollows, Upto, Behind, Clean, SameEvidence, SameFence, F!Fence, F!NoFence
<1>15. F!CommitIsDurable'
  BY <1>1, <1>6, PublishAssumption DEF PublicationInv, F!CommitIsDurable, FenceOwned, FenceSettled,
       PlanFixed, Progress, Committed, Upto, Behind, Clean, SameEvidence, SameFence, F!Fence,
       F!NoFence, F!Deletes, F!FinalLog
<1>16. QED
  BY <1>2, <1>3, <1>4, <1>5, <1>6, <1>7, <1>8, <1>9, <1>10, <1>11, <1>12, <1>13, <1>14, <1>15
       DEF PublicationInv

LEMMA DropMarkerKeeps ==
  ASSUME PublicationInv, NEW t \in Txs, F!DropMarker(t) PROVE PublicationInv'
<1>1. /\ view \in Bundles /\ durable \in Bundles /\ staging \in [Txs -> Staged] /\ staging[t] \in Staged
      /\ view.fence \in Fences
  BY DEF PublicationInv, BundlesTyped, Bundles, StagesTyped
<1>2. PublishersTyped' /\ LockHeld' /\ \A q \in Txs : q # t => publisher[q] = "idle" /\ publisher'[q] = "idle"
  BY PublishAssumption DEF PublicationInv, F!DropMarker, PublishersTyped, PublisherSteps, Upto, Behind, Clean, LockHeld, F!Goto, F!Leave, F!Rest
<1>3. BundlesTyped'
  BY <1>1, BundleUpdates DEF F!DropMarker, F!Sync, F!Write, F!Bundle, BundlesTyped, Staged, PublicationInv, PlansTyped
<1>4. StagesTyped'
  BY <1>1 DEF F!DropMarker, StagesTyped
<1>5. PlansTyped'
  BY DEF PublicationInv, F!DropMarker, F!Rest, PlansTyped
<1>6. /\ publisher[t] = "marker"
      /\ publisher'[t] = "fence"
      /\ SameEvidence(view', view)
      /\ SameFence(view', view)
      /\ view'.marker = FALSE
      /\ view'.manifest = view.manifest
      /\ view'.report = view.report
      /\ durable' = view'
      /\ staging' = staging
      /\ reading' = reading
      /\ good' = good
  BY <1>1 DEF F!DropMarker, F!Goto, F!Leave, F!Rest, F!Sync, F!Write, F!Bundle, SameEvidence, SameFence,
       SameReports, PublicationInv, PublishersTyped, Bundles
<1>7. CapsApart'
  BY <1>6 DEF PublicationInv, CapsApart, F!Deletes, F!FinalLog
<1>8. FenceSettled'
  BY <1>3, <1>6, PublishAssumption DEF PublicationInv, FenceSettled, FenceOwned, Upto, Behind, Clean,
       SameFence, F!Fence, F!NoFence
<1>9. FenceOwned'
  BY <1>1, FenceIs, <1>2, <1>6, PublishAssumption DEF PublicationInv, FenceOwned, FenceSettled, Upto,
       Behind, Clean, SameFence, F!Fence, F!NoFence
<1>10. Withdrawn'
  BY <1>2, <1>6 DEF PublicationInv, Withdrawn, FenceOwned, FenceSettled, Upto, Behind, Clean, SameFence,
       SameReports, F!Fence, F!NoFence
<1>11. EvidenceFollows'
  BY <1>6 DEF PublicationInv, EvidenceFollows, FenceOwned, FenceSettled, Committed, PlanFixed, Upto,
       Behind, Clean, SameEvidence, SameFence, F!Fence, F!NoFence
<1>12. PlanFixed'
  BY <1>2, <1>6 DEF PublicationInv, PlanFixed, Upto, Behind, Clean, SameFence
<1>13. Progress'
  BY <1>1, <1>2, <1>6 DEF PublicationInv, Progress, Upto, Behind, Clean, SameEvidence, F!Deletes, F!FinalLog
<1>14. Committed'
  BY <1>6, PublishAssumption DEF PublicationInv, Committed, FenceOwned, FenceSettled, PlanFixed, Progress,
       EvidenceFollows, Upto, Behind, Clean, SameEvidence, SameFence, F!Fence, F!NoFence
<1>15. F!CommitIsDurable'
  BY <1>1, <1>6, PublishAssumption DEF PublicationInv, F!CommitIsDurable, FenceOwned, FenceSettled,
       PlanFixed, Progress, Committed, Upto, Behind, Clean, SameEvidence, SameFence, F!Fence,
       F!NoFence, F!Deletes, F!FinalLog
<1>16. QED
  BY <1>2, <1>3, <1>4, <1>5, <1>6, <1>7, <1>8, <1>9, <1>10, <1>11, <1>12, <1>13, <1>14, <1>15
       DEF PublicationInv

LEMMA MakeFenceKeeps ==
  ASSUME PublicationInv, NEW t \in Txs, F!MakeFence(t) PROVE PublicationInv'
<1>1. /\ view \in Bundles /\ durable \in Bundles /\ staging \in [Txs -> Staged] /\ staging[t] \in Staged
      /\ view.fence \in Fences
  BY DEF PublicationInv, BundlesTyped, Bundles, StagesTyped
<1>2. PublishersTyped' /\ LockHeld' /\ \A q \in Txs : q # t => publisher[q] = "idle" /\ publisher'[q] = "idle"
  BY PublishAssumption DEF PublicationInv, F!MakeFence, PublishersTyped, PublisherSteps, Upto, Behind, Clean, LockHeld, F!Goto, F!Leave, F!Rest
<1>3. BundlesTyped'
  <2>1. /\ [view EXCEPT !.fence = F!Fence("empty", None)] \in Bundles
        /\ [view EXCEPT !.fence = F!Fence("torn", t)] \in Bundles
        /\ [view EXCEPT !.fence = F!Fence("bound", t)] \in Bundles
    BY <1>1, BundleUpdates
  <2>2. view' \in Bundles /\ durable' \in Bundles
    BY <1>1, <2>1 DEF F!MakeFence, F!Sync, F!Write, F!Bundle
  <2>3. QED
    BY <2>2 DEF BundlesTyped
<1>4. StagesTyped'
  BY <1>1 DEF F!MakeFence, StagesTyped
<1>5. PlansTyped'
  BY DEF PublicationInv, F!MakeFence, F!Rest, PlansTyped
<1>6. /\ publisher[t] = "fence"
      /\ SameEvidence(view', view) /\ SameReports(view', view)
      /\ staging' = staging
      /\ reading' = reading
      /\ good' = good
      /\ \/ publisher'[t] = "fence" /\ view'.fence.form = "empty" /\ durable' = view' /\ view.fence.form = "none"
         \/ publisher'[t] = "bind" /\ view.fence.form = "empty" /\ view'.fence = F!Fence("torn", t) /\ durable' = durable
         \/ publisher'[t] = "fence" /\ view.fence.form = "pending" /\ view'.fence = F!Fence("bound", t) /\ durable' = view'
         \/ publisher'[t] = "journal" /\ view.fence.form = "bound" /\ view' = view /\ durable' = durable
  BY <1>1 DEF F!MakeFence, F!Goto, F!Leave, F!Rest, F!Sync, F!Write, F!Bundle, SameEvidence, SameFence,
       SameReports, PublicationInv, PublishersTyped, Bundles, F!Fence, F!NoFence
<1>7. CapsApart'
  BY <1>6 DEF PublicationInv, CapsApart, F!Deletes, F!FinalLog
<1>8. FenceSettled'
  BY <1>3, <1>6, PublishAssumption DEF PublicationInv, FenceSettled, FenceOwned, Upto, Behind, Clean,
       SameFence, F!Fence, F!NoFence
<1>9. FenceOwned'
  <2>1. /\ publisher'[t] \in Upto \union Clean /\ view'.fence.form \in {"bound", "pending"} => view'.fence.owner = t
        /\ publisher'[t] \in (Upto \ {"bind"}) \union Clean => view'.fence.form # "torn"
    BY <1>6 DEF PublicationInv, FenceOwned, Upto, Behind, Clean, F!Fence
  <2>2. /\ publisher'[t] \in Behind \union {"journal"} => view'.fence = F!Fence("bound", t)
        /\ publisher'[t] = "bind" => view'.fence.form = "torn"
        /\ publisher'[t] \in {"journal-out", "stage-out"} => view'.fence = F!NoFence
    BY <1>1, <1>6, FenceIs DEF PublicationInv, FenceOwned, Upto, Behind, Clean, F!Fence
  <2>3. QED
    BY <1>2, <2>1, <2>2 DEF FenceOwned, Upto, Behind, Clean
<1>10. Withdrawn'
  BY <1>2, <1>6 DEF PublicationInv, Withdrawn, FenceOwned, FenceSettled, Upto, Behind, Clean, SameFence,
       SameReports, F!Fence, F!NoFence
<1>11. EvidenceFollows'
  BY <1>6 DEF PublicationInv, EvidenceFollows, FenceOwned, FenceSettled, Committed, PlanFixed, Upto,
       Behind, Clean, SameEvidence, SameFence, F!Fence, F!NoFence
<1>12. PlanFixed'
  BY <1>2, <1>6 DEF PublicationInv, PlanFixed, Upto, Behind, Clean, SameFence
<1>13. Progress'
  BY <1>1, <1>2, <1>6 DEF PublicationInv, Progress, Upto, Behind, Clean, SameEvidence, F!Deletes, F!FinalLog
<1>14. Committed'
  BY <1>6, PublishAssumption DEF PublicationInv, Committed, FenceOwned, FenceSettled, PlanFixed, Progress,
       EvidenceFollows, Upto, Behind, Clean, SameEvidence, SameFence, F!Fence, F!NoFence
<1>15. F!CommitIsDurable'
  BY <1>1, <1>6, PublishAssumption DEF PublicationInv, F!CommitIsDurable, FenceOwned, FenceSettled,
       PlanFixed, Progress, Committed, Upto, Behind, Clean, SameEvidence, SameFence, F!Fence,
       F!NoFence, F!Deletes, F!FinalLog
<1>16. QED
  BY <1>2, <1>3, <1>4, <1>5, <1>6, <1>7, <1>8, <1>9, <1>10, <1>11, <1>12, <1>13, <1>14, <1>15
       DEF PublicationInv

LEMMA WriteBindingKeeps ==
  ASSUME PublicationInv, NEW t \in Txs, F!WriteBinding(t) PROVE PublicationInv'
<1>1. /\ view \in Bundles /\ durable \in Bundles /\ staging \in [Txs -> Staged] /\ staging[t] \in Staged
      /\ view.fence \in Fences
  BY DEF PublicationInv, BundlesTyped, Bundles, StagesTyped
<1>2. PublishersTyped' /\ LockHeld' /\ \A q \in Txs : q # t => publisher[q] = "idle" /\ publisher'[q] = "idle"
  BY PublishAssumption DEF PublicationInv, F!WriteBinding, PublishersTyped, PublisherSteps, Upto, Behind, Clean, LockHeld, F!Goto, F!Leave, F!Rest
<1>3. BundlesTyped'
  BY <1>1, BundleUpdates DEF F!WriteBinding, F!Sync, F!Write, F!Bundle, BundlesTyped, Staged, PublicationInv, PlansTyped
<1>4. StagesTyped'
  BY <1>1 DEF F!WriteBinding, StagesTyped
<1>5. PlansTyped'
  BY DEF PublicationInv, F!WriteBinding, F!Rest, PlansTyped
<1>6. /\ publisher[t] = "bind"
      /\ publisher'[t] = "fence"
      /\ SameEvidence(view', view)
      /\ view'.fence = F!Fence("pending", t)
      /\ SameReports(view', view)
      /\ durable' = view'
      /\ staging' = staging
      /\ reading' = reading
      /\ good' = good
  BY <1>1 DEF F!WriteBinding, F!Goto, F!Leave, F!Rest, F!Sync, F!Write, F!Bundle, SameEvidence, SameFence,
       SameReports, PublicationInv, PublishersTyped, Bundles
<1>7. CapsApart'
  BY <1>6 DEF PublicationInv, CapsApart, F!Deletes, F!FinalLog
<1>8. FenceSettled'
  BY <1>3, <1>6, PublishAssumption DEF PublicationInv, FenceSettled, FenceOwned, Upto, Behind, Clean,
       SameFence, F!Fence, F!NoFence
<1>9. FenceOwned'
  <2>1. /\ publisher'[t] \in Upto \union Clean /\ view'.fence.form \in {"bound", "pending"} => view'.fence.owner = t
        /\ publisher'[t] \in (Upto \ {"bind"}) \union Clean => view'.fence.form # "torn"
    BY <1>6 DEF Upto, Clean, F!Fence
  <2>2. /\ publisher'[t] \in Behind \union {"journal"} => view'.fence = F!Fence("bound", t)
        /\ publisher'[t] = "bind" => view'.fence.form = "torn"
        /\ publisher'[t] \in {"journal-out", "stage-out"} => view'.fence = F!NoFence
    BY <1>6 DEF Behind
  <2>3. QED
    BY <1>2, <2>1, <2>2 DEF FenceOwned, Upto, Behind, Clean
<1>10. Withdrawn'
  BY <1>2, <1>6 DEF PublicationInv, Withdrawn, FenceOwned, FenceSettled, Upto, Behind, Clean, SameFence,
       SameReports, F!Fence, F!NoFence
<1>11. EvidenceFollows'
  BY <1>6 DEF PublicationInv, EvidenceFollows, FenceOwned, FenceSettled, Committed, PlanFixed, Upto,
       Behind, Clean, SameEvidence, SameFence, F!Fence, F!NoFence
<1>12. PlanFixed'
  BY <1>2, <1>6 DEF PublicationInv, PlanFixed, Upto, Behind, Clean, SameFence
<1>13. Progress'
  BY <1>1, <1>2, <1>6 DEF PublicationInv, Progress, Upto, Behind, Clean, SameEvidence, F!Deletes, F!FinalLog
<1>14. Committed'
  BY <1>6, PublishAssumption DEF PublicationInv, Committed, FenceOwned, FenceSettled, PlanFixed, Progress,
       EvidenceFollows, Upto, Behind, Clean, SameEvidence, SameFence, F!Fence, F!NoFence
<1>15. F!CommitIsDurable'
  BY <1>1, <1>6, PublishAssumption DEF PublicationInv, F!CommitIsDurable, FenceOwned, FenceSettled,
       PlanFixed, Progress, Committed, Upto, Behind, Clean, SameEvidence, SameFence, F!Fence,
       F!NoFence, F!Deletes, F!FinalLog
<1>16. QED
  BY <1>2, <1>3, <1>4, <1>5, <1>6, <1>7, <1>8, <1>9, <1>10, <1>11, <1>12, <1>13, <1>14, <1>15
       DEF PublicationInv

LEMMA PrepareKeeps ==
  ASSUME PublicationInv, NEW t \in Txs, F!Prepare(t) PROVE PublicationInv'
<1>1. /\ view \in Bundles /\ durable \in Bundles /\ staging \in [Txs -> Staged] /\ staging[t] \in Staged
      /\ view.fence \in Fences
  BY DEF PublicationInv, BundlesTyped, Bundles, StagesTyped
<1>2. PublishersTyped' /\ LockHeld' /\ \A q \in Txs : q # t => publisher[q] = "idle" /\ publisher'[q] = "idle"
  BY PublishAssumption DEF PublicationInv, F!Prepare, PublishersTyped, PublisherSteps, Upto, Behind, Clean, LockHeld, F!Goto, F!Leave, F!Rest
<1>own. /\ view.fence = F!Fence("bound", t) /\ view.fence.form = "bound" /\ view.fence.owner = t
      /\ staging[t].journal # "committed"
  BY DEF PublicationInv, F!Prepare, FenceOwned, PlanFixed, Behind, F!Fence
<1>3. BundlesTyped'
  BY <1>1 DEF F!Prepare, F!Bundle, BundlesTyped
<1>4. /\ StagesTyped' /\ OrdersKept(t)
      /\ \/ staging'[t].journal = "prepared" /\ staging'[t].plan = reading[t]
         \/ staging'[t] = staging[t] /\ staging[t].journal # "none"
  <2> DEFINE s == [staging[t] EXCEPT !.journal = "prepared", !.plan = reading[t]]
  <2>1. s \in Staged /\ s.given = staging[t].given /\ s.cap = staging[t].cap /\ s.journal = "prepared" /\ s.plan = reading[t]
    BY <1>1 DEF PublicationInv, PlansTyped, Staged
  <2>2. staging' = [staging EXCEPT ![t] = s] \/ (staging' = staging /\ staging[t].journal # "none")
    <3> DEFINE r == IF staging[t].journal = "none" THEN s ELSE staging[t]
    <3>1. staging' = [staging EXCEPT ![t] = r]
      BY DEF F!Prepare, F!Stage
    <3>2. r = s \/ (r = staging[t] /\ staging[t].journal # "none")
      OBVIOUS
    <3> HIDE DEF s, r
    <3>3. CASE r = s
      BY <3>1, <3>3
    <3>4. CASE r = staging[t] /\ staging[t].journal # "none"
      BY <1>1, <3>1, <3>4
    <3>5. QED
      BY <3>2, <3>3, <3>4
  <2> HIDE DEF s
  <2>3. QED
    BY <1>1, <2>1, <2>2 DEF StagesTyped, OrdersKept
<1>5. PlansTyped'
  BY DEF PublicationInv, F!Prepare, F!Rest, PlansTyped
<1>6. /\ publisher[t] = "journal"
      /\ publisher'[t] = "candidates"
      /\ view' = view /\ durable' = durable
      /\ reading' = reading
      /\ good' = good
  BY <1>1 DEF F!Prepare, F!Goto, F!Leave, F!Rest, F!Bundle, PublicationInv, PublishersTyped
<1>7. CapsApart'
  BY <1>4, <1>6 DEF PublicationInv, CapsApart, OrdersKept, F!Deletes
<1>8. FenceSettled'
  BY <1>6 DEF PublicationInv, FenceSettled
<1>9. FenceOwned'
  BY <1>own, <1>1, FenceIs, <1>2, <1>6, PublishAssumption DEF PublicationInv, FenceOwned, FenceSettled,
       Upto, Behind, Clean, F!Fence, F!NoFence
<1>10. Withdrawn'
  BY <1>2, <1>6 DEF PublicationInv, Withdrawn, FenceSettled, Upto, Behind, Clean, F!Fence, F!NoFence
<1>11. EvidenceFollows'
  BY <1>6 DEF PublicationInv, EvidenceFollows
<1>12. PlanFixed'
  BY <1>own, <1>1, <1>2, <1>4, <1>6 DEF PublicationInv, PlanFixed, OrdersKept, Upto, Behind, Clean, Staged
<1>13. Progress'
  BY <1>1, <1>4, <1>2, <1>6 DEF PublicationInv, Progress, Upto, Behind, Clean, OrdersKept, F!Deletes,
       F!FinalLog
<1>14. Committed'
  BY <1>own, <1>4, <1>6, PublishAssumption DEF PublicationInv, Committed, FenceSettled, PlanFixed,
       Progress, EvidenceFollows, Upto, Behind, Clean, OrdersKept, F!Fence, F!NoFence
<1>15. F!CommitIsDurable'
  BY <1>own, <1>1, <1>4, <1>6, PublishAssumption DEF PublicationInv, F!CommitIsDurable, FenceSettled,
       PlanFixed, Progress, Committed, Upto, Behind, Clean, OrdersKept, F!Fence, F!NoFence, F!Deletes,
       F!FinalLog
<1>16. QED
  BY <1>2, <1>3, <1>4, <1>5, <1>6, <1>7, <1>8, <1>9, <1>10, <1>11, <1>12, <1>13, <1>14, <1>15
       DEF PublicationInv

LEMMA CopyCandidatesKeeps ==
  ASSUME PublicationInv, NEW t \in Txs, F!CopyCandidates(t) PROVE PublicationInv'
<1>1. /\ view \in Bundles /\ durable \in Bundles /\ staging \in [Txs -> Staged] /\ staging[t] \in Staged
      /\ view.fence \in Fences
  BY DEF PublicationInv, BundlesTyped, Bundles, StagesTyped
<1>2. PublishersTyped' /\ LockHeld' /\ \A q \in Txs : q # t => publisher[q] = "idle" /\ publisher'[q] = "idle"
  <2>1. publisher[t] = "candidates" /\ lock' = lock /\ \E l \in {"candidates", "deletes"} : publisher' = [publisher EXCEPT ![t] = l]
    BY DEF F!CopyCandidates, F!Goto, F!Rest
  <2>2. QED
    BY <2>1, PublishAssumption DEF PublicationInv, PublishersTyped, PublisherSteps, Upto, Behind, Clean, LockHeld
<1>own. /\ view.fence = F!Fence("bound", t) /\ view.fence.form = "bound" /\ view.fence.owner = t
      /\ staging[t].journal # "committed"
  BY DEF PublicationInv, F!CopyCandidates, FenceOwned, PlanFixed, Behind, F!Fence
<1>3. BundlesTyped'
  <2>1. \A c \in staging[t].src \union {"log"} : [view EXCEPT !.cand = @ \union {c}] \in Bundles
    BY <1>1, BundleUpdates DEF Staged
  <2>2. view' \in Bundles /\ durable' \in Bundles
    BY <1>1, <2>1 DEF F!CopyCandidates, F!Sync, F!Write, F!Bundle
  <2>3. QED
    BY <2>2 DEF BundlesTyped
<1>4. StagesTyped'
  BY <1>1 DEF F!CopyCandidates, StagesTyped
<1>5. PlansTyped'
  BY DEF PublicationInv, F!CopyCandidates, F!Rest, PlansTyped
<1>6. /\ publisher[t] = "candidates"
      /\ publisher'[t] \in {"candidates", "deletes"}
      /\ SameEvidence(view', view)
      /\ SameFence(view', view)
      /\ SameReports(view', view)
      /\ durable' = durable
      /\ staging' = staging
      /\ reading' = reading
      /\ good' = good
  BY <1>1 DEF F!CopyCandidates, F!Goto, F!Leave, F!Rest, F!Sync, F!Write, F!Bundle, SameEvidence, SameFence,
       SameReports, PublicationInv, PublishersTyped, Bundles
<1>7. CapsApart'
  BY <1>6 DEF PublicationInv, CapsApart, F!Deletes, F!FinalLog
<1>8. FenceSettled'
  BY <1>own, <1>3, <1>6, PublishAssumption DEF PublicationInv, FenceSettled, Upto, Behind, Clean,
       SameFence, F!Fence, F!NoFence
<1>9. FenceOwned'
  BY <1>own, <1>1, FenceIs, <1>2, <1>6, PublishAssumption DEF PublicationInv, FenceOwned, FenceSettled,
       Upto, Behind, Clean, SameFence, F!Fence, F!NoFence
<1>10. Withdrawn'
  BY <1>2, <1>6 DEF PublicationInv, Withdrawn, FenceSettled, Upto, Behind, Clean, SameFence, SameReports,
       F!Fence, F!NoFence
<1>11. EvidenceFollows'
  BY <1>own, <1>6 DEF PublicationInv, EvidenceFollows, FenceSettled, Committed, PlanFixed, Upto, Behind,
       Clean, SameEvidence, SameFence, F!Fence, F!NoFence
<1>12. PlanFixed'
  BY <1>2, <1>6 DEF PublicationInv, PlanFixed, Upto, Behind, Clean, SameFence
<1>13. Progress'
  BY <1>1, <1>2, <1>6 DEF PublicationInv, Progress, Upto, Behind, Clean, SameEvidence, F!Deletes, F!FinalLog
<1>14. Committed'
  BY <1>own, <1>6, PublishAssumption DEF PublicationInv, Committed, FenceSettled, PlanFixed, Progress,
       EvidenceFollows, Upto, Behind, Clean, SameEvidence, SameFence, F!Fence, F!NoFence
<1>15. F!CommitIsDurable'
  BY <1>own, <1>1, <1>6, PublishAssumption DEF PublicationInv, F!CommitIsDurable, FenceSettled, PlanFixed,
       Progress, Committed, Upto, Behind, Clean, SameEvidence, SameFence, F!Fence, F!NoFence,
       F!Deletes, F!FinalLog
<1>16. QED
  BY <1>2, <1>3, <1>4, <1>5, <1>6, <1>7, <1>8, <1>9, <1>10, <1>11, <1>12, <1>13, <1>14, <1>15
       DEF PublicationInv

LEMMA DeleteStaleKeeps ==
  ASSUME PublicationInv, NEW t \in Txs, F!DeleteStale(t) PROVE PublicationInv'
<1>1. /\ view \in Bundles /\ durable \in Bundles /\ staging \in [Txs -> Staged] /\ staging[t] \in Staged
      /\ view.fence \in Fences
  BY DEF PublicationInv, BundlesTyped, Bundles, StagesTyped
<1>2. PublishersTyped' /\ LockHeld' /\ \A q \in Txs : q # t => publisher[q] = "idle" /\ publisher'[q] = "idle"
  <2>1. publisher[t] = "deletes" /\ lock' = lock /\ \E l \in {"install", "deletes"} : publisher' = [publisher EXCEPT ![t] = l]
    BY DEF F!DeleteStale, F!Goto, F!Rest
  <2>2. QED
    BY <2>1, PublishAssumption DEF PublicationInv, PublishersTyped, PublisherSteps, Upto, Behind, Clean, LockHeld
<1>own. /\ view.fence = F!Fence("bound", t) /\ view.fence.form = "bound" /\ view.fence.owner = t
      /\ staging[t].journal # "committed"
  BY DEF PublicationInv, F!DeleteStale, FenceOwned, PlanFixed, Behind, F!Fence
<1>3. BundlesTyped'
  <2>1. \A a \in F!Deletes(t) : [view EXCEPT !.ev[a] = None] \in Bundles
    BY <1>1, BundleUpdates, PublishAssumption DEF F!Deletes
  <2>2. view' \in Bundles /\ durable' \in Bundles
    BY <1>1, <2>1 DEF F!DeleteStale, F!Sync, F!Write, F!Bundle
  <2>3. QED
    BY <2>2 DEF BundlesTyped
<1>4. StagesTyped'
  BY <1>1 DEF F!DeleteStale, StagesTyped
<1>5. PlansTyped'
  BY DEF PublicationInv, F!DeleteStale, F!Rest, PlansTyped
<1>6. /\ publisher[t] = "deletes"
      /\ SameFence(view', view) /\ SameReports(view', view) /\ view'.log = view.log
      /\ durable' = durable
      /\ staging' = staging
      /\ reading' = reading
      /\ good' = good
      /\ \/ publisher'[t] = "install" /\ view' = view /\ \A a \in F!Deletes(t) : view.ev[a] = None
         \/ publisher'[t] = "deletes"
  BY <1>1 DEF F!DeleteStale, F!Goto, F!Leave, F!Rest, F!Sync, F!Write, F!Bundle, SameEvidence, SameFence,
       SameReports, PublicationInv, PublishersTyped, Bundles, F!Deletes
<1>7. CapsApart'
  BY <1>6 DEF PublicationInv, CapsApart, F!Deletes, F!FinalLog
<1>8. FenceSettled'
  BY <1>own, <1>3, <1>6, PublishAssumption DEF PublicationInv, FenceSettled, Upto, Behind, Clean,
       SameFence, F!Fence, F!NoFence
<1>9. FenceOwned'
  BY <1>own, <1>1, FenceIs, <1>2, <1>6, PublishAssumption DEF PublicationInv, FenceOwned, FenceSettled,
       Upto, Behind, Clean, SameFence, F!Fence, F!NoFence
<1>10. Withdrawn'
  BY <1>2, <1>6 DEF PublicationInv, Withdrawn, FenceSettled, Upto, Behind, Clean, SameFence, SameReports,
       F!Fence, F!NoFence
<1>11. EvidenceFollows'
  BY <1>own, <1>6 DEF PublicationInv, EvidenceFollows, FenceSettled, Committed, PlanFixed, Upto, Behind,
       Clean, SameEvidence, SameFence, F!Fence, F!NoFence
<1>12. PlanFixed'
  BY <1>2, <1>6 DEF PublicationInv, PlanFixed, Upto, Behind, Clean, SameFence
<1>13. Progress'
  BY <1>1, <1>2, <1>6 DEF PublicationInv, Progress, Upto, Behind, Clean, SameEvidence, F!Deletes, F!FinalLog
<1>14. Committed'
  BY <1>own, <1>6, PublishAssumption DEF PublicationInv, Committed, FenceSettled, PlanFixed, Progress,
       EvidenceFollows, Upto, Behind, Clean, SameEvidence, SameFence, F!Fence, F!NoFence
<1>15. F!CommitIsDurable'
  BY <1>own, <1>1, <1>6, PublishAssumption DEF PublicationInv, F!CommitIsDurable, FenceSettled, PlanFixed,
       Progress, Committed, Upto, Behind, Clean, SameEvidence, SameFence, F!Fence, F!NoFence,
       F!Deletes, F!FinalLog
<1>16. QED
  BY <1>2, <1>3, <1>4, <1>5, <1>6, <1>7, <1>8, <1>9, <1>10, <1>11, <1>12, <1>13, <1>14, <1>15
       DEF PublicationInv

LEMMA InstallKeeps ==
  ASSUME PublicationInv, NEW t \in Txs, F!Install(t) PROVE PublicationInv'
<1>1. /\ view \in Bundles /\ durable \in Bundles /\ staging \in [Txs -> Staged] /\ staging[t] \in Staged
      /\ view.fence \in Fences
  BY DEF PublicationInv, BundlesTyped, Bundles, StagesTyped
<1>2. PublishersTyped' /\ LockHeld' /\ \A q \in Txs : q # t => publisher[q] = "idle" /\ publisher'[q] = "idle"
  BY PublishAssumption DEF PublicationInv, F!Install, PublishersTyped, PublisherSteps, Upto, Behind, Clean, LockHeld, F!Goto, F!Leave, F!Rest
<1>own. /\ view.fence = F!Fence("bound", t) /\ view.fence.form = "bound" /\ view.fence.owner = t
      /\ staging[t].journal # "committed" /\ \A a \in F!Deletes(t) : view.ev[a] = None /\ a \notin staging[t].given
  <2>1. publisher[t] = "install"
    BY DEF F!Install
  <2>2. \A a \in F!Deletes(t) : view.ev[a] = None /\ a \notin staging[t].given
    BY <2>1 DEF PublicationInv, Progress, CapsApart, Behind
  <2>3. QED
    BY <2>1, <2>2 DEF PublicationInv, FenceOwned, PlanFixed, Behind, F!Fence
<1>3. BundlesTyped'
  <2>1. \A a \in staging[t].given : [view EXCEPT !.ev[a] = t, !.cand = @ \ {a}] \in Bundles
    BY <1>1, BundleUpdates DEF Staged
  <2>2. view' \in Bundles /\ durable' \in Bundles
    BY <1>1, <2>1 DEF F!Install, F!Sync, F!Write, F!Bundle
  <2>3. QED
    BY <2>2 DEF BundlesTyped
<1>4. StagesTyped'
  BY <1>1 DEF F!Install, StagesTyped
<1>5. PlansTyped'
  BY DEF PublicationInv, F!Install, F!Rest, PlansTyped
<1>6. /\ publisher[t] = "install"
      /\ SameFence(view', view) /\ SameReports(view', view) /\ view'.log = view.log
      /\ durable' = durable
      /\ staging' = staging
      /\ reading' = reading
      /\ good' = good
      /\ \A a \in F!Deletes(t) : view'.ev[a] = None
      /\ \/ publisher'[t] = "log" /\ view' = view /\ \A a \in staging[t].given : view.ev[a] = t
         \/ publisher'[t] = "installed"
  <2> DEFINE left == {a \in staging[t].given : view.ev[a] # t}
  <2>1. CASE left = {}
    BY <1>own, <2>1 DEF F!Install, F!Goto, F!Rest, F!Bundle, SameFence, SameReports, PublicationInv, PublishersTyped
  <2>2. CASE left # {}
    <3>1. PICK a \in left : view' = [view EXCEPT !.ev[a] = t, !.cand = @ \ {a}]
      BY <2>2 DEF F!Install, F!Write
    <3>2. /\ view'.fence = view.fence /\ view'.marker = view.marker /\ view'.manifest = view.manifest
          /\ view'.report = view.report /\ view'.log = view.log
          /\ \A b \in Artifacts \ {a} : view'.ev[b] = view.ev[b]
      BY <1>1, <3>1 DEF Bundles
    <3>3. \A b \in F!Deletes(t) : view'.ev[b] = None
      BY <1>own, <3>1, <3>2, PublishAssumption DEF F!Deletes
    <3>4. QED
      BY <2>2, <3>2, <3>3 DEF F!Install, F!Goto, F!Rest, F!Write, SameFence, SameReports, PublicationInv, PublishersTyped
  <2>3. QED
    BY <2>1, <2>2
<1>7. CapsApart'
  BY <1>6 DEF PublicationInv, CapsApart, F!Deletes, F!FinalLog
<1>8. FenceSettled'
  BY <1>own, <1>3, <1>6, PublishAssumption DEF PublicationInv, FenceSettled, Upto, Behind, Clean,
       SameFence, F!Fence, F!NoFence
<1>9. FenceOwned'
  BY <1>own, <1>1, FenceIs, <1>2, <1>6, PublishAssumption DEF PublicationInv, FenceOwned, FenceSettled,
       Upto, Behind, Clean, SameFence, F!Fence, F!NoFence
<1>10. Withdrawn'
  BY <1>2, <1>6 DEF PublicationInv, Withdrawn, FenceSettled, Upto, Behind, Clean, SameFence, SameReports,
       F!Fence, F!NoFence
<1>11. EvidenceFollows'
  BY <1>own, <1>6 DEF PublicationInv, EvidenceFollows, FenceSettled, Committed, PlanFixed, Upto, Behind,
       Clean, SameEvidence, SameFence, F!Fence, F!NoFence
<1>12. PlanFixed'
  BY <1>2, <1>6 DEF PublicationInv, PlanFixed, Upto, Behind, Clean, SameFence
<1>13. Progress'
  BY <1>1, <1>2, <1>6 DEF PublicationInv, Progress, Upto, Behind, Clean, SameEvidence, F!Deletes, F!FinalLog
<1>14. Committed'
  BY <1>own, <1>6, PublishAssumption DEF PublicationInv, Committed, FenceSettled, PlanFixed, Progress,
       EvidenceFollows, Upto, Behind, Clean, SameEvidence, SameFence, F!Fence, F!NoFence
<1>15. F!CommitIsDurable'
  BY <1>own, <1>1, <1>6, PublishAssumption DEF PublicationInv, F!CommitIsDurable, FenceSettled, PlanFixed,
       Progress, Committed, Upto, Behind, Clean, SameEvidence, SameFence, F!Fence, F!NoFence,
       F!Deletes, F!FinalLog
<1>16. QED
  BY <1>2, <1>3, <1>4, <1>5, <1>6, <1>7, <1>8, <1>9, <1>10, <1>11, <1>12, <1>13, <1>14, <1>15
       DEF PublicationInv

LEMMA InstallLogKeeps ==
  ASSUME PublicationInv, NEW t \in Txs, F!InstallLog(t) PROVE PublicationInv'
<1>1. /\ view \in Bundles /\ durable \in Bundles /\ staging \in [Txs -> Staged] /\ staging[t] \in Staged
      /\ view.fence \in Fences
  BY DEF PublicationInv, BundlesTyped, Bundles, StagesTyped
<1>2. PublishersTyped' /\ LockHeld' /\ \A q \in Txs : q # t => publisher[q] = "idle" /\ publisher'[q] = "idle"
  BY PublishAssumption DEF PublicationInv, F!InstallLog, PublishersTyped, PublisherSteps, Upto, Behind, Clean, LockHeld, F!Goto, F!Leave, F!Rest
<1>own. /\ view.fence = F!Fence("bound", t) /\ view.fence.form = "bound" /\ view.fence.owner = t
      /\ staging[t].journal # "committed"
  BY DEF PublicationInv, F!InstallLog, FenceOwned, PlanFixed, Behind, F!Fence
<1>3. BundlesTyped'
  <2>1. [view EXCEPT !.log = F!FinalLog(t, reading[t]), !.cand = @ \ {"log"}] \in Bundles
    BY <1>1, BundleUpdates DEF PublicationInv, PlansTyped
  <2>2. view' \in Bundles /\ durable' \in Bundles
    BY <1>1, <2>1 DEF F!InstallLog, F!Sync, F!Write, F!Bundle
  <2>3. QED
    BY <2>2 DEF BundlesTyped
<1>4. StagesTyped'
  BY <1>1 DEF F!InstallLog, StagesTyped
<1>5. PlansTyped'
  BY DEF PublicationInv, F!InstallLog, F!Rest, PlansTyped
<1>6. /\ publisher[t] = "log"
      /\ SameFence(view', view) /\ SameReports(view', view) /\ view'.ev = view.ev
      /\ durable' = durable
      /\ staging' = staging
      /\ reading' = reading
      /\ good' = good
      /\ publisher'[t] \in {"installed-log", "settle"}
      /\ view'.log = F!FinalLog(t, reading[t])
  BY ZenonT(60), <1>1 DEF F!InstallLog, F!Goto, F!Leave, F!Rest, F!Sync, F!Write, F!Bundle, SameEvidence, SameFence,
       SameReports, PublicationInv, PublishersTyped, Bundles
<1>7. CapsApart'
  BY <1>6 DEF PublicationInv, CapsApart, F!Deletes, F!FinalLog
<1>8. FenceSettled'
  BY <1>own, <1>3, <1>6, PublishAssumption DEF PublicationInv, FenceSettled, Upto, Behind, Clean,
       SameFence, F!Fence, F!NoFence
<1>9. FenceOwned'
  BY <1>own, <1>1, FenceIs, <1>2, <1>6, PublishAssumption DEF PublicationInv, FenceOwned, FenceSettled,
       Upto, Behind, Clean, SameFence, F!Fence, F!NoFence
<1>10. Withdrawn'
  BY <1>2, <1>6 DEF PublicationInv, Withdrawn, FenceSettled, Upto, Behind, Clean, SameFence, SameReports,
       F!Fence, F!NoFence
<1>11. EvidenceFollows'
  BY <1>own, <1>6 DEF PublicationInv, EvidenceFollows, FenceSettled, Committed, PlanFixed, Upto, Behind,
       Clean, SameEvidence, SameFence, F!Fence, F!NoFence
<1>12. PlanFixed'
  BY <1>2, <1>6 DEF PublicationInv, PlanFixed, Upto, Behind, Clean, SameFence
<1>13. Progress'
  BY <1>1, <1>2, <1>6 DEF PublicationInv, Progress, Upto, Behind, Clean, SameEvidence, F!Deletes, F!FinalLog
<1>14. Committed'
  BY <1>own, <1>6, PublishAssumption DEF PublicationInv, Committed, FenceSettled, PlanFixed, Progress,
       EvidenceFollows, Upto, Behind, Clean, SameEvidence, SameFence, F!Fence, F!NoFence
<1>15. F!CommitIsDurable'
  BY <1>own, <1>1, <1>6, PublishAssumption DEF PublicationInv, F!CommitIsDurable, FenceSettled, PlanFixed,
       Progress, Committed, Upto, Behind, Clean, SameEvidence, SameFence, F!Fence, F!NoFence,
       F!Deletes, F!FinalLog
<1>16. QED
  BY <1>2, <1>3, <1>4, <1>5, <1>6, <1>7, <1>8, <1>9, <1>10, <1>11, <1>12, <1>13, <1>14, <1>15
       DEF PublicationInv

LEMMA FlushKeeps ==
  ASSUME PublicationInv, NEW t \in Txs, F!Flush(t) PROVE PublicationInv'
<1>1. /\ view \in Bundles /\ durable \in Bundles /\ staging \in [Txs -> Staged] /\ staging[t] \in Staged
      /\ view.fence \in Fences
  BY DEF PublicationInv, BundlesTyped, Bundles, StagesTyped
<1>2. PublishersTyped' /\ LockHeld' /\ \A q \in Txs : q # t => publisher[q] = "idle" /\ publisher'[q] = "idle"
  BY PublishAssumption DEF PublicationInv, F!Flush, PublishersTyped, PublisherSteps, Upto, Behind, Clean, LockHeld, F!Goto, F!Leave, F!Rest
<1>own. /\ view.fence = F!Fence("bound", t) /\ view.fence.form = "bound" /\ view.fence.owner = t
      /\ staging[t].journal # "committed"
  BY DEF PublicationInv, F!Flush, FenceOwned, PlanFixed, Behind, F!Fence
<1>3. BundlesTyped'
  BY <1>1, BundleUpdates DEF F!Flush, F!Sync, F!Write, F!Bundle, BundlesTyped, Staged, PublicationInv, PlansTyped
<1>4. StagesTyped'
  BY <1>1 DEF F!Flush, StagesTyped
<1>5. PlansTyped'
  BY DEF PublicationInv, F!Flush, F!Rest, PlansTyped
<1>6. /\ view' = view
      /\ durable' = view
      /\ staging' = staging
      /\ reading' = reading
      /\ good' = good
      /\ \/ publisher[t] = "installed" /\ publisher'[t] = "install"
         \/ publisher[t] = "installed-log" /\ publisher'[t] = "settle"
  BY <1>1 DEF F!Flush, F!Goto, F!Leave, F!Rest, F!Sync, F!Write, F!Bundle, SameEvidence, SameFence,
       SameReports, PublicationInv, PublishersTyped, Bundles
<1>7. CapsApart'
  BY <1>6 DEF PublicationInv, CapsApart, F!Deletes, F!FinalLog
<1>8. FenceSettled'
  BY <1>own, <1>3, <1>6, PublishAssumption DEF PublicationInv, FenceSettled, Upto, Behind, Clean,
       SameFence, F!Fence, F!NoFence
<1>9. FenceOwned'
  BY <1>own, <1>1, FenceIs, <1>2, <1>6, PublishAssumption DEF PublicationInv, FenceOwned, FenceSettled,
       Upto, Behind, Clean, SameFence, F!Fence, F!NoFence
<1>10. Withdrawn'
  BY <1>2, <1>6 DEF PublicationInv, Withdrawn, FenceSettled, Upto, Behind, Clean, SameFence, SameReports,
       F!Fence, F!NoFence
<1>11. EvidenceFollows'
  BY <1>own, <1>6 DEF PublicationInv, EvidenceFollows, FenceSettled, Committed, PlanFixed, Upto, Behind,
       Clean, SameEvidence, SameFence, F!Fence, F!NoFence
<1>12. PlanFixed'
  BY <1>2, <1>6 DEF PublicationInv, PlanFixed, Upto, Behind, Clean, SameFence
<1>13. Progress'
  BY <1>1, <1>2, <1>6 DEF PublicationInv, Progress, Upto, Behind, Clean, SameEvidence, F!Deletes, F!FinalLog
<1>14. Committed'
  BY <1>own, <1>6, PublishAssumption DEF PublicationInv, Committed, FenceSettled, PlanFixed, Progress,
       EvidenceFollows, Upto, Behind, Clean, SameEvidence, SameFence, F!Fence, F!NoFence
<1>15. F!CommitIsDurable'
  BY <1>own, <1>1, <1>6, PublishAssumption DEF PublicationInv, F!CommitIsDurable, FenceSettled, PlanFixed,
       Progress, Committed, Upto, Behind, Clean, SameEvidence, SameFence, F!Fence, F!NoFence,
       F!Deletes, F!FinalLog
<1>16. QED
  BY <1>2, <1>3, <1>4, <1>5, <1>6, <1>7, <1>8, <1>9, <1>10, <1>11, <1>12, <1>13, <1>14, <1>15
       DEF PublicationInv

LEMMA SettleKeeps ==
  ASSUME PublicationInv, NEW t \in Txs, F!Settle(t) PROVE PublicationInv'
<1>1. /\ view \in Bundles /\ durable \in Bundles /\ staging \in [Txs -> Staged] /\ staging[t] \in Staged
      /\ view.fence \in Fences
  BY DEF PublicationInv, BundlesTyped, Bundles, StagesTyped
<1>2. PublishersTyped' /\ LockHeld' /\ \A q \in Txs : q # t => publisher[q] = "idle" /\ publisher'[q] = "idle"
  BY PublishAssumption DEF PublicationInv, F!Settle, PublishersTyped, PublisherSteps, Upto, Behind, Clean, LockHeld, F!Goto, F!Leave, F!Rest
<1>own. /\ view.fence = F!Fence("bound", t) /\ view.fence.form = "bound" /\ view.fence.owner = t
      /\ staging[t].journal # "committed"
  BY DEF PublicationInv, F!Settle, FenceOwned, PlanFixed, Behind, F!Fence
<1>3. BundlesTyped'
  BY <1>1, BundleUpdates DEF F!Settle, F!Sync, F!Write, F!Bundle, BundlesTyped, Staged, PublicationInv, PlansTyped
<1>4. StagesTyped'
  BY <1>1 DEF F!Settle, StagesTyped
<1>5. PlansTyped'
  BY DEF PublicationInv, F!Settle, F!Rest, PlansTyped
<1>6. /\ publisher[t] = "settle"
      /\ publisher'[t] = "commit"
      /\ view' = view
      /\ durable' = view
      /\ staging' = staging
      /\ reading' = reading
      /\ good' = good
  BY <1>1 DEF F!Settle, F!Goto, F!Leave, F!Rest, F!Sync, F!Write, F!Bundle, SameEvidence, SameFence,
       SameReports, PublicationInv, PublishersTyped, Bundles
<1>7. CapsApart'
  BY <1>6 DEF PublicationInv, CapsApart, F!Deletes, F!FinalLog
<1>8. FenceSettled'
  BY <1>own, <1>3, <1>6, PublishAssumption DEF PublicationInv, FenceSettled, Upto, Behind, Clean,
       SameFence, F!Fence, F!NoFence
<1>9. FenceOwned'
  BY <1>own, <1>1, FenceIs, <1>2, <1>6, PublishAssumption DEF PublicationInv, FenceOwned, FenceSettled,
       Upto, Behind, Clean, SameFence, F!Fence, F!NoFence
<1>10. Withdrawn'
  BY <1>2, <1>6 DEF PublicationInv, Withdrawn, FenceSettled, Upto, Behind, Clean, SameFence, SameReports,
       F!Fence, F!NoFence
<1>11. EvidenceFollows'
  BY <1>own, <1>6 DEF PublicationInv, EvidenceFollows, FenceSettled, Committed, PlanFixed, Upto, Behind,
       Clean, SameEvidence, SameFence, F!Fence, F!NoFence
<1>12. PlanFixed'
  BY <1>2, <1>6 DEF PublicationInv, PlanFixed, Upto, Behind, Clean, SameFence
<1>13. Progress'
  BY <1>1, <1>2, <1>6 DEF PublicationInv, Progress, Upto, Behind, Clean, SameEvidence, F!Deletes, F!FinalLog
<1>14. Committed'
  BY <1>own, <1>6, PublishAssumption DEF PublicationInv, Committed, FenceSettled, PlanFixed, Progress,
       EvidenceFollows, Upto, Behind, Clean, SameEvidence, SameFence, F!Fence, F!NoFence
<1>15. F!CommitIsDurable'
  BY <1>own, <1>1, <1>6, PublishAssumption DEF PublicationInv, F!CommitIsDurable, FenceSettled, PlanFixed,
       Progress, Committed, Upto, Behind, Clean, SameEvidence, SameFence, F!Fence, F!NoFence,
       F!Deletes, F!FinalLog
<1>16. QED
  BY <1>2, <1>3, <1>4, <1>5, <1>6, <1>7, <1>8, <1>9, <1>10, <1>11, <1>12, <1>13, <1>14, <1>15
       DEF PublicationInv

LEMMA CommitKeeps ==
  ASSUME PublicationInv, NEW t \in Txs, F!Commit(t) PROVE PublicationInv'
<1>1. /\ view \in Bundles /\ durable \in Bundles /\ staging \in [Txs -> Staged] /\ staging[t] \in Staged
      /\ view.fence \in Fences
  BY DEF PublicationInv, BundlesTyped, Bundles, StagesTyped
<1>2. PublishersTyped' /\ LockHeld' /\ \A q \in Txs : q # t => publisher[q] = "idle" /\ publisher'[q] = "idle"
  BY PublishAssumption DEF PublicationInv, F!Commit, PublishersTyped, PublisherSteps, Upto, Behind, Clean, LockHeld, F!Goto, F!Leave, F!Rest
<1>own. /\ view.fence = F!Fence("bound", t) /\ view.fence.form = "bound" /\ view.fence.owner = t
      /\ staging[t].journal # "committed"
  BY DEF PublicationInv, F!Commit, FenceOwned, PlanFixed, Behind, F!Fence
<1>3. BundlesTyped'
  BY <1>1 DEF F!Commit, F!Bundle, BundlesTyped
<1>4. /\ StagesTyped' /\ OrdersKept(t)
      /\ staging'[t].journal = "committed" /\ staging'[t].plan = staging[t].plan
  <2> DEFINE s == [staging[t] EXCEPT !.journal = "committed"]
  <2>1. s \in Staged /\ s.given = staging[t].given /\ s.cap = staging[t].cap /\ s.journal = "committed" /\ s.plan = staging[t].plan
    BY <1>1 DEF Staged
  <2>2. staging' = [staging EXCEPT ![t] = s]
    BY <1>1 DEF F!Commit, F!Stage
  <2> HIDE DEF s
  <2>3. QED
    BY <1>1, <2>1, <2>2 DEF StagesTyped, OrdersKept
<1>5. PlansTyped'
  BY DEF PublicationInv, F!Commit, F!Rest, PlansTyped
<1>6. /\ publisher[t] = "commit"
      /\ publisher'[t] = "cleanup"
      /\ view' = view /\ durable' = durable
      /\ reading' = reading
      /\ good'.ev = view.ev
  BY <1>1 DEF F!Commit, F!Goto, F!Leave, F!Rest, F!Bundle, PublicationInv, PublishersTyped
<1>7. CapsApart'
  BY <1>4, <1>6 DEF PublicationInv, CapsApart, OrdersKept, F!Deletes
<1>8. FenceSettled'
  BY <1>6 DEF PublicationInv, FenceSettled
<1>9. FenceOwned'
  BY <1>own, <1>1, FenceIs, <1>2, <1>6, PublishAssumption DEF PublicationInv, FenceOwned, FenceSettled,
       Upto, Behind, Clean, F!Fence, F!NoFence
<1>10. Withdrawn'
  BY <1>2, <1>6 DEF PublicationInv, Withdrawn, FenceSettled, Upto, Behind, Clean, F!Fence, F!NoFence
<1>11. EvidenceFollows'
  BY <1>own, <1>6 DEF PublicationInv, EvidenceFollows, FenceSettled, Committed, PlanFixed, Upto, Behind,
       Clean, F!Fence, F!NoFence
<1>12. PlanFixed'
  BY <1>4, <1>2, <1>6 DEF PublicationInv, PlanFixed, Upto, Behind, Clean, OrdersKept
<1>13. Progress'
  BY <1>1, <1>4, <1>2, <1>6 DEF PublicationInv, Progress, Upto, Behind, Clean, OrdersKept, F!Deletes,
       F!FinalLog
<1>14. Committed'
  BY <1>own, <1>4, <1>6, PublishAssumption DEF PublicationInv, Committed, FenceSettled, PlanFixed,
       Progress, EvidenceFollows, Upto, Behind, Clean, OrdersKept, F!Fence, F!NoFence
<1>15. F!CommitIsDurable'
  <2>1. /\ \A a \in staging[t].given : durable.ev[a] = t
        /\ \A a \in F!Deletes(t) : durable.ev[a] = None
        /\ durable.log = F!FinalLog(t, reading[t]) /\ reading[t] = staging[t].plan
    BY <1>6 DEF PublicationInv, Progress, PlanFixed, Behind, Clean
  <2>2. \A q \in Txs : view'.fence = F!Fence("bound", q) => q = t
    BY <1>own, <1>6 DEF F!Fence
  <2>3. QED
    BY <1>4, <1>6, <2>1, <2>2 DEF F!CommitIsDurable, OrdersKept, F!Deletes, F!FinalLog
<1>16. QED
  BY <1>2, <1>3, <1>4, <1>5, <1>6, <1>7, <1>8, <1>9, <1>10, <1>11, <1>12, <1>13, <1>14, <1>15
       DEF PublicationInv

LEMMA AdoptKeeps ==
  ASSUME PublicationInv, NEW t \in Txs, F!Adopt(t) PROVE PublicationInv'
<1>1. /\ view \in Bundles /\ durable \in Bundles /\ staging \in [Txs -> Staged] /\ staging[t] \in Staged
      /\ view.fence \in Fences
  BY DEF PublicationInv, BundlesTyped, Bundles, StagesTyped
<1>2. PublishersTyped' /\ LockHeld' /\ \A q \in Txs : q # t => publisher[q] = "idle" /\ publisher'[q] = "idle"
  BY PublishAssumption DEF PublicationInv, F!Adopt, PublishersTyped, PublisherSteps, Upto, Behind, Clean, LockHeld, F!Goto, F!Leave, F!Rest
<1>3. BundlesTyped'
  BY <1>1 DEF F!Adopt, F!Bundle, BundlesTyped
<1>4. StagesTyped'
  BY <1>1 DEF F!Adopt, StagesTyped
<1>5. PlansTyped'
  BY DEF PublicationInv, F!Adopt, F!Rest, PlansTyped
<1>6. /\ publisher[t] = "check"
      /\ publisher'[t] \in {"cleanup", "idle"}
      /\ view' = view /\ durable' = durable
      /\ staging' = staging
      /\ reading' = reading
      /\ good' = good
      /\ publisher'[t] = "cleanup" => staging[t].journal = "committed" /\ (view.fence.form \in {"none", "empty"} \/ view.fence = F!Fence("bound", t))
  BY <1>1 DEF F!Adopt, F!Goto, F!Leave, F!Rest, F!Bundle, PublicationInv, PublishersTyped, F!Fence
<1>7. CapsApart'
  BY <1>6 DEF PublicationInv, CapsApart, F!Deletes, F!FinalLog
<1>8. FenceSettled'
  BY <1>6 DEF PublicationInv, FenceSettled
<1>9. FenceOwned'
  <2>1. /\ publisher'[t] \in Upto \union Clean /\ view'.fence.form \in {"bound", "pending"} => view'.fence.owner = t
        /\ publisher'[t] \in (Upto \ {"bind"}) \union Clean => view'.fence.form # "torn"
    BY <1>6 DEF Upto, Clean, F!Fence
  <2>2. /\ publisher'[t] \in Behind \union {"journal"} => view'.fence = F!Fence("bound", t)
        /\ publisher'[t] = "bind" => view'.fence.form = "torn"
        /\ publisher'[t] \in {"journal-out", "stage-out"} => view'.fence = F!NoFence
    BY <1>6 DEF Behind
  <2>3. QED
    BY <1>2, <2>1, <2>2 DEF FenceOwned, Upto, Behind, Clean
<1>10. Withdrawn'
  BY <1>2, <1>6 DEF PublicationInv, Withdrawn, FenceOwned, FenceSettled, Upto, Behind, Clean, F!Fence,
       F!NoFence
<1>11. EvidenceFollows'
  BY <1>6 DEF PublicationInv, EvidenceFollows
<1>12. PlanFixed'
  BY <1>2, <1>6 DEF PublicationInv, PlanFixed, Upto, Behind, Clean
<1>13. Progress'
  BY <1>1, <1>2, <1>6 DEF PublicationInv, Progress, Upto, Behind, Clean, F!Deletes, F!FinalLog
<1>14. Committed'
  BY <1>6 DEF PublicationInv, Committed
<1>15. F!CommitIsDurable'
  BY <1>6 DEF PublicationInv, F!CommitIsDurable, F!Deletes, F!FinalLog
<1>16. QED
  BY <1>2, <1>3, <1>4, <1>5, <1>6, <1>7, <1>8, <1>9, <1>10, <1>11, <1>12, <1>13, <1>14, <1>15
       DEF PublicationInv

LEMMA CleanSourcesKeeps ==
  ASSUME PublicationInv, NEW t \in Txs, F!CleanSources(t) PROVE PublicationInv'
<1>1. /\ view \in Bundles /\ durable \in Bundles /\ staging \in [Txs -> Staged] /\ staging[t] \in Staged
      /\ view.fence \in Fences
  BY DEF PublicationInv, BundlesTyped, Bundles, StagesTyped
<1>2. PublishersTyped' /\ LockHeld' /\ \A q \in Txs : q # t => publisher[q] = "idle" /\ publisher'[q] = "idle"
  BY PublishAssumption DEF PublicationInv, F!CleanSources, PublishersTyped, PublisherSteps, Upto, Behind, Clean, LockHeld, F!Goto, F!Leave, F!Rest
<1>3. BundlesTyped'
  BY <1>1 DEF F!CleanSources, F!Bundle, BundlesTyped
<1>4. StagesTyped' /\ StagesKept
  <2>1. PICK s \in Staged : /\ staging' = [staging EXCEPT ![t] = s] /\ s.given = staging[t].given
                           /\ s.cap = staging[t].cap /\ s.journal = staging[t].journal /\ s.plan = staging[t].plan
    <3>1. CASE staging[t].src # {}
      <4>1. PICK a \in staging[t].src : staging' = [staging EXCEPT ![t] = [staging[t] EXCEPT !.src = @ \ {a}]]
        BY <3>1 DEF F!CleanSources, F!Stage
      <4>2. LET s == [staging[t] EXCEPT !.src = @ \ {a}]
            IN  /\ s \in Staged /\ s.given = staging[t].given /\ s.cap = staging[t].cap
                /\ s.journal = staging[t].journal /\ s.plan = staging[t].plan
        BY <1>1, SourceUpdates
      <4>3. QED
        BY <4>1, <4>2
    <3>2. CASE staging[t].src = {}
      <4>1. staging' = [staging EXCEPT ![t] = [staging[t] EXCEPT !.log = FALSE, !.control = FALSE]]
        BY <3>2 DEF F!CleanSources, F!Stage
      <4>2. QED
        BY <1>1, <4>1, SourceUpdates
    <3>3. QED
      BY <3>1, <3>2
  <2>2. QED
    BY <1>1, <2>1 DEF StagesTyped, StagesKept
<1>5. PlansTyped'
  BY DEF PublicationInv, F!CleanSources, F!Rest, PlansTyped
<1>6. /\ publisher[t] = "cleanup"
      /\ publisher'[t] \in {"cleanup", "leftovers"}
      /\ view' = view /\ durable' = durable
      /\ reading' = reading
      /\ good' = good
  BY <1>1 DEF F!CleanSources, F!Goto, F!Leave, F!Rest, F!Bundle, PublicationInv, PublishersTyped
<1>7. CapsApart'
  BY <1>4, <1>6 DEF PublicationInv, CapsApart, StagesKept, F!Deletes, F!FinalLog
<1>8. FenceSettled'
  BY <1>6 DEF PublicationInv, FenceSettled
<1>9. FenceOwned'
  <2>1. /\ publisher'[t] \in Upto \union Clean /\ view'.fence.form \in {"bound", "pending"} => view'.fence.owner = t
        /\ publisher'[t] \in (Upto \ {"bind"}) \union Clean => view'.fence.form # "torn"
    BY <1>6 DEF PublicationInv, FenceOwned, Upto, Clean
  <2>2. /\ publisher'[t] \in Behind \union {"journal"} => view'.fence = F!Fence("bound", t)
        /\ publisher'[t] = "bind" => view'.fence.form = "torn"
        /\ publisher'[t] \in {"journal-out", "stage-out"} => view'.fence = F!NoFence
    BY <1>6 DEF Behind
  <2>3. QED
    BY <1>2, <2>1, <2>2 DEF FenceOwned, Upto, Behind, Clean
<1>10. Withdrawn'
  BY <1>2, <1>6 DEF PublicationInv, Withdrawn, FenceOwned, FenceSettled, Upto, Behind, Clean, F!Fence,
       F!NoFence
<1>11. EvidenceFollows'
  BY <1>6 DEF PublicationInv, EvidenceFollows
<1>12. PlanFixed'
  BY <1>4, <1>2, <1>6 DEF PublicationInv, PlanFixed, Upto, Behind, Clean, StagesKept
<1>13. Progress'
  BY <1>1, <1>4, <1>2, <1>6 DEF PublicationInv, Progress, Upto, Behind, Clean, StagesKept, F!Deletes,
       F!FinalLog
<1>14. Committed'
  BY <1>4, <1>6 DEF PublicationInv, Committed, StagesKept, F!Deletes, F!FinalLog
<1>15. F!CommitIsDurable'
  BY <1>4, <1>6 DEF PublicationInv, F!CommitIsDurable, StagesKept, F!Deletes, F!FinalLog
<1>16. QED
  BY <1>2, <1>3, <1>4, <1>5, <1>6, <1>7, <1>8, <1>9, <1>10, <1>11, <1>12, <1>13, <1>14, <1>15
       DEF PublicationInv

LEMMA CleanCandidatesKeeps ==
  ASSUME PublicationInv, NEW t \in Txs, F!CleanCandidates(t) PROVE PublicationInv'
<1>1. /\ view \in Bundles /\ durable \in Bundles /\ staging \in [Txs -> Staged] /\ staging[t] \in Staged
      /\ view.fence \in Fences
  BY DEF PublicationInv, BundlesTyped, Bundles, StagesTyped
<1>2. PublishersTyped' /\ LockHeld' /\ \A q \in Txs : q # t => publisher[q] = "idle" /\ publisher'[q] = "idle"
  BY PublishAssumption DEF PublicationInv, F!CleanCandidates, PublishersTyped, PublisherSteps, Upto, Behind, Clean, LockHeld, F!Goto, F!Leave, F!Rest
<1>3. BundlesTyped'
  BY <1>1, BundleUpdates DEF F!CleanCandidates, F!Sync, F!Write, F!Bundle, BundlesTyped, Staged, PublicationInv, PlansTyped
<1>4. StagesTyped'
  BY <1>1 DEF F!CleanCandidates, StagesTyped
<1>5. PlansTyped'
  BY DEF PublicationInv, F!CleanCandidates, F!Rest, PlansTyped
<1>6. /\ publisher[t] = "leftovers"
      /\ publisher'[t] = "unfence"
      /\ SameEvidence(view', view)
      /\ SameFence(view', view)
      /\ SameReports(view', view)
      /\ durable' = view'
      /\ staging' = staging
      /\ reading' = reading
      /\ good' = good
  BY <1>1 DEF F!CleanCandidates, F!Goto, F!Leave, F!Rest, F!Sync, F!Write, F!Bundle, SameEvidence, SameFence,
       SameReports, PublicationInv, PublishersTyped, Bundles
<1>7. CapsApart'
  BY <1>6 DEF PublicationInv, CapsApart, F!Deletes, F!FinalLog
<1>8. FenceSettled'
  BY <1>3, <1>6, PublishAssumption DEF PublicationInv, FenceSettled, FenceOwned, Upto, Behind, Clean,
       SameFence, F!Fence, F!NoFence
<1>9. FenceOwned'
  BY <1>1, FenceIs, <1>2, <1>6, PublishAssumption DEF PublicationInv, FenceOwned, FenceSettled, Upto,
       Behind, Clean, SameFence, F!Fence, F!NoFence
<1>10. Withdrawn'
  BY <1>2, <1>6 DEF PublicationInv, Withdrawn, FenceOwned, FenceSettled, Upto, Behind, Clean, SameFence,
       SameReports, F!Fence, F!NoFence
<1>11. EvidenceFollows'
  BY <1>6 DEF PublicationInv, EvidenceFollows, FenceOwned, FenceSettled, Committed, PlanFixed, Upto,
       Behind, Clean, SameEvidence, SameFence, F!Fence, F!NoFence
<1>12. PlanFixed'
  BY <1>2, <1>6 DEF PublicationInv, PlanFixed, Upto, Behind, Clean, SameFence
<1>13. Progress'
  BY <1>1, <1>2, <1>6 DEF PublicationInv, Progress, Upto, Behind, Clean, SameEvidence, F!Deletes, F!FinalLog
<1>14. Committed'
  BY <1>6, PublishAssumption DEF PublicationInv, Committed, FenceOwned, FenceSettled, PlanFixed, Progress,
       EvidenceFollows, Upto, Behind, Clean, SameEvidence, SameFence, F!Fence, F!NoFence
<1>15. F!CommitIsDurable'
  BY <1>1, <1>6, PublishAssumption DEF PublicationInv, F!CommitIsDurable, FenceOwned, FenceSettled,
       PlanFixed, Progress, Committed, Upto, Behind, Clean, SameEvidence, SameFence, F!Fence,
       F!NoFence, F!Deletes, F!FinalLog
<1>16. QED
  BY <1>2, <1>3, <1>4, <1>5, <1>6, <1>7, <1>8, <1>9, <1>10, <1>11, <1>12, <1>13, <1>14, <1>15
       DEF PublicationInv

LEMMA LowerFenceKeeps ==
  ASSUME PublicationInv, NEW t \in Txs, F!LowerFence(t) PROVE PublicationInv'
<1>1. /\ view \in Bundles /\ durable \in Bundles /\ staging \in [Txs -> Staged] /\ staging[t] \in Staged
      /\ view.fence \in Fences
  BY DEF PublicationInv, BundlesTyped, Bundles, StagesTyped
<1>2. PublishersTyped' /\ LockHeld' /\ \A q \in Txs : q # t => publisher[q] = "idle" /\ publisher'[q] = "idle"
  BY PublishAssumption DEF PublicationInv, F!LowerFence, PublishersTyped, PublisherSteps, Upto, Behind, Clean, LockHeld, F!Goto, F!Leave, F!Rest
<1>3. BundlesTyped'
  <2>1. /\ [view EXCEPT !.fence = F!Fence("empty", None)] \in Bundles
        /\ [view EXCEPT !.fence = F!NoFence] \in Bundles
    BY <1>1, BundleUpdates
  <2>2. view' \in Bundles /\ durable' \in Bundles
    BY <1>1, <2>1 DEF F!LowerFence, F!Sync, F!Write, F!Bundle
  <2>3. QED
    BY <2>2 DEF BundlesTyped
<1>4. StagesTyped'
  BY <1>1 DEF F!LowerFence, StagesTyped
<1>5. PlansTyped'
  BY DEF PublicationInv, F!LowerFence, F!Rest, PlansTyped
<1>6. /\ publisher[t] = "unfence"
      /\ SameEvidence(view', view) /\ SameReports(view', view)
      /\ staging' = staging
      /\ reading' = reading
      /\ good' = good
      /\ \/ publisher'[t] = "journal-out" /\ view' = view /\ durable' = durable /\ view.fence.form = "none"
         \/ publisher'[t] = "journal-out" /\ view'.fence = F!NoFence /\ durable' = view'
         \/ publisher'[t] = "unfence" /\ view'.fence = F!Fence("empty", None) /\ durable' = view'
  BY SMTT(30), <1>1 DEF F!LowerFence, F!Goto, F!Leave, F!Rest, F!Sync, F!Write, F!Bundle, SameEvidence, SameFence,
       SameReports, PublicationInv, PublishersTyped, Bundles, F!Fence, F!NoFence
<1>7. CapsApart'
  BY <1>6 DEF PublicationInv, CapsApart, F!Deletes, F!FinalLog
<1>8. FenceSettled'
  BY <1>3, <1>6, PublishAssumption DEF PublicationInv, FenceSettled, FenceOwned, Upto, Behind, Clean,
       SameFence, F!Fence, F!NoFence
<1>9. FenceOwned'
  <2>1. /\ publisher'[t] \in Upto \union Clean /\ view'.fence.form \in {"bound", "pending"} => view'.fence.owner = t
        /\ publisher'[t] \in (Upto \ {"bind"}) \union Clean => view'.fence.form # "torn"
    BY <1>6 DEF Upto, Clean, F!Fence, F!NoFence
  <2>2. /\ publisher'[t] \in Behind \union {"journal"} => view'.fence = F!Fence("bound", t)
        /\ publisher'[t] = "bind" => view'.fence.form = "torn"
        /\ publisher'[t] \in {"journal-out", "stage-out"} => view'.fence = F!NoFence
    BY <1>6 DEF PublicationInv, FenceSettled, Behind, F!Fence, F!NoFence
  <2>3. QED
    BY <1>2, <2>1, <2>2 DEF FenceOwned, Upto, Behind, Clean
<1>10. Withdrawn'
  BY <1>2, <1>6 DEF PublicationInv, Withdrawn, FenceOwned, FenceSettled, Upto, Behind, Clean, SameFence,
       SameReports, F!Fence, F!NoFence
<1>11. EvidenceFollows'
  BY <1>1, <1>6, FenceIs DEF PublicationInv, EvidenceFollows, Committed, PlanFixed, FenceOwned, SameEvidence, Clean, F!Fence, F!NoFence
<1>12. PlanFixed'
  BY <1>2, <1>6 DEF PublicationInv, PlanFixed, Upto, Behind, Clean, SameFence
<1>13. Progress'
  BY <1>1, <1>2, <1>6 DEF PublicationInv, Progress, Upto, Behind, Clean, SameEvidence, F!Deletes, F!FinalLog
<1>14. Committed'
  BY <1>6, PublishAssumption DEF PublicationInv, Committed, FenceOwned, FenceSettled, PlanFixed, Progress,
       EvidenceFollows, Upto, Behind, Clean, SameEvidence, SameFence, F!Fence, F!NoFence
<1>15. F!CommitIsDurable'
  BY <1>1, <1>6, PublishAssumption DEF PublicationInv, F!CommitIsDurable, FenceOwned, FenceSettled,
       PlanFixed, Progress, Committed, Upto, Behind, Clean, SameEvidence, SameFence, F!Fence,
       F!NoFence, F!Deletes, F!FinalLog
<1>16. QED
  BY <1>2, <1>3, <1>4, <1>5, <1>6, <1>7, <1>8, <1>9, <1>10, <1>11, <1>12, <1>13, <1>14, <1>15
       DEF PublicationInv

LEMMA RemoveJournalKeeps ==
  ASSUME PublicationInv, NEW t \in Txs, F!RemoveJournal(t) PROVE PublicationInv'
<1>1. /\ view \in Bundles /\ durable \in Bundles /\ staging \in [Txs -> Staged] /\ staging[t] \in Staged
      /\ view.fence \in Fences
  BY DEF PublicationInv, BundlesTyped, Bundles, StagesTyped
<1>2. PublishersTyped' /\ LockHeld' /\ \A q \in Txs : q # t => publisher[q] = "idle" /\ publisher'[q] = "idle"
  BY PublishAssumption DEF PublicationInv, F!RemoveJournal, PublishersTyped, PublisherSteps, Upto, Behind, Clean, LockHeld, F!Goto, F!Leave, F!Rest
<1>3. BundlesTyped'
  BY <1>1 DEF F!RemoveJournal, F!Bundle, BundlesTyped
<1>4. /\ StagesTyped' /\ OrdersKept(t)
      /\ staging'[t].journal = "none"
  <2> DEFINE s == [staging[t] EXCEPT !.journal = "none"]
  <2>1. s \in Staged /\ s.given = staging[t].given /\ s.cap = staging[t].cap /\ s.journal = "none"
    BY <1>1 DEF Staged
  <2>2. staging' = [staging EXCEPT ![t] = s]
    BY <1>1 DEF F!RemoveJournal, F!Stage
  <2> HIDE DEF s
  <2>3. QED
    BY <1>1, <2>1, <2>2 DEF StagesTyped, OrdersKept
<1>5. PlansTyped'
  BY DEF PublicationInv, F!RemoveJournal, F!Rest, PlansTyped
<1>6. /\ publisher[t] = "journal-out"
      /\ publisher'[t] = "stage-out"
      /\ view' = view /\ durable' = durable
      /\ reading' = reading
      /\ good' = good
  BY <1>1 DEF F!RemoveJournal, F!Goto, F!Leave, F!Rest, F!Bundle, PublicationInv, PublishersTyped
<1>7. CapsApart'
  BY <1>4, <1>6 DEF PublicationInv, CapsApart, OrdersKept, F!Deletes
<1>8. FenceSettled'
  BY <1>6 DEF PublicationInv, FenceSettled
<1>9. FenceOwned'
  BY <1>1, FenceIs, <1>2, <1>6, PublishAssumption DEF PublicationInv, FenceOwned, FenceSettled, Upto,
       Behind, Clean, F!Fence, F!NoFence
<1>10. Withdrawn'
  BY <1>2, <1>6 DEF PublicationInv, Withdrawn, FenceOwned, FenceSettled, Upto, Behind, Clean, F!Fence,
       F!NoFence
<1>11. EvidenceFollows'
  BY <1>6 DEF PublicationInv, EvidenceFollows
<1>12. PlanFixed'
  BY <1>4, <1>2, <1>6 DEF PublicationInv, PlanFixed, Upto, Behind, Clean, OrdersKept
<1>13. Progress'
  BY <1>1, <1>4, <1>2, <1>6 DEF PublicationInv, Progress, Upto, Behind, Clean, OrdersKept, F!Deletes,
       F!FinalLog
<1>14. Committed'
  BY <1>4, <1>6, PublishAssumption DEF PublicationInv, Committed, FenceOwned, FenceSettled, PlanFixed,
       Progress, EvidenceFollows, Upto, Behind, Clean, OrdersKept, F!Fence, F!NoFence
<1>15. F!CommitIsDurable'
  <2>1. view'.fence = F!NoFence
    BY <1>6 DEF PublicationInv, FenceOwned
  <2>2. QED
    BY <2>1 DEF F!CommitIsDurable, F!NoFence, F!Fence
<1>16. QED
  BY <1>2, <1>3, <1>4, <1>5, <1>6, <1>7, <1>8, <1>9, <1>10, <1>11, <1>12, <1>13, <1>14, <1>15
       DEF PublicationInv

LEMMA RemoveStageKeeps ==
  ASSUME PublicationInv, NEW t \in Txs, F!RemoveStage(t) PROVE PublicationInv'
<1>1. /\ view \in Bundles /\ durable \in Bundles /\ staging \in [Txs -> Staged] /\ staging[t] \in Staged
      /\ view.fence \in Fences
  BY DEF PublicationInv, BundlesTyped, Bundles, StagesTyped
<1>2. PublishersTyped' /\ LockHeld' /\ \A q \in Txs : q # t => publisher[q] = "idle" /\ publisher'[q] = "idle"
  BY PublishAssumption DEF PublicationInv, F!RemoveStage, PublishersTyped, PublisherSteps, Upto, Behind, Clean, LockHeld, F!Goto, F!Leave, F!Rest
<1>3. BundlesTyped'
  BY <1>1 DEF F!RemoveStage, F!Bundle, BundlesTyped
<1>4. /\ StagesTyped' /\ StagesKept
  <2> DEFINE s == [staging[t] EXCEPT !.at = "gone"]
  <2>1. s \in Staged /\ s.given = staging[t].given /\ s.cap = staging[t].cap /\ s.journal = staging[t].journal /\ s.plan = staging[t].plan
    BY <1>1 DEF Staged
  <2>2. staging' = [staging EXCEPT ![t] = s]
    BY <1>1 DEF F!RemoveStage, F!Stage
  <2> HIDE DEF s
  <2>3. QED
    BY <1>1, <2>1, <2>2 DEF StagesTyped, StagesKept
<1>5. PlansTyped'
  BY DEF PublicationInv, F!RemoveStage, F!Rest, PlansTyped
<1>6. /\ publisher[t] = "stage-out"
      /\ publisher'[t] = "idle"
      /\ view' = view /\ durable' = durable
      /\ reading' = reading
      /\ good' = good
  BY <1>1 DEF F!RemoveStage, F!Goto, F!Leave, F!Rest, F!Bundle, PublicationInv, PublishersTyped
<1>7. CapsApart'
  BY <1>4, <1>6 DEF PublicationInv, CapsApart, StagesKept, F!Deletes, F!FinalLog
<1>8. FenceSettled'
  BY <1>6 DEF PublicationInv, FenceSettled
<1>9. FenceOwned'
  BY <1>1, FenceIs, <1>2, <1>6, PublishAssumption DEF PublicationInv, FenceOwned, FenceSettled, Upto,
       Behind, Clean, F!Fence, F!NoFence
<1>10. Withdrawn'
  BY <1>2, <1>6 DEF PublicationInv, Withdrawn, FenceOwned, FenceSettled, Upto, Behind, Clean, F!Fence,
       F!NoFence
<1>11. EvidenceFollows'
  BY <1>6 DEF PublicationInv, EvidenceFollows
<1>12. PlanFixed'
  BY <1>4, <1>2, <1>6 DEF PublicationInv, PlanFixed, Upto, Behind, Clean, StagesKept
<1>13. Progress'
  BY <1>1, <1>4, <1>2, <1>6 DEF PublicationInv, Progress, Upto, Behind, Clean, StagesKept, F!Deletes,
       F!FinalLog
<1>14. Committed'
  BY <1>4, <1>6 DEF PublicationInv, Committed, StagesKept, F!Deletes, F!FinalLog
<1>15. F!CommitIsDurable'
  BY <1>4, <1>6 DEF PublicationInv, F!CommitIsDurable, StagesKept, F!Deletes, F!FinalLog
<1>16. QED
  BY <1>2, <1>3, <1>4, <1>5, <1>6, <1>7, <1>8, <1>9, <1>10, <1>11, <1>12, <1>13, <1>14, <1>15
       DEF PublicationInv

LEMMA KillKeeps ==
  ASSUME PublicationInv, NEW t \in Txs, F!Kill(t) PROVE PublicationInv'
<1>1. /\ view \in Bundles /\ durable \in Bundles /\ staging \in [Txs -> Staged] /\ staging[t] \in Staged
      /\ view.fence \in Fences
  BY DEF PublicationInv, BundlesTyped, Bundles, StagesTyped
<1>2. PublishersTyped' /\ LockHeld' /\ \A q \in Txs : q # t => publisher[q] = "idle" /\ publisher'[q] = "idle"
  BY PublishAssumption DEF PublicationInv, F!Kill, PublishersTyped, PublisherSteps, Upto, Behind, Clean, LockHeld, F!Goto, F!Leave, F!Rest
<1>3. BundlesTyped'
  BY <1>1 DEF F!Kill, F!Bundle, BundlesTyped
<1>4. StagesTyped'
  BY <1>1 DEF F!Kill, StagesTyped
<1>5. PlansTyped'
  BY DEF PublicationInv, F!Kill, F!Rest, PlansTyped
<1>6. /\ publisher'[t] = "idle"
      /\ view' = view /\ durable' = durable
      /\ staging' = staging
      /\ reading' = reading
      /\ good' = good
  BY <1>1 DEF F!Kill, F!Goto, F!Leave, F!Rest, F!Bundle, PublicationInv, PublishersTyped
<1>7. CapsApart'
  BY <1>6 DEF PublicationInv, CapsApart, F!Deletes, F!FinalLog
<1>8. FenceSettled'
  BY <1>6 DEF PublicationInv, FenceSettled
<1>9. FenceOwned'
  BY <1>1, FenceIs, <1>2, <1>6, PublishAssumption DEF PublicationInv, FenceOwned, FenceSettled, Upto,
       Behind, Clean, F!Fence, F!NoFence
<1>10. Withdrawn'
  BY <1>2, <1>6 DEF PublicationInv, Withdrawn, FenceOwned, FenceSettled, Upto, Behind, Clean, F!Fence,
       F!NoFence
<1>11. EvidenceFollows'
  BY <1>6 DEF PublicationInv, EvidenceFollows
<1>12. PlanFixed'
  BY <1>2, <1>6 DEF PublicationInv, PlanFixed, Upto, Behind, Clean
<1>13. Progress'
  BY <1>1, <1>2, <1>6 DEF PublicationInv, Progress, Upto, Behind, Clean, F!Deletes, F!FinalLog
<1>14. Committed'
  BY <1>6 DEF PublicationInv, Committed
<1>15. F!CommitIsDurable'
  BY <1>6 DEF PublicationInv, F!CommitIsDurable, F!Deletes, F!FinalLog
<1>16. QED
  BY <1>2, <1>3, <1>4, <1>5, <1>6, <1>7, <1>8, <1>9, <1>10, <1>11, <1>12, <1>13, <1>14, <1>15
       DEF PublicationInv
LEMMA ResumeKeeps == ASSUME PublicationInv, F!Resume PROVE PublicationInv'
<1>1. /\ view \in Bundles /\ durable \in Bundles /\ view.fence = F!NoFence /\ lock = None
      /\ \A t \in Txs : publisher[t] = "idle"
  BY PublishAssumption DEF PublicationInv, BundlesTyped, F!Resume, LockHeld
<1>2. /\ view'.ev = view.ev /\ view'.fence = F!NoFence /\ durable' = durable /\ good'.ev = good.ev
      /\ UNCHANGED << staging, lock, publisher, reading >>
  BY <1>1 DEF F!Resume, F!Write, Bundles
<1>3. BundlesTyped'
  <2>1. Append(view.log, None) \in Seq(Owners)
    BY <1>1 DEF Bundles, Owners
  <2>2. (\E a \in Artifacts : view.ev[a] # None) \in {TRUE, FALSE}
    OBVIOUS
  <2>3. QED
    BY <1>1, <2>1, <2>2 DEF F!Resume, F!Write, BundlesTyped, Bundles
<1>4. StagesTyped' /\ PlansTyped' /\ PublishersTyped' /\ LockHeld' /\ CapsApart'
  BY <1>2 DEF PublicationInv, StagesTyped, PlansTyped, PublishersTyped, LockHeld, CapsApart, F!Deletes
<1>5. FenceSettled' /\ FenceOwned' /\ Withdrawn' /\ EvidenceFollows' /\ PlanFixed' /\ Progress'
  BY <1>1, <1>2 DEF PublicationInv, FenceSettled, FenceOwned, Withdrawn, EvidenceFollows, PlanFixed, Progress,
                    F!NoFence, Upto, Behind, Clean
<1>6. Committed' /\ F!CommitIsDurable'
  BY <1>2 DEF Committed, F!CommitIsDurable, F!NoFence, F!Fence
<1>7. QED
  BY <1>3, <1>4, <1>5, <1>6 DEF PublicationInv

LEMMA PowerLossKeeps == ASSUME PublicationInv, F!PowerLoss PROVE PublicationInv'
<1>1. /\ view' = durable /\ durable' = durable /\ lock' = None /\ reading' = reading /\ good'.ev = good.ev
      /\ \A t \in Txs : publisher'[t] = "idle"
  BY DEF F!PowerLoss
<1>2. StagesTyped' /\ StagesKept
  <2>1. staging \in [Txs -> Staged]
    BY DEF PublicationInv, StagesTyped
  <2>2. ASSUME NEW s \in Staged
        PROVE  LET l == [s EXCEPT !.at = "lost"]
               IN  /\ l \in Staged /\ l.given = s.given /\ l.cap = s.cap
                   /\ l.journal = s.journal /\ l.plan = s.plan
    BY DEF Staged
  <2>3. \A t \in Txs : /\ staging'[t] \in Staged /\ staging'[t].given = staging[t].given
                       /\ staging'[t].cap = staging[t].cap /\ staging'[t].journal = staging[t].journal
                       /\ staging'[t].plan = staging[t].plan
    BY <2>1, <2>2 DEF F!PowerLoss
  <2>4. DOMAIN staging' = Txs /\ staging' = [t \in Txs |-> staging'[t]]
    BY <2>1 DEF F!PowerLoss
  <2>5. QED
    BY <2>3, <2>4 DEF StagesTyped, StagesKept
<1>3. PublishersTyped' /\ LockHeld' /\ BundlesTyped' /\ PlansTyped'
  BY <1>1 DEF F!PowerLoss, PublicationInv, PublishersTyped, PublisherSteps, LockHeld, BundlesTyped, PlansTyped
<1>4. CapsApart'
  BY <1>2 DEF PublicationInv, StagesKept, CapsApart, F!Deletes
<1>5. FenceSettled' /\ FenceOwned' /\ Withdrawn' /\ EvidenceFollows' /\ PlanFixed' /\ Progress'
  BY <1>1 DEF PublicationInv, FenceSettled, FenceOwned, Withdrawn, EvidenceFollows, PlanFixed, Progress,
              Upto, Behind, Clean
<1>6. Committed' /\ F!CommitIsDurable'
  <2>1. \A q \in Txs : view'.fence = F!Fence("bound", q) => view.fence = F!Fence("bound", q)
    BY <1>1 DEF PublicationInv, FenceSettled, F!Fence
  <2>2. Committed'
    BY <1>1, <1>2, <2>1 DEF PublicationInv, Committed, StagesKept
  <2>3. F!CommitIsDurable'
    BY <1>1, <1>2, <2>1 DEF PublicationInv, F!CommitIsDurable, StagesKept, F!Deletes, F!FinalLog
  <2>4. QED
    BY <2>2, <2>3
<1>7. QED
  BY <1>2, <1>3, <1>4, <1>5, <1>6 DEF PublicationInv

LEMMA NextPublication == PublicationInv /\ [F!Next]_F!vars => PublicationInv'
<1> SUFFICES ASSUME PublicationInv, [F!Next]_F!vars PROVE PublicationInv'
  OBVIOUS
<1>1. ASSUME NEW t \in Txs, F!Publish(t) \/ F!Kill(t) PROVE PublicationInv'
  BY <1>1, BeginKeeps, FinishEmptyKeeps, RejectOddKeeps, PreflightKeeps, DropManifestKeeps,
     DropReportKeeps, DropMarkerKeeps, MakeFenceKeeps, WriteBindingKeeps, PrepareKeeps,
     CopyCandidatesKeeps, DeleteStaleKeeps, InstallKeeps, InstallLogKeeps, FlushKeeps, SettleKeeps,
     CommitKeeps, AdoptKeeps, CleanSourcesKeeps, CleanCandidatesKeeps, LowerFenceKeeps,
     RemoveJournalKeeps, RemoveStageKeeps, KillKeeps DEF F!Publish
<1>2. CASE UNCHANGED F!vars
  <2>1. view' = view /\ durable' = durable /\ staging' = staging /\ publisher' = publisher /\ reading' = reading /\ good' = good /\ lock' = lock
    BY <1>2 DEF F!vars
  <2>2. StagesTyped' /\ BundlesTyped' /\ PlansTyped' /\ PublishersTyped' /\ LockHeld' /\ CapsApart'
    BY <2>1 DEF PublicationInv, StagesTyped, BundlesTyped, PlansTyped, PublishersTyped, LockHeld, CapsApart, F!Deletes
  <2>3. FenceSettled' /\ FenceOwned' /\ Withdrawn' /\ EvidenceFollows' /\ PlanFixed'
    BY <2>1 DEF PublicationInv, FenceSettled, FenceOwned, Withdrawn, EvidenceFollows, PlanFixed
  <2>4. Progress' /\ Committed' /\ F!CommitIsDurable'
    BY <2>1 DEF PublicationInv, Progress, Committed, F!CommitIsDurable, F!Deletes, F!FinalLog
  <2>5. QED
    BY <2>2, <2>3, <2>4 DEF PublicationInv
<1>3. QED
  BY <1>1, <1>2, ResumeKeeps, PowerLossKeeps DEF F!Next

LEMMA PublishInvariant == F!Spec => []PublicationInv
BY InitPublication, NextPublication, PTL DEF F!Spec

-----------------------------------------------------------------------------
(* Whatever a kill or a power loss leaves, a bundle whose evidence is not    *)
(* that of the last commit is fenced, nothing vouches for it behind the      *)
(* fence, and what was committed is on the disk.                             *)
THEOREM MixturesAreFenced == F!Spec => []EvidenceSafe
<1>1. PublicationInv => EvidenceSafe
  BY DEF EvidenceSafe, PublicationInv, FenceSettled, Withdrawn, EvidenceFollows, F!MixedIsFenced
<1>2. QED
  BY <1>1, PublishInvariant, PTL

\* A step of a publisher that changes the bundle is one of the fence's owner.
LEMMA FencedSteps ==
  ASSUME PublicationInv, F!Next, view.fence.form = "bound", view # view'
  PROVE  \E t \in Txs : t = view.fence.owner /\ (lock = t \/ view' = durable)
<1>1. ASSUME NEW t \in Txs, F!Publish(t) \/ F!Kill(t)
      PROVE  t = view.fence.owner /\ lock = t
  <2>1. ~(F!Begin(t) \/ F!FinishEmpty(t) \/ F!RejectOdd(t) \/ F!Preflight(t) \/ F!Prepare(t) \/ F!Commit(t)
            \/ F!Adopt(t) \/ F!CleanSources(t) \/ F!RemoveJournal(t) \/ F!RemoveStage(t) \/ F!Kill(t))
    BY DEF F!Begin, F!FinishEmpty, F!RejectOdd, F!Preflight, F!Prepare, F!Commit, F!Adopt, F!CleanSources,
           F!RemoveJournal, F!RemoveStage, F!Kill, F!Bundle
  <2>2. publisher[t] \in Upto \union Behind \union Clean
    BY <1>1, <2>1 DEF F!Publish, F!DropManifest, F!DropReport, F!DropMarker, F!MakeFence, F!WriteBinding,
       F!CopyCandidates, F!DeleteStale, F!Install, F!InstallLog, F!Flush, F!Settle, F!CleanCandidates,
       F!LowerFence, Upto, Behind, Clean
  <2>3. lock = t
    BY <2>2 DEF PublicationInv, LockHeld, Upto, Behind, Clean
  <2>4. CASE publisher[t] \in Upto \union Clean
    BY <2>3, <2>4 DEF PublicationInv, FenceOwned
  <2>5. CASE publisher[t] \in Behind
    <3>1. view.fence = F!Fence("bound", t)
      BY <2>5 DEF PublicationInv, FenceOwned
    <3>2. QED
      BY <2>3, <3>1 DEF F!Fence
  <2>6. QED
    BY <2>2, <2>3, <2>4, <2>5
<1>2. ~F!Resume
  BY DEF F!Resume, F!NoFence
<1>3. CASE F!PowerLoss
  BY <1>3 DEF PublicationInv, FenceSettled, F!PowerLoss
<1>4. QED
  BY <1>1, <1>2, <1>3 DEF F!Next

(* No transaction touches what another one fences: not its retry, not a      *)
(* later experiment, not a resumed diagnose.sh.                              *)
THEOREM FencesExclude == F!Spec => FenceExcludes
<1>1. PublicationInv /\ [F!Next]_F!vars
        => [view.fence.form = "bound" /\ view # view' =>
              \E t \in Txs : t = view.fence.owner /\ (lock = t \/ view' = durable)]_F!vars
  BY FencedSteps
<1>2. QED
  BY <1>1, PublishInvariant, PTL DEF F!Spec, FenceExcludes, F!FenceExcludes

-----------------------------------------------------------------------------
(* The frequency experiment.                                                 *)
Recovering == {"restore", "outputs", "publishing", "clear", "checks"}
Measuring  == {"record", "saveTurbo", "turboOff", "turboOn", "restoreTurbo", "saveCap", "capOn",
               "capRows", "restoreCap", "finish"} \union X!Legs
ExperimentSteps      == {"off"} \union Recovering \union Measuring \union X!Cleanup

\* Where an invocation can only stand after it has restored everything.
Restored == {"outputs", "publishing", "clear", "checks", "record", "saveTurbo", "saveCap", "finish",
             "exitPublish", "exitPublishing", "exitClear", "release"}
TurboLegs == {"A1", "turboOff", "B", "turboOn", "A2"}

ValuesTyped ==
  /\ value \in [Controls -> {"orig", "mod"}]
  /\ saved \in [Controls -> {"none", "orig", "mod"}]

EvidenceStages == [at : {"none", "root", "user"}, run : Nat, odd : {TRUE, FALSE}]

InvocationsTyped == invocation \in [Slots -> ExperimentSteps]
GroupsTyped == groups \in [Slots -> SUBSET {"sampler", "workload"}]
OutputsTyped == /\ DOMAIN armed = Slots /\ runs \in 0..Experiments
                /\ evidence \in EvidenceStages

\* The guard lets one invocation and its groups live at a time.
AtWork(r) == invocation[r] # "off" \/ groups[r] # {}
Solo == \A r, q \in Slots : AtWork(r) /\ AtWork(q) => r = q

\* Groups live in a leg, in a cleanup that has yet to stop them, or orphaned.
GroupsInLegs == \A r \in Slots : groups[r] # {} => invocation[r] \in X!Legs \union {"exit", "off"}

\* What an invocation has restored stays so until it changes it.
RestoredSince ==
  \A r \in Slots : /\ invocation[r] \in Restored => X!AllOriginal
                   /\ invocation[r] \in TurboLegs => saved[Turbo] = "orig"
                   /\ invocation[r] = "capOn" => \A s \in Controls \ {Turbo} : saved[s] = "orig"

\* There is a stage to publish, and nothing but the stage's own invocation arms it.
StageThere ==
  /\ evidence.at = "none" => evidence = X!NoStage
  /\ \A r \in Slots :
       /\ invocation[r] \in {"publishing", "exitPublishing"} => evidence.at # "none"
       /\ invocation[r] \in Recovering => ~armed[r]
       /\ armed[r] /\ invocation[r] \notin {"off", "exitClear", "release"} => evidence.at # "none"
       /\ invocation[r] \in Measuring => armed[r]

ExperimentInv == /\ ValuesTyped /\ InvocationsTyped /\ GroupsTyped /\ OutputsTyped /\ Solo /\ GroupsInLegs
        /\ X!OriginalIsSaved /\ RestoredSince /\ StageThere /\ X!EvidenceKept
-----------------------------------------------------------------------------
(* Preservation. *)
LEMMA NoStageFields == X!NoStage \in EvidenceStages /\ X!NoStage.at = "none" /\ X!NoStage.run = 0
BY DEF X!NoStage, EvidenceStages

LEMMA InitExperiment == X!Init => ExperimentInv
<1> SUFFICES ASSUME X!Init PROVE ExperimentInv
  OBVIOUS
<1>1. ValuesTyped /\ InvocationsTyped /\ GroupsTyped /\ X!OriginalIsSaved
  BY DEF X!Init, ValuesTyped, InvocationsTyped, ExperimentSteps, GroupsTyped, X!OriginalIsSaved
<1>2. OutputsTyped /\ X!EvidenceKept
  BY SettingsAssumption, NoStageFields DEF X!Init, OutputsTyped, X!EvidenceKept
<1>3. Solo /\ GroupsInLegs /\ RestoredSince /\ StageThere
  BY NoStageFields DEF X!Init, Solo, AtWork, GroupsInLegs, RestoredSince, Restored, TurboLegs, StageThere, Recovering,
         Measuring, X!Legs
<1>4. QED
  BY <1>1, <1>2, <1>3 DEF ExperimentInv

LEMMA NextExperiment == ExperimentInv /\ [X!Next]_X!vars => ExperimentInv'
<1> SUFFICES ASSUME ExperimentInv, [X!Next]_X!vars PROVE ExperimentInv'
  OBVIOUS
<1>1. ASSUME NEW r \in Slots, X!Lock(r) PROVE ExperimentInv'
  <2>1. \A q \in Slots : q # r => invocation[q] = "off" /\ groups[q] = {}
    BY <1>1 DEF ExperimentInv, X!Lock, X!GuardFree, X!Cleanup, Solo, AtWork
  <2>2. InvocationsTyped'
    BY <1>1, <2>1 DEF ExperimentInv, X!Lock, X!GuardFree, X!Goto, X!settings, X!outputs, InvocationsTyped, ExperimentSteps,
         Recovering, Measuring, X!Legs, X!Cleanup
  <2>3. OutputsTyped'
    BY <1>1, <2>1, SettingsAssumption, NoStageFields DEF ExperimentInv, X!Lock, X!GuardFree, X!Goto, X!settings,
         X!outputs, OutputsTyped, EvidenceStages
  <2>4. Solo'
    BY <1>1, <2>1 DEF ExperimentInv, X!Lock, X!GuardFree, X!Goto, X!settings, X!outputs, Solo, AtWork,
         GroupsTyped, InvocationsTyped, ExperimentSteps, Recovering, Measuring, X!Legs, X!Cleanup
  <2>5. GroupsInLegs'
    BY <1>1, <2>1 DEF ExperimentInv, X!Lock, X!GuardFree, X!Goto, X!settings, X!outputs, GroupsInLegs, X!Legs,
         GroupsTyped, InvocationsTyped, ExperimentSteps, Recovering, Measuring, X!Cleanup
  <2>6. RestoredSince'
    BY <1>1, <2>1, SettingsAssumption DEF ExperimentInv, X!Lock, X!GuardFree, X!Goto, X!settings, X!outputs,
         RestoredSince, Restored, X!AllOriginal, TurboLegs, ValuesTyped, X!OriginalIsSaved,
         InvocationsTyped, ExperimentSteps, Recovering, Measuring, X!Legs, X!Cleanup
  <2>7. StageThere'
    BY <1>1, <2>1, NoStageFields DEF ExperimentInv, X!Lock, X!GuardFree, X!Goto, X!settings, X!outputs, StageThere,
         Recovering, Measuring, X!Legs, InvocationsTyped, ExperimentSteps, X!Cleanup, OutputsTyped, EvidenceStages, Solo,
         AtWork
  <2>8. ValuesTyped' /\ GroupsTyped' /\ X!OriginalIsSaved' /\ X!EvidenceKept'
    BY <1>1 DEF ExperimentInv, X!Lock, X!settings, X!outputs, ValuesTyped, GroupsTyped, X!OriginalIsSaved,
         X!EvidenceKept
  <2>9. QED
    BY <2>2, <2>3, <2>4, <2>5, <2>6, <2>7, <2>8 DEF ExperimentInv
<1>2. ASSUME NEW r \in Slots, X!Restore(r) PROVE ExperimentInv'
  <2>1. \A q \in Slots : q # r => invocation[q] = "off" /\ groups[q] = {}
    BY <1>2 DEF ExperimentInv, X!Restore, X!RestorePc, X!Cleanup, Solo, AtWork
  <2>2. ValuesTyped'
    BY <1>2, <2>1 DEF ExperimentInv, X!Restore, X!RestorePc, X!Pending, X!Goto, X!AfterRestore, X!outputs, X!Calm,
         ValuesTyped
  <2>3. InvocationsTyped'
    BY <1>2, <2>1 DEF ExperimentInv, X!Restore, X!RestorePc, X!Pending, X!Goto, X!AfterRestore, X!outputs, X!Calm,
         InvocationsTyped, ExperimentSteps, Recovering, Measuring, X!Legs, X!Cleanup
  <2>4. Solo'
    BY <1>2, <2>1 DEF ExperimentInv, X!Restore, X!RestorePc, X!Pending, X!Goto, X!AfterRestore, X!outputs, X!Calm,
         Solo, AtWork, GroupsTyped, InvocationsTyped, ExperimentSteps, Recovering, Measuring, X!Legs, X!Cleanup
  <2>5. GroupsInLegs'
    BY <1>2, <2>1 DEF ExperimentInv, X!Restore, X!RestorePc, X!Pending, X!Goto, X!AfterRestore, X!outputs, X!Calm,
         GroupsInLegs, X!Legs, GroupsTyped, InvocationsTyped, ExperimentSteps, Recovering, Measuring, X!Cleanup
  <2>6. X!OriginalIsSaved'
    BY <1>2, <2>1, SettingsAssumption DEF ExperimentInv, X!Restore, X!RestorePc, X!Pending, X!Goto, X!AfterRestore,
         X!outputs, X!Calm, X!OriginalIsSaved, ValuesTyped, RestoredSince, Restored, X!AllOriginal,
         TurboLegs
  <2>7. RestoredSince'
    BY <1>2, <2>1, SettingsAssumption DEF ExperimentInv, X!Restore, X!RestorePc, X!Pending, X!Goto, X!AfterRestore,
         X!outputs, X!Calm, RestoredSince, Restored, X!AllOriginal, TurboLegs, ValuesTyped,
         X!OriginalIsSaved, InvocationsTyped, ExperimentSteps, Recovering, Measuring, X!Legs, X!Cleanup
  <2>8. StageThere'
    BY <1>2, <2>1, NoStageFields DEF ExperimentInv, X!Restore, X!RestorePc, X!Pending, X!Goto, X!AfterRestore,
         X!outputs, X!Calm, StageThere, Recovering, Measuring, X!Legs, InvocationsTyped, ExperimentSteps, X!Cleanup,
         OutputsTyped, EvidenceStages, Solo, AtWork
  <2>9. GroupsTyped' /\ OutputsTyped' /\ X!EvidenceKept'
    BY <1>2 DEF ExperimentInv, X!Restore, X!outputs, X!Calm, GroupsTyped, OutputsTyped, EvidenceStages, X!EvidenceKept
  <2>10. QED
    BY <2>2, <2>3, <2>4, <2>5, <2>6, <2>7, <2>8, <2>9 DEF ExperimentInv
<1>3. ASSUME NEW r \in Slots, X!NoPending(r) PROVE ExperimentInv'
  <2>1. \A q \in Slots : q # r => invocation[q] = "off" /\ groups[q] = {}
    BY <1>3 DEF ExperimentInv, X!NoPending, X!Legs, X!Cleanup, Solo, AtWork
  <2>2. InvocationsTyped'
    BY <1>3, <2>1 DEF ExperimentInv, X!NoPending, X!Goto, X!settings, X!Calm, InvocationsTyped, ExperimentSteps, Recovering,
         Measuring, X!Legs, X!Cleanup
  <2>3. Solo'
    BY <1>3, <2>1 DEF ExperimentInv, X!NoPending, X!Goto, X!settings, X!Calm, Solo, AtWork, GroupsTyped,
         InvocationsTyped, ExperimentSteps, Recovering, Measuring, X!Legs, X!Cleanup
  <2>4. GroupsInLegs'
    BY <1>3, <2>1 DEF ExperimentInv, X!NoPending, X!Goto, X!settings, X!Calm, GroupsInLegs, X!Legs, GroupsTyped,
         InvocationsTyped, ExperimentSteps, Recovering, Measuring, X!Cleanup
  <2>5. RestoredSince'
    BY <1>3, <2>1, SettingsAssumption DEF ExperimentInv, X!NoPending, X!Goto, X!settings, X!Calm, RestoredSince,
         Restored, X!AllOriginal, TurboLegs, ValuesTyped, X!OriginalIsSaved, InvocationsTyped, ExperimentSteps,
         Recovering, Measuring, X!Legs, X!Cleanup
  <2>6. StageThere'
    BY <1>3, <2>1, NoStageFields DEF ExperimentInv, X!NoPending, X!Goto, X!settings, X!Calm, StageThere,
         Recovering, Measuring, X!Legs, InvocationsTyped, ExperimentSteps, X!Cleanup, OutputsTyped, EvidenceStages, Solo,
         AtWork
  <2>7. ValuesTyped' /\ GroupsTyped' /\ OutputsTyped' /\ X!OriginalIsSaved' /\ X!EvidenceKept'
    BY <1>3 DEF ExperimentInv, X!NoPending, X!settings, X!Calm, ValuesTyped, GroupsTyped, OutputsTyped, EvidenceStages,
         X!OriginalIsSaved, X!EvidenceKept
  <2>8. QED
    BY <2>2, <2>3, <2>4, <2>5, <2>6, <2>7 DEF ExperimentInv
<1>4. ASSUME NEW r \in Slots, X!Quarantine(r) PROVE ExperimentInv'
  <2>1. \A q \in Slots : q # r => invocation[q] = "off" /\ groups[q] = {}
    BY <1>4 DEF ExperimentInv, X!Quarantine, X!Legs, X!Cleanup, Solo, AtWork
  <2>2. InvocationsTyped'
    BY <1>4, <2>1 DEF ExperimentInv, X!Quarantine, X!Goto, X!settings, X!Calm, InvocationsTyped, ExperimentSteps, Recovering,
         Measuring, X!Legs, X!Cleanup
  <2>3. OutputsTyped'
    BY <1>4, <2>1, SettingsAssumption, NoStageFields DEF ExperimentInv, X!Quarantine, X!Goto, X!settings, X!Calm,
         OutputsTyped, EvidenceStages
  <2>4. Solo'
    BY <1>4, <2>1 DEF ExperimentInv, X!Quarantine, X!Goto, X!settings, X!Calm, Solo, AtWork, GroupsTyped,
         InvocationsTyped, ExperimentSteps, Recovering, Measuring, X!Legs, X!Cleanup
  <2>5. GroupsInLegs'
    BY <1>4, <2>1 DEF ExperimentInv, X!Quarantine, X!Goto, X!settings, X!Calm, GroupsInLegs, X!Legs, GroupsTyped,
         InvocationsTyped, ExperimentSteps, Recovering, Measuring, X!Cleanup
  <2>6. RestoredSince'
    BY <1>4, <2>1, SettingsAssumption DEF ExperimentInv, X!Quarantine, X!Goto, X!settings, X!Calm, RestoredSince,
         Restored, X!AllOriginal, TurboLegs, ValuesTyped, X!OriginalIsSaved, InvocationsTyped, ExperimentSteps,
         Recovering, Measuring, X!Legs, X!Cleanup
  <2>7. StageThere'
    BY <1>4, <2>1, NoStageFields DEF ExperimentInv, X!Quarantine, X!Goto, X!settings, X!Calm, StageThere,
         Recovering, Measuring, X!Legs, InvocationsTyped, ExperimentSteps, X!Cleanup, OutputsTyped, EvidenceStages, Solo,
         AtWork
  <2>8. X!EvidenceKept'
    BY <1>4, <2>1, SettingsAssumption, NoStageFields DEF ExperimentInv, X!Quarantine, X!Goto, X!settings, X!Calm,
         X!EvidenceKept, OutputsTyped, EvidenceStages, StageThere, Recovering, Measuring, X!Legs
  <2>9. ValuesTyped' /\ GroupsTyped' /\ X!OriginalIsSaved'
    BY <1>4 DEF ExperimentInv, X!Quarantine, X!settings, X!Calm, ValuesTyped, GroupsTyped, X!OriginalIsSaved
  <2>10. QED
    BY <2>2, <2>3, <2>4, <2>5, <2>6, <2>7, <2>8, <2>9 DEF ExperimentInv
<1>5. ASSUME NEW r \in Slots, X!Handoff(r) PROVE ExperimentInv'
  <2>1. \A q \in Slots : q # r => invocation[q] = "off" /\ groups[q] = {}
    BY <1>5 DEF ExperimentInv, X!Handoff, X!Legs, X!Cleanup, Solo, AtWork
  <2>2. InvocationsTyped'
    BY <1>5, <2>1 DEF ExperimentInv, X!Handoff, X!Goto, X!settings, X!Calm, InvocationsTyped, ExperimentSteps, Recovering,
         Measuring, X!Legs, X!Cleanup
  <2>3. OutputsTyped'
    BY <1>5, <2>1, SettingsAssumption, NoStageFields DEF ExperimentInv, X!Handoff, X!Goto, X!settings, X!Calm,
         OutputsTyped, EvidenceStages
  <2>4. Solo'
    BY <1>5, <2>1 DEF ExperimentInv, X!Handoff, X!Goto, X!settings, X!Calm, Solo, AtWork, GroupsTyped,
         InvocationsTyped, ExperimentSteps, Recovering, Measuring, X!Legs, X!Cleanup
  <2>5. GroupsInLegs'
    BY <1>5, <2>1 DEF ExperimentInv, X!Handoff, X!Goto, X!settings, X!Calm, GroupsInLegs, X!Legs, GroupsTyped,
         InvocationsTyped, ExperimentSteps, Recovering, Measuring, X!Cleanup
  <2>6. RestoredSince'
    BY <1>5, <2>1, SettingsAssumption DEF ExperimentInv, X!Handoff, X!Goto, X!settings, X!Calm, RestoredSince,
         Restored, X!AllOriginal, TurboLegs, ValuesTyped, X!OriginalIsSaved, InvocationsTyped, ExperimentSteps,
         Recovering, Measuring, X!Legs, X!Cleanup
  <2>7. StageThere'
    BY <1>5, <2>1, NoStageFields DEF ExperimentInv, X!Handoff, X!Goto, X!settings, X!Calm, StageThere,
         Recovering, Measuring, X!Legs, InvocationsTyped, ExperimentSteps, X!Cleanup, OutputsTyped, EvidenceStages, Solo,
         AtWork
  <2>8. X!EvidenceKept'
    BY <1>5, <2>1, SettingsAssumption, NoStageFields DEF ExperimentInv, X!Handoff, X!Goto, X!settings, X!Calm,
         X!EvidenceKept, OutputsTyped, EvidenceStages, StageThere, Recovering, Measuring, X!Legs
  <2>9. ValuesTyped' /\ GroupsTyped' /\ X!OriginalIsSaved'
    BY <1>5 DEF ExperimentInv, X!Handoff, X!settings, X!Calm, ValuesTyped, GroupsTyped, X!OriginalIsSaved
  <2>10. QED
    BY <2>2, <2>3, <2>4, <2>5, <2>6, <2>7, <2>8, <2>9 DEF ExperimentInv
<1>6. ASSUME NEW r \in Slots, X!Publish(r) PROVE ExperimentInv'
  <2>1. \A q \in Slots : q # r => invocation[q] = "off" /\ groups[q] = {}
    BY <1>6 DEF ExperimentInv, X!Publish, X!Legs, X!Cleanup, Solo, AtWork
  <2>2. InvocationsTyped'
    BY <1>6, <2>1 DEF ExperimentInv, X!Publish, X!Goto, X!settings, X!Calm, InvocationsTyped, ExperimentSteps, Recovering,
         Measuring, X!Legs, X!Cleanup
  <2>3. OutputsTyped'
    BY <1>6, <2>1, SettingsAssumption, NoStageFields DEF ExperimentInv, X!Publish, X!Goto, X!settings, X!Calm,
         OutputsTyped, EvidenceStages
  <2>4. Solo'
    BY <1>6, <2>1 DEF ExperimentInv, X!Publish, X!Goto, X!settings, X!Calm, Solo, AtWork, GroupsTyped,
         InvocationsTyped, ExperimentSteps, Recovering, Measuring, X!Legs, X!Cleanup
  <2>5. GroupsInLegs'
    BY <1>6, <2>1 DEF ExperimentInv, X!Publish, X!Goto, X!settings, X!Calm, GroupsInLegs, X!Legs, GroupsTyped,
         InvocationsTyped, ExperimentSteps, Recovering, Measuring, X!Cleanup
  <2>6. RestoredSince'
    BY <1>6, <2>1, SettingsAssumption DEF ExperimentInv, X!Publish, X!Goto, X!settings, X!Calm, RestoredSince,
         Restored, X!AllOriginal, TurboLegs, ValuesTyped, X!OriginalIsSaved, InvocationsTyped, ExperimentSteps,
         Recovering, Measuring, X!Legs, X!Cleanup
  <2>7. StageThere'
    BY <1>6, <2>1, NoStageFields DEF ExperimentInv, X!Publish, X!Goto, X!settings, X!Calm, StageThere,
         Recovering, Measuring, X!Legs, InvocationsTyped, ExperimentSteps, X!Cleanup, OutputsTyped, EvidenceStages, Solo,
         AtWork
  <2>8. X!EvidenceKept'
    BY <1>6, <2>1, SettingsAssumption, NoStageFields DEF ExperimentInv, X!Publish, X!Goto, X!settings, X!Calm,
         X!EvidenceKept, OutputsTyped, EvidenceStages, StageThere, Recovering, Measuring, X!Legs
  <2>9. ValuesTyped' /\ GroupsTyped' /\ X!OriginalIsSaved'
    BY <1>6 DEF ExperimentInv, X!Publish, X!settings, X!Calm, ValuesTyped, GroupsTyped, X!OriginalIsSaved
  <2>10. QED
    BY <2>2, <2>3, <2>4, <2>5, <2>6, <2>7, <2>8, <2>9 DEF ExperimentInv
<1>7. ASSUME NEW r \in Slots, X!ClearRecord(r) PROVE ExperimentInv'
  <2>1. \A q \in Slots : q # r => invocation[q] = "off" /\ groups[q] = {}
    BY <1>7 DEF ExperimentInv, X!ClearRecord, X!Legs, X!Cleanup, Solo, AtWork
  <2>2. InvocationsTyped'
    BY <1>7, <2>1 DEF ExperimentInv, X!ClearRecord, X!Goto, X!settings, X!Calm, InvocationsTyped, ExperimentSteps, Recovering,
         Measuring, X!Legs, X!Cleanup
  <2>3. Solo'
    BY <1>7, <2>1 DEF ExperimentInv, X!ClearRecord, X!Goto, X!settings, X!Calm, Solo, AtWork, GroupsTyped,
         InvocationsTyped, ExperimentSteps, Recovering, Measuring, X!Legs, X!Cleanup
  <2>4. GroupsInLegs'
    BY <1>7, <2>1 DEF ExperimentInv, X!ClearRecord, X!Goto, X!settings, X!Calm, GroupsInLegs, X!Legs, GroupsTyped,
         InvocationsTyped, ExperimentSteps, Recovering, Measuring, X!Cleanup
  <2>5. RestoredSince'
    BY <1>7, <2>1, SettingsAssumption DEF ExperimentInv, X!ClearRecord, X!Goto, X!settings, X!Calm,
         RestoredSince, Restored, X!AllOriginal, TurboLegs, ValuesTyped, X!OriginalIsSaved,
         InvocationsTyped, ExperimentSteps, Recovering, Measuring, X!Legs, X!Cleanup
  <2>6. StageThere'
    BY <1>7, <2>1, NoStageFields DEF ExperimentInv, X!ClearRecord, X!Goto, X!settings, X!Calm, StageThere,
         Recovering, Measuring, X!Legs, InvocationsTyped, ExperimentSteps, X!Cleanup, OutputsTyped, EvidenceStages, Solo,
         AtWork
  <2>7. ValuesTyped' /\ GroupsTyped' /\ OutputsTyped' /\ X!OriginalIsSaved' /\ X!EvidenceKept'
    BY <1>7 DEF ExperimentInv, X!ClearRecord, X!settings, X!Calm, ValuesTyped, GroupsTyped, OutputsTyped,
         EvidenceStages, X!OriginalIsSaved, X!EvidenceKept
  <2>8. QED
    BY <2>2, <2>3, <2>4, <2>5, <2>6, <2>7 DEF ExperimentInv
<1>8. ASSUME NEW r \in Slots, X!RejectedOdd(r) PROVE ExperimentInv'
  <2>1. \A q \in Slots : q # r => invocation[q] = "off" /\ groups[q] = {}
    BY <1>8 DEF ExperimentInv, X!RejectedOdd, X!Legs, X!Cleanup, Solo, AtWork
  <2>2. InvocationsTyped'
    BY <1>8, <2>1 DEF ExperimentInv, X!RejectedOdd, X!Goto, X!settings, X!Calm, InvocationsTyped, ExperimentSteps, Recovering,
         Measuring, X!Legs, X!Cleanup
  <2>3. OutputsTyped'
    BY <1>8, <2>1, SettingsAssumption, NoStageFields DEF ExperimentInv, X!RejectedOdd, X!Goto, X!settings,
         X!Calm, OutputsTyped, EvidenceStages
  <2>4. Solo'
    BY <1>8, <2>1 DEF ExperimentInv, X!RejectedOdd, X!Goto, X!settings, X!Calm, Solo, AtWork, GroupsTyped,
         InvocationsTyped, ExperimentSteps, Recovering, Measuring, X!Legs, X!Cleanup
  <2>5. GroupsInLegs'
    BY <1>8, <2>1 DEF ExperimentInv, X!RejectedOdd, X!Goto, X!settings, X!Calm, GroupsInLegs, X!Legs, GroupsTyped,
         InvocationsTyped, ExperimentSteps, Recovering, Measuring, X!Cleanup
  <2>6. RestoredSince'
    BY <1>8, <2>1, SettingsAssumption DEF ExperimentInv, X!RejectedOdd, X!Goto, X!settings, X!Calm,
         RestoredSince, Restored, X!AllOriginal, TurboLegs, ValuesTyped, X!OriginalIsSaved,
         InvocationsTyped, ExperimentSteps, Recovering, Measuring, X!Legs, X!Cleanup
  <2>7. StageThere'
    BY <1>8, <2>1, NoStageFields DEF ExperimentInv, X!RejectedOdd, X!Goto, X!settings, X!Calm, StageThere,
         Recovering, Measuring, X!Legs, InvocationsTyped, ExperimentSteps, X!Cleanup, OutputsTyped, EvidenceStages, Solo,
         AtWork
  <2>8. X!EvidenceKept'
    BY <1>8, <2>1, SettingsAssumption, NoStageFields DEF ExperimentInv, X!RejectedOdd, X!Goto, X!settings,
         X!Calm, X!EvidenceKept, OutputsTyped, EvidenceStages, StageThere, Recovering, Measuring, X!Legs
  <2>9. ValuesTyped' /\ GroupsTyped' /\ X!OriginalIsSaved'
    BY <1>8 DEF ExperimentInv, X!RejectedOdd, X!settings, X!Calm, ValuesTyped, GroupsTyped, X!OriginalIsSaved
  <2>10. QED
    BY <2>2, <2>3, <2>4, <2>5, <2>6, <2>7, <2>8, <2>9 DEF ExperimentInv
<1>9. ASSUME NEW r \in Slots, X!Refuse(r) PROVE ExperimentInv'
  <2>1. \A q \in Slots : q # r => invocation[q] = "off" /\ groups[q] = {}
    BY <1>9 DEF ExperimentInv, X!Refuse, X!Legs, X!Cleanup, Solo, AtWork
  <2>2. InvocationsTyped'
    BY <1>9, <2>1 DEF ExperimentInv, X!Refuse, X!Goto, X!settings, X!outputs, X!Calm, InvocationsTyped, ExperimentSteps,
         Recovering, Measuring, X!Legs, X!Cleanup
  <2>3. Solo'
    BY <1>9, <2>1 DEF ExperimentInv, X!Refuse, X!Goto, X!settings, X!outputs, X!Calm, Solo, AtWork, GroupsTyped,
         InvocationsTyped, ExperimentSteps, Recovering, Measuring, X!Legs, X!Cleanup
  <2>4. GroupsInLegs'
    BY <1>9, <2>1 DEF ExperimentInv, X!Refuse, X!Goto, X!settings, X!outputs, X!Calm, GroupsInLegs, X!Legs,
         GroupsTyped, InvocationsTyped, ExperimentSteps, Recovering, Measuring, X!Cleanup
  <2>5. RestoredSince'
    BY <1>9, <2>1, SettingsAssumption DEF ExperimentInv, X!Refuse, X!Goto, X!settings, X!outputs, X!Calm,
         RestoredSince, Restored, X!AllOriginal, TurboLegs, ValuesTyped, X!OriginalIsSaved,
         InvocationsTyped, ExperimentSteps, Recovering, Measuring, X!Legs, X!Cleanup
  <2>6. StageThere'
    BY <1>9, <2>1, NoStageFields DEF ExperimentInv, X!Refuse, X!Goto, X!settings, X!outputs, X!Calm, StageThere,
         Recovering, Measuring, X!Legs, InvocationsTyped, ExperimentSteps, X!Cleanup, OutputsTyped, EvidenceStages, Solo,
         AtWork
  <2>7. ValuesTyped' /\ GroupsTyped' /\ OutputsTyped' /\ X!OriginalIsSaved' /\ X!EvidenceKept'
    BY <1>9 DEF ExperimentInv, X!Refuse, X!settings, X!outputs, X!Calm, ValuesTyped, GroupsTyped, OutputsTyped,
         EvidenceStages, X!OriginalIsSaved, X!EvidenceKept
  <2>8. QED
    BY <2>2, <2>3, <2>4, <2>5, <2>6, <2>7 DEF ExperimentInv
<1>10. ASSUME NEW r \in Slots, X!MakeStage(r) PROVE ExperimentInv'
  <2>1. \A q \in Slots : q # r => invocation[q] = "off" /\ groups[q] = {}
    BY <1>10 DEF ExperimentInv, X!MakeStage, X!Legs, X!Cleanup, Solo, AtWork
  <2>2. InvocationsTyped'
    BY <1>10, <2>1 DEF ExperimentInv, X!MakeStage, X!Goto, X!settings, X!Calm, InvocationsTyped, ExperimentSteps, Recovering,
         Measuring, X!Legs, X!Cleanup
  <2>3. OutputsTyped'
    BY <1>10, <2>1, SettingsAssumption, NoStageFields DEF ExperimentInv, X!MakeStage, X!Goto, X!settings, X!Calm,
         OutputsTyped, EvidenceStages
  <2>4. Solo'
    BY <1>10, <2>1 DEF ExperimentInv, X!MakeStage, X!Goto, X!settings, X!Calm, Solo, AtWork, GroupsTyped,
         InvocationsTyped, ExperimentSteps, Recovering, Measuring, X!Legs, X!Cleanup
  <2>5. GroupsInLegs'
    BY <1>10, <2>1 DEF ExperimentInv, X!MakeStage, X!Goto, X!settings, X!Calm, GroupsInLegs, X!Legs, GroupsTyped,
         InvocationsTyped, ExperimentSteps, Recovering, Measuring, X!Cleanup
  <2>6. RestoredSince'
    BY <1>10, <2>1, SettingsAssumption DEF ExperimentInv, X!MakeStage, X!Goto, X!settings, X!Calm, RestoredSince,
         Restored, X!AllOriginal, TurboLegs, ValuesTyped, X!OriginalIsSaved, InvocationsTyped, ExperimentSteps,
         Recovering, Measuring, X!Legs, X!Cleanup
  <2>7. StageThere'
    BY <1>10, <2>1, NoStageFields DEF ExperimentInv, X!MakeStage, X!Goto, X!settings, X!Calm, StageThere,
         Recovering, Measuring, X!Legs, InvocationsTyped, ExperimentSteps, X!Cleanup, OutputsTyped, EvidenceStages, Solo,
         AtWork
  <2>8. X!EvidenceKept'
    BY <1>10, <2>1, SettingsAssumption, NoStageFields DEF ExperimentInv, X!MakeStage, X!Goto, X!settings, X!Calm,
         X!EvidenceKept, OutputsTyped, EvidenceStages, StageThere, Recovering, Measuring, X!Legs
  <2>9. ValuesTyped' /\ GroupsTyped' /\ X!OriginalIsSaved'
    BY <1>10 DEF ExperimentInv, X!MakeStage, X!settings, X!Calm, ValuesTyped, GroupsTyped, X!OriginalIsSaved
  <2>10. QED
    BY <2>2, <2>3, <2>4, <2>5, <2>6, <2>7, <2>8, <2>9 DEF ExperimentInv
<1>11. ASSUME NEW r \in Slots, X!WriteRecord(r) PROVE ExperimentInv'
  <2>1. \A q \in Slots : q # r => invocation[q] = "off" /\ groups[q] = {}
    BY <1>11 DEF ExperimentInv, X!WriteRecord, X!Legs, X!Cleanup, Solo, AtWork
  <2>2. InvocationsTyped'
    BY <1>11, <2>1 DEF ExperimentInv, X!WriteRecord, X!Goto, X!settings, X!Calm, InvocationsTyped, ExperimentSteps, Recovering,
         Measuring, X!Legs, X!Cleanup
  <2>3. Solo'
    BY <1>11, <2>1 DEF ExperimentInv, X!WriteRecord, X!Goto, X!settings, X!Calm, Solo, AtWork, GroupsTyped,
         InvocationsTyped, ExperimentSteps, Recovering, Measuring, X!Legs, X!Cleanup
  <2>4. GroupsInLegs'
    BY <1>11, <2>1 DEF ExperimentInv, X!WriteRecord, X!Goto, X!settings, X!Calm, GroupsInLegs, X!Legs, GroupsTyped,
         InvocationsTyped, ExperimentSteps, Recovering, Measuring, X!Cleanup
  <2>5. RestoredSince'
    BY <1>11, <2>1, SettingsAssumption DEF ExperimentInv, X!WriteRecord, X!Goto, X!settings, X!Calm,
         RestoredSince, Restored, X!AllOriginal, TurboLegs, ValuesTyped, X!OriginalIsSaved,
         InvocationsTyped, ExperimentSteps, Recovering, Measuring, X!Legs, X!Cleanup
  <2>6. StageThere'
    BY <1>11, <2>1, NoStageFields DEF ExperimentInv, X!WriteRecord, X!Goto, X!settings, X!Calm, StageThere,
         Recovering, Measuring, X!Legs, InvocationsTyped, ExperimentSteps, X!Cleanup, OutputsTyped, EvidenceStages, Solo,
         AtWork
  <2>7. ValuesTyped' /\ GroupsTyped' /\ OutputsTyped' /\ X!OriginalIsSaved' /\ X!EvidenceKept'
    BY <1>11 DEF ExperimentInv, X!WriteRecord, X!settings, X!Calm, ValuesTyped, GroupsTyped, OutputsTyped,
         EvidenceStages, X!OriginalIsSaved, X!EvidenceKept
  <2>8. QED
    BY <2>2, <2>3, <2>4, <2>5, <2>6, <2>7 DEF ExperimentInv
<1>12. ASSUME NEW r \in Slots, X!SaveTurbo(r) PROVE ExperimentInv'
  <2>1. \A q \in Slots : q # r => invocation[q] = "off" /\ groups[q] = {}
    BY <1>12 DEF ExperimentInv, X!SaveTurbo, X!Legs, X!Cleanup, Solo, AtWork
  <2>2. ValuesTyped'
    BY <1>12, <2>1 DEF ExperimentInv, X!SaveTurbo, X!Save, X!Goto, X!outputs, X!Calm, ValuesTyped
  <2>3. InvocationsTyped'
    BY <1>12, <2>1 DEF ExperimentInv, X!SaveTurbo, X!Save, X!Goto, X!outputs, X!Calm, InvocationsTyped, ExperimentSteps,
         Recovering, Measuring, X!Legs, X!Cleanup
  <2>4. Solo'
    BY <1>12, <2>1 DEF ExperimentInv, X!SaveTurbo, X!Save, X!Goto, X!outputs, X!Calm, Solo, AtWork, GroupsTyped,
         InvocationsTyped, ExperimentSteps, Recovering, Measuring, X!Legs, X!Cleanup
  <2>5. GroupsInLegs'
    BY <1>12, <2>1 DEF ExperimentInv, X!SaveTurbo, X!Save, X!Goto, X!outputs, X!Calm, GroupsInLegs, X!Legs,
         GroupsTyped, InvocationsTyped, ExperimentSteps, Recovering, Measuring, X!Cleanup
  <2>6. X!OriginalIsSaved'
    BY <1>12, <2>1, SettingsAssumption DEF ExperimentInv, X!SaveTurbo, X!Save, X!Goto, X!outputs, X!Calm,
         X!OriginalIsSaved, ValuesTyped, RestoredSince, Restored, X!AllOriginal, TurboLegs
  <2>7. RestoredSince'
    BY <1>12, <2>1, SettingsAssumption DEF ExperimentInv, X!SaveTurbo, X!Save, X!Goto, X!outputs, X!Calm,
         RestoredSince, Restored, X!AllOriginal, TurboLegs, ValuesTyped, X!OriginalIsSaved,
         InvocationsTyped, ExperimentSteps, Recovering, Measuring, X!Legs, X!Cleanup
  <2>8. StageThere'
    BY <1>12, <2>1, NoStageFields DEF ExperimentInv, X!SaveTurbo, X!Save, X!Goto, X!outputs, X!Calm, StageThere,
         Recovering, Measuring, X!Legs, InvocationsTyped, ExperimentSteps, X!Cleanup, OutputsTyped, EvidenceStages, Solo,
         AtWork
  <2>9. GroupsTyped' /\ OutputsTyped' /\ X!EvidenceKept'
    BY <1>12 DEF ExperimentInv, X!SaveTurbo, X!Save, X!outputs, X!Calm, GroupsTyped, OutputsTyped, EvidenceStages,
         X!EvidenceKept
  <2>10. QED
    BY <2>2, <2>3, <2>4, <2>5, <2>6, <2>7, <2>8, <2>9 DEF ExperimentInv
<1>13. ASSUME NEW r \in Slots, X!SetCap(r) PROVE ExperimentInv'
  <2>1. \A q \in Slots : q # r => invocation[q] = "off" /\ groups[q] = {}
    BY <1>13 DEF ExperimentInv, X!SetCap, X!Legs, X!Cleanup, Solo, AtWork
  <2>2. ValuesTyped'
    BY <1>13, <2>1 DEF ExperimentInv, X!SetCap, X!Save, X!Goto, X!outputs, X!Calm, ValuesTyped
  <2>3. InvocationsTyped'
    BY <1>13, <2>1 DEF ExperimentInv, X!SetCap, X!Save, X!Goto, X!outputs, X!Calm, InvocationsTyped, ExperimentSteps, Recovering,
         Measuring, X!Legs, X!Cleanup
  <2>4. Solo'
    BY <1>13, <2>1 DEF ExperimentInv, X!SetCap, X!Save, X!Goto, X!outputs, X!Calm, Solo, AtWork, GroupsTyped,
         InvocationsTyped, ExperimentSteps, Recovering, Measuring, X!Legs, X!Cleanup
  <2>5. GroupsInLegs'
    BY <1>13, <2>1 DEF ExperimentInv, X!SetCap, X!Save, X!Goto, X!outputs, X!Calm, GroupsInLegs, X!Legs, GroupsTyped,
         InvocationsTyped, ExperimentSteps, Recovering, Measuring, X!Cleanup
  <2>6. X!OriginalIsSaved'
    BY <1>13, <2>1, SettingsAssumption DEF ExperimentInv, X!SetCap, X!Save, X!Goto, X!outputs, X!Calm,
         X!OriginalIsSaved, ValuesTyped, RestoredSince, Restored, X!AllOriginal, TurboLegs
  <2>7. RestoredSince'
    BY <1>13, <2>1, SettingsAssumption DEF ExperimentInv, X!SetCap, X!Save, X!Goto, X!outputs, X!Calm,
         RestoredSince, Restored, X!AllOriginal, TurboLegs, ValuesTyped, X!OriginalIsSaved,
         InvocationsTyped, ExperimentSteps, Recovering, Measuring, X!Legs, X!Cleanup
  <2>8. StageThere'
    BY <1>13, <2>1, NoStageFields DEF ExperimentInv, X!SetCap, X!Save, X!Goto, X!outputs, X!Calm, StageThere,
         Recovering, Measuring, X!Legs, InvocationsTyped, ExperimentSteps, X!Cleanup, OutputsTyped, EvidenceStages, Solo,
         AtWork
  <2>9. GroupsTyped' /\ OutputsTyped' /\ X!EvidenceKept'
    BY <1>13 DEF ExperimentInv, X!SetCap, X!Save, X!outputs, X!Calm, GroupsTyped, OutputsTyped, EvidenceStages,
         X!EvidenceKept
  <2>10. QED
    BY <2>2, <2>3, <2>4, <2>5, <2>6, <2>7, <2>8, <2>9 DEF ExperimentInv
<1>14. ASSUME NEW r \in Slots, X!SetTurbo(r) PROVE ExperimentInv'
  <2>1. \A q \in Slots : q # r => invocation[q] = "off" /\ groups[q] = {}
    BY <1>14 DEF ExperimentInv, X!SetTurbo, X!Legs, X!Cleanup, Solo, AtWork
  <2>2. ValuesTyped'
    BY <1>14, <2>1 DEF ExperimentInv, X!SetTurbo, X!Goto, X!outputs, X!Calm, ValuesTyped
  <2>3. InvocationsTyped'
    BY <1>14, <2>1 DEF ExperimentInv, X!SetTurbo, X!Goto, X!outputs, X!Calm, InvocationsTyped, ExperimentSteps, Recovering,
         Measuring, X!Legs, X!Cleanup
  <2>4. Solo'
    BY <1>14, <2>1 DEF ExperimentInv, X!SetTurbo, X!Goto, X!outputs, X!Calm, Solo, AtWork, GroupsTyped,
         InvocationsTyped, ExperimentSteps, Recovering, Measuring, X!Legs, X!Cleanup
  <2>5. GroupsInLegs'
    BY <1>14, <2>1 DEF ExperimentInv, X!SetTurbo, X!Goto, X!outputs, X!Calm, GroupsInLegs, X!Legs, GroupsTyped,
         InvocationsTyped, ExperimentSteps, Recovering, Measuring, X!Cleanup
  <2>6. X!OriginalIsSaved'
    BY <1>14, <2>1, SettingsAssumption DEF ExperimentInv, X!SetTurbo, X!Goto, X!outputs, X!Calm, X!OriginalIsSaved,
         ValuesTyped, RestoredSince, Restored, X!AllOriginal, TurboLegs
  <2>7. RestoredSince'
    BY <1>14, <2>1, SettingsAssumption DEF ExperimentInv, X!SetTurbo, X!Goto, X!outputs, X!Calm, RestoredSince,
         Restored, X!AllOriginal, TurboLegs, ValuesTyped, X!OriginalIsSaved, InvocationsTyped, ExperimentSteps,
         Recovering, Measuring, X!Legs, X!Cleanup
  <2>8. StageThere'
    BY <1>14, <2>1, NoStageFields DEF ExperimentInv, X!SetTurbo, X!Goto, X!outputs, X!Calm, StageThere,
         Recovering, Measuring, X!Legs, InvocationsTyped, ExperimentSteps, X!Cleanup, OutputsTyped, EvidenceStages, Solo,
         AtWork
  <2>9. GroupsTyped' /\ OutputsTyped' /\ X!EvidenceKept'
    BY <1>14 DEF ExperimentInv, X!SetTurbo, X!outputs, X!Calm, GroupsTyped, OutputsTyped, EvidenceStages, X!EvidenceKept
  <2>10. QED
    BY <2>2, <2>3, <2>4, <2>5, <2>6, <2>7, <2>8, <2>9 DEF ExperimentInv
<1>15. ASSUME NEW r \in Slots, X!StartLeg(r) PROVE ExperimentInv'
  <2>1. \A q \in Slots : q # r => invocation[q] = "off" /\ groups[q] = {}
    BY <1>15 DEF ExperimentInv, X!StartLeg, X!Legs, X!Cleanup, Solo, AtWork
  <2>2. GroupsTyped'
    BY <1>15, <2>1 DEF ExperimentInv, X!StartLeg, X!Legs, X!settings, X!outputs, X!Calm, GroupsTyped
  <2>3. Solo'
    BY <1>15, <2>1 DEF ExperimentInv, X!StartLeg, X!Legs, X!settings, X!outputs, X!Calm, Solo, AtWork,
         GroupsTyped, InvocationsTyped, ExperimentSteps, Recovering, Measuring, X!Cleanup
  <2>4. GroupsInLegs'
    BY <1>15, <2>1 DEF ExperimentInv, X!StartLeg, X!Legs, X!settings, X!outputs, X!Calm, GroupsInLegs, GroupsTyped,
         InvocationsTyped, ExperimentSteps, Recovering, Measuring, X!Cleanup
  <2>5. ValuesTyped' /\ InvocationsTyped' /\ OutputsTyped' /\ X!OriginalIsSaved' /\ RestoredSince'
        /\ StageThere' /\ X!EvidenceKept'
    BY <1>15 DEF ExperimentInv, X!StartLeg, X!settings, X!outputs, X!Calm, ValuesTyped, InvocationsTyped, ExperimentSteps,
         Recovering, Measuring, X!Legs, X!Cleanup, OutputsTyped, EvidenceStages, X!OriginalIsSaved,
         RestoredSince, Restored, X!AllOriginal, TurboLegs, StageThere, X!EvidenceKept
  <2>6. QED
    BY <2>2, <2>3, <2>4, <2>5 DEF ExperimentInv
<1>16. ASSUME NEW r \in Slots, X!EndLeg(r) PROVE ExperimentInv'
  <2>1. \A q \in Slots : q # r => invocation[q] = "off" /\ groups[q] = {}
    BY <1>16 DEF ExperimentInv, X!EndLeg, X!Legs, X!Cleanup, Solo, AtWork
  <2>2. InvocationsTyped'
    BY <1>16, <2>1 DEF ExperimentInv, X!EndLeg, X!Legs, X!Goto, X!settings, X!outputs, X!Calm, InvocationsTyped, ExperimentSteps,
         Recovering, Measuring, X!Cleanup
  <2>3. GroupsTyped'
    BY <1>16, <2>1 DEF ExperimentInv, X!EndLeg, X!Legs, X!Goto, X!settings, X!outputs, X!Calm, GroupsTyped
  <2>4. Solo'
    BY <1>16, <2>1 DEF ExperimentInv, X!EndLeg, X!Legs, X!Goto, X!settings, X!outputs, X!Calm, Solo, AtWork,
         GroupsTyped, InvocationsTyped, ExperimentSteps, Recovering, Measuring, X!Cleanup
  <2>5. GroupsInLegs'
    BY <1>16, <2>1 DEF ExperimentInv, X!EndLeg, X!Legs, X!Goto, X!settings, X!outputs, X!Calm, GroupsInLegs,
         GroupsTyped, InvocationsTyped, ExperimentSteps, Recovering, Measuring, X!Cleanup
  <2>6. RestoredSince'
    BY <1>16, <2>1, SettingsAssumption DEF ExperimentInv, X!EndLeg, X!Legs, X!Goto, X!settings, X!outputs, X!Calm,
         RestoredSince, Restored, X!AllOriginal, TurboLegs, ValuesTyped, X!OriginalIsSaved,
         InvocationsTyped, ExperimentSteps, Recovering, Measuring, X!Cleanup
  <2>7. StageThere'
    BY <1>16, <2>1, NoStageFields DEF ExperimentInv, X!EndLeg, X!Legs, X!Goto, X!settings, X!outputs, X!Calm,
         StageThere, Recovering, Measuring, InvocationsTyped, ExperimentSteps, X!Cleanup, OutputsTyped, EvidenceStages,
         Solo, AtWork
  <2>8. ValuesTyped' /\ OutputsTyped' /\ X!OriginalIsSaved' /\ X!EvidenceKept'
    BY <1>16 DEF ExperimentInv, X!EndLeg, X!settings, X!outputs, X!Calm, ValuesTyped, OutputsTyped, EvidenceStages,
         X!OriginalIsSaved, X!EvidenceKept
  <2>9. QED
    BY <2>2, <2>3, <2>4, <2>5, <2>6, <2>7, <2>8 DEF ExperimentInv
<1>17. ASSUME NEW r \in Slots, X!SplitCapRows(r) PROVE ExperimentInv'
  <2>1. \A q \in Slots : q # r => invocation[q] = "off" /\ groups[q] = {}
    BY <1>17 DEF ExperimentInv, X!SplitCapRows, X!Legs, X!Cleanup, Solo, AtWork
  <2>2. InvocationsTyped'
    BY <1>17, <2>1 DEF ExperimentInv, X!SplitCapRows, X!Goto, X!settings, X!Calm, InvocationsTyped, ExperimentSteps, Recovering,
         Measuring, X!Legs, X!Cleanup
  <2>3. OutputsTyped'
    <3>1. \A b \in {TRUE, FALSE} : [evidence EXCEPT !.odd = b] \in EvidenceStages
      BY DEF ExperimentInv, OutputsTyped, EvidenceStages
    <3>2. evidence' \in EvidenceStages
      BY <1>17, <3>1 DEF X!SplitCapRows
    <3>3. QED
      BY <1>17, <3>2 DEF ExperimentInv, X!SplitCapRows, OutputsTyped
  <2>4. Solo'
    BY <1>17, <2>1 DEF ExperimentInv, X!SplitCapRows, X!Goto, X!settings, X!Calm, Solo, AtWork, GroupsTyped,
         InvocationsTyped, ExperimentSteps, Recovering, Measuring, X!Legs, X!Cleanup
  <2>5. GroupsInLegs'
    BY <1>17, <2>1 DEF ExperimentInv, X!SplitCapRows, X!Goto, X!settings, X!Calm, GroupsInLegs, X!Legs,
         GroupsTyped, InvocationsTyped, ExperimentSteps, Recovering, Measuring, X!Cleanup
  <2>6. RestoredSince'
    BY <1>17, <2>1, SettingsAssumption DEF ExperimentInv, X!SplitCapRows, X!Goto, X!settings, X!Calm,
         RestoredSince, Restored, X!AllOriginal, TurboLegs, ValuesTyped, X!OriginalIsSaved,
         InvocationsTyped, ExperimentSteps, Recovering, Measuring, X!Legs, X!Cleanup
  <2>7. StageThere'
    BY <1>17, <2>1, NoStageFields DEF ExperimentInv, X!SplitCapRows, X!Goto, X!settings, X!Calm, StageThere,
         Recovering, Measuring, X!Legs, InvocationsTyped, ExperimentSteps, X!Cleanup, OutputsTyped, EvidenceStages, Solo,
         AtWork
  <2>8. X!EvidenceKept'
    BY <1>17, <2>1, SettingsAssumption, NoStageFields DEF ExperimentInv, X!SplitCapRows, X!Goto, X!settings,
         X!Calm, X!EvidenceKept, OutputsTyped, EvidenceStages, StageThere, Recovering, Measuring, X!Legs
  <2>9. ValuesTyped' /\ GroupsTyped' /\ X!OriginalIsSaved'
    BY <1>17 DEF ExperimentInv, X!SplitCapRows, X!settings, X!Calm, ValuesTyped, GroupsTyped, X!OriginalIsSaved
  <2>10. QED
    BY <2>2, <2>3, <2>4, <2>5, <2>6, <2>7, <2>8, <2>9 DEF ExperimentInv
<1>18. ASSUME NEW r \in Slots, X!Finish(r) PROVE ExperimentInv'
  <2>1. \A q \in Slots : q # r => invocation[q] = "off" /\ groups[q] = {}
    BY <1>18 DEF ExperimentInv, X!Finish, X!Legs, X!Cleanup, Solo, AtWork
  <2>2. InvocationsTyped'
    BY <1>18, <2>1 DEF ExperimentInv, X!Finish, X!Goto, X!settings, X!outputs, X!Calm, InvocationsTyped, ExperimentSteps,
         Recovering, Measuring, X!Legs, X!Cleanup
  <2>3. Solo'
    BY <1>18, <2>1 DEF ExperimentInv, X!Finish, X!Goto, X!settings, X!outputs, X!Calm, Solo, AtWork, GroupsTyped,
         InvocationsTyped, ExperimentSteps, Recovering, Measuring, X!Legs, X!Cleanup
  <2>4. GroupsInLegs'
    BY <1>18, <2>1 DEF ExperimentInv, X!Finish, X!Goto, X!settings, X!outputs, X!Calm, GroupsInLegs, X!Legs,
         GroupsTyped, InvocationsTyped, ExperimentSteps, Recovering, Measuring, X!Cleanup
  <2>5. RestoredSince'
    BY <1>18, <2>1, SettingsAssumption DEF ExperimentInv, X!Finish, X!Goto, X!settings, X!outputs, X!Calm,
         RestoredSince, Restored, X!AllOriginal, TurboLegs, ValuesTyped, X!OriginalIsSaved,
         InvocationsTyped, ExperimentSteps, Recovering, Measuring, X!Legs, X!Cleanup
  <2>6. StageThere'
    BY <1>18, <2>1, NoStageFields DEF ExperimentInv, X!Finish, X!Goto, X!settings, X!outputs, X!Calm, StageThere,
         Recovering, Measuring, X!Legs, InvocationsTyped, ExperimentSteps, X!Cleanup, OutputsTyped, EvidenceStages, Solo,
         AtWork
  <2>7. ValuesTyped' /\ GroupsTyped' /\ OutputsTyped' /\ X!OriginalIsSaved' /\ X!EvidenceKept'
    BY <1>18 DEF ExperimentInv, X!Finish, X!settings, X!outputs, X!Calm, ValuesTyped, GroupsTyped, OutputsTyped,
         EvidenceStages, X!OriginalIsSaved, X!EvidenceKept
  <2>8. QED
    BY <2>2, <2>3, <2>4, <2>5, <2>6, <2>7 DEF ExperimentInv
<1>19. ASSUME NEW r \in Slots, X!Stop(r) PROVE ExperimentInv'
  <2>1. \A q \in Slots : q # r => invocation[q] = "off" /\ groups[q] = {}
    BY <1>19 DEF ExperimentInv, X!Stop, X!Legs, X!Cleanup, Solo, AtWork
  <2>2. InvocationsTyped'
    BY <1>19, <2>1 DEF ExperimentInv, X!Stop, X!Goto, X!settings, X!outputs, InvocationsTyped, ExperimentSteps, Recovering,
         Measuring, X!Legs, X!Cleanup
  <2>3. GroupsTyped'
    BY <1>19, <2>1 DEF ExperimentInv, X!Stop, X!Goto, X!settings, X!outputs, GroupsTyped
  <2>4. Solo'
    BY <1>19, <2>1 DEF ExperimentInv, X!Stop, X!Goto, X!settings, X!outputs, Solo, AtWork, GroupsTyped,
         InvocationsTyped, ExperimentSteps, Recovering, Measuring, X!Legs, X!Cleanup
  <2>5. GroupsInLegs'
    BY <1>19, <2>1 DEF ExperimentInv, X!Stop, X!Goto, X!settings, X!outputs, GroupsInLegs, X!Legs, GroupsTyped,
         InvocationsTyped, ExperimentSteps, Recovering, Measuring, X!Cleanup
  <2>6. RestoredSince'
    BY <1>19, <2>1, SettingsAssumption DEF ExperimentInv, X!Stop, X!Goto, X!settings, X!outputs, RestoredSince,
         Restored, X!AllOriginal, TurboLegs, ValuesTyped, X!OriginalIsSaved, InvocationsTyped, ExperimentSteps,
         Recovering, Measuring, X!Legs, X!Cleanup
  <2>7. StageThere'
    BY <1>19, <2>1, NoStageFields DEF ExperimentInv, X!Stop, X!Goto, X!settings, X!outputs, StageThere,
         Recovering, Measuring, X!Legs, InvocationsTyped, ExperimentSteps, X!Cleanup, OutputsTyped, EvidenceStages, Solo,
         AtWork
  <2>8. ValuesTyped' /\ OutputsTyped' /\ X!OriginalIsSaved' /\ X!EvidenceKept'
    BY <1>19 DEF ExperimentInv, X!Stop, X!settings, X!outputs, ValuesTyped, OutputsTyped, EvidenceStages,
         X!OriginalIsSaved, X!EvidenceKept
  <2>9. QED
    BY <2>2, <2>3, <2>4, <2>5, <2>6, <2>7, <2>8 DEF ExperimentInv
<1>20. ASSUME NEW r \in Slots, X!NothingStaged(r) PROVE ExperimentInv'
  <2>1. \A q \in Slots : q # r => invocation[q] = "off" /\ groups[q] = {}
    BY <1>20 DEF ExperimentInv, X!NothingStaged, X!Legs, X!Cleanup, Solo, AtWork
  <2>2. InvocationsTyped'
    BY <1>20, <2>1 DEF ExperimentInv, X!NothingStaged, X!Goto, X!settings, X!outputs, X!Calm, InvocationsTyped, ExperimentSteps,
         Recovering, Measuring, X!Legs, X!Cleanup
  <2>3. Solo'
    BY <1>20, <2>1 DEF ExperimentInv, X!NothingStaged, X!Goto, X!settings, X!outputs, X!Calm, Solo, AtWork,
         GroupsTyped, InvocationsTyped, ExperimentSteps, Recovering, Measuring, X!Legs, X!Cleanup
  <2>4. GroupsInLegs'
    BY <1>20, <2>1 DEF ExperimentInv, X!NothingStaged, X!Goto, X!settings, X!outputs, X!Calm, GroupsInLegs, X!Legs,
         GroupsTyped, InvocationsTyped, ExperimentSteps, Recovering, Measuring, X!Cleanup
  <2>5. RestoredSince'
    BY <1>20, <2>1, SettingsAssumption DEF ExperimentInv, X!NothingStaged, X!Goto, X!settings, X!outputs, X!Calm,
         RestoredSince, Restored, X!AllOriginal, TurboLegs, ValuesTyped, X!OriginalIsSaved,
         InvocationsTyped, ExperimentSteps, Recovering, Measuring, X!Legs, X!Cleanup
  <2>6. StageThere'
    BY <1>20, <2>1, NoStageFields DEF ExperimentInv, X!NothingStaged, X!Goto, X!settings, X!outputs, X!Calm,
         StageThere, Recovering, Measuring, X!Legs, InvocationsTyped, ExperimentSteps, X!Cleanup, OutputsTyped,
         EvidenceStages, Solo, AtWork
  <2>7. ValuesTyped' /\ GroupsTyped' /\ OutputsTyped' /\ X!OriginalIsSaved' /\ X!EvidenceKept'
    BY <1>20 DEF ExperimentInv, X!NothingStaged, X!settings, X!outputs, X!Calm, ValuesTyped, GroupsTyped,
         OutputsTyped, EvidenceStages, X!OriginalIsSaved, X!EvidenceKept
  <2>8. QED
    BY <2>2, <2>3, <2>4, <2>5, <2>6, <2>7 DEF ExperimentInv
<1>21. ASSUME NEW r \in Slots, X!Release(r) PROVE ExperimentInv'
  <2>1. \A q \in Slots : q # r => invocation[q] = "off" /\ groups[q] = {}
    BY <1>21 DEF ExperimentInv, X!Release, X!Legs, X!Cleanup, Solo, AtWork
  <2>2. InvocationsTyped'
    BY <1>21, <2>1 DEF ExperimentInv, X!Release, X!Goto, X!settings, X!outputs, InvocationsTyped, ExperimentSteps, Recovering,
         Measuring, X!Legs, X!Cleanup
  <2>3. Solo'
    BY <1>21, <2>1 DEF ExperimentInv, X!Release, X!Goto, X!settings, X!outputs, Solo, AtWork, GroupsTyped,
         InvocationsTyped, ExperimentSteps, Recovering, Measuring, X!Legs, X!Cleanup
  <2>4. GroupsInLegs'
    BY <1>21, <2>1 DEF ExperimentInv, X!Release, X!Goto, X!settings, X!outputs, GroupsInLegs, X!Legs, GroupsTyped,
         InvocationsTyped, ExperimentSteps, Recovering, Measuring, X!Cleanup
  <2>5. RestoredSince'
    BY <1>21, <2>1, SettingsAssumption DEF ExperimentInv, X!Release, X!Goto, X!settings, X!outputs,
         RestoredSince, Restored, X!AllOriginal, TurboLegs, ValuesTyped, X!OriginalIsSaved,
         InvocationsTyped, ExperimentSteps, Recovering, Measuring, X!Legs, X!Cleanup
  <2>6. StageThere'
    BY <1>21, <2>1, NoStageFields DEF ExperimentInv, X!Release, X!Goto, X!settings, X!outputs, StageThere,
         Recovering, Measuring, X!Legs, InvocationsTyped, ExperimentSteps, X!Cleanup, OutputsTyped, EvidenceStages, Solo,
         AtWork
  <2>7. ValuesTyped' /\ GroupsTyped' /\ OutputsTyped' /\ X!OriginalIsSaved' /\ X!EvidenceKept'
    BY <1>21 DEF ExperimentInv, X!Release, X!settings, X!outputs, ValuesTyped, GroupsTyped, OutputsTyped,
         EvidenceStages, X!OriginalIsSaved, X!EvidenceKept
  <2>8. QED
    BY <2>2, <2>3, <2>4, <2>5, <2>6, <2>7 DEF ExperimentInv
<1>22. ASSUME NEW r \in Slots, X!OrphansEnd(r) PROVE ExperimentInv'
  <2>1. \A q \in Slots : q # r => invocation[q] = "off" /\ groups[q] = {}
    BY <1>22 DEF ExperimentInv, X!OrphansEnd, X!Legs, X!Cleanup, Solo, AtWork
  <2>2. GroupsTyped'
    BY <1>22, <2>1 DEF ExperimentInv, X!OrphansEnd, X!settings, X!outputs, X!Calm, GroupsTyped
  <2>3. Solo'
    BY <1>22, <2>1 DEF ExperimentInv, X!OrphansEnd, X!settings, X!outputs, X!Calm, Solo, AtWork, GroupsTyped,
         InvocationsTyped, ExperimentSteps, Recovering, Measuring, X!Legs, X!Cleanup
  <2>4. GroupsInLegs'
    BY <1>22, <2>1 DEF ExperimentInv, X!OrphansEnd, X!settings, X!outputs, X!Calm, GroupsInLegs, X!Legs,
         GroupsTyped, InvocationsTyped, ExperimentSteps, Recovering, Measuring, X!Cleanup
  <2>5. ValuesTyped' /\ InvocationsTyped' /\ OutputsTyped' /\ X!OriginalIsSaved' /\ RestoredSince'
        /\ StageThere' /\ X!EvidenceKept'
    BY <1>22 DEF ExperimentInv, X!OrphansEnd, X!settings, X!outputs, X!Calm, ValuesTyped, InvocationsTyped, ExperimentSteps,
         Recovering, Measuring, X!Legs, X!Cleanup, OutputsTyped, EvidenceStages, X!OriginalIsSaved,
         RestoredSince, Restored, X!AllOriginal, TurboLegs, StageThere, X!EvidenceKept
  <2>6. QED
    BY <2>2, <2>3, <2>4, <2>5 DEF ExperimentInv
<1>23. ASSUME NEW r \in Slots, X!RestoreFails(r) PROVE ExperimentInv'
  <2>1. \A q \in Slots : q # r => invocation[q] = "off" /\ groups[q] = {}
    BY <1>23 DEF ExperimentInv, X!RestoreFails, X!RestorePc, X!Cleanup, Solo, AtWork
  <2>2. InvocationsTyped'
    BY <1>23, <2>1 DEF ExperimentInv, X!RestoreFails, X!RestorePc, X!Pending, X!Fault, X!Goto, X!settings, X!outputs,
         InvocationsTyped, ExperimentSteps, Recovering, Measuring, X!Legs, X!Cleanup
  <2>3. Solo'
    BY <1>23, <2>1 DEF ExperimentInv, X!RestoreFails, X!RestorePc, X!Pending, X!Fault, X!Goto, X!settings, X!outputs,
         Solo, AtWork, GroupsTyped, InvocationsTyped, ExperimentSteps, Recovering, Measuring, X!Legs, X!Cleanup
  <2>4. GroupsInLegs'
    BY <1>23, <2>1 DEF ExperimentInv, X!RestoreFails, X!RestorePc, X!Pending, X!Fault, X!Goto, X!settings, X!outputs,
         GroupsInLegs, X!Legs, GroupsTyped, InvocationsTyped, ExperimentSteps, Recovering, Measuring, X!Cleanup
  <2>5. RestoredSince'
    BY <1>23, <2>1, SettingsAssumption DEF ExperimentInv, X!RestoreFails, X!RestorePc, X!Pending, X!Fault, X!Goto,
         X!settings, X!outputs, RestoredSince, Restored, X!AllOriginal, TurboLegs, ValuesTyped,
         X!OriginalIsSaved, InvocationsTyped, ExperimentSteps, Recovering, Measuring, X!Legs, X!Cleanup
  <2>6. StageThere'
    BY <1>23, <2>1, NoStageFields DEF ExperimentInv, X!RestoreFails, X!RestorePc, X!Pending, X!Fault, X!Goto,
         X!settings, X!outputs, StageThere, Recovering, Measuring, X!Legs, InvocationsTyped, ExperimentSteps, X!Cleanup,
         OutputsTyped, EvidenceStages, Solo, AtWork
  <2>7. ValuesTyped' /\ GroupsTyped' /\ OutputsTyped' /\ X!OriginalIsSaved' /\ X!EvidenceKept'
    BY <1>23 DEF ExperimentInv, X!RestoreFails, X!settings, X!outputs, ValuesTyped, GroupsTyped, OutputsTyped,
         EvidenceStages, X!OriginalIsSaved, X!EvidenceKept
  <2>8. QED
    BY <2>2, <2>3, <2>4, <2>5, <2>6, <2>7 DEF ExperimentInv
<1>24. ASSUME NEW r \in Slots, X!PublishFails(r) PROVE ExperimentInv'
  <2>1. \A q \in Slots : q # r => invocation[q] = "off" /\ groups[q] = {}
    BY <1>24 DEF ExperimentInv, X!PublishFails, X!Legs, X!Cleanup, Solo, AtWork
  <2>2. InvocationsTyped'
    BY <1>24, <2>1 DEF ExperimentInv, X!PublishFails, X!Fault, X!Goto, X!settings, X!outputs, InvocationsTyped, ExperimentSteps,
         Recovering, Measuring, X!Legs, X!Cleanup
  <2>3. Solo'
    BY <1>24, <2>1 DEF ExperimentInv, X!PublishFails, X!Fault, X!Goto, X!settings, X!outputs, Solo, AtWork,
         GroupsTyped, InvocationsTyped, ExperimentSteps, Recovering, Measuring, X!Legs, X!Cleanup
  <2>4. GroupsInLegs'
    BY <1>24, <2>1 DEF ExperimentInv, X!PublishFails, X!Fault, X!Goto, X!settings, X!outputs, GroupsInLegs, X!Legs,
         GroupsTyped, InvocationsTyped, ExperimentSteps, Recovering, Measuring, X!Cleanup
  <2>5. RestoredSince'
    BY <1>24, <2>1, SettingsAssumption DEF ExperimentInv, X!PublishFails, X!Fault, X!Goto, X!settings, X!outputs,
         RestoredSince, Restored, X!AllOriginal, TurboLegs, ValuesTyped, X!OriginalIsSaved,
         InvocationsTyped, ExperimentSteps, Recovering, Measuring, X!Legs, X!Cleanup
  <2>6. StageThere'
    BY <1>24, <2>1, NoStageFields DEF ExperimentInv, X!PublishFails, X!Fault, X!Goto, X!settings, X!outputs,
         StageThere, Recovering, Measuring, X!Legs, InvocationsTyped, ExperimentSteps, X!Cleanup, OutputsTyped,
         EvidenceStages, Solo, AtWork
  <2>7. ValuesTyped' /\ GroupsTyped' /\ OutputsTyped' /\ X!OriginalIsSaved' /\ X!EvidenceKept'
    BY <1>24 DEF ExperimentInv, X!PublishFails, X!settings, X!outputs, ValuesTyped, GroupsTyped, OutputsTyped,
         EvidenceStages, X!OriginalIsSaved, X!EvidenceKept
  <2>8. QED
    BY <2>2, <2>3, <2>4, <2>5, <2>6, <2>7 DEF ExperimentInv
<1>25. ASSUME NEW r \in Slots, X!SamplerDies(r) PROVE ExperimentInv'
  <2>1. \A q \in Slots : q # r => invocation[q] = "off" /\ groups[q] = {}
    BY <1>25 DEF ExperimentInv, X!SamplerDies, X!Legs, X!Cleanup, Solo, AtWork
  <2>2. GroupsTyped'
    BY <1>25, <2>1 DEF ExperimentInv, X!SamplerDies, X!Fault, X!settings, X!outputs, GroupsTyped
  <2>3. Solo'
    BY <1>25, <2>1 DEF ExperimentInv, X!SamplerDies, X!Fault, X!settings, X!outputs, Solo, AtWork, GroupsTyped,
         InvocationsTyped, ExperimentSteps, Recovering, Measuring, X!Legs, X!Cleanup
  <2>4. GroupsInLegs'
    BY <1>25, <2>1 DEF ExperimentInv, X!SamplerDies, X!Fault, X!settings, X!outputs, GroupsInLegs, X!Legs,
         GroupsTyped, InvocationsTyped, ExperimentSteps, Recovering, Measuring, X!Cleanup
  <2>5. ValuesTyped' /\ InvocationsTyped' /\ OutputsTyped' /\ X!OriginalIsSaved' /\ RestoredSince'
        /\ StageThere' /\ X!EvidenceKept'
    BY <1>25 DEF ExperimentInv, X!SamplerDies, X!settings, X!outputs, ValuesTyped, InvocationsTyped, ExperimentSteps,
         Recovering, Measuring, X!Legs, X!Cleanup, OutputsTyped, EvidenceStages, X!OriginalIsSaved,
         RestoredSince, Restored, X!AllOriginal, TurboLegs, StageThere, X!EvidenceKept
  <2>6. QED
    BY <2>2, <2>3, <2>4, <2>5 DEF ExperimentInv
<1>26. ASSUME NEW r \in Slots, X!Interrupt(r) PROVE ExperimentInv'
  <2>1. \A q \in Slots : q # r => invocation[q] = "off" /\ groups[q] = {}
    BY <1>26 DEF ExperimentInv, X!Interrupt, X!Running, X!Cleanup, Solo, AtWork
  <2>2. InvocationsTyped'
    BY <1>26, <2>1 DEF ExperimentInv, X!Interrupt, X!Running, X!Cleanup, X!Fault, X!Goto, X!settings, X!outputs,
         InvocationsTyped, ExperimentSteps, Recovering, Measuring, X!Legs
  <2>3. Solo'
    BY <1>26, <2>1 DEF ExperimentInv, X!Interrupt, X!Running, X!Cleanup, X!Fault, X!Goto, X!settings, X!outputs, Solo,
         AtWork, GroupsTyped, InvocationsTyped, ExperimentSteps, Recovering, Measuring, X!Legs
  <2>4. GroupsInLegs'
    BY <1>26, <2>1 DEF ExperimentInv, X!Interrupt, X!Running, X!Cleanup, X!Fault, X!Goto, X!settings, X!outputs,
         GroupsInLegs, X!Legs, GroupsTyped, InvocationsTyped, ExperimentSteps, Recovering, Measuring
  <2>5. RestoredSince'
    BY <1>26, <2>1, SettingsAssumption DEF ExperimentInv, X!Interrupt, X!Running, X!Cleanup, X!Fault, X!Goto,
         X!settings, X!outputs, RestoredSince, Restored, X!AllOriginal, TurboLegs, ValuesTyped,
         X!OriginalIsSaved, InvocationsTyped, ExperimentSteps, Recovering, Measuring, X!Legs
  <2>6. StageThere'
    BY <1>26, <2>1, NoStageFields DEF ExperimentInv, X!Interrupt, X!Running, X!Cleanup, X!Fault, X!Goto, X!settings,
         X!outputs, StageThere, Recovering, Measuring, X!Legs, InvocationsTyped, ExperimentSteps, OutputsTyped,
         EvidenceStages, Solo, AtWork
  <2>7. ValuesTyped' /\ GroupsTyped' /\ OutputsTyped' /\ X!OriginalIsSaved' /\ X!EvidenceKept'
    BY <1>26 DEF ExperimentInv, X!Interrupt, X!settings, X!outputs, ValuesTyped, GroupsTyped, OutputsTyped,
         EvidenceStages, X!OriginalIsSaved, X!EvidenceKept
  <2>8. QED
    BY <2>2, <2>3, <2>4, <2>5, <2>6, <2>7 DEF ExperimentInv
<1>27. ASSUME NEW r \in Slots, X!StopFails(r) PROVE ExperimentInv'
  <2>1. \A q \in Slots : q # r => invocation[q] = "off" /\ groups[q] = {}
    BY <1>27 DEF ExperimentInv, X!StopFails, X!Legs, X!Cleanup, Solo, AtWork
  <2>2. InvocationsTyped'
    BY <1>27, <2>1 DEF ExperimentInv, X!StopFails, X!Fault, X!Goto, X!settings, X!outputs, InvocationsTyped, ExperimentSteps,
         Recovering, Measuring, X!Legs, X!Cleanup
  <2>3. Solo'
    BY <1>27, <2>1 DEF ExperimentInv, X!StopFails, X!Fault, X!Goto, X!settings, X!outputs, Solo, AtWork,
         GroupsTyped, InvocationsTyped, ExperimentSteps, Recovering, Measuring, X!Legs, X!Cleanup
  <2>4. GroupsInLegs'
    BY <1>27, <2>1 DEF ExperimentInv, X!StopFails, X!Fault, X!Goto, X!settings, X!outputs, GroupsInLegs, X!Legs,
         GroupsTyped, InvocationsTyped, ExperimentSteps, Recovering, Measuring, X!Cleanup
  <2>5. RestoredSince'
    BY <1>27, <2>1, SettingsAssumption DEF ExperimentInv, X!StopFails, X!Fault, X!Goto, X!settings, X!outputs,
         RestoredSince, Restored, X!AllOriginal, TurboLegs, ValuesTyped, X!OriginalIsSaved,
         InvocationsTyped, ExperimentSteps, Recovering, Measuring, X!Legs, X!Cleanup
  <2>6. StageThere'
    BY <1>27, <2>1, NoStageFields DEF ExperimentInv, X!StopFails, X!Fault, X!Goto, X!settings, X!outputs,
         StageThere, Recovering, Measuring, X!Legs, InvocationsTyped, ExperimentSteps, X!Cleanup, OutputsTyped,
         EvidenceStages, Solo, AtWork
  <2>7. ValuesTyped' /\ GroupsTyped' /\ OutputsTyped' /\ X!OriginalIsSaved' /\ X!EvidenceKept'
    BY <1>27 DEF ExperimentInv, X!StopFails, X!settings, X!outputs, ValuesTyped, GroupsTyped, OutputsTyped,
         EvidenceStages, X!OriginalIsSaved, X!EvidenceKept
  <2>8. QED
    BY <2>2, <2>3, <2>4, <2>5, <2>6, <2>7 DEF ExperimentInv
<1>28. ASSUME NEW r \in Slots, X!Kill(r) PROVE ExperimentInv'
  <2>1. \A q \in Slots : q # r => invocation[q] = "off" /\ groups[q] = {}
    BY <1>28 DEF ExperimentInv, X!Kill, X!Legs, X!Cleanup, Solo, AtWork
  <2>2. InvocationsTyped'
    BY <1>28, <2>1 DEF ExperimentInv, X!Kill, X!Fault, X!Goto, X!settings, X!outputs, InvocationsTyped, ExperimentSteps,
         Recovering, Measuring, X!Legs, X!Cleanup
  <2>3. Solo'
    BY <1>28, <2>1 DEF ExperimentInv, X!Kill, X!Fault, X!Goto, X!settings, X!outputs, Solo, AtWork, GroupsTyped,
         InvocationsTyped, ExperimentSteps, Recovering, Measuring, X!Legs, X!Cleanup
  <2>4. GroupsInLegs'
    BY <1>28, <2>1 DEF ExperimentInv, X!Kill, X!Fault, X!Goto, X!settings, X!outputs, GroupsInLegs, X!Legs,
         GroupsTyped, InvocationsTyped, ExperimentSteps, Recovering, Measuring, X!Cleanup
  <2>5. RestoredSince'
    BY <1>28, <2>1, SettingsAssumption DEF ExperimentInv, X!Kill, X!Fault, X!Goto, X!settings, X!outputs,
         RestoredSince, Restored, X!AllOriginal, TurboLegs, ValuesTyped, X!OriginalIsSaved,
         InvocationsTyped, ExperimentSteps, Recovering, Measuring, X!Legs, X!Cleanup
  <2>6. StageThere'
    BY <1>28, <2>1, NoStageFields DEF ExperimentInv, X!Kill, X!Fault, X!Goto, X!settings, X!outputs, StageThere,
         Recovering, Measuring, X!Legs, InvocationsTyped, ExperimentSteps, X!Cleanup, OutputsTyped, EvidenceStages, Solo,
         AtWork
  <2>7. ValuesTyped' /\ GroupsTyped' /\ OutputsTyped' /\ X!OriginalIsSaved' /\ X!EvidenceKept'
    BY <1>28 DEF ExperimentInv, X!Kill, X!settings, X!outputs, ValuesTyped, GroupsTyped, OutputsTyped, EvidenceStages,
         X!OriginalIsSaved, X!EvidenceKept
  <2>8. QED
    BY <2>2, <2>3, <2>4, <2>5, <2>6, <2>7 DEF ExperimentInv
<1>29. CASE X!Reboot
  <2>1. ValuesTyped'
    BY <1>29 DEF ExperimentInv, X!Reboot, X!Fault, ValuesTyped
  <2>2. InvocationsTyped'
    BY <1>29 DEF ExperimentInv, X!Reboot, X!Fault, InvocationsTyped, ExperimentSteps, Recovering, Measuring, X!Legs, X!Cleanup
  <2>3. GroupsTyped'
    BY <1>29 DEF ExperimentInv, X!Reboot, X!Fault, GroupsTyped
  <2>4. OutputsTyped'
    BY <1>29, SettingsAssumption, NoStageFields DEF ExperimentInv, X!Reboot, X!Fault, OutputsTyped, EvidenceStages
  <2>5. Solo'
    BY <1>29 DEF ExperimentInv, X!Reboot, X!Fault, Solo, AtWork, GroupsTyped, InvocationsTyped, ExperimentSteps, Recovering,
         Measuring, X!Legs, X!Cleanup
  <2>6. GroupsInLegs'
    BY <1>29 DEF ExperimentInv, X!Reboot, X!Fault, GroupsInLegs, X!Legs, GroupsTyped, InvocationsTyped, ExperimentSteps,
         Recovering, Measuring, X!Cleanup
  <2>7. X!OriginalIsSaved'
    BY <1>29, SettingsAssumption DEF ExperimentInv, X!Reboot, X!Fault, X!OriginalIsSaved, ValuesTyped,
         RestoredSince, Restored, X!AllOriginal, TurboLegs
  <2>8. RestoredSince'
    BY <1>29, SettingsAssumption DEF ExperimentInv, X!Reboot, X!Fault, RestoredSince, Restored, X!AllOriginal,
         TurboLegs, ValuesTyped, X!OriginalIsSaved, InvocationsTyped, ExperimentSteps, Recovering, Measuring,
         X!Legs, X!Cleanup
  <2>9. StageThere'
    BY <1>29, NoStageFields DEF ExperimentInv, X!Reboot, X!Fault, StageThere, Recovering, Measuring, X!Legs,
         InvocationsTyped, ExperimentSteps, X!Cleanup, OutputsTyped, EvidenceStages, Solo, AtWork
  <2>10. X!EvidenceKept'
    BY <1>29, SettingsAssumption, NoStageFields DEF ExperimentInv, X!Reboot, X!Fault, X!EvidenceKept,
         OutputsTyped, EvidenceStages, StageThere, Recovering, Measuring, X!Legs
  <2>11. QED
    BY <2>1, <2>2, <2>3, <2>4, <2>5, <2>6, <2>7, <2>8, <2>9, <2>10 DEF ExperimentInv
<1>30. CASE UNCHANGED X!vars
  BY ZenonT(60), <1>30 DEF X!vars, X!settings, X!outputs, ExperimentInv, ValuesTyped, InvocationsTyped, ExperimentSteps, Recovering,
       Measuring, X!Legs, X!Cleanup, GroupsTyped, OutputsTyped, EvidenceStages, Solo, AtWork, GroupsInLegs,
       X!OriginalIsSaved, RestoredSince, Restored, X!AllOriginal, TurboLegs, StageThere,
       X!EvidenceKept
<1>31. QED
  BY <1>1, <1>2, <1>3, <1>4, <1>5, <1>6, <1>7, <1>8, <1>9, <1>10, <1>11, <1>12, <1>13, <1>14,
       <1>15, <1>16, <1>17, <1>18, <1>19, <1>20, <1>21, <1>22, <1>23, <1>24, <1>25, <1>26,
       <1>27, <1>28, <1>29, <1>30 DEF X!Next, X!Step, X!Trouble
LEMMA ExperimentInvariant == X!Spec => []ExperimentInv
BY InitExperiment, NextExperiment, PTL DEF X!Spec

-----------------------------------------------------------------------------
(* Whatever is killed while a setting is changed, the ledger holds its       *)
(* original value, which the cleanup or the next invocation writes back.     *)
THEOREM ChangedSettingsAreSaved == X!Spec => []OriginalIsSaved
<1>1. ExperimentInv => OriginalIsSaved
  BY DEF ExperimentInv, OriginalIsSaved
<1>2. QED
  BY <1>1, ExperimentInvariant, PTL

(* What an experiment staged is published once or set aside, never dropped   *)
(* and never mixed with that of another.                                     *)
THEOREM StagedEvidenceIsKept == X!Spec => []EvidenceKept
<1>1. ExperimentInv => EvidenceKept
  BY DEF ExperimentInv, EvidenceKept
<1>2. QED
  BY <1>1, ExperimentInvariant, PTL

LEMMA SettingsRest ==
  ASSUME ExperimentInv, X!Next, NEW r \in Slots, groups[r] # {}, groups'[r] # {}
  PROVE  value' = value
<1>1. invocation[r] \in X!Legs \union {"exit", "off"}
  BY DEF ExperimentInv, GroupsInLegs
<1>2. ASSUME NEW q \in Slots, X!Step(q) \/ X!Trouble(q) PROVE value' = value
  <2>1. q # r => invocation[q] = "off"
    BY DEF ExperimentInv, Solo, AtWork
  <2>2. invocation[q] \notin X!RestorePc \union {"saveCap", "capOn", "turboOff", "turboOn", "restore"}
    BY <1>1, <2>1 DEF X!Legs, X!RestorePc
  <2>3. CASE X!Step(q)
    BY <2>2, <2>3 DEF X!Step, X!Lock, X!Restore, X!NoPending, X!Quarantine, X!Handoff, X!Publish, X!ClearRecord,
       X!RejectedOdd, X!Refuse, X!MakeStage, X!WriteRecord, X!SaveTurbo, X!Save, X!SetCap, X!SetTurbo, X!StartLeg,
       X!EndLeg, X!SplitCapRows, X!Finish, X!Stop, X!NothingStaged, X!Release, X!OrphansEnd, X!settings
  <2>4. CASE X!Trouble(q)
    BY <2>4 DEF X!Trouble, X!RestoreFails, X!PublishFails, X!SamplerDies, X!Interrupt, X!StopFails, X!Kill, X!settings
  <2>5. QED
    BY <1>2, <2>3, <2>4
<1>3. ~X!Reboot
  BY DEF X!Reboot
<1>4. QED
  BY <1>2, <1>3 DEF X!Next

(* No setting changes under a workload that goes on: not by a cleanup, not   *)
(* by a later invocation, not while an orphaned group still runs.            *)
THEOREM LegsSeeOneSetting == X!Spec => OneSettingPerLeg
<1>1. ExperimentInv /\ [X!Next]_X!vars => [(\E r \in Slots : groups[r] # {} /\ groups'[r] # {}) => value' = value]_X!vars
  BY SettingsRest
<1>2. QED
  BY <1>1, ExperimentInvariant, PTL DEF X!Spec, OneSettingPerLeg, X!OneSettingPerLeg

LEMMA LeavingIsRestored ==
  ASSUME ExperimentInv, X!Next, published' # published \/ (evidence'.at = "user" /\ evidence.at = "root")
  PROVE  X!AllOriginal
<1>1. ASSUME NEW r \in Slots, X!Step(r) \/ X!Trouble(r) PROVE X!AllOriginal
  <2>1. X!Handoff(r) \/ X!Publish(r)
    <3>1. CASE X!Step(r)
      BY <3>1, NoStageFields DEF X!Step, X!Lock, X!Restore, X!NoPending, X!Quarantine, X!ClearRecord, X!RejectedOdd,
         X!Refuse, X!MakeStage, X!WriteRecord, X!SaveTurbo, X!SetCap, X!SetTurbo, X!StartLeg, X!EndLeg, X!SplitCapRows,
         X!Finish, X!Stop, X!NothingStaged, X!Release, X!OrphansEnd, X!outputs, ExperimentInv, OutputsTyped, EvidenceStages
    <3>2. CASE X!Trouble(r)
      BY <3>2 DEF X!Trouble, X!RestoreFails, X!PublishFails, X!SamplerDies, X!Interrupt, X!StopFails, X!Kill, X!outputs
    <3>3. QED
      BY <1>1, <3>1, <3>2
  <2>2. QED
    BY <2>1 DEF ExperimentInv, RestoredSince, Restored, X!Handoff, X!Publish
<1>2. ~X!Reboot
  BY NoStageFields DEF X!Reboot
<1>3. QED
  BY <1>1, <1>2 DEF X!Next

(* Evidence is handed to the publisher, and published, only with every       *)
(* setting restored.                                                         *)
THEOREM RestoresComeFirst == X!Spec => RestoredBeforePublished
<1>1. ExperimentInv /\ [X!Next]_X!vars
        => [(published' # published \/ (evidence'.at = "user" /\ evidence.at = "root")) => X!AllOriginal]_X!vars
  BY LeavingIsRestored
<1>2. QED
  BY <1>1, ExperimentInvariant, PTL DEF X!Spec, RestoredBeforePublished, X!RestoredBeforePublished

-----------------------------------------------------------------------------
(* The root checks.                                                          *)
Publishing == {"unmark", "copy", "mark", "remove"}

RootSteps == Publishing \union {"off", "create", "prune", "discard", "discarding", "publish", "collect",
           "cleanup", "verify", "chown", "invalidate"}

CollectorsTyped == collector \in [Procs -> RootSteps]

\* An invocation that publishes holds the lock of the bundle, has withdrawn the
\* manifest, and has withdrawn the marker before it copies.
PublishersHold ==
  \A p \in Procs : /\ collector[p] \in Publishing \union {"invalidate"} => holder = p
                   /\ collector[p] \in Publishing => ~listing
                   /\ collector[p] \in {"copy", "mark"} => ~stamped

RootInv == CollectorsTyped /\ PublishersHold /\ R!MarkedIsOneCollection /\ R!ManifestIsCurrent
-----------------------------------------------------------------------------
(* Preservation. *)
LEMMA InitRoot == R!Init => RootInv
BY DEF R!Init, RootInv, CollectorsTyped, RootSteps, PublishersHold, Publishing, R!MarkedIsOneCollection, R!ManifestIsCurrent

LEMMA NextRoot == RootInv /\ [R!Next]_R!vars => RootInv'
<1> SUFFICES ASSUME RootInv, [R!Next]_R!vars PROVE RootInv'
  OBVIOUS
<1>1. ASSUME NEW p \in Procs, R!Dispatch(p) PROVE RootInv'
  <2>1. CollectorsTyped'
    BY <1>1, RootAssumption DEF RootInv, R!Dispatch, R!Goto, R!bundle, CollectorsTyped, RootSteps, Publishing
  <2>2. PublishersHold'
    BY <1>1, RootAssumption DEF RootInv, R!Dispatch, R!Goto, R!bundle, PublishersHold, Publishing,
         CollectorsTyped, RootSteps
  <2>3. R!MarkedIsOneCollection' /\ R!ManifestIsCurrent'
    BY <1>1 DEF RootInv, R!Dispatch, R!bundle, R!MarkedIsOneCollection, R!Whole, R!Names, R!ManifestIsCurrent
  <2>4. QED
    BY <2>1, <2>2, <2>3 DEF RootInv
<1>2. ASSUME NEW p \in Procs, R!Create(p) PROVE RootInv'
  <2>1. CollectorsTyped'
    BY <1>2, RootAssumption DEF RootInv, R!Create, R!Goto, R!bundle, CollectorsTyped, RootSteps, Publishing
  <2>2. PublishersHold'
    BY <1>2, RootAssumption DEF RootInv, R!Create, R!Goto, R!bundle, PublishersHold, Publishing,
         CollectorsTyped, RootSteps
  <2>3. R!MarkedIsOneCollection' /\ R!ManifestIsCurrent'
    BY <1>2 DEF RootInv, R!Create, R!bundle, R!MarkedIsOneCollection, R!Whole, R!Names, R!ManifestIsCurrent
  <2>4. QED
    BY <2>1, <2>2, <2>3 DEF RootInv
<1>3. ASSUME NEW p \in Procs, R!Prune(p) PROVE RootInv'
  <2>1. CollectorsTyped'
    BY <1>3, RootAssumption DEF RootInv, R!Prune, R!Goto, R!bundle, CollectorsTyped, RootSteps, Publishing
  <2>2. PublishersHold'
    BY <1>3, RootAssumption DEF RootInv, R!Prune, R!Goto, R!bundle, PublishersHold, Publishing,
         CollectorsTyped, RootSteps
  <2>3. R!MarkedIsOneCollection' /\ R!ManifestIsCurrent'
    BY <1>3 DEF RootInv, R!Prune, R!bundle, R!MarkedIsOneCollection, R!Whole, R!Names, R!ManifestIsCurrent
  <2>4. QED
    BY <2>1, <2>2, <2>3 DEF RootInv
<1>4. ASSUME NEW p \in Procs, R!DiscardProven(p) PROVE RootInv'
  <2>1. CollectorsTyped'
    BY <1>4, RootAssumption DEF RootInv, R!DiscardProven, R!Goto, R!bundle, CollectorsTyped, RootSteps, Publishing
  <2>2. PublishersHold'
    BY <1>4, RootAssumption DEF RootInv, R!DiscardProven, R!Goto, R!bundle, PublishersHold, Publishing,
         CollectorsTyped, RootSteps
  <2>3. R!MarkedIsOneCollection' /\ R!ManifestIsCurrent'
    BY <1>4 DEF RootInv, R!DiscardProven, R!bundle, R!MarkedIsOneCollection, R!Whole, R!Names,
         R!ManifestIsCurrent
  <2>4. QED
    BY <2>1, <2>2, <2>3 DEF RootInv
<1>5. ASSUME NEW p \in Procs, R!Discard(p) PROVE RootInv'
  <2>1. CollectorsTyped'
    BY <1>5, RootAssumption DEF RootInv, R!Discard, R!Goto, R!bundle, CollectorsTyped, RootSteps, Publishing
  <2>2. PublishersHold'
    BY <1>5, RootAssumption DEF RootInv, R!Discard, R!Goto, R!bundle, PublishersHold, Publishing,
         CollectorsTyped, RootSteps
  <2>3. R!MarkedIsOneCollection' /\ R!ManifestIsCurrent'
    BY <1>5 DEF RootInv, R!Discard, R!bundle, R!MarkedIsOneCollection, R!Whole, R!Names, R!ManifestIsCurrent
  <2>4. QED
    BY <2>1, <2>2, <2>3 DEF RootInv
<1>6. ASSUME NEW p \in Procs, R!CollectOne(p) PROVE RootInv'
  <2>1. CollectorsTyped'
    BY <1>6, RootAssumption DEF RootInv, R!CollectOne, R!Goto, R!bundle, CollectorsTyped, RootSteps, Publishing
  <2>2. PublishersHold'
    BY <1>6, RootAssumption DEF RootInv, R!CollectOne, R!Goto, R!bundle, PublishersHold, Publishing,
         CollectorsTyped, RootSteps
  <2>3. R!MarkedIsOneCollection'
    BY <1>6, RootAssumption DEF RootInv, R!CollectOne, R!Goto, R!bundle, R!MarkedIsOneCollection, R!Whole,
         R!Names, PublishersHold, Publishing, CollectorsTyped, RootSteps
  <2>4. R!ManifestIsCurrent'
    BY <1>6 DEF RootInv, R!CollectOne, R!bundle, R!ManifestIsCurrent
  <2>5. QED
    BY <2>1, <2>2, <2>3, <2>4 DEF RootInv
<1>7. ASSUME NEW p \in Procs, R!Bind(p) PROVE RootInv'
  <2>1. CollectorsTyped'
    BY <1>7, RootAssumption DEF RootInv, R!Bind, R!Names, R!Goto, R!bundle, CollectorsTyped, RootSteps, Publishing
  <2>2. PublishersHold'
    BY <1>7, RootAssumption DEF RootInv, R!Bind, R!Names, R!Goto, R!bundle, PublishersHold, Publishing,
         CollectorsTyped, RootSteps
  <2>3. R!MarkedIsOneCollection' /\ R!ManifestIsCurrent'
    BY <1>7 DEF RootInv, R!Bind, R!bundle, R!MarkedIsOneCollection, R!Whole, R!Names, R!ManifestIsCurrent
  <2>4. QED
    BY <2>1, <2>2, <2>3 DEF RootInv
<1>8. ASSUME NEW p \in Procs, R!Verify(p) PROVE RootInv'
  <2>1. CollectorsTyped'
    BY <1>8, RootAssumption DEF RootInv, R!Verify, R!Goto, R!bundle, CollectorsTyped, RootSteps, Publishing
  <2>2. PublishersHold'
    BY <1>8, RootAssumption DEF RootInv, R!Verify, R!Goto, R!bundle, PublishersHold, Publishing,
         CollectorsTyped, RootSteps
  <2>3. R!MarkedIsOneCollection' /\ R!ManifestIsCurrent'
    BY <1>8 DEF RootInv, R!Verify, R!bundle, R!MarkedIsOneCollection, R!Whole, R!Names, R!ManifestIsCurrent
  <2>4. QED
    BY <2>1, <2>2, <2>3 DEF RootInv
<1>9. ASSUME NEW p \in Procs, R!HandOver(p) PROVE RootInv'
  <2>1. CollectorsTyped'
    BY <1>9, RootAssumption DEF RootInv, R!HandOver, R!Goto, R!bundle, CollectorsTyped, RootSteps, Publishing
  <2>2. PublishersHold'
    BY <1>9, RootAssumption DEF RootInv, R!HandOver, R!Goto, R!bundle, PublishersHold, Publishing,
         CollectorsTyped, RootSteps
  <2>3. R!MarkedIsOneCollection' /\ R!ManifestIsCurrent'
    BY <1>9 DEF RootInv, R!HandOver, R!bundle, R!MarkedIsOneCollection, R!Whole, R!Names, R!ManifestIsCurrent
  <2>4. QED
    BY <2>1, <2>2, <2>3 DEF RootInv
<1>10. ASSUME NEW p \in Procs, R!CleanupStage(p) PROVE RootInv'
  <2>1. CollectorsTyped'
    BY <1>10, RootAssumption DEF RootInv, R!CleanupStage, R!Goto, R!bundle, CollectorsTyped, RootSteps, Publishing
  <2>2. PublishersHold'
    BY <1>10, RootAssumption DEF RootInv, R!CleanupStage, R!Goto, R!bundle, PublishersHold, Publishing,
         CollectorsTyped, RootSteps
  <2>3. R!MarkedIsOneCollection' /\ R!ManifestIsCurrent'
    BY <1>10 DEF RootInv, R!CleanupStage, R!bundle, R!MarkedIsOneCollection, R!Whole, R!Names,
         R!ManifestIsCurrent
  <2>4. QED
    BY <2>1, <2>2, <2>3 DEF RootInv
<1>11. ASSUME NEW p \in Procs, R!Admit(p) PROVE RootInv'
  <2>1. CollectorsTyped'
    BY <1>11, RootAssumption DEF RootInv, R!Admit, R!Nobody, R!Whole, R!Names, R!Goto, R!bundle, CollectorsTyped,
         RootSteps, Publishing
  <2>2. PublishersHold'
    BY <1>11, RootAssumption DEF RootInv, R!Admit, R!Nobody, R!Whole, R!Names, R!Goto, R!bundle,
         PublishersHold, Publishing, CollectorsTyped, RootSteps
  <2>3. R!MarkedIsOneCollection' /\ R!ManifestIsCurrent'
    BY <1>11 DEF RootInv, R!Admit, R!bundle, R!MarkedIsOneCollection, R!Whole, R!Names, R!ManifestIsCurrent
  <2>4. QED
    BY <2>1, <2>2, <2>3 DEF RootInv
<1>12. ASSUME NEW p \in Procs, R!InvalidateDerived(p) PROVE RootInv'
  <2>1. CollectorsTyped'
    BY <1>12, RootAssumption DEF RootInv, R!InvalidateDerived, R!Goto, CollectorsTyped, RootSteps, Publishing
  <2>2. PublishersHold'
    BY <1>12, RootAssumption DEF RootInv, R!InvalidateDerived, R!Goto, PublishersHold, Publishing,
         CollectorsTyped, RootSteps
  <2>3. R!ManifestIsCurrent'
    BY <1>12, RootAssumption DEF RootInv, R!InvalidateDerived, R!Goto, R!ManifestIsCurrent,
         PublishersHold, Publishing, R!MarkedIsOneCollection, R!Whole, R!Names, CollectorsTyped, RootSteps
  <2>4. R!MarkedIsOneCollection'
    BY <1>12 DEF RootInv, R!InvalidateDerived, R!MarkedIsOneCollection, R!Whole, R!Names
  <2>5. QED
    BY <2>1, <2>2, <2>3, <2>4 DEF RootInv
<1>13. ASSUME NEW p \in Procs, R!DropMarker(p) PROVE RootInv'
  <2>1. CollectorsTyped'
    BY <1>13, RootAssumption DEF RootInv, R!DropMarker, R!Goto, CollectorsTyped, RootSteps, Publishing
  <2>2. PublishersHold'
    BY <1>13, RootAssumption DEF RootInv, R!DropMarker, R!Goto, PublishersHold, Publishing, CollectorsTyped,
         RootSteps
  <2>3. R!MarkedIsOneCollection'
    BY <1>13, RootAssumption DEF RootInv, R!DropMarker, R!Goto, R!MarkedIsOneCollection, R!Whole, R!Names,
         PublishersHold, Publishing, CollectorsTyped, RootSteps
  <2>4. R!ManifestIsCurrent'
    BY <1>13, RootAssumption DEF RootInv, R!DropMarker, R!Goto, R!ManifestIsCurrent, PublishersHold,
         Publishing, R!MarkedIsOneCollection, R!Whole, R!Names, CollectorsTyped, RootSteps
  <2>5. QED
    BY <2>1, <2>2, <2>3, <2>4 DEF RootInv
<1>14. ASSUME NEW p \in Procs, R!Copy(p) PROVE RootInv'
  <2>1. CollectorsTyped'
    BY <1>14, RootAssumption DEF RootInv, R!Copy, R!Stop, R!Goto, R!Free, R!Nobody, CollectorsTyped, RootSteps,
         Publishing
  <2>2. PublishersHold'
    BY <1>14, RootAssumption DEF RootInv, R!Copy, R!Stop, R!Goto, R!Free, R!Nobody, PublishersHold,
         Publishing, CollectorsTyped, RootSteps
  <2>3. R!MarkedIsOneCollection'
    BY <1>14, RootAssumption DEF RootInv, R!Copy, R!Stop, R!Goto, R!Free, R!Nobody, R!MarkedIsOneCollection,
         R!Whole, R!Names, PublishersHold, Publishing, CollectorsTyped, RootSteps
  <2>4. R!ManifestIsCurrent'
    BY <1>14, RootAssumption DEF RootInv, R!Copy, R!Stop, R!Goto, R!Free, R!Nobody, R!ManifestIsCurrent,
         PublishersHold, Publishing, R!MarkedIsOneCollection, R!Whole, R!Names, CollectorsTyped, RootSteps
  <2>5. QED
    BY <2>1, <2>2, <2>3, <2>4 DEF RootInv
<1>15. ASSUME NEW p \in Procs, R!Mark(p) PROVE RootInv'
  <2>1. CollectorsTyped'
    BY <1>15, RootAssumption DEF RootInv, R!Mark, R!Whole, R!Names, R!Goto, R!Stop, R!Free, R!Nobody, CollectorsTyped,
         RootSteps, Publishing
  <2>2. PublishersHold'
    BY <1>15, RootAssumption DEF RootInv, R!Mark, R!Whole, R!Names, R!Goto, R!Stop, R!Free, R!Nobody,
         PublishersHold, Publishing, CollectorsTyped, RootSteps
  <2>3. R!MarkedIsOneCollection'
    BY <1>15, RootAssumption DEF RootInv, R!Mark, R!Whole, R!Names, R!Goto, R!Stop, R!Free, R!Nobody,
         R!MarkedIsOneCollection, PublishersHold, Publishing, CollectorsTyped, RootSteps
  <2>4. R!ManifestIsCurrent'
    BY <1>15, RootAssumption DEF RootInv, R!Mark, R!Whole, R!Names, R!Goto, R!Stop, R!Free, R!Nobody,
         R!ManifestIsCurrent, PublishersHold, Publishing, R!MarkedIsOneCollection, CollectorsTyped, RootSteps
  <2>5. QED
    BY <2>1, <2>2, <2>3, <2>4 DEF RootInv
<1>16. ASSUME NEW p \in Procs, R!RemoveSource(p) PROVE RootInv'
  <2>1. CollectorsTyped'
    BY <1>16, RootAssumption DEF RootInv, R!RemoveSource, R!Stop, R!Goto, R!Free, R!Nobody, R!bundle,
         CollectorsTyped, RootSteps, Publishing
  <2>2. PublishersHold'
    BY <1>16, RootAssumption DEF RootInv, R!RemoveSource, R!Stop, R!Goto, R!Free, R!Nobody, R!bundle,
         PublishersHold, Publishing, CollectorsTyped, RootSteps
  <2>3. R!MarkedIsOneCollection' /\ R!ManifestIsCurrent'
    BY <1>16 DEF RootInv, R!RemoveSource, R!bundle, R!MarkedIsOneCollection, R!Whole, R!Names,
         R!ManifestIsCurrent
  <2>4. QED
    BY <2>1, <2>2, <2>3 DEF RootInv
<1>17. ASSUME NEW p \in Procs, R!Kill(p) PROVE RootInv'
  <2>1. CollectorsTyped'
    BY <1>17, RootAssumption DEF RootInv, R!Kill, R!Stop, R!Goto, R!Free, R!Nobody, R!bundle, CollectorsTyped,
         RootSteps, Publishing
  <2>2. PublishersHold'
    BY <1>17, RootAssumption DEF RootInv, R!Kill, R!Stop, R!Goto, R!Free, R!Nobody, R!bundle, PublishersHold,
         Publishing, CollectorsTyped, RootSteps
  <2>3. R!MarkedIsOneCollection' /\ R!ManifestIsCurrent'
    BY <1>17 DEF RootInv, R!Kill, R!bundle, R!MarkedIsOneCollection, R!Whole, R!Names, R!ManifestIsCurrent
  <2>4. QED
    BY <2>1, <2>2, <2>3 DEF RootInv
<1>18. CASE R!Report
  <2>1. PublishersHold'
    BY <1>18, RootAssumption DEF RootInv, R!Report, R!Nobody, R!Whole, R!Names, PublishersHold, Publishing,
         CollectorsTyped, RootSteps
  <2>2. R!ManifestIsCurrent'
    BY <1>18, RootAssumption DEF RootInv, R!Report, R!Nobody, R!Whole, R!Names, R!ManifestIsCurrent,
         PublishersHold, Publishing, R!MarkedIsOneCollection, CollectorsTyped, RootSteps
  <2>3. CollectorsTyped' /\ R!MarkedIsOneCollection'
    BY <1>18 DEF RootInv, R!Report, CollectorsTyped, RootSteps, Publishing, R!MarkedIsOneCollection, R!Whole,
         R!Names
  <2>4. QED
    BY <2>1, <2>2, <2>3 DEF RootInv
<1>19. CASE UNCHANGED R!vars
  BY <1>19 DEF R!vars, R!bundle, RootSteps, Publishing, RootInv, CollectorsTyped, PublishersHold,
       R!MarkedIsOneCollection, R!Whole, R!Names, R!ManifestIsCurrent
<1>20. QED
  BY <1>1, <1>2, <1>3, <1>4, <1>5, <1>6, <1>7, <1>8, <1>9, <1>10, <1>11, <1>12, <1>13, <1>14,
       <1>15, <1>16, <1>17, <1>18, <1>19 DEF R!Next, R!Step

LEMMA RootInvariant == R!Spec => []RootInv
BY InitRoot, NextRoot, PTL DEF R!Spec

-----------------------------------------------------------------------------
(* The five files beside a root-checks.done are those of one collection,     *)
(* also if other invocations write into the stage while one publishes.       *)
THEOREM MarkedCollections == R!Spec => []MarkedIsOneCollection
<1>1. RootInv => MarkedIsOneCollection
  BY DEF RootInv, MarkedIsOneCollection
<1>2. QED
  BY <1>1, RootInvariant, PTL

(* A manifest never vouches for root evidence that was replaced since.       *)
THEOREM ManifestsAreCurrent == R!Spec => []ManifestIsCurrent
<1>1. RootInv => ManifestIsCurrent
  BY DEF RootInv, ManifestIsCurrent
<1>2. QED
  BY <1>1, RootInvariant, PTL
=============================================================================
