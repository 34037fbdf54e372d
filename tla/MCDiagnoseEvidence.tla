------------------------- MODULE MCDiagnoseEvidence -------------------------
(* The evidence directory of diagnose.sh and the two root commands that add  *)
(* to it: the bundle with its redo transactions, the publication of the      *)
(* frequency experiment, the experiment itself and the root checks.  The     *)
(* four modules share no state; `side` says which of them a behaviour is     *)
(* about, the others rest in an initial state.                               *)
(*                                                                           *)
(* Bundle: three phases, one that continues and two that start again, two    *)
(* artifacts each, one redo and two stops.  Publication: two stages, the     *)
(* optional cap.  Experiment: two invocations that may overlap, two runs,    *)
(* three troubles.  Root checks: two invocations, two payload files.         *)
EXTENDS MCDiagnoseBundle

CONSTANTS Txs, Artifacts, Cap, MaxFaults, MaxResumes,
          Slots, Controls, Turbo, Experiments, Troubles,
          Procs, Payloads, Collections, MaxKills

VARIABLES
  side,
  \* the publication
  staging, view, durable, lock, publisher, reading, good, faults, resumes,
  \* the experiment
  value, saved, groups, tracked, invocation, capped, armed, evidence, recorded, runs,
  published, aside, exited, troubles,
  \* the root checks
  collection, collector, gen, next, dest, stamped, listing, reported, holder, collections,
  kills

F == INSTANCE FrequencyPublish
       WITH stage <- staging, disk <- durable, pc <- publisher, plan <- reading
X == INSTANCE FrequencyExperiment
       WITH Settings <- Controls, MaxRuns <- Experiments, MaxFaults <- Troubles,
            pc <- invocation, stage <- evidence, faults <- troubles
R == INSTANCE RootChecks
       WITH MaxRuns <- Collections, stage <- collection, pc <- collector,
            marker <- stamped, manifest <- listing, runs <- collections

\* The settings of an experiment: no_turbo, and the frequency limit of the cap leg.
ASSUME SettingsAssumption ==
  /\ Turbo \in Controls /\ \A s, t \in Controls \ {Turbo} : s = t
  /\ Experiments \in Nat

\* None is no publication's name, and the optional cap is one of the artifacts.
ASSUME PublishAssumption == None \notin Txs /\ Cap \subseteq Artifacts

\* A free lock is no invocation's.
ASSUME RootAssumption == R!Nobody \notin Procs

publication == <<staging, view, durable, lock, publisher, reading, good, faults, resumes>>
experiment  == <<value, saved, groups, tracked, invocation, capped, armed, evidence,
                 recorded, runs, published, aside, exited, troubles>>
rootChecks  == <<collection, collector, gen, next, dest, stamped, listing, reported,
                 holder, collections, kills>>

OriginalIsSaved       == X!OriginalIsSaved
OneSettingPerLeg      == X!OneSettingPerLeg
MarkedIsOneCollection == R!MarkedIsOneCollection

\* Further properties (DiagnoseEvidenceMore.cfg).
CommandsOnce            == F!CommandsOnce
FenceExcludes           == F!FenceExcludes
RestoredBeforePublished == X!RestoredBeforePublished
EvidenceKept            == X!EvidenceKept
ManifestIsCurrent       == R!ManifestIsCurrent
StagesFinish            == side = "publication" => F!Finishes

\* Whatever a kill or a power loss leaves of a publication, evidence that
\* mixes two experiments is fenced and a committed one is durable.
EvidenceSafe == F!MixedIsFenced /\ F!CommitIsDurable

\* An experiment gives the original settings back, again and again
\* (FrequencyExperiment, Recovers).
Recovers == side = "experiment" => X!Recovers

-----------------------------------------------------------------------------
InBundle(A)      == side = "bundle" /\ A /\ UNCHANGED <<side, publication, experiment, rootChecks>>
InPublication(A) == side = "publication" /\ A /\ UNCHANGED <<side, vars, experiment, rootChecks>>
InExperiment(A)  == side = "experiment" /\ A /\ UNCHANGED <<side, vars, publication, rootChecks>>
InRootChecks(A)  == side = "root" /\ A /\ UNCHANGED <<side, vars, publication, experiment>>

EvidenceInit ==
  /\ side \in {"bundle", "publication", "experiment", "root"}
  /\ Init /\ F!Init /\ X!Init /\ R!Init
  /\ side # "publication" => staging = [t \in Txs |-> CHOOSE s \in F!Stages : TRUE]

BundleNext ==
  \/ \E r \in Requests : InBundle(Open(r))
  \/ InBundle(Revoke) \/ InBundle(CreateMeta) \/ InBundle(Configure)
  \/ InBundle(RedoUnmark) \/ InBundle(RedoMove) \/ InBundle(RedoMeta) \/ InBundle(RedoClear)
  \/ InBundle(SkipPhase) \/ InBundle(BeginPhase) \/ InBundle(ContinuePhase)
  \/ InBundle(WritePart) \/ InBundle(MarkOpen) \/ InBundle(MarkPublish) \/ InBundle(MarkMeta)
  \/ InBundle(FinalizeBegin) \/ InBundle(Collect) \/ InBundle(WriteManifest)
  \/ InBundle(Refuse) \/ InBundle(MarkFails) \/ InBundle(Interrupt)
  \/ InBundle(InterruptCreate) \/ InBundle(Crash) \/ InBundle(StrayExits)

PublicationNext ==
  \/ \E t \in Txs :
       \/ InPublication(F!Begin(t)) \/ InPublication(F!FinishEmpty(t))
       \/ InPublication(F!RejectOdd(t)) \/ InPublication(F!Preflight(t))
       \/ InPublication(F!DropManifest(t)) \/ InPublication(F!DropReport(t))
       \/ InPublication(F!DropMarker(t)) \/ InPublication(F!MakeFence(t))
       \/ InPublication(F!WriteBinding(t)) \/ InPublication(F!Prepare(t))
       \/ InPublication(F!CopyCandidates(t)) \/ InPublication(F!DeleteStale(t))
       \/ InPublication(F!Install(t)) \/ InPublication(F!InstallLog(t))
       \/ InPublication(F!Flush(t)) \/ InPublication(F!Settle(t))
       \/ InPublication(F!Commit(t)) \/ InPublication(F!Adopt(t))
       \/ InPublication(F!CleanSources(t)) \/ InPublication(F!CleanCandidates(t))
       \/ InPublication(F!LowerFence(t)) \/ InPublication(F!RemoveJournal(t))
       \/ InPublication(F!RemoveStage(t)) \/ InPublication(F!Kill(t))
  \/ InPublication(F!Resume) \/ InPublication(F!PowerLoss)

ExperimentNext ==
  \/ \E r \in Slots :
       \/ InExperiment(X!Lock(r)) \/ InExperiment(X!Restore(r)) \/ InExperiment(X!NoPending(r))
       \/ InExperiment(X!Quarantine(r)) \/ InExperiment(X!Handoff(r))
       \/ InExperiment(X!Publish(r)) \/ InExperiment(X!ClearRecord(r))
       \/ InExperiment(X!RejectedOdd(r)) \/ InExperiment(X!Refuse(r))
       \/ InExperiment(X!MakeStage(r)) \/ InExperiment(X!WriteRecord(r))
       \/ InExperiment(X!SaveTurbo(r)) \/ InExperiment(X!SetCap(r))
       \/ InExperiment(X!SetTurbo(r)) \/ InExperiment(X!StartLeg(r))
       \/ InExperiment(X!EndLeg(r)) \/ InExperiment(X!SplitCapRows(r))
       \/ InExperiment(X!Finish(r)) \/ InExperiment(X!Stop(r))
       \/ InExperiment(X!NothingStaged(r)) \/ InExperiment(X!Release(r))
       \/ InExperiment(X!OrphansEnd(r)) \/ InExperiment(X!RestoreFails(r))
       \/ InExperiment(X!PublishFails(r)) \/ InExperiment(X!SamplerDies(r))
       \/ InExperiment(X!Interrupt(r)) \/ InExperiment(X!StopFails(r))
       \/ InExperiment(X!Kill(r))
  \/ InExperiment(X!Reboot)

RootChecksNext ==
  \/ \E p \in Procs :
       \/ InRootChecks(R!Dispatch(p)) \/ InRootChecks(R!Create(p)) \/ InRootChecks(R!Prune(p))
       \/ InRootChecks(R!DiscardProven(p)) \/ InRootChecks(R!Discard(p))
       \/ InRootChecks(R!CollectOne(p)) \/ InRootChecks(R!Bind(p)) \/ InRootChecks(R!Verify(p))
       \/ InRootChecks(R!HandOver(p)) \/ InRootChecks(R!CleanupStage(p))
       \/ InRootChecks(R!Admit(p)) \/ InRootChecks(R!InvalidateDerived(p))
       \/ InRootChecks(R!DropMarker(p)) \/ InRootChecks(R!Copy(p)) \/ InRootChecks(R!Mark(p))
       \/ InRootChecks(R!RemoveSource(p)) \/ InRootChecks(R!Kill(p))
  \/ InRootChecks(R!Report)

EvidenceNext == BundleNext \/ PublicationNext \/ ExperimentNext \/ RootChecksNext

EvidenceSpec ==
  /\ EvidenceInit
  /\ [][EvidenceNext]_<<side, vars, publication, experiment, rootChecks>>
  /\ WF_experiment(side = "experiment" /\ \E r \in Slots : X!Step(r))

\* The same behaviours with the fairness of the bundle and of the publication.
EvidenceMoreSpec ==
  /\ EvidenceInit
  /\ [][EvidenceNext]_<<side, vars, publication, experiment, rootChecks>>
  /\ WF_vars(side = "bundle" /\ Step)
  /\ WF_vars(side = "bundle" /\ StrayExits)
  /\ WF_vars(side = "bundle" /\ pending # None /\ Open(Plain))
  /\ \A t \in Txs : SF_publication(side = "publication" /\ F!Publish(t))
=============================================================================
