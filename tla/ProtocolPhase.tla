---------------------------- MODULE ProtocolPhase ----------------------------
(* The files of one resumable pinned phase of diagnose.sh, from its setup    *)
(* over the durable observations of its executor to the publication of its   *)
(* sidecars and its completion marker. A session may be killed between any   *)
(* two steps; a power loss also undoes what was not synchronized. Sync -f    *)
(* synchronizes the file system, a committed state file only itself.         *)
EXTENDS Naturals, Sequences

CONSTANTS
  Units,      \* the units of the plan: attempts or waves
  MaxStops    \* bound: kills, power losses and changes of the topology

VARIABLES
  kind,       \* "isolated", "waves" (schema 2) or "legacy" (schema 1)
  view, disk, \* the files as a process sees them, and as a power loss leaves them
  stage,      \* the finalization directory: "none", "known" names only, or "temp"
  obs,        \* the committed observations, each with its state version
  contexts,   \* the topology has a context to pin to
  pc,         \* the session
  stops

vars == <<kind, view, disk, stage, obs, contexts, pc, stops>>

Absent  == [form |-> "none", rows |-> <<>>]
Zero    == [form |-> "empty", rows |-> <<>>]
Header  == [form |-> "header", rows |-> <<>>]
Rows(s) == [form |-> "rows", rows |-> s]
Torn    == [form |-> "torn", rows |-> <<>>]
Odd     == [form |-> "odd", rows |-> <<>>]

NoFiles == [plan |-> FALSE, tsv |-> Absent, bounds |-> Absent, meta |-> "none",
            marker |-> FALSE, dec |-> "none", decMark |-> FALSE]

(* A waves phase may have been begun by a release that wrote version 1.      *)
Init ==
  /\ kind \in {"isolated", "waves", "legacy"}
  /\ \/ view = NoFiles /\ obs = <<>>
     \/ /\ kind = "waves" /\ obs \in {[i \in 1..n |-> 1] : n \in 1..Units}
        /\ view = [NoFiles EXCEPT !.plan = TRUE, !.tsv = Header, !.meta = "incomplete"]
  /\ disk = view /\ stage = "none" /\ contexts = TRUE
  /\ pc = "idle" /\ stops = 0

-----------------------------------------------------------------------------
(* What a reader of the files accepts.                                       *)

(* The deterministic projection of the committed observations.               *)
Final == Rows(obs)
Whole == IF kind = "legacy" THEN Len(view.tsv.rows) = Units ELSE Len(obs) = Units

(* A reader of version 1 knows no rows of version 2.                         *)
ValidBefore ==
  /\ view.plan /\ view.meta = "incomplete" /\ ~view.marker
  /\ view.tsv = Header /\ view.bounds = Absent

Ready == view.plan /\ view.meta = "complete" /\ view.tsv = Final /\ view.bounds = Final

(* Mutant: a sidecar that is already published is not expected.              *)
RecoverableHeaderOnly == view.tsv \in {Zero, Header} /\ view.bounds \in {Absent, Zero}

(* protocol_file_is_exact_prefix: an empty file is a prefix of any.          *)
Recoverable == view.tsv \in {Zero, Header, Final} /\ view.bounds \in {Absent, Zero, Final}

(* individual_v6_binding_read of an incomplete phase                         *)
BoundPrefix ==
  /\ view.plan /\ view.tsv.form \in {"header", "rows"}
  /\ view.bounds.form \in {"empty", "rows"}

Decided == view.dec # "none" \/ view.decMark
Worked  == view.plan \/ view.tsv # Absent \/ view.bounds # Absent \/ view.meta # "none"
             \/ obs # <<>> \/ stage # "none"

(* Mutant: a stage that a killed finalization left is in the way.            *)
StageFresh == stage = "none"

(* protocol_finalize_stage_prepare discards the names it knows, and only a   *)
(* directory that holds no other.                                            *)
StageUsable == stage # "temp"

Goto(l) == pc' = l
Write(v) == view' = v /\ disk' = disk
Sync(v)  == view' = v /\ disk' = v
Keep == UNCHANGED <<kind, obs, contexts, stops>>
Same == UNCHANGED <<view, disk, stage>> /\ Keep

-----------------------------------------------------------------------------
(* A session decides what is left to do.                                     *)

ResumeDone ==
  /\ pc = "idle" /\ view.marker
  /\ Goto(IF kind = "legacy" THEN IF view.meta = "complete" /\ Whole THEN "done" ELSE "refused"
          ELSE IF Ready /\ ~Decided /\ contexts THEN "done" ELSE "refused")
  /\ Same

ResumeDecided ==
  /\ pc = "idle" /\ ~view.marker /\ Decided
  /\ Goto(IF Worked \/ view.dec # "exact" THEN "refused"
          ELSE IF view.decMark THEN "done" ELSE "decMark")
  /\ Same

(* Mutant: a phase that has begun is overtaken by the decision.              *)
UnavailableUnchecked ==
  /\ pc = "idle" /\ kind = "waves" /\ ~view.marker /\ ~Decided /\ ~contexts
  /\ Goto("decide")
  /\ Same

ResumeUnavailable ==
  /\ pc = "idle" /\ kind = "waves" /\ ~view.marker /\ ~Decided /\ ~contexts
  /\ Goto(IF Worked THEN "refused" ELSE "decide")
  /\ Same

Resuming == pc = "idle" /\ ~view.marker /\ ~Decided /\ contexts

ResumeFresh ==
  /\ Resuming /\ kind # "legacy" /\ view.meta = "none"
  /\ Goto(IF Worked THEN "refused" ELSE "sidecars")
  /\ Same

ResumeIsolated ==
  /\ Resuming /\ kind = "isolated" /\ view.meta \in {"incomplete", "complete"}
  /\ Goto(IF view.meta = "complete"
          THEN IF Ready THEN IF stage = "none" THEN "ready" ELSE "reclose" ELSE "refused"
          ELSE IF BoundPrefix THEN "run" ELSE "refused")
  /\ Same

(* Sidecars that are ahead of the metadata are kept for a reconciliation     *)
(* with the state of a phase that ran to its end.                            *)
Refuses == view.meta = "partial" \/ ~view.plan \/ (~ValidBefore /\ ~Whole)

ResumeWaves ==
  /\ Resuming /\ kind = "waves" /\ view.meta # "none"
  /\ Goto(CASE Ready -> IF stage = "none" THEN "ready" ELSE "reclose"
            [] ~Ready /\ Refuses -> "refused"
            [] OTHER -> IF ValidBefore THEN "run" ELSE "prepare")
  /\ Same

(* phase_individual: whatever is there must be rows of the plan.             *)
ResumeLegacy ==
  /\ Resuming /\ kind = "legacy"
  /\ \/ view.tsv \in {Torn, Odd} /\ Goto("refused") /\ Write(view)
     \/ view.tsv = Absent /\ Goto("metaBegin") /\ Write([view EXCEPT !.tsv = Zero])
     \/ view.tsv \notin {Torn, Odd, Absent} /\ Goto("metaBegin") /\ Write(view)
  /\ UNCHANGED stage /\ Keep

-----------------------------------------------------------------------------
(* Setup.                                                                    *)

CreateSidecars ==
  /\ pc = "sidecars"
  /\ Goto("plan")
  /\ IF kind = "isolated" THEN Sync([view EXCEPT !.tsv = Header, !.bounds = Zero])
                          ELSE Write(view)
  /\ UNCHANGED stage /\ Keep

(* Both plans are committed state files.                                     *)
PublishPlan ==
  /\ pc = "plan"
  /\ view' = [view EXCEPT !.plan = TRUE] /\ disk' = [disk EXCEPT !.plan = TRUE]
  /\ Goto(IF kind = "isolated" THEN "metaBegin" ELSE "header")
  /\ UNCHANGED stage /\ Keep

WriteHeader ==
  /\ pc = "header"
  /\ Sync([view EXCEPT !.tsv = Header])
  /\ Goto("metaCreate")
  /\ UNCHANGED stage /\ Keep

(* build-meta writes its output in place.                                    *)
CreateMeta ==
  /\ pc = "metaCreate"
  /\ Write([view EXCEPT !.meta = "partial"])
  /\ Goto("metaFill")
  /\ UNCHANGED stage /\ Keep

FillMeta ==
  /\ pc = "metaFill"
  /\ Write([view EXCEPT !.meta = "incomplete"])
  /\ Goto("metaSync")
  /\ UNCHANGED stage /\ Keep

(* individual_meta_write: everything is synchronized before the rename.      *)
RenameMeta ==
  /\ pc \in {"metaBegin", "metaEnd"}
  /\ view' = [view EXCEPT !.meta = IF pc = "metaEnd" THEN "complete" ELSE "incomplete"]
  /\ disk' = view
  /\ Goto(IF pc = "metaEnd" THEN "metaDone" ELSE "metaSync")
  /\ UNCHANGED stage /\ Keep

SyncMeta ==
  /\ pc \in {"metaSync", "metaDone"}
  /\ Sync(view)
  /\ Goto(IF pc = "metaSync" THEN "run" ELSE "ready")
  /\ UNCHANGED stage /\ Keep

-----------------------------------------------------------------------------
(* The units.                                                                *)

(* One unit is committed: a file of its own, or a row nobody synchronizes.   *)
Commit ==
  /\ pc = "run" /\ ~Whole
  /\ IF kind = "legacy"
     THEN /\ Write([view EXCEPT !.tsv = Rows(Append(view.tsv.rows, 2))]) /\ obs' = obs
     ELSE /\ obs' = Append(obs, 2) /\ UNCHANGED <<view, disk>>
  /\ UNCHANGED <<kind, contexts, stops, pc, stage>>

(* single.sh appends whatever status its child ended with; only a clean exit *)
(* and SIGSEGV are rows of the plan.                                         *)
OddOutcome ==
  /\ pc = "run" /\ ~Whole /\ kind = "legacy" /\ stops < MaxStops /\ stops' = stops + 1
  /\ Write([view EXCEPT !.tsv = Odd]) /\ Goto("idle")
  /\ UNCHANGED <<kind, stage, obs, contexts>>

UnitsEnd ==
  /\ pc = "run" /\ Whole
  /\ Goto(IF kind = "legacy" THEN "metaEnd" ELSE "prepare")
  /\ Same

-----------------------------------------------------------------------------
(* Finalization.                                                             *)

PrepareStage ==
  /\ pc = "prepare"
  /\ IF StageUsable THEN stage' = "known" /\ Sync(view) /\ Goto("results")
                    ELSE UNCHANGED <<stage, view, disk>> /\ Goto("refused")
  /\ Keep

(* publishStagingFile leaves temporary names while it runs.                  *)
StageFile ==
  /\ pc \in {"results", "boundaries"}
  /\ \/ stage = "known" /\ stage' = "temp" /\ Goto(pc)
     \/ /\ stage = "temp" /\ stage' = "known"
        /\ Goto(IF pc = "results" THEN "boundaries"
                ELSE IF kind = "waves" THEN "stageMeta" ELSE "moveTsv")
  /\ UNCHANGED <<view, disk>> /\ Keep

(* The staged incomplete metadata must be what the phase began with.         *)
StageMeta ==
  /\ pc = "stageMeta"
  /\ IF view.meta = "incomplete" /\ Recoverable
     THEN Sync(view) /\ Goto("moveTsv")
     ELSE UNCHANGED <<view, disk>> /\ Goto("refused")
  /\ UNCHANGED stage /\ Keep

MoveTsv ==
  /\ pc = "moveTsv"
  /\ Write([view EXCEPT !.tsv = Final])
  /\ Goto("moveBounds")
  /\ UNCHANGED stage /\ Keep

(* Mutant: the sidecars are synchronized with the metadata.                  *)
MoveBoundsUnsynced ==
  /\ pc = "moveBounds"
  /\ Write([view EXCEPT !.bounds = Final])
  /\ Goto(IF kind = "waves" THEN "moveMeta" ELSE "close")
  /\ UNCHANGED stage /\ Keep

MoveBounds ==
  /\ pc = "moveBounds"
  /\ Write([view EXCEPT !.bounds = Final])
  /\ Goto(IF kind = "waves" THEN "sidecarSync" ELSE "close")
  /\ UNCHANGED stage /\ Keep

SyncSidecars ==
  /\ pc = "sidecarSync"
  /\ Sync(view) /\ Goto("moveMeta")
  /\ UNCHANGED stage /\ Keep

MoveMeta ==
  /\ pc = "moveMeta"
  /\ Write([view EXCEPT !.meta = "complete"])
  /\ Goto("terminalSync")
  /\ UNCHANGED stage /\ Keep

SyncTerminal ==
  /\ pc = "terminalSync"
  /\ Sync(view) /\ Goto("close")
  /\ UNCHANGED stage /\ Keep

CloseStage ==
  /\ pc = "close"
  /\ stage' = "none" /\ Sync(view)
  /\ Goto(IF kind = "waves" THEN "ready" ELSE "metaEnd")
  /\ Keep

(* A completed phase whose stage is left behind.                             *)
CloseStranded ==
  /\ pc = "reclose"
  /\ IF StageUsable THEN stage' = "none" /\ Sync(view) /\ Goto("ready")
                    ELSE UNCHANGED <<stage, view, disk>> /\ Goto("refused")
  /\ Keep

(* Validated once more, then mark_done and the validation of the marked.     *)
Mark ==
  /\ pc = "ready"
  /\ IF kind = "legacy" \/ Ready THEN Sync([view EXCEPT !.marker = TRUE]) /\ Goto("done")
                                 ELSE UNCHANGED <<view, disk>> /\ Goto("refused")
  /\ UNCHANGED stage /\ Keep

-----------------------------------------------------------------------------
(* pinned_concurrent_unavailable_publish                                     *)

DecideCreate ==
  /\ pc = "decide"
  /\ Write([view EXCEPT !.dec = "empty"]) /\ Goto("decFill")
  /\ UNCHANGED stage /\ Keep

DecideFill ==
  /\ pc = "decFill"
  /\ Write([view EXCEPT !.dec = "exact"]) /\ Goto("decSync")
  /\ UNCHANGED stage /\ Keep

DecideSync ==
  /\ pc = "decSync"
  /\ Sync(view) /\ Goto("decMark")
  /\ UNCHANGED stage /\ Keep

DecideMark ==
  /\ pc = "decMark"
  /\ Sync([view EXCEPT !.decMark = TRUE]) /\ Goto("done")
  /\ UNCHANGED stage /\ Keep

-----------------------------------------------------------------------------
(* What stops a session, and what changes between two.                       *)

Stop == stops < MaxStops /\ stops' = stops + 1

(* A kill, or any step that failed with diag_die.                            *)
Die ==
  /\ Stop /\ pc \notin {"idle", "done", "refused"}
  /\ Goto("idle")
  /\ UNCHANGED <<kind, view, disk, stage, obs, contexts>>

(* Rows that were not synchronized survive up to some row, or half a row.    *)
RowsLeft ==
  IF kind = "legacy" /\ view.tsv.form = "rows" /\ disk.tsv # view.tsv /\ disk.tsv.form # "odd"
  THEN {Torn} \cup {IF n = 0 THEN Zero ELSE Rows(SubSeq(view.tsv.rows, 1, n)) :
                      n \in Len(disk.tsv.rows)..Len(view.tsv.rows)}
  ELSE {view.tsv, disk.tsv}

PowerLoss ==
  /\ Stop /\ pc \notin {"done", "refused"}
  /\ \E t \in RowsLeft : \E b \in {view.bounds, disk.bounds}, m \in {view.meta, disk.meta},
        d \in {view.dec, disk.dec} :
       Sync([view EXCEPT !.tsv = t, !.bounds = b, !.meta = m, !.dec = d])
  /\ Goto("idle")
  /\ UNCHANGED <<kind, stage, obs, contexts>>

TopologyChanges ==
  /\ Stop /\ kind = "waves" /\ pc = "idle"
  /\ contexts' = ~contexts
  /\ UNCHANGED <<kind, view, disk, stage, obs, pc>>

(* The operator runs the program again, also over a finished phase.          *)
Again ==
  /\ pc = "refused" /\ Goto("idle")
  /\ Same

Revisit ==
  /\ Stop /\ pc = "done" /\ Goto("idle")
  /\ UNCHANGED <<kind, view, disk, stage, obs, contexts>>

Resume == ResumeDone \/ ResumeDecided \/ ResumeUnavailable \/ ResumeFresh
            \/ ResumeIsolated \/ ResumeWaves \/ ResumeLegacy \/ Again

Step ==
  \/ CreateSidecars \/ PublishPlan \/ WriteHeader \/ CreateMeta \/ FillMeta \/ RenameMeta \/ SyncMeta
  \/ Commit \/ UnitsEnd
  \/ PrepareStage \/ StageFile \/ StageMeta \/ MoveTsv \/ MoveBounds \/ SyncSidecars
  \/ MoveMeta \/ SyncTerminal \/ CloseStage \/ CloseStranded \/ Mark
  \/ DecideCreate \/ DecideFill \/ DecideSync \/ DecideMark

Next == Resume \/ Step \/ OddOutcome \/ Die \/ PowerLoss \/ TopologyChanges \/ Revisit

(* The operator resumes, and a session that is not stopped goes on.          *)
Spec == Init /\ [][Next]_vars /\ WF_vars(Resume) /\ WF_vars(Step)

-----------------------------------------------------------------------------
(* Properties.                                                               *)

TypeOK ==
  /\ kind \in {"isolated", "waves", "legacy"} /\ Len(obs) <= Units /\ stops \in 0..MaxStops
  /\ stage \in {"none", "known", "temp"} /\ contexts \in BOOLEAN
  /\ DOMAIN view = DOMAIN NoFiles /\ DOMAIN disk = DOMAIN NoFiles

(* Complete metadata is the terminal authority: at no time, and in no state  *)
(* a power loss may leave, does it stand over sidecars that are not the      *)
(* projection of every committed observation, nor a marker over less.        *)
TerminalAuthority ==
  \A f \in {view, disk} :
    /\ f.meta = "complete" =>
         IF kind = "legacy" THEN Len(f.tsv.rows) = Units
         ELSE Len(obs) = Units /\ f.tsv = Final /\ f.bounds = Final /\ f.plan
    /\ f.marker => f.meta = "complete"

(* What a session may refuse: the setup was cut off before its metadata was  *)
(* whole, the topology no longer fits, a row or the decision is torn or a    *)
(* row is odd, or a finalization was killed while it staged a file.          *)
RefusedForCause ==
  pc = "refused" => \/ view.meta \in {"none", "partial"} \/ ~contexts
                    \/ view.tsv \in {Torn, Odd} \/ view.dec = "empty" \/ stage = "temp"

(* A recorded decision that the topology is unavailable and evidence of the  *)
(* phase's workload exclude each other.                                      *)
OneOutcome == Decided => ~Worked /\ ~view.marker

(* The phase ends, however often it was stopped, unless it needs a redo or   *)
(* its topology back.                                                        *)
Finishes ==
  <>[](pc = "done" \/ view.meta \in {"none", "partial"} \/ ~contexts
         \/ view.tsv \in {Torn, Odd} \/ view.dec = "empty" \/ stage = "temp")

(* diagnose.sh:2966 of the staging directories: SIGKILL strands nothing that *)
(* a retry does not discard.                                                 *)
RetryDiscardsStage == pc = "refused" /\ contexts => stage # "temp"
=============================================================================
