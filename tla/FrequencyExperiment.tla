------------------------ MODULE FrequencyExperiment ------------------------
(* frequency-ab.sh: a privileged experiment that changes system settings,    *)
(* measures under them, restores them and hands its evidence to a publisher  *)
(* without privileges. The ledger, the lock and the record of the stage live *)
(* in /run, the stage in /tmp. Processes may be killed at any step while the *)
(* groups they started run on.                                               *)
EXTENDS Naturals, FiniteSets

CONSTANTS
  Slots,      \* invocations that may overlap
  Settings,   \* no_turbo, and scaling_max_freq of the cap leg
  Turbo,      \* the first of them
  MaxRuns,    \* bound: experiments that stage evidence
  MaxFaults   \* bound: signals, kills, reboots, failures

VARIABLES
  value, saved,   \* the settings, and the restore ledger
  groups,         \* per invocation: its live process groups
  tracked,        \* per invocation: it tracks a sampler
  pc, capped,     \* per invocation: its step, and whether --cap was given
  armed,          \* per invocation: the stage is its own
  stage, recorded,\* the staging directory and its durable record
  runs,           \* experiments begun
  published, aside, \* ghosts: experiments published, quarantined or lost
  exited,         \* ghost: how a handled exit ended
  faults

settings == <<value, saved>>
outputs  == <<stage, recorded, runs, published, aside>>
vars == <<settings, groups, tracked, pc, capped, armed, outputs, exited, faults>>

NoStage == [at |-> "none", run |-> 0, odd |-> FALSE]

Init ==
  /\ value = [s \in Settings |-> "orig"] /\ saved = [s \in Settings |-> "none"]
  /\ groups = [r \in Slots |-> {}] /\ tracked = [r \in Slots |-> FALSE]
  /\ pc = [r \in Slots |-> "off"] /\ capped = [r \in Slots |-> FALSE]
  /\ armed = [r \in Slots |-> FALSE]
  /\ stage = NoStage /\ recorded = FALSE /\ runs = 0
  /\ published = {} /\ aside = {}
  /\ exited = [r \in Slots |-> "no"] /\ faults = 0

-----------------------------------------------------------------------------
Legs == {"A1", "B", "A2", "cap"}
Cleanup == {"exit", "exitRestore", "exitPublish", "exitPublishing", "exitClear", "release"}
Running(r) == pc[r] \notin {"off"} \cup Cleanup

(* Mutant: only the shell holds the guard.                                   *)
ShellsGone == \A r \in Slots : pc[r] = "off"

(* The guard is inherited by the groups of an invocation.                    *)
GuardFree == \A r \in Slots : pc[r] = "off" /\ groups[r] = {}

Pending == {s \in Settings : saved[s] # "none"}
Goto(r, l) == pc' = [pc EXCEPT ![r] = l]
Fault == faults < MaxFaults /\ faults' = faults + 1
Calm == UNCHANGED <<exited, faults>>

-----------------------------------------------------------------------------
(* Settings.                                                                 *)

(* diag_restore_save: what is there now enters the ledger, once.             *)
Save(r, s) ==
  /\ saved[s] = "none"
  /\ saved' = [saved EXCEPT ![s] = value[s]] /\ UNCHANGED value

RestorePc == {"restore", "restoreTurbo", "restoreCap", "exitRestore"}

AfterRestore(r) ==
  CASE pc[r] = "restore"      -> "outputs"
    [] pc[r] = "restoreTurbo" -> IF capped[r] THEN "saveCap" ELSE "finish"
    [] pc[r] = "restoreCap"   -> "finish"
    [] OTHER                  -> "exitPublish"

(* diag_restore_now: every entry is written back and read, then the ledger   *)
(* is replaced.                                                              *)
Restore(r) ==
  /\ pc[r] \in RestorePc
  /\ LET left == {s \in Pending : value[s] # saved[s]} IN
     IF left # {}
     THEN \E s \in left : value' = [value EXCEPT ![s] = saved[s]] /\ UNCHANGED <<saved, pc>>
     ELSE /\ saved' = [s \in Settings |-> "none"] /\ UNCHANGED value
          /\ Goto(r, AfterRestore(r))
  /\ UNCHANGED <<groups, tracked, capped, armed, outputs>> /\ Calm

(* Mutant: a cleanup that could not restore publishes all the same.          *)
RestoreFailsOn(r) ==
  /\ pc[r] \in RestorePc /\ Pending # {} /\ Fault
  /\ Goto(r, IF pc[r] = "exitRestore" THEN "exitPublish" ELSE "exit")
  /\ UNCHANGED <<settings, groups, tracked, capped, armed, outputs, exited>>

(* A write that is refused keeps its entry. The cleanup gives up, every      *)
(* other restore ends the invocation.                                        *)
RestoreFails(r) ==
  /\ pc[r] \in RestorePc /\ Pending # {} /\ Fault
  /\ Goto(r, IF pc[r] = "exitRestore" THEN "off" ELSE "exit")
  /\ exited' = [exited EXCEPT ![r] = IF pc[r] = "exitRestore" THEN "write" ELSE @]
  /\ UNCHANGED <<settings, groups, tracked, capped, armed, outputs>>

-----------------------------------------------------------------------------
(* Beginning.                                                                *)

Lock(r) ==
  /\ pc[r] = "off" /\ GuardFree
  /\ Goto(r, "restore") /\ \E c \in BOOLEAN : capped' = [capped EXCEPT ![r] = c]
  /\ armed' = [armed EXCEPT ![r] = FALSE]
  /\ exited' = [x \in Slots |-> "no"]
  /\ UNCHANGED <<settings, groups, tracked, outputs, faults>>

(* frequency_recover_pending_outputs, with what it says of a stage.          *)
NoPending(r) ==
  /\ pc[r] = "outputs" /\ stage.at = "none"
  /\ recorded' = FALSE /\ Goto(r, "checks")
  /\ UNCHANGED <<settings, groups, tracked, capped, armed, stage, runs, published, aside>> /\ Calm

(* Mutant: a stage without a record is removed.                              *)
QuarantineDeletes(r) ==
  /\ pc[r] = "outputs" /\ stage.at # "none" /\ ~recorded
  /\ stage' = NoStage /\ recorded' = FALSE /\ Goto(r, "checks")
  /\ UNCHANGED <<settings, groups, tracked, capped, armed, runs, published, aside>> /\ Calm

Quarantine(r) ==
  /\ pc[r] = "outputs" /\ stage.at # "none" /\ ~recorded
  /\ aside' = aside \cup {stage.run} /\ stage' = NoStage /\ recorded' = FALSE
  /\ Goto(r, "checks")
  /\ UNCHANGED <<settings, groups, tracked, capped, armed, runs, published>> /\ Calm

(* Mutant: a stage that was handed over before is not published again.       *)
HandoffRootOnly(r) ==
  /\ \/ /\ pc[r] = "outputs" /\ stage.at # "none" /\ recorded
        /\ Goto(r, IF stage.at = "root" THEN "publishing" ELSE "exit")
     \/ pc[r] = "exitPublish" /\ armed[r] /\ Goto(r, "exitPublishing")
  /\ stage' = [stage EXCEPT !.at = "user"]
  /\ UNCHANGED <<settings, groups, tracked, capped, armed, recorded, runs, published, aside>> /\ Calm

(* The payload is handed over with its directory last.                       *)
Handoff(r) ==
  /\ \/ pc[r] = "outputs" /\ stage.at # "none" /\ recorded /\ Goto(r, "publishing")
     \/ pc[r] = "exitPublish" /\ armed[r] /\ Goto(r, "exitPublishing")
  /\ stage' = [stage EXCEPT !.at = "user"]
  /\ UNCHANGED <<settings, groups, tracked, capped, armed, recorded, runs, published, aside>> /\ Calm

(* The publisher is a process without privileges of its own.                 *)
Publish(r) ==
  /\ pc[r] \in {"publishing", "exitPublishing"} /\ ~stage.odd
  /\ published' = published \cup {stage.run} /\ stage' = NoStage
  /\ Goto(r, IF pc[r] = "publishing" THEN "clear" ELSE "exitClear")
  /\ UNCHANGED <<settings, groups, tracked, capped, armed, recorded, runs, aside>> /\ Calm

ClearRecord(r) ==
  /\ pc[r] \in {"clear", "exitClear"}
  /\ recorded' = FALSE
  /\ Goto(r, IF pc[r] = "clear" THEN "checks" ELSE "release")
  /\ UNCHANGED <<settings, groups, tracked, capped, armed, stage, runs, published, aside>> /\ Calm

(* Status 76 of a payload with a strange name.                               *)
RejectedOdd(r) ==
  /\ pc[r] \in {"publishing", "exitPublishing"} /\ stage.odd
  /\ IF pc[r] = "publishing"
     THEN /\ aside' = aside \cup {stage.run} /\ stage' = NoStage /\ recorded' = FALSE
          /\ Goto(r, "checks")
     ELSE UNCHANGED <<aside, stage, recorded>> /\ Goto(r, "release")
  /\ UNCHANGED <<settings, groups, tracked, capped, armed, runs, published>> /\ Calm

(* A busy bundle, or one that is not there: stage and record are kept.       *)
PublishFails(r) ==
  /\ pc[r] \in {"publishing", "exitPublishing"} /\ Fault
  /\ Goto(r, IF pc[r] = "publishing" THEN "exit" ELSE "release")
  /\ UNCHANGED <<settings, groups, tracked, capped, armed, outputs, exited>>

(* A run that only recovers ends here, as one does that is not applicable.   *)
Refuse(r) ==
  /\ pc[r] = "checks"
  /\ Goto(r, "exit")
  /\ UNCHANGED <<settings, groups, tracked, capped, armed, outputs>> /\ Calm

MakeStage(r) ==
  /\ pc[r] = "checks" /\ value[Turbo] = "orig" /\ runs < MaxRuns /\ stage.at = "none"
  /\ runs' = runs + 1 /\ stage' = [at |-> "root", run |-> runs + 1, odd |-> FALSE]
  /\ Goto(r, "record") /\ armed' = [armed EXCEPT ![r] = TRUE]
  /\ UNCHANGED <<settings, groups, tracked, capped, recorded, published, aside>> /\ Calm

WriteRecord(r) ==
  /\ pc[r] = "record"
  /\ recorded' = TRUE /\ Goto(r, "saveTurbo")
  /\ UNCHANGED <<settings, groups, tracked, capped, armed, stage, runs, published, aside>> /\ Calm

-----------------------------------------------------------------------------
(* The legs.                                                                 *)

SaveTurbo(r) ==
  /\ pc[r] = "saveTurbo" /\ Save(r, Turbo) /\ Goto(r, "A1")
  /\ UNCHANGED <<groups, tracked, capped, armed, outputs>> /\ Calm

(* Mutant: the cap is written before it is saved.                            *)
CapUnsaved(r) ==
  /\ \E s \in Settings \ {Turbo} :
       \/ /\ pc[r] = "saveCap" /\ value' = [value EXCEPT ![s] = "mod"]
          /\ UNCHANGED saved /\ Goto(r, "capOn")
       \/ pc[r] = "capOn" /\ Save(r, s) /\ Goto(r, "cap")
  /\ UNCHANGED <<groups, tracked, capped, armed, outputs>> /\ Calm

SetCap(r) ==
  /\ \E s \in Settings \ {Turbo} :
       \/ pc[r] = "saveCap" /\ Save(r, s) /\ Goto(r, "capOn")
       \/ /\ pc[r] = "capOn" /\ value' = [value EXCEPT ![s] = "mod"]
          /\ UNCHANGED saved /\ Goto(r, "cap")
  /\ UNCHANGED <<groups, tracked, capped, armed, outputs>> /\ Calm

SetTurbo(r) ==
  /\ pc[r] \in {"turboOff", "turboOn"}
  /\ value' = [value EXCEPT ![Turbo] = IF pc[r] = "turboOff" THEN "mod" ELSE "orig"]
  /\ Goto(r, IF pc[r] = "turboOff" THEN "B" ELSE "A2")
  /\ UNCHANGED <<saved, groups, tracked, capped, armed, outputs>> /\ Calm

(* diag_run_single_runs: a sampler, then one workload group after another.   *)
StartLeg(r) ==
  /\ pc[r] \in Legs /\ ~tracked[r]
  /\ groups' = [groups EXCEPT ![r] = {"sampler", "workload"}]
  /\ tracked' = [tracked EXCEPT ![r] = TRUE]
  /\ UNCHANGED <<settings, pc, capped, armed, outputs>> /\ Calm

SamplerDies(r) ==
  /\ "sampler" \in groups[r] /\ Fault
  /\ groups' = [groups EXCEPT ![r] = @ \ {"sampler"}]
  /\ UNCHANGED <<settings, tracked, pc, capped, armed, outputs, exited>>

(* A sampler that ended before the workload fails the leg.                   *)
EndLeg(r) ==
  /\ pc[r] \in Legs /\ tracked[r]
  /\ groups' = [groups EXCEPT ![r] = {}] /\ tracked' = [tracked EXCEPT ![r] = FALSE]
  /\ Goto(r, IF "sampler" \notin groups[r] THEN "exit"
             ELSE CASE pc[r] = "A1" -> "turboOff" [] pc[r] = "B" -> "turboOn"
                    [] pc[r] = "A2" -> "restoreTurbo" [] OTHER -> "capRows")
  /\ UNCHANGED <<settings, capped, armed, outputs>> /\ Calm

(* The rows of the cap leg are moved to a table of their own by sed -i.      *)
SplitCapRows(r) ==
  /\ pc[r] = "capRows"
  /\ IF stage.odd THEN stage' = [stage EXCEPT !.odd = FALSE] /\ Goto(r, "restoreCap")
                  ELSE stage' = [stage EXCEPT !.odd = TRUE] /\ Goto(r, "capRows")
  /\ UNCHANGED <<settings, groups, tracked, capped, armed, recorded, runs, published, aside>> /\ Calm

Finish(r) ==
  /\ pc[r] = "finish" /\ Goto(r, "exit")
  /\ UNCHANGED <<settings, groups, tracked, capped, armed, outputs>> /\ Calm

-----------------------------------------------------------------------------
(* The cleanup of an exit or a signal.                                       *)

(* SIGINT or SIGTERM, or any step that fails. A cleanup before the ledger is *)
(* armed restores nothing.                                                   *)
Interrupt(r) ==
  /\ Running(r) /\ Fault
  /\ Goto(r, "exit") \/ (pc[r] = "restore" /\ Goto(r, "off"))
  /\ UNCHANGED <<settings, groups, tracked, capped, armed, outputs, exited>>

(* Mutant: the settings are restored under a workload that goes on.          *)
StopNothing(r) ==
  /\ pc[r] = "exit" /\ Goto(r, "exitRestore")
  /\ UNCHANGED <<settings, groups, tracked, capped, armed, outputs>> /\ Calm

(* Only groups known to have stopped let the cleanup go on. A sampler that   *)
(* ended by itself counts as one that could not be stopped.                  *)
Stop(r) ==
  /\ pc[r] = "exit"
  /\ groups' = [groups EXCEPT ![r] = {}] /\ tracked' = [tracked EXCEPT ![r] = FALSE]
  /\ IF tracked[r] /\ "sampler" \notin groups[r]
     THEN Goto(r, "off") /\ exited' = [exited EXCEPT ![r] = "clean"]
     ELSE Goto(r, "exitRestore") /\ UNCHANGED exited
  /\ UNCHANGED <<settings, capped, armed, outputs, faults>>

StopFails(r) ==
  /\ pc[r] = "exit" /\ groups[r] # {} /\ Fault /\ Goto(r, "off")
  /\ exited' = [exited EXCEPT ![r] = "groups"]
  /\ tracked' = [tracked EXCEPT ![r] = FALSE]
  /\ UNCHANGED <<settings, groups, capped, armed, outputs>>

(* The cleanup publishes what its own invocation staged.                     *)
NothingStaged(r) ==
  /\ pc[r] = "exitPublish" /\ ~armed[r] /\ Goto(r, "release")
  /\ UNCHANGED <<settings, groups, tracked, capped, armed, outputs>> /\ Calm

Release(r) ==
  /\ pc[r] = "release" /\ Goto(r, "off")
  /\ exited' = [exited EXCEPT ![r] = "clean"]
  /\ UNCHANGED <<settings, groups, tracked, capped, armed, outputs, faults>>

-----------------------------------------------------------------------------
(* Faults.                                                                   *)

Kill(r) ==
  /\ pc[r] # "off" /\ Fault /\ Goto(r, "off")
  /\ tracked' = [tracked EXCEPT ![r] = FALSE]
  /\ UNCHANGED <<settings, groups, capped, armed, outputs, exited>>

(* The guard of an orphaned group ends it.                                   *)
OrphansEnd(r) ==
  /\ pc[r] = "off" /\ groups[r] # {}
  /\ groups' = [groups EXCEPT ![r] = {}]
  /\ UNCHANGED <<settings, tracked, pc, capped, armed, outputs>> /\ Calm

(* /run and the settings are as the machine boots, /tmp may be kept.         *)
Reboot ==
  /\ Fault
  /\ value' = [s \in Settings |-> "orig"] /\ saved' = [s \in Settings |-> "none"]
  /\ groups' = [r \in Slots |-> {}] /\ tracked' = [r \in Slots |-> FALSE]
  /\ pc' = [r \in Slots |-> "off"] /\ recorded' = FALSE
  /\ \/ UNCHANGED <<stage, aside>>
     \/ stage.at # "none" /\ stage' = NoStage /\ aside' = aside \cup {stage.run}
  /\ exited' = [r \in Slots |-> "no"]
  /\ UNCHANGED <<capped, armed, runs, published>>

Step(r) ==
  \/ Lock(r) \/ Restore(r) \/ NoPending(r) \/ Quarantine(r) \/ Handoff(r) \/ Publish(r)
  \/ ClearRecord(r) \/ RejectedOdd(r) \/ Refuse(r) \/ MakeStage(r) \/ WriteRecord(r)
  \/ SaveTurbo(r) \/ SetCap(r) \/ SetTurbo(r) \/ StartLeg(r) \/ EndLeg(r)
  \/ SplitCapRows(r) \/ Finish(r) \/ Stop(r) \/ NothingStaged(r) \/ Release(r) \/ OrphansEnd(r)

Trouble(r) == RestoreFails(r) \/ PublishFails(r) \/ SamplerDies(r) \/ Interrupt(r)
                \/ StopFails(r) \/ Kill(r)

Next == (\E r \in Slots : Step(r) \/ Trouble(r)) \/ Reboot

(* The experiment is invoked again, and what was started goes on.            *)
Spec == Init /\ [][Next]_vars /\ WF_vars(\E r \in Slots : Step(r))

-----------------------------------------------------------------------------
(* Properties.                                                               *)

AllOriginal == \A s \in Settings : value[s] = "orig"

(* A changed setting can be restored: the ledger has its original value, and *)
(* never a changed one.                                                      *)
OriginalIsSaved ==
  \A s \in Settings : /\ value[s] = "mod" => saved[s] = "orig"
                      /\ saved[s] # "mod"

(* A workload runs under one setting from its start to its end, whichever    *)
(* invocation started it and whatever became of that.                        *)
OneSettingPerLeg ==
  [][(\E r \in Slots : groups[r] # {} /\ groups'[r] # {}) => value' = value]_vars

(* Evidence leaves the private stage only with every setting restored.       *)
RestoredBeforePublished ==
  [][(published' # published \/ (stage'.at = "user" /\ stage.at = "root")) => AllOriginal]_vars

(* What an experiment staged is published once or set aside, never dropped   *)
(* and never mixed with that of another.                                     *)
EvidenceKept ==
  /\ published \cap aside = {}
  /\ 1..runs = published \cup aside \cup (IF stage.at = "none" THEN {} ELSE {stage.run})
  /\ stage.run \notin published \cup aside

(* Whatever was killed, a later invocation restores and publishes.           *)
Recovers == []<>(AllOriginal /\ Pending = {} /\ stage.at = "none")

(* frequency-ab.sh:11: the original value is restored on normal exit,        *)
(* failure, SIGINT or SIGTERM.                                               *)
HandledExitRestores == \A r \in Slots : exited[r] = "clean" => AllOriginal
=============================================================================
