-------------------------- MODULE FrequencyPublish --------------------------
(* publish-frequency-transaction.sh: the staged evidence of a frequency      *)
(* experiment replaces what a diagnostics bundle holds, behind a fence in    *)
(* the bundle and a journal in the stage. Several stages may wait for one    *)
(* bundle, a publisher may be killed between any two steps, and a power loss *)
(* undoes what sync -f had not reached. The stage lies on another file       *)
(* system, which such a loss may empty.                                      *)
EXTENDS Naturals, Sequences, SequencesExt, FiniteSets

CONSTANTS
  Txs,        \* the transactions, one stage each
  Artifacts,  \* the names a stage may hold
  Cap,        \* those of the optional frequency cap
  None,       \* no value, no transaction
  MaxFaults,  \* bound: kills and power losses
  MaxResumes  \* bound: sessions of diagnose.sh between the publications

VARIABLES
  stage,      \* per transaction: what its staging directory holds
  view, disk, \* the bundle as a process sees it, and as a power loss leaves it
  lock,       \* who holds the directory lock of the bundle
  pc, plan,   \* the publishers, and what each has read of the bundle
  good,       \* ghost: evidence and commands of the last commit
  faults, resumes

vars == <<stage, view, disk, lock, pc, plan, good, faults, resumes>>

NoFence == [form |-> "none", owner |-> None]
Fence(f, t) == [form |-> f, owner |-> t]
NoPlan == [base |-> [a \in Artifacts |-> None], log |-> <<>>]

(* A run that was cut short staged fewer artifacts; one that was killed in   *)
(* sed -i left a name that no stage holds.                                   *)
StageOf(given, cap, odd) ==
  [at |-> "here", given |-> given, cap |-> cap, odd |-> odd, src |-> given,
   log |-> TRUE, control |-> TRUE, journal |-> "none", plan |-> NoPlan]

Stages == {s \in {StageOf(g, c, o) : g \in {{}, Artifacts \ Cap, Artifacts}, c \in BOOLEAN, o \in BOOLEAN} :
             (~s.cap => s.given \cap Cap = {}) /\ (s.odd => s.cap /\ s.given = Artifacts)}

Init ==
  /\ stage \in [Txs -> Stages]
  /\ view = [ev |-> [a \in Artifacts |-> None], log |-> <<>>, fence |-> NoFence, cand |-> {},
             marker |-> FALSE, manifest |-> TRUE, report |-> TRUE]
  /\ disk = view /\ lock = None
  /\ pc = [t \in Txs |-> "idle"] /\ plan = [t \in Txs |-> NoPlan]
  /\ good = [ev |-> view.ev, log |-> view.log]
  /\ faults = 0 /\ resumes = 0

-----------------------------------------------------------------------------
(* What a publisher reads.                                                   *)

Here(t) == stage[t].at = "here"
Deletes(t) == IF stage[t].cap THEN {} ELSE Cap

(* The plan of a stage without a journal is what the bundle holds now; the   *)
(* journal fixes it.                                                         *)
Held == [base |-> view.ev, log |-> view.log]
Planned(t) == IF stage[t].journal = "none" THEN Held ELSE stage[t].plan

(* frequency_tx_command_plan: the staged log follows the published one.      *)
FinalLog(t, p) == Append(p.log, t)

(* frequency_tx_fence_preflight                                              *)
FencePasses(t) ==
  \/ view.fence.form = "bound" /\ view.fence.owner = t
  \/ view.fence.form = "pending" /\ view.fence.owner = t /\ view.cand = {}
  \/ view.fence.form \in {"none", "empty"} /\ view.cand = {}

(* Mutant: a retry may observe only the recorded base.                       *)
DestinationsAtBase(t, p) ==
  /\ \A a \in stage[t].given \cup Deletes(t) : view.ev[a] = p.base[a]
  /\ view.log = p.log

(* A retry may observe only the recorded base or the value it wants.         *)
DestinationsAgree(t, p) ==
  /\ \A a \in stage[t].given :
       /\ view.ev[a] \in {p.base[a], t}
       /\ a \in stage[t].src \/ view.ev[a] = t
  /\ \A a \in Deletes(t) : view.ev[a] \in {p.base[a], None}
  /\ view.log \in {p.log, FinalLog(t, p)}
  /\ stage[t].log \/ view.log = FinalLog(t, p)

Emptied(t) == stage[t].journal = "none" /\ ~stage[t].control /\ ~stage[t].log

Goto(t, l) == pc' = [pc EXCEPT ![t] = l]
Write(v) == view' = v /\ disk' = disk
Sync(v)  == view' = v /\ disk' = v
Stage(t, s) == stage' = [stage EXCEPT ![t] = s]
Leave(t) == Goto(t, "idle") /\ lock' = None
Bundle == UNCHANGED <<view, disk>>
Rest == UNCHANGED <<lock, plan, good, faults, resumes>>

-----------------------------------------------------------------------------
(* The transaction up to its fence.                                          *)

(* A publisher that finds the lock taken exits with 75 and changes nothing.  *)
Begin(t) ==
  /\ pc[t] = "idle" /\ Here(t) /\ lock = None
  /\ lock' = t /\ Goto(t, "check")
  /\ UNCHANGED <<stage, view, disk, plan, good, faults, resumes>>

(* Nothing but directories: the cleanup of a commit was cut short.           *)
FinishEmpty(t) ==
  /\ pc[t] = "check" /\ Emptied(t)
  /\ IF view.fence = NoFence THEN Stage(t, [stage[t] EXCEPT !.at = "gone"])
                             ELSE UNCHANGED stage
  /\ Leave(t)
  /\ UNCHANGED <<view, disk, plan, good, faults, resumes>>

(* Status 76: without a journal and a fence the caller may put a stage that  *)
(* holds a strange name aside.                                               *)
RejectOdd(t) ==
  /\ pc[t] = "check" /\ stage[t].odd /\ stage[t].journal = "none" /\ ~Emptied(t)
  /\ IF view.fence = NoFence THEN Stage(t, [stage[t] EXCEPT !.at = "quarantined"])
                             ELSE UNCHANGED stage
  /\ Leave(t)
  /\ UNCHANGED <<view, disk, plan, good, faults, resumes>>

(* The read-only preflight precedes the first mutation of the bundle.        *)
Preflight(t) ==
  /\ pc[t] = "check" /\ stage[t].journal # "committed" /\ ~Emptied(t) /\ ~stage[t].odd
  /\ IF FencePasses(t) /\ DestinationsAgree(t, Planned(t))
     THEN Goto(t, "manifest") /\ plan' = [plan EXCEPT ![t] = Planned(t)] /\ UNCHANGED lock
     ELSE Leave(t) /\ UNCHANGED plan
  /\ UNCHANGED <<stage, view, disk, good, faults, resumes>>

(* The manifest goes first and durably, then what is derived from it.        *)
DropManifest(t) ==
  /\ pc[t] = "manifest" /\ Goto(t, "report")
  /\ Sync([view EXCEPT !.manifest = FALSE])
  /\ UNCHANGED stage /\ Rest

DropReport(t) ==
  /\ pc[t] = "report" /\ Goto(t, "marker")
  /\ Sync([view EXCEPT !.report = FALSE])
  /\ UNCHANGED stage /\ Rest

(* Mutant: the completion marker stays until the commit.                     *)
KeepMarker(t) ==
  /\ pc[t] = "marker" /\ Goto(t, "fence")
  /\ Sync(view)
  /\ UNCHANGED stage /\ Rest

DropMarker(t) ==
  /\ pc[t] = "marker" /\ Goto(t, "fence")
  /\ Sync([view EXCEPT !.marker = FALSE])
  /\ UNCHANGED stage /\ Rest

(* frequency_tx_binding_prepare: mkdir, the pending binding, its rename.     *)
MakeFence(t) ==
  /\ pc[t] = "fence"
  /\ \/ view.fence.form = "none" /\ Sync([view EXCEPT !.fence = Fence("empty", None)]) /\ Goto(t, "fence")
     \/ view.fence.form = "empty" /\ Write([view EXCEPT !.fence = Fence("torn", t)]) /\ Goto(t, "bind")
     \/ view.fence.form = "pending" /\ Sync([view EXCEPT !.fence = Fence("bound", t)]) /\ Goto(t, "fence")
     \/ view.fence.form = "bound" /\ Bundle /\ Goto(t, "journal")
  /\ UNCHANGED stage /\ Rest

WriteBinding(t) ==
  /\ pc[t] = "bind" /\ Goto(t, "fence")
  /\ Sync([view EXCEPT !.fence = Fence("pending", t)])
  /\ UNCHANGED stage /\ Rest

(* Every durable journal authorizes candidates and evidence.                 *)
Prepare(t) ==
  /\ pc[t] = "journal" /\ Goto(t, "candidates")
  /\ Stage(t, IF stage[t].journal = "none"
              THEN [stage[t] EXCEPT !.journal = "prepared", !.plan = plan[t]] ELSE stage[t])
  /\ Bundle /\ Rest

-----------------------------------------------------------------------------
(* Behind the fence.                                                         *)

(* frequency_tx_candidate_prepare and its twin for the command log: a copy   *)
(* of the source beside its destination, made again unless it is exact.      *)
CopyCandidates(t) ==
  /\ pc[t] = "candidates"
  /\ LET wanted == stage[t].src \cup (IF view.log = plan[t].log THEN {"log"} ELSE {})
         left   == wanted \ view.cand IN
     IF left = {} THEN Bundle /\ Goto(t, "deletes")
     ELSE \E c \in left : Write([view EXCEPT !.cand = @ \cup {c}]) /\ Goto(t, "candidates")
  /\ UNCHANGED stage /\ Rest

DeleteStale(t) ==
  /\ pc[t] = "deletes"
  /\ LET left == {a \in Deletes(t) : view.ev[a] # None} IN
     IF left = {} THEN Bundle /\ Goto(t, "install")
     ELSE \E a \in left : Write([view EXCEPT !.ev[a] = None]) /\ Goto(t, "deletes")
  /\ UNCHANGED stage /\ Rest

Install(t) ==
  /\ pc[t] = "install"
  /\ LET left == {a \in stage[t].given : view.ev[a] # t} IN
     IF left = {} THEN Bundle /\ Goto(t, "log")
     ELSE \E a \in left : /\ Write([view EXCEPT !.ev[a] = t, !.cand = @ \ {a}])
                          /\ Goto(t, "installed")
  /\ UNCHANGED stage /\ Rest

(* Mutant: the staged commands are appended to whatever log there is.        *)
AppendAgain(t) ==
  /\ pc[t] = "log" /\ Goto(t, "installed-log")
  /\ Write([view EXCEPT !.log = Append(@, t), !.cand = @ \ {"log"}])
  /\ UNCHANGED stage /\ Rest

(* Mutant: the commit does not wait for the renamed log.                     *)
InstallLogUnsynced(t) ==
  /\ pc[t] = "log" /\ Goto(t, "commit")
  /\ IF view.log # FinalLog(t, plan[t])
     THEN Write([view EXCEPT !.log = FinalLog(t, plan[t]), !.cand = @ \ {"log"}])
     ELSE Bundle
  /\ UNCHANGED stage /\ Rest

InstallLog(t) ==
  /\ pc[t] = "log"
  /\ IF view.log # FinalLog(t, plan[t])
     THEN Write([view EXCEPT !.log = FinalLog(t, plan[t]), !.cand = @ \ {"log"}]) /\ Goto(t, "installed-log")
     ELSE Bundle /\ Goto(t, "settle")
  /\ UNCHANGED stage /\ Rest

Flush(t) ==
  /\ pc[t] \in {"installed", "installed-log"}
  /\ Sync(view) /\ Goto(t, IF pc[t] = "installed" THEN "install" ELSE "settle")
  /\ UNCHANGED stage /\ Rest

(* All is verified and synchronized before the commit.                       *)
Settle(t) ==
  /\ pc[t] = "settle" /\ Goto(t, "commit")
  /\ Sync(view)
  /\ UNCHANGED stage /\ Rest

(* The one-way boundary.                                                     *)
Commit(t) ==
  /\ pc[t] = "commit" /\ Goto(t, "cleanup")
  /\ Stage(t, [stage[t] EXCEPT !.journal = "committed"])
  /\ good' = [ev |-> view.ev, log |-> view.log]
  /\ Bundle /\ UNCHANGED <<lock, plan, faults, resumes>>

-----------------------------------------------------------------------------
(* Cleanup, again after any kill, and never of another transaction's fence.  *)

Adopt(t) ==
  /\ pc[t] = "check" /\ stage[t].journal = "committed"
  /\ IF \/ view.fence = Fence("bound", t)
        \/ view.fence.form \in {"none", "empty"} /\ view.cand = {}
     THEN Goto(t, "cleanup") /\ UNCHANGED lock
     ELSE Leave(t)
  /\ UNCHANGED <<stage, view, disk, plan, good, faults, resumes>>

CleanSources(t) ==
  /\ pc[t] = "cleanup"
  /\ IF stage[t].src # {}
     THEN \E a \in stage[t].src : Stage(t, [stage[t] EXCEPT !.src = @ \ {a}]) /\ Goto(t, "cleanup")
     ELSE /\ Stage(t, [stage[t] EXCEPT !.log = FALSE, !.control = FALSE])
          /\ Goto(t, "leftovers")
  /\ Bundle /\ Rest

CleanCandidates(t) ==
  /\ pc[t] = "leftovers" /\ Goto(t, "unfence")
  /\ Sync([view EXCEPT !.cand = {}])
  /\ UNCHANGED stage /\ Rest

LowerFence(t) ==
  /\ pc[t] = "unfence"
  /\ \/ view.fence.form = "none" /\ Bundle /\ Goto(t, "journal-out")
     \/ view.fence.form = "empty" /\ Sync([view EXCEPT !.fence = NoFence]) /\ Goto(t, "journal-out")
     \/ /\ view.fence.form \notin {"none", "empty"}
        /\ Sync([view EXCEPT !.fence = Fence("empty", None)]) /\ Goto(t, "unfence")
  /\ UNCHANGED stage /\ Rest

RemoveJournal(t) ==
  /\ pc[t] = "journal-out" /\ Goto(t, "stage-out")
  /\ Stage(t, [stage[t] EXCEPT !.journal = "none"])
  /\ Bundle /\ Rest

RemoveStage(t) ==
  /\ pc[t] = "stage-out" /\ Leave(t)
  /\ Stage(t, [stage[t] EXCEPT !.at = "gone"])
  /\ UNCHANGED <<view, disk, plan, good, faults, resumes>>

-----------------------------------------------------------------------------
(* The rest of the world.                                                    *)

(* Mutant: a pending publication does not stop a resumed session.            *)
ResumePast ==
  /\ lock = None /\ resumes < MaxResumes /\ resumes' = resumes + 1
  /\ Write([view EXCEPT !.marker = \E a \in Artifacts : view.ev[a] # None,
                        !.log = Append(@, None), !.manifest = TRUE, !.report = TRUE])
  /\ good' = [good EXCEPT !.log = Append(@, None)]
  /\ UNCHANGED <<stage, lock, pc, plan, faults>>

(* diagnose.sh resumes the bundle: never past a fence. It validates the      *)
(* evidence, marks the phase, adds its own commands and reports.             *)
Resume ==
  /\ lock = None /\ view.fence = NoFence /\ resumes < MaxResumes /\ resumes' = resumes + 1
  /\ Write([view EXCEPT !.marker = \E a \in Artifacts : view.ev[a] # None,
                        !.log = Append(@, None), !.manifest = TRUE, !.report = TRUE])
  /\ good' = [good EXCEPT !.log = Append(@, None)]
  /\ UNCHANGED <<stage, lock, pc, plan, faults>>

Fault == faults < MaxFaults /\ faults' = faults + 1

Kill(t) ==
  /\ Fault /\ pc[t] # "idle" /\ Leave(t)
  /\ UNCHANGED <<stage, view, disk, plan, good, resumes>>

(* The resumed bundle's own lines may be lost with the rest.                 *)
PowerLoss ==
  /\ Fault /\ view' = disk /\ disk' = disk /\ lock' = None
  /\ pc' = [t \in Txs |-> "idle"]
  /\ \/ UNCHANGED stage
     \/ stage' = [t \in Txs |-> IF Here(t) THEN [stage[t] EXCEPT !.at = "lost"] ELSE stage[t]]
  /\ good' = [good EXCEPT !.log = IF view.fence = NoFence THEN disk.log ELSE @]
  /\ UNCHANGED <<plan, resumes>>

Publish(t) ==
  \/ Begin(t) \/ FinishEmpty(t) \/ RejectOdd(t) \/ Preflight(t)
  \/ DropManifest(t) \/ DropReport(t) \/ DropMarker(t)
  \/ MakeFence(t) \/ WriteBinding(t) \/ Prepare(t)
  \/ CopyCandidates(t) \/ DeleteStale(t) \/ Install(t) \/ InstallLog(t) \/ Flush(t)
  \/ Settle(t) \/ Commit(t)
  \/ Adopt(t) \/ CleanSources(t) \/ CleanCandidates(t) \/ LowerFence(t)
  \/ RemoveJournal(t) \/ RemoveStage(t)

Next == (\E t \in Txs : Publish(t) \/ Kill(t)) \/ Resume \/ PowerLoss

(* The experiment is started again until its stage is gone.                  *)
Spec == Init /\ [][Next]_vars /\ \A t \in Txs : SF_vars(Publish(t))

-----------------------------------------------------------------------------
(* Properties.                                                               *)

(* Whoever reads the bundle, now or after a power loss, finds either the     *)
(* evidence and commands of the last commit or the fence, and behind the     *)
(* fence neither a completion marker nor a manifest or report.               *)
MixedIsFenced ==
  \A f \in {view, disk} :
    /\ f.ev # good.ev => f.fence.form = "bound"
    /\ f.fence.form = "bound" => ~f.marker /\ ~f.manifest /\ ~f.report

(* A commit is durable: while a committed stage holds the fence, the disk    *)
(* has every staged artifact, no stale one, and the commands.                *)
CommitIsDurable ==
  \A t \in Txs :
    stage[t].journal = "committed" /\ view.fence = Fence("bound", t) =>
      /\ \A a \in stage[t].given : disk.ev[a] = t
      /\ \A a \in Deletes(t) : disk.ev[a] = None
      /\ disk.log = FinalLog(t, stage[t].plan)

(* The commands of an experiment enter the log once, those of others stay.   *)
CommandsOnce ==
  /\ \A t \in Txs : Cardinality({i \in DOMAIN view.log : view.log[i] = t}) <= 1
  /\ view.fence = NoFence => view.log = good.log

(* No transaction touches what another one fences.                           *)
FenceExcludes ==
  [][view.fence.form = "bound" /\ view # view' =>
       \E t \in Txs : t = view.fence.owner /\ (lock = t \/ view' = disk)]_vars

Stranded ==
  \/ view.fence.form = "torn"
  \/ view.fence.form # "none" /\ \E t \in Txs : view.fence.owner \in {t, None} /\ stage[t].at = "lost"

(* publish-frequency-transaction.sh:2, restart-safe: a transaction is not    *)
(* refused for the fence that it raised itself.                              *)
OwnFencePasses == \A t \in Txs : pc[t] = "check" /\ view.fence.owner = t => FencePasses(t)

(* Every stage is published or set aside, whatever was killed, unless the    *)
(* fence's own stage is lost or its binding was torn.                        *)
Finishes == <>[](Stranded \/ \A t \in Txs : ~Here(t))
=============================================================================
