----------------------------- MODULE Discovery -----------------------------
(* The guided screen of the reference kit (src/src/reference-kit): one       *)
(* controlled-load session per target CPU, in a planned order, each run by   *)
(* an owner process of its own and written into a child bundle. A controller *)
(* holds the lease of the collection's coordination directory and records    *)
(* every session's start and end in a history; the owner inherits that       *)
(* lease, and its workload the lease of the child. The report, its rendering *)
(* and a completion marker are published when every session has an end, and  *)
(* a confirmation may then be authorized.                                    *)
EXTENDS Naturals, Sequences, SequencesExt

CONSTANTS
  Procs,      \* controllers somebody may run on the collection, at any time
  Cpu,        \* the target CPU of each session, in the planned order
  MaxHits,    \* bound: faults observed in the loaded leg of a session
  MaxFaults   \* bound: crashes, kills, cancellations, deadlines, refusals, reboots

ASSUME CpuAssumption == Cpu \in Seq(Nat)

VARIABLES
  plan, bound,   \* the plan and the coordination binding are stored
  child,         \* the bundle of each session
  history,       \* generations: a session, and how it ended
  files,         \* the published report, its rendering, the marker
  authorized,    \* the candidate a confirmation was last let run for
  exported,      \* the status of the last complete screen that was archived
  pc, at, draft, aborted, forced, \* each controller
  owner,         \* of each session: its owner,
  termed,        \* a SIGTERM to it: "no", "sent", or "seen" by its handler,
  record, load,  \* its record and its workload
  boot, moved, faults, \* a later boot, on which the drive has another number
  disturbed      \* history variable: sessions that were interfered with

stored == <<plan, bound, child, history, files>>
ctl    == <<pc, at, draft, aborted, forced>>
own    == <<owner, termed, record, load>>
ghost  == <<authorized, exported, boot, moved, faults, disturbed>>
vars   == <<stored, ctl, own, ghost>>

N == Len(Cpu)
Sessions == 1..N
Files == <<"json", "markdown", "complete">>
NoReport == [status |-> "none", candidate |-> 0, history |-> <<>>, children |-> <<>>]

Bare(stage) == [stage |-> stage, usable |-> FALSE, hits |-> 0]

Init ==
  /\ plan = FALSE /\ bound = FALSE /\ history = <<>> /\ authorized = 0 /\ exported = "none"
  /\ child = [s \in Sessions |-> Bare("absent")]
  /\ files = [f \in Range(Files) |-> NoReport]
  /\ pc = [c \in Procs |-> "idle"] /\ at = [c \in Procs |-> 1]
  /\ draft = [c \in Procs |-> NoReport]
  /\ aborted = [c \in Procs |-> FALSE] /\ forced = [c \in Procs |-> FALSE]
  /\ owner = [s \in Sessions |-> "none"] /\ termed = [s \in Sessions |-> "no"]
  /\ record = [s \in Sessions |-> "none"] /\ load = [s \in Sessions |-> FALSE]
  /\ boot = 0 /\ moved = FALSE /\ faults = 0 /\ disturbed = {}

-----------------------------------------------------------------------------
(* Leases.                                                                   *)
Alive(s) == owner[s] \in {"starting", "measuring", "committed"}

(* The coordination lease: its holder, or an owner that inherited it.        *)
Coordinating == {c \in Procs : pc[c] \notin {"idle", "ensure", "enter"}}
ControllerFree == Coordinating = {}
CoordinatorFree == Coordinating = {} /\ \A s \in Sessions : ~Alive(s)

(* The lease of a child, which a measured workload inherits.                 *)
ChildFree(s) == owner[s] # "measuring" /\ ~load[s]

-----------------------------------------------------------------------------
(* The history, parseReferenceDiscoveryHistory.                              *)
Ended(s) == \E i \in DOMAIN history : history[i].s = s /\ history[i].end # "open"
Committed(s) == \E i \in DOMAIN history : history[i] = [s |-> s, end |-> "committed"]
IsOpen == history # <<>> /\ Last(history).end = "open"
Contaminated == \E i \in DOMAIN history : history[i].end # "committed"

Startable(s) ==
  /\ ~IsOpen /\ ~Committed(s)
  /\ LET current == IF history = <<>> THEN 0 ELSE Last(history).s
     IN  s \in {current, current + 1}

EndWith(how) == history' = [history EXCEPT ![Len(history)].end = how]

-----------------------------------------------------------------------------
(* The report, buildReferenceDiscoveryReport.                                *)
Complete == \A s \in Sessions : child[s].stage = "complete"

Consistent ==
  \A s \in Sessions :
    /\ Committed(s) => child[s].stage = "complete"
    /\ child[s].stage = "complete" => Ended(s)

Selectable == Complete /\ ~Contaminated /\ \A s \in Sessions : child[s].usable

(* The most faults under load, then the lower CPU.                           *)
Outranks(s, t) ==
  child[s].hits > child[t].hits \/ (child[s].hits = child[t].hits /\ Cpu[s] < Cpu[t])

Candidates ==
  {s \in Sessions : /\ Selectable /\ child[s].hits > 0
                    /\ \A t \in Sessions \ {s} : Outranks(s, t)}

Report ==
  [status    |-> IF ~Complete THEN "incomplete"
                 ELSE IF ~Selectable THEN "ineligible"
                 ELSE IF Candidates = {} THEN "no-candidate" ELSE "candidate",
   candidate |-> IF Candidates = {} THEN 0 ELSE CHOOSE s \in Candidates : TRUE,
   history   |-> history,
   children  |-> child]

(* What a reader needs: every child free and initialized, and an account of  *)
(* each that agrees with the history.                                        *)
Readable ==
  /\ \A s \in Sessions : ChildFree(s) /\ child[s].stage # "absent"
  /\ Consistent

(* verifyReferenceDiscoveryReportPublication.                                *)
Verifies == (\A f \in DOMAIN files : files[f] = NoReport) \/ (\A f \in DOMAIN files : files[f] = Report)

-----------------------------------------------------------------------------
(* A controller.                                                             *)
Fault == faults < MaxFaults /\ faults' = faults + 1
Calm  == UNCHANGED faults

Go(c, where) == pc' = [pc EXCEPT ![c] = where]

Leave(c) ==
  /\ Go(c, "idle") /\ at' = [at EXCEPT ![c] = 1] /\ draft' = [draft EXCEPT ![c] = NoReport]
  /\ aborted' = [aborted EXCEPT ![c] = FALSE] /\ forced' = [forced EXCEPT ![c] = FALSE]

Quiet == UNCHANGED <<authorized, exported, boot, moved, disturbed>>

(* startReferenceDiscoveryCampaign: only a collection with nothing in it.    *)
Start(c) ==
  /\ pc[c] = "idle" /\ ~plan /\ boot = 0
  /\ plan' = TRUE /\ Go(c, "ensure")
  /\ Calm /\ Quiet /\ UNCHANGED <<bound, child, history, files, at, draft, aborted, forced, own>>

Resume(c) ==
  /\ pc[c] = "idle" /\ plan /\ boot = 0
  /\ Go(c, "ensure")
  /\ Calm /\ Quiet /\ UNCHANGED <<stored, at, draft, aborted, forced, own>>

Ensure(c) ==
  /\ pc[c] = "ensure" /\ bound' = TRUE /\ Go(c, "enter")
  /\ Calm /\ Quiet /\ UNCHANGED <<plan, child, history, files, at, draft, aborted, forced, own>>

(* The lease is taken or the run ends: nobody waits for it.                  *)
Enter(c) ==
  /\ pc[c] = "enter"
  /\ IF CoordinatorFree THEN Go(c, "check") /\ UNCHANGED <<at, draft, aborted, forced>>
                        ELSE Leave(c)
  /\ Calm /\ Quiet /\ UNCHANGED <<stored, own>>

(* revalidateReferenceDiscoveryExecution, before anything and before every   *)
(* session: the boot, the host, the kit and the workloads must be the plan's,*)
(* and memory and storage sufficient.                                        *)
Validated(c) == boot = 0 /\ Calm
Refused(c) ==
  /\ pc[c] \in {"check", "next"} /\ (IF boot = 0 THEN Fault ELSE Calm)
  /\ Leave(c) /\ Quiet /\ UNCHANGED <<stored, own>>

Check(c) ==
  /\ pc[c] = "check" /\ Validated(c) /\ Go(c, "init")
  /\ Quiet /\ UNCHANGED <<stored, at, draft, aborted, forced, own>>

InitChildUnlocked(c) ==
  /\ pc[c] = "init" /\ at[c] <= N
  /\ child' = [child EXCEPT ![at[c]] = IF @.stage = "absent" THEN Bare("empty") ELSE @]
  /\ at' = [at EXCEPT ![c] = @ + 1]
  /\ Calm /\ Quiet /\ UNCHANGED <<plan, bound, history, files, pc, draft, aborted, forced, own>>

(* initializeReferenceDiscoveryChild for every session, under its lease.     *)
InitChild(c) ==
  /\ pc[c] = "init" /\ at[c] <= N
  /\ IF ChildFree(at[c])
     THEN /\ child' = [child EXCEPT ![at[c]] = IF @.stage = "absent" THEN Bare("empty") ELSE @]
          /\ at' = [at EXCEPT ![c] = @ + 1]
          /\ UNCHANGED <<pc, draft, aborted, forced>>
     ELSE Leave(c) /\ UNCHANGED child
  /\ Calm /\ Quiet /\ UNCHANGED <<plan, bound, history, files, own>>

(* An open generation is closed once its child can be read.                  *)
Reconcile(c) ==
  /\ pc[c] = "init" /\ at[c] > N
  /\ IF IsOpen /\ ~ChildFree(Last(history).s)
     THEN Leave(c) /\ UNCHANGED history
     ELSE /\ IF IsOpen THEN EndWith("failed") ELSE UNCHANGED history
          /\ Go(c, "next") /\ at' = [at EXCEPT ![c] = 1]
          /\ UNCHANGED <<draft, aborted, forced>>
  /\ Calm /\ Quiet /\ UNCHANGED <<plan, bound, child, files, own>>

(* A session that ended, whichever way, is never run again.                  *)
Skip(c) ==
  /\ pc[c] = "next" /\ at[c] <= N /\ Ended(at[c])
  /\ at' = [at EXCEPT ![c] = @ + 1]
  /\ Calm /\ Quiet /\ UNCHANGED <<stored, pc, draft, aborted, forced, own>>

PublishStart(c) ==
  /\ pc[c] = "next" /\ at[c] <= N /\ ~Ended(at[c]) /\ ~aborted[c] /\ Validated(c)
  /\ IF ChildFree(at[c]) /\ child[at[c]].stage = "empty" /\ Startable(at[c])
     THEN /\ history' = Append(history, [s |-> at[c], end |-> "open"])
          /\ Go(c, "spawn") /\ UNCHANGED <<at, draft, aborted, forced>>
     ELSE Leave(c) /\ UNCHANGED history
  /\ Quiet /\ UNCHANGED <<plan, bound, child, files, own>>

EndLoop(c) ==
  /\ pc[c] = "next" /\ (at[c] > N \/ (~Ended(at[c]) /\ aborted[c]))
  /\ Go(c, "derive")
  /\ Calm /\ Quiet /\ UNCHANGED <<stored, at, draft, aborted, forced, own>>

(* runReferenceDiscoverySessionProcess; an owner spawned for a cancelled run *)
(* is told to stop at once.                                                  *)
Spawn(c) ==
  /\ pc[c] = "spawn"
  /\ owner' = [owner EXCEPT ![at[c]] = "starting"]
  /\ termed' = [termed EXCEPT ![at[c]] = IF aborted[c] THEN "sent" ELSE "no"]
  /\ Go(c, "wait")
  /\ Calm /\ Quiet /\ UNCHANGED <<stored, at, draft, aborted, forced, record, load>>

(* Mutant: a committed record counts, however its owner exited.              *)
AcceptedRecord(c) == record[at[c]] = "committed"

(* A committed record counts if its owner exited with 0, as it does unless   *)
(* its handler ran, and no deadline had passed; anything else is an error.   *)
Accepted(c) == record[at[c]] = "committed" /\ termed[at[c]] # "seen" /\ ~forced[c]

Close(c) ==
  /\ pc[c] = "wait" /\ owner[at[c]] = "gone"
  /\ EndWith(IF Accepted(c) THEN "committed" ELSE "failed")
  /\ Go(c, "after")
  /\ Calm /\ Quiet /\ UNCHANGED <<plan, bound, child, files, at, draft, aborted, forced, own>>

After(c) ==
  /\ pc[c] = "after"
  /\ LET ok == Committed(at[c])
     IN  IF ~ChildFree(at[c]) \/ (ok /\ child[at[c]].stage # "complete")
         THEN Leave(c)
         ELSE /\ Go(c, IF ok THEN "next" ELSE "derive")
              /\ at' = [at EXCEPT ![c] = IF ok THEN @ + 1 ELSE @]
              /\ UNCHANGED <<draft, aborted, forced>>
  /\ Calm /\ Quiet /\ UNCHANGED <<stored, own>>

(* deriveReportInsideCoordinator.                                            *)
Derive(c) ==
  /\ pc[c] = "derive"
  /\ IF Readable /\ \A s \in Sessions : Ended(s)
     THEN /\ Go(c, "publish") /\ draft' = [draft EXCEPT ![c] = Report]
          /\ at' = [at EXCEPT ![c] = 1] /\ UNCHANGED <<aborted, forced>>
     ELSE Leave(c)
  /\ Calm /\ Quiet /\ UNCHANGED <<stored, own>>

(* commitOrVerify: what is there is kept, and must be what would be written. *)
FitsFresh(f, report) == files[f] = NoReport
Fits(f, report) == files[f] \in {NoReport, report}

PutFile(c) ==
  /\ pc[c] = "publish"
  /\ LET f == Files[at[c]]
     IN  IF Fits(f, draft[c])
         THEN /\ files' = [files EXCEPT ![f] = draft[c]]
              /\ IF at[c] < Len(Files)
                 THEN at' = [at EXCEPT ![c] = @ + 1] /\ UNCHANGED <<pc, draft, aborted, forced>>
                 ELSE Leave(c)
         ELSE Leave(c) /\ UNCHANGED files
  /\ Calm /\ Quiet /\ UNCHANGED <<plan, bound, child, history, own>>

-----------------------------------------------------------------------------
(* An owner, and the workload it measures.                                   *)
ByOwner == UNCHANGED <<ctl, plan, bound, history, files, authorized, exported, boot, moved>>

Becomes(s, state) == owner' = [owner EXCEPT ![s] = state]
Records(s, what)  == record' = [record EXCEPT ![s] = what]

(* Its handler runs, in any turn of the event loop that it still takes: the  *)
(* exit code will not be 0, even if all is committed. With the record the    *)
(* exit code is settled, and the handlers go.                                *)
OwnerNotices(s) ==
  /\ owner[s] \in {"starting", "measuring"} /\ termed[s] = "sent"
  /\ termed' = [termed EXCEPT ![s] = "seen"]
  /\ disturbed' = disturbed \cup {s}
  /\ Calm /\ ByOwner /\ UNCHANGED <<child, owner, record, load>>

(* It ends before it measures: the plan, the affinity, the host or the child *)
(* is not what was planned, or it is told to stop.                           *)
OwnerRefuses(s) ==
  /\ owner[s] = "starting" /\ (termed[s] = "seen" \/ ~ChildFree(s) \/ child[s].stage # "empty")
  /\ Becomes(s, "gone") /\ Records(s, "failed")
  /\ Calm /\ ByOwner /\ UNCHANGED <<child, termed, load, disturbed>>

OwnerMeasures(s) ==
  /\ owner[s] = "starting" /\ ChildFree(s) /\ child[s].stage = "empty"
  /\ Becomes(s, "measuring") /\ load' = [load EXCEPT ![s] = TRUE]
  /\ Calm /\ ByOwner /\ UNCHANGED <<child, termed, record, disturbed>>

(* Every leg was run and its workload drained: the envelope is committed.    *)
OwnerCommits(s) ==
  /\ owner[s] = "measuring"
  /\ \E usable \in BOOLEAN, hits \in 0..MaxHits :
       child' = [child EXCEPT ![s] = [stage |-> "complete", usable |-> usable, hits |-> hits]]
  /\ load' = [load EXCEPT ![s] = FALSE]
  /\ Becomes(s, "committed") /\ Records(s, "committed")
  /\ Calm /\ ByOwner /\ UNCHANGED <<termed, disturbed>>

(* Cancelled, or a leg or the load turned out invalid.                       *)
OwnerGivesUp(s) ==
  /\ owner[s] = "measuring"
  /\ load' = [load EXCEPT ![s] = FALSE]
  /\ Becomes(s, "gone") /\ Records(s, "failed")
  /\ Calm /\ ByOwner /\ UNCHANGED <<child, termed, disturbed>>

OwnerExits(s) ==
  /\ owner[s] = "committed" /\ Becomes(s, "gone")
  /\ Calm /\ ByOwner /\ UNCHANGED <<child, termed, record, load, disturbed>>

(* By the operator or the kernel, or by its client: by the signal itself     *)
(* while no handler is installed, or when the grace is over.                 *)
OwnerKilled(s) ==
  /\ Alive(s) /\ (IF termed[s] = "no" THEN Fault ELSE Calm)
  /\ Becomes(s, "gone") /\ Records(s, "none")
  /\ disturbed' = disturbed \cup {s}
  /\ ByOwner /\ UNCHANGED <<child, termed, load>>

(* Its supervisor notices that the owner is gone and drains the workload.    *)
OrphanDrains(s) ==
  /\ owner[s] = "gone" /\ load[s]
  /\ load' = [load EXCEPT ![s] = FALSE]
  /\ Calm /\ ByOwner /\ UNCHANGED <<child, owner, termed, record, disturbed>>

-----------------------------------------------------------------------------
(* Interference.                                                             *)
Told(c) == pc[c] = "wait" /\ Alive(at[c]) /\ termed[at[c]] = "no"
Tell(c) == termed' = IF Told(c) THEN [termed EXCEPT ![at[c]] = "sent"] ELSE termed

Abort(c) ==
  /\ c \in Coordinating /\ ~aborted[c] /\ Fault
  /\ aborted' = [aborted EXCEPT ![c] = TRUE] /\ Tell(c)
  /\ Quiet /\ UNCHANGED <<stored, pc, at, draft, forced, owner, record, load>>

Deadline(c) ==
  /\ pc[c] = "wait" /\ ~forced[c] /\ Fault
  /\ forced' = [forced EXCEPT ![c] = TRUE] /\ Tell(c)
  /\ disturbed' = disturbed \cup {at[c]}
  /\ UNCHANGED <<stored, pc, at, draft, aborted, owner, record, load, authorized, exported, boot, moved>>

Crash(c) ==
  /\ pc[c] # "idle" /\ Fault /\ Leave(c)
  /\ disturbed' = IF c \in Coordinating /\ IsOpen THEN disturbed \cup {Last(history).s} ELSE disturbed
  /\ UNCHANGED <<stored, own, authorized, exported, boot, moved>>

Reboot ==
  /\ boot = 0 /\ plan /\ Fault /\ boot' = 1 /\ moved' \in BOOLEAN
  /\ pc' = [c \in Procs |-> "idle"] /\ at' = [c \in Procs |-> 1]
  /\ draft' = [c \in Procs |-> NoReport]
  /\ aborted' = [c \in Procs |-> FALSE] /\ forced' = [c \in Procs |-> FALSE]
  /\ owner' = [s \in Sessions |-> IF Alive(s) THEN "gone" ELSE owner[s]]
  /\ load' = [s \in Sessions |-> FALSE]
  /\ disturbed' = IF IsOpen THEN disturbed \cup {Last(history).s} ELSE disturbed
  /\ UNCHANGED <<stored, termed, record, authorized, exported>>

(* The directories are those of the stored binding, by device and inode.     *)
Identified == bound /\ ~moved

(* executeReferenceConfirmation: the report is derived again, under the      *)
(* coordination lease and on the plan's boot, and must name a candidate.     *)
Authorize(c) ==
  /\ pc[c] = "idle" /\ Identified /\ CoordinatorFree /\ boot = 0
  /\ Readable /\ Verifies /\ Report.candidate # 0
  /\ authorized' = Report.candidate
  /\ Calm /\ UNCHANGED <<stored, ctl, own, exported, boot, moved, disturbed>>

ChildrenLeased == \A s \in Sessions : child[s].stage # "absent" => ChildFree(s)

(* inspectDiscoveryCollection: nothing of a bundle is missing, and the       *)
(* report is there whole or not at all.                                      *)
Inspected ==
  /\ \A s \in Sessions : child[s].stage # "absent"
  /\ (\A f \in DOMAIN files : files[f] = NoReport) \/ (\A f \in DOMAIN files : files[f] # NoReport)

(* prepare-results, on any boot: an archive of what is there, which has the  *)
(* report's status if one can be derived and the screen is complete.         *)
Export(c) ==
  /\ pc[c] = "idle" /\ Identified /\ CoordinatorFree /\ ChildrenLeased /\ Inspected
  /\ Readable /\ Verifies /\ Complete
  /\ exported' = Report.status
  /\ Calm /\ UNCHANGED <<stored, ctl, own, authorized, boot, moved, disturbed>>

-----------------------------------------------------------------------------
Controller(c) ==
  \/ Ensure(c) \/ Enter(c) \/ Refused(c) \/ Check(c) \/ InitChild(c) \/ Reconcile(c)
  \/ Skip(c) \/ PublishStart(c) \/ EndLoop(c) \/ Spawn(c) \/ Close(c) \/ After(c)
  \/ Derive(c) \/ PutFile(c)

Owner(s) ==
  \/ OwnerNotices(s) \/ OwnerRefuses(s) \/ OwnerMeasures(s) \/ OwnerCommits(s) \/ OwnerGivesUp(s)
  \/ OwnerExits(s) \/ OrphanDrains(s)

Next ==
  \/ \E c \in Procs : \/ Start(c) \/ Resume(c) \/ Controller(c) \/ Authorize(c) \/ Export(c)
                      \/ Abort(c) \/ Deadline(c) \/ Crash(c)
  \/ \E s \in Sessions : Owner(s) \/ OwnerKilled(s)
  \/ Reboot

(* Processes run on; the operator starts the screen and resumes it.          *)
Fairness ==
  /\ \A c \in Procs : WF_vars(Controller(c))
  /\ \A s \in Sessions : WF_vars(Owner(s))
  /\ WF_vars(\E c \in Procs : Start(c) \/ Resume(c))

Spec == Init /\ [][Next]_vars /\ Fairness

-----------------------------------------------------------------------------
(* One answer: whatever part of the report is on disk, whenever it was put   *)
(* there, it is the report of what the collection holds now; a confirmation  *)
(* was authorized for its candidate and a complete screen archived with its  *)
(* status. No owner outlives a controller to change a child behind them.     *)
PublishedIsFinal ==
  /\ \A f \in DOMAIN files : files[f] \in {NoReport, Report}
  /\ authorized \in {0, Report.candidate} /\ exported \in {"none", Report.status}

(* Two sessions are never measured at the same time, although a controller   *)
(* or an owner may die and leave a workload behind while others resume.      *)
OneAtATime == \A s, t \in Sessions : load[s] /\ load[t] => s = t

(* A candidate comes from a screen in which nothing was interfered with: no  *)
(* owner killed, late, or cancelled in a turn of its event loop, whatever it *)
(* had committed by then, and no controller lost, while its session was      *)
(* open.  A SIGTERM after the owner's last turn finds the measurement over   *)
(* and the child committed, is seen by nobody, and the session counts.       *)
CandidateIsUndisturbed ==
  (authorized # 0 \/ \E f \in DOMAIN files : files[f].candidate # 0) => disturbed = {}

(* After a reboot, with nobody at work, the collection can still be          *)
(* inspected and preserved.                                                  *)
Preservable == boot = 1 /\ bound /\ CoordinatorFree => Identified

(* While the machine stays up, resuming ends the screen: every session has   *)
(* an end and the report is published whole, however it was interrupted.     *)
Finishes == <>(boot = 1 \/ \A f \in DOMAIN files : files[f] = Report)
=============================================================================
