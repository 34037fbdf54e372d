---------------------------- MODULE SchemaBundle ----------------------------
(***************************************************************************)
(* Resumable schema-3 bundles (diagnose-lib/schema3-bundle.mjs) as the     *)
(* public CLI drives them (src/fault-affinity/cli.mjs).                    *)
(*                                                                         *)
(* An owner is one CLI process.  It runs the phases of its job in order.   *)
(* Each phase is opened with a read under the bundle lease, then advanced  *)
(* one unit at a time; every unit takes the lease again, re-reads the      *)
(* whole bundle, arms the breadcrumb, runs the unit under a process-group  *)
(* supervisor, publishes the envelope, clears the breadcrumb, re-reads and *)
(* gives the lease back.  Owners may crash between any two of these steps. *)
(*                                                                         *)
(* The lease is flock(2) on an open directory description.  A supervisor   *)
(* that was handed that description (fd 4) keeps it locked until it exits, *)
(* so the lease is held as long as some process has it open: LeaseHolders  *)
(* is derived from who that is.  Records are committed by a no-clobber     *)
(* link, one step here; StateFiles.tla has the steps inside a commit.  The *)
(* two kinds of root file whose temporaries the recovery does not know,    *)
(* the breadcrumb and the report artifacts, have their temporary modelled. *)
(***************************************************************************)
EXTENDS Integers, Sequences, FiniteSets

CONSTANTS Owners,      \* CLI processes; each runs once
          Phases,      \* the phases this manifest version schedules
          Jobs,        \* the phase sequences a command may run
          Campaign,    \* the job that ends with report publication
          Total,       \* number of scheduled units of each phase
          Retaining    \* phases whose runner passes the lease descriptor on

ASSUME PhasesAssumption   == Retaining \subseteq Phases
ASSUME TotalAssumption    == Total \in [Phases -> Nat]
ASSUME JobsAssumption     == Jobs \subseteq Seq(Phases)

VARIABLES pc,         \* where each owner is
          job,        \* the job of each owner
          at,         \* index of the phase it is running
          view,       \* next unit of that phase when it last read, 0: complete
          good,       \* the attempt's evidence is valid and will be committed
          attempt,    \* the unit each owner's supervisor is running
          committed,  \* ordinals of the envelopes in each phase store
          armed,      \* the unit attempt-armed.json names
          litter,     \* a dead writer's unknown temporary is in the root
          published   \* how many report artifacts are in the root

vars == <<pc, job, at, view, good, attempt, committed, armed, litter, published>>
owner == <<job, at, view, good>>
disk == <<committed, armed, litter, published>>

None == [phase |-> "none", unit |-> 0]
Unit == [phase : Phases, unit : Nat \ {0}]

\* The exit states of a CLI process, and the states in which it has the
\* locked directory descriptor open.
Stopped  == {"stopped", "crashed"}
Critical == {"opening", "locked", "arm", "arming", "armed", "running", "ran",
             "recorded", "cleared"}
Outside  == {"new", "open", "loop", "publish", "publishing"}

ReportFiles == 3       \* report.json, report.md, report.complete.json

-----------------------------------------------------------------------------
(* What is read back from the stores. *)

Contiguous(p) == \E n \in 0..Total[p] : committed[p] = 1..n
Frontier(p) == CHOOSE n \in 0..Total[p] : committed[p] = 1..n

\* Mutant: the last scheduled unit is forgotten.
DueShort(p) == IF Frontier(p) + 1 < Total[p] THEN Frontier(p) + 1 ELSE 0

\* The next scheduled unit of a phase, 0 once it is complete.
Due(p) == IF Frontier(p) < Total[p] THEN Frontier(p) + 1 ELSE 0

Interrupted == armed # None /\ armed.unit = Due(armed.phase)
Reconciled  == armed # None /\ armed.unit = Frontier(armed.phase)

\* The root inventory also names the temporaries of live writers.
RootTemporary == litter \/ \E o \in Owners : pc[o] \in {"arming", "publishing"}

\* A reader accepts the bundle: it knows every root entry, every store is a
\* contiguous prefix, and a breadcrumb is the current or the last unit.
Readable == /\ ~RootTemporary
            /\ \A p \in Phases : Contiguous(p)
            /\ armed = None \/ Interrupted \/ Reconciled

-----------------------------------------------------------------------------
(* The lease. *)

\* Mutant: the supervisor is not given the descriptor.
RetainedByOwner(o) == attempt[o] # None /\ pc[o] \in Critical

Retained(o) == attempt[o] # None /\ attempt[o].phase \in Retaining
LeaseHolders == {o \in Owners : pc[o] \in Critical \/ Retained(o)}
LeaseFree == LeaseHolders = {}

PhaseOf(o) == job[o][at[o]]
JobDone(o) == at[o] > Len(job[o])
Go(o, from, to) == pc[o] = from /\ pc' = [pc EXCEPT ![o] = to]

\* An owner that takes the lease finds it free; a busy lease ends the
\* command (exit 75), since the CLI never asks to wait.
TakeLease(o, from, to) == LeaseFree /\ Go(o, from, to)

Busy(o) == /\ pc[o] \in {"open", "loop"}
           /\ pc[o] = "loop" => view[o] # 0
           /\ ~LeaseFree
           /\ pc' = [pc EXCEPT ![o] = "stopped"]
           /\ UNCHANGED <<owner, attempt, disk>>

-----------------------------------------------------------------------------
(* Opening a phase: readSchema3Bundle. *)

Start(o) == /\ Go(o, "new", "open")
            /\ \E j \in Jobs : job' = [job EXCEPT ![o] = j]
            /\ UNCHANGED <<at, view, good, attempt, disk>>

Open(o) == /\ TakeLease(o, "open", "opening")
           /\ UNCHANGED <<owner, attempt, disk>>

\* The campaign's last read finds every phase complete, or it stops.
AfterOpen(o) == IF ~JobDone(o) THEN "loop"
                ELSE IF \A p \in Phases : Due(p) = 0 THEN "publish"
                ELSE "stopped"

ReadOpened(o) == /\ Readable
                 /\ Go(o, "opening", AfterOpen(o))
                 /\ view' = [view EXCEPT ![o] =
                               IF JobDone(o) THEN 0 ELSE Due(PhaseOf(o))]
                 /\ UNCHANGED <<job, at, good, attempt, disk>>

\* An unreadable bundle fails the command and gives the lease back.
FailClosed(o) == /\ ~Readable
                 /\ pc[o] \in {"opening", "locked"}
                 /\ pc' = [pc EXCEPT ![o] = "stopped"]
                 /\ UNCHANGED <<owner, attempt, disk>>

\* Mutant: the next phase is opened whatever is left of this one.
PhaseAbandoned(o) == /\ Go(o, "loop",
                           IF at[o] < Len(job[o]) \/ job[o] = Campaign
                           THEN "open" ELSE "stopped")
                     /\ at' = [at EXCEPT ![o] = @ + 1]
                     /\ UNCHANGED <<job, view, good, attempt, disk>>

\* The phase loop ends on the owner's own view: the next phase is opened, or
\* a campaign goes on to its report.
PhaseDone(o) == /\ view[o] = 0
                /\ Go(o, "loop",
                      IF at[o] < Len(job[o]) \/ job[o] = Campaign
                      THEN "open" ELSE "stopped")
                /\ at' = [at EXCEPT ![o] = @ + 1]
                /\ UNCHANGED <<job, view, good, attempt, disk>>

-----------------------------------------------------------------------------
(* One unit: runOneSchema3*. *)

Lock(o) == /\ view[o] # 0
           /\ TakeLease(o, "loop", "locked")
           /\ UNCHANGED <<owner, attempt, disk>>

\* Mutant: the unit chosen before the lease was taken is kept.
ReadStale(o) == /\ Readable
                /\ Go(o, "locked", "arm")
                /\ UNCHANGED <<owner, attempt, disk>>

Read(o) == /\ Readable
           /\ Go(o, "locked", "arm")
           /\ view' = [view EXCEPT ![o] = Due(PhaseOf(o))]
           /\ UNCHANGED <<job, at, good, attempt, disk>>

\* A breadcrumb that outlived its commit is removed first, whichever phase
\* it belongs to.
RemoveReconciled(o) == /\ pc[o] = "arm"
                       /\ Reconciled
                       /\ armed' = None
                       /\ UNCHANGED <<pc, owner, attempt, committed, litter, published>>

\* Another owner committed the last unit since this one's loop looked.
NothingDue(o) == /\ ~Reconciled
                 /\ view[o] = 0
                 /\ Go(o, "arm", "cleared")
                 /\ good' = [good EXCEPT ![o] = TRUE]
                 /\ UNCHANGED <<job, at, view, attempt, disk>>

Wanted(o) == [phase |-> PhaseOf(o), unit |-> view[o]]

\* Mutants: nothing checks that a unit is due; another unit's interrupted
\* breadcrumb is replaced.
ArmUnscheduled(o) == /\ armed = None
                     /\ Go(o, "arm", "arming")
                     /\ UNCHANGED <<owner, attempt, disk>>

ArmOverwrites(o) == /\ view[o] # 0
                    /\ Go(o, "arm", "arming")
                    /\ UNCHANGED <<owner, attempt, disk>>

ArmBegin(o) == /\ view[o] # 0
               /\ armed = None
               /\ Go(o, "arm", "arming")
               /\ UNCHANGED <<owner, attempt, disk>>

ArmCommit(o) == /\ Go(o, "arming", "armed")
                /\ armed' = Wanted(o)
                /\ UNCHANGED <<owner, attempt, committed, litter, published>>

\* Mutant: any interrupted breadcrumb passes for this unit's.
ArmAgainAny(o) == /\ Go(o, "arm", "armed")
                  /\ view[o] # 0
                  /\ armed # None
                  /\ UNCHANGED <<owner, attempt, disk>>

\* A retry of the same interrupted unit keeps its first breadcrumb.
ArmAgain(o) == /\ Go(o, "arm", "armed")
               /\ view[o] # 0
               /\ armed = Wanted(o)
               /\ UNCHANGED <<owner, attempt, disk>>

\* An interrupted breadcrumb of another unit: the command throws.
ArmRefused(o) == /\ Go(o, "arm", "stopped")
                 /\ view[o] # 0
                 /\ armed \notin {None, Wanted(o)}
                 /\ ~Reconciled
                 /\ UNCHANGED <<owner, attempt, disk>>

RunUnit(o) == /\ Go(o, "armed", "running")
              /\ attempt' = [attempt EXCEPT ![o] = Wanted(o)]
              /\ UNCHANGED <<owner, disk>>

\* Cancelled before the launch, or the runner throws before it has one: the
\* first is a normal return, the second leaves the breadcrumb in place.
RunCancelled(o) == /\ Go(o, "armed", "ran")
                   /\ good' = [good EXCEPT ![o] = FALSE]
                   /\ UNCHANGED <<job, at, view, attempt, disk>>

RunThrows(o) == /\ Go(o, "armed", "stopped")
                /\ UNCHANGED <<owner, attempt, disk>>

\* The attempt drained; its evidence is valid or operationally invalid.
RunEnds(o) == /\ Go(o, "running", "ran")
              /\ attempt' = [attempt EXCEPT ![o] = None]
              /\ \E valid \in BOOLEAN : good' = [good EXCEPT ![o] = valid]
              /\ UNCHANGED <<job, at, view, disk>>

\* Cleanup ran out of time: the result is invalid, and the supervisor is
\* left to its own emergency cleanup with the descriptor it inherited.
RunUndrained(o) == /\ Go(o, "running", "ran")
                   /\ good' = [good EXCEPT ![o] = FALSE]
                   /\ UNCHANGED <<job, at, view, attempt, disk>>

\* Mutants: the envelope gets the next ordinal's name; an invalid attempt is
\* committed too.
CommitMisnamed(o) == /\ pc[o] = "ran" /\ good[o]
                     /\ pc' = [pc EXCEPT ![o] = "recorded"]
                     /\ committed' = [committed EXCEPT ![PhaseOf(o)] = @ \union {view[o] + 1}]
                     /\ UNCHANGED <<owner, attempt, armed, litter, published>>

CommitInvalid(o) == /\ Go(o, "ran", "recorded")
                    /\ committed' = [committed EXCEPT ![PhaseOf(o)] = @ \union {view[o]}]
                    /\ UNCHANGED <<owner, attempt, armed, litter, published>>

\* commit*: the store is read again and only its next ordinal is accepted.
Commit(o) == LET accepted == view[o] = Due(PhaseOf(o)) IN
             /\ pc[o] = "ran" /\ good[o]
             /\ pc' = [pc EXCEPT ![o] = IF accepted THEN "recorded" ELSE "stopped"]
             /\ committed' = IF accepted
                             THEN [committed EXCEPT ![PhaseOf(o)] = @ \union {view[o]}]
                             ELSE committed
             /\ UNCHANGED <<owner, attempt, armed, litter, published>>

\* The breadcrumb is removed on every normal return.
Clear(o) == /\ \/ Go(o, "ran", "cleared") /\ ~good[o]
               \/ Go(o, "recorded", "cleared")
            /\ armed' = None
            /\ UNCHANGED <<owner, attempt, committed, litter, published>>

\* Mutant: a unit that was not committed is tried again.
RereadRetries(o) == /\ Go(o, "cleared", IF Readable THEN "loop" ELSE "stopped")
                    /\ view' = [view EXCEPT ![o] = Due(PhaseOf(o))]
                    /\ UNCHANGED <<job, at, good, attempt, disk>>

\* The bundle is read once more and the lease is given back; a unit that was
\* not committed ends the command.
Reread(o) == /\ Go(o, "cleared", IF good[o] /\ Readable THEN "loop" ELSE "stopped")
             /\ view' = [view EXCEPT ![o] = Due(PhaseOf(o))]
             /\ UNCHANGED <<job, at, good, attempt, disk>>

-----------------------------------------------------------------------------
(* Publishing the campaign report, outside the lease. *)

PublishBegin(o) == /\ Go(o, "publish", "publishing")
                   /\ UNCHANGED <<owner, attempt, disk>>

\* view counts the artifacts this owner has published or verified.
PublishCommit(o) == /\ view[o] < ReportFiles
                    /\ view' = [view EXCEPT ![o] = @ + 1]
                    /\ published' = IF view'[o] > published THEN view'[o] ELSE published
                    /\ Go(o, "publishing",
                          IF view'[o] = ReportFiles THEN "stopped" ELSE "publish")
                    /\ UNCHANGED <<job, at, good, attempt, committed, armed, litter>>

-----------------------------------------------------------------------------
(* Faults. *)

\* The process dies.  Its supervisor, if any, lives on; a breadcrumb or a
\* report artifact whose commit was under way leaves a temporary behind, and
\* the breadcrumb may or may not have been linked.
Crash(o) == /\ pc[o] \notin Stopped \union {"new"}
            /\ pc' = [pc EXCEPT ![o] = "crashed"]
            /\ litter' = (litter \/ pc[o] \in {"arming", "publishing"})
            /\ armed' \in IF pc[o] = "arming" THEN {armed, Wanted(o)} ELSE {armed}
            /\ UNCHANGED <<owner, attempt, committed, published>>

\* Mutant: the supervisor does not notice that its owner died.
SupervisorStays(o) == /\ attempt[o] # None
                      /\ pc[o] \notin {"running", "crashed"}
                      /\ attempt' = [attempt EXCEPT ![o] = None]
                      /\ UNCHANGED <<pc, owner, disk>>

\* A supervisor whose owner went away terminates its group and exits.
SupervisorExits(o) == /\ attempt[o] # None
                      /\ pc[o] # "running"
                      /\ attempt' = [attempt EXCEPT ![o] = None]
                      /\ UNCHANGED <<pc, owner, disk>>

-----------------------------------------------------------------------------
Init == /\ pc = [o \in Owners |-> "new"]
        /\ job = [o \in Owners |-> << >>]
        /\ at = [o \in Owners |-> 1]
        /\ view = [o \in Owners |-> 0]
        /\ good = [o \in Owners |-> FALSE]
        /\ attempt = [o \in Owners |-> None]
        /\ committed = [p \in Phases |-> {}]
        /\ armed = None
        /\ litter = FALSE
        /\ published = 0

Step(o) == \/ Busy(o) \/ Open(o) \/ ReadOpened(o) \/ FailClosed(o) \/ PhaseDone(o)
           \/ Lock(o) \/ Read(o) \/ RemoveReconciled(o) \/ NothingDue(o)
           \/ ArmBegin(o) \/ ArmCommit(o) \/ ArmAgain(o) \/ ArmRefused(o)
           \/ RunUnit(o) \/ RunCancelled(o) \/ RunThrows(o)
           \/ RunEnds(o) \/ RunUndrained(o) \/ Commit(o) \/ Clear(o) \/ Reread(o)
           \/ PublishBegin(o) \/ PublishCommit(o)

Next == \E o \in Owners : Start(o) \/ Step(o) \/ Crash(o) \/ SupervisorExits(o)

Spec == Init /\ [][Next]_vars

\* A live process keeps executing (every wait inside an attempt has a
\* deadline) and a supervisor's emergency timers fire.
FairSpec == /\ Spec
            /\ \A o \in Owners : WF_vars(Step(o)) /\ WF_vars(SupervisorExits(o))

-----------------------------------------------------------------------------
(* Properties. *)

\* Every variable keeps its type; the breadcrumb and the attempts name
\* scheduled units.
TypeOK == /\ pc \in [Owners -> Stopped \union Critical \union Outside]
          /\ job \in [Owners -> Jobs \union {<< >>}]
          /\ at \in [Owners -> Nat \ {0}]
          /\ view \in [Owners -> Nat]
          /\ good \in [Owners -> BOOLEAN]
          /\ attempt \in [Owners -> Unit \union {None}]
          /\ committed \in [Phases -> SUBSET (Nat \ {0})]
          /\ armed \in Unit \union {None}
          /\ litter \in BOOLEAN
          /\ published \in 0..ReportFiles

\* At most one process group works on a bundle: two owners never have the
\* lease's descriptor open at once (bundle-execution-lease.mjs acquireLease).
LeaseExclusive == \A o1, o2 \in LeaseHolders : o1 = o2

\* Whatever was crashed, retried, or run by several owners with stale views,
\* each store holds exactly the units 1..n of its schedule: what
\* exact-cpu-phase-store.mjs parseStoreNames insists on when it reads back.
ContiguousPrefix == \A p \in Phases : Contiguous(p)

\* A breadcrumb found at any point of any owner's life, crashes included, is
\* the current unit of its phase or the last committed one: the reader's
\* third case (parseAttemptArmedRecord, "fails closed") is never reached.
BreadcrumbClassifiable == armed = None \/ Interrupted \/ Reconciled

\* A unit that is executing under the lease is the one the breadcrumb names,
\* and it is not committed yet: after a reset the breadcrumb is right.
BreadcrumbNamesAttempt ==
  \A o \in Owners : pc[o] = "running" =>
    attempt[o] = armed /\ attempt[o].unit \notin committed[attempt[o].phase]

\* "A replacement owner therefore cannot overlap a still-active attempt"
\* (docs/decisions/0010): no two supervised attempts are ever live together.
NoOverlap == \A o1, o2 \in Owners :
  attempt[o1] # None /\ attempt[o2] # None => o1 = o2

\* Every scheduled unit of a phase has its envelope.
Complete(p) == committed[p] = 1..Total[p]

\* A report artifact exists only for a bundle whose every phase is complete
\* (runCampaignBundle checks report.complete on a view it read earlier).
ReportOnlyWhenComplete == published > 0 => \A p \in Phases : Complete(p)

\* A campaign starts no unit of a phase before the phases ahead of it are
\* complete, whichever of several concurrent campaigns completed them.
CampaignOrder ==
  \A o \in Owners : pc[o] = "running" /\ job[o] = Campaign =>
    \A i \in 1..(at[o] - 1) : Complete(Campaign[i])

\* A store only grows, by one unit at a time, the unit whose attempt has just
\* drained under the committing owner's lease.
CommitsWhatItRan ==
  [][\A p \in Phases : committed'[p] # committed[p] =>
       \E o \in LeaseHolders :
         /\ pc[o] = "ran" /\ good[o]
         /\ armed = [phase |-> p, unit |-> Frontier(p) + 1]
         /\ committed'[p] = committed[p] \union {armed.unit}]_vars

\* Every command ends: no owner loops for ever on a view another owner has
\* made stale, and none waits for a lease.
OwnersStop == \A o \in Owners : pc[o] # "new" ~> pc[o] \in Stopped

\* The lease of an owner that died in the middle of an attempt comes free
\* once its supervisor has cleaned up.
LeaseComesFree == \A o \in Owners : pc[o] = "crashed" ~> o \notin LeaseHolders

\* README "Resume an interrupted campaign", docs/decisions/0036 "a bundle
\* left by a hard reset can identify the exact unit the owner had entered":
\* when no process works on a bundle, a reader accepts it.
ResumableWhenQuiet ==
  (\A o \in Owners : pc[o] \in Stopped \union {"new"}) => Readable

\* docs/decisions/0010 "Every operation that may reconcile or publish state
\* holds an exclusive lease": the holder of the lease never meets another
\* live process's unfinished commit in the root.
PublishesUnderLease ==
  \A o1, o2 \in Owners :
    pc[o1] \in {"opening", "locked"} /\ o2 # o1 => pc[o2] \notin {"arming", "publishing"}

\* The promise this implements: units are entered and completed one by one.
Ledger == INSTANCE BundleLedger WITH
  ledger <- committed,
  entered <- IF armed # None /\ armed.unit \notin committed[armed.phase]
             THEN armed ELSE None
LedgerSpec == Ledger!Spec
=============================================================================
