-------------------------- MODULE ProtocolExecutor --------------------------
(* One unit of a schema-2 pinned protocol at a time: the shell that owns the *)
(* bundle, the executor it starts as the leader of a supervised process      *)
(* group, the launch worker and the gated workload of each lane, and the     *)
(* watchdog that outlives the shell.                                         *)
EXTENDS Naturals, FiniteSets

CONSTANTS
  Lanes,       \* the rows of a unit: one when isolated, a wave when concurrent
  MaxUnits,    \* the units of the plan
  MaxFaults,   \* bound: crashes of shells and executors, and signals
  None

VARIABLES
  kind,        \* which protocol the phase runs
  passed,      \* whether workers and workloads inherit the lease and the lock
  owner,       \* the shell: "idle" when no session holds the bundle
  fresh,       \* no unit was started by this session yet
  seen,        \* the units the shell believes committed
  committed,   \* the units that are durable
  leader, rc,  \* the executor and its exit status
  guard,       \* the watchdog
  orphan,      \* the shell that started the group is gone
  lane,        \* the lanes of the current group
  stray,       \* a member of an earlier group was alive when this one started
  tainted,     \* history: a unit was committed with a lane that did not run as planned
  faults

vars == <<kind, passed, owner, fresh, seen, committed, leader, rc, guard, orphan, lane,
          stray, tainted, faults>>

Blank == [worker |-> "none", load |-> "none", ended |-> None, told |-> FALSE,
          asked |-> FALSE, res |-> None, ans |-> None]
Active == IF kind = "isolated" THEN {CHOOSE l \in Lanes : TRUE} ELSE Lanes

LeaderLive  == leader \in {"wrapper", "exec", "lanes", "committed"}
Working(l)  == lane[l].worker \in {"early", "gate", "run", "report"}
Loaded(l)   == lane[l].load \in {"gate", "run"}
Descendants == \E l \in Lanes : Working(l) \/ Loaded(l)
GroupEmpty  == ~LeaderLive /\ ~Descendants
LeaseOpen   == LeaderLive \/ (passed /\ Descendants)
LockFree    == owner = "idle" /\ ~LeaderLive /\ ~(passed /\ Descendants)

Init ==
  /\ kind \in {"isolated", "concurrent"} /\ passed \in BOOLEAN
  /\ owner = "idle" /\ fresh = TRUE /\ seen = 0 /\ committed = 0
  /\ leader = "none" /\ rc = None /\ guard = "none" /\ orphan = FALSE
  /\ lane = [l \in Lanes |-> Blank]
  /\ stray = "none" /\ tainted = FALSE /\ faults = 0

-----------------------------------------------------------------------------
(* The shell's loop over units.                                              *)

OpenSession ==
  /\ LockFree
  /\ owner' = "between" /\ fresh' = TRUE /\ seen' = committed
  /\ UNCHANGED <<kind, passed, committed, leader, rc, guard, orphan, lane, stray, tainted, faults>>

(* diag_supervised_group_start: a wrapper in a session of its own.           *)
StartUnit ==
  /\ owner = "between" /\ seen < MaxUnits
  /\ owner' = "wait" /\ fresh' = FALSE
  /\ stray' = IF GroupEmpty THEN "none" ELSE IF fresh THEN "earlier" ELSE "session"
  /\ leader' = "wrapper" /\ rc' = None /\ guard' = "none" /\ orphan' = FALSE
  /\ lane' = [l \in Lanes |-> Blank]
  /\ UNCHANGED <<kind, passed, seen, committed, tainted, faults>>

PhaseEnds ==
  /\ owner = "between" /\ seen = MaxUnits
  /\ owner' = "idle" /\ orphan' = TRUE
  /\ UNCHANGED <<kind, passed, fresh, seen, committed, leader, rc, guard, lane, stray, tainted, faults>>

(* diag_supervised_group_wait                                                *)
WaitReturns ==
  /\ owner = "wait" /\ leader = "dead"
  /\ owner' = "drain"
  /\ UNCHANGED <<kind, passed, fresh, seen, committed, leader, rc, guard, orphan, lane, stray, tainted, faults>>

(* Mutant: a crashed executor is retried as if it had committed nothing.     *)
SeenUnread == IF rc = "ok" THEN seen + 1 ELSE seen

(* What the shell counts next: the unit that was reported, or the durable    *)
(* frontier when the executor crashed.                                       *)
SeenNext == IF rc = "ok" THEN seen + 1 ELSE committed

Retried == rc = "crash" /\ kind = "isolated"

(* Mutant: the group is taken to end with its leader.                        *)
DrainedByLeader ==
  /\ owner = "drain" /\ ~LeaderLive
  /\ IF rc = "ok" \/ Retried THEN owner' = "between" /\ seen' = SeenNext
                             ELSE owner' = "exit" /\ seen' = seen
  /\ UNCHANGED <<kind, passed, fresh, committed, leader, rc, guard, orphan, lane, stray, tainted, faults>>

(* diag_supervised_group_drain found the group empty: the status counts.     *)
Drained ==
  /\ owner = "drain" /\ GroupEmpty
  /\ IF rc = "ok" \/ Retried THEN owner' = "between" /\ seen' = SeenNext
                             ELSE owner' = "exit" /\ seen' = seen
  /\ UNCHANGED <<kind, passed, fresh, committed, leader, rc, guard, orphan, lane, stray, tainted, faults>>

(* It did not: the status is replaced by an operational error.               *)
DrainTimesOut ==
  /\ owner = "drain" /\ ~GroupEmpty
  /\ owner' = "exit"
  /\ UNCHANGED <<kind, passed, fresh, seen, committed, leader, rc, guard, orphan, lane, stray, tainted, faults>>

(* diagnose_cleanup_exit: whatever could not be confirmed stopped, the shell *)
(* exits and its descriptor of the lock closes.                              *)
ShellExits ==
  /\ owner \in {"exit", "stopped"}
  /\ owner' = "idle" /\ orphan' = TRUE
  /\ UNCHANGED <<kind, passed, fresh, seen, committed, leader, rc, guard, lane, stray, tainted, faults>>

-----------------------------------------------------------------------------
(* Signals.                                                                  *)

(* A launch worker that gets SIGTERM dies before its handlers are installed; *)
(* later it stops its workload, at once while that is still at the gate.     *)
Terminated(r) ==
  CASE r.worker = "early" -> [r EXCEPT !.worker = "gone", !.told = TRUE]
    [] r.worker = "gate"  -> [r EXCEPT !.told = TRUE, !.load = "gone"]
    [] r.worker = "run"   -> [r EXCEPT !.told = TRUE]
    [] OTHER              -> r

(* A second SIGTERM meets no handler.                                        *)
TerminatedTwice(r) ==
  IF r.worker \in {"early", "gate", "run"} /\ (r.told \/ r.worker = "early")
  THEN [r EXCEPT !.worker = "gone"] ELSE Terminated(r)

Abort(f) == [l \in Lanes |-> IF l \in Active /\ f[l].ans = None
                             THEN [TerminatedTwice(f[l]) EXCEPT !.asked = TRUE] ELSE f[l]]

(* SIGTERM to the group: an executor that runs lanes aborts them, and its    *)
(* own SIGTERM follows the group's or, in the lanes M, merges with it.       *)
TermGroup ==
  /\ leader' = IF leader \in {"wrapper", "exec"} THEN "dead" ELSE leader
  /\ rc' = IF leader \in {"wrapper", "exec"} THEN "killed" ELSE rc
  /\ LET once == [l \in Lanes |-> Terminated(lane[l])]
     IN IF leader # "lanes" THEN lane' = once
        ELSE \E M \in SUBSET Lanes :
               lane' = Abort([l \in Lanes |-> IF l \in M THEN lane[l] ELSE once[l]])

KillGroup ==
  /\ leader' = IF LeaderLive THEN "dead" ELSE leader
  /\ rc' = IF LeaderLive THEN "killed" ELSE rc
  /\ lane' = [l \in Lanes |->
       [lane[l] EXCEPT !.worker = IF Working(l) THEN "gone" ELSE @,
                       !.load = IF Loaded(l) THEN "gone" ELSE @]]

-----------------------------------------------------------------------------
(* The wrapper and its watchdog.                                             *)

(* supervision_watch up to READY.                                            *)
GuardArms ==
  /\ leader = "wrapper" /\ guard = "none"
  /\ IF orphan THEN guard' = "gone" /\ leader' = "dead" /\ rc' = "killed"
     ELSE guard' = "watch" /\ UNCHANGED <<leader, rc>>
  /\ UNCHANGED <<kind, passed, owner, fresh, seen, committed, orphan, lane, stray, tainted, faults>>

(* The parent may have died before READY came back.                          *)
Exec ==
  /\ leader = "wrapper" /\ guard = "watch"
  /\ IF orphan THEN leader' = "dead" /\ rc' = "killed" ELSE leader' = "exec" /\ rc' = rc
  /\ UNCHANGED <<kind, passed, owner, fresh, seen, committed, guard, orphan, lane, stray, tainted, faults>>

(* Mutant: nothing is left to do once the leader is gone.                    *)
GuardLeaderOnly ==
  /\ guard = "watch" /\ (orphan \/ leader = "dead")
  /\ IF leader = "dead" THEN guard' = "gone" /\ UNCHANGED <<leader, rc, lane>>
     ELSE guard' = "term" /\ TermGroup
  /\ UNCHANGED <<kind, passed, owner, fresh, seen, committed, orphan, stray, tainted, faults>>

(* The shell or the leader is gone. Without a leader only an open lease says *)
(* that members are left.                                                    *)
GuardSees ==
  /\ guard = "watch" /\ (orphan \/ leader = "dead")
  /\ IF leader = "dead" /\ ~LeaseOpen THEN guard' = "gone" /\ UNCHANGED <<leader, rc, lane>>
     ELSE guard' = "term" /\ TermGroup
  /\ UNCHANGED <<kind, passed, owner, fresh, seen, committed, orphan, stray, tainted, faults>>

GuardEnds ==
  /\ guard = "term"
  /\ guard' = "gone"
  /\ IF leader = "dead" /\ ~LeaseOpen THEN UNCHANGED <<leader, rc, lane>> ELSE KillGroup
  /\ UNCHANGED <<kind, passed, owner, fresh, seen, committed, orphan, stray, tainted, faults>>

-----------------------------------------------------------------------------
(* The executor: runIsolatedAttempt, runConcurrentWave and runPinnedChild.   *)

Launch ==
  /\ leader = "exec"
  /\ leader' = "lanes"
  /\ lane' = [l \in Lanes |-> IF l \in Active THEN [lane[l] EXCEPT !.worker = "early"] ELSE lane[l]]
  /\ UNCHANGED <<kind, passed, owner, fresh, seen, committed, rc, guard, orphan, stray, tainted, faults>>

(* Mutant: a workload that was cancelled counts when it was launched.        *)
ValidLaunched(r) == r.res # None /\ r.res.launched

(* classifyIndividualChildOutcomeV2                                          *)
Valid(r) == r.res # None /\ r.res.launched /\ ~r.res.canceled /\ ~r.asked

(* A worker's streams closed. One invalid lane cancels its peers.            *)
Close(l) ==
  /\ leader = "lanes" /\ l \in Active
  /\ lane[l].worker = "gone" /\ lane[l].ans = None
  /\ LET f == [lane EXCEPT ![l].ans = IF Valid(lane[l]) THEN "valid" ELSE "invalid"]
     IN lane' = IF Valid(lane[l]) THEN f ELSE Abort(f)
  /\ UNCHANGED <<kind, passed, owner, fresh, seen, committed, leader, rc, guard, orphan, stray, tainted, faults>>

(* The grace of a cancelled worker is over; its workload is not a child of   *)
(* the executor.                                                             *)
RunnerKill(l) ==
  /\ leader = "lanes" /\ lane[l].asked /\ Working(l)
  /\ lane' = [lane EXCEPT ![l].worker = "gone"]
  /\ UNCHANGED <<kind, passed, owner, fresh, seen, committed, leader, rc, guard, orphan, stray, tainted, faults>>

Answered == leader = "lanes" /\ \A l \in Active : lane[l].ans # None

Commit ==
  /\ Answered /\ \A l \in Active : lane[l].ans = "valid"
  /\ committed' = committed + 1 /\ leader' = "committed"
  /\ tainted' = (tainted \/ \E l \in Active : lane[l].ended # "own")
  /\ UNCHANGED <<kind, passed, owner, fresh, seen, rc, guard, orphan, lane, stray, faults>>

ExecutorExits ==
  /\ \/ leader = "committed" /\ rc' = "ok"
     \/ Answered /\ (\E l \in Active : lane[l].ans = "invalid") /\ rc' = "invalid"
  /\ leader' = "dead"
  /\ UNCHANGED <<kind, passed, owner, fresh, seen, committed, guard, orphan, lane, stray, tainted, faults>>

-----------------------------------------------------------------------------
(* A launch worker and its workload.                                         *)

Set(l, r) ==
  /\ lane' = [lane EXCEPT ![l] = r]
  /\ UNCHANGED <<kind, passed, owner, fresh, seen, committed, leader, rc, guard, orphan, stray, tainted, faults>>

Outcome(r) == [launched |-> r.worker = "run", canceled |-> r.told]

(* The worker itself is not on its CPU, or cannot spawn.                     *)
WorkerRefuses(l) ==
  /\ lane[l].worker = "early" /\ lane[l].load = "none"
  /\ Set(l, [lane[l] EXCEPT !.worker = "gone", !.res = Outcome(lane[l])])

(* An isolated workload inherits its worker's CPU and runs at once; one of a *)
(* wave starts as a shell on the CPU that stops itself before it execs.      *)
WorkerSpawns(l) ==
  /\ lane[l].worker = "early" /\ lane[l].load = "none"
  /\ Set(l, [lane[l] EXCEPT !.load = IF kind = "isolated" THEN "run" ELSE "gate"])

(* The handlers of SIGTERM and SIGINT are installed behind the spawn.        *)
WorkerReady(l) ==
  /\ lane[l].worker = "early" /\ lane[l].load # "none"
  /\ Set(l, [lane[l] EXCEPT !.worker = IF kind = "isolated" THEN "run" ELSE "gate"])

(* verifyStoppedChildAffinity: the stopped process has the CPU, and goes on. *)
GateOpens(l) ==
  /\ lane[l].worker = "gate" /\ lane[l].load = "gate"
  /\ Set(l, [lane[l] EXCEPT !.worker = "run", !.load = "run"])

GateFails(l) ==
  /\ lane[l].worker = "gate"
  /\ Set(l, [lane[l] EXCEPT !.worker = "report", !.load = "gone"])

LoadEnds(l) ==
  /\ lane[l].load = "run"
  /\ Set(l, [lane[l] EXCEPT !.load = "gone", !.ended = "own"])

(* A workload may heed the SIGTERM it got from its worker or the group; it   *)
(* is killed when the worker's grace is over.                                *)
LoadStops(l) ==
  /\ lane[l].load = "run" /\ lane[l].told
  /\ Set(l, [lane[l] EXCEPT !.load = "gone", !.ended = "stopped"])

Report(l) ==
  /\ \/ lane[l].worker = "report"
     \/ lane[l].worker = "run" /\ lane[l].load = "gone"
  /\ Set(l, [lane[l] EXCEPT !.worker = "gone", !.res = Outcome(lane[l])])

-----------------------------------------------------------------------------
(* What goes wrong.                                                          *)

Fault == faults < MaxFaults /\ faults' = faults + 1

(* on_interrupt, diag_supervised_group_stop: SIGTERM while the leader lives. *)
Interrupt ==
  /\ Fault /\ owner \in {"between", "wait", "drain"}
  /\ owner' = "stop"
  /\ IF LeaderLive THEN TermGroup ELSE UNCHANGED <<leader, rc, lane>>
  /\ UNCHANGED <<kind, passed, fresh, seen, committed, guard, orphan, stray, tainted>>

StopEscalates ==
  /\ owner = "stop" /\ LeaderLive /\ KillGroup
  /\ UNCHANGED <<kind, passed, owner, fresh, seen, committed, guard, orphan, stray, tainted, faults>>

Stopped ==
  /\ owner = "stop" /\ ~LeaderLive
  /\ owner' = "stopped"
  /\ UNCHANGED <<kind, passed, fresh, seen, committed, leader, rc, guard, orphan, lane, stray, tainted, faults>>

ShellCrashes ==
  /\ Fault /\ owner # "idle"
  /\ owner' = "idle" /\ orphan' = TRUE
  /\ UNCHANGED <<kind, passed, fresh, seen, committed, leader, rc, guard, lane, stray, tainted>>

ExecutorCrashes ==
  /\ Fault /\ leader \in {"exec", "lanes", "committed"}
  /\ leader' = "dead" /\ rc' = "crash"
  /\ UNCHANGED <<kind, passed, owner, fresh, seen, committed, guard, orphan, lane, stray, tainted>>

Guard == GuardArms \/ Exec \/ GuardSees \/ GuardEnds

Next ==
  \/ OpenSession \/ StartUnit \/ PhaseEnds \/ WaitReturns \/ Drained \/ DrainTimesOut \/ ShellExits
  \/ Guard \/ Launch \/ Commit \/ ExecutorExits
  \/ \E l \in Lanes : \/ Close(l) \/ RunnerKill(l) \/ WorkerRefuses(l) \/ WorkerSpawns(l)
                      \/ WorkerReady(l) \/ GateOpens(l) \/ GateFails(l)
                      \/ LoadEnds(l) \/ LoadStops(l) \/ Report(l)
  \/ Interrupt \/ StopEscalates \/ Stopped \/ ShellCrashes \/ ExecutorCrashes

(* The watchdog is a process of its own and nothing here stops it.           *)
Spec == Init /\ [][Next]_vars /\ WF_vars(Guard)

-----------------------------------------------------------------------------
(* Properties.                                                               *)

TypeOK ==
  /\ kind \in {"isolated", "concurrent"} /\ passed \in BOOLEAN
  /\ owner \in {"idle", "between", "wait", "drain", "exit", "stop", "stopped"}
  /\ seen \in 0..MaxUnits /\ committed \in 0..MaxUnits /\ faults \in 0..MaxFaults
  /\ leader \in {"none", "wrapper", "exec", "lanes", "committed", "dead"}
  /\ guard \in {"none", "watch", "term", "gone"} /\ orphan \in BOOLEAN
  /\ stray \in {"none", "earlier", "session"} /\ tainted \in BOOLEAN

(* A unit never starts beside a member of the group before it: not within a  *)
(* session, whatever crashed, and not across sessions either as long as the  *)
(* members hold the lock.                                                    *)
NoLeftovers == stray # "session" /\ (passed => stray = "none")

(* A durable observation is one of a workload that passed the gate and ended *)
(* by itself, not of one that a failing peer, a signal or a timer took down. *)
CommittedRanAlone == ~tainted

(* Between two units the shell's count is the durable frontier, also after   *)
(* an executor that crashed behind its commit.                               *)
FrontierAgrees == owner = "between" => seen = committed

(* When the shell is gone the watchdog takes down the whole group, also      *)
(* behind a leader that died first, and the lock comes free.                 *)
GroupIsTakenDown == (orphan /\ passed /\ owner = "idle") ~> LockFree
=============================================================================
