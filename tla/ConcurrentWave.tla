--------------------------- MODULE ConcurrentWave ---------------------------
(***************************************************************************)
(* One wave of concurrent attempts: runNextBaselinePhaseWave,              *)
(* runNextGroupPhaseWave and runNextPinnedConcurrentPhaseWave, which share *)
(* their control.  The owner starts every lane, the first lane that fails  *)
(* cancels its peers through one AbortController, and nothing is published *)
(* unless every lane is valid.                                             *)
(*                                                                         *)
(* A lane is a supervised attempt; AttemptLifecycle has one in detail.     *)
(* Here it is what matters to its peers and to the next wave: the cause of *)
(* its end, its cleanup by the runner and, once the channel to the runner  *)
(* is broken, by its supervisor, and the lease, which every supervisor     *)
(* holds through the descriptor it was handed.  A supervisor may be killed *)
(* from outside; a killed process dies some time later.                    *)
(***************************************************************************)

CONSTANTS Lane,
          NoLane           \* no lane has failed

ASSUME LaneAssumption == NoLane \notin Lane

VARIABLES owner,           \* the process that runs the wave
          external,        \* its signal was aborted
          firstFailure,    \* the lane whose failure is reported
          outcome,         \* what the wave returned
          lane,            \* where each lane's runner is
          cause,           \* how its attempt came to its end
          told,            \* its launch message
          sup,             \* its supervisor
          proc             \* its workload and descendants

control  == <<owner, external, firstFailure, outcome>>
attempts == <<lane, cause, told, sup, proc>>
vars     == <<control, attempts>>

\* A lane waits for its attempt, asks for an orderly exit or kills the group,
\* and returns.  A lost supervisor is one that something outside has killed.
TypeOK ==
  /\ owner \in {"running", "ended", "crashed"}
  /\ external \in BOOLEAN
  /\ firstFailure \in Lane \cup {NoLane}
  /\ outcome \in {"none", "committed", "failed"}
  /\ lane \in [Lane -> {"up", "leaving", "killed", "valid", "invalid"}]
  /\ cause \in [Lane -> {"none", "own", "cancel", "error"}]
  /\ told \in [Lane -> {"nothing", "launch", "heard"}]
  /\ sup \in [Lane -> {"up", "term", "doomed", "gone", "lost"}]
  /\ proc \in [Lane -> {"none", "live", "doomed", "gone"}]
  /\ \A l \in Lane : lane[l] = "invalid" => firstFailure # NoLane

Init ==
  /\ owner = "running" /\ external = FALSE
  /\ firstFailure = NoLane /\ outcome = "none"
  /\ lane = [l \in Lane |-> "up"]
  /\ cause = [l \in Lane |-> "none"]
  /\ told = [l \in Lane |-> "nothing"]
  /\ sup = [l \in Lane |-> "up"]
  /\ proc = [l \in Lane |-> "none"]

-----------------------------------------------------------------------------
(* The shared AbortController: each runner's listener chooses at once, and a *)
(* lane that has chosen keeps its choice.                                    *)

NotCancelled(c) == c                \* Mutant: a failure leaves the peers alone.

Cancelled(c) == [l \in Lane |-> IF c[l] = "none" THEN "cancel" ELSE c[l]]

\* Mutant: reports the last failure.
RecordLast(l) == /\ firstFailure' = l
                 /\ cause' = Cancelled(cause)

RecordFailure(l) == /\ firstFailure' = IF firstFailure = NoLane THEN l ELSE firstFailure
                    /\ cause' = Cancelled(cause)

-----------------------------------------------------------------------------
(* The runner of a lane. *)

Returned(l) == lane[l] \in {"valid", "invalid"}

Running(l) == owner = "running" /\ ~Returned(l)

Alive(l) == proc[l] \in {"live", "doomed"}

SupUp(l) == sup[l] \in {"up", "term"}

SendLaunch(l) ==
  /\ Running(l) /\ cause[l] = "none" /\ told[l] = "nothing"
  /\ told' = [told EXCEPT ![l] = "launch"]
  /\ UNCHANGED <<control, lane, cause, sup, proc>>

\* The attempt comes to an end of its own: an exit, its window, or an error.
Ends(l) ==
  /\ Running(l) /\ cause[l] = "none"
  /\ \/ proc[l] # "none" /\ cause' = [cause EXCEPT ![l] = "own"]
     \/ cause' = [cause EXCEPT ![l] = "error"]
  /\ UNCHANGED <<control, lane, told, sup, proc>>

\* SIGKILL to the group, of which the supervisor is the leader.
KillGroup(l) ==
  /\ proc' = [proc EXCEPT ![l] = IF @ = "live" THEN "doomed" ELSE @]
  /\ sup' = [sup EXCEPT ![l] = IF @ \in {"up", "term"} THEN "doomed" ELSE @]

\* Something of the group is there, or may be launched, or its end is not known
\* yet; or the orderly exit took too long.
Kill(l) ==
  /\ Running(l) /\ cause[l] # "none"
  /\ \/ lane[l] = "up" /\ (Alive(l) \/ told[l] # "nothing")
     \/ lane[l] = "leaving" /\ (Alive(l) \/ SupUp(l))
  /\ KillGroup(l)
  /\ lane' = [lane EXCEPT ![l] = "killed"]
  /\ UNCHANGED <<control, cause, told>>

\* Nothing is there and nothing can come: an orderly exit is asked for.
AskExit(l) ==
  /\ Running(l) /\ cause[l] # "none"
  /\ lane[l] = "up" /\ ~Alive(l) /\ told[l] # "launch"
  /\ lane' = [lane EXCEPT ![l] = "leaving"]
  /\ UNCHANGED <<control, cause, told, sup, proc>>

\* Cleanup is complete: nothing is left, and the supervisor went as it was told.
Cleaned(l) ==
  /\ ~Alive(l)
  /\ \/ lane[l] = "leaving" /\ sup[l] = "gone"
     \/ lane[l] = "killed" /\ sup[l] \in {"gone", "lost"}

\* Mutant: accepts an attempt whose cleanup was not complete.
ReturnUnclean(l) ==
  /\ Running(l) /\ cause[l] = "own" /\ lane[l] # "up"
  /\ lane' = [lane EXCEPT ![l] = "valid"]
  /\ UNCHANGED <<control, cause, told, sup, proc>>

\* runAttempt resolves to an attempt with valid evidence ...
ReturnValid(l) ==
  /\ Running(l) /\ cause[l] = "own" /\ Cleaned(l)
  /\ lane' = [lane EXCEPT ![l] = "valid"]
  /\ UNCHANGED <<control, cause, told, sup, proc>>

\* ... or to anything else: cancelled, an outcome that is not valid, a cleanup
\* that was not complete (what was killed may still be there).
ReturnInvalid(l) ==
  /\ Running(l) /\ cause[l] # "none"
  /\ \/ lane[l] = "killed"
     \/ lane[l] = "leaving" /\ ~Alive(l) /\ ~SupUp(l)
  /\ lane' = [lane EXCEPT ![l] = "invalid"]
  /\ RecordFailure(l)
  /\ UNCHANGED <<owner, external, outcome, told, sup, proc>>

-----------------------------------------------------------------------------
(* The supervisor of a lane and its group. *)

\* The channel ends with the owner, and with the return of the runner.
Connected(l) == Running(l)

\* A launch that was sent is heard whatever became of its sender, even while the
\* grace of an emergency runs; it may fail.
Launch(l) ==
  /\ SupUp(l) /\ told[l] = "launch"
  /\ told' = [told EXCEPT ![l] = "heard"]
  /\ proc' \in {proc, [proc EXCEPT ![l] = "live"]}
  /\ UNCHANGED <<control, lane, cause, sup>>

Die(l) ==
  /\ Alive(l)
  /\ proc' = [proc EXCEPT ![l] = "gone"]
  /\ UNCHANGED <<control, lane, cause, told, sup>>

\* The shutdown message comes after the launch.  With its workload there, the
\* supervisor turns to the emergency.
Leave(l) ==
  /\ SupUp(l) /\ lane[l] = "leaving" /\ told[l] # "launch"
  /\ sup' = [sup EXCEPT ![l] = IF Alive(l) THEN "term" ELSE "gone"]
  /\ UNCHANGED <<control, lane, cause, told, proc>>

\* Mutant: expects a workload to kill.
EmergencyLaunched(l) ==
  /\ sup[l] = "up" /\ ~Connected(l) /\ proc[l] # "none"
  /\ sup' = [sup EXCEPT ![l] = "term"]
  /\ UNCHANGED <<control, lane, cause, told, proc>>

\* emergencyCleanup, on the loss of the channel: TERM to the group, which the
\* supervisor itself ignores.  One that has not announced itself just exits.
Emergency(l) ==
  /\ sup[l] = "up" /\ ~Connected(l)
  /\ \E s \in {"term", "gone"} :
       /\ s = "gone" => told[l] = "nothing"
       /\ sup' = [sup EXCEPT ![l] = s]
  /\ UNCHANGED <<control, lane, cause, told, proc>>

\* The same on an exception, which may also be the cause of the lane's end.
Fatal(l) ==
  /\ sup[l] = "up"
  /\ sup' = [sup EXCEPT ![l] = "term"]
  /\ UNCHANGED <<control, lane, cause, told, proc>>

\* Mutant: the exit comes first, and KILL never.
ExitFirst(l) ==
  /\ sup[l] = "term"
  /\ sup' = [sup EXCEPT ![l] = "gone"]
  /\ UNCHANGED <<control, lane, cause, told, proc>>

\* The grace is over: KILL to the group and, with it, to the supervisor.
Escalate(l) ==
  /\ sup[l] = "term"
  /\ KillGroup(l)
  /\ UNCHANGED <<control, lane, cause, told>>

SupDies(l) ==
  /\ sup[l] = "doomed"
  /\ sup' = [sup EXCEPT ![l] = "gone"]
  /\ UNCHANGED <<control, lane, cause, told, proc>>

\* Something outside kills the supervisor.
SupCrash(l) ==
  /\ SupUp(l)
  /\ sup' = [sup EXCEPT ![l] = "lost"]
  /\ UNCHANGED <<control, lane, cause, told, proc>>

-----------------------------------------------------------------------------
(* The owner. *)

\* onExternalAbort.
Abort ==
  /\ owner = "running" /\ ~external
  /\ external' = TRUE
  /\ cause' = Cancelled(cause)
  /\ UNCHANGED <<owner, firstFailure, outcome, lane, told, sup, proc>>

\* Promise.all, whatever the lanes returned.
AllReturned == \A l \in Lane : Returned(l)

Finish ==
  /\ owner = "running" /\ AllReturned
  /\ outcome' = IF firstFailure = NoLane THEN "committed" ELSE "failed"
  /\ owner' = "ended"
  /\ UNCHANGED <<external, firstFailure, attempts>>

Crash ==
  /\ owner = "running"
  /\ owner' = "crashed"
  /\ UNCHANGED <<external, firstFailure, outcome, attempts>>

-----------------------------------------------------------------------------
RunnerStep(l) == Kill(l) \/ AskExit(l) \/ ReturnValid(l) \/ ReturnInvalid(l)

SupStep(l) == Leave(l) \/ Emergency(l) \/ Escalate(l) \/ SupDies(l)

LaneStep(l) == \/ RunnerStep(l) \/ SupStep(l)
               \/ SendLaunch(l) \/ Ends(l) \/ Launch(l) \/ Die(l) \/ Fatal(l) \/ SupCrash(l)

Next == Abort \/ Finish \/ Crash \/ \E l \in Lane : LaneStep(l)

Spec == Init /\ [][Next]_vars

\* Runners clean up and return once they have chosen, supervisors' timers fire,
\* and the owner goes on.  That an attempt ends by itself within its window is
\* not assumed.
FairSpec ==
  /\ Spec
  /\ WF_vars(Finish)
  /\ \A l \in Lane : WF_vars(RunnerStep(l)) /\ WF_vars(SupStep(l))

LeaseFree == owner # "running" /\ \A l \in Lane : sup[l] \in {"gone", "lost"}

-----------------------------------------------------------------------------
(* Properties. *)

\* A wave is published whole or not at all: every lane came to its own end, none
\* was cancelled, and nothing of the wave still runs when the next one may start.
CommittedWhole ==
  outcome = "committed" =>
    \A l \in Lane : lane[l] = "valid" /\ cause[l] = "own" /\ ~Alive(l)

\* The failure that the wave reports is one that its peers did not cause.
RootCauseReported ==
  firstFailure # NoLane /\ ~external => cause[firstFailure] \in {"own", "error"}

\* The wave returns only when each of its lanes has.
NoLaneOutlivesWave == owner = "ended" => AllReturned

\* When the last holder of the lease is gone, no workload of the wave goes on: it
\* has died or been killed, by its runner or by its supervisor, however the two
\* cleanups and a launch still in the channel fell together (attempt-supervisor).
\* The exception is a workload whose supervisor something outside has killed.
FreeLeaseMeansQuiet ==
  LeaseFree => \A l \in Lane : proc[l] = "live" => sup[l] = "lost"

\* A failure or a signal ends the wave, even if no other attempt would end.
FailureEndsWave == (firstFailure # NoLane \/ external) ~> (owner # "running")

\* After a crash the lease comes free.
CrashFreesLease == (owner = "crashed") ~> LeaseFree
=============================================================================
