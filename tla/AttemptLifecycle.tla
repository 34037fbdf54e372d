-------------------------- MODULE AttemptLifecycle --------------------------
(***************************************************************************)
(* One supervised workload attempt: the runner in the owner's process      *)
(* (diagnose-lib/attempt-runner.mjs), the supervisor that leads the        *)
(* attempt's process group (attempt-supervisor.mjs), the group, and the    *)
(* two directions of the IPC channel between them.                         *)
(*                                                                         *)
(* The execution deadline is one event, Late; every message carries        *)
(* whether its sender's clock had passed it.  The grace periods have no    *)
(* relation to what the processes do with them, so a wait bounded by one   *)
(* may end at any moment.  A signalled process dies some time later, or,   *)
(* for TERM, never.  Workloads stay in their group (docs/decisions/0002)   *)
(* and a scan of /proc is taken as one step.                               *)
(***************************************************************************)
EXTENDS Naturals, Sequences

VARIABLES managed,     \* the managed runner, which insists on a live start
          late,        \* the execution deadline has passed
          toSup,       \* messages to the supervisor
          toRunner,    \* messages to the runner
          connected,   \* the channel is open
          \* the supervisor
          sup,         \* where it is
          supExit,     \* how it ended
          emergency,   \* stage of its own cleanup
          \* its process group
          life,        \* state of the workload and of its helper
          signalled,   \* the harness has signalled the group
          death,       \* how the workload died: by itself, in time
          \* the runner
          run,         \* where it is
          proto,       \* the protocol state it has reached
          choice,      \* the terminal cause it chose
          supSeen,     \* it has seen the supervisor exit
          shutdown,    \* it asked for an orderly exit
          kill,        \* its SIGKILL: not tried, missed or hit
          faulted,     \* a fatal, protocol or unexpected-exit error
          complete     \* cleanupComplete of the result it returned

window     == <<managed, late>>
supervisor == <<sup, supExit, emergency>>
group      == <<life, signalled, death>>
runner     == <<run, proto, choice, supSeen, shutdown, kill, faulted, complete>>
channel    == <<toSup, toRunner, connected>>
vars       == <<window, channel, supervisor, group, runner>>

Members == {"workload", "helper"}
Alive   == {m \in Members : life[m] \in {"live", "doomed"}}   \* what /proc lists
Gone    == {"dead", "returned"}                              \* no runner any more

SupUp   == sup \notin {"doomed", "gone"}
SupLive == sup # "gone"

-----------------------------------------------------------------------------
(* Signals. *)

Doom(ms) == [m \in Members |-> IF m \in ms /\ life[m] = "live" THEN "doomed" ELSE life[m]]

Die(m) == /\ life[m] \in {"live", "doomed"}
          /\ life' = [life EXCEPT ![m] = "gone"]
          /\ death' = IF m = "workload" THEN [natural |-> ~signalled, late |-> late]
                                        ELSE death
          /\ UNCHANGED <<window, channel, supervisor, signalled, runner>>

\* A helper is forked by any live member of the group.
Fork == /\ \E m \in Members : life[m] = "live"
        /\ life["helper"] = "none"
        /\ life' = [life EXCEPT !["helper"] = "live"]
        /\ UNCHANGED <<window, channel, supervisor, signalled, death, runner>>

DeadlinePasses == /\ ~late
                  /\ late' = TRUE
                  /\ UNCHANGED <<managed, channel, supervisor, group, runner>>

-----------------------------------------------------------------------------
(* The supervisor. *)

Says(types) == IF connected
               THEN toRunner \o [i \in 1..Len(types) |-> [type |-> types[i], late |-> late]]
               ELSE toRunner

\* It announces itself.  If the owner is gone already it may have missed the
\* disconnect event, and then nothing keeps it alive.
SupReady == /\ sup = "boot"
            /\ \/ sup' = "ready" /\ UNCHANGED supExit
               \/ ~connected /\ sup' = "gone" /\ supExit' = "clean"
            /\ toRunner' = Says(<<"supervisor-ready">>)
            /\ UNCHANGED <<window, toSup, connected, emergency, group, runner>>

\* Its identity, its mask or the descriptor it was handed is not as expected.
SupBootFails == /\ sup = "boot"
                /\ sup' = "gone" /\ supExit' = "error"
                /\ connected' = FALSE
                /\ UNCHANGED <<window, toSup, toRunner, emergency, group, runner>>

\* emergencyCleanup: TERM to the group, KILL to it and itself a while later.
BeginEmergency == /\ emergency = "none"
                  /\ emergency' = "term"
                  /\ signalled' = TRUE

SupLaunch == /\ sup = "ready" /\ toSup # << >> /\ Head(toSup) = "launch"
             /\ toSup' = Tail(toSup)
             /\ sup' = "up"
             /\ life' = [life EXCEPT !["workload"] = "live"]
             /\ toRunner' = Says(<<"workload-started">>)
             /\ UNCHANGED <<window, connected, supExit, emergency, signalled, death, runner>>

\* Affinity, provenance or the spawn itself failed.
SupLaunchFails == /\ sup = "ready" /\ toSup # << >> /\ Head(toSup) = "launch"
                  /\ toSup' = Tail(toSup)
                  /\ sup' = "failed"
                  /\ toRunner' = Says(<<"workload-launch-error">>)
                  /\ UNCHANGED <<window, connected, supExit, emergency, group, runner>>

\* The workload is outside the group or the mask: it is never announced.
SupLaunchStray == /\ sup = "ready" /\ toSup # << >> /\ Head(toSup) = "launch"
                  /\ toSup' = Tail(toSup)
                  /\ sup' = "up"
                  /\ life' = [life EXCEPT !["workload"] = "live"]
                  /\ BeginEmergency
                  /\ toRunner' = Says(<<"fatal">>)
                  /\ UNCHANGED <<window, connected, supExit, death, runner>>

SupReap == /\ sup = "up" /\ life["workload"] = "gone"
           /\ sup' = "reaped"
           /\ toRunner' = Says(<<"workload-exit">>)
           /\ UNCHANGED <<window, toSup, connected, supExit, emergency, group, runner>>

\* Mutant: the group is signalled before the runner is told.
SupFatalMute == /\ SupUp /\ sup # "boot"
                /\ BeginEmergency
                /\ UNCHANGED <<window, channel, sup, supExit, life, death, runner>>

\* An uncaught exception: the runner is told before the group is signalled.
SupFatal == /\ SupUp /\ sup # "boot"
            /\ BeginEmergency
            /\ toRunner' = Says(<<"fatal">>)
            /\ UNCHANGED <<window, toSup, connected, sup, supExit, life, death, runner>>

SupShutdown == /\ SupUp /\ sup # "boot"
               /\ toSup # << >> /\ Head(toSup) = "shutdown"
               /\ toSup' = Tail(toSup)
               /\ IF sup = "up"
                  THEN /\ emergency' = "term" /\ signalled' = TRUE
                       /\ toRunner' = Says(<<"fatal">>)
                       /\ UNCHANGED <<sup, supExit, connected>>
                  ELSE /\ sup' = "gone" /\ supExit' = "clean"
                       /\ connected' = FALSE
                       /\ UNCHANGED <<emergency, signalled, toRunner>>
               /\ UNCHANGED <<window, life, death, runner>>

\* Mutant: the supervisor follows its owner and leaves the group behind.
SupLeaves == /\ SupUp /\ sup # "boot" /\ ~connected
             /\ sup' = "gone" /\ supExit' = "clean"
             /\ UNCHANGED <<window, channel, emergency, group, runner>>

\* Mutant: the owner's death goes unnoticed.
SupIgnoresDisconnect == FALSE /\ UNCHANGED vars

SupDisconnect == /\ SupUp /\ sup # "boot" /\ ~connected
                 /\ BeginEmergency
                 /\ UNCHANGED <<window, channel, sup, supExit, life, death, runner>>

EmergencyKill == /\ SupUp /\ emergency = "term"
                 /\ emergency' = "killed"
                 /\ life' = Doom(Members)
                 /\ sup' = "doomed"
                 /\ UNCHANGED <<window, channel, supExit, signalled, death, runner>>

SupDies == /\ sup = "doomed"
           /\ sup' = "gone" /\ supExit' = "killed"
           /\ connected' = FALSE
           /\ UNCHANGED <<window, toSup, toRunner, emergency, group, runner>>

\* Something outside kills the supervisor.
SupCrash == /\ SupUp
            /\ sup' = "gone" /\ supExit' = "crashed"
            /\ connected' = FALSE
            /\ UNCHANGED <<window, toSup, toRunner, emergency, group, runner>>

-----------------------------------------------------------------------------
(* The runner: events before and after the terminal choice. *)

Choose(c) == choice' = IF choice = "none" THEN c ELSE choice

Receives(type) == /\ run \notin Gone
                  /\ toRunner # << >> /\ Head(toRunner).type = type
                  /\ toRunner' = Tail(toRunner)

Started == proto = "workload-started"

RecvReady == /\ Receives("supervisor-ready")
             /\ IF choice # "none" \/ late
                THEN /\ proto' = "supervisor-ready"
                     /\ Choose("launch-error")
                     /\ UNCHANGED toSup
                ELSE /\ proto' = "launch-sent"
                     /\ toSup' = Append(toSup, "launch")
                     /\ UNCHANGED choice
             /\ UNCHANGED <<window, connected, supervisor, group, run, supSeen, shutdown,
                            kill, faulted, complete>>

RecvStarted == /\ Receives("workload-started")
               /\ proto' = "workload-started"
               /\ Choose(IF Head(toRunner).late THEN "terminal-race"
                         ELSE IF managed /\ life["workload"] = "gone" THEN "external-cancel"
                         ELSE choice)
               /\ UNCHANGED <<window, toSup, connected, supervisor, group, run, supSeen,
                              shutdown, kill, faulted, complete>>

\* The exit of a workload that was never announced breaks the protocol.
RecvExit == /\ Receives("workload-exit")
            /\ IF Started
               THEN /\ proto' = "workload-terminal"
                    /\ Choose(IF Head(toRunner).late THEN "terminal-race" ELSE "natural-exit")
                    /\ UNCHANGED faulted
               ELSE /\ faulted' = TRUE
                    /\ Choose("launch-error")
                    /\ UNCHANGED proto
            /\ UNCHANGED <<window, toSup, connected, supervisor, group, run, supSeen, shutdown,
                           kill, complete>>

RecvLaunchError == /\ Receives("workload-launch-error")
                   /\ proto' = "workload-terminal"
                   /\ Choose("launch-error")
                   /\ UNCHANGED <<window, toSup, connected, supervisor, group, run, supSeen,
                                  shutdown, kill, faulted, complete>>

RecvFatal == /\ Receives("fatal")
             /\ faulted' = TRUE
             /\ Choose(IF Started THEN "terminal-race" ELSE "launch-error")
             /\ UNCHANGED <<window, toSup, connected, supervisor, group, run, proto, supSeen,
                            shutdown, kill, complete>>

\* The exit event is not ordered with the messages still in the channel.
SeeSupExit == /\ run \notin Gone /\ sup = "gone" /\ ~supSeen
              /\ supSeen' = TRUE
              /\ faulted' = (faulted \/ (~shutdown /\ kill = "none"))
              /\ Choose(IF Started THEN "terminal-race" ELSE "launch-error")
              /\ UNCHANGED <<window, channel, supervisor, group, run, proto, shutdown, kill,
                             complete>>

Abort == /\ run \in {"waiting", "inspecting"} /\ choice = "none"
         /\ Choose("external-cancel")
         /\ UNCHANGED <<window, channel, supervisor, group, run, proto, supSeen, shutdown,
                        kill, faulted, complete>>

\* Mutant: a dead workload is taken for one that outlived its window.
CandidateUnprobed == IF proto \in {"awaiting-ready", "supervisor-ready", "launch-sent"}
                     THEN "launch-error" ELSE "observation-window"

\* selectAttemptDeadlineCandidate; an exit the runner has seen was chosen.
Candidate == IF proto \in {"awaiting-ready", "supervisor-ready", "launch-sent"}
             THEN "launch-error"
             ELSE IF life["workload"] \in {"live", "doomed"} THEN "observation-window"
             ELSE "terminal-race"

\* A workload that is gone without its exit message gets one more turn.
Deadline == /\ late /\ choice = "none"
            /\ \/ /\ run = "waiting" /\ Candidate = "terminal-race"
                  /\ run' = "inspecting"
                  /\ UNCHANGED choice
               \/ /\ run = "inspecting" \/ (run = "waiting" /\ Candidate # "terminal-race")
                  /\ Choose(Candidate)
                  /\ UNCHANGED run
            /\ UNCHANGED <<window, channel, supervisor, group, proto, supSeen, shutdown, kill,
                           faulted, complete>>

-----------------------------------------------------------------------------
(* The runner: cleanup. *)

Settled == proto \in {"awaiting-ready", "supervisor-ready", "workload-terminal"}

Go(from, to) == run = from /\ run' = to

BeginCleanup == /\ choice # "none" /\ run \in {"waiting", "inspecting"}
                /\ run' = IF Alive # {} THEN "terming" ELSE "deciding"
                /\ signalled' = (signalled \/ Alive # {})
                /\ UNCHANGED <<window, channel, supervisor, life, death, proto, choice, supSeen,
                               shutdown, kill, faulted, complete>>

\* Mutant: the wait for TERM to work has no end.
TermUntilGone == /\ Go("terming", "deciding") /\ Alive = {}
                 /\ UNCHANGED <<window, channel, supervisor, group, proto, choice, supSeen,
                                shutdown, kill, faulted, complete>>

TermOver == /\ Go("terming", "deciding")
            /\ UNCHANGED <<window, channel, supervisor, group, proto, choice, supSeen, shutdown,
                           kill, faulted, complete>>

\* SIGKILL to the group while the supervisor anchors its identity, to the
\* members one by one when it is gone.
SendKill == /\ kill' = IF SupLive \/ Alive # {} THEN "hit" ELSE "missed"
            /\ life' = Doom(Members)
            /\ sup' = IF SupUp THEN "doomed" ELSE sup
            /\ signalled' = TRUE

RequestShutdown == /\ shutdown' = ~supSeen
                   /\ toSup' = IF ~supSeen /\ connected THEN Append(toSup, "shutdown") ELSE toSup
                   /\ faulted' = (faulted \/ ~connected)

\* Mutant: an orderly exit is asked for whatever is still running.
DecideShutdown == /\ Go("deciding", "draining")
                  /\ RequestShutdown
                  /\ UNCHANGED <<group, sup, kill>>
                  /\ UNCHANGED <<window, toRunner, connected, supExit, emergency, death, proto,
                                 choice, supSeen, complete>>

Decide == /\ Go("deciding", "draining")
          /\ IF Alive # {} \/ ~Settled
             THEN SendKill /\ UNCHANGED <<toSup, shutdown, faulted>>
             ELSE RequestShutdown /\ UNCHANGED <<life, signalled, sup, kill>>
          /\ UNCHANGED <<window, toRunner, connected, supExit, emergency, death, proto,
                         choice, supSeen, complete>>

DrainOver == /\ Go("draining", "returning")
             /\ IF (Alive # {} \/ SupLive) /\ kill = "none"
                THEN SendKill
                ELSE UNCHANGED <<life, signalled, sup, kill>>
             /\ UNCHANGED <<window, channel, supExit, emergency, death, proto, choice, supSeen,
                            shutdown, faulted, complete>>

\* supervisorCompletionValid
CompletionValid == /\ supSeen
                   /\ IF kill = "hit" THEN supExit \in {"killed", "crashed"}
                                      ELSE shutdown /\ supExit = "clean"

\* Mutant: only the supervisor's completion is looked at.
DrainedUnprobed == CompletionValid /\ ~faulted

Drained == CompletionValid /\ ~faulted /\ Alive = {} /\ ~SupLive

\* Probe, signal or output errors can only make the result incomplete.
Return == /\ Go("returning", "returned")
          /\ complete' \in {FALSE, Drained}
          /\ connected' = FALSE
          /\ UNCHANGED <<window, toSup, toRunner, supervisor, group, proto, choice, supSeen,
                         shutdown, kill, faulted>>

\* The owner's process dies and takes its end of the channel with it.
RunnerDies == /\ run \notin Gone
              /\ run' = "dead"
              /\ connected' = FALSE
              /\ UNCHANGED <<window, toSup, toRunner, supervisor, group, proto, choice, supSeen,
                             shutdown, kill, faulted, complete>>

-----------------------------------------------------------------------------
Init == /\ managed \in BOOLEAN /\ late = FALSE
        /\ toSup = << >> /\ toRunner = << >> /\ connected = TRUE
        /\ sup = "boot" /\ supExit = "none" /\ emergency = "none"
        /\ life = [m \in Members |-> "none"]
        /\ signalled = FALSE
        /\ death = [natural |-> FALSE, late |-> FALSE]
        /\ run = "waiting" /\ proto = "awaiting-ready" /\ choice = "none"
        /\ supSeen = FALSE /\ shutdown = FALSE /\ kill = "none"
        /\ faulted = FALSE /\ complete = FALSE

SupStep == \/ SupReady \/ SupLaunch \/ SupLaunchFails \/ SupLaunchStray \/ SupReap \/ SupShutdown
           \/ SupDisconnect \/ EmergencyKill \/ SupDies

RunnerStep == \/ RecvReady \/ RecvStarted \/ RecvExit \/ RecvLaunchError \/ RecvFatal
              \/ SeeSupExit \/ Deadline \/ BeginCleanup \/ TermOver \/ Decide
              \/ DrainOver \/ Return

Next == \/ SupStep \/ RunnerStep
        \/ SupBootFails \/ SupFatal \/ SupCrash \/ Abort \/ RunnerDies
        \/ DeadlinePasses \/ Fork
        \/ \E m \in Members : Die(m)

Spec == Init /\ [][Next]_vars

\* Live processes keep running, timers fire, and a killed process dies.  A
\* workload owes nothing: it may ignore TERM and run for ever.
FairSpec == /\ Spec
            /\ WF_vars(SupStep) /\ WF_vars(RunnerStep) /\ WF_vars(DeadlinePasses)
            /\ \A m \in Members : WF_vars(life[m] = "doomed" /\ Die(m))

-----------------------------------------------------------------------------
(* Properties. *)

\* Every variable keeps its type; a supervisor that is gone has an exit status.
ChannelTyped ==
  /\ toSup \in Seq({"launch", "shutdown"})
  /\ toRunner \in Seq([type : {"supervisor-ready", "workload-started", "workload-exit",
                               "workload-launch-error", "fatal"}, late : BOOLEAN])

FlagsTyped ==
  /\ managed \in BOOLEAN /\ late \in BOOLEAN /\ connected \in BOOLEAN /\ signalled \in BOOLEAN
  /\ supSeen \in BOOLEAN /\ shutdown \in BOOLEAN
  /\ faulted \in BOOLEAN /\ complete \in BOOLEAN

StateTyped ==
  /\ sup \in {"boot", "ready", "up", "reaped", "failed", "doomed", "gone"}
  /\ supExit \in {"none", "clean", "error", "killed", "crashed"}
  /\ emergency \in {"none", "term", "killed"}
  /\ life \in [Members -> {"none", "live", "doomed", "gone"}]
  /\ death \in [natural : BOOLEAN, late : BOOLEAN]
  /\ run \in {"waiting", "inspecting", "terming", "deciding", "draining", "returning"}
            \union Gone
  /\ proto \in {"awaiting-ready", "supervisor-ready", "launch-sent", "workload-started",
                "workload-terminal"}
  /\ choice \in {"none", "natural-exit", "launch-error", "terminal-race",
                 "external-cancel", "observation-window"}
  /\ kill \in {"none", "missed", "hit"}
  /\ (sup = "gone") <=> (supExit # "none")

TypeOK == ChannelTyped /\ FlagsTyped /\ StateTyped

\* "Harness-generated SIGTERM and SIGKILL statuses are cleanup evidence, not
\* workload outcomes" (docs/decisions/0003): an exit counts as natural only
\* if the workload died by itself and before the deadline, however the exit
\* message raced the deadline, a cancellation or an emergency cleanup.
NaturalIsNatural ==
  choice = "natural-exit" => life["workload"] = "gone" /\ death.natural /\ ~death.late

\* An attempt that "survived its window" was alive when the window closed,
\* even if the message saying otherwise was still in the channel.
WindowWasSurvived ==
  choice = "observation-window" /\ life["workload"] = "gone" => death.late

\* A result that says its cleanup is complete leaves no process behind, and
\* never will: supervisor, workload and descendants are gone for good.
CompleteMeansGone == complete => Alive = {} /\ sup = "gone"

\* A supervisor that exits in an orderly way abandons nobody: shutdown is
\* asked for only when the group is empty, and nothing joins it afterwards.
OrderlyExitAbandonsNobody == supExit = "clean" => Alive = {}

\* docs/decisions/0010: the duplicate descriptor keeps the lease "until the
\* supervisor completes its bounded process-group cleanup".  A group that
\* nobody has killed has a supervisor, or its runner is still there.
LeaseCoversGroup ==
  (\E m \in Members : life[m] = "live") /\ supExit # "crashed"
    => SupUp \/ run \notin Gone

\* "No controller wait remains unbounded after an execution or cleanup
\* deadline" (docs/decisions/0003): every attempt returns.
AttemptReturns == <>(run \in Gone)

\* Once the runner has returned or died the group goes away, also when the
\* workload ignores TERM and nobody is left to send KILL but the supervisor.
GroupIsReaped ==
  run \in Gone ~> (Alive = {} /\ sup = "gone") \/ supExit = "crashed"
=============================================================================
