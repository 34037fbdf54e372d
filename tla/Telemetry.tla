----------------------------- MODULE Telemetry -----------------------------
(* Descriptive telemetry of a resumable phase of diagnose.sh: a supervised   *)
(* sampler per session writes a log (telemetry-sampler.mjs), the session's   *)
(* start and end are recorded around it (telemetry-session.mjs), and once    *)
(* the workload's evidence is published an envelope binds and judges all of  *)
(* it (telemetry-evidence.mjs). A kill may fall between any two steps, and   *)
(* the machine may reboot, which starts the monotonic clock again.           *)
EXTENDS Naturals, FiniteSets

CONSTANTS
  Units,      \* observations of the workload
  Segments,   \* numbers a session's telemetry can have
  MaxSweeps,  \* bound: samples of a session
  Gaps,       \* how long a machine may be up before the phase is resumed
  MaxFaults   \* bound: kills, reboots, and samplers and shells that fail on their own

VARIABLES
  generation, \* of the phase: "absent", "torn" or "whole"
  log, start, boundary, \* per segment
  index, meta, envelope, \* the published pair, and what it says
  units, final, done,  \* observations, their published evidence, the marker
  pc, listed, available, active, began, dying, \* the shell
  up,         \* the sampler: 0, or the segment it writes
  watched, unseen, \* history: this, and some observation ran without a sampler
  clock, boot, \* time, and when the machine was started
  faults

segs  == <<generation, log, start, boundary>>
env   == <<index, meta, envelope>>
load  == <<units, final, done, watched, unseen>>
shell == <<pc, listed, available, active, began, dying>>
time  == <<clock, boot>>
vars  == <<segs, env, load, shell, up, time, faults>>

NoLog   == [open |-> 0, boot |-> 0, sweeps |-> {}, end |-> 0, torn |-> FALSE]
NoPoint == [there |-> FALSE, whole |-> FALSE, unix |-> 0, mono |-> 0]
NoEnvelope == [segments |-> {}, log |-> <<>>, boundary |-> <<>>, status |-> "none"]

Init ==
  /\ generation = "absent"
  /\ log = [s \in Segments |-> NoLog]
  /\ start = [s \in Segments |-> NoPoint] /\ boundary = [s \in Segments |-> NoPoint]
  /\ index = "absent" /\ meta = "absent" /\ envelope = NoEnvelope
  /\ units = 0 /\ final = FALSE /\ done = FALSE /\ watched = FALSE /\ unseen = FALSE
  /\ pc = "off" /\ listed = 0 /\ available = FALSE /\ active = 0 /\ began = 0 /\ dying = FALSE
  /\ up = 0 /\ clock = 1 /\ boot = 0 /\ faults = 0

-----------------------------------------------------------------------------
(* What is on disk.                                                          *)
Logs   == {s \in Segments : log[s] # NoLog}
Starts == {s \in Segments : start[s].there}
Bounds == {s \in Segments : boundary[s].there}

Tick == clock' = clock + 1 /\ UNCHANGED boot

(* captureTelemetryBoundaryPoint.                                            *)
Point(whole) == [there |-> TRUE, whole |-> whole, unix |-> clock, mono |-> clock - boot]

(* telemetry_resumable_prepare: contiguous, a start for every log, no        *)
(* boundary without one.                                                     *)
Numbered(n) == Logs = 1..n
Exact ==
  /\ generation = "whole"
  /\ Starts = Logs /\ (\E n \in {0} \union Segments : Numbered(n)) /\ Bounds \subseteq Logs

(* finish --recover: the start is readable and the clock has not restarted.  *)
Recoverable(s) == start[s].whole /\ start[s].mono <= clock - boot

Mono(s, t) == t - log[s].boot

(* Without the wall clock: a bug CompleteMeansCovered finds.                 *)
CoveredMonotonic(s) ==
  /\ log[s].end # 0
  /\ \E t \in log[s].sweeps : Mono(s, t) <= start[s].mono
  /\ boundary[s].mono <= Mono(s, log[s].end)
  /\ \E t \in log[s].sweeps : start[s].mono <= Mono(s, t) /\ Mono(s, t) <= boundary[s].mono

(* assessTelemetryBoundaryCoverage, for a log with its terminal record.      *)
Covered(s) ==
  /\ log[s].end # 0
  /\ \E t \in log[s].sweeps : Mono(s, t) <= start[s].mono
  /\ start[s].unix >= log[s].open
  /\ boundary[s].mono <= Mono(s, log[s].end) /\ boundary[s].unix <= log[s].end
  /\ \E t \in log[s].sweeps : start[s].mono <= Mono(s, t) /\ Mono(s, t) <= boundary[s].mono

(* parseTelemetryNdjson: whole lines and at least one sample; without its    *)
(* terminal record a log is readable, but incomplete.                        *)
LogReads(s) == log[s] # NoLog /\ ~log[s].torn /\ log[s].sweeps # {}

(* parseTelemetryBoundary: no clock of it goes backwards.                    *)
BoundaryReads(s) ==
  boundary[s].whole /\ start[s].unix <= boundary[s].unix /\ start[s].mono <= boundary[s].mono

(* scanPhaseDirectory.                                                       *)
Only(S) == Logs \subseteq S /\ Bounds \subseteq S

(* computeTelemetryWorkloadBinding reads the evidence that is published.     *)
Bindable == final

(* buildTelemetryEnvelope: it refuses what it cannot read, ...               *)
Buildable ==
  /\ generation = "whole" /\ listed > 0 /\ Bindable
  /\ Only(1..listed)
  /\ \A s \in 1..listed : LogReads(s) /\ BoundaryReads(s)

(* ... and judges the rest.                                                  *)
Status == IF \A s \in 1..listed : Covered(s) THEN "complete" ELSE "incomplete"

-----------------------------------------------------------------------------
(* The sampler.                                                              *)

(* How a log ends: with its terminal record, or perhaps in the middle of a   *)
(* line.                                                                     *)
Ends(s, ended, torn) ==
  log' = IF log[s] = NoLog THEN log
         ELSE [log EXCEPT ![s].end = IF ended THEN clock ELSE 0,
                          ![s].torn = IF ended THEN FALSE ELSE torn]

Quit(s, ended, torn) == Ends(s, ended, torn) /\ up' = 0 /\ Tick

SamplerOpens ==
  /\ up # 0 /\ log[up] = NoLog
  /\ log' = [log EXCEPT ![up].open = clock, ![up].boot = boot] /\ Tick
  /\ UNCHANGED <<generation, start, boundary, env, load, shell, up, faults>>

Sweep ==
  /\ up # 0 /\ log[up] # NoLog /\ Cardinality(log[up].sweeps) < MaxSweeps
  /\ log' = [log EXCEPT ![up].sweeps = @ \union {clock}] /\ Tick
  /\ UNCHANGED <<generation, start, boundary, env, load, shell, up, faults>>

(* A limit of samples or bytes is reached (then it says so), or it crashes.  *)
SamplerFails ==
  /\ up # 0 /\ faults < MaxFaults /\ faults' = faults + 1
  /\ \E ended, torn \in BOOLEAN : Quit(up, ended, torn)
  /\ watched' = FALSE
  /\ UNCHANGED <<generation, start, boundary, env, units, final, done, unseen, shell>>

(* The watchdog of the group, when the shell is gone.                        *)
Reap ==
  /\ pc = "off" /\ up # 0
  /\ \E ended, torn \in BOOLEAN : Quit(up, ended, torn)
  /\ UNCHANGED <<generation, start, boundary, env, load, shell, faults>>

-----------------------------------------------------------------------------
(* A session of the phase.                                                   *)

Goto(l) == pc' = l /\ UNCHANGED <<listed, available, active, began, dying>>

(* A sampler that does not keep the lock: a bug EnvelopeReadsBack finds.     *)
LockNotInherited == TRUE

(* The sampler inherits the lock of the bundle.                              *)
LockFree == up = 0

Resume ==
  /\ pc = "off" /\ ~done /\ LockFree
  /\ pc' = IF generation = "absent" THEN "mint" ELSE "prepare"
  /\ listed' = 0 /\ available' = FALSE /\ active' = 0 /\ began' = 0 /\ dying' = FALSE
  /\ UNCHANGED <<segs, env, load, up, time, faults>>

(* telemetry_phase_generation_read: created first, written after.            *)
Mint ==
  /\ \/ pc = "mint"  /\ generation' = "torn"  /\ Goto("minted")
     \/ pc = "minted" /\ generation' = "whole" /\ Goto("prepare")
  /\ UNCHANGED <<log, start, boundary, env, load, up, time, faults>>

(* After telemetry is prepared or found unavailable: all that depends on it. *)
Next1(avail) ==
  IF final THEN IF avail THEN "absent?" ELSE "mark"
  ELSE IF units = Units THEN "final"
  ELSE IF avail THEN "start" ELSE "loop"

(* A phase that dies without telemetry: a bug Finishes finds.                *)
UnavailableDies(ok) ==
  /\ ~ok /\ available' = FALSE /\ pc' = "off"
  /\ UNCHANGED <<listed, active, began, dying>>

(* telemetry_resumable_prepare_descriptive: what is not exact is left alone, *)
(* and the workload goes on without telemetry.                               *)
Unavailable(ok) ==
  /\ ~ok /\ available' = FALSE /\ pc' = Next1(FALSE)
  /\ UNCHANGED <<listed, active, began, dying>>

Missing == Logs \ Bounds
Least(s) == s \in Missing /\ \A t \in Missing : s <= t

Prepare ==
  /\ pc = "prepare"
  /\ \/ /\ Exact /\ Missing = {}
        /\ \E n \in {0} \union Segments : Numbered(n) /\ listed' = n
        /\ available' = TRUE /\ pc' = Next1(TRUE)
        /\ UNCHANGED <<boundary, active, began, dying, time>>
     \/ /\ Exact
        /\ \E s \in Segments : /\ Least(s) /\ Recoverable(s)
                              /\ boundary' = [boundary EXCEPT ![s] = Point(FALSE)]
        /\ Tick /\ Goto("recover")
     \/ /\ Unavailable(Exact /\ \A s \in Segments : Least(s) => Recoverable(s))
        /\ UNCHANGED <<boundary, time>>
  /\ UNCHANGED <<generation, log, start, env, load, up, faults>>

(* One at a time, from the first: only one can be unwritten.                 *)
Recover ==
  /\ pc = "recover"
  /\ boundary' = [s \in Segments |-> IF s = Cardinality(Bounds) /\ boundary[s].there
                                     THEN [boundary[s] EXCEPT !.whole = TRUE] ELSE boundary[s]]
  /\ Goto("prepare")
  /\ UNCHANGED <<generation, log, start, env, load, up, time, faults>>

(* telemetry_sampler_start.                                                  *)
SamplerStart ==
  /\ pc = "start" /\ listed + 1 \in Segments
  /\ up' = listed + 1 /\ active' = listed + 1 /\ pc' = "first"
  /\ UNCHANGED <<segs, env, load, listed, available, began, dying, time, faults>>

FirstSample ==
  /\ pc = "first" /\ log[active].sweeps # {}
  /\ Goto("boundary")
  /\ UNCHANGED <<segs, env, load, up, time, faults>>

(* Without a first sample in time, or with the sampler dead, the shell gives *)
(* up; Stop discards what was not started.                                   *)
GiveUp ==
  /\ pc = "first" /\ up = 0
  /\ pc' = "group" /\ dying' = TRUE
  /\ UNCHANGED <<segs, env, load, listed, available, active, began, up, time, faults>>

(* telemetry_boundary_start: the point is taken, the file created, written,  *)
(* and the shell told.                                                       *)
BoundaryStart ==
  /\ \/ /\ pc = "boundary" /\ start' = [start EXCEPT ![active] = Point(FALSE)] /\ Tick
        /\ Goto("bounding")
     \/ /\ pc = "bounding" /\ start' = [start EXCEPT ![active].whole = TRUE]
        /\ Goto("bounded") /\ UNCHANGED time
     \/ /\ pc = "bounded" /\ began' = 1 /\ pc' = "loop"
        /\ UNCHANGED <<start, listed, available, active, dying, time>>
  /\ UNCHANGED <<generation, log, boundary, env, load, up, faults>>

(* An executor runs and commits one observation.                             *)
Launch ==
  /\ pc = "loop" /\ units < Units
  /\ watched' = (up # 0 /\ began = 1) /\ Goto("run")
  /\ UNCHANGED <<segs, env, units, final, done, unseen, up, time, faults>>

Commit ==
  /\ pc = "run"
  /\ units' = units + 1 /\ unseen' = (unseen \/ ~watched) /\ watched' = FALSE
  /\ Goto("loop")
  /\ UNCHANGED <<segs, env, final, done, up, time, faults>>

Complete ==
  /\ pc = "loop" /\ units = Units
  /\ Goto(IF active # 0 THEN "stop" ELSE "final")
  /\ UNCHANGED <<segs, env, load, up, time, faults>>

(* telemetry_segment_stop: first the boundary, if one was started, ...       *)
Finish ==
  /\ \/ /\ pc = "stop" /\ began = 1
        /\ boundary' = [boundary EXCEPT ![active] = Point(FALSE)] /\ Tick /\ Goto("ending")
     \/ /\ pc = "ending"
        /\ boundary' = [boundary EXCEPT ![active].whole = TRUE] /\ UNCHANGED time
        /\ pc' = "group" /\ began' = 2
        /\ UNCHANGED <<listed, available, active, dying>>
     \/ pc = "stop" /\ began # 1 /\ Goto("group") /\ UNCHANGED <<boundary, time>>
  /\ UNCHANGED <<generation, log, start, env, load, up, faults>>

(* ... then the sampler, ...                                                 *)
GroupStop ==
  /\ pc = "group" /\ up # 0
  /\ \E ended, torn \in BOOLEAN : Quit(up, ended, torn)
  /\ UNCHANGED <<generation, start, boundary, env, load, shell, faults>>

(* ... and a segment that was not started leaves nothing.                    *)
Discards == began = 0

Stopped ==
  /\ pc = "group" /\ up = 0
  /\ IF Discards
     THEN /\ log' = [log EXCEPT ![active] = NoLog]
          /\ start' = [start EXCEPT ![active] = NoPoint]
          /\ boundary' = [boundary EXCEPT ![active] = NoPoint]
     ELSE UNCHANGED <<log, start, boundary>>
  /\ listed' = IF dying THEN listed ELSE listed + 1
  /\ active' = 0 /\ began' = 0 /\ pc' = IF dying THEN "off" ELSE "final"
  /\ UNCHANGED <<generation, env, load, available, dying, up, time, faults>>

(* The evidence of the workload is published.                                *)
Finalize ==
  /\ pc = "final"
  /\ final' = TRUE /\ Goto(IF available THEN "absent?" ELSE "mark")
  /\ UNCHANGED <<segs, env, units, done, watched, unseen, up, time, faults>>

(* telemetry_phase_publish: nothing is ever replaced.                        *)
Publish ==
  /\ pc = "absent?"
  /\ IF index = "absent" /\ meta = "absent" /\ Buildable
     THEN /\ envelope' = [segments |-> 1..listed, log |-> log, boundary |-> boundary,
                          status |-> Status]
          /\ Goto("pair")
     ELSE UNCHANGED envelope /\ Goto("mark")
  /\ UNCHANGED <<segs, index, meta, load, up, time, faults>>

(* publishExclusiveFiles: both are created, then written in order.           *)
PublishPair ==
  /\ pc = "pair"
  /\ \/ index = "absent" /\ index' = "empty" /\ UNCHANGED <<meta, shell>>
     \/ index # "absent" /\ meta = "absent" /\ meta' = "empty" /\ UNCHANGED <<index, shell>>
     \/ index = "empty" /\ meta = "empty" /\ index' = "whole" /\ UNCHANGED <<meta, shell>>
     \/ index = "whole" /\ meta # "absent" /\ meta' = "whole" /\ UNCHANGED index /\ Goto("mark")
  /\ UNCHANGED <<segs, envelope, load, up, time, faults>>

Mark ==
  /\ pc = "mark"
  /\ done' = TRUE /\ Goto("off")
  /\ UNCHANGED <<segs, env, units, final, watched, unseen, up, time, faults>>

-----------------------------------------------------------------------------
(* An error or a signal: the trap stops the groups, the workload's first.    *)
Die ==
  /\ pc \in {"start", "first", "boundary", "bounding", "bounded", "loop", "run", "final"}
  /\ faults < MaxFaults /\ faults' = faults + 1
  /\ pc' = IF active # 0 THEN "stop" ELSE "off"
  /\ dying' = TRUE /\ watched' = FALSE
  /\ UNCHANGED <<segs, env, units, final, done, unseen, listed, available, active, began, up,
                 time>>

(* An executor whose commit was under way may still make it.                 *)
Late ==
  /\ units' \in IF pc = "run" THEN {units, units + 1} ELSE {units}
  /\ unseen' = (unseen \/ units' # units) /\ watched' = FALSE
  /\ UNCHANGED <<final, done>>

Kill ==
  /\ pc # "off" /\ faults < MaxFaults /\ faults' = faults + 1
  /\ Late /\ Goto("off")
  /\ UNCHANGED <<segs, env, up, time>>

Reboot ==
  /\ ~done /\ faults < MaxFaults /\ faults' = faults + 1
  /\ Late /\ Goto("off")
  /\ IF up = 0 THEN UNCHANGED log
     ELSE \E ended, torn \in BOOLEAN : Ends(up, ended, torn)
  /\ up' = 0 /\ boot' = clock + 1
  /\ \E gap \in Gaps : clock' = clock + 1 + gap
  /\ UNCHANGED <<generation, start, boundary, env>>

Shell ==
  \/ Resume \/ Mint \/ Prepare \/ Recover \/ SamplerStart \/ FirstSample \/ GiveUp
  \/ BoundaryStart \/ Launch \/ Commit \/ Complete \/ Finish \/ GroupStop \/ Stopped
  \/ Finalize \/ Publish \/ PublishPair \/ Mark

Next == Shell \/ SamplerOpens \/ Sweep \/ SamplerFails \/ Reap \/ Die \/ Kill \/ Reboot

(* The shell is scheduled and started again after a failure, the sampler     *)
(* runs, and a group without its shell is taken down.                        *)
Fairness == WF_vars(Shell) /\ WF_vars(SamplerOpens) /\ WF_vars(Sweep) /\ WF_vars(Reap)

Spec == Init /\ [][Next]_vars /\ Fairness

-----------------------------------------------------------------------------
(* What is there is not what the envelope was built from.                    *)
Altered ==
  \/ ~Only(envelope.segments)
  \/ \E s \in envelope.segments :
       log[s] # envelope.log[s] \/ boundary[s] # envelope.boundary[s]

(* assessTelemetryEvidence.                                                  *)
Assessment ==
  IF Logs = {} /\ Bounds = {} /\ index = "absent" /\ meta = "absent" THEN "not-run"
  ELSE IF index # "whole" \/ meta # "whole"
  THEN IF index = "empty" \/ meta = "empty" THEN "invalid" ELSE "incomplete"
  ELSE IF Altered THEN "invalid"
  ELSE IF done THEN envelope.status ELSE "incomplete"

Published == index = "whole" /\ meta = "whole"

(* Telemetry that is read as complete covers the workload: every observation *)
(* ran between the start and the end of a session whose sampler was alive    *)
(* throughout, whatever was killed, resumed without telemetry or recovered   *)
(* after a reboot.                                                           *)
CompleteMeansCovered == Assessment = "complete" => ~unseen

(* A published envelope stays readable: its segments are all there is, with  *)
(* the bytes it was built from, although the phase may be resumed before its *)
(* marker is written and a sampler may outlive the shell.                    *)
EnvelopeReadsBack == Published => Assessment # "invalid"

(* Telemetry is descriptive: whatever becomes of it, the phase ends with its *)
(* evidence published and marked.                                            *)
Finishes == <>(done /\ final)

=============================================================================
