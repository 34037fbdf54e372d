---------------------- MODULE PinnedOrchestrationProofs ----------------------
(***************************************************************************)
(* The safety properties of the pinned orchestration, for any number of    *)
(* commands, CPUs and waves.                                               *)
(***************************************************************************)
EXTENDS PinnedOrchestration, TLAPS

-----------------------------------------------------------------------------
(* The inductive invariant. *)

CliTypes ==
  /\ cli \in [Cli -> {"new", "reading", "loop", "waiting", "rereading", "judging"} \cup Ended]
  /\ view \in [Cli -> 0..Waves]

Reports == [reason : Reasons \cup {"none", "committed"}, wave : 0..Waves]

\* The types of what the owners and the bundle are made of.
OwnerTypes ==
  /\ committed \in 0..Waves
  /\ witness \in [Wave -> Cpu \cup {None}]
  /\ own \in [Cli -> {"none", "boot", "ready", "locked", "wave", "durable", "answering", "gone"}]
  /\ left \in [Cli -> BOOLEAN]
  /\ cpu \in [Cli -> Cpu \cup {None}]
  /\ answer \in [Cli -> Reports]
  /\ record \in [Cli -> Reports]

\* The lease has one holder: a command that reads, an owner, or the supervisors
\* that an owner has left behind.
LeaseExclusive ==
  /\ \A c, d \in Cli : Owning(c) /\ Owning(d) => c = d
  /\ \A c, d \in Cli : Reading(c) /\ Reading(d) => c = d
  /\ \A c, d \in Cli : ~(Reading(c) /\ Owning(d))

\* A wave runs only on the CPU the schedule gives it, and nobody else moves the
\* prefix under it.
WavePlaced == \A c \in Cli : own[c] = "wave" => committed < Waves /\ Placed(c)

\* What an owner is about to report is as true as what it has reported.
AnswersDurable == \A c \in Cli : answer[c].wave <= committed

IInv == CliTypes /\ OwnerTypes /\ LeaseExclusive /\ WavePlaced
        /\ PlacedAsScheduled /\ AnswersDurable /\ ReportedIsDurable

-----------------------------------------------------------------------------
\* What an owner writes to its pipe is a report.
LEMMA ReportTypes == /\ NoRecord \in Reports
                     /\ \A r \in Reasons : Declines(r) \in Reports
                     /\ \A w \in 0..Waves : Commits(w) \in Reports
BY ScheduleAssumption DEF NoRecord, Declines, Commits, Reports

\* A report that is not of a commit names no wave.
LEMMA DeclinesNoWave == \A r \in Reasons : Declines(r).wave = 0
BY DEF Declines

LEMMA InitIInv == Init => IInv
BY ScheduleAssumption, ReportTypes
   DEF Init, IInv, CliTypes, OwnerTypes, LeaseExclusive, Reading, Owning, WavePlaced,
       PlacedAsScheduled, AnswersDurable, ReportedIsDurable, NoRecord, Wave

LEMMA NextIInv == IInv /\ [Next]_vars => IInv'
<1> SUFFICES ASSUME IInv, [Next]_vars PROVE IInv'
  OBVIOUS
<1>1. ASSUME NEW c \in Cli, Open(c) PROVE IInv'
  <2>1. CliTypes'
    BY ScheduleAssumption, <1>1 DEF IInv, Open, Opens, LeaseFree, Ends, bundle, command, process,
       CliTypes, OwnerTypes, Ended
  <2>2. OwnerTypes'
    BY ReportTypes, ScheduleAssumption, <1>1 DEF IInv, Open, Opens, LeaseFree, Ends, bundle,
       command, process, CliTypes, OwnerTypes, Wave
  <2>3. LeaseExclusive'
    BY ScheduleAssumption, <1>1 DEF IInv, Open, Opens, LeaseFree, Ends, bundle, command, process,
       CliTypes, OwnerTypes, LeaseExclusive, Reading, Owning, Ended
  <2>4. WavePlaced'
    BY ScheduleAssumption, <1>1 DEF IInv, Open, Opens, LeaseFree, Ends, bundle, command, process,
       OwnerTypes, WavePlaced, LeaseExclusive, Owning, Placed
  <2>5. PlacedAsScheduled'
    BY ScheduleAssumption, <1>1 DEF IInv, Open, Opens, LeaseFree, Ends, bundle, command, process,
       OwnerTypes, Wave, PlacedAsScheduled, WavePlaced, Placed
  <2>6. AnswersDurable'
    BY ScheduleAssumption, <1>1 DEF IInv, Open, Opens, LeaseFree, Ends, bundle, command, process,
       OwnerTypes, Wave, AnswersDurable, NoRecord, Commits, Reports
  <2>7. ReportedIsDurable'
    BY ScheduleAssumption, <1>1 DEF IInv, Open, Opens, LeaseFree, Ends, bundle, command, process,
       OwnerTypes, Wave, Reports, AnswersDurable, ReportedIsDurable, NoRecord
  <2>8. QED
    BY <2>1, <2>2, <2>3, <2>4, <2>5, <2>6, <2>7 DEF IInv
<1>2. ASSUME NEW c \in Cli, Read(c) PROVE IInv'
  <2>1. CliTypes'
    BY ScheduleAssumption, <1>2 DEF IInv, Read, bundle, command, process, CliTypes, OwnerTypes,
       Ended
  <2>2. OwnerTypes'
    BY ReportTypes, ScheduleAssumption, <1>2 DEF IInv, Read, bundle, command, process, CliTypes,
       OwnerTypes, Wave
  <2>3. LeaseExclusive'
    BY ScheduleAssumption, <1>2 DEF IInv, Read, bundle, command, process, CliTypes, OwnerTypes,
       LeaseExclusive, Reading, Owning, Ended
  <2>4. WavePlaced'
    BY ScheduleAssumption, <1>2 DEF IInv, Read, bundle, command, process, OwnerTypes, WavePlaced,
       LeaseExclusive, Owning, Placed
  <2>5. PlacedAsScheduled'
    BY ScheduleAssumption, <1>2 DEF IInv, Read, bundle, command, process, OwnerTypes, Wave,
       PlacedAsScheduled, WavePlaced, Placed
  <2>6. AnswersDurable'
    BY ScheduleAssumption, <1>2 DEF IInv, Read, bundle, command, process, OwnerTypes, Wave,
       AnswersDurable, NoRecord, Commits, Reports
  <2>7. ReportedIsDurable'
    BY ScheduleAssumption, <1>2 DEF IInv, Read, bundle, command, process, OwnerTypes, Wave, Reports,
       AnswersDurable, ReportedIsDurable, NoRecord
  <2>8. QED
    BY <2>1, <2>2, <2>3, <2>4, <2>5, <2>6, <2>7 DEF IInv
<1>3. ASSUME NEW c \in Cli, LoopEnds(c) PROVE IInv'
  <2>1. CliTypes'
    BY ScheduleAssumption, <1>3 DEF IInv, LoopEnds, Ends, bundle, command, process, CliTypes,
       OwnerTypes, Ended
  <2>2. OwnerTypes'
    BY ReportTypes, ScheduleAssumption, <1>3 DEF IInv, LoopEnds, Ends, bundle, command, process,
       CliTypes, OwnerTypes, Wave
  <2>3. LeaseExclusive'
    BY ZenonT(60), ScheduleAssumption, <1>3 DEF IInv, LoopEnds, Ends, bundle, command, process, CliTypes,
       OwnerTypes, LeaseExclusive, Reading, Owning, Ended
  <2>4. WavePlaced'
    BY ScheduleAssumption, <1>3 DEF IInv, LoopEnds, Ends, bundle, command, process, OwnerTypes,
       WavePlaced, LeaseExclusive, Owning, Placed
  <2>5. PlacedAsScheduled'
    BY ScheduleAssumption, <1>3 DEF IInv, LoopEnds, Ends, bundle, command, process, OwnerTypes,
       Wave, PlacedAsScheduled, WavePlaced, Placed
  <2>6. AnswersDurable'
    BY ScheduleAssumption, <1>3 DEF IInv, LoopEnds, Ends, bundle, command, process, OwnerTypes,
       Wave, AnswersDurable, NoRecord, Commits, Reports
  <2>7. ReportedIsDurable'
    BY ScheduleAssumption, <1>3 DEF IInv, LoopEnds, Ends, bundle, command, process, OwnerTypes,
       Wave, Reports, AnswersDurable, ReportedIsDurable, NoRecord
  <2>8. QED
    BY <2>1, <2>2, <2>3, <2>4, <2>5, <2>6, <2>7 DEF IInv
<1>4. ASSUME NEW c \in Cli, Spawn(c) PROVE IInv'
  <2>1. CliTypes'
    BY ScheduleAssumption, <1>4 DEF IInv, Spawn, bundle, command, process, CliTypes, OwnerTypes,
       Ended
  <2>2. OwnerTypes'
    BY ReportTypes, ScheduleAssumption, <1>4 DEF IInv, Spawn, bundle, command, process, CliTypes,
       OwnerTypes, Wave
  <2>3. LeaseExclusive'
    BY ScheduleAssumption, <1>4 DEF IInv, Spawn, bundle, command, process, CliTypes, OwnerTypes,
       LeaseExclusive, Reading, Owning, Ended
  <2>4. WavePlaced'
    BY ScheduleAssumption, <1>4 DEF IInv, Spawn, bundle, command, process, OwnerTypes, WavePlaced,
       LeaseExclusive, Owning, Placed
  <2>5. PlacedAsScheduled'
    BY ScheduleAssumption, <1>4 DEF IInv, Spawn, bundle, command, process, OwnerTypes, Wave,
       PlacedAsScheduled, WavePlaced, Placed
  <2>6. AnswersDurable'
    BY ScheduleAssumption, <1>4 DEF IInv, Spawn, bundle, command, process, OwnerTypes, Wave,
       AnswersDurable, NoRecord, Commits, Reports
  <2>7. ReportedIsDurable'
    BY ScheduleAssumption, <1>4 DEF IInv, Spawn, bundle, command, process, OwnerTypes, Wave,
       Reports, AnswersDurable, ReportedIsDurable, NoRecord
  <2>8. QED
    BY <2>1, <2>2, <2>3, <2>4, <2>5, <2>6, <2>7 DEF IInv
<1>5. ASSUME NEW c \in Cli, NoAnswer(c) PROVE IInv'
  <2>1. CliTypes'
    BY ScheduleAssumption, <1>5 DEF IInv, NoAnswer, Ends, bundle, command, process, CliTypes,
       OwnerTypes, Ended
  <2>2. OwnerTypes'
    BY ReportTypes, ScheduleAssumption, <1>5 DEF IInv, NoAnswer, Ends, bundle, command, process,
       CliTypes, OwnerTypes, Wave
  <2>3. LeaseExclusive'
    BY ScheduleAssumption, <1>5 DEF IInv, NoAnswer, Ends, bundle, command, process, CliTypes,
       OwnerTypes, LeaseExclusive, Reading, Owning, Ended
  <2>4. WavePlaced'
    BY ScheduleAssumption, <1>5 DEF IInv, NoAnswer, Ends, bundle, command, process, OwnerTypes,
       WavePlaced, LeaseExclusive, Owning, Placed
  <2>5. PlacedAsScheduled'
    BY ScheduleAssumption, <1>5 DEF IInv, NoAnswer, Ends, bundle, command, process, OwnerTypes,
       Wave, PlacedAsScheduled, WavePlaced, Placed
  <2>6. AnswersDurable'
    BY ScheduleAssumption, <1>5 DEF IInv, NoAnswer, Ends, bundle, command, process, OwnerTypes,
       Wave, AnswersDurable, NoRecord, Commits, Reports
  <2>7. ReportedIsDurable'
    BY ScheduleAssumption, <1>5 DEF IInv, NoAnswer, Ends, bundle, command, process, OwnerTypes,
       Wave, Reports, AnswersDurable, ReportedIsDurable, NoRecord
  <2>8. QED
    BY <2>1, <2>2, <2>3, <2>4, <2>5, <2>6, <2>7 DEF IInv
<1>6. ASSUME NEW c \in Cli, Reread(c) PROVE IInv'
  <2>1. CliTypes'
    BY ScheduleAssumption, <1>6 DEF IInv, Reread, Opens, LeaseFree, Ends, bundle, command, process,
       CliTypes, OwnerTypes, Ended
  <2>2. OwnerTypes'
    BY ReportTypes, ScheduleAssumption, <1>6 DEF IInv, Reread, Opens, LeaseFree, Ends, bundle,
       command, process, CliTypes, OwnerTypes, Wave
  <2>3. LeaseExclusive'
    BY ScheduleAssumption, <1>6 DEF IInv, Reread, Opens, LeaseFree, Ends, bundle, command, process,
       CliTypes, OwnerTypes, LeaseExclusive, Reading, Owning, Ended
  <2>4. WavePlaced'
    BY ScheduleAssumption, <1>6 DEF IInv, Reread, Opens, LeaseFree, Ends, bundle, command, process,
       OwnerTypes, WavePlaced, LeaseExclusive, Owning, Placed
  <2>5. PlacedAsScheduled'
    BY ScheduleAssumption, <1>6 DEF IInv, Reread, Opens, LeaseFree, Ends, bundle, command, process,
       OwnerTypes, Wave, PlacedAsScheduled, WavePlaced, Placed
  <2>6. AnswersDurable'
    BY ScheduleAssumption, <1>6 DEF IInv, Reread, Opens, LeaseFree, Ends, bundle, command, process,
       OwnerTypes, Wave, AnswersDurable, NoRecord, Commits, Reports
  <2>7. ReportedIsDurable'
    BY ScheduleAssumption, <1>6 DEF IInv, Reread, Opens, LeaseFree, Ends, bundle, command, process,
       OwnerTypes, Wave, Reports, AnswersDurable, ReportedIsDurable, NoRecord
  <2>8. QED
    BY <2>1, <2>2, <2>3, <2>4, <2>5, <2>6, <2>7 DEF IInv
<1>7. ASSUME NEW c \in Cli, Judge(c) PROVE IInv'
  <2>1. CliTypes'
    BY ScheduleAssumption, <1>7 DEF IInv, Judge, Ends, bundle, command, process, CliTypes,
       OwnerTypes, Ended
  <2>2. OwnerTypes'
    BY ReportTypes, ScheduleAssumption, <1>7 DEF IInv, Judge, Ends, bundle, command, process,
       CliTypes, OwnerTypes, Wave
  <2>3. LeaseExclusive'
    BY ZenonT(60), ScheduleAssumption, <1>7 DEF IInv, Judge, Ends, bundle, command, process, CliTypes,
       OwnerTypes, LeaseExclusive, Reading, Owning, Ended
  <2>4. WavePlaced'
    BY ScheduleAssumption, <1>7 DEF IInv, Judge, Ends, bundle, command, process, OwnerTypes,
       WavePlaced, LeaseExclusive, Owning, Placed
  <2>5. PlacedAsScheduled'
    BY ScheduleAssumption, <1>7 DEF IInv, Judge, Ends, bundle, command, process, OwnerTypes, Wave,
       PlacedAsScheduled, WavePlaced, Placed
  <2>6. AnswersDurable'
    BY ScheduleAssumption, <1>7 DEF IInv, Judge, Ends, bundle, command, process, OwnerTypes, Wave,
       AnswersDurable, NoRecord, Commits, Reports
  <2>7. ReportedIsDurable'
    BY ScheduleAssumption, <1>7 DEF IInv, Judge, Ends, bundle, command, process, OwnerTypes, Wave,
       Reports, AnswersDurable, ReportedIsDurable, NoRecord
  <2>8. QED
    BY <2>1, <2>2, <2>3, <2>4, <2>5, <2>6, <2>7 DEF IInv
<1>8. ASSUME NEW c \in Cli, Handlers(c) PROVE IInv'
  <2>1. CliTypes'
    BY ScheduleAssumption, <1>8 DEF IInv, Handlers, bundle, command, process, CliTypes, OwnerTypes,
       Ended
  <2>2. OwnerTypes'
    BY ReportTypes, ScheduleAssumption, <1>8 DEF IInv, Handlers, bundle, command, process, CliTypes,
       OwnerTypes, Wave
  <2>3. LeaseExclusive'
    BY ScheduleAssumption, <1>8 DEF IInv, Handlers, bundle, command, process, CliTypes, OwnerTypes,
       LeaseExclusive, Reading, Owning, Ended
  <2>4. WavePlaced'
    BY ScheduleAssumption, <1>8 DEF IInv, Handlers, bundle, command, process, OwnerTypes,
       WavePlaced, LeaseExclusive, Owning, Placed
  <2>5. PlacedAsScheduled'
    BY ScheduleAssumption, <1>8 DEF IInv, Handlers, bundle, command, process, OwnerTypes, Wave,
       PlacedAsScheduled, WavePlaced, Placed
  <2>6. AnswersDurable'
    BY ScheduleAssumption, <1>8 DEF IInv, Handlers, bundle, command, process, OwnerTypes, Wave,
       AnswersDurable, NoRecord, Commits, Reports
  <2>7. ReportedIsDurable'
    BY ScheduleAssumption, <1>8 DEF IInv, Handlers, bundle, command, process, OwnerTypes, Wave,
       Reports, AnswersDurable, ReportedIsDurable, NoRecord
  <2>8. QED
    BY <2>1, <2>2, <2>3, <2>4, <2>5, <2>6, <2>7 DEF IInv
<1>9. ASSUME NEW c \in Cli, Lock(c) PROVE IInv'
  <2>1. CliTypes'
    BY ScheduleAssumption, <1>9 DEF IInv, Lock, WillAnswer, LeaseFree, Reasons, bundle, command,
       process, CliTypes, OwnerTypes, Ended
  <2>2. OwnerTypes'
    BY ReportTypes, ScheduleAssumption, <1>9 DEF IInv, Lock, WillAnswer, LeaseFree, Reasons, bundle,
       command, process, CliTypes, OwnerTypes, Wave
  <2>3. LeaseExclusive'
    BY ScheduleAssumption, <1>9 DEF IInv, Lock, WillAnswer, LeaseFree, Reasons, bundle, command,
       process, CliTypes, OwnerTypes, LeaseExclusive, Reading, Owning, Ended
  <2>4. WavePlaced'
    BY ScheduleAssumption, <1>9 DEF IInv, Lock, WillAnswer, LeaseFree, Reasons, bundle, command,
       process, OwnerTypes, WavePlaced, LeaseExclusive, Owning, Placed
  <2>5. PlacedAsScheduled'
    BY ScheduleAssumption, <1>9 DEF IInv, Lock, WillAnswer, LeaseFree, Reasons, bundle, command,
       process, OwnerTypes, Wave, PlacedAsScheduled, WavePlaced, Placed
  <2>6. AnswersDurable'
    <3>1. committed' = committed /\ committed \in Nat
      BY ScheduleAssumption, <1>9 DEF IInv, OwnerTypes, Lock, bundle
    <3>2. UNCHANGED answer \/ \E r \in Reasons : answer' = [answer EXCEPT ![c] = Declines(r)]
      BY <1>9 DEF Lock, WillAnswer, Reasons
    <3>3. ASSUME NEW r \in Reasons, answer' = [answer EXCEPT ![c] = Declines(r)] PROVE AnswersDurable'
      BY <3>1, <3>3, DeclinesNoWave DEF IInv, OwnerTypes, AnswersDurable
    <3>4. QED
      BY <3>1, <3>2, <3>3 DEF IInv, AnswersDurable
  <2>7. ReportedIsDurable'
    BY ScheduleAssumption, <1>9 DEF IInv, Lock, WillAnswer, LeaseFree, Reasons, bundle, command,
       process, OwnerTypes, Wave, Reports, AnswersDurable, ReportedIsDurable, NoRecord
  <2>8. QED
    BY <2>1, <2>2, <2>3, <2>4, <2>5, <2>6, <2>7 DEF IInv
<1>10. ASSUME NEW c \in Cli, Enter(c) PROVE IInv'
  <2>1. CliTypes'
    BY ScheduleAssumption, <1>10 DEF IInv, Enter, WillAnswer, Placed, Reasons, bundle, command,
       process, CliTypes, OwnerTypes, Ended
  <2>2. OwnerTypes'
    BY ZenonT(60), ReportTypes, ScheduleAssumption, <1>10 DEF IInv, Enter, WillAnswer, Placed, Reasons, bundle,
       command, process, CliTypes, OwnerTypes, Wave
  <2>3. LeaseExclusive'
    BY ZenonT(60), ScheduleAssumption, <1>10 DEF IInv, Enter, WillAnswer, Placed, Reasons, bundle, command,
       process, CliTypes, OwnerTypes, LeaseExclusive, Reading, Owning, Ended
  <2>4. WavePlaced'
    BY ScheduleAssumption, <1>10 DEF IInv, Enter, WillAnswer, Placed, Reasons, bundle, command,
       process, OwnerTypes, WavePlaced, LeaseExclusive, Owning
  <2>5. PlacedAsScheduled'
    BY ScheduleAssumption, <1>10 DEF IInv, Enter, WillAnswer, Placed, Reasons, bundle, command,
       process, OwnerTypes, Wave, PlacedAsScheduled, WavePlaced
  <2>6. AnswersDurable'
    <3>1. committed' = committed /\ committed \in Nat
      BY ScheduleAssumption, <1>10 DEF IInv, OwnerTypes, Enter, bundle
    <3>2. UNCHANGED answer \/ \E r \in Reasons : answer' = [answer EXCEPT ![c] = Declines(r)]
      BY <1>10 DEF Enter, WillAnswer, Reasons
    <3>3. ASSUME NEW r \in Reasons, answer' = [answer EXCEPT ![c] = Declines(r)] PROVE AnswersDurable'
      BY <3>1, <3>3, DeclinesNoWave DEF IInv, OwnerTypes, AnswersDurable
    <3>4. QED
      BY <3>1, <3>2, <3>3 DEF IInv, AnswersDurable
  <2>7. ReportedIsDurable'
    BY ScheduleAssumption, <1>10 DEF IInv, Enter, WillAnswer, Placed, Reasons, bundle, command,
       process, OwnerTypes, Wave, Reports, AnswersDurable, ReportedIsDurable, NoRecord
  <2>8. QED
    BY <2>1, <2>2, <2>3, <2>4, <2>5, <2>6, <2>7 DEF IInv
<1>11. ASSUME NEW c \in Cli, Release(c) PROVE IInv'
  <2>1. CliTypes'
    BY ScheduleAssumption, <1>11 DEF IInv, Release, WillAnswer, bundle, command, process, CliTypes,
       OwnerTypes, Ended
  <2>2. OwnerTypes'
    BY ReportTypes, ScheduleAssumption, <1>11 DEF IInv, Release, WillAnswer, bundle, command,
       process, CliTypes, OwnerTypes, Wave
  <2>3. LeaseExclusive'
    BY ScheduleAssumption, <1>11 DEF IInv, Release, WillAnswer, bundle, command, process, CliTypes,
       OwnerTypes, LeaseExclusive, Reading, Owning, Ended
  <2>4. WavePlaced'
    BY ScheduleAssumption, <1>11 DEF IInv, Release, WillAnswer, bundle, command, process,
       OwnerTypes, WavePlaced, LeaseExclusive, Owning, Placed
  <2>5. PlacedAsScheduled'
    BY ScheduleAssumption, <1>11 DEF IInv, Release, WillAnswer, bundle, command, process,
       OwnerTypes, Wave, PlacedAsScheduled, WavePlaced, Placed
  <2>6. AnswersDurable'
    BY ScheduleAssumption, <1>11 DEF IInv, Release, WillAnswer, bundle, command, process,
       OwnerTypes, Wave, AnswersDurable, NoRecord, Commits, Reports
  <2>7. ReportedIsDurable'
    BY ScheduleAssumption, <1>11 DEF IInv, Release, WillAnswer, bundle, command, process,
       OwnerTypes, Wave, Reports, AnswersDurable, ReportedIsDurable, NoRecord
  <2>8. QED
    BY <2>1, <2>2, <2>3, <2>4, <2>5, <2>6, <2>7 DEF IInv
<1>12. ASSUME NEW c \in Cli, Answer(c) PROVE IInv'
  <2>1. CliTypes'
    BY ScheduleAssumption, <1>12 DEF IInv, Answer, bundle, command, process, CliTypes, OwnerTypes,
       Ended
  <2>2. OwnerTypes'
    BY ReportTypes, ScheduleAssumption, <1>12 DEF IInv, Answer, bundle, command, process, CliTypes,
       OwnerTypes, Wave
  <2>3. LeaseExclusive'
    BY ScheduleAssumption, <1>12 DEF IInv, Answer, bundle, command, process, CliTypes, OwnerTypes,
       LeaseExclusive, Reading, Owning, Ended
  <2>4. WavePlaced'
    BY ScheduleAssumption, <1>12 DEF IInv, Answer, bundle, command, process, OwnerTypes, WavePlaced,
       LeaseExclusive, Owning, Placed
  <2>5. PlacedAsScheduled'
    BY ScheduleAssumption, <1>12 DEF IInv, Answer, bundle, command, process, OwnerTypes, Wave,
       PlacedAsScheduled, WavePlaced, Placed
  <2>6. AnswersDurable'
    BY ScheduleAssumption, <1>12 DEF IInv, Answer, bundle, command, process, OwnerTypes, Wave,
       AnswersDurable, NoRecord, Commits, Reports
  <2>7. ReportedIsDurable'
    BY ScheduleAssumption, <1>12 DEF IInv, Answer, bundle, command, process, OwnerTypes, Wave,
       Reports, AnswersDurable, ReportedIsDurable, NoRecord
  <2>8. QED
    BY <2>1, <2>2, <2>3, <2>4, <2>5, <2>6, <2>7 DEF IInv
<1>13. ASSUME NEW c \in Cli, SupervisorsExit(c) PROVE IInv'
  <2>1. CliTypes'
    BY ScheduleAssumption, <1>13 DEF IInv, SupervisorsExit, bundle, command, process, CliTypes,
       OwnerTypes, Ended
  <2>2. OwnerTypes'
    BY ReportTypes, ScheduleAssumption, <1>13 DEF IInv, SupervisorsExit, bundle, command, process,
       CliTypes, OwnerTypes, Wave
  <2>3. LeaseExclusive'
    BY ScheduleAssumption, <1>13 DEF IInv, SupervisorsExit, bundle, command, process, CliTypes,
       OwnerTypes, LeaseExclusive, Reading, Owning, Ended
  <2>4. WavePlaced'
    BY ScheduleAssumption, <1>13 DEF IInv, SupervisorsExit, bundle, command, process, OwnerTypes,
       WavePlaced, LeaseExclusive, Owning, Placed
  <2>5. PlacedAsScheduled'
    BY ScheduleAssumption, <1>13 DEF IInv, SupervisorsExit, bundle, command, process, OwnerTypes,
       Wave, PlacedAsScheduled, WavePlaced, Placed
  <2>6. AnswersDurable'
    BY ScheduleAssumption, <1>13 DEF IInv, SupervisorsExit, bundle, command, process, OwnerTypes,
       Wave, AnswersDurable, NoRecord, Commits, Reports
  <2>7. ReportedIsDurable'
    BY ScheduleAssumption, <1>13 DEF IInv, SupervisorsExit, bundle, command, process, OwnerTypes,
       Wave, Reports, AnswersDurable, ReportedIsDurable, NoRecord
  <2>8. QED
    BY <2>1, <2>2, <2>3, <2>4, <2>5, <2>6, <2>7 DEF IInv
<1>14. ASSUME NEW c \in Cli, Commit(c) PROVE IInv'
  <2>1. CliTypes'
    BY ScheduleAssumption, <1>14 DEF IInv, Commit, WavePlaced, bundle, command, process, CliTypes,
       OwnerTypes, Ended
  <2>2. OwnerTypes'
    <3>1. committed' \in 0..Waves
      BY ScheduleAssumption, <1>14 DEF IInv, OwnerTypes, WavePlaced, Commit
    <3>2. witness' \in [Wave -> Cpu \cup {None}]
      BY <1>14 DEF IInv, OwnerTypes, Commit
    <3>3. own' \in [Cli -> {"none", "boot", "ready", "locked", "wave", "durable", "answering",
                            "gone"}]
      BY <1>14 DEF IInv, OwnerTypes, Commit
    <3>4. /\ left' \in [Cli -> BOOLEAN] /\ cpu' \in [Cli -> Cpu \cup {None}]
          /\ answer' \in [Cli -> Reports] /\ record' \in [Cli -> Reports]
      BY <1>14 DEF IInv, OwnerTypes, Commit, process
    <3>5. QED
      BY <3>1, <3>2, <3>3, <3>4 DEF OwnerTypes
  <2>3. LeaseExclusive'
    BY ScheduleAssumption, <1>14 DEF IInv, Commit, WavePlaced, bundle, command, process, CliTypes,
       OwnerTypes, LeaseExclusive, Reading, Owning, Ended
  <2>4. WavePlaced'
    BY ScheduleAssumption, <1>14 DEF IInv, Commit, WavePlaced, bundle, command, process, OwnerTypes,
       LeaseExclusive, Owning, Placed
  <2>5. PlacedAsScheduled'
    BY ScheduleAssumption, <1>14 DEF IInv, Commit, WavePlaced, bundle, command, process, OwnerTypes,
       Wave, PlacedAsScheduled, Placed
  <2>6. AnswersDurable'
    BY ScheduleAssumption, <1>14 DEF IInv, Commit, WavePlaced, bundle, command, process, OwnerTypes,
       Wave, AnswersDurable, NoRecord, Commits, Reports
  <2>7. ReportedIsDurable'
    BY ScheduleAssumption, <1>14 DEF IInv, Commit, WavePlaced, bundle, command, process, OwnerTypes,
       Wave, Reports, AnswersDurable, ReportedIsDurable, NoRecord
  <2>8. QED
    BY <2>1, <2>2, <2>3, <2>4, <2>5, <2>6, <2>7 DEF IInv
<1>15. ASSUME NEW c \in Cli, WaveFails(c) PROVE IInv'
  <2>1. CliTypes'
    BY ScheduleAssumption, <1>15 DEF IInv, WaveFails, WillAnswer, Reasons, Declines, bundle,
       command, process, CliTypes, OwnerTypes, Ended
  <2>2. OwnerTypes'
    BY ReportTypes, ScheduleAssumption, <1>15 DEF IInv, WaveFails, WillAnswer, Reasons, bundle,
       command, process, CliTypes, OwnerTypes, Wave
  <2>3. LeaseExclusive'
    BY ScheduleAssumption, <1>15 DEF IInv, WaveFails, WillAnswer, Reasons, Declines, bundle,
       command, process, CliTypes, OwnerTypes, LeaseExclusive, Reading, Owning, Ended
  <2>4. WavePlaced'
    BY ScheduleAssumption, <1>15 DEF IInv, WaveFails, WillAnswer, Reasons, Declines, bundle,
       command, process, OwnerTypes, WavePlaced, LeaseExclusive, Owning, Placed
  <2>5. PlacedAsScheduled'
    BY ScheduleAssumption, <1>15 DEF IInv, WaveFails, WillAnswer, Reasons, Declines, bundle,
       command, process, OwnerTypes, Wave, PlacedAsScheduled, WavePlaced, Placed
  <2>6. AnswersDurable'
    BY ScheduleAssumption, <1>15 DEF IInv, WaveFails, WillAnswer, Reasons, Declines, bundle,
       command, process, OwnerTypes, Wave, AnswersDurable, NoRecord, Commits, Reports
  <2>7. ReportedIsDurable'
    BY ScheduleAssumption, <1>15 DEF IInv, WaveFails, WillAnswer, Reasons, Declines, bundle,
       command, process, OwnerTypes, Wave, Reports, AnswersDurable, ReportedIsDurable, NoRecord
  <2>8. QED
    BY <2>1, <2>2, <2>3, <2>4, <2>5, <2>6, <2>7 DEF IInv
<1>16. ASSUME NEW c \in Cli, Signal(c) PROVE IInv'
  <2>1. CliTypes'
    BY ScheduleAssumption, <1>16 DEF IInv, Signal, bundle, command, process, CliTypes, OwnerTypes,
       Ended
  <2>2. OwnerTypes'
    BY ReportTypes, ScheduleAssumption, <1>16 DEF IInv, Signal, bundle, command, process, CliTypes,
       OwnerTypes, Wave
  <2>3. LeaseExclusive'
    BY ScheduleAssumption, <1>16 DEF IInv, Signal, bundle, command, process, CliTypes, OwnerTypes,
       LeaseExclusive, Reading, Owning, Ended
  <2>4. WavePlaced'
    BY ScheduleAssumption, <1>16 DEF IInv, Signal, bundle, command, process, OwnerTypes, WavePlaced,
       LeaseExclusive, Owning, Placed
  <2>5. PlacedAsScheduled'
    BY ScheduleAssumption, <1>16 DEF IInv, Signal, bundle, command, process, OwnerTypes, Wave,
       PlacedAsScheduled, WavePlaced, Placed
  <2>6. AnswersDurable'
    BY ScheduleAssumption, <1>16 DEF IInv, Signal, bundle, command, process, OwnerTypes, Wave,
       AnswersDurable, NoRecord, Commits, Reports
  <2>7. ReportedIsDurable'
    BY ScheduleAssumption, <1>16 DEF IInv, Signal, bundle, command, process, OwnerTypes, Wave,
       Reports, AnswersDurable, ReportedIsDurable, NoRecord
  <2>8. QED
    BY <2>1, <2>2, <2>3, <2>4, <2>5, <2>6, <2>7 DEF IInv
<1>17. ASSUME NEW c \in Cli, Lost(c) PROVE IInv'
  <2>1. CliTypes'
    BY ScheduleAssumption, <1>17 DEF IInv, Lost, bundle, command, process, CliTypes, OwnerTypes,
       Ended
  <2>2. OwnerTypes'
    BY ReportTypes, ScheduleAssumption, <1>17 DEF IInv, Lost, bundle, command, process, CliTypes,
       OwnerTypes, Wave
  <2>3. LeaseExclusive'
    BY ScheduleAssumption, <1>17 DEF IInv, Lost, bundle, command, process, CliTypes, OwnerTypes,
       LeaseExclusive, Reading, Owning, Ended
  <2>4. WavePlaced'
    BY ScheduleAssumption, <1>17 DEF IInv, Lost, bundle, command, process, OwnerTypes, WavePlaced,
       LeaseExclusive, Owning, Placed
  <2>5. PlacedAsScheduled'
    BY ScheduleAssumption, <1>17 DEF IInv, Lost, bundle, command, process, OwnerTypes, Wave,
       PlacedAsScheduled, WavePlaced, Placed
  <2>6. AnswersDurable'
    BY ScheduleAssumption, <1>17 DEF IInv, Lost, bundle, command, process, OwnerTypes, Wave,
       AnswersDurable, NoRecord, Commits, Reports
  <2>7. ReportedIsDurable'
    BY ScheduleAssumption, <1>17 DEF IInv, Lost, bundle, command, process, OwnerTypes, Wave,
       Reports, AnswersDurable, ReportedIsDurable, NoRecord
  <2>8. QED
    BY <2>1, <2>2, <2>3, <2>4, <2>5, <2>6, <2>7 DEF IInv
<1>18. ASSUME NEW c \in Cli, Killed(c) PROVE IInv'
  <2>1. CliTypes'
    BY ScheduleAssumption, <1>18 DEF IInv, Killed, bundle, command, process, CliTypes, OwnerTypes,
       Ended
  <2>2. OwnerTypes'
    BY ReportTypes, ScheduleAssumption, <1>18 DEF IInv, Killed, bundle, command, process, CliTypes,
       OwnerTypes, Wave
  <2>3. LeaseExclusive'
    BY ScheduleAssumption, <1>18 DEF IInv, Killed, bundle, command, process, CliTypes, OwnerTypes,
       LeaseExclusive, Reading, Owning, Ended
  <2>4. WavePlaced'
    BY ScheduleAssumption, <1>18 DEF IInv, Killed, bundle, command, process, OwnerTypes, WavePlaced,
       LeaseExclusive, Owning, Placed
  <2>5. PlacedAsScheduled'
    BY ScheduleAssumption, <1>18 DEF IInv, Killed, bundle, command, process, OwnerTypes, Wave,
       PlacedAsScheduled, WavePlaced, Placed
  <2>6. AnswersDurable'
    BY ScheduleAssumption, <1>18 DEF IInv, Killed, bundle, command, process, OwnerTypes, Wave,
       AnswersDurable, NoRecord, Commits, Reports
  <2>7. ReportedIsDurable'
    BY ScheduleAssumption, <1>18 DEF IInv, Killed, bundle, command, process, OwnerTypes, Wave,
       Reports, AnswersDurable, ReportedIsDurable, NoRecord
  <2>8. QED
    BY <2>1, <2>2, <2>3, <2>4, <2>5, <2>6, <2>7 DEF IInv
<1>19. CASE UNCHANGED vars
  BY <1>19 DEF vars, command, bundle, process, IInv, CliTypes, OwnerTypes, LeaseExclusive, Reading,
     Owning, WavePlaced, Placed, PlacedAsScheduled, AnswersDurable, ReportedIsDurable
<1>20. QED
  BY <1>1, <1>2, <1>3, <1>4, <1>5, <1>6, <1>7, <1>8, <1>9, <1>10, <1>11, <1>12, <1>13, <1>14, <1>15, <1>16, <1>17, <1>18, <1>19 DEF Next, CliStep, OwnerStep

\* The inductive invariant holds in every reachable state.
THEOREM OrchestrationInvariant == Spec => []IInv
BY InitIInv, NextIInv, PTL DEF Spec

-----------------------------------------------------------------------------
(* What the invariant gives. *)

\* Every committed wave ran on its scheduled controller CPU.
THEOREM WavesArePlaced == Spec => []PlacedAsScheduled
BY OrchestrationInvariant, PTL DEF IInv

\* An owner reports a commit only when the bundle has it.
THEOREM ReportsAreDurable == Spec => []ReportedIsDurable
BY OrchestrationInvariant, PTL DEF IInv

\* Two waves of one bundle never run at the same time.
THEOREM WavesExclude == Spec => []WavesNeverOverlap
<1>1. IInv => WavesNeverOverlap
  BY DEF IInv, LeaseExclusive, Owning, WavesNeverOverlap
<1>2. QED
  BY <1>1, OrchestrationInvariant, PTL
==============================================================================
