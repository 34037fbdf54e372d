------------------------ MODULE PinnedOrchestration ------------------------
(***************************************************************************)
(* The pinned-concurrent phase as the CLI runs it: for every wave, a short *)
(* lived owner process under the wave's controller CPU                     *)
(* (runPinnedBundle of cli.mjs, pinned-wave-client.mjs,                    *)
(* pinned-wave-owner.mjs and runOneSchema3PinnedConcurrentWave).           *)
(*                                                                         *)
(* The CLI reads the bundle under a lease of its own, gives it back, and   *)
(* hands the CPU of the wave it expects to the owner; the owner takes the  *)
(* lease, reads again, gives it back and answers with one record on a      *)
(* pipe.  Nobody waits for the lease.  Either process may be lost at any   *)
(* time, and an owner survives its CLI.  The wave itself is one step (see  *)
(* ConcurrentWave), its breadcrumb is in SchemaBundle.                     *)
(***************************************************************************)
EXTENDS Naturals

CONSTANTS Cli,             \* invocations of the command
          Cpu,
          Waves,           \* number of waves in the schedule
          Controller,      \* controller CPU of each wave
          None

ASSUME ScheduleAssumption == /\ Waves \in Nat \ {0}
                             /\ Controller \in [1..Waves -> Cpu]
                             /\ None \notin Cpu

VARIABLES committed,       \* waves in the bundle's prefix
          witness,         \* controller CPU recorded in each wave's envelope
          cli,             \* what each command is doing
          view,            \* committed waves at its last read
          aborted,         \* its forwarding signal
          exit,            \* how it ended
          own,             \* its owner process
          left,            \* supervisors of that owner are still there
          cpu,             \* the CPU that owner is restricted to
          termed,          \* the owner's own signal was aborted
          answer,          \* what the owner is about to report
          record           \* what it wrote to the pipe

bundle  == <<committed, witness>>
command == <<cli, view, aborted, exit>>
process == <<own, left, cpu, termed, answer, record>>
vars    == <<bundle, command, process>>

Wave    == 1..Waves
Reasons == {"complete", "controller-invalid", "operational-invalid", "busy"}
Ended   == {"ended", "lost"}

NoRecord     == [reason |-> "none", wave |-> 0]
Commits(w)   == [reason |-> "committed", wave |-> w]
Declines(r)  == [reason |-> r, wave |-> 0]

\* Reads of the command hold the lease, the owner holds it around the wave, and
\* its supervisors have the descriptor for as long as they live.
Reading(c) == cli[c] \in {"reading", "rereading"}
Owning(c)  == own[c] \in {"locked", "wave", "durable"} \/ left[c]

LeaseFree == \A c \in Cli : ~Reading(c) /\ ~Owning(c)

Records == {NoRecord} \cup {Commits(w) : w \in Wave} \cup {Declines(r) : r \in Reasons}

TypeOK ==
  /\ committed \in 0..Waves
  /\ witness \in [Wave -> Cpu \cup {None}]
  /\ cli \in [Cli -> {"new", "reading", "loop", "waiting", "rereading", "judging"} \cup Ended]
  /\ view \in [Cli -> 0..Waves]
  /\ aborted \in [Cli -> BOOLEAN]
  /\ exit \in [Cli -> {"none", "complete", "signal", "busy", "failed"}]
  /\ own \in [Cli -> {"none", "boot", "ready", "locked", "wave", "durable", "answering", "gone"}]
  /\ left \in [Cli -> BOOLEAN]
  /\ cpu \in [Cli -> Cpu \cup {None}]
  /\ termed \in [Cli -> BOOLEAN]
  /\ answer \in [Cli -> Records]
  /\ record \in [Cli -> Records]
  /\ \A c \in Cli : view[c] <= committed /\ (exit[c] # "none" <=> cli[c] = "ended")

Init ==
  /\ committed = 0 /\ witness = [w \in Wave |-> None]
  /\ cli = [c \in Cli |-> "new"] /\ view = [c \in Cli |-> 0]
  /\ aborted = [c \in Cli |-> FALSE] /\ exit = [c \in Cli |-> "none"]
  /\ own = [c \in Cli |-> "none"] /\ cpu = [c \in Cli |-> None]
  /\ left = [c \in Cli |-> FALSE] /\ termed = [c \in Cli |-> FALSE]
  /\ answer = [c \in Cli |-> NoRecord] /\ record = [c \in Cli |-> NoRecord]

-----------------------------------------------------------------------------
(* The command. *)

Ends(c, how) == /\ cli' = [cli EXCEPT ![c] = "ended"]
                /\ exit' = [exit EXCEPT ![c] = how]

\* readSchema3Bundle: its lease is refused or held while the stores are read.
Opens(c, reading) == IF LeaseFree THEN cli' = [cli EXCEPT ![c] = reading] /\ UNCHANGED exit
                                  ELSE Ends(c, "busy")

Open(c) ==
  /\ cli[c] = "new"
  /\ Opens(c, "reading")
  /\ UNCHANGED <<bundle, view, aborted, process>>

Read(c) ==
  /\ Reading(c)
  /\ view' = [view EXCEPT ![c] = committed]
  /\ cli' = [cli EXCEPT ![c] = IF @ = "reading" THEN "loop" ELSE "judging"]
  /\ UNCHANGED <<bundle, aborted, exit, process>>

LoopEnds(c) ==
  /\ cli[c] = "loop"
  /\ \/ view[c] = Waves /\ Ends(c, "complete")
     \/ view[c] < Waves /\ aborted[c] /\ Ends(c, "signal")
  /\ UNCHANGED <<bundle, view, aborted, process>>

\* The owner gets the controller CPU of the wave this command believes is next.
Spawn(c) ==
  /\ cli[c] = "loop" /\ view[c] < Waves /\ ~aborted[c]
  /\ cli' = [cli EXCEPT ![c] = "waiting"]
  /\ own' = [own EXCEPT ![c] = "boot"]
  /\ cpu' = [cpu EXCEPT ![c] = Controller[view[c] + 1]]
  /\ termed' = [termed EXCEPT ![c] = FALSE]
  /\ record' = [record EXCEPT ![c] = NoRecord]
  /\ UNCHANGED <<bundle, view, aborted, exit, left, answer>>

\* SIGINT or SIGTERM, forwarded to an owner: one that has not installed its
\* handlers yet is killed, another cancels its attempts.
Signal(c) ==
  /\ cli[c] \notin Ended /\ ~aborted[c]
  /\ aborted' = [aborted EXCEPT ![c] = TRUE]
  /\ own' = [own EXCEPT ![c] = IF @ = "boot" THEN "gone" ELSE @]
  /\ termed' = [termed EXCEPT ![c] = own[c] \in {"ready", "locked", "wave", "durable"}]
  /\ UNCHANGED <<bundle, cli, view, exit, left, cpu, answer, record>>

\* The owner has gone and its pipe is closed.  Without a record the client fails.
Closed(c) == own[c] = "gone"

\* Mutant: waits for a record.
NoAnswerAborted(c) ==
  /\ cli[c] = "waiting" /\ Closed(c) /\ record[c] = NoRecord /\ aborted[c]
  /\ Ends(c, "signal")
  /\ UNCHANGED <<bundle, view, aborted, process>>

NoAnswer(c) ==
  /\ cli[c] = "waiting" /\ Closed(c) /\ record[c] = NoRecord
  /\ Ends(c, IF aborted[c] THEN "signal" ELSE "failed")
  /\ UNCHANGED <<bundle, view, aborted, process>>

Reread(c) ==
  /\ cli[c] = "waiting" /\ Closed(c) /\ record[c] # NoRecord
  /\ Opens(c, "rereading")
  /\ UNCHANGED <<bundle, view, aborted, process>>

\* A record that claims a commit the bundle does not have is an error.
Reported(c) == record[c].wave > 0 /\ record[c].wave <= view[c]

Judge(c) ==
  /\ cli[c] = "judging"
  /\ \/ aborted[c] /\ Ends(c, "signal")
     \/ /\ ~aborted[c]
        /\ Reported(c) \/ (record[c].reason = "complete" /\ view[c] = Waves)
        /\ cli' = [cli EXCEPT ![c] = "loop"] /\ UNCHANGED exit
     \/ /\ ~aborted[c] /\ ~Reported(c)
        /\ ~(record[c].reason = "complete" /\ view[c] = Waves)
        /\ Ends(c, IF record[c].reason = "busy" THEN "busy" ELSE "failed")
  /\ UNCHANGED <<bundle, view, aborted, process>>

\* A hard loss of the CLI: its owner goes on.
Lost(c) ==
  /\ cli[c] \notin Ended
  /\ cli' = [cli EXCEPT ![c] = "lost"]
  /\ UNCHANGED <<bundle, view, aborted, exit, process>>

-----------------------------------------------------------------------------
(* The owner process. *)

Handlers(c) ==
  /\ own[c] = "boot"
  /\ own' = [own EXCEPT ![c] = "ready"]
  /\ UNCHANGED <<bundle, command, left, cpu, termed, answer, record>>

\* The lease is given back before the record is written.
WillAnswer(c, r) == /\ answer' = [answer EXCEPT ![c] = r]
                    /\ own' = [own EXCEPT ![c] = "answering"]

\* Mutant: takes a lease that the supervisors of a lost owner still hold.
LockEarly(c) ==
  /\ own[c] = "ready"
  /\ IF \A d \in Cli : ~Reading(d) /\ own[d] \notin {"locked", "wave", "durable"}
       THEN own' = [own EXCEPT ![c] = "locked"] /\ UNCHANGED answer
       ELSE WillAnswer(c, Declines("busy"))
  /\ UNCHANGED <<bundle, command, left, cpu, termed, record>>

\* The owner does not wait for the lease.
Lock(c) ==
  /\ own[c] = "ready"
  /\ IF LeaseFree THEN own' = [own EXCEPT ![c] = "locked"] /\ UNCHANGED answer
                  ELSE WillAnswer(c, Declines("busy"))
  /\ UNCHANGED <<bundle, command, left, cpu, termed, record>>

TrustPlaced(c) == TRUE         \* Mutant: trusts the command that spawned it.

\* readControllerCpuList against the wave that is really next.
Placed(c) == cpu[c] = Controller[committed + 1]

Enter(c) ==
  /\ own[c] = "locked"
  /\ IF committed = Waves   THEN WillAnswer(c, Declines("complete"))
     ELSE IF ~Placed(c)     THEN WillAnswer(c, Declines("controller-invalid"))
     ELSE own' = [own EXCEPT ![c] = "wave"] /\ UNCHANGED answer
  /\ UNCHANGED <<bundle, command, left, cpu, termed, record>>

\* Mutant: reports the wave before it is durable.
AnswerFirst(c) ==
  /\ own[c] = "wave"
  /\ WillAnswer(c, Commits(committed + 1))
  /\ UNCHANGED <<bundle, command, left, cpu, termed, record>>

\* Every attempt was valid.  A signal that comes after the attempts have ended
\* changes nothing.
Commit(c) ==
  /\ own[c] = "wave"
  /\ committed' = committed + 1
  /\ witness' = [witness EXCEPT ![committed + 1] = cpu[c]]
  /\ own' = [own EXCEPT ![c] = "durable"]
  /\ UNCHANGED <<command, left, cpu, termed, answer, record>>

Release(c) ==
  /\ own[c] = "durable"
  /\ WillAnswer(c, Commits(committed))
  /\ UNCHANGED <<bundle, command, left, cpu, termed, record>>

\* Its cleanup may have been incomplete: then a supervisor is still there.
WaveFails(c) ==
  /\ own[c] = "wave"
  /\ WillAnswer(c, Declines("operational-invalid"))
  /\ \E l \in BOOLEAN : left' = [left EXCEPT ![c] = l]
  /\ UNCHANGED <<bundle, command, cpu, termed, record>>

Answer(c) ==
  /\ own[c] = "answering"
  /\ record' = [record EXCEPT ![c] = answer[c]]
  /\ own' = [own EXCEPT ![c] = "gone"]
  /\ UNCHANGED <<bundle, command, left, cpu, termed, answer>>

\* The owner is killed, by a second signal or by anything else.
Killed(c) ==
  /\ own[c] \notin {"none", "gone"}
  /\ own' = [own EXCEPT ![c] = "gone"]
  /\ left' = [left EXCEPT ![c] = @ \/ own[c] = "wave"]
  /\ UNCHANGED <<bundle, command, cpu, termed, answer, record>>

\* They notice that their owner has gone, see AttemptLifecycle.
SupervisorsExit(c) ==
  /\ left[c] /\ own[c] = "gone"
  /\ left' = [left EXCEPT ![c] = FALSE]
  /\ UNCHANGED <<bundle, command, own, cpu, termed, answer, record>>

-----------------------------------------------------------------------------
CliStep(c) == Open(c) \/ Read(c) \/ LoopEnds(c) \/ Spawn(c) \/ NoAnswer(c) \/ Reread(c) \/ Judge(c)

\* The wave of an owner that was told to stop ends; another may never end.
OwnerStep(c) == Handlers(c) \/ Lock(c) \/ Enter(c) \/ Release(c) \/ Answer(c) \/ SupervisorsExit(c)

Next == \E c \in Cli : \/ CliStep(c) \/ OwnerStep(c)
                       \/ Commit(c) \/ WaveFails(c)
                       \/ Signal(c) \/ Lost(c) \/ Killed(c)

Spec == Init /\ [][Next]_vars

FairSpec == /\ Spec
            /\ \A c \in Cli : /\ WF_vars(CliStep(c))
                              /\ WF_vars(OwnerStep(c))
                              /\ WF_vars(termed[c] /\ (Commit(c) \/ WaveFails(c)))

-----------------------------------------------------------------------------
(* Properties. *)

\* Every committed wave was coordinated on its scheduled controller CPU, though
\* the CPU was chosen from a view that another command may have made stale.
PlacedAsScheduled == \A w \in 1..committed : witness[w] = Controller[w]

\* A record that reports a commit is never ahead of the bundle, so the check
\* for a missing commit never fires.
ReportedIsDurable == \A c \in Cli : record[c].wave <= committed

\* No two waves of one bundle run at the same time, those of lost owners included.
WavesNeverOverlap ==
  \A c, d \in Cli : (own[c] = "wave" \/ left[c]) /\ (own[d] = "wave" \/ left[d]) => c = d

\* A command that was signalled ends, even if its wave would never have ended,
\* and no command waits for a record that its owner can no longer write.
NoCommandHangs ==
  \A c \in Cli : /\ aborted[c] ~> (cli[c] \in Ended)
                 /\ (cli[c] = "waiting" /\ Closed(c)) ~> (cli[c] # "waiting")
=============================================================================
