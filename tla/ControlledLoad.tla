--------------------------- MODULE ControlledLoad ---------------------------
(***************************************************************************)
(* The controlled-load A-B-A session (controlled-load-session.mjs) and the *)
(* set of managed workers that loads the other CPUs during its B leg       *)
(* (controlled-load-workers.mjs).                                          *)
(*                                                                         *)
(* A worker is a managed run of an auxiliary workload; AttemptLifecycle    *)
(* has that run in detail.  Here it is its terminal cause, whether it      *)
(* reported readiness and whether its cleanup was complete, which means    *)
(* that nothing of it is left.  A measured attempt is valid or not.        *)
(* Handlers of the owner's event loop are steps, and so are the deaths of  *)
(* processes, which the owner only learns of later.                        *)
(***************************************************************************)
EXTENDS Naturals

CONSTANTS Worker,        \* the CPUs of the worker set
          PerLeg         \* attemptsPerLeg of the manifest

ASSUME ScheduleAssumption == PerLeg \in Nat \ {0}

VARIABLES stage,         \* what the session is doing
          done,          \* valid attempts of the current leg
          measuring,     \* an attempt of the leg is running
          abortedAt,     \* the stage the external signal aborted in
          set,           \* the worker set's state
          failure,       \* its failureCode is not null
          runner,        \* the managed runner of each worker
          proc,          \* the processes of each worker
          cause,         \* the terminal cause its runner chose
          ready,         \* it reported readiness
          clean,         \* it returned with a complete cleanup
          lapsed         \* history: B measured without the full load

session == <<stage, done, measuring>>
worker  == <<runner, proc, cause, ready, clean>>
vars    == <<session, abortedAt, set, failure, worker, lapsed>>

Legs    == {"a1", "b", "a2"}
Over    == {"committed", "failed"}
Runs    == {"live", "orphan"}           \* a workload is on the CPU
Aborted == abortedAt # "no"

TypeOK ==
  /\ stage \in Legs \cup Over \cup
       {"starting", "start-failed", "warmup", "stopping", "invalid-stop", "recovery"}
  /\ done \in 0..PerLeg
  /\ measuring \in BOOLEAN
  /\ abortedAt \in Legs \cup {"no", "last", "starting", "start-failed", "warmup",
                              "stopping", "invalid-stop", "recovery"}
  /\ set \in {"none", "starting", "running", "invalid", "stopping", "stopped"}
  /\ failure \in BOOLEAN
  /\ runner \in [Worker -> {"idle", "up", "returned"}]
  /\ proc \in [Worker -> {"none", "live", "orphan", "dead"}]
  /\ cause \in [Worker -> {"none", "cancel", "early"}]
  /\ ready \in [Worker -> BOOLEAN]
  /\ clean \in [Worker -> BOOLEAN]
  /\ lapsed \in BOOLEAN
  /\ stage \in {"warmup", "b"} => set \in {"running", "invalid"}

Init ==
  /\ stage = "a1" /\ done = 0 /\ measuring = FALSE
  /\ abortedAt = "no" /\ set = "none" /\ failure = FALSE
  /\ runner = [w \in Worker |-> "idle"]
  /\ proc = [w \in Worker |-> "none"]
  /\ cause = [w \in Worker |-> "none"]
  /\ ready = [w \in Worker |-> FALSE]
  /\ clean = [w \in Worker |-> FALSE]
  /\ lapsed = FALSE

-----------------------------------------------------------------------------
(* The worker set. *)

\* abort() runs the runner's listener at once; a chosen cause is final.
AbortAll == cause' = [w \in Worker |-> IF cause[w] = "none" THEN "cancel" ELSE cause[w]]

Invalidate == /\ failure' = TRUE
              /\ set' = IF set \in {"stopping", "stopped"} THEN set ELSE "invalid"
              /\ AbortAll

AllReturned == \A w \in Worker : runner[w] = "returned"

FirstReady == \A w \in Worker : ready[w]

\* worker.first: ready, or finished before it was.
FirstKnown == \A w \in Worker : ready[w] \/ runner[w] = "returned"

\* Mutant: trusts the set's state, which lags behind the processes.
VerifiedByState == set = "running"

\* verify(): the set runs, and every worker is the process of the start evidence.
Verified == set = "running" /\ \A w \in Worker : proc[w] = "live"

\* Mutant: does not look at the cleanup.
ValidCancel(w) == ready[w] /\ cause[w] = "cancel"

ValidStop(w) == ready[w] /\ cause[w] = "cancel" /\ clean[w]

\* stop(): an invalid set stays invalid until it has stopped.
StopSet == /\ set' = IF set = "invalid" THEN set ELSE "stopping"
           /\ AbortAll
           /\ UNCHANGED failure

-----------------------------------------------------------------------------
(* Workers. *)

Alive(w) == set # "none" /\ runner[w] # "returned"

Launch(w) ==
  /\ Alive(w) /\ runner[w] = "idle" /\ cause[w] = "none"
  /\ \/ /\ runner' = [runner EXCEPT ![w] = "up"]
        /\ proc' = [proc EXCEPT ![w] = "live"]
        /\ UNCHANGED cause
     \/ /\ cause' = [cause EXCEPT ![w] = "early"]
        /\ UNCHANGED <<runner, proc>>
  /\ UNCHANGED <<session, abortedAt, set, failure, ready, clean>>

\* workload-started reaches the runner, which reports a live start only.
Announce(w) ==
  /\ runner[w] = "up" /\ ~ready[w] /\ proc[w] \in Runs
  /\ ready' = [ready EXCEPT ![w] = TRUE]
  /\ UNCHANGED <<session, abortedAt, set, failure, runner, proc, cause, clean>>

\* A workload may end at any time, and its supervisor may be killed.
Die(w) ==
  /\ \/ proc[w] \in Runs /\ proc' = [proc EXCEPT ![w] = "dead"]
     \/ proc[w] = "live" /\ proc' = [proc EXCEPT ![w] = "orphan"]
  /\ UNCHANGED <<session, abortedAt, set, failure, runner, cause, ready, clean>>

\* The runner learns of an exit, or its own window ends.
Ends(w) ==
  /\ runner[w] = "up" /\ cause[w] = "none"
  /\ cause' = [cause EXCEPT ![w] = "early"]
  /\ UNCHANGED <<session, abortedAt, set, failure, runner, proc, ready, clean>>

Notices(w) == proc[w] # "live" /\ Ends(w)

\* The runner returns, and the handler on its completion invalidates the set
\* unless a stop was asked for (then the set is no longer in these states).
Return(w) ==
  /\ Alive(w) /\ cause[w] # "none"
  /\ runner' = [runner EXCEPT ![w] = "returned"]
  /\ \/ /\ clean' = [clean EXCEPT ![w] = TRUE]
        /\ proc' = [proc EXCEPT ![w] = IF @ = "none" THEN @ ELSE "dead"]
     \/ UNCHANGED <<clean, proc>>
  /\ IF set \in {"starting", "running"} THEN Invalidate ELSE UNCHANGED <<set, failure, cause>>
  /\ UNCHANGED <<session, abortedAt, ready>>

-----------------------------------------------------------------------------
(* The session. *)

Goto(s) == stage' = s /\ done' = 0 /\ measuring' = FALSE

\* Mutant: looks at the signal before the leg only.
BeginUnasked ==
  /\ stage \in Legs /\ ~measuring /\ done < PerLeg /\ (Aborted => done > 0)
  /\ measuring' = TRUE
  /\ UNCHANGED <<stage, done, abortedAt, set, failure, worker>>

BeginAttempt ==
  /\ stage \in Legs /\ ~measuring /\ done < PerLeg /\ ~Aborted
  /\ measuring' = TRUE
  /\ UNCHANGED <<stage, done, abortedAt, set, failure, worker>>

EndAttempt ==
  /\ measuring
  /\ measuring' = FALSE /\ done' = done + 1
  /\ UNCHANGED <<stage, abortedAt, set, failure, worker>>

\* An invalid attempt, a runner error, or a signal seen between two attempts.
LegFails ==
  /\ stage \in Legs
  /\ measuring \/ (done < PerLeg /\ Aborted)
  /\ IF stage = "b" THEN Goto("invalid-stop") /\ StopSet
                    ELSE Goto("failed") /\ UNCHANGED <<set, failure, cause>>
  /\ UNCHANGED <<abortedAt, runner, proc, ready, clean>>

LegOver(leg) == stage = leg /\ ~measuring /\ done = PerLeg

StartSet ==
  /\ LegOver("a1")
  /\ Goto("starting")
  /\ IF Aborted THEN set' = "invalid" /\ failure' = TRUE /\ AbortAll
                ELSE set' = "starting" /\ UNCHANGED <<failure, cause>>
  /\ UNCHANGED <<abortedAt, runner, proc, ready, clean>>

SetReady ==
  /\ stage = "starting" /\ FirstReady /\ set = "starting"
  /\ Goto("warmup")
  /\ set' = "running"
  /\ UNCHANGED <<abortedAt, failure, worker>>

SetNotReady ==
  /\ stage = "starting" /\ FirstKnown /\ ~(FirstReady /\ set = "starting")
  /\ Goto("start-failed")
  /\ Invalidate
  /\ UNCHANGED <<abortedAt, runner, proc, ready, clean>>

StartFailed ==
  /\ stage = "start-failed" /\ AllReturned
  /\ Goto("failed")
  /\ UNCHANGED <<abortedAt, set, failure, worker>>

\* The session takes a boundary; if that fails it stops the set.
Boundary(next) ==
  IF Verified
    THEN next
    ELSE /\ Goto("invalid-stop")
         /\ set' = "invalid" /\ failure' = TRUE /\ AbortAll

WarmedUp ==
  /\ stage = "warmup"
  /\ IF Aborted THEN Goto("invalid-stop") /\ StopSet
                ELSE Boundary(Goto("b") /\ UNCHANGED <<set, failure, cause>>)
  /\ UNCHANGED <<abortedAt, runner, proc, ready, clean>>

BDone ==
  /\ LegOver("b")
  /\ Boundary(Goto("stopping") /\ StopSet)
  /\ UNCHANGED <<abortedAt, runner, proc, ready, clean>>

Stopped ==
  /\ stage \in {"stopping", "invalid-stop"} /\ AllReturned
  /\ set' = "stopped"
  /\ IF stage = "stopping" /\ ~failure /\ \A w \in Worker : ValidStop(w)
       THEN Goto("recovery")
       ELSE Goto("failed")
  /\ UNCHANGED <<abortedAt, failure, worker>>

Recovered ==
  /\ stage = "recovery"
  /\ Goto(IF Aborted THEN "failed" ELSE "a2")
  /\ UNCHANGED <<abortedAt, set, failure, worker>>

\* The envelope is built, or its own validation refuses it.
Finish ==
  /\ LegOver("a2")
  /\ Goto("committed") \/ Goto("failed")
  /\ UNCHANGED <<abortedAt, set, failure, worker>>

\* Nothing looks at the signal any more once the last attempt has started.
LastAttempt == stage = "a2" /\ (done = PerLeg \/ (measuring /\ done = PerLeg - 1))

\* The external signal: the set's listener is there until it has stopped.
Abort ==
  /\ ~Aborted /\ stage \notin Over
  /\ abortedAt' = IF LastAttempt THEN "last" ELSE stage
  /\ IF set \in {"none", "stopped"} THEN UNCHANGED <<set, failure, cause>> ELSE Invalidate
  /\ UNCHANGED <<session, runner, proc, ready, clean>>

-----------------------------------------------------------------------------
SessionStep ==
  \/ BeginAttempt \/ EndAttempt \/ LegFails
  \/ StartSet \/ SetReady \/ SetNotReady \/ StartFailed
  \/ WarmedUp \/ BDone \/ Stopped \/ Recovered \/ Finish

WorkerStep(w) == Launch(w) \/ Announce(w) \/ Die(w) \/ Ends(w) \/ Return(w)

\* `lapsed` records an attempt of B during which some worker was not running.
Recorded == lapsed' = (lapsed \/ (stage' = "b" /\ measuring'
                                  /\ \E w \in Worker : proc'[w] # "live"))

Next == /\ SessionStep \/ Abort \/ \E w \in Worker : WorkerStep(w)
        /\ Recorded

Spec == Init /\ [][Next]_vars

\* Fairness: the session's event loop, launches, messages and cleanups.  The
\* workloads owe nothing, and a worker's own window may be as long as it likes.
FairSpec ==
  /\ Spec
  /\ WF_vars(SessionStep /\ Recorded)
  /\ \A w \in Worker : /\ WF_vars(Launch(w) /\ Recorded)
                       /\ WF_vars(Announce(w) /\ Recorded)
                       /\ WF_vars(Notices(w) /\ Recorded)
                       /\ WF_vars(Return(w) /\ Recorded)

-----------------------------------------------------------------------------
(* Properties. *)

\* A session is committed only if every worker of the set ran, under its own
\* supervisor, during every attempt of B: the two boundaries bracket the leg.
LoadBracketsB == stage = "committed" => ~lapsed

\* No worker is on a CPU while A1 or A2 is measured: A2 waits for a stop that
\* accounts for every worker.
BaselinesUnloaded == measuring /\ stage # "b" => \A w \in Worker : proc[w] \notin Runs

\* A session that was cancelled before its last attempt began is not committed,
\* wherever the signal came: in a leg, in a wait, or while the set stopped.
CancellationHeeded == stage = "committed" => abortedAt \in {"no", "last"}

\* When the session returns, no managed runner of its set is still working.
NoRunnerOutlivesSession ==
  stage \in Over /\ set # "none" => \A w \in Worker : runner[w] = "returned"

\* The failure of one worker, a lost identity or the signal cancels every peer.
FailureCancelsPeers == failure => \A w \in Worker : cause[w] # "none"

\* Every session ends, though workers may run for ever if nobody cancels them.
SessionEnds == <>(stage \in Over)
=============================================================================
