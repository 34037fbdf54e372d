---------------------------- MODULE ReferenceRun ----------------------------
(* A run of the reference kit and the archive made of it: the fixed          *)
(* reference profile, or the confirmation of a screen's candidate            *)
(* (controller.mjs, confirmation-cli.mjs), and prepare-results.mjs. A run    *)
(* journals its attempts, ends in a status and only then takes its active    *)
(* marker away; a preparer accepts a directory without the marker whose      *)
(* journal, events and status agree, and vouches for the archive with a      *)
(* checksum file. The lease of the result directory keeps the two apart; a   *)
(* confirmation's workloads hold the lease of the screen instead.            *)
EXTENDS Naturals

CONSTANTS
  Runs,       \* result directories, one run each
  Preparers,  \* processes that archive results
  Stamps,     \* the seconds an archive can be named after
  None,       \* neither a run nor a second
  Attempts,   \* bound: attempts of a session, over its three legs
  MaxFaults   \* bound: failures, interruptions, kills, power cuts

VARIABLES
  kind,       \* of each run: not started, fixed or confirmation
  pc, aborted, late, held, load,  \* of each run: its controller and its workloads
  journal, events, state, active, \* of each run: its files
  unsynced,   \* of each run: what a power cut may take back
  pp, job, temp, \* of each preparer: where it is, its run and stamp, what it archived and hashed
  archive, checksum, \* of each stamp: what is there, and what its checksum is of
  archiveWas, checksumWas, \* of each stamp: what a power cut may leave there instead
  cut,        \* history variable: stamps that a power cut found unsynchronised
  final,      \* history variable: how each session ended
  faults

run  == <<pc, aborted, late, held, load>>
file == <<journal, events, state, active, unsynced>>
was  == <<archiveWas, checksumWas, cut>>
prep == <<pp, job, temp, archive, checksum, was>>
vars == <<kind, run, file, prep, final, faults>>

Statuses == {"complete", "interrupted", "operational-incomplete"}
NoEvent  == [type |-> "none", status |-> "none", committed |-> FALSE, code |-> "none", shown |-> 0]
NoJournal == [manifest |-> FALSE, done |-> 0, error |-> FALSE, end |-> "none"]
NoJob     == [run |-> None, stamp |-> None]
Nothing   == [run |-> None, status |-> "none", done |-> 0, error |-> FALSE]
Partial   == [Nothing EXCEPT !.status = "partial"]

Init ==
  /\ kind = [r \in Runs |-> "none"]
  /\ pc = [r \in Runs |-> "idle"]
  /\ aborted = [r \in Runs |-> FALSE] /\ late = [r \in Runs |-> FALSE]
  /\ held = [r \in Runs |-> TRUE] /\ load = [r \in Runs |-> FALSE]
  /\ journal = [r \in Runs |-> NoJournal]
  /\ events = [r \in Runs |-> [second |-> NoEvent, end |-> "none"]]
  /\ state = [r \in Runs |-> "none"] /\ active = [r \in Runs |-> FALSE]
  /\ unsynced = [r \in Runs |-> {}]
  /\ pp = [p \in Preparers |-> "idle"]
  /\ job = [p \in Preparers |-> NoJob]
  /\ temp = [p \in Preparers |-> Nothing]
  /\ archive = [n \in Stamps |-> Nothing] /\ checksum = [n \in Stamps |-> Nothing]
  /\ archiveWas = [n \in Stamps |-> {}] /\ checksumWas = [n \in Stamps |-> {}] /\ cut = {}
  /\ final = [r \in Runs |-> "none"] /\ faults = 0

-----------------------------------------------------------------------------
Fault == faults < MaxFaults /\ faults' = faults + 1
Calm  == UNCHANGED faults

(* Leases. A workload that lost its controller keeps the lease it was given. *)
Ended(r)    == pc[r] \in {"idle", "done", "dead"}
Retains(r, k) == kind[r] = k /\ load[r]
Preparing(r)  == \E p \in Preparers : pp[p] # "idle" /\ job[p].run = r

LeafFree(r) ==
  /\ pc[r] \in {"idle", "made", "done", "dead"}
  /\ ~Retains(r, "fixed") /\ ~Preparing(r)

ScreenFreeOwners ==
  \A r \in Runs : kind[r] = "confirmation" => Ended(r) /\ ~Preparing(r)

(* A screen's lease, which every confirmation and its preparers take.       *)
ScreenFree ==
  \A r \in Runs : kind[r] = "confirmation" => Ended(r) /\ ~load[r] /\ ~Preparing(r)

-----------------------------------------------------------------------------
(* A run, executeReferenceProfile.                                           *)
Go(r, where) == pc' = [pc EXCEPT ![r] = where]
Stopping(r) == aborted[r] \/ late[r]

(* The fixed profile needs nobody's leave; a confirmation the screen's lease.*)
Begin(r, k) ==
  /\ kind[r] = "none" /\ (k = "confirmation" => ScreenFree)
  /\ kind' = [kind EXCEPT ![r] = k]
  /\ Go(r, "made")
  /\ Calm /\ UNCHANGED <<aborted, late, held, load, file, prep, final>>

(* The leaf's lease is not waited for: a busy leaf ends the run. What is     *)
(* written here is synchronised before anything is run.                      *)
Open(r) ==
  /\ pc[r] = "made"
  /\ IF LeafFree(r) /\ held[r]
     THEN active' = [active EXCEPT ![r] = TRUE] /\ Go(r, "opened")
     ELSE Go(r, "dead") /\ UNCHANGED active
  /\ Calm /\ UNCHANGED <<kind, aborted, late, held, load, journal, events, state, unsynced, prep, final>>

Writes(r, what) == unsynced' = [unsynced EXCEPT ![r] = @ \cup {what}]

ConcludesInterrupted(r, type, committed, code) ==
  LET status == IF aborted[r] THEN "interrupted"
                ELSE IF committed THEN "complete" ELSE "operational-incomplete"
  IN  /\ events' = [events EXCEPT ![r].second =
           [type |-> type, status |-> status, committed |-> committed,
            code |-> code, shown |-> journal'[r].done]]
      /\ final' = [final EXCEPT ![r] = status]
      /\ Writes(r, "events") /\ Go(r, "concluded")

(* The result of the session, or of its failure to begin.                    *)
Concludes(r, type, committed, code) ==
  LET lost   == type = "session" /\ ~held[r]
      status == IF type = "session" /\ committed /\ ~lost THEN "complete"
                ELSE IF aborted[r] THEN "interrupted" ELSE "operational-incomplete"
  IN  /\ events' = [events EXCEPT ![r].second =
           [type |-> IF lost THEN "error" ELSE type, status |-> status,
            committed |-> committed /\ ~lost,
            code |-> IF lost THEN "other" ELSE code, shown |-> journal'[r].done]]
      /\ final' = [final EXCEPT ![r] = status]
      /\ Writes(r, "events") /\ Go(r, "concluded")

(* The journal is synchronised with every record.                            *)
BindManifest(r) ==
  /\ pc[r] = "opened"
  /\ journal' = [journal EXCEPT ![r].manifest = TRUE] /\ Go(r, "settling")
  /\ Calm /\ UNCHANGED <<kind, aborted, late, held, load, events, state, active, unsynced, prep, final>>

WorkloadsFail(r) ==
  /\ pc[r] = "opened" /\ Fault /\ UNCHANGED journal
  /\ Concludes(r, "error", FALSE, "other")
  /\ UNCHANGED <<kind, aborted, late, held, load, state, active, prep>>

Settle(r) ==
  /\ pc[r] = "settling" /\ UNCHANGED journal
  /\ IF aborted[r] \/ ~held[r]
     THEN Concludes(r, "error", FALSE, IF aborted[r] THEN "cancel" ELSE "other") /\ UNCHANGED load
     ELSE /\ Go(r, "between") /\ load' = [load EXCEPT ![r] = TRUE]
          /\ UNCHANGED <<events, final, unsynced>>
  /\ Calm /\ UNCHANGED <<kind, aborted, late, held, state, active, prep>>

(* Between two attempts the session looks at the signal; a wait, the load or *)
(* a boundary check may also end it.                                         *)
StartAttempt(r) ==
  /\ pc[r] = "between" /\ journal[r].done < Attempts /\ ~Stopping(r)
  /\ Go(r, "attempt")
  /\ Calm /\ UNCHANGED <<kind, aborted, late, held, load, file, prep, final>>

SessionStops(r) ==
  /\ pc[r] = "between" /\ journal[r].done < Attempts /\ UNCHANGED journal
  /\ IF Stopping(r) THEN Calm ELSE Fault
  /\ load' = [load EXCEPT ![r] = FALSE] /\ Concludes(r, "session", FALSE, "none")
  /\ UNCHANGED <<kind, aborted, late, held, state, active, prep>>

AttemptValid(r) ==
  /\ pc[r] = "attempt" /\ held[r]
  /\ journal' = [journal EXCEPT ![r].done = @ + 1] /\ Go(r, "between")
  /\ Calm /\ UNCHANGED <<kind, aborted, late, held, load, events, state, active, unsynced, prep, final>>

(* Cancelled, out of time or without its affinity witness: the attempt is    *)
(* recorded and is the last one.                                             *)
AttemptInvalid(r) ==
  /\ pc[r] = "attempt" /\ held[r] /\ IF Stopping(r) THEN Calm ELSE Fault
  /\ journal' = [journal EXCEPT ![r].done = @ + 1]
  /\ load' = [load EXCEPT ![r] = FALSE] /\ Concludes(r, "session", FALSE, "none")
  /\ UNCHANGED <<kind, aborted, late, held, state, active, prep>>

AttemptFails(r) ==
  /\ pc[r] = "attempt" /\ IF held[r] THEN Fault ELSE Calm
  /\ journal' = [journal EXCEPT ![r].error = TRUE]
  /\ load' = [load EXCEPT ![r] = FALSE] /\ Concludes(r, "session", FALSE, "none")
  /\ UNCHANGED <<kind, aborted, late, held, state, active, prep>>

(* Every attempt was valid: committed, whatever was signalled meanwhile.     *)
SessionCommits(r) ==
  /\ pc[r] = "between" /\ journal[r].done = Attempts /\ UNCHANGED journal
  /\ load' = [load EXCEPT ![r] = FALSE] /\ Concludes(r, "session", TRUE, "none")
  /\ Calm /\ UNCHANGED <<kind, aborted, late, held, state, active, prep>>

RecordEnd(r) ==
  /\ pc[r] = "concluded"
  /\ journal' = [journal EXCEPT ![r].end = events[r].second.status]
  /\ events' = [events EXCEPT ![r].end = events[r].second.status]
  /\ Go(r, "recorded")
  /\ Calm /\ UNCHANGED <<kind, aborted, late, held, load, state, active, unsynced, prep, final>>

WriteState(r) ==
  /\ pc[r] = "recorded"
  /\ unsynced' = [unsynced EXCEPT ![r] = {"state"}]
  /\ state' = [state EXCEPT ![r] = events[r].end] /\ Go(r, "stated")
  /\ Calm /\ UNCHANGED <<kind, aborted, late, held, load, journal, events, active, prep, final>>

RemoveActiveUnsynced(r) ==
  /\ pc[r] = "stated"
  /\ Writes(r, "active")
  /\ active' = [active EXCEPT ![r] = FALSE] /\ Go(r, "removed")
  /\ Calm /\ UNCHANGED <<kind, aborted, late, held, load, journal, events, state, prep, final>>

(* The status is on disk before the marker goes.                             *)
RemoveActive(r) ==
  /\ pc[r] = "stated"
  /\ unsynced' = [unsynced EXCEPT ![r] = {"active"}]
  /\ active' = [active EXCEPT ![r] = FALSE] /\ Go(r, "removed")
  /\ Calm /\ UNCHANGED <<kind, aborted, late, held, load, journal, events, state, prep, final>>

Return(r) ==
  /\ pc[r] = "removed"
  /\ unsynced' = [unsynced EXCEPT ![r] = {}] /\ Go(r, "done")
  /\ Calm /\ UNCHANGED <<kind, aborted, late, held, load, journal, events, state, active, prep, final>>

OrphanDrains(r) ==
  /\ pc[r] = "dead" /\ load[r] /\ load' = [load EXCEPT ![r] = FALSE]
  /\ Calm /\ UNCHANGED <<kind, pc, aborted, late, held, file, prep, final>>

-----------------------------------------------------------------------------
(* prepare-results, for results of runs.                                     *)
Agrees(r) ==
  /\ state[r] \in Statuses /\ events[r].end = state[r] /\ journal[r].end = state[r]
  /\ journal[r].manifest
  /\ LET e == events[r].second
     IN  IF e.type = "session"
         THEN /\ e.status = state[r] /\ e.committed = (state[r] = "complete")
              /\ e.shown = journal[r].done
         ELSE /\ e.type = "error" /\ state[r] # "complete"
              /\ state[r] = "interrupted" => e.code = "cancel"

Inspectable(r) == ~active[r] /\ Agrees(r)

Content(r) ==
  [run |-> r, status |-> state[r], done |-> journal[r].done, error |-> journal[r].error]

Moves(p, where) == pp' = [pp EXCEPT ![p] = where]

(* Neither an archive nor its checksum is synchronised, nor the removal of   *)
(* one: until the next power cut, each may still be on disk as it was or torn.*)
Was(before, now, next) ==
  [n \in Stamps |-> IF next[n] = now[n] THEN before[n] ELSE before[n] \cup {now[n], Partial}]
Unsynchronised ==
  /\ archiveWas' = Was(archiveWas, archive, archive')
  /\ checksumWas' = Was(checksumWas, checksum, checksum')
  /\ UNCHANGED cut
Survivors(before, now) ==
  {f \in [Stamps -> UNION {before[n] \cup {now[n]} : n \in Stamps}] :
     \A n \in Stamps : f[n] \in before[n] \cup {now[n]}}

Take(p, r, n) ==
  /\ pp[p] = "idle" /\ kind[r] # "none" /\ LeafFree(r)
  /\ Inspectable(r) /\ (kind[r] = "confirmation" => ScreenFree)
  /\ archive[n] = Nothing /\ checksum[n] = Nothing
  /\ job' = [job EXCEPT ![p] = [run |-> r, stamp |-> n]] /\ Moves(p, "archiving")
  /\ cut' = cut \ {n}
  /\ Calm /\ UNCHANGED <<kind, run, file, temp, archive, checksum, archiveWas, checksumWas, final>>

(* Archived to a temporary name; the bundle is inspected again, and what is  *)
(* there hashed.                                                             *)
Tar(p) ==
  /\ pp[p] = "archiving" /\ Inspectable(job[p].run)
  /\ temp' = [temp EXCEPT ![p] = Content(job[p].run)] /\ Moves(p, "linking")
  /\ Calm /\ UNCHANGED <<kind, run, file, job, archive, checksum, was, final>>

Idle(p) ==
  /\ Moves(p, "idle") /\ job' = [job EXCEPT ![p] = NoJob]
  /\ temp' = [temp EXCEPT ![p] = Nothing]

(* A hard link where the destination has them.                               *)
Link(p) ==
  LET n == job[p].stamp
  IN  /\ pp[p] = "linking"
      /\ IF archive[n] = Nothing
         THEN /\ archive' = [archive EXCEPT ![n] = temp[p]] /\ Moves(p, "linked")
              /\ UNCHANGED <<job, temp>>
         ELSE Idle(p) /\ UNCHANGED archive
      /\ UNCHANGED checksum /\ Unsynchronised
      /\ Calm /\ UNCHANGED <<kind, run, file, final>>

(* An exclusive copy where it has not: its name is there before its bytes.   *)
CopyBegins(p) ==
  LET n == job[p].stamp
  IN  /\ pp[p] = "linking" /\ archive[n] = Nothing
      /\ archive' = [archive EXCEPT ![n] = Partial] /\ Moves(p, "copying")
      /\ UNCHANGED checksum /\ Unsynchronised
      /\ Calm /\ UNCHANGED <<kind, run, file, job, temp, final>>

CopyEnds(p) ==
  /\ pp[p] = "copying" /\ archive' = [archive EXCEPT ![job[p].stamp] = temp[p]]
  /\ Moves(p, "linked") /\ UNCHANGED checksum /\ Unsynchronised
  /\ Calm /\ UNCHANGED <<kind, run, file, job, temp, final>>

Vouch(p) ==
  LET n == job[p].stamp
  IN  /\ pp[p] = "linked" /\ checksum[n] = Nothing
      /\ checksum' = [checksum EXCEPT ![n] = Partial] /\ Moves(p, "vouching")
      /\ UNCHANGED archive /\ Unsynchronised
      /\ Calm /\ UNCHANGED <<kind, run, file, job, temp, final>>

Vouched(p) ==
  /\ pp[p] = "vouching" /\ checksum' = [checksum EXCEPT ![job[p].stamp] = temp[p]]
  /\ UNCHANGED archive /\ Unsynchronised
  /\ Idle(p) /\ Calm /\ UNCHANGED <<kind, run, file, final>>

CleanUpAnyone(p) ==
  /\ checksum' = [checksum EXCEPT ![job[p].stamp] = IF pp[p] = "vouching" THEN Nothing ELSE @]
  /\ archive' = [archive EXCEPT ![job[p].stamp] = Nothing]

(* What this preparer created, and nobody else's, goes. A copy that failed   *)
(* half-way is not known to have been created.                               *)
CleanUp(p) ==
  /\ checksum' = [checksum EXCEPT ![job[p].stamp] = IF pp[p] = "vouching" THEN Nothing ELSE @]
  /\ archive' = [archive EXCEPT ![job[p].stamp] =
                   IF pp[p] \in {"linked", "vouching"} THEN Nothing ELSE @]

PrepareFails(p) ==
  /\ pp[p] # "idle" /\ Fault /\ CleanUp(p) /\ Unsynchronised /\ Idle(p)
  /\ UNCHANGED <<kind, run, file, final>>

PreparerKilled(p) ==
  /\ pp[p] # "idle" /\ Fault /\ Idle(p)
  /\ UNCHANGED <<kind, run, file, archive, checksum, was, final>>

-----------------------------------------------------------------------------
(* Interference.                                                             *)
Interrupt(r) ==
  /\ pc[r] \in {"made", "opened", "settling", "between", "attempt"} /\ ~aborted[r] /\ Fault
  /\ aborted' = [aborted EXCEPT ![r] = TRUE]
  /\ UNCHANGED <<kind, pc, late, held, load, file, prep, final>>

(* The loaded window took longer than it may.                                *)
Deadline(r) ==
  /\ pc[r] \in {"between", "attempt"} /\ ~late[r] /\ Fault
  /\ late' = [late EXCEPT ![r] = TRUE]
  /\ UNCHANGED <<kind, pc, aborted, held, load, file, prep, final>>

(* The screen's directories are no longer the ones the lease was taken of.   *)
LoseAuthorization(r) ==
  /\ kind[r] = "confirmation" /\ ~Ended(r) /\ held[r] /\ Fault
  /\ held' = [held EXCEPT ![r] = FALSE]
  /\ UNCHANGED <<kind, pc, aborted, late, load, file, prep, final>>

Killed(r) ==
  /\ ~Ended(r) /\ Fault /\ Go(r, "dead")
  /\ UNCHANGED <<kind, aborted, late, held, load, file, prep, final>>

PowerCut ==
  /\ Fault
  /\ pc' = [r \in Runs |-> IF Ended(r) THEN pc[r] ELSE "dead"]
  /\ load' = [r \in Runs |-> FALSE]
  /\ \E lost \in SUBSET (Runs \X {"events", "state", "active"}) :
       /\ \A r \in Runs, what \in {"events", "state", "active"} :
            <<r, what>> \in lost => what \in unsynced[r]
       /\ events' = [r \in Runs |-> IF <<r, "events">> \in lost
                                    THEN [second |-> NoEvent, end |-> "none"] ELSE events[r]]
       /\ state' = [r \in Runs |-> IF <<r, "state">> \in lost THEN "none" ELSE state[r]]
       /\ active' = [r \in Runs |-> active[r] \/ <<r, "active">> \in lost]
  /\ unsynced' = [r \in Runs |-> {}]
  /\ pp' = [p \in Preparers |-> "idle"]
  /\ job' = [p \in Preparers |-> NoJob]
  /\ temp' = [p \in Preparers |-> Nothing]
  /\ archive' \in Survivors(archiveWas, archive) /\ checksum' \in Survivors(checksumWas, checksum)
  /\ archiveWas' = [n \in Stamps |-> {}] /\ checksumWas' = [n \in Stamps |-> {}]
  /\ cut' = cut \cup {n \in Stamps : archiveWas[n] \cup checksumWas[n] # {}}
  /\ UNCHANGED <<kind, aborted, late, held, journal, final>>

-----------------------------------------------------------------------------
Controller(r) ==
  \/ Open(r) \/ BindManifest(r) \/ Settle(r) \/ StartAttempt(r) \/ AttemptValid(r)
  \/ SessionCommits(r) \/ RecordEnd(r) \/ WriteState(r) \/ RemoveActive(r) \/ Return(r)
  \/ SessionStops(r) \/ AttemptInvalid(r) \/ AttemptFails(r)

Preparer(p) == Tar(p) \/ Link(p) \/ CopyBegins(p) \/ CopyEnds(p) \/ Vouch(p) \/ Vouched(p)

Next ==
  \/ \E r \in Runs : \/ \E k \in {"fixed", "confirmation"} : Begin(r, k)
                     \/ Controller(r) \/ WorkloadsFail(r) \/ OrphanDrains(r) \/ Interrupt(r)
                     \/ Deadline(r) \/ LoseAuthorization(r) \/ Killed(r)
  \/ \E p \in Preparers : \/ \E r \in Runs, n \in Stamps : Take(p, r, n)
                          \/ Preparer(p) \/ PrepareFails(p) \/ PreparerKilled(p)
  \/ PowerCut

Spec == Init /\ [][Next]_vars

-----------------------------------------------------------------------------
(* What a checksum verifies is the final result of a run that is over: how   *)
(* the session ended, although preparers of other results race for the name, *)
(* fail or are killed, and a power cut takes back what of the run, of an     *)
(* archive, of a checksum or of their removal was not synchronised. A        *)
(* checksum no power cut met that way stands next to the archive it is of.   *)
Digests == {n \in Stamps : checksum[n] \notin {Nothing, Partial}}
ArchiveIsFinal ==
  \A n \in Digests :
    LET a == archive[n]
    IN  /\ a = checksum[n] => a = Content(a.run) /\ a.status = final[a.run] /\ ~load[a.run]
        /\ n \notin cut => a = checksum[n]

(* A run that came to its end and had begun its session can be archived,     *)
(* whatever failed, was interrupted or ran late, and however these coincide. *)
ReturnedIsExportable ==
  \A r \in Runs : pc[r] = "done" /\ journal[r].manifest /\ held[r] => Inspectable(r)

(* Two confirmations of a screen never load the machine together, although a *)
(* killed one leaves its workloads behind.                                   *)
Loads(r) == kind[r] = "confirmation" /\ load[r]
ConfirmationsAlone == \A r, q \in Runs : Loads(r) /\ Loads(q) => r = q
=============================================================================
