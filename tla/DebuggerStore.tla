---------------------------- MODULE DebuggerStore ----------------------------
(***************************************************************************)
(* The durable triple of a debugger attempt (debugger-attempt-store.mjs):  *)
(* transcript, control and, last, the envelope that binds both.  Owners    *)
(* work one after the other, each under the bundle's lease; any of them    *)
(* may crash between two steps, or inside a commit.                        *)
(*                                                                         *)
(* The content of a part is the attempt (the nonce) it is of.  A commit    *)
(* publishes a part by link and may leave its temporary, which the next    *)
(* listing of the directory discards; StateFiles has this in detail.       *)
(***************************************************************************)
EXTENDS Naturals, FiniteSets

CONSTANTS MaxRuns,       \* maxRuns of the manifest's schedule
          MaxCaptures,   \* and maxCaptures
          Attempt,       \* nonces
          None

VARIABLES manifest,      \* the phase manifest is stored
          part,          \* published parts of each run
          temp,          \* a dead owner's temporary is in the directory
          pc,            \* what the owner is doing
          run,           \* the run it works on
          nonce,         \* the attempt it works on
          orphans,       \* parts of that run it has yet to remove
          used,          \* nonces drawn so far
          captured       \* attempts that captured a fault

disk  == <<manifest, part, temp>>
owner == <<pc, run, nonce, orphans>>
vars  == <<disk, owner, used, captured>>

Run  == 1..MaxRuns
Part == {"transcript", "control", "envelope"}

-----------------------------------------------------------------------------
(* readDebuggerPhaseStore. *)

Committed == {r \in Run : part[r]["envelope"] # None}

Frontier == Cardinality(Committed)

Whole(r) == \A p \in Part : part[r][p] = part[r]["envelope"]

Readable == manifest /\ Committed = 1..Frontier /\ \A r \in Committed : Whole(r)

Orphans == {<<r, p>> \in Run \X Part : part[r]["envelope"] = None /\ part[r][p] # None}

\* Mutant: counts committed runs only.
CompleteByRuns == Frontier = MaxRuns

\* assessDebuggerAttemptProgress.
Complete == \/ Frontier = MaxRuns
            \/ Cardinality({r \in Committed : part[r]["envelope"] \in captured}) >= MaxCaptures

-----------------------------------------------------------------------------
TypeOK ==
  /\ manifest \in BOOLEAN
  /\ part \in [Run -> [Part -> Attempt \cup {None}]]
  /\ temp \in BOOLEAN
  /\ pc \in {"off", "ready", "attempt", "commit", "remove"} \cup Part
  /\ run \in 0..MaxRuns
  /\ nonce \in Attempt \cup {None}
  /\ orphans \subseteq Part
  /\ used \subseteq Attempt
  /\ captured \subseteq used
  /\ pc \in {"attempt", "commit", "remove"} \cup Part => run \in Run /\ nonce \in used
  /\ pc \in Part => orphans = {}

Init ==
  /\ manifest = FALSE
  /\ part = [r \in Run |-> [p \in Part |-> None]]
  /\ temp = FALSE
  /\ pc = "off" /\ run = 0 /\ nonce = None /\ orphans = {}
  /\ used = {} /\ captured = {}

-----------------------------------------------------------------------------
(* The owner. *)

Initialize ==
  /\ pc = "off" /\ ~manifest
  /\ manifest' = TRUE /\ temp' = FALSE
  /\ UNCHANGED <<part, owner, used, captured>>

\* A new owner lists the directory, which discards temporaries, and reads.
Open ==
  /\ pc = "off" /\ Readable
  /\ temp' = FALSE
  /\ pc' = "ready"
  /\ UNCHANGED <<manifest, part, run, nonce, orphans, used, captured>>

\* runNextDebuggerPhaseAttempt: the next run, under a fresh nonce.
StartAttempt ==
  /\ pc = "ready" /\ ~Complete
  /\ \E a \in Attempt \ used : nonce' = a /\ used' = used \cup {a}
  /\ run' = Frontier + 1
  /\ pc' = "attempt"
  /\ UNCHANGED <<disk, orphans, captured>>

\* A complete attempt captured a fault or did not; an incomplete one ends the
\* command and advances nothing.
EndAttempt ==
  /\ pc = "attempt"
  /\ \/ pc' = "commit" /\ captured' \in {captured, captured \cup {nonce}}
     \/ pc' = "off" /\ UNCHANGED captured
  /\ UNCHANGED <<disk, run, nonce, orphans, used>>

\* Mutant: the envelope is not the last.
AfterEnvelopeFirst(p) == CASE p = "transcript" -> "envelope"
                           [] p = "envelope"   -> "control"
                           [] p = "control"    -> "ready"

After(p) == CASE p = "transcript" -> "control"
              [] p = "control"    -> "envelope"
              [] p = "envelope"   -> "ready"

\* Mutant: leaves the parts it finds where they are.
CommitOverOrphans ==
  /\ pc = "commit" /\ Readable /\ ~Complete /\ run = Frontier + 1
  /\ orphans' = {}
  /\ pc' = "remove"
  /\ UNCHANGED <<disk, run, nonce, used, captured>>

\* Mutant: goes on from the parts it finds, as after a commit of its own.
CommitOntoOrphans ==
  /\ pc = "commit" /\ Readable /\ ~Complete /\ run = Frontier + 1
  /\ orphans' = {}
  /\ \E p \in Part :
       /\ part[run][p] = None
       /\ \A q \in Part : After(q) = p => part[run][q] # None
       /\ pc' = p
  /\ UNCHANGED <<disk, run, nonce, used, captured>>

\* commitDebuggerPhaseAttempt reads the store again.
CommitRead ==
  /\ pc = "commit" /\ Readable /\ ~Complete /\ run = Frontier + 1
  /\ orphans' = {p \in Part : <<run, p>> \in Orphans}
  /\ pc' = "remove"
  /\ UNCHANGED <<disk, run, nonce, used, captured>>

RemoveOrphan ==
  /\ pc = "remove"
  /\ \E p \in orphans :
       /\ part' = [part EXCEPT ![run][p] = None]
       /\ orphans' = orphans \ {p}
  /\ UNCHANGED <<manifest, temp, pc, run, nonce, used, captured>>

Removed ==
  /\ pc = "remove" /\ orphans = {}
  /\ pc' = "transcript"
  /\ UNCHANGED <<disk, run, nonce, orphans, used, captured>>

Published(p) == part' = [part EXCEPT ![run][p] = nonce]

\* A commit never overwrites.
Put(p) ==
  /\ pc = p /\ part[run][p] = None
  /\ Published(p)
  /\ pc' = After(p)
  /\ UNCHANGED <<manifest, temp, run, nonce, orphans, used, captured>>

\* The phase is complete, or the command ends.
Close ==
  /\ pc = "ready"
  /\ pc' = "off"
  /\ UNCHANGED <<disk, run, nonce, orphans, used, captured>>

\* A crash inside a commit leaves a temporary, and the part published or not.
Crash ==
  /\ pc # "off"
  /\ pc' = "off" /\ orphans' = {}
  /\ \/ UNCHANGED <<part, temp>>
     \/ /\ pc \in Part /\ part[run][pc] = None
        /\ temp' = TRUE
        /\ Published(pc) \/ UNCHANGED part
  /\ UNCHANGED <<manifest, run, nonce, used, captured>>

-----------------------------------------------------------------------------
Next ==
  \/ Initialize \/ Open \/ StartAttempt \/ EndAttempt \/ CommitRead
  \/ RemoveOrphan \/ Removed \/ (\E p \in Part : Put(p)) \/ Close \/ Crash

Spec == Init /\ [][Next]_vars

-----------------------------------------------------------------------------
(* Properties. *)

\* Whatever crashed, the next owner can read the store.
AlwaysReadable == manifest => Readable

\* An owner that commits never finds a dead attempt's part in the way.
NothingInTheWay == pc \in Part => part[run][pc] = None

\* What a reader may take a run for: the attempt all three files are of.  A run
\* whose files are missing or of different attempts is no attempt at all.
AttemptOf(r) == IF Whole(r) THEN part[r]["envelope"] ELSE None

\* The runs with an envelope are the log of whole attempts (module AttemptLog):
\* an entry appears with its envelope, all three files are then there and of the
\* one attempt, and they stay so; runs are committed in order, up to the limits
\* (commitDebuggerPhaseAttempt, readDebuggerPhaseStore).
Log == INSTANCE AttemptLog WITH
  log <- [r \in 1..Frontier |-> [attempt  |-> AttemptOf(r),
                                 captured |-> part[r]["envelope"] \in captured]]
LogSpec == Log!Spec
=============================================================================
