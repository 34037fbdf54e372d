----------------------------- MODULE RootChecks -----------------------------
(* root-checks.sh collects privileged reads in a stage at a fixed path and   *)
(* hands it to publish-root-checks-output.sh, a publisher without            *)
(* privileges. Nothing locks the stage: invocations for the same user and    *)
(* bundle share it, and any of them may be killed at any step.               *)
EXTENDS Naturals

CONSTANTS
  Procs,      \* invocations
  Payloads,   \* payload files, published in the order 1..Payloads
  MaxRuns,    \* bound: collections
  MaxKills    \* bound: kills

VARIABLES
  stage,      \* owner, payloads (0: absent), metadata, files handed over
  pc, gen, next, \* per invocation
  dest, marker,         \* env/root, and root-checks.done in it
  manifest, reported,   \* the bundle's manifest, and the evidence it covers
  holder,     \* the bundle lock
  runs, kills

bundle == <<dest, marker, manifest, reported>>
vars == <<stage, pc, gen, next, bundle, holder, runs, kills>>

Names  == 1..Payloads
NoMeta == [gen |-> 0, of |-> [n \in Names |-> 0]]
Nobody == "nobody"
Empty(owner) == [owner |-> owner, file |-> [n \in Names |-> 0], meta |-> NoMeta, given |-> {}]

Init ==
  /\ stage = Empty("none")
  /\ pc = [p \in Procs |-> "off"] /\ gen = [p \in Procs |-> 0]
  /\ next = [p \in Procs |-> 0]
  /\ dest = [file |-> [n \in Names |-> 0], meta |-> NoMeta] /\ marker = FALSE
  /\ manifest = FALSE /\ reported = 0
  /\ holder = Nobody /\ runs = 0 /\ kills = 0

-----------------------------------------------------------------------------
(* A file is a payload's number, or 0 for the metadata.                      *)
Files == 0..Payloads
Has(d, f) == IF f = 0 THEN d.meta # NoMeta ELSE d.file[f] # 0
There == {f \in Files : Has(stage, f)}
First(S) == IF S = {0} THEN 0 ELSE CHOOSE f \in S \ {0} : \A g \in S \ {0} : f <= g
Drop(f) == IF f = 0 THEN [stage EXCEPT !.meta = NoMeta, !.given = @ \ {f}]
                    ELSE [stage EXCEPT !.file[f] = 0, !.given = @ \ {f}]

(* The digests of the metadata are those of the payloads.                    *)
Whole(d) == d.meta # NoMeta /\ d.meta.of = d.file /\ \A n \in Names : d.file[n] # 0

(* root_checks_classify_existing_stage.                                      *)
Class ==
  CASE stage.owner = "none" -> "absent"
    [] stage.owner = "root" -> "pre-handoff"
    [] stage.owner = "user" /\ There = Files /\ stage.given = Files -> "handed-off"
    [] OTHER -> "unsafe"

Goto(p, l) == pc' = [pc EXCEPT ![p] = l]
Free(p) == holder' = IF holder = p THEN Nobody ELSE holder
Stop(p) == Goto(p, "off") /\ Free(p)

-----------------------------------------------------------------------------
(* The privileged half.                                                      *)

(* root_checks_stage_dispatch.                                               *)
Dispatch(p) ==
  /\ pc[p] = "off"
  /\ \E fresh \in BOOLEAN :
       Goto(p, CASE Class = "absent" -> "create"
                 [] Class = "pre-handoff" -> "prune"
                 [] Class = "handed-off" -> IF fresh THEN "discard" ELSE "publish"
                 [] OTHER -> "off")
  /\ UNCHANGED <<stage, gen, next, bundle, holder, runs, kills>>

Create(p) ==
  /\ pc[p] = "create"
  /\ IF stage.owner = "none" THEN stage' = Empty("root") /\ Goto(p, "collect")
                             ELSE UNCHANGED stage /\ Goto(p, "off")
  /\ next' = [next EXCEPT ![p] = 1]
  /\ UNCHANGED <<gen, bundle, holder, runs, kills>>

(* Only known names, one after another.                                      *)
Prune(p) ==
  /\ pc[p] = "prune"
  /\ CASE stage.owner # "root" -> UNCHANGED stage /\ Goto(p, "off")
       [] stage.owner = "root" /\ There # {} -> stage' = Drop(First(There)) /\ UNCHANGED pc
       [] OTHER -> UNCHANGED stage /\ Goto(p, "collect")
  /\ next' = [next EXCEPT ![p] = 1]
  /\ UNCHANGED <<gen, bundle, holder, runs, kills>>

(* --fresh: what is proven to be handed over is discarded.                   *)
DiscardProven(p) ==
  /\ pc[p] = "discard"
  /\ Goto(p, IF Class = "handed-off" THEN "discarding" ELSE "off")
  /\ UNCHANGED <<stage, gen, next, bundle, holder, runs, kills>>

Discard(p) ==
  /\ pc[p] = "discarding"
  /\ CASE stage.owner = "none" -> UNCHANGED stage /\ Goto(p, "off")
       [] stage.owner # "none" /\ There # {} -> stage' = Drop(First(There)) /\ UNCHANGED pc
       [] OTHER -> stage' = Empty("none") /\ Goto(p, "create")
  /\ UNCHANGED <<gen, next, bundle, holder, runs, kills>>

(* A redirection into a stage that is gone fails.                            *)
CollectOne(p) ==
  /\ pc[p] = "collect" /\ next[p] <= Payloads
  /\ \/ next[p] > 1 /\ UNCHANGED <<runs, gen>>
     \/ next[p] = 1 /\ runs < MaxRuns /\ runs' = runs + 1 /\ gen' = [gen EXCEPT ![p] = runs + 1]
  /\ IF stage.owner = "none"
     THEN UNCHANGED stage /\ Goto(p, "cleanup")
     ELSE stage' = [stage EXCEPT !.file[next[p]] = gen'[p]] /\ UNCHANGED pc
  /\ next' = [next EXCEPT ![p] = @ + 1]
  /\ UNCHANGED <<bundle, holder, kills>>

(* The digests are taken of what is there by now.                            *)
Bind(p) ==
  /\ pc[p] = "collect" /\ next[p] > Payloads
  /\ IF \A n \in Names : stage.file[n] # 0
     THEN stage' = [stage EXCEPT !.meta = [gen |-> gen[p], of |-> stage.file]] /\ Goto(p, "verify")
     ELSE UNCHANGED stage /\ Goto(p, "cleanup")
  /\ UNCHANGED <<gen, next, bundle, holder, runs, kills>>

Verify(p) ==
  /\ pc[p] = "verify"
  /\ Goto(p, IF There = Files /\ stage.given = {} THEN "chown" ELSE "cleanup")
  /\ UNCHANGED <<stage, gen, next, bundle, holder, runs, kills>>

(* Files first, the directory last.                                          *)
HandOver(p) ==
  /\ pc[p] = "chown"
  /\ LET left == Files \ stage.given IN
     IF left = {} THEN stage' = [stage EXCEPT !.owner = "user"] /\ Goto(p, "publish")
     ELSE IF Has(stage, First(left))
          THEN stage' = [stage EXCEPT !.given = @ \cup {First(left)}] /\ UNCHANGED pc
          ELSE UNCHANGED stage /\ Goto(p, "cleanup")
  /\ UNCHANGED <<gen, next, bundle, holder, runs, kills>>

(* The trap of an exit or a signal before the hand-over.                     *)
CleanupStage(p) ==
  /\ pc[p] \in {"cleanup", "collect", "verify", "chown"}
  /\ stage' = Empty("none") /\ Goto(p, "off")
  /\ UNCHANGED <<gen, next, bundle, holder, runs, kills>>

-----------------------------------------------------------------------------
(* The publisher.                                                            *)

Admit(p) ==
  /\ pc[p] = "publish"
  /\ IF holder = Nobody /\ Class = "handed-off" /\ Whole(stage)
     THEN holder' = p /\ Goto(p, "invalidate")
     ELSE UNCHANGED holder /\ Goto(p, "off")
  /\ UNCHANGED <<stage, gen, next, bundle, runs, kills>>

(* Mutant: derived outputs are left in place.                                *)
ManifestKept(p) ==
  /\ pc[p] = "invalidate" /\ Goto(p, "unmark")
  /\ UNCHANGED <<stage, gen, next, bundle, holder, runs, kills>>

InvalidateDerived(p) ==
  /\ pc[p] = "invalidate" /\ manifest' = FALSE /\ Goto(p, "unmark")
  /\ UNCHANGED <<stage, gen, next, dest, marker, reported, holder, runs, kills>>

(* Mutant: the old marker stays while payloads are replaced.                 *)
KeepMarker(p) ==
  /\ pc[p] = "unmark" /\ Goto(p, "copy")
  /\ next' = [next EXCEPT ![p] = 1]
  /\ UNCHANGED <<stage, gen, bundle, holder, runs, kills>>

DropMarker(p) ==
  /\ pc[p] = "unmark" /\ marker' = FALSE /\ Goto(p, "copy")
  /\ next' = [next EXCEPT ![p] = 1]
  /\ UNCHANGED <<stage, gen, dest, manifest, reported, holder, runs, kills>>

(* Each file goes through .root-checks-publish.tmp, the metadata last.       *)
Copy(p) ==
  /\ pc[p] = "copy"
  /\ LET f == IF next[p] > Payloads THEN 0 ELSE next[p] IN
     IF stage.owner # "user" \/ ~Has(stage, f)
     THEN Stop(p) /\ UNCHANGED <<dest, next>>
     ELSE /\ dest' = IF f = 0 THEN [dest EXCEPT !.meta = stage.meta]
                              ELSE [dest EXCEPT !.file[f] = stage.file[f]]
          /\ next' = [next EXCEPT ![p] = @ + 1]
          /\ IF f = 0 THEN Goto(p, "mark") ELSE UNCHANGED pc
          /\ UNCHANGED holder
  /\ UNCHANGED <<stage, gen, marker, manifest, reported, runs, kills>>

(* The marker follows the validation of what was written.                    *)
Mark(p) ==
  /\ pc[p] = "mark"
  /\ IF Whole(dest) THEN marker' = TRUE /\ Goto(p, "remove") /\ UNCHANGED holder
                    ELSE UNCHANGED marker /\ Stop(p)
  /\ UNCHANGED <<stage, gen, next, dest, manifest, reported, runs, kills>>

RemoveSource(p) ==
  /\ pc[p] = "remove"
  /\ CASE stage.owner # "user" -> UNCHANGED stage /\ Stop(p)
       [] stage.owner = "user" /\ There # {} ->
            stage' = Drop(First(There)) /\ UNCHANGED <<pc, holder>>
       [] OTHER -> stage' = Empty("none") /\ Stop(p)
  /\ UNCHANGED <<gen, next, bundle, runs, kills>>

-----------------------------------------------------------------------------
(* diagnose.sh --resume collects the evidence and writes the manifest.       *)
Report ==
  /\ holder = Nobody
  /\ manifest' = TRUE
  /\ reported' = IF marker /\ Whole(dest) THEN dest.meta.gen ELSE 0
  /\ UNCHANGED <<stage, pc, gen, next, dest, marker, holder, runs, kills>>

Kill(p) ==
  /\ pc[p] # "off" /\ kills < MaxKills /\ kills' = kills + 1 /\ Stop(p)
  /\ UNCHANGED <<stage, gen, next, bundle, runs>>

Step(p) ==
  \/ Dispatch(p) \/ Create(p) \/ Prune(p) \/ DiscardProven(p) \/ Discard(p) \/ CollectOne(p)
  \/ Bind(p) \/ Verify(p) \/ HandOver(p) \/ CleanupStage(p) \/ Admit(p) \/ InvalidateDerived(p)
  \/ DropMarker(p) \/ Copy(p) \/ Mark(p) \/ RemoveSource(p) \/ Kill(p)

Next == (\E p \in Procs : Step(p)) \/ Report

Spec == Init /\ [][Next]_vars

-----------------------------------------------------------------------------
(* Properties.                                                               *)

(* root-checks.done: the five files next to it are those of one hand-over,   *)
(* even if other invocations write into the stage while it is published.     *)
MarkedIsOneCollection == marker => Whole(dest)

(* A manifest never vouches for root evidence that was replaced since.       *)
ManifestIsCurrent ==
  manifest => reported = (IF marker THEN dest.meta.gen ELSE 0)

(* root-checks.sh:71: a stage orphaned by SIGKILL is recovered on the next   *)
(* run.                                                                      *)
OrphanIsRecoverable == (\A p \in Procs : pc[p] = "off") => Class # "unsafe"
=============================================================================
