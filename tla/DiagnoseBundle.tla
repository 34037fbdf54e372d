--------------------------- MODULE DiagnoseBundle ---------------------------
(* The bundle of diagnose.sh: completion markers, metadata, evidence, the    *)
(* redo transaction, the derived report and the readiness manifest, written  *)
(* by one session at a time that may be interrupted or die between any two   *)
(* of its durable steps.                                                     *)
EXTENDS Naturals, Sequences, FiniteSets

CONSTANTS
  Phases,       \* the phases of the bundle, in the order they run
  Parts,        \* the artifacts of a phase; the last one completes the evidence
  Restartable,  \* the phases that continue an incomplete attempt
  Settings,     \* values of the configuration key that describes a phase
  Modes,        \* the presets a command may name (--quick, --full)
  Preset,       \* Preset[m]: what a preset sets every key to
  Redos,        \* the --redo lists commands are given
  MaxId,        \* bound: artifacts ever written as new generations
  MaxTxn,       \* bound: redo transactions
  MaxStops,     \* bound: crashes and interruptions
  None

PhaseSet == {Phases[i] : i \in 1..Len(Phases)}
PartSet  == {Parts[i] : i \in 1..Len(Parts)}
Final    == Parts[Len(Parts)]
Results  == <<"derived", "results">>   \* results.json, report.md and the privacy review
Paths    == (PhaseSet \X PartSet) \cup {Results}
Default  == CHOOSE s \in Settings : TRUE

ASSUME DiagnoseAssumption ==
  /\ Phases \in Seq(STRING) /\ Parts \in Seq(STRING) /\ Len(Parts) > 0
  /\ Restartable \subseteq PhaseSet /\ Redos \subseteq SUBSET PhaseSet
  /\ Preset \in [Modes -> Settings] /\ None \notin Modes \cup Settings /\ Settings # {}
  /\ {MaxId, MaxTxn, MaxStops} \subseteq Nat

VARIABLES
  meta,      \* results/meta.env: how far it got, the configuration, COMPLETED_PHASES
  marker,    \* state/phase-*.done: "none", "blank" (mode 000) or "done"
  tree,      \* which generation of a path is in place, 0 when it is absent
  archive,   \* what is under state/superseded
  pending,   \* state/redo.pending: its phases, its target and the paths it records
  manifest,  \* manifest.txt: what it describes
  data,      \* history: what each generation was made from
  lastId, lastTxn, stops,
  pc, cfg, plan, at,   \* the session that holds the lock
  strays     \* a workload group that outlived its session and holds the lock

disk == <<meta, marker, tree, archive, pending, manifest, data, lastId, lastTxn>>
vars == <<disk, stops, pc, cfg, plan, at, strays>>

-----------------------------------------------------------------------------
(* Configuration, plans and what validates what.                             *)

(* The phase whose evidence chooses the CPUs of p.                           *)
Source(p) ==
  IF p \in {"individual", "pinned-concurrent"} /\ "groups" \in PhaseSet THEN "groups"
  ELSE IF p \in {"frequency", "gdb"} /\ "individual" \in PhaseSet THEN "individual"
  ELSE None

(* Phases run after their sources, and none has the derived report for an    *)
(* artifact.                                                                 *)
ASSUME OrderAssumption ==
  /\ \A i \in 1..Len(Phases) : Source(Phases[i]) # None =>
       \E j \in 1..(i - 1) : Phases[j] = Source(Phases[i])
  /\ Results \notin PhaseSet \X PartSet

(* Mutant: GDB is not taken for a dependent of the individual phase.         *)
ClosureShort(S) == IF "groups" \in S THEN S \cup {"individual"} ELSE S

Closure(S) ==
  LET a == IF "preflight" \in S THEN PhaseSet ELSE S
      b == IF "groups" \in a THEN a \cup {"individual", "pinned-concurrent"} ELSE a
      c == IF "individual" \in b THEN b \cup {"frequency", "gdb"} ELSE b
  IN c \cap PhaseSet

Uniform(s) == [p \in PhaseSet |-> s]

(* A command line: the phases to redo, a preset or None, and explicit keys.  *)
Requests == [redo : Redos, mode : Modes \cup {None},
             set : {f \in [PhaseSet -> Settings \cup {None}] :
                      Cardinality({p \in PhaseSet : f[p] # None}) <= 1}]

(* parse_args: the preset first, explicit keys over it.                      *)
Effective(r, stored) ==
  LET base == IF r.mode = None THEN stored
              ELSE [mode |-> r.mode, key |-> Uniform(Preset[r.mode])]
  IN [base EXCEPT !.key = [p \in PhaseSet |-> IF r.set[p] = None THEN @[p] ELSE r.set[p]]]

Done(p)      == marker[p] = "done"
Attempted(p) == \E a \in PartSet : tree[<<p, a>>] # 0
IdOf(p)      == tree[<<p, Final>>]

(* The evidence validators: every part of one generation, made under the     *)
(* configuration and from the source evidence in place.                      *)
OneGeneration(p) == IdOf(p) # 0 /\ \A a \in PartSet : tree[<<p, a>>] = IdOf(p)
Configured(p, c) == data[IdOf(p)].setting = c.key[p]
FromSource(p)    == Source(p) # None => data[IdOf(p)].from = IdOf(Source(p))

Valid(p, c) == OneGeneration(p) /\ Configured(p, c) /\ FromSource(p)

(* What a report made now says: the evidence of every completed phase.       *)
Summary == {<<p, IdOf(p)>> : p \in {q \in PhaseSet : Done(q)}}
Snapshot == [meta |-> meta, marker |-> marker, tree |-> tree]

(* require_redo_for_completed_change                                         *)
ChangeAllowed(p, S) == (Done(p) \/ Attempted(p)) => p \in S

OverridesAllowed(r, S) ==
  /\ r.mode # None /\ r.mode # meta.mode => \A p \in PhaseSet : ChangeAllowed(p, S)
  /\ \A p \in PhaseSet : r.set[p] # None /\ r.set[p] # meta.key[p] => ChangeAllowed(p, S)

(* The pending transaction.                                                  *)
Archived(t, x) == \E e \in archive : e.txn = t /\ e.path = x

(* Mutant: a move that was already made counts as a conflict.                *)
PairsUnmoved == \A x \in pending.records : tree[x] # 0 /\ ~Archived(pending.txn, x)

PairsRecoverable ==
  \A x \in pending.records : (tree[x] # 0) # Archived(pending.txn, x)

(* redo_transaction_validate: a closed set of phases and artifacts of theirs. *)
MarkerValid ==
  /\ pending.phases # {} /\ Closure(pending.phases) = pending.phases
  /\ \A x \in pending.records : x = Results \/ x[1] \in pending.phases

TargetAuthorized ==
  /\ pending.cfg.mode # meta.mode => \A p \in PhaseSet : ChangeAllowed(p, pending.phases)
  /\ \A p \in PhaseSet :
       pending.cfg.key[p] # meta.key[p] => ChangeAllowed(p, pending.phases)

Config(m) == [mode |-> m.mode, key |-> m.key]

RequestMatches(r) ==
  /\ r.redo # {} => Closure(r.redo) = pending.phases
  /\ r.mode # None => Effective(r, Config(meta)) = pending.cfg
  /\ \A p \in PhaseSet : r.set[p] # None => pending.cfg.key[p] = r.set[p]

(* Everything a session checks before it changes anything. A bundle that     *)
(* never got past its initialization is recovered as a fresh one.            *)
Accepts(r) ==
  \/ meta.state \in {"absent", "partial"} /\ r.redo = {}
  \/ /\ meta.state = "ready"
     /\ \A p \in PhaseSet : marker[p] # "blank"
     /\ IF pending # None
        THEN MarkerValid /\ PairsRecoverable /\ TargetAuthorized /\ RequestMatches(r)
        ELSE OverridesAllowed(r, Closure(r.redo))

-----------------------------------------------------------------------------
(* Sessions.                                                                 *)

NoMeta == [state |-> "absent", mode |-> None, key |-> Uniform(Default), done |-> {}]

Init ==
  /\ meta = NoMeta
  /\ marker = [p \in PhaseSet |-> "none"]
  /\ tree = [x \in Paths |-> 0]
  /\ archive = {} /\ pending = None /\ manifest = None
  /\ data = <<>> /\ lastId = 0 /\ lastTxn = 0 /\ stops = 0
  /\ pc = "idle" /\ cfg = None /\ plan = {} /\ at = 0
  /\ strays = FALSE

Idle == pc = "idle" /\ ~strays
EndSession == pc' = "idle" /\ cfg' = None /\ plan' = {} /\ at' = 0

(* main up to the first mutation: the lock, the stored or fresh              *)
(* configuration, the pending redo, the overrides, consent.                  *)
Open(r) ==
  /\ Idle /\ Accepts(r)
  /\ IF pending # None
     THEN cfg' = pending.cfg /\ plan' = {}
     ELSE cfg' = Effective(r, Config(meta)) /\ plan' = Closure(r.redo)
  /\ meta' = IF meta.state = "ready" THEN meta ELSE NoMeta
  /\ pc' = "revoke" /\ at' = 1
  /\ UNCHANGED <<marker, tree, archive, pending, manifest, data, lastId, lastTxn, stops, strays>>

(* Mutant: only finalization revokes the manifest.                           *)
RevokeLate ==
  /\ pc = "revoke" /\ manifest' = manifest
  /\ pc' = IF meta.state = "ready" THEN "configure" ELSE "create"
  /\ UNCHANGED <<meta, marker, tree, archive, pending, data, lastId, lastTxn, stops, cfg, plan, at, strays>>

(* derived_run_open: readiness is revoked before anything else changes.      *)
Revoke ==
  /\ pc = "revoke"
  /\ manifest' = None
  /\ pc' = IF meta.state = "ready" THEN "configure" ELSE "create"
  /\ UNCHANGED <<meta, marker, tree, archive, pending, data, lastId, lastTxn, stops, cfg, plan, at, strays>>

(* Fresh metadata is created empty and then filled.                          *)
CreateMeta ==
  /\ pc = "create"
  /\ IF meta.state = "absent"
     THEN meta' = [meta EXCEPT !.state = "partial"] /\ pc' = "create"
     ELSE meta' = [state |-> "ready", mode |-> cfg.mode, key |-> cfg.key, done |-> {}]
          /\ pc' = "configure"
  /\ UNCHANGED <<marker, tree, archive, pending, manifest, data, lastId, lastTxn, stops, cfg, plan, at, strays>>

(* apply_redo_plan up to the rename of the marker, which records every       *)
(* artifact that is present.                                                 *)
Present(S) == {x \in Paths : tree[x] # 0 /\ (x = Results \/ x[1] \in S)}

(* Recovery of a pending redo, a new redo, or the effective configuration.   *)
Configure ==
  /\ pc = "configure"
  /\ IF pending # None \/ plan # {}
     THEN /\ meta' = meta /\ pc' = "redo"
          /\ IF pending # None THEN UNCHANGED <<pending, lastTxn>>
             ELSE /\ lastTxn < MaxTxn
                  /\ lastTxn' = lastTxn + 1
                  /\ pending' = [txn |-> lastTxn', phases |-> plan, cfg |-> cfg,
                                 records |-> Present(plan)]
     ELSE /\ meta' = [meta EXCEPT !.mode = cfg.mode, !.key = cfg.key]
          /\ pc' = "phases"
          /\ UNCHANGED <<pending, lastTxn>>
  /\ UNCHANGED <<marker, tree, archive, manifest, data, lastId, stops, cfg, plan, at, strays>>

-----------------------------------------------------------------------------
(* redo_transaction_execute, one durable step at a time.                     *)

(* Mutant: the published target is not looked at again.                      *)
ExecutingAnyway == pc = "redo" /\ pending # None /\ MarkerValid

(* The checks of the published transaction; one of them refuses a target     *)
(* that the command line was not refused for.                                *)
Executing == pc = "redo" /\ pending # None /\ MarkerValid /\ TargetAuthorized
Marked == {p \in pending.phases : marker[p] # "none"}
Unmoved == {x \in pending.records : tree[x] # 0}

(* The order of the records, and of the moves.                               *)
Order ==
  LET n == Len(Parts)
  IN <<Results>> \o [i \in 1..(Len(Phases) * n) |->
                      <<Phases[((i - 1) \div n) + 1], Parts[((i - 1) % n) + 1]>>]

(* Every completion marker of the closure goes before the first move.        *)
RedoUnmark ==
  /\ Executing /\ PairsRecoverable
  /\ \E p \in Marked : marker' = [marker EXCEPT ![p] = "none"]
  /\ UNCHANGED <<meta, tree, archive, pending, manifest, data, lastId, lastTxn, stops, pc, cfg, plan, at, strays>>

RedoMove ==
  /\ Executing /\ Marked = {}
  /\ \E i \in 1..Len(Order) :
       /\ Order[i] \in Unmoved /\ \A j \in 1..(i - 1) : Order[j] \notin Unmoved
       /\ archive' = archive \cup
                       {[txn |-> pending.txn, path |-> Order[i], id |-> tree[Order[i]]]}
       /\ tree' = [tree EXCEPT ![Order[i]] = 0]
  /\ UNCHANGED <<meta, marker, pending, manifest, data, lastId, lastTxn, stops, pc, cfg, plan, at, strays>>

(* rewrite_meta_atomic 1 1: configuration and completion in one rename.      *)
RedoMeta ==
  /\ Executing /\ Marked = {} /\ Unmoved = {}
  /\ meta' = [meta EXCEPT !.mode = cfg.mode, !.key = cfg.key,
                          !.done = {p \in PhaseSet : Done(p)}]
  /\ pc' = "clear"
  /\ UNCHANGED <<marker, tree, archive, pending, manifest, data, lastId, lastTxn, stops, cfg, plan, at, strays>>

RedoClear ==
  /\ pc = "clear"
  /\ pending' = None /\ pc' = "phases"
  /\ UNCHANGED <<meta, marker, tree, archive, manifest, data, lastId, lastTxn, stops, cfg, plan, at, strays>>

-----------------------------------------------------------------------------
(* The phases, in order.                                                     *)

Here == Phases[at]
Working == pc = "phases" /\ at <= Len(Phases)

(* Mutant: an attempt that left artifacts is taken for a completed phase.    *)
SkipAttempted ==
  /\ Working /\ (Done(Here) \/ Attempted(Here))
  /\ at' = at + 1
  /\ UNCHANGED <<disk, stops, pc, cfg, plan, strays>>

(* A completed phase is skipped when its evidence validates.                 *)
SkipPhase ==
  /\ Working /\ Done(Here) /\ Valid(Here, cfg)
  /\ at' = at + 1
  /\ UNCHANGED <<disk, stops, pc, cfg, plan, strays>>

(* An incomplete attempt that may be continued: the parts in place are a     *)
(* prefix made under this configuration from the source in place.            *)
Continues(p) ==
  /\ p \in Restartable /\ tree[<<p, Parts[1]>>] # 0
  /\ LET d == data[tree[<<p, Parts[1]>>]]
     IN d.setting = cfg.key[p] /\ (Source(p) # None => d.from = IdOf(Source(p)))

Missing(p) == {i \in 1..Len(Parts) : tree[<<p, Parts[i]>>] = 0}

(* Mutant: leftovers are written over.                                       *)
BeginOver ==
  /\ Working /\ ~Done(Here)
  /\ lastId < MaxId
  /\ lastId' = lastId + 1
  /\ data' = Append(data, [setting |-> cfg.key[Here], covers |-> {},
                           from |-> IF Source(Here) = None THEN 0 ELSE IdOf(Source(Here))])
  /\ tree' = [tree EXCEPT ![<<Here, Parts[1]>>] = lastId']
  /\ pc' = "running"
  /\ UNCHANGED <<meta, marker, archive, pending, manifest, lastTxn, stops, cfg, plan, at, strays>>

(* The workload of a phase begins: its first artifact. Leftovers of another  *)
(* attempt are refused, and archived only by a redo.                         *)
BeginPhase ==
  /\ Working /\ ~Done(Here) /\ ~Attempted(Here)
  /\ lastId < MaxId
  /\ lastId' = lastId + 1
  /\ data' = Append(data, [setting |-> cfg.key[Here], covers |-> {},
                           from |-> IF Source(Here) = None THEN 0 ELSE IdOf(Source(Here))])
  /\ tree' = [tree EXCEPT ![<<Here, Parts[1]>>] = lastId']
  /\ pc' = "running"
  /\ UNCHANGED <<meta, marker, archive, pending, manifest, lastTxn, stops, cfg, plan, at, strays>>

ContinuePhase ==
  /\ Working /\ ~Done(Here) /\ Attempted(Here)
  /\ Continues(Here)
  /\ pc' = "running"
  /\ UNCHANGED <<disk, stops, cfg, plan, at, strays>>

(* The other artifacts, the completing metadata last.                        *)
WritePart ==
  /\ pc = "running"
  /\ \E i \in Missing(Here) :
       /\ \A j \in Missing(Here) : i <= j
       /\ tree' = [tree EXCEPT ![<<Here, Parts[i]>>] = tree[<<Here, Parts[1]>>]]
  /\ UNCHANGED <<meta, marker, archive, pending, manifest, data, lastId, lastTxn, stops, pc, cfg, plan, at, strays>>

(* mark_done: a mode-000 inode, its mode, then COMPLETED_PHASES.             *)
MarkOpen ==
  /\ pc = "running" /\ Missing(Here) = {} /\ Valid(Here, cfg)
  /\ marker[Here] = "none"
  /\ marker' = [marker EXCEPT ![Here] = "blank"]
  /\ pc' = "mark"
  /\ UNCHANGED <<meta, tree, archive, pending, manifest, data, lastId, lastTxn, stops, cfg, plan, at, strays>>

MarkPublish ==
  /\ pc = "mark"
  /\ marker' = [marker EXCEPT ![Here] = "done"]
  /\ pc' = "marked"
  /\ UNCHANGED <<meta, tree, archive, pending, manifest, data, lastId, lastTxn, stops, cfg, plan, at, strays>>

MarkMeta ==
  /\ pc = "marked"
  /\ meta' = [meta EXCEPT !.done = {p \in PhaseSet : Done(p)}]
  /\ pc' = "phases" /\ at' = at + 1
  /\ UNCHANGED <<marker, tree, archive, pending, manifest, data, lastId, lastTxn, stops, cfg, plan, strays>>

(* phase_marker_publish_rollback after a failure short of the rename; the    *)
(* session then dies.                                                        *)
MarkFails ==
  /\ pc \in {"mark", "marked"}
  /\ marker' = [marker EXCEPT ![Here] = "none"]
  /\ EndSession
  /\ UNCHANGED <<meta, tree, archive, pending, manifest, data, lastId, lastTxn, stops, strays>>

-----------------------------------------------------------------------------
(* Finalization, also entered by the interrupt handler.                      *)

FinalizeBegin ==
  /\ \/ pc = "phases" /\ at > Len(Phases)
     \/ pc = "partial"
  /\ \A p \in PhaseSet : marker[p] # "blank"
  /\ manifest' = None
  /\ meta' = [meta EXCEPT !.done = {p \in PhaseSet : Done(p)}]
  /\ pc' = "collect"
  /\ UNCHANGED <<marker, tree, archive, pending, data, lastId, lastTxn, stops, cfg, plan, at, strays>>

Collect ==
  /\ pc = "collect" /\ lastId < MaxId
  /\ lastId' = lastId + 1
  /\ data' = Append(data, [setting |-> None, from |-> 0, covers |-> Summary])
  /\ tree' = [tree EXCEPT ![Results] = lastId']
  /\ pc' = "ready"
  /\ UNCHANGED <<meta, marker, archive, pending, manifest, lastTxn, stops, cfg, plan, at, strays>>

WriteManifest ==
  /\ pc = "ready"
  /\ manifest' = Snapshot
  /\ EndSession
  /\ UNCHANGED <<meta, marker, tree, archive, pending, data, lastId, lastTxn, stops, strays>>

(* on_interrupt: readiness revoked, then a partial report unless a redo is   *)
(* pending.                                                                  *)
Interrupt ==
  /\ pc \notin {"idle", "revoke", "create", "partial"} /\ stops < MaxStops
  /\ stops' = stops + 1
  /\ manifest' = None
  /\ IF pending # None THEN EndSession ELSE pc' = "partial" /\ UNCHANGED <<cfg, plan, at>>
  /\ UNCHANGED <<meta, marker, tree, archive, pending, data, lastId, lastTxn, strays>>

(* The same handler before the metadata is whole: the end time it records is *)
(* no key of an initialization, so what is left is neither a fresh bundle    *)
(* nor one with a stored configuration.                                      *)
InterruptCreate ==
  /\ pc = "create" /\ stops < MaxStops
  /\ stops' = stops + 1
  /\ meta' = [meta EXCEPT !.state = "foreign"]
  /\ EndSession
  /\ UNCHANGED <<marker, tree, archive, pending, manifest, data, lastId, lastTxn, strays>>

(* SIGKILL, a hard reset, or diag_die: nothing more is written. A workload   *)
(* group may live on, and its copy of the descriptor keeps the lock.         *)
Crash ==
  /\ pc # "idle" /\ stops < MaxStops
  /\ stops' = stops + 1
  /\ strays' \in {FALSE, pc = "running"}
  /\ EndSession
  /\ UNCHANGED disk

StrayExits ==
  /\ strays /\ strays' = FALSE
  /\ UNCHANGED <<disk, stops, pc, cfg, plan, at>>

(* A session dies by itself where a check fails: leftovers, evidence that    *)
(* does not validate, or a redo that would relabel what it leaves in place.  *)
Refuse ==
  /\ \/ Working /\ Done(Here) /\ ~Valid(Here, cfg)
     \/ Working /\ ~Done(Here) /\ Attempted(Here) /\ ~Continues(Here)
     \/ pc = "redo" /\ pending # None /\ ~TargetAuthorized
     \/ pc = "partial" /\ \E p \in PhaseSet : marker[p] = "blank"
  /\ EndSession
  /\ UNCHANGED <<disk, stops, strays>>

Step ==
  \/ Revoke \/ CreateMeta \/ Configure
  \/ RedoUnmark \/ RedoMove \/ RedoMeta \/ RedoClear
  \/ SkipPhase \/ BeginPhase \/ ContinuePhase \/ WritePart
  \/ MarkOpen \/ MarkPublish \/ MarkMeta
  \/ FinalizeBegin \/ Collect \/ WriteManifest \/ Refuse

Next ==
  \/ \E r \in Requests : Open(r)
  \/ Step \/ MarkFails \/ Interrupt \/ InterruptCreate \/ Crash \/ StrayExits

Plain == [redo |-> {}, mode |-> None, set |-> [p \in PhaseSet |-> None]]

(* A session runs on, a workload group ends, and a pending redo is resumed   *)
(* as the message the interrupted session leaves asks.                       *)
Fairness == WF_vars(Step) /\ WF_vars(StrayExits) /\ WF_vars(pending # None /\ Open(Plain))

Spec == Init /\ [][Next]_vars /\ Fairness

-----------------------------------------------------------------------------
(* Properties.                                                               *)

TypeOK ==
  /\ meta \in [state : {"absent", "partial", "foreign", "ready"}, mode : Modes \cup {None},
               key : [PhaseSet -> Settings], done : SUBSET PhaseSet]
  /\ marker \in [PhaseSet -> {"none", "blank", "done"}]
  /\ tree \in [Paths -> 0..lastId]
  /\ \A e \in archive : e.txn \in 1..lastTxn /\ e.path \in Paths /\ e.id \in 1..lastId
  /\ Len(data) = lastId /\ lastId \in 0..MaxId /\ lastTxn \in 0..MaxTxn
  /\ stops \in 0..MaxStops /\ strays \in BOOLEAN
  /\ pc \in {"idle", "revoke", "create", "configure", "redo", "clear", "phases", "running",
             "mark", "marked", "partial", "collect", "ready"}

(* A completion marker stands over whole evidence, made under the stored     *)
(* configuration and from the source evidence in place.                      *)
MarkedAsConfigured == \A p \in PhaseSet : Done(p) => Valid(p, meta)

(* A key has the value of the preset that is stored.                         *)
Reset(p) == meta.mode # None /\ meta.key[p] = Preset[meta.mode]

(* Whole evidence of its configuration, or of one that a repeated preset     *)
(* has reset the key of.                                                     *)
Stands(p) == OneGeneration(p) /\ FromSource(p) /\ (Configured(p, meta) \/ Reset(p))

(* The same, also between any two steps of a redo and whatever a later       *)
(* command line said, except that a preset named again may have reset the    *)
(* key under a marker (validate_completed_phase_overrides looks at MODE).    *)
MarkedIsWhole == \A p \in PhaseSet : Done(p) => Stands(p)

(* A redo that was published and refused: nothing of it has been done.       *)
Untouched ==
  \A x \in pending.records : tree[x] # 0 /\ ~Archived(pending.txn, x)

(* Its target has the preset the bundle already had, so a command that named *)
(* it again was not asked for the phases whose keys it resets.               *)
RepeatsPreset == meta.mode # None /\ pending.cfg.mode = meta.mode

(* A redo cut short anywhere can be taken up by a plain resume: each of its  *)
(* records is on exactly one side and its target relabels nothing.  Only one *)
(* that a repeated preset was published with cannot, and it has moved        *)
(* nothing (redo_transaction_execute, reconcile_pending_redo_request).       *)
PendingRecoverable ==
  pending # None =>
    /\ MarkerValid /\ PairsRecoverable
    /\ ~TargetAuthorized => RepeatsPreset /\ Untouched

(* Evidence is archived, never deleted or written over: every generation of  *)
(* a phase is in place or under the transaction that moved it, and not both. *)
NothingLost ==
  \A n \in 1..lastId : data[n].setting # None =>
    \E p \in PhaseSet :
      \/ tree[<<p, Parts[1]>>] = n /\ \A e \in archive : e.path = <<p, Parts[1]>> => e.id # n
      \/ tree[<<p, Parts[1]>>] # n /\ \E e \in archive : e.path = <<p, Parts[1]>> /\ e.id = n

(* The manifest is a readiness token: while it exists it describes the       *)
(* bundle exactly, and its report covers the phases that are complete.       *)
ManifestExact ==
  manifest # None =>
    /\ manifest = Snapshot
    /\ data[tree[Results]].covers = Summary
    /\ meta.done = {p \in PhaseSet : Done(p)}

(* A pending redo is finished once the bundle is resumed, but for one with a *)
(* target that every resume refuses.                                         *)
RedoFinishes == (pending # None /\ TargetAuthorized) ~> (pending = None)

(* A bundle at rest can be resumed, if need be with a redo.                  *)
AlwaysResumable == Idle => \E r \in Requests : Accepts(r)

(* The promise behind it, without files: phases complete from complete       *)
(* sources, and are given up only with everything made from them.            *)
InForce(p) ==
  /\ Done(p) /\ ~(pc = "marked" /\ p = Here)   \* a marker may still be rolled back
  /\ pending # None => p \notin pending.phases
Current == [p \in PhaseSet |-> IF InForce(p) THEN IdOf(p) ELSE 0]
Gone == {e.id : e \in {a \in archive : a.path # Results}} \cup
        (IF pending = None THEN {} ELSE {tree[x] : x \in Unmoved \ {Results}})
History == INSTANCE EvidenceHistory WITH current <- Current, gone <- Gone
HistorySpec == History!Spec
=============================================================================
