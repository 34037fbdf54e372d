------------------------- MODULE DiagnoseBundleProofs -------------------------
(***************************************************************************)
(* The bundle of diagnose.sh and its redo transactions, for all values of   *)
(* the constants.  The inductive invariant comes in three layers, each      *)
(* proved over the ones before it: BundleInv says where evidence is,        *)
(* RedoInv what a marker and a pending redo may rely on, HistoryInv which   *)
(* artifacts belong together.  The first holds for every command line, the  *)
(* other two of a bundle that no preset is named for (DiagnoseRelabel.cfg   *)
(* shows what a repeated preset does); they carry the refinement of         *)
(* EvidenceHistory.                                                         *)
(***************************************************************************)
EXTENDS DiagnoseBundle, Integers, SequenceTheorems, TLAPS
-----------------------------------------------------------------------------
\* The stages of a session that is past its configuration.
InPhases == {"phases", "running", "mark", "marked"}

First(p)      == tree[<<p, Parts[1]>>]
Generation    == [setting : Settings \cup {None}, from : Nat, covers : SUBSET (PhaseSet \X Nat)]
Configuration == [mode : Modes \cup {None}, key : [PhaseSet -> Settings]]

MetaSpace     == [state : {"absent", "partial", "foreign", "ready"}, mode : Modes \cup {None},
                  key : [PhaseSet -> Settings], done : SUBSET PhaseSet]

HistoryTyped == data \in Seq(Generation)

\* What a session has decided, and what a redo has announced.
SessionTyped ==
  /\ pc # "idle" => cfg \in Configuration /\ plan \subseteq PhaseSet /\ Closure(plan) = plan
  /\ pc # "idle" => at \in 1..(Len(Phases) + 1)
  /\ pc \in {"running", "mark", "marked"} => at <= Len(Phases)
  /\ pc \in {"revoke", "create", "configure", "redo", "clear"} => at = 1

PendingTyped ==
  pending # None => pending \in [txn : 1..lastTxn, phases : SUBSET PhaseSet,
                                 cfg : Configuration, records : SUBSET Paths]

\* Nothing is there before the metadata is whole.
FreshIsEmpty ==
  meta.state # "ready" =>
    /\ pc \in {"idle", "revoke", "create"}
    /\ meta.state = "foreign" => pc = "idle"
    /\ \A p \in PhaseSet : marker[p] = "none"
    /\ \A x \in Paths : tree[x] = 0
    /\ pending = None /\ manifest = None

CreatesOnce == pc \in {"create"} => meta.state # "ready"

\* While a redo is pending nothing else is done.
PendingAlone == pending # None => pc \in {"idle", "revoke", "configure", "redo", "clear"}

\* A redo that only has its marker left has moved everything.
ClearIsLast == pc = "clear" /\ pending # None => Marked = {} /\ Unmoved = {}

\* The manifest is there at rest only; what it needs is settled before it is written.
ManifestSettled ==
  /\ manifest # None => pc \in {"idle", "revoke"}
  /\ pc \in {"collect", "ready"} => meta.done = {p \in PhaseSet : Done(p)}
  /\ pc = "ready" => tree[Results] # 0 /\ data[tree[Results]].covers = Summary

\* Every generation of a phase has a place, and its first artifact one only.
HasPlace ==
  \A n \in 1..lastId : data[n].setting # None =>
    \E p \in PhaseSet : First(p) = n \/ \E e \in archive : e.path = <<p, Parts[1]>> /\ e.id = n

MovedOnce ==
  \A p \in PhaseSet, e \in archive : e.path = <<p, Parts[1]>> => e.id # First(p)

BundleInv ==
  /\ TypeOK /\ HistoryTyped /\ SessionTyped /\ PendingTyped /\ FreshIsEmpty /\ CreatesOnce
  /\ PendingAlone /\ ClearIsLast /\ ManifestSettled /\ ManifestExact /\ HasPlace /\ MovedOnce

-----------------------------------------------------------------------------
(* Paths, phases and closures.                                               *)

LEMMA PathFacts ==
  /\ Results \in Paths /\ Parts[1] \in PartSet /\ Final \in PartSet
  /\ \A p \in PhaseSet, a \in PartSet : <<p, a>> \in Paths /\ <<p, a>> # Results
  /\ \A x \in Paths \ {Results} : \E p \in PhaseSet, a \in PartSet : x = <<p, a>> /\ x[1] = p
BY DiagnoseAssumption, OrderAssumption DEF Paths, PartSet, Final

LEMMA PhaseFacts ==
  /\ Len(Phases) \in Nat
  /\ \A i \in 1..Len(Phases) : Phases[i] \in PhaseSet
  /\ \A p \in PhaseSet : Source(p) # None => Source(p) \in PhaseSet
  /\ \A i \in 1..Len(Phases) : Source(Phases[i]) # None =>
       \E j \in 1..(i - 1) : j \in 1..Len(Phases) /\ Phases[j] = Source(Phases[i])
<1>1. Len(Phases) \in Nat
  BY DiagnoseAssumption
<1>2. \A i \in 1..Len(Phases) : Phases[i] \in PhaseSet
  BY DEF PhaseSet
<1>3. \A p \in PhaseSet : Source(p) # None => Source(p) \in PhaseSet
  BY DEF Source
<1>4. \A i \in 1..Len(Phases) : Source(Phases[i]) # None =>
        \E j \in 1..(i - 1) : j \in 1..Len(Phases) /\ Phases[j] = Source(Phases[i])
  <2> TAKE i \in 1..Len(Phases)
  <2> HAVE Source(Phases[i]) # None
  <2>1. PICK j \in 1..(i - 1) : Phases[j] = Source(Phases[i])
    BY OrderAssumption
  <2>2. QED
    BY <1>1, <2>1
<1>5. QED
  BY <1>1, <1>2, <1>3, <1>4

LEMMA ClosureFacts ==
  ASSUME NEW S \in SUBSET PhaseSet
  PROVE  /\ Closure(S) \subseteq PhaseSet /\ S \subseteq Closure(S)
         /\ Closure(Closure(S)) = Closure(S)
<1>1. Closure(S) \subseteq PhaseSet /\ S \subseteq Closure(S)
  BY DEF Closure
<1>2. \A p : p \in Closure(Closure(S)) <=> p \in Closure(S)
  BY DEF Closure
<1>3. QED
  BY <1>1, <1>2

LEMMA EmptyIsClosed == Closure({}) = {}
BY DEF Closure

\* A closed set of phases has all that was derived from one of it.
LEMMA ClosedHasDerived ==
  ASSUME NEW S \in SUBSET PhaseSet, Closure(S) = S, NEW p \in PhaseSet,
         Source(p) # None, Source(p) \in S
  PROVE  p \in S
BY DEF Closure, Source

LEMMA AppendFacts ==
  ASSUME NEW G, NEW s \in Seq(G), NEW g \in G
  PROVE  /\ Append(s, g) \in Seq(G) /\ Len(Append(s, g)) = Len(s) + 1
         /\ Append(s, g)[Len(s) + 1] = g
         /\ \A n \in 1..Len(s) : Append(s, g)[n] = s[n]
OBVIOUS

LEMMA EffectiveTyped ==
  ASSUME NEW r \in Requests, NEW c \in Configuration
  PROVE  /\ Effective(r, c) \in Configuration
         /\ r.mode = None => /\ Effective(r, c).mode = c.mode
                             /\ \A p \in PhaseSet : Effective(r, c).key[p] =
                                  IF r.set[p] = None THEN c.key[p] ELSE r.set[p]
         /\ r.mode # None => /\ Effective(r, c).mode = r.mode
                             /\ \A p \in PhaseSet : Effective(r, c).key[p] =
                                  IF r.set[p] = None THEN Preset[r.mode] ELSE r.set[p]
<1>1. /\ r.mode \in Modes \cup {None} /\ r.redo \in Redos
      /\ r.set \in [PhaseSet -> Settings \cup {None}]
  BY DEF Requests
<1> DEFINE base == IF r.mode = None THEN c ELSE [mode |-> r.mode, key |-> Uniform(Preset[r.mode])]
<1>2. base \in Configuration
  BY <1>1, DiagnoseAssumption DEF Configuration, Uniform
<1>3. Effective(r, c) = [base EXCEPT !.key = [p \in PhaseSet |->
                           IF r.set[p] = None THEN base.key[p] ELSE r.set[p]]]
  BY DEF Effective
<1>4. /\ r.mode = None => base = c
      /\ r.mode # None => base.mode = r.mode /\ \A p \in PhaseSet : base.key[p] = Preset[r.mode]
  BY DEF Uniform
<1> HIDE DEF base
<1>5. QED
  BY <1>1, <1>2, <1>3, <1>4 DEF Configuration

LEMMA NoMetaTyped == NoMeta \in MetaSpace
<1>1. Default \in Settings
  BY DiagnoseAssumption DEF Default
<1>2. QED
  BY <1>1 DEF NoMeta, MetaSpace, Uniform

LEMMA MetaUpdates ==
  ASSUME NEW m \in MetaSpace, NEW c \in Configuration, NEW D \in SUBSET PhaseSet
  PROVE  /\ [m EXCEPT !.mode = c.mode, !.key = c.key] \in MetaSpace
         /\ [m EXCEPT !.mode = c.mode, !.key = c.key, !.done = D] \in MetaSpace
         /\ [state |-> "ready", mode |-> c.mode, key |-> c.key, done |-> D] \in MetaSpace
         /\ [m EXCEPT !.done = D] \in MetaSpace
         /\ [m EXCEPT !.state = "partial"] \in MetaSpace
         /\ [m EXCEPT !.state = "foreign"] \in MetaSpace
BY DEF MetaSpace, Configuration

LEMMA TreeTyped ==
  ASSUME TypeOK
  PROVE  \A x \in Paths : tree[x] \in 0..lastId /\ tree[x] \in Nat
BY DEF TypeOK

LEMMA SummaryTyped ==
  ASSUME TypeOK
  PROVE  Summary \in SUBSET (PhaseSet \X Nat)
<1>1. \A p \in PhaseSet : IdOf(p) \in Nat
  BY PathFacts, TreeTyped DEF IdOf
<1>2. QED
  BY <1>1 DEF Summary

LEMMA ManifestKept ==
  ASSUME ManifestExact, UNCHANGED <<meta, marker, tree, data, manifest>>
  PROVE  ManifestExact'
<1>1. Snapshot' = Snapshot
  BY DEF Snapshot
<1>2. Summary' = Summary
  BY DEF Summary, Done, IdOf
<1>3. {p \in PhaseSet : Done(p)}' = {p \in PhaseSet : Done(p)}
  BY DEF Done
<1>4. QED
  BY <1>1, <1>2, <1>3 DEF ManifestExact

LEMMA InitBundle == Init => BundleInv
<1> SUFFICES ASSUME Init PROVE BundleInv
  OBVIOUS
<1>1. TypeOK
  <2>1. meta \in MetaSpace
    BY NoMetaTyped DEF Init
  <2>2. /\ tree \in [Paths -> 0..lastId] /\ lastId \in 0..MaxId
        /\ lastTxn \in 0..MaxTxn /\ stops \in 0..MaxStops
    BY DiagnoseAssumption DEF Init
  <2>3. marker \in [PhaseSet -> {"none", "blank", "done"}] /\ Len(data) = lastId /\ archive = {}
    BY DEF Init
  <2>4. pc = "idle" /\ strays = FALSE
    BY DEF Init
  <2>5. QED
    BY <2>1, <2>2, <2>3, <2>4 DEF TypeOK, MetaSpace
<1>2. HistoryTyped
  BY DiagnoseAssumption, PathFacts DEF Init, HistoryTyped, NoMeta, Uniform, Default
<1>3. SessionTyped
  BY DiagnoseAssumption, PathFacts DEF Init, SessionTyped, NoMeta, Uniform, Default
<1>4. PendingTyped
  BY DiagnoseAssumption, PathFacts DEF Init, PendingTyped, NoMeta, Uniform, Default
<1>5. FreshIsEmpty
  BY DiagnoseAssumption, PathFacts DEF Init, FreshIsEmpty, NoMeta, Uniform, Default
<1>6. CreatesOnce
  BY DiagnoseAssumption, PathFacts DEF Init, CreatesOnce, NoMeta, Uniform, Default
<1>7. PendingAlone
  BY DiagnoseAssumption, PathFacts DEF Init, PendingAlone, NoMeta, Uniform, Default
<1>8. ClearIsLast
  BY DiagnoseAssumption, PathFacts DEF Init, ClearIsLast, Marked, Unmoved, NoMeta, Uniform,
       Default
<1>9. ManifestSettled
  BY DiagnoseAssumption, PathFacts DEF Init, ManifestSettled, Done, Summary, IdOf, NoMeta,
       Uniform, Default
<1>10. ManifestExact
  BY DiagnoseAssumption, PathFacts DEF Init, ManifestExact, Snapshot, Summary, IdOf, Done,
       NoMeta, Uniform, Default
<1>11. HasPlace
  BY DiagnoseAssumption, PathFacts DEF Init, HasPlace, First, NoMeta, Uniform, Default
<1>12. MovedOnce
  BY DiagnoseAssumption, PathFacts DEF Init, MovedOnce, First, NoMeta, Uniform, Default
<1>13. QED
  BY <1>1, <1>2, <1>3, <1>4, <1>5, <1>6, <1>7, <1>8, <1>9, <1>10, <1>11, <1>12 DEF BundleInv

LEMMA NextBundle == BundleInv /\ [Next]_vars => BundleInv'
<1> SUFFICES ASSUME BundleInv, [Next]_vars PROVE BundleInv'
  OBVIOUS
<1>1. ASSUME NEW r \in Requests, Open(r) PROVE BundleInv'
  <2>1. TypeOK'
    <3>1. meta' \in MetaSpace
      BY <1>1, NoMetaTyped DEF BundleInv, TypeOK, MetaSpace, Open
    <3>3. QED
      BY <1>1, <3>1, PathFacts, DiagnoseAssumption DEF BundleInv, TypeOK, MetaSpace, Open, Idle
  <2>2. SessionTyped'
    <3>1. meta \in MetaSpace
      BY DEF BundleInv, TypeOK, MetaSpace
    <3>2. Config(meta) \in Configuration
      BY <3>1 DEF MetaSpace, Config, Configuration
    <3>3. Effective(r, Config(meta)) \in Configuration
      BY <3>2, EffectiveTyped
    <3>4. r.redo \in SUBSET PhaseSet
      BY DiagnoseAssumption DEF Requests
    <3>5. Closure(r.redo) \subseteq PhaseSet /\ Closure(Closure(r.redo)) = Closure(r.redo)
      BY <3>4, ClosureFacts
    <3>6. cfg' \in Configuration /\ plan' \subseteq PhaseSet /\ Closure(plan') = plan'
      BY <1>1, <3>3, <3>5, EmptyIsClosed DEF BundleInv, PendingTyped, Open
    <3>7. QED
      BY <1>1, <3>6, PhaseFacts DEF SessionTyped, Open
  <2>3. PendingTyped'
    BY <1>1, PathFacts, PhaseFacts DEF BundleInv, Open, Idle, Accepts, MarkerValid, Config,
         NoMeta, Uniform, PendingTyped, SessionTyped, TypeOK, PendingAlone, FreshIsEmpty
  <2>4. FreshIsEmpty'
    BY <1>1, PathFacts, PhaseFacts DEF BundleInv, Open, Idle, Accepts, MarkerValid, Config,
         NoMeta, Uniform, FreshIsEmpty, SessionTyped, PendingTyped, TypeOK, PendingAlone
  <2>5. CreatesOnce'
    BY <1>1, PathFacts, PhaseFacts DEF BundleInv, Open, Idle, Accepts, MarkerValid, Config,
         NoMeta, Uniform, CreatesOnce, SessionTyped, PendingTyped, TypeOK, PendingAlone,
         FreshIsEmpty
  <2>6. PendingAlone'
    BY <1>1, PathFacts, PhaseFacts DEF BundleInv, Open, Idle, Accepts, MarkerValid, Config,
         NoMeta, Uniform, PendingAlone, SessionTyped, PendingTyped, TypeOK, FreshIsEmpty
  <2>7. ClearIsLast'
    BY <1>1, PathFacts, PhaseFacts DEF BundleInv, Open, Idle, Accepts, MarkerValid, Config,
         NoMeta, Uniform, ClearIsLast, Marked, Unmoved, SessionTyped, PendingTyped, TypeOK,
         PendingAlone, FreshIsEmpty
  <2>8. ManifestSettled'
    BY <1>1, PathFacts, PhaseFacts DEF BundleInv, Open, Idle, Accepts, MarkerValid, Config,
         NoMeta, Uniform, ManifestSettled, Done, Summary, IdOf, SessionTyped, PendingTyped,
         TypeOK, PendingAlone, FreshIsEmpty
  <2>9. ManifestExact'
    <3>1. CASE meta.state = "ready"
      BY <1>1, <3>1, ManifestKept DEF BundleInv, Open
    <3>2. CASE meta.state # "ready"
      BY <1>1, <3>2 DEF BundleInv, FreshIsEmpty, ManifestExact, Open
    <3>3. QED
      BY <3>1, <3>2
  <2>10. HistoryTyped'
    BY <1>1 DEF BundleInv, Open, HistoryTyped
  <2>11. HasPlace'
    BY <1>1 DEF BundleInv, Open, HasPlace, First
  <2>12. MovedOnce'
    BY <1>1 DEF BundleInv, Open, MovedOnce, First
  <2>13. QED
    BY <2>1, <2>2, <2>3, <2>4, <2>5, <2>6, <2>7, <2>8, <2>9, <2>10, <2>11, <2>12 DEF BundleInv
<1>2. CASE Revoke
  <2>1. TypeOK'
    BY <1>2, PathFacts, PhaseFacts DEF BundleInv, Revoke, TypeOK, SessionTyped, PendingTyped,
         PendingAlone, FreshIsEmpty
  <2>2. SessionTyped'
    BY <1>2, PathFacts, PhaseFacts DEF BundleInv, Revoke, SessionTyped, PendingTyped, TypeOK,
         PendingAlone, FreshIsEmpty
  <2>3. FreshIsEmpty'
    BY <1>2, PathFacts, PhaseFacts DEF BundleInv, Revoke, FreshIsEmpty, SessionTyped,
         PendingTyped, TypeOK, PendingAlone
  <2>4. CreatesOnce'
    BY <1>2, PathFacts, PhaseFacts DEF BundleInv, Revoke, CreatesOnce, SessionTyped,
         PendingTyped, TypeOK, PendingAlone, FreshIsEmpty
  <2>5. PendingAlone'
    BY <1>2, PathFacts, PhaseFacts DEF BundleInv, Revoke, PendingAlone, SessionTyped,
         PendingTyped, TypeOK, FreshIsEmpty
  <2>6. ClearIsLast'
    BY <1>2, PathFacts, PhaseFacts DEF BundleInv, Revoke, ClearIsLast, Marked, Unmoved,
         SessionTyped, PendingTyped, TypeOK, PendingAlone, FreshIsEmpty
  <2>7. ManifestSettled'
    BY <1>2, PathFacts, PhaseFacts DEF BundleInv, Revoke, ManifestSettled, Done, Summary, IdOf,
         SessionTyped, PendingTyped, TypeOK, PendingAlone, FreshIsEmpty
  <2>8. ManifestExact'
    BY <1>2 DEF ManifestExact, Revoke
  <2>9. HistoryTyped'
    BY <1>2 DEF BundleInv, Revoke, HistoryTyped
  <2>10. PendingTyped'
    BY <1>2 DEF BundleInv, Revoke, PendingTyped
  <2>11. HasPlace'
    BY <1>2 DEF BundleInv, Revoke, HasPlace, First
  <2>12. MovedOnce'
    BY <1>2 DEF BundleInv, Revoke, MovedOnce, First
  <2>13. QED
    BY <2>1, <2>2, <2>3, <2>4, <2>5, <2>6, <2>7, <2>8, <2>9, <2>10, <2>11, <2>12 DEF BundleInv
<1>3. CASE CreateMeta
  <2>1. TypeOK'
    <3>1. meta' \in MetaSpace
      <4>1. meta \in MetaSpace /\ cfg \in Configuration
        BY <1>3 DEF BundleInv, TypeOK, SessionTyped, MetaSpace, CreateMeta
      <4>2. QED
        BY <1>3, <4>1, MetaUpdates DEF CreateMeta
    <3>3. QED
      BY <1>3, <3>1, PathFacts, DiagnoseAssumption DEF BundleInv, TypeOK, MetaSpace, CreateMeta
  <2>2. SessionTyped'
    BY <1>3, PathFacts, PhaseFacts DEF BundleInv, CreateMeta, SessionTyped, PendingTyped,
         TypeOK, PendingAlone, FreshIsEmpty
  <2>3. FreshIsEmpty'
    BY <1>3, PathFacts, PhaseFacts DEF BundleInv, CreateMeta, FreshIsEmpty, SessionTyped,
         PendingTyped, TypeOK, PendingAlone
  <2>4. CreatesOnce'
    BY <1>3, PathFacts, PhaseFacts DEF BundleInv, CreateMeta, CreatesOnce, SessionTyped,
         PendingTyped, TypeOK, PendingAlone, FreshIsEmpty
  <2>5. PendingAlone'
    BY <1>3, PathFacts, PhaseFacts DEF BundleInv, CreateMeta, PendingAlone, SessionTyped,
         PendingTyped, TypeOK, FreshIsEmpty
  <2>6. ClearIsLast'
    BY <1>3, PathFacts, PhaseFacts DEF BundleInv, CreateMeta, ClearIsLast, Marked, Unmoved,
         SessionTyped, PendingTyped, TypeOK, PendingAlone, FreshIsEmpty
  <2>7. ManifestSettled'
    BY <1>3, PathFacts, PhaseFacts DEF BundleInv, CreateMeta, ManifestSettled, Done, Summary,
         IdOf, SessionTyped, PendingTyped, TypeOK, PendingAlone, FreshIsEmpty
  <2>8. ManifestExact'
    BY <1>3 DEF BundleInv, ManifestSettled, ManifestExact, CreateMeta
  <2>9. HistoryTyped'
    BY <1>3 DEF BundleInv, CreateMeta, HistoryTyped
  <2>10. PendingTyped'
    BY <1>3 DEF BundleInv, CreateMeta, PendingTyped
  <2>11. HasPlace'
    BY <1>3 DEF BundleInv, CreateMeta, HasPlace, First
  <2>12. MovedOnce'
    BY <1>3 DEF BundleInv, CreateMeta, MovedOnce, First
  <2>13. QED
    BY <2>1, <2>2, <2>3, <2>4, <2>5, <2>6, <2>7, <2>8, <2>9, <2>10, <2>11, <2>12 DEF BundleInv
<1>4. CASE Configure
  <2>1. TypeOK'
    <3>1. meta' \in MetaSpace
      <4>1. meta \in MetaSpace /\ cfg \in Configuration
        BY <1>4 DEF BundleInv, TypeOK, SessionTyped, MetaSpace, Configure
      <4>2. QED
        BY <1>4, <4>1, MetaUpdates DEF Configure
    <3>3. QED
      BY <1>4, <3>1, PathFacts, DiagnoseAssumption DEF BundleInv, TypeOK, MetaSpace, Configure
  <2>2. SessionTyped'
    BY <1>4, PathFacts, PhaseFacts DEF BundleInv, Configure, Present, SessionTyped,
         PendingTyped, TypeOK, PendingAlone, FreshIsEmpty
  <2>3. PendingTyped'
    BY <1>4, PathFacts, PhaseFacts DEF BundleInv, Configure, Present, PendingTyped,
         SessionTyped, TypeOK, PendingAlone, FreshIsEmpty
  <2>4. FreshIsEmpty'
    BY <1>4, PathFacts, PhaseFacts DEF BundleInv, Configure, Present, FreshIsEmpty,
         SessionTyped, PendingTyped, TypeOK, PendingAlone
  <2>5. CreatesOnce'
    BY <1>4, PathFacts, PhaseFacts DEF BundleInv, Configure, Present, CreatesOnce, SessionTyped,
         PendingTyped, TypeOK, PendingAlone, FreshIsEmpty
  <2>6. PendingAlone'
    BY <1>4, PathFacts, PhaseFacts DEF BundleInv, Configure, Present, PendingAlone,
         SessionTyped, PendingTyped, TypeOK, FreshIsEmpty
  <2>7. ClearIsLast'
    BY <1>4, PathFacts, PhaseFacts DEF BundleInv, Configure, Present, ClearIsLast, Marked,
         Unmoved, SessionTyped, PendingTyped, TypeOK, PendingAlone, FreshIsEmpty
  <2>8. ManifestSettled'
    BY <1>4, PathFacts, PhaseFacts DEF BundleInv, Configure, Present, ManifestSettled, Done,
         Summary, IdOf, SessionTyped, PendingTyped, TypeOK, PendingAlone, FreshIsEmpty
  <2>9. ManifestExact'
    BY <1>4 DEF BundleInv, ManifestSettled, ManifestExact, Configure
  <2>10. HistoryTyped'
    BY <1>4 DEF BundleInv, Configure, HistoryTyped
  <2>11. HasPlace'
    BY <1>4 DEF BundleInv, Configure, HasPlace, First
  <2>12. MovedOnce'
    BY <1>4 DEF BundleInv, Configure, MovedOnce, First
  <2>13. QED
    BY <2>1, <2>2, <2>3, <2>4, <2>5, <2>6, <2>7, <2>8, <2>9, <2>10, <2>11, <2>12 DEF BundleInv
<1>5. CASE RedoUnmark
  <2>1. TypeOK'
    BY <1>5, PathFacts, PhaseFacts DEF BundleInv, RedoUnmark, Executing, MarkerValid, Marked,
         TypeOK, SessionTyped, PendingTyped, PendingAlone, FreshIsEmpty
  <2>2. FreshIsEmpty'
    BY <1>5, PathFacts, PhaseFacts DEF BundleInv, RedoUnmark, Executing, MarkerValid, Marked,
         FreshIsEmpty, SessionTyped, PendingTyped, TypeOK, PendingAlone
  <2>3. ClearIsLast'
    BY <1>5, PathFacts, PhaseFacts DEF BundleInv, RedoUnmark, Executing, MarkerValid, Marked,
         ClearIsLast, Unmoved, SessionTyped, PendingTyped, TypeOK, PendingAlone, FreshIsEmpty
  <2>4. ManifestSettled'
    BY <1>5, PathFacts, PhaseFacts DEF BundleInv, RedoUnmark, Executing, MarkerValid, Marked,
         ManifestSettled, Done, Summary, IdOf, SessionTyped, PendingTyped, TypeOK, PendingAlone,
         FreshIsEmpty
  <2>5. ManifestExact'
    BY <1>5 DEF BundleInv, ManifestSettled, ManifestExact, RedoUnmark, Executing
  <2>6. HistoryTyped'
    BY <1>5 DEF BundleInv, RedoUnmark, HistoryTyped
  <2>7. SessionTyped'
    BY <1>5 DEF BundleInv, RedoUnmark, SessionTyped
  <2>8. PendingTyped'
    BY <1>5 DEF BundleInv, RedoUnmark, PendingTyped
  <2>9. CreatesOnce'
    BY <1>5 DEF BundleInv, RedoUnmark, CreatesOnce
  <2>10. PendingAlone'
    BY <1>5 DEF BundleInv, RedoUnmark, PendingAlone
  <2>11. HasPlace'
    BY <1>5 DEF BundleInv, RedoUnmark, HasPlace, First
  <2>12. MovedOnce'
    BY <1>5 DEF BundleInv, RedoUnmark, MovedOnce, First
  <2>13. QED
    BY <2>1, <2>2, <2>3, <2>4, <2>5, <2>6, <2>7, <2>8, <2>9, <2>10, <2>11, <2>12 DEF BundleInv
<1>6. CASE RedoMove
  <2>1. PICK i \in 1..Len(Order) : /\ Order[i] \in Unmoved
            /\ archive' = archive \cup {[txn |-> pending.txn, path |-> Order[i],
                id |-> tree[Order[i]]]}
            /\ tree' = [tree EXCEPT ![Order[i]] = 0]
    BY <1>6 DEF RedoMove
  <2>2. /\ Order[i] \in Paths /\ tree[Order[i]] \in 1..lastId /\ tree \in [Paths -> 0..lastId]
       /\ pending.txn \in 1..lastTxn /\ lastId \in Nat
    BY <1>6, <2>1, DiagnoseAssumption DEF BundleInv, TypeOK, PendingTyped, RedoMove, Executing,
      Unmoved
  <2>3. TypeOK'
    <3>1. tree' \in [Paths -> 0..lastId']
      BY <1>6, <2>1, <2>2 DEF RedoMove
    <3>2. \A e \in archive' : e.txn \in 1..lastTxn /\ e.path \in Paths /\ e.id \in 1..lastId
      BY <2>1, <2>2 DEF BundleInv, TypeOK
    <3>3. QED
      BY <1>6, <3>1, <3>2 DEF BundleInv, TypeOK, RedoMove
  <2>4. FreshIsEmpty'
    BY <1>6, <2>1, <2>2, PathFacts, PhaseFacts DEF BundleInv, RedoMove, Executing, MarkerValid,
         Marked, Unmoved, FreshIsEmpty, SessionTyped, PendingTyped, TypeOK, PendingAlone
  <2>5. ClearIsLast'
    BY <1>6, <2>1, <2>2, PathFacts, PhaseFacts DEF BundleInv, RedoMove, Executing, MarkerValid,
         Marked, Unmoved, ClearIsLast, SessionTyped, PendingTyped, TypeOK, PendingAlone,
         FreshIsEmpty
  <2>6. ManifestSettled'
    BY <1>6, <2>1, <2>2, PathFacts, PhaseFacts DEF BundleInv, RedoMove, Executing, MarkerValid,
         Marked, Unmoved, ManifestSettled, Done, Summary, IdOf, SessionTyped, PendingTyped,
         TypeOK, PendingAlone, FreshIsEmpty
  <2>7. ManifestExact'
    BY <1>6 DEF BundleInv, ManifestSettled, ManifestExact, RedoMove, Executing
  <2>8. HasPlace'
    <3>1. ASSUME NEW n \in 1..lastId, data[n].setting # None
          PROVE  \E p \in PhaseSet : First(p)' = n
                                     \/ \E e \in archive' : e.path = <<p, Parts[1]>> /\ e.id = n
      <4>1. PICK p \in PhaseSet : First(p) = n
                                  \/ \E e \in archive : e.path = <<p, Parts[1]>> /\ e.id = n
        BY <3>1 DEF BundleInv, HasPlace
      <4>2. CASE Order[i] = <<p, Parts[1]>> /\ First(p) = n
        <5> DEFINE e == [txn |-> pending.txn, path |-> Order[i], id |-> tree[Order[i]]]
        <5>1. e \in archive' /\ e.path = <<p, Parts[1]>> /\ e.id = n
          BY <2>1, <4>2 DEF First
        <5>2. QED
          BY <5>1
      <4>3. CASE Order[i] # <<p, Parts[1]>>
        <5>1. First(p)' = First(p)
          BY <2>1, <2>2, <4>3, PathFacts DEF First
        <5>2. QED
          BY <2>1, <4>1, <5>1
      <4>4. QED
        BY <2>1, <4>1, <4>2, <4>3
    <3>2. QED
      BY <1>6, <3>1 DEF HasPlace, RedoMove
  <2>9. MovedOnce'
    <3>1. ASSUME NEW p \in PhaseSet, NEW e \in archive', e.path = <<p, Parts[1]>>
          PROVE  e.id # First(p)'
      <4>0. e.id \in 1..lastId
        BY <2>1, <2>2 DEF BundleInv, TypeOK
      <4>1. CASE Order[i] = <<p, Parts[1]>>
        BY <2>1, <2>2, <4>0, <4>1 DEF First
      <4>2. CASE Order[i] # <<p, Parts[1]>>
        <5>1. First(p)' = First(p)
          BY <2>1, <2>2, <4>2, PathFacts DEF First
        <5>2. e \in archive
          BY <2>1, <3>1, <4>2
        <5>3. QED
          BY <3>1, <5>1, <5>2 DEF BundleInv, MovedOnce
      <4>3. QED
        BY <4>1, <4>2
    <3>2. QED
      BY <3>1 DEF MovedOnce
  <2>10. HistoryTyped'
    BY <1>6 DEF BundleInv, RedoMove, HistoryTyped
  <2>11. SessionTyped'
    BY <1>6 DEF BundleInv, RedoMove, SessionTyped
  <2>12. PendingTyped'
    BY <1>6 DEF BundleInv, RedoMove, PendingTyped
  <2>13. CreatesOnce'
    BY <1>6 DEF BundleInv, RedoMove, CreatesOnce
  <2>14. PendingAlone'
    BY <1>6 DEF BundleInv, RedoMove, PendingAlone
  <2>15. QED
    BY <2>3, <2>4, <2>5, <2>6, <2>7, <2>8, <2>9, <2>10, <2>11, <2>12, <2>13, <2>14 DEF BundleInv
<1>7. CASE RedoMeta
  <2>1. TypeOK'
    <3>1. meta' \in MetaSpace
      <4>1. meta \in MetaSpace /\ cfg \in Configuration
        BY <1>7 DEF BundleInv, TypeOK, SessionTyped, MetaSpace, RedoMeta, Executing
      <4>2. QED
        BY <1>7, <4>1, MetaUpdates DEF RedoMeta
    <3>3. QED
      BY <1>7, <3>1, PathFacts, DiagnoseAssumption DEF BundleInv, TypeOK, MetaSpace, RedoMeta,
        Executing
  <2>2. SessionTyped'
    BY <1>7, PathFacts, PhaseFacts DEF BundleInv, RedoMeta, Executing, MarkerValid, Marked,
         Unmoved, Done, SessionTyped, PendingTyped, TypeOK, PendingAlone, FreshIsEmpty
  <2>3. FreshIsEmpty'
    BY <1>7, PathFacts, PhaseFacts DEF BundleInv, RedoMeta, Executing, MarkerValid, Marked,
         Unmoved, Done, FreshIsEmpty, SessionTyped, PendingTyped, TypeOK, PendingAlone
  <2>4. CreatesOnce'
    BY <1>7, PathFacts, PhaseFacts DEF BundleInv, RedoMeta, Executing, MarkerValid, Marked,
         Unmoved, Done, CreatesOnce, SessionTyped, PendingTyped, TypeOK, PendingAlone,
         FreshIsEmpty
  <2>5. PendingAlone'
    BY <1>7, PathFacts, PhaseFacts DEF BundleInv, RedoMeta, Executing, MarkerValid, Marked,
         Unmoved, Done, PendingAlone, SessionTyped, PendingTyped, TypeOK, FreshIsEmpty
  <2>6. ClearIsLast'
    BY <1>7, PathFacts, PhaseFacts DEF BundleInv, RedoMeta, Executing, MarkerValid, Marked,
         Unmoved, Done, ClearIsLast, SessionTyped, PendingTyped, TypeOK, PendingAlone,
         FreshIsEmpty
  <2>7. ManifestSettled'
    BY <1>7, PathFacts, PhaseFacts DEF BundleInv, RedoMeta, Executing, MarkerValid, Marked,
         Unmoved, Done, ManifestSettled, Summary, IdOf, SessionTyped, PendingTyped, TypeOK,
         PendingAlone, FreshIsEmpty
  <2>8. ManifestExact'
    BY <1>7 DEF BundleInv, ManifestSettled, ManifestExact, RedoMeta, Executing
  <2>9. HistoryTyped'
    BY <1>7 DEF BundleInv, RedoMeta, HistoryTyped
  <2>10. PendingTyped'
    BY <1>7 DEF BundleInv, RedoMeta, PendingTyped
  <2>11. HasPlace'
    BY <1>7 DEF BundleInv, RedoMeta, HasPlace, First
  <2>12. MovedOnce'
    BY <1>7 DEF BundleInv, RedoMeta, MovedOnce, First
  <2>13. QED
    BY <2>1, <2>2, <2>3, <2>4, <2>5, <2>6, <2>7, <2>8, <2>9, <2>10, <2>11, <2>12 DEF BundleInv
<1>8. CASE RedoClear
  <2>1. TypeOK'
    BY <1>8, PathFacts, PhaseFacts DEF BundleInv, RedoClear, TypeOK, SessionTyped, PendingTyped,
         PendingAlone, FreshIsEmpty
  <2>2. SessionTyped'
    BY <1>8, PathFacts, PhaseFacts DEF BundleInv, RedoClear, SessionTyped, PendingTyped, TypeOK,
         PendingAlone, FreshIsEmpty
  <2>3. PendingTyped'
    BY <1>8, PathFacts, PhaseFacts DEF BundleInv, RedoClear, PendingTyped, SessionTyped, TypeOK,
         PendingAlone, FreshIsEmpty
  <2>4. FreshIsEmpty'
    BY <1>8, PathFacts, PhaseFacts DEF BundleInv, RedoClear, FreshIsEmpty, SessionTyped,
         PendingTyped, TypeOK, PendingAlone
  <2>5. CreatesOnce'
    BY <1>8, PathFacts, PhaseFacts DEF BundleInv, RedoClear, CreatesOnce, SessionTyped,
         PendingTyped, TypeOK, PendingAlone, FreshIsEmpty
  <2>6. PendingAlone'
    BY <1>8, PathFacts, PhaseFacts DEF BundleInv, RedoClear, PendingAlone, SessionTyped,
         PendingTyped, TypeOK, FreshIsEmpty
  <2>7. ClearIsLast'
    BY <1>8, PathFacts, PhaseFacts DEF BundleInv, RedoClear, ClearIsLast, Marked, Unmoved,
         SessionTyped, PendingTyped, TypeOK, PendingAlone, FreshIsEmpty
  <2>8. ManifestSettled'
    BY <1>8, PathFacts, PhaseFacts DEF BundleInv, RedoClear, ManifestSettled, Done, Summary,
         IdOf, SessionTyped, PendingTyped, TypeOK, PendingAlone, FreshIsEmpty
  <2>9. ManifestExact'
    BY <1>8 DEF BundleInv, ManifestSettled, ManifestExact, RedoClear
  <2>10. HistoryTyped'
    BY <1>8 DEF BundleInv, RedoClear, HistoryTyped
  <2>11. HasPlace'
    BY <1>8 DEF BundleInv, RedoClear, HasPlace, First
  <2>12. MovedOnce'
    BY <1>8 DEF BundleInv, RedoClear, MovedOnce, First
  <2>13. QED
    BY <2>1, <2>2, <2>3, <2>4, <2>5, <2>6, <2>7, <2>8, <2>9, <2>10, <2>11, <2>12 DEF BundleInv
<1>9. CASE SkipPhase
  <2>1. SessionTyped'
    BY <1>9, PathFacts, PhaseFacts DEF BundleInv, SkipPhase, Working, Done, Here, Valid,
         OneGeneration, IdOf, Configured, FromSource, disk, SessionTyped, PendingTyped, TypeOK,
         PendingAlone, FreshIsEmpty
  <2>2. ManifestExact'
    BY <1>9 DEF BundleInv, ManifestSettled, ManifestExact, SkipPhase, Working, Here, disk
  <2>3. TypeOK'
    BY <1>9 DEF BundleInv, SkipPhase, disk, TypeOK
  <2>4. HistoryTyped'
    BY <1>9 DEF BundleInv, SkipPhase, disk, HistoryTyped
  <2>5. PendingTyped'
    BY <1>9 DEF BundleInv, SkipPhase, disk, PendingTyped
  <2>6. FreshIsEmpty'
    BY <1>9 DEF BundleInv, SkipPhase, disk, FreshIsEmpty
  <2>7. CreatesOnce'
    BY <1>9 DEF BundleInv, SkipPhase, disk, CreatesOnce
  <2>8. PendingAlone'
    BY <1>9 DEF BundleInv, SkipPhase, disk, PendingAlone
  <2>9. ClearIsLast'
    BY <1>9 DEF BundleInv, SkipPhase, disk, ClearIsLast, Marked, Unmoved
  <2>10. ManifestSettled'
    BY <1>9 DEF BundleInv, SkipPhase, disk, ManifestSettled, Done, Summary, IdOf
  <2>11. HasPlace'
    BY <1>9 DEF BundleInv, SkipPhase, disk, HasPlace, First
  <2>12. MovedOnce'
    BY <1>9 DEF BundleInv, SkipPhase, disk, MovedOnce, First
  <2>13. QED
    BY <2>1, <2>2, <2>3, <2>4, <2>5, <2>6, <2>7, <2>8, <2>9, <2>10, <2>11, <2>12 DEF BundleInv
<1>10. CASE BeginPhase
  <2>1. Here \in PhaseSet /\ cfg \in Configuration /\ <<Here, Parts[1]>> \in Paths
    BY <1>10, PhaseFacts, PathFacts DEF BundleInv, SessionTyped, BeginPhase, Working, Here
  <2>2. [setting |-> cfg.key[Here], covers |-> {},
         from |-> IF Source(Here) = None THEN 0 ELSE IdOf(Source(Here))] \in Generation
    <3>1. cfg.key[Here] \in Settings
      BY <2>1 DEF Configuration
    <3>2. (IF Source(Here) = None THEN 0 ELSE IdOf(Source(Here))) \in Nat
      BY <2>1, PhaseFacts, PathFacts, TreeTyped DEF BundleInv, IdOf
    <3>3. QED
      BY <3>1, <3>2 DEF Generation
  <2>3. /\ data' \in Seq(Generation) /\ Len(data') = lastId + 1 /\ lastId' = lastId + 1
       /\ data'[lastId + 1].setting = cfg.key[Here] /\ \A n \in 1..lastId : data'[n] = data[n]
       /\ data'[lastId + 1].covers = {}
    <3>1. data \in Seq(Generation) /\ Len(data) = lastId
      BY DEF BundleInv, TypeOK, HistoryTyped
    <3>2. QED
      BY <1>10, <2>2, <3>1, AppendFacts DEF BeginPhase
  <2>4. lastId \in Nat /\ lastId' \in 0..MaxId /\ lastId \notin 1..(lastId - 1)
    BY <1>10, <2>3, DiagnoseAssumption DEF BundleInv, TypeOK, BeginPhase
  <2>5. tree' = [tree EXCEPT ![<<Here, Parts[1]>>] = lastId + 1] /\ tree \in [Paths -> 0..lastId]
    BY <1>10 DEF BundleInv, TypeOK, BeginPhase
  <2>6. TypeOK'
    <3>1. tree' \in [Paths -> 0..lastId']
      BY <2>1, <2>3, <2>4, <2>5
    <3>2. \A e \in archive : e.id \in 1..lastId'
      BY <2>3, <2>4 DEF BundleInv, TypeOK
    <3>3. QED
      BY <1>10, <2>3, <2>4, <3>1, <3>2 DEF BundleInv, TypeOK, BeginPhase
  <2>7. HistoryTyped'
    BY <2>3 DEF HistoryTyped
  <2>8. SessionTyped'
    BY <1>10, <2>1, <2>2, <2>3, <2>4, <2>5, PathFacts, PhaseFacts DEF BundleInv, BeginPhase,
         Working, Done, Here, Attempted, IdOf, SessionTyped, PendingTyped, TypeOK, PendingAlone,
         FreshIsEmpty
  <2>9. FreshIsEmpty'
    BY <1>10, <2>1, <2>2, <2>3, <2>4, <2>5, PathFacts, PhaseFacts DEF BundleInv, BeginPhase,
         Working, Done, Here, Attempted, IdOf, FreshIsEmpty, SessionTyped, PendingTyped, TypeOK,
         PendingAlone
  <2>10. CreatesOnce'
    BY <1>10, <2>1, <2>2, <2>3, <2>4, <2>5, PathFacts, PhaseFacts DEF BundleInv, BeginPhase,
         Working, Done, Here, Attempted, IdOf, CreatesOnce, SessionTyped, PendingTyped, TypeOK,
         PendingAlone, FreshIsEmpty
  <2>11. PendingAlone'
    BY <1>10, <2>1, <2>2, <2>3, <2>4, <2>5, PathFacts, PhaseFacts DEF BundleInv, BeginPhase,
         Working, Done, Here, Attempted, IdOf, PendingAlone, SessionTyped, PendingTyped, TypeOK,
         FreshIsEmpty
  <2>12. ClearIsLast'
    BY <1>10, <2>1, <2>2, <2>3, <2>4, <2>5, PathFacts, PhaseFacts DEF BundleInv, BeginPhase,
         Working, Done, Here, Attempted, IdOf, ClearIsLast, Marked, Unmoved, SessionTyped,
         PendingTyped, TypeOK, PendingAlone, FreshIsEmpty
  <2>13. ManifestSettled'
    BY <1>10, <2>1, <2>2, <2>3, <2>4, <2>5, PathFacts, PhaseFacts DEF BundleInv, BeginPhase,
         Working, Done, Here, Attempted, IdOf, ManifestSettled, Summary, SessionTyped,
         PendingTyped, TypeOK, PendingAlone, FreshIsEmpty
  <2>14. ManifestExact'
    BY <1>10 DEF BundleInv, ManifestSettled, ManifestExact, BeginPhase, Working, Here
  <2>15. HasPlace'
    <3>1. ASSUME NEW n \in 1..lastId', data'[n].setting # None
          PROVE  \E p \in PhaseSet : First(p)' = n
                                     \/ \E e \in archive' : e.path = <<p, Parts[1]>> /\ e.id = n
      <4>1. CASE n = lastId + 1
        BY <2>1, <2>5, <4>1 DEF First
      <4>2. CASE n \in 1..lastId
        <5>1. PICK p \in PhaseSet : First(p) = n
                                    \/ \E e \in archive : e.path = <<p, Parts[1]>> /\ e.id = n
          BY <2>3, <3>1, <4>2 DEF BundleInv, HasPlace
        <5>2. First(p) = n => p # Here
          <6>1. First(Here) = 0
            BY <1>10, PathFacts DEF BeginPhase, Attempted, First
          <6>2. n # 0
            BY <4>2
          <6>3. QED
            BY <6>1, <6>2
        <5>3. p # Here => First(p)' = First(p)
          BY <2>1, <2>5, PathFacts DEF First
        <5>4. archive' = archive
          BY <1>10 DEF BeginPhase
        <5>5. QED
          BY <5>1, <5>2, <5>3, <5>4
      <4>3. QED
        BY <2>3, <2>4, <3>1, <4>1, <4>2
    <3>2. QED
      BY <3>1 DEF HasPlace
  <2>16. MovedOnce'
    <3>1. ASSUME NEW p \in PhaseSet, NEW e \in archive, e.path = <<p, Parts[1]>>
          PROVE  e.id # First(p)'
      <4>1. e.id \in 1..lastId /\ e.id # First(p)
        BY <3>1 DEF BundleInv, TypeOK, MovedOnce
      <4>2. First(p)' = First(p) \/ First(p)' = lastId + 1
        BY <2>1, <2>5, PathFacts DEF First
      <4>3. QED
        BY <2>4, <4>1, <4>2
    <3>2. archive' = archive
      BY <1>10 DEF BeginPhase
    <3>3. QED
      BY <3>1, <3>2 DEF MovedOnce
  <2>17. PendingTyped'
    BY <1>10 DEF BundleInv, BeginPhase, PendingTyped
  <2>18. QED
    BY <2>6, <2>7, <2>8, <2>9, <2>10, <2>11, <2>12, <2>13, <2>14, <2>15, <2>16, <2>17 DEF
         BundleInv
<1>11. CASE ContinuePhase
  <2>1. TypeOK'
    BY <1>11, PathFacts, PhaseFacts DEF BundleInv, ContinuePhase, Working, Done, Here,
         Attempted, Continues, IdOf, disk, TypeOK, SessionTyped, PendingTyped, PendingAlone,
         FreshIsEmpty
  <2>2. SessionTyped'
    BY <1>11, PathFacts, PhaseFacts DEF BundleInv, ContinuePhase, Working, Done, Here,
         Attempted, Continues, IdOf, disk, SessionTyped, PendingTyped, TypeOK, PendingAlone,
         FreshIsEmpty
  <2>3. FreshIsEmpty'
    BY <1>11, PathFacts, PhaseFacts DEF BundleInv, ContinuePhase, Working, Done, Here,
         Attempted, Continues, IdOf, disk, FreshIsEmpty, SessionTyped, PendingTyped, TypeOK,
         PendingAlone
  <2>4. CreatesOnce'
    BY <1>11, PathFacts, PhaseFacts DEF BundleInv, ContinuePhase, Working, Done, Here,
         Attempted, Continues, IdOf, disk, CreatesOnce, SessionTyped, PendingTyped, TypeOK,
         PendingAlone, FreshIsEmpty
  <2>5. PendingAlone'
    BY <1>11, PathFacts, PhaseFacts DEF BundleInv, ContinuePhase, Working, Done, Here,
         Attempted, Continues, IdOf, disk, PendingAlone, SessionTyped, PendingTyped, TypeOK,
         FreshIsEmpty
  <2>6. ClearIsLast'
    BY <1>11, PathFacts, PhaseFacts DEF BundleInv, ContinuePhase, Working, Done, Here,
         Attempted, Continues, IdOf, disk, ClearIsLast, Marked, Unmoved, SessionTyped,
         PendingTyped, TypeOK, PendingAlone, FreshIsEmpty
  <2>7. ManifestSettled'
    BY <1>11, PathFacts, PhaseFacts DEF BundleInv, ContinuePhase, Working, Done, Here,
         Attempted, Continues, IdOf, disk, ManifestSettled, Summary, SessionTyped, PendingTyped,
         TypeOK, PendingAlone, FreshIsEmpty
  <2>8. ManifestExact'
    BY <1>11 DEF BundleInv, ManifestSettled, ManifestExact, ContinuePhase, Working, Here, disk
  <2>9. HistoryTyped'
    BY <1>11 DEF BundleInv, ContinuePhase, disk, HistoryTyped
  <2>10. PendingTyped'
    BY <1>11 DEF BundleInv, ContinuePhase, disk, PendingTyped
  <2>11. HasPlace'
    BY <1>11 DEF BundleInv, ContinuePhase, disk, HasPlace, First
  <2>12. MovedOnce'
    BY <1>11 DEF BundleInv, ContinuePhase, disk, MovedOnce, First
  <2>13. QED
    BY <2>1, <2>2, <2>3, <2>4, <2>5, <2>6, <2>7, <2>8, <2>9, <2>10, <2>11, <2>12 DEF BundleInv
<1>12. CASE WritePart
  <2>1. TypeOK'
    <3>1. tree' \in [Paths -> 0..lastId']
      <4>1. PICK i \in Missing(Here) :
                   tree' = [tree EXCEPT ![<<Here, Parts[i]>>] = tree[<<Here, Parts[1]>>]]
        BY <1>12 DEF WritePart
      <4>2. <<Here, Parts[1]>> \in Paths
        BY <1>12, PhaseFacts, PathFacts DEF BundleInv, SessionTyped, WritePart, Here
      <4>3. QED
        BY <1>12, <4>1, <4>2 DEF BundleInv, TypeOK, WritePart
    <3>2. QED
      BY <1>12, <3>1 DEF BundleInv, TypeOK, WritePart
  <2>2. FreshIsEmpty'
    BY <1>12, PathFacts, PhaseFacts DEF BundleInv, WritePart, Missing, Here, FreshIsEmpty,
         SessionTyped, PendingTyped, TypeOK, PendingAlone
  <2>3. ClearIsLast'
    BY <1>12, PathFacts, PhaseFacts DEF BundleInv, WritePart, Missing, Here, ClearIsLast,
         Marked, Unmoved, SessionTyped, PendingTyped, TypeOK, PendingAlone, FreshIsEmpty
  <2>4. ManifestSettled'
    BY <1>12, PathFacts, PhaseFacts DEF BundleInv, WritePart, Missing, Here, ManifestSettled,
         Done, Summary, IdOf, SessionTyped, PendingTyped, TypeOK, PendingAlone, FreshIsEmpty
  <2>5. ManifestExact'
    BY <1>12 DEF BundleInv, ManifestSettled, ManifestExact, WritePart, Here
  <2>6. HasPlace'
    <3>1. PICK i \in Missing(Here) :
                 tree' = [tree EXCEPT ![<<Here, Parts[i]>>] = tree[<<Here, Parts[1]>>]]
      BY <1>12 DEF WritePart
    <3>2. tree \in [Paths -> 0..lastId] /\ lastId \in Nat
      BY DiagnoseAssumption DEF BundleInv, TypeOK
    <3>3. \A p \in PhaseSet : First(p) # 0 => First(p)' = First(p)
      <4>1. TAKE p \in PhaseSet
      <4>2. HAVE First(p) # 0
      <4>3. <<p, Parts[1]>> \in Paths /\ <<p, Parts[1]>> # <<Here, Parts[i]>>
        BY <3>1, <4>2, PathFacts DEF Missing, First
      <4>4. QED
        BY <3>1, <3>2, <4>3 DEF First
    <3>4. UNCHANGED <<data, lastId, archive>>
      BY <1>12 DEF WritePart
    <3>5. QED
      BY <3>2, <3>3, <3>4, SMTT(30) DEF BundleInv, HasPlace
  <2>7. MovedOnce'
    <3>1. PICK i \in Missing(Here) :
                 tree' = [tree EXCEPT ![<<Here, Parts[i]>>] = tree[<<Here, Parts[1]>>]]
      BY <1>12 DEF WritePart
    <3>2. tree \in [Paths -> 0..lastId]
      BY DEF BundleInv, TypeOK
    <3>3. \A p \in PhaseSet : First(p)' = First(p)
      <4>1. TAKE p \in PhaseSet
      <4>2. QED
        BY <3>1, <3>2, PathFacts DEF First, Missing
    <3>4. QED
      BY <1>12, <3>3 DEF BundleInv, MovedOnce, WritePart
  <2>8. HistoryTyped'
    BY <1>12 DEF BundleInv, WritePart, HistoryTyped
  <2>9. SessionTyped'
    BY <1>12 DEF BundleInv, WritePart, SessionTyped
  <2>10. PendingTyped'
    BY <1>12 DEF BundleInv, WritePart, PendingTyped
  <2>11. CreatesOnce'
    BY <1>12 DEF BundleInv, WritePart, CreatesOnce
  <2>12. PendingAlone'
    BY <1>12 DEF BundleInv, WritePart, PendingAlone
  <2>13. QED
    BY <2>1, <2>2, <2>3, <2>4, <2>5, <2>6, <2>7, <2>8, <2>9, <2>10, <2>11, <2>12 DEF BundleInv
<1>13. CASE MarkOpen
  <2>1. TypeOK'
    BY <1>13, PathFacts, PhaseFacts DEF BundleInv, MarkOpen, Missing, Here, Valid,
         OneGeneration, IdOf, Configured, FromSource, TypeOK, SessionTyped, PendingTyped,
         PendingAlone, FreshIsEmpty
  <2>2. SessionTyped'
    BY <1>13, PathFacts, PhaseFacts DEF BundleInv, MarkOpen, Missing, Here, Valid,
         OneGeneration, IdOf, Configured, FromSource, SessionTyped, PendingTyped, TypeOK,
         PendingAlone, FreshIsEmpty
  <2>3. FreshIsEmpty'
    BY <1>13, PathFacts, PhaseFacts DEF BundleInv, MarkOpen, Missing, Here, Valid,
         OneGeneration, IdOf, Configured, FromSource, FreshIsEmpty, SessionTyped, PendingTyped,
         TypeOK, PendingAlone
  <2>4. CreatesOnce'
    BY <1>13, PathFacts, PhaseFacts DEF BundleInv, MarkOpen, Missing, Here, Valid,
         OneGeneration, IdOf, Configured, FromSource, CreatesOnce, SessionTyped, PendingTyped,
         TypeOK, PendingAlone, FreshIsEmpty
  <2>5. PendingAlone'
    BY <1>13, PathFacts, PhaseFacts DEF BundleInv, MarkOpen, Missing, Here, Valid,
         OneGeneration, IdOf, Configured, FromSource, PendingAlone, SessionTyped, PendingTyped,
         TypeOK, FreshIsEmpty
  <2>6. ClearIsLast'
    BY <1>13, PathFacts, PhaseFacts DEF BundleInv, MarkOpen, Missing, Here, Valid,
         OneGeneration, IdOf, Configured, FromSource, ClearIsLast, Marked, Unmoved,
         SessionTyped, PendingTyped, TypeOK, PendingAlone, FreshIsEmpty
  <2>7. ManifestSettled'
    BY <1>13, PathFacts, PhaseFacts DEF BundleInv, MarkOpen, Missing, Here, Valid,
         OneGeneration, IdOf, Configured, FromSource, ManifestSettled, Done, Summary,
         SessionTyped, PendingTyped, TypeOK, PendingAlone, FreshIsEmpty
  <2>8. ManifestExact'
    BY <1>13 DEF BundleInv, ManifestSettled, ManifestExact, MarkOpen, Here
  <2>9. HistoryTyped'
    BY <1>13 DEF BundleInv, MarkOpen, HistoryTyped
  <2>10. PendingTyped'
    BY <1>13 DEF BundleInv, MarkOpen, PendingTyped
  <2>11. HasPlace'
    BY <1>13 DEF BundleInv, MarkOpen, HasPlace, First
  <2>12. MovedOnce'
    BY <1>13 DEF BundleInv, MarkOpen, MovedOnce, First
  <2>13. QED
    BY <2>1, <2>2, <2>3, <2>4, <2>5, <2>6, <2>7, <2>8, <2>9, <2>10, <2>11, <2>12 DEF BundleInv
<1>14. CASE MarkPublish
  <2>1. TypeOK'
    BY <1>14, PathFacts, PhaseFacts DEF BundleInv, MarkPublish, Here, TypeOK, SessionTyped,
         PendingTyped, PendingAlone, FreshIsEmpty
  <2>2. SessionTyped'
    BY <1>14, PathFacts, PhaseFacts DEF BundleInv, MarkPublish, Here, SessionTyped,
         PendingTyped, TypeOK, PendingAlone, FreshIsEmpty
  <2>3. FreshIsEmpty'
    BY <1>14, PathFacts, PhaseFacts DEF BundleInv, MarkPublish, Here, FreshIsEmpty,
         SessionTyped, PendingTyped, TypeOK, PendingAlone
  <2>4. CreatesOnce'
    BY <1>14, PathFacts, PhaseFacts DEF BundleInv, MarkPublish, Here, CreatesOnce, SessionTyped,
         PendingTyped, TypeOK, PendingAlone, FreshIsEmpty
  <2>5. PendingAlone'
    BY <1>14, PathFacts, PhaseFacts DEF BundleInv, MarkPublish, Here, PendingAlone,
         SessionTyped, PendingTyped, TypeOK, FreshIsEmpty
  <2>6. ClearIsLast'
    BY <1>14, PathFacts, PhaseFacts DEF BundleInv, MarkPublish, Here, ClearIsLast, Marked,
         Unmoved, SessionTyped, PendingTyped, TypeOK, PendingAlone, FreshIsEmpty
  <2>7. ManifestSettled'
    BY <1>14, PathFacts, PhaseFacts DEF BundleInv, MarkPublish, Here, ManifestSettled, Done,
         Summary, IdOf, SessionTyped, PendingTyped, TypeOK, PendingAlone, FreshIsEmpty
  <2>8. ManifestExact'
    BY <1>14 DEF BundleInv, ManifestSettled, ManifestExact, MarkPublish, Here
  <2>9. HistoryTyped'
    BY <1>14 DEF BundleInv, MarkPublish, HistoryTyped
  <2>10. PendingTyped'
    BY <1>14 DEF BundleInv, MarkPublish, PendingTyped
  <2>11. HasPlace'
    BY <1>14 DEF BundleInv, MarkPublish, HasPlace, First
  <2>12. MovedOnce'
    BY <1>14 DEF BundleInv, MarkPublish, MovedOnce, First
  <2>13. QED
    BY <2>1, <2>2, <2>3, <2>4, <2>5, <2>6, <2>7, <2>8, <2>9, <2>10, <2>11, <2>12 DEF BundleInv
<1>15. CASE MarkMeta
  <2>1. TypeOK'
    BY <1>15, PathFacts, PhaseFacts DEF BundleInv, MarkMeta, Done, TypeOK, SessionTyped,
         PendingTyped, PendingAlone, FreshIsEmpty
  <2>2. SessionTyped'
    BY <1>15, PathFacts, PhaseFacts DEF BundleInv, MarkMeta, Done, SessionTyped, PendingTyped,
         TypeOK, PendingAlone, FreshIsEmpty
  <2>3. FreshIsEmpty'
    BY <1>15, PathFacts, PhaseFacts DEF BundleInv, MarkMeta, Done, FreshIsEmpty, SessionTyped,
         PendingTyped, TypeOK, PendingAlone
  <2>4. CreatesOnce'
    BY <1>15, PathFacts, PhaseFacts DEF BundleInv, MarkMeta, Done, CreatesOnce, SessionTyped,
         PendingTyped, TypeOK, PendingAlone, FreshIsEmpty
  <2>5. PendingAlone'
    BY <1>15, PathFacts, PhaseFacts DEF BundleInv, MarkMeta, Done, PendingAlone, SessionTyped,
         PendingTyped, TypeOK, FreshIsEmpty
  <2>6. ClearIsLast'
    BY <1>15, PathFacts, PhaseFacts DEF BundleInv, MarkMeta, Done, ClearIsLast, Marked, Unmoved,
         SessionTyped, PendingTyped, TypeOK, PendingAlone, FreshIsEmpty
  <2>7. ManifestSettled'
    BY <1>15, PathFacts, PhaseFacts DEF BundleInv, MarkMeta, Done, ManifestSettled, Summary,
         IdOf, SessionTyped, PendingTyped, TypeOK, PendingAlone, FreshIsEmpty
  <2>8. ManifestExact'
    BY <1>15 DEF BundleInv, ManifestSettled, ManifestExact, MarkMeta
  <2>9. HistoryTyped'
    BY <1>15 DEF BundleInv, MarkMeta, HistoryTyped
  <2>10. PendingTyped'
    BY <1>15 DEF BundleInv, MarkMeta, PendingTyped
  <2>11. HasPlace'
    BY <1>15 DEF BundleInv, MarkMeta, HasPlace, First
  <2>12. MovedOnce'
    BY <1>15 DEF BundleInv, MarkMeta, MovedOnce, First
  <2>13. QED
    BY <2>1, <2>2, <2>3, <2>4, <2>5, <2>6, <2>7, <2>8, <2>9, <2>10, <2>11, <2>12 DEF BundleInv
<1>16. CASE FinalizeBegin
  <2>1. TypeOK'
    BY <1>16, PathFacts, PhaseFacts DEF BundleInv, FinalizeBegin, Done, TypeOK, SessionTyped,
         PendingTyped, PendingAlone, FreshIsEmpty
  <2>2. SessionTyped'
    BY <1>16, PathFacts, PhaseFacts DEF BundleInv, FinalizeBegin, Done, SessionTyped,
         PendingTyped, TypeOK, PendingAlone, FreshIsEmpty
  <2>3. FreshIsEmpty'
    BY <1>16, PathFacts, PhaseFacts DEF BundleInv, FinalizeBegin, Done, FreshIsEmpty,
         SessionTyped, PendingTyped, TypeOK, PendingAlone
  <2>4. CreatesOnce'
    BY <1>16, PathFacts, PhaseFacts DEF BundleInv, FinalizeBegin, Done, CreatesOnce,
         SessionTyped, PendingTyped, TypeOK, PendingAlone, FreshIsEmpty
  <2>5. PendingAlone'
    BY <1>16, PathFacts, PhaseFacts DEF BundleInv, FinalizeBegin, Done, PendingAlone,
         SessionTyped, PendingTyped, TypeOK, FreshIsEmpty
  <2>6. ClearIsLast'
    BY <1>16, PathFacts, PhaseFacts DEF BundleInv, FinalizeBegin, Done, ClearIsLast, Marked,
         Unmoved, SessionTyped, PendingTyped, TypeOK, PendingAlone, FreshIsEmpty
  <2>7. ManifestSettled'
    BY <1>16, PathFacts, PhaseFacts DEF BundleInv, FinalizeBegin, Done, ManifestSettled,
         Summary, IdOf, SessionTyped, PendingTyped, TypeOK, PendingAlone, FreshIsEmpty
  <2>8. ManifestExact'
    BY <1>16 DEF BundleInv, ManifestSettled, ManifestExact, FinalizeBegin
  <2>9. HistoryTyped'
    BY <1>16 DEF BundleInv, FinalizeBegin, HistoryTyped
  <2>10. PendingTyped'
    BY <1>16 DEF BundleInv, FinalizeBegin, PendingTyped
  <2>11. HasPlace'
    BY <1>16 DEF BundleInv, FinalizeBegin, HasPlace, First
  <2>12. MovedOnce'
    BY <1>16 DEF BundleInv, FinalizeBegin, MovedOnce, First
  <2>13. QED
    BY <2>1, <2>2, <2>3, <2>4, <2>5, <2>6, <2>7, <2>8, <2>9, <2>10, <2>11, <2>12 DEF BundleInv
<1>17. CASE Collect
  <2>1. Results \in Paths
    BY PathFacts
  <2>2. [setting |-> None, from |-> 0, covers |-> Summary] \in Generation
    BY SummaryTyped DEF BundleInv, Generation
  <2>3. /\ data' \in Seq(Generation) /\ Len(data') = lastId + 1 /\ lastId' = lastId + 1
       /\ data'[lastId + 1].setting = None /\ \A n \in 1..lastId : data'[n] = data[n]
       /\ data'[lastId + 1].covers = Summary
    <3>1. data \in Seq(Generation) /\ Len(data) = lastId
      BY DEF BundleInv, TypeOK, HistoryTyped
    <3>2. QED
      BY <1>17, <2>2, <3>1, AppendFacts DEF Collect
  <2>4. lastId \in Nat /\ lastId' \in 0..MaxId /\ lastId \notin 1..(lastId - 1)
    BY <1>17, <2>3, DiagnoseAssumption DEF BundleInv, TypeOK, Collect
  <2>5. tree' = [tree EXCEPT ![Results] = lastId + 1] /\ tree \in [Paths -> 0..lastId]
    BY <1>17 DEF BundleInv, TypeOK, Collect
  <2>6. TypeOK'
    <3>1. tree' \in [Paths -> 0..lastId']
      BY <2>1, <2>3, <2>4, <2>5
    <3>2. \A e \in archive : e.id \in 1..lastId'
      BY <2>3, <2>4 DEF BundleInv, TypeOK
    <3>3. QED
      BY <1>17, <2>3, <2>4, <3>1, <3>2 DEF BundleInv, TypeOK, Collect
  <2>7. HistoryTyped'
    BY <2>3 DEF HistoryTyped
  <2>8. SessionTyped'
    BY <1>17, <2>1, <2>2, <2>3, <2>4, <2>5, PathFacts, PhaseFacts DEF BundleInv, Collect,
         Summary, IdOf, Done, SessionTyped, PendingTyped, TypeOK, PendingAlone, FreshIsEmpty
  <2>9. FreshIsEmpty'
    BY <1>17, <2>1, <2>2, <2>3, <2>4, <2>5, PathFacts, PhaseFacts DEF BundleInv, Collect,
         Summary, IdOf, Done, FreshIsEmpty, SessionTyped, PendingTyped, TypeOK, PendingAlone
  <2>10. CreatesOnce'
    BY <1>17, <2>1, <2>2, <2>3, <2>4, <2>5, PathFacts, PhaseFacts DEF BundleInv, Collect,
         Summary, IdOf, Done, CreatesOnce, SessionTyped, PendingTyped, TypeOK, PendingAlone,
         FreshIsEmpty
  <2>11. PendingAlone'
    BY <1>17, <2>1, <2>2, <2>3, <2>4, <2>5, PathFacts, PhaseFacts DEF BundleInv, Collect,
         Summary, IdOf, Done, PendingAlone, SessionTyped, PendingTyped, TypeOK, FreshIsEmpty
  <2>12. ClearIsLast'
    BY <1>17, <2>1, <2>2, <2>3, <2>4, <2>5, PathFacts, PhaseFacts DEF BundleInv, Collect,
         Summary, IdOf, Done, ClearIsLast, Marked, Unmoved, SessionTyped, PendingTyped, TypeOK,
         PendingAlone, FreshIsEmpty
  <2>13. ManifestSettled'
    <3>1. Summary' = Summary
      <4>1. \A p \in PhaseSet : IdOf(p)' = IdOf(p)
        BY <2>5, PathFacts DEF IdOf
      <4>2. {q \in PhaseSet : Done(q)}' = {q \in PhaseSet : Done(q)}
        BY <1>17 DEF Collect, Done
      <4>3. QED
        BY <4>1, <4>2 DEF Summary
    <3>2. tree'[Results] = lastId + 1
      BY <2>1, <2>5
    <3>3. {p \in PhaseSet : Done(p)}' = {p \in PhaseSet : Done(p)}
      BY <1>17 DEF Collect, Done
    <3>4. QED
      BY <1>17, <2>3, <2>4, <3>1, <3>2, <3>3 DEF BundleInv, ManifestSettled, Collect
  <2>14. ManifestExact'
    BY <1>17 DEF BundleInv, ManifestSettled, ManifestExact, Collect
  <2>15. HasPlace'
    <3>1. ASSUME NEW n \in 1..lastId', data'[n].setting # None
          PROVE  n \in 1..lastId /\ data[n].setting # None
      BY <2>3, <2>4, <3>1
    <3>2. \A p \in PhaseSet : First(p)' = First(p)
      BY <2>5, PathFacts DEF First
    <3>3. archive' = archive
      BY <1>17 DEF Collect
    <3>4. QED
      BY <3>1, <3>2, <3>3 DEF BundleInv, HasPlace
  <2>16. MovedOnce'
    BY <1>17, <2>1, <2>2, <2>3, <2>4, <2>5, PathFacts, PhaseFacts DEF BundleInv, Collect,
         Summary, IdOf, Done, MovedOnce, First, SessionTyped, PendingTyped, TypeOK,
         PendingAlone, FreshIsEmpty
  <2>17. PendingTyped'
    BY <1>17 DEF BundleInv, Collect, PendingTyped
  <2>18. QED
    BY <2>6, <2>7, <2>8, <2>9, <2>10, <2>11, <2>12, <2>13, <2>14, <2>15, <2>16, <2>17 DEF
         BundleInv
<1>18. CASE WriteManifest
  <2>1. TypeOK'
    BY <1>18, PathFacts, PhaseFacts DEF BundleInv, WriteManifest, Snapshot, EndSession, TypeOK,
         SessionTyped, PendingTyped, PendingAlone, FreshIsEmpty
  <2>2. SessionTyped'
    BY <1>18, PathFacts, PhaseFacts DEF BundleInv, WriteManifest, Snapshot, EndSession,
         SessionTyped, PendingTyped, TypeOK, PendingAlone, FreshIsEmpty
  <2>3. PendingTyped'
    BY <1>18, PathFacts, PhaseFacts DEF BundleInv, WriteManifest, Snapshot, EndSession,
         PendingTyped, SessionTyped, TypeOK, PendingAlone, FreshIsEmpty
  <2>4. FreshIsEmpty'
    BY <1>18, PathFacts, PhaseFacts DEF BundleInv, WriteManifest, Snapshot, EndSession,
         FreshIsEmpty, SessionTyped, PendingTyped, TypeOK, PendingAlone
  <2>5. CreatesOnce'
    BY <1>18, PathFacts, PhaseFacts DEF BundleInv, WriteManifest, Snapshot, EndSession,
         CreatesOnce, SessionTyped, PendingTyped, TypeOK, PendingAlone, FreshIsEmpty
  <2>6. PendingAlone'
    BY <1>18, PathFacts, PhaseFacts DEF BundleInv, WriteManifest, Snapshot, EndSession,
         PendingAlone, SessionTyped, PendingTyped, TypeOK, FreshIsEmpty
  <2>7. ClearIsLast'
    BY <1>18, PathFacts, PhaseFacts DEF BundleInv, WriteManifest, Snapshot, EndSession,
         ClearIsLast, Marked, Unmoved, SessionTyped, PendingTyped, TypeOK, PendingAlone,
         FreshIsEmpty
  <2>8. ManifestSettled'
    BY <1>18, PathFacts, PhaseFacts DEF BundleInv, WriteManifest, Snapshot, EndSession,
         ManifestSettled, Done, Summary, IdOf, SessionTyped, PendingTyped, TypeOK, PendingAlone,
         FreshIsEmpty
  <2>9. ManifestExact'
    <3>1. Snapshot' = Snapshot /\ Summary' = Summary
      BY <1>18 DEF WriteManifest, Snapshot, Summary, Done, IdOf
    <3>2. {p \in PhaseSet : Done(p)}' = {p \in PhaseSet : Done(p)}
      BY <1>18 DEF WriteManifest, Done
    <3>3. QED
      BY <1>18, <3>1, <3>2 DEF BundleInv, ManifestSettled, ManifestExact, WriteManifest
  <2>10. HistoryTyped'
    BY <1>18 DEF BundleInv, WriteManifest, HistoryTyped
  <2>11. HasPlace'
    BY <1>18 DEF BundleInv, WriteManifest, HasPlace, First
  <2>12. MovedOnce'
    BY <1>18 DEF BundleInv, WriteManifest, MovedOnce, First
  <2>13. QED
    BY <2>1, <2>2, <2>3, <2>4, <2>5, <2>6, <2>7, <2>8, <2>9, <2>10, <2>11, <2>12 DEF BundleInv
<1>19. CASE Refuse
  <2>1. TypeOK'
    BY <1>19, PathFacts, PhaseFacts DEF BundleInv, Refuse, Working, Done, Here, Valid,
         OneGeneration, IdOf, Configured, FromSource, Attempted, Continues, EndSession, disk,
         TypeOK, SessionTyped, PendingTyped, PendingAlone, FreshIsEmpty
  <2>2. SessionTyped'
    BY <1>19, PathFacts, PhaseFacts DEF BundleInv, Refuse, Working, Done, Here, Valid,
         OneGeneration, IdOf, Configured, FromSource, Attempted, Continues, EndSession, disk,
         SessionTyped, PendingTyped, TypeOK, PendingAlone, FreshIsEmpty
  <2>3. PendingTyped'
    BY <1>19, PathFacts, PhaseFacts DEF BundleInv, Refuse, Working, Done, Here, Valid,
         OneGeneration, IdOf, Configured, FromSource, Attempted, Continues, EndSession, disk,
         PendingTyped, SessionTyped, TypeOK, PendingAlone, FreshIsEmpty
  <2>4. FreshIsEmpty'
    BY <1>19, PathFacts, PhaseFacts DEF BundleInv, Refuse, Working, Done, Here, Valid,
         OneGeneration, IdOf, Configured, FromSource, Attempted, Continues, EndSession, disk,
         FreshIsEmpty, SessionTyped, PendingTyped, TypeOK, PendingAlone
  <2>5. CreatesOnce'
    BY <1>19, PathFacts, PhaseFacts DEF BundleInv, Refuse, Working, Done, Here, Valid,
         OneGeneration, IdOf, Configured, FromSource, Attempted, Continues, EndSession, disk,
         CreatesOnce, SessionTyped, PendingTyped, TypeOK, PendingAlone, FreshIsEmpty
  <2>6. PendingAlone'
    BY <1>19, PathFacts, PhaseFacts DEF BundleInv, Refuse, Working, Done, Here, Valid,
         OneGeneration, IdOf, Configured, FromSource, Attempted, Continues, EndSession, disk,
         PendingAlone, SessionTyped, PendingTyped, TypeOK, FreshIsEmpty
  <2>7. ClearIsLast'
    BY <1>19, PathFacts, PhaseFacts DEF BundleInv, Refuse, Working, Done, Here, Valid,
         OneGeneration, IdOf, Configured, FromSource, Attempted, Continues, EndSession, disk,
         ClearIsLast, Marked, Unmoved, SessionTyped, PendingTyped, TypeOK, PendingAlone,
         FreshIsEmpty
  <2>8. ManifestSettled'
    BY <1>19, PathFacts, PhaseFacts DEF BundleInv, Refuse, Working, Done, Here, Valid,
         OneGeneration, IdOf, Configured, FromSource, Attempted, Continues, EndSession, disk,
         ManifestSettled, Summary, SessionTyped, PendingTyped, TypeOK, PendingAlone,
         FreshIsEmpty
  <2>9. ManifestExact'
    BY <1>19 DEF BundleInv, ManifestSettled, ManifestExact, Refuse, Working, Here, EndSession, disk
  <2>10. HistoryTyped'
    BY <1>19 DEF BundleInv, Refuse, disk, HistoryTyped
  <2>11. HasPlace'
    BY <1>19 DEF BundleInv, Refuse, disk, HasPlace, First
  <2>12. MovedOnce'
    BY <1>19 DEF BundleInv, Refuse, disk, MovedOnce, First
  <2>13. QED
    BY <2>1, <2>2, <2>3, <2>4, <2>5, <2>6, <2>7, <2>8, <2>9, <2>10, <2>11, <2>12 DEF BundleInv
<1>20. CASE MarkFails
  <2>1. TypeOK'
    BY <1>20, PathFacts, PhaseFacts DEF BundleInv, MarkFails, Here, EndSession, TypeOK,
         SessionTyped, PendingTyped, PendingAlone, FreshIsEmpty
  <2>2. SessionTyped'
    BY <1>20, PathFacts, PhaseFacts DEF BundleInv, MarkFails, Here, EndSession, SessionTyped,
         PendingTyped, TypeOK, PendingAlone, FreshIsEmpty
  <2>3. PendingTyped'
    BY <1>20, PathFacts, PhaseFacts DEF BundleInv, MarkFails, Here, EndSession, PendingTyped,
         SessionTyped, TypeOK, PendingAlone, FreshIsEmpty
  <2>4. FreshIsEmpty'
    BY <1>20, PathFacts, PhaseFacts DEF BundleInv, MarkFails, Here, EndSession, FreshIsEmpty,
         SessionTyped, PendingTyped, TypeOK, PendingAlone
  <2>5. CreatesOnce'
    BY <1>20, PathFacts, PhaseFacts DEF BundleInv, MarkFails, Here, EndSession, CreatesOnce,
         SessionTyped, PendingTyped, TypeOK, PendingAlone, FreshIsEmpty
  <2>6. PendingAlone'
    BY <1>20, PathFacts, PhaseFacts DEF BundleInv, MarkFails, Here, EndSession, PendingAlone,
         SessionTyped, PendingTyped, TypeOK, FreshIsEmpty
  <2>7. ClearIsLast'
    BY <1>20, PathFacts, PhaseFacts DEF BundleInv, MarkFails, Here, EndSession, ClearIsLast,
         Marked, Unmoved, SessionTyped, PendingTyped, TypeOK, PendingAlone, FreshIsEmpty
  <2>8. ManifestSettled'
    BY <1>20, PathFacts, PhaseFacts DEF BundleInv, MarkFails, Here, EndSession, ManifestSettled,
         Done, Summary, IdOf, SessionTyped, PendingTyped, TypeOK, PendingAlone, FreshIsEmpty
  <2>9. ManifestExact'
    BY <1>20 DEF BundleInv, ManifestSettled, ManifestExact, MarkFails, Here, EndSession
  <2>10. HistoryTyped'
    BY <1>20 DEF BundleInv, MarkFails, HistoryTyped
  <2>11. HasPlace'
    BY <1>20 DEF BundleInv, MarkFails, HasPlace, First
  <2>12. MovedOnce'
    BY <1>20 DEF BundleInv, MarkFails, MovedOnce, First
  <2>13. QED
    BY <2>1, <2>2, <2>3, <2>4, <2>5, <2>6, <2>7, <2>8, <2>9, <2>10, <2>11, <2>12 DEF BundleInv
<1>21. CASE Interrupt
  <2>1. TypeOK'
    <3>1. stops' \in 0..MaxStops
      BY <1>21, DiagnoseAssumption DEF BundleInv, TypeOK, Interrupt
    <3>2. QED
      BY <1>21, <3>1 DEF BundleInv, TypeOK, Interrupt, EndSession, disk
  <2>2. SessionTyped'
    BY <1>21, PathFacts, PhaseFacts DEF BundleInv, Interrupt, EndSession, SessionTyped,
         PendingTyped, TypeOK, PendingAlone, FreshIsEmpty
  <2>3. PendingTyped'
    BY <1>21, PathFacts, PhaseFacts DEF BundleInv, Interrupt, EndSession, PendingTyped,
         SessionTyped, TypeOK, PendingAlone, FreshIsEmpty
  <2>4. FreshIsEmpty'
    BY <1>21, PathFacts, PhaseFacts DEF BundleInv, Interrupt, EndSession, FreshIsEmpty,
         SessionTyped, PendingTyped, TypeOK, PendingAlone
  <2>5. CreatesOnce'
    BY <1>21, PathFacts, PhaseFacts DEF BundleInv, Interrupt, EndSession, CreatesOnce,
         SessionTyped, PendingTyped, TypeOK, PendingAlone, FreshIsEmpty
  <2>6. PendingAlone'
    BY <1>21, PathFacts, PhaseFacts DEF BundleInv, Interrupt, EndSession, PendingAlone,
         SessionTyped, PendingTyped, TypeOK, FreshIsEmpty
  <2>7. ClearIsLast'
    BY <1>21, PathFacts, PhaseFacts DEF BundleInv, Interrupt, EndSession, ClearIsLast, Marked,
         Unmoved, SessionTyped, PendingTyped, TypeOK, PendingAlone, FreshIsEmpty
  <2>8. ManifestSettled'
    BY <1>21, PathFacts, PhaseFacts DEF BundleInv, Interrupt, EndSession, ManifestSettled, Done,
         Summary, IdOf, SessionTyped, PendingTyped, TypeOK, PendingAlone, FreshIsEmpty
  <2>9. ManifestExact'
    BY <1>21 DEF BundleInv, ManifestSettled, ManifestExact, Interrupt, EndSession
  <2>10. HistoryTyped'
    BY <1>21 DEF BundleInv, Interrupt, HistoryTyped
  <2>11. HasPlace'
    BY <1>21 DEF BundleInv, Interrupt, HasPlace, First
  <2>12. MovedOnce'
    BY <1>21 DEF BundleInv, Interrupt, MovedOnce, First
  <2>13. QED
    BY <2>1, <2>2, <2>3, <2>4, <2>5, <2>6, <2>7, <2>8, <2>9, <2>10, <2>11, <2>12 DEF BundleInv
<1>22. CASE InterruptCreate
  <2>1. TypeOK'
    <3>1. stops' \in 0..MaxStops
      BY <1>22, DiagnoseAssumption DEF BundleInv, TypeOK, InterruptCreate
    <3>2. meta' \in MetaSpace
      <4>1. meta \in MetaSpace /\ cfg \in Configuration
        BY <1>22 DEF BundleInv, TypeOK, SessionTyped, MetaSpace, InterruptCreate
      <4>2. QED
        BY <1>22, <4>1, MetaUpdates DEF InterruptCreate
    <3>3. QED
      BY <1>22, <3>1, <3>2 DEF BundleInv, TypeOK, MetaSpace, InterruptCreate, EndSession
  <2>2. SessionTyped'
    BY <1>22, PathFacts, PhaseFacts DEF BundleInv, InterruptCreate, EndSession, SessionTyped,
         PendingTyped, TypeOK, PendingAlone, FreshIsEmpty
  <2>3. PendingTyped'
    BY <1>22, PathFacts, PhaseFacts DEF BundleInv, InterruptCreate, EndSession, PendingTyped,
         SessionTyped, TypeOK, PendingAlone, FreshIsEmpty
  <2>4. FreshIsEmpty'
    BY <1>22 DEF BundleInv, FreshIsEmpty, CreatesOnce, InterruptCreate, EndSession
  <2>5. CreatesOnce'
    BY <1>22, PathFacts, PhaseFacts DEF BundleInv, InterruptCreate, EndSession, CreatesOnce,
         SessionTyped, PendingTyped, TypeOK, PendingAlone, FreshIsEmpty
  <2>6. PendingAlone'
    BY <1>22, PathFacts, PhaseFacts DEF BundleInv, InterruptCreate, EndSession, PendingAlone,
         SessionTyped, PendingTyped, TypeOK, FreshIsEmpty
  <2>7. ClearIsLast'
    BY <1>22, PathFacts, PhaseFacts DEF BundleInv, InterruptCreate, EndSession, ClearIsLast,
         Marked, Unmoved, SessionTyped, PendingTyped, TypeOK, PendingAlone, FreshIsEmpty
  <2>8. ManifestSettled'
    BY <1>22, PathFacts, PhaseFacts DEF BundleInv, InterruptCreate, EndSession, ManifestSettled,
         Done, Summary, IdOf, SessionTyped, PendingTyped, TypeOK, PendingAlone, FreshIsEmpty
  <2>9. ManifestExact'
    BY <1>22 DEF BundleInv, ManifestSettled, ManifestExact, InterruptCreate, EndSession
  <2>10. HistoryTyped'
    BY <1>22 DEF BundleInv, InterruptCreate, HistoryTyped
  <2>11. HasPlace'
    BY <1>22 DEF BundleInv, InterruptCreate, HasPlace, First
  <2>12. MovedOnce'
    BY <1>22 DEF BundleInv, InterruptCreate, MovedOnce, First
  <2>13. QED
    BY <2>1, <2>2, <2>3, <2>4, <2>5, <2>6, <2>7, <2>8, <2>9, <2>10, <2>11, <2>12 DEF BundleInv
<1>23. CASE Crash
  <2>1. TypeOK'
    <3>1. stops' \in 0..MaxStops
      BY <1>23, DiagnoseAssumption DEF BundleInv, TypeOK, Crash
    <3>2. QED
      BY <1>23, <3>1 DEF BundleInv, TypeOK, Crash, EndSession, disk
  <2>2. SessionTyped'
    BY <1>23, PathFacts, PhaseFacts DEF BundleInv, Crash, EndSession, disk, SessionTyped,
         PendingTyped, TypeOK, PendingAlone, FreshIsEmpty
  <2>3. PendingTyped'
    BY <1>23, PathFacts, PhaseFacts DEF BundleInv, Crash, EndSession, disk, PendingTyped,
         SessionTyped, TypeOK, PendingAlone, FreshIsEmpty
  <2>4. FreshIsEmpty'
    BY <1>23, PathFacts, PhaseFacts DEF BundleInv, Crash, EndSession, disk, FreshIsEmpty,
         SessionTyped, PendingTyped, TypeOK, PendingAlone
  <2>5. CreatesOnce'
    BY <1>23, PathFacts, PhaseFacts DEF BundleInv, Crash, EndSession, disk, CreatesOnce,
         SessionTyped, PendingTyped, TypeOK, PendingAlone, FreshIsEmpty
  <2>6. PendingAlone'
    BY <1>23, PathFacts, PhaseFacts DEF BundleInv, Crash, EndSession, disk, PendingAlone,
         SessionTyped, PendingTyped, TypeOK, FreshIsEmpty
  <2>7. ClearIsLast'
    BY <1>23, PathFacts, PhaseFacts DEF BundleInv, Crash, EndSession, disk, ClearIsLast, Marked,
         Unmoved, SessionTyped, PendingTyped, TypeOK, PendingAlone, FreshIsEmpty
  <2>8. ManifestSettled'
    BY <1>23, PathFacts, PhaseFacts DEF BundleInv, Crash, EndSession, disk, ManifestSettled,
         Done, Summary, IdOf, SessionTyped, PendingTyped, TypeOK, PendingAlone, FreshIsEmpty
  <2>9. ManifestExact'
    BY <1>23, ManifestKept DEF BundleInv, Crash, EndSession, disk
  <2>10. HistoryTyped'
    BY <1>23 DEF BundleInv, Crash, disk, HistoryTyped
  <2>11. HasPlace'
    BY <1>23 DEF BundleInv, Crash, disk, HasPlace, First
  <2>12. MovedOnce'
    BY <1>23 DEF BundleInv, Crash, disk, MovedOnce, First
  <2>13. QED
    BY <2>1, <2>2, <2>3, <2>4, <2>5, <2>6, <2>7, <2>8, <2>9, <2>10, <2>11, <2>12 DEF BundleInv
<1>24. CASE StrayExits
  <2>1. TypeOK'
    BY <1>24, PathFacts, PhaseFacts DEF BundleInv, StrayExits, disk, TypeOK, SessionTyped,
         PendingTyped, PendingAlone, FreshIsEmpty
  <2>2. ManifestExact'
    BY <1>24, ManifestKept DEF BundleInv, StrayExits, disk
  <2>3. HistoryTyped'
    BY <1>24 DEF BundleInv, StrayExits, disk, HistoryTyped
  <2>4. SessionTyped'
    BY <1>24 DEF BundleInv, StrayExits, disk, SessionTyped
  <2>5. PendingTyped'
    BY <1>24 DEF BundleInv, StrayExits, disk, PendingTyped
  <2>6. FreshIsEmpty'
    BY <1>24 DEF BundleInv, StrayExits, disk, FreshIsEmpty
  <2>7. CreatesOnce'
    BY <1>24 DEF BundleInv, StrayExits, disk, CreatesOnce
  <2>8. PendingAlone'
    BY <1>24 DEF BundleInv, StrayExits, disk, PendingAlone
  <2>9. ClearIsLast'
    BY <1>24 DEF BundleInv, StrayExits, disk, ClearIsLast, Marked, Unmoved
  <2>10. ManifestSettled'
    BY <1>24 DEF BundleInv, StrayExits, disk, ManifestSettled, Done, Summary, IdOf
  <2>11. HasPlace'
    BY <1>24 DEF BundleInv, StrayExits, disk, HasPlace, First
  <2>12. MovedOnce'
    BY <1>24 DEF BundleInv, StrayExits, disk, MovedOnce, First
  <2>13. QED
    BY <2>1, <2>2, <2>3, <2>4, <2>5, <2>6, <2>7, <2>8, <2>9, <2>10, <2>11, <2>12 DEF BundleInv
<1>25. CASE UNCHANGED vars
  <2>1. ManifestExact'
    BY <1>25, ManifestKept DEF vars, disk, BundleInv
  <2>2. TypeOK' /\ HistoryTyped' /\ SessionTyped' /\ PendingTyped'
    BY <1>25 DEF vars, disk, BundleInv, TypeOK, HistoryTyped, SessionTyped, PendingTyped
  <2>3. FreshIsEmpty' /\ CreatesOnce' /\ PendingAlone' /\ ClearIsLast'
    BY <1>25 DEF vars, disk, BundleInv, FreshIsEmpty, CreatesOnce, PendingAlone, ClearIsLast,
      Marked, Unmoved
  <2>4. Summary' = Summary /\ {p \in PhaseSet : Done(p)}' = {p \in PhaseSet : Done(p)}
    BY <1>25 DEF vars, disk, Summary, Done, IdOf
  <2>5. ManifestSettled'
    BY <1>25, <2>4 DEF vars, disk, BundleInv, ManifestSettled
  <2>6. HasPlace' /\ MovedOnce'
    BY <1>25 DEF vars, disk, BundleInv, HasPlace, MovedOnce, First
  <2>7. QED
    BY <2>1, <2>2, <2>3, <2>5, <2>6 DEF BundleInv
<1>26. QED
  BY <1>1, <1>2, <1>3, <1>4, <1>5, <1>6, <1>7, <1>8, <1>9, <1>10, <1>11, <1>12, <1>13, <1>14,
       <1>15, <1>16, <1>17, <1>18, <1>19, <1>20, <1>21, <1>22, <1>23, <1>24, <1>25 DEF Next,
       Step

LEMMA BundleInvariant == Spec => []BundleInv
BY InitBundle, NextBundle, PTL DEF Spec

\* No evidence is deleted or written over: a generation is in place or archived, never both.
THEOREM EvidenceIsKept == Spec => []NothingLost
<1>1. BundleInv => NothingLost
  <2>1. SUFFICES ASSUME BundleInv, NEW n \in 1..lastId, data[n].setting # None
                 PROVE  \E p \in PhaseSet :
                          \/ First(p) = n /\ \A e \in archive : e.path = <<p, Parts[1]>> => e.id # n
                          \/ First(p) # n /\ \E e \in archive : e.path = <<p, Parts[1]>> /\ e.id = n
    BY DEF NothingLost, First
  <2>2. PICK p \in PhaseSet : First(p) = n
                              \/ \E e \in archive : e.path = <<p, Parts[1]>> /\ e.id = n
    BY <2>1 DEF BundleInv, HasPlace
  <2>3. QED
    BY <2>1, <2>2 DEF BundleInv, MovedOnce
<1>2. QED
  BY <1>1, BundleInvariant, PTL

\* While there is a manifest it describes the bundle as it is.
THEOREM ManifestsAreExact == Spec => []ManifestExact
<1>1. BundleInv => ManifestExact
  BY DEF BundleInv
<1>2. QED
  BY <1>1, BundleInvariant, PTL

-----------------------------------------------------------------------------
\* A session works with the configuration that is stored, or about to be.
ConfigFollows ==
  /\ pending # None /\ pc # "idle" => cfg = pending.cfg
  /\ pc \in InPhases \cup {"clear"} => meta.mode = cfg.mode /\ meta.key = cfg.key

\* What a session changes in the configuration it has leave to change, but for
\* keys that a preset named again resets.
ChangesPlanned ==
  pc \in {"revoke", "configure"} /\ pending = None /\ meta.state = "ready" =>
    /\ cfg.mode # meta.mode => \A p \in PhaseSet : ChangeAllowed(p, plan)
    /\ \A p \in PhaseSet : cfg.key[p] # meta.key[p] =>
         \/ ChangeAllowed(p, plan)
         \/ cfg.mode # None /\ cfg.key[p] = Preset[cfg.mode]

\* A session has completed the phases it has passed.
PassedAreDone == pc \in InPhases => \A j \in 1..(at - 1) : Done(Phases[j])

RunningIsBegun == pc = "running" => First(Here) # 0 /\ ~Done(Here)

\* What the marker of a phase that is being marked looks like.
MarkerFollows ==
  /\ pc = "mark" => marker[Here] = "blank"
  /\ pc = "marked" => marker[Here] = "done"

\* The evidence of a phase was validated before it is marked.
SourceWhole(p)  == Source(p) # None => OneGeneration(Source(p))
MarkedIsChecked == pc \in {"mark", "marked"} => Valid(Here, meta) /\ SourceWhole(Here)

SourcesStand == \A p \in PhaseSet : Done(p) => SourceWhole(p)

RedoInv ==
  /\ ConfigFollows /\ ChangesPlanned /\ PassedAreDone /\ RunningIsBegun /\ MarkerFollows
  /\ MarkedIsChecked /\ SourcesStand /\ MarkedIsWhole /\ PendingRecoverable

\* The evidence of phase q is left alone.
Same(q) == \A a \in PartSet : tree'[<<q, a>>] = tree[<<q, a>>]

LEMMA WholeStays ==
  ASSUME NEW q \in PhaseSet, Same(q), OneGeneration(q)
  PROVE  OneGeneration(q)' /\ IdOf(q)' = IdOf(q)
BY PathFacts DEF Same, OneGeneration, IdOf

\* The setting of phase q is left alone, or is a preset's now.
Keeps(q) == \/ meta'.mode = meta.mode /\ meta'.key[q] = meta.key[q]
            \/ Reset(q)'

LEMMA StandsStays ==
  ASSUME BundleInv, NEW p \in PhaseSet, Stands(p),
         Same(p), Source(p) # None => Same(Source(p)), Keeps(p),
         \A n \in 1..lastId : data'[n] = data[n]
  PROVE  Stands(p)'
<1>1. OneGeneration(p)' /\ IdOf(p)' = IdOf(p)
  BY WholeStays DEF Stands
<1>2. IdOf(p) \in 1..lastId
  <2>1. tree[<<p, Final>>] \in 0..lastId /\ lastId \in Nat
    BY PathFacts, TreeTyped, DiagnoseAssumption DEF BundleInv, TypeOK
  <2>2. QED
    BY <2>1 DEF Stands, OneGeneration, IdOf
<1>3. data'[IdOf(p)] = data[IdOf(p)]
  BY <1>2
<1>4. Configured(p, meta)' \/ Reset(p)'
  BY <1>1, <1>3 DEF Stands, Configured, Reset, Keeps
<1>5. FromSource(p)'
  <2>1. Source(p) # None => IdOf(Source(p))' = IdOf(Source(p))
    BY PathFacts DEF Same, IdOf
  <2>2. QED
    BY <1>1, <1>3, <2>1 DEF Stands, FromSource
<1>6. QED
  BY <1>1, <1>4, <1>5 DEF Stands

\* What is complete stays valid if its evidence, its source and its setting do.
LEMMA EvidenceStands ==
  ASSUME BundleInv, MarkedIsWhole, SourcesStand,
         \A p \in PhaseSet : Done(p)' => /\ Done(p) /\ Same(p)
                                         /\ Source(p) # None => Same(Source(p))
                                         /\ Keeps(p),
         \A n \in 1..lastId : data'[n] = data[n]
  PROVE  MarkedIsWhole' /\ SourcesStand'
<1>1. ASSUME NEW p \in PhaseSet, Done(p)' PROVE Stands(p)'
  BY <1>1, StandsStays DEF MarkedIsWhole
<1>2. ASSUME NEW p \in PhaseSet, Done(p)' PROVE SourceWhole(p)'
  BY <1>2, WholeStays, PhaseFacts DEF SourcesStand, SourceWhole
<1>3. QED
  BY <1>1, <1>2 DEF MarkedIsWhole, SourcesStand

LEMMA PendingStands ==
  ASSUME PendingRecoverable, UNCHANGED <<pending, marker, tree, archive>>,
         meta'.mode = meta.mode, meta'.key = meta.key
  PROVE  PendingRecoverable'
BY DEF PendingRecoverable, MarkerValid, PairsRecoverable, Archived, TargetAuthorized, ChangeAllowed,
     Done, Attempted, RepeatsPreset, Untouched

LEMMA InitRedo == Init => RedoInv
BY DEF Init, RedoInv, ConfigFollows, ChangesPlanned, PassedAreDone, RunningIsBegun, MarkerFollows,
  MarkedIsChecked,
     SourcesStand, MarkedIsWhole, PendingRecoverable, Done, NoMeta, InPhases

LEMMA NextRedo ==
  ASSUME BundleInv, BundleInv', RedoInv, Next
  PROVE  RedoInv'
<1>1. ASSUME NEW r \in Requests, Open(r) PROVE RedoInv'
  <2>1. \A n \in 1..lastId : data'[n] = data[n]
    BY <1>1 DEF Open, Idle
  <2>2. \A p \in PhaseSet : Done(p)' => /\ Done(p) /\ Same(p)
                                        /\ Source(p) # None => Same(Source(p))
                                        /\ Keeps(p)
    BY <1>1 DEF BundleInv, TypeOK, MetaSpace, FreshIsEmpty, CreatesOnce, Open, Idle, Done, Same, Keeps
  <2>3. ConfigFollows'
    BY <1>1, <2>1, <2>2, PhaseFacts DEF RedoInv, Open, Idle, Accepts, Config, NoMeta, Uniform,
         ConfigFollows, InPhases, BundleInv, TypeOK, HistoryTyped, SessionTyped, PendingTyped,
         FreshIsEmpty, CreatesOnce, PendingAlone, ClearIsLast, Marked, Unmoved, ManifestSettled,
         Done, Summary, IdOf, ManifestExact, Snapshot, HasPlace, First, MovedOnce
  <2>4. ChangesPlanned'
    <3>1. ASSUME meta.state = "ready", pending = None
          PROVE  /\ cfg' = Effective(r, Config(meta)) /\ plan' = Closure(r.redo) /\ meta' = meta
                 /\ OverridesAllowed(r, Closure(r.redo))
      BY <1>1, <3>1 DEF Open, Accepts
    <3>2. Config(meta) \in Configuration /\ Config(meta).mode = meta.mode
            /\ Config(meta).key = meta.key
      BY DEF BundleInv, TypeOK, Config, Configuration
    <3>3. r.mode \in Modes \cup {None}
      BY DEF Requests
    <3>4. /\ r.mode = None => Effective(r, Config(meta)).mode = meta.mode
          /\ r.mode # None => Effective(r, Config(meta)).mode = r.mode
          /\ \A p \in PhaseSet : Effective(r, Config(meta)).key[p] =
                                 IF r.set[p] # None THEN r.set[p]
                                 ELSE IF r.mode = None THEN meta.key[p] ELSE Preset[r.mode]
      BY <3>2, EffectiveTyped
    <3>5. ASSUME meta.state = "ready", pending = None, NEW p \in PhaseSet,
                 ChangeAllowed(p, Closure(r.redo))
          PROVE  ChangeAllowed(p, plan)'
      <4>1. UNCHANGED <<marker, tree>> /\ plan' = Closure(r.redo)
        BY <1>1, <3>1, <3>5 DEF Open
      <4>2. QED
        BY <3>5, <4>1 DEF ChangeAllowed, Done, Attempted
    <3>6. ASSUME meta.state = "ready", pending = None, cfg'.mode # meta.mode, NEW p \in PhaseSet
          PROVE  ChangeAllowed(p, plan)'
      <4>1. r.mode # None /\ r.mode # meta.mode
        BY <3>1, <3>4, <3>6
      <4>2. ChangeAllowed(p, Closure(r.redo))
        BY <3>1, <3>6, <4>1 DEF OverridesAllowed
      <4>3. QED
        BY <3>5, <3>6, <4>2
    <3>7. ASSUME meta.state = "ready", pending = None, NEW p \in PhaseSet, cfg'.key[p] # meta.key[p]
          PROVE  ChangeAllowed(p, plan)' \/ (cfg'.mode # None /\ cfg'.key[p] = Preset[cfg'.mode])
      <4>1. CASE r.set[p] # None
        <5>1. r.set[p] # meta.key[p]
          BY <3>1, <3>4, <3>7, <4>1
        <5>2. ChangeAllowed(p, Closure(r.redo))
          BY <3>1, <3>7, <4>1, <5>1 DEF OverridesAllowed
        <5>3. QED
          BY <3>5, <3>7, <5>2
      <4>2. CASE r.set[p] = None
        BY <3>1, <3>4, <3>7, <4>2
      <4>3. QED
        BY <4>1, <4>2
    <3>8. meta'.state = "ready" => meta' = meta
      BY <1>1 DEF Open, NoMeta
    <3>9. QED
      BY <1>1, <3>8, <3>6, <3>7 DEF ChangesPlanned, Open
  <2>5. PassedAreDone'
    BY <1>1, <2>1, <2>2, PhaseFacts DEF RedoInv, Open, Idle, Accepts, Config, NoMeta, Uniform,
         PassedAreDone, InPhases, Done, BundleInv, TypeOK, HistoryTyped, SessionTyped,
         PendingTyped, FreshIsEmpty, CreatesOnce, PendingAlone, ClearIsLast, Marked, Unmoved,
         ManifestSettled, Summary, IdOf, ManifestExact, Snapshot, HasPlace, First, MovedOnce
  <2>6. RunningIsBegun'
    BY <1>1, <2>1, <2>2, PhaseFacts DEF RedoInv, Open, Idle, Accepts, Config, NoMeta, Uniform,
         RunningIsBegun, First, Here, Done, BundleInv, TypeOK, HistoryTyped, SessionTyped,
         PendingTyped, FreshIsEmpty, CreatesOnce, PendingAlone, ClearIsLast, Marked, Unmoved,
         ManifestSettled, Summary, IdOf, ManifestExact, Snapshot, HasPlace, MovedOnce
  <2>7. MarkerFollows'
    BY <1>1, <2>1, <2>2, PhaseFacts DEF RedoInv, Open, Idle, Accepts, Config, NoMeta, Uniform,
         MarkerFollows, Here, BundleInv, TypeOK, HistoryTyped, SessionTyped, PendingTyped,
         FreshIsEmpty, CreatesOnce, PendingAlone, ClearIsLast, Marked, Unmoved, ManifestSettled,
         Done, Summary, IdOf, ManifestExact, Snapshot, HasPlace, First, MovedOnce
  <2>8. MarkedIsChecked'
    BY <1>1, <2>1, <2>2, PhaseFacts DEF RedoInv, Open, Idle, Accepts, Config, NoMeta, Uniform,
         MarkedIsChecked, Here, SourceWhole, BundleInv, TypeOK, HistoryTyped, SessionTyped,
         PendingTyped, FreshIsEmpty, CreatesOnce, PendingAlone, ClearIsLast, Marked, Unmoved,
         ManifestSettled, Done, Summary, IdOf, ManifestExact, Snapshot, HasPlace, First,
         MovedOnce
  <2>9. SourcesStand'
    BY <2>2, <2>1, EvidenceStands DEF RedoInv
  <2>10. MarkedIsWhole'
    BY <2>2, <2>1, EvidenceStands DEF RedoInv
  <2>11. PendingRecoverable'
    <3>1. CASE meta.state = "ready"
      BY <1>1, <3>1, PendingStands DEF RedoInv, Open
    <3>2. CASE meta.state # "ready"
      BY <1>1, <3>2 DEF BundleInv, FreshIsEmpty, PendingRecoverable, Open
    <3>3. QED
      BY <3>1, <3>2
  <2>12. QED
    BY <2>3, <2>4, <2>5, <2>6, <2>7, <2>8, <2>9, <2>10, <2>11 DEF RedoInv
<1>2. CASE Revoke
  <2>1. \A n \in 1..lastId : data'[n] = data[n]
    BY <1>2 DEF Revoke
  <2>2. \A p \in PhaseSet : Done(p)' => /\ Done(p) /\ Same(p)
                                        /\ Source(p) # None => Same(Source(p))
                                        /\ Keeps(p)
    BY <1>2 DEF Revoke, Done, Same, Keeps
  <2>3. ConfigFollows'
    BY <1>2, <2>1, <2>2, PhaseFacts DEF RedoInv, Revoke, ConfigFollows, InPhases, BundleInv,
         TypeOK, HistoryTyped, SessionTyped, PendingTyped, FreshIsEmpty, CreatesOnce,
         PendingAlone, ClearIsLast, Marked, Unmoved, ManifestSettled, Done, Summary, IdOf,
         ManifestExact, Snapshot, HasPlace, First, MovedOnce
  <2>4. ChangesPlanned'
    BY <1>2 DEF RedoInv, Revoke, ChangesPlanned, ChangeAllowed, Done, Attempted
  <2>5. PassedAreDone'
    BY <1>2, <2>1, <2>2, PhaseFacts DEF RedoInv, Revoke, PassedAreDone, InPhases, Done,
         BundleInv, TypeOK, HistoryTyped, SessionTyped, PendingTyped, FreshIsEmpty, CreatesOnce,
         PendingAlone, ClearIsLast, Marked, Unmoved, ManifestSettled, Summary, IdOf,
         ManifestExact, Snapshot, HasPlace, First, MovedOnce
  <2>6. RunningIsBegun'
    BY <1>2, <2>1, <2>2, PhaseFacts DEF RedoInv, Revoke, RunningIsBegun, First, Here, Done,
         BundleInv, TypeOK, HistoryTyped, SessionTyped, PendingTyped, FreshIsEmpty, CreatesOnce,
         PendingAlone, ClearIsLast, Marked, Unmoved, ManifestSettled, Summary, IdOf,
         ManifestExact, Snapshot, HasPlace, MovedOnce
  <2>7. MarkerFollows'
    BY <1>2, <2>1, <2>2, PhaseFacts DEF RedoInv, Revoke, MarkerFollows, Here, BundleInv, TypeOK,
         HistoryTyped, SessionTyped, PendingTyped, FreshIsEmpty, CreatesOnce, PendingAlone,
         ClearIsLast, Marked, Unmoved, ManifestSettled, Done, Summary, IdOf, ManifestExact,
         Snapshot, HasPlace, First, MovedOnce
  <2>8. MarkedIsChecked'
    BY <1>2, <2>1, <2>2, PhaseFacts DEF RedoInv, Revoke, MarkedIsChecked, Here, SourceWhole,
         BundleInv, TypeOK, HistoryTyped, SessionTyped, PendingTyped, FreshIsEmpty, CreatesOnce,
         PendingAlone, ClearIsLast, Marked, Unmoved, ManifestSettled, Done, Summary, IdOf,
         ManifestExact, Snapshot, HasPlace, First, MovedOnce
  <2>9. SourcesStand'
    BY <2>2, <2>1, EvidenceStands DEF RedoInv
  <2>10. MarkedIsWhole'
    BY <2>2, <2>1, EvidenceStands DEF RedoInv
  <2>11. PendingRecoverable'
    BY <1>2, PendingStands DEF BundleInv, TypeOK, MetaSpace, RedoInv, Revoke
  <2>12. QED
    BY <2>3, <2>4, <2>5, <2>6, <2>7, <2>8, <2>9, <2>10, <2>11 DEF RedoInv
<1>3. CASE CreateMeta
  <2>1. \A n \in 1..lastId : data'[n] = data[n]
    BY <1>3 DEF CreateMeta
  <2>2. \A p \in PhaseSet : Done(p)' => /\ Done(p) /\ Same(p)
                                        /\ Source(p) # None => Same(Source(p))
                                        /\ Keeps(p)
    BY <1>3 DEF BundleInv, TypeOK, MetaSpace, FreshIsEmpty, CreatesOnce, CreateMeta, Done, Same, Keeps
  <2>3. ConfigFollows'
    BY <1>3, <2>1, <2>2, PhaseFacts DEF RedoInv, CreateMeta, ConfigFollows, InPhases, BundleInv,
         TypeOK, HistoryTyped, SessionTyped, PendingTyped, FreshIsEmpty, CreatesOnce,
         PendingAlone, ClearIsLast, Marked, Unmoved, ManifestSettled, Done, Summary, IdOf,
         ManifestExact, Snapshot, HasPlace, First, MovedOnce
  <2>4. ChangesPlanned'
    BY <1>3, <2>1, <2>2, PhaseFacts DEF RedoInv, CreateMeta, ChangesPlanned, ChangeAllowed,
         Done, Attempted, BundleInv, TypeOK, HistoryTyped, SessionTyped, PendingTyped,
         FreshIsEmpty, CreatesOnce, PendingAlone, ClearIsLast, Marked, Unmoved, ManifestSettled,
         Summary, IdOf, ManifestExact, Snapshot, HasPlace, First, MovedOnce
  <2>5. PassedAreDone'
    BY <1>3, <2>1, <2>2, PhaseFacts DEF RedoInv, CreateMeta, PassedAreDone, InPhases, Done,
         BundleInv, TypeOK, HistoryTyped, SessionTyped, PendingTyped, FreshIsEmpty, CreatesOnce,
         PendingAlone, ClearIsLast, Marked, Unmoved, ManifestSettled, Summary, IdOf,
         ManifestExact, Snapshot, HasPlace, First, MovedOnce
  <2>6. RunningIsBegun'
    BY <1>3, <2>1, <2>2, PhaseFacts DEF RedoInv, CreateMeta, RunningIsBegun, First, Here, Done,
         BundleInv, TypeOK, HistoryTyped, SessionTyped, PendingTyped, FreshIsEmpty, CreatesOnce,
         PendingAlone, ClearIsLast, Marked, Unmoved, ManifestSettled, Summary, IdOf,
         ManifestExact, Snapshot, HasPlace, MovedOnce
  <2>7. MarkerFollows'
    BY <1>3, <2>1, <2>2, PhaseFacts DEF RedoInv, CreateMeta, MarkerFollows, Here, BundleInv,
         TypeOK, HistoryTyped, SessionTyped, PendingTyped, FreshIsEmpty, CreatesOnce,
         PendingAlone, ClearIsLast, Marked, Unmoved, ManifestSettled, Done, Summary, IdOf,
         ManifestExact, Snapshot, HasPlace, First, MovedOnce
  <2>8. MarkedIsChecked'
    BY <1>3, <2>1, <2>2, PhaseFacts DEF RedoInv, CreateMeta, MarkedIsChecked, Here, SourceWhole,
         BundleInv, TypeOK, HistoryTyped, SessionTyped, PendingTyped, FreshIsEmpty, CreatesOnce,
         PendingAlone, ClearIsLast, Marked, Unmoved, ManifestSettled, Done, Summary, IdOf,
         ManifestExact, Snapshot, HasPlace, First, MovedOnce
  <2>9. SourcesStand'
    BY <2>2, <2>1, EvidenceStands DEF RedoInv
  <2>10. MarkedIsWhole'
    BY <2>2, <2>1, EvidenceStands DEF RedoInv
  <2>11. PendingRecoverable'
    BY <1>3 DEF BundleInv, FreshIsEmpty, CreatesOnce, PendingRecoverable, CreateMeta, EndSession
  <2>12. QED
    BY <2>3, <2>4, <2>5, <2>6, <2>7, <2>8, <2>9, <2>10, <2>11 DEF RedoInv
<1>4. CASE Configure
  <2>1. \A n \in 1..lastId : data'[n] = data[n]
    BY <1>4 DEF Configure
  <2>2. \A p \in PhaseSet : Done(p)' => /\ Done(p) /\ Same(p)
                                        /\ Source(p) # None => Same(Source(p))
                                        /\ Keeps(p)
    <3>1. ASSUME NEW p \in PhaseSet, Done(p) PROVE Keeps(p)
      <4>1. CASE pending # None \/ plan # {}
        BY <1>4, <4>1 DEF Configure, Keeps
      <4>2. CASE pending = None /\ plan = {}
        <5>1. meta.state = "ready"
          BY <1>4 DEF BundleInv, FreshIsEmpty, Configure
        <5>2. ~ChangeAllowed(p, plan)
          BY <3>1, <4>2 DEF ChangeAllowed
        <5>3. /\ cfg.mode = meta.mode
              /\ cfg.key[p] # meta.key[p] => cfg.mode # None /\ cfg.key[p] = Preset[cfg.mode]
          BY <1>4, <4>2, <5>1, <5>2 DEF RedoInv, ChangesPlanned, Configure
        <5>4. meta'.key = cfg.key /\ meta'.mode = cfg.mode
          BY <1>4, <4>2 DEF BundleInv, TypeOK, Configure
        <5>5. QED
          BY <5>3, <5>4 DEF Keeps, Reset
      <4>3. QED
        BY <4>1, <4>2
    <3>2. QED
      BY <1>4, <3>1 DEF Configure, Done, Same
  <2>3. ConfigFollows'
    <3>1. CASE pending # None \/ plan # {}
      BY <1>4, <3>1 DEF RedoInv, ConfigFollows, Configure, InPhases
    <3>2. CASE pending = None /\ plan = {}
      <4>1. meta' = [meta EXCEPT !.mode = cfg.mode, !.key = cfg.key] /\ pending' = None
        BY <1>4, <3>2 DEF Configure
      <4>2. meta'.mode = cfg.mode /\ meta'.key = cfg.key
        BY <4>1 DEF BundleInv, TypeOK
      <4>3. QED
        BY <1>4, <4>1, <4>2 DEF ConfigFollows, Configure
    <3>3. QED
      BY <3>1, <3>2
  <2>4. ChangesPlanned'
    BY <1>4, <2>1, <2>2, PhaseFacts DEF RedoInv, Configure, Present, ChangesPlanned,
         ChangeAllowed, Done, Attempted, BundleInv, TypeOK, HistoryTyped, SessionTyped,
         PendingTyped, FreshIsEmpty, CreatesOnce, PendingAlone, ClearIsLast, Marked, Unmoved,
         ManifestSettled, Summary, IdOf, ManifestExact, Snapshot, HasPlace, First, MovedOnce
  <2>5. PassedAreDone'
    BY <1>4, <2>1, <2>2, PhaseFacts DEF RedoInv, Configure, Present, PassedAreDone, InPhases,
         Done, BundleInv, TypeOK, HistoryTyped, SessionTyped, PendingTyped, FreshIsEmpty,
         CreatesOnce, PendingAlone, ClearIsLast, Marked, Unmoved, ManifestSettled, Summary,
         IdOf, ManifestExact, Snapshot, HasPlace, First, MovedOnce
  <2>6. RunningIsBegun'
    BY <1>4, <2>1, <2>2, PhaseFacts DEF RedoInv, Configure, Present, RunningIsBegun, First,
         Here, Done, BundleInv, TypeOK, HistoryTyped, SessionTyped, PendingTyped, FreshIsEmpty,
         CreatesOnce, PendingAlone, ClearIsLast, Marked, Unmoved, ManifestSettled, Summary,
         IdOf, ManifestExact, Snapshot, HasPlace, MovedOnce
  <2>7. MarkerFollows'
    BY <1>4, <2>1, <2>2, PhaseFacts DEF RedoInv, Configure, Present, MarkerFollows, Here,
         BundleInv, TypeOK, HistoryTyped, SessionTyped, PendingTyped, FreshIsEmpty, CreatesOnce,
         PendingAlone, ClearIsLast, Marked, Unmoved, ManifestSettled, Done, Summary, IdOf,
         ManifestExact, Snapshot, HasPlace, First, MovedOnce
  <2>8. MarkedIsChecked'
    BY <1>4, <2>1, <2>2, PhaseFacts DEF RedoInv, Configure, Present, MarkedIsChecked, Here,
         SourceWhole, BundleInv, TypeOK, HistoryTyped, SessionTyped, PendingTyped, FreshIsEmpty,
         CreatesOnce, PendingAlone, ClearIsLast, Marked, Unmoved, ManifestSettled, Done,
         Summary, IdOf, ManifestExact, Snapshot, HasPlace, First, MovedOnce
  <2>9. SourcesStand'
    BY <2>2, <2>1, EvidenceStands DEF RedoInv
  <2>10. MarkedIsWhole'
    BY <2>2, <2>1, EvidenceStands DEF RedoInv
  <2>11. PendingRecoverable'
    <3>1. CASE pending # None
      BY <1>4, <3>1, PendingStands DEF RedoInv, Configure
    <3>2. CASE pending = None /\ plan = {}
      BY <1>4, <3>2 DEF PendingRecoverable, Configure
    <3>3. CASE pending = None /\ plan # {}
      <4>1. /\ pending' = [txn |-> lastTxn', phases |-> plan, cfg |-> cfg,
                 records |-> Present(plan)]
            /\ lastTxn' = lastTxn + 1 /\ UNCHANGED <<meta, marker, tree, archive>>
        BY <1>4, <3>3 DEF Configure
      <4>2. MarkerValid'
        BY <1>4, <3>3, <4>1 DEF BundleInv, SessionTyped, MarkerValid, Present, Configure
      <4>3. PairsRecoverable'
        <5>1. \A x : ~Archived(lastTxn + 1, x)
          BY DiagnoseAssumption DEF BundleInv, TypeOK, Archived
        <5>2. \A x \in Present(plan) : tree[x] # 0
          BY DEF Present
        <5>3. QED
          BY <4>1, <5>1, <5>2 DEF PairsRecoverable, Archived
      <4>4. Untouched'
        <5>1. \A x : ~Archived(lastTxn + 1, x)
          BY DiagnoseAssumption DEF BundleInv, TypeOK, Archived
        <5>2. \A x \in Present(plan) : tree[x] # 0
          BY DEF Present
        <5>3. QED
          BY <4>1, <5>1, <5>2 DEF Untouched, Archived
      <4>5. ASSUME ~TargetAuthorized' PROVE RepeatsPreset'
        <5>1. meta.state = "ready"
          BY <1>4 DEF BundleInv, FreshIsEmpty, Configure
        <5>2. /\ cfg.mode # meta.mode => \A p \in PhaseSet : ChangeAllowed(p, plan)
              /\ \A p \in PhaseSet : cfg.key[p] # meta.key[p] =>
                   ChangeAllowed(p, plan) \/ cfg.mode # None
          BY <1>4, <3>3, <5>1 DEF RedoInv, ChangesPlanned, Configure
        <5>3. /\ TargetAuthorized' <=>
                   /\ cfg.mode # meta.mode => \A p \in PhaseSet : ChangeAllowed(p, plan)
                   /\ \A p \in PhaseSet : cfg.key[p] # meta.key[p] => ChangeAllowed(p, plan)
              /\ RepeatsPreset' <=> meta.mode # None /\ cfg.mode = meta.mode
          BY <4>1 DEF TargetAuthorized, RepeatsPreset, ChangeAllowed, Done, Attempted
        <5>4. QED
          BY <4>5, <5>2, <5>3
      <4>6. QED
        BY <4>2, <4>3, <4>4, <4>5 DEF PendingRecoverable
    <3>4. QED
      BY <3>1, <3>2, <3>3
  <2>12. QED
    BY <2>3, <2>4, <2>5, <2>6, <2>7, <2>8, <2>9, <2>10, <2>11 DEF RedoInv
<1>5. CASE RedoUnmark
  <2>1. \A n \in 1..lastId : data'[n] = data[n]
    BY <1>5 DEF RedoUnmark, Executing
  <2>2. \A p \in PhaseSet : Done(p)' => /\ Done(p) /\ Same(p)
                                        /\ Source(p) # None => Same(Source(p))
                                        /\ Keeps(p)
    <3>1. PICK q \in Marked : marker' = [marker EXCEPT ![q] = "none"]
      BY <1>5 DEF RedoUnmark
    <3>2. marker \in [PhaseSet -> {"none", "blank", "done"}]
      BY DEF BundleInv, TypeOK
    <3>3. \A p \in PhaseSet : Done(p)' => Done(p)
      BY <3>1, <3>2 DEF Done
    <3>4. QED
      BY <1>5, <3>3 DEF RedoUnmark, Same, Keeps
  <2>3. ChangesPlanned'
    BY <1>5, <2>1, <2>2, PhaseFacts DEF RedoInv, RedoUnmark, Executing, Marked, ChangesPlanned,
         ChangeAllowed, Done, Attempted, BundleInv, TypeOK, HistoryTyped, SessionTyped,
         PendingTyped, FreshIsEmpty, CreatesOnce, PendingAlone, ClearIsLast, Unmoved,
         ManifestSettled, Summary, IdOf, ManifestExact, Snapshot, HasPlace, First, MovedOnce
  <2>4. PassedAreDone'
    BY <1>5, <2>1, <2>2, PhaseFacts DEF RedoInv, RedoUnmark, Executing, Marked, PassedAreDone,
         InPhases, Done, BundleInv, TypeOK, HistoryTyped, SessionTyped, PendingTyped,
         FreshIsEmpty, CreatesOnce, PendingAlone, ClearIsLast, Unmoved, ManifestSettled,
         Summary, IdOf, ManifestExact, Snapshot, HasPlace, First, MovedOnce
  <2>5. RunningIsBegun'
    BY <1>5, <2>1, <2>2, PhaseFacts DEF RedoInv, RedoUnmark, Executing, Marked, RunningIsBegun,
         First, Here, Done, BundleInv, TypeOK, HistoryTyped, SessionTyped, PendingTyped,
         FreshIsEmpty, CreatesOnce, PendingAlone, ClearIsLast, Unmoved, ManifestSettled,
         Summary, IdOf, ManifestExact, Snapshot, HasPlace, MovedOnce
  <2>6. MarkerFollows'
    BY <1>5, <2>1, <2>2, PhaseFacts DEF RedoInv, RedoUnmark, Executing, Marked, MarkerFollows,
         Here, BundleInv, TypeOK, HistoryTyped, SessionTyped, PendingTyped, FreshIsEmpty,
         CreatesOnce, PendingAlone, ClearIsLast, Unmoved, ManifestSettled, Done, Summary, IdOf,
         ManifestExact, Snapshot, HasPlace, First, MovedOnce
  <2>7. MarkedIsChecked'
    BY <1>5 DEF MarkedIsChecked, RedoUnmark, Executing
  <2>8. SourcesStand'
    BY <2>2, <2>1, EvidenceStands DEF RedoInv
  <2>9. MarkedIsWhole'
    BY <2>2, <2>1, EvidenceStands DEF RedoInv
  <2>10. PendingRecoverable'
    <3>1. PICK q \in Marked : marker' = [marker EXCEPT ![q] = "none"]
      BY <1>5 DEF RedoUnmark
    <3>2. UNCHANGED <<pending, tree, archive, meta>> /\ pending # None
      BY <1>5 DEF RedoUnmark, Executing
    <3>3. \A p \in PhaseSet : Done(p)' => Done(p)
      BY <3>1 DEF BundleInv, TypeOK, Done
    <3>4. MarkerValid' /\ PairsRecoverable'
      BY <3>2 DEF RedoInv, PendingRecoverable, MarkerValid, PairsRecoverable, Archived
    <3>5. TargetAuthorized'
      BY <1>5, <3>2, <3>3 DEF RedoUnmark, Executing, TargetAuthorized, ChangeAllowed, Attempted
    <3>6. QED
      BY <3>4, <3>5 DEF PendingRecoverable
  <2>11. ConfigFollows'
    BY <1>5 DEF RedoInv, RedoUnmark, ConfigFollows, InPhases
  <2>12. QED
    BY <2>3, <2>4, <2>5, <2>6, <2>7, <2>8, <2>9, <2>10, <2>11 DEF RedoInv
<1>6. CASE RedoMove
  <2>1. \A n \in 1..lastId : data'[n] = data[n]
    BY <1>6 DEF RedoMove, Executing
  <2>2. \A p \in PhaseSet : Done(p)' => /\ Done(p) /\ Same(p)
                                        /\ Source(p) # None => Same(Source(p))
                                        /\ Keeps(p)
    <3>1. PICK i \in 1..Len(Order) : Order[i] \in Unmoved /\ tree' = [tree EXCEPT ![Order[i]] = 0]
      BY <1>6 DEF RedoMove
    <3>2. Order[i] = Results \/ Order[i][1] \in pending.phases
      BY <1>6, <3>1 DEF RedoMove, Executing, MarkerValid, Unmoved
    <3>3. tree \in [Paths -> 0..lastId]
      BY DEF BundleInv, TypeOK
    <3>4. ASSUME NEW q \in PhaseSet, q \notin pending.phases PROVE Same(q)
      <4>1. ASSUME NEW a \in PartSet PROVE <<q, a>> \in Paths /\ Order[i] # <<q, a>>
        BY <3>2, <3>4, PathFacts
      <4>2. QED
        BY <3>1, <3>3, <4>1 DEF Same
    <3>5. ASSUME NEW p \in PhaseSet, Done(p)
          PROVE  p \notin pending.phases /\ (Source(p) # None => Source(p) \notin pending.phases)
      <4>1. p \notin pending.phases
        BY <1>6, <3>5 DEF RedoMove, Marked, Done
      <4>2. pending.phases \in SUBSET PhaseSet /\ Closure(pending.phases) = pending.phases
        BY <1>6 DEF BundleInv, PendingTyped, RedoMove, Executing, MarkerValid
      <4>3. QED
        BY <4>1, <4>2, ClosedHasDerived
    <3>6. UNCHANGED <<marker, meta>>
      BY <1>6 DEF RedoMove
    <3>7. QED
      BY <3>4, <3>5, <3>6, PhaseFacts DEF Done, Keeps
  <2>3. ChangesPlanned'
    BY <1>6, <2>1, <2>2, PhaseFacts DEF RedoInv, RedoMove, Executing, Marked, Unmoved,
         ChangesPlanned, ChangeAllowed, Done, Attempted, BundleInv, TypeOK, HistoryTyped,
         SessionTyped, PendingTyped, FreshIsEmpty, CreatesOnce, PendingAlone, ClearIsLast,
         ManifestSettled, Summary, IdOf, ManifestExact, Snapshot, HasPlace, First, MovedOnce
  <2>4. RunningIsBegun'
    BY <1>6, <2>1, <2>2, PhaseFacts DEF RedoInv, RedoMove, Executing, Marked, Unmoved,
         RunningIsBegun, First, Here, Done, BundleInv, TypeOK, HistoryTyped, SessionTyped,
         PendingTyped, FreshIsEmpty, CreatesOnce, PendingAlone, ClearIsLast, ManifestSettled,
         Summary, IdOf, ManifestExact, Snapshot, HasPlace, MovedOnce
  <2>5. MarkedIsChecked'
    BY <1>6, <2>1, <2>2, PhaseFacts DEF RedoInv, RedoMove, Executing, Marked, Unmoved,
         MarkedIsChecked, Here, SourceWhole, BundleInv, TypeOK, HistoryTyped, SessionTyped,
         PendingTyped, FreshIsEmpty, CreatesOnce, PendingAlone, ClearIsLast, ManifestSettled,
         Done, Summary, IdOf, ManifestExact, Snapshot, HasPlace, First, MovedOnce
  <2>6. SourcesStand'
    BY <2>2, <2>1, EvidenceStands DEF RedoInv
  <2>7. MarkedIsWhole'
    BY <2>2, <2>1, EvidenceStands DEF RedoInv
  <2>8. PendingRecoverable'
    <3>1. PICK i \in 1..Len(Order) :
                 /\ Order[i] \in Unmoved
                 /\ archive' = archive \cup {[txn |-> pending.txn, path |-> Order[i],
                     id |-> tree[Order[i]]]}
                 /\ tree' = [tree EXCEPT ![Order[i]] = 0]
      BY <1>6 DEF RedoMove
    <3>2. UNCHANGED <<pending, marker, meta>> /\ pending # None
      BY <1>6 DEF RedoMove, Executing
    <3>3. MarkerValid'
      BY <3>2 DEF RedoInv, PendingRecoverable, MarkerValid
    <3>4. tree \in [Paths -> 0..lastId] /\ pending.records \subseteq Paths
      BY <3>2 DEF BundleInv, TypeOK, PendingTyped
    <3>5. PairsRecoverable'
      <4>1. ASSUME NEW x \in pending.records PROVE (tree'[x] # 0) # Archived(pending.txn, x)'
        <5>1. CASE x = Order[i]
          <6> DEFINE e == [txn |-> pending.txn, path |-> Order[i], id |-> tree[Order[i]]]
          <6>1. e \in archive' /\ e.txn = pending.txn /\ e.path = x
            BY <3>1, <5>1
          <6>2. Archived(pending.txn, x)'
            BY <3>2, <6>1 DEF Archived
          <6>3. tree'[x] = 0
            BY <3>1, <3>4, <5>1
          <6>4. QED
            BY <6>2, <6>3
        <5>2. CASE x # Order[i]
          <6>1. tree'[x] = tree[x]
            BY <3>1, <3>4, <5>2
          <6>2. Archived(pending.txn, x)' <=> Archived(pending.txn, x)
            BY <3>1, <3>2, <5>2 DEF Archived
          <6>3. (tree[x] # 0) # Archived(pending.txn, x)
            BY <3>2 DEF RedoInv, PendingRecoverable, PairsRecoverable
          <6>4. QED
            BY <6>1, <6>2, <6>3 DEF Archived
        <5>3. QED
          BY <5>1, <5>2
      <4>2. QED
        BY <3>2, <4>1 DEF PairsRecoverable
    <3>6. TargetAuthorized'
      <4>1. \A p \in PhaseSet : Attempted(p)' => Attempted(p)
        BY <3>1, <3>4, PathFacts DEF Attempted
      <4>2. QED
        BY <1>6, <3>2, <4>1 DEF RedoMove, Executing, TargetAuthorized, ChangeAllowed, Done
    <3>7. QED
      BY <3>3, <3>5, <3>6 DEF PendingRecoverable
  <2>9. ConfigFollows'
    BY <1>6 DEF RedoInv, RedoMove, ConfigFollows, InPhases
  <2>10. PassedAreDone'
    BY <1>6 DEF RedoInv, RedoMove, PassedAreDone, InPhases, Done
  <2>11. MarkerFollows'
    BY <1>6 DEF RedoInv, RedoMove, MarkerFollows, Here
  <2>12. QED
    BY <2>3, <2>4, <2>5, <2>6, <2>7, <2>8, <2>9, <2>10, <2>11 DEF RedoInv
<1>7. CASE RedoMeta
  <2>1. \A n \in 1..lastId : data'[n] = data[n]
    BY <1>7 DEF RedoMeta, Executing
  <2>2. \A p \in PhaseSet : Done(p)' => /\ Done(p) /\ Same(p)
                                        /\ Source(p) # None => Same(Source(p))
                                        /\ Keeps(p)
    <3>1. ASSUME NEW p \in PhaseSet, Done(p) PROVE Keeps(p)
      <4>1. meta'.key = cfg.key /\ meta'.mode = cfg.mode /\ cfg = pending.cfg
        BY <1>7 DEF BundleInv, TypeOK, RedoInv, ConfigFollows, RedoMeta, Executing
      <4>2. ~ChangeAllowed(p, pending.phases)
        BY <1>7, <3>1 DEF RedoMeta, Marked, Done, ChangeAllowed
      <4>3. pending.cfg.mode = meta.mode /\ pending.cfg.key[p] = meta.key[p]
        BY <1>7, <4>2 DEF RedoMeta, Executing, TargetAuthorized
      <4>4. QED
        BY <4>1, <4>3 DEF Keeps
    <3>2. QED
      BY <1>7, <3>1 DEF RedoMeta, Done, Same
  <2>3. ConfigFollows'
    BY <1>7, <2>1, <2>2, PhaseFacts DEF RedoInv, RedoMeta, Executing, Marked, Unmoved, Done,
         ConfigFollows, InPhases, BundleInv, TypeOK, HistoryTyped, SessionTyped, PendingTyped,
         FreshIsEmpty, CreatesOnce, PendingAlone, ClearIsLast, ManifestSettled, Summary, IdOf,
         ManifestExact, Snapshot, HasPlace, First, MovedOnce
  <2>4. ChangesPlanned'
    BY <1>7, <2>1, <2>2, PhaseFacts DEF RedoInv, RedoMeta, Executing, Marked, Unmoved, Done,
         ChangesPlanned, ChangeAllowed, Attempted, BundleInv, TypeOK, HistoryTyped,
         SessionTyped, PendingTyped, FreshIsEmpty, CreatesOnce, PendingAlone, ClearIsLast,
         ManifestSettled, Summary, IdOf, ManifestExact, Snapshot, HasPlace, First, MovedOnce
  <2>5. PassedAreDone'
    BY <1>7, <2>1, <2>2, PhaseFacts DEF RedoInv, RedoMeta, Executing, Marked, Unmoved, Done,
         PassedAreDone, InPhases, BundleInv, TypeOK, HistoryTyped, SessionTyped, PendingTyped,
         FreshIsEmpty, CreatesOnce, PendingAlone, ClearIsLast, ManifestSettled, Summary, IdOf,
         ManifestExact, Snapshot, HasPlace, First, MovedOnce
  <2>6. RunningIsBegun'
    BY <1>7, <2>1, <2>2, PhaseFacts DEF RedoInv, RedoMeta, Executing, Marked, Unmoved, Done,
         RunningIsBegun, First, Here, BundleInv, TypeOK, HistoryTyped, SessionTyped,
         PendingTyped, FreshIsEmpty, CreatesOnce, PendingAlone, ClearIsLast, ManifestSettled,
         Summary, IdOf, ManifestExact, Snapshot, HasPlace, MovedOnce
  <2>7. MarkerFollows'
    BY <1>7, <2>1, <2>2, PhaseFacts DEF RedoInv, RedoMeta, Executing, Marked, Unmoved, Done,
         MarkerFollows, Here, BundleInv, TypeOK, HistoryTyped, SessionTyped, PendingTyped,
         FreshIsEmpty, CreatesOnce, PendingAlone, ClearIsLast, ManifestSettled, Summary, IdOf,
         ManifestExact, Snapshot, HasPlace, First, MovedOnce
  <2>8. MarkedIsChecked'
    BY <1>7, <2>1, <2>2, PhaseFacts DEF RedoInv, RedoMeta, Executing, Marked, Unmoved, Done,
         MarkedIsChecked, Here, SourceWhole, BundleInv, TypeOK, HistoryTyped, SessionTyped,
         PendingTyped, FreshIsEmpty, CreatesOnce, PendingAlone, ClearIsLast, ManifestSettled,
         Summary, IdOf, ManifestExact, Snapshot, HasPlace, First, MovedOnce
  <2>9. SourcesStand'
    BY <2>2, <2>1, EvidenceStands DEF RedoInv
  <2>10. MarkedIsWhole'
    BY <2>2, <2>1, EvidenceStands DEF RedoInv
  <2>11. PendingRecoverable'
    <3>1. UNCHANGED <<pending, marker, tree, archive>> /\ pending # None
      BY <1>7 DEF RedoMeta, Executing
    <3>2. MarkerValid' /\ PairsRecoverable'
      BY <3>1 DEF RedoInv, PendingRecoverable, MarkerValid, PairsRecoverable, Archived
    <3>3. meta'.mode = pending.cfg.mode /\ meta'.key = pending.cfg.key
      BY <1>7 DEF BundleInv, TypeOK, RedoInv, ConfigFollows, RedoMeta, Executing
    <3>4. QED
      BY <3>1, <3>2, <3>3 DEF PendingRecoverable, TargetAuthorized
  <2>12. QED
    BY <2>3, <2>4, <2>5, <2>6, <2>7, <2>8, <2>9, <2>10, <2>11 DEF RedoInv
<1>8. CASE RedoClear
  <2>1. \A n \in 1..lastId : data'[n] = data[n]
    BY <1>8 DEF RedoClear
  <2>2. \A p \in PhaseSet : Done(p)' => /\ Done(p) /\ Same(p)
                                        /\ Source(p) # None => Same(Source(p))
                                        /\ Keeps(p)
    BY <1>8 DEF RedoClear, Done, Same, Keeps
  <2>3. ConfigFollows'
    BY <1>8, <2>1, <2>2, PhaseFacts DEF RedoInv, RedoClear, ConfigFollows, InPhases, BundleInv,
         TypeOK, HistoryTyped, SessionTyped, PendingTyped, FreshIsEmpty, CreatesOnce,
         PendingAlone, ClearIsLast, Marked, Unmoved, ManifestSettled, Done, Summary, IdOf,
         ManifestExact, Snapshot, HasPlace, First, MovedOnce
  <2>4. ChangesPlanned'
    BY <1>8, <2>1, <2>2, PhaseFacts DEF RedoInv, RedoClear, ChangesPlanned, ChangeAllowed, Done,
         Attempted, BundleInv, TypeOK, HistoryTyped, SessionTyped, PendingTyped, FreshIsEmpty,
         CreatesOnce, PendingAlone, ClearIsLast, Marked, Unmoved, ManifestSettled, Summary,
         IdOf, ManifestExact, Snapshot, HasPlace, First, MovedOnce
  <2>5. PassedAreDone'
    BY <1>8, <2>1, <2>2, PhaseFacts DEF RedoInv, RedoClear, PassedAreDone, InPhases, Done,
         BundleInv, TypeOK, HistoryTyped, SessionTyped, PendingTyped, FreshIsEmpty, CreatesOnce,
         PendingAlone, ClearIsLast, Marked, Unmoved, ManifestSettled, Summary, IdOf,
         ManifestExact, Snapshot, HasPlace, First, MovedOnce
  <2>6. RunningIsBegun'
    BY <1>8, <2>1, <2>2, PhaseFacts DEF RedoInv, RedoClear, RunningIsBegun, First, Here, Done,
         BundleInv, TypeOK, HistoryTyped, SessionTyped, PendingTyped, FreshIsEmpty, CreatesOnce,
         PendingAlone, ClearIsLast, Marked, Unmoved, ManifestSettled, Summary, IdOf,
         ManifestExact, Snapshot, HasPlace, MovedOnce
  <2>7. MarkerFollows'
    BY <1>8, <2>1, <2>2, PhaseFacts DEF RedoInv, RedoClear, MarkerFollows, Here, BundleInv,
         TypeOK, HistoryTyped, SessionTyped, PendingTyped, FreshIsEmpty, CreatesOnce,
         PendingAlone, ClearIsLast, Marked, Unmoved, ManifestSettled, Done, Summary, IdOf,
         ManifestExact, Snapshot, HasPlace, First, MovedOnce
  <2>8. MarkedIsChecked'
    BY <1>8, <2>1, <2>2, PhaseFacts DEF RedoInv, RedoClear, MarkedIsChecked, Here, SourceWhole,
         BundleInv, TypeOK, HistoryTyped, SessionTyped, PendingTyped, FreshIsEmpty, CreatesOnce,
         PendingAlone, ClearIsLast, Marked, Unmoved, ManifestSettled, Done, Summary, IdOf,
         ManifestExact, Snapshot, HasPlace, First, MovedOnce
  <2>9. SourcesStand'
    BY <2>2, <2>1, EvidenceStands DEF RedoInv
  <2>10. MarkedIsWhole'
    BY <2>2, <2>1, EvidenceStands DEF RedoInv
  <2>11. PendingRecoverable'
    BY <1>8 DEF PendingRecoverable, RedoClear
  <2>12. QED
    BY <2>3, <2>4, <2>5, <2>6, <2>7, <2>8, <2>9, <2>10, <2>11 DEF RedoInv
<1>9. CASE SkipPhase
  <2>1. Here \in PhaseSet /\ at \in 1..Len(Phases) /\ Len(Phases) \in Nat
    BY <1>9, PhaseFacts DEF BundleInv, SessionTyped, SkipPhase, Working, Here, disk
  <2>2. \A n \in 1..lastId : data'[n] = data[n]
    BY <1>9 DEF SkipPhase, Working, Here, disk
  <2>3. \A p \in PhaseSet : Done(p)' => /\ Done(p) /\ Same(p)
                                        /\ Source(p) # None => Same(Source(p))
                                        /\ Keeps(p)
    BY <1>9 DEF SkipPhase, Working, Here, disk, Done, Same, Keeps
  <2>4. PassedAreDone'
    BY <1>9, <2>1, <2>2, <2>3, PhaseFacts DEF RedoInv, SkipPhase, Working, Done, Here, disk,
         PassedAreDone, InPhases, BundleInv, TypeOK, HistoryTyped, SessionTyped, PendingTyped,
         FreshIsEmpty, CreatesOnce, PendingAlone, ClearIsLast, Marked, Unmoved, ManifestSettled,
         Summary, IdOf, ManifestExact, Snapshot, HasPlace, First, MovedOnce
  <2>5. RunningIsBegun'
    BY <1>9, <2>1, <2>2, <2>3, PhaseFacts DEF RedoInv, SkipPhase, Working, Done, Here, disk,
         RunningIsBegun, First, BundleInv, TypeOK, HistoryTyped, SessionTyped, PendingTyped,
         FreshIsEmpty, CreatesOnce, PendingAlone, ClearIsLast, Marked, Unmoved, ManifestSettled,
         Summary, IdOf, ManifestExact, Snapshot, HasPlace, MovedOnce
  <2>6. MarkerFollows'
    BY <1>9, <2>1, <2>2, <2>3, PhaseFacts DEF RedoInv, SkipPhase, Working, Done, Here, disk,
         MarkerFollows, BundleInv, TypeOK, HistoryTyped, SessionTyped, PendingTyped,
         FreshIsEmpty, CreatesOnce, PendingAlone, ClearIsLast, Marked, Unmoved, ManifestSettled,
         Summary, IdOf, ManifestExact, Snapshot, HasPlace, First, MovedOnce
  <2>7. MarkedIsChecked'
    BY <1>9, <2>1, <2>2, <2>3, PhaseFacts DEF RedoInv, SkipPhase, Working, Done, Here, disk,
         MarkedIsChecked, SourceWhole, BundleInv, TypeOK, HistoryTyped, SessionTyped,
         PendingTyped, FreshIsEmpty, CreatesOnce, PendingAlone, ClearIsLast, Marked, Unmoved,
         ManifestSettled, Summary, IdOf, ManifestExact, Snapshot, HasPlace, First, MovedOnce
  <2>8. SourcesStand'
    BY <2>3, <2>2, EvidenceStands DEF RedoInv
  <2>9. MarkedIsWhole'
    BY <2>3, <2>2, EvidenceStands DEF RedoInv
  <2>10. PendingRecoverable'
    BY <1>9 DEF BundleInv, PendingAlone, PendingRecoverable, SkipPhase, Working, Here, disk
  <2>11. ConfigFollows'
    BY <1>9 DEF RedoInv, SkipPhase, disk, ConfigFollows, InPhases
  <2>12. ChangesPlanned'
    BY <1>9 DEF RedoInv, SkipPhase, disk, ChangesPlanned, ChangeAllowed, Done, Attempted
  <2>13. QED
    BY <2>4, <2>5, <2>6, <2>7, <2>8, <2>9, <2>10, <2>11, <2>12 DEF RedoInv
<1>10. CASE BeginPhase
  <2>1. Here \in PhaseSet /\ at \in 1..Len(Phases) /\ Len(Phases) \in Nat
    BY <1>10, PhaseFacts DEF BundleInv, SessionTyped, BeginPhase, Working, Here
  <2>2. \A n \in 1..lastId : data'[n] = data[n]
    BY <1>10 DEF BundleInv, TypeOK, HistoryTyped, BeginPhase
  <2>3. \A p \in PhaseSet : Done(p)' => /\ Done(p) /\ Same(p)
                                        /\ Source(p) # None => Same(Source(p))
                                        /\ Keeps(p)
    <3>1. tree' = [tree EXCEPT ![<<Here, Parts[1]>>] = lastId'] /\ UNCHANGED <<marker, meta>>
      BY <1>10 DEF BeginPhase
    <3>2. tree \in [Paths -> 0..lastId]
      BY DEF BundleInv, TypeOK
    <3>3. ASSUME NEW q \in PhaseSet, q # Here PROVE Same(q)
      BY <3>1, <3>2, <3>3, PathFacts DEF Same
    <3>4. ASSUME NEW p \in PhaseSet, Done(p)
          PROVE  p # Here /\ (Source(p) # None => Source(p) # Here)
      BY <1>10, <3>4, PathFacts DEF BeginPhase, RedoInv, SourcesStand, SourceWhole, OneGeneration,
        IdOf, Attempted
    <3>5. QED
      BY <3>1, <3>3, <3>4, PhaseFacts DEF Done, Keeps
  <2>4. ConfigFollows'
    BY <1>10, <2>1, <2>2, <2>3, PhaseFacts DEF RedoInv, BeginPhase, Working, Done, Here,
         Attempted, IdOf, ConfigFollows, InPhases, BundleInv, TypeOK, HistoryTyped,
         SessionTyped, PendingTyped, FreshIsEmpty, CreatesOnce, PendingAlone, ClearIsLast,
         Marked, Unmoved, ManifestSettled, Summary, ManifestExact, Snapshot, HasPlace, First,
         MovedOnce
  <2>5. ChangesPlanned'
    BY <1>10, <2>1, <2>2, <2>3, PhaseFacts DEF RedoInv, BeginPhase, Working, Done, Here,
         Attempted, IdOf, ChangesPlanned, ChangeAllowed, BundleInv, TypeOK, HistoryTyped,
         SessionTyped, PendingTyped, FreshIsEmpty, CreatesOnce, PendingAlone, ClearIsLast,
         Marked, Unmoved, ManifestSettled, Summary, ManifestExact, Snapshot, HasPlace, First,
         MovedOnce
  <2>6. PassedAreDone'
    BY <1>10, <2>1, <2>2, <2>3, PhaseFacts DEF RedoInv, BeginPhase, Working, Done, Here,
         Attempted, IdOf, PassedAreDone, InPhases, BundleInv, TypeOK, HistoryTyped,
         SessionTyped, PendingTyped, FreshIsEmpty, CreatesOnce, PendingAlone, ClearIsLast,
         Marked, Unmoved, ManifestSettled, Summary, ManifestExact, Snapshot, HasPlace, First,
         MovedOnce
  <2>7. RunningIsBegun'
    BY <1>10, <2>1, <2>2, <2>3, PhaseFacts DEF RedoInv, BeginPhase, Working, Done, Here,
         Attempted, IdOf, RunningIsBegun, First, BundleInv, TypeOK, HistoryTyped, SessionTyped,
         PendingTyped, FreshIsEmpty, CreatesOnce, PendingAlone, ClearIsLast, Marked, Unmoved,
         ManifestSettled, Summary, ManifestExact, Snapshot, HasPlace, MovedOnce
  <2>8. MarkerFollows'
    BY <1>10, <2>1, <2>2, <2>3, PhaseFacts DEF RedoInv, BeginPhase, Working, Done, Here,
         Attempted, IdOf, MarkerFollows, BundleInv, TypeOK, HistoryTyped, SessionTyped,
         PendingTyped, FreshIsEmpty, CreatesOnce, PendingAlone, ClearIsLast, Marked, Unmoved,
         ManifestSettled, Summary, ManifestExact, Snapshot, HasPlace, First, MovedOnce
  <2>9. MarkedIsChecked'
    BY <1>10, <2>1, <2>2, <2>3, PhaseFacts DEF RedoInv, BeginPhase, Working, Done, Here,
         Attempted, IdOf, MarkedIsChecked, SourceWhole, BundleInv, TypeOK, HistoryTyped,
         SessionTyped, PendingTyped, FreshIsEmpty, CreatesOnce, PendingAlone, ClearIsLast,
         Marked, Unmoved, ManifestSettled, Summary, ManifestExact, Snapshot, HasPlace, First,
         MovedOnce
  <2>10. SourcesStand'
    BY <2>3, <2>2, EvidenceStands DEF RedoInv
  <2>11. MarkedIsWhole'
    BY <2>3, <2>2, EvidenceStands DEF RedoInv
  <2>12. PendingRecoverable'
    BY <1>10 DEF BundleInv, PendingAlone, PendingRecoverable, BeginPhase, Working, Here
  <2>13. QED
    BY <2>4, <2>5, <2>6, <2>7, <2>8, <2>9, <2>10, <2>11, <2>12 DEF RedoInv
<1>11. CASE ContinuePhase
  <2>1. Here \in PhaseSet /\ at \in 1..Len(Phases) /\ Len(Phases) \in Nat
    BY <1>11, PhaseFacts DEF BundleInv, SessionTyped, ContinuePhase, Working, Here, disk
  <2>2. \A n \in 1..lastId : data'[n] = data[n]
    BY <1>11 DEF ContinuePhase, Working, Here, disk
  <2>3. \A p \in PhaseSet : Done(p)' => /\ Done(p) /\ Same(p)
                                        /\ Source(p) # None => Same(Source(p))
                                        /\ Keeps(p)
    BY <1>11 DEF ContinuePhase, Working, Here, disk, Done, Same, Keeps
  <2>4. ConfigFollows'
    BY <1>11, <2>1, <2>2, <2>3, PhaseFacts DEF RedoInv, ContinuePhase, Working, Done, Here,
         Attempted, Continues, IdOf, disk, ConfigFollows, InPhases, BundleInv, TypeOK,
         HistoryTyped, SessionTyped, PendingTyped, FreshIsEmpty, CreatesOnce, PendingAlone,
         ClearIsLast, Marked, Unmoved, ManifestSettled, Summary, ManifestExact, Snapshot,
         HasPlace, First, MovedOnce
  <2>5. ChangesPlanned'
    BY <1>11, <2>1, <2>2, <2>3, PhaseFacts DEF RedoInv, ContinuePhase, Working, Done, Here,
         Attempted, Continues, IdOf, disk, ChangesPlanned, ChangeAllowed, BundleInv, TypeOK,
         HistoryTyped, SessionTyped, PendingTyped, FreshIsEmpty, CreatesOnce, PendingAlone,
         ClearIsLast, Marked, Unmoved, ManifestSettled, Summary, ManifestExact, Snapshot,
         HasPlace, First, MovedOnce
  <2>6. PassedAreDone'
    BY <1>11, <2>1, <2>2, <2>3, PhaseFacts DEF RedoInv, ContinuePhase, Working, Done, Here,
         Attempted, Continues, IdOf, disk, PassedAreDone, InPhases, BundleInv, TypeOK,
         HistoryTyped, SessionTyped, PendingTyped, FreshIsEmpty, CreatesOnce, PendingAlone,
         ClearIsLast, Marked, Unmoved, ManifestSettled, Summary, ManifestExact, Snapshot,
         HasPlace, First, MovedOnce
  <2>7. RunningIsBegun'
    BY <1>11, <2>1, <2>2, <2>3, PhaseFacts DEF RedoInv, ContinuePhase, Working, Done, Here,
         Attempted, Continues, IdOf, disk, RunningIsBegun, First, BundleInv, TypeOK,
         HistoryTyped, SessionTyped, PendingTyped, FreshIsEmpty, CreatesOnce, PendingAlone,
         ClearIsLast, Marked, Unmoved, ManifestSettled, Summary, ManifestExact, Snapshot,
         HasPlace, MovedOnce
  <2>8. MarkerFollows'
    BY <1>11, <2>1, <2>2, <2>3, PhaseFacts DEF RedoInv, ContinuePhase, Working, Done, Here,
         Attempted, Continues, IdOf, disk, MarkerFollows, BundleInv, TypeOK, HistoryTyped,
         SessionTyped, PendingTyped, FreshIsEmpty, CreatesOnce, PendingAlone, ClearIsLast,
         Marked, Unmoved, ManifestSettled, Summary, ManifestExact, Snapshot, HasPlace, First,
         MovedOnce
  <2>9. MarkedIsChecked'
    BY <1>11, <2>1, <2>2, <2>3, PhaseFacts DEF RedoInv, ContinuePhase, Working, Done, Here,
         Attempted, Continues, IdOf, disk, MarkedIsChecked, SourceWhole, BundleInv, TypeOK,
         HistoryTyped, SessionTyped, PendingTyped, FreshIsEmpty, CreatesOnce, PendingAlone,
         ClearIsLast, Marked, Unmoved, ManifestSettled, Summary, ManifestExact, Snapshot,
         HasPlace, First, MovedOnce
  <2>10. SourcesStand'
    BY <2>3, <2>2, EvidenceStands DEF RedoInv
  <2>11. MarkedIsWhole'
    BY <2>3, <2>2, EvidenceStands DEF RedoInv
  <2>12. PendingRecoverable'
    BY <1>11 DEF BundleInv, PendingAlone, PendingRecoverable, ContinuePhase, Working, Here, disk
  <2>13. QED
    BY <2>4, <2>5, <2>6, <2>7, <2>8, <2>9, <2>10, <2>11, <2>12 DEF RedoInv
<1>12. CASE WritePart
  <2>1. Here \in PhaseSet /\ at \in 1..Len(Phases) /\ Len(Phases) \in Nat
    BY <1>12, PhaseFacts DEF BundleInv, SessionTyped, WritePart, Here
  <2>2. \A n \in 1..lastId : data'[n] = data[n]
    BY <1>12 DEF WritePart, Here
  <2>3. \A p \in PhaseSet : Done(p)' => /\ Done(p) /\ Same(p)
                                        /\ Source(p) # None => Same(Source(p))
                                        /\ Keeps(p)
    <3>1. PICK i \in Missing(Here) :
                 tree' = [tree EXCEPT ![<<Here, Parts[i]>>] = tree[<<Here, Parts[1]>>]]
      BY <1>12 DEF WritePart
    <3>2. tree \in [Paths -> 0..lastId] /\ UNCHANGED <<marker, meta>>
      BY <1>12 DEF BundleInv, TypeOK, WritePart
    <3>3. ASSUME NEW q \in PhaseSet, q # Here PROVE Same(q)
      BY <3>1, <3>2, <3>3, PathFacts DEF Same
    <3>4. Parts[i] \in PartSet /\ tree[<<Here, Parts[i]>>] = 0
      BY <3>1 DEF Missing, PartSet
    <3>5. ASSUME NEW p \in PhaseSet, Done(p)
          PROVE  p # Here /\ (Source(p) # None => Source(p) # Here)
      <4>1. p # Here
        BY <1>12, <3>5 DEF WritePart, RedoInv, RunningIsBegun
      <4>2. ~OneGeneration(Here)
        BY <3>4 DEF OneGeneration
      <4>3. Source(p) # None => OneGeneration(Source(p))
        BY <3>5 DEF RedoInv, SourcesStand, SourceWhole
      <4>4. QED
        BY <4>1, <4>2, <4>3
    <3>6. QED
      BY <3>2, <3>3, <3>5, PhaseFacts DEF Done, Keeps
  <2>4. ChangesPlanned'
    BY <1>12, <2>1, <2>2, <2>3, PhaseFacts DEF RedoInv, WritePart, Missing, Here,
         ChangesPlanned, ChangeAllowed, Done, Attempted, BundleInv, TypeOK, HistoryTyped,
         SessionTyped, PendingTyped, FreshIsEmpty, CreatesOnce, PendingAlone, ClearIsLast,
         Marked, Unmoved, ManifestSettled, Summary, IdOf, ManifestExact, Snapshot, HasPlace,
         First, MovedOnce
  <2>5. RunningIsBegun'
    BY <1>12, <2>1, <2>2, <2>3, PhaseFacts DEF RedoInv, WritePart, Missing, Here,
         RunningIsBegun, First, Done, BundleInv, TypeOK, HistoryTyped, SessionTyped,
         PendingTyped, FreshIsEmpty, CreatesOnce, PendingAlone, ClearIsLast, Marked, Unmoved,
         ManifestSettled, Summary, IdOf, ManifestExact, Snapshot, HasPlace, MovedOnce
  <2>6. MarkedIsChecked'
    BY <1>12, <2>1, <2>2, <2>3, PhaseFacts DEF RedoInv, WritePart, Missing, Here,
         MarkedIsChecked, SourceWhole, BundleInv, TypeOK, HistoryTyped, SessionTyped,
         PendingTyped, FreshIsEmpty, CreatesOnce, PendingAlone, ClearIsLast, Marked, Unmoved,
         ManifestSettled, Done, Summary, IdOf, ManifestExact, Snapshot, HasPlace, First,
         MovedOnce
  <2>7. SourcesStand'
    BY <2>3, <2>2, EvidenceStands DEF RedoInv
  <2>8. MarkedIsWhole'
    BY <2>3, <2>2, EvidenceStands DEF RedoInv
  <2>9. PendingRecoverable'
    BY <1>12 DEF BundleInv, PendingAlone, PendingRecoverable, WritePart, Here
  <2>10. ConfigFollows'
    BY <1>12 DEF RedoInv, WritePart, ConfigFollows, InPhases
  <2>11. PassedAreDone'
    BY <1>12 DEF RedoInv, WritePart, PassedAreDone, InPhases, Done
  <2>12. MarkerFollows'
    BY <1>12 DEF RedoInv, WritePart, MarkerFollows, Here
  <2>13. QED
    BY <2>4, <2>5, <2>6, <2>7, <2>8, <2>9, <2>10, <2>11, <2>12 DEF RedoInv
<1>13. CASE MarkOpen
  <2>1. Here \in PhaseSet /\ at \in 1..Len(Phases) /\ Len(Phases) \in Nat
    BY <1>13, PhaseFacts DEF BundleInv, SessionTyped, MarkOpen, Here
  <2>2. \A n \in 1..lastId : data'[n] = data[n]
    BY <1>13 DEF MarkOpen, Here
  <2>3. \A p \in PhaseSet : Done(p)' => /\ Done(p) /\ Same(p)
                                        /\ Source(p) # None => Same(Source(p))
                                        /\ Keeps(p)
    <3>1. \A p \in PhaseSet : Done(p)' => Done(p)
      BY <1>13, <2>1 DEF BundleInv, TypeOK, MarkOpen, Done
    <3>2. QED
      BY <1>13, <3>1 DEF MarkOpen, Same, Keeps
  <2>4. ConfigFollows'
    BY <1>13, <2>1, <2>2, <2>3, PhaseFacts DEF RedoInv, MarkOpen, Missing, Here, ConfigFollows,
         InPhases, BundleInv, TypeOK, HistoryTyped, SessionTyped, PendingTyped, FreshIsEmpty,
         CreatesOnce, PendingAlone, ClearIsLast, Marked, Unmoved, ManifestSettled, Done,
         Summary, IdOf, ManifestExact, Snapshot, HasPlace, First, MovedOnce
  <2>5. ChangesPlanned'
    BY <1>13, <2>1, <2>2, <2>3, PhaseFacts DEF RedoInv, MarkOpen, Missing, Here, ChangesPlanned,
         ChangeAllowed, Done, Attempted, BundleInv, TypeOK, HistoryTyped, SessionTyped,
         PendingTyped, FreshIsEmpty, CreatesOnce, PendingAlone, ClearIsLast, Marked, Unmoved,
         ManifestSettled, Summary, IdOf, ManifestExact, Snapshot, HasPlace, First, MovedOnce
  <2>6. PassedAreDone'
    BY <1>13, <2>1, <2>2, <2>3, PhaseFacts DEF RedoInv, MarkOpen, Missing, Here, PassedAreDone,
         InPhases, Done, BundleInv, TypeOK, HistoryTyped, SessionTyped, PendingTyped,
         FreshIsEmpty, CreatesOnce, PendingAlone, ClearIsLast, Marked, Unmoved, ManifestSettled,
         Summary, IdOf, ManifestExact, Snapshot, HasPlace, First, MovedOnce
  <2>7. RunningIsBegun'
    BY <1>13, <2>1, <2>2, <2>3, PhaseFacts DEF RedoInv, MarkOpen, Missing, Here, RunningIsBegun,
         First, Done, BundleInv, TypeOK, HistoryTyped, SessionTyped, PendingTyped, FreshIsEmpty,
         CreatesOnce, PendingAlone, ClearIsLast, Marked, Unmoved, ManifestSettled, Summary,
         IdOf, ManifestExact, Snapshot, HasPlace, MovedOnce
  <2>8. MarkerFollows'
    BY <1>13, <2>1, <2>2, <2>3, PhaseFacts DEF RedoInv, MarkOpen, Missing, Here, MarkerFollows,
         BundleInv, TypeOK, HistoryTyped, SessionTyped, PendingTyped, FreshIsEmpty, CreatesOnce,
         PendingAlone, ClearIsLast, Marked, Unmoved, ManifestSettled, Done, Summary, IdOf,
         ManifestExact, Snapshot, HasPlace, First, MovedOnce
  <2>9. MarkedIsChecked'
    <3>1. Valid(Here, meta)
      BY <1>13 DEF MarkOpen, RedoInv, ConfigFollows, InPhases, Valid, Configured
    <3>2. SourceWhole(Here)
      <4>1. ASSUME Source(Here) # None PROVE Done(Source(Here))
        <5>1. PICK j \in 1..(at - 1) : Phases[j] = Source(Here)
          BY <2>1, <4>1, PhaseFacts DEF Here
        <5>2. QED
          BY <1>13, <5>1 DEF MarkOpen, RedoInv, PassedAreDone, InPhases
      <4>2. QED
        BY <2>1, <4>1, PhaseFacts DEF RedoInv, MarkedIsWhole, Stands, SourceWhole
    <3>3. UNCHANGED <<tree, data, meta, at>>
      BY <1>13 DEF MarkOpen
    <3>4. QED
      BY <3>1, <3>2, <3>3 DEF MarkedIsChecked, Valid, OneGeneration, Configured, FromSource,
        SourceWhole, IdOf, Here
  <2>10. SourcesStand'
    BY <2>3, <2>2, EvidenceStands DEF RedoInv
  <2>11. MarkedIsWhole'
    BY <2>3, <2>2, EvidenceStands DEF RedoInv
  <2>12. PendingRecoverable'
    BY <1>13 DEF BundleInv, PendingAlone, PendingRecoverable, MarkOpen, Here
  <2>13. QED
    BY <2>4, <2>5, <2>6, <2>7, <2>8, <2>9, <2>10, <2>11, <2>12 DEF RedoInv
<1>14. CASE MarkPublish
  <2>1. Here \in PhaseSet /\ at \in 1..Len(Phases) /\ Len(Phases) \in Nat
    BY <1>14, PhaseFacts DEF BundleInv, SessionTyped, MarkPublish, Here
  <2>2. \A n \in 1..lastId : data'[n] = data[n]
    BY <1>14 DEF MarkPublish, Here
  <2>3. ConfigFollows'
    BY <1>14, <2>1, <2>2, PhaseFacts DEF RedoInv, MarkPublish, Here, ConfigFollows, InPhases,
         BundleInv, TypeOK, HistoryTyped, SessionTyped, PendingTyped, FreshIsEmpty, CreatesOnce,
         PendingAlone, ClearIsLast, Marked, Unmoved, ManifestSettled, Done, Summary, IdOf,
         ManifestExact, Snapshot, HasPlace, First, MovedOnce
  <2>4. ChangesPlanned'
    BY <1>14, <2>1, <2>2, PhaseFacts DEF RedoInv, MarkPublish, Here, ChangesPlanned,
         ChangeAllowed, Done, Attempted, BundleInv, TypeOK, HistoryTyped, SessionTyped,
         PendingTyped, FreshIsEmpty, CreatesOnce, PendingAlone, ClearIsLast, Marked, Unmoved,
         ManifestSettled, Summary, IdOf, ManifestExact, Snapshot, HasPlace, First, MovedOnce
  <2>5. PassedAreDone'
    BY <1>14, <2>1, <2>2, PhaseFacts DEF RedoInv, MarkPublish, Here, PassedAreDone, InPhases,
         Done, BundleInv, TypeOK, HistoryTyped, SessionTyped, PendingTyped, FreshIsEmpty,
         CreatesOnce, PendingAlone, ClearIsLast, Marked, Unmoved, ManifestSettled, Summary,
         IdOf, ManifestExact, Snapshot, HasPlace, First, MovedOnce
  <2>6. RunningIsBegun'
    BY <1>14, <2>1, <2>2, PhaseFacts DEF RedoInv, MarkPublish, Here, RunningIsBegun, First,
         Done, BundleInv, TypeOK, HistoryTyped, SessionTyped, PendingTyped, FreshIsEmpty,
         CreatesOnce, PendingAlone, ClearIsLast, Marked, Unmoved, ManifestSettled, Summary,
         IdOf, ManifestExact, Snapshot, HasPlace, MovedOnce
  <2>7. MarkerFollows'
    BY <1>14, <2>1, <2>2, PhaseFacts DEF RedoInv, MarkPublish, Here, MarkerFollows, BundleInv,
         TypeOK, HistoryTyped, SessionTyped, PendingTyped, FreshIsEmpty, CreatesOnce,
         PendingAlone, ClearIsLast, Marked, Unmoved, ManifestSettled, Done, Summary, IdOf,
         ManifestExact, Snapshot, HasPlace, First, MovedOnce
  <2>8. MarkedIsChecked'
    <3>1. Valid(Here, meta) /\ SourceWhole(Here)
      BY <1>14 DEF MarkPublish, RedoInv, MarkedIsChecked
    <3>2. UNCHANGED <<tree, data, meta, at>>
      BY <1>14 DEF MarkPublish
    <3>3. QED
      BY <3>1, <3>2 DEF MarkedIsChecked, Valid, OneGeneration, Configured, FromSource, SourceWhole,
        IdOf, Here
  <2>9. SourcesStand'
    BY <1>14, <2>1 DEF BundleInv, TypeOK, RedoInv, SourcesStand, MarkedIsChecked, SourceWhole,
      OneGeneration, IdOf, MarkPublish, Done
  <2>10. MarkedIsWhole'
    <3>1. ASSUME NEW p \in PhaseSet, Done(p)' PROVE Stands(p)'
      <4>1. Stands(p)
        <5>1. CASE p = Here
          BY <1>14, <5>1 DEF RedoInv, MarkedIsChecked, Valid, Stands, MarkPublish
        <5>2. CASE p # Here
          BY <1>14, <2>1, <3>1, <5>2 DEF BundleInv, TypeOK, RedoInv, MarkedIsWhole, MarkPublish, Done
        <5>3. QED
          BY <5>1, <5>2
      <4>2. (\A q \in PhaseSet : Same(q)) /\ meta' = meta
        BY <1>14 DEF MarkPublish, Same
      <4>3. QED
        BY <2>2, <4>1, <4>2, StandsStays, PhaseFacts DEF Keeps
    <3>2. QED
      BY <3>1 DEF MarkedIsWhole
  <2>11. PendingRecoverable'
    BY <1>14 DEF BundleInv, PendingAlone, PendingRecoverable, MarkPublish, Here
  <2>12. QED
    BY <2>3, <2>4, <2>5, <2>6, <2>7, <2>8, <2>9, <2>10, <2>11 DEF RedoInv
<1>15. CASE MarkMeta
  <2>1. Here \in PhaseSet /\ at \in 1..Len(Phases) /\ Len(Phases) \in Nat
    <3>1. pc = "marked"
      BY <1>15 DEF MarkMeta
    <3>2. QED
      BY <3>1, PhaseFacts DEF BundleInv, SessionTyped, Here
  <2>2. \A n \in 1..lastId : data'[n] = data[n]
    BY <1>15 DEF MarkMeta
  <2>3. \A p \in PhaseSet : Done(p)' => /\ Done(p) /\ Same(p)
                                        /\ Source(p) # None => Same(Source(p))
                                        /\ Keeps(p)
    BY <1>15 DEF BundleInv, TypeOK, MetaSpace, FreshIsEmpty, CreatesOnce, MarkMeta, Done, Same, Keeps
  <2>4. ConfigFollows'
    BY <1>15, <2>1, <2>2, <2>3, PhaseFacts DEF RedoInv, MarkMeta, Done, ConfigFollows, InPhases,
         BundleInv, TypeOK, HistoryTyped, SessionTyped, PendingTyped, FreshIsEmpty, CreatesOnce,
         PendingAlone, ClearIsLast, Marked, Unmoved, ManifestSettled, Summary, IdOf,
         ManifestExact, Snapshot, HasPlace, First, MovedOnce
  <2>5. ChangesPlanned'
    BY <1>15, <2>1, <2>2, <2>3, PhaseFacts DEF RedoInv, MarkMeta, Done, ChangesPlanned,
         ChangeAllowed, Attempted, BundleInv, TypeOK, HistoryTyped, SessionTyped, PendingTyped,
         FreshIsEmpty, CreatesOnce, PendingAlone, ClearIsLast, Marked, Unmoved, ManifestSettled,
         Summary, IdOf, ManifestExact, Snapshot, HasPlace, First, MovedOnce
  <2>6. PassedAreDone'
    <3>1. ASSUME NEW j \in 1..at PROVE Done(Phases[j])
      <4>1. CASE j = at
        BY <1>15, <4>1 DEF MarkMeta, BundleInv, RedoInv, MarkerFollows, Here, Done
      <4>2. CASE j # at
        BY <1>15, <2>1, <3>1, <4>2 DEF MarkMeta, RedoInv, PassedAreDone, InPhases
      <4>3. QED
        BY <4>1, <4>2
    <3>2. at' - 1 = at /\ marker' = marker
      BY <1>15, <2>1 DEF MarkMeta
    <3>3. QED
      BY <3>1, <3>2 DEF PassedAreDone, Done
  <2>7. RunningIsBegun'
    BY <1>15, <2>1, <2>2, <2>3, PhaseFacts DEF RedoInv, MarkMeta, Done, RunningIsBegun, First,
         Here, BundleInv, TypeOK, HistoryTyped, SessionTyped, PendingTyped, FreshIsEmpty,
         CreatesOnce, PendingAlone, ClearIsLast, Marked, Unmoved, ManifestSettled, Summary,
         IdOf, ManifestExact, Snapshot, HasPlace, MovedOnce
  <2>8. MarkerFollows'
    BY <1>15, <2>1, <2>2, <2>3, PhaseFacts DEF RedoInv, MarkMeta, Done, MarkerFollows, Here,
         BundleInv, TypeOK, HistoryTyped, SessionTyped, PendingTyped, FreshIsEmpty, CreatesOnce,
         PendingAlone, ClearIsLast, Marked, Unmoved, ManifestSettled, Summary, IdOf,
         ManifestExact, Snapshot, HasPlace, First, MovedOnce
  <2>9. MarkedIsChecked'
    BY <1>15, <2>1, <2>2, <2>3, PhaseFacts DEF RedoInv, MarkMeta, Done, MarkedIsChecked, Here,
         SourceWhole, BundleInv, TypeOK, HistoryTyped, SessionTyped, PendingTyped, FreshIsEmpty,
         CreatesOnce, PendingAlone, ClearIsLast, Marked, Unmoved, ManifestSettled, Summary,
         IdOf, ManifestExact, Snapshot, HasPlace, First, MovedOnce
  <2>10. SourcesStand'
    BY <2>3, <2>2, EvidenceStands DEF RedoInv
  <2>11. MarkedIsWhole'
    BY <2>3, <2>2, EvidenceStands DEF RedoInv
  <2>12. PendingRecoverable'
    BY <1>15 DEF BundleInv, PendingAlone, PendingRecoverable, MarkMeta
  <2>13. QED
    BY <2>4, <2>5, <2>6, <2>7, <2>8, <2>9, <2>10, <2>11, <2>12 DEF RedoInv
<1>16. CASE FinalizeBegin
  <2>1. \A n \in 1..lastId : data'[n] = data[n]
    BY <1>16 DEF FinalizeBegin
  <2>2. \A p \in PhaseSet : Done(p)' => /\ Done(p) /\ Same(p)
                                        /\ Source(p) # None => Same(Source(p))
                                        /\ Keeps(p)
    BY <1>16 DEF BundleInv, TypeOK, MetaSpace, FreshIsEmpty, CreatesOnce, FinalizeBegin, Done, Same, Keeps
  <2>3. ConfigFollows'
    BY <1>16, <2>1, <2>2, PhaseFacts DEF RedoInv, FinalizeBegin, Done, ConfigFollows, InPhases,
         BundleInv, TypeOK, HistoryTyped, SessionTyped, PendingTyped, FreshIsEmpty, CreatesOnce,
         PendingAlone, ClearIsLast, Marked, Unmoved, ManifestSettled, Summary, IdOf,
         ManifestExact, Snapshot, HasPlace, First, MovedOnce
  <2>4. ChangesPlanned'
    BY <1>16, <2>1, <2>2, PhaseFacts DEF RedoInv, FinalizeBegin, Done, ChangesPlanned,
         ChangeAllowed, Attempted, BundleInv, TypeOK, HistoryTyped, SessionTyped, PendingTyped,
         FreshIsEmpty, CreatesOnce, PendingAlone, ClearIsLast, Marked, Unmoved, ManifestSettled,
         Summary, IdOf, ManifestExact, Snapshot, HasPlace, First, MovedOnce
  <2>5. PassedAreDone'
    BY <1>16, <2>1, <2>2, PhaseFacts DEF RedoInv, FinalizeBegin, Done, PassedAreDone, InPhases,
         BundleInv, TypeOK, HistoryTyped, SessionTyped, PendingTyped, FreshIsEmpty, CreatesOnce,
         PendingAlone, ClearIsLast, Marked, Unmoved, ManifestSettled, Summary, IdOf,
         ManifestExact, Snapshot, HasPlace, First, MovedOnce
  <2>6. RunningIsBegun'
    BY <1>16, <2>1, <2>2, PhaseFacts DEF RedoInv, FinalizeBegin, Done, RunningIsBegun, First,
         Here, BundleInv, TypeOK, HistoryTyped, SessionTyped, PendingTyped, FreshIsEmpty,
         CreatesOnce, PendingAlone, ClearIsLast, Marked, Unmoved, ManifestSettled, Summary,
         IdOf, ManifestExact, Snapshot, HasPlace, MovedOnce
  <2>7. MarkerFollows'
    BY <1>16, <2>1, <2>2, PhaseFacts DEF RedoInv, FinalizeBegin, Done, MarkerFollows, Here,
         BundleInv, TypeOK, HistoryTyped, SessionTyped, PendingTyped, FreshIsEmpty, CreatesOnce,
         PendingAlone, ClearIsLast, Marked, Unmoved, ManifestSettled, Summary, IdOf,
         ManifestExact, Snapshot, HasPlace, First, MovedOnce
  <2>8. MarkedIsChecked'
    BY <1>16, <2>1, <2>2, PhaseFacts DEF RedoInv, FinalizeBegin, Done, MarkedIsChecked, Here,
         SourceWhole, BundleInv, TypeOK, HistoryTyped, SessionTyped, PendingTyped, FreshIsEmpty,
         CreatesOnce, PendingAlone, ClearIsLast, Marked, Unmoved, ManifestSettled, Summary,
         IdOf, ManifestExact, Snapshot, HasPlace, First, MovedOnce
  <2>9. SourcesStand'
    BY <2>2, <2>1, EvidenceStands DEF RedoInv
  <2>10. MarkedIsWhole'
    BY <2>2, <2>1, EvidenceStands DEF RedoInv
  <2>11. PendingRecoverable'
    BY <1>16 DEF BundleInv, PendingAlone, PendingRecoverable, FinalizeBegin
  <2>12. QED
    BY <2>3, <2>4, <2>5, <2>6, <2>7, <2>8, <2>9, <2>10, <2>11 DEF RedoInv
<1>17. CASE Collect
  <2>1. \A n \in 1..lastId : data'[n] = data[n]
    BY <1>17 DEF BundleInv, TypeOK, HistoryTyped, Collect
  <2>2. \A p \in PhaseSet : Done(p)' => /\ Done(p) /\ Same(p)
                                        /\ Source(p) # None => Same(Source(p))
                                        /\ Keeps(p)
    <3>1. tree' = [tree EXCEPT ![Results] = lastId'] /\ UNCHANGED <<marker, meta>>
      BY <1>17 DEF Collect
    <3>2. tree \in [Paths -> 0..lastId]
      BY DEF BundleInv, TypeOK
    <3>3. ASSUME NEW q \in PhaseSet PROVE Same(q)
      BY <3>1, <3>2, PathFacts DEF Same
    <3>4. QED
      BY <3>1, <3>3, PhaseFacts DEF Done, Keeps
  <2>3. ConfigFollows'
    BY <1>17, <2>1, <2>2, PhaseFacts DEF RedoInv, Collect, Summary, IdOf, Done, ConfigFollows,
         InPhases, BundleInv, TypeOK, HistoryTyped, SessionTyped, PendingTyped, FreshIsEmpty,
         CreatesOnce, PendingAlone, ClearIsLast, Marked, Unmoved, ManifestSettled,
         ManifestExact, Snapshot, HasPlace, First, MovedOnce
  <2>4. ChangesPlanned'
    BY <1>17, <2>1, <2>2, PhaseFacts DEF RedoInv, Collect, Summary, IdOf, Done, ChangesPlanned,
         ChangeAllowed, Attempted, BundleInv, TypeOK, HistoryTyped, SessionTyped, PendingTyped,
         FreshIsEmpty, CreatesOnce, PendingAlone, ClearIsLast, Marked, Unmoved, ManifestSettled,
         ManifestExact, Snapshot, HasPlace, First, MovedOnce
  <2>5. PassedAreDone'
    BY <1>17, <2>1, <2>2, PhaseFacts DEF RedoInv, Collect, Summary, IdOf, Done, PassedAreDone,
         InPhases, BundleInv, TypeOK, HistoryTyped, SessionTyped, PendingTyped, FreshIsEmpty,
         CreatesOnce, PendingAlone, ClearIsLast, Marked, Unmoved, ManifestSettled,
         ManifestExact, Snapshot, HasPlace, First, MovedOnce
  <2>6. RunningIsBegun'
    BY <1>17, <2>1, <2>2, PhaseFacts DEF RedoInv, Collect, Summary, IdOf, Done, RunningIsBegun,
         First, Here, BundleInv, TypeOK, HistoryTyped, SessionTyped, PendingTyped, FreshIsEmpty,
         CreatesOnce, PendingAlone, ClearIsLast, Marked, Unmoved, ManifestSettled,
         ManifestExact, Snapshot, HasPlace, MovedOnce
  <2>7. MarkerFollows'
    BY <1>17, <2>1, <2>2, PhaseFacts DEF RedoInv, Collect, Summary, IdOf, Done, MarkerFollows,
         Here, BundleInv, TypeOK, HistoryTyped, SessionTyped, PendingTyped, FreshIsEmpty,
         CreatesOnce, PendingAlone, ClearIsLast, Marked, Unmoved, ManifestSettled,
         ManifestExact, Snapshot, HasPlace, First, MovedOnce
  <2>8. MarkedIsChecked'
    BY <1>17, <2>1, <2>2, PhaseFacts DEF RedoInv, Collect, Summary, IdOf, Done, MarkedIsChecked,
         Here, SourceWhole, BundleInv, TypeOK, HistoryTyped, SessionTyped, PendingTyped,
         FreshIsEmpty, CreatesOnce, PendingAlone, ClearIsLast, Marked, Unmoved, ManifestSettled,
         ManifestExact, Snapshot, HasPlace, First, MovedOnce
  <2>9. SourcesStand'
    BY <2>2, <2>1, EvidenceStands DEF RedoInv
  <2>10. MarkedIsWhole'
    BY <2>2, <2>1, EvidenceStands DEF RedoInv
  <2>11. PendingRecoverable'
    BY <1>17 DEF BundleInv, PendingAlone, PendingRecoverable, Collect
  <2>12. QED
    BY <2>3, <2>4, <2>5, <2>6, <2>7, <2>8, <2>9, <2>10, <2>11 DEF RedoInv
<1>18. CASE WriteManifest
  <2>1. \A n \in 1..lastId : data'[n] = data[n]
    BY <1>18 DEF WriteManifest, EndSession
  <2>2. \A p \in PhaseSet : Done(p)' => /\ Done(p) /\ Same(p)
                                        /\ Source(p) # None => Same(Source(p))
                                        /\ Keeps(p)
    BY <1>18 DEF WriteManifest, EndSession, Done, Same, Keeps
  <2>3. ConfigFollows'
    BY <1>18, <2>1, <2>2, PhaseFacts DEF RedoInv, WriteManifest, Snapshot, EndSession,
         ConfigFollows, InPhases, BundleInv, TypeOK, HistoryTyped, SessionTyped, PendingTyped,
         FreshIsEmpty, CreatesOnce, PendingAlone, ClearIsLast, Marked, Unmoved, ManifestSettled,
         Done, Summary, IdOf, ManifestExact, HasPlace, First, MovedOnce
  <2>4. ChangesPlanned'
    BY <1>18, <2>1, <2>2, PhaseFacts DEF RedoInv, WriteManifest, Snapshot, EndSession,
         ChangesPlanned, ChangeAllowed, Done, Attempted, BundleInv, TypeOK, HistoryTyped,
         SessionTyped, PendingTyped, FreshIsEmpty, CreatesOnce, PendingAlone, ClearIsLast,
         Marked, Unmoved, ManifestSettled, Summary, IdOf, ManifestExact, HasPlace, First,
         MovedOnce
  <2>5. PassedAreDone'
    BY <1>18, <2>1, <2>2, PhaseFacts DEF RedoInv, WriteManifest, Snapshot, EndSession,
         PassedAreDone, InPhases, Done, BundleInv, TypeOK, HistoryTyped, SessionTyped,
         PendingTyped, FreshIsEmpty, CreatesOnce, PendingAlone, ClearIsLast, Marked, Unmoved,
         ManifestSettled, Summary, IdOf, ManifestExact, HasPlace, First, MovedOnce
  <2>6. RunningIsBegun'
    BY <1>18, <2>1, <2>2, PhaseFacts DEF RedoInv, WriteManifest, Snapshot, EndSession,
         RunningIsBegun, First, Here, Done, BundleInv, TypeOK, HistoryTyped, SessionTyped,
         PendingTyped, FreshIsEmpty, CreatesOnce, PendingAlone, ClearIsLast, Marked, Unmoved,
         ManifestSettled, Summary, IdOf, ManifestExact, HasPlace, MovedOnce
  <2>7. MarkerFollows'
    BY <1>18, <2>1, <2>2, PhaseFacts DEF RedoInv, WriteManifest, Snapshot, EndSession,
         MarkerFollows, Here, BundleInv, TypeOK, HistoryTyped, SessionTyped, PendingTyped,
         FreshIsEmpty, CreatesOnce, PendingAlone, ClearIsLast, Marked, Unmoved, ManifestSettled,
         Done, Summary, IdOf, ManifestExact, HasPlace, First, MovedOnce
  <2>8. MarkedIsChecked'
    BY <1>18, <2>1, <2>2, PhaseFacts DEF RedoInv, WriteManifest, Snapshot, EndSession,
         MarkedIsChecked, Here, SourceWhole, BundleInv, TypeOK, HistoryTyped, SessionTyped,
         PendingTyped, FreshIsEmpty, CreatesOnce, PendingAlone, ClearIsLast, Marked, Unmoved,
         ManifestSettled, Done, Summary, IdOf, ManifestExact, HasPlace, First, MovedOnce
  <2>9. SourcesStand'
    BY <2>2, <2>1, EvidenceStands DEF RedoInv
  <2>10. MarkedIsWhole'
    BY <2>2, <2>1, EvidenceStands DEF RedoInv
  <2>11. PendingRecoverable'
    BY <1>18 DEF BundleInv, PendingAlone, PendingRecoverable, WriteManifest, EndSession
  <2>12. QED
    BY <2>3, <2>4, <2>5, <2>6, <2>7, <2>8, <2>9, <2>10, <2>11 DEF RedoInv
<1>19. CASE Refuse
  <2>1. \A n \in 1..lastId : data'[n] = data[n]
    BY <1>19 DEF Refuse, Working, Here, EndSession, disk
  <2>2. \A p \in PhaseSet : Done(p)' => /\ Done(p) /\ Same(p)
                                        /\ Source(p) # None => Same(Source(p))
                                        /\ Keeps(p)
    BY <1>19 DEF Refuse, Working, Here, EndSession, disk, Done, Same, Keeps
  <2>3. ConfigFollows'
    BY <1>19, <2>1, <2>2, PhaseFacts DEF RedoInv, Refuse, Working, Done, Here, Attempted,
         Continues, IdOf, EndSession, disk, ConfigFollows, InPhases, BundleInv, TypeOK,
         HistoryTyped, SessionTyped, PendingTyped, FreshIsEmpty, CreatesOnce, PendingAlone,
         ClearIsLast, Marked, Unmoved, ManifestSettled, Summary, ManifestExact, Snapshot,
         HasPlace, First, MovedOnce
  <2>4. ChangesPlanned'
    BY <1>19, <2>1, <2>2, PhaseFacts DEF RedoInv, Refuse, Working, Done, Here, Attempted,
         Continues, IdOf, EndSession, disk, ChangesPlanned, ChangeAllowed, BundleInv, TypeOK,
         HistoryTyped, SessionTyped, PendingTyped, FreshIsEmpty, CreatesOnce, PendingAlone,
         ClearIsLast, Marked, Unmoved, ManifestSettled, Summary, ManifestExact, Snapshot,
         HasPlace, First, MovedOnce
  <2>5. PassedAreDone'
    BY <1>19, <2>1, <2>2, PhaseFacts DEF RedoInv, Refuse, Working, Done, Here, Attempted,
         Continues, IdOf, EndSession, disk, PassedAreDone, InPhases, BundleInv, TypeOK,
         HistoryTyped, SessionTyped, PendingTyped, FreshIsEmpty, CreatesOnce, PendingAlone,
         ClearIsLast, Marked, Unmoved, ManifestSettled, Summary, ManifestExact, Snapshot,
         HasPlace, First, MovedOnce
  <2>6. RunningIsBegun'
    BY <1>19, <2>1, <2>2, PhaseFacts DEF RedoInv, Refuse, Working, Done, Here, Attempted,
         Continues, IdOf, EndSession, disk, RunningIsBegun, First, BundleInv, TypeOK,
         HistoryTyped, SessionTyped, PendingTyped, FreshIsEmpty, CreatesOnce, PendingAlone,
         ClearIsLast, Marked, Unmoved, ManifestSettled, Summary, ManifestExact, Snapshot,
         HasPlace, MovedOnce
  <2>7. MarkerFollows'
    BY <1>19, <2>1, <2>2, PhaseFacts DEF RedoInv, Refuse, Working, Done, Here, Attempted,
         Continues, IdOf, EndSession, disk, MarkerFollows, BundleInv, TypeOK, HistoryTyped,
         SessionTyped, PendingTyped, FreshIsEmpty, CreatesOnce, PendingAlone, ClearIsLast,
         Marked, Unmoved, ManifestSettled, Summary, ManifestExact, Snapshot, HasPlace, First,
         MovedOnce
  <2>8. MarkedIsChecked'
    BY <1>19, <2>1, <2>2, PhaseFacts DEF RedoInv, Refuse, Working, Done, Here, Attempted,
         Continues, IdOf, EndSession, disk, MarkedIsChecked, SourceWhole, BundleInv, TypeOK,
         HistoryTyped, SessionTyped, PendingTyped, FreshIsEmpty, CreatesOnce, PendingAlone,
         ClearIsLast, Marked, Unmoved, ManifestSettled, Summary, ManifestExact, Snapshot,
         HasPlace, First, MovedOnce
  <2>9. SourcesStand'
    BY <2>2, <2>1, EvidenceStands DEF RedoInv
  <2>10. MarkedIsWhole'
    BY <2>2, <2>1, EvidenceStands DEF RedoInv
  <2>11. PendingRecoverable'
    BY <1>19, PendingStands DEF BundleInv, TypeOK, MetaSpace, RedoInv, Refuse, Working, Here,
      EndSession, disk
  <2>12. QED
    BY <2>3, <2>4, <2>5, <2>6, <2>7, <2>8, <2>9, <2>10, <2>11 DEF RedoInv
<1>20. CASE MarkFails
  <2>1. Here \in PhaseSet /\ at \in 1..Len(Phases) /\ Len(Phases) \in Nat
    BY <1>20, PhaseFacts DEF BundleInv, SessionTyped, MarkFails, Here, EndSession
  <2>2. \A n \in 1..lastId : data'[n] = data[n]
    BY <1>20 DEF MarkFails, Here, EndSession
  <2>3. \A p \in PhaseSet : Done(p)' => /\ Done(p) /\ Same(p)
                                        /\ Source(p) # None => Same(Source(p))
                                        /\ Keeps(p)
    <3>1. \A p \in PhaseSet : Done(p)' => Done(p)
      BY <1>20, <2>1 DEF BundleInv, TypeOK, MarkFails, Done
    <3>2. QED
      BY <1>20, <3>1 DEF MarkFails, Same, Keeps
  <2>4. ConfigFollows'
    BY <1>20, <2>1, <2>2, <2>3, PhaseFacts DEF RedoInv, MarkFails, Here, EndSession,
         ConfigFollows, InPhases, BundleInv, TypeOK, HistoryTyped, SessionTyped, PendingTyped,
         FreshIsEmpty, CreatesOnce, PendingAlone, ClearIsLast, Marked, Unmoved, ManifestSettled,
         Done, Summary, IdOf, ManifestExact, Snapshot, HasPlace, First, MovedOnce
  <2>5. ChangesPlanned'
    BY <1>20, <2>1, <2>2, <2>3, PhaseFacts DEF RedoInv, MarkFails, Here, EndSession,
         ChangesPlanned, ChangeAllowed, Done, Attempted, BundleInv, TypeOK, HistoryTyped,
         SessionTyped, PendingTyped, FreshIsEmpty, CreatesOnce, PendingAlone, ClearIsLast,
         Marked, Unmoved, ManifestSettled, Summary, IdOf, ManifestExact, Snapshot, HasPlace,
         First, MovedOnce
  <2>6. PassedAreDone'
    BY <1>20, <2>1, <2>2, <2>3, PhaseFacts DEF RedoInv, MarkFails, Here, EndSession,
         PassedAreDone, InPhases, Done, BundleInv, TypeOK, HistoryTyped, SessionTyped,
         PendingTyped, FreshIsEmpty, CreatesOnce, PendingAlone, ClearIsLast, Marked, Unmoved,
         ManifestSettled, Summary, IdOf, ManifestExact, Snapshot, HasPlace, First, MovedOnce
  <2>7. RunningIsBegun'
    BY <1>20, <2>1, <2>2, <2>3, PhaseFacts DEF RedoInv, MarkFails, Here, EndSession,
         RunningIsBegun, First, Done, BundleInv, TypeOK, HistoryTyped, SessionTyped,
         PendingTyped, FreshIsEmpty, CreatesOnce, PendingAlone, ClearIsLast, Marked, Unmoved,
         ManifestSettled, Summary, IdOf, ManifestExact, Snapshot, HasPlace, MovedOnce
  <2>8. MarkerFollows'
    BY <1>20, <2>1, <2>2, <2>3, PhaseFacts DEF RedoInv, MarkFails, Here, EndSession,
         MarkerFollows, BundleInv, TypeOK, HistoryTyped, SessionTyped, PendingTyped,
         FreshIsEmpty, CreatesOnce, PendingAlone, ClearIsLast, Marked, Unmoved, ManifestSettled,
         Done, Summary, IdOf, ManifestExact, Snapshot, HasPlace, First, MovedOnce
  <2>9. MarkedIsChecked'
    BY <1>20, <2>1, <2>2, <2>3, PhaseFacts DEF RedoInv, MarkFails, Here, EndSession,
         MarkedIsChecked, SourceWhole, BundleInv, TypeOK, HistoryTyped, SessionTyped,
         PendingTyped, FreshIsEmpty, CreatesOnce, PendingAlone, ClearIsLast, Marked, Unmoved,
         ManifestSettled, Done, Summary, IdOf, ManifestExact, Snapshot, HasPlace, First,
         MovedOnce
  <2>10. SourcesStand'
    BY <2>3, <2>2, EvidenceStands DEF RedoInv
  <2>11. MarkedIsWhole'
    BY <2>3, <2>2, EvidenceStands DEF RedoInv
  <2>12. PendingRecoverable'
    BY <1>20 DEF BundleInv, PendingAlone, PendingRecoverable, MarkFails, Here, EndSession
  <2>13. QED
    BY <2>4, <2>5, <2>6, <2>7, <2>8, <2>9, <2>10, <2>11, <2>12 DEF RedoInv
<1>21. CASE Interrupt
  <2>1. \A n \in 1..lastId : data'[n] = data[n]
    BY <1>21 DEF Interrupt, EndSession
  <2>2. \A p \in PhaseSet : Done(p)' => /\ Done(p) /\ Same(p)
                                        /\ Source(p) # None => Same(Source(p))
                                        /\ Keeps(p)
    BY <1>21 DEF Interrupt, EndSession, Done, Same, Keeps
  <2>3. ConfigFollows'
    BY <1>21, <2>1, <2>2, PhaseFacts DEF RedoInv, Interrupt, EndSession, ConfigFollows,
         InPhases, BundleInv, TypeOK, HistoryTyped, SessionTyped, PendingTyped, FreshIsEmpty,
         CreatesOnce, PendingAlone, ClearIsLast, Marked, Unmoved, ManifestSettled, Done,
         Summary, IdOf, ManifestExact, Snapshot, HasPlace, First, MovedOnce
  <2>4. ChangesPlanned'
    BY <1>21, <2>1, <2>2, PhaseFacts DEF RedoInv, Interrupt, EndSession, ChangesPlanned,
         ChangeAllowed, Done, Attempted, BundleInv, TypeOK, HistoryTyped, SessionTyped,
         PendingTyped, FreshIsEmpty, CreatesOnce, PendingAlone, ClearIsLast, Marked, Unmoved,
         ManifestSettled, Summary, IdOf, ManifestExact, Snapshot, HasPlace, First, MovedOnce
  <2>5. PassedAreDone'
    BY <1>21, <2>1, <2>2, PhaseFacts DEF RedoInv, Interrupt, EndSession, PassedAreDone,
         InPhases, Done, BundleInv, TypeOK, HistoryTyped, SessionTyped, PendingTyped,
         FreshIsEmpty, CreatesOnce, PendingAlone, ClearIsLast, Marked, Unmoved, ManifestSettled,
         Summary, IdOf, ManifestExact, Snapshot, HasPlace, First, MovedOnce
  <2>6. RunningIsBegun'
    BY <1>21, <2>1, <2>2, PhaseFacts DEF RedoInv, Interrupt, EndSession, RunningIsBegun, First,
         Here, Done, BundleInv, TypeOK, HistoryTyped, SessionTyped, PendingTyped, FreshIsEmpty,
         CreatesOnce, PendingAlone, ClearIsLast, Marked, Unmoved, ManifestSettled, Summary,
         IdOf, ManifestExact, Snapshot, HasPlace, MovedOnce
  <2>7. MarkerFollows'
    BY <1>21, <2>1, <2>2, PhaseFacts DEF RedoInv, Interrupt, EndSession, MarkerFollows, Here,
         BundleInv, TypeOK, HistoryTyped, SessionTyped, PendingTyped, FreshIsEmpty, CreatesOnce,
         PendingAlone, ClearIsLast, Marked, Unmoved, ManifestSettled, Done, Summary, IdOf,
         ManifestExact, Snapshot, HasPlace, First, MovedOnce
  <2>8. MarkedIsChecked'
    BY <1>21, <2>1, <2>2, PhaseFacts DEF RedoInv, Interrupt, EndSession, MarkedIsChecked, Here,
         SourceWhole, BundleInv, TypeOK, HistoryTyped, SessionTyped, PendingTyped, FreshIsEmpty,
         CreatesOnce, PendingAlone, ClearIsLast, Marked, Unmoved, ManifestSettled, Done,
         Summary, IdOf, ManifestExact, Snapshot, HasPlace, First, MovedOnce
  <2>9. SourcesStand'
    BY <2>2, <2>1, EvidenceStands DEF RedoInv
  <2>10. MarkedIsWhole'
    BY <2>2, <2>1, EvidenceStands DEF RedoInv
  <2>11. PendingRecoverable'
    BY <1>21, PendingStands DEF BundleInv, TypeOK, MetaSpace, RedoInv, Interrupt, EndSession
  <2>12. QED
    BY <2>3, <2>4, <2>5, <2>6, <2>7, <2>8, <2>9, <2>10, <2>11 DEF RedoInv
<1>22. CASE InterruptCreate
  <2>1. \A n \in 1..lastId : data'[n] = data[n]
    BY <1>22 DEF InterruptCreate, EndSession
  <2>2. \A p \in PhaseSet : Done(p)' => /\ Done(p) /\ Same(p)
                                        /\ Source(p) # None => Same(Source(p))
                                        /\ Keeps(p)
    BY <1>22 DEF BundleInv, TypeOK, MetaSpace, FreshIsEmpty, CreatesOnce, InterruptCreate,
      EndSession, Done, Same, Keeps
  <2>3. ConfigFollows'
    BY <1>22, <2>1, <2>2, PhaseFacts DEF RedoInv, InterruptCreate, EndSession, ConfigFollows,
         InPhases, BundleInv, TypeOK, HistoryTyped, SessionTyped, PendingTyped, FreshIsEmpty,
         CreatesOnce, PendingAlone, ClearIsLast, Marked, Unmoved, ManifestSettled, Done,
         Summary, IdOf, ManifestExact, Snapshot, HasPlace, First, MovedOnce
  <2>4. ChangesPlanned'
    BY <1>22, <2>1, <2>2, PhaseFacts DEF RedoInv, InterruptCreate, EndSession, ChangesPlanned,
         ChangeAllowed, Done, Attempted, BundleInv, TypeOK, HistoryTyped, SessionTyped,
         PendingTyped, FreshIsEmpty, CreatesOnce, PendingAlone, ClearIsLast, Marked, Unmoved,
         ManifestSettled, Summary, IdOf, ManifestExact, Snapshot, HasPlace, First, MovedOnce
  <2>5. PassedAreDone'
    BY <1>22, <2>1, <2>2, PhaseFacts DEF RedoInv, InterruptCreate, EndSession, PassedAreDone,
         InPhases, Done, BundleInv, TypeOK, HistoryTyped, SessionTyped, PendingTyped,
         FreshIsEmpty, CreatesOnce, PendingAlone, ClearIsLast, Marked, Unmoved, ManifestSettled,
         Summary, IdOf, ManifestExact, Snapshot, HasPlace, First, MovedOnce
  <2>6. RunningIsBegun'
    BY <1>22, <2>1, <2>2, PhaseFacts DEF RedoInv, InterruptCreate, EndSession, RunningIsBegun,
         First, Here, Done, BundleInv, TypeOK, HistoryTyped, SessionTyped, PendingTyped,
         FreshIsEmpty, CreatesOnce, PendingAlone, ClearIsLast, Marked, Unmoved, ManifestSettled,
         Summary, IdOf, ManifestExact, Snapshot, HasPlace, MovedOnce
  <2>7. MarkerFollows'
    BY <1>22, <2>1, <2>2, PhaseFacts DEF RedoInv, InterruptCreate, EndSession, MarkerFollows,
         Here, BundleInv, TypeOK, HistoryTyped, SessionTyped, PendingTyped, FreshIsEmpty,
         CreatesOnce, PendingAlone, ClearIsLast, Marked, Unmoved, ManifestSettled, Done,
         Summary, IdOf, ManifestExact, Snapshot, HasPlace, First, MovedOnce
  <2>8. MarkedIsChecked'
    BY <1>22, <2>1, <2>2, PhaseFacts DEF RedoInv, InterruptCreate, EndSession, MarkedIsChecked,
         Here, SourceWhole, BundleInv, TypeOK, HistoryTyped, SessionTyped, PendingTyped,
         FreshIsEmpty, CreatesOnce, PendingAlone, ClearIsLast, Marked, Unmoved, ManifestSettled,
         Done, Summary, IdOf, ManifestExact, Snapshot, HasPlace, First, MovedOnce
  <2>9. SourcesStand'
    BY <2>2, <2>1, EvidenceStands DEF RedoInv
  <2>10. MarkedIsWhole'
    BY <2>2, <2>1, EvidenceStands DEF RedoInv
  <2>11. PendingRecoverable'
    BY <1>22 DEF BundleInv, FreshIsEmpty, CreatesOnce, PendingRecoverable, InterruptCreate,
      EndSession
  <2>12. QED
    BY <2>3, <2>4, <2>5, <2>6, <2>7, <2>8, <2>9, <2>10, <2>11 DEF RedoInv
<1>23. CASE Crash
  <2>1. \A n \in 1..lastId : data'[n] = data[n]
    BY <1>23 DEF Crash, EndSession, disk
  <2>2. \A p \in PhaseSet : Done(p)' => /\ Done(p) /\ Same(p)
                                        /\ Source(p) # None => Same(Source(p))
                                        /\ Keeps(p)
    BY <1>23 DEF Crash, EndSession, disk, Done, Same, Keeps
  <2>3. ConfigFollows'
    BY <1>23, <2>1, <2>2, PhaseFacts DEF RedoInv, Crash, EndSession, disk, ConfigFollows,
         InPhases, BundleInv, TypeOK, HistoryTyped, SessionTyped, PendingTyped, FreshIsEmpty,
         CreatesOnce, PendingAlone, ClearIsLast, Marked, Unmoved, ManifestSettled, Done,
         Summary, IdOf, ManifestExact, Snapshot, HasPlace, First, MovedOnce
  <2>4. ChangesPlanned'
    BY <1>23, <2>1, <2>2, PhaseFacts DEF RedoInv, Crash, EndSession, disk, ChangesPlanned,
         ChangeAllowed, Done, Attempted, BundleInv, TypeOK, HistoryTyped, SessionTyped,
         PendingTyped, FreshIsEmpty, CreatesOnce, PendingAlone, ClearIsLast, Marked, Unmoved,
         ManifestSettled, Summary, IdOf, ManifestExact, Snapshot, HasPlace, First, MovedOnce
  <2>5. PassedAreDone'
    BY <1>23, <2>1, <2>2, PhaseFacts DEF RedoInv, Crash, EndSession, disk, PassedAreDone,
         InPhases, Done, BundleInv, TypeOK, HistoryTyped, SessionTyped, PendingTyped,
         FreshIsEmpty, CreatesOnce, PendingAlone, ClearIsLast, Marked, Unmoved, ManifestSettled,
         Summary, IdOf, ManifestExact, Snapshot, HasPlace, First, MovedOnce
  <2>6. RunningIsBegun'
    BY <1>23, <2>1, <2>2, PhaseFacts DEF RedoInv, Crash, EndSession, disk, RunningIsBegun,
         First, Here, Done, BundleInv, TypeOK, HistoryTyped, SessionTyped, PendingTyped,
         FreshIsEmpty, CreatesOnce, PendingAlone, ClearIsLast, Marked, Unmoved, ManifestSettled,
         Summary, IdOf, ManifestExact, Snapshot, HasPlace, MovedOnce
  <2>7. MarkerFollows'
    BY <1>23, <2>1, <2>2, PhaseFacts DEF RedoInv, Crash, EndSession, disk, MarkerFollows, Here,
         BundleInv, TypeOK, HistoryTyped, SessionTyped, PendingTyped, FreshIsEmpty, CreatesOnce,
         PendingAlone, ClearIsLast, Marked, Unmoved, ManifestSettled, Done, Summary, IdOf,
         ManifestExact, Snapshot, HasPlace, First, MovedOnce
  <2>8. MarkedIsChecked'
    BY <1>23, <2>1, <2>2, PhaseFacts DEF RedoInv, Crash, EndSession, disk, MarkedIsChecked,
         Here, SourceWhole, BundleInv, TypeOK, HistoryTyped, SessionTyped, PendingTyped,
         FreshIsEmpty, CreatesOnce, PendingAlone, ClearIsLast, Marked, Unmoved, ManifestSettled,
         Done, Summary, IdOf, ManifestExact, Snapshot, HasPlace, First, MovedOnce
  <2>9. SourcesStand'
    BY <2>2, <2>1, EvidenceStands DEF RedoInv
  <2>10. MarkedIsWhole'
    BY <2>2, <2>1, EvidenceStands DEF RedoInv
  <2>11. PendingRecoverable'
    BY <1>23, PendingStands DEF BundleInv, TypeOK, MetaSpace, RedoInv, Crash, EndSession, disk
  <2>12. QED
    BY <2>3, <2>4, <2>5, <2>6, <2>7, <2>8, <2>9, <2>10, <2>11 DEF RedoInv
<1>24. CASE StrayExits
  <2>1. \A n \in 1..lastId : data'[n] = data[n]
    BY <1>24 DEF StrayExits, disk
  <2>2. \A p \in PhaseSet : Done(p)' => /\ Done(p) /\ Same(p)
                                        /\ Source(p) # None => Same(Source(p))
                                        /\ Keeps(p)
    BY <1>24 DEF StrayExits, disk, Done, Same, Keeps
  <2>3. MarkedIsChecked'
    <3>1. UNCHANGED <<tree, data, meta, at, pc>>
      BY <1>24 DEF StrayExits, disk
    <3>2. QED
      BY <3>1 DEF RedoInv, MarkedIsChecked, Valid, OneGeneration, Configured, FromSource,
        SourceWhole, IdOf, Here
  <2>4. SourcesStand'
    BY <2>2, <2>1, EvidenceStands DEF RedoInv
  <2>5. MarkedIsWhole'
    BY <2>2, <2>1, EvidenceStands DEF RedoInv
  <2>6. PendingRecoverable'
    BY <1>24, PendingStands DEF BundleInv, TypeOK, MetaSpace, RedoInv, StrayExits, disk
  <2>7. ConfigFollows'
    BY <1>24 DEF RedoInv, StrayExits, disk, ConfigFollows, InPhases
  <2>8. ChangesPlanned'
    BY <1>24 DEF RedoInv, StrayExits, disk, ChangesPlanned, ChangeAllowed, Done, Attempted
  <2>9. PassedAreDone'
    BY <1>24 DEF RedoInv, StrayExits, disk, PassedAreDone, InPhases, Done
  <2>10. RunningIsBegun'
    BY <1>24 DEF RedoInv, StrayExits, disk, RunningIsBegun, First, Here, Done
  <2>11. MarkerFollows'
    BY <1>24 DEF RedoInv, StrayExits, disk, MarkerFollows, Here
  <2>12. QED
    BY <2>3, <2>4, <2>5, <2>6, <2>7, <2>8, <2>9, <2>10, <2>11 DEF RedoInv
<1>25. QED
  BY <1>1, <1>2, <1>3, <1>4, <1>5, <1>6, <1>7, <1>8, <1>9, <1>10, <1>11, <1>12, <1>13, <1>14,
       <1>15, <1>16, <1>17, <1>18, <1>19, <1>20, <1>21, <1>22, <1>23, <1>24 DEF Next,
       Step

LEMMA RedoStutter ==
  ASSUME RedoInv, UNCHANGED vars
  PROVE  RedoInv'
<1>1. UNCHANGED <<meta, marker, tree, archive, pending, data, pc, cfg, plan, at>>
  BY DEF vars, disk
<1>2. MarkedIsWhole' /\ SourcesStand' /\ MarkedIsChecked'
  BY <1>1 DEF RedoInv, MarkedIsWhole, SourcesStand, MarkedIsChecked, Valid, Stands, Reset,
       OneGeneration, Configured, FromSource, SourceWhole, IdOf, Here, Done
<1>3. PendingRecoverable'
  BY <1>1, PendingStands DEF RedoInv
<1>4. ConfigFollows' /\ ChangesPlanned'
  BY <1>1 DEF RedoInv, ConfigFollows, ChangesPlanned, ChangeAllowed, Done, Attempted
<1>5. PassedAreDone' /\ RunningIsBegun' /\ MarkerFollows'
  BY <1>1 DEF RedoInv, PassedAreDone, RunningIsBegun, MarkerFollows, First, Here, Done
<1>6. QED
  BY <1>2, <1>3, <1>4, <1>5 DEF RedoInv

LEMMA RedoInvariant ==
  Spec => []RedoInv
<1>1. BundleInv /\ BundleInv' /\ RedoInv /\ [Next]_vars => RedoInv'
  BY NextRedo, RedoStutter
<1>2. QED
  BY <1>1, InitRedo, BundleInvariant, PTL DEF Spec

\* A completion marker stands over whole evidence, made from the source in place and under the stored
\* configuration, however a redo was cut short and whatever presets commands name; the one difference
\* there may be is in a key that a preset named again has reset (mark_done, apply_redo_plan,
\* validate_completed_phase_overrides).
THEOREM MarkersStandOverEvidence ==
  Spec => []MarkedIsWhole
<1>1. RedoInv => MarkedIsWhole
  BY DEF RedoInv
<1>2. QED
  BY <1>1, RedoInvariant, PTL

\* A redo cut short anywhere, by any command line, can be taken up by a plain resume; the one that
\* cannot was published by a command that named the stored preset again, and it has moved nothing
\* (redo_transaction_execute, reconcile_pending_redo_request).
THEOREM RedosRecoverable ==
  Spec => []PendingRecoverable
<1>1. RedoInv => PendingRecoverable
  BY DEF RedoInv
<1>2. QED
  BY <1>1, RedoInvariant, PTL

-----------------------------------------------------------------------------
\* The artifacts of one phase are of one generation, those of two are of two.
GenerationsApart ==
  \A x, y \in Paths \ {Results} : tree[x] # 0 /\ tree[y] # 0 => (tree[x] = tree[y] <=> x[1] = y[1])

\* A pending redo has recorded all there was of its phases.
RecordsComplete ==
  pending # None => \A x \in Paths \ {Results} :
    x[1] \in pending.phases /\ tree[x] # 0 => x \in pending.records

\* What was moved away is in place nowhere, but for what a pending redo has still to move.
MovedAreGone ==
  \A e \in archive, x \in Paths \ {Results} :
    e.path # Results /\ tree[x] = e.id => pending # None /\ x[1] \in pending.phases

HistoryInv == GenerationsApart /\ RecordsComplete /\ MovedAreGone

LEMMA InitHistory == Init => HistoryInv
BY PathFacts DEF Init, HistoryInv, GenerationsApart, RecordsComplete, MovedAreGone

LEMMA NextHistory ==
  ASSUME BundleInv, RedoInv, HistoryInv, [Next]_vars
  PROVE  HistoryInv'
<1>1. ASSUME NEW r \in Requests, Open(r) PROVE HistoryInv'
  <2>1. GenerationsApart'
    BY <1>1 DEF HistoryInv, GenerationsApart, Open, Idle
  <2>2. RecordsComplete'
    BY <1>1 DEF HistoryInv, RecordsComplete, Open, Idle
  <2>3. MovedAreGone'
    BY <1>1 DEF HistoryInv, MovedAreGone, Open, Idle
  <2>4. QED
    BY <2>1, <2>2, <2>3 DEF HistoryInv
<1>2. CASE Revoke
  <2>1. GenerationsApart'
    BY <1>2 DEF HistoryInv, GenerationsApart, Revoke
  <2>2. RecordsComplete'
    BY <1>2 DEF HistoryInv, RecordsComplete, Revoke
  <2>3. MovedAreGone'
    BY <1>2 DEF HistoryInv, MovedAreGone, Revoke
  <2>4. QED
    BY <2>1, <2>2, <2>3 DEF HistoryInv
<1>3. CASE CreateMeta
  <2>1. GenerationsApart'
    BY <1>3 DEF HistoryInv, GenerationsApart, CreateMeta
  <2>2. RecordsComplete'
    BY <1>3 DEF HistoryInv, RecordsComplete, CreateMeta
  <2>3. MovedAreGone'
    BY <1>3 DEF HistoryInv, MovedAreGone, CreateMeta
  <2>4. QED
    BY <2>1, <2>2, <2>3 DEF HistoryInv
<1>4. CASE Configure
  <2>1. GenerationsApart'
    BY <1>4 DEF HistoryInv, GenerationsApart, Configure
  <2>2. RecordsComplete'
    <3>1. CASE pending # None \/ plan = {}
      BY <1>4, <3>1 DEF HistoryInv, RecordsComplete, Configure
    <3>2. CASE pending = None /\ plan # {}
      <4>1. /\ pending' = [txn |-> lastTxn', phases |-> plan, cfg |-> cfg,
                 records |-> Present(plan)]
            /\ tree' = tree
        BY <1>4, <3>2 DEF Configure
      <4>2. QED
        BY <4>1 DEF RecordsComplete, Present
    <3>3. QED
      BY <3>1, <3>2
  <2>3. MovedAreGone'
    <3>1. UNCHANGED <<tree, archive>> /\ (pending # None => pending' = pending)
      BY <1>4 DEF Configure
    <3>2. QED
      BY <3>1 DEF HistoryInv, MovedAreGone
  <2>4. QED
    BY <2>1, <2>2, <2>3 DEF HistoryInv
<1>5. CASE RedoUnmark
  <2>1. GenerationsApart'
    BY <1>5 DEF HistoryInv, GenerationsApart, RedoUnmark, Executing
  <2>2. RecordsComplete'
    BY <1>5 DEF HistoryInv, RecordsComplete, RedoUnmark, Executing
  <2>3. MovedAreGone'
    BY <1>5 DEF HistoryInv, MovedAreGone, RedoUnmark, Executing
  <2>4. QED
    BY <2>1, <2>2, <2>3 DEF HistoryInv
<1>6. CASE RedoMove
  <2>1. PICK i \in 1..Len(Order) : /\ Order[i] \in Unmoved
            /\ archive' = archive \cup {[txn |-> pending.txn, path |-> Order[i],
                id |-> tree[Order[i]]]}
            /\ tree' = [tree EXCEPT ![Order[i]] = 0]
    BY <1>6 DEF RedoMove
  <2>2. tree \in [Paths -> 0..lastId] /\ lastId \in Nat /\ \A e \in archive : e.id \in 1..lastId
    BY DiagnoseAssumption DEF BundleInv, TypeOK
  <2>3. /\ Order[i] \in Paths /\ tree[Order[i]] # 0 /\ pending' = pending /\ pending # None
       /\ (Order[i] = Results \/ Order[i][1] \in pending.phases)
    BY <1>6, <2>1 DEF BundleInv, PendingTyped, RedoMove, Executing, MarkerValid, Unmoved
  <2>4. \A x \in Paths : tree'[x] = (IF x = Order[i] THEN 0 ELSE tree[x])
    BY <2>1, <2>2
  <2>5. GenerationsApart'
    BY <2>4 DEF HistoryInv, GenerationsApart
  <2>6. RecordsComplete'
    BY <2>3, <2>4 DEF HistoryInv, RecordsComplete
  <2>7. MovedAreGone'
    <3> SUFFICES ASSUME NEW e \in archive', NEW x \in Paths \ {Results}, e.path # Results,
                          tree'[x] = e.id
                 PROVE  x[1] \in pending.phases
      BY <2>3 DEF MovedAreGone
    <3>1. CASE e \in archive
      <4>1. tree[x] = e.id
        BY <2>2, <2>4, <3>1
      <4>2. QED
        BY <3>1, <4>1 DEF HistoryInv, MovedAreGone
    <3>2. CASE e = [txn |-> pending.txn, path |-> Order[i], id |-> tree[Order[i]]]
      <4>1. Order[i] \in Paths \ {Results} /\ tree[x] = tree[Order[i]]
        BY <2>3, <2>4, <3>2
      <4>2. x[1] = Order[i][1]
        BY <2>3, <4>1 DEF HistoryInv, GenerationsApart
      <4>3. QED
        BY <2>3, <4>1, <4>2
    <3>3. QED
      BY <2>1, <3>1, <3>2
  <2>8. QED
    BY <2>5, <2>6, <2>7 DEF HistoryInv
<1>7. CASE RedoMeta
  <2>1. GenerationsApart'
    BY <1>7 DEF HistoryInv, GenerationsApart, RedoMeta, Executing
  <2>2. RecordsComplete'
    BY <1>7 DEF HistoryInv, RecordsComplete, RedoMeta, Executing
  <2>3. MovedAreGone'
    BY <1>7 DEF HistoryInv, MovedAreGone, RedoMeta, Executing
  <2>4. QED
    BY <2>1, <2>2, <2>3 DEF HistoryInv
<1>8. CASE RedoClear
  <2>1. GenerationsApart'
    BY <1>8 DEF HistoryInv, GenerationsApart, RedoClear
  <2>2. RecordsComplete'
    BY <1>8 DEF RecordsComplete, RedoClear
  <2>3. MovedAreGone'
    <3> SUFFICES ASSUME NEW e \in archive, NEW x \in Paths \ {Results}, e.path # Results,
                          tree[x] = e.id
                 PROVE  FALSE
      BY <1>8 DEF MovedAreGone, RedoClear
    <3>1. pending # None /\ x[1] \in pending.phases
      BY DEF HistoryInv, MovedAreGone
    <3>2. tree[x] # 0
      BY DEF BundleInv, TypeOK
    <3>3. x \in Unmoved
      BY <3>1, <3>2 DEF HistoryInv, RecordsComplete, Unmoved
    <3>4. QED
      BY <1>8, <3>1, <3>3 DEF BundleInv, ClearIsLast, RedoClear
  <2>4. QED
    BY <2>1, <2>2, <2>3 DEF HistoryInv
<1>9. CASE SkipPhase
  <2>1. GenerationsApart'
    BY <1>9 DEF HistoryInv, GenerationsApart, SkipPhase, Working, Here, disk
  <2>2. RecordsComplete'
    BY <1>9 DEF HistoryInv, RecordsComplete, SkipPhase, Working, Here, disk
  <2>3. MovedAreGone'
    BY <1>9 DEF HistoryInv, MovedAreGone, SkipPhase, Working, Here, disk
  <2>4. QED
    BY <2>1, <2>2, <2>3 DEF HistoryInv
<1>10. CASE BeginPhase
  <2>1. Here \in PhaseSet /\ <<Here, Parts[1]>> \in Paths \ {Results}
    BY <1>10, PhaseFacts, PathFacts DEF BundleInv, SessionTyped, BeginPhase, Working, Here
  <2>2. tree \in [Paths -> 0..lastId] /\ lastId \in Nat /\ \A e \in archive : e.id \in 1..lastId
    BY DiagnoseAssumption DEF BundleInv, TypeOK
  <2>3. tree' = [tree EXCEPT ![<<Here, Parts[1]>>] = lastId + 1] /\ UNCHANGED <<pending, archive>>
          /\ pending = None
    BY <1>10 DEF BundleInv, PendingAlone, BeginPhase, Working
  <2>4. \A x \in Paths \ {Results} : x[1] = Here => tree[x] = 0
    <3>1. TAKE x \in Paths \ {Results}
    <3>2. HAVE x[1] = Here
    <3>3. PICK p \in PhaseSet, a \in PartSet : x = <<p, a>> /\ x[1] = p
      BY PathFacts
    <3>4. QED
      BY <1>10, <3>2, <3>3 DEF BeginPhase, Attempted
  <2>5. GenerationsApart'
    <3> SUFFICES ASSUME NEW x \in Paths \ {Results}, NEW y \in Paths \ {Results}, tree'[x] # 0,
                          tree'[y] # 0
                 PROVE  tree'[x] = tree'[y] <=> x[1] = y[1]
      BY DEF GenerationsApart
    <3>1. CASE x = <<Here, Parts[1]>> /\ y = <<Here, Parts[1]>>
      BY <3>1
    <3>2. CASE x = <<Here, Parts[1]>> /\ y # <<Here, Parts[1]>>
      <4>1. tree'[x] = lastId + 1 /\ tree'[y] = tree[y] /\ tree[y] \in 0..lastId
        BY <2>1, <2>2, <2>3, <3>2
      <4>2. y[1] # Here
        BY <2>4, <4>1
      <4>3. QED
        BY <2>2, <3>2, <4>1, <4>2
    <3>3. CASE x # <<Here, Parts[1]>> /\ y = <<Here, Parts[1]>>
      <4>1. tree'[y] = lastId + 1 /\ tree'[x] = tree[x] /\ tree[x] \in 0..lastId
        BY <2>1, <2>2, <2>3, <3>3
      <4>2. x[1] # Here
        BY <2>4, <4>1
      <4>3. QED
        BY <2>2, <3>3, <4>1, <4>2
    <3>4. CASE x # <<Here, Parts[1]>> /\ y # <<Here, Parts[1]>>
      BY <2>2, <2>3, <3>4 DEF HistoryInv, GenerationsApart
    <3>5. QED
      BY <3>1, <3>2, <3>3, <3>4
  <2>6. RecordsComplete'
    BY <2>3 DEF RecordsComplete
  <2>7. MovedAreGone'
    <3> SUFFICES ASSUME NEW e \in archive, NEW x \in Paths \ {Results}, e.path # Results,
                          tree'[x] = e.id
                 PROVE  FALSE
      BY <2>3 DEF MovedAreGone
    <3>1. CASE x = <<Here, Parts[1]>>
      BY <2>2, <2>3, <3>1
    <3>2. CASE x # <<Here, Parts[1]>>
      BY <2>2, <2>3, <3>2 DEF HistoryInv, MovedAreGone
    <3>3. QED
      BY <3>1, <3>2
  <2>8. QED
    BY <2>5, <2>6, <2>7 DEF HistoryInv
<1>11. CASE ContinuePhase
  <2>1. GenerationsApart'
    BY <1>11 DEF HistoryInv, GenerationsApart, ContinuePhase, Working, Here, disk
  <2>2. RecordsComplete'
    BY <1>11 DEF HistoryInv, RecordsComplete, ContinuePhase, Working, Here, disk
  <2>3. MovedAreGone'
    BY <1>11 DEF HistoryInv, MovedAreGone, ContinuePhase, Working, Here, disk
  <2>4. QED
    BY <2>1, <2>2, <2>3 DEF HistoryInv
<1>12. CASE WritePart
  <2>1. Here \in PhaseSet /\ <<Here, Parts[1]>> \in Paths \ {Results}
    BY <1>12, PhaseFacts, PathFacts DEF BundleInv, SessionTyped, WritePart, Here
  <2>2. tree \in [Paths -> 0..lastId] /\ lastId \in Nat /\ \A e \in archive : e.id \in 1..lastId
    BY DiagnoseAssumption DEF BundleInv, TypeOK
  <2>3. PICK i \in Missing(Here) :
             tree' = [tree EXCEPT ![<<Here, Parts[i]>>] = tree[<<Here, Parts[1]>>]]
    BY <1>12 DEF WritePart
  <2>4. UNCHANGED <<pending, archive>> /\ pending = None
    BY <1>12 DEF BundleInv, PendingAlone, WritePart
  <2>5. <<Here, Parts[i]>> \in Paths \ {Results}
    BY <2>1, <2>3, PathFacts DEF Missing, PartSet
  <2>6. First(Here) # 0 /\ First(Here) = tree[<<Here, Parts[1]>>]
    BY <1>12 DEF RedoInv, RunningIsBegun, WritePart, First
  <2>7. \A x \in Paths \ {Results} : tree'[x] = tree[x] \/ (tree'[x] = First(Here) /\ x[1] = Here)
    BY <2>2, <2>3, <2>5, <2>6
  <2>8. GenerationsApart'
    <3> SUFFICES ASSUME NEW x \in Paths \ {Results}, NEW y \in Paths \ {Results}, tree'[x] # 0,
                          tree'[y] # 0
                 PROVE  tree'[x] = tree'[y] <=> x[1] = y[1]
      BY DEF GenerationsApart
    <3>1. ASSUME NEW z \in Paths \ {Results}, tree'[z] # 0
          PROVE  \E w \in Paths \ {Results} : tree[w] = tree'[z] /\ tree[w] # 0 /\ w[1] = z[1]
      <4>1. CASE tree'[z] = tree[z]
        BY <3>1, <4>1
      <4>2. CASE tree'[z] # tree[z]
        <5>1. tree'[z] = First(Here) /\ z[1] = Here
          BY <2>7, <4>2
        <5>2. QED
          BY <2>1, <2>6, <4>2, <5>1
      <4>3. QED
        BY <4>1, <4>2
    <3>2. PICK v \in Paths \ {Results} : tree[v] = tree'[x] /\ tree[v] # 0 /\ v[1] = x[1]
      BY <3>1
    <3>3. PICK w \in Paths \ {Results} : tree[w] = tree'[y] /\ tree[w] # 0 /\ w[1] = y[1]
      BY <3>1
    <3>4. tree[v] = tree[w] <=> v[1] = w[1]
      BY <3>2, <3>3 DEF HistoryInv, GenerationsApart
    <3>5. QED
      BY <3>2, <3>3, <3>4
  <2>9. RecordsComplete'
    BY <2>4 DEF RecordsComplete
  <2>10. MovedAreGone'
    <3> SUFFICES ASSUME NEW e \in archive, NEW x \in Paths \ {Results}, e.path # Results,
                          tree'[x] = e.id
                 PROVE  FALSE
      BY <2>4 DEF MovedAreGone
    <3>1. tree[x] # e.id /\ First(Here) # e.id
      BY <2>1, <2>4, <2>6 DEF HistoryInv, MovedAreGone
    <3>2. tree'[x] = tree[x] \/ tree'[x] = First(Here)
      BY <2>7
    <3>3. QED
      BY <3>1, <3>2
  <2>11. QED
    BY <2>8, <2>9, <2>10 DEF HistoryInv
<1>13. CASE MarkOpen
  <2>1. GenerationsApart'
    BY <1>13 DEF HistoryInv, GenerationsApart, MarkOpen, Here
  <2>2. RecordsComplete'
    BY <1>13 DEF HistoryInv, RecordsComplete, MarkOpen, Here
  <2>3. MovedAreGone'
    BY <1>13 DEF HistoryInv, MovedAreGone, MarkOpen, Here
  <2>4. QED
    BY <2>1, <2>2, <2>3 DEF HistoryInv
<1>14. CASE MarkPublish
  <2>1. GenerationsApart'
    BY <1>14 DEF HistoryInv, GenerationsApart, MarkPublish, Here
  <2>2. RecordsComplete'
    BY <1>14 DEF HistoryInv, RecordsComplete, MarkPublish, Here
  <2>3. MovedAreGone'
    BY <1>14 DEF HistoryInv, MovedAreGone, MarkPublish, Here
  <2>4. QED
    BY <2>1, <2>2, <2>3 DEF HistoryInv
<1>15. CASE MarkMeta
  <2>1. GenerationsApart'
    BY <1>15 DEF HistoryInv, GenerationsApart, MarkMeta
  <2>2. RecordsComplete'
    BY <1>15 DEF HistoryInv, RecordsComplete, MarkMeta
  <2>3. MovedAreGone'
    BY <1>15 DEF HistoryInv, MovedAreGone, MarkMeta
  <2>4. QED
    BY <2>1, <2>2, <2>3 DEF HistoryInv
<1>16. CASE FinalizeBegin
  <2>1. GenerationsApart'
    BY <1>16 DEF HistoryInv, GenerationsApart, FinalizeBegin
  <2>2. RecordsComplete'
    BY <1>16 DEF HistoryInv, RecordsComplete, FinalizeBegin
  <2>3. MovedAreGone'
    BY <1>16 DEF HistoryInv, MovedAreGone, FinalizeBegin
  <2>4. QED
    BY <2>1, <2>2, <2>3 DEF HistoryInv
<1>17. CASE Collect
  <2>1. tree \in [Paths -> 0..lastId] /\ lastId \in Nat /\ \A e \in archive : e.id \in 1..lastId
    BY DiagnoseAssumption DEF BundleInv, TypeOK
  <2>2. \A x \in Paths \ {Results} : tree'[x] = tree[x]
    BY <1>17, <2>1 DEF Collect
  <2>3. UNCHANGED <<pending, archive>> /\ pending = None
    BY <1>17 DEF BundleInv, PendingAlone, Collect
  <2>4. GenerationsApart'
    BY <2>2 DEF HistoryInv, GenerationsApart
  <2>5. RecordsComplete'
    BY <2>3 DEF RecordsComplete
  <2>6. MovedAreGone'
    BY <2>2, <2>3 DEF HistoryInv, MovedAreGone
  <2>7. QED
    BY <2>4, <2>5, <2>6 DEF HistoryInv
<1>18. CASE WriteManifest
  <2>1. GenerationsApart'
    BY <1>18 DEF HistoryInv, GenerationsApart, WriteManifest, EndSession
  <2>2. RecordsComplete'
    BY <1>18 DEF HistoryInv, RecordsComplete, WriteManifest, EndSession
  <2>3. MovedAreGone'
    BY <1>18 DEF HistoryInv, MovedAreGone, WriteManifest, EndSession
  <2>4. QED
    BY <2>1, <2>2, <2>3 DEF HistoryInv
<1>19. CASE Refuse
  <2>1. GenerationsApart'
    BY <1>19 DEF HistoryInv, GenerationsApart, Refuse, Working, Here, EndSession, disk
  <2>2. RecordsComplete'
    BY <1>19 DEF HistoryInv, RecordsComplete, Refuse, Working, Here, EndSession, disk
  <2>3. MovedAreGone'
    BY <1>19 DEF HistoryInv, MovedAreGone, Refuse, Working, Here, EndSession, disk
  <2>4. QED
    BY <2>1, <2>2, <2>3 DEF HistoryInv
<1>20. CASE MarkFails
  <2>1. GenerationsApart'
    BY <1>20 DEF HistoryInv, GenerationsApart, MarkFails, Here, EndSession
  <2>2. RecordsComplete'
    BY <1>20 DEF HistoryInv, RecordsComplete, MarkFails, Here, EndSession
  <2>3. MovedAreGone'
    BY <1>20 DEF HistoryInv, MovedAreGone, MarkFails, Here, EndSession
  <2>4. QED
    BY <2>1, <2>2, <2>3 DEF HistoryInv
<1>21. CASE Interrupt
  <2>1. GenerationsApart'
    BY <1>21 DEF HistoryInv, GenerationsApart, Interrupt, EndSession
  <2>2. RecordsComplete'
    BY <1>21 DEF HistoryInv, RecordsComplete, Interrupt, EndSession
  <2>3. MovedAreGone'
    BY <1>21 DEF HistoryInv, MovedAreGone, Interrupt, EndSession
  <2>4. QED
    BY <2>1, <2>2, <2>3 DEF HistoryInv
<1>22. CASE InterruptCreate
  <2>1. GenerationsApart'
    BY <1>22 DEF HistoryInv, GenerationsApart, InterruptCreate, EndSession
  <2>2. RecordsComplete'
    BY <1>22 DEF HistoryInv, RecordsComplete, InterruptCreate, EndSession
  <2>3. MovedAreGone'
    BY <1>22 DEF HistoryInv, MovedAreGone, InterruptCreate, EndSession
  <2>4. QED
    BY <2>1, <2>2, <2>3 DEF HistoryInv
<1>23. CASE Crash
  <2>1. GenerationsApart'
    BY <1>23 DEF HistoryInv, GenerationsApart, Crash, EndSession, disk
  <2>2. RecordsComplete'
    BY <1>23 DEF HistoryInv, RecordsComplete, Crash, EndSession, disk
  <2>3. MovedAreGone'
    BY <1>23 DEF HistoryInv, MovedAreGone, Crash, EndSession, disk
  <2>4. QED
    BY <2>1, <2>2, <2>3 DEF HistoryInv
<1>24. CASE StrayExits
  <2>1. GenerationsApart'
    BY <1>24 DEF HistoryInv, GenerationsApart, StrayExits, disk
  <2>2. RecordsComplete'
    BY <1>24 DEF HistoryInv, RecordsComplete, StrayExits, disk
  <2>3. MovedAreGone'
    BY <1>24 DEF HistoryInv, MovedAreGone, StrayExits, disk
  <2>4. QED
    BY <2>1, <2>2, <2>3 DEF HistoryInv
<1>25. CASE UNCHANGED vars
  BY <1>25 DEF vars, disk, HistoryInv, GenerationsApart, RecordsComplete, MovedAreGone
<1>26. QED
  BY <1>1, <1>2, <1>3, <1>4, <1>5, <1>6, <1>7, <1>8, <1>9, <1>10, <1>11, <1>12, <1>13, <1>14,
       <1>15, <1>16, <1>17, <1>18, <1>19, <1>20, <1>21, <1>22, <1>23, <1>24, <1>25 DEF Next,
       Step

LEMMA HistoryInvariant ==
  Spec => []HistoryInv
<1>1. BundleInv /\ RedoInv /\ HistoryInv /\ [Next]_vars => HistoryInv'
  BY NextHistory
<1>2. QED
  BY <1>1, InitHistory, BundleInvariant, RedoInvariant, PTL DEF Spec

-----------------------------------------------------------------------------
(* The refinement.                                                           *)

\* A step that changes what is in force of no phase, and gives nothing up, is a stutter.
LEMMA HistoryStutters ==
  ASSUME \A p \in PhaseSet : (InForce(p)' <=> InForce(p)) /\ (InForce(p) => IdOf(p)' = IdOf(p)),
         Gone' = Gone
  PROVE  UNCHANGED History!hist
<1>1. \A p \in PhaseSet : (IF InForce(p) THEN IdOf(p) ELSE 0)' = (IF InForce(p) THEN IdOf(p) ELSE 0)
  OBVIOUS
<1>2. Current' = Current
  BY <1>1 DEF Current
<1>3. QED
  BY <1>2 DEF History!hist

\* What was given up, when nothing is pending and when something is.
LEMMA GoneIs ==
  Gone = {e.id : e \in {a \in archive : a.path # Results}} \cup
         (IF pending = None THEN {} ELSE {tree[x] : x \in Unmoved \ {Results}})
BY DEF Gone

\* The phase that was being marked is in force once nothing can roll its marker back.
LEMMA MarkFinishes ==
  ASSUME BundleInv, RedoInv, HistoryInv, pc = "marked", pc' # "marked",
         UNCHANGED <<marker, tree, archive, pending>>
  PROVE  History!Finish(Here)
<1>1. Here \in PhaseSet /\ at \in 1..Len(Phases) /\ pending = None
  BY PhaseFacts DEF BundleInv, SessionTyped, PendingAlone, Here
<1>2. /\ \A p \in PhaseSet : InForce(p) <=> (Done(p) /\ p # Here)
      /\ \A p \in PhaseSet : InForce(p)' <=> Done(p)
  BY <1>1 DEF InForce, Done
<1>3. \A p \in PhaseSet : IdOf(p)' = IdOf(p)
  BY DEF IdOf
<1>4. Done(Here)
  BY DEF RedoInv, MarkerFollows, Done
<1>5. \A p \in PhaseSet : Done(p) => IdOf(p) # 0 /\ <<p, Final>> \in Paths \ {Results}
        /\ IdOf(p) = tree[<<p, Final>>]
  BY PathFacts DEF RedoInv, MarkedIsWhole, Stands, OneGeneration, IdOf
<1>6. \A p \in PhaseSet : Done(p) /\ p # Here => IdOf(p) # IdOf(Here)
  <2>1. SUFFICES ASSUME NEW p \in PhaseSet, Done(p), p # Here PROVE IdOf(p) # IdOf(Here)
    OBVIOUS
  <2>2. PICK x \in Paths \ {Results} : x = <<p, Final>> /\ x[1] = p /\ tree[x] = IdOf(p)
               /\ tree[x] # 0
    BY <1>5, <2>1
  <2>3. PICK y \in Paths \ {Results} : y = <<Here, Final>> /\ y[1] = Here /\ tree[y] = IdOf(Here)
               /\ tree[y] # 0
    BY <1>1, <1>4, <1>5
  <2>4. QED
    BY <2>1, <2>2, <2>3 DEF HistoryInv, GenerationsApart
<1>7. Current = [p \in PhaseSet |-> IF Done(p) /\ p # Here THEN IdOf(p) ELSE 0]
  BY <1>2 DEF Current
<1>8. Current' = [p \in PhaseSet |-> IF Done(p) THEN IdOf(p) ELSE 0]
  BY <1>2, <1>3 DEF Current
<1>9. Current' = [Current EXCEPT ![Here] = Current'[Here]]
  BY <1>1, <1>4, <1>7, <1>8
<1>10. Gone' = Gone /\ Gone = {e.id : e \in {a \in archive : a.path # Results}}
  BY <1>1 DEF Gone, Unmoved
<1>11. IdOf(Here) \notin Gone
  BY <1>1, <1>4, <1>5, <1>10 DEF HistoryInv, MovedAreGone
<1>12. IdOf(Here) # 0 /\ IdOf(Here) \notin History!InForce
  BY <1>1, <1>4, <1>5, <1>6, <1>7 DEF History!InForce, History!Complete
<1>13. Source(Here) # None => Source(Here) \in History!Complete
  <2>1. SUFFICES ASSUME Source(Here) # None PROVE Source(Here) \in History!Complete
    OBVIOUS
  <2>2. Source(Here) \in PhaseSet /\ Source(Here) # Here
    BY <1>1, <2>1, PhaseFacts DEF Source
  <2>3. Done(Source(Here))
    <3>1. PICK j \in 1..(at - 1) : Phases[j] = Source(Here)
      BY <1>1, <2>1, PhaseFacts DEF Here
    <3>2. QED
      BY <3>1 DEF RedoInv, PassedAreDone, InPhases
  <2>4. QED
    BY <1>5, <1>7, <2>2, <2>3 DEF History!Complete
<1>14. Here \notin History!Complete
  BY <1>7 DEF History!Complete
<1>15. Current'[Here] = IdOf(Here)
  BY <1>1, <1>4, <1>8
<1>16. QED
  BY <1>9, <1>10, <1>11, <1>12, <1>13, <1>14, <1>15 DEF History!Finish

\* A new redo gives up its phases and all that was made of them.
LEMMA RedoGivesUp ==
  ASSUME BundleInv, RedoInv, HistoryInv, Configure, pending = None, plan # {}, pending' # None
  PROVE  History!GiveUp(plan)
<1>1. /\ pending' = [txn |-> lastTxn', phases |-> plan, cfg |-> cfg, records |-> Present(plan)]
      /\ UNCHANGED <<marker, tree, archive>> /\ pc = "configure" /\ pc' = "redo"
  BY DEF Configure
<1>2. plan \in SUBSET PhaseSet /\ Closure(plan) = plan
  BY <1>1 DEF BundleInv, SessionTyped
<1>3. /\ \A p \in PhaseSet : InForce(p) <=> Done(p)
      /\ \A p \in PhaseSet : InForce(p)' <=> (Done(p) /\ p \notin plan)
  BY <1>1 DEF InForce, Done
<1>4. \A p \in PhaseSet : IdOf(p)' = IdOf(p)
  BY <1>1 DEF IdOf
<1>5. \A p \in PhaseSet : Done(p) => IdOf(p) # 0 /\ <<p, Final>> \in Paths \ {Results}
        /\ IdOf(p) = tree[<<p, Final>>]
  BY PathFacts DEF RedoInv, MarkedIsWhole, Stands, OneGeneration, IdOf
<1>6. Current = [p \in PhaseSet |-> IF Done(p) THEN IdOf(p) ELSE 0]
  BY <1>3 DEF Current
<1>7. Current' = [p \in PhaseSet |-> IF p \in plan THEN 0 ELSE Current[p]]
  BY <1>3, <1>4, <1>6 DEF Current
<1> DEFINE Old == {e.id : e \in {a \in archive : a.path # Results}}
           New == {tree[x] : x \in {y \in Paths \ {Results} : y[1] \in plan /\ tree[y] # 0}}
<1>8. Gone = Old
  BY DEF Gone
<1>9. Gone' = Old \cup New
  <2>1. pending'.records = Present(plan)
    BY <1>1
  <2>2. Unmoved' \ {Results} = {y \in Paths \ {Results} : y[1] \in plan /\ tree[y] # 0}
    BY <1>1, <2>1 DEF Unmoved, Present
  <2>3. QED
    BY <1>1, <2>2 DEF Gone
<1>10. \A p \in PhaseSet : Done(p) /\ p \in plan => IdOf(p) \in New
  BY <1>5
<1>11. Gone \cup {Current[p] : p \in plan \cap History!Complete} \subseteq Gone'
  BY <1>2, <1>6, <1>8, <1>9, <1>10 DEF History!Complete
<1>12. \A q \in PhaseSet : Done(q) => IdOf(q) \notin Old
  BY <1>5 DEF HistoryInv, MovedAreGone
<1>13. \A q \in PhaseSet : Done(q) /\ IdOf(q) \in New => q \in plan
  <2>1. TAKE q \in PhaseSet
  <2>2. HAVE Done(q) /\ IdOf(q) \in New
  <2>3. PICK y \in Paths \ {Results} : y[1] \in plan /\ tree[y] # 0 /\ tree[y] = IdOf(q)
    BY <2>2
  <2>4. PICK x \in Paths \ {Results} : x = <<q, Final>> /\ x[1] = q /\ tree[x] = IdOf(q)
               /\ tree[x] # 0
    BY <1>5, <2>2
  <2>5. y[1] = x[1]
    BY <2>3, <2>4 DEF HistoryInv, GenerationsApart
  <2>6. QED
    BY <2>3, <2>4, <2>5
<1>14. Gone' \cap (History!InForce \ {Current[p] : p \in plan}) = {}
  <2>1. SUFFICES ASSUME NEW i \in History!InForce, i \in Gone' PROVE i \in {Current[p] : p \in plan}
    OBVIOUS
  <2>2. PICK q \in PhaseSet : Done(q) /\ i = IdOf(q) /\ i = Current[q]
    BY <1>6, <2>1 DEF History!InForce, History!Complete
  <2>3. q \in plan
    BY <1>9, <1>12, <1>13, <2>1, <2>2
  <2>4. QED
    BY <2>2, <2>3
<1>15. QED
  BY <1>2, <1>7, <1>11, <1>14 DEF History!GiveUp

LEMMA HistoryStep ==
  ASSUME BundleInv, RedoInv, HistoryInv, [Next]_vars
  PROVE  [History!Next]_(History!hist)
<1> DEFINE Calm(p) == (InForce(p)' <=> InForce(p)) /\ (InForce(p) => IdOf(p)' = IdOf(p))
<1>0. ASSUME pc # "marked", pc' # "marked", UNCHANGED <<marker, tree, archive, pending>>
      PROVE  UNCHANGED History!hist
  <2>1. ASSUME NEW p \in PhaseSet PROVE Calm(p)
    BY <1>0 DEF InForce, Done, IdOf
  <2>2. Gone' = Gone
    BY <1>0 DEF Gone, Unmoved
  <2>3. QED
    BY <2>1, <2>2, HistoryStutters
<1>1. ASSUME NEW r \in Requests, Open(r) PROVE UNCHANGED History!hist
  BY <1>0, <1>1 DEF Open, Idle
<1>2. CASE Revoke \/ CreateMeta \/ SkipPhase \/ ContinuePhase \/ RedoMeta
  BY <1>0, <1>2 DEF Revoke, CreateMeta, SkipPhase, ContinuePhase, RedoMeta, Executing, Working, disk
<1>3. CASE FinalizeBegin \/ WriteManifest \/ InterruptCreate
  BY <1>0, <1>3 DEF FinalizeBegin, WriteManifest, InterruptCreate, EndSession
<1>4. CASE Refuse
  BY <1>0, <1>4 DEF Refuse, Working, EndSession, disk
<1>5. CASE StrayExits \/ UNCHANGED vars
  <2>1. UNCHANGED <<marker, tree, archive, pending, pc, at>>
    BY <1>5 DEF StrayExits, vars, disk
  <2>2. ASSUME NEW p \in PhaseSet PROVE Calm(p)
    BY <2>1 DEF InForce, Done, IdOf, Here
  <2>3. Gone' = Gone
    BY <2>1 DEF Gone, Unmoved
  <2>4. QED
    BY <2>2, <2>3, HistoryStutters
<1>6. CASE MarkMeta
  <2>1. History!Finish(Here) /\ Here \in PhaseSet
    BY <1>6, MarkFinishes, PhaseFacts DEF MarkMeta, BundleInv, SessionTyped, Here
  <2>2. QED
    BY <2>1 DEF History!Next
<1>7. CASE Interrupt \/ Crash
  <2>1. UNCHANGED <<marker, tree, archive, pending>> /\ pc' # "marked"
    BY <1>7 DEF Interrupt, Crash, EndSession, disk
  <2>2. CASE pc = "marked"
    <3>1. History!Finish(Here) /\ Here \in PhaseSet
      BY <2>1, <2>2, MarkFinishes, PhaseFacts DEF BundleInv, SessionTyped, Here
    <3>2. QED
      BY <3>1 DEF History!Next
  <2>3. CASE pc # "marked"
    BY <1>0, <2>1, <2>3
  <2>4. QED
    BY <2>2, <2>3
<1>8. CASE Configure
  <2>1. CASE pending = None /\ plan # {} /\ pending' # None
    <3>1. History!GiveUp(plan) /\ plan \in SUBSET PhaseSet
      BY <1>8, <2>1, RedoGivesUp DEF BundleInv, SessionTyped, Configure
    <3>2. QED
      BY <3>1 DEF History!Next
  <2>2. CASE pending # None \/ plan = {} \/ pending' = None
    BY <1>0, <1>8, <2>2 DEF Configure
  <2>3. QED
    BY <2>1, <2>2
<1>9. CASE RedoUnmark
  <2>1. PICK q \in Marked : marker' = [marker EXCEPT ![q] = "none"]
    BY <1>9 DEF RedoUnmark
  <2>2. UNCHANGED <<tree, archive, pending, pc, at>> /\ pc = "redo" /\ pending # None
    BY <1>9 DEF RedoUnmark, Executing
  <2>3. ASSUME NEW p \in PhaseSet PROVE Calm(p)
    <3>1. marker \in [PhaseSet -> {"none", "blank", "done"}]
      BY DEF BundleInv, TypeOK
    <3>2. p \notin pending.phases => marker'[p] = marker[p]
      BY <2>1, <3>1 DEF Marked
    <3>3. QED
      BY <2>2, <3>2 DEF InForce, Done, IdOf
  <2>4. Gone' = Gone
    BY <2>2 DEF Gone, Unmoved
  <2>5. QED
    BY <2>3, <2>4, HistoryStutters
<1>10. CASE RedoMove
  <2>1. PICK i \in 1..Len(Order) :
               /\ Order[i] \in Unmoved
               /\ archive' = archive \cup {[txn |-> pending.txn, path |-> Order[i],
                   id |-> tree[Order[i]]]}
               /\ tree' = [tree EXCEPT ![Order[i]] = 0]
    BY <1>10 DEF RedoMove
  <2>2. UNCHANGED <<marker, pending, pc, at>> /\ pc = "redo" /\ pending # None
    BY <1>10 DEF RedoMove, Executing
  <2>3. /\ tree \in [Paths -> 0..lastId] /\ Order[i] \in pending.records /\ Order[i] \in Paths
        /\ tree[Order[i]] # 0
        /\ Order[i] = Results \/ Order[i][1] \in pending.phases
    BY <1>10, <2>1, <2>2 DEF BundleInv, TypeOK, PendingTyped, RedoMove, Executing, MarkerValid,
      Unmoved
  <2>4. \A x \in Paths : tree'[x] = (IF x = Order[i] THEN 0 ELSE tree[x])
    BY <2>1, <2>3
  <2>5. ASSUME NEW p \in PhaseSet PROVE Calm(p)
    <3>1. p \notin pending.phases => <<p, Final>> # Order[i] /\ <<p, Final>> \in Paths
      BY <2>3, PathFacts
    <3>2. QED
      BY <2>2, <2>4, <3>1 DEF InForce, Done, IdOf
  <2>6. Gone' = Gone
    <3> DEFINE e == [txn |-> pending.txn, path |-> Order[i], id |-> tree[Order[i]]]
    <3>1. pending.records \subseteq Paths
      BY <2>2 DEF BundleInv, PendingTyped
    <3>2. Unmoved' = Unmoved \ {Order[i]}
      BY <2>2, <2>4, <3>1 DEF Unmoved
    <3>3. archive' = archive \cup {e} /\ e.path = Order[i] /\ e.id = tree[Order[i]]
      BY <2>1
    <3>4. \A x \in Unmoved \ {Order[i]} : tree'[x] = tree[x]
      BY <2>4, <3>1 DEF Unmoved
    <3>5. \A n : n \in Gone <=> \/ \E a \in archive : a.path # Results /\ a.id = n
                                \/ \E x \in Unmoved \ {Results} : tree[x] = n
      BY <2>2, GoneIs
    <3>6. \A n : n \in Gone' <=> \/ \E a \in archive' : a.path # Results /\ a.id = n
                                 \/ \E x \in Unmoved' \ {Results} : tree'[x] = n
      BY <2>2 DEF Gone
    <3>7. \A n : (\E a \in archive' : a.path # Results /\ a.id = n) <=>
                   \/ \E a \in archive : a.path # Results /\ a.id = n
                   \/ Order[i] # Results /\ tree[Order[i]] = n
      BY <3>3
    <3>8. \A n : (\E x \in Unmoved \ {Results} : tree[x] = n) <=>
                   \/ \E x \in Unmoved' \ {Results} : tree'[x] = n
                   \/ Order[i] # Results /\ tree[Order[i]] = n
      BY <2>1, <3>2, <3>4
    <3>9. \A n : n \in Gone' <=> n \in Gone
      BY <3>5, <3>6, <3>7, <3>8
    <3>10. QED
      BY <3>9 DEF Gone
  <2>7. QED
    BY <2>5, <2>6, HistoryStutters
<1>11. CASE RedoClear
  <2>1. UNCHANGED <<marker, tree, archive>> /\ pc = "clear" /\ pc' = "phases" /\ pending' = None
    BY <1>11 DEF RedoClear
  <2>2. pending # None => Marked = {} /\ Unmoved = {}
    BY <2>1 DEF BundleInv, ClearIsLast
  <2>3. ASSUME NEW p \in PhaseSet PROVE Calm(p)
    <3>1. pending # None /\ p \in pending.phases => ~Done(p)
      BY <2>2 DEF Marked, Done
    <3>2. QED
      BY <2>1, <3>1 DEF InForce, Done, IdOf
  <2>4. Gone' = Gone
    BY <2>1, <2>2 DEF Gone
  <2>5. QED
    BY <2>3, <2>4, HistoryStutters
<1>12. CASE BeginPhase \/ WritePart \/ Collect
  <2>1. pending = None /\ UNCHANGED <<marker, archive, pending, at>> /\ pc # "marked"
          /\ pc' # "marked"
    BY <1>12 DEF BundleInv, PendingAlone, BeginPhase, WritePart, Collect, Working
  <2>2. tree \in [Paths -> 0..lastId]
    BY DEF BundleInv, TypeOK
  <2>3. ASSUME NEW p \in PhaseSet, Done(p) PROVE IdOf(p)' = IdOf(p)
    <3>1. CASE BeginPhase
      <4>1. p # Here
        BY <2>3, <3>1 DEF BeginPhase
      <4>2. <<p, Final>> # <<Here, Parts[1]>> /\ <<p, Final>> \in Paths
        BY <4>1, PathFacts
      <4>3. QED
        BY <2>2, <3>1, <4>2 DEF BeginPhase, IdOf
    <3>2. CASE WritePart
      <4>1. p # Here
        BY <2>3, <3>2 DEF WritePart, RedoInv, RunningIsBegun
      <4>2. PICK i \in Missing(Here) : tree' = [tree EXCEPT ![<<Here, Parts[i]>>] = tree[<<Here,
                   Parts[1]>>]]
        BY <3>2 DEF WritePart
      <4>3. <<p, Final>> # <<Here, Parts[i]>> /\ <<p, Final>> \in Paths
        BY <4>1, PathFacts
      <4>4. QED
        BY <2>2, <4>2, <4>3 DEF IdOf
    <3>3. CASE Collect
      BY <2>2, <3>3, PathFacts DEF Collect, IdOf
    <3>4. QED
      BY <1>12, <3>1, <3>2, <3>3
  <2>4. ASSUME NEW p \in PhaseSet PROVE Calm(p)
    BY <2>1, <2>3 DEF InForce, Done
  <2>5. Gone' = Gone
    BY <2>1 DEF Gone
  <2>6. QED
    BY <2>4, <2>5, HistoryStutters
<1>13. CASE MarkOpen \/ MarkPublish \/ MarkFails
  <2>1. UNCHANGED <<tree, archive, pending>> /\ pending = None /\ Here \in PhaseSet
    BY <1>13, PhaseFacts DEF BundleInv, PendingAlone, SessionTyped, MarkOpen, MarkPublish,
      MarkFails, Here
  <2>2. marker \in [PhaseSet -> {"none", "blank", "done"}]
    BY DEF BundleInv, TypeOK
  <2>3. ASSUME NEW p \in PhaseSet PROVE Calm(p)
    <3>1. IdOf(p)' = IdOf(p)
      BY <2>1 DEF IdOf
    <3>2. CASE MarkOpen
      BY <2>1, <2>2, <3>1, <3>2 DEF MarkOpen, InForce, Done
    <3>3. CASE MarkPublish
      <4>1. at' = at /\ pc = "mark" /\ pc' = "marked" /\ marker' = [marker EXCEPT ![Here] = "done"]
        BY <3>3 DEF MarkPublish
      <4>2. marker[Here] = "blank" /\ Here' = Here
        BY <4>1 DEF RedoInv, MarkerFollows, Here
      <4>3. QED
        BY <2>1, <2>2, <3>1, <4>1, <4>2 DEF InForce, Done
    <3>4. CASE MarkFails
      <4>1. pc \in {"mark", "marked"} /\ pc' = "idle" /\ marker' = [marker EXCEPT ![Here] = "none"]
        BY <3>4 DEF MarkFails, EndSession
      <4>2. pc = "mark" => marker[Here] = "blank"
        BY DEF RedoInv, MarkerFollows
      <4>3. QED
        BY <2>1, <2>2, <3>1, <4>1, <4>2 DEF InForce, Done
    <3>5. QED
      BY <1>13, <3>2, <3>3, <3>4
  <2>4. Gone' = Gone
    BY <2>1 DEF Gone
  <2>5. QED
    BY <2>3, <2>4, HistoryStutters
<1>14. QED
  BY <1>1, <1>2, <1>3, <1>4, <1>5, <1>6, <1>7, <1>8, <1>9, <1>10, <1>11, <1>12, <1>13 DEF Next, Step

\* Seen without its files, a bundle completes phases from complete sources, and gives one up only
\* with everything that was made from it.
THEOREM ImplementsHistory ==
  Spec => HistorySpec
<1>1. Init => History!Init
  BY DEF Init, History!Init, Current, Gone, InForce, Done
<1>2. BundleInv /\ RedoInv /\ HistoryInv /\ [Next]_vars => [History!Next]_(History!hist)
  BY HistoryStep
<1>3. QED
  BY <1>1, <1>2, BundleInvariant, RedoInvariant, HistoryInvariant, PTL
    DEF Spec, HistorySpec, History!Spec
=============================================================================
