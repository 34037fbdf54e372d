---------------------------- MODULE BundleLedger ----------------------------
(***************************************************************************)
(* What a resumable bundle promises, with no processes, lease or files:    *)
(* each phase is a ledger of completed units, at most one unit of the      *)
(* bundle is entered at a time, it is always the next one of its phase,    *)
(* and it is either completed or abandoned.  A completed unit is never     *)
(* entered again.  Abstracts the phase stores and attempt-armed.json.      *)
(***************************************************************************)
EXTENDS Integers

CONSTANTS Phases, Total

VARIABLES ledger,    \* completed units of each phase
          entered    \* the unit that was entered and not completed

vars == <<ledger, entered>>
None == [phase |-> "none", unit |-> 0]

Init == /\ ledger = [p \in Phases |-> {}]
        /\ entered = None

Enter(p, u) == /\ entered = None
               /\ ledger[p] = 1..(u - 1)
               /\ entered' = [phase |-> p, unit |-> u]
               /\ UNCHANGED ledger

Complete(p) == /\ entered.phase = p
               /\ ledger' = [ledger EXCEPT ![p] = @ \union {entered.unit}]
               /\ entered' = None

Abandon == /\ entered # None
           /\ entered' = None
           /\ UNCHANGED ledger

Next == \/ \E p \in Phases : \E u \in 1..Total[p] : Enter(p, u)
        \/ \E p \in Phases : Complete(p)
        \/ Abandon

Spec == Init /\ [][Next]_vars
=============================================================================
