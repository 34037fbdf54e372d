-------------------------- MODULE EvidenceHistory --------------------------
(* What a bundle promises about completed phases, whatever files, markers    *)
(* and transactions carry it: the generation each phase is complete with,    *)
(* and the generations that were given up for good.                          *)
EXTENDS Naturals

CONSTANTS PhaseSet, Source(_), Closure(_), None

VARIABLES current,   \* the complete generation of each phase, 0 when it has none
          gone       \* the generations that were given up

hist == <<current, gone>>
Complete == {p \in PhaseSet : current[p] # 0}
InForce == {current[p] : p \in Complete}

Init == current = [p \in PhaseSet |-> 0] /\ gone = {}

(* A phase is completed by a generation that is in force nowhere and was     *)
(* never given up, on top of a complete source.                              *)
Finish(p) ==
  /\ p \notin Complete
  /\ Source(p) # None => Source(p) \in Complete
  /\ current'[p] # 0 /\ current'[p] \notin InForce \cup gone
  /\ current' = [current EXCEPT ![p] = current'[p]]
  /\ gone' = gone

(* Phases are given up together with all that was derived from them; a given *)
(* up generation stays so, be it complete or the leftover of an attempt.     *)
GiveUp(S) ==
  /\ Closure(S) = S
  /\ current' = [p \in PhaseSet |-> IF p \in S THEN 0 ELSE current[p]]
  /\ gone \cup {current[p] : p \in S \cap Complete} \subseteq gone'
  /\ gone' \cap (InForce \ {current[p] : p \in S}) = {}

Next == (\E p \in PhaseSet : Finish(p)) \/ (\E S \in SUBSET PhaseSet : GiveUp(S))

Spec == Init /\ [][Next]_hist
=============================================================================
