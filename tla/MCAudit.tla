------------------------------ MODULE MCAudit ------------------------------
(***************************************************************************)
(* Audits of a bin that holds one unit of two; another workflow may        *)
(* empty or fill it at any time.                                           *)
(***************************************************************************)
EXTENDS Audit, TLC

Symmetry == Permutations(Runs) \cup Permutations(Requests)

AllKinds == CaptureKinds \cup ReviewKinds

OneUnit == Init /\ stock = [b \in Bins |-> 1]

OneUnitSpec == OneUnit /\ [][Next]_vars
FairOneUnitSpec == OneUnitSpec /\ Fairness
============================================================================
