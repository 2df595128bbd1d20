--------------------------- MODULE Authorisation ---------------------------
(***************************************************************************)
(* What the approval gate promises of every action it guards.  An offer is *)
(* made, the operator's approval claims it, and only an offer that was     *)
(* claimed while it was open may run.  A refusal (a denial, a newer offer, *)
(* an offer too old) before that is final.  A refusal after it only        *)
(* crosses: the claim is not taken back, and the action may still run.     *)
(***************************************************************************)
CONSTANT Offers

VARIABLE phase

Phases == {"none", "offered", "authorised", "crossed", "done", "refused"}

TypeOK == phase \in [Offers -> Phases]

Init == phase = [i \in Offers |-> "none"]

(* Any number of offers may be affected at once: a restart forgets them all. *)
Turns(from, to) ==
    \E S \in SUBSET Offers :
        /\ S # {} /\ \A i \in S : phase[i] \in from
        /\ phase' = [i \in Offers |-> IF i \in S THEN to ELSE phase[i]]

Refused(p) ==
    IF p = "offered" THEN "refused" ELSE IF p = "authorised" THEN "crossed" ELSE p

Refusals(gone) == [i \in Offers |-> IF i \in gone THEN Refused(phase[i]) ELSE phase[i]]

(* A new offer; what is too old is swept away in the same step.            *)
Offer ==
    \E new, gone \in SUBSET Offers :
        /\ new # {} /\ \A i \in new : phase[i] = "none"
        /\ phase' = [i \in Offers |-> IF i \in new THEN "offered" ELSE Refusals(gone)[i]]

Refuse == \E gone \in SUBSET Offers : phase' = Refusals(gone)

Authorise == Turns({"offered"}, "authorised")
Run       == Turns({"authorised", "crossed"}, "done")
(* The call that held the authority ended without running the action.      *)
Withdraw  == Turns({"authorised"}, "offered")
(* So did one that was crossed, or everything was forgotten in a restart.  *)
Forget    == Turns({"offered", "authorised", "crossed"}, "refused")

Next == Offer \/ Refuse \/ Authorise \/ Run \/ Withdraw \/ Forget

Spec == Init /\ [][Next]_phase

============================================================================
