----------------------------- MODULE Workflow -----------------------------
(***************************************************************************)
(* Putaway and retrieval graphs running at once on one shelf and one       *)
(* catalog, while operators identify and register parts, correct stock by  *)
(* hand, return bins and audit them.                                       *)
(***************************************************************************)
EXTENDS RetrievalWorkflow, PutawayWorkflow

CONSTANTS MaxCorrections  \* bound on what happens outside the graphs

VARIABLES corrections

vars == <<graphVars, shelfVars, catalogVars, corrections>>

TypeOK == GraphTypeOK /\ corrections \in 0 .. MaxCorrections

Init == GraphInit /\ corrections = 0

(* A manual correction (inventory-service.ts).                             *)
CorrectByHand(b, p) ==
    /\ p \in catalog
    /\ AddInventory(b, p, 1) \/ RemoveInventory(b, p, 1)

(* Other services: a bin that is checked out is returned unverified, or a  *)
(* bin on the shelf goes to be audited and comes back.                     *)
Elsewhere(b) ==
    /\ \E change \in {<<"CHECKED_OUT", "OCCUPIED">>, <<"OCCUPIED", "AUDITING">>,
                      <<"AUDITING", "OCCUPIED">>} :
         /\ binStatus[b] = change[1]
         /\ binStatus' = [binStatus EXCEPT ![b] = change[2]]
    /\ UNCHANGED stock

Outside ==
    /\ corrections < MaxCorrections
    /\ corrections' = corrections + 1
    /\ \E b \in Bins : Elsewhere(b) \/ \E p \in Parts : CorrectByHand(b, p)
    /\ UNCHANGED <<graphVars, catalogVars>>

GraphStep ==
    /\ \E x \in Runs : RetrievalStep(x) \/ PutawayStep(x)
    /\ UNCHANGED corrections

IdentifyStep == CatalogStep /\ UNCHANGED <<graphVars, shelfVars, corrections>>

Next == GraphStep \/ IdentifyStep \/ Outside

Spec == Init /\ [][Next]_vars

---------------------------------------------------------------------------
Over(x) == run[x].at = "over"

Stored(x) == request[x].kind = "PUTAWAY" /\ movement[x].status = "COMPLETED"

(* No part is stored under a name nobody stands for: the matcher was sure  *)
(* of it with a catalog this warehouse has had, or an operator confirmed   *)
(* it for this very scan, from candidates the matcher gave.  The identity  *)
(* is read twice while rows and catalog change (putaway-nodes.ts,          *)
(* putaway-service.ts).                                                    *)
IdentityIsConfirmed ==
    \A x \in Runs :
      Stored(x) =>
        LET s == request[x].scan
            p == movement[x].part
        IN p # NoPart /\ StandsFor(s, p)

(* A repeated request is told what the first one did: the same part and    *)
(* bin, and the count that was recorded then, whatever the shelf holds now.*)
ReplayAnswersOriginal ==
    \A x \in Runs :
      (Over(x) /\ run[x].result = "replayed" /\ run[x].status = "COMPLETED") =>
        LET m == movement[run[x].movement]
        IN /\ run[x].movement # x /\ movement[x] = NoMovement
           /\ m.status = "COMPLETED"
           /\ <<run[x].part, run[x].bin, run[x].count>> = <<m.part, m.bin, m.count>>

(* A checkout reported as done is at the counter with the reported count   *)
(* when it is reported.                                                    *)
CheckoutIsReportedAtTheCounter ==
    [][\A x \in Runs :
         (/\ request[x].kind = "RETRIEVAL" /\ run[x].result = "ok"
          /\ ~Over(x) /\ Over(x)' /\ run[x].status' = "COMPLETED") =>
             /\ binStatus[movement[x].bin] = "CHECKED_OUT"
             /\ Count(movement[x].bin, movement[x].part) = run[x].count]_vars

(* No bin stays reserved for nothing: somebody is about to move it, or the *)
(* machine may have moved it and a person must look.                       *)
ReservationHasAnOwner ==
    \A b \in Bins :
      binStatus[b] = "RESERVED" =>
        \E x \in Runs :
          /\ b \in {movement[x].bin, movement[x].home}
          /\ \/ movement[x].status \in {"VALIDATED", "RUNNING"}
             \/ movement[x].status = "FAILED" /\ movement[x].keyed

============================================================================
