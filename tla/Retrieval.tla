----------------------------- MODULE Retrieval -----------------------------
(***************************************************************************)
(* executeRetrieval: take a whole bin off its shelf to OUTPUT, then count  *)
(* what is in it.  The bin is claimed with its recorded stock in one       *)
(* transaction, moved, recorded CHECKED_OUT, and only then photographed.   *)
(***************************************************************************)
EXTENDS Warehouse

(* The request is read: a key already stored is replayed or refused, and   *)
(* only an OCCUPIED bin with stock is a source.                            *)
RetrievalBegin(r, b, k, verifyContents) ==
    /\ At(r, "idle")
    /\ call[r].kind = "retrieve"
    /\ LET key == <<"retrieval", k>> IN
       IF KeyTaken(key) \/ binStatus[b] # "OCCUPIED" \/ stock[b] <= 0
       THEN Goto(r, "done")
       ELSE Planned(r, key, b, NoBin, "OCCUPIED", stock[b], verifyContents)
    /\ UNCHANGED <<binStatus, stock, movement, capture, place, holder, latched,
                   adjustments, history>>

(* One transaction: reserve the bin, re-check its stock, create the        *)
(* movement under the request's key.  Any of the three failing undoes it.  *)
RetrievalClaim(r) ==
    LET b == call[r].bin IN
    /\ At(r, "claim")
    /\ call[r].kind = "retrieve"
    /\ IF binStatus[b] = "OCCUPIED" /\ stock[b] = call[r].base /\ ~KeyTaken(call[r].key)
       THEN /\ Reserve(r, {b})
            /\ CreateMovement(r,
                 [status |-> "VALIDATED", type |-> "RETRIEVAL", bin |-> b,
                  src |-> NoBin, from |-> "NONE", prev |-> call[r].base,
                  key |-> call[r].key])
            /\ Goto(r, "run")
       ELSE /\ Goto(r, "done")
            /\ UNCHANGED <<binStatus, movement, history>>
    /\ UNCHANGED <<stock, capture, place, holder, latched, adjustments>>

(* updateMovementStatus RUNNING refuses a closed movement.                 *)
RetrievalRun(r) ==
    /\ At(r, "run")
    /\ call[r].kind = "retrieve"
    /\ IF movement[r].status \in Terminal
       THEN /\ Goto(r, "refused")
            /\ UNCHANGED movement
       ELSE /\ SetMovement(r, "RUNNING")
            /\ Goto(r, "dispatch")
    /\ UNCHANGED <<binStatus, stock, capture, place, holder, latched,
                   adjustments, history>>

(* releaseClaim, nothing having moved: close the movement, free its key    *)
(* and put the bin back on its shelf.                                      *)
RetrievalRelease(r) ==
    /\ call[r].pc \in {"busy", "refused", "notMoved"}
    /\ call[r].kind = "retrieve"
    /\ CloseMovement(r, "FAILED")
    /\ binStatus' = Released(binStatus, call[r].bin, "OCCUPIED")
    /\ Goto(r, "done")
    /\ UNCHANGED <<stock, capture, place, holder, latched, adjustments, history>>

(* Mutant of RetrievalUncertain: the key is freed although the container   *)
(* may have moved.                                                         *)
RetrievalUncertainFreesKey(r) ==
    /\ At(r, "uncertain")
    /\ call[r].kind = "retrieve"
    /\ CloseMovement(r, "FAILED")
    /\ Goto(r, "done")
    /\ UNCHANGED <<binStatus, stock, capture, place, holder, latched,
                   adjustments, history>>

(* releaseClaim with reconciliationRequired: the bin may have moved, so    *)
(* its reservation and the key are kept.                                   *)
RetrievalUncertain(r) ==
    /\ At(r, "uncertain")
    /\ call[r].kind = "retrieve"
    /\ SetMovement(r, "FAILED")
    /\ Goto(r, "done")
    /\ UNCHANGED <<binStatus, stock, capture, place, holder, latched,
                   adjustments, history>>

(* Record the physical checkout, before any photo.  If stock or bin        *)
(* changed meanwhile the movement is left RUNNING for an operator.         *)
RetrievalCheckout(r) ==
    LET b == call[r].bin IN
    /\ At(r, "moved")
    /\ call[r].kind = "retrieve"
    /\ IF stock[b] = call[r].base /\ binStatus[b] = "RESERVED"
       THEN /\ binStatus' = [binStatus EXCEPT ![b] = "CHECKED_OUT"]
            /\ SetMovement(r, IF call[r].checked THEN "AWAITING_VERIFICATION"
                                                 ELSE "COMPLETED")
            /\ Goto(r, IF call[r].checked THEN "await" ELSE "done")
       ELSE /\ Goto(r, "done")
            /\ UNCHANGED <<binStatus, movement>>
    /\ UNCHANGED <<stock, capture, place, holder, latched, adjustments, history>>

(* Mutant of CheckoutCheckExpires: only a movement that still waits.       *)
CheckoutCheckExpiresIfWaiting(r) ==
    /\ At(r, "verify")
    /\ call[r].kind = "retrieve"
    /\ capture[r].status = "OPEN"
    /\ movement[r].status = "AWAITING_VERIFICATION"
    /\ capture' = [capture EXCEPT ![r].status = "FAILED"]
    /\ Goto(r, "abort")
    /\ UNCHANGED <<binStatus, stock, movement, place, holder, latched,
                   adjustments, history>>

(* Nobody decides for the inactivity timeout: the waiting call fails the   *)
(* capture itself, whatever has become of the movement.                    *)
CheckoutCheckExpires(r) ==
    /\ At(r, "verify")
    /\ call[r].kind = "retrieve"
    /\ capture[r].status = "OPEN"
    /\ capture' = [capture EXCEPT ![r].status = "FAILED"]
    /\ Goto(r, "abort")
    /\ UNCHANGED <<binStatus, stock, movement, place, holder, latched,
                   adjustments, history>>

(* Record the accepted count, if the stock is still the one checked out    *)
(* and the movement and the bin still wait for it; else close as failed.   *)
RetrievalComplete(r) ==
    LET b == call[r].bin IN
    /\ At(r, "decided")
    /\ call[r].kind = "retrieve"
    /\ IF /\ stock[b] = call[r].base
          /\ movement[r].status = "AWAITING_VERIFICATION"
          /\ binStatus[b] = "CHECKED_OUT"
       THEN /\ stock' = [stock EXCEPT ![b] = capture[r].count]
            /\ SetMovement(r, "COMPLETED")
            /\ Goto(r, "done")
       ELSE /\ Goto(r, "abort")
            /\ UNCHANGED <<stock, movement>>
    /\ UNCHANGED <<binStatus, capture, place, holder, latched, adjustments, history>>

(* The check failed after the move: the bin stays CHECKED_OUT and the key  *)
(* stays taken.                                                            *)
RetrievalVerificationFailed(r) ==
    /\ At(r, "abort")
    /\ call[r].kind = "retrieve"
    /\ IF movement[r].status \in {"AWAITING_VERIFICATION", "FAILED"}
       THEN SetMovement(r, "FAILED")
       ELSE UNCHANGED movement
    /\ Goto(r, "done")
    /\ UNCHANGED <<binStatus, stock, capture, place, holder, latched,
                   adjustments, history>>

RetrievalStep(r) ==
    \/ \E b \in Bins, k \in Keys, v \in BOOLEAN : RetrievalBegin(r, b, k, v)
    \/ RetrievalClaim(r) \/ RetrievalRun(r) \/ RetrievalRelease(r)
    \/ RetrievalUncertain(r) \/ RetrievalCheckout(r) \/ RetrievalComplete(r)
    \/ CheckoutCheckExpires(r) \/ RetrievalVerificationFailed(r)

============================================================================
