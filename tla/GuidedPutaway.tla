--------------------------- MODULE GuidedPutaway ---------------------------
(***************************************************************************)
(* The guided putaway: prepare, present, return and commit.  The operator  *)
(* asks for each step, so between two of them the workflow is only its     *)
(* Movement row.  One call of the model is one such workflow; a step that  *)
(* found the gantry busy may be asked for again.                           *)
(***************************************************************************)
EXTENDS Warehouse

CompatibleSlot(b) ==
    /\ binStatus[b] \in OnShelfStatus
    /\ (binStatus[b] = "OCCUPIED") <=> (Held(b) > 0)
    /\ Held(b) < Capacity

(* updateMany where status = from: a movement that has moved on is left.   *)
MoveOn(r, from, to) ==
    movement' = [movement EXCEPT ![r].status = IF @ = from THEN to ELSE @]

(* prepareGuidedPutaway reads the key and the operator's slot ...          *)
GuidedBegin(r, b, k) ==
    /\ At(r, "idle")
    /\ call[r].kind = "guided"
    /\ IF ~KeyTaken(<<"scan", k>>) /\ CompatibleSlot(b)
       THEN Planned(r, <<"scan", k>>, b, NoBin, binStatus[b], 0, TRUE)
       ELSE Goto(r, "done")
    /\ UNCHANGED <<binStatus, stock, movement, capture, place, holder, latched,
                   adjustments, history>>

(* ... and reserves it with a VALIDATED movement in one transaction, which *)
(* records no previous quantity.                                           *)
GuidedPrepare(r) ==
    LET b == call[r].bin IN
    /\ At(r, "claim")
    /\ call[r].kind = "guided"
    /\ IF /\ binStatus[b] = call[r].orig
          /\ CompatibleSlot(b)
          /\ ~KeyTaken(call[r].key)
       THEN /\ Reserve(r, {b})
            /\ CreateMovement(r,
                 [status |-> "VALIDATED", type |-> "PUTAWAY", bin |-> b,
                  src |-> NoBin, from |-> "INTAKE", prev |-> 0, key |-> call[r].key])
            /\ Goto(r, "prepared")
       ELSE /\ Goto(r, "done")
            /\ UNCHANGED <<binStatus, movement, history>>
    /\ UNCHANGED <<stock, capture, place, holder, latched, adjustments>>

(* presentGuidedPutawayBin claims the movement before it moves the bin.    *)
PresentClaim(r) ==
    /\ At(r, "prepared")
    /\ call[r].kind = "guided"
    /\ IF movement[r].status = "VALIDATED"
       THEN /\ SetMovement(r, "PRESENTING")
            /\ call' = [call EXCEPT ![r].pc = "dispatch", ![r].leg = "out"]
       ELSE Goto(r, "done") /\ UNCHANGED movement
    /\ UNCHANGED <<binStatus, stock, capture, place, holder, latched,
                   adjustments, history>>

(* The bin is at INTAKE: an update that does not look at the status.       *)
Presented(r) ==
    /\ At(r, "moved")
    /\ call[r].kind = "guided"
    /\ call[r].leg = "out"
    /\ SetMovement(r, "AWAITING_PLACEMENT")
    /\ Goto(r, "atIntake")
    /\ UNCHANGED <<binStatus, stock, capture, place, holder, latched,
                   adjustments, history>>

(* The operator decides: a placed part must be photographed first.         *)
PlacementDecided(r, placed) ==
    /\ At(r, "atIntake")
    /\ call[r].kind = "guided"
    /\ call' = [call EXCEPT ![r].pc = IF placed THEN "await" ELSE "decided",
                            ![r].leg = "back", ![r].checked = placed]
    /\ UNCHANGED <<binStatus, stock, movement, capture, place, holder, latched,
                   adjustments, history>>

(* placement_photo_required: nothing is written; the operator may decide   *)
(* again.                                                                  *)
PlacementPhotoRequired(r) ==
    /\ At(r, "abort")
    /\ call[r].kind = "guided"
    /\ Goto(r, "atIntake")
    /\ UNCHANGED <<binStatus, stock, movement, capture, place, holder, latched,
                   adjustments, history>>

(* returnGuidedPutawayBin claims the movement for the way back.            *)
GuidedReturnClaim(r) ==
    /\ At(r, "decided")
    /\ call[r].kind = "guided"
    /\ IF movement[r].status = "AWAITING_PLACEMENT"
       THEN SetMovement(r, "RETURNING") /\ Goto(r, "dispatch")
       ELSE Goto(r, "done") /\ UNCHANGED movement
    /\ UNCHANGED <<binStatus, stock, capture, place, holder, latched,
                   adjustments, history>>

(* gantry_busy hands the step back to the operator.                        *)
GuidedBusy(r) ==
    /\ At(r, "busy")
    /\ call[r].kind = "guided"
    /\ IF call[r].leg = "out"
       THEN MoveOn(r, "PRESENTING", "VALIDATED") /\ Goto(r, "prepared")
       ELSE MoveOn(r, "RETURNING", "AWAITING_PLACEMENT") /\ Goto(r, "atIntake")
    /\ UNCHANGED <<binStatus, stock, capture, place, holder, latched,
                   adjustments, history>>

(* Any other refusal closes the movement, and leaves the bin RESERVED.     *)
GuidedRefused(r) ==
    /\ At(r, "refused")
    /\ call[r].kind = "guided"
    /\ MoveOn(r, IF call[r].leg = "out" THEN "PRESENTING" ELSE "RETURNING", "FAILED")
    /\ Goto(r, "done")
    /\ UNCHANGED <<binStatus, stock, capture, place, holder, latched,
                   adjustments, history>>

(* Mutant of GuidedFailed: the slot is given back with the movement.       *)
GuidedFailedFreesSlot(r) ==
    /\ call[r].pc \in {"notMoved", "uncertain"}
    /\ call[r].kind = "guided"
    /\ SetMovement(r, "FAILED")
    /\ binStatus' = Released(binStatus, call[r].bin, call[r].orig)
    /\ Goto(r, "done")
    /\ UNCHANGED <<stock, capture, place, holder, latched, adjustments, history>>

(* The operation started and did not complete: an unconditional FAILED.    *)
GuidedFailed(r) ==
    /\ call[r].pc \in {"notMoved", "uncertain"}
    /\ call[r].kind = "guided"
    /\ SetMovement(r, "FAILED")
    /\ Goto(r, "done")
    /\ UNCHANGED <<binStatus, stock, capture, place, holder, latched,
                   adjustments, history>>

(* The bin is back on its shelf: unconditional again.                      *)
Returned(r) ==
    /\ At(r, "moved")
    /\ call[r].kind = "guided"
    /\ call[r].leg = "back"
    /\ SetMovement(r, IF call[r].checked THEN "READY_TO_COMMIT" ELSE "READY_TO_CANCEL")
    /\ Goto(r, "returned")
    /\ UNCHANGED <<binStatus, stock, capture, place, holder, latched,
                   adjustments, history>>

(* commitGuidedPutaway: one transaction that adds the part, or gives the   *)
(* slot back.  The part that no longer fits leaves the movement as it is.  *)
GuidedCommit(r) ==
    LET b == call[r].bin IN
    /\ At(r, "returned")
    /\ call[r].kind = "guided"
    /\ \/ /\ movement[r].status = "READY_TO_COMMIT"
          /\ Held(b) < Capacity
          /\ stock' = [stock EXCEPT ![b] = Held(b) + 1]
          /\ binStatus' = [binStatus EXCEPT ![b] = "OCCUPIED"]
          /\ SetMovement(r, "COMPLETED")
       \/ /\ movement[r].status = "READY_TO_CANCEL"
          /\ binStatus' = [binStatus EXCEPT
               ![b] = IF Held(b) > 0 THEN "OCCUPIED" ELSE "AVAILABLE"]
          /\ CloseMovement(r, "CANCELLED")
          /\ UNCHANGED stock
       \/ /\ \/ movement[r].status \notin {"READY_TO_COMMIT", "READY_TO_CANCEL"}
             \/ movement[r].status = "READY_TO_COMMIT" /\ Held(b) = Capacity
          /\ UNCHANGED <<binStatus, stock, movement>>
    /\ Goto(r, "done")
    /\ UNCHANGED <<capture, place, holder, latched, adjustments, history>>

GuidedStep(r) ==
    \/ \E b \in Bins, k \in Keys : GuidedBegin(r, b, k)
    \/ GuidedPrepare(r) \/ PresentClaim(r) \/ Presented(r)
    \/ \E placed \in BOOLEAN : PlacementDecided(r, placed)
    \/ PlacementPhotoRequired(r) \/ GuidedReturnClaim(r) \/ GuidedBusy(r)
    \/ GuidedRefused(r) \/ GuidedFailed(r) \/ Returned(r) \/ GuidedCommit(r)

============================================================================
