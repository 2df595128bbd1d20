------------------------------ MODULE Custody ------------------------------
(***************************************************************************)
(* All the bin workflows of one warehouse together, with the recovery and  *)
(* the manual stock corrections that run beside them, and what the team    *)
(* relies on: where a bin is, who may move it, and when stock changes.     *)
(***************************************************************************)
EXTENDS Retrieval, Putaway, GuidedPutaway

---------------------------------------------------------------------------
(* The two janitors.  recoverAbandonedPutaways runs when any browser polls *)
(* for a capture and when a waiting call gives up; the guided sweep runs   *)
(* when a guided putaway is prepared.  Both look for movements that are    *)
(* old, not for dead calls: how much time has passed is nondeterministic.  *)

Recoverable(m) ==
    \/ movement[m].type = "PUTAWAY"
       /\ movement[m].status \in {"VALIDATED", "AWAITING_PLACEMENT"}
    \/ movement[m].type = "RETRIEVAL" /\ movement[m].status = "AWAITING_VERIFICATION"

DestinationStatusBeforeReservation(m) ==
    IF movement[m].from = "OUTPUT"
    THEN IF movement[m].src # NoBin THEN "AVAILABLE" ELSE "CHECKED_OUT"
    ELSE IF movement[m].prev > 0 THEN "OCCUPIED" ELSE "AVAILABLE"

(* Mutant of FailsCapture: movements without a capture are not looked for. *)
FailsOpenCapture(m) ==
    /\ capture[m].status # "NONE"
    /\ capture' = [capture EXCEPT ![m].status = "FAILED"]

(* The capture is failed under the status it was read with; a movement     *)
(* read before it had one loses no capture.                                *)
FailsCapture(m) ==
    \/ capture[m].status # "NONE" /\ capture' = [capture EXCEPT ![m].status = "FAILED"]
    \/ UNCHANGED capture

(* releasePreMotionMovement, one transaction.                              *)
RecoverRetrieval(m) ==
    /\ Recoverable(m)
    /\ movement[m].type = "RETRIEVAL"
    /\ FailsCapture(m)
    /\ SetMovement(m, "FAILED")
    /\ UNCHANGED <<binStatus, stock, call, place, holder, latched, adjustments,
                   history>>

RecoverPutaway(m) ==
    LET b == movement[m].bin
        s == movement[m].src
        released == Released(binStatus, b, DestinationStatusBeforeReservation(m))
    IN
    /\ Recoverable(m)
    /\ movement[m].type = "PUTAWAY"
    /\ FailsCapture(m)
    /\ CloseMovement(m, "FAILED")
    /\ binStatus' = IF s = NoBin THEN released ELSE Released(released, s, "CHECKED_OUT")
    /\ misreleased' = IF movement[m].status = "AWAITING_PLACEMENT"
                      THEN misreleased \cup {b} ELSE misreleased
    /\ UNCHANGED <<stock, call, place, holder, latched, adjustments,
                   owner>>

(* sweepAbandonedGuidedPutaways takes every PUTAWAY, guided or not.        *)
SweepBeforeMotion(m) ==
    LET b == movement[m].bin IN
    /\ "guided" \in Kinds
    /\ movement[m].type = "PUTAWAY"
    /\ movement[m].status = "VALIDATED"
    /\ CloseMovement(m, "CANCELLED")
    /\ binStatus' = Released(binStatus, b, IF Held(b) > 0 THEN "OCCUPIED" ELSE "AVAILABLE")
    /\ misreleased' = IF movement[m].from = "OUTPUT" /\ movement[m].src = NoBin
                      THEN misreleased \cup {b} ELSE misreleased
    /\ UNCHANGED <<stock, capture, call, place, holder, latched, adjustments,
                   owner>>

SweepOffShelf(m) ==
    /\ "guided" \in Kinds
    /\ movement[m].type = "PUTAWAY"
    /\ movement[m].status \in {"PRESENTING", "AWAITING_PLACEMENT", "RETURNING",
                               "READY_TO_COMMIT", "READY_TO_CANCEL"}
    /\ CloseMovement(m, "FAILED")
    /\ UNCHANGED <<binStatus, stock, capture, call, place, holder, latched,
                   adjustments, history>>

RecoveryStep(m) ==
    \/ RecoverRetrieval(m) \/ RecoverPutaway(m)
    \/ SweepBeforeMotion(m) \/ SweepOffShelf(m)

---------------------------------------------------------------------------
(* The steps of the system.                                                *)

CallStep(r) == RetrievalStep(r) \/ PutawayStep(r) \/ GuidedStep(r)

Next ==
    \/ \E r \in Calls :
         CallStep(r) \/ MachineStep(r) \/ VerificationStep(r) \/ RecoveryStep(r)
    \/ Reconcile
    \/ \E b \in Bins, n \in 1 .. Capacity : AddStock(b, n) \/ RemoveStock(b, n)

Spec == Init /\ [][Next]_vars

(* What a live process does without being asked: everything but the first  *)
(* step of a call, an operator's decision, and giving up on a camera.      *)
Proceeds(r) ==
    \/ RetrievalClaim(r) \/ RetrievalRun(r) \/ RetrievalRelease(r)
    \/ RetrievalUncertain(r) \/ RetrievalCheckout(r) \/ RetrievalComplete(r)
    \/ CheckoutCheckExpires(r) \/ RetrievalVerificationFailed(r)
    \/ PutawayClaim(r) \/ ReturnClaim(r) \/ PutawayRun(r) \/ PutawayRelease(r)
    \/ PutawayUncertain(r) \/ PutawayCommit(r)
    \/ StartMove(r) \/ RefuseMove(r) \/ FinishMove(r) \/ FailMove(r) \/ LoseMove(r)
    \/ RequireVerification(r) \/ VerificationUnavailable(r) \/ SeeDecision(r)
    \/ CloseTimedOutMovement(r)

(* A process is scheduled as long as it lives, and as long as a browser is *)
(* open its polls run the recovery.                                        *)
FairSpec ==
    /\ Spec
    /\ \A r \in Calls :
         /\ WF_vars(Proceeds(r))
         /\ WF_vars(RecoverPutaway(r))
         /\ WF_vars(RecoverRetrieval(r))

---------------------------------------------------------------------------
(* Safety.                                                                 *)

(* Two open movements never hold the same bin: the conditional update to   *)
(* RESERVED lets one caller through, and no release lets in a second.      *)
OneDriverPerBin ==
    \A b \in Bins \ misreleased :
        \A m, n \in Calls : Reserves(m, b) /\ Reserves(n, b) => m = n

(* The machine takes a bin from where it really is: no workflow starts on  *)
(* a record that another one has made stale.                               *)
TripStartsWhereBinIs ==
    \A r \in Calls :
        /\ holder = r
        /\ {call[r].bin, call[r].src} \cap misreleased = {}
        => place[Traveller(r)] = Origin(r)

(* A checkout request that is repeated never sends the gantry twice, not   *)
(* even after a crash or an uncertain trip.                                *)
AtMostOneCheckoutPerRequest ==
    \A r, q \in Calls :
        /\ call[r].kind = "retrieve" /\ call[q].kind = "retrieve"
        /\ call[r].carried /\ call[q].carried
        /\ call[r].key = call[q].key
        => r = q

(* Why it is so: a checkout that has been moved, or may still be, holds    *)
(* the key of its request in its row, for the release that frees the key   *)
(* runs only where the gantry never had the bin.  Keys are unique, so a    *)
(* repetition finds it.                                                    *)
BeforeTrip == {"idle", "claim", "run", "dispatch", "moving", "busy", "refused", "notMoved"}
HoldsKey(r) ==
    call[r].kind = "retrieve" =>
        /\ movement[r].type # "PUTAWAY"
        /\ At(r, "claim") => call[r].key # NoKey
        /\ call[r].pc \in BeforeTrip => ~call[r].carried
        /\ \/ call[r].carried
           \/ holder = r
           \/ call[r].pc \in {"run", "dispatch", "moving"}
           => movement[r].key = call[r].key /\ call[r].key # NoKey
CheckoutHoldsItsKey ==
    /\ \A r \in Calls : HoldsKey(r)
    /\ \A r \in Calls : holder = r => call[r].pc \in {"moving", "dead"}
    /\ \A m, n \in Calls : movement[m].key = movement[n].key /\ movement[m].key # NoKey => m = n

(* The warehouse invariant of the tests: an AVAILABLE bin holds no stock   *)
(* and an OCCUPIED bin holds some.                                         *)
ShelvedStatusMatchesStock ==
    \A b \in Bins \ misreleased :
        /\ binStatus[b] = "AVAILABLE" => Held(b) = 0
        /\ binStatus[b] = "OCCUPIED" => Held(b) > 0

(* A finished movement, and a checkout closed in any way, is never         *)
(* reopened or closed again differently by a late decision or recovery.    *)
FinishedStaysFinished ==
    [][ \A m \in Calls :
          \/ movement[m].status = "COMPLETED"
          \/ movement[m].type = "RETRIEVAL" /\ movement[m].status \in Terminal
          => movement'[m].status = movement[m].status ]_vars

(* Recorded stock follows evidence: outside a manual correction it changes *)
(* only in the step that completes a movement, for the bins of that        *)
(* movement, after an accepted photo and a finished trip.                  *)
StockChangesOnlyOnEvidence ==
    [][ \A b \in Bins :
          stock'[b] # stock[b] =>
            \/ adjustments' # adjustments
            \/ \E m \in Calls :
                 /\ movement[m].status # "COMPLETED" /\ movement'[m].status = "COMPLETED"
                 /\ b \in {movement[m].bin, movement[m].src}
                 /\ capture[m].status = "ACCEPTED"
                 /\ call[m].carried
                 /\ holder # m ]_vars

---------------------------------------------------------------------------
(* Refinement.                                                             *)

(* The row that answers for a key, and the checkouts whose bin has been    *)
(* carried, or may have been.                                              *)
Answering(k) ==
    IF \E m \in Calls : movement[m].key = k
    THEN CHOOSE m \in Calls : movement[m].key = k
    ELSE NoCall
CarriedOut == {r \in Calls : call[r].kind = "retrieve" /\ call[r].carried}

Once == INSTANCE IdempotentRequest WITH
    Requests <- IdempotencyKeys \ {NoKey}, Workers <- Calls, Nobody <- NoCall,
    answers <- [k \in IdempotencyKeys \ {NoKey} |-> Answering(k)],
    acted <- CarriedOut

(* The keys of Movement rows keep the promise of an idempotency key: of a  *)
(* checkout that is repeated, crashes, times out or loses track of its     *)
(* trip, one row answers, it moves its bin once, and a row whose key is    *)
(* freed for another attempt never had its bin moved.                      *)
CheckoutIsIdempotent == Once!Spec

---------------------------------------------------------------------------
(* Liveness.                                                               *)

(* A reservation whose call died before the gantry started is given back:  *)
(* the recovery closes the movement and frees its bins.                    *)
AbandonedReservationIsReleased ==
    \A m \in Calls :
        (At(m, "dead") /\ Recoverable(m)) ~>
            /\ movement[m].status \in Terminal
            /\ movement[m].type = "PUTAWAY" =>
                 \A b \in Bins : ~(owner[b] = m /\ binStatus[b] = "RESERVED")

(* A checkout request is always answered: lease, gantry, photo check and   *)
(* recovery each end its waits.                                            *)
EveryRetrievalEnds ==
    \A r \in Calls :
        (call[r].kind = "retrieve" /\ ~At(r, "idle")) ~> call[r].pc \in {"done", "dead"}

============================================================================
