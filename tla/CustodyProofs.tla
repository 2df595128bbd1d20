--------------------------- MODULE CustodyProofs ---------------------------
(***************************************************************************)
(* Theorems about Custody, for every set of bins, calls and keys.          *)
(***************************************************************************)
EXTENDS Custody, TLAPS

(* Everything that happens on account of one call or its movement.         *)
Step(r) == CallStep(r) \/ MachineStep(r) \/ VerificationStep(r) \/ RecoveryStep(r)

---------------------------------------------------------------------------
(* What the updates of the call and of its movement leave alone.           *)

CallFrame(r) ==
    /\ call' \in [Calls -> CallState]
    /\ \A q \in Calls : /\ call'[q].kind = call[q].kind
                        /\ q # r => call'[q] = call[q]

MovementFrame(r) ==
    /\ movement' \in [Calls -> MovementRow]
    /\ \A m \in Calls : m # r => movement'[m] = movement[m]

(* Goto changes the program counter of one call.                           *)
LEMMA GotoFrame ==
  ASSUME call \in [Calls -> CallState], NEW r \in Calls, NEW pc \in PC, Goto(r, pc)
  PROVE  /\ CallFrame(r)
         /\ call'[r].pc = pc
         /\ call'[r].key = call[r].key
         /\ call'[r].bin = call[r].bin
         /\ call'[r].carried = call[r].carried
  BY DEF Goto, CallState, CallFrame

(* Carried does that, and records the trip.                                *)
LEMMA CarriedFrame ==
  ASSUME call \in [Calls -> CallState], NEW r \in Calls, NEW pc \in PC, Carried(r, pc)
  PROVE  /\ CallFrame(r)
         /\ call'[r].pc = pc
         /\ call'[r].key = call[r].key
         /\ call'[r].bin = call[r].bin
         /\ call'[r].carried = TRUE
  BY ZenonT(60) DEF Carried, CallState, CallFrame

(* A new status leaves the rest of the row, and its key, as they are.      *)
LEMMA SetMovementFrame ==
  ASSUME movement \in [Calls -> MovementRow], NEW r \in Calls,
         NEW status \in MovementStatus, SetMovement(r, status)
  PROVE  /\ MovementFrame(r)
         /\ movement'[r].key = movement[r].key
         /\ movement'[r].bin = movement[r].bin
         /\ movement'[r].type = movement[r].type
  BY DEF SetMovement, MovementRow, MovementFrame

(* So does a conditional one.                                              *)
LEMMA MoveOnFrame ==
  ASSUME movement \in [Calls -> MovementRow], NEW r \in Calls,
         NEW from, NEW status \in MovementStatus, MoveOn(r, from, status)
  PROVE  /\ MovementFrame(r)
         /\ movement'[r].key = movement[r].key
         /\ movement'[r].bin = movement[r].bin
         /\ movement'[r].type = movement[r].type
  BY DEF MoveOn, MovementRow, MovementFrame

(* Closing a movement frees its key.                                       *)
LEMMA CloseMovementFrame ==
  ASSUME movement \in [Calls -> MovementRow], NEW r \in Calls,
         NEW status \in MovementStatus, CloseMovement(r, status)
  PROVE  /\ MovementFrame(r)
         /\ movement'[r].key = NoKey
         /\ movement'[r].bin = movement[r].bin
         /\ movement'[r].type = movement[r].type
  <1>1. NoKey \in IdempotencyKeys
    BY DEF IdempotencyKeys
  <1> QED
    BY <1>1, ZenonT(60) DEF CloseMovement, MovementRow, MovementFrame

(* A new movement replaces the empty row.                                  *)
LEMMA CreateMovementFrame ==
  ASSUME movement \in [Calls -> MovementRow], NEW r \in Calls,
         NEW row \in MovementRow, CreateMovement(r, row)
  PROVE  MovementFrame(r) /\ movement'[r] = row
  BY DEF CreateMovement, MovementFrame

(* The fields of a call have the types of CallState.                       *)
LEMMA CallFields ==
  ASSUME call \in [Calls -> CallState], NEW r \in Calls
  PROVE  /\ call[r].pc \in PC
         /\ call[r].kind \in AllKinds
         /\ call[r].key \in IdempotencyKeys
         /\ call[r].bin \in Bins \cup {NoBin}
         /\ call[r].src \in Bins \cup {NoBin}
         /\ call[r].orig \in BinStatus
         /\ call[r].base \in Quantities
  BY DEF CallState

---------------------------------------------------------------------------
(* Typing.  A call that is under way, and a movement that exists, names a  *)
(* bin: without it the values read from the tables would have no type.     *)

NamesBin(r) ==
    /\ call[r].pc \notin {"idle", "done", "dead"} => call[r].bin \in Bins
    /\ movement[r].type # "NONE" => movement[r].bin \in Bins

Typing == TypeOK /\ \A r \in Calls : NamesBin(r)

LEMMA InitTyping == Init => Typing
  <1> SUFFICES ASSUME Init PROVE Typing
    OBVIOUS
  <1>1. 0 \in Quantities
    BY ConstantsAssumption DEF Quantities
  <1>2. NoKey \in IdempotencyKeys
    BY DEF IdempotencyKeys
  <1>3. call \in [Calls -> CallState]
    <2>1. \A kind \in Kinds : IdleCall(kind) \in CallState
      <3>1. Kinds \subseteq AllKinds
        BY ConstantsAssumption
      <3> QED
        BY <3>1, <1>1, <1>2 DEF IdleCall, CallState, PC, BinStatus
    <2> QED
      BY <2>1 DEF Init
  <1>4. movement \in [Calls -> MovementRow]
    <2>1. NoMovement \in MovementRow
      BY <1>1, <1>2 DEF NoMovement, MovementRow, MovementStatus
    <2> QED
      BY <2>1 DEF Init
  <1>5. capture \in [Calls -> CaptureRow]
    <2>1. [status |-> "NONE", count |-> 0] \in CaptureRow
      BY <1>1 DEF CaptureRow
    <2> QED
      BY <2>1 DEF Init
  <1>6. stock \in [Bins -> Quantities \cup {NoRow}]
    BY ConstantsAssumption DEF Init, Quantities, NoRow
  <1>7. /\ binStatus \in [Bins -> BinStatus]
        /\ place \in [Bins -> Places]
        /\ owner \in [Bins -> Calls \cup {NoCall}]
    BY DEF Init, BinStatus, Places
  <1>8. adjustments \in 0 .. MaxAdjustments
    BY ConstantsAssumption DEF Init
  <1>9. TypeOK
    BY <1>3, <1>4, <1>5, <1>6, <1>7, <1>8 DEF Init, TypeOK
  <1>10. \A r \in Calls : NamesBin(r)
    BY DEF Init, NamesBin, NoMovement, IdleCall
  <1> QED
    BY <1>9, <1>10 DEF Typing

(* A step of r changes call r only, whose kind it keeps, and call r still  *)
(* names a bin while it is under way.                                      *)
CallEffect(r) ==
    /\ CallFrame(r)
    /\ call'[r].pc \notin {"idle", "done", "dead"} => call'[r].bin \in Bins

(* Planning fills in the whole call.                                       *)
LEMMA PlannedFrame ==
  ASSUME call \in [Calls -> CallState], NEW r \in Calls, NEW b \in Bins,
         NEW s \in Bins \cup {NoBin}, NEW key \in IdempotencyKeys, NEW orig \in BinStatus,
         NEW base \in Quantities, NEW checked \in BOOLEAN,
         Planned(r, key, b, s, orig, base, checked)
  PROVE  /\ CallFrame(r)
         /\ call'[r].pc = "claim"
         /\ call'[r].key = key
         /\ call'[r].bin = b
         /\ call'[r].carried = FALSE
  <1> DEFINE row == [pc |-> "claim", kind |-> call[r].kind, key |-> key, bin |-> b,
                     src |-> s, orig |-> orig, base |-> base, leg |-> "out",
                     checked |-> checked, carried |-> FALSE]
  <1>1. call[r].kind \in AllKinds
    BY CallFields
  <1>2. row \in CallState
    BY <1>1 DEF CallState, PC
  <1>3. call' = [call EXCEPT ![r] = row]
    BY DEF Planned
  <1>4. row.pc = "claim" /\ row.kind = call[r].kind /\ row.key = key /\ row.bin = b
        /\ row.carried = FALSE
    OBVIOUS
  <1> QED
    <2> HIDE DEF row
    <2> QED
      BY <1>2, <1>3, <1>4 DEF CallFrame

LEMMA BeginCallEffect ==
  ASSUME Typing, NEW r \in Calls, NEW b \in Bins, NEW s \in Bins \cup {NoBin},
         NEW k \in Keys, NEW v \in BOOLEAN,
         RetrievalBegin(r, b, k, v) \/ PutawayBegin(r, b, s, k) \/ GuidedBegin(r, b, k)
  PROVE  CallEffect(r)
  <1>1. /\ call \in [Calls -> CallState]
        /\ stock[b] \in Quantities \cup {NoRow}
        /\ binStatus[b] \in BinStatus
        /\ s \in Bins => stock[s] \in Quantities \cup {NoRow}
    BY DEF Typing, TypeOK
  <1>2. /\ <<"retrieval", k>> \in IdempotencyKeys
        /\ <<"scan", k>> \in IdempotencyKeys
        /\ "OCCUPIED" \in BinStatus
        /\ "done" \in PC
    BY DEF IdempotencyKeys, PC, BinStatus
  <1>3. /\ stock[b] <= 0 \/ stock[b] \in Quantities
        /\ Held(b) \in Quantities
        /\ s \in Bins => Held(s) \in Quantities
        /\ 0 \in Quantities
    BY <1>1, ConstantsAssumption DEF Held, Quantities, NoRow
  <1>4. CASE Goto(r, "done")
    BY <1>1, <1>2, <1>4, GotoFrame DEF CallEffect
  <1>5. CASE RetrievalBegin(r, b, k, v)
    <2>1. \/ Goto(r, "done")
          \/ /\ stock[b] \in Quantities
             /\ \/ Planned(r, <<"retrieval", k>>, b, NoBin, "OCCUPIED", stock[b], TRUE)
                \/ Planned(r, <<"retrieval", k>>, b, NoBin, "OCCUPIED", stock[b], FALSE)
      <3>1. v = TRUE \/ v = FALSE
        OBVIOUS
      <3> QED
        BY <1>3, <1>5, <3>1 DEF RetrievalBegin
    <2> QED
      BY <1>1, <1>2, <1>4, <2>1, PlannedFrame DEF CallEffect
  <1>6. CASE PutawayBegin(r, b, s, k)
    <2>1. Held(IF s = NoBin THEN b ELSE s) \in Quantities
      BY <1>3
    <2> QED
      BY <1>1, <1>2, <1>4, <1>6, <2>1, PlannedFrame DEF PutawayBegin, CallEffect
  <1>7. CASE GuidedBegin(r, b, k)
    BY <1>1, <1>2, <1>3, <1>4, <1>7, PlannedFrame DEF GuidedBegin, CallEffect
  <1> QED
    BY <1>5, <1>6, <1>7

(* The steps that only move the program counter of a call under way.       *)
LEMMA StepCallEffect ==
  ASSUME Typing, NEW r \in Calls, Step(r)
  PROVE  CallEffect(r)
  <1>1. call \in [Calls -> CallState] /\ NamesBin(r)
    BY DEF Typing, TypeOK
  <1>2. ASSUME NEW pc \in PC, Goto(r, pc) \/ Carried(r, pc),
               call[r].pc \notin {"idle", "done", "dead"} \/ pc \in {"done", "dead"}
        PROVE  CallEffect(r)
    BY <1>1, <1>2, GotoFrame, CarriedFrame DEF CallEffect, NamesBin
  <1>3. CASE UNCHANGED call
    BY <1>1, <1>3 DEF CallEffect, CallFrame, NamesBin
  <1>4. CASE RetrievalStep(r)
    <2>1. CASE RetrievalClaim(r)
      BY <1>2, <2>1 DEF RetrievalClaim, At, PC
    <2>2. CASE RetrievalRun(r)
      BY <1>2, <2>2 DEF RetrievalRun, At, PC
    <2>3. CASE RetrievalRelease(r)
      BY <1>2, <2>3 DEF RetrievalRelease, At, PC
    <2>4. CASE RetrievalUncertain(r)
      BY <1>2, <2>4 DEF RetrievalUncertain, At, PC
    <2>5. CASE RetrievalCheckout(r)
      BY <1>2, <2>5 DEF RetrievalCheckout, At, PC
    <2>6. CASE RetrievalComplete(r)
      BY <1>2, <2>6 DEF RetrievalComplete, At, PC
    <2>7. CASE CheckoutCheckExpires(r)
      BY <1>2, <2>7 DEF CheckoutCheckExpires, At, PC
    <2>8. CASE RetrievalVerificationFailed(r)
      BY <1>2, <2>8 DEF RetrievalVerificationFailed, At, PC
    <2> QED
      BY <1>4, <2>1, <2>2, <2>3, <2>4, <2>5, <2>6, <2>7, <2>8, BeginCallEffect DEF RetrievalStep
  <1>5. CASE PutawayStep(r)
    <2>1. CASE PutawayClaim(r)
      BY <1>2, <2>1 DEF PutawayClaim, At, PC
    <2>2. CASE ReturnClaim(r)
      <3>1. CASE call' = [call EXCEPT ![r].pc = "await", ![r].base = stock[call[r].bin]]
                 /\ stock[call[r].bin] \in Quantities
        <4>1. "await" \in PC
          BY DEF PC
        <4>2. CallFrame(r) /\ call'[r].bin = call[r].bin
          BY <1>1, <3>1, <4>1, ZenonT(60) DEF CallFrame, CallState
        <4> QED
          BY <1>1, <2>2, <4>2 DEF CallEffect, NamesBin, ReturnClaim, At
      <3>2. stock[call[r].bin] \in Quantities \cup {NoRow}
        BY <1>1, <2>2 DEF NamesBin, ReturnClaim, At, Typing, TypeOK
      <3> QED
        BY <1>2, <2>2, <3>1, <3>2 DEF ReturnClaim, PC
    <2>3. CASE PutawayRun(r)
      BY <1>2, <2>3 DEF PutawayRun, At, PC
    <2>4. CASE PutawayRelease(r)
      BY <1>2, <2>4 DEF PutawayRelease, At, PC
    <2>5. CASE PutawayUncertain(r)
      BY <1>2, <2>5 DEF PutawayUncertain, At, PC
    <2>6. CASE PutawayCommit(r)
      BY <1>2, <2>6 DEF PutawayCommit, At, PC
    <2>7. ASSUME NEW b \in Bins, ReturnBegin(r, b)
          PROVE  CallEffect(r)
      <3>1. NoKey \in IdempotencyKeys /\ "CHECKED_OUT" \in BinStatus /\ 0 \in Quantities
        BY ConstantsAssumption DEF IdempotencyKeys, BinStatus, Quantities
      <3>2. CASE Planned(r, NoKey, b, NoBin, "CHECKED_OUT", 0, TRUE)
        BY <1>1, <3>1, <3>2, PlannedFrame DEF CallEffect
      <3> QED
        BY <1>2, <2>7, <3>2 DEF ReturnBegin, PC
    <2>8. ASSUME NEW b \in Bins, NEW s \in Bins \cup {NoBin}, NEW k \in Keys,
                 PutawayBegin(r, b, s, k)
          PROVE  CallEffect(r)
      BY <2>8, BeginCallEffect
    <2> QED
      BY <1>5, <2>1, <2>2, <2>3, <2>4, <2>5, <2>6, <2>7, <2>8 DEF PutawayStep
  <1>6. CASE GuidedStep(r)
    <2>1. CASE GuidedPrepare(r)
      BY <1>2, <2>1 DEF GuidedPrepare, At, PC
    <2>2. CASE PresentClaim(r)
      <3>1. CASE call' = [call EXCEPT ![r].pc = "dispatch", ![r].leg = "out"]
        <4>1. "dispatch" \in PC
          BY DEF PC
        <4>2. CallFrame(r) /\ call'[r].bin = call[r].bin
          BY <1>1, <3>1, <4>1, ZenonT(60) DEF CallFrame, CallState
        <4> QED
          BY <1>1, <2>2, <4>2 DEF CallEffect, NamesBin, PresentClaim, At
      <3> QED
        BY <1>2, <2>2, <3>1 DEF PresentClaim, PC
    <2>3. CASE Presented(r)
      BY <1>2, <2>3 DEF Presented, At, PC
    <2>4. ASSUME NEW placed \in BOOLEAN, PlacementDecided(r, placed)
          PROVE  CallEffect(r)
      <3>1. CallFrame(r) /\ call'[r].bin = call[r].bin
        <4>1. {"await", "decided"} \subseteq PC
          BY DEF PC
        <4>2. \/ call' = [call EXCEPT ![r].pc = "await", ![r].leg = "back", ![r].checked = TRUE]
              \/ call' = [call EXCEPT ![r].pc = "decided", ![r].leg = "back", ![r].checked = FALSE]
          <5>1. placed = TRUE \/ placed = FALSE
            OBVIOUS
          <5> QED
            BY <2>4, <5>1 DEF PlacementDecided
        <4> QED
          BY <1>1, <4>1, <4>2 DEF CallFrame, CallState
      <3> QED
        BY <1>1, <2>4, <3>1 DEF CallEffect, NamesBin, PlacementDecided, At
    <2>5. CASE PlacementPhotoRequired(r)
      BY <1>2, <2>5 DEF PlacementPhotoRequired, At, PC
    <2>6. CASE GuidedReturnClaim(r)
      BY <1>2, <2>6 DEF GuidedReturnClaim, At, PC
    <2>7. CASE GuidedBusy(r)
      BY <1>2, <2>7 DEF GuidedBusy, At, PC
    <2>8. CASE GuidedRefused(r)
      BY <1>2, <2>8 DEF GuidedRefused, At, PC
    <2>9. CASE GuidedFailed(r)
      BY <1>2, <2>9 DEF GuidedFailed, At, PC
    <2>10. CASE Returned(r)
      BY <1>2, <2>10 DEF Returned, At, PC
    <2>11. CASE GuidedCommit(r)
      BY <1>2, <2>11 DEF GuidedCommit, At, PC
    <2> QED
      BY <1>6, <2>1, <2>2, <2>3, <2>4, <2>5, <2>6, <2>7, <2>8, <2>9, <2>10, <2>11, BeginCallEffect DEF GuidedStep
  <1>7. CASE MachineStep(r)
    <2>1. CASE StartMove(r)
      BY <1>2, <2>1 DEF StartMove, At, PC
    <2>2. CASE RefuseMove(r)
      BY <1>2, <2>2 DEF RefuseMove, At, PC
    <2>3. CASE FinishMove(r)
      BY <1>2, <2>3 DEF FinishMove, At, PC
    <2>4. CASE FailMove(r)
      BY <1>2, <2>4 DEF FailMove, At, PC
    <2>5. CASE LoseMove(r)
      BY <1>2, <2>5 DEF LoseMove, At, PC
    <2>6. CASE Crash(r)
      BY <1>2, <2>6 DEF Crash, At, PC
    <2>7. CASE LeaseExpires(r)
      BY <1>2, <2>7 DEF LeaseExpires, At, PC
    <2> QED
      BY <1>7, <2>1, <2>2, <2>3, <2>4, <2>5, <2>6, <2>7 DEF MachineStep
  <1>8. CASE VerificationStep(r)
    <2>1. CASE RequireVerification(r)
      BY <1>2, <2>1 DEF RequireVerification, At, PC
    <2>2. CASE VerificationUnavailable(r)
      BY <1>2, <2>2 DEF VerificationUnavailable, At, PC
    <2>3. CASE AcceptCapture(r)
      BY <1>3, <2>3 DEF AcceptCapture
    <2>4. CASE CancelCapture(r)
      BY <1>3, <2>4 DEF CancelCapture
    <2>5. CASE SeeDecision(r)
      BY <1>2, <2>5 DEF SeeDecision, At, PC
    <2>6. CASE AutomaticAcceptFails(r)
      BY <1>2, <2>6 DEF AutomaticAcceptFails, At, PC
    <2>7. CASE CaptureTimesOut(r)
      BY <1>2, <2>7 DEF CaptureTimesOut, At, PC
    <2>8. CASE CloseTimedOutMovement(r)
      BY <1>2, <2>8 DEF CloseTimedOutMovement, At, PC
    <2> QED
      BY <1>8, <2>1, <2>2, <2>3, <2>4, <2>5, <2>6, <2>7, <2>8 DEF VerificationStep
  <1>9. CASE RecoveryStep(r)
    <2>1. CASE RecoverRetrieval(r)
      BY <1>3, <2>1 DEF RecoverRetrieval
    <2>2. CASE RecoverPutaway(r)
      BY <1>3, <2>2 DEF RecoverPutaway
    <2>3. CASE SweepBeforeMotion(r)
      BY <1>3, <2>3 DEF SweepBeforeMotion
    <2>4. CASE SweepOffShelf(r)
      BY <1>3, <2>4 DEF SweepOffShelf
    <2> QED
      BY <1>9, <2>1, <2>2, <2>3, <2>4 DEF RecoveryStep
  <1> QED
    BY <1>4, <1>5, <1>6, <1>7, <1>8, <1>9 DEF Step, CallStep

(* A step of r changes movement r only, which names a bin once it exists   *)
(* and whose key stays, is freed, or was nobody's.                         *)
MovementEffect(r) ==
    /\ MovementFrame(r)
    /\ movement'[r].type # "NONE" => movement'[r].bin \in Bins
    /\ movement'[r].key \in {movement[r].key, NoKey} \/ ~KeyTaken(movement'[r].key)

LEMMA StepMovementEffect ==
  ASSUME Typing, NEW r \in Calls, Step(r)
  PROVE  MovementEffect(r)
  <1>1. movement \in [Calls -> MovementRow] /\ call \in [Calls -> CallState] /\ NamesBin(r)
    BY DEF Typing, TypeOK
  <1>2. ASSUME NEW status \in MovementStatus,
               \/ SetMovement(r, status) \/ CloseMovement(r, status)
               \/ \E from \in MovementStatus : MoveOn(r, from, status)
        PROVE  MovementEffect(r)
    BY <1>1, <1>2, SetMovementFrame, CloseMovementFrame, MoveOnFrame DEF MovementEffect, NamesBin
  <1>3. CASE UNCHANGED movement
    BY <1>1, <1>3 DEF MovementEffect, MovementFrame, NamesBin
  <1>4. ASSUME NEW row \in MovementRow, CreateMovement(r, row), row.bin \in Bins,
               row.key = NoKey \/ ~KeyTaken(row.key)
        PROVE  MovementEffect(r)
    BY <1>1, <1>4, CreateMovementFrame DEF MovementEffect
  <1>5. CASE RetrievalStep(r)
    <2>1. CASE RetrievalClaim(r)
      <3> DEFINE row == [status |-> "VALIDATED", type |-> "RETRIEVAL", bin |-> call[r].bin,
                       src |-> NoBin, from |-> "NONE", prev |-> call[r].base,
                       key |-> call[r].key]
      <3>1. CASE CreateMovement(r, row) /\ ~KeyTaken(call[r].key)
        <4>1. call[r].bin \in Bins
          BY <1>1, <2>1 DEF RetrievalClaim, At, NamesBin
        <4>2. row \in MovementRow
          <5>1. NoKey \in IdempotencyKeys /\ 0 \in Quantities
            BY ConstantsAssumption DEF IdempotencyKeys, Quantities
          <5>2. /\ call[r].key \in IdempotencyKeys /\ call[r].base \in Quantities
                /\ call[r].src \in Bins \cup {NoBin}
            BY <1>1, CallFields
          <5> QED
            BY <3>1, <4>1, <5>1, <5>2 DEF MovementRow, MovementStatus
        <4>3. row.bin = call[r].bin /\ row.key = call[r].key
          OBVIOUS
        <4> HIDE DEF row
        <4> QED
          BY <1>4, <3>1, <4>1, <4>2, <4>3
      <3> QED
        BY <1>3, <2>1, <3>1 DEF RetrievalClaim
    <2>2. CASE RetrievalRun(r)
      BY <1>2, <1>3, <2>2 DEF RetrievalRun, MovementStatus
    <2>3. CASE RetrievalRelease(r)
      BY <1>2, <1>3, <2>3 DEF RetrievalRelease, MovementStatus
    <2>4. CASE RetrievalUncertain(r)
      BY <1>2, <1>3, <2>4 DEF RetrievalUncertain, MovementStatus
    <2>5. CASE RetrievalCheckout(r)
      BY <1>2, <1>3, <2>5 DEF RetrievalCheckout, MovementStatus
    <2>6. CASE RetrievalComplete(r)
      BY <1>2, <1>3, <2>6 DEF RetrievalComplete, MovementStatus
    <2>7. CASE CheckoutCheckExpires(r)
      BY <1>3, <2>7 DEF CheckoutCheckExpires
    <2>8. CASE RetrievalVerificationFailed(r)
      BY <1>2, <1>3, <2>8 DEF RetrievalVerificationFailed, MovementStatus
    <2>9. CASE \E b \in Bins, k \in Keys, v \in BOOLEAN : RetrievalBegin(r, b, k, v)
      BY <1>3, <2>9 DEF RetrievalBegin
    <2> QED
      BY <1>5, <2>1, <2>2, <2>3, <2>4, <2>5, <2>6, <2>7, <2>8, <2>9 DEF RetrievalStep
  <1>6. CASE PutawayStep(r)
    <2>1. CASE PutawayClaim(r)
      <3> DEFINE row == [status |-> "VALIDATED", type |-> "PUTAWAY", bin |-> call[r].bin,
                       src |-> call[r].src, from |-> IF Returning(r) THEN "OUTPUT" ELSE "INTAKE",
                       prev |-> call[r].base, key |-> call[r].key]
      <3>1. CASE CreateMovement(r, row) /\ ~KeyTaken(call[r].key)
        <4>1. call[r].bin \in Bins
          BY <1>1, <2>1 DEF PutawayClaim, At, NamesBin
        <4>2. row \in MovementRow
          <5>1. NoKey \in IdempotencyKeys /\ 0 \in Quantities
            BY ConstantsAssumption DEF IdempotencyKeys, Quantities
          <5>2. /\ call[r].key \in IdempotencyKeys /\ call[r].base \in Quantities
                /\ call[r].src \in Bins \cup {NoBin}
            BY <1>1, CallFields
          <5> QED
            BY <3>1, <4>1, <5>1, <5>2 DEF MovementRow, MovementStatus
        <4>3. row.bin = call[r].bin /\ row.key = call[r].key
          OBVIOUS
        <4> HIDE DEF row
        <4> QED
          BY <1>4, <3>1, <4>1, <4>2, <4>3
      <3> QED
        BY <1>3, <2>1, <3>1 DEF PutawayClaim
    <2>2. CASE ReturnClaim(r)
      <3> DEFINE row == [status |-> "VALIDATED", type |-> "PUTAWAY", bin |-> call[r].bin,
                       src |-> NoBin, from |-> "OUTPUT", prev |-> stock[call[r].bin], key |-> NoKey]
      <3>1. CASE CreateMovement(r, row) /\ stock[call[r].bin] \in Quantities
        <4>1. call[r].bin \in Bins
          BY <1>1, <2>2 DEF ReturnClaim, At, NamesBin
        <4>2. row \in MovementRow
          <5>1. NoKey \in IdempotencyKeys /\ 0 \in Quantities
            BY ConstantsAssumption DEF IdempotencyKeys, Quantities
          <5>2. /\ call[r].key \in IdempotencyKeys /\ call[r].base \in Quantities
                /\ call[r].src \in Bins \cup {NoBin}
            BY <1>1, CallFields
          <5> QED
            BY <3>1, <4>1, <5>1, <5>2 DEF MovementRow, MovementStatus
        <4>3. row.bin = call[r].bin /\ row.key = NoKey
          OBVIOUS
        <4> HIDE DEF row
        <4> QED
          BY <1>4, <3>1, <4>1, <4>2, <4>3
      <3>2. stock[call[r].bin] \in Quantities \cup {NoRow}
        BY <1>1, <2>2 DEF NamesBin, ReturnClaim, At, Typing, TypeOK
      <3> QED
        BY <1>3, <2>2, <3>1, <3>2 DEF ReturnClaim
    <2>3. CASE PutawayRun(r)
      BY <1>2, <1>3, <2>3 DEF PutawayRun, MovementStatus
    <2>4. CASE PutawayRelease(r)
      BY <1>2, <1>3, <2>4 DEF PutawayRelease, MovementStatus
    <2>5. CASE PutawayUncertain(r)
      BY <1>2, <1>3, <2>5 DEF PutawayUncertain, MovementStatus
    <2>6. CASE PutawayCommit(r)
      BY <1>2, <1>3, <2>6 DEF PutawayCommit, MovementStatus
    <2>7. CASE \/ \E b \in Bins, s \in Bins \cup {NoBin}, k \in Keys : PutawayBegin(r, b, s, k)
              \/ \E b \in Bins : ReturnBegin(r, b)
      BY <1>3, <2>7 DEF PutawayBegin, ReturnBegin
    <2> QED
      BY <1>6, <2>1, <2>2, <2>3, <2>4, <2>5, <2>6, <2>7 DEF PutawayStep
  <1>7. CASE GuidedStep(r)
    <2>1. CASE GuidedPrepare(r)
      <3> DEFINE row == [status |-> "VALIDATED", type |-> "PUTAWAY", bin |-> call[r].bin,
                       src |-> NoBin, from |-> "INTAKE", prev |-> 0, key |-> call[r].key]
      <3>1. CASE CreateMovement(r, row) /\ ~KeyTaken(call[r].key)
        <4>1. call[r].bin \in Bins
          BY <1>1, <2>1 DEF GuidedPrepare, At, NamesBin
        <4>2. row \in MovementRow
          <5>1. NoKey \in IdempotencyKeys /\ 0 \in Quantities
            BY ConstantsAssumption DEF IdempotencyKeys, Quantities
          <5>2. /\ call[r].key \in IdempotencyKeys /\ call[r].base \in Quantities
                /\ call[r].src \in Bins \cup {NoBin}
            BY <1>1, CallFields
          <5> QED
            BY <3>1, <4>1, <5>1, <5>2 DEF MovementRow, MovementStatus
        <4>3. row.bin = call[r].bin /\ row.key = call[r].key
          OBVIOUS
        <4> HIDE DEF row
        <4> QED
          BY <1>4, <3>1, <4>1, <4>2, <4>3
      <3> QED
        BY <1>3, <2>1, <3>1 DEF GuidedPrepare
    <2>2. CASE PresentClaim(r)
      BY <1>2, <1>3, <2>2 DEF PresentClaim, MovementStatus
    <2>3. CASE Presented(r)
      BY <1>2, <1>3, <2>3 DEF Presented, MovementStatus
    <2>4. CASE PlacementPhotoRequired(r)
      BY <1>3, <2>4 DEF PlacementPhotoRequired
    <2>5. CASE GuidedReturnClaim(r)
      BY <1>2, <1>3, <2>5 DEF GuidedReturnClaim, MovementStatus
    <2>6. CASE GuidedBusy(r)
      BY <1>2, <1>3, <2>6 DEF GuidedBusy, MovementStatus
    <2>7. CASE GuidedRefused(r)
      BY <1>2, <1>3, <2>7 DEF GuidedRefused, MovementStatus
    <2>8. CASE GuidedFailed(r)
      BY <1>2, <1>3, <2>8 DEF GuidedFailed, MovementStatus
    <2>9. CASE Returned(r)
      BY <1>2, <1>3, <2>9 DEF Returned, MovementStatus
    <2>10. CASE GuidedCommit(r)
      BY <1>2, <1>3, <2>10 DEF GuidedCommit, MovementStatus
    <2>11. CASE \/ \E b \in Bins, k \in Keys : GuidedBegin(r, b, k)
               \/ \E placed \in BOOLEAN : PlacementDecided(r, placed)
      BY <1>3, <2>11 DEF GuidedBegin, PlacementDecided
    <2> QED
      BY <1>7, <2>1, <2>2, <2>3, <2>4, <2>5, <2>6, <2>7, <2>8, <2>9, <2>10, <2>11 DEF GuidedStep
  <1>8. CASE MachineStep(r)
    <2>1. CASE StartMove(r)
      BY <1>3, <2>1 DEF StartMove
    <2>2. CASE RefuseMove(r)
      BY <1>3, <2>2 DEF RefuseMove
    <2>3. CASE FinishMove(r)
      BY <1>3, <2>3 DEF FinishMove
    <2>4. CASE FailMove(r)
      BY <1>3, <2>4 DEF FailMove
    <2>5. CASE LoseMove(r)
      BY <1>3, <2>5 DEF LoseMove
    <2>6. CASE Crash(r)
      BY <1>3, <2>6 DEF Crash
    <2>7. CASE LeaseExpires(r)
      BY <1>3, <2>7 DEF LeaseExpires
    <2> QED
      BY <1>8, <2>1, <2>2, <2>3, <2>4, <2>5, <2>6, <2>7 DEF MachineStep
  <1>9. CASE VerificationStep(r)
    <2>1. CASE RequireVerification(r)
      BY <1>3, <2>1 DEF RequireVerification
    <2>2. CASE VerificationUnavailable(r)
      BY <1>3, <2>2 DEF VerificationUnavailable
    <2>3. CASE AcceptCapture(r)
      BY <1>3, <2>3 DEF AcceptCapture
    <2>4. CASE CancelCapture(r)
      BY <1>3, <2>4 DEF CancelCapture
    <2>5. CASE SeeDecision(r)
      BY <1>3, <2>5 DEF SeeDecision
    <2>6. CASE AutomaticAcceptFails(r)
      BY <1>3, <2>6 DEF AutomaticAcceptFails
    <2>7. CASE CaptureTimesOut(r)
      BY <1>3, <2>7 DEF CaptureTimesOut
    <2>8. CASE CloseTimedOutMovement(r)
      BY <1>2, <1>3, <2>8 DEF CloseTimedOutMovement, MovementStatus
    <2> QED
      BY <1>9, <2>1, <2>2, <2>3, <2>4, <2>5, <2>6, <2>7, <2>8 DEF VerificationStep
  <1>10. CASE RecoveryStep(r)
    <2>1. CASE RecoverRetrieval(r)
      BY <1>2, <1>3, <2>1 DEF RecoverRetrieval, MovementStatus
    <2>2. CASE RecoverPutaway(r)
      BY <1>2, <1>3, <2>2 DEF RecoverPutaway, MovementStatus
    <2>3. CASE SweepBeforeMotion(r)
      BY <1>2, <1>3, <2>3 DEF SweepBeforeMotion, MovementStatus
    <2>4. CASE SweepOffShelf(r)
      BY <1>2, <1>3, <2>4 DEF SweepOffShelf, MovementStatus
    <2> QED
      BY <1>10, <2>1, <2>2, <2>3, <2>4 DEF RecoveryStep
  <1> QED
    BY <1>5, <1>6, <1>7, <1>8, <1>9, <1>10 DEF Step, CallStep

(* A release writes a status, and trips start and end at places.           *)
LEMMA ReleasedType ==
  ASSUME NEW status \in [Bins -> BinStatus], NEW b, NEW to \in BinStatus
  PROVE  Released(status, b, to) \in [Bins -> BinStatus]
  BY DEF Released

LEMMA TripPlaces ==
  ASSUME NEW r \in Calls
  PROVE  Origin(r) \in Places /\ Target(r) \in Places
  BY DEF Origin, Target, Places

(* The tables and the machine keep their types.                            *)
LEMMA StepTypeOK ==
  ASSUME Typing, NEW r \in Calls, Step(r)
  PROVE  TypeOK'
  <1>1. /\ call' \in [Calls -> CallState]
        /\ movement' \in [Calls -> MovementRow]
    BY StepCallEffect, StepMovementEffect DEF CallEffect, CallFrame, MovementEffect, MovementFrame
  <1>2. TypeOK /\ NamesBin(r) /\ call \in [Calls -> CallState]
    BY DEF Typing, TypeOK
  <1>3. CASE UNCHANGED <<binStatus, stock, capture, place, holder, latched, adjustments, history>>
    BY <1>1, <1>2, <1>3 DEF TypeOK, history
  <1>10. capture[r].count \in Quantities
    BY <1>2 DEF TypeOK, CaptureRow
  <1>4. CASE RetrievalStep(r)
    <2>1. CASE RetrievalClaim(r)
      BY <1>1, <1>2, <2>1 DEF RetrievalClaim, Reserve, BinStatus, TypeOK, history
    <2>2. CASE RetrievalRun(r)
      BY <1>3, <2>2 DEF RetrievalRun
    <2>3. CASE RetrievalRelease(r)
      BY <1>1, <1>2, <2>3, ReleasedType DEF RetrievalRelease, BinStatus, TypeOK, history
    <2>4. CASE RetrievalUncertain(r)
      BY <1>3, <2>4 DEF RetrievalUncertain
    <2>5. CASE RetrievalCheckout(r)
      BY <1>1, <1>2, <2>5 DEF RetrievalCheckout, BinStatus, TypeOK, history
    <2>6. CASE RetrievalComplete(r)
      <3>1. stock' \in [Bins -> Quantities \cup {NoRow}]
        <4>1. stock' = stock \/ stock' = [stock EXCEPT ![call[r].bin] = capture[r].count]
          BY <2>6 DEF RetrievalComplete
        <4> QED
          BY <1>2, <1>10, <4>1 DEF TypeOK
      <3> QED
        BY <1>1, <1>2, <2>6, <3>1 DEF RetrievalComplete, TypeOK, history
    <2>7. CASE CheckoutCheckExpires(r)
      <3>1. capture' \in [Calls -> CaptureRow]
        BY <1>2, <2>7 DEF CheckoutCheckExpires, TypeOK, CaptureRow
      <3> QED
        BY <1>1, <1>2, <2>7, <3>1 DEF CheckoutCheckExpires, TypeOK, history
    <2>8. CASE RetrievalVerificationFailed(r)
      BY <1>3, <2>8 DEF RetrievalVerificationFailed
    <2>9. CASE \E b \in Bins, k \in Keys, v \in BOOLEAN : RetrievalBegin(r, b, k, v)
      BY <1>3, <2>9 DEF RetrievalBegin
    <2> QED
      BY <1>4, <2>1, <2>2, <2>3, <2>4, <2>5, <2>6, <2>7, <2>8, <2>9 DEF RetrievalStep
  <1>5. CASE PutawayStep(r)
    <2>1. CASE PutawayClaim(r)
      BY <1>1, <1>2, <2>1 DEF PutawayClaim, Reserve, BinStatus, TypeOK, history
    <2>2. CASE ReturnClaim(r)
      BY <1>1, <1>2, <2>2 DEF ReturnClaim, Reserve, BinStatus, TypeOK, history
    <2>3. CASE PutawayRun(r)
      BY <1>3, <2>3 DEF PutawayRun
    <2>4. CASE PutawayRelease(r)
      <3>1. binStatus' \in [Bins -> BinStatus]
        <4>1. call[r].orig \in BinStatus /\ "CHECKED_OUT" \in BinStatus
          BY <1>2, CallFields DEF BinStatus
        <4>2. binStatus \in [Bins -> BinStatus]
          BY <1>2 DEF TypeOK
        <4>3. Released(binStatus, call[r].bin, call[r].orig) \in [Bins -> BinStatus]
          BY <4>1, <4>2, ReleasedType
        <4> QED
          BY <2>4, <4>1, <4>3, ReleasedType DEF PutawayRelease
      <3>2. misreleased' \in SUBSET Bins
        BY <1>2, <2>4 DEF PutawayRelease, TypeOK
      <3> QED
        BY <1>1, <1>2, <2>4, <3>1, <3>2 DEF PutawayRelease, TypeOK
    <2>5. CASE PutawayUncertain(r)
      BY <1>3, <2>5 DEF PutawayUncertain
    <2>6. CASE PutawayCommit(r)
      <3>1. /\ stock \in [Bins -> Quantities \cup {NoRow}]
            /\ binStatus \in [Bins -> BinStatus]
        BY <1>2 DEF TypeOK
      <3>2. stock' \in [Bins -> Quantities \cup {NoRow}]
        BY <1>10, <2>6, <3>1 DEF PutawayCommit
      <3>3. binStatus' \in [Bins -> BinStatus]
        BY <2>6, <3>1 DEF PutawayCommit, BinStatus
      <3> QED
        BY <1>1, <1>2, <2>6, <3>2, <3>3 DEF PutawayCommit, TypeOK, history
    <2>7. CASE \/ \E b \in Bins, s \in Bins \cup {NoBin}, k \in Keys : PutawayBegin(r, b, s, k)
              \/ \E b \in Bins : ReturnBegin(r, b)
      BY <1>3, <2>7 DEF PutawayBegin, ReturnBegin
    <2> QED
      BY <1>5, <2>1, <2>2, <2>3, <2>4, <2>5, <2>6, <2>7 DEF PutawayStep
  <1>6. CASE GuidedStep(r)
    <2>1. CASE GuidedPrepare(r)
      BY <1>1, <1>2, <2>1 DEF GuidedPrepare, Reserve, BinStatus, TypeOK, history
    <2>2. CASE PresentClaim(r)
      BY <1>3, <2>2 DEF PresentClaim
    <2>3. CASE Presented(r)
      BY <1>3, <2>3 DEF Presented
    <2>4. CASE PlacementPhotoRequired(r)
      BY <1>3, <2>4 DEF PlacementPhotoRequired
    <2>5. CASE GuidedReturnClaim(r)
      BY <1>3, <2>5 DEF GuidedReturnClaim
    <2>6. CASE GuidedBusy(r)
      BY <1>3, <2>6 DEF GuidedBusy
    <2>7. CASE GuidedRefused(r)
      BY <1>3, <2>7 DEF GuidedRefused
    <2>8. CASE GuidedFailed(r)
      BY <1>3, <2>8 DEF GuidedFailed
    <2>9. CASE Returned(r)
      BY <1>3, <2>9 DEF Returned
    <2>10. CASE GuidedCommit(r)
      <3>1. /\ stock \in [Bins -> Quantities \cup {NoRow}]
            /\ binStatus \in [Bins -> BinStatus]
            /\ call[r].bin \in Bins
        BY <1>2, <2>10 DEF TypeOK, NamesBin, GuidedCommit, At
      <3>2. stock' \in [Bins -> Quantities \cup {NoRow}]
        <4>1. \/ stock' = stock
              \/ /\ Held(call[r].bin) < Capacity
                 /\ stock' = [stock EXCEPT ![call[r].bin] = Held(call[r].bin) + 1]
          BY <2>10 DEF GuidedCommit
        <4>2. Held(call[r].bin) \in Quantities
          BY <3>1, ConstantsAssumption DEF Held, Quantities, NoRow
        <4>3. Held(call[r].bin) < Capacity => Held(call[r].bin) + 1 \in Quantities
          BY <4>2, ConstantsAssumption DEF Quantities
        <4> QED
          BY <3>1, <4>1, <4>3
      <3>3. binStatus' \in [Bins -> BinStatus]
        BY <2>10, <3>1 DEF GuidedCommit, BinStatus
      <3> QED
        BY <1>1, <1>2, <2>10, <3>2, <3>3 DEF GuidedCommit, TypeOK, history
    <2>11. CASE \/ \E b \in Bins, k \in Keys : GuidedBegin(r, b, k)
               \/ \E placed \in BOOLEAN : PlacementDecided(r, placed)
      BY <1>3, <2>11 DEF GuidedBegin, PlacementDecided
    <2> QED
      BY <1>6, <2>1, <2>2, <2>3, <2>4, <2>5, <2>6, <2>7, <2>8, <2>9, <2>10, <2>11 DEF GuidedStep
  <1>7. CASE MachineStep(r)
    <2>1. CASE StartMove(r)
      BY <1>1, <1>2, <2>1 DEF StartMove, TypeOK, history
    <2>2. CASE RefuseMove(r)
      BY <1>3, <2>2 DEF RefuseMove
    <2>3. CASE FinishMove(r)
      BY <1>1, <1>2, <2>3, TripPlaces DEF FinishMove, TypeOK, history
    <2>4. CASE FailMove(r)
      BY <1>1, <1>2, <2>4 DEF FailMove, TypeOK, history
    <2>5. CASE LoseMove(r)
      BY <1>1, <1>2, <2>5, TripPlaces DEF LoseMove, TypeOK, history
    <2>6. CASE Crash(r)
      BY <1>3, <2>6 DEF Crash
    <2>7. CASE LeaseExpires(r)
      BY <1>1, <1>2, <2>7, TripPlaces DEF LeaseExpires, TypeOK, history
    <2> QED
      BY <1>7, <2>1, <2>2, <2>3, <2>4, <2>5, <2>6, <2>7 DEF MachineStep
  <1>8. CASE VerificationStep(r)
    <2>1. CASE RequireVerification(r)
      <3>1. capture' \in [Calls -> CaptureRow]
        BY <1>2, <2>1 DEF RequireVerification, TypeOK, CaptureRow
      <3> QED
        BY <1>1, <1>2, <2>1, <3>1 DEF RequireVerification, TypeOK, history
    <2>2. CASE VerificationUnavailable(r)
      BY <1>3, <2>2 DEF VerificationUnavailable
    <2>3. CASE AcceptCapture(r)
      <3>1. capture' \in [Calls -> CaptureRow]
        BY <1>2, <2>3 DEF AcceptCapture, TypeOK, CaptureRow
      <3> QED
        BY <1>1, <1>2, <2>3, <3>1 DEF AcceptCapture, TypeOK, history
    <2>4. CASE CancelCapture(r)
      <3>1. capture' \in [Calls -> CaptureRow]
        BY <1>2, <2>4 DEF CancelCapture, TypeOK, CaptureRow
      <3> QED
        BY <1>1, <1>2, <2>4, <3>1 DEF CancelCapture, TypeOK, history
    <2>5. CASE SeeDecision(r)
      BY <1>3, <2>5 DEF SeeDecision
    <2>6. CASE AutomaticAcceptFails(r)
      BY <1>3, <2>6 DEF AutomaticAcceptFails
    <2>7. CASE CaptureTimesOut(r)
      <3>1. capture' \in [Calls -> CaptureRow]
        BY <1>2, <2>7 DEF CaptureTimesOut, TypeOK, CaptureRow
      <3> QED
        BY <1>1, <1>2, <2>7, <3>1 DEF CaptureTimesOut, TypeOK, history
    <2>8. CASE CloseTimedOutMovement(r)
      BY <1>3, <2>8 DEF CloseTimedOutMovement
    <2> QED
      BY <1>8, <2>1, <2>2, <2>3, <2>4, <2>5, <2>6, <2>7, <2>8 DEF VerificationStep
  <1>9. CASE RecoveryStep(r)
    <2>1. CASE RecoverRetrieval(r)
      <3>1. capture' \in [Calls -> CaptureRow]
        BY <1>2, <2>1 DEF RecoverRetrieval, FailsCapture, TypeOK, CaptureRow
      <3> QED
        BY <1>1, <1>2, <2>1, <3>1 DEF RecoverRetrieval, TypeOK, history
    <2>2. CASE RecoverPutaway(r)
      <3>1. capture' \in [Calls -> CaptureRow]
        BY <1>2, <2>2 DEF RecoverPutaway, FailsCapture, TypeOK, CaptureRow
      <3>2. binStatus' \in [Bins -> BinStatus]
        <4>1. DestinationStatusBeforeReservation(r) \in BinStatus /\ "CHECKED_OUT" \in BinStatus
          BY DEF DestinationStatusBeforeReservation, BinStatus
        <4>2. binStatus \in [Bins -> BinStatus]
          BY <1>2 DEF TypeOK
        <4>3. Released(binStatus, movement[r].bin, DestinationStatusBeforeReservation(r))
                \in [Bins -> BinStatus]
          BY <4>1, <4>2, ReleasedType
        <4> QED
          BY <2>2, <4>1, <4>3, ReleasedType DEF RecoverPutaway
      <3>3. misreleased' \in SUBSET Bins
        BY <1>2, <2>2 DEF RecoverPutaway, TypeOK, NamesBin
      <3> QED
        BY <1>1, <1>2, <2>2, <3>1, <3>2, <3>3 DEF RecoverPutaway, TypeOK
    <2>3. CASE SweepBeforeMotion(r)
      <3>1. binStatus' \in [Bins -> BinStatus]
        <4>1. {"OCCUPIED", "AVAILABLE"} \subseteq BinStatus
          BY DEF BinStatus
        <4>2. binStatus \in [Bins -> BinStatus]
          BY <1>2 DEF TypeOK
        <4> QED
          BY <2>3, <4>1, <4>2, ReleasedType DEF SweepBeforeMotion
      <3>2. misreleased' \in SUBSET Bins
        BY <1>2, <2>3 DEF SweepBeforeMotion, TypeOK, NamesBin
      <3> QED
        BY <1>1, <1>2, <2>3, <3>1, <3>2 DEF SweepBeforeMotion, TypeOK
    <2>4. CASE SweepOffShelf(r)
      BY <1>3, <2>4 DEF SweepOffShelf
    <2> QED
      BY <1>9, <2>1, <2>2, <2>3, <2>4 DEF RecoveryStep
  <1> QED
    BY <1>4, <1>5, <1>6, <1>7, <1>8, <1>9 DEF Step, CallStep

(* The steps of nobody's call.                                             *)
LEMMA AdjustmentTypeOK ==
  ASSUME Typing, NEW b \in Bins, NEW n \in 1 .. Capacity,
         AddStock(b, n) \/ RemoveStock(b, n)
  PROVE  TypeOK'
  <1>1. /\ TypeOK
        /\ stock \in [Bins -> Quantities \cup {NoRow}]
        /\ binStatus \in [Bins -> BinStatus]
        /\ adjustments \in 0 .. MaxAdjustments
    BY DEF Typing, TypeOK
  <1>2. adjustments' \in 0 .. MaxAdjustments
    BY <1>1, ConstantsAssumption DEF AddStock, RemoveStock
  <1>3. binStatus' \in [Bins -> BinStatus]
    BY <1>1 DEF AddStock, RemoveStock, BinStatus
  <1>4. stock' \in [Bins -> Quantities \cup {NoRow}]
    <2>1. CASE AddStock(b, n)
      <3>1. Held(b) + n \in Quantities
        BY <1>1, <2>1, ConstantsAssumption DEF AddStock, Held, Quantities, NoRow
      <3> QED
        BY <1>1, <2>1, <3>1 DEF AddStock
    <2>2. CASE RemoveStock(b, n)
      <3>1. stock[b] - n \in Quantities
        BY <1>1, <2>2, ConstantsAssumption DEF RemoveStock, Quantities, NoRow
      <3> QED
        BY <1>1, <2>2, <3>1 DEF RemoveStock
    <2> QED
      BY <2>1, <2>2
  <1> QED
    BY <1>1, <1>2, <1>3, <1>4 DEF AddStock, RemoveStock, TypeOK, history

(* Typing is inductive.                                                    *)
LEMMA NextTyping == Typing /\ [Next]_vars => Typing'
  <1> SUFFICES ASSUME Typing, [Next]_vars PROVE Typing'
    OBVIOUS
  <1>1. ASSUME NEW r \in Calls, Step(r)
        PROVE  Typing'
    <2>1. TypeOK'
      BY <1>1, StepTypeOK
    <2>2. ASSUME NEW q \in Calls PROVE NamesBin(q)'
      <3>1. CASE q = r
        BY <1>1, <3>1, StepCallEffect, StepMovementEffect DEF CallEffect, MovementEffect, NamesBin
      <3>2. CASE q # r
        BY <1>1, <3>2, StepCallEffect, StepMovementEffect
        DEF CallEffect, CallFrame, MovementEffect, MovementFrame, NamesBin, Typing
      <3> QED
        BY <3>1, <3>2
    <2> QED
      BY <2>1, <2>2 DEF Typing
  <1>2. CASE Reconcile
    BY <1>2 DEF Reconcile, Typing, TypeOK, NamesBin, history
  <1>3. ASSUME NEW b \in Bins, NEW n \in 1 .. Capacity, AddStock(b, n) \/ RemoveStock(b, n)
        PROVE  Typing'
    BY <1>3, AdjustmentTypeOK DEF AddStock, RemoveStock, Typing, NamesBin
  <1>4. CASE UNCHANGED vars
    BY <1>4 DEF vars, Typing, TypeOK, NamesBin
  <1> QED
    BY <1>1, <1>2, <1>3, <1>4 DEF Next, Step

(* Every reachable state is well typed: stock stays within the capacity of *)
(* the bin and no row ever holds a status the code cannot write.           *)
THEOREM TypeCorrect == Spec => []TypeOK
  <1>1. Typing => TypeOK
    BY DEF Typing
  <1> QED
    BY InitTyping, NextTyping, <1>1, PTL DEF Spec

---------------------------------------------------------------------------
(* One trip per checkout request.                                          *)

(* The program counters a step may go to without touching call r's key or  *)
(* its history: it reaches the gantry only from a claim that was made.     *)
Onward(r, pc) ==
    /\ pc # "claim"
    /\ pc \in {"run", "dispatch", "moving"} => call[r].pc \in {"run", "dispatch", "moving"}
    /\ pc \in BeforeTrip => call[r].pc \in BeforeTrip
    /\ holder' = r => pc \in {"moving", "dead"} /\ (holder = r \/ call[r].pc = "dispatch")

(* A step of r by which r's checkout still holds its key, and by which no  *)
(* other call gets the gantry.                                             *)
KeyEffect(r) ==
    /\ HoldsKey(r)'
    /\ holder' = r => call'[r].pc \in {"moving", "dead"}
    /\ \A q \in Calls : q # r /\ holder' = q => holder = q

LEMMA OnwardKeepsKey ==
  ASSUME Typing, NoCall \notin Calls, NEW r \in Calls, call[r].kind = "retrieve" => HoldsKey(r),
         holder' \in {holder, r, NoCall},
         NEW pc \in PC, Goto(r, pc), Onward(r, pc),
         movement' = movement \/ \E status \in MovementStatus : SetMovement(r, status)
  PROVE  KeyEffect(r)
  <1>1. /\ call \in [Calls -> CallState]
        /\ movement \in [Calls -> MovementRow]
    BY DEF Typing, TypeOK
  <1>2. /\ call'[r].kind = call[r].kind
        /\ call'[r].pc = pc
        /\ call'[r].key = call[r].key
        /\ call'[r].carried = call[r].carried
    BY <1>1, GotoFrame DEF CallFrame
  <1>3. /\ movement'[r].key = movement[r].key
        /\ movement'[r].type = movement[r].type
    BY <1>1, SetMovementFrame
  <1> QED
    BY <1>2, <1>3 DEF KeyEffect, HoldsKey, Onward, At, BeforeTrip

(* The other services leave a checkout's movement alone.                   *)
LEMMA OthersSpareCheckouts ==
  ASSUME NEW r \in Calls, call[r].kind = "retrieve", HoldsKey(r), Step(r)
  PROVE  RetrievalStep(r) \/ MachineStep(r) \/ VerificationStep(r) \/ RecoverRetrieval(r)
  <1>1. ~PutawayStep(r)
    BY DEF PutawayStep, PutawayBegin, ReturnBegin, PutawayClaim, ReturnClaim, PutawayRun, PutawayRelease, PutawayUncertain, PutawayCommit
  <1>2. ~GuidedStep(r)
    BY DEF GuidedStep, GuidedBegin, PlacementDecided, GuidedPrepare, PresentClaim, Presented, PlacementPhotoRequired, GuidedReturnClaim,
           GuidedBusy, GuidedRefused, GuidedFailed, Returned, GuidedCommit
  <1>3. ~RecoverPutaway(r) /\ ~SweepBeforeMotion(r) /\ ~SweepOffShelf(r)
    BY DEF HoldsKey, RecoverPutaway, SweepBeforeMotion, SweepOffShelf
  <1> QED
    BY <1>1, <1>2, <1>3 DEF Step, CallStep, RecoveryStep

(* No other service gives a call the gantry or takes it from another.      *)
LEMMA HolderEffect ==
  ASSUME Typing, NEW r \in Calls, Step(r),
         holder = r => call[r].pc \in {"moving", "dead"}
  PROVE  /\ holder' \in {holder, r, NoCall}
         /\ holder' = r => call'[r].pc \in {"moving", "dead"}
  <1>1. call \in [Calls -> CallState] /\ {"moving", "dead"} \subseteq PC /\ NoCall \notin Calls
    BY ConstantsAssumption DEF Typing, TypeOK, PC
  <1>2. CASE holder' = holder /\ (UNCHANGED call \/ holder # r \/ Goto(r, "dead"))
    BY <1>1, <1>2, GotoFrame
  <1>3. CASE RetrievalStep(r)
    BY <1>2, <1>3 DEF RetrievalStep, RetrievalBegin, RetrievalClaim, RetrievalRelease, At,
         RetrievalRun, RetrievalUncertain, RetrievalCheckout, RetrievalComplete,
         CheckoutCheckExpires, RetrievalVerificationFailed
  <1>4. CASE PutawayStep(r)
    BY <1>2, <1>4 DEF PutawayStep, PutawayBegin, ReturnBegin, At,
         PutawayClaim, ReturnClaim, PutawayRun, PutawayRelease, PutawayUncertain, PutawayCommit
  <1>5. CASE GuidedStep(r)
    BY <1>2, <1>5 DEF GuidedStep, GuidedBegin, PlacementDecided, At,
         GuidedPrepare, PresentClaim, Presented, PlacementPhotoRequired, GuidedReturnClaim,
         GuidedBusy, GuidedRefused, GuidedFailed, Returned, GuidedCommit
  <1>6. CASE MachineStep(r)
    <2>1. CASE StartMove(r)
      BY <1>1, <2>1, GotoFrame DEF StartMove, At
    <2>2. CASE RefuseMove(r)
      BY <1>2, <2>2 DEF RefuseMove, At
    <2>3. CASE FinishMove(r)
      BY <1>1, <2>3 DEF FinishMove
    <2>4. CASE FailMove(r)
      BY <1>1, <2>4 DEF FailMove
    <2>5. CASE LoseMove(r)
      BY <1>1, <2>5 DEF LoseMove
    <2>6. CASE Crash(r)
      BY <1>2, <2>6 DEF Crash, At
    <2>7. CASE LeaseExpires(r)
      BY <1>1, <2>7 DEF LeaseExpires
    <2> QED
      BY <1>6, <2>1, <2>2, <2>3, <2>4, <2>5, <2>6, <2>7 DEF MachineStep
  <1>7. CASE VerificationStep(r)
    BY <1>2, <1>7 DEF VerificationStep, At,
         RequireVerification, VerificationUnavailable, AcceptCapture, CancelCapture, SeeDecision,
         AutomaticAcceptFails, CaptureTimesOut, CloseTimedOutMovement
  <1>8. CASE RecoveryStep(r)
    BY <1>2, <1>8 DEF RecoveryStep, RecoverRetrieval, RecoverPutaway, SweepBeforeMotion, SweepOffShelf
  <1> QED
    BY <1>3, <1>4, <1>5, <1>6, <1>7, <1>8 DEF Step, CallStep

(* A step of a checkout keeps its key, one action at a time.               *)
LEMMA StepKeepsKey ==
  ASSUME Typing, NEW r \in Calls, HoldsKey(r), Step(r),
         holder = r => call[r].pc \in {"moving", "dead"}
  PROVE  HoldsKey(r)'
  <1>1. /\ call \in [Calls -> CallState]
        /\ movement \in [Calls -> MovementRow]
        /\ NoCall \notin Calls
    BY ConstantsAssumption DEF Typing, TypeOK
  <1>2. call'[r].kind = call[r].kind
    BY StepCallEffect DEF CallEffect, CallFrame
  <1>3. CASE call[r].kind # "retrieve"
    BY <1>2, <1>3 DEF HoldsKey
  <1>4. CASE call[r].kind = "retrieve"
    <2>1. ASSUME holder' \in {holder, r, NoCall}, NEW pc \in PC, Goto(r, pc), Onward(r, pc),
                 movement' = movement \/ \E status \in MovementStatus : SetMovement(r, status)
          PROVE  HoldsKey(r)'
      BY <1>1, <2>1, OnwardKeepsKey DEF KeyEffect
    <2>2. CASE UNCHANGED <<call, holder>> /\ (movement' = movement \/ \E status \in MovementStatus : SetMovement(r, status))
      BY <1>1, <2>2, SetMovementFrame DEF HoldsKey, At
    <2>3. CASE RetrievalStep(r)
      <3>1. ASSUME NEW b \in Bins, NEW k \in Keys, NEW v \in BOOLEAN, RetrievalBegin(r, b, k, v)
            PROVE  HoldsKey(r)'
        <4>1. /\ <<"retrieval", k>> \in IdempotencyKeys
              /\ <<"retrieval", k>> # NoKey
              /\ "OCCUPIED" \in BinStatus
          BY ConstantsAssumption DEF IdempotencyKeys, BinStatus
        <4>2. CASE Planned(r, <<"retrieval", k>>, b, NoBin, "OCCUPIED", stock[b], v) /\ stock[b] \in Quantities
          <5>1. /\ call'[r].pc = "claim"
                /\ call'[r].key = <<"retrieval", k>>
                /\ call'[r].carried = FALSE
            <6>1. v = TRUE \/ v = FALSE
              OBVIOUS
            <6>2. \/ Planned(r, <<"retrieval", k>>, b, NoBin, "OCCUPIED", stock[b], TRUE)
                  \/ Planned(r, <<"retrieval", k>>, b, NoBin, "OCCUPIED", stock[b], FALSE)
              BY <4>2, <6>1
            <6> QED
              BY <1>1, <4>1, <4>2, <6>2, PlannedFrame
          <5>2. holder' # r /\ movement' = movement
            BY <3>1 DEF RetrievalBegin, At
          <5> QED
            BY <1>4, <4>1, <5>1, <5>2 DEF HoldsKey, At, BeforeTrip
        <4>3. stock[b] <= 0 \/ stock[b] \in Quantities
          BY ConstantsAssumption DEF Typing, TypeOK, Quantities, NoRow
        <4>4. CASE Goto(r, "done")
          BY <2>1, <3>1, <4>4 DEF RetrievalBegin, Onward, At, PC, BeforeTrip
        <4> QED
          BY <3>1, <4>2, <4>3, <4>4 DEF RetrievalBegin
      <3>2. CASE RetrievalClaim(r)
        <4> DEFINE row == [status |-> "VALIDATED", type |-> "RETRIEVAL", bin |-> call[r].bin,
                           src |-> NoBin, from |-> "NONE", prev |-> call[r].base,
                           key |-> call[r].key]
        <4>1. CASE CreateMovement(r, row) /\ Goto(r, "run")
          <5>1. movement'[r].key = call[r].key /\ movement'[r].type = "RETRIEVAL"
            BY <1>1, <4>1 DEF CreateMovement
          <5>2. "run" \in PC
            BY DEF PC
          <5>3. call'[r].pc = "run" /\ call'[r].key = call[r].key /\ ~call[r].carried
                /\ call'[r].carried = call[r].carried /\ call[r].key # NoKey
            BY <1>1, <1>4, <3>2, <4>1, <5>2, GotoFrame DEF HoldsKey, RetrievalClaim, At, BeforeTrip
          <5> QED
            BY <5>1, <5>3 DEF HoldsKey, At
        <4>2. CASE Goto(r, "done") /\ movement' = movement
          BY <2>1, <3>2, <4>2 DEF RetrievalClaim, Onward, At, PC, BeforeTrip
        <4> QED
          BY <3>2, <4>1, <4>2 DEF RetrievalClaim
      <3>3. CASE RetrievalRelease(r)
        <4>1. "done" \in PC /\ "FAILED" \in MovementStatus
          BY DEF PC, MovementStatus
        <4>2. call'[r].pc = "done" /\ call'[r].carried = call[r].carried
          BY <1>1, <3>3, <4>1, GotoFrame DEF RetrievalRelease
        <4>3. ~call[r].carried /\ holder # r /\ holder' = holder
          BY <1>4, <3>3 DEF RetrievalRelease, HoldsKey, BeforeTrip
        <4>4. movement'[r].type = movement[r].type
          BY <1>1, <3>3, <4>1, CloseMovementFrame DEF RetrievalRelease
        <4> QED
          BY <1>4, <4>2, <4>3, <4>4 DEF HoldsKey, At, BeforeTrip
      <3>4. CASE RetrievalRun(r)
        BY <2>1, <3>4 DEF RetrievalRun, Onward, At, PC, BeforeTrip, MovementStatus
      <3>5. CASE RetrievalUncertain(r)
        BY <2>1, <3>5 DEF RetrievalUncertain, Onward, At, PC, BeforeTrip, MovementStatus
      <3>6. CASE RetrievalCheckout(r)
        BY <2>1, <3>6 DEF RetrievalCheckout, Onward, At, PC, BeforeTrip, MovementStatus
      <3>7. CASE RetrievalComplete(r)
        BY <2>1, <3>7 DEF RetrievalComplete, Onward, At, PC, BeforeTrip, MovementStatus
      <3>8. CASE CheckoutCheckExpires(r)
        BY <2>1, <3>8 DEF CheckoutCheckExpires, Onward, At, PC, BeforeTrip, MovementStatus
      <3>9. CASE RetrievalVerificationFailed(r)
        BY <2>1, <3>9 DEF RetrievalVerificationFailed, Onward, At, PC, BeforeTrip, MovementStatus
      <3> QED
        BY <2>3, <3>1, <3>2, <3>3, <3>4, <3>5, <3>6, <3>7, <3>8, <3>9 DEF RetrievalStep
    <2>4. CASE MachineStep(r)
      <3>1. CASE StartMove(r)
        BY <1>1, <2>1, <3>1 DEF StartMove, Onward, At, PC, BeforeTrip
      <3>2. CASE RefuseMove(r)
        BY <1>1, <2>1, <3>2 DEF RefuseMove, Onward, At, PC, BeforeTrip
      <3>3. CASE FinishMove(r)
        <4>1. "moved" \in PC
          BY DEF PC
        <4>2. /\ call'[r].pc = "moved"
              /\ call'[r].key = call[r].key
          BY <1>1, <3>3, <4>1, CarriedFrame DEF FinishMove
        <4> QED
          BY <1>4, <3>3, <4>2 DEF FinishMove, HoldsKey, At, BeforeTrip
      <3>4. CASE FailMove(r)
        BY <1>1, <2>1, <3>4 DEF FailMove, Onward, At, PC, BeforeTrip
      <3>5. CASE LoseMove(r)
        <4>1. "uncertain" \in PC
          BY DEF PC
        <4>2. /\ call'[r].pc = "uncertain"
              /\ call'[r].key = call[r].key
          BY <1>1, <3>5, <4>1, CarriedFrame DEF LoseMove
        <4> QED
          BY <1>4, <3>5, <4>2 DEF LoseMove, HoldsKey, At, BeforeTrip
      <3>6. CASE Crash(r)
        BY <1>1, <2>1, <3>6 DEF Crash, Onward, At, PC, BeforeTrip
      <3>7. CASE LeaseExpires(r)
        <4>1. "dead" \in PC
          BY DEF PC
        <4>2. /\ call'[r].pc = "dead"
              /\ call'[r].key = call[r].key
          BY <1>1, <3>7, <4>1, CarriedFrame DEF LeaseExpires
        <4> QED
          BY <1>4, <3>7, <4>2 DEF LeaseExpires, HoldsKey, At, BeforeTrip
      <3> QED
        BY <2>4, <3>1, <3>2, <3>3, <3>4, <3>5, <3>6, <3>7 DEF MachineStep
    <2>5. CASE VerificationStep(r)
      <3>1. CASE RequireVerification(r)
        BY <2>1, <3>1 DEF RequireVerification, Onward, At, PC, BeforeTrip, MovementStatus
      <3>2. CASE VerificationUnavailable(r)
        BY <2>1, <3>2 DEF VerificationUnavailable, Onward, At, PC, BeforeTrip, MovementStatus
      <3>3. CASE AcceptCapture(r)
        BY <2>2, <3>3 DEF AcceptCapture
      <3>4. CASE CancelCapture(r)
        BY <2>2, <3>4 DEF CancelCapture
      <3>5. CASE SeeDecision(r)
        BY <2>1, <3>5 DEF SeeDecision, Onward, At, PC, BeforeTrip, MovementStatus
      <3>6. CASE AutomaticAcceptFails(r)
        BY <2>1, <3>6 DEF AutomaticAcceptFails, Onward, At, PC, BeforeTrip, MovementStatus
      <3>7. CASE CaptureTimesOut(r)
        BY <2>1, <3>7 DEF CaptureTimesOut, Onward, At, PC, BeforeTrip, MovementStatus
      <3>8. CASE CloseTimedOutMovement(r)
        BY <2>1, <3>8 DEF CloseTimedOutMovement, Onward, At, PC, BeforeTrip, MovementStatus
      <3> QED
        BY <2>5, <3>1, <3>2, <3>3, <3>4, <3>5, <3>6, <3>7, <3>8 DEF VerificationStep
    <2>6. CASE RecoverRetrieval(r)
      BY <2>2, <2>6 DEF RecoverRetrieval, MovementStatus
    <2> QED
      BY <1>4, <2>3, <2>4, <2>5, <2>6, OthersSpareCheckouts
  <1> QED
    BY <1>3, <1>4

LEMMA InitKeys == Init => CheckoutHoldsItsKey
  BY ConstantsAssumption
  DEF Init, CheckoutHoldsItsKey, HoldsKey, At, BeforeTrip, NoMovement, IdleCall

LEMMA NextKeys == Typing /\ CheckoutHoldsItsKey /\ [Next]_vars => CheckoutHoldsItsKey'
  <1> SUFFICES ASSUME Typing, CheckoutHoldsItsKey, [Next]_vars PROVE CheckoutHoldsItsKey'
    OBVIOUS
  <1>1. ASSUME NEW r \in Calls, Step(r)
        PROVE  CheckoutHoldsItsKey'
    <2>1. /\ CallFrame(r)
          /\ MovementFrame(r)
          /\ movement'[r].key \in {movement[r].key, NoKey} \/ ~KeyTaken(movement'[r].key)
      BY <1>1, StepCallEffect, StepMovementEffect DEF CallEffect, MovementEffect
    <2>2. /\ holder' \in {holder, r, NoCall}
          /\ holder' = r => call'[r].pc \in {"moving", "dead"}
      BY <1>1, HolderEffect DEF CheckoutHoldsItsKey
    <2>3. ASSUME NEW q \in Calls PROVE HoldsKey(q)'
      <3>1. CASE q = r
        BY <1>1, <3>1, StepKeepsKey DEF CheckoutHoldsItsKey
      <3>2. CASE q # r
        <4>1. call'[q] = call[q] /\ movement'[q] = movement[q]
          BY <2>1, <3>2 DEF CallFrame, MovementFrame
        <4>2. holder' = q => holder = q
          BY <2>2, <3>2, ConstantsAssumption
        <4> QED
          BY <4>1, <4>2 DEF CheckoutHoldsItsKey, HoldsKey, At, BeforeTrip
      <3> QED
        BY <3>1, <3>2
    <2>4. ASSUME NEW q \in Calls, holder' = q PROVE call'[q].pc \in {"moving", "dead"}
      BY <2>1, <2>2, <2>4, ConstantsAssumption DEF CallFrame, CheckoutHoldsItsKey
    <2>5. ASSUME NEW m \in Calls, NEW n \in Calls,
                 movement'[m].key = movement'[n].key, movement'[m].key # NoKey
          PROVE  m = n
      <3>1. \A q \in Calls : q # r => movement'[q].key = movement[q].key
        BY <2>1 DEF MovementFrame
      <3>2. ASSUME NEW q \in Calls, q # r, movement'[r].key = movement[q].key,
                   movement[q].key # NoKey
            PROVE  FALSE
        BY <2>1, <3>2 DEF KeyTaken, CheckoutHoldsItsKey
      <3> QED
        BY <2>5, <3>1, <3>2 DEF CheckoutHoldsItsKey
    <2> QED
      BY <2>3, <2>4, <2>5 DEF CheckoutHoldsItsKey
  <1>2. CASE UNCHANGED <<call, movement, holder>>
    BY <1>2 DEF CheckoutHoldsItsKey, HoldsKey, At, BeforeTrip
  <1> QED
    BY <1>1, <1>2 DEF Next, Step, Reconcile, AddStock, RemoveStock, vars

(* A checkout that has been moved, or may still be, holds its request's    *)
(* key, whatever the other services, the recoveries and crashes do.        *)
THEOREM CheckoutKeepsItsKey == Spec => []CheckoutHoldsItsKey
  BY InitTyping, InitKeys, NextTyping, NextKeys, PTL DEF Spec

(* However often a checkout request is repeated, and whatever crashes or   *)
(* is lost in between, the gantry carries a bin out for it at most once.   *)
THEOREM OneCheckoutPerRequest == Spec => []AtMostOneCheckoutPerRequest
  <1>1. CheckoutHoldsItsKey => AtMostOneCheckoutPerRequest
    BY DEF CheckoutHoldsItsKey, HoldsKey, AtMostOneCheckoutPerRequest
  <1> QED
    BY <1>1, CheckoutKeepsItsKey, PTL

---------------------------------------------------------------------------
(* The keys of Movement rows refine an idempotent request.                 *)

(* A checkout's trip begins or ends in a step that leaves the movements    *)
(* alone, and once it has begun the call keeps its request.                *)
TripEffect(r) ==
    /\ call'[r].carried # call[r].carried => call'[r].carried /\ movement' = movement
    /\ call[r].carried => call'[r].carried /\ call'[r].key = call[r].key

LEMMA CheckoutTrips ==
  ASSUME Typing, NEW r \in Calls, call[r].kind = "retrieve", HoldsKey(r), Step(r)
  PROVE  TripEffect(r)
  <1>1. call \in [Calls -> CallState]
    BY DEF Typing, TypeOK
  <1>2. ASSUME NEW pc \in PC, Goto(r, pc)
        PROVE  TripEffect(r)
    BY <1>1, <1>2, GotoFrame DEF TripEffect
  <1>3. CASE UNCHANGED call
    BY <1>3 DEF TripEffect
  <1>4. ASSUME NEW pc \in PC, Carried(r, pc), UNCHANGED movement
        PROVE  TripEffect(r)
    BY <1>1, <1>4, CarriedFrame DEF TripEffect
  <1>5. CASE RetrievalStep(r)
    <2>1. ASSUME NEW b \in Bins, NEW k \in Keys, NEW v \in BOOLEAN, RetrievalBegin(r, b, k, v)
          PROVE  TripEffect(r)
      <3>1. ~call[r].carried /\ UNCHANGED movement /\ "idle" \in BeforeTrip
        BY <2>1 DEF RetrievalBegin, HoldsKey, At, BeforeTrip
      <3>2. call'[r].carried \in BOOLEAN
        BY <2>1, BeginCallEffect DEF CallEffect, CallFrame, CallState
      <3>3. call[r].carried \in BOOLEAN
        BY <1>1 DEF CallState
      <3> QED
        BY <3>1, <3>2, <3>3 DEF TripEffect
    <2>2. CASE RetrievalClaim(r)
      BY <1>2, <2>2 DEF RetrievalClaim, PC
    <2>3. CASE RetrievalRun(r)
      BY <1>2, <2>3 DEF RetrievalRun, PC
    <2>4. CASE RetrievalRelease(r)
      BY <1>2, <2>4 DEF RetrievalRelease, PC
    <2>5. CASE RetrievalUncertain(r)
      BY <1>2, <2>5 DEF RetrievalUncertain, PC
    <2>6. CASE RetrievalCheckout(r)
      BY <1>2, <2>6 DEF RetrievalCheckout, PC
    <2>7. CASE RetrievalComplete(r)
      BY <1>2, <2>7 DEF RetrievalComplete, PC
    <2>8. CASE CheckoutCheckExpires(r)
      BY <1>2, <2>8 DEF CheckoutCheckExpires, PC
    <2>9. CASE RetrievalVerificationFailed(r)
      BY <1>2, <2>9 DEF RetrievalVerificationFailed, PC
    <2> QED
      BY <1>5, <2>1, <2>2, <2>3, <2>4, <2>5, <2>6, <2>7, <2>8, <2>9 DEF RetrievalStep
  <1>6. CASE MachineStep(r)
    <2>1. CASE StartMove(r)
      BY <1>2, <2>1 DEF StartMove, PC
    <2>2. CASE RefuseMove(r)
      BY <1>2, <2>2 DEF RefuseMove, PC
    <2>3. CASE FinishMove(r)
      BY <1>4, <2>3 DEF FinishMove, PC
    <2>4. CASE FailMove(r)
      BY <1>2, <2>4 DEF FailMove, PC
    <2>5. CASE LoseMove(r)
      BY <1>4, <2>5 DEF LoseMove, PC
    <2>6. CASE Crash(r)
      BY <1>2, <2>6 DEF Crash, PC
    <2>7. CASE LeaseExpires(r)
      BY <1>4, <2>7 DEF LeaseExpires, PC
    <2> QED
      BY <1>6, <2>1, <2>2, <2>3, <2>4, <2>5, <2>6, <2>7 DEF MachineStep
  <1>7. CASE VerificationStep(r)
    <2>1. CASE AcceptCapture(r) \/ CancelCapture(r)
      BY <1>3, <2>1 DEF AcceptCapture, CancelCapture
    <2>2. CASE RequireVerification(r) \/ VerificationUnavailable(r) \/ SeeDecision(r)
      BY <1>2, <2>2 DEF RequireVerification, VerificationUnavailable, SeeDecision, PC
    <2>3. CASE AutomaticAcceptFails(r) \/ CaptureTimesOut(r) \/ CloseTimedOutMovement(r)
      BY <1>2, <2>3 DEF AutomaticAcceptFails, CaptureTimesOut, CloseTimedOutMovement, PC
    <2> QED
      BY <1>7, <2>1, <2>2, <2>3 DEF VerificationStep
  <1>8. CASE RecoverRetrieval(r)
    BY <1>3, <1>8 DEF RecoverRetrieval
  <1> QED
    BY <1>5, <1>6, <1>7, <1>8, OthersSpareCheckouts

(* Keys are unique, so the row that answers for a key is the one with it.  *)
LEMMA AnswerOf ==
  ASSUME NoCall \notin Calls, NEW k,
         \A m, n \in Calls : movement[m].key = k /\ movement[n].key = k => m = n
  PROVE  /\ \A m \in Calls : movement[m].key = k <=> Answering(k) = m
         /\ (\A m \in Calls : movement[m].key # k) => Answering(k) = NoCall
         /\ Answering(k) \in Calls \cup {NoCall}
  <1>1. CASE \E m \in Calls : movement[m].key = k
    <2>1. /\ (CHOOSE m \in Calls : movement[m].key = k) \in Calls
          /\ movement[CHOOSE m \in Calls : movement[m].key = k].key = k
      BY <1>1
    <2> QED
      BY <1>1, <2>1 DEF Answering
  <1>2. CASE ~ \E m \in Calls : movement[m].key = k
    BY <1>2 DEF Answering
  <1> QED
    BY <1>1, <1>2

LEMMA InitOnce == Init => Once!Init
  BY ConstantsAssumption
  DEF Init, Once!Init, Answering, CarriedOut, IdleCall, NoMovement, IdempotencyKeys

LEMMA StepOnce ==
  ASSUME Typing, CheckoutHoldsItsKey, NEW r \in Calls, Step(r), CheckoutHoldsItsKey'
  PROVE  [Once!Next]_<<[k \in IdempotencyKeys \ {NoKey} |-> Answering(k)], CarriedOut>>
  <1> DEFINE Request == IdempotencyKeys \ {NoKey}
             old == movement[r].key
             new == movement'[r].key
             answers == [k \in Request |-> Answering(k)]
  <1>1. /\ NoCall \notin Calls
        /\ movement \in [Calls -> MovementRow] /\ movement' \in [Calls -> MovementRow]
    BY StepMovementEffect, ConstantsAssumption DEF Typing, TypeOK, MovementEffect, MovementFrame
  <1>2. old \in IdempotencyKeys /\ new \in IdempotencyKeys
    BY <1>1 DEF MovementRow
  <1>3. /\ \A m \in Calls : m # r => movement'[m] = movement[m]
        /\ \A q \in Calls : call'[q].kind = call[q].kind /\ (q # r => call'[q] = call[q])
    BY StepMovementEffect, StepCallEffect DEF MovementEffect, MovementFrame, CallEffect, CallFrame
  <1>4. ASSUME NEW k \in Request
        PROVE  /\ \A m \in Calls : movement[m].key = k <=> Answering(k) = m
               /\ (\A m \in Calls : movement[m].key # k) => Answering(k) = NoCall
               /\ Answering(k) \in Calls \cup {NoCall}
    BY <1>1, AnswerOf DEF CheckoutHoldsItsKey
  <1>5. ASSUME NEW k \in Request
        PROVE  /\ \A m \in Calls : movement'[m].key = k <=> Answering(k)' = m
               /\ (\A m \in Calls : movement'[m].key # k) => Answering(k)' = NoCall
               /\ Answering(k)' \in Calls \cup {NoCall}
    <2>1. \A m, n \in Calls : movement'[m].key = k /\ movement'[n].key = k => m = n
      BY DEF CheckoutHoldsItsKey
    <2>2. CASE \E m \in Calls : movement'[m].key = k
      <3>1. /\ (CHOOSE m \in Calls : movement'[m].key = k) \in Calls
            /\ movement'[CHOOSE m \in Calls : movement'[m].key = k].key = k
        BY <2>2
      <3> QED
        BY <1>1, <2>1, <2>2, <3>1 DEF Answering
    <2>3. CASE ~ \E m \in Calls : movement'[m].key = k
      BY <1>1, <2>3 DEF Answering
    <2> QED
      BY <2>2, <2>3
  <1>6. ASSUME NEW k \in Request, k # old, k # new
        PROVE  Answering(k)' = Answering(k)
    <2>1. \A m \in Calls : movement'[m].key = k <=> movement[m].key = k
      BY <1>3, <1>6
    <2>2. CASE \E m \in Calls : movement[m].key = k
      BY <1>4, <1>5, <2>1, <2>2
    <2>3. CASE \A m \in Calls : movement[m].key # k
      BY <1>4, <1>5, <2>1, <2>3
    <2> QED
      BY <2>2, <2>3
  <1>7. \A k \in Request : k # old => Answering(k) # r
    BY <1>4
  <1>8. CASE old = new
    <2>1. answers' = answers
      <3>1. \A k \in Request : k = old => Answering(k) = r /\ Answering(k)' = r
        BY <1>4, <1>5, <1>8
      <3> QED
        BY <1>6, <1>8, <3>1
    <2>2. CASE CarriedOut' = CarriedOut
      BY <2>1, <2>2
    <2>3. CASE CarriedOut' # CarriedOut
      <3>1. call[r].kind = "retrieve" /\ call'[r].carried # call[r].carried
        BY <1>3, <2>3 DEF CarriedOut
      <3>2. call'[r].carried
        BY <3>1, CheckoutTrips DEF TripEffect, CheckoutHoldsItsKey
      <3>3. CarriedOut' = CarriedOut \cup {r}
        BY <1>3, <3>1, <3>2 DEF CarriedOut
      <3>4. new \in Request
        BY <1>2, <1>3, <3>1, <3>2 DEF CheckoutHoldsItsKey, HoldsKey
      <3>5. answers[old] = r
        BY <1>4, <1>8, <3>4
      <3>6. Once!Act(r)
        BY <1>8, <2>1, <3>3, <3>4, <3>5 DEF Once!Act
      <3> QED
        BY <3>6 DEF Once!Next
    <2> QED
      BY <2>2, <2>3
  <1>9. CASE old # new
    <2>1. r \notin CarriedOut
      <3>1. ASSUME call[r].kind = "retrieve", call[r].carried PROVE FALSE
        <4>1. call'[r].carried /\ call'[r].key = call[r].key
          BY <3>1, CheckoutTrips DEF TripEffect, CheckoutHoldsItsKey
        <4> QED
          BY <1>3, <1>9, <3>1, <4>1 DEF CheckoutHoldsItsKey, HoldsKey
      <3> QED
        BY <3>1 DEF CarriedOut
    <2>2. CarriedOut' = CarriedOut
      <3>1. ASSUME call[r].kind = "retrieve" PROVE call'[r].carried = call[r].carried
        BY <1>9, <3>1, CheckoutTrips DEF TripEffect, CheckoutHoldsItsKey
      <3> QED
        BY <1>3, <3>1 DEF CarriedOut
    <2>3. \A k \in Request : k = old => Answering(k) = r /\ Answering(k)' = NoCall
      <3>1. \A m \in Calls : old # NoKey => movement'[m].key # old
        BY <1>3, <1>9 DEF CheckoutHoldsItsKey
      <3> QED
        BY <1>4, <1>5, <3>1
    <2>4. \A k \in Request : k = new => Answering(k) = NoCall /\ Answering(k)' = r
      <3>1. \A m \in Calls : new # NoKey => movement[m].key # new
        BY <1>3, <1>9 DEF CheckoutHoldsItsKey
      <3> QED
        BY <1>4, <1>5, <3>1
    <2>5. CASE new = NoKey
      <3>1. answers' = [k \in Request |-> IF answers[k] = r THEN NoCall ELSE answers[k]]
        BY <1>6, <1>7, <2>3, <2>5
      <3>2. Once!GiveUp(r)
        BY <2>1, <2>2, <3>1 DEF Once!GiveUp
      <3> QED
        BY <3>2 DEF Once!Next
    <2>6. CASE new # NoKey
      <3>1. new \in Request
        BY <1>2, <2>6
      <3>2. answers' = [k \in Request |-> IF k = new THEN r
                                          ELSE IF answers[k] = r THEN NoCall ELSE answers[k]]
        BY <1>6, <1>7, <2>3, <2>4
      <3>3. Once!Take(r, new)
        BY <2>1, <2>2, <2>4, <3>1, <3>2 DEF Once!Take
      <3> QED
        BY <3>1, <3>3 DEF Once!Next
    <2> QED
      BY <2>5, <2>6
  <1> QED
    BY <1>8, <1>9

(* One row answers for a repeated checkout, and once its bin may have been *)
(* moved it answers for good: Custody implements IdempotentRequest.        *)
THEOREM CheckoutRefinesIdempotentRequest == Spec => CheckoutIsIdempotent
  <1>1. Typing /\ CheckoutHoldsItsKey /\ CheckoutHoldsItsKey' /\ [Next]_vars
        => [Once!Next]_<<[k \in IdempotencyKeys \ {NoKey} |-> Answering(k)], CarriedOut>>
    <2> SUFFICES ASSUME Typing, CheckoutHoldsItsKey, CheckoutHoldsItsKey', [Next]_vars
                 PROVE  [Once!Next]_<<[k \in IdempotencyKeys \ {NoKey} |-> Answering(k)], CarriedOut>>
      OBVIOUS
    <2>1. ASSUME NEW r \in Calls, Step(r)
          PROVE  [Once!Next]_<<[k \in IdempotencyKeys \ {NoKey} |-> Answering(k)], CarriedOut>>
      BY <2>1, StepOnce
    <2>2. CASE UNCHANGED <<call, movement>>
      BY <2>2 DEF Answering, CarriedOut
    <2> QED
      BY <2>1, <2>2 DEF Next, Step, Reconcile, AddStock, RemoveStock, vars
  <1> QED
    BY <1>1, InitOnce, InitTyping, InitKeys, NextTyping, NextKeys, PTL
    DEF Spec, CheckoutIsIdempotent, Once!Spec

---------------------------------------------------------------------------
(***************************************************************************)
(* Who may move a bin, where the gantry finds it, and when recorded stock  *)
(* changes: for every set of bins, calls and keys.                         *)
(*                                                                         *)
(* A reserved bin is somebody's: the call whose movement is open, or the   *)
(* guided one that has the bin off its shelf though a sweep has closed its *)
(* movement.  Nobody else's release reaches it, unless the bin is counted  *)
(* as misreleased.  So a container moves only under its owner's trip, and  *)
(* what the books say of its place stays true.                             *)
(***************************************************************************)

(* From the claim for a movement to its outcome; and all the time a guided *)
(* bin may be away from its shelf.                                         *)
Trip == {"dispatch", "moving", "busy", "refused", "notMoved", "uncertain", "moved"}
AtIntake == {"atIntake", "await", "verify", "expired", "abort", "decided"}
OffShelf == Trip \cup AtIntake \cup {"returned"}
OnTheWay(r) == call[r].pc \in Trip \/ holder = r

Guided(r) == call[r].kind = "guided"
Puts(r) == call[r].kind \in {"putaway", "return"}
HasRow(r) == movement[r].status # "NONE"

(* A movement is a copy of what its call planned.                          *)
RowIsOfCall(r) ==
    /\ call[r].pc \in {"idle", "claim"} => ~HasRow(r) /\ ~call[r].carried
    /\ call[r].pc \notin {"idle", "claim", "done", "dead"} => HasRow(r)
    /\ call[r].pc = "claim" =>
         /\ call[r].kind = "return" => call[r].orig = "CHECKED_OUT"
         /\ call[r].orig # "RESERVED"
         /\ call[r].src # NoBin => call[r].orig = "AVAILABLE" /\ call[r].src # call[r].bin
    /\ call[r].kind # "putaway" => call[r].src = NoBin
    /\ ~Guided(r) => movement[r].status # "AWAITING_PLACEMENT"
    /\ HasRow(r) =>
         /\ movement[r].bin = call[r].bin /\ movement[r].src = call[r].src
         /\ movement[r].type = IF call[r].kind = "retrieve" THEN "RETRIEVAL" ELSE "PUTAWAY"
         /\ CASE call[r].kind = "retrieve" -> movement[r].from = "NONE"
              [] Guided(r) -> movement[r].from = "INTAKE"
              [] OTHER -> /\ call[r].orig # "RESERVED"
                          /\ movement[r].from = "OUTPUT" <=>
                               call[r].orig = "CHECKED_OUT" \/ call[r].src # NoBin
                          /\ call[r].src # NoBin =>
                               call[r].orig = "AVAILABLE" /\ call[r].src # call[r].bin

(* No recovery closes the movement of a whole bin, or of a putaway, that   *)
(* the gantry may be carrying, and a guided one does not look untouched.   *)
TripIsDriven(r) ==
    /\ call[r].pc = "run" => call[r].kind = "retrieve" /\ movement[r].status = "VALIDATED"
    /\ ~Guided(r) /\ OnTheWay(r) => movement[r].status = "RUNNING"
    /\ Guided(r) /\ (call[r].pc \in OffShelf \/ holder = r) =>
         /\ movement[r].status \notin {"NONE", "VALIDATED"}
         /\ call[r].pc \notin AtIntake => movement[r].status # "AWAITING_PLACEMENT"
    /\ holder = r => call[r].pc \in {"moving", "dead"}

(* What has been carried is past its trip: a call starts a trip for a bin  *)
(* that it has not moved, or on its way back from intake.                  *)
LegsAreInOrder(r) ==
    /\ movement[r].status = "VALIDATED" => ~call[r].carried
    /\ call[r].carried =>
         CASE call[r].kind = "retrieve" ->
                call[r].pc \notin {"run", "dispatch", "moving", "busy", "refused", "notMoved"}
           [] Guided(r) ->
                call[r].leg = "out" =>
                  call[r].pc \notin {"dispatch", "moving", "busy", "refused", "notMoved"}
           [] OTHER -> call[r].pc \in {"moved", "uncertain", "done", "dead"}
    /\ Guided(r) /\ call[r].pc \in AtIntake \ {"atIntake"} => call[r].leg = "back"

OwnInv == \A r \in Calls : RowIsOfCall(r) /\ TripIsDriven(r) /\ LegsAreInOrder(r)

(* A call holds the bins of an open movement, of a guided one however it   *)
(* was closed, and those the gantry carries for it.                        *)
BinsOf(r) == {call[r].bin, call[r].src}
Holds(r, b) ==
    /\ b \in BinsOf(r)
    /\ \/ HasRow(r) /\ Driving(r)
       \/ Guided(r) /\ call[r].pc \in OffShelf
       \/ holder = r

OwnersHold ==
    \A b \in Bins \ misreleased : \A r \in Calls :
      Holds(r, b) => binStatus[b] = "RESERVED" /\ owner[b] = r

(* Where a call found its bin, and where the books say it is.              *)
HomePlace(r, b) ==
    IF b = call[r].src \/ (movement[r].from = "OUTPUT" /\ call[r].src = NoBin)
    THEN "output" ELSE "shelf"

Recorded(b) ==
    /\ binStatus[b] \in OnShelfStatus => place[b] = "shelf"
    /\ binStatus[b] = "CHECKED_OUT" => place[b] = "output"
    /\ binStatus[b] = "RESERVED" =>
         /\ owner[b] \in Calls /\ HasRow(owner[b])
         /\ \/ place[b] = HomePlace(owner[b], b)
            \/ call[owner[b]].carried /\ b = Traveller(owner[b])

PlacesAreRecorded == \A b \in Bins \ misreleased : Recorded(b)

(* Where the container of a call is while the call is under way.           *)
Where(r) ==
    /\ call[r].pc = "moved" => place[Traveller(r)] = Target(r)
    /\ holder = r \/ call[r].pc \in Trip \ {"moved", "uncertain"} =>
         place[Traveller(r)] = Origin(r)
    /\ Guided(r) /\ call[r].pc \in AtIntake => place[call[r].bin] = "intake"
    /\ Guided(r) /\ call[r].pc = "returned" => place[call[r].bin] = "shelf"

Whereabouts == \A r \in Calls : Traveller(r) \notin misreleased => Where(r)

(* The photo of a call that has been let through, and is not overtaken, is *)
(* accepted; and what is counted has been carried.                         *)
EvidenceIsKept(r) ==
    /\ call[r].pc = "decided" /\ (Guided(r) => call[r].checked) =>
         capture[r].status = "ACCEPTED" \/ movement[r].status \notin VerificationStatus
    /\ Puts(r) /\ call[r].pc \in Trip => capture[r].status = "ACCEPTED"
    /\ Guided(r) /\ call[r].checked /\ call[r].leg = "back"
       /\ call[r].pc \in Trip \cup {"returned"} =>
         capture[r].status = "ACCEPTED"
    /\ Guided(r) /\ call[r].pc = "returned" =>
         /\ call[r].carried /\ call[r].leg = "back"
         /\ movement[r].status = "READY_TO_COMMIT" => call[r].checked
    /\ call[r].pc = "moved" => call[r].carried
    /\ call[r].kind = "retrieve" /\ call[r].pc \in AtIntake => call[r].carried
EvidenceInv == \A r \in Calls : EvidenceIsKept(r)

---------------------------------------------------------------------------
Own(r) == RowIsOfCall(r) /\ TripIsDriven(r) /\ LegsAreInOrder(r)

LEMMA RetrievalRunOwn ==
  ASSUME TypeOK, NEW r \in Calls, Own(r), RetrievalRun(r)
  PROVE  Own(r)'
<1>1. CASE movement[r].status \in Terminal
  BY <1>1, SMTT(30) DEF TypeOK, CallState, MovementRow, RetrievalRun, At, Goto, Terminal,
     Own, RowIsOfCall, TripIsDriven, LegsAreInOrder, Guided, HasRow, OnTheWay, Trip,
     AtIntake, OffShelf
<1>2. CASE movement[r].status \notin Terminal
  BY <1>2, SMTT(30) DEF TypeOK, CallState, MovementRow, RetrievalRun, At, Goto,
     SetMovement, Terminal, Own, RowIsOfCall, TripIsDriven, LegsAreInOrder, Guided,
     HasRow, OnTheWay, Trip, AtIntake, OffShelf
<1> QED  BY <1>1, <1>2

LEMMA RetrievalCompleteOwn ==
  ASSUME TypeOK, NEW r \in Calls, Own(r), RetrievalComplete(r)
  PROVE  Own(r)'
<1>1. CASE Goto(r, "done") /\ SetMovement(r, "COMPLETED")
  BY <1>1, SMTT(30) DEF TypeOK, CallState, MovementRow, RetrievalComplete, At, Goto,
     SetMovement, Own, RowIsOfCall, TripIsDriven, LegsAreInOrder, Guided, HasRow,
     OnTheWay, Trip, AtIntake, OffShelf
<1>2. CASE Goto(r, "abort") /\ movement' = movement
  BY <1>2, SMTT(30) DEF TypeOK, CallState, MovementRow, RetrievalComplete, At, Goto, Own,
     RowIsOfCall, TripIsDriven, LegsAreInOrder, Guided, HasRow, OnTheWay, Trip, AtIntake,
     OffShelf
<1> QED  BY <1>1, <1>2 DEF RetrievalComplete

LEMMA PutawayBeginOwn ==
  ASSUME TypeOK, NEW r \in Calls, Own(r),
         \E b \in Bins, s \in Bins \cup {NoBin}, k \in Keys : PutawayBegin(r, b, s, k)
  PROVE  Own(r)'
<1>1. PICK b \in Bins, s \in Bins \cup {NoBin}, k \in Keys : PutawayBegin(r, b, s, k)
  OBVIOUS
<1>2. CASE Goto(r, "done")
  BY <1>1, <1>2, SMTT(30) DEF TypeOK, CallState, MovementRow, PutawayBegin, At, Goto, Own,
     RowIsOfCall, TripIsDriven, LegsAreInOrder, Guided, HasRow, OnTheWay, Trip, AtIntake,
     OffShelf
<1>3. CASE ~Goto(r, "done")
  <2>1. /\ Planned(r, <<"scan", k>>, b, s, binStatus[b], Held(IF s = NoBin THEN b ELSE s), TRUE)
        /\ IF s = NoBin THEN IntakePlan(b) \/ HomePlan(b) ELSE RelocationPlan(b, s)
        /\ At(r, "idle") /\ call[r].kind = "putaway"
        /\ UNCHANGED <<movement, holder>>
    BY <1>1, <1>3 DEF PutawayBegin
  <2>2. binStatus[b] # "RESERVED" /\ (s # NoBin => binStatus[b] = "AVAILABLE" /\ s # b)
    BY <2>1 DEF IntakePlan, HomePlan, RelocationPlan, OnShelfStatus
  <2>3. /\ call'[r].pc = "claim" /\ call'[r].kind = call[r].kind /\ call'[r].src = s
        /\ call'[r].orig = binStatus[b] /\ call'[r].bin = b /\ call'[r].carried = FALSE
    <3>1. call \in [Calls -> CallState] /\ TRUE \in BOOLEAN
      BY DEF TypeOK
    <3>2. Planned(r, <<"scan", k>>, b, s, binStatus[b], Held(IF s = NoBin THEN b ELSE s), TRUE)
      BY <2>1
    <3> QED  BY <3>1, <3>2 DEF Planned
  <2> QED  BY <2>1, <2>2, <2>3, SMTT(30) DEF TypeOK, CallState, MovementRow, At, Own,
     RowIsOfCall, TripIsDriven, LegsAreInOrder, Guided, HasRow, OnTheWay, Trip, AtIntake,
     OffShelf
<1> QED  BY <1>2, <1>3

LEMMA PutawayClaimOwn ==
  ASSUME TypeOK, NEW r \in Calls, Own(r), PutawayClaim(r)
  PROVE  Own(r)'
<1> DEFINE row == [status |-> "VALIDATED", type |-> "PUTAWAY", bin |-> call[r].bin, src |-> call[r].src,
                  from |-> IF Returning(r) THEN "OUTPUT" ELSE "INTAKE",
                  prev |-> call[r].base, key |-> call[r].key]
<1>1. CASE Goto(r, "done") /\ movement' = movement
  BY <1>1, SMTT(30) DEF TypeOK, CallState, MovementRow, PutawayClaim, At, Goto, Own,
     RowIsOfCall, TripIsDriven, LegsAreInOrder, Guided, HasRow, OnTheWay, Trip, AtIntake,
     OffShelf
<1>2. CASE ~(Goto(r, "done") /\ movement' = movement)
  <2>1. /\ CreateMovement(r, row) /\ Goto(r, "await") /\ At(r, "claim") /\ call[r].kind = "putaway"
        /\ UNCHANGED holder
    BY <1>2 DEF PutawayClaim
  <2>2. movement'[r] = row
    BY <2>1 DEF CreateMovement, TypeOK
  <2>3. /\ movement'[r].status = "VALIDATED" /\ movement'[r].type = "PUTAWAY"
        /\ movement'[r].bin = call[r].bin /\ movement'[r].src = call[r].src
        /\ movement'[r].from = IF Returning(r) THEN "OUTPUT" ELSE "INTAKE"
    BY <2>2
  <2> QED  BY <2>1, <2>3, SMTT(30) DEF TypeOK, CallState, MovementRow, At, Goto,
     Returning, Own, RowIsOfCall, TripIsDriven, LegsAreInOrder, Guided, HasRow, OnTheWay,
     Trip, AtIntake, OffShelf
<1> QED  BY <1>1, <1>2

LEMMA ReturnClaimOwn ==
  ASSUME TypeOK, NEW r \in Calls, Own(r), ReturnClaim(r)
  PROVE  Own(r)'
<1> DEFINE row == [status |-> "VALIDATED", type |-> "PUTAWAY", bin |-> call[r].bin,
                  src |-> NoBin, from |-> "OUTPUT", prev |-> stock[call[r].bin], key |-> NoKey]
<1>1. CASE Goto(r, "done") /\ movement' = movement
  BY <1>1, SMTT(30) DEF TypeOK, CallState, MovementRow, ReturnClaim, At, Goto, Own,
     RowIsOfCall, TripIsDriven, LegsAreInOrder, Guided, HasRow, OnTheWay, Trip, AtIntake,
     OffShelf
<1>2. CASE ~(Goto(r, "done") /\ movement' = movement)
  <2>1. /\ CreateMovement(r, row) /\ At(r, "claim") /\ call[r].kind = "return"
        /\ call' = [call EXCEPT ![r].pc = "await", ![r].base = stock[call[r].bin]]
        /\ UNCHANGED holder
    BY <1>2 DEF ReturnClaim
  <2>2. movement'[r] = row
    BY <2>1 DEF CreateMovement, TypeOK
  <2>3. /\ movement'[r].status = "VALIDATED" /\ movement'[r].type = "PUTAWAY"
        /\ movement'[r].bin = call[r].bin /\ movement'[r].src = NoBin
        /\ movement'[r].from = "OUTPUT"
    BY <2>2
  <2>5. call'[r] = [call[r] EXCEPT !.pc = "await", !.base = stock[call[r].bin]]
    BY <2>1 DEF TypeOK
  <2>4. /\ call'[r].pc = "await" /\ call'[r].kind = "return" /\ call'[r].src = call[r].src
        /\ call'[r].bin = call[r].bin /\ call'[r].orig = call[r].orig
        /\ call'[r].carried = call[r].carried /\ call'[r].leg = call[r].leg
    BY <2>1, <2>5 DEF TypeOK, CallState, MovementRow
  <2> QED  BY <2>1, <2>3, <2>4, SMTT(30) DEF At, Own, RowIsOfCall, TripIsDriven,
     LegsAreInOrder, Guided, HasRow, OnTheWay, Trip, AtIntake, OffShelf
<1> QED  BY <1>1, <1>2

LEMMA PutawayReleaseOwn ==
  ASSUME TypeOK, NEW r \in Calls, Own(r), PutawayRelease(r)
  PROVE  Own(r)'
<1>1. /\ CloseMovement(r, "FAILED") /\ Goto(r, "done") /\ UNCHANGED holder
      /\ call[r].kind \in {"putaway", "return"} /\ call[r].pc \in {"abort", "busy", "refused", "notMoved"}
  BY DEF PutawayRelease
<1>2. /\ call'[r] = [call[r] EXCEPT !.pc = "done"]
      /\ movement'[r] = [movement[r] EXCEPT !.status = "FAILED", !.key = NoKey]
  BY <1>1 DEF TypeOK, Goto, CloseMovement
<1>3. /\ call'[r].pc = "done" /\ call'[r].kind = call[r].kind /\ call'[r].src = call[r].src
      /\ call'[r].bin = call[r].bin /\ call'[r].orig = call[r].orig
      /\ call'[r].carried = call[r].carried /\ call'[r].leg = call[r].leg
  BY <1>2 DEF TypeOK, CallState, MovementRow
<1>4. /\ movement'[r].status = "FAILED" /\ movement'[r].type = movement[r].type
      /\ movement'[r].bin = movement[r].bin /\ movement'[r].src = movement[r].src
      /\ movement'[r].from = movement[r].from
  BY <1>2 DEF TypeOK, CallState, MovementRow
<1>5. RowIsOfCall(r)'
  BY <1>1, <1>3, <1>4, SMTT(30) DEF Own, RowIsOfCall, TripIsDriven, LegsAreInOrder,
     Guided, HasRow, OnTheWay, Trip, AtIntake, OffShelf
<1>6. TripIsDriven(r)'
  BY <1>1, <1>3, <1>4, SMTT(30) DEF Own, RowIsOfCall, TripIsDriven, LegsAreInOrder,
     Guided, HasRow, OnTheWay, Trip, AtIntake, OffShelf
<1>7. LegsAreInOrder(r)'
  BY <1>1, <1>3, <1>4, SMTT(30) DEF Own, RowIsOfCall, TripIsDriven, LegsAreInOrder,
     Guided, HasRow, OnTheWay, Trip, AtIntake, OffShelf
<1> QED  BY <1>5, <1>6, <1>7 DEF Own

LEMMA GuidedBeginOwn ==
  ASSUME TypeOK, NEW r \in Calls, Own(r), \E b \in Bins, k \in Keys : GuidedBegin(r, b, k)
  PROVE  Own(r)'
<1>1. PICK b \in Bins, k \in Keys : GuidedBegin(r, b, k)
  OBVIOUS
<1>2. CASE Goto(r, "done")
  BY <1>1, <1>2, SMTT(30) DEF TypeOK, CallState, MovementRow, GuidedBegin, At, Goto, Own,
     RowIsOfCall, TripIsDriven, LegsAreInOrder, Guided, HasRow, OnTheWay, Trip, AtIntake,
     OffShelf
<1>3. CASE ~Goto(r, "done")
  <2>1. /\ Planned(r, <<"scan", k>>, b, NoBin, binStatus[b], 0, TRUE)
        /\ CompatibleSlot(b)
        /\ At(r, "idle") /\ call[r].kind = "guided"
        /\ UNCHANGED <<movement, holder>>
    BY <1>1, <1>3 DEF GuidedBegin
  <2>2. binStatus[b] # "RESERVED"
    BY <2>1 DEF CompatibleSlot, OnShelfStatus
  <2>3. /\ call'[r].pc = "claim" /\ call'[r].kind = call[r].kind /\ call'[r].src = NoBin
        /\ call'[r].orig = binStatus[b] /\ call'[r].bin = b /\ call'[r].carried = FALSE
    <3>1. call \in [Calls -> CallState] /\ TRUE \in BOOLEAN
      BY DEF TypeOK
    <3>2. Planned(r, <<"scan", k>>, b, NoBin, binStatus[b], 0, TRUE)
      BY <2>1
    <3> QED  BY <3>1, <3>2 DEF Planned
  <2> QED  BY <2>1, <2>2, <2>3, SMTT(30) DEF TypeOK, CallState, MovementRow, At, Own,
     RowIsOfCall, TripIsDriven, LegsAreInOrder, Guided, HasRow, OnTheWay, Trip, AtIntake,
     OffShelf
<1> QED  BY <1>2, <1>3

LEMMA RecoverRetrievalOwn ==
  ASSUME TypeOK, NEW r \in Calls, Own(r), RecoverRetrieval(r)
  PROVE  Own(r)'
<1>1. /\ SetMovement(r, "FAILED") /\ UNCHANGED <<call, holder>> /\ Recoverable(r)
      /\ movement[r].type = "RETRIEVAL"
  BY DEF RecoverRetrieval
<1> QED  BY <1>1, SMTT(30) DEF TypeOK, CallState, MovementRow, SetMovement, Recoverable,
   Own, RowIsOfCall, TripIsDriven, LegsAreInOrder, Guided, HasRow, OnTheWay, Trip,
   AtIntake, OffShelf

LEMMA RecoverPutawayOwn ==
  ASSUME TypeOK, NEW r \in Calls, Own(r), RecoverPutaway(r)
  PROVE  Own(r)'
<1>1. /\ CloseMovement(r, "FAILED") /\ UNCHANGED <<call, holder>> /\ Recoverable(r)
      /\ movement[r].type = "PUTAWAY"
  BY DEF RecoverPutaway
<1> QED  BY <1>1, SMTT(30) DEF TypeOK, CallState, MovementRow, CloseMovement, Recoverable,
   Own, RowIsOfCall, TripIsDriven, LegsAreInOrder, Guided, HasRow, OnTheWay, Trip,
   AtIntake, OffShelf

(* A step of a call keeps its row and its program together.                *)
LEMMA StepOwn ==
  ASSUME TypeOK, NEW r \in Calls, Own(r), Step(r)
  PROVE  Own(r)'
<1> USE DEF TypeOK, Own, RowIsOfCall, TripIsDriven, LegsAreInOrder, Guided,
    HasRow, OnTheWay, Trip, AtIntake, OffShelf
<1>1. CASE RetrievalStep(r)
  <2>1. ASSUME NEW b \in Bins, NEW k \in Keys, NEW v \in BOOLEAN, RetrievalBegin(r, b, k, v)
        PROVE  Own(r)'
    BY <2>1 DEF RetrievalBegin, At, Goto, Planned, CallState
  <2>2. CASE RetrievalClaim(r)
    BY <2>2, ConstantsAssumption DEF RetrievalClaim, At, Goto, CreateMovement,
       CallState
  <2>3. CASE RetrievalRelease(r)
    BY <2>3 DEF RetrievalRelease, Goto, CloseMovement
  <2>4. CASE RetrievalUncertain(r)
    BY <2>4 DEF RetrievalUncertain, At, Goto, SetMovement
  <2>5. CASE RetrievalCheckout(r)
    BY <2>5, SMTT(30) DEF RetrievalCheckout, At, Goto, SetMovement, CallState,
       MovementRow
  <2>6. CASE CheckoutCheckExpires(r)
    BY <2>6 DEF CheckoutCheckExpires, At, Goto
  <2>7. CASE RetrievalVerificationFailed(r)
    BY <2>7 DEF RetrievalVerificationFailed, At, Goto, SetMovement,
       MovementRow
  <2> HIDE DEF TypeOK, Own, RowIsOfCall, TripIsDriven, LegsAreInOrder, Guided,
    HasRow, OnTheWay, Trip, AtIntake, OffShelf
  <2> QED
    BY <1>1, <2>1, <2>2, <2>3, <2>4, <2>5, <2>6, <2>7, RetrievalRunOwn,
       RetrievalCompleteOwn DEF RetrievalStep
<1>2. CASE PutawayStep(r)
  <2>1. ASSUME NEW b \in Bins, ReturnBegin(r, b)
        PROVE  Own(r)'
    BY <2>1 DEF ReturnBegin, At, Goto, Planned, CallState
  <2>2. CASE PutawayRun(r)
    BY <2>2, SMTT(30) DEF PutawayRun, At, Goto, SetMovement, CallState, MovementRow
  <2>3. CASE PutawayUncertain(r)
    BY <2>3 DEF PutawayUncertain, At, Goto, SetMovement
  <2>4. CASE PutawayCommit(r)
    BY <2>4 DEF PutawayCommit, At, Goto, SetMovement, Returning, MovementRow
  <2> HIDE DEF TypeOK, Own, RowIsOfCall, TripIsDriven, LegsAreInOrder,
     Guided, HasRow, OnTheWay, Trip, AtIntake, OffShelf
  <2> QED
    BY <1>2, <2>1, <2>2, <2>3, <2>4, PutawayBeginOwn, PutawayClaimOwn,
       ReturnClaimOwn, PutawayReleaseOwn DEF PutawayStep
<1>3. CASE GuidedStep(r)
  <2>1. CASE GuidedPrepare(r)
    BY <2>1, SMTT(30) DEF GuidedPrepare, At, Goto, CreateMovement, CallState
  <2>2. CASE PresentClaim(r)
    BY <2>2 DEF PresentClaim, At, Goto, SetMovement, CallState, MovementRow
  <2>3. CASE Presented(r)
    BY <2>3 DEF Presented, At, Goto, SetMovement
  <2>4. ASSUME NEW placed \in BOOLEAN, PlacementDecided(r, placed)
        PROVE  Own(r)'
    BY <2>4 DEF PlacementDecided, At
  <2>5. CASE PlacementPhotoRequired(r)
    BY <2>5 DEF PlacementPhotoRequired, At, Goto
  <2>6. CASE GuidedReturnClaim(r)
    BY <2>6 DEF GuidedReturnClaim, At, Goto, SetMovement, history, CallState,
       MovementRow
  <2>7. CASE GuidedBusy(r)
    BY <2>7, SMTT(30) DEF GuidedBusy, At, Goto, MoveOn, CallState, MovementRow
  <2>8. CASE GuidedRefused(r)
    BY <2>8 DEF GuidedRefused, At, Goto, MoveOn
  <2>9. CASE GuidedFailed(r)
    BY <2>9 DEF GuidedFailed, Goto, SetMovement
  <2>10. CASE Returned(r)
    BY <2>10 DEF Returned, At, Goto, SetMovement
  <2>11. CASE GuidedCommit(r)
    BY <2>11 DEF GuidedCommit, At, Goto, SetMovement, CloseMovement,
       MovementRow
  <2> HIDE DEF TypeOK, Own, RowIsOfCall, TripIsDriven, LegsAreInOrder,
     Guided, HasRow, OnTheWay, Trip, AtIntake, OffShelf
  <2> QED
    BY <1>3, <2>1, <2>2, <2>3, <2>4, <2>5, <2>6, <2>7, <2>8, <2>9, <2>10,
       <2>11, GuidedBeginOwn DEF GuidedStep
<1>4. CASE MachineStep(r)
  <2>1. CASE StartMove(r)
    BY <2>1 DEF StartMove, At, Goto
  <2>2. CASE RefuseMove(r)
    BY <2>2 DEF RefuseMove, At, Goto
  <2>3. CASE FinishMove(r)
    BY <2>3, ConstantsAssumption DEF FinishMove, At, Carried
  <2>4. CASE FailMove(r)
    BY <2>4, ConstantsAssumption DEF FailMove, At, Goto
  <2>5. CASE LoseMove(r)
    BY <2>5, ConstantsAssumption DEF LoseMove, At, Carried
  <2>6. CASE Crash(r)
    BY <2>6 DEF Crash, Goto
  <2>7. CASE LeaseExpires(r)
    BY <2>7 DEF LeaseExpires, At, Carried
  <2> HIDE DEF TypeOK, Own, RowIsOfCall, TripIsDriven, LegsAreInOrder,
     Guided, HasRow, OnTheWay, Trip, AtIntake, OffShelf
  <2> QED
    BY <1>4, <2>1, <2>2, <2>3, <2>4, <2>5, <2>6, <2>7 DEF MachineStep
<1>5. CASE VerificationStep(r)
  <2>1. CASE RequireVerification(r)
    BY <2>1 DEF RequireVerification, At, Goto, CallState
  <2>2. CASE VerificationUnavailable(r)
    BY <2>2 DEF VerificationUnavailable, At, Goto
  <2>3. CASE AcceptCapture(r)
    BY <2>3 DEF AcceptCapture
  <2>4. CASE CancelCapture(r)
    BY <2>4 DEF CancelCapture
  <2>5. CASE SeeDecision(r)
    BY <2>5, SMTT(30) DEF SeeDecision, At, Goto, CallState
  <2>6. CASE AutomaticAcceptFails(r)
    BY <2>6 DEF AutomaticAcceptFails, At, Goto
  <2>7. CASE CaptureTimesOut(r)
    BY <2>7 DEF CaptureTimesOut, At, Goto
  <2>8. CASE CloseTimedOutMovement(r)
    BY <2>8 DEF CloseTimedOutMovement, At, Goto, SetMovement, MovementRow
  <2> HIDE DEF TypeOK, Own, RowIsOfCall, TripIsDriven, LegsAreInOrder,
     Guided, HasRow, OnTheWay, Trip, AtIntake, OffShelf
  <2> QED
    BY <1>5, <2>1, <2>2, <2>3, <2>4, <2>5, <2>6, <2>7, <2>8 DEF VerificationStep
<1>6. CASE RecoveryStep(r)
  <2>1. CASE SweepBeforeMotion(r)
    BY <2>1 DEF SweepBeforeMotion, CloseMovement
  <2>2. CASE SweepOffShelf(r)
    BY <2>2 DEF SweepOffShelf, CloseMovement
  <2> HIDE DEF TypeOK, Own, RowIsOfCall, TripIsDriven, LegsAreInOrder,
     Guided, HasRow, OnTheWay, Trip, AtIntake, OffShelf
  <2> QED
    BY <1>6, <2>1, <2>2, RecoverRetrievalOwn, RecoverPutawayOwn DEF RecoveryStep
<1> QED
  BY <1>1, <1>2, <1>3, <1>4, <1>5, <1>6 DEF Step, CallStep

LEMMA InitOwn == Init => OwnInv
  BY ConstantsAssumption, SMTT(30) DEF Init, OwnInv, NoMovement, IdleCall, RowIsOfCall,
     TripIsDriven,
     LegsAreInOrder, Guided, HasRow, OnTheWay, Trip, AtIntake, OffShelf

LEMMA NextOwn == Typing /\ OwnInv /\ [Next]_vars => OwnInv'
<1> SUFFICES ASSUME Typing, OwnInv, [Next]_vars PROVE OwnInv'
  OBVIOUS
<1>1. ASSUME NEW r \in Calls, Step(r) PROVE OwnInv'
  <2>1. CallFrame(r) /\ MovementFrame(r)
    BY <1>1, StepCallEffect, StepMovementEffect DEF CallEffect, MovementEffect
  <2>2. holder' \in {holder, r, NoCall}
    BY <1>1, HolderEffect DEF OwnInv, TripIsDriven
  <2>3. Own(r)'
    BY <1>1, StepOwn DEF Typing, OwnInv, Own
  <2>4. ASSUME NEW q \in Calls, q # r PROVE Own(q)'
    <3>1. call'[q] = call[q] /\ movement'[q] = movement[q] /\ (holder' = q => holder = q)
      BY <2>1, <2>2, <2>4, ConstantsAssumption DEF CallFrame, MovementFrame
    <3>2. Own(q)
      BY DEF OwnInv, Own
    <3> QED  BY <3>1, <3>2 DEF Own, RowIsOfCall, TripIsDriven, LegsAreInOrder,
                  Guided, HasRow, OnTheWay
  <2> QED  BY <2>3, <2>4 DEF OwnInv, Own
<1>2. CASE UNCHANGED <<call, movement, holder>>
  BY <1>2 DEF OwnInv, RowIsOfCall, TripIsDriven, LegsAreInOrder, Guided, HasRow, OnTheWay
<1> QED
  BY <1>1, <1>2 DEF Next, Step, Reconcile, AddStock, RemoveStock, vars
---------------------------------------------------------------------------
(* Bins and their owners.                                                  *)

(* What is fixed when a movement is created.                               *)
RowStays(r) ==
    HasRow(r) =>
      /\ HasRow(r)'
      /\ call'[r].bin = call[r].bin /\ call'[r].src = call[r].src
      /\ movement'[r].from = movement[r].from
      /\ call[r].carried => call'[r].carried

(* What a step of r does to a bin it has no business to misrelease: it     *)
(* leaves it alone, takes it from where the books say it is, or gives it   *)
(* back with a true record.                                                *)
Kept(r, b) ==
    /\ binStatus'[b] = binStatus[b] /\ owner'[b] = owner[b]
    /\ Holds(r, b)' => Holds(r, b)
Taken(r, b) ==
    /\ binStatus[b] # "RESERVED"
    /\ binStatus'[b] = "RESERVED" /\ owner'[b] = r
    /\ HasRow(r)' /\ place[b] = HomePlace(r, b)'
Given(r, b) ==
    /\ binStatus[b] = "RESERVED" /\ owner[b] = r /\ owner'[b] = r
    /\ ~Holds(r, b)'
    /\ \/ binStatus'[b] \in OnShelfStatus /\ place[b] = "shelf"
       \/ binStatus'[b] = "CHECKED_OUT" /\ place[b] = "output"

(* Before a step of r: r is the owner of what it holds, and the books are  *)
(* right about where bins are.                                             *)
Accounted(r) ==
    /\ \A b \in Bins \ misreleased : Holds(r, b) => binStatus[b] = "RESERVED" /\ owner[b] = r
    /\ PlacesAreRecorded
    /\ Traveller(r) \notin misreleased => Where(r)

StatusEffect(r) ==
    /\ RowStays(r) /\ UNCHANGED place
    /\ misreleased \subseteq misreleased'
    /\ \A b \in Bins \ misreleased' : Kept(r, b) \/ Taken(r, b) \/ Given(r, b)

(* What a call owns and has not carried is where it found it.               *)
LEMMA AtHome ==
  ASSUME NEW r \in Calls, Accounted(r), NEW x \in Bins \ misreleased,
         binStatus[x] = "RESERVED", owner[x] = r, ~call[r].carried
  PROVE  place[x] = HomePlace(r, x)
  BY DEF Accounted, PlacesAreRecorded, Recorded

LEMMA ReleasedCases ==
  ASSUME NEW status \in [Bins -> BinStatus], NEW b, NEW to, NEW x \in Bins
  PROVE  Released(status, b, to)[x] = IF x = b /\ status[x] = "RESERVED" THEN to ELSE status[x]
  BY DEF Released

LEMMA RetrievalClaimStatus ==
  ASSUME TypeOK, NEW r \in Calls, Own(r), Accounted(r), RetrievalClaim(r)
  PROVE  StatusEffect(r)
<1> DEFINE b == call[r].bin
           s == call[r].src
<1>1. /\ call[r].kind = "retrieve" /\ call[r].pc = "claim"
      /\ UNCHANGED <<place, holder>>
  BY DEF RetrievalClaim, At
<1>2. /\ ~HasRow(r) /\ ~call[r].carried /\ holder # r
      /\ call[r].orig # "RESERVED" /\ (s # NoBin => call[r].orig = "AVAILABLE" /\ s # b)
      /\ call[r].kind # "putaway" => s = NoBin
  BY <1>1 DEF Own, RowIsOfCall, TripIsDriven, LegsAreInOrder, Guided, HasRow, OnTheWay,
     Trip, AtIntake, OffShelf
<1>3. RowStays(r)
  BY <1>2 DEF RowStays
<1>4. CASE UNCHANGED <<binStatus, movement, owner, misreleased>>
  <2>1. ~HasRow(r)' /\ holder' # r
    BY <1>1, <1>2, <1>4 DEF HasRow
  <2>2. call'[r].pc = "done"
    <3>1. Goto(r, "done") \/ movement'[r].status = "VALIDATED"
      BY DEF RetrievalClaim, CreateMovement, TypeOK
    <3>2. Goto(r, "done")
      BY <1>2, <1>4, <3>1 DEF HasRow
    <3> QED  BY <3>2 DEF Goto, TypeOK, CallState, MovementRow
  <2>3. \A x \in Bins : Kept(r, x)
    BY <1>4, <2>1, <2>2 DEF Kept, Holds, OffShelf, Trip, AtIntake
  <2> QED  BY <1>1, <1>3, <1>4, <2>3 DEF StatusEffect
<1>5. CASE ~(UNCHANGED <<binStatus, movement, owner, misreleased>>)
  <2>1. /\ Reserve(r, {b})
        /\ binStatus[b] = "OCCUPIED"
    BY <1>5 DEF RetrievalClaim, CompatibleSlot, history
  <2>2. /\ movement'[r].status = "VALIDATED"
        /\ movement'[r].from = "NONE"
    BY <1>5 DEF RetrievalClaim, CreateMovement, history, TypeOK
  <2>3. /\ call'[r].src = s /\ call'[r].bin = b /\ call'[r].kind = "retrieve"
    <3>1. Goto(r, "run")
      BY <1>5 DEF RetrievalClaim, history
    <3> QED  BY <1>1, <3>1 DEF Goto, TypeOK, CallState, MovementRow
  <2>4. ASSUME NEW x \in Bins \ misreleased PROVE Kept(r, x) \/ Taken(r, x)
    <3>1. CASE x \in {b}
      <4>1. binStatus'[x] = "RESERVED" /\ owner'[x] = r
        BY <2>1, <3>1 DEF Reserve
      <4>2. HasRow(r)'
        BY <2>2 DEF HasRow
      <4>3. binStatus[x] # "RESERVED" /\ place[x] = HomePlace(r, x)'
        <5>1. Recorded(x)
          BY DEF Accounted, PlacesAreRecorded
        <5>2. HomePlace(r, x)' = IF x = s \/ (movement'[r].from = "OUTPUT" /\ s = NoBin)
                                 THEN "output" ELSE "shelf"
          BY <2>3 DEF HomePlace
        <5> QED  BY <1>1, <1>2, <2>1, <2>2, <3>1, <5>1, <5>2, ConstantsAssumption
                 DEF Recorded, OnShelfStatus
      <4> QED  BY <4>1, <4>2, <4>3 DEF Taken
    <3>2. CASE x \notin {b}
      <4>1. binStatus'[x] = binStatus[x] /\ owner'[x] = owner[x]
        BY <2>1, <3>2 DEF Reserve
      <4>2. ~Holds(r, x)'
        BY <1>1, <1>2, <2>3, <3>2, ConstantsAssumption DEF Holds, BinsOf
      <4> QED  BY <4>1, <4>2 DEF Kept
    <3> QED  BY <3>1, <3>2
  <2> QED  BY <1>1, <1>3, <2>1, <2>4 DEF StatusEffect, Reserve
<1> QED  BY <1>4, <1>5

LEMMA RetrievalReleaseStatus ==
  ASSUME TypeOK, NEW r \in Calls, Own(r), Accounted(r), RetrievalRelease(r)
  PROVE  StatusEffect(r)
<1> DEFINE b == call[r].bin
<1>1. /\ CloseMovement(r, "FAILED") /\ Goto(r, "done")
      /\ binStatus' = Released(binStatus, b, "OCCUPIED")
      /\ call[r].kind = "retrieve" /\ call[r].pc \in {"busy", "refused", "notMoved"}
      /\ UNCHANGED <<place, holder, owner, misreleased>>
  BY DEF RetrievalRelease, history
<1>2. /\ call'[r].pc = "done" /\ call'[r].kind = call[r].kind /\ call'[r].src = call[r].src
      /\ call'[r].bin = call[r].bin /\ call'[r].orig = call[r].orig
      /\ call'[r].carried = call[r].carried /\ call'[r].leg = call[r].leg
  BY <1>1, SMTT(30) DEF TypeOK, CallState, MovementRow, Goto
<1>3. /\ movement'[r].status = "FAILED" /\ movement'[r].type = movement[r].type
      /\ movement'[r].bin = movement[r].bin /\ movement'[r].src = movement[r].src
      /\ movement'[r].from = movement[r].from
  BY <1>1, SMTT(30) DEF TypeOK, CallState, MovementRow, CloseMovement
<1>4. /\ HasRow(r) /\ movement[r].type = "RETRIEVAL" /\ movement[r].status = "RUNNING"
      /\ movement[r].from = "NONE" /\ call[r].src = NoBin /\ ~call[r].carried /\ holder # r
  BY <1>1 DEF Own, RowIsOfCall, TripIsDriven, LegsAreInOrder, Guided, HasRow, OnTheWay,
     Trip, AtIntake, OffShelf
<1>5. RowStays(r)
  BY <1>2, <1>3, <1>4 DEF RowStays, HasRow
<1>6. ASSUME NEW x \in Bins \ misreleased PROVE Kept(r, x) \/ Given(r, x)
  <2>1. ~Holds(r, x)'
    BY <1>1, <1>2, <1>3, <1>4 DEF Holds, HasRow, Driving, Guided
  <2>2. CASE x = b
    <3>1. Holds(r, x)
      BY <1>4, <2>2 DEF Holds, BinsOf, Driving
    <3>2. binStatus[x] = "RESERVED" /\ owner[x] = r
      BY <3>1 DEF Accounted
    <3>3. place[x] = HomePlace(r, x)
      BY <1>4, <3>2 DEF Recorded, PlacesAreRecorded, Accounted
    <3>4. place[x] = "shelf"
      BY <1>4, <3>3, ConstantsAssumption DEF HomePlace
    <3>5. binStatus'[x] = "OCCUPIED"
      BY <1>1, <2>2, <3>2 DEF Released, TypeOK
    <3> QED  BY <1>1, <2>1, <3>2, <3>4, <3>5 DEF Given, OnShelfStatus
  <2>3. CASE x # b
    BY <1>1, <2>1, <2>3 DEF Kept, Released, TypeOK
  <2> QED  BY <2>2, <2>3
<1> QED  BY <1>1, <1>5, <1>6 DEF StatusEffect

LEMMA RetrievalCheckoutStatus ==
  ASSUME TypeOK, NEW r \in Calls, Own(r), Accounted(r), RetrievalCheckout(r)
  PROVE  StatusEffect(r)
<1> DEFINE b == call[r].bin
<1>1. /\ call[r].kind = "retrieve" /\ call[r].pc = "moved"
      /\ UNCHANGED <<place, holder, owner, misreleased>>
  BY DEF RetrievalCheckout, At, history
<1>2. PICK pc \in {"await", "done"} : Goto(r, pc)
  BY DEF RetrievalCheckout
<1>3. /\ call'[r].pc = pc /\ call'[r].kind = call[r].kind /\ call'[r].src = call[r].src
      /\ call'[r].bin = call[r].bin /\ call'[r].orig = call[r].orig
      /\ call'[r].carried = call[r].carried /\ call'[r].leg = call[r].leg
  BY <1>2, SMTT(30) DEF TypeOK, CallState, MovementRow, Goto
<1>4. /\ HasRow(r) /\ movement[r].type = "RETRIEVAL" /\ movement[r].status = "RUNNING"
      /\ movement[r].from = "NONE" /\ call[r].src = NoBin /\ holder # r
  BY <1>1 DEF Own, RowIsOfCall, TripIsDriven, LegsAreInOrder, Guided, HasRow, OnTheWay,
     Trip, AtIntake, OffShelf
<1>5. CASE UNCHANGED <<binStatus, movement>>
  <2>1. RowStays(r)
    BY <1>3, <1>5 DEF RowStays, HasRow
  <2>2. \A x \in Bins : Kept(r, x)
    BY <1>1, <1>3, <1>4, <1>5 DEF Kept, Holds, BinsOf, HasRow, Driving, Guided
  <2> QED  BY <1>1, <2>1, <2>2 DEF StatusEffect
<1>6. CASE ~(UNCHANGED <<binStatus, movement>>)
  <2>1. PICK status \in {"AWAITING_VERIFICATION", "COMPLETED"} : SetMovement(r, status)
    BY <1>6 DEF RetrievalCheckout
  <2>2. /\ movement'[r].status = status /\ movement'[r].type = movement[r].type
      /\ movement'[r].bin = movement[r].bin /\ movement'[r].src = movement[r].src
      /\ movement'[r].from = movement[r].from
    BY <2>1, SMTT(30) DEF TypeOK, CallState, MovementRow, SetMovement
  <2>3. binStatus[b] = "RESERVED" /\ binStatus' = [binStatus EXCEPT ![b] = "CHECKED_OUT"]
    BY <1>6 DEF RetrievalCheckout
  <2>4. RowStays(r)
    BY <1>3, <2>1, <2>2 DEF RowStays, HasRow
  <2>5. ASSUME NEW x \in Bins \ misreleased PROVE Kept(r, x) \/ Given(r, x)
    <3>1. ~Holds(r, x)'
      BY <1>1, <1>3, <1>4, <2>1, <2>2 DEF Holds, HasRow, Driving, Guided
    <3>2. CASE x = b
      <4>1. Holds(r, x)
        BY <1>4, <3>2 DEF Holds, BinsOf, Driving
      <4>2. binStatus[x] = "RESERVED" /\ owner[x] = r
        BY <4>1 DEF Accounted
      <4>3. Traveller(r) = x /\ Target(r) = "output"
        BY <1>1, <1>4, <3>2 DEF Traveller, Target
      <4>4. place[x] = "output"
        BY <1>1, <4>3 DEF Accounted, Where
      <4>5. binStatus'[x] = "CHECKED_OUT"
        BY <2>3, <3>2 DEF TypeOK
      <4> QED  BY <1>1, <3>1, <4>2, <4>4, <4>5 DEF Given
    <3>3. CASE x # b
      BY <1>1, <2>3, <3>1, <3>3 DEF Kept, TypeOK
    <3> QED  BY <3>2, <3>3
  <2> QED  BY <1>1, <2>4, <2>5 DEF StatusEffect
<1> QED  BY <1>5, <1>6

LEMMA PutawayClaimStatus ==
  ASSUME TypeOK, NEW r \in Calls, Own(r), Accounted(r), PutawayClaim(r)
  PROVE  StatusEffect(r)
<1> DEFINE b == call[r].bin
           s == call[r].src
<1>1. /\ call[r].kind = "putaway" /\ call[r].pc = "claim"
      /\ UNCHANGED <<place, holder>>
  BY DEF PutawayClaim, At
<1>2. /\ ~HasRow(r) /\ ~call[r].carried /\ holder # r
      /\ call[r].orig # "RESERVED" /\ (s # NoBin => call[r].orig = "AVAILABLE" /\ s # b)
      /\ call[r].kind # "putaway" => s = NoBin
  BY <1>1 DEF Own, RowIsOfCall, TripIsDriven, LegsAreInOrder, Guided, HasRow, OnTheWay,
     Trip, AtIntake, OffShelf
<1>3. RowStays(r)
  BY <1>2 DEF RowStays
<1>4. CASE UNCHANGED <<binStatus, movement, owner, misreleased>>
  <2>1. ~HasRow(r)' /\ holder' # r
    BY <1>1, <1>2, <1>4 DEF HasRow
  <2>2. call'[r].pc = "done"
    <3>1. Goto(r, "done") \/ movement'[r].status = "VALIDATED"
      BY DEF PutawayClaim, CreateMovement, TypeOK
    <3>2. Goto(r, "done")
      BY <1>2, <1>4, <3>1 DEF HasRow
    <3> QED  BY <3>2 DEF Goto, TypeOK, CallState, MovementRow
  <2>3. \A x \in Bins : Kept(r, x)
    BY <1>4, <2>1, <2>2 DEF Kept, Holds, OffShelf, Trip, AtIntake
  <2> QED  BY <1>1, <1>3, <1>4, <2>3 DEF StatusEffect
<1>5. CASE ~(UNCHANGED <<binStatus, movement, owner, misreleased>>)
  <2>1. /\ Reserve(r, {b, s})
        /\ binStatus[b] = call[r].orig
        /\ s # NoBin => binStatus[s] = "CHECKED_OUT"
    BY <1>5 DEF PutawayClaim, CompatibleSlot, history
  <2>2. /\ movement'[r].status = "VALIDATED"
        /\ movement'[r].from = (IF Returning(r) THEN "OUTPUT" ELSE "INTAKE")
    BY <1>5 DEF PutawayClaim, CreateMovement, history, TypeOK
  <2>3. /\ call'[r].src = s /\ call'[r].bin = b /\ call'[r].kind = "putaway"
    <3>1. Goto(r, "await")
      BY <1>5 DEF PutawayClaim, history
    <3> QED  BY <1>1, <3>1 DEF Goto, TypeOK, CallState, MovementRow
  <2>4. ASSUME NEW x \in Bins \ misreleased PROVE Kept(r, x) \/ Taken(r, x)
    <3>1. CASE x \in {b, s}
      <4>1. binStatus'[x] = "RESERVED" /\ owner'[x] = r
        BY <2>1, <3>1 DEF Reserve
      <4>2. HasRow(r)'
        BY <2>2 DEF HasRow
      <4>3. binStatus[x] # "RESERVED" /\ place[x] = HomePlace(r, x)'
        <5>1. Recorded(x)
          BY DEF Accounted, PlacesAreRecorded
        <5>2. HomePlace(r, x)' = IF x = s \/ (movement'[r].from = "OUTPUT" /\ s = NoBin)
                                 THEN "output" ELSE "shelf"
          BY <2>3 DEF HomePlace
        <5> QED  BY <1>1, <1>2, <2>1, <2>2, <3>1, <5>1, <5>2, ConstantsAssumption
                 DEF Recorded, OnShelfStatus, Returning, BinStatus, TypeOK
      <4> QED  BY <4>1, <4>2, <4>3 DEF Taken
    <3>2. CASE x \notin {b, s}
      <4>1. binStatus'[x] = binStatus[x] /\ owner'[x] = owner[x]
        BY <2>1, <3>2 DEF Reserve
      <4>2. ~Holds(r, x)'
        BY <1>1, <1>2, <2>3, <3>2, ConstantsAssumption DEF Holds, BinsOf
      <4> QED  BY <4>1, <4>2 DEF Kept
    <3> QED  BY <3>1, <3>2
  <2> QED  BY <1>1, <1>3, <2>1, <2>4 DEF StatusEffect, Reserve
<1> QED  BY <1>4, <1>5

LEMMA ReturnClaimStatus ==
  ASSUME TypeOK, NEW r \in Calls, Own(r), Accounted(r), ReturnClaim(r)
  PROVE  StatusEffect(r)
<1> DEFINE b == call[r].bin
           s == call[r].src
<1>1. /\ call[r].kind = "return" /\ call[r].pc = "claim"
      /\ UNCHANGED <<place, holder>>
  BY DEF ReturnClaim, At
<1>2. /\ ~HasRow(r) /\ ~call[r].carried /\ holder # r
      /\ call[r].orig # "RESERVED" /\ (s # NoBin => call[r].orig = "AVAILABLE" /\ s # b)
      /\ call[r].kind # "putaway" => s = NoBin
  BY <1>1 DEF Own, RowIsOfCall, TripIsDriven, LegsAreInOrder, Guided, HasRow, OnTheWay,
     Trip, AtIntake, OffShelf
<1>3. RowStays(r)
  BY <1>2 DEF RowStays
<1>4. CASE UNCHANGED <<binStatus, movement, owner, misreleased>>
  <2>1. ~HasRow(r)' /\ holder' # r
    BY <1>1, <1>2, <1>4 DEF HasRow
  <2>2. call'[r].pc = "done"
    <3>1. Goto(r, "done") \/ movement'[r].status = "VALIDATED"
      BY DEF ReturnClaim, CreateMovement, TypeOK
    <3>2. Goto(r, "done")
      BY <1>2, <1>4, <3>1 DEF HasRow
    <3> QED  BY <3>2 DEF Goto, TypeOK, CallState, MovementRow
  <2>3. \A x \in Bins : Kept(r, x)
    BY <1>4, <2>1, <2>2 DEF Kept, Holds, OffShelf, Trip, AtIntake
  <2> QED  BY <1>1, <1>3, <1>4, <2>3 DEF StatusEffect
<1>5. CASE ~(UNCHANGED <<binStatus, movement, owner, misreleased>>)
  <2>1. /\ Reserve(r, {b})
        /\ binStatus[b] = "CHECKED_OUT"
    BY <1>5 DEF ReturnClaim, CompatibleSlot, history
  <2>2. /\ movement'[r].status = "VALIDATED"
        /\ movement'[r].from = "OUTPUT"
    BY <1>5 DEF ReturnClaim, CreateMovement, history, TypeOK
  <2>3. /\ call'[r].src = s /\ call'[r].bin = b /\ call'[r].kind = "return"
    <3>1. call' = [call EXCEPT ![r].pc = "await", ![r].base = stock[b]]
      BY <1>5 DEF ReturnClaim, history
    <3>2. call'[r] = [call[r] EXCEPT !.pc = "await", !.base = stock[b]]
      BY <3>1 DEF TypeOK
    <3> QED  BY <1>1, <3>2 DEF TypeOK, CallState, MovementRow
  <2>4. ASSUME NEW x \in Bins \ misreleased PROVE Kept(r, x) \/ Taken(r, x)
    <3>1. CASE x \in {b}
      <4>1. binStatus'[x] = "RESERVED" /\ owner'[x] = r
        BY <2>1, <3>1 DEF Reserve
      <4>2. HasRow(r)'
        BY <2>2 DEF HasRow
      <4>3. binStatus[x] # "RESERVED" /\ place[x] = HomePlace(r, x)'
        <5>1. Recorded(x)
          BY DEF Accounted, PlacesAreRecorded
        <5>2. HomePlace(r, x)' = IF x = s \/ (movement'[r].from = "OUTPUT" /\ s = NoBin)
                                 THEN "output" ELSE "shelf"
          BY <2>3 DEF HomePlace
        <5> QED  BY <1>1, <1>2, <2>1, <2>2, <3>1, <5>1, <5>2, ConstantsAssumption
                 DEF Recorded, OnShelfStatus
      <4> QED  BY <4>1, <4>2, <4>3 DEF Taken
    <3>2. CASE x \notin {b}
      <4>1. binStatus'[x] = binStatus[x] /\ owner'[x] = owner[x]
        BY <2>1, <3>2 DEF Reserve
      <4>2. ~Holds(r, x)'
        BY <1>1, <1>2, <2>3, <3>2, ConstantsAssumption DEF Holds, BinsOf
      <4> QED  BY <4>1, <4>2 DEF Kept
    <3> QED  BY <3>1, <3>2
  <2> QED  BY <1>1, <1>3, <2>1, <2>4 DEF StatusEffect, Reserve
<1> QED  BY <1>4, <1>5

LEMMA PutawayReleaseStatus ==
  ASSUME TypeOK, NEW r \in Calls, Own(r), Accounted(r), PutawayRelease(r)
  PROVE  StatusEffect(r)
<1> DEFINE b == call[r].bin
           s == call[r].src
           restored == Released(binStatus, b, call[r].orig)
<1>1. /\ CloseMovement(r, "FAILED") /\ Goto(r, "done")
      /\ binStatus' = IF s = NoBin THEN restored ELSE Released(restored, s, "CHECKED_OUT")
      /\ call[r].kind \in {"putaway", "return"}
      /\ call[r].pc \in {"abort", "busy", "refused", "notMoved"}
      /\ misreleased' = misreleased \cup
           {x \in {b, s} \cap Bins : binStatus[x] = "RESERVED" /\ owner[x] # r}
      /\ UNCHANGED <<place, holder, owner>>
  BY DEF PutawayRelease
<1>2. /\ call'[r].pc = "done" /\ call'[r].kind = call[r].kind /\ call'[r].src = call[r].src
      /\ call'[r].bin = call[r].bin /\ call'[r].orig = call[r].orig
      /\ call'[r].carried = call[r].carried /\ call'[r].leg = call[r].leg
  BY <1>1, SMTT(30) DEF TypeOK, CallState, MovementRow, Goto
<1>3. /\ movement'[r].status = "FAILED" /\ movement'[r].type = movement[r].type
      /\ movement'[r].bin = movement[r].bin /\ movement'[r].src = movement[r].src
      /\ movement'[r].from = movement[r].from
  BY <1>1, SMTT(30) DEF TypeOK, CallState, MovementRow, CloseMovement
<1>4. /\ HasRow(r) /\ ~call[r].carried /\ holder # r
      /\ call[r].orig # "RESERVED"
      /\ movement[r].from = "OUTPUT" <=> call[r].orig = "CHECKED_OUT" \/ s # NoBin
      /\ s # NoBin => call[r].orig = "AVAILABLE" /\ s # b
  BY <1>1 DEF Own, RowIsOfCall, TripIsDriven, LegsAreInOrder, Guided, HasRow, OnTheWay,
     Trip, AtIntake, OffShelf
<1>5. RowStays(r)
  BY <1>2, <1>3, <1>4 DEF RowStays, HasRow
<1>6. call[r].orig \in BinStatus
  BY DEF TypeOK, CallState, MovementRow
<1>7. restored \in [Bins -> BinStatus]
  BY <1>6, ReleasedType DEF TypeOK
<1>8. ASSUME NEW x \in Bins \ misreleased' PROVE Kept(r, x) \/ Given(r, x)
  <2>1. ~Holds(r, x)'
    BY <1>1, <1>2, <1>3, <1>4 DEF Holds, HasRow, Driving, Guided
  <2>2. restored[x] = IF x = b /\ binStatus[x] = "RESERVED" THEN call[r].orig ELSE binStatus[x]
    BY ReleasedCases DEF TypeOK
  <2>3. binStatus'[x] = IF binStatus[x] # "RESERVED" THEN binStatus[x]
                        ELSE IF x = s THEN "CHECKED_OUT"
                        ELSE IF x = b THEN call[r].orig ELSE binStatus[x]
    <3>1. CASE s = NoBin
      BY <1>1, <2>2, <3>1, ConstantsAssumption
    <3>2. CASE s # NoBin
      <4>1. binStatus' = Released(restored, s, "CHECKED_OUT")
        BY <1>1, <3>2
      <4>2. binStatus'[x] = IF x = s /\ restored[x] = "RESERVED" THEN "CHECKED_OUT" ELSE restored[x]
        BY <4>1, <1>7, ReleasedCases
      <4> QED  BY <4>2, <2>2, <1>4, <3>2
    <3> QED  BY <3>1, <3>2
  <2>4. CASE binStatus[x] = "RESERVED" /\ x \in {b, s}
    <3>1. owner[x] = r /\ x \notin misreleased
      BY <1>1, <2>4
    <3>2. place[x] = HomePlace(r, x)
      BY <1>4, <2>4, <3>1, AtHome
    <3>3. CASE x = s
      BY <1>1, <1>4, <2>1, <2>3, <2>4, <3>1, <3>2, <3>3 DEF Given, HomePlace
    <3>4. CASE x = b /\ x # s
      BY <1>1, <1>4, <1>6, <2>1, <2>3, <2>4, <3>1, <3>2, <3>4
         DEF Given, HomePlace, OnShelfStatus, BinStatus
    <3> QED  BY <2>4, <3>3, <3>4
  <2>5. CASE ~(binStatus[x] = "RESERVED" /\ x \in {b, s})
    BY <1>1, <2>1, <2>3, <2>5 DEF Kept
  <2> QED  BY <2>4, <2>5
<1> QED  BY <1>1, <1>5, <1>8 DEF StatusEffect

LEMMA PutawayCommitStatus ==
  ASSUME TypeOK, NEW r \in Calls, Own(r), Accounted(r), PutawayCommit(r)
  PROVE  StatusEffect(r)
<1> DEFINE b == call[r].bin
           s == call[r].src
           n == capture[r].count
<1>1. /\ call[r].kind \in {"putaway", "return"} /\ call[r].pc = "moved"
      /\ Goto(r, "done")
      /\ UNCHANGED <<place, holder, owner, misreleased>>
  BY DEF PutawayCommit, At, history
<1>2. /\ call'[r].pc = "done" /\ call'[r].kind = call[r].kind /\ call'[r].src = call[r].src
      /\ call'[r].bin = call[r].bin /\ call'[r].orig = call[r].orig
      /\ call'[r].carried = call[r].carried /\ call'[r].leg = call[r].leg
  BY <1>1, SMTT(30) DEF TypeOK, CallState, MovementRow, Goto
<1>3. /\ HasRow(r) /\ movement[r].type = "PUTAWAY" /\ movement[r].status = "RUNNING"
      /\ movement[r].bin = b /\ movement[r].src = s /\ holder # r
      /\ s # NoBin => s # b
  BY <1>1 DEF Own, RowIsOfCall, TripIsDriven, LegsAreInOrder, Guided, HasRow, OnTheWay,
     Trip, AtIntake, OffShelf
<1>4. CASE UNCHANGED <<binStatus, movement>>
  <2>1. RowStays(r)
    BY <1>2, <1>4 DEF RowStays, HasRow
  <2>2. \A x \in Bins : Kept(r, x)
    BY <1>1, <1>2, <1>3, <1>4 DEF Kept, Holds, BinsOf, HasRow, Driving, Guided
  <2> QED  BY <1>1, <2>1, <2>2 DEF StatusEffect
<1>5. CASE ~(UNCHANGED <<binStatus, movement>>)
  <2>1. /\ SetMovement(r, "COMPLETED")
        /\ binStatus' = [x \in Bins |->
             CASE x = b -> IF n > 0 THEN "OCCUPIED" ELSE "AVAILABLE"
               [] x = s -> "AVAILABLE"
               [] OTHER -> binStatus[x]]
    BY <1>5 DEF PutawayCommit
  <2>2. /\ movement'[r].status = "COMPLETED" /\ movement'[r].type = movement[r].type
      /\ movement'[r].bin = movement[r].bin /\ movement'[r].src = movement[r].src
      /\ movement'[r].from = movement[r].from
    BY <2>1, SMTT(30) DEF TypeOK, CallState, MovementRow, SetMovement
  <2>3. RowStays(r)
    BY <1>2, <2>2 DEF RowStays, HasRow
  <2>4. ASSUME NEW x \in Bins \ misreleased PROVE Kept(r, x) \/ Given(r, x)
    <3>1. ~Holds(r, x)'
      BY <1>1, <1>2, <1>3, <2>2 DEF Holds, HasRow, Driving, Guided
    <3>2. CASE x \in {b, s}
      <4>1. Holds(r, x)
        BY <1>3, <3>2 DEF Holds, BinsOf, Driving
      <4>2. binStatus[x] = "RESERVED" /\ owner[x] = r
        BY <4>1 DEF Accounted
      <4>3. place[x] = "shelf"
        <5>1. CASE x = Traveller(r)
          BY <1>1, <5>1 DEF Accounted, Where, Target
        <5>2. CASE x # Traveller(r)
          <6>1. place[x] = HomePlace(r, x)
            BY <4>2, <5>2 DEF Accounted, PlacesAreRecorded, Recorded
          <6> QED  BY <1>3, <3>2, <5>2, <6>1, ConstantsAssumption DEF HomePlace, Traveller
        <5> QED  BY <5>1, <5>2
      <4>4. binStatus'[x] \in OnShelfStatus
        BY <2>1, <3>2 DEF OnShelfStatus
      <4> QED  BY <1>1, <3>1, <4>2, <4>3, <4>4 DEF Given
    <3>3. CASE x \notin {b, s}
      BY <1>1, <2>1, <3>1, <3>3 DEF Kept
    <3> QED  BY <3>2, <3>3
  <2> QED  BY <1>1, <2>3, <2>4 DEF StatusEffect
<1> QED  BY <1>4, <1>5

LEMMA GuidedPrepareStatus ==
  ASSUME TypeOK, NEW r \in Calls, Own(r), Accounted(r), GuidedPrepare(r)
  PROVE  StatusEffect(r)
<1> DEFINE b == call[r].bin
           s == call[r].src
<1>1. /\ call[r].kind = "guided" /\ call[r].pc = "claim"
      /\ UNCHANGED <<place, holder>>
  BY DEF GuidedPrepare, At
<1>2. /\ ~HasRow(r) /\ ~call[r].carried /\ holder # r
      /\ call[r].orig # "RESERVED" /\ (s # NoBin => call[r].orig = "AVAILABLE" /\ s # b)
      /\ call[r].kind # "putaway" => s = NoBin
  BY <1>1 DEF Own, RowIsOfCall, TripIsDriven, LegsAreInOrder, Guided, HasRow, OnTheWay,
     Trip, AtIntake, OffShelf
<1>3. RowStays(r)
  BY <1>2 DEF RowStays
<1>4. CASE UNCHANGED <<binStatus, movement, owner, misreleased>>
  <2>1. ~HasRow(r)' /\ holder' # r
    BY <1>1, <1>2, <1>4 DEF HasRow
  <2>2. call'[r].pc = "done"
    <3>1. Goto(r, "done") \/ movement'[r].status = "VALIDATED"
      BY DEF GuidedPrepare, CreateMovement, TypeOK
    <3>2. Goto(r, "done")
      BY <1>2, <1>4, <3>1 DEF HasRow
    <3> QED  BY <3>2 DEF Goto, TypeOK, CallState, MovementRow
  <2>3. \A x \in Bins : Kept(r, x)
    BY <1>4, <2>1, <2>2 DEF Kept, Holds, OffShelf, Trip, AtIntake
  <2> QED  BY <1>1, <1>3, <1>4, <2>3 DEF StatusEffect
<1>5. CASE ~(UNCHANGED <<binStatus, movement, owner, misreleased>>)
  <2>1. /\ Reserve(r, {b})
        /\ binStatus[b] \in OnShelfStatus
    BY <1>5 DEF GuidedPrepare, CompatibleSlot, history
  <2>2. /\ movement'[r].status = "VALIDATED"
        /\ movement'[r].from = "INTAKE"
    BY <1>5 DEF GuidedPrepare, CreateMovement, history, TypeOK
  <2>3. /\ call'[r].src = s /\ call'[r].bin = b /\ call'[r].kind = "guided"
    <3>1. Goto(r, "prepared")
      BY <1>5 DEF GuidedPrepare, history
    <3> QED  BY <1>1, <3>1 DEF Goto, TypeOK, CallState, MovementRow
  <2>4. ASSUME NEW x \in Bins \ misreleased PROVE Kept(r, x) \/ Taken(r, x)
    <3>1. CASE x \in {b}
      <4>1. binStatus'[x] = "RESERVED" /\ owner'[x] = r
        BY <2>1, <3>1 DEF Reserve
      <4>2. HasRow(r)'
        BY <2>2 DEF HasRow
      <4>3. binStatus[x] # "RESERVED" /\ place[x] = HomePlace(r, x)'
        <5>1. Recorded(x)
          BY DEF Accounted, PlacesAreRecorded
        <5>2. HomePlace(r, x)' = IF x = s \/ (movement'[r].from = "OUTPUT" /\ s = NoBin)
                                 THEN "output" ELSE "shelf"
          BY <2>3 DEF HomePlace
        <5> QED  BY <1>1, <1>2, <2>1, <2>2, <3>1, <5>1, <5>2, ConstantsAssumption
                 DEF Recorded, OnShelfStatus
      <4> QED  BY <4>1, <4>2, <4>3 DEF Taken
    <3>2. CASE x \notin {b}
      <4>1. binStatus'[x] = binStatus[x] /\ owner'[x] = owner[x]
        BY <2>1, <3>2 DEF Reserve
      <4>2. ~Holds(r, x)'
        BY <1>1, <1>2, <2>3, <3>2, ConstantsAssumption DEF Holds, BinsOf
      <4> QED  BY <4>1, <4>2 DEF Kept
    <3> QED  BY <3>1, <3>2
  <2> QED  BY <1>1, <1>3, <2>1, <2>4 DEF StatusEffect, Reserve
<1> QED  BY <1>4, <1>5

LEMMA GuidedCommitStatus ==
  ASSUME TypeOK, NEW r \in Calls, Own(r), Accounted(r), GuidedCommit(r)
  PROVE  StatusEffect(r)
<1> DEFINE b == call[r].bin
<1>1. /\ call[r].kind = "guided" /\ call[r].pc = "returned"
      /\ Goto(r, "done")
      /\ UNCHANGED <<place, holder, owner, misreleased>>
  BY DEF GuidedCommit, At, history
<1>2. /\ call'[r].pc = "done" /\ call'[r].kind = call[r].kind /\ call'[r].src = call[r].src
      /\ call'[r].bin = call[r].bin /\ call'[r].orig = call[r].orig
      /\ call'[r].carried = call[r].carried /\ call'[r].leg = call[r].leg
  BY <1>1, SMTT(30) DEF TypeOK, CallState, MovementRow, Goto
<1>3. HasRow(r) /\ movement[r].type = "PUTAWAY" /\ holder # r /\ call[r].src = NoBin
  BY <1>1 DEF Own, RowIsOfCall, TripIsDriven, LegsAreInOrder, Guided, HasRow, OnTheWay,
     Trip, AtIntake, OffShelf
<1>4. CASE UNCHANGED <<binStatus, movement>>
  <2>1. RowStays(r)
    BY <1>2, <1>4 DEF RowStays, HasRow
  <2>2. \A x \in Bins : Kept(r, x)
    BY <1>1, <1>2, <1>3, <1>4 DEF Kept, Holds, BinsOf, HasRow, Guided, Own, RowIsOfCall,
       TripIsDriven, LegsAreInOrder, Guided, HasRow, OnTheWay, Trip, AtIntake, OffShelf
  <2> QED  BY <1>1, <2>1, <2>2 DEF StatusEffect
<1>5. CASE ~(UNCHANGED <<binStatus, movement>>)
  <2>1. PICK status \in {"COMPLETED", "CANCELLED"} :
          SetMovement(r, status) \/ CloseMovement(r, status)
    BY <1>5 DEF GuidedCommit
  <2>2. /\ movement'[r].status = status /\ movement'[r].type = movement[r].type
      /\ movement'[r].bin = movement[r].bin /\ movement'[r].src = movement[r].src
      /\ movement'[r].from = movement[r].from
    BY <2>1, SMTT(30) DEF TypeOK, CallState, MovementRow, SetMovement, CloseMovement
  <2>3. PICK to \in OnShelfStatus : binStatus' = [binStatus EXCEPT ![b] = to]
    BY <1>5 DEF GuidedCommit, OnShelfStatus
  <2>4. RowStays(r)
    BY <1>2, <2>1, <2>2 DEF RowStays, HasRow
  <2>5. ASSUME NEW x \in Bins \ misreleased PROVE Kept(r, x) \/ Given(r, x)
    <3>1. ~Holds(r, x)'
      BY <1>1, <1>2, <1>3, <2>1, <2>2 DEF Holds, HasRow, Driving, Guided, OffShelf, Trip,
         AtIntake
    <3>2. CASE x = b
      <4>1. Holds(r, x)
        BY <1>1, <3>2 DEF Holds, BinsOf, Guided, OffShelf
      <4>2. binStatus[x] = "RESERVED" /\ owner[x] = r
        BY <4>1 DEF Accounted
      <4>3. place[x] = "shelf"
        BY <1>1, <1>3, <3>2 DEF Accounted, Where, Traveller, Guided
      <4>4. binStatus'[x] \in OnShelfStatus
        BY <2>3, <3>2 DEF TypeOK
      <4> QED  BY <1>1, <3>1, <4>2, <4>3, <4>4 DEF Given
    <3>3. CASE x # b
      BY <1>1, <2>3, <3>1, <3>3 DEF Kept, TypeOK
    <3> QED  BY <3>2, <3>3
  <2> QED  BY <1>1, <2>4, <2>5 DEF StatusEffect
<1> QED  BY <1>4, <1>5

LEMMA RecoverPutawayStatus ==
  ASSUME TypeOK, NEW r \in Calls, Own(r), Accounted(r), RecoverPutaway(r)
  PROVE  StatusEffect(r)
<1> DEFINE b == movement[r].bin
           s == movement[r].src
           to == DestinationStatusBeforeReservation(r)
           released == Released(binStatus, b, to)
<1>1. /\ CloseMovement(r, "FAILED") /\ Recoverable(r) /\ movement[r].type = "PUTAWAY"
      /\ binStatus' = IF s = NoBin THEN released ELSE Released(released, s, "CHECKED_OUT")
      /\ misreleased' = IF movement[r].status = "AWAITING_PLACEMENT"
                        THEN misreleased \cup {b} ELSE misreleased
      /\ UNCHANGED <<call, place, holder, owner>>
  BY DEF RecoverPutaway
<1>2. /\ movement'[r].status = "FAILED" /\ movement'[r].type = movement[r].type
      /\ movement'[r].bin = movement[r].bin /\ movement'[r].src = movement[r].src
      /\ movement'[r].from = movement[r].from
  BY <1>1, SMTT(30) DEF TypeOK, CallState, MovementRow, CloseMovement
<1>3. /\ HasRow(r) /\ b = call[r].bin /\ s = call[r].src
      /\ s # NoBin => movement[r].from = "OUTPUT" /\ s # b
  BY <1>1 DEF Recoverable, Own, RowIsOfCall, TripIsDriven, LegsAreInOrder, Guided, HasRow,
     OnTheWay, Trip, AtIntake, OffShelf
<1>4. RowStays(r)
  BY <1>1, <1>2, <1>3 DEF RowStays, HasRow
<1>5. /\ Driving(r)
      /\ movement[r].status \in {"VALIDATED", "AWAITING_PLACEMENT"}
  BY <1>1 DEF Recoverable, Driving
<1>6. /\ movement[r].status = "VALIDATED" => ~call[r].carried /\ holder # r
                                           /\ ~(Guided(r) /\ call[r].pc \in OffShelf)
      /\ movement[r].status = "AWAITING_PLACEMENT" => Guided(r) /\ s = NoBin
  BY <1>1, <1>3 DEF Own, RowIsOfCall, TripIsDriven, LegsAreInOrder, Guided, HasRow,
     OnTheWay, Trip, AtIntake, OffShelf
<1>7. to \in BinStatus /\ to # "RESERVED"
  BY DEF DestinationStatusBeforeReservation, BinStatus
<1>8. released \in [Bins -> BinStatus]
  BY <1>7, ReleasedType DEF TypeOK
<1>9. ASSUME NEW x \in Bins \ misreleased' PROVE Kept(r, x) \/ Given(r, x)
  <2>1. x \notin misreleased /\ (movement[r].status = "AWAITING_PLACEMENT" => x # b)
    BY <1>1
  <2>2. binStatus'[x] = IF binStatus[x] # "RESERVED" THEN binStatus[x]
                        ELSE IF x = s THEN "CHECKED_OUT"
                        ELSE IF x = b THEN to ELSE binStatus[x]
    <3>1. released[x] = IF x = b /\ binStatus[x] = "RESERVED" THEN to ELSE binStatus[x]
      BY ReleasedCases DEF TypeOK
    <3>2. CASE s = NoBin
      BY <1>1, <3>1, <3>2, ConstantsAssumption
    <3>3. CASE s # NoBin
      <4>1. binStatus' = Released(released, s, "CHECKED_OUT")
        BY <1>1, <3>3
      <4>2. binStatus'[x] = IF x = s /\ released[x] = "RESERVED" THEN "CHECKED_OUT" ELSE released[x]
        BY <4>1, <1>8, ReleasedCases
      <4> QED  BY <4>2, <3>1, <1>3, <3>3
    <3> QED  BY <3>2, <3>3
  <2>3. CASE x \in {b, s}
    <3>1. movement[r].status = "VALIDATED"
      BY <1>5, <1>6, <2>1, <2>3, ConstantsAssumption
    <3>2. ~Holds(r, x)'
      BY <1>1, <1>2, <1>6, <3>1 DEF Holds, HasRow, Driving, Guided
    <3>3. Holds(r, x)
      BY <1>3, <1>5, <2>3 DEF Holds, BinsOf
    <3>4. binStatus[x] = "RESERVED" /\ owner[x] = r
      BY <2>1, <3>3 DEF Accounted
    <3>5. place[x] = HomePlace(r, x)
      BY <1>6, <2>1, <3>1, <3>4, AtHome
    <3>6. CASE x = s
      BY <1>1, <1>3, <2>2, <3>2, <3>4, <3>5, <3>6 DEF Given, HomePlace
    <3>7. CASE x = b /\ x # s
      BY <1>1, <1>3, <2>2, <3>2, <3>4, <3>5, <3>7
      DEF Given, HomePlace, OnShelfStatus, DestinationStatusBeforeReservation
    <3> QED  BY <2>3, <3>6, <3>7
  <2>4. CASE x \notin {b, s}
    <3>1. ~Holds(r, x)'
      BY <1>1, <1>3, <2>4 DEF Holds, BinsOf
    <3> QED  BY <1>1, <2>2, <2>4, <3>1 DEF Kept
  <2> QED  BY <2>3, <2>4
<1> QED  BY <1>1, <1>4, <1>9 DEF StatusEffect

LEMMA SweepBeforeMotionStatus ==
  ASSUME TypeOK, NEW r \in Calls, Own(r), Accounted(r), SweepBeforeMotion(r)
  PROVE  StatusEffect(r)
<1> DEFINE b == movement[r].bin
           to == IF Held(b) > 0 THEN "OCCUPIED" ELSE "AVAILABLE"
<1>1. /\ CloseMovement(r, "CANCELLED")
      /\ movement[r].type = "PUTAWAY" /\ movement[r].status = "VALIDATED"
      /\ binStatus' = Released(binStatus, b, to)
      /\ misreleased' = IF movement[r].from = "OUTPUT" /\ movement[r].src = NoBin
                        THEN misreleased \cup {b} ELSE misreleased
      /\ UNCHANGED <<call, place, holder, owner>>
  BY DEF SweepBeforeMotion
<1>2. /\ movement'[r].status = "CANCELLED" /\ movement'[r].type = movement[r].type
      /\ movement'[r].bin = movement[r].bin /\ movement'[r].src = movement[r].src
      /\ movement'[r].from = movement[r].from
  BY <1>1, SMTT(30) DEF TypeOK, CallState, MovementRow, CloseMovement
<1>3. /\ HasRow(r) /\ b = call[r].bin /\ movement[r].src = call[r].src
      /\ call[r].src # NoBin => call[r].src # b
      /\ ~call[r].carried /\ holder # r /\ ~(Guided(r) /\ call[r].pc \in OffShelf)
  BY <1>1 DEF Own, RowIsOfCall, TripIsDriven, LegsAreInOrder, Guided, HasRow, OnTheWay,
     Trip, AtIntake, OffShelf
<1>4. RowStays(r)
  BY <1>1, <1>2, <1>3 DEF RowStays, HasRow
<1>5. ASSUME NEW x \in Bins \ misreleased' PROVE Kept(r, x) \/ Given(r, x)
  <2>1. ~Holds(r, x)'
    BY <1>1, <1>2, <1>3 DEF Holds, HasRow, Driving, Guided
  <2>2. binStatus'[x] = IF x = b /\ binStatus[x] = "RESERVED" THEN to ELSE binStatus[x]
    BY <1>1, ReleasedCases DEF TypeOK
  <2>3. CASE x = b
    <3>1. Holds(r, x)
      BY <1>1, <1>3, <2>3 DEF Holds, BinsOf, Driving
    <3>2. x \notin misreleased /\ ~(movement[r].from = "OUTPUT" /\ movement[r].src = NoBin)
      BY <1>1, <2>3
    <3>3. binStatus[x] = "RESERVED" /\ owner[x] = r
      BY <3>1, <3>2 DEF Accounted
    <3>4. place[x] = HomePlace(r, x)
      BY <1>3, <3>2, <3>3, AtHome
    <3>5. place[x] = "shelf"
      BY <1>3, <2>3, <3>2, <3>4, ConstantsAssumption DEF HomePlace
    <3> QED  BY <1>1, <2>1, <2>2, <2>3, <3>3, <3>5 DEF Given, OnShelfStatus
  <2>4. CASE x # b
    BY <1>1, <2>1, <2>2, <2>4 DEF Kept
  <2> QED  BY <2>3, <2>4
<1> QED  BY <1>1, <1>4, <1>5 DEF StatusEffect

(* The other steps leave every bin with its owner.                         *)
Keeps(r) ==
    /\ RowStays(r) /\ UNCHANGED <<binStatus, owner, misreleased>>
    /\ \A b \in Bins : Holds(r, b)' => Holds(r, b)

LEMMA StepKeepsBins ==
  ASSUME TypeOK, NEW r \in Calls, Own(r), Accounted(r), Step(r)
  PROVE  Keeps(r) \/ StatusEffect(r)
<1> USE DEF TypeOK, Own, RowIsOfCall, TripIsDriven, LegsAreInOrder, Guided,
    HasRow, OnTheWay, Trip, AtIntake, OffShelf, Keeps, RowStays, Holds,
    BinsOf, Driving
<1>1. CASE RetrievalStep(r)
  <2>1. ASSUME NEW b \in Bins, NEW k \in Keys, NEW v \in BOOLEAN, RetrievalBegin(r, b, k, v)
        PROVE  Keeps(r)
    BY <2>1 DEF RetrievalBegin, At, Goto, Planned, history, CallState
  <2>2. CASE RetrievalRun(r)
    BY <2>2 DEF RetrievalRun, At, Goto, SetMovement, history, CallState,
       MovementRow
  <2>3. CASE RetrievalUncertain(r)
    BY <2>3 DEF RetrievalUncertain, At, Goto, SetMovement, history
  <2>4. CASE RetrievalComplete(r)
    BY <2>4, ConstantsAssumption, SMTT(30) DEF RetrievalComplete, At, Goto,
       SetMovement, history, CallState, MovementRow
  <2>5. CASE CheckoutCheckExpires(r)
    BY <2>5 DEF CheckoutCheckExpires, At, Goto, history
  <2>6. CASE RetrievalVerificationFailed(r)
    BY <2>6 DEF RetrievalVerificationFailed, At, Goto, SetMovement, history,
       MovementRow
  <2> HIDE DEF TypeOK, Own, RowIsOfCall, TripIsDriven, LegsAreInOrder,
     Guided, HasRow, OnTheWay, Trip, AtIntake, OffShelf, Keeps, RowStays,
     Holds, BinsOf, Driving
  <2> QED
    BY <1>1, <2>1, <2>2, <2>3, <2>4, <2>5, <2>6, RetrievalClaimStatus,
       RetrievalReleaseStatus, RetrievalCheckoutStatus DEF RetrievalStep
<1>2. CASE PutawayStep(r)
  <2>1. ASSUME NEW b \in Bins, NEW s \in Bins \cup {NoBin}, NEW k \in Keys, PutawayBegin(r, b, s, k)
        PROVE  Keeps(r)
    BY <2>1 DEF PutawayBegin, At, Goto, Planned, history, CallState
  <2>2. ASSUME NEW b \in Bins, ReturnBegin(r, b)
        PROVE  Keeps(r)
    BY <2>2 DEF ReturnBegin, At, Goto, Planned, history, CallState
  <2>3. CASE PutawayRun(r)
    BY <2>3 DEF PutawayRun, At, Goto, SetMovement, history, CallState,
       MovementRow
  <2>4. CASE PutawayUncertain(r)
    BY <2>4 DEF PutawayUncertain, At, Goto, SetMovement, history
  <2> HIDE DEF TypeOK, Own, RowIsOfCall, TripIsDriven, LegsAreInOrder,
     Guided, HasRow, OnTheWay, Trip, AtIntake, OffShelf, Keeps, RowStays,
     Holds, BinsOf, Driving
  <2> QED
    BY <1>2, <2>1, <2>2, <2>3, <2>4, PutawayClaimStatus, ReturnClaimStatus,
       PutawayReleaseStatus, PutawayCommitStatus DEF PutawayStep
<1>3. CASE GuidedStep(r)
  <2>1. ASSUME NEW b \in Bins, NEW k \in Keys, GuidedBegin(r, b, k)
        PROVE  Keeps(r)
    BY <2>1 DEF GuidedBegin, At, Goto, Planned, history, CallState
  <2>2. CASE PresentClaim(r)
    BY <2>2 DEF PresentClaim, At, Goto, SetMovement, history, CallState,
       MovementRow
  <2>3. CASE Presented(r)
    BY <2>3 DEF Presented, At, Goto, SetMovement, history
  <2>4. ASSUME NEW placed \in BOOLEAN, PlacementDecided(r, placed)
        PROVE  Keeps(r)
    BY <2>4 DEF PlacementDecided, At, history
  <2>5. CASE PlacementPhotoRequired(r)
    BY <2>5 DEF PlacementPhotoRequired, At, Goto, history
  <2>6. CASE GuidedReturnClaim(r)
    BY <2>6, SMTT(30) DEF GuidedReturnClaim, At, Goto, SetMovement, history, CallState,
       MovementRow
  <2>7. CASE GuidedBusy(r)
    BY <2>7, SMTT(30) DEF GuidedBusy, At, Goto, MoveOn, history, CallState, MovementRow
  <2>8. CASE GuidedRefused(r)
    BY <2>8 DEF GuidedRefused, At, Goto, MoveOn, history
  <2>9. CASE GuidedFailed(r)
    BY <2>9 DEF GuidedFailed, Goto, SetMovement, history
  <2>10. CASE Returned(r)
    BY <2>10 DEF Returned, At, Goto, SetMovement, history
  <2> HIDE DEF TypeOK, Own, RowIsOfCall, TripIsDriven, LegsAreInOrder,
     Guided, HasRow, OnTheWay, Trip, AtIntake, OffShelf, Keeps, RowStays,
     Holds, BinsOf, Driving
  <2> QED
    BY <1>3, <2>1, <2>2, <2>3, <2>4, <2>5, <2>6, <2>7, <2>8, <2>9, <2>10,
       GuidedPrepareStatus, GuidedCommitStatus DEF GuidedStep
<1>4. CASE MachineStep(r)
  <2>1. CASE StartMove(r)
    BY <2>1 DEF StartMove, At, Goto, history
  <2>2. CASE RefuseMove(r)
    BY <2>2 DEF RefuseMove, At, Goto, history
  <2>3. CASE FinishMove(r)
    BY <2>3 DEF FinishMove, At, Carried, history
  <2>4. CASE FailMove(r)
    BY <2>4 DEF FailMove, At, Goto, history
  <2>5. CASE LoseMove(r)
    BY <2>5 DEF LoseMove, At, Carried, history
  <2>6. CASE Crash(r)
    BY <2>6 DEF Crash, Goto, history
  <2>7. CASE LeaseExpires(r)
    BY <2>7 DEF LeaseExpires, At, Carried, history
  <2> HIDE DEF TypeOK, Own, RowIsOfCall, TripIsDriven, LegsAreInOrder,
     Guided, HasRow, OnTheWay, Trip, AtIntake, OffShelf, Keeps, RowStays,
     Holds, BinsOf, Driving
  <2> QED
    BY <1>4, <2>1, <2>2, <2>3, <2>4, <2>5, <2>6, <2>7 DEF MachineStep
<1>5. CASE VerificationStep(r)
  <2>1. CASE RequireVerification(r)
    BY <2>1 DEF RequireVerification, At, Goto, history, CallState
  <2>2. CASE VerificationUnavailable(r)
    BY <2>2 DEF VerificationUnavailable, At, Goto, history
  <2>3. CASE AcceptCapture(r)
    BY <2>3 DEF AcceptCapture, history
  <2>4. CASE CancelCapture(r)
    BY <2>4 DEF CancelCapture, history
  <2>5. CASE SeeDecision(r)
    BY <2>5, SMTT(30) DEF SeeDecision, At, Goto, history, CallState
  <2>6. CASE AutomaticAcceptFails(r)
    BY <2>6 DEF AutomaticAcceptFails, At, Goto, history
  <2>7. CASE CaptureTimesOut(r)
    BY <2>7 DEF CaptureTimesOut, At, Goto, history
  <2>8. CASE CloseTimedOutMovement(r)
    BY <2>8 DEF CloseTimedOutMovement, At, Goto, SetMovement, history,
       MovementRow
  <2> HIDE DEF TypeOK, Own, RowIsOfCall, TripIsDriven, LegsAreInOrder,
     Guided, HasRow, OnTheWay, Trip, AtIntake, OffShelf, Keeps, RowStays,
     Holds, BinsOf, Driving
  <2> QED
    BY <1>5, <2>1, <2>2, <2>3, <2>4, <2>5, <2>6, <2>7, <2>8 DEF VerificationStep
<1>6. CASE RecoveryStep(r)
  <2>1. CASE RecoverRetrieval(r)
    BY <2>1 DEF RecoverRetrieval, SetMovement, history
  <2>2. CASE SweepOffShelf(r)
    BY <2>2 DEF SweepOffShelf, CloseMovement, history
  <2> HIDE DEF TypeOK, Own, RowIsOfCall, TripIsDriven, LegsAreInOrder,
     Guided, HasRow, OnTheWay, Trip, AtIntake, OffShelf, Keeps, RowStays,
     Holds, BinsOf, Driving
  <2> QED
    BY <1>6, <2>1, <2>2, RecoverPutawayStatus, SweepBeforeMotionStatus DEF RecoveryStep
<1> QED
  BY <1>1, <1>2, <1>3, <1>4, <1>5, <1>6 DEF Step, CallStep

---------------------------------------------------------------------------
(* Where a container is.                                                   *)

LEMMA RetrievalRunWhere ==
  ASSUME TypeOK, NEW r \in Calls, Own(r), Accounted(r), NamesBin(r),
         Traveller(r) \notin misreleased, RetrievalRun(r)
  PROVE  Where(r)'
<1>1. /\ Holds(r, Traveller(r)) /\ ~call[r].carried /\ Traveller(r) \in Bins
      /\ call[r].kind = "retrieve" /\ movement[r].from = "NONE" /\ call[r].src = NoBin
  BY DEF RetrievalRun, At, Own, RowIsOfCall, TripIsDriven, LegsAreInOrder, Guided, HasRow,
     OnTheWay, Trip, AtIntake, OffShelf, RowStays, Holds, BinsOf, Driving, Traveller,
     NamesBin, TypeOK, CallState, MovementRow
<1>2. place[Traveller(r)] = HomePlace(r, Traveller(r))
  BY <1>1, AtHome DEF Accounted
<1>3. PICK pc \in {"refused", "dispatch"} : Goto(r, pc)
  BY DEF RetrievalRun
<1>4. /\ call'[r].pc = pc /\ call'[r].kind = call[r].kind /\ call'[r].src = call[r].src
      /\ call'[r].bin = call[r].bin /\ call'[r].orig = call[r].orig
      /\ call'[r].carried = call[r].carried /\ call'[r].leg = call[r].leg
  BY <1>3, SMTT(30) DEF TypeOK, CallState, MovementRow, Goto
<1>5. place[Traveller(r)] = "shelf" /\ Traveller(r)' = Traveller(r) /\ Origin(r)' = "shelf"
  BY <1>1, <1>2, <1>4, ConstantsAssumption DEF HomePlace, Traveller, Origin
<1>6. UNCHANGED place
  BY DEF RetrievalRun
<1> QED  BY <1>1, <1>3, <1>4, <1>5, <1>6 DEF Where, Guided

LEMMA RetrievalCheckoutWhere ==
  ASSUME TypeOK, NEW r \in Calls, Own(r), Where(r), RetrievalCheckout(r)
  PROVE  Where(r)'
<1>1. call[r].kind = "retrieve" /\ holder' # r
  BY DEF RetrievalCheckout, At, Own, RowIsOfCall, TripIsDriven, LegsAreInOrder, Guided,
     HasRow, OnTheWay, Trip, AtIntake, OffShelf
<1>2. PICK pc \in {"await", "done"} : Goto(r, pc)
  BY DEF RetrievalCheckout
<1>3. call'[r].pc = pc /\ call'[r].kind = "retrieve"
  BY <1>1, <1>2 DEF TypeOK, CallState, MovementRow, Goto
<1> QED  BY <1>1, <1>3 DEF Where, Guided, Trip

LEMMA PutawayRunWhere ==
  ASSUME TypeOK, NEW r \in Calls, Own(r), Accounted(r), NamesBin(r),
         Traveller(r) \notin misreleased, PutawayRun(r)
  PROVE  Where(r)'
<1>1. CASE call'[r].pc = "done" /\ holder' # r
  BY <1>1 DEF Where, Trip, AtIntake
<1>2. CASE ~(call'[r].pc = "done" /\ holder' # r)
  <2>1. /\ call[r].kind \in {"putaway", "return"} /\ call[r].pc = "decided" /\ UNCHANGED <<holder, place>>
        /\ holder # r
    BY DEF PutawayRun, At, Own, RowIsOfCall, TripIsDriven, LegsAreInOrder, Guided, HasRow,
       OnTheWay, Trip, AtIntake, OffShelf
  <2>2. /\ movement[r].status \in {"VALIDATED", "AWAITING_PLACEMENT"}
        /\ SetMovement(r, "RUNNING") /\ Goto(r, "dispatch")
    BY <1>2, <2>1 DEF PutawayRun, Goto, TypeOK, CallState, MovementRow
  <2>3. /\ call'[r].pc = "dispatch" /\ call'[r].kind = call[r].kind /\ call'[r].src = call[r].src
      /\ call'[r].bin = call[r].bin /\ call'[r].orig = call[r].orig
      /\ call'[r].carried = call[r].carried /\ call'[r].leg = call[r].leg
    BY <2>2, SMTT(30) DEF TypeOK, CallState, MovementRow, Goto
  <2>4. /\ movement'[r].status = "RUNNING" /\ movement'[r].type = movement[r].type
      /\ movement'[r].bin = movement[r].bin /\ movement'[r].src = movement[r].src
      /\ movement'[r].from = movement[r].from
    BY <2>2, SMTT(30) DEF TypeOK, CallState, MovementRow, SetMovement
  <2>5. /\ HasRow(r) /\ ~call[r].carried /\ movement[r].type = "PUTAWAY"
        /\ call[r].src # NoBin => movement[r].from = "OUTPUT"
    BY <2>1, <2>2 DEF Own, RowIsOfCall, TripIsDriven, LegsAreInOrder, Guided, HasRow,
       OnTheWay, Trip, AtIntake, OffShelf
  <2>6. Holds(r, Traveller(r)) /\ Traveller(r) \in Bins
    BY <2>1, <2>2, <2>5 DEF RowStays, Holds, BinsOf, Driving, Traveller, NamesBin, TypeOK,
       CallState, MovementRow
  <2>7. place[Traveller(r)] = HomePlace(r, Traveller(r))
    BY <2>5, <2>6, AtHome DEF Accounted
  <2>8. Traveller(r)' = Traveller(r) /\ Origin(r)' = HomePlace(r, Traveller(r))
    BY <2>1, <2>3, <2>4, <2>5, <2>6, ConstantsAssumption DEF Traveller, Origin, HomePlace
  <2> QED  BY <2>1, <2>3, <2>7, <2>8 DEF Where, AtIntake
<1> QED  BY <1>1, <1>2

LEMMA PresentClaimWhere ==
  ASSUME TypeOK, NEW r \in Calls, Own(r), Accounted(r), NamesBin(r),
         Traveller(r) \notin misreleased, PresentClaim(r)
  PROVE  Where(r)'
<1>1. call[r].kind = "guided" /\ call[r].pc = "prepared" /\ UNCHANGED <<holder, place>> /\ holder # r
  BY DEF PresentClaim, At, Own, RowIsOfCall, TripIsDriven, LegsAreInOrder, Guided, HasRow,
     OnTheWay, Trip, AtIntake, OffShelf
<1>2. CASE movement[r].status = "VALIDATED"
  <2>1. call' = [call EXCEPT ![r].pc = "dispatch", ![r].leg = "out"]
    BY <1>2 DEF PresentClaim
  <2>2. call'[r] = [call[r] EXCEPT !.pc = "dispatch", !.leg = "out"]
    BY <2>1 DEF TypeOK
  <2>3. /\ call'[r].pc = "dispatch" /\ call'[r].leg = "out" /\ call'[r].kind = "guided"
        /\ call'[r].src = call[r].src /\ call'[r].bin = call[r].bin
    BY <1>1, <2>2 DEF TypeOK, CallState, MovementRow
  <2>4. /\ HasRow(r) /\ ~call[r].carried /\ movement[r].type = "PUTAWAY"
        /\ call[r].src = NoBin /\ movement[r].from = "INTAKE"
    BY <1>1, <1>2 DEF Own, RowIsOfCall, TripIsDriven, LegsAreInOrder, Guided, HasRow,
       OnTheWay, Trip, AtIntake, OffShelf
  <2>5. Holds(r, Traveller(r)) /\ Traveller(r) \in Bins
    BY <1>1, <1>2, <2>4 DEF RowStays, Holds, BinsOf, Driving, Traveller, NamesBin, TypeOK,
       CallState, MovementRow
  <2>6. place[Traveller(r)] = HomePlace(r, Traveller(r))
    BY <2>4, <2>5, AtHome DEF Accounted
  <2>7. place[Traveller(r)] = "shelf"
    BY <2>4, <2>5, <2>6, ConstantsAssumption DEF HomePlace
  <2>8. Traveller(r)' = Traveller(r) /\ Origin(r)' = "shelf"
    BY <2>3 DEF Traveller, Origin
  <2> QED  BY <1>1, <2>3, <2>7, <2>8 DEF Where, AtIntake
<1>3. CASE movement[r].status # "VALIDATED"
  <2>1. Goto(r, "done")
    BY <1>3 DEF PresentClaim
  <2>2. call'[r].pc = "done"
    BY <2>1 DEF TypeOK, CallState, MovementRow, Goto
  <2> QED  BY <1>1, <2>2 DEF Where, Trip, AtIntake
<1> QED  BY <1>2, <1>3

LEMMA FinishMoveWhere ==
  ASSUME TypeOK, NEW r \in Calls, Own(r), NamesBin(r), Where(r), FinishMove(r)
  PROVE  Where(r)'
<1>1. /\ place' = [place EXCEPT ![Traveller(r)] = Target(r)]
      /\ Carried(r, "moved") /\ UNCHANGED movement
      /\ holder' # r
  BY ConstantsAssumption DEF FinishMove
<1>2. /\ call'[r].pc = "moved" /\ call'[r].kind = call[r].kind /\ call'[r].src = call[r].src
      /\ call'[r].bin = call[r].bin /\ call'[r].orig = call[r].orig
      /\ call'[r].leg = call[r].leg
  BY <1>1, SMTT(30) DEF TypeOK, CallState, MovementRow, Carried
<1>3. Traveller(r) \in Bins
  BY DEF FinishMove, At, Own, RowIsOfCall, TripIsDriven, LegsAreInOrder, Guided, HasRow,
     OnTheWay, Trip, AtIntake, OffShelf, TypeOK, Traveller, NamesBin, CallState
<1>4. Traveller(r)' = Traveller(r) /\ Target(r)' = Target(r)
  BY <1>2 DEF Traveller, Target
<1>5. place'[Traveller(r)] = Target(r)
  BY <1>1, <1>3 DEF TypeOK
<1> QED  BY <1>1, <1>2, <1>4, <1>5 DEF Where, Trip, AtIntake

(* A container is where its call left it.                                  *)
LEMMA StepKeepsWhere ==
  ASSUME TypeOK, NEW r \in Calls, Own(r), Accounted(r), NamesBin(r), Where(r), Step(r),
         HasRow(r) => Traveller(r) \notin misreleased
  PROVE  Where(r)'
<1> USE DEF TypeOK, Own, RowIsOfCall, TripIsDriven, LegsAreInOrder, Guided,
    HasRow, OnTheWay, Trip, AtIntake, OffShelf, Where, Traveller, Origin,
    Target
<1>1. CASE RetrievalStep(r)
  <2>1. ASSUME NEW b \in Bins, NEW k \in Keys, NEW v \in BOOLEAN, RetrievalBegin(r, b, k, v)
        PROVE  Where(r)'
    BY <2>1 DEF RetrievalBegin, At, Goto, Planned, CallState
  <2>2. CASE RetrievalClaim(r)
    BY <2>2 DEF RetrievalClaim, At, Goto, CreateMovement, CallState
  <2>3. CASE RetrievalRun(r)
    <3>1. HasRow(r)
      BY <2>3 DEF RetrievalRun, At
    <3> QED  BY <2>3, <3>1, RetrievalRunWhere
  <2>4. CASE RetrievalRelease(r)
    BY <2>4 DEF RetrievalRelease, Goto, CloseMovement
  <2>5. CASE RetrievalUncertain(r)
    BY <2>5 DEF RetrievalUncertain, At, Goto, SetMovement
  <2>6. CASE RetrievalComplete(r)
    BY <2>6 DEF RetrievalComplete, At, Goto, SetMovement, CallState
  <2>7. CASE CheckoutCheckExpires(r)
    BY <2>7 DEF CheckoutCheckExpires, At, Goto
  <2>8. CASE RetrievalVerificationFailed(r)
    BY <2>8 DEF RetrievalVerificationFailed, At, Goto, SetMovement
  <2> HIDE DEF TypeOK, Own, RowIsOfCall, TripIsDriven, LegsAreInOrder,
     Guided, HasRow, OnTheWay, Trip, AtIntake, OffShelf, Where, Traveller,
     Origin, Target
  <2> QED
    BY <1>1, <2>1, <2>2, <2>3, <2>4, <2>5, <2>6, <2>7, <2>8,
       RetrievalCheckoutWhere DEF RetrievalStep
<1>2. CASE PutawayStep(r)
  <2>1. ASSUME NEW b \in Bins, NEW s \in Bins \cup {NoBin}, NEW k \in Keys, PutawayBegin(r, b, s, k)
        PROVE  Where(r)'
    BY <2>1 DEF PutawayBegin, At, Goto, Planned, CallState
  <2>2. ASSUME NEW b \in Bins, ReturnBegin(r, b)
        PROVE  Where(r)'
    BY <2>2 DEF ReturnBegin, At, Goto, Planned, CallState
  <2>3. CASE PutawayClaim(r)
    BY <2>3, SMTT(30) DEF PutawayClaim, At, Goto, CreateMovement, Returning, CallState
  <2>4. CASE ReturnClaim(r)
    BY <2>4, SMTT(30) DEF ReturnClaim, At, Goto, CreateMovement, CallState
  <2>5. CASE PutawayRun(r)
    <3>1. HasRow(r)
      BY <2>5 DEF PutawayRun, At
    <3> QED  BY <2>5, <3>1, PutawayRunWhere
  <2>6. CASE PutawayRelease(r)
    BY <2>6 DEF PutawayRelease, Goto, CloseMovement
  <2>7. CASE PutawayUncertain(r)
    BY <2>7 DEF PutawayUncertain, At, Goto, SetMovement
  <2>8. CASE PutawayCommit(r)
    BY <2>8 DEF PutawayCommit, At, Goto, SetMovement, Returning
  <2> HIDE DEF TypeOK, Own, RowIsOfCall, TripIsDriven, LegsAreInOrder,
     Guided, HasRow, OnTheWay, Trip, AtIntake, OffShelf, Where, Traveller,
     Origin, Target
  <2> QED
    BY <1>2, <2>1, <2>2, <2>3, <2>4, <2>5, <2>6, <2>7, <2>8 DEF PutawayStep
<1>3. CASE GuidedStep(r)
  <2>1. ASSUME NEW b \in Bins, NEW k \in Keys, GuidedBegin(r, b, k)
        PROVE  Where(r)'
    BY <2>1 DEF GuidedBegin, At, Goto, Planned, CallState
  <2>2. CASE GuidedPrepare(r)
    BY <2>2 DEF GuidedPrepare, At, Goto, CreateMovement, CallState
  <2>3. CASE PresentClaim(r)
    <3>1. HasRow(r)
      BY <2>3 DEF PresentClaim, At
    <3> QED  BY <2>3, <3>1, PresentClaimWhere
  <2>4. CASE Presented(r)
    BY <2>4 DEF Presented, At, Goto, SetMovement
  <2>5. ASSUME NEW placed \in BOOLEAN, PlacementDecided(r, placed)
        PROVE  Where(r)'
    BY <2>5 DEF PlacementDecided, At
  <2>6. CASE PlacementPhotoRequired(r)
    BY <2>6 DEF PlacementPhotoRequired, At, Goto
  <2>7. CASE GuidedReturnClaim(r)
    BY <2>7, SMTT(30) DEF GuidedReturnClaim, At, Goto, SetMovement, CallState
  <2>8. CASE GuidedBusy(r)
    BY <2>8 DEF GuidedBusy, At, Goto, MoveOn, CallState
  <2>9. CASE GuidedRefused(r)
    BY <2>9 DEF GuidedRefused, At, Goto, MoveOn
  <2>10. CASE GuidedFailed(r)
    BY <2>10 DEF GuidedFailed, Goto, SetMovement
  <2>11. CASE Returned(r)
    BY <2>11 DEF Returned, At, Goto, SetMovement
  <2>12. CASE GuidedCommit(r)
    BY <2>12 DEF GuidedCommit, At, Goto, SetMovement, CloseMovement
  <2> HIDE DEF TypeOK, Own, RowIsOfCall, TripIsDriven, LegsAreInOrder,
     Guided, HasRow, OnTheWay, Trip, AtIntake, OffShelf, Where, Traveller,
     Origin, Target
  <2> QED
    BY <1>3, <2>1, <2>2, <2>3, <2>4, <2>5, <2>6, <2>7, <2>8, <2>9, <2>10,
       <2>11, <2>12 DEF GuidedStep
<1>4. CASE MachineStep(r)
  <2>1. CASE StartMove(r)
    BY <2>1 DEF StartMove, At, Goto
  <2>2. CASE RefuseMove(r)
    BY <2>2 DEF RefuseMove, At, Goto
  <2>3. CASE FailMove(r)
    BY <2>3 DEF FailMove, At, Goto
  <2>4. CASE LoseMove(r)
    BY <2>4, ConstantsAssumption DEF LoseMove, At, Carried
  <2>5. CASE Crash(r)
    BY <2>5 DEF Crash, Goto
  <2>6. CASE LeaseExpires(r)
    BY <2>6, ConstantsAssumption DEF LeaseExpires, At, Carried
  <2> HIDE DEF TypeOK, Own, RowIsOfCall, TripIsDriven, LegsAreInOrder,
     Guided, HasRow, OnTheWay, Trip, AtIntake, OffShelf, Where, Traveller,
     Origin, Target
  <2> QED
    BY <1>4, <2>1, <2>2, <2>3, <2>4, <2>5, <2>6, FinishMoveWhere DEF MachineStep
<1>5. CASE VerificationStep(r)
  <2>1. CASE RequireVerification(r)
    BY <2>1 DEF RequireVerification, At, Goto, CallState
  <2>2. CASE VerificationUnavailable(r)
    BY <2>2 DEF VerificationUnavailable, At, Goto
  <2>3. CASE AcceptCapture(r)
    BY <2>3 DEF AcceptCapture
  <2>4. CASE CancelCapture(r)
    BY <2>4 DEF CancelCapture
  <2>5. CASE SeeDecision(r)
    BY <2>5 DEF SeeDecision, At, Goto, CallState
  <2>6. CASE AutomaticAcceptFails(r)
    BY <2>6 DEF AutomaticAcceptFails, At, Goto
  <2>7. CASE CaptureTimesOut(r)
    BY <2>7 DEF CaptureTimesOut, At, Goto
  <2>8. CASE CloseTimedOutMovement(r)
    BY <2>8 DEF CloseTimedOutMovement, At, Goto, SetMovement
  <2> HIDE DEF TypeOK, Own, RowIsOfCall, TripIsDriven, LegsAreInOrder,
     Guided, HasRow, OnTheWay, Trip, AtIntake, OffShelf, Where, Traveller,
     Origin, Target
  <2> QED
    BY <1>5, <2>1, <2>2, <2>3, <2>4, <2>5, <2>6, <2>7, <2>8 DEF VerificationStep
<1>6. CASE RecoveryStep(r)
  <2>1. CASE RecoverRetrieval(r)
    BY <2>1 DEF RecoverRetrieval, SetMovement
  <2>2. CASE RecoverPutaway(r)
    BY <2>2 DEF RecoverPutaway, CloseMovement
  <2>3. CASE SweepBeforeMotion(r)
    BY <2>3 DEF SweepBeforeMotion, CloseMovement
  <2>4. CASE SweepOffShelf(r)
    BY <2>4 DEF SweepOffShelf, CloseMovement
  <2> HIDE DEF TypeOK, Own, RowIsOfCall, TripIsDriven, LegsAreInOrder,
     Guided, HasRow, OnTheWay, Trip, AtIntake, OffShelf, Where, Traveller,
     Origin, Target
  <2> QED
    BY <1>6, <2>1, <2>2, <2>3, <2>4 DEF RecoveryStep
<1> QED
  BY <1>1, <1>2, <1>3, <1>4, <1>5, <1>6 DEF Step, CallStep

(* What the gantry carries for r, r holds.                                 *)
Carries(r) ==
    /\ Holds(r, Traveller(r)) /\ Traveller(r) \in Bins
    /\ call'[r].carried
    /\ UNCHANGED <<binStatus, owner, misreleased>>
    /\ \A b \in Bins : b # Traveller(r) => place'[b] = place[b]

BinEffect(r) ==
    /\ RowStays(r)
    /\ misreleased \subseteq misreleased'
    /\ \A b \in Bins \ misreleased' : Kept(r, b) \/ Taken(r, b) \/ Given(r, b)
    /\ UNCHANGED place \/ Carries(r)

CustodyInv == OwnInv /\ OwnersHold /\ PlacesAreRecorded /\ Whereabouts

LEMMA StepPlace ==
  ASSUME Typing, NEW r \in Calls, Own(r), Step(r)
  PROVE  UNCHANGED place \/ Carries(r)
<1>1. CASE FinishMove(r) \/ LoseMove(r) \/ LeaseExpires(r)
  <2>1. PICK where : place' = [place EXCEPT ![Traveller(r)] = where]
    BY <1>1 DEF FinishMove, LoseMove, LeaseExpires
  <2>2. \A b \in Bins : b # Traveller(r) => place'[b] = place[b]
    BY <2>1 DEF Typing, TypeOK
  <2>3. call[r].pc = "moving" \/ holder = r
    BY <1>1 DEF FinishMove, LoseMove, LeaseExpires, At
  <2>4. Holds(r, Traveller(r)) /\ Traveller(r) \in Bins
    BY <2>3, SMTT(30) DEF Typing, NamesBin, Own, RowIsOfCall, TripIsDriven,
       LegsAreInOrder, Guided, HasRow, OnTheWay, Trip, AtIntake, OffShelf, RowStays,
       Holds, BinsOf, Driving, Traveller, TypeOK, CallState, MovementRow
  <2>5. call'[r].carried
    BY <1>1 DEF FinishMove, LoseMove, LeaseExpires, Carried, Typing, TypeOK, CallState,
       MovementRow
  <2>6. UNCHANGED <<binStatus, owner, misreleased>>
    BY <1>1 DEF FinishMove, LoseMove, LeaseExpires, history
  <2> QED  BY <2>2, <2>4, <2>5, <2>6 DEF Carries
<1>2. CASE ~(FinishMove(r) \/ LoseMove(r) \/ LeaseExpires(r))
  BY <1>2 DEF Step, CallStep, RetrievalStep, PutawayStep, GuidedStep, MachineStep,
     VerificationStep, RecoveryStep, RetrievalBegin, RetrievalClaim, RetrievalRun,
     RetrievalRelease, RetrievalUncertain, RetrievalCheckout, RetrievalComplete,
     CheckoutCheckExpires, RetrievalVerificationFailed, PutawayBegin, ReturnBegin, PutawayClaim,
     ReturnClaim, PutawayRun, PutawayRelease, PutawayUncertain, PutawayCommit, GuidedBegin,
     GuidedPrepare, PresentClaim, Presented, PlacementDecided, PlacementPhotoRequired,
     GuidedReturnClaim, GuidedBusy, GuidedRefused, GuidedFailed, Returned, GuidedCommit,
     StartMove, RefuseMove, FailMove, Crash, RequireVerification, VerificationUnavailable,
     AcceptCapture, CancelCapture, SeeDecision, AutomaticAcceptFails, CaptureTimesOut,
     CloseTimedOutMovement, RecoverRetrieval, RecoverPutaway, SweepBeforeMotion, SweepOffShelf
<1> QED  BY <1>1, <1>2

LEMMA StepBinEffect ==
  ASSUME Typing, NEW r \in Calls, Own(r), Accounted(r), Step(r)
  PROVE  BinEffect(r)
<1>1. Keeps(r) \/ StatusEffect(r)
  BY StepKeepsBins DEF Typing
<1> QED  BY <1>1, StepPlace DEF BinEffect, Keeps, Kept, StatusEffect

LEMMA StepWhere ==
  ASSUME Typing, NEW r \in Calls, Own(r), Accounted(r), Step(r), Traveller(r)' \notin misreleased'
  PROVE  Where(r)'
<1>1. RowStays(r) /\ misreleased \subseteq misreleased'
  BY StepBinEffect DEF BinEffect
<1>2. ~HasRow(r) => call[r].pc \in {"idle", "claim", "done", "dead"} /\ holder # r
  BY DEF Own, RowIsOfCall, TripIsDriven, LegsAreInOrder, Guided, HasRow, OnTheWay, Trip,
     AtIntake, OffShelf
<1>3. HasRow(r) => Traveller(r) \notin misreleased
  BY <1>1 DEF RowStays, Traveller
<1>4. Where(r)
  BY <1>2, <1>3 DEF Where, Accounted, Trip, AtIntake
<1> QED  BY <1>3, <1>4, StepKeepsWhere DEF Typing

(* A step of r takes nothing from the others, and leaves the books true.   *)
LEMMA StepCustody ==
  ASSUME Typing, CustodyInv, NEW r \in Calls, Step(r)
  PROVE  OwnersHold' /\ PlacesAreRecorded' /\ Whereabouts'
<1>1. CallFrame(r) /\ MovementFrame(r)
  BY StepCallEffect, StepMovementEffect DEF CallEffect, MovementEffect
<1>2. holder' \in {holder, r, NoCall}
  BY HolderEffect DEF CustodyInv, OwnInv, TripIsDriven
<1>3. Own(r) /\ Accounted(r)
  BY DEF CustodyInv, OwnInv, Own, Accounted, OwnersHold, Whereabouts
<1>4. BinEffect(r)
  BY <1>3, StepBinEffect
<1>5. ASSUME NEW q \in Calls, q # r
      PROVE  /\ call'[q] = call[q] /\ movement'[q] = movement[q] /\ (holder' = q => holder = q)
             /\ \A b : Holds(q, b)' => Holds(q, b)
  <2>1. call'[q] = call[q] /\ movement'[q] = movement[q] /\ (holder' = q => holder = q)
    BY <1>1, <1>2, <1>5, ConstantsAssumption DEF CallFrame, MovementFrame
  <2> QED  BY <2>1 DEF Holds, BinsOf, HasRow, Driving, Guided
<1>6. OwnersHold'
  <2> SUFFICES ASSUME NEW b \in Bins \ misreleased', NEW q \in Calls, Holds(q, b)'
               PROVE  binStatus'[b] = "RESERVED" /\ owner'[b] = q
    BY DEF OwnersHold
  <2>1. b \notin misreleased /\ (Kept(r, b) \/ Taken(r, b) \/ Given(r, b))
    BY <1>4 DEF BinEffect
  <2>2. CASE q = r
    BY <2>1, <2>2 DEF Kept, Taken, Given, CustodyInv, OwnersHold
  <2>3. CASE q # r
    <3>1. binStatus[b] = "RESERVED" /\ owner[b] = q
      BY <1>5, <2>1, <2>3 DEF CustodyInv, OwnersHold
    <3> QED  BY <2>1, <2>3, <3>1 DEF Kept, Taken, Given
  <2> QED  BY <2>2, <2>3
<1>7. ASSUME NEW b \in Bins \ misreleased, place'[b] # place[b]
      PROVE  /\ Carries(r) /\ b = Traveller(r)
             /\ binStatus[b] = "RESERVED" /\ owner[b] = r
  <2>1. Carries(r)
    BY <1>4, <1>7 DEF BinEffect
  <2>2. b = Traveller(r)
    BY <1>7, <2>1 DEF Carries
  <2> QED  BY <2>1, <2>2 DEF Carries, CustodyInv, OwnersHold
<1>8. ASSUME NEW q \in Calls, HasRow(q)
      PROVE  /\ HasRow(q)' /\ Traveller(q)' = Traveller(q)
             /\ call[q].carried => call'[q].carried
             /\ \A b : HomePlace(q, b)' = HomePlace(q, b)
  <2>1. /\ HasRow(q)' /\ call'[q].src = call[q].src /\ call'[q].bin = call[q].bin
        /\ movement'[q].from = movement[q].from /\ (call[q].carried => call'[q].carried)
    BY <1>4, <1>5, <1>8 DEF BinEffect, RowStays, HasRow
  <2> QED  BY <2>1 DEF Traveller, HomePlace
<1>9. PlacesAreRecorded'
  <2> SUFFICES ASSUME NEW b \in Bins \ misreleased' PROVE Recorded(b)'
    BY DEF PlacesAreRecorded
  <2>1. b \notin misreleased /\ (Kept(r, b) \/ Taken(r, b) \/ Given(r, b))
    BY <1>4 DEF BinEffect
  <2>2. Recorded(b)
    BY <2>1 DEF CustodyInv, PlacesAreRecorded
  <2>3. CASE place'[b] # place[b]
    <3>1. /\ Carries(r) /\ b = Traveller(r)
          /\ binStatus[b] = "RESERVED" /\ owner[b] = r
      BY <1>7, <2>1, <2>3
    <3>2. HasRow(r)
      BY <2>2, <3>1 DEF Recorded
    <3> QED  BY <1>8, <3>1, <3>2 DEF Carries, Recorded, OnShelfStatus
  <2>4. CASE place'[b] = place[b]
    <3>1. CASE Taken(r, b)
      BY <2>4, <3>1 DEF Taken, Recorded, OnShelfStatus
    <3>2. CASE Given(r, b)
      BY <2>4, <3>2 DEF Given, Recorded, OnShelfStatus
    <3>3. CASE Kept(r, b)
      <4>1. binStatus'[b] = binStatus[b] /\ owner'[b] = owner[b]
        BY <3>3 DEF Kept
      <4>2. CASE binStatus[b] # "RESERVED"
        BY <2>2, <2>4, <4>1, <4>2 DEF Recorded
      <4>3. CASE binStatus[b] = "RESERVED"
        <5>1. owner[b] \in Calls /\ HasRow(owner[b])
          BY <2>2, <4>3 DEF Recorded
        <5>2. PICK q \in Calls : q = owner[b]
          BY <5>1
        <5>3. /\ HasRow(q)' /\ Traveller(q)' = Traveller(q)
              /\ call[q].carried => call'[q].carried
              /\ HomePlace(q, b)' = HomePlace(q, b)
          BY <5>1, <5>2, <1>8
        <5>4. \/ place[b] = HomePlace(q, b)
              \/ call[q].carried /\ b = Traveller(q)
          BY <2>2, <4>3, <5>2 DEF Recorded
        <5> QED  BY <2>4, <4>1, <4>3, <5>2, <5>3, <5>4 DEF Recorded, OnShelfStatus
      <4> QED  BY <4>2, <4>3
    <3> QED  BY <2>1, <3>1, <3>2, <3>3
  <2> QED  BY <2>3, <2>4
<1>10. Whereabouts'
  <2> SUFFICES ASSUME NEW q \in Calls, Traveller(q)' \notin misreleased' PROVE Where(q)'
    BY DEF Whereabouts
  <2>1. CASE q = r
    BY <1>3, <2>1, StepWhere
  <2>2. CASE q # r
    <3>1. /\ call'[q] = call[q] /\ movement'[q] = movement[q] /\ (holder' = q => holder = q)
      BY <1>5, <2>2
    <3>2. Traveller(q) \notin misreleased /\ Traveller(q)' = Traveller(q)
          /\ Origin(q)' = Origin(q) /\ Target(q)' = Target(q)
      BY <1>4, <3>1 DEF BinEffect, Traveller, Origin, Target
    <3>3. Where(q)
      BY <3>2 DEF CustodyInv, Whereabouts
    <3>4. CASE holder = q \/ call[q].pc \in Trip \/ (Guided(q) /\ call[q].pc \in OffShelf)
      <4>1. Holds(q, Traveller(q)) /\ Traveller(q) \in Bins /\ (Guided(q) => Traveller(q) = call[q].bin)
        <5>1. Own(q) /\ NamesBin(q) /\ TypeOK
          BY DEF CustodyInv, OwnInv, Own, Typing
        <5> QED  BY <3>4, <5>1, SMTT(30) DEF NamesBin, Own, RowIsOfCall, TripIsDriven,
           LegsAreInOrder, Guided, HasRow, OnTheWay, Trip, AtIntake, OffShelf, RowStays,
           Holds, BinsOf, Driving, Traveller, TypeOK, CallState, MovementRow
      <4>2. owner[Traveller(q)] = q
        BY <3>2, <4>1 DEF CustodyInv, OwnersHold
      <4>3. place'[Traveller(q)] = place[Traveller(q)]
        BY <1>7, <2>2, <3>2, <4>1, <4>2
      <4> QED  BY <3>1, <3>2, <3>3, <4>1, <4>3 DEF Where, Guided
    <3>5. CASE ~(holder = q \/ call[q].pc \in Trip \/ (Guided(q) /\ call[q].pc \in OffShelf))
      BY <3>1, <3>5 DEF Where, Guided, OffShelf, Trip, AtIntake
    <3> QED  BY <3>4, <3>5
  <2> QED  BY <2>1, <2>2
<1> QED  BY <1>6, <1>9, <1>10

LEMMA InitCustody == Init => CustodyInv
<1> SUFFICES ASSUME Init PROVE CustodyInv
  OBVIOUS
<1>1. /\ \A r \in Calls : call[r].pc = "idle" /\ ~HasRow(r) /\ holder # r
      /\ \A b \in Bins : binStatus[b] \in OnShelfStatus /\ place[b] = "shelf"
  BY ConstantsAssumption DEF Init, IdleCall, NoMovement, HasRow, OnShelfStatus
<1>2. OwnersHold
  BY <1>1 DEF OwnersHold, Holds, OffShelf, Trip, AtIntake
<1>3. PlacesAreRecorded
  BY <1>1 DEF PlacesAreRecorded, Recorded, OnShelfStatus
<1>4. Whereabouts
  BY <1>1 DEF Whereabouts, Where, Trip, AtIntake
<1> QED  BY <1>2, <1>3, <1>4, InitOwn DEF CustodyInv

LEMMA NextCustody == Typing /\ CustodyInv /\ [Next]_vars => CustodyInv'
<1> SUFFICES ASSUME Typing, CustodyInv, [Next]_vars PROVE CustodyInv'
  OBVIOUS
<1>1. OwnInv'
  BY NextOwn DEF CustodyInv
<1>2. ASSUME NEW r \in Calls, Step(r) PROVE CustodyInv'
  BY <1>1, <1>2, StepCustody DEF CustodyInv
<1>3. ASSUME UNCHANGED <<call, movement, place, holder, owner, misreleased>>,
             \A b \in Bins : \/ binStatus'[b] = binStatus[b]
                             \/ binStatus[b] \in OnShelfStatus /\ binStatus'[b] \in OnShelfStatus
      PROVE  CustodyInv'
  <2>1. OwnersHold'
    BY <1>3 DEF CustodyInv, OwnersHold, Holds, BinsOf, HasRow, Driving, Guided,
       OnShelfStatus
  <2>2. PlacesAreRecorded'
    BY <1>3 DEF CustodyInv, PlacesAreRecorded, Recorded, HasRow, HomePlace, Traveller,
       OnShelfStatus
  <2>3. Whereabouts'
    BY <1>3 DEF CustodyInv, Whereabouts, Where, Traveller, Origin, Target, Guided
  <2> QED  BY <1>1, <2>1, <2>2, <2>3 DEF CustodyInv
<1>4. CASE UNCHANGED vars
  <2>1. UNCHANGED <<call, movement, place, holder, owner, misreleased>> /\ binStatus' = binStatus
    BY <1>4 DEF vars
  <2> QED  BY <2>1, <1>3
<1>5. CASE Reconcile
  <2>1. UNCHANGED <<call, movement, place, holder, owner, misreleased>> /\ binStatus' = binStatus
    BY <1>5 DEF Reconcile, history
  <2> QED  BY <2>1, <1>3
<1>6. ASSUME NEW b \in Bins, NEW n \in 1 .. Capacity, AddStock(b, n) \/ RemoveStock(b, n)
      PROVE  CustodyInv'
  <2>1. PICK to \in BinStatus :
           /\ binStatus' = [binStatus EXCEPT ![b] = to]
           /\ to = binStatus[b] \/ (binStatus[b] \in OnShelfStatus /\ to \in OnShelfStatus)
    BY <1>6 DEF AddStock, RemoveStock, OnShelfStatus, BinStatus, Typing, TypeOK
  <2>2. \A x \in Bins : \/ binStatus'[x] = binStatus[x]
                        \/ binStatus[x] \in OnShelfStatus /\ binStatus'[x] \in OnShelfStatus
    <3>1. \A x \in Bins : binStatus'[x] = IF x = b THEN to ELSE binStatus[x]
      BY <2>1 DEF Typing, TypeOK
    <3> QED  BY <2>1, <3>1
  <2>3. UNCHANGED <<call, movement, place, holder, owner, misreleased>>
    BY <1>6 DEF AddStock, RemoveStock, history
  <2> QED  BY <1>3, <2>2, <2>3
<1> QED
  BY <1>2, <1>4, <1>5, <1>6 DEF Next, Step

(* Every reservation has one owner, and every bin is where the books say.  *)
THEOREM CustodyIsKept == Spec => []CustodyInv
  BY InitTyping, InitCustody, NextTyping, NextCustody, PTL DEF Spec

(* No two open movements hold the same bin, as long as nothing releases a  *)
(* reservation that is not its own.                                        *)
THEOREM EveryBinHasOneDriver == Spec => []OneDriverPerBin
<1>1. CustodyInv => OneDriverPerBin
  <2> SUFFICES ASSUME CustodyInv, NEW b \in Bins \ misreleased,
                      NEW m \in Calls, NEW n \in Calls, Reserves(m, b), Reserves(n, b)
               PROVE  m = n
    BY DEF OneDriverPerBin
  <2>1. ASSUME NEW q \in Calls, Reserves(q, b) PROVE Holds(q, b)
    BY <2>1 DEF Reserves, Driving, Holds, BinsOf, HasRow, CustodyInv, OwnInv, RowIsOfCall
  <2> QED  BY <2>1 DEF CustodyInv, OwnersHold
<1> QED  BY <1>1, CustodyIsKept, PTL

(* The gantry takes a container from where it really is.                   *)
THEOREM TripsStartAtTheBin == Spec => []TripStartsWhereBinIs
<1>1. CustodyInv => TripStartsWhereBinIs
  BY DEF CustodyInv, Whereabouts, Where, TripStartsWhereBinIs, Traveller
<1> QED  BY <1>1, CustodyIsKept, PTL

---------------------------------------------------------------------------
(* Stock and its evidence.                                                 *)

LEMMA RetrievalRunEvidence ==
  ASSUME TypeOK, NEW r \in Calls, Own(r), EvidenceIsKept(r), RetrievalRun(r)
  PROVE  EvidenceIsKept(r)'
<1>1. CASE movement[r].status \in Terminal
  BY <1>1, SMTT(30) DEF TypeOK, CallState, MovementRow, RetrievalRun, At, Goto, Terminal,
     Own, RowIsOfCall, TripIsDriven, LegsAreInOrder, Guided, HasRow, OnTheWay, Trip,
     AtIntake, OffShelf, EvidenceIsKept, Puts, CaptureRow
<1>2. CASE movement[r].status \notin Terminal
  BY <1>2, SMTT(30) DEF TypeOK, CallState, MovementRow, RetrievalRun, At, Goto,
     SetMovement, Terminal, Own, RowIsOfCall, TripIsDriven, LegsAreInOrder, Guided,
     HasRow, OnTheWay, Trip, AtIntake, OffShelf, EvidenceIsKept, Puts, CaptureRow
<1> QED  BY <1>1, <1>2

LEMMA RetrievalCheckoutEvidence ==
  ASSUME TypeOK, NEW r \in Calls, Own(r), EvidenceIsKept(r), RetrievalCheckout(r)
  PROVE  EvidenceIsKept(r)'
<1>1. UNCHANGED capture /\ At(r, "moved") /\ call[r].kind = "retrieve"
  BY DEF RetrievalCheckout
<1>2. PICK pc \in {"await", "done"} : Goto(r, pc)
  BY DEF RetrievalCheckout
<1> QED  BY <1>1, <1>2, SMTT(30) DEF TypeOK, CallState, MovementRow, Goto, At, Own,
   RowIsOfCall, TripIsDriven, LegsAreInOrder, Guided, HasRow, OnTheWay, Trip, AtIntake,
   OffShelf, EvidenceIsKept, Puts, CaptureRow

LEMMA GuidedReturnClaimEvidence ==
  ASSUME TypeOK, NEW r \in Calls, Own(r), EvidenceIsKept(r), GuidedReturnClaim(r)
  PROVE  EvidenceIsKept(r)'
<1>1. CASE Goto(r, "done") /\ UNCHANGED movement
  BY <1>1, SMTT(30) DEF TypeOK, CallState, MovementRow, GuidedReturnClaim, At, Goto, Own,
     RowIsOfCall, TripIsDriven, LegsAreInOrder, Guided, HasRow, OnTheWay, Trip, AtIntake,
     OffShelf, EvidenceIsKept, Puts, CaptureRow
<1>2. CASE movement[r].status = "AWAITING_PLACEMENT" /\ Goto(r, "dispatch")
  BY <1>2, SMTT(30) DEF TypeOK, CallState, MovementRow, GuidedReturnClaim, At, Goto,
     SetMovement, VerificationStatus, Own, RowIsOfCall, TripIsDriven, LegsAreInOrder,
     Guided, HasRow, OnTheWay, Trip, AtIntake, OffShelf, EvidenceIsKept, Puts, CaptureRow
<1> QED  BY <1>1, <1>2 DEF GuidedReturnClaim

LEMMA RecoverPutawayEvidence ==
  ASSUME TypeOK, NEW r \in Calls, Own(r), EvidenceIsKept(r), RecoverPutaway(r)
  PROVE  EvidenceIsKept(r)'
<1>1. /\ CloseMovement(r, "FAILED") /\ UNCHANGED <<call, holder>> /\ Recoverable(r)
      /\ movement[r].type = "PUTAWAY" /\ FailsCapture(r)
  BY DEF RecoverPutaway
<1> QED  BY <1>1, SMTT(30) DEF TypeOK, CallState, MovementRow, CloseMovement,
   FailsCapture, Recoverable, VerificationStatus, Own, RowIsOfCall, TripIsDriven,
   LegsAreInOrder, Guided, HasRow, OnTheWay, Trip, AtIntake, OffShelf, EvidenceIsKept,
   Puts, CaptureRow

(* The photo of a call that goes on stays accepted.                        *)
LEMMA StepEvidence ==
  ASSUME TypeOK, NEW r \in Calls, Own(r), EvidenceIsKept(r), Step(r)
  PROVE  EvidenceIsKept(r)'
<1> USE DEF TypeOK, Own, RowIsOfCall, TripIsDriven, LegsAreInOrder, Guided,
    HasRow, OnTheWay, Trip, AtIntake, OffShelf, EvidenceIsKept, Puts,
    VerificationStatus, CaptureRow
<1>1. CASE RetrievalStep(r)
  <2>1. ASSUME NEW b \in Bins, NEW k \in Keys, NEW v \in BOOLEAN, RetrievalBegin(r, b, k, v)
        PROVE  EvidenceIsKept(r)'
    BY <2>1 DEF RetrievalBegin, At, Goto, Planned, CallState
  <2>2. CASE RetrievalClaim(r)
    BY <2>2 DEF RetrievalClaim, At, Goto, CreateMovement, CallState
  <2>3. CASE RetrievalRelease(r)
    BY <2>3 DEF RetrievalRelease, Goto, CloseMovement
  <2>4. CASE RetrievalUncertain(r)
    BY <2>4 DEF RetrievalUncertain, At, Goto, SetMovement
  <2>5. CASE RetrievalComplete(r)
    BY <2>5, ConstantsAssumption DEF RetrievalComplete, At, Goto, SetMovement,
       history, CallState
  <2>6. CASE CheckoutCheckExpires(r)
    BY <2>6 DEF CheckoutCheckExpires, At, Goto
  <2>7. CASE RetrievalVerificationFailed(r)
    BY <2>7 DEF RetrievalVerificationFailed, At, Goto, SetMovement
  <2> HIDE DEF TypeOK, Own, RowIsOfCall, TripIsDriven, LegsAreInOrder,
     Guided, HasRow, OnTheWay, Trip, AtIntake, OffShelf, EvidenceIsKept,
     Puts, VerificationStatus, CaptureRow
  <2> QED
    BY <1>1, <2>1, <2>2, <2>3, <2>4, <2>5, <2>6, <2>7, RetrievalRunEvidence,
       RetrievalCheckoutEvidence, SMTT(30) DEF RetrievalStep
<1>2. CASE PutawayStep(r)
  <2>1. ASSUME NEW b \in Bins, NEW s \in Bins \cup {NoBin}, NEW k \in Keys, PutawayBegin(r, b, s, k)
        PROVE  EvidenceIsKept(r)'
    BY <2>1 DEF PutawayBegin, At, Goto, Planned, CallState
  <2>2. ASSUME NEW b \in Bins, ReturnBegin(r, b)
        PROVE  EvidenceIsKept(r)'
    BY <2>2 DEF ReturnBegin, At, Goto, Planned, CallState
  <2>3. CASE PutawayClaim(r)
    BY <2>3 DEF PutawayClaim, At, Goto, CreateMovement, Returning, CallState
  <2>4. CASE ReturnClaim(r)
    BY <2>4 DEF ReturnClaim, At, Goto, CreateMovement, CallState
  <2>5. CASE PutawayRun(r)
    BY <2>5 DEF PutawayRun, At, Goto, SetMovement, CallState
  <2>6. CASE PutawayRelease(r)
    BY <2>6 DEF PutawayRelease, Goto, CloseMovement
  <2>7. CASE PutawayUncertain(r)
    BY <2>7 DEF PutawayUncertain, At, Goto, SetMovement
  <2>8. CASE PutawayCommit(r)
    BY <2>8 DEF PutawayCommit, At, Goto, SetMovement, Returning
  <2> HIDE DEF TypeOK, Own, RowIsOfCall, TripIsDriven, LegsAreInOrder,
     Guided, HasRow, OnTheWay, Trip, AtIntake, OffShelf, EvidenceIsKept,
     Puts, VerificationStatus, CaptureRow
  <2> QED
    BY <1>2, <2>1, <2>2, <2>3, <2>4, <2>5, <2>6, <2>7, <2>8 DEF PutawayStep
<1>3. CASE GuidedStep(r)
  <2>1. ASSUME NEW b \in Bins, NEW k \in Keys, GuidedBegin(r, b, k)
        PROVE  EvidenceIsKept(r)'
    BY <2>1 DEF GuidedBegin, At, Goto, Planned, CallState
  <2>2. CASE GuidedPrepare(r)
    BY <2>2 DEF GuidedPrepare, At, Goto, CreateMovement, CallState
  <2>3. CASE PresentClaim(r)
    BY <2>3 DEF PresentClaim, At, Goto, SetMovement, CallState
  <2>4. CASE Presented(r)
    BY <2>4 DEF Presented, At, Goto, SetMovement
  <2>5. ASSUME NEW placed \in BOOLEAN, PlacementDecided(r, placed)
        PROVE  EvidenceIsKept(r)'
    BY <2>5 DEF PlacementDecided, At
  <2>6. CASE PlacementPhotoRequired(r)
    BY <2>6 DEF PlacementPhotoRequired, At, Goto
  <2>7. CASE GuidedBusy(r)
    BY <2>7, ConstantsAssumption DEF GuidedBusy, At, Goto, MoveOn, CallState,
       MovementRow
  <2>8. CASE GuidedRefused(r)
    BY <2>8 DEF GuidedRefused, At, Goto, MoveOn
  <2>9. CASE GuidedFailed(r)
    BY <2>9 DEF GuidedFailed, Goto, SetMovement
  <2>10. CASE Returned(r)
    BY <2>10 DEF Returned, At, Goto, SetMovement
  <2>11. CASE GuidedCommit(r)
    BY <2>11 DEF GuidedCommit, At, Goto, SetMovement, CloseMovement
  <2> HIDE DEF TypeOK, Own, RowIsOfCall, TripIsDriven, LegsAreInOrder,
     Guided, HasRow, OnTheWay, Trip, AtIntake, OffShelf, EvidenceIsKept,
     Puts, VerificationStatus, CaptureRow
  <2> QED
    BY <1>3, <2>1, <2>2, <2>3, <2>4, <2>5, <2>6, <2>7, <2>8, <2>9, <2>10,
       <2>11, GuidedReturnClaimEvidence DEF GuidedStep
<1>4. CASE MachineStep(r)
  <2>1. CASE StartMove(r)
    BY <2>1 DEF StartMove, At, Goto
  <2>2. CASE RefuseMove(r)
    BY <2>2 DEF RefuseMove, At, Goto
  <2>3. CASE FinishMove(r)
    BY <2>3 DEF FinishMove, At, Carried
  <2>4. CASE FailMove(r)
    BY <2>4 DEF FailMove, At, Goto
  <2>5. CASE LoseMove(r)
    BY <2>5 DEF LoseMove, At, Carried
  <2>6. CASE Crash(r)
    BY <2>6 DEF Crash, Goto
  <2>7. CASE LeaseExpires(r)
    BY <2>7 DEF LeaseExpires, At, Carried
  <2> HIDE DEF TypeOK, Own, RowIsOfCall, TripIsDriven, LegsAreInOrder,
     Guided, HasRow, OnTheWay, Trip, AtIntake, OffShelf, EvidenceIsKept,
     Puts, VerificationStatus, CaptureRow
  <2> QED
    BY <1>4, <2>1, <2>2, <2>3, <2>4, <2>5, <2>6, <2>7 DEF MachineStep
<1>5. CASE VerificationStep(r)
  <2>1. CASE RequireVerification(r)
    BY <2>1 DEF RequireVerification, At, Goto, history, CallState
  <2>2. CASE VerificationUnavailable(r)
    BY <2>2 DEF VerificationUnavailable, At, Goto
  <2>3. CASE AcceptCapture(r)
    BY <2>3 DEF AcceptCapture
  <2>4. CASE CancelCapture(r)
    BY <2>4 DEF CancelCapture
  <2>5. CASE SeeDecision(r)
    BY <2>5 DEF SeeDecision, At, Goto, CallState
  <2>6. CASE AutomaticAcceptFails(r)
    BY <2>6 DEF AutomaticAcceptFails, At, Goto
  <2>7. CASE CaptureTimesOut(r)
    BY <2>7 DEF CaptureTimesOut, At, Goto
  <2>8. CASE CloseTimedOutMovement(r)
    BY <2>8 DEF CloseTimedOutMovement, At, Goto, SetMovement
  <2> HIDE DEF TypeOK, Own, RowIsOfCall, TripIsDriven, LegsAreInOrder,
     Guided, HasRow, OnTheWay, Trip, AtIntake, OffShelf, EvidenceIsKept,
     Puts, VerificationStatus, CaptureRow
  <2> QED
    BY <1>5, <2>1, <2>2, <2>3, <2>4, <2>5, <2>6, <2>7, <2>8 DEF VerificationStep
<1>6. CASE RecoveryStep(r)
  <2>1. CASE RecoverRetrieval(r)
    BY <2>1 DEF RecoverRetrieval, SetMovement
  <2>2. CASE SweepBeforeMotion(r)
    BY <2>2 DEF SweepBeforeMotion, CloseMovement
  <2>3. CASE SweepOffShelf(r)
    BY <2>3 DEF SweepOffShelf, CloseMovement
  <2> HIDE DEF TypeOK, Own, RowIsOfCall, TripIsDriven, LegsAreInOrder,
     Guided, HasRow, OnTheWay, Trip, AtIntake, OffShelf, EvidenceIsKept,
     Puts, VerificationStatus, CaptureRow
  <2> QED
    BY <1>6, <2>1, <2>2, <2>3, RecoverPutawayEvidence DEF RecoveryStep
<1> QED
  BY <1>1, <1>2, <1>3, <1>4, <1>5, <1>6 DEF Step, CallStep

(* A step of r touches only its own photo.                                 *)
LEMMA StepCapture ==
  ASSUME Typing, NEW r \in Calls, Step(r)
  PROVE  \A q \in Calls : q # r => capture'[q] = capture[q]
<1>1. capture \in [Calls -> CaptureRow]
  BY DEF Typing, TypeOK
<1>2. CASE UNCHANGED capture
  BY <1>2
<1>3. CASE VerificationStep(r)
  BY <1>1, <1>3 DEF VerificationStep, RequireVerification, VerificationUnavailable,
     AcceptCapture, CancelCapture, SeeDecision, AutomaticAcceptFails, CaptureTimesOut,
     CloseTimedOutMovement
<1>4. CASE CheckoutCheckExpires(r)
  BY <1>1, <1>4 DEF CheckoutCheckExpires
<1>5. CASE RecoverRetrieval(r) \/ RecoverPutaway(r)
  BY <1>1, <1>5 DEF RecoverRetrieval, RecoverPutaway, FailsCapture
<1>6. UNCHANGED capture \/ VerificationStep(r) \/ CheckoutCheckExpires(r)
      \/ RecoverRetrieval(r) \/ RecoverPutaway(r)
  BY DEF Step, CallStep, RetrievalStep, PutawayStep, GuidedStep, MachineStep,
     RecoveryStep,
     RetrievalBegin, RetrievalClaim, RetrievalRun, RetrievalRelease, RetrievalUncertain,
     RetrievalCheckout, RetrievalComplete, RetrievalVerificationFailed, PutawayBegin,
     ReturnBegin, PutawayClaim, ReturnClaim, PutawayRun, PutawayRelease, PutawayUncertain,
     PutawayCommit, GuidedBegin, GuidedPrepare, PresentClaim, Presented, PlacementDecided,
     PlacementPhotoRequired, GuidedReturnClaim, GuidedBusy, GuidedRefused, GuidedFailed,
     Returned, GuidedCommit, StartMove, RefuseMove, FinishMove, FailMove, LoseMove, Crash,
     LeaseExpires, SweepBeforeMotion, SweepOffShelf
<1> QED  BY <1>2, <1>3, <1>4, <1>5, <1>6

LEMMA InitEvidence == Init => EvidenceInv
  BY ConstantsAssumption, SMTT(30) DEF Init, EvidenceInv, EvidenceIsKept, NoMovement,
     IdleCall,
     Guided, Puts, Trip, AtIntake

LEMMA NextEvidence == Typing /\ OwnInv /\ EvidenceInv /\ [Next]_vars => EvidenceInv'
<1> SUFFICES ASSUME Typing, OwnInv, EvidenceInv, [Next]_vars PROVE EvidenceInv'
  OBVIOUS
<1>1. ASSUME NEW r \in Calls, Step(r) PROVE EvidenceInv'
  <2>1. CallFrame(r) /\ MovementFrame(r)
    BY <1>1, StepCallEffect, StepMovementEffect DEF CallEffect, MovementEffect
  <2>2. EvidenceIsKept(r)'
    BY <1>1, StepEvidence DEF Typing, OwnInv, Own, EvidenceInv
  <2>3. ASSUME NEW q \in Calls, q # r PROVE EvidenceIsKept(q)'
    <3>1. call'[q] = call[q] /\ movement'[q] = movement[q] /\ capture'[q] = capture[q]
      BY <1>1, <2>1, <2>3, StepCapture DEF CallFrame, MovementFrame
    <3> QED  BY <3>1 DEF EvidenceInv, EvidenceIsKept, Guided, Puts
  <2> QED  BY <2>2, <2>3 DEF EvidenceInv
<1>2. CASE UNCHANGED <<call, movement, capture>>
  BY <1>2 DEF EvidenceInv, EvidenceIsKept, Guided, Puts
<1> QED
  BY <1>1, <1>2 DEF Next, Step, Reconcile, AddStock, RemoveStock, vars

(* What must be true of a call that changes what is recorded of a bin.     *)
Evidenced(r, b) ==
    /\ movement[r].status # "COMPLETED" /\ movement'[r].status = "COMPLETED"
    /\ b \in {movement[r].bin, movement[r].src}
    /\ capture[r].status = "ACCEPTED"
    /\ call[r].carried
    /\ holder # r

LEMMA StepStock ==
  ASSUME TypeOK, NEW r \in Calls, Own(r), EvidenceIsKept(r), Step(r),
         NEW b \in Bins, stock'[b] # stock[b]
  PROVE  Evidenced(r, b)
<1>1. CASE RetrievalComplete(r)
  <2>1. /\ call[r].kind = "retrieve" /\ call[r].pc = "decided"
        /\ movement[r].status = "AWAITING_VERIFICATION"
        /\ b = call[r].bin /\ SetMovement(r, "COMPLETED")
    BY <1>1 DEF RetrievalComplete, At, TypeOK
  <2>2. movement'[r].status = "COMPLETED"
    BY <2>1 DEF TypeOK, CallState, MovementRow, SetMovement
  <2> QED  BY <2>1, <2>2 DEF Evidenced, Own, RowIsOfCall, TripIsDriven, LegsAreInOrder,
     Guided, HasRow, OnTheWay, Trip, AtIntake, OffShelf, EvidenceIsKept,
     VerificationStatus
<1>2. CASE PutawayCommit(r)
  <2>1. /\ call[r].kind \in {"putaway", "return"} /\ call[r].pc = "moved"
        /\ SetMovement(r, "COMPLETED")
        /\ b \in {call[r].bin, call[r].src}
    BY <1>2 DEF PutawayCommit, At, TypeOK
  <2>2. movement'[r].status = "COMPLETED"
    BY <2>1 DEF TypeOK, CallState, MovementRow, SetMovement
  <2> QED  BY <2>1, <2>2 DEF Evidenced, Own, RowIsOfCall, TripIsDriven, LegsAreInOrder,
     Guided, HasRow, OnTheWay, Trip, AtIntake, OffShelf, EvidenceIsKept, Puts
<1>3. CASE GuidedCommit(r)
  <2>1. /\ call[r].kind = "guided" /\ call[r].pc = "returned"
        /\ movement[r].status = "READY_TO_COMMIT"
        /\ b = call[r].bin /\ SetMovement(r, "COMPLETED")
    BY <1>3 DEF GuidedCommit, At, TypeOK
  <2>2. movement'[r].status = "COMPLETED"
    BY <2>1 DEF TypeOK, CallState, MovementRow, SetMovement
  <2> QED  BY <2>1, <2>2 DEF Evidenced, Own, RowIsOfCall, TripIsDriven, LegsAreInOrder,
     Guided, HasRow, OnTheWay, Trip, AtIntake, OffShelf, EvidenceIsKept
<1>4. CASE UNCHANGED stock
  BY <1>4
<1> QED
  BY <1>1, <1>2, <1>3, <1>4
  DEF Step, CallStep, RetrievalStep, PutawayStep, GuidedStep, MachineStep,
         VerificationStep,
      RecoveryStep, RetrievalBegin, RetrievalClaim, RetrievalRun, RetrievalRelease,
      RetrievalUncertain, RetrievalCheckout, CheckoutCheckExpires, RetrievalVerificationFailed,
      PutawayBegin, ReturnBegin, PutawayClaim, ReturnClaim, PutawayRun, PutawayRelease,
      PutawayUncertain, GuidedBegin, GuidedPrepare, PresentClaim, Presented, PlacementDecided,
      PlacementPhotoRequired, GuidedReturnClaim, GuidedBusy, GuidedRefused, GuidedFailed,
      Returned, StartMove, RefuseMove, FinishMove, FailMove, LoseMove, Crash, LeaseExpires,
      RequireVerification, VerificationUnavailable, AcceptCapture, CancelCapture, SeeDecision,
      AutomaticAcceptFails, CaptureTimesOut, CloseTimedOutMovement, RecoverRetrieval,
      RecoverPutaway, SweepBeforeMotion, SweepOffShelf

(* Outside a manual correction, recorded stock changes only in the step    *)
(* that completes a movement, after an accepted photo and a finished trip. *)
THEOREM StockFollowsEvidence == Spec => StockChangesOnlyOnEvidence
<1>1. Typing /\ OwnInv /\ EvidenceInv /\ [Next]_vars =>
        [ \A b \in Bins :
            stock'[b] # stock[b] =>
              \/ adjustments' # adjustments
              \/ \E m \in Calls : Evidenced(m, b) ]_vars
  <2> SUFFICES ASSUME Typing, OwnInv, EvidenceInv, Next, NEW b \in Bins, stock'[b] # stock[b]
               PROVE  adjustments' # adjustments \/ \E m \in Calls : Evidenced(m, b)
    BY DEF vars
  <2>1. ASSUME NEW r \in Calls, Step(r) PROVE \E m \in Calls : Evidenced(m, b)
    BY <2>1, StepStock DEF Typing, OwnInv, Own, EvidenceInv
  <2>2. CASE Reconcile
    BY <2>2 DEF Reconcile
  <2>3. ASSUME NEW x \in Bins, NEW n \in 1 .. Capacity, AddStock(x, n) \/ RemoveStock(x, n)
        PROVE  adjustments' # adjustments
    BY <2>3, ConstantsAssumption DEF AddStock, RemoveStock, Typing, TypeOK
  <2> QED  BY <2>1, <2>2, <2>3 DEF Next, Step
<1>2. Init => OwnInv /\ EvidenceInv
  BY InitOwn, InitEvidence
<1> QED  BY <1>1, <1>2, InitTyping, NextTyping, NextOwn, NextEvidence, PTL
         DEF Spec, StockChangesOnlyOnEvidence, Evidenced

---------------------------------------------------------------------------
(***************************************************************************)
(* Status and stock of a bin.                                              *)
(*                                                                         *)
(* The record of a shelved bin is written by the call that gives it back,  *)
(* from what the call read when it took the bin.  So a reserved bin        *)
(* carries an obligation: its stock is still what its owner would restore  *)
(* the status of.  Only the owner's commit changes it, and in that step    *)
(* the status is written too.                                              *)
(***************************************************************************)

(* A shelved bin with this status may have this recorded stock.            *)
Reads(status, n) ==
    /\ status = "AVAILABLE" => ~(n > 0)
    /\ status = "OCCUPIED" => n > 0

(* What a reserved bin holds is what its owner's release will say of it.   *)
Reservation(r, b) ==
    /\ call[r].kind = "retrieve" => stock[b] > 0
    /\ Puts(r) /\ b = call[r].bin => Reads(call[r].orig, stock[b])

(* The quantity a putaway read goes with the status it read, and so does   *)
(* the one its movement keeps for the recovery.                            *)
IntakePlanned(r) ==
    /\ call[r].kind = "putaway" /\ call[r].pc = "claim" /\ call[r].src = NoBin =>
         Reads(call[r].orig, call[r].base)
    /\ HasRow(r) /\ Puts(r) /\ movement[r].from # "OUTPUT" =>
         call[r].orig = IF movement[r].prev > 0 THEN "OCCUPIED" ELSE "AVAILABLE"
    /\ HasRow(r) /\ Guided(r) => movement[r].prev = 0

ShelfBooks ==
    \A b \in Bins \ misreleased :
      /\ Reads(binStatus[b], stock[b])
      /\ binStatus[b] = "RESERVED" => Reservation(owner[b], b)
BooksInv == ShelfBooks /\ \A r \in Calls : IntakePlanned(r)

(* What a call planned stays as it is once it has a movement.              *)
PlanStays(r) ==
    HasRow(r) => HasRow(r)' /\ call'[r].bin = call[r].bin /\ call'[r].orig = call[r].orig

Same(b) == binStatus'[b] = binStatus[b] /\ owner'[b] = owner[b] /\ stock'[b] = stock[b]
Promised(r, b) == binStatus'[b] = "RESERVED" /\ owner'[b] = r /\ Reservation(r, b)'
Written(b) == binStatus'[b] # "RESERVED" /\ Reads(binStatus'[b], stock'[b])

BooksEffect(r) ==
    /\ PlanStays(r) /\ IntakePlanned(r)'
    /\ misreleased \subseteq misreleased'
    /\ \A b \in Bins \ misreleased' : Same(b) \/ Promised(r, b) \/ Written(b)

(* Before a step of r: r is the owner of what it holds, and the books are  *)
(* right.                                                                  *)
Booked(r) ==
    /\ \A b \in Bins \ misreleased : Holds(r, b) => binStatus[b] = "RESERVED" /\ owner[b] = r
    /\ ShelfBooks /\ IntakePlanned(r)

LEMMA RetrievalClaimBooks ==
  ASSUME TypeOK, NEW r \in Calls, Own(r), Booked(r), RetrievalClaim(r)
  PROVE  BooksEffect(r)
<1> DEFINE b == call[r].bin
<1>1. /\ call[r].kind = "retrieve" /\ call[r].pc = "claim" /\ ~HasRow(r)
      /\ UNCHANGED stock
  BY DEF RetrievalClaim, At, Own, RowIsOfCall
<1>2. call'[r].kind = "retrieve"
  BY <1>1, SMTT(30) DEF RetrievalClaim, Goto, TypeOK, CallState
<1>3. PlanStays(r) /\ IntakePlanned(r)'
  BY <1>1, <1>2 DEF PlanStays, IntakePlanned, Puts, Guided
<1>4. CASE UNCHANGED <<binStatus, owner, misreleased>>
  BY <1>1, <1>3, <1>4 DEF BooksEffect, Same
<1>5. CASE binStatus[b] = "OCCUPIED" /\ Reserve(r, {b})
  <2>1. ASSUME NEW x \in Bins \ misreleased PROVE Same(x) \/ Promised(r, x)
    <3>1. CASE x = b
      <4>1. stock'[x] > 0
        BY <1>1, <1>5, <3>1 DEF Booked, ShelfBooks, Reads
      <4> QED  BY <1>2, <1>5, <3>1, <4>1 DEF Promised, Reservation, Reserve, Puts
    <3>2. CASE x # b
      BY <1>1, <1>5, <3>2 DEF Same, Reserve
    <3> QED  BY <3>1, <3>2
  <2> QED  BY <1>3, <1>5, <2>1 DEF BooksEffect, Reserve
<1> QED  BY <1>4, <1>5 DEF RetrievalClaim, history

(* A release of a bin that r has RESERVED writes what r owes it; another   *)
(* bin is left alone.                                                      *)
LEMMA RetrievalReleaseBooks ==
  ASSUME TypeOK, NEW r \in Calls, Own(r), Booked(r), RetrievalRelease(r)
  PROVE  BooksEffect(r)
<1> DEFINE b == call[r].bin
<1>1. /\ call[r].kind = "retrieve" /\ call[r].pc \in {"busy", "refused", "notMoved"}
      /\ binStatus' = Released(binStatus, b, "OCCUPIED")
      /\ CloseMovement(r, "FAILED") /\ Goto(r, "done")
      /\ UNCHANGED <<stock, owner, misreleased>>
  BY DEF RetrievalRelease, history
<1>2. /\ call'[r].kind = "retrieve" /\ call'[r].bin = b /\ call'[r].orig = call[r].orig
      /\ call'[r].pc = "done"
  BY <1>1, SMTT(30) DEF Goto, TypeOK, CallState
<1>3. movement'[r].status = "FAILED"
  BY <1>1, SMTT(30) DEF CloseMovement, TypeOK, MovementRow
<1>4. PlanStays(r) /\ IntakePlanned(r)'
  BY <1>2, <1>3 DEF PlanStays, IntakePlanned, Puts, Guided, HasRow
<1>5. ASSUME NEW x \in Bins \ misreleased PROVE Same(x) \/ Written(x)
  <2>1. binStatus'[x] = IF x = b /\ binStatus[x] = "RESERVED" THEN "OCCUPIED" ELSE binStatus[x]
    BY <1>1, ReleasedCases DEF TypeOK
  <2>2. CASE x = b /\ binStatus[x] = "RESERVED"
    <3>1. Holds(r, x)
      BY <1>1, <2>2 DEF Holds, BinsOf, Driving, Own, RowIsOfCall, TripIsDriven, HasRow,
         Guided, OnTheWay, Trip, OffShelf
    <3>2. stock[x] > 0
      BY <1>1, <3>1 DEF Booked, ShelfBooks, Reservation
    <3> QED  BY <1>1, <2>1, <2>2, <3>2 DEF Written, Reads
  <2> QED  BY <1>1, <2>1, <2>2 DEF Same
<1> QED  BY <1>1, <1>4, <1>5 DEF BooksEffect

LEMMA RetrievalCheckoutBooks ==
  ASSUME TypeOK, NEW r \in Calls, Own(r), Booked(r), RetrievalCheckout(r)
  PROVE  BooksEffect(r)
<1>1. /\ call[r].kind = "retrieve" /\ call[r].pc = "moved"
      /\ \E pc \in {"await", "done"} : Goto(r, pc)
      /\ movement' = movement \/ \E st \in {"AWAITING_VERIFICATION", "COMPLETED"} : SetMovement(r, st)
      /\ binStatus' = binStatus \/ binStatus' = [binStatus EXCEPT ![call[r].bin] = "CHECKED_OUT"]
      /\ UNCHANGED <<stock, owner, misreleased>>
  BY DEF RetrievalCheckout, At, history
<1>2. /\ call'[r].kind = "retrieve" /\ call'[r].bin = call[r].bin /\ call'[r].orig = call[r].orig
  BY <1>1, SMTT(30) DEF Goto, TypeOK, CallState
<1>3. HasRow(r) => HasRow(r)'
  BY <1>1, SMTT(30) DEF SetMovement, TypeOK, MovementRow, HasRow
<1>4. PlanStays(r) /\ IntakePlanned(r)'
  BY <1>2, <1>3 DEF PlanStays, IntakePlanned, Puts, Guided
<1>5. \A x \in Bins : Same(x) \/ Written(x)
  BY <1>1 DEF Same, Written, Reads, TypeOK
<1> QED  BY <1>1, <1>4, <1>5 DEF BooksEffect

LEMMA RetrievalCompleteBooks ==
  ASSUME TypeOK, NEW r \in Calls, Own(r), Booked(r), RetrievalComplete(r)
  PROVE  BooksEffect(r)
<1>1. /\ call[r].kind = "retrieve"
      /\ \E pc \in {"abort", "done"} : Goto(r, pc)
      /\ movement' = movement \/ SetMovement(r, "COMPLETED")
      /\ \/ stock' = stock
         \/ /\ stock' = [stock EXCEPT ![call[r].bin] = capture[r].count]
            /\ binStatus[call[r].bin] = "CHECKED_OUT"
      /\ UNCHANGED <<binStatus, owner, misreleased>>
  BY DEF RetrievalComplete, At, history
<1>2. /\ call'[r].kind = "retrieve" /\ call'[r].bin = call[r].bin /\ call'[r].orig = call[r].orig
  BY <1>1, SMTT(30) DEF Goto, TypeOK, CallState
<1>3. HasRow(r) => HasRow(r)'
  BY <1>1, SMTT(30) DEF SetMovement, TypeOK, MovementRow, HasRow
<1>4. PlanStays(r) /\ IntakePlanned(r)'
  BY <1>2, <1>3 DEF PlanStays, IntakePlanned, Puts, Guided
<1>5. \A x \in Bins : Same(x) \/ Written(x)
  BY <1>1 DEF Same, Written, Reads, TypeOK
<1> QED  BY <1>1, <1>4, <1>5 DEF BooksEffect

LEMMA PutawayClaimBooks ==
  ASSUME TypeOK, NEW r \in Calls, Own(r), Booked(r), PutawayClaim(r)
  PROVE  BooksEffect(r)
<1> DEFINE b == call[r].bin
           s == call[r].src
<1>1. /\ call[r].kind = "putaway" /\ call[r].pc = "claim" /\ ~HasRow(r)
      /\ call[r].orig # "RESERVED" /\ (s # NoBin => call[r].orig = "AVAILABLE" /\ s # b)
      /\ UNCHANGED stock
  BY DEF PutawayClaim, At, Own, RowIsOfCall
<1>2. PlanStays(r)
  BY <1>1 DEF PlanStays
<1>3. CASE Goto(r, "done") /\ UNCHANGED <<binStatus, movement, owner, misreleased>>
  <2>1. call'[r].pc = "done" /\ ~HasRow(r)'
    BY <1>1, <1>3, SMTT(30) DEF Goto, TypeOK, CallState, HasRow
  <2> QED  BY <1>1, <1>2, <1>3, <2>1 DEF BooksEffect, IntakePlanned, Guided, Same
<1>4. CASE ~(Goto(r, "done") /\ UNCHANGED <<binStatus, movement, owner, misreleased>>)
  <2>1. /\ Reserve(r, {b, s}) /\ binStatus[b] = call[r].orig /\ Goto(r, "await")
        /\ s = NoBin => Held(b) = call[r].base
        /\ movement' = [movement EXCEPT ![r] =
             [status |-> "VALIDATED", type |-> "PUTAWAY", bin |-> b, src |-> s,
              from |-> IF Returning(r) THEN "OUTPUT" ELSE "INTAKE",
              prev |-> call[r].base, key |-> call[r].key]]
    BY <1>4 DEF PutawayClaim, CreateMovement, history
  <2>2. /\ call'[r].kind = "putaway" /\ call'[r].pc = "await" /\ call'[r].bin = b
        /\ call'[r].orig = call[r].orig
    BY <1>1, <2>1, SMTT(30) DEF Goto, TypeOK, CallState
  <2>3. /\ movement'[r].from = (IF Returning(r) THEN "OUTPUT" ELSE "INTAKE")
        /\ movement'[r].prev = call[r].base
    BY <2>1 DEF TypeOK
  <2>4. IntakePlanned(r)'
    <3>1. CASE Returning(r)
      BY <2>2, <2>3, <3>1 DEF IntakePlanned, Guided
    <3>2. CASE ~Returning(r)
      <4>1. s = NoBin /\ call[r].orig \in {"AVAILABLE", "OCCUPIED"}
        BY <1>1, <3>2 DEF Returning, TypeOK, CallState, BinStatus
      <4>2. Reads(call[r].orig, call[r].base)
        BY <1>1, <4>1 DEF Booked, IntakePlanned
      <4>3. call[r].orig = IF call[r].base > 0 THEN "OCCUPIED" ELSE "AVAILABLE"
        BY <4>1, <4>2 DEF Reads
      <4> QED  BY <2>2, <2>3, <4>3 DEF IntakePlanned, Guided
    <3> QED  BY <3>1, <3>2
  <2>5. ASSUME NEW x \in Bins \ misreleased PROVE Same(x) \/ Promised(r, x)
    <3>1. CASE x \in {b, s}
      <4>1. binStatus'[x] = "RESERVED" /\ owner'[x] = r
        BY <2>1, <3>1 DEF Reserve
      <4>2. x = b => Reads(call[r].orig, stock[x])
        BY <2>1 DEF Booked, ShelfBooks
      <4> QED  BY <1>1, <2>2, <4>1, <4>2 DEF Promised, Reservation
    <3>2. CASE x \notin {b, s}
      BY <1>1, <2>1, <3>2 DEF Same, Reserve
    <3> QED  BY <3>1, <3>2
  <2> QED  BY <1>2, <2>1, <2>4, <2>5 DEF BooksEffect, Reserve
<1> QED  BY <1>3, <1>4

LEMMA ReturnClaimBooks ==
  ASSUME TypeOK, NEW r \in Calls, Own(r), Booked(r), ReturnClaim(r)
  PROVE  BooksEffect(r)
<1> DEFINE b == call[r].bin
<1>1. /\ call[r].kind = "return" /\ call[r].pc = "claim" /\ ~HasRow(r)
      /\ call[r].orig = "CHECKED_OUT"
      /\ UNCHANGED stock
  BY DEF ReturnClaim, At, Own, RowIsOfCall
<1>2. PlanStays(r)
  BY <1>1 DEF PlanStays
<1>3. CASE Goto(r, "done") /\ UNCHANGED <<binStatus, movement, owner, misreleased>>
  <2>1. call'[r].pc = "done" /\ ~HasRow(r)'
    BY <1>1, <1>3, SMTT(30) DEF Goto, TypeOK, CallState, HasRow
  <2> QED  BY <1>1, <1>2, <1>3, <2>1 DEF BooksEffect, IntakePlanned, Guided, Same
<1>4. CASE ~(Goto(r, "done") /\ UNCHANGED <<binStatus, movement, owner, misreleased>>)
  <2>1. /\ Reserve(r, {b})
        /\ call' = [call EXCEPT ![r].pc = "await", ![r].base = stock[b]]
        /\ movement' = [movement EXCEPT ![r] =
             [status |-> "VALIDATED", type |-> "PUTAWAY", bin |-> b, src |-> NoBin,
              from |-> "OUTPUT", prev |-> stock[b], key |-> NoKey]]
    BY <1>4 DEF ReturnClaim, CreateMovement, history
  <2>2. /\ call'[r].kind = "return" /\ call'[r].pc = "await" /\ call'[r].orig = "CHECKED_OUT"
    BY <1>1, <2>1, SMTT(30) DEF TypeOK, CallState
  <2>3. movement'[r].from = "OUTPUT"
    BY <2>1 DEF TypeOK
  <2>4. IntakePlanned(r)'
    BY <2>2, <2>3 DEF IntakePlanned, Guided
  <2>5. ASSUME NEW x \in Bins PROVE Same(x) \/ Promised(r, x)
    BY <1>1, <2>1, <2>2 DEF Same, Promised, Reserve, Reservation, Reads
  <2> QED  BY <1>2, <2>1, <2>4, <2>5 DEF BooksEffect, Reserve
<1> QED  BY <1>3, <1>4

LEMMA PutawayReleaseBooks ==
  ASSUME TypeOK, NEW r \in Calls, Own(r), Booked(r), PutawayRelease(r)
  PROVE  BooksEffect(r)
<1> DEFINE b == call[r].bin
           s == call[r].src
           restored == Released(binStatus, b, call[r].orig)
<1>1. /\ Puts(r) /\ call[r].pc \in {"abort", "busy", "refused", "notMoved"}
      /\ CloseMovement(r, "FAILED") /\ Goto(r, "done")
      /\ binStatus' = IF s = NoBin THEN restored ELSE Released(restored, s, "CHECKED_OUT")
      /\ misreleased' = misreleased \cup
           {x \in {b, s} \cap Bins : binStatus[x] = "RESERVED" /\ owner[x] # r}
      /\ UNCHANGED <<stock, owner>>
  BY DEF PutawayRelease, Puts
<1>2. /\ call'[r].kind = call[r].kind /\ call'[r].bin = b /\ call'[r].orig = call[r].orig
      /\ call'[r].pc = "done" /\ call'[r].src = s
  BY <1>1, SMTT(30) DEF Goto, TypeOK, CallState
<1>3. /\ movement'[r].status = "FAILED" /\ movement'[r].from = movement[r].from
      /\ movement'[r].prev = movement[r].prev
  BY <1>1, SMTT(30) DEF CloseMovement, TypeOK, MovementRow
<1>4. HasRow(r) /\ call[r].orig # "RESERVED" /\ call[r].orig \in BinStatus
  BY <1>1 DEF Own, RowIsOfCall, Guided, Puts, TypeOK, CallState, HasRow
<1>5. PlanStays(r) /\ IntakePlanned(r)'
  BY <1>2, <1>3, <1>4 DEF PlanStays, IntakePlanned, Puts, Guided, HasRow, Booked
<1>6. restored \in [Bins -> BinStatus]
  BY <1>4, ReleasedType DEF TypeOK
<1>7. ASSUME NEW x \in Bins \ misreleased' PROVE Same(x) \/ Written(x)
  <2>1. binStatus'[x] = IF binStatus[x] # "RESERVED" THEN binStatus[x]
                        ELSE IF x = b THEN call[r].orig
                        ELSE IF x = s THEN "CHECKED_OUT" ELSE binStatus[x]
    <3>1. restored[x] = IF x = b /\ binStatus[x] = "RESERVED" THEN call[r].orig ELSE binStatus[x]
      BY ReleasedCases DEF TypeOK
    <3>2. CASE s = NoBin
      BY <1>1, <3>1, <3>2, ConstantsAssumption
    <3>3. CASE s # NoBin
      <4>1. binStatus' = Released(restored, s, "CHECKED_OUT")
        BY <1>1, <3>3
      <4>2. binStatus'[x] = IF x = s /\ restored[x] = "RESERVED" THEN "CHECKED_OUT" ELSE restored[x]
        BY <4>1, <1>6, ReleasedCases
      <4> QED  BY <4>2, <3>1, <1>4, <3>3
    <3> QED  BY <3>2, <3>3
  <2>2. CASE x = b /\ binStatus[x] = "RESERVED"
    <3>1. owner[x] = r
      BY <1>1, <2>2
    <3>2. Reads(call[r].orig, stock[x])
      BY <1>1, <2>2, <3>1 DEF Booked, ShelfBooks, Reservation
    <3> QED  BY <1>1, <1>4, <2>1, <2>2, <3>2 DEF Written
  <2>3. CASE x # b /\ x = s /\ binStatus[x] = "RESERVED"
    BY <2>1, <2>3 DEF Written, Reads
  <2>4. CASE ~(x \in {b, s} /\ binStatus[x] = "RESERVED")
    BY <1>1, <2>1, <2>4 DEF Same
  <2> QED  BY <2>2, <2>3, <2>4
<1> QED  BY <1>1, <1>5, <1>7 DEF BooksEffect

LEMMA PutawayCommitBooks ==
  ASSUME TypeOK, NEW r \in Calls, Own(r), Booked(r), PutawayCommit(r)
  PROVE  BooksEffect(r)
<1> DEFINE b == call[r].bin
           s == call[r].src
           n == capture[r].count
           home == IF s = NoBin THEN b ELSE s
<1>1. /\ Puts(r) /\ call[r].pc = "moved" /\ Goto(r, "done")
      /\ UNCHANGED <<owner, misreleased>>
  BY DEF PutawayCommit, Puts, At, history
<1>2. /\ call'[r].kind = call[r].kind /\ call'[r].bin = b /\ call'[r].orig = call[r].orig
      /\ call'[r].pc = "done" /\ call'[r].src = s
  BY <1>1, SMTT(30) DEF Goto, TypeOK, CallState
<1>3. movement' = movement \/ SetMovement(r, "COMPLETED")
  BY DEF PutawayCommit
<1>4. /\ HasRow(r) => HasRow(r)'
      /\ HasRow(r)' => HasRow(r)
      /\ movement'[r].from = movement[r].from /\ movement'[r].prev = movement[r].prev
  <2>1. HasRow(r)
    BY <1>1 DEF Own, RowIsOfCall
  <2> QED  BY <1>3, <2>1, SMTT(30) DEF SetMovement, TypeOK, MovementRow, HasRow
<1>5. PlanStays(r) /\ IntakePlanned(r)'
  BY <1>2, <1>4 DEF PlanStays, IntakePlanned, Puts, Guided, Booked
<1>6. CASE UNCHANGED <<stock, binStatus>>
  BY <1>1, <1>5, <1>6 DEF BooksEffect, Same
<1>7. CASE ~(UNCHANGED <<stock, binStatus>>)
  <2>1. /\ stock' = [x \in Bins |->
                 CASE x = b /\ n > 0 -> n
                   [] x = home /\ (n = 0 \/ x # b) -> NoRow
                   [] OTHER -> stock[x]]
        /\ binStatus' = [x \in Bins |->
                 CASE x = b -> IF n > 0 THEN "OCCUPIED" ELSE "AVAILABLE"
                   [] x = s -> "AVAILABLE"
                   [] OTHER -> binStatus[x]]
    BY <1>7 DEF PutawayCommit
  <2>2. n \in Nat
    BY ConstantsAssumption DEF TypeOK, CaptureRow, Quantities
  <2>3. s # NoBin => call[r].orig = "AVAILABLE" /\ s # b
    BY <1>1 DEF Own, RowIsOfCall, Guided, Puts, HasRow
  <2>4. ASSUME NEW x \in Bins \ misreleased PROVE Same(x) \/ Written(x)
    <3>1. CASE x = b /\ n > 0
      <4>1. binStatus'[x] = "OCCUPIED"
        BY <2>1, <2>3, <3>1, ConstantsAssumption
      <4>2. stock'[x] = n
        BY <2>1, <3>1
      <4> QED  BY <3>1, <4>1, <4>2 DEF Written, Reads
    <3>2. CASE x = b /\ n = 0 /\ s = NoBin
      BY <2>1, <3>2 DEF Written, Reads, NoRow
    <3>3. CASE x = b /\ n = 0 /\ s # NoBin
      <4>1. Holds(r, x)
        BY <1>1, <3>3 DEF Holds, BinsOf, Driving, Own, RowIsOfCall, TripIsDriven, HasRow,
           Guided, Puts, OnTheWay, Trip, OffShelf
      <4>2. Reads("AVAILABLE", stock[x])
        BY <1>1, <2>3, <3>3, <4>1 DEF Booked, ShelfBooks, Reservation
      <4>3. binStatus'[x] = "AVAILABLE" /\ stock'[x] = stock[x]
        BY <2>1, <2>3, <3>3
      <4> QED  BY <4>2, <4>3 DEF Written
    <3>4. CASE x # b /\ x = s
      <4>1. binStatus'[x] = "AVAILABLE" /\ stock'[x] = NoRow
        BY <2>1, <3>4, ConstantsAssumption
      <4> QED  BY <4>1 DEF Written, Reads, NoRow
    <3>5. CASE x # b /\ x # s
      BY <1>1, <2>1, <3>5 DEF Same
    <3> QED  BY <2>2, <3>1, <3>2, <3>3, <3>4, <3>5
  <2> QED  BY <1>1, <1>5, <2>4 DEF BooksEffect
<1> QED  BY <1>6, <1>7

LEMMA GuidedPrepareBooks ==
  ASSUME TypeOK, NEW r \in Calls, Own(r), Booked(r), GuidedPrepare(r)
  PROVE  BooksEffect(r)
<1>1. /\ call[r].kind = "guided" /\ call[r].pc = "claim" /\ ~HasRow(r)
      /\ UNCHANGED stock
      /\ \E pc \in {"prepared", "done"} : Goto(r, pc)
      /\ \/ Reserve(r, {call[r].bin})
         \/ UNCHANGED <<binStatus, owner, misreleased>>
      /\ \/ UNCHANGED movement
         \/ movement' = [movement EXCEPT ![r] =
              [status |-> "VALIDATED", type |-> "PUTAWAY", bin |-> call[r].bin,
               src |-> NoBin, from |-> "INTAKE", prev |-> 0, key |-> call[r].key]]
  BY DEF GuidedPrepare, CreateMovement, At, Own, RowIsOfCall, history
<1>2. call'[r].kind = "guided"
  BY <1>1, SMTT(30) DEF Goto, TypeOK, CallState
<1>3. HasRow(r)' => movement'[r].prev = 0
  <2>1. CASE UNCHANGED movement
    BY <1>1, <2>1 DEF HasRow
  <2>2. CASE ~UNCHANGED movement
    BY <1>1, <2>2 DEF TypeOK
  <2> QED  BY <2>1, <2>2
<1>4. PlanStays(r) /\ IntakePlanned(r)'
  BY <1>1, <1>2, <1>3 DEF PlanStays, IntakePlanned, Puts, Guided
<1>5. ASSUME NEW x \in Bins PROVE Same(x) \/ Promised(r, x)
  <2>1. CASE UNCHANGED <<binStatus, owner>>
    BY <1>1, <2>1 DEF Same
  <2>2. CASE Reserve(r, {call[r].bin})
    BY <1>1, <1>2, <2>2 DEF Same, Promised, Reserve, Reservation, Puts
  <2> QED  BY <1>1, <2>1, <2>2
<1> QED  BY <1>1, <1>4, <1>5 DEF BooksEffect, Reserve

LEMMA GuidedCommitBooks ==
  ASSUME TypeOK, NEW r \in Calls, Own(r), Booked(r), GuidedCommit(r)
  PROVE  BooksEffect(r)
<1> DEFINE b == call[r].bin
<1>1. /\ call[r].kind = "guided" /\ call[r].pc = "returned" /\ Goto(r, "done")
      /\ UNCHANGED <<owner, misreleased>>
  BY DEF GuidedCommit, At, history
<1>2. call'[r].kind = "guided" /\ call'[r].bin = b /\ call'[r].orig = call[r].orig
  BY <1>1, SMTT(30) DEF Goto, TypeOK, CallState
<1>3. \/ movement' = movement
      \/ \E st \in {"COMPLETED", "CANCELLED"} : SetMovement(r, st) \/ CloseMovement(r, st)
  BY DEF GuidedCommit
<1>4. HasRow(r) /\ HasRow(r)' /\ movement'[r].prev = movement[r].prev
  <2>1. HasRow(r)
    BY <1>1 DEF Own, RowIsOfCall
  <2> QED
    BY <1>3, <2>1, SMTT(30) DEF SetMovement, CloseMovement, TypeOK, MovementRow, HasRow
<1>5. PlanStays(r) /\ IntakePlanned(r)'
  BY <1>1, <1>2, <1>4 DEF Booked, PlanStays, IntakePlanned, Puts, Guided
<1>6. \/ stock' = [stock EXCEPT ![b] = Held(b) + 1] /\ binStatus' = [binStatus EXCEPT ![b] = "OCCUPIED"]
      \/ /\ binStatus' = [binStatus EXCEPT ![b] = IF Held(b) > 0 THEN "OCCUPIED" ELSE "AVAILABLE"]
         /\ UNCHANGED stock
      \/ UNCHANGED <<binStatus, stock>>
  BY DEF GuidedCommit
<1>7. ASSUME NEW x \in Bins PROVE Same(x) \/ Written(x)
  <2>1. stock[x] \in Int
    BY ConstantsAssumption DEF TypeOK, Quantities, NoRow
  <2> QED  BY <1>1, <1>6, <2>1 DEF Same, Written, Reads, Held, TypeOK
<1> QED  BY <1>1, <1>5, <1>7 DEF BooksEffect

LEMMA RecoverPutawayBooks ==
  ASSUME TypeOK, NEW r \in Calls, Own(r), Booked(r), RecoverPutaway(r),
         Guided(r) => Held(movement[r].bin) = 0
  PROVE  BooksEffect(r)
<1> DEFINE b == movement[r].bin
           s == movement[r].src
           to == DestinationStatusBeforeReservation(r)
           released == Released(binStatus, b, to)
<1>1. /\ CloseMovement(r, "FAILED") /\ Recoverable(r) /\ movement[r].type = "PUTAWAY"
      /\ binStatus' = IF s = NoBin THEN released ELSE Released(released, s, "CHECKED_OUT")
      /\ misreleased' = IF movement[r].status = "AWAITING_PLACEMENT"
                        THEN misreleased \cup {b} ELSE misreleased
      /\ UNCHANGED <<stock, call, owner>>
  BY DEF RecoverPutaway
<1>2. /\ movement'[r].status = "FAILED" /\ movement'[r].from = movement[r].from
      /\ movement'[r].prev = movement[r].prev
  BY <1>1, SMTT(30) DEF TypeOK, MovementRow, CloseMovement
<1>3. /\ HasRow(r) /\ b = call[r].bin /\ s = call[r].src
      /\ s # NoBin => movement[r].from = "OUTPUT" /\ s # b
      /\ Puts(r) \/ Guided(r)
  BY <1>1 DEF Recoverable, Own, RowIsOfCall, Guided, HasRow, Puts, TypeOK, CallState, AllKinds
<1>4. PlanStays(r) /\ IntakePlanned(r)'
  BY <1>1, <1>2, <1>3 DEF PlanStays, IntakePlanned, Puts, Guided, HasRow, Booked
<1>5. to \in BinStatus /\ to # "RESERVED"
  BY DEF DestinationStatusBeforeReservation, BinStatus
<1>6. released \in [Bins -> BinStatus]
  BY <1>5, ReleasedType DEF TypeOK
<1>7. ASSUME NEW x \in Bins \ misreleased' PROVE Same(x) \/ Written(x)
  <2>1. x \notin misreleased /\ (movement[r].status = "AWAITING_PLACEMENT" => x # b)
    BY <1>1
  <2>2. binStatus'[x] = IF binStatus[x] # "RESERVED" THEN binStatus[x]
                        ELSE IF x = s THEN "CHECKED_OUT"
                        ELSE IF x = b THEN to ELSE binStatus[x]
    <3>1. released[x] = IF x = b /\ binStatus[x] = "RESERVED" THEN to ELSE binStatus[x]
      BY ReleasedCases DEF TypeOK
    <3>2. CASE s = NoBin
      BY <1>1, <3>1, <3>2, ConstantsAssumption
    <3>3. CASE s # NoBin
      <4>1. binStatus' = Released(released, s, "CHECKED_OUT")
        BY <1>1, <3>3
      <4>2. binStatus'[x] = IF x = s /\ released[x] = "RESERVED" THEN "CHECKED_OUT" ELSE released[x]
        BY <4>1, <1>6, ReleasedCases
      <4> QED  BY <4>2, <3>1, <1>3, <3>3
    <3> QED  BY <3>2, <3>3
  <2>3. CASE x = b /\ x # s /\ binStatus[x] = "RESERVED"
    <3>1. Holds(r, x)
      BY <1>1, <1>3, <2>1, <2>3 DEF Recoverable, Holds, BinsOf, Driving
    <3>2. owner[x] = r
      BY <2>1, <3>1 DEF Booked
    <3>3. Reservation(r, x)
      BY <2>1, <2>3, <3>2 DEF Booked, ShelfBooks
    <3>4. Reads(to, stock[x])
      <4>1. CASE Guided(r)
        <5>1. movement[r].from = "INTAKE" /\ ~(stock[x] > 0)
          BY <1>1, <1>3, <2>3, <4>1, ConstantsAssumption
          DEF Own, RowIsOfCall, Guided, Held, TypeOK, Quantities
        <5>2. movement[r].prev = 0
          BY <1>3, <4>1 DEF Booked, IntakePlanned
        <5> QED  BY <5>1, <5>2 DEF DestinationStatusBeforeReservation, Reads
      <4>2. CASE Puts(r)
        <5>1. to = call[r].orig \/ to = "CHECKED_OUT"
          BY <1>3, <4>2 DEF DestinationStatusBeforeReservation, Booked, IntakePlanned, Own,
             RowIsOfCall, Puts, Guided
        <5> QED  BY <1>3, <2>3, <3>3, <4>2, <5>1 DEF Reservation, Reads
      <4> QED  BY <1>3, <4>1, <4>2
    <3> QED  BY <1>1, <1>5, <2>2, <2>3, <3>4 DEF Written
  <2>4. CASE x = s /\ binStatus[x] = "RESERVED"
    BY <2>2, <2>4 DEF Written, Reads
  <2>5. CASE ~(x \in {b, s} /\ binStatus[x] = "RESERVED")
    BY <1>1, <2>2, <2>5 DEF Same
  <2> QED  BY <2>3, <2>4, <2>5
<1> QED  BY <1>1, <1>4, <1>7 DEF BooksEffect

LEMMA SweepBeforeMotionBooks ==
  ASSUME TypeOK, NEW r \in Calls, Own(r), Booked(r), SweepBeforeMotion(r)
  PROVE  BooksEffect(r)
<1> DEFINE b == movement[r].bin
           to == IF Held(b) > 0 THEN "OCCUPIED" ELSE "AVAILABLE"
<1>1. /\ CloseMovement(r, "CANCELLED")
      /\ binStatus' = Released(binStatus, b, to)
      /\ misreleased \subseteq misreleased'
      /\ UNCHANGED <<stock, call, owner>>
  BY DEF SweepBeforeMotion
<1>2. /\ movement'[r].status = "CANCELLED" /\ movement'[r].from = movement[r].from
      /\ movement'[r].prev = movement[r].prev
  BY <1>1, SMTT(30) DEF TypeOK, MovementRow, CloseMovement
<1>3. HasRow(r)
  BY DEF SweepBeforeMotion, HasRow
<1>4. PlanStays(r) /\ IntakePlanned(r)'
  BY <1>1, <1>2, <1>3 DEF PlanStays, IntakePlanned, Puts, Guided, HasRow, Booked
<1>5. ASSUME NEW x \in Bins PROVE Same(x) \/ Written(x)
  <2>1. binStatus'[x] = IF x = b /\ binStatus[x] = "RESERVED" THEN to ELSE binStatus[x]
    BY <1>1, ReleasedCases DEF TypeOK
  <2>2. stock[x] \in Int
    BY ConstantsAssumption DEF TypeOK, Quantities, NoRow
  <2> QED  BY <1>1, <2>1, <2>2 DEF Same, Written, Reads, Held
<1> QED  BY <1>1, <1>4, <1>5 DEF BooksEffect

(* The other steps write neither status nor stock.                         *)
BooksAlone(r) == PlanStays(r) /\ IntakePlanned(r)' /\ UNCHANGED <<binStatus, stock, owner, misreleased>>

LEMMA PutawayBeginBooks ==
  ASSUME TypeOK, NEW r \in Calls, Own(r), Booked(r),
         NEW b \in Bins, NEW s \in Bins \cup {NoBin}, NEW k \in Keys, PutawayBegin(r, b, s, k)
  PROVE  BooksAlone(r)
<1>1. /\ call[r].kind = "putaway" /\ call[r].pc = "idle" /\ ~HasRow(r)
      /\ UNCHANGED <<movement, binStatus, stock, owner, misreleased>>
  BY DEF PutawayBegin, At, Own, RowIsOfCall, history
<1>2. PlanStays(r) /\ ~HasRow(r)'
  BY <1>1 DEF PlanStays, HasRow
<1>3. CASE Goto(r, "done")
  <2>1. call'[r].pc = "done"
    BY <1>3, SMTT(30) DEF Goto, TypeOK, CallState
  <2> QED  BY <1>1, <1>2, <2>1 DEF BooksAlone, IntakePlanned
<1>4. CASE ~Goto(r, "done")
  <2>1. /\ Planned(r, <<"scan", k>>, b, s, binStatus[b], Held(IF s = NoBin THEN b ELSE s), TRUE)
        /\ s = NoBin => IntakePlan(b) \/ HomePlan(b)
    BY <1>4 DEF PutawayBegin
  <2>2. /\ call'[r].src = s /\ call'[r].orig = binStatus[b]
        /\ call'[r].base = Held(IF s = NoBin THEN b ELSE s)
    BY <2>1 DEF Planned, TypeOK
  <2>3. s = NoBin => Reads(binStatus[b], Held(b))
    BY <2>1 DEF IntakePlan, HomePlan, Reads
  <2> QED  BY <1>1, <1>2, <2>2, <2>3 DEF BooksAlone, IntakePlanned
<1> QED  BY <1>3, <1>4

LEMMA StepBooks ==
  ASSUME TypeOK, NEW r \in Calls, Own(r), Booked(r), Step(r),
         RecoverPutaway(r) /\ Guided(r) => Held(movement[r].bin) = 0
  PROVE  BooksAlone(r) \/ BooksEffect(r)
<1>0. ASSUME call'[r].kind = call[r].kind, call'[r].bin = call[r].bin,
             call'[r].orig = call[r].orig, call'[r].pc # "claim" \/ call' = call,
             HasRow(r)' <=> HasRow(r), movement'[r].from = movement[r].from,
             movement'[r].prev = movement[r].prev,
             UNCHANGED <<binStatus, stock, history>>
      PROVE  BooksAlone(r)
  BY <1>0 DEF BooksAlone, PlanStays, IntakePlanned, Booked, Puts, Guided, history
<1>1. CASE RetrievalStep(r)
  <2>1. ASSUME NEW b \in Bins, NEW k \in Keys, NEW v \in BOOLEAN, RetrievalBegin(r, b, k, v)
        PROVE  BooksAlone(r)
    <3>1. /\ call[r].kind = "retrieve" /\ ~HasRow(r)
          /\ UNCHANGED <<movement, binStatus, stock, history>>
      BY <2>1 DEF RetrievalBegin, At, Own, RowIsOfCall
    <3>2. call'[r].kind = "retrieve"
      BY <2>1, <3>1 DEF RetrievalBegin, Goto, Planned, TypeOK, CallState
    <3> QED  BY <3>1, <3>2 DEF BooksAlone, PlanStays, IntakePlanned, HasRow, Puts, Guided, history
  <2>2. CASE RetrievalRun(r)
    BY <1>0, <2>2 DEF RetrievalRun, At, Goto, SetMovement, TypeOK, CallState, MovementRow,
       Own, RowIsOfCall, HasRow
  <2>3. CASE RetrievalUncertain(r)
    BY <1>0, <2>3 DEF RetrievalUncertain, At, Goto, SetMovement, TypeOK, CallState,
       MovementRow, Own, RowIsOfCall, HasRow
  <2>4. CASE CheckoutCheckExpires(r)
    BY <1>0, <2>4 DEF CheckoutCheckExpires, At, Goto, TypeOK, CallState, HasRow
  <2>5. CASE RetrievalVerificationFailed(r)
    BY <1>0, <2>5 DEF RetrievalVerificationFailed, At, Goto, SetMovement, TypeOK, CallState,
       MovementRow, Own, RowIsOfCall, HasRow
  <2> QED
    BY <1>1, <2>1, <2>2, <2>3, <2>4, <2>5, RetrievalClaimBooks, RetrievalReleaseBooks,
       RetrievalCheckoutBooks, RetrievalCompleteBooks DEF RetrievalStep
<1>2. CASE PutawayStep(r)
  <2>1. ASSUME NEW b \in Bins, ReturnBegin(r, b)
        PROVE  BooksAlone(r)
    <3>1. /\ call[r].kind = "return" /\ ~HasRow(r)
          /\ UNCHANGED <<movement, binStatus, stock, history>>
      BY <2>1 DEF ReturnBegin, At, Own, RowIsOfCall
    <3>2. call'[r].kind = "return"
      BY <2>1, <3>1 DEF ReturnBegin, Goto, Planned, TypeOK, CallState
    <3> QED  BY <3>1, <3>2 DEF BooksAlone, PlanStays, IntakePlanned, HasRow, Puts, Guided, history
  <2>2. CASE PutawayRun(r)
    BY <1>0, <2>2 DEF PutawayRun, At, Goto, SetMovement, TypeOK, CallState, MovementRow,
       Own, RowIsOfCall, HasRow
  <2>3. CASE PutawayUncertain(r)
    BY <1>0, <2>3 DEF PutawayUncertain, At, Goto, SetMovement, TypeOK, CallState,
       MovementRow, Own, RowIsOfCall, HasRow
  <2> QED
    BY <1>2, <2>1, <2>2, <2>3, PutawayBeginBooks, PutawayClaimBooks, ReturnClaimBooks,
       PutawayReleaseBooks, PutawayCommitBooks DEF PutawayStep
<1>3. CASE GuidedStep(r)
  <2>1. ASSUME NEW b \in Bins, NEW k \in Keys, GuidedBegin(r, b, k)
        PROVE  BooksAlone(r)
    <3>1. /\ call[r].kind = "guided" /\ ~HasRow(r)
          /\ UNCHANGED <<movement, binStatus, stock, history>>
      BY <2>1 DEF GuidedBegin, At, Own, RowIsOfCall
    <3>2. call'[r].kind = "guided"
      BY <2>1, <3>1 DEF GuidedBegin, Goto, Planned, TypeOK, CallState
    <3> QED  BY <3>1, <3>2 DEF BooksAlone, PlanStays, IntakePlanned, HasRow, Puts, Guided, history
  <2>2. CASE PresentClaim(r)
    BY <1>0, <2>2 DEF PresentClaim, At, Goto, SetMovement, TypeOK, CallState, MovementRow,
       Own, RowIsOfCall, HasRow
  <2>3. CASE Presented(r)
    BY <1>0, <2>3 DEF Presented, At, Goto, SetMovement, TypeOK, CallState, MovementRow,
       Own, RowIsOfCall, HasRow
  <2>4. ASSUME NEW placed \in BOOLEAN, PlacementDecided(r, placed)
        PROVE  BooksAlone(r)
    BY <1>0, <2>4 DEF PlacementDecided, At, TypeOK, CallState, HasRow
  <2>5. CASE PlacementPhotoRequired(r)
    BY <1>0, <2>5 DEF PlacementPhotoRequired, At, Goto, TypeOK, CallState, HasRow
  <2>6. CASE GuidedReturnClaim(r)
    BY <1>0, <2>6 DEF GuidedReturnClaim, At, Goto, SetMovement, TypeOK, CallState,
       MovementRow, Own, RowIsOfCall, HasRow
  <2>7. CASE GuidedBusy(r)
    BY <1>0, <2>7, SMTT(30) DEF GuidedBusy, At, Goto, MoveOn, TypeOK, CallState,
       MovementRow, Own, RowIsOfCall, HasRow
  <2>8. CASE GuidedRefused(r)
    BY <1>0, <2>8, SMTT(30) DEF GuidedRefused, At, Goto, MoveOn, TypeOK, CallState,
       MovementRow, Own, RowIsOfCall, HasRow
  <2>9. CASE GuidedFailed(r)
    BY <1>0, <2>9 DEF GuidedFailed, Goto, SetMovement, TypeOK, CallState, MovementRow, Own,
       RowIsOfCall, HasRow
  <2>10. CASE Returned(r)
    BY <1>0, <2>10 DEF Returned, At, Goto, SetMovement, TypeOK, CallState, MovementRow, Own,
       RowIsOfCall, HasRow
  <2> QED
    BY <1>3, <2>1, <2>2, <2>3, <2>4, <2>5, <2>6, <2>7, <2>8, <2>9, <2>10,
       GuidedPrepareBooks, GuidedCommitBooks DEF GuidedStep
<1>4. CASE MachineStep(r)
  <2>1. \E pc \in PC \ {"claim"} : Goto(r, pc) \/ Carried(r, pc)
    BY <1>4 DEF MachineStep, StartMove, RefuseMove, FinishMove, FailMove, LoseMove, Crash,
       LeaseExpires, PC
  <2>2. UNCHANGED <<movement, binStatus, stock, history>>
    BY <1>4 DEF MachineStep, StartMove, RefuseMove, FinishMove, FailMove, LoseMove, Crash,
       LeaseExpires
  <2>3. /\ call'[r].kind = call[r].kind /\ call'[r].bin = call[r].bin
        /\ call'[r].orig = call[r].orig /\ call'[r].pc # "claim"
    BY <2>1, SMTT(30) DEF Goto, Carried, TypeOK, CallState
  <2> QED  BY <1>0, <2>2, <2>3 DEF HasRow
<1>5. CASE VerificationStep(r)
  <2>1. \/ call' = call
        \/ \E pc \in PC \ {"claim"} : Goto(r, pc)
    BY <1>5 DEF VerificationStep, RequireVerification, VerificationUnavailable, AcceptCapture,
       CancelCapture, SeeDecision, AutomaticAcceptFails, CaptureTimesOut,
       CloseTimedOutMovement, PC
  <2>2. /\ UNCHANGED <<binStatus, stock, history>>
        /\ movement' = movement \/ (call[r].pc = "expired" /\ SetMovement(r, "FAILED"))
    BY <1>5 DEF VerificationStep, RequireVerification, VerificationUnavailable, AcceptCapture,
       CancelCapture, SeeDecision, AutomaticAcceptFails, CaptureTimesOut,
       CloseTimedOutMovement, At
  <2>3. /\ HasRow(r)' <=> HasRow(r)
        /\ movement'[r].from = movement[r].from /\ movement'[r].prev = movement[r].prev
    BY <2>2, SMTT(30) DEF SetMovement, TypeOK, MovementRow, Own, RowIsOfCall, HasRow
  <2> QED  BY <1>0, <2>1, <2>2, <2>3, SMTT(30) DEF Goto, TypeOK, CallState
<1>6. CASE RecoveryStep(r)
  <2>1. CASE RecoverRetrieval(r)
    BY <1>0, <2>1 DEF RecoverRetrieval, Recoverable, SetMovement, TypeOK, MovementRow, HasRow
  <2>2. CASE SweepOffShelf(r)
    BY <1>0, <2>2 DEF SweepOffShelf, CloseMovement, TypeOK, MovementRow, HasRow
  <2> QED
    BY <1>6, <2>1, <2>2, RecoverPutawayBooks, SweepBeforeMotionBooks DEF RecoveryStep
<1> QED
  BY <1>1, <1>2, <1>3, <1>4, <1>5, <1>6 DEF Step, CallStep

---------------------------------------------------------------------------
(* What may go wrong with the books, and did while the model was written:  *)
(* a correction of a bin that a call has reserved, after the call has read *)
(* it, and a recovery that takes a guided movement, which keeps no         *)
(* previous quantity, of a bin that holds stock.                           *)
CorrectsReserved ==
    adjustments' # adjustments /\ \E b \in Bins : stock'[b] # stock[b] /\ binStatus[b] = "RESERVED"
RecoversStockedGuided ==
    \E m \in Calls : RecoverPutaway(m) /\ Guided(m) /\ Held(movement[m].bin) # 0

LEMMA StepShelfBooks ==
  ASSUME Typing, CustodyInv, BooksInv, NEW r \in Calls, Step(r), ~RecoversStockedGuided
  PROVE  BooksInv'
<1>1. CallFrame(r) /\ MovementFrame(r)
  BY StepCallEffect, StepMovementEffect DEF CallEffect, MovementEffect
<1>2. TypeOK /\ Own(r) /\ Booked(r)
  BY DEF Typing, CustodyInv, OwnInv, Own, OwnersHold, Booked, BooksInv
<1>3. BooksEffect(r)
  <2>1. BooksAlone(r) \/ BooksEffect(r)
    BY <1>2, StepBooks DEF RecoversStockedGuided
  <2> QED  BY <2>1 DEF BooksAlone, BooksEffect, Same
<1>4. ASSUME NEW q \in Calls, HasRow(q)
      PROVE  /\ call'[q].kind = call[q].kind /\ call'[q].bin = call[q].bin
             /\ call'[q].orig = call[q].orig
  BY <1>1, <1>3, <1>4 DEF CallFrame, BooksEffect, PlanStays
<1>5. ASSUME NEW b \in Bins \ misreleased'
      PROVE  /\ Reads(binStatus'[b], stock'[b])
             /\ binStatus'[b] = "RESERVED" => Reservation(owner[b], b)'
  <2>1. b \in Bins \ misreleased /\ (Same(b) \/ Promised(r, b) \/ Written(b))
    BY <1>3 DEF BooksEffect
  <2>2. CASE Same(b)
    <3>1. Reads(binStatus'[b], stock'[b])
      BY <2>1, <2>2 DEF Same, BooksInv, ShelfBooks
    <3>2. ASSUME binStatus'[b] = "RESERVED" PROVE Reservation(owner[b], b)'
      <4>1. /\ binStatus[b] = "RESERVED" /\ owner'[b] = owner[b] /\ stock'[b] = stock[b]
            /\ Recorded(b) /\ Reservation(owner[b], b)
        BY <2>1, <2>2, <3>2 DEF Same, BooksInv, ShelfBooks, CustodyInv, PlacesAreRecorded
      <4>2. PICK q \in Calls : q = owner[b] /\ HasRow(q)
        BY <4>1 DEF Recorded
      <4> QED  BY <1>4, <4>1, <4>2 DEF Reservation, Puts
    <3> QED  BY <3>1, <3>2
  <2>3. CASE Promised(r, b)
    BY <2>3 DEF Promised, Reservation, Reads
  <2>4. CASE Written(b)
    BY <2>4 DEF Written
  <2> QED  BY <2>1, <2>2, <2>3, <2>4
<1>6. ASSUME NEW q \in Calls PROVE IntakePlanned(q)'
  <2>1. CASE q = r
    BY <1>3, <2>1 DEF BooksEffect
  <2>2. CASE q # r
    BY <1>1, <2>2 DEF CallFrame, MovementFrame, BooksInv, IntakePlanned, HasRow, Puts, Guided
  <2> QED  BY <2>1, <2>2
<1> QED  BY <1>5, <1>6 DEF BooksInv, ShelfBooks

LEMMA InitBooks == Init => BooksInv
<1> SUFFICES ASSUME Init PROVE BooksInv
  OBVIOUS
<1>1. ASSUME NEW b \in Bins
      PROVE  Reads(binStatus[b], stock[b]) /\ binStatus[b] # "RESERVED"
  <2>1. stock[b] \in {NoRow} \cup 1 .. Capacity
    BY DEF Init
  <2>2. binStatus[b] = IF stock[b] = NoRow THEN "AVAILABLE" ELSE "OCCUPIED"
    BY DEF Init
  <2> QED  BY <2>1, <2>2, ConstantsAssumption DEF Reads, NoRow
<1>2. ASSUME NEW r \in Calls PROVE IntakePlanned(r)
  BY DEF Init, IdleCall, NoMovement, IntakePlanned, HasRow
<1> QED  BY <1>1, <1>2 DEF BooksInv, ShelfBooks

LEMMA NextBooks ==
  ASSUME Typing, CustodyInv, BooksInv, [Next]_vars,
         [~CorrectsReserved /\ ~RecoversStockedGuided]_vars
  PROVE  BooksInv'
<1>1. CASE UNCHANGED vars
  BY <1>1 DEF vars, BooksInv, ShelfBooks, Reservation, IntakePlanned, HasRow, Puts, Guided
<1>2. CASE ~UNCHANGED vars
  <2>1. ASSUME NEW r \in Calls, Step(r) PROVE BooksInv'
    BY <1>2, <2>1, StepShelfBooks
  <2>2. CASE Reconcile
    BY <2>2 DEF Reconcile, history, BooksInv, ShelfBooks, Reservation, IntakePlanned, HasRow,
       Puts, Guided
  <2>3. ASSUME NEW b \in Bins, NEW n \in 1 .. Capacity, AddStock(b, n) \/ RemoveStock(b, n)
        PROVE  BooksInv'
    <3>1. UNCHANGED <<movement, call, owner, misreleased>>
      BY <2>3 DEF AddStock, RemoveStock, history
    <3>2. adjustments' # adjustments
      BY <2>3, ConstantsAssumption DEF AddStock, RemoveStock, Typing, TypeOK
    <3>3. ASSUME NEW x \in Bins \ misreleased
          PROVE  /\ Reads(binStatus'[x], stock'[x])
                 /\ binStatus'[x] = "RESERVED" =>
                      binStatus[x] = "RESERVED" /\ stock'[x] = stock[x]
      <4>1. /\ stock[x] \in Int /\ stock[x] >= -1
            /\ binStatus[x] \in BinStatus /\ Reads(binStatus[x], stock[x])
        BY ConstantsAssumption DEF Typing, TypeOK, Quantities, NoRow, BooksInv, ShelfBooks
      <4>2. binStatus[x] = "RESERVED" => stock'[x] = stock[x]
        BY <1>2, <3>2 DEF CorrectsReserved
      <4>3. CASE x # b
        <5>1. binStatus'[x] = binStatus[x] /\ stock'[x] = stock[x]
          BY <2>3, <4>3 DEF AddStock, RemoveStock, Typing, TypeOK
        <5> QED  BY <4>1, <5>1
      <4>4. CASE x = b /\ AddStock(b, n)
        <5>1. /\ stock'[x] = Held(x) + n /\ n > 0
              /\ binStatus'[x] = IF binStatus[x] = "AVAILABLE" THEN "OCCUPIED" ELSE binStatus[x]
          BY <4>4, ConstantsAssumption DEF AddStock, Typing, TypeOK
        <5> QED  BY <4>1, <4>2, <5>1 DEF Held, Reads
      <4>5. CASE x = b /\ RemoveStock(b, n)
        <5>1. /\ stock'[x] = IF stock[x] = n THEN NoRow ELSE stock[x] - n
              /\ n \in Int /\ n > 0 /\ n <= stock[x]
              /\ binStatus'[x] = IF binStatus[x] = "OCCUPIED" /\ stock[x] = n
                                THEN "AVAILABLE" ELSE binStatus[x]
          BY <4>5, ConstantsAssumption DEF RemoveStock, Typing, TypeOK
        <5> QED  BY <4>1, <4>2, <5>1 DEF Reads, NoRow
      <4> QED  BY <2>3, <4>3, <4>4, <4>5
    <3>4. \A r \in Calls : IntakePlanned(r)'
      BY <3>1 DEF BooksInv, IntakePlanned, HasRow, Puts, Guided
    <3>5. ASSUME NEW x \in Bins \ misreleased, binStatus'[x] = "RESERVED"
          PROVE  Reservation(owner[x], x)'
      <4>1. binStatus[x] = "RESERVED" /\ stock'[x] = stock[x]
        BY <3>3, <3>5
      <4>2. Reservation(owner[x], x)
        BY <4>1 DEF BooksInv, ShelfBooks
      <4> QED  BY <3>1, <4>1, <4>2 DEF Reservation, Puts
    <3> QED  BY <3>1, <3>3, <3>4, <3>5 DEF BooksInv, ShelfBooks
  <2> QED  BY <1>2, <2>1, <2>2, <2>3 DEF Next, Step
<1> QED  BY <1>1, <1>2

(* A bin on its shelf is AVAILABLE only if it holds no stock and OCCUPIED  *)
(* only if it holds some, whatever calls, crashes, recoveries and manual   *)
(* corrections interleave, as long as none of the two steps above is       *)
(* taken.  Without guided putaways and corrections there are none.         *)
THEOREM ShelvedBinsAreBooked ==
  Spec /\ [][~CorrectsReserved /\ ~RecoversStockedGuided]_vars => []ShelvedStatusMatchesStock
<1>1. BooksInv /\ Typing => ShelvedStatusMatchesStock
  <2> SUFFICES ASSUME BooksInv, Typing, NEW b \in Bins \ misreleased
               PROVE  /\ binStatus[b] = "AVAILABLE" => Held(b) = 0
                      /\ binStatus[b] = "OCCUPIED" => Held(b) > 0
    BY DEF ShelvedStatusMatchesStock
  <2>1. stock[b] \in Int /\ Reads(binStatus[b], stock[b])
    BY ConstantsAssumption DEF Typing, TypeOK, Quantities, NoRow, BooksInv, ShelfBooks
  <2> QED  BY <2>1 DEF Reads, Held
<1>2. Typing /\ CustodyInv /\ BooksInv /\ [Next]_vars
        /\ [~CorrectsReserved /\ ~RecoversStockedGuided]_vars => BooksInv'
  BY NextBooks
<1> QED  BY <1>1, <1>2, InitTyping, InitCustody, InitBooks, NextTyping, NextCustody, PTL DEF Spec

(* Only the services of this warehouse are called.                         *)
KindsCalled == \A r \in Calls : call[r].kind \in Kinds

LEMMA NextKinds == Typing /\ KindsCalled /\ [Next]_vars => KindsCalled'
<1> SUFFICES ASSUME Typing, KindsCalled, [Next]_vars PROVE KindsCalled'
  OBVIOUS
<1>1. ASSUME NEW r \in Calls, Step(r) PROVE KindsCalled'
  BY <1>1, StepCallEffect DEF CallEffect, CallFrame, KindsCalled
<1>2. CASE UNCHANGED call
  BY <1>2 DEF KindsCalled
<1> QED  BY <1>1, <1>2 DEF Next, Step, Reconcile, AddStock, RemoveStock, vars

(* So a warehouse that moves whole bins and takes parts at intake, where   *)
(* nobody corrects the stock by hand, never shelves a bin under a wrong    *)
(* status.                                                                 *)
THEOREM WholeBinsAreBooked ==
  ASSUME MaxAdjustments = 0, "guided" \notin Kinds
  PROVE  Spec => []ShelvedStatusMatchesStock
<1>1. Typing /\ Typing' /\ KindsCalled => ~CorrectsReserved /\ ~RecoversStockedGuided
  BY DEF Typing, TypeOK, KindsCalled, CorrectsReserved, RecoversStockedGuided, Guided
<1>2. Init => KindsCalled
  BY DEF Init, IdleCall, KindsCalled
<1>3. Spec => [][~CorrectsReserved /\ ~RecoversStockedGuided]_vars
  BY <1>1, <1>2, InitTyping, NextTyping, NextKinds, PTL DEF Spec
<1> QED  BY <1>3, ShelvedBinsAreBooked, PTL
=============================================================================
