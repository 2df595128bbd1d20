-------------------------- MODULE PhotoVerification --------------------------
(***************************************************************************)
(* A movement that waits for its photo, the camera, and the browser of the *)
(* operator who stands at the bin, together; and beside them the policy by *)
(* which the photo's result is judged.                                     *)
(***************************************************************************)
EXTENDS CaptureDialog

Init == ServerInit /\ DialogInit

Camera(j) == CameraDelivers(j) \/ OldServerRejects(j) \/ JobEnds(j)
Analysis(n) == AnalysisClaims(n) \/ AnalysisWrites(n) \/ AnalysisFails(n)
Asking(c) == AskReads(c) \/ AskCreates(c)
Waiting ==
    \/ CallNotAsked \/ CallReads \/ CallReanalyses \/ CallReanalysed \/ CallDecides
    \/ CallAccepts \/ CallFinds \/ CallTimesOut \/ CallExpires \/ CallGivesUp
Server ==
    \/ \E j \in Jobs : Camera(j)
    \/ \E n \in Analysers : Analysis(n) \/ AnalysisBeats(n)
    \/ \E c \in Callers : Asking(c)
    \/ Waiting
    \/ Recover \/ TimePasses \/ ServiceDies
Browser ==
    \/ Push \/ Receive \/ DecideCancel \/ DecideRetry \/ DecideAccept \/ HearAnswer
    \/ CaptureAsked \/ FollowEnds \/ ClickReanalyse \/ Reanalysed \/ Reload

Next == (Server /\ UNCHANGED browser) \/ Browser

Spec == Init /\ [][Next]_vars

(* Loops go on, photos arrive, requests are carried out and answered, the  *)
(* heartbeat of the stream pushes what is pending, time passes, and some   *)
(* request of the warehouse runs the recovery.  What is bounded in number  *)
(* shares one condition: the weaker assumption.                            *)
Working ==
    \/ \E j \in Jobs : CameraDelivers(j) \/ JobEnds(j)
    \/ \E n \in Analysers : Analysis(n)
    \/ \E c \in Callers : Asking(c)
Fairness ==
    /\ WF_vars(Working /\ UNCHANGED browser)
    /\ WF_vars(Waiting /\ UNCHANGED browser)
    /\ WF_vars((TimePasses \/ Recover) /\ UNCHANGED browser)
    /\ WF_vars(Push \/ Receive)
    /\ WF_vars(HearAnswer \/ CaptureAsked \/ FollowEnds \/ Reanalysed)

FairSpec == Spec /\ Fairness

---------------------------------------------------------------------------
(* The policy.  What a photograph and the scale together decide: the gates *)
(* of an inspection, the count that the weight gives, the status that an   *)
(* analysis writes, the outcome a reloaded browser reads back from the     *)
(* row, and the decision it takes when its preview ends.                   *)
(*                                                                         *)
(* Weights are in milligrams; the code works in grams with floats.  Where  *)
(* the camera is simulated, and for a part of no known weight there, the   *)
(* recorded count stands: that branch is not modelled.                     *)

(* knownPartUnitWeightGrams, and the container on the scale.               *)
UnitWeights == {6200, 47120, 1560, 19000}
Tare == 107000

NoCount == -1

(* What the vision model reports; its confidence above the threshold or    *)
(* not.  Its own count is replaced by the scale's.                         *)
Evidence == [countable : BOOLEAN, confident : BOOLEAN, expectedPart : BOOLEAN,
             foreign : BOOLEAN, occlusion : {"NONE", "LOW", "MEDIUM", "HIGH"}]

Abs(x) == IF x < 0 THEN -x ELSE x

(* Mutant of NearBoundary: the nearest count always stands.                *)
NeverNearBoundary(net, unit) == FALSE

(* verifyPhysicalWeight: the nearest count, refused near the boundary of   *)
(* two counts.                                                             *)
NearBoundary(net, unit) == 20 * Abs(net - ((2 * net + unit) \div (2 * unit)) * unit) > 9 * unit

ScaleCount(total, unit) ==
    LET net == total - Tare IN
    IF total < Tare \/ NearBoundary(net, unit) THEN NoCount
    ELSE (2 * net + unit) \div (2 * unit)

(* assessBinInspection, for a workflow that expects one part.              *)
Gate(evidence, count, capacity) ==
    LET reliable == /\ evidence.countable /\ count # NoCount /\ evidence.confident
                    /\ evidence.occlusion \in {"NONE", "LOW"}
                    /\ count = 0 \/ evidence.expectedPart IN
    CASE evidence.foreign -> "FOREIGN_OBJECTS"
      [] ~evidence.foreign /\ ~reliable -> "LOW_CONFIDENCE"
      [] ~evidence.foreign /\ reliable /\ count > capacity -> "CAPACITY_EXCEEDED"
      [] OTHER -> "CLEAR"

(* classifyPutawayVision.                                                  *)
Outcome(evidence, count, expected, capacity) ==
    LET gate == Gate(evidence, count, capacity) IN
    CASE gate # "CLEAR" -> gate
      [] gate = "CLEAR" /\ count < expected -> "REVIEW_DECREASE"
      [] gate = "CLEAR" /\ count > expected -> "INCREASED"
      [] OTHER -> "READY"

(* The status that analyzePutawayCapture writes for an outcome.            *)
NextStatus(outcome) ==
    CASE outcome = "REVIEW_DECREASE" -> "REVIEW_DECREASE"
      [] outcome \in {"READY", "INCREASED"} -> "READY"
      [] OTHER -> "RETRY_REQUIRED"

(* persistedCaptureOutcome: the outcome is not stored, it is read back     *)
(* from the status, the counts and the flag of the row.                    *)
PersistedOutcome(status, count, expected, capacity, foreign) ==
    CASE status = "REVIEW_DECREASE" -> status
      [] status = "READY" -> IF count > expected THEN "INCREASED" ELSE "READY"
      [] status = "RETRY_REQUIRED" /\ foreign -> "FOREIGN_OBJECTS"
      [] status = "RETRY_REQUIRED" /\ ~foreign /\ count > capacity -> "CAPACITY_EXCEEDED"
      [] OTHER -> "LOW_CONFIDENCE"

(* The decision that the preview's countdown takes.                        *)
AutomaticDecision(outcome) ==
    IF outcome \in {"INCREASED", "REVIEW_DECREASE", "READY"} THEN "ACCEPT" ELSE "NONE"

(* A scale that is off by less than eleven twentieths of one unit.         *)
Deviations(unit) == {-(11 * unit) \div 20 + 1, -(9 * unit) \div 20, -1, 0, 1,
                     (9 * unit) \div 20, unit \div 2, (11 * unit) \div 20 - 1}

(* Whatever the photo shows and however far the scale is off below that,   *)
(* a count that is accepted without an operator is the number of units     *)
(* that lie in the bin, fits it, and lies among nothing foreign; and a     *)
(* browser that lost the analysis and reads the row back decides the same  *)
(* (verifyPhysicalWeight, assessBinInspection, persistedCaptureOutcome).   *)
JudgesTheLoad(evidence, unit, load, deviation, expected, capacity) ==
    LET count == ScaleCount(Tare + load * unit + deviation, unit)
        outcome == Outcome(evidence, count, expected, capacity)
        restored == PersistedOutcome(NextStatus(outcome), count, expected, capacity,
                                     outcome = "FOREIGN_OBJECTS") IN
    /\ AutomaticDecision(outcome) = "ACCEPT" =>
         count = load /\ load <= capacity /\ ~evidence.foreign
    /\ AutomaticDecision(restored) = AutomaticDecision(outcome)

CountIsLoaded ==
    \A unit \in UnitWeights, load \in 0 .. 4, expected \in 0 .. 3, capacity \in 2 .. 3 :
      \A deviation \in Deviations(unit), evidence \in Evidence :
        JudgesTheLoad(evidence, unit, load, deviation, expected, capacity)

---------------------------------------------------------------------------
(* Safety.                                                                 *)

(* The types of the server and of the browser.                             *)
TypeOK == ServerTypeOK /\ DialogTypeOK

(* The result in the row, and the photo that is kept with it, are of a job *)
(* that was asked for the row's own attempt: a photo of an attempt that    *)
(* the operator has retried never stands for the new one, however late its *)
(* analysis ends (conditional updates of analyzePutawayCapture).           *)
EvidenceIsOfItsAttempt ==
    row.frame # NoJob => job[row.frame].attempt = row.attempt

(* A check that has failed stays failed, and one that was accepted is only *)
(* ever failed together with its movement, by the recovery of what nobody  *)
(* went on with: no late analysis, decision or deadline reopens a check.   *)
DecidedIsFinal ==
    [][/\ row.status = "FAILED" => row'.status = "FAILED"
       /\ row.status = "ACCEPTED" =>
            row'.status = "ACCEPTED" \/ (row'.status = "FAILED" /\ movement'.status = "FAILED")]_vars

(* The movement goes on only with a photo that was accepted, and an        *)
(* accepted check is not unwound by the service that waits for it, though  *)
(* the service and the browser may both accept it at the same moment.      *)
AcceptanceIsHonoured ==
    /\ movement.status = "PROCEEDED" => row.status = "ACCEPTED" /\ movement.frame # NoJob
    /\ row.status = "ACCEPTED" => movement.status # "FAILED"

(* An accepted count is the number of units in the bin: see CountIsLoaded  *)
(* (verifyPhysicalWeight, assessBinInspection, persistedCaptureOutcome).   *)
(* It is about constants, so it is enough to look where a behaviour starts.*)
AcceptedCountIsLoaded == Init => CountIsLoaded

---------------------------------------------------------------------------
(* Liveness.                                                               *)

(* The check ends with or without a browser: the movement goes on or is    *)
(* failed (the deadlines of requirePutawayVerification and the recovery);  *)
(* and its comparison is closed for good, however events, answers and the  *)
(* photo's job overtake each other (captures/events/route.ts reaches a     *)
(* dialog that waits for nothing).                                         *)
CheckEndsAndCloses == <>[](movement.status # "VERIFYING" /\ ~dialog.pending)
=============================================================================
