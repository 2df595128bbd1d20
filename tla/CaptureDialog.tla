---------------------------- MODULE CaptureDialog ----------------------------
(***************************************************************************)
(* The comparison a browser shows while a movement waits for its photo.    *)
(* The server pushes what is pending, as it read it, over one stream; the  *)
(* browser decides, asks for the photo of a retry and follows its job, or  *)
(* asks for another analysis of the same photo.  The stream, the answers   *)
(* to its requests and the job it follows arrive in any order.             *)
(*                                                                         *)
(* One tab of the session that owns the capture.  A window that is closed  *)
(* or reloaded forgets all, and reads the pending capture again.           *)
(***************************************************************************)
EXTENDS PhotoCheck

CONSTANT NoEvent

VARIABLES
    dialog,     \* pending, result, what runCapture or reanalyze is doing, handledId
    sending,    \* the decision in transit, and the server's answer
    stream      \* the event in transit

browser == <<dialog, sending, stream>>
vars == <<server, browser>>

NoResult == [attempt |-> 0, status |-> "CAPTURING"]
Comparisons == [attempt : Attempts, status : Results \cup {"ANALYSIS_FAILED"}] \cup {NoResult}
Events == [pending : BOOLEAN, result : Comparisons]

DialogTypeOK ==
    /\ dialog \in [pending : BOOLEAN, result : Comparisons, before : Comparisons, handled : BOOLEAN,
                   flight : {"no", "capture", "follow", "reanalyse"}]
    /\ sending \in [decision : {"no", "ACCEPT", "RETRY", "CANCEL"},
                    answer : {"no", "ok", "conflict", "lost"}]
    /\ stream \in Events \cup {NoEvent}

Closed == [pending |-> FALSE, result |-> NoResult, before |-> NoResult, handled |-> FALSE, flight |-> "no"]
NotSending == [decision |-> "no", answer |-> "no"]

DialogInit == dialog = Closed /\ sending = NotSending /\ stream = NoEvent

---------------------------------------------------------------------------
(* The stream of pending captures.                                         *)

(* pendingPutawayCapture: a capture that is analysed or waits for its      *)
(* photo is pending; one that is being analysed is briefly not.            *)
Pending == row.status \in Recoverable /\ movement.status = "VERIFYING"
Current == [pending |-> Pending,
            result |-> IF Pending /\ row.status \in Retryable THEN Shown ELSE NoResult]

(* A change of the row or of a job, or the heartbeat of the stream, makes  *)
(* the server read the capture and push it.                                *)
Push ==
    /\ stream = NoEvent
    /\ stream' = Current
    /\ UNCHANGED <<server, dialog, sending>>

(* Mutant of AfterEvent: an empty event is ignored once a result is shown. *)
AfterEventKeepsResult(event) ==
    CASE ~event.pending /\ (dialog.flight # "no" \/ dialog.result # NoResult) -> dialog
      [] ~event.pending -> Closed
      [] event.result # NoResult -> [dialog EXCEPT !.pending = TRUE, !.result = event.result]
      [] dialog.flight # "no" \/ dialog.handled -> dialog
      [] OTHER -> [dialog EXCEPT !.pending = TRUE, !.result = NoResult]

(* handlePending: nothing pending closes the comparison, but not while a   *)
(* request of the browser's own runs; a result is shown even then.         *)
AfterEvent(event) ==
    CASE ~event.pending /\ dialog.flight # "no" -> dialog
      [] ~event.pending -> Closed
      [] event.result # NoResult -> [dialog EXCEPT !.pending = TRUE, !.result = event.result]
      [] dialog.flight # "no" \/ dialog.handled -> dialog
      [] OTHER -> [dialog EXCEPT !.pending = TRUE, !.result = NoResult]

Receive ==
    /\ stream # NoEvent
    /\ dialog' = AfterEvent(stream)
    /\ stream' = NoEvent
    /\ UNCHANGED <<server, sending>>

---------------------------------------------------------------------------
(* Decisions.                                                              *)

(* A count that differs from the books offers no choice: it is accepted    *)
(* when its preview ends.  A result that cannot be accepted is retried or  *)
(* cancelled.                                                              *)
Offered(result) ==
    CASE result.status = "REVIEW_DECREASE" -> {"ACCEPT"}
      [] result.status = "READY" -> {"ACCEPT", "RETRY", "CANCEL"}
      [] OTHER -> {"RETRY", "CANCEL"}

(* A decision takes effect on the server, and its answer is under way, or  *)
(* lost.  The operator may have looked at an older result.                 *)
Decided(decision, answer) ==
    \/ sending' = [decision |-> decision, answer |-> answer] /\ UNCHANGED faults
    \/ sending' = [decision |-> decision, answer |-> "lost"] /\ Fault
Deciding(decision) ==
    /\ dialog.pending /\ dialog.result # NoResult /\ sending = NotSending
    /\ decision \in Offered(dialog.result)
    /\ UNCHANGED <<type, ask, analysis, call, dialog, stream>>
Refused(decision) == Decided(decision, "conflict") /\ UNCHANGED <<row, job, movement>>

DecideCancel ==
    /\ Deciding("CANCEL")
    /\ \/ Cancel /\ Decided("CANCEL", "ok")
       \/ row.status \notin Recoverable /\ Refused("CANCEL")

DecideRetry ==
    /\ Deciding("RETRY")
    /\ \/ Retry /\ Decided("RETRY", "ok")
       \/ row.status \notin Recoverable /\ Refused("RETRY")

(* The operator accepts, or the preview of a result that counts ends.  The *)
(* read of an acceptance and its transaction are one step here: what comes *)
(* between them is in the service's own acceptance.                        *)
DecideAccept ==
    /\ Deciding("ACCEPT")
    /\ \/ row.status \in Actionable /\ Accept(row) /\ Decided("ACCEPT", "ok")
       \/ /\ row.status = "ACCEPTED" /\ Decided("ACCEPT", "ok")
          /\ UNCHANGED <<row, job, movement>>
       \/ /\ row.status \notin Actionable \cup {"ACCEPTED"} \/ movement.status # "VERIFYING"
          /\ row.status # "ACCEPTED"
          /\ Refused("ACCEPT")

(* decide: a conflict means the server knows better.  A retry asks for its *)
(* photo at once, unless an earlier request still runs.                    *)
HearAnswer ==
    /\ sending # NotSending
    /\ LET retried == sending.answer = "ok" /\ sending.decision = "RETRY"
           asks == retried /\ dialog.flight = "no" IN
       /\ dialog' = CASE sending.answer = "lost" -> dialog
                      [] sending.answer = "conflict" ->
                           [dialog EXCEPT !.handled = FALSE, !.result = NoResult, !.pending = FALSE]
                      [] retried -> [dialog EXCEPT !.handled = FALSE, !.result = NoResult,
                                       !.flight = IF asks THEN "capture" ELSE @]
                      [] OTHER -> [dialog EXCEPT !.result = NoResult, !.pending = FALSE]
       /\ ask' = IF asks THEN [ask EXCEPT ![Tab].pc = "read"] ELSE ask
    /\ sending' = NotSending
    /\ UNCHANGED <<type, movement, row, job, analysis, call, faults, stream>>

---------------------------------------------------------------------------
(* runCapture and reanalyze.                                               *)

CaptureAsked ==
    /\ dialog.flight = "capture" /\ ask[Tab].pc \in {"done", "failed"}
    /\ dialog' = IF ask[Tab].pc = "done" THEN [dialog EXCEPT !.flight = "follow"]
                 ELSE [dialog EXCEPT !.flight = "no", !.result = NoResult]
    /\ ask' = [ask EXCEPT ![Tab] = IF @.pc = "done" THEN [@ EXCEPT !.pc = "no"] ELSE NotAsking]
    /\ UNCHANGED <<type, movement, row, job, analysis, call, faults, sending, stream>>

(* The job's own stream reports it until it has ended.                     *)
Followed == job[ask[Tab].job]
FollowEnds ==
    /\ dialog.flight = "follow" /\ Followed.status \in EndedJob
    /\ dialog' = IF Followed.status = "COMPLETED"
                 THEN [dialog EXCEPT !.flight = "no", !.handled = TRUE, !.result = Followed.view]
                 ELSE [dialog EXCEPT !.flight = "no", !.result = NoResult]
    /\ ask' = [ask EXCEPT ![Tab] = NotAsking]
    /\ UNCHANGED <<type, movement, row, job, analysis, call, faults, sending, stream>>

(* The same photo again.  The clicks count with the faults: an operator    *)
(* does not click for ever.                                                *)
ClickReanalyse ==
    /\ dialog.pending /\ dialog.flight = "no" /\ sending = NotSending
    /\ dialog.result.status = "ANALYSIS_FAILED"
    /\ dialog' = [dialog EXCEPT !.flight = "reanalyse", !.before = dialog.result,
                                !.result = NoResult]
    /\ analysis' = Reanalyse(Tab)
    /\ Fault
    /\ UNCHANGED <<type, movement, row, job, ask, call, sending, stream>>

Reanalysed ==
    /\ dialog.flight = "reanalyse" /\ analysis[Tab].pc \in {"done", "refused"}
    /\ dialog' = IF At(Tab, "done")
                 THEN [dialog EXCEPT !.flight = "no", !.handled = TRUE, !.before = NoResult,
                                     !.result = analysis[Tab].view]
                 ELSE [dialog EXCEPT !.flight = "no", !.before = NoResult, !.result = dialog.before]
    /\ analysis' = [analysis EXCEPT ![Tab] = Idle]
    /\ UNCHANGED <<type, movement, row, job, ask, call, faults, sending, stream>>

(* The tab is reloaded: what it asked of the server goes on there.         *)
Reload ==
    /\ dialog # Closed
    /\ sending = NotSending
    /\ dialog.flight \notin {"capture", "reanalyse"}
    /\ dialog' = Closed /\ stream' = NoEvent
    /\ ask' = [ask EXCEPT ![Tab] = NotAsking]
    /\ Fault
    /\ UNCHANGED <<type, movement, row, job, analysis, call, sending>>

=============================================================================
