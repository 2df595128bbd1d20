----------------------------- MODULE PhotoCheck -----------------------------
(***************************************************************************)
(* The photograph that a movement waits for, on the server.  The service   *)
(* that moves the bin publishes one capture row and polls it; a camera job *)
(* photographs the bin; an analysis claims the row for the attempt of its  *)
(* job, looks, and writes what it saw; a decision accepts, retries or      *)
(* cancels; recovery closes what nobody touched for minutes.  One action   *)
(* is one statement or transaction, with the reads and throws around it    *)
(* that take no time beside a photo; a check and the update it guards stay *)
(* apart.                                                                  *)
(*                                                                         *)
(* One movement, with a PROD camera.  The queue in front of the camera is  *)
(* CaptureQueue: here a job is photographed, or ends without a photo.      *)
(***************************************************************************)
EXTENDS Integers, FiniteSets

CONSTANTS
    Jobs,           \* camera jobs, numbered in the order they are requested
    Results,        \* what an analysis may find in this instance
    MaxAttempt,     \* bound on the attempts an operator asks for
    MaxFaults,      \* bound on stalls, deaths, lost answers, old servers, repeated clicks
    Service, Tab,   \* who asks for photos: the waiting service, the browser tab
    NoJob

ASSUME PhotoAssumption ==
    /\ Jobs \subseteq Nat /\ NoJob \notin Jobs /\ Service # Tab
    /\ Results \subseteq {"READY", "REVIEW_DECREASE", "RETRY_REQUIRED"}
    /\ MaxAttempt \in Nat /\ MaxFaults \in Nat

VARIABLES
    type,           \* Movement.type
    movement,       \* Movement: its status, and the photo its newQuantity is from
    row,            \* PutawayCaptureRequest
    job,            \* CameraCaptureJob rows of this capture
    ask,            \* requestPutawayCameraCapture, by who runs it
    analysis,       \* analyzePutawayCapture, by the job or the caller it runs for
    call,           \* requirePutawayVerification
    faults

server == <<type, movement, row, job, ask, analysis, call, faults>>

Attempts == 0 .. MaxAttempt
Callers == {Service, Tab}
Analysers == Jobs \cup Callers

Actionable == {"READY", "REVIEW_DECREASE"}
Retryable == Actionable \cup {"RETRY_REQUIRED", "ANALYSIS_FAILED"}
Recoverable == Retryable \cup {"WAITING_FOR_CAMERA"}
ActiveCapture == Recoverable \cup {"CAPTURING", "ACCEPTED"}
Statuses == ActiveCapture \cup {"FAILED"}
ActiveJob == {"PENDING", "PROCESSING"}
EndedJob == {"COMPLETED", "FAILED", "CANCELLED"}

(* How long the row has rested: past the few seconds before an automatic   *)
(* acceptance or the grace of a failed row, past the minutes after which   *)
(* it is abandoned, past the lease of an analysis.  Every write renews it. *)
Ages == {"new", "rested", "idle", "lapsed"}

Rows == [status : Statuses, attempt : Attempts, frame : Jobs \cup {NoJob},
         stale : BOOLEAN, age : Ages]
Views == [attempt : Attempts, status : Statuses]

AskPC == {"no", "read", "create", "done", "failed"}
AnalysisPC == {"no", "claim", "see", "reject", "done", "refused"}
CallPC == {"poll", "recover", "reanalyse", "decide", "accept", "timeout", "expire", "abandon", "over"}

NotSeen == [status |-> "FAILED", frame |-> NoJob]
NoView == [attempt |-> 0, status |-> "FAILED"]
Idle == [pc |-> "no", job |-> NoJob, view |-> NoView]
Published == [status |-> "WAITING_FOR_CAMERA", attempt |-> 0, frame |-> NoJob,
              stale |-> FALSE, age |-> "new"]

ServerTypeOK ==
    /\ type \in {"PUTAWAY", "RETRIEVAL"}
    /\ movement \in [status : {"VERIFYING", "PROCEEDED", "FAILED"}, frame : Jobs \cup {NoJob}]
    /\ row \in Rows
    /\ job \in [Jobs -> [status : {"NONE"} \cup ActiveJob \cup EndedJob,
                         attempt : Attempts, view : Views]]
    /\ ask \in [Callers -> [pc : AskPC, attempt : Attempts, job : Jobs \cup {NoJob}]]
    /\ analysis \in [Analysers -> [pc : AnalysisPC, job : Jobs \cup {NoJob}, view : Views]]
    /\ call \in [pc : CallPC, tried : SUBSET Attempts,
                seen : [status : Statuses, frame : Jobs \cup {NoJob}]]
    /\ faults \in 0 .. MaxFaults

(* The capture and the movement's marker are published in one transaction, *)
(* and the service asks for the first photo itself.                        *)
NotAsking == [pc |-> "no", attempt |-> 0, job |-> NoJob]
ServerInit ==
    /\ type \in {"PUTAWAY", "RETRIEVAL"}
    /\ movement = [status |-> "VERIFYING", frame |-> NoJob]
    /\ row = Published
    /\ job = [j \in Jobs |-> [status |-> "NONE", attempt |-> 0, view |-> NoView]]
    /\ ask = [c \in Callers |-> IF c = Service THEN [NotAsking EXCEPT !.pc = "read"] ELSE NotAsking]
    /\ analysis = [n \in Analysers |-> Idle]
    /\ call = [pc |-> "poll", seen |-> NotSeen, tried |-> {}]
    /\ faults = 0

---------------------------------------------------------------------------
(* Vocabulary.                                                             *)

(* An update of the row: updatedAt moves.                                  *)
SetRow(status, attempt, frame, stale) ==
    row' = [status |-> status, attempt |-> attempt, frame |-> frame, stale |-> stale, age |-> "new"]
SetStatus(status) == SetRow(status, row.attempt, row.frame, row.stale)

(* A faulty event: their number is bounded.                                *)
Fault == faults < MaxFaults /\ faults' = faults + 1

(* A decision or a recovery ends the jobs that still work for the capture. *)
EndJobs(end) ==
    job' = [j \in Jobs |-> IF job[j].status \in ActiveJob
                           THEN [job[j] EXCEPT !.status = end] ELSE job[j]]

(* What the view of the row shows: its status, for its attempt.            *)
Shown == [attempt |-> row.attempt, status |-> row.status]

At(n, pc) == analysis[n].pc = pc

(* An analysis works for the attempt its photo was requested for.          *)
AttemptOf(n) == job[analysis[n].job].attempt

(* Mutant of OfItsAttempt: updates are conditional on the status only.     *)
OfAnyAttempt(n) == TRUE

(* Every update of an analysis is conditional on the attempt of its photo. *)
OfItsAttempt(n) == row.attempt = AttemptOf(n)
Claimed(n) == row.status = "CAPTURING" /\ OfItsAttempt(n)

---------------------------------------------------------------------------
(* requestPutawayCameraCapture: reuse a job of this attempt, or create one *)

AskReads(c) ==
    /\ ask[c].pc = "read"
    /\ ask' = [ask EXCEPT ![c].attempt = row.attempt,
                 ![c].pc = IF row.status = "WAITING_FOR_CAMERA" /\ movement.status = "VERIFYING"
                           THEN "create" ELSE "failed"]
    /\ UNCHANGED <<type, movement, row, job, analysis, call, faults>>

AskCreates(c) ==
    /\ ask[c].pc = "create"
    /\ LET working == {j \in Jobs : job[j].status \in ActiveJob /\ job[j].attempt = ask[c].attempt}
           unused == {j \in Jobs : job[j].status = "NONE"} IN
       IF working # {}
       THEN /\ ask' = [ask EXCEPT ![c].pc = "done",
                  ![c].job = CHOOSE j \in working : \A i \in working : i <= j]
            /\ UNCHANGED job
       ELSE \E j \in unused :
              /\ \A i \in unused : j <= i
              /\ job' = [job EXCEPT ![j].status = "PENDING", ![j].attempt = ask[c].attempt]
              /\ ask' = [ask EXCEPT ![c].pc = "done", ![c].job = j]
    /\ UNCHANGED <<type, movement, row, analysis, call, faults>>

---------------------------------------------------------------------------
(* The camera.                                                             *)

(* The photo of a job is uploaded, and its analysis is scheduled.          *)
CameraDelivers(j) ==
    /\ job[j].status = "PENDING"
    /\ job' = [job EXCEPT ![j].status = "PROCESSING"]
    /\ analysis' = [analysis EXCEPT ![j] = [Idle EXCEPT !.pc = "claim", !.job = j]]
    /\ UNCHANGED <<type, movement, row, ask, call, faults>>

(* The job keeps its result: in this model, for a tab that follows it.     *)
Kept(j, view) == IF ask[Tab].job = j THEN view ELSE NoView

(* The photo goes to an older server that shares the database and refuses  *)
(* every retrieval: it leaves the photo with a note that it is stale.      *)
OldServerRejects(j) ==
    /\ job[j].status = "PENDING" /\ type = "RETRIEVAL"
    /\ row.status = "WAITING_FOR_CAMERA" /\ row.attempt = job[j].attempt
    /\ SetRow("ANALYSIS_FAILED", row.attempt, j, TRUE)
    /\ job' = [job EXCEPT ![j].status = "COMPLETED",
                          ![j].view = Kept(j, [attempt |-> row.attempt, status |-> "ANALYSIS_FAILED"])]
    /\ Fault
    /\ UNCHANGED <<type, movement, ask, analysis, call>>

---------------------------------------------------------------------------
(* analyzePutawayCapture.                                                  *)

ClaimsFrom(n) == IF n \in Jobs THEN "WAITING_FOR_CAMERA" ELSE "ANALYSIS_FAILED"

(* The claim, and the read that follows it: a photo of a movement that is  *)
(* over is rejected as stale.                                              *)
AnalysisClaims(n) ==
    /\ At(n, "claim")
    /\ IF row.status = ClaimsFrom(n) /\ OfItsAttempt(n)
       THEN /\ SetRow("CAPTURING", row.attempt, row.frame, FALSE)
            /\ analysis' = [analysis EXCEPT ![n].pc =
                 IF movement.status = "VERIFYING" THEN "see" ELSE "reject"]
       ELSE /\ analysis' = [analysis EXCEPT ![n].pc = "refused"]
            /\ UNCHANGED row
    /\ UNCHANGED <<type, movement, job, ask, call, faults>>

(* The heartbeat of an analysis, while the vision model works.             *)
AnalysisBeats(n) ==
    /\ At(n, "see") /\ Claimed(n) /\ row.age # "new"
    /\ row' = [row EXCEPT !.age = "new"]
    /\ UNCHANGED <<type, movement, job, ask, analysis, call, faults>>

(* The vision model has answered: the result is written, if the claim      *)
(* still stands.  Otherwise the analysis is answered as failed.            *)
AnalysisWrites(n) ==
    /\ At(n, "see")
    /\ \E result \in Results :
         /\ IF Claimed(n) THEN SetRow(result, row.attempt, analysis[n].job, FALSE)
            ELSE UNCHANGED row
         /\ analysis' = [analysis EXCEPT ![n].pc = "done", ![n].view =
              [attempt |-> row.attempt, status |-> IF Claimed(n) THEN result ELSE "ANALYSIS_FAILED"]]
    /\ UNCHANGED <<type, movement, job, ask, call, faults>>

(* The vision model failed, or the photo was rejected: a claim that still  *)
(* stands is given up, and the photo is kept for another analysis.         *)
AnalysisFails(n) ==
    /\ At(n, "reject") \/ At(n, "see")
    /\ IF Claimed(n)
       THEN SetRow("ANALYSIS_FAILED", row.attempt, analysis[n].job, At(n, "reject"))
       ELSE UNCHANGED row
    /\ analysis' = [analysis EXCEPT ![n].pc = "done",
         ![n].view = [attempt |-> row.attempt, status |-> "ANALYSIS_FAILED"]]
    /\ UNCHANGED <<type, movement, job, ask, call, faults>>

(* The upload route ends its job with what the analysis returned.          *)
JobEnds(j) ==
    /\ analysis[j].pc \in {"done", "refused"}
    /\ analysis' = [analysis EXCEPT ![j] = Idle]
    /\ job' = [job EXCEPT ![j] =
         CASE @.status # "PROCESSING" -> @
           [] At(j, "done") -> [@ EXCEPT !.status = "COMPLETED", !.view = Kept(j, analysis[j].view)]
           [] OTHER -> [@ EXCEPT !.status = "FAILED"]]
    /\ UNCHANGED <<type, movement, row, ask, call, faults>>

(* reanalyzePutawayCapture, for the waiting service or for the browser:    *)
(* the same photo again, read from storage.                                *)
Reanalyse(c) ==
    [analysis EXCEPT ![c] =
       IF row.status = "ANALYSIS_FAILED" /\ row.frame # NoJob
       THEN [Idle EXCEPT !.pc = "claim", !.job = row.frame]
       ELSE [Idle EXCEPT !.pc = "refused"]]

---------------------------------------------------------------------------
(* decidePutawayCapture.                                                   *)

Cancel ==
    /\ row.status \in Recoverable
    /\ SetStatus("FAILED")
    /\ EndJobs("CANCELLED")
    /\ UNCHANGED movement

Retry ==
    /\ row.status \in Recoverable /\ row.attempt < MaxAttempt
    /\ SetRow("WAITING_FOR_CAMERA", row.attempt + 1, NoJob, FALSE)
    /\ EndJobs("CANCELLED")
    /\ UNCHANGED movement

(* Mutant of CanAccept: conditional on the movement only.                  *)
CanAcceptAnyway(seen) == movement.status = "VERIFYING"

(* The transaction of an acceptance: the status is as it was read, and the *)
(* movement waits.                                                         *)
CanAccept(seen) == row.status = seen.status /\ movement.status = "VERIFYING"

Accept(seen) ==
    /\ CanAccept(seen)
    /\ SetStatus("ACCEPTED")
    /\ movement' = [movement EXCEPT !.frame = seen.frame]
    /\ UNCHANGED job

(* Mutant of AlreadyAccepted: a lost race is an error.                     *)
NeverAlreadyAccepted(seen) == FALSE

(* A lost race is no error when the other acceptance won it.               *)
AlreadyAccepted(seen) == row.status # seen.status /\ row.status = "ACCEPTED"

---------------------------------------------------------------------------
(* requirePutawayVerification: the service that moves the bin waits.  When *)
(* it throws, the service's catch fails the movement.                      *)

Polling == call.pc = "poll" /\ ask[Service].pc = "done"
Polls == call' = [call EXCEPT !.pc = "poll", !.seen = NotSeen]
Throws ==
    /\ call' = [call EXCEPT !.pc = "over", !.seen = NotSeen]
    /\ movement' = [movement EXCEPT !.status = "FAILED"]

CallNotAsked ==
    /\ call.pc = "poll" /\ ask[Service].pc = "failed" /\ Throws
    /\ UNCHANGED <<type, row, job, ask, analysis, faults>>

(* What the service does about the row it reads, first rule first.         *)
Recovers ==
    /\ type = "RETRIEVAL" /\ row.status = "ANALYSIS_FAILED" /\ row.stale
    /\ row.frame # NoJob /\ row.attempt \notin call.tried
Rested == row.status \in Actionable /\ row.age # "new"
Lapsed == row.status = "CAPTURING" /\ row.age = "lapsed"
Abandoned == row.status \in Recoverable /\ row.age = "idle"

CallReads ==
    /\ Polling
    /\ call' =
         CASE Recovers -> [call EXCEPT !.pc = "recover", !.tried = @ \cup {row.attempt}]
           [] ~Recovers /\ Rested -> [call EXCEPT !.pc = "decide"]
           [] Lapsed -> [call EXCEPT !.pc = "timeout"]
           [] ~Recovers /\ ~Rested /\ Abandoned ->
                [call EXCEPT !.pc = "abandon", !.seen.status = row.status]
           [] OTHER -> call
    /\ UNCHANGED <<type, movement, row, job, ask, analysis, faults>>

CallReanalyses ==
    /\ call.pc = "recover"
    /\ call' = [call EXCEPT !.pc = "reanalyse"]
    /\ analysis' = Reanalyse(Service)
    /\ UNCHANGED <<type, movement, row, job, ask, faults>>

CallReanalysed ==
    /\ call.pc = "reanalyse" /\ analysis[Service].pc \in {"done", "refused"}
    /\ analysis' = [analysis EXCEPT ![Service] = Idle]
    /\ Polls
    /\ UNCHANGED <<type, movement, row, job, ask, faults>>

(* The service accepts a result that has rested.  It reads the row again:  *)
(* what cannot be accepted any more is thrown, and ends the movement.      *)
CallDecides ==
    /\ call.pc = "decide"
    /\ CASE row.status = "ACCEPTED" -> Polls /\ UNCHANGED movement
         [] row.status \in Actionable /\ row.frame # NoJob ->
              /\ call' = [call EXCEPT !.pc = "accept",
                            !.seen = [status |-> row.status, frame |-> row.frame]]
              /\ UNCHANGED movement
         [] OTHER -> Throws
    /\ UNCHANGED <<type, row, job, ask, analysis, faults>>

CallAccepts ==
    /\ call.pc = "accept"
    /\ \/ Accept(call.seen) /\ Polls
       \/ /\ ~CanAccept(call.seen) /\ UNCHANGED <<row, job>>
          /\ IF AlreadyAccepted(call.seen) THEN Polls /\ UNCHANGED movement ELSE Throws
    /\ UNCHANGED <<type, ask, analysis, faults>>

(* The check has ended.  The service goes on, unless the movement was      *)
(* taken from it.                                                          *)
CallFinds ==
    /\ Polling
    /\ \/ row.status = "FAILED" /\ Throws
       \/ /\ row.status = "ACCEPTED" /\ row.frame # NoJob
          /\ call' = [call EXCEPT !.pc = "over"]
          /\ movement' = [movement EXCEPT !.status = IF @ = "VERIFYING" THEN "PROCEEDED" ELSE @]
    /\ UNCHANGED <<type, row, job, ask, analysis, faults>>

(* The lease of the analysis has run out: whoever fails the row fails the  *)
(* movement, in a statement of its own.                                    *)
CallTimesOut ==
    /\ call.pc = "timeout"
    /\ IF Lapsed THEN SetStatus("FAILED") /\ call' = [call EXCEPT !.pc = "expire"]
       ELSE UNCHANGED row /\ Polls
    /\ UNCHANGED <<type, movement, job, ask, analysis, faults>>

CallExpires == call.pc = "expire" /\ Throws /\ UNCHANGED <<type, row, job, ask, analysis, faults>>

(* releasePreMotionMovement: row, movement and jobs end together.          *)
Releasable ==
    /\ movement.status = "VERIFYING"
    /\ \/ row.status \in ActiveCapture /\ row.age \in {"idle", "lapsed"}
       \/ row.status = "FAILED" /\ row.age # "new"
Release ==
    /\ Releasable
    /\ SetStatus("FAILED")
    /\ movement' = [movement EXCEPT !.status = "FAILED"]
    /\ EndJobs("FAILED")

(* Nobody touched the row for minutes.  A checkout is failed by its own    *)
(* service; a putaway by the recovery that every request may run.          *)
CallGivesUp ==
    /\ call.pc = "abandon"
    /\ IF type = "RETRIEVAL"
       THEN /\ UNCHANGED job
            /\ IF row.status = call.seen.status /\ row.age = "idle"
               THEN SetStatus("FAILED") /\ Throws
               ELSE UNCHANGED <<row, movement>> /\ Polls
       ELSE /\ Release \/ (~Releasable /\ UNCHANGED <<row, movement, job>>)
            /\ Polls
    /\ UNCHANGED <<type, ask, analysis, faults>>

---------------------------------------------------------------------------
(* Time, and requests of others.                                           *)

(* recoverAbandonedPutaways, run by every poll and every start.            *)
Recover ==
    /\ Release
    /\ UNCHANGED <<type, ask, analysis, call, faults>>

(* The row is left alone.  A row that is being analysed is renewed, unless *)
(* its process stalls; and a living service acts on a result, or on an     *)
(* end, long before anything else runs out.                                *)
Attended == \E n \in Analysers : analysis[n].pc \in {"see", "reject"} /\ Claimed(n)
Older(status, age) ==
    CASE status \in Actionable /\ age = "new" -> "rested"
      [] status = "FAILED" -> "rested"
      [] status = "CAPTURING" /\ age = "idle" -> "lapsed"
      [] OTHER -> "idle"
TimePasses ==
    /\ movement.status = "VERIFYING" /\ row.age # "lapsed"
    /\ Older(row.status, row.age) # row.age
    /\ row.status \in {"ACCEPTED", "FAILED"} \/ row.age = "rested" => call.pc = "over"
    /\ row' = [row EXCEPT !.age = Older(row.status, @)]
    /\ IF Attended THEN Fault ELSE UNCHANGED faults
    /\ UNCHANGED <<type, movement, job, ask, analysis, call>>

(* The process of the service dies: its movement stays as it is.           *)
ServiceDies ==
    /\ call.pc # "over" /\ analysis[Service].pc = "no" /\ ask[Service].pc = "done"
    /\ call' = [call EXCEPT !.pc = "over", !.seen = NotSeen]
    /\ Fault
    /\ UNCHANGED <<type, movement, row, job, ask, analysis>>

=============================================================================
