----------------------------- MODULE PhotoProofs -----------------------------
(***************************************************************************)
(* What is proved of PhotoVerification, for any number of camera jobs and  *)
(* attempts and any faults: the photo kept with a result was taken for the *)
(* attempt the row stands at, an accepted check is honoured, and a check   *)
(* that has ended stays ended.  And of the policy, for any load and any    *)
(* error of the scale below eleven twentieths of a unit, that an accepted  *)
(* count is the load.                                                      *)
(*                                                                         *)
(* The invariant says what each step relies on: that an analysis and the   *)
(* row name jobs that exist, since a job's attempt never changes from then *)
(* on; that what counts has a photo; and that nothing happens before the   *)
(* service has asked for the first photo, so that a request which finds    *)
(* the row closed finds it failed.                                         *)
(***************************************************************************)
EXTENDS PhotoVerification, TLAPS

JobFields == {"status", "attempt", "view"}
ServerShape ==
    /\ DOMAIN movement = {"status", "frame"}
    /\ DOMAIN row = {"status", "attempt", "frame", "stale", "age"}
    /\ row.frame \in Jobs \cup {NoJob}
    /\ DOMAIN job = Jobs /\ \A j \in Jobs : DOMAIN job[j] = JobFields
    /\ DOMAIN ask = Callers
    /\ \A c \in Callers : DOMAIN ask[c] = {"pc", "attempt", "job"}
    /\ DOMAIN analysis = Analysers
    /\ \A n \in Analysers : DOMAIN analysis[n] = {"pc", "job", "view"}
    /\ DOMAIN call = {"pc", "tried", "seen"} /\ DOMAIN call.seen = {"status", "frame"}
DialogShape == DOMAIN dialog = {"pending", "result", "before", "handled", "flight"}
Shape == ServerShape /\ DialogShape

(* An analysis works on the photo of a job that was requested, and so did  *)
(* the one whose photo the row keeps.                                      *)
Requested(j) == j \in Jobs /\ job[j].status # "NONE"
AtWork(n) == At(n, "claim") \/ At(n, "see") \/ At(n, "reject")
PhotosAreOfJobs ==
    /\ \A n \in Analysers : AtWork(n) => Requested(analysis[n].job)
    /\ row.frame # NoJob => Requested(row.frame)

(* What can be accepted, or was, has a photo.                              *)
ResultHasPhoto ==
    /\ row.status \in Actionable => row.frame # NoJob
    /\ row.status = "ACCEPTED" => movement.frame # NoJob
    /\ call.pc = "accept" => call.seen.status \in Actionable /\ call.seen.frame # NoJob

(* Until the service has asked for the first photo there is no job, hence  *)
(* no analysis and no result to decide about.                              *)
NobodyActsBeforeTheRequest ==
    ask[Service].pc = "read" =>
      /\ \A j \in Jobs : job[j].status = "NONE"
      /\ \A n \in Analysers : analysis[n].pc = "no"
      /\ ask[Tab].pc = "no" /\ call.pc = "poll" /\ sending = NotSending
      /\ dialog.result = NoResult /\ dialog.flight = "no"
      /\ stream # NoEvent => stream.result = NoResult
      /\ \/ row.status = "WAITING_FOR_CAMERA" /\ movement.status = "VERIFYING"
         \/ row.status = "FAILED"

GivenUpIsFailed ==
    ask[Service].pc = "failed" \/ call.pc = "expire" => row.status = "FAILED"

PhotoInv ==
    /\ Shape
    /\ PhotosAreOfJobs
    /\ ResultHasPhoto
    /\ NobodyActsBeforeTheRequest
    /\ GivenUpIsFailed
    /\ EvidenceIsOfItsAttempt
    /\ AcceptanceIsHonoured

---------------------------------------------------------------------------
(* The service throws, or polls again.                                     *)
LEMMA ThrowsInv ==
  ASSUME PhotoInv, Throws, row.status # "ACCEPTED", ask[Service].pc # "read",
         UNCHANGED <<type, row, job, ask, analysis, faults, browser>>
  PROVE  PhotoInv'
  BY PhotoAssumption, SMTT(40) DEF PhotoInv, Throws, NotSeen, browser, At, Shape,
     ServerShape, DialogShape, PhotosAreOfJobs, Requested, AtWork, ResultHasPhoto,
     NobodyActsBeforeTheRequest, GivenUpIsFailed, EvidenceIsOfItsAttempt, AcceptanceIsHonoured

LEMMA PollsInv ==
  ASSUME PhotoInv, Polls, UNCHANGED <<type, movement, row, job, ask, analysis, faults, browser>>
  PROVE  PhotoInv'
  BY PhotoAssumption, SMTT(40) DEF PhotoInv, Polls, NotSeen, browser, At, Shape,
     ServerShape, DialogShape, PhotosAreOfJobs, Requested, AtWork, ResultHasPhoto,
     NobodyActsBeforeTheRequest, GivenUpIsFailed, EvidenceIsOfItsAttempt, AcceptanceIsHonoured

LEMMA AskReadsInv ==
  ASSUME PhotoInv, \E c \in Callers : AskReads(c), UNCHANGED browser
  PROVE  PhotoInv'
  BY PhotoAssumption, SMTT(40) DEF PhotoInv, AskReads, Shape, ServerShape

LEMMA AskCreatesInv ==
  ASSUME PhotoInv, \E c \in Callers : AskCreates(c), UNCHANGED browser
  PROVE  PhotoInv'
  <1>1. PICK c \in Callers : AskCreates(c)
    OBVIOUS
  <1>2. ask[Service].pc = "read" => c # Service /\ c # Tab
    BY <1>1 DEF AskCreates, PhotoInv, NobodyActsBeforeTheRequest
  <1>3. ask[Service].pc # "read"
    BY <1>2 DEF Callers
  <1>4. PICK chosen : ask' = [ask EXCEPT ![c].pc = "done", ![c].job = chosen]
    <2> DEFINE working == {j \in Jobs : job[j].status \in ActiveJob /\ job[j].attempt = ask[c].attempt}
    <2>1. CASE working # {}
      BY <1>1, <2>1 DEF AskCreates
    <2>2. CASE working = {}
      BY <1>1, <2>2 DEF AskCreates
    <2> QED
      BY <2>1, <2>2
  <1>5. /\ DOMAIN ask' = Callers /\ ask'[c].pc = "done"
        /\ \A d \in Callers : DOMAIN ask'[d] = {"pc", "attempt", "job"} /\ (d # c => ask'[d] = ask[d])
    BY <1>4 DEF PhotoInv, Shape, ServerShape
  <1>6. /\ DOMAIN job' = Jobs
        /\ \A j \in Jobs : /\ DOMAIN job'[j] = JobFields
                           /\ Requested(j) => job'[j] = job[j]
    <2>1. \/ UNCHANGED job
          \/ \E j \in Jobs : /\ job[j].status = "NONE"
                             /\ job' = [job EXCEPT ![j].status = "PENDING", ![j].attempt = ask[c].attempt]
      BY <1>1 DEF AskCreates
    <2> QED
      BY <2>1 DEF PhotoInv, Shape, ServerShape, Requested, JobFields
  <1>7. UNCHANGED <<type, movement, row, analysis, call, faults, browser>>
    BY <1>1 DEF AskCreates
  <1>8. Service \in Callers
    BY DEF Callers
  <1>9. Shape'
    BY <1>6, <1>7, <1>5 DEF PhotoInv, browser, Shape, ServerShape, DialogShape
  <1>10. PhotosAreOfJobs' /\ EvidenceIsOfItsAttempt'
    <2>1. \A i \in Jobs : job[i].status # "NONE" => job'[i] = job[i]
      BY <1>6 DEF Requested
    <2>2. UNCHANGED <<analysis, row>>
      BY <1>7
    <2> QED
      BY <2>1, <2>2 DEF PhotoInv, PhotosAreOfJobs, EvidenceIsOfItsAttempt, Requested,
         AtWork, At
  <1>11. ask'[Service].pc # "read" /\ (ask'[Service].pc = "failed" => ask[Service].pc = "failed")
    BY <1>3, <1>8, <1>5
  <1> QED
    BY <1>7, <1>9, <1>10, <1>11 DEF PhotoInv, ResultHasPhoto, NobodyActsBeforeTheRequest,
         GivenUpIsFailed, AcceptanceIsHonoured

LEMMA CameraDeliversInv ==
  ASSUME PhotoInv, \E j \in Jobs : CameraDelivers(j), UNCHANGED browser
  PROVE  PhotoInv'
  BY PhotoAssumption, SMTT(40) DEF PhotoInv, CameraDelivers, browser, At, Idle, Shape,
     ServerShape, DialogShape, PhotosAreOfJobs, Requested, AtWork, ResultHasPhoto,
     NobodyActsBeforeTheRequest, GivenUpIsFailed, EvidenceIsOfItsAttempt, AcceptanceIsHonoured

LEMMA OldServerRejectsInv ==
  ASSUME PhotoInv, \E j \in Jobs : OldServerRejects(j), UNCHANGED browser
  PROVE  PhotoInv'
  BY PhotoAssumption, SMTT(40) DEF PhotoInv, OldServerRejects, browser, SetRow, At, Shape,
       ServerShape, DialogShape, PhotosAreOfJobs, Requested, AtWork, ResultHasPhoto,
       NobodyActsBeforeTheRequest, GivenUpIsFailed, EvidenceIsOfItsAttempt, AcceptanceIsHonoured

LEMMA JobEndsInv ==
  ASSUME PhotoInv, \E j \in Jobs : JobEnds(j), UNCHANGED browser
  PROVE  PhotoInv'
  BY PhotoAssumption, SMTT(40) DEF PhotoInv, JobEnds, browser, At, Idle, Shape,
     ServerShape, DialogShape, PhotosAreOfJobs, Requested, AtWork, ResultHasPhoto,
     NobodyActsBeforeTheRequest, GivenUpIsFailed, EvidenceIsOfItsAttempt, AcceptanceIsHonoured, Analysers

LEMMA AnalysisClaimsInv ==
  ASSUME PhotoInv, \E n \in Analysers : AnalysisClaims(n), UNCHANGED browser
  PROVE  PhotoInv'
  BY PhotoAssumption, SMTT(40) DEF PhotoInv, AnalysisClaims, browser, SetRow, SetStatus,
     Fault, EndJobs, At, NotAsking, Idle, Shape, ServerShape, JobFields, DialogShape,
     PhotosAreOfJobs, Requested, AtWork, ResultHasPhoto, NobodyActsBeforeTheRequest,
     GivenUpIsFailed, EvidenceIsOfItsAttempt, AcceptanceIsHonoured, Actionable, Callers,
     Analysers, EndedJob, ActiveJob, ClaimsFrom, OfItsAttempt, AttemptOf

LEMMA AnalysisBeatsInv ==
  ASSUME PhotoInv, \E n \in Analysers : AnalysisBeats(n), UNCHANGED browser
  PROVE  PhotoInv'
  BY PhotoAssumption, SMTT(40) DEF PhotoInv, AnalysisBeats, browser, SetRow, SetStatus,
     Fault, EndJobs, At, NotAsking, Idle, Shape, ServerShape, JobFields, DialogShape,
     PhotosAreOfJobs, Requested, AtWork, ResultHasPhoto, NobodyActsBeforeTheRequest,
     GivenUpIsFailed, EvidenceIsOfItsAttempt, AcceptanceIsHonoured, Actionable, Callers,
     Analysers, EndedJob, ActiveJob, Claimed, OfItsAttempt, AttemptOf

LEMMA AnalysisWritesInv ==
  ASSUME PhotoInv, \E n \in Analysers : AnalysisWrites(n), UNCHANGED browser
  PROVE  PhotoInv'
  BY PhotoAssumption, SMTT(40) DEF PhotoInv, AnalysisWrites, browser, SetRow, SetStatus,
     Fault, EndJobs, At, NotAsking, Idle, Shape, ServerShape, JobFields, DialogShape,
     PhotosAreOfJobs, Requested, AtWork, ResultHasPhoto, NobodyActsBeforeTheRequest,
     GivenUpIsFailed, EvidenceIsOfItsAttempt, AcceptanceIsHonoured, Actionable, Callers,
     Analysers, EndedJob, ActiveJob, Claimed, OfItsAttempt, AttemptOf

LEMMA AnalysisFailsInv ==
  ASSUME PhotoInv, \E n \in Analysers : AnalysisFails(n), UNCHANGED browser
  PROVE  PhotoInv'
  BY PhotoAssumption, SMTT(40) DEF PhotoInv, AnalysisFails, browser, SetRow, SetStatus,
     Fault, EndJobs, At, NotAsking, Idle, Shape, ServerShape, JobFields, DialogShape,
     PhotosAreOfJobs, Requested, AtWork, ResultHasPhoto, NobodyActsBeforeTheRequest,
     GivenUpIsFailed, EvidenceIsOfItsAttempt, AcceptanceIsHonoured, Actionable, Callers,
     Analysers, EndedJob, ActiveJob, Claimed, OfItsAttempt, AttemptOf

LEMMA CallNotAskedInv ==
  ASSUME PhotoInv, CallNotAsked, UNCHANGED browser
  PROVE  PhotoInv'
  <1>1. row.status = "FAILED"
    BY DEF CallNotAsked, PhotoInv, GivenUpIsFailed
  <1> QED
    BY <1>1, ThrowsInv DEF CallNotAsked

LEMMA CallReadsInv ==
  ASSUME PhotoInv, CallReads, UNCHANGED browser
  PROVE  PhotoInv'
  BY PhotoAssumption, SMTT(40) DEF PhotoInv, CallReads, browser, SetRow, SetStatus, Fault,
     EndJobs, At, NotAsking, Idle, Shape, ServerShape, JobFields, DialogShape,
     PhotosAreOfJobs, Requested, AtWork, ResultHasPhoto, NobodyActsBeforeTheRequest,
     GivenUpIsFailed, EvidenceIsOfItsAttempt, AcceptanceIsHonoured, Actionable, Callers,
     Analysers, EndedJob, ActiveJob, Polling

LEMMA CallReanalysesInv ==
  ASSUME PhotoInv, CallReanalyses, UNCHANGED browser
  PROVE  PhotoInv'
  BY PhotoAssumption, SMTT(40) DEF PhotoInv, CallReanalyses, browser, SetRow, SetStatus,
     Fault, EndJobs, At, NotAsking, Idle, Shape, ServerShape, JobFields, DialogShape,
     PhotosAreOfJobs, Requested, AtWork, ResultHasPhoto, NobodyActsBeforeTheRequest,
     GivenUpIsFailed, EvidenceIsOfItsAttempt, AcceptanceIsHonoured, Actionable, Callers,
     Analysers, EndedJob, ActiveJob, Reanalyse

LEMMA CallReanalysedInv ==
  ASSUME PhotoInv, CallReanalysed, UNCHANGED browser
  PROVE  PhotoInv'
  BY PhotoAssumption, SMTT(40) DEF PhotoInv, CallReanalysed, browser, SetRow, SetStatus,
     Fault, EndJobs, At, NotAsking, Idle, Shape, ServerShape, JobFields, DialogShape,
     PhotosAreOfJobs, Requested, AtWork, ResultHasPhoto, NobodyActsBeforeTheRequest,
     GivenUpIsFailed, EvidenceIsOfItsAttempt, AcceptanceIsHonoured, Actionable, Callers,
     Analysers, EndedJob, ActiveJob, Polls, NotSeen

LEMMA CallDecidesInv ==
  ASSUME PhotoInv, CallDecides, UNCHANGED browser
  PROVE  PhotoInv'
  <1>1. ask[Service].pc # "read"
    BY DEF CallDecides, PhotoInv, NobodyActsBeforeTheRequest
  <1>2. CASE row.status = "ACCEPTED"
    BY <1>2, PollsInv DEF CallDecides, Actionable
  <1>3. CASE row.status \in Actionable /\ row.frame # NoJob
    <2>1. /\ call' = [call EXCEPT !.pc = "accept",
                       !.seen = [status |-> row.status, frame |-> row.frame]]
          /\ UNCHANGED <<type, movement, row, job, ask, analysis, faults>>
      BY <1>3 DEF CallDecides, Actionable
    <2> QED
      BY <1>1, <1>3, <2>1, SMTT(40) DEF PhotoInv, browser, SetRow, SetStatus, Fault,
         EndJobs, At, NotAsking, Idle, Shape, ServerShape, JobFields, DialogShape,
         PhotosAreOfJobs, Requested, AtWork, ResultHasPhoto, NobodyActsBeforeTheRequest,
         GivenUpIsFailed, EvidenceIsOfItsAttempt, AcceptanceIsHonoured, Actionable,
         Callers, Analysers, EndedJob, ActiveJob
  <1>4. CASE row.status # "ACCEPTED" /\ ~(row.status \in Actionable /\ row.frame # NoJob)
    BY <1>1, <1>4, ThrowsInv DEF CallDecides
  <1> QED
    BY <1>2, <1>3, <1>4

LEMMA CallAcceptsInv ==
  ASSUME PhotoInv, CallAccepts, UNCHANGED browser
  PROVE  PhotoInv'
  <1>1. /\ ask[Service].pc # "read"
        /\ call.seen.status \in Actionable /\ call.seen.frame # NoJob
    BY DEF CallAccepts, PhotoInv, NobodyActsBeforeTheRequest, ResultHasPhoto
  <1>2. CASE Accept(call.seen) /\ Polls
    <2>1. /\ row.status \in Actionable /\ movement.status = "VERIFYING"
          /\ movement' = [movement EXCEPT !.frame = call.seen.frame]
          /\ row' = [status |-> "ACCEPTED", attempt |-> row.attempt, frame |-> row.frame,
                     stale |-> row.stale, age |-> "new"]
          /\ call' = [call EXCEPT !.pc = "poll", !.seen = NotSeen]
          /\ UNCHANGED <<type, job, ask, analysis, faults>>
      BY <1>1, <1>2 DEF CallAccepts, Accept, CanAccept, SetStatus, SetRow, Polls
    <2> QED
      BY <1>1, <2>1, SMTT(40) DEF PhotoInv, browser, NotSeen, SetRow, SetStatus, Fault,
         EndJobs, At, NotAsking, Idle, Shape, ServerShape, JobFields, DialogShape,
         PhotosAreOfJobs, Requested, AtWork, ResultHasPhoto, NobodyActsBeforeTheRequest,
         GivenUpIsFailed, EvidenceIsOfItsAttempt, AcceptanceIsHonoured, Actionable,
         Callers, Analysers, EndedJob, ActiveJob
  <1>3. CASE ~CanAccept(call.seen) /\ AlreadyAccepted(call.seen)
    BY <1>3, PollsInv DEF CallAccepts, Accept
  <1>4. CASE ~CanAccept(call.seen) /\ ~AlreadyAccepted(call.seen)
    <2>1. row.status # "ACCEPTED"
      BY <1>1, <1>4 DEF AlreadyAccepted, Actionable
    <2> QED
      BY <1>1, <1>4, <2>1, ThrowsInv DEF CallAccepts, Accept
  <1> QED
    BY <1>2, <1>3, <1>4 DEF CallAccepts, Accept

LEMMA CallFindsInv ==
  ASSUME PhotoInv, CallFinds, UNCHANGED browser
  PROVE  PhotoInv'
  <1>1. ask[Service].pc # "read"
    BY DEF CallFinds, Polling
  <1>2. CASE row.status = "FAILED" /\ Throws
    BY <1>1, <1>2, ThrowsInv DEF CallFinds
  <1>3. CASE row.status = "ACCEPTED"
    <2>1. /\ call' = [call EXCEPT !.pc = "over"]
          /\ movement' = [movement EXCEPT !.status = IF @ = "VERIFYING" THEN "PROCEEDED" ELSE @]
          /\ UNCHANGED <<type, row, job, ask, analysis, faults>>
      BY <1>3 DEF CallFinds
    <2>2. /\ DOMAIN movement' = {"status", "frame"} /\ movement'.frame = movement.frame
          /\ movement'.status # "FAILED"
      BY <1>3, <2>1 DEF PhotoInv, Shape, ServerShape, AcceptanceIsHonoured
    <2> QED
      BY <1>1, <1>3, <2>1, <2>2, SMTT(40) DEF PhotoInv, browser, SetRow, SetStatus, Fault,
         EndJobs, At, NotAsking, Idle, Shape, ServerShape, JobFields, DialogShape,
         PhotosAreOfJobs, Requested, AtWork, ResultHasPhoto, NobodyActsBeforeTheRequest,
         GivenUpIsFailed, EvidenceIsOfItsAttempt, AcceptanceIsHonoured, Actionable,
         Callers, Analysers, EndedJob, ActiveJob
  <1> QED
    BY <1>2, <1>3 DEF CallFinds

LEMMA CallTimesOutInv ==
  ASSUME PhotoInv, CallTimesOut, UNCHANGED browser
  PROVE  PhotoInv'
  <1>1. ask[Service].pc # "read"
    BY DEF CallTimesOut, PhotoInv, NobodyActsBeforeTheRequest
  <1>2. CASE Lapsed
    <2>1. /\ row.status = "CAPTURING"
          /\ row' = [status |-> "FAILED", attempt |-> row.attempt, frame |-> row.frame,
                     stale |-> row.stale, age |-> "new"]
          /\ call' = [call EXCEPT !.pc = "expire"]
          /\ UNCHANGED <<type, movement, job, ask, analysis, faults>>
      BY <1>2 DEF CallTimesOut, Lapsed, SetStatus, SetRow
    <2> QED
      BY <1>1, <2>1, SMTT(40) DEF PhotoInv, browser, SetRow, SetStatus, Fault, EndJobs,
         At, NotAsking, Idle, Shape, ServerShape, JobFields, DialogShape, PhotosAreOfJobs,
         Requested, AtWork, ResultHasPhoto, NobodyActsBeforeTheRequest, GivenUpIsFailed,
         EvidenceIsOfItsAttempt, AcceptanceIsHonoured, Actionable, Callers, Analysers,
         EndedJob, ActiveJob
  <1>3. CASE ~Lapsed
    BY <1>3, PollsInv DEF CallTimesOut
  <1> QED
    BY <1>2, <1>3

LEMMA CallExpiresInv ==
  ASSUME PhotoInv, CallExpires, UNCHANGED browser
  PROVE  PhotoInv'
  BY PhotoAssumption, SMTT(40) DEF PhotoInv, CallExpires, browser, SetRow, SetStatus,
     Fault, EndJobs, At, NotAsking, Idle, Shape, ServerShape, JobFields, DialogShape,
     PhotosAreOfJobs, Requested, AtWork, ResultHasPhoto, NobodyActsBeforeTheRequest,
     GivenUpIsFailed, EvidenceIsOfItsAttempt, AcceptanceIsHonoured, Actionable, Callers,
     Analysers, EndedJob, ActiveJob, Throws, NotSeen

LEMMA CallGivesUpInv ==
  ASSUME PhotoInv, CallGivesUp, UNCHANGED browser
  PROVE  PhotoInv'
  <1>1. ask[Service].pc # "read"
    BY DEF CallGivesUp, PhotoInv, NobodyActsBeforeTheRequest
  <1>2. CASE UNCHANGED <<row, movement, job>> /\ Polls
    BY <1>2, PollsInv DEF CallGivesUp
  <1>3. CASE SetStatus("FAILED") /\ Throws /\ UNCHANGED job
    BY <1>1, <1>3, SMTT(40) DEF PhotoInv, CallGivesUp, Throws, NotSeen, browser, SetRow,
       SetStatus, Fault, EndJobs, At, NotAsking, Idle, Shape, ServerShape, JobFields,
       DialogShape, PhotosAreOfJobs, Requested, AtWork, ResultHasPhoto,
       NobodyActsBeforeTheRequest, GivenUpIsFailed, EvidenceIsOfItsAttempt,
       AcceptanceIsHonoured, Actionable, Callers, Analysers, EndedJob, ActiveJob
  <1>4. CASE Release /\ Polls
    BY <1>1, <1>4, SMTT(40) DEF PhotoInv, CallGivesUp, Release, Releasable, Polls,
       NotSeen, browser, SetRow, SetStatus, Fault, EndJobs, At, NotAsking, Idle, Shape,
       ServerShape, JobFields, DialogShape, PhotosAreOfJobs, Requested, AtWork,
       ResultHasPhoto, NobodyActsBeforeTheRequest, GivenUpIsFailed,
       EvidenceIsOfItsAttempt, AcceptanceIsHonoured, Actionable, Callers, Analysers,
       EndedJob, ActiveJob
  <1> QED
    BY <1>2, <1>3, <1>4 DEF CallGivesUp

LEMMA RecoverInv ==
  ASSUME PhotoInv, Recover, UNCHANGED browser
  PROVE  PhotoInv'
  BY PhotoAssumption, SMTT(40) DEF PhotoInv, Recover, browser, SetRow, SetStatus, Fault,
     EndJobs, At, NotAsking, Idle, Shape, ServerShape, JobFields, DialogShape,
     PhotosAreOfJobs, Requested, AtWork, ResultHasPhoto, NobodyActsBeforeTheRequest,
     GivenUpIsFailed, EvidenceIsOfItsAttempt, AcceptanceIsHonoured, Actionable, Callers,
     Analysers, EndedJob, ActiveJob, Release, Releasable

LEMMA TimePassesInv ==
  ASSUME PhotoInv, TimePasses, UNCHANGED browser
  PROVE  PhotoInv'
  BY PhotoAssumption, SMTT(40) DEF PhotoInv, TimePasses, browser, SetRow, SetStatus,
     Fault, EndJobs, At, NotAsking, Idle, Shape, ServerShape, JobFields, DialogShape,
     PhotosAreOfJobs, Requested, AtWork, ResultHasPhoto, NobodyActsBeforeTheRequest,
     GivenUpIsFailed, EvidenceIsOfItsAttempt, AcceptanceIsHonoured, Actionable, Callers,
     Analysers, EndedJob, ActiveJob

LEMMA ServiceDiesInv ==
  ASSUME PhotoInv, ServiceDies, UNCHANGED browser
  PROVE  PhotoInv'
  BY PhotoAssumption, SMTT(40) DEF PhotoInv, ServiceDies, browser, SetRow, SetStatus,
     Fault, EndJobs, At, NotAsking, Idle, Shape, ServerShape, JobFields, DialogShape,
     PhotosAreOfJobs, Requested, AtWork, ResultHasPhoto, NobodyActsBeforeTheRequest,
     GivenUpIsFailed, EvidenceIsOfItsAttempt, AcceptanceIsHonoured, Actionable, Callers,
     Analysers, EndedJob, ActiveJob, NotSeen

LEMMA PushInv ==
  ASSUME PhotoInv, Push
  PROVE  PhotoInv'
  BY PhotoAssumption, SMTT(40) DEF PhotoInv, Push, server, SetRow, SetStatus, Fault,
     EndJobs, At, NotAsking, Idle, Shape, ServerShape, JobFields, DialogShape,
     PhotosAreOfJobs, Requested, AtWork, ResultHasPhoto, NobodyActsBeforeTheRequest,
     GivenUpIsFailed, EvidenceIsOfItsAttempt, AcceptanceIsHonoured, Actionable, Callers,
     Analysers, EndedJob, ActiveJob, Current, Pending, Retryable

LEMMA ReceiveInv ==
  ASSUME PhotoInv, Receive
  PROVE  PhotoInv'
  BY PhotoAssumption, SMTT(40) DEF PhotoInv, Receive, server, SetRow, SetStatus, Fault,
     EndJobs, At, NotAsking, Idle, Shape, ServerShape, JobFields, DialogShape,
     PhotosAreOfJobs, Requested, AtWork, ResultHasPhoto, NobodyActsBeforeTheRequest,
     GivenUpIsFailed, EvidenceIsOfItsAttempt, AcceptanceIsHonoured, Actionable, Callers,
     Analysers, EndedJob, ActiveJob, AfterEvent, Closed

LEMMA DecideCancelInv ==
  ASSUME PhotoInv, DecideCancel
  PROVE  PhotoInv'
  BY PhotoAssumption, SMTT(40) DEF PhotoInv, DecideCancel, server, SetRow, SetStatus,
     Fault, EndJobs, At, NotAsking, Idle, Shape, ServerShape, JobFields, DialogShape,
     PhotosAreOfJobs, Requested, AtWork, ResultHasPhoto, NobodyActsBeforeTheRequest,
     GivenUpIsFailed, EvidenceIsOfItsAttempt, AcceptanceIsHonoured, Actionable, Callers,
     Analysers, EndedJob, ActiveJob, Deciding, Refused, Decided, Cancel, Recoverable,
     Retryable

LEMMA DecideRetryInv ==
  ASSUME PhotoInv, DecideRetry
  PROVE  PhotoInv'
  BY PhotoAssumption, SMTT(40) DEF PhotoInv, DecideRetry, server, SetRow, SetStatus,
     Fault, EndJobs, At, NotAsking, Idle, Shape, ServerShape, JobFields, DialogShape,
     PhotosAreOfJobs, Requested, AtWork, ResultHasPhoto, NobodyActsBeforeTheRequest,
     GivenUpIsFailed, EvidenceIsOfItsAttempt, AcceptanceIsHonoured, Actionable, Callers,
     Analysers, EndedJob, ActiveJob, Deciding, Refused, Decided, Retry, Recoverable,
     Retryable

LEMMA DecideAcceptInv ==
  ASSUME PhotoInv, DecideAccept
  PROVE  PhotoInv'
  BY PhotoAssumption, SMTT(40) DEF PhotoInv, DecideAccept, server, SetRow, SetStatus,
     Fault, EndJobs, At, NotAsking, Idle, Shape, ServerShape, JobFields, DialogShape,
     PhotosAreOfJobs, Requested, AtWork, ResultHasPhoto, NobodyActsBeforeTheRequest,
     GivenUpIsFailed, EvidenceIsOfItsAttempt, AcceptanceIsHonoured, Actionable, Callers,
     Analysers, EndedJob, ActiveJob, Deciding, Refused, Decided, Accept, CanAccept

LEMMA HearAnswerInv ==
  ASSUME PhotoInv, HearAnswer
  PROVE  PhotoInv'
  BY PhotoAssumption, SMTT(40) DEF PhotoInv, HearAnswer, server, SetRow, SetStatus, Fault,
     EndJobs, At, NotAsking, Idle, Shape, ServerShape, JobFields, DialogShape,
     PhotosAreOfJobs, Requested, AtWork, ResultHasPhoto, NobodyActsBeforeTheRequest,
     GivenUpIsFailed, EvidenceIsOfItsAttempt, AcceptanceIsHonoured, Actionable, Callers,
     Analysers, EndedJob, ActiveJob, NotSending

LEMMA CaptureAskedInv ==
  ASSUME PhotoInv, CaptureAsked
  PROVE  PhotoInv'
  BY PhotoAssumption, SMTT(40) DEF PhotoInv, CaptureAsked, server, SetRow, SetStatus,
     Fault, EndJobs, At, NotAsking, Idle, Shape, ServerShape, JobFields, DialogShape,
     PhotosAreOfJobs, Requested, AtWork, ResultHasPhoto, NobodyActsBeforeTheRequest,
     GivenUpIsFailed, EvidenceIsOfItsAttempt, AcceptanceIsHonoured, Actionable, Callers,
     Analysers, EndedJob, ActiveJob

LEMMA FollowEndsInv ==
  ASSUME PhotoInv, FollowEnds
  PROVE  PhotoInv'
  BY PhotoAssumption, SMTT(40) DEF PhotoInv, FollowEnds, server, SetRow, SetStatus, Fault,
     EndJobs, At, NotAsking, Idle, Shape, ServerShape, JobFields, DialogShape,
     PhotosAreOfJobs, Requested, AtWork, ResultHasPhoto, NobodyActsBeforeTheRequest,
     GivenUpIsFailed, EvidenceIsOfItsAttempt, AcceptanceIsHonoured, Actionable, Callers,
     Analysers, EndedJob, ActiveJob, Followed

LEMMA ClickReanalyseInv ==
  ASSUME PhotoInv, ClickReanalyse
  PROVE  PhotoInv'
  BY PhotoAssumption, SMTT(40) DEF PhotoInv, ClickReanalyse, server, SetRow, SetStatus,
     Fault, EndJobs, At, NotAsking, Idle, Shape, ServerShape, JobFields, DialogShape,
     PhotosAreOfJobs, Requested, AtWork, ResultHasPhoto, NobodyActsBeforeTheRequest,
     GivenUpIsFailed, EvidenceIsOfItsAttempt, AcceptanceIsHonoured, Actionable, Callers,
     Analysers, EndedJob, ActiveJob, Reanalyse, NoResult

LEMMA ReanalysedInv ==
  ASSUME PhotoInv, Reanalysed
  PROVE  PhotoInv'
  BY PhotoAssumption, SMTT(40) DEF PhotoInv, Reanalysed, server, SetRow, SetStatus, Fault,
     EndJobs, At, NotAsking, Idle, Shape, ServerShape, JobFields, DialogShape,
     PhotosAreOfJobs, Requested, AtWork, ResultHasPhoto, NobodyActsBeforeTheRequest,
     GivenUpIsFailed, EvidenceIsOfItsAttempt, AcceptanceIsHonoured, Actionable, Callers,
     Analysers, EndedJob, ActiveJob

LEMMA ReloadInv ==
  ASSUME PhotoInv, Reload
  PROVE  PhotoInv'
  BY PhotoAssumption, SMTT(40) DEF PhotoInv, Reload, server, SetRow, SetStatus, Fault,
     EndJobs, At, NotAsking, Idle, Shape, ServerShape, JobFields, DialogShape,
     PhotosAreOfJobs, Requested, AtWork, ResultHasPhoto, NobodyActsBeforeTheRequest,
     GivenUpIsFailed, EvidenceIsOfItsAttempt, AcceptanceIsHonoured, Actionable, Callers,
     Analysers, EndedJob, ActiveJob, Closed

---------------------------------------------------------------------------
(* What has ended stays ended.                                             *)
Final ==
    /\ row.status = "FAILED" => row'.status = "FAILED"
    /\ row.status = "ACCEPTED" =>
         row'.status = "ACCEPTED" \/ (row'.status = "FAILED" /\ movement'.status = "FAILED")

LEMMA ServerFinal ==
  ASSUME PhotoInv, Server
  PROVE  Final
  <1>1. CASE \E j \in Jobs : OldServerRejects(j)
    BY <1>1 DEF Final, OldServerRejects, SetRow, SetStatus, Fault, EndJobs, At, NotAsking,
       Idle, PhotoInv, Shape, ServerShape, Retryable, Recoverable, Actionable,
       ActiveCapture, Kept
  <1>2. CASE \E n \in Analysers : AnalysisClaims(n)
    BY <1>2 DEF Final, AnalysisClaims, SetRow, SetStatus, Fault, EndJobs, At, NotAsking,
       Idle, PhotoInv, Shape, ServerShape, Retryable, Recoverable, Actionable,
       ActiveCapture, ClaimsFrom, OfItsAttempt, AttemptOf
  <1>3. CASE \E n \in Analysers : AnalysisBeats(n)
    BY <1>3 DEF Final, AnalysisBeats, SetRow, SetStatus, Fault, EndJobs, At, NotAsking,
       Idle, PhotoInv, Shape, ServerShape, Retryable, Recoverable, Actionable,
       ActiveCapture, Claimed, OfItsAttempt, AttemptOf
  <1>4. CASE \E n \in Analysers : AnalysisWrites(n)
    BY <1>4 DEF Final, AnalysisWrites, SetRow, SetStatus, Fault, EndJobs, At, NotAsking,
       Idle, PhotoInv, Shape, ServerShape, Retryable, Recoverable, Actionable,
       ActiveCapture, Claimed, OfItsAttempt, AttemptOf
  <1>5. CASE \E n \in Analysers : AnalysisFails(n)
    BY <1>5 DEF Final, AnalysisFails, SetRow, SetStatus, Fault, EndJobs, At, NotAsking,
       Idle, PhotoInv, Shape, ServerShape, Retryable, Recoverable, Actionable,
       ActiveCapture, Claimed, OfItsAttempt, AttemptOf
  <1>6. CASE CallAccepts
    <2>1. call.seen.status \in Actionable
      BY <1>6 DEF CallAccepts, PhotoInv, ResultHasPhoto
    <2> QED
      BY <1>6, <2>1 DEF Final, CallAccepts, SetRow, SetStatus, Accept, CanAccept, Actionable,
         PhotoInv, Shape, ServerShape
  <1>7. CASE CallTimesOut
    BY <1>7 DEF Final, CallTimesOut, SetRow, SetStatus, Fault, EndJobs, At, NotAsking,
       Idle, PhotoInv, Shape, ServerShape, Retryable, Recoverable, Actionable,
       ActiveCapture, Lapsed, Polls, NotSeen
  <1>8. CASE CallGivesUp
    BY <1>8 DEF Final, CallGivesUp, SetRow, SetStatus, Fault, EndJobs, At, NotAsking,
       Idle, PhotoInv, Shape, ServerShape, Retryable, Recoverable, Actionable,
       ActiveCapture, Throws, Polls, NotSeen, Release, Releasable
  <1>9. CASE Recover
    BY <1>9 DEF Final, Recover, SetRow, SetStatus, Fault, EndJobs, At, NotAsking, Idle,
       PhotoInv, Shape, ServerShape, Retryable, Recoverable, Actionable, ActiveCapture,
       Release, Releasable
  <1>10. CASE TimePasses
    BY <1>10 DEF Final, TimePasses, SetRow, SetStatus, Fault, EndJobs, At, NotAsking,
       Idle, PhotoInv, Shape, ServerShape, Retryable, Recoverable, Actionable,
       ActiveCapture
  <1>11. CASE UNCHANGED row
    BY <1>11 DEF Final
  <1> QED
    BY <1>1, <1>2, <1>3, <1>4, <1>5, <1>6, <1>7, <1>8, <1>9, <1>10, <1>11
       DEF Server, Camera, Analysis, Asking, Waiting, AskReads, AskCreates, CameraDelivers,
           JobEnds, CallNotAsked, CallReads, CallReanalyses, CallReanalysed, CallDecides,
           CallFinds, CallExpires, ServiceDies

LEMMA BrowserFinal ==
  ASSUME PhotoInv, Browser
  PROVE  Final
  <1>1. CASE DecideCancel
    BY <1>1 DEF Final, DecideCancel, Cancel, Refused, Recoverable, Retryable, Actionable
  <1>2. CASE DecideRetry
    BY <1>2 DEF Final, DecideRetry, Retry, Refused, Recoverable, Retryable, Actionable
  <1>3. CASE DecideAccept
    BY <1>3 DEF Final, DecideAccept, Accept, SetStatus, SetRow, Refused, Actionable
  <1>4. CASE UNCHANGED row
    BY <1>4 DEF Final
  <1> QED
    BY <1>1, <1>2, <1>3, <1>4 DEF Browser, Push, Receive, HearAnswer, CaptureAsked,
       FollowEnds, ClickReanalyse, Reanalysed, Reload, server

---------------------------------------------------------------------------
LEMMA PhotoInit == Init => PhotoInv
  BY PhotoAssumption DEF Init, ServerInit, DialogInit, Published, NotSeen, Closed,
     NotAsking, PhotoInv, SetRow, SetStatus, Fault, EndJobs, At, NotAsking, Idle, Shape,
     ServerShape, JobFields, DialogShape, PhotosAreOfJobs, Requested, AtWork,
     ResultHasPhoto, NobodyActsBeforeTheRequest, GivenUpIsFailed, EvidenceIsOfItsAttempt,
     AcceptanceIsHonoured, Actionable, Callers, Analysers, EndedJob, ActiveJob

LEMMA PhotoStep == PhotoInv /\ [Next]_vars => PhotoInv'
  <1> SUFFICES ASSUME PhotoInv, [Next]_vars
               PROVE  PhotoInv'
    OBVIOUS
  <1>1. CASE Server /\ UNCHANGED browser
    BY <1>1, AskReadsInv, AskCreatesInv, CameraDeliversInv, OldServerRejectsInv,
       JobEndsInv, AnalysisClaimsInv, AnalysisBeatsInv, AnalysisWritesInv,
       AnalysisFailsInv, CallNotAskedInv, CallReadsInv, CallReanalysesInv,
       CallReanalysedInv, CallDecidesInv, CallAcceptsInv, CallFindsInv, CallTimesOutInv,
       CallExpiresInv, CallGivesUpInv, RecoverInv, TimePassesInv, ServiceDiesInv
       DEF Server, Camera, Analysis, Asking, Waiting
  <1>2. CASE Browser
    BY <1>2, PushInv, ReceiveInv, DecideCancelInv, DecideRetryInv, DecideAcceptInv,
       HearAnswerInv, CaptureAskedInv, FollowEndsInv, ClickReanalyseInv, ReanalysedInv,
       ReloadInv
       DEF Browser
  <1>3. CASE UNCHANGED vars
    BY <1>3 DEF PhotoInv, vars, server, browser, SetRow, SetStatus, Fault, EndJobs, At,
       NotAsking, Idle, Shape, ServerShape, JobFields, DialogShape, PhotosAreOfJobs,
       Requested, AtWork, ResultHasPhoto, NobodyActsBeforeTheRequest, GivenUpIsFailed,
       EvidenceIsOfItsAttempt, AcceptanceIsHonoured, Actionable, Callers, Analysers,
       EndedJob, ActiveJob
  <1> QED
    BY <1>1, <1>2, <1>3 DEF Next

(* PhotoInv is an invariant of every run of the check.                     *)
THEOREM PhotosAreKeptApart == Spec => []PhotoInv
  BY PhotoInit, PhotoStep, PTL DEF Spec

(* The result in the row, and the photo kept with it, are of the attempt   *)
(* at which the row stands (the conditional updates of                     *)
(* analyzePutawayCapture).                                                 *)
THEOREM LateResultIsDropped == Spec => []EvidenceIsOfItsAttempt
  <1>1. PhotoInv => EvidenceIsOfItsAttempt
    BY DEF PhotoInv
  <1> QED
    BY <1>1, PhotosAreKeptApart, PTL

(* The movement goes on only with a photo that was accepted, and an        *)
(* accepted check is not unwound by the service that waits for it          *)
(* (requirePutawayVerification, decidePutawayCapture).                     *)
THEOREM AcceptanceStands == Spec => []AcceptanceIsHonoured
  <1>1. PhotoInv => AcceptanceIsHonoured
    BY DEF PhotoInv
  <1> QED
    BY <1>1, PhotosAreKeptApart, PTL

(* No late analysis, decision or deadline reopens a check that has ended.  *)
THEOREM EndedCheckStaysEnded == Spec => DecidedIsFinal
  <1>1. PhotoInv /\ [Next]_vars => [Final]_vars
    BY ServerFinal, BrowserFinal DEF Next
  <1> QED
    BY <1>1, PhotosAreKeptApart, PTL DEF Spec, DecidedIsFinal, Final

---------------------------------------------------------------------------
(* The policy: the nearest count is the load or lies too near a boundary.  *)
(* The scale's count of a load, where it gives one.                        *)
LEMMA ScaleCountsTheLoad ==
  ASSUME NEW unit \in UnitWeights, NEW load \in Nat, NEW deviation \in Int,
         20 * Abs(deviation) < 11 * unit,
         NEW total, total = Tare + load * unit + deviation
  PROVE  ScaleCount(total, unit) \in {load, NoCount}
  <1>1. PICK net : net = load * unit + deviation
    OBVIOUS
  <1>2. unit \in Nat /\ unit > 0 /\ load * unit \in Int
    BY DEF UnitWeights
  <1>3. net \in Int /\ total - Tare = net
    BY <1>1, <1>2 DEF Tare
  <1>4. PICK n : n = (2 * net + unit) \div (2 * unit)
    OBVIOUS
  <1>5. ASSUME ~NearBoundary(net, unit)
        PROVE  n = load
    <2>1. 20 * Abs(net - n * unit) <= 9 * unit
      BY <1>2, <1>3, <1>4, <1>5 DEF NearBoundary, Abs, UnitWeights
    <2>2. n \in Int
      BY <1>2, <1>3, <1>4, SMTT(30) DEF UnitWeights
    <2> QED
      BY <1>1, <2>1, <2>2, SMTT(30) DEF Abs, UnitWeights
  <1> QED
    BY <1>3, <1>4, <1>5 DEF ScaleCount

(* For any load, expectation and capacity and any deviation below that     *)
(* bound, a count that is accepted without an operator is the load, fits   *)
(* the bin and lies among nothing foreign, and a browser that reads the    *)
(* row back decides the same (verifyPhysicalWeight, assessBinInspection,   *)
(* persistedCaptureOutcome).                                               *)
THEOREM CountsAreTheLoad ==
  ASSUME NEW unit \in UnitWeights, NEW load \in Nat, NEW expected \in Nat, NEW capacity \in Nat,
         NEW deviation \in Int, 20 * Abs(deviation) < 11 * unit, NEW evidence \in Evidence
  PROVE  JudgesTheLoad(evidence, unit, load, deviation, expected, capacity)
  <1>1. PICK count : count = ScaleCount(Tare + load * unit + deviation, unit)
    OBVIOUS
  <1>2. count \in {load, NoCount}
    BY <1>1, ScaleCountsTheLoad
  <1>3. PICK outcome : outcome = Outcome(evidence, count, expected, capacity)
    OBVIOUS
  <1>4. PICK restored : restored = PersistedOutcome(NextStatus(outcome), count, expected, capacity,
                                                    outcome = "FOREIGN_OBJECTS")
    OBVIOUS
  <1>5. count \in Int /\ count >= NoCount
    BY <1>2 DEF NoCount
  (* A gate that is clear has a count of what fits, among nothing foreign. *)
  <1>6. Gate(evidence, count, capacity) = "CLEAR" =>
          count = load /\ load <= capacity /\ ~evidence.foreign
    BY <1>2, <1>5 DEF Gate, Evidence
  <1>7. outcome \in {"INCREASED", "REVIEW_DECREASE", "READY"} => Gate(evidence, count, capacity) = "CLEAR"
    BY <1>3 DEF Outcome, Gate
  <1>8. AutomaticDecision(restored) = AutomaticDecision(outcome)
    BY <1>3, <1>4, <1>5 DEF Outcome, Gate, NextStatus, PersistedOutcome, AutomaticDecision
  <1> QED
    BY <1>1, <1>3, <1>4, <1>6, <1>7, <1>8 DEF JudgesTheLoad, AutomaticDecision

(* In particular for the loads and deviations that a run tries.            *)
THEOREM AcceptedCountsAreLoaded == Spec => []AcceptedCountIsLoaded
  <1>1. ASSUME NEW unit \in UnitWeights, NEW deviation \in Deviations(unit)
        PROVE  deviation \in Int /\ 20 * Abs(deviation) < 11 * unit
    BY <1>1, SMTT(30) DEF Deviations, UnitWeights, Abs
  <1>2. CountIsLoaded
    BY <1>1, CountsAreTheLoad DEF CountIsLoaded
  <1>3. AcceptedCountIsLoaded
    BY <1>2 DEF AcceptedCountIsLoaded
  <1> QED
    BY <1>3, PTL
=============================================================================
