------------------------- MODULE CaptureQueueProofs -------------------------
(***************************************************************************)
(* Proofs about the camera queue, for any jobs, workers and requests and   *)
(* any number of faults.  First the life of a job, status by status, from  *)
(* which it follows that ended jobs stay ended and that a photo is         *)
(* analysed once; then who waits for which answer, which gives types and   *)
(* the safety of acknowledged photos.                                      *)
(***************************************************************************)
EXTENDS CaptureQueue, TLAPS

Status == {"NONE"} \cup Active \cup Ended

(* The steps a job's status can take.                                      *)
Follows(a, b) ==
    \/ b = a
    \/ a = "NONE" /\ b = "PENDING"
    \/ a = "PENDING" /\ b = "CLAIMED"
    \/ a = "CLAIMED" /\ b \in {"PENDING", "UPLOADED"}
    \/ a = "UPLOADED" /\ b = "PROCESSING"
    \/ a \in Active /\ b \in Ended

StatusStep == status' \in [Jobs -> Status] /\ \A j \in Jobs : Follows(status[j], status'[j])

(* SetStatus changes one job, whatever the others do.                      *)
LEMMA SetStatusEffect ==
  ASSUME status \in [Jobs -> Status], NEW j, NEW to \in Status, SetStatus(j, to),
         j \in Jobs => Follows(status[j], to)
  PROVE  StatusStep
  BY DEF SetStatus, StatusStep, Follows

(* A step that leaves all jobs as they are.                                *)
LEMMA StatusUnchanged ==
  ASSUME status \in [Jobs -> Status], UNCHANGED status
  PROVE  StatusStep
  BY DEF StatusStep, Follows

LEMMA SweepStatus ==
  ASSUME status \in [Jobs -> Status], Sweep
  PROVE  StatusStep
  <1>1. PICK abandoned \in SUBSET {j \in Jobs : status[j] = "PENDING"} :
          status' = [j \in Jobs |-> AfterSweep(j, abandoned)]
    BY DEF Sweep
  <1>2. ASSUME NEW j \in Jobs
        PROVE  AfterSweep(j, abandoned) \in Status /\ Follows(status[j], AfterSweep(j, abandoned))
    <2>1. CASE j \in abandoned
      BY <2>1 DEF AfterSweep, Follows, Status, Active, Ended
    <2>2. CASE j \notin abandoned /\ status[j] = "CLAIMED" /\ j \in over
      BY <2>2 DEF AfterSweep, Follows, Status, Active, Ended
    <2>3. CASE j \notin abandoned /\ status[j] \in {"UPLOADED", "PROCESSING"} /\ j \in over
      BY <2>3 DEF AfterSweep, Follows, Status, Active, Ended
    <2>4. CASE j \notin abandoned /\ ~(status[j] \in {"CLAIMED", "UPLOADED", "PROCESSING"} /\ j \in over)
      BY <2>4 DEF AfterSweep, Follows
    <2> QED
      BY <2>1, <2>2, <2>3, <2>4
  <1> QED
    BY <1>1, <1>2 DEF StatusStep

(* The server's statements.                                                *)
LEMMA ServeStatus ==
  ASSUME status \in [Jobs -> Status], NEW q \in Requests, Serve(q)
  PROVE  StatusStep
  <1>1. CASE ClaimSweeps(q)
    BY <1>1, SweepStatus DEF ClaimSweeps
  <1>2. CASE ClaimLooks(q) \/ ClaimPicks(q) \/ UploadChecks(q) \/ MarkReads(q)
    BY <1>2, StatusUnchanged DEF ClaimLooks, ClaimPicks, UploadChecks, MarkReads
  <1>3. CASE ClaimWrites(q)
    <2>1. CASE status[request[q].job] = "PENDING" /\ SetStatus(request[q].job, "CLAIMED")
      BY <2>1, SetStatusEffect DEF Follows, Status, Active
    <2>2. CASE UNCHANGED status
      BY <2>2, StatusUnchanged
    <2> QED
      BY <1>3, <2>1, <2>2 DEF ClaimWrites
  <1>4. CASE MarkRequeues(q)
    <2>1. CASE status[request[q].job] = "CLAIMED" /\ SetStatus(request[q].job, "PENDING")
      BY <2>1, SetStatusEffect DEF Follows, Status, Active
    <2>2. CASE UNCHANGED status
      BY <2>2, StatusUnchanged
    <2> QED
      BY <1>4, <2>1, <2>2 DEF MarkRequeues
  <1>5. CASE MarkUploads(q)
    <2>1. CASE status[request[q].job] = "CLAIMED" /\ SetStatus(request[q].job, "UPLOADED")
      BY <2>1, SetStatusEffect DEF Follows, Status, Active
    <2>2. CASE UNCHANGED status
      BY <2>2, StatusUnchanged
    <2> QED
      BY <1>5, <2>1, <2>2 DEF MarkUploads
  <1>6. CASE ClaimForProcessing(q)
    <2>1. CASE status[request[q].job] = "UPLOADED" /\ SetStatus(request[q].job, "PROCESSING")
      BY <2>1, SetStatusEffect DEF Follows, Status, Active
    <2>2. CASE UNCHANGED status
      BY <2>2, StatusUnchanged
    <2> QED
      BY <1>6, <2>1, <2>2 DEF ClaimForProcessing
  <1>7. CASE EndAnalysis(q)
    <2>1. ASSUME NEW end \in {"COMPLETED", "FAILED"},
                 status[request[q].job] \in Active, SetStatus(request[q].job, end)
          PROVE  StatusStep
      BY <2>1, SetStatusEffect DEF Follows, Status, Ended
    <2>2. CASE UNCHANGED status
      BY <2>2, StatusUnchanged
    <2> QED
      BY <1>7, <2>1, <2>2 DEF EndAnalysis
  <1> QED
    BY <1>1, <1>2, <1>3, <1>4, <1>5, <1>6, <1>7 DEF Serve

LEMMA WorkStatus ==
  ASSUME status \in [Jobs -> Status], NEW w \in Workers,
         Work(w) \/ CaptureFails(w) \/ RenewDeviceLease(w) \/ GiveUp(w) \/ Crash(w)
  PROVE  StatusStep
  <1>1. CASE Report(w)
    <2>1. CASE status[worker[w].job] \in Active /\ SetStatus(worker[w].job, "FAILED")
      BY <2>1, SetStatusEffect DEF Follows, Status, Ended
    <2>2. CASE UNCHANGED status
      BY <2>2, StatusUnchanged
    <2> QED
      BY <1>1, <2>1, <2>2 DEF Report
  <1>2. CASE ~Report(w)
    <2>1. UNCHANGED status
      BY <1>2 DEF Work, Start, Wake, SpoolIsEmpty, HearJob, HearResent, HearUploaded, HearFailure,
                  Capture, SaveMetadata, Ask, Send, Resend, SendRequest, CaptureFails,
                  RenewDeviceLease, GiveUp, Crash
    <2> QED
      BY <2>1, StatusUnchanged
  <1> QED
    BY <1>1, <1>2

(* Every step of the system takes every job one step of its life at most.  *)
LEMMA NextStatus ==
  ASSUME status \in [Jobs -> Status], [Next]_vars
  PROVE  StatusStep
  <1>1. CASE \E j \in Jobs : CreateJob(j)
    BY <1>1 DEF CreateJob, StatusStep, Follows, Status, Active
  <1>2. CASE \E j \in Jobs : Supersede(j)
    <2>1. PICK j \in Jobs, end \in {"CANCELLED", "FAILED"} : status[j] \in Active /\ SetStatus(j, end)
      BY <1>2 DEF Supersede
    <2> QED
      BY <2>1, SetStatusEffect DEF Follows, Status, Ended
  <1>3. CASE \E j \in Jobs : Lapse(j)
    BY <1>3, StatusUnchanged DEF Lapse
  <1>4. CASE BrowserPoll
    BY <1>4, SweepStatus DEF BrowserPoll
  <1>5. CASE \E q \in Requests : Serve(q)
    BY <1>5, ServeStatus
  <1>6. CASE \E q \in Requests : RenewProcessingLease(q) \/ RequestDies(q)
    BY <1>6, StatusUnchanged DEF RenewProcessingLease, RequestDies
  <1>7. CASE \E w \in Workers : Work(w) \/ CaptureFails(w) \/ RenewDeviceLease(w) \/ GiveUp(w) \/ Crash(w)
    BY <1>7, WorkStatus
  <1>8. CASE UNCHANGED vars
    BY <1>8, StatusUnchanged DEF vars
  <1> QED
    BY <1>1, <1>2, <1>3, <1>4, <1>5, <1>6, <1>7, <1>8 DEF Next

StatusTyped == status \in [Jobs -> Status]

LEMMA InitStatus == Init => StatusTyped
  BY DEF Init, StatusTyped, Status

LEMMA NextStatusTyped == StatusTyped /\ [Next]_vars => StatusTyped'
  BY NextStatus DEF StatusTyped, StatusStep

---------------------------------------------------------------------------
(* Terminal jobs do not reopen, whatever is uploaded, claimed, analysed or *)
(* reported after the job has ended, and however late.                     *)
THEOREM TerminalJobsDoNotReopen == Spec => EndedStaysEnded
  <1>1. StatusTyped /\ [Next]_vars =>
          [ \A j \in Jobs : status[j] \in Ended => status'[j] = status[j] ]_vars
    <2> SUFFICES ASSUME StatusTyped, [Next]_vars, NEW j \in Jobs, status[j] \in Ended
                 PROVE  status'[j] = status[j]
      OBVIOUS
    <2>1. Follows(status[j], status'[j])
      BY NextStatus DEF StatusTyped, StatusStep
    <2> QED
      BY <2>1 DEF Follows, Ended, Active
  <1> QED
    BY <1>1, InitStatus, NextStatusTyped, PTL DEF Spec, EndedStaysEnded

---------------------------------------------------------------------------
(* A job that may still be analysed has not been: the invariant behind     *)
(* AnalysedOnce.                                                           *)
NotYetAnalysed ==
    /\ StatusTyped
    /\ analyses \in [Watched -> {0, 1}]
    /\ \A j \in Watched : status[j] \in {"NONE", "PENDING", "CLAIMED", "UPLOADED"} => analyses[j] = 0

LEMMA NextAnalyses ==
  ASSUME Next
  PROVE  \/ UNCHANGED analyses
         \/ \E q \in Requests : status[request[q].job] = "UPLOADED" /\ ClaimForProcessing(q)
  <1>1. ASSUME NEW q \in Requests, Serve(q)
        PROVE  UNCHANGED analyses \/ (status[request[q].job] = "UPLOADED" /\ ClaimForProcessing(q))
    BY <1>1 DEF Serve, ClaimSweeps, Sweep, ClaimLooks, ClaimPicks, ClaimWrites, UploadChecks,
                MarkReads, MarkRequeues, MarkUploads, ClaimForProcessing, EndAnalysis, history
  <1>2. ASSUME NEW w \in Workers,
               Work(w) \/ CaptureFails(w) \/ RenewDeviceLease(w) \/ GiveUp(w) \/ Crash(w)
        PROVE  UNCHANGED analyses
    BY <1>2 DEF Work, Start, Wake, SpoolIsEmpty, HearJob, HearResent, HearUploaded, HearFailure,
                Capture, SaveMetadata, Ask, Send, Resend, SendRequest, CaptureFails, Report,
                RenewDeviceLease, GiveUp, Crash, history
  <1>3. ASSUME NEW j \in Jobs, CreateJob(j) \/ Supersede(j) \/ Lapse(j)
        PROVE  UNCHANGED analyses
    BY <1>3 DEF CreateJob, Supersede, Lapse, history
  <1>4. ASSUME BrowserPoll PROVE UNCHANGED analyses
    BY <1>4 DEF BrowserPoll, Sweep
  <1>5. ASSUME NEW q \in Requests, RenewProcessingLease(q) \/ RequestDies(q)
        PROVE  UNCHANGED analyses
    BY <1>5 DEF RenewProcessingLease, RequestDies, history
  <1> QED
    BY <1>1, <1>2, <1>3, <1>4, <1>5 DEF Next

LEMMA NextNotYetAnalysed == NotYetAnalysed /\ [Next]_vars => NotYetAnalysed'
  <1> SUFFICES ASSUME NotYetAnalysed, [Next]_vars PROVE NotYetAnalysed'
    OBVIOUS
  <1>1. StatusTyped' /\ \A j \in Watched : Follows(status[j], status'[j])
    BY NextStatus, QueueAssumption DEF NotYetAnalysed, StatusTyped, StatusStep
  <1>2. \A j \in Watched : status'[j] \in {"NONE", "PENDING", "CLAIMED", "UPLOADED"}
                             => status[j] \in {"NONE", "PENDING", "CLAIMED", "UPLOADED"}
    BY <1>1 DEF Follows, Ended
  <1>3. CASE UNCHANGED analyses
    BY <1>1, <1>2, <1>3 DEF NotYetAnalysed
  <1>4. ASSUME NEW q \in Requests, status[request[q].job] = "UPLOADED", ClaimForProcessing(q)
        PROVE  NotYetAnalysed'
    <2> DEFINE j == request[q].job
    <2>1. Analysed(j) /\ SetStatus(j, "PROCESSING")
      BY <1>4 DEF ClaimForProcessing
    <2>2. j \in Watched => analyses[j] = 0 /\ status'[j] = "PROCESSING"
      BY <1>4, <2>1, QueueAssumption DEF NotYetAnalysed, StatusTyped, SetStatus
    <2>3. analyses' \in [Watched -> {0, 1}]
      BY <2>1, <2>2 DEF Analysed, NotYetAnalysed
    <2>4. \A i \in Watched : i # j => analyses'[i] = analyses[i]
      BY <2>1 DEF Analysed
    <2> QED
      BY <1>1, <1>2, <2>2, <2>3, <2>4 DEF NotYetAnalysed
  <1> QED
    BY <1>3, <1>4, NextAnalyses DEF vars, history

(* However often a photo is uploaded, and whoever dies or is overtaken, it *)
(* is analysed at most once.                                               *)
THEOREM PhotoIsAnalysedOnce == Spec => []AnalysedOnce
  <1>1. Init => NotYetAnalysed
    BY InitStatus DEF Init, NotYetAnalysed
  <1>2. NotYetAnalysed => AnalysedOnce
    BY DEF NotYetAnalysed, AnalysedOnce
  <1> QED
    BY <1>1, <1>2, NextNotYetAnalysed, PTL DEF Spec

---------------------------------------------------------------------------
(* Requests: each is of its type, and past its beginning names a job.      *)
RequestRow == [pc : RequestPC, job : Jobs \cup {NoJob}, tries : 0 .. MaxClaimAttempts]
AboutJob == {"write", "check", "mark", "requeue", "upload", "process", "analysing"}
RequestsOK ==
    /\ request \in [Requests -> RequestRow]
    /\ \A q \in Requests : request[q].pc \in AboutJob => request[q].job \in Jobs

LEMMA RequestFields ==
  ASSUME RequestsOK, NEW q \in Requests
  PROVE  /\ request[q].pc \in RequestPC
         /\ request[q].job \in Jobs \cup {NoJob}
         /\ request[q].tries \in 0 .. MaxClaimAttempts
  BY DEF RequestsOK, RequestRow

(* One request gets a new row.                                             *)
LEMMA RequestReplaced ==
  ASSUME RequestsOK, NEW q \in Requests, NEW row \in RequestRow,
         row.pc \in AboutJob => row.job \in Jobs,
         request' = [request EXCEPT ![q] = row]
  PROVE  RequestsOK'
  BY DEF RequestsOK

LEMMA StepKeepsRequests ==
  ASSUME RequestsOK, NEW q \in Requests, NEW pc \in RequestPC, Step(q, pc),
         pc \in AboutJob => request[q].pc \in AboutJob
  PROVE  RequestsOK'
  <1>1. [request[q] EXCEPT !.pc = pc] \in RequestRow
    BY DEF RequestsOK, RequestRow
  <1>2. [request[q] EXCEPT !.pc = pc].pc = pc /\ [request[q] EXCEPT !.pc = pc].job = request[q].job
    BY DEF RequestsOK, RequestRow
  <1>3. request' = [request EXCEPT ![q] = [request[q] EXCEPT !.pc = pc]]
    BY DEF Step
  <1> QED
    BY <1>1, <1>2, <1>3, RequestReplaced DEF RequestsOK

LEMMA FinishKeepsRequests ==
  ASSUME RequestsOK, NEW q \in Requests, Finish(q)
  PROVE  RequestsOK'
  <1>1. Free \in RequestRow /\ Free.pc \notin AboutJob
    BY DEF Free, RequestRow, RequestPC, MaxClaimAttempts, AboutJob
  <1> QED
    BY <1>1, RequestReplaced DEF Finish

LEMMA SendKeepsRequests ==
  ASSUME RequestsOK, NEW w \in Workers, NEW q \in Requests, NEW pc, NEW serve \in RequestPC,
         NEW job \in Jobs \cup {NoJob}, serve \in AboutJob => job \in Jobs,
         SendRequest(w, q, job, pc, serve)
  PROVE  RequestsOK'
  <1> DEFINE row == [pc |-> serve, job |-> job, tries |-> 0]
  <1>1. row \in RequestRow /\ row.pc = serve /\ row.job = job
    BY DEF RequestRow, MaxClaimAttempts
  <1>2. request' = [request EXCEPT ![q] = row]
    BY DEF SendRequest
  <1> HIDE DEF row
  <1> QED
    BY <1>1, <1>2, RequestReplaced

LEMMA ServeRequests ==
  ASSUME RequestsOK, NEW q \in Requests, Serve(q)
  PROVE  RequestsOK'
  <1>1. CASE ClaimSweeps(q)
    BY <1>1, StepKeepsRequests DEF ClaimSweeps, AboutJob, RequestPC
  <1>2. CASE ClaimLooks(q)
    BY <1>2, StepKeepsRequests, FinishKeepsRequests DEF ClaimLooks, Conclude, AboutJob, RequestPC
  <1>3. CASE ClaimPicks(q)
    <2>1. CASE Finish(q)
      BY <2>1, FinishKeepsRequests
    <2>2. ASSUME NEW j \in Jobs, request' = [request EXCEPT ![q].pc = "write", ![q].job = j]
          PROVE  RequestsOK'
      <3> DEFINE row == [request[q] EXCEPT !.pc = "write", !.job = j]
      <3>1. row \in RequestRow /\ row.job = j
        BY DEF RequestsOK, RequestRow, RequestPC
      <3>2. request' = [request EXCEPT ![q] = row]
        BY <2>2
      <3> HIDE DEF row
      <3> QED
        BY <3>1, <3>2, RequestReplaced
    <2> QED
      BY <1>3, <2>1, <2>2 DEF ClaimPicks, Conclude
  <1>4. CASE ClaimWrites(q)
    <2> DEFINE row == [pc |-> "active", job |-> NoJob, tries |-> request[q].tries + 1]
    <2>1. CASE Finish(q)
      BY <2>1, FinishKeepsRequests
    <2>2. CASE request[q].tries + 1 < MaxClaimAttempts /\ request' = [request EXCEPT ![q] = row]
      <3>1. row \in RequestRow /\ row.pc \notin AboutJob
        BY <2>2, RequestFields DEF RequestRow, RequestPC, MaxClaimAttempts, AboutJob
      <3> HIDE DEF row
      <3> QED
        BY <2>2, <3>1, RequestReplaced
    <2> QED
      BY <1>4, <2>1, <2>2 DEF ClaimWrites, Conclude
  <1>5. CASE UploadChecks(q) \/ MarkReads(q) \/ MarkRequeues(q) \/ MarkUploads(q)
    <2>1. CASE Finish(q)
      BY <2>1, FinishKeepsRequests
    <2>2. ASSUME NEW pc \in {"mark", "requeue", "upload", "process"}, Step(q, pc)
          PROVE  RequestsOK'
      <3>1. request[q].pc \in AboutJob
        BY <1>5 DEF UploadChecks, MarkReads, MarkRequeues, MarkUploads, Serving, AboutJob
      <3> QED
        BY <2>2, <3>1, StepKeepsRequests DEF RequestPC
    <2> QED
      BY <1>5, <2>1, <2>2 DEF UploadChecks, MarkReads, MarkRequeues, MarkUploads, Acknowledge, Conclude
  <1>6. CASE ClaimForProcessing(q)
    BY <1>6, StepKeepsRequests, FinishKeepsRequests DEF ClaimForProcessing, Serving, AboutJob, RequestPC
  <1>7. CASE EndAnalysis(q)
    BY <1>7, FinishKeepsRequests DEF EndAnalysis
  <1> QED
    BY <1>1, <1>2, <1>3, <1>4, <1>5, <1>6, <1>7 DEF Serve

---------------------------------------------------------------------------
(* Workers: each is of its type, one that has a job knows which, and one   *)
(* that is not waiting gets no answer.                                     *)
Heard == {"nothing", "job", "empty", "ok", "conflict", "error"}
WorkerRow ==
    [pc : WorkerPC, job : Jobs \cup {NoJob}, waits : Requests \cup {NoRequest}, heard : Heard]
WithJob == {"capture", "photo", "send", "report"}
WorkerOK(row) ==
    /\ row \in WorkerRow
    /\ row.pc \in WithJob => row.job \in Jobs /\ row.waits = NoRequest
    /\ row.heard \in {"job", "ok"} => row.job \in Jobs
WorkersOK ==
    /\ worker = [w \in Workers |-> worker[w]]
    /\ \A w \in Workers : WorkerOK(worker[w])

LEMMA WorkerReplaced ==
  ASSUME WorkersOK, NEW w \in Workers, NEW row, WorkerOK(row),
         worker' = [worker EXCEPT ![w] = row]
  PROVE  WorkersOK'
  BY DEF WorkersOK

LEMMA GotoKeepsWorkers ==
  ASSUME WorkersOK, NEW w \in Workers, NEW pc \in WorkerPC, Goto(w, pc),
         pc \in WithJob => worker[w].pc \in WithJob
  PROVE  WorkersOK'
  <1> DEFINE row == [worker[w] EXCEPT !.pc = pc]
  <1>1. row \in WorkerRow /\ row.pc = pc /\ row.job = worker[w].job
        /\ row.waits = worker[w].waits /\ row.heard = worker[w].heard
    BY DEF WorkersOK, WorkerOK, WorkerRow
  <1>2. worker' = [worker EXCEPT ![w] = row]
    BY DEF Goto
  <1> HIDE DEF row
  <1>3. WorkerOK(row)
    BY <1>1 DEF WorkersOK, WorkerOK
  <1> QED
    BY <1>2, <1>3, WorkerReplaced

LEMMA GoesOnKeepsWorkers ==
  ASSUME WorkersOK, NEW w \in Workers, NEW pc \in WorkerPC, NEW job \in Jobs \cup {NoJob},
         GoesOn(w, pc, job), pc \in WithJob => job \in Jobs
  PROVE  WorkersOK'
  <1> DEFINE row == [pc |-> pc, job |-> job, waits |-> NoRequest, heard |-> "nothing"]
  <1>1. WorkerOK(row)
    BY DEF WorkerOK, WorkerRow, Heard
  <1> QED
    BY <1>1, WorkerReplaced DEF GoesOn

LEMMA SendKeepsWorkers ==
  ASSUME WorkersOK, NEW w \in Workers, NEW q \in Requests, NEW pc \in WorkerPC \ WithJob,
         NEW serve, NEW job \in Jobs \cup {NoJob}, SendRequest(w, q, job, pc, serve)
  PROVE  WorkersOK'
  <1> DEFINE row == [pc |-> pc, job |-> job, waits |-> q, heard |-> "nothing"]
  <1>1. WorkerOK(row)
    BY DEF WorkerOK, WorkerRow, Heard
  <1> QED
    BY <1>1, WorkerReplaced DEF SendRequest

(* An answer reaches those who wait for it, none of whom has a job at hand.*)
LEMMA AnswerKeepsWorkers ==
  ASSUME WorkersOK, NEW q \in Requests, NEW what \in Heard, NEW j \in Jobs \cup {NoJob},
         Answer(q, what, j), what \in {"job", "ok"} => j \in Jobs
  PROVE  WorkersOK'
  <1>1. ASSUME NEW w \in Workers, worker[w].waits = q
        PROVE  WorkerOK([worker[w] EXCEPT !.waits = NoRequest, !.heard = what, !.job = j])
    <2> DEFINE row == [worker[w] EXCEPT !.waits = NoRequest, !.heard = what, !.job = j]
    <2>1. row \in WorkerRow /\ row.pc = worker[w].pc /\ row.job = j /\ row.heard = what
      BY DEF WorkersOK, WorkerOK, WorkerRow
    <2>2. worker[w].pc \notin WithJob
      BY <1>1, QueueAssumption DEF WorkersOK, WorkerOK
    <2> HIDE DEF row
    <2>3. WorkerOK(row)
      BY <2>1, <2>2 DEF WorkerOK
    <2> QED
      BY <2>3 DEF row
  <1>2. \A w \in Workers : WorkerOK(worker'[w])
    BY <1>1 DEF Answer, WorkersOK
  <1>3. worker' = [w \in Workers |-> worker'[w]]
    BY DEF Answer
  <1> QED
    BY <1>2, <1>3 DEF WorkersOK

LEMMA WorkerFields ==
  ASSUME WorkersOK, NEW w \in Workers
  PROVE  /\ worker[w].pc \in WorkerPC
         /\ worker[w].job \in Jobs \cup {NoJob}
         /\ worker[w].pc \in WithJob => worker[w].job \in Jobs
         /\ worker[w].heard \in {"job", "ok"} => worker[w].job \in Jobs
  BY DEF WorkersOK, WorkerOK, WorkerRow

LEMMA ServeWorkers ==
  ASSUME RequestsOK, WorkersOK, NEW q \in Requests, Serve(q) \/ RequestDies(q)
  PROVE  WorkersOK'
  <1> DEFINE j == request[q].job
  <1>1. j \in Jobs \cup {NoJob}
    BY RequestFields
  <1>2. CASE UNCHANGED worker
    BY <1>2 DEF WorkersOK
  <1>3. ASSUME NEW what \in {"empty", "conflict", "error"}, Answer(q, what, j)
        PROVE  WorkersOK'
    BY <1>1, <1>3, AnswerKeepsWorkers DEF Heard
  <1>4. ASSUME NEW what \in {"job", "ok"}, Answer(q, what, j), request[q].pc \in AboutJob
        PROVE  WorkersOK'
    BY <1>1, <1>4, AnswerKeepsWorkers DEF Heard, RequestsOK
  <1>5. CASE ClaimSweeps(q) \/ ClaimForProcessing(q) \/ EndAnalysis(q)
    BY <1>2, <1>5 DEF ClaimSweeps, ClaimForProcessing, EndAnalysis
  <1>6. CASE ClaimLooks(q) \/ ClaimPicks(q) \/ RequestDies(q) \/ MarkRequeues(q)
    BY <1>2, <1>3, <1>6 DEF ClaimLooks, ClaimPicks, RequestDies, MarkRequeues, Conclude
  <1>7. CASE ClaimWrites(q)
    BY <1>2, <1>3, <1>4, <1>7 DEF ClaimWrites, Conclude, Serving, AboutJob
  <1>8. CASE UploadChecks(q) \/ MarkReads(q) \/ MarkUploads(q)
    BY <1>2, <1>3, <1>4, <1>8
    DEF UploadChecks, MarkReads, MarkUploads, Acknowledge, Conclude, Serving, AboutJob
  <1> QED
    BY <1>5, <1>6, <1>7, <1>8 DEF Serve

WorkerStep(w) == Work(w) \/ CaptureFails(w) \/ RenewDeviceLease(w) \/ GiveUp(w) \/ Crash(w)

LEMMA WorkWorkers ==
  ASSUME WorkersOK, NEW w \in Workers, WorkerStep(w)
  PROVE  WorkersOK'
  <1>1. worker[w].job \in Jobs \cup {NoJob}
    BY WorkerFields
  <1>2. CASE Start(w) \/ Wake(w) \/ SpoolIsEmpty(w)
    BY <1>2, GotoKeepsWorkers DEF Start, Wake, SpoolIsEmpty, WithJob, WorkerPC
  <1>3. CASE HearJob(w)
    <2>1. CASE worker[w].heard = "job" /\ GoesOn(w, "capture", worker[w].job)
      BY <2>1, WorkerFields, GoesOnKeepsWorkers DEF WorkerPC
    <2>2. CASE GoesOn(w, "idle", NoJob)
      BY <2>2, GoesOnKeepsWorkers DEF WorkerPC, WithJob
    <2> QED
      BY <1>3, <2>1, <2>2 DEF HearJob
  <1>4. CASE HearResent(w) \/ HearUploaded(w) \/ HearFailure(w) \/ Report(w)
    <2>1. ASSUME NEW pc \in {"spool", "next", "idle"}, GoesOn(w, pc, NoJob)
          PROVE  WorkersOK'
      BY <2>1, GoesOnKeepsWorkers DEF WorkerPC, WithJob
    <2> QED
      BY <1>4, <2>1 DEF HearResent, HearUploaded, HearFailure, Report
  <1>5. CASE Capture(w)
    <2>1. CASE GoesOn(w, "idle", NoJob)
      BY <2>1, GoesOnKeepsWorkers DEF WorkerPC, WithJob
    <2>2. ASSUME NEW pc \in {"send", "photo"}, Goto(w, pc)
          PROVE  WorkersOK'
      BY <1>5, <2>2, GotoKeepsWorkers DEF Capture, At, WorkerPC, WithJob
    <2> QED
      BY <1>5, <2>1, <2>2 DEF Capture
  <1>6. CASE SaveMetadata(w) \/ CaptureFails(w)
    BY <1>6, GotoKeepsWorkers DEF SaveMetadata, CaptureFails, At, WorkerPC, WithJob
  <1>7. CASE \E q \in Requests : Ask(w, q) \/ Send(w, q) \/ \E j \in Jobs : Resend(w, q, j)
    <2>1. ASSUME NEW q \in Requests, NEW job \in Jobs \cup {NoJob}, NEW serve,
                 NEW pc \in {"asking", "sending", "resending"}, SendRequest(w, q, job, pc, serve)
          PROVE  WorkersOK'
      BY <2>1, SendKeepsWorkers DEF WorkerPC, WithJob
    <2> QED
      BY <1>1, <1>7, <2>1 DEF Ask, Send, Resend
  <1>8. CASE GiveUp(w)
    <2> DEFINE row == [worker[w] EXCEPT !.waits = NoRequest, !.heard = "error"]
    <2>1. row \in WorkerRow /\ row.pc = worker[w].pc /\ row.job = worker[w].job
          /\ row.waits = NoRequest /\ row.heard = "error"
      BY DEF WorkersOK, WorkerOK, WorkerRow, Heard
    <2>2. worker' = [worker EXCEPT ![w] = row]
      BY <1>8 DEF GiveUp
    <2> HIDE DEF row
    <2>3. WorkerOK(row)
      BY <2>1 DEF WorkersOK, WorkerOK
    <2> QED
      BY <2>2, <2>3, WorkerReplaced
  <1>9. CASE Crash(w)
    <2>1. WorkerOK(Stopped)
      BY DEF Stopped, WorkerOK, WorkerRow, WorkerPC, WithJob, Heard
    <2> QED
      BY <1>9, <2>1, WorkerReplaced DEF Crash
  <1>10. CASE RenewDeviceLease(w)
    BY <1>10 DEF RenewDeviceLease, WorkersOK
  <1> QED
    BY <1>2, <1>3, <1>4, <1>5, <1>6, <1>7, <1>8, <1>9, <1>10 DEF WorkerStep, Work

LEMMA WorkRequests ==
  ASSUME RequestsOK, WorkersOK, NEW w \in Workers, WorkerStep(w)
  PROVE  RequestsOK'
  <1>1. CASE \E q \in Requests : Ask(w, q)
    BY <1>1, SendKeepsRequests DEF Ask, RequestPC, AboutJob
  <1>2. CASE \E q \in Requests : Send(w, q)
    <2>1. At(w, "send") => worker[w].job \in Jobs
      BY WorkerFields DEF At, WithJob
    <2> QED
      BY <1>2, <2>1, SendKeepsRequests DEF Send, RequestPC
  <1>3. CASE \E q \in Requests, j \in Jobs : Resend(w, q, j)
    BY <1>3, SendKeepsRequests DEF Resend, RequestPC
  <1>4. CASE UNCHANGED request
    BY <1>4 DEF RequestsOK
  <1> QED
    BY <1>1, <1>2, <1>3, <1>4
    DEF WorkerStep, Work, Start, Wake, SpoolIsEmpty, HearJob, HearResent, HearUploaded, HearFailure,
        Capture, SaveMetadata, CaptureFails, Report, RenewDeviceLease, GiveUp, Crash

(* Requests and workers are typed, whatever happens.                       *)
LEMMA NextRows ==
  ASSUME RequestsOK, WorkersOK, [Next]_vars
  PROVE  RequestsOK' /\ WorkersOK'
  <1>1. CASE UNCHANGED <<request, worker>>
    BY <1>1 DEF RequestsOK, WorkersOK
  <1>2. CASE \E j \in Jobs : CreateJob(j) \/ Supersede(j) \/ Lapse(j)
    BY <1>1, <1>2 DEF CreateJob, Supersede, Lapse
  <1>3. CASE BrowserPoll \/ (\E q \in Requests : RenewProcessingLease(q)) \/ UNCHANGED vars
    BY <1>1, <1>3 DEF BrowserPoll, RenewProcessingLease, vars
  <1>4. CASE \E q \in Requests : Serve(q)
    BY <1>4, ServeRequests, ServeWorkers
  <1>5. CASE \E q \in Requests : RequestDies(q)
    BY <1>5, FinishKeepsRequests, ServeWorkers DEF RequestDies, Conclude
  <1>6. CASE \E w \in Workers : WorkerStep(w)
    BY <1>6, WorkRequests, WorkWorkers
  <1> QED
    BY <1>2, <1>3, <1>4, <1>5, <1>6 DEF Next, WorkerStep

LEMMA InitRows == Init => RequestsOK /\ WorkersOK
  <1>1. Free \in RequestRow /\ Free.pc \notin AboutJob
    BY DEF Free, RequestRow, RequestPC, MaxClaimAttempts, AboutJob
  <1>2. WorkerOK(Stopped)
    BY DEF Stopped, WorkerOK, WorkerRow, WorkerPC, WithJob, Heard
  <1> QED
    BY <1>1, <1>2 DEF Init, RequestsOK, WorkersOK

---------------------------------------------------------------------------
(* Type correctness.                                                       *)
SetsOK ==
    /\ over \subseteq Jobs
    /\ spool \in SUBSET (Workers \X Jobs) /\ torn \in SUBSET (Workers \X Jobs)
    /\ safe \subseteq Watched /\ requeued \subseteq Watched
NumbersOK == faults \in 0 .. MaxFaults /\ analyses \in [Watched -> Nat]

Typing == StatusTyped /\ RequestsOK /\ WorkersOK /\ SetsOK /\ NumbersOK

LEMMA FaultType ==
  ASSUME faults \in 0 .. MaxFaults, Fault \/ UNCHANGED faults
  PROVE  faults' \in 0 .. MaxFaults
  BY QueueAssumption DEF Fault

LEMMA NextNumbers ==
  ASSUME NumbersOK, [Next]_vars
  PROVE  NumbersOK'
  <1>1. Fault \/ UNCHANGED faults
    <2>1. ASSUME NEW q \in Requests, Serve(q) \/ RenewProcessingLease(q) \/ RequestDies(q)
          PROVE  Fault \/ UNCHANGED faults
      BY <2>1 DEF Serve, ClaimSweeps, Sweep, ClaimLooks, ClaimPicks, ClaimWrites, UploadChecks,
                  MarkReads, MarkRequeues, MarkUploads, ClaimForProcessing, EndAnalysis,
                  RenewProcessingLease, RequestDies
    <2>2. ASSUME NEW w \in Workers, WorkerStep(w)
          PROVE  Fault \/ UNCHANGED faults
      BY <2>2 DEF WorkerStep, Work, Start, Wake, SpoolIsEmpty, HearJob, HearResent, HearUploaded,
                  HearFailure, Capture, SaveMetadata, Ask, Send, Resend, SendRequest, CaptureFails,
                  Report, RenewDeviceLease, GiveUp, Crash
    <2>3. ASSUME (\E j \in Jobs : CreateJob(j) \/ Supersede(j) \/ Lapse(j)) \/ BrowserPoll \/ UNCHANGED vars
          PROVE  Fault \/ UNCHANGED faults
      BY <2>3 DEF CreateJob, Supersede, Lapse, BrowserPoll, Sweep, vars
    <2> QED
      BY <2>1, <2>2, <2>3 DEF Next, WorkerStep
  <1>2. analyses' \in [Watched -> Nat]
    <2>1. CASE UNCHANGED analyses
      BY <2>1 DEF NumbersOK
    <2>2. ASSUME NEW j, Analysed(j)
          PROVE  analyses' \in [Watched -> Nat]
      BY <2>2 DEF Analysed, NumbersOK
    <2>3. UNCHANGED analyses \/ \E j : Analysed(j)
      BY NextAnalyses DEF ClaimForProcessing, vars, history
    <2> QED
      BY <2>1, <2>2, <2>3
  <1> QED
    BY <1>1, <1>2, FaultType DEF NumbersOK

LEMMA SweepSets ==
  ASSUME SetsOK, Sweep
  PROVE  SetsOK'
  BY QueueAssumption DEF SetsOK, Sweep

LEMMA NextSets ==
  ASSUME WorkersOK, SetsOK, [Next]_vars
  PROVE  SetsOK'
  <1>1. ASSUME NEW q \in Requests, Serve(q) \/ RenewProcessingLease(q) \/ RequestDies(q)
        PROVE  SetsOK'
    <2>1. CASE ClaimSweeps(q)
      BY <2>1, SweepSets DEF ClaimSweeps
    <2>2. CASE MarkRequeues(q)
      BY <2>2 DEF MarkRequeues, SetStatus, SetsOK
    <2>3. CASE ~ClaimSweeps(q) /\ ~MarkRequeues(q)
      <3>1. over' \subseteq over /\ UNCHANGED <<spool, torn, safe, requeued>>
        BY <1>1, <2>3
        DEF Serve, ClaimLooks, ClaimPicks, ClaimWrites, UploadChecks, MarkReads, MarkUploads,
            ClaimForProcessing, EndAnalysis, RenewProcessingLease, RequestDies, SetStatus, history
      <3> QED
        BY <3>1 DEF SetsOK
    <2> QED
      BY <2>1, <2>2, <2>3
  <1>2. ASSUME NEW w \in Workers, WorkerStep(w)
        PROVE  SetsOK'
    <2>1. over' \subseteq over /\ safe' \subseteq safe \cup Watched /\ UNCHANGED requeued
      BY <1>2
      DEF WorkerStep, Work, Start, Wake, SpoolIsEmpty, HearJob, HearResent, HearUploaded,
          HearFailure, Capture, SaveMetadata, Ask, Send, Resend, SendRequest, CaptureFails,
          Report, RenewDeviceLease, GiveUp, Crash, SetStatus, history
    <2>2. CASE Capture(w) \/ SaveMetadata(w)
      <3>1. worker[w].job \in Jobs
        BY <2>2, WorkerFields DEF Capture, SaveMetadata, At, WithJob
      <3>2. spool' \in SUBSET (Workers \X Jobs) /\ torn' \in SUBSET (Workers \X Jobs)
        BY <2>2, <3>1 DEF Capture, SaveMetadata, SetsOK
      <3> QED
        BY <2>1, <3>2 DEF SetsOK
    <2>3. CASE ~Capture(w) /\ ~SaveMetadata(w)
      <3>1. spool' \subseteq spool /\ UNCHANGED torn
        BY <1>2, <2>3
        DEF WorkerStep, Work, Start, Wake, SpoolIsEmpty, HearJob, HearResent, HearUploaded,
            HearFailure, Ask, Send, Resend, SendRequest, CaptureFails, Report, RenewDeviceLease,
            GiveUp, Crash
      <3> QED
        BY <2>1, <3>1 DEF SetsOK
    <2> QED
      BY <2>2, <2>3
  <1>3. ASSUME NEW j \in Jobs, CreateJob(j) \/ Supersede(j) \/ Lapse(j)
        PROVE  SetsOK'
    BY <1>3 DEF CreateJob, Supersede, Lapse, SetStatus, SetsOK, history
  <1>4. ASSUME BrowserPoll \/ UNCHANGED vars PROVE SetsOK'
    BY <1>4, SweepSets DEF BrowserPoll, vars, history, SetsOK
  <1> QED
    BY <1>1, <1>2, <1>3, <1>4 DEF Next, WorkerStep

LEMMA InitTyping == Init => Typing
  <1> SUFFICES ASSUME Init PROVE Typing
    OBVIOUS
  <1>1. SetsOK
    BY DEF Init, SetsOK
  <1>2. NumbersOK
    BY QueueAssumption DEF Init, NumbersOK
  <1> QED
    BY <1>1, <1>2, InitStatus, InitRows DEF Typing

LEMMA NextTyping == Typing /\ [Next]_vars => Typing'
  BY NextStatusTyped, NextRows, NextSets, NextNumbers DEF Typing

(* Every row, set and counter of the queue has its declared type.          *)
THEOREM TypeCorrect == Spec => []TypeOK
  <1>1. Typing => TypeOK
    <2> SUFFICES ASSUME Typing PROVE TypeOK
      OBVIOUS
    <2>1. worker \in [Workers -> WorkerRow]
      BY DEF Typing, WorkersOK, WorkerOK
    <2>2. request \in [Requests -> RequestRow]
      BY DEF Typing, RequestsOK
    <2> QED
      BY <2>1, <2>2
      DEF Typing, TypeOK, StatusTyped, Status, SetsOK, NumbersOK, RequestRow, WorkerRow, Heard
  <1> QED
    BY <1>1, InitTyping, NextTyping, PTL DEF Spec

---------------------------------------------------------------------------
(* Acknowledged photos.  A job that a worker was told is stored, or is     *)
(* about to be told, has left the queue for good.                          *)
Settled == Uploaded \cup Ended
Acknowledged ==
    /\ \A j \in safe : status[j] \in Settled
    /\ \A w \in Workers : worker[w].heard = "ok" => status[worker[w].job] \in Settled

(* What has left the queue stays out of it.                                *)
LEMMA SettledStays ==
  ASSUME StatusStep, NEW j \in Jobs, status[j] \in Settled
  PROVE  status'[j] \in Settled
  BY DEF StatusStep, Follows, Settled, Uploaded, Ended

LEMMA NextSettled ==
  ASSUME Typing, [Next]_vars
  PROVE  \A j \in Jobs : status[j] \in Settled => status'[j] \in Settled
  BY NextStatus, SettledStays DEF Typing, StatusTyped

(* The server says "ok" only of a job that has left the queue.             *)
LEMMA OkIsSettled ==
  ASSUME Typing, NEW q \in Requests, Serve(q) \/ RequestDies(q), NEW w \in Workers,
         worker'[w].heard = "ok"
  PROVE  \/ worker[w].heard = "ok" /\ worker'[w].job = worker[w].job
         \/ worker'[w].job = request[q].job /\ status'[request[q].job] \in Settled
  <1> DEFINE j == request[q].job
  <1>1. CASE UNCHANGED worker
    BY <1>1
  <1>2. ASSUME NEW what \in {"job", "empty", "conflict", "error"}, Answer(q, what, j)
        PROVE  worker[w].heard = "ok" /\ worker'[w].job = worker[w].job
    <2>1. worker[w].waits # q
      <3> SUFFICES ASSUME worker[w].waits = q PROVE FALSE
        OBVIOUS
      <3>1. worker'[w] = [worker[w] EXCEPT !.waits = NoRequest, !.heard = what, !.job = j]
        BY <1>2 DEF Answer
      <3>2. worker[w] \in WorkerRow
        BY DEF Typing, WorkersOK, WorkerOK
      <3>3. worker'[w].heard = what
        BY <3>1, <3>2 DEF WorkerRow
      <3> QED
        BY <3>3
    <2> QED
      BY <1>2, <2>1 DEF Answer
  <1>3. ASSUME Answer(q, "ok", j), status'[j] \in Settled
        PROVE  \/ worker[w].heard = "ok" /\ worker'[w].job = worker[w].job
               \/ worker'[w].job = j /\ status'[j] \in Settled
    <2>1. CASE worker[w].waits = q
      <3>1. worker'[w] = [worker[w] EXCEPT !.waits = NoRequest, !.heard = "ok", !.job = j]
        BY <1>3, <2>1 DEF Answer
      <3>2. worker[w] \in WorkerRow
        BY DEF Typing, WorkersOK, WorkerOK
      <3>3. worker'[w].job = j
        BY <3>1, <3>2 DEF WorkerRow
      <3> QED
        BY <1>3, <3>3
    <2>2. CASE worker[w].waits # q
      BY <1>3, <2>2 DEF Answer
    <2> QED
      BY <2>1, <2>2
  <1>4. CASE ClaimSweeps(q) \/ ClaimForProcessing(q) \/ EndAnalysis(q)
    BY <1>1, <1>4 DEF ClaimSweeps, ClaimForProcessing, EndAnalysis
  <1>5. CASE ClaimLooks(q) \/ ClaimPicks(q) \/ ClaimWrites(q) \/ RequestDies(q) \/ MarkRequeues(q)
    BY <1>1, <1>2, <1>5 DEF ClaimLooks, ClaimPicks, ClaimWrites, RequestDies, MarkRequeues, Conclude
  <1>6. CASE UploadChecks(q) \/ MarkReads(q)
    <2>1. UNCHANGED status
      BY <1>6 DEF UploadChecks, MarkReads
    <2>2. Answer(q, "ok", j) => status[j] \in Settled \/ UNCHANGED worker
             \/ \E what \in {"conflict"} : Answer(q, what, j)
      BY <1>6 DEF UploadChecks, MarkReads, Conclude, Acknowledge, Settled, Uploaded
    <2>3. UNCHANGED worker \/ Answer(q, "conflict", j) \/ Answer(q, "ok", j)
      BY <1>6 DEF UploadChecks, MarkReads, Conclude, Acknowledge
    <2> QED
      BY <1>1, <1>2, <1>3, <2>1, <2>2, <2>3
  <1>7. CASE MarkUploads(q)
    <2>1. j \in Jobs
      BY <1>7 DEF MarkUploads, Serving, AboutJob, Typing, RequestsOK
    <2>2. CASE status[j] = "CLAIMED" /\ SetStatus(j, "UPLOADED") /\ Acknowledge(q)
      <3>1. status'[j] \in Settled
        BY <2>1, <2>2 DEF SetStatus, Typing, StatusTyped, Settled, Uploaded
      <3> QED
        BY <1>3, <2>2, <3>1 DEF Acknowledge
    <2>3. CASE status[j] \in Uploaded /\ Acknowledge(q) /\ UNCHANGED status
      BY <1>3, <2>3 DEF Acknowledge, Settled
    <2>4. CASE Conclude(q, "conflict")
      BY <1>2, <2>4 DEF Conclude
    <2> QED
      BY <1>7, <2>2, <2>3, <2>4 DEF MarkUploads
  <1> QED
    BY <1>4, <1>5, <1>6, <1>7 DEF Serve

(* A worker's own step gives it no "ok" it has not heard.                  *)
LEMMA WorkerHearsNothing ==
  ASSUME WorkersOK, NEW v \in Workers, WorkerStep(v), NEW w \in Workers, worker'[w].heard = "ok"
  PROVE  worker[w].heard = "ok" /\ worker'[w].job = worker[w].job
  <1>1. CASE w # v
    <2>1. worker'[w] = worker[w]
      BY <1>1 DEF WorkersOK, WorkerStep, Work, Start, Wake, SpoolIsEmpty, HearJob, HearResent,
                  HearUploaded, HearFailure, Capture, SaveMetadata, Ask, Send, Resend, SendRequest,
                  CaptureFails, Report, RenewDeviceLease, GiveUp, Crash, Goto, GoesOn
    <2> QED
      BY <2>1
  <1>2. CASE w = v
    <2>1. worker[w] \in WorkerRow /\ worker = [x \in Workers |-> worker[x]]
      BY DEF WorkersOK, WorkerOK
    <2>2. ASSUME NEW pc, Goto(w, pc)
          PROVE  worker[w].heard = "ok" /\ worker'[w].job = worker[w].job
      BY <2>1, <2>2 DEF Goto, WorkerRow
    <2>3. ASSUME NEW pc, NEW job, GoesOn(w, pc, job)
          PROVE  FALSE
      BY <2>1, <2>3 DEF GoesOn
    <2>4. ASSUME NEW q, NEW job, NEW pc, NEW serve, SendRequest(w, q, job, pc, serve)
          PROVE  FALSE
      BY <2>1, <2>4 DEF SendRequest
    <2>5. CASE Start(w) \/ Wake(w) \/ SpoolIsEmpty(w) \/ SaveMetadata(w) \/ CaptureFails(w)
      BY <2>2, <2>5 DEF Start, Wake, SpoolIsEmpty, SaveMetadata, CaptureFails
    <2>6. CASE HearJob(w) \/ HearResent(w) \/ HearUploaded(w) \/ HearFailure(w) \/ Report(w)
      BY <2>3, <2>6 DEF HearJob, HearResent, HearUploaded, HearFailure, Report
    <2>7. CASE Capture(w)
      BY <2>2, <2>3, <2>7 DEF Capture
    <2>8. CASE \E q \in Requests : Ask(w, q) \/ Send(w, q) \/ \E j \in Jobs : Resend(w, q, j)
      BY <2>4, <2>8 DEF Ask, Send, Resend
    <2>9. CASE GiveUp(w) \/ Crash(w)
      <3>1. CASE GiveUp(w)
        BY <2>1, <3>1 DEF GiveUp, WorkerRow
      <3>2. CASE Crash(w)
        <4>1. worker' = [x \in Workers |-> IF x = w THEN Stopped ELSE worker[x]]
          BY <2>1, <3>2 DEF Crash
        <4>2. worker'[w].heard = "nothing"
          BY <4>1 DEF Stopped
        <4> QED
          BY <4>2
      <3> QED
        BY <2>9, <3>1, <3>2
    <2>10. CASE RenewDeviceLease(w)
      BY <2>10 DEF RenewDeviceLease
    <2> QED
      BY <1>2, <2>5, <2>6, <2>7, <2>8, <2>9, <2>10 DEF WorkerStep, Work
  <1> QED
    BY <1>1, <1>2

(* Jobs are added to safe by a worker that has heard "ok" of them.         *)
LEMMA SafeWasHeard ==
  ASSUME [Next]_vars, NEW j \in safe', j \notin safe
  PROVE  \E w \in Workers : worker[w].heard = "ok" /\ worker[w].job = j
  <1>1. ASSUME NEW w \in Workers, WorkerStep(w)
        PROVE  worker[w].heard = "ok" /\ worker[w].job = j
    BY <1>1 DEF WorkerStep, Work, Start, Wake, SpoolIsEmpty, HearJob, HearResent,
                HearUploaded, HearFailure, Hears, Capture, SaveMetadata, Ask, Send, Resend,
                SendRequest, CaptureFails, Report, RenewDeviceLease, GiveUp, Crash, history
  <1>2. ASSUME NEW q \in Requests, Serve(q) \/ RenewProcessingLease(q) \/ RequestDies(q)
        PROVE  UNCHANGED safe
    BY <1>2 DEF Serve, ClaimSweeps, Sweep, ClaimLooks, ClaimPicks, ClaimWrites, UploadChecks,
                MarkReads, MarkRequeues, MarkUploads, ClaimForProcessing, EndAnalysis,
                RenewProcessingLease, RequestDies, history
  <1>3. ASSUME (\E i \in Jobs : CreateJob(i) \/ Supersede(i) \/ Lapse(i)) \/ BrowserPoll \/ UNCHANGED vars
        PROVE  UNCHANGED safe
    BY <1>3 DEF CreateJob, Supersede, Lapse, BrowserPoll, Sweep, vars, history
  <1> QED
    BY <1>1, <1>2, <1>3 DEF Next, WorkerStep

LEMMA NextAcknowledged == Typing /\ Acknowledged /\ [Next]_vars => Acknowledged'
  <1> SUFFICES ASSUME Typing, Acknowledged, [Next]_vars PROVE Acknowledged'
    OBVIOUS
  <1>1. \A j \in Jobs : status[j] \in Settled => status'[j] \in Settled
    BY NextSettled
  <1>2. \A w \in Workers : worker[w].heard = "ok" => worker[w].job \in Jobs
    BY WorkerFields DEF Typing
  <1>3. ASSUME NEW j \in safe'
        PROVE  status'[j] \in Settled
    <2>1. CASE j \in safe
      BY <1>1, <2>1, QueueAssumption DEF Acknowledged, Typing, SetsOK
    <2>2. CASE j \notin safe
      BY <1>1, <1>2, <2>2, SafeWasHeard DEF Acknowledged
    <2> QED
      BY <2>1, <2>2
  <1>4. ASSUME NEW w \in Workers, worker'[w].heard = "ok"
        PROVE  status'[worker'[w].job] \in Settled
    <2>1. CASE worker[w].heard = "ok" /\ worker'[w].job = worker[w].job
      BY <1>1, <1>2, <2>1 DEF Acknowledged
    <2>2. CASE \E q \in Requests : Serve(q) \/ RequestDies(q)
      BY <1>4, <2>1, <2>2, OkIsSettled
    <2>3. CASE \E v \in Workers : WorkerStep(v)
      BY <1>4, <2>1, <2>3, WorkerHearsNothing DEF Typing
    <2>4. CASE UNCHANGED worker
      BY <1>4, <2>1, <2>4
    <2>5. \/ \E q \in Requests : Serve(q) \/ RequestDies(q)
          \/ \E v \in Workers : WorkerStep(v)
          \/ UNCHANGED worker
      BY DEF Next, WorkerStep, CreateJob, Supersede, Lapse, BrowserPoll, RenewProcessingLease, vars
    <2> QED
      BY <2>2, <2>3, <2>4, <2>5
  <1> QED
    BY <1>3, <1>4 DEF Acknowledged

(* The worker deletes its photo on the server's word, and is right to:     *)
(* that job never asks for a photo again.                                  *)
THEOREM AcknowledgedPhotoIsKept == Spec => []StoredPhotoIsKept
  <1>1. Init => Acknowledged
    BY DEF Init, Acknowledged, Stopped
  <1>2. Acknowledged => StoredPhotoIsKept
    BY DEF Acknowledged, StoredPhotoIsKept, Settled
  <1> QED
    BY <1>1, <1>2, InitTyping, NextTyping, NextAcknowledged, PTL DEF Spec

---------------------------------------------------------------------------
(* Claims.  An answer reaches the one worker that waits for it, and is     *)
(* about the job it asked for, so one claim makes one holder.              *)
Claiming == {"sweep", "active", "candidate", "write"}
Uploading == {"check", "mark", "requeue", "upload"}

Awaits(row, req) ==
    \/ row.pc = "asking" /\ req.pc \in Claiming
    \/ row.pc \in {"resending", "sending"} /\ req.pc \in Uploading /\ req.job = row.job

AnswersAreAwaited ==
    \A w \in Workers : worker[w].waits # NoRequest =>
      /\ Awaits(worker[w], request[worker[w].waits])
      /\ \A v \in Workers : worker[v].waits = worker[w].waits => v = w

(* A worker that has been given the job, whether it knows it yet or not.   *)
HasClaim(w, j) == Holds(w, j) \/ (At(w, "asking") /\ worker[w].heard = "job" /\ worker[w].job = j)

(* As long as no claim of a job is taken back, the job does not return to  *)
(* the queue, and is given to nobody else.                                 *)
ClaimsAreOwned ==
    \A j \in Watched \ requeued, w \in Workers : HasClaim(w, j) =>
      /\ status[j] \notin {"NONE", "PENDING"}
      /\ \A v \in Workers : HasClaim(v, j) => v = w

LEMMA AnswerAwaits ==
  ASSUME WorkersOK, AnswersAreAwaited, NEW q \in Requests, NEW what, NEW j, Answer(q, what, j),
         \A p \in Requests : p # q => request'[p] = request[p]
  PROVE  AnswersAreAwaited'
  <1>1. ASSUME NEW w \in Workers, worker'[w].waits # NoRequest
        PROVE  worker'[w] = worker[w] /\ worker[w].waits \in Requests \ {q}
    <2>1. worker[w] \in WorkerRow
      BY DEF WorkersOK, WorkerOK
    <2>2. CASE worker[w].waits = q
      BY <1>1, <2>1, <2>2 DEF Answer, WorkerRow
    <2>3. CASE worker[w].waits # q
      BY <1>1, <2>1, <2>3 DEF Answer, WorkerRow
    <2> QED
      BY <2>2, <2>3
  <1> QED
    BY <1>1 DEF AnswersAreAwaited, Awaits

LEMMA StepAwaits ==
  ASSUME AnswersAreAwaited, NEW q \in Requests, UNCHANGED worker, WorkersOK,
         \A p \in Requests : p # q => request'[p] = request[p],
         request[q].pc \in Claiming => request'[q].pc \in Claiming,
         request[q].pc \in Uploading => request'[q].pc \in Uploading /\ request'[q].job = request[q].job
  PROVE  AnswersAreAwaited'
  <1>1. \A w \in Workers : worker[w].waits \in Requests \cup {NoRequest}
    BY DEF WorkersOK, WorkerOK, WorkerRow
  <1> QED
    BY <1>1 DEF AnswersAreAwaited, Awaits

(* What one worker does by itself ends its waiting, if it waited.          *)
LEMMA WorkerAwaits ==
  ASSUME AnswersAreAwaited, NEW w \in Workers, UNCHANGED request,
         \A v \in Workers : v # w => worker'[v] = worker[v],
         worker'[w].waits = NoRequest
  PROVE  AnswersAreAwaited'
  BY DEF AnswersAreAwaited, Awaits

LEMMA SendAwaits ==
  ASSUME RequestsOK, WorkersOK, AnswersAreAwaited, NEW w \in Workers, NEW q \in Requests,
         NEW job, NEW pc, NEW serve, SendRequest(w, q, job, pc, serve),
         \/ pc = "asking" /\ serve \in Claiming
         \/ pc \in {"resending", "sending"} /\ serve \in Uploading
  PROVE  AnswersAreAwaited'
  <1> DEFINE row == [pc |-> pc, job |-> job, waits |-> q, heard |-> "nothing"]
             req == [pc |-> serve, job |-> job, tries |-> 0]
  <1>1. worker' = [v \in Workers |-> IF v = w THEN row ELSE worker[v]]
    BY DEF SendRequest, WorkersOK
  <1>2. request' = [request EXCEPT ![q] = req] /\ request[q].pc = "free"
    BY DEF SendRequest, Serving
  <1>3. \A v \in Workers : worker[v].waits \in Requests \cup {NoRequest} /\ worker[v].waits # q
    BY <1>2, QueueAssumption
    DEF AnswersAreAwaited, Awaits, Claiming, Uploading, WorkersOK, WorkerOK, WorkerRow
  <1>4. \A p \in Requests : request'[p] = IF p = q THEN req ELSE request[p]
    BY <1>2 DEF RequestsOK
  <1>5. Awaits(row, req) /\ row.waits = q
    BY DEF Awaits
  <1> HIDE DEF row, req
  <1> QED
    BY <1>1, <1>3, <1>4, <1>5, QueueAssumption DEF AnswersAreAwaited

LEMMA RequestsTouched ==
  ASSUME RequestsOK, NEW q \in Requests, Serve(q) \/ RequestDies(q)
  PROVE  \A p \in Requests : p # q => request'[p] = request[p]
  BY DEF Serve, ClaimSweeps, ClaimLooks, ClaimPicks, ClaimWrites, UploadChecks, MarkReads,
         MarkRequeues, MarkUploads, ClaimForProcessing, EndAnalysis, RequestDies, Conclude,
         Acknowledge, Step, Finish, RequestsOK

LEMMA ServeAwaits ==
  ASSUME RequestsOK, WorkersOK, AnswersAreAwaited, NEW q \in Requests, Serve(q) \/ RequestDies(q)
  PROVE  AnswersAreAwaited'
  <1>1. \A p \in Requests : p # q => request'[p] = request[p]
    BY RequestsTouched
  <1>2. ASSUME NEW what, Answer(q, what, request[q].job)
        PROVE  AnswersAreAwaited'
    BY <1>1, <1>2, AnswerAwaits
  <1>3. request = [p \in Requests |-> request[p]] /\ request[q] \in RequestRow
    BY DEF RequestsOK
  <1>4. ASSUME NEW pc, Step(q, pc)
        PROVE  request'[q].pc = pc /\ request'[q].job = request[q].job
    BY <1>3, <1>4 DEF Step, RequestRow
  <1>5. CASE ClaimSweeps(q) \/ ClaimLooks(q)
    BY <1>1, <1>2, <1>4, <1>5, StepAwaits
    DEF ClaimSweeps, ClaimLooks, Conclude, Serving, Claiming, Uploading
  <1>6. CASE ClaimPicks(q) \/ ClaimWrites(q)
    <2>1. request[q].pc \in Claiming /\ request[q].pc \notin Uploading
      BY <1>6 DEF ClaimPicks, ClaimWrites, Serving, Claiming, Uploading
    <2>2. ASSUME UNCHANGED worker, request'[q].pc \in Claiming
          PROVE  AnswersAreAwaited'
      BY <1>1, <2>1, <2>2, StepAwaits
    <2>3. ASSUME NEW j, request' = [request EXCEPT ![q].pc = "write", ![q].job = j]
          PROVE  request'[q].pc \in Claiming
      BY <1>3, <2>3 DEF RequestRow, Claiming
    <2>4. ASSUME NEW n, request' = [request EXCEPT ![q] = [pc |-> "active", job |-> NoJob, tries |-> n]]
          PROVE  request'[q].pc \in Claiming
      BY <1>3, <2>4 DEF Claiming
    <2> QED
      BY <1>2, <1>6, <2>2, <2>3, <2>4 DEF ClaimPicks, ClaimWrites, Conclude
  <1>7. CASE UploadChecks(q) \/ MarkReads(q)
    BY <1>1, <1>2, <1>4, <1>7, StepAwaits
    DEF UploadChecks, MarkReads, Conclude, Acknowledge, Serving, Claiming, Uploading
  <1>8. CASE MarkRequeues(q) \/ MarkUploads(q) \/ RequestDies(q)
    BY <1>2, <1>8 DEF MarkRequeues, MarkUploads, RequestDies, Conclude, Acknowledge
  <1>9. CASE ClaimForProcessing(q) \/ EndAnalysis(q)
    <2>1. request[q].pc \notin Claiming \cup Uploading /\ UNCHANGED worker
      BY <1>9 DEF ClaimForProcessing, EndAnalysis, Serving, Claiming, Uploading
    <2> QED
      BY <1>1, <2>1, StepAwaits
  <1> QED
    BY <1>5, <1>6, <1>7, <1>8, <1>9 DEF Serve

(* A worker's step leaves the others alone, ends a wait or begins one, and *)
(* gives the worker no job it has not been given.                          *)
Alone(w) ==
    /\ UNCHANGED request
    /\ \A v \in Workers : v # w => worker'[v] = worker[v]
    /\ worker'[w].waits = NoRequest
    /\ \A j \in Jobs : HasClaim(w, j)' => HasClaim(w, j)

LEMMA GotoAlone ==
  ASSUME WorkersOK, AnswersAreAwaited, NEW w \in Workers, NEW pc, Goto(w, pc), UNCHANGED request,
         worker[w].pc \notin {"asking", "resending", "sending"}, pc # "asking",
         pc \in {"capture", "photo", "send", "sending"} => worker[w].pc \in {"capture", "photo", "send"}
  PROVE  Alone(w)
  <1>1. worker[w] \in WorkerRow /\ worker = [v \in Workers |-> worker[v]]
    BY DEF WorkersOK, WorkerOK
  <1>2. worker[w].waits = NoRequest
    BY DEF AnswersAreAwaited, Awaits
  <1>3. worker'[w].pc = pc /\ worker'[w].job = worker[w].job /\ worker'[w].waits = NoRequest
    BY <1>1, <1>2 DEF Goto, WorkerRow
  <1> QED
    BY <1>1, <1>3 DEF Alone, Goto, HasClaim, Holds, At

LEMMA GoesOnAlone ==
  ASSUME WorkersOK, NEW w \in Workers, NEW pc, NEW job, GoesOn(w, pc, job), UNCHANGED request,
         pc # "asking",
         pc \in {"capture", "photo", "send", "sending"} => job = worker[w].job /\ HasClaim(w, job)
  PROVE  Alone(w)
  <1>1. worker' = [v \in Workers |->
           IF v = w THEN [pc |-> pc, job |-> job, waits |-> NoRequest, heard |-> "nothing"]
           ELSE worker[v]]
    BY DEF WorkersOK, GoesOn
  <1> QED
    BY <1>1 DEF Alone, HasClaim, Holds, At

LEMMA WorkerAlone ==
  ASSUME WorkersOK, AnswersAreAwaited, NEW w \in Workers, WorkerStep(w)
  PROVE  \/ UNCHANGED <<worker, request>>
         \/ Alone(w)
         \/ \E q \in Requests : Ask(w, q) \/ Send(w, q) \/ \E j \in Jobs : Resend(w, q, j)
  <1>1. CASE Start(w) \/ Wake(w) \/ SpoolIsEmpty(w) \/ SaveMetadata(w) \/ CaptureFails(w)
    BY <1>1, GotoAlone DEF Start, Wake, SpoolIsEmpty, SaveMetadata, CaptureFails, At
  <1>2. CASE HearJob(w)
    BY <1>2, GoesOnAlone DEF HearJob, Hears, HasClaim
  <1>3. CASE HearResent(w) \/ HearUploaded(w) \/ HearFailure(w) \/ Report(w)
    BY <1>3, GoesOnAlone DEF HearResent, HearUploaded, HearFailure, Report
  <1>4. CASE Capture(w)
    <2>1. CASE GoesOn(w, "idle", NoJob)
      BY <1>4, <2>1, GoesOnAlone DEF Capture
    <2>2. ASSUME NEW pc \in {"send", "photo"}, Goto(w, pc)
          PROVE  Alone(w)
      BY <1>4, <2>2, GotoAlone DEF Capture, At
    <2> QED
      BY <1>4, <2>1, <2>2 DEF Capture
  <1>5. CASE GiveUp(w)
    <2>1. worker[w] \in WorkerRow /\ worker = [v \in Workers |-> worker[v]]
      BY DEF WorkersOK, WorkerOK
    <2>2. /\ worker'[w].pc = worker[w].pc /\ worker'[w].job = worker[w].job
          /\ worker'[w].waits = NoRequest /\ worker'[w].heard = "error"
      BY <1>5, <2>1 DEF GiveUp, WorkerRow
    <2> QED
      BY <1>5, <2>1, <2>2 DEF GiveUp, Alone, HasClaim, Holds, At
  <1>6. CASE Crash(w)
    <2>1. worker' = [v \in Workers |-> IF v = w THEN Stopped ELSE worker[v]]
      BY <1>6 DEF Crash, WorkersOK
    <2> QED
      BY <1>6, <2>1 DEF Crash, Stopped, Alone, HasClaim, Holds, At
  <1>7. CASE RenewDeviceLease(w)
    BY <1>7 DEF RenewDeviceLease
  <1> QED
    BY <1>1, <1>2, <1>3, <1>4, <1>5, <1>6, <1>7 DEF WorkerStep, Work

LEMMA NextAwaits ==
  ASSUME RequestsOK, WorkersOK, AnswersAreAwaited, [Next]_vars
  PROVE  AnswersAreAwaited'
  <1>1. CASE UNCHANGED <<worker, request>>
    BY <1>1 DEF AnswersAreAwaited, Awaits
  <1>2. CASE \E q \in Requests : Serve(q) \/ RequestDies(q)
    BY <1>2, ServeAwaits
  <1>3. ASSUME NEW w \in Workers, Alone(w)
        PROVE  AnswersAreAwaited'
    BY <1>3, WorkerAwaits DEF Alone
  <1>4. ASSUME NEW w \in Workers, NEW q \in Requests,
               Ask(w, q) \/ Send(w, q) \/ \E j \in Jobs : Resend(w, q, j)
        PROVE  AnswersAreAwaited'
    BY <1>4, SendAwaits DEF Ask, Send, Resend, Claiming, Uploading
  <1>5. \/ UNCHANGED <<worker, request>>
        \/ \E q \in Requests : Serve(q) \/ RequestDies(q)
        \/ \E w \in Workers : WorkerStep(w)
    BY DEF Next, WorkerStep, CreateJob, Supersede, Lapse, BrowserPoll, RenewProcessingLease, vars
  <1> QED
    BY <1>1, <1>2, <1>3, <1>4, <1>5, WorkerAlone

(* The server gives a job to nobody, but by the claim that was asked for.  *)
Claimed(q) ==
    /\ ClaimWrites(q) /\ status[request[q].job] = "PENDING"
    /\ SetStatus(request[q].job, "CLAIMED")

LEMMA ServeClaims ==
  ASSUME RequestsOK, WorkersOK, AnswersAreAwaited, NEW q \in Requests, Serve(q) \/ RequestDies(q),
         NEW w \in Workers, NEW j \in Jobs, HasClaim(w, j)'
  PROVE  HasClaim(w, j) \/ (Claimed(q) /\ j = request[q].job /\ worker[w].waits = q)
  <1>1. worker[w] \in WorkerRow
    BY DEF WorkersOK, WorkerOK
  <1>2. ASSUME NEW what \in {"empty", "ok", "conflict", "error"}, Answer(q, what, request[q].job)
        PROVE  HasClaim(w, j)
    <2>1. CASE worker[w].waits # q
      <3>1. worker'[w] = worker[w]
        BY <1>2, <2>1 DEF Answer
      <3> QED
        BY <3>1 DEF HasClaim, Holds, At
    <2>2. CASE worker[w].waits = q
      <3>1. /\ worker'[w].pc = worker[w].pc /\ worker'[w].heard = what
            /\ worker'[w].job = request[q].job
        BY <1>1, <1>2, <2>2 DEF Answer, WorkerRow
      <3>2. Awaits(worker[w], request[q])
        BY <2>2, QueueAssumption DEF AnswersAreAwaited
      <3> QED
        BY <3>1, <3>2 DEF HasClaim, Holds, At, Awaits
    <2> QED
      BY <2>1, <2>2
  <1>3. CASE UNCHANGED worker
    BY <1>3 DEF HasClaim, Holds, At
  <1>4. CASE Claimed(q) /\ Answer(q, "job", request[q].job)
    <2>1. CASE worker[w].waits # q
      <3>1. worker'[w] = worker[w]
        BY <1>4, <2>1 DEF Answer
      <3> QED
        BY <3>1 DEF HasClaim, Holds, At
    <2>2. CASE worker[w].waits = q
      <3>1. worker'[w].job = request[q].job
        BY <1>1, <1>4, <2>2 DEF Answer, WorkerRow
      <3> QED
        BY <1>4, <2>2, <3>1 DEF HasClaim, Holds, At
    <2> QED
      BY <2>1, <2>2
  <1>5. CASE ClaimWrites(q)
    BY <1>2, <1>3, <1>4, <1>5 DEF ClaimWrites, Conclude, Claimed
  <1>6. CASE ~ClaimWrites(q)
    <2>1. UNCHANGED worker \/ \E what \in {"empty", "ok", "conflict", "error"} :
                                  Answer(q, what, request[q].job)
      BY <1>6 DEF Serve, ClaimSweeps, ClaimLooks, ClaimPicks, UploadChecks, MarkReads,
             MarkRequeues, MarkUploads, ClaimForProcessing, EndAnalysis, RequestDies, Conclude,
             Acknowledge
    <2> QED
      BY <1>2, <1>3, <2>1
  <1> QED
    BY <1>5, <1>6

LEMMA SendClaims ==
  ASSUME WorkersOK, NEW v \in Workers, NEW q \in Requests,
         Ask(v, q) \/ Send(v, q) \/ \E i \in Jobs : Resend(v, q, i),
         NEW w \in Workers, NEW j \in Jobs, HasClaim(w, j)'
  PROVE  HasClaim(w, j)
  <1>1. ASSUME NEW job, NEW pc, NEW serve, SendRequest(v, q, job, pc, serve)
        PROVE  worker' = [x \in Workers |->
                 IF x = v THEN [pc |-> pc, job |-> job, waits |-> q, heard |-> "nothing"]
                 ELSE worker[x]]
    BY <1>1 DEF SendRequest, WorkersOK
  <1>2. CASE Ask(v, q)
    BY <1>1, <1>2 DEF Ask, HasClaim, Holds, At
  <1>3. CASE Send(v, q)
    BY <1>1, <1>3 DEF Send, HasClaim, Holds, At
  <1>4. ASSUME NEW i \in Jobs, Resend(v, q, i)
        PROVE  HasClaim(w, j)
    BY <1>1, <1>4 DEF Resend, HasClaim, Holds, At
  <1> QED
    BY <1>2, <1>3, <1>4

(* A claim is new only where the job has just left the queue for it.       *)
LEMMA NextClaims ==
  ASSUME RequestsOK, WorkersOK, AnswersAreAwaited, [Next]_vars,
         NEW w \in Workers, NEW j \in Jobs, HasClaim(w, j)'
  PROVE  \/ HasClaim(w, j)
         \/ \E q \in Requests : Claimed(q) /\ j = request[q].job /\ worker[w].waits = q
  <1>1. CASE UNCHANGED <<worker, request>>
    BY <1>1 DEF HasClaim, Holds, At
  <1>2. CASE \E q \in Requests : Serve(q) \/ RequestDies(q)
    BY <1>2, ServeClaims
  <1>3. ASSUME NEW v \in Workers, Alone(v)
        PROVE  HasClaim(w, j)
    <2>1. CASE w = v
      BY <1>3, <2>1 DEF Alone
    <2>2. CASE w # v
      BY <1>3, <2>2 DEF Alone, HasClaim, Holds, At
    <2> QED
      BY <2>1, <2>2
  <1>4. \/ UNCHANGED <<worker, request>>
        \/ \E q \in Requests : Serve(q) \/ RequestDies(q)
        \/ \E v \in Workers : WorkerStep(v)
    BY DEF Next, WorkerStep, CreateJob, Supersede, Lapse, BrowserPoll, RenewProcessingLease, vars
  <1> QED
    BY <1>1, <1>2, <1>3, <1>4, WorkerAlone, SendClaims

(* A job goes back to the queue only by what the history records.          *)
LEMMA ReturnIsRecorded ==
  ASSUME StatusTyped, NEW j \in Watched, [Next]_vars,
         status[j] \notin {"NONE", "PENDING"}, status'[j] \in {"NONE", "PENDING"}
  PROVE  j \in requeued'
  <1>1. j \in Jobs /\ status[j] = "CLAIMED" /\ status'[j] = "PENDING"
    BY NextStatus, QueueAssumption DEF StatusTyped, StatusStep, Follows, Ended
  <1>2. ASSUME NEW i, NEW to, SetStatus(i, to), to # "PENDING"
        PROVE  FALSE
    BY <1>1, <1>2 DEF SetStatus, StatusTyped
  <1>3. CASE Sweep
    BY <1>1, <1>3 DEF Sweep
  <1>4. ASSUME NEW q \in Requests, MarkRequeues(q)
        PROVE  j \in requeued'
    BY <1>1, <1>4 DEF MarkRequeues, SetStatus, StatusTyped
  <1>5. ASSUME NEW q \in Requests, Serve(q) \/ RenewProcessingLease(q) \/ RequestDies(q)
        PROVE  j \in requeued'
    BY <1>1, <1>2, <1>3, <1>4, <1>5
    DEF Serve, ClaimSweeps, ClaimLooks, ClaimPicks, ClaimWrites, UploadChecks, MarkReads,
        MarkUploads, ClaimForProcessing, EndAnalysis, RenewProcessingLease, RequestDies
  <1>6. ASSUME NEW w \in Workers, WorkerStep(w)
        PROVE  FALSE
    BY <1>1, <1>2, <1>6
    DEF WorkerStep, Work, Start, Wake, SpoolIsEmpty, HearJob, HearResent, HearUploaded,
        HearFailure, Capture, SaveMetadata, Ask, Send, Resend, SendRequest, CaptureFails, Report,
        RenewDeviceLease, GiveUp, Crash
  <1>7. ASSUME NEW i \in Jobs, CreateJob(i) \/ Supersede(i) \/ Lapse(i)
        PROVE  FALSE
    BY <1>1, <1>2, <1>7 DEF CreateJob, Supersede, Lapse, StatusTyped
  <1> QED
    BY <1>1, <1>3, <1>5, <1>6, <1>7 DEF Next, WorkerStep, BrowserPoll, vars

LEMMA RequeuedStays ==
  ASSUME [Next]_vars
  PROVE  requeued \subseteq requeued'
  <1>1. ASSUME NEW q \in Requests, Serve(q) \/ RenewProcessingLease(q) \/ RequestDies(q)
        PROVE  requeued \subseteq requeued'
    BY <1>1 DEF Serve, ClaimSweeps, Sweep, ClaimLooks, ClaimPicks, ClaimWrites, UploadChecks,
                MarkReads, MarkRequeues, MarkUploads, ClaimForProcessing, EndAnalysis,
                RenewProcessingLease, RequestDies, history
  <1>2. ASSUME NEW w \in Workers, WorkerStep(w)
        PROVE  UNCHANGED requeued
    BY <1>2 DEF WorkerStep, Work, Start, Wake, SpoolIsEmpty, HearJob, HearResent, HearUploaded,
                HearFailure, Capture, SaveMetadata, Ask, Send, Resend, SendRequest, CaptureFails,
                Report, RenewDeviceLease, GiveUp, Crash, history
  <1>3. ASSUME NEW j \in Jobs, CreateJob(j) \/ Supersede(j) \/ Lapse(j)
        PROVE  UNCHANGED requeued
    BY <1>3 DEF CreateJob, Supersede, Lapse, history
  <1> QED
    BY <1>1, <1>2, <1>3 DEF Next, WorkerStep, BrowserPoll, Sweep, vars, history

LEMMA NextClaimsAreOwned ==
  Typing /\ AnswersAreAwaited /\ ClaimsAreOwned /\ [Next]_vars => ClaimsAreOwned'
  <1> SUFFICES ASSUME Typing, AnswersAreAwaited, ClaimsAreOwned, [Next]_vars,
                      NEW j \in Watched, j \notin requeued', NEW w \in Workers, HasClaim(w, j)'
               PROVE  /\ status'[j] \notin {"NONE", "PENDING"}
                      /\ \A v \in Workers : HasClaim(v, j)' => v = w
    BY DEF ClaimsAreOwned
  <1>1. j \in Jobs /\ j \notin requeued
    BY RequeuedStays, QueueAssumption
  <1>2. \A v \in Workers : HasClaim(v, j)' =>
          \/ HasClaim(v, j)
          \/ \E q \in Requests : Claimed(q) /\ j = request[q].job /\ worker[v].waits = q
    BY <1>1, NextClaims DEF Typing
  <1>3. CASE \E v \in Workers : HasClaim(v, j)
    <2>1. status[j] \notin {"NONE", "PENDING"}
      BY <1>1, <1>3 DEF ClaimsAreOwned
    <2>2. status'[j] \notin {"NONE", "PENDING"}
      BY <2>1, ReturnIsRecorded DEF Typing
    <2>3. \A v \in Workers : HasClaim(v, j)' => HasClaim(v, j)
      BY <1>2, <2>1 DEF Claimed
    <2> QED
      BY <1>1, <2>2, <2>3 DEF ClaimsAreOwned
  <1>4. CASE \A v \in Workers : ~HasClaim(v, j)
    <2>1. PICK q \in Requests : Claimed(q) /\ j = request[q].job /\ worker[w].waits = q
      BY <1>2, <1>4
    <2>2. status'[j] = "CLAIMED"
      BY <1>1, <2>1 DEF Claimed, SetStatus, Typing, StatusTyped
    <2>3. ASSUME NEW v \in Workers, HasClaim(v, j)'
          PROVE  v = w
      <3>1. PICK p \in Requests : Claimed(p) /\ j = request[p].job /\ worker[v].waits = p
        BY <1>2, <1>4, <2>3
      <3>2. p = q
        <4> SUFFICES ASSUME p # q PROVE FALSE
          OBVIOUS
        <4>1. request'[p] = request[p] /\ request[p].pc = "write"
          BY <2>1, <3>1, RequestsTouched DEF Claimed, Serve, ClaimWrites, Serving, Typing
        <4>2. request' = [request EXCEPT ![p] = Free]
          BY <3>1 DEF Claimed, ClaimWrites, Conclude, Finish
        <4> QED
          BY <4>1, <4>2 DEF Free, Typing, RequestsOK
      <3> QED
        BY <2>1, <3>1, <3>2, QueueAssumption DEF AnswersAreAwaited
    <2> QED
      BY <2>2, <2>3
  <1> QED
    BY <1>3, <1>4

(* "Only one claimant wins" (claimNextCaptureJob): no two workers take the *)
(* photo of a job, unless a claim of it was taken back.                    *)
THEOREM OneWorkerTakesThePhoto == Spec => []ExclusiveCapture
  <1>1. Init => AnswersAreAwaited /\ ClaimsAreOwned
    BY DEF Init, AnswersAreAwaited, ClaimsAreOwned, HasClaim, Holds, At, Stopped
  <1>2. Typing /\ AnswersAreAwaited /\ [Next]_vars => AnswersAreAwaited'
    BY NextAwaits DEF Typing
  <1>3. ClaimsAreOwned => ExclusiveCapture
    BY DEF ClaimsAreOwned, ExclusiveCapture, HasClaim
  <1> QED
    BY <1>1, <1>2, <1>3, InitTyping, NextTyping, NextClaimsAreOwned, PTL DEF Spec

============================================================================
