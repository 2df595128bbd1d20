---------------------------- MODULE CaptureQueue ----------------------------
(***************************************************************************)
(* The durable queue between the server and the warehouse camera.  A       *)
(* browser creates a capture job; a Raspberry Pi worker claims the oldest  *)
(* one under a lease that it renews, takes the photo, keeps it in its      *)
(* spool, and uploads it until the server has answered; the server then    *)
(* analyses it under a lease of its own.  Every statement of a request is  *)
(* an action: requests outlive the worker that sent them, answers come     *)
(* late or never, and workers and server processes die.                    *)
(*                                                                         *)
(* One device.  Leases are untimed: one that nobody renews may run out at  *)
(* any moment, and running out under a live holder counts as a fault.      *)
(***************************************************************************)
EXTENDS Integers, FiniteSets

CONSTANTS
    Jobs,       \* capture jobs, numbered in the order they are requested
    Watched,    \* the jobs whose history is recorded
    Workers,    \* worker processes with the device's credentials
    Requests,   \* bound on the requests the server handles at a time
    MaxFaults,  \* bound on crashes, lost answers, camera errors, lapses
    NoJob, NoRequest

ASSUME QueueAssumption ==
    /\ Jobs \subseteq Nat /\ Watched \subseteq Jobs
    /\ MaxFaults \in Nat
    /\ NoJob \notin Jobs /\ NoRequest \notin Requests

VARIABLES
    status,     \* CameraCaptureJob.status
    over,       \* jobs whose expiresAt has passed
    request,    \* what the server is doing for each request
    worker,     \* where each worker stands, and what it waits for
    spool,      \* photos with their metadata in a worker's spool directory
    torn,       \* photos there whose metadata was not written
    faults,     \* faults so far
    analyses,   \* analyses started for a watched job (history)
    safe,       \* watched jobs whose photo a worker was told is stored (history)
    requeued    \* watched jobs whose claim was ever taken back (history)

history == <<analyses, safe, requeued>>
vars == <<status, over, request, worker, spool, torn, faults, history>>

Active == {"PENDING", "CLAIMED", "UPLOADED", "PROCESSING"}
Ended == {"COMPLETED", "FAILED", "CANCELLED"}
Uploaded == {"UPLOADED", "PROCESSING", "COMPLETED"}

RequestPC == {"free", "sweep", "active", "candidate", "write", "check", "mark",
              "requeue", "upload", "process", "analysing"}
WorkerPC == {"off", "idle", "spool", "resending", "next", "asking", "capture",
             "photo", "send", "sending", "report"}

MaxClaimAttempts == 3

TypeOK ==
    /\ status \in [Jobs -> {"NONE"} \cup Active \cup Ended]
    /\ over \subseteq Jobs
    /\ request \in [Requests -> [pc : RequestPC, job : Jobs \cup {NoJob},
                                 tries : 0 .. MaxClaimAttempts]]
    /\ worker \in [Workers -> [pc : WorkerPC, job : Jobs \cup {NoJob},
                               waits : Requests \cup {NoRequest},
                               heard : {"nothing", "job", "empty", "ok", "conflict", "error"}]]
    /\ spool \in SUBSET (Workers \X Jobs)
    /\ torn \in SUBSET (Workers \X Jobs)
    /\ faults \in 0 .. MaxFaults
    /\ analyses \in [Watched -> Nat]
    /\ safe \subseteq Watched
    /\ requeued \subseteq Watched

Free == [pc |-> "free", job |-> NoJob, tries |-> 0]
Stopped == [pc |-> "off", job |-> NoJob, waits |-> NoRequest, heard |-> "nothing"]

Init ==
    /\ status = [j \in Jobs |-> "NONE"]
    /\ over = {}
    /\ request = [q \in Requests |-> Free]
    /\ worker = [w \in Workers |-> Stopped]
    /\ spool = {} /\ torn = {}
    /\ faults = 0
    /\ analyses = [j \in Watched |-> 0]
    /\ safe = {} /\ requeued = {}

---------------------------------------------------------------------------
(* Vocabulary.                                                             *)

At(w, pc) == worker[w].pc = pc
Goto(w, pc) == worker' = [worker EXCEPT ![w].pc = pc]
Serving(q, pc) == request[q].pc = pc
Step(q, pc) == request' = [request EXCEPT ![q].pc = pc]
Finish(q) == request' = [request EXCEPT ![q] = Free]

(* A faulty event: their number is bounded.                                *)
Fault == faults < MaxFaults /\ faults' = faults + 1

(* The job's row gets a status, and a lease that is not over.              *)
SetStatus(j, to) ==
    /\ status' = [status EXCEPT ![j] = to]
    /\ over' = over \ {j}

(* An analysis starts: the history of a watched job counts it.             *)
Analysed(j) == analyses' = [i \in Watched |-> IF i = j THEN analyses[i] + 1 ELSE analyses[i]]

(* The answer to q reaches the worker that still waits for it.             *)
Answer(q, what, j) ==
    worker' = [w \in Workers |->
      IF worker[w].waits = q
      THEN [worker[w] EXCEPT !.waits = NoRequest, !.heard = what, !.job = j]
      ELSE worker[w]]

(* Refused, or answered with an error: the request is over.                *)
Conclude(q, what) == Answer(q, what, request[q].job) /\ Finish(q)

(* capture_job and its heartbeat thread run for the worker's job.          *)
Holds(w, j) == worker[w].pc \in {"capture", "photo", "send", "sending"} /\ worker[w].job = j

(* Somebody alive renews the lease of the job, or is about to.             *)
Attended(j) ==
    \/ /\ status[j] = "CLAIMED"
       /\ \E w \in Workers : Holds(w, j) \/ (worker[w].heard = "job" /\ worker[w].job = j)
    \/ \E q \in Requests : request[q].job = j /\ request[q].pc \in {"process", "analysing"}

---------------------------------------------------------------------------
(* Jobs, their leases, and the clean-up that every poll runs.              *)

CreateJob(j) ==
    /\ status[j] = "NONE"
    /\ \A i \in Jobs : i < j => status[i] # "NONE"
    /\ status' = [status EXCEPT ![j] = "PENDING"]
    /\ UNCHANGED <<over, request, worker, spool, torn, faults, history>>

(* A retry, a cancellation or the recovery of the workflow ends the job.   *)
Supersede(j) ==
    /\ status[j] \in Active
    /\ \E end \in {"CANCELLED", "FAILED"} : SetStatus(j, end)
    /\ UNCHANGED <<request, worker, spool, torn, faults, history>>

(* A lease runs out: of a job nobody works at, or, by a fault, under its   *)
(* holder.                                                                 *)
Lapse(j) ==
    /\ status[j] \in {"CLAIMED", "UPLOADED", "PROCESSING"}
    /\ j \notin over
    /\ over' = over \cup {j}
    /\ IF Attended(j) THEN Fault ELSE UNCHANGED faults
    /\ UNCHANGED <<status, request, worker, spool, torn, history>>

(* Mutant of AfterSweep: an analysis that has stopped is never given up.   *)
AfterSweepOfClaims(j, abandoned) ==
    CASE j \in abandoned -> "CANCELLED"
      [] status[j] = "CLAIMED" /\ j \in over -> "PENDING"
      [] OTHER -> status[j]

(* expireStaleCaptureJobs: jobs queued for a day are cancelled, claims     *)
(* whose lease is over go back to the queue, stalled analyses fail.        *)
AfterSweep(j, abandoned) ==
    CASE j \in abandoned -> "CANCELLED"
      [] status[j] = "CLAIMED" /\ j \in over -> "PENDING"
      [] status[j] \in {"UPLOADED", "PROCESSING"} /\ j \in over -> "FAILED"
      [] OTHER -> status[j]

Sweep ==
    /\ \E abandoned \in SUBSET {j \in Jobs : status[j] = "PENDING"} :
         status' = [j \in Jobs |-> AfterSweep(j, abandoned)]
    /\ over' = {j \in over : status'[j] = status[j]}
    /\ requeued' = requeued \cup {j \in Watched : status[j] = "CLAIMED" /\ status'[j] = "PENDING"}
    /\ UNCHANGED <<spool, torn, faults, analyses, safe>>

(* A browser asks for the status of its job.                               *)
BrowserPoll == Sweep /\ UNCHANGED <<request, worker>>

---------------------------------------------------------------------------
(* GET jobs/next: claimNextCaptureJob.                                     *)

ClaimSweeps(q) ==
    /\ Serving(q, "sweep")
    /\ Sweep
    /\ Step(q, "active")
    /\ UNCHANGED worker

(* A device with a claimed job gets no other.                              *)
ClaimLooks(q) ==
    /\ Serving(q, "active")
    /\ IF \E j \in Jobs : status[j] = "CLAIMED"
       THEN Conclude(q, "empty")
       ELSE Step(q, "candidate") /\ UNCHANGED worker
    /\ UNCHANGED <<status, over, spool, torn, faults, history>>

(* The oldest job in the queue.                                            *)
ClaimPicks(q) ==
    /\ Serving(q, "candidate")
    /\ LET queue == {j \in Jobs : status[j] = "PENDING"} IN
       IF queue = {}
       THEN Conclude(q, "empty")
       ELSE /\ \E j \in queue :
                 /\ \A i \in queue : j <= i
                 /\ request' = [request EXCEPT ![q].pc = "write", ![q].job = j]
            /\ UNCHANGED worker
    /\ UNCHANGED <<status, over, spool, torn, faults, history>>

(* Mutant of ClaimWrites: the job's status is not a condition.             *)
ClaimWritesAnyway(q) ==
    /\ Serving(q, "write")
    /\ SetStatus(request[q].job, "CLAIMED")
    /\ Conclude(q, "job")
    /\ UNCHANGED <<spool, torn, faults, history>>

(* The conditional update; a lost race is tried again.                     *)
ClaimWrites(q) ==
    LET j == request[q].job
        tries == request[q].tries + 1 IN
    /\ Serving(q, "write")
    /\ \/ /\ status[j] = "PENDING"
          /\ SetStatus(j, "CLAIMED")
          /\ Conclude(q, "job")
       \/ /\ status[j] # "PENDING" /\ tries < MaxClaimAttempts
          /\ request' = [request EXCEPT ![q] = [pc |-> "active", job |-> NoJob, tries |-> tries]]
          /\ UNCHANGED <<status, over, worker>>
       \/ /\ status[j] # "PENDING" /\ tries = MaxClaimAttempts
          /\ Conclude(q, "empty")
          /\ UNCHANGED <<status, over>>
    /\ UNCHANGED <<spool, torn, faults, history>>

---------------------------------------------------------------------------
(* POST jobs/[id]/upload.                                                  *)

(* The photo is stored: the worker is told, the analysis runs after.       *)
Acknowledge(q) ==
    /\ Answer(q, "ok", request[q].job)
    /\ Step(q, "process")

(* The route looks at the job, then stores the evidence.                   *)
UploadChecks(q) ==
    /\ Serving(q, "check")
    /\ LET now == status[request[q].job] IN
       \/ now \in {"PROCESSING", "COMPLETED"} /\ Conclude(q, "ok")
       \/ now \in {"CLAIMED", "UPLOADED"} /\ Step(q, "mark") /\ UNCHANGED worker
       \/ now \notin {"CLAIMED"} \cup Uploaded /\ Conclude(q, "conflict")
    /\ UNCHANGED <<status, over, spool, torn, faults, history>>

(* markCaptureUploaded reads the job again ...                             *)
MarkReads(q) ==
    /\ Serving(q, "mark")
    /\ LET j == request[q].job IN
       \/ status[j] \in Uploaded /\ Acknowledge(q)
       \/ status[j] = "CLAIMED" /\ Step(q, IF j \in over THEN "requeue" ELSE "upload") /\ UNCHANGED worker
       \/ status[j] \notin {"CLAIMED"} \cup Uploaded /\ Conclude(q, "conflict")
    /\ UNCHANGED <<status, over, spool, torn, faults, history>>

(* ... and puts it back into the queue if the lease was over, whoever has  *)
(* it by now ...                                                           *)
MarkRequeues(q) ==
    LET j == request[q].job IN
    /\ Serving(q, "requeue")
    /\ IF status[j] = "CLAIMED"
       THEN SetStatus(j, "PENDING") /\ requeued' = requeued \cup ({j} \cap Watched)
       ELSE UNCHANGED <<status, over, requeued>>
    /\ Conclude(q, "conflict")
    /\ UNCHANGED <<spool, torn, faults, analyses, safe>>

(* Mutant of MarkUploads: a lost race is acknowledged.                     *)
MarkUploadsAnyway(q) ==
    LET j == request[q].job IN
    /\ Serving(q, "upload")
    /\ IF status[j] = "CLAIMED" THEN SetStatus(j, "UPLOADED") ELSE UNCHANGED <<status, over>>
    /\ Acknowledge(q)
    /\ UNCHANGED <<spool, torn, faults, history>>

(* ... or stores the photo's metadata.  Its clock was read with the job:   *)
(* a lease that has run out since still counts.                            *)
MarkUploads(q) ==
    LET j == request[q].job IN
    /\ Serving(q, "upload")
    /\ \/ status[j] = "CLAIMED" /\ SetStatus(j, "UPLOADED") /\ Acknowledge(q)
       \/ status[j] \in Uploaded /\ Acknowledge(q) /\ UNCHANGED <<status, over>>
       \/ status[j] \notin {"CLAIMED"} \cup Uploaded /\ Conclude(q, "conflict") /\ UNCHANGED <<status, over>>
    /\ UNCHANGED <<spool, torn, faults, history>>

(* Mutant of ClaimForProcessing: a job under analysis is analysed again.   *)
ClaimForProcessingAgain(q) ==
    LET j == request[q].job IN
    /\ Serving(q, "process")
    /\ IF status[j] \in {"UPLOADED", "PROCESSING"}
       THEN /\ SetStatus(j, "PROCESSING")
            /\ Analysed(j)
            /\ Step(q, "analysing")
       ELSE Finish(q) /\ UNCHANGED <<status, over, analyses>>
    /\ UNCHANGED <<worker, spool, torn, faults, safe, requeued>>

(* processUploadedCapture: one of the requests that stored the photo wins. *)
ClaimForProcessing(q) ==
    LET j == request[q].job IN
    /\ Serving(q, "process")
    /\ IF status[j] = "UPLOADED"
       THEN /\ SetStatus(j, "PROCESSING")
            /\ Analysed(j)
            /\ Step(q, "analysing")
       ELSE Finish(q) /\ UNCHANGED <<status, over, analyses>>
    /\ UNCHANGED <<worker, spool, torn, faults, safe, requeued>>

RenewProcessingLease(q) ==
    /\ Serving(q, "analysing")
    /\ request[q].job \in over
    /\ status[request[q].job] = "PROCESSING"
    /\ over' = over \ {request[q].job}
    /\ UNCHANGED <<status, request, worker, spool, torn, faults, history>>

(* Mutant of EndAnalysis: the result is written whatever the job's status. *)
EndAnalysisAnyway(q) ==
    /\ Serving(q, "analysing")
    /\ \E end \in {"COMPLETED", "FAILED"} : SetStatus(request[q].job, end)
    /\ Finish(q)
    /\ UNCHANGED <<worker, spool, torn, faults, history>>

(* completeCaptureJob, or failCaptureJob where the analysis has thrown;    *)
(* a job that has ended meanwhile stays as it is.                          *)
EndAnalysis(q) ==
    LET j == request[q].job IN
    /\ Serving(q, "analysing")
    /\ IF status[j] \in Active
       THEN \E end \in {"COMPLETED", "FAILED"} : SetStatus(j, end)
       ELSE UNCHANGED <<status, over>>
    /\ Finish(q)
    /\ UNCHANGED <<worker, spool, torn, faults, history>>

(* The process of a request dies, or its storage fails.                    *)
RequestDies(q) ==
    /\ ~Serving(q, "free")
    /\ Fault
    /\ Conclude(q, "error")
    /\ UNCHANGED <<status, over, spool, torn, history>>

---------------------------------------------------------------------------
(* The worker on the Pi.                                                   *)

Start(w) ==
    /\ At(w, "off")
    /\ Goto(w, "spool")
    /\ UNCHANGED <<status, over, request, spool, torn, faults, history>>

(* The event stream wakes the worker: drain_jobs.                          *)
Wake(w) ==
    /\ At(w, "idle")
    /\ Goto(w, "spool")
    /\ UNCHANGED <<status, over, request, spool, torn, faults, history>>

SendRequest(w, q, job, pc, serve) ==
    /\ Serving(q, "free")
    /\ request' = [request EXCEPT ![q] = [pc |-> serve, job |-> job, tries |-> 0]]
    /\ worker' = [worker EXCEPT ![w] = [pc |-> pc, job |-> job, waits |-> q, heard |-> "nothing"]]
    /\ UNCHANGED <<status, over, spool, torn, faults, history>>

(* process_existing_spool: every photo with metadata is sent again ...     *)
Resend(w, q, j) ==
    /\ At(w, "spool")
    /\ <<w, j>> \in spool
    /\ SendRequest(w, q, j, "resending", "check")

(* ... and then the queue is asked, as after every job.                    *)
SpoolIsEmpty(w) ==
    /\ At(w, "spool")
    /\ \A j \in Jobs : <<w, j>> \notin spool
    /\ Goto(w, "next")
    /\ UNCHANGED <<status, over, request, spool, torn, faults, history>>

Ask(w, q) ==
    /\ At(w, "next")
    /\ SendRequest(w, q, NoJob, "asking", "sweep")

(* A request to the server has an answer, or an error.                     *)
Hears(w, pc, what) == At(w, pc) /\ worker[w].heard \in what
GoesOn(w, pc, job) ==
    worker' = [worker EXCEPT ![w] = [pc |-> pc, job |-> job, waits |-> NoRequest, heard |-> "nothing"]]

HearJob(w) ==
    /\ Hears(w, "asking", {"job", "empty", "error"})
    /\ IF worker[w].heard = "job" THEN GoesOn(w, "capture", worker[w].job) ELSE GoesOn(w, "idle", NoJob)
    /\ UNCHANGED <<status, over, request, spool, torn, faults, history>>

(* The worker lets go of a photo: the server has it, or (for the worker)   *)
(* refuses it for good.                                                    *)
HearResent(w) ==
    /\ Hears(w, "resending", {"ok", "conflict"})
    /\ spool' = spool \ {<<w, worker[w].job>>}
    /\ safe' = IF worker[w].heard = "ok" THEN safe \cup ({worker[w].job} \cap Watched) ELSE safe
    /\ GoesOn(w, "spool", NoJob)
    /\ UNCHANGED <<status, over, request, torn, faults, analyses, requeued>>

HearUploaded(w) ==
    /\ Hears(w, "sending", {"ok"})
    /\ spool' = spool \ {<<w, worker[w].job>>}
    /\ safe' = safe \cup ({worker[w].job} \cap Watched)
    /\ GoesOn(w, "next", NoJob)
    /\ UNCHANGED <<status, over, request, torn, faults, analyses, requeued>>

(* The photo stays in the spool until the next wake.                       *)
HearFailure(w) ==
    /\ Hears(w, "sending", {"conflict", "error"}) \/ Hears(w, "resending", {"error"})
    /\ GoesOn(w, "idle", NoJob)
    /\ UNCHANGED <<status, over, request, spool, torn, faults, history>>

(* capture_job: a photo in the spool is used, one without its metadata is  *)
(* an error, and without either the camera takes one.                      *)
Capture(w) ==
    LET photo == <<w, worker[w].job>> IN
    /\ At(w, "capture")
    /\ \/ /\ photo \in torn
          /\ GoesOn(w, "idle", NoJob)
          /\ UNCHANGED torn
       \/ /\ photo \in spool \ torn
          /\ Goto(w, "send")
          /\ UNCHANGED torn
       \/ /\ photo \notin spool \cup torn
          /\ torn' = torn \cup {photo}
          /\ Goto(w, "photo")
    /\ UNCHANGED <<status, over, request, spool, faults, history>>

SaveMetadata(w) ==
    LET photo == <<w, worker[w].job>> IN
    /\ At(w, "photo")
    /\ torn' = torn \ {photo}
    /\ spool' = spool \cup {photo}
    /\ Goto(w, "send")
    /\ UNCHANGED <<status, over, request, faults, history>>

Send(w, q) ==
    /\ At(w, "send")
    /\ SendRequest(w, q, worker[w].job, "sending", "check")

CaptureFails(w) ==
    /\ At(w, "capture")
    /\ <<w, worker[w].job>> \notin spool \cup torn
    /\ Fault
    /\ Goto(w, "report")
    /\ UNCHANGED <<status, over, request, spool, torn, history>>

(* failDeviceCaptureJob, unless the report is lost: it is not repeated.    *)
Report(w) ==
    LET j == worker[w].job IN
    /\ At(w, "report")
    /\ IF status[j] \in Active
       THEN SetStatus(j, "FAILED") \/ UNCHANGED <<status, over>>
       ELSE UNCHANGED <<status, over>>
    /\ GoesOn(w, "next", NoJob)
    /\ UNCHANGED <<request, spool, torn, faults, history>>

(* The lease is renewed by the job's id: a worker that has lost its claim  *)
(* renews the claim of whoever has it now.                                 *)
RenewDeviceLease(w) ==
    /\ \E j \in over :
         /\ Holds(w, j)
         /\ status[j] = "CLAIMED"
         /\ over' = over \ {j}
    /\ UNCHANGED <<status, request, worker, spool, torn, faults, history>>

(* The worker waits no longer; the request goes on without it.             *)
GiveUp(w) ==
    /\ worker[w].waits # NoRequest
    /\ Fault
    /\ worker' = [worker EXCEPT ![w].waits = NoRequest, ![w].heard = "error"]
    /\ UNCHANGED <<status, over, request, spool, torn, history>>

(* The worker dies; its spool stays.                                       *)
Crash(w) ==
    /\ ~At(w, "off")
    /\ Fault
    /\ worker' = [worker EXCEPT ![w] = Stopped]
    /\ UNCHANGED <<status, over, request, spool, torn, history>>

---------------------------------------------------------------------------
Serve(q) ==
    \/ ClaimSweeps(q) \/ ClaimLooks(q) \/ ClaimPicks(q) \/ ClaimWrites(q)
    \/ UploadChecks(q) \/ MarkReads(q) \/ MarkRequeues(q) \/ MarkUploads(q)
    \/ ClaimForProcessing(q) \/ EndAnalysis(q)

Work(w) ==
    \/ Start(w) \/ Wake(w) \/ SpoolIsEmpty(w) \/ HearJob(w) \/ HearResent(w)
    \/ HearUploaded(w) \/ HearFailure(w) \/ Capture(w) \/ SaveMetadata(w) \/ Report(w)
    \/ \E q \in Requests : Ask(w, q) \/ Send(w, q) \/ \E j \in Jobs : Resend(w, q, j)

Next ==
    \/ \E j \in Jobs : CreateJob(j) \/ Supersede(j) \/ Lapse(j)
    \/ BrowserPoll
    \/ \E q \in Requests : Serve(q) \/ RenewProcessingLease(q) \/ RequestDies(q)
    \/ \E w \in Workers : Work(w) \/ CaptureFails(w) \/ RenewDeviceLease(w) \/ GiveUp(w) \/ Crash(w)

Spec == Init /\ [][Next]_vars

(* The server goes on with its requests, the supervisor restarts the       *)
(* worker, the event stream wakes it, and time passes for a lease that     *)
(* nobody renews.  No browser needs to be open.                            *)
FairSpec ==
    /\ Spec
    /\ \A q \in Requests : WF_vars(Serve(q))
    /\ \A w \in Workers : WF_vars(Work(w))
    /\ \A j \in Jobs : WF_vars(~Attended(j) /\ Lapse(j))

---------------------------------------------------------------------------
(* "Gemini/measurement processing must not run twice when the Raspberry Pi *)
(* retries the upload request": nor when two uploads overlap, or a lease   *)
(* is lost in the middle.                                                  *)
AnalysedOnce == \A j \in Watched : analyses[j] <= 1

(* "Only one claimant wins": two workers take the same photo only where a  *)
(* claim has been taken back.                                              *)
ExclusiveCapture ==
    \A v, w \in Workers, j \in Watched : Holds(v, j) /\ Holds(w, j) => v = w \/ j \in requeued

(* A photo the worker was told is stored is not asked for again: its copy  *)
(* in the spool is gone.                                                   *)
StoredPhotoIsKept == \A j \in safe : status[j] \in Uploaded \cup Ended

(* "Terminal jobs do not reopen": not by a late upload, a late result, a   *)
(* retried claim or a report that arrives after the workflow went on.      *)
EndedStaysEnded ==
    [][ \A j \in Jobs : status[j] \in Ended => status'[j] = status[j] ]_vars

(* A worker died between the photo and its metadata: it will claim that    *)
(* job again and again, ahead of all others, and use the photo for none.   *)
QueueIsBlocked == \E w \in Workers, j \in Jobs : <<w, j>> \in torn /\ ~At(w, "photo")

(* Liveness: every job ends, however often claims, answers and processes   *)
(* are lost, unless a photo without metadata blocks the queue.             *)
EveryJobEnds ==
    \A j \in Jobs : (status[j] \in Active) ~> (status[j] \in Ended \/ QueueIsBlocked)

============================================================================
