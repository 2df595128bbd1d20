---------------------------- MODULE AuditCapture ----------------------------
(***************************************************************************)
(* The tables and processes of an inventory audit, the photo of an audited *)
(* bin, and what people decide about it.  An audit run visits bins one by  *)
(* one; for each it keeps one BinAudit row and one AuditCaptureRequest     *)
(* row, so a row is named by its run and its bin.  One action is one       *)
(* statement or transaction; a decision reads the capture first and writes *)
(* later, and other decisions may come between.                            *)
(***************************************************************************)
EXTENDS Integers, FiniteSets

CONSTANTS
    Bins,           \* rows of the Bin table
    Runs,           \* audit requests, and the InventoryAuditRun rows they create
    Requests,       \* requests of browsers
    Kinds,          \* what browsers ask for in this instance
    Capacity,       \* Bin.capacity
    Production,     \* whether a physical gantry is configured
    MaxAttempts,    \* bound on the photos asked for one capture
    MaxChanges,     \* bound on what other workflows do to the bins
    MaxRestarts,    \* bound on restarts of the server
    NoOne           \* nobody

(* Four decisions about a capture, a photo, and two later decisions about  *)
(* a count that was left for a review.                                     *)
CaptureKinds == {"AUTO_RETURN", "RETRY", "DISMISS", "ACCEPT", "CAMERA"}
ReviewKinds == {"APPLY", "DROP"}

ASSUME AuditAssumption ==
    /\ Kinds \subseteq CaptureKinds \cup ReviewKinds
    /\ Capacity \in Nat \ {0}
    /\ Production \in BOOLEAN
    /\ MaxAttempts \in Nat \ {0} /\ MaxChanges \in Nat /\ MaxRestarts \in Nat
    /\ NoOne \notin Runs \cup Bins

VARIABLES
    binStatus,      \* Bin.status
    stock,          \* Inventory.quantity of the bin's one part, 0 without a row
    place,          \* where the bin's container physically is
    runStatus,      \* InventoryAuditRun.status; activeKey is set while RUNNING
    audit,          \* BinAudit rows
    capture,        \* AuditCaptureRequest rows
    job,            \* the attempt a camera job is to photograph, 0 without a job
    analysis,       \* the analysis of a photo that is in flight
    call,           \* runInventoryAudit invocations
    request,        \* browser requests
    lease,          \* the run that holds the hardware lease
    changes, restarts,
    misjudged,      \* bins audited against an outdated expectation (history)
    freed,          \* bins a decision has unlocked since an audit took them from the rack (history)
    stranded        \* bins left at the scan station by a trip or a server that failed (history)

vars == <<binStatus, stock, place, runStatus, audit, capture, job, analysis, call,
          request, lease, changes, restarts, misjudged, freed, stranded>>
tables == <<binStatus, stock, audit, capture, job>>
world == <<place, lease, changes, restarts, stranded>>
history == <<misjudged, freed>>

Quantities == 0 .. Capacity
Unsafe == Capacity + 1      \* a photo whose count cannot be trusted
Readings == Quantities \cup {Unsafe}

OnShelf == {"AVAILABLE", "OCCUPIED"}
ShelfStatus(n) == IF n > 0 THEN "OCCUPIED" ELSE "AVAILABLE"

Unfinished == {"PENDING", "RUNNING"}
Retryable == {"REVIEW_DECREASE", "RETRY_REQUIRED"}
Undecided == {"WAITING_FOR_CAMERA"} \cup Retryable
CaptureOver == {"ACCEPTED", "FAILED"}

NoAudit == [status |-> "NONE", expected |-> 0, observed |-> Unsafe, why |-> "OTHER"]
NoCapture == [status |-> "NONE", attempt |-> 0, observed |-> Unsafe]
NoAnalysis == [pc |-> "none", attempt |-> 0, seen |-> Unsafe]
IdleRequest == [pc |-> "idle", kind |-> "NONE", run |-> NoOne, bin |-> NoOne,
                status |-> "NONE", attempt |-> 0, observed |-> Unsafe]

---------------------------------------------------------------------------
(* Vocabulary.                                                             *)

(* updateMany where status is AUDITING.                                    *)
Release(b, to) == binStatus' = [binStatus EXCEPT ![b] = IF @ = "AUDITING" THEN to ELSE @]

(* The same for a decision.  The new status rests on the expectation of    *)
(* an audit: it may be outdated, and the bin is then misjudged until its   *)
(* status is recomputed.  The audit may have ended, and the lock be that   *)
(* of another one.                                                         *)
Unlock(b, to, outdated) ==
    /\ Release(b, to)
    /\ misjudged' = CASE binStatus[b] # "AUDITING" -> misjudged
                      [] outdated -> misjudged \cup {b}
                      [] OTHER -> misjudged \ {b}
    /\ freed' = IF binStatus[b] = "AUDITING" THEN freed \cup {b} ELSE freed

CloseAudit(r, b, status, why) ==
    audit' = [audit EXCEPT ![r][b].status = status, ![r][b].why = why]

SetCapture(r, b, status) == capture' = [capture EXCEPT ![r][b].status = status]

(* classifyAuditVision: what a reading means for what was expected.        *)
Outcome(seen, expected) ==
    IF seen = Unsafe THEN "UNSAFE"
    ELSE CASE seen = expected -> "VERIFIED"
           [] seen > expected -> IF expected = 0 THEN "UNEXPECTED_STOCK" ELSE "AUTO_RECONCILED"
           [] seen < expected -> "REVIEW_DECREASE"

(* The status the bin goes back to is worked out from the expectation.     *)
OriginalStatus(r, b) == ShelfStatus(audit[r][b].expected)

---------------------------------------------------------------------------
(* The photo.  A job may be lost: the camera queue gives it up.            *)

LoseJob(r, b) ==
    /\ job[r][b] # 0
    /\ job' = [job EXCEPT ![r][b] = 0]
    /\ UNCHANGED <<binStatus, stock, audit, capture, runStatus, analysis, call, request,
                   world, history>>

Analysing(r, b, pc) == analysis[r][b].pc = pc
AnalysisEnds(r, b) == analysis' = [analysis EXCEPT ![r][b] = NoAnalysis]

(* The capture is still the one this analysis claimed.                     *)
Claimed(r, b) ==
    /\ capture[r][b].status = "CAPTURING"
    /\ capture[r][b].attempt = analysis[r][b].attempt

(* processAuditCameraCapture claims the capture for the attempt the photo  *)
(* was taken for; a photo of an earlier attempt is refused.                *)
ReceivePhoto(r, b) ==
    /\ job[r][b] # 0
    /\ Analysing(r, b, "none")
    /\ job' = [job EXCEPT ![r][b] = 0]
    /\ IF capture[r][b].status = "WAITING_FOR_CAMERA" /\ capture[r][b].attempt = job[r][b]
       THEN /\ SetCapture(r, b, "CAPTURING")
            /\ analysis' = [analysis EXCEPT ![r][b].pc = "analyse", ![r][b].attempt = job[r][b]]
       ELSE UNCHANGED <<capture, analysis>>
    /\ UNCHANGED <<binStatus, stock, audit, runStatus, call, request, world, history>>

(* The photo is analysed, and the claim renewed with the result.  A bin    *)
(* that is no longer audited, or a claim that was lost, is an error.       *)
Analyse(r, b) ==
    /\ Analysing(r, b, "analyse")
    /\ \/ /\ audit[r][b].status = "RUNNING" /\ binStatus[b] = "AUDITING" /\ Claimed(r, b)
          /\ \E seen \in Readings :
               analysis' = [analysis EXCEPT ![r][b].seen = seen,
                              ![r][b].pc = IF Outcome(seen, audit[r][b].expected) = "UNEXPECTED_STOCK"
                                           THEN "disable" ELSE "persist"]
       \/ analysis' = [analysis EXCEPT ![r][b].pc = "error"]
    /\ UNCHANGED <<tables, runStatus, call, request, world, history>>

(* applyAuditOutcome for stock nobody recorded: the bin is taken out of    *)
(* service, whatever the capture has become meanwhile.                     *)
DisableBin(r, b) ==
    /\ Analysing(r, b, "disable")
    /\ Release(b, "DISABLED")
    /\ analysis' = [analysis EXCEPT ![r][b].pc = "record"]
    /\ UNCHANGED <<stock, audit, capture, job, runStatus, call, request, world, history>>

RecordUnexpectedStock(r, b) ==
    /\ Analysing(r, b, "record")
    /\ CloseAudit(r, b, "REVIEW_REQUIRED", "OTHER")
    /\ analysis' = [analysis EXCEPT ![r][b].pc = "persist"]
    /\ UNCHANGED <<binStatus, stock, capture, job, runStatus, call, request, world, history>>

(* classifyAndPersistAuditCapture writes its result where the claim is     *)
(* still its own.                                                          *)
PersistReading(r, b) ==
    LET seen == analysis[r][b].seen
        outcome == Outcome(seen, audit[r][b].expected)
    IN
    /\ Analysing(r, b, "persist")
    /\ IF Claimed(r, b)
       THEN /\ capture' = [capture EXCEPT ![r][b].observed = seen,
                 ![r][b].status = CASE outcome = "UNSAFE" -> "RETRY_REQUIRED"
                                    [] outcome = "REVIEW_DECREASE" -> "REVIEW_DECREASE"
                                    [] outcome = "UNEXPECTED_STOCK" -> "ACCEPTED"
                                    [] OTHER -> "PENDING_ACK"]
            /\ AnalysisEnds(r, b)
       ELSE /\ analysis' = [analysis EXCEPT ![r][b].pc = "error", ![r][b].seen = Unsafe]
            /\ UNCHANGED capture
    /\ UNCHANGED <<binStatus, stock, audit, job, runStatus, call, request, world, history>>

(* Every error becomes a request for a new photo, where the claim holds.   *)
FailAnalysis(r, b) ==
    /\ Analysing(r, b, "error")
    /\ IF Claimed(r, b) THEN SetCapture(r, b, "RETRY_REQUIRED") ELSE UNCHANGED capture
    /\ AnalysisEnds(r, b)
    /\ UNCHANGED <<binStatus, stock, audit, job, runStatus, call, request, world, history>>

---------------------------------------------------------------------------
(* Requests of the browser that owns the audit.  An unattended audit has   *)
(* no owner: nobody can decide about its captures.                         *)

Asked(q, kind, pc) == request[q].kind = kind /\ request[q].pc = pc
Answered(q) == request' = [request EXCEPT ![q] = IdleRequest]
Step(q, pc) == request' = [request EXCEPT ![q].pc = pc]

(* The capture's status is still the one the request has read.             *)
AsRead(q, r, b) == capture[r][b].status = request[q].status

(* The statuses in which a request is not refused outright.  Without a     *)
(* change of stock a bin may go back by AUTO_RETURN of anything that was   *)
(* counted, and by DISMISS of anything still open.                         *)
Decidable(kind) ==
    CASE kind = "AUTO_RETURN" -> {"PENDING_ACK"} \cup Retryable
      [] kind = "DISMISS" -> {"PENDING_ACK"} \cup Undecided
      [] kind = "RETRY" -> Undecided
      [] kind = "ACCEPT" -> {"PENDING_ACK", "REVIEW_DECREASE"}
      [] kind = "CAMERA" -> {"WAITING_FOR_CAMERA"}

(* The audit no longer expects what is recorded.                           *)
Outdated(r, b) == audit[r][b].expected # stock[b]

(* The request is authenticated and reads its capture.                     *)
ReadCapture(q, kind, r, b) ==
    /\ request[q].pc = "idle"
    /\ call[r].trigger = "CLIENT"
    /\ capture[r][b].status \in Decidable(kind)
    /\ kind = "CAMERA" => audit[r][b].status = "RUNNING" /\ binStatus[b] = "AUDITING"
    /\ request' = [request EXCEPT ![q] =
         [pc |-> "decide", kind |-> kind, run |-> r, bin |-> b, status |-> capture[r][b].status,
          attempt |-> IF kind = "CAMERA" THEN capture[r][b].attempt ELSE 0,
          observed |-> IF kind = "ACCEPT" THEN capture[r][b].observed ELSE Unsafe]]
    /\ UNCHANGED <<tables, runStatus, analysis, call, world, history>>

(* requestAuditCameraCapture: an active job serves this request too.       *)
AskForPhoto(q) ==
    LET r == request[q].run  b == request[q].bin IN
    /\ Asked(q, "CAMERA", "decide")
    /\ job' = [job EXCEPT ![r][b] = IF @ = 0 THEN request[q].attempt ELSE @]
    /\ Answered(q)
    /\ UNCHANGED <<binStatus, stock, audit, capture, runStatus, analysis, call, world, history>>

(* Mutant of Retry: not conditional on the status that was read.           *)
RetryAnyway(q) ==
    LET r == request[q].run  b == request[q].bin IN
    /\ Asked(q, "RETRY", "decide")
    /\ capture[r][b].attempt < MaxAttempts
    /\ capture' = [capture EXCEPT ![r][b] =
         [status |-> "WAITING_FOR_CAMERA", attempt |-> @.attempt + 1, observed |-> Unsafe]]
    /\ job' = [job EXCEPT ![r][b] = 0]
    /\ Answered(q)
    /\ UNCHANGED <<binStatus, stock, audit, runStatus, analysis, call, world, history>>

(* RETRY: a new attempt; the job of the old one is cancelled.              *)
Retry(q) ==
    LET r == request[q].run  b == request[q].bin IN
    /\ Asked(q, "RETRY", "decide")
    /\ IF AsRead(q, r, b)
       THEN /\ capture[r][b].attempt < MaxAttempts
            /\ capture' = [capture EXCEPT ![r][b] =
                 [status |-> "WAITING_FOR_CAMERA", attempt |-> @.attempt + 1, observed |-> Unsafe]]
            /\ job' = [job EXCEPT ![r][b] = 0]
       ELSE UNCHANGED <<capture, job>>
    /\ Answered(q)
    /\ UNCHANGED <<binStatus, stock, audit, runStatus, analysis, call, world, history>>

(* AUTO_RETURN and DISMISS: one transaction, which without the lock on the *)
(* bin does nothing.                                                       *)
ReturnUnchanged(q) ==
    LET r == request[q].run  b == request[q].bin IN
    /\ \E kind \in {"AUTO_RETURN", "DISMISS"} :
         /\ Asked(q, kind, "decide")
         /\ IF AsRead(q, r, b) /\ binStatus[b] = "AUDITING"
            THEN /\ Unlock(b, OriginalStatus(r, b), Outdated(r, b))
                 /\ CloseAudit(r, b, "DISMISSED", "OTHER")
                 /\ SetCapture(r, b, "ACCEPTED")
                 /\ job' = IF kind = "DISMISS" /\ request[q].status # "PENDING_ACK"
                           THEN [job EXCEPT ![r][b] = 0] ELSE job
            ELSE UNCHANGED <<binStatus, audit, capture, job, history>>
    /\ Answered(q)
    /\ UNCHANGED <<stock, runStatus, analysis, call, world>>

(* Mutant of AcceptDecrease: the bin gets the status it was listed with.   *)
AcceptDecreaseOldStatus(q) ==
    LET r == request[q].run  b == request[q].bin  n == request[q].observed IN
    /\ Asked(q, "ACCEPT", "decide")
    /\ request[q].status # "PENDING_ACK"
    /\ IF AsRead(q, r, b) /\ ~Outdated(r, b) /\ binStatus[b] = "AUDITING"
       THEN /\ stock' = [stock EXCEPT ![b] = n]
            /\ SetCapture(r, b, "ACCEPTED")
            /\ Unlock(b, OriginalStatus(r, b), FALSE)
            /\ CloseAudit(r, b, "CONFIRMED", "OTHER")
       ELSE UNCHANGED <<stock, capture, binStatus, audit, history>>
    /\ Answered(q)
    /\ UNCHANGED <<job, runStatus, analysis, call, world>>

(* ACCEPT of a lower count: one transaction that writes the count the      *)
(* request has read, provided the stock is what the audit expected.        *)
AcceptDecrease(q) ==
    LET r == request[q].run  b == request[q].bin  n == request[q].observed IN
    /\ Asked(q, "ACCEPT", "decide")
    /\ request[q].status # "PENDING_ACK"
    /\ IF AsRead(q, r, b) /\ ~Outdated(r, b) /\ binStatus[b] = "AUDITING"
       THEN /\ stock' = [stock EXCEPT ![b] = n]
            /\ SetCapture(r, b, "ACCEPTED")
            /\ Unlock(b, ShelfStatus(n), FALSE)
            /\ CloseAudit(r, b, "CONFIRMED", "OTHER")
       ELSE UNCHANGED <<stock, capture, binStatus, audit, history>>
    /\ Answered(q)
    /\ UNCHANGED <<job, runStatus, analysis, call, world>>

(* ACCEPT of an equal or higher count takes four statements: the capture   *)
(* is claimed, the outcome applied, recorded, and the capture closed.      *)
ClaimAcknowledgement(q) ==
    LET r == request[q].run  b == request[q].bin IN
    /\ Asked(q, "ACCEPT", "decide")
    /\ request[q].status = "PENDING_ACK"
    /\ IF AsRead(q, r, b)
       THEN SetCapture(r, b, "FINALIZING") /\ Step(q, "apply")
       ELSE Answered(q) /\ UNCHANGED capture
    /\ UNCHANGED <<binStatus, stock, audit, job, runStatus, analysis, call, world, history>>

(* applyAuditOutcome for VERIFIED and AUTO_RECONCILED.  Only a higher      *)
(* count is compared with the stock; a count that equals the expectation   *)
(* decides the status of the bin by itself.                                *)
ApplyOutcome(q) ==
    LET r == request[q].run  b == request[q].bin  n == request[q].observed
        higher == n > audit[r][b].expected
    IN
    /\ Asked(q, "ACCEPT", "apply")
    /\ IF binStatus[b] = "AUDITING" /\ (higher => ~Outdated(r, b))
       THEN /\ stock' = IF higher THEN [stock EXCEPT ![b] = n] ELSE stock
            /\ Unlock(b, ShelfStatus(n), ~higher /\ Outdated(r, b))
            /\ Step(q, "record")
       ELSE /\ Unlock(b, OriginalStatus(r, b), Outdated(r, b))
            /\ Step(q, "reject")
            /\ UNCHANGED stock
    /\ UNCHANGED <<audit, capture, job, runStatus, analysis, call, world>>

RecordOutcome(q) ==
    LET r == request[q].run  b == request[q].bin
        higher == request[q].observed > audit[r][b].expected
    IN
    /\ \/ /\ Asked(q, "ACCEPT", "record")
          /\ CloseAudit(r, b, IF higher THEN "AUTO_RECONCILED" ELSE "VERIFIED", "OTHER")
       \/ /\ Asked(q, "ACCEPT", "reject")
          /\ CloseAudit(r, b, "REVIEW_REQUIRED", "OTHER")
    /\ Step(q, "close")
    /\ UNCHANGED <<binStatus, stock, capture, job, runStatus, analysis, call, world, history>>

CloseCapture(q) ==
    LET r == request[q].run  b == request[q].bin IN
    /\ Asked(q, "ACCEPT", "close")
    /\ IF capture[r][b].status = "FINALIZING" THEN SetCapture(r, b, "ACCEPTED")
                                              ELSE UNCHANGED capture
    /\ Answered(q)
    /\ UNCHANGED <<binStatus, stock, audit, job, runStatus, analysis, call, world, history>>

---------------------------------------------------------------------------
(* confirmBinAuditObservation: a later decision on a REVIEW_REQUIRED row.  *)

ReadAudit(q, kind, r, b) ==
    /\ request[q].pc = "idle"
    /\ audit[r][b].status = "REVIEW_REQUIRED"
    /\ kind = "APPLY" => audit[r][b].why = "audit_pending_confirmation"
    /\ request' = [request EXCEPT ![q] =
         [pc |-> "decide", kind |-> kind, run |-> r, bin |-> b, status |-> "NONE",
          attempt |-> 0, observed |-> IF kind = "APPLY" THEN audit[r][b].observed ELSE Unsafe]]
    /\ UNCHANGED <<tables, runStatus, analysis, call, world, history>>

(* setInventoryQuantity: refused while the bin is audited, and where it    *)
(* adds stock while the bin is disabled.  An equal count needs no write.   *)
ApplyLate(q) ==
    LET b == request[q].bin  n == request[q].observed IN
    /\ Asked(q, "APPLY", "decide")
    /\ IF n = stock[b]
       THEN Step(q, "confirm") /\ UNCHANGED <<stock, binStatus, history>>
       ELSE IF binStatus[b] = "AUDITING" \/ (binStatus[b] = "DISABLED" /\ n > stock[b])
       THEN Answered(q) /\ UNCHANGED <<stock, binStatus, history>>
       ELSE /\ stock' = [stock EXCEPT ![b] = n]
            /\ binStatus' = [binStatus EXCEPT ![b] = IF @ \in OnShelf THEN ShelfStatus(n) ELSE @]
            /\ misjudged' = misjudged \ {b} /\ UNCHANGED freed
            /\ Step(q, "confirm")
    /\ UNCHANGED <<audit, capture, job, runStatus, analysis, call, world>>

(* The row is written whatever it has become since it was read.            *)
FinishLate(q) ==
    LET r == request[q].run  b == request[q].bin IN
    /\ \/ Asked(q, "APPLY", "confirm") /\ CloseAudit(r, b, "CONFIRMED", "OTHER")
       \/ Asked(q, "DROP", "decide") /\ CloseAudit(r, b, "DISMISSED", "OTHER")
    /\ Answered(q)
    /\ UNCHANGED <<binStatus, stock, capture, job, runStatus, analysis, call, world, history>>

RequestStep ==
    \E q \in Requests :
        \/ \E r \in Runs, b \in Bins :
             \/ \E kind \in Kinds \cap CaptureKinds : ReadCapture(q, kind, r, b)
             \/ \E kind \in Kinds \cap ReviewKinds : ReadAudit(q, kind, r, b)
        \/ AskForPhoto(q) \/ Retry(q) \/ ReturnUnchanged(q) \/ AcceptDecrease(q)
        \/ ClaimAcknowledgement(q) \/ ApplyOutcome(q) \/ RecordOutcome(q) \/ CloseCapture(q)
        \/ ApplyLate(q) \/ FinishLate(q)

AnalysisStep(r, b) ==
    \/ Analyse(r, b) \/ DisableBin(r, b) \/ RecordUnexpectedStock(r, b)
    \/ PersistReading(r, b) \/ FailAnalysis(r, b)

=============================================================================
