------------------------------ MODULE AuditRun ------------------------------
(***************************************************************************)
(* runInventoryAudit, executeBinAudit and recoverStaleInventoryAudit: one  *)
(* request lists the bins to audit, and for each of them takes the         *)
(* hardware lease, locks the bin, has it carried to the scan station,      *)
(* waits for the photo and its decision, and has it carried back.          *)
(***************************************************************************)
EXTENDS AuditCapture

(* Where a call stands: the statement or trip it is about to make.         *)
CallPC ==
    {"idle", "recover", "create", "list", "next", "lease", "claim", "start",
     "present", "capture", "photo", "await", "return", "release", "record",
     "readBack", "audited", "settle", "done", "dead"}
Over == {"idle", "done", "dead"}

Triggers == {"CLIENT", "TRUSTED_INTERNAL"}

(* What recoverStaleInventoryAudit has read of the active run.             *)
NothingSeen ==
    [run |-> NoOne, open |-> {}, locked |-> {}, shown |-> {}, held |-> [b \in Bins |-> 0]]

NewCall ==
    [pc |-> "idle", trigger |-> "CLIENT", reportOnly |-> FALSE,
     planned |-> {}, expected |-> [b \in Bins |-> 0], bin |-> NoOne,
     orig |-> "AVAILABLE", result |-> "NONE", verdict |-> "COMPLETED",
     seen |-> NothingSeen]

At(r, pc) == call[r].pc = pc
Goto(r, pc) == call' = [call EXCEPT ![r].pc = pc]
GotoWith(r, pc, result) == call' = [call EXCEPT ![r].pc = pc, ![r].result = result]
Alive(r) == call[r].pc \notin Over
Trusted(r) == call[r].trigger = "TRUSTED_INTERNAL"

Active(r) == runStatus[r] = "RUNNING"

(* The call ends, and what it knew is forgotten.                           *)
End(r) == call' = [call EXCEPT ![r] = [NewCall EXCEPT !.pc = "done", !.trigger = call[r].trigger]]

(* The catch of runInventoryAudit: the run is FAILED, the call ends.       *)
FailRun(r) ==
    /\ runStatus' = [runStatus EXCEPT ![r] = "FAILED"]
    /\ End(r)

---------------------------------------------------------------------------
(* Recovery of an abandoned run, the first thing every audit does.         *)

OpenAudits(a) == {b \in Bins : audit[a][b].status \in Unfinished}

(* The call of run a has not touched its rows for half a minute or two:    *)
(* it is gone, or the gantry is on its way.                                *)
Silent(a) == ~Alive(a) \/ call[a].pc \in {"present", "return", "readBack"}

(* isRecoverableAudit.  An operator may take longer than a day, the camera *)
(* may never answer: a wait for either can always be abandoned.            *)
Recoverable(a) ==
    IF OpenAudits(a) = {} THEN Silent(a)
    ELSE \E b \in OpenAudits(a) :
           CASE capture[a][b].status = "CAPTURING" -> Analysing(a, b, "none")
             [] capture[a][b].status \in Undecided \cup {"PENDING_ACK"} -> TRUE
             [] capture[a][b].status = "FINALIZING" ->
                  ~Alive(a) /\ \A q \in Requests :
                     ~(request[q].run = a /\ request[q].bin = b /\ request[q].pc # "decide")
             [] OTHER -> Silent(a)

(* The request arrives and reads the active run.                           *)
Begin(r) ==
    /\ At(r, "idle")
    /\ \E trigger \in Triggers, reportOnly \in BOOLEAN :
         /\ reportOnly => trigger = "TRUSTED_INTERNAL"
         /\ \/ /\ \A a \in Runs : Active(a) => ~Recoverable(a)
               /\ call' = [call EXCEPT ![r] =
                    [NewCall EXCEPT !.pc = "create", !.trigger = trigger, !.reportOnly = reportOnly]]
            \/ \E a \in Runs :
                 /\ Active(a) /\ Recoverable(a)
                 /\ call' = [call EXCEPT ![r] =
                      [NewCall EXCEPT !.pc = "recover", !.trigger = trigger, !.reportOnly = reportOnly,
                         !.seen = [run |-> a, open |-> OpenAudits(a),
                                   locked |-> {b \in OpenAudits(a) : binStatus[b] = "AUDITING"},
                                   shown |-> {b \in Bins : capture[a][b].status = "PENDING_ACK"}
                                               \ OpenAudits(a),
                                   held |-> stock]]]
    /\ UNCHANGED <<tables, runStatus, analysis, request, world, history>>

(* Mutant of RecoveredStatus: a physical bin is taken to be on its shelf.  *)
RecoveredToShelf(r, b) == ShelfStatus(call[r].seen.held[b])

(* Where a bin stands is known of the simulator only.                      *)
RecoveredStatus(r, b) ==
    IF Production THEN "DISABLED" ELSE ShelfStatus(call[r].seen.held[b])

Verdict(statuses) ==
    IF statuses \cap {"FAILED", "REVIEW_REQUIRED", "DISMISSED"} # {}
    THEN "COMPLETED_WITH_ISSUES" ELSE "COMPLETED"

(* One transaction, conditional on the run alone: rows that changed since  *)
(* they were read are overwritten.                                         *)
Recover(r) ==
    LET seen == call[r].seen  a == seen.run IN
    /\ At(r, "recover")
    /\ IF Active(a)
       THEN /\ capture' = [capture EXCEPT ![a] = [b \in Bins |->
                 CASE b \in seen.open /\ @[b].status \in Undecided \cup {"CAPTURING", "PENDING_ACK"} ->
                        [@[b] EXCEPT !.status = "FAILED"]
                   [] b \in seen.shown /\ @[b].status = "PENDING_ACK" ->
                        [@[b] EXCEPT !.status = "ACCEPTED"]
                   [] OTHER -> @[b]]]
            /\ job' = [job EXCEPT ![a] = [b \in Bins |-> IF b \in seen.open THEN 0 ELSE @[b]]]
            /\ audit' = [audit EXCEPT ![a] = [b \in Bins |->
                 IF b \in seen.open
                 THEN [@[b] EXCEPT !.status = "FAILED", !.why = "OTHER"]
                 ELSE @[b]]]
            /\ binStatus' = [b \in Bins |->
                 IF b \in seen.locked /\ binStatus[b] = "AUDITING"
                 THEN RecoveredStatus(r, b) ELSE binStatus[b]]
            /\ runStatus' = [runStatus EXCEPT ![a] =
                 IF seen.open # {} THEN "FAILED"
                 ELSE Verdict({audit[a][b].status : b \in Bins})]
       ELSE UNCHANGED <<capture, job, audit, binStatus, runStatus>>
    /\ call' = [call EXCEPT ![r].pc = "create", ![r].seen = NothingSeen]
    /\ UNCHANGED <<stock, analysis, request, world, history>>

---------------------------------------------------------------------------
(* runInventoryAudit.                                                      *)

(* activeKey is unique: one run is active.  An unattended audit is for one *)
(* stocked bin on its shelf.                                               *)
CreateRun(r) ==
    /\ At(r, "create")
    /\ IF \/ \E a \in Runs : Active(a)
          \/ Trusted(r) /\ \A b \in Bins : ~(binStatus[b] \in OnShelf /\ stock[b] > 0)
       THEN End(r) /\ UNCHANGED runStatus
       ELSE Goto(r, "list") /\ runStatus' = [runStatus EXCEPT ![r] = "RUNNING"]
    /\ UNCHANGED <<tables, analysis, request, world, history>>

(* One bin, whatever its status, or every bin on its shelf.  What the bins *)
(* should hold is read now, for all of them.                               *)
ListBins(r) ==
    /\ At(r, "list")
    /\ \E planned \in {{b} : b \in Bins} \cup
          (IF Trusted(r) THEN {} ELSE {{b \in Bins : binStatus[b] \in OnShelf}}) :
         IF planned = {}
         THEN FailRun(r)
         ELSE /\ call' = [call EXCEPT ![r].pc = "next", ![r].planned = planned,
                                      ![r].expected = stock]
              /\ UNCHANGED runStatus
    /\ UNCHANGED <<tables, analysis, request, world, history>>

CreateAudit(r) ==
    /\ At(r, "next")
    /\ \E b \in call[r].planned :
         /\ audit' = [audit EXCEPT ![r][b] =
              [NoAudit EXCEPT !.status = "PENDING", !.expected = call[r].expected[b]]]
         /\ call' = [call EXCEPT ![r].pc = "lease", ![r].bin = b, ![r].planned = @ \ {b},
                                 ![r].expected[b] = 0]
    /\ UNCHANGED <<binStatus, stock, capture, job, runStatus, analysis, request, world, history>>

(* withWarehouseHardwareLease does not wait: gantry_busy ends the run, and *)
(* leaves the audit PENDING.                                               *)
TakeLease(r) ==
    /\ At(r, "lease")
    /\ IF lease = NoOne
       THEN lease' = r /\ Goto(r, "claim") /\ UNCHANGED runStatus
       ELSE FailRun(r) /\ UNCHANGED lease
    /\ UNCHANGED <<tables, analysis, request, place, changes, restarts, stranded, history>>

(* The graph gives its result back, or has taken more than two minutes and *)
(* throws; the lease is given back in both cases.                          *)
EndSession(r) ==
    /\ At(r, "audited")
    /\ lease' = IF lease = r THEN NoOne ELSE lease
    /\ \/ /\ call' = [call EXCEPT
               ![r].pc = IF call[r].reportOnly /\ call[r].result = "REVIEW_REQUIRED" THEN "settle" ELSE "next",
               ![r].orig = "AVAILABLE", ![r].result = "NONE",
               ![r].planned = IF call[r].result = "RETURN_FAILED" THEN {} ELSE @,
               ![r].verdict = CASE call[r].result = "RETURN_FAILED" -> "FAILED"
                                [] call[r].result \in {"FAILED", "REVIEW_REQUIRED", "DISMISSED"} ->
                                     "COMPLETED_WITH_ISSUES"
                                [] OTHER -> @]
          /\ UNCHANGED runStatus
       \/ FailRun(r)
    /\ UNCHANGED <<tables, analysis, request, place, changes, restarts, stranded, history>>

(* REPORT_ONLY: what needs a review is dismissed without one.              *)
SettleReview(r) ==
    LET b == call[r].bin IN
    /\ At(r, "settle")
    /\ IF audit[r][b].status = "REVIEW_REQUIRED"
       THEN CloseAudit(r, b, "DISMISSED", "OTHER") /\ Goto(r, "next") /\ UNCHANGED runStatus
       ELSE FailRun(r) /\ UNCHANGED audit
    /\ UNCHANGED <<binStatus, stock, capture, job, analysis, request, world, history>>

(* The verdict is written whatever has become of the run.                  *)
FinishRun(r) ==
    /\ At(r, "next")
    /\ call[r].planned = {}
    /\ runStatus' = [runStatus EXCEPT ![r] = call[r].verdict]
    /\ End(r)
    /\ UNCHANGED <<tables, analysis, request, world, history>>

---------------------------------------------------------------------------
(* executeBinAudit.                                                        *)

(* failAudit overwrites whatever the audit has become.                     *)
FailAudit(r, why, result) ==
    /\ CloseAudit(r, call[r].bin, "FAILED", why)
    /\ GotoWith(r, "audited", result)

(* The graph validates that the audit is PENDING, which it always is so    *)
(* soon; the bin is locked where its status has not changed since read.    *)
ClaimBin(r) ==
    LET b == call[r].bin IN
    /\ At(r, "claim")
    /\ \/ /\ binStatus[b] \in OnShelf
          /\ binStatus' = [binStatus EXCEPT ![b] = "AUDITING"]
          /\ call' = [call EXCEPT ![r].pc = "start", ![r].orig = binStatus[b]]
          /\ freed' = IF place[b] = "rack" THEN freed \ {b} ELSE freed
          /\ stranded' = IF place[b] = "rack" THEN stranded \ {b} ELSE stranded
          /\ UNCHANGED audit
       \/ /\ binStatus[b] \notin OnShelf
          /\ FailAudit(r, "OTHER", "FAILED")
          /\ UNCHANGED <<binStatus, freed, stranded>>
    /\ UNCHANGED <<stock, capture, job, runStatus, analysis, request, place, lease, changes, restarts,
                   misjudged>>

(* The audit is RUNNING; should that not be saved, the lock is given back. *)
StartAudit(r) ==
    LET b == call[r].bin IN
    /\ At(r, "start")
    /\ \/ /\ CloseAudit(r, b, "RUNNING", "OTHER")
          /\ Goto(r, "present")
          /\ UNCHANGED <<binStatus, runStatus, lease>>
       \/ /\ Release(b, call[r].orig)
          /\ FailRun(r)
          /\ lease' = IF lease = r THEN NoOne ELSE lease
          /\ UNCHANGED audit
    /\ UNCHANGED <<stock, capture, job, analysis, request, place, changes, restarts, stranded,
                   history>>

(* A trip that fails leaves the bin at one end of it.                      *)
Left(b, where) ==
    /\ place' = [place EXCEPT ![b] = where]
    /\ stranded' = IF where = "scan" THEN stranded \cup {b} ELSE stranded

(* The trip to the scan station succeeds; or it is refused, or fails where *)
(* the bin is known not to have moved; or its outcome is uncertain, and    *)
(* the bin stays locked.                                                   *)
Present(r) ==
    LET b == call[r].bin IN
    /\ At(r, "present")
    /\ \/ /\ place' = [place EXCEPT ![b] = "scan"]
          /\ Goto(r, "capture")
          /\ UNCHANGED <<binStatus, audit, stranded>>
       \/ /\ Release(b, call[r].orig)
          /\ FailAudit(r, "OTHER", "FAILED")
          /\ UNCHANGED <<place, stranded>>
       \/ /\ Production
          /\ \E where \in {"rack", "scan"} : Left(b, where)
          /\ FailAudit(r, "audit_move_uncertain", "FAILED")
          /\ UNCHANGED binStatus
    /\ UNCHANGED <<stock, capture, job, runStatus, analysis, request, lease, changes, restarts,
                   history>>

CreateCapture(r) ==
    LET b == call[r].bin IN
    /\ At(r, "capture")
    /\ capture' = [capture EXCEPT ![r][b] =
         [status |-> "WAITING_FOR_CAMERA", attempt |-> 1, observed |-> Unsafe]]
    /\ Goto(r, "photo")
    /\ UNCHANGED <<binStatus, stock, audit, job, runStatus, analysis, request, world, history>>

(* requestAuditCameraCapture by the audit itself: the first photo.         *)
RequestPhoto(r) ==
    LET b == call[r].bin IN
    /\ At(r, "photo")
    /\ IF /\ capture[r][b].status = "WAITING_FOR_CAMERA"
          /\ audit[r][b].status = "RUNNING" /\ binStatus[b] = "AUDITING"
       THEN /\ job' = [job EXCEPT ![r][b] = IF @ = 0 THEN capture[r][b].attempt ELSE @]
            /\ Goto(r, "await")
       ELSE /\ GotoWith(r, "return", "FAILED")
            /\ UNCHANGED job
    /\ UNCHANGED <<binStatus, stock, audit, capture, runStatus, analysis, request, world,
                   history>>

(* Mutant of SeeCapture: an unattended audit waits for a better photo.     *)
SeeClearCapture(r) ==
    LET b == call[r].bin  status == capture[r][b].status IN
    /\ At(r, "await")
    /\ \/ /\ status \in CaptureOver
          /\ GotoWith(r, "return", IF status = "ACCEPTED" THEN "FINAL" ELSE "FAILED")
          /\ UNCHANGED <<binStatus, audit, capture, history>>
       \/ /\ Trusted(r) /\ status = "PENDING_ACK"
          /\ Unlock(b, OriginalStatus(r, b), Outdated(r, b))
          /\ CloseAudit(r, b, "DISMISSED", "OTHER")
          /\ SetCapture(r, b, "ACCEPTED")
          /\ GotoWith(r, "return", "FINAL")
    /\ UNCHANGED <<stock, job, runStatus, analysis, request, world>>

(* waitForTerminalCapture.  Nobody answers for an unattended audit: a      *)
(* clear count is returned without a change, anything else is given up.    *)
SeeCapture(r) ==
    LET b == call[r].bin  status == capture[r][b].status IN
    /\ At(r, "await")
    /\ \/ /\ status \in CaptureOver
          /\ GotoWith(r, "return", IF status = "ACCEPTED" THEN "FINAL" ELSE "FAILED")
          /\ UNCHANGED <<binStatus, audit, capture, history>>
       \/ /\ Trusted(r) /\ status \in Retryable
          /\ GotoWith(r, "return", "GIVEN_UP")
          /\ UNCHANGED <<binStatus, audit, capture, history>>
       \/ /\ Trusted(r) /\ status = "PENDING_ACK"
          /\ IF binStatus[b] = "AUDITING"
             THEN /\ Unlock(b, OriginalStatus(r, b), Outdated(r, b))
                  /\ CloseAudit(r, b, "DISMISSED", "OTHER")
                  /\ SetCapture(r, b, "ACCEPTED")
                  /\ GotoWith(r, "return", "FINAL")
             ELSE /\ GotoWith(r, "return", "FAILED")
                  /\ UNCHANGED <<binStatus, audit, capture, history>>
    /\ UNCHANGED <<stock, job, runStatus, analysis, request, world>>

(* The analysis has stopped renewing its claim: the capture has failed.    *)
ExpireCapture(r) ==
    LET b == call[r].bin IN
    /\ At(r, "await")
    /\ capture[r][b].status = "CAPTURING"
    /\ Analysing(r, b, "none")
    /\ SetCapture(r, b, "FAILED")
    /\ GotoWith(r, "return", "FAILED")
    /\ UNCHANGED <<binStatus, stock, audit, job, runStatus, analysis, request, world, history>>

(* The trip back.  A failure leaves the bin as it is, locked or not.       *)
Return(r) ==
    LET b == call[r].bin IN
    /\ At(r, "return")
    /\ \/ /\ place' = [place EXCEPT ![b] = "rack"]
          /\ Goto(r, CASE call[r].result = "FAILED" -> "release"
                       [] call[r].result = "GIVEN_UP" -> "release"
                       [] OTHER -> "readBack")
          /\ UNCHANGED <<audit, stranded>>
       \/ /\ \E where \in {"scan"} \cup (IF Production THEN {"rack"} ELSE {}) : Left(b, where)
          /\ FailAudit(r, "audit_return_failed", "RETURN_FAILED")
    /\ UNCHANGED <<binStatus, stock, capture, job, runStatus, analysis, request, lease, changes,
                   restarts, history>>

(* No result: the lock is given back, then the audit recorded.  A count    *)
(* that was given up awaits a later decision.                              *)
ReleaseBin(r) ==
    LET b == call[r].bin IN
    /\ At(r, "release")
    /\ Release(b, call[r].orig)
    /\ GotoWith(r, "record",
         IF call[r].result = "GIVEN_UP" /\ binStatus[b] # "AUDITING" THEN "LOCK_LOST" ELSE call[r].result)
    /\ UNCHANGED <<stock, audit, capture, job, runStatus, analysis, request, world, history>>

RecordResult(r) ==
    LET b == call[r].bin  n == capture[r][b].observed IN
    /\ At(r, "record")
    /\ IF call[r].result = "FAILED"
       THEN FailAudit(r, "OTHER", "FAILED")
       ELSE /\ audit' = [audit EXCEPT ![r][b].status = "REVIEW_REQUIRED", ![r][b].observed = n,
                 ![r][b].why = IF n = Unsafe \/ call[r].result = "LOCK_LOST"
                               THEN "OTHER" ELSE "audit_pending_confirmation"]
            /\ GotoWith(r, "audited", "REVIEW_REQUIRED")
    /\ UNCHANGED <<binStatus, stock, capture, job, runStatus, analysis, request, world, history>>

(* The decision, or the analysis, has settled the audit already.           *)
ReadBack(r) ==
    /\ At(r, "readBack")
    /\ GotoWith(r, "audited", audit[r][call[r].bin].status)
    /\ UNCHANGED <<tables, runStatus, analysis, request, world, history>>

CallStep(r) ==
    \/ Recover(r) \/ CreateRun(r) \/ ListBins(r) \/ CreateAudit(r) \/ TakeLease(r)
    \/ EndSession(r) \/ SettleReview(r) \/ FinishRun(r)
    \/ ClaimBin(r) \/ StartAudit(r) \/ Present(r) \/ CreateCapture(r) \/ RequestPhoto(r)
    \/ SeeCapture(r) \/ ExpireCapture(r) \/ Return(r) \/ ReleaseBin(r) \/ RecordResult(r)
    \/ ReadBack(r)

=============================================================================
