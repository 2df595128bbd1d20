------------------------------- MODULE Audit -------------------------------
(***************************************************************************)
(* Inventory audits among the other workflows of the warehouse, which are  *)
(* reduced to what an audit can see of them, and a server that restarts:   *)
(* every call, request and analysis ends, and the rows stay.               *)
(***************************************************************************)
EXTENDS AuditRun

Init ==
    /\ stock \in [Bins -> Quantities]
    /\ binStatus = [b \in Bins |-> ShelfStatus(stock[b])]
    /\ place = [b \in Bins |-> "rack"]
    /\ runStatus = [r \in Runs |-> "NONE"]
    /\ audit = [r \in Runs |-> [b \in Bins |-> NoAudit]]
    /\ capture = [r \in Runs |-> [b \in Bins |-> NoCapture]]
    /\ job = [r \in Runs |-> [b \in Bins |-> 0]]
    /\ analysis = [r \in Runs |-> [b \in Bins |-> NoAnalysis]]
    /\ call = [r \in Runs |-> NewCall]
    /\ request = [q \in Requests |-> IdleRequest]
    /\ lease = NoOne
    /\ changes = 0
    /\ restarts = 0
    /\ stranded = {}
    /\ misjudged = {}
    /\ freed = {}

---------------------------------------------------------------------------
(* Other workflows.                                                        *)

Change == changes < MaxChanges /\ changes' = changes + 1

(* A retrieval, putaway or return reserves the bin; RESERVED stands for    *)
(* CHECKED_OUT too.                                                        *)
OtherReserve(b) ==
    /\ Change
    /\ binStatus[b] \in OnShelf
    /\ binStatus' = [binStatus EXCEPT ![b] = "RESERVED"]
    /\ UNCHANGED <<stock, audit, capture, job, runStatus, analysis, call, request, place, lease,
                   restarts, stranded, history>>

(* It carries the bin away; a trip needs the hardware lease.               *)
OtherCarry(b) ==
    /\ binStatus[b] = "RESERVED" /\ place[b] = "rack" /\ lease = NoOne
    /\ place' = [place EXCEPT ![b] = "away"]
    /\ UNCHANGED <<tables, runStatus, analysis, call, request, lease, changes, restarts, stranded,
                   history>>

(* It brings the bin back with a new count, or lets the reservation go.    *)
OtherFinish(b) ==
    /\ binStatus[b] = "RESERVED"
    /\ \/ /\ place[b] = "away" /\ lease = NoOne
          /\ \E n \in Quantities : stock' = [stock EXCEPT ![b] = n]
       \/ /\ place[b] # "away"
          /\ UNCHANGED stock
    /\ place' = [place EXCEPT ![b] = IF @ = "away" THEN "rack" ELSE @]
    /\ binStatus' = [binStatus EXCEPT ![b] = ShelfStatus(stock'[b])]
    /\ misjudged' = misjudged \ {b}
    /\ UNCHANGED <<freed, audit, capture, job, runStatus, analysis, call, request, lease, changes,
                   restarts, stranded>>

(* A manual correction; stock of an audited bin cannot be changed.         *)
SetStock(b) ==
    /\ Change
    /\ binStatus[b] \in OnShelf
    /\ \E n \in Quantities \ {stock[b]} :
         /\ stock' = [stock EXCEPT ![b] = n]
         /\ binStatus' = [binStatus EXCEPT ![b] = ShelfStatus(n)]
    /\ misjudged' = misjudged \ {b}
    /\ UNCHANGED <<freed, audit, capture, job, runStatus, analysis, call, request, place, lease, restarts,
                   stranded>>

---------------------------------------------------------------------------
(* Faults.                                                                 *)

Fault == restarts < MaxRestarts /\ restarts' = restarts + 1

(* The process that analyses a photo dies alone.                           *)
LoseAnalysis(r, b) ==
    /\ Fault
    /\ ~Analysing(r, b, "none")
    /\ AnalysisEnds(r, b)
    /\ UNCHANGED <<tables, runStatus, call, request, place, lease, changes, stranded, history>>

(* The server restarts.  The simulator forgets where bins were; a trip of  *)
(* the machine goes on or stops.                                           *)
Restart ==
    /\ Fault
    /\ call' = [r \in Runs |-> 
         IF Alive(r) THEN [NewCall EXCEPT !.pc = "dead", !.trigger = call[r].trigger] ELSE call[r]]
    /\ request' = [q \in Requests |-> IdleRequest]
    /\ analysis' = [r \in Runs |-> [b \in Bins |-> NoAnalysis]]
    /\ \E moved \in {p \in [Bins -> {"rack", "scan", "away"}] :
                       \A b \in Bins : p[b] = place[b]
                          \/ \E r \in Runs : call[r].bin = b /\ call[r].pc \in {"present", "return"}
                                             /\ p[b] # "away"} :
         place' = IF Production THEN moved
                  ELSE [b \in Bins |-> IF place[b] = "scan" THEN "rack" ELSE place[b]]
    /\ stranded' = stranded \cup {b \in Bins : place'[b] = "scan"}
    /\ UNCHANGED <<tables, runStatus, lease, changes, history>>

(* The lease of a dead call runs out.                                      *)
LeaseExpires ==
    /\ lease # NoOne /\ ~Alive(lease)
    /\ lease' = NoOne
    /\ UNCHANGED <<tables, runStatus, analysis, call, request, place, changes, restarts, stranded,
                   history>>

---------------------------------------------------------------------------
Next ==
    \/ \E r \in Runs : Begin(r) \/ CallStep(r)
    \/ \E r \in Runs, b \in Bins :
         ReceivePhoto(r, b) \/ LoseJob(r, b) \/ AnalysisStep(r, b) \/ LoseAnalysis(r, b)
    \/ RequestStep
    \/ \E b \in Bins : OtherReserve(b) \/ OtherCarry(b) \/ OtherFinish(b) \/ SetStock(b)
    \/ Restart \/ LeaseExpires

Spec == Init /\ [][Next]_vars

(* A live server runs its calls and analyses, and trips end.  Nobody has   *)
(* to decide, and no camera has to answer.                                 *)
Fairness ==
    /\ \A r \in Runs : WF_vars(CallStep(r))
    /\ \A r \in Runs, b \in Bins :
         WF_vars(AnalysisStep(r, b)) /\ WF_vars(ReceivePhoto(r, b) \/ LoseJob(r, b))

FairSpec == Spec /\ Fairness

---------------------------------------------------------------------------
TypeOK ==
    /\ binStatus \in [Bins -> OnShelf \cup {"AUDITING", "RESERVED", "DISABLED"}]
    /\ stock \in [Bins -> Quantities]
    /\ place \in [Bins -> {"rack", "scan", "away"}]
    /\ runStatus \in [Runs -> {"NONE", "RUNNING", "COMPLETED", "COMPLETED_WITH_ISSUES", "FAILED"}]
    /\ \A r \in Runs, b \in Bins :
         /\ audit[r][b].status \in
              Unfinished \cup {"NONE", "FAILED", "VERIFIED", "AUTO_RECONCILED", "CONFIRMED",
                               "DISMISSED", "REVIEW_REQUIRED"}
         /\ capture[r][b].status \in
              Undecided \cup CaptureOver \cup {"NONE", "CAPTURING", "PENDING_ACK", "FINALIZING"}
         /\ capture[r][b].attempt \in 0 .. MaxAttempts /\ job[r][b] \in 0 .. MaxAttempts
         /\ capture[r][b].observed \in Readings
    /\ \A r \in Runs : call[r].pc \in CallPC
    /\ lease \in Runs \cup {NoOne}

(* A bin at the scan station that the books do not show as audited or out  *)
(* of service was unlocked there by a decision: no call, no analysis and   *)
(* no recovery takes the lock from a bin at the scan station.  A live      *)
(* audit, which holds the lease, is bringing the bin back, unless a trip   *)
(* or the server has failed.                                               *)
ScanStationIsAttended ==
    \A b \in Bins : place[b] = "scan" /\ binStatus[b] \in OnShelf \cup {"RESERVED"} =>
        /\ b \in freed
        /\ b \in stranded \/ (lease # NoOne /\ Alive(lease) /\ call[lease].bin = b)

(* A bin back on the books has the status its stock calls for, unless the  *)
(* audit's expectation was outdated when its lock was given back.          *)
StatusMatchesStock ==
    \A b \in Bins : binStatus[b] \in OnShelf /\ b \notin misjudged =>
        binStatus[b] = ShelfStatus(stock[b])

(* A capture is decided once: no photo, retry, decision or recovery that   *)
(* comes later changes it.                                                 *)
DecidedOnce ==
    [][\A r \in Runs, b \in Bins :
          /\ capture[r][b].status \in CaptureOver => capture'[r][b] = capture[r][b]
          /\ capture[r][b].status = "FINALIZING" => capture'[r][b].status \in {"FINALIZING", "ACCEPTED"}]_vars

(* An unattended audit ends by itself, whatever the photo shows, unless    *)
(* the server restarts or the camera never delivers the photo.             *)
UnattendedAuditEnds ==
    \A r \in Runs, b \in Bins :
        Trusted(r) /\ audit[r][b].status = "RUNNING" ~>
            \/ audit[r][b].status \notin Unfinished
            \/ ~Alive(r)
            \/ capture[r][b].status = "WAITING_FOR_CAMERA" /\ job[r][b] = 0

============================================================================
