------------------------------ MODULE Console ------------------------------
(***************************************************************************)
(* One operator's browser: the session that outlives its pages             *)
(* (components/warehouse/session.tsx), the stream that tells it how its    *)
(* camera job goes (lib/camera/capture-client.ts and the route behind it), *)
(* and the dialog that stores a scanned item (guided-putaway-dialog.tsx).  *)
(* A request is handled when its answer arrives, which may be long after   *)
(* the click: the operator goes on, and the answer finds another page      *)
(* than the one it was asked from.  Every answer uses what the click saw.  *)
(*                                                                         *)
(* The camera job itself is in CaptureQueue, a movement's way through the  *)
(* warehouse in GuidedPutaway; here they are their outcomes.               *)
(***************************************************************************)
EXTENDS CatalogResolution

CONSTANTS
    MaxScans,   \* bound on the scans of one session
    MaxFaults   \* bound on lost answers, cut streams, reloads and acts of others

VARIABLES
    page,      \* what the session shows
    pipeline,  \* how far startPiScan has come; piScanInFlightRef while not idle
    asked,     \* identity decisions whose answer is not there yet
    enrolment, \* registerNewPart: the scan it was clicked for, and how far it is
    job,       \* CameraCaptureJob.status of the scan under way
    stream,    \* the event stream of that job, at both ends
    dialog,    \* GuidedPutawayDialog
    putaway,   \* the call of the dialog that is under way
    movement,  \* per scan: its guided putaway on the server
    seen,      \* scans taken so far (history)
    told,      \* scans whose putaway the page was told of as failed, or lost (history)
    faults

sessionVars == <<page, pipeline, asked, enrolment>>
streamVars == <<job, stream>>
dialogVars == <<dialog, putaway, movement>>
vars == <<sessionVars, streamVars, dialogVars, seen, told, faults, catalogVars>>

Invalid == "invalid scan"   \* a measurement that is no ScanResult
Verdicts == {"none", "MATCHED", "AMBIGUOUS", "NO_MATCH"}
Match == [status: Verdicts, part: Parts \cup {NoPart}]
Unmatched == [status |-> "none", part |-> NoPart]

NoCard == [row |-> NoRow, scan |-> NoScan]
NoChoice == [row |-> NoRow, scan |-> NoScan, part |-> NoPart]

(* card is identification, choice is confirmed, busy is identityBusy.      *)
Page ==
    [phase: {"EMPTY", "MEASURING", "MATCHING", "READY", "FAILED"},
     scan: Scans \cup {NoScan, Invalid}, match: Match,
     card: [row: Resolutions \cup {NoRow}, scan: Scans \cup {NoScan}],
     choice: [row: Resolutions \cup {NoRow}, scan: Scans \cup {NoScan}, part: Parts \cup {NoPart}],
     rejected: BOOLEAN, busy: BOOLEAN]

FreshPage ==
    [phase |-> "EMPTY", scan |-> NoScan, match |-> Unmatched, card |-> NoCard,
     choice |-> NoChoice, rejected |-> FALSE, busy |-> FALSE]

(* A job that expired counts as one that failed.                           *)
Ended == {"COMPLETED", "FAILED", "CANCELLED"}

(* at: pushCurrent; again: pushAgain; got: the status it read; sent: the   *)
(* last event under way.                                                   *)
Stream ==
    [client: {"closed", "connecting", "open", "dead"}, at: {"idle", "reading", "read"},
     again: BOOLEAN, got: {"none", "ACTIVE"} \cup Ended, sent: {"none", "error"} \cup Ended]

NoStream ==
    [client |-> "closed", at |-> "idle", again |-> FALSE, got |-> "none", sent |-> "none"]

Dialog ==
    [open: BOOLEAN, scan: Scans \cup {NoScan},
     phase: {"CHOOSING", "RESERVING", "FETCHING", "AWAITING_PLACEMENT", "RETURNING",
             "SAVING", "FAILED", "OVER"}]

FreshDialog == [open |-> FALSE, scan |-> NoScan, phase |-> "CHOOSING"]

NoCall == [pc |-> "none", scan |-> NoScan, given |-> NoRow, match |-> Unmatched,
           shown |-> NoPart, placed |-> FALSE]

NoMovement == [status |-> "NONE", part |-> NoPart]

TypeOK ==
    /\ CatalogTypeOK
    /\ page \in Page
    /\ pipeline \in {"idle", "creating", "waiting", "matching", "identifying"}
    /\ asked \subseteq [kind: {"select", "reject", "reconsider"}, scan: Scans,
                        row: Resolutions \cup {NoRow}, part: Parts \cup {NoPart}]
    /\ enrolment \in [pc: {"none", "registering", "rematching"}, scan: Scans \cup {NoScan}]
    /\ job \in {"none", "ACTIVE"} \cup Ended
    /\ stream \in Stream
    /\ dialog \in Dialog
    /\ putaway \in [pc: {"none", "prepare", "present", "return", "commit"},
                    scan: Scans \cup {NoScan}, given: Resolutions \cup {NoRow}, match: Match,
                    shown: Parts \cup {NoPart}, placed: BOOLEAN]
    /\ movement \in [Scans -> [status: {"NONE", "VALIDATED", "AWAITING_PLACEMENT",
                        "READY_TO_COMMIT", "READY_TO_CANCEL", "COMPLETED", "CANCELLED", "FAILED"},
                      part: Parts \cup {NoPart}]]
    /\ seen \subseteq Scans /\ told \subseteq Scans
    /\ faults \in 0 .. MaxFaults

Init ==
    /\ CatalogInit({})
    /\ page = FreshPage /\ pipeline = "idle" /\ asked = {}
    /\ enrolment = [pc |-> "none", scan |-> NoScan]
    /\ job = "none" /\ stream = NoStream
    /\ dialog = FreshDialog /\ putaway = NoCall
    /\ movement = [s \in Scans |-> NoMovement]
    /\ seen = {} /\ told = {} /\ faults = 0

Fault == faults < MaxFaults /\ faults' = faults + 1

(* What the matcher answers the page.                                      *)
MatchOf(s) ==
    LET v == Verdict(s, catalog) IN [status |-> v.status, part |-> v.part]

---------------------------------------------------------------------------
(* What the page says the scan is.                                         *)

(* Mutant of Identity: a confirmation counts for any scan.                 *)
IdentityOfAnyScan ==
    IF page.scan = Invalid THEN "INVALID_SCAN"
    ELSE IF page.choice # NoChoice THEN "HUMAN_CONFIRMED"
    ELSE page.match.status

(* deriveScanIdentity: a confirmation counts for its own scan.             *)
Identity ==
    IF page.scan = Invalid THEN "INVALID_SCAN"
    ELSE IF page.choice # NoChoice /\ page.choice.scan = page.scan THEN "HUMAN_CONFIRMED"
    ELSE page.match.status

IdentityReady == Identity \in {"MATCHED", "HUMAN_CONFIRMED"}

(* The part CurrentScanPanel names.                                        *)
ShownPart == IF Identity = "HUMAN_CONFIRMED" THEN page.choice.part ELSE page.match.part

Choosing == dialog.open /\ dialog.phase = "CHOOSING"

(* CatalogResolutionCard is in the dialog, and in the agent's panel when   *)
(* no dialog covers it.  A confirmation hides the candidates, and so does  *)
(* a rejection.                                                            *)
CardIsShown ==
    /\ dialog.open => Choosing /\ Identity = "AMBIGUOUS"
    /\ page.choice = NoChoice

(* Once somebody has confirmed, the card says whom or what, if it is there *)
(* at all: for candidates that wait or were rejected.                      *)
CardConfirms ==
    /\ page.card # NoCard \/ page.rejected
    /\ dialog.open => Choosing /\ Identity = "AMBIGUOUS"
    /\ page.choice # NoChoice

CandidatesAreShown == CardIsShown /\ page.card # NoCard /\ ~page.rejected

RegistrationIsOffered ==
    /\ page.scan \in Scans
    /\ \/ CardIsShown /\ page.rejected
       \/ Choosing /\ Identity = "NO_MATCH"

---------------------------------------------------------------------------
(* Scanning.                                                               *)

Scanning == page.phase \in {"MEASURING", "MATCHING"}

(* beginNewScan: the decisions of the scan before are forgotten, but not   *)
(* the requests about them, nor identityBusy.  The dialog starts afresh.   *)
StartPiScan ==
    /\ ~dialog.open
    /\ ~Scanning /\ pipeline = "idle"
    /\ Cardinality(seen) < MaxScans
    /\ page' = [FreshPage EXCEPT !.phase = "MEASURING", !.busy = page.busy]
    /\ dialog' = FreshDialog
    /\ pipeline' = "creating"
    /\ UNCHANGED <<asked, enrolment, streamVars, putaway, movement, seen, told, faults, catalogVars>>

(* The scan failed: the dialog opens to say so.                            *)
ScanFails ==
    /\ page' = [page EXCEPT !.phase = "FAILED", !.scan = NoScan, !.match = Unmatched]
    /\ dialog' = [dialog EXCEPT !.open = TRUE]
    /\ pipeline' = "idle"

CreateCapture ==
    /\ pipeline = "creating"
    /\ \/ /\ job' = "ACTIVE"
          /\ stream' = [NoStream EXCEPT !.client = "connecting"]
          /\ pipeline' = "waiting"
          /\ UNCHANGED <<page, dialog, faults>>
       \/ /\ Fault
          /\ ScanFails
          /\ UNCHANGED streamVars
    /\ UNCHANGED <<asked, enrolment, putaway, movement, seen, told, catalogVars>>

(* The camera and its queue end the job.                                   *)
JobEnds ==
    /\ job = "ACTIVE"
    /\ job' \in Ended
    /\ UNCHANGED <<sessionVars, stream, dialogVars, seen, told, faults, catalogVars>>

STREAMS == UNCHANGED <<sessionVars, job, dialogVars, seen, told, catalogVars>>

(* The browser (re)connects, and the server pushes the status it finds.    *)
(* A connection that is refused is not tried again.                        *)
Connect ==
    /\ stream.client = "connecting"
    /\ \/ /\ stream' = [NoStream EXCEPT !.client = "open", !.at = "reading"]
          /\ UNCHANGED faults
       \/ Fault /\ stream' = [NoStream EXCEPT !.client = "dead"]
    /\ STREAMS

(* An update of the row, a heartbeat, or the expiry timer.  One that comes *)
(* during a push is remembered.                                            *)
Nudge ==
    /\ stream.client = "open" /\ stream.sent = "none"
    /\ stream' = IF stream.at = "idle" THEN [stream EXCEPT !.at = "reading"]
                 ELSE [stream EXCEPT !.again = TRUE]
    /\ UNCHANGED faults
    /\ STREAMS

ReadStatus ==
    /\ stream.client = "open" /\ stream.at = "reading"
    /\ \/ stream' = [stream EXCEPT !.at = "read", !.got = job] /\ UNCHANGED faults
       \/ Fault /\ stream' = [stream EXCEPT !.at = "idle", !.sent = "error"]
    /\ STREAMS

(* An ended job closes the stream behind its last event.                   *)
PushStatus ==
    /\ stream.client = "open" /\ stream.at = "read"
    /\ stream' = IF stream.got \in Ended
                 THEN [stream EXCEPT !.at = "idle", !.got = "none", !.sent = stream.got]
                 ELSE [stream EXCEPT !.at = IF stream.again THEN "reading" ELSE "idle",
                                     !.again = FALSE, !.got = "none"]
    /\ UNCHANGED faults
    /\ STREAMS

(* The network, or the server's time limit.                                *)
StreamIsCut ==
    /\ stream.client = "open"
    /\ Fault
    /\ stream' = [NoStream EXCEPT !.client = "connecting"]
    /\ STREAMS

(* The measurement becomes a scan, or is not fit to be one.                *)
HearCompleted ==
    /\ stream.sent = "COMPLETED" /\ pipeline = "waiting"
    /\ \/ \E s \in Scans \ seen :
            /\ page' = [page EXCEPT !.phase = "MATCHING", !.scan = s, !.match = Unmatched]
            /\ seen' = seen \cup {s}
            /\ pipeline' = "matching"
            /\ UNCHANGED <<dialog, faults>>
       \/ /\ Fault
          /\ page' = [page EXCEPT !.phase = "READY", !.scan = Invalid, !.match = Unmatched]
          /\ dialog' = [dialog EXCEPT !.open = TRUE]
          /\ pipeline' = "idle"
          /\ UNCHANGED seen
       \/ Fault /\ ScanFails /\ UNCHANGED seen
    /\ stream' = NoStream
    /\ job' = "none"
    /\ UNCHANGED <<asked, enrolment, putaway, movement, told, catalogVars>>

(* Mutant of Failures: a cancelled job is not noticed.                     *)
FailuresButCancelled == {"FAILED", "error"}

Failures == {"FAILED", "CANCELLED", "error"}

HearFailure ==
    /\ stream.sent \in Failures /\ pipeline = "waiting"
    /\ ScanFails
    /\ stream' = NoStream
    /\ job' = "none"
    /\ UNCHANGED <<asked, enrolment, putaway, movement, seen, told, faults, catalogVars>>

(* The verdict is shown; an ambiguous one opens a decision at once.        *)
HearMatch ==
    /\ pipeline = "matching"
    /\ \/ LET m == MatchOf(page.scan)
          IN /\ page' = [page EXCEPT !.phase = "READY", !.match = m,
                                     !.busy = @ \/ m.status = "AMBIGUOUS"]
             /\ pipeline' = IF m.status = "AMBIGUOUS" THEN "identifying" ELSE "idle"
             /\ UNCHANGED faults
       \/ /\ Fault
          /\ page' = [page EXCEPT !.phase = "READY"]
          /\ pipeline' = "idle"
    /\ dialog' = [dialog EXCEPT !.open = TRUE]
    /\ UNCHANGED <<asked, enrolment, streamVars, putaway, movement, seen, told, catalogVars>>

---------------------------------------------------------------------------
(* Identifying.                                                            *)

(* The server opens a row for an ambiguous scan; anything else needs none. *)
Opened(s, card) ==
    IF Verdict(s, catalog).status = "AMBIGUOUS"
    THEN \E r \in Resolutions :
           /\ resolution[r].status = "NONE"
           /\ resolution' = [resolution EXCEPT ![r] =
                [status |-> "PENDING", scan |-> s, candidates |-> Verdict(s, catalog).candidates,
                 selected |-> NoPart]]
           /\ card = [row |-> r, scan |-> s]
    ELSE UNCHANGED resolution /\ card = NoCard

Cards == [row: Resolutions, scan: Scans] \cup {NoCard}

IDENTIFIES == UNCHANGED <<enrolment, streamVars, dialogVars, seen, told, catalog, old, clerk>>

(* requestIdentification, from the pipeline.                               *)
HearCandidates ==
    /\ pipeline = "identifying"
    /\ \/ \E card \in Cards :
            /\ Opened(page.scan, card)
            /\ page' = [page EXCEPT !.busy = FALSE, !.card = IF card = NoCard THEN @ ELSE card]
            /\ UNCHANGED faults
       \/ Fault /\ page' = [page EXCEPT !.busy = FALSE] /\ UNCHANGED resolution
    /\ pipeline' = "idle"
    /\ UNCHANGED <<asked, confirmed>>
    /\ IDENTIFIES

Click(kind, scan, row, part) ==
    /\ ~page.busy
    /\ asked' = asked \cup {[kind |-> kind, scan |-> scan, row |-> row, part |-> part]}
    /\ page' = [page EXCEPT !.busy = TRUE]
    /\ UNCHANGED <<pipeline, confirmed, resolution, faults>>
    /\ IDENTIFIES

SelectCandidate ==
    /\ CandidatesAreShown
    /\ \E p \in resolution[page.card.row].candidates :
         Click("select", page.card.scan, page.card.row, p)

RejectIdentification ==
    /\ CandidatesAreShown
    /\ Click("reject", page.card.scan, page.card.row, NoPart)

(* "Back to identification", before any slot is reserved.                  *)
ReconsiderIdentification ==
    /\ Choosing /\ IdentityReady /\ page.scan \in Scans /\ page.choice # NoChoice
    /\ Click("reconsider", page.scan, NoRow, NoPart)

(* The server writes the decision if the row still waits for one.          *)
Decided(a, status) ==
    resolution' = [resolution EXCEPT
        ![a.row].status = IF Outlived(a.row) THEN "EXPIRED" ELSE status,
        ![a.row].selected = IF Outlived(a.row) THEN @ ELSE a.part]

Pending(r) == resolution[r].status = "PENDING"

(* The answer confirms what was clicked, and closes the card that is there *)
(* now.  Refused or lost, it leaves both as they are.                      *)
HearSelected(a) ==
    /\ a.kind = "select"
    /\ IF Pending(a.row) THEN Decided(a, "CONFIRMED") ELSE UNCHANGED resolution
    /\ confirmed' = IF resolution'[a.row].status = "CONFIRMED" /\ Pending(a.row)
                    THEN confirmed \cup {<<a.scan, a.part>>} ELSE confirmed
    /\ \/ /\ page' = IF Pending(a.row) /\ ~Outlived(a.row)
                     THEN [page EXCEPT !.busy = FALSE, !.card = NoCard,
                             !.choice = [row |-> a.row, scan |-> a.scan, part |-> a.part]]
                     ELSE [page EXCEPT !.busy = FALSE]
          /\ UNCHANGED faults
       \/ Fault /\ page' = [page EXCEPT !.busy = FALSE]

HearRejected(a) ==
    /\ a.kind = "reject"
    /\ IF Pending(a.row) THEN Decided(a, "REJECTED") ELSE UNCHANGED resolution
    /\ \/ /\ page' = IF Pending(a.row) /\ ~Outlived(a.row)
                     THEN [page EXCEPT !.busy = FALSE, !.card = NoCard, !.rejected = TRUE]
                     ELSE [page EXCEPT !.busy = FALSE]
          /\ UNCHANGED faults
       \/ Fault /\ page' = [page EXCEPT !.busy = FALSE]
    /\ UNCHANGED confirmed

(* The old choice is retired once a new row is open.                       *)
HearReconsidered(a) ==
    /\ a.kind = "reconsider"
    /\ \/ \E card \in Cards :
            /\ Opened(a.scan, card)
            /\ page' = IF card = NoCard THEN [page EXCEPT !.busy = FALSE]
                       ELSE [page EXCEPT !.busy = FALSE, !.card = card, !.choice = NoChoice,
                                         !.rejected = FALSE]
            /\ UNCHANGED faults
       \/ Fault /\ page' = [page EXCEPT !.busy = FALSE] /\ UNCHANGED resolution
    /\ UNCHANGED confirmed

HearDecision ==
    /\ \E a \in asked :
         /\ asked' = asked \ {a}
         /\ HearSelected(a) \/ HearRejected(a) \/ HearReconsidered(a)
    /\ UNCHANGED pipeline
    /\ IDENTIFIES

---------------------------------------------------------------------------
(* Registering a part.                                                     *)

ENROLS == UNCHANGED <<pipeline, asked, streamVars, dialogVars, seen, told, resolution, old, clerk, confirmed>>

RegisterNewPart ==
    /\ RegistrationIsOffered
    /\ enrolment.pc = "none"
    /\ enrolment' = [pc |-> "registering", scan |-> page.scan]
    /\ UNCHANGED <<page, catalog, faults>>
    /\ ENROLS

Registrable(s) ==
    \/ Verdict(s, catalog).status = "NO_MATCH"
    \/ Verdict(s, catalog).status = "AMBIGUOUS" /\ Rejected(s)

NotEnrolling == [pc |-> "none", scan |-> NoScan]

(* registerScanAsPart: refused, or done and perhaps never heard of.        *)
HearRegistered ==
    LET s == enrolment.scan
    IN /\ enrolment.pc = "registering"
       /\ IF Registrable(s) /\ Registered[s] \ catalog # {}
          THEN /\ \E p \in Registered[s] \ catalog : catalog' = catalog \cup {p}
               /\ \/ enrolment' = [enrolment EXCEPT !.pc = "rematching"] /\ UNCHANGED faults
                  \/ Fault /\ enrolment' = NotEnrolling
          ELSE enrolment' = NotEnrolling /\ UNCHANGED <<catalog, faults>>
       /\ UNCHANGED page
       /\ ENROLS

(* Mutant of Rematched: the verdict is put on the scan that is shown.      *)
RematchedAny(s) == [page EXCEPT !.match = IF page.scan \in Scans THEN MatchOf(s) ELSE @]

(* The new verdict is shown only if the page still shows the scan.         *)
Rematched(s) == [page EXCEPT !.match = IF page.scan = s THEN MatchOf(s) ELSE @]

HearRematch ==
    /\ enrolment.pc = "rematching"
    /\ \/ page' = Rematched(enrolment.scan) /\ UNCHANGED faults
       \/ Fault /\ UNCHANGED page
    /\ enrolment' = NotEnrolling
    /\ UNCHANGED catalog
    /\ ENROLS

---------------------------------------------------------------------------
(* Storing the item.                                                       *)

(* Mutant of Locked: a dialog that waits for the operator can be closed.   *)
LockedWhileMoving == dialog.phase \in {"RESERVING", "FETCHING", "RETURNING", "SAVING"}

Locked ==
    dialog.phase \in {"RESERVING", "FETCHING", "AWAITING_PLACEMENT", "RETURNING", "SAVING"}

DIALOGS == UNCHANGED <<sessionVars, streamVars, seen, faults, catalog, old, clerk, confirmed>>
ONLYDIALOG == UNCHANGED <<putaway, movement, told, resolution>>

CloseDialog ==
    /\ dialog.open /\ ~Locked
    /\ dialog' = [dialog EXCEPT !.open = FALSE]
    /\ ONLYDIALOG /\ DIALOGS

ReviewLatestScan ==
    /\ ~dialog.open /\ page.phase \in {"READY", "FAILED"}
    /\ dialog' = [dialog EXCEPT !.open = TRUE]
    /\ ONLYDIALOG /\ DIALOGS

(* Continue: the confirmation goes with the scan, whosever it is.          *)
Start ==
    /\ Choosing /\ IdentityReady /\ page.scan \in Scans
    /\ dialog' = [dialog EXCEPT !.phase = "RESERVING"]
    /\ putaway' = [NoCall EXCEPT !.pc = "prepare", !.scan = page.scan,
                     !.given = page.choice.row, !.match = page.match, !.shown = ShownPart]
    /\ UNCHANGED <<movement, told, resolution>>
    /\ DIALOGS

(* applyFailure: the call is over, and the dialog offers to be closed.     *)
GiveUp ==
    /\ dialog' = [dialog EXCEPT !.phase = "FAILED"]
    /\ putaway' = NoCall
    /\ told' = told \cup {putaway.scan}

GoesOn(phase, pc) ==
    /\ dialog' = [dialog EXCEPT !.phase = phase]
    /\ putaway' = IF pc = "none" THEN NoCall ELSE [putaway EXCEPT !.pc = pc]
    /\ UNCHANGED told

MoveTo(s, status) == movement' = [movement EXCEPT ![s].status = status]

(* prepareGuidedPutaway; the bin may have been taken meanwhile.  Any       *)
(* answer may be lost after the step was done.  One scan is prepared once: *)
(* a dialog that failed only closes.                                       *)
HearPrepared ==
    LET s == putaway.scan
        p == ResolveIdentity(s, putaway.given).part
    IN /\ putaway.pc = "prepare"
       /\ ReadsResolution(s, putaway.given)
       /\ \/ /\ p # NoPart
             /\ movement' = [movement EXCEPT ![s] = [status |-> "VALIDATED", part |-> p]]
             /\ \/ /\ dialog' = [dialog EXCEPT !.phase = "FETCHING", !.scan = s]
                   /\ putaway' = [putaway EXCEPT !.pc = "present"]
                   /\ UNCHANGED told
                \/ GiveUp
          \/ GiveUp /\ UNCHANGED movement
       /\ DIALOGS

(* presentGuidedPutawayBin: busy, failed, or the bin is at the counter.    *)
HearPresented ==
    LET s == putaway.scan
    IN /\ putaway.pc = "present"
       /\ IF movement[s].status = "VALIDATED"
          THEN \/ MoveTo(s, "AWAITING_PLACEMENT") /\ GoesOn("AWAITING_PLACEMENT", "none")
               \/ \E status \in {"VALIDATED", "AWAITING_PLACEMENT", "FAILED"} :
                    MoveTo(s, status) /\ GiveUp
          ELSE GiveUp /\ UNCHANGED movement
       /\ UNCHANGED resolution
       /\ DIALOGS

(* Verify with the camera, or no item placed.                              *)
Settle(placed) ==
    /\ dialog.open /\ dialog.phase = "AWAITING_PLACEMENT" /\ putaway.pc = "none"
    /\ dialog' = [dialog EXCEPT !.phase = "RETURNING"]
    /\ putaway' = [NoCall EXCEPT !.pc = "return", !.scan = dialog.scan, !.placed = placed]
    /\ UNCHANGED <<movement, told, resolution>>
    /\ DIALOGS

(* returnGuidedPutawayBin: without a photo the decision is asked for       *)
(* again; with one the bin goes back, to be booked or not.                 *)
HearReturned ==
    LET s == putaway.scan
        ready == {"READY_TO_CANCEL"} \cup IF putaway.placed THEN {"READY_TO_COMMIT"} ELSE {}
    IN /\ putaway.pc = "return"
       /\ \/ /\ movement[s].status = "AWAITING_PLACEMENT"
             /\ \/ \E status \in ready : MoveTo(s, status) /\ GoesOn("SAVING", "commit")
                \/ \E status \in ready \cup {"AWAITING_PLACEMENT", "FAILED"} :
                     MoveTo(s, status) /\ GiveUp
          \/ /\ putaway.placed
             /\ GoesOn("AWAITING_PLACEMENT", "none")
             /\ UNCHANGED movement
          \/ /\ movement[s].status # "AWAITING_PLACEMENT"
             /\ GiveUp
             /\ UNCHANGED movement
       /\ UNCHANGED resolution
       /\ DIALOGS

(* commitGuidedPutaway.                                                    *)
HearCommitted ==
    LET s == putaway.scan
        next == IF movement[s].status = "READY_TO_COMMIT" THEN "COMPLETED" ELSE "CANCELLED"
    IN /\ putaway.pc = "commit"
       /\ \/ /\ movement[s].status \in {"READY_TO_COMMIT", "READY_TO_CANCEL"}
             /\ MoveTo(s, next)
             /\ GoesOn("OVER", "none") \/ GiveUp
          \/ GiveUp /\ UNCHANGED movement
       /\ UNCHANGED resolution
       /\ DIALOGS

---------------------------------------------------------------------------
(* Others.                                                                 *)

(* The page is loaded again: the session forgets, the server does not.     *)
Reload ==
    /\ Fault
    /\ page' = FreshPage /\ pipeline' = "idle" /\ asked' = {} /\ enrolment' = NotEnrolling
    /\ job' = "none" /\ stream' = NoStream
    /\ dialog' = FreshDialog /\ putaway' = NoCall
    /\ told' = told \cup ({dialog.scan, putaway.scan} \ {NoScan})
    /\ UNCHANGED <<movement, seen, catalogVars>>

(* Another operator registers a part; a row grows old; a recovery sweep    *)
(* closes a putaway that has taken too long.                               *)
Elsewhere ==
    /\ Fault
    /\ \/ /\ \E p \in UNION {Registered[s] : s \in Scans} \ catalog : catalog' = catalog \cup {p}
          /\ UNCHANGED <<resolution, old, clerk, confirmed, movement>>
       \/ (\E r \in Resolutions : Age(r)) /\ UNCHANGED movement
       \/ /\ \E s \in Scans : /\ movement[s].status \in {"VALIDATED", "AWAITING_PLACEMENT"}
                             /\ MoveTo(s, "FAILED")
          /\ UNCHANGED catalogVars
    /\ UNCHANGED <<sessionVars, streamVars, dialog, putaway, seen, told>>

Streams == Connect \/ Nudge \/ ReadStatus \/ PushStatus
Hears == CreateCapture \/ HearCompleted \/ HearFailure \/ HearMatch \/ HearCandidates

Next ==
    \/ StartPiScan \/ JobEnds \/ Streams \/ StreamIsCut \/ Hears
    \/ SelectCandidate \/ RejectIdentification \/ ReconsiderIdentification \/ HearDecision
    \/ RegisterNewPart \/ HearRegistered \/ HearRematch
    \/ CloseDialog \/ ReviewLatestScan \/ Start \/ HearPrepared \/ HearPresented
    \/ (\E placed \in BOOLEAN : Settle(placed)) \/ HearReturned \/ HearCommitted
    \/ Reload \/ Elsewhere

Spec == Init /\ [][Next]_vars

(* Requests are answered and events delivered; heartbeats come, and the    *)
(* camera's queue ends its jobs.                                           *)
FairSpec ==
    /\ Spec
    /\ WF_vars(Connect) /\ WF_vars(Nudge) /\ WF_vars(ReadStatus) /\ WF_vars(PushStatus)
    /\ WF_vars(Hears) /\ WF_vars(JobEnds)

---------------------------------------------------------------------------
(* "A resolution for scan_123 can never authorise scan_456": the identity  *)
(* that deriveScanIdentity gives, which CurrentScanPanel names and without *)
(* which Continue is not offered, was confirmed by an operator for this    *)
(* scan or is the matcher's answer for it, however late the answers about  *)
(* others come.  It says nothing of the card that confirms a choice: see   *)
(* ConfirmedIsThisScan.                                                    *)
ShownIdentityIsOfThisScan ==
    IdentityReady =>
      IF Identity = "HUMAN_CONFIRMED"
      THEN <<page.scan, ShownPart>> \in confirmed
      ELSE \E C \in PastCatalogs : Verdict(page.scan, C).part = ShownPart

(* "A new physical scan invalidates operator decisions attached to the     *)
(* previous scan" (session.tsx 393): where CatalogResolutionCard says that *)
(* an identity is confirmed, it is the identity of the scan on the page.   *)
(* Violated: the answer to a choice about the scan before comes after the  *)
(* new scan began, and the card of the new, ambiguous scan confirms it.    *)
ConfirmedIsThisScan == CardConfirms => page.choice.scan = page.scan

(* A slot is reserved for the part the page named when Continue was        *)
(* pressed, unless the matcher is sure of another: of one it was not sure  *)
(* of when the page heard of it, or one that an operator has overruled for *)
(* this scan.                                                              *)
StoredAsShown ==
    [][\A s \in Scans :
         (movement[s].status # "VALIDATED" /\ movement'[s].status = "VALIDATED") =>
           \/ movement'[s].part = putaway.shown
           \/ /\ MatchOf(s) = [status |-> "MATCHED", part |-> movement'[s].part]
              /\ \/ MatchOf(s) # putaway.match
                 \/ putaway.given # NoRow /\ resolution[putaway.given].scan = s]_vars

(* A bin at the counter whose putaway this page started, and has neither   *)
(* lost nor been told is over, is the one the dialog is about: the page    *)
(* goes on asking what became of it.                                       *)
BinAtCounterIsAskedAbout ==
    \A s \in Scans :
      (movement[s].status = "AWAITING_PLACEMENT" /\ s \notin told) =>
        dialog.scan = s /\ dialog.phase \in {"AWAITING_PLACEMENT", "RETURNING"}

(* Liveness: a scan ends in a result or in a message, whatever the stream  *)
(* went through, unless its reconnection was refused: then nothing bounds  *)
(* the wait.                                                               *)
EveryScanEnds == Scanning ~> (~Scanning \/ stream.client = "dead")

============================================================================
