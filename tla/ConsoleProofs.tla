---------------------------- MODULE ConsoleProofs ----------------------------
(***************************************************************************)
(* Proofs about one operator's session, for any scans, parts, rows and     *)
(* matcher, and however often it is reloaded.  First the identity that a   *)
(* scan is given on the page, then what became of the bin at the counter,  *)
(* and last the name under which an item is stored.                        *)
(***************************************************************************)
EXTENDS Console, TLAPS

PageFields == {"phase", "scan", "match", "card", "choice", "rejected", "busy"}
RowFields == {"status", "scan", "candidates", "selected"}

---------------------------------------------------------------------------
(* The verdict on the page is one the matcher gave for the scan it shows,  *)
(* whatever the catalog has grown to since.                                *)
MatchIsOfTheScan ==
    \/ page.match = Unmatched
    \/ /\ page.scan \in Scans
       /\ \E C \in PastCatalogs :
            /\ page.match.status = Verdict(page.scan, C).status
            /\ page.match.part = Verdict(page.scan, C).part

(* The choice may be about an earlier scan, but it was made.               *)
ChoiceWasMade == page.choice # NoChoice => <<page.choice.scan, page.choice.part>> \in confirmed

(* What is asked of the server is about a row.                             *)
RowsAreRows ==
    /\ page.card # NoCard => page.card.row \in Resolutions
    /\ \A a \in asked : a.kind = "select" => a.row \in Resolutions

ScanIsKnown ==
    /\ pipeline = "matching" => page.scan \in Scans
    /\ enrolment.pc # "none" => enrolment.scan \in Scans

SessionShape ==
    /\ DOMAIN page = PageFields
    /\ DOMAIN enrolment = {"pc", "scan"}
    /\ Parts \ UNION {Registered[s] : s \in Scans} \subseteq catalog /\ catalog \subseteq Parts
    /\ DOMAIN resolution = Resolutions
    /\ \A r \in Resolutions : DOMAIN resolution[r] = RowFields

SessionInv == SessionShape /\ MatchIsOfTheScan /\ ChoiceWasMade /\ RowsAreRows /\ ScanIsKnown

LEMMA PastStays ==
  ASSUME catalog \subseteq catalog'
  PROVE  PastCatalogs \subseteq PastCatalogs'
  BY DEF PastCatalogs

(* A step that says nothing new of the scan.                               *)
LEMMA PageStays ==
  ASSUME SessionInv, catalog \subseteq catalog', catalog' \subseteq Parts,
         confirmed \subseteq confirmed', DOMAIN resolution' = Resolutions,
         \A r \in Resolutions : DOMAIN resolution'[r] = RowFields,
         UNCHANGED <<page, asked, pipeline, enrolment>>
  PROVE  SessionInv'
  BY PastStays DEF SessionInv, SessionShape, MatchIsOfTheScan, ChoiceWasMade, RowsAreRows, ScanIsKnown

(* A row that is written stays a row.                                      *)
LEMMA RowWritten ==
  ASSUME SessionShape, NEW a, Decided(a, "CONFIRMED") \/ Decided(a, "REJECTED")
  PROVE  DOMAIN resolution' = Resolutions /\ \A r \in Resolutions : DOMAIN resolution'[r] = RowFields
  BY DEF SessionShape, Decided, RowFields

LEMMA RowOpened ==
  ASSUME SessionShape, NEW s, NEW card \in Cards, Opened(s, card)
  PROVE  DOMAIN resolution' = Resolutions /\ \A r \in Resolutions : DOMAIN resolution'[r] = RowFields
  BY DEF SessionShape, Opened, RowFields

(* The page a step leaves behind.                                          *)
LEMMA PageStep ==
  ASSUME SessionInv, DOMAIN page' = PageFields, page'.scan = page.scan,
         page'.match = page.match, page'.choice \in {page.choice, NoChoice},
         page'.card # NoCard => page'.card = page.card \/ page'.card.row \in Resolutions,
         asked' \subseteq asked,
         pipeline' = "matching" => pipeline = "matching",
         UNCHANGED <<catalog, enrolment>>, confirmed \subseteq confirmed',
         DOMAIN resolution' = Resolutions,
         \A r \in Resolutions : DOMAIN resolution'[r] = RowFields
  PROVE  SessionInv'
  <1>1. PastCatalogs' = PastCatalogs
    BY DEF PastCatalogs
  <1>2. SessionShape' /\ ChoiceWasMade' /\ ScanIsKnown'
    BY DEF SessionInv, SessionShape, ChoiceWasMade, ScanIsKnown
  <1>3. RowsAreRows'
    BY DEF SessionInv, RowsAreRows
  <1>4. MatchIsOfTheScan'
    BY <1>1 DEF SessionInv, MatchIsOfTheScan
  <1> QED
    BY <1>2, <1>3, <1>4 DEF SessionInv

---------------------------------------------------------------------------
(* Scanning.                                                               *)
LEMMA FreshPageInv ==
  ASSUME SessionInv, DOMAIN page' = PageFields, page'.match = Unmatched,
         page'.choice = NoChoice \/ page'.choice = page.choice,
         page'.card = NoCard \/ page'.card = page.card,
         asked' \subseteq asked, pipeline' = "matching" => page'.scan \in Scans,
         enrolment' = enrolment \/ enrolment' = NotEnrolling,
         UNCHANGED <<catalog, resolution>>, confirmed \subseteq confirmed'
  PROVE  SessionInv'
  BY DEF SessionInv, SessionShape, MatchIsOfTheScan, ChoiceWasMade, RowsAreRows, ScanIsKnown,
         NotEnrolling

LEMMA ScanningInv ==
  ASSUME SessionInv,
         StartPiScan \/ CreateCapture \/ HearCompleted \/ HearFailure \/ HearMatch \/ Reload
  PROVE  SessionInv'
  <1> USE DEF catalogVars
  <1>1. DOMAIN page = PageFields
    BY DEF SessionInv, SessionShape
  <1>2. CASE StartPiScan
    BY <1>1, <1>2, FreshPageInv DEF StartPiScan, FreshPage, PageFields
  <1>3. CASE Reload
    BY <1>1, <1>3, FreshPageInv DEF Reload, FreshPage, PageFields
  <1>4. CASE CreateCapture
    <2>1. CASE UNCHANGED page /\ pipeline' = "waiting"
      BY <1>4, <2>1, PageStep DEF CreateCapture, SessionInv, SessionShape
    <2>2. CASE ScanFails
      BY <1>1, <1>4, <2>2, FreshPageInv DEF CreateCapture, ScanFails, PageFields
    <2> QED
      BY <1>4, <2>1, <2>2 DEF CreateCapture
  <1>5. CASE HearCompleted
    <2>1. DOMAIN page' = PageFields /\ page'.match = Unmatched /\ page'.choice = page.choice
          /\ page'.card = page.card /\ (pipeline' = "matching" => page'.scan \in Scans)
      BY <1>1, <1>5 DEF HearCompleted, ScanFails, PageFields
    <2> QED
      BY <1>5, <2>1, FreshPageInv DEF HearCompleted
  <1>6. CASE HearFailure
    BY <1>1, <1>6, FreshPageInv DEF HearFailure, ScanFails, PageFields
  <1>7. CASE HearMatch
    <2>1. CASE page' = [page EXCEPT !.phase = "READY"] /\ pipeline' = "idle"
      BY <1>1, <1>7, <2>1, PageStep DEF HearMatch, PageFields, SessionInv, SessionShape
    <2>2. CASE page' = [page EXCEPT !.phase = "READY", !.match = MatchOf(page.scan),
                          !.busy = @ \/ MatchOf(page.scan).status = "AMBIGUOUS"]
               /\ pipeline' \in {"identifying", "idle"}
      <3>1. /\ DOMAIN page' = PageFields /\ page'.scan = page.scan
            /\ page'.match = MatchOf(page.scan) /\ page'.choice = page.choice
            /\ page'.card = page.card
        BY <1>1, <2>2 DEF PageFields
      <3>2. page.scan \in Scans /\ catalog \in PastCatalogs /\ catalog' = catalog
            /\ PastCatalogs' = PastCatalogs
        BY <1>7 DEF HearMatch, SessionInv, SessionShape, ScanIsKnown, PastCatalogs
      <3>3. MatchIsOfTheScan'
        BY <3>1, <3>2 DEF MatchIsOfTheScan, MatchOf
      <3> QED
        BY <1>7, <2>2, <3>1, <3>2, <3>3 DEF HearMatch, SessionInv, SessionShape, ChoiceWasMade,
                                          RowsAreRows, ScanIsKnown
    <2> QED
      BY <1>7, <2>1, <2>2 DEF HearMatch
  <1> QED
    BY <1>2, <1>3, <1>4, <1>5, <1>6, <1>7

---------------------------------------------------------------------------
(* Identifying.                                                            *)
LEMMA ClickInv ==
  ASSUME SessionInv, SelectCandidate \/ RejectIdentification \/ ReconsiderIdentification
  PROVE  SessionInv'
  <1>1. PICK kind, scan, row, part :
          /\ Click(kind, scan, row, part)
          /\ kind = "select" => row \in Resolutions
    BY DEF SelectCandidate, RejectIdentification, ReconsiderIdentification, CandidatesAreShown,
           SessionInv, RowsAreRows
  <1>2. DOMAIN page' = PageFields /\ page'.scan = page.scan /\ page'.match = page.match
        /\ page'.choice = page.choice /\ page'.card = page.card
    BY <1>1 DEF Click, SessionInv, SessionShape, PageFields
  <1>3. UNCHANGED <<pipeline, enrolment, catalog, resolution, confirmed>>
    BY <1>1 DEF Click, IDENTIFIES
  <1>4. RowsAreRows'
    BY <1>1, <1>2, <1>3 DEF Click, SessionInv, RowsAreRows
  <1> QED
    BY <1>2, <1>3, <1>4 DEF SessionInv, SessionShape, MatchIsOfTheScan, ChoiceWasMade, ScanIsKnown,
                            PastCatalogs

LEMMA HearCandidatesInv ==
  ASSUME SessionInv, HearCandidates
  PROVE  SessionInv'
  <1>1. DOMAIN page = PageFields
    BY DEF SessionInv, SessionShape
  <1>2. UNCHANGED <<asked, confirmed, enrolment, catalog>> /\ pipeline' = "idle"
    BY DEF HearCandidates, IDENTIFIES
  <1>3. ASSUME NEW card \in Cards, Opened(page.scan, card),
               page' = [page EXCEPT !.busy = FALSE, !.card = IF card = NoCard THEN @ ELSE card]
        PROVE  SessionInv'
    <2>1. card # NoCard => card.row \in Resolutions
      BY DEF Cards
    <2>2. /\ DOMAIN page' = PageFields /\ page'.scan = page.scan /\ page'.match = page.match
          /\ page'.choice = page.choice
          /\ page'.card = page.card \/ (card # NoCard /\ page'.card = card)
      BY <1>1, <1>3 DEF PageFields
    <2> QED
      BY <1>2, <1>3, <2>1, <2>2, RowOpened, PageStep DEF SessionInv
  <1>4. CASE page' = [page EXCEPT !.busy = FALSE] /\ UNCHANGED resolution
    BY <1>1, <1>2, <1>4, PageStep DEF SessionInv, SessionShape, PageFields
  <1> QED
    BY <1>3, <1>4 DEF HearCandidates

LEMMA HearDecisionInv ==
  ASSUME SessionInv, HearDecision
  PROVE  SessionInv'
  <1>1. PICK a \in asked :
          /\ asked' = asked \ {a}
          /\ HearSelected(a) \/ HearRejected(a) \/ HearReconsidered(a)
    BY DEF HearDecision
  <1>2. UNCHANGED <<pipeline, enrolment, catalog>> /\ DOMAIN page = PageFields /\ asked' \subseteq asked
    BY <1>1 DEF HearDecision, IDENTIFIES, SessionInv, SessionShape
  <1>3. CASE HearSelected(a)
    <2>1. DOMAIN resolution' = Resolutions /\ \A r \in Resolutions : DOMAIN resolution'[r] = RowFields
      BY <1>3, RowWritten DEF HearSelected, SessionInv, SessionShape
    <2>2. confirmed \subseteq confirmed'
      BY <1>3 DEF HearSelected
    <2>3. CASE page' = [page EXCEPT !.busy = FALSE]
      BY <1>2, <2>1, <2>2, <2>3, PageStep DEF PageFields, SessionInv, RowsAreRows
    <2>4. CASE /\ Pending(a.row) /\ ~Outlived(a.row)
               /\ page' = [page EXCEPT !.busy = FALSE, !.card = NoCard,
                             !.choice = [row |-> a.row, scan |-> a.scan, part |-> a.part]]
      <3>1. a.row \in Resolutions
        BY <1>3 DEF HearSelected, SessionInv, RowsAreRows
      <3>2. resolution'[a.row].status = "CONFIRMED"
        BY <1>3, <2>4, <3>1 DEF HearSelected, Decided, SessionInv, SessionShape, RowFields
      <3>3. <<a.scan, a.part>> \in confirmed'
        BY <1>3, <2>4, <3>2 DEF HearSelected
      <3>4. /\ DOMAIN page' = PageFields /\ page'.scan = page.scan /\ page'.match = page.match
            /\ page'.choice.scan = a.scan /\ page'.choice.part = a.part /\ page'.card = NoCard
        BY <1>2, <2>4 DEF PageFields
      <3>5. ChoiceWasMade'
        BY <3>3, <3>4 DEF ChoiceWasMade
      <3> QED
        BY <1>2, <2>1, <3>4, <3>5 DEF SessionInv, SessionShape, MatchIsOfTheScan, RowsAreRows,
                                      ScanIsKnown, PastCatalogs
    <2> QED
      BY <1>3, <2>3, <2>4 DEF HearSelected
  <1>4. CASE HearRejected(a)
    <2>1. DOMAIN resolution' = Resolutions /\ \A r \in Resolutions : DOMAIN resolution'[r] = RowFields
      BY <1>4, RowWritten DEF HearRejected, SessionInv, SessionShape
    <2>2. /\ DOMAIN page' = PageFields /\ page'.scan = page.scan /\ page'.match = page.match
          /\ page'.choice = page.choice /\ page'.card \in {page.card, NoCard}
      BY <1>2, <1>4 DEF HearRejected, PageFields
    <2> QED
      BY <1>2, <1>4, <2>1, <2>2, PageStep DEF HearRejected
  <1>5. CASE HearReconsidered(a)
    <2>1. ASSUME NEW card \in Cards, Opened(a.scan, card),
                 page' = IF card = NoCard THEN [page EXCEPT !.busy = FALSE]
                         ELSE [page EXCEPT !.busy = FALSE, !.card = card, !.choice = NoChoice,
                                           !.rejected = FALSE]
          PROVE  SessionInv'
      <3>1. card # NoCard => card.row \in Resolutions
        BY DEF Cards
      <3>2. /\ DOMAIN page' = PageFields /\ page'.scan = page.scan /\ page'.match = page.match
            /\ page'.choice \in {page.choice, NoChoice}
            /\ page'.card = page.card \/ (card # NoCard /\ page'.card = card)
        BY <1>2, <2>1 DEF PageFields
      <3> QED
        BY <1>2, <1>5, <2>1, <3>1, <3>2, RowOpened, PageStep DEF HearReconsidered, SessionInv
    <2>2. CASE page' = [page EXCEPT !.busy = FALSE] /\ UNCHANGED resolution
      BY <1>2, <1>5, <2>2, PageStep DEF HearReconsidered, SessionInv, SessionShape, PageFields
    <2> QED
      BY <1>5, <2>1, <2>2 DEF HearReconsidered
  <1> QED
    BY <1>1, <1>3, <1>4, <1>5

---------------------------------------------------------------------------
(* Registering, and everything that does not touch the page.               *)
LEMMA EnrolmentInv ==
  ASSUME SessionInv, RegisterNewPart \/ HearRegistered \/ HearRematch
  PROVE  SessionInv'
  <1>1. UNCHANGED <<pipeline, asked, resolution, confirmed>>
    BY DEF RegisterNewPart, HearRegistered, HearRematch, ENROLS
  <1>2. DOMAIN page = PageFields
    BY DEF SessionInv, SessionShape
  <1>3. CASE RegisterNewPart
    BY <1>1, <1>3 DEF RegisterNewPart, RegistrationIsOffered, SessionInv, SessionShape,
         MatchIsOfTheScan, ChoiceWasMade, RowsAreRows, ScanIsKnown, PastCatalogs
  <1>4. CASE HearRegistered
    <2>1. catalog \subseteq catalog' /\ catalog' \subseteq Parts
      BY <1>4, CatalogAssumption DEF HearRegistered, SessionInv, SessionShape, ScanIsKnown
    <2>2. PastCatalogs \subseteq PastCatalogs'
      BY <2>1, PastStays
    <2>3. MatchIsOfTheScan'
      BY <1>4, <2>2 DEF HearRegistered, SessionInv, MatchIsOfTheScan
    <2>4. DOMAIN enrolment' = {"pc", "scan"} /\ (enrolment'.pc # "none" => enrolment'.scan \in Scans)
      BY <1>4 DEF HearRegistered, NotEnrolling, SessionInv, SessionShape, ScanIsKnown
    <2> QED
      BY <1>1, <1>4, <2>1, <2>3, <2>4 DEF HearRegistered, SessionInv, SessionShape, ChoiceWasMade,
                                       RowsAreRows, ScanIsKnown
  <1>5. CASE HearRematch
    <2>1. enrolment.scan \in Scans /\ UNCHANGED catalog /\ catalog \in PastCatalogs
          /\ PastCatalogs' = PastCatalogs
      BY <1>5 DEF HearRematch, SessionInv, SessionShape, ScanIsKnown, PastCatalogs
    <2>2. CASE page' = page
      <3>1. MatchIsOfTheScan'
        BY <2>1, <2>2 DEF SessionInv, MatchIsOfTheScan
      <3> QED
        BY <1>1, <1>5, <2>1, <2>2, <3>1 DEF HearRematch, NotEnrolling, SessionInv, SessionShape,
                                         ChoiceWasMade, RowsAreRows, ScanIsKnown
    <2>3. CASE page' = Rematched(enrolment.scan)
      <3>1. /\ DOMAIN page' = PageFields /\ page'.scan = page.scan /\ page'.choice = page.choice
            /\ page'.card = page.card /\ page'.match = IF page.scan = enrolment.scan
                                                     THEN MatchOf(enrolment.scan) ELSE page.match
        BY <1>2, <2>3 DEF Rematched, PageFields
      <3>2. MatchIsOfTheScan'
        BY <1>2, <2>1, <3>1 DEF SessionInv, MatchIsOfTheScan, MatchOf, PageFields
      <3> QED
        BY <1>1, <1>5, <2>1, <3>1, <3>2 DEF HearRematch, NotEnrolling, SessionInv, SessionShape,
                                         ChoiceWasMade, RowsAreRows, ScanIsKnown
    <2> QED
      BY <1>5, <2>2, <2>3 DEF HearRematch
  <1> QED
    BY <1>3, <1>4, <1>5

LEMMA DialogSessionInv ==
  ASSUME SessionInv,
         \/ CloseDialog \/ ReviewLatestScan \/ Start \/ HearPrepared \/ HearPresented
         \/ \E placed \in BOOLEAN : Settle(placed)
         \/ HearReturned \/ HearCommitted
  PROVE  SessionInv'
  <1>1. UNCHANGED <<sessionVars, catalog, confirmed>>
    BY DEF CloseDialog, ReviewLatestScan, Start, HearPrepared, HearPresented, Settle,
           HearReturned, HearCommitted, DIALOGS
  <1>2. \/ UNCHANGED resolution
        \/ \E s, given : ReadsResolution(s, given)
    BY DEF CloseDialog, ReviewLatestScan, Start, HearPrepared, HearPresented, Settle,
           HearReturned, HearCommitted, ONLYDIALOG
  <1>3. DOMAIN resolution' = Resolutions /\ \A r \in Resolutions : DOMAIN resolution'[r] = RowFields
    BY <1>2 DEF ReadsResolution, SessionInv, SessionShape, RowFields
  <1> QED
    BY <1>1, <1>3, PageStays DEF sessionVars, SessionInv, SessionShape

LEMMA ElsewhereSessionInv ==
  ASSUME SessionInv, Elsewhere
  PROVE  SessionInv'
  <1>1. UNCHANGED <<sessionVars, resolution, confirmed>>
    BY DEF Elsewhere, Age, catalogVars
  <1>2. catalog \subseteq catalog' /\ catalog' \subseteq Parts
    BY CatalogAssumption DEF Elsewhere, Age, catalogVars, SessionInv, SessionShape
  <1> QED
    BY <1>1, <1>2, PageStays DEF sessionVars, SessionInv, SessionShape

LEMMA SessionStepInv ==
  ASSUME SessionInv, [Next]_vars
  PROVE  SessionInv'
  <1>1. CASE JobEnds \/ Streams \/ StreamIsCut
    <2>1. UNCHANGED <<sessionVars, catalogVars>>
      BY <1>1 DEF JobEnds, Streams, Connect, Nudge, ReadStatus, PushStatus, StreamIsCut, STREAMS
    <2> QED
      BY <2>1, PageStays DEF sessionVars, catalogVars, SessionInv, SessionShape
  <1>2. CASE UNCHANGED vars
    BY <1>2, PageStays DEF vars, sessionVars, catalogVars, SessionInv, SessionShape
  <1> QED
    BY <1>1, <1>2, ScanningInv, ClickInv, HearCandidatesInv, HearDecisionInv, EnrolmentInv,
       DialogSessionInv, ElsewhereSessionInv DEF Next, Hears

LEMMA SessionInitInv ==
  ASSUME Init
  PROVE  SessionInv
  BY DEF Init, CatalogInit, SessionInv, SessionShape, MatchIsOfTheScan, ChoiceWasMade, RowsAreRows,
         ScanIsKnown, FreshPage, PageFields, RowFields

LEMMA ShownFollows ==
  ASSUME SessionInv
  PROVE  ShownIdentityIsOfThisScan
  <1>1. CASE Identity = "HUMAN_CONFIRMED"
    <2>1. page.choice # NoChoice /\ page.choice.scan = page.scan
      <3>1. page.match.status # "HUMAN_CONFIRMED"
        <4>1. \A s \in Scans, C \in PastCatalogs : Verdict(s, C).status # "HUMAN_CONFIRMED"
          BY CatalogAssumption DEF PastCatalogs, SessionInv, SessionShape
        <4> QED
          BY <4>1 DEF SessionInv, MatchIsOfTheScan, Unmatched
      <3> QED
        BY <1>1, <3>1 DEF Identity
    <2> QED
      BY <1>1, <2>1 DEF SessionInv, ChoiceWasMade, ShownIdentityIsOfThisScan, ShownPart
  <1>2. CASE Identity = "MATCHED"
    <2>1. page.match.status = "MATCHED"
      BY <1>2 DEF Identity
    <2>2. \E C \in PastCatalogs : page.match.part = Verdict(page.scan, C).part
      BY <2>1 DEF SessionInv, MatchIsOfTheScan, Unmatched
    <2> QED
      BY <1>2, <2>2 DEF ShownIdentityIsOfThisScan, ShownPart
  <1> QED
    BY <1>1, <1>2 DEF ShownIdentityIsOfThisScan, IdentityReady

(* "A resolution for scan_123 can never authorise scan_456": what          *)
(* CurrentScanPanel names the scan, and what Continue goes by, was decided *)
(* about that scan, however many requests about earlier ones are under     *)
(* way.  The card that confirms a choice does not ask whose it is: see     *)
(* ConfirmedIsThisScan, which no theorem states because it is false.       *)
THEOREM PageNamesItsOwnScan == Spec => []ShownIdentityIsOfThisScan
  <1>1. SessionInv /\ [Next]_vars => SessionInv'
    BY SessionStepInv
  <1>2. Init => SessionInv
    BY SessionInitInv
  <1>3. SessionInv => ShownIdentityIsOfThisScan
    BY ShownFollows
  <1> QED
    BY <1>1, <1>2, <1>3, PTL DEF Spec

---------------------------------------------------------------------------
(* The dialog shows what its call is about, and is open while it does.     *)
DialogFields == {"open", "scan", "phase"}
CallFields == {"pc", "scan", "given", "match", "shown", "placed"}

DialogShape ==
    /\ DOMAIN dialog = DialogFields
    /\ DOMAIN putaway = CallFields
    /\ DOMAIN movement = Scans
    /\ \A s \in Scans : DOMAIN movement[s] = {"status", "part"}

CallIsShown ==
    /\ putaway.pc \in {"none", "prepare", "present", "return", "commit"}
    /\ putaway.pc = "prepare" => dialog.phase = "RESERVING"
    /\ putaway.pc = "present" => dialog.phase = "FETCHING" /\ dialog.scan = putaway.scan
    /\ putaway.pc = "return" => dialog.phase = "RETURNING" /\ dialog.scan = putaway.scan
    /\ putaway.pc = "commit" => dialog.phase = "SAVING"

LockedIsOpen == Locked => dialog.open

DialogInv == DialogShape /\ CallIsShown /\ LockedIsOpen /\ BinAtCounterIsAskedAbout

(* A step that changes nothing but whether a dialog that is not locked is  *)
(* open.                                                                   *)
LEMMA DialogStays ==
  ASSUME DialogInv, DOMAIN dialog' = DialogFields, dialog'.scan = dialog.scan,
         dialog'.phase = dialog.phase, dialog'.open = dialog.open \/ dialog'.open = TRUE \/ ~Locked,
         UNCHANGED <<putaway, movement, told>>
  PROVE  DialogInv'
  BY DEF DialogInv, DialogShape, CallIsShown, LockedIsOpen, Locked, BinAtCounterIsAskedAbout

LEMMA OthersDialogInv ==
  ASSUME DialogInv,
         \/ CreateCapture \/ HearCompleted \/ HearFailure \/ HearMatch \/ HearCandidates
         \/ JobEnds \/ Streams \/ StreamIsCut \/ SelectCandidate \/ RejectIdentification
         \/ ReconsiderIdentification \/ HearDecision \/ RegisterNewPart \/ HearRegistered
         \/ HearRematch \/ CloseDialog \/ ReviewLatestScan \/ UNCHANGED vars
  PROVE  DialogInv'
  <1>1. UNCHANGED <<putaway, movement, told>>
    BY DEF CreateCapture, HearCompleted, HearFailure, HearMatch, HearCandidates, JobEnds, Streams,
           Connect, Nudge, ReadStatus, PushStatus, StreamIsCut, SelectCandidate,
           RejectIdentification, ReconsiderIdentification, HearDecision, RegisterNewPart,
           HearRegistered, HearRematch, CloseDialog, ReviewLatestScan, Click, IDENTIFIES, ENROLS,
           STREAMS, ONLYDIALOG, dialogVars, vars
  <1>2. \/ dialog' = dialog
        \/ dialog' = [dialog EXCEPT !.open = TRUE]
        \/ dialog' = [dialog EXCEPT !.open = FALSE] /\ ~Locked
    BY DEF CreateCapture, HearCompleted, HearFailure, HearMatch, HearCandidates, JobEnds, Streams,
           Connect, Nudge, ReadStatus, PushStatus, StreamIsCut, SelectCandidate,
           RejectIdentification, ReconsiderIdentification, HearDecision, RegisterNewPart,
           HearRegistered, HearRematch, CloseDialog, ReviewLatestScan, Click, IDENTIFIES, ENROLS,
           STREAMS, ScanFails, dialogVars, vars
  <1>3. /\ DOMAIN dialog' = DialogFields /\ dialog'.scan = dialog.scan
        /\ dialog'.phase = dialog.phase
        /\ dialog'.open = dialog.open \/ dialog'.open = TRUE \/ ~Locked
    BY <1>2 DEF DialogInv, DialogShape, DialogFields
  <1> QED
    BY <1>1, <1>3, DialogStays

(* A dialog that starts afresh was about nothing, or is forgotten.         *)
LEMMA FreshDialogInv ==
  ASSUME DialogInv, StartPiScan \/ Reload
  PROVE  DialogInv'
  <1>1. CASE StartPiScan
    <2>1. ~Locked /\ putaway.pc = "none"
      BY <1>1 DEF StartPiScan, DialogInv, CallIsShown, LockedIsOpen, Locked
    <2>2. \A s \in Scans : movement[s].status = "AWAITING_PLACEMENT" => s \in told
      BY <2>1 DEF DialogInv, BinAtCounterIsAskedAbout, Locked
    <2> QED
      BY <1>1, <2>1, <2>2 DEF StartPiScan, FreshDialog, DialogFields, DialogInv, DialogShape,
           CallIsShown, LockedIsOpen, Locked, BinAtCounterIsAskedAbout
  <1>2. CASE Reload
    <2>1. \A s \in Scans : movement[s].status = "AWAITING_PLACEMENT" => s \in told'
      <3>1. \A s \in Scans : s # NoScan
        BY CatalogAssumption
      <3> QED
        BY <1>2, <3>1 DEF Reload, DialogInv, BinAtCounterIsAskedAbout
    <2> QED
      BY <1>2, <2>1 DEF Reload, FreshDialog, NoCall, DialogFields, CallFields, DialogInv,
           DialogShape, CallIsShown, LockedIsOpen, Locked, BinAtCounterIsAskedAbout
  <1> QED
    BY <1>1, <1>2

(* What the page gives up, it was told of.                                 *)
LEMMA GivingUpInv ==
  ASSUME DialogInv, GiveUp, putaway.pc # "none",
         DOMAIN movement' = Scans,
         \A s \in Scans : DOMAIN movement'[s] = {"status", "part"},
         \A s \in Scans : movement'[s].status = "AWAITING_PLACEMENT" =>
            s = putaway.scan \/ movement[s].status = "AWAITING_PLACEMENT"
  PROVE  DialogInv'
  <1>1. /\ DOMAIN dialog' = DialogFields /\ dialog'.phase = "FAILED" /\ dialog'.scan = dialog.scan
        /\ putaway' = NoCall /\ told' = told \cup {putaway.scan}
    BY DEF GiveUp, DialogInv, DialogShape, DialogFields
  <1>2. ASSUME NEW s \in Scans, movement'[s].status = "AWAITING_PLACEMENT"
        PROVE  s \in told'
    <2>1. CASE s = putaway.scan
      BY <1>1, <2>1
    <2>2. CASE movement[s].status = "AWAITING_PLACEMENT" /\ s \notin told
      BY <1>1, <2>2 DEF DialogInv, BinAtCounterIsAskedAbout, CallIsShown
    <2> QED
      BY <1>1, <1>2, <2>1, <2>2
  <1> QED
    BY <1>1, <1>2 DEF NoCall, CallFields, DialogInv, DialogShape, CallIsShown, LockedIsOpen, Locked,
         BinAtCounterIsAskedAbout

(* A movement that is moved on keeps its shape.                            *)
LEMMA MovedTo ==
  ASSUME DialogShape, NEW s, NEW status, MoveTo(s, status)
  PROVE  /\ DOMAIN movement' = Scans
         /\ \A t \in Scans : DOMAIN movement'[t] = {"status", "part"}
         /\ \A t \in Scans : t # s => movement'[t] = movement[t]
         /\ s \in Scans => movement'[s].status = status
  BY DEF DialogShape, MoveTo

LEMMA StartInv ==
  ASSUME DialogInv, Start \/ \E placed \in BOOLEAN : Settle(placed)
  PROVE  DialogInv'
  <1>1. CASE Start
    BY <1>1 DEF Start, Choosing, NoCall, CallFields, DialogFields, DialogInv, DialogShape,
         CallIsShown, LockedIsOpen, Locked, BinAtCounterIsAskedAbout
  <1>2. ASSUME NEW placed \in BOOLEAN, Settle(placed)
        PROVE  DialogInv'
    BY <1>2 DEF Settle, NoCall, CallFields, DialogFields, DialogInv, DialogShape,
         CallIsShown, LockedIsOpen, Locked, BinAtCounterIsAskedAbout
  <1> QED
    BY <1>1, <1>2

LEMMA HearPreparedInv ==
  ASSUME DialogInv, HearPrepared
  PROVE  DialogInv'
  <1> DEFINE s == putaway.scan
  <1>1. /\ putaway.pc = "prepare" /\ dialog.phase = "RESERVING" /\ dialog.open
        /\ DOMAIN movement = Scans
    BY DEF HearPrepared, DialogInv, DialogShape, CallIsShown, LockedIsOpen, Locked
  <1>2. CASE GiveUp /\ UNCHANGED movement
    BY <1>1, <1>2, GivingUpInv DEF DialogInv, DialogShape
  <1>3. ASSUME NEW p, movement' = [movement EXCEPT ![s] = [status |-> "VALIDATED", part |-> p]]
        PROVE  /\ DOMAIN movement' = Scans
               /\ \A t \in Scans : DOMAIN movement'[t] = {"status", "part"}
               /\ \A t \in Scans : movement'[t].status = "AWAITING_PLACEMENT" =>
                     movement[t].status = "AWAITING_PLACEMENT"
    BY <1>1, <1>3 DEF DialogInv, DialogShape
  <1>4. ASSUME NEW p, movement' = [movement EXCEPT ![s] = [status |-> "VALIDATED", part |-> p]],
               GiveUp
        PROVE  DialogInv'
    BY <1>1, <1>3, <1>4, GivingUpInv
  <1>5. ASSUME NEW p, movement' = [movement EXCEPT ![s] = [status |-> "VALIDATED", part |-> p]],
               dialog' = [dialog EXCEPT !.phase = "FETCHING", !.scan = s],
               putaway' = [putaway EXCEPT !.pc = "present"], UNCHANGED told
        PROVE  DialogInv'
    <2>1. /\ DOMAIN dialog' = DialogFields /\ dialog'.phase = "FETCHING" /\ dialog'.scan = s
          /\ dialog'.open = dialog.open
          /\ DOMAIN putaway' = CallFields /\ putaway'.pc = "present" /\ putaway'.scan = s
      BY <1>5 DEF DialogInv, DialogShape, DialogFields, CallFields
    <2>2. \A t \in Scans : movement[t].status = "AWAITING_PLACEMENT" => t \in told
      BY <1>1 DEF DialogInv, BinAtCounterIsAskedAbout
    <2> QED
      BY <1>1, <1>3, <1>5, <2>1, <2>2 DEF DialogInv, DialogShape, CallIsShown, LockedIsOpen, Locked,
           BinAtCounterIsAskedAbout
  <1> QED
    BY <1>2, <1>4, <1>5 DEF HearPrepared

(* The call goes on to its next step.                                      *)
LEMMA GoingOnInv ==
  ASSUME DialogInv, NEW phase, NEW pc, GoesOn(phase, pc), dialog.open,
         <<phase, pc>> \in {<<"AWAITING_PLACEMENT", "none">>, <<"SAVING", "commit">>, <<"OVER", "none">>},
         phase = "AWAITING_PLACEMENT" => dialog.scan = putaway.scan,
         putaway.pc # "none",
         DOMAIN movement' = Scans,
         \A s \in Scans : DOMAIN movement'[s] = {"status", "part"},
         \A s \in Scans : movement'[s].status = "AWAITING_PLACEMENT" =>
            \/ s = putaway.scan /\ phase = "AWAITING_PLACEMENT"
            \/ s # putaway.scan /\ movement[s].status = "AWAITING_PLACEMENT"
  PROVE  DialogInv'
  <1>1. /\ DOMAIN dialog' = DialogFields /\ dialog'.phase = phase /\ dialog'.scan = dialog.scan
        /\ dialog'.open = dialog.open /\ told' = told
    BY DEF GoesOn, DialogInv, DialogShape, DialogFields
  <1>2. DOMAIN putaway' = CallFields /\ putaway'.pc = pc
    BY DEF GoesOn, NoCall, CallFields, DialogInv, DialogShape
  <1>3. ASSUME NEW s \in Scans, movement'[s].status = "AWAITING_PLACEMENT", s \notin told
        PROVE  s = putaway.scan /\ phase = "AWAITING_PLACEMENT"
    BY <1>3 DEF DialogInv, BinAtCounterIsAskedAbout, CallIsShown
  <1> QED
    BY <1>1, <1>2, <1>3 DEF DialogInv, DialogShape, CallIsShown, LockedIsOpen, Locked,
         BinAtCounterIsAskedAbout

LEMMA HearPresentedInv ==
  ASSUME DialogInv, HearPresented
  PROVE  DialogInv'
  <1> DEFINE s == putaway.scan
  <1>1. /\ putaway.pc = "present" /\ dialog.phase = "FETCHING" /\ dialog.scan = s /\ dialog.open
        /\ DialogShape
    BY DEF HearPresented, DialogInv, CallIsShown, LockedIsOpen, Locked
  <1>2. CASE GiveUp /\ UNCHANGED movement
    BY <1>1, <1>2, GivingUpInv DEF DialogShape
  <1>3. ASSUME NEW status, MoveTo(s, status), GiveUp
        PROVE  DialogInv'
    BY <1>1, <1>3, MovedTo, GivingUpInv
  <1>4. CASE MoveTo(s, "AWAITING_PLACEMENT") /\ GoesOn("AWAITING_PLACEMENT", "none")
    BY <1>1, <1>4, MovedTo, GoingOnInv
  <1> QED
    BY <1>2, <1>3, <1>4 DEF HearPresented

LEMMA HearReturnedInv ==
  ASSUME DialogInv, HearReturned
  PROVE  DialogInv'
  <1> DEFINE s == putaway.scan
  <1>1. /\ putaway.pc = "return" /\ dialog.phase = "RETURNING" /\ dialog.scan = s /\ dialog.open
        /\ DialogShape
    BY DEF HearReturned, DialogInv, CallIsShown, LockedIsOpen, Locked
  <1>2. CASE GiveUp /\ UNCHANGED movement
    BY <1>1, <1>2, GivingUpInv DEF DialogShape
  <1>3. ASSUME NEW status, MoveTo(s, status), GiveUp
        PROVE  DialogInv'
    BY <1>1, <1>3, MovedTo, GivingUpInv
  <1>4. ASSUME NEW status \in {"READY_TO_CANCEL", "READY_TO_COMMIT"}, MoveTo(s, status),
               GoesOn("SAVING", "commit")
        PROVE  DialogInv'
    BY <1>1, <1>4, MovedTo, GoingOnInv
  <1>5. CASE GoesOn("AWAITING_PLACEMENT", "none") /\ UNCHANGED movement
    BY <1>1, <1>5, GoingOnInv DEF DialogShape
  <1> QED
    BY <1>2, <1>3, <1>4, <1>5 DEF HearReturned

LEMMA HearCommittedInv ==
  ASSUME DialogInv, HearCommitted
  PROVE  DialogInv'
  <1> DEFINE s == putaway.scan
  <1>1. /\ putaway.pc = "commit" /\ dialog.phase = "SAVING" /\ dialog.open
        /\ DialogShape
    BY DEF HearCommitted, DialogInv, CallIsShown, LockedIsOpen, Locked
  <1>2. CASE GiveUp /\ UNCHANGED movement
    BY <1>1, <1>2, GivingUpInv DEF DialogShape
  <1>3. ASSUME NEW status \in {"COMPLETED", "CANCELLED"}, MoveTo(s, status), GiveUp
        PROVE  DialogInv'
    BY <1>1, <1>3, MovedTo, GivingUpInv
  <1>4. ASSUME NEW status \in {"COMPLETED", "CANCELLED"}, MoveTo(s, status), GoesOn("OVER", "none")
        PROVE  DialogInv'
    BY <1>1, <1>4, MovedTo, GoingOnInv
  <1> QED
    BY <1>2, <1>3, <1>4 DEF HearCommitted

(* Others end a movement, and bring no bin to the counter.                 *)
LEMMA ElsewhereDialogInv ==
  ASSUME DialogInv, Elsewhere
  PROVE  DialogInv'
  <1>1. UNCHANGED <<dialog, putaway, told>>
    BY DEF Elsewhere
  <1>2. /\ DOMAIN movement' = Scans
        /\ \A s \in Scans : DOMAIN movement'[s] = {"status", "part"}
        /\ \A s \in Scans : movement'[s].status = "AWAITING_PLACEMENT" =>
              movement[s].status = "AWAITING_PLACEMENT"
    <2>1. CASE UNCHANGED movement
      BY <2>1 DEF DialogInv, DialogShape
    <2>2. ASSUME NEW s \in Scans, MoveTo(s, "FAILED")
          PROVE  /\ DOMAIN movement' = Scans
                 /\ \A t \in Scans : DOMAIN movement'[t] = {"status", "part"}
                 /\ \A t \in Scans : movement'[t].status = "AWAITING_PLACEMENT" =>
                       movement[t].status = "AWAITING_PLACEMENT"
      BY <2>2, MovedTo DEF DialogInv
    <2> QED
      BY <2>1, <2>2 DEF Elsewhere
  <1> QED
    BY <1>1, <1>2 DEF DialogInv, DialogShape, CallIsShown, LockedIsOpen, Locked,
         BinAtCounterIsAskedAbout

LEMMA DialogStepInv ==
  ASSUME DialogInv, [Next]_vars
  PROVE  DialogInv'
  BY OthersDialogInv, FreshDialogInv, StartInv, HearPreparedInv, HearPresentedInv, HearReturnedInv,
     HearCommittedInv, ElsewhereDialogInv DEF Next, Hears

LEMMA DialogInitInv ==
  ASSUME Init
  PROVE  DialogInv
  BY DEF Init, DialogInv, DialogShape, CallIsShown, LockedIsOpen, Locked, BinAtCounterIsAskedAbout,
         FreshDialog, NoCall, NoMovement, DialogFields, CallFields

(* The page goes on asking what became of a bin it has sent for: its       *)
(* dialog cannot be closed or replaced while the bin waits at the counter  *)
(* (guided-putaway-dialog.tsx).                                            *)
THEOREM PageMindsItsBin == Spec => []BinAtCounterIsAskedAbout
  <1>1. DialogInv /\ [Next]_vars => DialogInv'
    BY DialogStepInv
  <1>2. Init => DialogInv
    BY DialogInitInv
  <1>3. DialogInv => BinAtCounterIsAskedAbout
    BY DEF DialogInv
  <1> QED
    BY <1>1, <1>2, <1>3, PTL DEF Spec

---------------------------------------------------------------------------
(* What a request may say of a row: whom the row is about is settled when  *)
(* it is opened, and what it was confirmed for when it is.                 *)
RowOf(r, s) == r \in Resolutions /\ resolution[r].scan = s /\ resolution[r].status # "NONE"
Chosen(r, s, p) == RowOf(r, s) /\ resolution[r].status = "CONFIRMED" /\ resolution[r].selected = p

RowsAreOfScans ==
    /\ page.card # NoCard => RowOf(page.card.row, page.card.scan)
    /\ \A a \in asked : a.kind = "select" => RowOf(a.row, a.scan)
    /\ page.choice # NoChoice => Chosen(page.choice.row, page.choice.scan, page.choice.part)

(* The call knows the name the page showed, and what it rests on.          *)
ContinuedFrom ==
    putaway.pc = "prepare" =>
      /\ putaway.scan \in Scans
      /\ putaway.given = NoRow => putaway.shown = putaway.match.part
      /\ putaway.given # NoRow =>
           /\ putaway.given \in Resolutions
           /\ resolution[putaway.given].status = "CONFIRMED"
           /\ IF resolution[putaway.given].scan = putaway.scan
              THEN resolution[putaway.given].selected = putaway.shown
              ELSE putaway.shown = putaway.match.part

StoreInv == RowsAreOfScans /\ ContinuedFrom

RowsStand ==
    \A r \in Resolutions :
      /\ resolution[r].status = "CONFIRMED" => resolution'[r] = resolution[r]
      /\ resolution[r].status # "NONE" =>
           resolution'[r].scan = resolution[r].scan /\ resolution'[r].status # "NONE"

LEMMA StandingRows ==
  ASSUME RowsStand, NEW r, NEW s, NEW p
  PROVE  /\ RowOf(r, s) => RowOf(r, s)'
         /\ Chosen(r, s, p) => Chosen(r, s, p)'
  BY DEF RowsStand, RowOf, Chosen

LEMMA CallStands ==
  ASSUME StoreInv, RowsStand, UNCHANGED putaway \/ putaway'.pc # "prepare"
  PROVE  ContinuedFrom'
  <1>1. CASE UNCHANGED putaway
    BY <1>1 DEF StoreInv, ContinuedFrom, RowsStand
  <1>2. CASE putaway'.pc # "prepare"
    BY <1>2 DEF ContinuedFrom
  <1> QED
    BY <1>1, <1>2

LEMMA PageStands ==
  ASSUME StoreInv, RowsStand, asked' \subseteq asked,
         page'.card = page.card \/ page'.card = NoCard \/ RowOf(page.card.row, page.card.scan)',
         page'.choice = page.choice \/ page'.choice = NoChoice
  PROVE  RowsAreOfScans'
  BY StandingRows DEF StoreInv, RowsAreOfScans

(* How a decision writes its row, and how one is opened.                   *)
LEMMA DecidingStands ==
  ASSUME SessionShape, NEW a, a.row \in Resolutions, Pending(a.row), NEW status,
         status \in {"CONFIRMED", "REJECTED"}, Decided(a, status)
  PROVE  /\ RowsStand
         /\ ~Outlived(a.row) => /\ resolution'[a.row].status = status
                                /\ resolution'[a.row].selected = a.part
  BY DEF SessionShape, Decided, RowsStand, Pending, RowFields

LEMMA OpeningStands ==
  ASSUME SessionShape, NEW s, NEW card \in Cards, Opened(s, card)
  PROVE  RowsStand /\ (card # NoCard => RowOf(card.row, card.scan)')
  <1>1. CASE UNCHANGED resolution /\ card = NoCard
    BY <1>1 DEF RowsStand
  <1>2. ASSUME NEW r \in Resolutions, resolution[r].status = "NONE", NEW candidates,
               resolution' = [resolution EXCEPT ![r] =
                 [status |-> "PENDING", scan |-> s, candidates |-> candidates, selected |-> NoPart]],
               card = [row |-> r, scan |-> s]
        PROVE  RowsStand /\ RowOf(card.row, card.scan)'
    BY <1>2 DEF SessionShape, RowsStand, RowOf
  <1> QED
    BY <1>1, <1>2 DEF Opened

---------------------------------------------------------------------------
LEMMA ClickStore ==
  ASSUME SessionInv, StoreInv, SelectCandidate \/ RejectIdentification \/ ReconsiderIdentification
  PROVE  StoreInv'
  <1>1. PICK kind, scan, row, part :
          /\ Click(kind, scan, row, part)
          /\ kind = "select" => RowOf(row, scan)
    BY DEF SelectCandidate, RejectIdentification, ReconsiderIdentification, CandidatesAreShown,
           StoreInv, RowsAreOfScans
  <1>2. UNCHANGED <<resolution, putaway>> /\ page'.card = page.card /\ page'.choice = page.choice
    BY <1>1 DEF Click, IDENTIFIES, dialogVars, SessionInv, SessionShape, PageFields
  <1>3. RowsStand
    BY <1>2 DEF RowsStand
  <1>4. \A a \in asked' : a.kind = "select" => RowOf(a.row, a.scan)
    BY <1>1 DEF Click, StoreInv, RowsAreOfScans
  <1>5. RowsAreOfScans'
    BY <1>2, <1>3, <1>4, StandingRows DEF StoreInv, RowsAreOfScans
  <1> QED
    BY <1>2, <1>3, <1>5, CallStands DEF StoreInv

LEMMA HearCandidatesStore ==
  ASSUME SessionInv, StoreInv, HearCandidates
  PROVE  StoreInv'
  <1>1. DOMAIN page = PageFields /\ UNCHANGED <<asked, putaway>>
    BY DEF HearCandidates, IDENTIFIES, dialogVars, SessionInv, SessionShape
  <1>2. ASSUME NEW card \in Cards, Opened(page.scan, card),
               page' = [page EXCEPT !.busy = FALSE, !.card = IF card = NoCard THEN @ ELSE card]
        PROVE  StoreInv'
    <2>1. RowsStand /\ (card # NoCard => RowOf(card.row, card.scan)')
      BY <1>2, OpeningStands DEF SessionInv
    <2>2. page'.choice = page.choice /\ page'.card = IF card = NoCard THEN page.card ELSE card
      BY <1>1, <1>2 DEF PageFields
    <2> QED
      BY <1>1, <2>1, <2>2, PageStands, CallStands DEF StoreInv
  <1>3. CASE page' = [page EXCEPT !.busy = FALSE] /\ UNCHANGED resolution
    <2>1. RowsStand /\ page'.choice = page.choice /\ page'.card = page.card
      BY <1>1, <1>3 DEF RowsStand, PageFields
    <2> QED
      BY <1>1, <2>1, PageStands, CallStands DEF StoreInv
  <1> QED
    BY <1>2, <1>3 DEF HearCandidates

LEMMA HearDecisionStore ==
  ASSUME SessionInv, StoreInv, HearDecision
  PROVE  StoreInv'
  <1>1. PICK a \in asked :
          /\ asked' = asked \ {a}
          /\ HearSelected(a) \/ HearRejected(a) \/ HearReconsidered(a)
    BY DEF HearDecision
  <1>2. DOMAIN page = PageFields /\ asked' \subseteq asked /\ UNCHANGED putaway /\ SessionShape
    BY <1>1 DEF HearDecision, IDENTIFIES, dialogVars, SessionInv, SessionShape
  <1>3. CASE HearSelected(a)
    <2>1. RowOf(a.row, a.scan)
      BY <1>3 DEF HearSelected, StoreInv, RowsAreOfScans
    <2>2. RowsStand /\ (Pending(a.row) /\ ~Outlived(a.row) => Chosen(a.row, a.scan, a.part)')
      <3>1. CASE Pending(a.row) /\ Decided(a, "CONFIRMED")
        BY <1>2, <2>1, <3>1, DecidingStands, StandingRows DEF RowOf, Chosen
      <3>2. CASE ~Pending(a.row) /\ UNCHANGED resolution
        BY <3>2 DEF RowsStand
      <3> QED
        BY <1>3, <3>1, <3>2 DEF HearSelected
    <2>3. CASE page' = [page EXCEPT !.busy = FALSE]
      <3>1. page'.choice = page.choice /\ page'.card = page.card
        BY <1>2, <2>3 DEF PageFields
      <3> QED
        BY <1>2, <2>2, <3>1, PageStands, CallStands DEF StoreInv
    <2>4. CASE /\ Pending(a.row) /\ ~Outlived(a.row)
               /\ page' = [page EXCEPT !.busy = FALSE, !.card = NoCard,
                             !.choice = [row |-> a.row, scan |-> a.scan, part |-> a.part]]
      <3>1. /\ page'.choice.row = a.row /\ page'.choice.scan = a.scan /\ page'.choice.part = a.part
            /\ page'.card = NoCard
        BY <1>2, <2>4 DEF PageFields
      <3>2. \A x \in asked' : x.kind = "select" => RowOf(x.row, x.scan)'
        BY <1>2, <2>2, StandingRows DEF StoreInv, RowsAreOfScans
      <3>3. RowsAreOfScans'
        BY <2>2, <2>4, <3>1, <3>2 DEF RowsAreOfScans
      <3> QED
        BY <1>2, <2>2, <3>3, CallStands DEF StoreInv
    <2> QED
      BY <1>3, <2>3, <2>4 DEF HearSelected
  <1>4. CASE HearRejected(a)
    <2>1. RowsStand
      BY <1>2, <1>4 DEF HearRejected, Decided, Pending, SessionShape, RowsStand, RowFields
    <2>2. page'.choice = page.choice /\ page'.card \in {page.card, NoCard}
      BY <1>2, <1>4 DEF HearRejected, PageFields
    <2> QED
      BY <1>2, <2>1, <2>2, PageStands, CallStands DEF StoreInv
  <1>5. CASE HearReconsidered(a)
    <2>1. ASSUME NEW card \in Cards, Opened(a.scan, card),
                 page' = IF card = NoCard THEN [page EXCEPT !.busy = FALSE]
                         ELSE [page EXCEPT !.busy = FALSE, !.card = card, !.choice = NoChoice,
                                           !.rejected = FALSE]
          PROVE  StoreInv'
      <3>1. RowsStand /\ (card # NoCard => RowOf(card.row, card.scan)')
        BY <1>2, <2>1, OpeningStands
      <3>2. /\ page'.choice \in {page.choice, NoChoice}
            /\ page'.card = page.card \/ (card # NoCard /\ page'.card = card)
        BY <1>2, <2>1 DEF PageFields
      <3> QED
        BY <1>2, <3>1, <3>2, PageStands, CallStands DEF StoreInv
    <2>2. CASE page' = [page EXCEPT !.busy = FALSE] /\ UNCHANGED resolution
      <3>1. RowsStand /\ page'.choice = page.choice /\ page'.card = page.card
        BY <1>2, <2>2 DEF RowsStand, PageFields
      <3> QED
        BY <1>2, <3>1, PageStands, CallStands DEF StoreInv
    <2> QED
      BY <1>5, <2>1, <2>2 DEF HearReconsidered
  <1> QED
    BY <1>1, <1>3, <1>4, <1>5

(* The rest of the page leaves rows and decisions alone.                   *)
LEMMA SessionStore ==
  ASSUME SessionInv, StoreInv,
         \/ StartPiScan \/ CreateCapture \/ HearCompleted \/ HearFailure \/ HearMatch \/ Reload
         \/ RegisterNewPart \/ HearRegistered \/ HearRematch
         \/ JobEnds \/ Streams \/ StreamIsCut \/ CloseDialog \/ ReviewLatestScan \/ Elsewhere
  PROVE  StoreInv'
  <1> USE DEF catalogVars, dialogVars, sessionVars
  <1>1. DOMAIN page = PageFields
    BY DEF SessionInv, SessionShape
  <1>2. RowsStand
    <2>1. UNCHANGED resolution
      BY DEF StartPiScan, CreateCapture, HearCompleted, HearFailure, HearMatch, Reload, RegisterNewPart,
             HearRegistered, HearRematch, ENROLS, JobEnds, Streams, Connect, Nudge, ReadStatus, PushStatus,
             StreamIsCut, STREAMS, CloseDialog, ReviewLatestScan, ONLYDIALOG, Elsewhere, Age
    <2> QED
      BY <2>1 DEF RowsStand
  <1>3. UNCHANGED putaway \/ putaway'.pc # "prepare"
    <2>1. CASE Reload
      BY <2>1 DEF Reload, NoCall
    <2>2. CASE ~Reload
      BY <2>2 DEF StartPiScan, CreateCapture, HearCompleted, HearFailure, HearMatch, RegisterNewPart,
           HearRegistered, HearRematch, ENROLS, JobEnds, Streams, Connect, Nudge, ReadStatus, PushStatus,
           StreamIsCut, STREAMS, CloseDialog, ReviewLatestScan, ONLYDIALOG, Elsewhere
    <2> QED
      BY <2>1, <2>2
  <1>4. asked' \subseteq asked
    BY DEF StartPiScan, CreateCapture, HearCompleted, HearFailure, HearMatch, Reload, RegisterNewPart,
           HearRegistered, HearRematch, ENROLS, JobEnds, Streams, Connect, Nudge, ReadStatus, PushStatus,
           StreamIsCut, STREAMS, CloseDialog, ReviewLatestScan, DIALOGS, Elsewhere
  <1>5. page'.card \in {page.card, NoCard} /\ page'.choice \in {page.choice, NoChoice}
    <2>1. CASE StartPiScan \/ Reload
      <3>1. page'.card = FreshPage.card /\ page'.choice = FreshPage.choice
        BY <2>1 DEF StartPiScan, Reload, FreshPage
      <3> QED
        BY <3>1 DEF FreshPage
    <2>2. CASE CreateCapture \/ HearCompleted \/ HearFailure \/ HearMatch
      BY <1>1, <2>2 DEF CreateCapture, HearCompleted, HearFailure, HearMatch, ScanFails, PageFields
    <2>3. CASE HearRematch
      BY <1>1, <2>3 DEF HearRematch, Rematched, PageFields
    <2>4. CASE UNCHANGED page
      BY <2>4
    <2> QED
      BY <2>1, <2>2, <2>3, <2>4 DEF RegisterNewPart, HearRegistered, JobEnds, Streams, Connect, Nudge,
         ReadStatus, PushStatus, StreamIsCut, STREAMS, CloseDialog, ReviewLatestScan, DIALOGS, Elsewhere
  <1> QED
    BY <1>2, <1>3, <1>4, <1>5, PageStands, CallStands DEF StoreInv

LEMMA DialogStore ==
  ASSUME SessionInv, DialogInv, StoreInv,
         \/ Start \/ HearPrepared \/ HearPresented \/ (\E placed \in BOOLEAN : Settle(placed))
         \/ HearReturned \/ HearCommitted
  PROVE  StoreInv'
  <1>1. UNCHANGED <<page, asked>>
    BY DEF Start, HearPrepared, HearPresented, Settle, HearReturned, HearCommitted, DIALOGS, sessionVars
  <1>2. RowsStand
    <2>1. CASE HearPrepared
      BY <2>1 DEF HearPrepared, ReadsResolution, Outlived, SessionInv, SessionShape, RowsStand, RowFields
    <2>2. CASE UNCHANGED resolution
      BY <2>2 DEF RowsStand
    <2> QED
      BY <2>1, <2>2 DEF Start, HearPresented, Settle, HearReturned, HearCommitted
  <1>3. RowsAreOfScans'
    BY <1>1, <1>2, PageStands
  <1>4. ASSUME Start PROVE ContinuedFrom'
    <2>1. /\ putaway'.scan = page.scan /\ putaway'.given = page.choice.row
          /\ putaway'.match = page.match /\ putaway'.shown = ShownPart /\ page.scan \in Scans
      BY <1>4 DEF Start, NoCall
    <2>2. CASE page.choice = NoChoice
      <3>1. page.match.status # "HUMAN_CONFIRMED"
        BY CatalogAssumption DEF SessionInv, SessionShape, MatchIsOfTheScan, Unmatched, PastCatalogs
      <3>2. ShownPart = page.match.part /\ page.choice.row = NoRow
        BY <2>2, <3>1 DEF ShownPart, Identity, NoChoice
      <3> QED
        BY <2>1, <3>2 DEF ContinuedFrom
    <2>3. CASE page.choice # NoChoice
      <3>1. Chosen(page.choice.row, page.choice.scan, page.choice.part)'
        BY <1>3, <2>3, <1>1 DEF RowsAreOfScans
      <3>4. page.match.status # "HUMAN_CONFIRMED"
        BY CatalogAssumption DEF SessionInv, SessionShape, MatchIsOfTheScan, Unmatched, PastCatalogs
      <3>2. ShownPart = IF page.choice.scan = page.scan THEN page.choice.part ELSE page.match.part
        BY <1>4, <2>3, <3>4 DEF ShownPart, Identity, Start, IdentityReady
      <3>3. page.choice.row # NoRow
        BY <1>1, <3>1, CatalogAssumption DEF Chosen, RowOf
      <3> QED
        BY <1>1, <2>1, <3>1, <3>2, <3>3 DEF ContinuedFrom, Chosen, RowOf
    <2> QED
      BY <2>2, <2>3
  <1>5. ASSUME ~Start PROVE ContinuedFrom'
    <2>1. putaway'.pc # "prepare"
      <3>1. DOMAIN putaway = CallFields
        BY DEF DialogInv, DialogShape
      <3>2. GiveUp \/ (\E phase : GoesOn(phase, "none") \/ GoesOn(phase, "commit")) => putaway'.pc # "prepare"
        BY <3>1 DEF GiveUp, GoesOn, NoCall, CallFields
      <3>3. CASE HearPrepared
        BY <3>1, <3>2, <3>3 DEF HearPrepared, CallFields
      <3>4. CASE HearPresented \/ HearReturned \/ HearCommitted
        BY <3>2, <3>4 DEF HearPresented, HearReturned, HearCommitted
      <3>5. CASE \E placed \in BOOLEAN : Settle(placed)
        BY <3>5 DEF Settle, NoCall
      <3> QED
        BY <1>5, <3>3, <3>4, <3>5
    <2> QED
      BY <1>2, <2>1, CallStands
  <1> QED
    BY <1>3, <1>4, <1>5, CallStands DEF StoreInv

LEMMA StoreStep ==
  ASSUME SessionInv, DialogInv, StoreInv, [Next]_vars
  PROVE  StoreInv'
  <1>1. CASE UNCHANGED vars
    <2>1. UNCHANGED <<page, asked, putaway, resolution>>
      BY <1>1 DEF vars, sessionVars, dialogVars, catalogVars
    <2>2. RowsStand
      BY <2>1 DEF RowsStand
    <2> QED
      BY <2>1, <2>2, PageStands, CallStands DEF StoreInv
  <1> QED
    BY <1>1, ClickStore, HearCandidatesStore, HearDecisionStore, SessionStore, DialogStore DEF Next, Hears

LEMMA StoreInit ==
  ASSUME Init
  PROVE  StoreInv
  BY DEF Init, FreshPage, NoCall, StoreInv, RowsAreOfScans, ContinuedFrom

(* Where a reservation begins, and for which part.                         *)
Stored ==
    \A s \in Scans :
      (movement[s].status # "VALIDATED" /\ movement'[s].status = "VALIDATED") =>
        \/ movement'[s].part = putaway.shown
        \/ /\ MatchOf(s) = [status |-> "MATCHED", part |-> movement'[s].part]
           /\ \/ MatchOf(s) # putaway.match
              \/ putaway.given # NoRow /\ resolution[putaway.given].scan = s

LEMMA ReservingStores ==
  ASSUME SessionInv, DialogInv, StoreInv, HearPrepared
  PROVE  Stored
  <1>1. PICK s, p : s = putaway.scan /\ p = ResolveIdentity(s, putaway.given).part
    OBVIOUS
  <1>2. CASE UNCHANGED movement
    BY <1>2 DEF Stored
  <1>3. CASE p # NoPart /\ movement' = [movement EXCEPT ![s] = [status |-> "VALIDATED", part |-> p]]
    <2>1. s \in Scans /\ putaway.pc = "prepare"
      BY <1>1 DEF HearPrepared, StoreInv, ContinuedFrom
    <2>2. movement'[s].part = p /\ \A t \in Scans \ {s} : movement'[t] = movement[t]
      BY <1>3, <2>1 DEF DialogInv, DialogShape
    <2>3. PICK v : v = Verdict(s, catalog)
      OBVIOUS
    <2>4. CASE v.status = "MATCHED"
      <3>1. p = v.part
        BY <1>1, <2>3, <2>4 DEF ResolveIdentity, Identified
      <3>2. MatchOf(s) = [status |-> "MATCHED", part |-> p]
        BY <2>3, <2>4, <3>1 DEF MatchOf
      <3>3. \/ MatchOf(s) # putaway.match \/ p = putaway.shown
            \/ putaway.given # NoRow /\ resolution[putaway.given].scan = s
        BY <1>1, <2>1, <3>2 DEF StoreInv, ContinuedFrom
      <3> QED
        BY <2>2, <3>2, <3>3 DEF Stored
    <2>5. CASE v.status # "MATCHED"
      <3>1. /\ putaway.given # NoRow /\ Authorises(putaway.given, s)
            /\ p = resolution[putaway.given].selected
        BY <1>1, <1>3, <2>3, <2>5 DEF ResolveIdentity, Identified, Unidentified
      <3>2. p = putaway.shown
        BY <1>1, <2>1, <3>1 DEF StoreInv, ContinuedFrom, Authorises
      <3> QED
        BY <2>2, <3>2 DEF Stored
    <2> QED
      BY <2>4, <2>5
  <1> QED
    BY <1>1, <1>2, <1>3 DEF HearPrepared

(* Nobody else reserves.                                                   *)
LEMMA OthersReserveNothing ==
  ASSUME DialogInv, [Next]_vars, ~HearPrepared
  PROVE  Stored
  <1>1. \/ UNCHANGED movement
        \/ \E s, status : /\ MoveTo(s, status)
                          /\ status = "VALIDATED" => movement[s].status = "VALIDATED"
    <2>1. CASE HearPresented
      BY <2>1 DEF HearPresented
    <2>2. CASE HearReturned
      BY <2>2 DEF HearReturned
    <2>3. CASE HearCommitted
      <3>1. PICK s : s = putaway.scan
        OBVIOUS
      <3> QED
        BY <2>3, <3>1 DEF HearCommitted
    <2>4. CASE Elsewhere
      BY <2>4 DEF Elsewhere
    <2> QED
      BY <2>1, <2>2, <2>3, <2>4 DEF Next, vars, dialogVars, Hears, Streams, StartPiScan, JobEnds, Connect, Nudge,
         ReadStatus, PushStatus, STREAMS, StreamIsCut, CreateCapture, HearCompleted, HearFailure, HearMatch,
         HearCandidates, IDENTIFIES, SelectCandidate, RejectIdentification, ReconsiderIdentification, Click,
         HearDecision, RegisterNewPart, HearRegistered, HearRematch, ENROLS, CloseDialog, ReviewLatestScan,
         ONLYDIALOG, Start, Settle, Reload
  <1>2. CASE UNCHANGED movement
    BY <1>2 DEF Stored
  <1>3. ASSUME NEW s, NEW status, MoveTo(s, status),
               status = "VALIDATED" => movement[s].status = "VALIDATED"
        PROVE  Stored
    BY <1>3, MovedTo DEF Stored, DialogInv
  <1> QED
    BY <1>1, <1>2, <1>3

(* The name under which the operator pressed Continue is the one the item  *)
(* is stored under, or the matcher is sure of another (see StoredAsShown), *)
(* however many requests about earlier scans are under way                 *)
(* (session.tsx, guided-putaway-dialog.tsx, catalog-identity.ts).          *)
THEOREM StoredUnderItsName == Spec => StoredAsShown
  <1>1. SessionInv /\ [Next]_vars => SessionInv'
    BY SessionStepInv
  <1>2. DialogInv /\ [Next]_vars => DialogInv'
    BY DialogStepInv
  <1>3. SessionInv /\ DialogInv /\ StoreInv /\ [Next]_vars => StoreInv'
    BY StoreStep
  <1>4. SessionInv /\ DialogInv /\ StoreInv /\ [Next]_vars => Stored
    BY ReservingStores, OthersReserveNothing
  <1>5. Init => SessionInv /\ DialogInv /\ StoreInv
    BY SessionInitInv, DialogInitInv, StoreInit
  <1> QED
    BY <1>1, <1>2, <1>3, <1>4, <1>5, PTL DEF Spec, StoredAsShown, Stored

=============================================================================
