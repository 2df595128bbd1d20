----------------------------- MODULE AuditProofs -----------------------------
(***************************************************************************)
(* Proofs about an inventory audit, for any bins, runs and requests, and   *)
(* however runs are abandoned and recovered.                               *)
(*                                                                         *)
(* Captures.  A capture is decided once.  Everybody who writes a capture   *)
(* asks for the status it read, except the run that creates it; so the     *)
(* invariant says what a request may have read, and that a run creates     *)
(* each capture once.                                                      *)
(*                                                                         *)
(* Bins.  A bin at the scan station stays out of use until a decision      *)
(* gives it back, and the status of a bin on its shelf is the one its      *)
(* stock calls for.  The invariants say what a visit to the bin may assume *)
(* in each of its steps, the lease being what keeps other visits away.     *)
(***************************************************************************)
EXTENDS Audit, TLAPS

CaptureFields == {"status", "attempt", "observed"}
CallFields ==
    {"pc", "trigger", "reportOnly", "planned", "expected", "bin", "orig", "result", "verdict", "seen"}

CaptureShape ==
    /\ DOMAIN capture = Runs
    /\ \A r \in Runs : DOMAIN capture[r] = Bins /\ \A b \in Bins : DOMAIN capture[r][b] = CaptureFields

CallShape ==
    /\ DOMAIN call = Runs
    /\ \A r \in Runs : DOMAIN call[r] = CallFields /\ call[r].planned \subseteq Bins

(* A request that waits has read a status in which it may decide.          *)
ReadWhileOpen ==
    /\ DOMAIN request = Requests
    /\ \A q \in Requests : request[q].pc # "idle" =>
         /\ request[q].run \in Runs /\ request[q].bin \in Bins
         /\ request[q].pc = "decide" /\ request[q].kind \in CaptureKinds =>
              request[q].status \in Decidable(request[q].kind)

Early == {"idle", "recover", "create", "list"}
OnItsWay == {"lease", "claim", "start", "present", "capture"}

Untouched(r, b) == capture[r][b].status = "NONE"

(* A run has no capture of the bins it has not come to.                    *)
CapturedOnce ==
    \A r \in Runs :
      /\ call[r].pc \in Early => \A b \in Bins : Untouched(r, b)
      /\ \A b \in call[r].planned : Untouched(r, b)
      /\ call[r].pc \in OnItsWay =>
           call[r].bin \in Bins \ call[r].planned /\ Untouched(r, call[r].bin)

CaptureInv == CaptureShape /\ CallShape /\ ReadWhileOpen /\ CapturedOnce

---------------------------------------------------------------------------
(* What a step does to the captures, the calls and the requests.           *)
Decides(r, b) ==
    /\ capture[r][b].status \notin CaptureOver \cup {"NONE"}
    /\ capture[r][b].status = "FINALIZING" => capture'[r][b].status \in {"FINALIZING", "ACCEPTED"}

Conditional ==
    /\ CaptureShape'
    /\ \A r \in Runs, b \in Bins : capture'[r][b] = capture[r][b] \/ Decides(r, b)

Advances(r) ==
    /\ DOMAIN call'[r] = CallFields /\ call'[r].planned \subseteq Bins
    /\ call'[r].planned \subseteq call[r].planned \/ call[r].pc \in Early
    /\ call'[r].pc \in Early => call[r].pc \in Early
    /\ call'[r].pc \in OnItsWay =>
         /\ call'[r].bin \in Bins \ call'[r].planned
         /\ \/ call[r].pc \in OnItsWay /\ call'[r].bin = call[r].bin
            \/ call'[r].bin \in call[r].planned

CallsAdvance == DOMAIN call' = Runs /\ \A r \in Runs : call'[r] = call[r] \/ Advances(r)

Once ==
    \A r \in Runs, b \in Bins :
      /\ capture[r][b].status \in CaptureOver => capture'[r][b] = capture[r][b]
      /\ capture[r][b].status = "FINALIZING" => capture'[r][b].status \in {"FINALIZING", "ACCEPTED"}

LEMMA CaptureInvKept ==
  ASSUME CaptureInv, Conditional, CallsAdvance, ReadWhileOpen'
  PROVE  CaptureInv' /\ Once
  <1>1. CallShape'
    BY DEF CallsAdvance, Advances, CaptureInv, CallShape
  <1>2. \A r \in Runs, b \in Bins : Untouched(r, b) => Untouched(r, b)'
    BY DEF Conditional, Decides, Untouched
  <1>3. CapturedOnce'
    BY <1>1, <1>2 DEF CaptureInv, CallsAdvance, Advances, CapturedOnce, CallShape
  <1>4. Once
    BY DEF Conditional, Decides, Once, CaptureOver
  <1> QED
    BY <1>1, <1>3, <1>4 DEF CaptureInv, Conditional

LEMMA CapturesStay ==
  ASSUME CaptureShape, UNCHANGED capture
  PROVE  Conditional
  BY DEF Conditional, CaptureShape

LEMMA CallsStay ==
  ASSUME CallShape, UNCHANGED call
  PROVE  CallsAdvance
  BY DEF CallsAdvance, CallShape

LEMMA RequestsStay ==
  ASSUME ReadWhileOpen, UNCHANGED request
  PROVE  ReadWhileOpen'
  BY DEF ReadWhileOpen, Decidable, Retryable, Undecided

(* A capture that is still open, or is being closed, gets another status.  *)
LEMMA StatusSet ==
  ASSUME CaptureShape, NEW r \in Runs, NEW b \in Bins, NEW status, SetCapture(r, b, status),
         capture[r][b].status \notin CaptureOver \cup {"NONE"},
         capture[r][b].status = "FINALIZING" => status = "ACCEPTED"
  PROVE  Conditional
  BY DEF SetCapture, Conditional, Decides, CaptureShape, CaptureFields

LEMMA CaptureSet ==
  ASSUME CaptureShape, NEW r \in Runs, NEW b \in Bins, NEW new,
         capture' = [capture EXCEPT ![r][b] = new], DOMAIN new = CaptureFields,
         capture[r][b].status \notin CaptureOver \cup {"NONE", "FINALIZING"}
  PROVE  Conditional
  BY DEF Conditional, Decides, CaptureShape

LEMMA RequestAnswered ==
  ASSUME ReadWhileOpen, NEW q \in Requests, Answered(q)
  PROVE  ReadWhileOpen'
  BY DEF ReadWhileOpen, Answered, IdleRequest

LEMMA RequestSteps ==
  ASSUME ReadWhileOpen, NEW q \in Requests, NEW pc, pc # "decide", Step(q, pc), request[q].pc # "idle"
  PROVE  ReadWhileOpen'
  BY DEF ReadWhileOpen, Step

---------------------------------------------------------------------------
(* The browsers' requests.                                                 *)
LEMMA ReadingKeeps ==
  ASSUME CaptureInv, NEW q \in Requests, NEW kind, NEW r \in Runs, NEW b \in Bins,
         \/ kind \in CaptureKinds /\ ReadCapture(q, kind, r, b)
         \/ kind \in ReviewKinds /\ ReadAudit(q, kind, r, b)
  PROVE  CaptureInv' /\ Once
  <1>1. UNCHANGED <<capture, call>>
    BY DEF ReadCapture, ReadAudit, tables
  <1>2. ReadWhileOpen'
    <2>1. CASE kind \in CaptureKinds /\ ReadCapture(q, kind, r, b)
      BY <2>1 DEF CaptureInv, ReadWhileOpen, ReadCapture
    <2>2. CASE kind \in ReviewKinds /\ ReadAudit(q, kind, r, b)
      BY <2>2 DEF CaptureInv, ReadWhileOpen, ReadAudit, ReviewKinds, CaptureKinds
    <2> QED
      BY <2>1, <2>2
  <1> QED
    BY <1>1, <1>2, CaptureInvKept, CapturesStay, CallsStay DEF CaptureInv

(* The request decides, if the capture is as it read it.                   *)
LEMMA DecidingKeeps ==
  ASSUME CaptureInv, NEW q \in Requests,
         Retry(q) \/ ReturnUnchanged(q) \/ AcceptDecrease(q) \/ ClaimAcknowledgement(q)
  PROVE  CaptureInv' /\ Once
  <1>0. PICK r, b : r = request[q].run /\ b = request[q].bin
    OBVIOUS
  <1>1. /\ request[q].pc = "decide" /\ request[q].kind \in {"RETRY", "AUTO_RETURN", "DISMISS", "ACCEPT"}
        /\ UNCHANGED call
    BY DEF Retry, ReturnUnchanged, AcceptDecrease, ClaimAcknowledgement, Asked
  <1>2. /\ r \in Runs /\ b \in Bins
        /\ AsRead(q, r, b) => capture[r][b].status \notin CaptureOver \cup {"NONE", "FINALIZING"}
    BY <1>0, <1>1 DEF CaptureInv, ReadWhileOpen, CaptureKinds, Decidable, Retryable, Undecided, AsRead,
         CaptureOver
  <1>3. ReadWhileOpen'
    <2>1. CASE Answered(q)
      BY <2>1, RequestAnswered DEF CaptureInv
    <2>2. CASE Step(q, "apply")
      BY <1>1, <2>2, RequestSteps DEF CaptureInv
    <2> QED
      BY <2>1, <2>2 DEF Retry, ReturnUnchanged, AcceptDecrease, ClaimAcknowledgement
  <1>4. Conditional
    <2>1. CASE UNCHANGED capture
      BY <2>1, CapturesStay DEF CaptureInv
    <2>2. CASE Retry(q) /\ AsRead(q, r, b)
      <3>1. capture' = [capture EXCEPT ![r][b] =
              [status |-> "WAITING_FOR_CAMERA", attempt |-> capture[r][b].attempt + 1, observed |-> Unsafe]]
        BY <1>0, <1>2, <2>2 DEF Retry, CaptureInv, CaptureShape
      <3>2. PICK new : new = [status |-> "WAITING_FOR_CAMERA", attempt |-> capture[r][b].attempt + 1,
                              observed |-> Unsafe]
        OBVIOUS
      <3>3. DOMAIN new = CaptureFields
        BY <3>2 DEF CaptureFields
      <3> QED
        BY <1>2, <2>2, <3>1, <3>2, <3>3, CaptureSet DEF CaptureInv
    <2>3. CASE (\E status : SetCapture(r, b, status)) /\ AsRead(q, r, b)
      BY <1>2, <2>3, StatusSet DEF CaptureInv
    <2> QED
      BY <1>0, <2>1, <2>2, <2>3 DEF Retry, ReturnUnchanged, AcceptDecrease, ClaimAcknowledgement
  <1> QED
    BY <1>1, <1>3, <1>4, CaptureInvKept, CallsStay DEF CaptureInv

(* Whoever has claimed the acknowledgement closes the capture.             *)
LEMMA ClosingKeeps ==
  ASSUME CaptureInv, NEW q \in Requests,
         \/ AskForPhoto(q) \/ ApplyOutcome(q) \/ RecordOutcome(q) \/ CloseCapture(q)
         \/ ApplyLate(q) \/ FinishLate(q)
  PROVE  CaptureInv' /\ Once
  <1>1. request[q].pc # "idle" /\ UNCHANGED call
    BY DEF AskForPhoto, ApplyOutcome, RecordOutcome, CloseCapture, ApplyLate, FinishLate, Asked
  <1>2. ReadWhileOpen'
    <2>1. CASE Answered(q)
      BY <2>1, RequestAnswered DEF CaptureInv
    <2>2. CASE \E pc \in {"record", "reject", "close", "confirm"} : Step(q, pc)
      BY <1>1, <2>2, RequestSteps DEF CaptureInv
    <2> QED
      BY <2>1, <2>2 DEF AskForPhoto, ApplyOutcome, RecordOutcome, CloseCapture, ApplyLate, FinishLate
  <1>3. Conditional
    <2>1. CASE UNCHANGED capture
      BY <2>1, CapturesStay DEF CaptureInv
    <2>2. CASE CloseCapture(q)
      <3>1. PICK r, b : r = request[q].run /\ b = request[q].bin
        OBVIOUS
      <3>2. r \in Runs /\ b \in Bins
        BY <1>1, <3>1 DEF CaptureInv, ReadWhileOpen
      <3>3. CASE capture[r][b].status = "FINALIZING"
        BY <2>2, <3>1, <3>2, <3>3, StatusSet DEF CloseCapture, CaptureInv, CaptureOver
      <3>4. CASE capture[r][b].status # "FINALIZING"
        BY <2>1, <2>2, <3>1, <3>4 DEF CloseCapture
      <3> QED
        BY <3>3, <3>4
    <2> QED
      BY <2>1, <2>2 DEF AskForPhoto, ApplyOutcome, RecordOutcome, ApplyLate, FinishLate
  <1> QED
    BY <1>1, <1>2, <1>3, CaptureInvKept, CallsStay DEF CaptureInv

---------------------------------------------------------------------------
(* The photo and its analysis.                                             *)
LEMMA AnalysisKeeps ==
  ASSUME CaptureInv, NEW r \in Runs, NEW b \in Bins,
         ReceivePhoto(r, b) \/ LoseJob(r, b) \/ AnalysisStep(r, b) \/ LoseAnalysis(r, b)
  PROVE  CaptureInv' /\ Once
  <1>1. UNCHANGED <<call, request>>
    BY DEF ReceivePhoto, LoseJob, AnalysisStep, LoseAnalysis, Analyse, DisableBin,
           RecordUnexpectedStock, PersistReading, FailAnalysis
  <1>2. Conditional
    <2>1. CASE UNCHANGED capture
      BY <2>1, CapturesStay DEF CaptureInv
    <2>2. CASE ReceivePhoto(r, b)
      <3>1. CASE capture[r][b].status = "WAITING_FOR_CAMERA" /\ SetCapture(r, b, "CAPTURING")
        BY <3>1, StatusSet DEF CaptureInv, CaptureOver
      <3> QED
        BY <2>1, <2>2, <3>1 DEF ReceivePhoto
    <2>3. CASE PersistReading(r, b)
      <3>1. CASE Claimed(r, b)
        <4>1. /\ CaptureShape'
              /\ \A s \in Runs, x \in Bins : (s # r \/ x # b) => capture'[s][x] = capture[s][x]
          BY <2>3, <3>1 DEF PersistReading, CaptureInv, CaptureShape, CaptureFields
        <4> QED
          BY <3>1, <4>1 DEF Conditional, Decides, Claimed, CaptureOver
      <3> QED
        BY <2>1, <2>3, <3>1 DEF PersistReading
    <2>4. CASE FailAnalysis(r, b)
      <3>1. CASE Claimed(r, b)
        BY <2>4, <3>1, StatusSet DEF FailAnalysis, Claimed, CaptureInv, CaptureOver
      <3> QED
        BY <2>1, <2>4, <3>1 DEF FailAnalysis
    <2> QED
      BY <2>1, <2>2, <2>3, <2>4 DEF LoseJob, AnalysisStep, LoseAnalysis, Analyse, DisableBin,
           RecordUnexpectedStock, tables
  <1> QED
    BY <1>1, <1>2, CaptureInvKept, CallsStay, RequestsStay DEF CaptureInv

---------------------------------------------------------------------------
(* The audit itself.                                                       *)
LEMMA AdvanceKeeps ==
  ASSUME CaptureInv, UNCHANGED <<capture, request>>, NEW r \in Runs, Advances(r),
         DOMAIN call' = Runs, \A s \in Runs \ {r} : call'[s] = call[s]
  PROVE  CaptureInv' /\ Once
  BY CaptureInvKept, CapturesStay, RequestsStay DEF CaptureInv, CallsAdvance

(* The run goes to a statement in which its bin has been photographed, or  *)
(* it has none; or the call ends.                                          *)
Leaves(r) ==
    \/ \E pc : /\ pc \notin Early \cup OnItsWay
               /\ Goto(r, pc) \/ \E result : GotoWith(r, pc, result)
    \/ End(r)

LEMMA LeavingAdvances ==
  ASSUME CallShape, NEW r \in Runs, Leaves(r)
  PROVE  /\ Advances(r) /\ DOMAIN call' = Runs
         /\ \A s \in Runs \ {r} : call'[s] = call[s]
  BY ZenonT(60) DEF CallShape, CallFields, Leaves, Goto, GotoWith, End, NewCall, Advances, Early, OnItsWay

LEMMA LeavingKeeps ==
  ASSUME CaptureInv, UNCHANGED <<capture, request>>, NEW r \in Runs, Leaves(r)
  PROVE  CaptureInv' /\ Once
  BY LeavingAdvances, AdvanceKeeps DEF CaptureInv

(* Up to the list of bins.                                                 *)
LEMMA OpeningKeeps ==
  ASSUME CaptureInv, NEW r \in Runs, Begin(r) \/ CreateRun(r) \/ ListBins(r)
  PROVE  CaptureInv' /\ Once
  <1>1. UNCHANGED <<capture, request>>
    BY DEF Begin, CreateRun, ListBins, tables
  <1>2. CASE Leaves(r)
    BY <1>1, <1>2, LeavingKeeps
  <1>3. CASE Begin(r)
    <2>1. PICK new : /\ call' = [call EXCEPT ![r] = new]
                     /\ DOMAIN new = CallFields /\ new.planned = {} /\ new.pc \in {"create", "recover"}
      <3>1. PICK trigger, reportOnly :
              \/ call' = [call EXCEPT ![r] =
                   [NewCall EXCEPT !.pc = "create", !.trigger = trigger, !.reportOnly = reportOnly]]
              \/ \E a \in Runs : call' = [call EXCEPT ![r] =
                   [NewCall EXCEPT !.pc = "recover", !.trigger = trigger, !.reportOnly = reportOnly,
                      !.seen = [run |-> a, open |-> OpenAudits(a),
                                locked |-> {b \in OpenAudits(a) : binStatus[b] = "AUDITING"},
                                shown |-> {b \in Bins : capture[a][b].status = "PENDING_ACK"}
                                            \ OpenAudits(a),
                                held |-> stock]]]
        BY <1>3 DEF Begin
      <3>2. ASSUME NEW seen, NEW new,
                   \/ new = [NewCall EXCEPT !.pc = "create", !.trigger = trigger, !.reportOnly = reportOnly]
                   \/ new = [NewCall EXCEPT !.pc = "recover", !.trigger = trigger,
                               !.reportOnly = reportOnly, !.seen = seen]
            PROVE  DOMAIN new = CallFields /\ new.planned = {} /\ new.pc \in {"create", "recover"}
        BY <3>2 DEF NewCall, CallFields
      <3> QED
        BY <3>1, <3>2
    <2>2. /\ call[r].pc = "idle" /\ DOMAIN call' = Runs /\ \A s \in Runs \ {r} : call'[s] = call[s]
          /\ DOMAIN call'[r] = CallFields /\ call'[r].planned = {}
          /\ call'[r].pc \in {"create", "recover"}
      BY <1>3, <2>1 DEF Begin, At, CaptureInv, CallShape
    <2> QED
      BY <1>1, <2>2, AdvanceKeeps DEF Advances, Early, OnItsWay
  <1>4. CASE At(r, "create") /\ Goto(r, "list")
    <2>1. Advances(r) /\ DOMAIN call' = Runs /\ \A s \in Runs \ {r} : call'[s] = call[s]
      BY <1>4 DEF At, Goto, Advances, Early, OnItsWay, CaptureInv, CallShape
    <2> QED
      BY <1>1, <2>1, AdvanceKeeps
  <1>5. CASE ListBins(r) /\ ~Leaves(r)
    <2>1. PICK planned \in SUBSET Bins :
            call' = [call EXCEPT ![r].pc = "next", ![r].planned = planned, ![r].expected = stock]
      <3>1. PICK planned \in {{b} : b \in Bins} \cup {{}, {b \in Bins : binStatus[b] \in OnShelf}} :
              \/ FailRun(r)
              \/ call' = [call EXCEPT ![r].pc = "next", ![r].planned = planned, ![r].expected = stock]
        BY <1>5 DEF ListBins
      <3>2. planned \subseteq Bins /\ ~FailRun(r)
        BY <1>5, <3>1 DEF FailRun, Leaves
      <3> QED
        BY <3>1, <3>2
    <2>2. call[r].pc = "list"
      BY <1>5 DEF ListBins, At
    <2>3. Advances(r) /\ DOMAIN call' = Runs /\ \A s \in Runs \ {r} : call'[s] = call[s]
      BY <2>1, <2>2 DEF Advances, Early, OnItsWay, CaptureInv, CallShape, CallFields
    <2> QED
      BY <1>1, <2>3, AdvanceKeeps
  <1> QED
    BY <1>2, <1>3, <1>4, <1>5 DEF CreateRun, Leaves

(* The run and the bin it has come to.                                     *)
LEMMA ComingKeeps ==
  ASSUME CaptureInv, NEW r \in Runs,
         CreateAudit(r) \/ TakeLease(r) \/ ClaimBin(r) \/ StartAudit(r) \/ Present(r)
  PROVE  CaptureInv' /\ Once
  <1>1. UNCHANGED <<capture, request>>
    BY DEF CreateAudit, TakeLease, ClaimBin, StartAudit, Present, tables
  <1>2. CASE Leaves(r)
    BY <1>1, <1>2, LeavingKeeps
  <1>3. CASE CreateAudit(r)
    <2>1. PICK b \in call[r].planned :
            call' = [call EXCEPT ![r].pc = "lease", ![r].bin = b, ![r].planned = @ \ {b},
                                 ![r].expected[b] = 0]
      BY <1>3 DEF CreateAudit
    <2>2. /\ call[r].pc = "next" /\ DOMAIN call' = Runs /\ \A s \in Runs \ {r} : call'[s] = call[s]
          /\ DOMAIN call'[r] = CallFields /\ call'[r].pc = "lease"
          /\ call'[r].bin = b /\ call'[r].planned = call[r].planned \ {b}
      BY <1>3, <2>1, ZenonT(60) DEF CreateAudit, At, CaptureInv, CallShape, CallFields
    <2>3. Advances(r)
      BY <2>2 DEF Advances, Early, OnItsWay, CaptureInv, CallShape
    <2> QED
      BY <1>1, <2>2, <2>3, AdvanceKeeps
  <1>4. ASSUME call[r].pc \in OnItsWay, NEW pc \in OnItsWay, NEW orig,
               call' = [call EXCEPT ![r].pc = pc, ![r].orig = orig]
        PROVE  CaptureInv' /\ Once
    <2>1. Advances(r) /\ DOMAIN call' = Runs /\ \A s \in Runs \ {r} : call'[s] = call[s]
      BY <1>4 DEF Advances, Early, OnItsWay, CaptureInv, CallShape, CallFields, CapturedOnce
    <2> QED
      BY <1>1, <2>1, AdvanceKeeps
  <1>5. ASSUME call[r].pc \in OnItsWay, NEW pc \in OnItsWay, Goto(r, pc)
        PROVE  CaptureInv' /\ Once
    <2>1. Advances(r) /\ DOMAIN call' = Runs /\ \A s \in Runs \ {r} : call'[s] = call[s]
      BY <1>5 DEF Goto, Advances, Early, OnItsWay, CaptureInv, CallShape, CallFields, CapturedOnce
    <2> QED
      BY <1>1, <2>1, AdvanceKeeps
  <1>6. CASE TakeLease(r)
    BY <1>2, <1>5, <1>6 DEF TakeLease, FailRun, Leaves, At, OnItsWay
  <1>7. CASE ClaimBin(r)
    BY <1>2, <1>4, <1>7 DEF ClaimBin, FailAudit, Leaves, At, OnItsWay, Early
  <1>8. CASE StartAudit(r)
    BY <1>2, <1>5, <1>8 DEF StartAudit, FailRun, Leaves, At, OnItsWay
  <1>9. CASE Present(r)
    BY <1>2, <1>5, <1>9 DEF Present, FailAudit, Leaves, At, OnItsWay, Early
  <1> QED
    BY <1>3, <1>6, <1>7, <1>8, <1>9

(* The capture is created, once.                                           *)
LEMMA CreatingKeeps ==
  ASSUME CaptureInv, NEW r \in Runs, CreateCapture(r)
  PROVE  CaptureInv' /\ Once
  <1>1. PICK b : b = call[r].bin
    OBVIOUS
  <1>2. /\ call[r].pc = "capture" /\ UNCHANGED request
        /\ call' = [call EXCEPT ![r].pc = "photo"]
        /\ capture' = [capture EXCEPT ![r][b] =
              [status |-> "WAITING_FOR_CAMERA", attempt |-> 1, observed |-> Unsafe]]
    BY <1>1 DEF CreateCapture, At, Goto
  <1>3. b \in Bins \ call[r].planned /\ Untouched(r, b)
    BY <1>1, <1>2 DEF CaptureInv, CapturedOnce, OnItsWay
  <1>4. /\ \A s \in Runs, x \in Bins : (s # r \/ x # b) => capture'[s][x] = capture[s][x]
        /\ CaptureShape'
    BY <1>2, <1>3 DEF CaptureInv, CaptureShape, CaptureFields
  <1>5. /\ CallShape' /\ call'[r].pc = "photo" /\ call'[r].planned = call[r].planned
        /\ \A s \in Runs \ {r} : call'[s] = call[s]
    BY <1>2 DEF CaptureInv, CallShape, CallFields
  <1>6. CapturedOnce'
    BY <1>3, <1>4, <1>5 DEF CaptureInv, CapturedOnce, Untouched, Early, OnItsWay, CallShape
  <1>7. Once
    BY <1>3, <1>4 DEF Once, Untouched, CaptureOver
  <1> QED
    BY <1>2, <1>4, <1>5, <1>6, <1>7, RequestsStay DEF CaptureInv

(* The run waits for the decision, and may take it itself.                 *)
LEMMA AwaitingKeeps ==
  ASSUME CaptureInv, NEW r \in Runs, SeeCapture(r) \/ ExpireCapture(r)
  PROVE  CaptureInv' /\ Once
  <1>1. PICK b : b = call[r].bin
    OBVIOUS
  <1>2. Leaves(r) /\ UNCHANGED request
    BY DEF SeeCapture, ExpireCapture, Leaves, Early, OnItsWay
  <1>3. CASE UNCHANGED capture
    BY <1>2, <1>3, LeavingKeeps
  <1>4. CASE \E status : SetCapture(r, b, status) /\ capture[r][b].status \in {"PENDING_ACK", "CAPTURING"}
    <2>1. Conditional
      <3>1. CASE b \in Bins
        BY <1>4, <3>1, StatusSet DEF CaptureInv, CaptureOver
      <3>2. CASE b \notin Bins
        BY <1>4, <3>2, CapturesStay DEF SetCapture, Conditional, CaptureInv, CaptureShape
      <3> QED
        BY <3>1, <3>2
    <2> QED
      BY <1>2, <2>1, LeavingAdvances, CaptureInvKept, RequestsStay DEF CaptureInv, CallsAdvance
  <1> QED
    BY <1>1, <1>3, <1>4 DEF SeeCapture, ExpireCapture

LEMMA LeavingSteps ==
  ASSUME CaptureInv, NEW r \in Runs,
         \/ RequestPhoto(r) \/ Return(r) \/ ReleaseBin(r) \/ RecordResult(r) \/ ReadBack(r)
         \/ SettleReview(r) \/ FinishRun(r)
  PROVE  CaptureInv' /\ Once
  <1>1. UNCHANGED <<capture, request>>
    BY DEF RequestPhoto, Return, ReleaseBin, RecordResult, ReadBack, SettleReview, FinishRun, tables
  <1>2. CASE RequestPhoto(r) \/ RecordResult(r) \/ SettleReview(r) \/ FinishRun(r) \/ ReadBack(r)
    <2>1. Leaves(r)
      BY <1>2 DEF RequestPhoto, RecordResult, SettleReview, FinishRun, ReadBack, FailAudit, FailRun,
           Leaves, Early, OnItsWay
    <2> QED
      BY <1>1, <2>1, LeavingKeeps
  <1>3. CASE Return(r) \/ ReleaseBin(r)
    <2>1. Leaves(r)
      BY <1>3 DEF Return, ReleaseBin, FailAudit, Leaves, Early, OnItsWay
    <2> QED
      BY <1>1, <2>1, LeavingKeeps
  <1> QED
    BY <1>2, <1>3

LEMMA EndSessionKeeps ==
  ASSUME CaptureInv, NEW r \in Runs, EndSession(r)
  PROVE  CaptureInv' /\ Once
  <1>1. UNCHANGED <<capture, request>>
    BY DEF EndSession, tables
  <1>2. CASE End(r)
    BY <1>1, <1>2, LeavingKeeps DEF Leaves
  <1>3. CASE ~End(r)
    <2>1. /\ call[r].pc = "audited" /\ DOMAIN call' = Runs /\ \A s \in Runs \ {r} : call'[s] = call[s]
          /\ DOMAIN call'[r] = CallFields /\ call'[r].pc \in {"settle", "next"}
          /\ call'[r].planned \in {{}, call[r].planned}
      BY <1>3 DEF EndSession, FailRun, At, CaptureInv, CallShape, CallFields
    <2>2. Advances(r) /\ DOMAIN call' = Runs /\ \A s \in Runs \ {r} : call'[s] = call[s]
      BY <2>1 DEF Advances, Early, OnItsWay, CaptureInv, CallShape, CallFields
    <2> QED
      BY <1>1, <2>2, AdvanceKeeps
  <1> QED
    BY <1>2, <1>3

(* A recovery overwrites what was open when it looked, if it still is.     *)
LEMMA RecoveryKeeps ==
  ASSUME CaptureInv, NEW r \in Runs, Recover(r)
  PROVE  CaptureInv' /\ Once
  <1>1. UNCHANGED request /\ call[r].pc = "recover"
        /\ call' = [call EXCEPT ![r].pc = "create", ![r].seen = NothingSeen]
    BY DEF Recover, At
  <1>2. CallsAdvance
    BY <1>1 DEF CallsAdvance, Advances, Early, OnItsWay, CaptureInv, CallShape, CallFields
  <1>3. Conditional
    <2>1. CASE UNCHANGED capture
      BY <2>1, CapturesStay DEF CaptureInv
    <2>2. CASE capture' # capture
      <3> DEFINE a == call[r].seen.run
                 open == call[r].seen.open
                 shown == call[r].seen.shown
      <3>1. capture' = [capture EXCEPT ![a] = [b \in Bins |->
                 CASE b \in open /\ @[b].status \in Undecided \cup {"CAPTURING", "PENDING_ACK"} ->
                        [@[b] EXCEPT !.status = "FAILED"]
                   [] b \in shown /\ @[b].status = "PENDING_ACK" ->
                        [@[b] EXCEPT !.status = "ACCEPTED"]
                   [] OTHER -> @[b]]]
        BY <2>2 DEF Recover
      <3> HIDE DEF a, open, shown
      <3>2. ASSUME NEW s \in Runs, NEW b \in Bins, capture'[s][b] # capture[s][b]
            PROVE  /\ capture[s][b].status \in Undecided \cup {"CAPTURING", "PENDING_ACK"}
                   /\ DOMAIN capture'[s][b] = DOMAIN capture[s][b]
        <4>1. s = a
          BY <3>1, <3>2 DEF CaptureInv, CaptureShape
        <4>2. capture'[s][b] =
                CASE b \in open /\ capture[s][b].status \in Undecided \cup {"CAPTURING", "PENDING_ACK"} ->
                       [capture[s][b] EXCEPT !.status = "FAILED"]
                  [] b \in shown /\ capture[s][b].status = "PENDING_ACK" ->
                       [capture[s][b] EXCEPT !.status = "ACCEPTED"]
                  [] OTHER -> capture[s][b]
          BY <3>1, <4>1 DEF CaptureInv, CaptureShape
        <4> QED
          BY <3>2, <4>2
      <3>3. DOMAIN capture' = Runs /\ \A s \in Runs : DOMAIN capture'[s] = Bins
        BY <3>1 DEF CaptureInv, CaptureShape
      <3> QED
        BY <3>2, <3>3 DEF Conditional, Decides, CaptureInv, CaptureShape, Undecided, Retryable, CaptureOver
    <2> QED
      BY <2>1, <2>2
  <1> QED
    BY <1>1, <1>2, <1>3, CaptureInvKept, RequestsStay DEF CaptureInv

(* What goes on around the audits leaves the captures alone.               *)
LEMMA OthersKeep ==
  ASSUME CaptureInv,
         \/ \E b \in Bins : OtherReserve(b) \/ OtherCarry(b) \/ OtherFinish(b) \/ SetStock(b)
         \/ Restart \/ LeaseExpires \/ UNCHANGED vars
  PROVE  CaptureInv' /\ Once
  <1>1. CASE Restart
    <2>1. UNCHANGED capture /\ ReadWhileOpen'
      BY <1>1 DEF Restart, tables, ReadWhileOpen, IdleRequest
    <2>2. CallsAdvance
      BY <1>1 DEF Restart, CallsAdvance, Advances, NewCall, CallFields, Early, OnItsWay
    <2> QED
      BY <2>1, <2>2, CaptureInvKept, CapturesStay DEF CaptureInv
  <1>2. CASE ~Restart
    <2>1. UNCHANGED <<capture, call, request>>
      BY <1>2 DEF OtherReserve, OtherCarry, OtherFinish, SetStock, LeaseExpires, vars, tables
    <2> QED
      BY <2>1, CaptureInvKept, CapturesStay, CallsStay, RequestsStay DEF CaptureInv
  <1> QED
    BY <1>1, <1>2

LEMMA CaptureStep ==
  ASSUME CaptureInv, [Next]_vars
  PROVE  CaptureInv' /\ Once
  <1>1. ASSUME NEW r \in Runs, Begin(r) \/ CallStep(r)
        PROVE  CaptureInv' /\ Once
    BY <1>1, OpeningKeeps, ComingKeeps, CreatingKeeps, AwaitingKeeps, LeavingSteps, EndSessionKeeps,
       RecoveryKeeps DEF CallStep
  <1>2. ASSUME RequestStep
        PROVE  CaptureInv' /\ Once
    BY <1>2, ReadingKeeps, DecidingKeeps, ClosingKeeps DEF RequestStep
  <1> QED
    BY <1>1, <1>2, AnalysisKeeps, OthersKeep DEF Next

LEMMA CaptureInit ==
  ASSUME Init
  PROVE  CaptureInv
  BY DEF Init, NoCapture, NewCall, IdleRequest, CaptureInv, CaptureShape, CallShape, CaptureFields,
       CallFields, ReadWhileOpen, CapturedOnce, Untouched, OnItsWay

(* The invariant of the captures.                                          *)
THEOREM CapturesAreMadeOnce == Spec => []CaptureInv
  BY CaptureInit, CaptureStep, PTL DEF Spec

(* For any bins, runs, requests and recoveries, a capture that has been    *)
(* accepted or has failed is never written again, and one whose decision   *)
(* is being carried out can only be accepted.                              *)
THEOREM CaptureIsDecidedOnce == Spec => DecidedOnce
  <1>1. CaptureInv /\ [Next]_vars => Once
    BY CaptureStep
  <1> QED
    BY <1>1, CapturesAreMadeOnce, PTL DEF Spec, DecidedOnce, Once

(***************************************************************************)
(* The bins at the scan station.                                           *)

Statuses == OnShelf \cup {"AUDITING", "RESERVED", "DISABLED"}
Places == {"rack", "scan", "away"}

(* Where a call holds the lease, where it has locked its bin and not yet   *)
(* given the lock back, and where the bin is at the scan station.          *)
InSession ==
    {"claim", "start", "present", "capture", "photo", "await", "return", "release", "record",
     "readBack", "audited"}
HasLocked == {"start", "present", "capture", "photo", "await", "return", "release"}
Carried == {"capture", "photo", "await", "return"}

Unlocked(b) == binStatus[b] \notin {"AUDITING", "DISABLED"}

BinShape ==
    /\ binStatus \in [Bins -> Statuses]
    /\ place \in [Bins -> Places]
    /\ lease \in Runs \cup {NoOne}
    /\ \A r \in Runs : call[r].orig \in OnShelf

(* One call at a time visits a bin.                                        *)
OneSession == \A r \in Runs : call[r].pc \in InSession => lease = r /\ call[r].bin \in Bins

(* During its visit the bin loses its lock by a decision alone; and the    *)
(* call gives the lock back only where the bin is on the rack, or had been *)
(* unlocked at the scan station before the call came to it.                *)
VisitKeepsLock ==
    \A r \in Runs : LET b == call[r].bin IN
      /\ call[r].pc \in HasLocked /\ Unlocked(b) => b \in freed
      /\ call[r].pc \in {"start", "present"} /\ place[b] = "scan" => b \in freed /\ b \in stranded
      /\ call[r].pc = "release" => place[b] # "scan"

ScannedBins ==
    \A b \in Bins :
      /\ place[b] = "scan" =>
           b \in stranded \/ \E r \in Runs : call[r].pc \in Carried /\ call[r].bin = b
      /\ place[b] = "scan" /\ Unlocked(b) => b \in freed
      /\ place[b] = "away" => binStatus[b] = "RESERVED"

AttendInv == BinShape /\ OneSession /\ VisitKeepsLock /\ ScannedBins

---------------------------------------------------------------------------
(* Where a call goes.                                                      *)
Moved(r, pc, bin) ==
    /\ \A s \in Runs \ {r} : call'[s] = call[s]
    /\ call'[r].pc = pc /\ call'[r].bin = bin /\ call'[r].orig \in {call[r].orig, "AVAILABLE"}

LEMMA GoingMoves ==
  ASSUME CallShape, NEW r \in Runs, NEW pc, Goto(r, pc) \/ \E result : GotoWith(r, pc, result)
  PROVE  Moved(r, pc, call[r].bin)
  BY ZenonT(60) DEF CallShape, CallFields, Goto, GotoWith, Moved

LEMMA EndMoves ==
  ASSUME CallShape, NEW r \in Runs, End(r)
  PROVE  Moved(r, "done", NoOne)
  BY DEF CallShape, End, NewCall, Moved

(* Steps outside the visits, which never unlock a bin but by a decision.   *)
LEMMA BooksMove ==
  ASSUME AttendInv, binStatus' \in [Bins -> Statuses], UNCHANGED <<place, lease, stranded>>,
         freed \subseteq freed',
         \A b \in Bins : Unlocked(b)' => Unlocked(b) \/ b \in freed',
         \A b \in Bins : place[b] = "away" => binStatus'[b] = binStatus[b] \/ binStatus[b] # "RESERVED",
         \A s \in Runs :
            /\ call'[s].orig \in OnShelf
            /\ \/ call'[s].pc = call[s].pc /\ call'[s].bin = call[s].bin
               \/ call[s].pc \notin InSession /\ call'[s].pc \notin InSession
  PROVE  AttendInv'
  <1>1. BinShape' /\ OneSession'
    BY DEF AttendInv, BinShape, OneSession
  <1>2. VisitKeepsLock'
    BY DEF AttendInv, OneSession, VisitKeepsLock, InSession, HasLocked
  <1>3. ScannedBins'
    BY DEF AttendInv, ScannedBins, Carried, InSession
  <1> QED
    BY <1>1, <1>2, <1>3 DEF AttendInv

(* A step of the call that holds the lease.                                *)
LEMMA VisitMoves ==
  ASSUME AttendInv, NEW r \in Runs, call[r].pc \in InSession, NEW b \in Bins, b = call[r].bin,
         NEW pc, \A s \in Runs \ {r} : call'[s] = call[s],
         call'[r].pc = pc, call'[r].orig \in OnShelf,
         pc \in InSession => call'[r].bin = b /\ lease' = lease,
         lease' \in Runs \cup {NoOne},
         binStatus' \in [Bins -> Statuses], place' \in [Bins -> Places],
         \A x \in Bins \ {b} :
            /\ binStatus'[x] = binStatus[x] /\ place'[x] = place[x]
            /\ x \in freed => x \in freed'
            /\ x \in stranded => x \in stranded',
         place'[b] = "scan" \/ pc \in HasLocked => (Unlocked(b)' => b \in freed'),
         pc \in {"start", "present"} /\ place'[b] = "scan" => b \in freed' /\ b \in stranded',
         pc = "release" => place'[b] # "scan",
         place'[b] = "scan" => b \in stranded' \/ pc \in Carried,
         place'[b] = "away" => binStatus'[b] = "RESERVED"
  PROVE  AttendInv'
  <1>1. \A s \in Runs \ {r} : call[s].pc \notin InSession
    BY DEF AttendInv, OneSession
  <1>2. BinShape' /\ OneSession'
    BY <1>1 DEF AttendInv, BinShape, OneSession
  <1>3. VisitKeepsLock'
    BY <1>1 DEF VisitKeepsLock, InSession, HasLocked
  <1>4. ScannedBins'
    BY <1>1 DEF AttendInv, ScannedBins, Unlocked, Carried, InSession
  <1> QED
    BY <1>2, <1>3, <1>4 DEF AttendInv

LEMMA CallMoves ==
  ASSUME AttendInv, UNCHANGED <<binStatus, place, lease, stranded, freed>>,
         NEW r \in Runs, NEW pc, NEW bin, Moved(r, pc, bin), {call[r].pc, pc} \cap InSession = {}
  PROVE  AttendInv'
  <1>1. \A s \in Runs :
          /\ call'[s].orig \in OnShelf
          /\ \/ call'[s].pc = call[s].pc /\ call'[s].bin = call[s].bin
             \/ call[s].pc \notin InSession /\ call'[s].pc \notin InSession
    BY DEF Moved, AttendInv, BinShape, OnShelf
  <1> QED
    BY <1>1, BooksMove DEF AttendInv, BinShape, Unlocked

(* A decision unlocks the bin of some audit.                               *)
LEMMA UnlockMoves ==
  ASSUME BinShape, NEW b \in Bins, NEW to \in OnShelf, NEW outdated, Unlock(b, to, outdated)
  PROVE  /\ binStatus' \in [Bins -> Statuses] /\ freed \subseteq freed'
         /\ \A x \in Bins : Unlocked(x)' => Unlocked(x) \/ x \in freed'
         /\ \A x \in Bins \ {b} : binStatus'[x] = binStatus[x]
         /\ binStatus'[b] = binStatus[b] \/ binStatus[b] = "AUDITING"
  BY DEF Unlock, Release, BinShape, Statuses, OnShelf, Unlocked

LEMMA ShelfStatuses ==
  /\ \A n : ShelfStatus(n) \in OnShelf
  /\ \A r, b : OriginalStatus(r, b) \in OnShelf
  BY DEF ShelfStatus, OnShelf, OriginalStatus

LEMMA RequestsOutside ==
  ASSUME RequestStep
  PROVE  UNCHANGED <<world, call, runStatus, analysis>>
  <1>1. ASSUME NEW q \in Requests, NEW kind, NEW r, NEW b, ReadCapture(q, kind, r, b) \/ ReadAudit(q, kind, r, b)
        PROVE  UNCHANGED <<world, call, runStatus, analysis>>
    BY <1>1 DEF ReadCapture, ReadAudit
  <1>2. ASSUME NEW q \in Requests,
               AskForPhoto(q) \/ Retry(q) \/ ReturnUnchanged(q) \/ AcceptDecrease(q) \/ ApplyLate(q)
        PROVE  UNCHANGED <<world, call, runStatus, analysis>>
    BY <1>2 DEF AskForPhoto, Retry, ReturnUnchanged, AcceptDecrease, ApplyLate
  <1>3. ASSUME NEW q \in Requests,
               \/ ClaimAcknowledgement(q) \/ ApplyOutcome(q) \/ RecordOutcome(q) \/ CloseCapture(q)
               \/ FinishLate(q)
        PROVE  UNCHANGED <<world, call, runStatus, analysis>>
    BY <1>3 DEF ClaimAcknowledgement, ApplyOutcome, RecordOutcome, CloseCapture, FinishLate
  <1> QED
    BY <1>1, <1>2, <1>3 DEF RequestStep

LEMMA DecisionsAttend ==
  ASSUME AttendInv, ReadWhileOpen, RequestStep
  PROVE  AttendInv'
  <1>1. UNCHANGED <<place, lease, stranded, call>>
    BY RequestsOutside DEF world
  <1>2. CASE UNCHANGED <<binStatus, freed>>
    BY <1>1, <1>2, BooksMove DEF AttendInv, BinShape, Unlocked
  <1>3. ASSUME NEW q \in Requests, ReturnUnchanged(q) \/ AcceptDecrease(q) \/ ApplyOutcome(q),
               ~UNCHANGED <<binStatus, freed>>
        PROVE  AttendInv'
    <2>1. request[q].bin \in Bins
      BY <1>3 DEF ReadWhileOpen, ReturnUnchanged, AcceptDecrease, ApplyOutcome, Asked
    <2>2. \E b \in Bins, to \in OnShelf : \E outdated : Unlock(b, to, outdated)
      BY <1>3, <2>1, ShelfStatuses DEF ReturnUnchanged, AcceptDecrease, ApplyOutcome, history
    <2> QED
      BY <1>1, <2>2, UnlockMoves, BooksMove DEF AttendInv, BinShape
  <1>4. ASSUME NEW q \in Requests, ApplyLate(q), ~UNCHANGED <<binStatus, freed>>
        PROVE  AttendInv'
    <2>1. PICK b : b = request[q].bin
      OBVIOUS
    <2>2. PICK n : binStatus' = [binStatus EXCEPT ![b] = IF @ \in OnShelf THEN ShelfStatus(n) ELSE @]
      BY <1>4, <2>1 DEF ApplyLate, history
    <2>3. freed' = freed
      BY <1>4 DEF ApplyLate, history
    <2>4. /\ binStatus' \in [Bins -> Statuses]
          /\ \A x \in Bins : Unlocked(x)' => Unlocked(x)
          /\ \A x \in Bins : binStatus'[x] = binStatus[x] \/ binStatus[x] # "RESERVED"
      BY <2>2, ShelfStatuses DEF AttendInv, BinShape, Statuses, OnShelf, Unlocked
    <2> QED
      BY <1>1, <2>3, <2>4, BooksMove DEF AttendInv, BinShape
  <1>5. \/ UNCHANGED <<binStatus, freed>>
        \/ \E q \in Requests : ReturnUnchanged(q) \/ AcceptDecrease(q) \/ ApplyOutcome(q) \/ ApplyLate(q)
    <2>1. ASSUME NEW q \in Requests,
                 (\E kind, r, b : ReadCapture(q, kind, r, b) \/ ReadAudit(q, kind, r, b))
          PROVE  UNCHANGED <<binStatus, freed>>
      BY <2>1 DEF ReadCapture, ReadAudit, tables, history
    <2>2. ASSUME NEW q \in Requests,
                 \/ AskForPhoto(q) \/ Retry(q) \/ ClaimAcknowledgement(q) \/ RecordOutcome(q)
                 \/ CloseCapture(q) \/ FinishLate(q)
          PROVE  UNCHANGED <<binStatus, freed>>
      BY <2>2 DEF AskForPhoto, Retry, ClaimAcknowledgement, RecordOutcome, CloseCapture, FinishLate, history
    <2> QED
      BY <2>1, <2>2, ZenonT(30) DEF RequestStep
  <1> QED
    BY <1>2, <1>3, <1>4, <1>5

LEMMA AnalysisAttends ==
  ASSUME AttendInv, NEW r \in Runs, NEW b \in Bins,
         ReceivePhoto(r, b) \/ LoseJob(r, b) \/ AnalysisStep(r, b) \/ LoseAnalysis(r, b)
  PROVE  AttendInv'
  <1>1. UNCHANGED <<place, lease, stranded, freed, call>>
    BY DEF ReceivePhoto, LoseJob, AnalysisStep, LoseAnalysis, Analyse, DisableBin,
           RecordUnexpectedStock, PersistReading, FailAnalysis, world, history
  <1>2. UNCHANGED binStatus \/ Release(b, "DISABLED")
    BY DEF ReceivePhoto, LoseJob, AnalysisStep, LoseAnalysis, Analyse, DisableBin,
           RecordUnexpectedStock, PersistReading, FailAnalysis, tables
  <1>3. /\ binStatus' \in [Bins -> Statuses]
        /\ \A x \in Bins : Unlocked(x)' => Unlocked(x)
        /\ \A x \in Bins : binStatus'[x] = binStatus[x] \/ binStatus[x] # "RESERVED"
    BY <1>2 DEF AttendInv, BinShape, Statuses, OnShelf, Release, Unlocked
  <1> QED
    BY <1>1, <1>3, BooksMove DEF AttendInv, BinShape

Fresh(new) ==
    /\ DOMAIN new = CallFields /\ new.pc \in {"create", "recover"}
    /\ new.planned = {} /\ new.bin = NoOne /\ new.orig = "AVAILABLE"
    /\ new.expected = [b \in Bins |-> 0]

(* What an audit request starts with.                                     *)
LEMMA BeginCalls ==
  ASSUME CallShape, NEW r \in Runs, Begin(r)
  PROVE  /\ DOMAIN call' = Runs /\ \A s \in Runs \ {r} : call'[s] = call[s]
         /\ Fresh(call'[r])
  <1>1. PICK trigger, reportOnly :
              \/ call' = [call EXCEPT ![r] =
                   [NewCall EXCEPT !.pc = "create", !.trigger = trigger, !.reportOnly = reportOnly]]
              \/ \E a \in Runs : call' = [call EXCEPT ![r] =
                   [NewCall EXCEPT !.pc = "recover", !.trigger = trigger, !.reportOnly = reportOnly,
                      !.seen = [run |-> a, open |-> OpenAudits(a),
                                locked |-> {b \in OpenAudits(a) : binStatus[b] = "AUDITING"},
                                shown |-> {b \in Bins : capture[a][b].status = "PENDING_ACK"}
                                            \ OpenAudits(a),
                                held |-> stock]]]
    BY DEF Begin
  <1>2. ASSUME NEW seen, NEW new,
               \/ new = [NewCall EXCEPT !.pc = "create", !.trigger = trigger, !.reportOnly = reportOnly]
               \/ new = [NewCall EXCEPT !.pc = "recover", !.trigger = trigger,
                           !.reportOnly = reportOnly, !.seen = seen]
        PROVE  Fresh(new)
    BY <1>2 DEF NewCall, CallFields, Fresh
  <1>3. PICK new : call' = [call EXCEPT ![r] = new] /\ Fresh(new)
    BY <1>1, <1>2
  <1> QED
    BY <1>3 DEF CallShape, Fresh

(* Between its visits a call touches no bin; a recovery takes every bin it *)
(* finds locked out of service.                                            *)
LEMMA OpeningAttends ==
  ASSUME AttendInv, CallShape, NEW r \in Runs,
         \/ Begin(r) \/ CreateRun(r) \/ ListBins(r) \/ CreateAudit(r)
         \/ SettleReview(r) \/ FinishRun(r)
  PROVE  AttendInv'
  <1>1. UNCHANGED <<binStatus, place, lease, stranded, freed>>
    BY DEF Begin, CreateRun, ListBins, CreateAudit, SettleReview, FinishRun, tables, world, history
  <1>2. call[r].pc \in {"idle", "create", "list", "next", "settle"}
    BY DEF Begin, CreateRun, ListBins, CreateAudit, SettleReview, FinishRun, At
  <1>3. \E pc, bin : Moved(r, pc, bin) /\ pc \notin InSession
    <2>1. CASE End(r)
      BY <2>1, EndMoves DEF InSession
    <2>2. ASSUME NEW pc \in {"list", "next"}, Goto(r, pc)
          PROVE  \E to, bin : Moved(r, to, bin) /\ to \notin InSession
      BY <2>2, GoingMoves DEF InSession
    <2>3. CASE Begin(r)
      <3>1. /\ \A s \in Runs \ {r} : call'[s] = call[s]
            /\ call'[r].pc \in {"create", "recover"} /\ call'[r].bin = NoOne
            /\ call'[r].orig = "AVAILABLE"
        BY <2>3, BeginCalls DEF Fresh
      <3> QED
        BY <3>1 DEF Moved, InSession
    <2>4. CASE ListBins(r) /\ ~End(r)
      <3>1. \E planned : call' = [call EXCEPT ![r].pc = "next", ![r].planned = planned,
                                              ![r].expected = stock]
        BY <2>4 DEF ListBins, FailRun
      <3>2. Moved(r, "next", call[r].bin)
        BY <3>1 DEF Moved, CallShape, CallFields
      <3> QED
        BY <3>2 DEF InSession
    <2>5. CASE CreateAudit(r)
      <3>1. PICK b : call' = [call EXCEPT ![r].pc = "lease", ![r].bin = b, ![r].planned = @ \ {b},
                                          ![r].expected[b] = 0]
        BY <2>5 DEF CreateAudit
      <3>2. Moved(r, "lease", b)
        BY <3>1, ZenonT(60) DEF Moved, CallShape, CallFields
      <3> QED
        BY <3>2 DEF InSession
    <2> QED
      BY <2>1, <2>2, <2>3, <2>4, <2>5 DEF CreateRun, SettleReview, FinishRun, FailRun
  <1> QED
    BY <1>1, <1>2, <1>3, CallMoves DEF InSession


LEMMA RecoveryAttends ==
  ASSUME Production, AttendInv, CallShape, NEW r \in Runs, Recover(r)
  PROVE  AttendInv'
  <1>1. UNCHANGED <<place, lease, stranded, freed>>
    BY DEF Recover, world, history
  <1>2. Moved(r, "create", call[r].bin) /\ call[r].pc = "recover"
    <2>1. call[r].pc = "recover" /\ call' = [call EXCEPT ![r].pc = "create", ![r].seen = NothingSeen]
      BY DEF Recover, At
    <2> QED
      BY <2>1 DEF Moved, CallShape, CallFields
  <1>3. \/ UNCHANGED binStatus
        \/ \E locked : binStatus' = [b \in Bins |->
             IF b \in locked /\ binStatus[b] = "AUDITING" THEN "DISABLED" ELSE binStatus[b]]
    <2>1. CASE binStatus' = [b \in Bins |->
                 IF b \in call[r].seen.locked /\ binStatus[b] = "AUDITING"
                 THEN RecoveredStatus(r, b) ELSE binStatus[b]]
      BY <2>1 DEF RecoveredStatus
    <2> QED
      BY <2>1 DEF Recover
  <1>4. /\ binStatus' \in [Bins -> Statuses]
        /\ \A x \in Bins : Unlocked(x)' => Unlocked(x)
        /\ \A x \in Bins : binStatus'[x] = binStatus[x] \/ binStatus[x] # "RESERVED"
    BY <1>3 DEF AttendInv, BinShape, Statuses, OnShelf, Unlocked
  <1>5. \A s \in Runs :
          /\ call'[s].orig \in OnShelf
          /\ \/ call'[s].pc = call[s].pc /\ call'[s].bin = call[s].bin
             \/ call[s].pc \notin InSession /\ call'[s].pc \notin InSession
    BY <1>2 DEF Moved, AttendInv, BinShape, OnShelf, InSession
  <1> QED
    BY <1>1, <1>4, <1>5, BooksMove

---------------------------------------------------------------------------
(* The visit of a bin.                                                     *)
LEMMA LeaseAttends ==
  ASSUME AttendInv, CallShape, CapturedOnce, NEW r \in Runs, TakeLease(r)
  PROVE  AttendInv'
  <1>1. call[r].pc = "lease" /\ call[r].bin \in Bins
    BY DEF TakeLease, At, CapturedOnce, OnItsWay
  <1>2. UNCHANGED <<binStatus, place, stranded, freed>>
    BY DEF TakeLease, tables, history
  <1>3. CASE End(r) /\ UNCHANGED lease
    BY <1>1, <1>2, <1>3, EndMoves, CallMoves DEF InSession
  <1>4. CASE lease = NoOne /\ lease' = r /\ Goto(r, "claim")
    <2>1. Moved(r, "claim", call[r].bin)
      BY <1>4, GoingMoves
    <2>2. \A s \in Runs : call[s].pc \notin InSession
      BY <1>4, AuditAssumption DEF AttendInv, OneSession
    <2>3. BinShape' /\ OneSession'
      BY <1>1, <1>2, <1>4, <2>1, <2>2 DEF AttendInv, BinShape, OneSession, Moved, OnShelf
    <2>4. VisitKeepsLock'
      BY <2>1, <2>2 DEF VisitKeepsLock, Moved, InSession, HasLocked
    <2>5. ScannedBins'
      BY <1>2, <2>2 DEF AttendInv, ScannedBins, Unlocked, Carried, InSession
    <2> QED
      BY <2>3, <2>4, <2>5 DEF AttendInv
  <1> QED
    BY <1>3, <1>4 DEF TakeLease, FailRun

(* Steps of a visit that leave the bin and its lock alone.                 *)
LEMMA WaitingAttends ==
  ASSUME AttendInv, CallShape, NEW r \in Runs, NEW pc \in InSession,
         call[r].pc \in InSession, Moved(r, pc, call[r].bin),
         UNCHANGED <<binStatus, place, lease, stranded, freed>>,
         pc \in HasLocked => call[r].pc \in HasLocked,
         pc \notin {"start", "present"} \/ call[r].pc \in {"start", "present"},
         pc # "release", pc \in Carried \/ call[r].pc \notin Carried
  PROVE  AttendInv'
  <1>1. PICK b : b = call[r].bin
    OBVIOUS
  <1>2. b \in Bins /\ call'[r].orig \in OnShelf
    BY <1>1 DEF AttendInv, OneSession, BinShape, Moved, OnShelf
  <1>3. \A s \in Runs \ {r} : call[s].pc \notin InSession
    BY DEF AttendInv, OneSession
  <1>4. place[b] = "scan" => b \in stranded \/ pc \in Carried
    BY <1>1, <1>2, <1>3 DEF AttendInv, ScannedBins, Carried, InSession
  <1>5. place[b] = "scan" \/ pc \in HasLocked => (Unlocked(b)' => b \in freed')
    BY <1>1, <1>2 DEF AttendInv, VisitKeepsLock, ScannedBins, Unlocked
  <1>6. pc \in {"start", "present"} /\ place[b] = "scan" => b \in freed /\ b \in stranded
    BY <1>1, <1>2 DEF AttendInv, VisitKeepsLock
  <1>7. place[b] = "away" => binStatus[b] = "RESERVED"
    BY <1>2 DEF AttendInv, ScannedBins
  <1>8. /\ \A s \in Runs \ {r} : call'[s] = call[s]
        /\ call'[r].pc = pc /\ call'[r].bin = b
    BY <1>1 DEF Moved
  <1>9. /\ lease' \in Runs \cup {NoOne} /\ binStatus' \in [Bins -> Statuses] /\ place' \in [Bins -> Places]
        /\ place'[b] = place[b] /\ binStatus'[b] = binStatus[b]
        /\ \A x \in Bins \ {b} :
             /\ binStatus'[x] = binStatus[x] /\ place'[x] = place[x]
             /\ x \in freed => x \in freed'
             /\ x \in stranded => x \in stranded'
    BY DEF AttendInv, BinShape
  <1> QED
    BY <1>1, <1>2, <1>4, <1>5, <1>6, <1>7, <1>8, <1>9, VisitMoves

LEMMA ClaimAttends ==
  ASSUME AttendInv, CallShape, NEW r \in Runs, ClaimBin(r)
  PROVE  AttendInv'
  <1>1. PICK b : b = call[r].bin
    OBVIOUS
  <1>2. call[r].pc = "claim" /\ b \in Bins /\ UNCHANGED <<place, lease>>
    BY <1>1 DEF ClaimBin, At, AttendInv, OneSession, InSession
  <1>3. CASE UNCHANGED <<binStatus, freed, stranded>> /\ \E result : GotoWith(r, "audited", result)
    BY <1>2, <1>3, GoingMoves, WaitingAttends DEF InSession, HasLocked, Carried
  <1>4. CASE /\ binStatus[b] \in OnShelf
             /\ binStatus' = [binStatus EXCEPT ![b] = "AUDITING"]
             /\ call' = [call EXCEPT ![r].pc = "start", ![r].orig = binStatus[b]]
             /\ freed' = IF place[b] = "rack" THEN freed \ {b} ELSE freed
             /\ stranded' = IF place[b] = "rack" THEN stranded \ {b} ELSE stranded
    <2>1. /\ \A s \in Runs \ {r} : call'[s] = call[s]
          /\ call'[r].pc = "start" /\ call'[r].orig \in OnShelf /\ call'[r].bin = b
      BY <1>1, <1>4 DEF CallShape, CallFields
    <2>2. place[b] = "scan" => b \in freed /\ b \in stranded
      BY <1>2, <1>4 DEF AttendInv, OneSession, ScannedBins, Unlocked, OnShelf, Carried, InSession
    <2>3. /\ binStatus' \in [Bins -> Statuses] /\ binStatus'[b] = "AUDITING" /\ place[b] # "away"
          /\ \A x \in Bins \ {b} : binStatus'[x] = binStatus[x]
      BY <1>2, <1>4 DEF AttendInv, BinShape, ScannedBins, Statuses, OnShelf
    <2>4. ~Unlocked(b)'
      BY <2>3 DEF Unlocked
    <2> QED
      BY <1>1, <1>2, <1>4, <2>1, <2>2, <2>3, <2>4, VisitMoves DEF AttendInv, BinShape, InSession
  <1> QED
    BY <1>1, <1>3, <1>4 DEF ClaimBin, FailAudit

(* Given back on the rack, or unlocked at the scan station already.        *)
LEMMA ReleaseAttends ==
  ASSUME AttendInv, CallShape, NEW r \in Runs, NEW pc, pc \notin HasLocked,
         call[r].pc \in {"start", "present", "release"}, Release(call[r].bin, call[r].orig),
         Moved(r, pc, call[r].bin) \/ (Moved(r, pc, NoOne) /\ pc \notin InSession),
         UNCHANGED <<place, stranded, freed>>,
         lease' = lease \/ (lease' = NoOne /\ pc \notin InSession)
  PROVE  AttendInv'
  <1>1. PICK b : b = call[r].bin
    OBVIOUS
  <1>2. call[r].pc \in InSession /\ b \in Bins
    BY <1>1 DEF AttendInv, OneSession, InSession
  <1>3. /\ \A s \in Runs \ {r} : call'[s] = call[s]
        /\ call'[r].pc = pc /\ call'[r].orig \in OnShelf
        /\ pc \in InSession => call'[r].bin = b /\ lease' = lease
    BY <1>1 DEF Moved, AttendInv, BinShape, OnShelf
  <1>4. /\ binStatus' \in [Bins -> Statuses]
        /\ \A x \in Bins \ {b} : binStatus'[x] = binStatus[x]
        /\ binStatus[b] = "RESERVED" => binStatus'[b] = "RESERVED"
    BY <1>1, <1>2 DEF Release, AttendInv, BinShape, Statuses, OnShelf
  <1>5. place[b] = "scan" => b \in freed /\ b \in stranded
    BY <1>1 DEF AttendInv, VisitKeepsLock
  <1>6. lease' \in Runs \cup {NoOne} /\ place' \in [Bins -> Places]
    BY DEF AttendInv, BinShape
  <1>7. place[b] = "away" => binStatus[b] = "RESERVED"
    BY <1>2 DEF AttendInv, ScannedBins
  <1> QED
    BY <1>1, <1>2, <1>3, <1>4, <1>5, <1>6, <1>7, VisitMoves DEF HasLocked

LEMMA StartAttends ==
  ASSUME AttendInv, CallShape, NEW r \in Runs, StartAudit(r)
  PROVE  AttendInv'
  <1>1. call[r].pc = "start" /\ UNCHANGED <<place, stranded, freed>>
    BY DEF StartAudit, At, history
  <1>2. CASE Goto(r, "present") /\ UNCHANGED <<binStatus, lease>>
    BY <1>1, <1>2, GoingMoves, WaitingAttends DEF InSession, HasLocked, Carried
  <1>3. CASE Release(call[r].bin, call[r].orig) /\ End(r) /\ lease' = IF lease = r THEN NoOne ELSE lease
    BY <1>1, <1>3, EndMoves, ReleaseAttends DEF InSession, HasLocked
  <1> QED
    BY <1>2, <1>3 DEF StartAudit, FailRun

(* A trip that ends, or fails, at one end or the other.                    *)
LEMMA TripAttends ==
  ASSUME AttendInv, CallShape, NEW r \in Runs, call[r].pc \in {"present", "return"}, NEW pc \in InSession,
         Moved(r, pc, call[r].bin), UNCHANGED <<binStatus, lease, freed>>, NEW where \in {"rack", "scan"},
         place' = [place EXCEPT ![call[r].bin] = where],
         \/ stranded' = stranded /\ (where = "scan" => pc \in Carried)
         \/ stranded' = IF where = "scan" THEN stranded \cup {call[r].bin} ELSE stranded,
         pc \notin {"start", "present"}, pc = "release" => where = "rack"
  PROVE  AttendInv'
  <1>1. PICK b : b = call[r].bin
    OBVIOUS
  <1>2. call[r].pc \in InSession /\ b \in Bins
    BY <1>1 DEF AttendInv, OneSession, InSession
  <1>3. /\ \A s \in Runs \ {r} : call'[s] = call[s]
        /\ call'[r].pc = pc /\ call'[r].orig \in OnShelf /\ call'[r].bin = b
    BY <1>1 DEF Moved, AttendInv, BinShape, OnShelf
  <1>4. Unlocked(b)' => b \in freed'
    BY <1>1 DEF AttendInv, VisitKeepsLock, Unlocked, HasLocked
  <1>5. place' \in [Bins -> Places] /\ place'[b] = where /\ \A x \in Bins \ {b} : place'[x] = place[x]
    BY <1>1, <1>2 DEF AttendInv, BinShape, Places
  <1>6. /\ \A x \in stranded : x \in stranded'
        /\ where = "scan" => b \in stranded' \/ pc \in Carried
    BY <1>1
  <1> QED
    BY <1>1, <1>2, <1>3, <1>4, <1>5, <1>6, VisitMoves DEF AttendInv, BinShape

LEMMA TripsAttend ==
  ASSUME AttendInv, CallShape, NEW r \in Runs, Present(r) \/ Return(r)
  PROVE  AttendInv'
  <1>1. UNCHANGED <<lease, freed>>
    BY DEF Present, Return, history
  <1>2. CASE Present(r)
    <2>1. call[r].pc = "present"
      BY <1>2 DEF Present, At
    <2>2. CASE /\ place' = [place EXCEPT ![call[r].bin] = "scan"] /\ Goto(r, "capture")
               /\ UNCHANGED <<binStatus, stranded>>
      BY <1>1, <2>1, <2>2, GoingMoves, TripAttends DEF InSession, Carried
    <2>3. CASE /\ Release(call[r].bin, call[r].orig) /\ GotoWith(r, "audited", "FAILED")
               /\ UNCHANGED <<place, stranded>>
      <3>1. Moved(r, "audited", call[r].bin)
        BY <2>3, GoingMoves
      <3> QED
        BY <1>1, <2>1, <2>3, <3>1, ReleaseAttends DEF HasLocked
    <2>4. CASE /\ \E where \in {"rack", "scan"} : Left(call[r].bin, where)
               /\ GotoWith(r, "audited", "FAILED") /\ UNCHANGED binStatus
      BY <1>1, <2>1, <2>4, GoingMoves, TripAttends DEF InSession, Left
    <2> QED
      BY <1>2, <2>2, <2>3, <2>4 DEF Present, FailAudit
  <1>3. CASE Return(r)
    <2>1. call[r].pc = "return" /\ UNCHANGED binStatus
      BY <1>3 DEF Return, At
    <2>2. CASE /\ place' = [place EXCEPT ![call[r].bin] = "rack"] /\ UNCHANGED stranded
               /\ \E pc \in {"release", "readBack"} : Goto(r, pc)
      BY <1>1, <2>1, <2>2, GoingMoves, TripAttends DEF InSession
    <2>3. CASE /\ \E where \in {"rack", "scan"} : Left(call[r].bin, where)
               /\ GotoWith(r, "audited", "RETURN_FAILED")
      BY <1>1, <2>1, <2>3, GoingMoves, TripAttends DEF InSession, Left
    <2> QED
      BY <1>3, <2>2, <2>3 DEF Return, FailAudit
  <1> QED
    BY <1>2, <1>3

(* The run waits for the decision, and may unlock the bin itself.          *)
LEMMA AwaitAttends ==
  ASSUME AttendInv, CallShape, NEW r \in Runs,
         CreateCapture(r) \/ RequestPhoto(r) \/ SeeCapture(r) \/ ExpireCapture(r)
  PROVE  AttendInv'
  <1>1. /\ call[r].pc \in {"capture", "photo", "await"} /\ UNCHANGED <<place, lease, stranded>>
        /\ \E pc \in {"photo", "await", "return"} : Goto(r, pc) \/ \E result : GotoWith(r, pc, result)
    BY DEF CreateCapture, RequestPhoto, SeeCapture, ExpireCapture, At, world
  <1>2. PICK pc \in {"photo", "await", "return"} : Moved(r, pc, call[r].bin)
    BY <1>1, GoingMoves
  <1>3. CASE UNCHANGED <<binStatus, freed>>
    BY <1>1, <1>2, <1>3, WaitingAttends DEF InSession, HasLocked, Carried
  <1>4. CASE \E to \in OnShelf : \E outdated : Unlock(call[r].bin, to, outdated)
    <2>1. PICK b : b = call[r].bin
      OBVIOUS
    <2>2. call[r].pc \in InSession /\ b \in Bins
      BY <1>1, <2>1 DEF AttendInv, OneSession, InSession
    <2>3. /\ binStatus' \in [Bins -> Statuses] /\ freed \subseteq freed'
          /\ Unlocked(b)' => Unlocked(b) \/ b \in freed'
          /\ \A x \in Bins \ {b} : binStatus'[x] = binStatus[x]
          /\ binStatus'[b] = binStatus[b] \/ binStatus[b] = "AUDITING"
      BY <1>4, <2>1, <2>2, UnlockMoves DEF AttendInv
    <2>4. Unlocked(b)' => b \in freed'
      BY <1>1, <2>1, <2>3 DEF AttendInv, VisitKeepsLock, HasLocked
    <2>5. place[b] = "away" => binStatus'[b] = "RESERVED"
      BY <2>2, <2>3 DEF AttendInv, ScannedBins
    <2>6. /\ \A s \in Runs \ {r} : call'[s] = call[s]
          /\ call'[r].pc = pc /\ call'[r].orig \in OnShelf /\ call'[r].bin = b
          /\ pc \in Carried /\ pc \notin {"start", "present", "release"}
      BY <1>2, <2>1 DEF Moved, AttendInv, BinShape, OnShelf, Carried
    <2> QED
      BY <1>1, <2>1, <2>2, <2>3, <2>4, <2>5, <2>6, VisitMoves DEF AttendInv, BinShape
  <1> QED
    BY <1>3, <1>4, ShelfStatuses DEF CreateCapture, RequestPhoto, SeeCapture, ExpireCapture, history

LEMMA EndingAttends ==
  ASSUME AttendInv, CallShape, NEW r \in Runs,
         ReleaseBin(r) \/ RecordResult(r) \/ ReadBack(r)
  PROVE  AttendInv'
  <1>1. CASE ReleaseBin(r)
    <2>1. /\ call[r].pc = "release" /\ Release(call[r].bin, call[r].orig)
          /\ \E result : GotoWith(r, "record", result)
          /\ UNCHANGED <<place, lease, stranded, freed>>
      BY <1>1 DEF ReleaseBin, At, world, history
    <2>2. Moved(r, "record", call[r].bin)
      BY <2>1, GoingMoves
    <2> QED
      BY <2>1, <2>2, ReleaseAttends DEF HasLocked
  <1>2. CASE RecordResult(r) \/ ReadBack(r)
    <2>1. /\ call[r].pc \in {"record", "readBack"}
          /\ \E result : GotoWith(r, "audited", result)
          /\ UNCHANGED <<binStatus, place, lease, stranded, freed>>
      BY <1>2 DEF RecordResult, ReadBack, FailAudit, At, tables, world, history
    <2> QED
      BY <2>1, GoingMoves, WaitingAttends DEF InSession, HasLocked, Carried
  <1> QED
    BY <1>1, <1>2

(* The lease is given back: the bin is on the rack, or was lost.           *)
LEMMA SessionAttends ==
  ASSUME AttendInv, CallShape, NEW r \in Runs, EndSession(r)
  PROVE  AttendInv'
  <1>1. PICK b : b = call[r].bin
    OBVIOUS
  <1>2. /\ call[r].pc = "audited" /\ b \in Bins /\ lease = r /\ lease' = NoOne
        /\ UNCHANGED <<binStatus, place, stranded, freed>>
    BY <1>1 DEF EndSession, At, AttendInv, OneSession, InSession, tables, history
  <1>3. /\ \A s \in Runs \ {r} : call'[s] = call[s]
        /\ call'[r].pc \in {"done", "settle", "next"} /\ call'[r].orig \in OnShelf
    <2>1. CASE End(r)
      BY <2>1, EndMoves DEF Moved, AttendInv, BinShape, OnShelf
    <2>2. CASE ~End(r)
      BY <2>2 DEF EndSession, FailRun, CallShape, CallFields, OnShelf
    <2> QED
      BY <2>1, <2>2
  <1>4. /\ place[b] = "scan" => b \in stranded
        /\ place[b] = "scan" /\ Unlocked(b)' => b \in freed
        /\ place[b] = "away" => binStatus[b] = "RESERVED"
    BY <1>1, <1>2 DEF AttendInv, OneSession, ScannedBins, Unlocked, Carried, InSession
  <1> QED
    BY <1>1, <1>2, <1>3, <1>4, VisitMoves DEF AttendInv, BinShape, InSession, HasLocked

---------------------------------------------------------------------------
(* What goes on around the audits.                                         *)
LEMMA OthersAttend ==
  ASSUME AttendInv, NEW b \in Bins, OtherReserve(b) \/ OtherFinish(b) \/ SetStock(b) \/ OtherCarry(b)
  PROVE  AttendInv'
  <1>1. UNCHANGED <<lease, stranded, freed, call>>
    BY DEF OtherReserve, OtherFinish, SetStock, OtherCarry, history
  <1>2. CASE OtherReserve(b) \/ SetStock(b)
    <2>1. UNCHANGED place /\ binStatus[b] \in OnShelf
      BY <1>2 DEF OtherReserve, SetStock
    <2>2. \E to \in Statuses : binStatus' = [binStatus EXCEPT ![b] = to]
      BY <1>2, ShelfStatuses DEF OtherReserve, SetStock, Statuses
    <2>3. /\ binStatus' \in [Bins -> Statuses]
          /\ \A x \in Bins : Unlocked(x)' => Unlocked(x)
          /\ \A x \in Bins : binStatus'[x] = binStatus[x] \/ binStatus[x] # "RESERVED"
      BY <2>1, <2>2 DEF AttendInv, BinShape, OnShelf, Unlocked
    <2> QED
      BY <1>1, <2>1, <2>3, BooksMove DEF AttendInv, BinShape
  <1>3. CASE OtherCarry(b)
    <2>1. /\ lease = NoOne /\ binStatus[b] = "RESERVED" /\ UNCHANGED binStatus
          /\ place' = [place EXCEPT ![b] = "away"]
      BY <1>3 DEF OtherCarry, tables
    <2>2. \A r \in Runs : call[r].pc \notin InSession
      BY <2>1, AuditAssumption DEF AttendInv, OneSession
    <2>3. BinShape' /\ OneSession' /\ ScannedBins'
      BY <1>1, <2>1 DEF AttendInv, BinShape, OneSession, ScannedBins, Places, Unlocked
    <2>4. VisitKeepsLock'
      BY <1>1, <2>2 DEF VisitKeepsLock, InSession, HasLocked
    <2> QED
      BY <2>3, <2>4 DEF AttendInv
  <1>4. CASE OtherFinish(b)
    <2>1. /\ binStatus[b] = "RESERVED"
          /\ place' = [place EXCEPT ![b] = IF @ = "away" THEN "rack" ELSE @]
          /\ binStatus' = [binStatus EXCEPT ![b] = ShelfStatus(stock'[b])]
      BY <1>4 DEF OtherFinish
    <2>2. /\ binStatus' \in [Bins -> Statuses] /\ place' \in [Bins -> Places]
          /\ \A x \in Bins : Unlocked(x)' => Unlocked(x)
          /\ \A x \in Bins \ {b} : place'[x] = place[x] /\ binStatus'[x] = binStatus[x]
          /\ place'[b] # "away" /\ (place'[b] = "scan" => place[b] = "scan")
      <3>1. PICK to \in OnShelf : binStatus' = [binStatus EXCEPT ![b] = to]
        BY <2>1, ShelfStatuses
      <3>2. /\ binStatus' \in [Bins -> Statuses]
            /\ \A x \in Bins : Unlocked(x)' => Unlocked(x)
            /\ \A x \in Bins \ {b} : binStatus'[x] = binStatus[x]
        BY <2>1, <3>1 DEF AttendInv, BinShape, Statuses, OnShelf, Unlocked
      <3>3. /\ place' \in [Bins -> Places]
            /\ \A x \in Bins \ {b} : place'[x] = place[x]
            /\ place'[b] # "away" /\ (place'[b] = "scan" => place[b] = "scan")
        BY <2>1 DEF AttendInv, BinShape, Places
      <3> QED
        BY <3>2, <3>3
    <2>3. BinShape' /\ OneSession'
      BY <1>1, <2>2 DEF AttendInv, BinShape, OneSession
    <2>5. VisitKeepsLock'
      <3> SUFFICES ASSUME NEW r \in Runs, call[r].pc \in InSession, NEW x \in Bins, x = call[r].bin
                   PROVE  /\ call[r].pc \in HasLocked /\ Unlocked(x)' => x \in freed
                          /\ call[r].pc \in {"start", "present"} /\ place'[x] = "scan" =>
                               x \in freed /\ x \in stranded
                          /\ call[r].pc = "release" => place'[x] # "scan"
        BY <1>1 DEF VisitKeepsLock, AttendInv, OneSession, InSession, HasLocked
      <3>1. place'[x] = "scan" => place[x] = "scan"
        BY <2>2
      <3> QED
        BY <2>2, <3>1 DEF AttendInv, VisitKeepsLock
    <2>4. ScannedBins'
      BY <1>1, <2>2 DEF AttendInv, ScannedBins
    <2> QED
      BY <2>3, <2>4, <2>5 DEF AttendInv
  <1> QED
    BY <1>2, <1>3, <1>4

LEMMA RestartAttends ==
  ASSUME AttendInv, CallShape, Restart
  PROVE  AttendInv'
  <1>1. UNCHANGED <<binStatus, lease, freed>>
    BY DEF Restart, tables, history
  <1>2. \A r \in Runs : call'[r].pc \notin InSession /\ call'[r].orig \in OnShelf
    BY DEF Restart, Alive, Over, NewCall, InSession, AttendInv, BinShape, OnShelf
  <1>3. /\ place' \in [Bins -> Places]
        /\ \A b \in Bins :
             /\ place'[b] = "away" => place[b] = "away"
             /\ place'[b] = "scan" =>
                  \/ place[b] = "scan"
                  \/ \E r \in Runs : call[r].bin = b /\ call[r].pc \in {"present", "return"}
    <2>1. CASE Production
      <3>1. PICK moved \in [Bins -> Places] :
              /\ place' = moved
              /\ \A b \in Bins : \/ moved[b] = place[b]
                                 \/ /\ moved[b] # "away"
                                    /\ \E r \in Runs : call[r].bin = b /\ call[r].pc \in {"present", "return"}
        BY <2>1 DEF Restart, Places
      <3> QED
        BY <3>1
    <2>2. CASE ~Production
      <3>1. place' = [b \in Bins |-> IF place[b] = "scan" THEN "rack" ELSE place[b]]
        BY <2>2 DEF Restart
      <3> QED
        BY <3>1 DEF AttendInv, BinShape, Places
    <2> QED
      BY <2>1, <2>2
  <1>4. /\ stranded' = stranded \cup {b \in Bins : place'[b] = "scan"}
    BY DEF Restart
  <1>5. BinShape' /\ OneSession' /\ VisitKeepsLock'
    BY <1>1, <1>2, <1>3 DEF AttendInv, BinShape, OneSession, VisitKeepsLock, InSession, HasLocked
  <1>6. ScannedBins'
    <2> SUFFICES ASSUME NEW b \in Bins
                 PROVE  /\ place'[b] = "scan" => b \in stranded' /\ (Unlocked(b)' => b \in freed')
                        /\ place'[b] = "away" => binStatus'[b] = "RESERVED"
      BY DEF ScannedBins
    <2>1. place'[b] = "scan" /\ Unlocked(b) => b \in freed
      BY <1>3 DEF AttendInv, ScannedBins, VisitKeepsLock, HasLocked
    <2> QED
      BY <1>1, <1>3, <1>4, <2>1 DEF AttendInv, ScannedBins, Unlocked
  <1> QED
    BY <1>5, <1>6 DEF AttendInv

LEMMA ExpiryAttends ==
  ASSUME AttendInv, LeaseExpires
  PROVE  AttendInv'
  <1>1. /\ UNCHANGED <<binStatus, place, freed, stranded, call>>
        /\ ~Alive(lease) /\ lease' = NoOne
    BY DEF LeaseExpires, tables, history
  <1>2. \A r \in Runs : call[r].pc \notin InSession
    BY <1>1 DEF AttendInv, OneSession, Alive, Over, InSession
  <1>3. BinShape' /\ OneSession' /\ VisitKeepsLock' /\ ScannedBins'
    BY <1>1, <1>2 DEF AttendInv, BinShape, OneSession, VisitKeepsLock, ScannedBins, Unlocked
  <1> QED
    BY <1>3 DEF AttendInv

LEMMA AttendStep ==
  ASSUME Production, AttendInv, CaptureInv, [Next]_vars
  PROVE  AttendInv'
  <1> USE DEF CaptureInv
  <1>1. ASSUME NEW r \in Runs, Begin(r) \/ CallStep(r)
        PROVE  AttendInv'
    BY <1>1, OpeningAttends, RecoveryAttends, LeaseAttends, ClaimAttends, StartAttends, TripsAttend,
       AwaitAttends, EndingAttends, SessionAttends DEF CallStep
  <1>2. CASE UNCHANGED vars
    <2>1. UNCHANGED <<binStatus, place, lease, stranded, freed, call>>
      BY <1>2 DEF vars
    <2> QED
      BY <2>1, BooksMove DEF AttendInv, BinShape, Unlocked
  <1> QED
    BY <1>1, <1>2, DecisionsAttend, AnalysisAttends, OthersAttend, RestartAttends, ExpiryAttends DEF Next

LEMMA AttendInit ==
  ASSUME Init
  PROVE  AttendInv
  BY DEF Init, NewCall, AttendInv, BinShape, OneSession, VisitKeepsLock, ScannedBins, Statuses, Places,
         OnShelf, ShelfStatus, InSession, HasLocked

(* The invariant of the visits.                                            *)
THEOREM VisitsKeepTheLock ==
  ASSUME Production
  PROVE  Spec => []AttendInv
  <1>1. AttendInv /\ CaptureInv /\ [Next]_vars => AttendInv'
    BY AttendStep
  <1> QED
    BY <1>1, AttendInit, CapturesAreMadeOnce, PTL DEF Spec

(* With a gantry, for any bins, runs, requests and recoveries: a bin at    *)
(* the scan station that may be picked for work was given back by a        *)
(* decision, and is either being carried by the live run that holds the    *)
(* gantry or was left there by a failed trip or a restart.                 *)
THEOREM ScannedBinsAreAttended ==
  ASSUME Production
  PROVE  Spec => []ScanStationIsAttended
  <1>1. AttendInv => ScanStationIsAttended
    BY AuditAssumption DEF AttendInv, OneSession, ScannedBins, ScanStationIsAttended, Unlocked, OnShelf,
       Carried, InSession, Alive, Over
  <1> QED
    BY <1>1, VisitsKeepTheLock, PTL

(***************************************************************************)
(* The status of a bin and its stock.                                      *)

AuditFields == {"status", "expected", "observed", "why"}
AnalysisFields == {"pc", "attempt", "seen"}

CountShape ==
    /\ stock \in [Bins -> Nat]
    /\ DOMAIN audit = Runs
    /\ \A r \in Runs :
         /\ DOMAIN audit[r] = Bins
         /\ \A b \in Bins :
              /\ DOMAIN audit[r][b] = AuditFields
              /\ audit[r][b].expected \in Nat /\ audit[r][b].observed \in Nat
    /\ \A r \in Runs, b \in Bins : capture[r][b].observed \in Nat
    /\ DOMAIN analysis = Runs
    /\ \A r \in Runs :
         /\ DOMAIN analysis[r] = Bins
         /\ \A b \in Bins : DOMAIN analysis[r][b] = AnalysisFields /\ analysis[r][b].seen \in Nat
    /\ \A q \in Requests : request[q].observed \in Nat
    /\ \A r \in Runs : call[r].expected \in [Bins -> Nat]

Matches(b) == binStatus[b] = ShelfStatus(stock[b])

(* A call that has locked its bin knows the status its stock calls for:    *)
(* nobody changes the stock of a locked bin without unlocking it.          *)
BooksAgree ==
    /\ \A b \in Bins : binStatus[b] \in OnShelf /\ b \notin misjudged => Matches(b)
    /\ \A r \in Runs : LET b == call[r].bin IN
         call[r].pc \in HasLocked /\ binStatus[b] = "AUDITING" /\ b \notin misjudged =>
             call[r].orig = ShelfStatus(stock[b])

(* A count that waits to be acknowledged is not lower than expected, and   *)
(* the expectation is never written again.  Only an acknowledgement takes  *)
(* more than one statement.                                                *)
MayGoOn(q) ==
    request[q].kind = "ACCEPT" /\ request[q].pc = "decide" => request[q].status = "PENDING_ACK"

CountsAreNotLower ==
    /\ \A r \in Runs, b \in Bins :
         capture[r][b].status = "PENDING_ACK" => capture[r][b].observed >= audit[r][b].expected
    /\ \A q \in Requests : LET r == request[q].run  b == request[q].bin IN
         request[q].pc # "idle" /\ request[q].kind \in CaptureKinds =>
           /\ ~Untouched(r, b)
           /\ request[q].kind = "ACCEPT" /\ request[q].pc # "decide" => request[q].status = "PENDING_ACK"
           /\ request[q].kind = "ACCEPT" /\ request[q].status = "PENDING_ACK" =>
                request[q].observed >= audit[r][b].expected

StockInv == CountShape /\ BooksAgree /\ CountsAreNotLower

---------------------------------------------------------------------------
(* Who writes what.                                                        *)
WritesNoCount == UNCHANGED <<stock, audit, capture, analysis, request>>

LEMMA CallWriters ==
  ASSUME NEW r \in Runs, Begin(r) \/ CallStep(r)
  PROVE  /\ UNCHANGED <<stock, analysis, request>>
         /\ \/ UNCHANGED audit
            \/ Recover(r) \/ CreateAudit(r) \/ RecordResult(r)
            \/ \E status, why : CloseAudit(r, call[r].bin, status, why)
         /\ \/ UNCHANGED capture
            \/ Recover(r) \/ CreateCapture(r)
            \/ \E status : status \notin {"NONE", "PENDING_ACK"} /\ SetCapture(r, call[r].bin, status)
         /\ \/ UNCHANGED <<binStatus, misjudged>>
            \/ Recover(r) \/ ClaimBin(r) \/ SeeCapture(r)
            \/ /\ Release(call[r].bin, call[r].orig) /\ UNCHANGED misjudged
               /\ call[r].pc \in {"start", "present", "release"}
  <1>1. CASE Begin(r) \/ CreateRun(r) \/ ListBins(r) \/ TakeLease(r) \/ EndSession(r) \/ FinishRun(r)
    BY <1>1 DEF Begin, CreateRun, ListBins, TakeLease, EndSession, FinishRun, tables, history
  <1>2. CASE Recover(r)
    BY <1>2 DEF Recover, world, history
  <1>3. CASE CreateAudit(r) \/ SettleReview(r) \/ ClaimBin(r)
    BY <1>3 DEF CreateAudit, SettleReview, ClaimBin, FailAudit, tables, history
  <1>4. CASE StartAudit(r)
    BY <1>4 DEF StartAudit, At, history
  <1>5. CASE Present(r)
    BY <1>5 DEF Present, FailAudit, At, history
  <1>6. CASE CreateCapture(r) \/ RequestPhoto(r)
    BY <1>6 DEF CreateCapture, RequestPhoto, history
  <1>7. CASE SeeCapture(r)
    BY <1>7 DEF SeeCapture
  <1>8. CASE ExpireCapture(r) \/ Return(r)
    BY <1>8 DEF ExpireCapture, Return, FailAudit, history
  <1>9. CASE ReleaseBin(r)
    BY <1>9 DEF ReleaseBin, At, history
  <1>10. CASE RecordResult(r) \/ ReadBack(r)
    BY <1>10 DEF RecordResult, ReadBack, FailAudit, tables, history
  <1> QED
    BY <1>1, <1>2, <1>3, <1>4, <1>5, <1>6, <1>7, <1>8, <1>9, <1>10 DEF CallStep

(* The expectation of an audit, and its last reading, stay.                *)
LEMMA ClosingKeepsAudit ==
  ASSUME CountShape, NEW r, NEW b, NEW status, NEW why, CloseAudit(r, b, status, why)
  PROVE  /\ DOMAIN audit' = Runs
         /\ \A s \in Runs : DOMAIN audit'[s] = Bins
         /\ \A s \in Runs, x \in Bins :
              /\ DOMAIN audit'[s][x] = AuditFields
              /\ audit'[s][x].expected = audit[s][x].expected /\ audit'[s][x].observed = audit[s][x].observed
  BY DEF CountShape, CloseAudit, AuditFields

LEMMA SettingKeepsCapture ==
  ASSUME CaptureShape, NEW r, NEW b, NEW status, SetCapture(r, b, status)
  PROVE  /\ CaptureShape'
         /\ \A s \in Runs, x \in Bins :
              /\ capture'[s][x].observed = capture[s][x].observed
              /\ capture'[s][x] = capture[s][x] \/ (s = r /\ x = b /\ capture'[s][x].status = status)
  BY DEF CaptureShape, SetCapture, CaptureFields

(* What a call expects it has read from the stock.                         *)
LEMMA ExpectationsAreCounts ==
  ASSUME CallShape, CountShape, NEW r \in Runs, Begin(r) \/ CallStep(r)
  PROVE  \A s \in Runs : call'[s].expected \in [Bins -> Nat]
  <1> DEFINE Kept == \A s \in Runs : call'[s].expected \in [Bins -> Nat]
  <1>1. ASSUME NEW pc, Goto(r, pc) \/ \E result : GotoWith(r, pc, result)
        PROVE  Kept
    BY <1>1, ZenonT(60) DEF CallShape, CallFields, CountShape, Goto, GotoWith
  <1>2. CASE End(r)
    BY <1>2 DEF CallShape, CountShape, End, NewCall
  <1>3. CASE Begin(r)
    BY <1>3, BeginCalls DEF Fresh, CountShape
  <1>4. CASE ListBins(r)
    <2>1. CASE End(r)
      BY <1>2, <2>1
    <2>2. CASE \E planned : call' = [call EXCEPT ![r].pc = "next", ![r].planned = planned,
                                                ![r].expected = stock]
      BY <2>2 DEF CallShape, CallFields, CountShape
    <2> QED
      BY <1>4, <2>1, <2>2 DEF ListBins, FailRun
  <1>5. CASE CreateAudit(r)
    <2>1. PICK b : call' = [call EXCEPT ![r].pc = "lease", ![r].bin = b, ![r].planned = @ \ {b},
                                        ![r].expected[b] = 0]
      BY <1>5 DEF CreateAudit
    <2>2. call'[r].expected = [call[r].expected EXCEPT ![b] = 0] /\ \A s \in Runs \ {r} : call'[s] = call[s]
      BY <2>1, ZenonT(60) DEF CallShape, CallFields
    <2>3. \A s \in Runs : call[s].expected \in [Bins -> Nat]
      BY DEF CountShape
    <2> QED
      BY <2>2, <2>3
  <1>6. CASE Recover(r)
    <2>1. call' = [call EXCEPT ![r].pc = "create", ![r].seen = NothingSeen]
      BY <1>6 DEF Recover
    <2> QED
      BY <2>1 DEF CallShape, CallFields, CountShape
  <1>7. CASE ClaimBin(r)
    <2>1. CASE \E orig : call' = [call EXCEPT ![r].pc = "start", ![r].orig = orig]
      BY <2>1 DEF CallShape, CallFields, CountShape
    <2> QED
      BY <1>1, <1>7, <2>1 DEF ClaimBin, FailAudit
  <1>8. CASE EndSession(r)
    <2>1. CASE \E pc, planned, verdict :
                 call' = [call EXCEPT ![r].pc = pc, ![r].orig = "AVAILABLE", ![r].result = "NONE",
                                      ![r].planned = planned, ![r].verdict = verdict]
      BY <2>1 DEF CallShape, CallFields, CountShape
    <2> QED
      BY <1>2, <1>8, <2>1 DEF EndSession, FailRun
  <1>9. CASE CreateRun(r) \/ TakeLease(r) \/ SettleReview(r) \/ FinishRun(r)
    BY <1>1, <1>2, <1>9 DEF CreateRun, TakeLease, SettleReview, FinishRun, FailRun
  <1>10. CASE StartAudit(r) \/ Present(r) \/ CreateCapture(r) \/ RequestPhoto(r)
    BY <1>1, <1>2, <1>10 DEF StartAudit, Present, CreateCapture, RequestPhoto, FailRun, FailAudit
  <1>11. CASE SeeCapture(r) \/ ExpireCapture(r)
    BY <1>1, <1>11 DEF SeeCapture, ExpireCapture
  <1>12. CASE Return(r) \/ ReleaseBin(r) \/ RecordResult(r) \/ ReadBack(r)
    BY <1>1, <1>12 DEF Return, ReleaseBin, RecordResult, ReadBack, FailAudit
  <1> QED
    BY <1>3, <1>4, <1>5, <1>6, <1>7, <1>8, <1>9, <1>10, <1>11, <1>12 DEF CallStep

(* Rows that are written keep their expectation, unless the run has not    *)
(* come to the bin yet.                                                    *)
AuditsKept ==
    /\ DOMAIN audit' = Runs
    /\ \A s \in Runs :
         /\ DOMAIN audit'[s] = Bins
         /\ \A x \in Bins :
              /\ DOMAIN audit'[s][x] = AuditFields
              /\ audit'[s][x].expected \in Nat /\ audit'[s][x].observed \in Nat
              /\ audit'[s][x].expected = audit[s][x].expected \/ Untouched(s, x)

CapturesKept ==
    \A s \in Runs, x \in Bins :
      /\ capture'[s][x].observed \in Nat
      /\ Untouched(s, x)' => Untouched(s, x)
      /\ capture'[s][x].status = "PENDING_ACK" => capture'[s][x] = capture[s][x]

LEMMA UnsafeIsCount == Unsafe \in Nat
  BY AuditAssumption DEF Unsafe

LEMMA CallsKeepAudits ==
  ASSUME CaptureInv, CountShape, NEW r \in Runs, Begin(r) \/ CallStep(r)
  PROVE  AuditsKept
  <1>1. CASE UNCHANGED audit
    BY <1>1 DEF AuditsKept, CountShape
  <1>2. ASSUME NEW status, NEW why, CloseAudit(r, call[r].bin, status, why)
        PROVE  AuditsKept
    BY <1>2, ClosingKeepsAudit DEF AuditsKept, CountShape
  <1>3. CASE CreateAudit(r)
    <2>1. PICK b \in call[r].planned :
            audit' = [audit EXCEPT ![r][b] =
                        [NoAudit EXCEPT !.status = "PENDING", !.expected = call[r].expected[b]]]
      BY <1>3 DEF CreateAudit
    <2>1a. PICK expected : expected = call[r].expected[b]
      OBVIOUS
    <2>1b. b \in Bins /\ expected \in Nat
      BY <2>1a DEF CountShape, CaptureInv, CallShape
    <2>2. Untouched(r, b)
      BY <2>1 DEF CaptureInv, CapturedOnce
    <2>3. PICK new : new = [NoAudit EXCEPT !.status = "PENDING", !.expected = expected]
      OBVIOUS
    <2>4. DOMAIN new = AuditFields /\ new.expected \in Nat /\ new.observed \in Nat
      BY <2>3, <2>1b, UnsafeIsCount DEF NoAudit, AuditFields
    <2>5. audit' = [audit EXCEPT ![r][b] = new]
      BY <2>1, <2>3, <2>1a
    <2> QED
      BY <2>2, <2>4, <2>5, <2>1b DEF AuditsKept, CountShape
  <1>4. CASE RecordResult(r)
    <2>1. PICK b : b = call[r].bin
      OBVIOUS
    <2>2. ASSUME NEW n, NEW why, n = capture[r][b].observed,
                 audit' = [audit EXCEPT ![r][b].status = "REVIEW_REQUIRED", ![r][b].observed = n,
                                        ![r][b].why = why]
          PROVE  AuditsKept
      <3>1. /\ DOMAIN audit' = Runs /\ \A s \in Runs : DOMAIN audit'[s] = Bins
            /\ \A s \in Runs, x \in Bins : s # r \/ x # b => audit'[s][x] = audit[s][x]
        BY <2>2 DEF CountShape
      <3>2. CASE b \in Bins
        <4>1. audit'[r][b] = [audit[r][b] EXCEPT !.status = "REVIEW_REQUIRED", !.observed = n, !.why = why]
          BY <2>2, <3>2, ZenonT(60) DEF CountShape
        <4>2. /\ DOMAIN audit'[r][b] = AuditFields
              /\ audit'[r][b].expected = audit[r][b].expected /\ audit'[r][b].observed = n
          BY <3>2, <4>1 DEF CountShape, AuditFields
        <4>3. n \in Nat
          BY <2>2, <3>2 DEF CountShape
        <4>4. \A s \in Runs, x \in Bins : s # r \/ x # b =>
                /\ DOMAIN audit'[s][x] = AuditFields
                /\ audit'[s][x].expected \in Nat /\ audit'[s][x].observed \in Nat
                /\ audit'[s][x].expected = audit[s][x].expected
          BY <3>1 DEF CountShape
        <4>5. audit[r][b].expected \in Nat
          BY <3>2 DEF CountShape
        <4> QED
          BY <3>1, <4>2, <4>3, <4>4, <4>5 DEF AuditsKept
      <3>3. CASE b \notin Bins
        BY <3>1, <3>3 DEF AuditsKept, CountShape
      <3> QED
        BY <3>2, <3>3
    <2> QED
      BY <1>2, <1>4, <2>1, <2>2 DEF RecordResult, FailAudit
  <1>5. CASE Recover(r) /\ ~UNCHANGED audit
    <2>1. PICK a, open : a = call[r].seen.run /\ open = call[r].seen.open
      OBVIOUS
    <2>2. audit' = [audit EXCEPT ![a] = [b \in Bins |->
             IF b \in open THEN [@[b] EXCEPT !.status = "FAILED", !.why = "OTHER"] ELSE @[b]]]
      BY <1>5, <2>1 DEF Recover
    <2>3. ASSUME NEW s \in Runs, NEW b \in Bins
          PROVE  \/ audit'[s][b] = audit[s][b]
                 \/ audit'[s][b] = [audit[s][b] EXCEPT !.status = "FAILED", !.why = "OTHER"]
      BY <2>2 DEF CountShape
    <2>4. DOMAIN audit' = Runs /\ \A s \in Runs : DOMAIN audit'[s] = Bins
      BY <2>2 DEF CountShape
    <2>5. ASSUME NEW s \in Runs, NEW b \in Bins
          PROVE  /\ DOMAIN audit'[s][b] = DOMAIN audit[s][b]
                 /\ audit'[s][b].expected = audit[s][b].expected
                 /\ audit'[s][b].observed = audit[s][b].observed
      <3>1. DOMAIN audit[s][b] = AuditFields
        BY DEF CountShape
      <3>2. CASE audit'[s][b] = [audit[s][b] EXCEPT !.status = "FAILED", !.why = "OTHER"]
        BY <3>1, <3>2 DEF AuditFields
      <3> QED
        BY <2>3, <3>2
    <2> QED
      BY <2>4, <2>5 DEF AuditsKept, CountShape
  <1> QED
    BY <1>1, <1>2, <1>3, <1>4, <1>5, CallWriters

LEMMA CallsKeepCaptures ==
  ASSUME CaptureInv, CountShape, NEW r \in Runs, Begin(r) \/ CallStep(r)
  PROVE  CapturesKept
  <1>1. CASE UNCHANGED capture
    BY <1>1 DEF CapturesKept, CountShape, Untouched
  <1>2. ASSUME NEW status, SetCapture(r, call[r].bin, status), status \notin {"NONE", "PENDING_ACK"}
        PROVE  CapturesKept
    BY <1>2, SettingKeepsCapture DEF CapturesKept, CountShape, CaptureInv, Untouched
  <1>3. CASE CreateCapture(r)
    <2>1. capture' = [capture EXCEPT ![r][call[r].bin] =
             [status |-> "WAITING_FOR_CAMERA", attempt |-> 1, observed |-> Unsafe]]
      BY <1>3 DEF CreateCapture
    <2> QED
      BY <2>1, UnsafeIsCount DEF CapturesKept, CountShape, CaptureInv, CaptureShape, Untouched
  <1>4. CASE Recover(r) /\ ~UNCHANGED capture
    <2> DEFINE a == call[r].seen.run
               open == call[r].seen.open
               shown == call[r].seen.shown
    <2>1. capture' = [capture EXCEPT ![a] = [b \in Bins |->
                 CASE b \in open /\ @[b].status \in Undecided \cup {"CAPTURING", "PENDING_ACK"} ->
                        [@[b] EXCEPT !.status = "FAILED"]
                   [] b \in shown /\ @[b].status = "PENDING_ACK" ->
                        [@[b] EXCEPT !.status = "ACCEPTED"]
                   [] OTHER -> @[b]]]
      BY <1>4 DEF Recover
    <2> HIDE DEF a, open, shown
    <2>2. ASSUME NEW s \in Runs, NEW b \in Bins, capture'[s][b] # capture[s][b]
          PROVE  /\ capture'[s][b].observed = capture[s][b].observed
                 /\ capture'[s][b].status \in {"FAILED", "ACCEPTED"}
      <3>1. s = a
        BY <2>1, <2>2 DEF CaptureInv, CaptureShape
      <3>2. capture'[s][b] =
              CASE b \in open /\ capture[s][b].status \in Undecided \cup {"CAPTURING", "PENDING_ACK"} ->
                     [capture[s][b] EXCEPT !.status = "FAILED"]
                [] b \in shown /\ capture[s][b].status = "PENDING_ACK" ->
                     [capture[s][b] EXCEPT !.status = "ACCEPTED"]
                [] OTHER -> capture[s][b]
        BY <2>1, <3>1 DEF CaptureInv, CaptureShape
      <3> QED
        BY <2>2, <3>2 DEF CaptureInv, CaptureShape, CaptureFields
    <2> QED
      BY <2>2 DEF CapturesKept, CountShape, Untouched
  <1> QED
    BY <1>1, <1>2, <1>3, <1>4, CallWriters

(* Rows and captures that are kept, and requests that wait, keep counts.   *)
LEMMA KeptCounts ==
  ASSUME CountShape, CountsAreNotLower, ReadWhileOpen, AuditsKept, CapturesKept, UNCHANGED request
  PROVE  CountsAreNotLower'
  <1>1. \A s \in Runs, x \in Bins :
          capture'[s][x].status = "PENDING_ACK" => capture'[s][x].observed >= audit'[s][x].expected
    BY DEF CountsAreNotLower, AuditsKept, CapturesKept, Untouched
  <1>2. ASSUME NEW q \in Requests, NEW r, NEW b, r = request[q].run, b = request[q].bin,
               request[q].pc # "idle", request[q].kind \in CaptureKinds
        PROVE  /\ ~Untouched(r, b)'
               /\ request[q].kind = "ACCEPT" /\ request[q].pc # "decide" => request[q].status = "PENDING_ACK"
               /\ request[q].kind = "ACCEPT" /\ request[q].status = "PENDING_ACK" =>
                    request[q].observed >= audit'[r][b].expected
    <2>1. r \in Runs /\ b \in Bins /\ ~Untouched(r, b)
      BY <1>2 DEF ReadWhileOpen, CountsAreNotLower
    <2> QED
      BY <1>2, <2>1 DEF CountsAreNotLower, AuditsKept, CapturesKept
  <1> QED
    BY <1>1, <1>2 DEF CountsAreNotLower

LEMMA CallsKeepCounts ==
  ASSUME CaptureInv, CountShape, CountsAreNotLower, NEW r \in Runs, Begin(r) \/ CallStep(r)
  PROVE  CountShape' /\ CountsAreNotLower'
  <1>1. UNCHANGED <<stock, analysis, request>> /\ AuditsKept /\ CapturesKept
    BY CallWriters, CallsKeepAudits, CallsKeepCaptures
  <1>2. CountShape'
    BY <1>1, ExpectationsAreCounts DEF CaptureInv, CountShape, AuditsKept, CapturesKept
  <1> QED
    BY <1>1, <1>2, KeptCounts DEF CaptureInv

---------------------------------------------------------------------------
(* The browsers.                                                           *)
LEMMA RequestWriters ==
  ASSUME NEW q \in Requests,
         \/ AskForPhoto(q) \/ Retry(q) \/ ReturnUnchanged(q) \/ AcceptDecrease(q)
         \/ ClaimAcknowledgement(q) \/ ApplyOutcome(q) \/ RecordOutcome(q) \/ CloseCapture(q)
         \/ ApplyLate(q) \/ FinishLate(q)
  PROVE  /\ UNCHANGED <<call, analysis>> /\ request[q].pc # "idle"
         /\ Answered(q) \/ (MayGoOn(q) /\ \E pc : Step(q, pc))
         /\ \/ UNCHANGED audit
            \/ \E status, why : CloseAudit(request[q].run, request[q].bin, status, why)
         /\ \/ UNCHANGED capture
            \/ Retry(q) /\ capture' = [capture EXCEPT ![request[q].run][request[q].bin] =
                 [status |-> "WAITING_FOR_CAMERA", attempt |-> @.attempt + 1, observed |-> Unsafe]]
            \/ \E status : /\ status \notin {"NONE", "PENDING_ACK"}
                           /\ SetCapture(request[q].run, request[q].bin, status)
         /\ \/ UNCHANGED stock
            \/ stock' = [stock EXCEPT ![request[q].bin] = request[q].observed]
  <1>1. CASE AskForPhoto(q)
    BY <1>1 DEF AskForPhoto, Asked, MayGoOn
  <1>2. CASE Retry(q)
    BY <1>2 DEF Retry, Asked, MayGoOn
  <1>3. CASE ReturnUnchanged(q)
    BY <1>3 DEF ReturnUnchanged, Asked, MayGoOn
  <1>4. CASE AcceptDecrease(q)
    BY <1>4 DEF AcceptDecrease, Asked, MayGoOn
  <1>5. CASE ClaimAcknowledgement(q)
    BY <1>5 DEF ClaimAcknowledgement, Asked, MayGoOn
  <1>6. CASE ApplyOutcome(q)
    BY <1>6 DEF ApplyOutcome, Asked, MayGoOn
  <1>7. CASE RecordOutcome(q)
    BY <1>7 DEF RecordOutcome, Asked, MayGoOn
  <1>8. CASE CloseCapture(q)
    BY <1>8 DEF CloseCapture, Asked, MayGoOn
  <1>9. CASE ApplyLate(q)
    BY <1>9 DEF ApplyLate, Asked, MayGoOn
  <1>10. CASE FinishLate(q)
    BY <1>10 DEF FinishLate, Asked, MayGoOn
  <1> QED
    BY <1>1, <1>2, <1>3, <1>4, <1>5, <1>6, <1>7, <1>8, <1>9, <1>10

(* A request that goes on remembers what it read.                          *)
LEMMA RequestsRemember ==
  ASSUME ReadWhileOpen, NEW q \in Requests, 
         Answered(q) \/ (request[q].pc # "idle" /\ MayGoOn(q) /\ \E pc : Step(q, pc))
  PROVE  \A p \in Requests :
           \/ request'[p].pc = "idle" /\ request'[p].observed = Unsafe
           \/ /\ request[p].pc # "idle" \/ request'[p] = request[p]
              /\ request'[p].run = request[p].run /\ request'[p].bin = request[p].bin
              /\ request'[p].kind = request[p].kind /\ request'[p].status = request[p].status
              /\ request'[p].observed = request[p].observed
              /\ request'[p].pc = request[p].pc \/ MayGoOn(p)
  <1>1. CASE Answered(q)
    BY <1>1 DEF ReadWhileOpen, Answered, IdleRequest
  <1>2. CASE MayGoOn(q) /\ request[q].pc # "idle" /\ \E pc : Step(q, pc)
    BY <1>2 DEF ReadWhileOpen, Step
  <1> QED
    BY <1>1, <1>2

LEMMA DecisionsKeepCounts ==
  ASSUME CaptureInv, ReadWhileOpen', CountShape, CountsAreNotLower, NEW q \in Requests,
         \/ AskForPhoto(q) \/ Retry(q) \/ ReturnUnchanged(q) \/ AcceptDecrease(q)
         \/ ClaimAcknowledgement(q) \/ ApplyOutcome(q) \/ RecordOutcome(q) \/ CloseCapture(q)
         \/ ApplyLate(q) \/ FinishLate(q)
  PROVE  CountShape' /\ CountsAreNotLower'
  <1>1. AuditsKept
    <2>1. CASE UNCHANGED audit
      BY <2>1 DEF AuditsKept, CountShape
    <2>2. ASSUME NEW r, NEW b, NEW status, NEW why, CloseAudit(r, b, status, why)
          PROVE  AuditsKept
      BY <2>2, ClosingKeepsAudit DEF AuditsKept, CountShape
    <2> QED
      BY <2>1, <2>2, RequestWriters
  <1>2. CapturesKept
    <2>1. CASE UNCHANGED capture
      BY <2>1 DEF CapturesKept, CountShape, Untouched
    <2>2. ASSUME NEW r, NEW b, NEW status, SetCapture(r, b, status), status \notin {"NONE", "PENDING_ACK"}
          PROVE  CapturesKept
      BY <2>2, SettingKeepsCapture DEF CapturesKept, CountShape, CaptureInv, Untouched
    <2>3. CASE capture' = [capture EXCEPT ![request[q].run][request[q].bin] =
                 [status |-> "WAITING_FOR_CAMERA", attempt |-> @.attempt + 1, observed |-> Unsafe]]
      <3>1. PICK r, b : r = request[q].run /\ b = request[q].bin
        OBVIOUS
      <3>2. PICK new : new = [status |-> "WAITING_FOR_CAMERA", attempt |-> capture[r][b].attempt + 1,
                              observed |-> Unsafe]
        OBVIOUS
      <3>3. r \in Runs /\ b \in Bins
        BY <3>1, RequestWriters DEF CaptureInv, ReadWhileOpen
      <3>4. capture' = [capture EXCEPT ![r][b] = new]
        BY <2>3, <3>1, <3>2, <3>3 DEF CaptureInv, CaptureShape
      <3>5. new.status = "WAITING_FOR_CAMERA" /\ new.observed \in Nat
        BY <3>2, UnsafeIsCount
      <3> QED
        BY <3>4, <3>5 DEF CapturesKept, CountShape, CaptureInv, CaptureShape, Untouched
    <2> QED
      BY <2>1, <2>2, <2>3, RequestWriters
  <1>3. \A p \in Requests :
           \/ request'[p].pc = "idle" /\ request'[p].observed = Unsafe
           \/ /\ request[p].pc # "idle" \/ request'[p] = request[p]
              /\ request'[p].run = request[p].run /\ request'[p].bin = request[p].bin
              /\ request'[p].kind = request[p].kind /\ request'[p].status = request[p].status
              /\ request'[p].observed = request[p].observed
              /\ request'[p].pc = request[p].pc \/ MayGoOn(p)
    BY RequestWriters, RequestsRemember DEF CaptureInv
  <1>4. CountShape'
    <2>1. \A p \in Requests : request'[p].observed \in Nat
      BY <1>3, UnsafeIsCount DEF CountShape
    <2>2. stock' \in [Bins -> Nat]
      BY RequestWriters DEF CountShape
    <2>3. UNCHANGED <<call, analysis>>
      BY RequestWriters
    <2> QED
      BY <1>1, <1>2, <2>1, <2>2, <2>3 DEF CountShape, AuditsKept, CapturesKept
  <1>5. CountsAreNotLower'
    <2>1. \A s \in Runs, x \in Bins :
            capture'[s][x].status = "PENDING_ACK" => capture'[s][x].observed >= audit'[s][x].expected
      BY <1>1, <1>2 DEF CountsAreNotLower, AuditsKept, CapturesKept, Untouched
    <2>2. ASSUME NEW p \in Requests, NEW r, NEW b, r = request'[p].run, b = request'[p].bin,
                 request'[p].pc # "idle", request'[p].kind \in CaptureKinds
          PROVE  /\ ~Untouched(r, b)'
                 /\ request'[p].kind = "ACCEPT" /\ request'[p].pc # "decide" =>
                      request'[p].status = "PENDING_ACK"
                 /\ request'[p].kind = "ACCEPT" /\ request'[p].status = "PENDING_ACK" =>
                      request'[p].observed >= audit'[r][b].expected
      <3>1. /\ r = request[p].run /\ b = request[p].bin /\ request[p].pc # "idle"
            /\ request[p].kind = request'[p].kind /\ request[p].status = request'[p].status
            /\ request[p].observed = request'[p].observed
            /\ request'[p].pc = request[p].pc \/ MayGoOn(p)
        BY <1>3, <2>2
      <3>2. r \in Runs /\ b \in Bins /\ ~Untouched(r, b)
        BY <2>2, <3>1 DEF CaptureInv, ReadWhileOpen, CountsAreNotLower
      <3>3. request'[p].kind = "ACCEPT" /\ request'[p].pc # "decide" => request'[p].status = "PENDING_ACK"
        BY <2>2, <3>1 DEF CountsAreNotLower, MayGoOn
      <3> QED
        BY <1>1, <1>2, <2>2, <3>1, <3>2, <3>3 DEF CountsAreNotLower, AuditsKept, CapturesKept
    <2> QED
      BY <2>1, <2>2 DEF CountsAreNotLower
  <1> QED
    BY <1>4, <1>5

LEMMA ReadingKeepsCounts ==
  ASSUME CaptureInv, CountShape, CountsAreNotLower, NEW q \in Requests, NEW kind, NEW r \in Runs, NEW b \in Bins,
         \/ kind \in CaptureKinds /\ ReadCapture(q, kind, r, b)
         \/ kind \in ReviewKinds /\ ReadAudit(q, kind, r, b)
  PROVE  CountShape' /\ CountsAreNotLower'
  <1>1. UNCHANGED <<stock, audit, capture, call, analysis>>
    BY DEF ReadCapture, ReadAudit, tables
  <1>2. PICK new : /\ request' = [request EXCEPT ![q] = new]
                   /\ new.pc = "decide" /\ new.run = r /\ new.bin = b /\ new.observed \in Nat
                   /\ new.kind \in CaptureKinds =>
                        /\ ~Untouched(r, b)
                        /\ new.kind = "ACCEPT" => /\ new.status = capture[r][b].status
                                                 /\ new.observed = capture[r][b].observed
    <2>1. ASSUME kind \in CaptureKinds, ReadCapture(q, kind, r, b), NEW new,
                 new = [pc |-> "decide", kind |-> kind, run |-> r, bin |-> b, status |-> capture[r][b].status,
                        attempt |-> IF kind = "CAMERA" THEN capture[r][b].attempt ELSE 0,
                        observed |-> IF kind = "ACCEPT" THEN capture[r][b].observed ELSE Unsafe]
          PROVE  /\ request' = [request EXCEPT ![q] = new]
                 /\ new.pc = "decide" /\ new.run = r /\ new.bin = b /\ new.observed \in Nat
                 /\ new.kind \in CaptureKinds =>
                      /\ ~Untouched(r, b)
                      /\ new.kind = "ACCEPT" => /\ new.status = capture[r][b].status
                                               /\ new.observed = capture[r][b].observed
      <3>1. ~Untouched(r, b)
        BY <2>1 DEF ReadCapture, Decidable, CaptureKinds, Retryable, Undecided, Untouched
      <3>2. request' = [request EXCEPT ![q] = new]
        BY <2>1 DEF ReadCapture
      <3> QED
        BY <2>1, <3>1, <3>2, UnsafeIsCount DEF CountShape
    <2>2. ASSUME kind \in ReviewKinds, ReadAudit(q, kind, r, b), NEW new,
                 new = [pc |-> "decide", kind |-> kind, run |-> r, bin |-> b, status |-> "NONE",
                        attempt |-> 0, observed |-> IF kind = "APPLY" THEN audit[r][b].observed ELSE Unsafe]
          PROVE  /\ request' = [request EXCEPT ![q] = new]
                 /\ new.pc = "decide" /\ new.run = r /\ new.bin = b /\ new.observed \in Nat
                 /\ new.kind \notin CaptureKinds
      <3>1. request' = [request EXCEPT ![q] = new]
        BY <2>2 DEF ReadAudit
      <3> QED
        BY <2>2, <3>1, UnsafeIsCount DEF CountShape, CaptureKinds, ReviewKinds
    <2> QED
      BY <2>1, <2>2
  <1>3. /\ request'[q] = new
        /\ \A p \in Requests \ {q} : request'[p] = request[p]
    BY <1>2 DEF CaptureInv, ReadWhileOpen
  <1>4. CountShape'
    BY <1>1, <1>2, <1>3 DEF CountShape
  <1>5. CountsAreNotLower'
    BY <1>1, <1>2, <1>3 DEF CountsAreNotLower, Untouched
  <1> QED
    BY <1>4, <1>5

---------------------------------------------------------------------------
(* The analyses: a clear count is not lower than expected.                 *)
LEMMA ClearCountsAreNotLower ==
  ASSUME NEW seen \in Nat, NEW expected \in Nat,
         Outcome(seen, expected) \notin {"UNSAFE", "REVIEW_DECREASE", "UNEXPECTED_STOCK"}
  PROVE  seen >= expected
  BY DEF Outcome

AnalysesKept ==
    /\ DOMAIN analysis' = Runs
    /\ \A s \in Runs :
         /\ DOMAIN analysis'[s] = Bins
         /\ \A x \in Bins : DOMAIN analysis'[s][x] = AnalysisFields /\ analysis'[s][x].seen \in Nat

LEMMA AnalysisKeepsCounts ==
  ASSUME CaptureInv, CountShape, CountsAreNotLower, NEW r \in Runs, NEW b \in Bins,
         ReceivePhoto(r, b) \/ LoseJob(r, b) \/ AnalysisStep(r, b) \/ LoseAnalysis(r, b)
  PROVE  CountShape' /\ CountsAreNotLower'
  <1>1. UNCHANGED <<stock, call, request>>
    BY DEF ReceivePhoto, LoseJob, AnalysisStep, LoseAnalysis, Analyse, DisableBin,
           RecordUnexpectedStock, PersistReading, FailAnalysis, tables
  <1>2. AuditsKept
    <2>1. CASE UNCHANGED audit
      BY <2>1 DEF AuditsKept, CountShape
    <2>2. ASSUME NEW status, NEW why, CloseAudit(r, b, status, why)
          PROVE  AuditsKept
      BY <2>2, ClosingKeepsAudit DEF AuditsKept, CountShape
    <2> QED
      BY <2>1, <2>2 DEF ReceivePhoto, LoseJob, AnalysisStep, LoseAnalysis, Analyse, DisableBin,
           RecordUnexpectedStock, PersistReading, FailAnalysis, tables
  <1>3. AnalysesKept
    <2>1. CASE UNCHANGED analysis
      BY <2>1 DEF AnalysesKept, CountShape
    <2>2. CASE AnalysisEnds(r, b)
      BY <2>2, UnsafeIsCount DEF AnalysesKept, AnalysisEnds, NoAnalysis, CountShape, AnalysisFields
    <2>3. ASSUME NEW pc, NEW attempt,
                 analysis' = [analysis EXCEPT ![r][b].pc = pc, ![r][b].attempt = attempt]
          PROVE  AnalysesKept
      BY <2>3 DEF AnalysesKept, CountShape, AnalysisFields
    <2>4. ASSUME NEW pc, analysis' = [analysis EXCEPT ![r][b].pc = pc]
          PROVE  AnalysesKept
      BY <2>4 DEF AnalysesKept, CountShape, AnalysisFields
    <2>7. ASSUME NEW pc, NEW seen \in Nat,
                 \/ analysis' = [analysis EXCEPT ![r][b].pc = pc, ![r][b].seen = seen]
                 \/ analysis' = [analysis EXCEPT ![r][b].seen = seen, ![r][b].pc = pc]
          PROVE  AnalysesKept
      <3>1. CASE analysis' = [analysis EXCEPT ![r][b].pc = pc, ![r][b].seen = seen]
        BY <3>1 DEF AnalysesKept, CountShape, AnalysisFields
      <3>2. CASE analysis' = [analysis EXCEPT ![r][b].seen = seen, ![r][b].pc = pc]
        BY <3>2 DEF AnalysesKept, CountShape, AnalysisFields
      <3> QED
        BY <2>7, <3>1, <3>2
    <2>5. Readings \subseteq Nat
      BY AuditAssumption DEF Readings, Quantities, Unsafe
    <2>6. CASE AnalysisStep(r, b)
      BY <2>1, <2>2, <2>4, <2>5, <2>6, <2>7, UnsafeIsCount
         DEF AnalysisStep, Analyse, DisableBin, RecordUnexpectedStock, PersistReading, FailAnalysis
    <2> QED
      BY <2>1, <2>2, <2>3, <2>6 DEF ReceivePhoto, LoseJob, LoseAnalysis
  <1>4. CASE CapturesKept
    BY <1>1, <1>2, <1>3, <1>4, KeptCounts DEF CaptureInv, CountShape, AuditsKept, CapturesKept, AnalysesKept
  <1>5. ASSUME NEW status, SetCapture(r, b, status), status \notin {"NONE", "PENDING_ACK"}
        PROVE  CapturesKept
    BY <1>5, SettingKeepsCapture DEF CapturesKept, CountShape, CaptureInv, Untouched
  <1>6. CASE UNCHANGED capture
    BY <1>4, <1>6 DEF CapturesKept, CountShape, Untouched
  <1>7. CASE PersistReading(r, b) /\ Claimed(r, b)
    <2>1. PICK seen \in Nat, expected \in Nat : seen = analysis[r][b].seen /\ expected = audit[r][b].expected
      BY DEF CountShape
    <2>2. PICK status : /\ capture' = [capture EXCEPT ![r][b].observed = seen, ![r][b].status = status]
                        /\ status # "NONE" /\ (status = "PENDING_ACK" => seen >= expected)
      <3>1. PICK outcome : outcome = Outcome(seen, expected)
        OBVIOUS
      <3>2. capture' = [capture EXCEPT ![r][b].observed = seen,
                 ![r][b].status = CASE outcome = "UNSAFE" -> "RETRY_REQUIRED"
                                    [] outcome = "REVIEW_DECREASE" -> "REVIEW_DECREASE"
                                    [] outcome = "UNEXPECTED_STOCK" -> "ACCEPTED"
                                    [] OTHER -> "PENDING_ACK"]
        BY <1>7, <2>1, <3>1 DEF PersistReading
      <3>3. outcome \notin {"UNSAFE", "REVIEW_DECREASE", "UNEXPECTED_STOCK"} => seen >= expected
        BY <3>1, ClearCountsAreNotLower
      <3>4. PICK status : status = CASE outcome = "UNSAFE" -> "RETRY_REQUIRED"
                                    [] outcome = "REVIEW_DECREASE" -> "REVIEW_DECREASE"
                                    [] outcome = "UNEXPECTED_STOCK" -> "ACCEPTED"
                                    [] OTHER -> "PENDING_ACK"
        OBVIOUS
      <3>5. status # "NONE" /\ (status = "PENDING_ACK" => seen >= expected)
        BY <3>3, <3>4
      <3>6. capture' = [capture EXCEPT ![r][b].observed = seen, ![r][b].status = status]
        BY <3>2, <3>4
      <3> QED
        BY <3>5, <3>6
    <2>3. /\ UNCHANGED audit
          /\ \A s \in Runs, x \in Bins : s # r \/ x # b => capture'[s][x] = capture[s][x]
          /\ capture'[r][b].observed = seen /\ capture'[r][b].status = status
      BY <1>7, <2>2 DEF PersistReading, CaptureInv, CaptureShape, CaptureFields
    <2>4. CountShape'
      BY <1>1, <1>2, <1>3, <2>3 DEF CountShape, AnalysesKept
    <2>5. \A s \in Runs, x \in Bins : Untouched(s, x)' => Untouched(s, x)
      BY <2>2, <2>3 DEF Untouched
    <2>6. CountsAreNotLower'
      <3>1. \A s \in Runs, x \in Bins :
              capture'[s][x].status = "PENDING_ACK" => capture'[s][x].observed >= audit'[s][x].expected
        BY <2>1, <2>2, <2>3 DEF CountsAreNotLower
      <3> QED
        BY <1>1, <2>3, <2>5, <3>1 DEF CountsAreNotLower, CaptureInv, ReadWhileOpen
    <2> QED
      BY <2>4, <2>6
  <1> QED
    BY <1>4, <1>5, <1>6, <1>7 DEF ReceivePhoto, LoseJob, AnalysisStep, LoseAnalysis, Analyse, DisableBin,
       RecordUnexpectedStock, PersistReading, FailAnalysis, tables

---------------------------------------------------------------------------
(* The books.                                                              *)
BookSafe(b) ==
    \/ stock'[b] = stock[b] /\ binStatus'[b] = binStatus[b] /\ (b \in misjudged => b \in misjudged')
    \/ binStatus'[b] \notin OnShelf \cup {"AUDITING"}
    \/ binStatus'[b] \in OnShelf /\ (b \in misjudged' \/ Matches(b)')

LocksStay ==
    \A s \in Runs : call'[s].pc \in HasLocked =>
        /\ call[s].pc \in HasLocked
        /\ call'[s].bin = call[s].bin /\ call'[s].orig = call[s].orig

LEMMA BooksKept ==
  ASSUME AttendInv, BooksAgree, \A b \in Bins : BookSafe(b), LocksStay
  PROVE  BooksAgree'
  <1>1. \A b \in Bins : (binStatus[b] \in OnShelf /\ b \notin misjudged => Matches(b))'
    BY DEF BooksAgree, BookSafe, Matches, OnShelf
  <1>2. ASSUME NEW r \in Runs, NEW b, b = call'[r].bin, call'[r].pc \in HasLocked,
               binStatus'[b] = "AUDITING", b \notin misjudged'
        PROVE  call'[r].orig = ShelfStatus(stock'[b])
    <2>1. call[r].pc \in HasLocked /\ b = call[r].bin /\ call'[r].orig = call[r].orig /\ b \in Bins
      BY <1>2 DEF LocksStay, AttendInv, OneSession, HasLocked, InSession
    <2>2. stock'[b] = stock[b] /\ binStatus[b] = "AUDITING" /\ b \notin misjudged
      BY <1>2, <2>1 DEF BookSafe, OnShelf
    <2> QED
      BY <2>1, <2>2 DEF BooksAgree
  <1> QED
    BY <1>1, <1>2 DEF BooksAgree

LEMMA LocksUntouched ==
  ASSUME UNCHANGED call
  PROVE  LocksStay
  BY DEF LocksStay

LEMMA BooksUntouched ==
  ASSUME UNCHANGED <<stock, binStatus, misjudged>>
  PROVE  \A b \in Bins : BookSafe(b)
  BY DEF BookSafe

LEMMA UnlockIsSafe ==
  ASSUME BinShape, NEW b \in Bins, NEW to \in OnShelf, NEW outdated, Unlock(b, to, outdated),
         \A x \in Bins \ {b} : stock'[x] = stock[x],
         binStatus[b] # "AUDITING" => stock'[b] = stock[b],
         binStatus[b] = "AUDITING" /\ ~outdated => to = ShelfStatus(stock'[b])
  PROVE  \A x \in Bins : BookSafe(x)
  <1>1. \A x \in Bins \ {b} : BookSafe(x)
    BY DEF Unlock, Release, BinShape, BookSafe
  <1>2. BookSafe(b)
    BY DEF Unlock, Release, BinShape, BookSafe, Matches
  <1> QED
    BY <1>1, <1>2

LEMMA CallsKeepLocks ==
  ASSUME CallShape, NEW r \in Runs, Begin(r) \/ CallStep(r)
  PROVE  LocksStay \/ (ClaimBin(r) /\ call'[r].pc = "start")
  <1>1. ASSUME NEW pc, Goto(r, pc) \/ \E result : GotoWith(r, pc, result),
               pc \in HasLocked => call[r].pc \in HasLocked
        PROVE  LocksStay
    <2>1. /\ \A s \in Runs \ {r} : call'[s] = call[s]
          /\ call'[r].pc = pc /\ call'[r].bin = call[r].bin /\ call'[r].orig = call[r].orig
      BY <1>1, ZenonT(60) DEF CallShape, CallFields, Goto, GotoWith
    <2> QED
      BY <1>1, <2>1 DEF LocksStay
  <1>2. CASE End(r)
    BY <1>2 DEF CallShape, End, NewCall, LocksStay, HasLocked
  <1>3. ASSUME \A s \in Runs \ {r} : call'[s] = call[s], call'[r].pc \notin HasLocked
        PROVE  LocksStay
    BY <1>3 DEF LocksStay
  <1>4. CASE Begin(r)
    BY <1>3, <1>4, BeginCalls DEF Fresh, HasLocked
  <1>5. CASE ListBins(r)
    <2>1. CASE \E planned : call' = [call EXCEPT ![r].pc = "next", ![r].planned = planned,
                                                ![r].expected = stock]
      BY <1>3, <2>1 DEF CallShape, CallFields, HasLocked
    <2> QED
      BY <1>2, <1>5, <2>1 DEF ListBins, FailRun
  <1>6. CASE CreateAudit(r)
    <2>1. PICK b : call' = [call EXCEPT ![r].pc = "lease", ![r].bin = b, ![r].planned = @ \ {b},
                                        ![r].expected[b] = 0]
      BY <1>6 DEF CreateAudit
    <2>2. call'[r].pc = "lease" /\ \A s \in Runs \ {r} : call'[s] = call[s]
      BY <2>1, ZenonT(60) DEF CallShape, CallFields
    <2> QED
      BY <1>3, <2>2 DEF HasLocked
  <1>7. CASE Recover(r)
    <2>1. call' = [call EXCEPT ![r].pc = "create", ![r].seen = NothingSeen]
      BY <1>7 DEF Recover
    <2> QED
      BY <1>3, <2>1 DEF CallShape, CallFields, HasLocked
  <1>8. CASE ClaimBin(r)
    <2>1. CASE \E orig : call' = [call EXCEPT ![r].pc = "start", ![r].orig = orig]
      BY <1>8, <2>1 DEF CallShape, CallFields
    <2> QED
      BY <1>1, <1>8, <2>1 DEF ClaimBin, FailAudit, HasLocked
  <1>9. CASE EndSession(r)
    <2>1. CASE \E pc \in {"settle", "next"} : \E planned, verdict :
                 call' = [call EXCEPT ![r].pc = pc, ![r].orig = "AVAILABLE", ![r].result = "NONE",
                                      ![r].planned = planned, ![r].verdict = verdict]
      BY <1>3, <2>1 DEF CallShape, CallFields, HasLocked
    <2> QED
      BY <1>2, <1>9, <2>1 DEF EndSession, FailRun
  <1>10. CASE CreateRun(r) \/ TakeLease(r) \/ SettleReview(r) \/ FinishRun(r)
    BY <1>1, <1>2, <1>10 DEF CreateRun, TakeLease, SettleReview, FinishRun, FailRun, HasLocked
  <1>11. CASE StartAudit(r) \/ Present(r) \/ CreateCapture(r) \/ RequestPhoto(r)
    BY <1>1, <1>2, <1>11 DEF StartAudit, Present, CreateCapture, RequestPhoto, FailRun, FailAudit, At, HasLocked
  <1>12. CASE SeeCapture(r) \/ ExpireCapture(r)
    BY <1>1, <1>12 DEF SeeCapture, ExpireCapture, At, HasLocked
  <1>13. CASE Return(r) \/ ReleaseBin(r) \/ RecordResult(r) \/ ReadBack(r)
    BY <1>1, <1>13 DEF Return, ReleaseBin, RecordResult, ReadBack, FailAudit, At, HasLocked
  <1> QED
    BY <1>4, <1>5, <1>6, <1>7, <1>8, <1>9, <1>10, <1>11, <1>12, <1>13 DEF CallStep

LEMMA CallsKeepBooks ==
  ASSUME Production, AttendInv, CallShape, BooksAgree, NEW r \in Runs, Begin(r) \/ CallStep(r)
  PROVE  BooksAgree'
  <1>1. UNCHANGED stock
    BY CallWriters
  <1>2. CASE ClaimBin(r) /\ call'[r].pc = "start"
    <2>1. PICK b : b = call[r].bin
      OBVIOUS
    <2>2. /\ call[r].pc = "claim" /\ b \in Bins /\ UNCHANGED misjudged
      BY <1>2, <2>1 DEF ClaimBin, At, AttendInv, OneSession, InSession
    <2>3. /\ binStatus[b] \in OnShelf
          /\ binStatus' = [binStatus EXCEPT ![b] = "AUDITING"]
          /\ call' = [call EXCEPT ![r].pc = "start", ![r].orig = binStatus[b]]
      <3>1. CASE GotoWith(r, "audited", "FAILED")
        BY <1>2, <3>1, GoingMoves DEF Moved
      <3> QED
        BY <1>2, <2>1, <3>1 DEF ClaimBin, FailAudit
    <2>4. /\ \A s \in Runs \ {r} : call'[s] = call[s] /\ call[s].pc \notin HasLocked
          /\ call'[r].bin = b /\ call'[r].orig = binStatus[b]
      BY <2>1, <2>2, <2>3 DEF CallShape, CallFields, AttendInv, OneSession, InSession, HasLocked
    <2>5. binStatus'[b] = "AUDITING" /\ \A x \in Bins \ {b} : binStatus'[x] = binStatus[x]
      BY <2>2, <2>3 DEF AttendInv, BinShape
    <2>6. b \notin misjudged => binStatus[b] = ShelfStatus(stock[b])
      BY <2>2, <2>3 DEF BooksAgree, Matches
    <2>7. \A x \in Bins : (binStatus[x] \in OnShelf /\ x \notin misjudged => Matches(x))'
      BY <1>1, <2>2, <2>5 DEF BooksAgree, Matches, OnShelf
    <2>8. \A s \in Runs : call'[s].pc \in HasLocked /\ call'[s].bin \notin misjudged' =>
            call'[s].orig = ShelfStatus(stock'[call'[s].bin])
      BY <1>1, <2>2, <2>4, <2>6
    <2> QED
      BY <2>7, <2>8 DEF BooksAgree
  <1>3. CASE ~(ClaimBin(r) /\ call'[r].pc = "start")
    <2>1. LocksStay
      BY <1>3, CallsKeepLocks
    <2>2. CASE UNCHANGED <<binStatus, misjudged>>
      BY <1>1, <2>1, <2>2, BooksUntouched, BooksKept
    <2>3. CASE Recover(r)
      <3>1. \A b \in Bins : binStatus'[b] = binStatus[b] \/ binStatus'[b] = "DISABLED"
        <4>1. CASE binStatus' = [b \in Bins |->
                 IF b \in call[r].seen.locked /\ binStatus[b] = "AUDITING"
                 THEN RecoveredStatus(r, b) ELSE binStatus[b]]
          BY <4>1 DEF RecoveredStatus
        <4> QED
          BY <2>3, <4>1 DEF Recover
      <3>2. UNCHANGED misjudged
        BY <2>3 DEF Recover, history
      <3> QED
        BY <1>1, <2>1, <3>1, <3>2, BooksKept DEF BookSafe, OnShelf
    <2>4. CASE ClaimBin(r)
      <3>1. UNCHANGED <<binStatus, misjudged>>
        <4>1. CASE call' = [call EXCEPT ![r].pc = "start", ![r].orig = binStatus[call[r].bin]]
          BY <1>3, <2>4, <4>1 DEF CallShape, CallFields
        <4> QED
          BY <2>4, <4>1 DEF ClaimBin
      <3> QED
        BY <2>2, <3>1
    <2>5. ASSUME NEW b, b = call[r].bin, Release(b, call[r].orig), UNCHANGED misjudged,
                 call[r].pc \in {"start", "present", "release"}
          PROVE  BooksAgree'
      <3>1. b \in Bins /\ call[r].orig \in OnShelf
        BY <2>5 DEF AttendInv, OneSession, BinShape, InSession
      <3>2. binStatus[b] = "AUDITING" /\ b \notin misjudged => call[r].orig = ShelfStatus(stock[b])
        BY <2>5 DEF BooksAgree, HasLocked
      <3>3. \A x \in Bins : BookSafe(x)
        BY <1>1, <2>5, <3>1, <3>2 DEF Release, AttendInv, BinShape, BookSafe, Matches
      <3> QED
        BY <2>1, <3>3, BooksKept
    <2>6. CASE SeeCapture(r) /\ ~UNCHANGED <<binStatus, misjudged>>
      <3>1. PICK b : b = call[r].bin
        OBVIOUS
      <3>2. b \in Bins
        BY <2>6, <3>1 DEF SeeCapture, At, AttendInv, OneSession, InSession
      <3>3. Unlock(b, OriginalStatus(r, b), Outdated(r, b))
        BY <2>6, <3>1 DEF SeeCapture, history
      <3>4. ~Outdated(r, b) => OriginalStatus(r, b) = ShelfStatus(stock'[b])
        BY <1>1 DEF Outdated, OriginalStatus
      <3>5. \A x \in Bins : BookSafe(x)
        BY <1>1, <3>2, <3>3, <3>4, UnlockIsSafe, ShelfStatuses DEF AttendInv
      <3> QED
        BY <2>1, <3>5, BooksKept
    <2> QED
      BY <2>2, <2>3, <2>4, <2>5, <2>6, CallWriters
  <1> QED
    BY <1>2, <1>3

LEMMA DecisionsKeepBooks ==
  ASSUME AttendInv, CountShape, CountsAreNotLower, ReadWhileOpen, BooksAgree, NEW q \in Requests,
         \/ AskForPhoto(q) \/ Retry(q) \/ ReturnUnchanged(q) \/ AcceptDecrease(q)
         \/ ClaimAcknowledgement(q) \/ ApplyOutcome(q) \/ RecordOutcome(q) \/ CloseCapture(q)
         \/ ApplyLate(q) \/ FinishLate(q)
  PROVE  BooksAgree'
  <1>1. PICK r, b, n : r = request[q].run /\ b = request[q].bin /\ n = request[q].observed
    OBVIOUS
  <1>2. r \in Runs /\ b \in Bins /\ n \in Nat /\ UNCHANGED call
    BY <1>1, RequestWriters DEF ReadWhileOpen, CountShape
  <1>3. audit[r][b].expected \in Nat /\ stock[b] \in Nat
    BY <1>2 DEF CountShape
  <1>4. LocksStay
    BY <1>2, LocksUntouched
  <1>5. CASE \A x \in Bins : BookSafe(x)
    BY <1>4, <1>5, BooksKept
  <1>6. CASE UNCHANGED <<stock, binStatus, misjudged>>
    BY <1>5, <1>6, BooksUntouched
  <1>7. CASE ReturnUnchanged(q)
    <2>1. CASE UNCHANGED stock /\ Unlock(b, OriginalStatus(r, b), Outdated(r, b))
      <3>1. ~Outdated(r, b) => OriginalStatus(r, b) = ShelfStatus(stock'[b])
        BY <2>1 DEF Outdated, OriginalStatus
      <3> QED
        BY <1>2, <1>5, <2>1, <3>1, UnlockIsSafe, ShelfStatuses DEF AttendInv
    <2> QED
      BY <1>1, <1>6, <1>7, <2>1 DEF ReturnUnchanged, history
  <1>8. CASE AcceptDecrease(q)
    <2>1. CASE binStatus[b] = "AUDITING" /\ stock' = [stock EXCEPT ![b] = n] /\ Unlock(b, ShelfStatus(n), FALSE)
      <3>1. stock'[b] = n /\ \A x \in Bins \ {b} : stock'[x] = stock[x]
        BY <1>2, <2>1 DEF CountShape
      <3> QED
        BY <1>2, <1>5, <2>1, <3>1, UnlockIsSafe, ShelfStatuses DEF AttendInv
    <2> QED
      BY <1>1, <1>6, <1>8, <2>1 DEF AcceptDecrease, history
  <1>9. CASE ApplyOutcome(q)
    <2>1. n >= audit[r][b].expected
      <3>1. request[q].pc = "apply" /\ request[q].kind = "ACCEPT"
        BY <1>9 DEF ApplyOutcome, Asked
      <3> QED
        BY <1>1, <3>1 DEF CountsAreNotLower, CaptureKinds
    <2>2. PICK higher : higher = (n > audit[r][b].expected)
      OBVIOUS
    <2>5. ~higher => n = audit[r][b].expected
      <3>1. ~(n > audit[r][b].expected) => n = audit[r][b].expected
        BY <1>2, <1>3, <2>1
      <3> QED
        BY <2>2, <3>1, ZenonT(30)
    <2>3. CASE /\ binStatus[b] = "AUDITING" /\ (higher => ~Outdated(r, b))
               /\ stock' = IF higher THEN [stock EXCEPT ![b] = n] ELSE stock
               /\ Unlock(b, ShelfStatus(n), ~higher /\ Outdated(r, b))
      <3>1. \A x \in Bins \ {b} : stock'[x] = stock[x]
        BY <1>2, <2>3 DEF CountShape
      <3>2. ~(~higher /\ Outdated(r, b)) => stock'[b] = n
        <4>1. CASE higher
          BY <1>2, <2>3, <4>1 DEF CountShape
        <4>2. CASE ~higher /\ ~Outdated(r, b)
          <5>1. n = audit[r][b].expected
            BY <2>5, <4>2, ZenonT(30)
          <5>2. audit[r][b].expected = stock[b]
            BY <4>2 DEF Outdated
          <5>3. stock' = stock
            BY <2>3, <4>2
          <5> QED
            BY <5>1, <5>2, <5>3
        <4> QED
          BY <4>1, <4>2
      <3> QED
        BY <1>2, <1>5, <2>3, <3>1, <3>2, UnlockIsSafe, ShelfStatuses DEF AttendInv
    <2>4. CASE UNCHANGED stock /\ Unlock(b, OriginalStatus(r, b), Outdated(r, b))
      <3>1. ~Outdated(r, b) => OriginalStatus(r, b) = ShelfStatus(stock'[b])
        BY <2>4 DEF Outdated, OriginalStatus
      <3> QED
        BY <1>2, <1>5, <2>4, <3>1, UnlockIsSafe, ShelfStatuses DEF AttendInv
    <2> QED
      BY <1>1, <1>9, <2>2, <2>3, <2>4 DEF ApplyOutcome
  <1>10. CASE ApplyLate(q)
    <2>1. CASE /\ binStatus[b] # "AUDITING"
               /\ stock' = [stock EXCEPT ![b] = n]
               /\ binStatus' = [binStatus EXCEPT ![b] = IF @ \in OnShelf THEN ShelfStatus(n) ELSE @]
               /\ misjudged' = misjudged \ {b}
      <3>1. \A x \in Bins \ {b} : BookSafe(x)
        BY <1>2, <2>1 DEF CountShape, AttendInv, BinShape, BookSafe
      <3>2. stock'[b] = n /\ binStatus'[b] = IF binStatus[b] \in OnShelf THEN ShelfStatus(n) ELSE binStatus[b]
        BY <1>2, <2>1 DEF CountShape, AttendInv, BinShape
      <3>3. BookSafe(b)
        BY <2>1, <3>2, ShelfStatuses DEF BookSafe, Matches
      <3> QED
        BY <1>5, <3>1, <3>3
    <2> QED
      BY <1>1, <1>6, <1>10, <2>1 DEF ApplyLate, history
  <1> QED
    BY <1>6, <1>7, <1>8, <1>9, <1>10 DEF AskForPhoto, Retry, ClaimAcknowledgement, RecordOutcome, CloseCapture,
       FinishLate, history

LEMMA AnalysisKeepsBooks ==
  ASSUME AttendInv, BooksAgree, NEW r \in Runs, NEW b \in Bins,
         ReceivePhoto(r, b) \/ LoseJob(r, b) \/ AnalysisStep(r, b) \/ LoseAnalysis(r, b)
  PROVE  BooksAgree'
  <1>1. UNCHANGED <<stock, misjudged, call>>
    BY DEF ReceivePhoto, LoseJob, AnalysisStep, LoseAnalysis, Analyse, DisableBin,
           RecordUnexpectedStock, PersistReading, FailAnalysis, tables, history
  <1>2. UNCHANGED binStatus \/ Release(b, "DISABLED")
    BY DEF ReceivePhoto, LoseJob, AnalysisStep, LoseAnalysis, Analyse, DisableBin,
           RecordUnexpectedStock, PersistReading, FailAnalysis, tables
  <1>3. \A x \in Bins : binStatus'[x] = binStatus[x] \/ binStatus'[x] = "DISABLED"
    BY <1>2 DEF AttendInv, BinShape, Release
  <1> QED
    BY <1>1, <1>3, BooksKept, LocksUntouched DEF BookSafe, OnShelf

(* Other workflows recompute the status of a bin whenever its stock        *)
(* changes, and a restart changes neither.                                 *)
LEMMA OthersKeepStock ==
  ASSUME AttendInv, CallShape, ReadWhileOpen, CountShape, BooksAgree, CountsAreNotLower,
         \/ \E b \in Bins : OtherReserve(b) \/ OtherCarry(b) \/ OtherFinish(b) \/ SetStock(b)
         \/ Restart \/ LeaseExpires \/ UNCHANGED vars
  PROVE  CountShape' /\ BooksAgree' /\ CountsAreNotLower'
  <1>1. CASE Restart
    <2>1. UNCHANGED <<stock, binStatus, misjudged, audit, capture>>
      BY <1>1 DEF Restart, tables, history
    <2>2. \A q \in Requests : request'[q].pc = "idle" /\ request'[q].observed \in Nat
      BY <1>1, UnsafeIsCount DEF Restart, IdleRequest
    <2>3. analysis' = [r \in Runs |-> [b \in Bins |-> NoAnalysis]]
      BY <1>1 DEF Restart
    <2>4. \A r \in Runs : call'[r].expected \in [Bins -> Nat]
      BY <1>1 DEF Restart, NewCall, CountShape
    <2>5. LocksStay
      BY <1>1 DEF Restart, Alive, Over, NewCall, LocksStay, HasLocked
    <2>6. CountShape'
      BY <2>1, <2>2, <2>3, <2>4, UnsafeIsCount DEF CountShape, NoAnalysis, AnalysisFields
    <2>7. CountsAreNotLower'
      BY <2>1, <2>2 DEF CountsAreNotLower
    <2> QED
      BY <2>1, <2>5, <2>6, <2>7, BooksUntouched, BooksKept
  <1>2. CASE LeaseExpires \/ UNCHANGED vars \/ \E b \in Bins : OtherCarry(b)
    <2>1. UNCHANGED <<stock, binStatus, misjudged, audit, capture, analysis, call, request>>
      BY <1>2 DEF LeaseExpires, OtherCarry, vars, tables, history
    <2> QED
      BY <2>1 DEF CountShape, BooksAgree, Matches, CountsAreNotLower, Untouched
  <1>3. ASSUME NEW b \in Bins, OtherReserve(b) \/ OtherFinish(b) \/ SetStock(b)
        PROVE  CountShape' /\ BooksAgree' /\ CountsAreNotLower'
    <2>1. UNCHANGED <<audit, capture, analysis, call, request>>
      BY <1>3 DEF OtherReserve, OtherFinish, SetStock
    <2>2. PICK n \in Nat : stock' = [stock EXCEPT ![b] = n]
      <3>1. Quantities \subseteq Nat
        BY AuditAssumption DEF Quantities
      <3>2. CASE UNCHANGED stock
        <4>1. stock[b] \in Nat /\ stock' = [stock EXCEPT ![b] = stock[b]]
          BY <3>2 DEF CountShape
        <4> QED
          BY <4>1
      <3> QED
        BY <1>3, <3>1, <3>2 DEF OtherReserve, OtherFinish, SetStock
    <2>3. stock' \in [Bins -> Nat] /\ stock'[b] = n /\ \A x \in Bins \ {b} : stock'[x] = stock[x]
      BY <2>2 DEF CountShape
    <2>4. \/ OtherReserve(b)
          \/ binStatus' = [binStatus EXCEPT ![b] = ShelfStatus(n)] /\ misjudged' = misjudged \ {b}
      <3>1. CASE OtherFinish(b)
        BY <2>3, <3>1 DEF OtherFinish
      <3>2. CASE SetStock(b)
        <4>1. PICK m : stock' = [stock EXCEPT ![b] = m] /\ binStatus' = [binStatus EXCEPT ![b] = ShelfStatus(m)]
          BY <3>2 DEF SetStock
        <4>2. m = n
          BY <2>3, <4>1 DEF CountShape
        <4> QED
          BY <3>2, <4>1, <4>2 DEF SetStock
      <3> QED
        BY <1>3, <3>1, <3>2
    <2>5. \A x \in Bins \ {b} : BookSafe(x)
      BY <2>3, <2>4 DEF OtherReserve, AttendInv, BinShape, BookSafe, history
    <2>6. BookSafe(b)
      <3>1. CASE OtherReserve(b)
        BY <3>1 DEF OtherReserve, AttendInv, BinShape, BookSafe, OnShelf
      <3>2. CASE binStatus' = [binStatus EXCEPT ![b] = ShelfStatus(n)]
        BY <2>3, <3>2, ShelfStatuses DEF AttendInv, BinShape, BookSafe, Matches
      <3> QED
        BY <2>4, <3>1, <3>2
    <2>7. CountShape'
      BY <2>1, <2>3 DEF CountShape
    <2>8. CountsAreNotLower'
      BY <2>1 DEF CountsAreNotLower, Untouched
    <2> QED
      BY <2>1, <2>5, <2>6, <2>7, <2>8, BooksKept, LocksUntouched
  <1> QED
    BY <1>1, <1>2, <1>3

LEMMA StockStep ==
  ASSUME Production, AttendInv, CaptureInv, CaptureInv', StockInv, [Next]_vars
  PROVE  StockInv'
  <1>1. ASSUME NEW r \in Runs, Begin(r) \/ CallStep(r)
        PROVE  StockInv'
    BY <1>1, CallsKeepCounts, CallsKeepBooks DEF StockInv, CaptureInv
  <1>2. ASSUME NEW q \in Requests, NEW kind, NEW r \in Runs, NEW b \in Bins,
               \/ kind \in CaptureKinds /\ ReadCapture(q, kind, r, b)
               \/ kind \in ReviewKinds /\ ReadAudit(q, kind, r, b)
        PROVE  StockInv'
    <2>1. UNCHANGED <<stock, binStatus, misjudged, call>>
      BY <1>2 DEF ReadCapture, ReadAudit, tables, history
    <2> QED
      BY <1>2, <2>1, ReadingKeepsCounts, BooksUntouched, LocksUntouched, BooksKept DEF StockInv
  <1>3. ASSUME NEW q \in Requests,
               \/ AskForPhoto(q) \/ Retry(q) \/ ReturnUnchanged(q) \/ AcceptDecrease(q)
               \/ ClaimAcknowledgement(q) \/ ApplyOutcome(q) \/ RecordOutcome(q) \/ CloseCapture(q)
               \/ ApplyLate(q) \/ FinishLate(q)
        PROVE  StockInv'
    BY <1>3, DecisionsKeepCounts, DecisionsKeepBooks DEF StockInv, CaptureInv
  <1>4. ASSUME RequestStep
        PROVE  StockInv'
    BY <1>2, <1>3, <1>4 DEF RequestStep
  <1>5. ASSUME NEW r \in Runs, NEW b \in Bins,
               ReceivePhoto(r, b) \/ LoseJob(r, b) \/ AnalysisStep(r, b) \/ LoseAnalysis(r, b)
        PROVE  StockInv'
    BY <1>5, AnalysisKeepsCounts, AnalysisKeepsBooks DEF StockInv
  <1> QED
    BY <1>1, <1>4, <1>5, OthersKeepStock DEF Next, StockInv, CaptureInv

LEMMA StockInit ==
  ASSUME Init
  PROVE  StockInv
  <1>1. Quantities \subseteq Nat
    BY AuditAssumption DEF Quantities
  <1>2. CountShape
    BY <1>1, UnsafeIsCount DEF Init, CountShape, NoAudit, AuditFields, NoCapture, NoAnalysis, AnalysisFields,
       IdleRequest, NewCall
  <1>3. BooksAgree
    BY DEF Init, BooksAgree, Matches, NewCall, HasLocked
  <1>4. CountsAreNotLower
    BY DEF Init, CountsAreNotLower, NoCapture, IdleRequest
  <1> QED
    BY <1>2, <1>3, <1>4 DEF StockInv

(* The invariant of the books.                                             *)
THEOREM BooksStayInStep ==
  ASSUME Production
  PROVE  Spec => []StockInv
  <1>1. AttendInv /\ CaptureInv /\ CaptureInv' /\ StockInv /\ [Next]_vars => StockInv'
    BY StockStep
  <1> QED
    BY <1>1, StockInit, VisitsKeepTheLock, CapturesAreMadeOnce, PTL DEF Spec

(* With a gantry, for any bins, runs, requests and recoveries: a bin on    *)
(* its shelf is empty exactly where its stock is, unless a request with an *)
(* outdated expectation has put it back.                                   *)
THEOREM ShelvedStatusIsRight ==
  ASSUME Production
  PROVE  Spec => []StatusMatchesStock
  <1>1. StockInv => StatusMatchesStock
    BY DEF StockInv, BooksAgree, Matches, StatusMatchesStock
  <1> QED
    BY <1>1, BooksStayInStep, PTL

==============================================================================
