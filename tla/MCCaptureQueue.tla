--------------------------- MODULE MCCaptureQueue ---------------------------
(***************************************************************************)
(* Two jobs of one camera, or two workers for one job: the smallest queue  *)
(* in which a job can be ahead of another, and the smallest in which two   *)
(* claims can meet.                                                        *)
(***************************************************************************)
EXTENDS CaptureQueue

CONSTANTS SecondJob, SecondWorker

(* Not both at once.                                                       *)
Small == status[SecondJob] = "NONE" \/ worker[SecondWorker].pc = "off"

SmallNext == Next /\ Small'

SmallSpec ==
    /\ Init /\ [][SmallNext]_vars
    /\ \A q \in Requests : WF_vars(Serve(q) /\ Small')
    /\ \A w \in Workers : WF_vars(Work(w) /\ Small')
    /\ \A j \in Jobs : WF_vars(~Attended(j) /\ Lapse(j) /\ Small')

============================================================================
