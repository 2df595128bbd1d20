--------------------------- MODULE PlanAnalysis ---------------------------
(***************************************************************************)
(* analysis-service.ts: the analysis of one plan.  A process works on one  *)
(* run, statement by statement: "timer" is the coordinator of              *)
(* auto-coordinator.ts, "request" a browser's own analysis.  They share    *)
(* the run rows, the inbox, the hardware lease and the shelf.              *)
(*                                                                         *)
(* And what they are told of: the plan Sheet, its signals and the inbox    *)
(* row (auto-coordinator.ts 18-83).  An edit sends a signal that carries   *)
(* only a time; signals are delivered late, again or in another order.     *)
(* The clock counts what sends a signal, so that two signals never have    *)
(* the same time.                                                          *)
(***************************************************************************)
EXTENDS MaterialsSelection, Sequences, FiniteSets

CONSTANTS
    Contents,  \* what the rows of the Sheet may ask for
    Edits,     \* the contents it is given, one after the other
    MaxDays,   \* bound: days
    NoPlan

ASSUME InboxAssumption ==
    /\ Edits \in Seq(Contents) /\ Len(Edits) > 0
    /\ MaxDays \in Nat \ {0}
    /\ NoPlan \notin (1..MaxDays) \X Contents

(* engineeringPlanFingerprint: the work date and the rows that count.      *)
Plans == (1..MaxDays) \X Contents
Times == 0..(Len(Edits) + MaxDays)

VARIABLES
    sheet,   \* [edits, day, opened: the last day it was opened on]
    clock,   \* the time of the newest signal sent
    inbox    \* the EngineeringPlanInbox row

inboxVars == <<sheet, clock, inbox>>

InboxTypeOK ==
    /\ sheet \in [edits: 0..Len(Edits), day: 1..MaxDays, opened: 1..MaxDays]
    /\ clock \in Times
    /\ inbox \in [signal: Times, pending: BOOLEAN, due: BOOLEAN, leased: BOOLEAN,
                  last: Plans \cup {NoPlan}]

InboxInit ==
    /\ sheet = [edits |-> 1, day |-> 1, opened |-> 1]
    /\ clock = 1
    /\ inbox = [signal |-> 0, pending |-> FALSE, due |-> FALSE,
                leased |-> FALSE, last |-> NoPlan]

(* What a reader of the Sheet sees, for the date it asks for.              *)
PlanFor(day) == <<day, Edits[sheet.edits]>>

---------------------------------------------------------------------------
(* The Sheet and its triggers (hardware/google-sheets): an edit, midnight, *)
(* and the first time it is opened on a new day.                           *)
Edit ==
    /\ sheet.edits < Len(Edits)
    /\ sheet' = [sheet EXCEPT !.edits = @ + 1]
    /\ clock' = clock + 1
    /\ UNCHANGED inbox

Midnight ==
    /\ sheet.day < MaxDays
    /\ sheet' = [sheet EXCEPT !.day = @ + 1]
    /\ UNCHANGED <<clock, inbox>>

OpenSheet ==
    /\ sheet.opened < sheet.day
    /\ sheet' = [sheet EXCEPT !.opened = sheet.day]
    /\ clock' = clock + 1
    /\ UNCHANGED inbox

Newer(t) == inbox.signal < t

(* recordEngineeringPlanChange, for a signal sent at time t.  The debounce *)
(* starts again.                                                           *)
Record(t) ==
    /\ t \in 1..clock
    /\ Newer(t)
    /\ inbox' = [inbox EXCEPT !.signal = t, !.pending = TRUE, !.due = FALSE]
    /\ UNCHANGED <<sheet, clock>>

(* dueAt passes: 15 s after a signal, 60 s after a failed read.            *)
Due ==
    /\ inbox.pending /\ ~inbox.due
    /\ inbox' = [inbox EXCEPT !.due = TRUE]
    /\ UNCHANGED <<sheet, clock>>

---------------------------------------------------------------------------
(* The analysis.                                                           *)

CONSTANTS
    Shelf,        \* the bins at the start
    Needs,        \* the requirements the planner finds in the contents
    MaxOthers,    \* bound: what comes in between: requests of browsers for an
                  \* analysis or a bin, midnights, restarts and failures
    NoBin

Bins == DOMAIN Shelf
Workers == {"timer", "request"}
MaxRuns == Len(Edits) + MaxDays + MaxOthers
Ended == {"COMPLETED", "FAILED", "SUPERSEDED"}

(* What the process knows: the run it works on, the signal and the plan it *)
(* read, the bins its run has tried and the bin it has chosen.             *)
Idle == [pc |-> "idle", run |-> 0, signal |-> 0, plan |-> NoPlan,
         tried |-> {}, bin |-> NoBin]

Points ==
    {"idle", "inbox", "sheet", "settle", "pending", "choose", "claim",
     "snapshot", "select", "lease", "edits", "begin", "audit"}

VARIABLES
    runs,    \* the EngineeringPlanAnalysisRun rows, oldest first
    proc,
    shelf,   \* the bins and what the books and the evidence say of them
    gantry,  \* who holds the hardware lease
    client,  \* what a client has asked for, and the bin it is about
    left     \* how many of MaxOthers are left

analysisVars == <<runs, proc, shelf, gantry, client, left>>
vars == <<inboxVars, analysisVars>>

Run ==
    [auto: BOOLEAN, status: {"QUEUED", "RUNNING"} \cup Ended, active: BOOLEAN,
     old: BOOLEAN, plan: Plans, saved: BOOLEAN, tried: SUBSET Bins]

AnalysisTypeOK ==
    /\ runs \in Seq(Run) /\ Len(runs) <= MaxRuns
    /\ \A r \in DOMAIN runs : runs[r].active => runs[r].status \notin Ended
    /\ proc \in [Workers -> [pc: Points, run: 0..Len(runs), signal: Times,
                             plan: Plans \cup {NoPlan}, tried: SUBSET Bins,
                             bin: Bins \cup {NoBin}]]
    /\ shelf \in [Bins -> [sku: Skus, quantity: Nat, trusted: BOOLEAN,
                           status: {"OCCUPIED", "CHECKED_OUT", "AWAY"}]]
    /\ gantry \in {"free", "client", "dead"} \cup Workers
    /\ client \in [does: {"nothing", "fetches", "holds"}, bin: Bins \cup {NoBin}]
    /\ left \in 0..MaxOthers

AnalysisInit ==
    /\ runs = <<>>
    /\ proc = [p \in Workers |-> Idle]
    /\ shelf = Shelf
    /\ gantry = "free"
    /\ client = [does |-> "nothing", bin |-> NoBin]
    /\ left = MaxOthers

---------------------------------------------------------------------------
At(p, pc) == proc[p].pc = pc
Goto(p, pc) == proc' = [proc EXCEPT ![p].pc = pc]
Stop(p) == proc' = [proc EXCEPT ![p] = Idle]
Automatic(p) == runs[proc[p].run].auto

(* Mutant of Active: a run counts from the moment it is queued.            *)
AnyUnended == {r \in DOMAIN runs : runs[r].status \notin Ended}

(* The runs that hold the unique key.                                      *)
Active == {r \in DOMAIN runs : runs[r].active}

Disturbed == left > 0 /\ left' = left - 1

(* appendProgress with release: it writes the row whatever its status.     *)
Close(p, status) ==
    runs' = [runs EXCEPT ![proc[p].run].status = status,
                         ![proc[p].run].active = FALSE]

NewRun(auto, plan, active) ==
    [auto |-> auto, status |-> "QUEUED", active |-> active, old |-> FALSE,
     plan |-> plan, saved |-> FALSE, tried |-> {}]

(* recoverAbandonedTodayPlanAnalysis: the row holds the key and has been   *)
(* silent for three minutes.                                               *)
Abandoned(r) ==
    runs[r].active /\ runs[r].status \in {"RUNNING", "QUEUED"} /\ runs[r].old

Recovered ==
    [r \in DOMAIN runs |->
       IF Abandoned(r) THEN [runs[r] EXCEPT !.status = "FAILED", !.active = FALSE]
       ELSE runs[r]]

(* createTodayPlanAnalysisRun: it recovers first, then the unique key      *)
(* decides who is busy.                                                    *)
AskForAnalysis ==
    /\ At("request", "idle") /\ Disturbed
    /\ IF \E r \in DOMAIN runs : Recovered[r].active
         THEN runs' = Recovered /\ UNCHANGED proc
         ELSE /\ runs' = Append(Recovered, NewRun(FALSE, PlanFor(sheet.day), TRUE))
              /\ proc' = [proc EXCEPT !["request"].pc = "claim",
                                      !["request"].run = Len(runs) + 1]
    /\ UNCHANGED <<inboxVars, shelf, gantry, client>>

---------------------------------------------------------------------------
(* executeTodayPlanAnalysis.  A queued automatic run takes the key, which  *)
(* is unique, a browser's run has it; then it is claimed.                  *)
Claim(p) ==
    /\ At(p, "claim")
    /\ LET r == proc[p].run IN
         IF runs[r].status = "QUEUED" /\ Active \subseteq {r}
           THEN /\ runs' = [runs EXCEPT ![r].status = "RUNNING", ![r].active = TRUE]
                /\ proc' = [proc EXCEPT ![p].pc = "snapshot", ![p].tried = runs[r].tried]
           ELSE Stop(p) /\ UNCHANGED runs
    /\ UNCHANGED <<inboxVars, shelf, gantry, client, left>>

Fail(p) == Disturbed /\ Close(p, "FAILED") /\ Stop(p)

(* An automatic run works on the rows it was queued with, a browser's run  *)
(* reads the Sheet.  Without rows there is nothing to do.  The planner's   *)
(* answer is saved: a run that pauses does not ask again.                  *)
Snapshot(p) ==
    /\ At(p, "snapshot")
    /\ LET r == proc[p].run
           plan == IF Automatic(p) THEN runs[r].plan ELSE PlanFor(runs[r].plan[1])
       IN \/ Needs[plan[2]] = <<>> /\ Close(p, "COMPLETED") /\ Stop(p) /\ UNCHANGED left
          \/ /\ Needs[plan[2]] # <<>>
             /\ runs' = [runs EXCEPT ![r].saved = TRUE]
             /\ proc' = [proc EXCEPT ![p].plan = plan, ![p].pc = "select"]
             /\ UNCHANGED left
          \/ (~Automatic(p) \/ ~runs[r].saved) /\ Fail(p)
    /\ UNCHANGED <<inboxVars, shelf, gantry, client>>

Analysis(p) ==
    [excluded |-> proc[p].tried, onward |-> TRUE, evidence |-> TRUE, checkout |-> FALSE]

(* The next bin to audit, if the selection wants one and the run may have  *)
(* another.                                                                *)
Select(p) ==
    /\ At(p, "select")
    /\ LET needs == Needs[proc[p].plan[2]]
       IN IF \/ Verdict(needs, shelf, Analysis(p)) # "verify"
             \/ Cardinality(proc[p].tried) >= MaxSelected
            THEN Close(p, "COMPLETED") /\ Stop(p)
            ELSE proc' = [proc EXCEPT ![p].bin = FirstTarget(needs, shelf, Analysis(p)),
                            ![p].pc = IF Automatic(p) THEN "lease" ELSE "begin"]
                 /\ UNCHANGED runs
    /\ UNCHANGED <<inboxVars, shelf, gantry, client, left>>

(* warehouseIdleReason: the clients and the state of every bin; not the    *)
(* lease itself.  What else it asks for is part of what the client does:   *)
(* an approval that waits, a movement, an audit or a camera job of         *)
(* somebody else is work of the client's that ends, and the gantry and     *)
(* the camera are taken to be repaired before it ends.                     *)
WarehouseIsIdle ==
    /\ client.does = "nothing"
    /\ \A b \in Bins : shelf[b].status = "OCCUPIED"

(* BackgroundYield, or the gantry is busy: the run goes back to the queue  *)
(* with its checkpoint.                                                    *)
Yield(p) ==
    /\ runs' = [runs EXCEPT ![proc[p].run].status = "QUEUED",
                            ![proc[p].run].active = FALSE,
                            ![proc[p].run].tried = proc[p].tried]
    /\ Stop(p)

(* An automatic audit runs under the hardware lease, and only in an idle   *)
(* warehouse.                                                              *)
TakeLease(p) ==
    /\ At(p, "lease")
    /\ IF gantry = "free" /\ WarehouseIsIdle
         THEN gantry' = p /\ Goto(p, "edits") /\ UNCHANGED runs
         ELSE Yield(p) /\ UNCHANGED gantry
    /\ UNCHANGED <<inboxVars, shelf, client, left>>

GivesWay(p) ==
    \/ inbox.pending
    \/ \E r \in DOMAIN runs :
         runs[r].auto /\ runs[r].status = "QUEUED" /\ r > proc[p].run

CheckEdits(p) ==
    /\ At(p, "edits")
    /\ IF GivesWay(p) THEN gantry' = "free" /\ Yield(p)
       ELSE Goto(p, "begin") /\ UNCHANGED <<runs, gantry>>
    /\ UNCHANGED <<inboxVars, shelf, client, left>>

(* runInventoryAudit: the bin must still be on its shelf.  A bin counts as *)
(* tried before that is known.                                             *)
BeginAudit(p) ==
    /\ At(p, "begin")
    /\ LET r == proc[p].run
           b == proc[p].bin
           tried == proc[p].tried \cup {b}
       IN IF shelf[b].status # "OCCUPIED" THEN
            /\ proc' = [proc EXCEPT ![p].tried = tried, ![p].pc = "select"]
            /\ gantry' = IF gantry = p THEN "free" ELSE gantry
            /\ UNCHANGED <<runs, shelf, left>>
          ELSE IF gantry \notin {"free", p} THEN
            Close(p, "FAILED") /\ Stop(p)
              /\ UNCHANGED <<gantry, shelf, left>>
          ELSE
            /\ proc' = [proc EXCEPT ![p].tried = tried, ![p].pc = "audit"]
            /\ gantry' = p
            /\ shelf' = [shelf EXCEPT ![b].status = "AWAY"]
            /\ UNCHANGED <<runs, left>>
    /\ UNCHANGED <<inboxVars, client>>

(* The audit ends and the lease is given back.  The audit settles the      *)
(* count or leaves it in doubt (REPORT_ONLY); only then is the checkpoint  *)
(* written.  Or it throws; or the bin does not come home, which stops the  *)
(* run.                                                                    *)
EndAudit(p) ==
    /\ At(p, "audit")
    /\ gantry' = "free"
    /\ LET r == proc[p].run
           b == proc[p].bin
       IN \/ \E sure \in BOOLEAN :
               /\ shelf' = [shelf EXCEPT ![b].status = "OCCUPIED", ![b].trusted = sure]
               /\ runs' = IF Automatic(p) THEN [runs EXCEPT ![r].tried = proc[p].tried]
                          ELSE runs
               /\ Goto(p, "select")
               /\ UNCHANGED left
          \/ \E place \in {"OCCUPIED", "AWAY"} :
               /\ shelf' = [shelf EXCEPT ![b].status = place]
               /\ Fail(p)
    /\ UNCHANGED <<inboxVars, client>>

Analyse(p) ==
    \/ Claim(p) \/ Snapshot(p) \/ Select(p) \/ TakeLease(p)
    \/ CheckEdits(p) \/ BeginAudit(p) \/ EndAudit(p)

============================================================================
