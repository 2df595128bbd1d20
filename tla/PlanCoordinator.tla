-------------------------- MODULE PlanCoordinator --------------------------
(***************************************************************************)
(* auto-coordinator.ts: a timer drains the inbox into queued runs and runs *)
(* the newest of them when the warehouse is idle.  Together with the Sheet *)
(* and its signals, the analyses of browsers, clients that use the bins,   *)
(* and a server that can restart.                                          *)
(***************************************************************************)
EXTENDS PlanAnalysis

Waiting(r) == runs[r].auto /\ runs[r].status = "QUEUED" /\ ~runs[r].active

Superseded(rows, old) ==
    [r \in DOMAIN rows |->
       IF r \in old THEN [rows[r] EXCEPT !.status = "SUPERSEDED"] ELSE rows[r]]

(* coordinateAutomaticPlans runs to its end before it runs again.          *)
(* readPendingSheetChange claims the inbox, if it is due.                  *)
Tick ==
    /\ At("timer", "idle")
    /\ IF inbox.pending /\ inbox.due /\ ~inbox.leased
         THEN inbox' = [inbox EXCEPT !.leased = TRUE] /\ Goto("timer", "inbox")
         ELSE UNCHANGED inbox /\ Goto("timer", "pending")
    /\ UNCHANGED <<sheet, clock, runs, shelf, gantry, client, left>>

ReadInbox ==
    /\ At("timer", "inbox")
    /\ proc' = [proc EXCEPT !["timer"].signal = inbox.signal, !["timer"].pc = "sheet"]
    /\ UNCHANGED <<inboxVars, runs, shelf, gantry, client, left>>

(* The Sheet is read, or cannot be: then the change stays pending and is   *)
(* due again later.                                                        *)
ReadSheet ==
    /\ At("timer", "sheet")
    /\ \/ /\ proc' = [proc EXCEPT !["timer"].plan = PlanFor(sheet.day),
                                  !["timer"].pc = "settle"]
          /\ UNCHANGED <<inbox, left>>
       \/ /\ Disturbed
          /\ inbox' = [inbox EXCEPT !.due = FALSE, !.leased = FALSE]
          /\ proc' = [proc EXCEPT !["timer"] = [Idle EXCEPT !.pc = "pending"]]
    /\ UNCHANGED <<sheet, clock, runs, shelf, gantry, client>>

(* No newer signal came while the Sheet was read.                          *)
Unanswered == inbox.signal = proc["timer"].signal

(* The transaction: the change is settled, and a plan that differs from    *)
(* the last one read replaces what waits in the queue.                     *)
Settle ==
    /\ At("timer", "settle")
    /\ LET plan == proc["timer"].plan
           kept == Superseded(runs, {r \in DOMAIN runs : Waiting(r)})
       IN IF Unanswered
            THEN /\ inbox' = [inbox EXCEPT !.pending = FALSE, !.due = FALSE,
                                           !.last = plan, !.leased = FALSE]
                 /\ runs' = IF inbox.last = plan THEN runs
                            ELSE Append(kept, NewRun(TRUE, plan, FALSE))
            ELSE /\ inbox' = [inbox EXCEPT !.leased = FALSE]
                 /\ UNCHANGED runs
    /\ proc' = [proc EXCEPT !["timer"] = [Idle EXCEPT !.pc = "pending"]]
    /\ UNCHANGED <<sheet, clock, shelf, gantry, client, left>>

(* Silent runs are recovered.  Then work waits while a change is pending;  *)
(* what was queued for another day is obsolete.                            *)
CheckPending ==
    /\ At("timer", "pending")
    /\ IF inbox.pending THEN Stop("timer") /\ runs' = Recovered
       ELSE /\ runs' = Superseded(Recovered, {r \in DOMAIN runs :
                            Waiting(r) /\ runs[r].plan[1] # sheet.day})
            /\ Goto("timer", "choose")
    /\ UNCHANGED <<inboxVars, shelf, gantry, client, left>>

(* The newest queued run of the day, unless an analysis is under way or    *)
(* the warehouse is not idle.                                              *)
Choose ==
    /\ At("timer", "choose")
    /\ LET queued == {r \in DOMAIN runs : /\ runs[r].auto /\ runs[r].status = "QUEUED"
                                          /\ runs[r].plan[1] = sheet.day}
           newest == Max(queued)
       IN IF queued = {} \/ Active # {} THEN Stop("timer") /\ UNCHANGED runs
          ELSE /\ runs' = Superseded(runs, {r \in DOMAIN runs : Waiting(r) /\ r < newest})
               /\ IF WarehouseIsIdle
                    THEN proc' = [proc EXCEPT !["timer"].pc = "claim",
                                              !["timer"].run = newest]
                    ELSE Stop("timer")
    /\ UNCHANGED <<inboxVars, shelf, gantry, client, left>>

---------------------------------------------------------------------------
(* A client fetches a bin under the hardware lease and brings it back with *)
(* a photo.                                                                *)
ClientFetches ==
    /\ client.does = "nothing" /\ gantry = "free" /\ Disturbed
    /\ \E b \in Bins :
         /\ shelf[b].status = "OCCUPIED"
         /\ shelf' = [shelf EXCEPT ![b].status = "AWAY"]
         /\ client' = [does |-> "fetches", bin |-> b]
    /\ gantry' = "client"
    /\ UNCHANGED <<inboxVars, runs, proc>>

ClientHolds ==
    /\ client.does = "fetches"
    /\ shelf' = [shelf EXCEPT ![client.bin].status = "CHECKED_OUT"]
    /\ client' = [client EXCEPT !.does = "holds"]
    /\ gantry' = "free"
    /\ UNCHANGED <<inboxVars, runs, proc, left>>

ClientReturns ==
    /\ client.does = "holds" /\ gantry = "free"
    /\ shelf' = [shelf EXCEPT ![client.bin].status = "OCCUPIED",
                              ![client.bin].trusted = TRUE]
    /\ client' = [does |-> "nothing", bin |-> NoBin]
    /\ UNCHANGED <<inboxVars, runs, proc, gantry, left>>

Owned == {proc[p].bin : p \in {q \in Workers : At(q, "audit")}} \cup {client.bin}

(* An operator brings a stranded bin home (see Audit and Custody).         *)
Tidy ==
    \E b \in Bins \ Owned :
       /\ shelf[b].status = "AWAY" /\ gantry # "dead"
       /\ shelf' = [shelf EXCEPT ![b].status = "OCCUPIED", ![b].trusted = FALSE]
       /\ UNCHANGED <<inboxVars, runs, proc, gantry, client, left>>

(* Every call of the process is gone; its rows and leases stay.            *)
Restart ==
    /\ Disturbed
    /\ proc # [p \in Workers |-> Idle]
    /\ proc' = [p \in Workers |-> Idle]
    /\ gantry' = IF gantry = "free" THEN "free" ELSE "dead"
    /\ client' = IF client.does = "holds" THEN client
                 ELSE [does |-> "nothing", bin |-> NoBin]
    /\ UNCHANGED <<inboxVars, runs, shelf>>

LeaseExpires ==
    /\ gantry = "dead"
    /\ gantry' = "free"
    /\ UNCHANGED <<inboxVars, runs, proc, shelf, client, left>>

InboxLeaseExpires ==
    /\ inbox.leased /\ proc["timer"].pc \notin {"inbox", "sheet", "settle"}
    /\ inbox' = [inbox EXCEPT !.leased = FALSE]
    /\ UNCHANGED <<sheet, clock, analysisVars>>

(* A run that nobody works on has no heartbeat.                            *)
Silence ==
    \E r \in DOMAIN runs :
       /\ runs[r].active /\ ~runs[r].old
       /\ \A p \in Workers : proc[p].run # r
       /\ runs' = [runs EXCEPT ![r].old = TRUE]
       /\ UNCHANGED <<inboxVars, proc, shelf, gantry, client, left>>

Signal(t) ==
    /\ Record(t)
    /\ UNCHANGED <<runs, proc, shelf, gantry, client, left>>

NewDay ==
    /\ Midnight /\ Disturbed
    /\ UNCHANGED <<runs, proc, shelf, gantry, client>>

Init == InboxInit /\ AnalysisInit

Coordinate ==
    Tick \/ ReadInbox \/ ReadSheet \/ Settle \/ CheckPending \/ Choose \/ Analyse("timer")

Client == ClientHolds \/ ClientReturns

Next ==
    \/ ((Edit \/ OpenSheet) /\ UNCHANGED analysisVars) \/ NewDay
    \/ (\E t \in Times : Signal(t)) \/ (Due /\ UNCHANGED analysisVars)
    \/ Coordinate \/ AskForAnalysis \/ Analyse("request")
    \/ ClientFetches \/ Client \/ Tidy
    \/ Restart \/ LeaseExpires \/ InboxLeaseExpires \/ Silence

Spec == Init /\ [][Next]_vars

(* The server goes on, time passes, the newest signal arrives, the Sheet   *)
(* is opened on a new day, and people bring bins back.  Nothing has to     *)
(* fail, to be edited or to be asked for.                                  *)
FairSpec ==
    /\ Spec
    /\ WF_vars(Coordinate) /\ WF_vars(Analyse("request"))
    /\ WF_vars(Due /\ UNCHANGED analysisVars) /\ WF_vars(LeaseExpires)
    /\ WF_vars(InboxLeaseExpires) /\ WF_vars(Silence)
    /\ WF_vars(Signal(clock)) /\ WF_vars(OpenSheet /\ UNCHANGED analysisVars)
    /\ WF_vars(Client) /\ WF_vars(Tidy)

---------------------------------------------------------------------------
TypeOK == InboxTypeOK /\ AnalysisTypeOK

(* The plan the Sheet ends with is analysed: the last automatic run that   *)
(* was not replaced is about it, and it ends.  No signal that comes while  *)
(* the Sheet is read is lost, no run waits for ever behind a key that a    *)
(* dead process held.                                                      *)
Analysed ==
    LET mine == {r \in DOMAIN runs : runs[r].auto /\ runs[r].status # "SUPERSEDED"}
    IN /\ mine # {} /\ ~inbox.pending
       /\ runs[Max(mine)].plan = PlanFor(sheet.day)
       /\ runs[Max(mine)].status \in Ended

NewestPlanIsAnalysed == <>[]Analysed

============================================================================
