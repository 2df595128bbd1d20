---------------------------- MODULE AgentSession ----------------------------
(***************************************************************************)
(* The operator's page (session.tsx, agent-panel.tsx, approval-card.tsx)   *)
(* with the agent it talks to.  The page asks one thing at a time; while   *)
(* it waits, neither the composer nor the card takes input.                *)
(***************************************************************************)
EXTENDS WarehouseAgent

VARIABLES
    card,      \* the approval on the page, 0 for none
    awaiting   \* the request whose answer the page waits for

pageVars == <<card, awaiting>>
vars == <<storeVars, agentVars, pageVars>>

TypeOK ==
    /\ StoreTypeOK /\ AgentTypeOK
    /\ card \in 0..Len(offers)
    /\ awaiting \in Calls \cup {NoCall}

Init ==
    /\ StoreInit /\ AgentInit
    /\ card = 0 /\ awaiting = NoCall

Begin(c, kind, pc, id, turn) ==
    /\ At(c, "idle")
    /\ call' = [call EXCEPT ![c] = [IdleCall EXCEPT !.kind = kind, !.pc = pc, !.id = id, !.turn = turn]]

Busy == awaiting # NoCall

---------------------------------------------------------------------------
(* The page.                                                               *)

(* A message may be sent while a card waits; the card stays until the      *)
(* answer comes.                                                           *)
Send(c) ==
    /\ ~Busy /\ turns < MaxTurns
    /\ Begin(c, "turn", "thinking", 0, turns + 1)
    /\ turns' = turns + 1
    /\ awaiting' = c
    /\ UNCHANGED <<storeVars, lease, place, checkout, executed, misses, faults, card>>

(* Deciding takes the card away.                                           *)
Decide(c, kind) ==
    /\ ~Busy /\ card # 0
    /\ Begin(c, kind, IF kind = "approve" THEN "lease" ELSE "claim", card, 0)
    /\ card' = 0 /\ awaiting' = c
    /\ UNCHANGED <<storeVars, worldVars>>

Approve(c) == Decide(c, "approve")
Refuse(c) == Decide(c, "deny")

(* The countdown of approval-card.tsx: a retrieval, and a return the       *)
(* server suggested, approve themselves.                                   *)
Automatic(i) == offers[i].auto \/ offers[i].tool = "retrieve"

CountDown == card # 0 /\ Automatic(card) /\ \E c \in Calls : Approve(c)

Free(c) == lease' = IF lease = c THEN NoCall ELSE lease

(* The answer: an offer puts a new card on the page, any other answer      *)
(* takes away whatever card is there.  Nobody listens to a lost request.   *)
Reply(c) ==
    /\ At(c, "reply")
    /\ call' = [call EXCEPT ![c] = IdleCall]
    /\ Free(c)
    /\ IF awaiting = c
         THEN /\ card' = IF call[c].next = NoOffer THEN 0 ELSE call[c].id
              /\ awaiting' = NoCall
         ELSE UNCHANGED pageVars
    /\ UNCHANGED <<storeVars, turns, place, checkout, executed, misses, faults>>

(* A failure leaves the card of a message alone.                           *)
Error(c) ==
    /\ At(c, "error")
    /\ call' = [call EXCEPT ![c] = IdleCall]
    /\ Free(c)
    /\ awaiting' = IF awaiting = c THEN NoCall ELSE awaiting
    /\ UNCHANGED <<storeVars, turns, place, checkout, executed, misses, faults, card>>

---------------------------------------------------------------------------
(* What goes wrong around them.                                            *)

(* The connection breaks; the server works on.                             *)
LoseAnswer ==
    /\ Busy /\ Fault
    /\ awaiting' = NoCall
    /\ UNCHANGED <<storeVars, call, turns, lease, place, checkout, executed, misses, card>>

Reload ==
    /\ Busy \/ card # 0
    /\ Fault
    /\ awaiting' = NoCall /\ card' = 0
    /\ UNCHANGED <<storeVars, call, turns, lease, place, checkout, executed, misses>>

(* A decision is submitted again, or another one for the same approval.    *)
DecideAgain(c) ==
    /\ Fault
    /\ \E i \in 1..Len(offers), kind \in {"approve", "deny"} :
         /\ row[i] # "none"
         /\ Begin(c, kind, IF kind = "approve" THEN "lease" ELSE "claim", i, 0)
    /\ UNCHANGED <<storeVars, turns, lease, place, checkout, executed, misses, pageVars>>

Restart ==
    /\ Fault
    /\ entries' = {}
    /\ call' = [c \in Calls |-> IdleCall]
    /\ lease' = NoCall
    /\ awaiting' = NoCall
    /\ UNCHANGED <<offers, row, turns, place, checkout, executed, misses, card>>

---------------------------------------------------------------------------
Work(c) ==
    \/ Think(c) \/ Supersede(c) \/ Retire(c) \/ Freeze(c) \/ InsertRow(c)
    \/ TakeLease(c) \/ GiveUpLease(c) \/ Claim(c) \/ Deny(c)
    \/ RunRetrieve(c) \/ RunFulfil(c) \/ RunReturn(c) \/ SettleApproved(c)

Serve(c) == (Work(c) /\ UNCHANGED pageVars) \/ Reply(c) \/ Error(c)

Next ==
    \/ \E c \in Calls :
         Serve(c) \/ (ModelFails(c) /\ UNCHANGED pageVars) \/ Send(c) \/ Approve(c) \/ Refuse(c) \/ DecideAgain(c)
    \/ LoseAnswer \/ Reload \/ Restart

Spec == Init /\ [][Next]_vars

FairSpec == Spec /\ WF_vars(CountDown) /\ \A c \in Calls : WF_vars(Serve(c))

---------------------------------------------------------------------------
(* Properties.                                                             *)

Claimed(i) == \E c \in Calls : call[c].id = i /\ call[c].kind = "approve" /\ At(c, "resume")

(* Undecided, and held by this process.                                    *)
Open(i) == row[i] \in {"none", "PENDING"} /\ i \in entries

Phase(i) ==
    IF i > Len(offers) THEN "none"
    ELSE IF i \in executed THEN "done"
    ELSE IF Claimed(i) THEN (IF Open(i) THEN "authorised" ELSE "crossed")
    ELSE IF Open(i) THEN "offered"
    ELSE "refused"

Gate == INSTANCE Authorisation WITH Offers <- Ids, phase <- [i \in Ids |-> Phase(i)]

(* An action runs only if an approval claimed its offer while that was     *)
(* still undecided and held by this process; an offer denied, replaced,    *)
(* swept or forgotten in a restart before an approval has claimed it never *)
(* runs, however requests cross later.  One refused after the claim may    *)
(* run: see DeniedNeverRuns.                                               *)
ApprovalAuthorises == Gate!Spec

(* "Settle first: the tool must not be reachable even if resume            *)
(* misbehaves" (warehouse-agent.ts 1534): once an offer's row says DENIED, *)
(* its tool is not run.  Violated: claimApproval reads the row and takes   *)
(* nothing, so that an approval claims the offer, a denial that came with  *)
(* it claims and settles it, and the approval then runs the tool.          *)
DeniedNeverRuns ==
    [][\A i \in Ids : i \in executed' \ executed => row[i] # "DENIED"]_vars

Planned(o) == o.total # 0 /\ ~o.words

(* "never offer another bin while this one is still at OUTPUT": the bin     *)
(* offered next is the next of the plan, under that item's key; and the    *)
(* bin brought for the item before it is back on its shelf.                *)
NextBinWaitsForReturn ==
    [][\A c \in Calls : LET o == call[c].next IN
         (Freeze(c) /\ Planned(o) /\ o.tool = "retrieve") =>
            LET before == checkout[Key(o.key.turn, o.key.item - 1)] IN
              /\ o.bin = Plan[o.key.item]
              /\ before.status = "COMPLETED" /\ place[before.bin] = "SHELF"]_vars

(* Once a plan has started, its bins are fetched and returned one by one   *)
(* without anybody's help, unless something interferes.                    *)
Started == \E t \in 1..MaxTurns : checkout[Key(t, 1)].status = "COMPLETED"

Fulfilled ==
    /\ \A n \in 1..Len(Plan) : \E t \in 1..MaxTurns :
         checkout[Key(t, n)] = [bin |-> Plan[n], status |-> "COMPLETED"]
    /\ \A n \in 1..Len(Plan) : place[Plan[n]] = "SHELF"

Interfered ==
    \/ turns > 1 \/ faults > 0
    \/ Len(offers) = MaxOffers /\ \E c \in Calls : At(c, "park")
    \/ \E i \in Ids : row[i] \in {"DENIED", "EXPIRED"}
    \/ \E i \in executed : offers[i].tool = "retrieve" /\ checkout[offers[i].key].status # "COMPLETED"
    \/ \E i \in 2..Len(offers) : ~Planned(offers[i])

PlanIsFulfilled == Started ~> Fulfilled \/ Interfered

============================================================================
