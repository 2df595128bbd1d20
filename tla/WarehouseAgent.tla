--------------------------- MODULE WarehouseAgent ---------------------------
(***************************************************************************)
(* invokeWarehouseAgent and resumeWarehouseAgent.  A turn asks the model;  *)
(* a physical tool the model calls is frozen for the operator's approval.  *)
(* An approval runs the frozen tool under the hardware lease and may freeze *)
(* the next one: the return of the bin it brought, or the next bin owed.   *)
(***************************************************************************)
EXTENDS ApprovalStore

CONSTANTS
    Calls,      \* requests the server works on at once
    Plan,       \* the bins the requirements of a materials plan select
    Ideas,      \* what the model may call of its own accord: Idea
    MaxMisses,  \* bound: tools that end without success
    MaxFaults,  \* bound: restarts, failed requests, lost replies, repeated decisions
    NoCall

Idea ==
    [tool: {"retrieve", "return", "list"}, bin: Bins, rest: Seq(Bins)]
      \cup [tool: {"fulfil"}, bin: {NoBin}, rest: {<<>>}]

ASSUME AgentAssumption ==
    /\ Ideas \subseteq Idea
    /\ IsFiniteSet(Calls) /\ NoCall \notin Calls
    /\ Plan \in Seq(Bins) /\ Plan # <<>>
    /\ \A m, n \in 1..Len(Plan) : Plan[m] = Plan[n] => m = n
    /\ MaxMisses \in Nat /\ MaxFaults \in Nat

Steps ==
    {"idle", "thinking", "lease", "claim", "resume", "settle", "park", "retire",
     "freeze", "insert", "reply", "error"}

NoOffer == [tool |-> "none"]
IdleCall == [kind |-> "none", pc |-> "idle", id |-> 0, turn |-> 0, next |-> NoOffer]

VARIABLES
    call,      \* what each request is doing
    turns,     \* messages received so far
    lease,     \* the approval that holds the hardware lease
    place,     \* where each bin is: on its shelf or at OUTPUT
    checkout,  \* the retrieval movements, by idempotency key
    executed,  \* history: the approvals whose tool has run
    misses, faults

agentVars == <<call, turns, lease, place, checkout, executed, misses, faults>>
worldVars == <<turns, lease, place, checkout, executed, misses, faults>>

NoCheckout == [bin |-> NoBin, status |-> "none"]

AgentTypeOK ==
    /\ \A c \in Calls :
         /\ call[c].kind \in {"none", "turn", "approve", "deny"}
         /\ call[c].pc \in Steps /\ call[c].id \in 0..MaxOffers
         /\ call[c].turn \in 0..MaxTurns /\ call[c].next \in Offers \cup {NoOffer}
    /\ turns \in 0..MaxTurns
    /\ lease \in Calls \cup {NoCall}
    /\ place \in [Bins -> {"SHELF", "OUTPUT"}]
    /\ checkout \in [Keys -> [bin: Bins \cup {NoBin}, status: {"none", "COMPLETED", "FAILED"}]]
    /\ executed \subseteq Ids
    /\ misses \in 0..MaxMisses /\ faults \in 0..MaxFaults

AgentInit ==
    /\ call = [c \in Calls |-> IdleCall]
    /\ turns = 0 /\ lease = NoCall
    /\ place = [b \in Bins |-> "SHELF"]
    /\ checkout = [k \in Keys |-> NoCheckout]
    /\ executed = {}
    /\ misses = 0 /\ faults = 0

At(c, pc) == call[c].pc = pc
Goto(c, pc) == call' = [call EXCEPT ![c].pc = pc]
Propose(c, pc, o) == call' = [call EXCEPT ![c].pc = pc, ![c].next = o]
Approved(c) == offers[call[c].id]

Fault == faults < MaxFaults /\ faults' = faults + 1

---------------------------------------------------------------------------
(* What may be frozen next.                                                *)

Key(t, n) == [turn |-> t, item |-> n]

Retrieval(b, queue, words, total, key, auto) ==
    [tool |-> "retrieve", bin |-> b, queue |-> queue, words |-> words,
     total |-> total, key |-> key, auto |-> auto]
Return(b, queue, words, total, key, auto) ==
    [Retrieval(b, queue, words, total, key, auto) EXCEPT !.tool = "return"]

(* The calls the model makes of its own accord.  parkForApproval reads a   *)
(* queue only from an execute_retrieval; the total then counts the call.   *)
Frozen(idea, key) ==
    CASE idea.tool = "fulfil"   -> [Retrieval(NoBin, <<>>, FALSE, 0, key, FALSE) EXCEPT !.tool = "fulfil"]
      [] idea.tool = "return"   -> Return(idea.bin, <<>>, FALSE, 0, key, FALSE)
      [] idea.tool = "retrieve" -> Retrieval(idea.bin, <<>>, FALSE, 0, key, FALSE)
      [] idea.tool = "list"     ->
           Retrieval(idea.bin, idea.rest, TRUE, Len(idea.rest) + 1, key, FALSE)

OwnIdeas(key) == {Frozen(idea, key) : idea \in Ideas}

(* Mutant of ServerSelected: an empty queue counts as none.                *)
QueuedByServer(o) == o.total # 0 /\ ~o.words /\ o.queue # <<>>

(* serverSelectedMaterialsQueue: every item left is a bin code.            *)
ServerSelected(o) == o.total # 0 /\ (~o.words \/ o.queue = <<>>)

(* nextRequestId: the position of the next item in the list.               *)
NextKey(o) == Key(o.key.turn, o.total - Len(o.queue) + 1)

(* The next item of the queue.                                             *)
NextItem(o) == Retrieval(Head(o.queue), Tail(o.queue), o.words, o.total, NextKey(o), FALSE)

(* Mutant of FollowUps: the list goes on whether the return succeeded or   *)
(* not.                                                                    *)
FollowUpsAnyway(o, result) ==
    CASE o.tool \in {"retrieve", "fulfil"} /\ result.ok ->
           {Return(result.bin, result.queue, o.words, result.total, o.key, TRUE)}
      [] o.tool = "return" /\ o.queue # <<>> -> {NextItem(o)} \cup OwnIdeas(o.key)
      [] OTHER -> {NoOffer} \cup OwnIdeas(o.key)

(* What the resumed run asks for after its tool: the return of the bin a   *)
(* retrieval brought, the same return again if it was one of a plan and    *)
(* failed, the next item after a return that succeeded.  A model that asks *)
(* for something itself then keeps the list from going on, and words that  *)
(* name no part end it.                                                    *)
FollowUps(o, result) ==
    CASE o.tool \in {"retrieve", "fulfil"} /\ result.ok ->
           {Return(result.bin, result.queue, o.words, result.total, o.key, TRUE)}
      [] o.tool = "return" /\ ~result.ok /\ ServerSelected(o) ->
           {Return(o.bin, o.queue, o.words, o.total, o.key, TRUE)}
      [] o.tool = "return" /\ result.ok /\ o.queue # <<>> ->
           {NextItem(o)} \cup (IF o.words THEN {NoOffer} ELSE {}) \cup OwnIdeas(o.key)
      [] OTHER -> {NoOffer} \cup OwnIdeas(o.key)

---------------------------------------------------------------------------
(* A turn of the conversation.                                             *)

Think(c) ==
    /\ At(c, "thinking")
    /\ \/ Propose(c, "reply", NoOffer)
       \/ \E o \in OwnIdeas(Key(call[c].turn, 0)) : Propose(c, "park", o)
    /\ UNCHANGED <<storeVars, worldVars>>

(* parkForApproval: the session's older offer goes first.                  *)
Supersede(c) ==
    /\ At(c, "park") /\ entries # {}
    /\ call' = [call EXCEPT ![c].pc = "retire", ![c].id = Oldest(entries)]
    /\ entries' = entries \ {Oldest(entries)}
    /\ UNCHANGED <<offers, row, worldVars>>

(* An older offer that was decided meanwhile does not count: look again.   *)
Retire(c) ==
    /\ At(c, "retire")
    /\ RetireRow(call[c].id)
    /\ Goto(c, IF row[call[c].id] = "PENDING" THEN "freeze" ELSE "park")
    /\ UNCHANGED <<offers, entries, worldVars>>

Freeze(c) ==
    /\ At(c, "freeze") \/ (At(c, "park") /\ entries = {})
    /\ \E overdue \in SUBSET {i \in Ids : row[i] = "PENDING"} :
         Park(call[c].next, overdue)
    /\ call' = [call EXCEPT ![c].pc = "insert", ![c].id = Len(offers) + 1]
    /\ UNCHANGED worldVars

InsertRow(c) ==
    /\ At(c, "insert")
    /\ Insert(call[c].id)
    /\ Goto(c, "reply")
    /\ UNCHANGED <<offers, entries, worldVars>>

---------------------------------------------------------------------------
(* A decision.  An approval waits its turn for the hardware, at most two   *)
(* minutes.                                                                *)

TakeLease(c) ==
    /\ At(c, "lease") /\ lease = NoCall
    /\ lease' = c
    /\ Goto(c, "claim")
    /\ UNCHANGED <<storeVars, turns, place, checkout, executed, misses, faults>>

GiveUpLease(c) ==
    /\ At(c, "lease") /\ lease # NoCall
    /\ Goto(c, "error")
    /\ UNCHANGED <<storeVars, worldVars>>

Claim(c) ==
    /\ At(c, "claim")
    /\ \/ Claimable(call[c].id) /\ Goto(c, "resume") /\ UNCHANGED <<row, entries>>
       \/ ExpireUnclaimable(call[c].id) /\ Goto(c, "error")
    /\ UNCHANGED <<offers, worldVars>>

(* A denial is settled before the run is resumed; what the model asks for  *)
(* then is dropped.                                                        *)
Deny(c) ==
    /\ At(c, "resume") /\ call[c].kind = "deny"
    /\ Settle(call[c].id, "DENIED")
    /\ Propose(c, "reply", NoOffer)
    /\ UNCHANGED <<offers, worldVars>>

(* The tools, as far as the agent sees them: what they do to the bins is   *)
(* the subject of Custody.                                                 *)
Ran(c, result) ==
    /\ \E o \in FollowUps(Approved(c), result) : Propose(c, "settle", o)
    /\ executed' = executed \cup {call[c].id}

Missed == misses < MaxMisses /\ misses' = misses + 1

Failure(o) == [ok |-> FALSE, bin |-> o.bin, queue |-> o.queue, total |-> o.total]

(* executeRetrieval of bin b under key k, which leaves a queue and a total. *)
Retrieve(c, b, k, queue, total) ==
    LET success(bin) == [ok |-> TRUE, bin |-> bin, queue |-> queue, total |-> total]
        stays == UNCHANGED <<place, checkout>>
    IN  IF checkout[k].status # "none"
          THEN /\ Ran(c, IF checkout[k].status = "COMPLETED" THEN success(checkout[k].bin)
                         ELSE Failure(Approved(c)))
               /\ stays /\ UNCHANGED misses
        ELSE IF place[b] # "SHELF"
          THEN Ran(c, Failure(Approved(c))) /\ stays /\ UNCHANGED misses
        ELSE \/ Ran(c, success(b)) /\ UNCHANGED misses
                /\ place' = [place EXCEPT ![b] = "OUTPUT"]
                /\ checkout' = [checkout EXCEPT ![k] = [bin |-> b, status |-> "COMPLETED"]]
             \/ Ran(c, Failure(Approved(c))) /\ Missed
                /\ place' = [place EXCEPT ![b] = "OUTPUT"]
                /\ checkout' = [checkout EXCEPT ![k] = [bin |-> b, status |-> "FAILED"]]
             \/ Ran(c, Failure(Approved(c))) /\ Missed /\ stays

RunRetrieve(c) ==
    LET o == Approved(c) IN
    /\ At(c, "resume") /\ call[c].kind = "approve" /\ o.tool = "retrieve"
    /\ Retrieve(c, o.bin, o.key, o.queue, o.total)
    /\ UNCHANGED <<storeVars, turns, lease, faults>>

(* fulfill_materials_plan: every bin of the plan must be on its shelf, or  *)
(* nothing moves.  The first one is fetched under the first item's key.    *)
RunFulfil(c) ==
    LET o == Approved(c) IN
    /\ At(c, "resume") /\ call[c].kind = "approve" /\ o.tool = "fulfil"
    /\ IF \A n \in 1..Len(Plan) : place[Plan[n]] = "SHELF"
         THEN Retrieve(c, Head(Plan), Key(o.key.turn, 1), Tail(Plan), Len(Plan))
         ELSE Ran(c, Failure(o)) /\ UNCHANGED <<place, checkout, misses>>
    /\ UNCHANGED <<storeVars, turns, lease, faults>>

(* returnCheckedOutBin: a fresh photo, then the way back.                  *)
RunReturn(c) ==
    LET o == Approved(c) IN
    /\ At(c, "resume") /\ call[c].kind = "approve" /\ o.tool = "return"
    /\ \/ /\ place[o.bin] = "OUTPUT"
          /\ Ran(c, [Failure(o) EXCEPT !.ok = TRUE])
          /\ place' = [place EXCEPT ![o.bin] = "SHELF"]
          /\ UNCHANGED misses
       \/ /\ IF place[o.bin] = "OUTPUT" THEN Missed ELSE UNCHANGED misses
          /\ Ran(c, Failure(o))
          /\ UNCHANGED place
    /\ UNCHANGED <<storeVars, turns, lease, checkout, faults>>

SettleApproved(c) ==
    /\ At(c, "settle")
    /\ Settle(call[c].id, "APPROVED")
    /\ Goto(c, IF call[c].next = NoOffer THEN "reply" ELSE "park")
    /\ UNCHANGED <<offers, worldVars>>

(* The model cannot be reached: the request fails where it stands, and an  *)
(* approval it had claimed stays undecided.                                *)
ModelFails(c) ==
    /\ call[c].pc \in {"thinking", "resume", "settle"} /\ call[c].kind # "deny"
    /\ Fault
    /\ Goto(c, "error")
    /\ UNCHANGED <<storeVars, turns, lease, place, checkout, executed, misses>>

============================================================================
