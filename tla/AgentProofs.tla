----------------------------- MODULE AgentProofs -----------------------------
(***************************************************************************)
(* Proofs about the approval gate, for any bins, plans and requests and    *)
(* whatever the model calls: every step of the agent and its page          *)
(* implements Authorisation.  The gate has no lock of its own.  What holds *)
(* it together is that approvals are numbered as they are frozen, that an  *)
(* entry never comes back to the map, and that a row, once written, is     *)
(* never unwritten; so a request that arrives late finds its approval gone *)
(* or decided.  It holds until a request has claimed the approval: what is *)
(* refused after that is the crossed phase, from which the tool still runs *)
(* (AgentSession!DeniedNeverRuns says otherwise, and is violated).         *)
(***************************************************************************)
EXTENDS AgentSession, FiniteSetTheorems, TLAPS

CallFields == {"kind", "pc", "id", "turn", "next"}

Shape ==
    /\ offers \in Seq({offers[i] : i \in 1 .. Len(offers)})
    /\ Len(offers) <= MaxOffers
    /\ DOMAIN row = Ids
    /\ DOMAIN call = Calls
    /\ \A c \in Calls : DOMAIN call[c] = CallFields

Known == 1 .. Len(offers)

(* Whatever is held or has run was frozen before.                          *)
OffersAreKnown ==
    /\ entries \subseteq Known
    /\ executed \subseteq Known
    /\ \A i \in Ids : row[i] # "none" => i \in Known

(* A request that has claimed an approval found its row written.           *)
HolderFoundRow ==
    \A c \in Calls :
      At(c, "resume") \/ At(c, "settle") =>
        call[c].id \in Ids /\ call[c].id \in Known /\ row[call[c].id] # "none"

(* A row is about to be written by the one request that froze it.          *)
RowIsAwaited ==
    \A c \in Calls :
      At(c, "insert") =>
        /\ call[c].id \in Ids /\ call[c].id \in Known /\ row[call[c].id] = "none"
        /\ \A d \in Calls \ {c} : At(d, "insert") => call[d].id # call[c].id

GateInv == Shape /\ OffersAreKnown /\ HolderFoundRow /\ RowIsAwaited

---------------------------------------------------------------------------
(* The step of one request.                                                *)
Moves(c, pc, id) ==
    /\ DOMAIN call' = Calls /\ DOMAIN call'[c] = CallFields
    /\ call'[c].pc = pc /\ call'[c].id = id /\ call'[c].kind = call[c].kind
    /\ \A d \in Calls \ {c} : call'[d] = call[d]

LEMMA GotoMoves ==
  ASSUME Shape, NEW c \in Calls, NEW pc, Goto(c, pc)
  PROVE  Moves(c, pc, call[c].id)
  BY DEF Shape, CallFields, Goto, Moves

LEMMA ProposeMoves ==
  ASSUME Shape, NEW c \in Calls, NEW pc, NEW o, Propose(c, pc, o)
  PROVE  Moves(c, pc, call[c].id)
  BY DEF Shape, CallFields, Propose, Moves

(* A step that leaves the store as it is, of requests that hold nothing.   *)
Idles(d) == call'[d].pc \notin {"resume", "settle", "insert"} /\ DOMAIN call'[d] = CallFields

LEMMA StoreStays ==
  ASSUME GateInv, UNCHANGED <<storeVars, executed>>, DOMAIN call' = Calls,
         \A d \in Calls : call'[d] = call[d] \/ Idles(d)
  PROVE  GateInv'
  BY DEF GateInv, Shape, Known, OffersAreKnown, HolderFoundRow, RowIsAwaited, At, Idles, storeVars, Ids

(* A step of a request that holds nothing new: rows that were written stay *)
(* written, and the others stay unwritten.                                 *)
LEMMA RowsStay ==
  ASSUME GateInv, UNCHANGED offers, DOMAIN row' = Ids, entries' \subseteq entries,
         \A i \in Ids : row'[i] = "none" <=> row[i] = "none",
         NEW c \in Calls, NEW pc, NEW id, Moves(c, pc, id), pc # "insert",
         pc \in {"resume", "settle"} => id \in Ids /\ id \in Known /\ row[id] # "none",
         executed' \subseteq executed \cup {id}, executed' # executed => id \in Known
  PROVE  GateInv'
  <1>1. Known' = Known /\ Shape'
    BY DEF GateInv, Shape, Known, Moves
  <1>2. OffersAreKnown'
    BY <1>1 DEF GateInv, OffersAreKnown
  <1>3. HolderFoundRow'
    BY <1>1 DEF GateInv, HolderFoundRow, At, Moves
  <1>4. RowIsAwaited'
    BY <1>1 DEF GateInv, RowIsAwaited, At, Moves
  <1> QED
    BY <1>1, <1>2, <1>3, <1>4 DEF GateInv

LEMMA OneMore ==
  ASSUME Shape, NEW o, offers' = Append(offers, o)
  PROVE  /\ offers' \in Seq({offers'[i] : i \in 1 .. Len(offers')})
         /\ Len(offers) \in Nat /\ Len(offers') = Len(offers) + 1
  <1> DEFINE S == {offers[i] : i \in 1 .. Len(offers)}
             T == S \cup {o}
  <1>1. offers \in Seq(S) /\ Len(offers) \in Nat
    BY DEF Shape
  <1>2. offers \in Seq(T)
    BY <1>1
  <1>3. offers' \in Seq(T) /\ Len(offers') = Len(offers) + 1
    BY <1>2
  <1>4. /\ \A i \in 1 .. Len(offers) : offers'[i] = offers[i]
        /\ offers'[Len(offers) + 1] = o
    BY <1>2
  <1>5. T = {offers'[i] : i \in 1 .. Len(offers')}
    <2>1. Len(offers) + 1 \in 1 .. Len(offers') /\ 1 .. Len(offers) \subseteq 1 .. Len(offers')
      BY <1>1, <1>3
    <2>2. \A i \in 1 .. Len(offers') : i \in 1 .. Len(offers) \/ i = Len(offers) + 1
      BY <1>1, <1>3
    <2> QED
      BY <1>4, <2>1, <2>2
  <1> QED
    BY <1>1, <1>3, <1>5

LEMMA FreezeInv ==
  ASSUME GateInv, NEW c \in Calls, Freeze(c)
  PROVE  GateInv'
  <1>1. PICK overdue \in SUBSET {i \in Ids : row[i] = "PENDING"} : Park(call[c].next, overdue)
    BY DEF Freeze
  <1> DEFINE n == Len(offers) + 1
  <1>2. /\ offers' \in Seq({offers'[i] : i \in 1 .. Len(offers')})
        /\ Len(offers) \in Nat /\ Len(offers') = n
    BY <1>1, OneMore DEF GateInv, Park
  <1>3. n <= MaxOffers /\ n \in Ids /\ n \notin Known /\ n \in Known' /\ Known \subseteq Known'
    BY <1>1, <1>2, ApprovalAssumption DEF Park, Known, Ids
  <1>4. /\ DOMAIN call' = Calls /\ DOMAIN call'[c] = CallFields
        /\ call'[c].pc = "insert" /\ call'[c].id = n
        /\ \A d \in Calls \ {c} : call'[d] = call[d]
    BY DEF GateInv, Shape, CallFields, Freeze
  <1>5. /\ DOMAIN row' = Ids /\ \A i \in Ids : row'[i] = "none" <=> row[i] = "none"
        /\ entries' \subseteq entries \cup {n} /\ executed' = executed
    BY <1>1 DEF Park, Freeze, worldVars
  <1> HIDE DEF n
  <1>6. Shape'
    BY <1>2, <1>3, <1>4, <1>5 DEF GateInv, Shape
  <1>7. OffersAreKnown'
    BY <1>3, <1>5 DEF GateInv, OffersAreKnown
  <1>8. HolderFoundRow'
    BY <1>3, <1>4, <1>5 DEF GateInv, HolderFoundRow, At
  <1>9. RowIsAwaited'
    BY <1>3, <1>4, <1>5 DEF GateInv, RowIsAwaited, OffersAreKnown, At
  <1> QED
    BY <1>6, <1>7, <1>8, <1>9 DEF GateInv

LEMMA InsertRowInv ==
  ASSUME GateInv, NEW c \in Calls, InsertRow(c)
  PROVE  GateInv'
  <1>1. /\ Moves(c, "reply", call[c].id) /\ At(c, "insert")
        /\ UNCHANGED <<offers, entries, executed>>
        /\ row' = [row EXCEPT ![call[c].id] = "PENDING"]
    BY GotoMoves DEF GateInv, InsertRow, Insert, worldVars
  <1>2. Known' = Known /\ Shape'
    BY <1>1 DEF GateInv, Shape, Known, Moves
  <1>3. OffersAreKnown'
    BY <1>1, <1>2 DEF GateInv, OffersAreKnown, RowIsAwaited, Shape
  <1>4. HolderFoundRow'
    BY <1>1, <1>2 DEF GateInv, HolderFoundRow, Shape, At, Moves
  <1>5. RowIsAwaited'
    BY <1>1, <1>2 DEF GateInv, RowIsAwaited, Shape, At, Moves
  <1> QED
    BY <1>2, <1>3, <1>4, <1>5 DEF GateInv

---------------------------------------------------------------------------
(* A tool that is run ends, with a result.                                 *)
LEMMA RunsTool ==
  ASSUME NEW c \in Calls, RunRetrieve(c) \/ RunFulfil(c) \/ RunReturn(c)
  PROVE  \E result : Ran(c, result)
  <1>1. ASSUME NEW b, NEW k, NEW queue, NEW total, Retrieve(c, b, k, queue, total)
        PROVE  \E result : Ran(c, result)
    BY <1>1 DEF Retrieve
  <1> QED
    BY <1>1 DEF RunRetrieve, RunFulfil, RunReturn

LEMMA ServeInv ==
  ASSUME GateInv, NEW c \in Calls, Serve(c)
  PROVE  GateInv'
  <1> USE DEF worldVars, storeVars
  <1>1. CASE Think(c) \/ TakeLease(c) \/ GiveUpLease(c)
    <2>1. \E pc \in {"reply", "park", "claim", "error"} : Moves(c, pc, call[c].id)
      BY <1>1, GotoMoves, ProposeMoves DEF GateInv, Think, TakeLease, GiveUpLease
    <2> QED
      BY <1>1, <2>1, StoreStays DEF Moves, Idles, Think, TakeLease, GiveUpLease
  <1>2. CASE Reply(c) \/ Error(c)
    BY <1>2, StoreStays DEF Reply, Error, Idles, GateInv, Shape, IdleCall, CallFields
  <1>3. CASE Supersede(c)
    <2>1. Moves(c, "retire", Oldest(entries))
      BY <1>3 DEF GateInv, Shape, CallFields, Supersede, Moves
    <2> QED
      BY <1>3, <2>1, RowsStay DEF Supersede, GateInv, Shape
  <1>4. CASE Retire(c)
    <2>1. \E pc \in {"freeze", "park"} : Moves(c, pc, call[c].id)
      BY <1>4, GotoMoves DEF GateInv, Retire
    <2>2. DOMAIN row' = Ids /\ \A i \in Ids : row'[i] = "none" <=> row[i] = "none"
      BY <1>4 DEF Retire, RetireRow, GateInv, Shape
    <2> QED
      BY <1>4, <2>1, <2>2, RowsStay DEF Retire
  <1>5. CASE Freeze(c)
    BY <1>5, FreezeInv
  <1>6. CASE InsertRow(c)
    BY <1>6, InsertRowInv
  <1>7. CASE Claim(c)
    <2> DEFINE i == call[c].id
    <2>1. CASE Claimable(i) /\ Goto(c, "resume") /\ UNCHANGED <<row, entries>>
      <3>1. Moves(c, "resume", i) /\ UNCHANGED <<storeVars, executed>>
        BY <1>7, <2>1, GotoMoves DEF GateInv, Claim
      <3>2. i \in Known /\ row[i] = "PENDING"
        BY <2>1 DEF Claimable, GateInv, OffersAreKnown
      <3>3. i \in Ids
        BY <3>2, ApprovalAssumption DEF GateInv, Shape, Known, Ids
      <3>4. /\ UNCHANGED offers /\ DOMAIN row' = Ids /\ entries' \subseteq entries
            /\ \A j \in Ids : row'[j] = "none" <=> row[j] = "none"
            /\ executed' \subseteq executed \cup {i} /\ row[i] # "none"
        BY <3>1, <3>2 DEF GateInv, Shape
      <3> HIDE DEF i
      <3> QED
        BY <3>1, <3>2, <3>3, <3>4, RowsStay
    <2>2. CASE ExpireUnclaimable(i) /\ Goto(c, "error")
      <3>1. Moves(c, "error", i) /\ UNCHANGED <<offers, executed>>
        BY <1>7, <2>2, GotoMoves DEF GateInv, Claim
      <3>2. /\ DOMAIN row' = Ids /\ entries' \subseteq entries
            /\ \A j \in Ids : row'[j] = "none" <=> row[j] = "none"
        BY <2>2 DEF ExpireUnclaimable, GateInv, Shape
      <3> QED
        BY <3>1, <3>2, RowsStay
    <2> QED
      BY <1>7, <2>1, <2>2 DEF Claim
  <1>8. CASE Deny(c)
    <2>1. Moves(c, "reply", call[c].id) /\ UNCHANGED <<offers, executed>>
      BY <1>8, ProposeMoves DEF GateInv, Deny
    <2>2. /\ DOMAIN row' = Ids /\ entries' \subseteq entries
          /\ \A j \in Ids : row'[j] = "none" <=> row[j] = "none"
      BY <1>8 DEF Deny, Settle, GateInv, Shape, HolderFoundRow
    <2> QED
      BY <2>1, <2>2, RowsStay
  <1>9. CASE RunRetrieve(c) \/ RunFulfil(c) \/ RunReturn(c)
    <2>1. PICK result : Ran(c, result)
      BY <1>9, RunsTool
    <2>2. Moves(c, "settle", call[c].id) /\ executed' = executed \cup {call[c].id}
      BY <2>1, ProposeMoves DEF GateInv, Ran
    <2>3. At(c, "resume") /\ UNCHANGED storeVars
      BY <1>9 DEF RunRetrieve, RunFulfil, RunReturn
    <2> QED
      BY <2>2, <2>3, RowsStay DEF GateInv, HolderFoundRow, Shape
  <1>10. CASE SettleApproved(c)
    <2>1. (\E pc \in {"reply", "park"} : Moves(c, pc, call[c].id)) /\ UNCHANGED <<offers, executed>>
      BY <1>10, GotoMoves DEF GateInv, SettleApproved
    <2>2. /\ DOMAIN row' = Ids /\ entries' \subseteq entries
          /\ \A j \in Ids : row'[j] = "none" <=> row[j] = "none"
      BY <1>10 DEF SettleApproved, Settle, GateInv, Shape, HolderFoundRow
    <2> QED
      BY <2>1, <2>2, RowsStay
  <1> QED
    BY <1>1, <1>2, <1>3, <1>4, <1>5, <1>6, <1>7, <1>8, <1>9, <1>10 DEF Serve, Work

LEMMA ModelFailsInv ==
  ASSUME GateInv, NEW c \in Calls, ModelFails(c)
  PROVE  GateInv'
  <1>1. Moves(c, "error", call[c].id)
    BY GotoMoves DEF GateInv, ModelFails
  <1> QED
    BY <1>1, StoreStays DEF ModelFails, Moves, Idles, storeVars

LEMMA Begins ==
  ASSUME Shape, NEW c \in Calls, NEW kind, NEW pc, NEW id, NEW turn,
         pc \in {"thinking", "lease", "claim"}, Begin(c, kind, pc, id, turn)
  PROVE  /\ At(c, "idle") /\ Idles(c) /\ call'[c].pc = pc
         /\ DOMAIN call' = Calls /\ \A d \in Calls \ {c} : call'[d] = call[d]
  BY DEF Shape, CallFields, Begin, IdleCall, Idles, At

LEMMA BeginIdles ==
  ASSUME Shape, NEW c \in Calls, Send(c) \/ Approve(c) \/ Refuse(c) \/ DecideAgain(c)
  PROVE  /\ At(c, "idle") /\ Idles(c) /\ UNCHANGED <<storeVars, executed>>
         /\ DOMAIN call' = Calls /\ \A d \in Calls \ {c} : call'[d] = call[d]
  <1>1. CASE Send(c)
    BY <1>1, Begins DEF Send
  <1>2. CASE Approve(c)
    BY <1>2, Begins DEF Approve, Decide, worldVars
  <1>3. CASE Refuse(c)
    BY <1>3, Begins DEF Refuse, Decide, worldVars
  <1>4. CASE DecideAgain(c)
    <2>1. PICK i \in 1 .. Len(offers), kind \in {"approve", "deny"} :
            Begin(c, kind, IF kind = "approve" THEN "lease" ELSE "claim", i, 0)
      BY <1>4 DEF DecideAgain
    <2> QED
      BY <1>4, <2>1, Begins DEF DecideAgain
  <1> QED
    BY <1>1, <1>2, <1>3, <1>4

LEMMA BeginInv ==
  ASSUME GateInv, NEW c \in Calls, Send(c) \/ Approve(c) \/ Refuse(c) \/ DecideAgain(c)
  PROVE  GateInv'
  BY BeginIdles, StoreStays DEF GateInv

LEMMA FaultsInv ==
  ASSUME GateInv, LoseAnswer \/ Reload \/ Restart \/ UNCHANGED vars
  PROVE  GateInv'
  <1>1. CASE LoseAnswer \/ Reload \/ UNCHANGED vars
    BY <1>1, StoreStays DEF LoseAnswer, Reload, vars, agentVars, storeVars, GateInv, Shape
  <1>2. CASE Restart
    BY <1>2 DEF Restart, IdleCall, CallFields, GateInv, Shape, Known, OffersAreKnown,
                HolderFoundRow, RowIsAwaited, At
  <1> QED
    BY <1>1, <1>2

LEMMA GateStep ==
  ASSUME GateInv, [Next]_vars
  PROVE  GateInv'
  BY ServeInv, ModelFailsInv, BeginInv, FaultsInv DEF Next

LEMMA GateInit ==
  ASSUME Init
  PROVE  GateInv
  <1>1. offers = <<>> /\ Len(offers) = 0 /\ 0 <= MaxOffers
    BY ApprovalAssumption DEF Init, StoreInit
  <1>2. offers \in Seq({offers[i] : i \in 1 .. Len(offers)})
    BY <1>1
  <1> QED
    BY <1>1, <1>2 DEF Init, StoreInit, AgentInit, IdleCall, CallFields, GateInv, Shape, Known,
         OffersAreKnown, HolderFoundRow, RowIsAwaited, At

(* No approval is reused.                                                  *)
THEOREM ApprovalsAreNotReused == Spec => []GateInv
  BY GateInit, GateStep, PTL DEF Spec

---------------------------------------------------------------------------
(* What a step of the agent is to the gate.                                *)
phase == [i \in Ids |-> Phase(i)]

LEMMA PhasesTurn ==
  ASSUME NEW from, NEW to,
         \A i \in Ids : Phase(i)' = Phase(i) \/ (Phase(i) \in from /\ Phase(i)' = to)
  PROVE  Gate!Turns(from, to) \/ phase' = phase
  <1> DEFINE S == {i \in Ids : Phase(i)' # Phase(i)}
  <1>1. CASE S = {}
    BY <1>1 DEF phase
  <1>2. CASE S # {}
    <2>1. phase' = [i \in Ids |-> IF i \in S THEN to ELSE phase[i]]
      BY DEF phase
    <2>2. \A i \in S : phase[i] \in from
      BY DEF phase
    <2>3. S \in SUBSET Ids
      OBVIOUS
    <2> HIDE DEF S
    <2> QED
      BY <1>2, <2>1, <2>2, <2>3 DEF Gate!Turns, phase
  <1> QED
    BY <1>1, <1>2

(* A request that holds no approval before the step and none after it.     *)
LEMMA ClaimsStay ==
  ASSUME NEW c \in Calls, \A d \in Calls \ {c} : call'[d] = call[d],
         call[c].pc # "resume" \/ call[c].kind # "approve",
         call'[c].pc # "resume" \/ call'[c].kind # "approve"
  PROVE  \A i \in Ids : Claimed(i)' <=> Claimed(i)
  BY DEF Claimed, At

(* Offers are refused, or crossed where an approval has claimed them.      *)
LEMMA GateRefuses ==
  ASSUME UNCHANGED <<offers, executed>>,
         \A i \in Ids : Claimed(i)' <=> Claimed(i),
         \A i \in Ids : Open(i)' => Open(i)
  PROVE  [Gate!Next]_phase
  <1> DEFINE gone == {i \in Ids : Phase(i)' # Phase(i)}
  <1>1. \A i \in Ids : Phase(i)' = Phase(i) \/ Phase(i)' = Gate!Refused(Phase(i))
    BY DEF Phase, Gate!Refused
  <1>2. gone \in SUBSET Ids
    OBVIOUS
  <1>3. phase' = [i \in Ids |-> IF i \in gone THEN Gate!Refused(phase[i]) ELSE phase[i]]
    BY <1>1 DEF phase
  <1> HIDE DEF gone
  <1> QED
    BY <1>2, <1>3 DEF Gate!Next, Gate!Refuse, Gate!Refusals, phase

(* All claims are gone, and nothing is held any more.                      *)
LEMMA GateForgets ==
  ASSUME UNCHANGED <<offers, executed>>,
         \A i \in Ids : ~Claimed(i)' /\ ~Open(i)'
  PROVE  [Gate!Next]_phase
  <1> DEFINE alive == {"offered", "authorised", "crossed"}
  <1>1. \A i \in Ids : Phase(i)' = Phase(i) \/ (Phase(i) \in alive /\ Phase(i)' = "refused")
    BY DEF Phase
  <1> HIDE DEF alive
  <1>2. Gate!Turns(alive, "refused") \/ phase' = phase
    BY <1>1, PhasesTurn
  <1> QED
    BY <1>2 DEF alive, Gate!Next, Gate!Forget

(* An approval authorises the offer it claims.                             *)
LEMMA ClaimAuthorises ==
  ASSUME GateInv, NEW c \in Calls, Claim(c)
  PROVE  [Gate!Next]_phase
  <1>0. PICK j : j = call[c].id
    OBVIOUS
  <1>1. CASE Claimable(j) /\ Goto(c, "resume") /\ UNCHANGED <<row, entries>>
    <2>1. Moves(c, "resume", j) /\ UNCHANGED <<offers, row, entries, executed>>
      BY <1>0, <1>1, GotoMoves DEF GateInv, Claim, worldVars
    <2>2. row[j] = "PENDING" /\ j \in entries /\ j \in Known
      BY <1>0, <1>1 DEF Claimable, GateInv, OffersAreKnown
    <2>3. At(c, "claim")
      BY DEF Claim
    <2>4. \A i \in Ids : i # j => (Claimed(i)' <=> Claimed(i))
      BY <1>0, <2>1, <2>3 DEF Moves, Claimed, At
    <2>5. Claimed(j) => Claimed(j)'
      BY <1>0, <2>1, <2>3 DEF Moves, Claimed, At
    <2>6. \A i \in Ids : Phase(i)' = Phase(i) \/ (Phase(i) \in {"offered"} /\ Phase(i)' = "authorised")
      <3> TAKE i \in Ids
      <3>1. CASE i = j
        BY <2>1, <2>2, <2>5, <3>1 DEF Phase, Open
      <3>2. CASE i # j
        BY <2>1, <2>4, <3>2 DEF Phase, Open
      <3> QED
        BY <3>1, <3>2
    <2> QED
      BY <2>6, PhasesTurn DEF Gate!Next, Gate!Authorise
  <1>2. CASE ExpireUnclaimable(j) /\ Goto(c, "error")
    <2>1. Moves(c, "error", j) /\ UNCHANGED <<offers, executed>> /\ At(c, "claim")
      BY <1>0, <1>2, GotoMoves DEF GateInv, Claim, worldVars
    <2>2. \A i \in Ids : Claimed(i)' <=> Claimed(i)
      BY <2>1, ClaimsStay DEF Moves, At
    <2>3. \A i \in Ids : Open(i)' => Open(i)
      BY <1>0, <1>2 DEF ExpireUnclaimable, Open, GateInv, Shape
    <2> QED
      BY <2>1, <2>2, <2>3, GateRefuses
  <1> QED
    BY <1>0, <1>1, <1>2 DEF Claim

(* The tool of an approval runs while the approval holds.                  *)
LEMMA RunIsAuthorised ==
  ASSUME GateInv, NEW c \in Calls, NEW result, Ran(c, result), At(c, "resume"),
         call[c].kind = "approve", UNCHANGED storeVars
  PROVE  [Gate!Next]_phase
  <1>0. PICK j : j = call[c].id
    OBVIOUS
  <1>1. Moves(c, "settle", j) /\ executed' = executed \cup {j}
    BY <1>0, ProposeMoves DEF GateInv, Ran
  <1>2. UNCHANGED <<offers, row, entries>>
    BY DEF storeVars
  <1>3. Claimed(j) /\ j \in Known
    BY <1>0 DEF Claimed, GateInv, HolderFoundRow
  <1>4. \A i \in Ids : i # j => (Claimed(i)' <=> Claimed(i))
    BY <1>0, <1>1 DEF Moves, Claimed, At
  <1>5. ~(j > Len(offers))
    BY <1>3 DEF Known, GateInv, Shape
  <1>6. \A i \in Ids : \/ Phase(i)' = Phase(i)
                       \/ Phase(i) \in {"authorised", "crossed"} /\ Phase(i)' = "done"
    BY <1>1, <1>2, <1>3, <1>4, <1>5 DEF Phase, Open
  <1> QED
    BY <1>6, PhasesTurn DEF Gate!Next, Gate!Run

(* A call that fails lets go of what it had claimed.                       *)
LEMMA FailureWithdraws ==
  ASSUME GateInv, NEW c \in Calls, ModelFails(c)
  PROVE  [Gate!Next]_phase
  <1>0. PICK j : j = call[c].id
    OBVIOUS
  <1>1. Moves(c, "error", j) /\ UNCHANGED <<offers, row, entries, executed>>
    BY <1>0, GotoMoves DEF GateInv, ModelFails, storeVars
  <1>2. \A i \in Ids : i # j => (Claimed(i)' <=> Claimed(i))
    BY <1>0, <1>1 DEF Moves, Claimed, At
  <1>3. Claimed(j)' => Claimed(j)
    BY <1>0, <1>1 DEF Moves, Claimed, At
  <1>4. \A i \in Ids : Open(i)' <=> Open(i)
    BY <1>1 DEF Open
  <1>5. \A i \in Ids \ {j} : Phase(i)' = Phase(i)
    BY <1>1, <1>2, <1>4 DEF Phase
  <1>6. CASE Open(j)
    <2>1. \A i \in Ids : Phase(i)' = Phase(i) \/ (Phase(i) \in {"authorised"} /\ Phase(i)' = "offered")
      BY <1>1, <1>3, <1>4, <1>5, <1>6 DEF Phase
    <2> QED
      BY <2>1, PhasesTurn DEF Gate!Next, Gate!Withdraw
  <1>7. CASE ~Open(j)
    <2>1. \A i \in Ids : \/ Phase(i)' = Phase(i)
                         \/ Phase(i) \in {"offered", "authorised", "crossed"} /\ Phase(i)' = "refused"
      BY <1>1, <1>3, <1>4, <1>5, <1>7 DEF Phase
    <2> QED
      BY <2>1, PhasesTurn DEF Gate!Next, Gate!Forget
  <1> QED
    BY <1>6, <1>7

(* A new offer is made, and what was too old is swept away with it.        *)
LEMMA FreezeOffers ==
  ASSUME GateInv, NEW c \in Calls, Freeze(c)
  PROVE  [Gate!Next]_phase
  <1>1. PICK overdue \in SUBSET {i \in Ids : row[i] = "PENDING"} : Park(call[c].next, overdue)
    BY DEF Freeze
  <1>0. PICK n : n = Len(offers) + 1
    OBVIOUS
  <1>2. Len(offers) \in Nat /\ Len(offers') = n
    BY <1>0, <1>1, OneMore DEF GateInv, Park
  <1>3. n \in Ids /\ n \notin Known
    BY <1>0, <1>1, <1>2, ApprovalAssumption DEF Park, Known, Ids
  <1>4. row[n] = "none" /\ n \notin entries /\ n \notin executed
    BY <1>3 DEF GateInv, OffersAreKnown
  <1>5. /\ At(c, "freeze") \/ At(c, "park")
        /\ call'[c].pc = "insert" /\ executed' = executed
        /\ \A d \in Calls \ {c} : call'[d] = call[d]
    BY <1>0 DEF GateInv, Shape, CallFields, Freeze, worldVars
  <1>6. \A i \in Ids : Claimed(i)' <=> Claimed(i)
    BY <1>5, ClaimsStay DEF At
  <1>7. ~Claimed(n)
    BY <1>3 DEF GateInv, HolderFoundRow, Claimed
  <1>8. /\ overdue \subseteq 1 .. Len(offers) /\ \A i \in overdue : row[i] = "PENDING"
        /\ entries' = (entries \ overdue) \cup {n}
        /\ \A i \in Ids : row'[i] = IF i \in overdue /\ row[i] = "PENDING" THEN "EXPIRED" ELSE row[i]
    BY <1>0, <1>1 DEF Park
  <1>9. n \notin overdue
    BY <1>0, <1>2, <1>8
  <1>10. Phase(n) = "none" /\ Phase(n)' = "offered"
    BY <1>0, <1>2, <1>3, <1>4, <1>5, <1>6, <1>7, <1>8, <1>9 DEF Phase, Open
  <1>11. \A i \in Ids \ {n} : Phase(i)' = Phase(i) \/ Phase(i)' = Gate!Refused(Phase(i))
    <2> TAKE i \in Ids \ {n}
    <2>1. i > Len(offers) <=> i > Len(offers')
      BY <1>0, <1>2, <1>3, ApprovalAssumption DEF Ids
    <2>2. executed' = executed /\ (Claimed(i)' <=> Claimed(i))
      BY <1>5, <1>6
    <2>3. Open(i)' => Open(i)
      BY <1>8 DEF Open
    <2> QED
      BY <2>1, <2>2, <2>3 DEF Phase, Gate!Refused
  <1> DEFINE gone == {i \in Ids : Phase(i)' # Phase(i)} \ {n}
  <1>12. phase' = [i \in Ids |-> IF i \in {n} THEN "offered"
                                 ELSE [k \in Ids |-> IF k \in gone THEN Gate!Refused(phase[k])
                                                     ELSE phase[k]][i]]
    BY <1>3, <1>10, <1>11 DEF phase
  <1>13. /\ {n} \in SUBSET Ids /\ gone \in SUBSET Ids /\ {n} # {}
         /\ \A i \in {n} : phase[i] = "none"
    BY <1>3, <1>10 DEF phase
  <1> HIDE DEF gone
  <1>14. Gate!Offer
    BY <1>12, <1>13 DEF Gate!Offer, Gate!Refusals, phase
  <1> QED
    BY <1>14 DEF Gate!Next

(* What else a request does takes an offer away, or nothing.               *)
LEMMA ServeImplements ==
  ASSUME GateInv, NEW c \in Calls, Serve(c)
  PROVE  [Gate!Next]_phase
  <1> USE DEF worldVars, storeVars
  <1>1. CASE Think(c) \/ TakeLease(c) \/ GiveUpLease(c)
    <2>1. \E pc \in {"reply", "park", "claim", "error"} : Moves(c, pc, call[c].id)
      BY <1>1, GotoMoves, ProposeMoves DEF GateInv, Think, TakeLease, GiveUpLease
    <2>2. call[c].pc # "resume" /\ UNCHANGED <<offers, row, entries, executed>>
      BY <1>1 DEF Think, TakeLease, GiveUpLease, At
    <2> QED
      BY <2>1, <2>2, ClaimsStay, GateRefuses DEF Moves, Open
  <1>2. CASE Reply(c) \/ Error(c)
    <2>1. /\ call[c].pc # "resume" /\ UNCHANGED <<offers, row, entries, executed>>
          /\ call'[c].pc = "idle" /\ \A d \in Calls \ {c} : call'[d] = call[d]
      BY <1>2 DEF Reply, Error, At, GateInv, Shape, IdleCall
    <2> QED
      BY <2>1, ClaimsStay, GateRefuses DEF Open
  <1>3. CASE Supersede(c)
    <2>1. /\ Moves(c, "retire", Oldest(entries)) /\ call[c].pc = "park"
          /\ UNCHANGED <<offers, row, executed>> /\ entries' \subseteq entries
      BY <1>3 DEF GateInv, Shape, CallFields, Supersede, Moves, At
    <2> QED
      BY <2>1, ClaimsStay, GateRefuses DEF Moves, Open
  <1>4. CASE Retire(c)
    <2>1. \E pc \in {"freeze", "park"} : Moves(c, pc, call[c].id)
      BY <1>4, GotoMoves DEF GateInv, Retire
    <2>2. call[c].pc = "retire" /\ UNCHANGED <<offers, entries, executed>>
      BY <1>4 DEF Retire, At
    <2>3. \A i \in Ids : Open(i)' => Open(i)
      BY <1>4 DEF Retire, RetireRow, GateInv, Shape, Open
    <2> QED
      BY <2>1, <2>2, <2>3, ClaimsStay, GateRefuses DEF Moves
  <1>5. CASE InsertRow(c)
    <2>1. Moves(c, "reply", call[c].id) /\ call[c].pc = "insert" /\ UNCHANGED <<offers, executed>>
      BY <1>5, GotoMoves DEF GateInv, InsertRow, At
    <2>2. \A i \in Ids : Open(i)' => Open(i)
      BY <1>5 DEF InsertRow, Insert, GateInv, Shape, Open, RowIsAwaited
    <2>3. \A i \in Ids : Open(i) => Open(i)'
      BY <1>5 DEF InsertRow, Insert, GateInv, Shape, Open
    <2> QED
      BY <2>1, <2>2, <2>3, ClaimsStay, GateRefuses DEF Moves
  <1>6. CASE Deny(c)
    <2>1. /\ Moves(c, "reply", call[c].id) /\ call[c].kind = "deny"
          /\ UNCHANGED <<offers, executed>>
      BY <1>6, ProposeMoves DEF GateInv, Deny
    <2>2. \A i \in Ids : Open(i)' => Open(i)
      BY <1>6 DEF Deny, Settle, GateInv, Shape, Open
    <2> QED
      BY <2>1, <2>2, ClaimsStay, GateRefuses DEF Moves
  <1>7. CASE RunRetrieve(c) \/ RunFulfil(c) \/ RunReturn(c)
    <2>1. PICK result : Ran(c, result)
      BY <1>7, RunsTool
    <2>2. At(c, "resume") /\ call[c].kind = "approve" /\ UNCHANGED storeVars
      BY <1>7 DEF RunRetrieve, RunFulfil, RunReturn
    <2> QED
      BY <2>1, <2>2, RunIsAuthorised
  <1>8. CASE SettleApproved(c)
    <2>1. \E pc \in {"reply", "park"} : Moves(c, pc, call[c].id)
      BY <1>8, GotoMoves DEF GateInv, SettleApproved
    <2>2. call[c].pc = "settle" /\ UNCHANGED <<offers, executed>>
      BY <1>8 DEF SettleApproved, At
    <2>3. \A i \in Ids : Open(i)' => Open(i)
      BY <1>8 DEF SettleApproved, Settle, GateInv, Shape, Open
    <2> QED
      BY <2>1, <2>2, <2>3, ClaimsStay, GateRefuses DEF Moves
  <1> QED
    BY <1>1, <1>2, <1>3, <1>4, <1>5, <1>6, <1>7, <1>8, FreezeOffers, ClaimAuthorises DEF Serve, Work

LEMMA FaultsImplement ==
  ASSUME GateInv, LoseAnswer \/ Reload \/ Restart \/ UNCHANGED vars
  PROVE  [Gate!Next]_phase
  <1>1. CASE LoseAnswer \/ Reload \/ UNCHANGED vars
    <2>1. UNCHANGED <<offers, row, entries, executed, call>>
      BY <1>1 DEF LoseAnswer, Reload, vars, agentVars, storeVars
    <2>2. \A i \in Ids : Claimed(i)' <=> Claimed(i)
      BY <2>1 DEF Claimed, At
    <2> QED
      BY <2>1, <2>2, GateRefuses DEF Open
  <1>2. CASE Restart
    <2>1. UNCHANGED <<offers, executed>> /\ entries' = {} /\ \A c \in Calls : call'[c].pc = "idle"
      BY <1>2 DEF Restart, IdleCall
    <2>2. \A i \in Ids : ~Claimed(i)' /\ ~Open(i)'
      BY <2>1 DEF Claimed, At, Open
    <2> QED
      BY <2>1, <2>2, GateForgets
  <1> QED
    BY <1>1, <1>2

LEMMA StepImplements ==
  ASSUME GateInv, [Next]_vars
  PROVE  [Gate!Next]_phase
  <1>1. ASSUME NEW c \in Calls, Send(c) \/ Approve(c) \/ Refuse(c) \/ DecideAgain(c)
        PROVE  [Gate!Next]_phase
    <2>1. /\ At(c, "idle") /\ Idles(c) /\ UNCHANGED <<offers, row, entries, executed>>
          /\ \A d \in Calls \ {c} : call'[d] = call[d]
      BY <1>1, BeginIdles DEF GateInv, storeVars
    <2> QED
      BY <2>1, ClaimsStay, GateRefuses DEF Idles, At, Open
  <1> QED
    BY <1>1, ServeImplements, FailureWithdraws, FaultsImplement DEF Next

LEMMA StartImplements ==
  ASSUME Init
  PROVE  Gate!Init
  <1>1. Len(offers) = 0
    BY DEF Init, StoreInit
  <1>2. \A i \in Ids : Phase(i) = "none"
    BY <1>1, ApprovalAssumption DEF Phase, Ids
  <1> QED
    BY <1>2 DEF Gate!Init

(* For any bins, plans, requests and faults, and whatever the model asks   *)
(* for, an action runs only if an approval claimed its offer while that    *)
(* was undecided and held; what was refused or forgotten before a claim    *)
(* never runs.  A refusal that comes after the claim does not stop the     *)
(* action (resumeWarehouseAgent, claimApproval, settleApproval).           *)
THEOREM AgentRefinesAuthorisation == Spec => ApprovalAuthorises
  <1>1. Init => Gate!Init
    BY StartImplements
  <1>2. GateInv /\ [Next]_vars => [Gate!Next]_[i \in Ids |-> Phase(i)]
    BY StepImplements DEF phase
  <1> QED
    BY <1>1, <1>2, ApprovalsAreNotReused, PTL DEF Spec, ApprovalAuthorises, Gate!Spec

(***************************************************************************)
(* The bins of a plan.  An offer is frozen with the rest of its plan, and  *)
(* only the tool that runs by itself, under the lease, moves a bin; so     *)
(* what an offer says of the item before it stays true until it is made.   *)
(***************************************************************************)
Sent(out, t, n, b) == out[Key(t, n)].status = "COMPLETED" /\ out[Key(t, n)].bin = b

(* The item of the plan an offer is about: what follows it is owed.        *)
Item(o) == Len(Plan) - Len(o.queue)

(* By the retrievals out: a return is of the bin its item brought, and a   *)
(* retrieval is of the next bin, after one that was brought.               *)
OfPlan(o, out) ==
    /\ Item(o) \in 1 .. Len(Plan) /\ o.total = Len(Plan) /\ o.tool \in {"retrieve", "return"}
    /\ \A i \in 1 .. Len(o.queue) : o.queue[i] = Plan[Item(o) + i]
    /\ o.tool = "return" => o.bin \in Bins /\ Sent(out, o.key.turn, Item(o), o.bin)
    /\ o.tool = "retrieve" =>
         /\ Item(o) > 1 /\ o.key.item = Item(o) /\ o.bin = Plan[Item(o)]
         /\ out[Key(o.key.turn, Item(o) - 1)].status = "COMPLETED"

OfferOK(o, out) ==
    /\ o.tool \in Tools /\ o.queue \in Seq(Bins)
    /\ o.key = Key(o.key.turn, o.key.item) /\ o.key.turn \in 1 .. MaxTurns
    /\ o.tool = "retrieve" => o.bin \in Bins
    /\ Planned(o) => OfPlan(o, out)

(* What a retrieval of the plan's next bin waits for.                      *)
Clear(o, out, where) ==
    o.tool = "retrieve" /\ Planned(o) =>
      where[out[Key(o.key.turn, o.key.item - 1)].bin] = "SHELF"

Working == {"claim", "resume", "settle", "park", "retire", "freeze"}
Offering == {"park", "retire", "freeze"}

RequestOK(c) ==
    /\ call[c].pc = "thinking" => call[c].kind = "turn" /\ call[c].turn \in 1 .. MaxTurns
    /\ call[c].pc \in Working /\ call[c].kind = "approve" => lease = c
    /\ call[c].pc \in Offering => OfferOK(call[c].next, checkout)
    /\ call[c].pc = "settle" /\ call[c].next # NoOffer => OfferOK(call[c].next, checkout)
    /\ call[c].pc \in Offering \cup {"settle"} =>
         \/ Clear(call[c].next, checkout, place) /\ call[c].kind = "approve"
         \/ ~(call[c].next.tool = "retrieve" /\ Planned(call[c].next))

Floor ==
    /\ DOMAIN checkout = Keys /\ DOMAIN place = Bins /\ turns \in 0 .. MaxTurns
    /\ \A k \in Keys : checkout[k].status = "COMPLETED" => checkout[k].bin \in Bins

PlanInv ==
    /\ Floor
    /\ \A i \in Known : OfferOK(offers[i], checkout)
    /\ \A c \in Calls : RequestOK(c)

---------------------------------------------------------------------------
(* The keys of the plan's items.                                           *)
LEMMA PlanLength == Len(Plan) \in Nat /\ Len(Plan) >= 1 /\ Plan \in Seq(Bins)
  BY AgentAssumption

LEMMA PlanFits ==
  /\ Len(Plan) \in Nat \ {0} /\ Plan \in Seq(Bins)
  /\ \A t \in 1 .. MaxTurns, n \in 1 .. Len(Plan) : Key(t, n) \in Keys
  <1>1. Len(Plan) \in Nat \ {0} /\ Plan \in Seq(Bins)
    BY AgentAssumption
  <1>2. Cardinality(Bins) \in Nat
    BY ApprovalAssumption, FS_CardinalityType
  <1>3. Len(Plan) <= Cardinality(Bins)
    <2> SUFFICES ASSUME Cardinality(Bins) < Len(Plan) PROVE FALSE
      BY <1>1, <1>2
    <2> DEFINE f == [n \in 1 .. Len(Plan) |-> Plan[n]]
    <2>1. f \in [1 .. Len(Plan) -> Bins]
      BY <1>1
    <2>2. IsFiniteSet(1 .. Len(Plan)) /\ Cardinality(1 .. Len(Plan)) = Len(Plan)
      BY <1>1, FS_Interval
    <2>3. PICK m \in 1 .. Len(Plan), n \in 1 .. Len(Plan) : m # n /\ f[m] = f[n]
      <3> HIDE DEF f
      <3> QED  BY <2>1, <2>2, ApprovalAssumption, FS_PigeonHole
    <2> QED
      BY <2>3, AgentAssumption
  <1> QED
    BY <1>1, <1>2, <1>3 DEF Key, Keys

(* A retrieval that was carried out stays on record.                       *)
Kept(out, later) == \A k \in Keys : out[k].status = "COMPLETED" => later[k] = out[k]

LEMMA OfferKept ==
  ASSUME NEW o, NEW out, NEW later, Kept(out, later), OfferOK(o, out)
  PROVE  /\ OfferOK(o, later)
         /\ \A where : Clear(o, out, where) => Clear(o, later, where)
  <1>1. CASE ~Planned(o)
    BY <1>1 DEF OfferOK, Clear
  <1>2. CASE Planned(o)
    <2>1. /\ Item(o) \in 1 .. Len(Plan) /\ o.key.turn \in 1 .. MaxTurns
          /\ o.tool = "retrieve" => Item(o) - 1 \in 1 .. Len(Plan) /\ o.key.item = Item(o)
      BY <1>2, PlanFits DEF OfferOK, OfPlan
    <2>2. /\ Key(o.key.turn, Item(o)) \in Keys
          /\ o.tool = "retrieve" => Key(o.key.turn, Item(o) - 1) \in Keys
      BY <2>1, PlanFits
    <2>3. OfPlan(o, later)
      BY <1>2, <2>2 DEF OfferOK, OfPlan, Sent, Kept
    <2>4. o.tool = "retrieve" =>
            later[Key(o.key.turn, o.key.item - 1)] = out[Key(o.key.turn, o.key.item - 1)]
      BY <1>2, <2>1, <2>2 DEF OfferOK, OfPlan, Kept
    <2> QED
      BY <2>3, <2>4 DEF OfferOK, Clear
  <1> QED
    BY <1>1, <1>2

(* What the model asks for itself is of no plan.                           *)
LEMMA OwnIdeasOK ==
  ASSUME NEW t \in 1 .. MaxTurns, NEW n, NEW o \in OwnIdeas(Key(t, n)), NEW out
  PROVE  OfferOK(o, out) /\ ~Planned(o) /\ o # NoOffer
  <1>1. PICK idea \in Ideas : o = Frozen(idea, Key(t, n))
    BY DEF OwnIdeas
  <1>2. idea \in Idea
    BY AgentAssumption
  <1>3. <<>> \in Seq(Bins)
    OBVIOUS
  <1>4. \/ idea.tool \in {"retrieve", "return", "list"} /\ idea.bin \in Bins /\ idea.rest \in Seq(Bins)
        \/ idea.tool = "fulfil"
    BY <1>2 DEF Idea
  <1>5. /\ o.tool \in Tools /\ o.queue \in Seq(Bins) /\ o.key = Key(t, n)
        /\ o.tool = "retrieve" => o.bin \in Bins
        /\ o.total = 0 \/ o.words
    <2>1. CASE idea.tool = "fulfil"
      <3>1. o = [tool |-> "fulfil", bin |-> NoBin, queue |-> <<>>, words |-> FALSE, total |-> 0,
                 key |-> Key(t, n), auto |-> FALSE]
        BY <1>1, <2>1 DEF Frozen, Retrieval
      <3> QED
        BY <1>3, <3>1 DEF Tools
    <2>2. CASE idea.tool = "return"
      <3>1. o = [tool |-> "return", bin |-> idea.bin, queue |-> <<>>, words |-> FALSE, total |-> 0,
                 key |-> Key(t, n), auto |-> FALSE]
        BY <1>1, <2>2 DEF Frozen, Return, Retrieval
      <3> QED
        BY <1>3, <3>1 DEF Tools
    <2>3. CASE idea.tool = "retrieve"
      <3>1. o = [tool |-> "retrieve", bin |-> idea.bin, queue |-> <<>>, words |-> FALSE, total |-> 0,
                 key |-> Key(t, n), auto |-> FALSE]
        BY <1>1, <2>3 DEF Frozen, Retrieval
      <3> QED
        BY <1>3, <1>4, <2>3, <3>1 DEF Tools
    <2>4. CASE idea.tool = "list"
      <3>1. o = [tool |-> "retrieve", bin |-> idea.bin, queue |-> idea.rest, words |-> TRUE,
                 total |-> Len(idea.rest) + 1, key |-> Key(t, n), auto |-> FALSE]
        BY <1>1, <2>4 DEF Frozen, Retrieval
      <3> QED
        BY <1>4, <2>4, <3>1 DEF Tools
    <2> QED
      BY <1>4, <2>1, <2>2, <2>3, <2>4
  <1>6. ~Planned(o)
    BY <1>5 DEF Planned
  <1>7. o # NoOffer
    BY <1>5 DEF NoOffer, Tools
  <1> QED
    BY <1>5, <1>6, <1>7 DEF OfferOK, Key

LEMMA NoOfferTool == NoOffer.tool = "none"
  BY DEF NoOffer

(* What a retrieval that succeeded has brought.                            *)
Brought(o, out, b, rest, sum) ==
    \/ /\ o.tool = "retrieve" /\ rest = o.queue /\ sum = o.total
       /\ Planned(o) => b \in Bins /\ Sent(out, o.key.turn, Item(o), b)
    \/ /\ o.tool = "fulfil" /\ rest = Tail(Plan) /\ sum = Len(Plan)
       /\ b \in Bins /\ Sent(out, o.key.turn, 1, b)

LEMMA ReturnOK ==
  ASSUME NEW o, NEW out, OfferOK(o, out), NEW b, NEW rest, NEW sum, Brought(o, out, b, rest, sum),
         NEW f, f.tool = "return" /\ f.bin = b /\ f.queue = rest /\ f.words = o.words /\ f.total = sum
                /\ f.key = o.key
  PROVE  OfferOK(f, out)
  <1>0. /\ f.tool = "return" /\ f.bin = b /\ f.queue = rest /\ f.words = o.words /\ f.total = sum
        /\ f.key = o.key
    OBVIOUS
  <1>2. CASE o.tool = "retrieve"
    <2>1. rest = o.queue /\ sum = o.total /\ (Planned(o) => b \in Bins /\ Sent(out, o.key.turn, Item(o), b))
      BY <1>2 DEF Brought
    <2>2. f.tool = "return" /\ f.queue = o.queue /\ f.key = o.key /\ Item(f) = Item(o) /\ f.bin = b
      BY <1>0, <2>1, Zenon DEF Item
    <2>3. f.total = o.total /\ (Planned(f) => Planned(o))
      BY <1>0, <2>1, Zenon DEF Planned
    <2>4. Planned(f) => OfPlan(f, out)
      BY <2>1, <2>2, <2>3 DEF OfferOK, OfPlan
    <2> QED
      BY <2>2, <2>4 DEF OfferOK, Tools
  <1>3. CASE o.tool = "fulfil"
    <2>1. rest = Tail(Plan) /\ sum = Len(Plan) /\ b \in Bins /\ Sent(out, o.key.turn, 1, b)
      BY <1>3 DEF Brought
    <2>2. /\ Tail(Plan) \in Seq(Bins) /\ Len(Tail(Plan)) = Len(Plan) - 1
          /\ \A i \in 1 .. Len(Tail(Plan)) : Tail(Plan)[i] = Plan[1 + i]
      BY PlanFits
    <2>3. f.tool = "return" /\ f.queue = Tail(Plan) /\ f.key = o.key /\ f.bin = b /\ f.total = Len(Plan)
      BY <1>0, <2>1, Zenon
    <2>4. Item(f) = 1
      <3>1. Item(f) = Len(Plan) - Len(Tail(Plan))
        BY <2>3, Zenon DEF Item
      <3> QED
        BY <2>2, <3>1, PlanLength
    <2>5. OfPlan(f, out)
      <3>1. \A i \in 1 .. Len(f.queue) : f.queue[i] = Plan[Item(f) + i]
        BY <2>2, <2>3, <2>4, Zenon
      <3>2. Item(f) \in 1 .. Len(Plan)
        BY <2>4, PlanLength
      <3>3. Sent(out, f.key.turn, Item(f), f.bin)
        BY <2>1, <2>3, <2>4, Zenon
      <3> QED
        BY <2>1, <2>3, <3>1, <3>2, <3>3, Zenon DEF OfPlan
    <2> QED
      BY <2>2, <2>3, <2>5 DEF OfferOK, Tools
  <1> QED
    BY <1>2, <1>3 DEF Brought

LEMMA NextPosition ==
  ASSUME NEW n \in Nat, NEW q \in Nat, q # 0, n - q \in 1 .. n
  PROVE  /\ n - (q - 1) = n - q + 1 /\ n - (q - 1) \in 2 .. n
         /\ n - (q - 1) - 1 = n - q
  OBVIOUS

LEMMA RestOfList ==
  ASSUME NEW q \in Seq(Bins), q # <<>>, NEW m \in Nat, \A i \in 1 .. Len(q) : q[i] = Plan[m + i]
  PROVE  Head(q) = Plan[m + 1] /\ \A i \in 1 .. Len(Tail(q)) : Tail(q)[i] = Plan[m + 1 + i]
  <1>1. Head(q) = Plan[m + 1]
    OBVIOUS
  <1>2. ASSUME NEW i \in 1 .. Len(Tail(q)) PROVE Tail(q)[i] = Plan[m + 1 + i]
    <2>1. Tail(q)[i] = q[i + 1] /\ i + 1 \in 1 .. Len(q)
      OBVIOUS
    <2>2. m + (i + 1) = m + 1 + i
      OBVIOUS
    <2> QED
      BY <2>1, <2>2
  <1> QED
    BY <1>1, <1>2

LEMMA NextItemOK ==
  ASSUME NEW o, NEW out, OfferOK(o, out), o.tool = "return", o.queue # <<>>,
         NEW f, /\ f.tool = "retrieve" /\ f.bin = Head(o.queue) /\ f.queue = Tail(o.queue)
                /\ f.words = o.words /\ f.total = o.total
                /\ f.key = Key(o.key.turn, o.total - Len(o.queue) + 1)
  PROVE  /\ OfferOK(f, out)
         /\ Planned(f) => Planned(o) /\ out[Key(f.key.turn, f.key.item - 1)].bin = o.bin
  <1>2. /\ o.queue \in Seq(Bins) /\ Len(o.queue) \in Nat /\ Len(o.queue) # 0 /\ Head(o.queue) \in Bins
        /\ Head(o.queue) = o.queue[1] /\ Tail(o.queue) \in Seq(Bins)
        /\ Len(Tail(o.queue)) = Len(o.queue) - 1
        /\ \A i \in 1 .. Len(Tail(o.queue)) : Tail(o.queue)[i] = o.queue[i + 1]
    BY DEF OfferOK
  <1>3. /\ f.tool = "retrieve" /\ f.bin = Head(o.queue) /\ f.queue = Tail(o.queue) /\ f.total = o.total
        /\ f.key.turn = o.key.turn /\ f.key.item = o.total - Len(o.queue) + 1
        /\ f.key = Key(f.key.turn, f.key.item) /\ (Planned(f) => Planned(o))
    BY DEF Key, Planned
  <1>4. ASSUME Planned(f)
        PROVE  OfPlan(f, out) /\ out[Key(f.key.turn, f.key.item - 1)].bin = o.bin
    <2>1. OfPlan(o, out)
      BY <1>3, <1>4 DEF OfferOK
    <2>0. /\ Item(f) = Len(Plan) - Len(Tail(o.queue)) /\ Item(o) = Len(Plan) - Len(o.queue)
          /\ Item(o) \in 1 .. Len(Plan) /\ o.total = Len(Plan)
      BY <1>3, <2>1, Zenon DEF Item, OfPlan
    <2>2. Item(f) = Item(o) + 1 /\ Item(f) \in 2 .. Len(Plan) /\ Item(f) - 1 = Item(o)
      <3>1. Len(Plan) \in Nat
        BY PlanLength, Zenon
      <3>2. Len(o.queue) \in Nat /\ Len(o.queue) # 0 /\ Len(Plan) - Len(o.queue) \in 1 .. Len(Plan)
        BY <1>2, <2>0, Zenon
      <3>3. /\ Len(Plan) - (Len(o.queue) - 1) = Len(Plan) - Len(o.queue) + 1
            /\ Len(Plan) - (Len(o.queue) - 1) \in 2 .. Len(Plan)
            /\ Len(Plan) - (Len(o.queue) - 1) - 1 = Len(Plan) - Len(o.queue)
        BY <3>1, <3>2, NextPosition, Zenon
      <3>4. Item(f) = Len(Plan) - (Len(o.queue) - 1)
        BY <1>2, <2>0, Zenon
      <3> QED
        BY <2>0, <3>3, <3>4, Zenon
    <2>3. f.key.item = Item(f) /\ f.key.item - 1 = Item(o) /\ Item(f) - 1 = Item(o)
      BY <1>3, <2>0, <2>2, Zenon
    <2>4. f.bin = Plan[Item(f)] /\ \A i \in 1 .. Len(f.queue) : f.queue[i] = Plan[Item(f) + i]
      <3>1. \A i \in 1 .. Len(o.queue) : o.queue[i] = Plan[Item(o) + i]
        BY <2>1, Zenon DEF OfPlan
      <3>2. Item(o) \in Nat
        BY <2>0
      <3>3. /\ Head(o.queue) = Plan[Item(o) + 1]
            /\ \A i \in 1 .. Len(Tail(o.queue)) : Tail(o.queue)[i] = Plan[Item(o) + 1 + i]
        BY <1>2, <3>1, <3>2, RestOfList, Zenon
      <3> QED
        BY <1>3, <2>2, <3>3, Zenon
    <2>6. Sent(out, f.key.turn, Item(o), o.bin)
      BY <1>3, <2>1 DEF OfPlan
    <2>7. Item(f) \in 1 .. Len(Plan) /\ Item(f) > 1
      BY <2>2, PlanLength
    <2> QED
      BY <1>3, <2>0, <2>3, <2>4, <2>6, <2>7, Zenon DEF OfPlan, Sent
  <1> QED
    BY <1>2, <1>3, <1>4 DEF OfferOK, Tools

(* What the result of a tool says of the bins.                             *)
Truthful(o, result, out, where) ==
    /\ result.ok \in BOOLEAN
    /\ result.ok /\ o.tool \in {"retrieve", "fulfil"} =>
         Brought(o, out, result.bin, result.queue, result.total)
    /\ result.ok /\ o.tool = "return" /\ Planned(o) => where[o.bin] = "SHELF"

(* What is asked for after a tool.                                         *)
LEMMA FollowUpsOK ==
  ASSUME NEW o, NEW out, NEW where, OfferOK(o, out), NEW result, Truthful(o, result, out, where),
         NEW f \in FollowUps(o, result)
  PROVE  (f # NoOffer => OfferOK(f, out)) /\ Clear(f, out, where)
  <1> USE DEF Truthful
  <1>1. ASSUME f \in {NoOffer} \cup OwnIdeas(o.key)
        PROVE  (f # NoOffer => OfferOK(f, out)) /\ Clear(f, out, where)
    <2>1. CASE f = NoOffer
      BY <2>1 DEF NoOffer, Clear
    <2>2. CASE f \in OwnIdeas(o.key)
      BY <2>2, OwnIdeasOK DEF OfferOK, Clear
    <2> QED
      BY <1>1, <2>1, <2>2
  <1>2. CASE o.tool \in {"retrieve", "fulfil"} /\ result.ok
    <2>1. f = Return(result.bin, result.queue, o.words, result.total, o.key, TRUE)
      BY <1>2 DEF FollowUps
    <2>2. /\ f.tool = "return" /\ f.bin = result.bin /\ f.queue = result.queue /\ f.words = o.words
          /\ f.total = result.total /\ f.key = o.key
      BY <2>1 DEF Return, Retrieval
    <2> QED
      BY <1>2, <2>2, ReturnOK DEF Clear
  <1>3. CASE o.tool = "return" /\ ~result.ok /\ ServerSelected(o)
    <2>1. f = Return(o.bin, o.queue, o.words, o.total, o.key, TRUE)
      BY <1>3 DEF FollowUps
    <2>2. f = [tool |-> "return", bin |-> o.bin, queue |-> o.queue, words |-> o.words, total |-> o.total,
               key |-> o.key, auto |-> TRUE]
      BY <2>1 DEF Return, Retrieval
    <2>3. /\ f.tool = "return" /\ f.bin = o.bin /\ f.queue = o.queue /\ f.total = o.total /\ f.key = o.key
          /\ Item(f) = Item(o) /\ (Planned(f) => Planned(o))
      BY <2>2 DEF Item, Planned
    <2> QED
      BY <1>3, <2>3 DEF OfferOK, OfPlan, Clear
  <1>4. CASE o.tool = "return" /\ result.ok /\ o.queue # <<>>
    <2>1. f = NextItem(o) \/ f \in {NoOffer} \cup OwnIdeas(o.key)
      BY <1>4 DEF FollowUps
    <2>2. CASE f = NextItem(o)
      <3>1. /\ f.tool = "retrieve" /\ f.bin = Head(o.queue) /\ f.queue = Tail(o.queue)
            /\ f.words = o.words /\ f.total = o.total
            /\ f.key = Key(o.key.turn, o.total - Len(o.queue) + 1)
        BY <2>2 DEF NextItem, Retrieval, NextKey
      <3> QED
        BY <1>4, <3>1, NextItemOK DEF Clear
    <2> QED
      BY <1>1, <2>1, <2>2
  <1>5. CASE /\ ~(o.tool \in {"retrieve", "fulfil"} /\ result.ok)
             /\ ~(o.tool = "return" /\ ~result.ok /\ ServerSelected(o))
             /\ ~(o.tool = "return" /\ result.ok /\ o.queue # <<>>)
    BY <1>1, <1>5 DEF FollowUps
  <1> QED
    BY <1>2, <1>3, <1>4, <1>5

---------------------------------------------------------------------------
(* What a step leaves of the others, and what it has to show of its own.   *)
LEMMA RequestKept ==
  ASSUME PlanInv, NEW d \in Calls, call'[d] = call[d], Kept(checkout, checkout'),
         lease = d => lease' = d, UNCHANGED place \/ lease # d
  PROVE  RequestOK(d)'
  <1>1. RequestOK(d)
    BY DEF PlanInv
  <1>2. \A o : OfferOK(o, checkout) => /\ OfferOK(o, checkout')
                                       /\ \A where : Clear(o, checkout, where) => Clear(o, checkout', where)
    BY OfferKept
  <1>3. call[d].pc = "thinking" => call[d].kind = "turn" /\ call[d].turn \in 1 .. MaxTurns
    BY <1>1 DEF RequestOK
  <1>4. call[d].pc \in Working /\ call[d].kind = "approve" => lease' = d
    BY <1>1 DEF RequestOK
  <1>5. /\ call[d].pc \in Offering => OfferOK(call[d].next, checkout')
        /\ call[d].pc = "settle" /\ call[d].next # NoOffer => OfferOK(call[d].next, checkout')
    BY <1>1, <1>2 DEF RequestOK
  <1>6. call[d].pc \in Offering \cup {"settle"} =>
          \/ Clear(call[d].next, checkout', place') /\ call[d].kind = "approve"
          \/ ~(call[d].next.tool = "retrieve" /\ Planned(call[d].next))
    <2> SUFFICES ASSUME call[d].pc \in Offering \cup {"settle"}, call[d].next.tool = "retrieve",
                        Planned(call[d].next)
                 PROVE  Clear(call[d].next, checkout', place') /\ call[d].kind = "approve"
      OBVIOUS
    <2>1. Clear(call[d].next, checkout, place) /\ call[d].kind = "approve"
      BY <1>1 DEF RequestOK
    <2>2. call[d].pc \in Working
      BY DEF Working, Offering
    <2>3. lease = d
      BY <1>1, <2>1, <2>2 DEF RequestOK
    <2>4. place' = place
      BY <2>3
    <2>5. OfferOK(call[d].next, checkout)
      BY <1>1, NoOfferTool DEF RequestOK
    <2> QED
      BY <1>2, <2>1, <2>4, <2>5
  <1> QED
    BY <1>3, <1>4, <1>5, <1>6 DEF RequestOK

LEMMA OneRequest ==
  ASSUME PlanInv, NEW c \in Calls, \A d \in Calls \ {c} : call'[d] = call[d],
         Floor', Kept(checkout, checkout'),
         \A i \in Known' : (i \in Known /\ offers'[i] = offers[i]) \/ OfferOK(offers'[i], checkout),
         \A d \in Calls \ {c} : lease = d => lease' = d,
         UNCHANGED place \/ lease = c,
         RequestOK(c)'
  PROVE  PlanInv'
  <1>1. \A d \in Calls \ {c} : RequestOK(d)'
    BY RequestKept
  <1>2. \A i \in Known' : OfferOK(offers'[i], checkout')
    BY OfferKept DEF PlanInv
  <1> QED
    BY <1>1, <1>2 DEF PlanInv

(* A request that works on nothing.                                        *)
Rests(c) == call[c].pc \notin {"thinking"} \cup Working

LEMMA RestsOK == \A c : Rests(c) => RequestOK(c)
  BY DEF Rests, RequestOK, Working, Offering

(* The step of a request that moves no bin and freezes nothing.            *)
LEMMA QuietStep ==
  ASSUME PlanInv, NEW c \in Calls, \A d \in Calls \ {c} : call'[d] = call[d],
         UNCHANGED <<offers, turns, place, checkout>>,
         \A d \in Calls \ {c} : lease = d => lease' = d,
         RequestOK(c)'
  PROVE  PlanInv'
  <1>1. Floor' /\ Kept(checkout, checkout') /\ Known' = Known
    BY DEF PlanInv, Floor, Kept, Known
  <1> QED
    BY <1>1, OneRequest

Passes(c, pc) ==
    /\ \A d \in Calls \ {c} : call'[d] = call[d]
    /\ call'[c].pc = pc /\ call'[c].kind = call[c].kind /\ call'[c].turn = call[c].turn
    /\ call'[c].next = call[c].next

LEMMA GotoPasses ==
  ASSUME Shape, NEW c \in Calls, NEW pc, Goto(c, pc)
  PROVE  Passes(c, pc)
  BY DEF Shape, CallFields, Goto, Passes

Asks(c, pc, o) ==
    /\ \A d \in Calls \ {c} : call'[d] = call[d]
    /\ call'[c].pc = pc /\ call'[c].kind = call[c].kind /\ call'[c].next = o

LEMMA ProposeAsks ==
  ASSUME Shape, NEW c \in Calls, NEW pc, NEW o, Propose(c, pc, o)
  PROVE  Asks(c, pc, o)
  BY DEF Shape, CallFields, Propose, Asks

---------------------------------------------------------------------------
LEMMA ThinkPlan ==
  ASSUME PlanInv, Shape, NEW c \in Calls, Think(c)
  PROVE  PlanInv'
  <1>1. UNCHANGED <<offers, turns, place, checkout, lease>> /\ At(c, "thinking")
    BY DEF Think, storeVars, worldVars
  <1>2. CASE Propose(c, "reply", NoOffer)
    <2>1. Asks(c, "reply", NoOffer)
      BY <1>2, ProposeAsks
    <2>2. Rests(c)'
      BY <2>1 DEF Asks, Rests, Working
    <2>3. RequestOK(c)'
      BY <2>2 DEF Rests, RequestOK, Working, Offering
    <2> QED
      BY <1>1, <2>1, <2>3, QuietStep DEF Asks
  <1>3. ASSUME NEW o \in OwnIdeas(Key(call[c].turn, 0)), Propose(c, "park", o)
        PROVE  PlanInv'
    <2>1. Asks(c, "park", o)
      BY <1>3, ProposeAsks
    <2>2. call[c].turn \in 1 .. MaxTurns
      BY <1>1 DEF PlanInv, RequestOK, At
    <2>3. OfferOK(o, checkout') /\ ~Planned(o)
      BY <1>3, <2>2, OwnIdeasOK
    <2>4. call'[c].pc = "park" /\ call'[c].next = o /\ call'[c].kind = call[c].kind
      BY <2>1 DEF Asks
    <2>5. call[c].kind = "turn"
      BY <1>1 DEF PlanInv, RequestOK, At
    <2>6. RequestOK(c)'
      BY <2>3, <2>4, <2>5 DEF RequestOK, Working, Offering
    <2> QED
      BY <1>1, <2>1, <2>6, QuietStep DEF Asks
  <1> QED
    BY <1>2, <1>3 DEF Think

LEMMA PassingPlan ==
  ASSUME PlanInv, Shape, NEW c \in Calls,
         Supersede(c) \/ Retire(c) \/ InsertRow(c) \/ GiveUpLease(c) \/ TakeLease(c) \/ Claim(c)
           \/ Deny(c) \/ SettleApproved(c) \/ ModelFails(c)
  PROVE  PlanInv'
  <1> USE DEF worldVars, storeVars
  <1>1. RequestOK(c) /\ NoCall \notin Calls
    BY AgentAssumption DEF PlanInv
  <1>2. CASE Supersede(c)
    <2>1. Passes(c, "retire") /\ At(c, "park") /\ UNCHANGED <<offers, turns, place, checkout, lease>>
      BY <1>2 DEF Supersede, Shape, CallFields, Passes
    <2>2. RequestOK(c)'
      BY <1>1, <2>1 DEF Passes, At, RequestOK, Working, Offering
    <2> QED
      BY <2>1, <2>2, QuietStep DEF Passes
  <1>3. CASE Retire(c)
    <2>1. /\ Passes(c, "freeze") \/ Passes(c, "park")
          /\ At(c, "retire") /\ UNCHANGED <<offers, turns, place, checkout, lease>>
      BY <1>3, GotoPasses DEF Retire
    <2>2. RequestOK(c)'
      BY <1>1, <2>1 DEF Passes, At, RequestOK, Working, Offering
    <2> QED
      BY <2>1, <2>2, QuietStep DEF Passes
  <1>4. CASE InsertRow(c) \/ GiveUpLease(c) \/ ModelFails(c)
    <2>1. /\ Passes(c, "reply") \/ Passes(c, "error")
          /\ UNCHANGED <<offers, turns, place, checkout, lease>>
      BY <1>4, GotoPasses DEF InsertRow, GiveUpLease, ModelFails
    <2>2. RequestOK(c)'
      BY <2>1 DEF Passes, RequestOK, Working, Offering
    <2> QED
      BY <2>1, <2>2, QuietStep DEF Passes
  <1>5. CASE TakeLease(c)
    <2>1. /\ Passes(c, "claim") /\ lease = NoCall /\ lease' = c
          /\ UNCHANGED <<offers, turns, place, checkout>>
      BY <1>5, GotoPasses DEF TakeLease
    <2>2. RequestOK(c)'
      BY <2>1 DEF Passes, RequestOK, Working, Offering
    <2> QED
      BY <1>1, <2>1, <2>2, QuietStep DEF Passes
  <1>6. CASE Claim(c)
    <2>1. /\ Passes(c, "resume") \/ Passes(c, "error")
          /\ At(c, "claim") /\ UNCHANGED <<offers, turns, place, checkout, lease>>
      BY <1>6, GotoPasses DEF Claim
    <2>2. RequestOK(c)'
      BY <1>1, <2>1 DEF Passes, At, RequestOK, Working, Offering
    <2> QED
      BY <2>1, <2>2, QuietStep DEF Passes
  <1>7. CASE Deny(c)
    <2>1. Asks(c, "reply", NoOffer) /\ UNCHANGED <<offers, turns, place, checkout, lease>>
      BY <1>7, ProposeAsks DEF Deny
    <2>2. RequestOK(c)'
      BY <2>1 DEF Asks, RequestOK, Working, Offering
    <2> QED
      BY <2>1, <2>2, QuietStep DEF Asks
  <1>8. CASE SettleApproved(c)
    <2>1. /\ Passes(c, "reply") \/ (Passes(c, "park") /\ call[c].next # NoOffer)
          /\ At(c, "settle") /\ UNCHANGED <<offers, turns, place, checkout, lease>>
      BY <1>8, GotoPasses DEF SettleApproved
    <2>2. RequestOK(c)'
      BY <1>1, <2>1 DEF Passes, At, RequestOK, Working, Offering
    <2> QED
      BY <2>1, <2>2, QuietStep DEF Passes
  <1> QED
    BY <1>2, <1>3, <1>4, <1>5, <1>6, <1>7, <1>8

LEMMA AppendedTo ==
  ASSUME NEW S, NEW s \in Seq(S), NEW e, NEW t, t = Append(s, e)
  PROVE  \A i \in 1 .. Len(t) : (i \in 1 .. Len(s) /\ t[i] = s[i]) \/ t[i] = e
  OBVIOUS

LEMMA FreezePlan ==
  ASSUME PlanInv, GateInv, NEW c \in Calls, Freeze(c)
  PROVE  PlanInv'
  <1>1. /\ DOMAIN call' = Calls /\ call'[c].pc = "insert" /\ (At(c, "freeze") \/ At(c, "park"))
        /\ \A d \in Calls \ {c} : call'[d] = call[d]
        /\ UNCHANGED <<turns, place, checkout, lease>>
    BY DEF GateInv, Shape, CallFields, Freeze, worldVars
  <1>2. offers' = Append(offers, call[c].next) /\ offers \in Seq({offers[i] : i \in 1 .. Len(offers)})
    BY DEF Freeze, Park, GateInv, Shape
  <1>3. OfferOK(call[c].next, checkout)
    BY <1>1 DEF PlanInv, RequestOK, At, Offering
  <1>4. PICK o : o = call[c].next
    OBVIOUS
  <1>5. \A i \in Known' : (i \in Known /\ offers'[i] = offers[i]) \/ OfferOK(offers'[i], checkout)
    <2> DEFINE S == {offers[i] : i \in 1 .. Len(offers)}
    <2>1. offers \in Seq(S) /\ offers' = Append(offers, o) /\ OfferOK(o, checkout)
      BY <1>2, <1>3, <1>4
    <2> HIDE DEF S
    <2>2. \A i \in 1 .. Len(offers') : (i \in 1 .. Len(offers) /\ offers'[i] = offers[i]) \/ offers'[i] = o
      BY <2>1, AppendedTo
    <2>3. Known' = 1 .. Len(offers') /\ Known = 1 .. Len(offers)
      BY DEF Known
    <2> QED
      BY <2>1, <2>2, <2>3
  <1>6. RequestOK(c)'
    BY <1>1 DEF RequestOK, Working, Offering
  <1>7. Floor' /\ Kept(checkout, checkout')
    BY <1>1 DEF PlanInv, Floor, Kept
  <1> QED
    BY <1>1, <1>5, <1>6, <1>7, OneRequest

---------------------------------------------------------------------------
(* A tool that has run asks for what may follow.                           *)
LEMMA RanPlan ==
  ASSUME PlanInv, GateInv, NEW c \in Calls, At(c, "resume"), call[c].kind = "approve",
         UNCHANGED <<offers, turns, lease>>, Floor', Kept(checkout, checkout'),
         NEW result, Ran(c, result), NEW o, o = Approved(c), Truthful(o, result, checkout', place')
  PROVE  PlanInv'
  <1>2. call[c].id \in Known
    BY DEF GateInv, HolderFoundRow
  <1>3. OfferOK(o, checkout')
    BY <1>2, OfferKept DEF PlanInv, Approved
  <1>4. PICK f \in FollowUps(o, result) : Propose(c, "settle", f)
    BY DEF Ran
  <1>5. (f # NoOffer => OfferOK(f, checkout')) /\ Clear(f, checkout', place')
    BY <1>3, <1>4, FollowUpsOK
  <1>6. Asks(c, "settle", f)
    BY <1>4, ProposeAsks DEF GateInv
  <1>7. lease = c
    BY DEF PlanInv, RequestOK, At, Working
  <1>8. RequestOK(c)'
    BY <1>5, <1>6, <1>7 DEF Asks, RequestOK, Working, Offering
  <1>9. Known' = Known /\ \A i \in Known' : i \in Known /\ offers'[i] = offers[i]
    BY DEF Known
  <1> QED
    BY <1>6, <1>7, <1>8, <1>9, OneRequest DEF Asks

(* A retrieval under a key, of a bin the key stands for.                   *)
LEMMA RetrievePlan ==
  ASSUME PlanInv, GateInv, NEW c \in Calls, At(c, "resume"), call[c].kind = "approve",
         UNCHANGED <<offers, turns, lease>>, Approved(c).tool \in {"retrieve", "fulfil"},
         NEW b, NEW k, NEW q, NEW n, Retrieve(c, b, k, q, n),
         k \in Keys => b \in Bins,
         \A out, x : (k \in Keys => out[k].status = "COMPLETED" /\ out[k].bin = x /\ x \in Bins) =>
                       Brought(Approved(c), out, x, q, n)
  PROVE  PlanInv'
  <1>1. Floor
    BY DEF PlanInv
  <1>2. ASSUME NEW result, Ran(c, result), result.ok = FALSE, Floor', Kept(checkout, checkout')
        PROVE  PlanInv'
    BY <1>2, RanPlan DEF Truthful
  <1>3. ASSUME NEW x, NEW result, Ran(c, result), result = [ok |-> TRUE, bin |-> x, queue |-> q, total |-> n],
               Floor', Kept(checkout, checkout'),
               k \in Keys => checkout'[k].status = "COMPLETED" /\ checkout'[k].bin = x /\ x \in Bins
        PROVE  PlanInv'
    <2>1. Brought(Approved(c), checkout', x, q, n)
      BY <1>3
    <2>2. result.ok \in BOOLEAN /\ result.bin = x /\ result.queue = q /\ result.total = n
      BY <1>3
    <2> QED
      BY <1>3, <2>1, <2>2, RanPlan DEF Truthful
  <1>4. Failure(Approved(c)).ok = FALSE
    BY DEF Failure
  <1>5. CASE checkout[k].status # "none"
    <2>1. /\ UNCHANGED <<place, checkout>>
          /\ Ran(c, IF checkout[k].status = "COMPLETED"
                      THEN [ok |-> TRUE, bin |-> checkout[k].bin, queue |-> q, total |-> n]
                      ELSE Failure(Approved(c)))
      BY <1>5 DEF Retrieve
    <2>2. Floor' /\ Kept(checkout, checkout')
      BY <1>1, <2>1 DEF Floor, Kept
    <2>3. CASE checkout[k].status = "COMPLETED"
      <3>1. k \in Keys => /\ checkout'[k].status = "COMPLETED" /\ checkout'[k].bin = checkout[k].bin
                          /\ checkout[k].bin \in Bins
        BY <1>1, <2>1, <2>3 DEF Floor
      <3> QED
        BY <1>3, <2>1, <2>2, <2>3, <3>1
    <2>4. CASE checkout[k].status # "COMPLETED"
      BY <1>2, <1>4, <2>1, <2>2, <2>4
    <2> QED
      BY <2>3, <2>4
  <1>6. CASE /\ checkout[k].status = "none" /\ Ran(c, Failure(Approved(c)))
             /\ \/ checkout' = checkout
                \/ checkout' = [checkout EXCEPT ![k] = [bin |-> b, status |-> "FAILED"]]
             /\ place' = place \/ place' = [place EXCEPT ![b] = "OUTPUT"]
    <2>1. checkout' = checkout \/ checkout' = [checkout EXCEPT ![k] = [bin |-> b, status |-> "FAILED"]]
      BY <1>6
    <2>2. Kept(checkout, checkout') /\ DOMAIN checkout' = Keys
      BY <1>1, <1>6, <2>1 DEF Floor, Kept
    <2>3. DOMAIN place' = Bins
      BY <1>1, <1>6 DEF Floor
    <2>4. Floor'
      BY <1>1, <2>1, <2>2, <2>3 DEF Floor
    <2> QED
      BY <1>2, <1>4, <1>6, <2>2, <2>4
  <1>7. CASE /\ checkout[k].status = "none"
             /\ Ran(c, [ok |-> TRUE, bin |-> b, queue |-> q, total |-> n])
             /\ place' = [place EXCEPT ![b] = "OUTPUT"]
             /\ checkout' = [checkout EXCEPT ![k] = [bin |-> b, status |-> "COMPLETED"]]
    <2>1. Kept(checkout, checkout') /\ DOMAIN checkout' = Keys /\ DOMAIN place' = Bins
      BY <1>1, <1>7 DEF Floor, Kept
    <2>2. Floor'
      BY <1>1, <1>7, <2>1 DEF Floor
    <2>3. k \in Keys => checkout'[k].status = "COMPLETED" /\ checkout'[k].bin = b /\ b \in Bins
      BY <1>1, <1>7 DEF Floor
    <2> QED
      BY <1>3, <1>7, <2>1, <2>2, <2>3
  <1> QED
    BY <1>5, <1>6, <1>7 DEF Retrieve

LEMMA ApprovedOK ==
  ASSUME PlanInv, GateInv, NEW c \in Calls, At(c, "resume")
  PROVE  OfferOK(Approved(c), checkout)
  BY DEF PlanInv, GateInv, HolderFoundRow, Approved

LEMMA ToolsPlan ==
  ASSUME PlanInv, GateInv, NEW c \in Calls, RunRetrieve(c) \/ RunFulfil(c) \/ RunReturn(c)
  PROVE  PlanInv'
  <1>1. At(c, "resume") /\ call[c].kind = "approve" /\ UNCHANGED <<offers, turns, lease>>
    BY DEF RunRetrieve, RunFulfil, RunReturn, storeVars
  <1>2. PICK o : o = Approved(c)
    OBVIOUS
  <1>3. OfferOK(o, checkout) /\ Floor
    BY <1>1, <1>2, ApprovedOK DEF PlanInv
  <1>4. Failure(o).ok = FALSE
    BY DEF Failure
  <1>5. CASE RunRetrieve(c)
    <2>1. o.tool = "retrieve" /\ Retrieve(c, o.bin, o.key, o.queue, o.total) /\ o.bin \in Bins
      BY <1>2, <1>3, <1>5 DEF RunRetrieve, OfferOK
    <2>2. Planned(o) => o.key \in Keys /\ o.key = Key(o.key.turn, Item(o))
      <3> SUFFICES ASSUME Planned(o) PROVE o.key \in Keys /\ o.key = Key(o.key.turn, Item(o))
        OBVIOUS
      <3>1. o.key = Key(o.key.turn, Item(o)) /\ Item(o) \in 1 .. Len(Plan) /\ o.key.turn \in 1 .. MaxTurns
        BY <1>3, <2>1 DEF OfferOK, OfPlan
      <3>2. Key(o.key.turn, Item(o)) \in Keys
        BY <3>1, PlanFits
      <3> QED
        BY <3>1, <3>2
    <2>3. \A out, x : (o.key \in Keys => out[o.key].status = "COMPLETED" /\ out[o.key].bin = x /\ x \in Bins) =>
                        Brought(o, out, x, o.queue, o.total)
      BY <2>1, <2>2 DEF Brought, Sent
    <2> QED
      BY <1>1, <1>2, <2>1, <2>3, RetrievePlan
  <1>6. CASE RunFulfil(c)
    <2>1. o.tool = "fulfil"
      BY <1>2, <1>6 DEF RunFulfil
    <2>2. CASE Retrieve(c, Head(Plan), Key(o.key.turn, 1), Tail(Plan), Len(Plan))
      <3>1. Key(o.key.turn, 1) \in Keys /\ Head(Plan) \in Bins
        BY <1>3, PlanFits DEF OfferOK
      <3>2. \A out, x : (Key(o.key.turn, 1) \in Keys =>
                           /\ out[Key(o.key.turn, 1)].status = "COMPLETED"
                           /\ out[Key(o.key.turn, 1)].bin = x /\ x \in Bins) =>
                          Brought(o, out, x, Tail(Plan), Len(Plan))
        BY <2>1, <3>1 DEF Brought, Sent
      <3> QED
        BY <1>1, <1>2, <2>1, <2>2, <3>1, <3>2, RetrievePlan
    <2>3. CASE Ran(c, Failure(o)) /\ UNCHANGED <<place, checkout>>
      <3>1. Floor' /\ Kept(checkout, checkout')
        BY <1>1, <1>3, <2>3 DEF Floor, Kept
      <3> QED
        BY <1>1, <1>2, <1>4, <2>3, <3>1, RanPlan DEF Truthful
    <2> QED
      BY <1>2, <1>6, <2>2, <2>3 DEF RunFulfil
  <1>7. CASE RunReturn(c)
    <2>1. o.tool = "return" /\ UNCHANGED checkout
      BY <1>2, <1>7 DEF RunReturn
    <2>2. Kept(checkout, checkout')
      BY <2>1 DEF Kept
    <2>5. Planned(o) => o.bin \in Bins
      BY <1>3, <2>1 DEF OfferOK, OfPlan
    <2>3. CASE /\ place[o.bin] = "OUTPUT" /\ Ran(c, [Failure(o) EXCEPT !.ok = TRUE])
               /\ place' = [place EXCEPT ![o.bin] = "SHELF"]
      <3>1. Floor' /\ (Planned(o) => place'[o.bin] = "SHELF")
        BY <1>1, <1>3, <2>1, <2>3, <2>5 DEF Floor
      <3>2. [Failure(o) EXCEPT !.ok = TRUE].ok = TRUE
        BY DEF Failure
      <3> QED
        BY <1>1, <1>2, <2>1, <2>2, <2>3, <3>1, <3>2, RanPlan DEF Truthful
    <2>4. CASE Ran(c, Failure(o)) /\ UNCHANGED place
      <3>1. Floor'
        BY <1>1, <1>3, <2>1, <2>4 DEF Floor
      <3> QED
        BY <1>1, <1>2, <1>4, <2>2, <2>4, <3>1, RanPlan DEF Truthful
    <2> QED
      BY <1>2, <1>7, <2>3, <2>4 DEF RunReturn
  <1> QED
    BY <1>5, <1>6, <1>7

---------------------------------------------------------------------------
(* The page, and what goes wrong.                                          *)
LEMMA BeginsAs ==
  ASSUME Shape, NEW c \in Calls, NEW kind, NEW pc, NEW id, NEW t, Begin(c, kind, pc, id, t)
  PROVE  /\ \A d \in Calls \ {c} : call'[d] = call[d]
         /\ call'[c].pc = pc /\ call'[c].kind = kind /\ call'[c].turn = t
  BY DEF Shape, CallFields, Begin, IdleCall

LEMMA BeginPlan ==
  ASSUME PlanInv, Shape, NEW c \in Calls, Send(c) \/ Approve(c) \/ Refuse(c) \/ DecideAgain(c)
  PROVE  PlanInv'
  <1>1. CASE Send(c)
    <2>1. /\ \A d \in Calls \ {c} : call'[d] = call[d]
          /\ call'[c].pc = "thinking" /\ call'[c].kind = "turn" /\ call'[c].turn = turns + 1
          /\ UNCHANGED <<offers, place, checkout, lease>> /\ turns < MaxTurns /\ turns' = turns + 1
      BY <1>1, BeginsAs DEF Send, storeVars
    <2>2. turns + 1 \in 1 .. MaxTurns
      BY <2>1, ApprovalAssumption DEF PlanInv, Floor
    <2>3. RequestOK(c)'
      BY <2>1, <2>2 DEF RequestOK, Working, Offering
    <2>4. Floor' /\ Kept(checkout, checkout') /\ Known' = Known
      BY <2>1, <2>2, ApprovalAssumption DEF PlanInv, Floor, Kept, Known
    <2> QED
      BY <2>1, <2>3, <2>4, OneRequest
  <1>2. CASE Approve(c) \/ Refuse(c) \/ DecideAgain(c)
    <2>1. PICK kind \in {"approve", "deny"} :
            \E id : Begin(c, kind, IF kind = "approve" THEN "lease" ELSE "claim", id, 0)
      BY <1>2 DEF Approve, Refuse, Decide, DecideAgain
    <2>2. UNCHANGED <<offers, turns, place, checkout, lease>>
      BY <1>2 DEF Approve, Refuse, Decide, DecideAgain, storeVars, worldVars
    <2>3. /\ \A d \in Calls \ {c} : call'[d] = call[d]
          /\ \/ call'[c].pc = "lease"
             \/ call'[c].pc = "claim" /\ call'[c].kind = "deny"
      <3>1. PICK id : Begin(c, kind, IF kind = "approve" THEN "lease" ELSE "claim", id, 0)
        BY <2>1
      <3> QED
        BY <3>1, BeginsAs
    <2>4. RequestOK(c)'
      BY <2>3 DEF RequestOK, Working, Offering
    <2> QED
      BY <2>2, <2>3, <2>4, QuietStep
  <1> QED
    BY <1>1, <1>2

LEMMA AnswerPlan ==
  ASSUME PlanInv, Shape, NEW c \in Calls, Reply(c) \/ Error(c)
  PROVE  PlanInv'
  <1>1. /\ \A d \in Calls \ {c} : call'[d] = call[d]
        /\ call'[c].pc = "idle" /\ UNCHANGED <<offers, turns, place, checkout>>
        /\ \A d \in Calls \ {c} : lease = d => lease' = d
    BY DEF Reply, Error, Free, IdleCall, Shape, storeVars
  <1>2. RequestOK(c)'
    BY <1>1 DEF RequestOK, Working, Offering
  <1> QED
    BY <1>1, <1>2, QuietStep

LEMMA FaultsPlan ==
  ASSUME PlanInv, LoseAnswer \/ Reload \/ Restart \/ UNCHANGED vars
  PROVE  PlanInv'
  <1>1. UNCHANGED <<offers, turns, place, checkout>>
    BY DEF LoseAnswer, Reload, Restart, vars, agentVars, storeVars
  <1>2. Floor' /\ Kept(checkout, checkout') /\ Known' = Known
    BY <1>1 DEF PlanInv, Floor, Kept, Known
  <1>3. \A i \in Known' : OfferOK(offers'[i], checkout')
    BY <1>1, <1>2 DEF PlanInv
  <1>4. CASE Restart
    <2>1. \A c \in Calls : call'[c].pc = "idle"
      BY <1>4 DEF Restart, IdleCall
    <2>2. \A c \in Calls : RequestOK(c)'
      BY <2>1 DEF RequestOK, Working, Offering
    <2> QED
      BY <1>2, <1>3, <2>2 DEF PlanInv
  <1>5. CASE LoseAnswer \/ Reload \/ UNCHANGED vars
    <2>1. UNCHANGED <<call, lease>>
      BY <1>5 DEF LoseAnswer, Reload, vars, agentVars
    <2>2. \A c \in Calls : RequestOK(c)'
      BY <1>1, <1>2, <2>1, RequestKept
    <2> QED
      BY <1>2, <1>3, <2>2 DEF PlanInv
  <1> QED
    BY <1>4, <1>5

LEMMA PlanStep ==
  ASSUME PlanInv, GateInv, [Next]_vars
  PROVE  PlanInv'
  <1>1. Shape
    BY DEF GateInv
  <1> QED
    BY <1>1, ThinkPlan, PassingPlan, FreezePlan, ToolsPlan, BeginPlan, AnswerPlan, FaultsPlan
    DEF Next, Serve, Work

LEMMA PlanStart ==
  ASSUME Init
  PROVE  PlanInv
  <1>1. Len(offers) = 0 /\ \A c \in Calls : call[c].pc = "idle"
    BY DEF Init, StoreInit, AgentInit, IdleCall
  <1>2. Floor
    BY ApprovalAssumption DEF Init, AgentInit, NoCheckout, Floor
  <1>3. \A c \in Calls : RequestOK(c)
    BY <1>1 DEF RequestOK, Working, Offering
  <1>4. Known = {}
    BY <1>1 DEF Known
  <1> QED
    BY <1>2, <1>3, <1>4 DEF PlanInv

(* The invariant of the plan's bins.                                       *)
THEOREM OffersKeepThePlan == Spec => []PlanInv
  <1>1. GateInv /\ PlanInv /\ [Next]_vars => PlanInv'
    BY PlanStep
  <1> QED
    BY <1>1, PlanStart, ApprovalsAreNotReused, PTL DEF Spec

(* The bins of a plan are offered in its order, each under its own key,    *)
(* and only after the bin brought before it has gone back: for any plan,   *)
(* whatever the model asks for meanwhile, and however requests cross, fail *)
(* and are repeated (resumeWarehouseAgent).                                *)
THEOREM NextBinIsOfferedInTurn == Spec => NextBinWaitsForReturn
  <1>1. ASSUME PlanInv, NEW c \in Calls, NEW o, o = call[c].next, Freeze(c), Planned(o), o.tool = "retrieve"
        PROVE  LET before == checkout[Key(o.key.turn, o.key.item - 1)] IN
                 /\ o.bin = Plan[o.key.item]
                 /\ before.status = "COMPLETED" /\ place[before.bin] = "SHELF"
    <2>1. call[c].pc \in Offering
      BY <1>1 DEF Freeze, At, Offering
    <2>2. OfferOK(o, checkout) /\ Clear(o, checkout, place)
      BY <1>1, <2>1 DEF PlanInv, RequestOK
    <2> QED
      BY <1>1, <2>2 DEF OfferOK, OfPlan, Clear
  <1>2. PlanInv /\ [Next]_vars =>
          [\A c \in Calls : LET o == call[c].next IN
             (Freeze(c) /\ Planned(o) /\ o.tool = "retrieve") =>
                LET before == checkout[Key(o.key.turn, o.key.item - 1)] IN
                  /\ o.bin = Plan[o.key.item]
                  /\ before.status = "COMPLETED" /\ place[before.bin] = "SHELF"]_vars
    BY <1>1
  <1> QED
    BY <1>2, OffersKeepThePlan, PTL DEF Spec, NextBinWaitsForReturn

=============================================================================
