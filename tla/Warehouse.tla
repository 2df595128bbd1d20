----------------------------- MODULE Warehouse -----------------------------
(***************************************************************************)
(* The state that every physical bin workflow of RackHand shares: the Bin, *)
(* Inventory, Movement and PutawayCaptureRequest tables, the one gantry,   *)
(* and the service calls in flight.  A call is one invocation of           *)
(* executeRetrieval, executePutaway, returnCheckedOutBin or one guided     *)
(* putaway workflow; it creates at most one Movement row, so the row has   *)
(* the call's name.  One action is one database statement or transaction,  *)
(* or one step of the machine: calls interleave between any two of them,   *)
(* and a call may die between any two of them.                             *)
(***************************************************************************)
EXTENDS Integers, FiniteSets

CONSTANTS
    Bins,           \* rows of the Bin table
    Calls,          \* service calls, and the Movement rows they create
    Keys,           \* request ids and scan ids a client may repeat
    Kinds,          \* the services called in this instance
    Capacity,       \* Bin.capacity, the same for every bin
    MaxAdjustments, \* bound on manual stock corrections
    NoBin, NoCall, NoKey

AllKinds == {"retrieve", "putaway", "return", "guided"}

ASSUME ConstantsAssumption ==
    /\ Capacity \in Nat \ {0}
    /\ MaxAdjustments \in Nat
    /\ Kinds \subseteq AllKinds
    /\ NoBin \notin Bins
    /\ NoCall \notin Calls
    /\ NoKey \notin {"retrieval", "scan"} \X Keys

VARIABLES
    binStatus,      \* Bin.status
    stock,          \* Inventory.quantity of the bin's one part; NoRow without a row
    movement,       \* Movement rows
    capture,        \* PutawayCaptureRequest, at most one per movement
    call,           \* where each service call stands, and what it has read
    place,          \* where the bin's container physically is
    holder,         \* the call whose operation the gantry is executing
    latched,        \* Klipper refuses work until an operator reconciles
    adjustments,    \* manual stock corrections so far
    owner,          \* the call that last reserved the bin (history)
    misreleased     \* bins freed by a step that should not have (history)

history == <<owner, misreleased>>

vars == <<binStatus, stock, movement, capture, call, place, holder, latched,
          adjustments, owner, misreleased>>

NoRow == -1
Quantities == 0 .. Capacity

BinStatus == {"AVAILABLE", "OCCUPIED", "RESERVED", "CHECKED_OUT"}
OnShelfStatus == {"AVAILABLE", "OCCUPIED"}
Places == {"shelf", "output", "intake"}

MovementStatus ==
    {"NONE", "VALIDATED", "PRESENTING", "AWAITING_PLACEMENT", "RUNNING",
     "RETURNING", "READY_TO_COMMIT", "READY_TO_CANCEL",
     "AWAITING_VERIFICATION", "COMPLETED", "FAILED", "CANCELLED"}
Terminal == {"COMPLETED", "FAILED", "CANCELLED"}

(* Statuses in which a movement is still waiting for its photo check.      *)
VerificationStatus == {"VALIDATED", "AWAITING_PLACEMENT", "AWAITING_VERIFICATION"}

IdempotencyKeys == ({"retrieval", "scan"} \X Keys) \cup {NoKey}

MovementRow ==
    [status : MovementStatus, type : {"NONE", "RETRIEVAL", "PUTAWAY"},
     bin : Bins \cup {NoBin}, src : Bins \cup {NoBin},
     from : {"NONE", "OUTPUT", "INTAKE"}, prev : Quantities,
     key : IdempotencyKeys]

CaptureRow == [status : {"NONE", "OPEN", "ACCEPTED", "FAILED"}, count : Quantities]

(* Where a call stands: the statement it runs or the answer it waits for.  *)
PC ==
    {"idle", "claim", "run", "prepared", "atIntake", "returned", "await",
     "verify", "expired", "abort", "decided", "dispatch", "moving", "busy",
     "refused", "notMoved", "uncertain", "moved", "done", "dead"}

CallState ==
    [pc : PC, kind : AllKinds, key : IdempotencyKeys, bin : Bins \cup {NoBin},
     src : Bins \cup {NoBin}, orig : BinStatus, base : Quantities,
     leg : {"out", "back"}, checked : BOOLEAN, carried : BOOLEAN]

TypeOK ==
    /\ binStatus \in [Bins -> BinStatus]
    /\ stock \in [Bins -> Quantities \cup {NoRow}]
    /\ movement \in [Calls -> MovementRow]
    /\ capture \in [Calls -> CaptureRow]
    /\ call \in [Calls -> CallState]
    /\ place \in [Bins -> Places]
    /\ holder \in Calls \cup {NoCall}
    /\ latched \in BOOLEAN
    /\ adjustments \in 0 .. MaxAdjustments
    /\ owner \in [Bins -> Calls \cup {NoCall}]
    /\ misreleased \in SUBSET Bins

---------------------------------------------------------------------------
(* Initial state: a stocked warehouse with every bin on its shelf.         *)

NoMovement ==
    [status |-> "NONE", type |-> "NONE", bin |-> NoBin, src |-> NoBin,
     from |-> "NONE", prev |-> 0, key |-> NoKey]

IdleCall(kind) ==
    [pc |-> "idle", kind |-> kind, key |-> NoKey, bin |-> NoBin, src |-> NoBin,
     orig |-> "AVAILABLE", base |-> 0, leg |-> "out", checked |-> TRUE,
     carried |-> FALSE]

Init ==
    /\ stock \in [Bins -> {NoRow} \cup 1 .. Capacity]
    /\ binStatus = [b \in Bins |-> IF stock[b] = NoRow THEN "AVAILABLE" ELSE "OCCUPIED"]
    /\ movement = [m \in Calls |-> NoMovement]
    /\ capture = [m \in Calls |-> [status |-> "NONE", count |-> 0]]
    /\ call \in [Calls -> {IdleCall(kind) : kind \in Kinds}]
    /\ place = [b \in Bins |-> "shelf"]
    /\ holder = NoCall
    /\ latched = FALSE
    /\ adjustments = 0
    /\ owner = [b \in Bins |-> NoCall]
    /\ misreleased = {}

---------------------------------------------------------------------------
(* Vocabulary.                                                             *)

At(r, pc) == call[r].pc = pc
Goto(r, pc) == call' = [call EXCEPT ![r].pc = pc]

(* A call has read its request and the tables, and goes on to its claim.   *)
Planned(r, key, b, s, orig, base, checked) ==
    call' = [call EXCEPT ![r] =
      [pc |-> "claim", kind |-> @.kind, key |-> key, bin |-> b, src |-> s,
       orig |-> orig, base |-> base, leg |-> "out", checked |-> checked,
       carried |-> FALSE]]

(* The quantity a query that sums the bin's positive rows returns.         *)
Held(b) == IF stock[b] > 0 THEN stock[b] ELSE 0

(* A stored key is unique: a second create with it fails with P2002.       *)
KeyTaken(k) == k # NoKey /\ \E m \in Calls : movement[m].key = k

(* updateMany where status is RESERVED: a release that finds the bin in    *)
(* another state does nothing.                                             *)
Released(status, b, to) ==
    [status EXCEPT ![b] = IF @ = "RESERVED" THEN to ELSE @]

(* A call reserves bins, and so becomes their owner.                       *)
Reserve(r, bins) ==
    /\ binStatus' = [b \in Bins |-> IF b \in bins THEN "RESERVED" ELSE binStatus[b]]
    /\ owner' = [b \in Bins |-> IF b \in bins THEN r ELSE owner[b]]
    /\ UNCHANGED misreleased

SetMovement(r, status) == movement' = [movement EXCEPT ![r].status = status]

CreateMovement(r, row) == movement' = [movement EXCEPT ![r] = row]

(* The movement is closed and its key is free to be used again.            *)
CloseMovement(r, status) ==
    movement' = [movement EXCEPT ![r].status = status, ![r].key = NoKey]

(* The gantry has carried r's container, or may have.                      *)
Carried(r, pc) == call' = [call EXCEPT ![r].pc = pc, ![r].carried = TRUE]

(* The statuses in which a movement still needs its bins to be RESERVED.   *)
Driving(m) ==
    IF movement[m].type = "RETRIEVAL"
    THEN movement[m].status \in {"VALIDATED", "RUNNING"}
    ELSE movement[m].status \in
           {"VALIDATED", "PRESENTING", "AWAITING_PLACEMENT", "RUNNING",
            "RETURNING", "READY_TO_COMMIT", "READY_TO_CANCEL"}

Reserves(m, b) == Driving(m) /\ b \in {movement[m].bin, movement[m].src}

(* The container a call moves, and where its operation takes it from and   *)
(* to.  An intake putaway carries a part to a bin that stays on its shelf. *)
Traveller(r) == IF call[r].src # NoBin THEN call[r].src ELSE call[r].bin

Origin(r) ==
    CASE call[r].kind = "retrieve" -> "shelf"
      [] call[r].kind = "guided" -> IF call[r].leg = "out" THEN "shelf" ELSE "intake"
      [] OTHER -> IF movement[r].from = "OUTPUT" THEN "output" ELSE "shelf"

Target(r) ==
    CASE call[r].kind = "retrieve" -> "output"
      [] call[r].kind = "guided" -> IF call[r].leg = "out" THEN "intake" ELSE "shelf"
      [] OTHER -> "shelf"

---------------------------------------------------------------------------
(* The gantry.  One operation at a time, under the hardware lease.         *)

(* gantry.retrieve / putaway / returnBin / presentBin gets the machine.    *)
StartMove(r) ==
    /\ At(r, "dispatch")
    /\ holder = NoCall
    /\ ~latched
    /\ holder' = r
    /\ Goto(r, "moving")
    /\ UNCHANGED <<binStatus, stock, movement, capture, place, latched,
                   adjustments, history>>

(* It throws before any command is sent: gantry_busy (lease held, machine  *)
(* busy), or anything else (offline, not homed, latched).                  *)
RefuseMove(r) ==
    /\ At(r, "dispatch")
    /\ \E why \in {"busy", "refused"} : Goto(r, why)
    /\ UNCHANGED <<binStatus, stock, movement, capture, place, holder, latched,
                   adjustments, history>>

(* COMPLETED: the container is at its target.                              *)
FinishMove(r) ==
    /\ At(r, "moving")
    /\ holder' = NoCall
    /\ place' = [place EXCEPT ![Traveller(r)] = Target(r)]
    /\ Carried(r, "moved")
    /\ UNCHANGED <<binStatus, stock, movement, capture, latched, adjustments,
                   history>>

(* FAILED without reconciliationRequired: the simulator's failures.        *)
FailMove(r) ==
    /\ At(r, "moving")
    /\ holder' = NoCall
    /\ Goto(r, "notMoved")
    /\ UNCHANGED <<binStatus, stock, movement, capture, place, latched,
                   adjustments, history>>

(* FAILED with reconciliationRequired: Klipper was sent the macro and its  *)
(* outcome is unknown; the controller latches.                             *)
LoseMove(r) ==
    /\ At(r, "moving")
    /\ holder' = NoCall
    /\ \E where \in {Origin(r), Target(r)} :
         place' = [place EXCEPT ![Traveller(r)] = where]
    /\ latched' = TRUE
    /\ Carried(r, "uncertain")
    /\ UNCHANGED <<binStatus, stock, movement, capture, adjustments, history>>

(* An operator inspects the machine and restarts the server.               *)
Reconcile ==
    /\ latched
    /\ latched' = FALSE
    /\ UNCHANGED <<binStatus, stock, movement, capture, call, place, holder,
                   adjustments, history>>

(* The process serving a call dies, at any point of the call.              *)
Crash(r) ==
    /\ call[r].pc \notin {"idle", "done", "dead"}
    /\ Goto(r, "dead")
    /\ UNCHANGED <<binStatus, stock, movement, capture, place, holder, latched,
                   adjustments, history>>

(* The hardware lease of a dead call runs out; the macro it had dispatched *)
(* has ended one way or the other.                                         *)
LeaseExpires(r) ==
    /\ At(r, "dead")
    /\ holder = r
    /\ holder' = NoCall
    /\ \E where \in {Origin(r), Target(r)} :
         place' = [place EXCEPT ![Traveller(r)] = where]
    /\ Carried(r, "dead")
    /\ UNCHANGED <<binStatus, stock, movement, capture, latched, adjustments,
                   history>>

---------------------------------------------------------------------------
(* The photo check.  OPEN stands for every state before a decision.        *)

(* The capture row is created; movementId is unique, so a movement that    *)
(* has had a capture cannot get another.                                   *)
RequireVerification(r) ==
    /\ At(r, "await")
    /\ IF capture[r].status = "NONE"
       THEN /\ capture' = [capture EXCEPT ![r].status = "OPEN"]
            /\ Goto(r, "verify")
       ELSE /\ Goto(r, "abort")
            /\ UNCHANGED capture
    /\ UNCHANGED <<binStatus, stock, movement, place, holder, latched,
                   adjustments, history>>

(* No camera, no simulation evidence, a bin out of scope: it throws.       *)
VerificationUnavailable(r) ==
    /\ At(r, "await")
    /\ Goto(r, "abort")
    /\ UNCHANGED <<binStatus, stock, movement, capture, place, holder, latched,
                   adjustments, history>>

(* decidePutawayCapture ACCEPT, by the server or the operator.             *)
AcceptCapture(m) ==
    /\ capture[m].status = "OPEN"
    /\ movement[m].status \in VerificationStatus
    /\ \E n \in Quantities :
         capture' = [capture EXCEPT ![m] = [status |-> "ACCEPTED", count |-> n]]
    /\ UNCHANGED <<binStatus, stock, movement, call, place, holder, latched,
                   adjustments, history>>

(* decidePutawayCapture CANCEL.                                            *)
CancelCapture(m) ==
    /\ capture[m].status = "OPEN"
    /\ capture' = [capture EXCEPT ![m].status = "FAILED"]
    /\ UNCHANGED <<binStatus, stock, movement, call, place, holder, latched,
                   adjustments, history>>

(* Mutant of SeeDecision: a check that failed counts as a decision.        *)
SeeDecisionOrFailure(r) ==
    /\ At(r, "verify")
    /\ capture[r].status \in {"ACCEPTED", "FAILED"}
    /\ Goto(r, "decided")
    /\ UNCHANGED <<binStatus, stock, movement, capture, place, holder, latched,
                   adjustments, history>>

(* The waiting call sees the decision at its next poll.                    *)
SeeDecision(r) ==
    /\ At(r, "verify")
    /\ \/ capture[r].status = "ACCEPTED" /\ Goto(r, "decided")
       \/ capture[r].status = "FAILED" /\ Goto(r, "abort")
    /\ UNCHANGED <<binStatus, stock, movement, capture, place, holder, latched,
                   adjustments, history>>

(* The waiting call accepts a clear count itself, five seconds after it    *)
(* was shown.  Losing that to a retry, or to whoever closed the movement,  *)
(* is an error that ends the wait and leaves the capture as it is; so is   *)
(* not getting the photo asked for.                                        *)
AutomaticAcceptFails(r) ==
    /\ At(r, "verify")
    /\ capture[r].status = "OPEN"
    /\ Goto(r, "abort")
    /\ UNCHANGED <<binStatus, stock, movement, capture, place, holder, latched,
                   adjustments, history>>

(* The call claims an expired CAPTURING row ...                            *)
CaptureTimesOut(r) ==
    /\ At(r, "verify")
    /\ capture[r].status = "OPEN"
    /\ capture' = [capture EXCEPT ![r].status = "FAILED"]
    /\ Goto(r, "expired")
    /\ UNCHANGED <<binStatus, stock, movement, place, holder, latched,
                   adjustments, history>>

(* ... and closes its movement in a statement of its own.                  *)
CloseTimedOutMovement(r) ==
    /\ At(r, "expired")
    /\ IF movement[r].status \in VerificationStatus
       THEN SetMovement(r, "FAILED")
       ELSE UNCHANGED movement
    /\ Goto(r, "abort")
    /\ UNCHANGED <<binStatus, stock, capture, place, holder, latched,
                   adjustments, history>>

---------------------------------------------------------------------------
(* Manual corrections of the recorded stock: the inventory service.        *)

AddStock(b, n) ==
    /\ adjustments < MaxAdjustments
    /\ Held(b) + n <= Capacity
    /\ stock' = [stock EXCEPT ![b] = Held(b) + n]
    /\ binStatus' = [binStatus EXCEPT ![b] = IF @ = "AVAILABLE" THEN "OCCUPIED" ELSE @]
    /\ adjustments' = adjustments + 1
    /\ UNCHANGED <<movement, capture, call, place, holder, latched, history>>

RemoveStock(b, n) ==
    /\ adjustments < MaxAdjustments
    /\ stock[b] # NoRow
    /\ n <= stock[b]
    /\ stock' = [stock EXCEPT ![b] = IF @ = n THEN NoRow ELSE @ - n]
    /\ binStatus' = [binStatus EXCEPT
         ![b] = IF @ = "OCCUPIED" /\ stock[b] = n THEN "AVAILABLE" ELSE @]
    /\ adjustments' = adjustments + 1
    /\ UNCHANGED <<movement, capture, call, place, holder, latched, history>>

MachineStep(r) ==
    \/ StartMove(r) \/ RefuseMove(r) \/ FinishMove(r) \/ FailMove(r)
    \/ LoseMove(r) \/ Crash(r) \/ LeaseExpires(r)

VerificationStep(r) ==
    \/ RequireVerification(r) \/ VerificationUnavailable(r)
    \/ AcceptCapture(r) \/ CancelCapture(r) \/ SeeDecision(r)
    \/ AutomaticAcceptFails(r) \/ CaptureTimesOut(r) \/ CloseTimedOutMovement(r)

============================================================================
