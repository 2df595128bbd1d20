--------------------------- MODULE WorkflowGraph ---------------------------
(***************************************************************************)
(* The graphs that put a part away or fetch a bin (graphs/workflow-node.ts *)
(* and the two graph files).  A run is a chain of nodes; each reads the    *)
(* warehouse afresh, keeps what it decided in the run, and lets the next   *)
(* node start only while the run is PROCEEDING.  One node, execute, calls  *)
(* the service that changes the warehouse; its steps are places of their   *)
(* own here.  Requests come from several callers at once.                  *)
(***************************************************************************)
EXTENDS PutawayDestination

CONSTANTS
    Runs,      \* requests
    Scenarios  \* what is asked for, and the shelf it is asked of

VARIABLES
    request,  \* what each run was asked for; never changes
    run,      \* each run's record
    movement  \* the Movement row a run created

graphVars == <<request, run, movement>>

Keys == {"a", "b"}
NoRun == "no run"

(* key: the scan id or the request id, which decides what is a repetition. *)
Request ==
    [kind: {"PUTAWAY", "RETRIEVAL"}, valid: BOOLEAN, key: Keys, bin: Bins \cup {NoBin},
     part: Parts \cup {NoPart}, verify: BOOLEAN,
     scan: Scans \cup {NoScan}, given: Resolutions \cup {NoRow},
     photo: BOOLEAN, sure: BOOLEAN, quantity: 1 .. MaxCapacity]

RunStatus == {"PROCEEDING", "COMPLETED", "BLOCKED", "FAILED", "ERROR"}

(* result: the service's answer; home: the bin a return comes from;        *)
(* before, was, into: what the service read when it planned.               *)
Run ==
    [at: {"validate", "identity", "source", "destination", "preflight", "execute",
          "claim", "move", "check", "verify", "over"},
     status: RunStatus, part: Parts \cup {NoPart}, bin: Bins \cup {NoBin},
     home: Bins \cup {NoBin}, duplicate: BOOLEAN, result: {NONE, "ok", "replayed", "failed"},
     count: 0 .. MaxCapacity, movement: Runs \cup {NoRun},
     before: 0 .. MaxCapacity, into: 0 .. MaxCapacity, was: BinStatus]

(* No bin is reserved before anybody asked for one.                        *)
ASSUME GraphAssumption ==
    /\ NoRun \notin Runs
    /\ \A c \in Scenarios :
         /\ c.request \in [Runs -> Request]
         /\ c.binStatus \in [Bins -> BinStatus \ {"RESERVED"}]
         /\ c.stock \in [Bins -> [Parts -> Rows]]
         /\ c.clerks \subseteq Clerks

NewRun ==
    [at |-> "validate", status |-> "PROCEEDING", part |-> NoPart, bin |-> NoBin,
     home |-> NoBin, duplicate |-> FALSE, result |-> NONE, count |-> 0, movement |-> NoRun,
     before |-> 0, into |-> 0, was |-> "AVAILABLE"]

Movement ==
    [status: {NONE, "VALIDATED", "RUNNING", "AWAITING_VERIFICATION", "COMPLETED", "FAILED"},
     keyed: BOOLEAN, part: Parts \cup {NoPart}, bin: Bins \cup {NoBin},
     home: Bins \cup {NoBin}, before: 0 .. MaxCapacity, count: 0 .. MaxCapacity]

NoMovement ==
    [status |-> NONE, keyed |-> FALSE, part |-> NoPart, bin |-> NoBin, home |-> NoBin,
     before |-> 0, count |-> 0]

GraphTypeOK ==
    /\ CatalogTypeOK
    /\ binStatus \in [Bins -> BinStatus]
    /\ stock \in [Bins -> [Parts -> Rows]]
    /\ request \in [Runs -> Request]
    /\ run \in [Runs -> Run]
    /\ movement \in [Runs -> Movement]

GraphInit ==
    /\ \E c \in Scenarios :
         /\ request = c.request /\ binStatus = c.binStatus /\ stock = c.stock
         /\ CatalogInit(c.clerks)
    /\ run = [x \in Runs |-> NewRun]
    /\ movement = [x \in Runs |-> NoMovement]

---------------------------------------------------------------------------
(* The movements that hold the key of a request; the column is unique.     *)
Claimed(x) ==
    {y \in Runs : movement[y].keyed /\ request[y].kind = request[x].kind
                    /\ request[y].key = request[x].key}

Finished(x) == {y \in Claimed(x) : movement[y].status = "COMPLETED"}

(* proceedingEdge: what every edge of the graph asks.                      *)
At(x, kind, node) ==
    /\ request[x].kind = kind
    /\ run[x].at = node
    /\ run[x].status = "PROCEEDING"

(* The run as the next node finds it.                                      *)
NextNode(x, node) == [run[x] EXCEPT !.at = node]

Becomes(x, new) == run' = [run EXCEPT ![x] = new]

(* buildGraphResult and synthesizeResult: what the caller is told.         *)
Ends(x, new, status) == Becomes(x, [new EXCEPT !.at = "over", !.status = status])

Blocks(x) == Ends(x, run[x], "BLOCKED")

(* The execute node keeps the ids a failed attempt did produce.  If the    *)
(* clock of the graph ran out meanwhile, the caller gets an exception.     *)
Fails(x, named) ==
    \E answer \in {"FAILED", "ERROR"} :
      Ends(x, [run[x] EXCEPT !.result = "failed", !.movement = named], answer)

(* Mutant of ReplayOrReject: the answer is read off the shelf.             *)
ReplayFromShelf(x) ==
    \E y \in Claimed(x) :
      IF movement[y].status = "COMPLETED"
      THEN Becomes(x, [run[x] EXCEPT !.at = "verify", !.result = "replayed",
                         !.movement = y, !.part = movement[y].part, !.bin = movement[y].bin,
                         !.count = Count(movement[y].bin, movement[y].part)])
      ELSE Fails(x, y)

(* A repeated key: a completed movement is reported again, an unfinished   *)
(* one is refused.                                                         *)
ReplayOrReject(x) ==
    \E y \in Claimed(x) :
      IF movement[y].status = "COMPLETED"
      THEN Becomes(x, [run[x] EXCEPT !.at = "verify", !.result = "replayed",
                         !.movement = y, !.part = movement[y].part,
                         !.bin = movement[y].bin, !.count = movement[y].count])
      ELSE Fails(x, y)

(* A node that only reads.                                                 *)
READS == UNCHANGED <<request, movement, shelfVars, catalogVars>>

(* The movement a run may name, and whether it is completed.               *)
Named(x) == run[x].movement \in Runs
NamedIsCompleted(x) == Named(x) /\ movement[run[x].movement].status = "COMPLETED"

============================================================================
