--------------------------- MODULE ApprovalStore ---------------------------
(***************************************************************************)
(* approval-store.ts: what the agent froze when it paused for the operator *)
(* lives in a map of this process; the decision lives in the database.     *)
(* One chat session.  The age of an approval is not state: wherever the    *)
(* code looks at it, an approval may turn out to be too old.               *)
(***************************************************************************)
EXTENDS Integers, Sequences, FiniteSets

CONSTANTS
    Bins,
    MaxOffers,  \* bound: approvals ever created
    MaxTurns,   \* bound: messages the operator sends
    NoBin

ASSUME ApprovalAssumption ==
    /\ IsFiniteSet(Bins) /\ NoBin \notin Bins
    /\ MaxOffers \in Nat \ {0} /\ MaxTurns \in Nat \ {0}

Ids == 1..MaxOffers
Tools == {"retrieve", "fulfil", "return"}

(* The idempotency key of a retrieval: the id of the message it answers,   *)
(* and ":fulfillment:n" for the n-th bin of a materials plan.              *)
Keys == [turn: 1..MaxTurns, item: 0..Cardinality(Bins)]

(* total is 0 where the code has no fulfillmentTotal; words tells a queue  *)
(* in the operator's words from one of bins the server selected.           *)
Offers ==
    [tool: Tools, bin: Bins \cup {NoBin}, queue: Seq(Bins), words: BOOLEAN,
     total: Nat, key: Keys, auto: BOOLEAN]

Terminal == {"APPROVED", "DENIED", "EXPIRED"}
Rows == {"none", "PENDING"} \cup Terminal

VARIABLES
    offers,   \* the frozen calls, in the order they were parked
    row,      \* the ActionApproval rows
    entries   \* the approvals the map of this process still holds

storeVars == <<offers, row, entries>>

StoreTypeOK ==
    /\ offers \in Seq(Offers) /\ Len(offers) <= MaxOffers
    /\ row \in [Ids -> Rows]
    /\ entries \subseteq 1..Len(offers)

StoreInit ==
    /\ offers = <<>>
    /\ row = [i \in Ids |-> "none"]
    /\ entries = {}

---------------------------------------------------------------------------
(* Mutant of Claimable: only the row is asked.                             *)
PendingRow(i) == row[i] = "PENDING"

(* claimApproval: the row must be undecided, and this process must hold    *)
(* what was frozen.  It decides nothing by itself.                         *)
Claimable(i) == row[i] = "PENDING" /\ i \in entries

(* The call is too old, or forgotten; a row already decided stays.         *)
ExpireUnclaimable(i) ==
    IF row[i] = "PENDING"
      THEN row' = [row EXCEPT ![i] = "EXPIRED"] /\ entries' = entries \ {i}
      ELSE UNCHANGED <<row, entries>>

(* settleApproval: the entry goes, and the row is written whatever it says. *)
Settle(i, decision) ==
    /\ entries' = entries \ {i}
    /\ row' = [row EXCEPT ![i] = decision]

(* settleStaleApprovalForSession, up to its await: the oldest entry goes.  *)
Oldest(S) == CHOOSE i \in S : \A j \in S : i <= j

(* The guarded update that follows it.                                     *)
RetireRow(i) == row' = [row EXCEPT ![i] = IF @ = "PENDING" THEN "DENIED" ELSE @]

(* createPendingApproval, up to its insert: what is older than             *)
(* APPROVAL_TTL_MS is swept from the map and from the table, and the new   *)
(* call is frozen in the map.                                              *)
Park(o, overdue) ==
    /\ Len(offers) < MaxOffers
    /\ overdue \subseteq 1..Len(offers)
    /\ offers' = Append(offers, o)
    /\ entries' = (entries \ overdue) \cup {Len(offers) + 1}
    /\ row' = [i \in Ids |-> IF i \in overdue /\ row[i] = "PENDING" THEN "EXPIRED" ELSE row[i]]

Insert(i) == row' = [row EXCEPT ![i] = "PENDING"]

============================================================================
