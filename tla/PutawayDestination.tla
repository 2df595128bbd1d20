------------------------ MODULE PutawayDestination ------------------------
(***************************************************************************)
(* Which bin takes n pieces of a part (putaway-destination.ts) and which   *)
(* bin gives a part out (retrieval-stock.ts): the rules the graphs and the *)
(* services share.  Bins are numbered in shelf order.  A row of a bin and  *)
(* a part may be missing, or be there with a count of zero: the baseline   *)
(* of an empty bin that is checked out.                                    *)
(***************************************************************************)
EXTENDS CatalogResolution, Integers, FiniteSetsExt

CONSTANTS Bins, Capacity

ASSUME BinsAssumption == Bins \subseteq Nat \ {0} /\ Capacity \in [Bins -> Nat \ {0}]

NoBin == 0
Missing == -1
NONE == "none"
MaxCapacity == Max({Capacity[b] : b \in Bins})
Rows == Missing .. MaxCapacity

VARIABLES
    binStatus, \* per bin
    stock      \* per bin and part: a row of the Inventory table

shelfVars == <<binStatus, stock>>

BinStatus ==
    {"AVAILABLE", "RESERVED", "OCCUPIED", "CHECKED_OUT", "AUDITING", "DISABLED"}

Nothing == [p \in Parts |-> Missing]

Contents(b) == {p \in Parts : stock[b][p] > 0}

Quantity(b) == MapThenSumSet(LAMBDA p : stock[b][p], Contents(b))

First(bins) == IF bins = {} THEN NoBin ELSE Min(bins)

---------------------------------------------------------------------------
(* evaluatePutawayDestination.  A bin being audited is not refused.        *)
EvaluateDestination(status, b, p, n) ==
    CASE status \in {"DISABLED", "RESERVED", "CHECKED_OUT"} -> status
      [] OTHER ->
           IF Contents(b) \ {p} # {} THEN "DIFFERENT_PART"
           ELSE IF (status = "AVAILABLE" /\ Quantity(b) # 0)
                     \/ (status = "OCCUPIED" /\ Quantity(b) = 0) THEN "INCONSISTENT"
           ELSE IF Quantity(b) + n > Capacity[b] THEN "FULL"
           ELSE "COMPATIBLE"

(* The bins listPutawayDestinations marks as eligible.                     *)
Eligible(p, n) == {b \in Bins : EvaluateDestination(binStatus[b], b, p, n) = "COMPATIBLE"}

StoresOnly(b, p) == Contents(b) = {p}

(* An empty slot for a bin whose home cannot take what it now holds.       *)
EmptySlots(p, n) == {b \in Eligible(p, n) : binStatus[b] = "AVAILABLE" /\ Quantity(b) = 0}

(* The checked-out bin a part belongs to.                                  *)
CheckedOutBin(p) == First({b \in Bins : binStatus[b] = "CHECKED_OUT" /\ stock[b][p] > 0})

Preferred(p, n) ==
    LET same == {b \in Eligible(p, n) : StoresOnly(b, p)}
    IN IF same # {} THEN First(same) ELSE First(Eligible(p, n))

---------------------------------------------------------------------------
(* retrievalStockIssue: why p cannot be had, from one bin or from any.     *)
StockIssue(p, requested) ==
    LET stocked == {b \in Bins : stock[b][p] > 0}
        locations == IF requested = NoBin THEN stocked ELSE stocked \cap {requested}
    IN IF \E b \in locations : binStatus[b] = "OCCUPIED" THEN NONE
       ELSE IF \E b \in locations : binStatus[b] = "CHECKED_OUT" THEN "source_bin_checked_out"
       ELSE IF locations # {} THEN "inventory_conflict"
       ELSE IF requested # NoBin /\ stocked # {} THEN NONE
       ELSE "out_of_stock"

(* The source: the bin asked for if it holds p, else the first that does.  *)
ChooseSource(p, requested) ==
    LET stocked == {b \in Bins : stock[b][p] > 0 /\ binStatus[b] = "OCCUPIED"}
    IN IF StockIssue(p, requested) # NONE THEN NoBin
       ELSE IF requested = NoBin THEN First(stocked)
       ELSE First(stocked \cap {requested})

---------------------------------------------------------------------------
(* inventory-service.ts.  A row of zero is not the absence of a row.       *)
HasRow(b, p) == stock[b][p] # Missing
Count(b, p) == IF HasRow(b, p) THEN stock[b][p] ELSE 0

(* One part per bin: the first row found must be of p.                     *)
AddInventory(b, p, n) ==
    /\ binStatus[b] \notin {"DISABLED", "AUDITING"}
    /\ HasRow(b, p) \/ stock[b] = Nothing
    /\ Count(b, p) + n <= Capacity[b]
    /\ stock' = [stock EXCEPT ![b][p] = Count(b, p) + n]
    /\ binStatus' = [binStatus EXCEPT ![b] = IF @ = "AVAILABLE" THEN "OCCUPIED" ELSE @]

RemoveInventory(b, p, n) ==
    /\ binStatus[b] # "AUDITING"
    /\ HasRow(b, p) /\ stock[b][p] >= n
    /\ stock' = [stock EXCEPT ![b][p] = IF @ = n THEN Missing ELSE @ - n]
    /\ binStatus' = [binStatus EXCEPT ![b] =
         IF @ = "OCCUPIED" /\ stock'[b] = Nothing THEN "AVAILABLE" ELSE @]

============================================================================
