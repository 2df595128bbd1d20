------------------------------ MODULE MCPlan ------------------------------
EXTENDS PlanCoordinator, TLC

(* Two bins hold what the first plan needs; the Sheet is emptied and       *)
(* filled again.                                                           *)
MCShelf == [b \in 1..2 |-> [sku |-> "s", quantity |-> 1, status |-> "OCCUPIED",
                            trusted |-> FALSE]]
MCNeeds == [full |-> <<[sku |-> "s", quantity |-> 2]>>, empty |-> <<>>]
MCEdits == <<"full", "empty">>

(* Every shelf of three bins of one or two SKUs, lists that mention a SKU  *)
(* twice or an unknown one, an analysis and a preparation job.             *)
TestBins(skus) ==
    [sku: skus, quantity: 0..2, status: {"OCCUPIED", "CHECKED_OUT"}, trusted: BOOLEAN]

TestShelves ==
    {(1 :> x) @@ (2 :> y) @@ (3 :> z) :
       x \in TestBins({"s"}), y \in TestBins({"s"}), z \in TestBins({"s", "t"})}

TestLists ==
    LET Of(sku, n) == [sku |-> sku, quantity |-> n]
    IN {<<Of("s", 1)>>, <<Of("t", 1), Of("s", 2)>>, <<Of("s", 1), Of("s", 2)>>,
        <<Of("s", 1), Of("u", 1)>>}

TestOptions ==
    [excluded: {{}, {1}}, onward: {TRUE}, evidence: {TRUE}, checkout: {FALSE}]
      \cup [excluded: {{}}, onward: {FALSE}, evidence: {FALSE}, checkout: BOOLEAN]

(* prepareMaterialsFulfillment keeps its promises (see Sound).  It is about *)
(* constants, so it is enough to look where a behaviour starts.            *)
SelectionIsSound ==
    Init =>
      \A rack \in TestShelves, list \in TestLists, o \in TestOptions :
         Sound(list, rack, o)

============================================================================
