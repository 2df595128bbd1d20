------------------------ MODULE MaterialsSelection ------------------------
(***************************************************************************)
(* prepareMaterialsFulfillment (materials-fulfillment-service.ts): which   *)
(* bins a list of requirements is met from, which bins must be audited     *)
(* first, or what is missing.  A pure function of the shelf as it was      *)
(* read: bins are numbers in shelf order, a bin holds one SKU.             *)
(***************************************************************************)
EXTENDS Integers, FiniteSetsExt

CONSTANTS
    Skus,
    MaxSelected  \* MAX_MATERIALS_FULFILLMENT_BINS

ASSUME SelectionAssumption == IsFiniteSet(Skus) /\ MaxSelected \in Nat \ {0}

(* trusted: getBinVerificationEvidence finds a current verification.       *)
Bin == [sku: Skus, quantity: Nat, status: {"OCCUPIED", "CHECKED_OUT"},
        trusted: BOOLEAN]

(* excluded: bins the analysis has audited already; onward: assess the     *)
(* other SKUs after a known shortage; evidence, checkout: the two ways a   *)
(* preparation job differs from an analysis.                               *)
Options == [excluded: SUBSET Nat, onward: BOOLEAN, evidence: BOOLEAN,
            checkout: BOOLEAN]

---------------------------------------------------------------------------
Quantity(bins, shelf) == MapThenSumSet(LAMBDA b : shelf[b].quantity, bins)

(* aggregateRequirements: what the list asks for of one SKU.               *)
Asked(list) == {list[i].sku : i \in DOMAIN list}

Need(sku, list) ==
    MapThenSumSet(LAMBDA i : list[i].quantity, {i \in DOMAIN list : list[i].sku = sku})

Stocked(sku, shelf, o) ==
    {b \in DOMAIN shelf :
       /\ shelf[b].sku = sku /\ shelf[b].quantity > 0
       /\ \/ shelf[b].status = "OCCUPIED"
          \/ o.checkout /\ ~o.evidence /\ shelf[b].status = "CHECKED_OUT"}

Sure(sku, shelf, o) ==
    {b \in Stocked(sku, shelf, o) : o.evidence => shelf[b].trusted}

Unsure(sku, shelf, o) ==
    {b \in Stocked(sku, shelf, o) : ~shelf[b].trusted} \ o.excluded

(* A bin at checkout is used up first, the rest in shelf order.            *)
TakenBefore(a, b, shelf) ==
    LET Out(c) == shelf[c].status = "CHECKED_OUT"
    IN \/ Out(a) /\ ~Out(b)
       \/ Out(a) = Out(b) /\ a < b

(* The largest bin is audited first: that takes the fewest trips.          *)
AuditedBefore(a, b, shelf) ==
    \/ shelf[a].quantity > shelf[b].quantity
    \/ shelf[a].quantity = shelf[b].quantity /\ a < b

(* Mutant of Taken: one bin is taken after the need is covered.            *)
TakenToExcess(sku, list, shelf, o) ==
    LET sure == Sure(sku, shelf, o)
    IN {b \in sure : Quantity({a \in sure : TakenBefore(a, b, shelf)}, shelf)
                       <= Need(sku, list)}

(* Bins are taken one after the other until they cover the need.           *)
Taken(sku, list, shelf, o) ==
    LET sure == Sure(sku, shelf, o)
    IN {b \in sure : Quantity({a \in sure : TakenBefore(a, b, shelf)}, shelf)
                       < Need(sku, list)}

(* What the trusted bins lack.                                             *)
Missing(sku, list, shelf, o) ==
    Need(sku, list) - Quantity(Sure(sku, shelf, o), shelf)

ToAudit(sku, list, shelf, o) ==
    LET unsure == Unsure(sku, shelf, o)
    IN {b \in unsure : Quantity({a \in unsure : AuditedBefore(a, b, shelf)}, shelf)
                         < Missing(sku, list, shelf, o)}

(* The requirements fall into those known to be short, those ready, and    *)
(* those in doubt; blocked are the ones audits cannot settle any more.     *)
Short(list, shelf, o) ==
    {sku \in Asked(list) : Quantity(Stocked(sku, shelf, o), shelf) < Need(sku, list)}

Doubted(list, shelf, o) ==
    {sku \in Asked(list) \ Short(list, shelf, o) : Missing(sku, list, shelf, o) > 0}

Blocked(list, shelf, o) ==
    {sku \in Doubted(list, shelf, o) :
       Quantity(Unsure(sku, shelf, o), shelf) < Missing(sku, list, shelf, o)}

Ready(list, shelf, o) == Asked(list) \ (Short(list, shelf, o) \cup Doubted(list, shelf, o))

Selected(list, shelf, o) == UNION {Taken(sku, list, shelf, o) : sku \in Ready(list, shelf, o)}

Targets(list, shelf, o) ==
    UNION {ToAudit(sku, list, shelf, o) : sku \in Doubted(list, shelf, o)}

(* The answer: a selection that covers everything, or why there is none.   *)
Verdict(list, shelf, o) ==
    LET selected == Selected(list, shelf, o)
        out == {b \in selected : shelf[b].status = "CHECKED_OUT"}
        short == Short(list, shelf, o)
    IN IF Asked(list) = {} \/ ~(Asked(list) \subseteq Skus) THEN "invalid"
       ELSE IF short # {} /\ ~o.onward THEN "shortage"
       ELSE IF Targets(list, shelf, o) # {} THEN "verify"
       ELSE IF short # {} THEN "shortage"
       ELSE IF Blocked(list, shelf, o) # {} THEN "incomplete"
       ELSE IF Cardinality(selected) > MaxSelected \/ Cardinality(out) > 1 THEN "invalid"
       ELSE "ok"

(* The first of the targets: those of the SKU mentioned first.             *)
FirstTarget(list, shelf, o) ==
    LET targets == Targets(list, shelf, o)
        Mention(b) == Min({i \in DOMAIN list : list[i].sku = shelf[b].sku})
    IN CHOOSE b \in targets : \A a \in targets \ {b} :
         \/ Mention(b) < Mention(a)
         \/ Mention(b) = Mention(a) /\ AuditedBefore(b, a, shelf)

---------------------------------------------------------------------------
(* What the selection promises, whatever the sums it decides by: a plan    *)
(* that is ok covers every requirement from bins it may rely on, and the   *)
(* bins it takes of one SKU do not cover it without the one that is taken  *)
(* last, so that it goes to no bin after the need is met (not the fewest   *)
(* bins: in shelf order a small bin may come before one that would do      *)
(* alone).  It is refused for want of stock only if some requirement       *)
(* cannot be met, and never if the trusted stock meets all.  The audits it *)
(* asks for do settle a requirement in the fewest trips ("largest bins     *)
(* first minimizes physical audit trips", the comment at line 220 of       *)
(* materials-fulfillment-service.ts).                                      *)
OfSku(bins, sku, shelf) == {b \in bins : shelf[b].sku = sku}

Sound(list, shelf, o) ==
    LET verdict == Verdict(list, shelf, o)
        selected == Selected(list, shelf, o)
        Lacks(sku, bins) == Quantity(bins, shelf) < Need(sku, list)
    IN /\ verdict = "ok" =>
            \A sku \in Asked(list) :
               LET mine == OfSku(selected, sku, shelf)
               IN /\ mine \subseteq Sure(sku, shelf, o) /\ ~Lacks(sku, mine)
                  /\ \A b \in mine : (\A a \in mine \ {b} : TakenBefore(a, b, shelf))
                                       => Lacks(sku, mine \ {b})
       /\ verdict \in {"shortage", "incomplete"} =>
            \E sku \in Asked(list) :
               Lacks(sku, Sure(sku, shelf, o) \cup Unsure(sku, shelf, o))
       /\ (Asked(list) # {} /\ \A sku \in Asked(list) : ~Lacks(sku, Sure(sku, shelf, o)))
            => verdict \in {"ok", "invalid"}
       /\ verdict = "verify" =>
            \A sku \in Doubted(list, shelf, o) \ Blocked(list, shelf, o) :
               LET audits == OfSku(Targets(list, shelf, o), sku, shelf)
               IN /\ ~Lacks(sku, Sure(sku, shelf, o) \cup audits)
                  /\ \A bins \in SUBSET Unsure(sku, shelf, o) :
                       Cardinality(bins) < Cardinality(audits)
                         => Lacks(sku, Sure(sku, shelf, o) \cup bins)

============================================================================
