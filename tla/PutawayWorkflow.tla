-------------------------- MODULE PutawayWorkflow --------------------------
(***************************************************************************)
(* The six nodes that put a scanned part away (graphs/putaway-nodes.ts),   *)
(* with the putaway service under the execute node.  A part whose bin is   *)
(* checked out goes back in that bin, or, with the bin, to an empty slot.  *)
(***************************************************************************)
EXTENDS WorkflowGraph

Acceptable(x) == request[x].photo /\ request[x].sure

ValidatePutaway(x) ==
    /\ At(x, "PUTAWAY", "validate")
    /\ IF request[x].valid /\ Finished(x) # {}
       THEN Becomes(x, [NextNode(x, "identity") EXCEPT !.duplicate = TRUE])
       ELSE IF request[x].valid /\ Acceptable(x)
       THEN Becomes(x, NextNode(x, "identity"))
       ELSE Blocks(x)
    /\ READS

(* The matcher, or a resolution an operator confirmed.                     *)
IdentityOf(x) == ResolveIdentity(request[x].scan, request[x].given).part

ResolvePutawayIdentity(x) ==
    /\ At(x, "PUTAWAY", "identity")
    /\ IF run[x].duplicate
       THEN \E y \in Finished(x) :
              Becomes(x, [NextNode(x, "destination") EXCEPT !.part = movement[y].part])
       ELSE IF IdentityOf(x) = NoPart
       THEN Blocks(x)
       ELSE Becomes(x, [NextNode(x, "destination") EXCEPT !.part = IdentityOf(x)])
    /\ IF run[x].duplicate
       THEN UNCHANGED resolution
       ELSE ReadsResolution(request[x].scan, request[x].given)
    /\ UNCHANGED <<request, movement, shelfVars, catalog, old, clerk, confirmed>>

---------------------------------------------------------------------------
(* Where p may go if the bin is named: <<bin, home>>, home the checked-out *)
(* bin it goes back in; none if it may not go there.                       *)
Nowhere == <<NoBin, NoBin>>

NamedDestination(b, p, n) ==
    LET home == CheckedOutBin(p)
    IN IF binStatus[b] = "CHECKED_OUT"
       THEN IF StoresOnly(b, p) /\ n <= Capacity[b] THEN <<b, b>> ELSE Nowhere
       ELSE IF home # NoBin
       THEN IF binStatus[b] = "AVAILABLE" /\ Quantity(b) = 0 /\ n <= Capacity[b]
            THEN <<b, home>> ELSE Nowhere
       ELSE IF b \in Eligible(p, n) THEN <<b, NoBin>> ELSE Nowhere

ChosenDestination(p, n) ==
    LET home == CheckedOutBin(p)
        b == IF home = NoBin THEN Preferred(p, n)
             ELSE IF n <= Capacity[home] THEN home ELSE First(EmptySlots(p, n))
    IN IF b = NoBin THEN Nowhere ELSE <<b, home>>

ResolveDestination(x) ==
    /\ At(x, "PUTAWAY", "destination")
    /\ LET n == request[x].quantity
           d == IF request[x].bin # NoBin
                THEN NamedDestination(request[x].bin, run[x].part, n)
                ELSE ChosenDestination(run[x].part, n)
       IN IF run[x].duplicate
          THEN \E y \in Finished(x) :
                 Becomes(x, [NextNode(x, "preflight") EXCEPT !.bin = movement[y].bin,
                               !.home = movement[y].home])
          ELSE IF d = Nowhere
          THEN Blocks(x)
          ELSE Becomes(x, [NextNode(x, "preflight") EXCEPT !.bin = d[1], !.home = d[2]])
    /\ READS

Relocating(bin, home) == home # NoBin /\ home # bin

PutawayPreflight(x) ==
    /\ At(x, "PUTAWAY", "preflight")
    /\ LET r == run[x]
           ready ==
             /\ r.part \in catalog
             /\ IF r.home = NoBin THEN binStatus[r.bin] \in {"AVAILABLE", "OCCUPIED"}
                ELSE IF r.home = r.bin THEN binStatus[r.bin] = "CHECKED_OUT"
                ELSE binStatus[r.bin] = "AVAILABLE" /\ binStatus[r.home] = "CHECKED_OUT"
             /\ Claimed(x) = Finished(x)
       IN IF r.duplicate \/ ready THEN Becomes(x, NextNode(x, "execute")) ELSE Blocks(x)
    /\ READS

---------------------------------------------------------------------------
(* The old home must still be of this part alone.                          *)
Mixed(home, p) == home # NoBin /\ ~StoresOnly(home, p)

(* executePutaway decides everything again, from the request and the bin   *)
(* the graph chose, and plans with rows it reads outside its transaction.  *)
PlanPutaway(x) ==
    LET p == IdentityOf(x)
        d == NamedDestination(run[x].bin, p, request[x].quantity)
    IN /\ At(x, "PUTAWAY", "execute")
       /\ \/ /\ Claimed(x) # {}
             /\ ReplayOrReject(x)
             /\ UNCHANGED resolution
          \/ /\ Claimed(x) = {}
             /\ IF p = NoPart \/ d = Nowhere \/ Mixed(d[2], p)
                THEN Fails(x, NoRun)
                ELSE Becomes(x, [NextNode(x, "claim") EXCEPT !.part = p, !.home = d[2],
                       !.before = Quantity(IF d[2] = NoBin THEN d[1] ELSE d[2]),
                       !.into = Quantity(d[1]), !.was = binStatus[d[1]]])
             /\ ReadsResolution(request[x].scan, request[x].given)
       /\ UNCHANGED <<request, movement, shelfVars, catalog, old, clerk, confirmed>>

(* The transaction takes the bin only in the state the plan saw, with the  *)
(* contents the plan saw, and the old home with it.                        *)
AsPlanned(x) ==
    LET r == run[x]
    IN /\ Claimed(x) = {}
       /\ binStatus[r.bin] = r.was
       /\ Quantity(r.bin) = r.into /\ Contents(r.bin) \subseteq {r.part}
       /\ Relocating(r.bin, r.home) => binStatus[r.home] = "CHECKED_OUT"
       /\ r.home # NoBin => stock[r.home][r.part] = r.before
       /\ r.home = NoBin =>
            EvaluateDestination(r.was, r.bin, r.part, request[x].quantity) = "COMPATIBLE"

ClaimPutaway(x) ==
    LET r == run[x]
    IN /\ At(x, "PUTAWAY", "claim")
       /\ IF AsPlanned(x)
          THEN /\ binStatus' = [b \in Bins |->
                    IF b \in {r.bin, r.home} THEN "RESERVED" ELSE binStatus[b]]
               /\ movement' = [movement EXCEPT ![x] =
                    [status |-> "VALIDATED", keyed |-> TRUE, part |-> r.part, bin |-> r.bin,
                     home |-> r.home, before |-> r.before,
                     count |-> IF r.home = NoBin THEN r.before + request[x].quantity
                               ELSE request[x].quantity]]
               /\ Becomes(x, [NextNode(x, "move") EXCEPT !.movement = x])
          ELSE Fails(x, NoRun) /\ UNCHANGED <<movement, binStatus>>
       /\ UNCHANGED <<request, stock, catalogVars>>

(* Mutant of ReleasePutaway: the old home is forgotten.                    *)
ReleaseForgetsHome(x, uncertain) ==
    LET r == run[x]
    IN /\ movement' = [movement EXCEPT ![x].status = "FAILED", ![x].keyed = uncertain]
       /\ binStatus' = [binStatus EXCEPT ![r.bin] =
            IF @ = "RESERVED" /\ ~uncertain THEN r.was ELSE @]
       /\ UNCHANGED stock
       /\ Fails(x, x)

(* releaseClaim: no photo, or no motion.  After an uncertain motion bins   *)
(* and key are kept.                                                       *)
ReleasePutaway(x, uncertain) ==
    LET r == run[x]
    IN /\ movement' = [movement EXCEPT ![x].status = "FAILED", ![x].keyed = uncertain]
       /\ binStatus' =
            IF uncertain THEN binStatus
            ELSE [b \in Bins |->
                    IF binStatus[b] # "RESERVED" THEN binStatus[b]
                    ELSE IF b = r.bin THEN r.was
                    ELSE IF b = r.home THEN "CHECKED_OUT"
                    ELSE binStatus[b]]
       /\ UNCHANGED stock
       /\ Fails(x, x)

(* The baseline the commit insists on.                                     *)
Unmoved(x) ==
    LET r == run[x]
    IN /\ binStatus[r.bin] = "RESERVED"
       /\ IF r.home = NoBin
          THEN Count(r.bin, r.part) = r.before
          ELSE HasRow(r.home, r.part) /\ stock[r.home][r.part] = r.before
       /\ Relocating(r.bin, r.home) => binStatus[r.home] = "RESERVED"
       \* the row of the new slot is created
       /\ Relocating(r.bin, r.home) => ~HasRow(r.bin, r.part)

(* n pieces were counted.  An empty bin keeps no row.                      *)
CommitPutaway(x, n) ==
    LET r == run[x]
    IN /\ Unmoved(x)
       /\ stock' = [b \in Bins |->
            IF b = r.bin
            THEN [stock[b] EXCEPT ![r.part] = IF n = 0 THEN Missing ELSE n]
            ELSE IF b = r.home
            THEN [stock[b] EXCEPT ![r.part] = Missing]
            ELSE stock[b]]
       /\ binStatus' = [b \in Bins |->
            IF b = r.bin THEN IF n > 0 THEN "OCCUPIED" ELSE "AVAILABLE"
            ELSE IF b = r.home THEN "AVAILABLE" ELSE binStatus[b]]
       /\ movement' = [movement EXCEPT ![x].status = "COMPLETED", ![x].count = n]
       /\ \/ Becomes(x, [NextNode(x, "verify") EXCEPT !.result = "ok", !.count = n])
          \/ Ends(x, [run[x] EXCEPT !.result = "ok", !.count = n], "ERROR")

(* The bin moved and the books did not follow.                             *)
PutawayNotSaved(x) ==
    /\ ~Unmoved(x)
    /\ movement' = [movement EXCEPT ![x].status = "RUNNING"]
    /\ UNCHANGED shelfVars
    /\ Fails(x, x)

MovePutaway(x) ==
    /\ At(x, "PUTAWAY", "move")
    /\ \/ \E uncertain \in BOOLEAN : ReleasePutaway(x, uncertain)
       \/ \E n \in 0 .. Capacity[run[x].bin] : CommitPutaway(x, n)
       \/ PutawayNotSaved(x)
    /\ UNCHANGED <<request, catalogVars>>

---------------------------------------------------------------------------
(* The last node finds a bin that came back empty incoherent.              *)
PutawayCoherent(x) ==
    LET r == run[x]
    IN /\ NamedIsCompleted(x)
       /\ r.result = "ok" =>
            /\ binStatus[r.bin] = "OCCUPIED"
            /\ HasRow(r.bin, r.part) /\ stock[r.bin][r.part] = r.count
            /\ Relocating(r.bin, r.home) =>
                 binStatus[r.home] = "AVAILABLE" /\ ~HasRow(r.home, r.part)

(* No timeout is caught here.                                              *)
VerifyPutaway(x) ==
    /\ At(x, "PUTAWAY", "verify")
    /\ \E answer \in {IF PutawayCoherent(x) THEN "COMPLETED" ELSE "FAILED", "ERROR"} :
         Ends(x, run[x], answer)
    /\ READS

PutawayStep(x) ==
    \/ ValidatePutaway(x) \/ ResolvePutawayIdentity(x) \/ ResolveDestination(x)
    \/ PutawayPreflight(x) \/ PlanPutaway(x) \/ ClaimPutaway(x) \/ MovePutaway(x)
    \/ VerifyPutaway(x)

============================================================================
