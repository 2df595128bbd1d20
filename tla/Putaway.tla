------------------------------ MODULE Putaway ------------------------------
(***************************************************************************)
(* executePutaway (an identified scan goes into a bin, a checked-out bin   *)
(* goes home, or its contents go to another slot) and returnCheckedOutBin  *)
(* (the same return, asked for by bin).  The bin is reserved first, then   *)
(* photographed, and only an accepted count lets the gantry start.         *)
(***************************************************************************)
EXTENDS Warehouse

(* planDestination.  Which plan applies depends on the catalog part, which *)
(* is abstracted: an intake into a compatible bin, a checked-out bin with  *)
(* its positive baseline returned home, or relocated to an empty slot.     *)
IntakePlan(b) ==
    /\ binStatus[b] \in OnShelfStatus
    /\ (binStatus[b] = "OCCUPIED") <=> (Held(b) > 0)
    /\ Held(b) < Capacity
HomePlan(b) == binStatus[b] = "CHECKED_OUT" /\ Held(b) > 0
RelocationPlan(b, s) ==
    /\ HomePlan(s)
    /\ s # b
    /\ binStatus[b] = "AVAILABLE"
    /\ Held(b) = 0

(* The scan's key is looked up, then a destination is planned.             *)
PutawayBegin(r, b, s, k) ==
    /\ At(r, "idle")
    /\ call[r].kind = "putaway"
    /\ LET key == <<"scan", k>> IN
       IF ~KeyTaken(key) /\ (IF s = NoBin THEN IntakePlan(b) \/ HomePlan(b)
                                          ELSE RelocationPlan(b, s))
       THEN Planned(r, key, b, s, binStatus[b], Held(IF s = NoBin THEN b ELSE s), TRUE)
       ELSE Goto(r, "done")
    /\ UNCHANGED <<binStatus, stock, movement, capture, place, holder, latched,
                   adjustments, history>>

Returning(r) == call[r].orig = "CHECKED_OUT" \/ call[r].src # NoBin

(* One transaction: reserve the bin (and the slot a relocation leaves),    *)
(* re-check what was read, create the movement under the scan's key.       *)
PutawayClaim(r) ==
    LET b == call[r].bin
        s == call[r].src
        unchangedSinceRead ==
            /\ binStatus[b] = call[r].orig
            /\ IF s = NoBin
               THEN Held(b) = call[r].base
               ELSE binStatus[s] = "CHECKED_OUT" /\ stock[s] = call[r].base /\ Held(b) = 0
    IN
    /\ At(r, "claim")
    /\ call[r].kind = "putaway"
    /\ IF unchangedSinceRead /\ ~KeyTaken(call[r].key)
       THEN /\ Reserve(r, {b, s})
            /\ CreateMovement(r,
                 [status |-> "VALIDATED", type |-> "PUTAWAY", bin |-> b, src |-> s,
                  from |-> IF Returning(r) THEN "OUTPUT" ELSE "INTAKE",
                  prev |-> call[r].base, key |-> call[r].key])
            /\ Goto(r, "await")
       ELSE /\ Goto(r, "done")
            /\ UNCHANGED <<binStatus, movement, history>>
    /\ UNCHANGED <<stock, capture, place, holder, latched, adjustments>>

(* returnCheckedOutBin refuses a bin with an active return, or with a      *)
(* checkout whose count is still being checked.                            *)
ReturnBegin(r, b) ==
    /\ At(r, "idle")
    /\ call[r].kind = "return"
    /\ IF \E m \in Calls :
            /\ movement[m].bin = b
            /\ \/ /\ movement[m].from = "OUTPUT"
                  /\ movement[m].status \in {"VALIDATED", "AWAITING_PLACEMENT", "RUNNING"}
               \/ /\ movement[m].type = "RETRIEVAL"
                  /\ movement[m].status = "AWAITING_VERIFICATION"
       THEN Goto(r, "done")
       ELSE Planned(r, NoKey, b, NoBin, "CHECKED_OUT", 0, TRUE)
    /\ UNCHANGED <<binStatus, stock, movement, capture, place, holder, latched,
                   adjustments, history>>

(* Mutant of ReturnClaim: the update to RESERVED is unconditional.         *)
ReturnClaimUnconditional(r) ==
    LET b == call[r].bin IN
    /\ At(r, "claim")
    /\ call[r].kind = "return"
    /\ stock[b] # NoRow
    /\ Reserve(r, {b})
    /\ CreateMovement(r,
         [status |-> "VALIDATED", type |-> "PUTAWAY", bin |-> b, src |-> NoBin,
          from |-> "OUTPUT", prev |-> stock[b], key |-> NoKey])
    /\ call' = [call EXCEPT ![r].pc = "await", ![r].base = stock[b]]
    /\ UNCHANGED <<stock, capture, place, holder, latched, adjustments>>

(* The bin and its one inventory row are read, then claimed on condition   *)
(* that neither has changed; there is no key.                              *)
ReturnClaim(r) ==
    LET b == call[r].bin IN
    /\ At(r, "claim")
    /\ call[r].kind = "return"
    /\ IF binStatus[b] = "CHECKED_OUT" /\ stock[b] # NoRow
       THEN /\ Reserve(r, {b})
            /\ CreateMovement(r,
                 [status |-> "VALIDATED", type |-> "PUTAWAY", bin |-> b,
                  src |-> NoBin, from |-> "OUTPUT", prev |-> stock[b], key |-> NoKey])
            /\ call' = [call EXCEPT ![r].pc = "await", ![r].base = stock[b]]
       ELSE /\ Goto(r, "done")
            /\ UNCHANGED <<binStatus, movement, history>>
    /\ UNCHANGED <<stock, capture, place, holder, latched, adjustments>>

(* The claim for motion: whoever closes the movement first wins.  A call   *)
(* that finds it closed leaves without touching the bin.                   *)
PutawayRun(r) ==
    /\ At(r, "decided")
    /\ call[r].kind \in {"putaway", "return"}
    /\ IF movement[r].status \in {"VALIDATED", "AWAITING_PLACEMENT"}
       THEN SetMovement(r, "RUNNING") /\ Goto(r, "dispatch")
       ELSE Goto(r, "done") /\ UNCHANGED movement
    /\ UNCHANGED <<binStatus, stock, capture, place, holder, latched,
                   adjustments, history>>

(* Mutant of PutawayRelease: both bins get the destination's old status.   *)
PutawayReleaseAlike(r) ==
    LET freed == {call[r].bin, call[r].src} IN
    /\ call[r].pc \in {"abort", "busy", "refused", "notMoved"}
    /\ call[r].kind \in {"putaway", "return"}
    /\ CloseMovement(r, "FAILED")
    /\ binStatus' = [x \in Bins |-> IF x \in freed /\ binStatus[x] = "RESERVED"
                                     THEN call[r].orig ELSE binStatus[x]]
    /\ Goto(r, "done")
    /\ UNCHANGED <<stock, capture, place, holder, latched, adjustments, history>>

(* releaseClaim: the movement is closed whatever its status; the bins go   *)
(* back to what they were, if they are RESERVED, by whomever.              *)
PutawayRelease(r) ==
    LET b == call[r].bin
        s == call[r].src
        restored == Released(binStatus, b, call[r].orig)
    IN
    /\ call[r].pc \in {"abort", "busy", "refused", "notMoved"}
    /\ call[r].kind \in {"putaway", "return"}
    /\ CloseMovement(r, "FAILED")
    /\ binStatus' = IF s = NoBin THEN restored ELSE Released(restored, s, "CHECKED_OUT")
    /\ misreleased' = misreleased \cup
         {x \in {b, s} \cap Bins : binStatus[x] = "RESERVED" /\ owner[x] # r}
    /\ Goto(r, "done")
    /\ UNCHANGED <<stock, capture, place, holder, latched, adjustments, owner>>

(* releaseClaim with reconciliationRequired keeps reservation and key.     *)
PutawayUncertain(r) ==
    /\ At(r, "uncertain")
    /\ call[r].kind \in {"putaway", "return"}
    /\ SetMovement(r, "FAILED")
    /\ Goto(r, "done")
    /\ UNCHANGED <<binStatus, stock, capture, place, holder, latched,
                   adjustments, history>>

(* The final transaction: the baseline and every reservation must still be *)
(* there, and a relocation needs its slot to have no row.  Then the count, *)
(* the bins and the movement are written together.  Otherwise nothing is,  *)
(* and the movement stays RUNNING.                                         *)
PutawayCommit(r) ==
    LET b == call[r].bin
        s == call[r].src
        n == capture[r].count
        home == IF s = NoBin THEN b ELSE s
        baselineHolds == IF Returning(r) THEN stock[home] = call[r].base
                                         ELSE Held(home) = call[r].base
        slotIsFree == s # NoBin /\ n > 0 => stock[b] = NoRow
    IN
    /\ At(r, "moved")
    /\ call[r].kind \in {"putaway", "return"}
    /\ IF /\ baselineHolds
          /\ slotIsFree
          /\ \A x \in {b, s} \cap Bins : binStatus[x] = "RESERVED"
       THEN /\ stock' = [x \in Bins |->
                 CASE x = b /\ n > 0 -> n
                   [] x = home /\ (n = 0 \/ x # b) -> NoRow
                   [] OTHER -> stock[x]]
            /\ binStatus' = [x \in Bins |->
                 CASE x = b -> IF n > 0 THEN "OCCUPIED" ELSE "AVAILABLE"
                   [] x = s -> "AVAILABLE"
                   [] OTHER -> binStatus[x]]
            /\ SetMovement(r, "COMPLETED")
       ELSE UNCHANGED <<stock, binStatus, movement>>
    /\ Goto(r, "done")
    /\ UNCHANGED <<capture, place, holder, latched, adjustments, history>>

PutawayStep(r) ==
    \/ \E b \in Bins, s \in Bins \cup {NoBin}, k \in Keys : PutawayBegin(r, b, s, k)
    \/ \E b \in Bins : ReturnBegin(r, b)
    \/ PutawayClaim(r) \/ ReturnClaim(r) \/ PutawayRun(r) \/ PutawayRelease(r)
    \/ PutawayUncertain(r) \/ PutawayCommit(r)

============================================================================
