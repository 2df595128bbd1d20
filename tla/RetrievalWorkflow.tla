------------------------- MODULE RetrievalWorkflow -------------------------
(***************************************************************************)
(* The seven nodes that check a bin out (graphs/retrieval-nodes.ts), with  *)
(* the retrieval service under the execute node, and the timeout of the    *)
(* graph after it (graphs/retrieval-graph.ts).                             *)
(***************************************************************************)
EXTENDS WorkflowGraph

ValidateRetrieval(x) ==
    /\ At(x, "RETRIEVAL", "validate")
    /\ IF request[x].valid
       THEN Becomes(x, [NextNode(x, "identity") EXCEPT !.duplicate = Finished(x) # {}])
       ELSE Blocks(x)
    /\ READS

(* A bin may stand for the part it holds.  That is asked of a repeated     *)
(* request too.                                                            *)
HeldBy(b) == IF b = NoBin THEN {} ELSE Contents(b)

PartsAskedFor(x) ==
    IF request[x].part # NoPart THEN {request[x].part} \cap catalog
    ELSE HeldBy(request[x].bin)

ResolvePart(x) ==
    /\ At(x, "RETRIEVAL", "identity")
    /\ IF PartsAskedFor(x) = {}
       THEN Blocks(x)
       ELSE \E p \in PartsAskedFor(x) : Becomes(x, [NextNode(x, "source") EXCEPT !.part = p])
    /\ READS

(* The nodes inventory and source, which read the same rows twice.         *)
SelectSource(x) ==
    /\ At(x, "RETRIEVAL", "source")
    /\ LET b == ChooseSource(run[x].part, request[x].bin)
       IN IF run[x].duplicate
          THEN \E y \in Finished(x) :
                 Becomes(x, [NextNode(x, "preflight") EXCEPT !.bin = movement[y].bin,
                               !.count = movement[y].before])
          ELSE IF b = NoBin
          THEN Blocks(x)
          ELSE Becomes(x, [NextNode(x, "preflight") EXCEPT !.bin = b,
                             !.count = stock[b][run[x].part]])
    /\ READS

RetrievalPreflight(x) ==
    /\ At(x, "RETRIEVAL", "preflight")
    /\ LET ready == /\ binStatus[run[x].bin] = "OCCUPIED"
                    /\ stock[run[x].bin][run[x].part] > 0
                    /\ Claimed(x) = Finished(x)
       IN IF run[x].duplicate \/ ready THEN Becomes(x, NextNode(x, "execute")) ELSE Blocks(x)
    /\ READS

---------------------------------------------------------------------------
(* executeRetrieval asks for everything again, from the request.  Its      *)
(* claim is one transaction: it takes the bin only as it was just read.    *)
ClaimRetrieval(x) ==
    /\ At(x, "RETRIEVAL", "execute")
    /\ \/ /\ Claimed(x) # {}
          /\ ReplayOrReject(x)
          /\ UNCHANGED <<movement, shelfVars>>
       \/ /\ Claimed(x) = {}
          /\ \/ /\ \A p \in PartsAskedFor(x) : ChooseSource(p, request[x].bin) = NoBin
                /\ Fails(x, NoRun)
                /\ UNCHANGED <<movement, shelfVars>>
             \/ \E p \in PartsAskedFor(x) :
                  LET b == ChooseSource(p, request[x].bin)
                  IN /\ b # NoBin
                     /\ binStatus' = [binStatus EXCEPT ![b] = "RESERVED"]
                     /\ movement' = [movement EXCEPT ![x] =
                          [status |-> "RUNNING", keyed |-> TRUE, part |-> p, bin |-> b,
                           home |-> NoBin, before |-> stock[b][p], count |-> stock[b][p]]]
                     /\ Becomes(x, [NextNode(x, "move") EXCEPT !.movement = x])
                     /\ UNCHANGED stock
    /\ UNCHANGED <<request, catalogVars>>

(* releaseClaim.  When the machine may have moved, bin and key are kept.   *)
ReleaseRetrieval(x, uncertain) ==
    /\ movement' = [movement EXCEPT ![x].status = "FAILED", ![x].keyed = uncertain]
    /\ binStatus' = [binStatus EXCEPT ![movement[x].bin] =
         IF @ = "RESERVED" /\ ~uncertain THEN "OCCUPIED" ELSE @]
    /\ Fails(x, x)

RetrievalMoved(x) ==
    LET m == movement[x]
        unchanged == stock[m.bin][m.part] = m.before /\ binStatus[m.bin] = "RESERVED"
        verified == request[x].verify
    IN IF unchanged
       THEN /\ binStatus' = [binStatus EXCEPT ![m.bin] = "CHECKED_OUT"]
            /\ movement' = [movement EXCEPT ![x].status =
                 IF verified THEN "AWAITING_VERIFICATION" ELSE "COMPLETED"]
            /\ IF verified
               THEN Becomes(x, NextNode(x, "check"))
               ELSE Becomes(x, [NextNode(x, "verify") EXCEPT !.result = "ok",
                                  !.part = m.part, !.bin = m.bin, !.count = m.before])
       ELSE /\ UNCHANGED <<movement, binStatus>>
            /\ Fails(x, x)

MoveRetrieval(x) ==
    /\ At(x, "RETRIEVAL", "move")
    /\ RetrievalMoved(x) \/ \E uncertain \in BOOLEAN : ReleaseRetrieval(x, uncertain)
    /\ UNCHANGED <<request, stock, catalogVars>>

(* The count at the scan station, or none.  An empty bin keeps a row.      *)
CheckRetrieval(x) ==
    LET m == movement[x]
        current == stock[m.bin][m.part] = m.before /\ binStatus[m.bin] = "CHECKED_OUT"
    IN /\ At(x, "RETRIEVAL", "check")
       /\ \/ /\ movement' = [movement EXCEPT ![x].status = "FAILED"]
             /\ Fails(x, x)
             /\ UNCHANGED stock
          \/ \E n \in 0 .. Capacity[m.bin] :
               /\ current
               /\ stock' = [stock EXCEPT ![m.bin][m.part] = n]
               /\ movement' = [movement EXCEPT ![x].status = "COMPLETED", ![x].count = n]
               /\ Becomes(x, [NextNode(x, "verify") EXCEPT !.result = "ok", !.part = m.part,
                                !.bin = m.bin, !.count = n])
       /\ UNCHANGED <<request, binStatus, catalogVars>>

---------------------------------------------------------------------------
(* verifyCommittedRetrieval                                                *)
RetrievalCoherent(x) ==
    /\ NamedIsCompleted(x)
    /\ run[x].result = "ok" =>
         /\ Count(run[x].bin, run[x].part) = run[x].count
         /\ binStatus[run[x].bin] = "CHECKED_OUT"

VerifyRetrieval(x) ==
    /\ At(x, "RETRIEVAL", "verify")
    /\ \E answer \in IF RetrievalCoherent(x) THEN {"COMPLETED"} ELSE {"FAILED", "ERROR"} :
         Ends(x, run[x], answer)
    /\ READS

(* Mutant of RetrievalTimeout: a committed retrieval is taken as it is.    *)
TrustedTimeout(x) ==
    /\ At(x, "RETRIEVAL", "verify")
    /\ Ends(x, run[x], "COMPLETED")
    /\ READS

(* The clock runs out while execute runs, which is noticed after it.  The  *)
(* retrieval is not repeated: it is verified here, and on failure the      *)
(* service's answer is replaced.                                           *)
RetrievalTimeout(x) ==
    /\ At(x, "RETRIEVAL", "verify")
    /\ IF RetrievalCoherent(x)
       THEN Ends(x, run[x], "COMPLETED")
       ELSE Ends(x, [run[x] EXCEPT !.result = "failed"], "FAILED")
    /\ READS

RetrievalStep(x) ==
    \/ ValidateRetrieval(x) \/ ResolvePart(x) \/ SelectSource(x) \/ RetrievalPreflight(x)
    \/ ClaimRetrieval(x) \/ MoveRetrieval(x) \/ CheckRetrieval(x)
    \/ VerifyRetrieval(x) \/ RetrievalTimeout(x)

============================================================================
