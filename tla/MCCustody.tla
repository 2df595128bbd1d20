----------------------------- MODULE MCCustody -----------------------------
(***************************************************************************)
(* Small warehouses for TLC.  Calls are interchangeable; so are bins.      *)
(***************************************************************************)
EXTENDS Custody, TLC

Symmetry == Permutations(Calls) \cup Permutations(Bins)

(* One bin with stock; any other is empty.                                 *)
OneStockedBin == \E b \in Bins : \A x \in Bins : stock[x] # NoRow <=> x = b

StockedInit == Init /\ OneStockedBin

StockedSpec == StockedInit /\ [][Next]_vars

---------------------------------------------------------------------------
(* Two bins, one of them stocked: a retrieval takes it out, and the calls  *)
(* beside it, a return and a putaway, bring it home, move its contents to  *)
(* the other slot, or bring in a new part.  The other runs ignore these.   *)
CONSTANTS Retriever, Returner, Stocked

KindOf(r) ==
    CASE r = Retriever -> "retrieve"
      [] r = Returner  -> "return"
      [] OTHER         -> "putaway"

Relocation ==
    /\ \A r \in Calls : call[r].kind = KindOf(r)
    /\ \A b \in Bins : stock[b] # NoRow <=> b = Stocked

RelocationInit == Init /\ Relocation

RelocationSpec == RelocationInit /\ [][Next]_vars

============================================================================
