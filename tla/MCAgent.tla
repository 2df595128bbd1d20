------------------------------ MODULE MCAgent ------------------------------
(***************************************************************************)
(* A plan of two bins, fetched in this order.  The model proposes the      *)
(* plan, and proposes it again wherever it is free to choose; or it brings *)
(* one bin, and later owes the operator another.                           *)
(***************************************************************************)
EXTENDS AgentSession

CONSTANTS b1, b2

TwoBins == <<b1, b2>>

Wish(tool, bin, rest) == [tool |-> tool, bin |-> bin, rest |-> rest]

PlanOnly == {Wish("fulfil", NoBin, <<>>)}
PlanOrList == PlanOnly \cup {Wish("list", b1, <<b2>>)}

============================================================================
