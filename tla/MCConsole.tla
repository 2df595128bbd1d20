----------------------------- MODULE MCConsole -----------------------------
(***************************************************************************)
(* Three objects: one that looks like two parts, one that looks a little   *)
(* like one of them until it has a part of its own, and one that looks     *)
(* like nothing there is.  The page sees two of them.                      *)
(***************************************************************************)
EXTENDS Console

MCScans == {"alike", "rough", "new"}
MCParts == {"p", "q", "m", "n"}
MCRegistered == [alike |-> {}, rough |-> {"n"}, new |-> {"m"}]

Looks == [alike |-> {"p", "q"}, rough |-> {"p"}, new |-> {}]

(* A part registered from a scan matches the scan.                         *)
MCVerdict(s, C) ==
    LET own == MCRegistered[s] \cap C
    IN [status |-> IF own # {} THEN "MATCHED" ELSE IF Looks[s] = {} THEN "NO_MATCH" ELSE "AMBIGUOUS",
        part |-> IF own # {} THEN CHOOSE p \in own : TRUE ELSE NoPart,
        candidates |-> IF own # {} THEN {} ELSE Looks[s] \cap C]

============================================================================
