--------------------------- MODULE HardwareLease ---------------------------
(***************************************************************************)
(* withWarehouseHardwareLease: one database row that lets one caller at a  *)
(* time use the gantry.  A caller creates the row, or takes one that has   *)
(* expired; while it works a timer renews the row, and at the end it       *)
(* deletes it.  A session (an approved chat turn, an audit) holds the row  *)
(* around several movements, and each of these, being reentrant, renews    *)
(* the row before it starts.  Callers die, stall, and miss renewals.       *)
(*                                                                         *)
(* Time is counted in renewal intervals: Lease and Patience are LEASE_MS   *)
(* and waitMs over 15 s.  A database statement takes no time, unless the   *)
(* caller stalls.                                                          *)
(***************************************************************************)
EXTENDS Integers

CONSTANTS
    Calls,      \* callers, each with a token of its own
    Sessions,   \* the callers that hold the lease around several movements
    Stallable,  \* the callers that may not be scheduled for a while
    Lease,      \* LEASE_MS: intervals a row lives without renewal
    Patience,   \* waitMs: intervals a session may wait for the lease
    MaxMisses,  \* renewals in a row that may fail
    NoRow

ASSUME LeaseAssumption ==
    /\ Sessions \subseteq Calls /\ Stallable \subseteq Calls
    /\ Lease \in Nat /\ Patience \in Nat /\ MaxMisses \in Nat
    /\ MaxMisses + 1 < Lease
    /\ NoRow \notin [token : Calls, left : 0 .. Lease]

VARIABLES
    row,        \* the WarehouseHardwareLease row: token, time left to expiresAt
    pc,         \* where each caller stands
    patience,   \* time left to its deadline
    offered,    \* time left to the expiresAt it is about to write
    due,        \* callers whose timer is about to fire
    misses,     \* renewals in a row that have failed
    stalled,    \* callers that are not scheduled
    lapsed      \* callers that have ever stalled (history)

vars == <<row, pc, patience, offered, due, misses, stalled, lapsed>>

Working == {"held", "moving"}
PC == {"idle", "create", "take", "wait", "release", "refused", "done", "dead"} \cup Working

TypeOK ==
    /\ row \in [token : Calls, left : 0 .. Lease] \cup {NoRow}
    /\ pc \in [Calls -> PC]
    /\ patience \in [Calls -> 0 .. Patience]
    /\ offered \in [Calls -> 0 .. Lease]
    /\ due \in SUBSET Calls
    /\ misses \in [Calls -> 0 .. MaxMisses]
    /\ stalled \in SUBSET Calls
    /\ lapsed \in SUBSET Calls

Init ==
    /\ row = NoRow
    /\ pc = [c \in Calls |-> "idle"]
    /\ patience = [c \in Calls |-> 0]
    /\ offered = [c \in Calls |-> 0]
    /\ due = {}
    /\ misses = [c \in Calls |-> 0]
    /\ stalled = {}
    /\ lapsed = {}

---------------------------------------------------------------------------
At(c, where) == pc[c] = where /\ c \notin stalled
Goto(c, where) == pc' = [pc EXCEPT ![c] = where]

Owns(c) == row # NoRow /\ row.token = c
Expired == row # NoRow /\ row.left = 0
RowOf(c, left) == [token |-> c, left |-> left]

(* The caller tries no more: its deadline and its offer are forgotten.     *)
Settle(c, where) ==
    /\ Goto(c, where)
    /\ patience' = [patience EXCEPT ![c] = 0]
    /\ offered' = [offered EXCEPT ![c] = 0]

(* The caller has the row: its renewal timer starts.                       *)
Acquired(c) ==
    /\ row' = RowOf(c, offered[c])
    /\ Settle(c, "held")

(* A call begins; its first attempt computes the expiry it will write.     *)
Begin(c, wait) ==
    /\ At(c, "idle")
    /\ c \in Sessions \/ wait = 0
    /\ patience' = [patience EXCEPT ![c] = wait]
    /\ offered' = [offered EXCEPT ![c] = Lease]
    /\ Goto(c, "create")
    /\ UNCHANGED <<row, due, misses, stalled, lapsed>>

(* create fails with P2002 where a row exists.                             *)
Create(c) ==
    /\ At(c, "create")
    /\ IF row = NoRow
       THEN Acquired(c)
       ELSE Goto(c, "take") /\ UNCHANGED <<row, patience, offered>>
    /\ UNCHANGED <<due, misses, stalled, lapsed>>

(* A statement fails, perhaps after the database has done it: the call     *)
(* fails, and nobody renews or deletes the row it may have written.        *)
StatementFails(c) ==
    /\ At(c, "create") \/ At(c, "take")
    /\ \/ UNCHANGED row
       \/ /\ IF pc[c] = "create" THEN row = NoRow ELSE Expired
          /\ row' = RowOf(c, offered[c])
    /\ Settle(c, "refused")
    /\ UNCHANGED <<due, misses, stalled, lapsed>>

(* Mutant of Take: the row's expiry is not a condition.                    *)
TakeLive(c) ==
    /\ At(c, "take")
    /\ row # NoRow
    /\ Acquired(c)
    /\ UNCHANGED <<due, misses, stalled, lapsed>>

(* A row that has expired is taken over.  Otherwise the caller sleeps, or  *)
(* gives up with gantry_busy, also where the row has just been deleted.    *)
Take(c) ==
    /\ At(c, "take")
    /\ \/ /\ Expired
          /\ Acquired(c)
       \/ /\ ~Expired /\ patience[c] > 0
          /\ Goto(c, "wait")
          /\ UNCHANGED <<row, patience, offered>>
       \/ /\ ~Expired /\ patience[c] = 0
          /\ Settle(c, "refused")
          /\ UNCHANGED row
    /\ UNCHANGED <<due, misses, stalled, lapsed>>

(* Mutant of Retry: every attempt sets a new deadline.                     *)
RetryForEver(c) ==
    /\ At(c, "wait")
    /\ offered[c] < Lease
    /\ Goto(c, "create")
    /\ patience' = [patience EXCEPT ![c] = Patience]
    /\ offered' = [offered EXCEPT ![c] = Lease]
    /\ UNCHANGED <<row, due, misses, stalled, lapsed>>

(* After its sleep the caller tries again until its deadline.  It looks    *)
(* many times in an interval: one of them, at any point of it, is enough.  *)
Retry(c) ==
    /\ At(c, "wait")
    /\ offered[c] < Lease
    /\ IF patience[c] > 0
       THEN /\ Goto(c, "create")
            /\ offered' = [offered EXCEPT ![c] = Lease]
            /\ UNCHANGED patience
       ELSE Settle(c, "refused")
    /\ UNCHANGED <<row, due, misses, stalled, lapsed>>

(* The timer renews the row that still has the caller's token, expired or  *)
(* not ...                                                                 *)
Heartbeat(c) ==
    /\ c \in due \ stalled
    /\ row' = IF Owns(c) THEN RowOf(c, Lease) ELSE row
    /\ due' = due \ {c}
    /\ misses' = [misses EXCEPT ![c] = 0]
    /\ UNCHANGED <<pc, patience, offered, stalled, lapsed>>

(* ... or its statement fails, and is only logged.                         *)
HeartbeatFails(c) ==
    /\ c \in due \ stalled
    /\ misses[c] < MaxMisses
    /\ due' = due \ {c}
    /\ misses' = [misses EXCEPT ![c] = @ + 1]
    /\ UNCHANGED <<row, pc, patience, offered, stalled, lapsed>>

(* A caller that took the lease for one movement starts it.                *)
Move(c) ==
    /\ At(c, "held")
    /\ c \notin Sessions
    /\ Goto(c, "moving")
    /\ UNCHANGED <<row, patience, offered, due, misses, stalled, lapsed>>

(* Mutant of MoveInSession: the row is renewed whoever holds it.           *)
MoveInSessionUnchecked(c) ==
    /\ At(c, "held")
    /\ c \in Sessions
    /\ row # NoRow
    /\ row' = [row EXCEPT !.left = Lease]
    /\ Goto(c, "moving")
    /\ UNCHANGED <<patience, offered, due, misses, stalled, lapsed>>

(* The reentrant call: the session's row is renewed, on condition that it  *)
(* is still its own and has not expired, before the movement starts.       *)
(* Otherwise the movement fails with gantry_busy, and the session goes on  *)
(* without it.                                                             *)
MoveInSession(c) ==
    /\ At(c, "held")
    /\ c \in Sessions
    /\ IF Owns(c) /\ ~Expired
       THEN row' = RowOf(c, Lease) /\ Goto(c, "moving")
       ELSE UNCHANGED <<row, pc>>
    /\ UNCHANGED <<patience, offered, due, misses, stalled, lapsed>>

FinishMove(c) ==
    /\ At(c, "moving")
    /\ IF c \in Sessions
       THEN Goto(c, "held") /\ UNCHANGED due
       ELSE Goto(c, "release") /\ due' = due \ {c}
    /\ UNCHANGED <<row, patience, offered, misses, stalled, lapsed>>

(* A session's work returns or throws: the timer is cleared ...            *)
FinishWork(c) ==
    /\ At(c, "held")
    /\ c \in Sessions
    /\ Goto(c, "release")
    /\ due' = due \ {c}
    /\ UNCHANGED <<row, patience, offered, misses, stalled, lapsed>>

(* Mutant of Release: the row is deleted whoever holds it.                 *)
ReleaseAny(c) ==
    /\ At(c, "release")
    /\ row' = NoRow
    /\ misses' = [misses EXCEPT ![c] = 0]
    /\ Goto(c, "done")
    /\ UNCHANGED <<patience, offered, due, stalled, lapsed>>

(* ... and the row is deleted if it has the caller's token; a failure to   *)
(* delete is only logged.                                                  *)
Release(c) ==
    /\ At(c, "release")
    /\ \/ row' = IF Owns(c) THEN NoRow ELSE row
       \/ UNCHANGED row
    /\ misses' = [misses EXCEPT ![c] = 0]
    /\ Goto(c, "done")
    /\ UNCHANGED <<patience, offered, due, stalled, lapsed>>

---------------------------------------------------------------------------
(* The process of a call dies, and its timer with it.                      *)
Crash(c) ==
    /\ pc[c] \notin {"idle", "refused", "done", "dead"}
    /\ Settle(c, "dead")
    /\ due' = due \ {c}
    /\ misses' = [misses EXCEPT ![c] = 0]
    /\ stalled' = stalled \ {c}
    /\ UNCHANGED <<row, lapsed>>

(* The process is not scheduled for a while: no step and no renewal.       *)
Stall(c) ==
    /\ pc[c] \notin {"idle", "refused", "done", "dead"}
    /\ c \in Stallable \ lapsed
    /\ stalled' = stalled \cup {c}
    /\ lapsed' = lapsed \cup {c}
    /\ UNCHANGED <<row, pc, patience, offered, due, misses>>

Resume(c) ==
    /\ c \in stalled
    /\ stalled' = stalled \ {c}
    /\ UNCHANGED <<row, pc, patience, offered, due, misses, lapsed>>

Less(t) == IF t > 0 THEN t - 1 ELSE 0

(* Mutant of Tick: a timer that is not cleared fires after its call, too.  *)
TickUncleared ==
    /\ \A c \in Calls \ stalled : pc[c] \notin {"create", "take", "release"} /\ c \notin due
    /\ row' = IF row = NoRow THEN NoRow ELSE RowOf(row.token, Less(row.left))
    /\ patience' = [c \in Calls |-> Less(patience[c])]
    /\ offered' = [c \in Calls |-> IF pc[c] \in {"create", "take", "wait"} THEN Less(offered[c]) ELSE offered[c]]
    /\ due' = {c \in Calls : pc[c] \in Working \cup {"done"}}
    /\ UNCHANGED <<pc, misses, stalled, lapsed>>

(* An interval passes.  A caller that is scheduled has by then done its    *)
(* statements and seen its timer fire.                                     *)
Tick ==
    /\ \A c \in Calls \ stalled : pc[c] \notin {"create", "take", "release"} /\ c \notin due
    /\ row' = IF row = NoRow THEN NoRow ELSE RowOf(row.token, Less(row.left))
    /\ patience' = [c \in Calls |-> Less(patience[c])]
    /\ offered' = [c \in Calls |-> IF pc[c] \in {"create", "take", "wait"} THEN Less(offered[c]) ELSE offered[c]]
    /\ due' = {c \in Calls : pc[c] \in Working}
    /\ UNCHANGED <<pc, misses, stalled, lapsed>>

(* What a caller does without being asked.                                 *)
Proceeds(c) ==
    \/ Create(c) \/ StatementFails(c) \/ Take(c) \/ Retry(c) \/ Heartbeat(c)
    \/ HeartbeatFails(c) \/ Move(c) \/ FinishMove(c) \/ Release(c)

Next ==
    \/ \E c \in Calls :
         \/ \E wait \in {0, Patience} : Begin(c, wait)
         \/ Proceeds(c) \/ MoveInSession(c) \/ FinishWork(c)
         \/ Crash(c) \/ Stall(c) \/ Resume(c)
    \/ Tick

Spec == Init /\ [][Next]_vars

(* A scheduled caller goes on, and time passes.  How long a movement or a  *)
(* session lasts is not bounded.                                           *)
FairSpec ==
    /\ Spec
    /\ SF_vars(Tick)
    /\ \A c \in Calls :
         WF_vars(Create(c) \/ StatementFails(c) \/ Take(c) \/ Retry(c)
                   \/ Heartbeat(c) \/ HeartbeatFails(c) \/ Release(c))

---------------------------------------------------------------------------
(* "Never revoke a live lease": the row of a caller that works and has not *)
(* stalled is its own and has not expired, however many others want it.    *)
LiveLeaseIsKept ==
    \A c \in Calls \ lapsed : pc[c] \in Working => Owns(c) /\ row.left > 0

(* Why it is so: what is left of the lease covers the misses to come.      *)
TimeIsEnough ==
    /\ \A c \in Calls \ lapsed :
         /\ pc[c] \in Working =>
              /\ Owns(c)
              /\ row.left + misses[c] >= MaxMisses + (IF c \in due THEN 1 ELSE 2)
         /\ pc[c] \in {"create", "take"} => offered[c] = Lease /\ misses[c] = 0
    /\ \A c \in stalled : c \in lapsed

(* Two movements never overlap, unless a caller was stalled.               *)
OneMovement ==
    \A c, d \in Calls : pc[c] = "moving" /\ pc[d] = "moving" => c = d \/ {c, d} \cap lapsed # {}

(* A session that comes back from a stall starts no movement beside a      *)
(* caller that holds the lease: "The hardware lease was lost. No new       *)
(* movement was started."                                                  *)
LostLeaseStartsNothing ==
    [][ \A c \in Sessions, d \in Calls \ lapsed :
          pc[c] = "held" /\ pc'[c] = "moving" /\ pc[d] \in Working => c = d ]_vars

(* Liveness: every request is answered by its deadline, or its caller is   *)
(* gone or held up.                                                        *)
EveryRequestIsAnswered ==
    \A c \in Calls :
        pc[c] \in {"create", "take", "wait"} ~>
            pc[c] \notin {"create", "take", "wait"} \/ c \in stalled

(* "A crashed holder is recoverable after heartbeat loss": the row of a    *)
(* caller that is gone expires, or has gone to somebody else.              *)
AbandonedLeaseExpires ==
    \A c \in Calls :
        (pc[c] \in {"dead", "done", "refused"} /\ Owns(c)) ~> (~Owns(c) \/ Expired)

============================================================================
