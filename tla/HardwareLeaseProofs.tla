------------------------ MODULE HardwareLeaseProofs ------------------------
(***************************************************************************)
(* That a live lease is never lost, for any number of callers and any      *)
(* lease longer than the renewals that may fail in a row.                  *)
(***************************************************************************)
EXTENDS HardwareLease, TLAPS

(* Timers run, and renewals are missed, only while the caller works.       *)
TimersOfWorkers ==
    /\ \A c \in due : pc[c] \in Working
    /\ \A c \in Calls : pc[c] \notin Working \cup {"release"} => misses[c] = 0

LeaseInv == TypeOK /\ TimersOfWorkers /\ TimeIsEnough

(* Where a caller stands is a matter of one function application.         *)
USE DEF At, Goto

---------------------------------------------------------------------------
(* Types.                                                                  *)

LEMMA RowOfType ==
    ASSUME NEW c \in Calls, NEW left \in 0 .. Lease
    PROVE  RowOf(c, left) \in [token : Calls, left : 0 .. Lease]
  BY DEF RowOf

LEMMA LeaseIsLong == Lease \in Nat /\ MaxMisses \in Nat /\ Lease >= MaxMisses + 2 /\ Lease \in 0 .. Lease /\ Patience \in Nat
  BY LeaseAssumption

(* The program counter and the two clocks of a settled caller.             *)
LEMMA SettleType ==
    ASSUME TypeOK, NEW c \in Calls, NEW where \in PC, Settle(c, where)
    PROVE  /\ pc' \in [Calls -> PC]
           /\ patience' \in [Calls -> 0 .. Patience]
           /\ offered' \in [Calls -> 0 .. Lease]
  BY LeaseIsLong DEF TypeOK, Settle

LEMMA AcquiredType ==
    ASSUME TypeOK, NEW c \in Calls, Acquired(c)
    PROVE  /\ row' \in [token : Calls, left : 0 .. Lease]
           /\ pc' \in [Calls -> PC]
           /\ patience' \in [Calls -> 0 .. Patience]
           /\ offered' \in [Calls -> 0 .. Lease]
  <1>1. offered[c] \in 0 .. Lease
    BY DEF TypeOK
  <1>2. "held" \in PC
    BY DEF PC, Working
  <1> QED
    BY <1>1, <1>2, RowOfType, SettleType DEF Acquired

LEMMA TypeInit == Init => TypeOK
  BY LeaseIsLong DEF Init, TypeOK, PC

LEMMA TypeStep == TypeOK /\ [Next]_vars => TypeOK'
  <1> SUFFICES ASSUME TypeOK, [Next]_vars PROVE TypeOK'
    OBVIOUS
  <1> USE LeaseIsLong
  <1>p. /\ "create" \in PC /\ "take" \in PC /\ "wait" \in PC /\ "release" \in PC
        /\ "refused" \in PC /\ "done" \in PC /\ "dead" \in PC /\ "held" \in PC /\ "moving" \in PC
    BY DEF PC, Working
  <1>1. ASSUME NEW c \in Calls, NEW wait \in {0, Patience}, Begin(c, wait) PROVE TypeOK'
    BY <1>1, <1>p DEF Begin, TypeOK
  <1>2. ASSUME NEW c \in Calls, Create(c) PROVE TypeOK'
    <2>1. CASE row = NoRow
      BY <1>2, <2>1, AcquiredType DEF Create, TypeOK
    <2>2. CASE row # NoRow
      BY <1>2, <2>2, <1>p DEF Create, TypeOK
    <2> QED BY <2>1, <2>2
  <1>3. ASSUME NEW c \in Calls, StatementFails(c) PROVE TypeOK'
    <2>1. offered[c] \in 0 .. Lease /\ RowOf(c, offered[c]) \in [token : Calls, left : 0 .. Lease]
      BY RowOfType DEF TypeOK
    <2>2. row' \in [token : Calls, left : 0 .. Lease] \cup {NoRow}
      BY <1>3, <2>1 DEF StatementFails, TypeOK
    <2> QED BY <1>3, <1>p, <2>2, SettleType DEF StatementFails, TypeOK
  <1>4. ASSUME NEW c \in Calls, Take(c) PROVE TypeOK'
    <2>1. CASE Expired /\ Acquired(c)
      BY <1>4, <2>1, AcquiredType DEF Take, TypeOK
    <2>2. CASE Goto(c, "wait") /\ UNCHANGED <<row, patience, offered>>
      BY <1>4, <2>2, <1>p DEF Take, TypeOK
    <2>3. CASE Settle(c, "refused") /\ UNCHANGED row
      BY <1>4, <2>3, <1>p, SettleType DEF Take, TypeOK
    <2> QED BY <1>4, <2>1, <2>2, <2>3 DEF Take
  <1>5. ASSUME NEW c \in Calls, Retry(c) PROVE TypeOK'
    <2>1. CASE patience[c] > 0
      BY <1>5, <2>1, <1>p DEF Retry, TypeOK
    <2>2. CASE ~(patience[c] > 0)
      BY <1>5, <2>2, <1>p, SettleType DEF Retry, TypeOK
    <2> QED BY <2>1, <2>2
  <1>6. ASSUME NEW c \in Calls, Heartbeat(c) PROVE TypeOK'
    <2>1. row' \in [token : Calls, left : 0 .. Lease] \cup {NoRow}
      BY <1>6, RowOfType DEF Heartbeat, TypeOK
    <2>2. misses' \in [Calls -> 0 .. MaxMisses]
      BY <1>6 DEF Heartbeat, TypeOK
    <2> QED BY <1>6, <2>1, <2>2 DEF Heartbeat, TypeOK
  <1>7. ASSUME NEW c \in Calls, HeartbeatFails(c) PROVE TypeOK'
    BY <1>7 DEF HeartbeatFails, TypeOK
  <1>8. ASSUME NEW c \in Calls, Move(c) \/ FinishMove(c) \/ FinishWork(c) PROVE TypeOK'
    BY <1>8, <1>p DEF Move, FinishMove, FinishWork, TypeOK
  <1>9. ASSUME NEW c \in Calls, MoveInSession(c) PROVE TypeOK'
    <2>1. RowOf(c, Lease) \in [token : Calls, left : 0 .. Lease]
      BY RowOfType
    <2>2. CASE row' = RowOf(c, Lease) /\ Goto(c, "moving")
      BY <1>9, <1>p, <2>1, <2>2 DEF MoveInSession, TypeOK
    <2>3. CASE UNCHANGED <<row, pc>>
      BY <1>9, <2>3 DEF MoveInSession, TypeOK
    <2> QED BY <1>9, <2>2, <2>3 DEF MoveInSession
  <1>10. ASSUME NEW c \in Calls, Release(c) PROVE TypeOK'
    <2>1. row' \in [token : Calls, left : 0 .. Lease] \cup {NoRow}
      BY <1>10 DEF Release, TypeOK
    <2> QED BY <1>10, <1>p, <2>1 DEF Release, TypeOK
  <1>11. ASSUME NEW c \in Calls, Crash(c) PROVE TypeOK'
    BY <1>11, <1>p, SettleType DEF Crash, TypeOK
  <1>12. ASSUME NEW c \in Calls, Stall(c) \/ Resume(c) PROVE TypeOK'
    BY <1>12 DEF Stall, Resume, TypeOK
  <1>13. ASSUME Tick PROVE TypeOK'
    <2>1. row' \in [token : Calls, left : 0 .. Lease] \cup {NoRow}
      <3>1. CASE row = NoRow
        BY <1>13, <3>1 DEF Tick
      <3>2. CASE row # NoRow
        <4>1. row.token \in Calls /\ Less(row.left) \in 0 .. Lease
          BY <3>2 DEF TypeOK, Less
        <4> QED BY <1>13, <3>2, <4>1, RowOfType DEF Tick
      <3> QED BY <3>1, <3>2
    <2>2. \A c \in Calls : Less(patience[c]) \in 0 .. Patience /\ Less(offered[c]) \in 0 .. Lease
      BY DEF TypeOK, Less
    <2> QED BY <1>13, <2>1, <2>2 DEF Tick, TypeOK
  <1>14. ASSUME UNCHANGED vars PROVE TypeOK'
    BY <1>14 DEF vars, TypeOK
  <1> QED
    BY <1>1, <1>2, <1>3, <1>4, <1>5, <1>6, <1>7, <1>8, <1>9, <1>10, <1>11, <1>12, <1>13, <1>14 DEF Next, Proceeds

(* Every reachable state of the lease has the declared types.              *)
THEOREM TypeCorrect == Spec => []TypeOK
  BY TypeInit, TypeStep, PTL DEF Spec

---------------------------------------------------------------------------
(* The lease of a working caller.                                          *)

(* Timers and misses, step by step: only a caller at work has a renewal    *)
(* due, and only such a caller misses one.                                 *)
LEMMA TimersInit == Init => TimersOfWorkers
  BY DEF Init, TimersOfWorkers

LEMMA TimersStep == TypeOK /\ TimersOfWorkers /\ [Next]_vars => TimersOfWorkers'
  <1> SUFFICES ASSUME TypeOK, TimersOfWorkers, [Next]_vars PROVE TimersOfWorkers'
    OBVIOUS
  <1> USE DEF Working
  <1>t. pc \in [Calls -> PC] /\ misses \in [Calls -> 0 .. MaxMisses] /\ due \in SUBSET Calls
    BY DEF TypeOK
  <1>1. ASSUME NEW c \in Calls, NEW wait \in {0, Patience}, Begin(c, wait) PROVE TimersOfWorkers'
    BY <1>1, <1>t DEF Begin, TimersOfWorkers
  <1>2. ASSUME NEW c \in Calls, Create(c) \/ Take(c) \/ StatementFails(c) \/ Retry(c) PROVE TimersOfWorkers'
    <2>1. /\ pc[c] \in {"create", "take", "wait"}
          /\ \E where \in PC : where # "release" /\ pc' = [pc EXCEPT ![c] = where]
          /\ UNCHANGED <<due, misses>>
      BY <1>2 DEF Create, Take, StatementFails, Retry, Acquired, Settle, PC
    <2> QED BY <2>1, <1>t DEF TimersOfWorkers
  <1>3. ASSUME NEW c \in Calls, Heartbeat(c) \/ HeartbeatFails(c) PROVE TimersOfWorkers'
    BY <1>3, <1>t DEF Heartbeat, HeartbeatFails, TimersOfWorkers
  <1>4. ASSUME NEW c \in Calls, Move(c) \/ MoveInSession(c) PROVE TimersOfWorkers'
    BY <1>4, <1>t DEF Move, MoveInSession, TimersOfWorkers
  <1>5. ASSUME NEW c \in Calls, FinishMove(c) \/ FinishWork(c) PROVE TimersOfWorkers'
    BY <1>5, <1>t DEF FinishMove, FinishWork, TimersOfWorkers
  <1>6. ASSUME NEW c \in Calls, Release(c) PROVE TimersOfWorkers'
    BY <1>6, <1>t DEF Release, TimersOfWorkers
  <1>7. ASSUME NEW c \in Calls, Crash(c) PROVE TimersOfWorkers'
    BY <1>7, <1>t DEF Crash, Settle, TimersOfWorkers
  <1>8. ASSUME NEW c \in Calls, Stall(c) \/ Resume(c) PROVE TimersOfWorkers'
    BY <1>8 DEF Stall, Resume, TimersOfWorkers
  <1>9. ASSUME Tick PROVE TimersOfWorkers'
    BY <1>9 DEF Tick, TimersOfWorkers
  <1>10. ASSUME UNCHANGED vars PROVE TimersOfWorkers'
    BY <1>10 DEF vars, TimersOfWorkers
  <1> QED
    BY <1>1, <1>2, <1>3, <1>4, <1>5, <1>6, <1>7, <1>8, <1>9, <1>10 DEF Next, Proceeds

(* One caller's share of TimeIsEnough.                                     *)
Covered(c) ==
    /\ pc[c] \in Working =>
         /\ Owns(c)
         /\ row.left + misses[c] >= MaxMisses + (IF c \in due THEN 1 ELSE 2)
    /\ pc[c] \in {"create", "take"} => offered[c] = Lease /\ misses[c] = 0

LEMMA EachIsCovered ==
    TimeIsEnough <=> (\A c \in Calls \ lapsed : Covered(c)) /\ (\A c \in stalled : c \in lapsed)
  BY DEF TimeIsEnough, Covered

(* While a caller that has not stalled works, nobody can create the row or *)
(* take it over ...                                                        *)
LEMMA FreeRowMeansNobodyWorks ==
    ASSUME TypeOK, NEW c \in Calls, Covered(c), row = NoRow \/ Expired
    PROVE  pc[c] \notin Working
  <1>1. CASE row = NoRow
    BY <1>1 DEF Covered, Owns
  <1>2. CASE Expired
    <2>1. misses[c] \in 0 .. MaxMisses /\ MaxMisses \in Nat
      BY LeaseAssumption DEF TypeOK
    <2>2. row.left = 0
      BY <1>2 DEF Expired
    <2> QED BY <2>1, <2>2 DEF Covered
  <1> QED BY <1>1, <1>2

(* ... and no other caller's statement finds the row its own.              *)
LEMMA RowIsOneCallers ==
    ASSUME NEW c \in Calls, NEW d \in Calls, Owns(c), Covered(d), pc[d] \in Working
    PROVE  c = d
  BY DEF Owns, Covered

(* A caller the step does not touch stays covered as long as the row does. *)
LEMMA Untouched ==
    ASSUME NEW d \in Calls, Covered(d),
           pc'[d] = pc[d], misses'[d] = misses[d], offered'[d] = offered[d],
           d \in due' => d \in due, d \in due => d \in due',
           pc[d] \notin Working \/ row' = row
    PROVE  Covered(d)'
  BY DEF Covered, Owns

(* A caller that neither works nor tries is covered.                       *)
LEMMA Settled ==
    ASSUME NEW d \in Calls, pc'[d] \notin Working \cup {"create", "take"}
    PROVE  Covered(d)'
  BY DEF Covered

(* A caller that gets the row, with the whole lease before it, is covered. *)
LEMMA FullLease ==
    ASSUME NEW d \in Calls, TypeOK, row' = RowOf(d, Lease), pc'[d] \in Working,
           misses'[d] \in Nat
    PROVE  Covered(d)'
  <1>1. row' # NoRow /\ row'.token = d /\ row'.left = Lease
    <2>1. RowOf(d, Lease) \in [token : Calls, left : 0 .. Lease]
      BY RowOfType, LeaseIsLong
    <2> QED BY <2>1, LeaseAssumption DEF RowOf
  <1>2. pc'[d] \notin {"create", "take"}
    BY DEF Working
  <1> QED BY <1>1, <1>2, LeaseIsLong DEF Covered, Owns

LEMMA CoveredInit == Init => TimeIsEnough
  BY DEF Init, TimeIsEnough, Working

LEMMA CoveredStep == TypeOK /\ TimersOfWorkers /\ TimeIsEnough /\ [Next]_vars => TimeIsEnough'
  <1> SUFFICES ASSUME TypeOK, TimersOfWorkers, TimeIsEnough, [Next]_vars
               PROVE  TimeIsEnough'
    OBVIOUS
  <1>t. /\ pc \in [Calls -> PC] /\ misses \in [Calls -> 0 .. MaxMisses] /\ due \in SUBSET Calls
        /\ offered \in [Calls -> 0 .. Lease]
    BY DEF TypeOK
  <1>e. (\A c \in Calls \ lapsed : Covered(c)) /\ (\A c \in stalled : c \in lapsed)
    BY EachIsCovered
  <1>n. TypeOK'
    BY TypeStep
  <1>s. (\A c \in stalled : c \in lapsed)' /\ (\A d \in Calls : d \notin lapsed' => d \notin lapsed)
    <2>1. CASE UNCHANGED <<stalled, lapsed>>
      BY <2>1, <1>e
    <2>2. ASSUME NEW c \in Calls, Crash(c) \/ Stall(c) \/ Resume(c)
          PROVE  (\A d \in stalled : d \in lapsed)' /\ (\A d \in Calls : d \notin lapsed' => d \notin lapsed)
      BY <2>2, <1>e DEF Crash, Stall, Resume
    <2> QED
      BY <2>1, <2>2 DEF Next, Proceeds, Begin, Create, StatementFails, Take, Retry, Heartbeat, HeartbeatFails,
         Move, MoveInSession, FinishMove, FinishWork, Release, Tick, vars
  <1>f. (\A d \in Calls \ lapsed : Covered(d))' /\ (\A c \in stalled : c \in lapsed)' => TimeIsEnough'
    BY DEF TimeIsEnough, Covered
  <1> SUFFICES ASSUME NEW d \in Calls, d \notin lapsed', Covered(d), d \notin lapsed, d \notin stalled
               PROVE  Covered(d)'
    BY <1>e, <1>s, <1>f
  <1>w. Working = {"held", "moving"}
    BY DEF Working
  <1>1. ASSUME NEW c \in Calls, NEW wait \in {0, Patience}, Begin(c, wait) PROVE Covered(d)'
    <2>1. CASE c = d
      <3>1. misses[d] = 0
        BY <1>1, <2>1, <1>w DEF Begin, TimersOfWorkers
      <3> QED BY <1>1, <2>1, <3>1, <1>t, <1>w DEF Begin, Covered
    <2>2. CASE c # d
      BY <1>1, <2>2, <1>t, Untouched DEF Begin
    <2> QED BY <2>1, <2>2
  <1>2. ASSUME NEW c \in Calls, pc[c] \in {"create", "take"}, row = NoRow \/ Expired, Acquired(c),
               UNCHANGED <<due, misses>>
        PROVE  Covered(d)'
    <2>1. CASE c = d
      <3>1. offered[d] = Lease
        BY <1>2, <2>1 DEF Covered
      <3>2. pc'[d] \in Working /\ misses'[d] \in Nat
        BY <1>2, <2>1, <1>t, <1>w, LeaseAssumption DEF Acquired, Settle
      <3> QED BY <1>2, <2>1, <3>1, <3>2, FullLease DEF Acquired
    <2>2. CASE c # d
      <3>1. pc[d] \notin Working
        BY <1>2, FreeRowMeansNobodyWorks
      <3> QED BY <1>2, <2>2, <3>1, <1>t, Untouched DEF Acquired, Settle
    <2> QED BY <2>1, <2>2
  <1>3. ASSUME NEW c \in Calls, Create(c) PROVE Covered(d)'
    <2>1. CASE row = NoRow
      BY <1>2, <1>3, <2>1 DEF Create
    <2>2. CASE row # NoRow /\ c = d
      BY <1>3, <2>2, <1>t, <1>w DEF Create, Covered
    <2>3. CASE row # NoRow /\ c # d
      BY <1>3, <2>3, <1>t, Untouched DEF Create
    <2> QED BY <2>1, <2>2, <2>3
  <1>4. ASSUME NEW c \in Calls, StatementFails(c) PROVE Covered(d)'
    <2>1. CASE c = d
      <3>1. pc'[d] = "refused"
        BY <1>4, <2>1, <1>t DEF StatementFails, Settle
      <3> QED BY <3>1, <1>w, Settled
    <2>2. CASE c # d
      <3>1. pc[d] \notin Working \/ row' = row
        BY <1>4, FreeRowMeansNobodyWorks DEF StatementFails
      <3> QED BY <1>4, <2>2, <3>1, <1>t, Untouched DEF StatementFails, Settle
    <2> QED BY <2>1, <2>2
  <1>5. ASSUME NEW c \in Calls, Take(c) PROVE Covered(d)'
    <2>1. CASE Expired /\ Acquired(c)
      BY <1>2, <1>5, <2>1 DEF Take
    <2>2. CASE ~Expired /\ c = d
      <3>1. pc'[d] \in {"wait", "refused"}
        BY <1>5, <2>2, <1>t DEF Take, Settle
      <3> QED BY <3>1, <1>w, Settled
    <2>3. CASE ~Expired /\ c # d
      BY <1>5, <2>3, <1>t, Untouched DEF Take, Settle
    <2> QED BY <1>5, <2>1, <2>2, <2>3 DEF Take
  <1>6. ASSUME NEW c \in Calls, Retry(c) PROVE Covered(d)'
    <2>1. CASE c = d
      <3>1. misses[d] = 0
        BY <1>6, <2>1, <1>w DEF Retry, TimersOfWorkers
      <3> QED BY <1>6, <2>1, <3>1, <1>t, <1>w DEF Retry, Settle, Covered
    <2>2. CASE c # d
      BY <1>6, <2>2, <1>t, Untouched DEF Retry, Settle
    <2> QED BY <2>1, <2>2
  <1>7. ASSUME NEW c \in Calls, Heartbeat(c) PROVE Covered(d)'
    <2>1. CASE c = d
      <3>1. pc[d] \in Working /\ Owns(d)
        BY <1>7, <2>1 DEF Heartbeat, TimersOfWorkers, Covered
      <3>2. row' = RowOf(d, Lease) /\ pc'[d] \in Working /\ misses'[d] \in Nat
        BY <1>7, <2>1, <3>1, <1>t DEF Heartbeat
      <3> QED BY <3>2, FullLease
    <2>2. CASE c # d
      <3>1. pc[d] \notin Working \/ row' = row
        BY <1>7, <2>2, RowIsOneCallers DEF Heartbeat
      <3> QED BY <1>7, <2>2, <3>1, <1>t, Untouched DEF Heartbeat
    <2> QED BY <2>1, <2>2
  <1>8. ASSUME NEW c \in Calls, HeartbeatFails(c) PROVE Covered(d)'
    <2>1. CASE c = d
      <3>1. pc[d] \in Working /\ Owns(d) /\ row.left + misses[d] >= MaxMisses + 1
        BY <1>8, <2>1 DEF HeartbeatFails, TimersOfWorkers, Covered
      <3>2. row' = row /\ pc'[d] = pc[d] /\ misses'[d] = misses[d] + 1 /\ d \notin due'
        BY <1>8, <2>1, <1>t DEF HeartbeatFails
      <3>3. row.left \in Nat /\ misses[d] \in Nat /\ MaxMisses \in Nat
        BY <3>1, <1>t, LeaseAssumption DEF TypeOK, Owns
      <3>4. row'.left + misses'[d] >= MaxMisses + 2
        BY <3>1, <3>2, <3>3
      <3>5. Owns(d)'
        BY <3>1, <3>2 DEF Owns
      <3> QED BY <3>1, <3>2, <3>4, <3>5, <1>w DEF Covered
    <2>2. CASE c # d
      BY <1>8, <2>2, <1>t, Untouched DEF HeartbeatFails
    <2> QED BY <2>1, <2>2
  <1>9. ASSUME NEW c \in Calls, Move(c) PROVE Covered(d)'
    <2>1. CASE c = d
      BY <1>9, <2>1, <1>t, <1>w DEF Move, Covered, Owns
    <2>2. CASE c # d
      BY <1>9, <2>2, <1>t, Untouched DEF Move
    <2> QED BY <2>1, <2>2
  <1>10. ASSUME NEW c \in Calls, MoveInSession(c) PROVE Covered(d)'
    <2>1. CASE ~(Owns(c) /\ ~Expired)
      BY <1>10, <2>1, Untouched DEF MoveInSession
    <2>2. CASE Owns(c) /\ ~Expired /\ c = d
      <3>1. row' = RowOf(d, Lease) /\ pc'[d] \in Working /\ misses'[d] \in Nat
        BY <1>10, <2>2, <1>t, <1>w DEF MoveInSession
      <3> QED BY <3>1, FullLease
    <2>3. CASE Owns(c) /\ ~Expired /\ c # d
      <3>1. pc[d] \notin Working
        BY <2>3, RowIsOneCallers
      <3> QED BY <1>10, <2>3, <3>1, <1>t, Untouched DEF MoveInSession
    <2> QED BY <2>1, <2>2, <2>3
  <1>11. ASSUME NEW c \in Calls, FinishMove(c) PROVE Covered(d)'
    <2>1. CASE c = d /\ c \in Sessions
      BY <1>11, <2>1, <1>t, <1>w DEF FinishMove, Covered, Owns
    <2>2. CASE c = d /\ c \notin Sessions
      <3>1. pc'[d] = "release"
        BY <1>11, <2>2, <1>t DEF FinishMove
      <3> QED BY <3>1, <1>w, Settled
    <2>3. CASE c # d
      BY <1>11, <2>3, <1>t, Untouched DEF FinishMove
    <2> QED BY <2>1, <2>2, <2>3
  <1>12. ASSUME NEW c \in Calls, FinishWork(c) PROVE Covered(d)'
    <2>1. CASE c = d
      <3>1. pc'[d] = "release"
        BY <1>12, <2>1, <1>t DEF FinishWork
      <3> QED BY <3>1, <1>w, Settled
    <2>2. CASE c # d
      BY <1>12, <2>2, <1>t, Untouched DEF FinishWork
    <2> QED BY <2>1, <2>2
  <1>13. ASSUME NEW c \in Calls, Release(c) PROVE Covered(d)'
    <2>1. CASE c = d
      <3>1. pc'[d] = "done"
        BY <1>13, <2>1, <1>t DEF Release
      <3> QED BY <3>1, <1>w, Settled
    <2>2. CASE c # d
      <3>1. pc[d] \notin Working \/ row' = row
        BY <1>13, <2>2, RowIsOneCallers DEF Release
      <3> QED BY <1>13, <2>2, <3>1, <1>t, Untouched DEF Release
    <2> QED BY <2>1, <2>2
  <1>14. ASSUME NEW c \in Calls, Crash(c) PROVE Covered(d)'
    <2>1. CASE c = d
      <3>1. pc'[d] = "dead"
        BY <1>14, <2>1, <1>t DEF Crash, Settle
      <3> QED BY <3>1, <1>w, Settled
    <2>2. CASE c # d
      BY <1>14, <2>2, <1>t, Untouched DEF Crash, Settle
    <2> QED BY <2>1, <2>2
  <1>15. ASSUME NEW c \in Calls, Stall(c) \/ Resume(c) PROVE Covered(d)'
    BY <1>15, Untouched DEF Stall, Resume
  <1>16. ASSUME Tick PROVE Covered(d)'
    <2>1. CASE pc[d] \in Working
      <3>1. d \notin due /\ Owns(d) /\ row.left + misses[d] >= MaxMisses + 2
        BY <1>16, <2>1 DEF Tick, Covered
      <3>2. row.left \in Nat /\ misses[d] \in 0 .. MaxMisses /\ MaxMisses \in Nat
        BY <3>1, <1>t, LeaseAssumption DEF TypeOK, Owns
      <3>3. row' = RowOf(d, row.left - 1)
        BY <1>16, <3>1, <3>2 DEF Tick, Owns, Less
      <3>4. row.left - 1 \in 0 .. Lease
        BY <3>1, <3>2, LeaseAssumption DEF TypeOK, Owns
      <3>5. Owns(d)' /\ row'.left = row.left - 1
        BY <3>3, <3>4, RowOfType, LeaseAssumption DEF Owns, RowOf
      <3>6. row'.left + misses[d] >= MaxMisses + 1
        BY <3>1, <3>2, <3>5
      <3>7. d \in due' /\ pc'[d] = pc[d] /\ misses'[d] = misses[d]
        BY <1>16, <2>1 DEF Tick
      <3> QED BY <2>1, <3>5, <3>6, <3>7, <1>w DEF Covered
    <2>2. CASE pc[d] \notin Working
      <3>1. pc'[d] = pc[d] /\ pc[d] \notin {"create", "take"}
        BY <1>16 DEF Tick
      <3> QED BY <2>2, <3>1, Settled
    <2> QED BY <2>1, <2>2
  <1>17. ASSUME UNCHANGED vars PROVE Covered(d)'
    BY <1>17, Untouched DEF vars
  <1> QED
    BY <1>1, <1>3, <1>4, <1>5, <1>6, <1>7, <1>8, <1>9, <1>10, <1>11, <1>12, <1>13, <1>14, <1>15, <1>16, <1>17
    DEF Next, Proceeds

---------------------------------------------------------------------------
(* The invariant, and what follows from it.                                *)

THEOREM LeaseInvHolds == Spec => []LeaseInv
  <1>1. Init => LeaseInv
    BY TypeInit, TimersInit, CoveredInit DEF LeaseInv
  <1>2. LeaseInv /\ [Next]_vars => LeaseInv'
    BY TypeStep, TimersStep, CoveredStep DEF LeaseInv
  <1> QED
    BY <1>1, <1>2, PTL DEF Spec

(* What is left of a working caller's lease always covers the renewals     *)
(* that may still fail.                                                    *)
THEOREM TimeAlwaysSuffices == Spec => []TimeIsEnough
  BY LeaseInvHolds, PTL DEF LeaseInv

LEMMA EnoughIsKept == LeaseInv => LiveLeaseIsKept
  <1> SUFFICES ASSUME LeaseInv, NEW c \in Calls \ lapsed, pc[c] \in Working
               PROVE  Owns(c) /\ row.left > 0
    BY DEF LiveLeaseIsKept
  <1>1. Owns(c) /\ row.left + misses[c] >= MaxMisses + (IF c \in due THEN 1 ELSE 2)
    BY DEF LeaseInv, TimeIsEnough
  <1>2. row.left \in Nat /\ misses[c] \in 0 .. MaxMisses /\ MaxMisses \in Nat
    BY <1>1, LeaseAssumption DEF LeaseInv, TypeOK, Owns
  <1> QED
    BY <1>1, <1>2

(* "Never revoke a live lease": a caller that works and is scheduled never *)
(* loses its row, whoever waits for it, dies or comes back.                *)
THEOREM LiveLeaseNeverRevoked == Spec => []LiveLeaseIsKept
  BY LeaseInvHolds, EnoughIsKept, PTL

(* Two movements overlap only where a stalled caller is one of them.       *)
THEOREM MovementsDoNotOverlap == Spec => []OneMovement
  <1>1. LiveLeaseIsKept => OneMovement
    BY DEF LiveLeaseIsKept, OneMovement, Owns, Working
  <1> QED
    BY <1>1, LiveLeaseNeverRevoked, PTL

(* A session that has lost its lease starts no movement while another      *)
(* caller has it.                                                          *)
THEOREM LostLeaseIsNoLicence == Spec => LostLeaseStartsNothing
  <1>1. LeaseInv /\ [Next]_vars =>
          [ \A c \in Sessions, d \in Calls \ lapsed :
              pc[c] = "held" /\ pc'[c] = "moving" /\ pc[d] \in Working => c = d ]_vars
    <2> SUFFICES ASSUME LeaseInv, Next, NEW c \in Sessions, NEW d \in Calls \ lapsed,
                        pc[c] = "held", pc'[c] = "moving", pc[d] \in Working
                 PROVE  c = d
      OBVIOUS
    <2>1. c \in Calls /\ pc \in [Calls -> PC]
      BY LeaseAssumption DEF LeaseInv, TypeOK
    <2>2. MoveInSession(c)
      <3>1. ASSUME NEW e \in Calls, NEW wait \in {0, Patience}, Begin(e, wait) PROVE FALSE
        BY <2>1, <3>1 DEF Begin
      <3>2. ASSUME NEW e \in Calls, Create(e) \/ StatementFails(e) \/ Take(e) \/ Retry(e) PROVE FALSE
        BY <2>1, <3>2 DEF Create, StatementFails, Take, Retry, Acquired, Settle
      <3>3. ASSUME NEW e \in Calls, \/ Heartbeat(e) \/ HeartbeatFails(e) \/ FinishMove(e) \/ FinishWork(e)
                                    \/ Release(e) \/ Stall(e) \/ Resume(e)
            PROVE FALSE
        BY <2>1, <3>3 DEF Heartbeat, HeartbeatFails, FinishMove, FinishWork, Release, Stall, Resume
      <3>4. ASSUME NEW e \in Calls, Crash(e) PROVE FALSE
        BY <2>1, <3>4 DEF Crash, Settle
      <3>5. ASSUME NEW e \in Calls, Move(e) PROVE FALSE
        BY <2>1, <3>5 DEF Move
      <3>6. ASSUME NEW e \in Calls, MoveInSession(e) PROVE e = c
        BY <2>1, <3>6 DEF MoveInSession
      <3>7. ASSUME Tick PROVE FALSE
        BY <3>7 DEF Tick
      <3> QED
        BY <3>1, <3>2, <3>3, <3>4, <3>5, <3>6, <3>7 DEF Next, Proceeds
    <2>3. Owns(c)
      BY <2>1, <2>2 DEF MoveInSession
    <2>4. Covered(d)
      BY EachIsCovered DEF LeaseInv
    <2> QED
      BY <2>1, <2>3, <2>4, RowIsOneCallers
  <1> QED
    BY <1>1, LeaseInvHolds, PTL DEF Spec, LostLeaseStartsNothing

============================================================================
