--------------------------- MODULE WorkflowProofs ---------------------------
(***************************************************************************)
(* Proofs about the graphs, for any requests, bins, parts, scenarios and   *)
(* any matcher.  First the catalog: what a confirmed row stands for, while *)
(* operators decide and parts are registered.  Then the runs: what a run   *)
(* knows at each place, from which it follows that what is stored was      *)
(* identified, that a repeated request hears of the first one, and that no *)
(* bin stays reserved for nothing.  Last, what a checkout answers is about *)
(* its own movement, so that what is reported done was found done.         *)
(***************************************************************************)
EXTENDS Workflow, TLAPS

---------------------------------------------------------------------------
(* The catalog only grows.  A row that was ever opened holds candidates of *)
(* the matcher; a confirmed one was confirmed for the scan it is about;    *)
(* and what is about to be written is about a row that was opened.         *)
RowFields == {"status", "scan", "candidates", "selected"}
ClerkFields == {"pc", "row", "next", "part", "scan"}

CatalogShape ==
    /\ DOMAIN resolution = Resolutions
    /\ \A r \in Resolutions : DOMAIN resolution[r] = RowFields
    /\ DOMAIN clerk = Clerks
    /\ \A k \in Clerks : DOMAIN clerk[k] = ClerkFields

CatalogGrows == Parts \ UNION {Registered[s] : s \in Scans} \subseteq catalog

RowIsFrozen(r) ==
    resolution[r].status # "NONE" =>
        \E C \in PastCatalogs : resolution[r].candidates \subseteq Verdict(resolution[r].scan, C).candidates

RowIsConfirmed(r) ==
    resolution[r].status = "CONFIRMED" => <<resolution[r].scan, resolution[r].selected>> \in confirmed

RowIsOpen(k) ==
    clerk[k].pc = "write" =>
        /\ clerk[k].row \in Resolutions /\ resolution[clerk[k].row].status # "NONE"
        /\ clerk[k].next # "NONE"

CatalogInv ==
    /\ CatalogShape
    /\ CatalogGrows
    /\ \A r \in Resolutions : RowIsFrozen(r) /\ RowIsConfirmed(r)
    /\ \A k \in Clerks : RowIsOpen(k)

---------------------------------------------------------------------------
(* The runs.                                                               *)
RunFields ==
    {"at", "status", "part", "bin", "home", "duplicate", "result", "count", "movement",
     "before", "into", "was"}
MovementFields == {"status", "keyed", "part", "bin", "home", "before", "count"}

GraphShape ==
    /\ request \in [Runs -> Request]
    /\ DOMAIN run = Runs
    /\ \A x \in Runs : DOMAIN run[x] = RunFields
    /\ DOMAIN movement = Runs
    /\ \A x \in Runs : DOMAIN movement[x] = MovementFields
    /\ DOMAIN binStatus = Bins

BeforeClaim ==
    {"validate", "identity", "source", "destination", "preflight", "execute", "claim"}

(* A run that has not claimed anything has no movement and no answer.      *)
NotYetClaimed(x) ==
    run[x].at \in BeforeClaim => movement[x] = NoMovement /\ run[x].result = NONE

(* What a putaway has planned.                                             *)
PlanIsIdentified(x) ==
    run[x].at = "claim" =>
        /\ request[x].kind = "PUTAWAY"
        /\ run[x].was # "RESERVED"
        /\ run[x].part # NoPart /\ StandsFor(request[x].scan, run[x].part)

(* What a putaway has reserved.                                            *)
MoveIsPlanned(x) ==
    (run[x].at = "move" /\ request[x].kind = "PUTAWAY") =>
        /\ run[x].was # "RESERVED" /\ movement[x].status # NONE
        /\ movement[x].bin = run[x].bin /\ movement[x].home = run[x].home

MovementIsIdentified(x) ==
    (request[x].kind = "PUTAWAY" /\ movement[x].status # NONE) =>
        movement[x].part # NoPart /\ StandsFor(request[x].scan, movement[x].part)

(* A retrieval reserves one bin.                                           *)
RetrievalHasNoHome(x) == request[x].kind = "RETRIEVAL" => movement[x].home = NoBin

(* Between the motion and the count a retrieval's movement says so.        *)
CheckIsAwaited(x) == run[x].at = "check" => movement[x].status = "AWAITING_VERIFICATION"

(* A completed movement is out of everybody's hands.                       *)
CompletedIsLeft(x) == movement[x].status = "COMPLETED" => run[x].at \in {"verify", "over"}

ReplayIsOriginal(x) ==
    run[x].result = "replayed" =>
        /\ run[x].at \in {"verify", "over"}
        /\ movement[x] = NoMovement
        /\ run[x].movement \in Runs
        /\ movement[run[x].movement].status = "COMPLETED"
        /\ run[x].part = movement[run[x].movement].part
        /\ run[x].bin = movement[run[x].movement].bin
        /\ run[x].count = movement[run[x].movement].count

RunInv(x) ==
    /\ NotYetClaimed(x) /\ PlanIsIdentified(x) /\ MoveIsPlanned(x)
    /\ MovementIsIdentified(x) /\ RetrievalHasNoHome(x) /\ CheckIsAwaited(x)
    /\ CompletedIsLeft(x) /\ ReplayIsOriginal(x)

GraphInv == GraphShape /\ (\A x \in Runs : RunInv(x)) /\ ReservationHasAnOwner

Inv == CatalogInv /\ GraphInv

---------------------------------------------------------------------------
(* The catalog.                                                            *)

(* What a catalog said, it has said.                                       *)
LEMMA PastStays ==
  ASSUME catalog \subseteq catalog'
  PROVE  PastCatalogs \subseteq PastCatalogs'
  BY DEF PastCatalogs

LEMMA StandsForStays ==
  ASSUME catalog \subseteq catalog', confirmed \subseteq confirmed', NEW s, NEW p, StandsFor(s, p)
  PROVE  StandsFor(s, p)'
  BY PastStays DEF StandsFor

LEMMA PresentIsPast ==
  ASSUME CatalogGrows
  PROVE  catalog \in PastCatalogs
  BY DEF CatalogGrows, PastCatalogs

(* A step that leaves the parts alone and changes one row.                 *)
LEMMA RowStep ==
  ASSUME CatalogInv, UNCHANGED catalog, confirmed \subseteq confirmed',
         NEW r \in Resolutions, NEW new, DOMAIN new = RowFields,
         resolution' = [resolution EXCEPT ![r] = new],
         new.status # "NONE",
         \E C \in PastCatalogs : new.candidates \subseteq Verdict(new.scan, C).candidates,
         new.status = "CONFIRMED" => <<new.scan, new.selected>> \in confirmed',
         DOMAIN clerk' = Clerks,
         \A k \in Clerks : DOMAIN clerk'[k] = ClerkFields,
         \A k \in Clerks : clerk'[k].pc = "write" => clerk'[k] = clerk[k]
  PROVE  CatalogInv'
  <1>1. PastCatalogs' = PastCatalogs
    BY DEF PastCatalogs
  <1>2. CatalogShape'
    BY DEF CatalogInv, CatalogShape
  <1>3. CatalogGrows'
    BY DEF CatalogInv, CatalogGrows
  <1>4. ASSUME NEW q \in Resolutions
        PROVE  RowIsFrozen(q)' /\ RowIsConfirmed(q)'
    <2>1. CASE q = r
      BY <2>1, <1>1 DEF CatalogInv, CatalogShape, RowIsFrozen, RowIsConfirmed
    <2>2. CASE q # r
      <3>1. resolution'[q] = resolution[q]
        BY <2>2 DEF CatalogInv, CatalogShape
      <3> QED
        BY <3>1, <1>1 DEF CatalogInv, RowIsFrozen, RowIsConfirmed
    <2> QED
      BY <2>1, <2>2
  <1>5. ASSUME NEW k \in Clerks
        PROVE  RowIsOpen(k)'
    BY DEF CatalogInv, CatalogShape, RowIsOpen
  <1> QED
    BY <1>2, <1>3, <1>4, <1>5 DEF CatalogInv

(* Reading a row may write its expiry.                                     *)
LEMMA ReadingRow ==
  ASSUME CatalogInv, NEW s, NEW given, given \in Resolutions \cup {NoRow}, ReadsResolution(s, given),
         UNCHANGED <<catalog, old, clerk, confirmed>>
  PROVE  CatalogInv'
  <1>1. CASE resolution' = resolution
    BY <1>1 DEF CatalogInv, CatalogShape, CatalogGrows, RowIsFrozen, RowIsConfirmed, RowIsOpen, PastCatalogs
  <1>2. CASE resolution' = [resolution EXCEPT ![given].status = "EXPIRED"]
             /\ given \in Resolutions /\ resolution[given].status = "PENDING"
    <2> DEFINE new == [resolution[given] EXCEPT !.status = "EXPIRED"]
    <2>1. resolution' = [resolution EXCEPT ![given] = new]
      BY <1>2
    <2>2. DOMAIN new = RowFields /\ new.status = "EXPIRED"
          /\ new.candidates = resolution[given].candidates /\ new.scan = resolution[given].scan
      BY <1>2 DEF CatalogInv, CatalogShape, RowFields
    <2>3. \E C \in PastCatalogs : new.candidates \subseteq Verdict(new.scan, C).candidates
      BY <1>2, <2>2 DEF CatalogInv, RowIsFrozen
    <2>4. UNCHANGED catalog /\ confirmed \subseteq confirmed' /\ clerk' = clerk
      OBVIOUS
    <2> HIDE DEF new
    <2> QED
      BY <1>2, <2>1, <2>2, <2>3, <2>4, RowStep DEF CatalogInv, CatalogShape
  <1> QED
    BY <1>1, <1>2, CatalogAssumption DEF ReadsResolution, Outlived

LEMMA CatalogStepInv ==
  ASSUME CatalogInv, CatalogStep
  PROVE  CatalogInv' /\ catalog \subseteq catalog' /\ confirmed \subseteq confirmed'
  <1> DEFINE Goal == CatalogInv' /\ catalog \subseteq catalog' /\ confirmed \subseteq confirmed'
  <1>1. ASSUME NEW k \in Clerks, WriteDecision(k)
        PROVE  Goal
    <2> DEFINE c == clerk[k]
               new == [resolution[c.row] EXCEPT !.status = c.next,
                         !.selected = IF c.next = "CONFIRMED" THEN c.part ELSE @]
    <2>1. c.row \in Resolutions /\ resolution[c.row].status # "NONE" /\ c.next # "NONE"
      BY <1>1 DEF CatalogInv, RowIsOpen, WriteDecision
    <2>2. resolution' = [resolution EXCEPT ![c.row] = new]
      BY <1>1, <2>1 DEF WriteDecision, CatalogInv, CatalogShape
    <2>3. /\ DOMAIN new = RowFields /\ new.status = c.next
          /\ new.candidates = resolution[c.row].candidates /\ new.scan = resolution[c.row].scan
          /\ c.next = "CONFIRMED" => new.selected = c.part
      BY <2>1 DEF CatalogInv, CatalogShape, RowFields
    <2>4. \E C \in PastCatalogs : new.candidates \subseteq Verdict(new.scan, C).candidates
      BY <2>1, <2>3 DEF CatalogInv, RowIsFrozen
    <2>5. /\ UNCHANGED catalog /\ confirmed \subseteq confirmed'
          /\ c.next = "CONFIRMED" => <<resolution[c.row].scan, c.part>> \in confirmed'
      BY <1>1 DEF WriteDecision
    <2>6. /\ DOMAIN clerk' = Clerks
          /\ \A j \in Clerks : DOMAIN clerk'[j] = ClerkFields
          /\ \A j \in Clerks : clerk'[j].pc = "write" => clerk'[j] = clerk[j]
      BY <1>1 DEF WriteDecision, CatalogInv, CatalogShape, ClerkFields
    <2> HIDE DEF new
    <2> QED
      BY <2>1, <2>2, <2>3, <2>4, <2>5, <2>6, RowStep
  <1>2. ASSUME NEW k \in Clerks, CreatePart(k)
        PROVE  Goal
    <2>1. catalog \subseteq catalog' /\ UNCHANGED <<resolution, old, confirmed>>
      BY <1>2 DEF CreatePart
    <2>2. CatalogShape' /\ CatalogGrows'
      BY <1>2, <2>1 DEF CreatePart, CatalogInv, CatalogShape, CatalogGrows, ClerkFields
    <2>3. PastCatalogs \subseteq PastCatalogs'
      BY <2>1, PastStays
    <2>4. ASSUME NEW r \in Resolutions
          PROVE  RowIsFrozen(r)' /\ RowIsConfirmed(r)'
      BY <2>1, <2>3 DEF CatalogInv, RowIsFrozen, RowIsConfirmed
    <2>5. ASSUME NEW j \in Clerks
          PROVE  RowIsOpen(j)'
      BY <1>2, <2>1 DEF CreatePart, CatalogInv, CatalogShape, RowIsOpen, ClerkFields
    <2> QED
      BY <2>1, <2>2, <2>4, <2>5 DEF CatalogInv
  <1>3. ASSUME NEW k \in Clerks, NEW s \in Scans, AskOperator(k, s)
        PROVE  Goal
    <2>1. PICK r \in Resolutions :
            resolution' = [resolution EXCEPT ![r] =
              [status |-> "PENDING", scan |-> s, candidates |-> Verdict(s, catalog).candidates,
               selected |-> NoPart]]
      BY <1>3 DEF AskOperator
    <2>2. /\ DOMAIN clerk' = Clerks
          /\ \A j \in Clerks : DOMAIN clerk'[j] = ClerkFields
          /\ \A j \in Clerks : clerk'[j].pc = "write" => clerk'[j] = clerk[j]
      BY <1>3 DEF AskOperator, CatalogInv, CatalogShape, ClerkFields
    <2>3. UNCHANGED catalog /\ confirmed \subseteq confirmed'
      BY <1>3 DEF AskOperator
    <2>4. catalog \in PastCatalogs
      BY PresentIsPast DEF CatalogInv
    <2> DEFINE new == [status |-> "PENDING", scan |-> s, candidates |-> Verdict(s, catalog).candidates,
                       selected |-> NoPart]
    <2>5. /\ DOMAIN new = RowFields /\ new.status = "PENDING"
          /\ new.candidates \subseteq Verdict(new.scan, catalog).candidates
      BY DEF RowFields
    <2>6. resolution' = [resolution EXCEPT ![r] = new]
      BY <2>1
    <2> HIDE DEF new
    <2> QED
      BY <2>2, <2>3, <2>4, <2>5, <2>6, RowStep
  <1>4. ASSUME NEW k \in Clerks, NEW s \in Scans, BeginRegistration(k, s)
        PROVE  Goal
    BY <1>4 DEF BeginRegistration, CatalogInv, CatalogShape, CatalogGrows, RowIsFrozen,
                RowIsConfirmed, RowIsOpen, PastCatalogs, ClerkFields
  <1>5. ASSUME NEW k \in Clerks, NEW r \in Resolutions, Confirm(k, r) \/ RejectAll(k, r)
        PROVE  Goal
    <2>1. PICK next, p : next \in {"CONFIRMED", "REJECTED"} /\ Decide(k, r, next, p)
      BY <1>5 DEF Confirm, RejectAll
    <2>2. UNCHANGED <<catalog, resolution, old, confirmed>> /\ CatalogShape'
      BY <2>1 DEF Decide, CatalogInv, CatalogShape, ClerkFields
    <2>3. ASSUME NEW j \in Clerks
          PROVE  RowIsOpen(j)'
      BY <2>1, <2>2 DEF Decide, CatalogInv, CatalogShape, RowIsOpen, ClerkFields
    <2> QED
      BY <2>2, <2>3 DEF CatalogInv, CatalogGrows, RowIsFrozen, RowIsConfirmed, PastCatalogs
  <1>6. ASSUME NEW r \in Resolutions, Age(r)
        PROVE  Goal
    BY <1>6 DEF Age, CatalogInv, CatalogShape, CatalogGrows, RowIsFrozen, RowIsConfirmed,
                RowIsOpen, PastCatalogs
  <1> QED
    BY <1>1, <1>2, <1>3, <1>4, <1>5, <1>6 DEF CatalogStep

---------------------------------------------------------------------------
(* One run's step.  What every other run knows stays true while movements, *)
(* what a part stands for and what it was told stay as they are.           *)
LEMMA OthersStay ==
  ASSUME NEW x \in Runs, NEW y \in Runs, x # y, \A z \in Runs : RunInv(z),
         UNCHANGED request, run'[y] = run[y], movement'[y] = movement[y],
         \A z \in Runs : movement[z].status = "COMPLETED" => movement'[z] = movement[z],
         catalog \subseteq catalog', confirmed \subseteq confirmed'
  PROVE  RunInv(y)'
  <1>1. \A s, p : StandsFor(s, p) => StandsFor(s, p)'
    BY StandsForStays
  <1> QED
    BY <1>1 DEF RunInv, NotYetClaimed, PlanIsIdentified, MoveIsPlanned, MovementIsIdentified,
                RetrievalHasNoHome, CheckIsAwaited, CompletedIsLeft, ReplayIsOriginal

(* A run that only reads keeps what it knows, if it says nothing new but   *)
(* what a putaway plans.                                                   *)
ReadsOn(x, new) ==
    /\ run' = [run EXCEPT ![x] = new] /\ DOMAIN new = RunFields
    /\ \/ /\ run[x].at \in BeforeClaim
          /\ new.at \in BeforeClaim \cup {"over"}
          /\ new.result # "replayed"
          /\ new.at \in BeforeClaim => new.result = run[x].result
          /\ new.at = "claim" =>
               /\ request[x].kind = "PUTAWAY" /\ new.was # "RESERVED"
               /\ new.part # NoPart /\ StandsFor(request[x].scan, new.part)
       \/ /\ run[x].at = "verify" /\ new.at = "over"
          /\ new.result = "replayed" =>
               /\ new.result = run[x].result /\ new.movement = run[x].movement
               /\ new.part = run[x].part /\ new.bin = run[x].bin /\ new.count = run[x].count

LEMMA ReadingStep ==
  ASSUME GraphInv, NEW x \in Runs, NEW new, ReadsOn(x, new),
         UNCHANGED <<request, movement, shelfVars>>,
         catalog \subseteq catalog', confirmed \subseteq confirmed'
  PROVE  GraphInv'
  <1>1. GraphShape'
    BY DEF GraphInv, GraphShape, shelfVars, ReadsOn
  <1>2. run'[x] = new /\ \A y \in Runs \ {x} : run'[y] = run[y]
    BY DEF GraphInv, GraphShape, ReadsOn
  <1>3. ASSUME NEW y \in Runs, y # x
        PROVE  RunInv(y)'
    BY <1>2, <1>3, OthersStay DEF GraphInv
  <1>4. RunInv(x)'
    <2>1. \A s, p : StandsFor(s, p) => StandsFor(s, p)'
      BY StandsForStays
    <2>2. /\ RunInv(x) /\ request' = request /\ movement' = movement /\ run'[x] = new
          /\ new.at # "move" /\ new.at # "check"
          /\ new.at \in BeforeClaim => run[x].at \in BeforeClaim /\ new.result = run[x].result
          /\ run[x].at = "verify" => new.at = "over"
          /\ run[x].at \in BeforeClaim \cup {"verify"}
          /\ new.at = "claim" =>
               /\ request[x].kind = "PUTAWAY" /\ new.was # "RESERVED"
               /\ new.part # NoPart /\ StandsFor(request[x].scan, new.part)
          /\ new.result = "replayed" =>
               /\ new.at = "over"
               /\ new.result = run[x].result /\ new.movement = run[x].movement
               /\ new.part = run[x].part /\ new.bin = run[x].bin /\ new.count = run[x].count
      BY <1>2 DEF GraphInv, BeforeClaim, ReadsOn
    <2>3. NotYetClaimed(x)' /\ MoveIsPlanned(x)'
      BY <2>2 DEF RunInv, NotYetClaimed, MoveIsPlanned
    <2>4. PlanIsIdentified(x)'
      BY <2>1, <2>2 DEF PlanIsIdentified
    <2>5. MovementIsIdentified(x)' /\ RetrievalHasNoHome(x)' /\ CheckIsAwaited(x)'
      BY <2>1, <2>2 DEF RunInv, MovementIsIdentified, RetrievalHasNoHome, CheckIsAwaited
    <2>6. CompletedIsLeft(x)'
      BY <2>2 DEF RunInv, CompletedIsLeft, BeforeClaim
    <2>7. ReplayIsOriginal(x)'
      BY <2>2 DEF RunInv, ReplayIsOriginal
    <2> QED
      BY <2>3, <2>4, <2>5, <2>6, <2>7 DEF RunInv
  <1>5. ReservationHasAnOwner'
    BY DEF GraphInv, ReservationHasAnOwner, shelfVars
  <1> QED
    BY <1>1, <1>3, <1>4, <1>5 DEF GraphInv

(* A run that claims, moves or counts says what it did in its movement.    *)
ActsOn(x, new, row) ==
    /\ run' = [run EXCEPT ![x] = new] /\ DOMAIN new = RunFields
    /\ DOMAIN movement' = Runs /\ \A y \in Runs \ {x} : movement'[y] = movement[y]
    /\ movement'[x] = row /\ DOMAIN row = MovementFields
    /\ run[x].at \in {"execute", "claim", "move", "check"}
    /\ new.at \in {"move", "check", "verify", "over"} /\ new.result # "replayed"
    /\ (new.at = "move" /\ request[x].kind = "PUTAWAY") =>
         /\ new.was # "RESERVED" /\ row.status # NONE
         /\ row.bin = new.bin /\ row.home = new.home
    /\ (request[x].kind = "PUTAWAY" /\ row.status # NONE) =>
         row.part # NoPart /\ StandsFor(request[x].scan, row.part)
    /\ request[x].kind = "RETRIEVAL" => row.home = NoBin
    /\ new.at = "check" => row.status = "AWAITING_VERIFICATION"
    /\ row.status = "COMPLETED" => new.at \in {"verify", "over"}

LEMMA ActingStep ==
  ASSUME GraphInv, NEW x \in Runs, NEW new, NEW row, ActsOn(x, new, row),
         UNCHANGED <<request, catalog, confirmed>>,
         DOMAIN binStatus' = Bins, ReservationHasAnOwner'
  PROVE  GraphInv'
  <1>1. GraphShape'
    BY DEF GraphInv, GraphShape, ActsOn
  <1>2. /\ run'[x] = new /\ \A y \in Runs \ {x} : run'[y] = run[y]
        /\ movement'[x] = row /\ \A y \in Runs \ {x} : movement'[y] = movement[y]
    BY DEF GraphInv, GraphShape, ActsOn
  <1>3. \A z \in Runs : movement[z].status = "COMPLETED" => movement'[z] = movement[z]
    <2>1. movement[x].status # "COMPLETED"
      BY DEF GraphInv, RunInv, CompletedIsLeft, ActsOn
    <2> QED
      BY <2>1, <1>2
  <1>4. ASSUME NEW y \in Runs, y # x
        PROVE  RunInv(y)'
    BY <1>2, <1>3, <1>4, OthersStay DEF GraphInv
  <1>5. RunInv(x)'
    <2>1. \A s, p : StandsFor(s, p) => StandsFor(s, p)'
      BY StandsForStays
    <2>2. new.at \notin BeforeClaim /\ new.at # "claim"
      BY DEF ActsOn, BeforeClaim
    <2>3. NotYetClaimed(x)' /\ PlanIsIdentified(x)'
      BY <1>2, <2>2 DEF NotYetClaimed, PlanIsIdentified
    <2>4. MoveIsPlanned(x)' /\ RetrievalHasNoHome(x)' /\ CheckIsAwaited(x)'
      BY <1>2 DEF MoveIsPlanned, RetrievalHasNoHome, CheckIsAwaited, ActsOn
    <2>5. MovementIsIdentified(x)'
      BY <1>2, <2>1 DEF MovementIsIdentified, ActsOn
    <2>6. CompletedIsLeft(x)' /\ ReplayIsOriginal(x)'
      BY <1>2 DEF CompletedIsLeft, ReplayIsOriginal, ActsOn
    <2> QED
      BY <2>3, <2>4, <2>5, <2>6 DEF RunInv
  <1> QED
    BY <1>1, <1>4, <1>5 DEF GraphInv

(* A repeated request hears of a completed movement, or nothing.           *)
LEMMA ReplayStep ==
  ASSUME GraphInv, NEW x \in Runs, run[x].at = "execute", ReplayOrReject(x),
         UNCHANGED <<request, movement, shelfVars>>,
         catalog \subseteq catalog', confirmed \subseteq confirmed'
  PROVE  GraphInv'
  <1>1. PICK y \in Claimed(x) :
          IF movement[y].status = "COMPLETED"
          THEN Becomes(x, [run[x] EXCEPT !.at = "verify", !.result = "replayed",
                             !.movement = y, !.part = movement[y].part,
                             !.bin = movement[y].bin, !.count = movement[y].count])
          ELSE Fails(x, y)
    BY DEF ReplayOrReject
  <1>2. movement[x] = NoMovement /\ run[x].result = NONE /\ DOMAIN run[x] = RunFields
    BY DEF GraphInv, GraphShape, RunInv, NotYetClaimed, BeforeClaim
  <1>3. CASE movement[y].status = "COMPLETED"
    <2> DEFINE new == [run[x] EXCEPT !.at = "verify", !.result = "replayed",
                         !.movement = y, !.part = movement[y].part,
                         !.bin = movement[y].bin, !.count = movement[y].count]
    <2>1. /\ run' = [run EXCEPT ![x] = new] /\ DOMAIN new = RunFields
          /\ new.at = "verify" /\ new.result = "replayed" /\ new.movement = y
          /\ new.part = movement[y].part /\ new.bin = movement[y].bin
          /\ new.count = movement[y].count
      BY <1>1, <1>2, <1>3 DEF Becomes, RunFields
    <2>2. y \in Runs
      BY DEF Claimed
    <2> HIDE DEF new
    <2>3. GraphShape'
      BY <2>1 DEF GraphInv, GraphShape, shelfVars
    <2>4. run'[x] = new /\ \A z \in Runs \ {x} : run'[z] = run[z]
      BY <2>1 DEF GraphInv, GraphShape
    <2>5. ASSUME NEW z \in Runs, z # x
          PROVE  RunInv(z)'
      BY <2>4, <2>5, OthersStay DEF GraphInv
    <2>6. RunInv(x)'
      <3>1. NotYetClaimed(x)' /\ PlanIsIdentified(x)' /\ MoveIsPlanned(x)' /\ CheckIsAwaited(x)'
        BY <2>1, <2>4 DEF NotYetClaimed, PlanIsIdentified, MoveIsPlanned, CheckIsAwaited, BeforeClaim
      <3>2. MovementIsIdentified(x)'
        BY <1>2 DEF MovementIsIdentified, NoMovement, NONE
      <3>3. RetrievalHasNoHome(x)' /\ CompletedIsLeft(x)'
        BY <1>2, <2>1, <2>4 DEF RetrievalHasNoHome, CompletedIsLeft, NoMovement, NONE
      <3>4. ReplayIsOriginal(x)'
        BY <1>2, <1>3, <2>1, <2>2, <2>4 DEF ReplayIsOriginal
      <3> QED
        BY <3>1, <3>2, <3>3, <3>4 DEF RunInv
    <2>7. ReservationHasAnOwner'
      BY DEF GraphInv, ReservationHasAnOwner, shelfVars
    <2> QED
      BY <2>3, <2>5, <2>6, <2>7 DEF GraphInv
  <1>4. CASE Fails(x, y)
    <2>1. PICK answer : Ends(x, [run[x] EXCEPT !.result = "failed", !.movement = y], answer)
      BY <1>4 DEF Fails
    <2> DEFINE new == [[run[x] EXCEPT !.result = "failed", !.movement = y]
                         EXCEPT !.at = "over", !.status = answer]
    <2>2. ReadsOn(x, new)
      BY <2>1, <1>2 DEF ReadsOn, Ends, Becomes, RunFields, BeforeClaim
    <2> HIDE DEF new
    <2> QED
      BY <2>2, ReadingStep
  <1> QED
    BY <1>1, <1>3, <1>4

---------------------------------------------------------------------------
(* Every node that only reads.                                             *)
LEMMA RetrievalReads ==
  ASSUME GraphInv, NEW x \in Runs,
         \/ ValidateRetrieval(x) \/ ResolvePart(x) \/ SelectSource(x)
         \/ RetrievalPreflight(x) \/ VerifyRetrieval(x) \/ RetrievalTimeout(x)
  PROVE  ReadsOn(x, run'[x])
  <1> USE DEF ReadsOn, At, Becomes, Ends, Blocks, NextNode, RunFields, BeforeClaim
  <1>1. DOMAIN run = Runs /\ DOMAIN run[x] = RunFields
    BY DEF GraphInv, GraphShape
  <1>2. run[x].at \in BeforeClaim => run[x].result # "replayed"
    BY DEF GraphInv, RunInv, NotYetClaimed, NONE
  <1>3. CASE ValidateRetrieval(x)
    BY <1>1, <1>2, <1>3, ZenonT(30) DEF ValidateRetrieval
  <1>4. CASE ResolvePart(x)
    BY <1>1, <1>2, <1>4 DEF ResolvePart
  <1>5. CASE SelectSource(x)
    BY <1>1, <1>2, <1>5, ZenonT(30) DEF SelectSource
  <1>6. CASE RetrievalPreflight(x)
    BY <1>1, <1>2, <1>6 DEF RetrievalPreflight
  <1>7. CASE VerifyRetrieval(x)
    BY <1>1, <1>7 DEF VerifyRetrieval
  <1>8. CASE RetrievalTimeout(x)
    BY <1>1, <1>8 DEF RetrievalTimeout
  <1> QED
    BY <1>3, <1>4, <1>5, <1>6, <1>7, <1>8

LEMMA PutawayReads ==
  ASSUME GraphInv, NEW x \in Runs,
         \/ ValidatePutaway(x) \/ ResolvePutawayIdentity(x) \/ ResolveDestination(x)
         \/ PutawayPreflight(x) \/ VerifyPutaway(x)
  PROVE  ReadsOn(x, run'[x])
  <1> USE DEF ReadsOn, At, Becomes, Ends, Blocks, NextNode, RunFields, BeforeClaim
  <1>1. DOMAIN run = Runs /\ DOMAIN run[x] = RunFields
    BY DEF GraphInv, GraphShape
  <1>2. run[x].at \in BeforeClaim => run[x].result # "replayed"
    BY DEF GraphInv, RunInv, NotYetClaimed, NONE
  <1>3. CASE ValidatePutaway(x)
    BY <1>1, <1>2, <1>3, ZenonT(30) DEF ValidatePutaway
  <1>4. CASE ResolvePutawayIdentity(x)
    BY <1>1, <1>2, <1>4, ZenonT(30) DEF ResolvePutawayIdentity
  <1>5. CASE ResolveDestination(x)
    <2>1. run[x].at = "destination"
      BY <1>5 DEF ResolveDestination
    <2>2. CASE Blocks(x)
      BY <1>1, <1>2, <2>1, <2>2
    <2>3. CASE \E b, home : Becomes(x, [NextNode(x, "preflight") EXCEPT !.bin = b, !.home = home])
      BY <1>1, <1>2, <2>1, <2>3
    <2> HIDE DEF ReadsOn, Becomes, Blocks, NextNode
    <2> DEFINE n == request[x].quantity
               d == IF request[x].bin # NoBin
                    THEN NamedDestination(request[x].bin, run[x].part, n)
                    ELSE ChosenDestination(run[x].part, n)
    <2>4. IF run[x].duplicate
          THEN \E y \in Finished(x) :
                 Becomes(x, [NextNode(x, "preflight") EXCEPT !.bin = movement[y].bin,
                               !.home = movement[y].home])
          ELSE IF d = Nowhere
          THEN Blocks(x)
          ELSE Becomes(x, [NextNode(x, "preflight") EXCEPT !.bin = d[1], !.home = d[2]])
      BY <1>5 DEF ResolveDestination
    <2> HIDE DEF n, d
    <2>5. Blocks(x)
          \/ \E b, home : Becomes(x, [NextNode(x, "preflight") EXCEPT !.bin = b, !.home = home])
      BY <2>4, Zenon
    <2> QED
      BY <2>2, <2>3, <2>5
  <1>6. CASE PutawayPreflight(x)
    BY <1>1, <1>2, <1>6 DEF PutawayPreflight
  <1>7. CASE VerifyPutaway(x)
    BY <1>1, <1>7 DEF VerifyPutaway
  <1> QED
    BY <1>3, <1>4, <1>5, <1>6, <1>7

(* What the one rule identifies stands for the scan.                       *)
LEMMA IdentifiedStandsFor ==
  ASSUME CatalogInv, NEW s, NEW given \in Resolutions \cup {NoRow},
         ResolveIdentity(s, given).part # NoPart
  PROVE  StandsFor(s, ResolveIdentity(s, given).part)
  <1> DEFINE v == Verdict(s, catalog)
  <1>1. catalog \in PastCatalogs
    BY PresentIsPast DEF CatalogInv
  <1>2. CASE v.status = "MATCHED"
    <2>1. ResolveIdentity(s, given).part = v.part
      BY <1>2 DEF ResolveIdentity, Identified
    <2> QED
      BY <1>1, <2>1 DEF StandsFor
  <1>3. CASE v.status \notin {"MATCHED", "NO_MATCH"} /\ given # NoRow /\ Authorises(given, s)
    <2>1. ResolveIdentity(s, given).part = resolution[given].selected
      BY <1>3 DEF ResolveIdentity, Identified
    <2>2. <<s, resolution[given].selected>> \in confirmed
      BY <1>3 DEF CatalogInv, RowIsConfirmed, Authorises
    <2>3. \E C \in PastCatalogs : resolution[given].selected \in Verdict(s, C).candidates
      BY <1>3 DEF CatalogInv, RowIsFrozen, Authorises
    <2> QED
      BY <2>1, <2>2, <2>3 DEF StandsFor
  <1>4. CASE /\ v.status # "MATCHED"
             /\ v.status = "NO_MATCH" \/ given = NoRow \/ ~Authorises(given, s)
    BY <1>4 DEF ResolveIdentity, Unidentified
  <1> QED
    BY <1>2, <1>3, <1>4

(* A bin that is reserved is nobody's destination.                         *)
LEMMA DestinationIsFree ==
  ASSUME NEW b, NEW p, NEW n, NamedDestination(b, p, n) # Nowhere
  PROVE  /\ NamedDestination(b, p, n)[1] = b
         /\ binStatus[b] # "RESERVED"
  <1>1. b \in Eligible(p, n) => binStatus[b] # "RESERVED"
    BY DEF Eligible, EvaluateDestination
  <1> QED
    BY <1>1 DEF NamedDestination

---------------------------------------------------------------------------
(* What each step of execute does to what the runs know.                   *)
LEMMA PlanPutawayInv ==
  ASSUME Inv, NEW x \in Runs, PlanPutaway(x)
  PROVE  Inv'
  <1> DEFINE p == IdentityOf(x)
             d == NamedDestination(run[x].bin, p, request[x].quantity)
  <1>1. /\ run[x].at = "execute" /\ request[x].kind = "PUTAWAY"
        /\ DOMAIN run = Runs /\ DOMAIN run[x] = RunFields
        /\ UNCHANGED <<request, movement, shelfVars, catalog, old, clerk, confirmed>>
        /\ request[x].given \in Resolutions \cup {NoRow}
    BY DEF Inv, GraphInv, GraphShape, PlanPutaway, At, Request
  <1>2. CASE Claimed(x) # {} /\ ReplayOrReject(x) /\ UNCHANGED resolution
    <2>1. GraphInv'
      BY <1>1, <1>2, ReplayStep DEF Inv
    <2>2. CatalogInv'
      BY <1>1, <1>2 DEF Inv, CatalogInv, CatalogShape, CatalogGrows, RowIsFrozen, RowIsConfirmed,
                        RowIsOpen, PastCatalogs
    <2> QED
      BY <2>1, <2>2 DEF Inv
  <1>3. CASE /\ Claimed(x) = {}
             /\ IF p = NoPart \/ d = Nowhere \/ Mixed(d[2], p)
                THEN Fails(x, NoRun)
                ELSE Becomes(x, [NextNode(x, "claim") EXCEPT !.part = p, !.home = d[2],
                       !.before = Quantity(IF d[2] = NoBin THEN d[1] ELSE d[2]),
                       !.into = Quantity(d[1]), !.was = binStatus[d[1]]])
             /\ ReadsResolution(request[x].scan, request[x].given)
    <2>1. CatalogInv'
      BY <1>1, <1>3, ReadingRow DEF Inv
    <2>2. run[x].result # "replayed"
      BY <1>1 DEF Inv, GraphInv, RunInv, NotYetClaimed, BeforeClaim, NONE
    <2>3. ReadsOn(x, run'[x])
      <3>1. CASE p = NoPart \/ d = Nowhere \/ Mixed(d[2], p)
        BY <1>1, <1>3, <3>1, ZenonT(30) DEF Fails, Ends, Becomes, ReadsOn, RunFields, BeforeClaim
      <3>2. CASE ~(p = NoPart \/ d = Nowhere \/ Mixed(d[2], p))
        <4> DEFINE new == [NextNode(x, "claim") EXCEPT !.part = p, !.home = d[2],
                             !.before = Quantity(IF d[2] = NoBin THEN d[1] ELSE d[2]),
                             !.into = Quantity(d[1]), !.was = binStatus[d[1]]]
        <4>1. /\ run' = [run EXCEPT ![x] = new] /\ DOMAIN new = RunFields
              /\ new.at = "claim" /\ new.part = p /\ new.was = binStatus[d[1]]
              /\ new.result = run[x].result
          BY <1>1, <1>3, <3>2 DEF Becomes, NextNode, RunFields
        <4>2. binStatus[d[1]] # "RESERVED"
          BY <3>2, DestinationIsFree
        <4>3. p # NoPart /\ StandsFor(request[x].scan, p)
          BY <1>1, <3>2, IdentifiedStandsFor DEF Inv, IdentityOf
        <4> HIDE DEF new, p, d
        <4>4. run'[x] = new
          BY <1>1, <4>1
        <4> QED
          BY <1>1, <2>2, <4>4, <4>1, <4>2, <4>3 DEF ReadsOn, BeforeClaim
      <3> QED
        BY <3>1, <3>2
    <2> QED
      BY <1>1, <2>1, <2>3, ReadingStep DEF Inv
  <1> QED
    BY <1>2, <1>3 DEF PlanPutaway

(* A step that leaves the catalog alone.                                   *)
LEMMA CatalogStays ==
  ASSUME CatalogInv, UNCHANGED catalogVars
  PROVE  CatalogInv' /\ catalog \subseteq catalog' /\ confirmed \subseteq confirmed'
  BY DEF catalogVars, CatalogInv, CatalogShape, CatalogGrows, RowIsFrozen, RowIsConfirmed,
         RowIsOpen, PastCatalogs

LEMMA FailingRun ==
  ASSUME GraphInv, NEW x \in Runs, NEW named, Fails(x, named)
  PROVE  /\ run' = [run EXCEPT ![x] = run'[x]] /\ DOMAIN run'[x] = RunFields
         /\ run'[x].at = "over" /\ run'[x].result = "failed"
  BY DEF GraphInv, GraphShape, Fails, Ends, Becomes, RunFields

(* x has something to do with b.                                           *)
Owns(x, b) ==
    /\ b \in {movement[x].bin, movement[x].home}
    /\ \/ movement[x].status \in {"VALIDATED", "RUNNING"}
       \/ movement[x].status = "FAILED" /\ movement[x].keyed

(* Who moves a bin has reserved it, and lets go of it when he is done.     *)
LEMMA OwnersStay ==
  ASSUME GraphInv, NEW x \in Runs,
         \A y \in Runs \ {x} : movement'[y] = movement[y],
         \A b \in Bins : binStatus'[b] = "RESERVED" =>
            Owns(x, b)' \/ (binStatus[b] = "RESERVED" /\ ~Owns(x, b))
  PROVE  ReservationHasAnOwner'
  <1>1. ASSUME NEW b \in Bins, binStatus'[b] = "RESERVED"
        PROVE  \E y \in Runs : Owns(y, b)'
    <2>1. CASE Owns(x, b)'
      BY <2>1
    <2>2. CASE binStatus[b] = "RESERVED" /\ ~Owns(x, b)
      <3>1. PICK y \in Runs : Owns(y, b)
        BY <2>2 DEF GraphInv, ReservationHasAnOwner, Owns
      <3> QED
        BY <2>2, <3>1 DEF Owns
    <2> QED
      BY <1>1, <2>1, <2>2
  <1> QED
    BY <1>1 DEF ReservationHasAnOwner, Owns

LEMMA ClaimRetrievalInv ==
  ASSUME Inv, NEW x \in Runs, ClaimRetrieval(x)
  PROVE  Inv'
  <1>1. /\ run[x].at = "execute" /\ request[x].kind = "RETRIEVAL"
        /\ DOMAIN run = Runs /\ DOMAIN run[x] = RunFields /\ DOMAIN movement = Runs
        /\ UNCHANGED <<request, catalogVars>>
        /\ movement[x] = NoMovement
    BY DEF Inv, GraphInv, GraphShape, ClaimRetrieval, At, RunInv, NotYetClaimed, BeforeClaim
  <1>2. CatalogInv' /\ catalog \subseteq catalog' /\ confirmed \subseteq confirmed'
    BY <1>1, CatalogStays DEF Inv
  <1>3. CASE ReplayOrReject(x) /\ UNCHANGED <<movement, shelfVars>>
    BY <1>1, <1>2, <1>3, ReplayStep DEF Inv
  <1>4. CASE Fails(x, NoRun) /\ UNCHANGED <<movement, shelfVars>>
    <2>1. ReadsOn(x, run'[x])
      BY <1>1, <1>4, FailingRun DEF Inv, ReadsOn, BeforeClaim
    <2> QED
      BY <1>1, <1>2, <1>4, <2>1, ReadingStep DEF Inv
  <1>5. ASSUME NEW p, NEW b, b # NoBin,
               binStatus' = [binStatus EXCEPT ![b] = "RESERVED"],
               movement' = [movement EXCEPT ![x] =
                 [status |-> "RUNNING", keyed |-> TRUE, part |-> p, bin |-> b,
                  home |-> NoBin, before |-> stock[b][p], count |-> stock[b][p]]],
               Becomes(x, [NextNode(x, "move") EXCEPT !.movement = x])
        PROVE  GraphInv'
    <2>1. movement'[x] =
            [status |-> "RUNNING", keyed |-> TRUE, part |-> p, bin |-> b,
             home |-> NoBin, before |-> stock[b][p], count |-> stock[b][p]]
      BY <1>1, <1>5
    <2>2. /\ run' = [run EXCEPT ![x] = run'[x]] /\ DOMAIN run'[x] = RunFields
          /\ run'[x].at = "move" /\ run'[x].result = run[x].result
      BY <1>1, <1>5 DEF Becomes, NextNode, RunFields
    <2>3. run[x].result # "replayed"
      BY <1>1 DEF Inv, GraphInv, RunInv, NotYetClaimed, BeforeClaim, NONE
    <2>4. ActsOn(x, run'[x], movement'[x])
      BY <1>1, <1>5, <2>1, <2>2, <2>3 DEF ActsOn, MovementFields
    <2>5. ReservationHasAnOwner'
      <3>1. \A y \in Runs \ {x} : movement'[y] = movement[y]
        BY <1>1, <1>5
      <3>2. \A c \in Bins : ~Owns(x, c)
        BY <1>1 DEF Owns, NoMovement, NONE
      <3>3. ASSUME NEW c \in Bins, binStatus'[c] = "RESERVED"
            PROVE  Owns(x, c)' \/ binStatus[c] = "RESERVED"
        BY <1>5, <2>1, <3>3 DEF Owns, Inv, GraphInv, GraphShape
      <3> QED
        BY <3>1, <3>2, <3>3, OwnersStay DEF Inv
    <2>6. DOMAIN binStatus' = Bins
      BY <1>5 DEF Inv, GraphInv, GraphShape
    <2> QED
      BY <1>1, <2>4, <2>5, <2>6, ActingStep DEF Inv, catalogVars
  <1> QED
    BY <1>2, <1>3, <1>4, <1>5 DEF ClaimRetrieval, Inv

LEMMA MoveRetrievalInv ==
  ASSUME Inv, NEW x \in Runs, MoveRetrieval(x)
  PROVE  Inv'
  <1> DEFINE m == movement[x]
  <1>1. /\ run[x].at = "move" /\ request[x].kind = "RETRIEVAL"
        /\ DOMAIN run = Runs /\ DOMAIN run[x] = RunFields
        /\ DOMAIN movement = Runs /\ DOMAIN m = MovementFields
        /\ DOMAIN binStatus = Bins
        /\ UNCHANGED <<request, catalogVars>>
        /\ m.home = NoBin /\ run[x].result # "replayed" /\ m.status # "COMPLETED"
    BY DEF Inv, GraphInv, GraphShape, MoveRetrieval, At, RunInv, RetrievalHasNoHome,
           ReplayIsOriginal, CompletedIsLeft
  <1>2. CatalogInv'
    BY <1>1, CatalogStays DEF Inv
  <1>3. \A b \in Bins : b # NoBin
    BY BinsAssumption DEF NoBin
  <1>4. CASE RetrievalMoved(x)
    <2>1. CASE UNCHANGED <<movement, binStatus>> /\ Fails(x, x)
      <3>1. ActsOn(x, run'[x], movement'[x])
        BY <1>1, <2>1, FailingRun DEF Inv, ActsOn
      <3>2. ReservationHasAnOwner'
        BY <2>1 DEF Inv, GraphInv, ReservationHasAnOwner
      <3> QED
        BY <1>1, <1>2, <2>1, <3>1, <3>2, ActingStep DEF Inv, catalogVars
    <2>2. CASE /\ binStatus' = [binStatus EXCEPT ![m.bin] = "CHECKED_OUT"]
               /\ movement' = [movement EXCEPT ![x].status =
                    IF request[x].verify THEN "AWAITING_VERIFICATION" ELSE "COMPLETED"]
               /\ IF request[x].verify
                  THEN Becomes(x, NextNode(x, "check"))
                  ELSE Becomes(x, [NextNode(x, "verify") EXCEPT !.result = "ok",
                                     !.part = m.part, !.bin = m.bin, !.count = m.before])
      <3>1. /\ run' = [run EXCEPT ![x] = run'[x]] /\ DOMAIN run'[x] = RunFields
            /\ run'[x].at = IF request[x].verify THEN "check" ELSE "verify"
            /\ run'[x].result # "replayed"
        <4>1. CASE request[x].verify
          <5>1. run' = [run EXCEPT ![x] = [run[x] EXCEPT !.at = "check"]]
            BY <2>2, <4>1 DEF Becomes, NextNode
          <5> QED
            BY <1>1, <4>1, <5>1 DEF RunFields
        <4>2. CASE ~request[x].verify
          <5>1. run' = [run EXCEPT ![x] = [[run[x] EXCEPT !.at = "verify"]
                          EXCEPT !.result = "ok", !.part = m.part, !.bin = m.bin, !.count = m.before]]
            BY <2>2, <4>2 DEF Becomes, NextNode
          <5> QED
            BY <1>1, <4>2, <5>1 DEF RunFields
        <4> QED
          BY <4>1, <4>2
      <3>2. /\ movement' = [movement EXCEPT ![x] = movement'[x]]
            /\ movement'[x] = [m EXCEPT !.status =
                 IF request[x].verify THEN "AWAITING_VERIFICATION" ELSE "COMPLETED"]
        BY <1>1, <2>2
      <3>3. ActsOn(x, run'[x], movement'[x])
        BY <1>1, <3>1, <3>2 DEF ActsOn, MovementFields
      <3>4. ReservationHasAnOwner'
        <4>1. ASSUME NEW b \in Bins, binStatus'[b] = "RESERVED"
              PROVE  binStatus[b] = "RESERVED" /\ ~Owns(x, b)
          BY <1>1, <1>3, <2>2, <4>1 DEF Owns
        <4> QED
          BY <3>2, <1>1, <4>1, OwnersStay DEF Inv
      <3> QED
        BY <1>1, <1>2, <2>2, <3>3, <3>4, ActingStep DEF Inv, catalogVars
    <2> QED
      BY <1>4, <2>1, <2>2 DEF RetrievalMoved
  <1>5. ASSUME NEW uncertain \in BOOLEAN, ReleaseRetrieval(x, uncertain)
        PROVE  Inv'
    <2>1. /\ movement' = [movement EXCEPT ![x] = movement'[x]]
          /\ movement'[x] = [m EXCEPT !.status = "FAILED", !.keyed = uncertain]
      BY <1>1, <1>5 DEF ReleaseRetrieval, MovementFields
    <2>2. ActsOn(x, run'[x], movement'[x])
      BY <1>1, <1>5, <2>1, FailingRun DEF Inv, ActsOn, MovementFields, ReleaseRetrieval
    <2>3. ReservationHasAnOwner'
      <3>1. ASSUME NEW b \in Bins, binStatus'[b] = "RESERVED"
            PROVE  Owns(x, b)' \/ (binStatus[b] = "RESERVED" /\ ~Owns(x, b))
        BY <1>1, <1>3, <1>5, <2>1, <3>1 DEF Owns, ReleaseRetrieval, MovementFields
      <3> QED
        BY <1>1, <2>1, <3>1, OwnersStay DEF Inv
    <2>4. DOMAIN binStatus' = Bins
      BY <1>1, <1>5 DEF ReleaseRetrieval
    <2> QED
      BY <1>1, <1>2, <2>2, <2>3, <2>4, ActingStep DEF Inv, catalogVars
  <1> QED
    BY <1>4, <1>5 DEF MoveRetrieval

LEMMA CheckRetrievalInv ==
  ASSUME Inv, NEW x \in Runs, CheckRetrieval(x)
  PROVE  Inv'
  <1> DEFINE m == movement[x]
  <1>1. /\ run[x].at = "check" /\ request[x].kind = "RETRIEVAL"
        /\ DOMAIN run = Runs /\ DOMAIN run[x] = RunFields
        /\ DOMAIN movement = Runs /\ DOMAIN m = MovementFields
        /\ UNCHANGED <<request, binStatus, catalogVars>> /\ DOMAIN binStatus = Bins
        /\ m.home = NoBin /\ run[x].result # "replayed" /\ m.status = "AWAITING_VERIFICATION"
    <2>1. At(x, "RETRIEVAL", "check") /\ UNCHANGED <<request, binStatus, catalogVars>>
      BY DEF CheckRetrieval
    <2> QED
      BY <2>1 DEF Inv, GraphInv, GraphShape, At, RunInv, RetrievalHasNoHome,
                  ReplayIsOriginal, CheckIsAwaited
  <1>2. CatalogInv'
    BY <1>1, CatalogStays DEF Inv
  <1>3. /\ movement' = [movement EXCEPT ![x] = movement'[x]]
        /\ ActsOn(x, run'[x], movement'[x])
    <2>1. CASE movement' = [movement EXCEPT ![x].status = "FAILED"] /\ Fails(x, x)
      <3>1. /\ movement' = [movement EXCEPT ![x] = movement'[x]]
            /\ movement'[x] = [m EXCEPT !.status = "FAILED"]
        BY <1>1, <2>1
      <3> QED
        BY <1>1, <2>1, <3>1, FailingRun DEF Inv, ActsOn, MovementFields
    <2>2. ASSUME NEW n,
                 movement' = [movement EXCEPT ![x].status = "COMPLETED", ![x].count = n],
                 Becomes(x, [NextNode(x, "verify") EXCEPT !.result = "ok", !.part = m.part,
                               !.bin = m.bin, !.count = n])
          PROVE  /\ movement' = [movement EXCEPT ![x] = movement'[x]]
                 /\ ActsOn(x, run'[x], movement'[x])
      <3>1. /\ movement' = [movement EXCEPT ![x] = movement'[x]]
            /\ movement'[x] = [m EXCEPT !.status = "COMPLETED", !.count = n]
        BY <1>1, <2>2 DEF MovementFields
      <3>2. /\ run' = [run EXCEPT ![x] = run'[x]] /\ DOMAIN run'[x] = RunFields
            /\ run'[x].at = "verify" /\ run'[x].result = "ok"
        BY <1>1, <2>2 DEF Becomes, NextNode, RunFields
      <3> QED
        BY <1>1, <3>1, <3>2 DEF ActsOn, MovementFields
    <2> QED
      BY <2>1, <2>2 DEF CheckRetrieval
  <1>4. ReservationHasAnOwner'
    <2>1. ASSUME NEW b \in Bins
          PROVE  ~Owns(x, b)
      BY <1>1 DEF Owns
    <2> QED
      BY <1>1, <1>3, <2>1, OwnersStay DEF Inv
  <1> QED
    BY <1>1, <1>2, <1>3, <1>4, ActingStep DEF Inv, catalogVars

(* The transaction takes bins the plan saw free.                           *)
LEMMA ClaimPutawayInv ==
  ASSUME Inv, NEW x \in Runs, ClaimPutaway(x)
  PROVE  Inv'
  <1> DEFINE r == run[x]
             row == [status |-> "VALIDATED", keyed |-> TRUE, part |-> r.part, bin |-> r.bin,
                     home |-> r.home, before |-> r.before,
                     count |-> IF r.home = NoBin THEN r.before + request[x].quantity
                               ELSE request[x].quantity]
  <1>1. At(x, "PUTAWAY", "claim") /\ UNCHANGED <<request, stock, catalogVars>>
    BY DEF ClaimPutaway
  <1>2. /\ r.at = "claim" /\ request[x].kind = "PUTAWAY"
        /\ DOMAIN run = Runs /\ DOMAIN r = RunFields
        /\ DOMAIN movement = Runs /\ DOMAIN binStatus = Bins
        /\ movement[x] = NoMovement /\ r.result # "replayed"
        /\ r.was # "RESERVED" /\ r.part # NoPart /\ StandsFor(request[x].scan, r.part)
    BY <1>1 DEF Inv, GraphInv, GraphShape, At, RunInv, NotYetClaimed, PlanIsIdentified,
                BeforeClaim, NONE
  <1>3. CatalogInv' /\ catalog \subseteq catalog' /\ confirmed \subseteq confirmed'
    BY <1>1, CatalogStays DEF Inv
  <1>4. CASE Fails(x, NoRun) /\ UNCHANGED <<movement, binStatus>>
    <2>1. ReadsOn(x, run'[x])
      BY <1>2, <1>4, FailingRun DEF Inv, ReadsOn, BeforeClaim
    <2> QED
      BY <1>1, <1>3, <1>4, <2>1, ReadingStep DEF Inv, shelfVars
  <1>5. CASE /\ AsPlanned(x)
             /\ binStatus' = [b \in Bins |->
                  IF b \in {r.bin, r.home} THEN "RESERVED" ELSE binStatus[b]]
             /\ movement' = [movement EXCEPT ![x] = row]
             /\ Becomes(x, [NextNode(x, "move") EXCEPT !.movement = x])
    <2>1. /\ movement'[x] = row /\ DOMAIN movement' = Runs
          /\ \A y \in Runs \ {x} : movement'[y] = movement[y]
      BY <1>2, <1>5
    <2>2. /\ DOMAIN row = MovementFields /\ row.bin = r.bin /\ row.home = r.home
          /\ row.part = r.part /\ row.status = "VALIDATED"
      BY DEF MovementFields
    <2>3. run' = [run EXCEPT ![x] = [[r EXCEPT !.at = "move"] EXCEPT !.movement = x]]
      BY <1>5 DEF Becomes, NextNode
    <2>4. /\ run' = [run EXCEPT ![x] = run'[x]] /\ DOMAIN run'[x] = RunFields
          /\ run'[x].at = "move" /\ run'[x].result = r.result
          /\ run'[x].was = r.was /\ run'[x].bin = r.bin /\ run'[x].home = r.home
      BY <1>2, <2>3 DEF RunFields
    <2> HIDE DEF row
    <2>5. ActsOn(x, run'[x], movement'[x])
      BY <1>2, <2>1, <2>2, <2>4 DEF ActsOn, NONE
    <2>6. ReservationHasAnOwner'
      <3>1. ASSUME NEW b \in Bins, binStatus'[b] = "RESERVED"
            PROVE  Owns(x, b)' \/ (binStatus[b] = "RESERVED" /\ ~Owns(x, b))
        <4>1. CASE b \in {r.bin, r.home}
          BY <2>1, <2>2, <4>1 DEF Owns
        <4>2. CASE b \notin {r.bin, r.home}
          BY <1>2, <1>5, <3>1, <4>2 DEF Owns, NoMovement, NONE
        <4> QED
          BY <4>1, <4>2
      <3> QED
        BY <2>1, <3>1, OwnersStay DEF Inv
    <2> QED
      BY <1>1, <1>3, <1>5, <2>5, <2>6, ActingStep DEF Inv, catalogVars
  <1> QED
    BY <1>3, <1>4, <1>5 DEF ClaimPutaway, Inv

LEMMA MovePutawayInv ==
  ASSUME Inv, NEW x \in Runs, MovePutaway(x)
  PROVE  Inv'
  <1> DEFINE m == movement[x]
             r == run[x]
  <1>1. At(x, "PUTAWAY", "move") /\ UNCHANGED <<request, catalogVars>>
    BY DEF MovePutaway
  <1>2. /\ r.at = "move" /\ request[x].kind = "PUTAWAY"
        /\ DOMAIN run = Runs /\ DOMAIN r = RunFields
        /\ DOMAIN movement = Runs /\ DOMAIN m = MovementFields
        /\ DOMAIN binStatus = Bins
        /\ r.result # "replayed" /\ m.status # "COMPLETED" /\ r.was # "RESERVED"
        /\ m.bin = r.bin /\ m.home = r.home
        /\ m.status # NONE /\ m.part # NoPart /\ StandsFor(request[x].scan, m.part)
    BY <1>1 DEF Inv, GraphInv, GraphShape, At, RunInv, ReplayIsOriginal, CompletedIsLeft,
                MoveIsPlanned, MovementIsIdentified
  <1>3. CatalogInv'
    BY <1>1, CatalogStays DEF Inv
  <1>5. ASSUME NEW uncertain \in BOOLEAN, ReleasePutaway(x, uncertain)
        PROVE  Inv'
    <2>1. /\ DOMAIN movement' = Runs /\ \A y \in Runs \ {x} : movement'[y] = movement[y]
          /\ movement'[x] = [m EXCEPT !.status = "FAILED", !.keyed = uncertain]
      BY <1>2, <1>5 DEF ReleasePutaway, MovementFields
    <2>2. ActsOn(x, run'[x], movement'[x])
      BY <1>2, <1>5, <2>1, FailingRun DEF Inv, ActsOn, MovementFields, ReleasePutaway
    <2>3. ASSUME NEW b \in Bins, binStatus'[b] = "RESERVED"
          PROVE  Owns(x, b)' \/ (binStatus[b] = "RESERVED" /\ ~Owns(x, b))
      BY <1>2, <1>5, <2>1, <2>3 DEF Owns, ReleasePutaway, MovementFields
    <2>4. ReservationHasAnOwner'
      BY <2>1, <2>3, OwnersStay DEF Inv
    <2>5. DOMAIN binStatus' = Bins
      BY <1>2, <1>5 DEF ReleasePutaway
    <2> QED
      BY <1>1, <1>3, <2>2, <2>4, <2>5, ActingStep DEF Inv, catalogVars
  <1>6. ASSUME NEW n, CommitPutaway(x, n)
        PROVE  Inv'
    <2>1. /\ DOMAIN movement' = Runs /\ \A y \in Runs \ {x} : movement'[y] = movement[y]
          /\ movement'[x] = [m EXCEPT !.status = "COMPLETED", !.count = n]
      BY <1>2, <1>6 DEF CommitPutaway, MovementFields
    <2>2. /\ run' = [run EXCEPT ![x] = run'[x]] /\ DOMAIN run'[x] = RunFields
          /\ run'[x].at \in {"verify", "over"} /\ run'[x].result = "ok"
      <3>1. \/ run' = [run EXCEPT ![x] =
                         [[r EXCEPT !.at = "verify"] EXCEPT !.result = "ok", !.count = n]]
            \/ run' = [run EXCEPT ![x] =
                         [[r EXCEPT !.result = "ok", !.count = n]
                            EXCEPT !.at = "over", !.status = "ERROR"]]
        BY <1>6 DEF CommitPutaway, Becomes, NextNode, Ends
      <3> QED
        BY <1>2, <3>1 DEF RunFields
    <2>3. ActsOn(x, run'[x], movement'[x])
      BY <1>2, <2>1, <2>2 DEF ActsOn, MovementFields
    <2>4. DOMAIN binStatus' = Bins /\ \A b \in Bins : binStatus'[b] =
            IF b = r.bin THEN IF n > 0 THEN "OCCUPIED" ELSE "AVAILABLE"
            ELSE IF b = r.home THEN "AVAILABLE" ELSE binStatus[b]
      BY <1>6 DEF CommitPutaway
    <2>5. ASSUME NEW b \in Bins, binStatus'[b] = "RESERVED"
          PROVE  binStatus[b] = "RESERVED" /\ ~Owns(x, b)
      BY <1>2, <2>4, <2>5 DEF Owns
    <2>6. ReservationHasAnOwner'
      BY <2>1, <2>5, OwnersStay DEF Inv
    <2> QED
      BY <1>1, <1>3, <2>3, <2>4, <2>6, ActingStep DEF Inv, catalogVars
  <1>7. CASE PutawayNotSaved(x)
    <2>1. /\ DOMAIN movement' = Runs /\ \A y \in Runs \ {x} : movement'[y] = movement[y]
          /\ movement'[x] = [m EXCEPT !.status = "RUNNING"]
      BY <1>2, <1>7 DEF PutawayNotSaved, MovementFields
    <2>2. ActsOn(x, run'[x], movement'[x])
      BY <1>2, <1>7, <2>1, FailingRun DEF Inv, ActsOn, MovementFields, PutawayNotSaved
    <2>3. ASSUME NEW b \in Bins, binStatus'[b] = "RESERVED"
          PROVE  Owns(x, b)' \/ (binStatus[b] = "RESERVED" /\ ~Owns(x, b))
      BY <1>2, <1>7, <2>1, <2>3 DEF Owns, PutawayNotSaved, shelfVars, MovementFields
    <2>4. ReservationHasAnOwner'
      BY <2>1, <2>3, OwnersStay DEF Inv
    <2>5. DOMAIN binStatus' = Bins
      BY <1>2, <1>7 DEF PutawayNotSaved, shelfVars
    <2> QED
      BY <1>1, <1>3, <2>2, <2>4, <2>5, ActingStep DEF Inv, catalogVars
  <1> QED
    BY <1>5, <1>6, <1>7 DEF MovePutaway

---------------------------------------------------------------------------
(* The rest of the warehouse leaves the runs alone, and reserves nothing.  *)
LEMMA OutsideInv ==
  ASSUME Inv, Outside
  PROVE  Inv'
  <1>1. UNCHANGED graphVars /\ UNCHANGED catalogVars
    BY DEF Outside
  <1>2. CatalogInv' /\ catalog \subseteq catalog' /\ confirmed \subseteq confirmed'
    BY <1>1, CatalogStays DEF Inv
  <1>3. PICK b \in Bins : Elsewhere(b) \/ \E p \in Parts : CorrectByHand(b, p)
    BY DEF Outside
  <1>4. /\ DOMAIN binStatus' = Bins
        /\ \A c \in Bins : binStatus'[c] = "RESERVED" => binStatus[c] = "RESERVED"
    <2>1. DOMAIN binStatus = Bins
      BY DEF Inv, GraphInv, GraphShape
    <2>2. CASE Elsewhere(b)
      BY <2>1, <2>2 DEF Elsewhere
    <2>3. ASSUME NEW p \in Parts, AddInventory(b, p, 1)
          PROVE  /\ DOMAIN binStatus' = Bins
                 /\ \A c \in Bins : binStatus'[c] = "RESERVED" => binStatus[c] = "RESERVED"
      BY <2>1, <2>3 DEF AddInventory
    <2>4. ASSUME NEW p \in Parts, RemoveInventory(b, p, 1)
          PROVE  /\ DOMAIN binStatus' = Bins
                 /\ \A c \in Bins : binStatus'[c] = "RESERVED" => binStatus[c] = "RESERVED"
      BY <2>1, <2>4 DEF RemoveInventory
    <2> QED
      BY <1>3, <2>2, <2>3, <2>4 DEF CorrectByHand
  <1>5. GraphShape'
    BY <1>1, <1>4 DEF Inv, GraphInv, GraphShape, graphVars
  <1>6. ASSUME NEW x \in Runs
        PROVE  RunInv(x)'
    <2>1. /\ RunInv(x) /\ request' = request /\ run' = run /\ movement' = movement
      BY <1>1 DEF Inv, GraphInv, graphVars
    <2>2. \A s, p : StandsFor(s, p) => StandsFor(s, p)'
      BY <1>2, StandsForStays
    <2> QED
      BY <2>1, <2>2 DEF RunInv, NotYetClaimed, PlanIsIdentified, MoveIsPlanned,
           MovementIsIdentified, RetrievalHasNoHome, CheckIsAwaited, CompletedIsLeft,
           ReplayIsOriginal
  <1>7. ReservationHasAnOwner'
    BY <1>1, <1>4 DEF Inv, GraphInv, ReservationHasAnOwner, graphVars
  <1> QED
    BY <1>2, <1>5, <1>6, <1>7 DEF Inv, GraphInv

(* What a run knows, it knows after operators identified more.             *)
LEMMA RunsStay ==
  ASSUME GraphInv, UNCHANGED <<graphVars, shelfVars>>,
         catalog \subseteq catalog', confirmed \subseteq confirmed'
  PROVE  GraphInv'
  <1>1. ASSUME NEW x \in Runs
        PROVE  RunInv(x)'
    <2>1. /\ RunInv(x) /\ request' = request /\ run' = run /\ movement' = movement
      BY DEF GraphInv, graphVars
    <2>2. \A s, p : StandsFor(s, p) => StandsFor(s, p)'
      BY StandsForStays
    <2> QED
      BY <2>1, <2>2 DEF RunInv, NotYetClaimed, PlanIsIdentified, MoveIsPlanned,
           MovementIsIdentified, RetrievalHasNoHome, CheckIsAwaited, CompletedIsLeft,
           ReplayIsOriginal
  <1> QED
    BY <1>1 DEF GraphInv, GraphShape, ReservationHasAnOwner, graphVars, shelfVars

LEMMA StepInv ==
  ASSUME Inv, [Next]_vars
  PROVE  Inv'
  <1>1. ASSUME NEW x \in Runs, RetrievalStep(x)
        PROVE  Inv'
    <2>1. CASE ClaimRetrieval(x)
      BY <2>1, ClaimRetrievalInv
    <2>2. CASE MoveRetrieval(x)
      BY <2>2, MoveRetrievalInv
    <2>3. CASE CheckRetrieval(x)
      BY <2>3, CheckRetrievalInv
    <2>4. CASE \/ ValidateRetrieval(x) \/ ResolvePart(x) \/ SelectSource(x)
               \/ RetrievalPreflight(x) \/ VerifyRetrieval(x) \/ RetrievalTimeout(x)
      <3>1. READS
        BY <2>4 DEF ValidateRetrieval, ResolvePart, SelectSource, RetrievalPreflight,
                    VerifyRetrieval, RetrievalTimeout
      <3>2. CatalogInv' /\ catalog \subseteq catalog' /\ confirmed \subseteq confirmed'
        BY <3>1, CatalogStays DEF Inv, READS
      <3>3. ReadsOn(x, run'[x])
        BY <2>4, RetrievalReads DEF Inv
      <3> QED
        BY <3>1, <3>2, <3>3, ReadingStep DEF Inv, READS
    <2> QED
      BY <1>1, <2>1, <2>2, <2>3, <2>4 DEF RetrievalStep
  <1>2. ASSUME NEW x \in Runs, PutawayStep(x)
        PROVE  Inv'
    <2>1. CASE PlanPutaway(x)
      BY <2>1, PlanPutawayInv
    <2>2. CASE ClaimPutaway(x)
      BY <2>2, ClaimPutawayInv
    <2>3. CASE MovePutaway(x)
      BY <2>3, MovePutawayInv
    <2>4. CASE ResolvePutawayIdentity(x)
      <3>1. /\ UNCHANGED <<request, movement, shelfVars, catalog, old, clerk, confirmed>>
            /\ IF run[x].duplicate
               THEN UNCHANGED resolution
               ELSE ReadsResolution(request[x].scan, request[x].given)
        BY <2>4 DEF ResolvePutawayIdentity
      <3>2. CatalogInv'
        <4>1. CASE UNCHANGED resolution
          BY <3>1, <4>1, CatalogStays DEF Inv, catalogVars
        <4>2. CASE ReadsResolution(request[x].scan, request[x].given)
          <5>1. request[x].given \in Resolutions \cup {NoRow}
            BY DEF Inv, GraphInv, GraphShape, Request
          <5> QED
            BY <3>1, <4>2, <5>1, ReadingRow DEF Inv
        <4> QED
          BY <3>1, <4>1, <4>2
      <3>3. ReadsOn(x, run'[x])
        BY <2>4, PutawayReads DEF Inv
      <3> QED
        BY <3>1, <3>2, <3>3, ReadingStep DEF Inv
    <2>5. CASE \/ ValidatePutaway(x) \/ ResolveDestination(x) \/ PutawayPreflight(x)
               \/ VerifyPutaway(x)
      <3>1. READS
        BY <2>5 DEF ValidatePutaway, ResolveDestination, PutawayPreflight, VerifyPutaway
      <3>2. CatalogInv' /\ catalog \subseteq catalog' /\ confirmed \subseteq confirmed'
        BY <3>1, CatalogStays DEF Inv, READS
      <3>3. ReadsOn(x, run'[x])
        BY <2>5, PutawayReads DEF Inv
      <3> QED
        BY <3>1, <3>2, <3>3, ReadingStep DEF Inv, READS
    <2> QED
      BY <1>2, <2>1, <2>2, <2>3, <2>4, <2>5 DEF PutawayStep
  <1>3. CASE IdentifyStep
    BY <1>3, CatalogStepInv, RunsStay DEF Inv, IdentifyStep
  <1>4. CASE Outside
    BY <1>4, OutsideInv
  <1>5. CASE UNCHANGED vars
    BY <1>5, CatalogStays, RunsStay DEF Inv, vars
  <1> QED
    BY <1>1, <1>2, <1>3, <1>4, <1>5 DEF Next, GraphStep

LEMMA InitInv ==
  ASSUME Init
  PROVE  Inv
  <1>1. PICK c \in Scenarios :
          /\ request = c.request /\ binStatus = c.binStatus /\ stock = c.stock
          /\ CatalogInit(c.clerks)
    BY DEF Init, GraphInit
  <1>2. CatalogInv
    BY <1>1 DEF CatalogInit, CatalogInv, CatalogShape, CatalogGrows, RowIsFrozen, RowIsConfirmed,
                RowIsOpen, IdleClerk, AbsentClerk, RowFields, ClerkFields
  <1>3. /\ request \in [Runs -> Request] /\ binStatus \in [Bins -> BinStatus \ {"RESERVED"}]
        /\ run = [x \in Runs |-> NewRun] /\ movement = [x \in Runs |-> NoMovement]
    BY <1>1, GraphAssumption DEF Init, GraphInit
  <1>4. GraphShape
    <2>1. DOMAIN NewRun = RunFields /\ DOMAIN NoMovement = MovementFields
      BY DEF NewRun, NoMovement, RunFields, MovementFields
    <2> QED
      BY <1>3, <2>1 DEF GraphShape
  <1>5. ReservationHasAnOwner
    BY <1>3 DEF ReservationHasAnOwner
  <1>6. ASSUME NEW x \in Runs
        PROVE  RunInv(x)
    BY <1>3 DEF RunInv, NotYetClaimed, PlanIsIdentified, MoveIsPlanned, MovementIsIdentified,
                RetrievalHasNoHome, CheckIsAwaited, CompletedIsLeft, ReplayIsOriginal, NewRun,
                NoMovement, NONE
  <1> QED
    BY <1>2, <1>4, <1>5, <1>6 DEF Inv, GraphInv

(* The catalog and the runs keep what they promise each other.             *)
THEOREM RunsKeepTheirWord == Spec => []Inv
  <1> QED
    BY InitInv, StepInv, PTL DEF Spec

(* No part is stored under a name nobody stands for (putaway-nodes.ts,     *)
(* putaway-service.ts), whatever matcher, catalog and operators do.        *)
THEOREM StoredIdentityIsConfirmed == Spec => []IdentityIsConfirmed
  <1>1. Inv => IdentityIsConfirmed
    BY DEF Inv, GraphInv, RunInv, MovementIsIdentified, IdentityIsConfirmed, Stored, NONE
  <1> QED
    BY <1>1, RunsKeepTheirWord, PTL

(* A repeated request is told what the first one did.                      *)
THEOREM RepeatedRequestHearsOriginal == Spec => []ReplayAnswersOriginal
  <1>1. Inv => ReplayAnswersOriginal
    <2>1. SUFFICES ASSUME Inv, NEW x \in Runs, run[x].result = "replayed"
                   PROVE  LET m == movement[run[x].movement]
                          IN /\ run[x].movement # x /\ movement[x] = NoMovement
                             /\ m.status = "COMPLETED"
                             /\ <<run[x].part, run[x].bin, run[x].count>> = <<m.part, m.bin, m.count>>
      BY DEF ReplayAnswersOriginal
    <2>2. ReplayIsOriginal(x)
      BY <2>1 DEF Inv, GraphInv, RunInv
    <2>3. NoMovement.status # "COMPLETED"
      BY DEF NoMovement, NONE
    <2> QED
      BY <2>1, <2>2, <2>3 DEF ReplayIsOriginal
  <1> QED
    BY <1>1, RunsKeepTheirWord, PTL

(* No bin stays reserved for nothing.                                      *)
THEOREM NothingStaysReserved == Spec => []ReservationHasAnOwner
  <1>1. Inv => ReservationHasAnOwner
    BY DEF Inv, GraphInv
  <1> QED
    BY <1>1, RunsKeepTheirWord, PTL

---------------------------------------------------------------------------
(* What a checkout answers is about the movement it made.                  *)
AnswerIsOfItsMovement ==
    \A x \in Runs :
      (request[x].kind = "RETRIEVAL" /\ run[x].result = "ok") =>
        /\ run[x].at \in {"verify", "over"}
        /\ run[x].part = movement[x].part /\ run[x].bin = movement[x].bin

(* A run's step is its own.                                                *)
LEMMA RunsApart ==
  ASSUME GraphShape, NEW x \in Runs, RetrievalStep(x) \/ PutawayStep(x), NEW y \in Runs, y # x
  PROVE  run'[y] = run[y] /\ movement'[y] = movement[y]
  <1> USE DEF GraphShape, Becomes, Ends, Blocks, Fails, READS
  <1>1. CASE \/ ValidateRetrieval(x) \/ ResolvePart(x) \/ SelectSource(x) \/ RetrievalPreflight(x)
             \/ VerifyRetrieval(x) \/ RetrievalTimeout(x)
    BY <1>1 DEF ValidateRetrieval, ResolvePart, SelectSource, RetrievalPreflight, VerifyRetrieval,
                RetrievalTimeout
  <1>2. CASE ClaimRetrieval(x)
    BY <1>2 DEF ClaimRetrieval, ReplayOrReject
  <1>3. CASE MoveRetrieval(x)
    BY <1>3 DEF MoveRetrieval, RetrievalMoved, ReleaseRetrieval
  <1>4. CASE CheckRetrieval(x)
    BY <1>4 DEF CheckRetrieval
  <1>5. CASE \/ ValidatePutaway(x) \/ ResolvePutawayIdentity(x) \/ ResolveDestination(x)
             \/ PutawayPreflight(x) \/ VerifyPutaway(x)
    BY <1>5 DEF ValidatePutaway, ResolvePutawayIdentity, ResolveDestination, PutawayPreflight,
                VerifyPutaway
  <1>6. CASE PlanPutaway(x)
    BY <1>6 DEF PlanPutaway, ReplayOrReject
  <1>7. CASE ClaimPutaway(x)
    BY <1>7 DEF ClaimPutaway
  <1>8. CASE MovePutaway(x)
    BY <1>8 DEF MovePutaway, ReleasePutaway, CommitPutaway, PutawayNotSaved
  <1> QED
    BY <1>1, <1>2, <1>3, <1>4, <1>5, <1>6, <1>7, <1>8 DEF RetrievalStep, PutawayStep

(* What a step of a checkout does to its answer: it goes on without one,   *)
(* gives up or repeats another's, gives its own, or looks whether that one *)
(* is still true before it reports it.                                     *)
Undecided(x) ==
    /\ run[x].at \notin {"verify", "over"} /\ run'[x].result = run[x].result
    /\ run'[x].at = "over" => run'[x].status # "COMPLETED"

NotItsOwn(x) ==
    /\ run'[x].result \in {"failed", "replayed"}
    /\ run'[x].at = "over" => run'[x].status # "COMPLETED"

ItsOwn(x) ==
    /\ run'[x].at = "verify"
    /\ run'[x].part = movement'[x].part /\ run'[x].bin = movement'[x].bin

LookedAt(x) ==
    /\ run'[x].at = "over" /\ UNCHANGED movement
    /\ run'[x].part = run[x].part /\ run'[x].bin = run[x].bin
    /\ run'[x].result \in {run[x].result, "failed"}
    /\ run'[x].status = "COMPLETED" => RetrievalCoherent(x)

LEMMA GivingUp ==
  ASSUME GraphShape, NEW x \in Runs, NEW named, Fails(x, named)
  PROVE  NotItsOwn(x)
  <1>1. PICK answer \in {"FAILED", "ERROR"} :
          run' = [run EXCEPT ![x] = [[run[x] EXCEPT !.result = "failed", !.movement = named]
                                       EXCEPT !.at = "over", !.status = answer]]
    BY DEF Fails, Ends, Becomes
  <1> QED
    BY <1>1 DEF GraphShape, RunFields, NotItsOwn

LEMMA Repeating ==
  ASSUME GraphShape, NEW x \in Runs, ReplayOrReject(x)
  PROVE  NotItsOwn(x)
  <1>1. PICK y : \/ Fails(x, y)
                 \/ run' = [run EXCEPT ![x] =
                      [run[x] EXCEPT !.at = "verify", !.result = "replayed",
                         !.movement = y, !.part = movement[y].part,
                         !.bin = movement[y].bin, !.count = movement[y].count]]
    BY DEF ReplayOrReject, Becomes
  <1>2. CASE Fails(x, y)
    BY <1>2, GivingUp
  <1> QED
    BY <1>1, <1>2 DEF GraphShape, RunFields, NotItsOwn

LEMMA CheckoutStep ==
  ASSUME GraphShape, NEW x \in Runs, RetrievalStep(x)
  PROVE  Undecided(x) \/ NotItsOwn(x) \/ ItsOwn(x) \/ LookedAt(x)
  <1>1. /\ DOMAIN run = Runs /\ DOMAIN run[x] = RunFields
        /\ DOMAIN movement = Runs /\ DOMAIN movement[x] = MovementFields
    BY DEF GraphShape
  <1>2. CASE ValidateRetrieval(x) \/ ResolvePart(x) \/ SelectSource(x) \/ RetrievalPreflight(x)
    <2>1. run[x].at \in {"validate", "identity", "source", "preflight"}
      BY <1>2 DEF ValidateRetrieval, ResolvePart, SelectSource, RetrievalPreflight, At
    <2>2. ASSUME \/ Blocks(x)
                 \/ \E n \in {"identity", "source", "preflight", "execute"} :
                      \/ \E d : Becomes(x, [NextNode(x, n) EXCEPT !.duplicate = d])
                      \/ \E p : Becomes(x, [NextNode(x, n) EXCEPT !.part = p])
                      \/ \E b, c : Becomes(x, [NextNode(x, n) EXCEPT !.bin = b, !.count = c])
                      \/ Becomes(x, NextNode(x, n))
          PROVE  Undecided(x)
      <3>1. CASE Blocks(x)
        <4>1. run' = [run EXCEPT ![x] = [run[x] EXCEPT !.at = "over", !.status = "BLOCKED"]]
          BY <3>1 DEF Blocks, Ends, Becomes
        <4> QED
          BY <1>1, <2>1, <4>1 DEF Undecided, RunFields
      <3>2. CASE \E n \in {"identity", "source", "preflight", "execute"} :
                 \/ \E d : Becomes(x, [NextNode(x, n) EXCEPT !.duplicate = d])
                 \/ \E p : Becomes(x, [NextNode(x, n) EXCEPT !.part = p])
                 \/ \E b, c : Becomes(x, [NextNode(x, n) EXCEPT !.bin = b, !.count = c])
                 \/ Becomes(x, NextNode(x, n))
        <4>1. run'[x].result = run[x].result /\ run'[x].at # "over"
          BY <1>1, <3>2, ZenonT(40) DEF RunFields, Becomes, NextNode
        <4> QED
          BY <2>1, <4>1 DEF Undecided
      <3> QED
        BY <2>2, <3>1, <3>2
    <2>3. CASE ValidateRetrieval(x)
      BY <2>2, <2>3 DEF ValidateRetrieval
    <2>4. CASE ResolvePart(x)
      BY <2>2, <2>4 DEF ResolvePart
    <2>5. CASE SelectSource(x)
      BY <2>2, <2>5 DEF SelectSource
    <2>6. CASE RetrievalPreflight(x)
      BY <2>2, <2>6 DEF RetrievalPreflight
    <2> QED
      BY <1>2, <2>3, <2>4, <2>5, <2>6
  <1>3. CASE ClaimRetrieval(x)
    <2>1. run[x].at = "execute"
      BY <1>3 DEF ClaimRetrieval, At
    <2>2. CASE Becomes(x, [NextNode(x, "move") EXCEPT !.movement = x])
      <3>1. run' = [run EXCEPT ![x] = [[run[x] EXCEPT !.at = "move"] EXCEPT !.movement = x]]
        BY <2>2 DEF Becomes, NextNode
      <3> QED
        BY <1>1, <2>1, <3>1 DEF Undecided, RunFields
    <2> QED
      BY <1>3, <2>2, Repeating, GivingUp DEF ClaimRetrieval
  <1>4. CASE MoveRetrieval(x)
    <2>1. run[x].at = "move"
      BY <1>4 DEF MoveRetrieval, At
    <2>2. CASE Becomes(x, NextNode(x, "check"))
      <3>1. run' = [run EXCEPT ![x] = [run[x] EXCEPT !.at = "check"]]
        BY <2>2 DEF Becomes, NextNode
      <3> QED
        BY <1>1, <2>1, <3>1 DEF Undecided, RunFields
    <2>3. ASSUME NEW s, movement' = [movement EXCEPT ![x].status = s],
                 Becomes(x, [NextNode(x, "verify") EXCEPT !.result = "ok",
                   !.part = movement[x].part, !.bin = movement[x].bin, !.count = movement[x].before])
          PROVE  ItsOwn(x)
      <3>1. run' = [run EXCEPT ![x] = [[run[x] EXCEPT !.at = "verify"] EXCEPT !.result = "ok",
              !.part = movement[x].part, !.bin = movement[x].bin, !.count = movement[x].before]]
        BY <2>3 DEF Becomes, NextNode
      <3>2. movement'[x].part = movement[x].part /\ movement'[x].bin = movement[x].bin
        BY <1>1, <2>3 DEF MovementFields
      <3> QED
        BY <1>1, <3>1, <3>2 DEF ItsOwn, RunFields
    <2> QED
      BY <1>4, <2>2, <2>3, GivingUp DEF MoveRetrieval, RetrievalMoved, ReleaseRetrieval
  <1>5. CASE CheckRetrieval(x)
    <2>1. ASSUME NEW n,
                 movement' = [movement EXCEPT ![x].status = "COMPLETED", ![x].count = n],
                 Becomes(x, [NextNode(x, "verify") EXCEPT !.result = "ok",
                   !.part = movement[x].part, !.bin = movement[x].bin, !.count = n])
          PROVE  ItsOwn(x)
      <3>1. run' = [run EXCEPT ![x] = [[run[x] EXCEPT !.at = "verify"] EXCEPT !.result = "ok",
              !.part = movement[x].part, !.bin = movement[x].bin, !.count = n]]
        BY <2>1 DEF Becomes, NextNode
      <3>2. movement'[x].part = movement[x].part /\ movement'[x].bin = movement[x].bin
        BY <1>1, <2>1 DEF MovementFields
      <3> QED
        BY <1>1, <3>1, <3>2 DEF ItsOwn, RunFields
    <2> QED
      BY <1>5, <2>1, GivingUp DEF CheckRetrieval
  <1>6. CASE VerifyRetrieval(x) \/ RetrievalTimeout(x)
    <2>1. ASSUME NEW answer, answer = "COMPLETED" => RetrievalCoherent(x),
                 \/ Ends(x, run[x], answer)
                 \/ Ends(x, [run[x] EXCEPT !.result = "failed"], answer)
          PROVE  run'[x].at = "over" /\ run'[x].part = run[x].part /\ run'[x].bin = run[x].bin
                 /\ run'[x].result \in {run[x].result, "failed"} /\ run'[x].status = answer
      <3>1. \/ run' = [run EXCEPT ![x] = [run[x] EXCEPT !.at = "over", !.status = answer]]
            \/ run' = [run EXCEPT ![x] = [[run[x] EXCEPT !.result = "failed"]
                                            EXCEPT !.at = "over", !.status = answer]]
        BY <2>1 DEF Ends, Becomes
      <3> QED
        BY <1>1, <3>1 DEF RunFields
    <2> QED
      BY <1>6, <2>1 DEF LookedAt, VerifyRetrieval, RetrievalTimeout, READS
  <1> QED
    BY <1>2, <1>3, <1>4, <1>5, <1>6 DEF RetrievalStep

LEMMA AnswersStay ==
  ASSUME Inv, AnswerIsOfItsMovement, [Next]_vars
  PROVE  AnswerIsOfItsMovement'
  <1>1. request' = request
    BY DEF Next, vars, graphVars, GraphStep, IdentifyStep, Outside, RetrievalStep, PutawayStep,
           ValidateRetrieval, ResolvePart, SelectSource, RetrievalPreflight, ClaimRetrieval,
           MoveRetrieval, CheckRetrieval, VerifyRetrieval, RetrievalTimeout,
           ValidatePutaway, ResolvePutawayIdentity, ResolveDestination, PutawayPreflight,
           PlanPutaway, ClaimPutaway, MovePutaway, VerifyPutaway, READS
  <1>2. ASSUME NEW x \in Runs, RetrievalStep(x) \/ PutawayStep(x)
        PROVE  AnswerIsOfItsMovement'
    <2>1. CASE RetrievalStep(x)
      <3>1. \A y \in Runs \ {x} : run'[y] = run[y] /\ movement'[y] = movement[y]
        BY <2>1, RunsApart DEF Inv, GraphInv
      <3>2. Undecided(x) \/ NotItsOwn(x) \/ ItsOwn(x) \/ LookedAt(x)
        BY <2>1, CheckoutStep DEF Inv, GraphInv
      <3> QED
        BY <1>1, <3>1, <3>2 DEF AnswerIsOfItsMovement, Undecided, NotItsOwn, ItsOwn, LookedAt
    <2>2. CASE PutawayStep(x)
      <3>1. request[x].kind = "PUTAWAY"
        BY <2>2 DEF PutawayStep, ValidatePutaway, ResolvePutawayIdentity, ResolveDestination,
             PutawayPreflight, PlanPutaway, ClaimPutaway, MovePutaway, VerifyPutaway, At
      <3> QED
        BY <1>1, <2>2, <3>1, RunsApart DEF AnswerIsOfItsMovement, Inv, GraphInv
    <2> QED
      BY <1>2, <2>1, <2>2
  <1>3. CASE UNCHANGED <<run, movement>>
    BY <1>1, <1>3 DEF AnswerIsOfItsMovement
  <1> QED
    BY <1>2, <1>3 DEF Next, vars, graphVars, GraphStep, IdentifyStep, Outside

(* A checkout reported as done is at the counter, with the count it is     *)
(* reported with (verifyCommittedRetrieval, and the timeout of the graph). *)
THEOREM DoneIsAtTheCounter == Spec => CheckoutIsReportedAtTheCounter
  <1> DEFINE Reported(x) ==
        (/\ request[x].kind = "RETRIEVAL" /\ run[x].result = "ok"
         /\ ~Over(x) /\ Over(x)' /\ run[x].status' = "COMPLETED") =>
            /\ binStatus[movement[x].bin] = "CHECKED_OUT"
            /\ Count(movement[x].bin, movement[x].part) = run[x].count
  <1>1. Init => AnswerIsOfItsMovement
    BY DEF Init, GraphInit, NewRun, NONE, AnswerIsOfItsMovement
  <1>2. Inv /\ AnswerIsOfItsMovement /\ [Next]_vars => [\A x \in Runs : Reported(x)]_vars
    <2> SUFFICES ASSUME Inv, AnswerIsOfItsMovement, Next, NEW x \in Runs,
                        request[x].kind = "RETRIEVAL", run[x].result = "ok",
                        run[x].at # "over", run'[x].at = "over", run'[x].status = "COMPLETED"
                 PROVE  /\ binStatus[movement[x].bin] = "CHECKED_OUT"
                        /\ Count(movement[x].bin, movement[x].part) = run[x].count
      BY DEF Over
    <2>1. run' # run
      OBVIOUS
    <2>2. PICK y \in Runs : RetrievalStep(y) \/ PutawayStep(y)
      BY <2>1 DEF Next, GraphStep, IdentifyStep, Outside, graphVars
    <2>3. y = x
      BY <2>2, RunsApart DEF Inv, GraphInv
    <2>4. ~PutawayStep(x)
      BY DEF PutawayStep, ValidatePutaway, ResolvePutawayIdentity, ResolveDestination,
             PutawayPreflight, PlanPutaway, ClaimPutaway, MovePutaway, VerifyPutaway, At
    <2>5. RetrievalCoherent(x)
      BY <2>2, <2>3, <2>4, CheckoutStep DEF Inv, GraphInv, Undecided, NotItsOwn, ItsOwn, LookedAt
    <2>6. run[x].part = movement[x].part /\ run[x].bin = movement[x].bin
      BY DEF AnswerIsOfItsMovement
    <2> QED
      BY <2>5, <2>6 DEF RetrievalCoherent
  <1>3. Inv /\ AnswerIsOfItsMovement /\ [Next]_vars => AnswerIsOfItsMovement'
    BY AnswersStay
  <1>4. Spec => []AnswerIsOfItsMovement
    BY <1>1, <1>3, RunsKeepTheirWord, PTL DEF Spec
  <1> QED
    BY <1>2, <1>4, RunsKeepTheirWord, PTL DEF Spec, CheckoutIsReportedAtTheCounter, Reported

=============================================================================
