------------------------- MODULE CatalogResolution -------------------------
(***************************************************************************)
(* Who decides what a scan shows when the matcher cannot: the rows of      *)
(* CatalogResolution, which an operator confirms or rejects                *)
(* (catalog-resolution-service.ts), and the parts an operator registers    *)
(* (catalog-registration-service.ts).  Requests are concurrent: each reads *)
(* a row and writes it later, by its id alone.                             *)
(***************************************************************************)
EXTENDS Naturals, FiniteSets

CONSTANTS
    Scans,         \* scanned objects
    Parts,         \* rows of the Part table
    Registered,    \* the parts that come from registering a scan
    Resolutions,   \* rows of the CatalogResolution table
    Clerks,        \* HTTP requests of operators
    Verdict(_, _), \* matchScanToCatalog: scan and catalog to a verdict
    NoPart, NoScan, NoRow

ASSUME CatalogAssumption ==
    /\ Registered \in [Scans -> SUBSET Parts]
    /\ NoPart \notin Parts /\ NoScan \notin Scans /\ NoRow \notin Resolutions
    /\ \A s \in Scans, C \in SUBSET Parts :
         LET v == Verdict(s, C)
         IN /\ v.status \in {"MATCHED", "AMBIGUOUS", "NO_MATCH"}
            /\ v.part \in C \cup {NoPart} /\ v.candidates \subseteq C
            /\ v.status = "MATCHED" <=> v.part # NoPart

VARIABLES
    catalog,    \* the parts there are
    resolution, \* the rows
    old,        \* rows older than RESOLUTION_TTL_MS
    clerk,      \* the requests
    confirmed   \* every <<scan, part>> a row was ever confirmed for (history)

catalogVars == <<catalog, resolution, old, clerk, confirmed>>

ResolutionStatus == {"NONE", "PENDING", "CONFIRMED", "REJECTED", "EXPIRED"}

ResolutionRow ==
    [status: ResolutionStatus, scan: Scans \cup {NoScan}, candidates: SUBSET Parts,
     selected: Parts \cup {NoPart}]

(* row, next, part: the write a decision is about to make; scan: what a    *)
(* registration is about to add.                                           *)
Clerk ==
    [pc: {"idle", "write", "register", "done"}, row: Resolutions \cup {NoRow},
     next: ResolutionStatus, part: Parts \cup {NoPart}, scan: Scans \cup {NoScan}]

IdleClerk ==
    [pc |-> "idle", row |-> NoRow, next |-> "NONE", part |-> NoPart, scan |-> NoScan]

CatalogTypeOK ==
    /\ catalog \subseteq Parts
    /\ resolution \in [Resolutions -> ResolutionRow]
    /\ old \subseteq Resolutions
    /\ clerk \in [Clerks -> Clerk]
    /\ confirmed \subseteq Scans \X Parts

AbsentClerk == [IdleClerk EXCEPT !.pc = "done"]

(* Some of the clerks there could be come.                                 *)
CatalogInit(present) ==
    /\ catalog = Parts \ UNION {Registered[s] : s \in Scans}
    /\ resolution = [r \in Resolutions |->
                       [status |-> "NONE", scan |-> NoScan, candidates |-> {},
                        selected |-> NoPart]]
    /\ old = {}
    /\ clerk = [k \in Clerks |-> IF k \in present THEN IdleClerk ELSE AbsentClerk]
    /\ confirmed = {}

---------------------------------------------------------------------------
(* requestCatalogResolution: the candidates are frozen in the row.         *)
AskOperator(k, s) ==
    LET v == Verdict(s, catalog)
    IN /\ clerk[k].pc = "idle"
       /\ v.status = "AMBIGUOUS"
       /\ \E r \in Resolutions :
            /\ resolution[r].status = "NONE"
            /\ resolution' = [resolution EXCEPT ![r] =
                 [status |-> "PENDING", scan |-> s, candidates |-> v.candidates,
                  selected |-> NoPart]]
       /\ clerk' = [clerk EXCEPT ![k].pc = "done"]
       /\ UNCHANGED <<catalog, old, confirmed>>

(* getCatalogResolution finds a pending row that has outlived its time.    *)
Outlived(r) == resolution[r].status = "PENDING" /\ r \in old

(* Only what was offered.                                                  *)
MayConfirm(r, p) == p \in resolution[r].candidates

(* confirmCatalogResolution and rejectCatalogResolution, up to the write;  *)
(* an outlived row is written EXPIRED instead.                             *)
Decide(k, r, next, p) ==
    /\ clerk[k].pc = "idle"
    /\ resolution[r].status = "PENDING"
    /\ clerk' = [clerk EXCEPT ![k] =
         [@ EXCEPT !.pc = "write", !.row = r,
                   !.next = IF Outlived(r) THEN "EXPIRED" ELSE next,
                   !.part = IF Outlived(r) THEN NoPart ELSE p]]
    /\ UNCHANGED <<catalog, resolution, old, confirmed>>

Confirm(k, r) == \E p \in Parts : MayConfirm(r, p) /\ Decide(k, r, "CONFIRMED", p)

RejectAll(k, r) == Decide(k, r, "REJECTED", NoPart)

(* The write does not look at the status again: the later of two decisions *)
(* replaces the earlier.                                                   *)
WriteDecision(k) ==
    LET c == clerk[k]
    IN /\ c.pc = "write"
       /\ resolution' = [resolution EXCEPT
            ![c.row].status = c.next,
            ![c.row].selected = IF c.next = "CONFIRMED" THEN c.part ELSE @]
       /\ confirmed' = IF c.next = "CONFIRMED"
                       THEN confirmed \cup {<<resolution[c.row].scan, c.part>>}
                       ELSE confirmed
       /\ clerk' = [clerk EXCEPT ![k].pc = "done"]
       /\ UNCHANGED <<catalog, old>>

Age(r) ==
    /\ resolution[r].status = "PENDING" /\ r \notin old
    /\ old' = old \cup {r}
    /\ UNCHANGED <<catalog, resolution, clerk, confirmed>>

---------------------------------------------------------------------------
(* hasRejectedEveryCandidate                                               *)
Rejected(s) == \E r \in Resolutions : resolution[r].scan = s /\ resolution[r].status = "REJECTED"

(* registerScanAsPart, up to the classification by the language model.     *)
BeginRegistration(k, s) ==
    /\ clerk[k].pc = "idle"
    /\ \/ Verdict(s, catalog).status = "NO_MATCH"
       \/ Verdict(s, catalog).status = "AMBIGUOUS" /\ Rejected(s)
    /\ clerk' = [clerk EXCEPT ![k].pc = "register", ![k].scan = s]
    /\ UNCHANGED <<catalog, resolution, old, confirmed>>

(* The part is created whatever happened meanwhile.                        *)
CreatePart(k) ==
    /\ clerk[k].pc = "register"
    /\ \E p \in Registered[clerk[k].scan] \ catalog : catalog' = catalog \cup {p}
    /\ clerk' = [clerk EXCEPT ![k].pc = "done"]
    /\ UNCHANGED <<resolution, old, confirmed>>

CatalogStep ==
    \/ \E k \in Clerks :
         \/ WriteDecision(k) \/ CreatePart(k)
         \/ \E s \in Scans : AskOperator(k, s) \/ BeginRegistration(k, s)
         \/ \E r \in Resolutions : Confirm(k, r) \/ RejectAll(k, r)
    \/ \E r \in Resolutions : Age(r)

---------------------------------------------------------------------------
(* resolveCatalogIdentity (catalog-identity.ts), the one rule the graph    *)
(* and the service share.  given is the id of the row the caller names.    *)
Unidentified(reason) == [part |-> NoPart, reason |-> reason]
Identified(p) == [part |-> p, reason |-> "none"]

(* Mutant of Authorises: the row need not be about this scan.              *)
AuthorisesAny(r, s) ==
    /\ resolution[r].status = "CONFIRMED"
    /\ resolution[r].selected \in resolution[r].candidates

Authorises(r, s) ==
    /\ resolution[r].status = "CONFIRMED"
    /\ resolution[r].scan = s
    /\ resolution[r].selected \in resolution[r].candidates

ResolveIdentity(s, given) ==
    LET v == Verdict(s, catalog)
    IN IF v.status = "NO_MATCH" THEN Unidentified("catalog_no_match")
       ELSE IF v.status = "MATCHED" THEN Identified(v.part)
       ELSE IF given = NoRow THEN Unidentified("catalog_match_ambiguous")
       ELSE IF Authorises(given, s) THEN Identified(resolution[given].selected)
       ELSE Unidentified("catalog_resolution_invalid")

(* Reading the row writes its expiry.                                      *)
ReadsResolution(s, given) ==
    resolution' =
      IF given # NoRow /\ Verdict(s, catalog).status = "AMBIGUOUS" /\ Outlived(given)
      THEN [resolution EXCEPT ![given].status = "EXPIRED"]
      ELSE resolution

---------------------------------------------------------------------------
(* A catalog there may have been: parts are only ever added.               *)
PastCatalogs == {C \in SUBSET catalog : Parts \ UNION {Registered[s] : s \in Scans} \subseteq C}

(* The matcher was sure of p with a catalog this warehouse has had, or an  *)
(* operator confirmed p for this very scan, from candidates the matcher    *)
(* gave.                                                                   *)
StandsFor(s, p) ==
    \/ \E C \in PastCatalogs : Verdict(s, C).part = p
    \/ <<s, p>> \in confirmed /\ \E C \in PastCatalogs : p \in Verdict(s, C).candidates

============================================================================
