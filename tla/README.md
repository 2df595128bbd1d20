# Formal models of RackHand

RackHand runs a small automated warehouse of hardware parts. A Next.js server
with a PostgreSQL database (Prisma) plans and records; one gantry (simulated, or
Klipper over Moonraker) carries bins between rack, intake, output and scan
station; a Raspberry Pi with a camera and a scale photographs bins; language
models plan, read photos and talk to the operator. This directory holds TLA+
models of the parts of that system where a mistake moves the wrong bin, loses
track of stock, acts without permission or waits for ever, the TLC
configurations that check them, and TLAPS proofs of the results that matter
most. Paths below are relative to the repository; `lib/` stands for
`src/lib/`.

```
tlc  -workers 2 -config Custody_guided.cfg MCCustody.tla   # one run
tlapm CustodyProofs.tla                                    # one module of proofs
```

`PROJECT.json` lists every run with its module and configuration, for every
definition the code it models, for every property a plausible bug that breaks
it, for every hazard of the code the properties aimed at it, and the theorems.

## 1. Inventory

| Component | State | Operations | Interacts with | What is hard |
|---|---|---|---|---|
| **Bin custody** (`lib/warehouse/retrieval-service.ts`, `putaway-service.ts`, `guided-putaway-service.ts`, `repository.ts`) | `Bin.status`, `Inventory.quantity`, `Movement` rows with a unique idempotency key | retrieve a bin, put a scan away, return a checked-out bin, relocate, guided putaway in four requests | gantry, photo verification, recovery, database transactions | each call is a dozen separate statements over minutes; other calls, recoveries and crashes fall between any two |
| **Recovery** (`putaway-recovery-service.ts`, the sweep of `guided-putaway-service.ts`) | none | close old movements, fail their captures, free their bins | runs inside any browser's poll and any guided prepare | decides by age, not by whether the call is dead |
| **Photo verification** (`putaway-verification.ts`, `bin-inspection.ts`) | `PutawayCaptureRequest`, one per movement | require, analyse, accept, retry, cancel, time out | camera jobs, operator, waiting call | late analyses and decisions; a timeout in two statements |
| **Capture dialog** (`components/warehouse/putaway-capture-dialog.tsx`) | pending capture, what was handled, a job followed | show, decide, ask for a retry's photo | event stream of the server | events, answers and jobs overtake each other |
| **Manual corrections** (`inventory-service.ts`) | `Inventory`, `Bin.status` | add, remove | any bin, also one in motion | writes the stock a movement has as its baseline |
| **Gantry controllers** (`lib/gantry/simulator.ts`, `klipper.ts`, `factory.ts`) | the running operation; Klipper's `reconciliationRequired` latch | move, refuse, complete, fail | hardware lease, custody | a failure whose physical outcome is unknown |
| **Hardware lease** (`hardware-lease.ts`) | one row: token, `expiresAt` | take, renew every 15 s, take over when expired, reenter in a session, release | every gantry command | renewals fail, holders die or stall, waiters race |
| **Camera job queue** (`lib/camera/capture-job-service.ts`, `app/api/camera/...`) | `CameraCaptureJob` rows with leases | create, claim, renew, upload, analyse, sweep, cancel | Pi worker, photo verification, browser | requests outlive workers; statements of two requests interleave |
| **Pi worker** (`hardware/warehouse-camera/app/worker.py`) | spool directory of photos | resend the spool, ask for a job, photograph, upload, report | job queue over HTTP | answers lost or late, death at any line |
| **Inventory audit** (`audit-bin-service.ts`, `inventory-audit-service.ts`, `audit-recovery-service.ts`) | `AuditRun`, `BinAudit`, `AuditCaptureRequest`, `Bin.AUDITING` | plan, carry to scan station and back, count, review, recover | lease session, camera, gantry, browsers | decisions read and write apart; a restart with a bin at the station |
| **Putaway and retrieval graphs** (`lib/agents/graphs/`) | one run's notes | validate, identify, choose source or destination, preflight, execute, verify | catalog, services | what one node read is stale in the next; a key is sent twice |
| **Catalog** (`catalog-matcher.ts`, `catalog-search.ts`, `catalog-resolution-service.ts`, `catalog-registration-service.ts`) | parts, `CatalogResolution` rows | match, confirm, reject, reconsider, expire, register, search | graphs, session page | an identity decided about one scan used for another |
| **Approvals and agent** (`lib/agents/approval-store.ts`, `warehouse-agent.ts`) | frozen calls in memory beside durable rows | freeze, claim, approve, deny, expire, supersede, resume | chat page, graphs, hardware lease | memory and rows drift apart; two requests at once |
| **Plan inbox and coordinator** (`lib/engineering-plan/`) | inbox row, runs, a timer | debounce, read the Sheet, queue, analyse, supersede, recover | audits, clients of the warehouse | signals late, again, out of order; restarts in the middle |
| **Materials selection** (`materials-fulfillment-service.ts`) | none | choose bins for a list of requirements | plan analysis, agent | an algorithm with many cases |
| **Operator's session and storing dialog** (`components/warehouse/session.tsx`, `guided-putaway-dialog.tsx`, `lib/camera/capture-client.ts`) | the page's variables, a stream, requests in flight | scan, identify, register, store, reload | catalog, queue, guided putaway | every answer finds another page than the one it was asked from |
| Force reset, simulation revert (`admin-reset-service.ts`, `simulation-revert.ts`) | none; a 5 s timer | close everything; write back an old quantity | custody | act under live calls |
| Image analysis, measurement, dashboard, rack view, device health, tracing, Google Sheets | - | - | - | judgement of an outside model, image processing, presentation, outside services |

What makes each component correct:

- *Custody*: one open movement per bin; the machine takes a bin from where it
  is; a checkout request moves its bin at most once however often it is
  repeated; stock changes only on evidence; status agrees with stock; every
  request ends and every abandoned reservation comes back.
- *Photo verification*: the evidence is of its own attempt; a decision stands;
  what is accepted is what lies in the bin; the check ends, and its dialog
  closes.
- *Lease*: a working, scheduled holder is never displaced; movements do not
  overlap; a lost lease starts nothing; every waiter is answered; a dead
  holder's row expires.
- *Camera jobs*: one worker photographs a job; a photo is analysed once; a photo
  that was acknowledged is not asked for again; ended jobs stay ended; every job
  ends.
- *Audit*: no recovery puts a bin that stands at the scan station on the books;
  a capture is decided once; status agrees with stock; an unattended audit ends.
- *Graphs and catalog*: nothing is stored under a name nobody stands for; a
  repeated request is told what the first one did; no bin stays reserved for
  nothing; an uncertain match is never reported as sure.
- *Approvals*: a frozen action runs only if an approval claimed it while it was
  open, and what was refused before that never runs; the next
  bin of a plan waits for the one before it; a plan that was started is carried
  out.
- *Plans*: the plan the Sheet ends with is analysed; the selection meets each
  requirement, or says why not.
- *Session*: the identity a scan is given, and Continue goes by, was decided
  about that scan; what is stored is what was named; a bin at the counter is asked about; every scan ends.

## 2. Modules

```
Warehouse <- Retrieval ------.                 IdempotentRequest (abstract)
          <- Putaway ---------+-> Custody - - - - - ^  implements
          <- GuidedPutaway ---'      ^
                                     |- MCCustody (TLC)
                                     '- CustodyProofs (TLAPS)

PhotoCheck <- CaptureDialog <- PhotoVerification (TLC) <- PhotoProofs (TLAPS)

HardwareLease (TLC) <- HardwareLeaseProofs (TLAPS)
CaptureQueue <- MCCaptureQueue (TLC), CaptureQueueProofs (TLAPS)
AuditCapture <- AuditRun <- Audit <- MCAudit (TLC), AuditProofs (TLAPS)

CatalogResolution <- PutawayDestination <- WorkflowGraph <- RetrievalWorkflow -.
        ^                                               <- PutawayWorkflow ----+-> Workflow
        '- Console <- MCConsole (TLC), ConsoleProofs (TLAPS)                        ^
                              CatalogMatcher <- MCWorkflow (TLC) -------------------|
                                                WorkflowProofs (TLAPS) -------------'

ApprovalStore <- WarehouseAgent <- AgentSession <- MCAgent (TLC), AgentProofs (TLAPS)
                     Authorisation (abstract) <- - - ' implements
MaterialsSelection <- PlanAnalysis <- PlanCoordinator <- MCPlan (TLC)
```

An arrow points from a module to one that extends it. Interfaces between the
models are outcomes: custody sees a photo check as a row that is open, accepted
or failed; a photo check sees a camera job as photographed or ended; the graphs
see a trip and its check as done or failed; the session page sees a putaway as
its status. What a model takes for granted about a neighbour is stated by a
property of the neighbour's model (a check ends: `CheckEndsAndCloses`; a job
ends: `EveryJobEnds`; a lease is mutual exclusion: `OneMovement`).

### Custody

`Warehouse` has the state the workflows share and what belongs to none of them:
the gantry, the photo check, manual corrections. `Retrieval`, `Putaway` and
`GuidedPutaway` have one action per statement or transaction of each service
call; `Custody` composes them with the two janitors, and states the
properties.

| Model | Code |
|---|---|
| `binStatus`, `stock`, `movement`, `capture` | the columns `Bin.status`, `Inventory.quantity` (`NoRow` where there is no row), the `Movement` and `PutawayCaptureRequest` rows |
| `call[r].pc` and its other fields | the point in the function, and its local variables (`orig`, `base`: what it read before its transaction) |
| `place`, `holder`, `latched` | where the container is; whose operation the gantry executes; Klipper's `reconciliationRequired` |
| `owner`, `misreleased`, `call.carried` | history: who reserved a bin last; bins freed by a step that should not have; whether the container has travelled |
| `...Begin`, `...Claim` | the reads at the top of a call, which may be stale by the time of the reserving transaction |
| `...Run`, `StartMove`, `RefuseMove`, `FinishMove`, `FailMove`, `LoseMove` | the step to RUNNING, then the controller's answer: refused, completed, failed without motion, or failed with an unknown outcome |
| `...Release`, `...Uncertain`, `...Checkout`, `...Commit`, `...Complete` | the error paths and the final transactions |
| `Crash`, `LeaseExpires`, `Reconcile` | the server dies at any point; its lease runs out; an operator restarts the server |

Abstractions, and what follows from them:

- One catalog part per bin; a compatible bin is any bin. Which bin a planner
  *prefers* is not modelled here: every legal choice is explored
  (`PutawayWorkflow` has the choice).
- A call creates at most one movement, so the movement has the call's name.
- The photo check is its outcome. `OPEN` covers all attempts and retries; the
  accepted count is any quantity.
- Age is nondeterministic. The recovery may take any movement in the statuses it
  queries; timeouts may happen at any moment. This includes the real timing, and
  more.
- The lease is mutual exclusion of trips. `LeaseExpires` supposes that the macro
  of a dead call has ended by the time its lease runs out.
- Guided putaway: one operator drives a movement; a second, concurrent
  present or return of the same movement is left out. Putaways into a bin under
  audit are left out. `returnCheckedOutBin` is modelled for a requested bin.

`IdempotentRequest` is what an idempotency key promises: several workers may be
sent to do one request, one at a time answers for it, and once it has acted it
answers for good. `Custody` implements it for checkouts: the worker that answers
is the movement whose row holds the request's key, and to act is to carry the
bin (`CheckoutIsIdempotent`).

### Photo verification

`PhotoCheck` is the server: `requirePutawayVerification` with its poll, the
requests that find or create a job for an attempt, the analyses, decisions, the
recovery of an inactive check, the death of the service. `CaptureDialog` is one
tab of the operator: the event stream, the decisions, the retry's photo, another
analysis, a reload. `PhotoVerification` joins them, and has the arithmetic of the
policy: which gates an inspection passes, which count the weight gives, which status results, and what the browser
reads back from a row.

`row`, `job`, `movement` are the tables; `ask[c]` is a request for a photo by
the service or the tab, `analysis[n]` one running analysis, `call` the waiting
service, `dialog`, `stream`, `sending` the browser. Merged into one step are:
find and create of a job; claim and read of a row; the renewal of a deadline
with the write beside it; a throw with the catch of its service; the read and
the transaction of an acceptance by the tab; the read of a found row and going
on with it. A decision takes effect when it is sent. The camera is PROD (the
simulation's fixtures are left out), a job is photographed or ends, an analysis
gives a result of `Results` or fails, and weights are in milligrams where the
code has grams in floats. A living service polls (300 ms) before any deadline of
minutes runs out. Clicks on "Retry analysis" are bounded with the faults.

### Hardware lease

`withWarehouseHardwareLease` with real time counted in 15 s renewal intervals:
`Lease` and `Patience` stand for `LEASE_MS` (90 s) and `waitMs` (120 s). Each
caller creates the row, or takes an expired one, or sleeps and tries again; a
timer renews; a session holds the row around several movements, each of which
renews it on condition that it is still its own. Statements may fail after they
have taken effect, processes may die or stall (`Stall`: no step, no renewal),
and `lapsed` remembers who has stalled. `Tick` waits for the statements and
timers of the callers that are scheduled: that is what "scheduled" means here.

### Camera job queue

`CaptureQueue` models every statement of every request: the claim
(`ClaimSweeps`, `ClaimLooks`, `ClaimPicks`, `ClaimWrites`), the upload
(`UploadChecks`, `MarkReads`, `MarkRequeues`, `MarkUploads`), the analysis after
the response (`ClaimForProcessing`, `EndAnalysis`) and the worker's loop
(`Resend`, `Ask`, `Capture`, `SaveMetadata`, `Send`, and what it does with each
answer). Requests live on when the worker gives up or dies. `spool` has the
photos with their metadata, `torn` those without. Leases are untimed: one that
nobody attends may run out at any moment; one that runs out under its holder is
a fault. Faults (crashes of worker or server, lost answers, camera errors,
lapses) are bounded by `MaxFaults`. `analyses`, `safe` and `requeued` are
history of the jobs in `Watched`. The three updates of `expireStaleCaptureJobs`
are one step; a failure report is one step and may be lost; photos have no
content.

### Audit

`AuditCapture` has the tables, the photo of an audited bin and everything people
decide about it: acceptance, rejection, retry, cancellation, and the later
review of an audit that ended without a decision (confirm, apply, dismiss). A
decision reads the capture in one step and writes in another, so that two
browsers' decisions cross. `AuditRun` is the call: list the bins, take the
lease, lock the bin, carry it to the scan station, wait, carry it back, return
the lock; and `recoverStaleInventoryAudit`, which a later audit runs first.
`Audit` adds the other workflows as far as an audit can see them (a bin is
reserved, carried, comes back with other stock), a restart of the server, and
the expiry of a dead call's lease. `stranded` (bins that a failed trip or a
restart left at the scan station), `freed` (bins that a decision has unlocked
since an audit took them) and `misjudged` are history.
The eligibility of an unattended audit is a stocked bin on its shelf; the
simulated photo of a build without camera and evidence files are left out.

### Graphs and catalog

`CatalogResolution` has the rows by which an operator decides what a scan shows;
every decision reads a row and writes it later by its id, as the code does, and
`confirmed` remembers what was decided. What the matcher says is the constant
`Verdict`; `CatalogMatcher` is the matcher itself, and the search by words, as
operators over word sets and lengths. `PutawayDestination` has the choice of a
bin: compatible, enough room, the part's own bin first. `WorkflowGraph` has what
both graphs share, the notes of a run, the photo check as a count, the graph's
timeout; `RetrievalWorkflow` and `PutawayWorkflow` have one action per node,
with the service under the execute node step by step; `Workflow` runs them at
once among returns, audits and manual corrections. Bins hold several parts, rows
of count zero and missing rows are told apart.

Merged are: the inventory and the source node of a retrieval; a retrieval's
reads with its claim; a putaway's move and commit (their halves are in
`Custody`). The simulation's scope checks are left out.

### Approvals and agent

`ApprovalStore` has the map of frozen calls and the rows beside it, with one
action per statement that matters: `Freeze` and `InsertRow`, `Claim`, `Deny`,
`SettleApproved`, `Supersede`, the sweep. `WarehouseAgent` has the turns: the
model's choice is any of `Ideas`; an approval runs the frozen tool under the
lease and may freeze the next one, the return of the bin it brought or the next
bin owed. `AgentSession` is the page with what may be in flight, a countdown, a
lost answer, a reload, a repeated decision, a restart. The age of an approval is
nondeterministic; one chat session.

`Authorisation` is what the gate promises: an offer is made, an approval claims
it while it is open, and only then may it run; one that was denied, superseded,
swept or forgotten before an approval claimed it never runs. A refusal that
comes after the claim is a phase of its own (`crossed`), because the code does
not take the claim back: `claimApproval` decides nothing, and the tool may still
run. `AgentSession!Phase` is the refinement mapping: an offer is open while its
row is undecided and its entry is in memory, and a claim is authorised as long as
that is so. That a crossing denial must not run at all is the code's own comment
(`DeniedNeverRuns`), and false (section 4).

### Plans

`PlanAnalysis` has the Sheet, its signals and the inbox row, and the
analysis, statement by statement, of the coordinator's timer and of a browser's
request, with claim, snapshot, checkpoint, yielding to clients, audits and every
way to end; `PlanCoordinator` the timer, the clients that hold bins, midnight,
failing reads, restarts and expiring leases. An audit is its outcome, stock and
evidence are read in one step, two signals never have the same time, and there
is one coordinator process, as the documentation requires. The Sheet is read
within one day and within its inbox lease. `WarehouseIsIdle` looks at the lease,
at bins away from their shelves and at other runs; the other reasons of
`idle-service.ts` for which an automatic analysis waits (an approval that is
pending, a movement or an audit under way, a camera job, a gantry in error, a
camera that is not healthy) are folded into the client that holds a bin: they
keep the analysis waiting as it does, and end as it does. `MaterialsSelection` is
`prepareMaterialsFulfillment` as an operator, with `Sound`, what it promises: in
each plan that is ok, what is taken meets each need, and the bin visited last of
a requirement is needed, so that no bin is visited once the need is met. It does
not promise the fewest bins: the code takes bins in the order of the shelf, and
an early small one may turn out superfluous (section 4).

### Session

`Console` is one tab: the scan and the stream of its job with reconnection and
reload of status, the identity an operator gives, registration, and the dialog
that stores an item, with the answers to all of these arriving late and used as
the click that asked for them saw the page. What the server does is one step
when the answer is computed (the halves of an identity decision are in
`CatalogResolution`, of a putaway in `GuidedPutaway`). Chat is in
`AgentSession`. The one way in which the page is left is a reload. Navigation
inside the client (the browser's Back) is not modelled: the session's provider
is in `app/layout.tsx` and stays, the dialog is part of a view
(`views/operate.tsx`, `capture-station.tsx`) and is unmounted, so that its
operation is lost, as after a reload, while its call goes on unattended.

## 3. Runs

All runs terminate with every state explored. `CHECK_DEADLOCK FALSE` is set
because calls, jobs and scans are finite in number: the system may be done.

| Run | Instance | Shows |
|---|---|---|
| `custody_relocate` | a retrieval, a return and a putaway over a stocked and an empty bin, relocations, crashes, recovery and lost trips | `OneDriverPerBin`, `ShelvedStatusMatchesStock` |
| `custody_guided` | 2 calls of any of the four services, a stocked and an empty bin, 1 manual correction | what the machine carries and from where (`TripStartsWhereBinIs`), one checkout per request (`CheckoutIsIdempotent`), stock only on evidence (`StockChangesOnlyOnEvidence`) |
| `custody_live` | 2 calls, 1 bin, fairness | `AbandonedReservationIsReleased`, `EveryRetrievalEnds` |
| `photo` | 2 photos, 1 retry, 1 fault, a putaway or a checkout | `EvidenceIsOfItsAttempt`, `AcceptanceIsHonoured`, `DecidedIsFinal`, `CheckEndsAndCloses`; `AcceptedCountIsLoaded` over every reading of the policy |
| `lease` | 3 callers, 2 of them sessions, 1 may stall; `Lease` 3, `Patience` 2, 1 miss | `LiveLeaseIsKept`, `OneMovement`, `LostLeaseStartsNothing`, `EveryRequestIsAnswered`, `AbandonedLeaseExpires` |
| `queue` | 2 jobs and 1 worker, or 1 job and 2 workers; 2 requests, 1 fault | `AnalysedOnce`, `ExclusiveCapture`, `StoredPhotoIsKept`, `EndedStaysEnded`, `EveryJobEnds` |
| `audit` | 1 audit, 2 browsers with every decision, 1 change of stock by others, 1 restart, 2 attempts | `StatusMatchesStock`, `DecidedOnce` |
| `audit_recovery` | 2 audits, the second of which may recover the first, acceptances, 1 restart | `ScanStationIsAttended`, `UnattendedAuditEnds` |
| `workflow` | 2 requests in the scenarios of `MCWorkflow`, 2 bins of capacity 1 and 2, 4 parts, 4 scans, 2 operators, 2 changes from outside | `IdentityIsConfirmed`, `ReplayAnswersOriginal`, `ReservationHasAnOwner`, `CheckoutIsReportedAtTheCounter`; `MatchIsSound` over sample scans and catalogs and every question of three words |
| `agent` | a plan of 2 bins, 2 messages, 4 offers, 2 requests at once, 1 tool that fails, 1 fault | `ApprovalAuthorises` (refines `Authorisation`), `NextBinWaitsForReturn`, `PlanIsFulfilled` |
| `plan` | 2 bins to audit, a Sheet emptied and filled, 2 days, 2 disturbances | `NewestPlanIsAnalysed`; `SelectionIsSound` over every shelf of 3 bins |
| `console` | 2 scans of 3 objects, 2 resolution rows, 1 fault or act of others | `ShownIdentityIsOfThisScan`, `BinAtCounterIsAskedAbout`, `StoredAsShown`, `EveryScanEnds` |

Two more configurations are counterexamples to statements of the repository
(section 4), and are not among the runs: `Agent_denied.cfg`, for
`MCAgent`, with 1 message, 2 offers and no tool that fails, violates
`DeniedNeverRuns` (an approval and a denial of one offer cross);
`Console_card.cfg`, for `MCConsole`, without faults and others, violates
`ConfirmedIsThisScan` (the answer to a choice is late by a scan).

*Why the bounds are enough.* A race for a bin takes two calls; what a late
release does to a third call takes three. A relocation names two bins; no
action names more. `Capacity` 1 has an empty, a partly held (by a missing row)
and a full bin, and counts that agree and disagree with the baseline; one key,
so that every call repeats the same request. A photo that comes late needs the
attempt it was for and one after it. The lease needs a holder, a waiter and one
to race with the waiter; time is counted in intervals. In the queue, a job may
be passed over for another, and two claims may meet on one job; both at once
multiply states and add no step (`SmallSpec` takes one or the other). In an
audit two decisions cross, and only one run has the lease, so one bin; a
recovery takes a second run. The graphs need two requests that share a key, a
confirmation, a part or a bin: the scenarios are these. A plan of two bins has a
first, a next and a last bin. The Sheet has a version that is overtaken, one
that needs no bins, and a day that ends. The session has the scan a late answer
is about and the scan it finds. One fault at a time is what the code promises to
survive, and the theorems of section 5 have no bounds. Symmetry is over calls,
bins, workers and requests, never in a run with a liveness property.

*Fairness.* A live process is scheduled (`WF` on what it does unasked; never on
an operator's decision or a new request).
- Custody: the recovery is fair as long as a browser is open: each of its polls
  runs `recoverAbandonedPutaways` (`putaway-verification.ts:193`).
- Photo: loops go on, the stream's heartbeat pushes what is pending, requests
  are answered, deadlines pass or a recovery runs. No operator need decide.
- Lease: time passes (`SF(Tick)`), and movements and sessions may last for ever.
- Queue: the server goes on with its requests, systemd restarts the worker
  (`Restart=always`), the event stream wakes it every 15 s
  (`app/api/camera/device/events/route.ts`), and an unattended lease runs out;
  no browser needs to be open.
- Audit: a live server runs its calls and analyses; nobody has to decide and no
  camera has to answer (the property says so).
- Agent: requests are served and the card's countdown approves.
- Plan: the timer ticks, leases and heartbeats of the dead run out. That the
  newest signal arrives, that the Sheet is opened on a new day, and that people
  bring bins home are assumptions about people and about Apps Script, which
  retries at most five times. So is that whatever else keeps the warehouse busy
  (`idle-service.ts`: approvals, camera jobs, a gantry in error, a camera that is
  not healthy) comes to an end: the model has it in the client that brings its
  bin home.
- Session: requests are answered, events delivered, heartbeats come, and the
  queue ends its jobs (`EveryJobEnds`, with a camera worker).

*Exclusions named in the properties.* `misreleased`, `misjudged` and
`stranded` take out bins to which a step of section 4 has happened, so that the
properties say what holds for all others. `ExclusiveCapture` speaks of claims
that were never taken back: a lease that runs out under its holder is meant to
admit a second worker. `EveryJobEnds` excludes `QueueIsBlocked`,
`UnattendedAuditEnds` a camera that never answers, `PlanIsFulfilled` what is
called `Interfered`, `EveryScanEnds` a stream whose reconnection was refused,
`BinAtCounterIsAskedAbout` a bin whose page was reloaded (`told`).
`ApprovalAuthorises` lets an offer run that was refused after its claim, and
`ShownIdentityIsOfThisScan` leaves out the card that confirms a choice: the two
configurations show why.

## 4. Where the code departs from what it says

The models follow the code, so they have these departures too; the properties
hold all the same, or name what they except. None has a run of its own; TLC
reaches the first two as counterexamples, under the configurations named there.

Against a statement of the repository:

| Stated | What happens |
|---|---|
| "Settle first: the tool must not be reachable even if resume misbehaves" (`warehouse-agent.ts:1534`, of a denial) | an approval has claimed the offer, a denial that crosses it claims it too, writes DENIED and is answered; the approval runs the tool, and settling it writes APPROVED over DENIED (`Agent_denied.cfg`) |
| "A new physical scan invalidates operator decisions attached to the previous scan" (`session.tsx:393`) | the answer to a choice about the earlier scan sets the choice of the new one: its card says "Identity confirmed" with the earlier scan's part, and hides the candidates; `CurrentScanPanel` and Continue do not go by it (`Console_card.cfg`) |
| "never steal it" (`putaway-service.ts:626`) | a call waits for its photo, the recovery closes its movement and frees the bin, another call reserves it, the first call's `releaseClaim` frees it again |
| "does not put the same scan away twice" (`tests/putaway-service.test.ts:340`) | the sweep closes a guided movement during its trip and frees its key; the trip's end reopens the movement; the scan is put away again, and both complete |
| "the same cleanup" (`putaway-recovery-service.ts:157`) | a capture timeout has set the movement FAILED when the call dies: the recovery looks for other statuses, the bin stays RESERVED |
| "An `AVAILABLE` bin holds no stock" (`docs/M13_TEST_MATRIX.md:100`) | the recovery of a guided putaway decides by a previous quantity that nobody recorded |
| "Never recapture a durable job" (`worker.py:251`) | the server answers 409 for a job it has put back in its queue; the worker deletes the photo as of a "terminal" job, and takes another |
| the audit lock lasts until the bin has returned (`audit-bin-service.ts`) | a decision gives the lock back while the bin stands at the scan station |
| "locked to one audit at a time" (`audit-bin-service.ts:403`) | a decision on the capture of an audit that has ended unlocks the bin of the next one (`freed`) |
| "At most one live approval per session" (`warehouse-agent.ts:1424`) | two turns at once leave two |
| a waiting card never blocks a question (`approval-store.ts:303`) | any answer that offers nothing takes the card away (`session.tsx`) |
| an empty bin is COMPATIBLE only when AVAILABLE (`putaway-destination.ts:19`) | a bin under AUDITING is COMPATIBLE, and the service can take it |
| "one-SKU-per-bin rule" (`inventory-service.ts`) | a manual addition to an empty bin that a putaway has reserved gives it a second part |
| "CONFIRMED is immutable" (`catalog-resolution-service.ts:188`) | two requests that have both read PENDING write one after the other |
| "An exact SKU hit outranks every token-overlap hit" (`catalog-search.ts`) | a full overlap ties with it, so `BRG-6204` is ambiguous beside `BRG-6204-2RS` |
| "The placement decision is still waiting" (`guided-putaway-service.ts:704`) | the dialog shows a failure that can only be closed |

Seen while modelling, by component:

- *Custody.* `recoverAbandonedPutaways` takes AWAITING_PLACEMENT for "before
  motion" and gives back a bin that stands at the intake. The guided sweep takes
  every old VALIDATED putaway, also the return of a checked-out bin, and marks
  that bin shelved. A guided movement closed by the sweep is reopened by the
  unconditional writes at the end of a trip. A guided putaway cannot take a
  second photo (`movementId` is unique in the capture table). A manual removal
  of the last unit of a checked-out bin deletes the row that
  `returnCheckedOutBin` requires. After an uncertain trip a bin stays RESERVED
  without a movement that drives it, by design. `executePutaway` takes a
  checked-out bin home while its count is being checked; `returnCheckedOutBin`
  refuses that. A manual correction of a reserved bin's stock can leave its
  status behind when the bin is released.
- *Photo.* Decisions are conditional on the status, not on the attempt. An
  automatic acceptance that meets an operator's RETRY throws and fails the whole
  movement. A RETRY while an earlier request for a photo is in flight asks for
  none; the check waits for its inactivity limit. The server may create a job
  for an overtaken attempt; the job of a check that has ended stays PENDING, and
  the dialog follows it. The countdown's key has no attempt. An analysis that
  was overtaken still answers ANALYSIS_FAILED. REVIEW_DECREASE and INCREASED
  have no buttons; a reloaded browser may show CAPACITY_EXCEEDED for a result of
  low confidence.
- *Camera.* A Pi that dies between a photo and its metadata finds the photo,
  without metadata, each time it claims that job, and never gets to the jobs
  behind it (`QueueIsBlocked`). Two claims in flight may each find no active
  claim and claim a job each. A second photo of a job overwrites the evidence
  file of the first.
- *Audit.* DISMISS after the stock changed between listing and claim leaves a
  status that does not match, and VERIFIED never compares with current stock
  (`misjudged`). APPLY and DISMISS at the same time may end DISMISSED with the
  stock written. ACCEPT of a REVIEW_DECREASE writes a count read before. A
  recovery may take a live audit whose trip lasts over 30 s; its bin stays
  DISABLED. FINALIZING stays when the request dies. A failed return overwrites a
  decision. A camera job that fails leaves the capture WAITING_FOR_CAMERA, so an
  unattended audit hangs with the lease. The graph's 120 s make a run FAILED
  though its audit finished; `gantry_busy` leaves an audit PENDING in a closed
  run.
- *Graphs.* A putaway or return verified at count 0 is reported "not coherent"
  though committed. The putaway graph has no recovery from its timeout; a failed
  retrieval with a timeout throws; a failing verify node leaves the service's
  `ok: true`. A repetition that names only the bin is refused when the bin was
  emptied or returned meanwhile. Verify may report an incoherence when somebody
  returned the bin. Doubles in the catalog make a scan AMBIGUOUS for good, a
  part just registered need not match its scan, and only the first 200 parts by
  SKU are considered. With more than ten ties an exact SKU may be cut off.
  `AUTO_RETURNED` is read and never set.
- *Agent.* A tool may have run for a row DENIED; settling overwrites DENIED and
  EXPIRED with APPROVED. A follow-up retrieval proposed by the model reuses the
  parked request's id and replays its first bin. The model's own interruption
  after a return drops the rest of the plan; a retrieval that fails ends it
  without another offer. Two turns at once leave two offers, so a plan's next bin may be
  offered while the other turn has that very bin at the output; the bin the plan
  brought before it is on its shelf (`NextBinWaitsForReturn`). A throw after the
  tool leaves the row PENDING with the card gone.
- *Plans.* `appendProgress` writes by id whatever the status: a run stalled for
  three minutes and recovered as FAILED may be set RUNNING or COMPLETED again; a
  RUNNING row without key is never recovered. The selection takes bins in the order
  of the shelf: of bins with 1 and 2 units and a need of 2 it takes both. Bins are audited even where the
  rest cannot suffice. After a restart in an audit the warehouse is not idle
  until a person recovers the bin.
- *Session.* Late rejections and reconsiderations do what the late choice does;
  a question sent meanwhile attaches the stale resolution, and destinations are
  those of the stale part. The wait for a photo has no timeout, and a job
  nobody has claimed does not expire: without a camera worker a scan waits for
  ever; so does one whose reconnection was answered with an HTTP error.
  `guidedPutawayRequestVersion` is never set. A reload loses `operation`, and
  so does the browser's Back. The
  matcher may overrule a person's confirmation when the catalog has changed. A
  new scan does not reset `identityBusy`, so two reconsiderations may be under
  way at once, and the item may be stored under a name the matcher is sure of
  and the page did not show (the exception in `StoredAsShown`).
- *Simulation revert* (not modelled) writes an old quantity back under whatever
  has happened since.

## 5. Proofs

Checked by TLAPS for every value of the constants, under the named assumptions
of the modules: sets of bins, calls, keys, jobs, scans, parts, rows and requests
of any size, a positive capacity, null values outside their sets; for the lease,
more intervals in a lease than renewals that fail in a row, plus one
(`LeaseAssumption`); of the matcher, only that it answers with parts it was
shown, and names one exactly when it is sure (`CatalogAssumption`). TLC
evaluates each assumption on the runs.

| Module | Theorem | Property | |
|---|---|---|---|
| `CustodyProofs` | `TypeCorrect`, `CheckoutKeepsItsKey` | | types; the invariant of checkouts |
| | `OneCheckoutPerRequest`, `CheckoutRefinesIdempotentRequest` | `CheckoutIsIdempotent` | refinement, initial states and every step |
| | `CustodyIsKept` | | the invariant of reservations and places |
| | `EveryBinHasOneDriver` | `OneDriverPerBin` | |
| | `TripsStartAtTheBin` | `TripStartsWhereBinIs` | |
| | `StockFollowsEvidence` | `StockChangesOnlyOnEvidence` | action property |
| | `ShelvedBinsAreBooked` | `ShelvedStatusMatchesStock` | unless one of two named steps is taken |
| | `WholeBinsAreBooked` | `ShelvedStatusMatchesStock` | where neither step exists |
| `PhotoProofs` | `PhotosAreKeptApart` | | the invariant |
| | `LateResultIsDropped` | `EvidenceIsOfItsAttempt` | |
| | `AcceptanceStands` | `AcceptanceIsHonoured` | |
| | `EndedCheckStaysEnded` | `DecidedIsFinal` | action property |
| | `CountsAreTheLoad` | | the policy, for any load and expectation |
| | `AcceptedCountsAreLoaded` | `AcceptedCountIsLoaded` | |
| `HardwareLeaseProofs` | `TimeAlwaysSuffices` | | the invariant |
| | `LiveLeaseNeverRevoked` | `LiveLeaseIsKept` | |
| | `MovementsDoNotOverlap` | `OneMovement` | |
| | `LostLeaseIsNoLicence` | `LostLeaseStartsNothing` | action property |
| `CaptureQueueProofs` | `TypeCorrect` | | types |
| | `TerminalJobsDoNotReopen` | `EndedStaysEnded` | action property |
| | `PhotoIsAnalysedOnce` | `AnalysedOnce` | |
| | `AcknowledgedPhotoIsKept` | `StoredPhotoIsKept` | |
| | `OneWorkerTakesThePhoto` | `ExclusiveCapture` | |
| `WorkflowProofs` | `RunsKeepTheirWord` | | the invariant |
| | `StoredIdentityIsConfirmed` | `IdentityIsConfirmed` | |
| | `RepeatedRequestHearsOriginal` | `ReplayAnswersOriginal` | |
| | `NothingStaysReserved` | `ReservationHasAnOwner` | |
| | `DoneIsAtTheCounter` | `CheckoutIsReportedAtTheCounter` | action property |
| `ConsoleProofs` | `PageNamesItsOwnScan` | `ShownIdentityIsOfThisScan` | |
| | `PageMindsItsBin` | `BinAtCounterIsAskedAbout` | |
| | `StoredUnderItsName` | `StoredAsShown` | action property |
| `AuditProofs` | `CapturesAreMadeOnce` | | the invariant of captures |
| | `CaptureIsDecidedOnce` | `DecidedOnce` | action property |
| | `VisitsKeepTheLock` | | the invariant of visits; with a gantry |
| | `ScannedBinsAreAttended` | `ScanStationIsAttended` | with a gantry |
| | `BooksStayInStep` | | the invariant of the books; with a gantry |
| | `ShelvedStatusIsRight` | `StatusMatchesStock` | with a gantry |
| `AgentProofs` | `ApprovalsAreNotReused` | | the invariant of the gate |
| | `AgentRefinesAuthorisation` | `ApprovalAuthorises` | refinement, initial states and every step; a refusal after the claim only crosses it |
| | `OffersKeepThePlan` | | the invariant of a plan |
| | `NextBinIsOfferedInTurn` | `NextBinWaitsForReturn` | action property |

**Custody, checkouts** (`CustodyProofs`). `TypeOK` is strengthened by `NamesBin`
(a call past its first step names a bin). Each of the some fifty actions changes
one call's state and at most one movement row, and lemmas about the small
operators that do so (`GotoFrame`, `SetMovementFrame`, ...) give the frame of
every action; the type proof then goes action by action.
`AtMostOneCheckoutPerRequest` is not inductive: nothing in it prevents a second
call from starting. The invariant that is, `CheckoutHoldsItsKey`, says that a
checkout that has moved its bin, or may be moving it, holds its request's key in
its row, that keys are unique, and that the gantry works only for a call that is
moving or dead. It is preserved because the only release that frees the key of a
checkout runs where the machine never had the bin, and because the recovery does
not free checkout keys. With it every step is a step of `IdempotentRequest` or a
stutter: a claim makes the worker answer for its request, a release before the
trip gives it up, a trip acts.

**Custody, trips** (`CustodyProofs`). That two open movements never have
the same bin is not inductive, because a bin is freed and reserved by steps that
read different columns, and a trip may outlive its movement. The invariant
`CustodyInv` has four parts. `OwnInv` is about one call and its row: the row is a
copy of what the call planned (`RowIsOfCall`); no recovery closes a movement
that the gantry may be carrying for, except a guided one (`TripIsDriven`);
what has been carried is past its trip (`LegsAreInOrder`). `OwnersHold` relates
rows and bins: whoever holds a bin (an open movement, a guided call whose bin is
off its shelf though its movement was closed, or the call the gantry works for)
is the bin's recorded owner, and the bin is RESERVED. `PlacesAreRecorded`
relates bins and the floor: a bin on the books is on its shelf, one checked out
is at the output, a reserved one is where its owner found it or took it.
`Whereabouts` relates calls and the floor. The last three are about bins not in
`misreleased`. The proof sorts the steps of a call by what they do to bins:
`Kept`, `Taken` (a claim of bins that were free) and `Given` (a release by the
owner, or one that makes the bin misreleased), and one lemma for each kind
shows the invariant of all other calls; that a call's own part holds is proved
action by action (`StepOwn`, `StepWhere`). Exclusion then follows, since a bin
has one owner, and so does the start of a trip. For stock, `EvidenceIsKept` adds
that the photo of a call that was let through stays accepted until it commits,
or its movement is out of the statuses the recovery looks for.

**Custody, books** (`CustodyProofs`). The status of a shelved bin is written by
the call that gives the bin back, from what it read when it took it. So a
reserved bin carries an obligation, which is what `ShelfBooks` adds to the
status of shelved bins: the stock of a reserved bin is still what its owner would
restore the status of (`Reservation`), and what an intake read of stock, status
and previous quantity agrees (`IntakePlanned`). Each step of a call leaves a bin
as it is, promises it to the call, or writes its status and stock together.
Two steps break this: a manual correction of a reserved bin
(`CorrectsReserved`), and the recovery of a guided movement, which keeps no
previous quantity, of a stocked bin (`RecoversStockedGuided`). Both are
departures of section 4, and `ShelvedBinsAreBooked` says that there is no third.
A warehouse without corrections and guided putaways (`WholeBinsAreBooked`; the
run `custody_relocate` is one) takes neither.

**Photo** (`PhotoProofs`). That the result in a row is of the row's attempt
follows from the conditional updates, if a job's attempt cannot change after
the row or an analysis has named it (`PhotosAreOfJobs`). That an acceptance is
honoured needs more: a status that may be accepted comes with a photo
(`ResultHasPhoto`); before the service's first request there is no job, no
analysis and no result (`NobodyActsBeforeTheRequest`), since its failure would
otherwise meet an acceptance; and a service that gives up has failed its row
(`GivenUpIsFailed`). Only the shape of the state is proved here, not all of its
types: the newest job of an attempt is a maximum over a set, which needs
finiteness. The policy is arithmetic: if the scale is off by less than eleven
twentieths of a unit, rounding gives the load or falls in the band around a
boundary, where no count is given (`ScaleCountsTheLoad`). The bound is sharp:
the band is a twentieth of a unit wide on each side of one half.

**Lease** (`HardwareLeaseProofs`). That a working holder keeps its row is not
inductive, since time passes. The invariant counts: what is left of the lease,
with the renewals already missed, covers those that may still be missed
(`TimeIsEnough`). A tick takes one unit and makes the timer due; a renewal
restores the lease; a miss is paid from the count. It needs that timers run for
working callers only (`TimersOfWorkers`). Mutual exclusion follows, for a row
has one token, and so does the property of sessions.

**Camera queue** (`CaptureQueueProofs`), from `QueueAssumption` alone. First the
life of a job: every step of every request, worker and sweep takes each status
along `Follows`, since each update is conditional on the status it read for;
ended jobs therefore stay ended. A photo is analysed by the one step out of
`UPLOADED`, and no step leads back there from `PROCESSING`, so a job that may
still be analysed has not been (`NotYetAnalysed`). Types need more than they
say: a request past its first statement names a job, and a worker that handles a
photo, or has been given a job or an "ok", knows which job (`RequestsOK`,
`WorkersOK`). With that, `Acknowledged` is inductive: the server says "ok" only
of a job that has left the queue, and by `Follows` such a job never returns to
it, so the worker may delete its photo. That two workers hold the same job only
where a claim was taken back is about answers under way as well: an answer
reaches the one worker that waits for it, and is about the job it asked for
(`AnswersAreAwaited`), so a claim belongs to one worker from the moment the
server grants it (`ClaimsAreOwned`).

**Graphs** (`WorkflowProofs`). The catalog first (`CatalogInv`): it only grows, a
row once opened holds candidates the matcher gave for its scan, a confirmed row
was confirmed for its own scan, and what is about to be written is about an
opened row. Then the runs (`RunInv`), by place: a run that has not claimed has
no movement; a planned or started putaway holds a part its scan stands for; a
replayed answer names a completed movement, which nobody touches again. That no
bin stays reserved for nothing is preserved because each release is of the
releasing run's own bins and each owner lets go only by a release, a completion
or a machine that may have moved (`Owns`, `OwnersStay`). What a checkout answers
is about its own movement (`AnswerIsOfItsMovement`), and only its last look,
which compares the answer with the books, reports it done. `TypeOK` of `Workflow`
is only checked: counts are sums over a bin's rows, and a sum needs induction.

**Session** (`ConsoleProofs`). `SessionInv`: the verdict on the page is one the
matcher gave for the page's scan with some catalog there has been
(`PastCatalogs`), the operator's choice, though it may be about an earlier scan,
was made, and what is asked is about rows. So a late answer cannot give the scan
an identity, neither in `CurrentScanPanel` nor for Continue; the card that
confirms a choice does not ask whose it is, and may name the earlier scan's part
(`ConfirmedIsThisScan`, violated under `Console_card.cfg`). `DialogInv`: the answers a putaway awaits belong to the scan
its dialog shows (`CallIsShown`), and a locked dialog is open (`LockedIsOpen`),
so no new scan takes its place while a bin is at the counter. `StoreInv` joins
the two: the card, the choice and every request under way are about rows of
their scan (`RowsAreOfScans`), rows keep their scan and, once confirmed, their
part, and the call that is to reserve a slot knows the name it was pressed under
and the row or verdict that name rests on (`ContinuedFrom`).

**Audit captures** (`AuditProofs`). Everybody who writes a capture (a browser, the
analysis, the waiting run, a recovery) asks for the status it has read, so a
decided capture stays as it is once a request can be shown to have read a status
in which it may decide (`ReadWhileOpen`). The exception is the statement that
creates the capture, which asks for nothing: it overwrites no decision because a
run creates each capture once (`CapturedOnce`): the bins still planned, and the
one it has come to, have no capture yet. The proof shows of each step that it
writes captures only so (`Conditional`) and moves the run on its way or off it
(`CallsAdvance`).

**Audit visits and books** (`AuditProofs`). `AttendInv`: one call at a time is
with a bin, the one that has the lease (`OneSession`); between locking the bin
and giving the lock back only a decision unlocks it (`VisitKeepsLock`); a bin at
the scan station is carried by such a call or was left there (`ScannedBins`).
`StockInv`: a call that has locked its bin knows the status its stock calls for
(`BooksAgree`), since nobody changes the stock of a locked bin; and a count that
waits to be acknowledged is not lower than expected, so what an acceptance
writes is never zero for a stocked bin (`CountsAreNotLower`). Both need
`Production`, a configured gantry, as in both runs. Without one a recovery
writes the status it read of a bin when it began, over whatever other runs have
done with the bin since; it takes three runs and two bins to see that.

**Approval gate** (`AgentProofs`). The gate has no lock. `GateInv` says what
stands in for one: approvals are numbered as they are frozen, whatever is held,
decided or has run was frozen before (`OffersAreKnown`), a request that has
claimed an approval found its row written (`HolderFoundRow`), and a row is
written first by the one request that froze it (`RowIsAwaited`). With it every
step is one of `Authorisation` or a stutter. A claim finds its offer open and
authorises it (`ClaimAuthorises`); a tool that runs was claimed, since no request
comes to its tool otherwise (`RunIsAuthorised`); a call that fails lets go of its
claim, and leaves the offer open if nobody has refused it meanwhile
(`FailureWithdraws`); freezing offers, and may sweep older offers in the same
step (`FreezeOffers`). A denial, a supersession or a sweep refuses what is open
and crosses what is claimed (`GateRefuses`), and a restart forgets both
(`GateForgets`). An offer that was refused before its claim has left the open
phase for good, since a row is never unwritten and an entry never comes back. The
theorem does not say that a refusal stops a request that has claimed: it does
not.

**Plans of the agent** (`AgentProofs`). An offer is frozen with the bins still
owed, and the number of the next bin is computed from their count. `PlanInv`
says that the two agree: what an offer owes is the end of the plan, a return is of
the bin its item brought, a retrieval is of the next bin after one that was
brought (`OfPlan`). It is inductive because a completed retrieval is not
written again, and because the request that is about to offer the next bin holds
the lease, without which no tool moves a bin; so the bin it has just brought
home is still there when the offer is frozen (`Clear`). That the keys so
computed are keys at all needs that a plan names each bin once
(`AgentAssumption`), by a count of the set of its bins.

**Only model-checked.** All liveness: fairness and ENABLED are outside the
prover. What the matcher, the search and the selection compute (`MatchIsSound`,
`SelectionIsSound`): sums, maxima and folds over data need induction, which the
provers cannot instantiate, and some are RECURSIVE. The type invariants of
modules whose state contains such sums (`Workflow`, `PhotoVerification`).

## 6. Not modelled, and the plan

Not modelled, with no plan: image analysis, measurement, dashboard and rack
view, device health, tracing, Google Sheets beyond what is read from them,
homing and calibration of the gantry, conversation memory and prompts, the
eviction of the 51st frozen call, navigation inside the client, the reuse of a checkout by the simulation, the
wording of reports. Force reset and simulation revert would be further actions
on the custody state.

Next: force reset under live calls; withdrawal of a camera's token; the audits of
a build without a gantry.
