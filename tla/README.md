# A TLA+ model of systematic-alpha-research

The repository is a quantitative research programme (data, indicators, walk-forward
validation, event replay) that ends in a small amount of code which talks to a broker:
an order state machine (Day 19), reconciliation and stream monitoring (Day 20), a
controlled paper execution (Day 21) and a ten-slot live calibration campaign (Day 22).
The numerical part computes pure functions of data frames.  The broker part keeps state,
runs as several processes, may die anywhere and depends on messages that arrive late,
twice or never.  The specifications start there and go on to the parts of the research
side that keep a state or must put things in an order: the replay loop, the folds, the
strategies with a memory, the bars, the dataset store and the evidence bundles.

## 1. The system

Paths are relative to `src/src/systematic_alpha` unless they start with `scripts/`
(`src/scripts`).

| Component | State | Operations | Interacts with |
|---|---|---|---|
| order state machine, `broker/order_state.py` | local order states, event fingerprints, audit trail, timeout keys, recovery flags | `register_intent`, `apply`, `record_invalid_event`, `check_timeouts` | called with broker messages; its states are the local side of reconciliation |
| snapshot reconciliation, `broker/reconciliation.py` | none (a pure function of one snapshot) | `reconcile_snapshot` | reads local order states; its result is an input of the operational gate |
| stream monitor and gate, `broker/monitoring.py` | stream state, last times, fingerprints, failure count, retry time, reasons, audit trail | `record_message`, `evaluate`, `begin_reconnect`, `record_reconnect_failure/success`, `engage_kill_switch`, `evaluate_operational_gate` | the gate combines it with the reconciliation result |
| Day 21 execution, `broker/controlled_paper_execution.py`, `day21_*.py` | none that survives the process | twelve gates, entry, flatten, shutdown checks | the broker; its adapter is shared with Day 22 |
| Day 22 campaign, `broker/day22_calibration_campaign.py`, `broker/day22_campaign_report.py`, `scripts/run_day22_live_campaign.py` | `campaign_state.json`, slot bundles, the lock file | watch loop, initialisation, missed slots, slot attempt, bundles, finalisation, audit, loading of execution records | several processes over one directory; the broker |
| paper boundary, `broker/paper_boundary.py` | none | adapter, read-only preflight gates | called by Day 18, 21 and 22 |
| report writers, `broker/day18_report.py` ... `day22_report.py`, the writers in `analysis/` | artifact directories | stage, replace, roll back; authenticate earlier bundles | file system, other days' bundles |
| frozen scenarios, `broker/day19_scenarios.py` ... | none | known-answer inputs | drive the components above |
| operations, `operations/`, `scripts/run_scheduled_job.py` | log and health files | health checks, command dispatch | file system, subprocesses |
| event replay, `analysis/trend_family_event_replay.py`, `analysis/causal_bar_execution.py` | position, pending order, equity, event log | one step per bar | strategy targets |
| walk-forward, `analysis/trend_family*_walk_forward.py` | none | fold construction, selection | data frames |
| locked final test, `analysis/locked_final_test.py` | its bundle, written once | one evaluation | file system |
| strategies, `strategies/` | position per bar | indicator and target functions | replay, backtests |
| local store and download, `data/local_store.py`, `scripts/download_development_bars.py` | dataset and manifest files | `write`, `read`, `read_manifest`, months, combined dataset | several download runs; the studies |
| bar processing, providers, configuration, `data/` | none | transformations, network reads | store |
| statistics and portfolio, rest of `analysis/` | none | floating-point numerics, reports | data frames |

### What is hard here, and what makes each part correct

* Order state machine: messages arrive out of order, repeated and contradictory, and the
  fingerprint of an event is stored *before* the message is validated, so a refused
  message is later taken for a duplicate.  It is correct when nothing retained is lost
  without a flag, nothing is booked twice, the audit trail accounts for the present
  order, and a terminal order never changes.
* Campaign: two schedulers, a ledger written by atomic replacement, an advisory lock
  that is not blocking, exceptions nobody catches, an exchange that fills when it likes
  and a submission whose answer may be lost.  It is correct when whatever is left in the
  market is latched and attributed to its slot, a slot is consumed once, and a row that
  says "reconciled" is true of the market.
* Stream monitor: the staleness of a stream is a cached state, judged only when somebody
  calls `evaluate`; retries must respect a backoff; breaker and kill switch latch.
* Day 21: nothing is locked or persisted before the end; reads, polls and the cancel race
  with fills and with another runner of the account.  It is correct when a flatten never
  exceeds its entry's fill and a report of success is true.
* Reconciliation: a pure function over a book and a broker's records that may be old,
  repeated or contradictory.  It is correct when the operational gate opens only on books
  that agree.
* Paper boundary: one validation reads the broker's clock for open and closed markets.
* Local store and download: two renames with a crash between them, temporary names that
  all processes share, a combined dataset that any run may build.
* Report writers: six ways of putting a directory in place, each with its own roll back,
  and experiments that authenticate bundles other writers may replace meanwhile.
* Replay, folds, strategies, bars: one-bar delay without looking ahead, windows that
  neither share nor drop a bar, several exit rules competing on a bar, trades of one instant.

The full list of hazards, each at its line and with the properties that would catch it,
is `hazards` in `PROJECT.json`.

## 2. The modules

| Module | Role |
|---|---|
| `OrderState` | the order state machine |
| `OrderStateProofs` | theorems about it, for every instance |
| `MCOrderState` | two orders and three events for TLC |
| `StreamMonitor` | the stream monitor |
| `Reconciliation` | one snapshot against the local order book |
| `OperationalGate` | monitor and reconciliation, composed through the gate |
| `StreamMonitorProofs` | theorems about monitor and gate, for every instance |
| `MCStreamMonitor` | two events, and every small snapshot, for TLC |
| `FoldLemmas` | what folds compute over finite sets and sequences of any size; proofs |
| `RoundTrips` | abstract: what the campaign promises about its slots |
| `Campaign` | the campaign: processes, lock, ledger, bundles, broker |
| `CampaignProofs` | types and safety of the campaign, and that it implements `RoundTrips`, for every instance |
| `CampaignTruth` | ledger, bundles, broker and the reader of the directory agree, for every instance |
| `MCCampaign` | two schedulers, two slots for TLC |
| `CampaignAudit` | the campaign with a reader of its directory |
| `MCCampaignAudit` | one scheduler and one reader for TLC |
| `ControlledExecution`, `MCControlled` | Day 21 sessions on one account |
| `ControlledProofs` | theorems about them and about the boundary they pass first, for every instance |
| `PaperBoundary`, `MCPaperBoundary` | the preflight and the market window |
| `VectorLedger` | abstract: the vectorised backtest of one fold |
| `EventReplay` | the replay of one window, bar by bar |
| `WalkForward` | the study: folds, boundaries, windows, aggregation; extends `EventReplay` |
| `NextOpenExecution` | the causal accounts, vectorised and sequential |
| `NextOpenStudy` | the signals of a fold, executed at the next open |
| `PositionMachines` | the strategies with a memory |
| `BarSampling` | tick, volume, dollar and time bars |
| `Sorting` | the stable sorts of pandas, by the place each element takes |
| `Publication` | the six kinds of bundle writer |
| `DatasetStore` | store, download runs, combined dataset, studies |
| `EvidenceChain` | experiments that compare with published bundles |
| `StudyProofs` | theorems about replay, folds, position machines, next-open accounts and bars, for every instance |
| `EvidenceProofs` | theorems about writers, store and experiments, for every instance |
| `MCWalkForward`, `MCEvidence`, `MCResearch` | the research side, composed for TLC |

Definitions whose comment starts with *Faulty* are wrong variants of the definition that
follows them (a dropped guard, an off-by-one).  No specification uses them; substituting
one for its original makes the property it is paired with in `PROJECT.json` fail.

### OrderState

`orders` is `_states` (an "absent" record stands for an unknown client), `book` their
insertion order, `seen` the fingerprints, `ledger` the applied rows of the audit trail,
`timeoutKeys` the keys of the diagnostics and `globalRecovery` the flag for messages about
unknown orders.  One action per outcome of each method: `RegisterNewIntent`,
`RepeatIntent`, `ConflictingIntent`; `ApplyUpdate`, `RejectUpdate`, `IgnoreDuplicate`,
`ConflictingEvent`; `RecordInvalidEvent` and its two duplicates; `CheckTimeouts`.
`LegalTransitions` is the table of the source, entry by entry.  `_validate_update` is one
predicate, `Valid`: its twenty refusals all end in `_reject`, which does the same whatever
the reason, so the order among them does not matter and the reason codes are dropped.
The rows of refused and ignored messages are dropped as well: they hold nothing that
`seen` and the flag do not hold.  `received_at` is an argument of the delivery and not
part of the message, because the fingerprint does not contain it.

`CheckTimeouts` is the whole loop.  It visits the orders in insertion order and *raises*
at the first one whose reference time is later than `as_of`, so exactly the orders before
that one are flagged (`Reached`, `Blocks`).

### Campaign and RoundTrips

A scheduler process goes `idle -> (create) -> wait -> running -> idle | finished | dead`.
`Wake` samples the time (`seenAt`) and looks for the state file, `CreateLedger` writes it,
`TakeLock`/`LockBusy` is the non-blocking `flock`.  The holder's local variables are one
record, `job`; `job.step` is the program counter.  The steps are the places where the
code reads or writes the ledger, the bundles or the broker: reading the open orders,
reading the position and reading the order history are separate steps, and the
two rounds of gates run them twice.  `BeginSlotAttempt` is `before_entry_submit`, the
ledger write that arms recovery before the first broker mutation.  `SubmitEntry`,
`ReceiveResponse`, `PollOrder`, `CancelOrder`, `EndLeg` and `SubmitFlatten` are the two
legs; `ClosingOpenOrders` and `ClosingPosition` the shutdown reads;
`WriteSlotArtifacts` and `FinalizeSlotState` the two writes that close a slot.

Failures.  `RaiseAsWritten` collects the steps at which the code itself raises.
`CrashHolder` is any other failure of the lock holder, from a broker call that throws to a
machine that goes down: no handler catches an exception of a slot attempt, so both release
the lock and leave the files as they are.  `Restart` starts the script again.

The broker is modelled from its use (it is a service): an order is `sent`, then `open`,
`done` or `lost`; it fills one lot at a time; it ends when the broker says so, cancelled or
not.  `sent` orders may arrive after the process that sent them is gone.  `position` moves
with every fill, so a shutdown that reads the orders and then the position sees two
different instants.

Abstractions.  `clock` is `2s-1` inside the 60-second window of slot `s` and `2s` after it
(windows do not overlap, so nothing finer is compared).  Quotes, preflight, market hours,
hashes and the remaining gates are one free Boolean, `othersPass`: they may fail
at any time and no property relies on their passing.  Decimal quantities are counted in
lots.  `state_revision`, time stamps, the profit, and the flag
`flatten_submission_occurred` (true exactly when the entry filled) are left out.  An
atomic file replacement is one step; a stage directory left behind by a crash is
never read.  `initialize_live_campaign` also validates the state before the lock is
taken; the model validates it under the lock, where the same check is repeated.

`RoundTrips` is the promise without the mechanism: a slot is `waiting`, `open` or
`closed`; an attempt opens only when none is open; only an open attempt is exposed; it is
closed only when nothing of it is left in the market.  `KeepsPromise` is `RoundTrips!Spec`
under the mapping from ledger rows and broker orders to these three variables.

### StreamMonitor

The variables are the fields of `StreamHealthMonitor` plus `checked`, a history variable
(the latest instant evaluated since the last new message) that lets a property speak about
checks that found nothing.  Calls that raise or return early without a change are not
enabled.  `audit` keeps the last `AuditDepth` rows.  Every call chooses its own instant,
because the code accepts any.

### Reconciliation, and the gate

`reconcile_snapshot` is a function, so the module is operators: one per group of
diagnostics (`UnknownFills`, order mismatches, positions, cash, staleness, limits), each the
set of reasons that hold; the function passes when the union is empty.  Prices match within
`PriceTolerance`, as in `_price_matches`, and a price of 0 stands for none; the weighted
average of the fills is compared without dividing, both sides multiplied by the shares.
`IsSnapshot` is what the constructors of the input demand.  `OperationalGate` composes the
function with the monitor where the code does, in `evaluate_operational_gate`:
`GateOpensOnlyOnAgreement` compares the gate with `BooksAgree`, which is written from the
orders alone and knows nothing of fill lists.  Because prices only agree up to a tolerance,
so does the cash they explain: `PriceSlack` is what that tolerance amounts to over all the
shares filled.

### CampaignAudit

Adds a reader to `Campaign`: `audit_live_campaign` and `load_reconciled_execution_records`.
They take no lock and read the ledger three times, so each reading is a step.  Bundles
never change, hence all files of a bundle are one step.  `quoted` says which flattens had
a fresh quote (an entry always has one, it is a gate); `orphans` and `reader.watched` are
history.

### ControlledExecution

A session is a record of local variables per runner; its steps are the calls to the broker
in their order: three startup reads, the entry, its polls, the cancel and its polls, the
flatten and its polls, two shutdown reads, the bundle.  There is no lock and no ledger, so
runners interleave freely; orders are indexed by the signal, from which the client order ids
are made, and a second session of the same signal is refused by the broker.  `Raise` are the
calls the account or the disk must refuse, `Fail` any other exception or a crash, in which a
submission may be lost or may have gone out.  A Day 22 leg trades in the same steps, so a
second runner also stands for a campaign on the same account.  The paper preflight is a
free choice here: `PaperBoundary` looks at it alone, and the repository's own tests also
replace it.

### PaperBoundary

The calls of a preflight in their order, each of which may raise, and the session's second
reading of the clock.  The broker's clock is external; both of its shapes are those of the
repository's fixtures.  `follows` says whether a session comes after the preflight or Day 18
ends with it.  `troubles` is history: the calls whose answer was not a good one.

### VectorLedger, EventReplay and WalkForward

`EventReplay` is one iteration per bar of the replay loop: the due order is filled, the bar
accounted for, the signal recorded, the next order submitted.  Every check the code makes of
its own state leads to a phase of its own (`timing`, `state`, `boundaries`, `evidence`,
`ruin`).  Equity after *n* bars is an exact multiple of `1/Scale^n`.  `WalkForward` cuts the
folds out of a calendar, maps calendar edges to bars, resolves the window, and joins the
rows.  `VectorLedger` knows no orders: a row's position is the signal of the row before.
`ReplaysTheReference` is `VectorLedger!Spec` under the mapping of ledger rows.

### NextOpenExecution, PositionMachines and BarSampling

`NextOpenRows` is the vectorised next-open account, `SequentialRows` the sequential replay
with which the study compares it.  A row names the two prices its return is made of instead
of the return, so that looking ahead would be visible.  `PositionMachines` are three
strategies bar by bar; a bar has the band its score lies in, chosen freely.  Their lagged
account books the liquidation at a close one bar later than the next-open account, and
loses it where a test window begins: `AccountsAgree` says so exactly.
`BarSampling` forms the bars of a set of trades in every kind, from trades in any order of
arrival; the indices of the trades stand for the trades.

### Publication, DatasetStore and EvidenceChain

`Publication` has one action per step of the writers and the `protocol` says which steps a
writer has: `sweep` (clean up in `finally`), `unstage` and `restore` (clean up in `except`),
`once`, `inplace`, `filewise`.  Any rename or removal may fail (`MaxFaults`), a process may be
killed (`MaxCrashes`) or interrupted from the keyboard (`MaxInterrupts`: a `KeyboardInterrupt`
passes `except Exception` and runs `finally`), and two calls may run at once.

`DatasetStore` follows the write of a dataset file by file, because the temporary names are
shared: opening truncates, closing completes whatever the file is called by then.  Contents
are the retrievals they come from, hashes are contents.  A run may be started for any months
(`SelectionAssumption`), by default for all of them, and nothing in the code keeps two runs
from writing the same month at the same time; that they do not is the predicate
`OneRunPerMonth`, the hypothesis under which `StudyEvaluatesTheMonths` is checked and proved.
`EnsureMonth` and `TryBuildCombined` read all the files they compare in one step, which is
exact while the months they find stand.

`EvidenceChain` is the scripts of days 28, 29 and 31 as sequences of reads.  Day 29 takes its
hashes before it loads, days 28 and 31 after; the tables of the latter two may therefore be
older than the snapshot that their bundle names, although `day28_ou_causal_timing.py:532`
says "unchanged since it was loaded".  `ReturnedEvidenceIsTrue` claims what holds for each.
A failed verification after the rename leaves the bundle published; the property speaks
of runs that returned.

`MCResearch` puts the components of the research side next to each other.  They share no
variable, so a behaviour exercises one of them while the others rest in a fixed state.

## 3. What TLC checks

| Run | Instance | Distinct states | Shows |
|---|---|---|---|
| `orders` | 2 orders, 3 events in 14 contradictory versions, 3 instants | 160 267 | `TypeOK`, `NoSilentLoss`, `AppliedAtMostOnce`, `LedgerExplainsOrder`, `FillMatchesStatus`, `TerminalFrozen`, `OverdueIsFlagged` |
| `campaign_schedulers` | 2 processes, 2 slots, 2 lots, 1 poll, crashes, one process activates | 488 644 | `ExposureIsLatched`, `LedgerTellsTheTruth`, `FlattenWithinFill`, `LatchHolds`, `ConsumedOnce`, `TradedInTurn`, `KeepsPromise` |
| `campaign_watch` | 1 process that activates, 2 slots, 2 lots, a reader, fairness | 560 488 | `LoadedIsTrue`, `RefusedForAReason`, `WatcherResolves` |
| `stream` | 2 events, 6 instants, backoff 1, 1, 2; every small reconciliation | 994 230 | `ReasonsExplainState`, `CheckedGateIsFresh`, `CircuitAfterFullBackoff`, `AuditReplays`, `GateOpensOnlyOnAgreement`, `TerminalIsLatched` |
| `controlled` | 2 runners, 2 sessions, a long and a short signal, 2 lots, 1 poll, fairness | 111 671 | `FlattenWithinFill`, `ReconciledIsTrue`, `SessionEnds` |
| `research` | see below | 465 489 | `OnlyRuinStops`, `EveryOrderFillsOnce`, `FoldsTileTheTestYears`, `ReplaysTheReference`, `NextOpenTradesAddUp`, `HeldWithinHorizon`, `AccountsAgree`, `LongOnlyWhenConfirmed`, `BarsPartitionTheTrades`, `StudyEvaluatesTheMonths`, `SurvivesFailures`, `PublishedIsWhole`, `WriteOnceStands`, `ReturnedEvidenceIsTrue` |
| `campaign_activation` | 2 processes, no state file | violation | finding 1 |
| `campaign_skip_retry` | 1 process, 1 slot | violation | finding 2 |
| `controlled_residual` | 1 session | violation | finding 3 |
| `evidence_interrupt` | 1 writer, 1 interrupt | violation | finding 4 |
| `open_market` | 2 market sessions | violation | finding 5 |
| `store_race` | 2 download runs of all months | violation | finding 6 |

Why the bounds are enough.  *Orders*: an order is affected by another one only through the
shared event ids, the global flag and the timeout loop, for which two orders suffice;
the versions of each event differ in exactly one respect per validation rule, and the
instants 1, 3, 5 lie on both sides of every threshold.  *Campaign*: two processes are what a
lock is about; two lots allow a partial fill; one poll per phase already gives a leg that
ends by status, by cancellation and with neither; two slots are one that latches or
completes and one that meets what it left.  The two caps (ten entries, two per session) can
never bind, because a slot is consumed once and a session has two slots; they are modelled
and hold for that reason.  The action constraint of `MCCampaign.cfg` (`ActivatedByOne`)
keeps a scheduler from looking for the state file while another one is about to write it,
which is finding 1; it is the hypothesis of the theorems as well (section 5).  *Stream*: six
instants fit a full reconnect with its backoffs, a message and a second reconnect; the
reconciliations are every list of up to two of five fills, repeated and contradictory ones among
them, at two prices that differ by the tolerance, with books of up to two orders. *Controlled*: a
second session may retry the first one's signal, meet its orders or its bundle, or run beside it.
*Research*: two test years after a training year in calendars with an early close, a missing day and
sessions at the edges of a year; windows of up to three bars with every signal and three returns,
one of which ruins; five bars of the strategies with holding limit and confirmation two, over
sessions shorter and longer than the limit; four trades at three instants in sizes below, at and
above a threshold; two download runs of all of two months, with a kill and a rerun, and one study;
two calls of each kind of writer with two failing renames or removals, one kill and one interrupt;
three versions of two bundles under three experiments.  The action constraint of `MCResearch.cfg`
(`OneRunPerMonthNext`) keeps two runs from writing the same month at the same time, which is finding
6, and is the hypothesis of the theorem as well; the combined dataset they may build together.
Runs, months and writers are interchangeable, so the run uses their symmetry.

Deadlock is checked for the campaign, with and without the reader.  It is not checked for
the passive components (a settled order machine or a killed monitor changes no more), nor
where the system simply ends: a session is over, a study is done, a writer returned.

Fairness.  `FairSpec` of the campaign (`AuditFairSpec`, used by `campaign_watch`): weak
fairness of the lock holder's steps, of each process's own steps, of the clock and of the
arrival of requests (each may end as lost).  A process that is up runs, because nothing in
the code waits without a bound: the lock does not block, polls are counted, sleeps are
finite.  Nobody is obliged to crash, to restart, to fill or to end an order, and no reader
to read.  `WatcherResolves` therefore also holds when an order is never filled.
`ControlledExecution`: weak fairness of each runner's own step, which includes raising where
the broker must refuse, but neither of failures nor of anything the broker does:
`SessionEnds` holds though no order ever ends.

## 4. Findings

1. `campaign_activation`: `initialize_live_campaign` looks for the state file and writes it
   outside `campaign_lock`.  A scheduler that looked before the file existed may write the
   initial ledger over the one of a running attempt.  The specification promises that an
   unresolved order latches recovery
   (`docs/DAY22_EXECUTION_LIVE_PERFORMANCE_SPECIFICATION.md:167-168`).  Where
   no scheduler looks while another is about to write, `ExposureIsLatched` holds
   (`campaign_schedulers`, and `ExposureLatched` for every instance).
2. `campaign_skip_retry`: a crash between the bundle of a skip and the ledger leaves the
   slot scheduled.  A process started again within the window may submit an entry for a slot
   whose immutable bundle says that it was skipped; its own bundle is then refused, so the
   attempt ends latched and without evidence (same document, lines 164-165).
3. `controlled_residual`: the Day 21 session catches nothing and writes its bundle only after
   it returns, so a call that raises after the entry (the cancel of an order that has just
   filled, for one) leaves an order or a position that no result records
   (`docs/DAY21_CONTROLLED_PAPER_EXECUTION_SPECIFICATION.md`, section 6: residual exposure
   "is recorded").
4. `evidence_interrupt`: the writers of days 17 to 20 roll back in `except Exception` and
   remove the backup in `finally`.  A keyboard interrupt between the two renames skips the
   first and runs the second: neither bundle is left (`broker/day19_report.py:394`:
   "atomic replacement and rollback").
5. `open_market`: the boundary refuses a clock whose next opening is not before its next
   closing.  In an open market the next closing always comes first, so every session ends
   in an exception.  The tests stub the adapter above that check.  `NoSessionIsEligible` proves
   it of every market.
6. `store_race`: the store looks for an existing dataset long before it renames the new one
   into place, and nothing locks it in between.  Two ordinary download runs, which select all
   months by default, both find a month absent, retrieve it and pass the check, and the
   second replaces the data the first has published (`data/local_store.py:129`: "Store a
   dataset exactly once").  A study may have evaluated the canonical bars of that month
   by then, so `StudyEvaluatesTheMonths` fails in the same race.

Also seen.  `record_message` checks for a regression of event time before it looks the event
up, so the repetition of any message but the latest raises instead of being ignored
(`tests/broker/test_monitoring.py:53` tests the latest one).  A flatten whose quote is missing
goes on, as specified, and the slot is reconciled, but the leg has no execution record; the
loader (`broker/day22_campaign_report.py:750`) then refuses the whole campaign instead of
leaving that round trip out.  `RefusedForAReason` says that this is the only case in which it
finds records missing.

A fact came out of a proof attempt that failed.  *Two failures in one call of a writer with
a `finally` clause* (days 17 to 20) can leave no bundle at all: the rename of the new bundle
fails, the rename that should move the old one back fails too, and the clause then removes
the backup.  `SurvivesFailures` excepts a failed return of the backup for that reason, and TLC
checks it with two failures.  The combined dataset is exposed to the race of finding 6 as
well, since any run may build it; what protects a study there is only that all runs
combine the same months to the same content.

## 5. What is proved

`OrderStateProofs` proves, for every set of clients, events, messages, prices and instants
and every timeout, from `ConstantsAssumption` alone (intents and messages are well-formed,
thresholds are natural numbers, `None` is no price and no broker id):

| Theorem | Statement | Inductive invariant |
|---|---|---|
| `TypeCorrect` | `Spec => []TypeOK` | `TypeOK` |
| `SilentLossFree` | `Spec => []NoSilentLoss` | `SilentLossInv`: and the record of an unknown client is blank |
| `BookedOnce` | `Spec => []AppliedAtMostOnce` | `OnceInv`: and every booked event has been retained |
| `LedgerSound` | `Spec => []LedgerExplainsOrder` | itself, over `TypeOK` |
| `FillsSound` | `Spec => []FillMatchesStatus` | itself, over `TypeOK` |
| `WhatIsOverStaysOver` | `Spec => TerminalFrozen` | step property, from `TypeOK` |
| `OverdueFlagged` | `Spec => OverdueIsFlagged` | step property, from `TimeoutInv` |

The argument is the same each time.  `StepKinds` shows that a step registers a new order,
books one validated message, or does nothing but set flags and retain a message that it
flags (`OnlyFlags`); all refusals, repetitions and timeout checks are of the third kind.
Each invariant is then preserved for three reasons, not eleven.  The strengthenings are needed
because `NoSilentLoss` does not by itself say that registering an order overwrites no
recovery flag, and `AppliedAtMostOnce` does not by itself say that an event
new to the machine is new to every trail.  `OverdueIsFlagged` is about one pass of the
timeout loop, which skips an order whose key it has reported before: `TimeoutInv` says that
such an order carries its flag already (`KeysAreFlagged`) and that the loop visits every
order that is known (`KnownAreBooked`).  The property covers the checks that raise as well:
what the loop had come to by then is flagged, and the keys it leaves behind hide no order
from a later check.  It does not say that the others are examined, which the code leaves to
a later call.

The campaign is proved for every set of scheduler processes, every number of slots, lots
and polls and every pair of caps, from `CampaignAssumption` (there is a slot and a lot, and
`Nobody` is no process).  All theorems but the first have one more hypothesis,
`[]OneActivates`: no two schedulers are about to write the initial state at the same time.
Without it `ExposureIsLatched` is false, which is what the run `campaign_activation` shows.
Two lemmas say when it holds: in a directory that was initialised beforehand
(`InitialisedBefore`: `Activated /\ Spec => []OneActivates`), and for one scheduler alone,
whatever it finds (`OneScheduler`).  So any number of schedulers is covered as long as their
first starts do not coincide.

The invariant is therefore `BeforeActivation \/ SafeInv`.  Before there is a ledger nobody
can take the lock and nothing has been sent (`Activating`); the write of the initial state
leads to `JustActivated`, in which nobody else is about to write, and from there on `SafeInv`
holds.

| Module | Theorem | Statement | Inductive invariant |
|---|---|---|---|
| `CampaignProofs` | `TypeCorrect` | `Spec => []TypeOK` | `TypeInv` |
| `CampaignProofs` | `ExposureLatched` | `Spec /\ []OneActivates => []ExposureIsLatched` | `SafeInv` |
| `CampaignProofs` | `FlattenBounded` | `Spec /\ []OneActivates => []FlattenWithinFill` | `SafeInv` |
| `CampaignProofs` | `LatchHeld` | `Spec /\ []OneActivates => LatchHolds` | step property, from `SafeInv` |
| `CampaignProofs` | `SlotConsumedOnce` | `Spec /\ []OneActivates => ConsumedOnce` | step property, from `SafeInv` |
| `CampaignProofs` | `EntriesInTurn` | `Spec /\ []OneActivates => TradedInTurn` | step property, from `SafeInv` and `InTurn` |
| `CampaignTruth` | `LedgerTruthful` | `Spec /\ []OneActivates => []LedgerTellsTheTruth` | `TruthInv` |
| `CampaignTruth` | `LoadedTruthful` | `AuditSpec /\ []OneActivates => []LoadedIsTrue` | `AuditInv` |
| `CampaignTruth` | `RefusalsExplained` | `AuditSpec /\ []OneActivates => []RefusedForAReason` | `AuditInv` |
| `CampaignProofs` | `CampaignKeepsPromise` | `Spec /\ []OneActivates => KeepsPromise` | `SafeInv` |

`TypeInv` adds to `TypeOK` that an order that may still fill is not full (`OrderShape`),
that a holder within an attempt has a slot (`JobShape`), and that without a state file
nobody has come as far as the lock (`NobodyIsAhead`).

`SafeInv` is needed because `ExposureIsLatched` says nothing of what the lock
holder is about to do.  The decisive step is the ledger write that ends an attempt: it may
clear the latch only if no slot is at risk, and the holder knows this only from two reads
made at different instants.  So the invariant carries what the reads mean: at most one slot
is at risk, and the account's position is then exactly the net fill of that slot
(`OneAtRisk`, `PositionKnown`); while an attempt runs no other slot is at risk
(`DuringTheAttempt`); no leg of the slot is in flight once its answer has arrived, so "no
open orders" means that nothing can fill any more (`BetweenTheLegs`), and a position of
zero read after that means that the legs balance (`AfterTheAttempt`).  On the ledger's side
at most one slot is unsettled, and the latch is set while it is (`OneUnsettled`), which is
why the early return on a latched ledger is enough to keep attempts apart.

`InTurn` carries the sampled time from the watch loop to the entry: what had passed by then
was marked before a slot was chosen, the holder's sample does not change while it holds the
lock, and no slot is ever scheduled again, so no slot before the one in hand is left.

`TruthInv` adds the figures: no order is filled beyond its quantity, and the entry fill the
holder records lies between what the flatten trades and what the entry has filled
(`ResultIsBetween`).  A reconciled result with equal fills closes this chain of
inequalities, so all of them are equal.

`AuditInv` adds to `TruthInv` what the reader of the directory holds in its hands.  Every
bundle is referenced by the ledger, is about to be, or was left by an attempt that died
between its two writes (`Accounted`, with the history `orphans`); a completed row has a bundle
and a filled entry (`CompletedHasTraded`); and a reader that no scheduler has disturbed
expects exactly the bundles the ledger refers to, while the records it has accepted are those of
completed slots, whatever happened since, and a loader that found records missing met a
completed slot without a flatten quote (`ReaderShape`, `ReaderKnows`, `Unquoted`).  Before
there is a ledger the reader finds none and expects nothing (`Unread`).

The refinement maps every write of the ledger to opening, settling or forgoing an
attempt, every submission and broker step to entering or trading, and all reads, and the
write of the initial state, to stutters.  The first part of `CampaignProofs` holds what each step
makes of the record `job`; its operators name the updates, so that no proof has to look into them.

The stream monitor is proved for every set of instants and messages, every list of backoffs
and every depth of the trail, from `MonitorAssumption` (instants and thresholds are natural
numbers, the list of backoffs is not empty, as its constructor demands):

| Theorem of `StreamMonitorProofs` | Statement | Inductive invariant |
|---|---|---|
| `TypeCorrect` | `Spec => []TypeOK` | `TypeInv`: and the failures counted never exceed the backoffs (`AttemptsLeft`) |
| `ReasonsSound` | `Spec => []ReasonsExplainState` | `ReasonsFollow` |
| `GateFresh` | `Spec => []CheckedGateIsFresh` | `HealthIsRecent` |
| `LatchesHold` | `Spec => TerminalIsLatched` | step property, from `TypeInv` |
| `CircuitSound` | `Spec => []CircuitAfterFullBackoff` | `TrailInv` |
| `TrailReplays` | `Spec => []AuditReplays` | `TrailInv` |
| `GateAgrees` | `Spec => []GateOpensOnlyOnAgreement` | none: it is a fact about every snapshot |

`TrailInv` is needed for two of them together: what the retained rows of the trail say of
the failures since the last reconnect is the failure count (`ReconnectTrail`), and only
then does an open circuit follow a complete list of failures, each after its backoff.

`GateAgrees` adds `SnapshotAssumption` (the snapshots are well-formed, order books and fills
finite, amounts whole numbers) and `ReconciliationAssumption` (the tolerances are natural
numbers).  A snapshot without a reason has only fills of local orders, on their side and in
their symbol, whose totals are what the orders hold (`FillsBelong`).  A sum over the fills
is then the sum of those totals over the orders (`SignedByOwner`, from the lemmas on grouped
sums in `FoldLemmas`), for the shares in each symbol (`FlowExplained`) and for the value they traded at
(`FillsValue`).  The shares are exactly what the orders explain.  The value of an order's fills
is within the price tolerance of its own price for every share (`ValueWithin`), and these
inequalities, summed over the orders, bound the cash (`CashExplained`).

Day 21 is proved for every set of runners, every finite set of signals and every number of
lots, polls and sessions (`ControlledAssumption`):

| Theorem of `ControlledProofs` | Statement | Inductive invariant |
|---|---|---|
| `ControlledTypes` | `Spec => []TypeOK` | `FillInv` |
| `FlattenIsBounded` | `Spec => []FlattenWithinFill` | `FillInv`: and polls are left (`PollsLeft`), what a session has seen of an order is at most what it has filled (`SeenIsFilled`) |
| `ReconciledHolds` | `Spec => ReconciledIsTrue` | step property, from `FillInv` and `OneOwner` |
| `NoSessionIsEligible` | `RegularMarket`: `PreflightSpec => [](outcome # "eligible")` | itself, and the bound of the instants |

`OneOwner` says that a signal's orders belong to one session, because the broker refuses its
client order ids to any other; the sum of the positions is then that of the one signal a
lone session has traded (`PositionOfOne`).

`RegularMarket` says that the sessions of the market follow each other, that one begins after
the last instant considered, and that no symbol is called like the reading of the clock.  At
an instant within a session the next closing is at most that session's, which is not after
the next opening (`FollowingIsLeast`, `OpenClockRefused`); so the reading that could find the
window open is the one that raises.  The converse, that a Day 18 preflight can pass while the
market is closed, is reachable in the instance of `open_market`.

The research side, from `MachineAssumption` (a plan is a sequence of sessions, the limits
are positive), `ReplayAssumption` (no return loses everything), `WalkForwardAssumption` and
`CalendarAssumption` (every test year has a session, which `_validate_complete_coverage` of
`analysis/trend_family_walk_forward.py` checks before the folds are built) and
`SamplingAssumption` (sizes, the width of a bucket and the target are positive):

| Theorem of `StudyProofs` | Statement | Inductive invariant |
|---|---|---|
| `HeldToTheHorizon` | `MachineSpec => []HeldWithinHorizon` | `MachineInv` |
| `LongWhenConfirmed` | `MachineSpec => []LongOnlyWhenConfirmed` | `MachineInv` |
| `AccountsAgreed` | `MachineSpec => []AccountsAgree` | `MachineInv` |
| `OrdersFilledOnce` | `Spec => []EveryOrderFillsOnce` | `ReplayInv` |
| `ReplayImplementsReference` | `Spec => ReplaysTheReference` | `ReplayInv` |
| `OnlyRuinStopsTheStudy` | `Spec => []OnlyRuinStops` | `ReplayInv /\ EvidenceInv` |
| `FoldsTile` | `Spec => []FoldsTileTheTestYears` | `TileInv`, with the two above |
| `NextOpenAddsUp` | `Spec => []NextOpenTradesAddUp` | `SignalsKept`, with the two above |
| `BarsPartition` | `SamplingSpec => []BarsPartitionTheTrades` | `SamplingTypes` |

`MachineInv` says where a position comes from: the bar it was entered at and the bars since,
none of which should have ended it, as many as the machine has counted (`Horizon`,
`NoneMissed`), or the run of bars that confirmed it (`Counted`).  `ReplayInv`
relates the loop to its log: the state carried is that of the last row (`StateCarries`), the
event log has each order once, submitted and then filled (`LoggedOnce`), and a pending order
is exactly the change between the last two signals (`OrdersMatch`).  That is the refinement:
the position a row accounts for is the signal of the row before, so each iteration of the
loop is one row of `VectorLedger`, and everything else of the study is a stutter or the
start of a new window.  `EvidenceInv` adds the rest of what the code checks of itself: the
ledger's rows are chained and start flat, the edges of a fold lie on its calendar
(`FoldInv`); hence none of those checks ever stops a study, only ruin does.

`TileInv` says that what the finished folds have replayed is the rising list of the bars of
their test years, so that the next fold continues it.  `SignalsKept` says that a row has a
signal only where one was available; then each row of the vectorised next-open account can
be compared with the state of the sequential one before and after the bar.  The bars of a
frame come out of a fold over its trades, sorted first: a sort is described by the place it
gives each element, and `Placed` shows that each place is taken once.  Of the fold the proof
keeps `Cut`: the bars made so far and the one being filled are consecutive pieces of the
sorted trades, each begun where the one before it ended and ended by its own rule.  Induction
over the trades takes the form of a statement about a set of numbers (`CountedUp`).

The evidence is proved for every number of writers, downloads, studies, months,
experiments, bundles, versions, failures, kills and interrupts, from `PublicationAssumption`,
`SelectionAssumption` (each run selects some of the months) and `ChainAssumption` (bundles and
experiments have different names, what an experiment needs is a bundle):

| Theorem of `EvidenceProofs` | Statement | Inductive invariant |
|---|---|---|
| `WholeOnceNamed` | `PublicationSpec => []PublishedIsWhole` | `PublicationInv` |
| `ReplacementSurvives` | `PublicationSpec => []SurvivesFailures` | `PublicationInv` |
| `WrittenOnce` | `PublicationSpec => WriteOnceStands` | step property, from `PublicationInv` |
| `StudiedInFull` | `StoreSpec /\ []OneRunPerMonth => []StudyEvaluatesTheMonths` | `StoreInv` |
| `OneWriterStoresOnce` | `StoreSpec /\ []OneWriter(d) => [][data[d] # None => data'[d] = data[d]]_storeVars` | `Shapes` and `NoneBefore(d)` |
| `SerialWritersStoreOnce` | `StoreSpec /\ [](\A d \in Datasets : OneWriter(d)) => StoredOnce` | `Shapes` and `NoneBefore(d)` |
| `ReturnedIsTrue` | `ChainSpec => []ReturnedEvidenceIsTrue` | `ChainInv` |

`PublicationInv` follows a bundle through a call: what is staged is the writer's own
(`Staged`, `FilledByOne`), what is set aside or published is whole (`WholeBundles`), and a
bundle that was there is under its name, set aside by one writer that is at a step which
puts it back, or lost in one of the ways the property names (`Survives`).  `StoreInv` rests
on each month having one writer at a time (`MonthWriters`, from the hypothesis), so that a
manifest stands for one retrieval (`MonthsSound`), and on the combined dataset being a
function of the months (`CombinedSound`): two runs that build it write the same bytes.  The
hypothesis is not a property of the code (finding 6); it holds, for one, when a run
is started only after the one before it has ended.  Without
it `StudyEvaluatesTheMonths` is false.  The last two theorems of the store say how far its
own check goes: a dataset that never has two writers at once is stored once
(`NoneBefore`: between the check and the rename nothing is there), so simultaneous writers are
the only way to the replacement that `store_race` shows.
`ChainInv` says of each experiment what its reads so far have established: nothing it holds is
newer than the versions there were (`SeenInTime`), what it verified after publishing had not
changed (`VerifiedAfter`), and, where hashes come first, that what it recorded is what the
manifest declared and what it loaded is no older (`RecordedAsDeclared`, `LoadedAfter`).

TLC checked the larger inductive invariants first: `SafeInv` and
`TruthInv` on the instance of `campaign_schedulers`; `AuditInv` on two instances of the reader
(108 721 and 177 196 states); `TimeoutInv`, `TypeInv` and `TrailInv`, `FillInv` and `OneOwner`
on those of `orders`, `stream` and `controlled`; `MachineInv` (552 664 states), `ReplayInv` and
`EvidenceInv` (5 170), `PublicationInv` (2 428 471, with two failures) and `StoreInv`
(573 597, two runs with different months) on parts of `research`; `ChainInv` on the experiments of
day 28 and day 29 alone, completely, and on 44 000 states of all three.

Model-checked only: `WatcherResolves` and `SessionEnds`, which need fairness, and the six
findings, which are counterexamples.  Every safety property and every step property of a
passing run is the statement of a theorem.  Liveness under fairness and ENABLED are out of
the prover's reach, and so are the library's induction theorems.  Where a proof needs a fold
or a recursive function for every input (the position of an account, the flattening of a
list of lists, the sum over the fills of a snapshot, the rows of a session, the bars of a
frame) it takes the least input for which the claim fails, a number or a subset
(`LeastSubset`), and derives a contradiction.
No module that is proved about declares a RECURSIVE operator.

## 6. What is not modelled

The map covers about a twelfth of the implementation's lines.  Most of the rest has no
state and no order of events that a model checker could explore: the reports of days 11 to
31 render tables and charts, and the studies compute indicators, regressions, bootstraps
and allocations in floating point over data frames.  A model of them would either repeat the
arithmetic, which TLC cannot evaluate, or leave it out, and then nothing is left.

* Statistics, indicators, portfolio construction, report rendering: as above.  Of the trend
  family the replay is modelled, not the signals; of the strategies the position machines,
  not the scores; `ema_macd.py` has no memory beyond its averages.
* Providers, configuration, plotting, schemas and validators: input and output, or checks of
  the columns of one frame.  `session_aggregation.py` groups bars by session and is as pure.
* Frozen scenarios: fixed inputs of modelled components.
* Operations: `runtime_validation.py` checks that files and logs are there,
  `run_scheduled_job.py` maps a job name to a command.  Neither keeps state.
* `allow_overwrite` of the local store, which no caller sets.
* The read-only preflight mode of the Day 22 script: it takes the lock and reads; a watcher
  that meets the lock held by it dies exactly as in `LockBusy`.
* `watch_campaign` initialises the directory once more before its loop; the first pass of
  the modelled loop does the same.

## 7. Plan

What this plan asked for first is proved: the gate, the folds, the next-open accounts, the
bars, and the campaign that initialises its directory itself.  What is left, in this order:

1. Two schedulers that do initialise the directory at once: what still holds then (no
   flatten beyond its entry's fill, for one) has not been stated.
2. The tables of days 28 and 31, which are loaded before their hashes: a run in which a
   bundle replaced in between is shown to slip through (section 2, EvidenceChain).
3. What a study may read when two runs write the same month, beyond the example of finding 6.
