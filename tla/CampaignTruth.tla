----------------------------- MODULE CampaignTruth -----------------------------
(***************************************************************************)
(* What the ledger of Campaign says of a finished slot is what its bundle  *)
(* says and what the broker executed, for every number of slots, scheduler *)
(* processes, lots and polls: the proof of Campaign!LedgerTellsTheTruth.   *)
(* So the reader of CampaignAudit, who trusts the ledger, returns round    *)
(* trips that took place, and refuses the directory only for a reason.     *)
(***************************************************************************)
EXTENDS CampaignProofs, CampaignAudit

\* No order is filled beyond its quantity.
WithinQuantity ==
  \A s \in Slots, leg \in Legs : orders[s][leg].filled <= orders[s][leg].quantity

\* The slot in the gates is still scheduled.
GatedIsScheduled ==
  job.step \in {"open", "position", "history", "begin"} => Scheduled(Slot)

\* The entry fill of the result lies between what the flatten trades and what
\* the entry has filled, and it stays there while both move.
ResultIsBetween ==
  job.step \in {"await", "poll", "flatten", "closingOpen", "closingPosition"} =>
    /\ orders[Slot]["exit"].quantity <= job.result.entry
    /\ job.result.entry <= orders[Slot]["entry"].filled

\* Nothing counts as an entry fill while the entry is polled.
EntryUncounted ==
  job.step \in {"await", "poll"} /\ job.leg = "entry" => job.result.entry = 0

\* A reconciled result is what the broker executed, ...
ResultIsTrue ==
  job.step \in {"store", "finalize"} /\ job.result.reconciled =>
    /\ job.result.entry = orders[Slot]["entry"].filled
    /\ job.result.exit = orders[Slot]["exit"].filled

\* ... and the bundle holds it when the ledger comes to refer to it.
BundleIsResult == job.step = "finalize" => bundles[Slot] = job.result

RowIsTrue(s) ==
  LET row == ledger.rows[s] IN
  row.referenced =>
    /\ row.status \notin {"authorized_scheduled", "in_progress"}
    /\ bundles[s] \in Result
    /\ <<row.submitted, row.entry, row.exit>>
         = <<bundles[s].submitted, bundles[s].entry, bundles[s].exit>>
    /\ row.status # "manual_recovery_required" =>
         /\ row.entry = orders[s]["entry"].filled
         /\ row.exit = orders[s]["exit"].filled
         /\ ~AtRisk(s)

FilesTrue == WithinQuantity /\ \A s \in Slots : RowIsTrue(s)
HolderTrue ==
  /\ GatedIsScheduled /\ EntryUncounted
  /\ ResultIsBetween /\ ResultIsTrue /\ BundleIsResult

TruthInv == SafeInv /\ FilesTrue /\ HolderTrue

\* As long as neither files nor orders change, what the files say stays true.
LEMMA SameFiles ==
  ASSUME FilesTrue, UNCHANGED <<ledger, bundles, orders>>
  PROVE  FilesTrue'
<1>1. WithinQuantity'
  BY DEF FilesTrue, WithinQuantity
<1>2. \A s \in Slots : AtRisk(s)' <=> AtRisk(s)
  BY DEF AtRisk, Live, Balanced
<1>3. \A s \in Slots : RowIsTrue(s)'
  BY <1>2 DEF FilesTrue, RowIsTrue
<1>4. QED
  BY <1>1, <1>3 DEF FilesTrue

\* A holder that is at none of the steps of an attempt has nothing to be true to.
LEMMA NothingKnown ==
  ASSUME job'.step \in {"none", "mark", "select", "submit"}
  PROVE  HolderTrue'
BY DEF HolderTrue, GatedIsScheduled, EntryUncounted, ResultIsBetween, ResultIsTrue,
       BundleIsResult

\* A slot whose entry was never sent has no fills at all.
LEMMA NeverSent ==
  ASSUME SafeInv, FilesTrue, NEW s \in Slots, orders[s]["entry"].state = "none"
  PROVE  orders[s]["entry"].filled = 0 /\ orders[s]["exit"].filled = 0
<1>1. /\ OrderShape /\ FlattenWithinFill /\ WithinQuantity
      /\ orders \in [Slots -> [Legs -> Order]]
  BY DEF SafeInv, TypeInv, TypeOK, MarketSafe, FilesTrue
<1>2. orders[s]["entry"].filled = 0
  BY <1>1 DEF OrderShape, Legs
<1>3. /\ orders[s]["exit"].filled \in Nat /\ orders[s]["exit"].quantity \in Nat
      /\ orders[s]["exit"].filled <= orders[s]["exit"].quantity
      /\ orders[s]["exit"].quantity <= orders[s]["entry"].filled
  BY <1>1, CampaignAssumption DEF WithinQuantity, FlattenWithinFill, Legs, Order
<1>4. QED
  BY <1>2, <1>3

\* The local steps: the result moves with the fills the holder has polled.
LEMMA LocalTrue ==
  ASSUME TruthInv, LocalStep, SafeInv'
  PROVE  FilesTrue' /\ HolderTrue'
<1>1. /\ SafeInv /\ FilesTrue /\ HolderTrue /\ WithinQuantity
      /\ JobShape /\ MarketSafe /\ HolderSafe /\ FlattenWithinFill
      /\ job \in Job /\ orders \in [Slots -> [Legs -> Order]]
  BY DEF TruthInv, FilesTrue, SafeInv, TypeInv, TypeOK, MarketSafe
<1>2. OnlyJob
  BY <1>1, LocalTypes DEF SafeInv
<1>3. FilesTrue'
  BY <1>1, <1>2, SameFiles DEF OnlyJob
<1>4. /\ ledger' = ledger /\ orders' = orders /\ bundles' = bundles
      /\ \A s \in Slots : Status(s)' = Status(s) /\ Scheduled(s)' = Scheduled(s)
  BY <1>2 DEF OnlyJob, Status, Scheduled
<1>5. SUFFICES HolderTrue'
  BY <1>3
<1>6. \A s \in Slots : orders[s]["entry"].state = "none" =>
        orders[s]["entry"].filled = 0 /\ orders[s]["exit"].filled = 0
  BY <1>1, NeverSent
<1>7. Skip.entry = 0 /\ Skip.exit = 0
  BY DEF Skip
<1>8. CASE SelectDueSlot
  <2>1. PICK s \in Slots : Due(s, seenAt[lock]) /\ job' = Selected(job, s, LedgerAllows(s))
    BY <1>1, <1>8, LocalJob
  <2>2. LedgerAllows(s) \in BOOLEAN
    BY DEF LedgerAllows
  <2>3. s \in 0..N
    BY CampaignAssumption DEF Slots
  <2>4. job'.step = "open" /\ job'.slot = s
    BY <1>1, <2>1, <2>2, <2>3, JobSelected
  <2>5. Scheduled(Slot)'
    BY <1>4, <2>1, <2>4 DEF Due, Slot, Scheduled, Status
  <2>6. QED
    BY <2>4, <2>5
    DEF HolderTrue, GatedIsScheduled, EntryUncounted, ResultIsBetween, ResultIsTrue,
        BundleIsResult
<1>9. CASE ReadOpenOrders \/ ReadPosition
  <2>1. job'.step \in {"position", "history"} /\ job'.slot = job.slot
    <3>1. CASE ReadOpenOrders
      <4>1. job' = Read(job, "position", /\ job.clear
                                         /\ OpenOrders = {}
                                         /\ job.round = 1 => InWindow(Slot, clock))
        BY <1>1, <3>1, LocalJob
      <4>2. PICK c \in BOOLEAN : job' = Read(job, "position", c)
        BY <4>1, Zenon
      <4>3. "position" \in Steps
        BY DEF Steps
      <4>4. QED
        BY <1>1, <4>2, <4>3, JobRead
    <3>2. CASE ReadPosition
      <4>1. job' = Read(job, "history", job.clear /\ position = 0)
        BY <1>1, <3>2, LocalJob
      <4>2. PICK c \in BOOLEAN : job' = Read(job, "history", c)
        BY <4>1, Zenon
      <4>3. "history" \in Steps
        BY DEF Steps
      <4>4. QED
        BY <1>1, <4>2, <4>3, JobRead
    <3>3. QED
      BY <1>9, <3>1, <3>2
  <2>2. Scheduled(Slot)
    BY <1>1, <1>9 DEF ReadOpenOrders, ReadPosition, At, HolderTrue, GatedIsScheduled
  <2>3. Scheduled(Slot)'
    BY <1>4, <2>1, <2>2 DEF Slot, Scheduled, Status
  <2>4. QED
    BY <2>1, <2>3
    DEF HolderTrue, GatedIsScheduled, EntryUncounted, ResultIsBetween, ResultIsTrue,
        BundleIsResult
<1>10. CASE ReadHistory
  <2>1. Slot \in Slots /\ Scheduled(Slot)
    BY <1>1, <1>10 DEF ReadHistory, At, JobShape, Slot, HolderTrue, GatedIsScheduled
  <2>2. orders[Slot]["entry"].filled = 0 /\ orders[Slot]["exit"].filled = 0
    BY <1>1, <1>6, <2>1 DEF MarketSafe, ScheduledIsUntouched
  <2>3. /\ job'.slot = job.slot /\ job'.step \in {"store", "open", "begin"}
        /\ job'.step = "store" => job'.result = Skip
    <3>1. job' = Skipped(job) \/ job' = Again(job) \/ job' = Begun(job)
      BY <1>1, <1>10, LocalJob
    <3>2. CASE job' = Skipped(job)
      BY <1>1, <3>2, JobSkipped
    <3>3. CASE job' = Again(job)
      BY <1>1, <3>3, JobAgain
    <3>4. CASE job' = Begun(job)
      BY <1>1, <3>4, JobBegun
    <3>5. QED
      BY <3>1, <3>2, <3>3, <3>4
  <2>4. Scheduled(Slot)'
    BY <1>4, <2>1, <2>3 DEF Slot, Scheduled, Status
  <2>5. ResultIsTrue'
    BY <1>4, <1>7, <2>2, <2>3 DEF ResultIsTrue, Slot
  <2>6. QED
    BY <2>3, <2>4, <2>5
    DEF HolderTrue, GatedIsScheduled, EntryUncounted, ResultIsBetween, BundleIsResult
<1>11. CASE LateForSubmission
  <2>1. Slot \in Slots /\ orders[Slot]["entry"].state = "none"
    BY <1>1, <1>11 DEF LateForSubmission, At, JobShape, Slot, HolderSafe, BetweenTheLegs
  <2>2. job'.step = "store" /\ job'.slot = job.slot /\ job'.result = Skip
    <3>1. job' = Late(job)
      BY <1>1, <1>11, LocalJob
    <3>2. QED
      BY <1>1, <3>1, JobLate
  <2>3. ResultIsTrue'
    BY <1>4, <1>6, <1>7, <2>1, <2>2 DEF ResultIsTrue, Slot
  <2>4. QED
    BY <2>2, <2>3
    DEF HolderTrue, GatedIsScheduled, EntryUncounted, ResultIsBetween, BundleIsResult
<1>12. ASSUME ReceiveResponse \/ PollOrder \/ CancelOrder
       PROVE  HolderTrue'
  <2>1. job.step \in {"await", "poll"}
    BY <1>12 DEF ReceiveResponse, PollOrder, CancelOrder, At
  <2>2. Slot \in Slots /\ job.leg \in Legs
    BY <1>1, <2>1 DEF JobShape, Slot, Job
  <2>3. Snapshot.filled \in 0..Qty /\ Snapshot.over \in BOOLEAN
    BY <1>1, <2>2 DEF Snapshot, CurrentOrder, Order
  <2>4. /\ job'.step = "poll" /\ job'.slot = job.slot /\ job'.leg = job.leg
        /\ job'.result = job.result
    <3>1. CASE ReceiveResponse
      <4>1. job' = Answered(job, Snapshot.filled, Snapshot.over)
        BY <1>1, <3>1, LocalJob
      <4>2. QED
        BY <1>1, <2>3, <4>1, JobAnswered
    <3>2. CASE PollOrder
      <4>1. job' = Polled(job, job.polls + 1, Snapshot.filled, Snapshot.over)
        BY <1>1, <3>2, LocalJob
      <4>2. job.polls + 1 \in 0..MaxPolls
        BY <1>1, <3>2, CampaignAssumption DEF Job, PollOrder
      <4>3. QED
        BY <1>1, <2>3, <3>2, <4>1, <4>2, JobPolled DEF PollOrder, At
    <3>3. CASE CancelOrder
      <4>1. job' = Cancelled(job)
        BY <1>1, <3>3, LocalJob
      <4>2. QED
        BY <1>1, <3>3, <4>1, JobCancelled DEF CancelOrder, At
    <3>4. QED
      BY <1>12, <3>1, <3>2, <3>3
  <2>5. QED
    BY <1>1, <1>4, <2>1, <2>4
    DEF HolderTrue, GatedIsScheduled, EntryUncounted, ResultIsBetween, ResultIsTrue,
        BundleIsResult, Slot
<1>13. CASE EndLeg
  <2>1. /\ job.filled \in 0..Qty /\ job.result \in Result /\ job.step = "poll"
        /\ Slot \in Slots
    BY <1>1, <1>13 DEF Job, EndLeg, At, JobShape, Slot
  <2>2. /\ [job.result EXCEPT !.entry = job.filled] \in Result
        /\ [job.result EXCEPT !.entry = job.filled].entry = job.filled
        /\ [job.result EXCEPT !.exit = job.filled] \in Result
        /\ [job.result EXCEPT !.exit = job.filled].entry = job.result.entry
    BY <2>1 DEF Result
  <2>3. /\ Settled(job) \in Job /\ Settled(job).slot = job.slot
        /\ Settled(job).result = job.result
    BY <1>1, JobSettled
  <2>4. job'.slot = job.slot /\
          \/ /\ job'.step = "flatten" /\ job.leg = "entry"
             /\ job'.result.entry = job.filled
          \/ job'.step = "closingOpen" /\ job'.result.entry = job.result.entry
    <3>1. CASE /\ job.leg = "entry"
               /\ job' = Flattening(Settled(job), [job.result EXCEPT !.entry = job.filled])
      <4>1. /\ job'.slot = job.slot /\ job'.step = "flatten"
            /\ job'.result = [job.result EXCEPT !.entry = job.filled]
        BY <2>2, <2>3, <3>1, JobFlattening
      <4>2. QED
        BY <2>2, <3>1, <4>1
    <3>2. CASE job' = Closing(Settled(job))
      BY <2>3, <3>2, JobClosing
    <3>3. CASE job' = Closed(Settled(job), [job.result EXCEPT !.exit = job.filled])
      <4>1. /\ job'.slot = job.slot /\ job'.step = "closingOpen"
            /\ job'.result = [job.result EXCEPT !.exit = job.filled]
        BY <2>2, <2>3, <3>3, JobClosed
      <4>2. QED
        BY <2>2, <4>1
    <3>4. QED
      BY <1>1, <1>13, <3>1, <3>2, <3>3, LocalJob
  <2>5. /\ orders[Slot]["exit"].quantity <= job.result.entry
        /\ job.result.entry <= orders[Slot]["entry"].filled
        /\ job.leg = "entry" =>
             job.result.entry = 0 /\ job.filled <= orders[Slot]["entry"].filled
    BY <1>1, <2>1
    DEF HolderTrue, ResultIsBetween, EntryUncounted, HolderSafe, FillsSeen
  <2>6. orders[Slot]["exit"].quantity \in Nat
    BY <1>1, <2>1, CampaignAssumption DEF Legs, Order
  <2>7. ResultIsBetween'
    <3>1. job.filled \in Nat
      BY <2>1, CampaignAssumption
    <3>2. /\ orders[Slot]["exit"].quantity <= job'.result.entry
          /\ job'.result.entry <= orders[Slot]["entry"].filled
      BY <2>4, <2>5, <2>6, <3>1
    <3>3. QED
      BY <1>4, <2>4, <3>2 DEF ResultIsBetween, Slot
  <2>8. QED
    BY <2>4, <2>7
    DEF HolderTrue, GatedIsScheduled, EntryUncounted, ResultIsTrue, BundleIsResult
<1>14. CASE ClosingOpenOrders
  <2>1. job.step = "closingOpen"
    BY <1>14 DEF ClosingOpenOrders, At
  <2>2. PICK c \in BOOLEAN : job' = Read(job, "closingPosition", c)
    <3>1. job' = Read(job, "closingPosition", OpenOrders = {})
      BY <1>1, <1>14, LocalJob
    <3>2. QED
      BY <3>1, Zenon
  <2>3. /\ job'.step = "closingPosition" /\ job'.slot = job.slot
        /\ job'.result = job.result
    <3>1. "closingPosition" \in Steps
      BY DEF Steps
    <3>2. QED
      BY <1>1, <2>2, <3>1, JobRead
  <2>4. QED
    BY <1>1, <1>4, <2>1, <2>3
    DEF HolderTrue, GatedIsScheduled, EntryUncounted, ResultIsBetween, ResultIsTrue,
        BundleIsResult, Slot
<1>15. CASE ClosingPosition
  <2>1. job.step = "closingPosition" /\ Slot \in Slots
    BY <1>1, <1>15 DEF ClosingPosition, At, JobShape, Slot
  <2>2. PICK c \in BOOLEAN :
          /\ job' = Judged(job, [job.result EXCEPT !.reconciled = c])
          /\ c => job.result.entry = job.result.exit
    <3>1. job' = Judged(job, [job.result EXCEPT !.reconciled =
                   /\ job.clear
                   /\ position = 0
                   /\ job.result.entry = job.result.exit])
      BY <1>1, <1>15, LocalJob
    <3>2. QED
      BY <3>1, Zenon
  <2>3. /\ [job.result EXCEPT !.reconciled = c] \in Result
        /\ [job.result EXCEPT !.reconciled = c].reconciled = c
        /\ [job.result EXCEPT !.reconciled = c].entry = job.result.entry
        /\ [job.result EXCEPT !.reconciled = c].exit = job.result.exit
    BY <1>1 DEF Job, Result
  <2>4. /\ job'.step = "store" /\ job'.slot = job.slot
        /\ job'.result = [job.result EXCEPT !.reconciled = c]
    BY <1>1, <2>2, <2>3, JobJudged
  <2>5. ASSUME c
        PROVE  /\ job.result.entry = orders[Slot]["entry"].filled
               /\ job.result.exit = orders[Slot]["exit"].filled
    <3>1. ~AtRisk(Slot)'
      BY <2>1, <2>3, <2>4, <2>5 DEF SafeInv, HolderSafe, AfterTheAttempt, NoneAtRisk, Slot
    <3>2. orders[Slot]["entry"].filled = orders[Slot]["exit"].filled
      BY <1>4, <2>4, <3>1 DEF AtRisk, Balanced, Slot
    <3>3. /\ orders[Slot]["exit"].filled <= orders[Slot]["exit"].quantity
          /\ orders[Slot]["exit"].quantity <= job.result.entry
          /\ job.result.entry <= orders[Slot]["entry"].filled
      BY <1>1, <2>1 DEF WithinQuantity, HolderTrue, ResultIsBetween, Legs
    <3>4. /\ orders[Slot]["exit"].filled \in Int /\ orders[Slot]["exit"].quantity \in Int
          /\ job.result.entry \in Int /\ orders[Slot]["entry"].filled \in Int
      BY <1>1, <2>1 DEF Legs, Order, Job, Result
    <3>5. QED
      BY <2>2, <2>5, <3>2, <3>3, <3>4
  <2>6. ResultIsTrue'
    BY <1>4, <2>3, <2>4, <2>5 DEF ResultIsTrue, Slot
  <2>7. QED
    BY <2>4, <2>6
    DEF HolderTrue, GatedIsScheduled, EntryUncounted, ResultIsBetween, BundleIsResult
<1>16. QED
  BY <1>8, <1>9, <1>10, <1>11, <1>12, <1>13, <1>14, <1>15 DEF LocalStep

\* The steps that leave the files and the orders alone, and the job at rest.
LEMMA RestTrue ==
  ASSUME TruthInv,
         \/ Tick \/ UNCHANGED vars
         \/ NothingToDo \/ RaiseAsWritten \/ CrashHolder
         \/ \E p \in Procs : ProcStep(p) \/ CrashOutsideLock(p) \/ Restart(p)
  PROVE  FilesTrue' /\ HolderTrue'
<1>1. SafeInv /\ FilesTrue /\ HolderTrue /\ LedgerIsKept
  BY DEF TruthInv, SafeInv
<1>2. \A p \in Procs : ~CreateLedger(p)
  BY <1>1 DEF LedgerIsKept, CreateLedger
<1>3. ledger # Absent /\ ledger.latch \in BOOLEAN
  BY <1>1, LedgerIsThere DEF LedgerIsKept, Ledger
<1>4. UNCHANGED <<ledger, bundles, orders>>
  BY <1>2
  DEF Tick, vars, files, broker, NothingToDo, RaiseAsWritten, CrashHolder, Raise,
      ProcStep, Wake, TakeLock, LockBusy, CrashOutsideLock, Restart
<1>5. FilesTrue'
  BY <1>1, <1>4, SameFiles
<1>6. \/ job' = job
      \/ job' = NoJob
      \/ job' = Moved(NoJob, "mark")
  BY <1>2
  DEF Tick, vars, NothingToDo, RaiseAsWritten, CrashHolder, Raise, Return, Moved,
      ProcStep, Wake, TakeLock, LockBusy, CrashOutsideLock, Restart
<1>7. CASE job' = job
  BY <1>1, <1>4, <1>5, <1>7
  DEF HolderTrue, GatedIsScheduled, EntryUncounted, ResultIsBetween, ResultIsTrue,
      BundleIsResult, Slot, Scheduled, Status
<1>8. CASE job' = NoJob
  BY <1>5, <1>8, Blanks, NothingKnown
<1>9. CASE job' = Moved(NoJob, "mark")
  BY <1>5, <1>9, Blanks, JobMoved, NothingKnown DEF Steps
<1>10. QED
  BY <1>6, <1>7, <1>8, <1>9

\* What is no bundle yet is no result.
LEMMA NoBundleYet == NoBundle \notin Result
<1>1. ASSUME NoBundle \in Result
      PROVE  FALSE
  <2>1. DOMAIN NoBundle = {"submitted", "entry", "exit", "reconciled"}
    BY <1>1 DEF Result
  <2>2. DOMAIN NoBundle = {"submitted"}
    BY DEF NoBundle
  <2>3. QED
    BY <2>1, <2>2
<1>2. QED
  BY <1>1

\* The holder's writes: a row refers to a bundle that holds the same result.
LEMMA WriteTrue ==
  ASSUME TruthInv,
         MarkMissedSlots \/ BeginSlotAttempt \/ WriteSlotArtifacts \/ FinalizeSlotState
  PROVE  FilesTrue' /\ HolderTrue'
<1>1. /\ SafeInv /\ FilesTrue /\ HolderTrue /\ WithinQuantity
      /\ JobShape /\ MarketSafe /\ HolderSafe /\ LedgerIsKept
      /\ job \in Job /\ orders \in [Slots -> [Legs -> Order]]
      /\ bundles \in [Slots -> Result \cup {NoBundle}]
      /\ ledger.rows \in [Slots -> Row]
  BY DEF TruthInv, FilesTrue, SafeInv, TypeInv, TypeOK, LedgerIsKept, Ledger
<1>2. orders' = orders
  BY DEF MarkMissedSlots, BeginSlotAttempt, WriteSlotArtifacts, FinalizeSlotState, broker
<1>3. WithinQuantity' /\ \A s \in Slots : AtRisk(s)' <=> AtRisk(s)
  BY <1>1, <1>2 DEF WithinQuantity, AtRisk, Live, Balanced
<1>4. \A s \in Slots : RowIsTrue(s)
  BY <1>1 DEF FilesTrue
<1>5. ASSUME NEW s \in Slots, ledger'.rows[s] = ledger.rows[s], bundles'[s] = bundles[s]
      PROVE  RowIsTrue(s)'
  BY <1>2, <1>3, <1>4, <1>5 DEF RowIsTrue
<1>6. CASE MarkMissedSlots
  <2>1. job'.step = "select"
    BY <1>1, <1>6, Going DEF MarkMissedSlots, Steps
  <2>2. bundles' = bundles
    BY <1>6 DEF MarkMissedSlots
  <2>3. ASSUME NEW s \in Slots
        PROVE  RowIsTrue(s)'
    <3>1. CASE s \in Missed(seenAt[lock])
      <4>1. ledger'.rows[s] = [ledger.rows[s] EXCEPT !.status = "skipped_missed_window"]
        BY <1>1, <1>6, <3>1 DEF MarkMissedSlots, LedgerIsKept, Ledger
      <4>2. ledger'.rows[s].referenced = ledger.rows[s].referenced
        BY <1>1, <4>1 DEF Row
      <4>3. ~ledger.rows[s].referenced
        BY <1>4, <3>1 DEF Missed, Scheduled, Status, RowIsTrue
      <4>4. QED
        BY <4>2, <4>3 DEF RowIsTrue
    <3>2. CASE s \notin Missed(seenAt[lock])
      <4>1. ledger'.rows[s] = ledger.rows[s]
        BY <1>1, <1>6, <3>2 DEF MarkMissedSlots, LedgerIsKept, Ledger
      <4>2. QED
        BY <1>5, <2>2, <4>1
    <3>3. QED
      BY <3>1, <3>2
  <2>4. QED
    BY <1>3, <2>1, <2>3, NothingKnown DEF FilesTrue
<1>7. CASE BeginSlotAttempt
  <2>1. job'.step = "submit" /\ bundles' = bundles
    BY <1>1, <1>7, Going DEF BeginSlotAttempt, Steps
  <2>2. Slot \in Slots /\ ~ledger.rows[Slot].referenced
    BY <1>1, <1>4, <1>7
    DEF BeginSlotAttempt, At, JobShape, Slot, Scheduled, Status, RowIsTrue
  <2>3. ledger' = BegunLedger(ledger, Slot)
    BY <1>7 DEF BeginSlotAttempt, BegunLedger
  <2>4. /\ \A s \in Slots \ {Slot} : ledger'.rows[s] = ledger.rows[s]
        /\ ledger'.rows[Slot].referenced = ledger.rows[Slot].referenced
    BY <1>1, <2>2, <2>3, LedgerBegun DEF LedgerIsKept
  <2>5. ASSUME NEW s \in Slots
        PROVE  RowIsTrue(s)'
    <3>1. CASE s = Slot
      BY <2>2, <2>4, <3>1 DEF RowIsTrue
    <3>2. CASE s # Slot
      BY <1>5, <2>1, <2>4, <3>2
    <3>3. QED
      BY <3>1, <3>2
  <2>6. QED
    BY <1>3, <2>1, <2>5, NothingKnown DEF FilesTrue
<1>8. CASE WriteSlotArtifacts
  <2>1. /\ job.step = "store" /\ bundles[Slot] = NoBundle /\ ledger' = ledger
        /\ bundles' = [bundles EXCEPT ![Slot] = job.result]
    BY <1>8 DEF WriteSlotArtifacts, At
  <2>2. Slot \in Slots
    BY <1>1, <2>1 DEF JobShape, Slot
  <2>3. /\ job'.step = "finalize" /\ job'.slot = job.slot /\ job'.result = job.result
    BY <1>1, <1>8, Going DEF WriteSlotArtifacts, Steps
  <2>4. ASSUME NEW s \in Slots
        PROVE  RowIsTrue(s)'
    <3>1. CASE s = Slot
      <4>1. ~ledger.rows[s].referenced
        BY <1>4, <2>1, <3>1, NoBundleYet DEF RowIsTrue
      <4>2. QED
        BY <2>1, <4>1 DEF RowIsTrue
    <3>2. CASE s # Slot
      BY <1>1, <1>5, <2>1, <3>2
    <3>3. QED
      BY <3>1, <3>2
  <2>5. bundles'[Slot] = job.result
    BY <1>1, <2>1, <2>2
  <2>6. ResultIsTrue' /\ BundleIsResult'
    BY <1>1, <1>2, <2>1, <2>3, <2>5
    DEF HolderTrue, ResultIsTrue, BundleIsResult, Slot
  <2>7. QED
    BY <1>3, <2>3, <2>4, <2>6
    DEF FilesTrue, HolderTrue, GatedIsScheduled, EntryUncounted, ResultIsBetween
<1>9. CASE FinalizeSlotState
  <2> DEFINE r == job.result
             row == [status |-> FinalStatus(r), submitted |-> r.submitted,
                     entry |-> r.entry, exit |-> r.exit, referenced |-> TRUE]
  <2>1. job.step = "finalize" /\ Slot \in Slots /\ r \in Result
    BY <1>1, <1>9 DEF FinalizeSlotState, At, JobShape, Slot, Job
  <2>2. /\ ledger'.rows = [ledger.rows EXCEPT ![Slot] = row]
        /\ job' = NoJob /\ bundles' = bundles
    BY <1>9 DEF FinalizeSlotState, Return
  <2>3. /\ row.status = FinalStatus(r) /\ row.submitted = r.submitted
        /\ row.entry = r.entry /\ row.exit = r.exit
    OBVIOUS
  <2> HIDE DEF row
  <2>4. bundles'[Slot] = r
    BY <1>1, <2>1, <2>2 DEF HolderTrue, BundleIsResult
  <2>5. /\ FinalStatus(r) \notin {"authorized_scheduled", "in_progress"}
        /\ FinalStatus(r) # "manual_recovery_required" => r.reconciled
    BY DEF FinalStatus
  <2>6. r.reconciled => /\ r.entry = orders[Slot]["entry"].filled
                        /\ r.exit = orders[Slot]["exit"].filled
                        /\ ~AtRisk(Slot)
    BY <1>1, <2>1
    DEF HolderTrue, ResultIsTrue, HolderSafe, AfterTheAttempt, NoneAtRisk
  <2>7. ASSUME NEW s \in Slots
        PROVE  RowIsTrue(s)'
    <3>1. CASE s = Slot
      <4>1. ledger'.rows[s] = row
        BY <1>1, <2>1, <2>2, <3>1
      <4>2. bundles'[s] = r /\ orders'[s] = orders[Slot] /\ ~AtRisk(s)' = ~AtRisk(Slot)
        BY <1>2, <1>3, <2>4, <3>1
      <4>3. QED
        BY <2>1, <2>3, <2>5, <2>6, <4>1, <4>2 DEF RowIsTrue
    <3>2. CASE s # Slot
      BY <1>1, <1>5, <2>1, <2>2, <3>2
    <3>3. QED
      BY <3>1, <3>2
  <2>8. QED
    BY <1>3, <2>2, <2>7, Blanks, NothingKnown DEF FilesTrue
<1>10. QED
  BY <1>6, <1>7, <1>8, <1>9


\* The submissions: no row refers to the slot whose orders they change.
LEMMA SendTrue ==
  ASSUME TruthInv, SubmitEntry \/ SubmitFlatten, SafeInv'
  PROVE  FilesTrue' /\ HolderTrue'
<1>1. /\ SafeInv /\ FilesTrue /\ HolderTrue /\ WithinQuantity
      /\ job \in Job /\ orders \in [Slots -> [Legs -> Order]]
      /\ FlattenWithinFill'
  BY DEF TruthInv, FilesTrue, SafeInv, TypeInv, TypeOK, MarketSafe
<1>2. /\ Slot \in Slots /\ job.leg \in Legs /\ Status(Slot) = "in_progress"
      /\ job'.step = "await" /\ job'.slot = job.slot
      /\ ledger' = ledger
  BY <1>1, SendMove
<1>3. PICK q \in 0..Qty :
        orders' = [orders EXCEPT ![Slot][job.leg] =
                     [state |-> "sent", quantity |-> q, filled |-> 0]]
  BY <1>1, SendMove
<1>4. bundles' = bundles
  BY DEF SubmitEntry, SubmitFlatten, files
<1>5. /\ \A s \in Slots, leg \in Legs :
           orders'[s][leg] = IF s = Slot /\ leg = job.leg
                             THEN [state |-> "sent", quantity |-> q, filled |-> 0]
                             ELSE orders[s][leg]
      /\ \A s \in Slots \ {Slot} : orders'[s] = orders[s]
  BY <1>1, <1>2, <1>3
<1>6. WithinQuantity'
  <2>1. ASSUME NEW s \in Slots, NEW leg \in Legs
        PROVE  orders'[s][leg].filled <= orders'[s][leg].quantity
    <3>1. orders[s][leg].filled <= orders[s][leg].quantity /\ 0 <= q
      BY <1>1 DEF WithinQuantity
    <3>2. QED
      BY <1>5, <3>1
  <2>2. QED
    BY <2>1 DEF WithinQuantity
<1>7. ASSUME NEW s \in Slots
      PROVE  RowIsTrue(s)'
  <2>1. RowIsTrue(s)
    BY <1>1 DEF FilesTrue
  <2>2. CASE s = Slot
    BY <1>2, <2>1, <2>2 DEF RowIsTrue, Status
  <2>3. CASE s # Slot
    <3>1. orders'[s] = orders[s]
      BY <1>5, <2>3
    <3>2. AtRisk(s)' <=> AtRisk(s)
      BY <3>1 DEF AtRisk, Live, Balanced
    <3>3. QED
      BY <1>2, <1>4, <2>1, <3>1, <3>2 DEF RowIsTrue
  <2>4. QED
    BY <2>2, <2>3
<1>8. orders'[Slot]["exit"].quantity <= orders'[Slot]["entry"].filled
  BY <1>1, <1>2 DEF FlattenWithinFill, Slot
<1>9. ResultIsBetween' /\ EntryUncounted'
  <2>1. CASE SubmitEntry
    <3>1. job' = Submitting(job)
      BY <2>1 DEF SubmitEntry, Submitting
    <3>2. job'.result.entry = 0
      <4>1. [Skip EXCEPT !.submitted = TRUE].entry = 0
        BY DEF Skip
      <4>2. QED
        BY <1>1, <3>1, <4>1, JobSubmitting
    <3>3. job.leg = "entry"
      BY <1>1, <2>1, SendMove
    <3>4. orders'[Slot]["entry"].filled = 0
      BY <1>2, <1>5, <3>3
    <3>5. QED
      BY <1>2, <1>8, <3>2, <3>4 DEF ResultIsBetween, EntryUncounted, Slot
  <2>2. CASE SubmitFlatten
    <3>1. Goto("await") /\ Send("exit", job.result.entry)
      BY <2>2 DEF SubmitFlatten
    <3>2. job'.result = job.result /\ job'.leg = job.leg /\ job.leg = "exit"
      BY <1>1, <2>2, <3>1, Going, SendMove DEF Steps
    <3>3. /\ orders'[Slot]["exit"].quantity = job.result.entry
          /\ orders'[Slot]["entry"] = orders[Slot]["entry"]
      BY <1>1, <1>2, <3>1 DEF Send, Legs
    <3>4. job.result.entry <= orders[Slot]["entry"].filled /\ job.result.entry \in Int
      BY <1>1, <2>2
      DEF SubmitFlatten, At, HolderTrue, ResultIsBetween, Job, Result
    <3>5. QED
      BY <1>2, <3>2, <3>3, <3>4 DEF ResultIsBetween, EntryUncounted, Slot
  <2>3. QED
    BY <2>1, <2>2
<1>10. QED
  BY <1>2, <1>6, <1>7, <1>9
  DEF FilesTrue, HolderTrue, GatedIsScheduled, ResultIsTrue, BundleIsResult

\* The broker: it fills an order of the one slot that is at risk, which no row
\* calls settled and no holder calls reconciled.
LEMMA BrokerTrue ==
  ASSUME TruthInv, NEW s \in Slots, NEW leg \in Legs,
         Arrive(s, leg) \/ Fill(s, leg) \/ Terminate(s, leg)
  PROVE  FilesTrue' /\ HolderTrue'
<1>1. /\ SafeInv /\ TypeInv /\ FilesTrue /\ HolderTrue /\ WithinQuantity
      /\ OrderShape /\ JobShape /\ MarketSafe /\ HolderSafe
      /\ job \in Job /\ orders \in [Slots -> [Legs -> Order]]
  BY DEF TruthInv, FilesTrue, SafeInv, TypeInv, TypeOK
<1> DEFINE o == orders[s][leg]
<1>2. PICK x \in Order :
        /\ orders' = [orders EXCEPT ![s][leg] = x]
        /\ x.quantity = o.quantity
        /\ x.filled = o.filled \/ x.filled = o.filled + 1
  BY <1>1, MarketMove
<1>3. /\ o.state \in {"sent", "open"}
      /\ UNCHANGED <<ledger, bundles, job>>
  BY <1>1, MarketMove DEF Environment, files
<1>4. /\ \A t \in Slots, g \in Legs :
           orders'[t][g] = IF t = s /\ g = leg THEN x ELSE orders[t][g]
      /\ \A t \in Slots \ {s} : orders'[t] = orders[t]
  BY <1>1, <1>2
<1>5. o \in Order /\ o.filled < o.quantity
  BY <1>1, <1>3 DEF OrderShape
<1>6. /\ o.filled \in Int /\ o.quantity \in Int /\ x.filled \in Int
      /\ x.filled <= o.quantity /\ o.filled <= x.filled
  BY <1>2, <1>5 DEF Order
<1>7. WithinQuantity'
  <2>1. ASSUME NEW t \in Slots, NEW g \in Legs
        PROVE  orders'[t][g].filled <= orders'[t][g].quantity
    <3>1. orders[t][g].filled <= orders[t][g].quantity
      BY <1>1 DEF WithinQuantity
    <3>2. QED
      BY <1>2, <1>4, <1>6, <3>1
  <2>2. QED
    BY <2>1 DEF WithinQuantity
<1>8. AtRisk(s) /\ Status(s) \in {"in_progress", "manual_recovery_required"}
  <2>1. AtRisk(s)
    BY <1>3 DEF AtRisk, Live
  <2>2. QED
    BY <1>1, <2>1 DEF MarketSafe, ExposureIsLatched
<1>9. ASSUME NEW t \in Slots
      PROVE  RowIsTrue(t)'
  <2>1. RowIsTrue(t)
    BY <1>1 DEF FilesTrue
  <2>2. CASE t = s
    BY <1>3, <1>8, <2>1, <2>2 DEF RowIsTrue, Status
  <2>3. CASE t # s
    <3>1. orders'[t] = orders[t]
      BY <1>4, <2>3
    <3>2. AtRisk(t)' <=> AtRisk(t)
      BY <3>1 DEF AtRisk, Live, Balanced
    <3>3. QED
      BY <1>3, <2>1, <3>1, <3>2 DEF RowIsTrue
  <2>4. QED
    BY <2>2, <2>3
<1>10. job.step \notin {"none", "mark", "select"} => Slot \in Slots
  BY <1>1 DEF JobShape, Slot
<1>11. ResultIsBetween'
  <2>1. \A t \in Slots :
          /\ orders'[t]["exit"].quantity = orders[t]["exit"].quantity
          /\ orders[t]["entry"].filled <= orders'[t]["entry"].filled
          /\ orders[t]["entry"].filled \in Int /\ orders'[t]["entry"].filled \in Int
    <3>1. \A t \in Slots : orders[t]["entry"].filled \in Int
      BY <1>1 DEF Legs, Order
    <3>2. QED
      BY <1>2, <1>4, <1>6, <3>1 DEF Legs
  <2>2. job.result.entry \in Int
    BY <1>1 DEF Job, Result
  <2>3. QED
    BY <1>1, <1>3, <1>10, <2>1, <2>2 DEF HolderTrue, ResultIsBetween, Slot
<1>12. ResultIsTrue'
  BY <1>1, <1>3, <1>8 DEF ResultIsTrue, HolderSafe, AfterTheAttempt, NoneAtRisk
<1>13. QED
  BY <1>1, <1>3, <1>7, <1>9, <1>11, <1>12
  DEF FilesTrue, HolderTrue, GatedIsScheduled, EntryUncounted, BundleIsResult, Slot,
      Scheduled, Status

\* Every step keeps the files true.
LEMMA TruthStep ==
  ASSUME TruthInv, [Next]_vars
  PROVE  TruthInv'
<1>1. SafeInv'
  BY SafeStep DEF TruthInv
<1>2. SUFFICES FilesTrue' /\ HolderTrue'
  BY <1>1 DEF TruthInv
<1>3. CASE LocalStep
  BY <1>1, <1>3, LocalTrue
<1>4. CASE MarkMissedSlots \/ BeginSlotAttempt \/ WriteSlotArtifacts \/ FinalizeSlotState
  BY <1>4, WriteTrue
<1>5. CASE SubmitEntry \/ SubmitFlatten
  BY <1>1, <1>5, SendTrue
<1>6. CASE \/ Tick \/ UNCHANGED vars
           \/ NothingToDo \/ RaiseAsWritten \/ CrashHolder
           \/ \E p \in Procs : ProcStep(p) \/ CrashOutsideLock(p) \/ Restart(p)
  BY <1>6, RestTrue
<1>7. ASSUME NEW s \in Slots, NEW leg \in Legs,
             Arrive(s, leg) \/ Fill(s, leg) \/ Terminate(s, leg)
      PROVE  FilesTrue' /\ HolderTrue'
  BY <1>7, BrokerTrue
<1>8. QED
  BY <1>3, <1>4, <1>5, <1>6, <1>7 DEF Next, HolderStep, LocalStep

\* A fresh ledger refers to no bundle.
LEMMA TruthStart == JustActivated => TruthInv
<1> SUFFICES ASSUME JustActivated
             PROVE  TruthInv
  OBVIOUS
<1>1. SafeInv
  BY SafeStart
<1>2. FilesTrue
  BY DEF JustActivated, Untouched, FilesTrue, WithinQuantity, RowIsTrue, NoOrder, Legs,
         InitialCampaignState, FreshRow
<1>3. HolderTrue
  BY Blanks
  DEF JustActivated, Untouched, HolderTrue, GatedIsScheduled, EntryUncounted,
      ResultIsBetween, ResultIsTrue, BundleIsResult
<1>4. QED
  BY <1>1, <1>2, <1>3 DEF TruthInv

\* Whatever the crashes and delays: what the ledger says of a finished slot is
\* what its bundle says, and what the broker executed unless it asks for a
\* manual recovery (finalize_slot_state).
THEOREM LedgerTruthful == Spec /\ []OneActivates => []LedgerTellsTheTruth
<1>1. Init => BeforeActivation \/ JustActivated
  BY Beginning
<1>2. BeforeActivation /\ OneActivates /\ [Next]_vars
        => BeforeActivation' \/ JustActivated'
  BY Activating
<1>3. JustActivated => TruthInv
  BY TruthStart
<1>4. TruthInv /\ [Next]_vars => TruthInv'
  BY TruthStep
<1>5. BeforeActivation \/ TruthInv => LedgerTellsTheTruth
  BY DEF BeforeActivation, TruthInv, FilesTrue, RowIsTrue, LedgerTellsTheTruth
<1>6. QED
  BY <1>1, <1>2, <1>3, <1>4, <1>5, PTL DEF Spec

-----------------------------------------------------------------------------
(* The reader of the campaign directory *)

ReaderSteps == {"idle", "list", "load", "loaded", "refused", "incomplete", "unreadable"}

ReaderShape ==
  reader \in [step : ReaderSteps, expected : SUBSET Slots, records : SUBSET Slots,
              watched : BOOLEAN]

\* Every bundle is referred to by the ledger, the one about to be apart, unless
\* an attempt died in between.
Accounted ==
  orphans = {} => Published = Referenced(ledger) \cup {s \in {Slot} : At("finalize")}

\* A completed row refers to a bundle, and to an entry that was filled.
CompletedHasTraded ==
  \A s \in Slots : Status(s) = "completed_reconciled" =>
    ledger.rows[s].referenced /\ ledger.rows[s].entry > 0

\* Some completed slot has no record of its flatten.
Unquoted == \E s \in Slots : Status(s) = "completed_reconciled" /\ s \notin quoted

ReaderKnows ==
  /\ reader.step = "list" /\ ~reader.watched =>
       lock = Nobody /\ reader.expected = Referenced(ledger)
  /\ reader.step = "refused" => reader.watched \/ orphans # {}
  /\ reader.step = "loaded" => \A s \in reader.records : Status(s) = "completed_reconciled"
  /\ reader.step = "incomplete" => Unquoted

AuditInv == TruthInv /\ ReaderShape /\ Accounted /\ CompletedHasTraded /\ ReaderKnows

\* What a step of the campaign does to the files.
LEMMA FilesMove ==
  ASSUME SafeInv, [Next]_vars
  PROVE  /\ \/ ledger' = ledger
            \/ MarkMissedSlots \/ BeginSlotAttempt \/ FinalizeSlotState
         /\ bundles' = bundles \/ WriteSlotArtifacts
         /\ lock = Nobody => ledger' = ledger
<1>1. \A p \in Procs : ~CreateLedger(p)
  BY DEF SafeInv, LedgerIsKept, CreateLedger
<1>2. /\ \/ ledger' = ledger
         \/ MarkMissedSlots \/ BeginSlotAttempt \/ FinalizeSlotState
      /\ bundles' = bundles \/ WriteSlotArtifacts
  <2>1. CASE LocalStep
    BY <2>1, LocalTypes DEF SafeInv, OnlyJob
  <2>2. CASE MarkMissedSlots \/ BeginSlotAttempt \/ WriteSlotArtifacts \/ FinalizeSlotState
    BY <2>2 DEF MarkMissedSlots, BeginSlotAttempt, WriteSlotArtifacts, FinalizeSlotState
  <2>3. CASE SubmitEntry \/ SubmitFlatten \/ NothingToDo \/ RaiseAsWritten \/ CrashHolder
    BY <2>3 DEF SubmitEntry, SubmitFlatten, NothingToDo, RaiseAsWritten, CrashHolder, Raise, files
  <2>4. CASE Tick \/ UNCHANGED vars
    BY <2>4 DEF Tick, vars, files
  <2>5. ASSUME NEW p \in Procs, ProcStep(p) \/ CrashOutsideLock(p) \/ Restart(p)
        PROVE  UNCHANGED files
    BY <1>1, <2>5 DEF ProcStep, Wake, TakeLock, LockBusy, CrashOutsideLock, Restart, files
  <2>6. ASSUME NEW s \in Slots, NEW leg \in Legs,
               Arrive(s, leg) \/ Fill(s, leg) \/ Terminate(s, leg)
        PROVE  UNCHANGED files
    BY <2>6 DEF Arrive, Fill, Terminate, Environment, files
  <2>7. QED
    BY <2>1, <2>2, <2>3, <2>4, <2>5, <2>6 DEF Next, HolderStep, LocalStep, files
<1>3. lock = Nobody => ~(MarkMissedSlots \/ BeginSlotAttempt \/ FinalizeSlotState)
  BY DEF SafeInv, TypeInv, JobShape, MarkMissedSlots, BeginSlotAttempt, FinalizeSlotState, At
<1>4. QED
  BY <1>2, <1>3

\* The ledger's writers: what they leave of a row.
LEMMA RowsKept ==
  ASSUME SafeInv, [Next]_vars, NEW s \in Slots,
         ~(FinalizeSlotState /\ s = Slot)
  PROVE  /\ ledger'.rows[s].referenced = ledger.rows[s].referenced
         /\ ledger'.rows[s].entry = ledger.rows[s].entry
         /\ Status(s)' = "completed_reconciled" <=> Status(s) = "completed_reconciled"
<1>1. ledger \in Ledger /\ ledger.rows \in [Slots -> Row] /\ ledger.rows[s] \in Row
  BY DEF SafeInv, LedgerIsKept, Ledger
<1>2. CASE ledger' = ledger
  BY <1>2 DEF Status
<1>3. CASE MarkMissedSlots
  <2>1. \/ ledger'.rows[s] = ledger.rows[s]
        \/ /\ ledger'.rows[s] = [ledger.rows[s] EXCEPT !.status = "skipped_missed_window"]
           /\ Scheduled(s)
    BY <1>1, <1>3 DEF MarkMissedSlots, Ledger, Missed
  <2>2. QED
    BY <1>1, <2>1 DEF Row, Status, Scheduled
<1>4. CASE BeginSlotAttempt
  <2>1. ledger' = BegunLedger(ledger, Slot) /\ Scheduled(Slot)
    BY <1>4 DEF BeginSlotAttempt, BegunLedger
  <2>2. Slot \in Slots
    BY <1>4 DEF BeginSlotAttempt, At, Slot, SafeInv, TypeInv, JobShape
  <2>3. \/ ledger'.rows[s] = ledger.rows[s]
        \/ /\ s = Slot
           /\ ledger'.rows[s] = [ledger.rows[s] EXCEPT !.status = "in_progress"]
    BY <1>1, <2>1, <2>2 DEF BegunLedger, Ledger
  <2>4. QED
    BY <1>1, <2>1, <2>3 DEF Row, Status, Scheduled
<1>5. CASE FinalizeSlotState /\ s # Slot
  <2>1. ledger'.rows[s] = ledger.rows[s]
    BY <1>1, <1>5 DEF FinalizeSlotState
  <2>2. QED
    BY <2>1 DEF Status
<1>6. QED
  BY <1>2, <1>3, <1>4, <1>5, FilesMove

\* finalize_slot_state: the row of the finished slot.
LEMMA RowFinished ==
  ASSUME SafeInv, FinalizeSlotState
  PROVE  /\ Slot \in Slots /\ At("finalize")
         /\ Status(Slot) # "completed_reconciled"
         /\ ledger'.rows[Slot].referenced
         /\ ledger'.rows[Slot].status = "completed_reconciled" =>
              ledger'.rows[Slot].entry > 0
<1>1. Slot \in Slots /\ At("finalize") /\ Status(Slot) # "completed_reconciled"
  BY DEF FinalizeSlotState, At, Slot, SafeInv, TypeInv, JobShape
<1>2. ledger.rows \in [Slots -> Row]
  BY DEF SafeInv, LedgerIsKept, Ledger
<1>3. ledger'.rows[Slot] =
        [status |-> FinalStatus(job.result), submitted |-> job.result.submitted,
         entry |-> job.result.entry, exit |-> job.result.exit, referenced |-> TRUE]
  BY <1>1, <1>2 DEF FinalizeSlotState
<1>4. ledger'.rows[Slot].referenced /\ ledger'.rows[Slot].entry = job.result.entry
      /\ ledger'.rows[Slot].status = FinalStatus(job.result)
  BY <1>3
<1>5. FinalStatus(job.result) = "completed_reconciled" => job.result.entry > 0
  BY DEF FinalStatus
<1>6. QED
  BY <1>1, <1>4, <1>5 DEF Status

\* The local steps do not come to the last write.
LEMMA NotYetFinal ==
  ASSUME TypeInv, LocalStep
  PROVE  job'.step # "finalize"
<1>1. job \in Job /\ job.step \in Steps
  BY DEF TypeInv, TypeOK, Job
<1>2. CASE SelectDueSlot
  BY <1>1, <1>2 DEF SelectDueSlot, Job
<1>3. CASE ReadOpenOrders \/ ReadPosition \/ ReadHistory
  <2>1. CASE ReadOpenOrders \/ ReadPosition
    BY <1>1, <2>1 DEF ReadOpenOrders, ReadPosition, Job
  <2>2. CASE ReadHistory
    BY <1>1, <2>2, LocalJob, JobSkipped, JobAgain, JobBegun
  <2>3. QED
    BY <1>3, <2>1, <2>2
<1>4. CASE LateForSubmission \/ ReceiveResponse
  BY <1>1, <1>4 DEF LateForSubmission, ReceiveResponse, Job
<1>5. CASE PollOrder \/ CancelOrder
  BY <1>1, <1>5 DEF PollOrder, CancelOrder, At, Job
<1>6. CASE EndLeg
  BY <1>1, <1>6 DEF EndLeg, Job
<1>7. CASE ClosingOpenOrders \/ ClosingPosition
  BY <1>1, <1>7 DEF ClosingOpenOrders, ClosingPosition, Job
<1>8. QED
  BY <1>2, <1>3, <1>4, <1>5, <1>6, <1>7 DEF LocalStep

\* A step of the campaign keeps the account of the bundles.
LEMMA AccountKept ==
  ASSUME TruthInv, Accounted, CampaignStep
  PROVE  Accounted'
<1>1. SafeInv /\ Next /\ ledger.rows \in [Slots -> Row] /\ bundles \in [Slots -> Result \cup {NoBundle}]
      /\ proc \in [Procs -> ProcStates]
  BY DEF TruthInv, SafeInv, LedgerIsKept, Ledger, TypeInv, TypeOK, CampaignStep
<1>2. SUFFICES ASSUME orphans' = {}
               PROVE  Published' = Referenced(ledger)' \cup {s \in {Slot} : At("finalize")}'
  BY DEF Accounted
<1>3. orphans = {} /\ ~DiesBeforeFinalizing
  BY <1>2 DEF CampaignStep
<1>4. Published = Referenced(ledger) \cup {s \in {Slot} : At("finalize")}
  BY <1>3 DEF Accounted
<1>5. CASE FinalizeSlotState
  <2>1. bundles' = bundles /\ job' = NoJob
    BY <1>5 DEF FinalizeSlotState, Return
  <2>2. Published' = Published /\ ~At("finalize")'
    BY <2>1, Blanks DEF Published, At
  <2>3. Slot \in Slots /\ At("finalize") /\ ledger'.rows[Slot].referenced
    BY <1>1, <1>5, RowFinished
  <2>4. \A s \in Slots : s # Slot => ledger'.rows[s].referenced = ledger.rows[s].referenced
    BY <1>1, RowsKept
  <2>5. Referenced(ledger)' = Referenced(ledger) \cup {Slot}
    BY <2>3, <2>4 DEF Referenced
  <2>6. QED
    BY <1>4, <2>2, <2>3, <2>5
<1>6. ASSUME ~FinalizeSlotState
      PROVE  Referenced(ledger)' = Referenced(ledger)
  BY <1>1, <1>6, RowsKept DEF Referenced
<1>7. CASE WriteSlotArtifacts
  <2>1. /\ bundles' = [bundles EXCEPT ![Slot] = job.result] /\ Goto("finalize")
        /\ Slot \in Slots /\ job \in Job /\ At("store")
    BY <1>1, <1>7 DEF WriteSlotArtifacts, At, Slot, SafeInv, TypeInv, TypeOK, JobShape
  <2>2. job.result \in Result /\ job.result # NoBundle
    BY <2>1, NoBundleYet DEF Job
  <2>3. Published' = Published \cup {Slot}
    BY <1>1, <2>1, <2>2 DEF Published
  <2>4. job'.step = "finalize" /\ job'.slot = job.slot
    BY <2>1, Going DEF Steps
  <2>5. {s \in {Slot} : At("finalize")}' = {Slot}
    BY <2>4 DEF At, Slot
  <2>6. {s \in {Slot} : At("finalize")} = {}
    BY <2>1 DEF At
  <2>7. ~FinalizeSlotState
    BY <2>1 DEF FinalizeSlotState, At
  <2>8. QED
    BY <1>4, <1>6, <2>3, <2>5, <2>6, <2>7
<1>8. CASE ~FinalizeSlotState /\ ~WriteSlotArtifacts
  <2>1. Published' = Published
    BY <1>1, <1>8, FilesMove DEF Published
  <2>2. At("finalize") => job' = job
    <3>1. SUFFICES ASSUME At("finalize"), ~RaiseAsWritten, ~CrashHolder
                   PROVE  job' = job
      <4>1. CASE At("finalize") /\ (RaiseAsWritten \/ CrashHolder)
        <5>1. lock \in Procs /\ Raise
          BY <1>1, <4>1
          DEF RaiseAsWritten, CrashHolder, SafeInv, TypeInv, TypeOK, JobShape, At
        <5>2. proc'[lock] = "dead"
          BY <1>1, <5>1 DEF Raise
        <5>3. QED
          BY <1>3, <4>1, <5>2 DEF DiesBeforeFinalizing
      <4>2. QED
        BY <4>1
    <3>2. lock # Nobody
      BY <1>1, <3>1 DEF SafeInv, TypeInv, JobShape, At
    <3>3. ~HolderStep /\ ~CrashHolder
      BY <1>8, <3>1
      DEF HolderStep, At, MarkMissedSlots, NothingToDo, SelectDueSlot, ReadOpenOrders,
          ReadPosition, ReadHistory, BeginSlotAttempt, LateForSubmission, SubmitEntry,
          SubmitFlatten, ReceiveResponse, PollOrder, CancelOrder, EndLeg,
          ClosingOpenOrders, ClosingPosition
    <3>4. QED
      BY <1>1, <3>2, <3>3
      DEF Next, ProcStep, Wake, CreateLedger, TakeLock, LockBusy, CrashOutsideLock,
          Restart, Tick, Arrive, Fill, Terminate, Environment
  <2>3. ~At("finalize") => ~At("finalize")'
    <3>1. SUFFICES ASSUME job'.step = "finalize", job.step # "finalize"
                   PROVE  FALSE
      BY DEF At
    <3>2. job \in Job
      BY <1>1 DEF SafeInv, TypeInv, TypeOK
    <3>3. ~LocalStep
      BY <1>1, <3>1, NotYetFinal DEF SafeInv
    <3>4. ~(MarkMissedSlots \/ BeginSlotAttempt \/ SubmitEntry \/ SubmitFlatten)
      BY <3>1, <3>2
      DEF MarkMissedSlots, BeginSlotAttempt, SubmitEntry, SubmitFlatten, Goto, Job
    <3>5. job' # NoJob
      BY <3>1, Blanks
    <3>6. ~(NothingToDo \/ RaiseAsWritten \/ CrashHolder)
      BY <3>5 DEF NothingToDo, RaiseAsWritten, CrashHolder, Raise, Return
    <3>7. \A p \in Procs : ~(ProcStep(p) \/ CrashOutsideLock(p) \/ Restart(p))
      BY <3>1, Blanks
      DEF ProcStep, Wake, CreateLedger, TakeLock, LockBusy, CrashOutsideLock, Restart, Job
    <3>8. QED
      BY <1>1, <1>8, <3>1, <3>3, <3>4, <3>6, <3>7
      DEF Next, HolderStep, LocalStep, Tick, Arrive, Fill, Terminate, Environment
  <2>4. {s \in {Slot} : At("finalize")}' = {s \in {Slot} : At("finalize")}
    BY <2>2, <2>3 DEF At, Slot
  <2>5. QED
    BY <1>4, <1>6, <1>8, <2>1, <2>4
<1>9. QED
  BY <1>5, <1>7, <1>8

\* A step of the campaign keeps what is completed.
LEMMA CompletedKept ==
  ASSUME TruthInv, CompletedHasTraded, [Next]_vars
  PROVE  /\ CompletedHasTraded'
         /\ \A s \in Slots :
              Status(s) = "completed_reconciled" => Status(s)' = "completed_reconciled"
<1>1. SafeInv
  BY DEF TruthInv
<1>2. ASSUME NEW s \in Slots
      PROVE  /\ Status(s)' = "completed_reconciled" =>
                  ledger'.rows[s].referenced /\ ledger'.rows[s].entry > 0
             /\ Status(s) = "completed_reconciled" => Status(s)' = "completed_reconciled"
  <2>1. CASE FinalizeSlotState /\ s = Slot
    BY <1>1, <2>1, RowFinished DEF Status
  <2>2. CASE ~(FinalizeSlotState /\ s = Slot)
    BY <1>1, <2>2, RowsKept DEF CompletedHasTraded
  <2>3. QED
    BY <2>1, <2>2
<1>3. QED
  BY <1>2 DEF CompletedHasTraded

\* A step of the campaign under the eyes of the reader, ...
LEMMA AuditCampaignStep ==
  ASSUME AuditInv, CampaignStep
  PROVE  AuditInv'
<1>1. TruthInv' /\ SafeInv /\ Next
  BY TruthStep DEF AuditInv, TruthInv, CampaignStep
<1>2. Accounted'
  BY AccountKept DEF AuditInv
<1>3. /\ CompletedHasTraded'
      /\ \A s \in Slots :
           Status(s) = "completed_reconciled" => Status(s)' = "completed_reconciled"
  BY <1>1, CompletedKept DEF AuditInv
<1>4. reader' = [reader EXCEPT !.watched = @ \/ (reader.step = "list" /\ lock' # Nobody)]
  BY DEF CampaignStep
<1>5. /\ reader'.step = reader.step /\ reader'.expected = reader.expected
      /\ reader'.records = reader.records
      /\ reader'.watched = (reader.watched \/ (reader.step = "list" /\ lock' # Nobody))
      /\ ReaderShape'
  BY <1>4 DEF AuditInv, ReaderShape
<1>6. orphans # {} => orphans' # {}
  BY DEF CampaignStep
<1>7. lock = Nobody => Referenced(ledger)' = Referenced(ledger)
  BY <1>1, FilesMove DEF Referenced
<1>8. ReaderKnows'
  <2>1. reader.records \subseteq Slots
    BY DEF AuditInv, ReaderShape
  <2>2. ASSUME NEW s \in Slots, Status(s) = "completed_reconciled", s \notin quoted
        PROVE  s \notin quoted'
    <3>1. At("flatten") => s # Slot
      BY <1>1, <2>2 DEF SafeInv, HolderSafe, DuringTheAttempt, At
    <3>2. QED
      BY <2>2, <3>1 DEF CampaignStep
  <2>3. Unquoted => Unquoted'
    BY <1>3, <2>2 DEF Unquoted
  <2>4. QED
    BY <1>3, <1>5, <1>6, <1>7, <2>1, <2>3 DEF AuditInv, ReaderKnows
<1>9. QED
  BY <1>1, <1>2, <1>3, <1>5, <1>8 DEF AuditInv

\* ... and a step of the reader.
LEMMA AuditReaderStep ==
  ASSUME AuditInv, ReaderStep
  PROVE  AuditInv'
<1>1. UNCHANGED <<vars, quoted, orphans>>
  BY DEF ReaderStep
<1>2. TruthInv' /\ Accounted' /\ CompletedHasTraded'
  <2>1. TruthInv'
    BY <1>1, TruthStep DEF AuditInv
  <2>2. CompletedHasTraded'
    BY <1>1, CompletedKept DEF AuditInv
  <2>3. Accounted'
    BY <1>1 DEF AuditInv, Accounted, Published, Referenced, At, Slot, vars
  <2>4. QED
    BY <2>1, <2>2, <2>3
<1>3. /\ ReaderShape /\ Accounted /\ ReaderKnows /\ SafeInv /\ JobShape /\ OneUnsettled
      /\ ledger \in Ledger
  BY DEF AuditInv, TruthInv, SafeInv, TypeInv, MarketSafe, LedgerIsKept
<1>4. ASSUME reader' = [NoReader EXCEPT !.step = "unreadable"]
             \/ reader' = [NoReader EXCEPT !.step = "incomplete"]
      PROVE  ReaderShape' /\ reader'.step \in {"unreadable", "incomplete"}
  BY <1>4 DEF NoReader, ReaderShape, ReaderSteps
<1>5. CASE ReadState
  <2>1. \/ reader' = [NoReader EXCEPT !.step = "unreadable"]
        \/ reader' = [reader EXCEPT !.step = "list", !.expected = Referenced(ledger),
                                   !.watched = lock # Nobody]
    BY <1>5 DEF ReadState, Ends
  <2>2. CASE reader' = [NoReader EXCEPT !.step = "unreadable"]
    <3>1. ReaderShape' /\ reader'.step = "unreadable"
      BY <1>4, <2>2 DEF NoReader
    <3>2. QED
      BY <1>2, <3>1 DEF AuditInv, ReaderKnows
  <2>3. CASE reader' = [reader EXCEPT !.step = "list", !.expected = Referenced(ledger),
                                      !.watched = lock # Nobody]
    <3>1. Referenced(ledger) \subseteq Slots
      BY DEF Referenced
    <3>2. /\ ReaderShape' /\ reader'.step = "list" /\ reader'.expected = Referenced(ledger)
          /\ reader'.watched = (lock # Nobody)
      BY <1>3, <2>3, <3>1 DEF ReaderShape, ReaderSteps
    <3>3. lock' = lock /\ Referenced(ledger)' = Referenced(ledger)
      BY <1>1 DEF vars, Referenced
    <3>4. QED
      BY <1>2, <3>2, <3>3 DEF AuditInv, ReaderKnows
  <2>4. QED
    BY <2>1, <2>2, <2>3
<1>6. CASE ListBundles
  <2>1. /\ reader.step = "list"
        /\ \E st \in {"load", "refused"} :
             /\ reader' = [reader EXCEPT !.step = st, !.expected = {}]
             /\ st = "refused" => ~(Published = reader.expected /\ Valid(ledger))
    BY <1>6 DEF ListBundles
  <2>2. /\ ReaderShape' /\ reader'.step \in {"load", "refused"}
        /\ reader'.watched = reader.watched
        /\ reader'.step = "refused" => ~(Published = reader.expected /\ Valid(ledger))
    BY <1>3, <2>1 DEF ReaderShape, ReaderSteps
  <2>3. Valid(ledger)
    BY <1>3 DEF Valid, OneUnsettled, Unsettled, Status
  <2>4. ~reader.watched /\ orphans = {} => Published = reader.expected
    <3>1. SUFFICES ASSUME ~reader.watched, orphans = {}
                   PROVE  Published = reader.expected
      OBVIOUS
    <3>2. lock = Nobody /\ reader.expected = Referenced(ledger)
      BY <1>3, <2>1, <3>1 DEF ReaderKnows
    <3>3. ~At("finalize")
      BY <1>3, <3>2 DEF JobShape, At
    <3>4. QED
      BY <1>3, <3>1, <3>2, <3>3 DEF Accounted
  <2>5. QED
    BY <1>1, <1>2, <2>2, <2>3, <2>4 DEF AuditInv, ReaderKnows
<1>7. CASE LoadRecords
  <2>1. \/ reader' = [NoReader EXCEPT !.step = "incomplete"]
        \/ reader' = [NoReader EXCEPT !.step = "loaded", !.records = Loadable(ledger)]
    BY <1>7 DEF LoadRecords, Ends
  <2>2. CASE reader' = [NoReader EXCEPT !.step = "incomplete"]
    <3>1. ReaderShape' /\ reader'.step = "incomplete"
      BY <1>4, <2>2 DEF NoReader
    <3>2. ~(\A s \in Loadable(ledger) : Records(s) = Legs)
      BY <1>7, <3>1 DEF LoadRecords, NoReader
    <3>3. PICK s \in Slots : Status(s) = "completed_reconciled" /\ Records(s) # Legs
      BY <3>2 DEF Loadable, Status
    <3>4. /\ ledger.rows[s].referenced /\ ledger.rows[s].entry > 0
          /\ ledger.rows[s].status = "completed_reconciled" /\ RowIsTrue(s)
      BY <3>3 DEF AuditInv, CompletedHasTraded, TruthInv, FilesTrue, Status
    <3>5. /\ bundles[s].entry = ledger.rows[s].entry
          /\ bundles[s].exit = ledger.rows[s].exit
          /\ ledger.rows[s].exit = ledger.rows[s].entry
      BY <3>4 DEF RowIsTrue, AtRisk, Balanced
    <3>6. /\ bundles[s]["entry"] > 0 /\ bundles[s]["exit"] > 0
      BY <3>4, <3>5
    <3>7. s \notin quoted
      BY <3>3, <3>6 DEF Records, Legs
    <3>8. Unquoted'
      BY <1>1, <3>3, <3>7 DEF Unquoted, Status, vars
    <3>9. QED
      BY <1>2, <3>1, <3>8 DEF AuditInv, ReaderKnows
  <2>3. CASE reader' = [NoReader EXCEPT !.step = "loaded", !.records = Loadable(ledger)]
    <3>1. reader' = [step |-> "loaded", expected |-> {}, records |-> Loadable(ledger),
                     watched |-> FALSE]
      BY <2>3 DEF NoReader
    <3>2. Loadable(ledger) \subseteq Slots
      BY DEF Loadable
    <3>3. ReaderShape' /\ reader'.step = "loaded" /\ reader'.records = Loadable(ledger)
      BY <3>1, <3>2 DEF ReaderShape, ReaderSteps
    <3>4. \A s \in Loadable(ledger) : Status(s)' = "completed_reconciled"
      BY <1>1 DEF Loadable, Status, vars
    <3>5. QED
      BY <1>2, <3>3, <3>4 DEF AuditInv, ReaderKnows
  <2>4. QED
    BY <2>1, <2>2, <2>3
<1>8. QED
  BY <1>5, <1>6, <1>7 DEF ReaderStep

\* A reader that has not found a ledger yet.
Unread ==
  /\ ReaderShape /\ orphans = {}
  /\ reader.step \in {"idle", "unreadable"}

\* It finds none as long as none is written.
LEMMA StillUnread ==
  ASSUME BeforeActivation, Unread, OneActivates, [AuditNext]_auditVars
  PROVE  (BeforeActivation' \/ JustActivated') /\ Unread'
<1>1. ledger = Absent /\ ~At("finalize")
  BY Blanks DEF BeforeActivation, Untouched, At
<1>2. ReaderShape /\ orphans = {} /\ reader.step \in {"idle", "unreadable"}
  BY DEF Unread
<1>3. CASE CampaignStep
  <2>1. BeforeActivation' \/ JustActivated'
    BY <1>3, Activating DEF CampaignStep
  <2>2. orphans' = {}
    BY <1>1, <1>2, <1>3 DEF CampaignStep, DiesBeforeFinalizing
  <2>3. reader' = [reader EXCEPT !.watched = @ \/ (reader.step = "list" /\ lock' # Nobody)]
    BY <1>3 DEF CampaignStep
  <2>4. ReaderShape' /\ reader'.step = reader.step
    BY <1>2, <2>3 DEF ReaderShape
  <2>5. QED
    BY <1>2, <2>1, <2>2, <2>4 DEF Unread
<1>4. CASE ReaderStep
  <2>1. UNCHANGED <<vars, orphans>>
    BY <1>4 DEF ReaderStep
  <2>2. BeforeActivation' \/ JustActivated'
    BY <2>1, Activating
  <2>3. reader' = [NoReader EXCEPT !.step = "unreadable"]
    BY <1>1, <1>2, <1>4 DEF ReaderStep, ReadState, ListBundles, LoadRecords, Ends
  <2>4. ReaderShape' /\ reader'.step = "unreadable"
    BY <2>3 DEF NoReader, ReaderShape, ReaderSteps
  <2>5. QED
    BY <1>2, <2>1, <2>2, <2>4 DEF Unread
<1>5. CASE UNCHANGED auditVars
  <2>1. UNCHANGED <<vars, orphans, reader>>
    BY <1>5 DEF auditVars
  <2>2. BeforeActivation' \/ JustActivated'
    BY <2>1, Activating
  <2>3. QED
    BY <2>1, <2>2 DEF Unread, ReaderShape
<1>6. QED
  BY <1>3, <1>4, <1>5 DEF AuditNext

\* A reader that is there when the ledger is written knows nothing wrong of it.
LEMMA AuditStart == JustActivated /\ Unread => AuditInv
<1> SUFFICES ASSUME JustActivated, Unread
             PROVE  AuditInv
  OBVIOUS
<1>1. /\ TruthInv /\ ledger = InitialCampaignState /\ job = NoJob
      /\ bundles = [s \in Slots |-> NoBundle]
  BY TruthStart DEF JustActivated, Untouched
<1>2. Accounted /\ CompletedHasTraded
  BY <1>1, Blanks
  DEF Accounted, CompletedHasTraded, Published, Referenced, Status, InitialCampaignState,
      FreshRow, At
<1>3. ReaderShape /\ ReaderKnows
  BY DEF Unread, ReaderKnows
<1>4. QED
  BY <1>1, <1>2, <1>3 DEF AuditInv

LEMMA AuditAlways ==
  AuditSpec /\ []OneActivates => []((BeforeActivation /\ Unread) \/ AuditInv)
<1>1. AuditInit => (BeforeActivation \/ JustActivated) /\ Unread
  BY Beginning DEF AuditInit, Unread, NoReader, ReaderShape, ReaderSteps
<1>2. BeforeActivation /\ Unread /\ OneActivates /\ [AuditNext]_auditVars
        => (BeforeActivation' \/ JustActivated') /\ Unread'
  BY StillUnread
<1>3. JustActivated /\ Unread => AuditInv
  BY AuditStart
<1>4. AuditInv /\ [AuditNext]_auditVars => AuditInv'
  <2>1. SUFFICES ASSUME AuditInv, [AuditNext]_auditVars PROVE AuditInv'
    OBVIOUS
  <2>2. CASE UNCHANGED auditVars
    <3>1. UNCHANGED <<vars, quoted, orphans, reader>>
      BY <2>2 DEF auditVars
    <3>2. TruthInv' /\ CompletedHasTraded'
      BY <2>1, <3>1, TruthStep, CompletedKept DEF AuditInv
    <3>3. Accounted' /\ ReaderShape' /\ ReaderKnows'
      BY <2>1, <3>1
      DEF AuditInv, Accounted, Published, Referenced, At, Slot, vars, ReaderShape,
          ReaderKnows, Status, Unquoted
    <3>4. QED
      BY <3>2, <3>3 DEF AuditInv
  <2>3. QED
    BY <2>1, <2>2, AuditCampaignStep, AuditReaderStep DEF AuditNext
<1>5. QED
  BY <1>1, <1>2, <1>3, <1>4, PTL DEF AuditSpec

\* What the loader returns took place and is over, though the ledger it loads
\* from is not the one it has audited (load_reconciled_execution_records).
THEOREM LoadedTruthful == AuditSpec /\ []OneActivates => []LoadedIsTrue
<1>1. AuditInv => LoadedIsTrue
  <2>1. SUFFICES ASSUME AuditInv, reader.step = "loaded", NEW s \in reader.records
                 PROVE  /\ orders[s]["entry"].filled > 0
                        /\ bundles[s].entry = orders[s]["entry"].filled
                        /\ ~AtRisk(s)
    BY DEF LoadedIsTrue
  <2>2. s \in Slots /\ Status(s) = "completed_reconciled"
    BY <2>1 DEF AuditInv, ReaderShape, ReaderKnows
  <2>3. /\ ledger.rows[s].referenced /\ ledger.rows[s].entry > 0
        /\ ledger.rows[s].status = "completed_reconciled" /\ RowIsTrue(s)
    BY <2>1, <2>2 DEF AuditInv, CompletedHasTraded, TruthInv, FilesTrue, Status
  <2>4. QED
    BY <2>3 DEF RowIsTrue
<1>2. BeforeActivation /\ Unread => LoadedIsTrue
  BY DEF Unread, LoadedIsTrue
<1>3. QED
  BY <1>1, <1>2, AuditAlways, PTL

\* A refused audit has met a scheduler at work or an attempt that died between
\* its bundle and the ledger (audit_live_campaign); a loader that gives nothing
\* has met a completed slot whose flatten had no quote.
THEOREM RefusalsExplained == AuditSpec /\ []OneActivates => []RefusedForAReason
<1>1. AuditInv => RefusedForAReason
  <2>1. Unquoted => ~(Loadable(ledger) \subseteq quoted)
    BY DEF Unquoted, Loadable, Status
  <2>2. QED
    BY <2>1 DEF AuditInv, ReaderKnows, RefusedForAReason
<1>2. BeforeActivation /\ Unread => RefusedForAReason
  BY DEF Unread, RefusedForAReason
<1>3. QED
  BY <1>1, <1>2, AuditAlways, PTL

=============================================================================
