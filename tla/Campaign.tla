------------------------------- MODULE Campaign -------------------------------
(***************************************************************************)
(* The Day 22 paper calibration campaign: scheduler processes (the watcher *)
(* of scripts/run_day22_live_campaign.py) share a campaign directory, that *)
(* is the ledger file, the slot bundles and an advisory lock, and trade    *)
(* one SPY round trip per slot with a broker that fills orders when it     *)
(* pleases.  A process may die at any step: an exception that no handler   *)
(* catches and a crash both drop the lock and leave the files as they are. *)
(*                                                                         *)
(* The steps of a slot attempt are those that read or write the ledger,    *)
(* the bundles or the broker; everything the lock holder keeps in local    *)
(* variables is the record `job'.  The gates that depend on nothing        *)
(* modelled (preflight, market hours, hashes, quotes) are a free choice.   *)
(***************************************************************************)
EXTENDS Integers, FiniteSets

CONSTANTS
  Procs,       \* scheduler processes
  N,           \* slots of the frozen schedule
  Qty,         \* the frozen order quantity, in the broker's smallest lots
  MaxPolls,    \* MAX_POLLS_PER_PHASE
  EntryCap,    \* DAY22_MAX_ROUND_TRIPS
  SessionCap,  \* DAY22_MAX_SESSION_ROUND_TRIPS
  Activated,   \* is the campaign directory initialised beforehand?
  Nobody       \* the holder of a free lock

ASSUME CampaignAssumption ==
  /\ N \in Nat \ {0} /\ Qty \in Nat \ {0} /\ MaxPolls \in Nat
  /\ EntryCap \in Nat /\ SessionCap \in Nat
  /\ Activated \in BOOLEAN
  /\ Nobody \notin Procs

Slots == 1..N
Legs == {"entry", "exit"}

VARIABLES
  clock,     \* 2s-1 inside the window of slot s, 2s once it has passed
  ledger,    \* campaign_state.json
  bundles,   \* the slot_NN directories
  lock,      \* the holder of campaign.lock
  proc,      \* where each scheduler process is
  seenAt,    \* the time each process sampled before it took the lock
  job,       \* the local variables of the lock holder
  orders,    \* broker: the order of each slot and leg
  position   \* broker: the SPY position

files == <<ledger, bundles>>
broker == <<orders, position>>
vars == <<clock, ledger, bundles, lock, proc, seenAt, job, orders, position>>

-----------------------------------------------------------------------------
(* The frozen schedule *)

Session(s) == (s + 1) \div 2
Direction(s) == IF s % 2 = 1 THEN 1 ELSE -1     \* buy, sell, buy, sell, ...
InWindow(s, t) == t = 2 * s - 1
(* Faulty: the end of a window still counts as inside it. *)
PassedAfter(s, t) == t > 2 * s
Passed(s, t) == t >= 2 * s
CampaignFinished(t) == t >= 2 * N

-----------------------------------------------------------------------------
(* The ledger *)

SlotStatuses ==
  {"authorized_scheduled", "in_progress", "completed_reconciled",
   "manual_recovery_required", "skipped_or_incomplete_reconciled",
   "skipped_missed_window"}

Row == [status : SlotStatuses, submitted : BOOLEAN,
        entry : 0..Qty, exit : 0..Qty, referenced : BOOLEAN]

FreshRow == [status |-> "authorized_scheduled", submitted |-> FALSE,
             entry |-> 0, exit |-> 0, referenced |-> FALSE]

Ledger == [latch : BOOLEAN, rows : [Slots -> Row]]

InitialCampaignState == [latch |-> FALSE, rows |-> [s \in Slots |-> FreshRow]]

Absent == [latch |-> FALSE, rows |-> <<>>]      \* there is no state file yet

Status(s) == ledger.rows[s].status
Scheduled(s) == Status(s) = "authorized_scheduled"

\* validate_campaign_state: the rest of it compares constants of the freeze.
Valid(l) == (\E s \in Slots : l.rows[s].status = "in_progress") => l.latch

\* The missed slots of an observation, and the one it finds due.
Missed(t) == {s \in Slots : Scheduled(s) /\ Passed(s, t)}
Due(s, t) == Scheduled(s) /\ InWindow(s, t)

Submitted == {s \in Slots : ledger.rows[s].submitted}

\* The gates that read the ledger.
LedgerAllows(s) ==
  /\ ~ledger.latch
  /\ Cardinality(Submitted) < EntryCap
  /\ Cardinality({t \in Submitted : Session(t) = Session(s)}) < SessionCap

-----------------------------------------------------------------------------
(* Slot results *)

Result == [submitted : BOOLEAN, entry : 0..Qty, exit : 0..Qty,
           reconciled : BOOLEAN]
NoBundle == [submitted |-> FALSE]

\* _empty_result: nothing was submitted, so nothing has to be recovered.
Skip == [submitted |-> FALSE, entry |-> 0, exit |-> 0, reconciled |-> TRUE]

FinalStatus(r) ==
  IF r.entry > 0 /\ r.reconciled THEN "completed_reconciled"
  ELSE IF ~r.reconciled THEN "manual_recovery_required"
  ELSE "skipped_or_incomplete_reconciled"

-----------------------------------------------------------------------------
(* The broker *)

Order == [state : {"none", "sent", "lost", "open", "done"},
          quantity : 0..Qty, filled : 0..Qty]
NoOrder == [state |-> "none", quantity |-> 0, filled |-> 0]

OpenOrders == {o \in Slots \X Legs : orders[o[1]][o[2]].state = "open"}
InHistory(s, leg) == orders[s][leg].state \in {"open", "done"}

Balanced(s) == orders[s]["entry"].filled = orders[s]["exit"].filled
Live(s) == \E leg \in Legs : orders[s][leg].state \in {"sent", "open"}
AtRisk(s) == Live(s) \/ ~Balanced(s)

Signed(s, leg) == IF leg = "entry" THEN Direction(s) ELSE -Direction(s)

-----------------------------------------------------------------------------
(* The lock holder's local state *)

Steps == {"none", "mark", "select", "open", "position", "history", "begin",
          "submit", "await", "poll", "flatten", "closingOpen",
          "closingPosition", "store", "finalize"}

Job == [step : Steps, slot : 0..N, round : 0..2, clear : BOOLEAN,
        leg : Legs, polls : 0..MaxPolls, cancelled : BOOLEAN,
        filled : 0..Qty, over : BOOLEAN, result : Result]

NoJob == [step |-> "none", slot |-> 0, round |-> 0, clear |-> FALSE,
          leg |-> "entry", polls |-> 0, cancelled |-> FALSE,
          filled |-> 0, over |-> FALSE, result |-> Skip]

At(step) == job.step = step
Slot == job.slot
CurrentOrder == orders[Slot][job.leg]

ProcStates == {"idle", "create", "wait", "running", "dead", "finished"}

TypeOK ==
  /\ clock \in 0..(2 * N)
  /\ ledger = Absent \/ ledger \in Ledger
  /\ bundles \in [Slots -> Result \cup {NoBundle}]
  /\ lock \in Procs \cup {Nobody}
  /\ proc \in [Procs -> ProcStates]
  /\ seenAt \in [Procs -> 0..(2 * N)]
  /\ job \in Job
  /\ orders \in [Slots -> [Legs -> Order]]
  /\ position \in Int

-----------------------------------------------------------------------------
Init ==
  /\ clock = 0
  /\ ledger = IF Activated THEN InitialCampaignState ELSE Absent
  /\ bundles = [s \in Slots |-> NoBundle]
  /\ lock = Nobody
  /\ proc = [p \in Procs |-> "idle"]
  /\ seenAt = [p \in Procs |-> 0]
  /\ job = NoJob
  /\ orders = [s \in Slots |-> [leg \in Legs |-> NoOrder]]
  /\ position = 0

-----------------------------------------------------------------------------
(* A pass of the watch loop, up to the lock *)

(* Faulty: the initial state is written at every start. *)
WakeToCreate(p) ==
  /\ proc[p] = "idle"
  /\ seenAt' = [seenAt EXCEPT ![p] = clock]
  /\ proc' = [proc EXCEPT ![p] = "create"]
  /\ UNCHANGED <<clock, files, lock, job, broker>>

\* watch_campaign samples the time; initialize_live_campaign looks for the file.
Wake(p) ==
  /\ proc[p] = "idle"
  /\ seenAt' = [seenAt EXCEPT ![p] = clock]
  /\ proc' = [proc EXCEPT ![p] = IF ledger = Absent THEN "create" ELSE "wait"]
  /\ UNCHANGED <<clock, files, lock, job, broker>>

\* ... and writes the initial state if it did not see one.
CreateLedger(p) ==
  /\ proc[p] = "create"
  /\ ledger' = InitialCampaignState
  /\ proc' = [proc EXCEPT ![p] = "wait"]
  /\ UNCHANGED <<clock, bundles, lock, seenAt, job, broker>>

TakeLock(p) ==
  /\ proc[p] = "wait"
  /\ lock = Nobody
  /\ lock' = p
  /\ proc' = [proc EXCEPT ![p] = "running"]
  /\ job' = [NoJob EXCEPT !.step = "mark"]
  /\ UNCHANGED <<clock, files, seenAt, broker>>

\* The lock is non-blocking: a busy lock is a RuntimeError that ends the process.
LockBusy(p) ==
  /\ proc[p] = "wait"
  /\ lock # Nobody
  /\ proc' = [proc EXCEPT ![p] = "dead"]
  /\ UNCHANGED <<clock, files, lock, seenAt, job, broker>>

\* Leaving the `with' block, and what the watch loop makes of the summary.
Return(latched) ==
  /\ lock' = Nobody
  /\ proc' = [proc EXCEPT ![lock] =
                IF latched \/ CampaignFinished(seenAt[lock])
                THEN "finished" ELSE "idle"]
  /\ job' = NoJob

\* An exception: the lock is released and nothing is undone.
Raise ==
  /\ lock' = Nobody
  /\ proc' = [proc EXCEPT ![lock] = "dead"]
  /\ job' = NoJob
  /\ UNCHANGED <<clock, files, seenAt, broker>>

Goto(step) == job' = [job EXCEPT !.step = step]

-----------------------------------------------------------------------------
(* Finding the due slot *)

MarkMissedSlots ==
  /\ At("mark")
  /\ Valid(ledger)
  /\ ledger' = [ledger EXCEPT !.rows =
       [s \in Slots |-> IF s \in Missed(seenAt[lock])
                        THEN [@[s] EXCEPT !.status = "skipped_missed_window"]
                        ELSE @[s]]]
  /\ Goto("select")
  /\ UNCHANGED <<clock, bundles, lock, proc, seenAt, broker>>

NothingToDo ==
  /\ At("select")
  /\ ledger.latch \/ \A s \in Slots : ~Due(s, seenAt[lock])
  /\ Return(ledger.latch)
  /\ UNCHANGED <<clock, files, seenAt, broker>>

(* Faulty: the early return on a latched ledger is dropped. *)
SelectThoughLatched ==
  /\ At("select")
  /\ \E s \in Slots :
       /\ Due(s, seenAt[lock])
       /\ job' = [job EXCEPT !.step = "open", !.slot = s, !.round = 1,
                             !.clear = LedgerAllows(s)]
  /\ UNCHANGED <<clock, files, lock, proc, seenAt, broker>>

SelectDueSlot ==
  /\ At("select")
  /\ ~ledger.latch
  /\ \E s \in Slots :
       /\ Due(s, seenAt[lock])
       /\ job' = [job EXCEPT !.step = "open", !.slot = s, !.round = 1,
                             !.clear = LedgerAllows(s)]
  /\ UNCHANGED <<clock, files, lock, proc, seenAt, broker>>

-----------------------------------------------------------------------------
(* The gates: two rounds of reads around the quote *)

\* The first round takes the time before its reads, the second one after them.
ReadOpenOrders ==
  /\ At("open")
  /\ job' = [job EXCEPT !.step = "position",
       !.clear = /\ @
                 /\ OpenOrders = {}
                 /\ job.round = 1 => InWindow(Slot, clock)]
  /\ UNCHANGED <<clock, files, lock, proc, seenAt, broker>>

ReadPosition ==
  /\ At("position")
  /\ job' = [job EXCEPT !.step = "history", !.clear = @ /\ position = 0]
  /\ UNCHANGED <<clock, files, lock, proc, seenAt, broker>>

\* A failed gate is a skip; the gates outside the model may fail at will.
ReadHistory ==
  /\ At("history")
  /\ \E othersPass \in BOOLEAN :
       LET passed == /\ job.clear
                     /\ ~InHistory(Slot, "entry")
                     /\ job.round = 2 => InWindow(Slot, clock)
                     /\ othersPass
       IN job' = IF ~passed
                 THEN [job EXCEPT !.step = "store", !.result = Skip,
                                  !.clear = FALSE, !.round = 0]
                 ELSE IF job.round = 1
                 THEN [job EXCEPT !.step = "open", !.round = 2]
                 ELSE [job EXCEPT !.step = "begin", !.clear = FALSE, !.round = 0]
  /\ UNCHANGED <<clock, files, lock, proc, seenAt, broker>>

-----------------------------------------------------------------------------
(* The entry and flatten legs *)

(* Faulty: the attempt is recorded without arming recovery. *)
BeginWithoutLatch ==
  /\ At("begin")
  /\ Scheduled(Slot)
  /\ ledger' = [ledger EXCEPT !.rows[Slot].status = "in_progress"]
  /\ Goto("submit")
  /\ UNCHANGED <<clock, bundles, lock, proc, seenAt, broker>>

\* begin_slot_attempt: in_progress and the latch, before any mutation.
BeginSlotAttempt ==
  /\ At("begin")
  /\ Valid(ledger) /\ Scheduled(Slot)
  /\ ledger' = [ledger EXCEPT !.latch = TRUE,
                              !.rows[Slot].status = "in_progress"]
  /\ Goto("submit")
  /\ UNCHANGED <<clock, bundles, lock, proc, seenAt, broker>>

\* The quote or the window ran out while the intent was being persisted.
LateForSubmission ==
  /\ At("submit")
  /\ job' = [job EXCEPT !.step = "store", !.result = Skip]
  /\ UNCHANGED <<clock, files, lock, proc, seenAt, broker>>

\* A client_order_id the broker knows is refused, with an exception.
Refused == orders[Slot][job.leg].state \notin {"none", "lost"}

Send(leg, quantity) ==
  /\ orders' = [orders EXCEPT ![Slot][leg] =
                  [state |-> "sent", quantity |-> quantity, filled |-> 0]]
  /\ UNCHANGED position

\* Faulty: the time is not read again once the intent is persisted.
SubmitUntimed ==
  /\ At("submit")
  /\ ~Refused
  /\ Send("entry", Qty)
  /\ job' = [job EXCEPT !.step = "await", !.leg = "entry",
                        !.result = [Skip EXCEPT !.submitted = TRUE]]
  /\ UNCHANGED <<clock, files, lock, proc, seenAt>>

SubmitEntry ==
  /\ At("submit")
  /\ InWindow(Slot, clock)
  /\ ~Refused
  /\ Send("entry", Qty)
  /\ job' = [job EXCEPT !.step = "await", !.leg = "entry",
                        !.result = [Skip EXCEPT !.submitted = TRUE]]
  /\ UNCHANGED <<clock, files, lock, proc, seenAt>>

(* Faulty: the flatten trades the slot's quantity, not the confirmed fill. *)
FlattenSlotQuantity ==
  /\ At("flatten")
  /\ ~Refused
  /\ Send("exit", Qty)
  /\ Goto("await")
  /\ UNCHANGED <<clock, files, lock, proc, seenAt>>

SubmitFlatten ==
  /\ At("flatten")
  /\ ~Refused
  /\ Send("exit", job.result.entry)
  /\ Goto("await")
  /\ UNCHANGED <<clock, files, lock, proc, seenAt>>

Snapshot ==
  [filled |-> CurrentOrder.filled, over |-> CurrentOrder.state = "done"]

ReceiveResponse ==
  /\ At("await")
  /\ CurrentOrder.state \in {"open", "done"}
  /\ job' = [job EXCEPT !.step = "poll", !.polls = 0, !.cancelled = FALSE,
                        !.filled = Snapshot.filled, !.over = Snapshot.over]
  /\ UNCHANGED <<clock, files, lock, proc, seenAt, broker>>

PollOrder ==
  /\ At("poll")
  /\ ~job.over /\ job.polls < MaxPolls
  /\ job' = [job EXCEPT !.polls = @ + 1, !.filled = Snapshot.filled,
                        !.over = Snapshot.over]
  /\ UNCHANGED <<clock, files, lock, proc, seenAt, broker>>

\* A cancel is a request: the order ends when the broker says so.
CancelOrder ==
  /\ At("poll")
  /\ ~job.over /\ job.polls = MaxPolls /\ ~job.cancelled
  /\ job' = [job EXCEPT !.polls = 0, !.cancelled = TRUE]
  /\ UNCHANGED <<clock, files, lock, proc, seenAt, broker>>

\* The fill that counts is the last one polled, the order ended or not.
EndLeg ==
  /\ At("poll")
  /\ job.over \/ (job.polls = MaxPolls /\ job.cancelled)
  /\ LET rest == [job EXCEPT !.polls = 0, !.cancelled = FALSE,
                             !.filled = 0, !.over = FALSE]
     IN job' = IF job.leg = "entry"
               THEN IF job.filled > 0
                    THEN [rest EXCEPT !.step = "flatten", !.leg = "exit",
                                      !.result.entry = job.filled]
                    ELSE [rest EXCEPT !.step = "closingOpen"]
               ELSE [rest EXCEPT !.step = "closingOpen", !.leg = "entry",
                                 !.result.exit = job.filled]
  /\ UNCHANGED <<clock, files, lock, proc, seenAt, broker>>

-----------------------------------------------------------------------------
(* Shutdown reconciliation and the two writes that close a slot *)

(* Faulty: shutdown compares the two fills and skips the broker's orders. *)
ClosingWithoutOrders ==
  /\ At("closingOpen")
  /\ job' = [job EXCEPT !.step = "closingPosition", !.clear = TRUE]
  /\ UNCHANGED <<clock, files, lock, proc, seenAt, broker>>

ClosingOpenOrders ==
  /\ At("closingOpen")
  /\ job' = [job EXCEPT !.step = "closingPosition", !.clear = OpenOrders = {}]
  /\ UNCHANGED <<clock, files, lock, proc, seenAt, broker>>

ClosingPosition ==
  /\ At("closingPosition")
  /\ job' = [job EXCEPT !.step = "store", !.clear = FALSE,
       !.result.reconciled = /\ job.clear
                             /\ position = 0
                             /\ job.result.entry = job.result.exit]
  /\ UNCHANGED <<clock, files, lock, proc, seenAt, broker>>

WriteSlotArtifacts ==
  /\ At("store")
  /\ bundles[Slot] = NoBundle
  /\ bundles' = [bundles EXCEPT ![Slot] = job.result]
  /\ Goto("finalize")
  /\ UNCHANGED <<clock, ledger, lock, proc, seenAt, broker>>

(* Faulty: the latch is cleared by any finished attempt. *)
FinalizeClearsLatch ==
  /\ At("finalize")
  /\ LET r == job.result IN
       /\ ledger' = [latch |-> FALSE,
                     rows |-> [ledger.rows EXCEPT ![Slot] =
                       [status |-> FinalStatus(r), submitted |-> r.submitted,
                        entry |-> r.entry, exit |-> r.exit,
                        referenced |-> TRUE]]]
       /\ Return(FALSE)
  /\ UNCHANGED <<clock, bundles, seenAt, broker>>

FinalizeSlotState ==
  /\ At("finalize")
  /\ Status(Slot) \in {"authorized_scheduled", "in_progress"}
  /\ LET r == job.result IN
       /\ ledger' = [latch |-> ~r.reconciled,
                     rows |-> [ledger.rows EXCEPT ![Slot] =
                       [status |-> FinalStatus(r), submitted |-> r.submitted,
                        entry |-> r.entry, exit |-> r.exit,
                        referenced |-> TRUE]]]
       /\ Return(~r.reconciled)
  /\ UNCHANGED <<clock, bundles, seenAt, broker>>

-----------------------------------------------------------------------------
(* Failures *)

\* The steps at which the code itself raises.
RaiseAsWritten ==
  /\ \/ At("mark") /\ ~Valid(ledger)
     \/ At("begin") /\ ~(Valid(ledger) /\ Scheduled(Slot))
     \/ (At("submit") \/ At("flatten")) /\ Refused
     \/ At("await") /\ CurrentOrder.state = "lost"
     \/ At("store") /\ bundles[Slot] # NoBundle
     \/ At("finalize")
          /\ Status(Slot) \notin {"authorized_scheduled", "in_progress"}
  /\ Raise

\* Any broker or file call may fail, and the machine may go down, anywhere.
CrashHolder == lock # Nobody /\ Raise

CrashOutsideLock(p) ==
  /\ proc[p] \in {"idle", "create", "wait"}
  /\ proc' = [proc EXCEPT ![p] = "dead"]
  /\ UNCHANGED <<clock, files, lock, seenAt, job, broker>>

\* An operator starts the script again.
Restart(p) ==
  /\ proc[p] \in {"dead", "finished"}
  /\ proc' = [proc EXCEPT ![p] = "idle"]
  /\ UNCHANGED <<clock, files, lock, seenAt, job, broker>>

-----------------------------------------------------------------------------
(* The environment: the clock and the broker *)

Tick ==
  /\ clock < 2 * N
  /\ clock' = clock + 1
  /\ UNCHANGED <<files, lock, proc, seenAt, job, broker>>

Environment == UNCHANGED <<clock, files, lock, proc, seenAt, job>>

\* A request reaches the broker, however late, or it is lost.
Arrive(s, leg) ==
  /\ orders[s][leg].state = "sent"
  /\ \E state \in {"open", "done", "lost"} :
       orders' = [orders EXCEPT ![s][leg].state = state]
  /\ UNCHANGED position
  /\ Environment

Fill(s, leg) ==
  LET o == orders[s][leg] IN
  /\ o.state = "open"
  /\ orders' = [orders EXCEPT ![s][leg] =
       [o EXCEPT !.filled = @ + 1,
                 !.state = IF o.filled + 1 = o.quantity THEN "done" ELSE "open"]]
  /\ position' = position + Signed(s, leg)
  /\ Environment

\* Canceled, expired or rejected.
Terminate(s, leg) ==
  /\ orders[s][leg].state = "open"
  /\ orders' = [orders EXCEPT ![s][leg].state = "done"]
  /\ UNCHANGED position
  /\ Environment

-----------------------------------------------------------------------------
HolderStep ==
  \/ MarkMissedSlots \/ NothingToDo \/ SelectDueSlot
  \/ ReadOpenOrders \/ ReadPosition \/ ReadHistory
  \/ BeginSlotAttempt \/ LateForSubmission \/ SubmitEntry \/ SubmitFlatten
  \/ ReceiveResponse \/ PollOrder \/ CancelOrder \/ EndLeg
  \/ ClosingOpenOrders \/ ClosingPosition
  \/ WriteSlotArtifacts \/ FinalizeSlotState
  \/ RaiseAsWritten

ProcStep(p) == Wake(p) \/ CreateLedger(p) \/ TakeLock(p) \/ LockBusy(p)

Next ==
  \/ HolderStep
  \/ CrashHolder
  \/ \E p \in Procs : ProcStep(p) \/ CrashOutsideLock(p) \/ Restart(p)
  \/ Tick
  \/ \E s \in Slots, leg \in Legs :
       Arrive(s, leg) \/ Fill(s, leg) \/ Terminate(s, leg)

Spec == Init /\ [][Next]_vars

\* No two processes are about to write the initial state at once: one that
\* looks for the file while another has not written it yet would.
OneActivates ==
  \A p, q \in Procs : proc[p] = "create" /\ proc[q] = "create" => p = q

\* A process that is up keeps running, time passes and requests are answered;
\* nobody is obliged to crash, to restart, to fill or to cancel.
Fairness ==
  /\ WF_vars(HolderStep)
  /\ \A p \in Procs : WF_vars(ProcStep(p))
  /\ WF_vars(Tick)
  /\ \A s \in Slots, leg \in Legs : WF_vars(Arrive(s, leg))

FairSpec == Spec /\ Fairness

-----------------------------------------------------------------------------
(* Properties *)

\* Whatever is left in the market - a request in flight, an open order, an
\* unflattened fill - the ledger is recovery-latched and says whose it is:
\* crashes between any two steps included (spec 7.1, campaign lines 538-812).
ExposureIsLatched ==
  \A s \in Slots : AtRisk(s) =>
    /\ ledger.latch
    /\ Status(s) \in {"in_progress", "manual_recovery_required"}

\* A slot that ended well ended flat: its row is what the bundle says, and
\* what the broker executed, once and for all (finalize_slot_state).
LedgerTellsTheTruth ==
  ledger # Absent =>
    \A s \in Slots : ledger.rows[s].referenced =>
      LET row == ledger.rows[s] IN
      /\ bundles[s] \in Result
      /\ <<row.submitted, row.entry, row.exit>>
           = <<bundles[s].submitted, bundles[s].entry, bundles[s].exit>>
      /\ row.status # "manual_recovery_required" =>
           /\ row.entry = orders[s]["entry"].filled
           /\ row.exit = orders[s]["exit"].filled
           /\ ~AtRisk(s)

\* The flatten never trades more than the entry has filled, even when the
\* entry was still working when its last poll was taken.
FlattenWithinFill ==
  \A s \in Slots : orders[s]["exit"].quantity <= orders[s]["entry"].filled

\* Only the slot that armed the latch clears it, and only when nothing of it
\* is left in the market; no later slot and no other process does.
LatchHolds ==
  [][ledger.latch /\ ~ledger'.latch =>
       \E s \in Slots :
         /\ Status(s) = "in_progress"
         /\ Status(s)' \in {"completed_reconciled",
                            "skipped_or_incomplete_reconciled"}
         /\ ~AtRisk(s)]_vars

\* A consumed slot is never scheduled again, and a final status is final.
ConsumedOnce ==
  [][ledger # Absent =>
       \A s \in Slots :
         Status(s) \notin {"authorized_scheduled", "in_progress"}
           => Status(s)' = Status(s)]_vars

\* However old the time the due slot was chosen from, and whatever the lock and
\* the gates have cost since: an entry leaves in the window of its own slot, and
\* no earlier slot is still waiting for a turn that a later start could give it.
TradedInTurn ==
  [][\A s \in Slots :
       /\ orders[s]["entry"].state # "sent"
       /\ orders'[s]["entry"].state = "sent"
       => /\ InWindow(s, clock)
          /\ \A t \in 1..s-1 : ~Scheduled(t)]_vars

\* Spec 7.1: "Any failed gate records a skip for that frozen slot without an
\* entry submission": no entry is sent for a slot whose bundle is a skip.
RecordedSkipNeverSubmits ==
  \A s \in Slots : bundles[s] = Skip => orders[s]["entry"].state = "none"

\* A scheduler process that is left alone ends, and then no slot is still
\* waiting for its window unless recovery is latched (watch_campaign).
WatcherResolves ==
  \A p \in Procs :
    proc[p] = "idle" ~>
      \/ proc[p] = "dead"
      \/ /\ proc[p] = "finished"
         /\ ledger.latch \/ \A s \in Slots : ~Scheduled(s)

-----------------------------------------------------------------------------
(* The ledger and the broker together implement the promise of RoundTrips. *)

Life(s) ==
  CASE ledger = Absent -> "waiting"
    [] OTHER ->
         CASE Scheduled(s) -> "waiting"
           [] Status(s) \in {"in_progress", "manual_recovery_required"} -> "open"
           [] OTHER -> "closed"

Promise == INSTANCE RoundTrips WITH
  life <- [s \in Slots |-> Life(s)],
  entered <- {s \in Slots : orders[s]["entry"].state # "none"},
  exposed <- {s \in Slots : AtRisk(s)}

\* Every behaviour of the campaign is one of RoundTrips: a slot is consumed
\* once, one attempt is exposed at a time, an unsettled one blocks the rest.
KeepsPromise == Promise!Spec

=============================================================================
