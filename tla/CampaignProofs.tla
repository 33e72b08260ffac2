---------------------------- MODULE CampaignProofs ----------------------------
(***************************************************************************)
(* Proofs about Campaign for every number of slots, scheduler processes,   *)
(* lots and polls.                                                         *)
(***************************************************************************)
EXTENDS Campaign, TLAPS

-----------------------------------------------------------------------------
(* What the steps of the lock holder make of its local variables, the      *)
(* record `job', field by field.  Each way in which a step changes the     *)
(* record has a name here, so that the proofs cite the fields they need    *)
(* and never a nest of updates.                                            *)

\* A skip is a result, and an empty job a job.
LEMMA Blanks ==
  /\ Skip \in Result /\ [Skip EXCEPT !.submitted = TRUE] \in Result
  /\ Skip.reconciled
  /\ NoJob \in Job /\ NoJob.step = "none" /\ NoJob.leg = "entry"
<1>1. 0 \in 0..Qty /\ 0 \in 0..N /\ 0 \in 0..MaxPolls
  BY CampaignAssumption
<1>2. Skip \in Result /\ [Skip EXCEPT !.submitted = TRUE] \in Result
  BY <1>1 DEF Skip, Result
<1>3. NoJob \in Job /\ NoJob.step = "none" /\ NoJob.leg = "entry"
  BY <1>1, <1>2 DEF NoJob, Job, Steps, Legs
<1>4. QED
  BY <1>2, <1>3 DEF Skip

\* Every field of a job may be replaced by a value of its own kind.
LEMMA JobUpdate ==
  ASSUME NEW j \in Job
  PROVE  /\ \A x \in Steps : [j EXCEPT !.step = x] \in Job
         /\ \A x \in 0..N : [j EXCEPT !.slot = x] \in Job
         /\ \A x \in 0..2 : [j EXCEPT !.round = x] \in Job
         /\ \A x \in BOOLEAN : [j EXCEPT !.clear = x] \in Job
         /\ \A x \in Legs : [j EXCEPT !.leg = x] \in Job
         /\ \A x \in 0..MaxPolls : [j EXCEPT !.polls = x] \in Job
         /\ \A x \in BOOLEAN : [j EXCEPT !.cancelled = x] \in Job
         /\ \A x \in 0..Qty : [j EXCEPT !.filled = x] \in Job
         /\ \A x \in BOOLEAN : [j EXCEPT !.over = x] \in Job
         /\ \A x \in Result : [j EXCEPT !.result = x] \in Job
BY DEF Job

\* The job of a slot that was selected.
Selected(j, s, c) == [j EXCEPT !.step = "open", !.slot = s, !.round = 1, !.clear = c]

\* It is a job, with the values it replaces and those it keeps.
LEMMA JobSelected ==
  ASSUME NEW j \in Job, NEW s \in 0..N, NEW c \in BOOLEAN
  PROVE  /\ Selected(j, s, c) \in Job
         /\ Selected(j, s, c).step = "open" /\ Selected(j, s, c).slot = s
         /\ Selected(j, s, c).round = 1 /\ Selected(j, s, c).clear = c
         /\ Selected(j, s, c).leg = j.leg /\ Selected(j, s, c).filled = j.filled
         /\ Selected(j, s, c).result = j.result
<1>1. "open" \in Steps /\ 1 \in 0..2
  BY DEF Steps
<1>2. [j EXCEPT !.step = "open"] \in Job
  BY <1>1, JobUpdate
<1>3. [j EXCEPT !.step = "open", !.slot = s] \in Job
  BY <1>1, <1>2, JobUpdate
<1>4. [j EXCEPT !.step = "open", !.slot = s, !.round = 1] \in Job
  BY <1>1, <1>3, JobUpdate
<1>5. Selected(j, s, c) \in Job
  BY <1>1, <1>4, JobUpdate DEF Selected
<1>6. QED
  BY <1>5 DEF Job, Selected

\* The job when a round of gates is over: a skip ...
Skipped(j) == [j EXCEPT !.step = "store", !.result = Skip, !.clear = FALSE, !.round = 0]

\* It is a job, with the values it replaces and those it keeps.
LEMMA JobSkipped ==
  ASSUME NEW j \in Job
  PROVE  /\ Skipped(j) \in Job
         /\ Skipped(j).step = "store" /\ Skipped(j).slot = j.slot
         /\ Skipped(j).round = 0 /\ Skipped(j).clear = FALSE
         /\ Skipped(j).leg = j.leg /\ Skipped(j).filled = j.filled
         /\ Skipped(j).result = Skip
<1>1. "store" \in Steps /\ Skip \in Result /\ 0 \in 0..2
  BY Blanks DEF Steps
<1>2. [j EXCEPT !.step = "store"] \in Job
  BY <1>1, JobUpdate
<1>3. [j EXCEPT !.step = "store", !.result = Skip] \in Job
  BY <1>1, <1>2, JobUpdate
<1>4. [j EXCEPT !.step = "store", !.result = Skip, !.clear = FALSE] \in Job
  BY <1>1, <1>3, JobUpdate
<1>5. Skipped(j) \in Job
  BY <1>1, <1>4, JobUpdate DEF Skipped
<1>6. QED
  BY <1>5 DEF Job, Skipped

\* ... the second round of reads ...
Again(j) == [j EXCEPT !.step = "open", !.round = 2]

\* It is a job, with the values it replaces and those it keeps.
LEMMA JobAgain ==
  ASSUME NEW j \in Job
  PROVE  /\ Again(j) \in Job
         /\ Again(j).step = "open" /\ Again(j).slot = j.slot
         /\ Again(j).round = 2 /\ Again(j).clear = j.clear
         /\ Again(j).leg = j.leg /\ Again(j).filled = j.filled
         /\ Again(j).result = j.result
<1>1. "open" \in Steps /\ 2 \in 0..2
  BY DEF Steps
<1>2. [j EXCEPT !.step = "open"] \in Job
  BY <1>1, JobUpdate
<1>3. Again(j) \in Job
  BY <1>1, <1>2, JobUpdate DEF Again
<1>4. QED
  BY <1>3 DEF Job, Again

\* ... or the attempt.
Begun(j) == [j EXCEPT !.step = "begin", !.clear = FALSE, !.round = 0]

\* It is a job, with the values it replaces and those it keeps.
LEMMA JobBegun ==
  ASSUME NEW j \in Job
  PROVE  /\ Begun(j) \in Job
         /\ Begun(j).step = "begin" /\ Begun(j).slot = j.slot
         /\ Begun(j).round = 0 /\ Begun(j).clear = FALSE
         /\ Begun(j).leg = j.leg /\ Begun(j).filled = j.filled
         /\ Begun(j).result = j.result
<1>1. "begin" \in Steps /\ 0 \in 0..2
  BY DEF Steps
<1>2. [j EXCEPT !.step = "begin"] \in Job
  BY <1>1, JobUpdate
<1>3. [j EXCEPT !.step = "begin", !.clear = FALSE] \in Job
  BY <1>1, <1>2, JobUpdate
<1>4. Begun(j) \in Job
  BY <1>1, <1>3, JobUpdate DEF Begun
<1>5. QED
  BY <1>4 DEF Job, Begun

\* The job with the response to a submission ...
Answered(j, f, o) ==
  [j EXCEPT !.step = "poll", !.polls = 0, !.cancelled = FALSE, !.filled = f, !.over = o]

\* It is a job, with the values it replaces and those it keeps.
LEMMA JobAnswered ==
  ASSUME NEW j \in Job, NEW f \in 0..Qty, NEW o \in BOOLEAN
  PROVE  /\ Answered(j, f, o) \in Job
         /\ Answered(j, f, o).step = "poll" /\ Answered(j, f, o).slot = j.slot
         /\ Answered(j, f, o).round = j.round /\ Answered(j, f, o).clear = j.clear
         /\ Answered(j, f, o).leg = j.leg /\ Answered(j, f, o).filled = f
         /\ Answered(j, f, o).result = j.result
<1>1. "poll" \in Steps /\ 0 \in 0..MaxPolls
  BY CampaignAssumption DEF Steps
<1>2. [j EXCEPT !.step = "poll"] \in Job
  BY <1>1, JobUpdate
<1>3. [j EXCEPT !.step = "poll", !.polls = 0] \in Job
  BY <1>1, <1>2, JobUpdate
<1>4. [j EXCEPT !.step = "poll", !.polls = 0, !.cancelled = FALSE] \in Job
  BY <1>1, <1>3, JobUpdate
<1>5. [j EXCEPT !.step = "poll", !.polls = 0, !.cancelled = FALSE, !.filled = f] \in Job
  BY <1>1, <1>4, JobUpdate
<1>6. Answered(j, f, o) \in Job
  BY <1>1, <1>5, JobUpdate DEF Answered
<1>7. QED
  BY <1>6 DEF Job, Answered

\* ... with one poll more ...
Polled(j, n, f, o) == [j EXCEPT !.polls = n, !.filled = f, !.over = o]

\* It is a job, with the values it replaces and those it keeps.
LEMMA JobPolled ==
  ASSUME NEW j \in Job, NEW n \in 0..MaxPolls, NEW f \in 0..Qty, NEW o \in BOOLEAN
  PROVE  /\ Polled(j, n, f, o) \in Job
         /\ Polled(j, n, f, o).step = j.step /\ Polled(j, n, f, o).slot = j.slot
         /\ Polled(j, n, f, o).round = j.round /\ Polled(j, n, f, o).clear = j.clear
         /\ Polled(j, n, f, o).leg = j.leg /\ Polled(j, n, f, o).filled = f
         /\ Polled(j, n, f, o).result = j.result
<1>1. TRUE
  OBVIOUS
<1>2. [j EXCEPT !.polls = n] \in Job
  BY <1>1, JobUpdate
<1>3. [j EXCEPT !.polls = n, !.filled = f] \in Job
  BY <1>1, <1>2, JobUpdate
<1>4. Polled(j, n, f, o) \in Job
  BY <1>1, <1>3, JobUpdate DEF Polled
<1>5. QED
  BY <1>4 DEF Job, Polled

\* ... and with the cancel request sent.
Cancelled(j) == [j EXCEPT !.polls = 0, !.cancelled = TRUE]

\* It is a job, with the values it replaces and those it keeps.
LEMMA JobCancelled ==
  ASSUME NEW j \in Job
  PROVE  /\ Cancelled(j) \in Job
         /\ Cancelled(j).step = j.step /\ Cancelled(j).slot = j.slot
         /\ Cancelled(j).round = j.round /\ Cancelled(j).clear = j.clear
         /\ Cancelled(j).leg = j.leg /\ Cancelled(j).filled = j.filled
         /\ Cancelled(j).result = j.result
<1>1. 0 \in 0..MaxPolls
  BY CampaignAssumption
<1>2. [j EXCEPT !.polls = 0] \in Job
  BY <1>1, JobUpdate
<1>3. Cancelled(j) \in Job
  BY <1>1, <1>2, JobUpdate DEF Cancelled
<1>4. QED
  BY <1>3 DEF Job, Cancelled

\* The job after a read: on to the next one, with what was seen.
Read(j, st, c) == [j EXCEPT !.step = st, !.clear = c]

\* It is a job, with the values it replaces and those it keeps.
LEMMA JobRead ==
  ASSUME NEW j \in Job, NEW st \in Steps, NEW c \in BOOLEAN
  PROVE  /\ Read(j, st, c) \in Job
         /\ Read(j, st, c).step = st /\ Read(j, st, c).slot = j.slot
         /\ Read(j, st, c).round = j.round /\ Read(j, st, c).clear = c
         /\ Read(j, st, c).leg = j.leg /\ Read(j, st, c).filled = j.filled
         /\ Read(j, st, c).result = j.result
<1>1. TRUE
  OBVIOUS
<1>2. [j EXCEPT !.step = st] \in Job
  BY <1>1, JobUpdate
<1>3. Read(j, st, c) \in Job
  BY <1>1, <1>2, JobUpdate DEF Read
<1>4. QED
  BY <1>3 DEF Job, Read

\* The job one step on.
Moved(j, st) == [j EXCEPT !.step = st]

\* It is a job, with the values it replaces and those it keeps.
LEMMA JobMoved ==
  ASSUME NEW j \in Job, NEW st \in Steps
  PROVE  /\ Moved(j, st) \in Job
         /\ Moved(j, st).step = st /\ Moved(j, st).slot = j.slot
         /\ Moved(j, st).round = j.round /\ Moved(j, st).clear = j.clear
         /\ Moved(j, st).leg = j.leg /\ Moved(j, st).filled = j.filled
         /\ Moved(j, st).result = j.result
<1>1. TRUE
  OBVIOUS
<1>2. Moved(j, st) \in Job
  BY <1>1, JobUpdate DEF Moved
<1>3. QED
  BY <1>2 DEF Job, Moved

\* The job of an attempt that came too late to submit.
Late(j) == [j EXCEPT !.step = "store", !.result = Skip]

\* It is a job, with the values it replaces and those it keeps.
LEMMA JobLate ==
  ASSUME NEW j \in Job
  PROVE  /\ Late(j) \in Job
         /\ Late(j).step = "store" /\ Late(j).slot = j.slot
         /\ Late(j).round = j.round /\ Late(j).clear = j.clear
         /\ Late(j).leg = j.leg /\ Late(j).filled = j.filled
         /\ Late(j).result = Skip
<1>1. "store" \in Steps /\ Skip \in Result
  BY Blanks DEF Steps
<1>2. [j EXCEPT !.step = "store"] \in Job
  BY <1>1, JobUpdate
<1>3. Late(j) \in Job
  BY <1>1, <1>2, JobUpdate DEF Late
<1>4. QED
  BY <1>3 DEF Job, Late

\* The job of an entry on its way.
Submitting(j) ==
  [j EXCEPT !.step = "await", !.leg = "entry",
            !.result = [Skip EXCEPT !.submitted = TRUE]]

\* It is a job, with the values it replaces and those it keeps.
LEMMA JobSubmitting ==
  ASSUME NEW j \in Job
  PROVE  /\ Submitting(j) \in Job
         /\ Submitting(j).step = "await" /\ Submitting(j).slot = j.slot
         /\ Submitting(j).round = j.round /\ Submitting(j).clear = j.clear
         /\ Submitting(j).leg = "entry" /\ Submitting(j).filled = j.filled
         /\ Submitting(j).result = [Skip EXCEPT !.submitted = TRUE]
<1>1. "await" \in Steps /\ "entry" \in Legs /\ [Skip EXCEPT !.submitted = TRUE] \in Result
  BY Blanks DEF Steps, Legs
<1>2. [j EXCEPT !.step = "await"] \in Job
  BY <1>1, JobUpdate
<1>3. [j EXCEPT !.step = "await", !.leg = "entry"] \in Job
  BY <1>1, <1>2, JobUpdate
<1>4. Submitting(j) \in Job
  BY <1>1, <1>3, JobUpdate DEF Submitting
<1>5. QED
  BY <1>4 DEF Job, Submitting

\* A job whose order's fill has been taken ...
Settled(j) == [j EXCEPT !.polls = 0, !.cancelled = FALSE, !.filled = 0, !.over = FALSE]

\* It is a job, with the values it replaces and those it keeps.
LEMMA JobSettled ==
  ASSUME NEW j \in Job
  PROVE  /\ Settled(j) \in Job
         /\ Settled(j).step = j.step /\ Settled(j).slot = j.slot
         /\ Settled(j).round = j.round /\ Settled(j).clear = j.clear
         /\ Settled(j).leg = j.leg /\ Settled(j).filled = 0
         /\ Settled(j).result = j.result
<1>1. 0 \in 0..MaxPolls /\ 0 \in 0..Qty
  BY CampaignAssumption
<1>2. [j EXCEPT !.polls = 0] \in Job
  BY <1>1, JobUpdate
<1>3. [j EXCEPT !.polls = 0, !.cancelled = FALSE] \in Job
  BY <1>1, <1>2, JobUpdate
<1>4. [j EXCEPT !.polls = 0, !.cancelled = FALSE, !.filled = 0] \in Job
  BY <1>1, <1>3, JobUpdate
<1>5. Settled(j) \in Job
  BY <1>1, <1>4, JobUpdate DEF Settled
<1>6. QED
  BY <1>5 DEF Job, Settled

\* ... goes on to flatten it, ...
Flattening(j, x) == [j EXCEPT !.step = "flatten", !.leg = "exit", !.result = x]

\* It is a job, with the values it replaces and those it keeps.
LEMMA JobFlattening ==
  ASSUME NEW j \in Job, NEW x \in Result
  PROVE  /\ Flattening(j, x) \in Job
         /\ Flattening(j, x).step = "flatten" /\ Flattening(j, x).slot = j.slot
         /\ Flattening(j, x).round = j.round /\ Flattening(j, x).clear = j.clear
         /\ Flattening(j, x).leg = "exit" /\ Flattening(j, x).filled = j.filled
         /\ Flattening(j, x).result = x
<1>1. "flatten" \in Steps /\ "exit" \in Legs
  BY DEF Steps, Legs
<1>2. [j EXCEPT !.step = "flatten"] \in Job
  BY <1>1, JobUpdate
<1>3. [j EXCEPT !.step = "flatten", !.leg = "exit"] \in Job
  BY <1>1, <1>2, JobUpdate
<1>4. Flattening(j, x) \in Job
  BY <1>1, <1>3, JobUpdate DEF Flattening
<1>5. QED
  BY <1>4 DEF Job, Flattening

\* ... or, without a fill, to the shutdown reads, ...
Closing(j) == [j EXCEPT !.step = "closingOpen"]

\* It is a job, with the values it replaces and those it keeps.
LEMMA JobClosing ==
  ASSUME NEW j \in Job
  PROVE  /\ Closing(j) \in Job
         /\ Closing(j).step = "closingOpen" /\ Closing(j).slot = j.slot
         /\ Closing(j).round = j.round /\ Closing(j).clear = j.clear
         /\ Closing(j).leg = j.leg /\ Closing(j).filled = j.filled
         /\ Closing(j).result = j.result
<1>1. "closingOpen" \in Steps
  BY DEF Steps
<1>2. Closing(j) \in Job
  BY <1>1, JobUpdate DEF Closing
<1>3. QED
  BY <1>2 DEF Job, Closing

\* ... as it does after the exit leg.
Closed(j, x) == [j EXCEPT !.step = "closingOpen", !.leg = "entry", !.result = x]

\* It is a job, with the values it replaces and those it keeps.
LEMMA JobClosed ==
  ASSUME NEW j \in Job, NEW x \in Result
  PROVE  /\ Closed(j, x) \in Job
         /\ Closed(j, x).step = "closingOpen" /\ Closed(j, x).slot = j.slot
         /\ Closed(j, x).round = j.round /\ Closed(j, x).clear = j.clear
         /\ Closed(j, x).leg = "entry" /\ Closed(j, x).filled = j.filled
         /\ Closed(j, x).result = x
<1>1. "closingOpen" \in Steps /\ "entry" \in Legs
  BY DEF Steps, Legs
<1>2. [j EXCEPT !.step = "closingOpen"] \in Job
  BY <1>1, JobUpdate
<1>3. [j EXCEPT !.step = "closingOpen", !.leg = "entry"] \in Job
  BY <1>1, <1>2, JobUpdate
<1>4. Closed(j, x) \in Job
  BY <1>1, <1>3, JobUpdate DEF Closed
<1>5. QED
  BY <1>4 DEF Job, Closed

\* The job whose result is ready for its bundle.
Judged(j, x) == [j EXCEPT !.step = "store", !.clear = FALSE, !.result = x]

\* It is a job, with the values it replaces and those it keeps.
LEMMA JobJudged ==
  ASSUME NEW j \in Job, NEW x \in Result
  PROVE  /\ Judged(j, x) \in Job
         /\ Judged(j, x).step = "store" /\ Judged(j, x).slot = j.slot
         /\ Judged(j, x).round = j.round /\ Judged(j, x).clear = FALSE
         /\ Judged(j, x).leg = j.leg /\ Judged(j, x).filled = j.filled
         /\ Judged(j, x).result = x
<1>1. "store" \in Steps
  BY DEF Steps
<1>2. [j EXCEPT !.step = "store"] \in Job
  BY <1>1, JobUpdate
<1>3. [j EXCEPT !.step = "store", !.clear = FALSE] \in Job
  BY <1>1, <1>2, JobUpdate
<1>4. Judged(j, x) \in Job
  BY <1>1, <1>3, JobUpdate DEF Judged
<1>5. QED
  BY <1>4 DEF Job, Judged

\* What each local step makes of the job.
LEMMA LocalJob ==
  ASSUME job \in Job
  PROVE  /\ SelectDueSlot =>
              \E s \in Slots : /\ Due(s, seenAt[lock])
                               /\ job' = Selected(job, s, LedgerAllows(s))
         /\ ReadOpenOrders =>
              job' = Read(job, "position",
                          /\ job.clear
                          /\ OpenOrders = {}
                          /\ job.round = 1 => InWindow(Slot, clock))
         /\ ReadPosition => job' = Read(job, "history", job.clear /\ position = 0)
         /\ ReadHistory =>
              job' = Skipped(job) \/ job' = Again(job) \/ job' = Begun(job)
         /\ LateForSubmission => job' = Late(job)
         /\ ReceiveResponse => job' = Answered(job, Snapshot.filled, Snapshot.over)
         /\ PollOrder =>
              job' = Polled(job, job.polls + 1, Snapshot.filled, Snapshot.over)
         /\ CancelOrder => job' = Cancelled(job)
         /\ EndLeg =>
              \/ /\ job.leg = "entry" /\ job.filled > 0
                 /\ job' = Flattening(Settled(job),
                                      [job.result EXCEPT !.entry = job.filled])
              \/ /\ job.leg = "entry" /\ ~(job.filled > 0)
                 /\ job' = Closing(Settled(job))
              \/ /\ job.leg # "entry"
                 /\ job' = Closed(Settled(job), [job.result EXCEPT !.exit = job.filled])
         /\ ClosingOpenOrders => job' = Read(job, "closingPosition", OpenOrders = {})
         /\ ClosingPosition =>
              job' = Judged(job, [job.result EXCEPT !.reconciled =
                       /\ job.clear
                       /\ position = 0
                       /\ job.result.entry = job.result.exit])
<1>1. SelectDueSlot =>
        \E s \in Slots : /\ Due(s, seenAt[lock])
                         /\ job' = Selected(job, s, LedgerAllows(s))
  BY Zenon DEF SelectDueSlot, Selected
<1>2. /\ ReadOpenOrders =>
           job' = Read(job, "position",
                       /\ job.clear
                       /\ OpenOrders = {}
                       /\ job.round = 1 => InWindow(Slot, clock))
      /\ ReadPosition => job' = Read(job, "history", job.clear /\ position = 0)
      /\ ClosingOpenOrders => job' = Read(job, "closingPosition", OpenOrders = {})
  <2>1. [job EXCEPT !.step = "position"].clear = job.clear
          /\ [job EXCEPT !.step = "history"].clear = job.clear
    BY DEF Job
  <2>2. QED
    BY <2>1, Zenon DEF ReadOpenOrders, ReadPosition, ClosingOpenOrders, Read
<1>3. ReadHistory => job' = Skipped(job) \/ job' = Again(job) \/ job' = Begun(job)
  BY Zenon DEF ReadHistory, Skipped, Again, Begun
<1>4. /\ LateForSubmission => job' = Late(job)
      /\ ReceiveResponse => job' = Answered(job, Snapshot.filled, Snapshot.over)
      /\ CancelOrder => job' = Cancelled(job)
  BY Zenon DEF LateForSubmission, Late, ReceiveResponse, Answered, CancelOrder, Cancelled
<1>5. PollOrder => job' = Polled(job, job.polls + 1, Snapshot.filled, Snapshot.over)
  <2>1. [job EXCEPT !.polls = job.polls + 1].filled = job.filled
    BY DEF Job
  <2>2. QED
    BY <2>1, Zenon DEF PollOrder, Polled
<1>6. ASSUME EndLeg
      PROVE  \/ /\ job.leg = "entry" /\ job.filled > 0
                /\ job' = Flattening(Settled(job),
                                     [job.result EXCEPT !.entry = job.filled])
             \/ /\ job.leg = "entry" /\ ~(job.filled > 0)
                /\ job' = Closing(Settled(job))
             \/ /\ job.leg # "entry"
                /\ job' = Closed(Settled(job), [job.result EXCEPT !.exit = job.filled])
  <2> DEFINE rest == Settled(job)
  <2>1. \/ /\ job.leg = "entry" /\ job.filled > 0
           /\ job' = [rest EXCEPT !.step = "flatten", !.leg = "exit",
                                  !.result.entry = job.filled]
        \/ /\ job.leg = "entry" /\ ~(job.filled > 0)
           /\ job' = [rest EXCEPT !.step = "closingOpen"]
        \/ /\ job.leg # "entry"
           /\ job' = [rest EXCEPT !.step = "closingOpen", !.leg = "entry",
                                  !.result.exit = job.filled]
    BY <1>6, Zenon DEF EndLeg, Settled
  <2>2. rest \in Job /\ rest.result = job.result
    BY JobSettled
  <2> HIDE DEF rest
  <2>3. /\ [rest EXCEPT !.step = "flatten", !.leg = "exit"].result = job.result
        /\ [rest EXCEPT !.step = "closingOpen", !.leg = "entry"].result = job.result
    BY <2>2 DEF Job
  <2>4. /\ [rest EXCEPT !.step = "flatten", !.leg = "exit", !.result.entry = job.filled]
             = Flattening(rest, [job.result EXCEPT !.entry = job.filled])
        /\ [rest EXCEPT !.step = "closingOpen", !.leg = "entry",
                        !.result.exit = job.filled]
             = Closed(rest, [job.result EXCEPT !.exit = job.filled])
        /\ [rest EXCEPT !.step = "closingOpen"] = Closing(rest)
    BY <2>3 DEF Flattening, Closed, Closing
  <2>5. QED
    BY <2>1, <2>4, Zenon DEF rest
<1>7. ClosingPosition =>
        job' = Judged(job, [job.result EXCEPT !.reconciled =
                 /\ job.clear
                 /\ position = 0
                 /\ job.result.entry = job.result.exit])
  <2>1. [job EXCEPT !.step = "store", !.clear = FALSE].result = job.result
    BY DEF Job
  <2>2. QED
    BY <2>1, Zenon DEF ClosingPosition, Judged
<1>8. QED
  BY <1>1, <1>2, <1>3, <1>4, <1>5, <1>6, <1>7, Zenon

-----------------------------------------------------------------------------
(* Type correctness *)

\* The holder's slot, and what a leg in the market looks like: an order that
\* may still fill is not full, and one that never reached the broker is empty.
JobShape ==
  /\ job.step \notin {"none", "mark", "select"} => job.slot \in Slots
  /\ job.step = "flatten" => job.result.entry > 0
  /\ job.step # "none" => lock # Nobody

OrderShape ==
  \A s \in Slots, leg \in Legs : LET o == orders[s][leg] IN
    /\ o.state \in {"sent", "open"} => o.filled < o.quantity
    /\ o.state \in {"none", "sent", "lost"} => o.filled = 0

\* Without a state file nobody has come as far as the lock.
NobodyIsAhead ==
  ledger = Absent => /\ lock = Nobody
                     /\ \A p \in Procs : proc[p] \in {"idle", "create", "dead"}

TypeInv == TypeOK /\ JobShape /\ OrderShape /\ NobodyIsAhead

\* An existing ledger is not the absence of one: there is at least one slot.
LEMMA LedgerIsThere == Absent \notin Ledger
<1>1. 1 \in Slots
  BY CampaignAssumption DEF Slots
<1>2. ASSUME Absent \in Ledger
      PROVE  FALSE
  <2>1. Absent.rows \in [Slots -> Row]
    BY <1>2 DEF Ledger
  <2>2. Absent.rows = <<>>
    BY DEF Absent
  <2>3. DOMAIN Absent.rows = {}
    BY <2>2
  <2>4. QED
    BY <1>1, <2>1, <2>3
<1>3. QED
  BY <1>2

-----------------------------------------------------------------------------
\* What the holder does between its reads and writes: only job changes.
OnlyJob ==
  UNCHANGED <<clock, ledger, bundles, lock, proc, seenAt, orders, position>>

LocalStep ==
  \/ SelectDueSlot \/ ReadOpenOrders \/ ReadPosition \/ ReadHistory
  \/ LateForSubmission \/ ReceiveResponse \/ PollOrder \/ CancelOrder \/ EndLeg
  \/ ClosingOpenOrders \/ ClosingPosition

\* A local step leaves a well-formed job in hand and touches nothing else.
LEMMA LocalTypes ==
  ASSUME TypeInv, LocalStep
  PROVE  job' \in Job /\ JobShape' /\ OnlyJob
<1>1. OnlyJob
  BY Zenon DEF LocalStep, SelectDueSlot, ReadOpenOrders, ReadPosition, ReadHistory,
     LateForSubmission, ReceiveResponse, PollOrder, CancelOrder, EndLeg,
     ClosingOpenOrders, ClosingPosition, OnlyJob, files, broker
<1>2. job \in Job /\ JobShape /\ orders \in [Slots -> [Legs -> Order]]
  BY DEF TypeInv, TypeOK
<1>3. SUFFICES /\ job' \in Job
               /\ job'.slot \in Slots /\ job'.step # "none"
               /\ job'.step = "flatten" => job'.result.entry > 0
               /\ job.step # "none"
  BY <1>1, <1>2 DEF JobShape, OnlyJob
<1>4. CASE SelectDueSlot
  <2>1. PICK s \in Slots : job' = Selected(job, s, LedgerAllows(s))
    BY <1>2, <1>4, LocalJob
  <2>2. LedgerAllows(s) \in BOOLEAN
    BY DEF LedgerAllows
  <2>3. s \in 0..N
    BY CampaignAssumption DEF Slots
  <2>4. QED
    BY <1>2, <1>4, <2>1, <2>2, <2>3, JobSelected DEF SelectDueSlot, At
<1>5. CASE \/ ReadOpenOrders \/ ReadPosition \/ ClosingOpenOrders
  <2>1. PICK st \in {"position", "history", "closingPosition"}, c \in BOOLEAN :
          job' = Read(job, st, c)
    <3>1. CASE ReadOpenOrders
      <4>1. job' = Read(job, "position", /\ job.clear
                                         /\ OpenOrders = {}
                                         /\ job.round = 1 => InWindow(Slot, clock))
        BY <1>2, <3>1, LocalJob
      <4>2. QED
        BY <4>1, Zenon
    <3>2. CASE ReadPosition
      <4>1. job' = Read(job, "history", job.clear /\ position = 0)
        BY <1>2, <3>2, LocalJob
      <4>2. QED
        BY <4>1, Zenon
    <3>3. CASE ClosingOpenOrders
      <4>1. job' = Read(job, "closingPosition", OpenOrders = {})
        BY <1>2, <3>3, LocalJob
      <4>2. QED
        BY <4>1, Zenon
    <3>4. QED
      BY <1>5, <3>1, <3>2, <3>3
  <2>2. st \in Steps
    BY DEF Steps
  <2>3. job' \in Job /\ job'.step = st /\ job'.slot = job.slot
    BY <1>2, <2>1, <2>2, JobRead
  <2>4. job.step \in {"open", "position", "closingOpen"}
    BY <1>5 DEF ReadOpenOrders, ReadPosition, ClosingOpenOrders, At
  <2>5. QED
    BY <1>2, <2>3, <2>4 DEF JobShape
<1>6. CASE ReadHistory
  <2>1. job' = Skipped(job) \/ job' = Again(job) \/ job' = Begun(job)
    BY <1>2, <1>6, LocalJob
  <2>2. job' \in Job /\ job'.slot = job.slot /\ job'.step \in {"store", "open", "begin"}
    <3>1. CASE job' = Skipped(job)
      BY <1>2, <3>1, JobSkipped
    <3>2. CASE job' = Again(job)
      BY <1>2, <3>2, JobAgain
    <3>3. CASE job' = Begun(job)
      BY <1>2, <3>3, JobBegun
    <3>4. QED
      BY <2>1, <3>1, <3>2, <3>3
  <2>3. QED
    BY <1>2, <1>6, <2>2 DEF JobShape, ReadHistory, At
<1>7. CASE LateForSubmission
  <2>1. job' \in Job /\ job'.slot = job.slot /\ job'.step = "store"
    BY <1>2, <1>7, LocalJob, JobLate
  <2>2. QED
    BY <1>2, <1>7, <2>1 DEF JobShape, LateForSubmission, At
<1>8. ASSUME ReceiveResponse \/ PollOrder
      PROVE  /\ job' \in Job /\ job'.slot \in Slots /\ job'.step = "poll"
             /\ job.step # "none"
  <2>1. Slot \in Slots /\ job.leg \in Legs
    BY <1>2, <1>8 DEF ReceiveResponse, PollOrder, At, JobShape, Slot, Job
  <2>2. CurrentOrder \in Order
    BY <1>2, <2>1 DEF CurrentOrder
  <2>3. Snapshot.filled \in 0..Qty /\ Snapshot.over \in BOOLEAN
    BY <2>2 DEF Snapshot, Order
  <2>4. CASE ReceiveResponse
    <3>1. job' = Answered(job, Snapshot.filled, Snapshot.over)
      BY <1>2, <2>4, LocalJob
    <3>2. QED
      BY <1>2, <2>1, <2>3, <2>4, <3>1, JobAnswered DEF ReceiveResponse, At, Slot
  <2>5. CASE PollOrder
    <3>1. job' = Polled(job, job.polls + 1, Snapshot.filled, Snapshot.over)
      BY <1>2, <2>5, LocalJob
    <3>2. job.polls + 1 \in 0..MaxPolls
      BY <1>2, <2>5, CampaignAssumption DEF Job, PollOrder
    <3>3. QED
      BY <1>2, <2>1, <2>3, <2>5, <3>1, <3>2, JobPolled DEF PollOrder, At, Slot
  <2>6. QED
    BY <1>8, <2>4, <2>5
<1>9. CASE CancelOrder
  <2>1. job' \in Job /\ job'.slot = job.slot /\ job'.step = "poll"
    BY <1>2, <1>9, LocalJob, JobCancelled DEF CancelOrder, At
  <2>2. QED
    BY <1>2, <1>9, <2>1 DEF JobShape, CancelOrder, At
<1>10. CASE EndLeg
  <2>1. job.filled \in 0..Qty /\ job.result \in Result
    BY <1>2 DEF Job
  <2>2. /\ [job.result EXCEPT !.entry = job.filled] \in Result
        /\ [job.result EXCEPT !.entry = job.filled].entry = job.filled
        /\ [job.result EXCEPT !.exit = job.filled] \in Result
    BY <2>1 DEF Result
  <2>3. Settled(job) \in Job /\ Settled(job).slot = job.slot
    BY <1>2, JobSettled
  <2>4. job.step = "poll"
    BY <1>10 DEF EndLeg, At
  <2>5. CASE /\ job.filled > 0
             /\ job' = Flattening(Settled(job), [job.result EXCEPT !.entry = job.filled])
    <3>1. /\ job' \in Job /\ job'.slot = job.slot /\ job'.step = "flatten"
          /\ job'.result = [job.result EXCEPT !.entry = job.filled]
      BY <2>2, <2>3, <2>5, JobFlattening
    <3>2. QED
      BY <1>2, <2>2, <2>4, <2>5, <3>1 DEF JobShape
  <2>6. CASE \/ job' = Closing(Settled(job))
             \/ job' = Closed(Settled(job), [job.result EXCEPT !.exit = job.filled])
    <3>1. job' \in Job /\ job'.slot = job.slot /\ job'.step = "closingOpen"
      BY <2>2, <2>3, <2>6, JobClosing, JobClosed
    <3>2. QED
      BY <1>2, <2>4, <3>1 DEF JobShape
  <2>7. QED
    BY <1>2, <1>10, <2>5, <2>6, LocalJob
<1>11. CASE ClosingPosition
  <2>1. PICK c \in BOOLEAN :
          job' = Judged(job, [job.result EXCEPT !.reconciled = c])
    <3>1. job' = Judged(job, [job.result EXCEPT !.reconciled =
                   /\ job.clear
                   /\ position = 0
                   /\ job.result.entry = job.result.exit])
      BY <1>2, <1>11, LocalJob
    <3>2. QED
      BY <3>1, Zenon
  <2>2. [job.result EXCEPT !.reconciled = c] \in Result
    BY <1>2 DEF Job, Result
  <2>3. job' \in Job /\ job'.slot = job.slot /\ job'.step = "store"
    BY <1>2, <2>1, <2>2, JobJudged
  <2>4. QED
    BY <1>2, <1>11, <2>3 DEF JobShape, ClosingPosition, At
<1>12. QED
  BY <1>4, <1>5, <1>6, <1>7, <1>8, <1>9, <1>10, <1>11 DEF LocalStep

\* The initial state of a campaign is a ledger.
LEMMA FreshLedger == InitialCampaignState \in Ledger
<1>1. 0 \in 0..Qty
  BY CampaignAssumption
<1>2. FreshRow \in Row
  BY <1>1 DEF FreshRow, Row, SlotStatuses
<1>3. QED
  BY <1>2 DEF InitialCampaignState, Ledger

\* Going on to a step moves the holder's job there.
LEMMA Going ==
  ASSUME job \in Job, NEW st \in Steps, Goto(st)
  PROVE  /\ job' \in Job /\ job'.step = st /\ job'.slot = job.slot
         /\ job'.leg = job.leg /\ job'.clear = job.clear
         /\ job'.filled = job.filled /\ job'.result = job.result
<1>1. job' = Moved(job, st)
  BY DEF Goto, Moved
<1>2. QED
  BY <1>1, JobMoved

\* The steps of a process outside the lock.
LEMMA WatchTypes ==
  ASSUME TypeInv, NEW p \in Procs,
         ProcStep(p) \/ CrashOutsideLock(p) \/ Restart(p)
  PROVE  TypeInv'
<1>1. TypeOK /\ JobShape /\ OrderShape /\ NobodyIsAhead
  BY DEF TypeInv
<1>2. CASE Wake(p)
  <2>1. TypeOK'
    BY <1>1, <1>2 DEF TypeOK, Wake, files, broker, ProcStates
  <2>2. JobShape' /\ OrderShape' /\ NobodyIsAhead'
    BY <1>1, <1>2
    DEF TypeOK, JobShape, OrderShape, NobodyIsAhead, Wake, files, broker
  <2>3. QED
    BY <2>1, <2>2 DEF TypeInv
<1>3. CASE CreateLedger(p)
  <2>1. TypeOK'
    BY <1>1, <1>3, FreshLedger DEF TypeOK, CreateLedger, broker, ProcStates
  <2>2. JobShape' /\ OrderShape' /\ ledger' # Absent
    BY <1>1, <1>3, FreshLedger, LedgerIsThere
    DEF JobShape, OrderShape, CreateLedger, broker
  <2>3. QED
    BY <2>1, <2>2 DEF TypeInv, NobodyIsAhead
<1>4. CASE TakeLock(p)
  <2>1. job' = Moved(NoJob, "mark")
    BY <1>4 DEF TakeLock, Moved
  <2>2. job' \in Job /\ job'.step = "mark"
    BY <2>1, Blanks, JobMoved DEF Steps
  <2>3. TypeOK'
    BY <1>1, <1>4, <2>2 DEF TypeOK, TakeLock, files, broker, ProcStates
  <2>4. ledger # Absent
    BY <1>1, <1>4 DEF NobodyIsAhead, TakeLock
  <2>5. lock' # Nobody
    BY <1>4, CampaignAssumption DEF TakeLock
  <2>6. JobShape' /\ OrderShape' /\ NobodyIsAhead'
    BY <1>1, <1>4, <2>2, <2>4, <2>5
    DEF JobShape, OrderShape, NobodyIsAhead, TakeLock, files, broker
  <2>7. QED
    BY <2>3, <2>6 DEF TypeInv
<1>5. CASE LockBusy(p) \/ CrashOutsideLock(p) \/ Restart(p)
  <2>1. TypeOK'
    BY <1>1, <1>5
    DEF TypeOK, LockBusy, CrashOutsideLock, Restart, files, broker, ProcStates
  <2>2. JobShape' /\ OrderShape' /\ NobodyIsAhead'
    BY <1>1, <1>5
    DEF TypeOK, JobShape, OrderShape, NobodyIsAhead, LockBusy, CrashOutsideLock,
        Restart, files, broker
  <2>3. QED
    BY <2>1, <2>2 DEF TypeInv
<1>6. QED
  BY <1>2, <1>3, <1>4, <1>5 DEF ProcStep

\* Letting go of the lock, by returning or by an exception.
LEMMA LeaveTypes ==
  ASSUME TypeInv, lock # Nobody,
         \/ \E latched \in BOOLEAN : Return(latched)
         \/ Raise
  PROVE  /\ lock' \in Procs \cup {Nobody} /\ proc' \in [Procs -> ProcStates]
         /\ job' \in Job /\ JobShape' /\ (ledger # Absent)
         /\ \A p \in Procs : proc'[p] = "create" => proc[p] = "create"
<1>1. TypeOK /\ NobodyIsAhead
  BY DEF TypeInv
<1>2. lock \in Procs
  BY <1>1 DEF TypeOK
<1>3. lock' = Nobody /\ job' = NoJob
  BY DEF Return, Raise
<1>4. job' \in Job /\ JobShape'
  BY <1>3, Blanks DEF JobShape
<1>5. PICK st \in {"finished", "idle", "dead"} : proc' = [proc EXCEPT ![lock] = st]
  BY DEF Return, Raise
<1>6. /\ proc' \in [Procs -> ProcStates]
      /\ \A p \in Procs : proc'[p] = "create" => proc[p] = "create"
  BY <1>1, <1>2, <1>5 DEF TypeOK, ProcStates
<1>7. QED
  BY <1>1, <1>3, <1>4, <1>6 DEF NobodyIsAhead

\* The steps that end a pass without another write.
LEMMA EndTypes ==
  ASSUME TypeInv, NothingToDo \/ RaiseAsWritten \/ CrashHolder
  PROVE  TypeInv'
<1>1. TypeOK /\ JobShape /\ OrderShape /\ NobodyIsAhead
  BY DEF TypeInv
<1>2. lock # Nobody
  <2>1. CASE NothingToDo
    BY <1>1, <2>1 DEF NothingToDo, At, JobShape
  <2>2. CASE RaiseAsWritten
    BY <1>1, <2>2 DEF RaiseAsWritten, At, JobShape
  <2>3. QED
    BY <2>1, <2>2 DEF CrashHolder
<1>3. \/ \E latched \in BOOLEAN : Return(latched)
      \/ Raise
  <2>1. CASE NothingToDo
    <3>1. ledger # Absent
      BY <1>1, <1>2 DEF NobodyIsAhead
    <3>2. ledger.latch \in BOOLEAN
      BY <1>1, <3>1 DEF TypeOK, Ledger
    <3>3. QED
      BY <2>1, <3>2 DEF NothingToDo
  <2>2. QED
    BY <2>1 DEF RaiseAsWritten, CrashHolder
<1>4. UNCHANGED <<clock, ledger, bundles, seenAt, orders, position>>
  BY DEF NothingToDo, RaiseAsWritten, CrashHolder, Raise, files, broker
<1>5. /\ lock' \in Procs \cup {Nobody} /\ proc' \in [Procs -> ProcStates]
      /\ job' \in Job /\ JobShape' /\ ledger # Absent
  BY <1>2, <1>3, LeaveTypes
<1>6. QED
  BY <1>1, <1>4, <1>5 DEF TypeInv, TypeOK, OrderShape, NobodyIsAhead

\* begin_slot_attempt writes a ledger: the latch and one status change.
BegunLedger(l, s) ==
  [l EXCEPT !.latch = TRUE, !.rows[s].status = "in_progress"]

\* It is a ledger, latched, with the slot in progress and the other rows kept.
LEMMA LedgerBegun ==
  ASSUME NEW l \in Ledger, NEW s \in Slots
  PROVE  /\ BegunLedger(l, s) \in Ledger /\ BegunLedger(l, s).latch
         /\ BegunLedger(l, s).rows[s].status = "in_progress"
         /\ BegunLedger(l, s).rows[s].referenced = l.rows[s].referenced
         /\ \A t \in Slots \ {s} : BegunLedger(l, s).rows[t] = l.rows[t]
<1> DEFINE row == [l.rows[s] EXCEPT !.status = "in_progress"]
           m == [l EXCEPT !.latch = TRUE]
           rows == [l.rows EXCEPT ![s] = row]
<1>1. l.rows \in [Slots -> Row] /\ l.latch \in BOOLEAN
  BY DEF Ledger
<1>2. /\ row \in Row /\ row.status = "in_progress"
      /\ row.referenced = l.rows[s].referenced
  BY <1>1 DEF Row, SlotStatuses
<1>3. m \in Ledger /\ m.rows = l.rows /\ m.latch = TRUE
  BY DEF Ledger
<1>4. BegunLedger(l, s) = [m EXCEPT !.rows = rows]
  BY <1>3 DEF BegunLedger
<1> HIDE DEF row, m
<1>5. rows \in [Slots -> Row] /\ rows[s] = row /\ \A t \in Slots \ {s} : rows[t] = l.rows[t]
  BY <1>1, <1>2
<1> HIDE DEF rows
<1>6. [m EXCEPT !.rows = rows] \in Ledger
        /\ [m EXCEPT !.rows = rows].latch = TRUE /\ [m EXCEPT !.rows = rows].rows = rows
  BY <1>3, <1>5 DEF Ledger
<1>7. QED
  BY <1>2, <1>4, <1>5, <1>6

\* The holder's writes to the campaign directory.
LEMMA WriteTypes ==
  ASSUME TypeInv,
         MarkMissedSlots \/ BeginSlotAttempt \/ WriteSlotArtifacts \/ FinalizeSlotState
  PROVE  TypeInv' /\ ledger \in Ledger /\ ledger' \in Ledger
<1>1. TypeOK /\ JobShape /\ OrderShape /\ NobodyIsAhead
  BY DEF TypeInv
<1>2. job.step # "none"
  BY DEF MarkMissedSlots, BeginSlotAttempt, WriteSlotArtifacts, FinalizeSlotState, At
<1>3. lock # Nobody
  BY <1>1, <1>2 DEF JobShape
<1>4. ledger \in Ledger
  BY <1>1, <1>3 DEF NobodyIsAhead, TypeOK
<1>5. ledger # Absent
  BY <1>4, LedgerIsThere
<1>6. CASE MarkMissedSlots
  <2>1. ledger' \in Ledger
    BY <1>4, <1>6 DEF MarkMissedSlots, Ledger, Row, SlotStatuses
  <2>2. job' \in Job /\ job'.step = "select"
    BY <1>1, <1>6, Going DEF MarkMissedSlots, TypeOK, Steps
  <2>3. TypeOK' /\ JobShape' /\ OrderShape'
    BY <1>1, <1>3, <1>6, <2>1, <2>2
    DEF MarkMissedSlots, TypeOK, JobShape, OrderShape, broker
  <2>4. QED
    BY <1>4, <2>1, <2>3, LedgerIsThere DEF TypeInv, NobodyIsAhead
<1>7. CASE BeginSlotAttempt
  <2>1. ledger' \in Ledger
    <3>1. Slot \in Slots /\ ledger' = BegunLedger(ledger, Slot)
      BY <1>1, <1>7 DEF BeginSlotAttempt, BegunLedger, At, JobShape, Slot
    <3>2. QED
      BY <1>4, <3>1, LedgerBegun
  <2>2. job' \in Job /\ job'.step = "submit" /\ job'.slot = job.slot
    BY <1>1, <1>7, Going DEF BeginSlotAttempt, TypeOK, Steps
  <2>3. TypeOK' /\ JobShape' /\ OrderShape'
    BY <1>1, <1>3, <1>7, <2>1, <2>2
    DEF BeginSlotAttempt, At, TypeOK, JobShape, OrderShape, broker
  <2>4. QED
    BY <1>4, <2>1, <2>3, LedgerIsThere DEF TypeInv, NobodyIsAhead
<1>8. CASE WriteSlotArtifacts
  <2>1. job' \in Job /\ job'.step = "finalize" /\ job'.slot = job.slot
    BY <1>1, <1>8, Going DEF WriteSlotArtifacts, TypeOK, Steps
  <2>2. bundles' \in [Slots -> Result \cup {NoBundle}]
    BY <1>1, <1>8 DEF WriteSlotArtifacts, TypeOK, Job
  <2>3. TypeOK' /\ JobShape' /\ OrderShape'
    BY <1>1, <1>3, <1>8, <2>1, <2>2
    DEF WriteSlotArtifacts, At, TypeOK, JobShape, OrderShape, broker
  <2>4. QED
    BY <1>4, <1>5, <1>8, <2>3 DEF WriteSlotArtifacts, TypeInv, NobodyIsAhead
<1>9. CASE FinalizeSlotState
  <2> DEFINE r == job.result
             row == [status |-> FinalStatus(r), submitted |-> r.submitted,
                     entry |-> r.entry, exit |-> r.exit, referenced |-> TRUE]
  <2>1. r \in Result
    BY <1>1 DEF TypeOK, Job
  <2>2. row \in Row
    BY <2>1 DEF Result, Row, FinalStatus, SlotStatuses
  <2>3. /\ ledger' = [latch |-> ~r.reconciled,
                      rows |-> [ledger.rows EXCEPT ![Slot] = row]]
        /\ Return(~r.reconciled)
        /\ UNCHANGED <<clock, bundles, seenAt, orders, position>>
    BY <1>9 DEF FinalizeSlotState, broker
  <2>4. (~r.reconciled) \in BOOLEAN
    BY <2>1 DEF Result
  <2> HIDE DEF r, row
  <2>5. ledger' \in Ledger
    BY <1>4, <2>2, <2>3, <2>4 DEF Ledger
  <2>6. /\ lock' \in Procs \cup {Nobody} /\ proc' \in [Procs -> ProcStates]
        /\ job' \in Job /\ JobShape'
    BY <1>3, <2>3, <2>4, LeaveTypes
  <2>7. TypeOK' /\ OrderShape'
    BY <1>1, <2>3, <2>5, <2>6 DEF TypeOK, OrderShape
  <2>8. QED
    BY <1>4, <2>5, <2>6, <2>7, LedgerIsThere DEF TypeInv, NobodyIsAhead
<1>10. QED
  BY <1>6, <1>7, <1>8, <1>9

\* The orders the holder sends.
LEMMA SendTypes ==
  ASSUME TypeInv, SubmitEntry \/ SubmitFlatten
  PROVE  TypeInv'
<1>1. TypeOK /\ JobShape /\ OrderShape /\ NobodyIsAhead
  BY DEF TypeInv
<1>2. Slot \in Slots
  BY <1>1 DEF SubmitEntry, SubmitFlatten, At, JobShape, Slot
<1>3. PICK leg \in Legs, q \in 1..Qty : Send(leg, q)
  <2>1. CASE SubmitEntry
    BY <2>1, CampaignAssumption DEF SubmitEntry, Legs
  <2>2. CASE SubmitFlatten
    <3>1. job.result.entry \in 0..Qty /\ job.result.entry > 0
      BY <1>1, <2>2 DEF SubmitFlatten, At, JobShape, TypeOK, Job, Result
    <3>2. QED
      BY <2>2, <3>1 DEF SubmitFlatten, Legs
  <2>3. QED
    BY <2>1, <2>2
<1>4. orders' \in [Slots -> [Legs -> Order]] /\ OrderShape'
  <2> DEFINE o == [state |-> "sent", quantity |-> q, filled |-> 0]
  <2>1. o \in Order /\ o.state = "sent" /\ o.filled = 0 /\ o.filled < o.quantity
    BY CampaignAssumption DEF Order
  <2>2. orders' = [orders EXCEPT ![Slot][leg] = o]
    BY <1>3 DEF Send
  <2> HIDE DEF o
  <2>3. QED
    BY <1>1, <1>2, <2>1, <2>2 DEF TypeOK, OrderShape
<1>5. job' \in Job /\ job'.step = "await" /\ job'.slot = job.slot
  <2>1. CASE SubmitEntry
    <3>1. job' = Submitting(job)
      BY <2>1 DEF SubmitEntry, Submitting
    <3>2. QED
      BY <1>1, <3>1, JobSubmitting DEF TypeOK
  <2>2. CASE SubmitFlatten
    BY <1>1, <2>2, Going DEF SubmitFlatten, TypeOK, Steps
  <2>3. QED
    BY <2>1, <2>2
<1>6. UNCHANGED <<clock, ledger, bundles, lock, proc, seenAt, position>>
  BY DEF SubmitEntry, SubmitFlatten, Send, files
<1>7. JobShape'
  BY <1>1, <1>2, <1>5, <1>6 DEF JobShape, SubmitEntry, SubmitFlatten, At, Slot
<1>8. QED
  BY <1>1, <1>4, <1>5, <1>6, <1>7 DEF TypeInv, TypeOK, NobodyIsAhead

\* An order with one lot more: it ends with the last one.
LEMMA Filled ==
  ASSUME NEW o \in Order, o.filled + 1 <= o.quantity, o.filled + 1 \in 0..Qty
  PROVE  LET x == [o EXCEPT !.filled = o.filled + 1,
                            !.state = IF o.filled + 1 = o.quantity
                                      THEN "done" ELSE "open"]
         IN  /\ x \in Order /\ x.filled = o.filled + 1 /\ x.quantity = o.quantity
             /\ x.state \in {"done", "open"}
             /\ x.state = "open" => x.filled < x.quantity
<1> DEFINE st == IF o.filled + 1 = o.quantity THEN "done" ELSE "open"
           y == [o EXCEPT !.filled = o.filled + 1]
<1>1. st \in {"done", "open"} /\ (st = "open" => o.filled + 1 # o.quantity)
  OBVIOUS
<1> HIDE DEF st
<1>2. y \in Order /\ y.filled = o.filled + 1 /\ y.quantity = o.quantity
  BY DEF Order
<1>3. o.filled \in Int /\ o.quantity \in Int
  BY CampaignAssumption DEF Order
<1>4. /\ [y EXCEPT !.state = st] \in Order /\ [y EXCEPT !.state = st].state = st
      /\ [y EXCEPT !.state = st].filled = y.filled
      /\ [y EXCEPT !.state = st].quantity = y.quantity
  <2> HIDE DEF y
  <2>1. QED
    BY <1>1, <1>2 DEF Order
<1>5. QED
  BY <1>1, <1>2, <1>3, <1>4 DEF st

\* What a step of the broker does: one order of a live leg moves on, by one lot
\* together with the position or by none, and it is not in flight any more.
LEMMA MarketMove ==
  ASSUME TypeInv, NEW s \in Slots, NEW leg \in Legs,
         Arrive(s, leg) \/ Fill(s, leg) \/ Terminate(s, leg)
  PROVE  /\ orders[s][leg].state \in {"sent", "open"}
         /\ \E x \in Order :
              /\ orders' = [orders EXCEPT ![s][leg] = x]
              /\ x.quantity = orders[s][leg].quantity
              /\ x.state \in {"open", "done", "lost"}
              /\ x.state = "open" => x.filled < x.quantity
              /\ x.state = "lost" => x.filled = 0
              /\ \/ x.filled = orders[s][leg].filled /\ position' = position
                 \/ /\ x.filled = orders[s][leg].filled + 1
                    /\ position' = position + Signed(s, leg)
         /\ Environment
<1>1. TypeOK /\ OrderShape
  BY DEF TypeInv
<1> DEFINE o == orders[s][leg]
<1>2. o \in Order
  BY <1>1 DEF TypeOK
<1>3. /\ o.state \in {"sent", "open"} => o.filled < o.quantity
      /\ o.state \in {"none", "sent", "lost"} => o.filled = 0
  BY <1>1 DEF OrderShape
<1>4. CASE Arrive(s, leg)
  <2>1. PICK st \in {"open", "done", "lost"} :
          orders' = [orders EXCEPT ![s][leg].state = st]
    BY <1>4 DEF Arrive
  <2> DEFINE x == [o EXCEPT !.state = st]
  <2>2. /\ x \in Order /\ x.state = st
        /\ x.filled = o.filled /\ x.quantity = o.quantity
    BY <1>2 DEF Order
  <2>3. orders' = [orders EXCEPT ![s][leg] = x]
    BY <2>1
  <2>4. o.state = "sent" /\ position' = position /\ Environment
    BY <1>4 DEF Arrive
  <2> HIDE DEF x
  <2>5. QED
    BY <1>3, <2>2, <2>3, <2>4
<1>5. CASE Fill(s, leg)
  <2> DEFINE x == [o EXCEPT !.filled = o.filled + 1,
                     !.state = IF o.filled + 1 = o.quantity THEN "done" ELSE "open"]
  <2>1. /\ o.state = "open" /\ orders' = [orders EXCEPT ![s][leg] = x]
        /\ position' = position + Signed(s, leg) /\ Environment
    BY <1>5 DEF Fill
  <2>2. o.filled + 1 <= o.quantity /\ o.filled + 1 \in 0..Qty
    BY <1>2, <1>3, <2>1, CampaignAssumption DEF Order
  <2>3. /\ x \in Order /\ x.filled = o.filled + 1 /\ x.quantity = o.quantity
        /\ x.state \in {"done", "open"} /\ (x.state = "open" => x.filled < x.quantity)
    BY <1>2, <2>2, Filled
  <2> HIDE DEF x
  <2>4. QED
    BY <2>1, <2>3
<1>6. CASE Terminate(s, leg)
  <2> DEFINE x == [o EXCEPT !.state = "done"]
  <2>1. /\ x \in Order /\ x.state = "done"
        /\ x.filled = o.filled /\ x.quantity = o.quantity
    BY <1>2 DEF Order
  <2>2. orders' = [orders EXCEPT ![s][leg] = x]
    BY <1>6 DEF Terminate
  <2>3. o.state = "open" /\ position' = position /\ Environment
    BY <1>6 DEF Terminate
  <2> HIDE DEF x
  <2>4. QED
    BY <2>1, <2>2, <2>3
<1>7. QED
  BY <1>4, <1>5, <1>6

\* The broker's steps.
LEMMA MarketTypes ==
  ASSUME TypeInv, NEW s \in Slots, NEW leg \in Legs,
         Arrive(s, leg) \/ Fill(s, leg) \/ Terminate(s, leg)
  PROVE  TypeInv'
<1>1. TypeOK /\ JobShape /\ OrderShape /\ NobodyIsAhead
  BY DEF TypeInv
<1>2. PICK x \in Order :
        /\ orders' = [orders EXCEPT ![s][leg] = x]
        /\ x.state \in {"open", "done", "lost"}
        /\ x.state = "open" => x.filled < x.quantity
        /\ x.state = "lost" => x.filled = 0
  BY MarketMove
<1>3. orders' \in [Slots -> [Legs -> Order]] /\ OrderShape'
  BY <1>1, <1>2 DEF TypeOK, OrderShape
<1>4. position' \in Int
  <2>1. Signed(s, leg) \in Int
    BY DEF Signed, Direction
  <2>2. position' = position \/ position' = position + Signed(s, leg)
    BY MarketMove
  <2>3. QED
    BY <1>1, <2>1, <2>2 DEF TypeOK
<1>5. UNCHANGED <<clock, ledger, bundles, lock, proc, seenAt, job>>
  BY MarketMove DEF Environment, files
<1>6. QED
  BY <1>1, <1>3, <1>4, <1>5 DEF TypeInv, TypeOK, JobShape, NobodyIsAhead

\* Every step leaves every variable in its range.
LEMMA TypeStep ==
  ASSUME TypeInv, [Next]_vars
  PROVE  TypeInv'
<1>1. CASE LocalStep
  <2>1. job' \in Job /\ JobShape' /\ OnlyJob
    BY <1>1, LocalTypes
  <2>2. QED
    BY <2>1 DEF TypeInv, TypeOK, OrderShape, NobodyIsAhead, OnlyJob
<1>2. CASE Tick
  <2>1. clock' \in 0..(2 * N)
    BY <1>2, CampaignAssumption DEF TypeInv, TypeOK, Tick
  <2>2. QED
    BY <1>2, <2>1
    DEF TypeInv, TypeOK, JobShape, OrderShape, NobodyIsAhead, Tick, files, broker
<1>3. CASE UNCHANGED vars
  BY <1>3 DEF TypeInv, TypeOK, JobShape, OrderShape, NobodyIsAhead, vars
<1>4. QED
  BY <1>1, <1>2, <1>3, WatchTypes, EndTypes, WriteTypes, SendTypes, MarketTypes
  DEF Next, HolderStep, LocalStep

\* The program starts with every variable in its range.
LEMMA TypeInit == Init => TypeInv
<1> SUFFICES ASSUME Init
             PROVE  TypeInv
  OBVIOUS
<1>1. NoOrder \in Order /\ NoOrder.state = "none" /\ NoOrder.filled = 0
  BY CampaignAssumption DEF NoOrder, Order
<1>2. TypeOK
  <2>1. ledger = Absent \/ ledger \in Ledger
    BY FreshLedger DEF Init
  <2>2. 0 \in 0..(2 * N)
    BY CampaignAssumption
  <2>3. QED
    BY <1>1, <2>1, <2>2, Blanks DEF Init, TypeOK, ProcStates
<1>3. JobShape /\ NobodyIsAhead
  BY Blanks DEF Init, JobShape, NobodyIsAhead
<1>4. OrderShape
  BY <1>1 DEF Init, OrderShape
<1>5. QED
  BY <1>2, <1>3, <1>4 DEF TypeInv

\* Type correctness: of the ledger, the bundles, the lock, the processes, the
\* holder's variables and the broker's orders, for any number of each.
THEOREM TypeCorrect == Spec => []TypeOK
<1>1. Init => TypeInv
  BY TypeInit
<1>2. TypeInv /\ [Next]_vars => TypeInv'
  BY TypeStep
<1>3. TypeInv => TypeOK
  BY DEF TypeInv
<1>4. QED
  BY <1>1, <1>2, <1>3, PTL DEF Spec

-----------------------------------------------------------------------------
(* Safety, in a campaign directory that one process initialises *)

\* The state file exists and nobody is about to write an initial one.
LedgerIsKept ==
  /\ ledger \in Ledger
  /\ \A p \in Procs : proc[p] # "create"

\* One slot at a time is exposed, and the account holds what is left of it.
OneAtRisk == \A s, t \in Slots : AtRisk(s) /\ AtRisk(t) => s = t

Net(s) == IF s % 2 = 1 THEN orders[s]["entry"].filled - orders[s]["exit"].filled
                       ELSE orders[s]["exit"].filled - orders[s]["entry"].filled

PositionKnown ==
  /\ \A s \in Slots : AtRisk(s) => position = Net(s)
  /\ (\A s \in Slots : ~AtRisk(s)) => position = 0

\* One attempt at a time is unsettled, and recovery is latched while it is.
Unsettled(s) == Status(s) \in {"in_progress", "manual_recovery_required"}

OneUnsettled ==
  /\ \A s, t \in Slots : Unsettled(s) /\ Unsettled(t) => s = t
  /\ \A s \in Slots : Unsettled(s) => ledger.latch

\* Nothing was ever sent for a slot that waits for its window.
ScheduledIsUntouched ==
  \A s \in Slots : Scheduled(s) => orders[s]["entry"].state = "none"

NoneAtRisk == \A s \in Slots : ~AtRisk(s)
NoneSent == \A leg \in Legs : orders[Slot][leg].state # "sent"

\* What the holder knows at each step of a slot attempt.
EntryFirst ==
  job.step \in {"mark", "select", "open", "position", "history", "begin", "submit"}
    => job.leg = "entry"

BeforeTheAttempt ==
  job.step \in {"open", "position", "history", "begin"} => ~ledger.latch

DuringTheAttempt ==
  job.step \in {"submit", "await", "poll", "flatten", "closingOpen", "closingPosition"}
    => /\ ledger.latch /\ Status(Slot) = "in_progress"
       /\ \A s \in Slots \ {Slot} : ~AtRisk(s)

BetweenTheLegs ==
  /\ job.step = "submit" => ~AtRisk(Slot) /\ orders[Slot]["entry"].state = "none"
  /\ job.step = "await" =>
       \A leg \in Legs : orders[Slot][leg].state = "sent" => leg = job.leg
  /\ job.step \in {"poll", "flatten", "closingOpen", "closingPosition"} => NoneSent
  /\ job.step = "flatten" => job.leg = "exit"
  /\ job.step = "closingPosition" /\ job.clear => ~Live(Slot)

AfterTheAttempt ==
  job.step \in {"store", "finalize"} =>
    /\ job.result.reconciled => NoneAtRisk
    /\ ledger.latch \/ ~job.result.reconciled => Status(Slot) = "in_progress"

\* The fills the holder has seen are fills there were.
FillsSeen ==
  /\ job.step = "poll" /\ job.leg = "entry" =>
       job.filled <= orders[Slot]["entry"].filled
  /\ job.step = "flatten" => job.result.entry <= orders[Slot]["entry"].filled

\* What the market leaves to the ledger, and what the holder may rely on.
MarketSafe ==
  /\ ExposureIsLatched /\ OneAtRisk /\ PositionKnown /\ FlattenWithinFill
  /\ OneUnsettled /\ ScheduledIsUntouched
HolderSafe ==
  /\ EntryFirst /\ BeforeTheAttempt /\ DuringTheAttempt /\ BetweenTheLegs
  /\ AfterTheAttempt /\ FillsSeen

SafeInv == TypeInv /\ LedgerIsKept /\ MarketSafe /\ HolderSafe

\* As long as nobody trades and the ledger stays, the market stays safe.
LEMMA SameMarket ==
  ASSUME UNCHANGED <<ledger, orders, position>>
  PROVE  /\ \A s \in Slots : (AtRisk(s)' <=> AtRisk(s)) /\ (Live(s)' <=> Live(s))
         /\ \A s \in Slots : Status(s)' = Status(s)
         /\ MarketSafe => MarketSafe'
<1>1. \A s \in Slots : (AtRisk(s)' <=> AtRisk(s)) /\ (Live(s)' <=> Live(s))
  BY DEF AtRisk, Live, Balanced
<1>2. \A s \in Slots : Status(s)' = Status(s) /\ Net(s)' = Net(s)
  BY DEF Status, Net
<1>3. MarketSafe => MarketSafe'
  BY <1>1, <1>2
  DEF MarketSafe, ExposureIsLatched, OneAtRisk, PositionKnown, FlattenWithinFill,
      OneUnsettled, Unsettled, ScheduledIsUntouched, Scheduled
<1>4. QED
  BY <1>1, <1>2, <1>3

\* A holder that is at none of the steps of an attempt has nothing to rely on.
LEMMA NothingHeld ==
  ASSUME job'.step \in {"none", "mark", "select"},
         job'.step # "none" => job'.leg = "entry"
  PROVE  HolderSafe'
BY DEF HolderSafe, BeforeTheAttempt, DuringTheAttempt, BetweenTheLegs,
       AfterTheAttempt, FillsSeen, EntryFirst

\* The steps of a process outside the lock.
LEMMA WatchSafe ==
  ASSUME SafeInv, NEW p \in Procs,
         ProcStep(p) \/ CrashOutsideLock(p) \/ Restart(p)
  PROVE  LedgerIsKept' /\ MarketSafe' /\ HolderSafe'
<1>1. TypeOK /\ LedgerIsKept /\ MarketSafe /\ HolderSafe /\ ledger # Absent
  BY LedgerIsThere DEF SafeInv, TypeInv, LedgerIsKept
<1>2. ~CreateLedger(p)
  BY <1>1 DEF LedgerIsKept, CreateLedger
<1>3. UNCHANGED <<ledger, orders, position>>
  BY <1>2 DEF ProcStep, Wake, TakeLock, LockBusy, CrashOutsideLock, Restart, files, broker
<1>4. MarketSafe'
  BY <1>1, <1>3, SameMarket
<1>5. LedgerIsKept'
  BY <1>1, <1>2, <1>3
  DEF LedgerIsKept, TypeOK, ProcStep, Wake, TakeLock, LockBusy, CrashOutsideLock, Restart
<1>6. HolderSafe'
  <2>1. CASE TakeLock(p)
    <3>1. job' = Moved(NoJob, "mark")
      BY <2>1 DEF TakeLock, Moved
    <3>2. job'.step = "mark" /\ job'.leg = "entry"
      BY <3>1, Blanks, JobMoved DEF Steps
    <3>3. QED
      BY <3>2, NothingHeld
  <2>2. CASE UNCHANGED job
    BY <1>1, <1>3, <2>2
    DEF HolderSafe, BeforeTheAttempt, DuringTheAttempt, BetweenTheLegs,
        AfterTheAttempt, FillsSeen, EntryFirst, NoneAtRisk, NoneSent, Slot, Status, AtRisk,
        Live, Balanced
  <2>3. QED
    BY <1>2, <2>1, <2>2 DEF ProcStep, Wake, LockBusy, CrashOutsideLock, Restart
<1>7. QED
  BY <1>4, <1>5, <1>6

\* The steps that end a pass without another write.
LEMMA EndSafe ==
  ASSUME SafeInv, NothingToDo \/ RaiseAsWritten \/ CrashHolder
  PROVE  LedgerIsKept' /\ MarketSafe' /\ HolderSafe'
<1>1. TypeInv /\ TypeOK /\ JobShape /\ LedgerIsKept /\ MarketSafe
  BY DEF SafeInv, TypeInv
<1>2. UNCHANGED <<ledger, orders, position>>
  BY DEF NothingToDo, RaiseAsWritten, CrashHolder, Raise, files, broker
<1>3. lock # Nobody
  BY <1>1 DEF NothingToDo, RaiseAsWritten, CrashHolder, At, JobShape
<1>4. ledger.latch \in BOOLEAN
  BY <1>1 DEF LedgerIsKept, Ledger
<1>5. \/ \E latched \in BOOLEAN : Return(latched)
      \/ Raise
  BY <1>4 DEF NothingToDo, RaiseAsWritten, CrashHolder
<1>6. job' = NoJob
  BY <1>5 DEF Return, Raise
<1>7. \A p \in Procs : proc'[p] = "create" => proc[p] = "create"
  BY <1>1, <1>3, <1>5, LeaveTypes
<1>8. LedgerIsKept' /\ MarketSafe'
  BY <1>1, <1>2, <1>7, SameMarket DEF LedgerIsKept
<1>9. HolderSafe'
  BY <1>6, Blanks, NothingHeld
<1>10. QED
  BY <1>8, <1>9

\* The holder's writes: the latch is set before anything is sent, and cleared
\* only by a reconciled result.
LEMMA WriteSafe ==
  ASSUME SafeInv,
         MarkMissedSlots \/ BeginSlotAttempt \/ WriteSlotArtifacts \/ FinalizeSlotState
  PROVE  LedgerIsKept' /\ MarketSafe' /\ HolderSafe'
<1>1. /\ TypeInv /\ TypeOK /\ JobShape /\ LedgerIsKept /\ MarketSafe /\ HolderSafe
      /\ job \in Job
  BY DEF SafeInv, TypeInv, TypeOK
<1>2. UNCHANGED <<orders, position>>
  BY DEF MarkMissedSlots, BeginSlotAttempt, WriteSlotArtifacts, FinalizeSlotState, broker
<1>3. \A s \in Slots : (AtRisk(s)' <=> AtRisk(s)) /\ (Live(s)' <=> Live(s))
  BY <1>2 DEF AtRisk, Live, Balanced
<1>4. OneAtRisk' /\ PositionKnown' /\ FlattenWithinFill'
  <2>1. \A s \in Slots : Net(s)' = Net(s)
    BY <1>2 DEF Net
  <2>2. QED
    BY <1>1, <1>2, <1>3, <2>1
    DEF MarketSafe, OneAtRisk, PositionKnown, FlattenWithinFill
<1>5. ledger' \in Ledger
  BY <1>1, WriteTypes
<1>6. SUFFICES /\ \A p \in Procs : proc'[p] = "create" => proc[p] = "create"
               /\ ExposureIsLatched' /\ OneUnsettled' /\ HolderSafe'
               /\ \A s \in Slots : Scheduled(s)' => Scheduled(s)
  <2>1. SUFFICES ASSUME \A s \in Slots : Scheduled(s)' => Scheduled(s)
                 PROVE  ScheduledIsUntouched'
    BY <1>1, <1>4, <1>5 DEF LedgerIsKept, MarketSafe
  <2>2. QED
    BY <1>1, <1>2, <2>1 DEF MarketSafe, ScheduledIsUntouched
<1>7. CASE MarkMissedSlots
  <2>1. job'.step = "select" /\ job'.leg = "entry"
    <3>1. job.leg = "entry"
      BY <1>1, <1>7 DEF MarkMissedSlots, At, HolderSafe, EntryFirst
    <3>2. QED
      BY <1>1, <1>7, <3>1, Going DEF MarkMissedSlots, Steps
  <2>2. ledger'.latch = ledger.latch
    BY <1>1, <1>7 DEF MarkMissedSlots, LedgerIsKept, Ledger
  <2>3. \A s \in Slots : \/ Scheduled(s) /\ Status(s)' = "skipped_missed_window"
                         \/ Status(s)' = Status(s)
    BY <1>1, <1>7 DEF MarkMissedSlots, LedgerIsKept, Ledger, Row, Missed, Status
  <2>4. ExposureIsLatched'
    BY <1>1, <1>3, <2>2, <2>3 DEF MarketSafe, ExposureIsLatched, Scheduled
  <2>5. OneUnsettled' /\ \A s \in Slots : Scheduled(s)' => Scheduled(s)
    BY <1>1, <2>2, <2>3 DEF MarketSafe, OneUnsettled, Unsettled, Scheduled
  <2>6. QED
    BY <1>7, <2>1, <2>4, <2>5, NothingHeld DEF MarkMissedSlots
<1>8. CASE BeginSlotAttempt
  <2>1. Slot \in Slots /\ ledger' = BegunLedger(ledger, Slot)
    BY <1>1, <1>8 DEF BeginSlotAttempt, BegunLedger, At, JobShape, Slot
  <2>2. /\ ledger'.latch /\ ledger'.rows[Slot].status = "in_progress"
        /\ \A s \in Slots \ {Slot} : Status(s)' = Status(s)
    BY <1>1, <2>1, LedgerBegun DEF LedgerIsKept, Status
  <2>3. job'.step = "submit" /\ job'.slot = job.slot /\ job'.leg = "entry"
    <3>1. job.leg = "entry"
      BY <1>1, <1>8 DEF BeginSlotAttempt, At, HolderSafe, EntryFirst
    <3>2. QED
      BY <1>1, <1>8, <3>1, Going DEF BeginSlotAttempt, Steps
  <2>4. ~ledger.latch
    BY <1>1, <1>8 DEF BeginSlotAttempt, At, HolderSafe, BeforeTheAttempt
  <2>5. \A s \in Slots : ~AtRisk(s)'
    BY <1>1, <1>3, <2>4 DEF MarketSafe, ExposureIsLatched
  <2>6. orders'[Slot]["entry"].state = "none"
    BY <1>1, <1>2, <1>8, <2>1 DEF BeginSlotAttempt, MarketSafe, ScheduledIsUntouched
  <2>7. HolderSafe'
    BY <2>1, <2>2, <2>3, <2>5, <2>6
    DEF HolderSafe, BeforeTheAttempt, DuringTheAttempt, BetweenTheLegs,
        AfterTheAttempt, FillsSeen, EntryFirst, Slot, Status
  <2>8. OneUnsettled' /\ \A s \in Slots : Scheduled(s)' => Scheduled(s)
    <3>1. \A s \in Slots : ~Unsettled(s)
      BY <1>1, <2>4 DEF MarketSafe, OneUnsettled
    <3>2. \A s \in Slots : Unsettled(s)' => s = Slot
      BY <2>2, <3>1 DEF Unsettled
    <3>3. \A s \in Slots : Scheduled(s)' => Scheduled(s)
      BY <2>2 DEF Scheduled, Status
    <3>4. QED
      BY <2>2, <3>2, <3>3 DEF OneUnsettled
  <2>9. QED
    BY <1>8, <2>5, <2>7, <2>8 DEF BeginSlotAttempt, ExposureIsLatched
<1>9. CASE WriteSlotArtifacts
  <2>1. ledger' = ledger /\ proc' = proc
    BY <1>9 DEF WriteSlotArtifacts
  <2>2. ExposureIsLatched'
    BY <1>1, <1>3, <2>1 DEF MarketSafe, ExposureIsLatched, Status
  <2>3. job'.step = "finalize" /\ job'.slot = job.slot /\ job'.result = job.result
    BY <1>1, <1>9, Going DEF WriteSlotArtifacts, Steps
  <2>4. job.step = "store"
    BY <1>9 DEF WriteSlotArtifacts, At
  <2>5. HolderSafe'
    BY <1>1, <1>3, <2>1, <2>3, <2>4
    DEF HolderSafe, BeforeTheAttempt, DuringTheAttempt, BetweenTheLegs,
        AfterTheAttempt, FillsSeen, EntryFirst, NoneAtRisk, Slot, Status
  <2>6. OneUnsettled' /\ \A s \in Slots : Scheduled(s)' => Scheduled(s)
    BY <1>1, <2>1 DEF MarketSafe, OneUnsettled, Unsettled, Scheduled, Status
  <2>7. QED
    BY <2>1, <2>2, <2>5, <2>6
<1>10. CASE FinalizeSlotState
  <2> DEFINE r == job.result
             row == [status |-> FinalStatus(r), submitted |-> r.submitted,
                     entry |-> r.entry, exit |-> r.exit, referenced |-> TRUE]
  <2>1. /\ job.step = "finalize" /\ r.reconciled \in BOOLEAN
        /\ row.status = FinalStatus(r)
    BY <1>1, <1>10 DEF FinalizeSlotState, At, Job, Result
  <2>2. /\ ledger' = [latch |-> ~r.reconciled,
                      rows |-> [ledger.rows EXCEPT ![Slot] = row]]
        /\ Return(~r.reconciled)
    BY <1>10 DEF FinalizeSlotState
  <2> HIDE DEF row
  <2>3. /\ job' = NoJob
        /\ \A p \in Procs : proc'[p] = "create" => proc[p] = "create"
    <3>1. lock # Nobody
      BY <1>1, <2>1 DEF JobShape
    <3>2. (~r.reconciled) \in BOOLEAN
      BY <2>1
    <3>3. QED
      BY <1>1, <2>2, <3>1, <3>2, LeaveTypes DEF Return
  <2>4. HolderSafe'
    BY <2>3, Blanks, NothingHeld
  <2>5. ExposureIsLatched'
    <3>1. CASE r.reconciled
      <4>1. NoneAtRisk
        BY <1>1, <2>1, <3>1 DEF HolderSafe, AfterTheAttempt
      <4>2. QED
        BY <1>3, <4>1 DEF NoneAtRisk, ExposureIsLatched
    <3>2. CASE ~r.reconciled
      <4>1. FinalStatus(r) = "manual_recovery_required"
        BY <3>2 DEF FinalStatus
      <4>2. ledger'.latch
        BY <2>2, <3>2
      <4>3. ASSUME NEW s \in Slots, AtRisk(s)'
            PROVE  Status(s)' \in {"in_progress", "manual_recovery_required"}
        <5>1. Status(s) \in {"in_progress", "manual_recovery_required"}
          BY <1>1, <1>3, <4>3 DEF MarketSafe, ExposureIsLatched
        <5>2. ledger'.rows = [ledger.rows EXCEPT ![Slot] = row]
                /\ ledger.rows \in [Slots -> Row]
          BY <1>1, <2>2 DEF LedgerIsKept, Ledger
        <5>3. ledger'.rows[s] = IF s = Slot THEN row ELSE ledger.rows[s]
          BY <5>2
        <5>4. QED
          BY <2>1, <4>1, <5>1, <5>3 DEF Status
      <4>4. QED
        BY <4>2, <4>3 DEF ExposureIsLatched
    <3>3. QED
      BY <2>1, <3>1, <3>2
  <2>6. OneUnsettled' /\ \A s \in Slots : Scheduled(s)' => Scheduled(s)
    <3>1. Slot \in Slots /\ ledger'.rows = [ledger.rows EXCEPT ![Slot] = row]
            /\ ledger.rows \in [Slots -> Row]
      BY <1>1, <2>1, <2>2 DEF JobShape, Slot, LedgerIsKept, Ledger
    <3>2. /\ ledger'.rows[Slot].status = FinalStatus(r)
          /\ \A s \in Slots \ {Slot} : Status(s)' = Status(s)
      BY <2>1, <3>1 DEF Status
    <3>3. /\ ledger.latch \/ ~r.reconciled => Status(Slot) = "in_progress"
          /\ ledger'.latch = ~r.reconciled
      BY <1>1, <2>1, <2>2 DEF HolderSafe, AfterTheAttempt
    <3>4. \A s \in Slots : Unsettled(s) => s = Slot
      BY <1>1, <3>1, <3>3 DEF MarketSafe, OneUnsettled, Unsettled
    <3>5. /\ FinalStatus(r) # "authorized_scheduled"
          /\ FinalStatus(r) \in {"in_progress", "manual_recovery_required"}
               => ~r.reconciled
      BY DEF FinalStatus
    <3>6. \A s \in Slots : Unsettled(s)' => s = Slot /\ ~r.reconciled
      BY <3>2, <3>4, <3>5 DEF Unsettled, Status
    <3>7. \A s \in Slots : Scheduled(s)' => Scheduled(s)
      BY <3>2, <3>5 DEF Scheduled, Status
    <3>8. QED
      BY <3>3, <3>6, <3>7 DEF OneUnsettled
  <2>7. QED
    BY <2>3, <2>4, <2>5, <2>6
<1>11. QED
  BY <1>7, <1>8, <1>9, <1>10

\* The local steps: what is read is what the next steps rely on.
LEMMA LocalSafe ==
  ASSUME SafeInv, LocalStep
  PROVE  LedgerIsKept' /\ MarketSafe' /\ HolderSafe'
<1>1. /\ TypeInv /\ JobShape /\ LedgerIsKept /\ MarketSafe /\ HolderSafe
      /\ job \in Job /\ orders \in [Slots -> [Legs -> Order]] /\ position \in Int
  BY DEF SafeInv, TypeInv, TypeOK
<1>2. OnlyJob
  BY <1>1, LocalTypes
<1>3. LedgerIsKept' /\ MarketSafe'
  BY <1>1, <1>2, SameMarket DEF OnlyJob, LedgerIsKept
<1>4. /\ \A s \in Slots : (AtRisk(s)' <=> AtRisk(s)) /\ (Live(s)' <=> Live(s))
      /\ \A s \in Slots : Status(s)' = Status(s)
      /\ ledger' = ledger /\ orders' = orders /\ position' = position
  BY <1>2, SameMarket DEF OnlyJob
<1>5. ~ledger.latch => NoneAtRisk
  BY <1>1 DEF MarketSafe, ExposureIsLatched, NoneAtRisk
<1>6. NoneAtRisk' <=> NoneAtRisk
  BY <1>4 DEF NoneAtRisk
<1>7. SUFFICES HolderSafe'
  BY <1>3
<1>8. CASE SelectDueSlot
  <2>1. PICK s \in Slots : job' = Selected(job, s, LedgerAllows(s))
    BY <1>1, <1>8, LocalJob
  <2>2. LedgerAllows(s) \in BOOLEAN
    BY DEF LedgerAllows
  <2>3. s \in 0..N
    BY CampaignAssumption DEF Slots
  <2>4. job'.step = "open" /\ job'.leg = job.leg
    BY <1>1, <2>1, <2>2, <2>3, JobSelected
  <2>5. ~ledger'.latch
    BY <1>4, <1>8 DEF SelectDueSlot
  <2>6. job.leg = "entry"
    BY <1>1, <1>8 DEF SelectDueSlot, At, HolderSafe, EntryFirst
  <2>7. QED
    BY <2>4, <2>5, <2>6 DEF HolderSafe, BeforeTheAttempt, DuringTheAttempt, BetweenTheLegs,
       AfterTheAttempt, FillsSeen, EntryFirst
<1>9. CASE ReadOpenOrders \/ ReadPosition
  <2>1. job'.step \in {"position", "history"} /\ job'.leg = job.leg
    <3>1. CASE ReadOpenOrders
      <4>1. job' = Read(job, "position", /\ job.clear
                                         /\ OpenOrders = {}
                                         /\ job.round = 1 => InWindow(Slot, clock))
        BY <1>1, <3>1, LocalJob
      <4>2. PICK c \in BOOLEAN : job' = Read(job, "position", c)
        BY <4>1, Zenon
      <4>3. "position" \in Steps
        BY DEF Steps
      <4>4. QED
        BY <1>1, <4>2, <4>3, JobRead
    <3>2. CASE ReadPosition
      <4>1. job' = Read(job, "history", job.clear /\ position = 0)
        BY <1>1, <3>2, LocalJob
      <4>2. PICK c \in BOOLEAN : job' = Read(job, "history", c)
        BY <4>1, Zenon
      <4>3. "history" \in Steps
        BY DEF Steps
      <4>4. QED
        BY <1>1, <4>2, <4>3, JobRead
    <3>3. QED
      BY <1>9, <3>1, <3>2
  <2>2. ~ledger'.latch
    BY <1>1, <1>4, <1>9 DEF ReadOpenOrders, ReadPosition, At, HolderSafe, BeforeTheAttempt
  <2>3. job.leg = "entry"
    BY <1>1, <1>9 DEF ReadOpenOrders, ReadPosition, At, HolderSafe, EntryFirst
  <2>4. QED
    BY <2>1, <2>2, <2>3 DEF HolderSafe, BeforeTheAttempt, DuringTheAttempt, BetweenTheLegs,
       AfterTheAttempt, FillsSeen, EntryFirst
<1>10. CASE ReadHistory
  <2>1. ~ledger.latch
    BY <1>1, <1>10 DEF ReadHistory, At, HolderSafe, BeforeTheAttempt
  <2>2. job' = Skipped(job) \/ job' = Again(job) \/ job' = Begun(job)
    BY <1>1, <1>10, LocalJob
  <2>3. /\ job'.step \in {"store", "open", "begin"} /\ job'.leg = job.leg
        /\ job'.step = "store" => job'.result.reconciled
    <3>1. CASE job' = Skipped(job)
      BY <1>1, <3>1, JobSkipped, Blanks
    <3>2. CASE job' = Again(job)
      BY <1>1, <3>2, JobAgain
    <3>3. CASE job' = Begun(job)
      BY <1>1, <3>3, JobBegun
    <3>4. QED
      BY <2>2, <3>1, <3>2, <3>3
  <2>4. job.leg = "entry"
    BY <1>1, <1>10 DEF ReadHistory, At, HolderSafe, EntryFirst
  <2>5. QED
    BY <1>4, <1>5, <1>6, <2>1, <2>3, <2>4
    DEF HolderSafe, BeforeTheAttempt, DuringTheAttempt, BetweenTheLegs,
        AfterTheAttempt, FillsSeen, EntryFirst
<1>11. CASE LateForSubmission
  <2>1. job.step = "submit"
    BY <1>11 DEF LateForSubmission, At
  <2>2. job' = Late(job)
    BY <1>1, <1>11, LocalJob
  <2>3. job'.step = "store" /\ job'.slot = job.slot /\ job'.result.reconciled
    BY <1>1, <2>2, JobLate, Blanks
  <2>4. NoneAtRisk /\ Status(Slot) = "in_progress"
    BY <1>1, <2>1 DEF HolderSafe, DuringTheAttempt, BetweenTheLegs, NoneAtRisk
  <2>5. Status(Slot)' = "in_progress"
    BY <1>4, <2>3, <2>4 DEF Status, Slot
  <2>6. QED
    BY <1>6, <2>3, <2>4, <2>5
    DEF HolderSafe, BeforeTheAttempt, DuringTheAttempt, BetweenTheLegs,
        AfterTheAttempt, FillsSeen, EntryFirst
<1>12. ASSUME ReceiveResponse \/ PollOrder \/ CancelOrder
       PROVE  HolderSafe'
  <2>1. job.step \in {"await", "poll"}
    BY <1>12 DEF ReceiveResponse, PollOrder, CancelOrder, At
  <2>2. Slot \in Slots /\ job.leg \in Legs
    BY <1>1, <2>1 DEF JobShape, Slot, Job
  <2>3. CurrentOrder \in Order
    BY <1>1, <2>2 DEF CurrentOrder
  <2>4. Snapshot.filled \in 0..Qty /\ Snapshot.over \in BOOLEAN
          /\ Snapshot.filled = CurrentOrder.filled
    BY <2>3 DEF Snapshot, Order
  <2>5. /\ job'.step = "poll" /\ job'.slot = job.slot /\ job'.leg = job.leg
        /\ \/ job'.filled = CurrentOrder.filled
           \/ job.step = "poll" /\ job'.filled = job.filled
    <3>1. CASE ReceiveResponse
      <4>1. job' = Answered(job, Snapshot.filled, Snapshot.over)
        BY <1>1, <3>1, LocalJob
      <4>2. QED
        BY <1>1, <2>4, <4>1, JobAnswered
    <3>2. CASE PollOrder
      <4>1. job' = Polled(job, job.polls + 1, Snapshot.filled, Snapshot.over)
        BY <1>1, <3>2, LocalJob
      <4>2. job.polls + 1 \in 0..MaxPolls
        BY <1>1, <3>2, CampaignAssumption DEF Job, PollOrder
      <4>3. QED
        BY <1>1, <2>4, <3>2, <4>1, <4>2, JobPolled DEF PollOrder, At
    <3>3. CASE CancelOrder
      <4>1. job' = Cancelled(job)
        BY <1>1, <3>3, LocalJob
      <4>2. QED
        BY <1>1, <3>3, <4>1, JobCancelled DEF CancelOrder, At
    <3>4. QED
      BY <1>12, <3>1, <3>2, <3>3
  <2>6. DuringTheAttempt'
    BY <1>1, <1>4, <2>1, <2>5 DEF HolderSafe, DuringTheAttempt, Slot, Status
  <2>7. NoneSent
    <3>1. CASE job.step = "poll"
      BY <1>1, <3>1 DEF HolderSafe, BetweenTheLegs
    <3>2. CASE job.step = "await"
      <4>1. CurrentOrder.state \in {"open", "done"}
        BY <1>12, <3>2 DEF ReceiveResponse, PollOrder, CancelOrder, At
      <4>2. QED
        BY <1>1, <3>2, <4>1 DEF HolderSafe, BetweenTheLegs, NoneSent, CurrentOrder
    <3>3. QED
      BY <2>1, <3>1, <3>2
  <2>8. BetweenTheLegs'
    BY <1>4, <2>5, <2>7 DEF BetweenTheLegs, NoneSent, Slot
  <2>9. FillsSeen'
    <3>1. CASE job'.filled = CurrentOrder.filled
      <4>1. ASSUME job'.leg = "entry"
            PROVE  job'.filled <= orders'[job'.slot]["entry"].filled
        <5>1. CurrentOrder = orders[Slot]["entry"]
          BY <2>5, <4>1 DEF CurrentOrder
        <5>2. CurrentOrder.filled \in Int
          BY <2>3 DEF Order
        <5>3. QED
          BY <1>4, <2>5, <3>1, <5>1, <5>2 DEF Slot
      <4>2. QED
        BY <2>5, <4>1 DEF FillsSeen, Slot
    <3>2. CASE job.step = "poll" /\ job'.filled = job.filled
      BY <1>1, <1>4, <2>5, <3>2 DEF HolderSafe, FillsSeen, Slot
    <3>3. QED
      BY <2>5, <3>1, <3>2
  <2>10. EntryFirst' /\ BeforeTheAttempt' /\ AfterTheAttempt'
    BY <2>5 DEF EntryFirst, BeforeTheAttempt, AfterTheAttempt
  <2>11. QED
    BY <2>6, <2>8, <2>9, <2>10 DEF HolderSafe
<1>13. CASE EndLeg
  <2>1. job.filled \in 0..Qty /\ job.result \in Result /\ job.step = "poll"
    BY <1>1, <1>13 DEF Job, EndLeg, At
  <2>2. /\ [job.result EXCEPT !.entry = job.filled] \in Result
        /\ [job.result EXCEPT !.entry = job.filled].entry = job.filled
        /\ [job.result EXCEPT !.exit = job.filled] \in Result
    BY <2>1 DEF Result
  <2>3. Settled(job) \in Job /\ Settled(job).slot = job.slot
    BY <1>1, JobSettled
  <2>4. job'.slot = job.slot /\
          \/ /\ job'.step = "flatten" /\ job'.leg = "exit"
             /\ job.leg = "entry" /\ job'.result.entry = job.filled
          \/ job'.step = "closingOpen"
    <3>1. CASE /\ job.leg = "entry"
               /\ job' = Flattening(Settled(job), [job.result EXCEPT !.entry = job.filled])
      <4>1. /\ job'.slot = job.slot /\ job'.step = "flatten" /\ job'.leg = "exit"
            /\ job'.result = [job.result EXCEPT !.entry = job.filled]
        BY <2>2, <2>3, <3>1, JobFlattening
      <4>2. QED
        BY <2>2, <3>1, <4>1
    <3>2. CASE \/ job' = Closing(Settled(job))
               \/ job' = Closed(Settled(job), [job.result EXCEPT !.exit = job.filled])
      BY <2>2, <2>3, <3>2, JobClosing, JobClosed
    <3>3. QED
      BY <1>1, <1>13, <3>1, <3>2, LocalJob
  <2>5. DuringTheAttempt'
    BY <1>1, <1>4, <2>1, <2>4 DEF HolderSafe, DuringTheAttempt, Slot, Status
  <2>6. NoneSent'
    BY <1>1, <1>4, <2>1, <2>4 DEF HolderSafe, BetweenTheLegs, NoneSent, Slot
  <2>7. BetweenTheLegs'
    BY <2>4, <2>6 DEF BetweenTheLegs
  <2>8. FillsSeen'
    BY <1>1, <1>4, <2>1, <2>4 DEF HolderSafe, FillsSeen, Slot
  <2>9. EntryFirst' /\ BeforeTheAttempt' /\ AfterTheAttempt'
    BY <2>4 DEF EntryFirst, BeforeTheAttempt, AfterTheAttempt
  <2>10. QED
    BY <2>5, <2>7, <2>8, <2>9 DEF HolderSafe
<1>14. CASE ClosingOpenOrders
  <2>1. job.step = "closingOpen" /\ Slot \in Slots
    BY <1>1, <1>14 DEF ClosingOpenOrders, At, JobShape, Slot
  <2>2. job' = Read(job, "closingPosition", OpenOrders = {})
    BY <1>1, <1>14, LocalJob
  <2>3. PICK c \in BOOLEAN :
          job' = Read(job, "closingPosition", c) /\ (c <=> OpenOrders = {})
    BY <2>2, Zenon
  <2>4. job'.step = "closingPosition" /\ job'.slot = job.slot /\ job'.clear = c
    <3>1. "closingPosition" \in Steps
      BY DEF Steps
    <3>2. QED
      BY <1>1, <2>3, <3>1, JobRead
  <2>5. NoneSent
    BY <1>1, <2>1 DEF HolderSafe, BetweenTheLegs
  <2>6. OpenOrders = {} => ~Live(Slot)
    <3>1. ASSUME NEW leg \in Legs, orders[Slot][leg].state = "open"
          PROVE  OpenOrders # {}
      <4>1. <<Slot, leg>> \in Slots \X Legs
        BY <2>1
      <4>2. <<Slot, leg>> \in OpenOrders
        BY <3>1, <4>1 DEF OpenOrders
      <4>3. QED
        BY <4>2
    <3>2. QED
      BY <2>5, <3>1 DEF NoneSent, Live
  <2>7. NoneSent' /\ (job'.clear => ~Live(Slot)')
    BY <1>4, <2>1, <2>3, <2>4, <2>5, <2>6 DEF NoneSent, Slot, Live
  <2>8. BetweenTheLegs'
    BY <2>4, <2>7 DEF BetweenTheLegs
  <2>9. DuringTheAttempt'
    BY <1>1, <1>4, <2>1, <2>4 DEF HolderSafe, DuringTheAttempt, Slot, Status
  <2>10. EntryFirst' /\ BeforeTheAttempt' /\ AfterTheAttempt' /\ FillsSeen'
    BY <2>4 DEF EntryFirst, BeforeTheAttempt, AfterTheAttempt, FillsSeen
  <2>11. QED
    BY <2>8, <2>9, <2>10 DEF HolderSafe
<1>15. CASE ClosingPosition
  <2>1. job.step = "closingPosition" /\ Slot \in Slots
    BY <1>1, <1>15 DEF ClosingPosition, At, JobShape, Slot
  <2>2. PICK c \in BOOLEAN :
          /\ job' = Judged(job, [job.result EXCEPT !.reconciled = c])
          /\ c => job.clear /\ position = 0
    <3>1. job' = Judged(job, [job.result EXCEPT !.reconciled =
                   /\ job.clear
                   /\ position = 0
                   /\ job.result.entry = job.result.exit])
      BY <1>1, <1>15, LocalJob
    <3>2. QED
      BY <3>1, Zenon
  <2>3. [job.result EXCEPT !.reconciled = c] \in Result
          /\ [job.result EXCEPT !.reconciled = c].reconciled = c
    BY <1>1 DEF Job, Result
  <2>4. job'.step = "store" /\ job'.slot = job.slot /\ job'.result.reconciled = c
    BY <1>1, <2>2, <2>3, JobJudged
  <2>5. /\ \A s \in Slots \ {Slot} : ~AtRisk(s)
        /\ Status(Slot) = "in_progress"
        /\ job.clear => ~Live(Slot)
    BY <1>1, <2>1 DEF HolderSafe, DuringTheAttempt, BetweenTheLegs
  <2>6. ASSUME c
        PROVE  NoneAtRisk
    <3>1. AtRisk(Slot) => Net(Slot) = 0
      BY <1>1, <2>1, <2>2, <2>6 DEF MarketSafe, PositionKnown
    <3>2. orders[Slot]["entry"].filled \in Int /\ orders[Slot]["exit"].filled \in Int
      BY <1>1, <2>1 DEF Legs, Order
    <3>3. Net(Slot) = 0 => Balanced(Slot)
      BY <3>2 DEF Net, Balanced
    <3>4. ~AtRisk(Slot)
      BY <2>2, <2>5, <2>6, <3>1, <3>3 DEF AtRisk
    <3>5. QED
      BY <2>5, <3>4 DEF NoneAtRisk
  <2>7. AfterTheAttempt'
    BY <1>4, <1>6, <2>4, <2>5, <2>6 DEF AfterTheAttempt, Status, Slot
  <2>8. EntryFirst' /\ BeforeTheAttempt' /\ DuringTheAttempt' /\ BetweenTheLegs' /\ FillsSeen'
    BY <2>4 DEF EntryFirst, BeforeTheAttempt, DuringTheAttempt, BetweenTheLegs, FillsSeen
  <2>9. QED
    BY <2>7, <2>8 DEF HolderSafe
<1>16. QED
  BY <1>8, <1>9, <1>10, <1>11, <1>12, <1>13, <1>14, <1>15 DEF LocalStep

\* A leg is sent only from an armed ledger, with no other slot in the market
\* and no leg of this one in flight; a flatten only after a fill.
LEMMA SendMove ==
  ASSUME SafeInv, SubmitEntry \/ SubmitFlatten
  PROVE  /\ Slot \in Slots /\ ledger.latch /\ Status(Slot) = "in_progress"
         /\ \A s \in Slots \ {Slot} : ~AtRisk(s)
         /\ \A leg \in Legs : orders[Slot][leg].state # "sent"
         /\ job.leg \in Legs /\ orders[Slot][job.leg].filled = 0
         /\ SubmitEntry => job.leg = "entry" /\ orders[Slot]["entry"].state = "none"
         /\ SubmitFlatten => job.leg = "exit" /\ orders[Slot]["entry"].state # "none"
         /\ \E q \in 0..Qty :
              /\ orders' = [orders EXCEPT ![Slot][job.leg] =
                              [state |-> "sent", quantity |-> q, filled |-> 0]]
              /\ job.leg = "exit" => q <= orders[Slot]["entry"].filled
         /\ job'.step = "await" /\ job'.slot = job.slot /\ job'.leg = job.leg
         /\ UNCHANGED <<ledger, proc, position>>
<1>1. /\ TypeInv /\ JobShape /\ OrderShape /\ LedgerIsKept /\ MarketSafe /\ HolderSafe
      /\ job \in Job /\ orders \in [Slots -> [Legs -> Order]] /\ position \in Int
  BY DEF SafeInv, TypeInv, TypeOK
<1>2. job.step \in {"submit", "flatten"} /\ Slot \in Slots
  BY <1>1 DEF SubmitEntry, SubmitFlatten, At, JobShape, Slot
<1>3. /\ ledger.latch /\ Status(Slot) = "in_progress"
      /\ \A s \in Slots \ {Slot} : ~AtRisk(s)
      /\ \A leg \in Legs : orders[Slot][leg].state # "sent"
  <2>1. CASE job.step = "submit"
    BY <1>1, <2>1 DEF HolderSafe, DuringTheAttempt, BetweenTheLegs, AtRisk, Live
  <2>2. CASE job.step = "flatten"
    BY <1>1, <2>2 DEF HolderSafe, DuringTheAttempt, BetweenTheLegs, NoneSent
  <2>3. QED
    BY <1>2, <2>1, <2>2
<1>4. orders[Slot][job.leg].state \in {"none", "lost"} /\ orders[Slot][job.leg].filled = 0
  <2>1. job.leg \in Legs
    BY <1>1 DEF Job
  <2>2. orders[Slot][job.leg].state \in {"none", "lost"}
    BY DEF SubmitEntry, SubmitFlatten, Refused
  <2>3. QED
    BY <1>1, <1>2, <2>1, <2>2 DEF OrderShape
<1>5. \E q \in 0..Qty :
        /\ orders' = [orders EXCEPT ![Slot][job.leg] =
                        [state |-> "sent", quantity |-> q, filled |-> 0]]
        /\ job.leg = "exit" => q <= orders[Slot]["entry"].filled
        /\ job'.step = "await" /\ job'.slot = job.slot /\ job'.leg = job.leg
  <2>1. CASE SubmitEntry
    <3>1. job' = Submitting(job)
      BY <2>1 DEF SubmitEntry, Submitting
    <3>2. job'.leg = "entry" /\ job'.step = "await" /\ job'.slot = job.slot
      BY <1>1, <3>1, JobSubmitting
    <3>3. job.leg = "entry"
      BY <1>1, <2>1 DEF SubmitEntry, At, HolderSafe, EntryFirst
    <3>4. Send("entry", Qty) /\ Qty \in 0..Qty
      BY <2>1, CampaignAssumption DEF SubmitEntry
    <3>5. QED
      BY <3>2, <3>3, <3>4 DEF Send
  <2>2. CASE SubmitFlatten
    <3>1. job.step = "flatten" /\ Send("exit", job.result.entry)
      BY <2>2 DEF SubmitFlatten, At
    <3>2. /\ job.leg = "exit" /\ job.result.entry \in 0..Qty
          /\ job.result.entry <= orders[Slot]["entry"].filled
      BY <1>1, <3>1 DEF HolderSafe, BetweenTheLegs, FillsSeen, Job, Result
    <3>3. job'.leg = job.leg /\ job'.step = "await" /\ job'.slot = job.slot
      BY <1>1, <2>2, Going DEF SubmitFlatten, Steps
    <3>4. QED
      BY <3>1, <3>2, <3>3 DEF Send
  <2>3. QED
    BY <2>1, <2>2
<1>6. SubmitEntry => job.leg = "entry" /\ orders[Slot]["entry"].state = "none"
  BY <1>1 DEF SubmitEntry, At, HolderSafe, EntryFirst, BetweenTheLegs
<1>7. ASSUME SubmitFlatten
      PROVE  job.leg = "exit" /\ orders[Slot]["entry"].state # "none"
  <2>1. job.step = "flatten" /\ job.leg = "exit"
    BY <1>1, <1>7 DEF SubmitFlatten, At, HolderSafe, BetweenTheLegs
  <2>2. /\ job.result.entry \in Int /\ job.result.entry > 0
        /\ job.result.entry <= orders[Slot]["entry"].filled
        /\ orders[Slot]["entry"].filled \in Int
    BY <1>1, <1>2, <2>1 DEF JobShape, HolderSafe, FillsSeen, Job, Result, Legs, Order
  <2>3. orders[Slot]["entry"].filled # 0
    BY <2>2
  <2>4. QED
    BY <1>1, <1>2, <2>1, <2>3 DEF OrderShape, Legs
<1>8. UNCHANGED <<ledger, proc, position>>
  BY DEF SubmitEntry, SubmitFlatten, Send, files
<1>9. job.leg \in Legs
  BY <1>1 DEF Job
<1>10. QED
  BY <1>2, <1>3, <1>4, <1>5, <1>6, <1>7, <1>8, <1>9

\* The submissions: the slot that is exposed is the one the ledger names.
LEMMA SendSafe ==
  ASSUME SafeInv, SubmitEntry \/ SubmitFlatten
  PROVE  LedgerIsKept' /\ MarketSafe' /\ HolderSafe'
<1>1. /\ TypeInv /\ JobShape /\ OrderShape /\ LedgerIsKept /\ MarketSafe /\ HolderSafe
      /\ job \in Job /\ orders \in [Slots -> [Legs -> Order]] /\ position \in Int
  BY DEF SafeInv, TypeInv, TypeOK
<1>2. Slot \in Slots
  BY SendMove
<1>3. /\ ledger.latch /\ Status(Slot) = "in_progress"
      /\ \A s \in Slots \ {Slot} : ~AtRisk(s)
      /\ \A leg \in Legs : orders[Slot][leg].state # "sent"
  BY SendMove
<1>4. job.leg \in Legs /\ orders[Slot][job.leg].filled = 0
  BY SendMove
<1>5. PICK q \in 0..Qty :
        /\ orders' = [orders EXCEPT ![Slot][job.leg] =
                        [state |-> "sent", quantity |-> q, filled |-> 0]]
        /\ job.leg = "exit" => q <= orders[Slot]["entry"].filled
        /\ job'.step = "await" /\ job'.slot = job.slot /\ job'.leg = job.leg
  BY SendMove
<1> DEFINE o == [state |-> "sent", quantity |-> q, filled |-> 0]
<1>6. o.state = "sent" /\ o.quantity = q /\ o.filled = 0
  OBVIOUS
<1>7. UNCHANGED <<ledger, proc, position>>
  BY SendMove
<1> HIDE DEF o
<1>8. /\ job.leg \in Legs
      /\ \A s \in Slots, leg \in Legs :
           orders'[s][leg] = IF s = Slot /\ leg = job.leg THEN o ELSE orders[s][leg]
  BY <1>1, <1>2, <1>5 DEF Job, o
<1>9. \A s \in Slots : /\ Balanced(s)' <=> Balanced(s)
                       /\ Net(s)' = Net(s)
                       /\ s # Slot => (AtRisk(s)' <=> AtRisk(s))
  BY <1>4, <1>6, <1>8 DEF Balanced, Net, AtRisk, Live, Legs
<1>11. MarketSafe'
  <2>1. ExposureIsLatched' /\ OneAtRisk'
    BY <1>3, <1>7, <1>9 DEF ExposureIsLatched, OneAtRisk, Status
  <2>2. position = Net(Slot)
    <3>1. CASE AtRisk(Slot)
      BY <1>1, <1>2, <3>1 DEF MarketSafe, PositionKnown
    <3>2. CASE ~AtRisk(Slot)
      <4>1. position = 0
        BY <1>1, <1>3, <3>2 DEF MarketSafe, PositionKnown
      <4>2. orders[Slot]["entry"].filled \in Int /\ orders[Slot]["exit"].filled \in Int
        BY <1>1, <1>2 DEF Legs, Order
      <4>3. Net(Slot) = 0
        BY <3>2, <4>2 DEF AtRisk, Balanced, Net
      <4>4. QED
        BY <4>1, <4>3
    <3>3. QED
      BY <3>1, <3>2
  <2>3. PositionKnown'
    <3>1. \A s \in Slots : AtRisk(s)' => s = Slot
      BY <1>3, <1>9
    <3>2. Net(Slot)' = Net(Slot)
      <4>1. Slot' = Slot
        BY <1>5 DEF Slot
      <4>2. QED
        BY <1>2, <1>9, <4>1 DEF Net
    <3>3. \A s \in Slots : AtRisk(s)' => position' = Net(s)'
      BY <1>7, <1>9, <2>2, <3>1
    <3>4. ~(\A s \in Slots : ~AtRisk(s)')
      BY <1>2, <1>6, <1>8 DEF AtRisk, Live
    <3>5. QED
      BY <3>3, <3>4 DEF PositionKnown
  <2>4. FlattenWithinFill'
    <3>1. ASSUME NEW s \in Slots
          PROVE  orders'[s]["exit"].quantity <= orders'[s]["entry"].filled
      <4>1. /\ orders[s]["exit"].quantity \in Int /\ orders[s]["entry"].filled \in Int
            /\ orders[s]["exit"].quantity <= orders[s]["entry"].filled
        BY <1>1 DEF MarketSafe, FlattenWithinFill, Legs, Order
      <4>2. QED
        BY <1>4, <1>5, <1>6, <1>8, <4>1 DEF Legs
    <3>2. QED
      BY <3>1 DEF FlattenWithinFill
  <2>5. OneUnsettled'
    BY <1>1, <1>7 DEF MarketSafe, OneUnsettled, Unsettled, Status
  <2>6. ScheduledIsUntouched'
    <3>1. ASSUME NEW s \in Slots, Scheduled(s)'
          PROVE  orders'[s]["entry"].state = "none"
      <4>1. Scheduled(s) /\ s # Slot
        BY <1>3, <1>7, <3>1 DEF Scheduled, Status
      <4>2. orders[s]["entry"].state = "none"
        BY <1>1, <4>1 DEF MarketSafe, ScheduledIsUntouched
      <4>3. QED
        BY <1>8, <4>1, <4>2 DEF Legs
    <3>2. QED
      BY <3>1 DEF ScheduledIsUntouched
  <2>7. QED
    BY <2>1, <2>3, <2>4, <2>5, <2>6 DEF MarketSafe
<1>12. HolderSafe'
  <2>1. DuringTheAttempt'
    BY <1>3, <1>5, <1>7, <1>9 DEF DuringTheAttempt, Slot, Status
  <2>2. BetweenTheLegs'
    BY <1>2, <1>3, <1>5, <1>8 DEF BetweenTheLegs, Slot
  <2>3. EntryFirst' /\ BeforeTheAttempt' /\ AfterTheAttempt' /\ FillsSeen'
    BY <1>5 DEF EntryFirst, BeforeTheAttempt, AfterTheAttempt, FillsSeen
  <2>4. QED
    BY <2>1, <2>2, <2>3 DEF HolderSafe
<1>13. LedgerIsKept'
  BY <1>1, <1>7 DEF LedgerIsKept
<1>14. QED
  BY <1>11, <1>12, <1>13

\* The broker moves the one order that is at risk, and the position with it.
LEMMA BrokerSafe ==
  ASSUME SafeInv, NEW s \in Slots, NEW leg \in Legs,
         Arrive(s, leg) \/ Fill(s, leg) \/ Terminate(s, leg)
  PROVE  LedgerIsKept' /\ MarketSafe' /\ HolderSafe'
<1>1. /\ TypeInv /\ JobShape /\ LedgerIsKept /\ MarketSafe /\ HolderSafe
      /\ job \in Job /\ orders \in [Slots -> [Legs -> Order]] /\ position \in Int
  BY DEF SafeInv, TypeInv, TypeOK
<1> DEFINE o == orders[s][leg]
<1>2. PICK x \in Order :
        /\ orders' = [orders EXCEPT ![s][leg] = x]
        /\ x.quantity = o.quantity /\ x.state \in {"open", "done", "lost"}
        /\ \/ x.filled = o.filled /\ position' = position
           \/ x.filled = o.filled + 1 /\ position' = position + Signed(s, leg)
  BY <1>1, MarketMove
<1>3. o.state \in {"sent", "open"} /\ UNCHANGED <<ledger, proc, job>>
  BY <1>1, MarketMove DEF Environment, files
<1>4. \A t \in Slots, g \in Legs :
        orders'[t][g] = IF t = s /\ g = leg THEN x ELSE orders[t][g]
  BY <1>1, <1>2
<1>5. Live(s) /\ AtRisk(s)
  BY <1>3 DEF AtRisk, Live
<1>6. \A t \in Slots \ {s} : ~AtRisk(t)
  BY <1>1, <1>5 DEF MarketSafe, OneAtRisk
<1>7. \A t \in Slots \ {s} : ~AtRisk(t)'
  BY <1>4, <1>6 DEF AtRisk, Live, Balanced, Legs
<1>8. /\ ledger.latch /\ Status(s) \in {"in_progress", "manual_recovery_required"}
      /\ position = Net(s)
  BY <1>1, <1>5 DEF MarketSafe, ExposureIsLatched, PositionKnown
<1>9. /\ \A g \in Legs : orders[s][g].filled \in Int /\ orders[s][g].quantity \in Int
      /\ x.filled \in Int /\ x.quantity \in Int /\ o.filled \in Int
  BY <1>1 DEF Order
<1>10. position' = Net(s)'
  <2>1. s % 2 \in {0, 1}
    BY CampaignAssumption DEF Slots
  <2>2. CASE leg = "entry"
    <3>1. orders'[s]["entry"] = x /\ orders'[s]["exit"] = orders[s]["exit"]
      BY <1>4, <2>2 DEF Legs
    <3>2. Signed(s, leg) = IF s % 2 = 1 THEN 1 ELSE -1
      BY <2>2 DEF Signed, Direction
    <3>3. Net(s) = IF s % 2 = 1 THEN o.filled - orders[s]["exit"].filled
                                ELSE orders[s]["exit"].filled - o.filled
      BY <2>2 DEF Net
    <3>4. Net(s)' = IF s % 2 = 1 THEN x.filled - orders[s]["exit"].filled
                                 ELSE orders[s]["exit"].filled - x.filled
      BY <3>1 DEF Net
    <3>5. orders[s]["exit"].filled \in Int
      BY <1>9 DEF Legs
    <3>6. QED
      BY <1>2, <1>8, <1>9, <3>2, <3>3, <3>4, <3>5
  <2>3. CASE leg = "exit"
    <3>1. orders'[s]["exit"] = x /\ orders'[s]["entry"] = orders[s]["entry"]
      BY <1>4, <2>3 DEF Legs
    <3>2. Signed(s, leg) = IF s % 2 = 1 THEN -1 ELSE 1
      BY <2>3 DEF Signed, Direction
    <3>3. Net(s) = IF s % 2 = 1 THEN orders[s]["entry"].filled - o.filled
                                ELSE o.filled - orders[s]["entry"].filled
      BY <2>3 DEF Net
    <3>4. Net(s)' = IF s % 2 = 1 THEN orders[s]["entry"].filled - x.filled
                                 ELSE x.filled - orders[s]["entry"].filled
      BY <3>1 DEF Net
    <3>5. orders[s]["entry"].filled \in Int
      BY <1>9 DEF Legs
    <3>6. QED
      BY <1>2, <1>8, <1>9, <3>2, <3>3, <3>4, <3>5
  <2>4. QED
    BY <2>2, <2>3 DEF Legs
<1>11. MarketSafe'
  <2>1. ExposureIsLatched' /\ OneAtRisk'
    BY <1>3, <1>7, <1>8 DEF ExposureIsLatched, OneAtRisk, Status
  <2>2. ~AtRisk(s)' => Net(s)' = 0
    <3>1. orders'[s]["entry"].filled \in Int /\ orders'[s]["exit"].filled \in Int
      BY <1>4, <1>9 DEF Legs
    <3>2. QED
      BY <3>1 DEF AtRisk, Balanced, Net
  <2>3. PositionKnown'
    BY <1>7, <1>10, <2>2 DEF PositionKnown
  <2>4. FlattenWithinFill'
    <3>1. ASSUME NEW t \in Slots
          PROVE  orders'[t]["exit"].quantity <= orders'[t]["entry"].filled
      <4>1. orders[t]["exit"].quantity <= orders[t]["entry"].filled
        BY <1>1 DEF MarketSafe, FlattenWithinFill
      <4>2. QED
        BY <1>2, <1>4, <1>9, <4>1 DEF Legs
    <3>2. QED
      BY <3>1 DEF FlattenWithinFill
  <2>5. OneUnsettled'
    BY <1>1, <1>3 DEF MarketSafe, OneUnsettled, Unsettled, Status
  <2>6. ScheduledIsUntouched'
    <3>1. ASSUME NEW t \in Slots, Scheduled(t)'
          PROVE  orders'[t]["entry"].state = "none"
      <4>1. Scheduled(t) /\ t # s
        BY <1>3, <1>8, <3>1 DEF Scheduled, Status
      <4>2. orders[t]["entry"].state = "none"
        BY <1>1, <4>1 DEF MarketSafe, ScheduledIsUntouched
      <4>3. QED
        BY <1>4, <4>1, <4>2 DEF Legs
    <3>2. QED
      BY <3>1 DEF ScheduledIsUntouched
  <2>7. QED
    BY <2>1, <2>3, <2>4, <2>5, <2>6 DEF MarketSafe
<1>12. HolderSafe'
  <2>1. Slot' = Slot /\ \A t \in Slots : Status(t)' = Status(t)
    BY <1>3 DEF Slot, Status
  <2>2. EntryFirst' /\ BeforeTheAttempt'
    BY <1>1, <1>3 DEF HolderSafe, EntryFirst, BeforeTheAttempt
  <2>3. \A t \in Slots : AtRisk(t)' => AtRisk(t)
    BY <1>5, <1>7
  <2>4. job.step \notin {"none", "mark", "select"} => Slot \in Slots
    BY <1>1 DEF JobShape, Slot
  <2>5. DuringTheAttempt'
    BY <1>1, <1>3, <2>1, <2>3, <2>4 DEF HolderSafe, DuringTheAttempt, Status
  <2>6. AfterTheAttempt'
    BY <1>1, <1>3, <2>1, <2>3, <2>4 DEF HolderSafe, AfterTheAttempt, NoneAtRisk, Status
  <2>7. BetweenTheLegs'
    <3>1. \A t \in Slots, g \in Legs :
            orders'[t][g].state = "sent" => orders[t][g].state = "sent"
      BY <1>2, <1>4
    <3>2. Slot \in Slots => (Live(Slot)' => Live(Slot))
      BY <1>4, <1>5, <2>1 DEF Live
    <3>3. /\ job.step = "submit" =>
               ~AtRisk(Slot)' /\ orders'[Slot]["entry"].state = "none"
          /\ job.step = "closingPosition" /\ job.clear => ~Live(Slot)'
      <4>1. ASSUME job.step = "submit"
            PROVE  ~AtRisk(Slot)' /\ orders'[Slot]["entry"].state = "none"
        <5>1. /\ Slot \in Slots /\ ~AtRisk(Slot)
              /\ orders[Slot]["entry"].state = "none"
          BY <1>1, <2>4, <4>1 DEF HolderSafe, BetweenTheLegs
        <5>2. Slot # s
          BY <1>5, <5>1
        <5>3. orders'[Slot]["entry"].state = "none"
          BY <1>4, <5>1, <5>2 DEF Legs
        <5>4. ~AtRisk(Slot)'
          BY <2>1, <2>3, <5>1 DEF AtRisk, Live, Balanced
        <5>5. QED
          BY <5>3, <5>4
      <4>2. job.step = "closingPosition" /\ job.clear => ~Live(Slot)'
        BY <1>1, <2>4, <3>2 DEF HolderSafe, BetweenTheLegs
      <4>3. QED
        BY <4>1, <4>2
    <3>4. QED
      BY <1>1, <1>3, <2>1, <2>4, <3>1, <3>3
      DEF HolderSafe, BetweenTheLegs, NoneSent
  <2>8. FillsSeen'
    <3>1. job.step \in {"poll", "flatten"} =>
            /\ orders[Slot]["entry"].filled \in Int
            /\ orders'[Slot]["entry"].filled >= orders[Slot]["entry"].filled
      <4>1. \A t \in Slots : /\ orders[t]["entry"].filled \in Int
                             /\ orders'[t]["entry"].filled \in Int
                             /\ orders'[t]["entry"].filled >= orders[t]["entry"].filled
        BY <1>1, <1>2, <1>4, <1>9 DEF Legs, Order
      <4>2. QED
        BY <2>4, <4>1
    <3>2. orders'[Slot]["entry"].filled \in Int \/ job.step \notin {"poll", "flatten"}
      BY <1>1, <1>2, <1>4, <1>9, <2>4 DEF Legs, Order
    <3>3. job.filled \in Int /\ job.result.entry \in Int
      BY <1>1 DEF Job, Result
    <3>4. QED
      BY <1>1, <1>3, <2>1, <3>1, <3>2, <3>3 DEF HolderSafe, FillsSeen
  <2>9. QED
    BY <2>2, <2>5, <2>6, <2>7, <2>8 DEF HolderSafe
<1>13. LedgerIsKept'
  BY <1>1, <1>3 DEF LedgerIsKept
<1>14. QED
  BY <1>11, <1>12, <1>13

\* Every step keeps the ledger ahead of the market.
LEMMA SafeStep ==
  ASSUME SafeInv, [Next]_vars
  PROVE  SafeInv'
<1>1. TypeInv'
  BY TypeStep DEF SafeInv
<1>2. CASE Tick \/ UNCHANGED vars
  <2>1. UNCHANGED <<ledger, orders, position, proc, job>>
    BY <1>2 DEF Tick, vars, files, broker
  <2>2. LedgerIsKept' /\ MarketSafe'
    BY <2>1, SameMarket DEF SafeInv, LedgerIsKept
  <2>3. HolderSafe'
    BY <2>1
    DEF SafeInv, HolderSafe, EntryFirst, BeforeTheAttempt, DuringTheAttempt,
        BetweenTheLegs, AfterTheAttempt, FillsSeen, NoneAtRisk, NoneSent, Slot,
        Status, AtRisk, Live, Balanced
  <2>4. QED
    BY <1>1, <2>2, <2>3 DEF SafeInv
<1>3. CASE LocalStep
  BY <1>1, <1>3, LocalSafe DEF SafeInv
<1>4. CASE MarkMissedSlots \/ BeginSlotAttempt \/ WriteSlotArtifacts \/ FinalizeSlotState
  BY <1>1, <1>4, WriteSafe DEF SafeInv
<1>5. CASE SubmitEntry \/ SubmitFlatten
  BY <1>1, <1>5, SendSafe DEF SafeInv
<1>6. CASE NothingToDo \/ RaiseAsWritten \/ CrashHolder
  BY <1>1, <1>6, EndSafe DEF SafeInv
<1>7. ASSUME NEW p \in Procs, ProcStep(p) \/ CrashOutsideLock(p) \/ Restart(p)
      PROVE  SafeInv'
  BY <1>1, <1>7, WatchSafe DEF SafeInv
<1>8. ASSUME NEW s \in Slots, NEW leg \in Legs,
             Arrive(s, leg) \/ Fill(s, leg) \/ Terminate(s, leg)
      PROVE  SafeInv'
  BY <1>1, <1>8, BrokerSafe DEF SafeInv
<1>9. QED
  BY <1>2, <1>3, <1>4, <1>5, <1>6, <1>7, <1>8 DEF Next, HolderStep, LocalStep

\* Nothing was traded and nothing recorded yet: there is no ledger ...
Untouched ==
  /\ bundles = [s \in Slots |-> NoBundle] /\ job = NoJob
  /\ orders = [s \in Slots |-> [leg \in Legs |-> NoOrder]] /\ position = 0

BeforeActivation == TypeInv /\ ledger = Absent /\ Untouched

\* ... or the initial one, and nobody is about to write another.
JustActivated ==
  /\ TypeInv /\ ledger = InitialCampaignState /\ Untouched
  /\ \A p \in Procs : proc[p] # "create"

LEMMA Beginning == Init => BeforeActivation \/ JustActivated
<1> SUFFICES ASSUME Init
             PROVE  BeforeActivation \/ JustActivated
  OBVIOUS
<1>1. TypeInv /\ Untouched
  BY TypeInit DEF Init, Untouched
<1>2. ledger = Absent \/ ledger = InitialCampaignState
  BY DEF Init
<1>3. \A p \in Procs : proc[p] # "create"
  BY DEF Init
<1>4. QED
  BY <1>1, <1>2, <1>3 DEF BeforeActivation, JustActivated

\* Before there is a ledger, time passes and processes come and go, until one
\* of them writes the initial state while nobody else is about to.
LEMMA Activating ==
  ASSUME BeforeActivation, OneActivates, [Next]_vars
  PROVE  BeforeActivation' \/ JustActivated'
<1>1. /\ TypeInv /\ ledger = Absent /\ lock = Nobody /\ job = NoJob /\ Untouched
      /\ \A p \in Procs : proc[p] \in {"idle", "create", "dead"}
  BY DEF BeforeActivation, Untouched, TypeInv, NobodyIsAhead
<1>2. TypeInv'
  BY <1>1, TypeStep
<1>3. ~HolderStep /\ ~CrashHolder
  <2>1. job.step = "none"
    BY <1>1, Blanks
  <2>2. ~LocalStep
    BY <2>1
    DEF LocalStep, SelectDueSlot, ReadOpenOrders, ReadPosition, ReadHistory,
        LateForSubmission, ReceiveResponse, PollOrder, CancelOrder, EndLeg,
        ClosingOpenOrders, ClosingPosition, At
  <2>3. ~MarkMissedSlots /\ ~NothingToDo /\ ~BeginSlotAttempt /\ ~SubmitEntry
        /\ ~SubmitFlatten /\ ~WriteSlotArtifacts /\ ~FinalizeSlotState /\ ~RaiseAsWritten
    BY <2>1
    DEF MarkMissedSlots, NothingToDo, BeginSlotAttempt, SubmitEntry, SubmitFlatten,
        WriteSlotArtifacts, FinalizeSlotState, RaiseAsWritten, At
  <2>4. ~CrashHolder
    BY <1>1 DEF CrashHolder
  <2>5. QED
    BY <2>2, <2>3, <2>4 DEF HolderStep, LocalStep
<1>4. ASSUME UNCHANGED <<ledger, bundles, job, orders, position>>
      PROVE  BeforeActivation'
  BY <1>1, <1>2, <1>4 DEF BeforeActivation, Untouched
<1>5. CASE Tick \/ UNCHANGED vars
  BY <1>4, <1>5 DEF Tick, vars, files, broker
<1>6. ASSUME NEW p \in Procs, ProcStep(p) \/ CrashOutsideLock(p) \/ Restart(p)
      PROVE  BeforeActivation' \/ JustActivated'
  <2>1. ~TakeLock(p) /\ ~LockBusy(p)
    BY <1>1 DEF TakeLock, LockBusy
  <2>2. CASE Wake(p) \/ CrashOutsideLock(p) \/ Restart(p)
    BY <1>4, <2>2 DEF Wake, CrashOutsideLock, Restart, files, broker
  <2>3. CASE CreateLedger(p)
    <3>1. proc[p] = "create" /\ proc' = [proc EXCEPT ![p] = "wait"]
          /\ ledger' = InitialCampaignState /\ UNCHANGED <<bundles, job, orders, position>>
      BY <2>3 DEF CreateLedger, broker
    <3>2. \A q \in Procs : proc'[q] # "create"
      BY <1>1, <3>1 DEF OneActivates, TypeInv, TypeOK
    <3>3. Untouched'
      BY <1>1, <3>1 DEF Untouched
    <3>4. QED
      BY <1>2, <3>1, <3>2, <3>3 DEF JustActivated
  <2>4. QED
    BY <1>6, <2>1, <2>2, <2>3 DEF ProcStep
<1>7. ASSUME NEW s \in Slots, NEW leg \in Legs,
             Arrive(s, leg) \/ Fill(s, leg) \/ Terminate(s, leg)
      PROVE  FALSE
  <2>1. orders[s][leg].state = "none"
    BY <1>1 DEF Untouched, NoOrder
  <2>2. QED
    BY <1>7, <2>1 DEF Arrive, Fill, Terminate
<1>8. QED
  BY <1>3, <1>5, <1>6, <1>7 DEF Next

\* An untouched campaign has nothing in the market.
LEMMA NothingYet ==
  ASSUME Untouched
  PROVE  /\ \A s \in Slots : /\ ~AtRisk(s)
                             /\ orders[s]["exit"].quantity = 0
                             /\ orders[s]["entry"].filled = 0
                             /\ orders[s]["entry"].state = "none"
         /\ ExposureIsLatched /\ FlattenWithinFill
<1>1. \A s \in Slots : /\ ~AtRisk(s)
                       /\ orders[s]["exit"].quantity = 0
                       /\ orders[s]["entry"].filled = 0
                       /\ orders[s]["entry"].state = "none"
  BY DEF Untouched, AtRisk, Live, Balanced, NoOrder, Legs
<1>2. QED
  BY <1>1 DEF ExposureIsLatched, FlattenWithinFill

LEMMA SafeStart == JustActivated => SafeInv
<1> SUFFICES ASSUME JustActivated
             PROVE  SafeInv
  OBVIOUS
<1>1. TypeInv /\ ledger = InitialCampaignState /\ Untouched /\ job = NoJob
  BY DEF JustActivated, Untouched
<1>2. LedgerIsKept
  BY <1>1, FreshLedger DEF JustActivated, LedgerIsKept
<1>3. \A s \in Slots : ~Unsettled(s)
  BY <1>1 DEF Unsettled, Status, InitialCampaignState, FreshRow
<1>4. MarketSafe
  BY <1>1, <1>3, NothingYet
  DEF MarketSafe, OneAtRisk, PositionKnown, OneUnsettled, ScheduledIsUntouched, Untouched
<1>5. HolderSafe
  BY <1>1, Blanks
  DEF HolderSafe, EntryFirst, BeforeTheAttempt, DuringTheAttempt, BetweenTheLegs,
      AfterTheAttempt, FillsSeen
<1>6. QED
  BY <1>1, <1>2, <1>4, <1>5 DEF SafeInv

\* The invariant, of every campaign whose directory one process initialises.
LEMMA CampaignIsSafe == Spec /\ []OneActivates => [](BeforeActivation \/ SafeInv)
<1>1. Init => BeforeActivation \/ JustActivated
  BY Beginning
<1>2. BeforeActivation /\ OneActivates /\ [Next]_vars
        => BeforeActivation' \/ JustActivated'
  BY Activating
<1>3. SafeInv /\ [Next]_vars => SafeInv'
  BY SafeStep
<1>4. JustActivated => SafeInv
  BY SafeStart
<1>5. QED
  BY <1>1, <1>2, <1>3, <1>4, PTL DEF Spec

\* A directory that was initialised beforehand is not initialised again.
LEMMA InitialisedBefore == Activated /\ Spec => []OneActivates
<1>1. Activated /\ Init => SafeInv
  <2>1. Activated /\ Init => JustActivated
    BY TypeInit DEF Init, JustActivated, Untouched
  <2>2. QED
    BY <2>1, SafeStart
<1>2. SafeInv /\ [Next]_vars => SafeInv'
  BY SafeStep
<1>3. SafeInv => OneActivates
  BY DEF SafeInv, LedgerIsKept, OneActivates
<1>4. QED
  BY <1>1, <1>2, <1>3, PTL DEF Spec

\* And one scheduler alone races with nobody.
LEMMA OneScheduler ==
  ASSUME NEW p, Procs = {p}
  PROVE  []OneActivates
<1>1. OneActivates
  BY DEF OneActivates
<1>2. QED
  BY <1>1, PTL

\* Whatever the crashes, the delays and the number of schedulers: what is left
\* in the market is latched in the ledger, under the slot it belongs to.
THEOREM ExposureLatched == Spec /\ []OneActivates => []ExposureIsLatched
<1>1. BeforeActivation \/ SafeInv => ExposureIsLatched
  BY NothingYet DEF BeforeActivation, SafeInv, MarketSafe
<1>2. QED
  BY <1>1, CampaignIsSafe, PTL

\* No flatten order is larger than what its entry has filled.
THEOREM FlattenBounded == Spec /\ []OneActivates => []FlattenWithinFill
<1>1. BeforeActivation \/ SafeInv => FlattenWithinFill
  BY NothingYet DEF BeforeActivation, SafeInv, MarketSafe
<1>2. QED
  BY <1>1, CampaignIsSafe, PTL

\* The latch is only cleared by the slot that set it, once it is flat.
THEOREM LatchHeld == Spec /\ []OneActivates => LatchHolds
<1> DEFINE Cleared == ledger.latch /\ ~ledger'.latch =>
             \E s \in Slots :
               /\ Status(s) = "in_progress"
               /\ Status(s)' \in {"completed_reconciled",
                                  "skipped_or_incomplete_reconciled"}
               /\ ~AtRisk(s)
<1>1. ASSUME SafeInv, [Next]_vars
      PROVE  Cleared
  <2> SUFFICES ASSUME ledger.latch, ~ledger'.latch
               PROVE  \E s \in Slots :
                        /\ Status(s) = "in_progress"
                        /\ Status(s)' \in {"completed_reconciled",
                                           "skipped_or_incomplete_reconciled"}
                        /\ ~AtRisk(s)
    OBVIOUS
  <2>1. /\ TypeInv /\ JobShape /\ LedgerIsKept /\ HolderSafe /\ job \in Job
    BY <1>1 DEF SafeInv, TypeInv, TypeOK
  <2>2. FinalizeSlotState
    <3>1. ledger' # ledger
      OBVIOUS
    <3>2. ~MarkMissedSlots
      BY <2>1 DEF MarkMissedSlots, LedgerIsKept, Ledger
    <3>3. ~BeginSlotAttempt
      <4>1. ASSUME BeginSlotAttempt
            PROVE  FALSE
        <5>1. Slot \in Slots /\ ledger' = BegunLedger(ledger, Slot)
          BY <2>1, <4>1 DEF BeginSlotAttempt, BegunLedger, At, JobShape, Slot
        <5>2. QED
          BY <2>1, <5>1, LedgerBegun DEF LedgerIsKept
      <4>2. QED
        BY <4>1
    <3>4. ~LocalStep
      BY <2>1, <3>1, LocalTypes DEF OnlyJob
    <3>5. \A p \in Procs : ~CreateLedger(p)
      BY <2>1 DEF LedgerIsKept, CreateLedger
    <3>6. QED
      BY <1>1, <3>1, <3>2, <3>3, <3>4, <3>5
      DEF Next, HolderStep, LocalStep, vars, files, NothingToDo, SubmitEntry,
          SubmitFlatten, WriteSlotArtifacts, RaiseAsWritten, Raise, CrashHolder,
          ProcStep, Wake, TakeLock, LockBusy, CrashOutsideLock, Restart, Tick,
          Arrive, Fill, Terminate, Environment
  <2> DEFINE r == job.result
             row == [status |-> FinalStatus(r), submitted |-> r.submitted,
                     entry |-> r.entry, exit |-> r.exit, referenced |-> TRUE]
  <2>3. /\ job.step = "finalize" /\ Slot \in Slots
        /\ row.status = FinalStatus(r)
        /\ ledger' = [latch |-> ~r.reconciled,
                      rows |-> [ledger.rows EXCEPT ![Slot] = row]]
    BY <2>1, <2>2 DEF FinalizeSlotState, At, JobShape, Slot
  <2> HIDE DEF row
  <2>4. r.reconciled
    BY <2>3
  <2>5. NoneAtRisk /\ Status(Slot) = "in_progress"
    BY <2>1, <2>3, <2>4 DEF HolderSafe, AfterTheAttempt
  <2>6. FinalStatus(r) \in {"completed_reconciled", "skipped_or_incomplete_reconciled"}
    BY <2>4 DEF FinalStatus
  <2>7. ledger'.rows[Slot].status = FinalStatus(r)
    BY <2>1, <2>3 DEF LedgerIsKept, Ledger
  <2>8. PICK s \in Slots : s = Slot
    BY <2>3
  <2>9. /\ Status(s) = "in_progress" /\ ~AtRisk(s)
        /\ Status(s)' \in {"completed_reconciled", "skipped_or_incomplete_reconciled"}
    BY <2>5, <2>6, <2>7, <2>8 DEF Status, NoneAtRisk
  <2>10. QED
    BY <2>9
<1>2. BeforeActivation => Cleared
  BY DEF BeforeActivation, Absent
<1>3. QED
  BY <1>1, <1>2, CampaignIsSafe, PTL DEF LatchHolds, Spec

\* A slot is consumed once: a final status is final, whoever writes next.
THEOREM SlotConsumedOnce == Spec /\ []OneActivates => ConsumedOnce
<1> DEFINE Kept == ledger # Absent =>
             \A s \in Slots :
               Status(s) \notin {"authorized_scheduled", "in_progress"}
                 => Status(s)' = Status(s)
<1>1. ASSUME SafeInv, [Next]_vars
      PROVE  Kept
  <2> SUFFICES ASSUME NEW s \in Slots,
                      Status(s) \notin {"authorized_scheduled", "in_progress"}
               PROVE  Status(s)' = Status(s)
    OBVIOUS
  <2>1. TypeInv /\ JobShape /\ LedgerIsKept /\ ledger \in Ledger
    BY <1>1 DEF SafeInv, TypeInv, LedgerIsKept
  <2>2. CASE MarkMissedSlots
    BY <2>1, <2>2 DEF MarkMissedSlots, Ledger, Row, Missed, Scheduled, Status
  <2>3. CASE BeginSlotAttempt
    <3>1. Slot \in Slots /\ ledger' = BegunLedger(ledger, Slot) /\ Scheduled(Slot)
      BY <2>1, <2>3 DEF BeginSlotAttempt, BegunLedger, At, JobShape, Slot
    <3>2. s # Slot
      BY <3>1 DEF Scheduled
    <3>3. QED
      BY <2>1, <3>1, <3>2, LedgerBegun DEF Status
  <2>4. CASE FinalizeSlotState
    <3>1. PICK row : ledger'.rows = [ledger.rows EXCEPT ![Slot] = row]
      BY <2>4 DEF FinalizeSlotState
    <3>2. s # Slot
      BY <2>4 DEF FinalizeSlotState
    <3>3. QED
      BY <2>1, <3>1, <3>2 DEF Status, Ledger
  <2>5. CASE LocalStep
    BY <2>1, <2>5, LocalTypes DEF OnlyJob, Status
  <2>6. CASE ledger' = ledger
    BY <2>6 DEF Status
  <2>7. \A p \in Procs : ~CreateLedger(p)
    BY <2>1 DEF LedgerIsKept, CreateLedger
  <2>8. QED
    BY <1>1, <2>2, <2>3, <2>4, <2>5, <2>6, <2>7
    DEF Next, HolderStep, LocalStep, vars, files, NothingToDo, SubmitEntry,
        SubmitFlatten, WriteSlotArtifacts, RaiseAsWritten, Raise, CrashHolder,
        ProcStep, Wake, TakeLock, LockBusy, CrashOutsideLock, Restart, Tick,
        Arrive, Fill, Terminate, Environment
<1>2. BeforeActivation => Kept
  BY DEF BeforeActivation
<1>3. QED
  BY <1>1, <1>2, CampaignIsSafe, PTL DEF ConsumedOnce, Spec

(* Entries in their turn *)

\* What the holder knows of the slots before its own: the ones that had passed
\* when it sampled the time were marked, and nothing is scheduled again.
Trying == {"open", "position", "history", "begin", "submit"}

EarlierResolved == \A t \in 1..Slot-1 : ~Scheduled(t)

InTurn ==
  /\ lock # Nobody => proc[lock] = "running"
  /\ job.step = "select" => \A s \in Slots : Scheduled(s) => ~Passed(s, seenAt[lock])
  /\ job.step \in Trying => EarlierResolved

\* A slot that is no longer scheduled stays so, whoever writes the ledger.
LEMMA StaysResolved ==
  ASSUME SafeInv, [Next]_vars, NEW s \in Slots, ~Scheduled(s)
  PROVE  ~Scheduled(s)'
<1>1. TypeInv /\ JobShape /\ LedgerIsKept /\ ledger \in Ledger
  BY DEF SafeInv, TypeInv, LedgerIsKept
<1>2. CASE MarkMissedSlots
  BY <1>1, <1>2 DEF MarkMissedSlots, Ledger, Row, Missed, Scheduled, Status
<1>3. CASE BeginSlotAttempt
  <2>1. Slot \in Slots /\ ledger' = BegunLedger(ledger, Slot) /\ Scheduled(Slot)
    BY <1>1, <1>3 DEF BeginSlotAttempt, BegunLedger, At, JobShape, Slot
  <2>2. s # Slot
    BY <2>1
  <2>3. QED
    BY <1>1, <2>1, <2>2, LedgerBegun DEF Status, Scheduled
<1>4. CASE FinalizeSlotState
  <2>1. /\ Slot \in Slots
        /\ ledger'.rows = [ledger.rows EXCEPT ![Slot] =
             [status |-> FinalStatus(job.result), submitted |-> job.result.submitted,
              entry |-> job.result.entry, exit |-> job.result.exit, referenced |-> TRUE]]
    BY <1>1, <1>4 DEF FinalizeSlotState, At, JobShape, Slot
  <2>2. FinalStatus(job.result) # "authorized_scheduled"
    BY DEF FinalStatus
  <2>3. QED
    BY <1>1, <2>1, <2>2 DEF Status, Scheduled, Ledger
<1>5. CASE LocalStep
  BY <1>1, <1>5, LocalTypes DEF OnlyJob, Status, Scheduled
<1>6. CASE ledger' = ledger
  BY <1>6 DEF Status, Scheduled
<1>7. \A p \in Procs : ~CreateLedger(p)
  BY <1>1 DEF LedgerIsKept, CreateLedger
<1>8. QED
  BY <1>2, <1>3, <1>4, <1>5, <1>6, <1>7
  DEF Next, HolderStep, LocalStep, vars, files, NothingToDo, SubmitEntry,
      SubmitFlatten, WriteSlotArtifacts, RaiseAsWritten, Raise, CrashHolder,
      ProcStep, Wake, TakeLock, LockBusy, CrashOutsideLock, Restart, Tick,
      Arrive, Fill, Terminate, Environment

\* Between the choice of a slot and its entry the slot in hand is the same.
LEMMA TurnOfLocal ==
  ASSUME SafeInv, LocalStep, ~SelectDueSlot
  PROVE  /\ job'.step \in Trying => job.step \in Trying /\ job'.slot = job.slot
         /\ job'.step # "select"
<1>1. job \in Job
  BY DEF SafeInv, TypeInv, TypeOK
<1>2. CASE ReadOpenOrders
  BY <1>1, <1>2 DEF ReadOpenOrders, At, Job, Trying
<1>3. CASE ReadPosition
  BY <1>1, <1>3 DEF ReadPosition, At, Job, Trying
<1>4. CASE ReadHistory
  BY <1>1, <1>4 DEF ReadHistory, At, Job, Trying
<1>5. CASE LateForSubmission \/ ReceiveResponse
  BY <1>1, <1>5 DEF LateForSubmission, ReceiveResponse, At, Job, Trying
<1>6. CASE PollOrder \/ CancelOrder
  BY <1>1, <1>6 DEF PollOrder, CancelOrder, At, Job, Trying
<1>7. CASE EndLeg
  BY <1>1, <1>7 DEF EndLeg, At, Job, Trying
<1>8. CASE ClosingOpenOrders \/ ClosingPosition
  BY <1>1, <1>8 DEF ClosingOpenOrders, ClosingPosition, At, Job, Trying
<1>9. QED
  BY <1>2, <1>3, <1>4, <1>5, <1>6, <1>7, <1>8 DEF LocalStep

LEMMA TurnStep ==
  ASSUME SafeInv, InTurn, [Next]_vars
  PROVE  InTurn'
<1>1. /\ TypeOK /\ JobShape /\ LedgerIsKept /\ ledger \in Ledger /\ job \in Job
      /\ clock \in 0..(2 * N) /\ seenAt \in [Procs -> 0..(2 * N)]
      /\ proc \in [Procs -> ProcStates] /\ lock \in Procs \cup {Nobody}
  BY DEF SafeInv, TypeInv, LedgerIsKept, TypeOK
<1>2. \A t \in Slots : ~Scheduled(t) => ~Scheduled(t)'
  BY StaysResolved
<1>3. ASSUME job.slot \in Slots, job'.slot = job.slot, EarlierResolved
      PROVE  EarlierResolved'
  <2>1. \A t \in 1..Slot-1 : t \in Slots
    BY <1>3, CampaignAssumption DEF Slot, Slots
  <2>2. QED
    BY <1>2, <1>3, <2>1 DEF EarlierResolved, Slot
<1>4. CASE LocalStep
  <2>1. OnlyJob
    BY <1>4, LocalTypes DEF SafeInv
  <2>2. CASE SelectDueSlot
    <3>1. lock \in Procs /\ seenAt[lock] \in Nat
      BY <1>1, <2>2 DEF SelectDueSlot, At, JobShape
    <3>2. PICK s \in Slots :
            /\ Due(s, seenAt[lock])
            /\ job' = [job EXCEPT !.step = "open", !.slot = s, !.round = 1,
                                  !.clear = LedgerAllows(s)]
      BY <2>2 DEF SelectDueSlot
    <3>3. job'.step = "open" /\ job'.slot = s
      BY <1>1, <3>2 DEF Job
    <3>4. \A t \in 1..s-1 : t \in Slots /\ Passed(t, seenAt[lock])
      BY <3>1, <3>2, CampaignAssumption DEF Slots, Due, InWindow, Passed
    <3>5. \A t \in 1..s-1 : ~Scheduled(t)
      BY <2>2, <3>4 DEF InTurn, SelectDueSlot, At
    <3>6. EarlierResolved'
      BY <2>1, <3>3, <3>5 DEF EarlierResolved, Slot, OnlyJob, Scheduled, Status
    <3>7. QED
      BY <2>1, <3>3, <3>6 DEF InTurn, OnlyJob
  <2>3. CASE ~SelectDueSlot
    <3>1. /\ job'.step \in Trying => job.step \in Trying /\ job'.slot = job.slot
          /\ job'.step # "select"
      BY <1>4, <2>3, TurnOfLocal
    <3>2. job.step \in Trying => job.slot \in Slots
      BY <1>1 DEF JobShape, Trying
    <3>3. QED
      BY <1>3, <2>1, <3>1, <3>2 DEF InTurn, OnlyJob
  <2>4. QED
    BY <2>2, <2>3
<1>5. CASE MarkMissedSlots
  <2>1. job'.step = "select" /\ UNCHANGED <<lock, proc, seenAt>>
    BY <1>1, <1>5, Going DEF MarkMissedSlots, Steps
  <2>2. \A s \in Slots : Scheduled(s)' => ~Passed(s, seenAt[lock])
    BY <1>1, <1>5 DEF MarkMissedSlots, Ledger, Row, Missed, Scheduled, Status
  <2>3. QED
    BY <2>1, <2>2 DEF InTurn, Trying, Passed
<1>6. CASE BeginSlotAttempt
  <2>1. /\ job'.step = "submit" /\ job'.slot = job.slot
        /\ UNCHANGED <<lock, proc, seenAt>>
        /\ job.step = "begin" /\ job.slot \in Slots
    BY <1>1, <1>6, Going DEF BeginSlotAttempt, Steps, At, JobShape
  <2>2. QED
    BY <1>3, <2>1 DEF InTurn, Trying
<1>7. CASE WriteSlotArtifacts \/ SubmitEntry \/ SubmitFlatten
  <2>1. job'.step \in {"await", "finalize"} /\ UNCHANGED <<lock, proc, seenAt>>
    BY <1>1, <1>7
    DEF WriteSlotArtifacts, SubmitEntry, SubmitFlatten, Goto, Job
  <2>2. QED
    BY <2>1 DEF InTurn, Trying
<1>8. CASE NothingToDo \/ FinalizeSlotState \/ RaiseAsWritten \/ CrashHolder
  <2>1. lock' = Nobody /\ job' = NoJob
    BY <1>8
    DEF NothingToDo, FinalizeSlotState, RaiseAsWritten, CrashHolder, Return, Raise
  <2>2. QED
    BY <2>1, Blanks DEF InTurn, Trying
<1>9. ASSUME NEW p \in Procs, ProcStep(p) \/ CrashOutsideLock(p) \/ Restart(p)
      PROVE  InTurn'
  <2>1. CASE TakeLock(p)
    <3>1. job'.step = "mark"
      BY <2>1, Blanks DEF TakeLock, NoJob
    <3>2. lock' = p /\ proc'[p] = "running"
      BY <1>1, <2>1 DEF TakeLock
    <3>3. QED
      BY <3>1, <3>2 DEF InTurn, Trying
  <2>2. CASE Wake(p) \/ LockBusy(p) \/ CrashOutsideLock(p) \/ Restart(p)
    <3>1. /\ UNCHANGED <<ledger, lock, job>> /\ proc[p] # "running"
          /\ \A q \in Procs \ {p} : proc'[q] = proc[q] /\ seenAt'[q] = seenAt[q]
      BY <1>1, <2>2
      DEF Wake, LockBusy, CrashOutsideLock, Restart, files
    <3>2. lock # Nobody =>
            lock \in Procs \ {p} /\ proc'[lock] = "running" /\ seenAt'[lock] = seenAt[lock]
      BY <1>1, <3>1 DEF InTurn
    <3>3. job.step = "select" => lock # Nobody
      BY <1>1 DEF JobShape
    <3>4. EarlierResolved => EarlierResolved'
      BY <3>1 DEF EarlierResolved, Slot, Scheduled, Status
    <3>5. \A s \in Slots : Scheduled(s)' <=> Scheduled(s)
      BY <3>1 DEF Scheduled, Status
    <3>6. QED
      BY <3>1, <3>2, <3>3, <3>4, <3>5 DEF InTurn, Passed
  <2>3. ~CreateLedger(p)
    BY <1>1 DEF LedgerIsKept, CreateLedger
  <2>4. QED
    BY <1>9, <2>1, <2>2, <2>3 DEF ProcStep
<1>10. CASE UNCHANGED <<ledger, lock, proc, seenAt, job>>
  <2>1. EarlierResolved => EarlierResolved'
    BY <1>10 DEF EarlierResolved, Slot, Scheduled, Status
  <2>2. \A s \in Slots : Scheduled(s)' <=> Scheduled(s)
    BY <1>10 DEF Scheduled, Status
  <2>3. QED
    BY <1>10, <2>1, <2>2 DEF InTurn, Passed
<1>11. QED
  BY <1>4, <1>5, <1>6, <1>7, <1>8, <1>9, <1>10
  DEF Next, HolderStep, LocalStep, vars, files, Tick, Arrive, Fill, Terminate,
      Environment

\* Nobody has come as far as the lock.
LockIsFree == lock = Nobody

\* An entry leaves in the window of its own slot, and in its turn: no earlier
\* slot is left scheduled, however old the time the slot was chosen from.
THEOREM EntriesInTurn == Spec /\ []OneActivates => TradedInTurn
<1> DEFINE Traded ==
             \A s \in Slots :
               /\ orders[s]["entry"].state # "sent"
               /\ orders'[s]["entry"].state = "sent"
               => /\ InWindow(s, clock)
                  /\ \A t \in 1..s-1 : ~Scheduled(t)
<1>1. ASSUME SafeInv, InTurn, [Next]_vars
      PROVE  Traded
  <2> SUFFICES ASSUME NEW s \in Slots, orders[s]["entry"].state # "sent",
                      orders'[s]["entry"].state = "sent"
               PROVE  InWindow(s, clock) /\ \A t \in 1..s-1 : ~Scheduled(t)
    OBVIOUS
  <2>1. /\ JobShape /\ orders \in [Slots -> [Legs -> Order]] /\ LedgerIsKept
        /\ TypeInv
    BY <1>1 DEF SafeInv, TypeInv, TypeOK
  <2>2. SubmitEntry
    <3>1. orders' # orders
      OBVIOUS
    <3>2. ~SubmitFlatten
      BY <2>1 DEF SubmitFlatten, Send, Legs, JobShape, At, Slot
    <3>3. \A u \in Slots, leg \in Legs :
            ~(Arrive(u, leg) \/ Fill(u, leg) \/ Terminate(u, leg))
      <4>1. ASSUME NEW u \in Slots, NEW leg \in Legs, NEW o, o.state # "sent",
                   orders' = [orders EXCEPT ![u][leg] = o]
            PROVE  FALSE
        BY <2>1, <4>1 DEF Legs
      <4>2. ASSUME NEW u \in Slots, NEW leg \in Legs
            PROVE  ~Arrive(u, leg) /\ ~Terminate(u, leg)
        <5>1. ASSUME NEW st \in {"open", "done", "lost"},
                     orders' = [orders EXCEPT ![u][leg].state = st]
              PROVE  FALSE
          <6>1. [orders[u][leg] EXCEPT !.state = st].state # "sent"
            BY <2>1 DEF Order
          <6>2. QED
            BY <4>1, <5>1, <6>1
        <5>2. QED
          BY <5>1 DEF Arrive, Terminate
      <4>3. ASSUME NEW u \in Slots, NEW leg \in Legs, Fill(u, leg)
            PROVE  FALSE
        <5> DEFINE o == orders[u][leg]
                   after == [o EXCEPT !.filled = @ + 1,
                     !.state = IF o.filled + 1 = o.quantity THEN "done" ELSE "open"]
        <5>1. after.state # "sent" /\ orders' = [orders EXCEPT ![u][leg] = after]
          BY <2>1, <4>3 DEF Fill, Order
        <5>2. QED
          BY <4>1, <5>1
      <4>4. QED
        BY <4>2, <4>3
    <3>4. ~LocalStep
      BY <2>1, <3>1, LocalTypes DEF OnlyJob
    <3>5. QED
      BY <1>1, <3>1, <3>2, <3>3, <3>4
      DEF Next, HolderStep, LocalStep, vars, broker, MarkMissedSlots, NothingToDo,
          BeginSlotAttempt, WriteSlotArtifacts, FinalizeSlotState, RaiseAsWritten,
          Raise, CrashHolder, ProcStep, Wake, CreateLedger, TakeLock, LockBusy,
          CrashOutsideLock, Restart, Tick
  <2>3. s = Slot /\ InWindow(Slot, clock) /\ job.step = "submit"
    BY <2>1, <2>2 DEF SubmitEntry, Send, Legs, At, JobShape, Slot
  <2>4. QED
    BY <1>1, <2>3 DEF InTurn, Trying, EarlierResolved
<1>2. ASSUME BeforeActivation, [Next]_vars
      PROVE  Traded
  <2>1. \A s \in Slots : orders[s]["entry"].state = "none"
    BY <1>2, NothingYet DEF BeforeActivation
  <2>2. job.step = "none" /\ lock = Nobody /\ TypeInv
    BY <1>2, Blanks DEF BeforeActivation, Untouched, TypeInv, NobodyIsAhead
  <2>3. ~LocalStep
    BY <2>2
    DEF LocalStep, SelectDueSlot, ReadOpenOrders, ReadPosition, ReadHistory,
        LateForSubmission, ReceiveResponse, PollOrder, CancelOrder, EndLeg,
        ClosingOpenOrders, ClosingPosition, At
  <2>4. ~SubmitEntry /\ ~SubmitFlatten
    BY <2>2 DEF SubmitEntry, SubmitFlatten, At
  <2>5. \A u \in Slots, leg \in Legs :
          ~(Arrive(u, leg) \/ Fill(u, leg) \/ Terminate(u, leg))
    <3>1. \A u \in Slots, leg \in Legs : orders[u][leg].state = "none"
      BY <1>2 DEF BeforeActivation, Untouched, NoOrder
    <3>2. QED
      BY <3>1 DEF Arrive, Fill, Terminate
  <2>6. orders' = orders
    BY <1>2, <2>3, <2>4, <2>5
    DEF Next, HolderStep, LocalStep, vars, broker, MarkMissedSlots, NothingToDo,
        BeginSlotAttempt, WriteSlotArtifacts, FinalizeSlotState, RaiseAsWritten,
        Raise, CrashHolder, ProcStep, Wake, CreateLedger, TakeLock, LockBusy,
        CrashOutsideLock, Restart, Tick
  <2>7. QED
    BY <2>6
<1>3. (BeforeActivation \/ JustActivated) /\ LockIsFree => InTurn
  <2> SUFFICES ASSUME Untouched, LockIsFree
               PROVE  InTurn
    BY DEF BeforeActivation, JustActivated
  <2>1. job.step = "none"
    BY Blanks DEF Untouched
  <2>2. QED
    BY <2>1 DEF InTurn, Trying, LockIsFree
<1>4. Init => LockIsFree
  BY DEF Init, LockIsFree
<1>5. BeforeActivation => LockIsFree
  BY DEF LockIsFree, BeforeActivation, TypeInv, NobodyIsAhead
<1>6. BeforeActivation /\ [Next]_vars => LockIsFree'
  <2> SUFFICES ASSUME BeforeActivation, [Next]_vars
               PROVE  LockIsFree'
    OBVIOUS
  <2>1. lock = Nobody /\ job.step = "none" /\ TypeInv
    BY Blanks DEF BeforeActivation, Untouched, TypeInv, NobodyIsAhead
  <2>2. ~LocalStep
    BY <2>1
    DEF LocalStep, SelectDueSlot, ReadOpenOrders, ReadPosition, ReadHistory,
        LateForSubmission, ReceiveResponse, PollOrder, CancelOrder, EndLeg,
        ClosingOpenOrders, ClosingPosition, At
  <2>3. \A p \in Procs : ~TakeLock(p)
    BY DEF TakeLock, BeforeActivation, TypeInv, NobodyIsAhead
  <2>4. QED
    BY <2>1, <2>2, <2>3
    DEF LockIsFree, Next, HolderStep, LocalStep, vars, MarkMissedSlots, NothingToDo,
        BeginSlotAttempt, SubmitEntry, SubmitFlatten, WriteSlotArtifacts,
        FinalizeSlotState, RaiseAsWritten, CrashHolder, Return, Raise, ProcStep,
        Wake, CreateLedger, LockBusy, CrashOutsideLock, Restart, Tick, Arrive,
        Fill, Terminate, Environment
<1>7. SafeInv /\ InTurn /\ [Next]_vars => InTurn'
  BY TurnStep
<1>8. Init => BeforeActivation \/ JustActivated
  BY Beginning
<1>9. BeforeActivation /\ OneActivates /\ [Next]_vars
        => BeforeActivation' \/ JustActivated'
  BY Activating
<1>10. SafeInv /\ [Next]_vars => SafeInv'
  BY SafeStep
<1>11. JustActivated => SafeInv
  BY SafeStart
<1>12. QED
  BY <1>1, <1>2, <1>3, <1>4, <1>5, <1>6, <1>7, <1>8, <1>9, <1>10, <1>11, PTL
  DEF TradedInTurn, Spec

-----------------------------------------------------------------------------
(* The ledger and the broker together keep the promise of RoundTrips: most *)
(* steps of the holder stutter; the writes of the ledger open, forgo and   *)
(* settle attempts, the submissions and the broker enter and trade.        *)


\* The refinement mapping: RoundTrips' variables, read off the ledger and the
\* broker.
life == [s \in Slots |-> Life(s)]
entered == {s \in Slots : orders[s]["entry"].state # "none"}
exposed == {s \in Slots : AtRisk(s)}

\* What an observer of the ledger takes a slot to be.
Seen ==
  \A s \in Slots : /\ life[s] = "waiting" <=> Scheduled(s)
                   /\ life[s] = "open" <=> Unsettled(s)
                   /\ life[s] \in {"waiting", "open", "closed"}

\* The mapping shows just that, once there is a ledger.
LEMMA Lives == ledger \in Ledger => Seen
<1> SUFFICES ASSUME ledger \in Ledger, NEW s \in Slots
             PROVE  /\ life[s] = "waiting" <=> Scheduled(s)
                    /\ life[s] = "open" <=> Unsettled(s)
                    /\ life[s] \in {"waiting", "open", "closed"}
  BY DEF Seen
<1>1. ledger # Absent
  BY LedgerIsThere
<1>2. life[s] = Life(s)
  BY DEF life
<1>3. CASE Scheduled(s)
  <2>1. ~Unsettled(s)
    BY <1>3 DEF Scheduled, Unsettled
  <2>2. Life(s) = "waiting"
    BY <1>1, <1>3, <2>1 DEF Life, Unsettled
  <2>3. QED
    BY <1>2, <1>3, <2>1, <2>2
<1>4. CASE Unsettled(s)
  <2>1. ~Scheduled(s)
    BY <1>4 DEF Scheduled, Unsettled
  <2>2. Life(s) = "open"
    BY <1>1, <1>4, <2>1 DEF Life, Unsettled
  <2>3. QED
    BY <1>2, <1>4, <2>1, <2>2
<1>5. CASE ~Scheduled(s) /\ ~Unsettled(s)
  <2>1. Life(s) = "closed"
    BY <1>1, <1>5 DEF Life, Unsettled
  <2>2. QED
    BY <1>2, <1>5, <2>1
<1>6. QED
  BY <1>3, <1>4, <1>5

\* A step that keeps the ledger and the orders is not seen.
LEMMA Unseen ==
  ASSUME UNCHANGED <<ledger, orders>>
  PROVE  UNCHANGED <<life, entered, exposed>>
BY DEF life, Life, Scheduled, Status, entered, exposed, AtRisk, Live, Balanced

\* A step that keeps the orders changes neither what was entered nor what is
\* exposed.
LEMMA MarketUnseen ==
  ASSUME orders' = orders
  PROVE  entered' = entered /\ exposed' = exposed
BY DEF entered, exposed, AtRisk, Live, Balanced

\* The life of a slot moves with its status alone.
LEMMA LifeMoves ==
  ASSUME Seen, Seen', NEW s \in Slots
  PROVE  /\ Status(s)' = Status(s) => life'[s] = life[s]
         /\ Status(s)' = "in_progress" => life'[s] = "open"
         /\ Status(s)' = "manual_recovery_required" => life'[s] = "open"
         /\ Status(s)' \in {"completed_reconciled", "skipped_missed_window",
                            "skipped_or_incomplete_reconciled"} => life'[s] = "closed"
<1>1. /\ life[s] = "waiting" <=> Scheduled(s)
      /\ life[s] = "open" <=> Unsettled(s)
      /\ life[s] \in {"waiting", "open", "closed"}
  BY DEF Seen
<1>2. /\ life'[s] = "waiting" <=> Status(s)' = "authorized_scheduled"
      /\ life'[s] = "open" <=>
           Status(s)' \in {"in_progress", "manual_recovery_required"}
      /\ life'[s] \in {"waiting", "open", "closed"}
  BY DEF Seen, Scheduled, Unsettled
<1>3. QED
  BY <1>1, <1>2 DEF Scheduled, Unsettled

\* The writes of the ledger: slots are forgone, opened, or settled when flat.
LEMMA LedgerRefines ==
  ASSUME SafeInv, SafeInv', MarkMissedSlots \/ BeginSlotAttempt \/ FinalizeSlotState
  PROVE  Promise!Next \/ UNCHANGED <<life, entered, exposed>>
<1>1. /\ TypeInv /\ JobShape /\ LedgerIsKept /\ MarketSafe /\ HolderSafe /\ job \in Job
      /\ ledger \in Ledger /\ ledger' \in Ledger
  BY DEF SafeInv, TypeInv, TypeOK, LedgerIsKept
<1>2. entered' = entered /\ exposed' = exposed
  BY MarketUnseen DEF MarkMissedSlots, BeginSlotAttempt, FinalizeSlotState, broker
<1>3. Seen /\ Seen'
  <2>1. (ledger \in Ledger)' => Seen'
    BY Lives, PTL
  <2>2. QED
    BY <1>1, <2>1, Lives
<1>4. life = [s \in Slots |-> life[s]] /\ life' = [s \in Slots |-> life'[s]]
  BY DEF life
<1>5. CASE MarkMissedSlots
  <2> DEFINE S == Missed(seenAt[lock])
  <2>1. /\ \A s \in S : Scheduled(s) /\ Status(s)' = "skipped_missed_window"
        /\ \A s \in Slots \ S : Status(s)' = Status(s)
        /\ S \in SUBSET Slots
    BY <1>1, <1>5 DEF MarkMissedSlots, Ledger, Row, Missed, Status
  <2> HIDE DEF S
  <2>2. \A s \in Slots : life'[s] = IF s \in S THEN "closed" ELSE life[s]
    BY <1>3, <2>1, LifeMoves
  <2>3. life' = [s \in Slots |-> IF s \in S THEN "closed" ELSE life[s]]
    BY <1>4, <2>2
  <2>4. \A s \in S : life[s] = "waiting"
    BY <1>3, <2>1 DEF Seen
  <2>5. CASE S = {}
    <3>1. life' = life
      BY <1>4, <2>3, <2>5
    <3>2. QED
      BY <1>2, <3>1
  <2>6. CASE S # {}
    <3>1. Promise!Forgo(S)
      BY <1>2, <2>3, <2>4, <2>6 DEF Promise!Forgo, life, entered, exposed
    <3>2. QED
      BY <2>1, <3>1 DEF Promise!Next
  <2>7. QED
    BY <2>5, <2>6
<1>6. CASE BeginSlotAttempt
  <2>1. Slot \in Slots /\ ledger' = BegunLedger(ledger, Slot) /\ Scheduled(Slot)
    BY <1>1, <1>6 DEF BeginSlotAttempt, BegunLedger, At, JobShape, Slot
  <2>2. /\ ledger'.rows[Slot].status = "in_progress"
        /\ \A s \in Slots \ {Slot} : Status(s)' = Status(s)
    BY <1>1, <2>1, LedgerBegun DEF Status
  <2>3. \A s \in Slots : ~Unsettled(s)
    <3>1. ~ledger.latch
      BY <1>1, <1>6 DEF BeginSlotAttempt, At, HolderSafe, BeforeTheAttempt
    <3>2. QED
      BY <1>1, <3>1 DEF MarketSafe, OneUnsettled
  <2>4. PICK t \in Slots : t = Slot
    BY <2>1
  <2>5. Status(t)' = "in_progress"
    BY <2>2, <2>4 DEF Status
  <2>6. \A s \in Slots : life'[s] = IF s = t THEN "open" ELSE life[s]
    BY <1>3, <2>2, <2>4, <2>5, LifeMoves
  <2>7. life' = [life EXCEPT ![t] = "open"]
    BY <1>4, <2>6
  <2>8. life[t] = "waiting" /\ \A s \in Slots : life[s] # "open"
    BY <1>3, <2>1, <2>3, <2>4 DEF Seen
  <2>9. Promise!Open(t)
    BY <1>2, <2>7, <2>8 DEF Promise!Open, life, entered, exposed
  <2>10. QED
    BY <2>9 DEF Promise!Next
<1>7. CASE FinalizeSlotState
  <2> DEFINE r == job.result
             row == [status |-> FinalStatus(r), submitted |-> r.submitted,
                     entry |-> r.entry, exit |-> r.exit, referenced |-> TRUE]
  <2>1. /\ job.step = "finalize" /\ row.status = FinalStatus(r)
        /\ Status(Slot) \in {"authorized_scheduled", "in_progress"}
        /\ ledger' = [latch |-> ~r.reconciled,
                      rows |-> [ledger.rows EXCEPT ![Slot] = row]]
    BY <1>7 DEF FinalizeSlotState, At
  <2> HIDE DEF row
  <2>2. Slot \in Slots
    BY <1>1, <2>1 DEF JobShape, Slot
  <2>3. PICK t \in Slots : t = Slot
    BY <2>2
  <2>4. Status(t)' = FinalStatus(r) /\ \A s \in Slots \ {t} : Status(s)' = Status(s)
    BY <1>1, <2>1, <2>3 DEF Status, Ledger
  <2>5. \A s \in Slots \ {t} : life'[s] = life[s]
    BY <1>3, <2>4, LifeMoves
  <2>6. /\ r.reconciled => NoneAtRisk
        /\ ~r.reconciled => Status(t) = "in_progress"
    BY <1>1, <2>1, <2>3 DEF HolderSafe, AfterTheAttempt
  <2>7. CASE ~r.reconciled
    <3>1. Status(t)' = "manual_recovery_required"
      BY <2>4, <2>7 DEF FinalStatus
    <3>2. life'[t] = "open" /\ life[t] = "open"
      BY <1>3, <2>6, <2>7, <3>1, LifeMoves DEF Seen, Unsettled
    <3>3. life' = life
      BY <1>4, <2>5, <3>2
    <3>4. QED
      BY <1>2, <3>3
  <2>8. CASE r.reconciled
    <3>1. Status(t)' \in {"completed_reconciled", "skipped_or_incomplete_reconciled"}
      BY <2>4, <2>8 DEF FinalStatus
    <3>2. life'[t] = "closed"
      BY <1>3, <3>1, LifeMoves
    <3>3. /\ life' = [life EXCEPT ![t] = "closed"]
          /\ life' = [s \in Slots |-> IF s \in {t} THEN "closed" ELSE life[s]]
      BY <1>4, <2>5, <3>2
    <3>4. t \notin exposed
      BY <2>6, <2>8 DEF exposed, NoneAtRisk
    <3>5. CASE Status(t) = "in_progress"
      <4>1. life[t] = "open"
        BY <1>3, <3>5 DEF Seen, Unsettled
      <4>2. Promise!Settle(t)
        BY <1>2, <3>3, <3>4, <4>1 DEF Promise!Settle, life, entered, exposed
      <4>3. QED
        BY <4>2 DEF Promise!Next
    <3>6. CASE Status(t) = "authorized_scheduled"
      <4>1. life[t] = "waiting"
        BY <1>3, <3>6 DEF Seen, Scheduled
      <4>2. Promise!Forgo({t})
        BY <1>2, <3>3, <4>1 DEF Promise!Forgo, life, entered, exposed
      <4>3. QED
        BY <4>2 DEF Promise!Next
    <3>7. QED
      BY <2>1, <2>3, <3>5, <3>6
  <2>9. QED
    BY <2>7, <2>8
<1>8. QED
  BY <1>5, <1>6, <1>7

\* The submissions: the entry enters, the flatten trades.
LEMMA SendRefines ==
  ASSUME SafeInv, SubmitEntry \/ SubmitFlatten
  PROVE  Promise!Next
<1>1. ledger \in Ledger /\ orders \in [Slots -> [Legs -> Order]]
  BY DEF SafeInv, LedgerIsKept, TypeInv, TypeOK
<1>2. PICK q \in 0..Qty :
        orders' = [orders EXCEPT ![Slot][job.leg] =
                     [state |-> "sent", quantity |-> q, filled |-> 0]]
  BY SendMove
<1>3. Slot \in Slots /\ job.leg \in Legs /\ ledger' = ledger
  BY SendMove
<1> DEFINE o == [state |-> "sent", quantity |-> q, filled |-> 0]
<1>4. o.state = "sent"
  OBVIOUS
<1>5. \A s \in Slots, leg \in Legs :
        orders'[s][leg] = IF s = Slot /\ leg = job.leg THEN o ELSE orders[s][leg]
  BY <1>1, <1>2, <1>3
<1> HIDE DEF o
<1>6. PICK t \in Slots : t = Slot
  BY <1>3
<1>7. AtRisk(t)' /\ \A s \in Slots \ {t} : AtRisk(s)' <=> AtRisk(s)
  BY <1>3, <1>4, <1>5, <1>6 DEF AtRisk, Live, Balanced, Legs
<1>8. exposed' = exposed \cup {t}
  BY <1>7 DEF exposed
<1>9. life' = life
  BY <1>3 DEF life, Life, Scheduled, Status
<1>10. life[t] = "open"
  BY <1>1, <1>6, Lives, SendMove DEF Seen, Unsettled
<1>11. CASE SubmitEntry
  <2>1. job.leg = "entry" /\ orders[t]["entry"].state = "none"
    BY <1>6, <1>11, SendMove
  <2>2. entered' = entered \cup {t} /\ t \notin entered
    BY <1>4, <1>5, <1>6, <2>1 DEF entered, Legs
  <2>3. Promise!Enter(t)
    BY <1>8, <1>9, <1>10, <2>2 DEF Promise!Enter, life, entered, exposed
  <2>4. QED
    BY <2>3 DEF Promise!Next
<1>12. CASE SubmitFlatten
  <2>1. job.leg = "exit" /\ orders[t]["entry"].state # "none"
    BY <1>6, <1>12, SendMove
  <2>2. entered' = entered /\ t \in entered
    BY <1>5, <2>1 DEF entered, Legs
  <2>3. Promise!Trade(t)
    BY <1>8, <1>9, <1>10, <2>2 DEF Promise!Trade, life, entered, exposed
  <2>4. QED
    BY <2>3 DEF Promise!Next
<1>13. QED
  BY <1>11, <1>12

\* The broker trades the open attempt, which was entered.
LEMMA BrokerRefines ==
  ASSUME SafeInv, NEW s \in Slots, NEW leg \in Legs,
         Arrive(s, leg) \/ Fill(s, leg) \/ Terminate(s, leg)
  PROVE  Promise!Next
<1>1. /\ TypeInv /\ OrderShape /\ MarketSafe
      /\ ledger \in Ledger /\ orders \in [Slots -> [Legs -> Order]]
  BY DEF SafeInv, LedgerIsKept, TypeInv, TypeOK
<1> DEFINE o == orders[s][leg]
<1>2. PICK x \in Order :
        /\ orders' = [orders EXCEPT ![s][leg] = x]
        /\ x.state \in {"open", "done", "lost"}
  BY <1>1, MarketMove
<1>3. o.state \in {"sent", "open"} /\ ledger' = ledger
  BY <1>1, MarketMove DEF Environment, files
<1>4. \A t \in Slots, g \in Legs :
        orders'[t][g] = IF t = s /\ g = leg THEN x ELSE orders[t][g]
  BY <1>1, <1>2
<1>5. AtRisk(s) /\ Unsettled(s)
  BY <1>1, <1>3 DEF AtRisk, Live, MarketSafe, ExposureIsLatched, Unsettled
<1>6. \A t \in Slots \ {s} : AtRisk(t)' <=> AtRisk(t)
  BY <1>4 DEF AtRisk, Live, Balanced, Legs
<1>7. exposed' \in {exposed \cup {s}, exposed \ {s}}
  <2>1. CASE AtRisk(s)'
    <3>1. exposed' = exposed \cup {s}
      BY <1>6, <2>1 DEF exposed
    <3>2. QED
      BY <3>1
  <2>2. CASE ~AtRisk(s)'
    <3>1. exposed' = exposed \ {s}
      BY <1>6, <2>2 DEF exposed
    <3>2. QED
      BY <3>1
  <2>3. QED
    BY <2>1, <2>2
<1>8. life' = life
  BY <1>3 DEF life, Life, Scheduled, Status
<1>9. life[s] = "open"
  BY <1>1, <1>5, Lives DEF Seen
<1>10. orders[s]["entry"].state # "none"
  <2>1. CASE leg = "entry"
    BY <1>3, <2>1
  <2>2. CASE leg = "exit"
    <3>1. /\ o.filled < o.quantity /\ o.quantity <= orders[s]["entry"].filled
          /\ o.filled >= 0 /\ o.filled \in Int /\ o.quantity \in Int
          /\ orders[s]["entry"].filled \in Int
      BY <1>1, <1>3, <2>2, CampaignAssumption
      DEF OrderShape, MarketSafe, FlattenWithinFill, Legs, Order
    <3>2. orders[s]["entry"].filled # 0
      BY <3>1
    <3>3. QED
      BY <1>1, <3>2 DEF OrderShape, Legs
  <2>3. QED
    BY <2>1, <2>2 DEF Legs
<1>11. entered' = entered /\ s \in entered
  BY <1>2, <1>3, <1>4, <1>10 DEF entered, Legs
<1>12. Promise!Trade(s)
  BY <1>7, <1>8, <1>9, <1>11 DEF Promise!Trade, life, entered, exposed
<1>13. QED
  BY <1>12 DEF Promise!Next

\* Every step of the campaign is a step of RoundTrips or is not seen.
LEMMA StepRefines ==
  ASSUME SafeInv, SafeInv', [Next]_vars
  PROVE  Promise!Next \/ UNCHANGED <<life, entered, exposed>>
<1>1. CASE MarkMissedSlots \/ BeginSlotAttempt \/ FinalizeSlotState
  BY <1>1, LedgerRefines
<1>2. CASE SubmitEntry \/ SubmitFlatten
  BY <1>2, SendRefines
<1>3. ASSUME NEW s \in Slots, NEW leg \in Legs,
             Arrive(s, leg) \/ Fill(s, leg) \/ Terminate(s, leg)
      PROVE  Promise!Next
  BY <1>3, BrokerRefines
<1>4. CASE LocalStep
  BY <1>4, LocalTypes, Unseen DEF SafeInv, OnlyJob
<1>5. CASE \/ NothingToDo \/ RaiseAsWritten \/ CrashHolder
           \/ WriteSlotArtifacts \/ Tick \/ UNCHANGED vars
  BY <1>5, Unseen
  DEF NothingToDo, RaiseAsWritten, CrashHolder, Raise, WriteSlotArtifacts, Tick,
      vars, files, broker
<1>6. ASSUME NEW p \in Procs, ProcStep(p) \/ CrashOutsideLock(p) \/ Restart(p)
      PROVE  UNCHANGED <<life, entered, exposed>>
  <2>1. ~CreateLedger(p)
    BY DEF SafeInv, LedgerIsKept, CreateLedger
  <2>2. UNCHANGED <<ledger, orders>>
    BY <1>6, <2>1
    DEF ProcStep, Wake, TakeLock, LockBusy, CrashOutsideLock, Restart, files, broker
  <2>3. QED
    BY <2>2, Unseen
<1>7. QED
  BY <1>1, <1>2, <1>3, <1>4, <1>5, <1>6 DEF Next, HolderStep, LocalStep

\* Without a ledger, or with the initial one, every slot waits.
AllWait == \A s \in Slots : life[s] = "waiting"

LEMMA Unwritten == BeforeActivation \/ JustActivated => AllWait
<1> SUFFICES ASSUME BeforeActivation \/ JustActivated, NEW s \in Slots
             PROVE  life[s] = "waiting"
  BY DEF AllWait
<1>1. CASE ledger = Absent
  BY <1>1 DEF life, Life
<1>2. CASE ledger = InitialCampaignState
  <2>1. ledger # Absent
    BY <1>2, FreshLedger, LedgerIsThere
  <2>2. Scheduled(s)
    BY <1>2 DEF Scheduled, Status, InitialCampaignState, FreshRow
  <2>3. Seen
    BY <1>2, FreshLedger, Lives
  <2>4. QED
    BY <2>2, <2>3 DEF Seen
<1>3. QED
  BY <1>1, <1>2 DEF BeforeActivation, JustActivated

\* The campaign implements RoundTrips: a slot is consumed once, one attempt is
\* exposed at a time, and an unsettled one keeps every later one from opening.
THEOREM CampaignKeepsPromise == Spec /\ []OneActivates => KeepsPromise
<1>1. BeforeActivation \/ JustActivated => Promise!Init
  <2> SUFFICES ASSUME BeforeActivation \/ JustActivated
               PROVE  Promise!Init
    OBVIOUS
  <2>1. Untouched
    BY DEF BeforeActivation, JustActivated
  <2>2. \A s \in Slots : life[s] = "waiting"
    BY Unwritten DEF AllWait
  <2>3. life = [s \in Slots |-> "waiting"]
    BY <2>2 DEF life
  <2>4. entered = {} /\ exposed = {}
    BY <2>1, NothingYet DEF entered, exposed
  <2>5. QED
    BY <2>3, <2>4 DEF Promise!Init, life, entered, exposed
<1>2. SafeInv /\ SafeInv' /\ [Next]_vars => [Promise!Next]_(Promise!vars)
  BY StepRefines DEF Promise!vars, life, entered, exposed
<1>3. AllWait /\ AllWait' /\ BeforeActivation /\ (BeforeActivation' \/ JustActivated')
        => UNCHANGED Promise!vars
  <2> SUFFICES ASSUME AllWait, AllWait', BeforeActivation, BeforeActivation' \/ JustActivated'
               PROVE  UNCHANGED <<life, entered, exposed>>
    BY DEF Promise!vars, life, entered, exposed
  <2>1. UNCHANGED orders
    BY DEF BeforeActivation, JustActivated, Untouched
  <2>2. life' = life
    BY DEF AllWait, life
  <2>3. QED
    BY <2>1, <2>2, MarketUnseen
<1>4. BeforeActivation /\ OneActivates /\ [Next]_vars
        => BeforeActivation' \/ JustActivated'
  BY Activating
<1>5. JustActivated => SafeInv
  BY SafeStart
<1>6. SafeInv /\ [Next]_vars => SafeInv'
  BY SafeStep
<1>7. Init => BeforeActivation \/ JustActivated
  BY Beginning
<1>8. QED
  BY <1>1, <1>2, <1>3, <1>4, <1>5, <1>6, <1>7, Unwritten, PTL
  DEF KeepsPromise, Promise!Spec, Spec

===============================================================================
