------------------------------ MODULE WalkForward ------------------------------
(***************************************************************************)
(* The Day 13 event-driven walk-forward study: for every test year it cuts *)
(* the expanding training history and the test sessions out of the         *)
(* calendar, maps the calendar edges of the fold to bar boundaries,        *)
(* replays the test window from the neutral state, validates the evidence  *)
(* and finally joins the rows of all folds.                                *)
(*                                                                         *)
(* Time is counted in bars: a day has Slots of them and a year Days days,  *)
(* so a calendar is a set of bar starts.  The frozen strategies are causal *)
(* and the training history only grows, so the signal of a bar does not    *)
(* depend on the fold; it is chosen when the bar is replayed.  The study   *)
(* repeats the same loop for each strategy; one is modelled.               *)
(***************************************************************************)
EXTENDS EventReplay, FiniteSets, FiniteSetsExt, SequencesExt, Sorting

CONSTANTS
  Calendars,  \* the bar starts of the data, one of these sets
  Slots,      \* bars of a day
  Days,       \* days of a year
  FirstTest,  \* the first test year; the years before it only train
  LastTest    \* the last one

ASSUME WalkForwardAssumption ==
  /\ Slots \in Nat \ {0} /\ Days \in Nat \ {0}
  /\ FirstTest \in Nat \ {0} /\ LastTest \in Nat /\ FirstTest <= LastTest

VARIABLES
  calendar,  \* the data of the study
  fold,      \* the test year of the current fold
  window,    \* its bars, in time order
  combined   \* the rows of the finished folds: their bar starts

wfVars == <<calendar, fold, window, combined>>
vars == <<replayVars, wfVars>>

Day(t) == t \div Slots
Year(t) == Day(t) \div Days
YearStart(y) == y * Days * Slots

\* _validate_complete_coverage: whole sessions in every year, or no study.
ASSUME CalendarAssumption ==
  \A B \in Calendars :
    /\ B \subseteq Nat /\ IsFiniteSet(B)
    /\ \A y \in FirstTest..LastTest : \E t \in B : Year(t) = y

FirstOfDay(B, t) == Min({u \in B : Day(u) = Day(t)})
SessionStarts(B) == {t \in B : FirstOfDay(B, t) = t}

-----------------------------------------------------------------------------
(* Cutting a fold *)

Train(y) == {t \in calendar : Year(t) < y}
(* Faulty: a session on the very edge of the year belongs to neither side. *)
TestAfterEdge(y) == {t \in calendar : Year(t) = y /\ Day(t) > y * Days}
Test(y) == {t \in calendar : Year(t) = y}
FoldInput(y) == Train(y) \cup Test(y)

EvaluationStart(B) == Min(B)
EvaluationEnd(B) == Max(B) + 1

\* _map_evaluation_boundaries
FitsFold(y, B) ==
  /\ EvaluationStart(B) = FirstOfDay(B, EvaluationStart(B))
  /\ EvaluationStart(B) < EvaluationEnd(B)
  /\ EvaluationStart(B) >= YearStart(y)
  /\ EvaluationEnd(B) <= YearStart(y + 1)

Window(B, start, end) == {t \in B : start <= t /\ t < end}

\* _resolve_evaluation_window: does it accept the half-open interval?
Resolves(B, start, end) ==
  /\ start < end
  /\ Min(B) <= start /\ start <= Max(B)
  /\ Min(B) < end /\ end <= Max(B) + 1
  /\ start \in SessionStarts(B)
  /\ end \in SessionStarts(B) \cup {Max(B) + 1}
  /\ Window(B, start, end) # {}
  /\ \A t \in Window(B, start, end), u \in B :
       Day(u) = Day(t) => u \in Window(B, start, end)

-----------------------------------------------------------------------------
(* Validating a finished window *)

\* The wealth index of the net returns: build_wealth_index, exactly.
Wealth(n) == FoldLeft(LAMBDA w, row : w * (Scale + row.net), 1,
                      SubSeq(ledger, 1, n))

\* TrendFamilyEventReplayResult.__post_init__
CountOf(type) == Cardinality({k \in DOMAIN events : events[k].type = type})
ResultConsistent ==
  /\ \A type \in {"market", "portfolio", "signal"} :
       CountOf(type) = Len(ledger)
  /\ \A i \in DOMAIN ledger : ledger[i].ending = Wealth(i)

\* _validate_replay_evidence
EvidenceConsistent ==
  LET first == ledger[1] IN
  /\ first.previous = 0 /\ first.executed = 0 /\ ~first.eligible
  /\ first.turnover = 0 /\ first.cost = 0 /\ first.opening = 1
  /\ first.cash = Scale /\ first.holdings = 0 /\ first.ending = Scale
  /\ \A i \in 2..Len(ledger) : ledger[i].executed = ledger[i - 1].target

-----------------------------------------------------------------------------
Init ==
  /\ calendar \in Calendars
  /\ fold = FirstTest /\ window = <<>> /\ combined = <<>>
  /\ phase = "map" /\ size = 0 /\ state = NeutralState
  /\ events = <<>> /\ ledger = <<>>

MapFold ==
  /\ phase = "map"
  /\ LET B == Test(fold)
         start == EvaluationStart(B)
         end == EvaluationEnd(B)
     IN IF ~FitsFold(fold, B) \/ ~Resolves(FoldInput(fold), start, end)
        THEN Fault("boundaries") /\ UNCHANGED wfVars
        ELSE /\ phase' = "replay"
             /\ window' = Ascending(Window(FoldInput(fold), start, end))
             /\ OpenWindow(Cardinality(Window(FoldInput(fold), start, end)))
             /\ UNCHANGED <<calendar, fold, combined>>

ReplayStep == ReplayBar /\ UNCHANGED wfVars

\* The evidence of the fold is validated and its rows are kept.
CloseFold ==
  /\ phase = "replay" /\ Bar > size
  /\ IF ~ResultConsistent \/ ~EvidenceConsistent
     THEN Fault("evidence") /\ UNCHANGED wfVars
     ELSE /\ combined' = combined \o window
          /\ fold' = fold + 1
          /\ phase' = IF fold < LastTest THEN "map" ELSE "aggregate"
          /\ UNCHANGED <<size, state, events, ledger, calendar, window>>

\* The rows of all folds, sorted by time.
Aggregate ==
  /\ phase = "aggregate"
  /\ combined' = Sorted(combined)
  /\ phase' = "done"
  /\ UNCHANGED <<size, state, events, ledger, calendar, fold, window>>

Next == MapFold \/ ReplayStep \/ CloseFold \/ Aggregate

Spec == Init /\ [][Next]_vars

-----------------------------------------------------------------------------
(* Properties *)

\* None of the study's own checks ever fires: whatever the signals and
\* returns, no pending order misses its bar, no carried state is refused, no
\* calendar with a session in every year has a fold whose edges do not fit,
\* and no finished window fails its evidence.  Only a ruined equity stops it.
OnlyRuinStops == phase \notin {"timing", "state", "boundaries", "evidence"}

\* An order is executed exactly one bar after its submission, once, and from
\* the position it was submitted in; every fill is that of such an order; and
\* nothing is left unfilled when the window ends, for its last bar places
\* none.  Session ends inside the window make no difference.
EveryOrderFillsOnce ==
  LET Pair(o, f) == /\ events[f].bar = events[o].bar + 1
                    /\ events[f].submitted = events[o].bar
                    /\ events[f].from = events[o].from
                    /\ events[f].to = events[o].to
  IN /\ \A f \in Fills : Cardinality({o \in Orders : Pair(o, f)}) = 1
     /\ \A o \in Orders :
          \/ Cardinality({f \in Fills : Pair(o, f)}) = 1
          \/ phase \in {"replay", "ruin"} /\ events[o].bar = Len(ledger)
               /\ events[o].bar < size

\* The folds tile the test years: every bar of them is replayed in exactly one
\* fold, in time order, and no other bar is.  A window of a fold's data is
\* accepted exactly when it is a non-empty run of whole sessions, given by the
\* start of its first session and that of the one after it, or the data's end.
FoldsTileTheTestYears ==
  phase = "done" =>
    /\ combined = Ascending({t \in calendar : Year(t) \in FirstTest..LastTest})
    /\ \A y \in FirstTest..LastTest :
         LET B == FoldInput(y)
             Times == Min(B)..(Max(B) + 1)
             Edges == SessionStarts(B) \cup {Max(B) + 1}
         IN \A start \in Times, end \in Times :
              Resolves(B, start, end) <=>
                (start < end /\ start \in Edges /\ end \in Edges)

\* The event replay, with its orders and pending state, implements the
\* vectorised reference: row for row, in every fold.
Reference == INSTANCE VectorLedger WITH rows <- Projected
ReplaysTheReference == Reference!Spec

=============================================================================
