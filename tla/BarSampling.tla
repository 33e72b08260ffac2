------------------------------- MODULE BarSampling -------------------------------
(***************************************************************************)
(* Bars built from trades: tick, volume and dollar bars (resampling.py),   *)
(* the time bars they are compared with and the thresholds that are meant  *)
(* to give every kind the same number of bars (event_bar_diagnostics.py).  *)
(*                                                                         *)
(* The symbols of a frame are sampled one by one; one is modelled.  A      *)
(* trade has an instant and a size, which stands for its notional too: a   *)
(* dollar bar is a volume bar of another amount.  Trades may arrive in any *)
(* order, several at one instant.  A bar is the trades in it.              *)
(***************************************************************************)
EXTENDS Integers, Sequences, FiniteSets, SequencesExt, Sorting

CONSTANTS
  Instants,     \* when a trade may happen
  Sizes,        \* how large it may be
  BucketWidth,  \* instants of a time bar
  Target,       \* target_bar_count
  MaxTrades     \* bound: trades of a frame

ASSUME SamplingAssumption ==
  /\ Instants \subseteq Nat /\ Sizes \subseteq Nat \ {0}
  /\ BucketWidth \in Nat \ {0} /\ Target \in Nat \ {0}

VARIABLE trades

samplingVars == <<trades>>

Kinds == {"tick", "volume"}

(* Faulty: trades of one instant are taken in any order. *)
InTimeUnstable(i, j) ==
  trades[i].at < trades[j].at \/ (trades[i].at = trades[j].at /\ i > j)
\* By timestamp, then by arrival.
InTime(i, j) ==
  trades[i].at < trades[j].at \/ (trades[i].at = trades[j].at /\ i < j)

Arranged(S) == Ranked([i \in S |-> {j \in S : InTime(j, i)}])

\* _prepare_event_trades, normalize_trade_sample
Prepared == Arranged(DOMAIN trades)

Total(indices) == FoldLeft(LAMBDA sum, i : sum + trades[i].size, 0, indices)

Metric(kind, bar) == IF kind = "tick" THEN Len(bar) ELSE Total(bar)

-----------------------------------------------------------------------------
(* Event bars *)

Larger(a, b) == IF a >= b THEN a ELSE b

(* Faulty: rounded down, a tick bar closes too early. *)
ThresholdRoundedDown(kind) ==
  IF kind = "tick" THEN Target * Larger(1, Len(trades) \div Target)
  ELSE Larger(Target, Total(Prepared))
\* calculate_event_thresholds, times Target
Threshold(kind) ==
  IF kind = "tick" THEN Target * Larger(1, (Len(trades) + Target - 1) \div Target)
  ELSE Larger(Target, Total(Prepared))

Reaches(kind, bar) == Metric(kind, bar) * Target >= Threshold(kind)

\* build_event_bars: a trade belongs as a whole to the bar it completes, and
\* what is left at the end is a bar too.
EventBars(kind) ==
  LET Place(acc, i) ==
        LET bar == Append(acc.state, i)
        IN IF Reaches(kind, bar)
           THEN [rows |-> Append(acc.rows, bar), state |-> <<>>]
           ELSE [acc EXCEPT !.state = bar]
      end == FoldLeft(Place, [rows |-> <<>>, state |-> <<>>], Prepared)
  IN IF end.state = <<>> THEN end.rows ELSE Append(end.rows, end.state)

-----------------------------------------------------------------------------
(* Time bars *)

Bucket(i) == trades[i].at \div BucketWidth

\* build_time_bars_from_trades: one bar for every bucket with a trade.
TimeBars ==
  LET buckets == Ascending({Bucket(i) : i \in DOMAIN trades})
  IN [b \in DOMAIN buckets |-> Arranged({i \in DOMAIN trades : Bucket(i) = buckets[b]})]

-----------------------------------------------------------------------------
SamplingInit == trades = <<>>

ReceiveTrade ==
  /\ Len(trades) < MaxTrades
  /\ \E at \in Instants, size \in Sizes :
       trades' = Append(trades, [at |-> at, size |-> size])

SamplingSpec == SamplingInit /\ [][ReceiveTrade]_samplingVars

-----------------------------------------------------------------------------
(* Properties *)

\* The bars of a kind are the trades in time order, trades of one instant in
\* the order they arrived, cut into pieces: nothing is lost, split or counted
\* twice.  An event bar closes with the first trade that reaches the threshold,
\* only the last may be short of it, and the thresholds keep their promise: no
\* kind gives more bars than the target.
BarsPartitionTheTrades ==
  LET placed == FlattenSeq(TimeBars)
      Follows(i, j) == \/ trades[i].at < trades[j].at
                       \/ trades[i].at = trades[j].at /\ i < j
  IN trades # <<>> =>
       /\ Len(placed) = Len(trades)
       /\ ToSet(placed) = DOMAIN trades
       /\ \A p \in 2..Len(placed) : Follows(placed[p - 1], placed[p])
       /\ \A kind \in Kinds :
            LET bars == EventBars(kind)
                n == Len(bars)
            IN /\ FlattenSeq(bars) = placed
               /\ n <= Target
               /\ \A b \in 1..n :
                    /\ ~Reaches(kind, Front(bars[b]))
                    /\ b < n => Reaches(kind, bars[b])

=============================================================================
