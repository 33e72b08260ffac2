------------------------------ MODULE StudyProofs ------------------------------
(***************************************************************************)
(* Proofs about what a study computes: the strategies with a state, for    *)
(* every holding limit, confirmation count and plan of sessions, the event *)
(* replay of the walk-forward folds, the folds themselves, for every       *)
(* calendar, the next-open accounts of a replay and the bars of a frame of *)
(* trades.                                                                 *)
(***************************************************************************)
EXTENDS PositionMachines, NextOpenStudy, BarSampling, FoldLemmas,
        FiniteSetTheorems, SequenceTheorems, TLAPS

-----------------------------------------------------------------------------
(* The strategies with a state *)

Bars == [score : -2..2, open : BOOLEAN, worth : BOOLEAN]
States == [target : -1..1, count : Nat]

MachineTypes ==
  /\ machine \in {"reversion", "gated", "hysteresis"}
  /\ plan \in Seq(Nat)
  /\ resets \subseteq {t \in DOMAIN plan : t > 1 /\ OpensSession(plan, t)}
  /\ machine = "hysteresis" => resets = {}
  /\ seen \in Seq(Bars) /\ held \in Seq(States)
  /\ Len(seen) = Len(held) /\ Len(held) <= Len(plan)

\* A position was entered `count' bars ago, and these are its bars.
Horizon(t) ==
  held[t].target # 0 =>
    /\ ~ClosesSession(plan, t)
    /\ held[t].count < t /\ held[t].count < MaxHold
    /\ \A u \in (t - held[t].count)..t :
         /\ plan[u] = plan[t] /\ seen[u].open
         /\ held[u].target = held[t].target
         /\ u > t - held[t].count => seen[u].score * held[t].target < 0
    /\ seen[t - held[t].count].score = -2 * held[t].target
    /\ t - held[t].count = 1 \/ held[t - held[t].count - 1].target = 0
    /\ machine = "gated" =>
         /\ seen[t - held[t].count].worth
         /\ held[t].count + 1 <= Investable(t - held[t].count)

NoneMissed(t) ==
  /\ ~ClosesSession(plan, t)
  /\ t = 1 \/ held[t - 1].target = 0
  /\ seen[t].score \in {-2, 2} /\ seen[t].open /\ seen[t].worth
  => held[t].target = -(seen[t].score \div 2)

Above(u) == seen[u].open /\ seen[u].score = 2
Within(u) == seen[u].open /\ seen[u].score > 0

ConfirmedAt(c, t) ==
  (\A u \in (c - Confirm + 1)..c : Above(u)) /\ \A u \in c..t : Within(u)

Confirmed(t) == \E c \in Confirm..t : ConfirmedAt(c, t)

\* A flat hysteresis counts the bars above the entry band that end here.
Counted(t) ==
  /\ held[t].target \in {0, 1}
  /\ (held[t].target = 1) <=> Confirmed(t)
  /\ held[t].target = 0 =>
       /\ held[t].count < Confirm /\ held[t].count <= t
       /\ \A u \in (t - held[t].count + 1)..t : Above(u)
       /\ held[t].count = t \/ ~Above(t - held[t].count)

MachineInv ==
  /\ MachineTypes
  /\ Reverting => \A t \in DOMAIN held : Horizon(t) /\ NoneMissed(t)
  /\ machine = "hysteresis" => \A t \in DOMAIN held : Counted(t)

-----------------------------------------------------------------------------
(* One bar more *)

LEMMA OneMore ==
  ASSUME MachineTypes, NEW bar \in Bars, NEW st \in States,
         Now <= Len(plan), Take(bar, st), NEW t, t = Now
  PROVE  /\ MachineTypes'
         /\ t \in Nat /\ t > 0 /\ t \in DOMAIN plan
         /\ DOMAIN held = 1..(t - 1) /\ DOMAIN held' = 1..t
         /\ held'[t] = st /\ seen'[t] = bar
         /\ \A u \in 1..(t - 1) : held'[u] = held[u] /\ seen'[u] = seen[u]
         /\ machine' = machine /\ plan' = plan /\ resets' = resets
<1> USE DEF MachineTypes, Take, Now
<1>1. /\ held' = Append(held, st) /\ seen' = Append(seen, bar)
      /\ UNCHANGED <<machine, plan, resets>>
  OBVIOUS
<1>2. /\ Len(held) \in Nat /\ DOMAIN held = 1..Len(held)
      /\ DOMAIN seen = 1..Len(held) /\ DOMAIN plan = 1..Len(plan) /\ Len(plan) \in Nat
  OBVIOUS
<1>3. /\ held' \in Seq(States) /\ seen' \in Seq(Bars)
      /\ Len(held') = t /\ Len(seen') = t
      /\ DOMAIN held' = 1..t
      /\ held'[t] = st /\ seen'[t] = bar
      /\ \A u \in 1..(t - 1) : held'[u] = held[u] /\ seen'[u] = seen[u]
  BY <1>1, <1>2
<1>4. MachineTypes'
  BY <1>1, <1>2, <1>3 DEF OpensSession
<1>5. QED
  BY <1>1, <1>2, <1>3, <1>4

LEMMA IndicatorTypes ==
  /\ Reversions \subseteq Bars /\ Gates \subseteq Bars /\ Ratios \subseteq Bars
  /\ \A bar \in Ratios : bar.score >= 0
<1>1. Unusable \in Bars /\ Unusable.score >= 0
  BY DEF Unusable, Bars
<1>2. ASSUME NEW s \in -2..2, NEW w \in BOOLEAN
      PROVE  [score |-> s, open |-> TRUE, worth |-> w] \in Bars
  BY DEF Bars
<1>3. Reversions \subseteq Bars
  BY <1>1, <1>2 DEF Reversions
<1>4. Gates \subseteq Bars
  <2>1. {-2, 2} \subseteq -2..2
    OBVIOUS
  <2>2. QED
    BY <1>2, <1>3, <2>1 DEF Gates
<1>5. ASSUME NEW bar \in Ratios
      PROVE  bar \in Bars /\ bar.score >= 0
  <2>1. CASE bar = Unusable
    BY <1>1, <2>1
  <2>2. CASE bar # Unusable
    <3>1. PICK s \in 0..2 : bar = [score |-> s, open |-> TRUE, worth |-> TRUE]
      BY <2>2 DEF Ratios
    <3>2. s \in -2..2 /\ s >= 0
      OBVIOUS
    <3>3. bar \in Bars
      BY <1>2, <3>1, <3>2
    <3>4. QED
      BY <3>1, <3>2, <3>3
  <2>3. QED
    BY <2>1, <2>2
<1>6. QED
  BY <1>3, <1>4, <1>5

LEMMA CarryTypes ==
  ASSUME MachineTypes, NEW t, t = Now
  PROVE  /\ Carry \in States /\ t \in Nat /\ t > 0
         /\ t = 1 \/ t \in resets => Carry = Flat
         /\ t > 1 /\ t \notin resets => Carry = held[t - 1]
         /\ Flat \in States /\ Flat.target = 0 /\ Flat.count = 0
<1> USE DEF MachineTypes, Now
<1>1. Flat \in States /\ Flat.target = 0 /\ Flat.count = 0
  BY DEF Flat, States
<1>2. /\ Len(held) \in Nat /\ (held = <<>> <=> Len(held) = 0)
      /\ \A u \in 1..Len(held) : held[u] \in States
  OBVIOUS
<1>3. QED
  BY <1>1, <1>2 DEF Carry

LEMMA NextTargets ==
  ASSUME NEW st \in States, NEW bar \in Bars
  PROVE  Revert(st, bar) \in States /\ ConfirmTrend(st, bar) \in States
<1>1. /\ Flat \in States
      /\ \A s \in -1..1 : [Flat EXCEPT !.target = s] \in States
      /\ [st EXCEPT !.count = @ + 1] \in States
      /\ \A s \in -1..1, c \in Nat : [target |-> s, count |-> c] \in States
  BY DEF Flat, States
<1>2. EntrySide(bar.score) \in -1..1
  BY DEF EntrySide
<1>3. st.count + 1 \in Nat
  BY DEF States
<1>4. QED
  BY <1>1, <1>2, <1>3 DEF Revert, ConfirmTrend

\* The bars between an entry and a bar that does not close are bars to invest.
LEMMA InvestableAtLeast ==
  ASSUME plan \in Seq(Nat), NEW e \in DOMAIN plan, NEW t \in DOMAIN plan, e <= t,
         t - e + 1 <= MaxHold, ~ClosesSession(plan, t),
         \A u \in e..t : plan[u] = plan[t]
  PROVE  t - e + 1 <= Investable(e)
<1> DEFINE After == {u \in DOMAIN plan : u > e /\ plan[u] = plan[e]}
<1>1. /\ DOMAIN plan = 1..Len(plan) /\ Len(plan) \in Nat
      /\ e \in Int /\ t \in Int /\ e >= 1
  OBVIOUS
<1>2. t + 1 \in DOMAIN plan /\ plan[t + 1] = plan[t]
  BY <1>1 DEF ClosesSession
<1>3. plan[e] = plan[t]
  BY <1>1
<1>4. (e + 1)..(t + 1) \subseteq After
  <2> SUFFICES ASSUME NEW u \in (e + 1)..(t + 1)
               PROVE  u \in After
    OBVIOUS
  <2>1. u \in DOMAIN plan /\ u > e
    BY <1>1, <1>2
  <2>2. u = t + 1 \/ u \in e..t
    BY <1>1, <1>2, t + 1 \in 1..Len(plan)
  <2>3. plan[u] = plan[e]
    BY <1>2, <1>3, <2>2
  <2>4. QED
    BY <2>1, <2>3
<1>5. IsFiniteSet(After)
  <2>1. IsFiniteSet(1..Len(plan)) /\ After \in SUBSET (1..Len(plan))
    BY <1>1, FS_Interval
  <2>2. QED
    BY <2>1, FS_Subset
<1>6. Cardinality((e + 1)..(t + 1)) = t - e + 1
  BY <1>1, FS_Interval
<1>7. Cardinality((e + 1)..(t + 1)) <= Cardinality(After)
  BY <1>4, <1>5, FS_Subset
<1>8. Cardinality(After) \in Nat
  BY <1>5, FS_CardinalityType
<1>9. Investable(e) = Smaller(MaxHold, Cardinality(After))
  BY DEF Investable
<1> HIDE DEF After
<1>10. t - e + 1 <= Cardinality(After)
  <2> DEFINE c == Cardinality((e + 1)..(t + 1))
  <2>1. c = t - e + 1 /\ c <= Cardinality(After)
    BY <1>6, <1>7
  <2> HIDE DEF c
  <2>2. QED
    BY <2>1
<1>11. QED
  BY <1>1, <1>8, <1>9, <1>10, MachineAssumption DEF Smaller

\* What holds of the earlier bars is not changed by a new one.
LEMMA EarlierBarsKept ==
  ASSUME MachineTypes, NEW bar \in Bars, NEW st \in States,
         Now <= Len(plan), Take(bar, st), NEW t, t = Now, NEW u \in 1..(t - 1)
  PROVE  /\ Horizon(u) => Horizon(u)'
         /\ NoneMissed(u) => NoneMissed(u)'
         /\ Counted(u) => Counted(u)'
<1>2. /\ machine' = machine /\ plan' = plan /\ t \in Nat
      /\ DOMAIN held = 1..(t - 1)
      /\ \A v \in 1..(t - 1) : held'[v] = held[v] /\ seen'[v] = seen[v]
  BY OneMore
<1>0. t \in Nat /\ u \in 1..t /\ u \in Int /\ u < t
  BY <1>2
<1>1. /\ held[u] \in States /\ held[u].count \in Nat /\ held[u].target \in Int
  <2>1. held[u] \in States
    BY <1>2 DEF MachineTypes
  <2>2. QED
    BY <2>1 DEF States
<1>3. \A v \in 1..(t - 1) : (Above(v)' <=> Above(v)) /\ (Within(v)' <=> Within(v))
  BY <1>2 DEF Above, Within
<1>4. Horizon(u) => Horizon(u)'
  <2> SUFFICES ASSUME Horizon(u), held[u].target # 0
               PROVE  Horizon(u)'
    BY <1>0, <1>2 DEF Horizon
  <2> DEFINE e == u - held[u].count
  <2>0. held[u].count < u
    BY DEF Horizon
  <2>1. e \in 1..(t - 1) /\ e <= u /\ e \in Int
    BY <1>0, <1>1, <2>0
  <2>2. held'[u] = held[u] /\ held'[e] = held[e] /\ seen'[e] = seen[e]
    BY <1>0, <1>2, <2>1
  <2>3. e # 1 => held'[e - 1] = held[e - 1]
    BY <1>0, <1>2, <2>1
  <2>4. \A v \in e..u : held'[v] = held[v] /\ seen'[v] = seen[v]
    BY <1>0, <1>2, <2>1
  <2>5. QED
    BY <1>2, <2>1, <2>2, <2>3, <2>4 DEF Horizon, Investable
<1>5. NoneMissed(u) => NoneMissed(u)'
  BY <1>0, <1>2 DEF NoneMissed
<1>6. Counted(u) => Counted(u)'
  <2> SUFFICES ASSUME Counted(u)
               PROVE  Counted(u)'
    OBVIOUS
  <2>1. held'[u] = held[u]
    BY <1>2
  <2>2. Confirmed(u)' <=> Confirmed(u)
    <3>1. ASSUME NEW c \in Confirm..u
          PROVE  ConfirmedAt(c, u)' <=> ConfirmedAt(c, u)
      <4>1. /\ \A v \in (c - Confirm + 1)..c : v \in 1..(t - 1)
            /\ \A v \in c..u : v \in 1..(t - 1)
        BY <1>0, MachineAssumption
      <4>2. QED
        BY <1>3, <4>1 DEF ConfirmedAt
    <3>2. QED
      BY <3>1 DEF Confirmed
  <2>3. held[u].target = 0 => Counted(u)'
    <3> SUFFICES ASSUME held[u].target = 0
                 PROVE  Counted(u)'
      OBVIOUS
    <3>0. held[u].count <= u
      BY DEF Counted
    <3>1. /\ \A v \in (u - held[u].count + 1)..u : v \in 1..(t - 1)
          /\ held[u].count # u => u - held[u].count \in 1..(t - 1)
      BY <1>0, <1>1, <3>0
    <3>2. QED
      BY <1>3, <2>1, <2>2, <3>1 DEF Counted
  <2>4. QED
    BY <2>1, <2>2, <2>3 DEF Counted
<1>7. QED
  BY <1>4, <1>5, <1>6

\* Before a flat bar or a test window nothing is held.
LEMMA FlatBefore ==
  ASSUME MachineTypes, \A u \in DOMAIN held : Horizon(u), Now <= Len(plan),
         NEW t, t = Now, t > 1, Carry.target = 0
  PROVE  held[t - 1].target = 0
<1>1. t \in Nat /\ t - 1 \in DOMAIN held /\ t - 1 \in 1..Len(plan)
  BY DEF MachineTypes, Now
<1>2. CASE t \in resets
  <2>1. plan[t] # plan[t - 1]
    BY <1>1, <1>2 DEF MachineTypes, OpensSession
  <2>2. ClosesSession(plan, t - 1)
    BY <1>1, <2>1 DEF ClosesSession
  <2>3. QED
    BY <1>1, <2>2 DEF Horizon
<1>3. CASE t \notin resets
  BY <1>3, CarryTypes
<1>4. QED
  BY <1>2, <1>3

LEMMA RevertKeepsHorizon ==
  ASSUME MachineTypes, \A u \in DOMAIN held : Horizon(u) /\ NoneMissed(u),
         Now <= Len(plan), NEW bar \in Bars, NEW old, old = Carry,
         NEW st, st = Revert(old, bar), Take(bar, st), NEW t, t = Now
  PROVE  Horizon(t)' /\ NoneMissed(t)'
<1>1. /\ old \in States /\ old.target \in -1..1 /\ old.count \in Nat
      /\ t \in Nat /\ t > 0
      /\ old.target # 0 => t > 1 /\ t \notin resets /\ old = held[t - 1]
      /\ Flat \in States /\ Flat.target = 0 /\ Flat.count = 0
  <2>1. old \in States /\ t \in Nat /\ t > 0
    BY CarryTypes
  <2>2. old.target \in -1..1 /\ old.count \in Nat
    BY <2>1 DEF States
  <2>3. QED
    BY <2>1, <2>2, CarryTypes
<1>2. old.target = 0 /\ t > 1 => held[t - 1].target = 0
  BY FlatBefore
<1>3. /\ t \in DOMAIN plan /\ DOMAIN plan = 1..Len(plan) /\ Len(plan) \in Nat
      /\ DOMAIN held = 1..(t - 1)
      /\ held'[t] = st /\ seen'[t] = bar
      /\ \A u \in 1..(t - 1) : held'[u] = held[u] /\ seen'[u] = seen[u]
      /\ machine' = machine /\ plan' = plan
  <2>1. st \in States
    BY <1>1, NextTargets
  <2>2. QED
    BY <2>1, OneMore DEF MachineTypes
<1>4. st = Revert(old, bar)
  OBVIOUS
<1>5. bar.score \in -2..2 /\ bar.open \in BOOLEAN /\ bar.worth \in BOOLEAN
  BY DEF Bars
<1>6. CASE ClosesSession(plan, t)
  <2>1. st = Flat
    BY <1>4, <1>6 DEF Revert
  <2>2. QED
    BY <1>1, <1>3, <1>6, <2>1 DEF Horizon, NoneMissed
<1>7. CASE ~ClosesSession(plan, t) /\ old.target = 0
  <2>1. 1 <= Investable(t)
    <3>1. plan \in Seq(Nat) /\ MaxHold \in Nat /\ 1 <= MaxHold
      BY MachineAssumption DEF MachineTypes
    <3>2. t \in Int /\ t - t + 1 = 1 /\ t <= t /\ t..t = {t}
      BY <1>1
    <3>3. 1 <= MaxHold => 1 <= Investable(t)
      BY <1>3, <1>7, <3>1, <3>2, InvestableAtLeast
    <3>4. QED
      BY <3>1, <3>3
  <2>2. /\ st.count = 0
        /\ st.target = IF EntryAllowed(bar) THEN EntrySide(bar.score) ELSE 0
    BY <1>4, <1>7 DEF Revert, Flat
  <2>3. EntryAllowed(bar) <=> bar.open /\ (machine = "gated" => bar.worth)
    BY <2>1 DEF EntryAllowed
  <2>4. st.target # 0 => bar.open /\ bar.score = -2 * st.target
    BY <1>5, <2>2, <2>3 DEF EntrySide
  <2>5. Horizon(t)'
    <3> SUFFICES ASSUME st.target # 0
                 PROVE  Horizon(t)'
      BY <1>3 DEF Horizon
    <3>1. \A u \in (t - 0)..t : u = t
      BY <1>1
    <3>2. /\ t - st.count = t /\ st.count < t /\ st.count < MaxHold
          /\ t - 0 = t /\ st.count + 1 <= Investable(t)
      BY <1>1, <2>1, <2>2, MachineAssumption
    <3>3. t = 1 \/ held'[t - 1].target = 0
      BY <1>1, <1>2, <1>3, <1>7
    <3>4. machine = "gated" => bar.worth
      BY <2>2, <2>3
    <3>5. Investable(t)' = Investable(t)
      BY <1>3 DEF Investable
    <3>6. QED
      BY <1>3, <1>7, <2>2, <2>4, <3>1, <3>2, <3>3, <3>4, <3>5 DEF Horizon
  <2>6. NoneMissed(t)'
    <3>1. ASSUME bar.score \in {-2, 2}, bar.open, bar.worth
          PROVE  st.target = -(bar.score \div 2)
      <4>1. EntrySide(bar.score) = -(bar.score \div 2)
        BY <3>1 DEF EntrySide
      <4>2. QED
        BY <2>2, <2>3, <3>1, <4>1
    <3>2. QED
      BY <1>3, <3>1 DEF NoneMissed
  <2>7. QED
    BY <2>5, <2>6
<1>8. CASE ~ClosesSession(plan, t) /\ old.target # 0
  <2>1. NoneMissed(t)'
    BY <1>1, <1>3, <1>8 DEF NoneMissed
  <2>2. Horizon(t)'
    <3> SUFFICES ASSUME st.target # 0
                 PROVE  Horizon(t)'
      BY <1>3 DEF Horizon
    <3> DEFINE e == t - 1 - old.count
    <3>1. /\ StillHeld(old, bar)
          /\ st.target = old.target /\ st.count = old.count + 1
      BY <1>1, <1>4, <1>8 DEF Revert, States
    <3>2. /\ bar.open /\ bar.score * old.target < 0 /\ old.count + 1 < MaxHold
      BY <1>1, <1>5, <3>1 DEF StillHeld, ExitForMean
    <3>3. t - 1 \in 1..(t - 1) /\ t > 1 /\ old = held[t - 1] /\ Horizon(t - 1)
      BY <1>1, <1>3, <1>8
    <3>4. /\ ~ClosesSession(plan, t - 1)
          /\ old.count < t - 1
          /\ \A u \in e..(t - 1) :
               /\ plan[u] = plan[t - 1] /\ seen[u].open
               /\ held[u].target = old.target
               /\ u > e => seen[u].score * old.target < 0
          /\ seen[e].score = -2 * old.target
          /\ e = 1 \/ held[e - 1].target = 0
          /\ machine = "gated" => seen[e].worth
      BY <1>8, <3>3 DEF Horizon
    <3>5. e \in 1..(t - 1) /\ e \in Int /\ t - st.count = e /\ st.count < t
      BY <1>1, <3>1, <3>4
    <3>6. plan[t] = plan[t - 1]
      BY <1>1, <1>3, <3>3, <3>4 DEF ClosesSession
    <3>7. \A u \in e..t : u \in e..(t - 1) \/ u = t
      BY <1>1, <3>5
    <3>8. \A u \in e..(t - 1) : u \in 1..(t - 1)
      BY <1>1, <3>5
    <3>9. \A u \in e..t :
            /\ plan[u] = plan[t] /\ seen'[u].open
            /\ held'[u].target = old.target
            /\ u > e => seen'[u].score * old.target < 0
      <4> TAKE u \in e..t
      <4>1. CASE u = t
        BY <1>3, <3>1, <3>2, <4>1
      <4>2. CASE u \in e..(t - 1)
        <5>1. held'[u] = held[u] /\ seen'[u] = seen[u]
          BY <1>3, <3>8, <4>2
        <5>2. QED
          BY <3>4, <3>6, <4>2, <5>1
      <4>3. QED
        BY <3>7, <4>1, <4>2
    <3>10. seen'[e] = seen[e] /\ (e # 1 => held'[e - 1] = held[e - 1])
      <4>1. e # 1 => e - 1 \in 1..(t - 1)
        BY <1>1, <3>5
      <4>2. QED
        BY <1>3, <3>5, <4>1
    <3>11. t - e + 1 <= Investable(e)
      <4>1. /\ e \in DOMAIN plan /\ e <= t /\ t - e + 1 <= MaxHold
            /\ \A u \in e..t : plan[u] = plan[t]
        BY <1>1, <1>3, <3>2, <3>5, <3>9, MachineAssumption
      <4>2. QED
        BY <1>3, <1>8, <4>1, InvestableAtLeast DEF MachineTypes
    <3>12. Investable(e)' = Investable(e)
      BY <1>3 DEF Investable
    <3>13. st.count + 1 = t - e + 1
      BY <1>1, <3>1
    <3> HIDE DEF e
    <3>14. QED
      BY <1>3, <1>8, <3>1, <3>2, <3>4, <3>5, <3>9, <3>10, <3>11, <3>12, <3>13
      DEF Horizon
  <2>3. QED
    BY <2>1, <2>2
<1>9. QED
  BY <1>6, <1>7, <1>8

\* A confirmation that is not completed by the last bar was there before it.
\* Primed, for it is about the bars after a step.
LEMMA ConfirmedBefore ==
  ASSUME NEW t \in Nat, t > 0
  PROVE  /\ ~Within(t)' => ~Confirmed(t)'
         /\ ~Above(t)' /\ (t = 1 \/ ~Confirmed(t - 1)') => ~Confirmed(t)'
         /\ t > 1 /\ Confirmed(t - 1)' /\ Within(t)' => Confirmed(t)'
<1>1. Confirm \in Nat /\ Confirm > 0
  BY MachineAssumption
<1>2. ASSUME NEW c \in Confirm..t
      PROVE  /\ c \in Int /\ c >= 1 /\ c <= t /\ t \in c..t
             /\ c \in (c - Confirm + 1)..c
             /\ c # t => t > 1 /\ c \in Confirm..(t - 1)
             /\ \A u \in c..(t - 1) : u \in c..t
  BY <1>1
<1>3. ~Within(t)' => ~Confirmed(t)'
  BY <1>2 DEF Confirmed, ConfirmedAt
<1>4. ASSUME ~Above(t)', Confirmed(t)'
      PROVE  t > 1 /\ Confirmed(t - 1)'
  <2>1. PICK c \in Confirm..t : ConfirmedAt(c, t)'
    BY <1>4 DEF Confirmed
  <2>2. c # t
    BY <1>2, <1>4, <2>1 DEF ConfirmedAt
  <2>3. ConfirmedAt(c, t - 1)'
    BY <1>2, <2>1 DEF ConfirmedAt
  <2>4. QED
    BY <1>2, <2>2, <2>3 DEF Confirmed
<1>5. ASSUME t > 1, Confirmed(t - 1)', Within(t)'
      PROVE  Confirmed(t)'
  <2>1. PICK c \in Confirm..(t - 1) : ConfirmedAt(c, t - 1)'
    BY <1>5 DEF Confirmed
  <2>2. c \in Confirm..t /\ \A u \in c..t : u \in c..(t - 1) \/ u = t
    BY <1>1
  <2>3. ConfirmedAt(c, t)'
    BY <1>5, <2>1, <2>2 DEF ConfirmedAt
  <2>4. QED
    BY <2>2, <2>3 DEF Confirmed
<1>6. QED
  BY <1>3, <1>4, <1>5

LEMMA ConfirmTrendCounts ==
  ASSUME MachineTypes, machine = "hysteresis",
         \A u \in DOMAIN held : Counted(u),
         Now <= Len(plan), NEW bar \in Ratios, NEW old, old = Carry,
         NEW st, st = ConfirmTrend(old, bar), Take(bar, st), NEW t, t = Now
  PROVE  Counted(t)'
<1>1. /\ old \in States /\ old.count \in Nat /\ old.target \in Int
      /\ t \in Nat /\ t > 0
      /\ t = 1 => old = Flat
      /\ t > 1 => old = held[t - 1]
      /\ Flat.target = 0 /\ Flat.count = 0
  <2>1. old \in States /\ t \in Nat /\ t > 0
    BY CarryTypes
  <2>2. old.count \in Nat /\ old.target \in Int
    BY <2>1 DEF States
  <2>3. QED
    BY <2>1, <2>2, CarryTypes DEF MachineTypes
<1>2. /\ DOMAIN held = 1..(t - 1) /\ held'[t] = st /\ seen'[t] = bar
      /\ \A u \in 1..(t - 1) : held'[u] = held[u] /\ seen'[u] = seen[u]
  <2>1. bar \in Bars /\ st \in States
    BY <1>1, IndicatorTypes, NextTargets
  <2>2. QED
    BY <2>1, OneMore
<1>3. /\ bar.score \in 0..2
      /\ Above(t)' <=> bar.open /\ bar.score = 2
      /\ Within(t)' <=> bar.open /\ bar.score > 0
  <2>1. bar.score \in 0..2
    BY IndicatorTypes DEF Bars
  <2>2. QED
    BY <1>2, <2>1 DEF Above, Within
<1>4. t > 1 => Counted(t - 1) /\ Counted(t - 1)'
  <2> SUFFICES ASSUME t > 1
               PROVE  Counted(t - 1) /\ Counted(t - 1)'
    OBVIOUS
  <2>1. t - 1 \in 1..(t - 1)
    BY <1>1
  <2>2. bar \in Bars /\ st \in States
    BY <1>1, IndicatorTypes, NextTargets
  <2>3. QED
    BY <1>2, <2>1, <2>2, EarlierBarsKept
<1>5. /\ old.target \in {0, 1}
      /\ (old.target = 1) <=> (t > 1 /\ Confirmed(t - 1)')
      /\ old.target = 0 =>
           /\ old.count < Confirm /\ old.count <= t - 1
           /\ \A u \in (t - old.count)..(t - 1) : Above(u)'
           /\ old.count = t - 1 \/ ~Above(t - 1 - old.count)'
  <2>1. CASE t = 1
    BY <1>1, <2>1, MachineAssumption
  <2>2. CASE t > 1
    <3>1. held'[t - 1] = old
      BY <1>1, <1>2, <2>2
    <3>2. t - 1 - old.count + 1 = t - old.count
      BY <1>1
    <3>3. QED
      BY <1>1, <1>4, <2>2, <3>1, <3>2 DEF Counted
  <2>3. QED
    BY <1>1, <2>1, <2>2
<1>6. /\ ~Within(t)' => ~Confirmed(t)'
      /\ ~Above(t)' /\ old.target = 0 => ~Confirmed(t)'
      /\ old.target = 1 /\ Within(t)' => Confirmed(t)'
  <2>1. /\ ~Within(t)' => ~Confirmed(t)'
        /\ ~Above(t)' /\ (t = 1 \/ ~Confirmed(t - 1)') => ~Confirmed(t)'
        /\ t > 1 /\ Confirmed(t - 1)' /\ Within(t)' => Confirmed(t)'
    BY <1>1, ConfirmedBefore
  <2>2. QED
    BY <1>1, <1>5, <2>1
<1>7. CASE st = Flat /\ ~Above(t)' /\ ~Confirmed(t)'
  <2>1. held'[t].target = 0 /\ held'[t].count = 0
    BY <1>1, <1>2, <1>7
  <2>2. /\ 0 < Confirm /\ 0 <= t /\ t - 0 = t
        /\ (t - 0 + 1)..t = {}
    BY <1>1, MachineAssumption
  <2>3. QED
    BY <1>7, <2>1, <2>2 DEF Counted
<1>8. CASE st = old /\ old.target = 1 /\ Confirmed(t)'
  BY <1>2, <1>8 DEF Counted
<1>9. CASE old.target = 0 /\ Above(t)'
           /\ st = [target |-> IF old.count + 1 >= Confirm THEN 1 ELSE 0,
                   count |-> old.count + 1]
  <2>1. \A u \in (t - old.count)..t : Above(u)'
    <3>1. \A u \in (t - old.count)..t : u \in (t - old.count)..(t - 1) \/ u = t
      BY <1>1
    <3>2. QED
      BY <1>5, <1>9, <3>1
  <2>2. st.count = old.count + 1 /\ t - st.count + 1 = t - old.count
    BY <1>1, <1>9
  <2>3. CASE old.count + 1 >= Confirm
    <3>1. /\ old.count + 1 = Confirm /\ t \in Confirm..t
          /\ t - Confirm + 1 = t - old.count
      BY <1>1, <1>5, <1>9, <2>3, MachineAssumption
    <3>2. \A u \in t..t : u = t
      BY <1>1
    <3>3. Within(t)'
      BY <1>3, <1>9
    <3>4. ConfirmedAt(t, t)'
      BY <2>1, <3>1, <3>2, <3>3 DEF ConfirmedAt
    <3>5. Confirmed(t)'
      BY <3>1, <3>4 DEF Confirmed
    <3>6. held'[t].target = 1
      BY <1>2, <1>9, <2>3
    <3>7. QED
      BY <3>5, <3>6 DEF Counted
  <2>4. CASE old.count + 1 < Confirm
    <3>1. ~Confirmed(t)'
      <4> SUFFICES ASSUME NEW c \in Confirm..t, ConfirmedAt(c, t)'
                   PROVE  FALSE
        BY DEF Confirmed
      <4>1. CASE c = t
        <5>1. old.count # t - 1
          BY <1>1, <2>4, <4>1, MachineAssumption
        <5>2. t - 1 - old.count \in (t - Confirm + 1)..t
          BY <1>1, <2>4, MachineAssumption
        <5>3. QED
          BY <1>5, <1>9, <4>1, <5>1, <5>2 DEF ConfirmedAt
      <4>2. CASE c # t
        <5>1. /\ c \in Confirm..(t - 1) /\ t > 1
              /\ \A u \in c..(t - 1) : u \in c..t
          BY <1>1, <4>2, MachineAssumption
        <5>2. ConfirmedAt(c, t - 1)'
          BY <5>1 DEF ConfirmedAt
        <5>3. QED
          BY <1>5, <1>9, <5>1, <5>2 DEF Confirmed
      <4>3. QED
        BY <4>1, <4>2
    <3>2. held'[t].target = 0 /\ held'[t].count = old.count + 1
      BY <1>1, <1>2, <1>9, <2>4, MachineAssumption
    <3>3. /\ old.count + 1 <= t
          /\ old.count = t - 1 => old.count + 1 = t
          /\ t - (old.count + 1) = t - 1 - old.count
          /\ t - (old.count + 1) + 1 = t - old.count
      BY <1>1, <1>5, <1>9
    <3>4. QED
      BY <1>5, <1>9, <2>1, <2>4, <3>1, <3>2, <3>3 DEF Counted
  <2>5. QED
    BY <1>1, <2>3, <2>4, MachineAssumption
<1>10. QED
  <2>1. st = ConfirmTrend(old, bar)
    OBVIOUS
  <2>2. CASE ~bar.open
    BY <1>3, <1>6, <1>7, <2>1, <2>2 DEF ConfirmTrend
  <2>3. CASE bar.open /\ old.target = 1
    BY <1>3, <1>6, <1>7, <1>8, <2>1, <2>3 DEF ConfirmTrend
  <2>4. CASE bar.open /\ old.target = 0
    BY <1>3, <1>6, <1>7, <1>9, <2>1, <2>4 DEF ConfirmTrend
  <2>5. QED
    BY <1>5, <2>2, <2>3, <2>4

LEMMA MachineInitInv == MachineInit => MachineInv
<1> SUFFICES ASSUME MachineInit
             PROVE  MachineInv
  OBVIOUS
<1>1. /\ seen \in Seq(Bars) /\ held \in Seq(States)
      /\ Len(seen) = 0 /\ Len(held) = 0 /\ DOMAIN held = {}
  BY DEF MachineInit
<1>2. plan \in Seq(Nat) /\ Len(plan) \in Nat
  BY MachineAssumption DEF MachineInit
<1>3. MachineTypes
  BY <1>1, <1>2 DEF MachineInit, MachineTypes
<1>4. QED
  BY <1>1, <1>3 DEF MachineInv

LEMMA ReversionStep ==
  ASSUME MachineInv, ReversionBar \/ GatedBar
  PROVE  MachineInv'
<1>1. MachineTypes /\ Reverting /\ Now <= Len(plan)
  BY DEF MachineInv, ReversionBar, GatedBar, Reverting
<1>2. PICK bar \in Bars : Take(bar, Revert(Carry, bar))
  BY IndicatorTypes DEF ReversionBar, GatedBar
<1>3. ASSUME NEW old, old = Carry, NEW st, st = Revert(old, bar), NEW t, t = Now
      PROVE  MachineInv'
  <2>1. Take(bar, st)
    BY <1>2, <1>3
  <2>2. st \in States
    BY <1>1, <1>3, CarryTypes, NextTargets
  <2>3. \A u \in DOMAIN held : Horizon(u) /\ NoneMissed(u)
    BY <1>1 DEF MachineInv
  <2>4. /\ MachineTypes' /\ machine' = machine /\ t \in Nat
        /\ DOMAIN held = 1..(t - 1) /\ DOMAIN held' = 1..t
    BY <1>1, <1>3, <2>1, <2>2, OneMore
  <2>5. Horizon(t)' /\ NoneMissed(t)'
    BY <1>1, <1>3, <2>1, <2>3, RevertKeepsHorizon
  <2>6. ASSUME NEW u \in 1..(t - 1)
        PROVE  Horizon(u)' /\ NoneMissed(u)'
    BY <1>1, <1>3, <2>1, <2>2, <2>3, <2>4, EarlierBarsKept
  <2>7. \A u \in 1..t : Horizon(u)' /\ NoneMissed(u)'
    BY <2>4, <2>5, <2>6
  <2>8. machine' # "hysteresis"
    BY <1>1, <2>4 DEF Reverting
  <2>9. QED
    BY <2>4, <2>7, <2>8 DEF MachineInv
<1>4. QED
  BY <1>3

LEMMA HysteresisStep ==
  ASSUME MachineInv, HysteresisBar
  PROVE  MachineInv'
<1>1. MachineTypes /\ machine = "hysteresis" /\ Now <= Len(plan)
  BY DEF MachineInv, HysteresisBar
<1>2. PICK bar \in Ratios : Take(bar, ConfirmTrend(Carry, bar))
  BY DEF HysteresisBar
<1>3. ASSUME NEW old, old = Carry, NEW st, st = ConfirmTrend(old, bar),
             NEW t, t = Now
      PROVE  MachineInv'
  <2>1. Take(bar, st) /\ bar \in Bars
    BY <1>2, <1>3, IndicatorTypes
  <2>2. st \in States
    BY <1>1, <1>3, <2>1, CarryTypes, NextTargets
  <2>3. \A u \in DOMAIN held : Counted(u)
    BY <1>1 DEF MachineInv
  <2>4. /\ MachineTypes' /\ machine' = machine /\ t \in Nat
        /\ DOMAIN held = 1..(t - 1) /\ DOMAIN held' = 1..t
    BY <1>1, <1>3, <2>1, <2>2, OneMore
  <2>5. Counted(t)'
    BY <1>1, <1>2, <1>3, <2>1, <2>3, ConfirmTrendCounts
  <2>6. ASSUME NEW u \in 1..(t - 1)
        PROVE  Counted(u)'
    BY <1>1, <1>3, <2>1, <2>2, <2>3, <2>4, EarlierBarsKept
  <2>7. \A u \in 1..t : Counted(u)'
    BY <2>4, <2>5, <2>6
  <2>8. ~Reverting'
    BY <1>1, <2>4 DEF Reverting
  <2>9. QED
    BY <2>4, <2>7, <2>8 DEF MachineInv
<1>4. QED
  BY <1>3

LEMMA MachineIdles ==
  ASSUME MachineInv, UNCHANGED machineVars
  PROVE  MachineInv'
<1>1. /\ machine' = machine /\ plan' = plan /\ resets' = resets
      /\ seen' = seen /\ held' = held
  BY DEF machineVars
<1>2. MachineTypes' /\ (Reverting' <=> Reverting)
  BY <1>1 DEF MachineInv, MachineTypes, Reverting
<1>3. \A u : Investable(u)' = Investable(u)
  BY <1>1 DEF Investable
<1>4. \A u : (Horizon(u)' <=> Horizon(u)) /\ (NoneMissed(u)' <=> NoneMissed(u))
  BY <1>1, <1>3 DEF Horizon, NoneMissed
<1>5. \A u : (Above(u)' <=> Above(u)) /\ (Within(u)' <=> Within(u))
  BY <1>1 DEF Above, Within
<1>6. \A u : Confirmed(u)' <=> Confirmed(u)
  BY <1>5 DEF Confirmed, ConfirmedAt
<1>7. \A u : Counted(u)' <=> Counted(u)
  BY <1>1, <1>5, <1>6 DEF Counted
<1>8. QED
  BY <1>1, <1>2, <1>4, <1>7 DEF MachineInv

LEMMA MachineInvariant == MachineSpec => []MachineInv
<1>1. MachineInv /\ [MachineNext]_machineVars => MachineInv'
  BY ReversionStep, HysteresisStep, MachineIdles DEF MachineNext
<1>2. QED
  BY <1>1, MachineInitInv, PTL DEF MachineSpec

\* A reversion position is entered, held and given up within its horizon, and
\* no flat bar passes an entry over: _target_state and the loop of
\* apply_ou_cost_margin_gate, for every holding limit and plan of sessions.
THEOREM HeldToTheHorizon == MachineSpec => []HeldWithinHorizon
<1>1. MachineInv => HeldWithinHorizon
  <2> SUFFICES ASSUME MachineInv, Reverting
               PROVE  HeldWithinHorizon
    BY DEF HeldWithinHorizon
  <2>1. /\ MachineTypes
        /\ \A t \in DOMAIN held : Horizon(t) /\ NoneMissed(t)
    BY DEF MachineInv
  <2>2. \A t \in DOMAIN held : t \in Nat /\ t > 0 /\ held[t] \in States
    BY <2>1 DEF MachineTypes
  <2>3. ASSUME NEW t \in DOMAIN held, held[t].target # 0
        PROVE  /\ ~ClosesSession(plan, t)
               /\ \E e \in 1..t :
                    /\ t - e < MaxHold
                    /\ \A u \in e..t :
                         /\ plan[u] = plan[t] /\ seen[u].open
                         /\ held[u].target = held[t].target
                         /\ u > e => seen[u].score * held[t].target < 0
                    /\ seen[e].score = -2 * held[t].target
                    /\ e = 1 \/ held[e - 1].target = 0
                    /\ machine = "gated" =>
                         seen[e].worth /\ t - e + 1 <= Investable(e)
    <3> DEFINE e == t - held[t].count
    <3>1. held[t].count \in Nat /\ t \in Nat
      BY <2>2 DEF States
    <3>2. held[t].count < t /\ held[t].count < MaxHold
      BY <2>1, <2>3 DEF Horizon
    <3>3. /\ e \in 1..t /\ t - e < MaxHold
          /\ t - e + 1 = held[t].count + 1
      BY <3>1, <3>2
    <3>4. QED
      BY <2>1, <2>3, <3>3 DEF Horizon
  <2>4. QED
    BY <2>1, <2>3 DEF HeldWithinHorizon, NoneMissed
<1>2. QED
  BY <1>1, MachineInvariant, PTL

\* The trend hysteresis is long exactly after enough confirmations in a row:
\* build_persistent_hysteresis_signal, for every number of confirmations.
THEOREM LongWhenConfirmed == MachineSpec => []LongOnlyWhenConfirmed
<1>1. MachineInv => LongOnlyWhenConfirmed
  BY DEF MachineInv, Counted, Confirmed, ConfirmedAt, Above, Within,
         LongOnlyWhenConfirmed
<1>2. QED
  BY <1>1, MachineInvariant, PTL

\* The lagged and the next-open accounts of a reversion run agree but for the
\* bar at which the liquidation at a close is booked.
THEOREM AccountsAgreed == MachineSpec => []AccountsAgree
<1>1. MachineInv => AccountsAgree
  <2> SUFFICES ASSUME MachineInv, Reverting, Now > Len(plan),
                      NEW t \in DOMAIN plan
               PROVE  LET rows == NextOpenRows(Signalled, plan)
                      IN /\ rows[t].position = LaggedPosition(t)
                         /\ LaggedTurnover(t) =
                              IF t = 1 \/ ~OpensSession(plan, t)
                              THEN rows[t].openTurnover
                              ELSE IF t \in resets THEN 0
                              ELSE rows[t - 1].closeTurnover
    BY DEF AccountsAgree
  <2>1. /\ MachineTypes
        /\ \A u \in DOMAIN held : Horizon(u)
    BY DEF MachineInv
  <2>2. /\ Len(held) = Len(plan) /\ Len(plan) \in Nat
        /\ DOMAIN held = 1..Len(plan) /\ DOMAIN plan = 1..Len(plan)
        /\ t \in 1..Len(plan) /\ t \in Int /\ t >= 1
        /\ t > 1 => t - 1 \in 1..Len(plan)
        /\ t > 2 => t - 2 \in 1..Len(plan)
    BY <2>1 DEF MachineTypes, Now
  <2>3. ASSUME NEW u \in 1..Len(plan)
        PROVE  /\ held[u].target \in Int
               /\ Signalled[u].target = held[u].target
               /\ ClosesSession(plan, u) => held[u].target = 0
    <3>1. held[u] \in States /\ Horizon(u)
      BY <2>1, <2>2 DEF MachineTypes
    <3>2. QED
      BY <2>2, <3>1 DEF Signalled, States, Horizon
  <2>4. /\ t \in resets => t > 1 /\ OpensSession(plan, t)
        /\ t > 1 /\ OpensSession(plan, t) => held[t - 1].target = 0
        /\ t - 1 \in resets => t - 1 > 1 /\ held[t - 2].target = 0
    <3>1. \A u \in 1..Len(plan) :
            u > 1 /\ OpensSession(plan, u) =>
              /\ u - 1 \in 1..Len(plan) /\ ClosesSession(plan, u - 1)
      BY <2>2 DEF OpensSession, ClosesSession
    <3>2. \A u \in 1..Len(plan) :
            u > 1 /\ OpensSession(plan, u) => held[u - 1].target = 0
      BY <2>3, <3>1
    <3>3. \A u \in resets : u \in 1..Len(plan) /\ u > 1 /\ OpensSession(plan, u)
      BY <2>1, <2>2 DEF MachineTypes
    <3>4. t - 1 \in resets => t - 1 > 1 /\ held[t - 2].target = 0
      <4>1. t - 1 - 1 = t - 2
        BY <2>2
      <4>2. QED
        BY <3>2, <3>3, <4>1
    <3>5. QED
      BY <2>2, <3>2, <3>3, <3>4
  <2> DEFINE position(u) == IF u = 1 THEN 0 ELSE held[u - 1].target
  <2>5. /\ LaggedPosition(t) = position(t)
        /\ t > 1 => LaggedPosition(t - 1) = position(t - 1)
    BY <2>2, <2>4 DEF LaggedPosition
  <2>6. /\ PositionAt(Signalled, t) = position(t)
        /\ t > 1 => PositionAt(Signalled, t - 1) = position(t - 1)
    BY <2>2, <2>3 DEF PositionAt
  <2>7. \A p \in Int : Gap(0, p) = Gap(p, 0)
    BY DEF Gap
  <2>8. t > 1 => position(t - 1) \in Int
    BY <2>2, <2>3
  <2>9. /\ NextOpenRows(Signalled, plan)[t].position = position(t)
        /\ NextOpenRows(Signalled, plan)[t].openTurnover =
             Gap(position(t), Carried(Signalled, plan, t))
        /\ t > 1 /\ ClosesSession(plan, t - 1) =>
             NextOpenRows(Signalled, plan)[t - 1].closeTurnover =
               Gap(position(t - 1), 0)
    BY <2>2, <2>6 DEF NextOpenRows
  <2>10. CASE t = 1
    BY <2>4, <2>5, <2>9, <2>10 DEF LaggedTurnover, Carried
  <2>11. CASE t > 1 /\ ~OpensSession(plan, t)
    BY <2>2, <2>4, <2>5, <2>6, <2>9, <2>11 DEF LaggedTurnover, Carried
  <2>12. CASE t > 1 /\ OpensSession(plan, t)
    <3>1. ClosesSession(plan, t - 1) /\ position(t) = 0
      BY <2>2, <2>4, <2>12 DEF OpensSession, ClosesSession
    <3>2. QED
      BY <2>2, <2>5, <2>7, <2>8, <2>9, <2>12, <3>1 DEF LaggedTurnover
  <2>13. QED
    BY <2>2, <2>10, <2>11, <2>12
<1>2. QED
  BY <1>1, MachineInvariant, PTL

-----------------------------------------------------------------------------
(* Sequences of events *)

\* Concatenation, as the provers can use it.
IsJoin(j, s, u) ==
  /\ Len(j) = Len(s) + Len(u)
  /\ \A k \in 1..Len(s) : j[k] = s[k]
  /\ \A k \in 1..Len(u) : j[Len(s) + k] = u[k]

LEMMA Joined ==
  ASSUME NEW S, NEW s \in Seq(S), NEW u \in Seq(S)
  PROVE  s \o u \in Seq(S) /\ IsJoin(s \o u, s, u)
BY DEF IsJoin

LEMMA FourJoined ==
  ASSUME NEW S, NEW s \in Seq(S), NEW x \in Seq(S), NEW t \in Seq(S),
         NEW y \in Seq(S), Len(s) = 1, Len(t) = 2,
         NEW f \in Seq(S), IsJoin(f, s, x), NEW g \in Seq(S), IsJoin(g, f, t),
         NEW D \in Seq(S), IsJoin(D, g, y)
  PROVE  /\ Len(D) = 3 + Len(x) + Len(y)
         /\ D[1] = s[1]
         /\ \A k \in 1..Len(x) : D[1 + k] = x[k]
         /\ D[2 + Len(x)] = t[1] /\ D[3 + Len(x)] = t[2]
         /\ \A k \in 1..Len(y) : D[3 + Len(x) + k] = y[k]
<1>1. Len(x) \in Nat /\ Len(y) \in Nat
  OBVIOUS
<1>2. /\ Len(f) = 1 + Len(x)
      /\ \A k \in 1..1 : f[k] = s[k]
      /\ \A k \in 1..Len(x) : f[1 + k] = x[k]
  BY DEF IsJoin
<1>3. /\ Len(g) = Len(f) + 2
      /\ \A k \in 1..Len(f) : g[k] = f[k]
      /\ \A k \in 1..2 : g[Len(f) + k] = t[k]
  BY DEF IsJoin
<1>4. /\ Len(D) = Len(g) + Len(y)
      /\ \A k \in 1..Len(g) : D[k] = g[k]
      /\ \A k \in 1..Len(y) : D[Len(g) + k] = y[k]
  BY DEF IsJoin
<1>5. Len(f) = 1 + Len(x) /\ Len(g) = 3 + Len(x)
  BY <1>1, <1>2, <1>3
<1>6. \A k \in 1..(1 + Len(x)) : D[k] = f[k]
  BY <1>1, <1>3, <1>4, <1>5
<1>7. D[1] = s[1] /\ \A k \in 1..Len(x) : D[1 + k] = x[k]
  BY <1>1, <1>2, <1>6
<1>8. D[2 + Len(x)] = g[2 + Len(x)] /\ D[3 + Len(x)] = g[3 + Len(x)]
  BY <1>1, <1>4, <1>5
<1>9. g[1 + Len(x) + 1] = t[1] /\ g[1 + Len(x) + 2] = t[2]
  BY <1>3, <1>5
<1>10. 1 + Len(x) + 1 = 2 + Len(x) /\ 1 + Len(x) + 2 = 3 + Len(x)
  BY <1>1
<1>11. QED
  BY <1>1, <1>4, <1>5, <1>7, <1>8, <1>9, <1>10

Segments(D, a, x, c, d, y) ==
  /\ Len(D) = 3 + Len(x) + Len(y)
  /\ D[1] = a
  /\ \A k \in 1..Len(x) : D[1 + k] = x[k]
  /\ D[2 + Len(x)] = c /\ D[3 + Len(x)] = d
  /\ \A k \in 1..Len(y) : D[3 + Len(x) + k] = y[k]

LEMMA BarSegments ==
  ASSUME NEW S, NEW a \in S, NEW c \in S, NEW d \in S, NEW x \in Seq(S), NEW y \in Seq(S)
  PROVE  /\ <<a>> \o x \o <<c, d>> \o y \in Seq(S)
         /\ Segments(<<a>> \o x \o <<c, d>> \o y, a, x, c, d, y)
<1> DEFINE s == <<a>>  t == <<c, d>> f == s \o x  g == f \o t D == g \o y
<1>1. /\ s \in Seq(S) /\ Len(s) = 1 /\ s[1] = a
      /\ t \in Seq(S) /\ Len(t) = 2 /\ t[1] = c /\ t[2] = d
  OBVIOUS
<1> HIDE DEF s, t
<1>2. f \in Seq(S) /\ IsJoin(f, s, x)
  BY <1>1, Joined
<1> HIDE DEF f
<1>3. g \in Seq(S) /\ IsJoin(g, f, t)
  BY <1>1, <1>2, Joined
<1> HIDE DEF g
<1>4. D \in Seq(S) /\ IsJoin(D, g, y)
  BY <1>3, Joined
<1>5. D = <<a>> \o x \o <<c, d>> \o y
  BY DEF g, f, s, t
<1> HIDE DEF D
<1>6. /\ Len(D) = 3 + Len(x) + Len(y)
      /\ D[1] = s[1]
      /\ \A k \in 1..Len(x) : D[1 + k] = x[k]
      /\ D[2 + Len(x)] = t[1] /\ D[3 + Len(x)] = t[2]
      /\ \A k \in 1..Len(y) : D[3 + Len(x) + k] = y[k]
  BY <1>1, <1>2, <1>3, <1>4, FourJoined
<1>7. Segments(D, a, x, c, d, y)
  BY <1>1, <1>6 DEF Segments
<1>8. QED
  BY <1>4, <1>5, <1>7

-----------------------------------------------------------------------------
(* The event replay of a window *)

Pending == [submitted : Nat \ {0}, execute : Nat,
            current : Positions, target : Positions]
ReplayStates == [executed : Positions, target : Positions, available : BOOLEAN,
               order : {NoOrder} \cup Pending, equity : Int]
Observations == [target : Positions, available : BOOLEAN, eligible : BOOLEAN,
                 previous : Positions, executed : Positions, turnover : Int,
                 gross : Int, cost : Int, net : Int, opening : Int,
                 cash : Int, holdings : Int, ending : Int]
Log == [type : {"market"}, bar : Nat]
       \cup [type : {"fill"}, bar : Nat, submitted : Nat, from : Positions,
             to : Positions]
       \cup [type : {"portfolio"}, bar : Nat, position : Positions]
       \cup [type : {"signal"}, bar : Nat, target : Positions]
       \cup [type : {"order"}, bar : Nat, from : Positions, to : Positions]

ReplayTypes ==
  /\ size \in Nat /\ Len(ledger) <= size
  /\ state \in ReplayStates /\ ledger \in Seq(Observations) /\ events \in Seq(Log)

\* No order is missed and no carried state refused; a window that is neither
\* being replayed nor ruined is complete.
Phases ==
  /\ phase \in {"map", "replay", "ruin", "boundaries", "evidence", "aggregate", "done"}
  /\ phase = "replay" => size > 0
  /\ phase \notin {"replay", "ruin"} => Len(ledger) = size

Unfinished == phase \in {"replay", "ruin"} /\ Len(ledger) < size

\* Between two bars the state is the last row and the order that it placed.
StateCarries ==
  Unfinished =>
    /\ ledger = <<>> => state = NeutralState
    /\ ledger # <<>> =>
         LET last == ledger[Len(ledger)]
         IN /\ state.executed = last.executed /\ state.target = last.target
            /\ state.available = last.available /\ state.equity = last.ending
    /\ ~state.available => state.target = 0
    /\ (state.order # NoOrder) <=> (Change(state) # 0)
    /\ state.order # NoOrder =>
         /\ state.order.submitted = Len(ledger)
         /\ state.order.execute = Len(ledger) + 1
         /\ state.order.current = state.executed
         /\ state.order.target = state.target

OrderOf(o, f) ==
  /\ events[f].bar = events[o].bar + 1
  /\ events[f].submitted = events[o].bar
  /\ events[f].from = events[o].from
  /\ events[f].to = events[o].to

\* A bar logs an event of a kind at most once, three of them exactly once.
EventKinds == {"market", "portfolio", "signal"}
LoggedUpTo(last) ==
  /\ \A k \in DOMAIN events : events[k].bar \in 1..last
  /\ \A k, l \in DOMAIN events :
       events[k].bar = events[l].bar /\ events[k].type = events[l].type => k = l
  /\ \A b \in 1..last : \A kind \in EventKinds :
       \E k \in DOMAIN events : events[k].bar = b /\ events[k].type = kind
LoggedOnce == LoggedUpTo(Len(ledger))

\* Every fill has its order and every order its fill, but for the one order
\* that is pending.
OrdersMatch ==
  /\ \A f \in Fills : \E o \in Orders : OrderOf(o, f)
  /\ \A o \in Orders :
       \/ \E f \in Fills : OrderOf(o, f)
       \/ Unfinished /\ events[o].bar = Len(ledger) /\ state.order # NoOrder
            /\ events[o].from = state.order.current
            /\ events[o].to = state.order.target
  /\ Unfinished /\ state.order # NoOrder =>
       \E o \in Orders :
         /\ events[o].bar = Len(ledger)
         /\ events[o].from = state.order.current
         /\ events[o].to = state.order.target

ReplayInv == /\ calendar \in Calendars
             /\ ReplayTypes /\ Phases /\ StateCarries /\ LoggedOnce /\ OrdersMatch

LEMMA PendingOrder ==
  ASSUME NEW i \in Nat \ {0}, NEW p \in Positions, NEW q \in Positions
  PROVE  /\ OrderAt(i, p, q) \in Pending /\ OrderAt(i, p, q) # NoOrder
         /\ OrderAt(i, p, q).submitted = i /\ OrderAt(i, p, q).execute = i + 1
         /\ OrderAt(i, p, q).current = p /\ OrderAt(i, p, q).target = q
<1>1. /\ OrderAt(i, p, q) \in Pending
      /\ OrderAt(i, p, q).submitted = i /\ OrderAt(i, p, q).execute = i + 1
      /\ OrderAt(i, p, q).current = p /\ OrderAt(i, p, q).target = q
  BY DEF OrderAt, Pending
<1>2. NoOrder.submitted = 0
  BY DEF NoOrder
<1>3. QED
  BY <1>1, <1>2

LEMMA NeutralIsState ==
  /\ NeutralState \in ReplayStates
  /\ NeutralState.executed = 0 /\ NeutralState.target = 0
  /\ NeutralState.available = FALSE /\ NeutralState.order = NoOrder
  /\ NeutralState.equity = 1
BY DEF NeutralState, ReplayStates, Positions

LEMMA ObservationTypes ==
  ASSUME NEW st \in ReplayStates, NEW signal \in Signals, NEW return \in Returns,
         NEW row, row = Observation(st, signal, return)
  PROVE  /\ row \in Observations
         /\ row.target = signal.target /\ row.available = signal.available
         /\ row.eligible = st.available /\ row.previous = st.executed
         /\ row.executed = st.target
         /\ row.turnover = Distance(st.target, st.executed)
         /\ row.cost = row.turnover * Cost
         /\ row.gross = st.target * return
         /\ row.net = row.gross - row.cost
         /\ row.opening = st.equity
         /\ row.cash = st.equity * (Scale * (1 - st.target) - row.cost)
         /\ row.holdings = st.target * st.equity * (Scale + return)
         /\ row.ending = st.equity * (Scale + row.gross - row.cost)
<1>1. /\ st.target \in Positions /\ st.executed \in Positions
      /\ st.available \in BOOLEAN /\ st.equity \in Int
      /\ signal.target \in Positions /\ signal.available \in BOOLEAN
  BY DEF ReplayStates, Signals
<1>2. /\ Cost \in Int /\ Scale \in Int /\ return \in Int
      /\ st.target \in Int /\ st.executed \in Int
  BY <1>1, ReplayAssumption DEF Positions
<1> DEFINE turnover == Distance(st.target, st.executed)
<1>3. turnover \in Int
  BY <1>2 DEF Distance
<1>4. turnover * Cost \in Int /\ st.target * return \in Int
  BY <1>2, <1>3
<1>5. ASSUME NEW cost \in Int, NEW gross \in Int
      PROVE  /\ gross - cost \in Int
             /\ st.equity * (Scale * (1 - st.target) - cost) \in Int
             /\ st.target * st.equity * (Scale + return) \in Int
             /\ st.equity * (Scale + gross - cost) \in Int
  BY <1>1, <1>2
<1> HIDE DEF turnover
<1>6. row = [target |-> signal.target, available |-> signal.available,
             eligible |-> st.available, previous |-> st.executed,
             executed |-> st.target, turnover |-> turnover,
             gross |-> st.target * return, cost |-> turnover * Cost,
             net |-> st.target * return - turnover * Cost,
             opening |-> st.equity,
             cash |-> st.equity * (Scale * (1 - st.target) - turnover * Cost),
             holdings |-> st.target * st.equity * (Scale + return),
             ending |-> st.equity * (Scale + st.target * return - turnover * Cost)]
  BY DEF Observation, turnover
<1>7. ASSUME NEW cost \in Int, NEW gross \in Int, NEW net \in Int, NEW cash \in Int,
             NEW holdings \in Int, NEW ending \in Int
      PROVE  [target |-> signal.target, available |-> signal.available,
              eligible |-> st.available, previous |-> st.executed,
              executed |-> st.target, turnover |-> turnover,
              gross |-> gross, cost |-> cost, net |-> net,
              opening |-> st.equity, cash |-> cash, holdings |-> holdings,
              ending |-> ending] \in Observations
  BY <1>1, <1>3 DEF Observations
<1>8. row \in Observations
  <2> DEFINE cost == turnover * Cost
             gross == st.target * return
             net == gross - cost
             cash == st.equity * (Scale * (1 - st.target) - cost)
             holdings == st.target * st.equity * (Scale + return)
             ending == st.equity * (Scale + gross - cost)
  <2>1. cost \in Int /\ gross \in Int
    BY <1>4
  <2>2. net \in Int /\ cash \in Int /\ holdings \in Int /\ ending \in Int
    BY <2>1, <1>5
  <2>3. row = [target |-> signal.target, available |-> signal.available,
               eligible |-> st.available, previous |-> st.executed,
               executed |-> st.target, turnover |-> turnover,
               gross |-> gross, cost |-> cost, net |-> net,
               opening |-> st.equity, cash |-> cash, holdings |-> holdings,
               ending |-> ending]
    BY <1>6
  <2> HIDE DEF cost, gross, net, cash, holdings, ending
  <2>4. QED
    BY <1>7, <2>1, <2>2, <2>3
<1>9. QED
  BY <1>6, <1>8 DEF turnover

LEMMA OrderForTypes ==
  ASSUME NEW i \in Nat \ {0}, NEW p \in Positions, NEW signal \in Signals,
         NEW order, order = OrderFor(i, p, signal)
  PROVE  /\ order \in {NoOrder} \cup Pending
         /\ (order # NoOrder) <=> (i < size /\ signal.target # p)
         /\ order # NoOrder =>
              /\ order.submitted = i /\ order.execute = i + 1
              /\ order.current = p /\ order.target = signal.target
<1>1. signal.target \in Positions
  BY DEF Signals
<1>2. QED
  BY <1>1, PendingOrder DEF OrderFor

LEMMA StateAfterTypes ==
  ASSUME NEW st \in ReplayStates, NEW row \in Observations,
         NEW order \in {NoOrder} \cup Pending,
         NEW next, next = StateAfter(st, row, order)
  PROVE  /\ next \in ReplayStates
         /\ next.executed = row.executed /\ next.target = row.target
         /\ next.available = row.available /\ next.order = order
         /\ next.equity = row.ending
BY DEF StateAfter, ReplayStates, Observations

\* The events of one bar: which they are, and that each is there once.
BarLog(D, i, st, order) ==
  /\ D \in Seq(Log)
  /\ \A k \in 1..Len(D) : D[k].bar = i
  /\ \A k, l \in 1..Len(D) : D[k].type = D[l].type => k = l
  /\ \A kind \in EventKinds :
       \E k \in 1..Len(D) : D[k].type = kind
  /\ \A k \in 1..Len(D) : D[k].type = "fill" =>
       /\ Change(st) # 0 /\ D[k].submitted = st.order.submitted
       /\ D[k].from = st.executed /\ D[k].to = st.target
  /\ Change(st) # 0 => \E k \in 1..Len(D) : D[k].type = "fill"
  /\ \A k \in 1..Len(D) : D[k].type = "order" =>
       /\ order # NoOrder
       /\ D[k].from = order.current /\ D[k].to = order.target
  /\ order # NoOrder => \E k \in 1..Len(D) : D[k].type = "order"

LEMMA DispatchedEvents ==
  ASSUME NEW i \in Nat, NEW st \in ReplayStates, NEW row \in Observations,
         NEW order \in {NoOrder} \cup Pending,
         Change(st) # 0 => st.order # NoOrder,
         NEW D, D = Dispatched(i, st, row, order)
  PROVE  BarLog(D, i, st, order)
<1> DEFINE a == [type |-> "market", bar |-> i]
           b == [type |-> "fill", bar |-> i, submitted |-> st.order.submitted,
                 from |-> st.executed, to |-> st.target]
           c == [type |-> "portfolio", bar |-> i, position |-> row.executed]
           d == [type |-> "signal", bar |-> i, target |-> row.target]
           e == [type |-> "order", bar |-> i, from |-> order.current,
                 to |-> order.target]
           x == IF Change(st) # 0 THEN <<b>> ELSE <<>>
           y == IF order # NoOrder THEN <<e>> ELSE <<>>
<1>1. /\ st.executed \in Positions /\ st.target \in Positions
      /\ st.order \in {NoOrder} \cup Pending
      /\ row.executed \in Positions /\ row.target \in Positions
  BY DEF ReplayStates, Observations
<1>2. /\ Change(st) # 0 => st.order.submitted \in Nat
      /\ order # NoOrder => order.current \in Positions /\ order.target \in Positions
  BY <1>1 DEF Pending
<1>3. a \in Log /\ a.type = "market" /\ a.bar = i
  BY DEF Log
<1>4. /\ b.type = "fill" /\ b.bar = i /\ b.submitted = st.order.submitted
      /\ b.from = st.executed /\ b.to = st.target
      /\ Change(st) # 0 => b \in Log
  BY <1>1, <1>2 DEF Log
<1>5. c \in Log /\ c.type = "portfolio" /\ c.bar = i
  BY <1>1 DEF Log
<1>6. d \in Log /\ d.type = "signal" /\ d.bar = i
  BY <1>1 DEF Log
<1>7. /\ e.type = "order" /\ e.bar = i
      /\ e.from = order.current /\ e.to = order.target
      /\ order # NoOrder => e \in Log
  BY <1>2 DEF Log
<1>8. D = <<a>> \o x \o <<c, d>> \o y
  BY DEF Dispatched
<1> HIDE DEF a, b, c, d, e
<1>9. x \in Seq(Log) /\ y \in Seq(Log)
  BY <1>4, <1>7
<1>a. /\ Change(st) # 0 => Len(x) = 1 /\ x[1] = b
      /\ Change(st) = 0 => Len(x) = 0
      /\ order # NoOrder => Len(y) = 1 /\ y[1] = e
      /\ order = NoOrder => Len(y) = 0
      /\ Len(x) \in 0..1 /\ Len(y) \in 0..1
  BY <1>4, <1>7
<1> HIDE DEF x, y
<1>10. Segments(D, a, x, c, d, y) /\ D \in Seq(Log)
  <2>1. /\ <<a>> \o x \o <<c, d>> \o y \in Seq(Log)
        /\ Segments(<<a>> \o x \o <<c, d>> \o y, a, x, c, d, y)
    <3>1. a \in Log /\ c \in Log /\ d \in Log /\ x \in Seq(Log) /\ y \in Seq(Log)
      BY <1>3, <1>5, <1>6, <1>9
    <3>2. QED
      BY <3>1, BarSegments, Zenon
  <2>2. QED
    BY <1>8, <2>1, Zenon
<1>11. D \in Seq(Log)
  BY <1>10
<1> DEFINE m == Len(x)
           n == Len(y)
<1>b. /\ Change(st) # 0 => m = 1 /\ x[1] = b
      /\ Change(st) = 0 => m = 0
      /\ order # NoOrder => n = 1 /\ y[1] = e
      /\ order = NoOrder => n = 0
      /\ m \in 0..1 /\ n \in 0..1
  BY <1>a, Zenon
<1>12. /\ Len(D) = 3 + m + n /\ D[1] = a
       /\ \A k \in 1..m : D[1 + k] = x[k]
       /\ D[2 + m] = c /\ D[3 + m] = d
       /\ \A k \in 1..n : D[3 + m + k] = y[k]
  BY <1>10, Zenon DEF Segments
<1> HIDE DEF m, n
<1>13. /\ m = 0 => D[2] = c /\ D[3] = d
       /\ m = 1 => D[2] = x[1] /\ D[3] = c /\ D[4] = d
       /\ m = 0 /\ n = 1 => D[4] = y[1]
       /\ m = 1 /\ n = 1 => D[5] = y[1]
  BY <1>b, <1>12
<1>14. CASE Change(st) # 0 /\ order # NoOrder
  <2>1. /\ Len(D) = 5 /\ D[1] = a /\ D[2] = b /\ D[3] = c /\ D[4] = d /\ D[5] = e
    BY <1>b, <1>12, <1>13, <1>14
  <2>2. /\ \A k \in 1..Len(D) :
                 \/ k = 1 /\ D[k] = a
                 \/ k = 2 /\ D[k] = b
                 \/ k = 3 /\ D[k] = c
                 \/ k = 4 /\ D[k] = d
                 \/ k = 5 /\ D[k] = e
        /\ \A k \in 1..5 : k \in 1..Len(D)
    BY <2>1
  <2>3. QED
    BY <1>3, <1>4, <1>5, <1>6, <1>7, <1>11, <1>14, <2>1, <2>2 DEF BarLog, EventKinds
<1>15. CASE Change(st) # 0 /\ order = NoOrder
  <2>1. /\ Len(D) = 4 /\ D[1] = a /\ D[2] = b /\ D[3] = c /\ D[4] = d
    BY <1>b, <1>12, <1>13, <1>15
  <2>2. /\ \A k \in 1..Len(D) :
                 \/ k = 1 /\ D[k] = a
                 \/ k = 2 /\ D[k] = b
                 \/ k = 3 /\ D[k] = c
                 \/ k = 4 /\ D[k] = d
        /\ \A k \in 1..4 : k \in 1..Len(D)
    BY <2>1
  <2>3. QED
    BY <1>3, <1>4, <1>5, <1>6, <1>11, <1>15, <2>1, <2>2 DEF BarLog, EventKinds
<1>16. CASE Change(st) = 0 /\ order # NoOrder
  <2>1. /\ Len(D) = 4 /\ D[1] = a /\ D[2] = c /\ D[3] = d /\ D[4] = e
    BY <1>b, <1>12, <1>13, <1>16
  <2>2. /\ \A k \in 1..Len(D) :
                 \/ k = 1 /\ D[k] = a
                 \/ k = 2 /\ D[k] = c
                 \/ k = 3 /\ D[k] = d
                 \/ k = 4 /\ D[k] = e
        /\ \A k \in 1..4 : k \in 1..Len(D)
    BY <2>1
  <2>3. QED
    BY <1>3, <1>5, <1>6, <1>7, <1>11, <1>16, <2>1, <2>2 DEF BarLog, EventKinds
<1>17. CASE Change(st) = 0 /\ order = NoOrder
  <2>1. /\ Len(D) = 3 /\ D[1] = a /\ D[2] = c /\ D[3] = d
    BY <1>b, <1>12, <1>13, <1>17
  <2>2. /\ \A k \in 1..Len(D) :
                 \/ k = 1 /\ D[k] = a
                 \/ k = 2 /\ D[k] = c
                 \/ k = 3 /\ D[k] = d
        /\ \A k \in 1..3 : k \in 1..Len(D)
    BY <2>1
  <2>3. QED
    BY <1>3, <1>5, <1>6, <1>11, <1>17, <2>1, <2>2 DEF BarLog, EventKinds
<1>18. QED
  BY <1>14, <1>15, <1>16, <1>17

\* The log of a bar is appended: what is old stays where it was.
Grown(D, n) ==
  /\ events' \in Seq(Log) /\ n \in Nat /\ Len(D) \in Nat
  /\ DOMAIN events = 1..n /\ DOMAIN events' = 1..(n + Len(D))
  /\ \A k \in 1..n : events'[k] = events[k]
  /\ \A k \in 1..Len(D) : events'[n + k] = D[k]
  /\ \A k \in 1..(n + Len(D)) :
       \/ k \in 1..n
       \/ k - n \in 1..Len(D) /\ events'[k] = D[k - n]

LEMMA LogGrows ==
  ASSUME ReplayTypes, NEW D \in Seq(Log), events' = events \o D,
         NEW n, n = Len(events)
  PROVE  Grown(D, n)
<1>1. events \in Seq(Log)
  BY DEF ReplayTypes
<1>2. events' \in Seq(Log) /\ IsJoin(events', events, D)
  <2>1. events \o D \in Seq(Log) /\ IsJoin(events \o D, events, D)
    BY <1>1, Joined
  <2>2. QED
    BY <2>1, Zenon
<1>3. /\ Len(events') = n + Len(D)
      /\ \A k \in 1..n : events'[k] = events[k]
      /\ \A k \in 1..Len(D) : events'[n + k] = D[k]
  BY <1>2, Zenon DEF IsJoin
<1>4. n \in Nat /\ DOMAIN events = 1..n
  BY <1>1
<1> DEFINE m == Len(D)
<1>5. m \in Nat
  OBVIOUS
<1>6. DOMAIN events' = 1..(n + m)
  BY <1>2, <1>3
<1>7. \A k \in 1..m : events'[n + k] = D[k]
  BY <1>3
<1> HIDE DEF m
<1>8. ASSUME NEW k \in 1..(n + m), k \notin 1..n
      PROVE  k - n \in 1..m /\ events'[k] = D[k - n]
  <2>1. k - n \in 1..m /\ n + (k - n) = k
    BY <1>4, <1>5, <1>8
  <2>2. events'[n + (k - n)] = D[k - n]
    BY <1>7, <2>1
  <2>3. QED
    BY <2>1, <2>2
<1>9. QED
  BY <1>2, <1>3, <1>4, <1>5, <1>6, <1>8 DEF m, Grown

LEMMA ReplayAdvances ==
  ASSUME ReplayInv, Replaying, NEW signal \in Signals, NEW return \in Returns,
         NEW i, i = Bar,
         NEW row, row = Observation(state, signal, return),
         NEW order, order = OrderFor(i, row.executed, signal),
         NEW next, next = StateAfter(state, row, order),
         NEW D, BarLog(D, i, state, order), NEW n, Grown(D, n),
         ledger' \in Seq(Observations), Len(ledger') = i, ledger'[i] = row,
         state' = IF i < size THEN next ELSE state,
         UNCHANGED <<phase, size>>
  PROVE  (ReplayTypes /\ Phases /\ StateCarries /\ LoggedOnce /\ OrdersMatch)'
<1>1. /\ size \in Nat /\ state \in ReplayStates /\ Len(ledger) \in Nat
      /\ i = Len(ledger) + 1 /\ i \in Nat \ {0} /\ i <= size /\ i - 1 = Len(ledger)
      /\ phase = "replay" /\ Unfinished
  BY DEF ReplayInv, ReplayTypes, Replaying, Bar, Unfinished
<1>2. /\ row \in Observations /\ row.executed = state.target
      /\ row.target = signal.target /\ row.available = signal.available
  BY <1>1, ObservationTypes
<1>3. row.executed \in Positions /\ (~signal.available => signal.target = 0)
  BY <1>2 DEF Observations, Signals
<1>4. /\ order \in {NoOrder} \cup Pending
      /\ (order # NoOrder) <=> (i < size /\ signal.target # row.executed)
      /\ order # NoOrder =>
           /\ order.submitted = i /\ order.execute = i + 1
           /\ order.current = row.executed /\ order.target = signal.target
  BY <1>1, <1>3, OrderForTypes
<1>5. /\ next \in ReplayStates
      /\ next.executed = row.executed /\ next.target = row.target
      /\ next.available = row.available /\ next.order = order
      /\ next.equity = row.ending
  BY <1>1, <1>2, <1>4, StateAfterTypes
<1>6. ledger' \in Seq(Observations) /\ Len(ledger') = i /\ ledger'[i] = row /\ ledger' # <<>>
  BY <1>1
<1>7. (Change(state) # 0) <=> (state.order # NoOrder)
  BY <1>1 DEF ReplayInv, StateCarries
<1>9. /\ D \in Seq(Log)
      /\ \A k \in 1..Len(D) : D[k].bar = i
      /\ \A k, l \in 1..Len(D) : D[k].type = D[l].type => k = l
      /\ \A kind \in EventKinds :
           \E k \in 1..Len(D) : D[k].type = kind
      /\ \A k \in 1..Len(D) : D[k].type = "fill" =>
           /\ Change(state) # 0 /\ D[k].submitted = state.order.submitted
           /\ D[k].from = state.executed /\ D[k].to = state.target
      /\ Change(state) # 0 => \E k \in 1..Len(D) : D[k].type = "fill"
      /\ \A k \in 1..Len(D) : D[k].type = "order" =>
           /\ order # NoOrder
           /\ D[k].from = order.current /\ D[k].to = order.target
      /\ order # NoOrder => \E k \in 1..Len(D) : D[k].type = "order"
  BY DEF BarLog
<1>11. /\ events' \in Seq(Log) /\ n \in Nat /\ Len(D) \in Nat
       /\ DOMAIN events = 1..n /\ DOMAIN events' = 1..(n + Len(D))
       /\ \A k \in 1..n : events'[k] = events[k]
       /\ \A k \in 1..Len(D) : events'[n + k] = D[k]
       /\ \A k \in 1..(n + Len(D)) :
            \/ k \in 1..n
            \/ k - n \in 1..Len(D) /\ events'[k] = D[k - n]
  BY DEF Grown
<1>12. PICK m : m = Len(D)
  OBVIOUS
<1>13. \A k \in 1..m : n + k \in 1..(n + m)
  BY <1>11, <1>12
<1>14. \A k \in 1..n : k \in 1..(n + m)
  BY <1>11, <1>12
<1>20. ReplayTypes' /\ Phases'
  BY <1>1, <1>5, <1>6, <1>11 DEF ReplayInv, ReplayTypes, Phases
<1>21. StateCarries'
  <2> SUFFICES ASSUME Unfinished'
               PROVE  StateCarries'
    BY DEF StateCarries
  <2>1. i < size /\ state' = next
    BY <1>1, <1>6 DEF Unfinished
  <2>2. (Change(next) # 0) <=> (row.target # row.executed)
    BY <1>2, <1>3, <1>5 DEF Change, Positions, Observations
  <2>3. QED
    BY <1>2, <1>3, <1>4, <1>5, <1>6, <2>1, <2>2 DEF StateCarries, Change
<1>22. LoggedOnce'
  <2>1. /\ \A k \in 1..n : events[k].bar \in 1..(i - 1)
        /\ \A k, l \in 1..n :
             events[k].bar = events[l].bar /\ events[k].type = events[l].type => k = l
        /\ \A b \in 1..(i - 1) : \A kind \in EventKinds :
             \E k \in 1..n : events[k].bar = b /\ events[k].type = kind
    <3>1. DOMAIN events = 1..n /\ Len(ledger) = i - 1
      BY <1>1, <1>11
    <3>2. LoggedUpTo(i - 1)
      BY <3>1, Zenon DEF ReplayInv, LoggedOnce
    <3>3. \A k : k \in DOMAIN events <=> k \in 1..n
      BY <3>1
    <3>4. \A k \in 1..n : events[k].bar \in 1..(i - 1)
      BY <3>2, <3>3, Zenon DEF LoggedUpTo
    <3>5. \A k, l \in 1..n :
             events[k].bar = events[l].bar /\ events[k].type = events[l].type => k = l
      BY <3>2, <3>3, Zenon DEF LoggedUpTo
    <3>6. \A b \in 1..(i - 1) : \A kind \in EventKinds :
             \E k \in 1..n : events[k].bar = b /\ events[k].type = kind
      <4>1. \A b \in 1..(i - 1) : \A kind \in EventKinds :
               \E k \in DOMAIN events : events[k].bar = b /\ events[k].type = kind
        BY <3>2 DEF LoggedUpTo
      <4>2. QED
        BY <3>3, <4>1
    <3>7. QED
      BY <3>4, <3>5, <3>6
  <2>2. /\ DOMAIN events' = 1..(n + m) /\ n \in Nat /\ m \in Nat
        /\ \A k \in 1..n : events'[k] = events[k]
        /\ \A k \in 1..m : events'[n + k] = D[k]
        /\ \A k \in 1..(n + m) :
             \/ k \in 1..n
             \/ k - n \in 1..m /\ events'[k] = D[k - n]
    BY <1>11, <1>12
  <2>3. /\ \A k \in 1..m : D[k].bar = i
        /\ \A k, l \in 1..m : D[k].type = D[l].type => k = l
    BY <1>9, <1>12
  <2>4. ASSUME NEW k \in 1..(n + m)
        PROVE  /\ k \in 1..n => events'[k] = events[k] /\ events'[k].bar \in 1..(i - 1)
               /\ k \notin 1..n => /\ k - n \in 1..m /\ events'[k] = D[k - n]
                                  /\ events'[k].bar = i
    BY <2>1, <2>2, <2>3
  <2>5. i \notin 1..(i - 1) /\ \A b \in 1..i : b \in 1..(i - 1) \/ b = i
    BY <1>1
  <2>6. ASSUME NEW k \in 1..(n + m)
        PROVE  events'[k].bar \in 1..i
    BY <1>1, <2>4
  <2>7. ASSUME NEW k \in 1..(n + m), NEW l \in 1..(n + m),
               events'[k].bar = events'[l].bar, events'[k].type = events'[l].type
        PROVE  k = l
    <3>1. CASE k \in 1..n
      <4>1. l \in 1..n
        BY <2>4, <2>5, <2>7, <3>1
      <4>2. events[k].bar = events[l].bar /\ events[k].type = events[l].type
        BY <2>2, <2>7, <3>1, <4>1, Zenon
      <4>3. QED
        BY <2>1, <3>1, <4>1, <4>2, Zenon
    <3>2. CASE k \notin 1..n
      <4>1. l \notin 1..n
        BY <2>4, <2>5, <2>7, <3>2
      <4>2. k - n = l - n
        BY <2>3, <2>4, <2>7, <3>2, <4>1
      <4>3. k \in Int /\ l \in Int /\ n \in Int
        BY <2>2
      <4>4. QED
        BY <4>2, <4>3
    <3>3. QED
      BY <3>1, <3>2
  <2>8. ASSUME NEW b \in 1..i, NEW kind \in EventKinds
        PROVE  \E k \in 1..(n + m) : events'[k].bar = b /\ events'[k].type = kind
    <3>1. CASE b \in 1..(i - 1)
      <4>1. PICK k \in 1..n : events[k].bar = b /\ events[k].type = kind
        BY <2>1, <3>1
      <4>2. k \in 1..(n + m) /\ events'[k] = events[k]
        BY <1>14, <2>2
      <4>3. QED
        BY <4>1, <4>2
    <3>2. CASE b = i
      <4>1. PICK k \in 1..m : D[k].type = kind
        BY <1>9, <1>12
      <4>2. n + k \in 1..(n + m) /\ events'[n + k] = D[k]
        BY <1>13, <2>2
      <4>3. D[k].bar = i
        BY <2>3
      <4>4. QED
        BY <3>2, <4>1, <4>2, <4>3
    <3>3. QED
      BY <2>5, <3>1, <3>2
  <2>9. QED
    <3>1. DOMAIN events' = 1..(n + m) /\ Len(ledger') = i
      BY <1>6, <2>2
    <3>2. LoggedUpTo(i)'
      <4>1. \A k : k \in DOMAIN events' <=> k \in 1..(n + m)
        BY <3>1
      <4>2. \A k \in DOMAIN events' : events'[k].bar \in 1..i
        BY <2>6, <4>1, Zenon
      <4>3. \A k, l \in DOMAIN events' :
              events'[k].bar = events'[l].bar /\ events'[k].type = events'[l].type => k = l
        BY <2>7, <4>1, Zenon
      <4>4. \A b \in 1..i : \A kind \in EventKinds :
              \E k \in DOMAIN events' : events'[k].bar = b /\ events'[k].type = kind
        <5> SUFFICES ASSUME NEW b \in 1..i, NEW kind \in EventKinds
                     PROVE  \E k \in DOMAIN events' :
                              events'[k].bar = b /\ events'[k].type = kind
          OBVIOUS
        <5>1. PICK k \in 1..(n + m) : events'[k].bar = b /\ events'[k].type = kind
          BY <2>8
        <5>2. k \in DOMAIN events'
          BY <4>1
        <5>3. QED
          BY <5>1, <5>2
      <4>5. QED
        BY <4>2, <4>3, <4>4 DEF LoggedUpTo
    <3>3. QED
      BY <3>1, <3>2, Zenon DEF LoggedOnce
<1>23. OrdersMatch'
  <2> DEFINE Is(k, kind) == k \in DOMAIN events' /\ events'[k].type = kind
  <2>1. /\ \A k : k \in Fills' <=> Is(k, "fill")
        /\ \A k : k \in Orders' <=> Is(k, "order")
    BY DEF Fills, Orders
  <2>2. /\ \A k \in 1..n : (k \in Fills' <=> k \in Fills) /\ (k \in Orders' <=> k \in Orders)
        /\ \A k, l \in 1..n : OrderOf(k, l)' <=> OrderOf(k, l)
        /\ Fills \subseteq 1..n /\ Orders \subseteq 1..n
    BY <1>11, <1>12, <1>14 DEF Fills, Orders, OrderOf
  <2>3. ASSUME Change(state) # 0, NEW o \in Orders, events[o].bar = Len(ledger),
               events[o].from = state.order.current, events[o].to = state.order.target,
               NEW f \in 1..m, D[f].type = "fill"
        PROVE  n + f \in Fills' /\ OrderOf(o, n + f)'
    <3>1. /\ state.order.submitted = Len(ledger)
          /\ state.order.current = state.executed
          /\ state.order.target = state.target
      BY <1>1, <2>3 DEF ReplayInv, StateCarries
    <3>2. /\ n + f \in DOMAIN events' /\ events'[n + f] = D[f]
          /\ events'[o] = events[o]
      BY <1>11, <1>12, <1>13, <2>2, <2>3
    <3>3. /\ D[f].bar = Len(ledger) + 1 /\ D[f].submitted = Len(ledger)
          /\ D[f].from = state.executed /\ D[f].to = state.target
      BY <1>1, <1>9, <1>12, <2>3, <3>1
    <3>4. QED
      BY <2>1, <2>3, <3>1, <3>2, <3>3 DEF OrderOf
  <2>4. ASSUME NEW f \in Fills'
        PROVE  \E o \in Orders' : OrderOf(o, f)'
    <3>1. CASE f \in 1..n
      <4>1. PICK o \in Orders : OrderOf(o, f)
        BY <2>2, <2>4, <3>1 DEF ReplayInv, OrdersMatch
      <4>2. QED
        BY <2>2, <3>1, <4>1
    <3>2. CASE f \notin 1..n
      <4>1. f - n \in 1..m /\ D[f - n].type = "fill" /\ n + (f - n) = f
        BY <1>11, <1>12, <2>1, <2>4, <3>2
      <4>2. Change(state) # 0 /\ state.order # NoOrder
        BY <1>7, <1>9, <1>12, <4>1
      <4>3. PICK o \in Orders : /\ events[o].bar = Len(ledger)
                                /\ events[o].from = state.order.current
                                /\ events[o].to = state.order.target
        BY <1>1, <4>2 DEF ReplayInv, OrdersMatch
      <4>4. OrderOf(o, n + (f - n))'
        BY <2>3, <4>1, <4>2, <4>3
      <4>5. QED
        BY <2>2, <4>1, <4>3, <4>4
    <3>3. QED
      BY <3>1, <3>2
  <2>5. ASSUME NEW o \in Orders'
        PROVE  \/ \E f \in Fills' : OrderOf(o, f)'
               \/ /\ Unfinished' /\ events'[o].bar = Len(ledger')
                  /\ state'.order # NoOrder
                  /\ events'[o].from = state'.order.current
                  /\ events'[o].to = state'.order.target
    <3>1. CASE o \in Orders
      <4>1. CASE \E f \in Fills : OrderOf(o, f)
        BY <2>2, <3>1, <4>1
      <4>2. CASE /\ events[o].bar = Len(ledger) /\ state.order # NoOrder
                 /\ events[o].from = state.order.current
                 /\ events[o].to = state.order.target
        <5>1. PICK f \in 1..m : D[f].type = "fill"
          BY <1>7, <1>9, <1>12, <4>2
        <5>2. QED
          BY <1>7, <2>3, <3>1, <4>2, <5>1
      <4>3. QED
        BY <3>1, <4>1, <4>2 DEF ReplayInv, OrdersMatch
    <3>2. CASE o \notin Orders
      <4>1. o - n \in 1..m /\ D[o - n].type = "order" /\ events'[o] = D[o - n]
        BY <1>11, <1>12, <2>1, <2>2, <2>5, <3>2
      <4>2. /\ order # NoOrder /\ D[o - n].bar = i
            /\ D[o - n].from = order.current /\ D[o - n].to = order.target
        BY <1>9, <1>12, <4>1
      <4>3. i < size /\ state' = next /\ state'.order = order
        BY <1>4, <1>5, <4>2
      <4>4. Unfinished'
        BY <1>1, <1>6, <4>3 DEF Unfinished
      <4>5. QED
        BY <1>6, <4>1, <4>2, <4>3, <4>4
    <3>3. QED
      BY <3>1, <3>2
  <2>6. ASSUME Unfinished', state'.order # NoOrder
        PROVE  \E o \in Orders' :
                 /\ events'[o].bar = Len(ledger')
                 /\ events'[o].from = state'.order.current
                 /\ events'[o].to = state'.order.target
    <3>1. i < size /\ state' = next /\ state'.order = order
      BY <1>1, <1>5, <1>6, <2>6 DEF Unfinished
    <3>2. PICK k \in 1..m : D[k].type = "order"
      BY <1>9, <1>12, <2>6, <3>1
    <3>3. n + k \in DOMAIN events' /\ events'[n + k] = D[k]
      BY <1>11, <1>12, <1>13
    <3>4. QED
      BY <1>6, <1>9, <1>12, <2>1, <3>1, <3>2, <3>3
  <2>7. QED
    BY <2>4, <2>5, <2>6 DEF OrdersMatch
<1>30. QED
  BY <1>20, <1>21, <1>22, <1>23

\* A bar that is neither refused nor ruined.
Advance(signal, return) ==
  LET row == Observation(state, signal, return)
      order == OrderFor(Bar, row.executed, signal)
      next == StateAfter(state, row, order)
  IN /\ row.ending > 0
     /\ events' = events \o Dispatched(Bar, state, row, order)
     /\ ledger' = Append(ledger, row)
     /\ state' = IF Bar < size THEN next ELSE state
     /\ UNCHANGED <<phase, size>>

\* A carried state passes the checks of its bar, and so does the next one.
LEMMA BarOutcome ==
  ASSUME ReplayInv, ReplayBar
  PROVE  \/ Fault("ruin")
         \/ Replaying /\ \E signal \in Signals, return \in Returns : Advance(signal, return)
<1>1. /\ size \in Nat /\ state \in ReplayStates /\ Len(ledger) \in Nat
      /\ Replaying /\ Bar = Len(ledger) + 1 /\ Bar \in Nat \ {0} /\ Unfinished
  BY DEF ReplayInv, ReplayTypes, ReplayBar, Replaying, Bar, Unfinished
<1>2. ~TimingBroken(state, Bar)
  BY <1>1 DEF ReplayInv, StateCarries, TimingBroken
<1>3. PICK signal \in Signals, return \in Returns :
        LET row == Observation(state, signal, return)
            order == OrderFor(Bar, row.executed, signal)
            next == StateAfter(state, row, order)
        IN IF row.ending <= 0 THEN Fault("ruin")
           ELSE IF Bar < size /\ Inconsistent(next) THEN Fault("state")
           ELSE /\ events' = events \o Dispatched(Bar, state, row, order)
                /\ ledger' = Append(ledger, row)
                /\ state' = IF Bar < size THEN next ELSE state
                /\ UNCHANGED <<phase, size>>
  BY <1>2 DEF ReplayBar
<1>4. PICK row : row = Observation(state, signal, return)
  OBVIOUS
<1>5. PICK order : order = OrderFor(Bar, row.executed, signal)
  OBVIOUS
<1>6. PICK next : next = StateAfter(state, row, order)
  OBVIOUS
<1>7. /\ row \in Observations /\ row.executed = state.target
      /\ row.target = signal.target /\ row.available = signal.available
  BY <1>1, <1>4, ObservationTypes
<1>8. row.executed \in Positions /\ row.target \in Positions /\ row.ending \in Int
      /\ (~signal.available => signal.target = 0)
  BY <1>7 DEF Observations, Signals
<1>9. /\ order \in {NoOrder} \cup Pending
      /\ (order # NoOrder) <=> (Bar < size /\ signal.target # row.executed)
      /\ order # NoOrder =>
           /\ order.submitted = Bar /\ order.execute = Bar + 1
           /\ order.current = row.executed /\ order.target = signal.target
  BY <1>1, <1>5, <1>8, OrderForTypes
<1>10. /\ next.executed = row.executed /\ next.target = row.target
       /\ next.available = row.available /\ next.order = order
  BY <1>1, <1>6, <1>7, <1>9, StateAfterTypes
<1>11. (Change(next) # 0) <=> (row.target # row.executed)
  BY <1>8, <1>10 DEF Change, Positions
<1>12. Bar < size => ~Inconsistent(next)
  BY <1>7, <1>8, <1>9, <1>10, <1>11 DEF Inconsistent
<1>13. row.ending <= 0 \/ row.ending > 0
  BY <1>8
<1>14. IF row.ending <= 0 THEN Fault("ruin")
       ELSE IF Bar < size /\ Inconsistent(next) THEN Fault("state")
       ELSE /\ events' = events \o Dispatched(Bar, state, row, order)
            /\ ledger' = Append(ledger, row)
            /\ state' = IF Bar < size THEN next ELSE state
            /\ UNCHANGED <<phase, size>>
  BY <1>3, <1>4, <1>5, <1>6
<1>15. CASE row.ending > 0
  <2>1. ~(row.ending <= 0)
    BY <1>8, <1>15
  <2>2. Advance(signal, return)
    BY <1>4, <1>5, <1>6, <1>12, <1>14, <1>15, <2>1 DEF Advance
  <2>3. QED
    BY <1>1, <2>2
<1>16. QED
  BY <1>13, <1>14, <1>15

LEMMA Appended ==
  ASSUME NEW S, NEW s \in Seq(S), NEW x \in S, NEW j, j = Append(s, x)
  PROVE  /\ j \in Seq(S) /\ Len(j) = Len(s) + 1 /\ j[Len(s) + 1] = x
         /\ \A k \in 1..Len(s) : j[k] = s[k]
OBVIOUS

LEMMA AdvanceKeepsInv ==
  ASSUME ReplayInv, Replaying, NEW signal \in Signals, NEW return \in Returns,
         Advance(signal, return)
  PROVE  (ReplayTypes /\ Phases /\ StateCarries /\ LoggedOnce /\ OrdersMatch)'
<1>1. PICK i : i = Bar
  OBVIOUS
<1>2. PICK row : row = Observation(state, signal, return)
  OBVIOUS
<1>3. PICK order : order = OrderFor(i, row.executed, signal)
  OBVIOUS
<1>4. PICK next : next = StateAfter(state, row, order)
  OBVIOUS
<1>5. PICK D : D = Dispatched(i, state, row, order)
  OBVIOUS
<1>6. /\ state \in ReplayStates /\ ledger \in Seq(Observations) /\ Len(ledger) \in Nat
      /\ i = Len(ledger) + 1 /\ i \in Nat \ {0}
      /\ Change(state) # 0 => state.order # NoOrder
  BY <1>1 DEF ReplayInv, ReplayTypes, StateCarries, Replaying, Bar, Unfinished
<1>7. row \in Observations /\ row.executed \in Positions
  <2>1. row \in Observations
    BY <1>2, <1>6, ObservationTypes
  <2>2. QED
    BY <2>1 DEF Observations
<1>8. order \in {NoOrder} \cup Pending
  BY <1>3, <1>6, <1>7, OrderForTypes
<1>9. BarLog(D, i, state, order)
  BY <1>5, <1>6, <1>7, <1>8, DispatchedEvents
<1>10. /\ events' = events \o D
       /\ ledger' = Append(ledger, row)
       /\ state' = IF i < size THEN next ELSE state
       /\ UNCHANGED <<phase, size>>
  BY <1>1, <1>2, <1>3, <1>4, <1>5 DEF Advance
<1>11. D \in Seq(Log)
  BY <1>9 DEF BarLog
<1>12. PICK n : n = Len(events)
  OBVIOUS
<1>13. Grown(D, n)
  BY <1>10, <1>11, <1>12, LogGrows DEF ReplayInv
<1>14. ledger' \in Seq(Observations) /\ Len(ledger') = i /\ ledger'[i] = row
  <2>1. /\ ledger' \in Seq(Observations) /\ Len(ledger') = Len(ledger) + 1
        /\ ledger'[Len(ledger) + 1] = row
    BY <1>6, <1>7, <1>10, Appended
  <2>2. QED
    BY <1>6, <2>1
<1>15. state' = IF i < size THEN next ELSE state
  BY <1>10
<1>16. UNCHANGED <<phase, size>>
  BY <1>10
<1>17. QED
  BY <1>1, <1>2, <1>3, <1>4, <1>9, <1>13, <1>14, <1>15, <1>16, ReplayAdvances

LEMMA PhaseMoves ==
  ASSUME ReplayInv, UNCHANGED <<size, state, events, ledger, calendar>>,
         Phases', Unfinished' <=> Unfinished
  PROVE  ReplayInv'
<1>1. calendar' \in Calendars /\ ReplayTypes'
  BY DEF ReplayInv, ReplayTypes
<1>2. StateCarries'
  BY DEF ReplayInv, StateCarries, Change
<1>3. LoggedOnce'
  BY DEF ReplayInv, LoggedOnce, LoggedUpTo
<1>4. OrdersMatch'
  <2>1. Fills' = Fills /\ Orders' = Orders
    BY DEF Fills, Orders
  <2>2. \A o, f : OrderOf(o, f)' <=> OrderOf(o, f)
    BY DEF OrderOf
  <2>3. QED
    BY <2>1, <2>2 DEF ReplayInv, OrdersMatch
<1>5. QED
  BY <1>1, <1>2, <1>3, <1>4 DEF ReplayInv

LEMMA WindowOpens ==
  ASSUME NEW n \in Nat \ {0}, OpenWindow(n), phase' = "replay",
         calendar \in Calendars, calendar' = calendar
  PROVE  ReplayInv'
<1>1. /\ size' = n /\ state' = NeutralState /\ events' = <<>> /\ ledger' = <<>>
  BY DEF OpenWindow
<1>2. Len(ledger') = 0 /\ DOMAIN events' = {}
  BY <1>1
<1>3. ReplayTypes' /\ Phases'
  BY <1>1, <1>2, NeutralIsState DEF ReplayTypes, Phases
<1>4. StateCarries'
  BY <1>1, NeutralIsState DEF StateCarries, Change
<1>5. LoggedOnce'
  <2>1. LoggedUpTo(0)'
    BY <1>2 DEF LoggedUpTo
  <2>2. QED
    BY <1>2, <2>1, Zenon DEF LoggedOnce
<1>6. OrdersMatch'
  BY <1>1, <1>2, NeutralIsState DEF OrdersMatch, Fills, Orders
<1>7. QED
  BY <1>3, <1>4, <1>5, <1>6 DEF ReplayInv

LEMMA ReplayInitInv == Init => ReplayInv
<1> SUFFICES ASSUME Init
             PROVE  ReplayInv
  OBVIOUS
<1>1. /\ calendar \in Calendars /\ phase = "map" /\ size = 0
      /\ state = NeutralState /\ events = <<>> /\ ledger = <<>>
  BY DEF Init
<1>2. Len(ledger) = 0 /\ DOMAIN events = {} /\ ~Unfinished
  BY <1>1 DEF Unfinished
<1>3. ReplayTypes /\ Phases
  BY <1>1, <1>2, NeutralIsState DEF ReplayTypes, Phases
<1>4. StateCarries
  BY <1>2 DEF StateCarries
<1>5. LoggedOnce
  <2>1. LoggedUpTo(0)
    BY <1>2 DEF LoggedUpTo
  <2>2. QED
    BY <1>2, <2>1, Zenon DEF LoggedOnce
<1>6. OrdersMatch
  BY <1>2 DEF OrdersMatch, Fills, Orders
<1>7. QED
  BY <1>1, <1>3, <1>4, <1>5, <1>6 DEF ReplayInv

\* A window that resolves has a bar, and only finitely many.
LEMMA WindowIsFinite ==
  ASSUME calendar \in Calendars, NEW y, NEW start, NEW end,
         Resolves(FoldInput(y), start, end)
  PROVE  Cardinality(Window(FoldInput(y), start, end)) \in Nat \ {0}
<1>1. IsFiniteSet(calendar)
  BY CalendarAssumption
<1>2. Window(FoldInput(y), start, end) \subseteq calendar
  BY DEF Window, FoldInput, Train, Test
<1>3. IsFiniteSet(Window(FoldInput(y), start, end))
  BY <1>1, <1>2, FS_Subset
<1>4. Window(FoldInput(y), start, end) # {}
  BY DEF Resolves
<1>5. QED
  BY <1>3, <1>4, FS_EmptySet, FS_CardinalityType

LEMMA ReplayNextInv == ReplayInv /\ [Next]_vars => ReplayInv'
<1> SUFFICES ASSUME ReplayInv, [Next]_vars
             PROVE  ReplayInv'
  OBVIOUS
<1>1. CASE MapFold
  <2> DEFINE B == Test(fold)
             start == EvaluationStart(B)
             end == EvaluationEnd(B)
  <2>1. phase = "map" /\ ~Unfinished
    BY <1>1 DEF MapFold, Unfinished
  <2>2. CASE Fault("boundaries") /\ UNCHANGED wfVars
    <3>1. Phases' /\ ~Unfinished'
      BY <2>1, <2>2 DEF ReplayInv, Phases, Fault, Unfinished
    <3>2. UNCHANGED <<size, state, events, ledger, calendar>>
      BY <2>2 DEF Fault, wfVars
    <3>3. QED
      BY <2>1, <3>1, <3>2, PhaseMoves
  <2>3. CASE /\ Resolves(FoldInput(fold), start, end)
             /\ phase' = "replay" /\ calendar' = calendar
             /\ OpenWindow(Cardinality(Window(FoldInput(fold), start, end)))
    <3> HIDE DEF start, end
    <3>1. calendar \in Calendars
      BY DEF ReplayInv
    <3>2. Cardinality(Window(FoldInput(fold), start, end)) \in Nat \ {0}
      BY <2>3, <3>1, WindowIsFinite
    <3>3. QED
      BY <2>3, <3>1, <3>2, WindowOpens
  <2>4. QED
    BY <1>1, <2>2, <2>3 DEF MapFold
<1>2. CASE ReplayStep
  <2>1. calendar' = calendar
    BY <1>2 DEF ReplayStep, wfVars
  <2>2. CASE Fault("ruin")
    <3>1. UNCHANGED <<size, state, events, ledger, calendar>>
      BY <2>1, <2>2 DEF Fault
    <3>2. phase = "replay" /\ phase' = "ruin"
      BY <1>2, <2>2 DEF ReplayStep, ReplayBar, Replaying, Fault
    <3>3. Phases' /\ (Unfinished' <=> Unfinished)
      BY <3>1, <3>2 DEF ReplayInv, Phases, Unfinished
    <3>4. QED
      BY <3>1, <3>3, PhaseMoves
  <2>3. CASE Replaying /\ \E signal \in Signals, return \in Returns :
                            Advance(signal, return)
    <3>1. (ReplayTypes /\ Phases /\ StateCarries /\ LoggedOnce /\ OrdersMatch)'
      BY <2>3, AdvanceKeepsInv
    <3>2. QED
      BY <2>1, <3>1 DEF ReplayInv
  <2>4. QED
    BY <1>2, <2>2, <2>3, BarOutcome DEF ReplayStep
<1>3. CASE CloseFold
  <2>1. /\ UNCHANGED <<size, state, events, ledger, calendar>>
        /\ phase' \in {"map", "aggregate", "evidence"}
    BY <1>3 DEF CloseFold, Fault, wfVars
  <2>2. Len(ledger) = size
    BY <1>3 DEF ReplayInv, ReplayTypes, CloseFold, Bar
  <2>3. Phases' /\ ~Unfinished /\ ~Unfinished'
    BY <2>1, <2>2 DEF ReplayInv, Phases, ReplayTypes, Unfinished
  <2>4. QED
    BY <2>1, <2>3, PhaseMoves
<1>4. CASE Aggregate
  <2>1. /\ UNCHANGED <<size, state, events, ledger, calendar>>
        /\ phase = "aggregate" /\ phase' = "done"
    BY <1>4 DEF Aggregate
  <2>2. Phases' /\ ~Unfinished /\ ~Unfinished'
    BY <2>1 DEF ReplayInv, Phases, Unfinished
  <2>3. QED
    BY <2>1, <2>2, PhaseMoves
<1>5. CASE UNCHANGED vars
  <2>1. UNCHANGED <<phase, size, state, events, ledger, calendar>>
    BY <1>5 DEF vars, replayVars, wfVars
  <2>2. Phases' /\ (Unfinished' <=> Unfinished)
    BY <2>1 DEF ReplayInv, Phases, Unfinished
  <2>3. QED
    BY <2>1, <2>2, PhaseMoves
<1>6. QED
  BY <1>1, <1>2, <1>3, <1>4, <1>5 DEF Next

LEMMA ReplayInvariant == Spec => []ReplayInv
BY ReplayInitInv, ReplayNextInv, PTL DEF Spec

LEMMA OnlyOne ==
  ASSUME NEW S, NEW x \in S, \A y \in S : y = x
  PROVE  Cardinality(S) = 1
<1>1. S = {x}
  OBVIOUS
<1>2. QED
  BY <1>1, FS_Singleton

\* An order and its fill find each other in the log: neither has a second
\* candidate, for a bar logs an event of a kind once.
LEMMA FillsPairOff == ReplayInv => EveryOrderFillsOnce
<1> SUFFICES ASSUME ReplayInv
             PROVE  EveryOrderFillsOnce
  OBVIOUS
<1>1. ledger \in Seq(Observations) /\ events \in Seq(Log) /\ size \in Nat
  BY DEF ReplayInv, ReplayTypes
<1>2. \A k, l \in DOMAIN events :
        events[k].bar = events[l].bar /\ events[k].type = events[l].type => k = l
  BY Zenon DEF ReplayInv, LoggedOnce, LoggedUpTo
<1>3. \A k \in DOMAIN events : events[k].bar \in Nat
  <2>1. \A k \in DOMAIN events : events[k] \in Log
    BY <1>1
  <2>2. \A e \in Log : e.bar \in Nat
    BY DEF Log
  <2>3. QED
    BY <2>1, <2>2
<1>4. \A f \in Fills : Cardinality({o \in Orders : OrderOf(o, f)}) = 1
  <2> SUFFICES ASSUME NEW f \in Fills
               PROVE  Cardinality({o \in Orders : OrderOf(o, f)}) = 1
    OBVIOUS
  <2>1. PICK o \in Orders : OrderOf(o, f)
    BY DEF ReplayInv, OrdersMatch
  <2>2. ASSUME NEW other \in Orders, OrderOf(other, f)
        PROVE  other = o
    <3>1. /\ other \in DOMAIN events /\ events[other].type = "order"
          /\ o \in DOMAIN events /\ events[o].type = "order"
      BY DEF Orders
    <3>2. events[other].bar = events[o].bar
      BY <1>3, <2>1, <2>2, <3>1 DEF OrderOf
    <3>3. QED
      BY <1>2, <3>1, <3>2
  <2>3. o \in {x \in Orders : OrderOf(x, f)}
    BY <2>1
  <2>4. \A x \in {y \in Orders : OrderOf(y, f)} : x = o
    BY <2>2
  <2>5. QED
    BY <2>3, <2>4, OnlyOne
<1>5. ASSUME NEW o \in Orders, NEW f \in Fills, OrderOf(o, f)
      PROVE  Cardinality({g \in Fills : OrderOf(o, g)}) = 1
  <2>1. ASSUME NEW other \in Fills, OrderOf(o, other)
        PROVE  other = f
    <3>1. /\ other \in DOMAIN events /\ events[other].type = "fill"
          /\ f \in DOMAIN events /\ events[f].type = "fill"
      BY DEF Fills
    <3>2. events[other].bar = events[f].bar
      BY <1>5, <2>1 DEF OrderOf
    <3>3. QED
      BY <1>2, <3>1, <3>2
  <2>2. f \in {g \in Fills : OrderOf(o, g)}
    BY <1>5
  <2>3. \A x \in {g \in Fills : OrderOf(o, g)} : x = f
    BY <2>1
  <2>4. QED
    BY <2>2, <2>3, OnlyOne
<1>6. ASSUME NEW o \in Orders
      PROVE  \/ Cardinality({g \in Fills : OrderOf(o, g)}) = 1
             \/ /\ phase \in {"replay", "ruin"} /\ events[o].bar = Len(ledger)
                /\ events[o].bar < size
  <2>1. \/ \E f \in Fills : OrderOf(o, f)
        \/ Unfinished /\ events[o].bar = Len(ledger)
    BY DEF ReplayInv, OrdersMatch
  <2>2. QED
    BY <1>5, <2>1 DEF Unfinished
<1>7. QED
  BY <1>4, <1>6 DEF EveryOrderFillsOnce, OrderOf

\* Every order is filled one bar later, once, from the position and to the
\* target that it names, every fill is that of such an order, and only the
\* order of an unfinished or ruined window is still open
\* (run_trend_family_event_replay's pending orders).
THEOREM OrdersFilledOnce == Spec => []EveryOrderFillsOnce
BY ReplayInvariant, FillsPairOff, PTL

-----------------------------------------------------------------------------
(* The replay implements the vectorised reference *)

LEMMA SameProjection ==
  ASSUME ledger' = ledger
  PROVE  Projected' = Projected
BY DEF Projected

\* A row as PARITY_MAPPINGS reads it.
RowOf(o) == [target |-> o.target, available |-> o.available,
             position |-> o.executed, eligible |-> o.eligible,
             turnover |-> o.turnover, gross |-> o.gross,
             cost |-> o.cost, net |-> o.net]
RefRows == [target : Positions, available : BOOLEAN, position : Positions,
            eligible : BOOLEAN, turnover : Int, gross : Int, cost : Int, net : Int]

LEMMA RowOfTypes ==
  ASSUME NEW o \in Observations
  PROVE  RowOf(o) \in RefRows
BY DEF RowOf, RefRows, Observations

LEMMA ProjectedRows ==
  ASSUME NEW l \in Seq(Observations), NEW p, p = [i \in 1..Len(l) |-> RowOf(l[i])]
  PROVE  p \in Seq(RefRows) /\ Len(p) = Len(l) /\ \A i \in 1..Len(l) : p[i] = RowOf(l[i])
<1>1. \A i \in 1..Len(l) : RowOf(l[i]) \in RefRows
  BY RowOfTypes
<1>2. QED
  BY <1>1

LEMMA ProjectedGrows ==
  ASSUME NEW l \in Seq(Observations), NEW o \in Observations,
         NEW m \in Seq(Observations), Len(m) = Len(l) + 1, m[Len(l) + 1] = o,
         \A k \in 1..Len(l) : m[k] = l[k],
         NEW p, p = [i \in 1..Len(l) |-> RowOf(l[i])],
         NEW q, q = [i \in 1..Len(m) |-> RowOf(m[i])]
  PROVE  q = Append(p, RowOf(o))
<1>1. /\ p \in Seq(RefRows) /\ Len(p) = Len(l)
      /\ \A i \in 1..Len(l) : p[i] = RowOf(l[i])
  BY ProjectedRows
<1>2. /\ q \in Seq(RefRows) /\ Len(q) = Len(l) + 1
      /\ \A i \in 1..(Len(l) + 1) : q[i] = RowOf(m[i])
  BY ProjectedRows
<1>3. RowOf(o) \in RefRows
  BY RowOfTypes
<1>4. PICK j : j = Append(p, RowOf(o))
  OBVIOUS
<1>5. /\ j \in Seq(RefRows) /\ Len(j) = Len(p) + 1 /\ j[Len(p) + 1] = RowOf(o)
      /\ \A k \in 1..Len(p) : j[k] = p[k]
  BY <1>1, <1>3, <1>4, Appended
<1>6. Len(l) \in Nat
  OBVIOUS
<1>7. \A k \in 1..(Len(l) + 1) : q[k] = j[k]
  BY <1>1, <1>2, <1>5, <1>6
<1>8. Len(j) = Len(l) + 1
  BY <1>1, <1>5
<1>9. q = j
  BY <1>2, <1>5, <1>7, <1>8
<1>10. QED
  BY <1>4, <1>9

\* A bar adds the row that the signals alone determine.
LEMMA AdvanceExtends ==
  ASSUME ReplayInv, Replaying, NEW signal \in Signals, NEW return \in Returns,
         Advance(signal, return)
  PROVE  Projected' = Append(Projected, Reference!NextRow(Projected, signal, return))
<1>1. PICK row : row = Observation(state, signal, return)
  OBVIOUS
<1>2. /\ state \in ReplayStates /\ ledger \in Seq(Observations) /\ Unfinished
  BY DEF ReplayInv, ReplayTypes, Replaying, Bar, Unfinished
<1>3. row \in Observations
  BY <1>1, <1>2, ObservationTypes
<1>4. ledger' = Append(ledger, row)
  BY <1>1 DEF Advance
<1>5. /\ ledger' \in Seq(Observations) /\ Len(ledger') = Len(ledger) + 1
      /\ ledger'[Len(ledger) + 1] = row
      /\ \A k \in 1..Len(ledger) : ledger'[k] = ledger[k]
  BY <1>2, <1>3, <1>4, Appended
<1>6. /\ Projected = [i \in 1..Len(ledger) |-> RowOf(ledger[i])]
      /\ Projected' = [i \in 1..Len(ledger') |-> RowOf(ledger'[i])]
  BY DEF Projected, RowOf
<1>7. Projected' = Append(Projected, RowOf(row))
  BY <1>2, <1>3, <1>5, <1>6, ProjectedGrows
<1>8. /\ Projected \in Seq(RefRows) /\ Len(Projected) = Len(ledger)
      /\ \A i \in 1..Len(ledger) : Projected[i] = RowOf(ledger[i])
  BY <1>2, <1>6, ProjectedRows
<1>9. PICK last : last = Reference!Before(Projected)
  OBVIOUS
<1>10. /\ last.target = state.target /\ last.available = state.available
       /\ last.position = state.executed
  <2>1. CASE ledger = <<>>
    <3>1. Projected = <<>> /\ state = NeutralState
      BY <1>2, <1>8, <2>1 DEF ReplayInv, StateCarries
    <3>2. QED
      BY <1>9, <3>1, NeutralIsState DEF Reference!Before
  <2>2. CASE ledger # <<>>
    <3>1. Len(ledger) \in 1..Len(ledger) /\ Projected # <<>>
      BY <1>2, <1>8, <2>2
    <3>2. last = RowOf(ledger[Len(ledger)])
      BY <1>8, <1>9, <3>1 DEF Reference!Before
    <3>3. /\ state.executed = ledger[Len(ledger)].executed
          /\ state.target = ledger[Len(ledger)].target
          /\ state.available = ledger[Len(ledger)].available
      BY <1>2, <2>2 DEF ReplayInv, StateCarries
    <3>4. QED
      BY <3>2, <3>3 DEF RowOf
  <2>3. QED
    BY <2>1, <2>2
<1>11. RowOf(row) = Reference!NextRow(Projected, signal, return)
  BY <1>1, <1>9, <1>10 DEF RowOf, Observation, Distance, Reference!NextRow, Reference!Distance
<1>12. QED
  BY <1>7, <1>11

\* A bar extends the reference by a row, opening a window starts a fold of it,
\* and every other step leaves it alone.
LEMMA StepsReplayReference ==
  ReplayInv /\ [Next]_vars => [Reference!Next]_Projected
<1> SUFFICES ASSUME ReplayInv, [Next]_vars
             PROVE  Reference!Next \/ Projected' = Projected
  OBVIOUS
<1>1. CASE ledger' = ledger
  BY <1>1, SameProjection
<1>2. CASE MapFold /\ ledger' # ledger
  <2>1. ledger' = <<>>
    BY <1>2 DEF MapFold, Fault, OpenWindow
  <2>2. Projected' = <<>>
    BY <2>1 DEF Projected
  <2>3. QED
    BY <2>2 DEF Reference!Next, Reference!NewFold
<1>3. CASE ReplayStep /\ ledger' # ledger
  <2>1. PICK signal \in Signals, return \in Returns : Replaying /\ Advance(signal, return)
    BY <1>3, BarOutcome DEF ReplayStep, Fault
  <2>2. Projected' = Append(Projected, Reference!NextRow(Projected, signal, return))
    BY <2>1, AdvanceExtends
  <2>3. signal \in Reference!Signals
    BY DEF Signals, Positions, Reference!Signals, Reference!Positions
  <2>4. QED
    BY <2>2, <2>3 DEF Reference!Next, Reference!Extend
<1>4. QED
  BY <1>1, <1>2, <1>3 DEF Next, CloseFold, Aggregate, Fault, vars, replayVars

\* The replay with its orders and pending state gives, row for row and in
\* every fold, what the vectorised reference of the Day 11 study computes from
\* the signals alone (the parity that PARITY_MAPPINGS compares).
THEOREM ReplayImplementsReference == Spec => ReplaysTheReference
<1>1. Init => Reference!Init
  BY DEF Init, Projected, Reference!Init
<1>2. ReplayInv /\ [Next]_vars => [Reference!Next]_Projected
  BY StepsReplayReference
<1>3. QED
  BY <1>1, <1>2, ReplayInvariant, PTL DEF Spec, ReplaysTheReference, Reference!Spec

-----------------------------------------------------------------------------
(* The boundaries of a fold *)

Less == {r \in Nat \X Nat : r[1] < r[2]}

\* A set of naturals has a least member.
LEMMA LeastOf ==
  ASSUME NEW S, S \subseteq Nat, S # {}
  PROVE  Min(S) \in S /\ \A y \in S : Min(S) <= y
<1>1. IsWellFoundedOn(Less, Nat)
  BY NatLessThanWellFounded, Zenon DEF OpToRel, Less
<1>2. PICK x \in S : \A y \in S : ~(<<y, x>> \in Less)
  BY <1>1, WFMin
<1>3. ASSUME NEW y \in S PROVE x <= y
  <2>1. x \in Nat /\ y \in Nat
    OBVIOUS
  <2>2. y < x => <<y, x>> \in Less
    BY <2>1 DEF Less
  <2>3. QED
    BY <1>2, <2>1, <2>2
<1>4. QED
  BY <1>3 DEF Min

\* And a finite one has a greatest.
LEMMA GreatestOf ==
  ASSUME NEW S, S \subseteq Nat, S # {}, IsFiniteSet(S)
  PROVE  Max(S) \in S /\ \A y \in S : Max(S) >= y
<1> DEFINE Bad == {T \in SUBSET S : T # {} /\ ~\E x \in T : \A y \in T : x >= y}
<1>1. IsWellFoundedOn(StrictSubsetOrdering(S), SUBSET S)
  BY FS_StrictSubsetOrderingWellFounded, FS_FiniteSubsetsOfFinite
<1>2. ASSUME Bad # {}
      PROVE  FALSE
  <2>1. Bad \subseteq SUBSET S
    OBVIOUS
  <2>2. PICK T \in Bad : \A U \in Bad : ~(<<U, T>> \in StrictSubsetOrdering(S))
    <3> HIDE DEF Bad
    <3>1. QED
      BY <1>1, <1>2, <2>1, WFMin
  <2>3. PICK t \in T : TRUE
    OBVIOUS
  <2>4. /\ T \ {t} \in SUBSET S /\ T \in SUBSET S
        /\ T \ {t} \subseteq T /\ T \ {t} # T /\ t \in Nat
    BY <2>1, <2>2, <2>3
  <2>5. <<T \ {t}, T>> \in StrictSubsetOrdering(S)
    BY <2>4 DEF StrictSubsetOrdering
  <2>6. T \ {t} = {} \/ \E x \in T \ {t} : \A y \in T \ {t} : x >= y
    BY <2>2, <2>4, <2>5
  <2>7. \E x \in T : \A y \in T : x >= y
    <3>1. CASE T \ {t} = {}
      BY <2>3, <2>4, <3>1
    <3>2. CASE \E x \in T \ {t} : \A y \in T \ {t} : x >= y
      <4>1. PICK x \in T \ {t} : \A y \in T \ {t} : x >= y
        BY <3>2
      <4>2. x \in Nat
        BY <2>4
      <4>3. CASE x >= t
        BY <4>1, <4>3
      <4>4. CASE t >= x
        <5>1. \A y \in T : y \in Nat
          BY <2>4
        <5>2. \A y \in T : t >= y
          BY <2>4, <4>1, <4>2, <4>4, <5>1
        <5>3. QED
          BY <2>3, <5>2
      <4>5. QED
        BY <2>4, <4>2, <4>3, <4>4
    <3>3. QED
      BY <2>6, <3>1, <3>2
  <2>8. QED
    BY <2>2, <2>7
<1>3. \E x \in S : \A y \in S : x >= y
  BY <1>2
<1>4. QED
  BY <1>3 DEF Max

LEMMA Quotient ==
  ASSUME NEW t \in Nat, NEW k \in Nat \ {0}
  PROVE  t \div k \in Nat /\ k * (t \div k) <= t /\ t < k * (t \div k) + k
OBVIOUS

LEMMA Scaled ==
  ASSUME NEW a \in Nat, NEW b \in Nat, a <= b, NEW k \in Nat
  PROVE  k * a <= k * b
OBVIOUS

LEMMA YearStarts ==
  ASSUME NEW y \in Nat
  PROVE  YearStart(y) = Slots * (Days * y) /\ YearStart(y) \in Nat
<1>1. Days \in Nat /\ Slots \in Nat
  BY WalkForwardAssumption
<1>2. PICK n \in Nat : n = y * Days
  BY <1>1
<1>3. Days * y = n /\ n * Slots = Slots * n /\ n * Slots \in Nat
  BY <1>1, <1>2
<1>4. QED
  BY <1>2, <1>3 DEF YearStart

LEMMA YearsAscend ==
  ASSUME NEW y \in Nat, NEW z \in Nat, y <= z
  PROVE  YearStart(y) <= YearStart(z)
<1>1. Days \in Nat /\ Slots \in Nat
  BY WalkForwardAssumption
<1>2. Days * y <= Days * z /\ Days * y \in Nat /\ Days * z \in Nat
  BY <1>1, Scaled
<1>3. Slots * (Days * y) <= Slots * (Days * z)
  BY <1>1, <1>2, Scaled
<1>4. QED
  BY <1>3, YearStarts

\* A bar lies in its year.
LEMMA YearBounds ==
  ASSUME NEW t \in Nat
  PROVE  /\ Year(t) \in Nat
         /\ YearStart(Year(t)) <= t /\ t < YearStart(Year(t) + 1)
<1>1. Days \in Nat \ {0} /\ Slots \in Nat \ {0}
  BY WalkForwardAssumption
<1>2. PICK d : d = t \div Slots
  OBVIOUS
<1>3. d \in Nat /\ Slots * d <= t /\ t < Slots * d + Slots
  BY <1>1, <1>2, Quotient
<1>4. PICK y : y = d \div Days
  OBVIOUS
<1>5. y \in Nat /\ Days * y <= d /\ d < Days * y + Days
  BY <1>1, <1>3, <1>4, Quotient
<1>6. Year(t) = y
  BY <1>2, <1>4 DEF Year, Day
<1>7. PICK m \in Nat : m = Days * y
  BY <1>1, <1>5
<1>8. Slots * m <= Slots * d /\ Slots * m \in Nat /\ Slots * d \in Nat
  BY <1>1, <1>3, <1>5, <1>7, Scaled
<1>9. PICK n \in Nat : n = Days * (y + 1)
  BY <1>1, <1>5
<1>10. n = m + Days
  BY <1>1, <1>5, <1>7, <1>9
<1>11. d + 1 <= n
  BY <1>1, <1>3, <1>5, <1>7, <1>10
<1>12. Slots * (d + 1) <= Slots * n /\ Slots * n \in Nat
  BY <1>1, <1>3, <1>11, Scaled
<1>13. Slots * (d + 1) = Slots * d + Slots
  BY <1>1, <1>3
<1>14. YearStart(y) = Slots * m /\ YearStart(y + 1) = Slots * n
  <2>1. YearStart(y) = Slots * m
    BY <1>5, <1>7, YearStarts
  <2>2. y + 1 \in Nat
    BY <1>5
  <2>3. QED
    BY <1>9, <2>1, <2>2, YearStarts
<1>15. Slots * m <= t
  BY <1>1, <1>3, <1>8
<1>16. t < Slots * n
  BY <1>1, <1>3, <1>8, <1>12, <1>13
<1>17. QED
  BY <1>5, <1>6, <1>14, <1>15, <1>16

LEMMA LaterYear ==
  ASSUME NEW t \in Nat, NEW u \in Nat, Year(t) < Year(u)
  PROVE  t < u
<1>1. /\ Year(t) \in Nat /\ Year(u) \in Nat
      /\ t < YearStart(Year(t) + 1) /\ YearStart(Year(u)) <= u
  BY YearBounds
<1>2. Year(t) + 1 \in Nat /\ Year(t) + 1 <= Year(u)
  BY <1>1
<1>3. YearStart(Year(t) + 1) <= YearStart(Year(u))
  BY <1>1, <1>2, YearsAscend
<1>4. YearStart(Year(t) + 1) \in Nat /\ YearStart(Year(u)) \in Nat
  BY <1>1, <1>2, YearStarts
<1>5. QED
  BY <1>1, <1>3, <1>4

\* The calendar edges of a fold fit its year, and its training history and
\* test sessions resolve to a window.
LEMMA FoldsFit ==
  ASSUME calendar \in Calendars, NEW y \in FirstTest..LastTest
  PROVE  /\ FitsFold(y, Test(y))
         /\ Resolves(FoldInput(y), EvaluationStart(Test(y)), EvaluationEnd(Test(y)))
<1>1. /\ calendar \subseteq Nat /\ IsFiniteSet(calendar)
      /\ \E t \in calendar : Year(t) = y
  BY CalendarAssumption
<1>2. y \in Nat
  BY WalkForwardAssumption
<1>3. PICK B : B = Test(y)
  OBVIOUS
<1>4. PICK A : A = FoldInput(y)
  OBVIOUS
<1>5. \A t : t \in B <=> t \in calendar /\ Year(t) = y
  BY <1>3 DEF Test
<1>6. \A t \in calendar : Year(t) \in Nat
  BY <1>1, YearBounds
<1>7. \A t : t \in A <=> t \in calendar /\ Year(t) <= y
  BY <1>2, <1>4, <1>6 DEF FoldInput, Train, Test
<1>8. /\ B # {} /\ B \subseteq Nat /\ IsFiniteSet(B) /\ B \subseteq A
      /\ A # {} /\ A \subseteq Nat /\ IsFiniteSet(A)
  <2>1. B \subseteq A /\ B # {} /\ A \subseteq calendar /\ A \subseteq Nat
    <3>1. y <= y
      BY <1>2
    <3>2. \A t : t \in B => t \in A
      BY <1>5, <1>7, <3>1
    <3>3. B # {}
      BY <1>1, <1>5
    <3>4. \A t : t \in A => t \in calendar
      BY <1>7
    <3>5. QED
      BY <1>1, <3>2, <3>3, <3>4
  <2>2. IsFiniteSet(A)
    BY <1>1, <2>1, FS_Subset
  <2>3. QED
    BY <2>1, <2>2, FS_Subset
<1>9. PICK first : first = Min(B)
  OBVIOUS
<1>10. PICK last : last = Max(B)
  OBVIOUS
<1>11. /\ first \in B /\ last \in B /\ first \in Nat /\ last \in Nat
       /\ \A t \in B : first <= t /\ t <= last
  BY <1>8, <1>9, <1>10, LeastOf, GreatestOf
<1>12. EvaluationStart(B) = first /\ EvaluationEnd(B) = last + 1
  BY <1>9, <1>10 DEF EvaluationStart, EvaluationEnd
<1>13. /\ Min(A) \in A /\ \A t \in A : Min(A) <= t
       /\ Max(A) \in A /\ \A t \in A : t <= Max(A)
  BY <1>8, LeastOf, GreatestOf
<1>14. \A t \in A : t <= last
  <2> SUFFICES ASSUME NEW t \in A
               PROVE  t <= last
    OBVIOUS
  <2>1. t \in Nat /\ Year(t) \in Nat /\ Year(t) <= y /\ Year(last) = y
    BY <1>5, <1>6, <1>7, <1>8, <1>11
  <2>2. CASE Year(t) = y
    BY <1>5, <1>7, <1>11, <2>2
  <2>3. CASE Year(t) < y
    <3>1. t < last
      BY <1>11, <2>1, <2>3, LaterYear
    <3>2. QED
      BY <1>11, <2>1, <3>1
  <2>4. QED
    BY <1>2, <2>1, <2>2, <2>3
<1>15. Max(A) = last
  <2>1. Max(A) <= last /\ last <= Max(A) /\ Max(A) \in Nat
    BY <1>8, <1>11, <1>13, <1>14
  <2>2. QED
    BY <1>11, <2>1
<1>16. \A S : S \subseteq Nat /\ first \in S /\ (\A u \in S : Day(u) = Day(first) => first <= u)
              => FirstOfDay(S, first) = first
  <2> SUFFICES ASSUME NEW S, S \subseteq Nat, first \in S,
                      \A u \in S : Day(u) = Day(first) => first <= u
               PROVE  FirstOfDay(S, first) = first
    OBVIOUS
  <2>1. PICK T : T = {u \in S : Day(u) = Day(first)}
    OBVIOUS
  <2>2. T \subseteq Nat /\ first \in T /\ \A u \in T : first <= u
    BY <2>1
  <2>3. Min(T) \in T /\ \A u \in T : Min(T) <= u
    BY <2>2, LeastOf
  <2>4. Min(T) <= first /\ first <= Min(T) /\ Min(T) \in Nat
    BY <2>2, <2>3
  <2>5. Min(T) = first
    BY <1>11, <2>4
  <2>6. QED
    BY <2>1, <2>5 DEF FirstOfDay
<1>17. \A t, u : Day(t) = Day(u) => Year(t) = Year(u)
  BY DEF Year
<1>18. FirstOfDay(B, first) = first
  BY <1>8, <1>11, <1>16
<1>19. FirstOfDay(A, first) = first
  <2>1. \A u \in A : Day(u) = Day(first) => first <= u
    BY <1>5, <1>7, <1>11, <1>17
  <2>2. QED
    BY <1>8, <1>11, <1>16, <2>1
<1>20. first < last + 1 /\ first <= last
  BY <1>11
<1>21. first >= YearStart(y) /\ last + 1 <= YearStart(y + 1)
  <2>1. Year(first) = y /\ Year(last) = y
    BY <1>5, <1>11
  <2>2. YearStart(y) <= first /\ last < YearStart(y + 1)
    BY <1>11, <2>1, YearBounds
  <2>3. YearStart(y) \in Nat /\ YearStart(y + 1) \in Nat
    BY <1>2, YearStarts
  <2>4. QED
    BY <1>11, <2>2, <2>3
<1>22. FitsFold(y, B)
  BY <1>12, <1>18, <1>20, <1>21 DEF FitsFold
<1>23. \A t : t \in Window(A, first, last + 1) <=> t \in A /\ first <= t
  <2>1. \A t \in A : t < last + 1
    BY <1>8, <1>11, <1>14
  <2>2. QED
    BY <2>1 DEF Window
<1>24. \A t \in Window(A, first, last + 1), u \in A :
         Day(u) = Day(t) => u \in Window(A, first, last + 1)
  <2> SUFFICES ASSUME NEW t \in A, first <= t, NEW u \in A, Day(u) = Day(t)
               PROVE  first <= u
    BY <1>23
  <2>1. /\ t \in Nat /\ u \in Nat /\ Year(t) \in Nat /\ Year(t) <= y
        /\ Year(u) = Year(t) /\ Year(first) = y
    BY <1>5, <1>6, <1>7, <1>8, <1>11, <1>17
  <2>2. ~(Year(t) < y)
    <3>1. Year(t) < y => t < first
      BY <1>11, <2>1, LaterYear
    <3>2. QED
      BY <1>11, <2>1, <3>1
  <2>3. Year(u) = y
    BY <1>2, <2>1, <2>2
  <2>4. QED
    BY <1>5, <1>7, <1>11, <2>3
<1>25. Resolves(A, first, last + 1)
  <2>1. Min(A) <= first /\ first <= Max(A)
    BY <1>8, <1>11, <1>13
  <2>2. Min(A) < last + 1 /\ last + 1 <= Max(A) + 1
    <3>1. Min(A) \in Nat
      BY <1>8, <1>13
    <3>2. QED
      BY <1>11, <1>15, <1>20, <2>1, <3>1
  <2>3. first \in SessionStarts(A) /\ last + 1 \in SessionStarts(A) \cup {Max(A) + 1}
    BY <1>8, <1>11, <1>15, <1>19 DEF SessionStarts
  <2>4. Window(A, first, last + 1) # {}
    BY <1>8, <1>11, <1>23
  <2>5. QED
    BY <1>20, <1>24, <2>1, <2>2, <2>3, <2>4 DEF Resolves
<1>26. QED
  BY <1>3, <1>4, <1>12, <1>22, <1>25

-----------------------------------------------------------------------------
(* The evidence of a window *)

\* The rows chain: each earns on the equity that the one before it left, holds
\* what that one signalled, and the first of a window starts from nothing.
Chained(l) ==
  /\ \A k \in 1..Len(l) :
       l[k].ending = (IF k = 1 THEN 1 ELSE l[k - 1].ending) * (Scale + l[k].net)
  /\ \A k \in 2..Len(l) : l[k].executed = l[k - 1].target
StartsFlat(first) ==
  /\ first.previous = 0 /\ first.executed = 0 /\ ~first.eligible
  /\ first.turnover = 0 /\ first.cost = 0 /\ first.opening = 1
  /\ first.cash = Scale /\ first.holdings = 0 /\ first.ending = Scale

\* The folds are those of the test years, and only a ruin ends them early.
FoldInv == /\ phase \in {"map", "replay"} => fold \in FirstTest..LastTest
           /\ phase \notin {"boundaries", "evidence"}

EvidenceInv == /\ Chained(ledger)
               /\ ledger # <<>> => StartsFlat(ledger[1])
               /\ FoldInv

LEMMA NeutralRow ==
  ASSUME NEW signal \in Signals, NEW return \in Returns,
         NEW row, row = Observation(NeutralState, signal, return)
  PROVE  StartsFlat(row)
<1>1. Cost \in Int /\ Scale \in Int /\ return \in Int
  BY ReplayAssumption
<1>2. /\ row.target = signal.target /\ row.available = signal.available
      /\ row.eligible = FALSE /\ row.previous = 0 /\ row.executed = 0
      /\ row.turnover = Distance(0, 0)
      /\ row.cost = row.turnover * Cost
      /\ row.gross = 0 * return
      /\ row.net = row.gross - row.cost
      /\ row.opening = 1
      /\ row.cash = 1 * (Scale * (1 - 0) - row.cost)
      /\ row.holdings = 0 * 1 * (Scale + return)
      /\ row.ending = 1 * (Scale + row.gross - row.cost)
  BY NeutralIsState, ObservationTypes
<1>3. row.turnover = 0
  BY <1>2 DEF Distance
<1>4. row.cost = 0 /\ row.gross = 0
  BY <1>1, <1>2, <1>3
<1>5. row.cash = Scale /\ row.holdings = 0 /\ row.ending = Scale
  BY <1>1, <1>2, <1>4
<1>6. QED
  BY <1>2, <1>3, <1>4, <1>5 DEF StartsFlat

LEMMA ChainGrows ==
  ASSUME NEW l \in Seq(Observations), Chained(l),
         NEW m \in Seq(Observations), Len(m) = Len(l) + 1,
         \A k \in 1..Len(l) : m[k] = l[k],
         NEW row, m[Len(l) + 1] = row,
         row.ending = (IF l = <<>> THEN 1 ELSE l[Len(l)].ending) * (Scale + row.net),
         l # <<>> => row.executed = l[Len(l)].target
  PROVE  Chained(m)
<1>1. PICK n : n = Len(l)
  OBVIOUS
<1>2. /\ n \in Nat /\ Len(m) = n + 1
      /\ \A k \in 1..n : m[k] = l[k]
      /\ m[n + 1] = row
      /\ l = <<>> <=> n = 0
  BY <1>1
<1>3. ASSUME NEW k \in 1..(n + 1)
      PROVE  m[k].ending = (IF k = 1 THEN 1 ELSE m[k - 1].ending) * (Scale + m[k].net)
  <2>1. CASE k \in 1..n
    <3>1. k # 1 => k - 1 \in 1..n
      BY <1>2, <2>1
    <3>2. m[k] = l[k] /\ (k # 1 => m[k - 1] = l[k - 1])
      BY <1>2, <2>1, <3>1
    <3>3. l[k].ending = (IF k = 1 THEN 1 ELSE l[k - 1].ending) * (Scale + l[k].net)
      BY <1>1, <2>1, Zenon DEF Chained
    <3>4. QED
      BY <3>2, <3>3
  <2>2. CASE k = n + 1
    <3>1. k # 1 => n # 0 /\ k - 1 = n /\ n \in 1..n
      BY <1>2, <2>2
    <3>2. k # 1 => m[k - 1] = l[n]
      BY <1>2, <3>1
    <3>3. k = 1 <=> l = <<>>
      BY <1>2, <2>2
    <3>4. m[k] = row
      BY <1>2, <2>2
    <3>5. QED
      BY <1>1, <3>2, <3>3, <3>4
  <2>3. QED
    BY <1>2, <1>3, <2>1, <2>2
<1>4. ASSUME NEW k \in 2..(n + 1)
      PROVE  m[k].executed = m[k - 1].target
  <2>1. CASE k \in 2..n
    <3>1. k \in 1..n /\ k - 1 \in 1..n
      BY <1>2, <2>1
    <3>2. m[k] = l[k] /\ m[k - 1] = l[k - 1]
      BY <1>2, <3>1
    <3>3. l[k].executed = l[k - 1].target
      BY <1>1, <2>1, Zenon DEF Chained
    <3>4. QED
      BY <3>2, <3>3
  <2>2. CASE k = n + 1
    <3>1. k - 1 = n /\ n \in 1..n /\ n # 0
      BY <1>2, <1>4, <2>2
    <3>2. m[k - 1] = l[n] /\ m[k] = row /\ l # <<>>
      BY <1>2, <2>2, <3>1
    <3>3. QED
      BY <1>1, <3>2
  <2>3. QED
    BY <1>2, <1>4, <2>1, <2>2
<1>5. QED
  BY <1>2, <1>3, <1>4 DEF Chained

LEMMA AdvanceChains ==
  ASSUME ReplayInv, Replaying, EvidenceInv,
         NEW signal \in Signals, NEW return \in Returns, Advance(signal, return)
  PROVE  Chained(ledger') /\ (ledger' # <<>> => StartsFlat(ledger'[1]))
<1>1. PICK row : row = Observation(state, signal, return)
  OBVIOUS
<1>2. /\ state \in ReplayStates /\ ledger \in Seq(Observations) /\ Unfinished
  BY DEF ReplayInv, ReplayTypes, Replaying, Bar, Unfinished
<1>3. /\ row \in Observations /\ row.executed = state.target
      /\ row.net = row.gross - row.cost
      /\ row.ending = state.equity * (Scale + row.gross - row.cost)
  BY <1>1, <1>2, ObservationTypes
<1>4. ledger' = Append(ledger, row)
  BY <1>1 DEF Advance
<1>5. /\ ledger' \in Seq(Observations) /\ Len(ledger') = Len(ledger) + 1
      /\ ledger'[Len(ledger) + 1] = row
      /\ \A k \in 1..Len(ledger) : ledger'[k] = ledger[k]
  BY <1>2, <1>3, <1>4, Appended
<1>6. /\ ledger = <<>> => state = NeutralState
      /\ ledger # <<>> => /\ state.target = ledger[Len(ledger)].target
                          /\ state.equity = ledger[Len(ledger)].ending
  BY <1>2 DEF ReplayInv, StateCarries
<1>7. Scale + row.net = Scale + row.gross - row.cost
  <2>1. row.gross \in Int /\ row.cost \in Int /\ Scale \in Int
    BY <1>3, ReplayAssumption DEF Observations
  <2>2. QED
    BY <1>3, <2>1
<1>8. row.ending = (IF ledger = <<>> THEN 1 ELSE ledger[Len(ledger)].ending)
                   * (Scale + row.net)
  BY <1>3, <1>6, <1>7, NeutralIsState
<1>9. ledger # <<>> => row.executed = ledger[Len(ledger)].target
  BY <1>3, <1>6
<1>10. Chained(ledger)
  BY DEF EvidenceInv
<1>11. Chained(ledger')
  BY <1>2, <1>5, <1>8, <1>9, <1>10, ChainGrows
<1>12. StartsFlat(ledger'[1])
  <2>1. CASE ledger = <<>>
    <3>1. ledger'[1] = row
      BY <1>2, <1>5, <2>1
    <3>2. StartsFlat(row)
      BY <1>1, <1>6, <2>1, NeutralRow
    <3>3. QED
      BY <3>1, <3>2
  <2>2. CASE ledger # <<>>
    <3>1. ledger'[1] = ledger[1]
      BY <1>2, <1>5, <2>2
    <3>2. QED
      BY <2>2, <3>1 DEF EvidenceInv
  <2>3. QED
    BY <2>1, <2>2
<1>13. QED
  BY <1>11, <1>12

\* The fold that the wealth index is: FoldLeft takes the last index out of the
\* domain, then the last of the rest.
WealthStep(q, n, h) ==
  [S \in SUBSET (1..n) |->
     IF S = {} THEN 1 ELSE h[S \ {Max(S)}] * (Scale + q[Max(S)].net)]

LEMMA WealthIsFold ==
  ASSUME NEW q, NEW n, DOMAIN q = 1..n
  PROVE  FoldLeft(LAMBDA w, row : w * (Scale + row.net), 1, q)
         = (CHOOSE h : h = WealthStep(q, n, h))[1..n]
BY DEF FoldLeft, MapThenFoldSet, WealthStep

LEMMA MaxOfSome ==
  ASSUME NEW n \in Nat, NEW S \in SUBSET (1..n), S # {}
  PROVE  /\ Max(S) \in S /\ S \ {Max(S)} \in SUBSET (1..n)
         /\ n \in S => Max(S) = n
<1>1. IsFiniteSet(S)
  <2>1. 1 \in Int /\ n \in Int
    OBVIOUS
  <2>2. IsFiniteSet(1..n)
    BY <2>1, FS_Interval
  <2>3. QED
    BY <2>2, FS_Subset
<1>2. /\ S \subseteq Nat
      /\ \A y \in S : y \in Nat /\ y <= n
  OBVIOUS
<1>3. Max(S) \in S /\ \A y \in S : Max(S) >= y
  BY <1>1, <1>2, GreatestOf
<1>4. n \in S => Max(S) = n
  <2>1. n \in S => Max(S) >= n
    BY <1>3
  <2>2. Max(S) <= n /\ Max(S) \in Nat
    BY <1>2, <1>3
  <2>3. QED
    BY <2>1, <2>2
<1>5. QED
  BY <1>3, <1>4

\* A function that satisfies the recursion exists: one for m - 1 indices gives
\* one for m, so there is no least m without.
LEMMA WealthExists ==
  ASSUME NEW q, NEW n \in Nat
  PROVE  \E h : h = WealthStep(q, n, h)
<1> DEFINE Bad == {m \in Nat : ~\E h : h = WealthStep(q, m, h)}
<1>1. ASSUME Bad # {}
      PROVE  FALSE
  <2>1. PICK m : m = Min(Bad)
    OBVIOUS
  <2>2. m \in Bad /\ m \in Nat /\ \A k \in Bad : m <= k
    <3>1. Bad \subseteq Nat
      OBVIOUS
    <3>2. Min(Bad) \in Bad /\ \A k \in Bad : Min(Bad) <= k
      <4> HIDE DEF Bad
      <4>1. QED
        BY <1>1, <3>1, LeastOf
    <3>3. QED
      BY <2>1, <3>1, <3>2
  <2>3. CASE m = 0
    <3> DEFINE h == [S \in SUBSET (1..0) |-> 1]
    <3>1. \A S \in SUBSET (1..0) : S = {}
      OBVIOUS
    <3>2. h = WealthStep(q, 0, h)
      BY <3>1 DEF WealthStep
    <3>3. QED
      BY <2>2, <2>3, <3>2
  <2>4. CASE m # 0
    <3>1. m - 1 \in Nat /\ m - 1 \notin Bad
      BY <2>2, <2>4
    <3>2. PICK g : g = WealthStep(q, m - 1, g)
      BY <3>1
    <3>3. \A S \in SUBSET (1..(m - 1)) :
            g[S] = IF S = {} THEN 1 ELSE g[S \ {Max(S)}] * (Scale + q[Max(S)].net)
      BY <3>2 DEF WealthStep
    <3> DEFINE h == [S \in SUBSET (1..m) |->
                       IF m \in S THEN g[S \ {m}] * (Scale + q[m].net) ELSE g[S]]
    <3>4. ASSUME NEW S \in SUBSET (1..m)
          PROVE  h[S] = IF S = {} THEN 1 ELSE h[S \ {Max(S)}] * (Scale + q[Max(S)].net)
      <4>1. CASE S = {}
        BY <3>3, <4>1
      <4>2. CASE m \in S
        <5>1. Max(S) = m /\ S \ {m} \in SUBSET (1..m) /\ m \notin S \ {m}
          BY <2>2, <4>2, MaxOfSome
        <5>2. QED
          BY <4>2, <5>1
      <4>3. CASE S # {} /\ m \notin S
        <5>1. S \in SUBSET (1..(m - 1))
          BY <2>2, <4>3
        <5>2. /\ Max(S) \in S /\ S \ {Max(S)} \in SUBSET (1..m)
              /\ m \notin S \ {Max(S)}
          BY <2>2, <4>3, MaxOfSome
        <5>3. h[S \ {Max(S)}] = g[S \ {Max(S)}] /\ h[S] = g[S]
          BY <4>3, <5>2
        <5>4. QED
          BY <3>3, <4>3, <5>1, <5>3
      <4>4. QED
        BY <4>1, <4>2, <4>3
    <3>5. h = WealthStep(q, m, h)
      BY <3>4 DEF WealthStep
    <3>6. QED
      BY <2>2, <3>5
  <2>5. QED
    BY <2>3, <2>4
<1>2. n \notin Bad
  BY <1>1
<1>3. QED
  BY <1>2

\* On the prefixes the recursion gives the equities that chain.
LEMMA WealthOfPrefix ==
  ASSUME NEW q, NEW n \in Nat, NEW h, h = WealthStep(q, n, h), NEW e,
         \A k \in 1..n : e[k] = (IF k = 1 THEN 1 ELSE e[k - 1]) * (Scale + q[k].net)
  PROVE  \A k \in 0..n : h[1..k] = IF k = 0 THEN 1 ELSE e[k]
<1>1. \A S \in SUBSET (1..n) :
        h[S] = IF S = {} THEN 1 ELSE h[S \ {Max(S)}] * (Scale + q[Max(S)].net)
  BY DEF WealthStep
<1> DEFINE Bad == {k \in 0..n : h[1..k] # IF k = 0 THEN 1 ELSE e[k]}
<1>2. ASSUME Bad # {}
      PROVE  FALSE
  <2>1. PICK k : k = Min(Bad)
    OBVIOUS
  <2>2. k \in Bad /\ k \in 0..n /\ \A l \in Bad : k <= l
    <3>1. Bad \subseteq Nat /\ Bad \subseteq 0..n
      OBVIOUS
    <3>2. Min(Bad) \in Bad /\ \A l \in Bad : Min(Bad) <= l
      <4> HIDE DEF Bad
      <4>1. QED
        BY <1>2, <3>1, LeastOf
    <3>3. QED
      BY <2>1, <3>1, <3>2
  <2>3. CASE k = 0
    <3>1. 1..0 = {} /\ {} \in SUBSET (1..n)
      OBVIOUS
    <3>2. h[1..0] = 1
      BY <1>1, <3>1
    <3>3. QED
      BY <2>2, <2>3, <3>2
  <2>4. CASE k # 0
    <3>1. k \in 1..n /\ k \in Nat /\ k - 1 \in 0..n /\ k - 1 \in Nat
      BY <2>2, <2>4
    <3>2. k - 1 \notin Bad
      BY <2>2, <3>1
    <3>3. h[1..(k - 1)] = IF k = 1 THEN 1 ELSE e[k - 1]
      BY <3>1, <3>2
    <3>4. 1..k \in SUBSET (1..n) /\ 1..k # {} /\ (1..k) \ {k} = 1..(k - 1)
      BY <3>1
    <3>5. Max(1..k) = k
      <4>1. 1..k \in SUBSET (1..k) /\ k \in 1..k
        BY <3>1
      <4>2. QED
        BY <3>1, <3>4, <4>1, MaxOfSome
    <3>6. h[1..k] = h[1..(k - 1)] * (Scale + q[k].net)
      BY <1>1, <3>4, <3>5
    <3>7. h[1..k] = e[k]
      BY <3>1, <3>3, <3>6
    <3>8. QED
      BY <2>2, <2>4, <3>7
  <2>5. QED
    BY <2>3, <2>4
<1>3. \A k \in 0..n : k \notin Bad
  BY <1>2
<1>4. QED
  BY <1>3

\* The wealth index of chained rows is their ending equity.
LEMMA WealthOfChain ==
  ASSUME ledger \in Seq(Observations), Chained(ledger), NEW n \in 1..Len(ledger)
  PROVE  Wealth(n) = ledger[n].ending
<1>1. PICK q : q = SubSeq(ledger, 1, n)
  OBVIOUS
<1>2. n \in Nat /\ n # 0 /\ n \in 0..n
  OBVIOUS
<1>3. DOMAIN q = 1..n /\ \A k \in 1..n : q[k] = ledger[k]
  BY <1>1
<1> DEFINE e == [k \in 1..n |-> ledger[k].ending]
<1>4. \A k \in 1..n : e[k] = (IF k = 1 THEN 1 ELSE e[k - 1]) * (Scale + q[k].net)
  <2> SUFFICES ASSUME NEW k \in 1..n
               PROVE  e[k] = (IF k = 1 THEN 1 ELSE e[k - 1]) * (Scale + q[k].net)
    OBVIOUS
  <2>1. k \in 1..Len(ledger) /\ (k # 1 => k - 1 \in 1..n)
    BY <1>2
  <2>2. ledger[k].ending
          = (IF k = 1 THEN 1 ELSE ledger[k - 1].ending) * (Scale + ledger[k].net)
    BY <2>1, Zenon DEF Chained
  <2>3. QED
    BY <1>3, <2>1, <2>2
<1>5. PICK h : h = (CHOOSE g : g = WealthStep(q, n, g))
  OBVIOUS
<1>6. h = WealthStep(q, n, h)
  BY <1>2, <1>5, WealthExists
<1>7. h[1..n] = e[n]
  <2> HIDE DEF e
  <2>1. \A k \in 0..n : h[1..k] = IF k = 0 THEN 1 ELSE e[k]
    BY <1>2, <1>4, <1>6, WealthOfPrefix
  <2>2. QED
    BY <1>2, <2>1
<1>8. FoldLeft(LAMBDA w, row : w * (Scale + row.net), 1, q)
      = (CHOOSE g : g = WealthStep(q, n, g))[1..n]
  BY <1>3, WealthIsFold
<1>9. Wealth(n) = h[1..n]
  BY <1>1, <1>5, <1>8 DEF Wealth
<1>10. QED
  BY <1>7, <1>9

\* As many events of a kind as bars: the bars and those events pair off.
LEMMA CountLogged ==
  ASSUME NEW n \in Nat, LoggedUpTo(n), NEW type \in EventKinds
  PROVE  CountOf(type) = n
<1> DEFINE K == {k \in DOMAIN events : events[k].type = type}
           f == [b \in 1..n |-> CHOOSE k \in K : events[k].bar = b]
<1>1. ASSUME NEW b \in 1..n
      PROVE  f[b] \in K /\ events[f[b]].bar = b
  <2>1. PICK k \in DOMAIN events : events[k].bar = b /\ events[k].type = type
    BY DEF LoggedUpTo
  <2>2. QED
    BY <2>1
<1>2. \A k \in K : events[k].bar \in 1..n
  BY DEF LoggedUpTo
<1>3. ASSUME NEW k \in K, NEW l \in K, events[k].bar = events[l].bar
      PROVE  k = l
  <2>1. \A i, j \in DOMAIN events :
          events[i].bar = events[j].bar /\ events[i].type = events[j].type => i = j
    BY Zenon DEF LoggedUpTo
  <2>2. QED
    BY <1>3, <2>1
<1>4. f \in [1..n -> K]
  <2>1. \A b \in 1..n : f[b] \in K
    BY <1>1
  <2>2. f = [b \in 1..n |-> f[b]]
    OBVIOUS
  <2> HIDE DEF f, K
  <2>3. QED
    BY <2>1, <2>2
<1> HIDE DEF f, K
<1>5. \A b, c \in 1..n : f[b] = f[c] => b = c
  BY <1>1
<1>6. \A k \in K : \E b \in 1..n : f[b] = k
  <2> SUFFICES ASSUME NEW k \in K
               PROVE  f[events[k].bar] = k
    BY <1>2
  <2>1. QED
    BY <1>1, <1>2, <1>3
<1>7. ExistsBijection(1..n, K)
  BY <1>4, <1>5, <1>6
     DEF ExistsBijection, Bijection, Injection, Surjection, IsInjective
<1>8. IsFiniteSet(1..n) /\ Cardinality(1..n) = n
  BY FS_Interval
<1>9. Cardinality(K) = n
  BY <1>7, <1>8, FS_Bijection
<1>10. QED
  BY <1>9 DEF CountOf, K

\* A window that was replayed to its end passes both validations.
LEMMA EvidenceHolds ==
  ASSUME ReplayInv, EvidenceInv, phase = "replay", Bar > size
  PROVE  ResultConsistent /\ EvidenceConsistent
<1>1. /\ ledger \in Seq(Observations) /\ Len(ledger) \in Nat /\ Len(ledger) > 0
      /\ ledger # <<>>
  BY DEF ReplayInv, ReplayTypes, Phases, Bar
<1>2. \A type \in EventKinds : CountOf(type) = Len(ledger)
  BY <1>1, CountLogged DEF ReplayInv, LoggedOnce
<1>3. \A i \in DOMAIN ledger : ledger[i].ending = Wealth(i)
  BY <1>1, WealthOfChain DEF EvidenceInv
<1>4. ResultConsistent
  BY <1>2, <1>3 DEF ResultConsistent, EventKinds
<1>5. \A i \in 2..Len(ledger) : ledger[i].executed = ledger[i - 1].target
  BY DEF EvidenceInv, Chained
<1>6. EvidenceConsistent
  BY <1>1, <1>5 DEF EvidenceConsistent, EvidenceInv, StartsFlat
<1>7. QED
  BY <1>4, <1>6

LEMMA EvidenceInvariance ==
  ReplayInv /\ EvidenceInv /\ [Next]_vars => EvidenceInv'
<1> SUFFICES ASSUME ReplayInv, EvidenceInv, [Next]_vars
             PROVE  EvidenceInv'
  OBVIOUS
<1>1. ASSUME ledger' = ledger, FoldInv'
      PROVE  EvidenceInv'
  BY <1>1 DEF EvidenceInv, Chained
<1>2. CASE MapFold
  <2>1. phase = "map" /\ fold \in FirstTest..LastTest /\ calendar \in Calendars
    BY <1>2 DEF MapFold, EvidenceInv, FoldInv, ReplayInv
  <2>2. /\ FitsFold(fold, Test(fold))
        /\ Resolves(FoldInput(fold), EvaluationStart(Test(fold)),
                    EvaluationEnd(Test(fold)))
    BY <2>1, FoldsFit
  <2>3. /\ phase' = "replay" /\ fold' = fold
        /\ OpenWindow(Cardinality(Window(FoldInput(fold), EvaluationStart(Test(fold)),
                                         EvaluationEnd(Test(fold)))))
    BY <1>2, <2>2 DEF MapFold
  <2>4. ledger' = <<>>
    BY <2>3 DEF OpenWindow
  <2>5. FoldInv'
    BY <2>1, <2>3 DEF FoldInv
  <2>6. Chained(<<>>)
    BY DEF Chained
  <2>7. QED
    BY <2>4, <2>5, <2>6 DEF EvidenceInv
<1>3. CASE ReplayStep
  <2>1. fold' = fold /\ phase = "replay"
    BY <1>3 DEF ReplayStep, wfVars, ReplayBar, Replaying
  <2>2. CASE Fault("ruin")
    <3>1. ledger' = ledger /\ phase' = "ruin"
      BY <2>2 DEF Fault
    <3>2. FoldInv'
      BY <3>1 DEF FoldInv
    <3>3. QED
      BY <1>1, <3>1, <3>2
  <2>3. CASE Replaying /\ \E signal \in Signals, return \in Returns :
                            Advance(signal, return)
    <3>1. Chained(ledger') /\ (ledger' # <<>> => StartsFlat(ledger'[1]))
      BY <2>3, AdvanceChains
    <3>2. FoldInv'
      BY <2>1, <2>3 DEF Advance, EvidenceInv, FoldInv
    <3>3. QED
      BY <3>1, <3>2 DEF EvidenceInv, StartsFlat
  <2>4. QED
    BY <1>3, <2>2, <2>3, BarOutcome DEF ReplayStep
<1>4. CASE CloseFold
  <2>1. phase = "replay" /\ fold \in FirstTest..LastTest
    BY <1>4 DEF CloseFold, EvidenceInv, FoldInv
  <2>2. ResultConsistent /\ EvidenceConsistent
    BY <1>4, EvidenceHolds DEF CloseFold
  <2>3. /\ ledger' = ledger /\ fold' = fold + 1
        /\ phase' = IF fold < LastTest THEN "map" ELSE "aggregate"
    BY <1>4, <2>2 DEF CloseFold
  <2>4. FoldInv'
    BY <2>1, <2>3, WalkForwardAssumption DEF FoldInv
  <2>5. QED
    BY <1>1, <2>3, <2>4
<1>5. CASE Aggregate
  <2>1. ledger' = ledger /\ phase' = "done"
    BY <1>5 DEF Aggregate
  <2>2. FoldInv'
    BY <2>1 DEF FoldInv
  <2>3. QED
    BY <1>1, <2>1, <2>2
<1>6. CASE UNCHANGED vars
  <2>1. ledger' = ledger /\ FoldInv'
    BY <1>6 DEF vars, replayVars, wfVars, EvidenceInv, FoldInv
  <2>2. QED
    BY <1>1, <2>1
<1>7. QED
  BY <1>2, <1>3, <1>4, <1>5, <1>6 DEF Next

LEMMA EvidenceInvariant == Spec => []EvidenceInv
<1>1. Init => EvidenceInv
  <2> SUFFICES ASSUME Init
               PROVE  EvidenceInv
    OBVIOUS
  <2>1. ledger = <<>> /\ phase = "map" /\ fold = FirstTest
    BY DEF Init
  <2>2. Chained(<<>>)
    BY DEF Chained
  <2>3. FoldInv
    BY <2>1, WalkForwardAssumption DEF FoldInv
  <2>4. QED
    BY <2>1, <2>2, <2>3 DEF EvidenceInv
<1>2. QED
  BY <1>1, EvidenceInvariance, ReplayInvariant, PTL DEF Spec

\* None of the study's own checks ever stops it: no order misses its bar, no
\* carried state is refused, the edges of every fold fit, and the evidence of
\* every finished window holds, the wealth index of its net returns and the
\* counts of its events included (_map_evaluation_boundaries,
\* _validate_replay_evidence, TrendFamilyEventReplayResult).
THEOREM OnlyRuinStopsTheStudy == Spec => []OnlyRuinStops
<1>1. ReplayInv /\ EvidenceInv => OnlyRuinStops
  BY DEF ReplayInv, Phases, EvidenceInv, FoldInv, OnlyRuinStops
<1>2. QED
  BY <1>1, ReplayInvariant, EvidenceInvariant, PTL

-----------------------------------------------------------------------------
(* Sorting *)

\* `before' tells of every element of S which ones it has to wait for, and it
\* is a strict total order.
Precedes(before, S) ==
  /\ before \in [S -> SUBSET S]
  /\ \A x \in S : x \notin before[x]
  /\ \A x, y \in S : y \in before[x] => before[y] \subseteq before[x]
  /\ \A x, y \in S : x = y \/ x \in before[y] \/ y \in before[x]

\* Ranked puts every element of a finite set at one place, each after those it
\* has to wait for.
LEMMA RankedOrder ==
  ASSUME NEW S, IsFiniteSet(S), NEW before, Precedes(before, S)
  PROVE  /\ Ranked(before) \in [1 .. Cardinality(S) -> S]
         /\ \A x \in S : \E k \in 1 .. Cardinality(S) : Ranked(before)[k] = x
         /\ \A j, k \in 1 .. Cardinality(S) :
              j < k => Ranked(before)[j] \in before[Ranked(before)[k]]
<1> DEFINE n == Cardinality(S)
           rank == [x \in S |-> Cardinality(before[x])]
<1>1. n \in Nat /\ DOMAIN before = S
  BY FS_CardinalityType DEF Precedes
<1>2. ASSUME NEW x \in S
      PROVE  /\ IsFiniteSet(before[x]) /\ before[x] \subseteq S
             /\ rank[x] \in Nat /\ rank[x] < n
  <2>1. before[x] \subseteq S /\ x \notin before[x]
    BY DEF Precedes
  <2>2. IsFiniteSet(before[x]) /\ rank[x] \in Nat
    BY <2>1, FS_Subset, FS_CardinalityType
  <2>3. rank[x] <= n /\ rank[x] # n
    BY <2>1, FS_Subset
  <2>4. QED
    BY <1>1, <2>1, <2>2, <2>3
<1>3. ASSUME NEW x \in S, NEW y \in S, y \in before[x]
      PROVE  rank[y] < rank[x]
  <2>1. before[y] \subseteq before[x] /\ y \notin before[y]
    BY <1>3 DEF Precedes
  <2>2. /\ Cardinality(before[y]) <= Cardinality(before[x])
        /\ Cardinality(before[x]) = Cardinality(before[y]) => before[x] = before[y]
    BY <1>2, <2>1, FS_Subset
  <2>3. QED
    BY <1>2, <1>3, <2>1, <2>2
<1>4. ASSUME NEW x \in S, NEW y \in S, rank[x] = rank[y]
      PROVE  x = y
  <2>1. ~(rank[x] < rank[y]) /\ ~(rank[y] < rank[x])
    BY <1>2, <1>4
  <2>2. QED
    BY <1>3, <2>1 DEF Precedes
<1>5. rank \in Surjection(S, 0 .. (n - 1))
  <2>1. \A x \in S : rank[x] \in 0 .. (n - 1)
    BY <1>1, <1>2
  <2>2. rank \in Injection(S, 0 .. (n - 1))
    BY <1>4, <2>1 DEF Injection, IsInjective
  <2>3. IsFiniteSet(0 .. (n - 1)) /\ Cardinality(0 .. (n - 1)) = n
    <3>1. 0 \in Int /\ n - 1 \in Int
      BY <1>1
    <3>2. /\ IsFiniteSet(0 .. (n - 1))
          /\ Cardinality(0 .. (n - 1)) = IF 0 > n - 1 THEN 0 ELSE n - 1 - 0 + 1
      BY <3>1, FS_Interval
    <3>3. QED
      BY <1>1, <3>2
  <2> HIDE DEF rank, n
  <2>4. QED
    BY <2>2, <2>3, FS_Injection DEF n
<1>6. ASSUME NEW k \in 1 .. n
      PROVE  \E x \in S : rank[x] = k - 1
  <2>1. k - 1 \in 0 .. (n - 1)
    BY <1>1
  <2>2. QED
    BY <1>5, <2>1 DEF Surjection
<1>7. ASSUME NEW k \in 1 .. n
      PROVE  /\ Ranked(before)[k] \in S
             /\ Cardinality(before[Ranked(before)[k]]) = k - 1
  <2>1. \E x \in S : Cardinality(before[x]) = k - 1
    BY <1>6
  <2>2. Ranked(before)[k] = CHOOSE x \in S : Cardinality(before[x]) = k - 1
    BY <1>1 DEF Ranked
  <2>3. QED
    BY <2>1, <2>2
<1>8. Ranked(before) \in [1 .. n -> S]
  <2>1. Ranked(before) = [k \in 1 .. n |-> Ranked(before)[k]]
    BY <1>1 DEF Ranked
  <2>2. QED
    BY <1>7, <2>1
<1>9. ASSUME NEW x \in S
      PROVE  \E k \in 1 .. n : Ranked(before)[k] = x
  <2>1. PICK k \in 1 .. n : k - 1 = rank[x]
    <3>1. rank[x] + 1 \in 1 .. n /\ (rank[x] + 1) - 1 = rank[x]
      BY <1>1, <1>2
    <3> HIDE DEF rank, n
    <3>2. QED
      BY <3>1
  <2>2. PICK y \in S : y = Ranked(before)[k]
    BY <1>7
  <2>3. rank[y] = rank[x]
    BY <1>7, <2>1, <2>2
  <2>4. y = x
    <3> HIDE DEF rank
    <3>1. QED
      BY <1>4, <2>3
  <2>5. QED
    BY <2>2, <2>4
<1>10. ASSUME NEW j \in 1 .. n, NEW k \in 1 .. n, j < k
       PROVE  Ranked(before)[j] \in before[Ranked(before)[k]]
  <2>1. /\ Ranked(before)[j] \in S /\ Ranked(before)[k] \in S
        /\ rank[Ranked(before)[j]] = j - 1 /\ rank[Ranked(before)[k]] = k - 1
    BY <1>7
  <2>2. rank[Ranked(before)[j]] < rank[Ranked(before)[k]]
    BY <1>1, <1>10, <2>1
  <2>3. Ranked(before)[j] # Ranked(before)[k]
    BY <1>1, <2>1, <2>2
  <2>4. ~(Ranked(before)[k] \in before[Ranked(before)[j]])
    BY <1>1, <1>3, <2>1, <2>2
  <2>5. QED
    BY <2>1, <2>3, <2>4 DEF Precedes
<1>11. QED
  BY <1>8, <1>9, <1>10

\* s has the elements of S, each after those it has to wait for.
Placed(s, before, S) ==
  /\ s \in Seq(S)
  /\ \A x \in S : \E i \in 1 .. Len(s) : s[i] = x
  /\ \A i, j \in 1 .. Len(s) : i < j => s[i] \in before[s[j]]

LEMMA RankedIsPlaced ==
  ASSUME NEW S, IsFiniteSet(S), NEW before, Precedes(before, S)
  PROVE  Placed(Ranked(before), before, S) /\ Len(Ranked(before)) = Cardinality(S)
<1> DEFINE n == Cardinality(S)
<1>1. PICK s : s = Ranked(before)
  OBVIOUS
<1>2. n \in Nat
  BY FS_CardinalityType
<1>3. /\ s \in [1 .. n -> S]
      /\ \A x \in S : \E k \in 1 .. n : s[k] = x
      /\ \A j, k \in 1 .. n : j < k => s[j] \in before[s[k]]
  BY <1>1, RankedOrder
<1> HIDE DEF n
<1>4. s \in Seq(S) /\ DOMAIN s = 1 .. n
  BY <1>2, <1>3, IsASeq
<1>5. Len(s) = n
  BY <1>2, <1>4, LenProperties
<1>6. Placed(s, before, S)
  BY <1>3, <1>4, <1>5 DEF Placed
<1>7. QED
  BY <1>1, <1>5, <1>6 DEF n

\* There is one way only to put them.
LEMMA PlacedOnce ==
  ASSUME NEW S, NEW before, Precedes(before, S), NEW s, Placed(s, before, S)
  PROVE  s = Ranked(before)
<1> DEFINE n == Len(s)
<1>1. /\ n \in Nat /\ DOMAIN s = 1 .. n
      /\ \A i \in 1 .. n : s[i] \in S
      /\ \A x \in S : \E i \in 1 .. n : s[i] = x
      /\ \A i, j \in 1 .. n : i < j => s[i] \in before[s[j]]
  BY LenProperties, ElementOfSeq DEF Placed
<1>2. ASSUME NEW i \in 1 .. n, NEW j \in 1 .. n
      PROVE  s[i] \in before[s[j]] <=> i < j
  <2>1. CASE i < j
    BY <1>1, <2>1
  <2>2. CASE i = j
    BY <1>1, <2>2 DEF Precedes
  <2>3. CASE j < i
    <3>1. s[j] \in before[s[i]] /\ s[i] \in S /\ s[j] \in S
      BY <1>1, <2>3
    <3>2. s[i] \in before[s[j]] => s[i] \in before[s[i]]
      BY <3>1 DEF Precedes
    <3>3. QED
      BY <2>3, <3>1, <3>2 DEF Precedes
  <2>4. QED
    BY <2>1, <2>2, <2>3
<1>3. \A i, j \in 1 .. n : s[i] = s[j] => i = j
  <2> SUFFICES ASSUME NEW i \in 1 .. n, NEW j \in 1 .. n, s[i] = s[j]
               PROVE  i = j
    OBVIOUS
  <2>1. s[i] \notin before[s[i]]
    BY <1>1 DEF Precedes
  <2>2. ~(i < j) /\ ~(j < i)
    BY <1>2, <2>1
  <2>3. QED
    BY <2>2
<1>4. ASSUME NEW k \in 0 .. n
      PROVE  Cardinality({s[i] : i \in 1 .. k}) = k
  <2> DEFINE f == [i \in 1 .. k |-> s[i]]
             T == {s[i] : i \in 1 .. k}
  <2>1. f \in [1 .. k -> T] /\ \A x \in T : \E i \in 1 .. k : f[i] = x
    OBVIOUS
  <2>2. \A i, j \in 1 .. k : f[i] = f[j] => i = j
    BY <1>1, <1>3
  <2>3. ExistsBijection(1 .. k, T)
    <3> HIDE DEF f, T
    <3>1. QED
      BY <2>1, <2>2 DEF ExistsBijection, Bijection, Injection, Surjection, IsInjective
  <2>4. IsFiniteSet(1 .. k) /\ Cardinality(1 .. k) = k
    <3>1. 1 \in Int /\ k \in Int
      BY <1>1
    <3>2. /\ IsFiniteSet(1 .. k)
          /\ Cardinality(1 .. k) = IF 1 > k THEN 0 ELSE k - 1 + 1
      BY <3>1, FS_Interval
    <3>3. QED
      BY <1>1, <3>2
  <2> HIDE DEF f, T
  <2>5. Cardinality(T) = k
    BY <2>3, <2>4, FS_Bijection
  <2>6. QED
    BY <2>5 DEF T
<1>5. S = {s[i] : i \in 1 .. n} /\ Cardinality(S) = n
  <2>1. S = {s[i] : i \in 1 .. n}
    BY <1>1
  <2>2. n \in 0 .. n
    BY <1>1
  <2>3. QED
    BY <1>4, <2>1, <2>2
<1>6. ASSUME NEW k \in 1 .. n
      PROVE  Cardinality(before[s[k]]) = k - 1
  <2>1. before[s[k]] = {s[i] : i \in 1 .. (k - 1)}
    <3>1. before[s[k]] \subseteq S
      BY <1>1 DEF Precedes
    <3>2. \A u : u \in S <=> \E i \in 1 .. n : s[i] = u
      BY <1>5
    <3>3. \A i : i \in 1 .. (k - 1) <=> i \in 1 .. n /\ i < k
      BY <1>1
    <3>4. QED
      BY <1>2, <3>1, <3>2, <3>3
  <2>2. k - 1 \in 0 .. n
    BY <1>1
  <2>3. QED
    BY <1>4, <2>1, <2>2
<1>7. DOMAIN before = S
  BY DEF Precedes
<1> HIDE DEF n
<1>8. ASSUME NEW k \in 1 .. n
      PROVE  Ranked(before)[k] = s[k]
  <2>1. Ranked(before)[k] = CHOOSE x \in S : Cardinality(before[x]) = k - 1
    BY <1>5, <1>7 DEF Ranked
  <2>2. \A x \in S : Cardinality(before[x]) = k - 1 => x = s[k]
    <3> SUFFICES ASSUME NEW x \in S, Cardinality(before[x]) = k - 1
                 PROVE  x = s[k]
      OBVIOUS
    <3>1. PICK i \in 1 .. n : s[i] = x
      BY <1>1
    <3>2. i - 1 = k - 1
      BY <1>6, <3>1
    <3>3. QED
      BY <1>1, <3>1, <3>2
  <2>3. s[k] \in S /\ Cardinality(before[s[k]]) = k - 1
    BY <1>1, <1>6
  <2>4. QED
    BY <2>1, <2>2, <2>3
<1>9. Ranked(before) = [k \in 1 .. n |-> Ranked(before)[k]]
  BY <1>5, <1>7 DEF Ranked
<1>10. s = [k \in 1 .. n |-> s[k]]
  <2>1. s \in [1 .. n -> S]
    BY LenProperties DEF Placed, n
  <2>2. QED
    BY <2>1
<1>11. QED
  BY <1>8, <1>9, <1>10

\* A sequence whose members become ever larger.
Rising(s) == \A i, j \in 1 .. Len(s) : i < j => s[i] < s[j]

\* s lists the members of S, the smallest first.
Lists(s, S) ==
  /\ s \in Seq(Nat) /\ Rising(s)
  /\ \A i \in 1 .. Len(s) : s[i] \in S
  /\ \A x \in S : \E i \in 1 .. Len(s) : s[i] = x

\* The smaller ones come first.
LEMMA SmallerFirst ==
  ASSUME NEW S, S \subseteq Nat
  PROVE  Precedes([t \in S |-> {u \in S : u < t}], S)
<1> DEFINE before == [t \in S |-> {u \in S : u < t}]
<1>1. before \in [S -> SUBSET S]
  OBVIOUS
<1>2. ASSUME NEW x \in S, NEW y \in S, y \in before[x], NEW z \in before[y]
      PROVE  z \in before[x]
  <2>1. x \in Nat /\ y \in Nat /\ z \in Nat /\ z \in S /\ z < y /\ y < x
    BY <1>2
  <2>2. QED
    BY <2>1
<1>3. \A x, y \in S : x = y \/ x < y \/ y < x
  OBVIOUS
<1>4. \A x \in S : ~(x < x)
  OBVIOUS
<1>5. QED
  BY <1>1, <1>2, <1>3, <1>4 DEF Precedes

\* Ascending lists a finite set of naturals.
LEMMA AscendingLists ==
  ASSUME NEW S, S \subseteq Nat, IsFiniteSet(S)
  PROVE  Lists(Ascending(S), S)
<1> DEFINE before == [t \in S |-> {u \in S : u < t}]
           s == Ascending(S)
           n == Cardinality(S)
<1>1. Precedes(before, S)
  BY SmallerFirst
<1>2. n \in Nat
  BY FS_CardinalityType
<1>3. s = Ranked(before)
  BY DEF Ascending
<1>4. /\ s \in [1 .. n -> S]
      /\ \A x \in S : \E k \in 1 .. n : s[k] = x
      /\ \A j, k \in 1 .. n : j < k => s[j] \in before[s[k]]
  <2> HIDE DEF before, s
  <2>1. QED
    BY <1>1, <1>3, RankedOrder
<1> HIDE DEF s
<1>5. s \in Seq(Nat) /\ Len(s) = n
  <2>1. s \in [1 .. n -> Nat]
    BY <1>4
  <2>2. s \in Seq(Nat)
    BY <1>2, <2>1, IsASeq
  <2>3. DOMAIN s = 1 .. n
    BY <2>1
  <2>4. QED
    BY <1>2, <2>2, <2>3, LenProperties
<1>6. ASSUME NEW j \in 1 .. n, NEW k \in 1 .. n, j < k
      PROVE  s[j] < s[k]
  <2>1. s[j] \in before[s[k]] /\ s[k] \in S
    BY <1>4, <1>6
  <2>2. QED
    BY <2>1
<1>7. Lists(s, S)
  <2> HIDE DEF n
  <2>1. QED
    BY <1>4, <1>5, <1>6 DEF Lists, Rising
<1>8. QED
  BY <1>7 DEF s

\* The places of a rising sequence are in order already.
LEMMA PlacesInOrder ==
  ASSUME NEW n \in Nat,
         NEW k \in 1 .. n
  PROVE  Ranked([i \in 1 .. n |-> 1 .. (i - 1)])[k] = k
<1> DEFINE before == [i \in 1 .. n |-> 1 .. (i - 1)]
<1>1. \A i \in 1 .. n : Cardinality(before[i]) = i - 1
  <2> SUFFICES ASSUME NEW i \in 1 .. n
               PROVE  Cardinality(1 .. (i - 1)) = i - 1
    OBVIOUS
  <2>1. 1 \in Int /\ i - 1 \in Int
    OBVIOUS
  <2>2. Cardinality(1 .. (i - 1)) = IF 1 > i - 1 THEN 0 ELSE i - 1 - 1 + 1
    BY <2>1, FS_Interval
  <2>3. QED
    BY <2>2
<1>2. DOMAIN before = 1 .. n /\ Cardinality(1 .. n) = n
  <2>1. 1 \in Int /\ n \in Int
    OBVIOUS
  <2>2. Cardinality(1 .. n) = IF 1 > n THEN 0 ELSE n - 1 + 1
    BY <2>1, FS_Interval
  <2>3. QED
    BY <2>2
<1> HIDE DEF before
<1>3. Ranked(before)[k] = CHOOSE x \in 1 .. n : Cardinality(before[x]) = k - 1
  BY <1>2 DEF Ranked
<1>4. \A x \in 1 .. n : Cardinality(before[x]) = k - 1 <=> x = k
  BY <1>1
<1>5. Ranked(before)[k] = k
  BY <1>3, <1>4
<1>6. QED
  BY <1>5 DEF before

\* Sorting changes nothing about a rising sequence.
LEMMA SortedAlready ==
  ASSUME NEW s \in Seq(Nat), Rising(s)
  PROVE  Sorted(s) = s
<1> DEFINE n == Len(s)
           before == [i \in DOMAIN s |-> {j \in DOMAIN s : s[j] < s[i] \/ (s[j] = s[i] /\ j < i)}]
<1>1. n \in Nat /\ DOMAIN s = 1 .. n /\ \A i \in 1 .. n : s[i] \in Nat
  BY LenProperties, ElementOfSeq
<1>2. before = [i \in 1 .. n |-> 1 .. (i - 1)]
  <2>1. ASSUME NEW i \in 1 .. n
        PROVE  {j \in 1 .. n : s[j] < s[i] \/ (s[j] = s[i] /\ j < i)} = 1 .. (i - 1)
    <3>1. ASSUME NEW j \in 1 .. n
          PROVE  (s[j] < s[i] \/ (s[j] = s[i] /\ j < i)) <=> j < i
      <4>1. CASE j < i
        BY <1>1, <4>1 DEF Rising
      <4>2. CASE j = i
        BY <1>1, <4>2
      <4>3. CASE i < j
        BY <1>1, <4>3 DEF Rising
      <4>4. QED
        BY <1>1, <4>1, <4>2, <4>3
    <3>2. QED
      BY <1>1, <3>1
  <2>2. QED
    BY <1>1, <2>1
<1>3. Sorted(s) = [k \in 1 .. n |-> s[Ranked(before)[k]]]
  BY DEF Sorted
<1>4. \A k \in 1 .. n : Ranked(before)[k] = k
  BY <1>1, <1>2, PlacesInOrder
<1> HIDE DEF before
<1>5. Sorted(s) = [k \in 1 .. n |-> s[k]]
  BY <1>3, <1>4
<1>6. QED
  BY <1>1, <1>5

\* A set is listed in one way only.
LEMMA ListedOnce ==
  ASSUME NEW S, NEW s, Lists(s, S)
  PROVE  s = Ascending(S)
<1> DEFINE n == Len(s)
           before == [t \in S |-> {u \in S : u < t}]
<1>1. /\ n \in Nat /\ DOMAIN s = 1 .. n
      /\ \A i \in 1 .. n : s[i] \in S /\ s[i] \in Nat
      /\ \A x \in S : \E i \in 1 .. n : s[i] = x
      /\ \A i, j \in 1 .. n : i < j => s[i] < s[j]
  BY LenProperties, ElementOfSeq DEF Lists, Rising
<1>2. Precedes(before, S)
  <2>1. S \subseteq Nat
    BY <1>1
  <2>2. QED
    BY <2>1, SmallerFirst
<1>3. Placed(s, before, S)
  <2>1. s = [i \in 1 .. n |-> s[i]]
    BY <1>1, LenProperties DEF Lists
  <2>2. [i \in 1 .. n |-> s[i]] \in Seq(S)
    BY <1>1, IsASeq
  <2>3. \A i, j \in 1 .. n : i < j => s[i] \in before[s[j]]
    BY <1>1
  <2> HIDE DEF before
  <2>4. QED
    BY <1>1, <2>1, <2>2, <2>3 DEF Placed
<1> HIDE DEF before
<1>4. s = Ranked(before)
  BY <1>2, <1>3, PlacedOnce
<1>5. QED
  BY <1>4 DEF Ascending, before

-----------------------------------------------------------------------------
(* The tiling of the test years *)

\* A list of smaller ones before a list of larger ones is a list of them all.
LEMMA ListsJoin ==
  ASSUME NEW S, NEW s, Lists(s, S), NEW R, NEW r, Lists(r, R),
         \A x \in S, y \in R : x < y
  PROVE  Lists(s \o r, S \cup R)
<1> DEFINE m == Len(s)
           n == Len(r)
<1>1. PICK j : j = s \o r
  OBVIOUS
<1>2. /\ s \in Seq(Nat) /\ r \in Seq(Nat) /\ m \in Nat /\ n \in Nat
      /\ \A i \in 1 .. m : s[i] \in S /\ s[i] \in Nat
      /\ \A i \in 1 .. n : r[i] \in R /\ r[i] \in Nat
      /\ \A x \in S : \E i \in 1 .. m : s[i] = x
      /\ \A x \in R : \E i \in 1 .. n : r[i] = x
      /\ \A i, k \in 1 .. m : i < k => s[i] < s[k]
      /\ \A i, k \in 1 .. n : i < k => r[i] < r[k]
  BY LenProperties, ElementOfSeq DEF Lists, Rising
<1>3. /\ j \in Seq(Nat) /\ Len(j) = m + n
      /\ \A i \in 1 .. m : j[i] = s[i]
      /\ \A i \in 1 .. n : j[m + i] = r[i]
  BY <1>1, <1>2
<1> HIDE DEF m, n
<1>4. ASSUME NEW i \in 1 .. (m + n)
      PROVE  \/ i \in 1 .. m /\ j[i] = s[i]
             \/ i - m \in 1 .. n /\ j[i] = r[i - m]
  <2>1. i \in 1 .. m \/ i - m \in 1 .. n
    BY <1>2
  <2>2. i - m \in 1 .. n => j[m + (i - m)] = r[i - m]
    BY <1>3
  <2>3. m + (i - m) = i
    BY <1>2
  <2>4. QED
    BY <1>3, <2>1, <2>2, <2>3
<1>5. ASSUME NEW i \in 1 .. (m + n), NEW k \in 1 .. (m + n), i < k
      PROVE  j[i] < j[k]
  <2>1. CASE i \in 1 .. m /\ j[i] = s[i] /\ k \in 1 .. m /\ j[k] = s[k]
    BY <1>2, <1>5, <2>1
  <2>2. CASE i \in 1 .. m /\ j[i] = s[i] /\ k - m \in 1 .. n /\ j[k] = r[k - m]
    BY <1>2, <2>2
  <2>3. CASE i - m \in 1 .. n /\ j[i] = r[i - m] /\ k \in 1 .. m
    BY <1>2, <1>5, <2>3
  <2>4. CASE /\ i - m \in 1 .. n /\ j[i] = r[i - m]
             /\ k - m \in 1 .. n /\ j[k] = r[k - m]
    <3>1. i - m < k - m
      BY <1>2, <1>5
    <3>2. QED
      BY <1>2, <2>4, <3>1
  <2>5. QED
    BY <1>4, <2>1, <2>2, <2>3, <2>4
<1>6. \A i \in 1 .. (m + n) : j[i] \in S \cup R
  BY <1>2, <1>4
<1>7. ASSUME NEW x \in S \cup R
      PROVE  \E i \in 1 .. (m + n) : j[i] = x
  <2>1. CASE x \in S
    <3>1. PICK i \in 1 .. m : s[i] = x
      BY <1>2, <2>1
    <3>2. i \in 1 .. (m + n)
      BY <1>2
    <3>3. QED
      BY <1>3, <3>1, <3>2
  <2>2. CASE x \in R
    <3>1. PICK i \in 1 .. n : r[i] = x
      BY <1>2, <2>2
    <3>2. m + i \in 1 .. (m + n)
      BY <1>2
    <3>3. QED
      BY <1>3, <3>1, <3>2
  <2>3. QED
    BY <2>1, <2>2
<1>8. Lists(j, S \cup R)
  BY <1>3, <1>5, <1>6, <1>7 DEF Lists, Rising
<1>9. QED
  BY <1>1, <1>8

\* A day has its number, and later bars are not of earlier days.
LEMMA DaysAscend ==
  ASSUME NEW t \in Nat, NEW u \in Nat, t <= u
  PROVE  Day(t) \in Nat /\ Day(u) \in Nat /\ Day(t) <= Day(u)
<1>1. Slots \in Nat \ {0}
  BY WalkForwardAssumption
<1>2. PICK d : d = Day(t)
  OBVIOUS
<1>3. PICK e : e = Day(u)
  OBVIOUS
<1>4. /\ d \in Nat /\ Slots * d <= t
      /\ e \in Nat /\ u < Slots * e + Slots
  BY <1>1, <1>2, <1>3, Quotient DEF Day
<1>5. ASSUME e < d
      PROVE  FALSE
  <2>1. e + 1 \in Nat /\ e + 1 <= d
    BY <1>4, <1>5
  <2>2. Slots * (e + 1) <= Slots * d
    BY <1>1, <1>4, <2>1, Scaled
  <2>3. Slots * (e + 1) = Slots * e + Slots
    BY <1>1, <1>4
  <2>4. Slots * e \in Nat /\ Slots * d \in Nat
    BY <1>1, <1>4
  <2>5. QED
    BY <1>1, <1>4, <2>2, <2>3, <2>4
<1>6. QED
  BY <1>2, <1>3, <1>4, <1>5

\* The first bar of a session is the least of its day.
LEMMA SessionBegins ==
  ASSUME NEW B, B \subseteq Nat, NEW t \in SessionStarts(B)
  PROVE  t \in B /\ \A u \in B : Day(u) = Day(t) => t <= u
<1>1. t \in B /\ FirstOfDay(B, t) = t
  BY DEF SessionStarts
<1>2. PICK T : T = {u \in B : Day(u) = Day(t)}
  OBVIOUS
<1>3. T \subseteq Nat /\ T # {} /\ Min(T) = t
  BY <1>1, <1>2 DEF FirstOfDay
<1>4. \A u \in T : t <= u
  BY <1>3, LeastOf
<1>5. QED
  BY <1>1, <1>2, <1>4

\* A window resolves exactly if it is a run of whole sessions.
LEMMA ResolvesRuns ==
  ASSUME NEW B, B \subseteq Nat, B # {}, IsFiniteSet(B),
         NEW start \in Min(B) .. (Max(B) + 1), NEW end \in Min(B) .. (Max(B) + 1)
  PROVE  Resolves(B, start, end) <=>
           /\ start < end
           /\ start \in SessionStarts(B) \cup {Max(B) + 1}
           /\ end \in SessionStarts(B) \cup {Max(B) + 1}
<1>1. /\ Min(B) \in B /\ Max(B) \in B /\ Min(B) \in Nat /\ Max(B) \in Nat
      /\ \A t \in B : t \in Nat /\ Min(B) <= t /\ t <= Max(B)
  BY LeastOf, GreatestOf
<1>2. Resolves(B, start, end) =>
        /\ start < end
        /\ start \in SessionStarts(B) \cup {Max(B) + 1}
        /\ end \in SessionStarts(B) \cup {Max(B) + 1}
  BY DEF Resolves
<1>3. ASSUME start < end,
             start \in SessionStarts(B) \cup {Max(B) + 1},
             end \in SessionStarts(B) \cup {Max(B) + 1}
      PROVE  Resolves(B, start, end)
  <2>1. /\ start \in Nat /\ end \in Nat /\ end <= Max(B) + 1
        /\ Min(B) <= start
    BY <1>1
  <2>2. start # Max(B) + 1
    BY <1>1, <1>3, <2>1
  <2>3. /\ start \in SessionStarts(B) /\ start \in B
        /\ \A u \in B : Day(u) = Day(start) => start <= u
    BY <1>3, <2>2, SessionBegins
  <2>4. start <= Max(B) /\ Min(B) < end
    BY <1>1, <1>3, <2>1, <2>3
  <2>5. start \in Window(B, start, end)
    BY <1>3, <2>1, <2>3 DEF Window
  <2>6. ASSUME NEW t \in B, start <= t, t < end, NEW u \in B, Day(u) = Day(t)
        PROVE  start <= u /\ u < end
    <3>1. t \in Nat /\ u \in Nat /\ u <= Max(B)
      BY <1>1
    <3>2. ASSUME u < start
          PROVE  FALSE
      <4>1. Day(u) <= Day(start) /\ Day(u) \in Nat /\ Day(start) \in Nat
        BY <2>1, <3>1, <3>2, DaysAscend
      <4>2. Day(start) <= Day(t)
        BY <2>1, <2>6, <3>1, DaysAscend
      <4>3. Day(u) = Day(start)
        BY <2>6, <4>1, <4>2
      <4>4. QED
        BY <2>1, <2>3, <3>1, <3>2, <4>3
    <3>3. ASSUME end <= u
          PROVE  FALSE
      <4>1. end \in SessionStarts(B)
        BY <1>1, <1>3, <2>1, <3>1, <3>3
      <4>2. \A v \in B : Day(v) = Day(end) => end <= v
        BY <4>1, SessionBegins
      <4>3. Day(end) <= Day(u) /\ Day(u) \in Nat /\ Day(end) \in Nat
        BY <2>1, <3>1, <3>3, DaysAscend
      <4>4. Day(t) <= Day(end)
        BY <2>1, <2>6, <3>1, DaysAscend
      <4>5. Day(t) = Day(end)
        BY <2>6, <4>3, <4>4
      <4>6. end <= t
        BY <4>2, <4>5, <2>6
      <4>7. QED
        BY <2>1, <2>6, <3>1, <4>6
    <3>4. QED
      BY <2>1, <3>1, <3>2, <3>3
  <2>7. \A t \in Window(B, start, end), u \in B :
          Day(u) = Day(t) => u \in Window(B, start, end)
    BY <2>6 DEF Window
  <2>8. QED
    BY <1>3, <2>1, <2>3, <2>4, <2>5, <2>7 DEF Resolves
<1>4. QED
  BY <1>2, <1>3

\* The window between the edges of a fold's test year is that year.
LEMMA WindowIsTest ==
  ASSUME calendar \in Calendars, NEW y \in FirstTest .. LastTest
  PROVE  /\ Window(FoldInput(y), EvaluationStart(Test(y)), EvaluationEnd(Test(y)))
              = Test(y)
         /\ Test(y) \subseteq Nat /\ Test(y) # {} /\ IsFiniteSet(Test(y))
<1>1. /\ calendar \subseteq Nat /\ IsFiniteSet(calendar)
      /\ \E t \in calendar : Year(t) = y
  BY CalendarAssumption
<1>2. y \in Nat
  BY WalkForwardAssumption
<1>3. PICK B : B = Test(y)
  OBVIOUS
<1>4. \A t : t \in B <=> t \in calendar /\ Year(t) = y
  BY <1>3 DEF Test
<1>5. B \subseteq Nat /\ B # {} /\ IsFiniteSet(B)
  <2>1. B \subseteq calendar /\ B # {}
    BY <1>1, <1>4
  <2>2. QED
    BY <1>1, <2>1, FS_Subset
<1>6. PICK first : first = Min(B)
  OBVIOUS
<1>7. PICK last : last = Max(B)
  OBVIOUS
<1>8. /\ first \in B /\ first \in Nat /\ last \in Nat
      /\ \A t \in B : first <= t /\ t <= last
  BY <1>5, <1>6, <1>7, LeastOf, GreatestOf
<1>9. EvaluationStart(B) = first /\ EvaluationEnd(B) = last + 1
  BY <1>6, <1>7 DEF EvaluationStart, EvaluationEnd
<1>10. \A t : t \in FoldInput(y) <=> t \in calendar /\ (Year(t) < y \/ Year(t) = y)
  BY DEF FoldInput, Train, Test
<1>11. ASSUME NEW t \in FoldInput(y), first <= t
       PROVE  t \in B
  <2>1. t \in calendar /\ t \in Nat /\ Year(first) = y
    BY <1>1, <1>4, <1>8, <1>10
  <2>2. ~(Year(t) < y)
    <3>1. Year(t) < y => t < first
      BY <1>8, <2>1, LaterYear
    <3>2. QED
      BY <1>8, <1>11, <2>1, <3>1
  <2>3. QED
    BY <1>4, <1>10, <2>2
<1>12. \A t \in B : t \in FoldInput(y) /\ first <= t /\ t < last + 1
  BY <1>4, <1>5, <1>8, <1>10
<1>13. Window(FoldInput(y), first, last + 1) = B
  BY <1>11, <1>12 DEF Window
<1>14. QED
  BY <1>3, <1>5, <1>9, <1>13

\* What the finished folds have left: the bars of their years, in time order,
\* and of the fold in hand the bars of its own.
TestBars(last) == {t \in calendar : Year(t) \in FirstTest .. last}
TileInv ==
  /\ phase \in {"map", "replay"} => Lists(combined, TestBars(fold - 1))
  /\ phase = "replay" => Lists(window, Test(fold))
  /\ phase \in {"aggregate", "done"} => Lists(combined, TestBars(LastTest))

\* One more year of test bars.
LEMMA NextTestBars ==
  ASSUME calendar \in Calendars, NEW y \in FirstTest .. LastTest
  PROVE  /\ TestBars(y) = TestBars(y - 1) \cup Test(y)
         /\ \A t \in TestBars(y - 1), u \in Test(y) : t < u
<1>1. /\ calendar \subseteq Nat /\ y \in Nat /\ FirstTest \in Nat /\ FirstTest <= y
      /\ \A t \in calendar : Year(t) \in Nat
  BY CalendarAssumption, WalkForwardAssumption, YearBounds
<1>2. \A n \in Nat : n \in FirstTest .. y <=> n \in FirstTest .. (y - 1) \/ n = y
  BY <1>1
<1>3. TestBars(y) = TestBars(y - 1) \cup Test(y)
  BY <1>1, <1>2 DEF TestBars, Test
<1>4. ASSUME NEW t \in TestBars(y - 1), NEW u \in Test(y)
      PROVE  t < u
  <2>1. t \in Nat /\ u \in Nat /\ Year(t) < Year(u)
    BY <1>1 DEF TestBars, Test
  <2>2. QED
    BY <2>1, LaterYear
<1>5. QED
  BY <1>3, <1>4

LEMMA TileInitInv == Init => TileInv
<1> SUFFICES ASSUME Init
             PROVE  TileInv
  OBVIOUS
<1>1. phase = "map" /\ combined = <<>> /\ fold = FirstTest /\ calendar \in Calendars
  BY DEF Init
<1>2. TestBars(FirstTest - 1) = {}
  <2>1. FirstTest .. (FirstTest - 1) = {}
    BY WalkForwardAssumption
  <2>2. QED
    BY <2>1 DEF TestBars
<1>3. Lists(<<>>, {})
  BY DEF Lists, Rising
<1>4. QED
  BY <1>1, <1>2, <1>3 DEF TileInv

\* The sort at the end changes nothing, and the join of a fold appends a year.
LEMMA TileNextInv ==
  ReplayInv /\ EvidenceInv /\ TileInv /\ [Next]_vars => TileInv'
<1> SUFFICES ASSUME ReplayInv, EvidenceInv, TileInv, [Next]_vars
             PROVE  TileInv'
  OBVIOUS
<1>1. calendar \in Calendars
  BY DEF ReplayInv
<1>2. ASSUME calendar' = calendar
      PROVE  \A n : TestBars(n)' = TestBars(n) /\ Test(n)' = Test(n)
  BY <1>2 DEF TestBars, Test
<1>3. CASE MapFold
  <2>1. phase = "map" /\ fold \in FirstTest .. LastTest
    BY <1>3 DEF MapFold, EvidenceInv, FoldInv
  <2>2. /\ FitsFold(fold, Test(fold))
        /\ Resolves(FoldInput(fold), EvaluationStart(Test(fold)),
                    EvaluationEnd(Test(fold)))
    BY <1>1, <2>1, FoldsFit
  <2>3. /\ phase' = "replay" /\ fold' = fold /\ calendar' = calendar
        /\ combined' = combined
        /\ window' = Ascending(Window(FoldInput(fold), EvaluationStart(Test(fold)),
                                      EvaluationEnd(Test(fold))))
    BY <1>3, <2>2 DEF MapFold
  <2>4. /\ Window(FoldInput(fold), EvaluationStart(Test(fold)),
                  EvaluationEnd(Test(fold))) = Test(fold)
        /\ Test(fold) \subseteq Nat /\ IsFiniteSet(Test(fold))
    BY <1>1, <2>1, WindowIsTest
  <2>5. Lists(window', Test(fold))
    BY <2>3, <2>4, AscendingLists
  <2>6. TestBars(fold - 1)' = TestBars(fold - 1) /\ Test(fold)' = Test(fold)
    BY <2>3 DEF TestBars, Test
  <2>7. Lists(combined', TestBars(fold - 1)') /\ Lists(window', Test(fold)')
    BY <2>1, <2>3, <2>5, <2>6 DEF TileInv
  <2>8. QED
    BY <2>3, <2>7 DEF TileInv, Lists, Rising
<1>4. CASE ReplayStep
  <2>1. UNCHANGED wfVars /\ phase = "replay"
    BY <1>4 DEF ReplayStep, ReplayBar, Replaying
  <2>2. calendar' = calendar /\ fold' = fold /\ window' = window /\ combined' = combined
    BY <2>1 DEF wfVars
  <2>3. phase' \in {"replay", "ruin"}
    <3>1. CASE Fault("ruin")
      BY <3>1 DEF Fault
    <3>2. CASE Replaying /\ \E signal \in Signals, return \in Returns :
                              Advance(signal, return)
      BY <2>1, <3>2 DEF Advance
    <3>3. QED
      BY <1>4, <3>1, <3>2, BarOutcome DEF ReplayStep
  <2>4. QED
    BY <2>1, <2>2, <2>3 DEF TileInv, TestBars, Test, Lists, Rising
<1>5. CASE CloseFold
  <2>1. phase = "replay" /\ fold \in FirstTest .. LastTest
    BY <1>5 DEF CloseFold, EvidenceInv, FoldInv
  <2>2. ResultConsistent /\ EvidenceConsistent
    BY <1>5, EvidenceHolds DEF CloseFold
  <2>3. /\ combined' = combined \o window /\ fold' = fold + 1
        /\ phase' = IF fold < LastTest THEN "map" ELSE "aggregate"
        /\ calendar' = calendar
    BY <1>5, <2>2 DEF CloseFold
  <2>4. Lists(combined, TestBars(fold - 1)) /\ Lists(window, Test(fold))
    BY <2>1 DEF TileInv
  <2>5. /\ TestBars(fold) = TestBars(fold - 1) \cup Test(fold)
        /\ \A t \in TestBars(fold - 1), u \in Test(fold) : t < u
    BY <1>1, <2>1, NextTestBars
  <2>6. Lists(combined', TestBars(fold))
    BY <2>3, <2>4, <2>5, ListsJoin
  <2>7. /\ fold' - 1 = fold /\ phase' \in {"map", "aggregate"}
        /\ phase' = "aggregate" => fold = LastTest
    BY <2>1, <2>3, WalkForwardAssumption
  <2>8. \A n : TestBars(n)' = TestBars(n)
    BY <1>2, <2>3
  <2>9. QED
    BY <2>3, <2>6, <2>7 DEF TileInv, TestBars, Lists, Rising
<1>6. CASE Aggregate
  <2>1. /\ phase = "aggregate" /\ phase' = "done" /\ calendar' = calendar
        /\ combined' = Sorted(combined)
    BY <1>6 DEF Aggregate
  <2>2. Lists(combined, TestBars(LastTest))
    BY <2>1 DEF TileInv
  <2>3. combined' = combined
    BY <2>1, <2>2, SortedAlready DEF Lists
  <2>4. QED
    BY <2>1, <2>2, <2>3 DEF TileInv, TestBars, Lists, Rising
<1>7. CASE UNCHANGED vars
  BY <1>7 DEF vars, replayVars, wfVars, TileInv, TestBars, Test, Lists, Rising
<1>8. QED
  BY <1>3, <1>4, <1>5, <1>6, <1>7 DEF Next

LEMMA TileInvariant == Spec => []TileInv
BY TileInitInv, TileNextInv, ReplayInvariant, EvidenceInvariant, PTL DEF Spec

\* The folds tile the test years: the rows that _partition_fold, the replays
\* and the final sort leave are the bars of the test years, each once and in
\* time order, and _resolve_evaluation_window takes exactly the runs of whole
\* sessions, for every calendar with a session in every year.
THEOREM FoldsTile == Spec => []FoldsTileTheTestYears
<1>1. ReplayInv /\ TileInv => FoldsTileTheTestYears
  <2> SUFFICES ASSUME ReplayInv, TileInv, phase = "done"
               PROVE  FoldsTileTheTestYears
    BY DEF FoldsTileTheTestYears
  <2>1. calendar \in Calendars /\ Lists(combined, TestBars(LastTest))
    BY DEF ReplayInv, TileInv
  <2>2. combined = Ascending(TestBars(LastTest))
    BY <2>1, ListedOnce
  <2>3. ASSUME NEW y \in FirstTest .. LastTest, NEW B, B = FoldInput(y),
               NEW start \in Min(B) .. (Max(B) + 1), NEW end \in Min(B) .. (Max(B) + 1)
        PROVE  Resolves(B, start, end) <=>
                 /\ start < end
                 /\ start \in SessionStarts(B) \cup {Max(B) + 1}
                 /\ end \in SessionStarts(B) \cup {Max(B) + 1}
    <3>1. Test(y) # {} /\ calendar \subseteq Nat /\ IsFiniteSet(calendar)
      BY <2>1, WindowIsTest, CalendarAssumption
    <3>2. B \subseteq calendar /\ B # {}
      BY <2>3, <3>1 DEF FoldInput, Train, Test
    <3>3. B \subseteq Nat /\ IsFiniteSet(B)
      BY <3>1, <3>2, FS_Subset
    <3>4. QED
      BY <3>2, <3>3, ResolvesRuns
  <2>4. QED
    BY <2>2, <2>3 DEF FoldsTileTheTestYears, TestBars
<1>2. QED
  BY <1>1, ReplayInvariant, TileInvariant, PTL

-----------------------------------------------------------------------------
(* Folds over sequences *)

\* Counting up to n reaches n.
LEMMA CountedUp ==
  ASSUME NEW n \in Nat, NEW Good, 0 \in Good,
         \A k \in 1 .. n : k - 1 \in Good => k \in Good
  PROVE  \A k \in 0 .. n : k \in Good
<1> DEFINE Bad == {k \in 0 .. n : k \notin Good}
<1>1. ASSUME Bad # {}
      PROVE  FALSE
  <2>1. Bad \subseteq Nat
    OBVIOUS
  <2>2. PICK k \in Bad : \A l \in Bad : k <= l
    <3>1. Min(Bad) \in Bad /\ \A l \in Bad : Min(Bad) <= l
      <4> HIDE DEF Bad
      <4>1. QED
        BY <1>1, <2>1, LeastOf
    <3>2. QED
      BY <3>1
  <2>3. k \in 0 .. n /\ k \notin Good /\ k # 0
    OBVIOUS
  <2>4. k \in 1 .. n /\ k - 1 \in 0 .. n /\ ~(k <= k - 1)
    BY <2>3
  <2>5. k - 1 \in Good
    BY <2>2, <2>4
  <2>6. QED
    BY <2>3, <2>4, <2>5
<1>2. QED
  BY <1>1

\* What a fold over the indices of a sequence computes for their subsets.
FoldsUp(h, n, base, step) ==
  \A S \in SUBSET (1 .. n) :
    h[S] = IF S = {} THEN base ELSE step[Max(S)][h[S \ {Max(S)}]]

LEMMA IndicesFold ==
  ASSUME NEW n \in Nat, NEW D, NEW base \in D, NEW step,
         \A k \in 1 .. n, d \in D : step[k][d] \in D
  PROVE  \E h \in [SUBSET (1 .. n) -> D] : FoldsUp(h, n, base, step)
<1> DEFINE first == [T \in SUBSET (1 .. n) |-> Max(T)]
<1>1. TakesOut(first, 1 .. n)
  BY MaxOfSome DEF TakesOut
<1>2. IsFiniteSet(1 .. n)
  <2>1. 1 \in Int /\ n \in Int
    OBVIOUS
  <2>2. QED
    BY <2>1, FS_Interval
<1> HIDE DEF first
<1>3. PICK h \in [SUBSET (1 .. n) -> D] : Follows(h, 1 .. n, base, first, step)
  <2> DEFINE R == 1 .. n
  <2>1. /\ TakesOut(first, R) /\ IsFiniteSet(R)
        /\ \A k \in R, d \in D : step[k][d] \in D
    BY <1>1, <1>2
  <2> HIDE DEF R
  <2>2. \E h \in [SUBSET R -> D] : Follows(h, R, base, first, step)
    BY <2>1, SomethingFollows
  <2>3. QED
    BY <2>2 DEF R
<1>4. \A S \in SUBSET (1 .. n) :
        h[S] = IF S = {} THEN base ELSE step[first[S]][h[S \ {first[S]}]]
  BY <1>3 DEF Follows
<1>5. \A S \in SUBSET (1 .. n) : first[S] = Max(S)
  BY DEF first
<1>6. FoldsUp(h, n, base, step)
  BY <1>4, <1>5 DEF FoldsUp
<1>7. QED
  BY <1>6

\* The prefix of the first k indices.
LEMMA PrefixOf ==
  ASSUME NEW n \in Nat, NEW k \in 1 .. n
  PROVE  /\ 1 .. k \in SUBSET (1 .. n) /\ 1 .. k # {}
         /\ Max(1 .. k) = k /\ (1 .. k) \ {Max(1 .. k)} = 1 .. (k - 1)
<1>1. 1 .. k \in SUBSET (1 .. n) /\ 1 .. k # {} /\ (1 .. k) \ {k} = 1 .. (k - 1)
  OBVIOUS
<1>2. k \in Nat /\ 1 .. k \in SUBSET (1 .. k) /\ k \in 1 .. k
  OBVIOUS
<1>3. Max(1 .. k) = k
  BY <1>1, <1>2, MaxOfSome
<1>4. QED
  BY <1>1, <1>3

-----------------------------------------------------------------------------
(* The next-open execution *)

\* One bar of the sequential replay.
Replayed(signals, days, rows, t) ==
  LET position == IF t = 1 THEN 0 ELSE signals[t - 1].target
      closing == t = Len(days) \/ days[t + 1] # days[t]
      exit == IF closing THEN Gap(position, 0) ELSE 0
  IN [position |-> position,
      ending |-> IF closing THEN 0 ELSE position,
      turnover |-> Gap(position, PriorEnd(rows, days, t)) + exit,
      from |-> OpenOf(t),
      to |-> IF closing THEN CloseOf(t) ELSE OpenOf(t + 1)]
ReplayedStep(signals, days, n, h) ==
  [S \in SUBSET (1 .. n) |->
     IF S = {} THEN <<>>
     ELSE Append(h[S \ {Max(S)}],
                 Replayed(signals, days, h[S \ {Max(S)}], [t \in 1 .. n |-> t][Max(S)]))]

LEMMA SequentialIsFold ==
  ASSUME NEW signals, NEW days, NEW n, Len(days) = n
  PROVE  SequentialRows(signals, days)
         = (CHOOSE h : h = ReplayedStep(signals, days, n, h))[1 .. n]
BY DEF SequentialRows, FoldLeft, MapThenFoldSet, ReplayedStep, Replayed

\* The rows that such a bar may add, to whichever rows.
PriorEnds == Positions \cup {Last(<<>>).position}
Turnovers == {Gap(p, q) + Gap(r, 0) : p \in Positions, q \in PriorEnds, r \in Positions}
ReplayedRows == [position : Positions, ending : Positions, turnover : Turnovers,
                 from : Int, to : Int]

LEMMA ReplayedTypes ==
  ASSUME NEW signals \in Seq(Observations), NEW days, NEW n \in Nat,
         Len(signals) = n, NEW t \in 1 .. n, NEW rows \in Seq(ReplayedRows)
  PROVE  Replayed(signals, days, rows, t) \in ReplayedRows
<1> DEFINE position == IF t = 1 THEN 0 ELSE signals[t - 1].target
           closing == t = Len(days) \/ days[t + 1] # days[t]
           exit == IF closing THEN Gap(position, 0) ELSE 0
<1>1. position \in Positions /\ 0 \in Positions
  <2>1. t # 1 => t - 1 \in 1 .. Len(signals)
    OBVIOUS
  <2>2. t # 1 => signals[t - 1] \in Observations
    BY <2>1, ElementOfSeq
  <2>3. QED
    BY <2>2 DEF Observations, Positions
<1>2. PriorEnd(rows, days, t) \in PriorEnds
  <2>1. CASE rows = <<>>
    BY <1>1, <2>1 DEF PriorEnd, PriorEnds
  <2>2. CASE rows # <<>>
    <3>1. Last(rows) \in ReplayedRows
      BY <2>2 DEF Last
    <3>2. Last(rows).position \in Positions
      BY <3>1 DEF ReplayedRows
    <3>3. QED
      BY <1>1, <3>2 DEF PriorEnd, PriorEnds
  <2>3. QED
    BY <2>1, <2>2
<1>3. \E r \in Positions : exit = Gap(r, 0)
  <2>1. Gap(0, 0) = 0
    BY DEF Gap
  <2>2. QED
    BY <1>1, <2>1
<1>4. OpenOf(t) \in Int /\ CloseOf(t) \in Int /\ OpenOf(t + 1) \in Int
  BY DEF OpenOf, CloseOf
<1>5. Gap(position, PriorEnd(rows, days, t)) + exit \in Turnovers
  <2> HIDE DEF position, exit
  <2>1. QED
    BY <1>1, <1>2, <1>3 DEF Turnovers
<1>6. Replayed(signals, days, rows, t)
      = [position |-> position,
         ending |-> IF closing THEN 0 ELSE position,
         turnover |-> Gap(position, PriorEnd(rows, days, t)) + exit,
         from |-> OpenOf(t),
         to |-> IF closing THEN CloseOf(t) ELSE OpenOf(t + 1)]
  BY DEF Replayed
<1> HIDE DEF position, exit, closing
<1>7. QED
  BY <1>1, <1>4, <1>5, <1>6 DEF ReplayedRows

\* Bar by bar, every prefix extends the one before it by a bar.
Extends(p, signals, days, n) ==
  /\ SequentialRows(signals, days) = p[n] /\ p[0] = <<>>
  /\ \A k \in 1 .. n :
       p[k] = Append(p[k - 1], Replayed(signals, days, p[k - 1], k))

LEMMA ReplayedPrefixes ==
  ASSUME NEW signals \in Seq(Observations), NEW days, NEW n \in Nat,
         Len(signals) = n, Len(days) = n
  PROVE  \E p : Extends(p, signals, days, n)
<1> DEFINE D == Seq(ReplayedRows)
           step == [k \in 1 .. n |-> [d \in D |-> Append(d, Replayed(signals, days, d, k))]]
<1>1. \A k \in 1 .. n, d \in D : step[k][d] \in D
  <2> SUFFICES ASSUME NEW k \in 1 .. n, NEW d \in D
               PROVE  Append(d, Replayed(signals, days, d, k)) \in D
    OBVIOUS
  <2>1. Replayed(signals, days, d, k) \in ReplayedRows
    BY ReplayedTypes
  <2>2. QED
    BY <2>1
<1>2. <<>> \in D
  OBVIOUS
<1>3. PICK g \in [SUBSET (1 .. n) -> D] :
        \A S \in SUBSET (1 .. n) :
          g[S] = IF S = {} THEN <<>> ELSE step[Max(S)][g[S \ {Max(S)}]]
  <2> DEFINE base == <<>>
  <2>1. base \in D /\ \A k \in 1 .. n, d \in D : step[k][d] \in D
    BY <1>1, <1>2
  <2> HIDE DEF D, step, base
  <2>2. \E g \in [SUBSET (1 .. n) -> D] : FoldsUp(g, n, base, step)
    BY <2>1, IndicesFold
  <2>3. QED
    BY <2>2 DEF base, FoldsUp
<1>4. ASSUME NEW S \in SUBSET (1 .. n), S # {}
      PROVE  g[S] = Append(g[S \ {Max(S)}],
                           Replayed(signals, days, g[S \ {Max(S)}],
                                    [t \in 1 .. n |-> t][Max(S)]))
  <2>1. Max(S) \in 1 .. n /\ S \ {Max(S)} \in SUBSET (1 .. n)
    BY <1>4, MaxOfSome
  <2>2. g[S \ {Max(S)}] \in D /\ [t \in 1 .. n |-> t][Max(S)] = Max(S)
    <3> HIDE DEF D
    <3>1. QED
      BY <2>1
  <2>3. g[S] = step[Max(S)][g[S \ {Max(S)}]]
    <3> HIDE DEF step
    <3>1. QED
      BY <1>3, <1>4
  <2> HIDE DEF D
  <2>4. QED
    BY <2>1, <2>2, <2>3
<1>5. g = ReplayedStep(signals, days, n, g)
  <2>1. g = [S \in SUBSET (1 .. n) |-> g[S]] /\ g[{}] = <<>>
    <3> HIDE DEF D, step
    <3>1. QED
      BY <1>3
  <2> HIDE DEF D, step
  <2>2. \A S \in SUBSET (1 .. n) :
          g[S] = IF S = {} THEN <<>>
                 ELSE Append(g[S \ {Max(S)}],
                             Replayed(signals, days, g[S \ {Max(S)}],
                                      [t \in 1 .. n |-> t][Max(S)]))
    BY <1>4, <2>1
  <2>3. QED
    BY <2>1, <2>2 DEF ReplayedStep
<1>6. PICK h : h = (CHOOSE f : f = ReplayedStep(signals, days, n, f))
  OBVIOUS
<1>7. h = ReplayedStep(signals, days, n, h)
  BY <1>5, <1>6
<1>8. SequentialRows(signals, days) = h[1 .. n]
  BY <1>6, SequentialIsFold
<1> DEFINE p == [k \in 0 .. n |-> h[1 .. k]]
<1>9. p[0] = <<>>
  <2>1. 1 .. 0 = {} /\ {} \in SUBSET (1 .. n)
    OBVIOUS
  <2>2. h[{}] = <<>>
    BY <1>7, <2>1 DEF ReplayedStep
  <2>3. QED
    BY <2>1, <2>2
<1>10. ASSUME NEW k \in 1 .. n
       PROVE  p[k] = Append(p[k - 1], Replayed(signals, days, p[k - 1], k))
  <2>1. /\ 1 .. k \in SUBSET (1 .. n) /\ 1 .. k # {}
        /\ Max(1 .. k) = k /\ (1 .. k) \ {Max(1 .. k)} = 1 .. (k - 1)
    BY PrefixOf
  <2>2. h[1 .. k] = Append(h[1 .. (k - 1)], Replayed(signals, days, h[1 .. (k - 1)], k))
    BY <1>7, <2>1 DEF ReplayedStep
  <2>3. p[k] = h[1 .. k] /\ p[k - 1] = h[1 .. (k - 1)]
    OBVIOUS
  <2>4. QED
    BY <2>2, <2>3
<1>11. p[n] = h[1 .. n]
  OBVIOUS
<1> HIDE DEF p
<1>12. Extends(p, signals, days, n)
  BY <1>8, <1>9, <1>10, <1>11 DEF Extends
<1>13. QED
  BY <1>12

\* The row of the vectorised accounts, as the sequential replay tells it.
AsReplayed(row) == [position |-> row.position, ending |-> row.ending,
                    turnover |-> row.openTurnover + row.closeTurnover,
                    from |-> row.from, to |-> row.to]

\* The fields of a row.
LEMMA NextOpenRow ==
  ASSUME NEW signals, NEW days, NEW t \in 1 .. Len(days),
         NEW row, row = NextOpenRows(signals, days)[t]
  PROVE  /\ row.position = PositionAt(signals, t)
         /\ row.eligible = EligibleAt(signals, t)
         /\ row.ending = IF ClosesSession(days, t) THEN 0 ELSE PositionAt(signals, t)
         /\ row.openTurnover = Gap(PositionAt(signals, t), Carried(signals, days, t))
         /\ row.closeTurnover = IF ClosesSession(days, t)
                                THEN Gap(PositionAt(signals, t), 0) ELSE 0
         /\ row.from = OpenOf(t)
         /\ row.to = IF ClosesSession(days, t) THEN CloseOf(t) ELSE OpenOf(t + 1)
BY DEF NextOpenRows

\* The sequential replay gives the rows of the vectorised accounts.
LEMMA ReplayedAlike ==
  ASSUME NEW signals \in Seq(Observations), NEW days, NEW n \in Nat,
         Len(signals) = n, Len(days) = n
  PROVE  \A t \in 1 .. n : SequentialRows(signals, days)[t]
                           = AsReplayed(NextOpenRows(signals, days)[t])
<1>0. PICK p : Extends(p, signals, days, n)
  BY ReplayedPrefixes
<1>1. /\ SequentialRows(signals, days) = p[n] /\ p[0] = <<>>
      /\ \A k \in 1 .. n :
           p[k] = Append(p[k - 1], Replayed(signals, days, p[k - 1], k))
  BY <1>0 DEF Extends
<1>2. PICK rows : rows = NextOpenRows(signals, days)
  OBVIOUS
<1> DEFINE Alike(k) == /\ p[k] \in Seq(ReplayedRows) /\ Len(p[k]) = k
                       /\ \A t \in 1 .. k : p[k][t] = AsReplayed(rows[t])
           Good == {k \in 0 .. n : Alike(k)}
<1>3. 0 \in Good
  <2>1. <<>> \in Seq(ReplayedRows) /\ Len(<<>>) = 0
    OBVIOUS
  <2>2. p[0] \in Seq(ReplayedRows) /\ Len(p[0]) = 0
    BY <1>1, <2>1
  <2>3. \A t \in 1 .. 0 : p[0][t] = AsReplayed(rows[t])
    OBVIOUS
  <2>4. QED
    BY <2>2, <2>3
<1>4. ASSUME NEW k \in 1 .. n, k - 1 \in Good
      PROVE  k \in Good
  <2>1. PICK q : q = p[k - 1]
    OBVIOUS
  <2>2. PICK next : next = Replayed(signals, days, q, k)
    OBVIOUS
  <2>3. /\ q \in Seq(ReplayedRows) /\ Len(q) = k - 1
        /\ \A t \in 1 .. (k - 1) : q[t] = AsReplayed(rows[t])
    BY <1>4, <2>1
  <2>4. p[k] = Append(q, next)
    BY <1>1, <2>1, <2>2
  <2>5. next \in ReplayedRows
    BY <2>2, <2>3, ReplayedTypes
  <2>6. /\ p[k] \in Seq(ReplayedRows) /\ Len(p[k]) = k /\ p[k][k] = next
        /\ \A t \in 1 .. (k - 1) : p[k][t] = q[t]
    BY <2>3, <2>4, <2>5
  <2>7. PriorEnd(q, days, k) = Carried(signals, days, k)
    <3>1. CASE k = 1 \/ days[k] # days[k - 1]
      BY <3>1 DEF PriorEnd, Carried, OpensSession
    <3>2. CASE ~(k = 1 \/ days[k] # days[k - 1])
      <4>1. k - 1 \in 1 .. (k - 1) /\ k - 1 \in 1 .. Len(days)
        BY <3>2
      <4>2. Last(q) = AsReplayed(rows[k - 1])
        BY <2>3, <4>1 DEF Last
      <4>3. Last(q).position = rows[k - 1].position
        BY <4>2 DEF AsReplayed
      <4>4. rows[k - 1].position = PositionAt(signals, k - 1)
        BY <1>2, <4>1, NextOpenRow
      <4>5. QED
        BY <3>2, <4>3, <4>4 DEF PriorEnd, Carried, OpensSession
    <3>3. QED
      BY <3>1, <3>2
  <2>8. (k = Len(days) \/ days[k + 1] # days[k]) <=> ClosesSession(days, k)
    BY DEF ClosesSession
  <2>9. next = AsReplayed(rows[k])
    <3>1. PICK row : row = rows[k]
      OBVIOUS
    <3>2. /\ row.position = PositionAt(signals, k)
          /\ row.ending = IF ClosesSession(days, k) THEN 0 ELSE PositionAt(signals, k)
          /\ row.openTurnover = Gap(PositionAt(signals, k), Carried(signals, days, k))
          /\ row.closeTurnover = IF ClosesSession(days, k)
                                 THEN Gap(PositionAt(signals, k), 0) ELSE 0
          /\ row.from = OpenOf(k)
          /\ row.to = IF ClosesSession(days, k) THEN CloseOf(k) ELSE OpenOf(k + 1)
      BY <1>2, <3>1, NextOpenRow
    <3>3. next = [position |-> PositionAt(signals, k),
                  ending |-> IF ClosesSession(days, k) THEN 0 ELSE PositionAt(signals, k),
                  turnover |-> Gap(PositionAt(signals, k), Carried(signals, days, k))
                               + IF ClosesSession(days, k)
                                 THEN Gap(PositionAt(signals, k), 0) ELSE 0,
                  from |-> OpenOf(k),
                  to |-> IF ClosesSession(days, k) THEN CloseOf(k) ELSE OpenOf(k + 1)]
      BY <2>2, <2>7, <2>8 DEF Replayed, PositionAt
    <3>4. QED
      BY <3>1, <3>2, <3>3 DEF AsReplayed
  <2>10. \A t \in 1 .. k : p[k][t] = AsReplayed(rows[t])
    <3>1. \A t \in 1 .. k : t = k \/ t \in 1 .. (k - 1)
      OBVIOUS
    <3>2. QED
      BY <2>3, <2>6, <2>9, <3>1
  <2>11. QED
    BY <2>6, <2>10
<1>5. n \in Good
  <2> HIDE DEF Good
  <2>1. QED
    BY <1>3, <1>4, CountedUp
<1>6. QED
  BY <1>1, <1>2, <1>5

\* What NextOpenTradesAddUp says of the rows of a window.
AddUp(signals, days, n, rows) ==
  \A t \in 1 .. n :
    /\ SequentialRows(signals, days)[t] =
         [position |-> rows[t].position, ending |-> rows[t].ending,
          turnover |-> rows[t].openTurnover + rows[t].closeTurnover,
          from |-> rows[t].from, to |-> rows[t].to]
    /\ rows[t].openTurnover =
         Gap(rows[t].position, IF t = 1 THEN 0 ELSE rows[t - 1].ending)
    /\ rows[t].closeTurnover = Gap(rows[t].position, rows[t].ending)
    /\ rows[t].position # 0 =>
         /\ rows[t].eligible
         /\ rows[t].from > CloseOf(t - 1)
         /\ days[rows[t].to \div 2] = days[t]
    /\ (t = n \/ days[t + 1] # days[t]) => rows[t].ending = 0

\* The accounts of every row, for signals that hold nothing while unavailable.
LEMMA NextOpenAccounts ==
  ASSUME NEW signals \in Seq(Observations), NEW days, NEW n \in Nat,
         Len(signals) = n, Len(days) = n,
         \A k \in 1 .. n : signals[k].target # 0 => signals[k].available,
         NEW rows, rows = NextOpenRows(signals, days), NEW t \in 1 .. n
  PROVE  /\ rows[t].openTurnover =
              Gap(rows[t].position, IF t = 1 THEN 0 ELSE rows[t - 1].ending)
         /\ rows[t].closeTurnover = Gap(rows[t].position, rows[t].ending)
         /\ rows[t].position # 0 =>
              /\ rows[t].eligible
              /\ rows[t].from > CloseOf(t - 1)
              /\ days[rows[t].to \div 2] = days[t]
         /\ (t = n \/ days[t + 1] # days[t]) => rows[t].ending = 0
<1>1. PICK row : row = rows[t]
  OBVIOUS
<1>2. /\ row.position = PositionAt(signals, t)
      /\ row.eligible = EligibleAt(signals, t)
      /\ row.ending = IF ClosesSession(days, t) THEN 0 ELSE PositionAt(signals, t)
      /\ row.openTurnover = Gap(PositionAt(signals, t), Carried(signals, days, t))
      /\ row.closeTurnover = IF ClosesSession(days, t)
                             THEN Gap(PositionAt(signals, t), 0) ELSE 0
      /\ row.from = OpenOf(t)
      /\ row.to = IF ClosesSession(days, t) THEN CloseOf(t) ELSE OpenOf(t + 1)
  BY <1>1, NextOpenRow
<1>3. (t = n \/ days[t + 1] # days[t]) <=> ClosesSession(days, t)
  BY DEF ClosesSession
<1>4. row.openTurnover = Gap(row.position, IF t = 1 THEN 0 ELSE rows[t - 1].ending)
  <2>1. CASE t = 1
    BY <1>2, <2>1 DEF Carried
  <2>2. CASE t # 1
    <3>1. t - 1 \in 1 .. Len(days) /\ t - 1 # n /\ (t - 1) + 1 = t
      BY <2>2
    <3>2. rows[t - 1].ending
          = IF ClosesSession(days, t - 1) THEN 0 ELSE PositionAt(signals, t - 1)
      BY <3>1, NextOpenRow
    <3>3. ClosesSession(days, t - 1) <=> OpensSession(days, t)
      BY <2>2, <3>1 DEF ClosesSession, OpensSession
    <3>4. QED
      BY <1>2, <2>2, <3>2, <3>3 DEF Carried
  <2>3. QED
    BY <2>1, <2>2
<1>5. row.closeTurnover = Gap(row.position, row.ending)
  <2>1. PositionAt(signals, t) \in Int
    <3>1. CASE t = 1
      BY <3>1 DEF PositionAt
    <3>2. CASE t # 1
      <4>1. t - 1 \in 1 .. Len(signals)
        BY <3>2
      <4>2. PICK signal \in Observations : signal = signals[t - 1]
        BY <4>1, ElementOfSeq
      <4>3. signal.target \in Positions
        BY DEF Observations
      <4>4. QED
        BY <3>2, <4>2, <4>3 DEF PositionAt, Positions
    <3>3. QED
      BY <3>1, <3>2
  <2>2. Gap(PositionAt(signals, t), PositionAt(signals, t)) = 0
    BY <2>1 DEF Gap
  <2>3. QED
    BY <1>2, <2>2
<1>6. ASSUME row.position # 0
      PROVE  /\ row.eligible
             /\ row.from > CloseOf(t - 1)
             /\ days[row.to \div 2] = days[t]
  <2>1. t # 1 /\ signals[t - 1].target # 0
    BY <1>2, <1>6 DEF PositionAt
  <2>2. t - 1 \in 1 .. n
    BY <2>1
  <2>3. row.eligible
    <3>1. t > 1 /\ signals[t - 1].available
      BY <2>1, <2>2
    <3>2. EligibleAt(signals, t)
      BY <3>1, Zenon DEF EligibleAt
    <3>3. QED
      BY <1>2, <3>2, Zenon
  <2>4. row.from > CloseOf(t - 1)
    BY <1>2 DEF OpenOf, CloseOf
  <2>5. CASE ClosesSession(days, t)
    <3>1. (2 * t + 1) \div 2 = t
      OBVIOUS
    <3>2. QED
      BY <1>2, <2>3, <2>4, <2>5, <3>1 DEF CloseOf
  <2>6. CASE ~ClosesSession(days, t)
    <3>1. (2 * (t + 1)) \div 2 = t + 1
      OBVIOUS
    <3>2. days[t + 1] = days[t]
      BY <1>3, <2>6
    <3>3. QED
      BY <1>2, <2>3, <2>4, <2>6, <3>1, <3>2 DEF OpenOf
  <2>7. QED
    BY <2>5, <2>6
<1>7. QED
  BY <1>1, <1>2, <1>3, <1>4, <1>5, <1>6

\* A signal that is not available holds nothing, in every row.
SignalsKept == \A k \in 1 .. Len(ledger) : ledger[k].target # 0 => ledger[k].available

LEMMA SignalsInvariant == Spec => []SignalsKept
<1>1. Init => SignalsKept
  BY DEF Init, SignalsKept
<1>2. ReplayInv /\ EvidenceInv /\ SignalsKept /\ [Next]_vars => SignalsKept'
  <2> SUFFICES ASSUME ReplayInv, EvidenceInv, SignalsKept, [Next]_vars
               PROVE  SignalsKept'
    OBVIOUS
  <2>1. ASSUME ledger' = ledger \/ ledger' = <<>>
        PROVE  SignalsKept'
    BY <2>1 DEF SignalsKept
  <2>2. CASE MapFold
    BY <2>1, <2>2 DEF MapFold, Fault, OpenWindow
  <2>3. CASE ReplayStep
    <3>1. CASE Fault("ruin")
      BY <2>1, <3>1 DEF Fault
    <3>2. CASE Replaying /\ \E signal \in Signals, return \in Returns :
                              Advance(signal, return)
      <4>1. PICK signal \in Signals, return \in Returns : Advance(signal, return)
        BY <3>2
      <4>2. PICK row : row = Observation(state, signal, return)
        OBVIOUS
      <4>3. state \in ReplayStates /\ ledger \in Seq(Observations)
        BY DEF ReplayInv, ReplayTypes
      <4>4. row \in Observations
        BY <4>2, <4>3, ObservationTypes
      <4>5. row.target = signal.target /\ row.available = signal.available
        BY <4>2 DEF Observation
      <4>6. row.target # 0 => row.available
        BY <4>5 DEF Signals
      <4>7. ledger' = Append(ledger, row)
        BY <4>1, <4>2 DEF Advance
      <4>8. /\ Len(ledger') = Len(ledger) + 1 /\ ledger'[Len(ledger) + 1] = row
            /\ \A k \in 1 .. Len(ledger) : ledger'[k] = ledger[k]
        BY <4>3, <4>4, <4>7, Appended
      <4>9. \A k \in 1 .. (Len(ledger) + 1) : k \in 1 .. Len(ledger) \/ k = Len(ledger) + 1
        BY <4>3
      <4>10. QED
        BY <4>6, <4>8, <4>9 DEF SignalsKept
    <3>3. QED
      BY <2>3, <3>1, <3>2, BarOutcome DEF ReplayStep
  <2>4. CASE CloseFold
    BY <2>1, <2>4 DEF CloseFold, Fault
  <2>5. CASE Aggregate
    BY <2>1, <2>5 DEF Aggregate
  <2>6. CASE UNCHANGED vars
    BY <2>1, <2>6 DEF vars, replayVars
  <2>7. QED
    BY <2>2, <2>3, <2>4, <2>5, <2>6 DEF Next
<1>3. QED
  BY <1>1, <1>2, ReplayInvariant, EvidenceInvariant, PTL DEF Spec

\* The next-open accounts of a finished window add up, and the sequential
\* replay gives the same rows (apply_causal_next_open_overnight_flat,
\* sequential_next_open_replay): for a window of any length, whatever its
\* sessions and signals.
THEOREM NextOpenAddsUp == Spec => []NextOpenTradesAddUp
<1>1. ReplayInv /\ SignalsKept => NextOpenTradesAddUp
  <2> SUFFICES ASSUME ReplayInv, SignalsKept, phase = "replay", Bar > size
               PROVE  NextOpenTradesAddUp
    BY DEF NextOpenTradesAddUp
  <2>1. /\ ledger \in Seq(Observations) /\ size \in Nat /\ Len(ledger) = size
    BY DEF ReplayInv, ReplayTypes, Bar
  <2>2. PICK days : days = [i \in 1 .. size |-> Day(window[i])]
    OBVIOUS
  <2>3. Len(days) = size
    <3> DEFINE S == {Day(window[i]) : i \in 1 .. size}
    <3>1. days \in [1 .. size -> S] /\ DOMAIN days = 1 .. size
      BY <2>2
    <3> HIDE DEF S
    <3>2. days \in Seq(S)
      BY <2>1, <3>1, IsASeq
    <3>3. QED
      BY <2>1, <3>1, <3>2, LenProperties
  <2>4. PICK rows : rows = NextOpenRows(ledger, days)
    OBVIOUS
  <2>5. \A k \in 1 .. size : ledger[k].target # 0 => ledger[k].available
    BY <2>1 DEF SignalsKept
  <2>6. ASSUME NEW t \in 1 .. size
        PROVE  SequentialRows(ledger, days)[t]
               = [position |-> rows[t].position, ending |-> rows[t].ending,
                  turnover |-> rows[t].openTurnover + rows[t].closeTurnover,
                  from |-> rows[t].from, to |-> rows[t].to]
    BY <2>1, <2>3, <2>4, ReplayedAlike DEF AsReplayed
  <2>7. ASSUME NEW t \in 1 .. size
        PROVE  /\ rows[t].openTurnover =
                    Gap(rows[t].position, IF t = 1 THEN 0 ELSE rows[t - 1].ending)
               /\ rows[t].closeTurnover = Gap(rows[t].position, rows[t].ending)
               /\ rows[t].position # 0 =>
                    /\ rows[t].eligible
                    /\ rows[t].from > CloseOf(t - 1)
                    /\ days[rows[t].to \div 2] = days[t]
               /\ (t = size \/ days[t + 1] # days[t]) => rows[t].ending = 0
    BY <2>1, <2>3, <2>4, <2>5, NextOpenAccounts
  <2>8. AddUp(ledger, days, size, rows)
    BY <2>6, <2>7 DEF AddUp
  <2>9. AddUp(ledger, [i \in 1 .. size |-> Day(window[i])], size,
              NextOpenRows(ledger, [i \in 1 .. size |-> Day(window[i])]))
    BY <2>2, <2>4, <2>8
  <2>10. QED
    BY <2>9, Zenon DEF NextOpenTradesAddUp, AddUp
<1>2. QED
  BY <1>1, ReplayInvariant, SignalsInvariant, PTL

-----------------------------------------------------------------------------
(* Pieces of a sequence *)

\* The library's FlattenSeq, by its recursive function.
FlattenStep(seqs, n, g) ==
  [i \in 1 .. n |-> IF i = 1 THEN seqs[i] ELSE g[i - 1] \o seqs[i]]

LEMMA FlattenUnfolds ==
  ASSUME NEW seqs, Len(seqs) # 0
  PROVE  FlattenSeq(seqs) =
           (CHOOSE g : g = FlattenStep(seqs, Len(seqs), g))[Len(seqs)]
BY DEF FlattenSeq, FlattenStep

\* Joined up to k: what the first k of the sequences give together.
JoinsUp(p, seqs, n) ==
  /\ p[0] = <<>>
  /\ \A k \in 1 .. n : p[k] = p[k - 1] \o seqs[k]

\* The pieces have joined prefixes, the last of which is FlattenSeq.
Flattens(p, X, seqs, n) ==
  p \in [0 .. n -> Seq(X)] /\ JoinsUp(p, seqs, n) /\ FlattenSeq(seqs) = p[n]

LEMMA FlattenJoins ==
  ASSUME NEW X, NEW seqs \in Seq(Seq(X)), NEW n, n = Len(seqs)
  PROVE  \E p : Flattens(p, X, seqs, n)
<1>1. n \in Nat /\ \A k \in 1 .. n : seqs[k] \in Seq(X)
  BY LenProperties, ElementOfSeq
<1> DEFINE D == Seq(X)
           base == <<>>
           step == [k \in 1 .. n |-> [d \in D |-> d \o seqs[k]]]
<1>2. base \in D /\ \A k \in 1 .. n, d \in D : step[k][d] \in D
  BY <1>1
<1>3. PICK h \in [SUBSET (1 .. n) -> D] : FoldsUp(h, n, base, step)
  <2> HIDE DEF D, base, step
  <2>1. QED
    BY <1>1, <1>2, IndicesFold
<1> DEFINE p == [k \in 0 .. n |-> h[1 .. k]]
<1>4. p \in [0 .. n -> D]
  <2>1. \A k \in 0 .. n : 1 .. k \in SUBSET (1 .. n)
    BY <1>1
  <2> HIDE DEF D
  <2>2. QED
    BY <2>1
<1>5. p[0] = base
  <2>1. 1 .. 0 = {} /\ {} \in SUBSET (1 .. n) /\ 0 \in 0 .. n
    BY <1>1
  <2>2. h[{}] = base
    <3> HIDE DEF D, base, step
    <3>1. QED
      BY <1>3, <2>1 DEF FoldsUp
  <2>3. QED
    BY <2>1, <2>2
<1>6. ASSUME NEW k \in 1 .. n
      PROVE  p[k] = p[k - 1] \o seqs[k]
  <2>1. /\ 1 .. k \in SUBSET (1 .. n) /\ 1 .. k # {}
        /\ Max(1 .. k) = k /\ (1 .. k) \ {Max(1 .. k)} = 1 .. (k - 1)
    BY <1>1, PrefixOf
  <2>2. h[1 .. k] = step[k][h[1 .. (k - 1)]]
    <3> HIDE DEF D, base, step
    <3>1. QED
      BY <1>3, <2>1 DEF FoldsUp
  <2>3. p[k] = h[1 .. k] /\ p[k - 1] = h[1 .. (k - 1)] /\ h[1 .. (k - 1)] \in D
    <3>1. k - 1 \in 0 .. n /\ k \in 0 .. n
      BY <1>1
    <3> HIDE DEF D
    <3>2. QED
      BY <1>4, <3>1 DEF p
  <2> HIDE DEF p, D
  <2>4. QED
    BY <2>2, <2>3
<1>7. JoinsUp(p, seqs, n)
  <2> HIDE DEF p
  <2>1. QED
    BY <1>5, <1>6 DEF JoinsUp
<1>8. FlattenSeq(seqs) = p[n]
  <2>1. CASE n = 0
    <3> DEFINE Z == Seq(X)
    <3>1. seqs \in Seq(Z) /\ Len(seqs) = 0
      BY <2>1
    <3> HIDE DEF Z, p, base, step
    <3>2. seqs = <<>>
      BY <3>1, EmptySeq
    <3>3. FlattenSeq(seqs) = seqs
      BY <2>1 DEF FlattenSeq
    <3>4. QED
      BY <1>5, <2>1, <3>2, <3>3 DEF base
  <2>2. CASE n # 0
    <3>1. n \in 1 .. n
      BY <1>1, <2>2
    <3> DEFINE f == [k \in 1 .. n |-> p[k]]
    <3>2. f = FlattenStep(seqs, n, f)
      <4>1. ASSUME NEW k \in 1 .. n
            PROVE  f[k] = IF k = 1 THEN seqs[k] ELSE f[k - 1] \o seqs[k]
        <5>1. p[k] = p[k - 1] \o seqs[k] /\ f[k] = p[k]
          <6> HIDE DEF p
          <6>1. QED
            BY <1>6
        <5>2. CASE k = 1
          <6>1. p[k - 1] = <<>>
            <7> HIDE DEF p
            <7>1. QED
              BY <1>5, <5>2
          <6>2. <<>> \o seqs[k] = seqs[k]
            BY <1>1
          <6> HIDE DEF p, f
          <6>3. QED
            BY <5>1, <5>2, <6>1, <6>2
        <5>3. CASE k # 1
          <6>1. k - 1 \in 1 .. n
            BY <5>3
          <6>2. f[k - 1] = p[k - 1]
            <7> HIDE DEF p
            <7>1. QED
              BY <6>1
          <6> HIDE DEF p, f
          <6>3. QED
            BY <5>1, <5>3, <6>2
        <5>4. QED
          BY <5>2, <5>3
      <4>2. f = [k \in 1 .. n |-> f[k]]
        OBVIOUS
      <4> HIDE DEF f
      <4>3. QED
        BY <4>1, <4>2 DEF FlattenStep
    <3>3. PICK g : g = (CHOOSE e : e = FlattenStep(seqs, n, e))
      OBVIOUS
    <3>4. g = FlattenStep(seqs, n, g)
      <4> HIDE DEF f
      <4>1. QED
        BY <3>2, <3>3
    <3>5. \A k \in 1 .. n : g[k] = IF k = 1 THEN seqs[k] ELSE g[k - 1] \o seqs[k]
      BY <3>4 DEF FlattenStep
    <3> DEFINE Good == {k \in 0 .. n : k = 0 \/ g[k] = p[k]}
    <3> HIDE DEF p, f
    <3>6. 0 \in Good
      BY <1>1
    <3>7. ASSUME NEW k \in 1 .. n, k - 1 \in Good
          PROVE  k \in Good
      <4>1. p[k] = p[k - 1] \o seqs[k]
        BY <1>6
      <4>2. g[k] = p[k]
        <5>1. CASE k = 1
          <6>1. p[k - 1] = <<>> /\ <<>> \o seqs[k] = seqs[k]
            BY <1>1, <1>5, <5>1
          <6>2. g[k] = seqs[k]
            BY <3>5, <5>1
          <6>3. QED
            BY <4>1, <6>1, <6>2
        <5>2. CASE k # 1
          <6>1. g[k - 1] = p[k - 1]
            BY <3>7, <5>2
          <6>2. g[k] = g[k - 1] \o seqs[k]
            BY <3>5, <5>2
          <6>3. QED
            BY <4>1, <6>1, <6>2
        <5>3. QED
          BY <5>1, <5>2
      <4>3. QED
        BY <1>1, <4>2
    <3>8. n \in Good
      <4> HIDE DEF Good
      <4>1. \A k \in 0 .. n : k \in Good
        BY <1>1, <3>6, <3>7, CountedUp
      <4>2. QED
        BY <1>1, <4>1
    <3>9. FlattenSeq(seqs) = g[n]
      BY <2>2, <3>3, FlattenUnfolds
    <3>10. QED
      BY <2>2, <3>8, <3>9
  <2>3. QED
    BY <2>1, <2>2
<1> HIDE DEF p, base, step
<1>9. Flattens(p, X, seqs, n)
  BY <1>4, <1>7, <1>8 DEF Flattens
<1>10. QED
  BY <1>9

\* The same pieces join to the same.
LEMMA JoinsOnce ==
  ASSUME NEW n \in Nat, NEW a, NEW b, \A k \in 1 .. n : a[k] = b[k],
         NEW p, JoinsUp(p, a, n), NEW q, JoinsUp(q, b, n)
  PROVE  p[n] = q[n]
<1> DEFINE Good == {k \in 0 .. n : p[k] = q[k]}
<1>1. 0 \in Good
  BY DEF JoinsUp
<1>2. ASSUME NEW k \in 1 .. n, k - 1 \in Good
      PROVE  k \in Good
  <2>1. p[k - 1] = q[k - 1] /\ a[k] = b[k] /\ k \in 0 .. n
    BY <1>2
  <2>2. p[k] = p[k - 1] \o a[k] /\ q[k] = q[k - 1] \o b[k]
    BY DEF JoinsUp
  <2>3. QED
    BY <2>1, <2>2
<1> HIDE DEF Good
<1>3. \A k \in 0 .. n : k \in Good
  BY <1>1, <1>2, CountedUp
<1>4. QED
  BY <1>3 DEF Good

\* One more piece is put behind what was joined.
LEMMA FlattenAppend ==
  ASSUME NEW X, NEW seqs \in Seq(Seq(X)), NEW t \in Seq(X)
  PROVE  /\ FlattenSeq(seqs) \in Seq(X)
         /\ FlattenSeq(Append(seqs, t)) = FlattenSeq(seqs) \o t
<1>1. PICK n : n = Len(seqs)
  OBVIOUS
<1>2. PICK u : u = Append(seqs, t)
  OBVIOUS
<1>3. n \in Nat /\ u \in Seq(Seq(X)) /\ Len(u) = n + 1 /\ u[n + 1] = t
      /\ \A k \in 1 .. n : u[k] = seqs[k]
  <2>1. Seq(X) # {} /\ t \in Seq(X)
    OBVIOUS
  <2> DEFINE Z == Seq(X)
  <2> HIDE DEF Z
  <2>2. seqs \in Seq(Z) /\ t \in Z
    BY DEF Z
  <2>3. u \in Seq(Z) /\ Len(u) = n + 1 /\ u[n + 1] = t /\ n \in Nat
        /\ \A k \in 1 .. n : u[k] = seqs[k]
    BY <1>1, <1>2, <2>2
  <2>4. QED
    BY <2>3 DEF Z
<1>4. PICK p : Flattens(p, X, seqs, n)
  BY <1>1, FlattenJoins
<1>5. PICK q : Flattens(q, X, u, n + 1)
  BY <1>3, FlattenJoins
<1>6. JoinsUp(p, seqs, n) /\ JoinsUp(q, u, n)
  <2>1. \A k \in 1 .. n : k \in 1 .. (n + 1)
    BY <1>3
  <2>2. QED
    BY <1>4, <1>5, <2>1 DEF JoinsUp, Flattens
<1>7. p[n] = q[n]
  <2>1. \A k \in 1 .. n : seqs[k] = u[k]
    BY <1>3
  <2>2. QED
    BY <1>3, <1>6, <2>1, JoinsOnce
<1>8. q[n + 1] = q[n] \o u[n + 1]
  <2>1. n + 1 \in 1 .. (n + 1) /\ (n + 1) - 1 = n
    BY <1>3
  <2>2. q[n + 1] = q[(n + 1) - 1] \o u[n + 1]
    BY <1>5, <2>1 DEF JoinsUp, Flattens
  <2>3. QED
    BY <2>1, <2>2
<1>9. FlattenSeq(seqs) \in Seq(X)
  <2>1. n \in 0 .. n
    BY <1>3
  <2>2. QED
    BY <1>4, <2>1 DEF Flattens
<1>10. QED
  BY <1>2, <1>3, <1>4, <1>5, <1>7, <1>8, <1>9 DEF Flattens

\* Placed pieces, each piece after those before it, are placed together.
LEMMA PlacedJoin ==
  ASSUME NEW before, NEW A, NEW s, Placed(s, before, A),
         NEW B, NEW r, Placed(r, before, B), \A x \in A, y \in B : x \in before[y]
  PROVE  Placed(s \o r, before, A \cup B)
<1> DEFINE m == Len(s)
           n == Len(r)
           C == A \cup B
<1>1. PICK j : j = s \o r
  OBVIOUS
<1>2. /\ s \in Seq(A) /\ r \in Seq(B) /\ m \in Nat /\ n \in Nat
      /\ \A i \in 1 .. m : s[i] \in A
      /\ \A i \in 1 .. n : r[i] \in B
      /\ \A x \in A : \E i \in 1 .. m : s[i] = x
      /\ \A x \in B : \E i \in 1 .. n : r[i] = x
      /\ \A i, k \in 1 .. m : i < k => s[i] \in before[s[k]]
      /\ \A i, k \in 1 .. n : i < k => r[i] \in before[r[k]]
  BY LenProperties, ElementOfSeq DEF Placed
<1>3. /\ j \in Seq(C) /\ Len(j) = m + n
      /\ \A i \in 1 .. m : j[i] = s[i]
      /\ \A i \in 1 .. n : j[m + i] = r[i]
  <2>1. s \in Seq(C) /\ r \in Seq(C)
    BY <1>2
  <2> HIDE DEF C
  <2>2. QED
    BY <1>1, <2>1
<1> HIDE DEF m, n, C
<1>4. ASSUME NEW i \in 1 .. (m + n)
      PROVE  \/ i \in 1 .. m /\ j[i] = s[i]
             \/ i - m \in 1 .. n /\ j[i] = r[i - m]
  <2>1. i \in 1 .. m \/ i - m \in 1 .. n
    BY <1>2
  <2>2. i - m \in 1 .. n => j[m + (i - m)] = r[i - m]
    BY <1>3
  <2>3. m + (i - m) = i
    BY <1>2
  <2>4. QED
    BY <1>3, <2>1, <2>2, <2>3
<1>5. ASSUME NEW i \in 1 .. (m + n), NEW k \in 1 .. (m + n), i < k
      PROVE  j[i] \in before[j[k]]
  <2>1. CASE i \in 1 .. m /\ j[i] = s[i] /\ k \in 1 .. m /\ j[k] = s[k]
    BY <1>2, <1>5, <2>1
  <2>2. CASE i \in 1 .. m /\ j[i] = s[i] /\ k - m \in 1 .. n /\ j[k] = r[k - m]
    BY <1>2, <2>2
  <2>3. CASE i - m \in 1 .. n /\ j[i] = r[i - m] /\ k \in 1 .. m
    BY <1>2, <1>5, <2>3
  <2>4. CASE /\ i - m \in 1 .. n /\ j[i] = r[i - m]
             /\ k - m \in 1 .. n /\ j[k] = r[k - m]
    <3>1. i - m < k - m
      BY <1>2, <1>5
    <3>2. QED
      BY <1>2, <2>4, <3>1
  <2>5. QED
    BY <1>4, <2>1, <2>2, <2>3, <2>4
<1>6. ASSUME NEW x \in C
      PROVE  \E i \in 1 .. (m + n) : j[i] = x
  <2>1. CASE x \in A
    <3>1. PICK i \in 1 .. m : s[i] = x
      BY <1>2, <2>1
    <3>2. i \in 1 .. (m + n)
      BY <1>2
    <3>3. QED
      BY <1>3, <3>1, <3>2
  <2>2. CASE x \in B
    <3>1. PICK i \in 1 .. n : r[i] = x
      BY <1>2, <2>2
    <3>2. m + i \in 1 .. (m + n)
      BY <1>2
    <3>3. QED
      BY <1>3, <3>1, <3>2
  <2>3. QED
    BY <2>1, <2>2 DEF C
<1>7. Placed(j, before, C)
  BY <1>3, <1>5, <1>6 DEF Placed
<1>8. QED
  BY <1>1, <1>7 DEF C

\* The elements of the first k parts.
Parts(part, S, k) == {x \in S : \E b \in 1 .. k : x \in part[b]}

LEMMA FlattenPlaced ==
  ASSUME NEW S, NEW before, NEW seqs \in Seq(Seq(S)), NEW n, n = Len(seqs),
         NEW part, \A b \in 1 .. n : part[b] \subseteq S /\ Placed(seqs[b], before, part[b]),
         \A b, c \in 1 .. n : b < c =>
           \A x \in part[b], y \in part[c] : x \in before[y]
  PROVE  Placed(FlattenSeq(seqs), before, Parts(part, S, n))
<1>1. PICK p : Flattens(p, S, seqs, n)
  BY FlattenJoins
<1>2. /\ p[0] = <<>> /\ FlattenSeq(seqs) = p[n]
      /\ \A k \in 1 .. n : p[k] = p[k - 1] \o seqs[k]
  BY <1>1 DEF Flattens, JoinsUp
<1>3. n \in Nat
  BY LenProperties
<1> DEFINE Good == {k \in 0 .. n : Placed(p[k], before, Parts(part, S, k))}
<1>4. 0 \in Good
  <2>1. Parts(part, S, 0) = {}
    BY DEF Parts
  <2>2. Placed(<<>>, before, {})
    BY DEF Placed
  <2>3. Placed(p[0], before, Parts(part, S, 0))
    BY <1>2, <2>1, <2>2
  <2>4. 0 \in 0 .. n
    BY <1>3
  <2>5. QED
    BY <2>3, <2>4
<1>5. ASSUME NEW k \in 1 .. n, k - 1 \in Good
      PROVE  k \in Good
  <2>1. Placed(p[k - 1], before, Parts(part, S, k - 1))
    BY <1>5
  <2>2. Placed(seqs[k], before, part[k]) /\ part[k] \subseteq S
    OBVIOUS
  <2>3. \A b : b \in 1 .. k <=> b \in 1 .. (k - 1) \/ b = k
    BY <1>3
  <2>4. Parts(part, S, k) = Parts(part, S, k - 1) \cup part[k]
    BY <2>2, <2>3 DEF Parts
  <2>5. ASSUME NEW x \in Parts(part, S, k - 1), NEW y \in part[k]
        PROVE  x \in before[y]
    <3>1. PICK b \in 1 .. (k - 1) : x \in part[b]
      BY DEF Parts
    <3>2. b \in 1 .. n /\ b < k
      BY <1>3
    <3>3. QED
      BY <3>1, <3>2
  <2>6. Placed(p[k], before, Parts(part, S, k))
    <3>1. PICK A : A = Parts(part, S, k - 1)
      OBVIOUS
    <3>2. PICK B : B = part[k]
      OBVIOUS
    <3>3. PICK a : a = p[k - 1]
      OBVIOUS
    <3>4. PICK b : b = seqs[k]
      OBVIOUS
    <3>5. Placed(a, before, A) /\ Placed(b, before, B)
      BY <2>1, <2>2, <3>1, <3>2, <3>3, <3>4
    <3>6. \A x \in A, y \in B : x \in before[y]
      BY <2>5, <3>1, <3>2
    <3>7. Placed(a \o b, before, A \cup B)
      BY <3>5, <3>6, PlacedJoin
    <3>8. p[k] = a \o b
      BY <1>2, <3>3, <3>4
    <3>9. Parts(part, S, k) = A \cup B
      BY <2>4, <3>1, <3>2
    <3>10. QED
      BY <3>7, <3>8, <3>9
  <2>7. k \in 0 .. n
    BY <1>3
  <2>8. QED
    BY <2>6, <2>7
<1>6. n \in Good
  <2> HIDE DEF Good
  <2>1. \A k \in 0 .. n : k \in Good
    BY <1>3, <1>4, <1>5, CountedUp
  <2>2. QED
    BY <1>3, <2>1
<1>7. QED
  BY <1>2, <1>6

-----------------------------------------------------------------------------
(* Trades in time order *)

Trades == [at : Nat, size : Nat \ {0}]
SamplingTypes == trades \in Seq(Trades)

\* Of each of them, those that come before it.
Earlier(S) == [i \in S |-> {j \in S : InTime(j, i)}]

LEMMA TradeTypes ==
  ASSUME SamplingTypes
  PROVE  /\ Len(trades) \in Nat /\ DOMAIN trades = 1 .. Len(trades)
         /\ \A i \in DOMAIN trades : trades[i].at \in Nat /\ trades[i].size \in Nat \ {0}
<1>1. Len(trades) \in Nat /\ DOMAIN trades = 1 .. Len(trades)
  BY LenProperties DEF SamplingTypes
<1>2. ASSUME NEW i \in DOMAIN trades
      PROVE  trades[i].at \in Nat /\ trades[i].size \in Nat \ {0}
  <2>1. trades[i] \in Trades
    BY <1>1, ElementOfSeq DEF SamplingTypes
  <2>2. QED
    BY <2>1 DEF Trades
<1>3. QED
  BY <1>1, <1>2

LEMMA EarlierOrders ==
  ASSUME SamplingTypes, NEW S, S \subseteq DOMAIN trades
  PROVE  Precedes(Earlier(S), S) /\ IsFiniteSet(S)
<1>1. \A i \in S : i \in Nat /\ trades[i].at \in Nat
  BY TradeTypes
<1>2. IsFiniteSet(S)
  <2>1. 1 \in Int /\ Len(trades) \in Int /\ DOMAIN trades = 1 .. Len(trades)
    BY TradeTypes
  <2>2. IsFiniteSet(1 .. Len(trades))
    BY <2>1, FS_Interval
  <2>3. QED
    BY <2>1, <2>2, FS_Subset
<1>3. /\ Earlier(S) \in [S -> SUBSET S]
      /\ \A i \in S : \A j : j \in Earlier(S)[i] <=> j \in S /\ InTime(j, i)
  BY DEF Earlier
<1>4. \A i \in S : ~InTime(i, i)
  BY <1>1 DEF InTime
<1>5. \A i, j, k \in S : InTime(i, j) /\ InTime(j, k) => InTime(i, k)
  BY <1>1 DEF InTime
<1>6. \A i, j \in S : i = j \/ InTime(i, j) \/ InTime(j, i)
  BY <1>1 DEF InTime
<1>7. QED
  BY <1>2, <1>3, <1>4, <1>5, <1>6 DEF Precedes

LEMMA ArrangedIsPlaced ==
  ASSUME SamplingTypes, NEW S, S \subseteq DOMAIN trades
  PROVE  Placed(Arranged(S), Earlier(DOMAIN trades), S)
         /\ Len(Arranged(S)) = Cardinality(S)
<1>1. Arranged(S) = Ranked(Earlier(S))
  BY DEF Arranged, Earlier
<1>2. Placed(Arranged(S), Earlier(S), S) /\ Len(Arranged(S)) = Cardinality(S)
  BY <1>1, EarlierOrders, RankedIsPlaced
<1>3. \A i \in S : Earlier(S)[i] \subseteq Earlier(DOMAIN trades)[i]
  BY DEF Earlier
<1>4. \A i \in 1 .. Len(Arranged(S)) : Arranged(S)[i] \in S
  BY <1>2, ElementOfSeq DEF Placed
<1>5. QED
  BY <1>2, <1>3, <1>4 DEF Placed

\* The trades themselves.
LEMMA PreparedIsPlaced ==
  ASSUME SamplingTypes
  PROVE  /\ Placed(Prepared, Earlier(DOMAIN trades), DOMAIN trades)
         /\ Prepared \in Seq(DOMAIN trades) /\ Len(Prepared) = Len(trades)
         /\ Prepared = Ranked(Earlier(DOMAIN trades))
<1>1. Placed(Prepared, Earlier(DOMAIN trades), DOMAIN trades)
      /\ Len(Prepared) = Cardinality(DOMAIN trades)
  BY ArrangedIsPlaced DEF Prepared
<1>2. Cardinality(DOMAIN trades) = Len(trades)
  <2>1. 1 \in Int /\ Len(trades) \in Nat /\ DOMAIN trades = 1 .. Len(trades)
    BY TradeTypes
  <2>2. Cardinality(1 .. Len(trades))
        = IF 1 > Len(trades) THEN 0 ELSE Len(trades) - 1 + 1
    BY <2>1, FS_Interval
  <2>3. QED
    BY <2>1, <2>2
<1>3. Prepared = Ranked(Earlier(DOMAIN trades))
  BY DEF Prepared, Arranged, Earlier
<1>4. QED
  BY <1>1, <1>2, <1>3 DEF Placed

\* Put together, the time bars are the trades in time order.
LEMMA TimeBarsJoin ==
  ASSUME SamplingTypes
  PROVE  FlattenSeq(TimeBars) = Prepared
<1> DEFINE T == DOMAIN trades
           used == {Bucket(i) : i \in DOMAIN trades}
           part == [b \in DOMAIN Ascending(used) |->
                      {i \in DOMAIN trades : Bucket(i) = Ascending(used)[b]}]
<1>1. \A i \in T : Bucket(i) \in Nat
  <2>1. BucketWidth \in Nat \ {0}
    BY SamplingAssumption
  <2>2. QED
    BY <2>1, TradeTypes, Quotient DEF Bucket
<1>2. used \subseteq Nat /\ IsFiniteSet(used)
  <2>1. PICK f \in Surjection(T, used) : TRUE
    <3>1. [i \in T |-> Bucket(i)] \in Surjection(T, used)
      BY DEF Surjection
    <3>2. QED
      BY <3>1
  <2>2. IsFiniteSet(T)
    BY EarlierOrders
  <2>3. IsFiniteSet(used)
    <3> HIDE DEF used, T
    <3>1. QED
      BY <2>1, <2>2, FS_Surjection
  <2>4. QED
    BY <1>1, <2>3
<1>3. PICK buckets : buckets = Ascending(used)
  OBVIOUS
<1>4. PICK n : n = Len(buckets)
  OBVIOUS
<1>5. /\ n \in Nat /\ DOMAIN buckets = 1 .. n
      /\ \A b, c \in 1 .. n : b < c => buckets[b] < buckets[c]
      /\ \A x \in used : \E b \in 1 .. n : buckets[b] = x
  <2>1. Lists(buckets, used)
    <3> HIDE DEF used
    <3>1. QED
      BY <1>2, <1>3, AscendingLists
  <2> HIDE DEF used
  <2>2. QED
    BY <1>4, <2>1, LenProperties DEF Lists, Rising
<1>6. \A b \in 1 .. n : part[b] = {i \in T : Bucket(i) = buckets[b]}
  BY <1>3, <1>5
<1>7. PICK bars : bars = TimeBars
  OBVIOUS
<1>8. DOMAIN bars = 1 .. n /\ \A b \in 1 .. n : bars[b] = Arranged(part[b])
  <2>1. bars = [b \in DOMAIN buckets |->
                  Arranged({i \in DOMAIN trades : Bucket(i) = buckets[b]})]
    BY <1>3, <1>7 DEF TimeBars
  <2> HIDE DEF part
  <2>2. QED
    BY <1>5, <1>6, <2>1
<1>9. bars = [b \in 1 .. n |-> bars[b]]
  BY <1>5, <1>3, <1>7 DEF TimeBars
<1> HIDE DEF part, used, T
<1>10. \A b \in 1 .. n : part[b] \subseteq T /\ Placed(bars[b], Earlier(T), part[b])
  <2> SUFFICES ASSUME NEW b \in 1 .. n
               PROVE  part[b] \subseteq T /\ Placed(bars[b], Earlier(T), part[b])
    OBVIOUS
  <2>1. part[b] \subseteq T
    BY <1>6
  <2>2. Placed(Arranged(part[b]), Earlier(DOMAIN trades), part[b])
    BY <2>1, ArrangedIsPlaced DEF T
  <2>3. QED
    BY <1>8, <2>1, <2>2 DEF T
<1>11. bars \in Seq(Seq(T)) /\ Len(bars) = n
  <2> DEFINE Z == Seq(T)
  <2>1. ASSUME NEW b \in 1 .. n
        PROVE  bars[b] \in Z
    <3>1. part[b] \subseteq T /\ bars[b] \in Seq(part[b])
      BY <1>10 DEF Placed
    <3>2. QED
      BY <3>1
  <2> HIDE DEF Z
  <2>2. bars \in [1 .. n -> Z]
    BY <1>9, <2>1
  <2>3. bars \in Seq(Z)
    BY <1>5, <2>2, IsASeq
  <2>4. Len(bars) = n
    BY <1>5, <1>8, <2>3, LenProperties
  <2>5. QED
    BY <2>3, <2>4 DEF Z
<1>12. ASSUME NEW b \in 1 .. n, NEW c \in 1 .. n, b < c,
              NEW x \in part[b], NEW y \in part[c]
       PROVE  x \in Earlier(T)[y]
  <2>1. x \in T /\ y \in T /\ Bucket(x) = buckets[b] /\ Bucket(y) = buckets[c]
    BY <1>6
  <2>2. Bucket(x) < Bucket(y) /\ Bucket(x) \in Nat /\ Bucket(y) \in Nat
    BY <1>1, <1>5, <1>12, <2>1
  <2>3. trades[x].at \in Nat /\ trades[y].at \in Nat
    BY <2>1, TradeTypes DEF T
  <2>4. trades[x].at < trades[y].at
    <3>1. BucketWidth \in Nat \ {0}
      BY SamplingAssumption
    <3>2. PICK q : q = Bucket(x)
      OBVIOUS
    <3>3. PICK r : r = Bucket(y)
      OBVIOUS
    <3>4. /\ trades[x].at < BucketWidth * q + BucketWidth
          /\ BucketWidth * r <= trades[y].at
      BY <2>3, <3>1, <3>2, <3>3, Quotient DEF Bucket
    <3>5. q + 1 \in Nat /\ r \in Nat /\ q + 1 <= r
      BY <2>2, <3>2, <3>3
    <3>6. BucketWidth * (q + 1) <= BucketWidth * r
      BY <3>1, <3>5, Scaled
    <3>7. q \in Nat /\ BucketWidth * (q + 1) = BucketWidth * q + BucketWidth
      BY <2>2, <3>1, <3>2
    <3>8. BucketWidth * q \in Nat /\ BucketWidth * r \in Nat
      BY <3>1, <3>5, <3>7
    <3>9. QED
      BY <2>3, <3>1, <3>4, <3>6, <3>7, <3>8
  <2>5. QED
    BY <2>1, <2>4 DEF Earlier, InTime
<1>13. PICK before : before = Earlier(T)
  OBVIOUS
<1>14. Placed(FlattenSeq(bars), before, Parts(part, T, n))
  <2>1. \A b \in 1 .. n : part[b] \subseteq T /\ Placed(bars[b], before, part[b])
    BY <1>10, <1>13
  <2>2. \A b, c \in 1 .. n : b < c =>
          \A x \in part[b], y \in part[c] : x \in before[y]
    BY <1>12, <1>13
  <2>3. QED
    BY <1>11, <2>1, <2>2, FlattenPlaced
<1>15. Parts(part, T, n) = T
  <2>1. ASSUME NEW i \in T
        PROVE  \E b \in 1 .. n : i \in part[b]
    <3>1. Bucket(i) \in used
      BY DEF used, T
    <3>2. PICK b \in 1 .. n : buckets[b] = Bucket(i)
      BY <1>5, <3>1
    <3>3. QED
      BY <1>6, <3>2
  <2>2. QED
    BY <2>1 DEF Parts
<1>16. Precedes(before, T)
  BY <1>13, EarlierOrders DEF T
<1>17. FlattenSeq(bars) = Ranked(before)
  BY <1>14, <1>15, <1>16, PlacedOnce
<1>18. QED
  BY <1>7, <1>13, <1>17, PreparedIsPlaced DEF T

-----------------------------------------------------------------------------
(* What a bar measures *)

\* Total, by its fold.
TotalStep(s, n, h) ==
  [S \in SUBSET (1 .. n) |->
     IF S = {} THEN 0 ELSE h[S \ {Max(S)}] + trades[s[Max(S)]].size]

LEMMA TotalIsFold ==
  ASSUME NEW s, NEW n, DOMAIN s = 1 .. n
  PROVE  Total(s) = (CHOOSE h : h = TotalStep(s, n, h))[1 .. n]
BY DEF Total, FoldLeft, MapThenFoldSet, TotalStep

\* The sums of its prefixes.
SumsUp(p, s, n) ==
  p[0] = 0 /\ \A k \in 1 .. n : p[k] = p[k - 1] + trades[s[k]].size

LEMMA TotalSums ==
  ASSUME SamplingTypes, NEW s \in Seq(DOMAIN trades), NEW n, n = Len(s)
  PROVE  Total(s) \in Nat /\ \E p : SumsUp(p, s, n) /\ Total(s) = p[n]
<1>1. /\ n \in Nat /\ DOMAIN s = 1 .. n
      /\ \A k \in 1 .. n : trades[s[k]].size \in Nat
  <2>1. n \in Nat /\ DOMAIN s = 1 .. n /\ \A k \in 1 .. n : s[k] \in DOMAIN trades
    BY LenProperties, ElementOfSeq
  <2>2. QED
    BY <2>1, TradeTypes
<1> DEFINE D == Nat
           zero == 0
           step == [k \in 1 .. n |-> [d \in D |-> d + trades[s[k]].size]]
<1>2. zero \in D /\ \A k \in 1 .. n, d \in D : step[k][d] \in D
  BY <1>1
<1>3. PICK g \in [SUBSET (1 .. n) -> D] : FoldsUp(g, n, zero, step)
  <2> HIDE DEF D, zero, step
  <2>1. QED
    BY <1>1, <1>2, IndicesFold
<1>4. ASSUME NEW S \in SUBSET (1 .. n), S # {}
      PROVE  g[S] = g[S \ {Max(S)}] + trades[s[Max(S)]].size
  <2>1. Max(S) \in 1 .. n /\ S \ {Max(S)} \in SUBSET (1 .. n)
    BY <1>1, <1>4, MaxOfSome
  <2>2. g[S \ {Max(S)}] \in D
    BY <2>1
  <2>3. g[S] = step[Max(S)][g[S \ {Max(S)}]]
    <3> HIDE DEF step
    <3>1. QED
      BY <1>3, <1>4 DEF FoldsUp
  <2> HIDE DEF D
  <2>4. QED
    BY <2>1, <2>2, <2>3
<1>5. g = TotalStep(s, n, g)
  <2>1. g = [S \in SUBSET (1 .. n) |-> g[S]] /\ g[{}] = 0
    <3> HIDE DEF D, step
    <3>1. QED
      BY <1>3 DEF FoldsUp
  <2>2. QED
    BY <1>4, <2>1 DEF TotalStep
<1>6. PICK h : h = (CHOOSE f : f = TotalStep(s, n, f))
  OBVIOUS
<1>7. h = TotalStep(s, n, h)
  BY <1>5, <1>6
<1>8. Total(s) = h[1 .. n]
  BY <1>1, <1>6, TotalIsFold
<1> HIDE DEF D, zero, step
<1> DEFINE p == [k \in 0 .. n |-> h[1 .. k]]
<1>9. p[0] = 0
  <2>1. 1 .. 0 = {} /\ {} \in SUBSET (1 .. n)
    OBVIOUS
  <2>2. h[{}] = 0
    BY <1>7, <2>1 DEF TotalStep
  <2>3. QED
    BY <1>1, <2>1, <2>2
<1>10. ASSUME NEW k \in 1 .. n
       PROVE  p[k] = p[k - 1] + trades[s[k]].size
  <2>1. /\ 1 .. k \in SUBSET (1 .. n) /\ 1 .. k # {}
        /\ Max(1 .. k) = k /\ (1 .. k) \ {Max(1 .. k)} = 1 .. (k - 1)
    BY <1>1, PrefixOf
  <2>2. h[1 .. k] = h[1 .. (k - 1)] + trades[s[k]].size
    BY <1>7, <2>1 DEF TotalStep
  <2>3. p[k] = h[1 .. k] /\ p[k - 1] = h[1 .. (k - 1)]
    BY <1>1
  <2>4. QED
    BY <2>2, <2>3
<1>11. p[n] = h[1 .. n]
  BY <1>1
<1> HIDE DEF p
<1>12. SumsUp(p, s, n)
  BY <1>9, <1>10 DEF SumsUp
<1>13. p[n] \in Nat
  <2> DEFINE Good == {k \in 0 .. n : p[k] \in Nat}
  <2>1. 0 \in Good
    BY <1>1, <1>9
  <2>2. ASSUME NEW k \in 1 .. n, k - 1 \in Good
        PROVE  k \in Good
    <3>1. p[k - 1] \in Nat /\ trades[s[k]].size \in Nat /\ k \in 0 .. n
      BY <1>1, <2>2
    <3>2. QED
      BY <1>10, <3>1
  <2> HIDE DEF Good
  <2>3. \A k \in 0 .. n : k \in Good
    BY <1>1, <2>1, <2>2, CountedUp
  <2>4. QED
    BY <1>1, <2>3 DEF Good
<1>14. QED
  BY <1>8, <1>11, <1>12, <1>13

LEMMA TotalAppend ==
  ASSUME SamplingTypes, NEW s \in Seq(DOMAIN trades), NEW i \in DOMAIN trades
  PROVE  Total(Append(s, i)) = Total(s) + trades[i].size
<1>1. PICK u : u = Append(s, i)
  OBVIOUS
<1>2. PICK n : n = Len(s)
  OBVIOUS
<1>3. /\ n \in Nat /\ u \in Seq(DOMAIN trades) /\ Len(u) = n + 1 /\ u[n + 1] = i
      /\ \A k \in 1 .. n : u[k] = s[k]
  <2> DEFINE Z == DOMAIN trades
  <2> HIDE DEF Z
  <2>1. s \in Seq(Z) /\ i \in Z
    BY DEF Z
  <2>2. n \in Nat /\ u \in Seq(Z) /\ Len(u) = n + 1 /\ u[n + 1] = i
        /\ \A k \in 1 .. n : u[k] = s[k]
    BY <1>1, <1>2, <2>1
  <2>3. QED
    BY <2>2 DEF Z
<1>4. PICK p : SumsUp(p, s, n) /\ Total(s) = p[n]
  BY <1>2, TotalSums
<1>5. PICK q : SumsUp(q, u, n + 1) /\ Total(u) = q[n + 1]
  BY <1>3, TotalSums
<1> DEFINE Good == {k \in 0 .. n : p[k] = q[k]}
<1>6. 0 \in Good
  BY <1>3, <1>4, <1>5 DEF SumsUp
<1>7. ASSUME NEW k \in 1 .. n, k - 1 \in Good
      PROVE  k \in Good
  <2>1. p[k - 1] = q[k - 1] /\ k \in 0 .. n /\ k \in 1 .. (n + 1) /\ u[k] = s[k]
    BY <1>3, <1>7
  <2>2. p[k] = p[k - 1] + trades[s[k]].size /\ q[k] = q[k - 1] + trades[u[k]].size
    BY <1>4, <1>5, <2>1 DEF SumsUp
  <2>3. QED
    BY <2>1, <2>2
<1>8. p[n] = q[n]
  <2> HIDE DEF Good
  <2>1. \A k \in 0 .. n : k \in Good
    BY <1>3, <1>6, <1>7, CountedUp
  <2>2. QED
    BY <1>3, <2>1 DEF Good
<1>9. q[n + 1] = q[n] + trades[u[n + 1]].size
  <2>1. n + 1 \in 1 .. (n + 1) /\ (n + 1) - 1 = n
    BY <1>3
  <2>2. q[n + 1] = q[(n + 1) - 1] + trades[u[n + 1]].size
    BY <1>5, <2>1 DEF SumsUp
  <2>3. QED
    BY <2>1, <2>2
<1>10. QED
  BY <1>1, <1>3, <1>4, <1>5, <1>8, <1>9

\* A bar grows by every trade, and the threshold covers all of them.
LEMMA MetricGrows ==
  ASSUME SamplingTypes, NEW kind \in Kinds, NEW s \in Seq(DOMAIN trades),
         NEW i \in DOMAIN trades
  PROVE  /\ Metric(kind, s) \in Nat /\ Metric(kind, Append(s, i)) \in Nat
         /\ Metric(kind, Append(s, i))
              = Metric(kind, s) + (IF kind = "tick" THEN 1 ELSE trades[i].size)
         /\ Metric(kind, s) < Metric(kind, Append(s, i))
<1>1. Append(s, i) \in Seq(DOMAIN trades) /\ Len(Append(s, i)) = Len(s) + 1
      /\ Len(s) \in Nat
  <2> DEFINE Z == DOMAIN trades
  <2> HIDE DEF Z
  <2>1. s \in Seq(Z) /\ i \in Z
    BY DEF Z
  <2>2. QED
    BY <2>1 DEF Z
<1>2. trades[i].size \in Nat \ {0}
  BY TradeTypes
<1>3. Total(s) \in Nat /\ Total(Append(s, i)) = Total(s) + trades[i].size
  BY TotalSums, TotalAppend
<1>4. CASE kind = "tick"
  BY <1>1, <1>4 DEF Metric
<1>5. CASE kind # "tick"
  BY <1>2, <1>3, <1>5 DEF Metric
<1>6. QED
  BY <1>4, <1>5

LEMMA MetricOfNone ==
  ASSUME SamplingTypes, NEW kind \in Kinds
  PROVE  Metric(kind, <<>>) = 0
<1>1. <<>> \in Seq(DOMAIN trades) /\ Len(<<>>) = 0
  OBVIOUS
<1>2. PICK p : SumsUp(p, <<>>, 0) /\ Total(<<>>) = p[0]
  BY <1>1, TotalSums
<1>3. Total(<<>>) = 0
  BY <1>2 DEF SumsUp
<1>4. QED
  BY <1>1, <1>3 DEF Metric

LEMMA ThresholdCovers ==
  ASSUME SamplingTypes, NEW kind \in Kinds
  PROVE  /\ Threshold(kind) \in Nat \ {0}
         /\ Metric(kind, Prepared) \in Nat /\ Metric(kind, Prepared) <= Threshold(kind)
<1>1. Target \in Nat \ {0}
  BY SamplingAssumption
<1>2. Prepared \in Seq(DOMAIN trades) /\ Len(Prepared) = Len(trades) /\ Len(trades) \in Nat
  BY PreparedIsPlaced, TradeTypes
<1>3. CASE kind = "tick"
  <2>1. PICK c : c = (Len(trades) + Target - 1) \div Target
    OBVIOUS
  <2>2. PICK a \in Nat : a = Len(trades) + Target - 1
    <3>1. PICK L \in Nat : L = Len(trades)
      BY <1>2
    <3>2. L + Target - 1 \in Nat
      BY <1>1
    <3>3. QED
      BY <3>1, <3>2
  <2>3. c \in Nat /\ a < Target * c + Target
    BY <1>1, <2>1, <2>2, Quotient
  <2>4. PICK e \in Nat : e = Larger(1, c)
    BY <2>3 DEF Larger
  <2>5. c <= e /\ e >= 1
    BY <2>3, <2>4 DEF Larger
  <2>6. Target * c <= Target * e /\ Target * 1 <= Target * e
    BY <1>1, <2>3, <2>5, Scaled
  <2>7. PICK x \in Nat : x = Target * c
    BY <1>1, <2>3
  <2>8. PICK y \in Nat : y = Target * e
    BY <1>1
  <2>9. y \in Nat \ {0} /\ Len(trades) <= y
    <3>1. PICK L \in Nat : L = Len(trades)
      BY <1>2
    <3>2. y \in Nat \ {0} /\ L <= y
      BY <1>1, <2>2, <2>3, <2>6, <2>7, <2>8, <3>1
    <3>3. QED
      BY <3>1, <3>2
  <2>10. Threshold(kind) = y
    BY <1>3, <2>1, <2>4, <2>8 DEF Threshold
  <2>11. Metric(kind, Prepared) = Len(trades)
    BY <1>2, <1>3 DEF Metric
  <2>12. QED
    BY <1>2, <2>9, <2>10, <2>11
<1>4. CASE kind # "tick"
  <2>1. Total(Prepared) \in Nat
    BY <1>2, TotalSums
  <2>2. Threshold(kind) = Larger(Target, Total(Prepared))
    BY <1>4 DEF Threshold
  <2>3. Metric(kind, Prepared) = Total(Prepared)
    BY <1>4 DEF Metric
  <2>4. QED
    BY <1>1, <2>1, <2>2, <2>3 DEF Larger
<1>5. QED
  BY <1>3, <1>4

-----------------------------------------------------------------------------
(* Event bars *)

\* One trade is placed.
Accounts == [rows : Seq(Seq(DOMAIN trades)), state : Seq(DOMAIN trades)]
NoBars == [rows |-> <<>>, state |-> <<>>]
PlaceOne(kind, acc, i) ==
  LET bar == Append(acc.state, i)
  IN IF Reaches(kind, bar)
     THEN [rows |-> Append(acc.rows, bar), state |-> <<>>]
     ELSE [acc EXCEPT !.state = bar]
PlaceStep(kind, s, n, h) ==
  [S \in SUBSET (1 .. n) |->
     IF S = {} THEN NoBars ELSE PlaceOne(kind, h[S \ {Max(S)}], s[Max(S)])]

BarsOf(end) == IF end.state = <<>> THEN end.rows ELSE Append(end.rows, end.state)

LEMMA EventBarsIsFold ==
  ASSUME NEW kind, NEW n, DOMAIN Prepared = 1 .. n
  PROVE  EventBars(kind)
         = BarsOf((CHOOSE h : h = PlaceStep(kind, Prepared, n, h))[1 .. n])
BY DEF EventBars, FoldLeft, MapThenFoldSet, PlaceStep, PlaceOne, NoBars, BarsOf

\* What one trade makes of the accounts: bar closes, or stays open.
Closing(kind, acc, bar, next) ==
  /\ next \in Accounts /\ bar \in Seq(DOMAIN trades)
  /\ Reaches(kind, bar) => next.rows = Append(acc.rows, bar) /\ next.state = <<>>
  /\ ~Reaches(kind, bar) => next.rows = acc.rows /\ next.state = bar

LEMMA PlaceOneTypes ==
  ASSUME NEW kind, NEW acc \in Accounts, NEW i \in DOMAIN trades,
         NEW bar, bar = Append(acc.state, i),
         NEW next, next = PlaceOne(kind, acc, i)
  PROVE  Closing(kind, acc, bar, next)
<1> DEFINE Z == DOMAIN trades
           Y == Seq(Z)
<1>1. acc.rows \in Seq(Y) /\ acc.state \in Y /\ i \in Z /\ <<>> \in Y
  BY DEF Accounts
<1>2. bar \in Y
  <2> HIDE DEF Z
  <2>1. QED
    BY <1>1
<1>3. Append(acc.rows, bar) \in Seq(Y)
  <2> HIDE DEF Y, Z
  <2>1. QED
    BY <1>1, <1>2
<1>4. CASE Reaches(kind, bar)
  <2>1. next = [rows |-> Append(acc.rows, bar), state |-> <<>>]
    BY <1>4 DEF PlaceOne
  <2>2. QED
    BY <1>1, <1>2, <1>3, <1>4, <2>1 DEF Accounts, Closing
<1>5. CASE ~Reaches(kind, bar)
  <2>1. next = [acc EXCEPT !.state = bar]
    BY <1>5 DEF PlaceOne
  <2>2. QED
    BY <1>1, <1>2, <1>5, <2>1 DEF Accounts, Closing
<1>6. QED
  BY <1>4, <1>5

\* The accounts after each trade.
PlacesUp(p, kind, s, n) ==
  /\ p[0] = NoBars
  /\ \A k \in 1 .. n : p[k] = PlaceOne(kind, p[k - 1], s[k])

LEMMA EventBarsPlaced ==
  ASSUME SamplingTypes, NEW kind, NEW n, n = Len(Prepared)
  PROVE  \E p : PlacesUp(p, kind, Prepared, n) /\ EventBars(kind) = BarsOf(p[n])
<1>1. PICK s : s = Prepared
  OBVIOUS
<1>2. n \in Nat /\ DOMAIN s = 1 .. n /\ \A k \in 1 .. n : s[k] \in DOMAIN trades
  BY <1>1, PreparedIsPlaced, LenProperties, ElementOfSeq
<1> DEFINE D == Accounts
           base == NoBars
           step == [k \in 1 .. n |-> [d \in D |-> PlaceOne(kind, d, s[k])]]
<1>3. base \in D /\ \A k \in 1 .. n, d \in D : step[k][d] \in D
  <2>1. base \in D
    BY DEF NoBars, Accounts
  <2>2. ASSUME NEW k \in 1 .. n, NEW d \in Accounts
        PROVE  PlaceOne(kind, d, s[k]) \in Accounts
    BY <1>2, PlaceOneTypes DEF Closing
  <2>3. QED
    BY <2>1, <2>2
<1>4. PICK g \in [SUBSET (1 .. n) -> D] : FoldsUp(g, n, base, step)
  <2> HIDE DEF D, base, step
  <2>1. QED
    BY <1>2, <1>3, IndicesFold
<1>5. ASSUME NEW S \in SUBSET (1 .. n), S # {}
      PROVE  g[S] = PlaceOne(kind, g[S \ {Max(S)}], s[Max(S)])
  <2>1. Max(S) \in 1 .. n /\ S \ {Max(S)} \in SUBSET (1 .. n)
    BY <1>2, <1>5, MaxOfSome
  <2>2. g[S \ {Max(S)}] \in D
    BY <2>1
  <2>3. g[S] = step[Max(S)][g[S \ {Max(S)}]]
    <3> HIDE DEF step
    <3>1. QED
      BY <1>4, <1>5 DEF FoldsUp
  <2> HIDE DEF D
  <2>4. QED
    BY <2>1, <2>2, <2>3
<1>6. g = PlaceStep(kind, s, n, g)
  <2>1. g = [S \in SUBSET (1 .. n) |-> g[S]] /\ g[{}] = NoBars
    <3> HIDE DEF D, step
    <3>1. QED
      BY <1>4 DEF FoldsUp
  <2> HIDE DEF D, base, step
  <2>2. QED
    BY <1>5, <2>1 DEF PlaceStep
<1>7. PICK h : h = (CHOOSE f : f = PlaceStep(kind, s, n, f))
  OBVIOUS
<1>8. h = PlaceStep(kind, s, n, h)
  BY <1>6, <1>7
<1>9. EventBars(kind) = BarsOf(h[1 .. n])
  BY <1>1, <1>2, <1>7, EventBarsIsFold
<1> HIDE DEF D, base, step
<1> DEFINE p == [k \in 0 .. n |-> h[1 .. k]]
<1>10. p[0] = NoBars
  <2>1. 1 .. 0 = {} /\ {} \in SUBSET (1 .. n)
    OBVIOUS
  <2>2. h[{}] = NoBars
    BY <1>8, <2>1 DEF PlaceStep
  <2>3. QED
    BY <1>2, <2>1, <2>2
<1>11. ASSUME NEW k \in 1 .. n
       PROVE  p[k] = PlaceOne(kind, p[k - 1], s[k])
  <2>1. /\ 1 .. k \in SUBSET (1 .. n) /\ 1 .. k # {}
        /\ Max(1 .. k) = k /\ (1 .. k) \ {Max(1 .. k)} = 1 .. (k - 1)
    BY <1>2, PrefixOf
  <2>2. h[1 .. k] = PlaceOne(kind, h[1 .. (k - 1)], s[k])
    BY <1>8, <2>1 DEF PlaceStep
  <2>3. p[k] = h[1 .. k] /\ p[k - 1] = h[1 .. (k - 1)]
    BY <1>2
  <2>4. QED
    BY <2>2, <2>3
<1>12. p[n] = h[1 .. n]
  BY <1>2
<1> HIDE DEF p
<1>13. PlacesUp(p, kind, Prepared, n)
  BY <1>1, <1>10, <1>11 DEF PlacesUp
<1>14. QED
  BY <1>9, <1>12, <1>13

-----------------------------------------------------------------------------
(* Bars as they close *)

\* With the last trade left out, what was there before it.
LEMMA FrontOfAppend ==
  ASSUME NEW X, NEW s \in Seq(X), NEW x \in X
  PROVE  Front(Append(s, x)) = s
<1>1. /\ Append(s, x) \in Seq(X) /\ Len(Append(s, x)) = Len(s) + 1
      /\ Len(s) \in Nat
      /\ \A i \in 1 .. Len(s) : Append(s, x)[i] = s[i]
  BY AppendProperties, LenProperties
<1>2. PICK t : t = Append(s, x)
  OBVIOUS
<1>3. PICK f : f = SubSeq(t, 1, Len(s))
  OBVIOUS
<1>4. f \in Seq(X) /\ Len(f) = Len(s) /\ \A i \in 1 .. Len(s) : f[i] = t[i]
  BY <1>1, <1>2, <1>3, LenProperties, ElementOfSeq
<1>5. f = s
  BY <1>1, <1>2, <1>4, SeqEqual
<1>6. (Len(s) + 1) - 1 = Len(s)
  BY <1>1
<1>7. QED
  BY <1>1, <1>2, <1>3, <1>5, <1>6 DEF Front

LEMMA AppendAfter ==
  ASSUME NEW X, NEW s \in Seq(X), NEW t \in Seq(X), NEW x \in X
  PROVE  /\ s \o Append(t, x) = Append(s \o t, x)
         /\ s \o t \in Seq(X)
BY AppendIsConcat, ConcatAssociative, AppendProperties, ConcatProperties

\* After the trades of pre: the bars that closed and the one that is open hold
\* them, every closed bar has just reached the threshold, the open one has
\* not, and no closed bar was given away.
Cut(kind, acc, pre) ==
  /\ acc \in Accounts
  /\ FlattenSeq(acc.rows) \o acc.state = pre
  /\ \A b \in 1 .. Len(acc.rows) :
       Reaches(kind, acc.rows[b]) /\ ~Reaches(kind, Front(acc.rows[b]))
  /\ ~Reaches(kind, acc.state)
  /\ Len(acc.rows) * Threshold(kind) + Metric(kind, acc.state) * Target
       <= Metric(kind, pre) * Target

\* A bar that closes takes at least the threshold out of what was counted.
LEMMA Paid ==
  ASSUME NEW m \in Nat, NEW g \in Nat, NEW M \in Nat, NEW T \in Nat, NEW h \in Nat,
         NEW l \in Nat, l * h + m * T <= M * T
  PROVE  /\ l * h + (m + g) * T <= (M + g) * T
         /\ h <= (m + g) * T => (l + 1) * h + 0 * T <= (M + g) * T
<1>1. (m + g) * T = m * T + g * T /\ (M + g) * T = M * T + g * T
      /\ (l + 1) * h = l * h + h
  OBVIOUS
<1>2. PICK a \in Nat : a = m * T
  OBVIOUS
<1>3. PICK b \in Nat : b = M * T
  OBVIOUS
<1>4. PICK c \in Nat : c = g * T
  OBVIOUS
<1>5. PICK d \in Nat : d = l * h
  OBVIOUS
<1>6. d + a <= b
  BY <1>2, <1>3, <1>5
<1>7. d + (a + c) <= b + c /\ (h <= a + c => (d + h) + 0 <= b + c)
  BY <1>6
<1>8. 0 * T = 0
  OBVIOUS
<1>9. QED
  BY <1>1, <1>2, <1>3, <1>4, <1>5, <1>7, <1>8

LEMMA PlaceKeepsCut ==
  ASSUME SamplingTypes, NEW kind \in Kinds, NEW acc, NEW pre \in Seq(DOMAIN trades),
         NEW i \in DOMAIN trades, Cut(kind, acc, pre)
  PROVE  Cut(kind, PlaceOne(kind, acc, i), Append(pre, i))
<1> DEFINE Z == DOMAIN trades
<1>1. PICK bar : bar = Append(acc.state, i)
  OBVIOUS
<1>2. PICK next : next = PlaceOne(kind, acc, i)
  OBVIOUS
<1>3. acc \in Accounts /\ acc.rows \in Seq(Seq(Z)) /\ acc.state \in Seq(Z)
  BY DEF Cut, Accounts
<1>4. /\ next \in Accounts /\ bar \in Seq(Z)
      /\ Reaches(kind, bar) => next.rows = Append(acc.rows, bar) /\ next.state = <<>>
      /\ ~Reaches(kind, bar) => next.rows = acc.rows /\ next.state = bar
  <2>1. Closing(kind, acc, bar, next)
    BY <1>1, <1>2, <1>3, PlaceOneTypes
  <2>2. QED
    BY <2>1 DEF Closing
<1>5. PICK F : F = FlattenSeq(acc.rows)
  OBVIOUS
<1>6. F \in Seq(Z) /\ F \o acc.state = pre
      /\ FlattenSeq(Append(acc.rows, bar)) = F \o bar
  <2>1. <<>> \in Seq(Z)
    OBVIOUS
  <2>2. FlattenSeq(acc.rows) \in Seq(Z)
    BY <1>3, <2>1, FlattenAppend
  <2>3. FlattenSeq(Append(acc.rows, bar)) = FlattenSeq(acc.rows) \o bar
    BY <1>3, <1>4, FlattenAppend
  <2>4. FlattenSeq(acc.rows) \o acc.state = pre
    BY DEF Cut
  <2> HIDE DEF Z
  <2>5. QED
    BY <1>5, <2>2, <2>3, <2>4
<1>7. F \o bar = Append(pre, i) /\ (F \o bar) \o <<>> = Append(pre, i)
  <2> HIDE DEF Z
  <2>1. i \in Z
    BY DEF Z
  <2>2. PICK t : t = acc.state
    OBVIOUS
  <2>3. F \o Append(t, i) = Append(F \o t, i)
    BY <1>3, <1>6, <2>1, <2>2, AppendAfter
  <2>4. F \o bar = Append(pre, i)
    BY <1>1, <1>6, <2>2, <2>3
  <2>5. F \o bar \in Seq(Z)
    BY <1>4, <1>6, ConcatProperties DEF Z
  <2>6. QED
    BY <2>4, <2>5, ConcatEmptySeq
<1>8. Front(bar) = acc.state
  <2> HIDE DEF Z
  <2>1. i \in Z
    BY DEF Z
  <2>2. QED
    BY <1>1, <1>3, <2>1, FrontOfAppend
<1>9. PICK m : m = Metric(kind, acc.state)
  OBVIOUS
<1>10. PICK M : M = Metric(kind, pre)
  OBVIOUS
<1>11. PICK g : g = IF kind = "tick" THEN 1 ELSE trades[i].size
  OBVIOUS
<1>12. g \in Nat
  BY <1>11, TradeTypes
<1>13. /\ m \in Nat /\ M \in Nat
       /\ Metric(kind, bar) = m + g /\ Metric(kind, Append(pre, i)) = M + g
  BY <1>1, <1>3, <1>9, <1>10, <1>11, MetricGrows
<1>14. PICK l : l = Len(acc.rows)
  OBVIOUS
<1>15. PICK h : h = Threshold(kind)
  OBVIOUS
<1>16. l \in Nat /\ h \in Nat \ {0} /\ Target \in Nat
  BY <1>3, <1>14, <1>15, LenProperties, ThresholdCovers, SamplingAssumption
<1>17. l * h + m * Target <= M * Target
  BY <1>9, <1>10, <1>14, <1>15 DEF Cut
<1>18. /\ l * h + (m + g) * Target <= (M + g) * Target
       /\ h <= (m + g) * Target => (l + 1) * h + 0 * Target <= (M + g) * Target
  BY <1>12, <1>13, <1>16, <1>17, Paid
<1>19. CASE Reaches(kind, bar)
  <2>1. next.rows = Append(acc.rows, bar) /\ next.state = <<>>
    BY <1>4, <1>19
  <2>2. /\ Len(next.rows) = l + 1 /\ next.rows[l + 1] = bar
        /\ \A b \in 1 .. l : next.rows[b] = acc.rows[b]
    <3> DEFINE Y == Seq(Z)
    <3> HIDE DEF Y
    <3>1. acc.rows \in Seq(Y) /\ bar \in Y
      BY <1>3, <1>4 DEF Y
    <3>2. QED
      BY <1>14, <2>1, <3>1, AppendProperties, LenProperties
  <2>3. \A b \in 1 .. Len(next.rows) :
          Reaches(kind, next.rows[b]) /\ ~Reaches(kind, Front(next.rows[b]))
    <3>1. \A b \in 1 .. l :
            Reaches(kind, acc.rows[b]) /\ ~Reaches(kind, Front(acc.rows[b]))
      BY <1>14 DEF Cut
    <3>2. ~Reaches(kind, Front(bar))
      BY <1>8 DEF Cut
    <3>3. \A b \in 1 .. (l + 1) : b \in 1 .. l \/ b = l + 1
      BY <1>16
    <3>4. QED
      BY <1>19, <2>2, <3>1, <3>2, <3>3
  <2>4. Metric(kind, next.state) = 0
    BY <2>1, MetricOfNone
  <2>5. ~Reaches(kind, next.state)
    <3>1. 0 * Target = 0
      BY <1>16
    <3>2. ~(0 >= h)
      BY <1>16
    <3>3. QED
      BY <1>15, <2>4, <3>1, <3>2 DEF Reaches
  <2>6. h <= (m + g) * Target
    <3>1. PICK w : w = (m + g) * Target
      OBVIOUS
    <3>2. w >= h
      BY <1>13, <1>15, <1>19, <3>1 DEF Reaches
    <3>3. w \in Nat
      BY <1>12, <1>13, <1>16, <3>1
    <3>4. QED
      BY <1>16, <3>1, <3>2, <3>3
  <2>7. Len(next.rows) * Threshold(kind) + Metric(kind, next.state) * Target
          <= Metric(kind, Append(pre, i)) * Target
    BY <1>13, <1>15, <1>18, <2>2, <2>4, <2>6
  <2>8. FlattenSeq(next.rows) \o next.state = Append(pre, i)
    BY <1>6, <1>7, <2>1
  <2>9. Cut(kind, next, Append(pre, i))
    BY <1>4, <2>3, <2>5, <2>7, <2>8 DEF Cut
  <2>10. QED
    BY <1>2, <2>9
<1>20. CASE ~Reaches(kind, bar)
  <2>1. next.rows = acc.rows /\ next.state = bar
    BY <1>4, <1>20
  <2>2. \A b \in 1 .. Len(next.rows) :
          Reaches(kind, next.rows[b]) /\ ~Reaches(kind, Front(next.rows[b]))
    BY <2>1 DEF Cut
  <2>3. FlattenSeq(next.rows) \o next.state = Append(pre, i)
    BY <1>5, <1>7, <2>1
  <2>4. Len(next.rows) * Threshold(kind) + Metric(kind, next.state) * Target
          <= Metric(kind, Append(pre, i)) * Target
    BY <1>13, <1>14, <1>15, <1>18, <2>1
  <2>5. Cut(kind, next, Append(pre, i))
    BY <1>4, <1>20, <2>1, <2>2, <2>3, <2>4 DEF Cut
  <2>6. QED
    BY <1>2, <2>5
<1>21. QED
  BY <1>19, <1>20

LEMMA NothingCut ==
  ASSUME SamplingTypes, NEW kind \in Kinds
  PROVE  Cut(kind, NoBars, <<>>)
<1> DEFINE Z == DOMAIN trades
<1>1. NoBars \in Accounts /\ NoBars.rows = <<>> /\ NoBars.state = <<>>
  BY DEF NoBars, Accounts
<1>2. FlattenSeq(<<>>) = <<>>
  <2>1. <<>> \in Seq(Seq(Z)) /\ Len(<<>>) = 0
    OBVIOUS
  <2>2. PICK p : Flattens(p, Z, <<>>, 0)
    BY <2>1, FlattenJoins
  <2>3. QED
    BY <2>2 DEF Flattens, JoinsUp
<1>3. Metric(kind, <<>>) = 0
  BY MetricOfNone
<1>4. 0 * Target = 0 /\ Threshold(kind) \in Nat \ {0} /\ 0 * Threshold(kind) = 0
  BY ThresholdCovers, SamplingAssumption
<1>5. ~Reaches(kind, <<>>)
  BY <1>3, <1>4 DEF Reaches
<1>6. <<>> \o <<>> = <<>> /\ Len(<<>>) = 0 /\ 1 .. 0 = {}
  OBVIOUS
<1>7. Len(<<>>) * Threshold(kind) + Metric(kind, <<>>) * Target
        <= Metric(kind, <<>>) * Target
  BY <1>3, <1>4, <1>6
<1>8. QED
  BY <1>1, <1>2, <1>5, <1>6, <1>7 DEF Cut

LEMMA EventBarsCut ==
  ASSUME SamplingTypes, NEW kind \in Kinds
  PROVE  \E acc : Cut(kind, acc, Prepared) /\ EventBars(kind) = BarsOf(acc)
<1>1. PICK s : s = Prepared
  OBVIOUS
<1>2. PICK n : n = Len(s)
  OBVIOUS
<1>3. s \in Seq(DOMAIN trades) /\ n \in Nat /\ \A k \in 1 .. n : s[k] \in DOMAIN trades
  BY <1>1, <1>2, PreparedIsPlaced, LenProperties, ElementOfSeq
<1>4. PICK p : PlacesUp(p, kind, Prepared, n) /\ EventBars(kind) = BarsOf(p[n])
  BY <1>1, <1>2, EventBarsPlaced
<1> DEFINE Good == {k \in 0 .. n : Cut(kind, p[k], SubSeq(s, 1, k))}
<1>5. 0 \in Good
  <2>1. SubSeq(s, 1, 0) = <<>>
    BY SubSeqEmpty
  <2>2. Cut(kind, p[0], SubSeq(s, 1, 0))
    BY <1>4, <2>1, NothingCut DEF PlacesUp
  <2>3. QED
    BY <1>3, <2>2
<1>6. ASSUME NEW k \in 1 .. n, k - 1 \in Good
      PROVE  k \in Good
  <2>1. PICK pre : pre = SubSeq(s, 1, k - 1)
    OBVIOUS
  <2>2. PICK i : i = s[k]
    OBVIOUS
  <2>3. i \in DOMAIN trades
    BY <1>3, <2>2
  <2>4. pre \in Seq(DOMAIN trades) /\ SubSeq(s, 1, k) = Append(pre, i)
    <3> DEFINE Z == DOMAIN trades
    <3> HIDE DEF Z
    <3>1. s \in Seq(Z) /\ i \in Z
      BY <1>3, <2>3 DEF Z
    <3>2. pre \in Seq(Z)
      <4>1. \A j \in 1 .. (k - 1) : s[j] \in Z
        BY <1>2, <1>3, <3>1, ElementOfSeq
      <4>2. 1 \in Int /\ k - 1 \in Int
        BY <1>3
      <4>3. QED
        BY <2>1, <4>1, <4>2, SubSeqProperties
    <3>3. 1 \in 1 .. Len(s) /\ k \in 1 .. Len(s)
      BY <1>2, <1>3
    <3>4. SubSeq(s, 1, k) = SubSeq(s, 1, k - 1) \o << s[k] >>
      BY <3>1, <3>3, SubSeqRecursiveSecond
    <3>5. Append(pre, i) = pre \o << i >>
      BY <3>1, <3>2, AppendIsConcat
    <3>6. SubSeq(s, 1, k) = Append(pre, i)
      BY <2>1, <2>2, <3>4, <3>5
    <3>7. QED
      BY <3>2, <3>6 DEF Z
  <2>5. PICK acc : acc = p[k - 1]
    OBVIOUS
  <2>6. Cut(kind, acc, pre)
    BY <1>6, <2>1, <2>5
  <2>7. Cut(kind, PlaceOne(kind, acc, i), Append(pre, i))
    BY <2>3, <2>4, <2>6, PlaceKeepsCut
  <2>8. p[k] = PlaceOne(kind, acc, i)
    BY <1>1, <1>4, <2>2, <2>5 DEF PlacesUp
  <2>9. k \in 0 .. n
    BY <1>3
  <2>10. QED
    BY <2>4, <2>7, <2>8, <2>9
<1>7. n \in Good
  <2> HIDE DEF Good
  <2>1. \A k \in 0 .. n : k \in Good
    BY <1>3, <1>5, <1>6, CountedUp
  <2>2. QED
    BY <1>3, <2>1
<1>8. SubSeq(s, 1, n) = s
  BY <1>2, <1>3, SubSeqFull
<1>9. QED
  BY <1>1, <1>4, <1>7, <1>8

\* What was counted pays for so many bars.
LEMMA Affordable ==
  ASSUME NEW m \in Nat, NEW M \in Nat, NEW T \in Nat \ {0}, NEW h \in Nat \ {0},
         NEW l \in Nat, l * h + m * T <= M * T, M <= h
  PROVE  l <= T /\ (m # 0 => l + 1 <= T)
<1>1. T * M <= T * h
  BY Scaled
<1>2. PICK a \in Nat : a = h * l
  OBVIOUS
<1>3. PICK b \in Nat : b = m * T
  OBVIOUS
<1>4. PICK c \in Nat : c = h * T
  OBVIOUS
<1>5. a + b <= c
  <2>1. l * h = a /\ T * h = c /\ T * M = M * T
    BY <1>2, <1>4
  <2>2. PICK d \in Nat : d = M * T
    OBVIOUS
  <2>3. a + b <= d /\ d <= c
    BY <1>1, <1>3, <2>1, <2>2
  <2>4. QED
    BY <2>3
<1>6. ASSUME l >= T + 1
      PROVE  FALSE
  <2>1. h * (T + 1) <= h * l
    BY <1>6, Scaled
  <2>2. h * (T + 1) = h * T + h
    OBVIOUS
  <2>3. c + h <= a
    BY <1>2, <1>4, <2>1, <2>2
  <2>4. QED
    BY <1>5, <2>3
<1>7. ASSUME m # 0, l >= T
      PROVE  FALSE
  <2>1. h * T <= h * l
    BY <1>7, Scaled
  <2>2. T * 1 <= T * m
    BY <1>7, Scaled
  <2>3. PICK d \in Nat : d = T * m
    OBVIOUS
  <2>4. d = b /\ d >= T
    BY <1>3, <2>2, <2>3
  <2>5. c <= a
    BY <1>2, <1>4, <2>1
  <2>6. QED
    BY <1>5, <2>4, <2>5
<1>8. QED
  BY <1>6, <1>7

\* What BarsPartitionTheTrades says of the bars of a kind.
CutUp(kind, bars, n, placed) ==
  /\ FlattenSeq(bars) = placed
  /\ n <= Target
  /\ \A b \in 1 .. n :
       /\ ~Reaches(kind, Front(bars[b]))
       /\ b < n => Reaches(kind, bars[b])

LEMMA BarsOfCut ==
  ASSUME SamplingTypes, NEW kind \in Kinds, NEW acc, Cut(kind, acc, Prepared),
         NEW bars, bars = BarsOf(acc)
  PROVE  CutUp(kind, bars, Len(bars), Prepared)
<1> DEFINE Z == DOMAIN trades
<1>1. PICK rows : rows = acc.rows
  OBVIOUS
<1>2. PICK open : open = acc.state
  OBVIOUS
<1>3. rows \in Seq(Seq(Z)) /\ open \in Seq(Z)
  BY <1>1, <1>2 DEF Cut, Accounts
<1>4. FlattenSeq(rows) \o open = Prepared
  BY <1>1, <1>2 DEF Cut
<1>5. \A b \in 1 .. Len(rows) : Reaches(kind, rows[b]) /\ ~Reaches(kind, Front(rows[b]))
  BY <1>1 DEF Cut
<1>6. ~Reaches(kind, open)
  BY <1>2 DEF Cut
<1>7. PICK l : l = Len(rows)
  OBVIOUS
<1>8. PICK m : m = Metric(kind, open)
  OBVIOUS
<1>9. PICK M : M = Metric(kind, Prepared)
  OBVIOUS
<1>10. PICK h : h = Threshold(kind)
  OBVIOUS
<1>11. l * h + m * Target <= M * Target
  BY <1>1, <1>2, <1>7, <1>8, <1>9, <1>10 DEF Cut
<1>12. h \in Nat \ {0} /\ M \in Nat /\ M <= h /\ Target \in Nat \ {0} /\ l \in Nat
  BY <1>3, <1>7, <1>9, <1>10, LenProperties, ThresholdCovers, SamplingAssumption
<1>13. CASE open = <<>>
  <2>1. bars = rows
    BY <1>1, <1>2, <1>13 DEF BarsOf
  <2>2. m = 0
    BY <1>8, <1>13, MetricOfNone
  <2>3. l <= Target
    <3>1. m \in Nat
      BY <2>2
    <3>2. QED
      BY <1>11, <1>12, <3>1, Affordable
  <2>4. FlattenSeq(bars) = Prepared
    <3>1. <<>> \in Seq(Z)
      OBVIOUS
    <3>2. FlattenSeq(rows) \in Seq(Z)
      BY <1>3, <3>1, FlattenAppend
    <3>3. FlattenSeq(rows) \o <<>> = FlattenSeq(rows)
      BY <3>2, ConcatEmptySeq
    <3>4. QED
      BY <1>4, <1>13, <2>1, <3>3
  <2>5. QED
    BY <1>5, <1>7, <2>1, <2>3, <2>4 DEF CutUp
<1>14. CASE open # <<>>
  <2>1. bars = Append(rows, open)
    BY <1>1, <1>2, <1>14 DEF BarsOf
  <2>2. PICK front \in Seq(Z), i \in Z : open = Append(front, i)
    BY <1>3, <1>14, SequenceEmptyOrAppend
  <2>3. Metric(kind, front) \in Nat /\ m \in Nat /\ Metric(kind, front) < m
    BY <1>8, <2>2, MetricGrows
  <2>4. Front(open) = front
    <3> HIDE DEF Z
    <3>1. QED
      BY <2>2, FrontOfAppend
  <2>5. ~Reaches(kind, Front(open))
    <3>1. PICK f \in Nat : f = Metric(kind, front)
      BY <2>3
    <3>2. Target * f <= Target * m
      BY <1>12, <2>3, <3>1, Scaled
    <3>3. PICK x \in Nat : x = Target * f
      BY <1>12
    <3>4. PICK y \in Nat : y = Target * m
      BY <1>12, <2>3
    <3>5. x = f * Target /\ y = m * Target /\ x <= y
      BY <1>12, <2>3, <3>2, <3>3, <3>4
    <3>6. ~(y >= h)
      BY <1>6, <1>8, <1>10, <3>5 DEF Reaches
    <3>7. ~(x >= h)
      BY <1>12, <3>5, <3>6
    <3>8. QED
      BY <1>10, <2>4, <3>1, <3>5, <3>7 DEF Reaches
  <2>6. l + 1 <= Target
    <3>1. m # 0
      BY <2>3
    <3>2. QED
      BY <1>11, <1>12, <2>3, <3>1, Affordable
  <2>7. /\ Len(bars) = l + 1 /\ bars[l + 1] = open
        /\ \A b \in 1 .. l : bars[b] = rows[b]
    <3> DEFINE Y == Seq(Z)
    <3> HIDE DEF Y
    <3>1. rows \in Seq(Y) /\ open \in Y
      BY <1>3 DEF Y
    <3>2. QED
      BY <1>7, <2>1, <3>1, AppendProperties, LenProperties
  <2>8. FlattenSeq(bars) = Prepared
    BY <1>3, <1>4, <2>1, FlattenAppend
  <2>9. \A b \in 1 .. (l + 1) :
          /\ ~Reaches(kind, Front(bars[b]))
          /\ b < l + 1 => Reaches(kind, bars[b])
    <3>1. \A b \in 1 .. (l + 1) : b = l + 1 \/ (b \in 1 .. l)
      BY <1>12
    <3>2. \A b \in 1 .. l :
            Reaches(kind, bars[b]) /\ ~Reaches(kind, Front(bars[b]))
      BY <1>5, <1>7, <2>7
    <3>3. ~(l + 1 < l + 1)
      BY <1>12
    <3>4. QED
      BY <2>5, <2>7, <3>1, <3>2, <3>3
  <2>10. QED
    BY <2>6, <2>7, <2>8, <2>9 DEF CutUp
<1>15. QED
  BY <1>13, <1>14

-----------------------------------------------------------------------------
(* The bars of a frame *)

LEMMA SamplingTyped == SamplingSpec => []SamplingTypes
<1>1. SamplingInit => SamplingTypes
  BY DEF SamplingInit, SamplingTypes
<1>2. SamplingTypes /\ [ReceiveTrade]_samplingVars => SamplingTypes'
  <2> SUFFICES ASSUME SamplingTypes, [ReceiveTrade]_samplingVars
               PROVE  SamplingTypes'
    OBVIOUS
  <2>1. CASE ReceiveTrade
    <3>1. PICK at \in Instants, amount \in Sizes :
            trades' = Append(trades, [at |-> at, size |-> amount])
      BY <2>1 DEF ReceiveTrade
    <3>2. [at |-> at, size |-> amount] \in Trades
      BY SamplingAssumption DEF Trades
    <3>3. trades' \in Seq(Trades)
      BY <3>1, <3>2, AppendProperties DEF SamplingTypes
    <3>4. QED
      BY <3>3 DEF SamplingTypes
  <2>2. CASE UNCHANGED samplingVars
    BY <2>2 DEF samplingVars, SamplingTypes
  <2>3. QED
    BY <2>1, <2>2
<1>3. QED
  BY <1>1, <1>2, PTL DEF SamplingSpec

\* The time bars put together are the trades, each after the earlier ones.
InOrder(placed) ==
  /\ Len(placed) = Len(trades)
  /\ ToSet(placed) = DOMAIN trades
  /\ \A p \in 2 .. Len(placed) :
       \/ trades[placed[p - 1]].at < trades[placed[p]].at
       \/ trades[placed[p - 1]].at = trades[placed[p]].at /\ placed[p - 1] < placed[p]

LEMMA PreparedInOrder ==
  ASSUME SamplingTypes
  PROVE  InOrder(Prepared)
<1>1. PICK s : s = Prepared
  OBVIOUS
<1>2. PICK n : n = Len(s)
  OBVIOUS
<1>3. /\ n = Len(trades) /\ n \in Nat /\ DOMAIN s = 1 .. n
      /\ \A i \in 1 .. n : s[i] \in DOMAIN trades
  BY <1>1, <1>2, PreparedIsPlaced, LenProperties, ElementOfSeq
<1>4. /\ \A x \in DOMAIN trades : \E i \in 1 .. n : s[i] = x
      /\ \A i, j \in 1 .. n : i < j => s[i] \in Earlier(DOMAIN trades)[s[j]]
  BY <1>1, <1>2, PreparedIsPlaced DEF Placed
<1>5. ToSet(s) = DOMAIN trades
  BY <1>3, <1>4 DEF ToSet
<1>6. ASSUME NEW p \in 2 .. n
      PROVE  InTime(s[p - 1], s[p])
  <2>1. p - 1 \in 1 .. n /\ p \in 1 .. n /\ p - 1 < p
    BY <1>3
  <2>2. s[p - 1] \in Earlier(DOMAIN trades)[s[p]] /\ s[p] \in DOMAIN trades
    BY <1>3, <1>4, <2>1
  <2>3. QED
    BY <2>2 DEF Earlier
<1>7. QED
  BY <1>1, <1>2, <1>3, <1>5, <1>6 DEF InOrder, InTime

\* Resampling keeps every trade: the event bars of each kind and the time bars
\* are the trades in time order, cut where the threshold is first reached, and
\* no kind gives more bars than the target (build_event_bars and
\* build_time_bars_from_trades with calculate_event_thresholds), for every
\* sequence of trades.
THEOREM BarsPartition == SamplingSpec => []BarsPartitionTheTrades
<1>1. SamplingTypes => BarsPartitionTheTrades
  <2> SUFFICES ASSUME SamplingTypes
               PROVE  BarsPartitionTheTrades
    OBVIOUS
  <2>1. FlattenSeq(TimeBars) = Prepared
    BY TimeBarsJoin
  <2>2. InOrder(FlattenSeq(TimeBars))
    BY <2>1, PreparedInOrder
  <2>3. ASSUME NEW kind \in Kinds
        PROVE  CutUp(kind, EventBars(kind), Len(EventBars(kind)), FlattenSeq(TimeBars))
    <3>1. PICK acc : Cut(kind, acc, Prepared) /\ EventBars(kind) = BarsOf(acc)
      BY EventBarsCut
    <3>2. PICK bars : bars = EventBars(kind)
      OBVIOUS
    <3>3. CutUp(kind, bars, Len(bars), Prepared)
      BY <3>1, <3>2, BarsOfCut
    <3>4. QED
      BY <2>1, <3>2, <3>3
  <2>4. QED
    BY <2>2, <2>3, Zenon DEF BarsPartitionTheTrades, InOrder, CutUp
<1>2. QED
  BY <1>1, SamplingTyped, PTL

=============================================================================
