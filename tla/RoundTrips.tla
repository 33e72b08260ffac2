------------------------------ MODULE RoundTrips ------------------------------
(***************************************************************************)
(* What the Day 22 calibration campaign promises about its slots, without  *)
(* the ledger, the lock, the gates and the polls that achieve it: every    *)
(* slot is consumed once, one slot at a time is exposed to the market, and *)
(* an attempt that has not been settled keeps every later one from opening.*)
(***************************************************************************)
CONSTANT Slots

VARIABLES
  life,     \* "waiting" for its window, "open" (an attempt), or "closed"
  entered,  \* the slots whose entry order has been sent
  exposed   \* the slots with a live order or an unflattened fill

vars == <<life, entered, exposed>>

Init ==
  /\ life = [s \in Slots |-> "waiting"]
  /\ entered = {}
  /\ exposed = {}

\* A slot is missed or skipped: nothing has been sent for it.
Forgo(S) ==
  /\ S # {}
  /\ \A s \in S : life[s] = "waiting"
  /\ life' = [s \in Slots |-> IF s \in S THEN "closed" ELSE life[s]]
  /\ UNCHANGED <<entered, exposed>>

\* An attempt opens only when no other one is open.
Open(s) ==
  /\ \A t \in Slots : life[t] # "open"
  /\ life[s] = "waiting"
  /\ life' = [life EXCEPT ![s] = "open"]
  /\ UNCHANGED <<entered, exposed>>

\* The one entry order of an open attempt is sent.
Enter(s) ==
  /\ life[s] = "open"
  /\ s \notin entered
  /\ entered' = entered \cup {s}
  /\ exposed' = exposed \cup {s}
  /\ UNCHANGED life

\* Fills and the flatten change the exposure of an open attempt only.
Trade(s) ==
  /\ life[s] = "open"
  /\ s \in entered
  /\ exposed' \in {exposed \cup {s}, exposed \ {s}}
  /\ UNCHANGED <<life, entered>>

\* An attempt is closed only when nothing of it is left in the market.
Settle(s) ==
  /\ life[s] = "open"
  /\ s \notin exposed
  /\ life' = [life EXCEPT ![s] = "closed"]
  /\ UNCHANGED <<entered, exposed>>

Next ==
  \/ \E S \in SUBSET Slots : Forgo(S)
  \/ \E s \in Slots : Open(s) \/ Enter(s) \/ Trade(s) \/ Settle(s)

Spec == Init /\ [][Next]_vars

=============================================================================
