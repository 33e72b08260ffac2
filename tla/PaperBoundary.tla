---------------------------- MODULE PaperBoundary ----------------------------
(***************************************************************************)
(* The read-only boundary to the paper broker (paper_boundary.py) and what *)
(* is decided from it: the Day 18 preflight, and the preflight and market  *)
(* window with which every Day 21 session and Day 22 slot begins, through  *)
(* the same adapter.                                                       *)
(*                                                                         *)
(* The broker is external.  A request may fail or be malformed, the        *)
(* account may be restricted, an asset not tradable.  Its clock reports    *)
(* whether a session is on, the next opening and the next closing: the two *)
(* fixtures of the repository show both cases, a closed market whose next  *)
(* opening comes first (tests/day18_fixtures.py) and an open one that      *)
(* closes before it opens again (broker/day21_scenarios.py).               *)
(***************************************************************************)
EXTENDS Naturals, Sequences

CONSTANTS
  Openings, Closings,   \* instants of the market's sessions, in order; one
                        \* begins and one ends after Horizon
  MinimumTimeToClose,   \* before an entry
  Symbols,              \* CORE_SYMBOLS
  Horizon               \* bound: last instant

VARIABLES
  now,
  follows,   \* does a session follow the preflight, or is it day 18's alone?
  next,      \* the call that comes next
  passed,    \* the gates so far
  troubles,  \* the calls whose answer was not a good one (history)
  outcome    \* none yet, raised, failed, skipped, passed, eligible

preflightVars == <<now, follows, next, passed, troubles, outcome>>

-----------------------------------------------------------------------------
(* The broker's clock *)

IsOpen(t) == \E d \in DOMAIN Openings : Openings[d] <= t /\ t < Closings[d]

Following(instants, t) ==
  CHOOSE e \in {instants[d] : d \in DOMAIN instants} :
    /\ e > t
    /\ \A d \in DOMAIN instants : instants[d] > t => e <= instants[d]

NextOpen(t) == Following(Openings, t)
NextClose(t) == Following(Closings, t)

-----------------------------------------------------------------------------
(* The calls, in the order in which they are made; the Day 21 script reads  *)
(* the clock once more before the first.                                   *)

Calls == <<"construct", "account", "clock">> \o Symbols \o <<"market clock">>

\* get_market_clock_snapshot
ClockIsValid == NextOpen(now) < NextClose(now)

\* The gate market_open_window.
WindowIsOpen == IsOpen(now) /\ NextClose(now) - now >= MinimumTimeToClose

PreflightInit ==
  /\ now \in 0 .. Horizon
  /\ follows \in BOOLEAN
  /\ next = 1
  /\ passed = TRUE
  /\ troubles = {}
  /\ outcome = "none"

Ends(how) == outcome' = how /\ UNCHANGED <<next, passed>>

\* Day 18 reports after the last asset, a session goes on to its own reading
\* of the clock and then evaluates its gates.
Goes(good) ==
  /\ passed' = (passed /\ good)
  /\ next' = next + 1
  /\ outcome' = IF next = Len(Calls) - 1 /\ ~follows
                THEN IF passed' THEN "passed" ELSE "failed"
                ELSE IF next = Len(Calls)
                     THEN IF passed' THEN "eligible" ELSE "skipped"
                     ELSE outcome

\* A refused configuration, missing credentials, a failed request or a
\* malformed answer: the adapter raises, no caller catches it.
Raises ==
  /\ Ends("raised")
  /\ troubles' = troubles \cup {Calls[next]}

\* The snapshot of an account or an asset; a restriction fails its gate only.
ReadsState ==
  /\ Calls[next] \in {"account"} \cup {Symbols[i] : i \in DOMAIN Symbols}
  /\ \E good \in BOOLEAN :
       /\ Goes(good)
       /\ troubles' = IF good THEN troubles ELSE troubles \cup {Calls[next]}

Constructs ==
  /\ Calls[next] = "construct"
  /\ Goes(TRUE)
  /\ UNCHANGED troubles

\* Both readings of the clock; a session's second one decides the window.
ReadsClock ==
  /\ Calls[next] \in {"clock", "market clock"}
  /\ IF ClockIsValid
     THEN Goes(Calls[next] = "market clock" => WindowIsOpen)
     ELSE Ends("raised")
  /\ troubles' = IF follows /\ ~WindowIsOpen
                 THEN troubles \cup {"market closed"} ELSE troubles

Call ==
  /\ outcome = "none"
  /\ Raises \/ Constructs \/ ReadsState \/ ReadsClock
  /\ UNCHANGED <<now, follows>>

TimePasses ==
  /\ now < Horizon
  /\ now' = now + 1
  /\ UNCHANGED <<follows, next, passed, troubles, outcome>>

PreflightNext == Call \/ TimePasses

PreflightSpec == PreflightInit /\ [][PreflightNext]_preflightVars

-----------------------------------------------------------------------------

\* What the specification of day 21 asks, in its section 5: the account, clock
\* and asset gates pass, and the market is open with enough time left.  A
\* session that is turned away had a request fail, an account or an asset
\* refused, or met a market that was closed or about to close.
RefusesForAReason ==
  (follows /\ outcome \in {"raised", "skipped"}) => troubles # {}

=============================================================================
