------------------------------- MODULE Sorting -------------------------------
(***************************************************************************)
(* The sorts of pandas, all of them stable.  What a sort returns is told   *)
(* without an algorithm: an element's place is given by the number of      *)
(* elements that come before it.                                           *)
(***************************************************************************)
EXTENDS Integers, Sequences, FiniteSets

\* before[x] is the set of those elements that x has to wait for.
Ranked(before) ==
  [k \in 1 .. Cardinality(DOMAIN before) |->
     CHOOSE x \in DOMAIN before : Cardinality(before[x]) = k - 1]

\* A set of numbers, smallest first.
Ascending(S) == Ranked([t \in S |-> {u \in S : u < t}])

\* A sequence of numbers, smallest first; equal ones keep their order.
Sorted(s) ==
  LET places == Ranked([i \in DOMAIN s |->
                          {j \in DOMAIN s : s[j] < s[i] \/ (s[j] = s[i] /\ j < i)}])
  IN [k \in 1 .. Len(s) |-> s[places[k]]]

=============================================================================
