----------------------------- MODULE MCEvidence -----------------------------
(***************************************************************************)
(* The store, the publication of one bundle and the experiments that rest  *)
(* on published bundles, side by side.  They share no file here, so a      *)
(* behaviour exercises one of them: no call of a writer is made, no        *)
(* download and no study is started, no experiment is run otherwise.       *)
(***************************************************************************)
EXTENDS DatasetStore, Publication, EvidenceChain, TLC

CONSTANTS p1, p2, m1, m2

(* Both runs are started with the default. *)
MCSelected == [p \in {p1, p2} |-> {m1, m2}]

(* The steps after which no month is written by two runs. *)
OneRunPerMonthNext == OneRunPerMonth'

NoSelection == [p \in {} |-> {}]

(* The two bundles are those of days 17 and 26 for day 28, of days 16 and  *)
(* 25 for day 29, which loads tables from the former only.                 *)
MCNeeds == [day28 |-> <<"first", "second">>, day29 |-> <<"first", "second">>,
            day31 |-> <<"day28">>]

MCLoads == [MCNeeds EXCEPT !.day29 = <<"first">>]

NoNeeds == [run \in {} |-> <<>>]

Symmetric ==
  Permutations(Downloaders) \cup Permutations(Months) \cup Permutations(Writers)

StoreIdle ==
  /\ \A p \in Downloaders : at[p] = "idle"
  /\ \A s \in Studies : study[s].step = "idle"

WritersIdle ==
  /\ \A w \in Writers : writing[w] = "idle" /\ ~overwrite[w]
  /\ protocol = CHOOSE p \in Protocols : TRUE
  /\ bundle = NoFile

ChainIdle == \A run \in Experiments : outcome[run] = "idle"

EvidenceInit ==
  /\ StoreInit
  /\ PublicationInit
  /\ ChainInit
  /\ \A run \in HashesFirst, other \in Experiments \ HashesFirst :
       "idle" \in {outcome[run], outcome[other]}
  /\ \/ StoreIdle /\ WritersIdle
     \/ StoreIdle /\ ChainIdle
     \/ WritersIdle /\ ChainIdle

EvidenceNext ==
  \/ StoreNext /\ UNCHANGED <<publicationVars, chainVars>>
  \/ PublicationNext /\ UNCHANGED <<storeVars, chainVars>>
  \/ ChainNext /\ ~ChainIdle /\ UNCHANGED <<storeVars, publicationVars>>

evidenceVars == <<storeVars, publicationVars, chainVars>>

EvidenceSpec == EvidenceInit /\ [][EvidenceNext]_evidenceVars

=============================================================================
