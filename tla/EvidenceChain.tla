---------------------------- MODULE EvidenceChain ----------------------------
(***************************************************************************)
(* The experiments that rest on saved bundles.  Days 28, 29 and 31 compare *)
(* their results with the bundles of earlier days: they authenticate those *)
(* by the hashes in their manifests, load tables from them, take a         *)
(* snapshot of every file's hash, compute, and verify the snapshot again   *)
(* before and after they publish.  No lock keeps the writer of an earlier  *)
(* day from replacing its bundle in between, and no two files are read in  *)
(* one step.                                                               *)
(*                                                                         *)
(* A bundle is two files, its tables and its manifest; their bytes are     *)
(* named by the version of the bundle they belong to, and a new version    *)
(* has new bytes.  The numerics of an experiment are left out.             *)
(***************************************************************************)
EXTENDS Naturals, Sequences, SequencesExt

CONSTANTS
  Sources,      \* the bundles whose writers may replace them
  Experiments,  \* the runs, each of which publishes a bundle of its name
  Needs,        \* the bundles each one compares with, in the order it reads
  Loads,        \* those of them it loads tables from
  HashesFirst,  \* the experiments that take the snapshot first (day 29)
  MaxVersions,  \* versions of a source
  NoBundle      \* no bundle, no file read

(* A source may be replaced, an experiment publishes once under its own    *)
(* name; versions are counted from 1.                                      *)
ASSUME ChainAssumption ==
  /\ Sources \cap Experiments = {}
  /\ Needs \in [Experiments -> Seq(Sources \cup Experiments)]
  /\ Loads \in [Experiments -> Seq(Sources \cup Experiments)]
  /\ NoBundle \notin Nat \ {0}

VARIABLES
  present,      \* the version under a bundle's name
  versions,     \* the versions published so far
  position,     \* the step of its script an experiment comes to next
  outcome,      \* idle, running, returned or failed
  declared,     \* the manifest an experiment authenticates with
  tables,       \* the tables it loaded
  snapshot,     \* the hashes it recorded
  compared      \* the versions published when it published (history)

chainVars == <<present, versions, position, outcome, declared, tables,
               snapshot, compared>>

Bundles == Sources \cup Experiments

Files == <<"tables", "manifest">>

(***************************************************************************)
(* The script of an experiment: what it does with which file, in order.    *)
(***************************************************************************)
On(bundles, what, files) ==
  FlattenSeq([n \in 1 .. Len(bundles) |->
    [f \in 1 .. Len(files) |->
       [do |-> what, bundle |-> bundles[n], file |-> files[f]]]])

Publishing(run) == <<[do |-> "publish", bundle |-> run, file |-> "tables"]>>

Verifying(run) == On(Needs[run], "verify", Files)

(* Manifests first; the tables are checked and loaded one by one, and all  *)
(* files are hashed into the snapshot after that (days 28 and 31).         *)
LoadThenHash(run) ==
  On(Needs[run], "declare", <<"manifest">>)
    \o On(Needs[run], "check", <<"tables">>)
    \o On(Loads[run], "load", <<"tables">>)
    \o On(Needs[run], "record", Files)

(* Every file is hashed into the snapshot as it is checked, and the tables *)
(* are loaded when the results are to be compared with them (day 29).      *)
HashThenLoad(run) ==
  On(Needs[run], "declare", <<"manifest">>)
    \o On(Needs[run], "record and check", Files)
    \o On(Loads[run], "load", <<"tables">>)

(* Faulty: no verification once the bundle is there. *)
ScriptUnverified(run) ==
  IF run \in HashesFirst
  THEN HashThenLoad(run) \o Verifying(run) \o Publishing(run)
  ELSE LoadThenHash(run) \o Verifying(run) \o Verifying(run) \o Publishing(run)

(* The computation, which reads nothing, comes before the first            *)
(* verification; day 31 verifies once more than day 28.  That a taken name *)
(* is refused is in Publication; each run here has a name of its own.      *)
Script(run) ==
  IF run \in HashesFirst
  THEN HashThenLoad(run) \o Verifying(run) \o Publishing(run)
         \o Verifying(run) \o On(Needs[run], "hash again", Files)
  ELSE LoadThenHash(run) \o Verifying(run) \o Verifying(run)
         \o Publishing(run) \o Verifying(run)

Unread == [f \in {"tables", "manifest"} |-> NoBundle]

ChainInit ==
  /\ present = [b \in Bundles |-> IF b \in Sources THEN 1 ELSE NoBundle]
  /\ versions = [b \in Bundles |-> IF b \in Sources THEN 1 ELSE 0]
  /\ position = [run \in Experiments |-> 1]
  /\ outcome \in [Experiments -> {"idle", "running"}]
  /\ declared = [run \in Experiments |-> [b \in Bundles |-> NoBundle]]
  /\ tables = [run \in Experiments |-> [b \in Bundles |-> NoBundle]]
  /\ snapshot = [run \in Experiments |-> [b \in Bundles |-> Unread]]
  /\ compared = [run \in Experiments |-> [b \in Bundles |-> 0]]

(***************************************************************************)
(* One step of a script.  A file that is not there, or whose hash differs  *)
(* from the expected one, raises.                                          *)
(***************************************************************************)
There(step) == present[step.bundle] # NoBundle

Authentic(run, step) ==
  step.file = "manifest" \/ declared[run][step.bundle] = present[step.bundle]

Unchanged(run, step) ==
  snapshot[run][step.bundle][step.file] = present[step.bundle]

Succeeds(run, step) ==
  CASE step.do = "publish" -> TRUE
    [] step.do \in {"check", "record and check"} ->
         There(step) /\ Authentic(run, step)
    [] step.do = "verify" -> There(step) /\ Unchanged(run, step)
    [] OTHER -> There(step)

(* What the step leaves behind when it goes through. *)
Declare(run, step) ==
  declared' = IF step.do = "declare"
              THEN [declared EXCEPT ![run][step.bundle] = present[step.bundle]]
              ELSE declared

Load(run, step) ==
  tables' = IF step.do = "load"
            THEN [tables EXCEPT ![run][step.bundle] = present[step.bundle]]
            ELSE tables

Record(run, step) ==
  snapshot' = IF step.do \in {"record", "record and check"}
              THEN [snapshot EXCEPT
                      ![run][step.bundle][step.file] = present[step.bundle]]
              ELSE snapshot

Issue(run, step) ==
  IF step.do = "publish"
  THEN /\ present' = [present EXCEPT ![run] = 1]
       /\ versions' = [versions EXCEPT ![run] = 1]
       /\ compared' = [compared EXCEPT ![run] = versions]
  ELSE UNCHANGED <<present, versions, compared>>

ScriptStep(run) ==
  /\ outcome[run] = "running"
  /\ LET step == Script(run)[position[run]]
     IN \/ /\ Succeeds(run, step)
           /\ Declare(run, step)
           /\ Load(run, step)
           /\ Record(run, step)
           /\ Issue(run, step)
           /\ position' = [position EXCEPT ![run] = @ + 1]
           /\ outcome' = [outcome EXCEPT ![run] =
                IF position[run] = Len(Script(run)) THEN "returned" ELSE @]
        \/ /\ ~Succeeds(run, step)
           /\ outcome' = [outcome EXCEPT ![run] = "failed"]
           /\ UNCHANGED <<present, versions, position, declared, tables,
                          snapshot, compared>>

(***************************************************************************)
(* The writer of a source replaces it: aside, then the new one in, or the  *)
(* old one back.                                                           *)
(***************************************************************************)
experimentVars == <<position, outcome, declared, tables, snapshot, compared>>

MoveAside(b) ==
  /\ present[b] # NoBundle
  /\ versions[b] < MaxVersions
  /\ present' = [present EXCEPT ![b] = NoBundle]
  /\ UNCHANGED <<versions, experimentVars>>

MoveIn(b) ==
  /\ present[b] = NoBundle
  /\ versions' = [versions EXCEPT ![b] = @ + 1]
  /\ present' = [present EXCEPT ![b] = versions'[b]]
  /\ UNCHANGED experimentVars

PutBack(b) ==
  /\ present[b] = NoBundle
  /\ present' = [present EXCEPT ![b] = versions[b]]
  /\ UNCHANGED <<versions, experimentVars>>

ChainNext ==
  \/ \E run \in Experiments : ScriptStep(run)
  \/ \E b \in Sources : MoveAside(b) \/ MoveIn(b) \/ PutBack(b)

ChainSpec == ChainInit /\ [][ChainNext]_chainVars

-----------------------------------------------------------------------------

Compares(run) == {Needs[run][n] : n \in DOMAIN Needs[run]}

(* An experiment that returned compared with one version of each bundle it *)
(* names: its snapshot is of a single version, the newest there was when   *)
(* its own bundle appeared, though the hashes are taken and verified file  *)
(* by file and any writer may replace a bundle between two of them.  Where *)
(* the snapshot is taken first, the manifest that authenticated the tables *)
(* and the tables that were loaded are of that version too; an experiment  *)
(* that hashes last may have loaded older ones.                            *)
ReturnedEvidenceIsTrue ==
  \A run \in Experiments : outcome[run] = "returned" =>
    \A b \in Compares(run) :
      /\ snapshot[run][b].tables = snapshot[run][b].manifest
      /\ snapshot[run][b].tables = compared[run][b]
      /\ run \in HashesFirst =>
           tables[run][b] \in {compared[run][b], NoBundle}
      /\ run \in HashesFirst => declared[run][b] = compared[run][b]

=============================================================================
