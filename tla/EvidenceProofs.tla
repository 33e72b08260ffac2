---------------------------- MODULE EvidenceProofs ----------------------------
(***************************************************************************)
(* What the saved evidence guarantees.  First the writers of the bundles,  *)
(* for every number of calls, failures, kills and interrupts: evidence     *)
(* that is written once stands, a manifest under the published name        *)
(* describes the files beside it, and a replaced bundle survives.  Then    *)
(* the store: a study that completes has read the stored months as they    *)
(* were downloaded, for any number of downloads and studies, and two       *)
(* downloads never replace what is stored.  Last the experiments that rest *)
(* on saved bundles: what one returned with is true of a single version of *)
(* each, for any number of experiments and bundles.                        *)
(***************************************************************************)
EXTENDS DatasetStore, Publication, EvidenceChain, NaturalsInduction,
        WellFoundedInduction, SequenceTheorems, TLAPS

-----------------------------------------------------------------------------
(* The publication of one bundle *)

Directories == [body : Runs \cup {NoFile}, manifest : Runs \cup {NoFile}]

Replacers == {"sweep", "unstage", "restore"}

Busy ==
  {"called", "look", "aside", "publish", "clean", "unstage", "rollback",
   "moveback", "leave", "create", "body", "manifest"}

Typed ==
  /\ protocol \in Protocols
  /\ overwrite \in [Writers -> BOOLEAN]
  /\ writing \in [Writers -> Finished \cup Busy]
  /\ bundle \in Directories \cup {NoFile}
  /\ stage \in [Writers -> Directories \cup {NoFile}]
  /\ backup \in [Writers -> Directories \cup {NoFile}]
  /\ published \in BOOLEAN
  /\ interrupts \in Nat

(* The steps a call can stand at, by the way the bundle is published. *)
OnItsWay ==
  \A w \in Writers :
    /\ protocol \in Replacers => writing[w] \notin {"create", "body", "manifest"}
    /\ protocol \in {"sweep", "restore"} => writing[w] # "unstage"
    /\ protocol = "once" => writing[w] \in Finished \cup {"called", "publish", "unstage"}
    /\ protocol = "inplace" =>
         writing[w] \in Finished \cup {"called", "create", "body", "manifest"}
    /\ protocol = "filewise" =>
         writing[w] \in Finished \cup {"called", "create", "body", "manifest", "leave"}

(* What is staged is whole until it is published, and nothing is set aside *)
(* before the step that does it, or by a writer that never replaces.       *)
Staged ==
  \A w \in Writers :
    /\ writing[w] \in {"look", "aside", "publish"} => stage[w] = Whole(w)
    /\ writing[w] \in {"idle", "called", "look", "aside"} => backup[w] = NoFile
    /\ protocol \in {"once", "inplace"} => backup[w] = NoFile
    /\ writing[w] = "clean" => backup[w] # NoFile
    /\ writing[w] \in {"body", "manifest"} => bundle # NoFile

AbsentOrComplete(d) == d = NoFile \/ Complete(d)

(* The writers that touch nothing but whole bundles: no backup of theirs is *)
(* half removed and used again.                                            *)
Careful ==
  \/ protocol \in {"restore", "once"}
  \/ /\ protocol = "sweep"
     /\ interrupts = 0
     /\ \A w \in Writers, step \in {"clean", "moveback"} : <<w, step>> \notin faults

WholeBundles ==
  Careful =>
    /\ AbsentOrComplete(bundle)
    /\ \A w \in Writers :
         writing[w] \in {"publish", "rollback", "moveback"} => AbsentOrComplete(backup[w])

(* The directory that is filled in place belongs to the call that made it. *)
Writing(w) == writing[w] \in {"body", "manifest"}

FilledByOne ==
  protocol = "inplace" =>
    /\ \A v, w \in Writers : Writing(v) /\ Writing(w) => v = w
    /\ \A w \in Writers : writing[w] = "body" => bundle = Empty
    /\ \A w \in Writers : writing[w] = "manifest" =>
         bundle = [body |-> w, manifest |-> NoFile]
    /\ bundle # NoFile /\ bundle.manifest # NoFile => Complete(bundle)

(* A complete bundle is published, or set aside by a call that will not    *)
(* remove it: it is not cleaning up, nor on the way out of a finally clause. *)
Keeps(w) ==
  /\ Complete(backup[w])
  /\ writing[w] # "clean"
  /\ protocol = "sweep" => writing[w] # "leave"

Safe == Complete(bundle) \/ \E w \in Writers : Keeps(w)

Survives == published /\ (protocol = "unstage" \/ (protocol \in Replacers /\ Careful)) => Safe

PublicationInv == Typed /\ OnItsWay /\ Staged /\ WholeBundles /\ FilledByOne /\ Survives

\* What is left of a directory, and a directory with a file more, is one.
LEMMA DirectoryChanges ==
  ASSUME NEW d \in Directories, NEW r \in Runs \cup {NoFile},
         NEW file \in {"body", "manifest"}
  PROVE  /\ PartOf(d) \subseteq Directories
         /\ [d EXCEPT ![file] = r] \in Directories
<1>1. [d EXCEPT !.body = NoFile] \in Directories /\ [d EXCEPT !.manifest = NoFile] \in Directories
  BY DEF Directories
<1>2. Empty \in Directories
  BY DEF Directories, Empty
<1>3. CASE file = "body"
  <2>1. [d EXCEPT !.body = r] \in Directories
    BY DEF Directories
  <2>2. QED
    BY <1>1, <1>2, <1>3, <2>1 DEF PartOf
<1>4. CASE file = "manifest"
  <2>1. [d EXCEPT !.manifest = r] \in Directories
    BY DEF Directories
  <2>2. QED
    BY <1>1, <1>2, <1>4, <2>1 DEF PartOf
<1>5. QED
  BY <1>3, <1>4

\* The names that are free, and what is in a directory.
LEMMA DirectoryFacts ==
  ASSUME NEW d \in Directories, NEW w \in Writers
  PROVE  /\ d # NoFile /\ Whole(w) # NoFile /\ Complete(Whole(w)) /\ Empty # NoFile
         /\ w # NoFile /\ ~Complete(Empty) /\ ~Complete(NoFile)
         /\ Complete(Whole(Old))
         /\ Whole(w).body = w /\ Empty.manifest = NoFile
         /\ {Whole(w), Whole(Old), Empty} \subseteq Directories
BY PublicationAssumption DEF Directories, Whole, Empty, Runs, Complete

\* A step keeps the types.
LEMMA TypedKept ==
  ASSUME Typed, OnItsWay, Staged, FilledByOne,
         NEW w \in Writers,
         WriterStep(w) \/ Killed(w) \/ Interrupted(w)
  PROVE  Typed'
<1>. USE PublicationAssumption DEF Typed, Directories, Whole, Empty, Runs, Goes, Refused, Finished, Busy
<1>1. CASE WriterStep(w) /\ Prepare(w)
  BY <1>1 DEF WriterStep, Prepare, Refuses
<1>2. CASE WriterStep(w) /\ Look(w)
  BY <1>2 DEF WriterStep, Look
<1>3. CASE WriterStep(w) /\ Aside(w)
  BY <1>3 DEF WriterStep, Aside, OnError, CallFails
<1>4. CASE WriterStep(w) /\ Publish(w)
  BY <1>4 DEF WriterStep, Publish, OnError, CallFails, AfterPublishing, NameIsFree
<1>5. CASE WriterStep(w) /\ Clean(w)
  <2>1. backup[w] \in Directories
    <3>1. writing[w] = "clean"
      BY <1>5 DEF Clean
    <3>2. backup[w] # NoFile /\ backup[w] \in Directories \cup {NoFile}
      BY <3>1 DEF Staged
    <3>3. QED
      BY <3>2
  <2>2. PartOf(backup[w]) \subseteq Directories
    BY <2>1, DirectoryChanges
  <2>3. QED
    BY <1>5, <2>2 DEF WriterStep, Clean, CleanFailed, OnError, CallFails
<1>6. CASE WriterStep(w) /\ Unstage(w)
  BY <1>6 DEF WriterStep, Unstage, CallFails
<1>7. CASE WriterStep(w) /\ Rollback(w)
  BY <1>7 DEF WriterStep, Rollback, AfterRollback, Restores
<1>8. CASE WriterStep(w) /\ MoveBack(w)
  BY <1>8 DEF WriterStep, MoveBack, AfterRollback, NameIsFree, CallFails
<1>9. CASE WriterStep(w) /\ Leave(w)
  BY <1>9 DEF WriterStep, Leave, CallFails
<1>10. CASE WriterStep(w) /\ Create(w)
  BY <1>10 DEF WriterStep, Create
<1>11. CASE WriterStep(w) /\ WriteFile(w)
  <2>1. bundle \in Directories /\ w \in Runs
    <3>1. writing[w] \in {"body", "manifest"}
      BY <1>11 DEF WriteFile
    <3>2. bundle # NoFile /\ bundle \in Directories \cup {NoFile}
      BY <3>1 DEF Staged
    <3>3. QED
      BY <3>2
  <2>2. [bundle EXCEPT ![WritesNext(w)] = w] \in Directories
    BY <2>1, DirectoryChanges DEF WritesNext
  <2>3. QED
    BY <1>11, <2>2 DEF WriterStep, WriteFile, CallFails
<1>12. CASE Killed(w)
  BY <1>12 DEF Killed, Working
<1>13. CASE Interrupted(w)
  BY <1>13 DEF Interrupted, Working, AfterInterrupt
<1>14. QED
  BY <1>1, <1>2, <1>3, <1>4, <1>5, <1>6, <1>7, <1>8, <1>9, <1>10, <1>11, <1>12,
     <1>13 DEF WriterStep

\* A step keeps every call on the way of its protocol.
LEMMA WayKept ==
  ASSUME Typed, OnItsWay, Staged,
         NEW w \in Writers,
         WriterStep(w) \/ Killed(w) \/ Interrupted(w)
  PROVE  OnItsWay'
<1>. USE PublicationAssumption DEF Typed, OnItsWay, Staged, Goes, Refused, Finished, Busy, Replacers
<1>1. CASE WriterStep(w) /\ Prepare(w)
  BY <1>1 DEF WriterStep, Prepare, Refuses
<1>2. CASE WriterStep(w) /\ Look(w)
  BY <1>2 DEF WriterStep, Look
<1>3. CASE WriterStep(w) /\ Aside(w)
  BY <1>3 DEF WriterStep, Aside, OnError, CallFails
<1>4. CASE WriterStep(w) /\ Publish(w)
  BY <1>4 DEF WriterStep, Publish, OnError, CallFails, AfterPublishing, NameIsFree
<1>5. CASE WriterStep(w) /\ Clean(w)
  BY <1>5 DEF WriterStep, Clean, CleanFailed, OnError, CallFails, PartOf
<1>6. CASE WriterStep(w) /\ Unstage(w)
  BY <1>6 DEF WriterStep, Unstage, CallFails
<1>7. CASE WriterStep(w) /\ Rollback(w)
  BY <1>7 DEF WriterStep, Rollback, AfterRollback, Restores
<1>8. CASE WriterStep(w) /\ MoveBack(w)
  BY <1>8 DEF WriterStep, MoveBack, AfterRollback, NameIsFree, CallFails
<1>9. CASE WriterStep(w) /\ Leave(w)
  BY <1>9 DEF WriterStep, Leave, CallFails
<1>10. CASE WriterStep(w) /\ Create(w)
  BY <1>10 DEF WriterStep, Create
<1>11. CASE WriterStep(w) /\ WriteFile(w)
  BY <1>11 DEF WriterStep, WriteFile, WritesNext, CallFails
<1>12. CASE Killed(w)
  BY <1>12 DEF Killed, Working
<1>13. CASE Interrupted(w)
  BY <1>13 DEF Interrupted, Working, AfterInterrupt
<1>14. QED
  BY <1>1, <1>2, <1>3, <1>4, <1>5, <1>6, <1>7, <1>8, <1>9, <1>10, <1>11, <1>12,
     <1>13 DEF WriterStep

\* A step keeps the staged bundles whole.
LEMMA StagedKept ==
  ASSUME Typed, OnItsWay, Staged,
         NEW w \in Writers,
         WriterStep(w) \/ Killed(w) \/ Interrupted(w)
  PROVE  Staged'
<1>. USE PublicationAssumption DEF Typed, OnItsWay, Staged, Goes, Refused, Finished, Busy, Replacers, Whole, Empty, Directories, Runs
<1>1. CASE WriterStep(w) /\ Prepare(w)
  BY <1>1 DEF WriterStep, Prepare, Refuses
<1>2. CASE WriterStep(w) /\ Look(w)
  BY <1>2 DEF WriterStep, Look
<1>3. CASE WriterStep(w) /\ Aside(w)
  BY <1>3 DEF WriterStep, Aside, OnError, CallFails
<1>4. CASE WriterStep(w) /\ Publish(w)
  BY <1>4 DEF WriterStep, Publish, OnError, CallFails, AfterPublishing, NameIsFree
<1>5. CASE WriterStep(w) /\ Clean(w)
  BY <1>5 DEF WriterStep, Clean, CleanFailed, OnError, CallFails, PartOf
<1>6. CASE WriterStep(w) /\ Unstage(w)
  BY <1>6 DEF WriterStep, Unstage, CallFails
<1>7. CASE WriterStep(w) /\ Rollback(w)
  BY <1>7 DEF WriterStep, Rollback, AfterRollback, Restores
<1>8. CASE WriterStep(w) /\ MoveBack(w)
  BY <1>8 DEF WriterStep, MoveBack, AfterRollback, NameIsFree, CallFails
<1>9. CASE WriterStep(w) /\ Leave(w)
  BY <1>9 DEF WriterStep, Leave, CallFails
<1>10. CASE WriterStep(w) /\ Create(w)
  BY <1>10 DEF WriterStep, Create
<1>11. CASE WriterStep(w) /\ WriteFile(w)
  BY <1>11 DEF WriterStep, WriteFile, WritesNext, CallFails
<1>12. CASE Killed(w)
  BY <1>12 DEF Killed, Working
<1>13. CASE Interrupted(w)
  BY <1>13 DEF Interrupted, Working, AfterInterrupt
<1>14. QED
  BY <1>1, <1>2, <1>3, <1>4, <1>5, <1>6, <1>7, <1>8, <1>9, <1>10, <1>11, <1>12,
     <1>13 DEF WriterStep

\* A careless step is not taken back: what is careful after a step was so before.
LEMMA CareStays ==
  ASSUME Typed,
         NEW w \in Writers,
         WriterStep(w) \/ Killed(w) \/ Interrupted(w)
  PROVE  Careful' => Careful
<1>. USE PublicationAssumption DEF Typed, Careful, Goes
<1>1. CASE WriterStep(w) /\ Prepare(w)
  BY <1>1 DEF WriterStep, Prepare, Refuses
<1>2. CASE WriterStep(w) /\ Look(w)
  BY <1>2 DEF WriterStep, Look
<1>3. CASE WriterStep(w) /\ Aside(w)
  BY <1>3 DEF WriterStep, Aside, OnError, CallFails
<1>4. CASE WriterStep(w) /\ Publish(w)
  BY <1>4 DEF WriterStep, Publish, OnError, CallFails, AfterPublishing, NameIsFree
<1>5. CASE WriterStep(w) /\ Clean(w)
  BY <1>5 DEF WriterStep, Clean, CleanFailed, OnError, CallFails
<1>6. CASE WriterStep(w) /\ Unstage(w)
  BY <1>6 DEF WriterStep, Unstage, CallFails
<1>7. CASE WriterStep(w) /\ Rollback(w)
  BY <1>7 DEF WriterStep, Rollback, AfterRollback, Restores
<1>8. CASE WriterStep(w) /\ MoveBack(w)
  BY <1>8 DEF WriterStep, MoveBack, AfterRollback, NameIsFree, CallFails
<1>9. CASE WriterStep(w) /\ Leave(w)
  BY <1>9 DEF WriterStep, Leave, CallFails
<1>10. CASE WriterStep(w) /\ Create(w)
  BY <1>10 DEF WriterStep, Create
<1>11. CASE WriterStep(w) /\ WriteFile(w)
  BY <1>11 DEF WriterStep, WriteFile, WritesNext, CallFails
<1>12. CASE Killed(w)
  BY <1>12 DEF Killed, Working
<1>13. CASE Interrupted(w)
  BY <1>13 DEF Interrupted, Working, AfterInterrupt
<1>14. QED
  BY <1>1, <1>2, <1>3, <1>4, <1>5, <1>6, <1>7, <1>8, <1>9, <1>10, <1>11, <1>12,
     <1>13 DEF WriterStep

\* A careful step keeps the bundles whole.
LEMMA WholeKept ==
  ASSUME Typed, OnItsWay, Staged, WholeBundles,
         NEW w \in Writers,
         WriterStep(w) \/ Killed(w) \/ Interrupted(w)
  PROVE  WholeBundles'
<1>. USE PublicationAssumption DEF Typed, OnItsWay, Staged, WholeBundles, AbsentOrComplete, Goes, Refused, Finished, Busy, Replacers
<1>0. Complete(Whole(w)) /\ ~Complete(Empty) /\ (Careful' => Careful)
  <2>1. Empty \in Directories
    BY DEF Empty, Directories
  <2>2. QED
    BY <2>1, DirectoryFacts, CareStays
<1>1. CASE WriterStep(w) /\ Prepare(w)
  BY <1>1, <1>0 DEF WriterStep, Prepare, Refuses
<1>2. CASE WriterStep(w) /\ Look(w)
  BY <1>2, <1>0 DEF WriterStep, Look
<1>3. CASE WriterStep(w) /\ Aside(w)
  BY <1>3, <1>0 DEF WriterStep, Aside, OnError, CallFails
<1>4. CASE WriterStep(w) /\ Publish(w)
  BY <1>4, <1>0 DEF WriterStep, Publish, OnError, CallFails, AfterPublishing, NameIsFree
<1>5. CASE WriterStep(w) /\ Clean(w)
  BY <1>5, <1>0 DEF WriterStep, Careful, Clean, CleanFailed, OnError, CallFails
<1>6. CASE WriterStep(w) /\ Unstage(w)
  BY <1>6, <1>0 DEF WriterStep, Careful, Unstage, CallFails
<1>7. CASE WriterStep(w) /\ Rollback(w)
  BY <1>7, <1>0 DEF WriterStep, Rollback, AfterRollback, Restores
<1>8. CASE WriterStep(w) /\ MoveBack(w)
  BY <1>8, <1>0 DEF WriterStep, Careful, MoveBack, AfterRollback, NameIsFree, CallFails
<1>9. CASE WriterStep(w) /\ Leave(w)
  BY <1>9, <1>0 DEF WriterStep, Leave, CallFails
<1>10. CASE WriterStep(w) /\ Create(w)
  BY <1>10, <1>0 DEF WriterStep, Careful, Create
<1>11. CASE WriterStep(w) /\ WriteFile(w)
  BY <1>11, <1>0 DEF WriterStep, Careful, WriteFile, WritesNext, CallFails
<1>12. CASE Killed(w)
  BY <1>12, <1>0 DEF Killed, Working
<1>13. CASE Interrupted(w)
  BY <1>13, <1>0 DEF Interrupted, Working, AfterInterrupt
<1>14. QED
  BY <1>1, <1>2, <1>3, <1>4, <1>5, <1>6, <1>7, <1>8, <1>9, <1>10, <1>11, <1>12,
     <1>13 DEF WriterStep

\* A directory that is filled in place stays with the call that made it.
LEMMA FilledKept ==
  ASSUME Typed, OnItsWay, Staged, FilledByOne,
         NEW w \in Writers,
         WriterStep(w) \/ Killed(w) \/ Interrupted(w)
  PROVE  FilledByOne'
<1>. USE PublicationAssumption DEF Typed, OnItsWay, Staged, FilledByOne, Writing, Goes, Refused, Finished, Busy, Replacers
<1>0. /\ w # NoFile /\ Empty.manifest = NoFile /\ ~Complete(Empty) /\ Empty # NoFile
      /\ Complete(Whole(w))
  <2>1. Empty \in Directories
    BY DEF Empty, Directories
  <2>2. QED
    BY <2>1, DirectoryFacts
<1>1. CASE WriterStep(w) /\ Prepare(w)
  BY <1>1, <1>0 DEF WriterStep, Prepare, Refuses
<1>2. CASE WriterStep(w) /\ Look(w)
  BY <1>2, <1>0 DEF WriterStep, Look
<1>3. CASE WriterStep(w) /\ Aside(w)
  BY <1>3, <1>0 DEF WriterStep, Aside, OnError, CallFails
<1>4. CASE WriterStep(w) /\ Publish(w)
  BY <1>4, <1>0 DEF WriterStep, Publish, OnError, CallFails, AfterPublishing, NameIsFree
<1>5. CASE WriterStep(w) /\ Clean(w)
  BY <1>5, <1>0 DEF WriterStep, Clean, CleanFailed, OnError, CallFails
<1>6. CASE WriterStep(w) /\ Unstage(w)
  BY <1>6, <1>0 DEF WriterStep, Unstage, CallFails
<1>7. CASE WriterStep(w) /\ Rollback(w)
  BY <1>7, <1>0 DEF WriterStep, Rollback, AfterRollback, Restores
<1>8. CASE WriterStep(w) /\ MoveBack(w)
  BY <1>8, <1>0 DEF WriterStep, MoveBack, AfterRollback, NameIsFree, CallFails
<1>9. CASE WriterStep(w) /\ Leave(w)
  BY <1>9, <1>0 DEF WriterStep, Leave, CallFails
<1>10. CASE WriterStep(w) /\ Create(w)
  BY <1>10, <1>0 DEF WriterStep, Create
<1>11. CASE WriterStep(w) /\ WriteFile(w)
  <2>1. CASE protocol # "inplace"
    BY <1>11, <2>1 DEF WriterStep
  <2>2. CASE protocol = "inplace" /\ writing[w] = "body"
    <3>1. bundle = [body |-> NoFile, manifest |-> NoFile] /\ \A v \in Writers : Writing(v) => v = w
      BY <2>2 DEF Empty
    <3>2. [bundle EXCEPT !["body"] = w] = [body |-> w, manifest |-> NoFile]
      BY <3>1
    <3>3. /\ writing' \in {[writing EXCEPT ![w] = "manifest"], [writing EXCEPT ![w] = "failed"]}
          /\ bundle' \in {bundle, [body |-> w, manifest |-> NoFile]}
          /\ writing'[w] = "manifest" => bundle' = [body |-> w, manifest |-> NoFile]
          /\ protocol' = protocol
      BY <1>11, <2>2, <3>2 DEF WriterStep, WriteFile, WritesNext
    <3>4. bundle'.manifest = NoFile
      BY <3>1, <3>3
    <3>5. QED
      BY <2>2, <3>1, <3>3, <3>4
  <2>3. CASE protocol = "inplace" /\ writing[w] = "manifest"
    <3>1. bundle = [body |-> w, manifest |-> NoFile] /\ \A v \in Writers : Writing(v) => v = w
      BY <2>3
    <3>2. [bundle EXCEPT !["manifest"] = w] = Whole(w)
      BY <3>1 DEF Whole
    <3>3. /\ writing' \in {[writing EXCEPT ![w] = "returned"], [writing EXCEPT ![w] = "failed"]}
          /\ bundle' \in {bundle, Whole(w)}
          /\ protocol' = protocol
      BY <1>11, <2>3, <3>2 DEF WriterStep, WriteFile, WritesNext
    <3>4. bundle'.manifest = NoFile \/ Complete(bundle')
      BY <3>1, <3>3, <1>0
    <3>5. QED
      BY <2>3, <3>1, <3>3, <3>4
  <2>4. QED
    BY <1>11, <2>1, <2>2, <2>3 DEF WriteFile
<1>12. CASE Killed(w)
  BY <1>12, <1>0 DEF Killed, Working
<1>13. CASE Interrupted(w)
  BY <1>13, <1>0 DEF Interrupted, Working, AfterInterrupt
<1>14. QED
  BY <1>1, <1>2, <1>3, <1>4, <1>5, <1>6, <1>7, <1>8, <1>9, <1>10, <1>11, <1>12,
     <1>13 DEF WriterStep

\* A step does not remove the last complete bundle.
LEMMA SurvivesKept ==
  ASSUME Typed, OnItsWay, Staged, WholeBundles, Survives,
         NEW w \in Writers,
         WriterStep(w) \/ Killed(w) \/ Interrupted(w)
  PROVE  Survives'
<1>. USE PublicationAssumption DEF Typed, OnItsWay, Staged, WholeBundles, AbsentOrComplete, Survives, Safe, Keeps, Goes, Refused, Finished, Busy, Replacers
<1>0. Complete(Whole(w)) /\ ~Complete(Empty) /\ ~Complete(NoFile) /\ (Careful' => Careful)
  <2>1. Empty \in Directories
    BY DEF Empty, Directories
  <2>2. QED
    BY <2>1, DirectoryFacts, CareStays
<1>1. CASE WriterStep(w) /\ Prepare(w)
  BY <1>1, <1>0 DEF WriterStep, Prepare, Refuses
<1>2. CASE WriterStep(w) /\ Look(w)
  BY <1>2, <1>0 DEF WriterStep, Look
<1>3. CASE WriterStep(w) /\ Aside(w)
  BY <1>3, <1>0 DEF WriterStep, Aside, OnError, CallFails
<1>4. CASE WriterStep(w) /\ Publish(w)
  BY <1>4, <1>0 DEF WriterStep, Publish, OnError, CallFails, AfterPublishing, NameIsFree
<1>5. CASE WriterStep(w) /\ Clean(w)
  BY <1>5, <1>0 DEF WriterStep, Clean, CleanFailed, OnError, CallFails
<1>6. CASE WriterStep(w) /\ Unstage(w)
  BY <1>6, <1>0 DEF WriterStep, Unstage, CallFails
<1>7. CASE WriterStep(w) /\ Rollback(w)
  BY <1>7, <1>0 DEF WriterStep, Rollback, AfterRollback, Restores
<1>8. CASE WriterStep(w) /\ MoveBack(w)
  <2>1. CASE bundle' = bundle /\ backup' = backup
    BY <1>8, <1>0, <2>1 DEF WriterStep, Careful, MoveBack, AfterRollback, NameIsFree, CallFails
  <2>2. CASE /\ NameIsFree
             /\ bundle' = backup[w]
             /\ backup' = [backup EXCEPT ![w] = NoFile]
    <3>1. ~Complete(bundle)
      BY <2>2, <1>0 DEF NameIsFree
    <3>2. \A z \in Writers \ {w} : backup'[z] = backup[z] /\ writing'[z] = writing[z]
      BY <1>8, <2>2 DEF MoveBack
    <3>3. protocol' = protocol /\ (published' = (published \/ Complete(bundle')))
      BY <1>8 DEF WriterStep
    <3>4. ASSUME NEW z \in Writers, Keeps(z) PROVE Safe'
      BY <2>2, <3>2, <3>3, <3>4
    <3>5. QED
      BY <1>0, <3>1, <3>3, <3>4
  <2>3. QED
    BY <1>8, <2>1, <2>2 DEF MoveBack
<1>9. CASE WriterStep(w) /\ Leave(w)
  BY <1>9, <1>0 DEF WriterStep, Leave, CallFails
<1>10. CASE WriterStep(w) /\ Create(w)
  BY <1>10, <1>0 DEF WriterStep, Create
<1>11. CASE WriterStep(w) /\ WriteFile(w)
  BY <1>11, <1>0 DEF WriterStep, WriteFile, WritesNext, CallFails
<1>12. CASE Killed(w)
  BY <1>12, <1>0 DEF Killed, Working
<1>13. CASE Interrupted(w)
  BY <1>13, <1>0 DEF Careful, Interrupted, Working, AfterInterrupt
<1>14. QED
  BY <1>1, <1>2, <1>3, <1>4, <1>5, <1>6, <1>7, <1>8, <1>9, <1>10, <1>11, <1>12,
     <1>13 DEF WriterStep

\* The invariant at the start.
LEMMA PublicationStarts == PublicationInit => PublicationInv
<1>. SUFFICES ASSUME PublicationInit PROVE PublicationInv
  OBVIOUS
<1>1. Whole(Old) \in Directories /\ Complete(Whole(Old)) /\ Whole(Old) # NoFile
  BY PublicationAssumption DEF Whole, Directories, Runs, Complete
<1>2. Typed /\ OnItsWay
  BY <1>1, PublicationAssumption
  DEF PublicationInit, Typed, OnItsWay, Busy, Finished, Replacers
<1>3. Staged
  BY DEF PublicationInit, Staged
<1>4. WholeBundles
  BY <1>1 DEF PublicationInit, WholeBundles, AbsentOrComplete
<1>5. FilledByOne
  BY <1>1 DEF PublicationInit, FilledByOne, Writing
<1>6. Survives
  BY <1>1 DEF PublicationInit, Survives, Safe
<1>7. QED
  BY <1>2, <1>3, <1>4, <1>5, <1>6 DEF PublicationInv

\* The invariant is inductive.
LEMMA PublicationStep ==
  PublicationInv /\ [PublicationNext]_publicationVars => PublicationInv'
<1>. SUFFICES ASSUME PublicationInv, [PublicationNext]_publicationVars
              PROVE  PublicationInv'
  OBVIOUS
<1>1. CASE PublicationNext
  <2>1. PICK w \in Writers : WriterStep(w) \/ Killed(w) \/ Interrupted(w)
    BY <1>1 DEF PublicationNext
  <2>2. QED
    BY <2>1, TypedKept, WayKept, StagedKept, WholeKept, FilledKept, SurvivesKept
    DEF PublicationInv
<1>2. CASE UNCHANGED publicationVars
  BY <1>2
  DEF publicationVars, PublicationInv, Typed, OnItsWay, Staged, WholeBundles, Careful,
      AbsentOrComplete, Complete, FilledByOne, Writing, Survives, Safe, Keeps
<1>3. QED
  BY <1>1, <1>2

LEMMA PublicationAlways == PublicationSpec => []PublicationInv
BY PublicationStarts, PublicationStep, PTL DEF PublicationSpec

\* A manifest under the published name describes the files beside it, wherever
\* the writers are stopped and however many run side by side.
THEOREM WholeOnceNamed == PublicationSpec => []PublishedIsWhole
<1>1. PublicationInv => PublishedIsWhole
  BY DEF PublicationInv, PublishedIsWhole, WholeBundles, Careful, AbsentOrComplete, FilledByOne
<1>2. QED
  BY <1>1, PublicationAlways, PTL

\* Once published, a bundle is on disk at every moment: under its name or set
\* aside, whatever fails, is killed or runs beside the call that replaces it,
\* with the exceptions the finally clause makes.
THEOREM ReplacementSurvives == PublicationSpec => []SurvivesFailures
<1>1. PublicationInv => SurvivesFailures
  <2>. SUFFICES ASSUME PublicationInv, Replacing, published,
                       protocol = "sweep" => Careful
                PROVE  OnDisk
    BY DEF SurvivesFailures, Careful
  <2>1. Safe
    BY DEF PublicationInv, Survives, Replacing, Replacers, Careful
  <2>2. QED
    BY <2>1 DEF Safe, Keeps, OnDisk
<1>2. QED
  BY <1>1, PublicationAlways, PTL

\* Evidence that is written once stands: no step of a second call changes it.
THEOREM WrittenOnce == PublicationSpec => WriteOnceStands
<1>1. /\ PublicationInv
      /\ [PublicationNext]_publicationVars
      => [(protocol \in {"once", "inplace"} /\ Complete(bundle))
            => UNCHANGED bundle]_publicationVars
  <2>. SUFFICES ASSUME PublicationInv, PublicationNext,
                       protocol \in {"once", "inplace"}, Complete(bundle)
                PROVE  UNCHANGED bundle
    OBVIOUS
  <2>1. PICK w \in Writers : WriterStep(w) \/ Killed(w) \/ Interrupted(w)
    BY DEF PublicationNext
  <2>2. /\ writing[w] \notin {"aside", "moveback"}
        /\ writing[w] \in {"create", "body", "manifest"} => protocol = "inplace"
    BY DEF PublicationInv, OnItsWay, Finished
  <2>3. bundle # NoFile /\ bundle # Empty
    BY DEF Complete, Empty
  <2>4. writing[w] # "body" /\ writing[w] # "manifest"
    <3>1. bundle.manifest # NoFile
      BY DEF Complete
    <3>2. writing[w] = "manifest" => bundle = [body |-> w, manifest |-> NoFile]
      BY <2>2 DEF PublicationInv, FilledByOne
    <3>3. writing[w] = "body" => bundle = Empty
      BY <2>2 DEF PublicationInv, FilledByOne
    <3>4. QED
      BY <2>3, <3>1, <3>2, <3>3
  <2>5. CASE Killed(w) \/ Interrupted(w)
    BY <2>5 DEF Killed, Interrupted
  <2>6. CASE WriterStep(w)
    BY <2>2, <2>3, <2>4, <2>6
    DEF WriterStep, Prepare, Refuses, Look, Aside, Publish, NameIsFree, Clean, Unstage,
        Rollback, MoveBack, Leave, Create, WriteFile
  <2>7. QED
    BY <2>1, <2>5, <2>6
<1>2. QED
  BY <1>1, PublicationAlways, PTL DEF PublicationSpec, WriteOnceStands

-----------------------------------------------------------------------------
(* The dataset store *)

Steps == {"idle", "ensure", "check", "open data", "close data", "hash",
          "open manifest", "close manifest", "replace data",
          "replace manifest", "stored", "done", "failed", "killed"}
BeforeRename == {"open data", "close data", "hash", "open manifest",
                 "close manifest", "replace data"}
Storing == {"check", "replace manifest", "stored"} \cup BeforeRename

WholeFile(p, what) == [by |-> p, what |-> what, whole |-> TRUE]
MonthSets(m) == {Raw(m), Canonical(m)}

FileTypes ==
  /\ data = [d \in Datasets |-> data[d]]
  /\ manifest = [d \in Datasets |-> manifest[d]]
  /\ newData = [d \in Datasets |-> newData[d]]
  /\ newManifest = [d \in Datasets |-> newManifest[d]]
  /\ digest = [p \in Downloaders |-> digest[p]]
  /\ at \in [Downloaders -> Steps]

RunTypes ==
  /\ left \in [Downloaders -> SUBSET Months]
  /\ \A p \in Downloaders : left[p] \subseteq Selected[p]
  /\ job = [p \in Downloaders |-> job[p]]
  /\ content = [p \in Downloaders |-> content[p]]
  /\ \A p \in Downloaders : at[p] \in Storing =>
       job[p] = Combined \/ \E m \in Selected[p] : job[p] \in MonthSets(m)

StudyTypes ==
  /\ study = [s \in Studies |-> study[s]]
  /\ \A s \in Studies :
       DOMAIN study[s] = {"step", "expected", "frame", "lineage"}

StoreTypes == FileTypes /\ RunTypes /\ StudyTypes

\* How far the writer of a month's dataset has come.  A temporary file that is
\* not there any more stops it.
MonthWrite(p, d) ==
  /\ at[p] \in {"check"} \cup BeforeRename => manifest[d] = None
  /\ at[p] \in BeforeRename => data[d] = None
  /\ at[p] = "close data" => newData[d] = Opened(p, content[p])
  /\ at[p] \in {"hash", "open manifest", "close manifest", "replace data"} =>
       newData[d] \in {None, WholeFile(p, content[p])}
  /\ at[p] \in {"open manifest", "close manifest", "replace data",
                "replace manifest", "stored"} => digest[p] = content[p]
  /\ at[p] = "close manifest" =>
       newManifest[d] = Opened(p, [sha256 |-> content[p]])
  /\ at[p] \in {"replace data", "replace manifest"} =>
       newManifest[d] \in {None, WholeFile(p, [sha256 |-> content[p]])}
  /\ at[p] = "replace manifest" => manifest[d] = None
  /\ at[p] \in {"replace manifest", "stored"} =>
       data[d] # None /\ data[d] = WholeFile(p, content[p])
  /\ at[p] = "stored" =>
       manifest[d] # None /\ manifest[d] = WholeFile(p, [sha256 |-> content[p]])

\* What the canonical bars of a month are: derived from the raw ones.
Derived(m) == [bars |-> data[Raw(m)].what.bars,
               source |-> {manifest[Raw(m)].what.sha256}]

MonthWriters ==
  \A p \in Downloaders : \A m \in Selected[p] :
    /\ at[p] \in Storing /\ job[p] \in MonthSets(m) => MonthWrite(p, job[p])
    /\ at[p] \in Storing /\ job[p] = Raw(m) => manifest[Canonical(m)] = None
    /\ at[p] \in Storing /\ job[p] = Canonical(m) =>
         manifest[Raw(m)] # None /\ content[p] = Derived(m)

\* A dataset of a month with a manifest verifies, and is what it should be.
MonthsSound ==
  \A m \in Months :
    /\ \A d \in MonthSets(m) : manifest[d] # None => Verified(d)
    /\ manifest[Canonical(m)] # None =>
         manifest[Raw(m)] # None /\ data[Canonical(m)].what = Derived(m)

\* Whatever is written of the combined dataset, it is of every month.
EveryMonth == \A m \in Months : manifest[Canonical(m)] # None
Total == [bars |-> UNION {data[Canonical(m)].what.bars : m \in Months},
          source |-> {manifest[Canonical(m)].what.sha256 : m \in Months}]
IsTotal(file) ==
  file # None =>
    /\ file = [by |-> file.by, what |-> file.what, whole |-> file.whole]
    /\ EveryMonth /\ file.what = Total
CombinedSound ==
  /\ IsTotal(data[Combined]) /\ IsTotal(newData[Combined])
  /\ \A p \in Downloaders : at[p] \in Storing /\ job[p] = Combined =>
       EveryMonth /\ content[p] = Total
  /\ \A s \in Studies : study[s].step \in {"name", "evaluated"} =>
       EveryMonth /\ study[s].frame = Total

StoreInv == StoreTypes /\ MonthWriters /\ MonthsSound /\ CombinedSound

-----------------------------------------------------------------------------

LEMMA DatasetNames ==
  /\ Combined \in Datasets
  /\ \A m \in Months : Raw(m) \in Datasets /\ Canonical(m) \in Datasets
  /\ \A m : Raw(m) # Combined /\ Canonical(m) # Combined
  /\ \A m : Raw(m)[2] = m /\ Canonical(m)[2] = m
  /\ \A m, n : Raw(m) # Canonical(n)
  /\ \A m, n : Raw(m) = Raw(n) => m = n
  /\ \A m, n : Canonical(m) = Canonical(n) => m = n
BY DEF Combined, Raw, Canonical, Datasets

LEMMA FilesClosed ==
  /\ \A p : Closed(p, None) = None
  /\ \A p, what : Closed(p, Opened(p, what)) \in {None, WholeFile(p, what)}
  /\ \A p, what : Hash(WholeFile(p, what)) = what
<1>1. \A p : Closed(p, None) = None
  BY DEF Closed
<1>2. \A p, what : Closed(p, Opened(p, what)) \in {None, WholeFile(p, what)}
  BY DEF Closed, Opened, WholeFile
<1>3. \A p, what : Hash(WholeFile(p, what)) = what
  BY DEF Hash, WholeFile
<1> QED BY <1>1, <1>2, <1>3

LEMMA JobIsDataset ==
  ASSUME StoreTypes, NEW p \in Downloaders, at[p] \in Storing
  PROVE  job[p] \in Datasets
<1>1. job[p] = Combined \/ \E m \in Selected[p] : job[p] \in MonthSets(m)
  BY DEF StoreTypes, RunTypes
<1>2. Selected[p] \subseteq Months
  BY SelectionAssumption
<1> QED BY <1>1, <1>2, DatasetNames DEF MonthSets

\* What a step of LocalParquetStore.write leaves alone.
LEMMA WriteFrame ==
  ASSUME StoreTypes, NEW p \in Downloaders, StoreWrite(p)
  PROVE  /\ at[p] \in Storing
         /\ at'[p] \in Storing \cup {"failed"}
         /\ job' = job /\ content' = content /\ left' = left
         /\ \A q \in Downloaders : q # p =>
              at'[q] = at[q] /\ digest'[q] = digest[q]
         /\ \A d \in Datasets : d # job[p] =>
              /\ data'[d] = data[d] /\ manifest'[d] = manifest[d]
              /\ newData'[d] = newData[d] /\ newManifest'[d] = newManifest[d]
<1> USE DEF Step, Storing, BeforeRename
<1> FileTypes
  BY DEF StoreTypes
<1>1. CASE Check(p)
  BY <1>1 DEF FileTypes, Check, StoreWrite
<1>2. CASE OpenData(p)
  BY <1>2 DEF FileTypes, OpenData, StoreWrite
<1>3. CASE CloseData(p)
  BY <1>3 DEF FileTypes, CloseData, StoreWrite
<1>4. CASE TakeHash(p)
  BY <1>4 DEF FileTypes, TakeHash, StoreWrite
<1>5. CASE OpenManifest(p)
  BY <1>5 DEF FileTypes, OpenManifest, StoreWrite
<1>6. CASE CloseManifest(p)
  BY <1>6 DEF FileTypes, CloseManifest, StoreWrite
<1>7. CASE ReplaceData(p)
  BY <1>7 DEF FileTypes, ReplaceData, StoreWrite
<1>8. CASE ReplaceManifest(p)
  BY <1>8 DEF FileTypes, ReplaceManifest, StoreWrite
<1> QED BY <1>1, <1>2, <1>3, <1>4, <1>5, <1>6, <1>7, <1>8 DEF StoreWrite

LEMMA WriteTypes ==
  ASSUME StoreTypes, NEW p \in Downloaders, StoreWrite(p), study' = study
  PROVE  StoreTypes'
<1> FileTypes
  BY DEF StoreTypes
<1>1. \E s \in Steps : at' = [at EXCEPT ![p] = s]
  BY DEF StoreWrite, Check, OpenData, CloseData, TakeHash, OpenManifest,
         CloseManifest, ReplaceData, ReplaceManifest, Step, Steps
<1>2. /\ data' = [d \in Datasets |-> data'[d]]
      /\ manifest' = [d \in Datasets |-> manifest'[d]]
      /\ newData' = [d \in Datasets |-> newData'[d]]
      /\ newManifest' = [d \in Datasets |-> newManifest'[d]]
      /\ digest' = [q \in Downloaders |-> digest'[q]]
  <2>1. CASE Check(p)
    BY <2>1 DEF FileTypes, Check
  <2>2. CASE OpenData(p)
    BY <2>2 DEF FileTypes, OpenData
  <2>3. CASE CloseData(p)
    BY <2>3 DEF FileTypes, CloseData
  <2>4. CASE TakeHash(p)
    BY <2>4 DEF FileTypes, TakeHash
  <2>5. CASE OpenManifest(p)
    BY <2>5 DEF FileTypes, OpenManifest
  <2>6. CASE CloseManifest(p)
    BY <2>6 DEF FileTypes, CloseManifest
  <2>7. CASE ReplaceData(p)
    BY <2>7 DEF FileTypes, ReplaceData
  <2>8. CASE ReplaceManifest(p)
    BY <2>8 DEF FileTypes, ReplaceManifest
  <2> QED BY <2>1, <2>2, <2>3, <2>4, <2>5, <2>6, <2>7, <2>8 DEF StoreWrite
<1>3. \A q \in Downloaders : at'[q] \in Storing => at[q] \in Storing
  BY WriteFrame
<1>4. left' = left /\ job' = job /\ content' = content
  BY WriteFrame
<1>5. at' \in [Downloaders -> Steps]
  BY <1>1 DEF FileTypes
<1>6. FileTypes'
  BY <1>2, <1>5 DEF FileTypes
<1>7. RunTypes'
  BY <1>3, <1>4 DEF StoreTypes, RunTypes
<1> QED BY <1>6, <1>7 DEF StoreTypes, StudyTypes

\* The files of a month's dataset as its writer leaves them.
LEMMA MonthWriteStep ==
  ASSUME StoreTypes, NEW p \in Downloaders, StoreWrite(p),
         MonthWrite(p, job[p])
  PROVE  MonthWrite(p, job[p])'
<1> DEFINE d == job[p]
<1> FileTypes
  BY DEF StoreTypes
<1>1. d \in Datasets /\ at[p] \in Storing
  BY WriteFrame, JobIsDataset
<1>2. d' = d /\ content'[p] = content[p]
  BY WriteFrame
<1>3. CASE Check(p)
  BY <1>1, <1>2, <1>3 DEF FileTypes, Check, Step, MonthWrite, Exists, BeforeRename
<1>4. CASE OpenData(p)
  BY <1>1, <1>2, <1>4 DEF FileTypes, OpenData, Step, MonthWrite, BeforeRename
<1>5. CASE CloseData(p)
  BY <1>1, <1>2, <1>5, FilesClosed
  DEF FileTypes, CloseData, Step, MonthWrite, BeforeRename
<1>6. CASE TakeHash(p)
  <2>1. /\ data' = data /\ manifest' = manifest
        /\ newData' = newData /\ newManifest' = newManifest
    BY <1>6 DEF TakeHash
  <2>2. CASE newData[d] = None
    <3> at'[p] = "failed"
      BY <1>6, <2>2 DEF TakeHash, Step, FileTypes
    <3> QED BY DEF MonthWrite, BeforeRename
  <2>3. CASE newData[d] # None
    <3>1. newData[d] = WholeFile(p, content[p])
      BY <1>6, <2>3 DEF TakeHash, MonthWrite
    <3>2. Hash(newData[d]) = content[p]
      BY <3>1, FilesClosed
    <3>3. at'[p] = "open manifest" /\ digest'[p] = content[p]
      BY <1>6, <2>3, <3>2 DEF TakeHash, Step, FileTypes
    <3> QED
      BY <1>2, <1>6, <2>1, <3>3 DEF TakeHash, MonthWrite, BeforeRename
  <2> QED BY <2>2, <2>3
<1>7. CASE OpenManifest(p)
  BY <1>1, <1>2, <1>7 DEF FileTypes, OpenManifest, Step, MonthWrite, BeforeRename
<1>8. CASE CloseManifest(p)
  BY <1>1, <1>2, <1>8, FilesClosed
  DEF FileTypes, CloseManifest, Step, MonthWrite, BeforeRename
<1>9. CASE ReplaceData(p)
  BY <1>1, <1>2, <1>9 DEF FileTypes, ReplaceData, Step, MonthWrite, BeforeRename
<1>10. CASE ReplaceManifest(p)
  BY <1>1, <1>2, <1>10 DEF FileTypes, ReplaceManifest, Step, MonthWrite, BeforeRename
<1> QED BY <1>3, <1>4, <1>5, <1>6, <1>7, <1>8, <1>9, <1>10 DEF StoreWrite

\* A month's dataset is named in its manifest from the last rename on, and no
\* step of any run changes it after that.
LEMMA MonthStands ==
  ASSUME StoreTypes, MonthWriters, NEW p \in Downloaders, StoreWrite(p),
         NEW m \in Months, NEW d \in MonthSets(m), manifest[d] # None
  PROVE  data'[d] = data[d] /\ manifest'[d] = manifest[d]
<1>1. d \in Datasets /\ d # Combined
  BY DatasetNames DEF MonthSets
<1>2. CASE d # job[p]
  BY <1>1, <1>2, WriteFrame
<1>3. CASE d = job[p]
  <2>1. at[p] \in Storing
    BY WriteFrame
  <2>2. PICK n \in Selected[p] : job[p] \in MonthSets(n)
    BY <1>1, <1>3, <2>1 DEF StoreTypes, RunTypes
  <2>3. MonthWrite(p, job[p])
    BY <2>1, <2>2 DEF MonthWriters
  <2>4. at[p] \notin {"check", "replace manifest"} \cup BeforeRename
    BY <2>3, <1>3 DEF MonthWrite
  <2> QED
    BY <2>4 DEF StoreWrite, Check, OpenData, CloseData, TakeHash, OpenManifest,
       CloseManifest, ReplaceData, ReplaceManifest, BeforeRename
<1> QED BY <1>2, <1>3

\* The step leaves the datasets that have a manifest as they are.
MonthsStand ==
  \A m \in Months : \A d \in MonthSets(m) : manifest[d] # None =>
    data'[d] = data[d] /\ manifest'[d] = manifest[d]

LEMMA WriteStands ==
  ASSUME StoreTypes, MonthWriters, NEW p \in Downloaders, StoreWrite(p)
  PROVE  MonthsStand
BY MonthStands DEF MonthsStand

LEMMA DerivedStands ==
  ASSUME MonthsStand, NEW m \in Months, manifest[Raw(m)] # None
  PROVE  manifest'[Raw(m)] # None /\ Derived(m)' = Derived(m)
BY DEF MonthsStand, MonthSets, Derived

LEMMA TotalStands ==
  ASSUME MonthsStand, EveryMonth
  PROVE  EveryMonth' /\ Total' = Total
<1>1. \A m \in Months : /\ data'[Canonical(m)] = data[Canonical(m)]
                        /\ manifest'[Canonical(m)] = manifest[Canonical(m)]
  BY DEF MonthsStand, MonthSets, EveryMonth
<1>2. EveryMonth'
  BY <1>1 DEF EveryMonth
<1>3. {data'[Canonical(m)].what.bars : m \in Months} =
      {data[Canonical(m)].what.bars : m \in Months}
  BY <1>1
<1>4. {manifest'[Canonical(m)].what.sha256 : m \in Months} =
      {manifest[Canonical(m)].what.sha256 : m \in Months}
  BY <1>1
<1>5. Total' = Total
  BY <1>3, <1>4 DEF Total
<1> QED BY <1>2, <1>5

\* Two runs do not write datasets of the same month, by hypothesis.
LEMMA OwnMonths ==
  ASSUME OneRunPerMonth, NEW p \in Downloaders, NEW q \in Downloaders, p # q,
         at[p] \in Storing, at[q] \in Storing,
         NEW m \in Months, job[q] \in MonthSets(m)
  PROVE  job[p] \notin MonthSets(m)
<1>1. at[p] \notin Stopped \cup {"ensure"} /\ at[q] \notin Stopped \cup {"ensure"}
  BY DEF Storing, BeforeRename, Stopped
<1> SUFFICES ASSUME job[p] \in MonthSets(m) PROVE FALSE
  OBVIOUS
<1>2. /\ IsWriting(p, Raw(m)) \/ IsWriting(p, Canonical(m))
      /\ IsWriting(q, Raw(m)) \/ IsWriting(q, Canonical(m))
  BY <1>1 DEF IsWriting, MonthSets
<1> QED BY <1>2 DEF OneRunPerMonth

LEMMA WriteMonthWriters ==
  ASSUME StoreTypes, MonthWriters, OneRunPerMonth,
         NEW p \in Downloaders, StoreWrite(p)
  PROVE  MonthWriters'
<1> SUFFICES ASSUME NEW q \in Downloaders, NEW m \in Selected[q],
                    at'[q] \in Storing
             PROVE  /\ job'[q] \in MonthSets(m) => MonthWrite(q, job[q])'
                    /\ job'[q] = Raw(m) => manifest'[Canonical(m)] = None
                    /\ job'[q] = Canonical(m) =>
                         manifest'[Raw(m)] # None /\ content'[q] = Derived(m)'
  BY DEF MonthWriters
<1>1. /\ at[q] \in Storing /\ at[p] \in Storing /\ m \in Months
      /\ job' = job /\ content' = content
  BY WriteFrame, SelectionAssumption
<1>2. job'[q] \in MonthSets(m) => MonthWrite(q, job[q])'
  <2> SUFFICES ASSUME job[q] \in MonthSets(m) PROVE MonthWrite(q, job[q])'
    BY <1>1
  <2>1. MonthWrite(q, job[q])
    BY <1>1 DEF MonthWriters
  <2>2. CASE q = p
    BY <2>1, <2>2, MonthWriteStep
  <2>3. CASE q # p
    <3>1. job[q] # job[p] /\ job[q] \in Datasets
      BY <1>1, <2>3, OwnMonths, JobIsDataset
    <3>2. /\ data'[job[q]] = data[job[q]]
          /\ manifest'[job[q]] = manifest[job[q]]
          /\ newData'[job[q]] = newData[job[q]]
          /\ newManifest'[job[q]] = newManifest[job[q]]
          /\ at'[q] = at[q] /\ digest'[q] = digest[q]
      BY <2>3, <3>1, WriteFrame
    <3> QED BY <1>1, <2>1, <3>2 DEF MonthWrite
  <2> QED BY <2>2, <2>3
<1>3. job'[q] = Raw(m) => manifest'[Canonical(m)] = None
  <2> SUFFICES ASSUME job[q] = Raw(m) PROVE manifest'[Canonical(m)] = None
    BY <1>1
  <2>1. manifest[Canonical(m)] = None
    BY <1>1 DEF MonthWriters
  <2>2. Canonical(m) # job[p]
    <3>1. job[q] \in MonthSets(m) /\ Canonical(m) \in MonthSets(m)
      BY DEF MonthSets
    <3>2. CASE q = p
      BY <3>2, DatasetNames
    <3>3. CASE q # p
      BY <1>1, <3>1, <3>3, OwnMonths
    <3> QED BY <3>2, <3>3
  <2> QED BY <1>1, <2>1, <2>2, WriteFrame, DatasetNames
<1>4. job'[q] = Canonical(m) =>
        manifest'[Raw(m)] # None /\ content'[q] = Derived(m)'
  BY <1>1, WriteStands, DerivedStands DEF MonthWriters
<1> QED BY <1>2, <1>3, <1>4

LEMMA WriteMonthsSound ==
  ASSUME StoreTypes, MonthWriters, MonthsSound,
         NEW p \in Downloaders, StoreWrite(p)
  PROVE  MonthsSound'
<1> SUFFICES ASSUME NEW m \in Months
             PROVE  /\ \A d \in MonthSets(m) :
                         manifest'[d] # None => Verified(d)'
                    /\ manifest'[Canonical(m)] # None =>
                         /\ manifest'[Raw(m)] # None
                         /\ data'[Canonical(m)].what = Derived(m)'
  BY DEF MonthsSound
<1>1. MonthsStand
  BY WriteStands
\* A manifest that appears is the one of the run that renames it.
<1>2. ASSUME NEW d \in MonthSets(m), manifest[d] = None, manifest'[d] # None
      PROVE  /\ d = job[p] /\ m \in Selected[p]
             /\ data'[d] # None /\ data'[d] = WholeFile(p, content[p])
             /\ manifest'[d] = WholeFile(p, [sha256 |-> content[p]])
  <2>1. d \in Datasets /\ d # Combined
    BY DatasetNames DEF MonthSets
  <2>2. d = job[p] /\ at[p] \in Storing
    BY <1>2, <2>1, WriteFrame
  <2>3. PICK n \in Selected[p] : job[p] \in MonthSets(n)
    BY <2>1, <2>2 DEF StoreTypes, RunTypes
  <2>4. n = m
    BY <2>2, <2>3, DatasetNames DEF MonthSets
  <2>5. MonthWrite(p, job[p])'
    BY <2>2, <2>3, MonthWriteStep DEF MonthWriters
  <2>6. job' = job /\ content' = content
    BY WriteFrame
  <2>7. at'[p] = "stored"
    <3>1. CASE ReplaceManifest(p)
      BY <1>2, <3>1 DEF ReplaceManifest, Step, StoreTypes, FileTypes
    <3>2. CASE CloseManifest(p)
      BY <1>2, <2>1, <2>2, <3>2, FilesClosed DEF CloseManifest, StoreTypes, FileTypes
    <3> QED
      BY <1>2, <3>1, <3>2 DEF StoreWrite, Check, OpenData, CloseData, TakeHash,
         OpenManifest, ReplaceData
  <2> QED BY <2>2, <2>3, <2>4, <2>5, <2>6, <2>7 DEF MonthWrite
<1>3. ASSUME NEW d \in MonthSets(m), manifest'[d] # None
      PROVE  Verified(d)'
  <2>1. CASE manifest[d] # None
    <3>1. data'[d] = data[d] /\ manifest'[d] = manifest[d]
      BY <1>1, <2>1 DEF MonthsStand
    <3> QED BY <2>1, <3>1 DEF MonthsSound, Verified, Readable
  <2>2. CASE manifest[d] = None
    BY <1>2, <1>3, <2>2 DEF Verified, Readable, WholeFile, Hash
  <2> QED BY <2>1, <2>2
<1>4. ASSUME manifest'[Canonical(m)] # None
      PROVE  /\ manifest'[Raw(m)] # None
             /\ data'[Canonical(m)].what = Derived(m)'
  <2> Canonical(m) \in MonthSets(m)
    BY DEF MonthSets
  <2>1. CASE manifest[Canonical(m)] # None
    <3>1. /\ manifest[Raw(m)] # None
          /\ data[Canonical(m)].what = Derived(m)
          /\ data'[Canonical(m)] = data[Canonical(m)]
      BY <1>1, <2>1 DEF MonthsSound, MonthsStand
    <3> QED BY <1>1, <3>1, DerivedStands
  <2>2. CASE manifest[Canonical(m)] = None
    <3>1. /\ Canonical(m) = job[p] /\ m \in Selected[p]
          /\ data'[Canonical(m)] = WholeFile(p, content[p])
      BY <1>2, <1>4, <2>2
    <3>2. manifest[Raw(m)] # None /\ content[p] = Derived(m)
      BY <3>1, WriteFrame DEF MonthWriters
    <3> QED BY <1>1, <3>1, <3>2, DerivedStands DEF WholeFile
  <2> QED BY <2>1, <2>2
<1> QED BY <1>3, <1>4

LEMMA TotalFiles ==
  /\ EveryMonth => \A p : IsTotal(Opened(p, Total))
  /\ \A p, file : IsTotal(file) => IsTotal(Closed(p, file))
<1>1. EveryMonth => \A p : IsTotal(Opened(p, Total))
  BY DEF IsTotal, Opened
<1>2. ASSUME NEW p, NEW file, IsTotal(file) PROVE IsTotal(Closed(p, file))
  <2>1. CASE file # None /\ file.by = p
    <3>1. file = [by |-> file.by, what |-> file.what, whole |-> file.whole]
      BY <1>2, <2>1 DEF IsTotal
    <3>2. Closed(p, file) =
            [by |-> file.by, what |-> file.what, whole |-> TRUE]
      BY <2>1, <3>1 DEF Closed
    <3> QED BY <1>2, <2>1, <3>2 DEF IsTotal
  <2>2. CASE ~(file # None /\ file.by = p)
    BY <1>2, <2>2 DEF Closed
  <2> QED BY <2>1, <2>2
<1> QED BY <1>1, <1>2

LEMMA TotalFileStands ==
  ASSUME MonthsStand, NEW file, IsTotal(file), NEW changed, changed = file
  PROVE  changed # None =>
           /\ changed = [by |-> changed.by, what |-> changed.what,
                         whole |-> changed.whole]
           /\ EveryMonth' /\ changed.what = Total'
BY TotalStands DEF IsTotal

LEMMA WriteCombinedSound ==
  ASSUME StoreTypes, MonthWriters, CombinedSound,
         NEW p \in Downloaders, StoreWrite(p), study' = study
  PROVE  CombinedSound'
<1>1. MonthsStand
  BY WriteStands
<1>2. IsTotal(data'[Combined]) /\ IsTotal(newData'[Combined])
  <2> Combined \in Datasets
    BY DatasetNames
  <2>1. CASE job[p] # Combined
    BY <2>1, WriteFrame DEF CombinedSound
  <2>2. CASE job[p] = Combined
    <3>1. EveryMonth /\ content[p] = Total
      BY <2>2, WriteFrame DEF CombinedSound
    <3>2. IsTotal(None)
      BY DEF IsTotal
    <3>3. CASE OpenData(p)
      <4>1. /\ newData'[Combined] = Opened(p, Total)
            /\ data'[Combined] = data[Combined]
        BY <2>2, <3>1, <3>3 DEF OpenData, StoreTypes, FileTypes
      <4> QED BY <3>1, <4>1, TotalFiles DEF CombinedSound
    <3>4. CASE CloseData(p)
      <4>1. /\ newData'[Combined] = Closed(p, newData[Combined])
            /\ data'[Combined] = Closed(p, data[Combined])
        BY <2>2, <3>4 DEF CloseData, StoreTypes, FileTypes
      <4> QED BY <4>1, TotalFiles DEF CombinedSound
    <3>5. CASE ReplaceData(p)
      BY <2>2, <3>2, <3>5 DEF ReplaceData, StoreTypes, FileTypes, CombinedSound
    <3>6. CASE ~OpenData(p) /\ ~CloseData(p) /\ ~ReplaceData(p)
      BY <3>6 DEF StoreWrite, Check, TakeHash, OpenManifest, CloseManifest,
         ReplaceManifest, CombinedSound
    <3> QED BY <3>3, <3>4, <3>5, <3>6
  <2> QED BY <2>1, <2>2
<1>3. ASSUME EveryMonth PROVE EveryMonth' /\ Total' = Total
  BY <1>1, <1>3, TotalStands
<1>4. IsTotal(data[Combined])' /\ IsTotal(newData[Combined])'
  BY <1>2, <1>3 DEF IsTotal
<1>5. \A q \in Downloaders : at'[q] \in Storing /\ job'[q] = Combined =>
        EveryMonth' /\ content'[q] = Total'
  BY <1>3, WriteFrame DEF CombinedSound
<1>6. \A s \in Studies : study'[s].step \in {"name", "evaluated"} =>
        EveryMonth' /\ study'[s].frame = Total'
  BY <1>3 DEF CombinedSound
<1> QED BY <1>4, <1>5, <1>6 DEF CombinedSound

-----------------------------------------------------------------------------

\* What a step that writes no file, and moves at most process p, keeps.
KeepsFiles ==
  /\ data' = data /\ manifest' = manifest
  /\ newData' = newData /\ newManifest' = newManifest

LEMMA FilesKept ==
  ASSUME KeepsFiles, MonthsSound
  PROVE  MonthsSound' /\ MonthsStand
BY DEF KeepsFiles, MonthsSound, MonthsStand, Verified, Readable, Hash, Derived

\* The run p is taken to be the only one that moves, and to write a month's
\* dataset only as its writer may.
LEMMA RunMoves ==
  ASSUME KeepsFiles, StoreTypes, MonthWriters, CombinedSound,
         NEW p \in Downloaders, study' = study, digest' = digest,
         NEW s \in Steps, at' = [at EXCEPT ![p] = s],
         NEW j, job' = [job EXCEPT ![p] = j],
         NEW c, content' = [content EXCEPT ![p] = c],
         NEW l \in SUBSET Selected[p], left' = [left EXCEPT ![p] = l],
         s \in Storing =>
           /\ s = "check"
           /\ \/ j = Combined /\ EveryMonth /\ c = Total
              \/ \E m \in Selected[p] :
                   /\ j \in MonthSets(m)
                   /\ manifest[j] = None
                   /\ manifest[Canonical(m)] = None
                   /\ j = Canonical(m) =>
                        manifest[Raw(m)] # None /\ c = Derived(m)
  PROVE  StoreTypes' /\ MonthWriters' /\ CombinedSound'
<1>1. /\ at'[p] = s /\ job'[p] = j /\ content'[p] = c
      /\ \A q \in Downloaders : q # p =>
           at'[q] = at[q] /\ job'[q] = job[q] /\ content'[q] = content[q]
  BY DEF StoreTypes, FileTypes, RunTypes
<1>2. StoreTypes'
  <2>1. at' \in [Downloaders -> Steps]
    BY DEF StoreTypes, FileTypes, RunTypes
  <2>2. left' \in [Downloaders -> SUBSET Months]
    BY SelectionAssumption DEF StoreTypes, FileTypes, RunTypes
  <2>3. \A q \in Downloaders : left'[q] \subseteq Selected[q]
    BY DEF StoreTypes, FileTypes, RunTypes
  <2>4. /\ job' = [q \in Downloaders |-> job'[q]]
        /\ content' = [q \in Downloaders |-> content'[q]]
    BY DEF StoreTypes, FileTypes, RunTypes
  <2>5. \A q \in Downloaders : at'[q] \in Storing =>
          job'[q] = Combined \/ \E m \in Selected[q] : job'[q] \in MonthSets(m)
    BY <1>1 DEF StoreTypes, FileTypes, RunTypes
  <2> QED BY <2>1, <2>2, <2>3, <2>4, <2>5
     DEF StoreTypes, FileTypes, RunTypes, StudyTypes, KeepsFiles
<1>3. MonthWriters'
  <2> SUFFICES ASSUME NEW q \in Downloaders, NEW m \in Selected[q],
                      at'[q] \in Storing
               PROVE  /\ job'[q] \in MonthSets(m) => MonthWrite(q, job[q])'
                      /\ job'[q] = Raw(m) => manifest'[Canonical(m)] = None
                      /\ job'[q] = Canonical(m) =>
                           /\ manifest'[Raw(m)] # None
                           /\ content'[q] = Derived(m)'
    BY DEF MonthWriters
  <2>1. Derived(m)' = Derived(m)
    BY DEF Derived, KeepsFiles
  <2>2. CASE q # p
    <3>1. at'[q] = at[q] /\ job'[q] = job[q] /\ content'[q] = content[q]
      BY <1>1, <2>2
    <3>2. MonthWrite(q, job[q]) => MonthWrite(q, job[q])'
      BY <3>1 DEF MonthWrite, KeepsFiles
    <3> QED BY <2>1, <3>1, <3>2 DEF MonthWriters, KeepsFiles
  <2>3. CASE q = p
    <3>1. s = "check"
      BY <1>1, <2>3
    <3>2. CASE j = Combined
      BY <1>1, <2>3, <3>2, DatasetNames DEF MonthSets
    <3>3. CASE j # Combined
      <4>1. PICK n \in Selected[p] :
              /\ j \in MonthSets(n)
              /\ manifest[j] = None
              /\ manifest[Canonical(n)] = None
              /\ j = Canonical(n) => manifest[Raw(n)] # None /\ c = Derived(n)
        BY <1>1, <2>3, <3>3
      <4>2. MonthWrite(q, job[q])'
        BY <1>1, <2>3, <3>1, <4>1 DEF MonthWrite, BeforeRename, KeepsFiles
      <4>3. j \in MonthSets(m) => n = m
        BY <4>1, DatasetNames DEF MonthSets
      <4> QED
        BY <1>1, <2>1, <2>3, <4>1, <4>2, <4>3 DEF MonthSets, KeepsFiles
    <3> QED BY <3>2, <3>3
  <2> QED BY <2>2, <2>3
<1>4. CombinedSound'
  <2>1. Total' = Total /\ (EveryMonth' <=> EveryMonth)
    BY DEF Total, EveryMonth, KeepsFiles
  <2>2. IsTotal(data[Combined])' /\ IsTotal(newData[Combined])'
    BY <2>1 DEF CombinedSound, IsTotal, KeepsFiles
  <2>3. j = Combined /\ s \in Storing => EveryMonth /\ c = Total
    BY DatasetNames DEF MonthSets
  <2>4. \A q \in Downloaders : at'[q] \in Storing /\ job'[q] = Combined =>
          EveryMonth' /\ content'[q] = Total'
    BY <1>1, <2>1, <2>3 DEF CombinedSound
  <2>5. \A t \in Studies : study'[t].step \in {"name", "evaluated"} =>
          EveryMonth' /\ study'[t].frame = Total'
    BY <2>1 DEF CombinedSound
  <2> QED BY <2>2, <2>4, <2>5 DEF CombinedSound
<1> QED BY <1>2, <1>3, <1>4

\* A step that leaves a run its job and its content, and stops it or has it
\* look for its next month.
LEMMA RunHalts ==
  ASSUME StoreInv, NEW p \in Downloaders, KeepsFiles, study' = study,
         digest' = digest, job' = job, content' = content,
         NEW s \in Steps \ Storing, at' = [at EXCEPT ![p] = s],
         NEW l \in SUBSET Selected[p], left' = [left EXCEPT ![p] = l]
  PROVE  StoreInv'
<1>1. job' = [job EXCEPT ![p] = job[p]]
  BY DEF StoreInv, StoreTypes, FileTypes, RunTypes
<1>2. content' = [content EXCEPT ![p] = content[p]]
  BY DEF StoreInv, StoreTypes, FileTypes, RunTypes
<1> QED BY <1>1, <1>2, RunMoves, FilesKept DEF StoreInv

LEMMA RunWrites ==
  ASSUME StoreInv, NEW p \in Downloaders, KeepsFiles, study' = study,
         digest' = digest, left' = left, NEW j, NEW c, Writes(p, j, c),
         \/ j = Combined /\ EveryMonth /\ c = Total
         \/ \E m \in Selected[p] :
              /\ j \in MonthSets(m)
              /\ manifest[j] = None
              /\ manifest[Canonical(m)] = None
              /\ j = Canonical(m) => manifest[Raw(m)] # None /\ c = Derived(m)
  PROVE  StoreInv'
<1>1. left' = [left EXCEPT ![p] = left[p]] /\ left[p] \in SUBSET Selected[p]
  BY DEF StoreInv, StoreTypes, FileTypes, RunTypes
<1>2. /\ job' = [job EXCEPT ![p] = j]
      /\ content' = [content EXCEPT ![p] = c]
      /\ at' = [at EXCEPT ![p] = "check"]
  BY DEF Writes, Step
<1>3. "check" \in Steps
  BY DEF Steps
<1> QED BY <1>1, <1>2, <1>3, RunMoves, FilesKept DEF StoreInv

LEMMA MonthEnsured ==
  ASSUME StoreInv, NEW p \in Downloaders, NEW m \in Months, EnsureMonth(p, m),
         KeepsFiles, study' = study
  PROVE  StoreInv'
<1>1. m \in Selected[p] /\ left[p] \in SUBSET Selected[p] /\ digest' = digest
  BY DEF EnsureMonth, StoreInv, StoreTypes, FileTypes, RunTypes
<1>2. left = [left EXCEPT ![p] = left[p]] /\ at = [at EXCEPT ![p] = at[p]]
  BY DEF StoreInv, StoreTypes, FileTypes, RunTypes
<1>3. {"failed", "ensure"} \subseteq Steps \ Storing
  BY DEF Steps, Storing, BeforeRename
<1>4. CASE /\ Step(p, "failed")
           /\ UNCHANGED <<left, job, content, retrievals>>
  BY <1>1, <1>2, <1>3, <1>4, RunHalts DEF Step
<1>5. CASE /\ left' = [left EXCEPT ![p] = @ \ {m}]
           /\ UNCHANGED <<at, job, content, retrievals>>
  <2>1. at' = [at EXCEPT ![p] = "ensure"]
    BY <1>2, <1>5 DEF EnsureMonth
  <2>2. left[p] \ {m} \in SUBSET Selected[p]
    BY <1>1
  <2> QED BY <1>1, <1>3, <1>5, <2>1, <2>2, RunHalts
<1>6. CASE /\ Absent(Raw(m))
           /\ Absent(Canonical(m))
           /\ Writes(p, Raw(m), [bars |-> {retrievals'}, source |-> {}])
           /\ UNCHANGED left
  <2>1. /\ Raw(m) \in MonthSets(m) /\ Raw(m) # Canonical(m)
        /\ manifest[Raw(m)] = None /\ manifest[Canonical(m)] = None
    BY <1>6, DatasetNames DEF MonthSets, Absent
  <2> QED BY <1>1, <1>6, <2>1, RunWrites
<1> QED BY <1>4, <1>5, <1>6 DEF EnsureMonth

LEMMA CombinationIsTotal ==
  ASSUME EveryMonth PROVE Combination = Total
<1> DEFINE there == {Canonical(m) : m \in {n \in Months : ~Absent(Canonical(n))}}
<1>1. {n \in Months : ~Absent(Canonical(n))} = Months
  BY DEF EveryMonth, Absent
<1>2. there = {Canonical(m) : m \in Months}
  BY <1>1
<1>3. {data[d].what.bars : d \in there} =
      {data[Canonical(m)].what.bars : m \in Months}
  BY <1>2
<1>4. {manifest[d].what.sha256 : d \in there} =
      {manifest[Canonical(m)].what.sha256 : m \in Months}
  BY <1>2
<1> QED BY <1>3, <1>4 DEF Combination, Total

LEMMA CombinedTried ==
  ASSUME StoreInv, NEW p \in Downloaders, TryBuildCombined(p),
         KeepsFiles, study' = study
  PROVE  StoreInv'
<1>1. left = [left EXCEPT ![p] = left[p]] /\ left[p] \in SUBSET Selected[p]
  BY DEF StoreInv, StoreTypes, FileTypes, RunTypes
<1>2. left' = left /\ digest' = digest
  BY DEF TryBuildCombined
<1>3. {"failed", "done"} \subseteq Steps \ Storing
  BY DEF Steps, Storing, BeforeRename
<1>4. CASE /\ Step(p, "failed") \/ Step(p, "done")
           /\ UNCHANGED <<job, content>>
  BY <1>1, <1>2, <1>3, <1>4, RunHalts DEF Step
<1>5. CASE ~Pending /\ Writes(p, Combined, Combination)
  <2>1. EveryMonth
    BY <1>5 DEF Pending, EveryMonth, Absent
  <2> QED BY <1>2, <1>5, <2>1, CombinationIsTotal, RunWrites
<1> QED BY <1>4, <1>5 DEF TryBuildCombined

LEMMA DatasetStored ==
  ASSUME StoreInv, NEW p \in Downloaders, Stored(p), KeepsFiles, study' = study
  PROVE  StoreInv'
<1>1. /\ left = [left EXCEPT ![p] = left[p]] /\ left[p] \in SUBSET Selected[p]
      /\ digest' = digest /\ at[p] = "stored"
  BY DEF StoreInv, StoreTypes, FileTypes, RunTypes, Stored
<1>2. {"ensure", "done"} \subseteq Steps \ Storing
  BY DEF Steps, Storing, BeforeRename
<1>3. CASE job[p] = Combined
  <2>1. Step(p, "done") /\ UNCHANGED <<left, job, content>>
    BY <1>3, DatasetNames DEF Stored
  <2>2. /\ at' = [at EXCEPT ![p] = "done"]
        /\ left' = [left EXCEPT ![p] = left[p]]
        /\ job' = job /\ content' = content
    BY <1>1, <2>1 DEF Step
  <2>3. "done" \in Steps \ Storing
    BY <1>2
  <2> QED BY <1>1, <2>2, <2>3, RunHalts
<1>4. CASE job[p] # Combined
  <2>1. PICK m \in Selected[p] : job[p] \in MonthSets(m)
    BY <1>1, <1>4 DEF StoreInv, StoreTypes, FileTypes, RunTypes, Storing
  <2>2. m \in Months
    BY SelectionAssumption
  <2>3. MonthWrite(p, job[p])
    BY <1>1, <2>1 DEF StoreInv, MonthWriters, Storing
  <2>4. CASE job[p] = Raw(m)
    <3>1. /\ Writes(p, Canonical(m), [bars |-> content[p].bars,
                                      source |-> {digest[p]}])
          /\ left' = left
      BY <1>4, <2>2, <2>4, DatasetNames DEF Stored
    <3>2. /\ data[Raw(m)] = WholeFile(p, content[p])
          /\ manifest[Raw(m)] # None
          /\ manifest[Raw(m)] = WholeFile(p, [sha256 |-> content[p]])
          /\ digest[p] = content[p]
      BY <1>1, <2>3, <2>4 DEF MonthWrite
    <3>3. [bars |-> content[p].bars, source |-> {digest[p]}] = Derived(m)
      BY <3>2 DEF Derived, WholeFile
    <3>4. manifest[Canonical(m)] = None
      BY <1>1, <2>4 DEF StoreInv, MonthWriters, Storing
    <3>5. Canonical(m) \in MonthSets(m)
      BY DEF MonthSets
    <3> QED BY <1>1, <3>1, <3>2, <3>3, <3>4, <3>5, RunWrites
  <2>5. CASE job[p] = Canonical(m)
    <3>1. /\ left' = [left EXCEPT ![p] = @ \ {job[p][2]}]
          /\ Step(p, "ensure")
          /\ UNCHANGED <<job, content>>
      BY <1>4, <2>5, DatasetNames DEF Stored
    <3>2. left[p] \ {job[p][2]} \in SUBSET Selected[p]
      BY <1>1
    <3> QED BY <1>1, <1>2, <3>1, <3>2, RunHalts DEF Step
  <2> QED BY <2>1, <2>4, <2>5 DEF MonthSets
<1> QED BY <1>3, <1>4

LEMMA WritersUnmoved ==
  ASSUME KeepsFiles, MonthWriters, at' = at, job' = job, content' = content,
         digest' = digest
  PROVE  MonthWriters'
<1>1. \A q \in Downloaders :
        MonthWrite(q, job[q]) => MonthWrite(q, job[q])'
  <2> TAKE q \in Downloaders
  <2>1. /\ at'[q] = at[q] /\ job'[q] = job[q]
        /\ content'[q] = content[q] /\ digest'[q] = digest[q]
    OBVIOUS
  <2> QED BY <2>1 DEF MonthWrite, KeepsFiles
<1>2. \A m \in Months : Derived(m)' = Derived(m)
  BY DEF Derived, KeepsFiles
<1>3. \A q \in Downloaders : Selected[q] \subseteq Months
  BY SelectionAssumption
<1> QED BY <1>1, <1>2, <1>3 DEF MonthWriters, KeepsFiles

LEMMA StudyFields ==
  ASSUME NEW r, DOMAIN r = {"step", "expected", "frame", "lineage"},
         NEW a, NEW b
  PROVE  /\ DOMAIN [r EXCEPT !.step = a] = DOMAIN r
         /\ [r EXCEPT !.step = a].step = a
         /\ [r EXCEPT !.step = a].frame = r.frame
         /\ DOMAIN [r EXCEPT !.step = a, !.expected = b] = DOMAIN r
         /\ [r EXCEPT !.step = a, !.expected = b].step = a
         /\ DOMAIN [r EXCEPT !.step = a, !.frame = b] = DOMAIN r
         /\ [r EXCEPT !.step = a, !.frame = b].step = a
         /\ [r EXCEPT !.step = a, !.frame = b].frame = b
         /\ DOMAIN [r EXCEPT !.step = a, !.lineage = b] = DOMAIN r
         /\ [r EXCEPT !.step = a, !.lineage = b].step = a
         /\ [r EXCEPT !.step = a, !.lineage = b].frame = r.frame
OBVIOUS

LEMMA StudyMoves ==
  ASSUME StoreInv, NEW s \in Studies, StudyStep(s)
  PROVE  StoreInv'
<1>1. /\ KeepsFiles /\ at' = at /\ left' = left /\ job' = job
      /\ content' = content /\ digest' = digest
  BY DEF StudyStep, KeepsFiles
<1>2. MonthsSound'
  BY <1>1, FilesKept DEF StoreInv
<1>3. MonthWriters'
  BY <1>1, WritersUnmoved DEF StoreInv
<1>4. DOMAIN study[s] = {"step", "expected", "frame", "lineage"}
  BY DEF StoreInv, StoreTypes, StudyTypes
<1>5. /\ \A t \in Studies : t # s => study'[t] = study[t]
      /\ study'[s].step \in {"name", "evaluated"} =>
           EveryMonth /\ study'[s].frame = Total
      /\ study' = [t \in Studies |-> study'[t]]
      /\ DOMAIN study'[s] = {"step", "expected", "frame", "lineage"}
  <2> DEFINE Kept(next) ==
        DOMAIN next = {"step", "expected", "frame", "lineage"}
  <2> DEFINE Told(next) == next.step \in {"name", "evaluated"} =>
                             EveryMonth /\ next.frame = Total
  <2>1. Told(study[s])
    BY DEF StoreInv, CombinedSound
  <2>2. PICK next : Studied(s, next) /\ Kept(next) /\ Told(next)
    <3> DEFINE Next(next) == Studied(s, next) /\ Kept(next) /\ Told(next)
    <3>1. ASSUME NEW step, step \notin {"name", "evaluated"},
                 Studied(s, [study[s] EXCEPT !.step = step])
          PROVE  \E next : Next(next)
      <4> WITNESS [study[s] EXCEPT !.step = step]
      <4> QED BY <1>4, <3>1, StudyFields
    <3>2. CASE StudyReadsManifest(s)
      <4>1. CASE data[Combined] # None /\ Readable(manifest[Combined])
        <5> DEFINE found == manifest[Combined].what.sha256
        <5>1. Studied(s, [study[s] EXCEPT !.step = "hash", !.expected = found])
          BY <3>2, <4>1 DEF StudyReadsManifest
        <5> WITNESS [study[s] EXCEPT !.step = "hash", !.expected = found]
        <5> QED BY <1>4, <5>1, StudyFields
      <4>2. CASE ~(data[Combined] # None /\ Readable(manifest[Combined]))
        BY <3>1, <3>2, <4>2 DEF StudyReadsManifest
      <4> QED BY <4>1, <4>2
    <3>3. CASE StudyVerifies(s)
      <4> DEFINE step == IF study[s].expected = Hash(data[Combined])
                         THEN "load" ELSE "failed"
      <4>1. Studied(s, [study[s] EXCEPT !.step = step])
        BY <3>3 DEF StudyVerifies
      <4> QED BY <3>1, <4>1
    <3>4. CASE StudyLoads(s)
      <4>1. CASE Readable(data[Combined])
        <5> DEFINE frame == data[Combined].what
        <5>1. Studied(s, [study[s] EXCEPT !.step = "name", !.frame = frame])
          BY <3>4, <4>1 DEF StudyLoads
        <5>2. EveryMonth /\ frame = Total
          BY <4>1 DEF StoreInv, CombinedSound, IsTotal, Readable
        <5> WITNESS [study[s] EXCEPT !.step = "name", !.frame = frame]
        <5> QED BY <1>4, <5>1, <5>2, StudyFields
      <4>2. CASE ~Readable(data[Combined])
        BY <3>1, <3>4, <4>2 DEF StudyLoads
      <4> QED BY <4>1, <4>2
    <3>5. CASE StudyNames(s)
      <4>1. CASE Readable(manifest[Combined])
        <5> DEFINE found == manifest[Combined].what.sha256
        <5>1. Studied(s, [study[s] EXCEPT !.step = "evaluated",
                                          !.lineage = found])
          BY <3>5, <4>1 DEF StudyNames
        <5>2. study[s].step = "name"
          BY <3>5 DEF StudyNames
        <5> WITNESS [study[s] EXCEPT !.step = "evaluated", !.lineage = found]
        <5> QED BY <1>4, <2>1, <5>1, <5>2, StudyFields
      <4>2. CASE ~Readable(manifest[Combined])
        BY <3>1, <3>5, <4>2 DEF StudyNames
      <4> QED BY <4>1, <4>2
    <3> QED BY <3>2, <3>3, <3>4, <3>5 DEF StudyStep
  <2>3. study' = [study EXCEPT ![s] = next]
    BY <2>2 DEF Studied
  <2>4. study'[s] = next /\ \A t \in Studies : t # s => study'[t] = study[t]
    BY <2>3 DEF StoreInv, StoreTypes, StudyTypes
  <2> QED BY <2>2, <2>3, <2>4 DEF StoreInv, StoreTypes, StudyTypes
<1>6. StoreTypes'
  BY <1>1, <1>5 DEF StoreInv, StoreTypes, FileTypes, RunTypes, StudyTypes,
     KeepsFiles
<1>7. CombinedSound'
  <2>1. Total' = Total /\ (EveryMonth' <=> EveryMonth)
    BY <1>1 DEF Total, EveryMonth, KeepsFiles
  <2>2. IsTotal(data[Combined])' /\ IsTotal(newData[Combined])'
    BY <1>1, <2>1 DEF StoreInv, CombinedSound, IsTotal, KeepsFiles
  <2>3. \A q \in Downloaders : at'[q] \in Storing /\ job'[q] = Combined =>
          EveryMonth' /\ content'[q] = Total'
    BY <1>1, <2>1 DEF StoreInv, CombinedSound
  <2>4. \A t \in Studies : study'[t].step \in {"name", "evaluated"} =>
          EveryMonth' /\ study'[t].frame = Total'
    BY <1>5, <2>1 DEF StoreInv, CombinedSound
  <2> QED BY <2>2, <2>3, <2>4 DEF CombinedSound
<1> QED BY <1>2, <1>3, <1>6, <1>7 DEF StoreInv

LEMMA StoreInitial ==
  ASSUME StoreInit PROVE StoreInv
<1>1. StoreTypes
  <2>1. at \in [Downloaders -> Steps]
    BY DEF StoreInit, Steps
  <2>2. left = Selected
    BY DEF StoreInit
  <2>3. left \in [Downloaders -> SUBSET Months]
    BY <2>2, SelectionAssumption
  <2>4. \A p \in Downloaders : at[p] \notin Storing
    BY DEF StoreInit, Storing, BeforeRename
  <2>5. /\ study = [s \in Studies |-> study[s]]
        /\ \A s \in Studies :
             DOMAIN study[s] = {"step", "expected", "frame", "lineage"}
    BY DEF StoreInit
  <2> QED BY <2>1, <2>2, <2>3, <2>4, <2>5 DEF StoreInit, StoreTypes, FileTypes, RunTypes,
     StudyTypes
<1>2. \A p \in Downloaders : at[p] \notin Storing
  BY DEF StoreInit, Storing, BeforeRename
<1>3. \A m \in Months : \A d \in MonthSets(m) : manifest[d] = None
  BY DatasetNames DEF StoreInit, MonthSets
<1>4. MonthsSound
  BY <1>3, DatasetNames DEF MonthsSound, MonthSets
<1>5. CombinedSound
  BY <1>2, DatasetNames DEF StoreInit, CombinedSound, IsTotal
<1> QED BY <1>1, <1>2, <1>4, <1>5 DEF StoreInv, MonthWriters

LEMMA StoreInductive ==
  ASSUME StoreInv, OneRunPerMonth, [StoreNext]_storeVars PROVE StoreInv'
<1>1. ASSUME NEW p \in Downloaders, StoreWrite(p), study' = study
      PROVE  StoreInv'
  BY <1>1, WriteTypes, WriteMonthWriters, WriteMonthsSound, WriteCombinedSound
  DEF StoreInv
<1>2. ASSUME NEW p \in Downloaders, DownloadRun(p), study' = study
      PROVE  StoreInv'
  <2> KeepsFiles
    BY <1>2 DEF DownloadRun, KeepsFiles
  <2> QED
    BY <1>2, MonthEnsured, CombinedTried, DatasetStored DEF DownloadRun
<1>3. ASSUME NEW p \in Downloaders, DownloaderKilled(p) \/ Rerun(p)
      PROVE  StoreInv'
  <2>1. /\ KeepsFiles /\ study' = study /\ digest' = digest
        /\ job' = job /\ content' = content
    BY <1>3 DEF DownloaderKilled, Rerun, KeepsFiles
  <2>2. {"killed", "ensure"} \subseteq Steps \ Storing
    BY DEF Steps, Storing, BeforeRename
  <2>3. left = [left EXCEPT ![p] = left[p]] /\ left[p] \in SUBSET Selected[p]
    BY DEF StoreInv, StoreTypes, RunTypes
  <2>4. CASE DownloaderKilled(p)
    BY <2>1, <2>2, <2>3, <2>4, RunHalts DEF DownloaderKilled, Step
  <2>5. CASE Rerun(p)
    BY <2>1, <2>2, <2>5, RunHalts DEF Rerun, Step
  <2> QED BY <1>3, <2>4, <2>5
<1>4. ASSUME UNCHANGED storeVars PROVE StoreInv'
  <2>1. /\ KeepsFiles /\ at' = at /\ left' = left /\ job' = job
        /\ content' = content /\ digest' = digest /\ study' = study
    BY <1>4 DEF storeVars, KeepsFiles
  <2>2. MonthsSound' /\ MonthWriters'
    BY <2>1, FilesKept, WritersUnmoved DEF StoreInv
  <2>3. StoreTypes'
    BY <2>1 DEF StoreInv, StoreTypes, FileTypes, RunTypes,
       StudyTypes, KeepsFiles
  <2>4. CombinedSound'
    BY <2>1 DEF StoreInv, CombinedSound, IsTotal, EveryMonth, Total, KeepsFiles
  <2> QED BY <2>2, <2>3, <2>4 DEF StoreInv
<1> QED BY <1>1, <1>2, <1>3, <1>4, StudyMoves DEF StoreNext

(* As long as no two runs write the same month at the same time, whatever  *)
(* a study has evaluated when its checks have passed is the bars of every  *)
(* month, each from one retrieval, for any number of download runs of any  *)
(* months, studies, retrievals, kills and reruns: no run writes a dataset  *)
(* that has a manifest, so the months stand once they can be combined, and *)
(* all combinations of them are the same.                                  *)
THEOREM StudiedInFull ==
  StoreSpec /\ []OneRunPerMonth => []StudyEvaluatesTheMonths
<1>1. StoreInv => StudyEvaluatesTheMonths
  <2> SUFFICES ASSUME StoreInv, NEW s \in Studies, study[s].step = "evaluated"
               PROVE  /\ \A m \in Months : OneRetrieval(m)
                      /\ study[s].frame.bars =
                           UNION {data[Canonical(m)].what.bars : m \in Months}
                      /\ study[s].frame.source =
                           {manifest[Canonical(m)].what.sha256 : m \in Months}
    BY DEF StudyEvaluatesTheMonths
  <2>1. EveryMonth /\ study[s].frame = Total
    BY DEF StoreInv, CombinedSound
  <2>2. ASSUME NEW m \in Months PROVE OneRetrieval(m)
    <3>1. manifest[Canonical(m)] # None
      BY <2>1 DEF EveryMonth
    <3>2. manifest[Raw(m)] # None /\ data[Canonical(m)].what = Derived(m)
      BY <3>1 DEF StoreInv, MonthsSound
    <3>3. Verified(Raw(m)) /\ Verified(Canonical(m))
      BY <3>1, <3>2 DEF StoreInv, MonthsSound, MonthSets
    <3> QED BY <3>2, <3>3 DEF OneRetrieval, Derived
  <2> QED BY <2>1, <2>2 DEF Total
<1> QED BY <1>1, StoreInitial, StoreInductive, PTL DEF StoreSpec

-----------------------------------------------------------------------------

\* A run that has passed the check has found no data, and while it is the one
\* writer of its dataset none appears before its own rename.
NoneBefore(d) ==
  \A p \in Downloaders :
    at[p] \in BeforeRename /\ job[p] = d => data[d] = None

LEMMA NoneBeforeWrite ==
  ASSUME NEW d \in Datasets, FileTypes, NoneBefore(d), OneWriter(d),
         NEW p \in Downloaders, StoreWrite(p)
  PROVE  /\ NoneBefore(d)'
         /\ data[d] # None => data'[d] = data[d]
<1>1. /\ job' = job
      /\ \E s \in Steps : at' = [at EXCEPT ![p] = s]
  BY DEF StoreWrite, Check, OpenData, CloseData, TakeHash, OpenManifest,
         CloseManifest, ReplaceData, ReplaceManifest, Step, Steps
<1>2. \A q \in Downloaders : q # p => at'[q] = at[q]
  BY <1>1 DEF FileTypes
<1>3. CASE job[p] # d
  <2>1. data'[d] = data[d]
    BY <1>3 DEF FileTypes, StoreWrite, Check, OpenData, CloseData, TakeHash,
       OpenManifest, CloseManifest, ReplaceData, ReplaceManifest
  <2> QED BY <1>1, <1>2, <1>3, <2>1 DEF NoneBefore
<1>4. CASE job[p] = d
  <2>1. at[p] \notin Stopped \cup {"ensure"}
    BY DEF StoreWrite, Check, OpenData, CloseData, TakeHash, OpenManifest,
       CloseManifest, ReplaceData, ReplaceManifest, Stopped
  <2>2. \A q \in Downloaders : at[q] \in BeforeRename /\ job[q] = d => q = p
    <3> SUFFICES ASSUME NEW q \in Downloaders, at[q] \in BeforeRename, job[q] = d
                 PROVE  q = p
      OBVIOUS
    <3>1. IsWriting(p, d)
      BY <1>4, <2>1 DEF IsWriting
    <3>2. IsWriting(q, d)
      BY DEF IsWriting, BeforeRename, Stopped
    <3> QED BY <3>1, <3>2 DEF OneWriter
  <2>3. at[p] \in BeforeRename => data[d] = None
    BY <1>4 DEF NoneBefore
  <2>4. ASSUME at'[p] \in BeforeRename PROVE data'[d] = None
    <3>1. CASE Check(p)
      BY <1>4, <2>4, <3>1 DEF Check, Exists, Step, FileTypes, BeforeRename
    <3>2. CASE CloseData(p)
      BY <1>4, <2>3, <3>2, FilesClosed DEF CloseData, FileTypes, BeforeRename
    <3>3. CASE ReplaceData(p)
      BY <1>4, <2>3, <2>4, <3>3 DEF ReplaceData, Step, FileTypes, BeforeRename
    <3>4. CASE OpenData(p) \/ TakeHash(p) \/ OpenManifest(p) \/ CloseManifest(p)
      BY <1>4, <2>3, <3>4
      DEF OpenData, TakeHash, OpenManifest, CloseManifest, BeforeRename
    <3>5. CASE ReplaceManifest(p)
      BY <2>4, <3>5 DEF ReplaceManifest, Step, FileTypes, BeforeRename
    <3> QED BY <3>1, <3>2, <3>3, <3>4, <3>5 DEF StoreWrite
  <2>5. NoneBefore(d)'
    BY <1>1, <1>2, <2>2, <2>4 DEF NoneBefore
  <2>6. data[d] # None => data'[d] = data[d]
    BY <2>3 DEF StoreWrite, Check, OpenData, CloseData, TakeHash, OpenManifest,
       CloseManifest, ReplaceData, ReplaceManifest, BeforeRename
  <2> QED BY <2>5, <2>6
<1> QED BY <1>3, <1>4

Shapes == FileTypes /\ job = [p \in Downloaders |-> job[p]]

LEMMA RunMovesOne ==
  ASSUME Shapes, NEW p \in Downloaders,
         DownloadRun(p) \/ DownloaderKilled(p) \/ Rerun(p)
  PROVE  /\ Shapes'
         /\ data' = data /\ at'[p] \notin BeforeRename
         /\ \A q \in Downloaders : q # p => at'[q] = at[q] /\ job'[q] = job[q]
<1>1. \E s \in Steps \ BeforeRename :
        at' = [at EXCEPT ![p] = s] \/ (at' = at /\ at[p] = s)
  BY DEF DownloadRun, DownloaderKilled, Rerun, EnsureMonth, TryBuildCombined,
     Stored, Writes, Step, Steps, BeforeRename
<1>2. \E j : job' = [job EXCEPT ![p] = j] \/ job' = job
  BY DEF DownloadRun, DownloaderKilled, Rerun, EnsureMonth, TryBuildCombined,
     Stored, Writes
<1>3. /\ data' = data /\ manifest' = manifest /\ newData' = newData
      /\ newManifest' = newManifest /\ digest' = digest
  BY DEF DownloadRun, DownloaderKilled, Rerun, EnsureMonth, TryBuildCombined,
     Stored
<1>4. Shapes'
  BY <1>1, <1>2, <1>3 DEF Shapes, FileTypes
<1>5. at'[p] \notin BeforeRename
  BY <1>1 DEF Shapes, FileTypes
<1>6. \A q \in Downloaders : q # p => at'[q] = at[q] /\ job'[q] = job[q]
  BY <1>1, <1>2 DEF Shapes, FileTypes
<1> QED BY <1>3, <1>4, <1>5, <1>6

LEMMA WriteShapes ==
  ASSUME Shapes, NEW p \in Downloaders, StoreWrite(p) PROVE Shapes'
<1>1. \E s \in Steps : at' = [at EXCEPT ![p] = s]
  BY DEF StoreWrite, Check, OpenData, CloseData, TakeHash, OpenManifest,
         CloseManifest, ReplaceData, ReplaceManifest, Step, Steps
<1>2. at' \in [Downloaders -> Steps]
  BY <1>1 DEF Shapes, FileTypes
<1>3. job' = job
  BY DEF StoreWrite
<1>4. /\ data' = [d \in Datasets |-> data'[d]]
      /\ manifest' = [d \in Datasets |-> manifest'[d]]
      /\ newData' = [d \in Datasets |-> newData'[d]]
      /\ newManifest' = [d \in Datasets |-> newManifest'[d]]
      /\ digest' = [q \in Downloaders |-> digest'[q]]
  <2> FileTypes
    BY DEF Shapes
  <2>1. CASE Check(p)
    BY <2>1 DEF FileTypes, Check
  <2>2. CASE OpenData(p)
    BY <2>2 DEF FileTypes, OpenData
  <2>3. CASE CloseData(p)
    BY <2>3 DEF FileTypes, CloseData
  <2>4. CASE TakeHash(p)
    BY <2>4 DEF FileTypes, TakeHash
  <2>5. CASE OpenManifest(p)
    BY <2>5 DEF FileTypes, OpenManifest
  <2>6. CASE CloseManifest(p)
    BY <2>6 DEF FileTypes, CloseManifest
  <2>7. CASE ReplaceData(p)
    BY <2>7 DEF FileTypes, ReplaceData
  <2>8. CASE ReplaceManifest(p)
    BY <2>8 DEF FileTypes, ReplaceManifest
  <2> QED BY <2>1, <2>2, <2>3, <2>4, <2>5, <2>6, <2>7, <2>8 DEF StoreWrite
<1> QED BY <1>2, <1>3, <1>4 DEF Shapes, FileTypes

LEMMA NoneBeforeStep ==
  ASSUME NEW d \in Datasets, Shapes, NoneBefore(d), OneWriter(d),
         [StoreNext]_storeVars
  PROVE  /\ Shapes' /\ NoneBefore(d)'
         /\ data[d] # None => data'[d] = data[d]
<1>1. ASSUME NEW p \in Downloaders, StoreWrite(p)
      PROVE  /\ Shapes' /\ NoneBefore(d)'
             /\ data[d] # None => data'[d] = data[d]
  BY <1>1, WriteShapes, NoneBeforeWrite DEF Shapes
<1>2. ASSUME NEW p \in Downloaders,
             DownloadRun(p) \/ DownloaderKilled(p) \/ Rerun(p)
      PROVE  /\ Shapes' /\ NoneBefore(d)'
             /\ data[d] # None => data'[d] = data[d]
  BY <1>2, RunMovesOne DEF NoneBefore
<1>3. CASE UNCHANGED <<data, manifest, newData, newManifest, at, job, digest>>
  BY <1>3 DEF Shapes, FileTypes, NoneBefore
<1>4. CASE UNCHANGED storeVars \/ \E s \in Studies : StudyStep(s)
  BY <1>3, <1>4 DEF storeVars, StudyStep
<1> QED BY <1>1, <1>2, <1>4 DEF StoreNext

LEMMA NoneBeforeInit ==
  StoreInit => Shapes /\ \A d \in Datasets : NoneBefore(d)
<1> SUFFICES ASSUME StoreInit
             PROVE  Shapes /\ \A d \in Datasets : NoneBefore(d)
  OBVIOUS
<1>1. at \in [Downloaders -> Steps] /\ \A p \in Downloaders : at[p] \notin BeforeRename
  BY DEF StoreInit, Steps, BeforeRename
<1> QED BY <1>1 DEF StoreInit, Shapes, FileTypes, NoneBefore

(* A dataset is stored once if it never has two writers at a time: from    *)
(* then on its data file is what its first rename left, through any kills  *)
(* and reruns, and whatever happens to the other datasets.                 *)
THEOREM OneWriterStoresOnce ==
  ASSUME NEW d \in Datasets
  PROVE  StoreSpec /\ []OneWriter(d) =>
           [][data[d] # None => data'[d] = data[d]]_storeVars
<1>1. StoreInit => Shapes /\ NoneBefore(d)
  BY NoneBeforeInit
<1>2. Shapes /\ NoneBefore(d) /\ OneWriter(d) /\ [StoreNext]_storeVars =>
        /\ Shapes' /\ NoneBefore(d)'
        /\ [data[d] # None => data'[d] = data[d]]_storeVars
  BY NoneBeforeStep
<1> QED BY <1>1, <1>2, PTL DEF StoreSpec

(* The docstring's promise needs what the code does not have: it holds if  *)
(* something keeps every dataset from being written by two runs at a time. *)
THEOREM SerialWritersStoreOnce ==
  StoreSpec /\ [](\A d \in Datasets : OneWriter(d)) => StoredOnce
<1> DEFINE Serial == \A d \in Datasets : OneWriter(d)
<1> DEFINE Before == \A d \in Datasets : NoneBefore(d)
<1> DEFINE Once == \A d \in Datasets :
             Readable(data[d]) => /\ Readable(data'[d])
                                  /\ data'[d].what = data[d].what
<1>1. StoreInit => Shapes /\ Before
  BY NoneBeforeInit
<1>2. Shapes /\ Before /\ Serial /\ [StoreNext]_storeVars =>
        Shapes' /\ Before' /\ [Once]_storeVars
  <2> SUFFICES ASSUME Shapes, Before, Serial, [StoreNext]_storeVars
               PROVE  Shapes' /\ Before' /\ Once
    OBVIOUS
  <2>1. ASSUME NEW d \in Datasets
        PROVE  NoneBefore(d)' /\ (data[d] # None => data'[d] = data[d])
    BY <2>1, NoneBeforeStep
  <2>2. Shapes'
    BY NoneBeforeStep, DatasetNames
  <2> QED BY <2>1, <2>2 DEF Readable
<1> QED BY <1>1, <1>2, PTL DEF StoreSpec, StoredOnce

-----------------------------------------------------------------------------
(* The experiments that rest on saved bundles *)

FileNames == {"tables", "manifest"}

Versions == Nat \cup {NoBundle}

ChainTypes ==
  /\ present \in [Bundles -> Versions]
  /\ versions \in [Bundles -> Nat]
  /\ position \in [Experiments -> Nat]
  /\ outcome \in [Experiments -> {"idle", "running", "returned", "failed"}]
  /\ declared \in [Experiments -> [Bundles -> Versions]]
  /\ tables \in [Experiments -> [Bundles -> Versions]]
  /\ snapshot \in [Experiments -> [Bundles -> [FileNames -> Versions]]]
  /\ compared \in [Experiments -> [Bundles -> Nat]]

\* What is under a name is the newest version, and no version is taken back.
Newest ==
  /\ \A b \in Bundles : present[b] \in {NoBundle, versions[b]}
  /\ \A run \in Experiments : versions[run] \in {0, 1}

PublishAt(run) ==
  CHOOSE i \in DOMAIN Script(run) : Script(run)[i].do = "publish"

\* An experiment stands at a step of its script until it has taken the last.
OnScript ==
  \A run \in Experiments :
    IF outcome[run] = "returned"
    THEN position[run] = Len(Script(run)) + 1
    ELSE position[run] \in 1 .. Len(Script(run))

\* The newest version an experiment can have seen: the one it publishes with.
Limit(run, b) ==
  IF position[run] <= PublishAt(run) THEN versions[b] ELSE compared[run][b]

SeenInTime(run) ==
  \A b \in Bundles :
    /\ compared[run][b] <= versions[b]
    /\ \A f \in FileNames : snapshot[run][b][f] # NoBundle =>
         snapshot[run][b][f] <= Limit(run, b)

\* A file that is verified after the publication has not changed since.
VerifiedAfter(run) ==
  \A i \in 1..Len(Script(run)) :
    LET step == Script(run)[i]
    IN PublishAt(run) < i /\ i < position[run] /\ step.do = "verify" =>
         /\ snapshot[run][step.bundle][step.file] # NoBundle
         /\ snapshot[run][step.bundle][step.file] = compared[run][step.bundle]

HashesTables(step) == step.do = "record and check" /\ step.file = "tables"

\* Hashed first: what is recorded is what the manifest declared, and what is
\* loaded is no older.
RecordedAsDeclared(run) ==
  \A i \in 1..Len(Script(run)) :
    LET step == Script(run)[i]
    IN i < position[run] /\ HashesTables(step) =>
         declared[run][step.bundle] = snapshot[run][step.bundle].tables

LoadedAfter(run) ==
  \A b \in Bundles : tables[run][b] # NoBundle =>
    /\ tables[run][b] <= Limit(run, b)
    /\ snapshot[run][b].tables # NoBundle =>
         snapshot[run][b].tables <= tables[run][b]
    /\ \E i \in 1..Len(Script(run)) :
         i < position[run] /\ Script(run)[i].do = "load"

Reads(run) ==
  /\ SeenInTime(run) /\ VerifiedAfter(run)
  /\ run \in HashesFirst => RecordedAsDeclared(run) /\ LoadedAfter(run)

ChainInv ==
  ChainTypes /\ Newest /\ OnScript /\ \A run \in Experiments : Reads(run)

Less == {r \in Nat \X Nat : r[1] < r[2]}

LEMMA LeastExists ==
  ASSUME NEW S, S \subseteq Nat, S # {}
  PROVE  \E x \in S : \A y \in S : x <= y
<1>1. IsWellFoundedOn(Less, Nat)
  BY NatLessThanWellFounded, Zenon DEF OpToRel, Less
<1>2. PICK x \in S : \A y \in S : ~(<<y, x>> \in Less)
  BY <1>1, WFMin
<1>3. ASSUME NEW y \in S PROVE x <= y
  <2>1. x \in Nat /\ y \in Nat
    OBVIOUS
  <2>2. y < x => <<y, x>> \in Less
    BY <2>1 DEF Less
  <2> QED BY <1>2, <2>1, <2>2
<1> QED BY <1>3

\* The library's FlattenSeq, by its recursive function.
FlattenStep(seqs, n, g) ==
  [i \in 1..n |-> IF i = 1 THEN seqs[i] ELSE g[i - 1] \o seqs[i]]

LEMMA FlattenUnfolds ==
  ASSUME NEW seqs, Len(seqs) # 0
  PROVE  FlattenSeq(seqs) =
           (CHOOSE g : g = FlattenStep(seqs, Len(seqs), g))[Len(seqs)]
BY DEF FlattenSeq, FlattenStep

LEMMA FlattenExists ==
  ASSUME NEW seqs, NEW n \in Nat
  PROVE  \E g : g = FlattenStep(seqs, n, g)
<1> DEFINE Bad == {m \in Nat : ~\E g : g = FlattenStep(seqs, m, g)}
<1>1. ASSUME Bad # {} PROVE FALSE
  <2>1. Bad \subseteq Nat
    OBVIOUS
  <2>2. PICK m \in Bad : \A k \in Bad : m <= k
    <3> HIDE DEF Bad
    <3> QED BY <1>1, <2>1, LeastExists
  <2>3. CASE m = 0
    <3> DEFINE h == [i \in 1..0 |-> 0]
    <3>1. h = FlattenStep(seqs, 0, h)
      BY DEF FlattenStep
    <3> QED BY <2>2, <2>3, <3>1
  <2>4. CASE m # 0
    <3>1. m - 1 \in Nat /\ m - 1 \notin Bad
      BY <2>2, <2>4
    <3>2. PICK g : g = FlattenStep(seqs, m - 1, g)
      BY <3>1
    <3>3. \A i \in 1..(m - 1) :
            g[i] = IF i = 1 THEN seqs[i] ELSE g[i - 1] \o seqs[i]
      BY <3>2 DEF FlattenStep
    <3> DEFINE h == [i \in 1..m |-> IF i = m
                       THEN IF i = 1 THEN seqs[i] ELSE g[i - 1] \o seqs[i]
                       ELSE g[i]]
    <3>4. ASSUME NEW i \in 1..m
          PROVE  h[i] = IF i = 1 THEN seqs[i] ELSE h[i - 1] \o seqs[i]
      <4>1. CASE i = m
        <5>1. i # 1 => i - 1 \in 1..m /\ i - 1 # m
          BY <2>2, <4>1
        <5> QED BY <4>1, <5>1
      <4>2. CASE i # m
        <5>1. i \in 1..(m - 1) /\ (i # 1 => i - 1 \in 1..m /\ i - 1 # m)
          BY <2>2, <4>2
        <5> QED BY <3>3, <4>2, <5>1
      <4> QED BY <4>1, <4>2
    <3>5. h = FlattenStep(seqs, m, h)
      BY <3>4 DEF FlattenStep
    <3> QED BY <2>2, <3>5
  <2> QED BY <2>3, <2>4
<1>2. n \notin Bad
  BY <1>1
<1> QED BY <1>2

\* s is what the first k of the sequences hold.
Holds(X, s, seqs, k) ==
  /\ s \in Seq(X)
  /\ \A i \in 1..Len(s) :
       \E n \in 1..k : \E j \in 1..Len(seqs[n]) : s[i] = seqs[n][j]
  /\ \A n \in 1..k : \A j \in 1..Len(seqs[n]) :
       \E i \in 1..Len(s) : s[i] = seqs[n][j]

LEMMA Concatenated ==
  ASSUME NEW X, NEW s \in Seq(X), NEW t \in Seq(X)
  PROVE  /\ s \o t \in Seq(X)
         /\ Len(s \o t) = Len(s) + Len(t) /\ Len(s) \in Nat /\ Len(t) \in Nat
         /\ \A i \in 1..Len(s) :
              i \in 1..Len(s \o t) /\ (s \o t)[i] = s[i]
         /\ \A i \in 1..Len(t) :
              Len(s) + i \in 1..Len(s \o t) /\ (s \o t)[Len(s) + i] = t[i]
         /\ \A i \in 1..Len(s \o t) : i > Len(s) =>
              i - Len(s) \in 1..Len(t) /\ (s \o t)[i] = t[i - Len(s)]
OBVIOUS

LEMMA HoldsMore ==
  ASSUME NEW X, NEW s, NEW seqs \in Seq(Seq(X)), NEW k \in Nat,
         k + 1 \in 1..Len(seqs), Holds(X, s, seqs, k)
  PROVE  Holds(X, s \o seqs[k + 1], seqs, k + 1)
<1>1. PICK t : t = seqs[k + 1]
  OBVIOUS
<1>2. s \in Seq(X) /\ t \in Seq(X)
  BY <1>1 DEF Holds
<1>3. PICK u : u = s \o t
  OBVIOUS
<1>4. /\ u \in Seq(X)
      /\ Len(u) = Len(s) + Len(t) /\ Len(s) \in Nat /\ Len(t) \in Nat
      /\ \A i \in 1..Len(s) : i \in 1..Len(u) /\ u[i] = s[i]
      /\ \A i \in 1..Len(t) : Len(s) + i \in 1..Len(u) /\ u[Len(s) + i] = t[i]
      /\ \A i \in 1..Len(u) : i > Len(s) =>
           i - Len(s) \in 1..Len(t) /\ u[i] = t[i - Len(s)]
  BY <1>2, <1>3, Concatenated
<1>5. ASSUME NEW i \in 1..Len(u)
      PROVE  \E n \in 1..(k + 1) : \E j \in 1..Len(seqs[n]) : u[i] = seqs[n][j]
  <2>1. CASE i \in 1..Len(s)
    <3>1. PICK n \in 1..k : \E j \in 1..Len(seqs[n]) : s[i] = seqs[n][j]
      BY <2>1 DEF Holds
    <3> QED BY <1>4, <2>1, <3>1
  <2>2. CASE i \notin 1..Len(s)
    <3>1. i > Len(s)
      BY <1>4, <2>2
    <3>2. i - Len(s) \in 1..Len(seqs[k + 1]) /\ u[i] = seqs[k + 1][i - Len(s)]
      BY <1>1, <1>4, <3>1
    <3>3. k + 1 \in 1..(k + 1)
      OBVIOUS
    <3> QED BY <3>2, <3>3
  <2> QED BY <2>1, <2>2
<1>6. ASSUME NEW n \in 1..(k + 1), NEW j \in 1..Len(seqs[n])
      PROVE  \E i \in 1..Len(u) : u[i] = seqs[n][j]
  <2>1. CASE n = k + 1
    BY <1>1, <1>4, <2>1
  <2>2. CASE n # k + 1
    <3>1. n \in 1..k
      BY <2>2
    <3>2. PICK i \in 1..Len(s) : s[i] = seqs[n][j]
      BY <3>1 DEF Holds
    <3> QED BY <1>4, <3>2
  <2> QED BY <2>1, <2>2
<1> QED BY <1>1, <1>3, <1>4, <1>5, <1>6 DEF Holds

LEMMA FlattenHolds ==
  ASSUME NEW X, NEW seqs \in Seq(Seq(X))
  PROVE  Holds(X, FlattenSeq(seqs), seqs, Len(seqs))
<1>1. CASE Len(seqs) = 0
  <2>1. FlattenSeq(seqs) = <<>>
    BY <1>1 DEF FlattenSeq
  <2> QED BY <1>1, <2>1 DEF Holds
<1>2. CASE Len(seqs) # 0
  <2> DEFINE n == Len(seqs)
  <2>1. PICK g : g = (CHOOSE f : f = FlattenStep(seqs, n, f))
    OBVIOUS
  <2>2. g = FlattenStep(seqs, n, g)
    BY <2>1, FlattenExists
  <2>3. \A i \in 1..n : g[i] = IF i = 1 THEN seqs[i] ELSE g[i - 1] \o seqs[i]
    BY <2>2 DEF FlattenStep
  <2> DEFINE Bad == {k \in 1..n : ~Holds(X, g[k], seqs, k)}
  <2>4. ASSUME Bad # {} PROVE FALSE
    <3>1. Bad \subseteq Nat
      OBVIOUS
    <3>2. PICK k \in Bad : \A l \in Bad : k <= l
      <4> HIDE DEF Bad
      <4> QED BY <2>4, <3>1, LeastExists
    <3>3. CASE k = 1
      <4>1. g[k] = seqs[k] /\ seqs[k] \in Seq(X)
        BY <2>3, <3>2, <3>3
      <4>2. Holds(X, seqs[k], seqs, k)
        BY <3>3, <4>1 DEF Holds
      <4> QED BY <3>2, <4>1, <4>2
    <3>4. CASE k # 1
      <4>1. PICK l \in Nat : l = k - 1
        BY <3>2
      <4>2. l \in 1..n /\ l + 1 = k /\ l \notin Bad
        BY <3>2, <3>4, <4>1
      <4>3. Holds(X, g[l], seqs, l)
        BY <4>2
      <4>4. Holds(X, g[l] \o seqs[l + 1], seqs, l + 1)
        BY <4>2, <4>3, HoldsMore
      <4>5. g[k] = g[l] \o seqs[l + 1]
        BY <2>3, <3>2, <3>4, <4>1, <4>2
      <4> QED BY <3>2, <4>2, <4>4, <4>5
    <3> QED BY <3>3, <3>4
  <2>5. Holds(X, g[n], seqs, n)
    BY <1>2, <2>4
  <2> QED BY <1>2, <2>1, <2>5, FlattenUnfolds
<1> QED BY <1>1, <1>2

-----------------------------------------------------------------------------

Deeds == {"declare", "check", "load", "record", "record and check", "verify",
          "hash again", "publish"}

Entry(what, b, f) == [do |-> what, bundle |-> b, file |-> f]

Entries == [do : Deeds, bundle : Bundles, file : FileNames]

Only(s, deeds) == \A i \in 1..Len(s) : s[i].do \in deeds

Has(s, e) == \E i \in 1..Len(s) : s[i] = e

Before(s, first, second) ==
  \A i \in 1..Len(s) : \A j \in 1..Len(s) :
    s[i].do = first /\ s[j].do = second => i < j

LEMMA OnEntries ==
  ASSUME NEW bundles \in Seq(Bundles), NEW what \in Deeds,
         NEW files \in Seq(FileNames)
  PROVE  /\ On(bundles, what, files) \in Seq(Entries)
         /\ Only(On(bundles, what, files), {what})
         /\ \A n \in 1..Len(bundles) : \A f \in 1..Len(files) :
              Has(On(bundles, what, files), Entry(what, bundles[n], files[f]))
<1>1. PICK seqs : seqs = [n \in 1..Len(bundles) |->
                            [f \in 1..Len(files) |->
                               Entry(what, bundles[n], files[f])]]
  OBVIOUS
<1>2. On(bundles, what, files) = FlattenSeq(seqs)
  BY <1>1 DEF On, Entry
<1>3. /\ Len(bundles) \in Nat /\ Len(files) \in Nat
      /\ \A n \in 1..Len(bundles) : bundles[n] \in Bundles
      /\ \A f \in 1..Len(files) : files[f] \in FileNames
  OBVIOUS
<1>4. \A n \in 1..Len(bundles) : \A f \in 1..Len(files) :
        /\ Entry(what, bundles[n], files[f]) \in Entries
        /\ Entry(what, bundles[n], files[f]).do = what
  BY <1>3 DEF Entry, Entries
<1>5. \A n \in 1..Len(bundles) :
        /\ seqs[n] \in Seq(Entries) /\ Len(seqs[n]) = Len(files)
        /\ \A f \in 1..Len(files) :
             seqs[n][f] = Entry(what, bundles[n], files[f])
  <2> SUFFICES ASSUME NEW n \in 1..Len(bundles)
               PROVE  /\ seqs[n] \in Seq(Entries) /\ Len(seqs[n]) = Len(files)
                      /\ \A f \in 1..Len(files) :
                           seqs[n][f] = Entry(what, bundles[n], files[f])
    OBVIOUS
  <2>1. seqs[n] = [f \in 1..Len(files) |-> Entry(what, bundles[n], files[f])]
    BY <1>1
  <2> QED BY <1>3, <1>4, <2>1
<1>6. seqs \in Seq(Seq(Entries)) /\ Len(seqs) = Len(bundles)
  <2>1. PICK n \in Nat : n = Len(bundles)
    BY <1>3
  <2>2. DOMAIN seqs = 1..n /\ seqs = [i \in 1..n |-> seqs[i]]
    BY <1>1, <2>1
  <2>3. \A i \in 1..n : seqs[i] \in Seq(Entries)
    BY <1>5, <2>1
  <2> QED BY <2>1, <2>2, <2>3
<1>7. Holds(Entries, On(bundles, what, files), seqs, Len(bundles))
  BY <1>2, <1>6, FlattenHolds
<1>8. Only(On(bundles, what, files), {what})
  <2>1. PICK s : s = On(bundles, what, files)
    OBVIOUS
  <2>2. ASSUME NEW i \in 1..Len(s) PROVE s[i].do = what
    <3>1. PICK n \in 1..Len(bundles) : \E j \in 1..Len(seqs[n]) : s[i] = seqs[n][j]
      BY <1>7, <2>1 DEF Holds
    <3>2. PICK j \in 1..Len(files) : s[i] = seqs[n][j]
      BY <1>5, <3>1
    <3>3. s[i] = Entry(what, bundles[n], files[j])
      BY <1>5, <3>2
    <3> QED BY <1>4, <3>3
  <2> QED BY <2>1, <2>2 DEF Only
<1>9. \A n \in 1..Len(bundles) : \A f \in 1..Len(files) :
        Has(On(bundles, what, files), Entry(what, bundles[n], files[f]))
  <2> SUFFICES ASSUME NEW n \in 1..Len(bundles), NEW f \in 1..Len(files)
               PROVE  Has(On(bundles, what, files),
                          Entry(what, bundles[n], files[f]))
    OBVIOUS
  <2>1. PICK s : s = On(bundles, what, files)
    OBVIOUS
  <2>2. f \in 1..Len(seqs[n]) /\ seqs[n][f] = Entry(what, bundles[n], files[f])
    BY <1>5
  <2>3. \A j \in 1..Len(seqs[n]) : \E i \in 1..Len(s) : s[i] = seqs[n][j]
    BY <1>7, <2>1 DEF Holds
  <2>4. PICK i \in 1..Len(s) : s[i] = seqs[n][f]
    BY <2>2, <2>3
  <2> QED BY <2>1, <2>2, <2>4 DEF Has
<1> QED BY <1>7, <1>8, <1>9 DEF Holds

LEMMA Joined ==
  ASSUME NEW s \in Seq(Entries), NEW t \in Seq(Entries)
  PROVE  /\ s \o t \in Seq(Entries)
         /\ \A D : Only(s, D) /\ Only(t, D) => Only(s \o t, D)
         /\ \A e : Has(s, e) \/ Has(t, e) => Has(s \o t, e)
         /\ \A a, b, D :
              /\ Before(s, a, b) /\ Before(t, a, b)
              /\ a \notin D /\ Only(t, D)
              => Before(s \o t, a, b)
<1>1. PICK u : u = s \o t
  OBVIOUS
<1>2. /\ u \in Seq(Entries)
      /\ Len(u) = Len(s) + Len(t) /\ Len(s) \in Nat /\ Len(t) \in Nat
      /\ \A i \in 1..Len(s) : i \in 1..Len(u) /\ u[i] = s[i]
      /\ \A i \in 1..Len(t) : Len(s) + i \in 1..Len(u) /\ u[Len(s) + i] = t[i]
      /\ \A i \in 1..Len(u) : i > Len(s) =>
           i - Len(s) \in 1..Len(t) /\ u[i] = t[i - Len(s)]
  BY <1>1, Concatenated
<1>3. \A i \in 1..Len(u) : i \in 1..Len(s) \/ i > Len(s)
  BY <1>2
<1>4. ASSUME NEW D, Only(s, D), Only(t, D) PROVE Only(u, D)
  BY <1>2, <1>3, <1>4 DEF Only
<1>5. ASSUME NEW e, Has(s, e) \/ Has(t, e) PROVE Has(u, e)
  BY <1>2, <1>5 DEF Has
<1>6. ASSUME NEW a, NEW b, NEW D, Before(s, a, b), Before(t, a, b),
             a \notin D, Only(t, D)
      PROVE  Before(u, a, b)
  <2> SUFFICES ASSUME NEW i \in 1..Len(u), NEW j \in 1..Len(u),
                      u[i].do = a, u[j].do = b
               PROVE  i < j
    BY DEF Before
  <2>1. i \in 1..Len(s)
    BY <1>2, <1>3, <1>6 DEF Only
  <2>2. CASE j \in 1..Len(s)
    BY <1>2, <1>6, <2>1, <2>2 DEF Before
  <2>3. CASE j > Len(s)
    BY <1>2, <2>1, <2>3
  <2> QED BY <1>3, <2>2, <2>3
<1> QED BY <1>1, <1>2, <1>4, <1>5, <1>6

LEMMA BeforeJoined ==
  ASSUME NEW s \in Seq(Entries), NEW t \in Seq(Entries),
         NEW a, NEW b, NEW D, Before(s, a, b), Before(t, a, b),
         a \notin D, Only(t, D)
  PROVE  Before(s \o t, a, b)
BY Joined

LEMMA EntriesAssociate ==
  ASSUME NEW s \in Seq(Entries), NEW t \in Seq(Entries), NEW u \in Seq(Entries)
  PROVE  (s \o t) \o u = s \o (t \o u)
OBVIOUS

LEMMA OnlyMore ==
  ASSUME NEW s, NEW D, NEW E, Only(s, D), D \subseteq E
  PROVE  Only(s, E)
BY DEF Only

LEMMA BeforeHeld ==
  ASSUME NEW s \in Seq(Entries), NEW a, NEW b, NEW D,
         Only(s, D), a \notin D \/ b \notin D
  PROVE  Before(s, a, b)
BY DEF Only, Before

\* The parts of the scripts.
LEMMA PublishingEntries ==
  ASSUME NEW run \in Experiments
  PROVE  /\ Publishing(run) \in Seq(Entries) /\ Len(Publishing(run)) = 1
         /\ Publishing(run)[1] = Entry("publish", run, "tables")
         /\ Only(Publishing(run), {"publish"})
<1>1. Publishing(run) = <<Entry("publish", run, "tables")>>
  BY DEF Publishing, Entry
<1>2. /\ Entry("publish", run, "tables") \in Entries
      /\ Entry("publish", run, "tables").do = "publish"
  BY DEF Entry, Entries, Deeds, Bundles, FileNames
<1> QED BY <1>1, <1>2 DEF Only

LEMMA PartsEntries ==
  ASSUME NEW run \in Experiments, NEW what \in Deeds
  PROVE  /\ On(Needs[run], what, <<"manifest">>) \in Seq(Entries)
         /\ On(Needs[run], what, <<"tables">>) \in Seq(Entries)
         /\ On(Loads[run], what, <<"tables">>) \in Seq(Entries)
         /\ On(Needs[run], what, Files) \in Seq(Entries)
         /\ Only(On(Needs[run], what, <<"manifest">>), {what})
         /\ Only(On(Needs[run], what, <<"tables">>), {what})
         /\ Only(On(Loads[run], what, <<"tables">>), {what})
         /\ Only(On(Needs[run], what, Files), {what})
         /\ \A b \in Compares(run) : \A f \in FileNames :
              Has(On(Needs[run], what, Files), Entry(what, b, f))
<1>1. Needs[run] \in Seq(Bundles) /\ Loads[run] \in Seq(Bundles)
  BY ChainAssumption DEF Bundles
<1>2. /\ <<"manifest">> \in Seq(FileNames) /\ <<"tables">> \in Seq(FileNames)
      /\ Files \in Seq(FileNames) /\ Len(Files) = 2
      /\ Files[1] = "tables" /\ Files[2] = "manifest"
  BY DEF FileNames, Files
<1>3. /\ On(Needs[run], what, <<"manifest">>) \in Seq(Entries)
      /\ Only(On(Needs[run], what, <<"manifest">>), {what})
  BY <1>1, <1>2, OnEntries
<1>4. /\ On(Needs[run], what, <<"tables">>) \in Seq(Entries)
      /\ Only(On(Needs[run], what, <<"tables">>), {what})
  BY <1>1, <1>2, OnEntries
<1>5. /\ On(Loads[run], what, <<"tables">>) \in Seq(Entries)
      /\ Only(On(Loads[run], what, <<"tables">>), {what})
  BY <1>1, <1>2, OnEntries
<1>6. /\ On(Needs[run], what, Files) \in Seq(Entries)
      /\ Only(On(Needs[run], what, Files), {what})
      /\ \A n \in 1..Len(Needs[run]) : \A f \in 1..Len(Files) :
           Has(On(Needs[run], what, Files), Entry(what, Needs[run][n], Files[f]))
  BY <1>1, <1>2, OnEntries
<1>7. ASSUME NEW b \in Compares(run), NEW f \in FileNames
      PROVE  Has(On(Needs[run], what, Files), Entry(what, b, f))
  <2>1. PICK n \in 1..Len(Needs[run]) : Needs[run][n] = b
    BY <1>1 DEF Compares
  <2>2. PICK k \in 1..Len(Files) : Files[k] = f
    BY <1>2 DEF FileNames
  <2> QED BY <1>6, <2>1, <2>2
<1> QED BY <1>3, <1>4, <1>5, <1>6, <1>7

Reading == Deeds \ {"publish"}

HashedFirst(run, s) ==
  /\ Only(s, Reading \ {"record"})
  /\ \A b \in Compares(run) : Has(s, Entry("record and check", b, "tables"))
  /\ Before(s, "declare", "record and check")
  /\ Before(s, "record and check", "load")

LEMMA HashThenLoadShape ==
  ASSUME NEW run \in Experiments
  PROVE  /\ HashThenLoad(run) \o Verifying(run) \in Seq(Entries)
         /\ HashedFirst(run, HashThenLoad(run) \o Verifying(run))
<1> DEFINE D == {"declare"} R == {"record and check"} L == {"load"} V == {"verify"}
<1>1. PICK d : d = On(Needs[run], "declare", <<"manifest">>)
  OBVIOUS
<1>2. PICK r : r = On(Needs[run], "record and check", Files)
  OBVIOUS
<1>3. PICK l : l = On(Loads[run], "load", <<"tables">>)
  OBVIOUS
<1>4. PICK v : v = On(Needs[run], "verify", Files)
  OBVIOUS
<1>5. {"declare", "record and check", "load", "verify"} \subseteq Deeds
  BY DEF Deeds
<1>6. /\ d \in Seq(Entries) /\ r \in Seq(Entries)
      /\ l \in Seq(Entries) /\ v \in Seq(Entries)
      /\ Only(d, D) /\ Only(r, R) /\ Only(l, L) /\ Only(v, V)
      /\ \A b \in Compares(run) : Has(r, Entry("record and check", b, "tables"))
  BY <1>1, <1>2, <1>3, <1>4, <1>5, PartsEntries DEF FileNames
<1>7. D \cup R \cup L \cup V \subseteq Reading \ {"record"}
  BY DEF Reading, Deeds
<1>8. /\ Only(d, Reading \ {"record"}) /\ Only(r, Reading \ {"record"})
      /\ Only(l, Reading \ {"record"}) /\ Only(v, Reading \ {"record"})
  BY <1>6, <1>7, OnlyMore
<1>9. /\ \A x \in {d, r, l, v} : Before(x, "declare", "record and check")
      /\ \A x \in {d, r, l, v} : Before(x, "record and check", "load")
  BY <1>6, BeforeHeld
<1>10. PICK x : x = d \o r
  OBVIOUS
<1>11. /\ x \in Seq(Entries) /\ Only(x, Reading \ {"record"})
       /\ \A b \in Compares(run) : Has(x, Entry("record and check", b, "tables"))
       /\ Before(x, "declare", "record and check")
       /\ Before(x, "record and check", "load")
  <2>1. Only(x, D \cup R)
    <3>1. Only(d, D \cup R) /\ Only(r, D \cup R)
      BY <1>6 DEF Only
    <3> QED BY <1>6, <1>10, <3>1, Joined
  <2>2. Before(x, "record and check", "load")
    BY <1>6, <1>10, <2>1, Joined, BeforeHeld
  <2>3. Before(x, "declare", "record and check")
    BY <1>6, <1>9, <1>10, Joined
  <2> QED BY <1>6, <1>8, <1>10, <2>2, <2>3, Joined
<1>12. PICK y : y = x \o l
  OBVIOUS
<1>13. /\ y \in Seq(Entries) /\ Only(y, Reading \ {"record"})
       /\ \A b \in Compares(run) : Has(y, Entry("record and check", b, "tables"))
       /\ Before(y, "declare", "record and check")
       /\ Before(y, "record and check", "load")
  <2>1. Before(y, "record and check", "load")
    BY <1>6, <1>9, <1>11, <1>12, Joined
  <2>2. Before(y, "declare", "record and check")
    BY <1>6, <1>9, <1>11, <1>12, Joined
  <2> QED BY <1>6, <1>8, <1>11, <1>12, <2>1, <2>2, Joined
<1>14. PICK z : z = y \o v
  OBVIOUS
<1>15. /\ z \in Seq(Entries) /\ Only(z, Reading \ {"record"})
       /\ \A b \in Compares(run) : Has(z, Entry("record and check", b, "tables"))
       /\ Before(z, "declare", "record and check")
       /\ Before(z, "record and check", "load")
  <2>1. Before(z, "record and check", "load")
    BY <1>6, <1>9, <1>13, <1>14, Joined
  <2>2. Before(z, "declare", "record and check")
    BY <1>6, <1>9, <1>13, <1>14, Joined
  <2> QED BY <1>6, <1>8, <1>13, <1>14, <2>1, <2>2, Joined
<1>16. HashThenLoad(run) \o Verifying(run) = z
  BY <1>1, <1>2, <1>3, <1>4, <1>10, <1>12, <1>14 DEF HashThenLoad, Verifying
<1> QED BY <1>15, <1>16 DEF HashedFirst

LEMMA LoadThenHashShape ==
  ASSUME NEW run \in Experiments
  PROVE  /\ LoadThenHash(run) \o Verifying(run) \o Verifying(run) \in Seq(Entries)
         /\ Only(LoadThenHash(run) \o Verifying(run) \o Verifying(run), Reading)
<1>1. PICK d : d = On(Needs[run], "declare", <<"manifest">>)
  OBVIOUS
<1>2. PICK c : c = On(Needs[run], "check", <<"tables">>)
  OBVIOUS
<1>3. PICK l : l = On(Loads[run], "load", <<"tables">>)
  OBVIOUS
<1>4. PICK r : r = On(Needs[run], "record", Files)
  OBVIOUS
<1>5. PICK v : v = On(Needs[run], "verify", Files)
  OBVIOUS
<1>6. /\ {"declare", "check", "load", "record", "verify"} \subseteq Deeds
      /\ {"declare"} \subseteq Reading /\ {"check"} \subseteq Reading
      /\ {"load"} \subseteq Reading /\ {"record"} \subseteq Reading
      /\ {"verify"} \subseteq Reading
  BY DEF Deeds, Reading
<1>7. /\ d \in Seq(Entries) /\ c \in Seq(Entries) /\ l \in Seq(Entries)
      /\ r \in Seq(Entries) /\ v \in Seq(Entries)
  BY <1>1, <1>2, <1>3, <1>4, <1>5, <1>6, PartsEntries
<1>8. /\ Only(d, {"declare"}) /\ Only(c, {"check"}) /\ Only(l, {"load"})
      /\ Only(r, {"record"}) /\ Only(v, {"verify"})
  BY <1>1, <1>2, <1>3, <1>4, <1>5, <1>6, PartsEntries
<1>9. /\ Only(d, Reading) /\ Only(c, Reading) /\ Only(l, Reading)
      /\ Only(r, Reading) /\ Only(v, Reading)
  BY <1>6, <1>8, OnlyMore
<1>10. d \o c \in Seq(Entries) /\ Only(d \o c, Reading)
  BY <1>7, <1>9, Joined
<1>11. (d \o c) \o l \in Seq(Entries) /\ Only((d \o c) \o l, Reading)
  BY <1>7, <1>9, <1>10, Joined
<1>12. ((d \o c) \o l) \o r \in Seq(Entries) /\ Only(((d \o c) \o l) \o r, Reading)
  BY <1>7, <1>9, <1>11, Joined
<1>13. PICK x : x = ((d \o c) \o l) \o r
  OBVIOUS
<1>14. x \o v \in Seq(Entries) /\ Only(x \o v, Reading)
  BY <1>7, <1>9, <1>12, <1>13, Joined
<1>15. (x \o v) \o v \in Seq(Entries) /\ Only((x \o v) \o v, Reading)
  BY <1>7, <1>9, <1>14, Joined
<1>16. LoadThenHash(run) = x /\ Verifying(run) = v
  BY <1>1, <1>2, <1>3, <1>4, <1>5, <1>13 DEF LoadThenHash, Verifying
<1> QED BY <1>15, <1>16

\* A script reads, publishes once, and from then on only verifies.
LEMMA ScriptShape ==
  ASSUME NEW run \in Experiments
  PROVE  \E a \in Seq(Entries) : \E b \in Seq(Entries) :
           /\ Script(run) = (a \o Publishing(run)) \o b
           /\ Only(a, Reading) /\ Only(b, {"verify", "hash again"})
           /\ \A c \in Compares(run) : \A f \in FileNames :
                Has(b, Entry("verify", c, f))
           /\ run \in HashesFirst => HashedFirst(run, a)
<1>1. PICK v : v = On(Needs[run], "verify", Files)
  OBVIOUS
<1>2. PICK h : h = On(Needs[run], "hash again", Files)
  OBVIOUS
<1>3. PICK p : p = Publishing(run)
  OBVIOUS
<1>4. {"verify", "hash again"} \subseteq Deeds
  BY DEF Deeds
<1>5. /\ v \in Seq(Entries) /\ h \in Seq(Entries) /\ p \in Seq(Entries)
      /\ Only(v, {"verify"}) /\ Only(h, {"hash again"})
      /\ \A c \in Compares(run) : \A f \in FileNames : Has(v, Entry("verify", c, f))
  BY <1>1, <1>2, <1>3, <1>4, PartsEntries, PublishingEntries
<1>6. Only(v, {"verify", "hash again"}) /\ Only(h, {"verify", "hash again"})
  BY <1>5, OnlyMore
<1>7. /\ v \o h \in Seq(Entries) /\ Only(v \o h, {"verify", "hash again"})
      /\ \A c \in Compares(run) : \A f \in FileNames :
           Has(v \o h, Entry("verify", c, f))
  BY <1>5, <1>6, Joined
<1>8. CASE run \in HashesFirst
  <2>1. PICK a : a = HashThenLoad(run) \o Verifying(run)
    OBVIOUS
  <2>2. a \in Seq(Entries) /\ HashedFirst(run, a)
    BY <2>1, HashThenLoadShape
  <2>3. Only(a, Reading)
    <3>1. Only(a, Reading \ {"record"}) /\ Reading \ {"record"} \subseteq Reading
      BY <2>2 DEF HashedFirst
    <3> QED BY <3>1, OnlyMore
  <2>4. Script(run) = ((a \o p) \o v) \o h
    BY <1>1, <1>2, <1>3, <1>8, <2>1 DEF Script, Verifying
  <2>5. a \o p \in Seq(Entries)
    BY <1>5, <2>2, Joined
  <2>6. Script(run) = (a \o p) \o (v \o h)
    <3>1. PICK x : x = a \o p
      OBVIOUS
    <3>2. x \in Seq(Entries)
      BY <2>5, <3>1
    <3>3. (x \o v) \o h = x \o (v \o h)
      BY <1>5, <3>2, EntriesAssociate
    <3> QED BY <2>4, <3>1, <3>3
  <2> QED BY <1>3, <1>7, <2>2, <2>3, <2>6
<1>9. CASE run \notin HashesFirst
  <2>1. PICK a : a = LoadThenHash(run) \o Verifying(run) \o Verifying(run)
    OBVIOUS
  <2>2. a \in Seq(Entries) /\ Only(a, Reading)
    BY <2>1, LoadThenHashShape
  <2>3. Script(run) = (a \o p) \o v
    BY <1>1, <1>3, <1>9, <2>1 DEF Script, Verifying
  <2> QED BY <1>3, <1>5, <1>6, <1>9, <2>2, <2>3
<1> QED BY <1>8, <1>9

\* What an experiment does after its publication.
Late(step) == step.do \in {"verify", "hash again"}

ComesLater(run, s, e) == \E i \in 1..Len(s) : PublishAt(run) < i /\ s[i] = e

LEMMA ScriptFacts ==
  ASSUME NEW run \in Experiments, NEW s, s = Script(run)
  PROVE  /\ s \in Seq(Entries) /\ PublishAt(run) \in 1..Len(s)
         /\ s[PublishAt(run)] = Entry("publish", run, "tables")
         /\ \A i \in 1..Len(s) : s[i].do = "publish" => i = PublishAt(run)
         /\ \A i \in 1..Len(s) : PublishAt(run) < i => Late(s[i])
         /\ \A c \in Compares(run) : \A f \in FileNames :
              ComesLater(run, s, Entry("verify", c, f))
         /\ run \in HashesFirst =>
              /\ \A i \in 1..Len(s) : s[i].do # "record"
              /\ \A c \in Compares(run) :
                   Has(s, Entry("record and check", c, "tables"))
              /\ Before(s, "declare", "record and check")
              /\ Before(s, "record and check", "load")
<1>1. PICK a \in Seq(Entries), b \in Seq(Entries) :
           /\ Script(run) = (a \o Publishing(run)) \o b
           /\ Only(a, Reading) /\ Only(b, {"verify", "hash again"})
           /\ \A c \in Compares(run) : \A f \in FileNames :
                Has(b, Entry("verify", c, f))
           /\ run \in HashesFirst => HashedFirst(run, a)
  BY ScriptShape
<1>2. PICK p : p = Publishing(run)
  OBVIOUS
<1>3. /\ p \in Seq(Entries) /\ Len(p) \in Nat /\ Len(p) <= 1 /\ 1 <= Len(p)
      /\ p[1] = Entry("publish", run, "tables") /\ Only(p, {"publish"})
  <2>1. p \in Seq(Entries) /\ Len(p) = 1
    BY <1>2, PublishingEntries
  <2>2. p[1] = Entry("publish", run, "tables") /\ Only(p, {"publish"})
    BY <1>2, PublishingEntries
  <2> QED BY <2>1, <2>2
<1>4. PICK x : x = a \o p
  OBVIOUS
<1>5. /\ x \in Seq(Entries)
      /\ Len(x) = Len(a) + Len(p) /\ Len(a) \in Nat
      /\ \A i \in 1..Len(a) : i \in 1..Len(x) /\ x[i] = a[i]
      /\ \A i \in 1..Len(p) : Len(a) + i \in 1..Len(x) /\ x[Len(a) + i] = p[i]
  BY <1>3, <1>4, Concatenated
<1>6. s = x \o b
  BY <1>1, <1>2, <1>4
<1>7. /\ s \in Seq(Entries)
      /\ Len(s) = Len(x) + Len(b) /\ Len(x) \in Nat /\ Len(b) \in Nat
      /\ \A i \in 1..Len(x) : i \in 1..Len(s) /\ s[i] = x[i]
      /\ \A i \in 1..Len(b) : Len(x) + i \in 1..Len(s) /\ s[Len(x) + i] = b[i]
      /\ \A i \in 1..Len(s) : i > Len(x) =>
           i - Len(x) \in 1..Len(b) /\ s[i] = b[i - Len(x)]
  <2>1. x \in Seq(Entries)
    BY <1>5
  <2> QED BY <1>6, <2>1, Concatenated
<1> DEFINE k == Len(a) + 1
<1>8. k = Len(x) /\ k \in 1..Len(x) /\ k \in 1..Len(s)
  BY <1>3, <1>5, <1>7
<1>9. s[k] = Entry("publish", run, "tables") /\ s[k].do = "publish"
  <2>1. 1 \in 1..Len(p)
    BY <1>3
  <2>2. s[k] = Entry("publish", run, "tables")
    BY <1>3, <1>5, <1>7, <1>8, <2>1
  <2> QED BY <2>2 DEF Entry
<1>10. \A i \in 1..Len(s) : k < i => Late(s[i])
  BY <1>1, <1>7, <1>8 DEF Only, Late
<1>11. \A i \in 1..Len(s) : i < k => s[i].do # "publish"
  <2> SUFFICES ASSUME NEW i \in 1..Len(s), i < k PROVE s[i].do # "publish"
    OBVIOUS
  <2>1. i \in 1..Len(a) /\ s[i] = a[i]
    BY <1>5, <1>7
  <2> QED BY <1>1, <2>1 DEF Only, Reading
<1>12. \A i \in 1..Len(s) : s[i].do = "publish" => i = k
  <2> SUFFICES ASSUME NEW i \in 1..Len(s), s[i].do = "publish" PROVE i = k
    OBVIOUS
  <2>1. ~(k < i) /\ ~(i < k)
    BY <1>10, <1>11 DEF Late
  <2> QED BY <1>5, <2>1
<1>13. PublishAt(run) = k
  <2>1. DOMAIN s = 1..Len(s)
    BY <1>7
  <2> QED BY <1>8, <1>9, <1>12, <2>1 DEF PublishAt
<1>14. ASSUME NEW c \in Compares(run), NEW f \in FileNames
       PROVE  \E i \in 1..Len(s) : k < i /\ s[i] = Entry("verify", c, f)
  <2>1. PICK i \in 1..Len(b) : b[i] = Entry("verify", c, f)
    BY <1>1 DEF Has
  <2>2. Len(x) + i \in 1..Len(s) /\ k < Len(x) + i /\ s[Len(x) + i] = b[i]
    BY <1>7, <1>8
  <2> QED BY <2>1, <2>2
<1>15. ASSUME run \in HashesFirst
       PROVE  /\ \A i \in 1..Len(s) : s[i].do # "record"
              /\ \A c \in Compares(run) :
                   Has(s, Entry("record and check", c, "tables"))
              /\ Before(s, "declare", "record and check")
              /\ Before(s, "record and check", "load")
  <2>1. HashedFirst(run, a)
    BY <1>1, <1>15
  <2> DEFINE D == (Deeds \ {"record"})
  <2>2. Only(a, D) /\ Only(p, D) /\ Only(b, D)
    <3>1. Only(a, D)
      BY <2>1 DEF HashedFirst, Only, Reading
    <3>2. Only(p, D)
      BY <1>3 DEF Only, Deeds
    <3>3. Only(b, D)
      BY <1>1 DEF Only, Deeds
    <3> QED BY <3>1, <3>2, <3>3
  <2>3. Only(s, D)
    <3>1. Only(x, D)
      BY <1>3, <1>4, <2>2, Joined
    <3> QED BY <1>5, <1>6, <2>2, <3>1, Joined
  <2>4. \A c \in Compares(run) : Has(s, Entry("record and check", c, "tables"))
    <3> SUFFICES ASSUME NEW c \in Compares(run)
                 PROVE  Has(s, Entry("record and check", c, "tables"))
      OBVIOUS
    <3>1. PICK i \in 1..Len(a) : a[i] = Entry("record and check", c, "tables")
      BY <2>1 DEF HashedFirst, Has
    <3>2. i \in 1..Len(s) /\ s[i] = a[i]
      BY <1>5, <1>7
    <3> QED BY <3>1, <3>2 DEF Has
  <2>5. /\ Before(p, "declare", "record and check")
        /\ Before(p, "record and check", "load")
        /\ Before(b, "declare", "record and check")
        /\ Before(b, "record and check", "load")
    BY <1>1, <1>3, BeforeHeld
  <2>6. /\ Before(x, "declare", "record and check")
        /\ Before(x, "record and check", "load")
    BY <1>3, <1>4, <2>1, <2>5, Joined DEF HashedFirst
  <2>7. /\ Before(s, "declare", "record and check")
        /\ Before(s, "record and check", "load")
    <3>1. x \in Seq(Entries)
      BY <1>5
    <3>2. "declare" \notin {"verify", "hash again"}
            /\ "record and check" \notin {"verify", "hash again"}
            /\ Only(b, {"verify", "hash again"})
      BY <1>1
    <3>3. Before(s, "declare", "record and check")
      BY <1>6, <2>5, <2>6, <3>1, <3>2, BeforeJoined
    <3>4. Before(s, "record and check", "load")
      BY <1>6, <2>5, <2>6, <3>1, <3>2, BeforeJoined
    <3> QED BY <3>3, <3>4
  <2>8. \A i \in 1..Len(s) : s[i].do # "record"
    BY <2>3 DEF Only
  <2> QED BY <2>4, <2>7, <2>8
<1>16. /\ s \in Seq(Entries) /\ PublishAt(run) \in 1..Len(s)
       /\ s[PublishAt(run)] = Entry("publish", run, "tables")
       /\ \A i \in 1..Len(s) : s[i].do = "publish" => i = PublishAt(run)
       /\ \A i \in 1..Len(s) : PublishAt(run) < i => Late(s[i])
  BY <1>7, <1>8, <1>9, <1>10, <1>12, <1>13
<1>17. \A c \in Compares(run) : \A f \in FileNames :
         ComesLater(run, s, Entry("verify", c, f))
  BY <1>13, <1>14 DEF ComesLater
<1> QED BY <1>15, <1>16, <1>17

-----------------------------------------------------------------------------

\* The steps that leave something behind.
Publishes(step) == step.do = "publish"

Declares(step, b) == step.do = "declare" /\ b = step.bundle

LoadsFrom(step, b) == step.do = "load" /\ b = step.bundle

Records(step, b, f) ==
  /\ step.do \in {"record", "record and check"}
  /\ b = step.bundle /\ f = step.file

LEMMA StepEffects ==
  ASSUME ChainTypes, Newest, NEW run \in Experiments, NEW step \in Entries,
         Declare(run, step), Load(run, step), Record(run, step),
         Issue(run, step), Publishes(step) \/ There(step)
  PROVE  /\ \A q \in Experiments : q # run =>
              /\ declared'[q] = declared[q] /\ tables'[q] = tables[q]
              /\ snapshot'[q] = snapshot[q] /\ compared'[q] = compared[q]
         /\ \A b \in Bundles :
              /\ declared'[run][b] = IF Declares(step, b)
                                     THEN present[b] ELSE declared[run][b]
              /\ tables'[run][b] = IF LoadsFrom(step, b)
                                   THEN present[b] ELSE tables[run][b]
              /\ compared'[run][b] = IF Publishes(step)
                                     THEN versions[b] ELSE compared[run][b]
         /\ \A b \in Bundles : \A f \in FileNames :
              snapshot'[run][b][f] =
                IF Records(step, b, f)
                THEN present[b] ELSE snapshot[run][b][f]
         /\ ~Publishes(step) => versions' = versions /\ present' = present
         /\ \A b \in Bundles : versions[b] <= versions'[b]
         /\ Newest'
<1>1. step.bundle \in Bundles /\ step.file \in FileNames /\ run \in Bundles
  BY DEF Entries, Bundles
<1>2. /\ \A q \in Experiments : q # run => declared'[q] = declared[q]
      /\ \A b \in Bundles :
           declared'[run][b] = IF Declares(step, b)
                               THEN present[b] ELSE declared[run][b]
  BY <1>1 DEF Declare, Declares, ChainTypes
<1>3. /\ \A q \in Experiments : q # run => tables'[q] = tables[q]
      /\ \A b \in Bundles :
           tables'[run][b] = IF LoadsFrom(step, b)
                             THEN present[b] ELSE tables[run][b]
  BY <1>1 DEF Load, LoadsFrom, ChainTypes
<1>4. /\ \A q \in Experiments : q # run => snapshot'[q] = snapshot[q]
      /\ \A b \in Bundles : \A f \in FileNames :
           snapshot'[run][b][f] =
             IF Records(step, b, f)
             THEN present[b] ELSE snapshot[run][b][f]
  BY <1>1 DEF Record, Records, ChainTypes
<1>5. /\ \A q \in Experiments : q # run => compared'[q] = compared[q]
      /\ \A b \in Bundles :
           compared'[run][b] = IF Publishes(step)
                               THEN versions[b] ELSE compared[run][b]
  BY DEF Issue, Publishes, ChainTypes
<1>6. ~Publishes(step) => versions' = versions /\ present' = present
  BY DEF Issue, Publishes
<1>7. CASE Publishes(step)
  <2>1. /\ versions'[run] = 1 /\ present'[run] = 1
        /\ \A b \in Bundles : b # run =>
             versions'[b] = versions[b] /\ present'[b] = present[b]
    BY <1>1, <1>7 DEF Issue, Publishes, ChainTypes
  <2>2. \A b \in Bundles : versions[b] \in Nat /\ versions[b] <= versions[b]
    BY DEF ChainTypes
  <2>3. versions[run] <= 1
    BY DEF Newest
  <2>4. \A b \in Bundles : versions[b] <= versions'[b]
    BY <2>1, <2>2, <2>3
  <2>5. \A q \in Experiments : q \in Bundles
    BY DEF Bundles
  <2>6. Newest'
    BY <2>1, <2>5 DEF Newest
  <2> QED BY <1>2, <1>3, <1>4, <1>5, <1>7, <2>4, <2>6
<1>8. CASE ~Publishes(step)
  <2>1. \A b \in Bundles : versions[b] <= versions'[b]
    BY <1>6, <1>8 DEF ChainTypes
  <2>2. Newest'
    BY <1>6, <1>8 DEF Newest
  <2> QED BY <1>2, <1>3, <1>4, <1>5, <1>6, <1>8, <2>1, <2>2
<1> QED BY <1>7, <1>8

LEMMA StepTypes ==
  ASSUME ChainTypes, NEW run \in Experiments, NEW step \in Entries,
         Declare(run, step), Load(run, step), Record(run, step),
         Issue(run, step),
         position' = [position EXCEPT ![run] = @ + 1],
         \/ outcome' = [outcome EXCEPT ![run] = "returned"]
         \/ outcome' = [outcome EXCEPT ![run] = outcome[run]]
  PROVE  ChainTypes'
<1>1. /\ step.bundle \in Bundles /\ step.file \in FileNames /\ run \in Bundles
      /\ present[step.bundle] \in Versions /\ 1 \in Versions /\ 1 \in Nat
  BY DEF Entries, Bundles, ChainTypes, Versions
<1>2. declared' \in [Experiments -> [Bundles -> Versions]]
  BY <1>1 DEF Declare, ChainTypes
<1>3. tables' \in [Experiments -> [Bundles -> Versions]]
  BY <1>1 DEF Load, ChainTypes
<1>4. snapshot' \in [Experiments -> [Bundles -> [FileNames -> Versions]]]
  <2> DEFINE R == [Bundles -> [FileNames -> Versions]]
  <2>1. /\ snapshot \in [Experiments -> R]
        /\ snapshot[run] \in R
        /\ snapshot[run][step.bundle] \in [FileNames -> Versions]
    BY <1>1 DEF ChainTypes
  <2> DEFINE row == [snapshot[run][step.bundle] EXCEPT
                       ![step.file] = present[step.bundle]]
  <2>2. row \in [FileNames -> Versions]
    BY <1>1, <2>1
  <2> DEFINE rows == [snapshot[run] EXCEPT ![step.bundle] = row]
  <2>3. rows \in R
    <3> HIDE DEF row
    <3> QED BY <1>1, <2>1, <2>2
  <2>4. [snapshot EXCEPT ![run] = rows] \in [Experiments -> R]
    <3> HIDE DEF rows, R
    <3> QED BY <2>1, <2>3
  <2>5. snapshot' = [snapshot EXCEPT ![run] = rows] \/ snapshot' = snapshot
    BY DEF Record
  <2> QED BY <2>1, <2>4, <2>5
<1>5. compared' \in [Experiments -> [Bundles -> Nat]]
  BY DEF Issue, ChainTypes
<1>6. present' \in [Bundles -> Versions] /\ versions' \in [Bundles -> Nat]
  BY <1>1 DEF Issue, ChainTypes
<1>7. position' \in [Experiments -> Nat]
  BY DEF ChainTypes
<1>8. outcome' \in [Experiments -> {"idle", "running", "returned", "failed"}]
  BY DEF ChainTypes
<1> QED BY <1>2, <1>3, <1>4, <1>5, <1>6, <1>7, <1>8 DEF ChainTypes

\* An experiment that takes no step keeps what it knows when versions grow.
LEMMA LimitGrows ==
  ASSUME ChainTypes, ChainTypes', NEW q \in Experiments, NEW b \in Bundles,
         position'[q] = position[q], compared'[q] = compared[q],
         versions[b] <= versions'[b]
  PROVE  /\ Limit(q, b) <= Limit(q, b)' /\ Limit(q, b) \in Nat
         /\ Limit(q, b)' \in Nat
BY DEF Limit, ChainTypes, PublishAt

LEMMA ReadsStand ==
  ASSUME ChainTypes, ChainTypes', NEW q \in Experiments, Reads(q),
         position'[q] = position[q], compared'[q] = compared[q],
         snapshot'[q] = snapshot[q], tables'[q] = tables[q],
         declared'[q] = declared[q],
         \A b \in Bundles : versions[b] <= versions'[b]
  PROVE  Reads(q)'
<1>1. \A b \in Bundles : /\ Limit(q, b) <= Limit(q, b)'
                         /\ Limit(q, b) \in Nat /\ Limit(q, b)' \in Nat
                         /\ compared[q][b] \in Nat /\ versions[b] \in Nat
                         /\ versions'[b] \in Nat
  BY LimitGrows DEF ChainTypes
<1>2. \A b \in Bundles :
        /\ snapshot[q][b]["tables"] \in Versions
        /\ snapshot[q][b]["manifest"] \in Versions /\ tables[q][b] \in Versions
  BY DEF ChainTypes, FileNames
<1>3. \A x \in Versions : x # NoBundle => x \in Nat
  BY DEF Versions
<1>4. SeenInTime(q)'
  BY <1>1, <1>2, <1>3 DEF Reads, SeenInTime, FileNames
<1>5. VerifiedAfter(q)'
  BY DEF Reads, VerifiedAfter, PublishAt
<1>6. CASE q \in HashesFirst
  <2>1. RecordedAsDeclared(q)'
    BY <1>6 DEF Reads, RecordedAsDeclared
  <2>2. LoadedAfter(q)'
    BY <1>1, <1>2, <1>3, <1>6 DEF Reads, LoadedAfter
  <2> QED BY <1>4, <1>5, <2>1, <2>2 DEF Reads
<1> QED BY <1>4, <1>5, <1>6 DEF Reads

\* The experiment makes step k of its script s.
Makes(run, s, k, step) ==
  /\ s = Script(run) /\ k = position[run] /\ k \in 1..Len(s) /\ step = s[k]
  /\ Succeeds(run, step)
  /\ Declare(run, step) /\ Load(run, step) /\ Record(run, step)
  /\ Issue(run, step)
  /\ position'[run] = k + 1

Effects(run, step) ==
  /\ \A b \in Bundles :
       /\ declared'[run][b] =
            IF Declares(step, b) THEN present[b] ELSE declared[run][b]
       /\ tables'[run][b] =
            IF LoadsFrom(step, b) THEN present[b] ELSE tables[run][b]
       /\ compared'[run][b] =
            IF Publishes(step) THEN versions[b] ELSE compared[run][b]
  /\ \A b \in Bundles : \A f \in FileNames :
       snapshot'[run][b][f] =
         IF Records(step, b, f) THEN present[b] ELSE snapshot[run][b][f]
  /\ ~Publishes(step) => /\ versions' = versions
                         /\ present[step.bundle] # NoBundle
                         /\ present[step.bundle] = versions[step.bundle]
  /\ \A b \in Bundles : versions[b] <= versions'[b]

LEMMA MakesEffects ==
  ASSUME ChainTypes, Newest, NEW run \in Experiments, NEW step \in Entries,
         NEW s, NEW k, Makes(run, s, k, step)
  PROVE  Effects(run, step)
<1>1. step.bundle \in Bundles
  BY DEF Entries
<1>2. step.do \in Deeds
  BY DEF Entries
<1>3. Publishes(step) \/ There(step)
  BY <1>2 DEF Makes, Succeeds, Deeds, Publishes
<1>4. ~Publishes(step) =>
        present[step.bundle] # NoBundle
          /\ present[step.bundle] = versions[step.bundle]
  BY <1>1, <1>3 DEF There, Newest
<1>5. Declare(run, step) /\ Load(run, step) /\ Record(run, step)
        /\ Issue(run, step)
  BY DEF Makes
<1> QED BY <1>3, <1>4, <1>5, StepEffects DEF Effects

LEMMA LateReads ==
  ASSUME NEW step, Late(step), NEW b, NEW f
  PROVE  /\ ~Publishes(step) /\ ~Declares(step, b) /\ ~LoadsFrom(step, b)
         /\ ~Records(step, b, f)
BY DEF Late, Publishes, Declares, LoadsFrom, Records

LEMMA PublishReads ==
  ASSUME NEW step, Publishes(step), NEW b, NEW f
  PROVE  ~Declares(step, b) /\ ~LoadsFrom(step, b) /\ ~Records(step, b, f)
BY DEF Publishes, Declares, LoadsFrom, Records

\* Where the step stands in the script.
LEMMA PlaceInScript ==
  ASSUME NEW run \in Experiments, NEW s \in Seq(Entries), NEW k \in Nat,
         NEW P \in Nat, P = PublishAt(run), NEW step \in Entries,
         Makes(run, s, k, step)
  PROVE  /\ P \in 1..Len(s)
         /\ k < P => ~Publishes(step)
         /\ k = P => Publishes(step)
         /\ P < k => Late(step)
<1>1. s = Script(run) /\ k \in 1..Len(s) /\ step = s[k]
  BY DEF Makes
<1>2. /\ P \in 1..Len(s)
      /\ s[P] = Entry("publish", run, "tables")
      /\ \A i \in 1..Len(s) : s[i].do = "publish" => i = P
      /\ \A i \in 1..Len(s) : P < i => Late(s[i])
  BY <1>1, ScriptFacts
<1>3. k < P => ~Publishes(step)
  BY <1>1, <1>2 DEF Publishes
<1>4. k = P => Publishes(step)
  BY <1>1, <1>2 DEF Publishes, Entry
<1>5. P < k => Late(step)
  BY <1>1, <1>2
<1> QED BY <1>2, <1>3, <1>4, <1>5

Later(run, b, k, P) ==
  /\ Limit(run, b) \in Nat /\ Limit(run, b)' \in Nat
  /\ Limit(run, b) <= Limit(run, b)'
  /\ k <= P => Limit(run, b) = versions[b]
  /\ P < k => Limit(run, b) = compared[run][b]
                /\ compared'[run][b] = compared[run][b]

LEMMA LimitMore ==
  ASSUME ChainTypes, ChainTypes', NEW run \in Experiments,
         NEW s \in Seq(Entries), NEW k \in Nat, NEW P \in Nat,
         P = PublishAt(run), NEW step \in Entries, Makes(run, s, k, step),
         Effects(run, step), NEW b \in Bundles
  PROVE  Later(run, b, k, P)
<1>1. PublishAt(run)' = P
  BY DEF PublishAt
<1>2. Limit(run, b) = IF k <= P THEN versions[b] ELSE compared[run][b]
  BY DEF Limit, Makes
<1>3. Limit(run, b)' = IF k + 1 <= P THEN versions'[b] ELSE compared'[run][b]
  BY <1>1 DEF Limit, Makes
<1>4. versions[b] \in Nat /\ versions'[b] \in Nat /\ compared[run][b] \in Nat
  BY DEF ChainTypes
<1>5. /\ versions[b] <= versions'[b]
      /\ compared'[run][b] =
           IF Publishes(step) THEN versions[b] ELSE compared[run][b]
  BY DEF Effects
<1>6. CASE k < P
  BY <1>2, <1>3, <1>4, <1>5, <1>6 DEF Later
<1>7. CASE k = P
  <2>1. Publishes(step)
    BY <1>7, PlaceInScript
  <2>2. k <= P /\ ~(k + 1 <= P) /\ ~(P < k)
    BY <1>7
  <2>3. Limit(run, b) = versions[b] /\ Limit(run, b)' = versions[b]
    BY <1>2, <1>3, <1>5, <2>1, <2>2
  <2> QED BY <1>4, <2>2, <2>3 DEF Later
<1>8. CASE P < k
  <2>1. ~Publishes(step)
    BY <1>8, PlaceInScript, LateReads
  <2> QED BY <1>2, <1>3, <1>4, <1>5, <1>8, <2>1 DEF Later
<1> QED BY <1>6, <1>7, <1>8

LEMMA SeenMore ==
  ASSUME ChainTypes, ChainTypes', Newest, NEW run \in Experiments, Reads(run),
         NEW s \in Seq(Entries), NEW k \in Nat, NEW P \in Nat,
         P = PublishAt(run), NEW step \in Entries, Makes(run, s, k, step)
  PROVE  SeenInTime(run)'
<1>1. Effects(run, step)
  BY MakesEffects
<1> SUFFICES ASSUME NEW b \in Bundles
             PROVE  /\ compared'[run][b] <= versions'[b]
                    /\ \A f \in FileNames : snapshot'[run][b][f] # NoBundle =>
                         snapshot'[run][b][f] <= Limit(run, b)'
  BY DEF SeenInTime
<1>2. versions[b] \in Nat /\ versions'[b] \in Nat /\ compared[run][b] \in Nat
  BY DEF ChainTypes
<1>3. /\ Limit(run, b) \in Nat /\ Limit(run, b)' \in Nat
      /\ Limit(run, b) <= Limit(run, b)'
      /\ k <= P => Limit(run, b) = versions[b]
  <2>1. Later(run, b, k, P)
    BY <1>1, LimitMore
  <2> QED BY <2>1 DEF Later
<1>4. compared[run][b] <= versions[b]
  BY DEF Reads, SeenInTime
<1>5. /\ versions[b] <= versions'[b]
      /\ compared'[run][b] =
           IF Publishes(step) THEN versions[b] ELSE compared[run][b]
  BY <1>1 DEF Effects
<1>6. compared'[run][b] <= versions'[b]
  BY <1>2, <1>4, <1>5
<1>7. ASSUME NEW f \in FileNames, snapshot'[run][b][f] # NoBundle
      PROVE  snapshot'[run][b][f] <= Limit(run, b)'
  <2>1. CASE Records(step, b, f)
    <3>1. ~(P < k)
      BY <2>1, PlaceInScript, LateReads
    <3>2. ~Publishes(step)
      BY <2>1, PublishReads
    <3>3. b = step.bundle
      BY <2>1 DEF Records
    <3>4. snapshot'[run][b][f] = versions[b]
      BY <1>1, <2>1, <3>2, <3>3 DEF Effects
    <3>5. Limit(run, b) = versions[b]
      BY <1>3, <3>1
    <3> QED BY <1>3, <3>4, <3>5
  <2>2. CASE ~Records(step, b, f)
    <3>1. snapshot'[run][b][f] = snapshot[run][b][f]
      BY <1>1, <2>2 DEF Effects
    <3>2. snapshot[run][b][f] <= Limit(run, b)
      BY <1>7, <3>1 DEF Reads, SeenInTime
    <3>3. snapshot[run][b][f] \in Nat
      BY <1>7, <3>1 DEF ChainTypes, Versions
    <3> QED BY <1>3, <3>1, <3>2, <3>3
  <2> QED BY <2>1, <2>2
<1> QED BY <1>6, <1>7

LEMMA VerifiedMore ==
  ASSUME ChainTypes, ChainTypes', Newest, NEW run \in Experiments, Reads(run),
         NEW s \in Seq(Entries), NEW k \in Nat, NEW P \in Nat,
         P = PublishAt(run), NEW step \in Entries, Makes(run, s, k, step)
  PROVE  VerifiedAfter(run)'
<1>1. Effects(run, step)
  BY MakesEffects
<1>2. PublishAt(run)' = P /\ s = Script(run) /\ k = position[run]
        /\ step = s[k] /\ position'[run] = k + 1
  BY DEF PublishAt, Makes
<1> SUFFICES ASSUME NEW i \in 1..Len(s), P < i, i < k + 1, s[i].do = "verify"
             PROVE  /\ snapshot'[run][s[i].bundle][s[i].file] # NoBundle
                    /\ snapshot'[run][s[i].bundle][s[i].file]
                         = compared'[run][s[i].bundle]
  BY <1>2 DEF VerifiedAfter
<1>3. P < k
  OBVIOUS
<1>4. Late(step) /\ ~Publishes(step)
  BY <1>3, PlaceInScript, LateReads
<1>5. s[i] \in Entries
  OBVIOUS
<1>6. PICK b \in Bundles : b = s[i].bundle
  BY <1>5 DEF Entries
<1>7. PICK f \in FileNames : f = s[i].file
  BY <1>5 DEF Entries
<1>8. /\ compared'[run][b] = compared[run][b]
      /\ snapshot'[run][b][f] = snapshot[run][b][f]
  <2>1. ~Records(step, b, f)
    BY <1>4, LateReads
  <2> QED BY <1>1, <1>4, <2>1 DEF Effects
<1>9. CASE i = k
  <2>1. step.do = "verify" /\ step.bundle = b /\ step.file = f
    BY <1>2, <1>6, <1>7, <1>9
  <2>2. present[b] # NoBundle /\ snapshot[run][b][f] = present[b]
    BY <2>1 DEF Makes, Succeeds, There, Unchanged
  <2>3. present[b] = versions[b]
    BY <1>1, <1>4, <2>1 DEF Effects
  <2>4. snapshot[run][b][f] <= Limit(run, b)
    BY <2>2 DEF Reads, SeenInTime
  <2>5. Limit(run, b) = compared[run][b]
    <3>1. Later(run, b, k, P)
      BY <1>1, LimitMore
    <3> QED BY <1>3, <3>1 DEF Later
  <2>6. compared[run][b] <= versions[b]
    BY DEF Reads, SeenInTime
  <2>7. versions[b] \in Nat /\ compared[run][b] \in Nat
    BY DEF ChainTypes
  <2>8. snapshot[run][b][f] = compared[run][b]
    <3>1. versions[b] <= compared[run][b]
      BY <2>2, <2>3, <2>4, <2>5
    <3>2. versions[b] = compared[run][b]
      BY <2>6, <2>7, <3>1
    <3> QED BY <2>2, <2>3, <3>2
  <2> QED BY <1>6, <1>7, <1>8, <2>2, <2>8
<1>10. CASE i # k
  <2>1. i < k
    BY <1>10
  <2>2. snapshot[run][b][f] # NoBundle /\ snapshot[run][b][f] = compared[run][b]
    BY <1>2, <1>6, <1>7, <2>1 DEF Reads, VerifiedAfter
  <2> QED BY <1>6, <1>7, <1>8, <2>2
<1> QED BY <1>9, <1>10

LEMMA RecordedMore ==
  ASSUME ChainTypes, ChainTypes', Newest, NEW run \in HashesFirst \cap Experiments,
         Reads(run),
         NEW s \in Seq(Entries), NEW k \in Nat, NEW P \in Nat,
         P = PublishAt(run), NEW step \in Entries, Makes(run, s, k, step)
  PROVE  RecordedAsDeclared(run)'
<1>1. Effects(run, step)
  BY MakesEffects
<1>2. s = Script(run) /\ k = position[run] /\ k \in 1..Len(s)
        /\ step = s[k] /\ position'[run] = k + 1
  BY DEF Makes
<1> SUFFICES ASSUME NEW i \in 1..Len(s), i < k + 1, HashesTables(s[i])
             PROVE  declared'[run][s[i].bundle] = snapshot'[run][s[i].bundle].tables
  BY <1>2 DEF RecordedAsDeclared
<1>3. PICK b \in Bundles : b = s[i].bundle
  <2>1. s[i] \in Entries
    OBVIOUS
  <2> QED BY <2>1 DEF Entries
<1>4. PICK f \in FileNames : f = "tables"
  BY DEF FileNames
<1>5. /\ \A j \in 1..Len(s) : s[j].do # "record"
      /\ Before(s, "declare", "record and check")
  BY <1>2, ScriptFacts
<1>6. ~Declares(step, b)
  <2>1. step.do = "declare" => k < i
    BY <1>2, <1>5 DEF Before, HashesTables
  <2>2. ~(k < i)
    OBVIOUS
  <2> QED BY <2>1, <2>2 DEF Declares
<1>7. declared'[run][b] = declared[run][b]
  BY <1>1, <1>6 DEF Effects
<1>8. CASE Records(step, b, f)
  <2>1. step.do = "record and check" /\ step.file = "tables" /\ step.bundle = b
    BY <1>2, <1>4, <1>5, <1>8 DEF Records
  <2>2. snapshot'[run][b][f] = present[b]
    BY <1>1, <1>8 DEF Effects
  <2>3. declared[run][b] = present[b]
    BY <2>1 DEF Makes, Succeeds, Authentic
  <2> QED BY <1>3, <1>4, <1>7, <2>2, <2>3
<1>9. CASE ~Records(step, b, f)
  <2>1. snapshot'[run][b][f] = snapshot[run][b][f]
    BY <1>1, <1>9 DEF Effects
  <2>2. i # k
    <3>1. i = k => Records(step, b, f)
      BY <1>2, <1>3, <1>4 DEF Records, HashesTables
    <3> QED BY <1>9, <3>1
  <2>3. i < k
    BY <2>2
  <2>4. declared[run][s[i].bundle] = snapshot[run][s[i].bundle].tables
    BY <1>2, <2>3 DEF Reads, RecordedAsDeclared
  <2> QED BY <1>3, <1>4, <1>7, <2>1, <2>4
<1> QED BY <1>8, <1>9

LEMMA LoadedMore ==
  ASSUME ChainTypes, ChainTypes', Newest, NEW run \in HashesFirst \cap Experiments,
         Reads(run),
         NEW s \in Seq(Entries), NEW k \in Nat, NEW P \in Nat,
         P = PublishAt(run), NEW step \in Entries, Makes(run, s, k, step)
  PROVE  LoadedAfter(run)'
<1>1. Effects(run, step)
  BY MakesEffects
<1>2. s = Script(run) /\ k = position[run] /\ k \in 1..Len(s)
        /\ step = s[k] /\ position'[run] = k + 1
  BY DEF Makes
<1> SUFFICES ASSUME NEW b \in Bundles, tables'[run][b] # NoBundle
             PROVE  /\ tables'[run][b] <= Limit(run, b)'
                    /\ snapshot'[run][b].tables # NoBundle =>
                         snapshot'[run][b].tables <= tables'[run][b]
                    /\ \E i \in 1..Len(s) : i < k + 1 /\ s[i].do = "load"
  BY <1>2 DEF LoadedAfter
<1>3. PICK f \in FileNames : f = "tables"
  BY DEF FileNames
<1>4. /\ Limit(run, b) \in Nat /\ Limit(run, b)' \in Nat
      /\ Limit(run, b) <= Limit(run, b)'
      /\ k <= P => Limit(run, b) = versions[b]
  <2>1. Later(run, b, k, P)
    BY <1>1, LimitMore
  <2> QED BY <2>1 DEF Later
<1>5. Before(s, "record and check", "load")
        /\ \A j \in 1..Len(s) : s[j].do # "record"
  BY <1>2, ScriptFacts
<1>6. CASE LoadsFrom(step, b)
  <2>1. ~(P < k)
    BY <1>6, PlaceInScript, LateReads
  <2>2. ~Publishes(step) /\ step.do = "load" /\ step.bundle = b
    BY <1>6 DEF LoadsFrom, Publishes
  <2>3. tables'[run][b] = versions[b]
    BY <1>1, <1>6, <2>2 DEF Effects
  <2>4. Limit(run, b) = versions[b]
    BY <1>4, <2>1
  <2>5. ~Records(step, b, f)
    BY <2>2 DEF Records
  <2>6. snapshot'[run][b][f] = snapshot[run][b][f]
    BY <1>1, <2>5 DEF Effects
  <2>7. snapshot[run][b][f] # NoBundle => snapshot[run][b][f] <= Limit(run, b)
    BY DEF Reads, SeenInTime
  <2>8. k < k + 1
    OBVIOUS
  <2>9. tables'[run][b] <= Limit(run, b)'
    BY <1>4, <2>3, <2>4
  <2>10. snapshot'[run][b][f] # NoBundle => snapshot'[run][b][f] <= tables'[run][b]
    BY <2>3, <2>4, <2>6, <2>7
  <2> QED BY <1>2, <1>3, <2>2, <2>8, <2>9, <2>10
<1>7. CASE ~LoadsFrom(step, b)
  <2>1. tables'[run][b] = tables[run][b]
    BY <1>1, <1>7 DEF Effects
  <2>2. /\ tables[run][b] <= Limit(run, b)
        /\ snapshot[run][b].tables # NoBundle =>
             snapshot[run][b].tables <= tables[run][b]
    BY <2>1 DEF Reads, LoadedAfter
  <2>3. PICK i \in 1..Len(s) : i < k /\ s[i].do = "load"
    BY <1>2, <2>1 DEF Reads, LoadedAfter
  <2>4. ~(k < i)
    BY <2>3
  <2>5. ~Records(step, b, f)
    BY <1>2, <1>5, <2>3, <2>4 DEF Before, Records
  <2>6. snapshot'[run][b][f] = snapshot[run][b][f]
    BY <1>1, <2>5 DEF Effects
  <2>7. tables[run][b] \in Nat
    BY <2>1 DEF ChainTypes, Versions
  <2>8. tables'[run][b] <= Limit(run, b)'
    BY <1>4, <2>1, <2>2, <2>7
  <2>9. i < k + 1
    BY <2>3
  <2> QED BY <1>3, <2>1, <2>2, <2>3, <2>6, <2>8, <2>9
<1> QED BY <1>6, <1>7

LEMMA ReadsMore ==
  ASSUME ChainTypes, ChainTypes', Newest, NEW run \in Experiments, Reads(run),
         NEW s \in Seq(Entries), NEW k \in Nat, NEW step \in Entries,
         Makes(run, s, k, step)
  PROVE  Reads(run)'
<1>1. PublishAt(run) \in Nat
  <2>1. s = Script(run)
    BY DEF Makes
  <2>2. PublishAt(run) \in 1..Len(s)
    BY <2>1, ScriptFacts
  <2> QED BY <2>2
<1>2. SeenInTime(run)' /\ VerifiedAfter(run)'
  BY <1>1, SeenMore, VerifiedMore
<1>3. CASE run \in HashesFirst
  <2>1. RecordedAsDeclared(run)' /\ LoadedAfter(run)'
    BY <1>1, <1>3, RecordedMore, LoadedMore
  <2> QED BY <1>2, <2>1 DEF Reads
<1> QED BY <1>2, <1>3 DEF Reads

-----------------------------------------------------------------------------

LEMMA ChainInitInv == ChainInit => ChainInv
<1> SUFFICES ASSUME ChainInit PROVE ChainInv
  OBVIOUS
<1>1. /\ 0 \in Versions /\ 1 \in Versions /\ NoBundle \in Versions
      /\ 0 \in Nat /\ 1 \in Nat
  BY DEF Versions
<1>2. Unread \in [FileNames -> Versions]
        /\ \A f \in FileNames : Unread[f] = NoBundle
  BY <1>1 DEF Unread, FileNames
<1>3. ChainTypes
  BY <1>1, <1>2 DEF ChainInit, ChainTypes
<1>4. Newest
  BY ChainAssumption DEF ChainInit, Newest, Bundles
<1>5. OnScript
  <2> SUFFICES ASSUME NEW run \in Experiments
               PROVE  position[run] \in 1..Len(Script(run))
                        /\ outcome[run] # "returned"
    BY DEF OnScript
  <2>1. PICK s : s = Script(run)
    OBVIOUS
  <2>2. s \in Seq(Entries) /\ PublishAt(run) \in 1..Len(s)
    BY <2>1, ScriptFacts
  <2>3. 1 \in 1..Len(s)
    BY <2>2
  <2> QED BY <2>1, <2>3 DEF ChainInit
<1>6. ASSUME NEW run \in Experiments PROVE Reads(run)
  <2>1. SeenInTime(run)
    BY <1>2, <1>3 DEF ChainInit, SeenInTime, ChainTypes
  <2>2. position[run] = 1
    BY DEF ChainInit
  <2>3. VerifiedAfter(run)
    BY <2>2 DEF VerifiedAfter
  <2>4. RecordedAsDeclared(run)
    BY <2>2 DEF RecordedAsDeclared
  <2>5. LoadedAfter(run)
    BY DEF ChainInit, LoadedAfter
  <2> QED BY <2>1, <2>3, <2>4, <2>5 DEF Reads
<1> QED BY <1>3, <1>4, <1>5, <1>6 DEF ChainInv

\* A step of an experiment that goes through.
LEMMA GoesThrough ==
  ASSUME ChainInv, NEW run \in Experiments, outcome[run] = "running",
         NEW step, step = Script(run)[position[run]],
         Succeeds(run, step), Declare(run, step), Load(run, step),
         Record(run, step), Issue(run, step),
         position' = [position EXCEPT ![run] = @ + 1],
         outcome' = [outcome EXCEPT ![run] =
           IF position[run] = Len(Script(run)) THEN "returned" ELSE @]
  PROVE  ChainInv'
<1>1. ChainTypes /\ Newest /\ OnScript /\ \A q \in Experiments : Reads(q)
  BY DEF ChainInv
<1>2. PICK s : s = Script(run)
  OBVIOUS
<1>3. s \in Seq(Entries)
  BY <1>2, ScriptFacts
<1>4. PICK k : k = position[run]
  OBVIOUS
<1>5. k \in 1..Len(s)
  BY <1>1, <1>2, <1>4 DEF OnScript
<1>6. k \in Nat /\ step = s[k] /\ step \in Entries
  BY <1>2, <1>3, <1>4, <1>5
<1>7. position'[run] = k + 1
        /\ \A q \in Experiments : q # run => position'[q] = position[q]
  BY <1>1, <1>4 DEF ChainTypes
<1>8. Makes(run, s, k, step)
  BY <1>2, <1>4, <1>5, <1>6, <1>7 DEF Makes
<1>9. \/ outcome' = [outcome EXCEPT ![run] = "returned"]
      \/ outcome' = [outcome EXCEPT ![run] = outcome[run]]
  OBVIOUS
<1>10. ChainTypes'
  BY <1>1, <1>6, <1>9, StepTypes
<1>11. Effects(run, step)
  BY <1>1, <1>3, <1>6, <1>8, MakesEffects
<1>12. Publishes(step) \/ There(step)
  BY <1>11 DEF Effects, There
<1>13. /\ \A q \in Experiments : q # run =>
            /\ declared'[q] = declared[q] /\ tables'[q] = tables[q]
            /\ snapshot'[q] = snapshot[q] /\ compared'[q] = compared[q]
       /\ \A b \in Bundles : versions[b] <= versions'[b]
       /\ Newest'
  BY <1>1, <1>6, <1>12, StepEffects
<1>14. OnScript'
  <2> SUFFICES ASSUME NEW q \in Experiments
               PROVE  IF outcome'[q] = "returned"
                      THEN position'[q] = Len(Script(q)) + 1
                      ELSE position'[q] \in 1..Len(Script(q))
    BY DEF OnScript, Script, LoadThenHash, HashThenLoad, Verifying, Publishing
  <2>1. CASE q # run
    <3>1. outcome'[q] = outcome[q] /\ position'[q] = position[q]
      BY <1>1, <1>7, <2>1 DEF ChainTypes
    <3> QED BY <1>1, <3>1 DEF OnScript
  <2>2. CASE q = run
    <3>1. outcome'[run] = IF k = Len(s) THEN "returned" ELSE "running"
      BY <1>1, <1>2, <1>4 DEF ChainTypes
    <3>2. Len(s) \in Nat
      BY <1>3
    <3>3. CASE k = Len(s)
      BY <1>2, <1>7, <2>2, <3>1, <3>3
    <3>4. CASE k # Len(s)
      <4>1. k + 1 \in 1..Len(s)
        BY <1>5, <3>2, <3>4
      <4> QED BY <1>2, <1>7, <2>2, <3>1, <3>4, <4>1
    <3> QED BY <3>3, <3>4
  <2> QED BY <2>1, <2>2
<1>15. ASSUME NEW q \in Experiments PROVE Reads(q)'
  <2>1. CASE q = run
    BY <1>1, <1>3, <1>6, <1>8, <1>10, <2>1, ReadsMore
  <2>2. CASE q # run
    BY <1>1, <1>7, <1>10, <1>13, <2>2, ReadsStand
  <2> QED BY <2>1, <2>2
<1> QED BY <1>10, <1>13, <1>14, <1>15 DEF ChainInv

\* A step that leaves the experiments alone, but for one that fails.
Returned(q) == outcome[q] = "returned"

StaysReturned(q) == Returned(q)' <=> Returned(q)

LEMMA StandsStill ==
  ASSUME ChainInv, ChainTypes', Newest',
         UNCHANGED <<position, declared, tables, snapshot, compared>>,
         \A q \in Experiments : StaysReturned(q),
         \A b \in Bundles : versions[b] <= versions'[b]
  PROVE  ChainInv'
<1>1. ChainTypes /\ OnScript /\ \A q \in Experiments : Reads(q)
  BY DEF ChainInv
<1>2. OnScript'
  <2> SUFFICES ASSUME NEW q \in Experiments
               PROVE  IF outcome'[q] = "returned"
                      THEN position'[q] = Len(Script(q)) + 1
                      ELSE position'[q] \in 1..Len(Script(q))
    BY DEF OnScript, Script, LoadThenHash, HashThenLoad, Verifying, Publishing
  <2>1. outcome'[q] = "returned" <=> outcome[q] = "returned"
    BY DEF StaysReturned, Returned
  <2> QED BY <1>1, <2>1 DEF OnScript
<1>3. ASSUME NEW q \in Experiments PROVE Reads(q)'
  BY <1>1, ReadsStand
<1> QED BY <1>2, <1>3 DEF ChainInv

LEMMA ChainNextInv == ChainInv /\ [ChainNext]_chainVars => ChainInv'
<1> SUFFICES ASSUME ChainInv, [ChainNext]_chainVars PROVE ChainInv'
  OBVIOUS
<1>1. ChainTypes /\ Newest /\ \A b \in Bundles : versions[b] <= versions[b]
  BY DEF ChainInv, ChainTypes
<1>2. ASSUME NEW run \in Experiments, ScriptStep(run) PROVE ChainInv'
  <2>1. PICK step : step = Script(run)[position[run]]
    OBVIOUS
  <2>2. CASE /\ Succeeds(run, step)
             /\ Declare(run, step) /\ Load(run, step) /\ Record(run, step)
             /\ Issue(run, step)
             /\ position' = [position EXCEPT ![run] = @ + 1]
             /\ outcome' = [outcome EXCEPT ![run] =
                  IF position[run] = Len(Script(run)) THEN "returned" ELSE @]
    BY <1>2, <2>1, <2>2, GoesThrough DEF ScriptStep
  <2>3. CASE /\ outcome' = [outcome EXCEPT ![run] = "failed"]
             /\ UNCHANGED <<present, versions, position, declared, tables,
                            snapshot, compared>>
    <3>1. ChainTypes' /\ Newest'
      BY <1>1, <2>3 DEF ChainTypes, Newest
    <3>2. \A q \in Experiments : StaysReturned(q)
      <4> SUFFICES ASSUME NEW q \in Experiments PROVE StaysReturned(q)
        OBVIOUS
      <4>1. CASE q = run
        <5>1. outcome[q] = "running"
          BY <1>2, <4>1 DEF ScriptStep
        <5>2. outcome'[q] = "failed"
          BY <1>1, <2>3, <4>1 DEF ChainTypes
        <5> QED BY <5>1, <5>2 DEF StaysReturned, Returned
      <4>2. CASE q # run
        <5>1. outcome'[q] = outcome[q]
          BY <1>1, <2>3, <4>2 DEF ChainTypes
        <5> QED BY <5>1 DEF StaysReturned, Returned
      <4> QED BY <4>1, <4>2
    <3> QED BY <1>1, <2>3, <3>1, <3>2, StandsStill
  <2> QED BY <1>2, <2>1, <2>2, <2>3 DEF ScriptStep
<1>3. ASSUME NEW b \in Sources, MoveAside(b) \/ MoveIn(b) \/ PutBack(b)
      PROVE  ChainInv'
  <2>1. b \in Bundles /\ b \notin Experiments
    BY ChainAssumption DEF Bundles
  <2>2. UNCHANGED experimentVars
    BY <1>3 DEF MoveAside, MoveIn, PutBack
  <2>3. /\ \/ versions' = versions
           \/ versions' = [versions EXCEPT ![b] = @ + 1]
        /\ \/ present' = [present EXCEPT ![b] = NoBundle]
           \/ present' = [present EXCEPT ![b] = versions'[b]]
    BY <1>3 DEF MoveAside, MoveIn, PutBack
  <2>4. /\ versions' \in [Bundles -> Nat]
        /\ \A c \in Bundles : versions[c] <= versions'[c]
        /\ \A c \in Bundles : c # b => versions'[c] = versions[c]
    BY <1>1, <2>1, <2>3 DEF ChainTypes
  <2>5. /\ present' \in [Bundles -> Versions]
        /\ \A c \in Bundles : c # b => present'[c] = present[c]
        /\ present'[b] \in {NoBundle, versions'[b]}
    BY <1>1, <2>1, <2>3, <2>4 DEF ChainTypes, Versions
  <2>6. ChainTypes'
    BY <1>1, <2>2, <2>4, <2>5 DEF ChainTypes, experimentVars
  <2>7. Newest'
    <3>1. \A c \in Bundles : present'[c] \in {NoBundle, versions'[c]}
      BY <1>1, <2>4, <2>5 DEF Newest
    <3>2. \A run \in Experiments : versions'[run] = versions[run]
      BY <2>1, <2>4 DEF Bundles
    <3> QED BY <1>1, <3>1, <3>2 DEF Newest
  <2>8. \A q \in Experiments : StaysReturned(q)
    <3>1. outcome' = outcome
      BY <2>2 DEF experimentVars
    <3> QED BY <3>1 DEF StaysReturned, Returned
  <2> QED BY <2>2, <2>4, <2>6, <2>7, <2>8, StandsStill DEF experimentVars
<1>4. CASE UNCHANGED chainVars
  <2>1. ChainTypes' /\ Newest'
    BY <1>1, <1>4 DEF chainVars, ChainTypes, Newest
  <2>2. outcome' = outcome /\ versions' = versions
    BY <1>4 DEF chainVars
  <2>3. \A q \in Experiments : StaysReturned(q)
    BY <2>2 DEF StaysReturned, Returned
  <2>4. \A b \in Bundles : versions[b] <= versions'[b]
    BY <1>1, <2>2
  <2> QED BY <1>1, <1>4, <2>1, <2>3, <2>4, StandsStill DEF chainVars
<1> QED BY <1>2, <1>3, <1>4 DEF ChainNext

\* What the invariant says of an experiment that has returned.
LEMMA ChainInvTrue == ChainInv => ReturnedEvidenceIsTrue
<1> SUFFICES ASSUME ChainInv, NEW run \in Experiments,
                    outcome[run] = "returned", NEW b \in Compares(run)
             PROVE  /\ snapshot[run][b].tables = snapshot[run][b].manifest
                    /\ snapshot[run][b].tables = compared[run][b]
                    /\ run \in HashesFirst =>
                         tables[run][b] \in {compared[run][b], NoBundle}
                    /\ run \in HashesFirst => declared[run][b] = compared[run][b]
  BY DEF ReturnedEvidenceIsTrue
<1>1. ChainTypes /\ OnScript /\ Reads(run)
  BY DEF ChainInv
<1>2. PICK s : s = Script(run)
  OBVIOUS
<1>3. s \in Seq(Entries) /\ PublishAt(run) \in 1..Len(s)
  BY <1>2, ScriptFacts
<1>4. position[run] = Len(s) + 1 /\ Len(s) \in Nat
  BY <1>1, <1>2, <1>3 DEF OnScript
<1>5. \A i \in 1..Len(s) : i < position[run]
  BY <1>4
<1>6. b \in Bundles
  <2>1. Needs[run] \in Seq(Sources \cup Experiments)
    BY ChainAssumption
  <2> QED BY <2>1 DEF Compares, Bundles
<1>7. ASSUME NEW f \in FileNames
      PROVE  snapshot[run][b][f] # NoBundle
               /\ snapshot[run][b][f] = compared[run][b]
  <2>1. PICK e : e = Entry("verify", b, f)
    OBVIOUS
  <2>2. e.do = "verify" /\ e.bundle = b /\ e.file = f
    BY <2>1 DEF Entry
  <2>3. ComesLater(run, s, e)
    BY <1>2, <2>1, ScriptFacts
  <2>4. PICK i \in 1..Len(s) : PublishAt(run) < i /\ s[i] = e
    BY <2>3 DEF ComesLater
  <2> QED BY <1>1, <1>2, <1>5, <2>2, <2>4 DEF Reads, VerifiedAfter
<1>8. /\ snapshot[run][b].tables = compared[run][b]
      /\ snapshot[run][b].manifest = compared[run][b]
      /\ snapshot[run][b].tables # NoBundle
  BY <1>7 DEF FileNames
<1>9. ASSUME run \in HashesFirst PROVE declared[run][b] = compared[run][b]
  <2>1. PICK e : e = Entry("record and check", b, "tables")
    OBVIOUS
  <2>2. HashesTables(e) /\ e.bundle = b
    BY <2>1 DEF HashesTables, Entry
  <2>3. Has(s, e)
    BY <1>2, <1>9, <2>1, ScriptFacts
  <2>4. PICK i \in 1..Len(s) : s[i] = e
    BY <2>3 DEF Has
  <2> QED BY <1>1, <1>2, <1>5, <1>8, <1>9, <2>2, <2>4
          DEF Reads, RecordedAsDeclared
<1>10. ASSUME run \in HashesFirst, tables[run][b] # NoBundle
       PROVE  tables[run][b] = compared[run][b]
  <2>1. /\ tables[run][b] <= Limit(run, b)
        /\ snapshot[run][b].tables <= tables[run][b]
    BY <1>1, <1>6, <1>8, <1>10 DEF Reads, LoadedAfter
  <2>2. Limit(run, b) = compared[run][b]
    <3>1. ~(position[run] <= PublishAt(run))
      BY <1>3, <1>4
    <3> QED BY <3>1 DEF Limit
  <2>3. tables[run][b] \in Nat /\ compared[run][b] \in Nat
    BY <1>1, <1>6, <1>10 DEF ChainTypes, Versions
  <2> QED BY <1>8, <2>1, <2>2, <2>3
<1> QED BY <1>8, <1>9, <1>10

(***************************************************************************)
(* An experiment that returned compared with one version of every bundle   *)
(* it names, whatever writers replaced meanwhile: for any number of        *)
(* experiments, bundles and versions, and any lists of needs.              *)
(***************************************************************************)
THEOREM ReturnedIsTrue == ChainSpec => []ReturnedEvidenceIsTrue
<1>1. ChainInit => ChainInv
  BY ChainInitInv
<1>2. ChainInv /\ [ChainNext]_chainVars => ChainInv'
  BY ChainNextInv
<1>3. ChainInv => ReturnedEvidenceIsTrue
  BY ChainInvTrue
<1> QED BY <1>1, <1>2, <1>3, PTL DEF ChainSpec

=============================================================================
