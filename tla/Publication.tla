----------------------------- MODULE Publication -----------------------------
(***************************************************************************)
(* How the evidence bundles are put on disk.  Every report writer of the   *)
(* repository publishes a fixed set of files under one directory name; they *)
(* do it in six ways:                                                      *)
(*   sweep     stage, move the old bundle aside, rename; roll back in an   *)
(*             except clause, remove stage and backup in a finally clause  *)
(*             (days 17, 18, 19, 20);                                      *)
(*   unstage   the same, the except clause first removes the stage and     *)
(*             nothing else is cleaned up (days 21, 22, 23, 24, 26, 27 and *)
(*             two of day 25);                                             *)
(*   restore   the same, the except clause only rolls back (days 13 to 16  *)
(*             and the portfolio of day 25);                               *)
(*   once      stage, rename onto a name that must be free (the locked     *)
(*             final test, days 28 and 31);                                *)
(*   inplace   create the directory and write into it (day 29);            *)
(*   filewise  stage, then rename file after file (days 10, 11, 12).       *)
(* A bundle is abstracted to two files: `body', the tables, and            *)
(* `manifest', which holds their hashes.  A file is named by the writer    *)
(* whose run produced it.  The file system is external: a rename of a      *)
(* directory is atomic, needs its source, and is refused when its target   *)
(* is a directory with files in it.                                        *)
(***************************************************************************)
EXTENDS Naturals, FiniteSets

CONSTANTS
  Writers,        \* the calls of the one report's writer
  Old,            \* the run that published before them
  NoFile,           \* no file, no directory
  Protocols,      \* the ways of publishing that are explored
  MaxFaults,      \* renames and removals that may fail
  MaxCrashes,     \* processes that may be killed
  MaxInterrupts   \* writers that may be interrupted from the keyboard

VARIABLES
  protocol,       \* how this report is published
  overwrite,      \* the overwrite flag of each call
  writing,        \* where each call stands (idle: never made)
  bundle,         \* the directory under the report's name
  stage, backup,  \* the private directories of each call
  published,      \* a bundle has been complete under that name (history)
  faults,         \* the calls that failed, with the step they failed at
  crashes, interrupts

publicationVars ==
  <<protocol, overwrite, writing, bundle, stage, backup, published,
    faults, crashes, interrupts>>

Runs == Writers \cup {Old}

Whole(run) == [body |-> run, manifest |-> run]

Empty == [body |-> NoFile, manifest |-> NoFile]

(* No file is none of the runs, and no directory. *)
ASSUME PublicationAssumption ==
  /\ Protocols \subseteq
       {"sweep", "unstage", "restore", "once", "inplace", "filewise"}
  /\ NoFile \notin Runs
  /\ NoFile \notin [body : Runs \cup {NoFile}, manifest : Runs \cup {NoFile}]

(* The manifest's hashes are those of the files beside it. *)
Complete(d) == d # NoFile /\ d.manifest # NoFile /\ d.body = d.manifest

PublicationInit ==
  /\ protocol \in Protocols
  /\ overwrite \in [Writers -> BOOLEAN]
  /\ protocol \in {"once", "inplace"} => \A w \in Writers : ~overwrite[w]
  /\ writing \in [Writers -> {"idle", "called"}]
  /\ bundle \in {NoFile, Whole(Old)}
  /\ stage = [w \in Writers |-> NoFile]
  /\ backup = [w \in Writers |-> NoFile]
  /\ published = (bundle # NoFile)
  /\ faults = {}
  /\ crashes = 0
  /\ interrupts = 0

Goes(w, step) == writing' = [writing EXCEPT ![w] = step]

Refused(w) == Goes(w, "refused") /\ UNCHANGED <<bundle, stage, backup>>

(* A file-system call that fails though nothing is in its way. *)
CallFails(w) ==
  /\ Cardinality(faults) < MaxFaults
  /\ faults' = faults \cup {<<w, writing[w]>>}

(***************************************************************************)
(* The prologue: an existing bundle is refused unless the caller asked for *)
(* its replacement, then the files are written into a private stage.       *)
(***************************************************************************)
Refuses(w) ==
  /\ bundle # NoFile
  /\ ~overwrite[w]
  /\ protocol = "filewise" => bundle # Empty

Prepare(w) ==
  /\ writing[w] = "called"
  /\ UNCHANGED <<bundle, backup>>
  /\ IF Refuses(w)
     THEN Goes(w, "refused") /\ UNCHANGED stage
     ELSE IF protocol = "inplace"
          THEN Goes(w, "create") /\ UNCHANGED stage
          ELSE /\ stage' = [stage EXCEPT ![w] = Whole(w)]
               /\ Goes(w, CASE protocol = "once" -> "publish"
                            [] protocol = "filewise" -> "create"
                            [] OTHER -> "look")
  /\ UNCHANGED faults

(***************************************************************************)
(* The replacing writers: look for a bundle, move it aside, rename.        *)
(***************************************************************************)
Look(w) ==
  /\ writing[w] = "look"
  /\ Goes(w, IF bundle = NoFile THEN "publish" ELSE "aside")
  /\ UNCHANGED <<bundle, stage, backup, faults>>

(* Where an exception of the try block leads. *)
OnError == IF protocol \in {"unstage", "once"} THEN "unstage" ELSE "rollback"

Aside(w) ==
  /\ writing[w] = "aside"
  /\ UNCHANGED stage
  /\ \/ /\ bundle # NoFile
        /\ backup' = [backup EXCEPT ![w] = bundle]
        /\ bundle' = NoFile
        /\ Goes(w, "publish")
        /\ UNCHANGED faults
     \/ /\ IF bundle = NoFile THEN UNCHANGED faults ELSE CallFails(w)
        /\ Goes(w, OnError)
        /\ UNCHANGED <<bundle, backup>>

(* os.replace refuses a directory that holds files. *)
NameIsFree == bundle = NoFile \/ bundle = Empty

AfterPublishing(w) == IF backup[w] = NoFile THEN "returned" ELSE "clean"

Publish(w) ==
  /\ writing[w] = "publish"
  /\ UNCHANGED backup
  /\ \/ /\ NameIsFree
        /\ bundle' = stage[w]
        /\ stage' = [stage EXCEPT ![w] = NoFile]
        /\ Goes(w, AfterPublishing(w))
        /\ UNCHANGED faults
     \/ /\ IF NameIsFree THEN CallFails(w) ELSE UNCHANGED faults
        /\ Goes(w, OnError)
        /\ UNCHANGED <<bundle, stage>>

(* A removal that fails may have removed some of the files already. *)
PartOf(d) == {d, [d EXCEPT !.body = NoFile], [d EXCEPT !.manifest = NoFile], Empty}

CleanFailed == IF protocol = "restore" THEN "failed" ELSE OnError

Clean(w) ==
  /\ writing[w] = "clean"
  /\ UNCHANGED <<bundle, stage>>
  /\ \/ /\ backup' = [backup EXCEPT ![w] = NoFile]
        /\ Goes(w, "returned")
        /\ UNCHANGED faults
     \/ /\ CallFails(w)
        /\ \E left \in PartOf(backup[w]) : backup' = [backup EXCEPT ![w] = left]
        /\ Goes(w, CleanFailed)

(***************************************************************************)
(* The error paths.                                                        *)
(***************************************************************************)
(* "unstage" and "once" remove the stage first; when that fails the rest   *)
(* of the except clause is not reached.                                    *)
Unstage(w) ==
  /\ writing[w] = "unstage"
  /\ UNCHANGED <<bundle, backup>>
  /\ \/ /\ stage' = [stage EXCEPT ![w] = NoFile]
        /\ Goes(w, IF protocol = "once" THEN "failed" ELSE "rollback")
        /\ UNCHANGED faults
     \/ /\ CallFails(w)
        /\ stage[w] # NoFile
        /\ Goes(w, "failed")
        /\ UNCHANGED stage

AfterRollback == IF protocol = "unstage" THEN "failed" ELSE "leave"

(* Faulty: the old bundle is not put back. *)
RestoresNothing(w) == FALSE

(* The old bundle goes back when there is one and its name is free. *)
Restores(w) == backup[w] # NoFile /\ bundle = NoFile

Rollback(w) ==
  /\ writing[w] = "rollback"
  /\ UNCHANGED stage
  /\ \/ /\ Restores(w)
        /\ Goes(w, "moveback")
     \/ /\ ~Restores(w)
        /\ Goes(w, AfterRollback)
  /\ UNCHANGED <<bundle, backup, faults>>

MoveBack(w) ==
  /\ writing[w] = "moveback"
  /\ Goes(w, AfterRollback)
  /\ UNCHANGED stage
  /\ \/ /\ NameIsFree
        /\ bundle' = backup[w]
        /\ backup' = [backup EXCEPT ![w] = NoFile]
        /\ UNCHANGED faults
     \/ /\ IF NameIsFree THEN CallFails(w) ELSE UNCHANGED faults
        /\ UNCHANGED <<bundle, backup>>

(* The way out: the stage goes with its temporary directory, and the finally *)
(* clause of "sweep" removes the backup too.                                *)
Leave(w) ==
  /\ writing[w] = "leave"
  /\ Goes(w, "failed")
  /\ UNCHANGED bundle
  /\ \/ /\ stage' = [stage EXCEPT ![w] = NoFile]
        /\ backup' = [backup EXCEPT ![w] =
                        IF protocol = "sweep" THEN NoFile ELSE @]
        /\ UNCHANGED faults
     \/ /\ CallFails(w)
        /\ protocol = "sweep"
        /\ UNCHANGED <<stage, backup>>

(***************************************************************************)
(* The writers that fill the published directory itself.                   *)
(***************************************************************************)
(* Faulty: mkdir accepts a directory that is there. *)
CreateOrReuse(w) ==
  /\ writing[w] = "create"
  /\ bundle' = IF bundle = NoFile THEN Empty ELSE bundle
  /\ Goes(w, "body")
  /\ UNCHANGED <<stage, backup, faults>>

(* mkdir: with exist_ok only for the file-wise replacement. *)
Create(w) ==
  /\ writing[w] = "create"
  /\ UNCHANGED <<stage, backup, faults>>
  /\ IF bundle = NoFile
     THEN bundle' = Empty /\ Goes(w, "body")
     ELSE UNCHANGED bundle
          /\ Goes(w, IF protocol = "filewise" THEN "body" ELSE "refused")

(* Faulty: the manifest goes first. *)
WritesManifestFirst(w) == IF writing[w] = "body" THEN "manifest" ELSE "body"

(* The file this call puts under the published name next. *)
WritesNext(w) == IF writing[w] = "body" THEN "body" ELSE "manifest"

WriteFile(w) ==
  /\ writing[w] \in {"body", "manifest"}
  /\ UNCHANGED <<stage, backup>>
  /\ \/ /\ bundle' = [bundle EXCEPT ![WritesNext(w)] = w]
        /\ Goes(w, IF writing[w] = "body" THEN "manifest" ELSE "returned")
        /\ UNCHANGED faults
     \/ /\ CallFails(w)
        /\ Goes(w, IF protocol = "filewise" THEN "leave" ELSE "failed")
        /\ UNCHANGED bundle

(***************************************************************************)
(* A killed process does nothing more.  A keyboard interrupt is no         *)
(* Exception: no except clause runs for it, a finally clause does.         *)
(***************************************************************************)
Finished == {"idle", "returned", "refused", "failed", "killed"}

Working(w) == writing[w] \notin Finished

Killed(w) ==
  /\ Working(w)
  /\ crashes < MaxCrashes
  /\ crashes' = crashes + 1
  /\ Goes(w, "killed")
  /\ UNCHANGED <<protocol, overwrite, bundle, stage, backup, published, faults,
                 interrupts>>

AfterInterrupt(w) ==
  IF /\ protocol \in {"sweep", "restore", "filewise"}
     /\ writing[w] \notin {"called", "leave"}
  THEN "leave" ELSE "failed"

Interrupted(w) ==
  /\ Working(w)
  /\ interrupts < MaxInterrupts
  /\ interrupts' = interrupts + 1
  /\ Goes(w, AfterInterrupt(w))
  /\ UNCHANGED <<protocol, overwrite, bundle, stage, backup, published, faults,
                 crashes>>

WriterStep(w) ==
  /\ \/ Prepare(w) \/ Look(w) \/ Aside(w) \/ Publish(w) \/ Clean(w)
     \/ Unstage(w) \/ Rollback(w) \/ MoveBack(w) \/ Leave(w)
     \/ Create(w) \/ WriteFile(w)
  /\ published' = (published \/ Complete(bundle'))
  /\ UNCHANGED <<protocol, overwrite, crashes, interrupts>>

PublicationNext ==
  \E w \in Writers : WriterStep(w) \/ Killed(w) \/ Interrupted(w)

PublicationSpec == PublicationInit /\ [][PublicationNext]_publicationVars

-----------------------------------------------------------------------------

Replacing == protocol \in {"sweep", "unstage", "restore"}

(* Some complete bundle is on disk: published, or set aside where an       *)
(* operator finds it.                                                      *)
OnDisk == Complete(bundle) \/ \E w \in Writers : Complete(backup[w])

(* What the reports of days 18 to 20 state of their writers: atomic        *)
(* replacement and rollback.  Once a bundle has been published, a complete *)
(* one is on disk at every moment.                                         *)
ABundleSurvives == Replacing /\ published => OnDisk

(* The replacing writers keep that promise when a rename fails, when a     *)
(* process is killed between any two steps, and when two runs replace the  *)
(* same bundle at once.  Those with a finally clause need exceptions: no   *)
(* interrupt, no failed removal of a backup and no failed return of one,   *)
(* for then the clause deletes the only bundle there is.                   *)
SurvivesFailures ==
  /\ Replacing
  /\ published
  /\ protocol = "sweep" =>
       /\ interrupts = 0
       /\ \A w \in Writers, step \in {"clean", "moveback"} : <<w, step>> \notin faults
  => OnDisk

(* A reader that finds a manifest under the published name finds the files *)
(* it describes: the three kinds of writer that never put a half-removed   *)
(* backup back and do not rename file by file show no mixed and no partial *)
(* bundle, wherever they are stopped and whoever runs beside them.         *)
PublishedIsWhole ==
  /\ protocol \in {"restore", "once", "inplace"}
  /\ bundle # NoFile
  /\ bundle.manifest # NoFile
  => Complete(bundle)

(* Evidence that is written once stays: the bundle of the locked final     *)
(* test, of days 28 and 31 (checked for existence long before the rename)  *)
(* and of day 29 (made in place) is not touched by a second run that       *)
(* passed its check before the first one published.                        *)
WriteOnceStands ==
  [][(protocol \in {"once", "inplace"} /\ Complete(bundle))
       => UNCHANGED bundle]_publicationVars

=============================================================================
