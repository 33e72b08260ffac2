---------------------------- MODULE DatasetStore ----------------------------
(***************************************************************************)
(* The local dataset store and the download of the development bars.  A    *)
(* dataset is a data file and a manifest with the data's hash; both are    *)
(* written under temporary names that every process shares, then renamed,  *)
(* the data first.  A download run retrieves the raw bars of its months,   *)
(* derives the canonical ones, and builds the combined dataset as soon as  *)
(* every month is there.  A study reads the combined dataset while         *)
(* downloads are running.                                                  *)
(*                                                                         *)
(* The content of a dataset is abstracted to the retrievals it comes from, *)
(* its hash to that content, or to Torn while the file is being written.   *)
(* Opening a file for writing truncates it: the bytes are then those of    *)
(* the last process that opened it, and whole when that process closes it, *)
(* under whatever name the file has by then.                               *)
(***************************************************************************)
EXTENDS Naturals, FiniteSets

CONSTANTS
  Downloaders,    \* processes of the download script
  Selected,       \* the months each of them was started for
  Studies,        \* processes that evaluate the combined dataset
  Months,
  None,
  Torn,           \* the hash of a file that is not complete
  MaxRetrievals,  \* retrievals from the data provider
  MaxKills,       \* processes that are killed
  MaxReruns       \* download runs started again

(* The script's default is every month, for every run. *)
ASSUME SelectionAssumption == Selected \in [Downloaders -> SUBSET Months]

VARIABLES
  data, manifest,            \* the published files, by dataset
  newData, newManifest,      \* their temporary names
  at,                        \* where each download run stands (idle: not started)
  left,                      \* the months it still has to ensure
  job,                       \* the dataset it is writing
  content,                   \* what it writes there
  digest,                    \* the hash it took of its temporary data
  retrievals,
  study,                     \* where each study stands and what it read
  kills, reruns

storeVars ==
  <<data, manifest, newData, newManifest, at, left, job, content, digest,
    retrievals, study, kills, reruns>>

Combined == <<"combined", None>>

Raw(m) == <<"raw", m>>

Canonical(m) == <<"canonical", m>>

Datasets == {Combined} \cup {Raw(m) : m \in Months}
                       \cup {Canonical(m) : m \in Months}

(***************************************************************************)
(* Files.                                                                  *)
(***************************************************************************)
Opened(p, what) == [by |-> p, what |-> what, whole |-> FALSE]

(* Process p closes what it opened, wherever it has been renamed to. *)
Closed(p, file) ==
  IF file # None /\ file.by = p THEN [file EXCEPT !.whole = TRUE] ELSE file

Hash(file) == IF file.whole THEN file.what ELSE Torn

Readable(file) == file # None /\ file.whole

(* Manifest and data are there and agree. *)
Verified(d) ==
  /\ Readable(manifest[d])
  /\ Readable(data[d])
  /\ manifest[d].what.sha256 = Hash(data[d])

-----------------------------------------------------------------------------

StoreInit ==
  /\ data = [d \in Datasets |-> None]
  /\ manifest = [d \in Datasets |-> None]
  /\ newData = [d \in Datasets |-> None]
  /\ newManifest = [d \in Datasets |-> None]
  /\ at \in [Downloaders -> {"idle", "ensure"}]
  /\ left = Selected
  /\ job = [p \in Downloaders |-> None]
  /\ content = [p \in Downloaders |-> None]
  /\ digest = [p \in Downloaders |-> None]
  /\ retrievals = 0
  /\ study \in [Studies ->
        {[step |-> step, expected |-> None, frame |-> None, lineage |-> None] :
           step \in {"idle", "manifest"}}]
  /\ kills = 0
  /\ reruns = 0

Step(p, next) == at' = [at EXCEPT ![p] = next]

Writes(p, dataset, what) ==
  /\ job' = [job EXCEPT ![p] = dataset]
  /\ content' = [content EXCEPT ![p] = what]
  /\ Step(p, "check")

(***************************************************************************)
(* The download run: ensure_month for each selected month, then the        *)
(* combined dataset.  An artifact without a manifest counts as absent, one *)
(* that does not verify raises.                                            *)
(***************************************************************************)
Absent(d) == manifest[d] = None

Raises(d) == ~Absent(d) /\ ~Verified(d)

(* Exactly one of raw and canonical is there. *)
Partial(m) == Absent(Raw(m)) # Absent(Canonical(m))

EnsureMonth(p, m) ==
  /\ at[p] = "ensure"
  /\ m \in left[p]
  /\ UNCHANGED digest
  /\ \/ /\ Raises(Raw(m)) \/ Raises(Canonical(m)) \/ Partial(m)
        /\ Step(p, "failed")
        /\ UNCHANGED <<left, job, content, retrievals>>
     \/ /\ Verified(Raw(m))
        /\ Verified(Canonical(m))
        /\ left' = [left EXCEPT ![p] = @ \ {m}]
        /\ UNCHANGED <<at, job, content, retrievals>>
     \/ /\ Absent(Raw(m))
        /\ Absent(Canonical(m))
        /\ retrievals < MaxRetrievals
        /\ retrievals' = retrievals + 1
        /\ Writes(p, Raw(m), [bars |-> {retrievals'}, source |-> {}])
        /\ UNCHANGED left

(* The combined dataset is pending until every month is there. *)
Pending == \E m \in Months : Absent(Canonical(m))

(* The months put together, with the hashes of the datasets they come from. *)
Combination ==
  LET there == {Canonical(m) : m \in {n \in Months : ~Absent(Canonical(n))}}
  IN [bars |-> UNION {data[d].what.bars : d \in there},
      source |-> {manifest[d].what.sha256 : d \in there}]

(* Faulty: built as soon as a month is ensured, of the months there are. *)
TryBuildEarly(p) ==
  /\ at[p] = "ensure"
  /\ left[p] # Selected[p]
  /\ Absent(Combined)
  /\ \A m \in Months : ~Raises(Canonical(m))
  /\ Writes(p, Combined, Combination)
  /\ UNCHANGED <<left, digest, retrievals>>

TryBuildCombined(p) ==
  /\ at[p] = "ensure"
  /\ left[p] = {}
  /\ UNCHANGED <<left, digest, retrievals>>
  /\ \/ /\ \E m \in Months : Raises(Canonical(m))
        /\ Step(p, "failed")
        /\ UNCHANGED <<job, content>>
     \/ /\ \A m \in Months : ~Raises(Canonical(m))
        /\ Pending \/ Verified(Combined)
        /\ Step(p, "done")
        /\ UNCHANGED <<job, content>>
     \/ /\ \A m \in Months : ~Raises(Canonical(m))
        /\ ~Pending
        /\ Raises(Combined)
        /\ Step(p, "failed")
        /\ UNCHANGED <<job, content>>
     \/ /\ \A m \in Months : ~Raises(Canonical(m))
        /\ ~Pending
        /\ Absent(Combined)
        /\ Writes(p, Combined, Combination)

(***************************************************************************)
(* LocalParquetStore.write.                                                *)
(***************************************************************************)
(* Immutable: an existing data file or manifest is refused. *)
Exists(d) == data[d] # None \/ manifest[d] # None

Check(p) ==
  /\ at[p] = "check"
  /\ Step(p, IF Exists(job[p]) THEN "failed" ELSE "open data")
  /\ UNCHANGED <<data, manifest, newData, newManifest, digest>>

OpenData(p) ==
  /\ at[p] = "open data"
  /\ newData' = [newData EXCEPT ![job[p]] = Opened(p, content[p])]
  /\ Step(p, "close data")
  /\ UNCHANGED <<data, manifest, newManifest, digest>>

CloseData(p) ==
  /\ at[p] = "close data"
  /\ newData' = [newData EXCEPT ![job[p]] = Closed(p, @)]
  /\ data' = [data EXCEPT ![job[p]] = Closed(p, @)]
  /\ Step(p, "hash")
  /\ UNCHANGED <<manifest, newManifest, digest>>

(* The hash is taken of the temporary name, whoever wrote there last. *)
TakeHash(p) ==
  /\ at[p] = "hash"
  /\ UNCHANGED <<data, manifest, newData, newManifest>>
  /\ IF newData[job[p]] = None
     THEN Step(p, "failed") /\ UNCHANGED digest
     ELSE /\ digest' = [digest EXCEPT ![p] = Hash(newData[job[p]])]
          /\ Step(p, "open manifest")

OpenManifest(p) ==
  /\ at[p] = "open manifest"
  /\ newManifest' = [newManifest EXCEPT
       ![job[p]] = Opened(p, [sha256 |-> digest[p]])]
  /\ Step(p, "close manifest")
  /\ UNCHANGED <<data, manifest, newData, digest>>

CloseManifest(p) ==
  /\ at[p] = "close manifest"
  /\ newManifest' = [newManifest EXCEPT ![job[p]] = Closed(p, @)]
  /\ manifest' = [manifest EXCEPT ![job[p]] = Closed(p, @)]
  /\ Step(p, "replace data")
  /\ UNCHANGED <<data, newData, digest>>

ReplaceData(p) ==
  /\ at[p] = "replace data"
  /\ UNCHANGED <<manifest, newManifest, digest>>
  /\ IF newData[job[p]] = None
     THEN Step(p, "failed") /\ UNCHANGED <<data, newData>>
     ELSE /\ data' = [data EXCEPT ![job[p]] = newData[job[p]]]
          /\ newData' = [newData EXCEPT ![job[p]] = None]
          /\ Step(p, "replace manifest")

ReplaceManifest(p) ==
  /\ at[p] = "replace manifest"
  /\ UNCHANGED <<data, newData, digest>>
  /\ IF newManifest[job[p]] = None
     THEN Step(p, "failed") /\ UNCHANGED <<manifest, newManifest>>
     ELSE /\ manifest' = [manifest EXCEPT ![job[p]] = newManifest[job[p]]]
          /\ newManifest' = [newManifest EXCEPT ![job[p]] = None]
          /\ Step(p, "stored")

(* The canonical bars are derived from the retrieval just stored and name  *)
(* its hash; with them the month is ensured.                               *)
Stored(p) ==
  /\ at[p] = "stored"
  /\ UNCHANGED <<digest, retrievals>>
  /\ CASE job[p] = Combined ->
            Step(p, "done") /\ UNCHANGED <<left, job, content>>
       [] job[p] \in {Raw(m) : m \in Months} ->
            /\ Writes(p, Canonical(job[p][2]),
                      [bars |-> content[p].bars, source |-> {digest[p]}])
            /\ UNCHANGED left
       [] OTHER ->
            /\ left' = [left EXCEPT ![p] = @ \ {job[p][2]}]
            /\ Step(p, "ensure")
            /\ UNCHANGED <<job, content>>

StoreWrite(p) ==
  /\ \/ Check(p) \/ OpenData(p) \/ CloseData(p) \/ TakeHash(p)
     \/ OpenManifest(p) \/ CloseManifest(p)
     \/ ReplaceData(p) \/ ReplaceManifest(p)
  /\ UNCHANGED <<left, job, content, retrievals>>

DownloadRun(p) ==
  /\ \/ \E m \in Months : EnsureMonth(p, m)
     \/ TryBuildCombined(p)
     \/ Stored(p)
  /\ UNCHANGED <<data, manifest, newData, newManifest>>

-----------------------------------------------------------------------------
(***************************************************************************)
(* A study: LocalParquetStore.read of the combined dataset, then the       *)
(* manifest once more for the hash its evidence names.                     *)
(***************************************************************************)
Studied(s, next) == study' = [study EXCEPT ![s] = next]

StudyReadsManifest(s) ==
  /\ study[s].step = "manifest"
  /\ Studied(s,
       IF data[Combined] # None /\ Readable(manifest[Combined])
       THEN [study[s] EXCEPT !.step = "hash",
                             !.expected = manifest[Combined].what.sha256]
       ELSE [study[s] EXCEPT !.step = "failed"])

StudyVerifies(s) ==
  /\ study[s].step = "hash"
  /\ Studied(s, [study[s] EXCEPT
       !.step = IF study[s].expected = Hash(data[Combined])
                THEN "load" ELSE "failed"])

(* The data file is opened a second time to be parsed. *)
StudyLoads(s) ==
  /\ study[s].step = "load"
  /\ Studied(s,
       IF Readable(data[Combined])
       THEN [study[s] EXCEPT !.step = "name", !.frame = data[Combined].what]
       ELSE [study[s] EXCEPT !.step = "failed"])

StudyNames(s) ==
  /\ study[s].step = "name"
  /\ Studied(s,
       IF Readable(manifest[Combined])
       THEN [study[s] EXCEPT !.step = "evaluated",
                             !.lineage = manifest[Combined].what.sha256]
       ELSE [study[s] EXCEPT !.step = "failed"])

StudyStep(s) ==
  /\ \/ StudyReadsManifest(s) \/ StudyVerifies(s)
     \/ StudyLoads(s) \/ StudyNames(s)
  /\ UNCHANGED <<data, manifest, newData, newManifest, at, left, job,
                 content, digest, retrievals, kills, reruns>>

-----------------------------------------------------------------------------

Stopped == {"idle", "done", "failed", "killed"}

DownloaderKilled(p) ==
  /\ at[p] \notin Stopped
  /\ kills < MaxKills
  /\ kills' = kills + 1
  /\ Step(p, "killed")
  /\ UNCHANGED <<data, manifest, newData, newManifest, left, job, content,
                 digest, retrievals, study, reruns>>

Rerun(p) ==
  /\ at[p] \in Stopped \ {"idle"}
  /\ reruns < MaxReruns
  /\ reruns' = reruns + 1
  /\ Step(p, "ensure")
  /\ left' = [left EXCEPT ![p] = Selected[p]]
  /\ UNCHANGED <<data, manifest, newData, newManifest, job, content, digest,
                 retrievals, study, kills>>

StoreNext ==
  \/ \E p \in Downloaders :
       \/ (StoreWrite(p) \/ DownloadRun(p)) /\ UNCHANGED <<study, kills, reruns>>
       \/ DownloaderKilled(p)
       \/ Rerun(p)
  \/ \E s \in Studies : StudyStep(s)

StoreSpec == StoreInit /\ [][StoreNext]_storeVars

-----------------------------------------------------------------------------

(***************************************************************************)
(* Nothing keeps two runs from writing the same dataset at the same time:  *)
(* there is no lock, and the check that refuses an existing dataset is     *)
(* made long before the renames.  What holds only if they do not is stated *)
(* under one of these.                                                     *)
(***************************************************************************)
IsWriting(p, d) == at[p] \notin Stopped \cup {"ensure"} /\ job[p] = d

OneWriter(d) ==
  \A p, q \in Downloaders : IsWriting(p, d) /\ IsWriting(q, d) => p = q

(* From its retrieval to its canonical bars a month has one run. *)
OneRunPerMonth ==
  \A m \in Months : \A p, q \in Downloaders :
    /\ IsWriting(p, Raw(m)) \/ IsWriting(p, Canonical(m))
    /\ IsWriting(q, Raw(m)) \/ IsWriting(q, Canonical(m))
    => p = q

(* A data file that is in its place and complete never changes again:      *)
(* local_store.py promises to store a dataset exactly once.  Two ordinary  *)
(* runs break it: both find a month absent and pass the check, the second  *)
(* renames its own retrieval over the one the first has published.         *)
StoredOnce ==
  [][\A d \in Datasets :
       Readable(data[d]) => /\ Readable(data'[d])
                            /\ data'[d].what = data[d].what]_storeVars

(* The canonical month on disk, its manifest and the raw month agree: both *)
(* come from one retrieval and the canonical one names the raw hash.       *)
OneRetrieval(m) ==
  /\ Verified(Raw(m))
  /\ Verified(Canonical(m))
  /\ data[Canonical(m)].what.bars = data[Raw(m)].what.bars
  /\ data[Canonical(m)].what.source = {manifest[Raw(m)].what.sha256}

(* A study that got through its checks has evaluated the bars of every     *)
(* month, each from one retrieval whose raw bars are stored beside them:   *)
(* kills, reruns and runs that build the combined dataset at the same time *)
(* under the same temporary names never show it anything else, provided no *)
(* two runs write the same month at the same time (OneRunPerMonth).        *)
StudyEvaluatesTheMonths ==
  \A s \in Studies : study[s].step = "evaluated" =>
    /\ \A m \in Months : OneRetrieval(m)
    /\ study[s].frame.bars =
         UNION {data[Canonical(m)].what.bars : m \in Months}
    /\ study[s].frame.source = {manifest[Canonical(m)].what.sha256 : m \in Months}

=============================================================================
