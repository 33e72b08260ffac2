---------------------------- MODULE CampaignAudit ----------------------------
(***************************************************************************)
(* A reader of the campaign directory beside the campaign: the audit and   *)
(* the loader of execution records (day22_campaign_report.py), which later *)
(* analysis takes its round trips from.  It takes no lock, so a scheduler  *)
(* may write between any two of its reads, and it reads the ledger three   *)
(* times.                                                                  *)
(*                                                                         *)
(* A bundle holds an execution record for each filled leg that had a       *)
(* quote.  An entry always has one; the quote of a flatten may be missing  *)
(* or stale, which does not stop it.  Bundles never change, so it does not *)
(* matter when each of their files is read.                                *)
(***************************************************************************)
EXTENDS Campaign

VARIABLES
  quoted,   \* slots whose flatten had a fresh quote
  orphans,  \* slots whose attempt died between bundle and ledger (history)
  reader    \* the reader: its step, the bundles the ledger it read refers to,
            \* the slots whose records it returned

auditVars == <<vars, quoted, orphans, reader>>

\* `watched' is history: did a scheduler hold the lock since the first read?
NoReader == [step |-> "idle", expected |-> {}, records |-> {},
             watched |-> FALSE]

AuditInit == Init /\ quoted = {} /\ orphans = {} /\ reader = NoReader

-----------------------------------------------------------------------------
(* The campaign, and what it leaves in the bundles *)

DiesBeforeFinalizing == At("finalize") /\ proc'[lock] = "dead"

CampaignStep ==
  /\ Next
  /\ quoted' \in IF At("flatten") /\ job'.step = "await"
                 THEN {quoted, quoted \cup {Slot}} ELSE {quoted}
  /\ orphans' = IF DiesBeforeFinalizing THEN orphans \cup {Slot} ELSE orphans
  /\ reader' = [reader EXCEPT
       !.watched = @ \/ (reader.step = "list" /\ lock' # Nobody)]

Records(s) ==
  {leg \in Legs : bundles[s][leg] > 0 /\ (leg = "exit" => s \in quoted)}

-----------------------------------------------------------------------------
(* The reader *)

(* Faulty: only completed slots are expected to have a bundle. *)
ReferencedIfCompleted(l) ==
  {s \in Slots : l.rows[s].referenced
                 /\ l.rows[s].status = "completed_reconciled"}

Referenced(l) == {s \in Slots : l.rows[s].referenced}

Loadable(l) == {s \in Slots : l.rows[s].status = "completed_reconciled"}

Published == {s \in Slots : bundles[s] # NoBundle}

Ends(outcome) == reader' = [NoReader EXCEPT !.step = outcome]

\* audit_live_campaign, the ledger it goes by.
ReadState ==
  /\ reader.step = "idle"
  /\ IF ledger = Absent \/ ~Valid(ledger)
     THEN Ends("unreadable")
     ELSE reader' = [reader EXCEPT !.step = "list",
                                   !.expected = Referenced(ledger),
                                   !.watched = lock # Nobody]

\* ... its bundles, the directories there are, and the ledger again.
ListBundles ==
  /\ reader.step = "list"
  /\ reader' = [reader EXCEPT
       !.step = IF Published = reader.expected /\ Valid(ledger)
                THEN "load" ELSE "refused",
       !.expected = {}]

\* load_reconciled_execution_records, after the audit.
LoadRecords ==
  /\ reader.step = "load"
  /\ IF \A s \in Loadable(ledger) : Records(s) = Legs
     THEN reader' = [NoReader EXCEPT !.step = "loaded",
                                     !.records = Loadable(ledger)]
     ELSE Ends("incomplete")

ReaderStep ==
  /\ ReadState \/ ListBundles \/ LoadRecords
  /\ UNCHANGED <<vars, quoted, orphans>>

AuditNext == CampaignStep \/ ReaderStep

AuditSpec == AuditInit /\ [][AuditNext]_auditVars

\* Nobody is obliged to read.
AuditFairSpec == AuditSpec /\ Fairness

-----------------------------------------------------------------------------
(* Properties *)

\* The round trips a reader returns took place and are over: the broker filled
\* both legs alike and nothing of them is in the market, though the ledger it
\* loads from is not the one it has audited and may have changed since.
LoadedIsTrue ==
  reader.step = "loaded" =>
    \A s \in reader.records :
      /\ orders[s]["entry"].filled > 0
      /\ bundles[s].entry = orders[s]["entry"].filled
      /\ ~AtRisk(s)

\* An audit is refused for one of two reasons only, an attempt that died
\* between its bundle and the ledger, or a scheduler at work while the audit
\* looked: skipped, missed and latched slots are no reason.  And the loader
\* gives nothing after an audit only if the flatten of a completed slot had no
\* quote, which keeps back the records of all the others.
RefusedForAReason ==
  /\ reader.step = "refused" => reader.watched \/ orphans # {}
  /\ reader.step = "incomplete" => ~(Loadable(ledger) \subseteq quoted)

=============================================================================
