--------------------------------- MODULE Export ---------------------------------
(***************************************************************************)
(* writeExport of experiments/baseline/collect.ts: three files and then a   *)
(* complete.json naming their digests, written into a directory created for *)
(* this export, which a power loss may interrupt anywhere.  A name is       *)
(* "absent", "open" (created, bytes not synced) or "whole"; the directory   *)
(* on disk is the one of its last sync (EvidenceRecords says more), and is  *)
(* itself on disk for certain once its parent was synced.  The single       *)
(* records and the exports share no state; both must outlive power.         *)
(***************************************************************************)
EXTENDS Sequences, EvidenceRecords

VARIABLES exported,      \* the directory's files, as a reader sees them
          exportSynced,  \* the names that are in the directory on disk
          exporting,     \* the step of ExportSteps writeExport takes next
          exportState    \* "writing", "returned" or "failed"

exportVars == <<exported, exportSynced, exporting, exportState>>

Contents == {"private-records.json", "public-summary.json", "public-summary.csv"}
Exported == Contents \cup {"complete.json"}

ExportSteps ==
    <<"private-records.json", "public-summary.json", "public-summary.csv", "directory",
      "complete.json", "directory", "parent">>

ExportInit ==
    /\ exported = [f \in Exported |-> "absent"] /\ exportSynced = {}
    /\ exporting = 1 /\ exportState = "writing"

Writing(step) ==
    exportState = "writing" /\ exporting <= Len(ExportSteps) /\ ExportSteps[exporting] = step

\* verifyWritten: what was written before is still there and whole.
VerifyWritten == \A i \in 1..exporting - 1 :
    ExportSteps[i] \in Exported => exported[ExportSteps[i]] = "whole"

OpenFile(f) ==
    /\ Writing(f) /\ exported[f] = "absent" /\ VerifyWritten
    /\ exported' = [exported EXCEPT ![f] = "open"]
    /\ UNCHANGED <<exportSynced, exporting, exportState>>
SyncExported(f) ==
    /\ Writing(f) /\ exported[f] = "open"
    /\ exported' = [exported EXCEPT ![f] = "whole"]
    /\ exporting' = exporting + 1
    /\ UNCHANGED <<exportSynced, exportState>>
SyncExport ==
    /\ Writing("directory") /\ VerifyWritten
    /\ exportSynced' = {f \in Exported : exported[f] # "absent"}
    /\ exporting' = exporting + 1
    /\ UNCHANGED <<exported, exportState>>
SyncParent ==
    /\ Writing("parent") /\ exporting' = exporting + 1
    /\ UNCHANGED <<exported, exportSynced, exportState>>
ParentSynced == \E i \in 1..exporting - 1 : ExportSteps[i] = "parent"
Acknowledge ==
    /\ exportState = "writing" /\ exporting > Len(ExportSteps) /\ VerifyWritten
    /\ exportState' = "returned"
    /\ UNCHANGED <<exported, exportSynced, exporting>>

\* A failing call leaves what is there; the next export takes another directory.
FailExport ==
    /\ exportState = "writing" /\ exportState' = "failed"
    /\ UNCHANGED <<exported, exportSynced, exporting>>
LosePower ==
    /\ exportState' = IF exportState = "returned" THEN "returned" ELSE "failed"
    /\ \E kept \in SUBSET Exported :
        /\ exportSynced \subseteq kept \/ (~ParentSynced /\ kept = {})
        /\ exported' = [f \in Exported |-> IF f \in kept THEN exported[f] ELSE "absent"]
        /\ exportSynced' = exportSynced \cap kept
    /\ UNCHANGED exporting

ExportNext ==
    \/ \E f \in Exported : OpenFile(f) \/ SyncExported(f)
    \/ SyncExport \/ SyncParent \/ Acknowledge \/ FailExport \/ LosePower

(***************************************************************************)
(* complete.json is never found without the files it names, not even after  *)
(* a power loss in the middle of the export, and an export that returned    *)
(* stays whole (writeExport syncs the directory before complete.json is     *)
(* written and again before it returns, and its parent last).               *)
(***************************************************************************)
CompleteExportIsWhole ==
    /\ exported["complete.json"] = "whole" => \A f \in Contents : exported[f] = "whole"
    /\ exportState = "returned" => \A f \in Exported : exported[f] = "whole"

\* What a program acknowledged or marked complete on disk is whole, whatever other writers
\* and power losses did (writeRecord, persistImmutable, writeExport).
DurableIsWhole == AcknowledgedIsReadable /\ CompleteExportIsWhole
=============================================================================
