--------------------------- MODULE ExtractionProofs ---------------------------
(***************************************************************************)
(* What holds of the catalog between any two writes of an extraction, for  *)
(* every game, every number of runs and every failure or crash: types,     *)
(* that complete resources have exactly their rows, that lines without     *)
(* details do not outlast a run that ended well, that details are kept,    *)
(* and that readers see each resource whole or not at all (CatalogView).   *)
(*                                                                         *)
(* None of it is inductive.  The invariant says besides what a command     *)
(* knows at each of its writes: what it has yet to dump exists and may be  *)
(* dumped (Targets), what it is about to store is pending (Claimed), which *)
(* of its rows are written (Written), and that what it is done with is     *)
(* complete, or failed and without rows (Swept).                           *)
(*                                                                         *)
(* The values of pc are typed on their own, so that modules which add      *)
(* commands to Next can use the rest.                                      *)
(***************************************************************************)
EXTENDS Extraction, SequenceTheorems, TLAPS

Labels == {"idle", "bulk", "inventory", "discard", "select", "extract", "pend", "upsert",
           "prune", "store", "finish"}
Dumping == {"extract", "pend"}
Storing == {"upsert", "prune", "store"}
Cataloguing == {"inventory", "discard", "select"} \cup Dumping \cup Storing

(* The tables and the locals are typed.                                    *)
TablesTyped ==
  /\ runs \in Seq(RunRecord) /\ Run <= MaxRuns
  /\ parents \in [Resources -> ParentRecord \cup {None}]
  /\ rows \in [Children -> RunId \cup {None}]
  /\ DOMAIN bulk = Bulks
  /\ \A k \in Bulks : bulk[k] \in [1..BulkTables[k] -> RunId \cup {None}]

LocalsTyped ==
  /\ table \in Nat \ {0} /\ refresh \in BOOLEAN /\ failed \in BOOLEAN
  /\ discarded \subseteq Resources /\ todo \subseteq Resources
  /\ batch \subseteq Resources /\ failures \subseteq Resources
  /\ found \in [Resources -> SUBSET Children]

(* A command works for the last run, which is open until it ends.          *)
Busy ==
  /\ pc # "idle" => Run \in RunId /\ runs[Run].status = "running"
  /\ pc \in Cataloguing => Kind \in Catalogs

(* Resources of other kinds are not touched, none is handled twice, and no *)
(* list outlasts its use.                                                  *)
Confined ==
  /\ pc \notin Dumping \cup Storing => todo = {} /\ Requested = {}
  /\ pc \in Dumping \cup Storing => todo \cup Requested \subseteq Of(Kind)
  /\ pc = "discard" => discarded \subseteq Of(Kind)
  /\ todo \cap Requested = {} /\ batch \cap failures = {}
  /\ pc \notin {"bulk", "discard", "upsert", "prune"} => table = 1

MayBeDumped(r) == parents[r] # None /\ (refresh \/ ~Complete(r))

Targets ==
  /\ pc \in Dumping => \A r \in todo \cup Requested : MayBeDumped(r)
  /\ pc \in Storing => \A r \in todo : MayBeDumped(r)

IsPending(r) == parents[r] \in ParentRecord /\ parents[r].status = "pending"

(* What is written over is not complete.                                   *)
Claimed ==
  /\ pc = "discard" => \A r \in discarded : ~Complete(r)
  /\ pc \in Storing => \A r \in Requested : IsPending(r)

(* What a batch leaves of a row.                                           *)
Wanted(c) == IF ParentOf[c] \in batch /\ c \in found[ParentOf[c]] THEN Run ELSE None

(* The rows of a batch are written table by table.                         *)
Written ==
  pc \in Storing =>
    \A c \in Children : ParentOf[c] \in Requested =>
      /\ pc = "store" \/ TableOf[c] < table => rows[c] = Wanted(c)
      /\ pc = "prune" /\ TableOf[c] = table /\ Wanted(c) # None => rows[c] = Wanted(c)

(* What a dialogue run has dealt with, or did not select, is complete, or  *)
(* failed and without lines.                                               *)
Swept ==
  pc \in Dumping \cup Storing \cup {"finish"} /\ Kind = "dialogues" =>
    \A r \in Of(Kind) \ (todo \cup Requested) : parents[r] # None /\ ~Complete(r) =>
      failed /\ \A c \in Own(r) : rows[c] = None

IInv ==
  /\ TablesTyped /\ LocalsTyped /\ Busy /\ Confined /\ Targets /\ Claimed /\ Written
  /\ CompleteHasItsRows /\ Swept /\ NoLinesWithoutDetails /\ CompleteRunLeavesNone

-----------------------------------------------------------------------------
(* What the commands have in common                                        *)

Starts(k, root) ==
  /\ StartRun(k, root)
  /\ \/ k \in Bulks /\ pc' = "bulk" /\ UNCHANGED refresh
     \/ k \in Catalogs /\ pc' = "inventory" /\ refresh' \in BOOLEAN

Replaces == ReplaceTable /\ failed' \in BOOLEAN /\ Kind # "dialogues"

Selects(targets) ==
  /\ SelectTargets(targets)
  /\ \A r \in targets : Target(r)
  /\ Kind = "dialogues" => targets = {r \in Of(Kind) : Target(r)}

Cases ==
  \/ \E k \in Kinds, root \in Roots : Starts(k, root)
  \/ FinishRun \/ FailRun \/ Die \/ Replaces
  \/ \E inventory \in SUBSET Of(Kind) : \E identityOf \in [inventory -> Identities] :
       StoreInventory(inventory, identityOf)
  \/ DeleteDiscarded
  \/ \E targets \in SUBSET Of(Kind) : Selects(targets)
  \/ \E r \in Resources : DumpFails(r) \/ \E C \in SUBSET Own(r) : DumpSucceeds(r, C)
  \/ MarkPending \/ UpsertChildren \/ DeleteStaleChildren \/ StoreDetails

(* A step is one of these, whatever the kind of the command.               *)
LEMMA StepCases == ASSUME Next, failed \in BOOLEAN PROVE Cases
<1>1. ASSUME NEW root \in Roots, Command(root)
      PROVE \E k \in Kinds : Starts(k, root)
  <2>1. CASE ExtractMetadata(root) \/ ExtractPortraits(root) \/ ExtractReadableItems(root)
    BY <2>1 DEF ExtractMetadata, ExtractPortraits, ExtractReadableItems, StartBulk, Starts, Kinds
  <2>2. CASE \E refreshed \in BOOLEAN :
               ExtractCharacters(root, refreshed) \/ ExtractDialogues(root, refreshed)
    BY <2>2 DEF ExtractCharacters, ExtractDialogues, RunExtraction, Starts, Kinds
  <2> QED
    BY <1>1, <2>1, <2>2 DEF Command
<1>2. CASE ReplaceMetadata \/ ReplacePortraits \/ ReplaceReadableItems
  <2>1. Replaces
    BY <1>2 DEF ReplaceMetadata, ReplacePortraits, ReplaceReadableItems, Replaces
  <2> QED
    BY <2>1 DEF Cases
<1>3. ASSUME NEW inventory \in SUBSET Of(Kind), NEW identityOf \in [inventory -> Identities],
             ReplaceInventory(inventory, identityOf)
               \/ ReplaceDialogueInventory(inventory, identityOf)
      PROVE Cases
  <2>1. StoreInventory(inventory, identityOf)
    BY <1>3 DEF ReplaceInventory, ReplaceDialogueInventory
  <2> QED
    BY <2>1 DEF Cases
<1>4. ASSUME NEW details \in BOOLEAN, DetailTargets(details)
      PROVE Cases
  <2>1. Selects({r \in Of(Kind) : details /\ Target(r)})
    BY <1>4 DEF DetailTargets, Selects
  <2> QED
    BY <2>1 DEF Cases
<1>5. CASE DialogueTargets
  <2>1. Selects({r \in Of(Kind) : Target(r)})
    BY <1>5 DEF DialogueTargets, Selects
  <2> QED
    BY <2>1 DEF Cases
<1>6. CASE \/ \E r \in Resources : DumpFails(r) \/ \E C \in SUBSET Own(r) : DumpSucceeds(r, C)
           \/ DeleteDiscarded \/ FinishRun
  BY <1>6 DEF Cases
<1>7. CASE ApplyDetailBatch \/ ApplyDialogueBatch
  BY <1>7 DEF ApplyDetailBatch, ApplyDialogueBatch, BatchWrite, Cases
<1>8. Write => Cases
  BY <1>2, <1>3, <1>4, <1>5, <1>6, <1>7 DEF Write
<1> QED
  BY <1>1, <1>8 DEF Next, Cases

-----------------------------------------------------------------------------
(* extraction_runs                                                         *)

(* start_run adds a run that is open; earlier ones stay as they are.       *)
LEMMA RunStarted ==
  ASSUME TablesTyped, NEW k \in Kinds, NEW root \in Roots, Starts(k, root)
  PROVE  /\ runs' \in Seq(RunRecord) /\ Run' = Run + 1 /\ Run' \in RunId /\ Run' <= MaxRuns
         /\ Run \in Nat
         /\ Kind' = k /\ runs'[Run'].status = "running"
         /\ \A n \in 1..Run : runs'[n] = runs[n]
<1> DEFINE new == [kind |-> k, root |-> root, status |-> "running"]
<1>1. new \in RunRecord
  BY DEF RunRecord, Statuses
<1>2. runs \in Seq(RunRecord) /\ runs' = Append(runs, new) /\ Run < MaxRuns
  BY DEF TablesTyped, Starts, StartRun
<1> HIDE DEF new
<1>3. /\ runs' \in Seq(RunRecord) /\ Len(runs') = Len(runs) + 1
      /\ \A n \in 1..Len(runs) : runs'[n] = runs[n]
      /\ runs'[Len(runs) + 1] = new
  BY <1>1, <1>2, AppendProperties
<1>4. Len(runs) \in Nat
  BY <1>2, LenProperties
<1> QED
  BY <1>2, <1>3, <1>4, ConstantsAssumption DEF Run, RunId, Kind, new

(* finish_run changes the status of the last run and nothing else.         *)
LEMMA RunFinished ==
  ASSUME TablesTyped, Run \in RunId, NEW status \in Statuses, SetStatus(status)
  PROVE  /\ runs' \in Seq(RunRecord) /\ Run' = Run /\ Run \in Nat /\ Run \in 1..Run
         /\ runs'[Run].status = status
         /\ \A n \in 1..Run : runs'[n].kind = runs[n].kind
         /\ \A n \in 1..Run : n # Run => runs'[n] = runs[n]
<1> DEFINE new == [runs[Run] EXCEPT !.status = status]
<1>1. runs \in Seq(RunRecord) /\ Run \in 1..Len(runs) /\ Run \in Nat
  BY ConstantsAssumption DEF TablesTyped, RunId, Run
<1>2. runs[Run] \in RunRecord
  BY <1>1, ElementOfSeq
<1>3. new \in RunRecord /\ new.kind = runs[Run].kind /\ new.status = status
  BY <1>2 DEF RunRecord
<1>4. runs' = [runs EXCEPT ![Run] = new]
  BY DEF SetStatus
<1> HIDE DEF new
<1>5. /\ runs' \in Seq(RunRecord) /\ Len(runs') = Len(runs)
      /\ \A n \in 1..Len(runs) : runs'[n] = IF n = Run THEN new ELSE runs[n]
  BY <1>1, <1>3, <1>4, ExceptSeq
<1> QED
  BY <1>1, <1>3, <1>5 DEF Run

-----------------------------------------------------------------------------
(* Each part of the invariant                                              *)

(* A command that ends forgets what it knew.                               *)
LEMMA IdleTyped == ASSUME Idle PROVE LocalsTyped'
<1>1. found' \in [Resources -> SUBSET Children]
  BY DEF Idle
<1>2. table' \in Nat \ {0}
  BY DEF Idle
<1>3. refresh' \in BOOLEAN /\ failed' \in BOOLEAN
  BY Zenon DEF Idle
<1> QED
  BY <1>1, <1>2, <1>3 DEF Idle, LocalsTyped

(* Records are well formed: a complete record is never stored as failed    *)
(* (validate_state refuses one with details), and nothing that is absent   *)
(* is reset or stored.                                                     *)
LEMMA TypesKept ==
  ASSUME TablesTyped, LocalsTyped, Busy, Targets, Claimed, Cases
  PROVE  TablesTyped' /\ LocalsTyped'
<1>1. ASSUME NEW k \in Kinds, NEW root \in Roots, Starts(k, root)
      PROVE TablesTyped' /\ LocalsTyped'
  BY <1>1, RunStarted DEF Starts, StartRun, TablesTyped, LocalsTyped
<1>2. CASE FinishRun
  <2>1. PICK status \in Statuses : Run \in RunId /\ SetStatus(status)
    BY <1>2 DEF FinishRun, Busy, Statuses
  <2>2. runs' \in Seq(RunRecord) /\ Run' = Run
    BY <2>1, RunFinished
  <2> QED
    BY <1>2, <2>2, IdleTyped DEF FinishRun, TablesTyped
<1>3. CASE FailRun
  <2>1. Run \in RunId /\ SetStatus("failed") /\ "failed" \in Statuses
    BY <1>3 DEF FailRun, Busy, Statuses
  <2>2. runs' \in Seq(RunRecord) /\ Run' = Run
    BY <2>1, RunFinished
  <2> QED
    BY <1>3, <2>2, IdleTyped DEF FailRun, TablesTyped
<1>4. CASE Die
  BY <1>4, IdleTyped DEF Die, tables, TablesTyped, Run
<1>5. CASE Replaces
  <2>1. Run \in RunId /\ pc = "bulk"
    BY <1>5 DEF Replaces, ReplaceTable, Busy
  <2>2. bulk' = [bulk EXCEPT ![Kind][table] = Run]
    BY <1>5 DEF Replaces, ReplaceTable
  <2>3. DOMAIN bulk' = Bulks /\ \A k \in Bulks : bulk'[k] \in [1..BulkTables[k] -> RunId \cup {None}]
    BY <2>1, <2>2 DEF TablesTyped
  <2> QED
    BY <1>5, <2>3 DEF Replaces, ReplaceTable, TablesTyped, LocalsTyped, Run
<1>6. ASSUME NEW inventory \in SUBSET Of(Kind), NEW identityOf \in [inventory -> Identities],
             StoreInventory(inventory, identityOf)
      PROVE TablesTyped' /\ LocalsTyped'
  <2>1. Run \in RunId
    BY <1>6 DEF StoreInventory, Busy
  <2>2. parents' \in [Resources -> ParentRecord \cup {None}]
    BY <1>6, <2>1 DEF StoreInventory, TablesTyped, Pending, ParentRecord
  <2> QED
    BY <1>6, <2>2 DEF StoreInventory, TablesTyped, LocalsTyped, Run, Of
<1>7. CASE DeleteDiscarded
  BY <1>7 DEF DeleteDiscarded, TablesTyped, LocalsTyped, Run
<1>8. ASSUME NEW targets \in SUBSET Of(Kind), Selects(targets)
      PROVE TablesTyped' /\ LocalsTyped'
  BY <1>8 DEF Selects, SelectTargets, TablesTyped, LocalsTyped, Run, Of
<1>9. ASSUME NEW r \in Resources, DumpFails(r)
      PROVE TablesTyped' /\ LocalsTyped'
  BY <1>9 DEF DumpFails, Completed, TablesTyped, LocalsTyped, Run
<1>10. ASSUME NEW r \in Resources, NEW C \in SUBSET Own(r), DumpSucceeds(r, C)
       PROVE TablesTyped' /\ LocalsTyped'
  BY <1>10 DEF DumpSucceeds, Completed, TablesTyped, LocalsTyped, Run, Own
<1>11. CASE MarkPending
  <2>1. Run \in RunId
    BY <1>11 DEF MarkPending, Busy
  <2>2. \A r \in Requested : parents[r] \in ParentRecord
    BY <1>11 DEF MarkPending, Targets, Dumping, MayBeDumped, TablesTyped, LocalsTyped, Requested
  <2>3. \A r \in Requested : Reset(r) \in ParentRecord
    BY <2>1, <2>2 DEF Reset, Pending, ParentRecord
  <2> QED
    BY <1>11, <2>3 DEF MarkPending, TablesTyped, LocalsTyped, Run
<1>12. CASE UpsertChildren
  <2>1. Run \in RunId
    BY <1>12 DEF UpsertChildren, Busy
  <2> QED
    BY <1>12, <2>1 DEF UpsertChildren, TablesTyped, LocalsTyped, Run
<1>13. CASE DeleteStaleChildren
  BY <1>13 DEF DeleteStaleChildren, TablesTyped, LocalsTyped, Run
<1>14. CASE StoreDetails
  <2>1. Run \in RunId /\ \A r \in Requested : IsPending(r)
    BY <1>14 DEF StoreDetails, Busy, Claimed, Storing
  <2>2. ASSUME NEW r \in batch
        PROVE [identity |-> parents[r].identity, status |-> "complete", run |-> Run, detail |-> found[r]]
                \in ParentRecord
    BY <2>1 DEF IsPending, ParentRecord, Requested, LocalsTyped
  <2>3. ASSUME NEW r \in failures
        PROVE [parents[r] EXCEPT !.status = "failed"] \in ParentRecord
    BY <2>1 DEF IsPending, ParentRecord, Requested, LocalsTyped
  <2>4. parents' \in [Resources -> ParentRecord \cup {None}]
    BY <1>14, <2>2, <2>3 DEF StoreDetails, TablesTyped
  <2> QED
    BY <1>14, <2>4 DEF StoreDetails, TablesTyped, LocalsTyped, Run
<1> QED
  BY <1>1, <1>2, <1>3, <1>4, <1>5, <1>6, <1>7, <1>8, <1>9, <1>10, <1>11, <1>12, <1>13, <1>14
     DEF Cases

(* What a step that ends a command does.                                   *)
LEMMA CommandEnded ==
  ASSUME FinishRun \/ FailRun \/ Die
  PROVE  Idle /\ UNCHANGED <<parents, rows>>
BY DEF FinishRun, FailRun, Die, tables

(* A command works for its own run, and an inventory for its own kind.     *)
LEMMA BusyKept ==
  ASSUME TablesTyped, Busy, Cases
  PROVE  Busy'
<1>1. ASSUME NEW k \in Kinds, NEW root \in Roots, Starts(k, root)
      PROVE Busy'
  BY <1>1, RunStarted DEF Starts, Busy, Cataloguing, Dumping, Storing
<1>2. CASE FinishRun \/ FailRun \/ Die
  BY <1>2, CommandEnded DEF Idle, Busy, Cataloguing, Dumping, Storing
<1>3. CASE Replaces
  BY <1>3 DEF Replaces, ReplaceTable, Busy, Cataloguing, Dumping, Storing, Run
<1>4. ASSUME NEW inventory \in SUBSET Of(Kind), NEW identityOf \in [inventory -> Identities],
             StoreInventory(inventory, identityOf)
      PROVE Busy'
  BY <1>4 DEF StoreInventory, Busy, Cataloguing, Dumping, Storing, Kind, Run
<1>5. CASE DeleteDiscarded
  BY <1>5 DEF DeleteDiscarded, Busy, Cataloguing, Dumping, Storing, Kind, Run
<1>6. ASSUME NEW targets \in SUBSET Of(Kind), Selects(targets)
      PROVE Busy'
  BY <1>6 DEF Selects, SelectTargets, Busy, Cataloguing, Dumping, Storing, Kind, Run
<1>7. ASSUME NEW r \in Resources, DumpFails(r) \/ \E C \in SUBSET Own(r) : DumpSucceeds(r, C)
      PROVE Busy'
  BY <1>7 DEF DumpFails, DumpSucceeds, Completed, Busy, Cataloguing, Dumping, Storing, Kind, Run
<1>8. CASE MarkPending \/ UpsertChildren \/ DeleteStaleChildren \/ StoreDetails
  BY <1>8 DEF MarkPending, UpsertChildren, DeleteStaleChildren, StoreDetails,
              Busy, Cataloguing, Dumping, Storing, Kind, Run
<1> QED
  BY <1>1, <1>2, <1>3, <1>4, <1>5, <1>6, <1>7, <1>8 DEF Cases

(* A command handles resources of its own kind, each at most once.         *)
LEMMA ConfinedKept ==
  ASSUME TablesTyped, LocalsTyped, Busy, Confined, Cases
  PROVE  Confined'
<1>1. ASSUME NEW k \in Kinds, NEW root \in Roots, Starts(k, root)
      PROVE Confined'
  BY <1>1 DEF Starts, StartRun, Confined, Requested, Dumping, Storing
<1>2. CASE FinishRun \/ FailRun \/ Die
  BY <1>2, CommandEnded DEF Idle, Confined, Requested, Dumping, Storing
<1>3. CASE Replaces
  BY <1>3 DEF Replaces, ReplaceTable, Confined, Requested, Dumping, Storing
<1>4. ASSUME NEW inventory \in SUBSET Of(Kind), NEW identityOf \in [inventory -> Identities],
             StoreInventory(inventory, identityOf)
      PROVE Confined'
  BY <1>4 DEF StoreInventory, Confined, Requested, Dumping, Storing, Kind, Run, Of
<1>5. CASE DeleteDiscarded
  BY <1>5 DEF DeleteDiscarded, Confined, Requested, Dumping, Storing, Kind, Run, Of
<1>6. ASSUME NEW targets \in SUBSET Of(Kind), Selects(targets)
      PROVE Confined'
  BY <1>6 DEF Selects, SelectTargets, Confined, Requested, Dumping, Storing, Kind, Run, Of
<1>7. ASSUME NEW r \in Resources, DumpFails(r) \/ \E C \in SUBSET Own(r) : DumpSucceeds(r, C)
      PROVE Confined'
  BY <1>7 DEF DumpFails, DumpSucceeds, Completed, Confined, Requested, Dumping, Storing, Kind, Run, Of
<1>8. CASE MarkPending \/ UpsertChildren
  BY <1>8 DEF MarkPending, UpsertChildren, Confined, Requested, Dumping, Storing, Kind, Run, Of
<1>9. CASE DeleteStaleChildren
  BY <1>9 DEF DeleteStaleChildren, Confined, Requested, Dumping, Storing, Kind, Run, Of
<1>10. CASE StoreDetails
  BY <1>10 DEF StoreDetails, Confined, Requested, Dumping, Storing, Kind, Run, Of
<1> QED
  BY <1>1, <1>2, <1>3, <1>4, <1>5, <1>6, <1>7, <1>8, <1>9, <1>10 DEF Cases

(* What is yet to be dumped is not touched by the batches before it.       *)
LEMMA TargetsKept ==
  ASSUME TablesTyped, LocalsTyped, Confined, Targets, Cases
  PROVE  Targets'
<1>1. ASSUME NEW k \in Kinds, NEW root \in Roots, Starts(k, root)
      PROVE Targets'
  BY <1>1 DEF Starts, Targets, Dumping, Storing
<1>2. CASE FinishRun \/ FailRun \/ Die
  BY <1>2, CommandEnded DEF Idle, Targets, Dumping, Storing
<1>3. CASE Replaces
  BY <1>3 DEF Replaces, ReplaceTable, Targets, Dumping, Storing
<1>4. ASSUME NEW inventory \in SUBSET Of(Kind), NEW identityOf \in [inventory -> Identities],
             StoreInventory(inventory, identityOf)
      PROVE Targets'
  BY <1>4 DEF StoreInventory, Targets, Dumping, Storing
<1>5. CASE DeleteDiscarded
  BY <1>5 DEF DeleteDiscarded, Targets, Dumping, Storing
<1>6. ASSUME NEW targets \in SUBSET Of(Kind), Selects(targets)
      PROVE Targets'
  BY <1>6 DEF Selects, SelectTargets, Confined, Targets, Dumping, Storing, Requested, Target,
              MayBeDumped, Complete
<1>7. ASSUME NEW r \in Resources, DumpFails(r) \/ \E C \in SUBSET Own(r) : DumpSucceeds(r, C)
      PROVE Targets'
  BY <1>7 DEF DumpFails, DumpSucceeds, Completed, Targets, Dumping, Storing, Requested,
              MayBeDumped, Complete
<1>8. CASE MarkPending
  <2>1. \A r \in todo : parents'[r] = parents[r]
    BY <1>8 DEF MarkPending, Confined, LocalsTyped
  <2> QED
    BY <1>8, <2>1 DEF MarkPending, Targets, Dumping, Storing, MayBeDumped, Complete
<1>9. CASE UpsertChildren \/ DeleteStaleChildren
  BY <1>9 DEF UpsertChildren, DeleteStaleChildren, Targets, Dumping, Storing, MayBeDumped, Complete
<1>10. CASE StoreDetails
  <2>1. \A r \in todo : parents'[r] = parents[r]
    BY <1>10 DEF StoreDetails, Confined, LocalsTyped, Requested
  <2> QED
    BY <1>10, <2>1 DEF StoreDetails, Targets, Dumping, Storing, MayBeDumped, Complete, Requested
<1> QED
  BY <1>1, <1>2, <1>3, <1>4, <1>5, <1>6, <1>7, <1>8, <1>9, <1>10 DEF Cases

(* Before rows go or change, what they belong to no longer counts as       *)
(* complete.                                                               *)
LEMMA ClaimedKept ==
  ASSUME TablesTyped, LocalsTyped, Busy, Targets, Claimed, Cases
  PROVE  Claimed'
<1>1. ASSUME NEW k \in Kinds, NEW root \in Roots, Starts(k, root)
      PROVE Claimed'
  BY <1>1 DEF Starts, Claimed, Storing
<1>2. CASE FinishRun \/ FailRun \/ Die
  BY <1>2, CommandEnded DEF Idle, Claimed, Storing
<1>3. CASE Replaces
  BY <1>3 DEF Replaces, ReplaceTable, Claimed, Storing
<1>4. ASSUME NEW inventory \in SUBSET Of(Kind), NEW identityOf \in [inventory -> Identities],
             StoreInventory(inventory, identityOf)
      PROVE Claimed'
  <2>1. \A r \in discarded' : parents'[r] = None \/ parents'[r].status = "pending"
    BY <1>4 DEF StoreInventory, Pending, Of
  <2> QED
    BY <1>4, <2>1 DEF StoreInventory, Claimed, Storing, Complete
<1>5. CASE DeleteDiscarded
  BY <1>5 DEF DeleteDiscarded, Claimed, Storing, Complete
<1>6. ASSUME NEW targets \in SUBSET Of(Kind), Selects(targets)
      PROVE Claimed'
  BY <1>6 DEF Selects, SelectTargets, Claimed, Storing
<1>7. ASSUME NEW r \in Resources, DumpFails(r) \/ \E C \in SUBSET Own(r) : DumpSucceeds(r, C)
      PROVE Claimed'
  BY <1>7 DEF DumpFails, DumpSucceeds, Completed, Claimed, Storing
<1>8. CASE MarkPending
  <2>1. Run \in RunId /\ \A r \in Requested : parents[r] \in ParentRecord
    BY <1>8 DEF MarkPending, Busy, Targets, Dumping, MayBeDumped, TablesTyped, LocalsTyped, Requested
  <2>2. \A r \in Requested : Reset(r) \in ParentRecord /\ Reset(r).status = "pending"
    BY <2>1 DEF Reset, Pending, ParentRecord
  <2>3. \A r \in Requested' : parents'[r] = Reset(r) /\ r \in Requested
    BY <1>8 DEF MarkPending, Requested, LocalsTyped
  <2>4. \A r \in Requested' : IsPending(r)'
    BY <2>2, <2>3 DEF IsPending, ParentRecord, RunId
  <2> QED
    BY <1>8, <2>4 DEF MarkPending, Claimed
<1>9. CASE UpsertChildren \/ DeleteStaleChildren
  BY <1>9 DEF UpsertChildren, DeleteStaleChildren, Claimed, Storing, IsPending, Requested, ParentRecord,
              RunId
<1>10. CASE StoreDetails
  BY <1>10 DEF StoreDetails, Claimed, Storing
<1> QED
  BY <1>1, <1>2, <1>3, <1>4, <1>5, <1>6, <1>7, <1>8, <1>9, <1>10 DEF Cases

(* A batch has written its rows of a table when it goes on to the next,    *)
(* and all of them when it stores the parents.                             *)
LEMMA WrittenKept ==
  ASSUME TablesTyped, LocalsTyped, Busy, Confined, Written, Cases
  PROVE  Written'
<1>1. ASSUME NEW k \in Kinds, NEW root \in Roots, Starts(k, root)
      PROVE Written'
  BY <1>1 DEF Starts, Written, Storing
<1>2. CASE FinishRun \/ FailRun \/ Die
  BY <1>2, CommandEnded DEF Idle, Written, Storing
<1>3. CASE Replaces
  BY <1>3 DEF Replaces, ReplaceTable, Written, Storing
<1>4. ASSUME NEW inventory \in SUBSET Of(Kind), NEW identityOf \in [inventory -> Identities],
             StoreInventory(inventory, identityOf)
      PROVE Written'
  BY <1>4 DEF StoreInventory, Written, Storing
<1>5. CASE DeleteDiscarded
  BY <1>5 DEF DeleteDiscarded, Written, Storing
<1>6. ASSUME NEW targets \in SUBSET Of(Kind), Selects(targets)
      PROVE Written'
  BY <1>6 DEF Selects, SelectTargets, Written, Storing
<1>7. ASSUME NEW r \in Resources, DumpFails(r) \/ \E C \in SUBSET Own(r) : DumpSucceeds(r, C)
      PROVE Written'
  BY <1>7 DEF DumpFails, DumpSucceeds, Completed, Written, Storing
<1>8. CASE MarkPending
  <2>1. pc' = "upsert" /\ table' = 1
    BY <1>8 DEF MarkPending, Confined
  <2>2. \A c \in Children : ~(TableOf[c] < table')
    BY <2>1, ConstantsAssumption
  <2> QED
    BY <2>1, <2>2 DEF Written
<1>9. CASE UpsertChildren
  <2>1. Run' = Run /\ Requested' = Requested /\ \A c : Wanted(c)' = Wanted(c)
    BY <1>9 DEF UpsertChildren, Run, Requested, Wanted
  <2>2. \A c \in Children : ParentOf[c] \in Requested /\ TableOf[c] < table => rows'[c] = Wanted(c)
    BY <1>9, ConstantsAssumption DEF UpsertChildren, Written, Storing, LocalsTyped
  <2>3. \A c \in Children : TableOf[c] = table /\ Wanted(c) # None => rows'[c] = Wanted(c)
    BY <1>9 DEF UpsertChildren, Wanted
  <2> QED
    BY <1>9, <2>1, <2>2, <2>3 DEF UpsertChildren, Written
<1>10. CASE DeleteStaleChildren
  <2>1. Run' = Run /\ Requested' = Requested /\ \A c : Wanted(c)' = Wanted(c)
    BY <1>10 DEF DeleteStaleChildren, Run, Requested, Wanted
  <2>2. Run \in Nat /\ Run # None
    BY <1>10, ConstantsAssumption DEF DeleteStaleChildren, Busy, RunId
  <2>3. \A c \in Children : ParentOf[c] \in Requested /\ TableOf[c] < table => rows'[c] = Wanted(c)
    BY <1>10, ConstantsAssumption DEF DeleteStaleChildren, Written, Storing, LocalsTyped
  <2>4. \A c \in Children : ParentOf[c] \in Requested /\ TableOf[c] = table => rows'[c] = Wanted(c)
    BY <1>10, <2>2 DEF DeleteStaleChildren, Written, Storing, Wanted, Stale
  <2>5. CASE table < LastTable[Kind]
    <3>1. table' = table + 1 /\ pc' = "upsert"
      BY <1>10, <2>5 DEF DeleteStaleChildren
    <3>2. \A c \in Children : TableOf[c] < table' => TableOf[c] < table \/ TableOf[c] = table
      BY <3>1, ConstantsAssumption DEF LocalsTyped
    <3> QED
      BY <2>1, <2>3, <2>4, <3>1, <3>2 DEF Written
  <2>6. CASE ~(table < LastTable[Kind])
    <3>1. pc' = "store"
      BY <1>10, <2>6 DEF DeleteStaleChildren
    <3>2. Kind \in Catalogs /\ \A r \in Requested : KindOf[r] = Kind
      BY <1>10 DEF DeleteStaleChildren, Busy, Cataloguing, Storing, Confined, Of
    <3>3. \A c \in Children : ParentOf[c] \in Requested => TableOf[c] < table \/ TableOf[c] = table
      BY <2>6, <3>2, ConstantsAssumption DEF LocalsTyped
    <3> QED
      BY <2>1, <2>3, <2>4, <3>1, <3>3 DEF Written
  <2> QED
    BY <2>5, <2>6
<1>11. CASE StoreDetails
  BY <1>11 DEF StoreDetails, Written, Storing
<1> QED
  BY <1>1, <1>2, <1>3, <1>4, <1>5, <1>6, <1>7, <1>8, <1>9, <1>10, <1>11 DEF Cases

(* What is and remains complete is the same record, unless a batch has     *)
(* just been stored.                                                       *)
LEMMA CompleteUnchanged ==
  ASSUME TablesTyped, Cases, ~StoreDetails, NEW r \in Resources, Complete(r)'
  PROVE  parents'[r] = parents[r] /\ Complete(r)
<1>1. CASE \E inventory \in SUBSET Of(Kind) : \E identityOf \in [inventory -> Identities] :
             StoreInventory(inventory, identityOf)
  BY <1>1 DEF StoreInventory, Pending, Complete
<1>2. CASE MarkPending
  BY <1>2 DEF MarkPending, Reset, Pending, Complete
<1>3. CASE \/ \E k \in Kinds, root \in Roots : Starts(k, root)
           \/ FinishRun \/ FailRun \/ Die \/ Replaces \/ DeleteDiscarded
           \/ \E targets \in SUBSET Of(Kind) : Selects(targets)
           \/ \E s \in Resources : DumpFails(s) \/ \E C \in SUBSET Own(s) : DumpSucceeds(s, C)
           \/ UpsertChildren \/ DeleteStaleChildren
  <2>1. UNCHANGED parents
    BY <1>3, CommandEnded DEF Starts, StartRun, Replaces, ReplaceTable, DeleteDiscarded, Selects,
         SelectTargets, DumpFails, DumpSucceeds, Completed, UpsertChildren, DeleteStaleChildren
  <2> QED
    BY <2>1 DEF Complete
<1> QED
  BY <1>1, <1>2, <1>3 DEF Cases

(* No write of rows touches those of a complete resource.                  *)
LEMMA RowsUnchanged ==
  ASSUME LocalsTyped, Claimed, Cases, NEW c \in Children, Complete(ParentOf[c])
  PROVE  rows'[c] = rows[c]
<1>1. CASE DeleteDiscarded
  BY <1>1 DEF DeleteDiscarded, Claimed
<1>2. CASE UpsertChildren \/ DeleteStaleChildren
  <2>1. ParentOf[c] \notin Requested
    BY <1>2 DEF UpsertChildren, DeleteStaleChildren, Claimed, Storing, IsPending, Complete
  <2> QED
    BY <1>2, <2>1 DEF UpsertChildren, DeleteStaleChildren, Stale, Requested
<1>3. CASE \/ \E k \in Kinds, root \in Roots : Starts(k, root)
           \/ FinishRun \/ FailRun \/ Die \/ Replaces
           \/ \E inventory \in SUBSET Of(Kind) : \E identityOf \in [inventory -> Identities] :
                StoreInventory(inventory, identityOf)
           \/ \E targets \in SUBSET Of(Kind) : Selects(targets)
           \/ \E s \in Resources : DumpFails(s) \/ \E C \in SUBSET Own(s) : DumpSucceeds(s, C)
           \/ MarkPending \/ StoreDetails
  <2>1. UNCHANGED rows
    BY <1>3, CommandEnded DEF Starts, StartRun, Replaces, ReplaceTable, StoreInventory, Selects,
         SelectTargets, DumpFails, DumpSucceeds, Completed, MarkPending, StoreDetails
  <2> QED
    BY <2>1
<1> QED
  BY <1>1, <1>2, <1>3 DEF Cases

(* A complete resource has its rows: those of others are not touched, and  *)
(* a batch is stored when its rows are written.                            *)
LEMMA RowsKept ==
  ASSUME TablesTyped, LocalsTyped, Claimed, Written, CompleteHasItsRows, Cases
  PROVE  CompleteHasItsRows'
<1> SUFFICES ASSUME NEW r \in Resources, Complete(r)', NEW c \in Own(r)
             PROVE  rows'[c] = IF c \in parents'[r].detail THEN parents'[r].run ELSE None
  BY DEF CompleteHasItsRows, Own
<1>1. CASE parents'[r] = parents[r] /\ Complete(r)
  <2>1. rows'[c] = rows[c]
    BY <1>1, RowsUnchanged DEF Own
  <2> QED
    BY <1>1, <2>1 DEF CompleteHasItsRows
<1>2. CASE StoreDetails /\ r \in batch
  <2>1. rows[c] = Wanted(c) /\ rows'[c] = rows[c]
    BY <1>2 DEF StoreDetails, Written, Storing, Requested, Own
  <2>2. parents'[r].detail = found[r] /\ parents'[r].run = Run
    BY <1>2 DEF StoreDetails
  <2> QED
    BY <1>2, <2>1, <2>2 DEF Wanted, Own
<1>3. CASE StoreDetails /\ r \notin batch
  <2>1. r \notin failures
    <3>1. ASSUME r \in failures PROVE parents'[r].status = "failed"
      <4>1. parents[r] \in ParentRecord /\ parents[r].status = "pending"
        BY <1>3, <3>1 DEF StoreDetails, Claimed, Storing, IsPending, Requested
      <4>2. parents'[r] = [parents[r] EXCEPT !.status = "failed"]
        BY <1>3, <3>1 DEF StoreDetails
      <4> QED
        BY <4>1, <4>2 DEF ParentRecord
    <3> QED
      BY <3>1 DEF Complete
  <2>2. parents'[r] = parents[r]
    BY <1>3, <2>1 DEF StoreDetails
  <2> QED
    BY <1>1, <2>2 DEF Complete
<1> QED
  BY <1>1, <1>2, <1>3, CompleteUnchanged

(* A dialogue run accounts for each dialogue: it is complete, still to be  *)
(* handled, or has failed, in this run and without rows.                   *)
LEMMA SweptKept ==
  ASSUME TablesTyped, LocalsTyped, Confined, Written, Swept, Cases
  PROVE  Swept'
<1>1. CASE \/ \E k \in Kinds, root \in Roots : Starts(k, root)
           \/ FinishRun \/ FailRun \/ Die \/ DeleteDiscarded
           \/ \E inventory \in SUBSET Of(Kind) : \E identityOf \in [inventory -> Identities] :
                StoreInventory(inventory, identityOf)
  <2>1. pc' \in {"bulk", "inventory", "idle", "discard", "select"}
    BY <1>1, CommandEnded DEF Starts, Idle, StoreInventory, DeleteDiscarded
  <2> QED
    BY <2>1 DEF Swept, Dumping, Storing
<1>2. CASE Replaces
  BY <1>2 DEF Replaces, ReplaceTable, Swept, Kind, Run
<1>3. ASSUME NEW targets \in SUBSET Of(Kind), Selects(targets)
      PROVE Swept'
  <2>1. Kind' = Kind /\ Of(Kind') = Of(Kind) /\ UNCHANGED parents /\ todo' = targets
    BY <1>3 DEF Selects, SelectTargets, Kind, Run
  <2>2. Kind = "dialogues" =>
          \A r \in Of(Kind) \ targets : parents[r] # None => Complete(r)
    BY <1>3 DEF Selects, Target
  <2> QED
    BY <2>1, <2>2 DEF Swept, Complete
<1>4. ASSUME NEW s \in Resources, DumpFails(s) \/ \E C \in SUBSET Own(s) : DumpSucceeds(s, C)
      PROVE Swept'
  <2>1. /\ Kind' = Kind /\ UNCHANGED <<parents, rows, failed>>
        /\ todo' \cup Requested' = todo \cup Requested /\ pc \in Dumping
    BY <1>4 DEF DumpFails, DumpSucceeds, Completed, Requested, Kind, Run, Dumping
  <2> QED
    BY <2>1 DEF Swept, Complete
<1>5. CASE MarkPending
  <2>1. /\ Kind' = Kind /\ UNCHANGED <<rows, failed, todo>> /\ Requested' = Requested /\ pc \in Dumping
        /\ \A r \in Resources \ Requested : parents'[r] = parents[r]
    BY <1>5 DEF MarkPending, Requested, Kind, Run, Dumping
  <2> QED
    BY <2>1 DEF Swept, Complete, Of
<1>6. CASE UpsertChildren \/ DeleteStaleChildren
  <2>1. /\ Kind' = Kind /\ UNCHANGED <<parents, failed, todo>> /\ Requested' = Requested /\ pc \in Storing
        /\ \A r \in Resources \ Requested : \A c \in Own(r) : rows'[c] = rows[c]
    BY <1>6 DEF UpsertChildren, DeleteStaleChildren, Stale, Requested, Own, Kind, Run, Storing
  <2> QED
    BY <2>1 DEF Swept, Complete, Of
<1>7. CASE StoreDetails
  <2>1. /\ Kind' = Kind /\ UNCHANGED <<rows, todo>> /\ Requested' = {} /\ pc \in Storing
        /\ failed' = (failed \/ failures # {})
    BY <1>7 DEF StoreDetails, Requested, Kind, Run, Storing
  <2> SUFFICES ASSUME Kind = "dialogues", NEW r \in Of(Kind) \ todo, parents'[r] # None, ~Complete(r)'
               PROVE  failed' /\ \A c \in Own(r) : rows[c] = None
    BY <2>1 DEF Swept, Of
  <2>2. r \notin batch
    BY <1>7 DEF StoreDetails, Complete, Of
  <2>3. CASE r \in failures
    <3>1. \A c \in Own(r) : rows[c] = Wanted(c)
      BY <1>7, <2>3 DEF StoreDetails, Written, Requested, Own, Storing
    <3> QED
      BY <2>1, <2>2, <2>3, <3>1 DEF Wanted, Own
  <2>4. CASE r \notin failures
    <3>1. parents'[r] = parents[r]
      BY <1>7, <2>2, <2>4 DEF StoreDetails, Of
    <3> QED
      BY <2>1, <2>2, <2>4, <3>1 DEF Swept, Complete, Requested
  <2> QED
    BY <2>3, <2>4
<1> QED
  BY <1>1, <1>2, <1>3, <1>4, <1>5, <1>6, <1>7 DEF Cases

(* A command touches nothing of another kind, and starting or ending one   *)
(* touches no resource at all.                                             *)
LEMMA OthersUnchanged ==
  ASSUME LocalsTyped, Confined, Cases, NEW r \in Resources,
         r \notin Of(Kind) \/ FinishRun \/ \E k \in Kinds, root \in Roots : Starts(k, root)
  PROVE  parents'[r] = parents[r] /\ \A c \in Own(r) : rows'[c] = rows[c]
<1>1. CASE \/ \E k \in Kinds, root \in Roots : Starts(k, root)
           \/ FinishRun \/ FailRun \/ Die \/ Replaces
           \/ \E targets \in SUBSET Of(Kind) : Selects(targets)
           \/ \E s \in Resources : DumpFails(s) \/ \E C \in SUBSET Own(s) : DumpSucceeds(s, C)
  <2>1. UNCHANGED <<parents, rows>>
    BY <1>1, CommandEnded DEF Starts, StartRun, Replaces, ReplaceTable, Selects, SelectTargets,
         DumpFails, DumpSucceeds, Completed
  <2> QED
    BY <2>1
<1>2. CASE r \notin Of(Kind)
  <2>1. ASSUME NEW inventory \in SUBSET Of(Kind), NEW identityOf \in [inventory -> Identities],
               StoreInventory(inventory, identityOf)
        PROVE  parents'[r] = parents[r] /\ UNCHANGED rows
    BY <1>2, <2>1 DEF StoreInventory
  <2>2. CASE DeleteDiscarded
    BY <1>2, <2>2 DEF DeleteDiscarded, Confined, Own
  <2>3. CASE MarkPending \/ UpsertChildren \/ DeleteStaleChildren \/ StoreDetails
    <3>1. r \notin Requested
      BY <1>2, <2>3 DEF MarkPending, UpsertChildren, DeleteStaleChildren, StoreDetails, Confined,
           Dumping, Storing
    <3> QED
      BY <2>3, <3>1 DEF MarkPending, UpsertChildren, DeleteStaleChildren, StoreDetails, Stale,
           Requested, Own
  <2> QED
    BY <1>1, <2>1, <2>2, <2>3 DEF Cases
<1> QED
  BY <1>1, <1>2

(* What a dialogue run that ended well says of the catalog stays true,     *)
(* because only another dialogue run changes dialogues.                    *)
LEMMA HistoryKept ==
  ASSUME TablesTyped, LocalsTyped, Busy, Confined, Swept,
         NoLinesWithoutDetails, CompleteRunLeavesNone, Cases
  PROVE  NoLinesWithoutDetails' /\ CompleteRunLeavesNone'
<1> DEFINE Same(n) == /\ n \in LatestRun("dialogues") /\ runs'[n] = runs[n]
                      /\ \A r \in Of("dialogues") :
                           /\ parents'[r] = parents[r]
                           /\ \A c \in Own(r) : rows'[c] = rows[c]
<1>1. ASSUME \A n \in LatestRun("dialogues")' : Succeeded(n)' => Same(n)
      PROVE  NoLinesWithoutDetails' /\ CompleteRunLeavesNone'
  <2>1. ASSUME NEW n \in LatestRun("dialogues")', Succeeded(n)', NEW c \in Children,
               KindOf[ParentOf[c]] = "dialogues", rows'[c] # None, parents'[ParentOf[c]] # None
        PROVE  Complete(ParentOf[c])'
    <3>1. Same(n) /\ Succeeded(n)
      BY <1>1, <2>1 DEF Succeeded
    <3>2. ParentOf[c] \in Of("dialogues") /\ c \in Own(ParentOf[c])
      BY <2>1, ConstantsAssumption DEF Of, Own
    <3> QED
      BY <2>1, <3>1, <3>2 DEF NoLinesWithoutDetails, Complete
  <2>2. ASSUME NEW n \in LatestRun("dialogues")', runs'[n].status = "complete",
               NEW r \in Of("dialogues"), parents'[r] # None
        PROVE  Complete(r)'
    <3>1. Same(n)
      BY <1>1, <2>2 DEF Succeeded
    <3> QED
      BY <2>2, <3>1 DEF CompleteRunLeavesNone, Complete
  <2> QED
    BY <2>1, <2>2 DEF NoLinesWithoutDetails, CompleteRunLeavesNone
<1>2. ASSUME NEW k \in Kinds, NEW root \in Roots, Starts(k, root)
      PROVE  NoLinesWithoutDetails' /\ CompleteRunLeavesNone'
  <2>1. /\ Run' = Run + 1 /\ Run \in Nat /\ runs'[Run'].status = "running"
        /\ \A n \in 1..Run : runs'[n] = runs[n]
    BY <1>2, RunStarted
  <2>2. ASSUME NEW n \in LatestRun("dialogues")', Succeeded(n)' PROVE Same(n)
    <3>1. n # Run' /\ n \in 1..Run
      BY <2>1, <2>2 DEF LatestRun, Succeeded
    <3>2. n \in LatestRun("dialogues")
      BY <2>1, <2>2, <3>1 DEF LatestRun
    <3> QED
      BY <1>2, <2>1, <3>1, <3>2 DEF Starts, StartRun
  <2> QED
    BY <1>1, <2>2
<1>3. ASSUME NEW status \in Statuses, SetStatus(status), FinishRun \/ FailRun,
             \/ status = "failed"
             \/ FinishRun /\ status = (IF failed THEN "complete_with_errors" ELSE "complete")
      PROVE  NoLinesWithoutDetails' /\ CompleteRunLeavesNone'
  <2>1. Run \in RunId /\ UNCHANGED <<parents, rows>>
    BY <1>3 DEF Busy, FinishRun, FailRun
  <2>2. /\ Run' = Run /\ Run \in Nat /\ Run \in 1..Run /\ runs'[Run].status = status
        /\ \A n \in 1..Run : runs'[n].kind = runs[n].kind
        /\ \A n \in 1..Run : n # Run => runs'[n] = runs[n]
    BY <1>3, <2>1, RunFinished
  <2>3. LatestRun("dialogues")' = LatestRun("dialogues")
    BY <2>2 DEF LatestRun
  <2>4. CASE Run \notin LatestRun("dialogues")
    <3>1. \A n \in LatestRun("dialogues")' : Same(n)
      BY <2>1, <2>2, <2>3, <2>4 DEF LatestRun
    <3> QED
      BY <1>1, <3>1
  <2>5. CASE Run \in LatestRun("dialogues")
    <3>1. Kind = "dialogues" /\ LatestRun("dialogues")' = {Run}
      BY <2>2, <2>3, <2>5 DEF LatestRun, Kind
    <3>2. CASE status = "failed"
      <4>1. \A n \in LatestRun("dialogues")' : ~Succeeded(n)' /\ runs'[n].status # "complete"
        BY <1>3, <2>2, <3>1, <3>2 DEF Succeeded
      <4> QED
        BY <4>1 DEF NoLinesWithoutDetails, CompleteRunLeavesNone
    <3>3. CASE FinishRun /\ status = (IF failed THEN "complete_with_errors" ELSE "complete")
      <4>1. \A r \in Of("dialogues") : parents[r] # None /\ ~Complete(r) =>
              failed /\ \A c \in Own(r) : rows[c] = None
        BY <3>1, <3>3 DEF FinishRun, Swept, Confined, Dumping, Storing
      <4>2. ASSUME NEW n \in LatestRun("dialogues")', NEW c \in Children,
                   KindOf[ParentOf[c]] = "dialogues", rows'[c] # None, parents'[ParentOf[c]] # None
            PROVE  Complete(ParentOf[c])'
        <5>1. ParentOf[c] \in Of("dialogues") /\ c \in Own(ParentOf[c])
          BY <4>2, ConstantsAssumption DEF Of, Own
        <5> QED
          BY <2>1, <4>1, <4>2, <5>1 DEF Complete
      <4>3. ASSUME NEW n \in LatestRun("dialogues")', runs'[n].status = "complete",
                   NEW r \in Of("dialogues"), parents'[r] # None
            PROVE  Complete(r)'
        <5>1. ~failed
          BY <1>3, <2>2, <3>1, <3>3, <4>3
        <5> QED
          BY <2>1, <4>1, <4>3, <5>1 DEF Complete
      <4> QED
        BY <4>2, <4>3 DEF NoLinesWithoutDetails, CompleteRunLeavesNone
    <3> QED
      BY <1>3, <3>2, <3>3
  <2> QED
    BY <2>4, <2>5
<1>4. ASSUME UNCHANGED runs, pc # "idle"
      PROVE  NoLinesWithoutDetails' /\ CompleteRunLeavesNone'
  <2>1. Run \in 1..Run /\ Run \in Nat /\ runs[Run].status = "running"
    BY <1>4, ConstantsAssumption DEF Busy, RunId
  <2>2. ASSUME NEW n \in LatestRun("dialogues")', Succeeded(n)' PROVE Same(n)
    <3>1. n \in LatestRun("dialogues") /\ n \in 1..Run /\ runs'[n] = runs[n] /\ Succeeded(n)
      BY <1>4, <2>2 DEF LatestRun, Run, Succeeded
    <3>2. n # Run
      BY <2>1, <3>1 DEF Succeeded
    <3>3. Kind # "dialogues"
      BY <2>1, <3>1, <3>2 DEF LatestRun, Kind
    <3>4. \A r \in Of("dialogues") : r \in Resources /\ r \notin Of(Kind)
      BY <3>3 DEF Of
    <3> QED
      BY <3>1, <3>4, OthersUnchanged
  <2> QED
    BY <1>1, <2>2
<1>5. \/ \E k \in Kinds, root \in Roots : Starts(k, root)
      \/ FinishRun \/ FailRun
      \/ UNCHANGED runs /\ pc # "idle"
  BY DEF Cases, Die, tables, Replaces, ReplaceTable, StoreInventory, DeleteDiscarded, Selects,
         SelectTargets, DumpFails, DumpSucceeds, Completed, MarkPending, UpsertChildren,
         DeleteStaleChildren, StoreDetails
<1>6. CASE FinishRun \/ FailRun
  <2>1. CASE FinishRun
    <3>1. (IF failed THEN "complete_with_errors" ELSE "complete") \in Statuses
      BY DEF Statuses
    <3> QED
      BY <1>3, <2>1, <3>1 DEF FinishRun
  <2>2. CASE FailRun
    BY <1>3, <2>2 DEF FailRun, Statuses
  <2> QED
    BY <1>6, <2>1, <2>2
<1> QED
  BY <1>2, <1>4, <1>5, <1>6

-----------------------------------------------------------------------------
(* The inductive invariant                                                 *)

(* An empty database and no command.                                       *)
LEMMA InvariantInitially == Init => IInv
<1> SUFFICES ASSUME Init PROVE IInv
  OBVIOUS
<1>1. Run = 0 /\ runs \in Seq(RunRecord)
  BY EmptySeq DEF Init, Run
<1>2. TablesTyped
  BY <1>1, ConstantsAssumption DEF Init, TablesTyped
<1>3. table \in Nat \ {0} /\ found \in [Resources -> SUBSET Children]
  BY DEF Init
<1>4. refresh \in BOOLEAN /\ failed \in BOOLEAN
  BY Zenon DEF Init
<1>5. LocalsTyped
  BY <1>3, <1>4 DEF Init, LocalsTyped
<1>6. Busy /\ Confined /\ Targets /\ Claimed /\ Written /\ Swept
  BY DEF Init, Busy, Confined, Targets, Claimed, Written, Swept, Requested, Cataloguing, Dumping, Storing
<1>7. CompleteHasItsRows
  BY DEF Init, CompleteHasItsRows, Complete
<1>8. NoLinesWithoutDetails /\ CompleteRunLeavesNone
  BY <1>1 DEF NoLinesWithoutDetails, CompleteRunLeavesNone, LatestRun
<1> QED
  BY <1>2, <1>5, <1>6, <1>7, <1>8 DEF IInv

(* Every step of a command keeps it.                                       *)
LEMMA InvariantKept == ASSUME IInv, Cases PROVE IInv'
<1>1. TablesTyped' /\ LocalsTyped'
  BY TypesKept DEF IInv
<1>2. Busy' /\ Confined'
  BY BusyKept, ConfinedKept DEF IInv
<1>3. Targets' /\ Claimed'
  BY TargetsKept, ClaimedKept DEF IInv
<1>4. Written' /\ CompleteHasItsRows'
  BY WrittenKept, RowsKept DEF IInv
<1>5. Swept' /\ NoLinesWithoutDetails' /\ CompleteRunLeavesNone'
  BY SweptKept, HistoryKept DEF IInv
<1> QED
  BY <1>1, <1>2, <1>3, <1>4, <1>5 DEF IInv

(* It says nothing of variables other than these.                          *)
LEMMA InvariantStutters == ASSUME IInv, UNCHANGED vars PROVE IInv'
<1> USE DEF vars
<1>1. TablesTyped' /\ LocalsTyped'
  BY DEF IInv, TablesTyped, LocalsTyped, Run
<1>2. Busy' /\ Confined'
  BY DEF IInv, Busy, Confined, Requested, Kind, Run
<1>3. Targets' /\ Claimed'
  BY DEF IInv, Targets, MayBeDumped, Claimed, IsPending, Complete, Requested
<1>4. Written' /\ CompleteHasItsRows'
  BY DEF IInv, Written, Wanted, CompleteHasItsRows, Complete, Requested, Run
<1>5. Swept'
  BY DEF IInv, Swept, Complete, Requested, Kind, Run
<1>6. NoLinesWithoutDetails' /\ CompleteRunLeavesNone'
  BY DEF IInv, NoLinesWithoutDetails, CompleteRunLeavesNone, LatestRun, Succeeded, Complete, Run
<1> QED
  BY <1>1, <1>2, <1>3, <1>4, <1>5, <1>6 DEF IInv

(* IInv holds between any two writes of every extraction.                  *)
THEOREM Invariance == Spec => []IInv
<1>1. IInv /\ [Next]_vars => IInv'
  <2> SUFFICES ASSUME IInv, [Next]_vars PROVE IInv'
    OBVIOUS
  <2>1. CASE Next
    BY <2>1, StepCases, InvariantKept DEF IInv, LocalsTyped
  <2>2. CASE UNCHANGED vars
    BY <2>2, InvariantStutters
  <2> QED
    BY <2>1, <2>2
<1> QED
  BY <1>1, InvariantInitially, PTL DEF Spec

-----------------------------------------------------------------------------
(* What follows from it                                                    *)

(* Tables, locals and the next write of a command are what they are        *)
(* declared to be: in particular no complete record is ever stored under   *)
(* another status, which DialogueRecord would refuse.                      *)
THEOREM Typing == Spec => []TypeOK
<1>1. Init => pc \in Labels
  BY DEF Init, Labels
<1>2. IInv /\ pc \in Labels /\ [Next]_vars => (pc \in Labels)'
  <2> SUFFICES ASSUME IInv, pc \in Labels, [Next]_vars PROVE pc' \in Labels
    OBVIOUS
  <2>1. CASE Next
    <3>1. Cases
      BY <2>1, StepCases DEF IInv, LocalsTyped
    <3> QED
      BY <3>1, CommandEnded DEF Cases, Labels, Starts, Idle, Replaces, ReplaceTable, StoreInventory,
         DeleteDiscarded, Selects, SelectTargets, DumpFails, DumpSucceeds, Completed, MarkPending,
         UpsertChildren, DeleteStaleChildren, StoreDetails
  <2>2. CASE UNCHANGED vars
    BY <2>2 DEF vars
  <2> QED
    BY <2>1, <2>2
<1>3. IInv /\ pc \in Labels => TypeOK
  BY DEF IInv, TablesTyped, LocalsTyped, Labels, TypeOK
<1> QED
  BY <1>1, <1>2, <1>3, Invariance, PTL DEF Spec

(* A complete resource has exactly the rows its extraction found, written  *)
(* by the run it names, whatever was stored there before.                  *)
THEOREM RowsComplete == Spec => []CompleteHasItsRows
<1>1. IInv => CompleteHasItsRows
  BY DEF IInv
<1> QED
  BY <1>1, Invariance, PTL

(* After a dialogue run that ended well no dialogue without details has    *)
(* lines, also if earlier runs died between any two of their writes.       *)
THEOREM LinesHaveDetails == Spec => []NoLinesWithoutDetails
<1>1. IInv => NoLinesWithoutDetails
  BY DEF IInv
<1> QED
  BY <1>1, Invariance, PTL

(* A dialogue run that reports no error has left no dialogue without       *)
(* details.                                                                *)
THEOREM CompleteRunIsWhole == Spec => []CompleteRunLeavesNone
<1>1. IInv => CompleteRunLeavesNone
  BY DEF IInv
<1> QED
  BY <1>1, Invariance, PTL

(* The record of a resource that is complete before and after a step is    *)
(* the same: it is pending, or gone, in between.                           *)
LEMMA CompleteTwice ==
  ASSUME IInv, Cases, NEW r \in Resources, Complete(r), Complete(r)'
  PROVE  parents'[r] = parents[r]
<1>1. CASE StoreDetails
  <2>1. r \notin Requested
    BY <1>1 DEF IInv, StoreDetails, Claimed, Storing, IsPending, Complete
  <2> QED
    BY <1>1, <2>1 DEF StoreDetails, Requested
<1> QED
  BY <1>1, CompleteUnchanged DEF IInv

(* Without --refresh, only an inventory that no longer has the resource,   *)
(* or has it with another identity, takes its details away.                *)
THEOREM DetailsAreKept == Spec => DetailsKept
<1>1. ASSUME IInv, Next, NEW r \in Resources, Complete(r), ~refresh, parents'[r] # parents[r]
      PROVE  pc = "inventory" /\ (parents'[r] = None \/ parents'[r].identity # parents[r].identity)
  <2>1. Cases
    BY <1>1, StepCases DEF IInv, LocalsTyped
  <2>2. ASSUME NEW inventory \in SUBSET Of(Kind), NEW identityOf \in [inventory -> Identities],
               StoreInventory(inventory, identityOf)
        PROVE  pc = "inventory" /\ (parents'[r] = None \/ parents'[r].identity # parents[r].identity)
    BY <1>1, <2>2 DEF StoreInventory, Retained, Pending, Complete
  <2>3. ~MarkPending /\ ~StoreDetails
    <3>1. MarkPending \/ StoreDetails => r \notin Requested
      BY <1>1 DEF IInv, MarkPending, StoreDetails, Targets, Claimed, Dumping, Storing, MayBeDumped,
                  IsPending, Complete
    <3> QED
      BY <1>1, <3>1 DEF MarkPending, StoreDetails, Requested
  <2>4. \/ \E inventory \in SUBSET Of(Kind) : \E identityOf \in [inventory -> Identities] :
             StoreInventory(inventory, identityOf)
        \/ UNCHANGED parents
    BY <2>1, <2>3, CommandEnded DEF Cases, Starts, StartRun, Replaces, ReplaceTable,
       DeleteDiscarded, Selects, SelectTargets, DumpFails, DumpSucceeds, Completed, UpsertChildren,
       DeleteStaleChildren
  <2> QED
    BY <1>1, <2>2, <2>4
<1>2. IInv /\ [Next]_vars =>
        [\A r \in Resources : Complete(r) /\ ~refresh /\ parents'[r] # parents[r] =>
           /\ pc = "inventory"
           /\ parents'[r] = None \/ parents'[r].identity # parents[r].identity]_vars
  BY <1>1
<1> QED
  BY <1>2, Invariance, PTL DEF Spec, DetailsKept

(* A step of a command changes what readers see of a resource only to or   *)
(* from nothing.                                                           *)
LEMMA ViewStep ==
  ASSUME IInv, IInv', Cases
  PROVE  Catalog!Next
<1>1. \A r \in Resources : View[r] = IF Complete(r) THEN {c \in Own(r) : rows[c] = parents[r].run} ELSE None
  BY DEF View
<1>2. \A r \in Resources : View'[r] = IF Complete(r)' THEN {c \in Own(r) : rows'[c] = parents'[r].run}
                                                      ELSE None
  BY DEF View
<1>3. Catalog!TypeOK'
  BY <1>2 DEF Catalog!TypeOK, Catalog!Views, Catalog!Own, Own, View
<1>4. ASSUME NEW r \in Resources, View[r] # None, View'[r] # None
      PROVE  View'[r] = View[r]
  <2>1. Complete(r) /\ Complete(r)'
    BY <1>1, <1>2, <1>4
  <2>2. parents'[r] = parents[r]
    BY <2>1, CompleteTwice
  <2>3. \A c \in Own(r) : rows'[c] = rows[c]
    BY <2>1, <2>2 DEF IInv, CompleteHasItsRows, Own
  <2> QED
    BY <1>1, <1>2, <2>1, <2>2, <2>3
<1> QED
  BY <1>3, <1>4 DEF Catalog!Next

(* Extraction implements CatalogView: readers find the children of a       *)
(* resource whole or not at all, whenever they look.                       *)
THEOREM CatalogRefined == Spec => CatalogSpec
<1>1. Init => Catalog!Init
  BY DEF Init, Catalog!Init, View, Complete
<1>2. IInv /\ IInv' /\ [Next]_vars => [Catalog!Next]_View
  <2> SUFFICES ASSUME IInv, IInv', [Next]_vars PROVE [Catalog!Next]_View
    OBVIOUS
  <2>1. CASE Next
    BY <2>1, StepCases, ViewStep DEF IInv, LocalsTyped
  <2>2. CASE UNCHANGED vars
    BY <2>2 DEF vars, View, Complete
  <2> QED
    BY <2>1, <2>2
<1> QED
  BY <1>1, <1>2, Invariance, PTL DEF Spec, CatalogSpec, Catalog!Spec
==============================================================================
