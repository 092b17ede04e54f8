------------------------------ MODULE Extraction ------------------------------
(***************************************************************************)
(* Extraction of an installed game into the catalog (pipeline.py and the   *)
(* tables of database.py it writes).  A command starts a run, replaces     *)
(* the inventory of its kind of resources, has a pool of threads dump      *)
(* those that lack details, and writes the results in batches: parents to  *)
(* PENDING, one table of children after another, parents to COMPLETE or    *)
(* FAILED.  Every write is a step of its own, and between any two of them  *)
(* the command may fail, which is recorded, or die, which is not.          *)
(*                                                                         *)
(* The database has a single writer, so a command works for the last run.  *)
(* A row of a child table has its content's identity (dialogue, line kind, *)
(* indexes) as key, so that another dump of the resource may bring the     *)
(* same key again; the content itself is left out, the run that wrote a    *)
(* row stands for it.  What a game holds, and what iecli makes of it, is   *)
(* open: any inventory, and for every dump any children or a failure.      *)
(***************************************************************************)
EXTENDS Naturals, Sequences, FiniteSets

CONSTANTS
  Catalogs,     \* run kinds with an inventory: "characters" and "dialogues"
  Bulks,        \* run kinds that only replace tables: "metadata", ...
  BulkTables,   \* tables each of these replaces, one after the other
  Resources,    \* resource names
  KindOf,       \* the catalog each belongs to
  Identities,   \* what same_identity compares: source kind and path
  Children,     \* keys of child rows
  ParentOf,     \* the resource of each
  TableOf,      \* the child table of each, a number
  LastTable,    \* child tables of each catalog
  Roots,        \* game installations
  BatchSize,    \* _WRITE_BATCH_SIZE
  MaxRuns,      \* runs of a behaviour (a bound)
  None          \* no row, no parent

ASSUME ConstantsAssumption ==
  /\ Catalogs \cap Bulks = {} /\ "attribution" \notin Catalogs \cup Bulks
  /\ BulkTables \in [Bulks -> Nat \ {0}]
  /\ KindOf \in [Resources -> Catalogs]
  /\ ParentOf \in [Children -> Resources]
  /\ LastTable \in [Catalogs -> Nat \ {0}]
  /\ TableOf \in [Children -> Nat \ {0}]
  /\ \A c \in Children : TableOf[c] <= LastTable[KindOf[ParentOf[c]]]
  /\ BatchSize \in Nat \ {0} /\ MaxRuns \in Nat
  /\ None \notin Nat

VARIABLES
  (* the tables                                                            *)
  runs,       \* extraction_runs, in the order they started
  parents,    \* characters and dialogues
  rows,       \* child tables: the run that wrote each row
  bulk,       \* for each table a bulk kind replaces, the run that wrote it
  (* the command                                                           *)
  pc,         \* its next write
  table,      \* the table that write is to
  refresh,    \* --refresh
  discarded,  \* resources whose identity went or changed
  todo,       \* futures not completed yet
  batch,      \* names in details, for a flush
  failures,   \* names in failures, for a flush
  found,      \* the children in the details of each name in batch
  failed      \* a failure was committed by this run

tables == <<runs, parents, rows, bulk>>
vars == <<runs, parents, rows, bulk, pc, table, refresh, discarded, todo, batch, failures, found, failed>>

Own(r) == {c \in Children : ParentOf[c] = r}
Of(k) == {r \in Resources : KindOf[r] = k}

RunId == 1..MaxRuns
Run == Len(runs)
Kind == runs[Run].kind
Kinds == Catalogs \cup Bulks \cup {"attribution"}
Statuses == {"running", "complete", "complete_with_errors", "failed"}
RunRecord == [kind : Kinds, root : Roots, status : Statuses]

(* CharacterRecord and DialogueRecord: validate_state lets only complete   *)
(* records have details.                                                   *)
ParentRecord ==
  [identity : Identities, status : {"pending", "failed"}, run : RunId, detail : {None}]
  \cup [identity : Identities, status : {"complete"}, run : RunId, detail : SUBSET Children]

Pending(identity) == [identity |-> identity, status |-> "pending", run |-> Run, detail |-> None]

Complete(r) == parents[r] # None /\ parents[r].status = "complete"

-----------------------------------------------------------------------------
(* PipelineDatabase: an empty database; start_run and finish_run           *)

Init ==
  /\ runs = <<>>
  /\ parents = [r \in Resources |-> None]
  /\ rows = [c \in Children |-> None]
  /\ bulk = [k \in Bulks |-> [t \in 1..BulkTables[k] |-> None]]
  /\ pc = "idle" /\ table = 1 /\ refresh = FALSE /\ discarded = {}
  /\ todo = {} /\ batch = {} /\ failures = {} /\ failed = FALSE
  /\ found = [r \in Resources |-> {}]

Idle == /\ pc' = "idle" /\ table' = 1 /\ refresh' = FALSE /\ discarded' = {}
        /\ todo' = {} /\ batch' = {} /\ failures' = {} /\ failed' = FALSE
        /\ found' = [r \in Resources |-> {}]

StartRun(k, root) ==
  /\ pc = "idle" /\ Run < MaxRuns
  /\ runs' = Append(runs, [kind |-> k, root |-> root, status |-> "running"])
  /\ UNCHANGED <<parents, rows, bulk, table, discarded, todo, batch, failures, found, failed>>

StartBulk(k, root) ==
  /\ k \in Bulks /\ StartRun(k, root)
  /\ pc' = "bulk" /\ UNCHANGED refresh

(* extract_metadata, extract_portraits and extract_readable_items          *)
ExtractMetadata(root) == StartBulk("metadata", root)
ExtractPortraits(root) == StartBulk("portraits", root)
ExtractReadableItems(root) == StartBulk("readable_items", root)

(* _run_extraction, of characters or dialogues                             *)
RunExtraction(k, root, refreshed) ==
  /\ k \in Catalogs /\ StartRun(k, root)
  /\ pc' = "inventory" /\ refresh' = refreshed

ExtractCharacters(root, refreshed) == RunExtraction("characters", root, refreshed)
ExtractDialogues(root, refreshed) == RunExtraction("dialogues", root, refreshed)

SetStatus(status) == runs' = [runs EXCEPT ![Run].status = status]

FinishRun ==
  /\ pc = "finish"
  /\ SetStatus(IF failed THEN "complete_with_errors" ELSE "complete")
  /\ Idle
  /\ UNCHANGED <<parents, rows, bulk>>

(* _fail_run                                                               *)
FailRun ==
  /\ pc # "idle"
  /\ SetStatus("failed")
  /\ Idle
  /\ UNCHANGED <<parents, rows, bulk>>

(* The process dies, or _fail_run fails as well.                           *)
Die ==
  /\ pc # "idle"
  /\ Idle
  /\ UNCHANGED tables

-----------------------------------------------------------------------------
(* Kinds that only replace tables                                          *)

ReplaceTable ==
  /\ pc = "bulk"
  /\ bulk' = [bulk EXCEPT ![Kind][table] = Run]
  /\ IF table < BulkTables[Kind] THEN table' = table + 1 /\ UNCHANGED pc
                                 ELSE table' = 1 /\ pc' = "finish"
  /\ UNCHANGED <<runs, parents, rows, refresh, discarded, todo, batch, failures, found>>

ReplaceMetadata == Kind = "metadata" /\ ReplaceTable /\ UNCHANGED failed

(* One BMP that cannot be read fails the run.                              *)
ReplacePortraits == Kind = "portraits" /\ ReplaceTable /\ UNCHANGED failed

(* An ITM that iecli cannot dump is a failure of its own.                  *)
ReplaceReadableItems == Kind = "readable_items" /\ ReplaceTable /\ failed' \in BOOLEAN

-----------------------------------------------------------------------------
(* The inventory                                                           *)

Retained(r, identity) == parents[r] # None /\ parents[r].identity = identity

(* retained_character and retained_dialogue, or pending ones               *)
StoreInventory(inventory, identityOf) ==
  LET mine == Of(Kind)
      kept == {r \in inventory : Retained(r, identityOf[r])}
  IN
  /\ pc = "inventory"
  /\ parents' = [r \in Resources |->
       IF r \notin mine \/ r \in kept THEN parents[r]
       ELSE IF r \in inventory THEN Pending(identityOf[r]) ELSE None]
  /\ discarded' = {r \in mine \ kept : parents[r] # None}
  /\ pc' = IF discarded' = {} THEN "select" ELSE "discard"
  /\ UNCHANGED <<runs, rows, bulk, table, refresh, todo, batch, failures, found, failed>>

ReplaceInventory(inventory, identityOf) ==
  Kind = "characters" /\ StoreInventory(inventory, identityOf)

ReplaceDialogueInventory(inventory, identityOf) ==
  Kind = "dialogues" /\ StoreInventory(inventory, identityOf)

(* Their delete of the children of what is gone, or another file now       *)
DeleteDiscarded ==
  /\ pc = "discard"
  /\ rows' = [c \in Children |->
       IF ParentOf[c] \in discarded /\ TableOf[c] = table THEN None ELSE rows[c]]
  /\ IF table < LastTable[Kind] THEN table' = table + 1 /\ UNCHANGED <<pc, discarded>>
                                ELSE table' = 1 /\ pc' = "select" /\ discarded' = {}
  /\ UNCHANGED <<runs, parents, bulk, refresh, todo, batch, failures, found, failed>>

(* What lacks details, with and without what failed before                 *)
TargetAll(r) == parents[r] # None
TargetPending(r) == parents[r] # None /\ (refresh \/ parents[r].status = "pending")

Target(r) == parents[r] # None /\ (refresh \/ ~Complete(r))

SelectTargets(targets) ==
  /\ pc = "select"
  /\ todo' = targets
  /\ pc' = IF targets = {} THEN "finish" ELSE "extract"
  /\ UNCHANGED <<runs, parents, rows, bulk, table, refresh, discarded, batch, failures, found, failed>>

(* Details of characters may be left out (include_details).                *)
DetailTargets(details) ==
  Kind = "characters" /\ SelectTargets({r \in Of(Kind) : details /\ Target(r)})

DialogueTargets == Kind = "dialogues" /\ SelectTargets({r \in Of(Kind) : Target(r)})

-----------------------------------------------------------------------------
(* _extract_resources: futures complete in any order                       *)

Flush(size, left) == size >= BatchSize \/ left = {}

Completed(r, gathered) ==
  /\ pc = "extract" /\ r \in todo
  /\ todo' = todo \ {r}
  /\ pc' = IF Flush(Cardinality(gathered), todo') THEN "pend" ELSE "extract"
  /\ UNCHANGED <<runs, parents, rows, bulk, table, refresh, discarded, failed>>

DumpSucceeds(r, children) ==
  /\ Completed(r, batch \cup failures \cup {r})
  /\ batch' = batch \cup {r}
  /\ found' = [found EXCEPT ![r] = children]
  /\ UNCHANGED failures

DumpFails(r) ==
  /\ Completed(r, batch \cup failures \cup {r})
  /\ failures' = failures \cup {r}
  /\ UNCHANGED <<batch, found>>

-----------------------------------------------------------------------------
(* A batch of details, write by write                                      *)

Requested == batch \cup failures

(* pending_character_refresh, pending_dialogue_refresh                     *)
Untouched(r) == parents[r]
DetailsRemain(r) == [parents[r] EXCEPT !.status = "pending", !.run = Run]

Reset(r) == Pending(parents[r].identity)

MarkPending ==
  /\ pc = "pend"
  /\ parents' = [r \in Resources |-> IF r \in Requested THEN Reset(r) ELSE parents[r]]
  /\ pc' = "upsert"
  /\ UNCHANGED <<runs, rows, bulk, table, refresh, discarded, todo, batch, failures, found, failed>>

(* _replace_children: the rows of the batch, then those they supersede     *)
UpsertChildren ==
  /\ pc = "upsert"
  /\ rows' = [c \in Children |->
       IF /\ ParentOf[c] \in batch /\ TableOf[c] = table
          /\ c \in found[ParentOf[c]]
       THEN Run ELSE rows[c]]
  /\ pc' = "prune"
  /\ UNCHANGED <<runs, parents, bulk, table, refresh, discarded, todo, batch, failures, found, failed>>

StaleOfBatch(c) == ParentOf[c] \in batch /\ c \notin found[ParentOf[c]]
StaleIfAnyFound(c) == ParentOf[c] \in Requested /\ found[ParentOf[c]] # {} /\ c \notin found[ParentOf[c]]

Stale(c) == ParentOf[c] \in Requested /\ ~(ParentOf[c] \in batch /\ c \in found[ParentOf[c]])

DeleteStaleChildren ==
  /\ pc = "prune"
  /\ rows' = [c \in Children |-> IF TableOf[c] = table /\ Stale(c) THEN None ELSE rows[c]]
  /\ IF table < LastTable[Kind] THEN table' = table + 1 /\ pc' = "upsert"
                                ELSE table' = 1 /\ pc' = "store"
  /\ UNCHANGED <<runs, parents, bulk, refresh, discarded, todo, batch, failures, found, failed>>

StoreDetails ==
  /\ pc = "store"
  /\ parents' = [r \in Resources |->
       IF r \in batch
       THEN [identity |-> parents[r].identity, status |-> "complete", run |-> Run, detail |-> found[r]]
       ELSE IF r \in failures THEN [parents[r] EXCEPT !.status = "failed"]
       ELSE parents[r]]
  /\ failed' = (failed \/ failures # {})
  /\ batch' = {} /\ failures' = {} /\ found' = [r \in Resources |-> {}]
  /\ pc' = IF todo = {} THEN "finish" ELSE "extract"
  /\ UNCHANGED <<runs, rows, bulk, table, refresh, discarded, todo>>

BatchWrite == MarkPending \/ UpsertChildren \/ DeleteStaleChildren \/ StoreDetails

ApplyDetailBatch == Kind = "characters" /\ BatchWrite
ApplyDialogueBatch == Kind = "dialogues" /\ BatchWrite

-----------------------------------------------------------------------------
Command(root) ==
  \/ ExtractMetadata(root) \/ ExtractPortraits(root) \/ ExtractReadableItems(root)
  \/ \E refreshed \in BOOLEAN :
       ExtractCharacters(root, refreshed) \/ ExtractDialogues(root, refreshed)

Write ==
  \/ ReplaceMetadata \/ ReplacePortraits \/ ReplaceReadableItems
  \/ \E inventory \in SUBSET Of(Kind) : \E identityOf \in [inventory -> Identities] :
       \/ ReplaceInventory(inventory, identityOf)
       \/ ReplaceDialogueInventory(inventory, identityOf)
  \/ DeleteDiscarded
  \/ \E details \in BOOLEAN : DetailTargets(details)
  \/ DialogueTargets
  \/ \E r \in Resources : DumpFails(r) \/ \E C \in SUBSET Own(r) : DumpSucceeds(r, C)
  \/ ApplyDetailBatch \/ ApplyDialogueBatch
  \/ FinishRun

Next ==
  \/ \E root \in Roots : Command(root)
  \/ pc # "idle" /\ Write
  \/ FailRun \/ Die

Spec == Init /\ [][Next]_vars

-----------------------------------------------------------------------------
(* Properties                                                              *)

TypeOK ==
  /\ runs \in Seq(RunRecord) /\ Run <= MaxRuns
  /\ parents \in [Resources -> ParentRecord \cup {None}]
  /\ rows \in [Children -> RunId \cup {None}]
  /\ DOMAIN bulk = Bulks
  /\ \A k \in Bulks : bulk[k] \in [1..BulkTables[k] -> RunId \cup {None}]
  /\ pc \in {"idle", "bulk", "inventory", "discard", "select", "extract", "pend", "upsert",
             "prune", "store", "finish"}
  /\ table \in Nat \ {0} /\ refresh \in BOOLEAN /\ failed \in BOOLEAN
  /\ discarded \subseteq Resources /\ todo \subseteq Resources
  /\ batch \subseteq Resources /\ failures \subseteq Resources
  /\ found \in [Resources -> SUBSET Children]

(* What is stored below a complete resource is what its extraction found,  *)
(* written by the run the resource names: counting or showing the rows of  *)
(* that run (child_generation_predicate) loses none, and reading all of    *)
(* them, as attribution does, adds none.                                   *)
CompleteHasItsRows ==
  \A r \in Resources : Complete(r) =>
    \A c \in Own(r) : rows[c] = IF c \in parents[r].detail THEN parents[r].run ELSE None

LatestRun(k) == {n \in 1..Run : runs[n].kind = k /\ \A m \in n+1..Run : runs[m].kind # k}

Succeeded(n) == runs[n].status \in {"complete", "complete_with_errors"}

(* After a dialogue run that ended well, whatever earlier runs left behind,*)
(* a dialogue of the inventory that has no details has no lines either:    *)
(* attribution and generation read lines without asking for their run.     *)
NoLinesWithoutDetails ==
  \A n \in LatestRun("dialogues") : Succeeded(n) =>
    \A c \in Children : LET r == ParentOf[c] IN
      KindOf[r] = "dialogues" /\ rows[c] # None /\ parents[r] # None => Complete(r)

(* A dialogue run is complete, without errors, only if every dialogue of   *)
(* the inventory is: also those an earlier run failed on or left pending.  *)
CompleteRunLeavesNone ==
  \A n \in LatestRun("dialogues") : runs[n].status = "complete" =>
    \A r \in Of("dialogues") : parents[r] # None => Complete(r)

(* Without --refresh, a resource whose identity is unchanged keeps the     *)
(* details that an earlier run extracted.                                  *)
DetailsKept ==
  [][\A r \in Resources : Complete(r) /\ ~refresh /\ parents'[r] # parents[r] =>
       /\ pc = "inventory"
       /\ parents'[r] = None \/ parents'[r].identity # parents[r].identity]_vars

(* The catalog implements the view its readers rely on.                    *)
View == [r \in Resources |->
           IF Complete(r) THEN {c \in Own(r) : rows[c] = parents[r].run} ELSE None]

Catalog == INSTANCE CatalogView WITH view <- View
CatalogSpec == Catalog!Spec
=============================================================================
