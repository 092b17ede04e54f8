--------------------------- MODULE PublicationProofs ---------------------------
(***************************************************************************)
(* What readers are shown while commands run, for every game, every number *)
(* of runs and every interleaving of a command's writes with a request's   *)
(* reads: a published snapshot is whole and built of what is stored, its   *)
(* voices have their characters, its inputs are whole extractions, and a   *)
(* page shows the children of one generation.                              *)
(*                                                                         *)
(* The invariant is that of ExtractionProofs with what an attribution      *)
(* adds: the runs it took as inputs ended well and come before it          *)
(* (Registered); while they are the latest, nothing that it read has       *)
(* changed since (Current), since whatever writes its inputs starts a run  *)
(* first; the rows of a run that ended well are those of its build, and    *)
(* nobody else's, because their keys hold the run (Stored). Of a request   *)
(* it says what the reads so far have in common with the tables: the       *)
(* snapshot it chose stays as it was (Answered), the characters it has     *)
(* read are those stored, while an attribution that was there before it is *)
(* current (Resolved), and of a resource it shows, no rows outside its     *)
(* record have the record's run (Generations).                             *)
(***************************************************************************)
EXTENDS Publication, ExtractionProofs, FiniteSetTheorems

(* Where an attribution is at work.                                        *)
Attributing == {"build", "records", "voices"}

(* Attributions are the runs that have inputs: earlier runs, which ended   *)
(* well.                                                                   *)
Registered ==
  /\ inputs \in [RunId -> InputRuns \cup {None}]
  /\ basis \in [RunId -> Bases \cup {None}]
  /\ \A n \in RunId : /\ n > Run => inputs[n] = None
                      /\ inputs[n] = None => basis[n] = None
  /\ \A n \in 1..Run :
       /\ runs[n].kind = "attribution" <=> inputs[n] # None
       /\ inputs[n] # None => \A k \in InputKinds : inputs[n][k] < n /\ Succeeded(inputs[n][k])

(* The n-th run is an attribution.                                         *)
Attribution(n) == n \in 1..Run /\ runs[n].kind = "attribution"

(* What the command at work has behind it.                                 *)
Stages ==
  /\ pc \in Attributing => Kind = "attribution"
  /\ pc = "bulk" => Kind \in Bulks
  /\ pc = "build" => \A k \in InputKinds : IsLatestInput(Run, k)
  /\ pc \in {"records", "voices"} => basis[Run] # None
  /\ pc = "finish" /\ Kind = "attribution" => basis[Run] # None
  /\ \A n \in 1..Run : Attribution(n) /\ Succeeded(n) => basis[n] # None

(* An attribution whose inputs are the latest has read what is stored.     *)
Current ==
  \A n \in 1..Run : basis[n] # None /\ (\A k \in InputKinds : IsLatestInput(n, k)) => basis[n] = Basis

(* The tables of metadata are written one after the other.                 *)
MetadataOf(n, last) == \A t \in 1..BulkTables["metadata"] : t <= last => bulk["metadata"][t] = n

MetadataWhole ==
  /\ pc = "bulk" /\ Kind = "metadata" =>
       table <= BulkTables["metadata"] /\ MetadataOf(Run, table - 1)
  /\ pc = "finish" /\ Kind = "metadata" => MetadataOf(Run, BulkTables["metadata"])
  /\ \A n \in LatestRun("metadata") : Succeeded(n) => MetadataOf(n, BulkTables["metadata"])

(* What an attribution makes of its inputs, and the rows it stores of it.  *)
RecordsIn(b) == {r \in Of("characters") : b.parents[r] # None}
VoicesIn(b) == {r \in Of("characters") : b.parents[r] # None /\ b.parents[r].status = "complete"}
NamesOf(n, T) == {row.name : row \in {a \in T : a.run = n}}

RowsShaped(T) ==
  \A row \in T : /\ row = [key |-> KeyFor(row.run, row.name), run |-> row.run, name |-> row.name]
                 /\ row.run \in 1..Run

(* The rows of an attribution are those of its build.                      *)
Stored ==
  /\ RowsShaped(attributed) /\ RowsShaped(voices)
  /\ pc \in {"records", "voices"} =>
       built = [records |-> RecordsIn(basis[Run]), voices |-> VoicesIn(basis[Run])]
  /\ pc \in {"build", "records"} => \A row \in attributed : row.run # Run
  /\ pc \in Attributing => \A row \in voices : row.run # Run
  /\ pc = "voices" \/ (pc = "finish" /\ Kind = "attribution") =>
       NamesOf(Run, attributed) = RecordsIn(basis[Run])
  /\ pc = "finish" /\ Kind = "attribution" => NamesOf(Run, voices) = VoicesIn(basis[Run])
  /\ \A n \in 1..Run : Attribution(n) /\ Succeeded(n) =>
       NamesOf(n, attributed) = RecordsIn(basis[n]) /\ NamesOf(n, voices) = VoicesIn(basis[n])

(* Where a request reads a snapshot.                                       *)
Snapshotting == {"rows", "attributed", "published"}

(* What a request has read of a snapshot is what the snapshot was built of.*)
Answered ==
  request.at \in Snapshotting =>
    /\ Attribution(request.run) /\ Succeeded(request.run)
    /\ request.at # "rows" => request.attributed = RecordsIn(basis[request.run])
    /\ request.at = "published" => request.voices = VoicesIn(basis[request.run])

(* Where it has yet to choose one.                                         *)
Asked == {"parents", "snapshot"}

(* The characters a request has read are those there are, while an         *)
(* attribution that was there before it is current.                        *)
Resolved ==
  /\ request.at \in Asked =>
       /\ request.since \in 0..Run
       /\ request.tables = {} /\ "characters" \in request.catalogs \ request.reads =>
            \A n \in 1..request.since : inputs[n] # None /\ IsLatestInput(n, "characters") =>
              \A r \in Of("characters") : request.shown[r] = IF Complete(r) THEN parents[r] ELSE None
  /\ request.at = "snapshot" => request.reads = {} /\ request.tables = {}
  /\ request.at \in Snapshotting /\ "characters" \in request.catalogs /\ request.run <= request.since =>
       \A r \in VoicesIn(basis[request.run]) : request.shown[r] # None

(* A run dumps a resource once.                                            *)
Dealt == Dumping \cup Storing \cup {"finish", "idle"}
Finished(p, r) == p.run <= Run /\ (p.run = Run => pc \in Dealt /\ r \notin todo \cup Requested)

(* A record with details of a resource that is done with.                  *)
Details(p, r) == p \in ParentRecord /\ p.status = "complete" /\ Finished(p, r)

(* Where a request shows parents.                                          *)
Showing == {"parents", "children", "page"}

(* What a request shows of a resource was complete once, and no other run  *)
(* has rows that look like it.                                             *)
Generations ==
  /\ \A r \in Resources : parents[r] # None =>
       parents[r].run <= Run /\ (Complete(r) => Finished(parents[r], r))
  /\ request.at \in Showing =>
       \A r \in Resources : request.shown[r] # None =>
         /\ Details(request.shown[r], r)
         /\ request.at # "page" =>
              \A c \in Own(r) : rows[c] = request.shown[r].run => c \in request.shown[r].detail
  /\ request.at = "parents" =>
       /\ request = [at |-> "parents", reads |-> request.reads, tables |-> request.tables,
                     catalogs |-> request.catalogs, since |-> request.since, shown |-> request.shown]
       /\ \A r \in Resources : KindOf[r] \in request.reads => request.shown[r] = None

(* The inductive invariant.                                                *)
PublicationInv ==
  /\ IInv
  /\ Registered /\ Stages /\ Current /\ MetadataWhole /\ Stored
  /\ Answered /\ Resolved /\ Generations /\ InputsAreWhole /\ PageOfOneGeneration

-----------------------------------------------------------------------------
(* What the steps have in common                                           *)

(* Runs are added, one at a time, while no command is at work, and only    *)
(* the status of an open one changes.                                      *)
Grows ==
  /\ Run \in Nat /\ Run' \in Nat /\ Run <= MaxRuns /\ Run' <= MaxRuns
  /\ \A n \in 1..Run : runs'[n].kind = runs[n].kind
  /\ \/ /\ Run' = Run + 1 /\ pc = "idle" /\ runs'[Run'].status = "running"
        /\ UNCHANGED <<parents, rows, bulk>>
        /\ \A n \in 1..Run : runs'[n] = runs[n]
     \/ /\ Run' = Run
        /\ \A n \in 1..Run : runs'[n] # runs[n] => n = Run /\ runs[n].status = "running"

(* start_run and finish_run, whatever the command.                         *)
LEMMA CommandGrows ==
  ASSUME IInv, Cases
  PROVE  Grows /\ (Run' # Run => Kind' \in Catalogs \cup Bulks)
<1>1. TablesTyped /\ Busy /\ Run \in Nat
  BY LenProperties DEF IInv, TablesTyped, Run
<1>2. ASSUME NEW k \in Kinds, NEW root \in Roots, Starts(k, root)
      PROVE  Grows /\ Kind' \in Catalogs \cup Bulks
  <2>1. /\ Run' = Run + 1 /\ Run' \in RunId /\ Run' <= MaxRuns /\ Run \in Nat /\ Kind' = k
        /\ runs'[Run'].status = "running" /\ \A n \in 1..Run : runs'[n] = runs[n]
    BY <1>1, <1>2, RunStarted
  <2>2. pc = "idle" /\ UNCHANGED <<parents, rows, bulk>> /\ k \in Catalogs \cup Bulks
    BY <1>2 DEF Starts, StartRun
  <2> QED
    BY <2>1, <2>2, ConstantsAssumption DEF Grows
<1>3. ASSUME NEW status \in Statuses, pc # "idle", SetStatus(status)
      PROVE  Grows /\ Run' = Run
  <2>1. Run \in RunId /\ runs[Run].status = "running" /\ Run <= MaxRuns
    BY <1>1, <1>3 DEF Busy, TablesTyped
  <2> QED
    BY <1>1, <1>3, <2>1, RunFinished DEF Grows
<1>4. CASE FinishRun \/ FailRun
  <2>1. (IF failed THEN "complete_with_errors" ELSE "complete") \in Statuses /\ "failed" \in Statuses
    BY DEF Statuses
  <2> QED
    BY <1>3, <1>4, <2>1 DEF FinishRun, FailRun
<1>5. CASE UNCHANGED runs
  BY <1>1, <1>5 DEF Grows, Run, TablesTyped
<1>6. (\E k \in Kinds, root \in Roots : Starts(k, root)) \/ FinishRun \/ FailRun \/ UNCHANGED runs
  BY DEF Cases, Die, tables, Replaces, ReplaceTable, StoreInventory, DeleteDiscarded, Selects,
         SelectTargets, DumpFails, DumpSucceeds, Completed, MarkPending, UpsertChildren,
         DeleteStaleChildren, StoreDetails
<1> QED
  BY <1>2, <1>4, <1>5, <1>6

(* start_run of an attribution                                             *)
LEMMA AttributionRun ==
  ASSUME IInv, StartAttribution
  PROVE  /\ runs' \in Seq(RunRecord) /\ Run \in Nat /\ Run' = Run + 1 /\ Run' \in RunId /\ Run' <= MaxRuns
         /\ Kind' = "attribution" /\ runs'[Run + 1].kind = "attribution"
         /\ runs'[Run'].status = "running"
         /\ \A n \in 1..Run : runs'[n] = runs[n]
<1> DEFINE new == [kind |-> "attribution", root |-> runs[Latest("characters")].root, status |-> "running"]
<1>1. runs \in Seq(RunRecord) /\ Run < MaxRuns /\ runs' = Append(runs, new)
  BY DEF StartAttribution, IInv, TablesTyped
<1>2. new.kind = "attribution" /\ new.status = "running"
  OBVIOUS
<1>3. new \in RunRecord
  <2>1. Latest("characters") \in 1..Run
    BY DEF StartAttribution, InputKinds, InputReady, Latest, LatestRun
  <2>2. runs[Latest("characters")] \in RunRecord
    BY <1>1, <2>1, ElementOfSeq, LenProperties DEF Run
  <2> QED
    BY <2>2 DEF RunRecord, Kinds, Statuses
<1> HIDE DEF new
<1>4. /\ runs' \in Seq(RunRecord) /\ Len(runs') = Len(runs) + 1 /\ runs'[Len(runs) + 1] = new
      /\ \A n \in 1..Len(runs) : runs'[n] = runs[n]
  BY <1>1, <1>3, AppendProperties
<1>5. Len(runs) \in Nat
  BY <1>1, LenProperties
<1> QED
  BY <1>1, <1>2, <1>4, <1>5, ConstantsAssumption DEF Run, RunId, Kind

(* The other steps of an attribution leave the runs alone.                 *)
LEMMA AttributionGrows ==
  ASSUME IInv, AttributionStep
  PROVE  Grows
<1>1. runs \in Seq(RunRecord) /\ Run \in Nat /\ Run <= MaxRuns
  BY LenProperties DEF IInv, TablesTyped, Run
<1>2. CASE StartAttribution
  <2>1. /\ Run' = Run + 1 /\ Run' \in Nat /\ Run' <= MaxRuns /\ runs'[Run'].status = "running"
        /\ \A n \in 1..Run : runs'[n] = runs[n]
    BY <1>1, <1>2, AttributionRun
  <2>2. pc = "idle" /\ UNCHANGED <<parents, rows, bulk>>
    BY <1>2 DEF StartAttribution
  <2> QED
    BY <1>1, <2>1, <2>2 DEF Grows
<1>3. CASE Build \/ UpsertRecords \/ UpsertVoices
  BY <1>1, <1>3 DEF Build, UpsertRecords, UpsertVoices, tables, Grows, Run
<1> QED
  BY <1>2, <1>3 DEF AttributionStep

(* A run that is the latest of its kind was so before, if it was there.    *)
LEMMA LatestKept ==
  ASSUME Grows, NEW k, NEW n \in 1..Run, n \in LatestRun(k)'
  PROVE  n \in LatestRun(k)
BY DEF Grows, LatestRun

(* While none is added, the latest runs are the same.                      *)
LEMMA LatestSame ==
  ASSUME Grows, Run' = Run, NEW k
  PROVE  LatestRun(k)' = LatestRun(k)
BY DEF Grows, LatestRun

(* The run of the command at work is the latest of its kind, and no input. *)
LEMMA OwnRunIsNoInput ==
  ASSUME Registered, Run \in Nat, NEW n \in 1..Run, inputs[n] # None,
         NEW k \in InputKinds, Kind = k
  PROVE  ~IsLatestInput(n, k)
BY DEF Registered, Kind, IsLatestInput, LatestRun, RunId, Run

(* The catalog changes only by a run of the kind it changes.               *)
LEMMA CatalogStep ==
  ASSUME IInv, Cases
  PROVE  /\ \/ UNCHANGED <<parents, rows>>
            \/ pc \in Cataloguing /\ Kind \in Catalogs /\ UNCHANGED runs
         /\ \/ bulk'["metadata"] = bulk["metadata"]
            \/ pc = "bulk" /\ Kind = "metadata" /\ UNCHANGED runs
         /\ Kind # "characters" => \A r \in Of("characters") : parents'[r] = parents[r]
<1>1. LocalsTyped /\ Confined /\ Busy /\ TablesTyped
  BY DEF IInv
<1>2. \/ UNCHANGED <<parents, rows>>
      \/ pc \in Cataloguing /\ Kind \in Catalogs /\ UNCHANGED runs
  BY <1>1, CommandEnded DEF Cases, Busy, Cataloguing, Dumping, Storing, Starts, StartRun, Replaces,
     ReplaceTable, StoreInventory, DeleteDiscarded, Selects, SelectTargets, DumpFails, DumpSucceeds,
     Completed, MarkPending, UpsertChildren, DeleteStaleChildren, StoreDetails
<1>3. \/ bulk'["metadata"] = bulk["metadata"]
      \/ pc = "bulk" /\ Kind = "metadata" /\ UNCHANGED runs
  <2>1. CASE Replaces
    BY <1>1, <2>1, PublicationAssumption DEF Replaces, ReplaceTable, TablesTyped
  <2> QED
    BY <2>1 DEF Cases, FinishRun, FailRun, Die, tables, Starts, StartRun, StoreInventory,
       DeleteDiscarded, Selects, SelectTargets, DumpFails, DumpSucceeds, Completed, MarkPending,
       UpsertChildren, DeleteStaleChildren, StoreDetails
<1>4. ASSUME Kind # "characters", NEW r \in Of("characters")
      PROVE  parents'[r] = parents[r]
  BY <1>1, <1>4, OthersUnchanged DEF Of
<1> QED
  BY <1>2, <1>3, <1>4

(* What an attribution reads changes only while an input is extracted.     *)
LEMMA BasisStep ==
  ASSUME IInv, Cases
  PROVE  Basis' = Basis \/ (Kind \in InputKinds /\ UNCHANGED runs)
BY CatalogStep, PublicationAssumption DEF Basis, InputKinds

(* No step of an extraction leads into an attribution, and what it         *)
(* finishes is its own.                                                    *)
LEMMA ExtractionLabels ==
  ASSUME IInv, Stages, Cases
  PROVE  /\ pc' \in Labels
         /\ pc' = "finish" => UNCHANGED runs /\ Kind \in Catalogs \cup Bulks
         /\ pc' = "bulk" => Kind' \in Bulks
<1>1. pc' \in Labels
  BY CommandEnded DEF Cases, Labels, Starts, Idle, Replaces, ReplaceTable, StoreInventory,
     DeleteDiscarded, Selects, SelectTargets, DumpFails, DumpSucceeds, Completed, MarkPending,
     UpsertChildren, DeleteStaleChildren, StoreDetails, Stages
<1>2. pc' = "finish" => UNCHANGED runs /\ Kind \in Catalogs \cup Bulks
  BY CommandEnded DEF IInv, Busy, Cataloguing, Dumping, Storing, Cases, Starts, Idle, Replaces,
     ReplaceTable, StoreInventory, DeleteDiscarded, Selects, SelectTargets, DumpFails, DumpSucceeds,
     Completed, MarkPending, UpsertChildren, DeleteStaleChildren, StoreDetails, Stages
<1>3. ASSUME pc' = "bulk" PROVE Kind' \in Bulks
  <2>1. ASSUME NEW k \in Kinds, NEW root \in Roots, Starts(k, root)
        PROVE  Kind' \in Bulks
    BY <1>3, <2>1, RunStarted DEF Starts, IInv
  <2>2. CASE Replaces
    BY <1>3, <2>2 DEF Replaces, ReplaceTable, Stages, Kind, Run
  <2> QED
    BY <1>3, <2>1, <2>2, CommandEnded DEF Cases, Idle, StoreInventory, DeleteDiscarded, Selects,
       SelectTargets, DumpFails, DumpSucceeds, Completed, MarkPending, UpsertChildren,
       DeleteStaleChildren, StoreDetails
<1> QED
  BY <1>1, <1>2, <1>3

(* A request is only read.                                                 *)
LEMMA ReadersRead ==
  ASSUME ReaderStep
  PROVE  UNCHANGED <<vars, inputs, attributed, voices, built, basis>>
BY DEF ReaderStep, Ask, ReadParents, ReadRuns, ReadAttributed, ReadVoices, OrderedPage, CountTables,
   ReadChildren, MatchIds, FetchIds, Answer

-----------------------------------------------------------------------------
(* Each part of the invariant, under steps that write                      *)

(* An attribution starts: of what a command knows, nothing is due.         *)
LEMMA AttributionStarted == ASSUME IInv, StartAttribution PROVE IInv'
<1>1. /\ pc = "idle" /\ pc' = "build"
      /\ UNCHANGED <<parents, rows, bulk, table, refresh, discarded, todo, batch, failures, found, failed>>
  BY DEF StartAttribution
<1>2. /\ runs' \in Seq(RunRecord) /\ Run \in Nat /\ Run' = Run + 1 /\ Run' \in RunId /\ Run' <= MaxRuns
      /\ Kind' = "attribution" /\ runs'[Run'].status = "running" /\ runs'[Run + 1].kind = "attribution"
      /\ \A n \in 1..Run : runs'[n] = runs[n]
  BY AttributionRun
<1>3. TablesTyped' /\ LocalsTyped'
  BY <1>1, <1>2 DEF IInv, TablesTyped, LocalsTyped
<1>4. Busy' /\ Confined' /\ Targets' /\ Claimed' /\ Written' /\ Swept'
  BY <1>1, <1>2 DEF IInv, Busy, Confined, Targets, Claimed, Written, Swept, Requested, Cataloguing,
     Dumping, Storing
<1>5. CompleteHasItsRows'
  BY <1>1 DEF IInv, CompleteHasItsRows, Complete
<1>6. \A n \in LatestRun("dialogues")' : n \in LatestRun("dialogues") /\ runs'[n] = runs[n]
  BY <1>2 DEF LatestRun
<1>7. NoLinesWithoutDetails' /\ CompleteRunLeavesNone'
  BY <1>1, <1>6 DEF IInv, NoLinesWithoutDetails, CompleteRunLeavesNone, Succeeded, Complete
<1> QED
  BY <1>3, <1>4, <1>5, <1>7 DEF IInv

(* The other steps of an attribution write none of the catalog.            *)
LEMMA AttributionKeeps == ASSUME IInv, Stages, AttributionStep PROVE IInv'
<1>1. CASE Build \/ UpsertRecords \/ UpsertVoices
  <2>1. /\ UNCHANGED <<runs, parents, rows, bulk, table, refresh, discarded, todo, batch, failures, found>>
        /\ UNCHANGED failed /\ pc \in Attributing /\ pc' \in {"records", "voices", "finish"}
        /\ Kind = "attribution"
    BY <1>1 DEF Build, UpsertRecords, UpsertVoices, tables, Stages, Attributing
  <2>2. Run' = Run /\ Kind' = Kind
    BY <2>1 DEF Run, Kind
  <2>3. TablesTyped' /\ LocalsTyped'
    BY <2>1, <2>2 DEF IInv, TablesTyped, LocalsTyped
  <2>4. Busy' /\ Confined' /\ Targets' /\ Claimed' /\ Written' /\ Swept'
    BY <2>1, <2>2 DEF IInv, Busy, Confined, Targets, Claimed, Written, Swept, Requested, Cataloguing,
       Dumping, Storing, Attributing
  <2>5. CompleteHasItsRows' /\ NoLinesWithoutDetails' /\ CompleteRunLeavesNone'
    BY <2>1, <2>2 DEF IInv, CompleteHasItsRows, NoLinesWithoutDetails, CompleteRunLeavesNone, LatestRun,
       Succeeded, Complete
  <2> QED
    BY <2>3, <2>4, <2>5 DEF IInv
<1> QED
  BY <1>1, AttributionStarted DEF AttributionStep

(* The inputs of an attribution are runs before it.                        *)
LEMMA InputsAreRuns ==
  ASSUME Registered, Run \in Nat, Run <= MaxRuns, NEW n \in 1..Run, inputs[n] # None, NEW k \in InputKinds
  PROVE  inputs[n][k] \in 1..Run /\ inputs[n][k] < n /\ Succeeded(inputs[n][k])
<1>1. n \in RunId /\ inputs[n] \in InputRuns
  BY ConstantsAssumption DEF Registered, RunId
<1>2. inputs[n][k] \in RunId /\ inputs[n][k] < n /\ Succeeded(inputs[n][k])
  BY <1>1 DEF Registered, InputRuns
<1> QED
  BY <1>2, ConstantsAssumption DEF RunId

(* What is stored is what an attribution may read.                         *)
LEMMA BasisTyped == ASSUME IInv PROVE Basis \in Bases /\ Basis # None
BY PublicationAssumption DEF IInv, TablesTyped, Basis, Bases

(* An extraction step, or one of an attribution, and what both do.         *)
(* A step of a command, of extraction or attribution.                      *)
Writes ==
  \/ Cases /\ UNCHANGED <<inputs, attributed, voices, basis, request>>
     /\ built' = IF pc' = "idle" THEN NoBuild ELSE built
  \/ AttributionStep

(* Every step of a command is one of the writes that ExtractionProofs      *)
(* tells apart, or a write of an attribution.                              *)
LEMMA WriteCases == ASSUME IInv, ExtractionStep \/ AttributionStep PROVE Writes
BY StepCases DEF ExtractionStep, Writes, IInv, LocalsTyped

(* No write takes a run back, or back from having ended well.              *)
LEMMA WritesGrow ==
  ASSUME IInv, Writes
  PROVE  /\ Grows
         /\ \A n \in 1..Run : Succeeded(n) => Succeeded(n)'
<1>1. Grows
  BY CommandGrows, AttributionGrows DEF Writes
<1> QED
  BY <1>1 DEF Grows, Succeeded

(* A run ends well by finish_run.                                          *)
LEMMA EndsWell ==
  ASSUME IInv, Writes, NEW n \in 1..Run, ~Succeeded(n), Succeeded(n)'
  PROVE  n = Run /\ FinishRun
<1>1. n = Run /\ runs'[n] # runs[n] /\ Run' = Run /\ runs[Run].status = "running"
  BY WritesGrow DEF Grows, Succeeded
<1>2. runs \in Seq(RunRecord) /\ Run \in Nat
  BY LenProperties DEF IInv, TablesTyped, Run
<1>3. ~FailRun
  <2>1. FailRun => runs'[Run] = [runs[Run] EXCEPT !.status = "failed"]
    BY <1>1, <1>2 DEF FailRun, SetStatus, Run
  <2>2. runs[Run] \in RunRecord
    BY <1>1, <1>2, ElementOfSeq DEF Run
  <2> QED
    BY <1>1, <2>1, <2>2 DEF Succeeded, RunRecord
<1>4. ~\E k \in Kinds, root \in Roots : Starts(k, root)
  BY <1>1, <1>2, RunStarted DEF IInv
<1>5. ~StartAttribution
  BY <1>1, <1>2, AttributionRun
<1> QED
  BY <1>1, <1>3, <1>4, <1>5 DEF Writes, Cases, AttributionStep, Build, UpsertRecords, UpsertVoices, Die,
     tables, Replaces, ReplaceTable, StoreInventory, DeleteDiscarded, Selects, SelectTargets, DumpFails,
     DumpSucceeds, Completed, MarkPending, UpsertChildren, DeleteStaleChildren, StoreDetails

(* An attribution takes runs that ended well as its input, and no run that *)
(* ended is opened again.                                                  *)
LEMMA RegisteredKept ==
  ASSUME IInv, Registered, Stages, Writes
  PROVE  Registered'
<1>1. Grows /\ \A n \in 1..Run : Succeeded(n) => Succeeded(n)'
  BY WritesGrow
<1>2. CASE StartAttribution
  <2> DEFINE new == [k \in InputKinds |-> Latest(k)]
  <2>1. /\ Run < MaxRuns /\ Run \in Nat /\ UNCHANGED basis /\ inputs' = [inputs EXCEPT ![Run + 1] = new]
        /\ \A k \in InputKinds : new[k] \in 1..Run /\ Succeeded(new[k])
    BY <1>1, <1>2 DEF StartAttribution, InputReady, Latest, LatestRun, Grows
  <2>2. new \in InputRuns /\ new # None
    BY <2>1, ConstantsAssumption, PublicationAssumption DEF RunId, InputRuns
  <2> HIDE DEF new
  <2>3. Run' = Run + 1 /\ runs'[Run + 1].kind = "attribution" /\ Run + 1 \in RunId
    BY <1>2, AttributionRun
  <2>4. inputs'[Run + 1] = new /\ \A n \in RunId : n # Run + 1 => inputs'[n] = inputs[n]
    BY <2>1, <2>3 DEF Registered
  <2>5. inputs' \in [RunId -> InputRuns \cup {None}]
    BY <2>1, <2>2 DEF Registered
  <2>6. ASSUME NEW n \in RunId
        PROVE  (n > Run' => inputs'[n] = None) /\ (inputs'[n] = None => basis'[n] = None)
    BY <2>1, <2>2, <2>3, <2>4, <2>6 DEF Registered, RunId
  <2>7. ASSUME NEW n \in 1..Run'
        PROVE  /\ runs'[n].kind = "attribution" <=> inputs'[n] # None
               /\ inputs'[n] # None => \A k \in InputKinds :
                    inputs'[n][k] < n /\ runs'[inputs'[n][k]].status \in {"complete", "complete_with_errors"}
    <3>1. CASE n = Run + 1
      BY <1>1, <2>1, <2>2, <2>3, <2>4, <3>1 DEF Succeeded
    <3>2. CASE n \in 1..Run
      <4>1. n \in RunId /\ inputs'[n] = inputs[n] /\ runs'[n].kind = runs[n].kind
        BY <1>1, <2>1, <2>3, <2>4, <3>2, ConstantsAssumption DEF RunId, Grows
      <4>2. inputs[n] # None => \A k \in InputKinds : inputs[n][k] \in RunId /\ inputs[n][k] < n
        BY <3>2, <4>1 DEF Registered, InputRuns
      <4> QED
        BY <1>1, <2>1, <3>2, <4>1, <4>2 DEF Registered, RunId, Succeeded
    <3> QED
      BY <2>1, <2>3, <3>1, <3>2
  <2> QED
    BY <2>1, <2>3, <2>5, <2>6, <2>7, ConstantsAssumption DEF Registered, Succeeded
<1>3. CASE ~StartAttribution
  <2>1. /\ UNCHANGED inputs
        /\ Run' # Run => /\ UNCHANGED basis /\ runs'[Run'].kind # "attribution"
                         /\ Run' = Run + 1 /\ Run' \in RunId
    <3>1. CASE Cases /\ UNCHANGED <<inputs, basis>>
      BY <3>1, CommandGrows, ConstantsAssumption DEF Grows, Kind, RunId
    <3>2. CASE Build \/ UpsertRecords \/ UpsertVoices
      BY <3>2 DEF Build, UpsertRecords, UpsertVoices, tables, Run
    <3> QED
      BY <1>3, <3>1, <3>2 DEF Writes, AttributionStep
  <2>2. /\ basis' \in [RunId -> Bases \cup {None}]
        /\ \A n \in RunId : inputs[n] = None => basis'[n] = None
    <3>1. CASE UNCHANGED basis
      BY <3>1 DEF Registered
    <3>2. CASE Build
      <4>1. inputs[Run] # None /\ Run \in RunId
        BY <3>2 DEF Build, Stages, Attributing, Registered, Kind, IInv, Busy, RunId
      <4> QED
        BY <3>2, <4>1, BasisTyped DEF Build, Registered
    <3> QED
      BY <1>3, <3>1, <3>2 DEF Writes, AttributionStep, UpsertRecords, UpsertVoices
  <2>3. ASSUME NEW n \in RunId
        PROVE  n > Run' => inputs'[n] = None
    BY <1>1, <2>1 DEF Registered, Grows, RunId
  <2>4. ASSUME NEW n \in 1..Run'
        PROVE  /\ runs'[n].kind = "attribution" <=> inputs[n] # None
               /\ inputs[n] # None => \A k \in InputKinds :
                    inputs[n][k] < n /\ runs'[inputs[n][k]].status \in {"complete", "complete_with_errors"}
    <3>1. CASE n \in 1..Run
      <4>1. inputs[n] # None => \A k \in InputKinds :
              inputs[n][k] \in 1..Run /\ inputs[n][k] < n /\ Succeeded(inputs[n][k])
        BY <1>1, <3>1, InputsAreRuns DEF Grows
      <4> QED
        BY <1>1, <3>1, <4>1 DEF Registered, Grows, Succeeded
    <3>2. CASE n \notin 1..Run
      BY <1>1, <2>1, <3>2 DEF Registered, Grows
    <3> QED
      BY <3>1, <3>2
  <2> QED
    BY <2>1, <2>2, <2>3, <2>4 DEF Registered, Succeeded
<1> QED
  BY <1>2, <1>3

(* Commands that are no attributions are not taken for one.                *)
LEMMA StagesKept ==
  ASSUME IInv, Registered, Stages, Writes
  PROVE  Stages'
<1>1. Grows
  BY WritesGrow
<1>2. pc # "idle" => Run \in RunId /\ Run \in 1..Run /\ runs[Run].status = "running"
  BY DEF IInv, Busy, RunId
<1>3. ASSUME NEW n \in 1..Run', Attribution(n)', Succeeded(n)'
      PROVE  basis'[n] # None
  <2>1. n \in 1..Run /\ Attribution(n)
    BY <1>1, <1>3 DEF Grows, Succeeded, Attribution
  <2>2. basis[n] # None
    <3>1. CASE Succeeded(n)
      BY <2>1, <3>1 DEF Stages
    <3>2. CASE ~Succeeded(n)
      BY <1>3, <2>1, <3>2, EndsWell DEF FinishRun, Stages, Attribution, Kind
    <3> QED
      BY <3>1, <3>2
  <2>3. n \in RunId
    BY <1>1, <2>1, ConstantsAssumption DEF Grows, RunId
  <2>4. basis'[n] = basis[n] \/ basis'[n] = Basis
    BY <2>3 DEF Writes, AttributionStep, StartAttribution, Build, UpsertRecords, UpsertVoices, Registered
  <2> QED
    BY <2>2, <2>4, BasisTyped
<1>4. CASE Cases /\ UNCHANGED <<inputs, basis>>
  <2>1. /\ pc' \in Labels /\ (pc' = "bulk" => Kind' \in Bulks)
        /\ pc' = "finish" => UNCHANGED runs /\ Kind \in Catalogs \cup Bulks
    BY ExtractionLabels, <1>4
  <2>2. pc' = "finish" => Kind' # "attribution"
    BY <2>1, ConstantsAssumption DEF Kind, Run
  <2> QED
    BY <1>3, <2>1, <2>2 DEF Stages, Attributing, Labels
<1>5. CASE StartAttribution
  <2>1. Run \in Nat /\ Run + 1 \in RunId
    BY <1>5, AttributionRun
  <2>2. Run' = Run + 1 /\ runs'[Run + 1].kind = "attribution" /\ \A n \in 1..Run : runs'[n] = runs[n]
    BY <1>5, AttributionRun
  <2>3. ASSUME NEW k \in InputKinds
        PROVE  IsLatestInput(Run, k)'
    <3>1. inputs'[Run + 1][k] = Latest(k) /\ Latest(k) \in LatestRun(k)
      BY <1>5, <2>1 DEF StartAttribution, Registered, InputReady, Latest
    <3>2. LatestRun(k) \subseteq LatestRun(k)'
      BY <2>1, <2>2 DEF LatestRun, InputKinds
    <3> QED
      BY <2>2, <3>1, <3>2 DEF IsLatestInput
  <2> QED
    BY <1>3, <1>5, <2>2, <2>3 DEF Stages, StartAttribution, Attributing, Kind
<1>6. CASE Build \/ UpsertRecords \/ UpsertVoices
  <2>1. /\ UNCHANGED runs /\ Kind = "attribution" /\ Run \in RunId
        /\ \/ pc' = "records" /\ basis' = [basis EXCEPT ![Run] = Basis]
           \/ pc' \in {"voices", "finish"} /\ UNCHANGED basis /\ basis[Run] # None
    BY <1>2, <1>6 DEF Build, UpsertRecords, UpsertVoices, tables, Stages, Attributing
  <2>2. Kind' = "attribution" /\ Run' = Run /\ basis'[Run] # None
    BY <2>1, BasisTyped DEF Kind, Run, Registered
  <2> QED
    BY <1>3, <2>1, <2>2 DEF Stages, Attributing
<1> QED
  BY <1>4, <1>5, <1>6 DEF Writes, AttributionStep

(* Whatever changes an input started a run first, whose inputs an          *)
(* attribution cannot be built of before it ends.                          *)
LEMMA CurrentKept ==
  ASSUME IInv, Registered, Stages, Current, Writes
  PROVE  Current'
<1>1. Grows
  BY WritesGrow
<1> SUFFICES ASSUME NEW n \in 1..Run', basis'[n] # None, \A k \in InputKinds : IsLatestInput(n, k)'
             PROVE  basis'[n] = Basis'
  BY DEF Current
<1>2. n \in RunId /\ (n > Run => basis[n] = None) /\ (basis[n] # None => inputs[n] # None)
  BY <1>1, ConstantsAssumption DEF Grows, RunId, Registered
<1>3. CASE Build
  <2>1. Run \in RunId /\ Basis' = Basis /\ Run' = Run
    BY <1>3 DEF Build, IInv, Busy, Basis, tables, Run
  <2>2. CASE n = Run
    BY <1>3, <2>1, <2>2 DEF Build, Registered
  <2>3. CASE n # Run
    <3>1. n \in 1..Run /\ basis'[n] = basis[n] /\ \A k \in InputKinds : IsLatestInput(n, k)
      BY <1>3, <2>1, <2>3 DEF Build, tables, IsLatestInput, LatestRun
    <3> QED
      BY <2>1, <3>1 DEF Current
  <2> QED
    BY <2>2, <2>3
<1>4. CASE ~Build
  <2>1. UNCHANGED basis
    BY <1>4 DEF Writes, AttributionStep, StartAttribution, UpsertRecords, UpsertVoices
  <2>2. /\ n \in 1..Run /\ inputs[n] # None /\ inputs'[n] = inputs[n]
        /\ \A k \in InputKinds : inputs[n][k] \in 1..Run
    <3>1. n \in 1..Run /\ inputs[n] # None
      BY <1>1, <1>2, <2>1 DEF Grows
    <3>2. inputs'[n] = inputs[n]
      BY <1>1, <1>2, <3>1 DEF Writes, AttributionStep, StartAttribution, Build, UpsertRecords,
         UpsertVoices, Registered, Grows
    <3> QED
      BY <1>1, <3>1, <3>2, InputsAreRuns DEF Grows
  <2>3. \A k \in InputKinds : IsLatestInput(n, k)
    BY <1>1, <2>2, LatestKept DEF IsLatestInput
  <2>4. Basis' = Basis
    <3>1. CASE Cases
      <4>1. ~(Kind \in InputKinds)
        BY <1>1, <2>2, <2>3, OwnRunIsNoInput DEF Grows
      <4> QED
        BY <3>1, <4>1, BasisStep
    <3>2. CASE AttributionStep
      BY <3>2 DEF AttributionStep, StartAttribution, Build, UpsertRecords, UpsertVoices, tables, Basis
    <3> QED
      BY <3>1, <3>2 DEF Writes
  <2> QED
    BY <2>1, <2>2, <2>3, <2>4 DEF Current
<1> QED
  BY <1>3, <1>4

(* A metadata run that ended well wrote each of its tables.                *)
LEMMA MetadataKept ==
  ASSUME IInv, Stages, MetadataWhole, Writes
  PROVE  MetadataWhole'
<1>1. Grows
  BY WritesGrow
<1>2. BulkTables["metadata"] \in Nat \ {0}
  BY ConstantsAssumption, PublicationAssumption
<1>3. pc # "idle" => Run \in 1..Run /\ runs[Run].status = "running"
  BY DEF IInv, Busy, RunId
<1>4. ASSUME NEW n \in LatestRun("metadata")', Succeeded(n)', bulk'["metadata"] = bulk["metadata"]
      PROVE  MetadataOf(n, BulkTables["metadata"])'
  <2>1. n \in 1..Run /\ n \in LatestRun("metadata")
    BY <1>1, <1>4, LatestKept DEF Grows, LatestRun, Succeeded
  <2>2. CASE Succeeded(n)
    BY <1>4, <2>1, <2>2 DEF MetadataWhole, MetadataOf
  <2>3. CASE ~Succeeded(n)
    <3>1. n = Run /\ pc = "finish" /\ Kind = "metadata"
      BY <1>4, <2>1, <2>3, EndsWell DEF FinishRun, LatestRun, Kind
    <3> QED
      BY <1>4, <3>1 DEF MetadataWhole, MetadataOf
  <2> QED
    BY <2>2, <2>3
<1>5. CASE Replaces /\ Kind = "metadata"
  <2>1. /\ UNCHANGED runs /\ pc = "bulk" /\ bulk' = [bulk EXCEPT !["metadata"][table] = Run]
        /\ table \in Nat \ {0}
        /\ \/ table < BulkTables["metadata"] /\ table' = table + 1 /\ pc' = "bulk"
           \/ ~(table < BulkTables["metadata"]) /\ pc' = "finish"
        /\ table <= BulkTables["metadata"] /\ MetadataOf(Run, table - 1)
    BY <1>5 DEF Replaces, ReplaceTable, IInv, LocalsTyped, MetadataWhole
  <2>2. Run' = Run /\ Kind' = Kind /\ Run \in 1..Run
    BY <1>3, <2>1 DEF Run, Kind
  <2>3. \A t \in 1..BulkTables["metadata"] :
          bulk'["metadata"][t] = IF t = table THEN Run ELSE bulk["metadata"][t]
    BY <2>1, PublicationAssumption DEF IInv, TablesTyped
  <2>4. \A t \in 1..BulkTables["metadata"] : t <= table => bulk'["metadata"][t] = Run
    BY <1>2, <2>1, <2>3 DEF MetadataOf
  <2>5. \A n \in LatestRun("metadata")' : ~Succeeded(n)'
    BY <1>3, <1>5, <2>1, <2>2 DEF LatestRun, Succeeded, Kind
  <2> QED
    BY <1>2, <2>1, <2>2, <2>4, <2>5 DEF MetadataWhole, MetadataOf
<1>6. CASE Cases /\ ~(Replaces /\ Kind = "metadata")
  <2>1. bulk'["metadata"] = bulk["metadata"]
    BY <1>6, PublicationAssumption DEF Cases, FinishRun, FailRun, Die, tables, Starts, StartRun,
       StoreInventory, DeleteDiscarded, Selects, SelectTargets, DumpFails, DumpSucceeds, Completed,
       MarkPending, UpsertChildren, DeleteStaleChildren, StoreDetails, Replaces, ReplaceTable, IInv,
       TablesTyped
  <2>2. pc' = "bulk" /\ Kind' = "metadata" => table' = 1
    <3>1. pc' = "bulk" => Replaces \/ \E k \in Kinds, root \in Roots : Starts(k, root)
      BY <1>6, CommandEnded DEF Cases, Idle, StoreInventory, DeleteDiscarded, Selects, SelectTargets,
         DumpFails, DumpSucceeds, Completed, MarkPending, UpsertChildren, DeleteStaleChildren,
         StoreDetails, Replaces, ReplaceTable
    <3>2. (\E k \in Kinds, root \in Roots : Starts(k, root)) => table' = 1
      BY DEF Starts, StartRun, IInv, Confined
    <3>3. Replaces /\ Kind' = "metadata" => Kind = "metadata"
      BY DEF Replaces, ReplaceTable, Kind, Run
    <3> QED
      BY <1>6, <3>1, <3>2, <3>3
  <2>3. pc' = "finish" => Kind' # "metadata"
    <3>1. pc' = "finish" => Kind' = Kind
      BY <1>6, ExtractionLabels DEF Kind, Run
    <3>2. pc' = "finish" => Replaces \/ pc \in Cataloguing
      BY <1>6, CommandEnded DEF Cases, Idle, StoreInventory, DeleteDiscarded, Selects, SelectTargets,
         DumpFails, DumpSucceeds, Completed, MarkPending, UpsertChildren, DeleteStaleChildren,
         StoreDetails, Starts, Cataloguing, Dumping, Storing
    <3> QED
      BY <1>6, <3>1, <3>2, PublicationAssumption DEF IInv, Busy
  <2> QED
    BY <1>2, <1>4, <2>1, <2>2, <2>3 DEF MetadataWhole, MetadataOf
<1>7. CASE AttributionStep
  <2>1. /\ UNCHANGED bulk /\ pc' \in Attributing \cup {"finish"}
        /\ pc' = "finish" => UNCHANGED runs /\ Kind = "attribution"
    BY <1>7 DEF AttributionStep, StartAttribution, Build, UpsertRecords, UpsertVoices, tables,
       Attributing, Stages
  <2> QED
    BY <1>4, <2>1 DEF MetadataWhole, Attributing, Kind, Run
<1> QED
  BY <1>5, <1>6, <1>7 DEF Writes

(* Rows are stored under keys of their run, so that an upsert replaces     *)
(* none of another.                                                        *)
LEMMA UpsertedRows ==
  ASSUME NEW T, RowsShaped(T), \A row \in T : row.run # Run, NEW names, Run \in 1..Run
  PROVE  /\ RowsShaped(Upserted(T, names))
         /\ NamesOf(Run, Upserted(T, names)) = names
         /\ \A n \in 1..Run : n # Run => NamesOf(n, Upserted(T, names)) = NamesOf(n, T)
<1> DEFINE new == {[key |-> KeyFor(Run, r), run |-> Run, name |-> r] : r \in names}
<1>1. \A row \in T : row.key \notin {fresh.key : fresh \in new}
  BY DEF RowsShaped, KeyFor
<1>2. Upserted(T, names) = T \cup new
  BY <1>1 DEF Upserted
<1>3. RowsShaped(T \cup new)
  BY DEF RowsShaped
<1>4. NamesOf(Run, T \cup new) = names
  <2>1. {a \in T \cup new : a.run = Run} = new
    OBVIOUS
  <2>2. {row.name : row \in new} = names
    <3>1. \A row \in new : row.name \in names
      OBVIOUS
    <3>2. ASSUME NEW r \in names
          PROVE  \E row \in new : row.name = r
      <4>1. [key |-> KeyFor(Run, r), run |-> Run, name |-> r] \in new
        OBVIOUS
      <4> HIDE DEF new
      <4> QED
        BY <4>1
    <3> QED
      BY <3>1, <3>2
  <2> QED
    BY <2>1, <2>2 DEF NamesOf
<1>5. ASSUME NEW n \in 1..Run, n # Run
      PROVE  NamesOf(n, T \cup new) = NamesOf(n, T)
  BY <1>5 DEF NamesOf
<1> QED
  BY <1>2, <1>3, <1>4, <1>5

(* Rows stay those of a run when other runs start.                         *)
LEMMA RowsStayShaped ==
  ASSUME Grows, NEW T, RowsShaped(T)
  PROVE  \A row \in T : /\ row = [key |-> KeyFor(row.run, row.name), run |-> row.run, name |-> row.name]
                        /\ row.run \in 1..Run'
BY DEF Grows, RowsShaped

(* The rows of an attribution that ended well are those of its build: it   *)
(* has no others, and no other attribution touches them.                   *)
LEMMA StoredKept ==
  ASSUME IInv, Registered, Stages, Stored, Writes
  PROVE  Stored'
<1>1. Grows
  BY WritesGrow
<1>2. pc # "idle" => Run \in 1..Run /\ Run \in RunId /\ runs[Run].status = "running"
  BY DEF IInv, Busy, RunId
<1>3. ASSUME NEW n \in 1..Run', Attribution(n)', Succeeded(n)'
      PROVE  /\ n \in 1..Run /\ Attribution(n)
             /\ NamesOf(n, attributed) = RecordsIn(basis[n]) /\ NamesOf(n, voices) = VoicesIn(basis[n])
             /\ pc \in Attributing => n # Run
  <2>1. n \in 1..Run /\ Attribution(n)
    BY <1>1, <1>3 DEF Grows, Succeeded, Attribution
  <2>2. CASE Succeeded(n)
    BY <1>2, <2>1, <2>2 DEF Stored, Attributing, Succeeded
  <2>3. CASE ~Succeeded(n)
    BY <1>3, <2>1, <2>3, EndsWell DEF FinishRun, Stored, Attribution, Kind, Attributing
  <2> QED
    BY <2>1, <2>2, <2>3
<1>4. CASE Cases /\ UNCHANGED <<attributed, voices, basis>>
  <2>1. pc' \in Labels /\ (pc' = "finish" => Kind' # "attribution")
    <3>1. pc' \in Labels /\ (pc' = "finish" => UNCHANGED runs /\ Kind \in Catalogs \cup Bulks)
      BY ExtractionLabels, <1>4
    <3> QED
      BY <3>1, ConstantsAssumption DEF Kind, Run
  <2>2. RowsShaped(attributed)' /\ RowsShaped(voices)'
    BY <1>1, <1>4, RowsStayShaped DEF RowsShaped, Stored
  <2> QED
    BY <1>3, <1>4, <2>1, <2>2 DEF Stored, Labels, Attributing, NamesOf, RecordsIn, VoicesIn
<1>5. CASE StartAttribution
  <2>1. Run' = Run + 1 /\ pc' = "build" /\ UNCHANGED <<attributed, voices, basis>>
    BY <1>5, AttributionRun DEF StartAttribution
  <2>2. RowsShaped(attributed)' /\ RowsShaped(voices)'
    BY <1>1, <2>1, RowsStayShaped DEF RowsShaped, Stored
  <2>3. (\A row \in attributed : row.run # Run') /\ (\A row \in voices : row.run # Run')
    BY <1>1, <2>1 DEF Stored, RowsShaped, Grows
  <2> QED
    BY <1>3, <2>1, <2>2, <2>3 DEF Stored, Attributing, NamesOf, RecordsIn, VoicesIn
<1>6. CASE Build
  <2>1. /\ UNCHANGED <<runs, attributed, voices>> /\ pc = "build" /\ pc' = "records"
        /\ basis' = [basis EXCEPT ![Run] = Basis] /\ Run' = Run /\ Run \in RunId
        /\ built' = [records |-> BuildRecords, voices |-> BuildVoices]
    BY <1>2, <1>6 DEF Build, tables, Run
  <2>2. basis'[Run] = Basis /\ \A n \in 1..Run : n # Run => basis'[n] = basis[n]
    BY <1>1, <2>1, ConstantsAssumption DEF Registered, RunId, Grows
  <2>3. BuildRecords = RecordsIn(Basis) /\ BuildVoices = VoicesIn(Basis)
    BY DEF BuildRecords, BuildVoices, RecordsIn, VoicesIn, Basis, Complete
  <2>4. RowsShaped(attributed)' /\ RowsShaped(voices)'
    BY <2>1 DEF RowsShaped, Stored
  <2>5. built' = [records |-> RecordsIn(basis[Run])', voices |-> VoicesIn(basis[Run])']
    BY <2>1, <2>2, <2>3 DEF RecordsIn, VoicesIn
  <2>6. ASSUME NEW n \in 1..Run', Attribution(n)', Succeeded(n)'
        PROVE  NamesOf(n, attributed)' = RecordsIn(basis[n])' /\ NamesOf(n, voices)' = VoicesIn(basis[n])'
    BY <1>3, <2>1, <2>2, <2>6 DEF Attributing, NamesOf, RecordsIn, VoicesIn
  <2> QED
    BY <2>1, <2>4, <2>5, <2>6 DEF Stored, Attributing
<1>7. CASE UpsertRecords
  <2>1. /\ UNCHANGED <<runs, voices, basis, built>> /\ pc = "records" /\ pc' = "voices" /\ Run' = Run
        /\ attributed' = Upserted(attributed, built.records) /\ Run \in 1..Run
    BY <1>2, <1>7 DEF UpsertRecords, tables, Run
  <2>2. built.records = RecordsIn(basis[Run])
    BY <2>1 DEF Stored
  <2>3. /\ RowsShaped(attributed') /\ NamesOf(Run, attributed') = RecordsIn(basis[Run])
        /\ \A n \in 1..Run : n # Run => NamesOf(n, attributed') = NamesOf(n, attributed)
    BY <2>1, <2>2, UpsertedRows DEF Stored
  <2>4. RowsShaped(attributed)' /\ RowsShaped(voices)'
    BY <2>1, <2>3 DEF RowsShaped, Stored
  <2>5. NamesOf(Run, attributed)' = RecordsIn(basis[Run])'
    BY <2>1, <2>3 DEF NamesOf, RecordsIn
  <2>6. ASSUME NEW n \in 1..Run', Attribution(n)', Succeeded(n)'
        PROVE  NamesOf(n, attributed)' = RecordsIn(basis[n])' /\ NamesOf(n, voices)' = VoicesIn(basis[n])'
    BY <1>3, <2>1, <2>3, <2>6 DEF Attributing, NamesOf, RecordsIn, VoicesIn
  <2> QED
    BY <2>1, <2>4, <2>5, <2>6 DEF Stored, Attributing, RecordsIn, VoicesIn
<1>8. CASE UpsertVoices
  <2>1. /\ UNCHANGED <<runs, attributed, basis>> /\ pc = "voices" /\ pc' = "finish" /\ Run' = Run
        /\ voices' = Upserted(voices, built.voices) /\ Run \in 1..Run
    BY <1>2, <1>8 DEF UpsertVoices, tables, Run
  <2>2. built.voices = VoicesIn(basis[Run])
    BY <2>1 DEF Stored
  <2>3. /\ RowsShaped(voices') /\ NamesOf(Run, voices') = VoicesIn(basis[Run])
        /\ \A n \in 1..Run : n # Run => NamesOf(n, voices') = NamesOf(n, voices)
    BY <2>1, <2>2, UpsertedRows DEF Stored, Attributing
  <2>4. RowsShaped(attributed)' /\ RowsShaped(voices)'
    BY <2>1, <2>3 DEF RowsShaped, Stored
  <2>5. NamesOf(Run, attributed)' = RecordsIn(basis[Run])' /\ NamesOf(Run, voices)' = VoicesIn(basis[Run])'
    BY <2>1, <2>3 DEF Stored, NamesOf, RecordsIn, VoicesIn
  <2>6. ASSUME NEW n \in 1..Run', Attribution(n)', Succeeded(n)'
        PROVE  NamesOf(n, attributed)' = RecordsIn(basis[n])' /\ NamesOf(n, voices)' = VoicesIn(basis[n])'
    BY <1>3, <2>1, <2>3, <2>6 DEF Attributing, NamesOf, RecordsIn, VoicesIn
  <2> QED
    BY <2>1, <2>4, <2>5, <2>6 DEF Stored, Attributing
<1> QED
  BY <1>4, <1>5, <1>6, <1>7, <1>8 DEF Writes, AttributionStep

(* A request keeps what it has read of a snapshot; that the run was        *)
(* complete then does not change.                                          *)
LEMMA AnsweredKept ==
  ASSUME IInv, Stages, Registered, Answered, Writes
  PROVE  Answered'
<1>1. Grows /\ (\A n \in 1..Run : Succeeded(n) => Succeeded(n)') /\ UNCHANGED request
  BY WritesGrow DEF Writes, AttributionStep, StartAttribution, Build, UpsertRecords, UpsertVoices
<1> SUFFICES ASSUME request.at \in Snapshotting
             PROVE  Answered'
  BY <1>1 DEF Answered
<1>2. Attribution(request.run) /\ Succeeded(request.run)
  BY DEF Answered
<1>3. request.run \in 1..Run
  BY <1>2 DEF Attribution
<1>4. Attribution(request.run)' /\ Succeeded(request.run)'
  <2>1. runs'[request.run] = runs[request.run]
    BY <1>1, <1>2, <1>3 DEF Grows, Succeeded
  <2> QED
    BY <1>1, <1>2, <1>3, <2>1 DEF Attribution, Succeeded, Grows
<1>5. basis'[request.run] = basis[request.run]
  <2>1. CASE Build
    <3>1. Run # request.run /\ request.run \in RunId
      BY <1>1, <1>2, <1>3, <2>1, ConstantsAssumption DEF Build, IInv, Busy, Succeeded, RunId, Grows
    <3> QED
      BY <2>1, <3>1 DEF Build, Registered
  <2> QED
    BY <2>1 DEF Writes, AttributionStep, StartAttribution, UpsertRecords, UpsertVoices
<1> QED
  BY <1>1, <1>4, <1>5 DEF Answered, RecordsIn, VoicesIn

(* Writing changes none of the characters while an attribution is current. *)
LEMMA ResolvedKept ==
  ASSUME IInv, Stages, Registered, Answered, Resolved, Writes
  PROVE  Resolved'
<1>1. Grows /\ UNCHANGED request
  BY WritesGrow DEF Writes, AttributionStep, StartAttribution, Build, UpsertRecords, UpsertVoices
<1>2. ASSUME request.at \in Snapshotting
      PROVE  basis'[request.run] = basis[request.run]
  <2>1. Attribution(request.run) /\ Succeeded(request.run) /\ request.run \in 1..Run
    BY <1>2 DEF Answered, Attribution
  <2>2. CASE Build
    <3>1. Run # request.run /\ request.run \in RunId
      BY <1>1, <2>1, <2>2, ConstantsAssumption DEF Build, IInv, Busy, Succeeded, RunId, Grows
    <3> QED
      BY <2>2, <3>1 DEF Build, Registered
  <2> QED
    BY <2>2 DEF Writes, AttributionStep, StartAttribution, UpsertRecords, UpsertVoices
<1>3. ASSUME request.at \in Asked, NEW n \in 1..request.since, inputs'[n] # None,
             IsLatestInput(n, "characters")'
      PROVE  /\ inputs[n] # None /\ IsLatestInput(n, "characters")
             /\ \A r \in Of("characters") : parents'[r] = parents[r]
  <2>1. n \in 1..Run /\ n \in RunId
    BY <1>1, <1>3, ConstantsAssumption DEF Resolved, Grows, RunId
  <2>2. inputs'[n] = inputs[n]
    BY <1>1, <2>1 DEF Writes, AttributionStep, StartAttribution, Build, UpsertRecords, UpsertVoices,
       Registered, Grows
  <2>3. inputs[n]["characters"] \in 1..Run
    BY <1>1, <1>3, <2>1, <2>2, InputsAreRuns DEF Grows, InputKinds
  <2>4. IsLatestInput(n, "characters")
    BY <1>1, <1>3, <2>2, <2>3, LatestKept DEF IsLatestInput
  <2>5. Kind # "characters"
    BY <1>1, <1>3, <2>1, <2>2, <2>4, OwnRunIsNoInput DEF Grows, InputKinds
  <2>6. \A r \in Of("characters") : parents'[r] = parents[r]
    BY <2>5, CatalogStep DEF Writes, AttributionStep, StartAttribution, Build, UpsertRecords,
       UpsertVoices, tables
  <2> QED
    BY <1>3, <2>2, <2>4, <2>6
<1>4. request.at \in Asked => request.since \in 0..Run'
  BY <1>1 DEF Resolved, Grows
<1> QED
  BY <1>1, <1>2, <1>3, <1>4 DEF Resolved, Complete, VoicesIn

(* A run that has dumped a resource does not do so again.                  *)
StaysFinished(p, r) ==
  p.run <= Run' /\ (p.run = Run' => pc' \in Dealt /\ r \notin todo' \cup Requested')

(* What a run is done with stays done: a run dumps a resource once, and    *)
(* the next run has a later number.                                        *)
LEMMA FinishedKept ==
  ASSUME IInv, Stages, Writes, NEW p, p.run \in Nat, NEW r, Finished(p, r)
  PROVE  StaysFinished(p, r)
<1>1. Grows
  BY WritesGrow
<1>2. CASE Run' = Run + 1
  BY <1>1, <1>2 DEF Grows, Finished, StaysFinished
<1>3. CASE Run' = Run /\ p.run = Run
  <2>1. pc \in Dealt /\ r \notin todo \cup Requested
    BY <1>3 DEF Finished
  <2>2. ~StartAttribution /\ ~\E k \in Kinds, root \in Roots : Starts(k, root)
    BY <1>1, <1>3, AttributionRun, RunStarted DEF Grows, IInv
  <2>3. pc' \in Dealt /\ todo' \cup Requested' \subseteq todo \cup Requested
    <3>1. CASE FinishRun \/ FailRun \/ Die
      BY <3>1, CommandEnded DEF Idle, Dealt, Requested
    <3>2. CASE \E q \in Resources : DumpFails(q) \/ \E C \in SUBSET Own(q) : DumpSucceeds(q, C)
      BY <3>2 DEF DumpFails, DumpSucceeds, Completed, Dealt, Requested, Dumping, Storing
    <3>3. CASE MarkPending \/ UpsertChildren \/ DeleteStaleChildren
      BY <3>3 DEF MarkPending, UpsertChildren, DeleteStaleChildren, Dealt, Requested, Dumping, Storing
    <3>4. CASE StoreDetails
      BY <3>4 DEF StoreDetails, Dealt, Requested, Dumping, Storing
    <3>5. ~(\/ Replaces \/ DeleteDiscarded \/ Build \/ UpsertRecords \/ UpsertVoices
            \/ \E inventory \in SUBSET Of(Kind) : \E identityOf \in [inventory -> Identities] :
                 StoreInventory(inventory, identityOf)
            \/ \E targets \in SUBSET Of(Kind) : Selects(targets))
      BY <2>1 DEF Dealt, Dumping, Storing, Replaces, ReplaceTable, DeleteDiscarded, Build, UpsertRecords,
         UpsertVoices, StoreInventory, Selects, SelectTargets
    <3> QED
      BY <2>2, <3>1, <3>2, <3>3, <3>4, <3>5 DEF Writes, Cases, AttributionStep
  <2> QED
    BY <1>3, <2>1, <2>3 DEF StaysFinished
<1>4. CASE Run' = Run /\ p.run # Run
  BY <1>4 DEF Finished, StaysFinished
<1> QED
  BY <1>1, <1>2, <1>3, <1>4 DEF Grows

(* What a step makes of a parent and of a row.                             *)
LEMMA ParentStep ==
  ASSUME IInv, Writes, NEW r \in Resources
  PROVE  /\ Complete(r)' /\ parents'[r] # parents[r] =>
              StoreDetails /\ r \in batch /\ parents'[r].run = Run /\ Run \in RunId
         /\ parents'[r] # None =>
              parents'[r].run = Run \/ (parents[r] # None /\ parents'[r].run = parents[r].run)
<1>1. CASE AttributionStep
  BY <1>1 DEF AttributionStep, StartAttribution, Build, UpsertRecords, UpsertVoices, tables
<1>2. CASE Cases
  <2>1. ASSUME Complete(r)', parents'[r] # parents[r]
        PROVE  StoreDetails /\ r \in batch /\ parents'[r].run = Run /\ Run \in RunId
    <3>1. StoreDetails
      BY <1>2, <2>1, CompleteUnchanged DEF IInv
    <3>2. r \in batch
      BY <2>1, <3>1 DEF StoreDetails, Complete
    <3> QED
      BY <3>1, <3>2 DEF StoreDetails, IInv, Busy
  <2>2. ASSUME parents'[r] # None
        PROVE  parents'[r].run = Run \/ (parents[r] # None /\ parents'[r].run = parents[r].run)
    <3>1. CASE UNCHANGED parents
      BY <2>2, <3>1
    <3>2. ASSUME NEW inventory \in SUBSET Of(Kind), NEW identityOf \in [inventory -> Identities],
                 StoreInventory(inventory, identityOf)
          PROVE  parents'[r].run = Run \/ (parents[r] # None /\ parents'[r].run = parents[r].run)
      BY <2>2, <3>2 DEF StoreInventory, Pending
    <3>3. CASE MarkPending
      BY <2>2, <3>3 DEF MarkPending, Reset, Pending
    <3>4. CASE StoreDetails
      <4>1. \A q \in Requested : IsPending(q)
        BY <3>4 DEF IInv, StoreDetails, Claimed, Storing
      <4>2. ASSUME r \in failures
            PROVE  parents[r] # None /\ [parents[r] EXCEPT !.status = "failed"].run = parents[r].run
        BY <4>1, <4>2, PublicationAssumption DEF IsPending, ParentRecord, Requested
      <4> QED
        BY <2>2, <3>4, <4>2 DEF StoreDetails
    <3> QED
      BY <1>2, <3>1, <3>2, <3>3, <3>4, CommandEnded DEF Cases, Starts, StartRun, Replaces, ReplaceTable,
         DeleteDiscarded, Selects, SelectTargets, DumpFails, DumpSucceeds, Completed, UpsertChildren,
         DeleteStaleChildren
  <2> QED
    BY <2>1, <2>2
<1> QED
  BY <1>1, <1>2 DEF Writes

(* Rows are pruned, or written by the run that dumps their resource.       *)
LEMMA RowStep ==
  ASSUME IInv, Writes, NEW c \in Children, rows'[c] # rows[c]
  PROVE  rows'[c] = None \/ (rows'[c] = Run /\ ParentOf[c] \in Requested /\ pc \in Dealt)
<1>1. CASE UpsertChildren
  BY <1>1 DEF UpsertChildren, Requested, Dealt, Storing
<1>2. CASE DeleteDiscarded \/ DeleteStaleChildren
  BY <1>2 DEF DeleteDiscarded, DeleteStaleChildren
<1> QED
  BY <1>1, <1>2, CommandEnded DEF Writes, Cases, Starts, StartRun, Replaces, ReplaceTable,
     StoreInventory, Selects, SelectTargets, DumpFails, DumpSucceeds, Completed, MarkPending,
     StoreDetails, AttributionStep, StartAttribution, Build, UpsertRecords, UpsertVoices, tables

(* What a request shows was complete, and neither run nor rows are taken   *)
(* up again.                                                               *)
LEMMA GenerationsKept ==
  ASSUME IInv, Stages, Generations, Writes
  PROVE  Generations'
<1>1. Grows /\ UNCHANGED request
  BY WritesGrow DEF Writes, AttributionStep, StartAttribution, Build, UpsertRecords, UpsertVoices
<1>2. \A r \in Resources : parents[r] # None => parents[r] \in ParentRecord /\ parents[r].run \in RunId
  BY DEF IInv, TablesTyped, ParentRecord
<1>3. ASSUME NEW r \in Resources, parents'[r] # None
      PROVE  parents'[r].run <= Run' /\ (Complete(r)' => StaysFinished(parents'[r], r))
  <2>1. parents'[r].run \in Nat /\ parents'[r].run <= Run'
    <3>1. parents'[r].run = Run \/ (parents[r] # None /\ parents'[r].run = parents[r].run)
      BY <1>3, ParentStep
    <3> QED
      BY <1>1, <1>2, <3>1, ConstantsAssumption DEF Generations, Grows, RunId
  <2>2. CASE Complete(r)' /\ parents'[r] = parents[r]
    <3>1. Finished(parents[r], r) /\ parents[r].run \in Nat
      BY <1>2, <1>3, <2>2, ConstantsAssumption DEF Generations, Complete, RunId
    <3>2. StaysFinished(parents[r], r)
      BY <3>1, FinishedKept
    <3> QED
      BY <2>2, <3>2 DEF StaysFinished
  <2>3. CASE Complete(r)' /\ parents'[r] # parents[r]
    <3>1. StoreDetails /\ r \in batch
      BY <2>3, ParentStep
    <3>2. pc' \in Dealt /\ r \notin todo' \cup Requested'
      BY <3>1 DEF StoreDetails, Dealt, Dumping, Storing, IInv, Confined, Requested
    <3> QED
      BY <2>1, <3>2 DEF StaysFinished
  <2> QED
    BY <2>1, <2>2, <2>3
<1>4. ASSUME request.at \in Showing, NEW r \in Resources, request.shown[r] # None
      PROVE  /\ request.shown[r] \in ParentRecord /\ request.shown[r].status = "complete"
             /\ StaysFinished(request.shown[r], r)
             /\ request.at # "page" =>
                  \A c \in Own(r) : rows'[c] = request.shown[r].run => c \in request.shown[r].detail
  <2>1. /\ request.shown[r] \in ParentRecord /\ request.shown[r].status = "complete"
        /\ Finished(request.shown[r], r)
    BY <1>4 DEF Generations, Details
  <2>2. request.shown[r].run \in RunId /\ request.shown[r].run \in Nat
    BY <2>1, ConstantsAssumption DEF ParentRecord, RunId
  <2>3. StaysFinished(request.shown[r], r)
    BY <2>1, <2>2, FinishedKept
  <2>4. ASSUME request.at # "page", NEW c \in Own(r), rows'[c] = request.shown[r].run
        PROVE  c \in request.shown[r].detail
    <3>1. c \in Children /\ ParentOf[c] = r
      BY DEF Own
    <3>2. rows'[c] = rows[c]
      BY <2>1, <2>2, <2>4, <3>1, RowStep, ConstantsAssumption DEF Finished
    <3> QED
      BY <1>4, <2>4, <3>2 DEF Generations
  <2> QED
    BY <2>1, <2>3, <2>4
<1> QED
  BY <1>1, <1>3, <1>4 DEF Generations, Finished, StaysFinished, Details

(* What an attribution reads is of one piece.                              *)
LEMMA InputsKept ==
  ASSUME IInv, Registered, Stages, MetadataWhole, InputsAreWhole, Writes
  PROVE  InputsAreWhole'
<1>1. Grows
  BY WritesGrow
<1>2. CASE ~Build
  <2>1. UNCHANGED basis
    BY <1>2 DEF Writes, AttributionStep, StartAttribution, UpsertRecords, UpsertVoices
  <2>2. ASSUME NEW n \in 1..Run', basis[n] # None
        PROVE  n \in 1..Run /\ inputs'[n] = inputs[n]
    <3>1. n \in RunId /\ n \in 1..Run
      BY <1>1, <2>2, ConstantsAssumption DEF Registered, Grows, RunId
    <3> QED
      BY <1>1, <3>1 DEF Writes, AttributionStep, StartAttribution, Build, UpsertRecords, UpsertVoices,
         Registered, Grows
  <2> QED
    BY <2>1, <2>2 DEF InputsAreWhole
<1>3. CASE Build
  <2>1. /\ UNCHANGED <<runs, inputs>> /\ Run' = Run /\ pc = "build"
        /\ basis' = [basis EXCEPT ![Run] = Basis]
        /\ Run \in RunId /\ Run \in 1..Run /\ Kind = "attribution"
    BY <1>3 DEF Build, tables, Run, IInv, Busy, RunId, Stages, Attributing
  <2>2. inputs[Run] # None
    BY <2>1 DEF Registered, Kind
  <2>3. \A k \in InputKinds : inputs[Run][k] \in LatestRun(k) /\ Succeeded(inputs[Run][k])
    BY <1>1, <2>1, <2>2, InputsAreRuns DEF Stages, IsLatestInput, Grows
  <2>4. \A t \in DOMAIN Basis.metadata : Basis.metadata[t] = inputs[Run]["metadata"]
    <3>1. MetadataOf(inputs[Run]["metadata"], BulkTables["metadata"])
      BY <2>3 DEF MetadataWhole, InputKinds
    <3>2. Basis.metadata = bulk["metadata"] /\ DOMAIN bulk["metadata"] = 1..BulkTables["metadata"]
      BY PublicationAssumption DEF Basis, IInv, TablesTyped
    <3> QED
      BY <3>1, <3>2, ConstantsAssumption, PublicationAssumption DEF MetadataOf
  <2>5. ASSUME NEW c \in Children, KindOf[ParentOf[c]] = "dialogues", parents[ParentOf[c]] # None
        PROVE  rows[c] = IF parents[ParentOf[c]].status = "complete" /\ c \in parents[ParentOf[c]].detail
                         THEN parents[ParentOf[c]].run ELSE None
    <3>1. ParentOf[c] \in Resources /\ c \in Own(ParentOf[c])
      BY ConstantsAssumption DEF Own
    <3>2. CASE Complete(ParentOf[c])
      BY <3>1, <3>2 DEF IInv, CompleteHasItsRows, Complete
    <3>3. CASE ~Complete(ParentOf[c])
      BY <2>3, <2>5, <3>3 DEF IInv, NoLinesWithoutDetails, Complete, InputKinds
    <3> QED
      BY <3>2, <3>3
  <2>6. ASSUME NEW n \in 1..Run, basis'[n] # None
        PROVE  (n # Run /\ basis'[n] = basis[n]) \/ (n = Run /\ basis'[n] = Basis)
    BY <1>1, <2>1, ConstantsAssumption DEF Registered, Grows, RunId
  <2>7. Basis.parents = parents /\ Basis.rows = rows
    BY DEF Basis
  <2> QED
    BY <2>1, <2>4, <2>5, <2>6, <2>7 DEF InputsAreWhole
<1> QED
  BY <1>2, <1>3

(* A page is not read again.                                               *)
LEMMA PageKept ==
  ASSUME IInv, Generations, PageOfOneGeneration, Writes
  PROVE  PageOfOneGeneration'
<1>1. UNCHANGED request
  BY DEF Writes, AttributionStep, StartAttribution, Build, UpsertRecords, UpsertVoices
<1>2. ASSUME request.at = "page", NEW r \in Resources, request.shown[r] # None,
             parents'[r] = request.shown[r]
      PROVE  parents[r] = request.shown[r]
  <2>1. Complete(r)' /\ Finished(request.shown[r], r)
    BY <1>2 DEF Complete, Generations, Details, Showing
  <2>2. ~(StoreDetails /\ r \in batch /\ parents'[r].run = Run)
    BY <1>2, <2>1 DEF Finished, Requested
  <2> QED
    BY <1>2, <2>1, <2>2, ParentStep
<1> QED
  BY <1>1, <1>2 DEF PageOfOneGeneration

-----------------------------------------------------------------------------
(* And under steps that read                                               *)

(* What does not mention the request is left as it is.                     *)
LEMMA StoredStays ==
  ASSUME PublicationInv, UNCHANGED <<vars, inputs, attributed, voices, built, basis>>
  PROVE  /\ IInv' /\ Registered' /\ Stages' /\ Current' /\ MetadataWhole' /\ Stored' /\ InputsAreWhole'
         /\ Run' = Run /\ \A r \in Resources : Complete(r)' = Complete(r)
<1>1. IInv'
  BY InvariantStutters DEF PublicationInv
<1>2. Registered' /\ Stages' /\ Current'
  BY DEF PublicationInv, vars, Registered, Stages, Current, Succeeded, Attribution, IsLatestInput,
     LatestRun, Basis, Run, Kind
<1>3. MetadataWhole' /\ InputsAreWhole'
  BY DEF PublicationInv, vars, MetadataWhole, MetadataOf, InputsAreWhole, Succeeded, LatestRun, Run, Kind
<1>4. Stored'
  BY DEF PublicationInv, vars, Stored, RowsShaped, NamesOf, RecordsIn, VoicesIn, Attribution, Succeeded,
     Run, Kind
<1>5. Run' = Run /\ \A r \in Resources : Complete(r)' = Complete(r)
  BY DEF vars, Run, Complete
<1> QED
  BY <1>1, <1>2, <1>3, <1>4, <1>5

(* A query for the parents of a catalog shows the complete ones.           *)
LEMMA ParentsRead ==
  ASSUME IInv, Generations, NEW k \in Catalogs, NEW filtered \in SUBSET Of(k), ReadParents(k, filtered)
  PROVE  /\ request.at = "parents" /\ k \in request.reads
         /\ request.tables = {} => filtered = {}
         /\ \/ request' = NoRequest
            \/ \E where \in {"parents", "snapshot", "children"} :
               \E shown \in [Resources -> ParentRecord \cup {None}] :
                 /\ request' = [at |-> where, reads |-> request.reads \ {k}, tables |-> request.tables,
                                catalogs |-> request.catalogs, since |-> request.since, shown |-> shown]
                 /\ where = "parents" \/ request.reads \ {k} = {}
                 /\ where = "snapshot" => request.tables = {}
                 /\ \A r \in Resources :
                      shown[r] = IF r \in Of(k) \ filtered /\ Complete(r) THEN parents[r] ELSE request.shown[r]
<1> DEFINE shown == [r \in Resources |->
                       IF r \in Of(k) \ filtered /\ Complete(r) THEN parents[r] ELSE request.shown[r]]
           more == request.reads \ {k}
           q(where) == [at |-> where, reads |-> more, tables |-> request.tables,
                        catalogs |-> request.catalogs, since |-> request.since, shown |-> shown]
<1>1. request.at = "parents" /\ k \in request.reads /\ (filtered = {} \/ Filterable)
  BY DEF ReadParents
<1>2. request.tables = {} => filtered = {}
  BY <1>1, FS_EmptySet DEF Filterable
<1>3. PICK rs, ts, cs, since, before :
        request = [at |-> "parents", reads |-> rs, tables |-> ts, catalogs |-> cs,
                   since |-> since, shown |-> before]
  BY <1>1 DEF Generations
<1>4. request' =
        IF more # {} THEN [request EXCEPT !.reads = more, !.shown = shown]
        ELSE IF request.tables = {} THEN [request EXCEPT !.reads = {}, !.shown = shown, !.at = "snapshot"]
        ELSE IF \A r \in Resources : shown[r] = None THEN NoRequest
        ELSE [request EXCEPT !.reads = {}, !.shown = shown, !.at = "children"]
  BY DEF ReadParents
<1>5. shown \in [Resources -> ParentRecord \cup {None}]
  BY <1>1 DEF Generations, Details, Showing, IInv, TablesTyped
<1>6. \A r \in Resources :
        shown[r] = IF r \in Of(k) \ filtered /\ Complete(r) THEN parents[r] ELSE request.shown[r]
  OBVIOUS
<1> HIDE DEF shown
<1>7. \/ request' = NoRequest
      \/ request' = q("parents")
      \/ request' = q("snapshot") /\ more = {} /\ request.tables = {}
      \/ request' = q("children") /\ more = {}
  <2>1. /\ request.tables = ts /\ request.catalogs = cs /\ request.since = since
    BY <1>3
  <2>2. ASSUME NEW left
        PROVE  [request EXCEPT !.reads = left, !.shown = shown]
                 = [at |-> "parents", reads |-> left, tables |-> ts, catalogs |-> cs,
                    since |-> since, shown |-> shown]
    <3>1. PICK half : half = [request EXCEPT !.reads = left]
      OBVIOUS
    <3>2. half = [at |-> "parents", reads |-> left, tables |-> ts, catalogs |-> cs,
                  since |-> since, shown |-> before]
      BY <1>3, <3>1
    <3>3. [half EXCEPT !.shown = shown]
            = [at |-> "parents", reads |-> left, tables |-> ts, catalogs |-> cs,
               since |-> since, shown |-> shown]
      BY <3>2
    <3>4. [request EXCEPT !.reads = left, !.shown = shown] = [half EXCEPT !.shown = shown]
      BY <3>1, Zenon
    <3> QED
      BY <3>3, <3>4
  <2>3. [request EXCEPT !.reads = more, !.shown = shown] = q("parents")
    BY <2>1, <2>2
  <2>4. ASSUME NEW where
        PROVE  [request EXCEPT !.reads = {}, !.shown = shown, !.at = where]
                 = [at |-> where, reads |-> {}, tables |-> ts, catalogs |-> cs,
                    since |-> since, shown |-> shown]
    <3>1. PICK half : half = [request EXCEPT !.reads = {}, !.shown = shown]
      OBVIOUS
    <3>2. half = [at |-> "parents", reads |-> {}, tables |-> ts, catalogs |-> cs,
                  since |-> since, shown |-> shown]
      BY <2>2, <3>1
    <3>3. [half EXCEPT !.at = where]
            = [at |-> where, reads |-> {}, tables |-> ts, catalogs |-> cs,
               since |-> since, shown |-> shown]
      BY <3>2
    <3>4. [request EXCEPT !.reads = {}, !.shown = shown, !.at = where] = [half EXCEPT !.at = where]
      BY <3>1, Zenon
    <3> QED
      BY <3>3, <3>4
  <2>5. more = {} => /\ q("snapshot") = [at |-> "snapshot", reads |-> {}, tables |-> ts, catalogs |-> cs,
                                         since |-> since, shown |-> shown]
                     /\ q("children") = [at |-> "children", reads |-> {}, tables |-> ts, catalogs |-> cs,
                                         since |-> since, shown |-> shown]
    BY <2>1
  <2> HIDE DEF more, q
  <2> QED
    BY <1>4, <2>3, <2>4, <2>5
<1> QED
  BY <1>1, <1>2, <1>5, <1>6, <1>7

(* Requests that ask for a snapshot are given the one built of what is     *)
(* stored.                                                                 *)
LEMMA SnapshotRead ==
  ASSUME PublicationInv, PublishedRun # None
  PROVE  /\ PublishedRun \in 1..Run /\ Attribution(PublishedRun) /\ Succeeded(PublishedRun)
         /\ \A k \in InputKinds : IsLatestInput(PublishedRun, k)
         /\ basis[PublishedRun] = Basis /\ inputs[PublishedRun] # None
<1>1. /\ PublishedRun \in 1..Run /\ runs[PublishedRun].kind = "attribution"
      /\ runs[PublishedRun].status = "complete" /\ \A k \in InputKinds : IsLatestInput(PublishedRun, k)
  BY DEF PublishedRun
<1>2. Attribution(PublishedRun) /\ Succeeded(PublishedRun)
  BY <1>1 DEF Attribution, Succeeded
<1>3. basis[PublishedRun] = Basis /\ inputs[PublishedRun] # None
  BY <1>1, <1>2 DEF PublicationInv, Stages, Current, Registered
<1> QED
  BY <1>1, <1>2, <1>3

(* Each read of a published snapshot answers with the rows of the run that *)
(* the request chose.                                                      *)
LEMMA AnsweredRead ==
  ASSUME PublicationInv, ReaderStep
  PROVE  Answered'
<1>1. UNCHANGED <<vars, inputs, attributed, voices, built, basis>>
  BY ReadersRead
<1>2. \A n : Attribution(n)' = Attribution(n) /\ Succeeded(n)' = Succeeded(n)
  BY <1>1 DEF vars, Attribution, Succeeded, Run
<1>3. CASE ReadRuns
  <2>1. CASE PublishedRun = None
    BY <1>3, <2>1 DEF ReadRuns, Answered, NoRequest, Snapshotting
  <2>2. CASE PublishedRun # None
    <3>1. request'.at = "rows" /\ request'.run = PublishedRun
      BY <1>3, <2>2 DEF ReadRuns
    <3> QED
      BY <1>2, <2>2, <3>1, SnapshotRead DEF Answered
  <2> QED
    BY <2>1, <2>2
<1>4. CASE ReadAttributed
  <2>1. /\ request.at = "rows" /\ request'.at = "attributed" /\ request'.run = request.run
        /\ request'.attributed = NamesOf(request.run, attributed)
    BY <1>4 DEF ReadAttributed, NamesOf
  <2>2. Attribution(request.run) /\ Succeeded(request.run) /\ request.run \in 1..Run
    BY <2>1 DEF PublicationInv, Answered, Snapshotting, Attribution
  <2>3. NamesOf(request.run, attributed) = RecordsIn(basis[request.run])
    BY <2>2 DEF PublicationInv, Stored
  <2> QED
    BY <1>1, <1>2, <2>1, <2>2, <2>3 DEF Answered, RecordsIn
<1>5. CASE ReadVoices
  <2>1. /\ request.at = "attributed" /\ request'.at = "published" /\ request'.run = request.run
        /\ request'.attributed = request.attributed /\ request'.voices = NamesOf(request.run, voices)
    BY <1>5 DEF ReadVoices, NamesOf
  <2>2. /\ Attribution(request.run) /\ Succeeded(request.run) /\ request.run \in 1..Run
        /\ request.attributed = RecordsIn(basis[request.run])
    BY <2>1 DEF PublicationInv, Answered, Snapshotting, Attribution
  <2>3. NamesOf(request.run, voices) = VoicesIn(basis[request.run])
    BY <2>2 DEF PublicationInv, Stored
  <2> QED
    BY <1>1, <1>2, <2>1, <2>2, <2>3 DEF Answered, RecordsIn, VoicesIn
<1>6. CASE \E k \in Catalogs : \E filtered \in SUBSET Of(k) : ReadParents(k, filtered)
  <2>1. request'.at \notin Snapshotting
    BY <1>6, ParentsRead DEF PublicationInv, NoRequest, Snapshotting
  <2> QED
    BY <2>1 DEF Answered
<1>7. CASE \/ \E wanted \in Requests : Ask(wanted)
           \/ OrderedPage \/ CountTables \/ MatchIds \/ FetchIds \/ Answer
  <2>1. request'.at \notin Snapshotting
    BY <1>7 DEF Ask, OrderedPage, CountTables, ReadChildren, MatchIds, FetchIds, Answer, NoRequest,
       Snapshotting
  <2> QED
    BY <2>1 DEF Answered
<1> QED
  BY <1>3, <1>4, <1>5, <1>6, <1>7 DEF ReaderStep

(* Of an attribution that was there when the request began, and is still   *)
(* current when it is read, every voice has its characters.                *)
LEMMA ResolvedRead ==
  ASSUME PublicationInv, ReaderStep
  PROVE  Resolved'
<1>1. UNCHANGED <<vars, inputs, attributed, voices, built, basis>>
  BY ReadersRead
<1>2. Run' = Run /\ Run \in Nat /\ \A r \in Resources : Complete(r)' = Complete(r)
  BY <1>1, StoredStays, LenProperties DEF PublicationInv, IInv, TablesTyped, Run
<1>3. \A n : IsLatestInput(n, "characters")' = IsLatestInput(n, "characters")
  BY <1>1 DEF vars, IsLatestInput, LatestRun, Run
<1>4. ASSUME NEW wanted \in Requests, Ask(wanted)
      PROVE  Resolved'
  <2>1. /\ request' = [at |-> "parents", reads |-> wanted.reads, tables |-> wanted.tables,
                       catalogs |-> wanted.reads, since |-> Run, shown |-> [r \in Resources |-> None]]
    BY <1>4 DEF Ask
  <2> QED
    BY <1>2, <2>1 DEF Resolved, Asked, Snapshotting
<1>5. ASSUME NEW k \in Catalogs, NEW filtered \in SUBSET Of(k), ReadParents(k, filtered)
      PROVE  Resolved'
  <2>1. CASE request' = NoRequest
    BY <2>1 DEF Resolved, Asked, Snapshotting, NoRequest
  <2>2. CASE request' # NoRequest
    <3>1. /\ request.at = "parents" /\ k \in request.reads /\ (request.tables = {} => filtered = {})
      BY <1>5, ParentsRead DEF PublicationInv
    <3>2. PICK where \in {"parents", "snapshot", "children"},
               shown \in [Resources -> ParentRecord \cup {None}] :
            /\ request' = [at |-> where, reads |-> request.reads \ {k}, tables |-> request.tables,
                           catalogs |-> request.catalogs, since |-> request.since, shown |-> shown]
            /\ where = "parents" \/ request.reads \ {k} = {}
            /\ where = "snapshot" => request.tables = {}
            /\ \A r \in Resources :
                 shown[r] = IF r \in Of(k) \ filtered /\ Complete(r) THEN parents[r] ELSE request.shown[r]
      BY <1>5, <2>2, ParentsRead DEF PublicationInv
    <3>3. ASSUME request.tables = {}, "characters" \in request.catalogs \ (request.reads \ {k}),
                 NEW n \in 1..request.since, inputs[n] # None, IsLatestInput(n, "characters"),
                 NEW r \in Of("characters")
          PROVE  shown[r] = IF Complete(r) THEN parents[r] ELSE None
      <4>1. r \in Resources /\ KindOf[r] = "characters"
        BY DEF Of
      <4>2. CASE k = "characters"
        BY <3>1, <3>2, <3>3, <4>1, <4>2 DEF PublicationInv, Generations
      <4>3. CASE k # "characters"
        BY <3>1, <3>2, <3>3, <4>1, <4>3 DEF PublicationInv, Resolved, Asked, Of
      <4> QED
        BY <4>2, <4>3
    <3>4. request.since \in 0..Run
      BY <3>1 DEF PublicationInv, Resolved, Asked
    <3> QED
      BY <1>1, <1>2, <1>3, <3>2, <3>3, <3>4 DEF Resolved, Asked, Snapshotting, vars, Of
  <2> QED
    BY <2>1, <2>2
<1>6. CASE ReadRuns
  <2>1. CASE PublishedRun = None
    BY <1>6, <2>1 DEF ReadRuns, Resolved, Asked, NoRequest, Snapshotting
  <2>2. CASE PublishedRun # None
    <3>1. /\ request.at = "snapshot" /\ request'.at = "rows" /\ request'.run = PublishedRun
          /\ request'.catalogs = request.catalogs /\ request'.since = request.since
          /\ request'.shown = request.shown
      BY <1>6, <2>2 DEF ReadRuns
    <3>2. ASSUME "characters" \in request.catalogs, PublishedRun <= request.since,
                 NEW r \in VoicesIn(basis[PublishedRun])
          PROVE  request.shown[r] # None
      <4>1. PublishedRun \in 1..request.since
        BY <1>2, <2>2, <3>1, <3>2, SnapshotRead DEF PublicationInv, Resolved, Asked
      <4>2. /\ inputs[PublishedRun] # None /\ IsLatestInput(PublishedRun, "characters")
            /\ basis[PublishedRun] = Basis
        BY <2>2, SnapshotRead DEF InputKinds
      <4>3. r \in Of("characters") /\ Complete(r)
        BY <3>2, <4>2 DEF VoicesIn, Basis, Complete
      <4> QED
        BY <3>1, <3>2, <4>1, <4>2, <4>3 DEF PublicationInv, Resolved, Asked, Complete
    <3>3. basis'[PublishedRun] = basis[PublishedRun]
      BY <1>1
    <3> QED
      BY <3>1, <3>2, <3>3 DEF Resolved, Asked, VoicesIn
  <2> QED
    BY <2>1, <2>2
<1>7. CASE ReadAttributed \/ ReadVoices
  <2>1. /\ request.at \in Snapshotting /\ request'.at \in {"attributed", "published"}
        /\ request'.run = request.run
        /\ request'.catalogs = request.catalogs /\ request'.since = request.since
        /\ request'.shown = request.shown
    BY <1>7 DEF ReadAttributed, ReadVoices, Snapshotting
  <2> QED
    BY <1>1, <2>1 DEF PublicationInv, Resolved, Asked, VoicesIn
<1>8. CASE OrderedPage \/ CountTables \/ MatchIds \/ FetchIds \/ Answer
  <2>1. request'.at \notin Snapshotting \cup Asked
    BY <1>8 DEF OrderedPage, CountTables, ReadChildren, MatchIds, FetchIds, Answer, NoRequest,
       Snapshotting, Asked
  <2> QED
    BY <2>1 DEF Resolved, Asked
<1> QED
  BY <1>4, <1>5, <1>6, <1>7, <1>8 DEF ReaderStep

(* What a request shows of a resource is, when it reads it, complete, with *)
(* its rows.                                                               *)
LEMMA GenerationsRead ==
  ASSUME PublicationInv, ReaderStep
  PROVE  Generations'
<1>1. UNCHANGED vars /\ Run' = Run /\ \A r \in Resources : Complete(r)' = Complete(r)
  BY ReadersRead, StoredStays
<1>2. \A r \in Resources : parents'[r] # None =>
        parents'[r].run <= Run' /\ (Complete(r)' => Finished(parents[r], r)')
  BY <1>1 DEF vars, PublicationInv, Generations, Finished, Requested
<1>3. \A p, r : Details(p, r) => /\ p \in ParentRecord /\ p.status = "complete" /\ p.run <= Run'
                                 /\ p.run = Run' => pc' \in Dealt /\ r \notin todo' \cup Requested'
  BY <1>1 DEF vars, Details, Finished, Requested
<1>4. ASSUME request' = NoRequest \/ request'.at \notin Showing
      PROVE  Generations'
  <2>1. request'.at \notin Showing /\ request'.at # "parents"
    BY <1>4 DEF NoRequest, Showing
  <2> QED
    BY <1>2, <2>1 DEF Generations
<1>5. ASSUME NEW wanted \in Requests, Ask(wanted)
      PROVE  Generations'
  <2>1. request' = [at |-> "parents", reads |-> wanted.reads, tables |-> wanted.tables,
                    catalogs |-> wanted.reads, since |-> Run, shown |-> [r \in Resources |-> None]]
    BY <1>5 DEF Ask
  <2>2. \A r \in Resources : request'.shown[r] = None
    BY <2>1
  <2>3. request' = [at |-> "parents", reads |-> request'.reads, tables |-> request'.tables,
                    catalogs |-> request'.catalogs, since |-> request'.since, shown |-> request'.shown]
    BY <2>1
  <2> QED
    BY <1>2, <2>2, <2>3 DEF Generations
<1>6. ASSUME NEW k \in Catalogs, NEW filtered \in SUBSET Of(k), ReadParents(k, filtered)
      PROVE  Generations'
  <2>1. CASE request' = NoRequest
    BY <1>4, <2>1
  <2>2. CASE request' # NoRequest
    <3>1. PICK where \in {"parents", "snapshot", "children"},
               shown \in [Resources -> ParentRecord \cup {None}] :
            /\ request' = [at |-> where, reads |-> request.reads \ {k}, tables |-> request.tables,
                           catalogs |-> request.catalogs, since |-> request.since, shown |-> shown]
            /\ \A r \in Resources :
                 shown[r] = IF r \in Of(k) \ filtered /\ Complete(r) THEN parents[r] ELSE request.shown[r]
      BY <1>6, <2>2, ParentsRead DEF PublicationInv
    <3>2. request.at = "parents"
      BY <1>6 DEF ReadParents
    <3>3. ASSUME NEW r \in Resources, shown[r] # None
          PROVE  Details(shown[r], r) /\ \A c \in Own(r) : rows[c] = shown[r].run => c \in shown[r].detail
      <4>1. CASE Complete(r) /\ shown[r] = parents[r]
        <5>1. Details(parents[r], r)
          BY <4>1 DEF PublicationInv, Generations, Details, Complete, IInv, TablesTyped
        <5>2. \A c \in Own(r) : rows[c] = parents[r].run => c \in parents[r].detail
          BY <4>1, <5>1, ConstantsAssumption DEF PublicationInv, IInv, CompleteHasItsRows, Details,
             ParentRecord, RunId
        <5> QED
          BY <4>1, <5>1, <5>2
      <4>2. CASE shown[r] = request.shown[r]
        BY <3>2, <3>3, <4>2 DEF PublicationInv, Generations, Showing
      <4> QED
        BY <3>1, <4>1, <4>2
    <3>4. ASSUME where = "parents", NEW r \in Resources, KindOf[r] \in request.reads \ {k}
          PROVE  shown[r] = None
      BY <3>1, <3>2, <3>4 DEF Of, PublicationInv, Generations
    <3>5. request' = [at |-> where, reads |-> request'.reads, tables |-> request'.tables,
                      catalogs |-> request'.catalogs, since |-> request'.since, shown |-> request'.shown]
      BY <3>1
    <3> QED
      BY <1>1, <1>2, <1>3, <3>1, <3>3, <3>4, <3>5 DEF Generations, Details, Finished, vars
  <2> QED
    BY <2>1, <2>2
<1>7. CASE ReadChildren
  <2>1. request.at = "children" /\ request'.at = "page" /\ request'.shown = request.shown
    BY <1>7 DEF ReadChildren
  <2>2. \A r \in Resources : request.shown[r] # None => Details(request.shown[r], r)
    BY <2>1 DEF PublicationInv, Generations, Showing
  <2> QED
    BY <1>2, <1>3, <2>1, <2>2 DEF Generations, Details, Finished
<1>8. CASE ReadRuns \/ ReadAttributed \/ ReadVoices \/ MatchIds \/ FetchIds \/ Answer
  <2>1. request' = NoRequest \/ request'.at \notin Showing
    BY <1>8 DEF ReadRuns, ReadAttributed, ReadVoices, MatchIds, FetchIds, Answer, Showing
  <2> QED
    BY <1>4, <2>1
<1> QED
  BY <1>5, <1>6, <1>7, <1>8 DEF ReaderStep, OrderedPage, CountTables

(* A page of the children of a run has those it found, or some of them if  *)
(* the resource is extracted again.                                        *)
LEMMA PageRead ==
  ASSUME PublicationInv, ReaderStep
  PROVE  PageOfOneGeneration'
<1>1. UNCHANGED vars
  BY ReadersRead
<1>2. CASE ReadChildren
  <2>1. /\ request.at = "children" /\ request'.at = "page" /\ request'.tables = request.tables
        /\ request'.shown = request.shown /\ request'.children = {c \in Children : OfGeneration(c)}
    BY <1>2 DEF ReadChildren
  <2> SUFFICES ASSUME NEW r \in Resources, request.shown[r] # None
               PROVE  LET p == request.shown[r]
                          asked == {c \in Own(r) : TableOf[c] \in request.tables}
                          read == {c \in Children : OfGeneration(c)}
                      IN /\ read \cap asked \subseteq p.detail
                         /\ parents[r] = p => read \cap asked = p.detail \cap asked
    BY <1>1, <2>1 DEF PageOfOneGeneration, vars
  <2>2. \A c \in Own(r) : rows[c] = request.shown[r].run => c \in request.shown[r].detail
    BY <2>1 DEF PublicationInv, Generations, Showing
  <2>3. ASSUME parents[r] = request.shown[r]
        PROVE  \A c \in Own(r) : c \in request.shown[r].detail => rows[c] = request.shown[r].run
    BY <2>1, <2>3 DEF PublicationInv, IInv, CompleteHasItsRows, Complete, Generations, Details, Showing
  <2>4. \A c \in Own(r) : c \in Children /\ ParentOf[c] = r
    BY DEF Own
  <2> QED
    BY <2>2, <2>3, <2>4 DEF OfGeneration
<1>3. CASE ~ReadChildren
  <2>1. request'.at # "page"
    <3>1. CASE \E k \in Catalogs : \E filtered \in SUBSET Of(k) : ReadParents(k, filtered)
      BY <3>1, ParentsRead DEF PublicationInv, NoRequest
    <3> QED
      BY <1>3, <3>1 DEF ReaderStep, Ask, ReadRuns, ReadAttributed, ReadVoices, OrderedPage, CountTables,
         MatchIds, FetchIds, Answer, NoRequest
  <2> QED
    BY <2>1 DEF PageOfOneGeneration
<1> QED
  BY <1>2, <1>3

-----------------------------------------------------------------------------
(* The theorems                                                            *)

(* The empty database satisfies the invariant.                             *)
LEMMA PublicationInitially == PublicationInit => PublicationInv
<1> SUFFICES ASSUME PublicationInit PROVE PublicationInv
  OBVIOUS
<1>1. IInv
  BY InvariantInitially DEF PublicationInit
<1>2. Run = 0 /\ 1..Run = {} /\ pc = "idle" /\ request.at = "none"
  BY EmptySeq DEF PublicationInit, Init, Run, NoRequest
<1>3. LatestRun("metadata") = {}
  BY <1>2 DEF LatestRun
<1>4. Registered
  BY <1>2 DEF PublicationInit, Registered
<1>5. Stages /\ Current /\ MetadataWhole /\ InputsAreWhole
  BY <1>2, <1>3 DEF Stages, Attributing, Current, MetadataWhole, InputsAreWhole
<1>6. Stored
  BY <1>2 DEF PublicationInit, Stored, RowsShaped, Attributing
<1>7. Answered /\ Resolved /\ PageOfOneGeneration
  BY <1>2 DEF Answered, Resolved, PageOfOneGeneration, Snapshotting, Asked
<1>8. Generations
  BY <1>2 DEF PublicationInit, Init, Generations, Showing
<1> QED
  BY <1>1, <1>4, <1>5, <1>6, <1>7, <1>8 DEF PublicationInv

(* The steps of commands keep it: those of extractions as in               *)
(* ExtractionProofs, whatever attribution and readers add to the state.    *)
LEMMA PublicationWritten ==
  ASSUME PublicationInv, ExtractionStep \/ AttributionStep
  PROVE  PublicationInv'
<1>1. Writes
  BY WriteCases DEF PublicationInv
<1>2. IInv'
  <2>1. CASE Cases
    BY <2>1, InvariantKept DEF PublicationInv
  <2>2. CASE AttributionStep
    BY <2>2, AttributionKeeps DEF PublicationInv
  <2> QED
    BY <1>1, <2>1, <2>2 DEF Writes
<1>3. Registered' /\ Stages' /\ Current' /\ MetadataWhole' /\ Stored'
  BY <1>1, RegisteredKept, StagesKept, CurrentKept, MetadataKept, StoredKept DEF PublicationInv
<1>4. Answered' /\ Resolved' /\ Generations' /\ InputsAreWhole' /\ PageOfOneGeneration'
  BY <1>1, AnsweredKept, ResolvedKept, GenerationsKept, InputsKept, PageKept DEF PublicationInv
<1> QED
  BY <1>2, <1>3, <1>4 DEF PublicationInv

(* The steps of readers keep it: they only change the request.             *)
LEMMA PublicationKeptByReaders == ASSUME PublicationInv, ReaderStep PROVE PublicationInv'
<1>1. IInv' /\ Registered' /\ Stages' /\ Current' /\ MetadataWhole' /\ Stored' /\ InputsAreWhole'
  BY ReadersRead, StoredStays
<1>2. Answered' /\ Resolved' /\ Generations' /\ PageOfOneGeneration'
  BY AnsweredRead, ResolvedRead, GenerationsRead, PageRead
<1> QED
  BY <1>1, <1>2 DEF PublicationInv

(* So does doing nothing.                                                  *)
LEMMA PublicationStutters == ASSUME PublicationInv, UNCHANGED allVars PROVE PublicationInv'
<1>1. UNCHANGED <<vars, inputs, attributed, voices, built, basis>> /\ UNCHANGED request
  BY DEF allVars, reading
<1>2. /\ IInv' /\ Registered' /\ Stages' /\ Current' /\ MetadataWhole' /\ Stored' /\ InputsAreWhole'
      /\ Run' = Run /\ \A r \in Resources : Complete(r)' = Complete(r)
  BY <1>1, StoredStays
<1>3. Answered'
  BY <1>1, <1>2 DEF PublicationInv, Answered, Attribution, Succeeded, vars
<1>4. Resolved'
  <2>1. \A n : IsLatestInput(n, "characters")' = IsLatestInput(n, "characters")
    BY <1>1, <1>2 DEF IsLatestInput, LatestRun, vars
  <2>2. UNCHANGED <<parents, basis, inputs>>
    BY <1>1 DEF vars
  <2> QED
    BY <1>1, <1>2, <2>1, <2>2 DEF PublicationInv, Resolved, VoicesIn, Of
<1>5. Generations'
  BY <1>1, <1>2 DEF PublicationInv, Generations, Details, Finished, Requested, vars
<1>6. PageOfOneGeneration'
  BY <1>1 DEF PublicationInv, PageOfOneGeneration, vars
<1> QED
  BY <1>2, <1>3, <1>4, <1>5, <1>6 DEF PublicationInv

(* The invariant holds of the database, and of what a request has read of  *)
(* it, throughout every interleaving of commands and readers: with it all  *)
(* that ExtractionProofs shows of extractions also holds between           *)
(* attributions.                                                           *)
THEOREM Publishing == PublicationSpec => []PublicationInv
<1>1. PublicationInv /\ [PublicationNext]_allVars => PublicationInv'
  BY PublicationWritten, PublicationKeptByReaders, PublicationStutters DEF PublicationNext
<1> QED
  BY PublicationInitially, <1>1, PTL DEF PublicationSpec

(* A snapshot that is called published was built of what is stored now.    *)
THEOREM SnapshotIsCurrent == PublicationSpec => []PublishedIsCurrent
<1>1. PublicationInv => PublishedIsCurrent
  BY SnapshotRead DEF PublishedIsCurrent
<1> QED
  BY <1>1, Publishing, PTL

(* The rows of a published snapshot are all of its build, and only these.  *)
THEOREM SnapshotIsWhole == PublicationSpec => []PublishedIsWhole
<1>1. PublicationInv => PublishedIsWhole
  BY DEF PublicationInv, Answered, PublishedIsWhole, Snapshotting, RecordsIn, VoicesIn
<1> QED
  BY <1>1, Publishing, PTL

(* A request finds the characters of every voice it is shown, unless the   *)
(* attribution began after the request.                                    *)
THEOREM VoicesAreResolved == PublicationSpec => []VoicesResolve
<1>1. PublicationInv => VoicesResolve
  <2> SUFFICES ASSUME PublicationInv, request.at = "published", request.catalogs = VoicesRequest.reads,
                      request.run <= request.since, NEW name \in request.voices
               PROVE  HasMembers(name)
    BY DEF VoicesResolve
  <2>1. name \in VoicesIn(basis[request.run])
    BY DEF PublicationInv, Answered, Snapshotting
  <2>2. "characters" \in request.catalogs
    BY PublicationAssumption DEF VoicesRequest
  <2>3. request.shown[name] # None
    BY <2>1, <2>2 DEF PublicationInv, Resolved, Snapshotting
  <2> QED
    BY <2>1, <2>3 DEF HasMembers, VoicesIn
<1> QED
  BY <1>1, Publishing, PTL

(* The input of an attribution is of one piece: one metadata run's tables, *)
(* and of a dialogue all rows of its own extraction or none.               *)
THEOREM InputsWhole == PublicationSpec => []InputsAreWhole
<1>1. PublicationInv => InputsAreWhole
  BY DEF PublicationInv
<1> QED
  BY <1>1, Publishing, PTL

(* A page shows of a resource only children of the extraction the request  *)
(* saw, and all of them while it is the last.                              *)
THEOREM PagesOfOneGeneration == PublicationSpec => []PageOfOneGeneration
<1>1. PublicationInv => PageOfOneGeneration
  BY DEF PublicationInv
<1> QED
  BY <1>1, Publishing, PTL
=============================================================================
