# A TLA+ model of BGVoice

BGVoice extracts the characters and dialogues of an Infinity Engine game, attributes dialogue
lines to voices, has a provider (Inworld) design a voice for each of them and speak the lines,
and packages the recordings as a mod. This directory holds TLA+ modules that model the parts of
it where state, failure and interleaving meet, the TLC runs that check them on small instances,
and proofs that hold for every instance. `PROJECT.json` is the index: components, runs, mutants,
the source lines each definition stands for, findings, hazards and theorems.

## Inventory

All paths are under `src/src/bgvoice/` unless they say otherwise. The state is a LanceDB
directory: tables without transactions across tables, so that a crash between two writes is
visible to whoever reads next.

| component | state | operations | what makes it hard | correct when |
|---|---|---|---|---|
| Extraction (`pipeline.py`, `database.py`) | inventory tables, their children, `extraction_runs` | start a run, replace the inventory, apply batches of details, finish or fail | thread pool completing in any order; failure and crash between parent and child writes | a COMPLETE resource has exactly the children of its own extraction |
| Attribution (`attribution.py`, part of `metadata.py`) | none | link characters to dialogues, group speakers, split a family by gender | thresholds, order of arrival | each speaker of a dialogue has one voice; a family is one voice or two or more variants |
| Workloads (`generation.py`: `load_workloads`, `round_robin_lines`, `_sparse_voice_races`) | none | resolve the voices a run is asked for, choose their lines, name races for generic profiles | families asked for that were split, texts that repeat across dialogues, a race too many | a family asked for is heard whole; a race goes unnamed only for want of room |
| Publication (`database.py`: `rebuild_attributions`) | `character_dialogues`, `voice_resources`, run records | check inputs, build, write, reconcile generation state, finish | writes that are not atomic, readers in between | what is published was built from what the tables hold |
| Readers (`reader*.py`) | none | snapshots, queries, pages, statistics | commands write between the queries of one answer | an answer is of one extraction, or there is none |
| Lists (`web_service.py`, `web_query.py`, `src/frontend/src/use-browser.ts`) | query, page tokens, result | type, page, navigate, receive; windows over the reader's pages | debounce, answers out of order, tokens under another query, pages that straddle pages | what is shown is the window that the query asks for |
| Voice provisioning (`generation.py`, first half of `generate`) | `voice_profiles`, `voice_generations`, voices at the provider | find, adopt, publish, assign, share, delete and recreate a provider voice | asyncio tasks under a semaphore that wait for other tasks; writes that are several deletes; an answer or a process lost after the provider acted | assignments resolve, dedicated voices are exclusive, no provider voice is lost or doubled, every run ends |
| Synthesis (`generation.py`, second half) | `directed_lines`, `generated_audio`, `tts_batches`, `generation_failures`, jobs at the provider | resume, direct, plan, submit, record, poll, save, close | jobs that outlive the process and the binding they were submitted with; partial failure of items; flushes a crash can interrupt | no line twice in flight, every batch closes, a closed batch accounts for its lines, audio is labelled with the voice that spoke |
| Generation store (`generation_store.py`) | the tables above | mutators under one write lock, readers without it | several table writes in one mutator | readers' assertions never fire |
| Inworld client (`inworld.py`) | request pacing | design, publish, update, delete, list, pack, submit, poll, download | lost answers, non-idempotent publication, limits of a job | one voice per tag; what is packed can be submitted |
| Dialogue context (`dialogue_context.py`) | none | bounded walk back over transitions | cycles, silent states, dialogues that call each other | the turns are a path to the line |
| Mod export (`mod_export.py`) | a destination directory | choose recordings, write, replace; the installer it generates | recordings that vanish between two reads; a removal killed half way, then a move; an installer that decides speakers again | an export has its audio, a torn one is of one export; the game speaks what attribution decided |
| Direction audit (`direction_audit.py`) | a report file | compare, ask a model about batches, report | answers in any order that name anything | the report holds what was judged |
| Prompts and plans, audio codec, iecli, CLI, rest of metadata and of the web service, generated code | none | conversions and calls | | |

Components interact through the tables. Extraction and attribution are synchronous commands;
`generate` is an asyncio program; the readers run in the web server while commands write. The
model takes commands one at a time, as the CLI's user does: two concurrent `generate` processes,
or two extractions, are outside it. Readers run beside commands.

## Modules

| module | contents |
|---|---|
| `CatalogView` | abstract specification of the extracted catalog: the children of a resource are there whole or not at all |
| `Extraction` | extraction commands, write by write |
| `Publication` | extends `Extraction` with `rebuild_attributions` and the readers' requests |
| `Browsing` | a list of the browser and the service's List methods |
| `VoiceFamilies` | attribution as operators: proxies, gender split, families |
| `Workloads` | extends `VoiceFamilies` with the lines of voices and the generic profiles of sparse ones |
| `ModExport` | extends `Workloads` with the export of a mod, and its installer |
| `DialogueContext`, `DirectionAudit`, `SynthesisPacking` | the component, or the part, of the same name |
| `VoiceLedger` | abstract specification of the generation store: each recording is labelled with its voice's present binding |
| `VoiceProvisioning` | tables, provider and tasks of a `generate` run that give voices provider voices; the write steps of the reconciliation between runs |
| `TtsBatches` | tables, jobs and tasks of a `generate` run from selected lines to stored audio; the reconciliation as one guarded step |
| `MC*` | constants and initial states for TLC |
| `VoiceProvisioningProofs`, `ProvisioningSafetyProofs` | types and resolved assignments of provisioning; its other safety properties and that it implements `VoiceLedger` |
| `TtsBatchesProofs` | every safety property of synthesis, and that it implements `VoiceLedger` |
| `VoiceLedgerProofs` | what implementing `VoiceLedger` is worth |
| `ExtractionProofs` | every property of extraction, and that it implements `CatalogView` |
| `PublicationProofs` | every property of attributions and requests, on top of `ExtractionProofs` |
| `BrowsingProofs` | both properties of lists |
| `DerivedProofs` | every property of what is derived from the catalog: families, workloads, export, scenes, audit, packing |

`VoiceProvisioning` and `TtsBatches` each implement `VoiceLedger` by a refinement mapping
(`LedgerSpec`), and `Extraction` implements `CatalogView` (`CatalogSpec`). TLC checks each
refinement on an instance and a theorem states it for all.

What one module takes for granted, another shows. `VoiceProvisioning` lets a family be published
as one unsuffixed voice or as two or more variants: `FamilyShape` of `VoiceFamilies`.
`VoiceFamilies` assumes that a dialogue without details has no lines: `NoLinesWithoutDetails` of
`Extraction`. That a build sees one metadata run's tables, and of a dialogue all rows of its own
extraction or none, is `InputsAreWhole` of `Publication`.

### Extraction and CatalogView

State. `runs` is `extraction_runs`; `parents[r]` a row of `characters` or `dialogues` with its
identity, `detail_status`, `detail_run_id` and, as a history, the set of children its details
held; `rows[c]` the run that wrote a child row; `bulk` the tables that metadata, portraits and
readable items replace. `pc`, `table`, `todo`, `batch`, `failures` and `found` are the command:
its next write, the table it is to, the futures, and the collected details of `_extract_resources`.

Actions. `StartRun`, `FinishRun`, `FailRun` and `Die` bracket every command; `Replace*` are the
bulk kinds; `StoreInventory` and `DeleteDiscarded` are `replace_inventory` and
`replace_dialogue_inventory`; `DumpSucceeds` and `DumpFails` the completion of a future; `MarkPending`
to `StoreDetails` the writes of `apply_detail_batch` and `apply_dialogue_batch`, of which
`UpsertChildren` and `DeleteStaleChildren` alternate for each child table (`_replace_children`).
`CatalogView` has one variable, what a reader that follows `child_generation_predicate` finds for
a resource, which may only change by way of nothing.

Abstracted: the contents of records. A child row is its key and the run that wrote it.

### Publication

State. `inputs`, `attributed` and `voices` are the run ids and rows of attributions, `built` the
build in memory, `request` the one request a reader works on and what it has read so far. `basis`,
a history variable, is what each build read.

Actions. `StartAttribution` to `UpsertVoices` and `Extraction`'s `FinishRun` are
`rebuild_attributions`; a failure or death at any of them is `Extraction`'s. `Ask` starts a
request; `ReadParents`, `ReadRuns`, `ReadAttributed`, `ReadVoices`, `ReadChildren`, `MatchIds` and
`FetchIds` are its queries, one step each, in the order in which the request makes them, with the
queries of one `asyncio.gather` in any order.

Abstracted: the build is a record for each creature and a voice for each one with details, since
`VoiceFamilies` says what the voices are; statistics are the tables they count.

### Browsing

State. `calls` are requests under way, each with the reader's pages it has read; `stored` the rows
of the table; `typed`, `debouncing`, `query`, `previousTokens`, `result`, `loading` and `error`
the state of `useBrowser`. `list` is the kind of list: the definitions `List*` say for each of the
service's methods whether it reads a window of the reader's pages, all pages, or everything at
once, whether the rows are in memory, and whether it looks them up again.

Actions. `MemoryPage` to `ResolveRows` are the reads of one List call, between which
`EditTable` may change the table; `Receive` and `Fails` its end in the hook; `Type` to `Restore`
what the user does. Another query aborts the call of the last one (`StillWanted`).

### VoiceFamilies, Workloads and ModExport

`characters` and `voices` are the game's creatures and the publication made of them. `Proxies`
follows `_speaker_proxies` one member at a time, as a fold over the members in the order of their
numbers; `IsSplit`, `VariantDialogues` and `VoiceFamily`
are `_gender_split` and `_voice_family`; `CharacterLinks` the part of `build_metadata` that binds
campaign tables. `Workloads` has no state of its own: `Workloads(names, limit)` is `load_workloads`,
`RoundRobin` is `round_robin_lines` (a fold over the voice's lines, the one of the latest round
last; the code's loop over rounds and groups visits them in that order), `SparseVoices` and `RaceOf` are `_sparse_voice_races`, and
`NamedRaces` and `GenericProfile` decide which generic profile, among those that
`VoiceProvisioning` is given as `GenericOf`, a sparse voice shares. Names that a user asks for are
voice ids: a family's id is its display name, and a variant's display name, which `load_workloads`
accepts too, says the same as its id.

`ModExport` adds `recordings`, which `generate` may change while the export runs,
`draft` and `destination`, each with the entries of its directory, the catalogs and the audio.
`StartExport` reads recordings, lines and voices in one step and goes on if the destination is
`Replaceable`, which is `_validate_destination`; `WriteAudio`,
`ClearDestination` and `ReplaceDestination` are `_write_audio` and the `rmtree` and rename of
`_publish_mod`; `DieInExport` is a kill at any of them. A kill while `rmtree` removes the old export
leaves any of its `Remains`: which files go first depends on the platform, but one folder is emptied
before another is begun. `_validate_destination` looks only at the names of the entries, so that
remains with all three of them, or none, are accepted by the next export, and others are refused
until the user removes them (`RemoveRemains`). The code has no means to tell remains with all three
names from an export, nor does the model: their catalogs may name audio that is gone, and whoever
installs or packs them then has less than an export. The history variables `exported`, the last
draft that took the destination's place, and `torn`, that a removal was killed since, let
`ExportIsWhole` say what is promised all the same: whatever is at the destination is part of one
export that was whole, never of two; it is all of it unless a removal was killed; and an export
that ends over remains is whole again. `InstalledAsAttributed` and `NoForeignGender` hold of torn
exports too, as far as they still have catalogs. `InGame` to `Installed` are the
generated WeiDU script, operator by operator: the owners of a dialogue, the catalogs, and the one
candidate it needs.

### DialogueContext, DirectionAudit and SynthesisPacking

`DialogueContext` walks two turns back from each line over any set of transitions (`Previous`,
`Extended`, `History`). `DirectionAudit` is `find_mismatches` and `classify`: batches of candidate
pairs at the model, at most `AuditConcurrency` at a time, whose answers may name any pair.
`SynthesisPacking` is `pack_synthesis_items` over item sizes.

### VoiceProvisioning

State. `provider[i]` is the profile tag of a provider voice id (`None` before it is handed out,
`Gone` after its deletion). `profiles`, `genders` and `assigned` are `voice_profiles` and
`voice_generations`; `recorded[v]` is the set of `inworld_voice_id` labels among v's recordings;
`unresolved` the `VOICE_CREATION` failures. `current` is the published set of voices, `draft` the
one being reconciled. `pc`, `wanted` and `handle` are the coroutines' positions and locals,
`catalog` the snapshot `provider_voices`.

Actions. A task is a character voice, a generic profile or the narrator. `LookupVoice` to
`ChooseProfile` follow `_ensure_character_voice`; `LookupGeneric` and `LookupNarrator` the two
`_ensure_*` functions beside it; `Adopt`, `Publish`, `SaveProfile` and `PrepareAssignment`/`Assign`
are the shared tail `_reuse_existing_profile`, `_publish_profile` and `assign_voice`;
`ClearFailure` and `RecordFailure` the wrappers in `generate`; `Speak` stands for synthesis.
A mutator that writes several times (`delete_voice_generation`, `assign_voice`) is one action per
write, and `LockFree` in the guard of every mutator is `_write_lock`. Reads without an await that
matters are part of the action that uses them. `StartRebuild` to `FinishRebuild` are the writes of
`_reconcile_generation`; its two last deletes, of recordings and of failures, are one action,
as is the deletion of directions, which this module does not hold.

Abstracted: descriptions, languages and names; OpenAI calls (a failure of `PublishFails`);
which provider id comes next (ids are interchangeable). A family is published as one unsuffixed
voice or as two or more gender variants, which is what `_gender_split` returns. An unsuffixed
voice may have any gender, and a different one after another extraction: `Fits` leaves it open.
Recordings spoken by the narrator belong, as in the code, to the character's `voice_id`; they are
left to `TtsBatches`.

### TtsBatches

State. `bound` is what a logical voice's assignment resolves to; `directed`, `audio`, `failed` and
`batches` are the tables; `audio[l].spoken`, a history variable, is the provider voice that really
spoke. `jobs` is the provider. `selected`, `inFlight` (`running_audio_ids`), `pc`, `tried`,
`planned`, `label` (the snapshot `voices`) and, per operation, `at`, `left`, `held` and `bad` are
the locals of the run and of `_complete_batch`.

Actions. `StartRun` is the head of `_resume_batches`, `EndResume` the computation of
`running_audio_ids`; `KeepVoice`, `RebindVoice`, `RecreateVoice` and `VoiceFails` are the outcomes
of `_ensure_character_voice`; `WriteDirections` and `ClearDirectionFailures` the loop of
`_direct_workload`; `Plan` and `PlanWithoutNarrator` the head of `_synthesize_workloads`; `Submit`
to `Close` are `synthesize` and `_complete_batch`. `Reconcile` withdraws voices and lines under the
guard of `_reconcile_generation`; its torn variant is `VoiceProvisioning`'s.

Abstracted: the concurrency limits, which only remove interleavings; the sizes of texts (a batch
is any set within `BatchLimit`); audio bytes. Operation names that nothing refers to are used
again, and rows of closed batches are forgotten when the next run starts, so that the model is
finite; nothing in the code reads a closed batch again. The manifest is taken to hold one result
for each item, as the code relies on.

## Runs

| run | instance | shows |
|---|---|---|
| `provisioning_keep` | family voice and two variants, one generic profile, narrator, 2 provider ids, 1 fault | `DedicatedExclusive`, `OneVoicePerTag`, `SettledVoices`, `LedgerSpec` when existing voices are kept |
| `provisioning_recreate` | the same with `--recreate-voices` | `AssignmentsResolve`, `LedgerSpec`; `VoicesAlive` as long as nothing fails |
| `provisioning_ends` | two voices, one place in the semaphore | every run ends |
| `tts_voices` | one voice, one line, 2 provider ids, 2 operations, 3 faults | `NoLineTwiceInFlight`, `LedgerSpec`; under `FairSpec`, `EveryBatchCloses` |
| `tts_batch` | two sparse voices, a line each, sharing batches of up to two, flush after one record, 2 operations, 2 faults | `RunningBatchDirected`, `RunningBatchOwnsAudio`, `ClosedBatchAccounted` |
| `extraction` | two dialogues, one with a line and a transition, readable items, two identities, batches of two, 3 runs | `CompleteHasItsRows`, `NoLinesWithoutDetails`, `CompleteRunLeavesNone`, `DetailsKept`, `CatalogSpec` |
| `reading` | a creature with a sound and a dialogue with a line and a transition, extracted and attributed, then two more runs beside one request; and every kind of list over four rows, of which one may go | `PublishedIsCurrent`, `PublishedIsWhole`, `InputsAreWhole`, `VoicesResolve`, `PageOfOneGeneration`; `ShownAnswersQuery`, `PageIsWindow` |
| `derived` | casts of up to four creatures of two families and four dialogues with two campaign tables, and one change of recordings while a mod is exported, whose exporter may die, with up to two creatures also while it removes the old export; dialogues of up to six states and three transitions; up to five items; up to four directions in batches of two | `ProxiesAreComponents`, `OneVoicePerSpeaker`, `FamilyShape`; `RacesNamedByNeed`, `FamilyIsHeard`; `ExportIsWhole`, `InstalledAsAttributed`, `NoForeignGender`; `HistoryIsPath`; `PackingIsTight`; `ReportIsJudged` |
| `provisioning_duplicate_tag` | violation | a voice lost before its profile was saved gets a twin from a `--recreate-voices` run, and no later run starts |
| `provisioning_not_recreated` | violation | `--recreate-voices` reuses the old provider voice of a voice that has a profile but no assignment |
| `provisioning_torn_rebuild` | violation | a reconciliation that dies between two writes lets two voices share a dedicated profile |
| `tts_stale_voice` | violation | a batch resumed after a rebinding stores the old voice under the new label |

Bounds. Two provider ids are enough for a voice to lose one and get another, and for two tasks to
publish concurrently; a third publication meets a provider that refuses, which `PublishFails`
covers. One fault in the provisioning runs separates every pair of
writes from each other once. The batch runs have more, because their hazards take several: a line
could be submitted twice only if its batch is interrupted and the poll of the resumed batch fails
too, so `tts_voices` has 3 faults and `tts_batch` and `tts_stale_voice` have 2. A family of an unsuffixed voice and two variants splits, merges
and splits again; a third variant matters only for a torn reconciliation. `VoiceCapacity` 1 is the
smallest semaphore, where waiting inside it would block first. Two lines in a batch with
`FlushSize` 1 put a flush between the results of one batch; `DirectSize` 1 does the same for
directions. The lines of sparse voices are synthesised together, which gives `tts_batch` a
batch whose lines belong to different voices. Behaviours of
these runs are not bounded in length: runs, publications and rebuilds repeat for ever, except that provider
ids run out and faults are counted (`MaxFaults`).

`DedicatedExclusive` and `LedgerSpec` of `VoiceProvisioning` are checked, and proved, with
`RebuildMayCrash = FALSE`; the violation run shows why for the first, and on the same instance
TLC refutes the second. Everything else about provisioning is proved without that restriction.
`AssignmentsResolve`, `SettledVoices` and the types are proved for runs that keep voices as well
as for those that recreate them, so that one run of the two checks each of them.

In `extraction` three runs are enough for one to write, one to be interrupted and one to repair
or to make it worse; `BatchSize` 2 with two dialogues allows batches of one kind, of both, and
of failures next to details. `reading` starts with what three runs that ended well and an
attribution leave (`Extracted`, `Attributed`: a state that `PublicationNext` reaches from
`PublicationInit` in four runs), because everything that readers can meet comes after; two more
runs are an extraction, or an attribution, that interferes with a request, and one that follows it.
`ReaderPageSize` 2 with pages of one and two rows makes pages that start in the middle of a
reader's page, end with it and go over it; a token for offset 3 is one that was issued for another
page size; the list goes on for ever, but at most one token is remembered (`MaxRemembered`) and
the table changes once (`MaxEdits`), which is enough to change between any two reads of a call.
`derived` has thresholds of one and two, so that families lie on both sides of each of them, and a
place for one named race, of which two compete for it. Two creatures, or three of one family, come
in any order; four only in the order of `Cast`, since orders of
arrival matter only to proxies, which three members can connect. Of a killed removal `MCDerived`
takes the remains that lack one file of a folder, all but one, or all, with every name, with
`bgvoice` alone, or with none, and only with up to two creatures (`MaxSpeakers`), which make up to
four recordings in two catalogs: enough for audio that is missing, for a catalog that is, for
remains that are accepted, refused and empty, and for a second death over the first. `MaxRegenerated`
is one, a recording that vanishes or comes between two steps. Six dialogue states are two
dialogues with three states each, enough for a silent state, a loop and a foreign caller at once.

`MCReading` and `MCDerived` put modules that share no state into one run: in each behaviour one
is at work and the others stand still, so that nothing is gained or lost by it.

Deadlock is checked in every run of `VoiceProvisioning` and `TtsBatches`: a user may always start
another command, until a duplicate tag stops `generate`, and then attribution can still run. The
three other runs end: `extraction` and `reading` when the bounded runs are used up, and `derived`
because a scene or a list of items is only looked at, a report is written once, and a mod with
nothing recorded cannot be exported. A refused destination is no end: the user removes it.

## Fairness

`FairSpec` of `VoiceProvisioning` asks weak fairness of each task and of the end of a run: the
event loop runs every task that is not waiting, and the HTTP client has a timeout, so that no call
waits for ever. When a command starts is up to the user and has no fairness. `FairSpec` of
`TtsBatches` adds `WF(JobEnds)`, that Inworld ends every job it took, and `WF(StartRun)`, that the
user runs `generate` again: the code closes an abandoned batch only in a later run.

The other modules state no fairness, and only safety is checked of them: an extraction may be
killed at any step and nothing in the code starts it again, and an export, an audit or a request
is a sequence of steps that ends unless it is killed.

## Proofs

Every invariant and every action property that a run checks is also a theorem, for every value of
the constants that satisfies the named assumptions: any number of voices, lines, provider ids,
operations, runs, resources, faults and any size of batches and pages. TLC's instances serve to
find out what is true, and to show the properties are not vacuous; none of the bounds above is a
hypothesis of a theorem. What is left to TLC is listed at the end.

None of the properties of a module with steps is inductive. Each proof module defines a
strengthening as a conjunction of named parts, one idea each, and proves that it holds initially
and that each action preserves it, one lemma or one step for each action.

**Provisioning.** `VoiceProvisioningProofs` proves `TypeOK` and `AssignmentsResolve`. Two things
break the latter in isolation: a task that is about to write an assignment to a profile another
task deletes, and a recording of a voice with no assignment, whose label would not be a provider
voice. `IInv` therefore adds `BindSafe` (at "bind", between the two writes of `assign_voice`, the
profile is stored: only a task in "drop" deletes profiles, and the write lock keeps it out) and
`Control` (what a task knows at each label). `ProvisioningSafetyProofs` adds to `IInv` where the
tasks are (`Selected`, `Routed`), whose a profile is (`NarratorsOwn`; no two tasks make one under the same id, `OwnIds`), what a served
voice has (`Suited`, `FailuresKnown`), how families and variants relate (`Gendered`, `Whole`,
`Lineage`), what a reconciliation has yet to write (`Reconciled`), what the snapshot of the
provider's voices may miss (`NothingLost`), which profile is being removed (`Doomed`) and which
provider voices exist (`Alive`). It proves `SettledVoices` without conditions, and the others
under those that the code needs:

- `DedicatedExclusive` and `LedgerSpec` if attribution is not killed inside its reconciliation
  (`~RebuildMayCrash`): its writes are five and a later run does not repair them
  (`provisioning_torn_rebuild`).
- `OneVoicePerTag` without `--recreate-voices` (`~AllowRecreate`): a recreating run adopts no
  voice of a character, so that one which was published but not recorded gets a twin under its tag
  (`provisioning_duplicate_tag`).
- `VoicesAlive` speaks of runs without faults only, since a fault between the two deletions is
  what leaves a profile naming a voice that is gone; this is in the property itself.

**Synthesis.** `TtsBatchesProofs` proves the types, `NoLineTwiceInFlight`, `RunningBatchDirected`,
`RunningBatchOwnsAudio`, `ClosedBatchAccounted` and `LedgerSpec`. The strengthening says whose a
line is: a run hands each voice's lines out once, after it is done with the voice (`Handed`), so
that nothing a task may still take away from a voice touches a line that is planned or submitted
(`Owned`); what is in an earlier run's batch is in `inFlight` and never planned (`Disjoint`,
`Snapshot`); and each label of an operation says which of its lines have audio, a failure, or are
still held (`Held`, `Accounted`). A flush stores the recordings of several voices at once when
sparse voices share a batch: `VoiceLedger`'s `Record(V)` covers them, and so does the theorem,
while the instance in which TLC checks the refinement has one line.

**The ledger.** `VoiceLedgerProofs` proves of the abstract store that a recording is labelled with
its voice's present binding. With the two refinements this is a theorem about provisioning and
synthesis; that the label is the voice which spoke is not, as `tts_stale_voice` shows.

**Extraction.** `ExtractionProofs` proves all that `extraction` checks. The strengthening follows a
resource through a batch: what is left to dump exists and may be dumped (`Targets`), what is about
to be stored is pending and so invisible (`Claimed`), which of its rows are written (`Written`),
and that what a dialogue run is done with is complete, or failed and without rows (`Swept`).
`CatalogRefined` is by cases: the view of a resource changes only from or to nothing, because the
children are written between the write that makes their parent pending and the one that makes it
complete.

**Publication.** `PublicationProofs` extends `ExtractionProofs`, whose invariant it shows to be
kept by the actions it adds. Its own says that what a build read is what the tables hold as long
as its inputs are the latest (`Registered`, `Current`), since whatever writes an input starts a run
first; that the rows of a run that ended well are those of its build, since their keys hold the run
(`Stored`); and what the reads of a request so far have in common with the tables (`Answered`,
`Resolved`, `Generations`). The theorems are about `PublicationSpec`, which starts from an empty
database and allows any number of runs and of requests, one at a time; `reading` starts from an
extracted game. Assumed of the constants: the catalogs are characters and dialogues, metadata is a
bulk kind, and `None` is no record, row or build.

**Lists.** `BrowsingProofs` proves both properties of `BrowsingSpec`, for any finite tables, any way
of reading a list in `Lists`, and page sizes up to the reader's (`BrowsingAssumption`; the service
caps sizes at the same number). Every request under way is for the query in the address (`Shaped`);
what a request has read is right as long as the table has not changed since it was sent: each page
is that of its number, and what was taken of a first page, when a second is needed, is all that it
had left (`WindowRight`, `PagesRight`). The beginning of the module is about cuts of sequences.

**Derived.** `DerivedProofs` is about any cast of characters, any tables, thresholds and lines.

- Export: `ExportInv` says what attribution published (`Published`) and what a draft must have to
  take the destination's place (`Sound`, `Whole`), and of the destination that it is part of the draft
  that took it last (`DestinationInv`), which a killed removal keeps because what it leaves is part
  of what was there (`RemainsArePart`). From it follow `FamilyShape`,
  `OneVoicePerSpeaker`, `ExportIsWhole`, `NoForeignGender`, `InstalledAsAttributed`,
  `RacesNamedByNeed`, `FamilyIsHeard` and `ProxiesAreComponents`, each for `ExportSpec`.
- Audit: `AuditInv` follows every pair from the batch that asks about it into the report;
  `ReportIsJudged`.
- Scenes and packing have no steps: `HistoryIsPath` holds for any finite set of transitions among
  known states, `PackingIsTight` for any sequence of item sizes and any limits.

Two kinds of argument recur there. What is chosen first, or counted against a limit (the
representative, named races, rounds), is a matter of finite strict orders, whose elements the
number of those before them enumerates (`RankNumbers`, `FirstFew`). What is folded (proxies, lines
of a workload, packed items, sizes of jobs) needs induction, and the library's induction theorems take
an operator, which the provers cannot instantiate. `CountingUp` and `TakingAway` are therefore
stated over sets, from the fact that a finite nonempty set of numbers has a least one;
`FoldExists` shows that the function by which the community modules define a fold is there; and
each fold is then followed element by element.

Assumed of the constants, besides their kinds: families, genders, lines and direction ids are
finite in number; a campaign's tables have the columns that `metadata.py` projects (`BanterColumns`,
`PartyColumns`); a dialogue's texts are those of its lines, and it has none without details
(`NoLinesWithoutDetails` of `Extraction`); and `None` is distinct from every name and number it
is used beside.

In `VoiceProvisioning`, `ConstantsAssumption` says that the id of a variant, which has a suffix, is
not that of a family with variants of its own, that namespaced profile ids belong to one voice
each, and that generic profiles are none of the dedicated ones: this is how the code builds ids.

Only model-checked: that every run of `generate` ends (`GenerateEnds`) and every batch is closed
(`EveryBatchCloses`), since liveness under fairness is outside what the proof system supports here; and
the four violations, which are counterexamples. That the inputs TLC enumerates are states the
program reaches is an argument of this file, not a theorem.

## Not modelled

- Texts: prompts and plans for OpenAI (`generation_ai.py`), rendering of a
  dialogue history and its cut at 1200 characters, a family's biography and
  summary. Of a representative, only race and gender: class, kit and alignment, which split
  further what is alike, would only make the casts larger. Models choose the outcome of whatever depends on them.
- The audio codec, the iecli subprocess, IDS and 2DA parsing beyond the campaign tables, column
  types, the command line and generated protocol code: conversions without state of their own.
- Request pacing and retries of `inworld.py`'s transport: a call succeeds, fails, or is lost.
- Of the export, `create_archive`, which packs an export, and of the installer the aliases of
  Imoen and the table of the EET ending, which name single characters. Recordings, lines and
  voices are read in one step, though the code reads them one after the other. The installer's
  library and the mod's own README in `bgvoice` are part of no property. A destination that never
  was an export is refused by its names, and is left out.
- Of the readers, the generation snapshot (`reader_generation.py`), sums of statistics and labels
  made of metadata; of the service, Get methods, downloads and the conversion to protobuf. Filters
  of a list other than the search are, like it, a part of what its tokens are bound to.
- Two races the code has are hazards without a property: a search page asserts that the records of
  the ids it found are all there, and `list_voices` takes a second snapshot. Both fail the request,
  which the browser shows as an error; the models contain the failure.

## Plan

1. `VoiceProvisioning`, `TtsBatches`, `VoiceLedger`: done, every safety property and both
   refinements proved.
2. `Extraction`, `CatalogView`, `Publication`, `Browsing`: done, every property proved.
3. What is derived from the catalog: done, every property proved.
4. A reader of the generation snapshot beside `VoiceProvisioning`, with the assertions of
   `reader_generation.py` as its property, and what `ProvisioningSafetyProofs` says of the order
   of a mutator's writes as the reason it should hold or fail.
5. Violation runs for the hazards without a property that the models already contain: the failure
   that stays on record beside its audio, and the job that a crash between submission and record
   orphans.
