----------------------------- MODULE Publication -----------------------------
(***************************************************************************)
(* Attribution runs over the catalog (database.py: rebuild_attributions)   *)
(* and the readers of the web server, which run while commands write       *)
(* (reader.py, reader_query.py).                                           *)
(*                                                                         *)
(* An attribution takes the latest run of each input, reads the tables,    *)
(* and publishes rows that carry its own run id.  A reader answers a       *)
(* request with several queries, each of them consistent, and between any  *)
(* two of them a command may write.                                        *)
(*                                                                         *)
(* Which voices a build makes is Attribution's matter: here it is a voice  *)
(* for every creature with details.  What it does to generated voices and  *)
(* recordings is in VoiceProvisioning and TtsBatches.                      *)
(***************************************************************************)
EXTENDS Extraction

VARIABLES
  inputs,       \* *_input_run_id of attribution runs
  attributed,   \* character_dialogues
  voices,       \* voice_resources
  built,        \* the build in memory
  basis,        \* a history: what the build of each attribution run read
  request       \* the request a reader works on

reading == <<inputs, attributed, voices, built, basis, request>>
allVars == <<vars, reading>>

InputKinds == {"characters", "dialogues", "metadata"}
InputRuns == [InputKinds -> RunId]

(* What an attribution may read                                            *)
Bases ==
  [parents : [Resources -> ParentRecord \cup {None}], rows : [Children -> RunId \cup {None}],
   metadata : [1..BulkTables["metadata"] -> RunId \cup {None}]]

ASSUME PublicationAssumption ==
  /\ Catalogs = {"characters", "dialogues"} /\ "metadata" \in Bulks
  /\ None \notin ParentRecord \cup InputRuns \cup Bases

Latest(k) == CHOOSE n \in LatestRun(k) : TRUE

-----------------------------------------------------------------------------
(* rebuild_attributions                                                    *)

(* What build_attributions is given.  Lines and sounds are read whatever   *)
(* run wrote them.                                                         *)
Basis == [parents |-> parents, rows |-> rows, metadata |-> bulk["metadata"]]

BuildVoices == {r \in Of("characters") : Complete(r)}
BuildRecords == {r \in Of("characters") : parents[r] # None}

NoBuild == [records |-> {}, voices |-> {}]

(* _attribution_input_run                                                  *)
HasInput(k) == LatestRun(k) # {}

InputReady(k) == LatestRun(k) # {} /\ Succeeded(Latest(k))

StartAttribution ==
  /\ pc = "idle" /\ Run < MaxRuns
  /\ \A k \in InputKinds : InputReady(k)
  /\ \A k, l \in InputKinds : runs[Latest(k)].root = runs[Latest(l)].root
  /\ runs' = Append(runs, [kind |-> "attribution", root |-> runs[Latest("characters")].root,
                           status |-> "running"])
  /\ inputs' = [inputs EXCEPT ![Run + 1] = [k \in InputKinds |-> Latest(k)]]
  /\ pc' = "build"
  /\ UNCHANGED <<parents, rows, bulk, table, refresh, discarded, todo, batch, failures, found, failed,
                 attributed, voices, built, basis, request>>

Build ==
  /\ pc = "build"
  /\ built' = [records |-> BuildRecords, voices |-> BuildVoices]
  /\ basis' = [basis EXCEPT ![Run] = Basis]
  /\ pc' = "records"
  /\ UNCHANGED <<tables, table, refresh, discarded, todo, batch, failures, found, failed,
                 inputs, attributed, voices, request>>

(* CharacterAttributionRecord.key_for and VoiceResourceRecord.key_for      *)
KeyForName(n, name) == <<0, name>>

KeyFor(n, name) == <<n, name>>

(* _upsert by key                                                          *)
Upserted(rowsNow, names) ==
  LET new == {[key |-> KeyFor(Run, r), run |-> Run, name |-> r] : r \in names}
  IN {row \in rowsNow : row.key \notin {fresh.key : fresh \in new}} \cup new

UpsertRecords ==
  /\ pc = "records"
  /\ attributed' = Upserted(attributed, built.records)
  /\ pc' = "voices"
  /\ UNCHANGED <<tables, table, refresh, discarded, todo, batch, failures, found, failed,
                 inputs, voices, built, basis, request>>

(* _upsert of the voices; _reconcile_generation follows, which may raise.  *)
UpsertVoices ==
  /\ pc = "voices"
  /\ voices' = Upserted(voices, built.voices)
  /\ pc' = "finish"
  /\ UNCHANGED <<tables, table, refresh, discarded, todo, batch, failures, found, failed,
                 inputs, attributed, built, basis, request>>

-----------------------------------------------------------------------------
(* PipelineReader.attribution_snapshot                                     *)

(* _latest_run_id, whatever became of the run                              *)
NotOutrun(n, k) == \A m \in 1..Run : runs[m].kind = k /\ Succeeded(m) => m <= inputs[n][k]

IsLatestInput(n, k) == inputs[n][k] \in LatestRun(k)

(* The latest complete attribution, if it was built from the latest run of *)
(* every input, and None: missing or stale.                                *)
PublishedRun ==
  LET complete == {n \in 1..Run : runs[n].kind = "attribution" /\ runs[n].status = "complete"}
      last == {n \in complete : \A m \in complete : m <= n}
      current == {n \in last : \A k \in InputKinds : IsLatestInput(n, k)}
  IN IF current = {} THEN None ELSE CHOOSE n \in current : TRUE

NoRequest == [at |-> "none"]

(* What a request reads: the parents in some catalogs, and then either the *)
(* children of complete ones in some tables, or what is published.         *)
LinesRequest == [reads |-> {"dialogues"}, tables |-> {1}]
TransitionsRequest == [reads |-> {"dialogues"}, tables |-> {2}]
SoundsRequest == [reads |-> {"characters"}, tables |-> {1}]
StatsRequest == [reads |-> Catalogs, tables |-> {1, 2}]
DialoguesRequest == [reads |-> {"dialogues"}, tables |-> {}]
VoicesRequest == [reads |-> Catalogs, tables |-> {}]
CharactersRequest == [reads |-> Catalogs, tables |-> {}]

Ask(wanted) ==
  /\ request = NoRequest
  /\ request' = [at |-> "parents", reads |-> wanted.reads, tables |-> wanted.tables,
                 catalogs |-> wanted.reads, since |-> Run, shown |-> [r \in Resources |-> None]]
  /\ UNCHANGED <<vars, inputs, attributed, voices, built, basis>>

(* asyncio.gather of one query for each catalog; those not complete are    *)
(* not shown.  Filters of a list may leave out more.                       *)
Filterable == Cardinality(request.tables) = 1

ReadParents(k, filtered) ==
  /\ request.at = "parents" /\ k \in request.reads
  /\ filtered = {} \/ Filterable
  /\ LET shown == [r \in Resources |->
           IF r \in Of(k) \ filtered /\ Complete(r) THEN parents[r] ELSE request.shown[r]]
         more == request.reads \ {k}
     IN request' =
          IF more # {} THEN [request EXCEPT !.reads = more, !.shown = shown]
          ELSE IF request.tables = {}
            THEN [request EXCEPT !.reads = {}, !.shown = shown, !.at = "snapshot"]
          ELSE IF \A r \in Resources : shown[r] = None THEN NoRequest
          ELSE [request EXCEPT !.reads = {}, !.shown = shown, !.at = "children"]
  /\ UNCHANGED <<vars, inputs, attributed, voices, built, basis>>

(* attribution_snapshot: one query for the runs, and then two by run.      *)
ReadRuns ==
  /\ request.at = "snapshot"
  /\ request' = IF PublishedRun = None THEN NoRequest
                ELSE [at |-> "rows", run |-> PublishedRun,
                      catalogs |-> request.catalogs, since |-> request.since, shown |-> request.shown]
  /\ UNCHANGED <<vars, inputs, attributed, voices, built, basis>>

ReadAttributed ==
  /\ request.at = "rows"
  /\ request' = [at |-> "attributed", run |-> request.run, catalogs |-> request.catalogs,
                 since |-> request.since, shown |-> request.shown,
                 attributed |-> {row.name : row \in {a \in attributed : a.run = request.run}}]
  /\ UNCHANGED <<vars, inputs, attributed, voices, built, basis>>

ReadVoices ==
  /\ request.at = "attributed"
  /\ request' = [at |-> "published", run |-> request.run, catalogs |-> request.catalogs,
                 since |-> request.since, shown |-> request.shown, attributed |-> request.attributed,
                 voices |-> {row.name : row \in {v \in voices : v.run = request.run}}]
  /\ UNCHANGED <<vars, inputs, attributed, voices, built, basis>>

-----------------------------------------------------------------------------
(* Pages of children (reader_query.py)                                     *)

(* child_generation_predicate, without and with the run of the parents     *)
OfParent(c) ==
  TableOf[c] \in request.tables /\ request.shown[ParentOf[c]] # None /\ rows[c] # None

OfGeneration(c) ==
  /\ TableOf[c] \in request.tables
  /\ request.shown[ParentOf[c]] # None /\ rows[c] = request.shown[ParentOf[c]].run

ReadChildren ==
  /\ request.at = "children"
  /\ request' = [at |-> "page", tables |-> request.tables, shown |-> request.shown,
                 children |-> {c \in Children : OfGeneration(c)}]
  /\ UNCHANGED <<vars, inputs, attributed, voices, built, basis>>

OrderedPage == ReadChildren /\ Filterable
CountTables == ReadChildren /\ ~Filterable

(* _search_page: the ids that match, then the records of these ids, for    *)
(* which nothing says of which run they are.                               *)
MatchIds ==
  /\ request.at = "children" /\ Filterable
  /\ \E ids \in SUBSET {c \in Children : OfGeneration(c)} :
       request' = IF ids = {} THEN NoRequest ELSE [at |-> "fetch", ids |-> ids]
  /\ UNCHANGED <<vars, inputs, attributed, voices, built, basis>>

(* "search projection lost indexed records" otherwise                      *)
Refetched(ids) == {c \in ids : rows[c] # None}

FetchIds ==
  /\ request.at = "fetch"
  /\ request' = IF Refetched(request.ids) = request.ids THEN [at |-> "found", ids |-> request.ids]
                ELSE NoRequest
  /\ UNCHANGED <<vars, inputs, attributed, voices, built, basis>>

(* voice_row, which needs a member with details                            *)
HasMembers(name) == request.shown[name] # None

Answer ==
  /\ request.at \in {"published", "page", "found"}
  /\ request' = NoRequest
  /\ UNCHANGED <<vars, inputs, attributed, voices, built, basis>>

-----------------------------------------------------------------------------
PublicationInit ==
  /\ Init
  /\ inputs = [n \in RunId |-> None] /\ attributed = {} /\ voices = {}
  /\ built = NoBuild /\ basis = [n \in RunId |-> None] /\ request = NoRequest

(* A command that ends, in whatever way, loses its build.                  *)
ExtractionStep ==
  /\ Next
  /\ built' = IF pc' = "idle" THEN NoBuild ELSE built
  /\ UNCHANGED <<inputs, attributed, voices, basis, request>>

AttributionStep == StartAttribution \/ Build \/ UpsertRecords \/ UpsertVoices

Requests == {LinesRequest, TransitionsRequest, SoundsRequest, StatsRequest, DialoguesRequest,
             VoicesRequest, CharactersRequest}

ReaderStep ==
  \/ \E wanted \in Requests : Ask(wanted)
  \/ \E k \in Catalogs : \E filtered \in SUBSET Of(k) : ReadParents(k, filtered)
  \/ ReadRuns \/ ReadAttributed \/ ReadVoices
  \/ OrderedPage \/ CountTables \/ MatchIds \/ FetchIds \/ Answer

PublicationNext == ExtractionStep \/ AttributionStep \/ ReaderStep

PublicationSpec == PublicationInit /\ [][PublicationNext]_allVars

-----------------------------------------------------------------------------
(* Properties                                                              *)

(* A snapshot that readers call published was built from exactly what the  *)
(* tables hold now: whatever changes an input starts a run first, and a    *)
(* run that failed, or died, leaves no build that looks current.           *)
PublishedIsCurrent == PublishedRun # None => basis[PublishedRun] = Basis

(* The rows of a published snapshot are all the rows its run built, and    *)
(* only these, also when another attribution is under way, or failed       *)
(* half way, between the queries.                                          *)
PublishedIsWhole ==
  request.at = "published" =>
    LET read == basis[request.run].parents IN
    /\ request.attributed = {r \in Of("characters") : read[r] # None}
    /\ request.voices = {r \in Of("characters") : read[r] # None /\ read[r].status = "complete"}

(* A request for voices reads the characters before it asks what is        *)
(* published, and fails on a voice whose characters it did not read. That  *)
(* takes an attribution that started after the request: of one that was    *)
(* there before, every voice has its characters, with their details,       *)
(* whatever commands do between the queries (voices, voice_row).           *)
VoicesResolve ==
  /\ request.at = "published"
  /\ request.catalogs = VoicesRequest.reads /\ request.run <= request.since
  => \A name \in request.voices : HasMembers(name)

(* The input of an attribution is of one piece: no tables of two metadata  *)
(* runs, and of a dialogue with details all rows of the run that extracted *)
(* it, of one without details none that an unfinished run left behind.     *)
InputsAreWhole ==
  \A n \in 1..Run : basis[n] # None =>
    /\ \A t \in DOMAIN basis[n].metadata : basis[n].metadata[t] = inputs[n]["metadata"]
    /\ \A c \in Children : LET r == ParentOf[c] p == basis[n].parents[r] IN
         KindOf[r] = "dialogues" /\ p # None =>
           basis[n].rows[c] = IF p.status = "complete" /\ c \in p.detail THEN p.run ELSE None

(* A page shows of a dialogue or a creature children that the extraction   *)
(* found which the request saw, and no others, also when it is extracted   *)
(* again meanwhile; and all of them, if it was not (the readers' predicate *)
(* against _replace_children).                                             *)
PageOfOneGeneration ==
  request.at = "page" =>
    \A r \in Resources :
      LET p == request.shown[r]
          asked == {c \in Own(r) : TableOf[c] \in request.tables}
      IN p # None =>
           /\ request.children \cap asked \subseteq p.detail
           /\ parents[r] = p => request.children \cap asked = p.detail \cap asked
=============================================================================
