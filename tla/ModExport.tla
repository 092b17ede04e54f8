----------------------------- MODULE ModExport -----------------------------
(* Exporting the generated recordings as a mod (mod_export.py), and what the    *)
(* exported installer makes of it in the game it was exported from.             *)
(*                                                                              *)
(* The exporter reads recordings, lines and voices, writes a draft beside the   *)
(* destination and then puts it in the destination's place; meanwhile generate  *)
(* may add and delete recordings, and the exporter may die between any two      *)
(* steps and while it removes the old export. The installer owns no table of    *)
(* voices: it finds out again, from the game's own CREs and campaign tables,    *)
(* which families speak a dialogue and with which genders, and looks texts up   *)
(* in the catalogs of those families.                                           *)
EXTENDS Workloads

CONSTANT MaxRegenerated \* bound: recordings that generate adds or deletes

(* The entries of an export's directory (_SETUP_EXE, _SETUP_TP2, _MOD_FOLDER).  *)
TopNames == {"setup-bgvoice.exe", "setup-bgvoice.tp2", "bgvoice"}

(* The columns that the tables of a campaign have, besides the death variable.  *)
BanterColumns == {"FILE", "25FILE"}

PartyColumns ==
  {"POST_DIALOG_FILE", "JOIN_DIALOG_FILE", "DREAM_SCRIPT_FILE",
   "25POST_DIALOG_FILE", "25JOIN_DIALOG_FILE", "25DREAM_SCRIPT_FILE", "25OVERRIDE_SCRIPT_FILE"}

ASSUME ExportAssumption ==
  /\ MaxRegenerated \in Nat
  /\ \A t \in BoundTables("INTERDIA") : \A k \in TableRows[t] : k.column \in BanterColumns
  /\ \A t \in BoundTables("PDIALOG") : \A k \in TableRows[t] : k.column \in PartyColumns

VARIABLES
  recordings,   \* GeneratedAudioRecord: [voice, line]
  regenerated,  \* changes of recordings so far
  pc,           \* of export_mod: "idle", "audio", "clear" or "replace"
  draft,        \* the temporary directory: [names, catalogs, audio], or None
  destination,  \* the same, of the directory exported to; None when there is none
  exported,     \* history: the draft that took the destination's place last
  torn          \* history: since then an export died while it removed it

destinationVars == <<destination, exported, torn>>

exportVars == <<characters, voices, recordings, regenerated, pc, draft, destinationVars>>

VoiceIds == Families \X (Genders \cup {None})

(* A catalog entry: in voice's catalog, this text is spoken by the recording of *)
(* this line. sound_resref numbers the entries, so an entry is also its sound.  *)
Asset == [voice : VoiceIds, text : {LineOf[l].text : l \in Lines}, line : Lines]

Recording == [voice : VoiceIds, line : Lines]

Owns(voice, d) == \E v \in voices : v.id = voice /\ d \in v.dialogues

(* _content_assets: of the recordings that a current voice still owns, the      *)
(* first of each text in the voice's catalog.                                   *)
Candidates == {r \in recordings : Owns(r.voice, LineOf[r.line].dialogue)}

SameContent(r, s) == r.voice = s.voice /\ LineOf[r.line].text = LineOf[s.line].text

Assets ==
  {[voice |-> r.voice, text |-> LineOf[r.line].text, line |-> r.line] :
     r \in {s \in Candidates : \A t \in Candidates : SameContent(s, t) => s.line <= t.line}}

RecordingOf(asset) == [voice |-> asset.voice, line |-> asset.line]

(* _validate_destination goes by names: nothing there, an empty directory, or   *)
(* one with exactly the entries of an export, whatever is left inside them.     *)
LooksLikeExport(mod) == mod.names = TopNames

Replaceable == destination # None => destination.names = {} \/ LooksLikeExport(destination)

(* What a killed rmtree leaves: it removes file after file in an order that the *)
(* platform decides, a catalog being the file of its voice, one folder before   *)
(* it begins another, and a folder only when that is empty.                     *)
Catalogs(mod) ==
  {{a \in mod.catalogs : a.voice \in kept} : kept \in SUBSET {a.voice : a \in mod.catalogs}}

FolderRemains(mod) ==
  ({mod.catalogs, {}} \X SUBSET mod.audio) \cup (Catalogs(mod) \X {mod.audio, {}})

Directory(names, folder) == [names |-> names, catalogs |-> folder[1], audio |-> folder[2]]

Remains(mod) ==
  {m \in {Directory(names, folder) : names \in SUBSET mod.names, folder \in FolderRemains(mod)} :
     m.catalogs # {} \/ m.audio # {} => "bgvoice" \in m.names}

----------------------------------------------------------------------------
(* Attribution has published its voices, and nothing is exported yet. *)
ExportInit ==
  /\ characters \in Seq(Character) /\ voices = BuiltVoices
  /\ recordings \in SUBSET Recording /\ regenerated = 0
  /\ pc = "idle" /\ draft = None
  /\ destination = None /\ exported = None /\ torn = FALSE

(* The temporary directory is removed with its context. *)
DiscardDraft == draft' = None

(* export_mod reads everything, refuses a destination that holds anything but   *)
(* what looks like an export, and writes the installer and the catalogs.        *)
StartExport ==
  /\ pc = "idle"
  /\ Candidates # {}
  /\ Replaceable
  /\ draft' = [names |-> TopNames, catalogs |-> Assets, audio |-> {}]
  /\ pc' = "audio"
  /\ UNCHANGED <<characters, voices, recordings, regenerated, destinationVars>>

(* _write_audio reads the audio table again: a recording that was deleted since *)
(* stops the export, and the temporary directory is removed.                    *)
AnyAudioPresent == {RecordingOf(a) : a \in draft.catalogs} \cap recordings # {}

AudioPresent == {RecordingOf(a) : a \in draft.catalogs} \subseteq recordings

WriteAudio ==
  /\ pc = "audio"
  /\ AudioPresent
  /\ draft' = [draft EXCEPT !.audio = {RecordingOf(a) : a \in draft.catalogs} \cap recordings]
  /\ pc' = IF destination = None THEN "replace" ELSE "clear"
  /\ UNCHANGED <<characters, voices, recordings, regenerated, destinationVars>>

RefuseAudio ==
  /\ pc = "audio"
  /\ ~AudioPresent
  /\ DiscardDraft
  /\ pc' = "idle"
  /\ UNCHANGED <<characters, voices, recordings, regenerated, destinationVars>>

(* _publish_mod: rmtree of the old export, then a rename of the draft. *)
ClearDestination ==
  /\ pc = "clear"
  /\ destination' = None
  /\ pc' = "replace"
  /\ UNCHANGED <<characters, voices, recordings, regenerated, draft, exported, torn>>

ReplaceDestination ==
  /\ pc = "replace"
  /\ destination' = draft
  /\ exported' = draft
  /\ torn' = FALSE
  /\ DiscardDraft
  /\ pc' = "idle"
  /\ UNCHANGED <<characters, voices, recordings, regenerated>>

(* Killed, in the middle of rmtree too. The next export has a new draft. *)
DieInExport ==
  /\ pc # "idle"
  /\ IF pc = "clear"
       THEN destination' \in Remains(destination) /\ torn' = TRUE
       ELSE UNCHANGED <<destination, torn>>
  /\ DiscardDraft
  /\ pc' = "idle"
  /\ UNCHANGED <<characters, voices, recordings, regenerated, exported>>

(* The user removes what the next export would refuse to replace. *)
RemoveRemains ==
  /\ ~Replaceable
  /\ destination' = None
  /\ UNCHANGED <<characters, voices, recordings, regenerated, pc, draft, exported, torn>>

(* generate stores a recording of a current voice's workload, or deletes the    *)
(* recordings of a voice that lost its provider voice.                          *)
Record(r) ==
  /\ regenerated < MaxRegenerated
  /\ r.line \in Workload(r.voice)
  /\ r \notin recordings
  /\ recordings' = recordings \cup {r}
  /\ regenerated' = regenerated + 1
  /\ UNCHANGED <<characters, voices, pc, draft, destinationVars>>

DeleteRecordings(voice) ==
  /\ regenerated < MaxRegenerated
  /\ \E r \in recordings : r.voice = voice
  /\ recordings' = {r \in recordings : r.voice # voice}
  /\ regenerated' = regenerated + 1
  /\ UNCHANGED <<characters, voices, pc, draft, destinationVars>>

ExportNext ==
  \/ StartExport \/ WriteAudio \/ RefuseAudio \/ ClearDestination \/ ReplaceDestination
  \/ DieInExport \/ RemoveRemains
  \/ \E r \in Recording : Record(r)
  \/ \E voice \in VoiceIds : DeleteRecordings(voice)

ExportSpec == ExportInit /\ [][ExportNext]_exportVars

----------------------------------------------------------------------------
(* The installer (_INSTALL_TPA), run in the source game with the CREs of the    *)
(* whole game, also those that could not be extracted.                          *)
PositionOf(column) ==
  CASE column \in {"FILE", "POST_DIALOG_FILE"} -> 1
    [] column \in {"25FILE", "JOIN_DIALOG_FILE"} -> 2
    [] column = "DREAM_SCRIPT_FILE" -> 3
    [] column = "25POST_DIALOG_FILE" -> 4
    [] column = "25JOIN_DIALOG_FILE" -> 5
    [] OTHER -> 6

(* It reads the banter and party tables by position, not by column name. *)
TableDialogues(deathVariable) ==
  LET cells ==
     {k \in UNION {TableRows[t] : t \in BoundTables("INTERDIA")} : PositionOf(k.column) \in {1, 2}}
       \cup
     {k \in UNION {TableRows[t] : t \in BoundTables("PDIALOG")} :
        PositionOf(k.column) \in {1, 2, 4, 5}}
  IN {cell.target : cell \in {k \in cells : k.deathVariable = deathVariable}}

InGame(c) == ({c.dialog} \cup TableDialogues(c.deathVariable)) \cap Dialogues

PackagedFamilies(mod) == {a.voice[1] : a \in mod.catalogs}

HasCatalog(mod, voice) == \E a \in mod.catalogs : a.voice = voice

GameGenders(f, d) ==
  {characters[i].gender :
     i \in {k \in DOMAIN characters : characters[k].family = f /\ d \in InGame(characters[k])}}

(* bgv_mixed_owner is not consulted: any owner's gender will do. *)
AnyOwnerGender(f, d) == {CHOOSE g \in GameGenders(f, d) : TRUE}

SoleGender(f, d) ==
  IF Cardinality(GameGenders(f, d)) = 1 THEN GameGenders(f, d) ELSE {}

(* bgv_primary_catalog and bgv_fallback_catalog of a family that speaks d. *)
DefaultOnly(mod, f) == {v \in {<<f, None>>} : HasCatalog(mod, v)}

Fallback(mod, f) ==
  IF HasCatalog(mod, <<f, None>>) THEN {<<f, None>>}
    ELSE {v \in {<<f, Neutral>>} : HasCatalog(mod, v)}

Primary(mod, f, d) ==
  LET own == {v \in {<<f, g>> : g \in SoleGender(f, d)} : HasCatalog(mod, v)}
  IN IF HasCatalog(mod, <<f, None>>) \/ own = {} THEN Fallback(mod, f) ELSE own

Entries(mod, ids, text) == {a \in mod.catalogs : a.voice \in ids /\ a.text = text}

(* bgv_sound: the primary catalog's entry, else the fallback's. *)
Found(mod, f, l) ==
  LET primary == Entries(mod, Primary(mod, f, LineOf[l].dialogue), LineOf[l].text)
  IN IF primary # {} THEN primary ELSE Entries(mod, Fallback(mod, f), LineOf[l].text)

Offers(mod, l) ==
  UNION {Found(mod, f, l) :
    f \in {g \in PackagedFamilies(mod) : GameGenders(g, LineOf[l].dialogue) # {}}}

(* bgv_candidate_count = 1: an ambiguous line is left as it was. *)
Installed(mod, l) == IF Cardinality(Offers(mod, l)) = 1 THEN Offers(mod, l) ELSE {}

----------------------------------------------------------------------------
(* Its entries are all there: a user can take it for a mod, torn or not.        *)
Installable == destination # None /\ LooksLikeExport(destination)

Whole(mod) ==
  LooksLikeExport(mod) /\ mod.audio = {RecordingOf(a) : a \in mod.catalogs}

PartOf(mod, other) ==
  mod.names \subseteq other.names /\ mod.catalogs \subseteq other.catalogs
    /\ mod.audio \subseteq other.audio

(* Whatever generate deletes while the export runs, and wherever it dies, what  *)
(* is at the destination comes from one export that had the audio of every      *)
(* entry of its catalogs, is all of it unless an export died since while it     *)
(* removed it, and never mixes two of them. In the directory that such a death  *)
(* leaves audio may be missing although its names are those of an export and    *)
(* the next one accepts it: only an export that ends makes it whole again       *)
(* (_write_audio, _validate_destination, _publish_mod).                         *)
ExportIsWhole ==
  destination # None =>
    /\ Whole(exported)
    /\ PartOf(destination, exported)
    /\ torn \/ destination = exported

(* The installer, which decides by the game's files, agrees with attribution,   *)
(* which decided by the extracted ones: when every CRE was extracted, a line of *)
(* a voice whose text is in the voice's catalog is given that very recording,   *)
(* unless another family of the same dialogue offers one as well; and when the  *)
(* voice's workload is in the catalog, all its lines' texts are, also of those  *)
(* it was not recorded for. What the catalogs of a torn export still name is    *)
(* given to the same lines, though its audio may be gone (_INSTALL_TPA owners   *)
(* and catalogs, against _voice_family and round_robin_lines).                  *)
InstalledAsAttributed ==
  Installable /\ (\A i \in DOMAIN characters : characters[i].extracted) =>
    \A l \in Lines : \A v \in voices :
      LineOf[l].dialogue \in v.dialogues =>
        LET own == Entries(destination, {v.id}, LineOf[l].text)
            others == {a \in Offers(destination, l) : a.voice[1] # v.id[1]}
        IN /\ (\A w \in Workload(v.id) : \E a \in destination.catalogs :
                 a.voice = v.id /\ a.text = LineOf[w].text)
              => own # {}
           /\ own # {} =>
                /\ own = Found(destination, v.id[1], l)
                /\ others = {} => Installed(destination, l) = own

(* No line is ever given a recording of a gender its speakers do not have: what *)
(* is installed comes from a family with a CRE that speaks the dialogue, and    *)
(* from its only voice, its neutral voice, or the voice of the one gender all   *)
(* its speakers share - also when some CREs could not be extracted.             *)
NoForeignGender ==
  Installable =>
    \A l \in Lines : \A a \in Installed(destination, l) :
      LET spoken == GameGenders(a.voice[1], LineOf[l].dialogue)
      IN spoken # {} /\ (a.voice[2] \in {None, Neutral} \/ spoken = {a.voice[2]})
=============================================================================
