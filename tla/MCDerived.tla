------------------------------ MODULE MCDerived ------------------------------
(* What is derived from the catalog: voice families and the exported mod, the   *)
(* scenes before lines, the packing of synthesis jobs and the audit. They share *)
(* no state, so that in each behaviour one is at work and the others rest.      *)
(*                                                                              *)
(* The casts: a family on the list of generic ones, another that must look      *)
(* generic to be split, speakers tied together by a campaign's table, one that  *)
(* could not be extracted, dialogues that share a text, one without text and    *)
(* one that the game does not have.                                             *)
EXTENDS ModExport, DialogueContext, DirectionAudit, SynthesisPacking

MCNpcTexts ==
  [d \in {"d1", "d2", "d3", "d4"} |->
     CASE d = "d1" -> {"hail", "stop"} [] d = "d2" -> {"hail"} [] d = "d3" -> {"bye"} [] OTHER -> {}]

MCCampaigns == {[INTERDIA |-> "banter", PDIALOG |-> "party"], [INTERDIA |-> None, PDIALOG |-> "party"]}

Cell(column, target) == [deathVariable |-> "captain", column |-> column, target |-> target]

MCTableRows ==
  [t \in {"banter", "party", "unbound"} |->
     CASE t = "banter" -> {Cell("FILE", "d3"), Cell("25FILE", None)}
       [] t = "party" -> {Cell("JOIN_DIALOG_FILE", "gone"), Cell("DREAM_SCRIPT_FILE", "d2")}
       [] t = "unbound" -> {Cell("FILE", "d2")}]

MCLineOf ==
  <<[dialogue |-> "d1", text |-> "hail"], [dialogue |-> "d1", text |-> "stop"],
    [dialogue |-> "d2", text |-> "hail"], [dialogue |-> "d3", text |-> "bye"]>>

MCLines == 1..4

Cre(family, gender, race, dialog) ==
  [family |-> family, gender |-> gender, race |-> race, named |-> TRUE, dialog |-> dialog,
   deathVariable |-> None, extracted |-> TRUE]

Cast ==
  <<Cre("citizen", "male", 1, "d1"), Cre("citizen", "female", 1, "d1"),
    Cre("citizen", "female", 2, "d2"), Cre("citizen", "neutral", 0, "d3"),
    Cre("citizen", "female", 2, "d4"),
    [Cre("citizen", "male", 2, "d1") EXCEPT !.deathVariable = "captain", !.named = FALSE],
    [Cre("citizen", "male", 1, "d2") EXCEPT !.extracted = FALSE],
    Cre("thug", "male", 1, "d2"), Cre("thug", "female", 0, "d3"), Cre("thug", "male", 1, "gone")>>

(* Up to two of them, or three citizens, in any order, or four in this one. *)
Citizens == {c \in Range(Cast) : c.family = "citizen"}

Casts ==
  UNION {[1..n -> Range(Cast)] : n \in 1..2} \cup [1..3 -> Citizens]
    \cup {[i \in 1..4 |-> Cast[c[i]]] :
            c \in {s \in [1..4 -> DOMAIN Cast] : \A i \in 1..3 : s[i] <= s[i + 1]}}

(* Every voice that ever was recorded its lines, or nothing was recorded yet.   *)
CastInit == characters \in Casts /\ recordings \in {Recording, {}} /\ ExportInit

ExportRest ==
  /\ characters = <<>> /\ voices = {} /\ recordings = {} /\ regenerated = 0
  /\ pc = "idle" /\ draft = None
  /\ destination = None /\ exported = None /\ torn = FALSE

(* Any two transitions among six nodes of which up to two are silent, or three  *)
(* with indexes between four nodes.                                             *)
Edges(states, indexes) ==
  {t \in Transition : {t.from.state, t.to.state} \subseteq states /\ t.index \in indexes}

UpToThree(S) == {{s, t, u} : s, t, u \in S}

SceneInit ==
  \/ /\ transitions \in {{}} \cup {{t, u} : t, u \in Edges(0..2, {0})}
     /\ npcNodes \in {Node \ silent : silent \in {{}} \cup {{n, m} : n, m \in Node}}
  \/ /\ transitions \in UpToThree({t \in Edges(0..1, {0, 1}) : t.to.scene = 1})
     /\ npcNodes \in {Node} \cup {Node \ {n} : n \in Node}

SceneRest == transitions = {} /\ npcNodes = {}

PackingInit == items \in UNION {[1..n -> 1..(BatchCharacterLimit + 1)] : n \in 1..5}

AuditAsleep == directions = <<>> /\ AuditRest("stopped")

MCInit ==
  \/ CastInit /\ SceneRest /\ items = <<>> /\ AuditAsleep
  \/ ExportRest /\ SceneInit /\ items = <<>> /\ AuditAsleep
  \/ ExportRest /\ SceneRest /\ PackingInit /\ AuditAsleep
  \/ ExportRest /\ SceneRest /\ items = <<>> /\ AuditInit

others == <<npcNodes, transitions, items>>

(* Bounds: an rmtree is killed with up to MaxSpeakers speakers only, when it    *)
(* has removed one file of a folder, all but one, or the folder, and none or    *)
(* all of what is beside bgvoice.                                               *)
MaxSpeakers == 2

Few(rest, all) == Cardinality(rest) <= 1 \/ Cardinality(all \ rest) <= 1

FewRemoved(mod, rest) ==
  /\ rest.names \in {TopNames, {"bgvoice"}, {}}
  /\ Few(rest.audio, mod.audio) /\ Few(rest.catalogs, mod.catalogs)

KilledRemoval == pc = "clear" /\ pc' = "idle"

MCNext ==
  \/ /\ ExportNext /\ UNCHANGED <<auditVars, others>>
     /\ KilledRemoval =>
          Len(characters) <= MaxSpeakers /\ FewRemoved(destination, destination')
  \/ AuditNext /\ UNCHANGED <<exportVars, others>>

MCSpec == MCInit /\ [][MCNext]_<<exportVars, auditVars, others>>
=============================================================================
