--------------------------- MODULE VoiceFamilies ---------------------------
(* The pure part of attribution (attribution.py): which dialogues a character   *)
(* speaks, which characters form a voice family, and when a family is split by  *)
(* gender into variants.                                                        *)
(*                                                                              *)
(* A character is its position in characters, the order of resource names.      *)
(* Names, prompts and biographies are left out: nothing here depends on them.   *)
EXTENDS Naturals, FiniteSets, FiniteSetsExt, Sequences, SequencesExt

CONSTANTS
  Families,           \* display_name.casefold() of the characters
  GenericFamilies,    \* _KNOWN_GENERIC_FAMILIES
  Races,
  Genders, Neutral,   \* ProviderGender
  DialogueNames,      \* what a CRE or a table may name as its dialogue
  Dialogues,          \* DialogueRecord of the extraction run
  SpokenDialogues,    \* those with details and npc_line_count > 0
  NpcTexts,           \* the texts of a dialogue's NPC lines that are not blank
  DeathVariables,
  Campaigns,          \* rows of CAMPAIGN.2DA: [INTERDIA, PDIALOG], a table each or None
  TableRows,          \* their cells: [table -> set of [deathVariable, column, target]]
  GenericFamilyMinProxies, VoiceVariantMinProxies, VoiceVariantMinTexts,
  NeutralVariantMinDialogues,
  None

ASSUME FamiliesAssumption ==
  /\ GenericFamilies \subseteq Families /\ IsFiniteSet(Families) /\ IsFiniteSet(Genders)
  /\ Neutral \in Genders
  /\ SpokenDialogues \subseteq Dialogues /\ Dialogues \subseteq DialogueNames
  /\ \A c \in Campaigns : {c.INTERDIA, c.PDIALOG} \subseteq DOMAIN TableRows \cup {None}
  /\ DOMAIN NpcTexts = Dialogues
  \* Lines are stored only with complete details: Extraction!NoLinesWithoutDetails.
  /\ \A d \in Dialogues : NpcTexts[d] # {} => d \in SpokenDialogues
  /\ None \notin Families \cup Genders \cup DialogueNames \cup DeathVariables
  /\ None \notin Nat

VARIABLES
  characters,  \* the CREs of the game
  voices       \* VoiceResourceRecord of the current publication

(* A CRE of the game. "extracted": its details could be dumped; "named": it has *)
(* a name of its own.                                                           *)
Character ==
  [family : Families, gender : Genders, race : Races, named : BOOLEAN,
   dialog : DialogueNames \cup {None},
   deathVariable : DeathVariables \cup {None}, extracted : BOOLEAN]

(* build_metadata: the tables that some campaign binds, whatever the campaign,  *)
(* and of their cells those that name a dialogue; the others name scripts.      *)
Bindings(kind) == {c[kind] : c \in Campaigns}

BoundTables(kind) == Bindings(kind) \ {None}

Links(kind, columns) ==
  {cell \in UNION {TableRows[t] : t \in BoundTables(kind)} :
     cell.column \in columns /\ cell.target # None}

BanterLinks == Links("INTERDIA", {"FILE", "25FILE"})

PartyDialogueLinks ==
  Links("PDIALOG",
        {"POST_DIALOG_FILE", "JOIN_DIALOG_FILE", "25POST_DIALOG_FILE", "25JOIN_DIALOG_FILE"})

CharacterLinks == BanterLinks \cup PartyDialogueLinks

(* What the game's files let a CRE speak: its own dialogue, and those that the  *)
(* campaigns' tables give to its death variable.                                *)
Declared(c) ==
  ({c.dialog} \cup {l.target : l \in {k \in CharacterLinks : k.deathVariable = c.deathVariable}})
    \ {None}

(* resolved_dialogue_resource_names; a character without details has none. *)
Resolved(c) == IF c.extracted THEN Declared(c) \cap Dialogues ELSE {}

HasText(d) == NpcTexts[d] # {}

Spoken(c) == {d \in Resolved(c) : HasText(d)}

Members(f) == {i \in DOMAIN characters : characters[i].extracted /\ characters[i].family = f}

----------------------------------------------------------------------------
(* _speaker_proxies: members that share a dialogue or a death variable count as *)
(* one speaker. Members arrive one at a time; a member may join several groups  *)
(* together.                                                                    *)
Tokens(c) ==
  {<<"dialogue", d>> : d \in Spoken(c)}
    \cup {<<"death_variable", v>> : v \in {c.deathVariable} \ {None}}

GroupTokens(group) == UNION {Tokens(characters[i]) : i \in group}

(* Only the first group that matches is extended. *)
FirstMatching(groups, i) ==
  LET matches == {g \in groups : GroupTokens(g) \cap Tokens(characters[i]) # {}}
  IN {g \in matches : \A h \in matches : Min(g) <= Min(h)}

Matching(groups, i) == {g \in groups : GroupTokens(g) \cap Tokens(characters[i]) # {}}

AddMember(groups, i) ==
  IF Spoken(characters[i]) = {}
    THEN groups
    ELSE (groups \ Matching(groups, i)) \cup {{i} \cup UNION Matching(groups, i)}

Proxies(f) ==
  MapThenFoldSet(LAMBDA i, groups : AddMember(groups, i), {}, LAMBDA i : i, Max, Members(f))

TextsOf(dialogues) == UNION {NpcTexts[d] : d \in dialogues}

ProxyTexts(proxy) == TextsOf(UNION {Spoken(characters[i]) : i \in proxy})

----------------------------------------------------------------------------
(* _gender_split *)
FamilyDialogues(f) == UNION {Spoken(characters[i]) : i \in Members(f)}

OwnerGenders(f, d) ==
  {characters[i].gender : i \in {m \in Members(f) : d \in Spoken(characters[m])}}

(* A gender claims every dialogue that one of its members speaks. *)
AlsoSpokenBy(f, gender) == {d \in FamilyDialogues(f) : gender \in OwnerGenders(f, d)}

OnlySpokenBy(f, gender) == {d \in FamilyDialogues(f) : OwnerGenders(f, d) = {gender}}

PureProxies(f, gender) ==
  Cardinality({p \in Proxies(f) : {characters[i].gender : i \in p} = {gender}})

(* Enough speakers, none of which dominates the family's texts. *)
LooksGeneric(f) ==
  /\ Cardinality(Proxies(f)) >= GenericFamilyMinProxies
  /\ \A p \in Proxies(f) :
       Cardinality(ProxyTexts(p)) * 3 < Cardinality(TextsOf(FamilyDialogues(f))) * 2

EnoughForVariant(f, gender) ==
  /\ PureProxies(f, gender) >= VoiceVariantMinProxies
  /\ Cardinality(TextsOf(OnlySpokenBy(f, gender))) >= VoiceVariantMinTexts
  /\ gender = Neutral =>
       Cardinality(OnlySpokenBy(f, gender)) >= NeutralVariantMinDialogues

ExclusiveGenders(f) ==
  {gender \in Genders :
     /\ OnlySpokenBy(f, gender) # {}
     /\ f \in GenericFamilies \/ EnoughForVariant(f, gender)}

(* One gender with enough material is enough to split. *)
SplitOnAny(f) ==
  /\ Proxies(f) # {}
  /\ f \in GenericFamilies \/ LooksGeneric(f)
  /\ ExclusiveGenders(f) # {}

IsSplit(f) ==
  /\ Proxies(f) # {}
  /\ f \in GenericFamilies \/ LooksGeneric(f)
  /\ Cardinality(ExclusiveGenders(f)) >= 2

(* The dialogues of a variant: those only its gender speaks; the neutral one    *)
(* also takes what is left of the family.                                       *)
MixedDialogues(f) ==
  FamilyDialogues(f) \ UNION {OnlySpokenBy(f, gender) : gender \in ExclusiveGenders(f)}

VariantDialogues(f, gender) ==
  (IF gender \in ExclusiveGenders(f) THEN OnlySpokenBy(f, gender) ELSE {})
    \cup (IF gender = Neutral THEN MixedDialogues(f) ELSE {})

----------------------------------------------------------------------------
(* _voice_family: the voices of a family, each with its members and dialogues.  *)
(* A voice's id is <<family, None>>, or <<family, gender>> for a variant.       *)
MembersSpeaking(f, dialogues) ==
  {i \in Members(f) : Resolved(characters[i]) \cap dialogues # {}}

Variants(f) ==
  {[id |-> <<f, gender>>, gender |-> gender,
    members |-> MembersSpeaking(f, VariantDialogues(f, gender)),
    dialogues |-> VariantDialogues(f, gender)] :
      gender \in {g \in Genders : VariantDialogues(f, g) # {}}}

ContributingGenders(f) ==
  {characters[i].gender : i \in {m \in Members(f) : Spoken(characters[m]) # {}}}

VoiceDialogues(f) ==
  (UNION {Resolved(characters[i]) : i \in Members(f)}) \cap SpokenDialogues

WholeFamily(f) ==
  [id |-> <<f, None>>,
   gender |-> IF Cardinality(ContributingGenders(f)) = 1
                THEN CHOOSE g \in ContributingGenders(f) : TRUE
                ELSE None,
   members |-> Members(f), dialogues |-> VoiceDialogues(f)]

VoiceFamily(f) ==
  IF VoiceDialogues(f) = {} THEN {}
    ELSE IF IsSplit(f) THEN Variants(f) ELSE {WholeFamily(f)}

(* build_attributions, of what the extraction run stored. *)
BuiltVoices == UNION {VoiceFamily(f) : f \in Families}

VoicesOf(f) == {v \in voices : v.id[1] = f}

----------------------------------------------------------------------------
(* Proxies are what the word promises, in whatever order the members arrive:    *)
(* every member with dialogues is in one, members that share a dialogue or a    *)
(* death variable are in the same one, and nothing else holds one together      *)
(* (_speaker_proxies, whose counts decide whether a family is split).           *)
ProxiesAreComponents ==
  \A f \in Families :
    /\ UNION Proxies(f) = {i \in Members(f) : Spoken(characters[i]) # {}}
    /\ \A p, q \in Proxies(f) : p # q => GroupTokens(p) \cap GroupTokens(q) = {}
    /\ \A p \in Proxies(f) : \A part \in (SUBSET p) \ {{}, p} :
         GroupTokens(part) \cap GroupTokens(p \ part) # {}

(* Split or not, a dialogue with text is spoken, for each family that has a     *)
(* speaker of it, by exactly one voice, and that voice counts every such        *)
(* speaker among its members (_voice_family, _gender_split).                    *)
OneVoicePerSpeaker ==
  \A f \in Families : \A d \in FamilyDialogues(f) :
    \E v \in VoicesOf(f) :
      /\ d \in v.dialogues
      /\ {i \in Members(f) : d \in Spoken(characters[i])} \subseteq v.members
      /\ \A w \in VoicesOf(f) \ {v} : d \notin w.dialogues

(* A family publishes nothing, or one voice with the family's own id, or two or *)
(* more variants; and no voice is without members or dialogues (_voice_family;  *)
(* voice_representative needs a member, VoiceProvisioning this shape).          *)
FamilyShape ==
  \A f \in Families :
    /\ \A v \in VoicesOf(f) : v.members # {} /\ v.dialogues # {}
    /\ \/ VoicesOf(f) = {}
       \/ \E v \in VoicesOf(f) : VoicesOf(f) = {v} /\ v.id = <<f, None>>
       \/ /\ Cardinality(VoicesOf(f)) >= 2
          /\ \A v \in VoicesOf(f) : v.id = <<f, v.gender>> /\ v.gender \in Genders
=============================================================================
