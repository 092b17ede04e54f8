------------------------------ MODULE Workloads ------------------------------
(* From published voices to the workloads of a generate run (generation.py):    *)
(* which lines a voice is to speak, and which voices are so sparse that they    *)
(* share a generic profile, made for a gender and one of the commonest races.    *)
EXTENDS VoiceFamilies

CONSTANTS
  Lines,           \* ids of NPC lines with text, in the order of (dialogue, state)
  LineOf,          \* their [dialogue, text]
  OtherRaces,      \* 0 and NO_RACE
  GenericMaxLines, \* --generic-max-lines
  NamedRaceCount   \* DEFAULT_NAMED_RACE_COUNT

ASSUME WorkloadsAssumption ==
  /\ Lines \subseteq Nat /\ IsFiniteSet(Lines)
  /\ Races \subseteq Nat /\ OtherRaces \subseteq Races
  /\ \A l \in Lines : LineOf[l].dialogue \in Dialogues
  /\ \A d \in Dialogues : NpcTexts[d] = {LineOf[l].text : l \in {m \in Lines : LineOf[m].dialogue = d}}
  /\ GenericMaxLines \in Nat /\ NamedRaceCount \in Nat

(* Who asks for a name gets the voice with that id, or else the variants of the *)
(* family (load_workloads). The id of a family's only voice is the family's. A  *)
(* family's id is its display name, and a variant's display name, which selects *)
(* it as well, says the same as its id: here each voice goes by its id alone.   *)
RequestedExactly(name) == {v \in voices : v.id = name}

Requested(name) ==
  IF RequestedExactly(name) # {} THEN RequestedExactly(name)
    ELSE {v \in voices : name = <<v.id[1], None>>}

(* The lines of a voice.                                                        *)
VoiceLines(voice) ==
  {l \in Lines : \E v \in voices : v.id = voice /\ LineOf[l].dialogue \in v.dialogues}

----------------------------------------------------------------------------
(* round_robin_lines: one line of each dialogue, then a second one, and so on;  *)
(* of those with the same text the first, up to a limit, or None.               *)
RoundOf(l) == Cardinality({m \in Lines : m < l /\ LineOf[m].dialogue = LineOf[l].dialogue})

Sooner(l, m) == RoundOf(l) < RoundOf(m) \/ (RoundOf(l) = RoundOf(m) /\ l < m)

Latest(lines) == CHOOSE l \in lines : \A m \in lines \ {l} : Sooner(m, l)

Seen(selected, l) == \E m \in Range(selected) : LineOf[m].text = LineOf[l].text

RoundRobin(voice, limit) ==
  LET Take(l, selected) ==
        IF Len(selected) = limit \/ Seen(selected, l) THEN selected ELSE Append(selected, l)
  IN MapThenFoldSet(Take, <<>>, LAMBDA l : l, Latest, VoiceLines(voice))

Workload(voice) == Range(RoundRobin(voice, None))

----------------------------------------------------------------------------
(* voice_representative: of a voice's members one that has a name, with the     *)
(* commonest metadata. Class, kit and alignment are left out of the latter.     *)
Metadata(i) == [gender |-> characters[i].gender, race |-> characters[i].race]

Alike(v, i) == Cardinality({j \in v.members : Metadata(j) = Metadata(i)})

Preferred(v, i, j) ==
  \/ characters[i].named /\ ~characters[j].named
  \/ /\ characters[i].named = characters[j].named
     /\ Alike(v, i) > Alike(v, j) \/ (Alike(v, i) = Alike(v, j) /\ i < j)

Representative(v) == CHOOSE i \in v.members : \A j \in v.members \ {i} : Preferred(v, i, j)

----------------------------------------------------------------------------
(* _sparse_voice_races: few lines, but some.                                    *)
SparseVoices == {v \in voices : Cardinality(VoiceLines(v.id)) \in 1..GenericMaxLines}

RaceOf(v) == characters[Representative(v)].race

RaceCount(race) == Cardinality({v \in SparseVoices : RaceOf(v) = race})

SparseRaces == {RaceOf(v) : v \in SparseVoices}

MoreCommon(r, s) == RaceCount(r) > RaceCount(s) \/ (RaceCount(r) = RaceCount(s) /\ r < s)

Commonest(races) ==
  {r \in races : Cardinality({s \in races : MoreCommon(s, r)}) < NamedRaceCount}

(* _common_default_race_ids, and as if the other races took a place, too. *)
NamedWithOthers == Commonest(SparseRaces) \ OtherRaces

NamedRaces == Commonest(SparseRaces \ OtherRaces)

(* _voice_evidence, and what _bucket_generic_profiles makes of it *)
Evidence(v) ==
  [gender |-> IF v.gender # None THEN v.gender ELSE characters[Representative(v)].gender,
   race |-> RaceOf(v)]

GenericProfile(v) ==
  IF v \in SparseVoices
    THEN [Evidence(v) EXCEPT !.race = IF @ \in NamedRaces THEN @ ELSE None]
    ELSE Evidence(v)

(* A voice without a line fails the whole run.                                  *)
Loadable(names) ==
  \A name \in names : Requested(name) # {} /\ \A v \in Requested(name) : VoiceLines(v.id) # {}

Workloads(names, limit) ==
  {[voice |-> v.id, lines |-> RoundRobin(v.id, limit), profile |-> Evidence(v)] :
     v \in UNION {Requested(name) : name \in names}}

----------------------------------------------------------------------------
(* A sparse voice loses its race only for want of room: to be called one of the *)
(* other races, it has none worth a name, or as many as there is room for are   *)
(* named, each of them shared by at least as many sparse voices. A run makes no *)
(* more generic profiles than each gender has room for                          *)
(* (_common_default_race_ids, _bucket_generic_profiles).                        *)
RacesNamedByNeed ==
  LET profiles == {GenericProfile(v) : v \in SparseVoices}
      named == {p.race : p \in profiles} \ {None}
      sharing(race) == Cardinality({v \in SparseVoices : RaceOf(v) = race})
  IN /\ \A lost \in SparseRaces \ (named \cup OtherRaces) :
          /\ Cardinality(named) = NamedRaceCount
          /\ \A race \in named : sharing(race) >= sharing(lost)
     /\ Cardinality(profiles) <= Cardinality(Genders) * (NamedRaceCount + 1)

(* Asking for a family is asking for all that its speakers say: whenever one of *)
(* them has a text, the run can be loaded whether the family was split or not,  *)
(* and into whatever variants, it has a line for each text of the family's      *)
(* dialogues, and within a voice only one; and a limit takes lines that a run   *)
(* without it would take too, so that no direction of a limited run goes to     *)
(* waste (load_workloads, round_robin_lines, against _voice_family).            *)
FamilyIsHeard ==
  \A f \in Families : VoicesOf(f) # {} /\ FamilyDialogues(f) # {} =>
    LET all == Workloads({<<f, None>>}, None)
        texts(w) == {LineOf[l].text : l \in Range(w.lines)}
    IN /\ Loadable({<<f, None>>})
       /\ UNION {texts(w) : w \in all} = TextsOf(FamilyDialogues(f))
       /\ \A w \in all : Cardinality(texts(w)) = Len(w.lines)
       /\ \A limit \in 1..Cardinality(Lines) : \A part \in Workloads({<<f, None>>}, limit) :
            \E w \in all :
              /\ part.voice = w.voice
              /\ part.lines = SubSeq(w.lines, 1, Len(part.lines))
              /\ Len(part.lines) = limit \/ part.lines = w.lines
=============================================================================
