-------------------------- MODULE VoiceProvisioning --------------------------
(***************************************************************************)
(* How a `generate` run gives every selected logical voice a provider      *)
(* voice: the tables voice_profiles and voice_generations, the voices that *)
(* exist at the provider, and the asyncio tasks of one run that move both. *)
(* A task is a character voice, a reusable generic profile or the          *)
(* narrator; one action is the code between two awaits that matter to      *)
(* another task, to a crash or to the provider.  Between runs the          *)
(* attribution stage may publish another set of voices and reconcile the   *)
(* assignments with it.                                                    *)
(*                                                                         *)
(* Abstracted: descriptions, languages and display names; which lines a    *)
(* voice speaks (TtsBatches).  A mutator of GenerationStore with several   *)
(* writes is several actions, because a crash can fall between two of      *)
(* them; LockFree is its write lock, which readers do not take.            *)
(***************************************************************************)
EXTENDS FiniteSets, Integers

CONSTANTS
  Voices,         \* character voice ids
  Narrator,       \* the logical voice "narrator"
  Generics,       \* ids of reusable profiles, one per gender and race bucket
  GenericOf,      \* the bucket of each voice
  Genders, Neutral,
  GenderOf,       \* the gender a task publishes a voice with, None when it may be any
  Variant,        \* Variant[v][g]: the gender variant of an unsuffixed voice, or None
  Namespaced,     \* v |-> the profile id "dedicated:v"
  ProviderIds,    \* voice ids the provider hands out, each once (a bound)
  VoiceCapacity,  \* VOICE_CONCURRENCY
  AllowRecreate,  \* whether a run may pass --recreate-voices
  RebuildMayCrash,\* whether attribution may die inside its reconciliation
  MaxFaults,      \* crashes, failed calls and lost answers of a behaviour (a bound)
  None            \* no row

Gone         == "gone"   \* a provider voice that was deleted
Logical      == Voices \cup {Narrator}
DedicatedIds == Logical \cup {Namespaced[v] : v \in Voices}
ProfileIds   == DedicatedIds \cup Generics
Tasks        == Logical \cup Generics

ASSUME ConstantsAssumption ==
  /\ Narrator \notin Voices
  /\ GenericOf \in [Voices -> Generics]
  /\ Neutral \in Genders /\ None \notin Genders
  /\ GenderOf \in [Tasks -> Genders \cup {None}]
  /\ Variant \in [Voices -> [Genders -> Voices \cup {None}]]
  /\ \A v \in Voices, g, h \in Genders :   \* a variant's id has a suffix, a family's has none
       Variant[v][g] # None => Variant[Variant[v][g]][h] = None
  /\ Generics \cap DedicatedIds = {}
  /\ DOMAIN Namespaced = Voices
  /\ \A v, w \in Voices : /\ Namespaced[v] \notin Logical
                          /\ Namespaced[v] = Namespaced[w] => v = w
  /\ VoiceCapacity \in Nat \ {0}
  /\ AllowRecreate \in BOOLEAN /\ RebuildMayCrash \in BOOLEAN
  /\ MaxFaults \in Nat
  /\ {None, Gone} \cap (ProfileIds \cup ProviderIds) = {} /\ None # Gone

VARIABLES
  (* the provider: what each voice id it handed out is tagged with         *)
  provider,
  (* the generation tables                                                 *)
  profiles,       \* voice_profiles: the provider voice of each profile id,
  genders,        \*   and its gender
  assigned,       \* voice_generations: the profile of each logical voice
  recorded,       \* generated_audio: the provider voices recordings of a voice name
  unresolved,     \* generation_failures of stage VOICE_CREATION
  (* the published attribution and the one being reconciled                *)
  current, draft,
  (* the process: which command runs and, for `generate`, its locals       *)
  phase,          \* "idle", "generate" or a write of the reconciliation
  recreate,       \* --recreate-voices
  generic,        \* the selected voices that are sparse enough to share
  catalog,        \* provider_voices: the snapshot of tagged provider voices
  pc,             \* where each task is
  wanted,         \* the profile id each task works towards (or gives up)
  handle,         \* the provider voice a task has just published
  fresh,          \* history: provider voices published by this run
  faults          \* crashes, failed calls and lost answers so far

store    == <<profiles, genders, assigned, recorded, unresolved>>
locals   == <<recreate, generic, catalog, wanted, handle>>
settings == <<recreate, generic, catalog>>
vars     == <<provider, store, current, draft, phase, locals, pc, fresh, faults>>

-----------------------------------------------------------------------------
(* Helpers                                                                 *)

AssignedTo(p) == {v \in Logical : assigned[v] = p}
Unused        == {i \in ProviderIds : provider[i] = None}
Tagged(p)     == {i \in ProviderIds : provider[i] = p}

(* The provider voice a logical voice speaks with (generated_voice).       *)
Bound(v) == IF assigned[v] = None THEN None ELSE profiles[assigned[v]]

Fault == faults < MaxFaults /\ faults' = faults + 1

Goto(t, label) == pc' = [pc EXCEPT ![t] = label]

LockFree == \A t \in Tasks : pc[t] \notin {"unassign", "forget", "bind"}

Settled(t) == pc[t] \in {"off", "ready", "failed"}

(* A process task holds the voice semaphore from its first line until it   *)
(* returns; a sparse voice returns before its lines are synthesised.       *)
HoldingUntilSpoken(v) == pc[v] \notin {"off", "queued", "ready", "failed"}

Holding(v) == pc[v] \notin {"off", "queued", "ready", "failed"}
              /\ ~(v \in generic /\ pc[v] \in {"speak", "narrate"})

(* Does the present assignment satisfy this run?                           *)
MatchesAnyKind(v, fits) ==
  \/ v \in generic /\ assigned[v] = GenericOf[v]
  \/ v \notin generic /\ assigned[v] # None /\ fits /\ AssignedTo(assigned[v]) = {v}

Matches(v, fits) ==
  \/ v \in generic /\ assigned[v] = GenericOf[v]
  \/ v \notin generic /\ assigned[v] \in DedicatedIds /\ fits
     /\ AssignedTo(assigned[v]) = {v}

(* A legacy profile id is kept unless another logical voice owns it.       *)
DedicatedProfileId(v) ==
  IF profiles[v] = None \/ AssignedTo(v) \subseteq {v} THEN v ELSE Namespaced[v]

Init ==
  /\ provider = [i \in ProviderIds |-> None]
  /\ profiles = [p \in ProfileIds |-> None]
  /\ genders = [p \in ProfileIds |-> None]
  /\ assigned = [v \in Logical |-> None]
  /\ recorded = [v \in Logical |-> {}]
  /\ unresolved = {} /\ current = {} /\ draft = {} /\ phase = "idle"
  /\ recreate = FALSE /\ generic = {} /\ fresh = {} /\ faults = 0
  /\ catalog = [p \in ProfileIds |-> None]
  /\ pc = [t \in Tasks |-> "off"]
  /\ wanted = [t \in Tasks |-> None]
  /\ handle = [t \in Tasks |-> None]

-----------------------------------------------------------------------------
(* Starting and ending a generate run                                      *)

(* _provider_voice_catalog asserts that no two voices share a tag; with a  *)
(* duplicate the run dies before it starts a task.                         *)
CatalogIsUnique == \A p \in ProfileIds : Cardinality(Tagged(p)) <= 1

Catalog == [p \in ProfileIds |-> IF Tagged(p) = {} THEN None
                                 ELSE CHOOSE i \in Tagged(p) : TRUE]

StartGenerate ==
  /\ phase = "idle" /\ CatalogIsUnique
  /\ phase' = "generate"
  /\ recreate' \in (IF AllowRecreate THEN BOOLEAN ELSE {FALSE})
  /\ \E selected \in (SUBSET current) \ {{}} :
       /\ generic' \in SUBSET selected
       /\ pc' = [t \in Tasks |-> IF t \in selected THEN "queued"
                                 ELSE IF t \in {GenericOf[v] : v \in generic'}
                                      THEN "lookup" ELSE "off"]
  /\ catalog' = Catalog
  /\ fresh' = {}
  /\ UNCHANGED <<provider, store, current, draft, wanted, handle, faults>>

ResetLocals ==
  /\ phase' = "idle"
  /\ pc' = [t \in Tasks |-> "off"]
  /\ recreate' = FALSE /\ generic' = {}
  /\ catalog' = [p \in ProfileIds |-> None]
  /\ wanted' = [t \in Tasks |-> None]
  /\ handle' = [t \in Tasks |-> None]
  /\ draft' = {} /\ fresh' = {}

EndGenerate ==
  /\ phase = "generate" /\ \A t \in Tasks : Settled(t)
  /\ ResetLocals
  /\ UNCHANGED <<provider, store, current, faults>>

Crash ==
  /\ phase # "idle" /\ (phase = "generate" \/ RebuildMayCrash)
  /\ Fault /\ ResetLocals
  /\ UNCHANGED <<provider, store, current>>

-----------------------------------------------------------------------------
(* _ensure_character_voice                                                 *)

Admit(v) ==
  /\ pc[v] = "queued"
  /\ Cardinality({w \in Voices : Holding(w)}) < VoiceCapacity
  /\ Goto(v, "lookup")
  /\ UNCHANGED <<provider, store, current, draft, phase, locals, fresh, faults>>

(* Whether the profile has the gender the voice is published with; an      *)
(* unsuffixed voice may have changed gender, or have none, which fits all. *)
Fits(v) == IF GenderOf[v] = None \/ assigned[v] = None
           THEN BOOLEAN ELSE {genders[assigned[v]] = GenderOf[v]}

LookupVoice(v) ==
  LET own == assigned[v] \in DedicatedIds IN
  /\ pc[v] = "lookup"
  /\ wanted' = [wanted EXCEPT ![v] = IF recreate /\ own THEN assigned[v] ELSE None]
  /\ \E fits \in Fits(v) :
       Goto(v, IF recreate
               THEN IF ~own THEN "wipe"
                    ELSE IF AssignedTo(assigned[v]) = {v} THEN "revoke" ELSE "fail"
               ELSE IF Matches(v, fits) THEN "bound" ELSE "route")
  /\ UNCHANGED <<provider, store, current, draft, phase, settings, handle, fresh, faults>>

(* DELETE at the provider; a voice that is gone already answers 404.       *)
RevokeVoice(v) ==
  LET id == profiles[wanted[v]] IN
  /\ pc[v] = "revoke"
  /\ provider' = [provider EXCEPT ![id] = Gone]
  /\ \/ provider[id] # Gone /\ Goto(v, "wipe") /\ UNCHANGED faults
     \/ provider[id] = Gone /\ Goto(v, "fail") /\ UNCHANGED faults
     \/ provider[id] # Gone /\ Goto(v, "fail") /\ Fault   \* done, but the answer was lost
  /\ UNCHANGED <<store, current, draft, phase, locals, fresh>>

RevokeFails(v) ==
  /\ pc[v] = "revoke" /\ Fault
  /\ Goto(v, "fail")
  /\ UNCHANGED <<provider, store, current, draft, phase, locals, fresh>>

(* delete_voice_generation: three deletes, then delete_voice_profile.      *)
DeleteNoRecordings(v) ==
  /\ pc[v] = "wipe" /\ LockFree /\ Goto(v, "unassign")
  /\ UNCHANGED <<provider, store, current, draft, phase, locals, fresh, faults>>

DeleteProfileFirst(v) ==
  /\ pc[v] = "wipe" /\ LockFree /\ Goto(v, "unassign")
  /\ recorded' = [recorded EXCEPT ![v] = {}]
  /\ profiles' = [p \in ProfileIds |-> IF p = wanted[v] THEN None ELSE profiles[p]]
  /\ UNCHANGED <<provider, genders, assigned, unresolved, current, draft, phase, locals, fresh,
                 faults>>

DeleteRecordings(v) ==
  /\ pc[v] = "wipe" /\ LockFree
  /\ recorded' = [recorded EXCEPT ![v] = {}]
  /\ Goto(v, "unassign")
  /\ UNCHANGED <<provider, profiles, genders, assigned, unresolved, current, draft, phase, locals,
                 fresh, faults>>

DeleteAssignment(v) ==
  /\ pc[v] = "unassign"
  /\ assigned' = [assigned EXCEPT ![v] = None]
  /\ Goto(v, "forget")
  /\ UNCHANGED <<provider, profiles, genders, recorded, unresolved, current, draft, phase, locals,
                 fresh, faults>>

DeleteFailures(v) ==
  /\ pc[v] = "forget"
  /\ unresolved' = unresolved \ {v}
  /\ Goto(v, IF wanted[v] = None THEN "route" ELSE "drop")
  /\ UNCHANGED <<provider, profiles, genders, assigned, recorded, current, draft, phase, locals,
                 fresh, faults>>

DeleteProfile(v) ==
  /\ pc[v] = "drop" /\ LockFree
  /\ LET p == wanted[v] IN
       IF AssignedTo(p) = {}
       THEN /\ profiles' = [profiles EXCEPT ![p] = None]
            /\ genders' = [genders EXCEPT ![p] = None]
            /\ Goto(v, "route")
       ELSE Goto(v, "fail") /\ UNCHANGED <<profiles, genders>>
  /\ UNCHANGED <<provider, assigned, recorded, unresolved, current, draft, phase, locals,
                 fresh, faults>>

(* A sparse voice waits for the one task that makes its bucket's profile.  *)
AwaitGeneric(v) ==
  LET g == GenericOf[v] IN
  /\ pc[v] = "route" /\ v \in generic /\ Settled(g)
  /\ wanted' = [wanted EXCEPT ![v] = g]
  /\ Goto(v, IF pc[g] = "ready" THEN "assign" ELSE "fail")
  /\ UNCHANGED <<provider, store, current, draft, phase, settings, handle, fresh, faults>>

(* Where a profile comes from: the table, the catalog (never when the run  *)
(* recreates voices: the snapshot may predate the deletion), a new voice.  *)
SourceTableOnly(p) == IF profiles[p] # None THEN "assign" ELSE "publish"

SourceStaleCatalog(p) ==
  IF profiles[p] # None THEN "assign" ELSE IF catalog[p] # None THEN "adopt" ELSE "publish"

Source(p) ==
  CASE profiles[p] # None                                    -> "assign"
    [] profiles[p] = None /\ ~recreate /\ catalog[p] # None  -> "adopt"
    [] OTHER                                                 -> "publish"

ChooseProfile(v) ==
  LET p == DedicatedProfileId(v) IN
  /\ pc[v] = "route" /\ v \notin generic
  /\ wanted' = [wanted EXCEPT ![v] = p]
  /\ Goto(v, IF AssignedTo(p) \subseteq {v} THEN Source(p) ELSE "fail")
  /\ UNCHANGED <<provider, store, current, draft, phase, settings, handle, fresh, faults>>

-----------------------------------------------------------------------------
(* _ensure_generic_profile and _ensure_narrator_voice                      *)

SharedSource(p, stored) ==
  IF stored THEN "bound" ELSE IF catalog[p] # None THEN "adopt" ELSE "publish"

LookupGeneric(g) ==
  /\ pc[g] = "lookup"
  /\ wanted' = [wanted EXCEPT ![g] = g]
  /\ Goto(g, SharedSource(g, profiles[g] # None))
  /\ UNCHANGED <<provider, store, current, draft, phase, settings, handle, fresh, faults>>

LookupNarrator ==
  /\ pc[Narrator] = "lookup"
  /\ wanted' = [wanted EXCEPT ![Narrator] = Narrator]
  /\ Goto(Narrator, SharedSource(Narrator, assigned[Narrator] # None))
  /\ UNCHANGED <<provider, store, current, draft, phase, settings, handle, fresh, faults>>

-----------------------------------------------------------------------------
(* _reuse_existing_profile, _publish_profile, assign_voice: any task       *)

AfterSaving(t) == IF t \in Generics THEN "bound" ELSE "assign"

(* upsert_voice_profiles.                                                  *)
StoreTag(t, id) ==
  /\ profiles' = [profiles EXCEPT ![wanted[t]] = wanted[t]]
  /\ \E g \in Genders : /\ GenderOf[t] \in {g, None}
                       /\ genders' = [genders EXCEPT ![wanted[t]] = g]

Store(t, id) ==
  /\ profiles' = [profiles EXCEPT ![wanted[t]] = id]
  /\ \E g \in Genders : /\ GenderOf[t] \in {g, None}
                       /\ genders' = [genders EXCEPT ![wanted[t]] = g]

Adopt(t) ==
  /\ pc[t] = "adopt" /\ LockFree
  /\ Store(t, catalog[wanted[t]])
  /\ Goto(t, AfterSaving(t))
  /\ UNCHANGED <<provider, assigned, recorded, unresolved, current, draft, phase, locals,
                 fresh, faults>>

(* The draft is published under the profile's tag.                         *)
Publish(t) ==
  /\ pc[t] = "publish"
  /\ Unused # {}
  /\ LET id == CHOOSE i \in Unused : TRUE IN   \* ids are interchangeable
       /\ provider' = [provider EXCEPT ![id] = wanted[t]]
       /\ fresh' = fresh \cup {id}
       /\ handle' = [handle EXCEPT ![t] = id]
       /\ \/ Goto(t, "label") /\ UNCHANGED faults
          \/ Goto(t, "fail") /\ Fault                \* published, but the answer was lost
  /\ UNCHANGED <<store, current, draft, phase, settings, wanted>>

(* The plan, the design or the publication fails; a provider with no more  *)
(* ids to hand out refuses every publication.                              *)
PublishFails(t) ==
  /\ pc[t] = "publish"
  /\ (Unused = {} /\ UNCHANGED faults) \/ Fault
  /\ Goto(t, "fail")
  /\ UNCHANGED <<provider, store, current, draft, phase, locals, fresh>>

(* update_voice gives the new voice its gender; then the profile is stored. *)
SaveProfile(t) ==
  /\ pc[t] = "label" /\ LockFree
  /\ Store(t, handle[t])
  /\ Goto(t, AfterSaving(t))
  /\ UNCHANGED <<provider, assigned, recorded, unresolved, current, draft, phase, locals,
                 fresh, faults>>

LabelFails(t) ==
  /\ pc[t] = "label" /\ Fault
  /\ Goto(t, "fail")
  /\ UNCHANGED <<provider, store, current, draft, phase, locals, fresh>>

(* A voice that had no assignment has no recordings to lose.               *)
NeverChanges(t, p) == FALSE

VoiceChanges(t, p) == assigned[t] \notin {None, p}

(* assign_voice under the write lock: the checks and the deletion of the   *)
(* recordings of another provider voice, then the assignment itself.       *)
PrepareAssignment(t) ==
  LET p       == wanted[t]
      allowed == profiles[p] # None /\ (p \in DedicatedIds => AssignedTo(p) \subseteq {t})
  IN
  /\ pc[t] = "assign" /\ LockFree
  /\ recorded' = [recorded EXCEPT ![t] =
                    IF allowed /\ VoiceChanges(t, p) THEN {} ELSE @]
  /\ Goto(t, IF allowed THEN "bind" ELSE "fail")
  /\ UNCHANGED <<provider, profiles, genders, assigned, unresolved, current, draft, phase, locals,
                 fresh, faults>>

Assign(t) ==
  /\ pc[t] = "bind"
  /\ assigned' = [assigned EXCEPT ![t] = wanted[t]]
  /\ Goto(t, "bound")
  /\ UNCHANGED <<provider, profiles, genders, recorded, unresolved, current, draft, phase, locals,
                 fresh, faults>>

-----------------------------------------------------------------------------
(* The wrappers of generate: the coroutine has returned or raised, and its *)
(* VOICE_CREATION failure is cleared or recorded.                          *)

Return(t) == /\ wanted' = [wanted EXCEPT ![t] = None]
             /\ handle' = [handle EXCEPT ![t] = None]

ClearFailure(t) ==
  /\ pc[t] = "bound" /\ LockFree /\ Return(t)
  /\ unresolved' = unresolved \ {t}
  /\ Goto(t, IF t \in Voices THEN "speak" ELSE "ready")
  /\ UNCHANGED <<provider, profiles, genders, assigned, recorded, current, draft, phase, settings,
                 fresh, faults>>

RecordFailure(t) ==
  /\ pc[t] = "fail" /\ LockFree /\ Return(t)
  /\ unresolved' = unresolved \cup {t}
  /\ Goto(t, "failed")
  /\ UNCHANGED <<provider, profiles, genders, assigned, recorded, current, draft, phase, settings,
                 fresh, faults>>

(* Sparse voices are synthesised together, after every process task.       *)
Turn(v) ==
  v \in generic =>
    \A w \in Voices : Settled(w) \/ (w \in generic /\ pc[w] \in {"speak", "narrate"})

(* A workload with narrator lines awaits the one task that makes the       *)
(* narrator's voice; the first to await it creates it.                     *)
CallNarrator(v) ==
  /\ pc[v] = "speak" /\ Turn(v)
  /\ pc' = [pc EXCEPT ![v] = "narrate", ![Narrator] = IF @ = "off" THEN "lookup" ELSE @]
  /\ UNCHANGED <<provider, store, current, draft, phase, locals, fresh, faults>>

(* _synthesize_workloads, in outline: audio, if any, is labelled with the  *)
(* provider voice of the voice.                                            *)
Speak(v) ==
  /\ LockFree
  /\ (pc[v] = "speak" /\ Turn(v)) \/ (pc[v] = "narrate" /\ Settled(Narrator))
  /\ \E spoken \in {{}, {Bound(v)}} : recorded' = [recorded EXCEPT ![v] = @ \cup spoken]
  /\ Goto(v, "ready")
  /\ UNCHANGED <<provider, profiles, genders, assigned, unresolved, current, draft, phase, locals,
                 fresh, faults>>

-----------------------------------------------------------------------------
(* rebuild_attributions: a new publication, and _reconcile_generation      *)

(* A family is published as one unsuffixed voice, as two or more gender    *)
(* variants of it, or, when nothing of it is left to say, not at all.      *)
VariantsOf(v) == {Variant[v][g] : g \in Genders} \ {None}

Publications ==
  {P \in SUBSET Voices :
     \A v \in Voices : LET split == VariantsOf(v) \cap P IN
       split # {} => v \notin P /\ Cardinality(split) > 1}

Stale(publication) == {v \in Voices \ publication : assigned[v] # None}

(* The voice a stale assignment moves to: the neutral variant when the     *)
(* profile is dedicated and there is one, else the one of its gender.      *)
Neutralised(v) == assigned[v] \in DedicatedIds /\ Variant[v][Neutral] \in draft

Heir(v) == Variant[v][IF Neutralised(v) THEN Neutral ELSE genders[assigned[v]]]

Moves == {v \in Stale(draft) : Heir(v) \in draft /\ assigned[Heir(v)] = None}

StartRebuild ==
  /\ phase = "idle"
  /\ draft' \in Publications
  /\ phase' = "neutralise"
  /\ UNCHANGED <<provider, store, current, locals, pc, fresh, faults>>

Neutralise ==
  /\ phase = "neutralise"
  /\ genders' = [p \in ProfileIds |->
                   IF \E v \in Moves : Neutralised(v) /\ assigned[v] = p
                   THEN Neutral ELSE genders[p]]
  /\ phase' = "remap"
  /\ UNCHANGED <<provider, profiles, assigned, recorded, unresolved, current, draft, locals,
                 pc, fresh, faults>>

RemapEveryVariant ==
  LET heirs(s) == {v \in VariantsOf(s) \cap draft : assigned[v] = None} IN
  /\ phase = "remap" /\ phase' = "prune"
  /\ assigned' = [v \in Logical |-> IF \E s \in Stale(draft) : v \in heirs(s)
                                    THEN assigned[CHOOSE s \in Stale(draft) : v \in heirs(s)]
                                    ELSE assigned[v]]
  /\ UNCHANGED <<provider, profiles, genders, recorded, unresolved, current, draft, locals,
                 pc, fresh, faults>>

Remap ==
  /\ phase = "remap"
  /\ assigned' = [v \in Logical |-> IF \E s \in Moves : Heir(s) = v
                                    THEN assigned[CHOOSE s \in Moves : Heir(s) = v]
                                    ELSE assigned[v]]
  /\ phase' = "prune"
  /\ UNCHANGED <<provider, profiles, genders, recorded, unresolved, current, draft, locals,
                 pc, fresh, faults>>

Prune ==
  /\ phase = "prune"
  /\ assigned' = [v \in Logical |-> IF v \in Stale(draft) THEN None ELSE assigned[v]]
  /\ phase' = "purge"
  /\ UNCHANGED <<provider, profiles, genders, recorded, unresolved, current, draft, locals, pc,
                 fresh, faults>>

(* Recordings and failures of voices that are no longer published, and the *)
(* recordings of lines that have moved away from a voice that is.          *)
Purge ==
  /\ phase = "purge"
  /\ \E kept \in SUBSET draft :
       recorded' = [v \in Logical |-> IF v \in kept \cup {Narrator} THEN recorded[v] ELSE {}]
  /\ unresolved' = unresolved \cap (draft \cup {Narrator})
  /\ phase' = "publish"
  /\ UNCHANGED <<provider, profiles, genders, assigned, current, draft, locals, pc, fresh, faults>>

FinishRebuild ==
  /\ phase = "publish"
  /\ current' = draft /\ draft' = {}
  /\ phase' = "idle"
  /\ UNCHANGED <<provider, store, locals, pc, fresh, faults>>

-----------------------------------------------------------------------------
VoiceStep(v) ==
  \/ Admit(v) \/ LookupVoice(v) \/ RevokeVoice(v) \/ RevokeFails(v)
  \/ DeleteRecordings(v) \/ DeleteAssignment(v) \/ DeleteFailures(v) \/ DeleteProfile(v)
  \/ AwaitGeneric(v) \/ ChooseProfile(v) \/ CallNarrator(v) \/ Speak(v)

TaskStep(t) ==
  \/ Adopt(t) \/ Publish(t) \/ PublishFails(t) \/ SaveProfile(t) \/ LabelFails(t)
  \/ PrepareAssignment(t) \/ Assign(t) \/ ClearFailure(t) \/ RecordFailure(t)

Rebuild == Neutralise \/ Remap \/ Prune \/ Purge \/ FinishRebuild

Next ==
  \/ StartGenerate \/ EndGenerate \/ Crash
  \/ \E v \in Voices : VoiceStep(v)
  \/ \E g \in Generics : LookupGeneric(g)
  \/ LookupNarrator
  \/ \E t \in Tasks : TaskStep(t)
  \/ StartRebuild \/ Rebuild

Spec == Init /\ [][Next]_vars

(* asyncio runs every task that is not waiting, and no request waits for   *)
(* ever (the client has a timeout); when a command starts is up to a user. *)
FairSpec ==
  /\ Spec
  /\ WF_vars(EndGenerate) /\ WF_vars(LookupNarrator) /\ WF_vars(Rebuild)
  /\ \A v \in Voices : WF_vars(VoiceStep(v))
  /\ \A g \in Generics : WF_vars(LookupGeneric(g))
  /\ \A t \in Tasks : WF_vars(TaskStep(t))

-----------------------------------------------------------------------------
(* Properties                                                              *)

Labels == {"off", "queued", "lookup", "revoke", "wipe", "unassign", "forget", "drop", "route",
           "adopt", "publish", "label", "assign", "bind", "bound", "speak", "narrate", "fail", "failed",
           "ready"}

TypeOK ==
  /\ provider \in [ProviderIds -> ProfileIds \cup {None, Gone}]
  /\ profiles \in [ProfileIds -> ProviderIds \cup {None}]
  /\ genders \in [ProfileIds -> Genders \cup {None}]
  /\ assigned \in [Logical -> ProfileIds \cup {None}]
  /\ recorded \in [Logical -> SUBSET ProviderIds]
  /\ unresolved \subseteq Tasks
  /\ current \in SUBSET Voices /\ draft \in SUBSET Voices
  /\ phase \in {"idle", "generate", "neutralise", "remap", "prune", "purge", "publish"}
  /\ recreate \in BOOLEAN /\ generic \in SUBSET Voices
  /\ catalog \in [ProfileIds -> ProviderIds \cup {None}]
  /\ pc \in [Tasks -> Labels]
  /\ wanted \in [Tasks -> ProfileIds \cup {None}]
  /\ handle \in [Tasks -> ProviderIds \cup {None}]
  /\ fresh \in SUBSET ProviderIds
  /\ faults \in 0..MaxFaults

(* Every assignment names a stored profile, whatever was interrupted: this *)
(* is what generated_voice and generated_voices assert before they answer. *)
AssignmentsResolve == \A v \in Logical : assigned[v] # None => profiles[assigned[v]] # None

(* Two published voices never share a dedicated profile (assign_voice,     *)
(* assert_exclusive_profile_assignment).                                   *)
DedicatedExclusive ==
  \A v, w \in current \cup {Narrator} :
    assigned[v] = assigned[w] /\ assigned[v] \in DedicatedIds => v = w

(* The provider never holds two voices under one profile tag, and the      *)
(* voice it holds is the one the profile table names: what a run published *)
(* and then lost is found again by its tag, not paid for twice.            *)
OneVoicePerTag ==
  \A p \in ProfileIds : /\ Cardinality(Tagged(p)) <= 1
                        /\ profiles[p] # None => Tagged(p) \subseteq {profiles[p]}

(* A task that settled did what the run asked of its voice: a ready voice  *)
(* has the profile its routing calls for, alone if that is dedicated, and  *)
(* no failure left; a failed one has its failure on record.                *)
SettledVoices ==
  \A v \in Voices :
    /\ pc[v] = "failed" => v \in unresolved
    /\ pc[v] \in {"speak", "narrate", "ready"} =>
         /\ v \notin unresolved
         /\ IF v \in generic THEN assigned[v] = GenericOf[v]
            ELSE assigned[v] \in DedicatedIds /\ AssignedTo(assigned[v]) = {v}

(* Every run of generate ends: the voice semaphore and the tasks that wait *)
(* for a generic profile or the narrator never wait for each other.        *)
GenerateEnds == phase = "generate" ~> phase = "idle"

(* Recordings and assignments move together, as the abstract store says.   *)
Ledger == INSTANCE VoiceLedger WITH
  bound    <- [v \in Logical |-> Bound(v)],
  recorded <- [v \in Logical |-> IF assigned[v] = None THEN {} ELSE recorded[v]]

LedgerSpec == Ledger!Spec

(* Unless a call failed or the process died, a profile in use names a voice *)
(* the provider still has, except while the voice is being recreated: no    *)
(* task binds a voice that another task deletes or has deleted.             *)
VoicesAlive ==
  faults = 0 => \A v \in Logical :
    assigned[v] # None /\ pc[v] \notin {"wipe", "unassign"} => provider[Bound(v)] = assigned[v]

(* "duplicate Inworld profile tag", asserted by _provider_voice_catalog:   *)
(* whenever no command runs, the next one finds one voice per profile.     *)
NoDuplicateTag == phase = "idle" => CatalogIsUnique

(* --recreate-voices: "delete and recreate every selected character voice  *)
(* and its audio".  A dedicated voice such a run settled speaks with a     *)
(* provider voice that this run published.                                 *)
RecreatedIsFresh ==
  \A v \in Voices \ generic :
    recreate /\ pc[v] \in {"speak", "narrate", "ready"} => Bound(v) \in fresh
=============================================================================
