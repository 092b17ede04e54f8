----------------------- MODULE ProvisioningSafetyProofs -----------------------
(***************************************************************************)
(* The safety properties of VoiceProvisioning, for every cast of voices,   *)
(* every bound and every interleaving of the tasks of generate with the    *)
(* reconciliation of attribution, faults and crashes: a settled voice has  *)
(* what the run asked for, no two voices share a dedicated profile, a tag  *)
(* names one provider voice, a profile in use names one that exists, and   *)
(* recordings never outlive the binding they were made with.               *)
(*                                                                         *)
(* None is inductive.  Each rests on where the tasks are: the profile a    *)
(* task works towards is one that no other task makes (OwnIds, Routed) and *)
(* that nobody is assigned meanwhile; the catalog that was read when the   *)
(* run started misses only what the run itself published (Snapshot); a     *)
(* voice whose profile is being removed was its only user, the heir of the *)
(* one it was made for included (Lineage, Doomed).  Two conditions limit   *)
(* what holds.  RebuildMayCrash lets attribution die inside its            *)
(* reconciliation, whose five writes are separate: what it leaves half     *)
(* done (Reconciled) breaks exclusivity and the ledger, as the run of the  *)
(* torn rebuild shows for the first.  AllowRecreate lets a run delete its  *)
(* voices: the provider's deletion and the store's are apart, so that a    *)
(* profile may name a voice that is gone and another be made under its tag *)
(* (NothingLost).  Alive speaks of a run without faults only, since a      *)
(* fault between the two deletions is what leaves a profile dangling.      *)
(***************************************************************************)
EXTENDS VoiceProvisioningProofs, FiniteSetTheorems

(* Where a task may make a profile, and where it deletes one.              *)
Publishing == {"adopt", "publish", "label"}
Removing   == {"wipe", "unassign", "forget", "drop"}

(* The profile ids a task may make a profile under.                        *)
OwnIds(t) == IF t \in Voices THEN {t, Namespaced[t]} ELSE {t}

(* Who runs, and what only character voices do.                            *)
Selected ==
  /\ generic \subseteq current /\ (phase # "generate" => generic = {})
  /\ \A v \in Voices : pc[v] # "off" => v \in current
  /\ pc[Narrator] \notin {"queued", "revoke", "route", "speak", "narrate"} \cup Removing
  /\ \A g \in Generics :
       pc[g] \in {"off", "lookup", "bound", "fail", "failed", "ready"} \cup Publishing

(* The narrator's profile is the narrator's only, and its only one.        *)
NarratorsOwn ==
  /\ \A v \in Voices : assigned[v] # Narrator
  /\ assigned[Narrator] \in {None, Narrator}

(* What a task works towards, and that nothing is assigned it meanwhile.   *)
Routed ==
  \A t \in Tasks :
    /\ pc[t] \in Publishing =>
         t \notin generic /\ wanted[t] \in OwnIds(t) /\ AssignedTo(wanted[t]) = {}
    /\ pc[t] \in {"assign", "bind"} =>
         IF t \in generic THEN wanted[t] = GenericOf[t] /\ pc[GenericOf[t]] = "ready"
                          ELSE wanted[t] \in OwnIds(t)
    /\ pc[t] = "bind" /\ wanted[t] \in DedicatedIds => AssignedTo(wanted[t]) \subseteq {t}

(* What a voice that is served has.                                        *)
Suited ==
  \A v \in Voices : pc[v] \in Served =>
    IF v \in generic THEN assigned[v] = GenericOf[v]
    ELSE assigned[v] \in DedicatedIds /\ AssignedTo(assigned[v]) = {v}

(* A voice failed, or was served, and the store says so.                   *)
FailuresKnown ==
  \A v \in Voices : /\ pc[v] = "failed" => v \in unresolved
                    /\ pc[v] \in {"speak", "narrate", "ready"} => v \notin unresolved

(* Every stored profile has a gender, which Neutralise may change.         *)
Gendered == \A p \in ProfileIds : profiles[p] # None => genders[p] \in Genders

(* A publication never holds a family beside its variants.                 *)
Whole == current \in Publications /\ draft \in Publications

(* Only published voices are assigned.                                     *)
Owners ==
  \A v \in Voices : assigned[v] # None =>
    CASE phase \in {"purge", "publish"} -> v \in draft
      [] phase = "prune"                -> v \in current \cup draft
      [] OTHER                          -> v \in current

(* No two of these share a dedicated profile.                              *)
ExclusiveAmong(V) ==
  \A v, w \in V : assigned[v] = assigned[w] /\ assigned[v] \in DedicatedIds => v = w

(* Between Remap and Prune an heir shares the profile of the one it replaces,*)
(* who is published no more: neither publication holds both.               *)
Exclusive ==
  IF phase = "prune" THEN /\ ExclusiveAmong(current \cup {Narrator})
                          /\ ExclusiveAmong(draft \cup {Narrator})
                     ELSE ExclusiveAmong(Logical)

(* Recordings do not outlast an assignment.                                *)
Cleared ==
  /\ \A v \in Logical : assigned[v] = None /\ (phase = "purge" => v \in draft \cup {Narrator})
                          => recorded[v] = {}
  /\ \A v \in Voices : pc[v] = "unassign" => recorded[v] = {}
  /\ \A v \in Logical : pc[v] = "bind" /\ assigned[v] # wanted[v] => recorded[v] = {}

(* What a reconciliation that is not torn keeps.                           *)
Reconciled == ~RebuildMayCrash => Owners /\ Exclusive /\ Cleared

(* Without recreation no stored profile loses its voice.                   *)
Kept ==
  /\ ~recreate
  /\ \A p \in ProfileIds : profiles[p] # None => provider[profiles[p]] = p

(* Where a task has published nothing yet in this run.                     *)
Unpublished == {"off", "queued", "lookup", "revoke", "route", "adopt", "publish"} \cup Removing

(* The catalog misses only what was published since the run read it, and a *)
(* task publishes under a tag that it found nothing under.                 *)
Snapshot ==
  /\ phase = "generate" =>
       /\ \A p \in ProfileIds : /\ catalog[p] # None => provider[catalog[p]] = p
                                /\ \A i \in Tagged(p) : catalog[p] = i \/ i \in fresh
       /\ \A t \in Tasks : pc[t] \in Unpublished => \A i \in fresh : provider[i] \notin OwnIds(t)
  /\ \A t \in Tasks : /\ pc[t] = "publish" => catalog[wanted[t]] = None
                      /\ pc[t] = "label" => Tagged(wanted[t]) = {handle[t]}

(* A tag names one provider voice at most.                                 *)
OneTag == \A p \in ProfileIds : \A i, j \in Tagged(p) : i = j

(* What holds when no run recreates its voices.                            *)
NothingLost == ~AllowRecreate => Kept /\ Snapshot /\ OneTag

(* The profile is the voice's own, or of the voice it is a variant of.     *)
Heritage(v, p) == p \in OwnIds(v) \/ \E s \in Voices : v \in VariantsOf(s) /\ p \in OwnIds(s)

(* A dedicated profile is assigned to its voice or to an heir.             *)
Lineage == \A v \in Voices : assigned[v] \in DedicatedIds => Heritage(v, assigned[v])

(* A profile that is to be removed has one user, until the assignment is   *)
(* deleted and nobody has it.                                              *)
Doomed ==
  \A v \in Voices :
    /\ pc[v] \in {"revoke", "drop"} => wanted[v] # None
    /\ pc[v] \in {"revoke"} \cup Removing /\ wanted[v] # None =>
         /\ recreate /\ Heritage(v, wanted[v])
         /\ AssignedTo(wanted[v]) = IF pc[v] \in {"forget", "drop"} THEN {} ELSE {v}

(* The profile's voice is being deleted.                                   *)
Condemned(p) == \E v \in Voices : pc[v] \in Removing /\ wanted[v] = p

(* Without faults, what is stored or was read from the provider exists there.*)
Alive ==
  faults = 0 =>
    /\ \A p \in ProfileIds : profiles[p] # None /\ ~Condemned(p) => provider[profiles[p]] = p
    /\ \A t \in Tasks : /\ pc[t] = "label" => provider[handle[t]] = wanted[t]
                        /\ pc[t] = "adopt" /\ recreate => t \notin Voices
    /\ phase = "generate" => \A p \in ProfileIds :
         catalog[p] # None /\ (recreate => p \in Generics \cup {Narrator}) => provider[catalog[p]] = p

(* The inductive invariant.                                                *)
Inv ==
  /\ IInv
  /\ Selected /\ NarratorsOwn /\ Routed /\ Suited /\ FailuresKnown
  /\ Gendered /\ Whole /\ Reconciled
  /\ NothingLost
  /\ Lineage /\ Doomed /\ Alive
-----------------------------------------------------------------------------
(* The kinds of voices and profiles.                                       *)
LEMMA Cast ==
  /\ Logical = Voices \cup {Narrator} /\ Tasks = Logical \cup Generics
  /\ Logical \subseteq DedicatedIds /\ DedicatedIds \subseteq ProfileIds
  /\ Generics \subseteq ProfileIds /\ Generics \cap DedicatedIds = {}
  /\ Narrator \notin Voices /\ Narrator \notin Generics /\ Voices \cap Generics = {}
  /\ None \notin ProfileIds /\ Gone \notin ProfileIds /\ None # Gone
  /\ None \notin ProviderIds /\ Gone \notin ProviderIds /\ None \notin Genders
  /\ GenericOf \in [Voices -> Generics]
  BY ConstantsAssumption DEF Logical, Tasks, DedicatedIds, ProfileIds

(* No two tasks make a profile under the same id.                          *)
LEMMA OwnIdsApart ==
  /\ \A t, u \in Tasks : t # u => OwnIds(t) \cap OwnIds(u) = {}
  /\ \A t \in Tasks : t \in OwnIds(t) /\ OwnIds(t) \subseteq ProfileIds
  /\ \A t \in Logical : OwnIds(t) \subseteq DedicatedIds
  /\ \A g \in Generics : OwnIds(g) = {g}
  /\ OwnIds(Narrator) = {Narrator}
  BY ConstantsAssumption DEF OwnIds, Logical, Tasks, DedicatedIds, ProfileIds

(* A family is not published beside its variants.                          *)
LEMMA NotBoth ==
  ASSUME NEW P \in Publications, NEW s \in P, NEW v \in VariantsOf(s)
  PROVE  v \notin P
  BY DEF Publications

(* Nothing may be published.                                               *)
LEMMA NothingPublished == {} \in Publications
  BY DEF Publications

(* A remapped assignment goes to a published variant that had none.        *)
LEMMA Remapped ==
  ASSUME TypeOK, AssignmentsResolve, Gendered, Remap
  PROVE  /\ \A v \in Logical :
              \/ assigned'[v] = assigned[v]
              \/ /\ assigned[v] = None /\ v \in draft /\ v \in Voices
                 /\ \E s \in Voices \ draft : /\ Heir(s) = v /\ v \in VariantsOf(s)
                                             /\ assigned[s] # None /\ assigned'[v] = assigned[s]
         /\ assigned' \in [Logical -> ProfileIds \cup {None}]
         /\ phase = "remap" /\ phase' = "prune"
         /\ UNCHANGED <<provider, profiles, genders, recorded, unresolved, current, draft, locals,
                         pc, fresh, faults>>
<1>1. ASSUME NEW s \in Moves
      PROVE  /\ s \in Voices \ draft /\ assigned[s] # None /\ Heir(s) \in VariantsOf(s)
             /\ Heir(s) \in draft /\ Heir(s) \in Voices /\ assigned[Heir(s)] = None
  <2>1. s \in Voices \ draft /\ assigned[s] # None /\ Heir(s) \in draft /\ assigned[Heir(s)] = None
    BY DEF Moves, Stale
  <2>2. assigned[s] \in ProfileIds /\ genders[assigned[s]] \in Genders
    BY <2>1, Cast DEF TypeOK, AssignmentsResolve, Gendered
  <2>3. Heir(s) # None /\ Heir(s) \in Voices
    BY <2>1, Cast DEF TypeOK
  <2> QED
    BY <2>1, <2>2, <2>3, ConstantsAssumption DEF Heir, VariantsOf
<1>2. ASSUME NEW v \in Logical, \E s \in Moves : Heir(s) = v
      PROVE  \E s \in Moves : Heir(s) = v /\ assigned'[v] = assigned[s]
  BY <1>2 DEF Remap
<1>3. ASSUME NEW v \in Logical, ~\E s \in Moves : Heir(s) = v
      PROVE  assigned'[v] = assigned[v]
  BY <1>3 DEF Remap
<1>4. \A v \in Logical : \/ assigned'[v] = assigned[v]
                         \/ \E s \in Moves : Heir(s) = v /\ assigned'[v] = assigned[s]
  BY <1>2, <1>3
<1>5. assigned' \in [Logical -> ProfileIds \cup {None}]
  <2>1. \A v \in Logical : assigned'[v] \in ProfileIds \cup {None}
    BY <1>1, <1>4, Cast DEF TypeOK
  <2>2. assigned' = [v \in Logical |-> assigned'[v]]
    BY DEF Remap
  <2> QED
    BY <2>1, <2>2
<1> QED
  BY <1>1, <1>4, <1>5 DEF Remap

(* The profile a voice chooses is stored, or nothing is assigned it.       *)
LEMMA Chosen ==
  ASSUME TypeOK, AssignmentsResolve, NEW v \in Voices, ChooseProfile(v)
  PROVE  \E p \in OwnIds(v) : \E where \in Publishing \cup {"assign", "fail"} :
           /\ v \notin generic /\ pc[v] = "route"
           /\ wanted' = [wanted EXCEPT ![v] = p] /\ pc' = [pc EXCEPT ![v] = where]
           /\ where \in Publishing => AssignedTo(p) = {} /\ where # "label"
           /\ where = "adopt" => ~recreate /\ catalog[p] # None
           /\ where = "publish" /\ ~recreate => catalog[p] = None
           /\ UNCHANGED <<provider, store, current, draft, phase, settings, handle, fresh, faults>>
<1> DEFINE p == DedicatedProfileId(v)
           where == IF AssignedTo(p) \subseteq {v} THEN Source(p) ELSE "fail"
<1>1. p \in OwnIds(v)
  BY DEF DedicatedProfileId, OwnIds
<1>2. p \in ProfileIds
  BY <1>1, OwnIdsApart, Cast
<1>3. /\ v \notin generic /\ pc[v] = "route"
      /\ wanted' = [wanted EXCEPT ![v] = p] /\ pc' = [pc EXCEPT ![v] = where]
      /\ UNCHANGED <<provider, store, current, draft, phase, settings, handle, fresh, faults>>
  BY DEF ChooseProfile, Goto
<1> HIDE DEF p
<1>4. ASSUME where \in Publishing
      PROVE  AssignedTo(p) = {} /\ where # "label"
  <2>1. AssignedTo(p) \subseteq {v} /\ profiles[p] = None /\ where # "label"
    BY <1>4 DEF Source, Publishing
  <2>2. \A w \in Logical : assigned[w] # p
    BY <2>1, <1>2, Cast DEF AssignmentsResolve
  <2> QED
    BY <2>1, <2>2 DEF AssignedTo
<1>5. /\ where \in Publishing \cup {"assign", "fail"}
      /\ where = "adopt" => ~recreate /\ catalog[p] # None
      /\ where = "publish" /\ ~recreate => catalog[p] = None
  BY DEF Source, Publishing
<1> HIDE DEF where
<1> QED
  BY <1>1, <1>3, <1>4, <1>5

(* A publication takes an id that was never handed out.                    *)
LEMMA Published ==
  ASSUME TypeOK, NEW t \in Tasks, Publish(t)
  PROVE  \E id \in ProviderIds : \E where \in {"label", "fail"} :
           /\ pc[t] = "publish" /\ pc' = [pc EXCEPT ![t] = where]
           /\ provider[id] = None /\ provider' = [provider EXCEPT ![id] = wanted[t]]
           /\ fresh' = fresh \cup {id} /\ handle' = [handle EXCEPT ![t] = id]
           /\ faults' = 0 => faults = 0
           /\ UNCHANGED <<store, current, draft, phase, settings, wanted>>
<1> DEFINE id == CHOOSE i \in Unused : TRUE
<1>1. id \in ProviderIds /\ provider[id] = None
  BY DEF Publish, Unused
<1>2. /\ provider' = [provider EXCEPT ![id] = wanted[t]] /\ pc[t] = "publish"
      /\ fresh' = fresh \cup {id} /\ handle' = [handle EXCEPT ![t] = id]
      /\ UNCHANGED <<store, current, draft, phase, settings, wanted>>
  BY DEF Publish
<1>3. /\ faults' = 0 => faults = 0
      /\ \E where \in {"label", "fail"} : pc' = [pc EXCEPT ![t] = where]
  BY DEF Publish, Fault, TypeOK, Goto
<1> HIDE DEF id
<1> QED
  BY <1>1, <1>2, <1>3

(* A profile that a voice has, or inherited, no other task assigns.        *)
LEMMA NoIntruder ==
  ASSUME TypeOK, Selected, Whole, Routed, NEW v \in Voices, pc[v] # "off",
         NEW t \in Tasks, pc[t] \in {"assign", "bind"}, Heritage(v, wanted[t])
  PROVE  t = v
<1>1. PICK s \in Voices : wanted[t] \in OwnIds(s) /\ (s = v \/ v \in VariantsOf(s))
  BY DEF Heritage
<1>2. wanted[t] \in DedicatedIds
  BY <1>1, OwnIdsApart, Cast
<1>3. t \notin generic
  BY <1>2, Cast DEF Routed, TypeOK
<1>4. t = s
  BY <1>1, <1>3, OwnIdsApart, Cast DEF Routed
<1>5. CASE v \in VariantsOf(s)
  <2>1. s \in current /\ v \in current
    BY <1>4 DEF Selected
  <2> QED
    BY <1>5, <2>1, NotBoth DEF Whole
<1> QED
  BY <1>1, <1>4, <1>5

-----------------------------------------------------------------------------
(* What each step keeps                                                    *)

(* Only published voices are selected, and each task has its own steps.    *)
LEMMA SelectedKept ==
  ASSUME TypeOK, Control, Selected, Next
  PROVE  Selected'
<1>1. CASE StartGenerate
  BY <1>1, Cast DEF StartGenerate, Selected, TypeOK, Removing
<1>2. CASE EndGenerate
  BY <1>2, Cast DEF EndGenerate, ResetLocals, Selected, Removing
<1>3. CASE Crash
  BY <1>3, Cast DEF Crash, ResetLocals, Selected, Removing
<1>4. CASE LookupNarrator
  BY <1>4 DEF LookupNarrator, SharedSource, settings, Goto, Selected, Removing, Publishing
<1>5. CASE StartRebuild
  BY <1>5 DEF StartRebuild, locals, Selected
<1>6. CASE Neutralise
  BY <1>6 DEF Neutralise, locals, Selected
<1>7. CASE Remap
  BY <1>7 DEF Remap, locals, Selected
<1>8. CASE Prune
  BY <1>8 DEF Prune, locals, Selected
<1>9. CASE Purge
  BY <1>9 DEF Purge, locals, Selected
<1>10. CASE FinishRebuild
  BY <1>10, Cast DEF FinishRebuild, locals, Selected, Control
<1>11. ASSUME NEW v \in Voices, Admit(v)
      PROVE  Selected'
  BY <1>11 DEF Admit, locals, Goto, Selected
<1>12. ASSUME NEW v \in Voices, LookupVoice(v)
      PROVE  Selected'
  BY <1>12, Cast DEF LookupVoice, settings, Goto, Selected
<1>13. ASSUME NEW v \in Voices, RevokeVoice(v)
      PROVE  Selected'
  BY <1>13, Cast DEF RevokeVoice, locals, Goto, Selected, TypeOK
<1>14. ASSUME NEW v \in Voices, RevokeFails(v)
      PROVE  Selected'
  BY <1>14 DEF RevokeFails, locals, Goto, Selected
<1>15. ASSUME NEW v \in Voices, DeleteRecordings(v)
      PROVE  Selected'
  BY <1>15 DEF DeleteRecordings, locals, Goto, Selected, Removing, Publishing
<1>16. ASSUME NEW v \in Voices, DeleteAssignment(v)
      PROVE  Selected'
  BY <1>16 DEF DeleteAssignment, locals, Goto, Selected, Removing, Publishing
<1>17. ASSUME NEW v \in Voices, DeleteFailures(v)
      PROVE  Selected'
  BY <1>17 DEF DeleteFailures, locals, Goto, Selected, Removing, Publishing
<1>18. ASSUME NEW v \in Voices, DeleteProfile(v)
      PROVE  Selected'
  BY <1>18, Cast DEF DeleteProfile, locals, Goto, Selected, TypeOK
<1>19. ASSUME NEW v \in Voices, AwaitGeneric(v)
      PROVE  Selected'
  BY <1>19 DEF AwaitGeneric, settings, Goto, Selected, Publishing
<1>20. ASSUME NEW v \in Voices, ChooseProfile(v)
      PROVE  Selected'
  BY <1>20 DEF ChooseProfile, settings, Goto, Selected, Publishing
<1>21. ASSUME NEW v \in Voices, CallNarrator(v)
      PROVE  Selected'
  BY <1>21, Cast DEF CallNarrator, locals, Selected, TypeOK, Removing
<1>22. ASSUME NEW v \in Voices, Speak(v)
      PROVE  Selected'
  BY <1>22 DEF Speak, locals, Goto, Selected
<1>23. ASSUME NEW g \in Generics, LookupGeneric(g)
      PROVE  Selected'
  BY <1>23 DEF LookupGeneric, SharedSource, settings, Goto, Selected, Removing, Publishing
<1>24. ASSUME NEW t \in Tasks, Adopt(t)
      PROVE  Selected'
  BY <1>24 DEF Adopt, AfterSaving, locals, Goto, Selected, Removing
<1>25. ASSUME NEW t \in Tasks, Publish(t)
      PROVE  Selected'
  BY <1>25, Cast, Published DEF settings, Selected, TypeOK, Removing, Publishing
<1>26. ASSUME NEW t \in Tasks, PublishFails(t)
      PROVE  Selected'
  BY <1>26 DEF PublishFails, locals, Goto, Selected, Removing
<1>27. ASSUME NEW t \in Tasks, SaveProfile(t)
      PROVE  Selected'
  BY <1>27 DEF SaveProfile, AfterSaving, locals, Goto, Selected, Removing
<1>28. ASSUME NEW t \in Tasks, LabelFails(t)
      PROVE  Selected'
  BY <1>28 DEF LabelFails, locals, Goto, Selected, Removing
<1>29. ASSUME NEW t \in Tasks, PrepareAssignment(t)
      PROVE  Selected'
  BY <1>29 DEF PrepareAssignment, locals, Goto, Selected, Removing, Publishing
<1>30. ASSUME NEW t \in Tasks, Assign(t)
      PROVE  Selected'
  BY <1>30 DEF Assign, locals, Goto, Selected, Removing
<1>31. ASSUME NEW t \in Tasks, ClearFailure(t)
      PROVE  Selected'
  BY <1>31, Cast DEF ClearFailure, settings, Goto, Selected, Removing
<1>32. ASSUME NEW t \in Tasks, RecordFailure(t)
      PROVE  Selected'
  BY <1>32 DEF RecordFailure, settings, Goto, Selected, Removing
<1> QED
  BY <1>1, <1>2, <1>3, <1>4, <1>5, <1>6, <1>7, <1>8, <1>9, <1>10, <1>11, <1>12, <1>13, <1>14,
     <1>15, <1>16, <1>17, <1>18, <1>19, <1>20, <1>21, <1>22, <1>23, <1>24, <1>25, <1>26, <1>27,
     <1>28, <1>29, <1>30, <1>31, <1>32 DEF Next, VoiceStep, TaskStep, Rebuild

(* Neither an assignment nor an heir takes the narrator's profile.         *)
LEMMA NarratorsOwnKept ==
  ASSUME TypeOK, AssignmentsResolve, NarratorsOwn, Gendered, Routed, Next
  PROVE  NarratorsOwn'
<1>1. CASE StartGenerate \/ EndGenerate \/ Crash \/ LookupNarrator \/ StartRebuild
          \/ Neutralise \/ Purge \/ FinishRebuild
  BY <1>1 DEF StartGenerate, EndGenerate, Crash, LookupNarrator, StartRebuild, Neutralise,
     Purge, FinishRebuild, store, NarratorsOwn
<1>2. CASE \E v \in Voices : Admit(v) \/ LookupVoice(v) \/ RevokeVoice(v) \/ RevokeFails(v)
                             \/ DeleteRecordings(v) \/ DeleteFailures(v) \/ DeleteProfile(v)
                             \/ AwaitGeneric(v) \/ ChooseProfile(v) \/ CallNarrator(v)
                             \/ Speak(v)
  BY <1>2 DEF Admit, LookupVoice, RevokeVoice, RevokeFails, DeleteRecordings, DeleteFailures,
     DeleteProfile, AwaitGeneric, ChooseProfile, CallNarrator, Speak, store, NarratorsOwn
<1>3. CASE \E g \in Generics : LookupGeneric(g)
  BY <1>3 DEF LookupGeneric, store, NarratorsOwn
<1>4. CASE \E t \in Tasks : Adopt(t) \/ Publish(t) \/ PublishFails(t) \/ SaveProfile(t)
                            \/ LabelFails(t) \/ PrepareAssignment(t) \/ ClearFailure(t)
                            \/ RecordFailure(t)
  BY <1>4 DEF Adopt, Publish, PublishFails, SaveProfile, LabelFails, PrepareAssignment,
     ClearFailure, RecordFailure, store, NarratorsOwn
<1>5. CASE Remap
  BY <1>5, Cast, Remapped DEF NarratorsOwn
<1>6. CASE Prune
  BY <1>6, Cast DEF Prune, NarratorsOwn
<1>7. ASSUME NEW v \in Voices, DeleteAssignment(v)
      PROVE  NarratorsOwn'
  BY <1>7, Cast DEF DeleteAssignment, NarratorsOwn
<1>8. ASSUME NEW t \in Tasks, Assign(t)
      PROVE  NarratorsOwn'
  BY <1>8, Cast, OwnIdsApart DEF Assign, NarratorsOwn, TypeOK, Routed
<1> QED
  BY <1>1, <1>2, <1>3, <1>4, <1>5, <1>6, <1>7, <1>8 DEF Next, VoiceStep, TaskStep, Rebuild

(* A task that makes or assigns a profile does so under its own ids: what  *)
(* others do meanwhile is about theirs.                                    *)
LEMMA RoutedKept ==
  ASSUME TypeOK, AssignmentsResolve, Control, NarratorsOwn, Gendered, Routed, Next
  PROVE  Routed'
<1>1. CASE StartRebuild \/ Neutralise \/ Purge \/ FinishRebuild
  BY <1>1 DEF StartRebuild, Neutralise, Purge, FinishRebuild, store, locals, AssignedTo, Routed
<1>2. CASE StartGenerate
  BY <1>2 DEF StartGenerate, Routed, Publishing
<1>3. CASE EndGenerate
  BY <1>3 DEF EndGenerate, ResetLocals, Routed, Publishing
<1>4. CASE Crash
  BY <1>4 DEF Crash, ResetLocals, Routed, Publishing
<1>5. CASE LookupNarrator
  BY <1>5, Cast, OwnIdsApart DEF LookupNarrator, SharedSource, store, settings, Goto, Routed,
     TypeOK, NarratorsOwn, AssignedTo, Publishing
<1>6. CASE Remap
  BY <1>6, Remapped DEF Routed, Control, Publishing
<1>7. CASE Prune
  BY <1>7 DEF Prune, Routed, Control, Publishing
<1>8. ASSUME NEW v \in Voices, Admit(v)
      PROVE  Routed'
  BY <1>8 DEF Admit, store, locals, Goto, Routed, AssignedTo, Publishing
<1>9. ASSUME NEW v \in Voices, LookupVoice(v)
      PROVE  Routed'
  BY <1>9 DEF LookupVoice, AssignedTo, store, settings, Goto, Routed, Publishing
<1>10. ASSUME NEW v \in Voices, RevokeVoice(v)
      PROVE  Routed'
  BY <1>10, Cast DEF RevokeVoice, store, locals, Goto, Routed, TypeOK, AssignedTo, Publishing
<1>11. ASSUME NEW v \in Voices, RevokeFails(v)
      PROVE  Routed'
  BY <1>11 DEF RevokeFails, store, locals, Goto, Routed, AssignedTo, Publishing
<1>12. ASSUME NEW v \in Voices, DeleteRecordings(v)
      PROVE  Routed'
  BY <1>12 DEF DeleteRecordings, locals, Goto, Routed, AssignedTo, Publishing
<1>13. ASSUME NEW v \in Voices, DeleteAssignment(v)
      PROVE  Routed'
  BY <1>13 DEF DeleteAssignment, locals, Goto, Routed, Control, AssignedTo, Publishing, Working
<1>14. ASSUME NEW v \in Voices, DeleteFailures(v)
      PROVE  Routed'
  BY <1>14 DEF DeleteFailures, locals, Goto, Routed, AssignedTo, Publishing
<1>15. ASSUME NEW v \in Voices, DeleteProfile(v)
      PROVE  Routed'
  BY <1>15, Cast DEF DeleteProfile, AssignedTo, locals, Goto, Routed, TypeOK, Publishing
<1>16. ASSUME NEW v \in Voices, AwaitGeneric(v)
      PROVE  Routed'
  BY <1>16 DEF AwaitGeneric, store, settings, Goto, Routed, TypeOK, AssignedTo, Publishing
<1>17. ASSUME NEW v \in Voices, ChooseProfile(v)
      PROVE  Routed'
  BY <1>17, Cast, Chosen DEF AssignedTo, store, settings, Routed, TypeOK
<1>18. ASSUME NEW v \in Voices, CallNarrator(v)
      PROVE  Routed'
  BY <1>18, Cast DEF CallNarrator, store, locals, Routed, TypeOK, AssignedTo, Publishing
<1>19. ASSUME NEW v \in Voices, Speak(v)
      PROVE  Routed'
  BY <1>19 DEF Speak, locals, Goto, Routed, AssignedTo, Publishing
<1>20. ASSUME NEW g \in Generics, LookupGeneric(g)
      PROVE  Routed'
  BY <1>20, Cast, OwnIdsApart DEF LookupGeneric, SharedSource, store, settings, Goto, Routed,
     TypeOK, AssignmentsResolve, AssignedTo, Publishing
<1>21. ASSUME NEW t \in Tasks, Adopt(t)
      PROVE  Routed'
  BY <1>21 DEF Adopt, locals, Goto, Routed, AssignedTo, Publishing
<1>22. ASSUME NEW t \in Tasks, Publish(t)
      PROVE  Routed'
  BY <1>22, Cast, Published DEF store, settings, Routed, TypeOK, AssignedTo, Publishing
<1>23. ASSUME NEW t \in Tasks, PublishFails(t)
      PROVE  Routed'
  BY <1>23 DEF PublishFails, store, locals, Goto, Routed, AssignedTo, Publishing
<1>24. ASSUME NEW t \in Tasks, SaveProfile(t)
      PROVE  Routed'
  BY <1>24 DEF SaveProfile, locals, Goto, Routed, AssignedTo, Publishing
<1>25. ASSUME NEW t \in Tasks, LabelFails(t)
      PROVE  Routed'
  BY <1>25 DEF LabelFails, store, locals, Goto, Routed, AssignedTo, Publishing
<1>26. ASSUME NEW t \in Tasks, PrepareAssignment(t)
      PROVE  Routed'
  BY <1>26 DEF PrepareAssignment, AssignedTo, locals, Goto, Routed, Publishing
<1>27. ASSUME NEW t \in Tasks, Assign(t)
      PROVE  Routed'
  BY <1>27, Cast, OwnIdsApart DEF Assign, locals, Goto, Routed, TypeOK, AssignedTo, Publishing
<1>28. ASSUME NEW t \in Tasks, ClearFailure(t)
      PROVE  Routed'
  BY <1>28 DEF ClearFailure, Return, settings, Goto, Routed, AssignedTo, Publishing
<1>29. ASSUME NEW t \in Tasks, RecordFailure(t)
      PROVE  Routed'
  BY <1>29 DEF RecordFailure, Return, settings, Goto, Routed, AssignedTo, Publishing
<1> QED
  BY <1>1, <1>2, <1>3, <1>4, <1>5, <1>6, <1>7, <1>8, <1>9, <1>10, <1>11, <1>12, <1>13, <1>14,
     <1>15, <1>16, <1>17, <1>18, <1>19, <1>20, <1>21, <1>22, <1>23, <1>24, <1>25, <1>26, <1>27,
     <1>28, <1>29 DEF Next, VoiceStep, TaskStep, Rebuild

(* A voice that is served has what it was routed to, and keeps it: nobody  *)
(* else is assigned its own profile.                                       *)
LEMMA SuitedKept ==
  ASSUME TypeOK, AssignmentsResolve, Control, NarratorsOwn, Gendered, Routed, Suited, Next
  PROVE  Suited'
<1>1. CASE StartRebuild \/ Neutralise \/ Purge \/ FinishRebuild
  BY <1>1 DEF StartRebuild, Neutralise, Purge, FinishRebuild, store, locals, AssignedTo, Suited
<1>2. CASE StartGenerate
  BY <1>2, Cast DEF StartGenerate, Suited, Served
<1>3. CASE EndGenerate
  BY <1>3, Cast DEF EndGenerate, ResetLocals, Suited, Served
<1>4. CASE Crash
  BY <1>4, Cast DEF Crash, ResetLocals, Suited, Served
<1>5. CASE LookupNarrator
  BY <1>5 DEF LookupNarrator, SharedSource, store, settings, Goto, Suited, NarratorsOwn,
     AssignedTo, Served
<1>6. CASE Remap
  BY <1>6, Cast, Remapped DEF Suited, Control, Served
<1>7. CASE Prune
  BY <1>7, Cast DEF Prune, Suited, Control, Served
<1>8. ASSUME NEW v \in Voices, Admit(v)
      PROVE  Suited'
  BY <1>8 DEF Admit, store, locals, Goto, Suited, AssignedTo, Served
<1>9. ASSUME NEW v \in Voices, LookupVoice(v)
      PROVE  Suited'
  BY <1>9 DEF LookupVoice, Matches, AssignedTo, store, settings, Goto, Suited, Served
<1>10. ASSUME NEW v \in Voices, RevokeVoice(v)
      PROVE  Suited'
  BY <1>10, Cast DEF RevokeVoice, store, locals, Goto, Suited, TypeOK, AssignedTo, Served
<1>11. ASSUME NEW v \in Voices, RevokeFails(v)
      PROVE  Suited'
  BY <1>11 DEF RevokeFails, store, locals, Goto, Suited, AssignedTo, Served
<1>12. ASSUME NEW v \in Voices, DeleteRecordings(v)
      PROVE  Suited'
  BY <1>12 DEF DeleteRecordings, locals, Goto, Suited, AssignedTo, Served
<1>13. ASSUME NEW v \in Voices, DeleteAssignment(v)
      PROVE  Suited'
  BY <1>13 DEF DeleteAssignment, locals, Goto, Suited, Control, AssignedTo, Served
<1>14. ASSUME NEW v \in Voices, DeleteFailures(v)
      PROVE  Suited'
  BY <1>14 DEF DeleteFailures, locals, Goto, Suited, AssignedTo, Served
<1>15. ASSUME NEW v \in Voices, DeleteProfile(v)
      PROVE  Suited'
  BY <1>15, Cast DEF DeleteProfile, AssignedTo, locals, Goto, Suited, TypeOK, Served
<1>16. ASSUME NEW v \in Voices, AwaitGeneric(v)
      PROVE  Suited'
  BY <1>16 DEF AwaitGeneric, store, settings, Goto, Suited, AssignedTo, Served
<1>17. ASSUME NEW v \in Voices, ChooseProfile(v)
      PROVE  Suited'
  BY <1>17, Cast, Chosen DEF AssignedTo, store, settings, Suited, TypeOK, Publishing, Served
<1>18. ASSUME NEW v \in Voices, CallNarrator(v)
      PROVE  Suited'
  BY <1>18, Cast DEF CallNarrator, store, locals, Suited, TypeOK, AssignedTo, Served
<1>19. ASSUME NEW v \in Voices, Speak(v)
      PROVE  Suited'
  BY <1>19 DEF Speak, locals, Goto, Suited, AssignedTo, Served
<1>20. ASSUME NEW g \in Generics, LookupGeneric(g)
      PROVE  Suited'
  BY <1>20, Cast DEF LookupGeneric, store, settings, Goto, Suited, AssignedTo
<1>21. ASSUME NEW t \in Tasks, Adopt(t)
      PROVE  Suited'
  BY <1>21, Cast DEF Adopt, AfterSaving, locals, Goto, Suited, AssignedTo, Served
<1>22. ASSUME NEW t \in Tasks, Publish(t)
      PROVE  Suited'
  BY <1>22, Cast, Published DEF store, settings, Suited, TypeOK, AssignedTo, Served
<1>23. ASSUME NEW t \in Tasks, PublishFails(t)
      PROVE  Suited'
  BY <1>23 DEF PublishFails, store, locals, Goto, Suited, AssignedTo, Served
<1>24. ASSUME NEW t \in Tasks, SaveProfile(t)
      PROVE  Suited'
  BY <1>24, Cast DEF SaveProfile, AfterSaving, locals, Goto, Suited, AssignedTo, Served
<1>25. ASSUME NEW t \in Tasks, LabelFails(t)
      PROVE  Suited'
  BY <1>25 DEF LabelFails, store, locals, Goto, Suited, AssignedTo, Served
<1>26. ASSUME NEW t \in Tasks, PrepareAssignment(t)
      PROVE  Suited'
  BY <1>26 DEF PrepareAssignment, AssignedTo, locals, Goto, Suited, Served
<1>27. ASSUME NEW t \in Tasks, Assign(t)
      PROVE  Suited'
  BY <1>27, Cast, OwnIdsApart DEF Assign, locals, Goto, Suited, TypeOK, Routed, AssignedTo
<1>28. ASSUME NEW t \in Tasks, ClearFailure(t)
      PROVE  Suited'
  BY <1>28 DEF ClearFailure, settings, Goto, Suited, AssignedTo, Served
<1>29. ASSUME NEW t \in Tasks, RecordFailure(t)
      PROVE  Suited'
  BY <1>29 DEF RecordFailure, settings, Goto, Suited, AssignedTo, Served
<1> QED
  BY <1>1, <1>2, <1>3, <1>4, <1>5, <1>6, <1>7, <1>8, <1>9, <1>10, <1>11, <1>12, <1>13, <1>14,
     <1>15, <1>16, <1>17, <1>18, <1>19, <1>20, <1>21, <1>22, <1>23, <1>24, <1>25, <1>26, <1>27,
     <1>28, <1>29 DEF Next, VoiceStep, TaskStep, Rebuild

(* A failure is recorded where the task ends, and cleared where it succeeds.*)
LEMMA FailuresKept ==
  ASSUME TypeOK, Control, FailuresKnown, Next
  PROVE  FailuresKnown'
<1>1. CASE StartRebuild \/ Neutralise \/ Remap \/ Prune \/ FinishRebuild
  BY <1>1 DEF StartRebuild, Neutralise, Remap, Prune, FinishRebuild, store, FailuresKnown
<1>2. CASE StartGenerate
  BY <1>2, Cast DEF StartGenerate, FailuresKnown
<1>3. CASE EndGenerate
  BY <1>3, Cast DEF EndGenerate, ResetLocals, FailuresKnown
<1>4. CASE Crash
  BY <1>4, Cast DEF Crash, ResetLocals, FailuresKnown
<1>5. CASE LookupNarrator
  BY <1>5 DEF LookupNarrator, SharedSource, store, Goto, FailuresKnown
<1>6. CASE Purge
  BY <1>6 DEF Purge, FailuresKnown, TypeOK, Control
<1>7. ASSUME NEW v \in Voices, Admit(v)
      PROVE  FailuresKnown'
  BY <1>7 DEF Admit, store, Goto, FailuresKnown
<1>8. ASSUME NEW v \in Voices, LookupVoice(v)
      PROVE  FailuresKnown'
  BY <1>8 DEF LookupVoice, store, Goto, FailuresKnown
<1>9. ASSUME NEW v \in Voices, RevokeVoice(v)
      PROVE  FailuresKnown'
  BY <1>9, Cast DEF RevokeVoice, store, Goto, FailuresKnown, TypeOK
<1>10. ASSUME NEW v \in Voices, RevokeFails(v)
      PROVE  FailuresKnown'
  BY <1>10 DEF RevokeFails, store, Goto, FailuresKnown
<1>11. ASSUME NEW v \in Voices, DeleteRecordings(v)
      PROVE  FailuresKnown'
  BY <1>11 DEF DeleteRecordings, Goto, FailuresKnown
<1>12. ASSUME NEW v \in Voices, DeleteAssignment(v)
      PROVE  FailuresKnown'
  BY <1>12 DEF DeleteAssignment, Goto, FailuresKnown
<1>13. ASSUME NEW v \in Voices, DeleteFailures(v)
      PROVE  FailuresKnown'
  BY <1>13 DEF DeleteFailures, Goto, FailuresKnown
<1>14. ASSUME NEW v \in Voices, DeleteProfile(v)
      PROVE  FailuresKnown'
  BY <1>14, Cast DEF DeleteProfile, Goto, FailuresKnown, TypeOK
<1>15. ASSUME NEW v \in Voices, AwaitGeneric(v)
      PROVE  FailuresKnown'
  BY <1>15 DEF AwaitGeneric, store, Goto, FailuresKnown
<1>16. ASSUME NEW v \in Voices, ChooseProfile(v)
      PROVE  FailuresKnown'
  BY <1>16 DEF ChooseProfile, Source, store, Goto, FailuresKnown
<1>17. ASSUME NEW v \in Voices, CallNarrator(v)
      PROVE  FailuresKnown'
  BY <1>17, Cast DEF CallNarrator, store, FailuresKnown, TypeOK
<1>18. ASSUME NEW v \in Voices, Speak(v)
      PROVE  FailuresKnown'
  BY <1>18 DEF Speak, Goto, FailuresKnown
<1>19. ASSUME NEW g \in Generics, LookupGeneric(g)
      PROVE  FailuresKnown'
  BY <1>19 DEF LookupGeneric, SharedSource, store, Goto, FailuresKnown
<1>20. ASSUME NEW t \in Tasks, Adopt(t)
      PROVE  FailuresKnown'
  BY <1>20 DEF Adopt, AfterSaving, Goto, FailuresKnown
<1>21. ASSUME NEW t \in Tasks, Publish(t)
      PROVE  FailuresKnown'
  BY <1>21, Cast, Published DEF store, FailuresKnown, TypeOK
<1>22. ASSUME NEW t \in Tasks, PublishFails(t)
      PROVE  FailuresKnown'
  BY <1>22 DEF PublishFails, store, Goto, FailuresKnown
<1>23. ASSUME NEW t \in Tasks, SaveProfile(t)
      PROVE  FailuresKnown'
  BY <1>23 DEF SaveProfile, AfterSaving, Goto, FailuresKnown
<1>24. ASSUME NEW t \in Tasks, LabelFails(t)
      PROVE  FailuresKnown'
  BY <1>24 DEF LabelFails, store, Goto, FailuresKnown
<1>25. ASSUME NEW t \in Tasks, PrepareAssignment(t)
      PROVE  FailuresKnown'
  BY <1>25 DEF PrepareAssignment, Goto, FailuresKnown
<1>26. ASSUME NEW t \in Tasks, Assign(t)
      PROVE  FailuresKnown'
  BY <1>26 DEF Assign, Goto, FailuresKnown
<1>27. ASSUME NEW t \in Tasks, ClearFailure(t)
      PROVE  FailuresKnown'
  BY <1>27 DEF ClearFailure, Goto, FailuresKnown
<1>28. ASSUME NEW t \in Tasks, RecordFailure(t)
      PROVE  FailuresKnown'
  BY <1>28 DEF RecordFailure, Goto, FailuresKnown
<1> QED
  BY <1>1, <1>2, <1>3, <1>4, <1>5, <1>6, <1>7, <1>8, <1>9, <1>10, <1>11, <1>12, <1>13, <1>14,
     <1>15, <1>16, <1>17, <1>18, <1>19, <1>20, <1>21, <1>22, <1>23, <1>24, <1>25, <1>26, <1>27,
     <1>28 DEF Next, VoiceStep, TaskStep, Rebuild

(* A profile is stored with its gender.                                    *)
LEMMA GenderedKept ==
  ASSUME TypeOK, Gendered, Next
  PROVE  Gendered'
<1>1. CASE StartGenerate \/ EndGenerate \/ Crash \/ LookupNarrator \/ StartRebuild
          \/ Remap \/ Prune \/ Purge \/ FinishRebuild
  BY <1>1 DEF StartGenerate, EndGenerate, Crash, LookupNarrator, StartRebuild, Remap, Prune,
     Purge, FinishRebuild, store, Gendered
<1>2. CASE \E v \in Voices : Admit(v) \/ LookupVoice(v) \/ RevokeVoice(v) \/ RevokeFails(v)
                             \/ DeleteRecordings(v) \/ DeleteAssignment(v) \/ DeleteFailures(v)
                             \/ AwaitGeneric(v) \/ ChooseProfile(v) \/ CallNarrator(v)
                             \/ Speak(v)
  BY <1>2 DEF Admit, LookupVoice, RevokeVoice, RevokeFails, DeleteRecordings, DeleteAssignment,
     DeleteFailures, AwaitGeneric, ChooseProfile, CallNarrator, Speak, store, Gendered
<1>3. CASE \E g \in Generics : LookupGeneric(g)
  BY <1>3 DEF LookupGeneric, store, Gendered
<1>4. CASE \E t \in Tasks : Publish(t) \/ PublishFails(t) \/ LabelFails(t)
                            \/ PrepareAssignment(t) \/ Assign(t) \/ ClearFailure(t)
                            \/ RecordFailure(t)
  BY <1>4 DEF Publish, PublishFails, LabelFails, PrepareAssignment, Assign, ClearFailure,
     RecordFailure, store, Gendered
<1>5. CASE Neutralise
  BY <1>5, ConstantsAssumption DEF Neutralise, Gendered
<1>6. ASSUME NEW v \in Voices, DeleteProfile(v)
      PROVE  Gendered'
  BY <1>6, OwnIdsApart DEF DeleteProfile, Gendered, TypeOK
<1>7. ASSUME NEW t \in Tasks, Adopt(t)
      PROVE  Gendered'
  BY <1>7 DEF Adopt, Store, Gendered, TypeOK
<1>8. ASSUME NEW t \in Tasks, SaveProfile(t)
      PROVE  Gendered'
  BY <1>8 DEF SaveProfile, Store, Gendered, TypeOK
<1> QED
  BY <1>1, <1>2, <1>3, <1>4, <1>5, <1>6, <1>7, <1>8 DEF Next, VoiceStep, TaskStep, Rebuild

(* The draft is a publication, and becomes the current one.                *)
LEMMA WholeKept ==
  ASSUME Whole, Next
  PROVE  Whole'
<1>1. CASE StartGenerate \/ LookupNarrator \/ Neutralise \/ Remap \/ Prune \/ Purge
  BY <1>1 DEF StartGenerate, LookupNarrator, Neutralise, Remap, Prune, Purge, Whole
<1>2. CASE \E v \in Voices : Admit(v) \/ LookupVoice(v) \/ RevokeVoice(v) \/ RevokeFails(v)
                             \/ DeleteRecordings(v) \/ DeleteAssignment(v) \/ DeleteFailures(v)
                             \/ DeleteProfile(v) \/ AwaitGeneric(v) \/ ChooseProfile(v)
                             \/ CallNarrator(v) \/ Speak(v)
  BY <1>2 DEF Admit, LookupVoice, RevokeVoice, RevokeFails, DeleteRecordings, DeleteAssignment,
     DeleteFailures, DeleteProfile, AwaitGeneric, ChooseProfile, CallNarrator, Speak, Whole
<1>3. CASE \E g \in Generics : LookupGeneric(g)
  BY <1>3 DEF LookupGeneric, Whole
<1>4. CASE \E t \in Tasks : Adopt(t) \/ Publish(t) \/ PublishFails(t) \/ SaveProfile(t)
                            \/ LabelFails(t) \/ PrepareAssignment(t) \/ Assign(t)
                            \/ ClearFailure(t) \/ RecordFailure(t)
  BY <1>4 DEF Adopt, Publish, PublishFails, SaveProfile, LabelFails, PrepareAssignment, Assign,
     ClearFailure, RecordFailure, Whole
<1>5. CASE EndGenerate
  BY <1>5, NothingPublished DEF EndGenerate, ResetLocals, Whole
<1>6. CASE Crash
  BY <1>6, NothingPublished DEF Crash, ResetLocals, Whole
<1>7. CASE StartRebuild
  BY <1>7 DEF StartRebuild, Whole
<1>8. CASE FinishRebuild
  BY <1>8, NothingPublished DEF FinishRebuild, Whole
<1> QED
  BY <1>1, <1>2, <1>3, <1>4, <1>5, <1>6, <1>7, <1>8 DEF Next, VoiceStep, TaskStep, Rebuild

(* The assignments of what leaves the publication are moved or pruned before*)
(* the publication is exchanged.                                           *)
LEMMA OwnersKept ==
  ASSUME TypeOK, AssignmentsResolve, Control, Selected, Gendered, Owners, ~RebuildMayCrash, Next
  PROVE  Owners'
<1>1. CASE LookupNarrator
  BY <1>1 DEF LookupNarrator, store, Owners
<1>2. CASE \E v \in Voices : Admit(v) \/ LookupVoice(v) \/ RevokeVoice(v) \/ RevokeFails(v)
                             \/ DeleteRecordings(v) \/ DeleteFailures(v) \/ DeleteProfile(v)
                             \/ AwaitGeneric(v) \/ ChooseProfile(v) \/ CallNarrator(v)
                             \/ Speak(v)
  BY <1>2 DEF Admit, LookupVoice, RevokeVoice, RevokeFails, DeleteRecordings, DeleteFailures,
     DeleteProfile, AwaitGeneric, ChooseProfile, CallNarrator, Speak, store, Owners
<1>3. CASE \E g \in Generics : LookupGeneric(g)
  BY <1>3 DEF LookupGeneric, store, Owners
<1>4. CASE \E t \in Tasks : Adopt(t) \/ Publish(t) \/ PublishFails(t) \/ SaveProfile(t)
                            \/ LabelFails(t) \/ PrepareAssignment(t) \/ ClearFailure(t)
                            \/ RecordFailure(t)
  BY <1>4 DEF Adopt, Publish, PublishFails, SaveProfile, LabelFails, PrepareAssignment,
     ClearFailure, RecordFailure, store, Owners
<1>5. CASE StartGenerate
  BY <1>5 DEF StartGenerate, store, Owners
<1>6. CASE EndGenerate
  BY <1>6 DEF EndGenerate, ResetLocals, store, Owners
<1>7. CASE Crash
  BY <1>7 DEF Crash, ResetLocals, store, Owners
<1>8. CASE StartRebuild
  BY <1>8 DEF StartRebuild, store, Owners
<1>9. CASE Neutralise
  BY <1>9 DEF Neutralise, Owners
<1>10. CASE Remap
  BY <1>10, Cast, Remapped DEF Owners
<1>11. CASE Prune
  BY <1>11, Cast DEF Prune, Stale, Owners
<1>12. CASE Purge
  BY <1>12 DEF Purge, Owners
<1>13. CASE FinishRebuild
  BY <1>13 DEF FinishRebuild, store, Owners
<1>14. ASSUME NEW v \in Voices, DeleteAssignment(v)
      PROVE  Owners'
  BY <1>14 DEF DeleteAssignment, Owners
<1>15. ASSUME NEW t \in Tasks, Assign(t)
      PROVE  Owners'
  BY <1>15 DEF Assign, Owners, Control, Selected
<1> QED
  BY <1>1, <1>2, <1>3, <1>4, <1>5, <1>6, <1>7, <1>8, <1>9, <1>10, <1>11, <1>12, <1>13, <1>14,
     <1>15 DEF Next, VoiceStep, TaskStep, Rebuild

(* A dedicated profile is assigned to the voice it was made for, or moves to*)
(* an heir that had none.                                                  *)
LEMMA ExclusiveKept ==
  ASSUME TypeOK, AssignmentsResolve, Control, Gendered, Whole, Routed, Exclusive,
         ~RebuildMayCrash, Next
  PROVE  Exclusive'
<1>1. CASE LookupNarrator
  BY <1>1 DEF LookupNarrator, store, ExclusiveAmong, Exclusive
<1>2. CASE \E v \in Voices : Admit(v) \/ LookupVoice(v) \/ RevokeVoice(v) \/ RevokeFails(v)
                             \/ DeleteRecordings(v) \/ DeleteFailures(v) \/ DeleteProfile(v)
                             \/ AwaitGeneric(v) \/ ChooseProfile(v) \/ CallNarrator(v)
                             \/ Speak(v)
  BY <1>2 DEF Admit, LookupVoice, RevokeVoice, RevokeFails, DeleteRecordings, DeleteFailures,
     DeleteProfile, AwaitGeneric, ChooseProfile, CallNarrator, Speak, store, ExclusiveAmong,
     Exclusive
<1>3. CASE \E g \in Generics : LookupGeneric(g)
  BY <1>3 DEF LookupGeneric, store, ExclusiveAmong, Exclusive
<1>4. CASE \E t \in Tasks : Adopt(t) \/ Publish(t) \/ PublishFails(t) \/ SaveProfile(t)
                            \/ LabelFails(t) \/ PrepareAssignment(t) \/ ClearFailure(t)
                            \/ RecordFailure(t)
  BY <1>4 DEF Adopt, Publish, PublishFails, SaveProfile, LabelFails, PrepareAssignment,
     ClearFailure, RecordFailure, store, ExclusiveAmong, Exclusive
<1>5. CASE StartGenerate
  BY <1>5 DEF StartGenerate, store, Exclusive, ExclusiveAmong
<1>6. CASE EndGenerate
  BY <1>6 DEF EndGenerate, ResetLocals, store, Exclusive, ExclusiveAmong
<1>7. CASE Crash
  BY <1>7 DEF Crash, ResetLocals, store, Exclusive, ExclusiveAmong
<1>8. CASE StartRebuild
  BY <1>8 DEF StartRebuild, store, Exclusive, ExclusiveAmong
<1>9. CASE Neutralise
  BY <1>9 DEF Neutralise, Exclusive, ExclusiveAmong
<1>10. CASE Remap
  <2>1. \A v, w \in Logical : assigned[v] = assigned[w] /\ assigned[v] \in DedicatedIds => v = w
    BY <1>10, Remapped DEF Exclusive, ExclusiveAmong
  <2> DEFINE New(v, s) == /\ s \in Voices \ draft /\ Heir(s) = v /\ v \in VariantsOf(s)
                          /\ assigned[s] # None /\ assigned'[v] = assigned[s] /\ v \in draft
  <2>2. \A v \in Logical : assigned'[v] = assigned[v] \/ \E s \in Voices : New(v, s)
    BY <1>10, Remapped
  <2>3. ASSUME NEW S \in {current \cup {Narrator}, draft \cup {Narrator}}, NEW v \in S, NEW w \in S,
               assigned'[v] = assigned'[w], assigned'[v] \in DedicatedIds
        PROVE  v = w
    <3>1. v \in Logical /\ w \in Logical /\ S \subseteq Logical
      BY Cast DEF TypeOK
    <3>2. ASSUME NEW x \in S, NEW y \in S, NEW s \in Voices, New(x, s), assigned'[y] = assigned[y],
                 assigned'[x] = assigned'[y], assigned'[x] \in DedicatedIds
          PROVE  FALSE
      <4>1. y = s
        BY <2>1, <3>1, <3>2, Cast
      <4>2. s \in current /\ x \in current
        BY <3>2, <4>1, Cast DEF TypeOK
      <4> QED
        BY <3>2, <4>2, NotBoth DEF Whole
    <3>3. ASSUME NEW s \in Voices, NEW r \in Voices, New(v, s), New(w, r)
          PROVE  v = w
      BY <2>1, <2>3, <3>3, Cast
    <3> QED
      BY <2>1, <2>2, <2>3, <3>1, <3>2, <3>3
  <2> QED
    BY <1>10, <2>3, Remapped DEF Exclusive, ExclusiveAmong
<1>11. CASE Prune
  BY <1>11, Cast DEF Prune, Stale, Exclusive, ExclusiveAmong
<1>12. CASE Purge
  BY <1>12 DEF Purge, Exclusive, ExclusiveAmong
<1>13. CASE FinishRebuild
  BY <1>13 DEF FinishRebuild, store, Exclusive, ExclusiveAmong
<1>14. ASSUME NEW v \in Voices, DeleteAssignment(v)
      PROVE  Exclusive'
  BY <1>14, Cast DEF DeleteAssignment, Exclusive, ExclusiveAmong
<1>15. ASSUME NEW t \in Tasks, Assign(t)
      PROVE  Exclusive'
  BY <1>15 DEF Assign, Exclusive, Control, Routed, ExclusiveAmong, AssignedTo
<1> QED
  BY <1>1, <1>2, <1>3, <1>4, <1>5, <1>6, <1>7, <1>8, <1>9, <1>10, <1>11, <1>12, <1>13, <1>14,
     <1>15 DEF Next, VoiceStep, TaskStep, Rebuild

(* Recordings go before the assignment does, or changes.                   *)
LEMMA ClearedKept ==
  ASSUME TypeOK, AssignmentsResolve, Control, Gendered, Cleared, ~RebuildMayCrash, Next
  PROVE  Cleared'
<1>1. CASE StartGenerate
  BY <1>1, Cast DEF StartGenerate, store, Cleared
<1>2. CASE EndGenerate
  BY <1>2, Cast DEF EndGenerate, ResetLocals, store, Cleared
<1>3. CASE Crash
  BY <1>3, Cast DEF Crash, ResetLocals, store, Cleared
<1>4. CASE LookupNarrator
  BY <1>4 DEF LookupNarrator, SharedSource, store, Goto, Cleared
<1>5. CASE StartRebuild
  BY <1>5 DEF StartRebuild, store, locals, Cleared
<1>6. CASE Neutralise
  BY <1>6 DEF Neutralise, locals, Cleared
<1>7. CASE Remap
  BY <1>7, Remapped DEF locals, Cleared
<1>8. CASE Prune
  BY <1>8, Cast DEF Prune, Stale, Cleared, Control
<1>9. CASE Purge
  BY <1>9, Cast DEF Purge, locals, Cleared
<1>10. CASE FinishRebuild
  BY <1>10 DEF FinishRebuild, store, locals, Cleared
<1>11. ASSUME NEW v \in Voices, Admit(v)
      PROVE  Cleared'
  BY <1>11 DEF Admit, store, locals, Goto, Cleared
<1>12. ASSUME NEW v \in Voices, LookupVoice(v)
      PROVE  Cleared'
  BY <1>12 DEF LookupVoice, store, Goto, Cleared
<1>13. ASSUME NEW v \in Voices, RevokeVoice(v)
      PROVE  Cleared'
  BY <1>13, Cast DEF RevokeVoice, store, locals, Goto, Cleared, TypeOK
<1>14. ASSUME NEW v \in Voices, RevokeFails(v)
      PROVE  Cleared'
  BY <1>14 DEF RevokeFails, store, locals, Goto, Cleared
<1>15. ASSUME NEW v \in Voices, DeleteRecordings(v)
      PROVE  Cleared'
  BY <1>15, Cast DEF DeleteRecordings, locals, Goto, Cleared, TypeOK
<1>16. ASSUME NEW v \in Voices, DeleteAssignment(v)
      PROVE  Cleared'
  BY <1>16 DEF DeleteAssignment, locals, Goto, Cleared
<1>17. ASSUME NEW v \in Voices, DeleteFailures(v)
      PROVE  Cleared'
  BY <1>17 DEF DeleteFailures, locals, Goto, Cleared
<1>18. ASSUME NEW v \in Voices, DeleteProfile(v)
      PROVE  Cleared'
  BY <1>18, Cast DEF DeleteProfile, locals, Goto, Cleared, TypeOK
<1>19. ASSUME NEW v \in Voices, AwaitGeneric(v)
      PROVE  Cleared'
  BY <1>19 DEF AwaitGeneric, store, Goto, Cleared
<1>20. ASSUME NEW v \in Voices, ChooseProfile(v)
      PROVE  Cleared'
  BY <1>20, Cast, Chosen DEF store, Cleared, TypeOK, Publishing
<1>21. ASSUME NEW v \in Voices, CallNarrator(v)
      PROVE  Cleared'
  BY <1>21, Cast DEF CallNarrator, store, locals, Cleared, TypeOK
<1>22. ASSUME NEW v \in Voices, Speak(v)
      PROVE  Cleared'
  BY <1>22 DEF Speak, locals, Goto, Cleared, Control, Served
<1>23. ASSUME NEW g \in Generics, LookupGeneric(g)
      PROVE  Cleared'
  BY <1>23 DEF LookupGeneric, SharedSource, store, Goto, Cleared
<1>24. ASSUME NEW t \in Tasks, Adopt(t)
      PROVE  Cleared'
  BY <1>24 DEF Adopt, AfterSaving, locals, Goto, Cleared
<1>25. ASSUME NEW t \in Tasks, Publish(t)
      PROVE  Cleared'
  BY <1>25, Cast, Published DEF store, Cleared, TypeOK
<1>26. ASSUME NEW t \in Tasks, PublishFails(t)
      PROVE  Cleared'
  BY <1>26 DEF PublishFails, store, locals, Goto, Cleared
<1>27. ASSUME NEW t \in Tasks, SaveProfile(t)
      PROVE  Cleared'
  BY <1>27 DEF SaveProfile, AfterSaving, locals, Goto, Cleared
<1>28. ASSUME NEW t \in Tasks, LabelFails(t)
      PROVE  Cleared'
  BY <1>28 DEF LabelFails, store, locals, Goto, Cleared
<1>29. ASSUME NEW t \in Tasks, PrepareAssignment(t)
      PROVE  Cleared'
  BY <1>29 DEF PrepareAssignment, VoiceChanges, locals, Goto, Cleared, TypeOK, Control
<1>30. ASSUME NEW t \in Tasks, Assign(t)
      PROVE  Cleared'
  BY <1>30 DEF Assign, locals, Goto, Cleared
<1>31. ASSUME NEW t \in Tasks, ClearFailure(t)
      PROVE  Cleared'
  BY <1>31 DEF ClearFailure, Return, Goto, Cleared
<1>32. ASSUME NEW t \in Tasks, RecordFailure(t)
      PROVE  Cleared'
  BY <1>32 DEF RecordFailure, Return, Goto, Cleared
<1> QED
  BY <1>1, <1>2, <1>3, <1>4, <1>5, <1>6, <1>7, <1>8, <1>9, <1>10, <1>11, <1>12, <1>13, <1>14,
     <1>15, <1>16, <1>17, <1>18, <1>19, <1>20, <1>21, <1>22, <1>23, <1>24, <1>25, <1>26, <1>27,
     <1>28, <1>29, <1>30, <1>31, <1>32 DEF Next, VoiceStep, TaskStep, Rebuild

(* What publishes a voice stores it as the profile's; nothing deletes it.  *)
LEMMA KeptKept ==
  ASSUME TypeOK, Control, Kept, Snapshot, Doomed, ~AllowRecreate, Next
  PROVE  Kept'
<1>1. CASE LookupNarrator \/ StartRebuild \/ Neutralise \/ Remap \/ Prune \/ Purge \/ FinishRebuild
  BY <1>1 DEF LookupNarrator, StartRebuild, Neutralise, Remap, Prune, Purge, FinishRebuild,
     store, locals, settings, Kept
<1>2. CASE \E v \in Voices : Admit(v) \/ LookupVoice(v) \/ RevokeFails(v)
                             \/ DeleteRecordings(v) \/ DeleteAssignment(v) \/ DeleteFailures(v)
                             \/ AwaitGeneric(v) \/ ChooseProfile(v) \/ CallNarrator(v)
                             \/ Speak(v)
  BY <1>2 DEF Admit, LookupVoice, RevokeFails, DeleteRecordings, DeleteAssignment,
     DeleteFailures, AwaitGeneric, ChooseProfile, CallNarrator, Speak, store, locals, settings,
     Kept
<1>3. CASE \E g \in Generics : LookupGeneric(g)
  BY <1>3 DEF LookupGeneric, store, settings, Kept
<1>4. CASE \E t \in Tasks : PublishFails(t) \/ LabelFails(t) \/ PrepareAssignment(t)
                            \/ Assign(t) \/ ClearFailure(t) \/ RecordFailure(t)
  BY <1>4 DEF PublishFails, LabelFails, PrepareAssignment, Assign, ClearFailure, RecordFailure,
     store, locals, settings, Kept
<1>5. CASE StartGenerate
  BY <1>5 DEF StartGenerate, store, Kept
<1>6. CASE EndGenerate
  BY <1>6 DEF EndGenerate, ResetLocals, store, Kept
<1>7. CASE Crash
  BY <1>7 DEF Crash, ResetLocals, store, Kept
<1>8. ASSUME NEW v \in Voices, RevokeVoice(v)
      PROVE  Kept'
  BY <1>8 DEF RevokeVoice, Kept, Doomed
<1>9. ASSUME NEW v \in Voices, DeleteProfile(v)
      PROVE  Kept'
  BY <1>9 DEF DeleteProfile, locals, Kept, TypeOK
<1>10. ASSUME NEW t \in Tasks, Adopt(t)
      PROVE  Kept'
  BY <1>10 DEF Adopt, Store, locals, Kept, Control, Snapshot
<1>11. ASSUME NEW t \in Tasks, Publish(t)
      PROVE  Kept'
  BY <1>11, Cast, Published DEF store, settings, Kept, TypeOK
<1>12. ASSUME NEW t \in Tasks, SaveProfile(t)
      PROVE  Kept'
  BY <1>12 DEF SaveProfile, Store, locals, Kept, Snapshot, Tagged
<1> QED
  BY <1>1, <1>2, <1>3, <1>4, <1>5, <1>6, <1>7, <1>8, <1>9, <1>10, <1>11, <1>12 DEF Next, VoiceStep,
     TaskStep, Rebuild

(* A task adds to what the catalog misses only under its own tag, once.    *)
LEMMA SnapshotKept ==
  ASSUME TypeOK, AssignmentsResolve, Control, Routed, Kept, Snapshot, Doomed, ~AllowRecreate,
         Next
  PROVE  Snapshot'
<1>1. CASE StartGenerate
  BY <1>1 DEF StartGenerate, Catalog, Tagged, Snapshot
<1>2. CASE EndGenerate
  BY <1>2 DEF EndGenerate, ResetLocals, Snapshot
<1>3. CASE Crash
  BY <1>3 DEF Crash, ResetLocals, Snapshot
<1>4. CASE LookupNarrator
  BY <1>4 DEF LookupNarrator, SharedSource, settings, Goto, Snapshot, TypeOK, Tagged,
     Unpublished
<1>5. CASE StartRebuild
  BY <1>5 DEF StartRebuild, locals, Snapshot, Tagged
<1>6. CASE Neutralise
  BY <1>6 DEF Neutralise, locals, Snapshot, Tagged
<1>7. CASE Remap
  BY <1>7 DEF Remap, locals, Snapshot, Tagged
<1>8. CASE Prune
  BY <1>8 DEF Prune, locals, Snapshot, Tagged
<1>9. CASE Purge
  BY <1>9 DEF Purge, locals, Snapshot, Tagged
<1>10. CASE FinishRebuild
  BY <1>10 DEF FinishRebuild, locals, Snapshot, Tagged
<1>11. ASSUME NEW v \in Voices, Admit(v)
      PROVE  Snapshot'
  BY <1>11 DEF Admit, locals, Goto, Snapshot, Tagged, Unpublished
<1>12. ASSUME NEW v \in Voices, LookupVoice(v)
      PROVE  Snapshot'
  BY <1>12 DEF LookupVoice, settings, Goto, Snapshot, Tagged, Unpublished
<1>13. ASSUME NEW v \in Voices, RevokeVoice(v)
      PROVE  Snapshot'
  BY <1>13 DEF RevokeVoice, Snapshot, Kept, Doomed
<1>14. ASSUME NEW v \in Voices, RevokeFails(v)
      PROVE  Snapshot'
  BY <1>14 DEF RevokeFails, locals, Goto, Snapshot, Tagged, Unpublished
<1>15. ASSUME NEW v \in Voices, DeleteRecordings(v)
      PROVE  Snapshot'
  BY <1>15 DEF DeleteRecordings, locals, Goto, Snapshot, Tagged, Unpublished, Removing
<1>16. ASSUME NEW v \in Voices, DeleteAssignment(v)
      PROVE  Snapshot'
  BY <1>16 DEF DeleteAssignment, locals, Goto, Snapshot, Tagged, Unpublished, Removing
<1>17. ASSUME NEW v \in Voices, DeleteFailures(v)
      PROVE  Snapshot'
  BY <1>17 DEF DeleteFailures, locals, Goto, Snapshot, Tagged, Unpublished, Removing
<1>18. ASSUME NEW v \in Voices, DeleteProfile(v)
      PROVE  Snapshot'
  BY <1>18 DEF DeleteProfile, Snapshot, Kept, Doomed, Removing
<1>19. ASSUME NEW v \in Voices, AwaitGeneric(v)
      PROVE  Snapshot'
  BY <1>19 DEF AwaitGeneric, settings, Goto, Snapshot, Tagged, Unpublished
<1>20. ASSUME NEW v \in Voices, ChooseProfile(v)
      PROVE  Snapshot'
  BY <1>20, Chosen DEF settings, Snapshot, TypeOK, Kept, Tagged, Unpublished
<1>21. ASSUME NEW v \in Voices, CallNarrator(v)
      PROVE  Snapshot'
  BY <1>21 DEF CallNarrator, locals, Snapshot, TypeOK, Tagged, Unpublished, Removing
<1>22. ASSUME NEW v \in Voices, Speak(v)
      PROVE  Snapshot'
  BY <1>22 DEF Speak, locals, Goto, Snapshot, Tagged, Unpublished, Removing
<1>23. ASSUME NEW g \in Generics, LookupGeneric(g)
      PROVE  Snapshot'
  BY <1>23 DEF LookupGeneric, SharedSource, settings, Goto, Snapshot, TypeOK, Tagged,
     Unpublished
<1>24. ASSUME NEW t \in Tasks, Adopt(t)
      PROVE  Snapshot'
  BY <1>24 DEF Adopt, AfterSaving, locals, Goto, Snapshot, Tagged, Unpublished
<1>25. ASSUME NEW t \in Tasks, Publish(t)
      PROVE  Snapshot'
  BY <1>25, Cast, OwnIdsApart, Published DEF settings, Snapshot, TypeOK, AssignmentsResolve,
     Control, Routed, Kept, Tagged, Unpublished, Publishing, Removing
<1>26. ASSUME NEW t \in Tasks, PublishFails(t)
      PROVE  Snapshot'
  BY <1>26 DEF PublishFails, locals, Goto, Snapshot, Tagged, Unpublished
<1>27. ASSUME NEW t \in Tasks, SaveProfile(t)
      PROVE  Snapshot'
  BY <1>27 DEF SaveProfile, AfterSaving, locals, Goto, Snapshot, Tagged, Unpublished, Removing
<1>28. ASSUME NEW t \in Tasks, LabelFails(t)
      PROVE  Snapshot'
  BY <1>28 DEF LabelFails, locals, Goto, Snapshot, Tagged, Unpublished, Removing
<1>29. ASSUME NEW t \in Tasks, PrepareAssignment(t)
      PROVE  Snapshot'
  BY <1>29 DEF PrepareAssignment, locals, Goto, Snapshot, Tagged, Unpublished, Removing
<1>30. ASSUME NEW t \in Tasks, Assign(t)
      PROVE  Snapshot'
  BY <1>30 DEF Assign, locals, Goto, Snapshot, Tagged, Unpublished, Removing
<1>31. ASSUME NEW t \in Tasks, ClearFailure(t)
      PROVE  Snapshot'
  BY <1>31 DEF ClearFailure, Return, settings, Goto, Snapshot, Tagged, Unpublished, Removing
<1>32. ASSUME NEW t \in Tasks, RecordFailure(t)
      PROVE  Snapshot'
  BY <1>32 DEF RecordFailure, Return, settings, Goto, Snapshot, Tagged, Unpublished, Removing
<1> QED
  BY <1>1, <1>2, <1>3, <1>4, <1>5, <1>6, <1>7, <1>8, <1>9, <1>10, <1>11, <1>12, <1>13, <1>14,
     <1>15, <1>16, <1>17, <1>18, <1>19, <1>20, <1>21, <1>22, <1>23, <1>24, <1>25, <1>26, <1>27,
     <1>28, <1>29, <1>30, <1>31, <1>32 DEF Next, VoiceStep, TaskStep, Rebuild

(* A voice is published under a tag only when the catalog has none, and the*)
(* task that publishes under it does so once.                              *)
LEMMA OneTagKept ==
  ASSUME TypeOK, Control, Routed, Kept, Snapshot, OneTag, Doomed, ~AllowRecreate, Next
  PROVE  OneTag'
<1>1. CASE StartGenerate \/ EndGenerate \/ Crash \/ LookupNarrator \/ StartRebuild
          \/ Neutralise \/ Remap \/ Prune \/ Purge \/ FinishRebuild
  BY <1>1 DEF StartGenerate, EndGenerate, Crash, LookupNarrator, StartRebuild, Neutralise,
     Remap, Prune, Purge, FinishRebuild, Tagged, OneTag
<1>2. CASE \E v \in Voices : Admit(v) \/ LookupVoice(v) \/ RevokeFails(v)
                             \/ DeleteRecordings(v) \/ DeleteAssignment(v) \/ DeleteFailures(v)
                             \/ DeleteProfile(v) \/ AwaitGeneric(v) \/ ChooseProfile(v)
                             \/ CallNarrator(v) \/ Speak(v)
  BY <1>2 DEF Admit, LookupVoice, RevokeFails, DeleteRecordings, DeleteAssignment,
     DeleteFailures, DeleteProfile, AwaitGeneric, ChooseProfile, CallNarrator, Speak, Tagged,
     OneTag
<1>3. CASE \E g \in Generics : LookupGeneric(g)
  BY <1>3 DEF LookupGeneric, Tagged, OneTag
<1>4. CASE \E t \in Tasks : Adopt(t) \/ PublishFails(t) \/ SaveProfile(t) \/ LabelFails(t)
                            \/ PrepareAssignment(t) \/ Assign(t) \/ ClearFailure(t)
                            \/ RecordFailure(t)
  BY <1>4 DEF Adopt, PublishFails, SaveProfile, LabelFails, PrepareAssignment, Assign,
     ClearFailure, RecordFailure, Tagged, OneTag
<1>5. ASSUME NEW v \in Voices, RevokeVoice(v)
      PROVE  OneTag'
  BY <1>5 DEF RevokeVoice, OneTag, Kept, Doomed
<1>6. ASSUME NEW t \in Tasks, Publish(t)
      PROVE  OneTag'
  BY <1>6, Cast, Published DEF OneTag, TypeOK, Control, Routed, Snapshot, Tagged, Unpublished,
     Publishing
<1> QED
  BY <1>1, <1>2, <1>3, <1>4, <1>5, <1>6 DEF Next, VoiceStep, TaskStep, Rebuild

(* A profile moves from a family to its variant only: variants have none.  *)
LEMMA LineageKept ==
  ASSUME TypeOK, AssignmentsResolve, Gendered, Routed, Lineage, Next
  PROVE  Lineage'
<1>1. CASE StartGenerate \/ EndGenerate \/ Crash \/ LookupNarrator \/ StartRebuild
          \/ Neutralise \/ Purge \/ FinishRebuild
  BY <1>1 DEF StartGenerate, EndGenerate, Crash, LookupNarrator, StartRebuild, Neutralise,
     Purge, FinishRebuild, store, Lineage
<1>2. CASE \E v \in Voices : Admit(v) \/ LookupVoice(v) \/ RevokeVoice(v) \/ RevokeFails(v)
                             \/ DeleteRecordings(v) \/ DeleteFailures(v) \/ DeleteProfile(v)
                             \/ AwaitGeneric(v) \/ ChooseProfile(v) \/ CallNarrator(v)
                             \/ Speak(v)
  BY <1>2 DEF Admit, LookupVoice, RevokeVoice, RevokeFails, DeleteRecordings, DeleteFailures,
     DeleteProfile, AwaitGeneric, ChooseProfile, CallNarrator, Speak, store, Lineage
<1>3. CASE \E g \in Generics : LookupGeneric(g)
  BY <1>3 DEF LookupGeneric, store, Lineage
<1>4. CASE \E t \in Tasks : Adopt(t) \/ Publish(t) \/ PublishFails(t) \/ SaveProfile(t)
                            \/ LabelFails(t) \/ PrepareAssignment(t) \/ ClearFailure(t)
                            \/ RecordFailure(t)
  BY <1>4 DEF Adopt, Publish, PublishFails, SaveProfile, LabelFails, PrepareAssignment,
     ClearFailure, RecordFailure, store, Lineage
<1>5. CASE Remap
  <2> SUFFICES ASSUME NEW v \in Voices, assigned'[v] # assigned[v], assigned'[v] \in DedicatedIds
               PROVE  Heritage(v, assigned'[v])
    BY <1>5, Cast, Remapped DEF Lineage, Heritage, VariantsOf
  <2>1. PICK s \in Voices : v \in VariantsOf(s) /\ assigned'[v] = assigned[s]
    BY <1>5, Cast, Remapped
  <2>2. VariantsOf(v) = {} /\ \A r \in Voices : s \notin VariantsOf(r)
    BY <2>1, ConstantsAssumption DEF VariantsOf
  <2> QED
    BY <2>1, <2>2 DEF Lineage, Heritage
<1>6. CASE Prune
  BY <1>6, Cast DEF Prune, Lineage
<1>7. ASSUME NEW v \in Voices, DeleteAssignment(v)
      PROVE  Lineage'
  BY <1>7, Cast DEF DeleteAssignment, Lineage
<1>8. ASSUME NEW t \in Tasks, Assign(t)
      PROVE  Lineage'
  BY <1>8, ConstantsAssumption DEF Assign, Lineage, Routed, Heritage
<1> QED
  BY <1>1, <1>2, <1>3, <1>4, <1>5, <1>6, <1>7, <1>8 DEF Next, VoiceStep, TaskStep, Rebuild

(* Nobody is assigned a profile that is being removed.                     *)
LEMMA DoomedKept ==
  ASSUME TypeOK, AssignmentsResolve, Control, Selected, Gendered, Whole, Routed, Lineage,
         Doomed, Next
  PROVE  Doomed'
<1>1. CASE StartRebuild \/ Neutralise \/ Purge \/ FinishRebuild
  BY <1>1 DEF StartRebuild, Neutralise, Purge, FinishRebuild, store, locals, AssignedTo, Doomed
<1>2. CASE StartGenerate
  BY <1>2, Cast DEF StartGenerate, Doomed, Removing
<1>3. CASE EndGenerate
  BY <1>3, Cast DEF EndGenerate, ResetLocals, Doomed
<1>4. CASE Crash
  BY <1>4, Cast DEF Crash, ResetLocals, Doomed
<1>5. CASE LookupNarrator
  BY <1>5 DEF LookupNarrator, SharedSource, store, settings, Goto, Doomed, Removing, AssignedTo
<1>6. CASE Remap
  BY <1>6, Cast, Remapped DEF Doomed, Control, Removing
<1>7. CASE Prune
  BY <1>7, Cast DEF Prune, Doomed, Control, Removing
<1>8. ASSUME NEW v \in Voices, Admit(v)
      PROVE  Doomed'
  BY <1>8 DEF Admit, store, locals, Goto, Doomed, Removing, AssignedTo
<1>9. ASSUME NEW v \in Voices, LookupVoice(v)
      PROVE  Doomed'
  BY <1>9, Cast DEF LookupVoice, AssignedTo, store, settings, Goto, Doomed, TypeOK, Lineage,
     Removing
<1>10. ASSUME NEW v \in Voices, RevokeVoice(v)
      PROVE  Doomed'
  BY <1>10, Cast DEF RevokeVoice, store, locals, Goto, Doomed, TypeOK, AssignedTo
<1>11. ASSUME NEW v \in Voices, RevokeFails(v)
      PROVE  Doomed'
  BY <1>11 DEF RevokeFails, store, locals, Goto, Doomed, AssignedTo
<1>12. ASSUME NEW v \in Voices, DeleteRecordings(v)
      PROVE  Doomed'
  BY <1>12 DEF DeleteRecordings, locals, Goto, Doomed, Removing, AssignedTo
<1>13. ASSUME NEW v \in Voices, DeleteAssignment(v)
      PROVE  Doomed'
  BY <1>13, Cast DEF DeleteAssignment, locals, Goto, Doomed, TypeOK, Removing, AssignedTo
<1>14. ASSUME NEW v \in Voices, DeleteFailures(v)
      PROVE  Doomed'
  BY <1>14 DEF DeleteFailures, locals, Goto, Doomed, Removing, AssignedTo
<1>15. ASSUME NEW v \in Voices, DeleteProfile(v)
      PROVE  Doomed'
  BY <1>15, Cast DEF DeleteProfile, AssignedTo, locals, Goto, Doomed, TypeOK, Removing
<1>16. ASSUME NEW v \in Voices, AwaitGeneric(v)
      PROVE  Doomed'
  BY <1>16 DEF AwaitGeneric, store, settings, Goto, Doomed, Removing, AssignedTo
<1>17. ASSUME NEW v \in Voices, ChooseProfile(v)
      PROVE  Doomed'
  BY <1>17, Cast, Chosen DEF AssignedTo, store, settings, Doomed, TypeOK, Removing, Publishing
<1>18. ASSUME NEW v \in Voices, CallNarrator(v)
      PROVE  Doomed'
  BY <1>18, Cast DEF CallNarrator, store, locals, Doomed, TypeOK, Removing, AssignedTo
<1>19. ASSUME NEW v \in Voices, Speak(v)
      PROVE  Doomed'
  BY <1>19 DEF Speak, locals, Goto, Doomed, Removing, AssignedTo
<1>20. ASSUME NEW g \in Generics, LookupGeneric(g)
      PROVE  Doomed'
  BY <1>20 DEF LookupGeneric, SharedSource, store, settings, Goto, Doomed, Removing, AssignedTo
<1>21. ASSUME NEW t \in Tasks, Adopt(t)
      PROVE  Doomed'
  BY <1>21 DEF Adopt, AfterSaving, locals, Goto, Doomed, Removing, AssignedTo
<1>22. ASSUME NEW t \in Tasks, Publish(t)
      PROVE  Doomed'
  BY <1>22, Cast, Published DEF store, settings, Doomed, TypeOK, Removing, AssignedTo
<1>23. ASSUME NEW t \in Tasks, PublishFails(t)
      PROVE  Doomed'
  BY <1>23 DEF PublishFails, store, locals, Goto, Doomed, Removing, AssignedTo
<1>24. ASSUME NEW t \in Tasks, SaveProfile(t)
      PROVE  Doomed'
  BY <1>24 DEF SaveProfile, AfterSaving, locals, Goto, Doomed, Removing, AssignedTo
<1>25. ASSUME NEW t \in Tasks, LabelFails(t)
      PROVE  Doomed'
  BY <1>25 DEF LabelFails, store, locals, Goto, Doomed, Removing, AssignedTo
<1>26. ASSUME NEW t \in Tasks, PrepareAssignment(t)
      PROVE  Doomed'
  BY <1>26 DEF PrepareAssignment, AssignedTo, locals, Goto, Doomed, Removing
<1>27. ASSUME NEW t \in Tasks, Assign(t)
      PROVE  Doomed'
  BY <1>27, NoIntruder DEF Assign, locals, Goto, Doomed, Removing, AssignedTo
<1>28. ASSUME NEW t \in Tasks, ClearFailure(t)
      PROVE  Doomed'
  BY <1>28 DEF ClearFailure, Return, settings, Goto, Doomed, Removing, AssignedTo
<1>29. ASSUME NEW t \in Tasks, RecordFailure(t)
      PROVE  Doomed'
  BY <1>29 DEF RecordFailure, Return, settings, Goto, Doomed, Removing, AssignedTo
<1> QED
  BY <1>1, <1>2, <1>3, <1>4, <1>5, <1>6, <1>7, <1>8, <1>9, <1>10, <1>11, <1>12, <1>13, <1>14,
     <1>15, <1>16, <1>17, <1>18, <1>19, <1>20, <1>21, <1>22, <1>23, <1>24, <1>25, <1>26, <1>27,
     <1>28, <1>29 DEF Next, VoiceStep, TaskStep, Rebuild

(* A deleted voice is of a profile that is being removed; what is stored or*)
(* adopted was published or is in the catalog.                             *)
LEMMA AliveKept ==
  ASSUME TypeOK, AssignmentsResolve, Control, Gendered, Routed, Doomed, Alive, Next
  PROVE  Alive'
<1>1. CASE StartGenerate
  BY <1>1, Cast DEF StartGenerate, Catalog, Tagged, store, Alive, Control, Condemned, Removing
<1>2. CASE EndGenerate
  BY <1>2, Cast DEF EndGenerate, ResetLocals, Settled, store, Alive, Condemned, Removing
<1>3. CASE Crash
  BY <1>3 DEF Crash, Fault, Alive, TypeOK
<1>4. CASE LookupNarrator
  BY <1>4, Cast DEF LookupNarrator, SharedSource, store, settings, Goto, Alive, Condemned
<1>5. CASE StartRebuild
  BY <1>5 DEF StartRebuild, store, locals, Alive, Condemned
<1>6. CASE Neutralise
  BY <1>6 DEF Neutralise, locals, Alive, Condemned
<1>7. CASE Remap
  BY <1>7, Remapped DEF locals, Alive, Condemned
<1>8. CASE Prune
  BY <1>8 DEF Prune, locals, Alive, Condemned
<1>9. CASE Purge
  BY <1>9 DEF Purge, locals, Alive, Condemned
<1>10. CASE FinishRebuild
  BY <1>10 DEF FinishRebuild, store, locals, Alive, Condemned
<1>11. ASSUME NEW v \in Voices, Admit(v)
      PROVE  Alive'
  BY <1>11 DEF Admit, store, locals, Goto, Alive, Condemned, Removing
<1>12. ASSUME NEW v \in Voices, LookupVoice(v)
      PROVE  Alive'
  BY <1>12 DEF LookupVoice, store, settings, Goto, Alive, Condemned, Removing
<1>13. ASSUME NEW v \in Voices, RevokeVoice(v)
      PROVE  Alive'
  BY <1>13, Cast, OwnIdsApart DEF RevokeVoice, Fault, store, locals, Goto, Alive, TypeOK,
     AssignmentsResolve, Routed, Doomed, Condemned, Removing, Publishing, AssignedTo, Heritage
<1>14. ASSUME NEW v \in Voices, RevokeFails(v)
      PROVE  Alive'
  BY <1>14 DEF RevokeFails, Fault, Alive, TypeOK
<1>15. ASSUME NEW v \in Voices, DeleteRecordings(v)
      PROVE  Alive'
  BY <1>15 DEF DeleteRecordings, locals, Goto, Alive, Condemned, Removing
<1>16. ASSUME NEW v \in Voices, DeleteAssignment(v)
      PROVE  Alive'
  BY <1>16 DEF DeleteAssignment, locals, Goto, Alive, Condemned, Removing
<1>17. ASSUME NEW v \in Voices, DeleteFailures(v)
      PROVE  Alive'
  BY <1>17, Cast DEF DeleteFailures, locals, Goto, Alive, Condemned, Removing
<1>18. ASSUME NEW v \in Voices, DeleteProfile(v)
      PROVE  Alive'
  BY <1>18, Cast DEF DeleteProfile, locals, Goto, Alive, TypeOK, Doomed, Condemned
<1>19. ASSUME NEW v \in Voices, AwaitGeneric(v)
      PROVE  Alive'
  BY <1>19 DEF AwaitGeneric, store, settings, Goto, Alive, Condemned, Removing
<1>20. ASSUME NEW v \in Voices, ChooseProfile(v)
      PROVE  Alive'
  BY <1>20, Cast, Chosen DEF store, settings, Alive, TypeOK, Condemned, Removing
<1>21. ASSUME NEW v \in Voices, CallNarrator(v)
      PROVE  Alive'
  BY <1>21, Cast DEF CallNarrator, store, locals, Alive, TypeOK, Condemned, Removing
<1>22. ASSUME NEW v \in Voices, Speak(v)
      PROVE  Alive'
  BY <1>22 DEF Speak, locals, Goto, Alive, Condemned, Removing
<1>23. ASSUME NEW g \in Generics, LookupGeneric(g)
      PROVE  Alive'
  BY <1>23, Cast DEF LookupGeneric, SharedSource, store, settings, Goto, Alive, Condemned
<1>24. ASSUME NEW t \in Tasks, Adopt(t)
      PROVE  Alive'
  BY <1>24, Cast, OwnIdsApart DEF Adopt, Store, AfterSaving, locals, Goto, Alive, Control,
     Routed, Condemned, Removing, Publishing
<1>25. ASSUME NEW t \in Tasks, Publish(t)
      PROVE  Alive'
  <2>1. PICK id \in ProviderIds, where \in {"label", "fail"} :
           /\ pc[t] = "publish" /\ pc' = [pc EXCEPT ![t] = where]
           /\ provider[id] = None /\ provider' = [provider EXCEPT ![id] = wanted[t]]
           /\ handle' = [handle EXCEPT ![t] = id] /\ (faults' = 0 => faults = 0)
           /\ UNCHANGED <<store, current, draft, phase, settings, wanted>>
    BY <1>25, Published
  <2> SUFFICES ASSUME faults' = 0, Alive PROVE Alive'
    BY <2>1 DEF Alive
  <2>2. \A p : Condemned(p)' <=> Condemned(p)
    BY <2>1 DEF Condemned, Removing, TypeOK
  <2>3. \A p \in ProfileIds : profiles'[p] # None /\ ~Condemned(p)' => provider'[profiles'[p]] = p
    BY <2>1, <2>2, Cast DEF Alive, TypeOK, store
  <2>4. \A u \in Tasks : pc'[u] = "label" => provider'[handle'[u]] = wanted'[u]
    BY <2>1, Cast DEF Alive, TypeOK, Control, Working
  <2>5. \A u \in Tasks : pc'[u] = "adopt" /\ recreate' => u \notin Voices
    BY <2>1 DEF Alive, TypeOK, settings
  <2>6. phase' = "generate" => \A p \in ProfileIds :
          catalog'[p] # None /\ (recreate' => p \in Generics \cup {Narrator})
            => provider'[catalog'[p]] = p
    BY <2>1, Cast DEF Alive, TypeOK, settings
  <2> QED
    BY <2>3, <2>4, <2>5, <2>6 DEF Alive
<1>26. ASSUME NEW t \in Tasks, PublishFails(t)
      PROVE  Alive'
  BY <1>26 DEF PublishFails, Fault, store, locals, Goto, Alive, TypeOK, Condemned, Removing
<1>27. ASSUME NEW t \in Tasks, SaveProfile(t)
      PROVE  Alive'
  BY <1>27 DEF SaveProfile, Store, AfterSaving, locals, Goto, Alive, Condemned, Removing
<1>28. ASSUME NEW t \in Tasks, LabelFails(t)
      PROVE  Alive'
  BY <1>28 DEF LabelFails, Fault, Alive, TypeOK
<1>29. ASSUME NEW t \in Tasks, PrepareAssignment(t)
      PROVE  Alive'
  BY <1>29 DEF PrepareAssignment, locals, Goto, Alive, Condemned, Removing
<1>30. ASSUME NEW t \in Tasks, Assign(t)
      PROVE  Alive'
  BY <1>30 DEF Assign, locals, Goto, Alive, Condemned, Removing
<1>31. ASSUME NEW t \in Tasks, ClearFailure(t)
      PROVE  Alive'
  BY <1>31 DEF ClearFailure, Return, settings, Goto, Alive, Condemned, Removing
<1>32. ASSUME NEW t \in Tasks, RecordFailure(t)
      PROVE  Alive'
  BY <1>32 DEF RecordFailure, Return, settings, Goto, Alive, Condemned, Removing
<1> QED
  BY <1>1, <1>2, <1>3, <1>4, <1>5, <1>6, <1>7, <1>8, <1>9, <1>10, <1>11, <1>12, <1>13, <1>14,
     <1>15, <1>16, <1>17, <1>18, <1>19, <1>20, <1>21, <1>22, <1>23, <1>24, <1>25, <1>26, <1>27,
     <1>28, <1>29, <1>30, <1>31, <1>32 DEF Next, VoiceStep, TaskStep, Rebuild

-----------------------------------------------------------------------------
(* The invariant                                                           *)

(* Nothing is stored and nothing runs at first.                            *)
LEMMA InvInitially == ASSUME Init, IInv PROVE Inv
<1>1. \A t \in Tasks : pc[t] = "off"
  BY DEF Init
<1>2. AssignmentsResolve /\ \A v \in Logical : assigned[v] = None /\ recorded[v] = {}
  BY DEF Init, IInv
<1>3. Selected /\ Routed /\ Suited /\ FailuresKnown /\ Doomed
  BY <1>1, Cast DEF Init, Selected, Routed, Suited, FailuresKnown, Doomed, Publishing, Removing, Served
<1>4. NarratorsOwn /\ Gendered /\ Lineage
  BY <1>2, Cast DEF Init, NarratorsOwn, Gendered, Lineage
<1>5. Whole
  BY NothingPublished DEF Init, Whole
<1>6. Owners /\ Exclusive /\ Cleared
  BY <1>1, <1>2, Cast DEF Init, Owners, Exclusive, ExclusiveAmong, Cleared
<1>7. Kept /\ Snapshot /\ OneTag
  BY <1>1, Cast DEF Init, Kept, Snapshot, OneTag, Tagged
<1>8. Alive
  BY <1>1 DEF Init, Alive
<1> QED
  BY <1>3, <1>4, <1>5, <1>6, <1>7, <1>8 DEF Inv, Reconciled, NothingLost

(* Every step keeps it.                                                    *)
LEMMA InvKept == ASSUME Inv, Next, IInv' PROVE Inv'
<1> USE DEF Inv, IInv
<1>1. Selected' /\ NarratorsOwn' /\ Routed' /\ Suited' /\ FailuresKnown' /\ Gendered' /\ Whole'
  BY SelectedKept, NarratorsOwnKept, RoutedKept, SuitedKept, FailuresKept, GenderedKept, WholeKept
<1>2. Reconciled'
  BY OwnersKept, ExclusiveKept, ClearedKept DEF Reconciled
<1>3. NothingLost'
  BY KeptKept, SnapshotKept, OneTagKept DEF NothingLost
<1>4. Lineage' /\ Doomed' /\ Alive'
  BY LineageKept, DoomedKept, AliveKept
<1> QED
  BY <1>1, <1>2, <1>3, <1>4

(* A stutter changes nothing it speaks of.                                 *)
LEMMA InvStutters == ASSUME Inv, UNCHANGED vars, IInv' PROVE Inv'
<1>1. Selected' /\ NarratorsOwn' /\ Routed' /\ Suited' /\ FailuresKnown' /\ Gendered' /\ Whole'
  BY DEF Inv, vars, store, locals, Selected, NarratorsOwn, Routed, Suited, FailuresKnown, Gendered,
     Whole, AssignedTo
<1>2. Reconciled'
  BY DEF Inv, vars, store, locals, Reconciled, Owners, Exclusive, ExclusiveAmong, Cleared
<1>3. NothingLost'
  BY DEF Inv, vars, store, locals, NothingLost, Kept, Snapshot, OneTag, Tagged
<1>4. Lineage' /\ Doomed' /\ Alive'
  BY DEF Inv, vars, store, locals, Lineage, Doomed, Alive, AssignedTo, Condemned
<1> QED
  BY <1>1, <1>2, <1>3, <1>4 DEF Inv

(* The invariant of every behaviour: what tasks, writes of the             *)
(* reconciliation, faults and crashes leave of the store.                  *)
THEOREM Provisioning == Spec => []Inv
<1>1. Init /\ IInv => Inv
  BY InvInitially
<1>2. Inv /\ IInv' /\ [Next]_vars => Inv'
  BY InvKept, InvStutters
<1> QED
  BY <1>1, <1>2, Invariance, PTL DEF Spec

(* A task that settled did what the run asked of its voice, whatever other *)
(* tasks, deletions and lost answers came between.                         *)
THEOREM Settlement == Spec => []SettledVoices
<1>1. Inv => SettledVoices
  BY DEF Inv, Suited, FailuresKnown, SettledVoices, Served
<1> QED
  BY <1>1, Provisioning, PTL

(* Unless attribution dies inside its reconciliation, two published voices *)
(* never share a dedicated profile.                                        *)
THEOREM Exclusivity == ~RebuildMayCrash => (Spec => []DedicatedExclusive)
<1> SUFFICES ASSUME ~RebuildMayCrash PROVE Spec => []DedicatedExclusive
  OBVIOUS
<1>1. Inv => DedicatedExclusive
  <2> SUFFICES ASSUME Inv PROVE DedicatedExclusive
    OBVIOUS
  <2>1. Exclusive /\ current \cup {Narrator} \subseteq Logical
    BY Cast DEF Inv, IInv, TypeOK, Reconciled
  <2> QED
    BY <2>1 DEF Exclusive, ExclusiveAmong, DedicatedExclusive
<1> QED
  BY <1>1, Provisioning, PTL

(* Unless voices are recreated, the provider holds one voice under a tag   *)
(* at most: the one the profile table names, or one that the next run      *)
(* finds and adopts.                                                       *)
THEOREM UniqueTags == ~AllowRecreate => (Spec => []OneVoicePerTag)
<1> SUFFICES ASSUME ~AllowRecreate PROVE Spec => []OneVoicePerTag
  OBVIOUS
<1>1. Inv => OneVoicePerTag
  <2> SUFFICES ASSUME Inv, NEW p \in ProfileIds
               PROVE  /\ Cardinality(Tagged(p)) <= 1
                      /\ profiles[p] # None => Tagged(p) \subseteq {profiles[p]}
    BY DEF OneVoicePerTag
  <2>1. Kept /\ OneTag
    BY DEF Inv, NothingLost
  <2>2. Cardinality(Tagged(p)) <= 1
    <3>1. CASE Tagged(p) = {}
      BY <3>1, FS_EmptySet
    <3>2. ASSUME NEW i \in Tagged(p)
          PROVE  Cardinality(Tagged(p)) <= 1
      <4>1. Tagged(p) = {i}
        BY <2>1, <3>2 DEF OneTag
      <4>2. Cardinality({i}) = 1
        BY FS_Singleton
      <4> QED
        BY <4>1, <4>2
    <3> QED
      BY <3>1, <3>2
  <2>3. profiles[p] # None => profiles[p] \in Tagged(p)
    BY <2>1 DEF Kept, Tagged, Inv, IInv, TypeOK
  <2> QED
    BY <2>1, <2>2, <2>3 DEF OneTag
<1> QED
  BY <1>1, Provisioning, PTL

(* While nothing has failed or died, a profile in use names a voice that   *)
(* the provider has: no task binds, or keeps, a voice that another deletes.*)
THEOREM Liveliness == Spec => []VoicesAlive
<1>1. Inv => VoicesAlive
  <2> SUFFICES ASSUME Inv, faults = 0, NEW v \in Logical, assigned[v] # None,
                      pc[v] \notin {"wipe", "unassign"}
               PROVE  provider[Bound(v)] = assigned[v]
    BY DEF VoicesAlive
  <2>1. assigned[v] \in ProfileIds /\ profiles[assigned[v]] # None
    BY DEF Inv, IInv, TypeOK, AssignmentsResolve
  <2>2. ASSUME NEW w \in Voices, pc[w] \in Removing, wanted[w] = assigned[v]
        PROVE  FALSE
    <3>1. AssignedTo(wanted[w]) = IF pc[w] \in {"forget", "drop"} THEN {} ELSE {w}
      BY <2>1, <2>2, Cast DEF Inv, Doomed
    <3>2. v \in AssignedTo(wanted[w])
      BY <2>2 DEF AssignedTo
    <3> QED
      BY <2>2, <3>1, <3>2 DEF Removing
  <2> QED
    BY <2>1, <2>2 DEF Inv, Alive, Condemned, Bound
<1> QED
  BY <1>1, Provisioning, PTL

-----------------------------------------------------------------------------
(* The ledger                                                              *)

(* A step leaves each voice no assignment, no recordings, or what it had.  *)
StaysOrGoes ==
  \A v \in Logical :
    \/ assigned'[v] = None \/ recorded'[v] = {}
    \/ assigned[v] # None /\ Bound(v)' = Bound(v) /\ recorded'[v] \subseteq recorded[v]

(* Such a step is a rebinding of the ledger.                               *)
LEMMA Rebinds == ASSUME TypeOK', AssignmentsResolve', StaysOrGoes PROVE Ledger!Rebind
<1>1. \A v \in Logical : Bound(v)' \in ProviderIds \cup {None}
  BY DEF TypeOK, Bound
<1>2. \A v \in Logical : (IF assigned'[v] = None THEN {} ELSE recorded'[v]) \in SUBSET ProviderIds
  BY DEF TypeOK
<1> QED
  BY <1>1, <1>2 DEF Ledger!Rebind, StaysOrGoes

(* A voice that speaks records its present binding.                        *)
LEMMA SpeakRecords ==
  ASSUME Inv, NEW v \in Voices, Speak(v), recorded' = [recorded EXCEPT ![v] = @ \cup {Bound(v)}]
  PROVE  \E V \in SUBSET Logical : Ledger!Record(V)
<1>1. v \in Logical /\ assigned[v] # None /\ Bound(v) # None
  BY Cast DEF Speak, Inv, IInv, Control, Served, AssignmentsResolve, Bound
<1>2. UNCHANGED <<assigned, profiles>> /\ recorded \in [Logical -> SUBSET ProviderIds]
  BY DEF Speak, Inv, IInv, TypeOK
<1>3. \A w \in Logical : Bound(w)' = Bound(w)
  BY <1>2 DEF Bound
<1>4. Ledger!Record({v})
  BY <1>1, <1>2, <1>3 DEF Ledger!Record
<1> QED
  BY <1>1, <1>4

(* Every step but speaking leaves a voice unassigned, without recordings, or*)
(* with the binding and no more than the recordings it had.                *)
LEMMA OthersStayOrGo ==
  ASSUME TypeOK, AssignmentsResolve, Gendered, Routed, Cleared, ~RebuildMayCrash,
         ~(\E v \in Voices : Speak(v)), Next
  PROVE  StaysOrGoes
<1>1. CASE StartGenerate \/ EndGenerate \/ Crash \/ LookupNarrator \/ StartRebuild
          \/ Neutralise \/ FinishRebuild
  BY <1>1 DEF StartGenerate, EndGenerate, Crash, LookupNarrator, StartRebuild, Neutralise,
     FinishRebuild, store, Bound, StaysOrGoes
<1>2. CASE \E v \in Voices : Admit(v) \/ LookupVoice(v) \/ RevokeVoice(v) \/ RevokeFails(v)
                             \/ DeleteFailures(v) \/ AwaitGeneric(v) \/ ChooseProfile(v)
                             \/ CallNarrator(v)
  BY <1>2 DEF Admit, LookupVoice, RevokeVoice, RevokeFails, DeleteFailures, AwaitGeneric,
     ChooseProfile, CallNarrator, store, Bound, StaysOrGoes
<1>3. CASE \E g \in Generics : LookupGeneric(g)
  BY <1>3 DEF LookupGeneric, store, Bound, StaysOrGoes
<1>4. CASE \E t \in Tasks : Publish(t) \/ PublishFails(t) \/ LabelFails(t) \/ ClearFailure(t)
                            \/ RecordFailure(t)
  BY <1>4 DEF Publish, PublishFails, LabelFails, ClearFailure, RecordFailure, store, Bound,
     StaysOrGoes
<1>5. CASE Remap
  BY <1>5, Remapped DEF StaysOrGoes, Cleared, Bound
<1>6. CASE Prune
  BY <1>6 DEF Prune, StaysOrGoes, Bound
<1>7. CASE Purge
  BY <1>7 DEF Purge, StaysOrGoes, Bound
<1>8. ASSUME NEW v \in Voices, DeleteRecordings(v)
      PROVE  StaysOrGoes
  BY <1>8 DEF DeleteRecordings, StaysOrGoes, Bound
<1>9. ASSUME NEW v \in Voices, DeleteAssignment(v)
      PROVE  StaysOrGoes
  BY <1>9 DEF DeleteAssignment, StaysOrGoes, Bound
<1>10. ASSUME NEW v \in Voices, DeleteProfile(v)
      PROVE  StaysOrGoes
  BY <1>10 DEF DeleteProfile, AssignedTo, StaysOrGoes, TypeOK, Bound
<1>11. ASSUME NEW v \in Voices, Speak(v)
      PROVE  StaysOrGoes
  BY <1>11
<1>12. ASSUME NEW t \in Tasks, Adopt(t)
      PROVE  StaysOrGoes
  BY <1>12 DEF Adopt, Store, StaysOrGoes, Routed, Bound, AssignedTo, Publishing
<1>13. ASSUME NEW t \in Tasks, SaveProfile(t)
      PROVE  StaysOrGoes
  BY <1>13 DEF SaveProfile, Store, StaysOrGoes, Routed, Bound, AssignedTo, Publishing
<1>14. ASSUME NEW t \in Tasks, PrepareAssignment(t)
      PROVE  StaysOrGoes
  BY <1>14 DEF PrepareAssignment, StaysOrGoes, Bound
<1>15. ASSUME NEW t \in Tasks, Assign(t)
      PROVE  StaysOrGoes
  BY <1>15 DEF Assign, StaysOrGoes, Cleared, Bound
<1> QED
  BY <1>1, <1>2, <1>3, <1>4, <1>5, <1>6, <1>7, <1>8, <1>9, <1>10, <1>11, <1>12, <1>13, <1>14,
     <1>15 DEF Next, VoiceStep, TaskStep, Rebuild

(* VoiceProvisioning implements VoiceLedger, unless attribution dies       *)
(* inside its reconciliation: whatever unbinds a logical voice, or binds   *)
(* it to another provider voice, has taken its recordings away first.      *)
THEOREM LedgerRefined == ~RebuildMayCrash => (Spec => LedgerSpec)
<1> SUFFICES ASSUME ~RebuildMayCrash PROVE Spec => LedgerSpec
  OBVIOUS
<1>1. Init => Ledger!Init
  <2> SUFFICES ASSUME Init PROVE Ledger!Init
    OBVIOUS
  <2>1. \A v \in Logical : assigned[v] = None /\ Bound(v) = None
    BY DEF Init, Bound
  <2> QED
    BY <2>1 DEF Ledger!Init
<1>2. ASSUME Inv, NEW v \in Voices, Speak(v)
      PROVE  [Ledger!Next]_(Ledger!vars)
  <2>1. PICK spoken \in {{}, {Bound(v)}} : recorded' = [recorded EXCEPT ![v] = @ \cup spoken]
    BY <1>2 DEF Speak
  <2>2. CASE spoken = {Bound(v)}
    BY <1>2, <2>1, <2>2, SpeakRecords DEF Ledger!Next
  <2>3. CASE spoken = {}
    <3>1. recorded' = recorded
      BY <1>2, <2>1, <2>3 DEF Inv, IInv, TypeOK
    <3> QED
      BY <1>2, <3>1 DEF Speak, Bound, Ledger!vars
  <2> QED
    BY <2>1, <2>2, <2>3
<1>3. ASSUME Inv, Inv', Next, ~(\E v \in Voices : Speak(v))
      PROVE  Ledger!Next
  BY <1>3, OthersStayOrGo, Rebinds DEF Inv, IInv, Reconciled, Ledger!Next
<1>4. UNCHANGED vars => UNCHANGED Ledger!vars
  BY DEF vars, store, Ledger!vars, Bound
<1>5. Inv /\ Inv' /\ [Next]_vars => [Ledger!Next]_(Ledger!vars)
  BY <1>2, <1>3, <1>4
<1> QED
  BY <1>1, <1>5, Provisioning, PTL DEF Spec, LedgerSpec, Ledger!Spec
=============================================================================
