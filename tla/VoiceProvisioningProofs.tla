----------------------- MODULE VoiceProvisioningProofs -----------------------
(***************************************************************************)
(* Type correctness of VoiceProvisioning, and that no assignment names a   *)
(* profile that is not stored, for every cast of voices, every bound and   *)
(* every interruption, a crash inside the reconciliation included.         *)
(*                                                                         *)
(* Neither is inductive alone.  Recordings are typed because a voice that  *)
(* speaks has a profile (Control); a profile is stored when its assignment *)
(* is written because it was when assign_voice looked, and the write lock  *)
(* keeps DeleteProfile out between the two (BindSafe).                     *)
(***************************************************************************)
EXTENDS VoiceProvisioning, TLAPS

Working == {"adopt", "publish", "label", "assign", "bind"}
Served  == {"bound", "speak", "narrate", "ready"}

(* What the place of a task says of its locals and of its assignment.      *)
Control ==
  /\ phase # "generate" => \A t \in Tasks : pc[t] = "off"
  /\ \A t \in Tasks : pc[t] \in Working => wanted[t] # None
  /\ \A t \in Tasks : pc[t] = "adopt" => catalog[wanted[t]] # None
  /\ \A t \in Tasks : pc[t] = "label" => handle[t] # None
  /\ \A v \in Voices : pc[v] \in Served => assigned[v] # None

(* The profile whose assignment is about to be written is stored.          *)
BindSafe == \A t \in Tasks : pc[t] = "bind" => profiles[wanted[t]] # None

IInv == TypeOK /\ AssignmentsResolve /\ Control /\ BindSafe

-----------------------------------------------------------------------------
(* Typing of the steps that compute a value                                *)

(* A counted fault keeps the count within its bound.                       *)
LEMMA FaultType == ASSUME TypeOK, Fault PROVE faults' \in 0..MaxFaults
  BY ConstantsAssumption DEF TypeOK, Fault

(* The catalog maps profile ids to provider voices.                        *)
LEMMA CatalogType == ASSUME TypeOK PROVE Catalog \in [ProfileIds -> ProviderIds \cup {None}]
  BY DEF Catalog, Tagged

(* Starting a run sets the tasks, the sparse voices and the snapshot.      *)
LEMMA StartGenerateType == ASSUME IInv, StartGenerate PROVE TypeOK'
<1>1. generic' \in SUBSET Voices
  BY DEF StartGenerate, IInv, TypeOK
<1>2. pc' \in [Tasks -> Labels]
  BY DEF StartGenerate, Labels
<1>3. catalog' \in [ProfileIds -> ProviderIds \cup {None}]
  BY CatalogType DEF StartGenerate, IInv
<1> QED
  BY <1>1, <1>2, <1>3 DEF StartGenerate, IInv, TypeOK, store

(* A crash resets the locals.                                              *)
LEMMA CrashType == ASSUME IInv, Crash PROVE TypeOK'
  BY FaultType DEF IInv, Crash, ResetLocals, TypeOK, store, Labels

(* Deleting a provider voice, whatever comes of the call.                  *)
LEMMA RevokeVoiceType == ASSUME IInv, NEW v \in Voices, RevokeVoice(v) PROVE TypeOK'
<1>1. provider' \in [ProviderIds -> ProfileIds \cup {None, Gone}]
  BY DEF RevokeVoice, IInv, TypeOK
<1>2. pc' \in [Tasks -> Labels]
  BY DEF RevokeVoice, IInv, TypeOK, Goto, Labels
<1>3. faults' \in 0..MaxFaults
  BY FaultType DEF RevokeVoice, IInv, TypeOK
<1> QED
  BY <1>1, <1>2, <1>3 DEF RevokeVoice, IInv, TypeOK, store, locals

(* Deleting a profile, or refusing to.                                     *)
LEMMA DeleteProfileType == ASSUME IInv, NEW v \in Voices, DeleteProfile(v) PROVE TypeOK'
<1>1. pc' \in [Tasks -> Labels]
  BY DEF DeleteProfile, IInv, TypeOK, Goto, Labels
<1>2. profiles' \in [ProfileIds -> ProviderIds \cup {None}]
  BY DEF DeleteProfile, IInv, TypeOK
<1>3. genders' \in [ProfileIds -> Genders \cup {None}]
  BY DEF DeleteProfile, IInv, TypeOK
<1> QED
  BY <1>1, <1>2, <1>3 DEF DeleteProfile, IInv, TypeOK, locals

(* A recording is labelled with a provider voice: a voice that speaks is   *)
(* assigned a profile, and the profile is stored.                          *)
LEMMA SpeakType == ASSUME IInv, NEW v \in Voices, Speak(v) PROVE TypeOK'
<1>1. Bound(v) \in ProviderIds
  BY DEF Speak, IInv, TypeOK, AssignmentsResolve, Control, Served, Bound, Logical
<1>2. recorded' \in [Logical -> SUBSET ProviderIds]
  BY <1>1 DEF Speak, IInv, TypeOK
<1> QED
  BY <1>2 DEF Speak, IInv, TypeOK, locals, Goto, Labels

(* A publication hands back a voice id and tags it with the profile.       *)
LEMMA PublishType == ASSUME IInv, NEW t \in Tasks, Publish(t) PROVE TypeOK'
<1> DEFINE id == CHOOSE i \in Unused : TRUE
<1>1. id \in ProviderIds
  BY DEF Publish, Unused
<1>2. faults' \in 0..MaxFaults
  BY FaultType DEF Publish, IInv, TypeOK
<1>3. pc' \in [Tasks -> Labels]
  BY DEF Publish, IInv, TypeOK, Goto, Labels
<1>4. /\ provider' = [provider EXCEPT ![id] = wanted[t]]
      /\ fresh' = fresh \cup {id}
      /\ handle' = [handle EXCEPT ![t] = id]
  BY DEF Publish
<1> HIDE DEF id
<1>5. provider' \in [ProviderIds -> ProfileIds \cup {None, Gone}]
  BY <1>1, <1>4 DEF IInv, TypeOK
<1>6. fresh' \in SUBSET ProviderIds
  BY <1>1, <1>4 DEF IInv, TypeOK
<1>7. handle' \in [Tasks -> ProviderIds \cup {None}]
  BY <1>1, <1>4 DEF IInv, TypeOK
<1>8. UNCHANGED <<store, current, draft, phase, settings, wanted>>
  BY DEF Publish
<1> QED
  BY <1>2, <1>3, <1>5, <1>6, <1>7, <1>8 DEF IInv, TypeOK, store, settings

(* upsert_voice_profiles writes a typed row.                               *)
LEMMA StoreType ==
  ASSUME TypeOK, NEW t \in Tasks, NEW id \in ProviderIds \cup {None}, Store(t, id)
  PROVE  /\ profiles' \in [ProfileIds -> ProviderIds \cup {None}]
         /\ genders' \in [ProfileIds -> Genders \cup {None}]
  BY DEF TypeOK, Store

(* What is adopted is the voice of the catalog.                            *)
LEMMA AdoptType == ASSUME IInv, NEW t \in Tasks, Adopt(t) PROVE TypeOK'
<1>1. wanted[t] \in ProfileIds
  BY DEF Adopt, IInv, TypeOK, Control, Working
<1>2. catalog[wanted[t]] \in ProviderIds \cup {None}
  BY <1>1 DEF IInv, TypeOK
<1>3. Store(t, catalog[wanted[t]])
  BY DEF Adopt
<1>4. pc' \in [Tasks -> Labels]
  BY DEF Adopt, IInv, TypeOK, Goto, AfterSaving, Labels
<1> QED
  BY <1>2, <1>3, <1>4, StoreType DEF Adopt, IInv, TypeOK, locals

(* What is saved is the voice the task has published.                      *)
LEMMA SaveProfileType == ASSUME IInv, NEW t \in Tasks, SaveProfile(t) PROVE TypeOK'
<1>1. handle[t] \in ProviderIds \cup {None}
  BY DEF IInv, TypeOK
<1>2. Store(t, handle[t])
  BY DEF SaveProfile
<1>3. pc' \in [Tasks -> Labels]
  BY DEF SaveProfile, IInv, TypeOK, Goto, AfterSaving, Labels
<1> QED
  BY <1>1, <1>2, <1>3, StoreType DEF SaveProfile, IInv, TypeOK, locals

-----------------------------------------------------------------------------
(* Every step keeps the types.                                             *)
LEMMA TypeStep == IInv /\ [Next]_vars => TypeOK'
<1> SUFFICES ASSUME IInv, [Next]_vars PROVE TypeOK'
  OBVIOUS
<1> USE ConstantsAssumption DEF IInv, store, locals, settings, TypeOK, Logical, DedicatedIds,
         ProfileIds, Tasks, Gone, Labels, Fault
<1>1. CASE StartGenerate
  BY <1>1, StartGenerateType
<1>2. CASE EndGenerate
  BY <1>2 DEF EndGenerate, ResetLocals, Goto
<1>3. CASE Crash
  BY <1>3, CrashType
<1>4. CASE LookupNarrator
  BY <1>4 DEF LookupNarrator, SharedSource, Goto
<1>5. CASE StartRebuild
  BY <1>5 DEF StartRebuild, Publications, Goto
<1>6. CASE Neutralise
  BY <1>6 DEF Neutralise, Goto
<1>7. CASE Remap
  BY <1>7 DEF Remap, Moves, Stale, Goto
<1>8. CASE Prune
  BY <1>8 DEF Prune, Stale, Goto
<1>9. CASE Purge
  BY <1>9 DEF Purge, Goto
<1>10. CASE FinishRebuild
  BY <1>10 DEF FinishRebuild, Goto
<1>11. ASSUME NEW v \in Voices, Admit(v) PROVE TypeOK'
  BY <1>11 DEF Admit, Goto
<1>12. ASSUME NEW v \in Voices, LookupVoice(v) PROVE TypeOK'
  BY <1>12 DEF LookupVoice, Matches, Goto
<1>13. ASSUME NEW v \in Voices, RevokeVoice(v) PROVE TypeOK'
  BY <1>13, RevokeVoiceType
<1>14. ASSUME NEW v \in Voices, RevokeFails(v) PROVE TypeOK'
  BY <1>14 DEF RevokeFails, Fault, Goto
<1>15. ASSUME NEW v \in Voices, DeleteRecordings(v) PROVE TypeOK'
  BY <1>15 DEF DeleteRecordings, Goto
<1>16. ASSUME NEW v \in Voices, DeleteAssignment(v) PROVE TypeOK'
  BY <1>16 DEF DeleteAssignment, Goto
<1>17. ASSUME NEW v \in Voices, DeleteFailures(v) PROVE TypeOK'
  BY <1>17 DEF DeleteFailures, Goto
<1>18. ASSUME NEW v \in Voices, DeleteProfile(v) PROVE TypeOK'
  BY <1>18, DeleteProfileType
<1>19. ASSUME NEW v \in Voices, AwaitGeneric(v) PROVE TypeOK'
  BY <1>19 DEF AwaitGeneric, Settled, Goto
<1>20. ASSUME NEW v \in Voices, ChooseProfile(v) PROVE TypeOK'
  BY <1>20 DEF ChooseProfile, DedicatedProfileId, Source, Goto
<1>21. ASSUME NEW v \in Voices, CallNarrator(v) PROVE TypeOK'
  BY <1>21 DEF CallNarrator, Goto
<1>22. ASSUME NEW v \in Voices, Speak(v) PROVE TypeOK'
  BY <1>22, SpeakType
<1>23. ASSUME NEW g \in Generics, LookupGeneric(g) PROVE TypeOK'
  BY <1>23 DEF LookupGeneric, SharedSource, Goto
<1>24. ASSUME NEW t \in Tasks, Adopt(t) PROVE TypeOK'
  BY <1>24, AdoptType
<1>25. ASSUME NEW t \in Tasks, Publish(t) PROVE TypeOK'
  BY <1>25, PublishType
<1>26. ASSUME NEW t \in Tasks, PublishFails(t) PROVE TypeOK'
  BY <1>26 DEF PublishFails, Fault, Goto
<1>27. ASSUME NEW t \in Tasks, SaveProfile(t) PROVE TypeOK'
  BY <1>27, SaveProfileType
<1>28. ASSUME NEW t \in Tasks, LabelFails(t) PROVE TypeOK'
  BY <1>28 DEF LabelFails, Fault, Goto
<1>29. ASSUME NEW t \in Tasks, PrepareAssignment(t) PROVE TypeOK'
  BY <1>29 DEF PrepareAssignment, AssignedTo, Goto
<1>30. ASSUME NEW t \in Tasks, Assign(t) PROVE TypeOK'
  BY <1>30 DEF Assign, Goto
<1>31. ASSUME NEW t \in Tasks, ClearFailure(t) PROVE TypeOK'
  BY <1>31 DEF ClearFailure, Return, Goto
<1>32. ASSUME NEW t \in Tasks, RecordFailure(t) PROVE TypeOK'
  BY <1>32 DEF RecordFailure, Return, Goto
<1>33. CASE UNCHANGED vars
  BY <1>33 DEF vars
<1> QED
  BY <1>1, <1>2, <1>3, <1>4, <1>5, <1>6, <1>7, <1>8, <1>9, <1>10, <1>11, <1>12, <1>13, <1>14,
     <1>15, <1>16, <1>17, <1>18, <1>19, <1>20, <1>21, <1>22, <1>23, <1>24, <1>25, <1>26, <1>27,
     <1>28, <1>29, <1>30, <1>31, <1>32, <1>33 DEF Next, VoiceStep, TaskStep, Rebuild

(* Every step keeps assignments resolved: only Adopt, SaveProfile and      *)
(* DeleteProfile write profiles, and only Assign, Remap, Prune and         *)
(* DeleteAssignment write assignments.                                     *)
LEMMA ResolveStep == IInv /\ [Next]_vars => AssignmentsResolve'
<1> SUFFICES ASSUME IInv, [Next]_vars PROVE AssignmentsResolve'
  OBVIOUS
<1> USE ConstantsAssumption DEF IInv, store, locals, settings, TypeOK, Logical, DedicatedIds,
         ProfileIds, Tasks, Gone, AssignmentsResolve, Control, BindSafe, Working
<1>1. CASE StartGenerate
  BY <1>1 DEF StartGenerate, Catalog, Tagged, Goto
<1>2. CASE EndGenerate
  BY <1>2 DEF EndGenerate, ResetLocals, Goto
<1>3. CASE Crash
  BY <1>3 DEF Crash, ResetLocals, Fault, Goto
<1>4. CASE LookupNarrator
  BY <1>4 DEF LookupNarrator, SharedSource, Goto
<1>5. CASE StartRebuild
  BY <1>5 DEF StartRebuild, Publications, Goto
<1>6. CASE Neutralise
  BY <1>6 DEF Neutralise, Goto
<1>7. CASE Remap
  BY <1>7 DEF Remap, Moves, Stale, Goto
<1>8. CASE Prune
  BY <1>8 DEF Prune, Stale, Goto
<1>9. CASE Purge
  BY <1>9 DEF Purge, Goto
<1>10. CASE FinishRebuild
  BY <1>10 DEF FinishRebuild, Goto
<1>11. ASSUME NEW v \in Voices, Admit(v) PROVE AssignmentsResolve'
  BY <1>11 DEF Admit, Goto
<1>12. ASSUME NEW v \in Voices, LookupVoice(v) PROVE AssignmentsResolve'
  BY <1>12 DEF LookupVoice, Matches, Goto
<1>13. ASSUME NEW v \in Voices, RevokeVoice(v) PROVE AssignmentsResolve'
  BY <1>13 DEF RevokeVoice, Fault, Goto
<1>14. ASSUME NEW v \in Voices, RevokeFails(v) PROVE AssignmentsResolve'
  BY <1>14 DEF RevokeFails, Fault, Goto
<1>15. ASSUME NEW v \in Voices, DeleteRecordings(v) PROVE AssignmentsResolve'
  BY <1>15 DEF DeleteRecordings, Goto
<1>16. ASSUME NEW v \in Voices, DeleteAssignment(v) PROVE AssignmentsResolve'
  BY <1>16 DEF DeleteAssignment, Goto
<1>17. ASSUME NEW v \in Voices, DeleteFailures(v) PROVE AssignmentsResolve'
  BY <1>17 DEF DeleteFailures, Goto
<1>18. ASSUME NEW v \in Voices, DeleteProfile(v) PROVE AssignmentsResolve'
  BY <1>18 DEF DeleteProfile, AssignedTo, Goto
<1>19. ASSUME NEW v \in Voices, AwaitGeneric(v) PROVE AssignmentsResolve'
  BY <1>19 DEF AwaitGeneric, Settled, Goto
<1>20. ASSUME NEW v \in Voices, ChooseProfile(v) PROVE AssignmentsResolve'
  BY <1>20 DEF ChooseProfile, DedicatedProfileId, Source, Goto
<1>21. ASSUME NEW v \in Voices, CallNarrator(v) PROVE AssignmentsResolve'
  BY <1>21 DEF CallNarrator, Goto
<1>22. ASSUME NEW v \in Voices, Speak(v) PROVE AssignmentsResolve'
  BY <1>22 DEF Speak, Bound, Goto
<1>23. ASSUME NEW g \in Generics, LookupGeneric(g) PROVE AssignmentsResolve'
  BY <1>23 DEF LookupGeneric, SharedSource, Goto
<1>24. ASSUME NEW t \in Tasks, Adopt(t) PROVE AssignmentsResolve'
  BY <1>24 DEF Adopt, Store, AfterSaving, Goto
<1>25. ASSUME NEW t \in Tasks, Publish(t) PROVE AssignmentsResolve'
  BY <1>25 DEF Publish, Unused, Fault, Goto
<1>26. ASSUME NEW t \in Tasks, PublishFails(t) PROVE AssignmentsResolve'
  BY <1>26 DEF PublishFails, Fault, Goto
<1>27. ASSUME NEW t \in Tasks, SaveProfile(t) PROVE AssignmentsResolve'
  BY <1>27 DEF SaveProfile, Store, AfterSaving, Goto
<1>28. ASSUME NEW t \in Tasks, LabelFails(t) PROVE AssignmentsResolve'
  BY <1>28 DEF LabelFails, Fault, Goto
<1>29. ASSUME NEW t \in Tasks, PrepareAssignment(t) PROVE AssignmentsResolve'
  BY <1>29 DEF PrepareAssignment, AssignedTo, Goto
<1>30. ASSUME NEW t \in Tasks, Assign(t) PROVE AssignmentsResolve'
  BY <1>30 DEF Assign, Goto
<1>31. ASSUME NEW t \in Tasks, ClearFailure(t) PROVE AssignmentsResolve'
  BY <1>31 DEF ClearFailure, Return, Goto
<1>32. ASSUME NEW t \in Tasks, RecordFailure(t) PROVE AssignmentsResolve'
  BY <1>32 DEF RecordFailure, Return, Goto
<1>33. CASE UNCHANGED vars
  BY <1>33 DEF vars
<1> QED
  BY <1>1, <1>2, <1>3, <1>4, <1>5, <1>6, <1>7, <1>8, <1>9, <1>10, <1>11, <1>12, <1>13, <1>14,
     <1>15, <1>16, <1>17, <1>18, <1>19, <1>20, <1>21, <1>22, <1>23, <1>24, <1>25, <1>26, <1>27,
     <1>28, <1>29, <1>30, <1>31, <1>32, <1>33 DEF Next, VoiceStep, TaskStep, Rebuild

(* Every step keeps what the place of a task says.                         *)
LEMMA ControlStep == IInv /\ [Next]_vars => Control'
<1> SUFFICES ASSUME IInv, [Next]_vars PROVE Control'
  OBVIOUS
<1> USE ConstantsAssumption DEF IInv, store, locals, settings, TypeOK, Logical, DedicatedIds,
         ProfileIds, Tasks, Gone, Control, Working, Served
<1>1. CASE StartGenerate
  BY <1>1 DEF StartGenerate, Catalog, Tagged, Goto
<1>2. CASE EndGenerate
  BY <1>2 DEF EndGenerate, ResetLocals, Goto
<1>3. CASE Crash
  BY <1>3 DEF Crash, ResetLocals, Fault, Goto
<1>4. CASE LookupNarrator
  BY <1>4 DEF LookupNarrator, SharedSource, Goto
<1>5. CASE StartRebuild
  BY <1>5 DEF StartRebuild, Publications, Goto
<1>6. CASE Neutralise
  BY <1>6 DEF Neutralise, Goto
<1>7. CASE Remap
  BY <1>7 DEF Remap, Moves, Stale, Goto
<1>8. CASE Prune
  BY <1>8 DEF Prune, Stale, Goto
<1>9. CASE Purge
  BY <1>9 DEF Purge, Goto
<1>10. CASE FinishRebuild
  BY <1>10 DEF FinishRebuild, Goto
<1>11. ASSUME NEW v \in Voices, Admit(v) PROVE Control'
  BY <1>11 DEF Admit, Goto
<1>12. ASSUME NEW v \in Voices, LookupVoice(v) PROVE Control'
  BY <1>12 DEF LookupVoice, Matches, Goto
<1>13. ASSUME NEW v \in Voices, RevokeVoice(v) PROVE Control'
  BY <1>13 DEF RevokeVoice, Fault, Goto
<1>14. ASSUME NEW v \in Voices, RevokeFails(v) PROVE Control'
  BY <1>14 DEF RevokeFails, Fault, Goto
<1>15. ASSUME NEW v \in Voices, DeleteRecordings(v) PROVE Control'
  BY <1>15 DEF DeleteRecordings, Goto
<1>16. ASSUME NEW v \in Voices, DeleteAssignment(v) PROVE Control'
  BY <1>16 DEF DeleteAssignment, Goto
<1>17. ASSUME NEW v \in Voices, DeleteFailures(v) PROVE Control'
  BY <1>17 DEF DeleteFailures, Goto
<1>18. ASSUME NEW v \in Voices, DeleteProfile(v) PROVE Control'
  BY <1>18 DEF DeleteProfile, AssignedTo, Goto
<1>19. ASSUME NEW v \in Voices, AwaitGeneric(v) PROVE Control'
  BY <1>19 DEF AwaitGeneric, Settled, Goto
<1>20. ASSUME NEW v \in Voices, ChooseProfile(v) PROVE Control'
  BY <1>20 DEF ChooseProfile, DedicatedProfileId, Source, Goto
<1>21. ASSUME NEW v \in Voices, CallNarrator(v) PROVE Control'
  BY <1>21 DEF CallNarrator, Goto
<1>22. ASSUME NEW v \in Voices, Speak(v) PROVE Control'
  BY <1>22 DEF Speak, Bound, Goto
<1>23. ASSUME NEW g \in Generics, LookupGeneric(g) PROVE Control'
  BY <1>23 DEF LookupGeneric, SharedSource, Goto
<1>24. ASSUME NEW t \in Tasks, Adopt(t) PROVE Control'
  BY <1>24 DEF Adopt, Store, AfterSaving, Goto
<1>25. ASSUME NEW t \in Tasks, Publish(t) PROVE Control'
  BY <1>25 DEF Publish, Unused, Fault, Goto
<1>26. ASSUME NEW t \in Tasks, PublishFails(t) PROVE Control'
  BY <1>26 DEF PublishFails, Fault, Goto
<1>27. ASSUME NEW t \in Tasks, SaveProfile(t) PROVE Control'
  BY <1>27 DEF SaveProfile, Store, AfterSaving, Goto
<1>28. ASSUME NEW t \in Tasks, LabelFails(t) PROVE Control'
  BY <1>28 DEF LabelFails, Fault, Goto
<1>29. ASSUME NEW t \in Tasks, PrepareAssignment(t) PROVE Control'
  BY <1>29 DEF PrepareAssignment, AssignedTo, Goto
<1>30. ASSUME NEW t \in Tasks, Assign(t) PROVE Control'
  BY <1>30 DEF Assign, Goto
<1>31. ASSUME NEW t \in Tasks, ClearFailure(t) PROVE Control'
  BY <1>31 DEF ClearFailure, Return, Goto
<1>32. ASSUME NEW t \in Tasks, RecordFailure(t) PROVE Control'
  BY <1>32 DEF RecordFailure, Return, Goto
<1>33. CASE UNCHANGED vars
  BY <1>33 DEF vars
<1> QED
  BY <1>1, <1>2, <1>3, <1>4, <1>5, <1>6, <1>7, <1>8, <1>9, <1>10, <1>11, <1>12, <1>13, <1>14,
     <1>15, <1>16, <1>17, <1>18, <1>19, <1>20, <1>21, <1>22, <1>23, <1>24, <1>25, <1>26, <1>27,
     <1>28, <1>29, <1>30, <1>31, <1>32, <1>33 DEF Next, VoiceStep, TaskStep, Rebuild

(* The lock keeps a profile stored until its assignment is written.        *)
LEMMA BindStep == IInv /\ [Next]_vars => BindSafe'
<1> SUFFICES ASSUME IInv, [Next]_vars PROVE BindSafe'
  OBVIOUS
<1> USE ConstantsAssumption DEF IInv, store, locals, settings, TypeOK, Logical, DedicatedIds,
         ProfileIds, Tasks, Gone, Control, Working, BindSafe, LockFree
<1>1. CASE StartGenerate
  BY <1>1 DEF StartGenerate, Catalog, Tagged, Goto
<1>2. CASE EndGenerate
  BY <1>2 DEF EndGenerate, ResetLocals, Goto
<1>3. CASE Crash
  BY <1>3 DEF Crash, ResetLocals, Fault, Goto
<1>4. CASE LookupNarrator
  BY <1>4 DEF LookupNarrator, SharedSource, Goto
<1>5. CASE StartRebuild
  BY <1>5 DEF StartRebuild, Publications, Goto
<1>6. CASE Neutralise
  BY <1>6 DEF Neutralise, Goto
<1>7. CASE Remap
  BY <1>7 DEF Remap, Moves, Stale, Goto
<1>8. CASE Prune
  BY <1>8 DEF Prune, Stale, Goto
<1>9. CASE Purge
  BY <1>9 DEF Purge, Goto
<1>10. CASE FinishRebuild
  BY <1>10 DEF FinishRebuild, Goto
<1>11. ASSUME NEW v \in Voices, Admit(v) PROVE BindSafe'
  BY <1>11 DEF Admit, Goto
<1>12. ASSUME NEW v \in Voices, LookupVoice(v) PROVE BindSafe'
  BY <1>12 DEF LookupVoice, Matches, Goto
<1>13. ASSUME NEW v \in Voices, RevokeVoice(v) PROVE BindSafe'
  BY <1>13 DEF RevokeVoice, Fault, Goto
<1>14. ASSUME NEW v \in Voices, RevokeFails(v) PROVE BindSafe'
  BY <1>14 DEF RevokeFails, Fault, Goto
<1>15. ASSUME NEW v \in Voices, DeleteRecordings(v) PROVE BindSafe'
  BY <1>15 DEF DeleteRecordings, Goto
<1>16. ASSUME NEW v \in Voices, DeleteAssignment(v) PROVE BindSafe'
  BY <1>16 DEF DeleteAssignment, Goto
<1>17. ASSUME NEW v \in Voices, DeleteFailures(v) PROVE BindSafe'
  BY <1>17 DEF DeleteFailures, Goto
<1>18. ASSUME NEW v \in Voices, DeleteProfile(v) PROVE BindSafe'
  BY <1>18 DEF DeleteProfile, AssignedTo, Goto
<1>19. ASSUME NEW v \in Voices, AwaitGeneric(v) PROVE BindSafe'
  BY <1>19 DEF AwaitGeneric, Settled, Goto
<1>20. ASSUME NEW v \in Voices, ChooseProfile(v) PROVE BindSafe'
  BY <1>20 DEF ChooseProfile, DedicatedProfileId, Source, Goto
<1>21. ASSUME NEW v \in Voices, CallNarrator(v) PROVE BindSafe'
  BY <1>21 DEF CallNarrator, Goto
<1>22. ASSUME NEW v \in Voices, Speak(v) PROVE BindSafe'
  BY <1>22 DEF Speak, Bound, Goto
<1>23. ASSUME NEW g \in Generics, LookupGeneric(g) PROVE BindSafe'
  BY <1>23 DEF LookupGeneric, SharedSource, Goto
<1>24. ASSUME NEW t \in Tasks, Adopt(t) PROVE BindSafe'
  BY <1>24 DEF Adopt, Store, AfterSaving, Goto
<1>25. ASSUME NEW t \in Tasks, Publish(t) PROVE BindSafe'
  BY <1>25 DEF Publish, Unused, Fault, Goto
<1>26. ASSUME NEW t \in Tasks, PublishFails(t) PROVE BindSafe'
  BY <1>26 DEF PublishFails, Fault, Goto
<1>27. ASSUME NEW t \in Tasks, SaveProfile(t) PROVE BindSafe'
  BY <1>27 DEF SaveProfile, Store, AfterSaving, Goto
<1>28. ASSUME NEW t \in Tasks, LabelFails(t) PROVE BindSafe'
  BY <1>28 DEF LabelFails, Fault, Goto
<1>29. ASSUME NEW t \in Tasks, PrepareAssignment(t) PROVE BindSafe'
  BY <1>29 DEF PrepareAssignment, AssignedTo, Goto
<1>30. ASSUME NEW t \in Tasks, Assign(t) PROVE BindSafe'
  BY <1>30 DEF Assign, Goto
<1>31. ASSUME NEW t \in Tasks, ClearFailure(t) PROVE BindSafe'
  BY <1>31 DEF ClearFailure, Return, Goto
<1>32. ASSUME NEW t \in Tasks, RecordFailure(t) PROVE BindSafe'
  BY <1>32 DEF RecordFailure, Return, Goto
<1>33. CASE UNCHANGED vars
  BY <1>33 DEF vars
<1> QED
  BY <1>1, <1>2, <1>3, <1>4, <1>5, <1>6, <1>7, <1>8, <1>9, <1>10, <1>11, <1>12, <1>13, <1>14,
     <1>15, <1>16, <1>17, <1>18, <1>19, <1>20, <1>21, <1>22, <1>23, <1>24, <1>25, <1>26, <1>27,
     <1>28, <1>29, <1>30, <1>31, <1>32, <1>33 DEF Next, VoiceStep, TaskStep, Rebuild

(* The strengthened invariant holds of every behaviour.                    *)
THEOREM Invariance == Spec => []IInv
<1>1. Init => IInv
  <2> SUFFICES ASSUME Init PROVE IInv
    OBVIOUS
  <2>1. faults \in 0..MaxFaults
    BY ConstantsAssumption DEF Init
  <2>2. pc \in [Tasks -> Labels] /\ phase = "idle"
    BY DEF Init, Labels
  <2>3. TypeOK
    BY <2>1, <2>2 DEF Init, TypeOK
  <2>4. \A t \in Tasks : pc[t] = "off"
    BY DEF Init
  <2>5. Control /\ BindSafe
    BY <2>4 DEF Control, BindSafe, Working, Served, Tasks, Logical
  <2> QED
    BY <2>3, <2>5 DEF Init, IInv, AssignmentsResolve
<1>2. IInv /\ [Next]_vars => IInv'
  BY TypeStep, ResolveStep, ControlStep, BindStep DEF IInv
<1> QED
  BY <1>1, <1>2, PTL DEF Spec

(* Type correctness.                                                       *)
THEOREM TypeCorrect == Spec => []TypeOK
<1>1. IInv => TypeOK
  BY DEF IInv
<1> QED
  BY <1>1, Invariance, PTL

(* What generated_voice and generated_voices assert of the store always    *)
(* holds, however runs, crashes and reconciliations follow each other: the *)
(* profile an assignment names is stored.                                  *)
THEOREM Resolution == Spec => []AssignmentsResolve
<1>1. IInv => AssignmentsResolve
  BY DEF IInv
<1> QED
  BY <1>1, Invariance, PTL
=============================================================================
