-------------------------- MODULE VoiceLedgerProofs --------------------------
(***************************************************************************)
(* What implementing VoiceLedger gives: no recording outlives the binding  *)
(* it was labelled with.                                                   *)
(***************************************************************************)
EXTENDS VoiceLedger, TLAPS

Inv == TypeOK /\ RecordedByBound

(* Init has no recordings.                                                 *)
LEMMA InitInv == Init => Inv
  BY DEF Init, Inv, TypeOK, RecordedByBound

(* A rebinding empties what it rebinds; a new recording is labelled with   *)
(* the present binding.                                                    *)
LEMMA StepInv == Inv /\ [Next]_vars => Inv'
<1> SUFFICES ASSUME Inv, [Next]_vars PROVE Inv'
  OBVIOUS
<1> USE DEF Inv, TypeOK, RecordedByBound
<1>1. CASE Rebind
  BY <1>1 DEF Rebind
<1>2. ASSUME NEW V \in SUBSET Logical, Record(V) PROVE Inv'
  BY <1>2 DEF Record
<1>3. CASE UNCHANGED vars
  BY <1>3 DEF vars
<1> QED
  BY <1>1, <1>2, <1>3 DEF Next

(* The promise of the store to its readers, generated_voices and           *)
(* generated_audio: audio is labelled with the voice's present binding.    *)
THEOREM LabelsAreBindings == Spec => []RecordedByBound
<1>1. Inv => RecordedByBound
  BY DEF Inv
<1> QED
  BY <1>1, InitInv, StepInv, PTL DEF Spec
=============================================================================
