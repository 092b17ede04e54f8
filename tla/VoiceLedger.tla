----------------------------- MODULE VoiceLedger -----------------------------
(***************************************************************************)
(* What the generation store promises about provider voices, whatever the  *)
(* tasks that write it do: every stored recording of a logical voice was   *)
(* labelled with the provider voice the logical voice is bound to now.     *)
(* VoiceProvisioning and TtsBatches both implement it.                     *)
(***************************************************************************)
CONSTANTS
  Logical,      \* logical voices, the narrator among them
  ProviderIds,  \* Inworld voice ids
  None          \* no provider voice

VARIABLES
  bound,        \* the provider voice each logical voice is assigned to, or None
  recorded      \* the provider voices its stored recordings are labelled with

vars == <<bound, recorded>>

TypeOK == /\ bound \in [Logical -> ProviderIds \cup {None}]
          /\ recorded \in [Logical -> SUBSET ProviderIds]

Init == /\ bound \in [Logical -> ProviderIds \cup {None}]
        /\ recorded = [v \in Logical |-> {}]

(* Recordings may go at any time; all of a logical voice's recordings go   *)
(* in the step that changes its binding.                                   *)
Rebind ==
  /\ bound' \in [Logical -> ProviderIds \cup {None}]
  /\ recorded' \in [Logical -> SUBSET ProviderIds]
  /\ \A v \in Logical :
       recorded'[v] \subseteq IF bound'[v] = bound[v] THEN recorded[v] ELSE {}

(* Store recordings, of several logical voices at once: each is labelled   *)
(* with the present binding.                                               *)
Record(V) ==
  /\ \A v \in V : bound[v] # None
  /\ recorded' = [v \in Logical |-> recorded[v] \cup IF v \in V THEN {bound[v]} ELSE {}]
  /\ UNCHANGED bound

Next == Rebind \/ \E V \in SUBSET Logical : Record(V)

Spec == Init /\ [][Next]_vars

(* No recording is labelled with a provider voice other than the one its   *)
(* logical voice is bound to.                                              *)
RecordedByBound == \A v \in Logical : recorded[v] \subseteq {bound[v]}
=============================================================================
