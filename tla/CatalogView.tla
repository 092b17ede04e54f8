----------------------------- MODULE CatalogView -----------------------------
(***************************************************************************)
(* What the catalog of extracted resources promises its readers, however   *)
(* an extraction writes it: the children of a resource (the sounds of a    *)
(* creature, the lines and transitions of a dialogue) are there whole or   *)
(* not at all, and one set of them gives way to another only by way of     *)
(* being unavailable.  Extraction implements it.                           *)
(***************************************************************************)
CONSTANTS
  Resources,    \* creatures and dialogues
  Children,     \* identities of sounds, lines and transitions
  ParentOf,     \* the resource of each child
  None          \* not available

VARIABLE view   \* the children a reader finds for a resource, or None

Own(r) == {c \in Children : ParentOf[c] = r}

Views(r) == {None} \cup SUBSET Own(r)

TypeOK == /\ DOMAIN view = Resources
          /\ \A r \in Resources : view[r] \in Views(r)

Init == view = [r \in Resources |-> None]

(* Any resources may become unavailable, and unavailable ones available.   *)
Next == /\ TypeOK'
        /\ \A r \in Resources : view'[r] # view[r] => None \in {view[r], view'[r]}

Spec == Init /\ [][Next]_view
=============================================================================
