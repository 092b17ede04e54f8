--------------------------- MODULE SynthesisPacking ---------------------------
(* How the lines of a workload are packed into synthesis jobs (inworld.py,      *)
(* pack_synthesis_items). An item is its number of characters: nothing else     *)
(* decides where it goes.                                                       *)
EXTENDS Naturals, Sequences, SequencesExt

CONSTANTS
  BatchCharacterLimit,  \* INWORLD_BATCH_CHARACTER_LIMIT
  BatchItemLimit        \* INWORLD_BATCH_ITEM_LIMIT

ASSUME PackingAssumption == BatchCharacterLimit \in Nat /\ BatchItemLimit \in Nat \ {0}

VARIABLE items  \* sizes of the planned items, in their order

Characters(batch) == FoldLeft(+, 0, batch)

(* The batch that is being filled, unless the item does not fit in it. *)
FitsExactly(batch, item) ==
  Characters(batch) + item < BatchCharacterLimit /\ Len(batch) < BatchItemLimit

Fits(batch, item) ==
  Characters(batch) + item <= BatchCharacterLimit /\ Len(batch) < BatchItemLimit

AddItem(batches, item) ==
  IF batches # <<>> /\ Fits(Last(batches), item)
    THEN Append(Front(batches), Append(Last(batches), item))
    ELSE Append(batches, <<item>>)

Packed == FoldLeft(AddItem, <<>>, items)

(* submit_batch's assertions on the batch it is given. *)
Submittable(batch) ==
  Len(batch) <= BatchItemLimit /\ Characters(batch) <= BatchCharacterLimit

(* No item is lost, doubled or moved; what is packed can be submitted, save an  *)
(* item that is too long by itself, which is alone; and no job is opened while  *)
(* the last one could still take the item (pack_synthesis_items, submit_batch). *)
PackingIsTight ==
  /\ FoldLeft(\o, <<>>, Packed) = items
  /\ \A i \in DOMAIN Packed : Submittable(Packed[i]) \/ Len(Packed[i]) = 1
  /\ \A i \in 1..(Len(Packed) - 1) : ~Submittable(Append(Packed[i], Head(Packed[i + 1])))
=============================================================================
