---------------------------- MODULE MCExtraction ----------------------------
(* Two dialogues, or a creature and a dialogue; a dialogue has lines in     *)
(* table 1 and transitions in table 2.                                      *)
EXTENDS Extraction

MCKindOf == [r \in Resources |-> IF r = "c" THEN "characters" ELSE "dialogues"]
MCLastTable == [k \in Catalogs |-> IF k = "characters" THEN 1 ELSE 2]
MCBulkTables == [k \in Bulks |-> IF k = "metadata" THEN 2 ELSE 1]
MCParentOf == [c \in Children |-> CASE c = "sound" -> "c" [] c = "line2" -> "d2" [] OTHER -> "d1"]
MCTableOf == [c \in Children |-> IF c = "edge" THEN 2 ELSE 1]
=============================================================================
