------------------------------ MODULE MCReading ------------------------------
(* Those who read while others write: readers of a catalog of a creature    *)
(* with a sound and a dialogue with a line and a transition, metadata in    *)
(* two tables, which start with an extracted game and its attribution; and  *)
(* a list of the browser over a table of up to four rows.  They share no    *)
(* state, so that in each behaviour one is at work and the other rests.     *)
EXTENDS Publication, Browsing

VARIABLE atWork

MCKindOf == [r \in Resources |-> IF r = "c" THEN "characters" ELSE "dialogues"]
MCLastTable == [k \in Catalogs |-> IF k = "characters" THEN 1 ELSE 2]
MCBulkTables == [k \in Bulks |-> IF k = "metadata" THEN 2 ELSE 1]
MCParentOf == [c \in Children |-> IF c = "sound" THEN "c" ELSE "d"]
MCTableOf == [c \in Children |-> IF c = "edge" THEN 2 ELSE 1]

Base == <<"characters", "dialogues", "metadata">>
RunOf == [r \in Resources |-> IF KindOf[r] = "characters" THEN 1 ELSE 2]

(* What three runs that ended well leave of a creature and a dialogue, and  *)
(* the attribution of it.                                                   *)
Extracted ==
  /\ runs = [n \in 1..4 |-> [kind |-> IF n = 4 THEN "attribution" ELSE Base[n],
                             root |-> CHOOSE g \in Roots : TRUE, status |-> "complete"]]
  /\ parents = [r \in Resources |->
       [identity |-> CHOOSE i \in Identities : TRUE, status |-> "complete", run |-> RunOf[r],
        detail |-> Own(r)]]
  /\ rows = [c \in Children |-> RunOf[ParentOf[c]]]
  /\ bulk = [k \in Bulks |-> [t \in 1..BulkTables[k] |-> 3]]
  /\ pc = "idle" /\ table = 1 /\ refresh = FALSE /\ discarded = {}
  /\ todo = {} /\ batch = {} /\ failures = {} /\ failed = FALSE
  /\ found = [r \in Resources |-> {}]

Row == [key |-> KeyFor(4, "c"), run |-> 4, name |-> "c"]

Attributed ==
  /\ inputs = [n \in RunId |-> IF n = 4 THEN [k \in InputKinds |-> Latest(k)] ELSE None]
  /\ basis = [n \in RunId |-> IF n = 4 THEN Basis ELSE None]
  /\ attributed = {Row} /\ voices = {Row} /\ built = NoBuild /\ request = NoRequest

MCPageSizes == <<1, 2>>
MCTables == {1..4, {1, 2, 4}}
MCMatchesOf == [s \in Searches |-> IF s = NoSearch THEN 1..4 ELSE {1, 3, 4}]

(* A page that opens at the top of a list, or where somebody else's does.   *)
AnyList == BrowsingInit /\ stored = 1..4

OneList ==
  /\ list = ListVoices /\ stored = {}
  /\ Opened([search |-> NoSearch, order |-> "default", size |-> 1, token |-> NoToken])

MCInit ==
  /\ Extracted /\ Attributed
  /\ \/ atWork = "readers" /\ OneList
     \/ atWork = "browser" /\ AnyList

MCNext ==
  /\ UNCHANGED atWork
  /\ \/ atWork = "readers" /\ PublicationNext /\ UNCHANGED browsingVars
     \/ atWork = "browser" /\ BrowsingNext /\ UNCHANGED allVars

MCSpec == MCInit /\ [][MCNext]_<<allVars, browsingVars, atWork>>
=============================================================================
