------------------------- MODULE MCVoiceProvisioning -------------------------
(* One family that attribution publishes either as the voice "f" or as the *)
(* gender variants "a" (female), "m" (male) and "n" (neutral), one generic *)
(* profile and the narrator.  The instances take some of these voices.     *)
EXTENDS VoiceProvisioning

MCFamily     == {"f", "a", "n"}
MCGreatFamily == {"f", "a", "m", "n"}
MCCast       == {"a", "n"}
MCGenerics   == {"g"}
MCGenders    == {"female", "male", "neutral"}
MCGenericOf  == [v \in Voices |-> "g"]
MCOwnGender  == [v \in Voices |-> CASE v = "a" -> "female" [] v = "m" -> "male"
                                    [] v = "n" -> "neutral" [] OTHER -> None]
MCGenderOf   == [t \in Tasks |-> IF t \in Voices THEN MCOwnGender[t]
                                 ELSE IF t = Narrator THEN "male" ELSE "female"]
MCVariant    == [v \in Voices |-> [g \in MCGenders |->
                  IF v = "f" /\ \E w \in Voices : MCOwnGender[w] = g
                  THEN CHOOSE w \in Voices : MCOwnGender[w] = g ELSE None]]
MCNamespaced == [v \in Voices |-> CASE v = "f" -> "dedicated:f" [] v = "a" -> "dedicated:a"
                                    [] v = "m" -> "dedicated:m" [] OTHER -> "dedicated:n"]
=============================================================================
