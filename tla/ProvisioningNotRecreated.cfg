CONSTANTS
  Voices <- MCFamily
  Narrator = "narrator"
  Generics <- MCGenerics
  GenericOf <- MCGenericOf
  Genders <- MCGenders
  Neutral = "neutral"
  GenderOf <- MCGenderOf
  Variant <- MCVariant
  Namespaced <- MCNamespaced
  ProviderIds = {"i1"}
  VoiceCapacity = 1
  AllowRecreate = TRUE
  RebuildMayCrash = FALSE
  MaxFaults = 0
  None = "none"
SPECIFICATION Spec
INVARIANT RecreatedIsFresh
