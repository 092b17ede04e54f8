CONSTANTS
  Voices <- MCGreatFamily
  Narrator = "narrator"
  Generics <- MCGenerics
  GenericOf <- MCGenericOf
  Genders <- MCGenders
  Neutral = "neutral"
  GenderOf <- MCGenderOf
  Variant <- MCVariant
  Namespaced <- MCNamespaced
  ProviderIds = {"i1"}
  VoiceCapacity = 1
  AllowRecreate = FALSE
  RebuildMayCrash = TRUE
  MaxFaults = 1
  None = "none"
SPECIFICATION Spec
INVARIANT DedicatedExclusive
