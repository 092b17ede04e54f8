CONSTANTS
  Voices <- MCFamily
  Narrator = "narrator"
  Generics <- MCGenerics
  GenericOf <- MCGenericOf
  Genders <- MCGenders
  Neutral = "neutral"
  GenderOf <- MCGenderOf
  Variant <- MCVariant
  Namespaced <- MCNamespaced
  ProviderIds = {"i1", "i2"}
  VoiceCapacity = 1
  AllowRecreate = FALSE
  RebuildMayCrash = FALSE
  MaxFaults = 1
  None = "none"
SPECIFICATION Spec
INVARIANTS TypeOK DedicatedExclusive OneVoicePerTag SettledVoices
PROPERTY LedgerSpec
