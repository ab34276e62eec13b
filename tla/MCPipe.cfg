SPECIFICATION FairSpec
CONSTANTS
  Settings <- SixSettings
  Traits <- TheTraits
  Specs <- FiveSpecs
  Translations <- TranslationsOf
  MaxChanges = 4
INVARIANT TypeOK
INVARIANT AgreeWhenQuiet
PROPERTY PipeFollows
CHECK_DEADLOCK FALSE
