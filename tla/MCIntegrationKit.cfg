SPECIFICATION MCSpec
CONSTANTS
  Specs <- FiveSpecs
  Digest <- DigestOf
  WithImage <- ImageSpecs
  Malformed <- MalformedSpecs
  Rejected <- RejectedSpecs
  MaxEdits = 1
  MaxMishaps = 2
INVARIANT TypeOK
INVARIANT ReadyIsBuilt
PROPERTY RebuiltOnlyWhenChanged
PROPERTY KeepsKitLife
PROPERTY KitFinishes
