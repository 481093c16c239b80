SPECIFICATION FairSpec
CONSTANTS
  None = None
  Stale = Stale
  MaxPreviews = 1
  MaxFails = 1
INVARIANTS
  DisplayTypeOK
  NoStrayPreview
PROPERTY
  PreviewEnds
