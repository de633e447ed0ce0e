CONSTANTS
  LogFiles = {f1, f2}
  Contents <- MCContents
  Unreadable = Unreadable
  NoName = NoName
  NoFile = NoFile
  SegLen <- MCSegLen
  IsDigits <- MCIsDigits

SPECIFICATION Spec

INVARIANT TypeOK
INVARIANT IngestionExact
