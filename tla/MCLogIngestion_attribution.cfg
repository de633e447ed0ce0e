CONSTANTS
  LogFiles = {f1}
  Contents <- MCContentsMisattributed
  Unreadable = Unreadable
  NoName = NoName
  NoFile = NoFile
  SegLen <- MCSegLen
  IsDigits <- MCIsDigits

SPECIFICATION Spec

INVARIANT TimingAttributedToItsTest
