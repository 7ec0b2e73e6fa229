\* Names that look like other messages; all addresses at the boundaries.
SPECIFICATION MessageSpec
CONSTANTS
  Requests <- MCRequests
  Sha256 <- MCSha256
  MSG_BUF_SIZE = 307
  BUF_LEN = 44
INVARIANTS
  HeaderTellsLength
  TurnedDownOnlyIfTooLong
  
  EncodingReversible
  AddressesFit
CHECK_DEADLOCK FALSE
