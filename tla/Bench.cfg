\* All jobs, any instruction of Quasar's failing.
SPECIFICATION BenchSpec
CONSTANTS
  creator = creator
  proposer = proposer
  approver = approver
  bench_wallet = bench_wallet
  NoAccount = NoAccount
  NoDefinition = NoDefinition
  Definitions <- MCDefinitions
  Wallets = {bench_wallet}
  Keys = {proposer, approver}
  Payers = {creator}
  Charters <- MCCharters
  Params <- MCParams
  Wishes <- MCWishes
  MaxSigned = 3
  ExpiryText <- MCExpiryText
  NameLen <- MCNameLen
  Utf8Names = {bench_wallet}
  DEFAULT_EXPIRY = 1000000000
  Expiries = {1000000000}
  VoteIndexes = {0}
  PARAMS_DATA_MAX = 512
  INTENT_SIZE = 5964
  APPROVERS_OFFSET = 564
  U8_MAX = 255
  U16_MAX = 65535
  MaxProposals = 1
  MaxTime = 0
INVARIANTS
  AnchorCasesSucceed
  RowsCompareLikeWithLike
  TracesAreOfTheCase
PROPERTIES
  ReportIsWritten
CHECK_DEADLOCK FALSE
