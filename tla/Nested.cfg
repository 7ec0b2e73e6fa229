\* Room for whole intents; calls that lead back into the program.
SPECIFICATION NestedSpec
CONSTANTS
  alice = alice
  bob = bob
  savings = savings
  spending = spending
  busy = busy
  NoAccount = NoAccount
  NoDefinition = NoDefinition
  Never = Never
  Definitions <- MCNestedDefinitions
  CallsOf <- MCCallsOf
  MaxDepth = 3
  Wallets = {savings}
  Keys = {alice}
  Payers = {alice}
  Charters <- MCSoloCharters
  Params <- MCNestedParams
  NameLen <- MCNameLen
  Utf8Names = {savings}
  Expiries = {1}
  VoteIndexes = {0}
  PARAMS_DATA_MAX = 8192
  INTENT_SIZE = 5964
  APPROVERS_OFFSET = 564
  U8_MAX = 4
  U16_MAX = 65535
  MaxProposals = 3
  MaxTime = 1
INVARIANTS
  TypeOK
  
  

  
  
  
CHECK_DEADLOCK FALSE
