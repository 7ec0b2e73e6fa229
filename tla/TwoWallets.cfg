\* Deployed layout, two wallets whose intents may name each other.
SPECIFICATION Spec
CONSTANTS
  alice = alice
  bob = bob
  savings = savings
  spending = spending
  NoAccount = NoAccount
  NoDefinition = NoDefinition
  Definitions <- MCDefinitions
  Wallets = {savings, spending}
  Keys = {alice, bob}
  Payers = {alice}
  Charters <- MCSoloCharters
  Params <- MCTwoWalletParams
  NameLen <- MCNameLen
  Utf8Names = {savings}
  Expiries = {1}
  VoteIndexes = {0, 1, 2}
  PARAMS_DATA_MAX = 512
  INTENT_SIZE = 5964
  APPROVERS_OFFSET = 564
  U8_MAX = 3
  U16_MAX = 65535
  MaxProposals = 2
  MaxTime = 1
INVARIANTS
  InFlightIntentsStayApproved
  NumbersUsedOnce
  OnlyFoundingIntentsAct
CHECK_DEADLOCK FALSE
