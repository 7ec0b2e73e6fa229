\* intent.rs:57 against execute_add_intent.
SPECIFICATION Spec
CONSTANTS
  alice = alice
  bob = bob
  savings = savings
  spending = spending
  NoAccount = NoAccount
  NoDefinition = NoDefinition
  Definitions <- MCDefinitions
  Wallets = {savings}
  Keys = {alice, bob}
  Payers = {alice}
  Charters <- MCHairCharters
  Params <- MCCountParams
  NameLen <- MCNameLen
  Utf8Names = {savings}
  Expiries = {2}
  VoteIndexes = {0, 1, 2}
  PARAMS_DATA_MAX = 512
  INTENT_SIZE = 5964
  APPROVERS_OFFSET = 564
  U8_MAX = 3
  U16_MAX = 65535
  MaxProposals = 2
  MaxTime = 2
INVARIANTS
  CountIsOpenProposals
CHECK_DEADLOCK FALSE
