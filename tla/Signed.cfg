\* Deployed layout: what is proposed and voted is what was signed.
SPECIFICATION SignedSpec
CONSTANTS
  alice = alice
  bob = bob
  savings = savings
  spending = spending
  NoAccount = NoAccount
  NoDefinition = NoDefinition
  Definitions <- MCDefinitions
  Wallets = {savings}
  Keys = {alice, bob}
  Payers = {alice}
  Charters <- MCPairCharters
  Params <- MCSignedParams
  Wishes <- MCWishes
  MaxSigned = 3
  ExpiryText <- MCExpiryText
  NameLen <- MCNameLen
  Utf8Names = {savings}
  Expiries = {1, 2}
  VoteIndexes = {0, 1}
  PARAMS_DATA_MAX = 512
  INTENT_SIZE = 5964
  APPROVERS_OFFSET = 564
  U8_MAX = 3
  U16_MAX = 65535
  MaxProposals = 2
  MaxTime = 2
INVARIANTS
  ProposalsAndVotesAreMeant

  
CHECK_DEADLOCK FALSE
