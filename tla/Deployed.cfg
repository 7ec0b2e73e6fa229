\* Deployed layout, one wallet, two approvers, quorum of two, timelock 1.
SPECIFICATION FairSpec
CONSTANTS
  alice = alice
  bob = bob
  savings = savings
  spending = spending
  NoAccount = NoAccount
  NoDefinition = NoDefinition
  Definitions <- MCDefinitions
  Never = Never
  Wallets = {savings}
  Keys = {alice, bob}
  Payers = {alice}
  Charters <- MCCharters
  Params <- MCParams
  NameLen <- MCNameLen
  Utf8Names = {savings}
  Expiries = {3}
  VoteIndexes = {0, 1, 2}
  PARAMS_DATA_MAX = 512
  INTENT_SIZE = 5964
  APPROVERS_OFFSET = 564
  U8_MAX = 3
  U16_MAX = 65535
  MaxProposals = 2
  MaxTime = 4
INVARIANTS
  TypeOK
  CountCoversOpen
  FoundingCountExact
  InFlightIntentsStayApproved
  VoteAccounting
  AllocatedExactly
  NumbersUsedOnce
  FoundingThresholdsReachable
  OnlyFoundingIntentsAct
PROPERTIES
  ApprovedSettles
  TermsFixedWhileOpen
  ImplementsLedger
CHECK_DEADLOCK FALSE
