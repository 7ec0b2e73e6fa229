\* Eighteen definitions, all parameters of up to five bytes.
SPECIFICATION Spec
CONSTANTS
  NoProposal = NoProposal
  NoExecution = NoExecution
  Width <- MCWidth
  NonUtf8 = {200}
  MESSAGE_ROOM = 20
  Definitions <- MCDefinitions
  Datas <- MCDatas
  Remaining <- MCRemaining
  Vault <- MCVault
  SystemProgram <- MCSystemProgram
  Wallet <- MCWallet
  Holders <- MCHolders
  Held <- MCHeld
  CPI_DATA_MAX = 4
  CPI_ACCOUNTS_MAX = 3
  MAX_SEEDS = 3
INVARIANTS
  ValidatedOnceIsEnough
  TextDeterminesParams
PROPERTIES
  CallsAreMeant
CHECK_DEADLOCK FALSE
