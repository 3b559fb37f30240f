SPECIFICATION Spec
CONSTANTS
  a1 = a1
  a2 = a2
  s1 = s1
  None = None
  EmptyCode = EmptyCode
  Address <- TwoAddresses
  Slot <- OneSlot
  Code <- NoCode
  MaxBalance = 1
  MaxNonce = 1
  MaxWord = 1
  EVM_MAX_CALL_DEPTH = 3
  TxGas = {7}
  OpCost = {0, 1}
  MemoryCost = {0}
  RequestedGas = {0, 2, 8}
  ReturnSize = {0, 1}
  MaxTransactions = 1
  GAS_COLD_ACCOUNT_ACCESS = 2
  GAS_WARM_ACCESS = 1
  GAS_CALL_STIPEND = 1
  GAS_CALL_VALUE = 2
  GAS_NEW_ACCOUNT = 1
  GAS_COLD_SLOAD = 2
  GAS_WARM_STORAGE_READ = 1
  GAS_SSTORE_SET = 3
  GAS_SSTORE_RESET = 2
  GAS_SSTORE_CLEAR_REFUND = 2
  GAS_LOG = 1
  CallGasDivisor = 4
PROPERTY RentHasRoom
CHECK_DEADLOCK FALSE
