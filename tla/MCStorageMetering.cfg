SPECIFICATION Spec
CONSTANTS
  a1 = a1
  s1 = s1
  s2 = s2
  None = None
  EmptyCode = EmptyCode
  Address <- OneAddress
  Slot <- TwoSlots
  Code <- NoCode
  MaxBalance = 0
  MaxNonce = 1
  MaxWord = 2
  MaxOps = 4
  GAS_COLD_ACCOUNT_ACCESS = 2600
  GAS_WARM_ACCESS = 100
  GAS_CALL_STIPEND = 2300
  GAS_CALL_VALUE = 9000
  GAS_NEW_ACCOUNT = 25000
  GAS_COLD_SLOAD = 2100
  GAS_WARM_STORAGE_READ = 100
  GAS_SSTORE_SET = 20000
  GAS_SSTORE_RESET = 2900
  GAS_SSTORE_CLEAR_REFUND = 4800
  GAS_LOG = 375
  CallGasDivisor = 64
SYMMETRY SlotSymmetry
INVARIANTS NetMetering RefundIsExact
