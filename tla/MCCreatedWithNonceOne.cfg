SPECIFICATION Spec
CONSTANTS
  a1 = a1
  a2 = a2
  a3 = a3
  s1 = s1
  c1 = c1
  None = None
  EmptyCode = EmptyCode
  Address <- ThreeAddresses
  Slot <- NoSlot
  Code <- TwoCodes
  MaxBalance = 7
  MaxNonce = 3
  MaxWord = 1
  Tx <- AllTx
  coinbase = a2
  base_fee = 1
  block_gas_limit = 5
  GAS_TX = 1
  GAS_CREATE = 1
  MaxBlobGas = 3
  EvmRefund = {0, 1}
  Supply = 6
  compute_create_address <- CreateAddress
  MaxTxs = 2
INVARIANT CreatedWithNonceOne
CHECK_DEADLOCK FALSE
