SPECIFICATION T8nSpec
CONSTANTS
  a1 = a1
  a2 = a2
  a3 = a3
  s1 = s1
  c1 = c1
  None = None
  EmptyCode = EmptyCode
  Address <- ThreeAddresses
  Slot <- OneSlot
  Code <- ThreeCodes
  MaxBalance = 7
  MaxNonce = 3
  MaxWord = 1
  Tx <- T8nTx
  coinbase = a2
  base_fee = 1
  block_gas_limit = 5
  GAS_TX = 1
  GAS_CREATE = 1
  MaxBlobGas = 3
  EvmRefund = {0, 1}
  Supply = 6
  compute_create_address <- CreateAddress
  MaxTxs = 2
  c2 = c2
  Allocs <- SmallAllocs
  Rewards <- SmallRewards
  has_base_fee = TRUE
  DEFAULT_BASE_FEE = 7
  blob_fields = TRUE
  Damaged = Damaged
  Incomplete = Incomplete
INVARIANTS GasAccounted EachTransactionOnce NoReplay EtherAccounted PaymentsSucceed RootCoversStorage NothingLeaks ExitTellsOutcome ReloadsToReportedRoot
CHECK_DEADLOCK FALSE
