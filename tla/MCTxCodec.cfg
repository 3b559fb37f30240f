SPECIFICATION Spec
CONSTANTS
  BYTE = 16
  NIBBLE = 4
  EMPTY_STRING = 4
  BARRIER = 4
  LEN_BYTES = 2
  U64_BYTES = 2
  U256_BYTES = 3
  ADDRESS_SIZE = 2
  HASH_SIZE = 3
  CAP_64 = 14
  CAP_256 = 36
  CAP_512 = 60
  CAP_1024 = 80
  BLOCK_SIZE = 96
  ALIGNMENT = 2
  Bases = {0, 4}
  Null = Null
  MaxBlocks = 2
  MaxOthers = 1
  MaxInput = 6
  InputBytes = {0, 3, 4, 5, 8, 11, 14}
  Txs <- MCTxs
  Requests <- MCRequests
  LargeRequests <- MCLargeRequests
INVARIANTS ArenaSafe RoundTrip IncompleteIsRejected SenderIsSigner ItemsAreCanonical
