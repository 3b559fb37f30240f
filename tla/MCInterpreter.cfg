SPECIFICATION FairSpec
CONSTANTS
  SizeBits = 6
  WordBytes = 2
  InitialCapacity = 4
  MaxAlloc = 16
  QuadDivisor = 4
  ByteBits = 6
  WordBits = 12
  Opcode <- Opcodes
  Program <- Programs
  InitialGas = {3, 40}
  gas_table <- Costs
  GAS_COPY = 1
  GAS_EXP_BASE = 2
  GAS_EXP_BYTE = 3
  GAS_KECCAK256_WORD = 2
  EVM_STACK_MAX_DEPTH = 4
  EVM_STACK_INITIAL_CAPACITY = 2
  LoadedWord = {1, 6}
  ReturnDataSize = 8
INVARIANTS TypeOK OnInstruction MemoryIsPaidFor
PROPERTIES FrameEnds
CHECK_DEADLOCK FALSE
