SPECIFICATION Spec
CONSTANTS
  WordBits = 24
  ByteBits = 3
  LimbBits = 6
  Operand <- EdgeLimbs
  Edge <- EdgeWords
INVARIANTS DivisionIsExact SignedIsExact ModularIsExact ArithmeticIsExact
CHECK_DEADLOCK FALSE
