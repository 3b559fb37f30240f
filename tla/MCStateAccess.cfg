SPECIFICATION Spec
CONSTANTS
  a1 = a1
  s1 = s1
  c1 = c1
  None = None
  EmptyCode = EmptyCode
  Slot <- OneSlot
  Address <- OneAddress
  Code <- TwoCodes
  WarmAddress <- OneAddress
  MaxBalance = 1
  MaxNonce = 2
  MaxWord = 2
  MaxSnapshots = 1
INVARIANTS TypeOK AccountsTracked OriginalIsTxStart RootIsFresh ExportIsComplete
PROPERTY ImplementsAccountMap
