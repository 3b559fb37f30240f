SPECIFICATION Spec
CONSTANTS
  v1 = v1
  None = None
  EmptyValue = EmptyValue
  NibbleSize = 4
  Key <- SomeKeys
  Value <- TwoValues
INVARIANTS TypeOK RootIsCanonical RootCommitsToEntries
PROPERTIES ImplementsTrieMap
