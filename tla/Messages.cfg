SPECIFICATION Spec
CONSTANTS
  CleanLimit = 2
  Asked <- NoneOrTooMany
  MaxMessages = 5
INVARIANTS TypeOK StraysBounded LastShown
CHECK_DEADLOCK FALSE
