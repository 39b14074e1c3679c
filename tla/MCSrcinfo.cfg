SPECIFICATION ParseSpec
CONSTANTS
  Lines <- MCLines
  MaxLines <- MCMaxLines
INVARIANTS
  AcceptsExactly
  StatesItsOwn
  NothingLost
CHECK_DEADLOCK FALSE
