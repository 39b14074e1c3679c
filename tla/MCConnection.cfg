SPECIFICATION FairSpec
CONSTANTS
  Scripts <- MCScripts
  MaxHeaderBytes = 3
  MaxBufferedInputBytes = 5
  MaxResponsesPerDispatch = 2
  RecvBytes = 2
  SendBytes = 2
  Word = 16
  MaxGeneration = 2
INVARIANTS
  AnswersInOrder
  InputBounded
PROPERTIES
  RequestsAnswered
  ConnectionEnds
CHECK_DEADLOCK FALSE
