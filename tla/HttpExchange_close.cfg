SPECIFICATION Spec
CONSTANTS
  Requests <- MCRequests
  HeadSize = 2
  FileSize <- MCFileSize
  MaxRequests = 2
INVARIANT AnswerComesFirst
CHECK_DEADLOCK FALSE
