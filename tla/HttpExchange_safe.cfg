SPECIFICATION Spec
CONSTANTS
  Requests <- MCRequests
  HeadSize = 2
  FileSize <- MCFileSize
  MaxRequests = 2
INVARIANT AnswersMatchRequests
INVARIANT WireIsAnswers
INVARIANT HeadsAreSent
INVARIANT OutputIsPushed
INVARIANT FilesAreUnmapped
INVARIANT Inv
PROPERTY AnswersAreWritten
CHECK_DEADLOCK FALSE
