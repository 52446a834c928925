CONSTANTS
  None = None
  Content <- Blobs
  Block = {"a", "b", "c", "x"}
  Retries = 2
  Environments <- AllEnvironments
SPECIFICATION FairSpec
CHECK_DEADLOCK FALSE
INVARIANTS ResumesAtEnd PiecesBelongTogether OnlySignedAccepted ServedWhenServiceable StagedOnce
PROPERTY FetchEnds
