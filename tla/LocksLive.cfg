CONSTANTS
  Garbage = Garbage
  Words <- Strings
  Short <- Begin
  Digest <- Sum
  Version = "1"
  Tags <- AllTags
  Annotations <- SomeAnnotations
  Dirs <- SomeDirs
  Worlds <- SomeWorlds
  HashParts <- SomeParts
  Truth <- Sources
  Questions <- SomeQuestions
  NumberOf <- Numbered
  PrecisionOf <- Precise
  Upstreams <- Seconds
  MaxPushes = 1
  MaxAsked = 0
  Project = "p"
  LockFiles <- SomeFiles
SPECIFICATION LocksSpec
CHECK_DEADLOCK FALSE
INVARIANT LockedStaysLive
