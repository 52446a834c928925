CONSTANTS
  None = None
  Anything = Anything
  Requested = Requested
  Project = {"a", "b", "c"}
  Sorted <- SortedNames
  Version = {1, 2, 3}
  Demand = {"old", "mid", "new"}
  Admits <- AdmitsSome
  Soname = {"s1", "s3"}
  Recipes <- Graphs
  Registries <- SomeRegistries
SPECIFICATION Spec
CHECK_DEADLOCK FALSE
INVARIANTS WalkComplete BlameRight EveryDemandMet OnlyForCause
