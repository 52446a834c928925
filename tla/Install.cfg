CONSTANTS
  None = None
  Unset = Unset
  Bottle <- SomeBottles
  Soname <- SomeSonames
  Platform <- Platforms
  Machines <- SomeMachines
  Here <- AllHere
  Needs <- SomeNeeds
  Ships <- SomeShips
  Refs <- SomeRefs
  Seeds <- SomeSeeds
  Declares <- Declared
  MajorOf <- SomeMajors
  Hint <- SomeHints
  ProjectFor <- SomeProviders
  ImplicitFor <- SomeImplicit
  HostProvided = {"cuda"}
  DepsOf <- SomeDeps
  Ordered <- SomeOrder
  Floor <- SomeFloors
  Glibc = "glibc"
  Starts <- SomeStarts
  Outages <- SomeOutages
  MaxRounds = 4
  MaxTry = 2
  MaxInstalls = 2
  Bin = {"app", "tool", "xmlcat", "xmllint"}
  Provides <- SomeProvides
  Has <- SomeBins
  LoaderOf <- SomeLoaders
  NameOrder <- Sorted
  Shell <- AShell
SPECIFICATION Spec
CHECK_DEADLOCK FALSE
INVARIANTS NeverSilent NothingInVain KernelRuns StubsRun
PROPERTY Completes
