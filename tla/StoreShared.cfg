CONSTANTS
  None = None
  one = one
  two = two
  cuda = cuda
  plain = plain
  bytes = bytes
  other = other
  Installer = {one, two}
  me = me
  you = you
  Viewer = {me, you}
  Dists = {TRUE, FALSE}
  Raw = {"1"}
  Variant = {cuda, plain}
  Digest = {bytes, other}
  Soname = {"so"}
  Platform = {"linux"}
  Published <- Tags
  Provides <- Sonames
  PlatformOf <- Platforms
  Asks <- AnyAsks
  Seeds <- SomeSeeds
  Wanted <- Builds
SYMMETRY Interchangeable
SPECIFICATION Spec
CHECK_DEADLOCK FALSE
INVARIANTS InstalledWhole Answered ViewKept
PROPERTY OnlyGrows
