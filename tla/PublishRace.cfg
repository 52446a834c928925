CONSTANTS
  None = None
  linux = linux
  darwin = darwin
  legacy = legacy
  arm = arm
  amd = amd
  mac = mac
  mOld = mOld
  mLegacy = mLegacy
  Publisher = {arm, amd, mac}
  Platform = {"linux/arm64", "linux/amd64", "darwin/arm64"}
  Manifest = {"m1", "m2", "m3"}
  Ref = {}
  PlatformOf <- ThreePlatformOf
  ManifestOf <- ThreeManifestOf
  RefsOf <- ThreeRefsOf
  SeedIndex <- Empty
  SeedTags <- Empty
  Environments <- RaceEnvironments
  MaxAttempts = 3
  MaxReruns = 0
SPECIFICATION FairSpec
CHECK_DEADLOCK FALSE
INVARIANT ReconcileConverges
PROPERTY EventuallyListed
