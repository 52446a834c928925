CONSTANTS
  None = None
  linux = linux
  darwin = darwin
  legacy = legacy
  arm = arm
  amd = amd
  mac = mac
  mOld = mOld
  mLegacy = mLegacy
  Publisher = {arm, amd}
  Platform = {linux, darwin, legacy}
  Manifest = {"m1", "m2", mOld, mLegacy}
  Ref = {"sig", "sbom"}
  PlatformOf <- TwoPlatformOf
  ManifestOf <- TwoManifestOf
  RefsOf <- TwoRefsOf
  SeedIndex <- TwoSeedIndex
  SeedTags <- TwoSeedTags
  Environments <- FlakyEnvironments
  MaxAttempts = 2
  MaxReruns = 0
SPECIFICATION Spec
CHECK_DEADLOCK FALSE
INVARIANT LegacySurvives
