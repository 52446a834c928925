CONSTANTS
  None = None
  us = us
  retired = retired
  alice = alice
  leaked = leaked
  bytes = bytes
  other = other
  m1 = m1
  m2 = m2
  hollow = hollow
  factory = factory
  Key = {us, retired, alice, leaked}
  Digest = {bytes, other}
  Manifest = {m1, hollow}
  LayerOf <- Layers
  Ref <- SomeRefs
  Builder = {factory}
  DefaultKeys = {us, retired}
  RevokedKeys = {leaked}
  Envs <- SomeEnvs
  Questions <- SomeQuestions
  MaxTrustedKeys = 3
  MaxSignatures = 2
  MaxAttached <- Room
SPECIFICATION Spec
CHECK_DEADLOCK FALSE
INVARIANTS VerdictIsCount AcceptedStays
PROPERTY MirrorIsWhole
