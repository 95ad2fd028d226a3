\* Right templates with newlines of both kinds.
CONSTANTS
  Worlds <- MixedWorlds
  MaxRedirects <- Two
  MaxBytes <- Bytes
SPECIFICATION FairSpec
INVARIANTS NewlineFollowsTemplate
