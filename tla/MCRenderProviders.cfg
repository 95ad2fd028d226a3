\* Up to three rulesets for Clash.
CONSTANTS
  Results <- SetResults
  Targets <- OnlyClash
  NameLimit = 4
SPECIFICATION Spec
INVARIANTS ProvidersDiffer
