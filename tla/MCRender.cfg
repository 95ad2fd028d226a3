\* Names of every kind and up to three rulesets, for every target.
CONSTANTS
  Results <- MCResults
  Targets <- AllTargets
  NameLimit = 4
SPECIFICATION Spec
INVARIANTS TypeOK ReferencesAreDeclared DeclarationsDiffer  OnlyTheTargetRefuses
