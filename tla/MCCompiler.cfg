\* Up to four nodes with clashing names; every combination of a profile's parts.
CONSTANT Inputs <- MCInputs
SPECIFICATION Spec
INVARIANTS TypeOK NodesAreKept NamesAreDistinct ResultIsWellFormed DerivedAreReached RulesReadBack ParserGuards
