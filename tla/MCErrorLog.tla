---------------------------- MODULE MCErrorLog ----------------------------
(* Instances of ErrorLog for TLC. *)
EXTENDS ErrorLogRefines, TLC

CONSTANTS w1, w2, x1, x2, c1, c2

OneWriter == {w1}
TwoWriters == {w1, w2}
OneExporter == {x1}
TwoExporters == {x1, x2}
OneChecker == {c1}
TwoCheckers == {c1, c2}
Nobody == {}

Symmetry == Permutations(Writers) \cup Permutations(Exporters) \cup Permutations(Checkers)
=============================================================================
