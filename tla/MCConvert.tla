------------------------------ MODULE MCConvert ------------------------------
(* Instances of Convert for TLC. *)
EXTENDS ConvertProps, TLC

CONSTANTS r1, r2

OneRequest == {r1}
TwoRequests == {r1, r2}
AllKinds == {"list", "config", "surge"}
ConfigOnly == {"config"}

\* Every conversion with at most three broken stages.
UpToThree == {S \in SUBSET Stages : Cardinality(S) <= 3}
\* One failure of each class, failures of both goroutines, and none.
Mixed == {{}, {"validate"}, {"parse_sub", "fetch_profile"}, {"parse_profile"}, {"inject"}}

Symmetry == Permutations(Requests)
=============================================================================
