----------------------------- MODULE MCSubFetch -----------------------------
(* Instances of SubFetch for TLC. *)
EXTENDS SubFetchProps, TLC

CONSTANTS a, b, c

ThreeURLs == {a, b, c}
\* Distinct, repeated, interleaved repeats, and a single one.
Lists == {<<a, b, c>>, <<a, a>>, <<a, b, a>>, <<a>>}
=============================================================================
