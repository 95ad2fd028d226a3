-------------------------------- MODULE Lists --------------------------------
(***************************************************************************)
(* The loops of the program over a list: append what passes a filter, stop *)
(* at the first error.                                                     *)
(***************************************************************************)
EXTENDS Naturals, Sequences, SequencesExt

IsList(s) == s \in Seq(ToSet(s))

\* What has been appended after each number of rounds.
Picked(s, T) ==
  LET f[i \in 0..Len(s)] ==
        IF i = 0 THEN <<>> ELSE IF s[i] \in T THEN Append(f[i - 1], s[i]) ELSE f[i - 1]
  IN f

\* The elements of s that are in T, in the order of s.
Only(s, T) == Picked(s, T)[Len(s)]

\* The code of a check that found nothing, and the first fault of a sequence of
\* checks.
Fine == ""
FirstFault(faults) ==
  LET i == SelectInSeq(faults, LAMBDA f : f # Fine) IN IF i = 0 THEN Fine ELSE faults[i]
=============================================================================
