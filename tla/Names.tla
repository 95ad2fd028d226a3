-------------------------------- MODULE Names --------------------------------
(***************************************************************************)
(* The names the compiler gives to proxies and groups.  A name is a        *)
(* sequence of pieces, so that concatenation and the collisions it makes   *)
(* ("A" with its suffix "-2" is the name "A-2" another node came with) are *)
(* those of the strings of the program.                                    *)
(***************************************************************************)
EXTENDS Naturals, Sequences, SequencesExt, Lists

DIRECT == <<"DIRECT">>
REJECT == <<"REJECT">>
Builtin == {DIRECT, REJECT}
AllSubs == <<"@all">>

\* The numerals a name may get: the loops of the code are bounded by them.
Numerals == <<"1", "2", "3", "4", "5", "6", "7", "8", "9">>

WithSuffix(base, n) == base \o <<"-", Numerals[n]>>

\* The n-th name the naming loops try: the base itself, then base-2, base-3...
Candidate(base, n) == IF n = 1 THEN base ELSE WithSuffix(base, n)

AutoGroup(custom) == <<"CHAIN", "-">> \o custom
HasAutoPrefix(name) == IsPrefix(AutoGroup(<<>>), name)

Via(custom, sub) == custom \o <<" via ">> \o sub

\* A regular expression is one piece: it matches the names that contain it.
Matches(regex, name) == \E i \in DOMAIN name : name[i] = regex

\* '=' breaks the formats of Surge and its kin.
Compatible(name) == ReplaceAll(name, "=", "-")

BaseName(node) ==
  Compatible(IF node.name = <<>> THEN <<node.host, ":8388">> ELSE node.name)
=============================================================================
