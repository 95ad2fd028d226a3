---------------------------- MODULE RenderProofs ----------------------------
(***************************************************************************)
(* Theorems about the renderers, for any results that keep the compiler's *)
(* promise (Compiled; proved of Compile in CompilerProofs).                *)
(*                                                                         *)
(* RenderInv is inductive.  PrintedInv says which blocks are printed and   *)
(* which checks are behind, pass by pass; the references and the lines are *)
(* read off it.  LabelsInv says that a ruleset has its base with a number  *)
(* counted so far: numbers of one base never come twice (LabelIsFresh),    *)
(* and two bases meet only if one is the other with a suffix               *)
(* (CandidatesDiffer).                                                     *)
(***************************************************************************)
EXTENDS RenderProps, ListProofs, FiniteSetTheorems, TLAPS

---------------------------------------------------------------------------
\* The input.

\* The input is a result, and stays.
InputInv == target \in Targets /\ res \in Results

\* What is rendered has what the compiler promises of a result.
LEMMA InputIsResult ==
  ASSUME InputInv
  PROVE  /\ target \in {"clash", "surge", "shadowrocket", "quanx"} /\ WellFormed(res)
         /\ IsList(res.proxies) /\ IsList(res.groups) /\ IsList(res.rulesets) /\ IsList(res.rules)
  BY ResultsAreCompiled, TargetsAreKnown DEF InputInv, WellFormed, IsResult

\* What depends on the input only stays as it is.
LEMMA InputFrame ==
  ASSUME UNCHANGED input
  PROVE  /\ ProxyNames' = ProxyNames /\ GroupLines' = GroupLines
         /\ \A name : NameFault(name)' = NameFault(name) /\ PolicyFault(name)' = PolicyFault(name)
         /\ \A r : RuleFault(r)' = RuleFault(r) /\ LabelBase(r)' = LabelBase(r)
         /\ \A r, label : RulesetFault(r, label)' = RulesetFault(r, label)
         /\ (Named' <=> Named) /\ (SuffixesAreFree' <=> SuffixesAreFree)
         /\ (ChainsSupported' <=> ChainsSupported)
  <1>1. target' = target /\ res' = res
    BY DEF input
  <1>2. \A name : ProxyName(name)' = ProxyName(name) /\ GroupName(name)' = GroupName(name) /\ Action(name)' = Action(name)
    BY <1>1 DEF ProxyName, GroupName, Quoted, Action
  <1>3. \A m : MemberName(m)' = MemberName(m)
    BY <1>1, <1>2 DEF MemberName
  <1>4. ProxyNames' = ProxyNames
    BY <1>1, <1>2 DEF ProxyNames
  <1>5. GroupLines' = GroupLines
    BY <1>1, <1>2, <1>3 DEF GroupLines, GroupLine
  <1>6. \A name : NameFault(name)' = NameFault(name) /\ PolicyFault(name)' = PolicyFault(name)
    BY <1>1 DEF NameFault, PolicyFault
  <1>7. \A r : RuleFault(r)' = RuleFault(r) /\ LabelBase(r)' = LabelBase(r)
    BY <1>1, <1>6 DEF RuleFault, LabelBase
  <1>8. \A r, label : RulesetFault(r, label)' = RulesetFault(r, label)
    BY <1>1, <1>6 DEF RulesetFault
  <1>9. (Named' <=> Named) /\ Bases' = Bases
    BY <1>1, <1>7 DEF Named, Bases
  <1>10. SuffixesAreFree' <=> SuffixesAreFree
    BY <1>9 DEF SuffixesAreFree
  <1>11. ChainsSupported' <=> ChainsSupported
    BY <1>1 DEF ChainsSupported
  <1>12. QED
    BY <1>4, <1>5, <1>6, <1>7, <1>8, <1>9, <1>10, <1>11

---------------------------------------------------------------------------
\* The checks.

\* The checks of the proxies give these codes, and none if every name is fine.
LEMMA ProxyChecks ==
  ASSUME IsList(res.proxies), \A i \in DOMAIN res.proxies : TypeFault(res.proxies[i]) = Fine,
         NEW code, code = FirstFault([i \in DOMAIN res.proxies |-> NameFault(res.proxies[i].name)]
                                     \o [i \in DOMAIN res.proxies |-> LineFault(res.proxies[i])])
  PROVE  /\ code \in {Fine, "SUB_PARSE_ERROR", "UNSUPPORTED_PLUGIN"}
         /\ code = Fine => \A i \in DOMAIN res.proxies :
              NameFault(res.proxies[i].name) = Fine /\ LineFault(res.proxies[i]) = Fine
  <1> DEFINE ps == res.proxies
             s == [i \in DOMAIN ps |-> NameFault(ps[i].name)]
             t == [i \in DOMAIN ps |-> LineFault(ps[i])]
  <1>1. Len(ps) \in Nat /\ DOMAIN ps = 1..Len(ps)
    BY ListDomain
  <1>2. \A i \in DOMAIN ps : s[i] = NameFault(ps[i].name) /\ t[i] = LineFault(ps[i])
    OBVIOUS
  <1>3. DOMAIN s = DOMAIN ps /\ DOMAIN t = DOMAIN ps
    OBVIOUS
  <1>4. s = [i \in 1..Len(ps) |-> s[i]] /\ t = [i \in 1..Len(ps) |-> t[i]]
    BY <1>1
  <1>5. code = FirstFault(s \o t)
    OBVIOUS
  <1> HIDE DEF s, t
  <1>6. IsList(s) /\ IsList(t)
    BY <1>1, <1>4, ListOfLen
  <1>7. /\ code \in ToSet(s) \cup ToSet(t) \cup {Fine}
        /\ code = Fine => (\A i \in DOMAIN s : s[i] = Fine) /\ \A i \in DOMAIN t : t[i] = Fine
    BY <1>5, <1>6, RowsOfChecks
  <1>8. \A i \in DOMAIN ps : NameFault(ps[i].name) \in {Fine, "SUB_PARSE_ERROR"}
    BY DEF NameFault
  <1>9. \A i \in DOMAIN ps : LineFault(ps[i]) \in {Fine, "SUB_PARSE_ERROR", "UNSUPPORTED_PLUGIN"}
    BY DEF LineFault, PluginFault, CredentialFault, Fine
  <1>10. ToSet(s) \cup ToSet(t) \subseteq {Fine, "SUB_PARSE_ERROR", "UNSUPPORTED_PLUGIN"}
    BY <1>2, <1>3, <1>8, <1>9 DEF ToSet
  <1>11. QED
    BY <1>2, <1>3, <1>7, <1>10

\* A policy name has one fault at most.
LEMMA PolicyCodes == \A name : PolicyFault(name) \in {Fine, "PROFILE_VALIDATE_ERROR"}
  BY DEF PolicyFault

\* The same for the checks of the groups, if no proxy is missing.
LEMMA GroupChecks ==
  ASSUME IsList(res.groups), NEW missing \in BOOLEAN,
         NEW code, code = FirstFault([i \in DOMAIN res.groups |-> PolicyFault(res.groups[i].name)]
                                     \o <<IF missing THEN "INVALID_ARGUMENT" ELSE Fine>>)
  PROVE  /\ ~missing => code \in {Fine, "PROFILE_VALIDATE_ERROR"}
         /\ code = Fine => \A i \in DOMAIN res.groups : PolicyFault(res.groups[i].name) = Fine
  <1> DEFINE gs == res.groups
             s == [i \in DOMAIN gs |-> PolicyFault(gs[i].name)]
             last == IF missing THEN "INVALID_ARGUMENT" ELSE Fine
             t == <<last>>
  <1>1. Len(gs) \in Nat /\ DOMAIN gs = 1..Len(gs)
    BY ListDomain
  <1>2. DOMAIN s = DOMAIN gs /\ \A i \in DOMAIN gs : s[i] = PolicyFault(gs[i].name)
    OBVIOUS
  <1>3. s = [i \in 1..Len(gs) |-> s[i]]
    BY <1>1
  <1>4. code = FirstFault(s \o t)
    OBVIOUS
  <1>5. t \in Seq({last}) /\ ToSet(t) = {last}
    <2>1. t \in Seq({last}) /\ DOMAIN t = {1} /\ t[1] = last
      OBVIOUS
    <2>2. QED
      BY <2>1 DEF ToSet
  <1>6. ~missing => last = Fine
    OBVIOUS
  <1> HIDE DEF s, t, last
  <1>7. IsList(s) /\ IsList(t)
    BY <1>1, <1>3, <1>5, ListOfLen, SequenceIsList
  <1>8. /\ code \in ToSet(s) \cup ToSet(t) \cup {Fine}
        /\ code = Fine => \A i \in DOMAIN s : s[i] = Fine
    BY <1>4, <1>7, RowsOfChecks
  <1>9. ToSet(s) \subseteq {Fine, "PROFILE_VALIDATE_ERROR"}
    BY <1>2, PolicyCodes DEF ToSet
  <1>10. QED
    BY <1>2, <1>5, <1>6, <1>8, <1>9

\* And for those of the rules.
LEMMA RuleChecks ==
  ASSUME IsList(res.rules), NEW code, code = FirstFault([i \in DOMAIN res.rules |-> RuleFault(res.rules[i])])
  PROVE  /\ code \in {Fine, "PROFILE_VALIDATE_ERROR"}
         /\ code = Fine => \A i \in DOMAIN res.rules : RuleFault(res.rules[i]) = Fine
  <1> DEFINE rs == res.rules
             s == [i \in DOMAIN rs |-> RuleFault(rs[i])]
  <1>1. Len(rs) \in Nat /\ DOMAIN rs = 1..Len(rs)
    BY ListDomain
  <1>2. DOMAIN s = DOMAIN rs /\ \A i \in DOMAIN rs : s[i] = RuleFault(rs[i])
    OBVIOUS
  <1>3. s = [i \in 1..Len(rs) |-> s[i]]
    BY <1>1
  <1>4. code = FirstFault(s)
    OBVIOUS
  <1>5. \A i \in DOMAIN rs : RuleFault(rs[i]) \in {Fine, "PROFILE_VALIDATE_ERROR"}
    BY PolicyCodes DEF RuleFault
  <1> HIDE DEF s
  <1>6. IsList(s)
    BY <1>1, <1>3, ListOfLen
  <1>7. ToSet(s) \subseteq {Fine, "PROFILE_VALIDATE_ERROR"}
    BY <1>2, <1>5 DEF ToSet
  <1>8. code \in ToSet(s) \cup {Fine} /\ (code = Fine => \A i \in DOMAIN s : s[i] = Fine)
    BY <1>4, <1>6, RowOfChecks
  <1>9. QED
    BY <1>2, <1>7, <1>8

\* Behind Compile the checks of references never fail: identities are unique,
\* a derived proxy goes through a node, and so does no node.
LEMMA InputIsValid ==
  ASSUME InputInv
  PROVE  ValidateRenderInput = Fine
  <1> DEFINE ps == res.proxies  Vias == {p.via : p \in ToSet(ps)} \ {NoProxy}
  <1>1. IDsDiffer(res) /\ ViasAreSubs(res)
    BY InputIsResult DEF WellFormed
  <1>2. \A i, j \in DOMAIN ps : ps[i].id = ps[j].id => i = j
    BY <1>1 DEF IDsDiffer, IsInjective
  <1>3. \A i \in DOMAIN ps : ps[i].via # NoProxy => \E j \in DOMAIN ps : ps[j].id = ps[i].via /\ ps[j].via = NoProxy
    BY <1>1 DEF ViasAreSubs
  <1>4. \A p \in ToSet(ps) : \E i \in DOMAIN ps : p = ps[i]
    BY DEF ToSet
  <1>5. \A v \in Vias : \E j \in DOMAIN ps : ps[j].id = v /\ ps[j].via = NoProxy
    BY <1>3, <1>4
  <1>6. Vias \subseteq IDsOf(ps)
    BY <1>5 DEF IDsOf
  <1>7. ~\E p \in ToSet(ps) : p.id \in Vias /\ p.via # NoProxy
    BY <1>2, <1>4, <1>5
  <1>8. QED
    BY <1>1, <1>6, <1>7 DEF ValidateRenderInput

\* Every proxy a group lists is in the result.
LEMMA NothingIsMissing ==
  ASSUME InputInv
  PROVE  ~\E g \in ToSet(res.groups) : \E m \in ToSet(g.members) : m.kind = "proxy" /\ m.id \notin IDsOf(res.proxies)
  <1> SUFFICES ASSUME NEW g \in ToSet(res.groups), NEW m \in ToSet(g.members), m.kind = "proxy" PROVE m.id \in IDsOf(res.proxies)
    OBVIOUS
  <1>1. PICK i \in DOMAIN res.groups : g = res.groups[i]
    BY DEF ToSet
  <1>2. PICK j \in DOMAIN g.members : m = g.members[j]
    BY DEF ToSet
  <1>3. MembersExist(res)
    BY InputIsResult DEF WellFormed
  <1>4. QED
    BY <1>1, <1>2, <1>3 DEF MembersExist

---------------------------------------------------------------------------
\* The names of rulesets.

\* The name of a file comes out as a list.
LEMMA SanitizedIsList ==
  ASSUME NEW stem, IsList(stem)
  PROVE  IsList(Sanitized(stem))
  <1> DEFINE safe == ReplaceAll(stem, ".", "_")
             solid == {i \in DOMAIN safe : safe[i] \notin {"_", "-"}}
             K == {i \in DOMAIN safe : (\E j \in solid : j <= i) /\ \E j \in solid : i <= j}
             at == [i \in DOMAIN safe |-> i]
             kept == Only(at, K)
             length == IF Len(kept) < NameLimit THEN Len(kept) ELSE NameLimit
             out == [i \in 1..length |-> safe[kept[i]]]
  <1>1. Len(stem) \in Nat /\ DOMAIN safe = 1..Len(stem)
    BY ListDomain DEF ReplaceAll
  <1>2. Sanitized(stem) = out
    BY DEF Sanitized
  <1> HIDE DEF K, safe
  <1>3. at = [i \in 1..Len(stem) |-> at[i]]
    BY <1>1
  <1> HIDE DEF at
  <1>4. IsList(at)
    BY <1>1, <1>3, ListOfLen
  <1>5. IsList(kept)
    BY <1>4, OnlyIsList
  <1> HIDE DEF kept
  <1>6. length \in Nat
    BY <1>5, ListDomain, NamesAreCut
  <1> HIDE DEF length
  <1>7. out = [i \in 1..length |-> out[i]]
    OBVIOUS
  <1> HIDE DEF out
  <1>8. IsList(out)
    BY <1>6, <1>7, ListOfLen
  <1>9. QED
    BY <1>2, <1>8

\* What a ruleset is named after is a list, one of the bases.
LEMMA BaseIsList ==
  ASSUME InputInv, NEW i \in DOMAIN res.rulesets
  PROVE  IsList(LabelBase(res.rulesets[i])) /\ LabelBase(res.rulesets[i]) \in Bases
  <1> DEFINE rs == res.rulesets[i]
  <1>1. rs \in ToSet(res.rulesets)
    BY DEF ToSet
  <1>2. ActionsExist(res) /\ IsResult(res)
    BY InputIsResult DEF WellFormed
  <1>3. rs.action \in NamesOf(res.groups) \cup Builtin
    BY <1>1, <1>2 DEF ActionsExist
  <1>4. \A g \in ToSet(res.groups) : IsList(g.name)
    BY <1>2 DEF IsResult
  <1>5. \A x \in NamesOf(res.groups) : IsList(x)
    BY <1>4 DEF NamesOf, ToSet
  <1>6. IsList(DIRECT) /\ IsList(REJECT) /\ IsList(<<"ruleset">>)
    <2>1. DIRECT \in Seq({"DIRECT"}) /\ REJECT \in Seq({"REJECT"}) /\ <<"ruleset">> \in Seq({"ruleset"})
      BY DEF DIRECT, REJECT
    <2>2. QED
      BY <2>1, SequenceIsList
  <1>7. IsList(rs.action)
    BY <1>3, <1>5, <1>6 DEF Builtin
  <1>8. IsList(rs.url.stem)
    BY <1>1, UrlsHaveStems DEF InputInv
  <1>9. IsList(Sanitized(rs.url.stem))
    BY <1>8, SanitizedIsList
  <1>10. IsList(LabelBase(rs))
    BY <1>6, <1>7, <1>9 DEF LabelBase
  <1>11. QED
    BY <1>10 DEF Bases

\* The numerals differ.
LEMMA NumeralsDiffer ==
  Len(Numerals) = 9 /\ \A m, l \in 1..Len(Numerals) : Numerals[m] = Numerals[l] => m = l
  <1>1. Len(Numerals) = 9
    BY DEF Numerals
  <1>2. \A m, l \in 1..9 : Numerals[m] = Numerals[l] => m = l
    BY DEF Numerals
  <1>3. QED
    BY <1>1, <1>2

\* A name with a suffix is two pieces longer and tells its base and its number.
LEMMA Suffixed ==
  ASSUME NEW b, IsList(b), NEW m
  PROVE  /\ Len(b) \in Nat /\ Len(WithSuffix(b, m)) = Len(b) + 2
         /\ \A i \in 1..Len(b) : WithSuffix(b, m)[i] = b[i]
         /\ WithSuffix(b, m)[Len(b) + 2] = Numerals[m]
  <1> DEFINE S == ToSet(b) \cup {"-", Numerals[m]}
             c == <<"-", Numerals[m]>>
             r == WithSuffix(b, m)
  <1>1. b \in Seq(S) /\ c \in Seq(S)
    <2>1. b \in Seq(ToSet(b))
      BY DEF IsList
    <2>2. QED
      BY <2>1
  <1>2. Len(c) = 2 /\ c[2] = Numerals[m]
    OBVIOUS
  <1>3. r = b \o c
    BY DEF WithSuffix
  <1>4. Len(b) \in Nat
    BY ListDomain
  <1> HIDE DEF S, c, r
  <1>5. /\ Len(r) = Len(b) + Len(c)
        /\ \A i \in 1..Len(b) : r[i] = b[i]
        /\ \A i \in 1..Len(c) : r[Len(b) + i] = c[i]
    BY <1>1, <1>3, BehindPrefix
  <1>6. 2 \in 1..Len(c)
    BY <1>2
  <1>7. r[Len(b) + 2] = Numerals[m] /\ Len(r) = Len(b) + 2
    BY <1>2, <1>5, <1>6
  <1>8. QED
    BY <1>4, <1>5, <1>7 DEF r

\* Neither name is the other one with a suffix.
Apart(b, c) == \A m \in 2..Len(Numerals) : b # WithSuffix(c, m) /\ c # WithSuffix(b, m)

\* Two names from the naming loop are the same only if base and number are, as
\* long as neither base is the other one with a suffix.
LEMMA CandidatesDiffer ==
  ASSUME NEW b, NEW c, IsList(b), IsList(c), b = c \/ Apart(b, c),
         NEW m \in 1..Len(Numerals), NEW l \in 1..Len(Numerals), Candidate(b, m) = Candidate(c, l)
  PROVE  b = c /\ m = l
  <1>0. Len(Numerals) = 9
    BY NumeralsDiffer
  <1>1. CASE m = 1 /\ l = 1
    BY <1>1 DEF Candidate
  <1>2. CASE m # 1 /\ l # 1
    <2>1. WithSuffix(b, m) = WithSuffix(c, l)
      BY <1>2 DEF Candidate
    <2>2. /\ Len(b) \in Nat /\ Len(WithSuffix(b, m)) = Len(b) + 2
          /\ \A i \in 1..Len(b) : WithSuffix(b, m)[i] = b[i]
          /\ WithSuffix(b, m)[Len(b) + 2] = Numerals[m]
      BY Suffixed
    <2>3. /\ Len(c) \in Nat /\ Len(WithSuffix(c, l)) = Len(c) + 2
          /\ \A i \in 1..Len(c) : WithSuffix(c, l)[i] = c[i]
          /\ WithSuffix(c, l)[Len(c) + 2] = Numerals[l]
      BY Suffixed
    <2>4. Len(b) = Len(c)
      BY <2>1, <2>2, <2>3
    <2>5. \A i \in 1..Len(b) : b[i] = c[i]
      BY <2>1, <2>2, <2>3, <2>4
    <2>6. b = c
      <3>1. b \in Seq(ToSet(b)) /\ c \in Seq(ToSet(c))
        BY DEF IsList
      <3>2. QED
        BY <2>4, <2>5, <3>1
    <2>7. m = l
      BY <2>1, <2>2, <2>3, <2>4, NumeralsDiffer
    <2>8. QED
      BY <2>6, <2>7
  <1>3. CASE m = 1 /\ l # 1
    <2>1. b = WithSuffix(c, l) /\ l \in 2..Len(Numerals)
      BY <1>0, <1>3 DEF Candidate
    <2>2. Len(b) = Len(c) + 2 /\ Len(c) \in Nat
      BY <2>1, Suffixed
    <2>3. QED
      BY <2>1, <2>2 DEF Apart
  <1>4. CASE m # 1 /\ l = 1
    <2>1. c = WithSuffix(b, m) /\ m \in 2..Len(Numerals)
      BY <1>0, <1>4 DEF Candidate
    <2>2. Len(c) = Len(b) + 2 /\ Len(b) \in Nat
      BY <2>1, Suffixed
    <2>3. QED
      BY <2>1, <2>2 DEF Apart
  <1>5. QED
    BY <1>1, <1>2, <1>3, <1>4

\* SuffixesAreFree is about the bases of the result.
LEMMA BasesAreApart ==
  ASSUME SuffixesAreFree, NEW b \in Bases, NEW c \in Bases
  PROVE  Apart(b, c)
  BY DEF SuffixesAreFree, Apart

\* Whoever asked for a base is among the labels.
LEMMA AskedForIsFinite ==
  ASSUME IsList(labels), NEW base
  PROVE  /\ IsFiniteSet(AskedFor(base)) /\ Cardinality(AskedFor(base)) \in Nat
         /\ Cardinality(AskedFor(base)) <= Len(labels)
         /\ Cardinality(AskedFor(base)) = 0 <=> AskedFor(base) = {}
  <1>1. Len(labels) \in Nat /\ DOMAIN labels = 1..Len(labels)
    BY ListDomain
  <1>2. IsFiniteSet(1..Len(labels)) /\ Cardinality(1..Len(labels)) = Len(labels)
    <2> DEFINE n == Len(labels)
    <2>1. n \in Int /\ 1 \in Int /\ n >= 0
      BY <1>1
    <2> HIDE DEF n
    <2>2. IsFiniteSet(1..n) /\ Cardinality(1..n) = IF 1 > n THEN 0 ELSE n - 1 + 1
      BY <2>1, FS_Interval
    <2>3. QED
      BY <2>1, <2>2 DEF n
  <1>3. AskedFor(base) \subseteq 1..Len(labels)
    BY <1>1 DEF AskedFor
  <1>4. IsFiniteSet(AskedFor(base)) /\ Cardinality(AskedFor(base)) <= Len(labels)
    BY <1>2, <1>3, FS_Subset
  <1>5. QED
    BY <1>4, FS_CardinalityType, FS_EmptySet

\* What naming the next ruleset changes.
LEMMA NextLabel ==
  ASSUME InputInv, TypeOK, LabelsInv, NameRuleset
  PROVE  LET i == Len(labels) + 1
             rs == res.rulesets[i]
             label == IF Named THEN Label(LabelBase(rs)) ELSE rs.url.id IN
         /\ UNCHANGED input /\ i \in DOMAIN res.rulesets /\ i \in Nat
         /\ labels' = Append(labels, label) /\ IsList(labels) /\ IsList(labels')
         /\ DOMAIN labels = 1..Len(labels) /\ Len(labels) \in Nat
         /\ DOMAIN labels' = 1..i /\ Len(labels') = i /\ labels'[i] = label
         /\ \A j \in 1..Len(labels) : labels'[j] = labels[j] /\ j \in DOMAIN res.rulesets
         /\ Len(res.rulesets) <= Len(Numerals) /\ i <= Len(res.rulesets)
  <1> DEFINE i == Len(labels) + 1
             rs == res.rulesets[i]
             label == IF Named THEN Label(LabelBase(rs)) ELSE rs.url.id
  <1>1. /\ UNCHANGED input /\ labels' = Append(labels, label) /\ Len(labels) < Len(res.rulesets)
    BY DEF NameRuleset
  <1>2. IsList(labels) /\ IsList(res.rulesets)
    BY InputIsResult DEF LabelsInv
  <1> HIDE DEF label
  <1>3. /\ IsList(Append(labels, label)) /\ Len(Append(labels, label)) = Len(labels) + 1 /\ Len(labels) \in Nat
        /\ DOMAIN labels = 1..Len(labels) /\ DOMAIN Append(labels, label) = 1..(Len(labels) + 1)
        /\ Append(labels, label)[Len(labels) + 1] = label
        /\ \A j \in 1..Len(labels) : Append(labels, label)[j] = labels[j]
    BY <1>2, OneMore
  <1>4. DOMAIN res.rulesets = 1..Len(res.rulesets) /\ Len(res.rulesets) \in Nat
    BY <1>2, ListDomain
  <1>5. Len(res.rulesets) <= Len(Numerals)
    BY RulesetsAreNumbered DEF InputInv
  <1>6. i \in DOMAIN res.rulesets /\ i \in Nat /\ i <= Len(res.rulesets) /\ \A j \in 1..Len(labels) : j \in DOMAIN res.rulesets
    BY <1>1, <1>3, <1>4
  <1>7. QED
    BY <1>1, <1>2, <1>3, <1>5, <1>6 DEF label

\* One more has asked for its base.
LEMMA OneMoreAsked ==
  ASSUME InputInv, TypeOK, LabelsInv, NameRuleset, NEW b
  PROVE  LET base == LabelBase(res.rulesets[Len(labels) + 1]) IN
         /\ AskedFor(b)' = IF b = base THEN AskedFor(b) \cup {Len(labels) + 1} ELSE AskedFor(b)
         /\ Cardinality(AskedFor(b)') = IF b = base THEN Cardinality(AskedFor(b)) + 1 ELSE Cardinality(AskedFor(b))
  <1> DEFINE i == Len(labels) + 1
             base == LabelBase(res.rulesets[i])
  <1>1. /\ UNCHANGED input /\ DOMAIN labels = 1..Len(labels) /\ DOMAIN labels' = 1..i /\ Len(labels) \in Nat /\ IsList(labels)
    BY NextLabel
  <1>2. res' = res /\ \A r : LabelBase(r)' = LabelBase(r)
    BY <1>1, InputFrame DEF input
  <1>3. AskedFor(b)' = {j \in 1..i : LabelBase(res.rulesets[j]) = b}
    BY <1>1, <1>2 DEF AskedFor
  <1>4. AskedFor(b) = {j \in 1..Len(labels) : LabelBase(res.rulesets[j]) = b}
    BY <1>1 DEF AskedFor
  <1>5. 1..i = 1..Len(labels) \cup {i} /\ i \notin 1..Len(labels)
    BY <1>1
  <1>6. AskedFor(b)' = IF b = base THEN AskedFor(b) \cup {i} ELSE AskedFor(b)
    BY <1>3, <1>4, <1>5
  <1>7. i \notin AskedFor(b)
    BY <1>4, <1>5
  <1>8. IsFiniteSet(AskedFor(b))
    BY <1>1, AskedForIsFinite
  <1>9. Cardinality(AskedFor(b) \cup {i}) = Cardinality(AskedFor(b)) + 1
    BY <1>7, <1>8, FS_AddElement
  <1>10. QED
    BY <1>6, <1>9

\* The counts say how many have asked.
CountsInv == Named => \A base \in DOMAIN counts : counts[base] = Cardinality(AskedFor(base))

\* CountOf is the number of labels that have asked for a base.
LEMMA CountIs ==
  ASSUME TypeOK, LabelsInv, Named, NEW base
  PROVE  /\ CountOf(base) = Cardinality(AskedFor(base)) /\ CountOf(base) \in Nat /\ CountOf(base) <= Len(labels)
         /\ base \in DOMAIN counts => counts[base] = CountOf(base)
  <1>1. IsList(labels) /\ DOMAIN counts = {LabelBase(res.rulesets[i]) : i \in DOMAIN labels}
    BY DEF LabelsInv
  <1>2. /\ Cardinality(AskedFor(base)) \in Nat /\ Cardinality(AskedFor(base)) <= Len(labels)
        /\ Cardinality(AskedFor(base)) = 0 <=> AskedFor(base) = {}
    BY <1>1, AskedForIsFinite
  <1>3. base \notin DOMAIN counts => AskedFor(base) = {}
    BY <1>1 DEF AskedFor
  <1>4. base \in DOMAIN counts => counts[base] = Cardinality(AskedFor(base))
    BY DEF TypeOK
  <1>5. QED
    BY <1>2, <1>3, <1>4 DEF CountOf

\* The counts follow when a ruleset is named.
LEMMA CountsStep ==
  ASSUME InputInv, TypeOK, LabelsInv, NameRuleset
  PROVE  CountsInv'
  <1> SUFFICES ASSUME Named' PROVE \A b \in DOMAIN counts' : counts'[b] = Cardinality(AskedFor(b)')
    BY DEF CountsInv
  <1> DEFINE base == LabelBase(res.rulesets[Len(labels) + 1])
  <1>1. Named
    BY NextLabel, InputFrame
  <1>2. counts' = Counted(base)
    BY <1>1 DEF NameRuleset
  <1> HIDE DEF base
  <1>3. /\ DOMAIN counts' = DOMAIN counts \cup {base}
        /\ \A b \in DOMAIN counts' : counts'[b] = IF b = base THEN CountOf(b) + 1 ELSE counts[b]
    BY <1>2 DEF Counted
  <1>4. ASSUME NEW b \in DOMAIN counts' PROVE counts'[b] = Cardinality(AskedFor(b)')
    <2>1. Cardinality(AskedFor(b)') = IF b = base THEN Cardinality(AskedFor(b)) + 1 ELSE Cardinality(AskedFor(b))
      BY OneMoreAsked DEF base
    <2>2. CountOf(b) = Cardinality(AskedFor(b)) /\ (b \in DOMAIN counts => counts[b] = CountOf(b))
      BY <1>1, CountIs
    <2>3. QED
      BY <1>3, <2>1, <2>2
  <1>5. QED
    BY <1>4

\* The new label has a number no earlier label of its base has, and no label of
\* another base is like it if suffixes are free.
LEMMA LabelIsFresh ==
  ASSUME InputInv, TypeOK, LabelsInv, NameRuleset, Named, SuffixesAreFree, NEW j \in 1..Len(labels)
  PROVE  labels[j] # labels'[Len(labels) + 1]
  <1> DEFINE i == Len(labels) + 1
             base == LabelBase(res.rulesets[i])
             old == LabelBase(res.rulesets[j])
  <1>1. /\ i \in DOMAIN res.rulesets /\ i \in Nat /\ DOMAIN labels = 1..Len(labels) /\ Len(labels) \in Nat
        /\ labels'[i] = Label(base) /\ j \in DOMAIN res.rulesets
        /\ Len(res.rulesets) <= Len(Numerals) /\ i <= Len(res.rulesets)
    BY NextLabel
  <1>2. Label(base) = Candidate(base, CountOf(base) + 1)
    BY DEF Label
  <1>3. PICK m \in 1..counts[old] : labels[j] = Candidate(old, m)
    BY <1>1 DEF LabelsInv
  <1>4. IsList(base) /\ IsList(old) /\ base \in Bases /\ old \in Bases
    BY <1>1, BaseIsList
  <1> HIDE DEF base
  <1>5. old \in DOMAIN counts
    BY <1>1 DEF LabelsInv
  <1> HIDE DEF old
  <1>6. counts[old] = CountOf(old) /\ CountOf(old) \in Nat /\ CountOf(old) <= Len(labels)
    BY <1>5, CountIs
  <1>7. CountOf(base) \in Nat /\ CountOf(base) <= Len(labels)
    BY CountIs
  <1>8. Len(res.rulesets) \in Nat /\ Len(Numerals) = 9
    BY InputIsResult, ListDomain, NumeralsDiffer
  <1>9. m \in 1..Len(Numerals)
    BY <1>1, <1>6, <1>8
  <1> DEFINE n == CountOf(base) + 1
  <1>10. n \in 1..Len(Numerals)
    <2>1. Len(labels) + 1 <= Len(res.rulesets) /\ Len(labels) \in Nat
      BY <1>1
    <2>2. \A c, l, r \in Nat : c <= l /\ l + 1 <= r /\ r <= 9 => c + 1 \in 1..9
      OBVIOUS
    <2>3. QED
      BY <1>1, <1>7, <1>8, <2>1, <2>2
  <1>14. n # m \/ old # base
    <2>1. ASSUME old = base PROVE n # m
      BY <1>3, <1>6, <1>7, <2>1
    <2>2. QED
      BY <2>1
  <1>15. labels'[i] = Candidate(base, n)
    BY <1>1, <1>2
  <1> HIDE DEF n
  <1>11. old = base \/ Apart(old, base)
    BY <1>4, BasesAreApart
  <1>12. ASSUME labels[j] = labels'[i] PROVE FALSE
    <2>1. Candidate(old, m) = Candidate(base, n)
      BY <1>3, <1>12, <1>15
    <2> DEFINE Differ(b, c, x, y) == Candidate(b, x) = Candidate(c, y) => b = c /\ x = y
    <2>4. \A b, c : IsList(b) /\ IsList(c) /\ (b = c \/ Apart(b, c)) =>
            \A x, y \in 1..Len(Numerals) : Differ(b, c, x, y)
      BY CandidatesDiffer
    <2>2. old = base /\ m = n
      <3>1. \A x, y \in 1..Len(Numerals) : Differ(old, base, x, y)
        <4> HIDE DEF Differ
        <4>1. QED
          BY <1>4, <1>11, <2>4
      <3>2. QED
        BY <1>9, <1>10, <2>1, <3>1
    <2>3. QED
      BY <1>14, <2>2
  <1>13. QED
    BY <1>12

\* So does what is known of the labels.
LEMMA LabelsStep ==
  ASSUME InputInv, TypeOK, LabelsInv, NameRuleset
  PROVE  LabelsInv'
  <1> DEFINE i == Len(labels) + 1
             rs == res.rulesets[i]
             base == LabelBase(rs)
             label == IF Named THEN Label(base) ELSE rs.url.id
  <1>1. /\ UNCHANGED input /\ i \in DOMAIN res.rulesets /\ i \in Nat
        /\ labels' = Append(labels, label) /\ IsList(labels')
        /\ DOMAIN labels = 1..Len(labels) /\ Len(labels) \in Nat
        /\ DOMAIN labels' = 1..i /\ Len(labels') = i /\ labels'[i] = label
        /\ \A j \in 1..Len(labels) : labels'[j] = labels[j] /\ j \in DOMAIN res.rulesets
        /\ Len(res.rulesets) <= Len(Numerals) /\ i <= Len(res.rulesets)
    BY NextLabel
  <1>2. 1..i = 1..Len(labels) \cup {i} /\ i \notin 1..Len(labels)
    BY <1>1
  <1>3. /\ res' = res /\ \A r : LabelBase(r)' = LabelBase(r)
        /\ \A r, l : RulesetFault(r, l)' = RulesetFault(r, l)
        /\ (Named' <=> Named) /\ (SuffixesAreFree' <=> SuffixesAreFree)
    BY <1>1, InputFrame DEF input
  <1>4. stage = "rulesets" /\ stage' \in {"rulesets", "failed"} /\ (stage' # "failed" => RulesetFault(rs, label) = Fine)
    BY DEF NameRuleset, Pass
  <1> HIDE DEF label
  <1>5. IsList(labels') /\ (stage' \in {"validate", "proxies", "groups"} => labels' = <<>> /\ counts' = <<>>)
    BY <1>1, <1>4
  <1>6. stage' # "failed" => \A j \in DOMAIN labels' : RulesetFault(res.rulesets[j], labels'[j]) = Fine
    <2> SUFFICES ASSUME stage' # "failed", NEW j \in DOMAIN labels' PROVE RulesetFault(res.rulesets[j], labels'[j]) = Fine
      OBVIOUS
    <2>1. CASE j = i
      BY <1>1, <1>4, <2>1
    <2>2. CASE j \in 1..Len(labels)
      BY <1>1, <1>4, <2>2 DEF LabelsInv
    <2>3. QED
      BY <1>1, <1>2, <2>1, <2>2
  <1>7. ~Named' => \A j \in DOMAIN labels' : labels'[j] = res'.rulesets[j].url.id
    <2> SUFFICES ASSUME ~Named, NEW j \in DOMAIN labels' PROVE labels'[j] = res.rulesets[j].url.id
      BY <1>3
    <2>1. CASE j = i
      BY <1>1, <2>1 DEF label
    <2>2. CASE j \in 1..Len(labels)
      BY <1>1, <2>2 DEF LabelsInv
    <2>3. QED
      BY <1>1, <1>2, <2>1, <2>2
  <1>8. ASSUME Named
        PROVE  /\ DOMAIN counts' = {LabelBase(res.rulesets[j]) : j \in DOMAIN labels'}
               /\ \A j \in DOMAIN labels' : LET b == LabelBase(res.rulesets[j]) IN
                    \E m \in 1..counts'[b] : labels'[j] = Candidate(b, m)
               /\ SuffixesAreFree => IsInjective(labels')
    <2>1. counts' = Counted(base)
      BY <1>8 DEF NameRuleset
    <2>2. label = Candidate(base, CountOf(base) + 1)
      BY <1>8 DEF label, Label
    <2>3. DOMAIN counts = {LabelBase(res.rulesets[j]) : j \in 1..Len(labels)}
      BY <1>1, <1>8 DEF LabelsInv
    <2>4. \A j \in 1..Len(labels) : \E m \in 1..counts[LabelBase(res.rulesets[j])] :
            labels[j] = Candidate(LabelBase(res.rulesets[j]), m)
      BY <1>1, <1>8 DEF LabelsInv
    <2>5. base = LabelBase(res.rulesets[i])
      OBVIOUS
    <2> HIDE DEF base
    <2>6. /\ DOMAIN counts' = DOMAIN counts \cup {base}
          /\ \A b \in DOMAIN counts' : counts'[b] = IF b = base THEN CountOf(b) + 1 ELSE counts[b]
      BY <2>1 DEF Counted
    <2>7. CountOf(base) \in Nat /\ (base \in DOMAIN counts => counts[base] = CountOf(base))
      BY <1>8, CountIs
    <2>8. DOMAIN counts' = {LabelBase(res.rulesets[j]) : j \in DOMAIN labels'}
      BY <1>1, <1>2, <2>3, <2>5, <2>6
    <2>9. ASSUME NEW j \in DOMAIN labels'
          PROVE  \E m \in 1..counts'[LabelBase(res.rulesets[j])] : labels'[j] = Candidate(LabelBase(res.rulesets[j]), m)
      <3>1. CASE j = i
        <4>1. counts'[base] = CountOf(base) + 1 /\ CountOf(base) + 1 \in 1..(CountOf(base) + 1)
          BY <2>6, <2>7
        <4>2. QED
          BY <1>1, <2>2, <2>5, <3>1, <4>1
      <3>2. CASE j \in 1..Len(labels)
        <4> DEFINE b == LabelBase(res.rulesets[j])
        <4>1. PICK m \in 1..counts[b] : labels[j] = Candidate(b, m)
          BY <2>4, <3>2
        <4>2. b \in DOMAIN counts
          BY <2>3, <3>2
        <4> HIDE DEF b
        <4>3. counts'[b] = IF b = base THEN counts[b] + 1 ELSE counts[b]
          BY <2>6, <2>7, <4>2
        <4>4. counts[b] \in Nat
          BY <1>8, <4>2, CountIs
        <4>5. m \in 1..counts'[b] /\ labels'[j] = Candidate(b, m)
          BY <1>1, <3>2, <4>1, <4>3, <4>4
        <4>6. QED
          BY <4>5 DEF b
      <3>3. QED
        BY <1>1, <1>2, <3>1, <3>2
    <2>10. ASSUME SuffixesAreFree PROVE IsInjective(labels')
      <3>1. \A j \in 1..Len(labels) : labels'[j] # labels'[i]
        <4>1. \A j \in 1..Len(labels) : labels[j] # labels'[i]
          BY <1>8, <2>10, LabelIsFresh
        <4>2. QED
          BY <1>1, <4>1
      <3>2. IsInjective(labels)
        BY <1>8, <2>10 DEF LabelsInv
      <3>3. \A j, l \in 1..Len(labels) : labels'[j] = labels'[l] => j = l
        BY <1>1, <3>2 DEF IsInjective
      <3>4. \A j, l \in DOMAIN labels' : labels'[j] = labels'[l] => j = l
        BY <1>1, <1>2, <3>1, <3>3
      <3>5. QED
        BY <3>4 DEF IsInjective
    <2>11. QED
      BY <2>8, <2>9, <2>10
  <1> HIDE DEF rs, base
  <1>9. QED
    BY <1>3, <1>5, <1>6, <1>7, <1>8 DEF LabelsInv

\* The other passes keep it.
LEMMA LabelsFrame ==
  ASSUME LabelsInv, UNCHANGED <<input, labels, counts>>,
         stage' # "failed" => stage # "failed",
         stage' \in {"validate", "proxies", "groups"} => stage \in {"validate", "proxies", "groups"}
  PROVE  LabelsInv' /\ \A b : AskedFor(b)' = AskedFor(b)
  <1>1. /\ res' = res /\ \A r : LabelBase(r)' = LabelBase(r)
        /\ \A r, l : RulesetFault(r, l)' = RulesetFault(r, l)
        /\ (Named' <=> Named) /\ (SuffixesAreFree' <=> SuffixesAreFree)
    BY InputFrame DEF input
  <1>2. LabelsInv'
    BY <1>1 DEF LabelsInv
  <1>3. QED
    BY <1>1, <1>2 DEF AskedFor

---------------------------------------------------------------------------
\* The invariant.

\* What holds in every state: the labels differ because each has a number of its
\* own, and what is printed is what the result has, once its checks are passed.
RenderInv == PrintedInv /\ TypeOK /\ LabelsInv /\ OnlyTheTargetRefuses /\ rawCommas \subseteq Unchecked

\* A pass that finds nothing goes on, one that finds a fault fails.
LEMMA PassEnds ==
  ASSUME NEW code, NEW next, next # "failed", Pass(code, next)
  PROVE  /\ fault' = code /\ stage' \in {next, "failed"}
         /\ stage' = "failed" <=> fault' # Fine
         /\ stage' = next => code = Fine
  BY DEF Pass

\* The first pass.
LEMMA ValidateStep ==
  ASSUME InputInv, Validate
  PROVE  /\ stage = "validate" /\ stage' \in {"proxies", "failed"} /\ (stage' = "failed" <=> fault' # Fine)
         /\ OnlyTheTargetRefuses' /\ UNCHANGED <<input, labels, counts, rawCommas>>
         /\ stage' = "proxies" => ChainsSupported
  <1> DEFINE code == IF ~ChainsSupported THEN "UNSUPPORTED_TARGET_FEATURE" ELSE Fine
  <1>1. Pass(code, "proxies") /\ stage = "validate" /\ UNCHANGED <<input, labels, counts, rawCommas>>
    BY InputIsValid DEF Validate, blocks
  <1>2. code \in {Fine, "UNSUPPORTED_TARGET_FEATURE"} /\ (code = Fine => ChainsSupported)
    BY DEF Fine
  <1> HIDE DEF code
  <1>3. /\ fault' = code /\ stage' \in {"proxies", "failed"} /\ (stage' = "failed" <=> fault' # Fine)
        /\ stage' = "proxies" => code = Fine
    BY <1>1, PassEnds
  <1>4. OnlyTheTargetRefuses'
    BY <1>2, <1>3 DEF OnlyTheTargetRefuses
  <1>5. QED
    BY <1>1, <1>2, <1>3, <1>4

\* Where chains are supported nothing but Shadowsocks comes to Quantumult X.
LEMMA TypesAreFine ==
  ASSUME InputInv, ChainsSupported
  PROVE  \A i \in DOMAIN res.proxies : TypeFault(res.proxies[i]) = Fine
  <1> SUFFICES ASSUME NEW i \in DOMAIN res.proxies, target = "quanx" PROVE res.proxies[i].type = "ss"
    BY DEF TypeFault
  <1>1. res.proxies[i] \in ToSet(res.proxies) /\ res \in Results
    BY DEF ToSet, InputInv
  <1>2. res.proxies[i].via = NoProxy
    BY <1>1 DEF ChainsSupported
  <1>3. QED
    BY <1>1, <1>2, NodesAreShadowsocks

\* What a proxy line that passes its checks may print as it is.
LEMMA ProxyCommasUnchecked ==
  ASSUME InputInv, ChainsSupported, \A i \in DOMAIN res.proxies : LineFault(res.proxies[i]) = Fine
  PROVE  ProxyCommas \subseteq Unchecked
  <1> SUFFICES ASSUME NEW p \in ToSet(res.proxies), NEW f \in p.commas \cap RawFields(p)
               PROVE <<p.type, f>> \in Unchecked
    BY DEF ProxyCommas
  <1>1. PICK i \in DOMAIN res.proxies : p = res.proxies[i]
    BY DEF ToSet
  <1>2. LineFault(p) = Fine /\ TypeFault(p) = Fine /\ p.type \in {"ss", "http"}
    BY <1>1, TypesAreFine, NodesAreShadowsocks DEF InputInv
  <1>3. target # "clash" /\ target \in {"clash", "surge", "shadowrocket", "quanx"} /\ f \in RawFields(p)
    <2>1. target = "clash" => RawFields(p) = {}
      BY DEF RawFields
    <2>2. QED
      BY <2>1, InputIsResult
  <1>4. CASE p.type = "ss"
    <2>1. f \in {"server", "cipher", "password", "obfs-host"}
      BY <1>3, <1>4 DEF RawFields
    <2>2. QED
      BY <1>4, <2>1 DEF Unchecked
  <1>5. CASE p.type = "http"
    <2>1. f \in {"server", "username", "password"}
      <3>1. target # "clash" /\ p.type # "ss" => RawFields(p) = {"server", "username", "password"}
        BY DEF RawFields
      <3>2. p.type # "ss"
        BY <1>5
      <3>3. QED
        BY <1>3, <3>1, <3>2
    <2>2. CredentialFault(p) = Fine /\ target # "quanx"
      BY <1>2, <1>5 DEF LineFault, PluginFault, TypeFault, Fine
    <2>3. f = "server"
      BY <1>3, <1>5, <2>1, <2>2 DEF CredentialFault, Fine
    <2>4. QED
      BY <1>5, <2>3 DEF Unchecked
  <1>6. QED
    BY <1>2, <1>4, <1>5

\* The second one.
LEMMA ProxiesStep ==
  ASSUME InputInv, ChainsSupported, rawCommas \subseteq Unchecked, PrintProxies
  PROVE  /\ stage = "proxies" /\ stage' \in {"groups", "failed"} /\ (stage' = "failed" <=> fault' # Fine)
         /\ OnlyTheTargetRefuses' /\ UNCHANGED <<input, labels, counts>> /\ rawCommas' \subseteq Unchecked
         /\ stage' = "groups" =>
              printedProxies' = ProxyNames /\ \A i \in DOMAIN res.proxies : NameFault(res.proxies[i].name) = Fine
  <1> DEFINE code == FirstFault([i \in DOMAIN res.proxies |-> NameFault(res.proxies[i].name)]
                                \o [i \in DOMAIN res.proxies |-> LineFault(res.proxies[i])])
  <1>1. /\ Pass(code, "groups") /\ stage = "proxies" /\ UNCHANGED <<input, labels, counts>>
        /\ printedProxies' = IF code = Fine THEN ProxyNames ELSE <<>>
        /\ rawCommas' = IF code = Fine THEN ProxyCommas ELSE {}
    BY DEF PrintProxies
  <1>2. /\ code \in {Fine, "SUB_PARSE_ERROR", "UNSUPPORTED_PLUGIN"}
        /\ code = Fine => \A i \in DOMAIN res.proxies :
             NameFault(res.proxies[i].name) = Fine /\ LineFault(res.proxies[i]) = Fine
    BY InputIsResult, TypesAreFine, ProxyChecks
  <1> HIDE DEF code
  <1>3. /\ fault' = code /\ stage' \in {"groups", "failed"} /\ (stage' = "failed" <=> fault' # Fine)
        /\ stage' = "groups" => code = Fine
    BY <1>1, PassEnds
  <1>4. OnlyTheTargetRefuses'
    BY <1>2, <1>3 DEF OnlyTheTargetRefuses
  <1>5. rawCommas' \subseteq Unchecked
    BY <1>1, <1>2, ProxyCommasUnchecked
  <1>6. QED
    BY <1>1, <1>2, <1>3, <1>4, <1>5

\* The third one: no proxy of a group is missing.
LEMMA GroupsStep ==
  ASSUME InputInv, rawCommas \subseteq Unchecked, PrintGroups
  PROVE  /\ stage = "groups" /\ stage' \in {"rulesets", "failed"} /\ (stage' = "failed" <=> fault' # Fine)
         /\ OnlyTheTargetRefuses' /\ UNCHANGED <<input, labels, counts, printedProxies>>
         /\ rawCommas' \subseteq Unchecked
         /\ stage' = "rulesets" =>
              printedGroups' = GroupLines /\ \A i \in DOMAIN res.groups : PolicyFault(res.groups[i].name) = Fine
  <1> DEFINE missing == \E g \in ToSet(res.groups) : \E m \in ToSet(g.members) :
                          m.kind = "proxy" /\ m.id \notin IDsOf(res.proxies)
             code == FirstFault([i \in DOMAIN res.groups |-> PolicyFault(res.groups[i].name)]
                                \o <<IF missing THEN "INVALID_ARGUMENT" ELSE Fine>>)
  <1>1. /\ Pass(code, "rulesets") /\ stage = "groups" /\ UNCHANGED <<input, labels, counts, printedProxies>>
        /\ printedGroups' = IF code = Fine THEN GroupLines ELSE <<>>
        /\ rawCommas' = IF code = Fine THEN rawCommas \cup GroupCommas ELSE rawCommas
    BY DEF PrintGroups
  <1>2. ~missing /\ missing \in BOOLEAN
    BY NothingIsMissing
  <1> HIDE DEF missing
  <1>3. /\ code \in {Fine, "PROFILE_VALIDATE_ERROR"}
        /\ code = Fine => \A i \in DOMAIN res.groups : PolicyFault(res.groups[i].name) = Fine
    BY <1>2, InputIsResult, GroupChecks
  <1> HIDE DEF code
  <1>4. /\ fault' = code /\ stage' \in {"rulesets", "failed"} /\ (stage' = "failed" <=> fault' # Fine)
        /\ stage' = "rulesets" => code = Fine
    BY <1>1, PassEnds
  <1>5. OnlyTheTargetRefuses'
    BY <1>3, <1>4 DEF OnlyTheTargetRefuses
  <1>6. GroupCommas \subseteq {<<"url-test", "url">>}
    BY DEF GroupCommas
  <1>7. rawCommas' \subseteq Unchecked
    BY <1>1, <1>6 DEF Unchecked
  <1>8. QED
    BY <1>1, <1>3, <1>4, <1>5, <1>7

\* One ruleset more.
LEMMA RulesetsStep ==
  ASSUME InputInv, TypeOK, LabelsInv, NameRuleset
  PROVE  /\ stage = "rulesets" /\ stage' \in {"rulesets", "failed"} /\ (stage' = "failed" <=> fault' # Fine)
         /\ OnlyTheTargetRefuses' /\ UNCHANGED <<input, printedProxies, printedGroups, rawCommas>>
         /\ Len(labels') <= Len(res.rulesets) /\ CountsInv' /\ LabelsInv'
  <1> DEFINE rs == res.rulesets[Len(labels) + 1]
             label == IF Named THEN Label(LabelBase(rs)) ELSE rs.url.id
             code == RulesetFault(rs, label)
  <1>1. Pass(code, "rulesets") /\ stage = "rulesets" /\ UNCHANGED <<input, printedProxies, printedGroups, rawCommas>>
    BY DEF NameRuleset, blocks
  <1>2. code \in {Fine, "PROFILE_VALIDATE_ERROR"}
    BY PolicyCodes DEF RulesetFault
  <1> HIDE DEF code
  <1>3. fault' = code /\ stage' \in {"rulesets", "failed"} /\ (stage' = "failed" <=> fault' # Fine)
    BY <1>1, PassEnds
  <1>4. OnlyTheTargetRefuses'
    BY <1>2, <1>3 DEF OnlyTheTargetRefuses
  <1>5. Len(labels') <= Len(res.rulesets)
    BY NextLabel
  <1>6. CountsInv' /\ LabelsInv'
    BY CountsStep, LabelsStep
  <1>7. QED
    BY <1>1, <1>3, <1>4, <1>5, <1>6

\* The last one.
LEMMA RulesStep ==
  ASSUME InputInv, PrintRules
  PROVE  /\ stage = "rulesets" /\ stage' \in {"done", "failed"} /\ (stage' = "failed" <=> fault' # Fine)
         /\ OnlyTheTargetRefuses' /\ UNCHANGED <<input, labels, counts, printedProxies, printedGroups, rawCommas>>
         /\ stage' = "done" =>
              /\ printedRules' = RuleRows /\ Len(labels) = Len(res.rulesets)
              /\ \A i \in DOMAIN res.rules : RuleFault(res.rules[i]) = Fine
  <1> DEFINE code == FirstFault([i \in DOMAIN res.rules |-> RuleFault(res.rules[i])])
  <1>1. /\ Pass(code, "done") /\ stage = "rulesets" /\ Len(labels) = Len(res.rulesets)
        /\ UNCHANGED <<input, labels, counts, printedProxies, printedGroups, rawCommas>>
        /\ printedRules' = IF code = Fine THEN RuleRows ELSE <<>>
    BY DEF PrintRules, blocks
  <1>2. /\ code \in {Fine, "PROFILE_VALIDATE_ERROR"}
        /\ code = Fine => \A i \in DOMAIN res.rules : RuleFault(res.rules[i]) = Fine
    BY InputIsResult, RuleChecks
  <1> HIDE DEF code
  <1>3. /\ fault' = code /\ stage' \in {"done", "failed"} /\ (stage' = "failed" <=> fault' # Fine)
        /\ stage' = "done" => code = Fine
    BY <1>1, PassEnds
  <1>4. OnlyTheTargetRefuses'
    BY <1>2, <1>3 DEF OnlyTheTargetRefuses
  <1>5. QED
    BY <1>1, <1>2, <1>3, <1>4

\* Steps that name no ruleset keep its part of the types.
LEMMA TypeFrame ==
  ASSUME TypeOK, LabelsInv, UNCHANGED <<input, labels, counts>>, stage # "failed", stage' # "validate",
         stage' \in {"proxies", "groups"} => stage \in {"validate", "proxies", "groups"},
         stage' \in {"proxies", "groups", "rulesets", "done", "failed"},
         stage' = "failed" <=> fault' # Fine
  PROVE  TypeOK' /\ LabelsInv'
  <1>1. LabelsInv' /\ \A b : AskedFor(b)' = AskedFor(b)
    BY LabelsFrame
  <1>2. (Named' <=> Named) /\ res' = res
    BY InputFrame DEF input
  <1>3. TypeOK'
    BY <1>1, <1>2 DEF TypeOK
  <1>4. QED
    BY <1>1, <1>3

\* Steps that print a part leave the earlier ones.
LEMMA PrintedStep ==
  ASSUME RenderInv, Next
  PROVE  PrintedInv'
  <1>0. InputInv
    BY DEF RenderInv, PrintedInv, InputInv
  <1>1. CASE Validate
    <2>1. stage' \in {"proxies", "failed"} /\ UNCHANGED input /\ (stage' = "proxies" => ChainsSupported)
      BY <1>0, <1>1, ValidateStep
    <2>2. (ChainsSupported' <=> ChainsSupported)
      BY <2>1, InputFrame
    <2>3. QED
      BY <1>0, <2>1, <2>2 DEF PrintedInv, InputInv, input
  <1>2. CASE PrintProxies
    <2>1. /\ stage' \in {"groups", "failed"} /\ UNCHANGED input
          /\ stage' = "groups" =>
               printedProxies' = ProxyNames /\ \A i \in DOMAIN res.proxies : NameFault(res.proxies[i].name) = Fine
      BY <1>0, <1>2, ProxiesStep DEF RenderInv, PrintedInv, PrintProxies
    <2>2. res' = res /\ target' = target /\ ProxyNames' = ProxyNames /\ \A name : NameFault(name)' = NameFault(name)
      BY <2>1, InputFrame DEF input
    <2>3. QED
      BY <1>0, <2>1, <2>2 DEF PrintedInv, InputInv
  <1>3. CASE PrintGroups
    <2>1. /\ stage = "groups" /\ stage' \in {"rulesets", "failed"} /\ UNCHANGED <<input, printedProxies>>
          /\ stage' = "rulesets" =>
               printedGroups' = GroupLines /\ \A i \in DOMAIN res.groups : PolicyFault(res.groups[i].name) = Fine
      BY <1>0, <1>3, GroupsStep DEF RenderInv
    <2>2. /\ res' = res /\ target' = target /\ ProxyNames' = ProxyNames /\ GroupLines' = GroupLines
          /\ \A name : NameFault(name)' = NameFault(name) /\ PolicyFault(name)' = PolicyFault(name)
      BY <2>1, InputFrame DEF input
    <2>3. printedProxies = ProxyNames /\ \A i \in DOMAIN res.proxies : NameFault(res.proxies[i].name) = Fine
      BY <2>1 DEF RenderInv, PrintedInv
    <2>4. QED
      BY <1>0, <2>1, <2>2, <2>3 DEF PrintedInv, InputInv
  <1>4. CASE NameRuleset
    <2>1. stage = "rulesets" /\ stage' \in {"rulesets", "failed"} /\ UNCHANGED <<input, printedProxies, printedGroups>>
      BY <1>0, <1>4, RulesetsStep DEF RenderInv
    <2>2. /\ res' = res /\ target' = target /\ ProxyNames' = ProxyNames /\ GroupLines' = GroupLines
          /\ \A name : NameFault(name)' = NameFault(name) /\ PolicyFault(name)' = PolicyFault(name)
      BY <2>1, InputFrame DEF input
    <2>3. /\ printedProxies = ProxyNames /\ \A i \in DOMAIN res.proxies : NameFault(res.proxies[i].name) = Fine
          /\ printedGroups = GroupLines /\ \A i \in DOMAIN res.groups : PolicyFault(res.groups[i].name) = Fine
      BY <2>1 DEF RenderInv, PrintedInv
    <2>4. QED
      BY <1>0, <2>1, <2>2, <2>3 DEF PrintedInv, InputInv
  <1>5. CASE PrintRules
    <2>1. /\ stage = "rulesets" /\ stage' \in {"done", "failed"} /\ UNCHANGED <<input, labels, printedProxies, printedGroups>>
          /\ stage' = "done" =>
               /\ printedRules' = RuleRows /\ Len(labels) = Len(res.rulesets)
               /\ \A i \in DOMAIN res.rules : RuleFault(res.rules[i]) = Fine
      BY <1>0, <1>5, RulesStep
    <2>2. /\ res' = res /\ target' = target /\ ProxyNames' = ProxyNames /\ GroupLines' = GroupLines
          /\ \A name : NameFault(name)' = NameFault(name) /\ PolicyFault(name)' = PolicyFault(name)
          /\ \A r : RuleFault(r)' = RuleFault(r)
      BY <2>1, InputFrame DEF input
    <2>3. /\ printedProxies = ProxyNames /\ \A i \in DOMAIN res.proxies : NameFault(res.proxies[i].name) = Fine
          /\ printedGroups = GroupLines /\ \A i \in DOMAIN res.groups : PolicyFault(res.groups[i].name) = Fine
      BY <2>1 DEF RenderInv, PrintedInv
    <2>4. RuleRows' = RuleRows
      <3>1. target' = target /\ res' = res /\ labels' = labels
        BY <2>1 DEF input
      <3>2. QED
        BY <3>1 DEF RuleRows, RuleRow, Action
    <2>5. QED
      BY <1>0, <2>1, <2>2, <2>3, <2>4 DEF PrintedInv, InputInv
  <1>6. CASE Finished
    <2>1. UNCHANGED <<input, stage, printedProxies, printedGroups, labels, printedRules>>
      BY <1>6 DEF Finished, vars, blocks
    <2>2. /\ res' = res /\ target' = target /\ ProxyNames' = ProxyNames /\ GroupLines' = GroupLines
          /\ \A name : NameFault(name)' = NameFault(name) /\ PolicyFault(name)' = PolicyFault(name)
          /\ \A r : RuleFault(r)' = RuleFault(r)
          /\ (ChainsSupported' <=> ChainsSupported)
      BY <2>1, InputFrame DEF input
    <2>3. RuleRows' = RuleRows
      BY <2>1, <2>2 DEF RuleRows, RuleRow, Action
    <2>4. QED
      BY <1>0, <2>1, <2>2, <2>3 DEF PrintedInv, RenderInv
  <1>7. QED
    BY <1>1, <1>2, <1>3, <1>4, <1>5, <1>6 DEF Next

\* It holds in the beginning.
LEMMA InitRender ==
  Init => RenderInv
  <1> SUFFICES ASSUME Init PROVE RenderInv
    OBVIOUS
  <1>1. PrintedInv
    BY DEF Init, PrintedInv
  <1>2. InputInv
    BY DEF Init, InputInv
  <1>3. Len(res.rulesets) \in Nat
    BY <1>2, InputIsResult, ListDomain
  <1>4. labels = <<>> /\ counts = <<>> /\ stage = "validate" /\ fault = Fine /\ rawCommas = {}
    BY DEF Init
  <1>5. IsList(labels) /\ Len(labels) = 0 /\ DOMAIN labels = {} /\ DOMAIN counts = {}
    <2>1. labels \in Seq({Fine}) /\ Len(labels) = 0 /\ DOMAIN labels = {} /\ DOMAIN counts = {}
      BY <1>4
    <2>2. IsList(labels)
      BY <2>1, SequenceIsList
    <2>3. QED
      BY <2>1, <2>2
  <1>6. TypeOK
    BY <1>3, <1>4, <1>5 DEF TypeOK
  <1>7. LabelsInv
    BY <1>4, <1>5 DEF LabelsInv, IsInjective
  <1>8. OnlyTheTargetRefuses
    BY <1>4 DEF OnlyTheTargetRefuses
  <1>9. QED
    BY <1>1, <1>4, <1>6, <1>7, <1>8 DEF RenderInv

\* And it is inductive.
LEMMA NextRender ==
  RenderInv /\ [Next]_vars => RenderInv'
  <1> SUFFICES ASSUME RenderInv, [Next]_vars PROVE RenderInv'
    OBVIOUS
  <1>0. InputInv /\ TypeOK /\ LabelsInv /\ rawCommas \subseteq Unchecked
    BY DEF RenderInv, PrintedInv, InputInv
  <1>1. CASE Validate
    <2>1. /\ stage = "validate" /\ stage' \in {"proxies", "failed"} /\ (stage' = "failed" <=> fault' # Fine)
          /\ OnlyTheTargetRefuses' /\ UNCHANGED <<input, labels, counts, rawCommas>>
      BY <1>0, <1>1, ValidateStep
    <2>2. TypeOK' /\ LabelsInv'
      BY <1>0, <2>1, TypeFrame
    <2>3. QED
      BY <1>1, <2>1, <2>2, PrintedStep DEF RenderInv, Next
  <1>2. CASE PrintProxies
    <2>1. /\ stage = "proxies" /\ stage' \in {"groups", "failed"} /\ (stage' = "failed" <=> fault' # Fine)
          /\ OnlyTheTargetRefuses' /\ UNCHANGED <<input, labels, counts>> /\ rawCommas' \subseteq Unchecked
      BY <1>0, <1>2, ProxiesStep DEF RenderInv, PrintedInv, PrintProxies
    <2>2. TypeOK' /\ LabelsInv'
      BY <1>0, <2>1, TypeFrame
    <2>3. QED
      BY <1>2, <2>1, <2>2, PrintedStep DEF RenderInv, Next
  <1>3. CASE PrintGroups
    <2>1. /\ stage = "groups" /\ stage' \in {"rulesets", "failed"} /\ (stage' = "failed" <=> fault' # Fine)
          /\ OnlyTheTargetRefuses' /\ UNCHANGED <<input, labels, counts>> /\ rawCommas' \subseteq Unchecked
      BY <1>0, <1>3, GroupsStep
    <2>2. TypeOK' /\ LabelsInv'
      BY <1>0, <2>1, TypeFrame
    <2>3. QED
      BY <1>3, <2>1, <2>2, PrintedStep DEF RenderInv, Next
  <1>4. CASE NameRuleset
    <2>1. /\ stage = "rulesets" /\ stage' \in {"rulesets", "failed"} /\ (stage' = "failed" <=> fault' # Fine)
          /\ OnlyTheTargetRefuses' /\ UNCHANGED <<input, printedProxies, printedGroups, rawCommas>>
          /\ Len(labels') <= Len(res.rulesets) /\ CountsInv' /\ LabelsInv'
      BY <1>0, <1>4, RulesetsStep
    <2>2. TypeOK'
      BY <2>1 DEF TypeOK, CountsInv, input
    <2>3. QED
      BY <1>4, <2>1, <2>2, PrintedStep DEF RenderInv, Next
  <1>5. CASE PrintRules
    <2>1. /\ stage = "rulesets" /\ stage' \in {"done", "failed"} /\ (stage' = "failed" <=> fault' # Fine)
          /\ OnlyTheTargetRefuses' /\ UNCHANGED <<input, labels, counts, rawCommas>>
      BY <1>0, <1>5, RulesStep
    <2>2. TypeOK' /\ LabelsInv'
      BY <1>0, <2>1, TypeFrame
    <2>3. QED
      BY <1>5, <2>1, <2>2, PrintedStep DEF RenderInv, Next
  <1>6. ASSUME UNCHANGED vars PROVE RenderInv'
    <2>1. UNCHANGED <<input, stage, fault, printedProxies, printedGroups, rawCommas, counts, labels, printedRules>>
      BY <1>6 DEF vars, blocks
    <2>2. /\ LabelsInv' /\ \A b : AskedFor(b)' = AskedFor(b)
      BY <1>0, <2>1, LabelsFrame
    <2>3. /\ res' = res /\ target' = target /\ ProxyNames' = ProxyNames /\ GroupLines' = GroupLines
          /\ \A name : NameFault(name)' = NameFault(name) /\ PolicyFault(name)' = PolicyFault(name)
          /\ \A r : RuleFault(r)' = RuleFault(r)
          /\ (Named' <=> Named) /\ (ChainsSupported' <=> ChainsSupported)
      BY <2>1, InputFrame DEF input
    <2>4. RuleRows' = RuleRows
      BY <2>1, <2>3 DEF RuleRows, RuleRow, Action
    <2>5. PrintedInv'
      BY <2>1, <2>3, <2>4 DEF PrintedInv, RenderInv
    <2>6. TypeOK'
      BY <1>0, <2>1, <2>2, <2>3 DEF TypeOK
    <2>7. OnlyTheTargetRefuses'
      BY <2>1 DEF OnlyTheTargetRefuses, RenderInv
    <2>8. QED
      BY <1>0, <2>1, <2>2, <2>5, <2>6, <2>7 DEF RenderInv
  <1>7. CASE Finished
    BY <1>6, <1>7 DEF Finished
  <1>8. QED
    BY <1>1, <1>2, <1>3, <1>4, <1>5, <1>6, <1>7 DEF Next

\* So it holds in every state.
LEMMA RenderInvHolds == Spec => []RenderInv
  BY InitRender, NextRender, PTL DEF Spec

---------------------------------------------------------------------------
\* What follows from it.

\* A printed name is one of a proxy of the result.
LEMMA PrintedProxies ==
  ASSUME RenderInv, stage = "done"
  PROVE  /\ printedProxies = ProxyNames /\ DOMAIN printedProxies = DOMAIN res.proxies
         /\ \A i \in DOMAIN res.proxies : printedProxies[i] = ProxyName(res.proxies[i].name)
         /\ \A i \in DOMAIN res.proxies : NameFault(res.proxies[i].name) = Fine
         /\ ToSet(printedProxies) = {ProxyName(name) : name \in NamesOf(res.proxies)}
         /\ \A name \in NamesOf(res.proxies) : NameFault(name) = Fine
  <1>1. printedProxies = ProxyNames /\ \A i \in DOMAIN res.proxies : NameFault(res.proxies[i].name) = Fine
    BY DEF RenderInv, PrintedInv
  <1>2. DOMAIN printedProxies = DOMAIN res.proxies /\ \A i \in DOMAIN res.proxies : printedProxies[i] = ProxyName(res.proxies[i].name)
    BY <1>1 DEF ProxyNames
  <1>3. ToSet(printedProxies) = {printedProxies[i] : i \in DOMAIN res.proxies}
    BY <1>2 DEF ToSet
  <1>4. ToSet(printedProxies) = {ProxyName(name) : name \in NamesOf(res.proxies)}
    BY <1>2, <1>3 DEF NamesOf
  <1>5. \A name \in NamesOf(res.proxies) : NameFault(name) = Fine
    BY <1>1 DEF NamesOf
  <1>6. QED
    BY <1>1, <1>2, <1>4, <1>5

\* A printed group is one of the result.
LEMMA PrintedGroups ==
  ASSUME RenderInv, stage = "done"
  PROVE  /\ DOMAIN printedGroups = DOMAIN res.groups
         /\ \A i \in DOMAIN res.groups : /\ printedGroups[i] = GroupLine(res.groups[i])
                                         /\ printedGroups[i].name = GroupName(res.groups[i].name)
         /\ GroupsDeclared = {GroupName(name) : name \in NamesOf(res.groups)}
         /\ \A name \in NamesOf(res.groups) : PolicyFault(name) = Fine
  <1>1. printedGroups = GroupLines /\ \A i \in DOMAIN res.groups : PolicyFault(res.groups[i].name) = Fine
    BY DEF RenderInv, PrintedInv
  <1>2. DOMAIN printedGroups = DOMAIN res.groups /\ \A i \in DOMAIN res.groups : printedGroups[i] = GroupLine(res.groups[i])
    BY <1>1 DEF GroupLines
  <1>3. \A i \in DOMAIN res.groups : printedGroups[i].name = GroupName(res.groups[i].name)
    <2>1. \A g : GroupLine(g).name = GroupName(g.name)
      BY DEF GroupLine
    <2>2. QED
      BY <1>2, <2>1
  <1>4. GroupsDeclared = {printedGroups[i].name : i \in DOMAIN res.groups}
    BY <1>2 DEF GroupsDeclared, ToSet
  <1>5. GroupsDeclared = {GroupName(name) : name \in NamesOf(res.groups)}
    BY <1>3, <1>4 DEF NamesOf
  <1>6. \A name \in NamesOf(res.groups) : PolicyFault(name) = Fine
    BY <1>1 DEF NamesOf
  <1>7. QED
    BY <1>2, <1>3, <1>5, <1>6

\* A printed rule acts on what a ruleset or a rule of the result acts on.
LEMMA PrintedRules ==
  ASSUME RenderInv, stage = "done", NEW r \in ToSet(printedRules)
  PROVE  /\ \E s \in ToSet(res.rulesets) \cup ToSet(res.rules) : r.action = Action(s.action)
         /\ \/ \E i \in DOMAIN labels : /\ r.label = labels[i] /\ r.url = res.rulesets[i].url.id
                                     /\ i \in DOMAIN res.rulesets /\ r.action = Action(res.rulesets[i].action)
            \/ r.label = <<>> /\ r.url = <<>> /\ \E i \in DOMAIN res.rules : r.action = Action(res.rules[i].action)
  <1> DEFINE a == [i \in DOMAIN labels |-> RuleRow(labels[i], res.rulesets[i].url.id, res.rulesets[i].action)]
             b == [i \in DOMAIN res.rules |-> RuleRow(<<>>, <<>>, res.rules[i].action)]
  <1>1. printedRules = a \o b /\ Len(labels) = Len(res.rulesets) /\ IsList(labels) /\ InputInv
    BY DEF RenderInv, PrintedInv, RuleRows, LabelsInv, InputInv
  <1>2. /\ IsList(res.rules) /\ Len(res.rules) \in Nat /\ DOMAIN res.rules = 1..Len(res.rules)
        /\ Len(labels) \in Nat /\ DOMAIN labels = 1..Len(labels) /\ DOMAIN labels = DOMAIN res.rulesets
    BY <1>1, InputIsResult, ListDomain
  <1>3. /\ \A i \in DOMAIN labels : a[i] = RuleRow(labels[i], res.rulesets[i].url.id, res.rulesets[i].action)
        /\ \A i \in DOMAIN res.rules : b[i] = RuleRow(<<>>, <<>>, res.rules[i].action)
    OBVIOUS
  <1>4. a = [i \in 1..Len(labels) |-> a[i]] /\ b = [i \in 1..Len(res.rules) |-> b[i]]
    BY <1>2
  <1> HIDE DEF a, b
  <1>5. IsList(a) /\ IsList(b) /\ DOMAIN a = DOMAIN labels /\ DOMAIN b = DOMAIN res.rules
    BY <1>2, <1>4, ListOfLen
  <1>6. r \in ToSet(a) \cup ToSet(b)
    BY <1>1, <1>5, JoinedElements
  <1>7. CASE r \in ToSet(a)
    <2>1. PICK i \in DOMAIN labels : r = RuleRow(labels[i], res.rulesets[i].url.id, res.rulesets[i].action)
      BY <1>3, <1>5, <1>7 DEF ToSet
    <2>2. /\ r.label = labels[i] /\ r.url = res.rulesets[i].url.id
          /\ i \in DOMAIN res.rulesets /\ r.action = Action(res.rulesets[i].action)
      BY <1>2, <2>1 DEF RuleRow
    <2>3. res.rulesets[i] \in ToSet(res.rulesets)
      BY <2>2 DEF ToSet
    <2>4. QED
      BY <2>2, <2>3
  <1>8. CASE r \in ToSet(b)
    <2>1. PICK i \in DOMAIN res.rules : r = RuleRow(<<>>, <<>>, res.rules[i].action)
      BY <1>3, <1>5, <1>8 DEF ToSet
    <2>2. r.label = <<>> /\ r.url = <<>> /\ r.action = Action(res.rules[i].action)
      BY <2>1 DEF RuleRow
    <2>3. res.rules[i] \in ToSet(res.rules)
      BY <2>1 DEF ToSet
    <2>4. QED
      BY <2>2, <2>3
  <1>9. QED
    BY <1>6, <1>7, <1>8

\* What a name of one piece has.
LEMMA OnePiece ==
  ASSUME NEW x, x # ","
  PROVE  ~Has(<<x>>, ",")
  <1> DEFINE s == <<x>>
  <1>1. DOMAIN s = {1} /\ s[1] = x
    BY SingleElement
  <1> HIDE DEF s
  <1>2. ~Has(s, ",")
    BY <1>1 DEF Has
  <1>3. QED
    BY <1>2 DEF s

\* A name that is no builtin is written as it is, and a builtin in a word that
\* has no comma.
LEMMA Actions ==
  /\ \A name : name \notin Builtin => Action(name) = name
  /\ \A b \in Builtin : Action(b) \in {DIRECT, REJECT, <<"direct">>, <<"reject">>}
  /\ \A b \in Builtin : IF target = "quanx" THEN Action(b) \in {<<"direct">>, <<"reject">>} ELSE Action(b) = b
  /\ \A word \in {DIRECT, REJECT, <<"direct">>, <<"reject">>} : ~Has(word, ",")
  <1>1. \A name : name \notin Builtin => Action(name) = name
    BY DEF Action, Builtin
  <1>2. \A b \in Builtin : IF target = "quanx" THEN Action(b) \in {<<"direct">>, <<"reject">>} ELSE Action(b) = b
    BY DEF Action, Builtin
  <1>3. \A b \in Builtin : Action(b) \in {DIRECT, REJECT, <<"direct">>, <<"reject">>}
    BY <1>2 DEF Builtin
  <1>4. ~Has(DIRECT, ",") /\ ~Has(REJECT, ",") /\ ~Has(<<"direct">>, ",") /\ ~Has(<<"reject">>, ",")
    <2>1. DIRECT = <<"DIRECT">> /\ REJECT = <<"REJECT">>
      BY DEF DIRECT, REJECT
    <2>2. "DIRECT" # "," /\ "REJECT" # "," /\ "direct" # "," /\ "reject" # ","
      OBVIOUS
    <2>3. QED
      BY <2>1, <2>2, OnePiece
  <1>5. QED
    BY <1>1, <1>2, <1>3, <1>4

\* Groups are not called like builtins.
LEMMA ReferencesOfResult ==
  ASSUME InputInv
  PROVE  /\ \A name \in NamesOf(res.groups) : Action(name) = name
         /\ \A s \in ToSet(res.rulesets) \cup ToSet(res.rules) : s.action \in NamesOf(res.groups) \cup Builtin
         /\ \A name \in NamesOf(res.proxies) : name \notin NamesOf(res.groups) /\ name \notin Builtin
         /\ \A name \in NamesOf(res.groups) : name \notin Builtin
         /\ IsInjective([i \in DOMAIN res.proxies |-> res.proxies[i].name])
         /\ IsInjective([i \in DOMAIN res.groups |-> res.groups[i].name])
  <1>1. NamesDiffer(res) /\ ActionsExist(res)
    BY InputIsResult DEF WellFormed
  <1>2. /\ IsInjective([i \in DOMAIN res.proxies |-> res.proxies[i].name])
        /\ IsInjective([i \in DOMAIN res.groups |-> res.groups[i].name])
        /\ NamesOf(res.proxies) \cap NamesOf(res.groups) = {}
        /\ Builtin \cap (NamesOf(res.proxies) \cup NamesOf(res.groups)) = {}
    BY <1>1 DEF NamesDiffer
  <1>3. \A s \in ToSet(res.rulesets) \cup ToSet(res.rules) : s.action \in NamesOf(res.groups) \cup Builtin
    BY <1>1 DEF ActionsExist
  <1>4. \A name \in NamesOf(res.groups) : name \notin Builtin
    BY <1>2
  <1>5. \A name \in NamesOf(res.groups) : Action(name) = name
    BY <1>4, Actions
  <1>6. QED
    BY <1>2, <1>3, <1>4, <1>5

\* An action is written like a group or a builtin is.
LEMMA ActionsAreDeclared ==
  ASSUME RenderInv, stage = "done", NEW name \in NamesOf(res.groups) \cup Builtin
  PROVE  GroupName(Action(name)) \in Declared
  <1>1. InputInv
    BY DEF RenderInv, PrintedInv, InputInv
  <1>2. CASE name \in NamesOf(res.groups)
    <2>1. Action(name) = name
      BY <1>1, <1>2, ReferencesOfResult
    <2>2. GroupsDeclared = {GroupName(n) : n \in NamesOf(res.groups)}
      BY PrintedGroups
    <2>3. GroupName(Action(name)) \in GroupsDeclared
      BY <1>2, <2>1, <2>2
    <2>4. QED
      BY <2>3 DEF Declared
  <1>3. CASE name \in Builtin
    BY <1>3 DEF Declared, BuiltinNames
  <1>4. QED
    BY <1>2, <1>3

\* So is a member of a group, or else like a proxy.
LEMMA MembersAreDeclared ==
  ASSUME RenderInv, stage = "done", NEW i \in DOMAIN res.groups, NEW k \in DOMAIN res.groups[i].members
  PROVE  MemberName(res.groups[i].members[k]) \in Declared
  <1> DEFINE g == res.groups[i]
             m == res.groups[i].members[k]
  <1>1. InputInv
    BY DEF RenderInv, PrintedInv, InputInv
  <1>2. MembersExist(res) /\ IsResult(res)
    BY <1>1, InputIsResult DEF WellFormed
  <1>3. m.kind \in {"proxy", "group", "builtin"}
    <2>1. g \in ToSet(res.groups) /\ m \in ToSet(g.members)
      BY DEF ToSet
    <2>2. QED
      BY <1>2, <2>1 DEF IsResult
  <1>4. CASE m.kind = "proxy"
    <2>1. m.id \in IDsOf(res.proxies)
      BY <1>2, <1>4 DEF MembersExist
    <2>2. \E p \in ToSet(res.proxies) : p.id = m.id
      BY <2>1 DEF IDsOf, ToSet
    <2> DEFINE p == CHOOSE p \in ToSet(res.proxies) : p.id = m.id
    <2>3. p \in ToSet(res.proxies)
      BY <2>2
    <2>4. MemberName(m) = ProxyName(p.name)
      BY <1>4 DEF MemberName
    <2> HIDE DEF p
    <2>5. p.name \in NamesOf(res.proxies)
      BY <2>3 DEF ToSet, NamesOf
    <2>6. ToSet(printedProxies) = {ProxyName(name) : name \in NamesOf(res.proxies)}
      BY PrintedProxies
    <2>7. ProxyName(p.name) \in ToSet(printedProxies)
      BY <2>5, <2>6
    <2>8. QED
      BY <2>4, <2>7 DEF Declared
  <1>5. CASE m.kind # "proxy"
    <2>1. m.name \in NamesOf(res.groups) \cup Builtin
      BY <1>2, <1>3, <1>5 DEF MembersExist
    <2>2. MemberName(m) = GroupName(Action(m.name))
      BY <1>5 DEF MemberName
    <2>3. QED
      BY <2>1, <2>2, ActionsAreDeclared
  <1>6. QED
    BY <1>4, <1>5

\* What groups and rules of a result refer to is declared.
LEMMA RenderReferences ==
  RenderInv => ReferencesAreDeclared
  <1> SUFFICES ASSUME RenderInv, stage = "done"
               PROVE  /\ \A g \in ToSet(printedGroups) : ToSet(g.members) \subseteq Declared
                      /\ \A r \in ToSet(printedRules) : GroupName(r.action) \in Declared
    BY DEF ReferencesAreDeclared
  <1>1. ASSUME NEW g \in ToSet(printedGroups), NEW x \in ToSet(g.members) PROVE x \in Declared
    <2>1. PICK i \in DOMAIN res.groups : g = GroupLine(res.groups[i])
      BY PrintedGroups DEF ToSet
    <2>2. g.members = [j \in DOMAIN res.groups[i].members |-> MemberName(res.groups[i].members[j])]
      BY <2>1 DEF GroupLine
    <2>3. PICK j \in DOMAIN res.groups[i].members : x = MemberName(res.groups[i].members[j])
      BY <2>2 DEF ToSet
    <2>4. QED
      BY <2>3, MembersAreDeclared
  <1>2. ASSUME NEW r \in ToSet(printedRules) PROVE GroupName(r.action) \in Declared
    <2>1. PICK s \in ToSet(res.rulesets) \cup ToSet(res.rules) : r.action = Action(s.action)
      BY PrintedRules
    <2>2. InputInv
      BY DEF RenderInv, PrintedInv, InputInv
    <2>3. s.action \in NamesOf(res.groups) \cup Builtin
      BY <2>2, ReferencesOfResult
    <2>4. QED
      BY <2>1, <2>3, ActionsAreDeclared
  <1>3. QED
    BY <1>1, <1>2

\* Declarations differ.
LEMMA RenderDeclarations ==
  RenderInv => DeclarationsDiffer
  <1> SUFFICES ASSUME RenderInv, stage = "done" PROVE DeclarationsDiffer
    BY DEF DeclarationsDiffer
  <1>1. InputInv
    BY DEF RenderInv, PrintedInv, InputInv
  <1>2. \A name : ProxyName(name).text = name /\ GroupName(name).text = name
    BY DEF ProxyName, GroupName
  <1>3. /\ DOMAIN printedProxies = DOMAIN res.proxies
        /\ \A i \in DOMAIN res.proxies : printedProxies[i] = ProxyName(res.proxies[i].name)
        /\ ToSet(printedProxies) = {ProxyName(name) : name \in NamesOf(res.proxies)}
    BY PrintedProxies
  <1>4. /\ DOMAIN printedGroups = DOMAIN res.groups
        /\ \A i \in DOMAIN res.groups : printedGroups[i].name = GroupName(res.groups[i].name)
        /\ GroupsDeclared = {GroupName(name) : name \in NamesOf(res.groups)}
    BY PrintedGroups
  <1>5. IsInjective(printedProxies)
    <2>1. \A i, j \in DOMAIN res.proxies : res.proxies[i].name = res.proxies[j].name => i = j
      BY <1>1, ReferencesOfResult DEF IsInjective
    <2>2. \A i, j \in DOMAIN printedProxies : printedProxies[i] = printedProxies[j] => i = j
      BY <1>2, <1>3, <2>1
    <2>3. QED
      BY <2>2 DEF IsInjective
  <1>6. IsInjective([i \in DOMAIN printedGroups |-> printedGroups[i].name])
    <2>1. \A i, j \in DOMAIN res.groups : res.groups[i].name = res.groups[j].name => i = j
      BY <1>1, ReferencesOfResult DEF IsInjective
    <2>2. \A i, j \in DOMAIN printedGroups : printedGroups[i].name = printedGroups[j].name => i = j
      BY <1>2, <1>4, <2>1
    <2>3. QED
      BY <2>2 DEF IsInjective
  <1>7. ToSet(printedProxies) \cap GroupsDeclared = {}
    <2>1. \A x \in ToSet(printedProxies) : x.text \in NamesOf(res.proxies)
      BY <1>2, <1>3
    <2>2. \A x \in GroupsDeclared : x.text \in NamesOf(res.groups)
      BY <1>2, <1>4
    <2>3. \A name \in NamesOf(res.proxies) : name \notin NamesOf(res.groups)
      BY <1>1, ReferencesOfResult
    <2>4. QED
      BY <2>1, <2>2, <2>3
  <1>8. ASSUME OwnWords \cap (NamesOf(res.proxies) \cup NamesOf(res.groups)) = {}
        PROVE  BuiltinNames \cap (ToSet(printedProxies) \cup GroupsDeclared) = {}
    <2>1. \A x \in BuiltinNames : \E b \in Builtin : x.text = Action(b)
      BY <1>2 DEF BuiltinNames
    <2>2. \A x \in ToSet(printedProxies) \cup GroupsDeclared : x.text \in NamesOf(res.proxies) \cup NamesOf(res.groups)
      BY <1>2, <1>3, <1>4
    <2>3. \A b \in Builtin : Action(b) \in OwnWords \cup Builtin
      BY Actions DEF OwnWords
    <2>4. \A name \in NamesOf(res.proxies) \cup NamesOf(res.groups) : name \notin Builtin
      BY <1>1, ReferencesOfResult
    <2>5. QED
      BY <1>8, <2>1, <2>2, <2>3, <2>4
  <1>9. Named /\ SuffixesAreFree => IsInjective(labels)
    BY DEF RenderInv, LabelsInv
  <1>10. QED
    BY <1>5, <1>6, <1>7, <1>8, <1>9 DEF DeclarationsDiffer

\* What is not quoted has no comma, and what is printed of a proxy or a group has
\* passed its checks.
LEMMA RenderLines ==
  RenderInv => OnlyUncheckedFieldsSplit
  <1> SUFFICES ASSUME RenderInv, stage = "done", target # "clash" PROVE OnlyUncheckedFieldsSplit
    BY DEF OnlyUncheckedFieldsSplit
  <1>1. InputInv
    BY DEF RenderInv, PrintedInv, InputInv
  <1>2. target \in {"surge", "shadowrocket", "quanx"}
    BY <1>1, InputIsResult
  <1>3. \A name \in NamesOf(res.groups) : ~Has(name, ",") /\ ~Has(name, "=")
    BY PrintedGroups DEF PolicyFault, Fine
  <1>4. \A name \in NamesOf(res.proxies) : ~Has(name, "\"") /\ (target # "quanx" => ~Has(name, "="))
    BY <1>2, PrintedProxies DEF NameFault, Fine
  <1>5. \A name \in NamesOf(res.groups) \cup Builtin : ~Has(Action(name), ",")
    BY <1>1, <1>3, Actions, ReferencesOfResult
  <1>6. \A x \in GroupsDeclared \cup BuiltinNames : "," \notin Bare(x)
    <2>1. \A name : ~Has(name, ",") => "," \notin Bare(GroupName(name))
      BY DEF Bare, Has, GroupName
    <2>2. GroupsDeclared = {GroupName(name) : name \in NamesOf(res.groups)}
      BY PrintedGroups
    <2>3. QED
      BY <1>3, <1>5, <2>1, <2>2 DEF BuiltinNames
  <1>7. /\ ToSet(printedProxies) = {ProxyName(name) : name \in NamesOf(res.proxies)}
        /\ \A name : ProxyName(name).text = name
    BY PrintedProxies DEF ProxyName
  <1>8. \A x \in ToSet(printedProxies) : "," \notin Bare(x)
    <2>1. \A name : "," \notin Bare(ProxyName(name))
      <3>1. ASSUME NEW name PROVE "," \notin Bare(ProxyName(name))
        <4>1. CASE Quoted(name)
          BY <4>1 DEF Bare, ProxyName
        <4>2. CASE ~Quoted(name)
          BY <4>2 DEF Bare, ProxyName, Quoted, Has
        <4>3. QED
          BY <4>1, <4>2
      <3>2. QED
        BY <3>1
    <2>2. QED
      BY <1>7, <2>1
  <1>9. \A x \in Declared : "," \notin Bare(x)
    BY <1>6, <1>8 DEF Declared
  <1>10. \A x \in ToSet(printedProxies) : ~Has(x.text, "\"") /\ (target # "quanx" => ~Has(x.text, "="))
    BY <1>4, <1>7
  <1>11. ASSUME NEW g \in ToSet(printedGroups) PROVE "=" \notin Bare(g.name)
    <2>1. PICK i \in DOMAIN res.groups : g.name = GroupName(res.groups[i].name)
      BY PrintedGroups DEF ToSet
    <2>2. res.groups[i].name \in NamesOf(res.groups)
      BY DEF NamesOf
    <2>3. \A name : ~Has(name, "=") => "=" \notin Bare(GroupName(name))
      BY DEF Bare, Has, GroupName
    <2>4. QED
      BY <1>3, <2>1, <2>2, <2>3
  <1>12. ASSUME NEW r \in ToSet(printedRules) PROVE ~Has(r.action, ",")
    <2>1. PICK s \in ToSet(res.rulesets) \cup ToSet(res.rules) : r.action = Action(s.action)
      BY PrintedRules
    <2>2. s.action \in NamesOf(res.groups) \cup Builtin
      BY <1>1, ReferencesOfResult
    <2>3. QED
      BY <1>5, <2>1, <2>2
  <1>13. ASSUME NEW r \in ToSet(printedRules) PROVE ~Has(r.label, ",") /\ ~Has(r.url, ",")
    <2>1. CASE r.label = <<>> /\ r.url = <<>>
      BY <2>1 DEF Has
    <2>2. CASE \E i \in DOMAIN labels : r.label = labels[i] /\ r.url = res.rulesets[i].url.id /\ i \in DOMAIN res.rulesets
      <3>1. PICK i \in DOMAIN labels : r.label = labels[i] /\ r.url = res.rulesets[i].url.id /\ i \in DOMAIN res.rulesets
        BY <2>2
      <3>2. RulesetFault(res.rulesets[i], labels[i]) = Fine
        BY <3>1 DEF RenderInv, LabelsInv
      <3>3. ~Has(r.url, ",")
        BY <3>1, <3>2 DEF RulesetFault, Fine
      <3>4. CASE target = "quanx"
        <4>1. PolicyFault(labels[i]) = Fine
          BY <3>2, <3>4 DEF RulesetFault, Fine
        <4>2. ~Has(labels[i], ",")
          BY <3>4, <4>1 DEF PolicyFault, Fine
        <4>3. QED
          BY <3>1, <3>3, <4>2
      <3>5. CASE target # "quanx"
        <4>1. ~Named
          BY <3>5 DEF Named
        <4>2. labels[i] = res.rulesets[i].url.id
          BY <4>1 DEF RenderInv, LabelsInv
        <4>3. QED
          BY <3>1, <3>3, <4>2
      <3>6. QED
        BY <3>4, <3>5
    <2>3. QED
      BY <2>1, <2>2, PrintedRules
  <1>14. rawCommas \subseteq Unchecked
    BY DEF RenderInv
  <1>15. QED
    BY <1>9, <1>10, <1>11, <1>12, <1>13, <1>14 DEF OnlyUncheckedFieldsSplit

---------------------------------------------------------------------------

\* A render fails with a code, names no more rulesets than there are, and counts a
\* name as often as it was asked for, whatever result is rendered for which target.
THEOREM RenderTypes == Spec => []TypeOK
  <1>1. RenderInv => TypeOK
    BY DEF RenderInv
  <1>2. QED
    BY <1>1, RenderInvHolds, PTL

\* Whatever a compiler result is, each member of a printed group and each action
\* of a printed rule is written exactly as it is declared.
THEOREM ReferencesHold == Spec => []ReferencesAreDeclared
  BY RenderReferences, RenderInvHolds, PTL

\* Nothing is declared twice unless a node or group has the target's own word for
\* a builtin, and rulesets of one base have different suffixes: a result of any
\* length, up to the numerals there are.
THEOREM DeclarationsAreApart == Spec => []DeclarationsDiffer
  BY RenderDeclarations, RenderInvHolds, PTL

\* Whatever the names, URLs and fields of a result are, what splits a line of an
\* INI format is a comma in a field that no check looks at: never one in a name, a
\* reference, the URL of a ruleset or a login.
THEOREM OnlyUncheckedFieldsDoSplit == Spec => []OnlyUncheckedFieldsSplit
  BY RenderLines, RenderInvHolds, PTL

\* A result of the compiler is refused only for what the target cannot express:
\* no code of a broken reference is ever given.
THEOREM OnlyTargetsRefuse == Spec => []OnlyTheTargetRefuses
  <1>1. RenderInv => OnlyTheTargetRefuses
    BY DEF RenderInv
  <1>2. QED
    BY <1>1, RenderInvHolds, PTL
=============================================================================
