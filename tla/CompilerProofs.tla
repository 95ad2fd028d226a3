--------------------------- MODULE CompilerProofs ---------------------------
(***************************************************************************)
(* Theorems about the compiler, for any nodes, profiles and targets.       *)
(*                                                                         *)
(* Names.  NamingInv is inductive: a name is only ever given by the naming *)
(* loops, which look it up in used; the passes between the loops enlarge   *)
(* used by what the next loop must not give, and refuse the names that     *)
(* come too late to be looked up.                                          *)
(*                                                                         *)
(* The result.  ResultInv says pass by pass what the result consists of:   *)
(* a node for each host, behind them a derived proxy for each pair, the    *)
(* groups of the profile and then those of the chains.  That it is kept    *)
(* rests on what the parser has accepted (AcceptedCustoms and the lemmas   *)
(* beside it), on what the filter loops keep (ListProofs) and on the       *)
(* recursion over the groups, which ends because the path grows            *)
(* (ExpansionExists) and gives nothing but nodes (ExpansionIsSound).       *)
(***************************************************************************)
EXTENDS CompilerProps, ListProofs, FiniteSetTheorems, TLAPS

\* The names of a list with one proxy more.
LEMMA AppendedName ==
  ASSUME NEW S, NEW list \in Seq(S), NEW p
  PROVE  /\ Append(list, p) \in Seq(ToSet(Append(list, p)))
         /\ NamesOf(Append(list, p)) = NamesOf(list) \cup {p.name}
  <1> DEFINE longer == Append(list, p)
  <1>1. /\ longer \in Seq(S \cup {p}) /\ Len(longer) = Len(list) + 1 /\ Len(list) \in Nat
        /\ \A i \in 1..Len(list) : longer[i] = list[i]
        /\ longer[Len(list) + 1] = p
    OBVIOUS
  <1>2. DOMAIN list = 1..Len(list) /\ DOMAIN longer = 1..(Len(list) + 1)
    BY <1>1
  <1>3. longer \in Seq(ToSet(longer))
    <2>1. \A i \in 1..Len(longer) : longer[i] \in ToSet(longer)
      BY <1>1, <1>2 DEF ToSet
    <2>2. QED
      BY <2>1, <1>1, <1>2
  <1>4. NamesOf(longer) = NamesOf(list) \cup {p.name}
    <2>1. ASSUME NEW i \in DOMAIN longer PROVE longer[i].name \in NamesOf(list) \cup {p.name}
      <3>1. CASE i = Len(list) + 1
        BY <3>1, <1>1
      <3>2. CASE i \in 1..Len(list)
        BY <3>2, <1>1, <1>2 DEF NamesOf
      <3>3. QED
        BY <3>1, <3>2, <1>1, <1>2
    <2>2. ASSUME NEW i \in DOMAIN list PROVE list[i].name \in NamesOf(longer)
      <3>1. i \in DOMAIN longer /\ longer[i] = list[i]
        BY <1>1, <1>2
      <3>2. QED
        BY <3>1 DEF NamesOf
    <2>3. p.name \in NamesOf(longer)
      <3>1. Len(list) + 1 \in DOMAIN longer
        BY <1>1, <1>2
      <3>2. QED
        BY <3>1, <1>1 DEF NamesOf
    <2>4. QED
      BY <2>1, <2>2, <2>3 DEF NamesOf
  <1>5. QED
    BY <1>3, <1>4

\* A list whose names differ keeps that property when a new name is added.
LEMMA FreshNameKeepsDistinct ==
  ASSUME NEW S, NEW list \in Seq(S), NEW p, p.name \notin NamesOf(list),
         IsInjective([i \in DOMAIN list |-> list[i].name])
  PROVE  IsInjective([i \in DOMAIN Append(list, p) |-> Append(list, p)[i].name])
  <1> DEFINE longer == Append(list, p)
  <1>1. /\ Len(list) \in Nat /\ DOMAIN list = 1..Len(list) /\ DOMAIN longer = 1..(Len(list) + 1)
        /\ \A i \in 1..Len(list) : longer[i] = list[i]
        /\ longer[Len(list) + 1] = p
    OBVIOUS
  <1>2. \A i, j \in DOMAIN list : list[i].name = list[j].name => i = j
    BY DEF IsInjective
  <1>3. \A i \in DOMAIN list : list[i].name # p.name
    BY DEF NamesOf
  <1>4. ASSUME NEW i \in DOMAIN longer, NEW j \in DOMAIN longer, longer[i].name = longer[j].name
        PROVE  i = j
    <2>1. CASE i \in DOMAIN list /\ j \in DOMAIN list
      BY <2>1, <1>1, <1>2, <1>4
    <2>2. CASE i = Len(list) + 1 /\ j \in DOMAIN list
      BY <2>2, <1>1, <1>3, <1>4
    <2>3. CASE i \in DOMAIN list /\ j = Len(list) + 1
      BY <2>3, <1>1, <1>3, <1>4
    <2>4. CASE i = Len(list) + 1 /\ j = Len(list) + 1
      BY <2>4
    <2>5. QED
      BY <2>1, <2>2, <2>3, <2>4, <1>1
  <1>5. QED
    BY <1>4 DEF IsInjective

\* A naming loop gives a name that is neither taken nor a builtin, and
\* remembers it.
LEMMA GiveEffect ==
  ASSUME NEW base, NEW id, NEW via, Give(base, id, via), NamingInv
  PROVE  /\ proxies' \in Seq(ToSet(proxies'))
         /\ NamesOf(proxies') \subseteq used'
         /\ NamesOf(proxies') \cap Builtin = {}
         /\ IsInjective([i \in DOMAIN proxies' |-> proxies'[i].name])
         /\ \A X : X \subseteq used /\ NamesOf(proxies) \cap X = {} => NamesOf(proxies') \cap X = {}
         /\ used \subseteq used'
  <1> DEFINE name == Candidate(base, n)
             p == [id |-> id, name |-> name, via |-> via]
  <1>1. /\ name \notin used /\ name \notin Builtin
        /\ proxies' = Append(proxies, p) /\ used' = used \cup {name}
    BY DEF Give, Taken
  <1>2. p.name = name
    OBVIOUS
  <1>3. NamesOf(proxies') = NamesOf(proxies) \cup {name} /\ proxies' \in Seq(ToSet(proxies'))
    <2>1. proxies \in Seq(ToSet(proxies))
      BY DEF NamingInv
    <2>2. QED
      BY <2>1, <1>1, <1>2, AppendedName, Zenon
  <1>4. IsInjective([i \in DOMAIN proxies' |-> proxies'[i].name])
    <2>1. /\ proxies \in Seq(ToSet(proxies)) /\ name \notin NamesOf(proxies)
          /\ IsInjective([i \in DOMAIN proxies |-> proxies[i].name])
      BY <1>1 DEF NamingInv, NamesAreDistinct
    <2>2. IsInjective([i \in DOMAIN Append(proxies, p) |-> Append(proxies, p)[i].name])
      BY <2>1, <1>2, FreshNameKeepsDistinct, Zenon
    <2>3. QED
      BY <2>2, <1>1
  <1>5. NamesOf(proxies) \subseteq used /\ NamesOf(proxies) \cap Builtin = {}
    BY DEF NamingInv, NamesAreDistinct
  <1> HIDE DEF name, p
  <1>6. QED
    BY <1>1, <1>3, <1>4, <1>5

\* The compilation starts without names.
LEMMA InitNaming == Init => NamingInv
  <1> SUFFICES ASSUME Init PROVE NamingInv
    OBVIOUS
  <1>1. proxies = <<>> /\ stage = "parse"
    BY DEF Init
  <1>2. DOMAIN proxies = {} /\ NamesOf(proxies) = {}
    BY <1>1 DEF NamesOf
  <1>3. proxies \in Seq(ToSet(proxies))
    BY <1>1
  <1>4. IsInjective([i \in DOMAIN proxies |-> proxies[i].name])
    BY <1>2 DEF IsInjective
  <1>5. QED
    BY <1>1, <1>2, <1>3, <1>4 DEF NamingInv, NamesAreDistinct, ClaimedStages

\* A pass ends in the stage it leads to or in "failed".
LEMMA PassStages ==
  ASSUME NEW code, NEW next, Pass(code, next)
  PROVE  stage' \in {next, "failed"}
  BY DEF Pass

\* The groups to come depend on the profile and the selections only.
LEMMA GroupNamesFrame ==
  ASSUME UNCHANGED <<prof, selected>>
  PROVE  GroupNames(prof') = GroupNames(prof) /\ AutoGroupNames' = AutoGroupNames
  <1>1. ActiveCustoms' = ActiveCustoms
    BY DEF ActiveCustoms
  <1>2. QED
    BY <1>1 DEF AutoGroupNames

\* Names and stage decide NamingInv where the loops have nothing to do with it.
LEMMA NamesUnchanged ==
  ASSUME NamingInv, UNCHANGED <<proxies, used>>, stage' \notin ClaimedStages \cup {"chain"}
  PROVE  NamingInv'
  BY DEF NamingInv, NamesAreDistinct, ClaimedStages, NamesOf, ToSet

\* No step gives a name that is in use or will be.
LEMMA NextNaming == NamingInv /\ [Next]_vars => NamingInv'
  <1> SUFFICES ASSUME NamingInv, [Next]_vars PROVE NamingInv'
    OBVIOUS
  <1>1. CASE ParseProfile
    <2>1. stage' \in {"dedup", "failed"} /\ UNCHANGED <<proxies, used>>
      BY <1>1, PassStages DEF ParseProfile
    <2>2. QED
      BY <2>1, NamesUnchanged DEF ClaimedStages
  <1>2. CASE Dedup
    <2>1. stage' = "name" /\ UNCHANGED <<proxies, used>>
      BY <1>2 DEF Dedup
    <2>2. QED
      BY <2>1, NamesUnchanged DEF ClaimedStages
  <1>3. CASE NameNode
    <2>1. stage = "name" /\ stage' = "name"
      BY <1>3 DEF NameNode
    <2>2. CASE UNCHANGED <<used, proxies>>
      BY <2>1, <2>2, NamesUnchanged DEF ClaimedStages
    <2>3. ASSUME NEW base, NEW id, Give(base, id, NoProxy) PROVE NamingInv'
      <3>1. /\ proxies' \in Seq(ToSet(proxies')) /\ NamesOf(proxies') \subseteq used'
            /\ NamesOf(proxies') \cap Builtin = {}
            /\ IsInjective([i \in DOMAIN proxies' |-> proxies'[i].name])
        BY <2>3, GiveEffect
      <3>2. QED
        BY <3>1, <2>1 DEF NamingInv, NamesAreDistinct, ClaimedStages, NamesOf, ToSet
    <2>4. QED
      BY <1>3, <2>2, <2>3 DEF NameNode
  <1>4. CASE CheckNames
    <2>1. UNCHANGED <<proxies, used, prof>> /\ stage' \in {"chain", "failed"}
      BY <1>4, PassStages DEF CheckNames, input
    <2>2. CASE GroupNames(prof) \cap NamesOf(proxies) # {}
      <3>1. stage' = "failed"
        BY <1>4, <2>2 DEF CheckNames, Pass, Fine
      <3>2. QED
        BY <2>1, <3>1, NamesUnchanged DEF ClaimedStages
    <2>3. CASE GroupNames(prof) \cap NamesOf(proxies) = {}
      <3>1. (NamesOf(proxies) \cap GroupNames(prof) = {})'
        BY <2>1, <2>3 DEF NamesOf, GroupNames
      <3>2. QED
        BY <2>1, <3>1 DEF NamingInv, NamesAreDistinct, ClaimedStages, NamesOf, ToSet
    <2>4. QED
      BY <2>2, <2>3
  <1>5. CASE SelectChain
    <2>1. UNCHANGED <<proxies, used, prof>> /\ stage = "chain" /\ stage' \in {"chain", "failed"}
      BY <1>5, PassStages DEF SelectChain, input
    <2>2. (NamesOf(proxies) \cap GroupNames(prof) = {})'
      BY <2>1 DEF NamingInv, NamesOf, GroupNames
    <2>3. QED
      BY <2>1, <2>2 DEF NamingInv, NamesAreDistinct, ClaimedStages, NamesOf, ToSet
  <1>6. CASE ClaimNames
    <2>1. /\ UNCHANGED <<proxies, prof, selected>> /\ stage = "chain" /\ stage' \in {"derive", "failed"}
          /\ used' = Claimed
      BY <1>6, PassStages DEF ClaimNames, input
    <2>2. NamesOf(proxies') = NamesOf(proxies) /\ GroupNames(prof') = GroupNames(prof)
          /\ AutoGroupNames' = AutoGroupNames
      BY <2>1, GroupNamesFrame
    <2>3. /\ NamesOf(proxies) \subseteq used' /\ GroupNames(prof) \cup AutoGroupNames \subseteq used'
          /\ NamesOf(proxies) \cap GroupNames(prof) = {}
      BY <2>1 DEF Claimed, NamingInv
    <2>4. AutoGroupNames \cap NamesOf(proxies) # {} => stage' = "failed"
      BY <1>6 DEF ClaimNames, Pass, Fine
    <2>5. proxies' \in Seq(ToSet(proxies')) /\ IsInjective([i \in DOMAIN proxies' |-> proxies'[i].name])
          /\ NamesOf(proxies) \cap Builtin = {}
      BY <2>1 DEF NamingInv, NamesAreDistinct
    <2>6. QED
      BY <2>1, <2>2, <2>3, <2>4, <2>5 DEF NamingInv, NamesAreDistinct, ClaimedStages
  <1>7. CASE Derive
    <2>1. stage = "derive" /\ stage' = "derive" /\ UNCHANGED <<prof, selected>>
      BY <1>7 DEF Derive, input
    <2>2. GroupNames(prof') = GroupNames(prof) /\ AutoGroupNames' = AutoGroupNames
      BY <2>1, GroupNamesFrame
    <2>3. /\ GroupNames(prof) \cup AutoGroupNames \subseteq used
          /\ NamesOf(proxies) \cap (GroupNames(prof) \cup AutoGroupNames) = {}
      BY <2>1 DEF NamingInv, NamesAreDistinct, ClaimedStages
    <2>4. CASE UNCHANGED <<used, proxies>>
      <3>1. NamesOf(proxies') = NamesOf(proxies)
        BY <2>4
      <3>2. QED
        BY <2>1, <2>2, <2>3, <2>4, <3>1 DEF NamingInv, NamesAreDistinct, ClaimedStages, ToSet
    <2>5. ASSUME NEW base, NEW id, NEW via, Give(base, id, via) PROVE NamingInv'
      <3>1. /\ proxies' \in Seq(ToSet(proxies')) /\ NamesOf(proxies') \subseteq used'
            /\ NamesOf(proxies') \cap Builtin = {} /\ used \subseteq used'
            /\ IsInjective([i \in DOMAIN proxies' |-> proxies'[i].name])
            /\ NamesOf(proxies') \cap (GroupNames(prof) \cup AutoGroupNames) = {}
        BY <2>3, <2>5, GiveEffect
      <3>2. QED
        BY <3>1, <2>1, <2>2, <2>3 DEF NamingInv, NamesAreDistinct, ClaimedStages
    <2>6. QED
      BY <1>7, <2>4, <2>5 DEF Derive
  <1>8. CASE CompileGroups
    <2>1. /\ UNCHANGED <<proxies, used, prof, selected>> /\ stage = "derive"
          /\ stage' \in {"rules", "failed"}
      BY <1>8, PassStages DEF CompileGroups, input
    <2>2. QED
      BY <2>1, GroupNamesFrame DEF NamingInv, NamesAreDistinct, ClaimedStages, NamesOf, ToSet
  <1>9. CASE CompileRules
    <2>1. /\ UNCHANGED <<proxies, used, prof, selected>> /\ stage = "rules"
          /\ stage' \in {"done", "failed"}
      BY <1>9, PassStages DEF CompileRules, input
    <2>2. QED
      BY <2>1, GroupNamesFrame DEF NamingInv, NamesAreDistinct, ClaimedStages, NamesOf, ToSet
  <1>10. CASE Finished \/ UNCHANGED vars
    <2>1. UNCHANGED <<proxies, used, prof, selected, stage>>
      BY <1>10 DEF Finished, vars, input
    <2>2. QED
      BY <2>1, GroupNamesFrame DEF NamingInv, NamesAreDistinct, ClaimedStages, NamesOf, ToSet
  <1>11. QED
    BY <1>1, <1>2, <1>3, <1>4, <1>5, <1>6, <1>7, <1>8, <1>9, <1>10 DEF Next

\* Whatever nodes and profile are compiled, no two proxies get one name and no
\* proxy the name of a builtin or of a group.
THEOREM NamesNeverClash == Spec => []NamesAreDistinct
  <1>1. NamingInv => NamesAreDistinct
    BY DEF NamingInv
  <1>2. QED
    BY <1>1, InitNaming, NextNaming, PTL DEF Spec

---------------------------------------------------------------------------
\* The profile.

\* What the assumptions on the inputs say of a profile.
ProfileIsListed(p) ==
  /\ IsList(p.customs) /\ IsList(p.groups) /\ IsList(p.chains) /\ IsList(p.rulesets) /\ IsList(p.rules)
  /\ \A c \in ToSet(p.customs) : IsList(c.name)
  /\ \A g \in ToSet(p.groups) : IsList(g.name) /\ IsList(g.members)
  /\ \A line \in ToSet(p.rules) : IsList(line)

\* The codes of the profile parser.
Codes == {"", "PROFILE_PARSE_ERROR", "PROFILE_VALIDATE_ERROR", "CUSTOM_PROXY_VALIDATE_ERROR", "GROUP_PARSE_ERROR",
  "GROUP_UNSUPPORTED_TYPE", "CHAIN_PARSE_ERROR", "CHAIN_PROXY_NOT_FOUND", "CHAIN_GROUP_NOT_FOUND",
  "UNSUPPORTED_TARGET_FEATURE", "RULESET_PARSE_ERROR", "RULE_PARSE_ERROR", "UNSUPPORTED_RULE_TYPE"}

\* Every check of the profile gives one of these codes.
LEMMA CodesOfFaults ==
  ASSUME NEW p, NEW tgt, NEW i
  PROVE  /\ DocumentFault(p, tgt) \in Codes /\ CustomFault(p, tgt, i) \in Codes
         /\ GroupFault(p.groups[i]) \in Codes /\ GroupNameFault(p, i) \in Codes
         /\ MembersFault(p, p.groups[i]) \in Codes /\ ChainFault(p, p.chains[i]) \in Codes
         /\ RulesetFault(p.rulesets[i]) \in Codes /\ InlineRuleFault(RuleLines(p)[i]) \in Codes
  <1>1. DocumentFault(p, tgt) \in Codes
    BY DEF DocumentFault, Fine, Codes
  <1>2. CustomFault(p, tgt, i) \in Codes
    BY DEF CustomFault, Fine, Codes
  <1>3. GroupFault(p.groups[i]) \in Codes
    BY DEF GroupFault, Fine, Codes
  <1>4. GroupNameFault(p, i) \in Codes
    BY DEF GroupNameFault, Fine, Codes
  <1>5. MembersFault(p, p.groups[i]) \in Codes
    BY DEF MembersFault, Fine, Codes
  <1>6. ChainFault(p, p.chains[i]) \in Codes
    BY DEF ChainFault, Fine, Codes
  <1>7. RulesetFault(p.rulesets[i]) \in Codes
    BY DEF RulesetFault, Fine, Codes
  <1>8. InlineRuleFault(RuleLines(p)[i]) \in Codes
    BY DEF InlineRuleFault, Codes
  <1>9. QED
    BY <1>1, <1>2, <1>3, <1>4, <1>5, <1>6, <1>7, <1>8

\* A profile passes every check, one by one.
PassesChecks(p, tgt) ==
  /\ DocumentFault(p, tgt) = Fine
  /\ \A i \in DOMAIN p.customs : CustomFault(p, tgt, i) = Fine
  /\ \A i \in DOMAIN p.groups : /\ GroupFault(p.groups[i]) = Fine /\ GroupNameFault(p, i) = Fine
                                /\ MembersFault(p, p.groups[i]) = Fine
  /\ \A i \in DOMAIN p.chains : ChainFault(p, p.chains[i]) = Fine
  /\ \A i \in DOMAIN p.rulesets : RulesetFault(p.rulesets[i]) = Fine
  /\ \A i \in DOMAIN RuleLines(p) : InlineRuleFault(RuleLines(p)[i]) = Fine

\* A profile is refused with one of the codes, or has passed every check.
LEMMA ProfileIsChecked ==
  ASSUME NEW p, NEW tgt, ProfileIsListed(p)
  PROVE  ProfileFault(p, tgt) \in Codes /\ (ProfileFault(p, tgt) = Fine => PassesChecks(p, tgt))
  <1> DEFINE s1 == <<DocumentFault(p, tgt)>>
             s2 == [i \in DOMAIN p.customs |-> CustomFault(p, tgt, i)]
             s3 == [i \in DOMAIN p.groups |-> GroupFault(p.groups[i])]
             s4 == [i \in DOMAIN p.groups |-> GroupNameFault(p, i)]
             s5 == [i \in DOMAIN p.groups |-> MembersFault(p, p.groups[i])]
             s6 == [i \in DOMAIN p.chains |-> ChainFault(p, p.chains[i])]
             s7 == << IF p.chains # <<>> /\ tgt \notin {"clash", "surge"} THEN "UNSUPPORTED_TARGET_FEATURE" ELSE Fine >>
             s8 == [i \in DOMAIN p.rulesets |-> RulesetFault(p.rulesets[i])]
             s9 == [i \in DOMAIN RuleLines(p) |-> InlineRuleFault(RuleLines(p)[i])]
             s10 == << IF ~HasMatch(p) THEN "PROFILE_VALIDATE_ERROR" ELSE Fine >>
  <1>1. ProfileFault(p, tgt) = FirstFault(s1 \o s2 \o s3 \o s4 \o s5 \o s6 \o s7 \o s8 \o s9 \o s10)
    BY DEF ProfileFault
  <1>2. RuleLines(p) \in Seq(ToSet(p.rules))
    BY OnlyTakes DEF ProfileIsListed, IsList, RuleLines
  <1>3. s1 \in Seq(Codes) /\ s7 \in Seq(Codes) /\ s10 \in Seq(Codes)
    <2>1. DocumentFault(p, tgt) \in Codes
      BY CodesOfFaults
    <2>2. {Fine, "UNSUPPORTED_TARGET_FEATURE", "PROFILE_VALIDATE_ERROR"} \subseteq Codes
      BY DEF Codes, Fine
    <2>3. QED
      BY <2>1, <2>2
  <1>4. /\ Len(p.customs) \in Nat /\ DOMAIN p.customs = 1..Len(p.customs)
        /\ Len(p.groups) \in Nat /\ DOMAIN p.groups = 1..Len(p.groups)
        /\ Len(p.chains) \in Nat /\ DOMAIN p.chains = 1..Len(p.chains)
        /\ Len(p.rulesets) \in Nat /\ DOMAIN p.rulesets = 1..Len(p.rulesets)
        /\ Len(RuleLines(p)) \in Nat /\ DOMAIN RuleLines(p) = 1..Len(RuleLines(p))
    BY <1>2 DEF ProfileIsListed, IsList
  <1>5. s2 \in Seq(Codes) /\ s3 \in Seq(Codes) /\ s4 \in Seq(Codes) /\ s5 \in Seq(Codes)
        /\ s6 \in Seq(Codes) /\ s8 \in Seq(Codes) /\ s9 \in Seq(Codes)
    <2>1. s2 \in Seq(Codes)
      <3>1. \A i : CustomFault(p, tgt, i) \in Codes
        BY CodesOfFaults
      <3>2. QED
        BY <1>4, <3>1
    <2>2. s3 \in Seq(Codes)
      <3>1. \A i : GroupFault(p.groups[i]) \in Codes
        BY CodesOfFaults
      <3>2. QED
        BY <1>4, <3>1
    <2>3. s4 \in Seq(Codes)
      <3>1. \A i : GroupNameFault(p, i) \in Codes
        BY CodesOfFaults
      <3>2. QED
        BY <1>4, <3>1
    <2>4. s5 \in Seq(Codes)
      <3>1. \A i : MembersFault(p, p.groups[i]) \in Codes
        BY CodesOfFaults
      <3>2. QED
        BY <1>4, <3>1
    <2>5. s6 \in Seq(Codes)
      <3>1. \A i : ChainFault(p, p.chains[i]) \in Codes
        BY CodesOfFaults
      <3>2. QED
        BY <1>4, <3>1
    <2>6. s8 \in Seq(Codes)
      <3>1. \A i : RulesetFault(p.rulesets[i]) \in Codes
        BY CodesOfFaults
      <3>2. QED
        BY <1>4, <3>1
    <2>7. s9 \in Seq(Codes)
      <3>1. \A i : InlineRuleFault(RuleLines(p)[i]) \in Codes
        BY CodesOfFaults
      <3>2. QED
        BY <1>4, <3>1
    <2>8. QED
      BY <2>1, <2>2, <2>3, <2>4, <2>5, <2>6, <2>7
  <1>00. /\ Len(s1) = 1 /\ s1[1] = DocumentFault(p, tgt)
         /\ Len(s2) = Len(p.customs) /\ \A i \in DOMAIN p.customs : s2[i] = CustomFault(p, tgt, i)
         /\ Len(s3) = Len(p.groups) /\ \A i \in DOMAIN p.groups : s3[i] = GroupFault(p.groups[i])
         /\ Len(s4) = Len(p.groups) /\ \A i \in DOMAIN p.groups : s4[i] = GroupNameFault(p, i)
         /\ Len(s5) = Len(p.groups) /\ \A i \in DOMAIN p.groups : s5[i] = MembersFault(p, p.groups[i])
         /\ Len(s6) = Len(p.chains) /\ \A i \in DOMAIN p.chains : s6[i] = ChainFault(p, p.chains[i])
         /\ Len(s8) = Len(p.rulesets) /\ \A i \in DOMAIN p.rulesets : s8[i] = RulesetFault(p.rulesets[i])
         /\ Len(s9) = Len(RuleLines(p))
         /\ \A i \in DOMAIN RuleLines(p) : s9[i] = InlineRuleFault(RuleLines(p)[i])
    BY <1>4
  <1> HIDE DEF s1, s2, s3, s4, s5, s6, s7, s8, s9, s10
  <1> DEFINE t2 == s1 \o s2  t3 == t2 \o s3  t4 == t3 \o s4  t5 == t4 \o s5  t6 == t5 \o s6
             t7 == t6 \o s7  t8 == t7 \o s8  t9 == t8 \o s9  t10 == t9 \o s10
  <1>6. t2 \in Seq(Codes)
    BY <1>3, <1>5
  <1> HIDE DEF t2
  <1>7. t3 \in Seq(Codes)
    BY <1>5, <1>6
  <1> HIDE DEF t3
  <1>8. t4 \in Seq(Codes)
    BY <1>5, <1>7
  <1> HIDE DEF t4
  <1>9. t5 \in Seq(Codes)
    BY <1>5, <1>8
  <1> HIDE DEF t5
  <1>10. t6 \in Seq(Codes)
    BY <1>5, <1>9
  <1> HIDE DEF t6
  <1>11. t7 \in Seq(Codes)
    BY <1>3, <1>10
  <1> HIDE DEF t7
  <1>12. t8 \in Seq(Codes)
    BY <1>5, <1>11
  <1> HIDE DEF t8
  <1>13. t9 \in Seq(Codes)
    BY <1>5, <1>12
  <1> HIDE DEF t9
  <1>14. t10 \in Seq(Codes)
    BY <1>3, <1>13
  <1> HIDE DEF t10
  <1>14a. ProfileFault(p, tgt) = FirstFault(t10)
    BY <1>1 DEF t2, t3, t4, t5, t6, t7, t8, t9, t10
  <1>14b. ProfileFault(p, tgt) \in Codes
    <2>1. ToSet(t10) \subseteq Codes
      BY <1>14 DEF ToSet
    <2>2. Fine \in Codes
      BY DEF Fine, Codes
    <2>3. QED
      BY <1>14a, <1>14, <2>1, <2>2, FirstFaultIsFault
  <1>14c. SUFFICES ASSUME ProfileFault(p, tgt) = Fine PROVE PassesChecks(p, tgt)
    BY <1>14b
  <1>15. Clean(t10)
    BY <1>14, <1>14a, <1>14c, FirstFaultIsFault
  <1>16. Clean(t9)
    BY <1>3, <1>13, <1>15, CleanParts DEF t10
  <1>17. Clean(t8) /\ Clean(s9)
    BY <1>5, <1>12, <1>16, CleanParts DEF t9
  <1>18. Clean(t7) /\ Clean(s8)
    BY <1>5, <1>11, <1>17, CleanParts DEF t8
  <1>19. Clean(t6)
    BY <1>3, <1>10, <1>18, CleanParts DEF t7
  <1>20. Clean(t5) /\ Clean(s6)
    BY <1>5, <1>9, <1>19, CleanParts DEF t6
  <1>21. Clean(t4) /\ Clean(s5)
    BY <1>5, <1>8, <1>20, CleanParts DEF t5
  <1>22. Clean(t3) /\ Clean(s4)
    BY <1>5, <1>7, <1>21, CleanParts DEF t4
  <1>23. Clean(t2) /\ Clean(s3)
    BY <1>5, <1>6, <1>22, CleanParts DEF t3
  <1>24. Clean(s1) /\ Clean(s2)
    BY <1>3, <1>5, <1>23, CleanParts DEF t2
  <1>25. QED
    BY <1>00, <1>4, <1>17, <1>18, <1>20, <1>21, <1>22, <1>23, <1>24, SMTT(30) DEF Clean, PassesChecks

\* A profile that is accepted has passed every check.
LEMMA ProfileAccepted ==
  ASSUME NEW p, NEW tgt, ProfileIsListed(p), ProfileFault(p, tgt) = Fine
  PROVE  /\ DocumentFault(p, tgt) = Fine
         /\ \A i \in DOMAIN p.customs : CustomFault(p, tgt, i) = Fine
         /\ \A i \in DOMAIN p.groups : /\ GroupFault(p.groups[i]) = Fine /\ GroupNameFault(p, i) = Fine
                                       /\ MembersFault(p, p.groups[i]) = Fine
         /\ \A i \in DOMAIN p.chains : ChainFault(p, p.chains[i]) = Fine
         /\ \A i \in DOMAIN p.rulesets : RulesetFault(p.rulesets[i]) = Fine
         /\ \A i \in DOMAIN RuleLines(p) : InlineRuleFault(RuleLines(p)[i]) = Fine
  BY ProfileIsChecked DEF PassesChecks

\* A custom proxy that is accepted has a name, and not a builtin's.
LEMMA CustomIsNamed ==
  ASSUME NEW c, NEW tgt, CustomOk(c, tgt)
  PROVE  c.name \notin Unnamed \cup Builtin
  BY DEF CustomOk

\* Names in an accepted profile.
LEMMA AcceptedCustoms ==
  ASSUME NEW p, NEW tgt, ProfileIsListed(p), ProfileFault(p, tgt) = Fine
  PROVE  /\ \A i, j \in DOMAIN p.customs : p.customs[i].name = p.customs[j].name => i = j
         /\ \A i \in DOMAIN p.customs : CustomOk(p.customs[i], tgt)
         /\ <<>> \notin CustomNames(p)
  <1>1. \A i \in DOMAIN p.customs : /\ CustomOk(p.customs[i], tgt)
                                    /\ \A j \in 1..(i - 1) : p.customs[j].name # p.customs[i].name
    BY ProfileAccepted DEF CustomFault, Fine
  <1>2. Len(p.customs) \in Nat /\ DOMAIN p.customs = 1..Len(p.customs)
    BY ListDomain DEF ProfileIsListed
  <1>3. ASSUME NEW i \in DOMAIN p.customs, NEW j \in DOMAIN p.customs, p.customs[i].name = p.customs[j].name
        PROVE  i = j
    <2>1. CASE i < j
      BY <1>1, <1>2, <1>3, <2>1
    <2>2. CASE j < i
      BY <1>1, <1>2, <1>3, <2>2
    <2>3. QED
      BY <2>1, <2>2, <1>2
  <1>4. \A i \in DOMAIN p.customs : p.customs[i].name # <<>>
    <2> TAKE i \in DOMAIN p.customs
    <2>1. p.customs[i].name \notin Unnamed
      <3>1. CustomOk(p.customs[i], tgt)
        BY <1>1
      <3>2. p.customs[i].name \notin Unnamed \cup Builtin
        BY <3>1, CustomIsNamed
      <3>3. QED
        BY <3>2
    <2>2. <<>> \in Unnamed
      BY DEF Unnamed
    <2>3. QED
      BY <2>1, <2>2
  <1>5. QED
    BY <1>1, <1>3, <1>4 DEF CustomNames

\* The groups of an accepted profile differ in their names, which are no
\* builtins and not those of diagnostic groups, and name only what there is.
LEMMA AcceptedGroups ==
  ASSUME NEW p, NEW tgt, ProfileIsListed(p), ProfileFault(p, tgt) = Fine
  PROVE  /\ \A i, j \in DOMAIN p.groups : p.groups[i].name = p.groups[j].name => i = j
         /\ \A i \in DOMAIN p.groups :
              /\ p.groups[i].name \notin Builtin /\ ~HasAutoPrefix(p.groups[i].name)
              /\ p.groups[i].type \in {"select", "url-test"}
              /\ p.groups[i].type = "select" =>
                   ToSet(p.groups[i].members) \subseteq GroupNames(p) \cup Builtin \cup {AllSubs}
  <1>1. \A i \in DOMAIN p.groups :
          /\ p.groups[i].name \notin Builtin /\ ~HasAutoPrefix(p.groups[i].name)
          /\ \A j \in 1..(i - 1) : p.groups[j].name # p.groups[i].name
    BY ProfileAccepted DEF GroupNameFault, Fine
  <1>2. \A i \in DOMAIN p.groups : p.groups[i].type = "select" =>
          ToSet(p.groups[i].members) \subseteq GroupNames(p) \cup Builtin \cup {AllSubs}
    BY ProfileAccepted DEF MembersFault, Fine
  <1>3. \A i \in DOMAIN p.groups : p.groups[i].type \in {"select", "url-test"}
    BY ProfileAccepted DEF GroupFault, Fine
  <1>4. Len(p.groups) \in Nat /\ DOMAIN p.groups = 1..Len(p.groups)
    BY ListDomain DEF ProfileIsListed
  <1>5. ASSUME NEW i \in DOMAIN p.groups, NEW j \in DOMAIN p.groups, p.groups[i].name = p.groups[j].name
        PROVE  i = j
    <2>1. CASE i < j
      BY <1>1, <1>4, <1>5, <2>1
    <2>2. CASE j < i
      BY <1>1, <1>4, <1>5, <2>2
    <2>3. QED
      BY <2>1, <2>2, <1>4
  <1>6. QED
    BY <1>1, <1>2, <1>3, <1>5

\* The chains of an accepted profile name custom proxies and groups it has.
LEMMA AcceptedChains ==
  ASSUME NEW p, NEW tgt, ProfileIsListed(p), ProfileFault(p, tgt) = Fine, NEW i \in DOMAIN p.chains
  PROVE  /\ p.chains[i].proxy \in CustomNames(p)
         /\ p.chains[i].type \in {"all", "regex", "group"}
         /\ p.chains[i].type = "group" => p.chains[i].group \in GroupNames(p)
  <1>1. ChainFault(p, p.chains[i]) = Fine
    BY ProfileAccepted
  <1>2. ChainOk(p.chains[i]) /\ p.chains[i].proxy \in CustomNames(p)
        /\ (p.chains[i].type = "group" => p.chains[i].group \in GroupNames(p))
    BY <1>1 DEF ChainFault, Fine
  <1>3. QED
    BY <1>2 DEF ChainOk

---------------------------------------------------------------------------
\* The nodes.

\* What the assumptions on the inputs say of a node.
AreNodes(list) == \A node \in ToSet(list) :
  DOMAIN node = {"host", "upper", "name"} /\ node.host # "" /\ IsList(node.name)

\* Deduplication keeps nodes of different hosts.
LEMMA DedupedNodes ==
  ASSUME NEW list, IsList(list), AreNodes(list)
  PROVE  LET kept == Deduped(list) IN
         /\ IsList(kept) /\ IsInjective([i \in DOMAIN kept |-> kept[i].host]) /\ "" \notin HostsOf(kept)
         /\ ToSet(kept) \subseteq {Normalized(node) : node \in ToSet(list)}
  <1> DEFINE idx == [i \in DOMAIN list |-> i]
             kept == Only(idx, Kept(list))
             d == Deduped(list)
  <1>1. Len(list) \in Nat /\ DOMAIN list = 1..Len(list) /\ \A i \in 1..Len(list) : list[i] \in ToSet(list)
    BY ListDomain
  <1>2. idx \in Seq(Nat) /\ Len(idx) = Len(list) /\ \A i \in 1..Len(list) : idx[i] = i
    <2>1. idx = [i \in 1..Len(list) |-> i]
      BY <1>1
    <2>2. \A i \in 1..Len(list) : i \in Nat
      BY <1>1
    <2> HIDE DEF idx
    <2>3. QED
      BY <1>1, <2>1, <2>2
  <1>3. d = [i \in DOMAIN kept |-> Normalized(list[kept[i]])]
    BY DEF Deduped
  <1> HIDE DEF idx, d, kept
  <1>4. kept \in Seq(Nat) /\ \E h : Takes(kept, idx, {i \in 1..Len(idx) : idx[i] \in Kept(list)}, h)
    BY <1>2, OnlyTakes DEF kept
  <1>5. PICK h : Takes(kept, idx, {i \in 1..Len(idx) : idx[i] \in Kept(list)}, h)
    BY <1>4
  <1>6. Len(kept) \in Nat /\ DOMAIN kept = 1..Len(kept)
    BY <1>4
  <1>7. \A i \in 1..Len(kept) : h[i] \in 1..Len(list) /\ h[i] \in Kept(list) /\ kept[i] = h[i]
    BY <1>2, <1>5 DEF Takes
  <1>8. \A i, j \in 1..Len(kept) : i < j => h[i] < h[j]
    BY <1>5 DEF Takes
  <1>9. \A i \in 1..Len(kept) : kept[i] \in DOMAIN list /\ list[kept[i]] \in ToSet(list)
    BY <1>1, <1>7
  <1>10. IsList(d) /\ Len(d) = Len(kept) /\ DOMAIN d = 1..Len(kept)
    <2>1. d = [i \in 1..Len(kept) |-> d[i]]
      BY <1>3, <1>6
    <2>2. QED
      BY <2>1, <1>6, ListOfLen
  <1>11. \A i \in 1..Len(kept) : d[i] = Normalized(list[kept[i]])
    BY <1>3, <1>6
  <1>12. ASSUME NEW i \in 1..Len(kept) PROVE d[i].host = list[h[i]].host /\ d[i].host # ""
    <2>1. list[kept[i]] \in ToSet(list) /\ d[i] = Normalized(list[kept[i]]) /\ kept[i] = h[i]
      BY <1>7, <1>9, <1>11
    <2>2. "host" \in DOMAIN list[kept[i]] /\ list[kept[i]].host # ""
      BY <2>1 DEF AreNodes
    <2>3. Normalized(list[kept[i]]).host = list[kept[i]].host
      BY <2>2 DEF Normalized
    <2>4. QED
      BY <2>1, <2>2, <2>3
  <1>13. ASSUME NEW i \in 1..Len(kept), NEW j \in 1..Len(kept), i < j PROVE d[i].host # d[j].host
    <2>1. h[i] \in 1..Len(list) /\ h[j] \in 1..Len(list) /\ h[i] < h[j] /\ h[j] \in Kept(list)
      BY <1>7, <1>8, <1>13
    <2>0. h[i] \in 1..(h[j] - 1)
      BY <1>1, <2>1
    <2>2. list[h[i]].host # list[h[j]].host
      BY <2>0, <2>1 DEF Kept
    <2>3. QED
      BY <1>12, <2>2
  <1>14. IsInjective([i \in DOMAIN d |-> d[i].host])
    <2>1. ASSUME NEW i \in 1..Len(kept), NEW j \in 1..Len(kept), d[i].host = d[j].host PROVE i = j
      <3>1. ~(i < j) /\ ~(j < i)
        BY <1>13, <2>1
      <3>2. QED
        BY <3>1, <1>6
    <2>2. QED
      BY <2>1, <1>10 DEF IsInjective
  <1>15. "" \notin HostsOf(d)
    BY <1>10, <1>12 DEF HostsOf
  <1>16. ToSet(d) \subseteq {Normalized(node) : node \in ToSet(list)}
    BY <1>9, <1>10, <1>11 DEF ToSet
  <1>17. QED
    BY <1>10, <1>14, <1>15, <1>16 DEF d

---------------------------------------------------------------------------
\* Names of diagnostic groups.

\* The name of a diagnostic group tells its custom proxy.
LEMMA AutoGroupsDiffer ==
  ASSUME NEW c, IsList(c)
  PROVE  /\ HasAutoPrefix(AutoGroup(c)) /\ AutoGroup(c) \notin Builtin /\ IsList(AutoGroup(c))
         /\ \A d : IsList(d) /\ AutoGroup(d) = AutoGroup(c) => d = c
  <1> DEFINE S == ToSet(c) \cup {"CHAIN", "-"}
             P == <<"CHAIN", "-">>
  <1>0. c \in Seq(S) /\ P \in Seq(S)
    BY DEF IsList
  <1>1. c \in Seq(S) /\ P \in Seq(S) /\ Len(P) = 2 /\ P[1] = "CHAIN" /\ P[2] = "-" /\ Len(c) \in Nat
    BY DEF IsList
  <1>2. AutoGroup(c) = P \o c
    BY DEF AutoGroup
  <1> HIDE DEF S, P
  <1>3. /\ AutoGroup(c) \in Seq(S) /\ Len(AutoGroup(c)) = Len(c) + 2
        /\ AutoGroup(c)[1] = "CHAIN" /\ AutoGroup(c)[2] = "-"
        /\ \A i \in 1..Len(c) : AutoGroup(c)[i + 2] = c[i]
    <2>1. /\ AutoGroup(c) \in Seq(S) /\ Len(AutoGroup(c)) = Len(P) + Len(c)
          /\ \A i \in 1..Len(P) : AutoGroup(c)[i] = P[i]
          /\ \A i \in 1..Len(c) : AutoGroup(c)[Len(P) + i] = c[i]
      BY <1>0, <1>2, BehindPrefix
    <2>2. \A i \in 1..Len(c) : i + 2 = Len(P) + i
      BY <1>1
    <2>3. Len(P) + Len(c) = Len(c) + 2 /\ 1 \in 1..Len(P) /\ 2 \in 1..Len(P)
      BY <1>1
    <2>4. QED
      BY <1>1, <2>1, <2>2, <2>3
  <1>4. AutoGroup(c) \notin Builtin
    <2>1. Len(DIRECT) = 1 /\ Len(REJECT) = 1
      BY DEF DIRECT, REJECT
    <2>2. Len(AutoGroup(c)) # 1
      BY <1>1, <1>3
    <2>3. QED
      BY <2>1, <2>2 DEF Builtin
  <1>5. HasAutoPrefix(AutoGroup(c))
    <2>1. AutoGroup(<<>>) = P
      BY DEF AutoGroup, P
    <2>2. IsPrefix(P, AutoGroup(c))
      <3>1. Len(P) <= Len(AutoGroup(c))
        BY <1>1, <1>3
      <3>2. \A i \in 1..2 : AutoGroup(c)[i] = P[i]
        BY <1>1, <1>3
      <3>3. SubSeq(AutoGroup(c), 1, 2) = P
        BY <1>1, <1>3, <3>1, <3>2
      <3>4. QED
        BY <1>1, <3>1, <3>3 DEF IsPrefix
    <2>3. QED
      BY <2>1, <2>2 DEF HasAutoPrefix
  <1>6. ASSUME NEW d, IsList(d), AutoGroup(d) = AutoGroup(c) PROVE d = c
    <2> DEFINE U == ToSet(d) \cup {"CHAIN", "-"}
    <2>1. d \in Seq(U) /\ P \in Seq(U) /\ Len(d) \in Nat
      BY <1>6 DEF IsList, P
    <2>2. AutoGroup(d) = P \o d
      BY DEF AutoGroup, P
    <2> HIDE DEF U
    <2>3. /\ Len(AutoGroup(d)) = Len(d) + 2
          /\ \A i \in 1..Len(d) : AutoGroup(d)[i + 2] = d[i]
      <3>1. /\ Len(AutoGroup(d)) = Len(P) + Len(d)
            /\ \A i \in 1..Len(d) : AutoGroup(d)[Len(P) + i] = d[i]
        BY <2>1, <2>2, BehindPrefix
      <3>2. \A i \in 1..Len(d) : i + 2 = Len(P) + i
        BY <1>1, <2>1
      <3>3. Len(P) + Len(d) = Len(d) + 2
        BY <1>1, <2>1
      <3>4. QED
        BY <3>1, <3>2, <3>3
    <2>4. Len(d) = Len(c)
      BY <1>1, <1>3, <1>6, <2>1, <2>3
    <2>5. \A i \in 1..Len(c) : d[i] = c[i]
      BY <1>3, <1>6, <2>3, <2>4
    <2>6. QED
      BY <1>1, <2>1, <2>4, <2>5
  <1>7. IsList(AutoGroup(c))
    BY <1>3, SequenceIsList
  <1>8. QED
    BY <1>4, <1>5, <1>6, <1>7

---------------------------------------------------------------------------
\* Members of groups.

\* What a member may be: one of the proxies it is chosen from, or a name the
\* profile declares.
IsMember(p, m, S) ==
  \/ \E q \in S : m = ProxyMember(q.id)
  \/ \E x \in GroupNames(p) \cup Builtin : m = NameMember(x)

\* References to a list of proxies, one for each.
LEMMA MembersAreListed ==
  ASSUME NEW list, IsList(list)
  PROVE  /\ Len(MemberRefs(list)) = Len(list) /\ DOMAIN MemberRefs(list) = 1..Len(list)
         /\ \A i \in 1..Len(list) : MemberRefs(list)[i] = ProxyMember(list[i].id)
         /\ MemberRefs(list) \in Seq({ProxyMember(q.id) : q \in ToSet(list)})
  <1> DEFINE M == {ProxyMember(q.id) : q \in ToSet(list)}
             r == MemberRefs(list)
  <1>1. Len(list) \in Nat /\ DOMAIN list = 1..Len(list) /\ \A i \in 1..Len(list) : list[i] \in ToSet(list)
    BY ListDomain
  <1>2. r = [i \in 1..Len(list) |-> ProxyMember(list[i].id)]
    BY <1>1 DEF MemberRefs
  <1>3. \A i \in 1..Len(list) : ProxyMember(list[i].id) \in M
    BY <1>1
  <1> HIDE DEF M, r
  <1>4. r \in Seq(M) /\ Len(r) = Len(list) /\ DOMAIN r = 1..Len(list)
    BY <1>1, <1>2, <1>3
  <1>5. QED
    BY <1>2, <1>4 DEF r, M

\* A group of an accepted profile has members of these kinds only.
LEMMA GroupMembersAre ==
  ASSUME NEW p, NEW tgt, ProfileIsListed(p), ProfileFault(p, tgt) = Fine,
         NEW g \in ToSet(p.groups), NEW matched, NEW all, IsList(matched), IsList(all)
  PROVE  /\ IsList(GroupMembers(g, matched, all))
         /\ \A m \in ToSet(GroupMembers(g, matched, all)) : IsMember(p, m, ToSet(matched) \cup ToSet(all))
  <1> DEFINE S == ToSet(matched) \cup ToSet(all)
             M == {ProxyMember(q.id) : q \in S} \cup {NameMember(x) : x \in GroupNames(p) \cup Builtin}
             r == GroupMembers(g, matched, all)
  <1>1. IsList(g.members) /\ Len(g.members) \in Nat /\ DOMAIN g.members = 1..Len(g.members)
        /\ \A i \in 1..Len(g.members) : g.members[i] \in ToSet(g.members)
    <2>1. IsList(g.members)
      BY DEF ProfileIsListed
    <2>2. QED
      BY <2>1, ListDomain
  <1>2. r \in Seq(M)
    <2>1. CASE g.type = "select" /\ g.members # <<>>
      <3> DEFINE ss == [i \in DOMAIN g.members |->
                   IF g.members[i] = AllSubs THEN MemberRefs(all) ELSE <<NameMember(g.members[i])>>]
      <3>1. r = FlattenSeq(ss)
        BY <2>1 DEF GroupMembers
      <3>2. ToSet(g.members) \subseteq GroupNames(p) \cup Builtin \cup {AllSubs}
        <4>1. PICK i \in DOMAIN p.groups : g = p.groups[i]
          BY DEF ToSet
        <4>2. QED
          BY <2>1, <4>1, AcceptedGroups
      <3>3. MemberRefs(all) \in Seq(M)
        <4>1. MemberRefs(all) \in Seq({ProxyMember(q.id) : q \in ToSet(all)})
          BY MembersAreListed
        <4>2. {ProxyMember(q.id) : q \in ToSet(all)} \subseteq M
          OBVIOUS
        <4> HIDE DEF M
        <4>3. QED
          BY <4>1, <4>2
      <3>4. ASSUME NEW i \in 1..Len(g.members), g.members[i] # AllSubs
            PROVE  <<NameMember(g.members[i])>> \in Seq(M)
        <4>1. g.members[i] \in GroupNames(p) \cup Builtin
          BY <1>1, <3>2, <3>4
        <4>2. NameMember(g.members[i]) \in M
          BY <4>1
        <4> HIDE DEF M
        <4>3. QED
          BY <4>2
      <3> HIDE DEF M
      <3>5. ss \in Seq(Seq(M))
        <4>1. \A i \in 1..Len(g.members) :
                (IF g.members[i] = AllSubs THEN MemberRefs(all) ELSE <<NameMember(g.members[i])>>) \in Seq(M)
          BY <3>3, <3>4
        <4>2. ss = [i \in 1..Len(g.members) |->
                   IF g.members[i] = AllSubs THEN MemberRefs(all) ELSE <<NameMember(g.members[i])>>]
          BY <1>1
        <4> HIDE DEF ss
        <4>3. QED
          BY <1>1, <4>1, <4>2
      <3> HIDE DEF ss
      <3>6. QED
        BY <3>1, <3>5, FlattenLays
    <2>2. CASE ~(g.type = "select" /\ g.members # <<>>)
      <3> DEFINE T == {q \in ToSet(matched) : Matches(g.regex, q.name)}
                 o == Only(matched, T)
      <3>1. r = MemberRefs(o)
        BY <2>2 DEF GroupMembers
      <3>2. o \in Seq(ToSet(matched)) /\ ToSet(o) = ToSet(matched) \cap T
        BY OnlyTakes DEF IsList
      <3> HIDE DEF T, o
      <3>3. IsList(o)
        <4>1. Len(o) \in Nat /\ DOMAIN o = 1..Len(o) /\ o = [i \in 1..Len(o) |-> o[i]]
          BY <3>2
        <4>2. QED
          BY <4>1, ListOfLen
      <3>4. r \in Seq({ProxyMember(q.id) : q \in ToSet(o)})
        BY <3>1, <3>3, MembersAreListed
      <3>5. {ProxyMember(q.id) : q \in ToSet(o)} \subseteq M
        BY <3>2
      <3> HIDE DEF M, r
      <3>6. QED
        BY <3>4, <3>5
    <2>3. QED
      BY <2>1, <2>2
  <1> HIDE DEF M, r
  <1>3. DOMAIN r = 1..Len(r) /\ Len(r) \in Nat /\ r = [i \in 1..Len(r) |-> r[i]] /\ \A i \in 1..Len(r) : r[i] \in M
    BY <1>2
  <1>4. IsList(r)
    BY <1>3, ListOfLen
  <1>5. \A m \in ToSet(r) : m \in M
    BY <1>3 DEF ToSet
  <1>6. \A m \in M : IsMember(p, m, S)
    BY DEF M, IsMember
  <1>7. QED
    BY <1>4, <1>5, <1>6 DEF r

\* Lists whose elements differ in their names, or in their identities.
NamedApart(list) == \A i, j \in DOMAIN list : list[i].name = list[j].name => i = j

KnownApart(list) == \A i, j \in DOMAIN list : list[i].id = list[j].id => i = j

\* The custom proxies that some chain selects nodes for.
LEMMA ActiveFacts ==
  ASSUME IsList(prof.customs), NamedApart(prof.customs)
  PROVE  /\ IsList(ActiveCustoms) /\ NamedApart(ActiveCustoms) /\ InOrderOf(ActiveCustoms, prof.customs)
         /\ ToSet(ActiveCustoms) = {c \in ToSet(prof.customs) : selected[c.name] # {}}
  <1> DEFINE T == {c \in ToSet(prof.customs) : selected[c.name] # {}}
             A == Only(prof.customs, T)
  <1>1. ActiveCustoms = A
    BY DEF ActiveCustoms, WithSelection
  <1> HIDE DEF T
  <1>2. IsList(A) /\ ToSet(A) = ToSet(prof.customs) \cap T
    BY OnlyIsList
  <1>3. NamedApart(A) /\ InOrderOf(A, prof.customs)
    <2>0. A = Only(prof.customs, T)
      OBVIOUS
    <2> HIDE DEF A
    <2>1. DOMAIN A = 1..Len(A) /\ DOMAIN prof.customs = 1..Len(prof.customs)
      BY <1>2, ListDomain
    <2>2a. InOrderOf(A, prof.customs)
      BY <2>0, OnlyDiffers
    <2>2. ASSUME NEW i \in 1..Len(A), NEW j \in 1..Len(A), A[i].name = A[j].name PROVE i = j
      <3>1. \E a, b \in 1..Len(prof.customs) :
              /\ A[i] = prof.customs[a] /\ A[j] = prof.customs[b] /\ (i < j => a < b) /\ (a = b => i = j)
        BY <2>2a DEF InOrderOf
      <3>2. QED
        BY <3>1, <2>1, <2>2 DEF NamedApart
    <2>3. QED
      BY <2>1, <2>2, <2>2a DEF NamedApart
  <1>4. QED
    BY <1>1, <1>2, <1>3 DEF T

\* The pairs come by custom proxy and then by node, as the profile and the
\* subscriptions have them.
PairsInOrder == \A q, l \in 1..Len(Pairs) : q < l =>
  \E x, y \in 1..Len(prof.customs) :
    /\ prof.customs[x].name = Pairs[q].custom /\ prof.customs[y].name = Pairs[l].custom
    /\ x < y \/ (x = y /\ \E i, j \in 1..Len(SubProxies) :
                            i < j /\ SubProxies[i] = Pairs[q].sub /\ SubProxies[j] = Pairs[l].sub)

\* The pairs to derive: each active custom proxy with each node selected for
\* it, once.
LEMMA PairFacts ==
  ASSUME IsList(prof.customs), NamedApart(prof.customs), IsList(SubProxies), KnownApart(SubProxies)
  PROVE  /\ Len(Pairs) \in Nat /\ DOMAIN Pairs = 1..Len(Pairs)
         /\ \A q \in 1..Len(Pairs) :
              /\ \E c \in ToSet(ActiveCustoms) : Pairs[q].custom = c.name
              /\ Pairs[q].sub \in ToSet(SubProxies)
              /\ Pairs[q].sub.id.host \in selected[Pairs[q].custom]
         /\ \A q, l \in 1..Len(Pairs) : Pairs[q].custom = Pairs[l].custom /\ Pairs[q].sub.id = Pairs[l].sub.id => q = l
         /\ \A c \in ToSet(ActiveCustoms) : \A p \in ToSet(SubProxies) :
              p.id.host \in selected[c.name] =>
                \E q \in 1..Len(Pairs) : Pairs[q].custom = c.name /\ Pairs[q].sub = p
         /\ PairsInOrder
  <1> DEFINE A == ActiveCustoms
             B == SubProxies
             T(c) == {p \in ToSet(B) : p.id.host \in selected[A[c].name]}
             O(c) == Only(B, T(c))
             L(c) == [i \in DOMAIN O(c) |-> [custom |-> A[c].name, sub |-> O(c)[i]]]
             ss == [c \in DOMAIN A |-> L(c)]
             N == {A[c].name : c \in DOMAIN A}
             PS == [custom : N, sub : ToSet(B)]
             R == Pairs
  <1>1. R = FlattenSeq(ss)
    BY DEF Pairs
  <1>2. IsList(A) /\ NamedApart(A) /\ Len(A) \in Nat /\ DOMAIN A = 1..Len(A) /\ \A c \in 1..Len(A) : A[c] \in ToSet(A)
    BY ActiveFacts, ListDomain
  <1>2a. InOrderOf(A, prof.customs)
    BY ActiveFacts
  <1>3. IsList(B) /\ KnownApart(B) /\ Len(B) \in Nat /\ DOMAIN B = 1..Len(B)
    BY ListDomain
  <1> HIDE DEF A, B, R
  <1>4. ASSUME NEW c \in 1..Len(A)
        PROVE  /\ Len(O(c)) \in Nat /\ DOMAIN O(c) = 1..Len(O(c))
               /\ \A i \in 1..Len(O(c)) : O(c)[i] \in ToSet(B) /\ O(c)[i].id.host \in selected[A[c].name]
               /\ \A p \in T(c) : \E i \in 1..Len(O(c)) : O(c)[i] = p
               /\ \A i, j \in 1..Len(O(c)) : O(c)[i].id = O(c)[j].id => i = j
               /\ InOrderOf(O(c), B)
    <2> DEFINE t == T(c)
    <2>0. t \subseteq ToSet(B) /\ \A p \in t : p.id.host \in selected[A[c].name]
      OBVIOUS
    <2> HIDE DEF t
    <2> DEFINE o == Only(B, t)
    <2>1. IsList(o) /\ ToSet(o) = ToSet(B) \cap t
      BY <1>3, OnlyIsList
    <2>1a. o = Only(B, t)
      OBVIOUS
    <2> HIDE DEF o
    <2>1b. InOrderOf(o, B)
      BY <1>3, <2>1a, OnlyDiffers
    <2>2. \A i, j \in 1..Len(o) : o[i].id = o[j].id => i = j
      <3>1. ASSUME NEW i \in 1..Len(o), NEW j \in 1..Len(o), o[i].id = o[j].id PROVE i = j
        <4>1. \E a, b \in 1..Len(B) : /\ o[i] = B[a] /\ o[j] = B[b] /\ (i < j => a < b) /\ (a = b => i = j)
          BY <2>1b DEF InOrderOf
        <4>2. QED
          BY <4>1, <3>1, <1>3 DEF KnownApart
      <3>2. QED
        BY <3>1
    <2>3. Len(o) \in Nat /\ DOMAIN o = 1..Len(o) /\ \A i \in 1..Len(o) : o[i] \in ToSet(o)
      BY <2>1, ListDomain
    <2>4. \A i \in 1..Len(o) : o[i] \in ToSet(B) /\ o[i].id.host \in selected[A[c].name]
      BY <2>0, <2>1, <2>3
    <2>5. \A p \in t : \E i \in 1..Len(o) : o[i] = p
      <3> TAKE p \in t
      <3>1. p \in ToSet(o)
        BY <2>0, <2>1
      <3>2. QED
        BY <3>1, <2>3 DEF ToSet
    <2>6. QED
      BY <2>1b, <2>2, <2>3, <2>4, <2>5 DEF o, t
  <1> HIDE DEF O, T
  <1>5. ASSUME NEW c \in 1..Len(A)
        PROVE  /\ ss[c] \in Seq(PS) /\ Len(ss[c]) = Len(O(c))
               /\ \A i \in 1..Len(O(c)) : ss[c][i] = [custom |-> A[c].name, sub |-> O(c)[i]]
    <2>1. \A i \in 1..Len(O(c)) : [custom |-> A[c].name, sub |-> O(c)[i]] \in PS
      BY <1>2, <1>4
    <2>2. ss[c] = [i \in 1..Len(O(c)) |-> [custom |-> A[c].name, sub |-> O(c)[i]]]
      BY <1>2, <1>4
    <2> HIDE DEF PS, ss
    <2>3. Len(O(c)) \in Nat
      BY <1>4
    <2>4. QED
      BY <2>1, <2>2, <2>3
  <1>6. DOMAIN ss = 1..Len(A) /\ ss = [c \in 1..Len(A) |-> ss[c]]
    BY <1>2
  <1> HIDE DEF ss, PS
  <1>7. ss \in Seq(Seq(PS)) /\ Len(ss) = Len(A)
    BY <1>2, <1>5, <1>6
  <1>8. R \in Seq(PS) /\ \E a, b : Lays(R, ss, Len(ss), a, b)
    BY <1>1, <1>7, FlattenLays
  <1>9. PICK a, b : Lays(R, ss, Len(ss), a, b)
    BY <1>8
  <1>10. Len(R) \in Nat /\ DOMAIN R = 1..Len(R)
    BY <1>8
  <1>11. ASSUME NEW q \in 1..Len(R)
         PROVE  /\ a[q] \in 1..Len(A) /\ b[q] \in 1..Len(O(a[q]))
                /\ R[q] = [custom |-> A[a[q]].name, sub |-> O(a[q])[b[q]]]
    <2>1. a[q] \in 1..Len(A) /\ b[q] \in Nat \ {0} /\ b[q] <= Len(ss[a[q]]) /\ R[q] = ss[a[q]][b[q]]
      BY <1>7, <1>9 DEF Lays
    <2>2. b[q] \in 1..Len(O(a[q]))
      BY <2>1, <1>4, <1>5
    <2>3. QED
      BY <2>1, <2>2, <1>5
  <1>12. ASSUME NEW q \in 1..Len(R)
         PROVE  /\ R[q].custom = A[a[q]].name /\ A[a[q]] \in ToSet(A) /\ R[q].sub = O(a[q])[b[q]]
                /\ R[q].sub \in ToSet(B) /\ R[q].sub.id.host \in selected[R[q].custom]
    <2>1. R[q].custom = A[a[q]].name /\ R[q].sub = O(a[q])[b[q]]
      <3>1. R[q] = [custom |-> A[a[q]].name, sub |-> O(a[q])[b[q]]]
        BY <1>11
      <3>2. QED
        BY <3>1
    <2>2. QED
      BY <2>1, <1>2, <1>4, <1>11
  <1>13. ASSUME NEW q \in 1..Len(R), NEW l \in 1..Len(R), R[q].custom = R[l].custom, R[q].sub.id = R[l].sub.id
         PROVE  q = l
    <2>1. a[q] = a[l]
      <3>1. a[q] \in DOMAIN A /\ a[l] \in DOMAIN A
        BY <1>2, <1>11
      <3>2. A[a[q]].name = A[a[l]].name
        BY <1>12, <1>13
      <3>3. QED
        BY <3>1, <3>2, <1>2 DEF NamedApart
    <2>2. b[q] = b[l]
      <3>1. a[q] \in 1..Len(A) /\ b[q] \in 1..Len(O(a[q])) /\ b[l] \in 1..Len(O(a[q]))
        BY <1>11, <2>1
      <3>2. O(a[q])[b[q]].id = O(a[q])[b[l]].id
        BY <1>12, <1>13, <2>1
      <3>3. QED
        BY <3>1, <3>2, <1>4
    <2>3. q < l => (a[q] < a[l] \/ (a[q] = a[l] /\ b[q] < b[l]))
      BY <1>9 DEF Lays
    <2>4. l < q => (a[l] < a[q] \/ (a[l] = a[q] /\ b[l] < b[q]))
      BY <1>9 DEF Lays
    <2>5. a[q] \in Nat /\ b[q] \in Nat
      <3>1. a[q] \in 1..Len(A) /\ b[q] \in 1..Len(O(a[q]))
        BY <1>11
      <3>2. QED
        BY <3>1
    <2>6. QED
      BY <2>1, <2>2, <2>3, <2>4, <2>5
  <1>14. ASSUME NEW c \in ToSet(A), NEW p \in ToSet(B), p.id.host \in selected[c.name]
         PROVE  \E q \in 1..Len(R) : R[q].custom = c.name /\ R[q].sub = p
    <2>1. PICK x \in 1..Len(A) : A[x] = c
      BY <1>2 DEF ToSet
    <2>2. PICK i \in 1..Len(O(x)) : O(x)[i] = p
      <3>1. p \in T(x)
        BY <1>14, <2>1 DEF T
      <3>2. QED
        BY <3>1, <1>4
    <2>3. PICK q \in 1..Len(R) : a[q] = x /\ b[q] = i
      <3>1. x \in 1..Len(ss) /\ i \in 1..Len(ss[x])
        BY <1>5, <1>7
      <3>2. QED
        BY <3>1, <1>9 DEF Lays
    <2>4. QED
      BY <2>1, <2>2, <2>3, <1>12
  <1>15. ASSUME NEW q \in 1..Len(R), NEW l \in 1..Len(R), q < l
         PROVE  \E x, y \in 1..Len(prof.customs) :
                  /\ prof.customs[x].name = R[q].custom /\ prof.customs[y].name = R[l].custom
                  /\ x < y \/ (x = y /\ \E i, j \in 1..Len(B) : i < j /\ B[i] = R[q].sub /\ B[j] = R[l].sub)
    <2>1. a[q] < a[l] \/ (a[q] = a[l] /\ b[q] < b[l])
      BY <1>9, <1>15 DEF Lays
    <2>2. a[q] \in 1..Len(A) /\ a[l] \in 1..Len(A) /\ b[q] \in 1..Len(O(a[q])) /\ b[l] \in 1..Len(O(a[l]))
      BY <1>11
    <2>3. PICK x, y \in 1..Len(prof.customs) :
            A[a[q]] = prof.customs[x] /\ A[a[l]] = prof.customs[y] /\ (a[q] < a[l] => x < y)
      BY <1>2a, <2>2 DEF InOrderOf
    <2>4. /\ R[q].custom = A[a[q]].name /\ R[q].sub = O(a[q])[b[q]]
          /\ R[l].custom = A[a[l]].name /\ R[l].sub = O(a[l])[b[l]]
      BY <1>12
    <2>5. CASE a[q] < a[l]
      BY <2>3, <2>4, <2>5
    <2>6. CASE a[q] = a[l] /\ b[q] < b[l]
      <3>1. InOrderOf(O(a[q]), B)
        BY <1>4, <2>2
      <3>2. b[l] \in 1..Len(O(a[q]))
        BY <2>2, <2>6
      <3>3. PICK i, j \in 1..Len(B) : O(a[q])[b[q]] = B[i] /\ O(a[q])[b[l]] = B[j] /\ (b[q] < b[l] => i < j)
        BY <2>2, <3>1, <3>2 DEF InOrderOf
      <3>4. i < j /\ B[i] = R[q].sub /\ B[j] = R[l].sub
        BY <2>4, <2>6, <3>3
      <3>5. prof.customs[x].name = R[q].custom /\ prof.customs[x].name = R[l].custom
        BY <2>3, <2>4, <2>6
      <3>6. QED
        BY <3>4, <3>5
    <2>7. QED
      BY <2>1, <2>5, <2>6
  <1>16. PairsInOrder
    BY <1>15 DEF PairsInOrder, R, B
  <1>17. QED
    BY <1>10, <1>12, <1>13, <1>14, <1>16 DEF R, A, B

---------------------------------------------------------------------------
\* The nodes and proxies, step by step.

\* The proxies of a list that go through no other.
SubsOf(list) == Only(list, {p \in ToSet(list) : p.via = NoProxy})

\* With one proxy more there is one more of them if it goes through no other.
LEMMA SubsGrow ==
  ASSUME NEW s, IsList(s), NEW p
  PROVE  SubsOf(Append(s, p)) = IF p.via = NoProxy THEN Append(SubsOf(s), p) ELSE SubsOf(s)
  <1> DEFINE S == ToSet(s) \cup {p}
             T == {q \in ToSet(s) : q.via = NoProxy}
             U == {q \in ToSet(Append(s, p)) : q.via = NoProxy}
  <1>1. s \in Seq(S) /\ p \in S
    BY DEF IsList
  <1>2. ToSet(Append(s, p)) = ToSet(s) \cup {p}
    BY OneMore
  <1>3. Alike(s, T, U)
    BY <1>2 DEF Alike
  <1>4. p \in U <=> p.via = NoProxy
    BY <1>2
  <1> HIDE DEF S, T, U
  <1>5. Only(Append(s, p), U) = IF p \in U THEN Append(Only(s, T), p) ELSE Only(s, T)
    BY <1>1, <1>3, OnlyExtends
  <1>6. QED
    BY <1>4, <1>5 DEF SubsOf, T, U

\* Without proxies there are none.
LEMMA NoSubs == SubsOf(<<>>) = <<>> /\ IsList(<<>>)
  <1> DEFINE S == {}  s == <<>>
             T == {p \in ToSet(s) : p.via = NoProxy}
  <1>1. s \in Seq(S) /\ Len(s) = 0 /\ s \in Seq(ToSet(s))
    OBVIOUS
  <1> HIDE DEF T, s, S
  <1>2. Picked(s, T)[0] = <<>>
    <2>1. s \in Seq(S)
      BY <1>1
    <2>2. QED
      BY <2>1, PickedRounds
  <1>3. SubsOf(s) = <<>> /\ IsList(s)
    BY <1>1, <1>2 DEF SubsOf, Only, T, IsList
  <1>4. QED
    BY <1>3 DEF s

\* They are proxies of the list.
LEMMA SubsAre ==
  ASSUME NEW s, IsList(s)
  PROVE  /\ IsList(SubsOf(s)) /\ Len(SubsOf(s)) \in Nat /\ DOMAIN SubsOf(s) = 1..Len(SubsOf(s))
         /\ ToSet(SubsOf(s)) = {p \in ToSet(s) : p.via = NoProxy}
  <1> DEFINE T == {p \in ToSet(s) : p.via = NoProxy}
  <1>1. IsList(Only(s, T)) /\ ToSet(Only(s, T)) = ToSet(s) \cap T
    <2> HIDE DEF T
    <2>1. QED
      BY OnlyIsList
  <1>2. IsList(SubsOf(s)) /\ ToSet(SubsOf(s)) = T
    BY <1>1 DEF SubsOf
  <1>3. QED
    BY <1>2, ListDomain

\* The inputs are lists of nodes and profiles made of lists.
Listed == IsList(subs) /\ AreNodes(subs) /\ ProfileIsListed(prof)

\* That is what the assumptions on the inputs say.
LEMMA InputsAreListed ==
  ASSUME InputInv
  PROVE  Listed
  <1>1. PICK in \in Inputs : subs \in in.subs /\ prof \in in.profs
    BY DEF InputInv
  <1>2. IsList(subs) /\ AreNodes(subs)
    BY <1>1, InputsHaveNodes DEF AreNodes
  <1>3. ProfileIsListed(prof)
    BY <1>1, InputsHaveProfiles DEF ProfileIsListed
  <1>4. QED
    BY <1>2, <1>3 DEF Listed

\* What goes from one stage to the next without a new proxy.
Onward(from, to) ==
  \/ to = from \/ to = "failed"
  \/ from = "parse" /\ to = "dedup"
  \/ from = "name" /\ to = "chain" /\ Len(proxies) = Len(nodes)
  \/ from = "chain" /\ to = "derive"
  \/ from = "derive" /\ to = "rules" /\ Len(proxies) = Len(nodes) + Len(Pairs)
  \/ from = "rules" /\ to = "done"

\* A step that adds no proxy leaves the nodes as they are.
LEMMA NodesFrame ==
  ASSUME NodesInv, UNCHANGED <<nodes, proxies>>, Onward(stage, stage')
  PROVE  NodesInv'
  <1>1. SubProxies' = SubProxies
    BY DEF SubProxies
  <1>2. IsList(nodes)' /\ IsInjective([i \in DOMAIN nodes |-> nodes[i].host])' /\ ("" \notin HostsOf(nodes))'
        /\ IsList(proxies)'
        /\ (\A i \in DOMAIN proxies : i <= Len(nodes) =>
              proxies[i].id = SubID(nodes[i].host) /\ proxies[i].via = NoProxy)'
    BY DEF NodesInv, IsList, HostsOf, ToSet
  <1>3. (stage \in {"parse", "dedup"} => nodes = <<>> /\ proxies = <<>>)'
    BY DEF NodesInv, Onward
  <1>4. (stage = "name" => Len(proxies) <= Len(nodes))'
    BY DEF NodesInv, Onward
  <1>5. Len(nodes) \in Nat /\ Len(proxies) \in Nat
    BY ListDomain DEF NodesInv
  <1>6. (stage \in NodesNamed => Len(nodes) <= Len(proxies))'
    BY <1>5 DEF NodesInv, Onward, NodesNamed
  <1>7. (stage = "chain" => Len(proxies) = Len(nodes))'
    BY DEF NodesInv, Onward
  <1>8. (Compiling => /\ Len(SubProxies) = IF stage = "name" THEN Len(proxies) ELSE Len(nodes)
                      /\ \A i \in DOMAIN SubProxies : SubProxies[i] = proxies[i])'
    <2>1. CASE Compiling
      BY <1>1, <2>1 DEF NodesInv, Onward, Compiling
    <2>2. CASE stage = "parse" /\ stage' = "dedup"
      <3>1. nodes = <<>> /\ SubProxies = <<>>
        BY <2>2, NoSubs DEF NodesInv, SubProxies, SubsOf
      <3>2. QED
        BY <1>1, <2>2, <3>1
    <2>3. QED
      BY <2>1, <2>2 DEF Onward, Compiling
  <1>9. QED
    BY <1>2, <1>3, <1>4, <1>6, <1>7, <1>8 DEF NodesInv

\* A node gets its name.
LEMMA NodeNamed ==
  ASSUME NodesInv, stage = "name", stage' = "name", UNCHANGED nodes, Len(proxies) < Len(nodes),
         NEW p, proxies' = Append(proxies, p), p.id = SubID(nodes[Len(proxies) + 1].host), p.via = NoProxy
  PROVE  NodesInv'
  <1> DEFINE m == Len(proxies)
  <1>1. IsList(proxies) /\ IsList(nodes) /\ m \in Nat /\ DOMAIN proxies = 1..m /\ Len(nodes) \in Nat
    BY ListDomain DEF NodesInv
  <1>2. /\ IsList(proxies') /\ Len(proxies') = m + 1 /\ DOMAIN proxies' = 1..(m + 1)
        /\ proxies'[m + 1] = p /\ \A i \in 1..m : proxies'[i] = proxies[i]
    BY <1>1, OneMore
  <1>3. SubProxies' = Append(SubProxies, p)
    <2>1. SubsOf(Append(proxies, p)) = Append(SubsOf(proxies), p)
      BY <1>1, SubsGrow
    <2>2. SubProxies = SubsOf(proxies) /\ SubProxies' = SubsOf(proxies')
      BY DEF SubProxies, SubsOf
    <2>3. QED
      BY <2>1, <2>2
  <1>4. IsList(SubProxies)
    BY <1>1, SubsAre DEF SubProxies, SubsOf
  <1>5. Len(SubProxies) = m /\ \A i \in DOMAIN SubProxies : SubProxies[i] = proxies[i]
    BY DEF NodesInv, Compiling
  <1>6. /\ Len(SubProxies') = m + 1 /\ DOMAIN SubProxies' = 1..(m + 1)
        /\ SubProxies'[m + 1] = p /\ \A i \in 1..m : SubProxies'[i] = SubProxies[i]
        /\ DOMAIN SubProxies = 1..m
    BY <1>3, <1>4, <1>5, OneMore
  <1> HIDE DEF m
  <1>7. ASSUME NEW i \in 1..(m + 1) PROVE SubProxies'[i] = proxies'[i]
    <2>1. CASE i = m + 1
      BY <1>2, <1>6, <2>1
    <2>2. CASE i \in 1..m
      BY <1>2, <1>5, <1>6, <2>2
    <2>3. QED
      BY <2>1, <2>2, <1>1
  <1>8. ASSUME NEW i \in 1..(m + 1), i <= Len(nodes)
        PROVE  proxies'[i].id = SubID(nodes[i].host) /\ proxies'[i].via = NoProxy
    <2>1. CASE i = m + 1
      BY <1>2, <2>1 DEF m
    <2>2. CASE i \in 1..m
      BY <1>1, <1>2, <1>8, <2>2 DEF NodesInv
    <2>3. QED
      BY <2>1, <2>2, <1>1
  <1>9. IsList(nodes') /\ IsInjective([i \in DOMAIN nodes |-> nodes[i].host])' /\ ("" \notin HostsOf(nodes))'
    BY DEF NodesInv, IsList, HostsOf, ToSet
  <1>10. Len(proxies') <= Len(nodes')
    BY <1>1, <1>2 DEF m
  <1>11. \A i \in DOMAIN proxies' : i <= Len(nodes') =>
           proxies'[i].id = SubID(nodes'[i].host) /\ proxies'[i].via = NoProxy
    BY <1>2, <1>8
  <1>12. Len(SubProxies') = Len(proxies') /\ \A i \in DOMAIN SubProxies' : SubProxies'[i] = proxies'[i]
    BY <1>2, <1>6, <1>7
  <1>13. QED
    BY <1>2, <1>9, <1>10, <1>11, <1>12 DEF NodesInv, NodesNamed

\* A pair gets its name.
LEMMA PairNamed ==
  ASSUME NodesInv, stage = "derive", stage' = "derive", UNCHANGED nodes,
         NEW p, proxies' = Append(proxies, p), p.via # NoProxy
  PROVE  NodesInv' /\ SubProxies' = SubProxies
  <1> DEFINE m == Len(proxies)
  <1>1. IsList(proxies) /\ IsList(nodes) /\ m \in Nat /\ DOMAIN proxies = 1..m /\ Len(nodes) \in Nat /\ Len(nodes) <= m
    BY ListDomain DEF NodesInv, NodesNamed
  <1>2. /\ IsList(proxies') /\ Len(proxies') = m + 1 /\ DOMAIN proxies' = 1..(m + 1)
        /\ proxies'[m + 1] = p /\ \A i \in 1..m : proxies'[i] = proxies[i]
    BY <1>1, OneMore
  <1>3. SubProxies' = SubProxies
    <2>1. SubsOf(Append(proxies, p)) = SubsOf(proxies)
      BY <1>1, SubsGrow
    <2>2. SubProxies = SubsOf(proxies) /\ SubProxies' = SubsOf(proxies')
      BY DEF SubProxies, SubsOf
    <2>3. QED
      BY <2>1, <2>2
  <1>4. /\ Len(SubProxies) = Len(nodes) /\ \A i \in DOMAIN SubProxies : SubProxies[i] = proxies[i]
        /\ DOMAIN SubProxies = 1..Len(SubProxies)
    <2>1. DOMAIN SubProxies = 1..Len(SubProxies)
      BY <1>1, SubsAre DEF SubProxies, SubsOf
    <2>2. QED
      BY <2>1 DEF NodesInv, Compiling
  <1> HIDE DEF m
  <1>5. ASSUME NEW i \in DOMAIN SubProxies PROVE SubProxies[i] = proxies'[i]
    <2>1. i \in 1..m
      BY <1>1, <1>4
    <2>2. QED
      BY <1>2, <1>4, <2>1
  <1>6. ASSUME NEW i \in 1..(m + 1), i <= Len(nodes)
        PROVE  proxies'[i].id = SubID(nodes[i].host) /\ proxies'[i].via = NoProxy
    <2>1. i \in 1..m
      BY <1>1, <1>6
    <2>2. QED
      BY <1>1, <1>2, <1>6, <2>1 DEF NodesInv
  <1>7. IsList(nodes') /\ IsInjective([i \in DOMAIN nodes |-> nodes[i].host])' /\ ("" \notin HostsOf(nodes))'
    BY DEF NodesInv, IsList, HostsOf, ToSet
  <1>8. Len(nodes') <= Len(proxies')
    BY <1>1, <1>2
  <1>9. \A i \in DOMAIN proxies' : i <= Len(nodes') =>
           proxies'[i].id = SubID(nodes'[i].host) /\ proxies'[i].via = NoProxy
    BY <1>2, <1>6
  <1>10. Len(SubProxies') = Len(nodes') /\ \A i \in DOMAIN SubProxies' : SubProxies'[i] = proxies'[i]
    BY <1>3, <1>4, <1>5
  <1>11. QED
    BY <1>2, <1>3, <1>7, <1>8, <1>9, <1>10 DEF NodesInv, NodesNamed

\* The proxies that go through no other are the nodes, in every stage with names.
LEMMA SubsAreNodes ==
  ASSUME NodesInv, stage \in NodesNamed
  PROVE  /\ IsList(SubProxies) /\ Len(SubProxies) = Len(nodes) /\ Len(nodes) \in Nat
         /\ DOMAIN nodes = 1..Len(nodes) /\ DOMAIN SubProxies = 1..Len(nodes)
         /\ \A i \in 1..Len(nodes) : /\ SubProxies[i] = proxies[i] /\ proxies[i] \in ToSet(proxies)
                                     /\ SubProxies[i].id = SubID(nodes[i].host)
         /\ KnownApart(SubProxies)
         /\ ToSet(SubProxies) = {p \in ToSet(proxies) : p.via = NoProxy}
         /\ \A p \in ToSet(SubProxies) : /\ p.id.host \in HostsOf(nodes) /\ p.id = SubID(p.id.host)
                                         /\ p.id # NoProxy /\ p.via = NoProxy
  <1>1. IsList(SubProxies) /\ DOMAIN SubProxies = 1..Len(SubProxies)
        /\ ToSet(SubProxies) = {p \in ToSet(proxies) : p.via = NoProxy}
    BY SubsAre DEF SubProxies, SubsOf, NodesInv
  <1>2. Len(SubProxies) = Len(nodes) /\ \A i \in DOMAIN SubProxies : SubProxies[i] = proxies[i]
    BY DEF NodesInv, Compiling, NodesNamed
  <1>3. Len(nodes) \in Nat /\ DOMAIN nodes = 1..Len(nodes) /\ Len(proxies) \in Nat /\ DOMAIN proxies = 1..Len(proxies)
        /\ Len(nodes) <= Len(proxies)
    BY ListDomain DEF NodesInv
  <1>4. ASSUME NEW i \in 1..Len(nodes)
        PROVE  /\ SubProxies[i] = proxies[i] /\ proxies[i] \in ToSet(proxies)
               /\ SubProxies[i].id = SubID(nodes[i].host) /\ nodes[i].host \in HostsOf(nodes) /\ nodes[i].host # ""
    <2>1. i \in DOMAIN proxies /\ i <= Len(nodes) /\ SubProxies[i] = proxies[i]
      BY <1>1, <1>2, <1>3
    <2>2. proxies[i] \in ToSet(proxies)
      BY <2>1 DEF ToSet
    <2>3. nodes[i].host \in HostsOf(nodes)
      BY <1>3 DEF HostsOf
    <2>4. "" \notin HostsOf(nodes)
      BY DEF NodesInv
    <2>5. proxies[i].id = SubID(nodes[i].host)
      BY <2>1 DEF NodesInv
    <2>6. nodes[i].host # ""
      BY <2>3, <2>4
    <2>7. QED
      BY <2>1, <2>2, <2>3, <2>5, <2>6
  <1>5. \A h : SubID(h).host = h /\ (h # "" => SubID(h) # NoProxy)
    BY DEF SubID, NoProxy
  <1>6. KnownApart(SubProxies)
    <2>1. ASSUME NEW i \in 1..Len(nodes), NEW j \in 1..Len(nodes), SubProxies[i].id = SubProxies[j].id PROVE i = j
      <3>1. nodes[i].host = nodes[j].host
        <4>1. SubID(nodes[i].host) = SubID(nodes[j].host)
          BY <1>4, <2>1
        <4>2. QED
          BY <4>1, <1>5
      <3>2. \A x, y \in DOMAIN nodes : nodes[x].host = nodes[y].host => x = y
        BY DEF NodesInv, IsInjective
      <3>3. QED
        BY <3>1, <3>2, <1>3
    <2>2. QED
      BY <2>1, <1>1, <1>2 DEF KnownApart
  <1>7. ASSUME NEW p \in ToSet(SubProxies)
        PROVE  p.id.host \in HostsOf(nodes) /\ p.id = SubID(p.id.host) /\ p.id # NoProxy /\ p.via = NoProxy
    <2>1. PICK i \in 1..Len(nodes) : p = SubProxies[i]
      BY <1>1, <1>2 DEF ToSet
    <2>2. p.id = SubID(nodes[i].host) /\ nodes[i].host \in HostsOf(nodes) /\ nodes[i].host # ""
      BY <1>4, <2>1
    <2>3. p.via = NoProxy
      BY <1>1
    <2>4. QED
      BY <1>5, <2>2, <2>3
  <1>8. QED
    BY <1>1, <1>2, <1>3, <1>4, <1>6, <1>7

---------------------------------------------------------------------------
\* What the groups expand to: expandGroupProxyIDs ends, because path grows.

\* The body of the recursion, for any function in place of the recursive calls.
Body(f, g, path) == IF g \in path THEN Reentered ELSE Gathered(Opened(g, f[path \cup {g}]))

\* The functions the definition of Expansion chooses from.
Expands(f) == f = [path \in SUBSET GroupNames(prof) |-> [g \in GroupNames(prof) |-> Body(f, g, path)]]

\* Expansion is the choice of one of them.
LEMMA ExpansionIs == Expansion = CHOOSE f : Expands(f)
  BY DEF Expansion, Expands, Body

\* The body calls for the groups with the group itself opened.
LEMMA BodyAgrees ==
  ASSUME NEW f, NEW e, NEW g, NEW path, g \in path \/ \A h \in GroupNames(prof) : f[path \cup {g}][h] = e[path \cup {g}][h]
  PROVE  Body(f, g, path) = Body(e, g, path)
  <1>1. CASE g \in path
    BY <1>1 DEF Body
  <1>2. CASE \A h \in GroupNames(prof) : f[path \cup {g}][h] = e[path \cup {g}][h]
    <2>1. Opened(g, f[path \cup {g}]) = Opened(g, e[path \cup {g}])
      BY <1>2 DEF Opened
    <2>2. QED
      BY <2>1 DEF Body
  <1>3. QED
    BY <1>1, <1>2

\* The groups that may still be opened below path.
Unopened(path) == Cardinality(GroupNames(prof) \ path)

\* The equation holds where at most m groups may still be opened.
Solves(f, m) == \A path \in SUBSET GroupNames(prof) : Unopened(path) <= m =>
  \A g \in GroupNames(prof) : f[path][g] = Body(f, g, path)

\* A profile has finitely many groups.
LEMMA FiniteGroups ==
  ASSUME IsList(prof.groups)
  PROVE  IsFiniteSet(GroupNames(prof))
  <1> DEFINE D == DOMAIN prof.groups
             f == [i \in D |-> prof.groups[i].name]
  <1>1. D = 1..Len(prof.groups) /\ Len(prof.groups) \in Nat
    BY ListDomain
  <1>2. IsFiniteSet(D)
    BY <1>1, FS_Interval
  <1>3. f \in Surjection(D, GroupNames(prof))
    BY DEF Surjection, GroupNames
  <1> HIDE DEF D, f
  <1>4. QED
    BY <1>2, <1>3, FS_Surjection

\* Each group that is opened leaves one less to open.
LEMMA UnopenedShrinks ==
  ASSUME IsList(prof.groups)
  PROVE  \A path \in SUBSET GroupNames(prof) :
           /\ Unopened(path) \in Nat /\ (Unopened(path) = 0 => path = GroupNames(prof)) /\ Unopened(path) <= Unopened({})
           /\ \A g \in GroupNames(prof) \ path :
                path \cup {g} \in SUBSET GroupNames(prof) /\ Unopened(path \cup {g}) = Unopened(path) - 1
  <1> DEFINE G == GroupNames(prof)
  <1>1. IsFiniteSet(G)
    BY FiniteGroups
  <1> HIDE DEF G
  <1>2. ASSUME NEW path \in SUBSET G
        PROVE  Unopened(path) \in Nat /\ (Unopened(path) = 0 => path = G) /\ Unopened(path) <= Unopened({})
    <2>1. IsFiniteSet(G \ path) /\ G \ {} = G /\ G \ path \in SUBSET G
      BY <1>1, FS_Subset
    <2>2. Cardinality(G \ path) <= Cardinality(G)
      BY <1>1, <2>1, FS_Subset
    <2>3. Cardinality(G \ path) \in Nat /\ (Cardinality(G \ path) = 0 => G \ path = {})
      BY <2>1, FS_CardinalityType, FS_EmptySet
    <2>4. QED
      BY <2>1, <2>2, <2>3 DEF Unopened, G
  <1>3. ASSUME NEW path \in SUBSET G, NEW g \in G \ path
        PROVE  path \cup {g} \in SUBSET G /\ Unopened(path \cup {g}) = Unopened(path) - 1
    <2>1. IsFiniteSet(G \ path)
      BY <1>1, FS_Subset
    <2>2. (G \ path) \ {g} = G \ (path \cup {g}) /\ g \in G \ path
      OBVIOUS
    <2>3. Cardinality((G \ path) \ {g}) = Cardinality(G \ path) - 1
      BY <2>1, <2>2, FS_RemoveElement
    <2>4. QED
      BY <2>2, <2>3 DEF Unopened, G
  <1>4. QED
    BY <1>2, <1>3 DEF G

\* So there is such a function, by induction over the number of groups that may
\* still be opened, and Expansion satisfies its equation.
THEOREM ExpansionExists ==
  ASSUME IsList(prof.groups)
  PROVE  \A g \in GroupNames(prof) : \A path \in SUBSET GroupNames(prof) :
           Expansion[path][g] = Body(Expansion, g, path)
  <1> DEFINE G == GroupNames(prof)
             P == {m \in Nat : \E f : Solves(f, m)}
  <1>1. \A path \in SUBSET G : Unopened(path) \in Nat /\ (Unopened(path) = 0 => path = G) /\ Unopened(path) <= Unopened({})
    BY UnopenedShrinks
  <1>2. \A path \in SUBSET G : \A g \in G \ path :
          path \cup {g} \in SUBSET G /\ Unopened(path \cup {g}) = Unopened(path) - 1
    BY UnopenedShrinks
  <1> HIDE DEF G
  <1>3. 0 \in P
    <2> DEFINE f == [path \in SUBSET G |-> [g \in G |-> Reentered]]
    <2>1. ASSUME NEW path \in SUBSET G, Unopened(path) <= 0, NEW g \in G PROVE f[path][g] = Body(f, g, path)
      <3>1. g \in path
        BY <1>1, <2>1
      <3>2. Body(f, g, path) = Reentered
        BY <3>1 DEF Body
      <3>3. f[path][g] = Reentered
        OBVIOUS
      <3>4. QED
        BY <3>2, <3>3
    <2> HIDE DEF f
    <2>2. Solves(f, 0)
      BY <2>1 DEF Solves, G
    <2>3. QED
      BY <2>2
  <1>4. ASSUME NEW m \in Nat, m \in P PROVE m + 1 \in P
    <2>1. PICK f : Solves(f, m)
      BY <1>4
    <2> DEFINE e == [path \in SUBSET G |-> [g \in G |-> IF Unopened(path) = m + 1 THEN Body(f, g, path) ELSE f[path][g]]]
    <2>2. \A g \in G : \A path \in SUBSET G :
            e[path][g] = IF Unopened(path) = m + 1 THEN Body(f, g, path) ELSE f[path][g]
      OBVIOUS
    <2> HIDE DEF e
    <2>3. ASSUME NEW path \in SUBSET G, Unopened(path) <= m + 1, NEW g \in G PROVE e[path][g] = Body(e, g, path)
      <3>1. Body(e, g, path) = Body(f, g, path)
        <4>1. CASE g \in path
          BY <4>1 DEF Body
        <4>2. CASE g \notin path
          <5>1. path \cup {g} \in SUBSET G /\ Unopened(path \cup {g}) # m + 1
            BY <1>1, <1>2, <2>3, <4>2
          <5>2. \A h \in G : e[path \cup {g}][h] = f[path \cup {g}][h]
            BY <2>2, <5>1
          <5>3. QED
            BY <5>2, BodyAgrees DEF G
        <4>3. QED
          BY <4>1, <4>2
      <3>2. CASE Unopened(path) = m + 1
        BY <2>2, <3>1, <3>2
      <3>3. CASE Unopened(path) # m + 1
        <4>1. Unopened(path) <= m
          BY <1>1, <2>3, <3>3
        <4>2. f[path][g] = Body(f, g, path)
          BY <2>1, <4>1 DEF Solves, G
        <4>3. QED
          BY <2>2, <3>1, <3>3, <4>2
      <3>4. QED
        BY <3>2, <3>3
    <2>4. Solves(e, m + 1)
      BY <2>3 DEF Solves, G
    <2>5. QED
      BY <2>4
  <1> HIDE DEF P
  <1>5. Unopened({}) \in P
    <2>1. Nat \subseteq P
      BY <1>3, <1>4, SetInduction
    <2>2. QED
      BY <2>1, <1>1
  <1>6. PICK f : Solves(f, Unopened({}))
    BY <1>5 DEF P
  <1>7. \A g \in G : \A path \in SUBSET G : f[path][g] = Body(f, g, path)
    <2>1. QED
      BY <1>1, <1>6 DEF Solves, G
  <1> DEFINE e == [path \in SUBSET G |-> [g \in G |-> f[path][g]]]
  <1>8. \A g \in G : \A path \in SUBSET G : e[path][g] = f[path][g]
    OBVIOUS
  <1>9. ASSUME NEW g \in G, NEW path \in SUBSET G PROVE Body(e, g, path) = f[path][g]
    <2> HIDE DEF e
    <2>1. g \in path \/ \A h \in G : e[path \cup {g}][h] = f[path \cup {g}][h]
      BY <1>8
    <2>2. Body(e, g, path) = Body(f, g, path)
      BY <2>1, BodyAgrees DEF G
    <2>3. QED
      BY <2>2, <1>7
  <1>10. e = [path \in SUBSET G |-> [g \in G |-> Body(e, g, path)]]
    <2>1. \A g \in G : \A path \in SUBSET G : Body(e, g, path) = f[path][g]
      BY <1>9
    <2> DEFINE d == [path \in SUBSET G |-> [g \in G |-> Body(e, g, path)]]
    <2>2. QED
      BY <2>1, Zenon
  <1> HIDE DEF e
  <1>11. \E h : Expands(h)
    BY <1>10 DEF Expands, G
  <1>12. Expands(Expansion)
    BY <1>11, ExpansionIs
  <1>13. QED
    BY <1>12 DEF Expands

\* What a selector gives: hosts of nodes, and no error but that of a circle.
Hosts == {p.id.host : p \in ToSet(SubProxies)}

\* An answer that is no error but that of a circle, and consists of hosts of nodes.
Sound(found) == found.hosts \subseteq Hosts /\ found.fault \in {Fine, "GROUP_REFERENCE_CYCLE"}

\* What the answers are made of.
LEMMA Answers ==
  /\ \A h : Found(h).hosts = h /\ Found(h).fault = Fine
  /\ \A c : Lost(c).hosts = {} /\ Lost(c).fault = c
  /\ Sound(Reentered) /\ Sound(Found({}))
  <1>1. \A h : Found(h).hosts = h /\ Found(h).fault = Fine
    BY DEF Found
  <1>2. \A c : Lost(c).hosts = {} /\ Lost(c).fault = c
    BY DEF Lost
  <1>3. QED
    BY <1>1, <1>2 DEF Sound, Reentered

\* Groups whose groups expand well expand well.
LEMMA GatheredIsSound ==
  ASSUME NEW parts, IsList(parts), \A i \in 1..Len(parts) : Sound(parts[i])
  PROVE  Sound(Gathered(parts))
  <1> DEFINE faults == [i \in DOMAIN parts |-> parts[i].fault]
             code == FirstFault(faults)
             C == {Fine, "GROUP_REFERENCE_CYCLE"}
             all == UNION {parts[i].hosts : i \in DOMAIN parts}
  <1>1. Len(parts) \in Nat /\ DOMAIN parts = 1..Len(parts)
    BY ListDomain
  <1>2. \A i \in 1..Len(parts) : parts[i].fault \in C /\ parts[i].hosts \subseteq Hosts
    BY DEF Sound
  <1>3. code \in C
    <2>1. faults = [i \in 1..Len(parts) |-> parts[i].fault]
      BY <1>1
    <2> HIDE DEF faults, C
    <2>2. faults \in Seq(C)
      BY <1>1, <1>2, <2>1
    <2>3. Len(faults) \in Nat /\ DOMAIN faults = 1..Len(faults) /\ \A i \in 1..Len(faults) : faults[i] \in C
      BY <2>2
    <2>4. ToSet(faults) \subseteq C
      BY <2>3 DEF ToSet
    <2>5. FirstFault(faults) \in ToSet(faults) \cup {Fine}
      BY <2>2, FirstFaultIsFault
    <2>6. Fine \in C
      BY DEF C
    <2>7. QED
      BY <2>4, <2>5, <2>6
  <1>4. all \subseteq Hosts
    BY <1>1, <1>2
  <1>5. Gathered(parts) = IF code # Fine THEN Lost(code) ELSE Found(all)
    BY DEF Gathered
  <1> HIDE DEF code, all
  <1>6. CASE code # Fine
    BY <1>3, <1>5, <1>6, Answers DEF Sound
  <1>7. CASE code = Fine
    BY <1>4, <1>5, <1>7, Answers DEF Sound
  <1>8. QED
    BY <1>6, <1>7

\* What the references are made of.
LEMMA Kinds ==
  /\ \A id : ProxyMember(id).kind = "proxy" /\ ProxyMember(id).id = id
  /\ \A x : NameMember(x).name = x /\ NameMember(x).kind = IF x \in Builtin THEN "builtin" ELSE "group"
  <1>1. \A id : ProxyMember(id).kind = "proxy" /\ ProxyMember(id).id = id
    BY DEF ProxyMember
  <1>2. \A x : NameMember(x).name = x /\ NameMember(x).kind = IF x \in Builtin THEN "builtin" ELSE "group"
    BY DEF NameMember
  <1>3. QED
    BY <1>1, <1>2

\* The members of a group as chains see them.
LEMMA PreGroupMembers ==
  ASSUME ProfileIsListed(prof), ProfileFault(prof, target) = Fine, IsList(SubProxies), NEW g \in GroupNames(prof)
  PROVE  IsList(PreGroup(g)) /\ \A m \in ToSet(PreGroup(g)) : IsMember(prof, m, ToSet(SubProxies))
  <1> DEFINE x == CHOOSE x \in ToSet(prof.groups) : x.name = g
  <1>1. \E y \in ToSet(prof.groups) : y.name = g
    BY DEF GroupNames, ToSet
  <1>2. x \in ToSet(prof.groups)
    BY <1>1
  <1>3. PreGroup(g) = GroupMembers(x, SubProxies, SubProxies)
    BY DEF PreGroup
  <1> HIDE DEF x
  <1>4. /\ IsList(GroupMembers(x, SubProxies, SubProxies))
        /\ \A m \in ToSet(GroupMembers(x, SubProxies, SubProxies)) :
             IsMember(prof, m, ToSet(SubProxies) \cup ToSet(SubProxies))
    BY <1>2, GroupMembersAre
  <1>5. ToSet(SubProxies) \cup ToSet(SubProxies) = ToSet(SubProxies)
    OBVIOUS
  <1>6. QED
    BY <1>3, <1>4, <1>5

\* What the groups a group contains give, it is given.
LEMMA OpenedIsSound ==
  ASSUME ProfileIsListed(prof), ProfileFault(prof, target) = Fine, IsList(SubProxies), NEW g \in GroupNames(prof),
         NEW below, \A h \in GroupNames(prof) : Sound(below[h])
  PROVE  IsList(Opened(g, below)) /\ \A i \in 1..Len(Opened(g, below)) : Sound(Opened(g, below)[i])
  <1> DEFINE ms == PreGroup(g)  o == Opened(g, below)
  <1>1. IsList(ms) /\ DOMAIN ms = 1..Len(ms) /\ Len(ms) \in Nat
        /\ \A i \in 1..Len(ms) : IsMember(prof, ms[i], ToSet(SubProxies))
    BY PreGroupMembers, ListDomain
  <1>2. o = [i \in 1..Len(ms) |->
     CASE ms[i].kind = "proxy" -> Found({ms[i].id.host})
       [] ms[i].kind = "group" /\ ms[i].name \in GroupNames(prof) -> below[ms[i].name]
       [] ms[i].kind = "group" /\ ms[i].name \notin GroupNames(prof) -> Lost("CHAIN_GROUP_NOT_FOUND")
       [] OTHER -> Found({})]
    BY <1>1 DEF Opened
  <1> HIDE DEF ms, o
  <1>3. \A i \in 1..Len(ms) : o[i] =
     CASE ms[i].kind = "proxy" -> Found({ms[i].id.host})
       [] ms[i].kind = "group" /\ ms[i].name \in GroupNames(prof) -> below[ms[i].name]
       [] ms[i].kind = "group" /\ ms[i].name \notin GroupNames(prof) -> Lost("CHAIN_GROUP_NOT_FOUND")
       [] OTHER -> Found({})
    BY <1>2
  <1>4. IsList(o) /\ Len(o) = Len(ms)
    <2>1. o = [i \in 1..Len(ms) |-> o[i]]
      BY <1>2
    <2>2. QED
      BY <2>1, <1>1, ListOfLen
  <1>5. ASSUME NEW i \in 1..Len(ms) PROVE Sound(o[i])
    <2>1. IsMember(prof, ms[i], ToSet(SubProxies))
      BY <1>1
    <2>2. CASE \E q \in ToSet(SubProxies) : ms[i] = ProxyMember(q.id)
      <3>1. PICK q \in ToSet(SubProxies) : ms[i] = ProxyMember(q.id)
        BY <2>2
      <3>2. ms[i].kind = "proxy" /\ ms[i].id.host \in Hosts
        BY <3>1, Kinds DEF Hosts
      <3>3. o[i] = Found({ms[i].id.host})
        BY <1>3, <3>2
      <3>4. QED
        BY <3>2, <3>3, Answers DEF Sound
    <2>3. CASE \E x \in GroupNames(prof) \cup Builtin : ms[i] = NameMember(x)
      <3>1. PICK x \in GroupNames(prof) \cup Builtin : ms[i] = NameMember(x)
        BY <2>3
      <3>2. ms[i].name = x /\ ms[i].kind = IF x \in Builtin THEN "builtin" ELSE "group"
        BY <3>1, Kinds
      <3>3. CASE x \in Builtin
        <4>1. o[i] = Found({})
          BY <1>3, <3>2, <3>3
        <4>2. QED
          BY <4>1, Answers
      <3>4. CASE x \notin Builtin
        <4>1. o[i] = below[x]
          BY <1>3, <3>1, <3>2, <3>4
        <4>2. QED
          BY <3>1, <3>4, <4>1
      <3>5. QED
        BY <3>3, <3>4
    <2>4. QED
      BY <2>1, <2>2, <2>3 DEF IsMember
  <1>6. QED
    BY <1>4, <1>5 DEF o

\* Every expansion is sound, whatever circles the groups make.
LEMMA ExpansionIsSound ==
  ASSUME ProfileIsListed(prof), ProfileFault(prof, target) = Fine, IsList(SubProxies)
  PROVE  \A path \in SUBSET GroupNames(prof) : \A g \in GroupNames(prof) : Sound(Expansion[path][g])
  <1> DEFINE G == GroupNames(prof)
             Q(path) == \A g \in G : Sound(Expansion[path][g])
             P == {m \in Nat : \A path \in SUBSET G : Unopened(path) <= m => Q(path)}
  <1>0. IsList(prof.groups)
    BY DEF ProfileIsListed
  <1>1. \A g \in G : \A path \in SUBSET G : Expansion[path][g] = Body(Expansion, g, path)
    BY <1>0, ExpansionExists
  <1>2. \A path \in SUBSET G : Unopened(path) \in Nat /\ (Unopened(path) = 0 => path = G) /\ Unopened(path) <= Unopened({})
    BY <1>0, UnopenedShrinks
  <1>3. \A path \in SUBSET G : \A g \in G \ path :
          path \cup {g} \in SUBSET G /\ Unopened(path \cup {g}) = Unopened(path) - 1
    BY <1>0, UnopenedShrinks
  <1>4. ASSUME NEW path \in SUBSET G, NEW g \in path PROVE Sound(Expansion[path][g])
    <2>1. g \in G
      OBVIOUS
    <2>2. Expansion[path][g] = Reentered
      BY <1>1, <2>1 DEF Body
    <2>3. QED
      BY <2>2, Answers
  <1>5. ASSUME NEW path \in SUBSET G, NEW g \in G \ path, Q(path \cup {g}) PROVE Sound(Expansion[path][g])
    <2>1. Expansion[path][g] = Gathered(Opened(g, Expansion[path \cup {g}]))
      BY <1>1 DEF Body
    <2> DEFINE below == Expansion[path \cup {g}]
    <2>2. \A h \in G : Sound(below[h])
      BY <1>5
    <2> HIDE DEF below
    <2>3. IsList(Opened(g, below)) /\ \A i \in 1..Len(Opened(g, below)) : Sound(Opened(g, below)[i])
      BY <2>2, OpenedIsSound
    <2>4. Sound(Gathered(Opened(g, below)))
      BY <2>3, GatheredIsSound
    <2>5. QED
      BY <2>1, <2>4 DEF below
  <1>6. 0 \in P
    <2>1. ASSUME NEW path \in SUBSET G, Unopened(path) <= 0 PROVE Q(path)
      <3>1. path = G
        BY <1>2, <2>1
      <3>2. QED
        BY <1>4, <3>1
    <2>2. QED
      BY <2>1
  <1>7. ASSUME NEW m \in Nat, m \in P PROVE m + 1 \in P
    <2>1. ASSUME NEW path \in SUBSET G, Unopened(path) <= m + 1 PROVE Q(path)
      <3>1. ASSUME NEW g \in G PROVE Sound(Expansion[path][g])
        <4>1. CASE g \in path
          BY <1>4, <4>1
        <4>2. CASE g \notin path
          <5>1. path \cup {g} \in SUBSET G /\ Unopened(path \cup {g}) <= m
            BY <1>2, <1>3, <2>1, <4>2
          <5> HIDE DEF Q
          <5>2. Q(path \cup {g})
            BY <1>7, <5>1
          <5>3. QED
            BY <1>5, <4>2, <5>2
        <4>3. QED
          BY <4>1, <4>2
      <3>2. QED
        BY <3>1
    <2> HIDE DEF Q
    <2>2. QED
      BY <2>1
  <1> HIDE DEF P, Q
  <1>8. Nat \subseteq P
    BY <1>6, <1>7, SetInduction
  <1>9. \A path \in SUBSET G : Q(path)
    <2> TAKE path \in SUBSET G
    <2>1. Unopened({}) \in P /\ Unopened(path) <= Unopened({})
      BY <1>2, <1>8
    <2>2. QED
      BY <2>1 DEF P
  <1>10. QED
    BY <1>9 DEF Q

\* Chains select nodes: whatever the selector, it finds hosts of nodes.
LEMMA ChosenIsSound ==
  ASSUME ProfileIsListed(prof), ProfileFault(prof, target) = Fine, NodesInv, stage = "chain", NEW i \in DOMAIN prof.chains
  PROVE  /\ Sound(Chosen(prof.chains[i])) /\ Chosen(prof.chains[i]).hosts \subseteq HostsOf(nodes)
         /\ prof.chains[i].proxy \in CustomNames(prof)
  <1> DEFINE c == prof.chains[i]
  <1>1. IsList(SubProxies) /\ Hosts \subseteq HostsOf(nodes)
    <2>1. stage \in NodesNamed
      BY DEF NodesNamed
    <2>2. QED
      BY <2>1, SubsAreNodes DEF Hosts
  <1>2. \A p \in ToSet(proxies) : p.id.host \in Hosts
    <2> TAKE p \in ToSet(proxies)
    <2>1. Len(proxies) = Len(nodes) /\ DOMAIN proxies = 1..Len(proxies) /\ Len(nodes) \in Nat
      BY ListDomain DEF NodesInv
    <2>2. p.via = NoProxy
      <3>1. PICK j \in DOMAIN proxies : p = proxies[j]
        BY DEF ToSet
      <3>2. j <= Len(nodes)
        BY <2>1
      <3>3. QED
        BY <3>1, <3>2 DEF NodesInv
    <2>3. p \in ToSet(SubProxies)
      BY <2>2, SubsAreNodes DEF NodesNamed
    <2>4. QED
      BY <2>3 DEF Hosts
  <1>3. /\ c.proxy \in CustomNames(prof) /\ c.type \in {"all", "regex", "group"}
        /\ c.type = "group" => c.group \in GroupNames(prof)
    BY AcceptedChains
  <1> DEFINE all == {p.id.host : p \in ToSet(proxies)}
             some == {p.id.host : p \in {q \in ToSet(proxies) : Matches(c.regex, q.name)}}
  <1>4. all \subseteq Hosts /\ some \subseteq Hosts
    BY <1>2
  <1>5. CASE c.type = "all"
    <2>1. Chosen(c) = Found(all)
      BY <1>3, <1>5 DEF Chosen
    <2> HIDE DEF all
    <2>2. QED
      BY <1>1, <1>3, <1>4, <2>1, Answers DEF Sound
  <1>6. CASE c.type = "regex"
    <2>1. Chosen(c) = Found(some)
      BY <1>3, <1>6 DEF Chosen
    <2> HIDE DEF some
    <2>2. QED
      BY <1>1, <1>3, <1>4, <2>1, Answers DEF Sound
  <1>7. CASE c.type = "group"
    <2>1. Chosen(c) = Expansion[{}][c.group]
      BY <1>3, <1>7 DEF Chosen
    <2>2. Sound(Expansion[{}][c.group])
      BY <1>1, <1>3, <1>7, ExpansionIsSound
    <2>3. QED
      BY <1>1, <1>3, <2>1, <2>2 DEF Sound
  <1>8. QED
    BY <1>3, <1>5, <1>6, <1>7

\* The steps that make nodes or proxies.
NamesNode == /\ stage = "name" /\ stage' = "name" /\ UNCHANGED nodes /\ Len(proxies) < Len(nodes)
             /\ \E p : /\ proxies' = Append(proxies, p)
                       /\ p.id = SubID(nodes[Len(proxies) + 1].host) /\ p.via = NoProxy

\* The pair behind the i-th proxy.
PairOf(i) == Pairs[i - Len(nodes)]

\* A step that gives a pair its name.
NamesPair == /\ stage = "derive" /\ stage' = "derive" /\ UNCHANGED nodes /\ Len(proxies) < Len(nodes) + Len(Pairs)
             /\ \E p : /\ proxies' = Append(proxies, p)
                       /\ p.id = DerivedID(PairOf(Len(proxies) + 1).custom, PairOf(Len(proxies) + 1).sub.id)
                       /\ p.via = PairOf(Len(proxies) + 1).sub.id

\* Every step is of one of these forms, and none changes the input.
LEMMA Steps ==
  ASSUME [Next]_vars, NodesInv
  PROVE  /\ UNCHANGED <<subs, prof, target>>
         /\ \/ UNCHANGED <<nodes, proxies>> /\ Onward(stage, stage')
            \/ Dedup \/ NamesNode \/ NamesPair
  <1>1. UNCHANGED <<subs, prof, target>>
    BY DEF Next, vars, input, ParseProfile, Dedup, NameNode, CheckNames, SelectChain, ClaimNames, Derive,
           CompileGroups, CompileRules, Finished
  <1> DEFINE Quiet == UNCHANGED <<nodes, proxies>> /\ Onward(stage, stage')
  <1>2. CASE ParseProfile
    BY <1>1, <1>2 DEF ParseProfile, Pass, Onward
  <1>3. CASE NameNode
    <2> DEFINE node == nodes[Len(proxies) + 1]
               p == [id |-> SubID(node.host), name |-> Candidate(BaseName(node), n), via |-> NoProxy]
    <2>1. stage = "name" /\ stage' = "name" /\ UNCHANGED nodes /\ Len(proxies) < Len(nodes)
      BY <1>3 DEF NameNode
    <2>2. \/ UNCHANGED proxies
          \/ proxies' = Append(proxies, p)
      BY <1>3 DEF NameNode, Give
    <2>3. p.id = SubID(nodes[Len(proxies) + 1].host) /\ p.via = NoProxy
      OBVIOUS
    <2> HIDE DEF p
    <2>4. CASE UNCHANGED proxies
      BY <1>1, <2>1, <2>4 DEF Onward
    <2>5. CASE proxies' = Append(proxies, p)
      BY <1>1, <2>1, <2>3, <2>5 DEF NamesNode
    <2>6. QED
      BY <1>1, <2>2, <2>4, <2>5
  <1>4. CASE CheckNames
    BY <1>1, <1>4 DEF CheckNames, Pass, Onward
  <1>5. CASE SelectChain
    BY <1>1, <1>5 DEF SelectChain, Pass, Onward
  <1>6. CASE ClaimNames
    BY <1>1, <1>6 DEF ClaimNames, Pass, Onward
  <1>7. CASE Derive
    <2> DEFINE pair == Pairs[Len(proxies) - Len(nodes) + 1]
               p == [id |-> DerivedID(pair.custom, pair.sub.id), name |-> Candidate(Via(pair.custom, pair.sub.name), n),
                     via |-> pair.sub.id]
    <2>0. PairOf(Len(proxies) + 1) = pair
      <3>1. Len(proxies) \in Nat /\ Len(nodes) \in Nat
        BY ListDomain DEF NodesInv
      <3>2. (Len(proxies) + 1) - Len(nodes) = Len(proxies) - Len(nodes) + 1
        BY <3>1
      <3>3. QED
        BY <3>2 DEF PairOf
    <2>1. stage = "derive" /\ stage' = "derive" /\ UNCHANGED nodes /\ Len(proxies) < Len(nodes) + Len(Pairs)
      BY <1>7 DEF Derive
    <2>2. \/ UNCHANGED proxies
          \/ proxies' = Append(proxies, p)
      BY <1>7 DEF Derive, Give
    <2>3. p.id = DerivedID(pair.custom, pair.sub.id) /\ p.via = pair.sub.id
      OBVIOUS
    <2> HIDE DEF p, pair
    <2>4. CASE UNCHANGED proxies
      BY <1>1, <2>1, <2>4 DEF Onward
    <2>5. CASE proxies' = Append(proxies, p)
      BY <1>1, <2>0, <2>1, <2>3, <2>5 DEF NamesPair
    <2>6. QED
      BY <1>1, <2>2, <2>4, <2>5
  <1>8. CASE CompileGroups
    BY <1>1, <1>8 DEF CompileGroups, Pass, Onward
  <1>9. CASE CompileRules
    BY <1>1, <1>9 DEF CompileRules, Pass, Onward
  <1>10. CASE Finished \/ UNCHANGED vars
    BY <1>1, <1>10 DEF Finished, vars, Onward
  <1>11. QED
    BY <1>1, <1>2, <1>3, <1>4, <1>5, <1>6, <1>7, <1>8, <1>9, <1>10 DEF Next

\* The pair that comes next goes through a node.
LEMMA NextPair ==
  ASSUME ProfileIsListed(prof), ProfileFault(prof, target) = Fine, NodesInv, stage = "derive",
         Len(proxies) < Len(nodes) + Len(Pairs)
  PROVE  /\ Len(proxies) - Len(nodes) + 1 \in 1..Len(Pairs) /\ PairOf(Len(proxies) + 1) = Pairs[Len(proxies) - Len(nodes) + 1]
         /\ PairOf(Len(proxies) + 1).sub \in ToSet(SubProxies) /\ PairOf(Len(proxies) + 1).sub.id # NoProxy
  <1>1. IsList(prof.customs) /\ NamedApart(prof.customs)
    BY AcceptedCustoms DEF ProfileIsListed, NamedApart
  <1>2. IsList(SubProxies) /\ KnownApart(SubProxies) /\ \A p \in ToSet(SubProxies) : p.id # NoProxy
    BY SubsAreNodes DEF NodesNamed
  <1>3. Len(Pairs) \in Nat /\ \A q \in 1..Len(Pairs) : Pairs[q].sub \in ToSet(SubProxies)
    BY <1>1, <1>2, PairFacts
  <1>4. Len(proxies) \in Nat /\ Len(nodes) \in Nat /\ Len(nodes) <= Len(proxies)
    BY ListDomain DEF NodesInv, NodesNamed
  <1>5. Len(proxies) - Len(nodes) + 1 \in 1..Len(Pairs) /\ (Len(proxies) + 1) - Len(nodes) = Len(proxies) - Len(nodes) + 1
    BY <1>3, <1>4
  <1>6. QED
    BY <1>2, <1>3, <1>5 DEF PairOf

\* A profile that is being compiled has been accepted.
LEMMA InputStep ==
  ASSUME InputInv, NodesInv, [Next]_vars
  PROVE  InputInv'
  <1>1. UNCHANGED <<subs, prof, target>>
    BY Steps
  <1>2. (\E in \in Inputs : subs \in in.subs /\ prof \in in.profs)'
    BY <1>1 DEF InputInv
  <1>3. ASSUME Compiling' PROVE ProfileFault(prof, target) = Fine
    <2>1. CASE Compiling
      BY <2>1 DEF InputInv
    <2>2. CASE stage = "parse"
      <3>1. ParseProfile \/ UNCHANGED stage
        BY <2>2 DEF Next, vars, Dedup, NameNode, CheckNames, SelectChain, ClaimNames, Derive, CompileGroups,
                    CompileRules, Finished
      <3>2. ParseProfile
        BY <1>3, <2>2, <3>1 DEF Compiling
      <3>3. ProfileFault(prof, target) # Fine => stage' = "failed"
        BY <3>2 DEF ParseProfile, Pass
      <3>4. QED
        BY <1>3, <3>3 DEF Compiling
    <2>3. CASE stage = "failed"
      <3>1. stage' = "failed"
        BY <2>3 DEF Next, vars, ParseProfile, Dedup, NameNode, CheckNames, SelectChain, ClaimNames, Derive,
                    CompileGroups, CompileRules, Finished
      <3>2. QED
        BY <1>3, <3>1 DEF Compiling
    <2>4. QED
      BY <2>1, <2>2, <2>3 DEF Compiling
  <1>4. (Compiling => ProfileFault(prof, target) = Fine)'
    BY <1>1, <1>3
  <1>5. QED
    BY <1>2, <1>4 DEF InputInv

\* Deduplication makes the nodes.
LEMMA DedupStep ==
  ASSUME Listed, NodesInv, Dedup
  PROVE  NodesInv'
  <1>1. stage = "dedup" /\ stage' = "name" /\ nodes' = Deduped(subs) /\ UNCHANGED proxies
    BY DEF Dedup
  <1>2. /\ IsList(Deduped(subs)) /\ IsInjective([i \in DOMAIN Deduped(subs) |-> Deduped(subs)[i].host])
        /\ "" \notin HostsOf(Deduped(subs))
    BY DedupedNodes DEF Listed
  <1>3. proxies = <<>> /\ proxies' = <<>>
    BY <1>1 DEF NodesInv
  <1>4. SubProxies' = <<>>
    <2>1. SubProxies' = SubsOf(proxies')
      BY DEF SubProxies, SubsOf
    <2>2. QED
      BY <2>1, <1>3, NoSubs
  <1>5. Len(nodes') \in Nat
    BY <1>1, <1>2, ListDomain
  <1>6. IsList(proxies') /\ Len(proxies') = 0 /\ DOMAIN proxies' = {} /\ Len(SubProxies') = 0 /\ DOMAIN SubProxies' = {}
    BY <1>3, <1>4, NoSubs
  <1>7. IsList(nodes') /\ IsInjective([i \in DOMAIN nodes |-> nodes[i].host])' /\ ("" \notin HostsOf(nodes))'
    BY <1>1, <1>2 DEF HostsOf
  <1>8. (\A i \in DOMAIN proxies : i <= Len(nodes) =>
           proxies[i].id = SubID(nodes[i].host) /\ proxies[i].via = NoProxy)'
    BY <1>6
  <1>9. (Compiling => /\ Len(SubProxies) = IF stage = "name" THEN Len(proxies) ELSE Len(nodes)
                      /\ \A i \in DOMAIN SubProxies : SubProxies[i] = proxies[i])'
    BY <1>1, <1>6
  <1>10. Len(proxies') <= Len(nodes')
    BY <1>5, <1>6
  <1>11. QED
    BY <1>1, <1>6, <1>7, <1>8, <1>9, <1>10 DEF NodesInv, NodesNamed

\* The nodes come first among the proxies and stay there.
LEMMA NodesStep ==
  ASSUME InputInv, NodesInv, [Next]_vars
  PROVE  NodesInv'
  <1>1. CASE UNCHANGED <<nodes, proxies>> /\ Onward(stage, stage')
    BY <1>1, NodesFrame
  <1>2. CASE Dedup
    BY <1>2, DedupStep, InputsAreListed
  <1>3. CASE NamesNode
    BY <1>3, NodeNamed DEF NamesNode
  <1>4. CASE NamesPair
    <2>1. PICK p : proxies' = Append(proxies, p) /\ p.via = PairOf(Len(proxies) + 1).sub.id
      BY <1>4 DEF NamesPair
    <2>2. ProfileIsListed(prof) /\ ProfileFault(prof, target) = Fine
      BY <1>4, InputsAreListed DEF NamesPair, InputInv, Compiling, Listed
    <2>3. p.via # NoProxy
      BY <1>4, <2>1, <2>2, NextPair DEF NamesPair
    <2>4. QED
      BY <1>4, <2>1, <2>3, PairNamed DEF NamesPair
  <1>5. QED
    BY <1>1, <1>2, <1>3, <1>4, Steps

\* The selections are made in the chain stage.
LEMMA SelectedStep ==
  ASSUME TypeOK, InputInv, NodesInv, SelectedInv, [Next]_vars
  PROVE  SelectedInv'
  <1>0. UNCHANGED <<subs, prof, target>>
    BY Steps
  <1>1. CASE SelectChain
    <2> DEFINE c == prof.chains[k]
               found == Chosen(c)
               code == IF found.fault = Fine /\ found.hosts = {} THEN "CHAIN_SELECTOR_EMPTY" ELSE found.fault
    <2>1. stage = "chain" /\ k <= Len(prof.chains) /\ UNCHANGED nodes
      BY <1>1 DEF SelectChain
    <2>2. k \in DOMAIN prof.chains
      <3>1. DOMAIN prof.chains = 1..Len(prof.chains) /\ Len(prof.chains) \in Nat
        BY InputsAreListed, ListDomain DEF Listed, ProfileIsListed
      <3>2. QED
        BY <2>1, <3>1 DEF TypeOK
    <2>3. found.hosts \subseteq HostsOf(nodes) /\ c.proxy \in CustomNames(prof)
      <3>1. ProfileIsListed(prof) /\ ProfileFault(prof, target) = Fine
        BY <2>1, InputsAreListed DEF InputInv, Compiling, Listed
      <3>2. QED
        BY <2>1, <2>2, <3>1, ChosenIsSound
    <2>4. selected' = IF code = Fine THEN Selecting(c.proxy, found.hosts) ELSE selected
      BY <1>1 DEF SelectChain
    <2>5. DOMAIN selected = CustomNames(prof) /\ \A x \in CustomNames(prof) : selected[x] \subseteq HostsOf(nodes)
      BY <2>1 DEF SelectedInv, NodesNamed
    <2> HIDE DEF c, found, code
    <2>6. DOMAIN selected' = CustomNames(prof) /\ \A x \in CustomNames(prof) : selected'[x] \subseteq HostsOf(nodes)
      <3>1. CASE selected' = selected
        BY <2>5, <3>1
      <3>2. CASE selected' = Selecting(c.proxy, found.hosts)
        <4>1. selected' = [selected EXCEPT ![c.proxy] = selected[c.proxy] \cup found.hosts]
          BY <3>2 DEF Selecting
        <4>2. QED
          BY <2>3, <2>5, <4>1
      <3>3. QED
        BY <2>4, <3>1, <3>2
    <2>7. QED
      BY <1>0, <2>1, <2>6 DEF SelectedInv, HostsOf
  <1>2. CASE CheckNames
    <2>1. selected' = [c \in CustomNames(prof) |-> {}]
      BY <1>2 DEF CheckNames
    <2>2. DOMAIN selected' = CustomNames(prof) /\ \A c \in CustomNames(prof) : selected'[c] = {}
      BY <2>1
    <2>3. QED
      BY <1>0, <2>2 DEF SelectedInv
  <1>3. CASE UNCHANGED <<selected, nodes>> /\ (stage' \in NodesNamed => stage \in NodesNamed)
    BY <1>0, <1>3 DEF SelectedInv, HostsOf
  <1>4. CASE stage' \notin NodesNamed
    BY <1>4 DEF SelectedInv
  <1>5. \/ SelectChain \/ CheckNames
        \/ UNCHANGED <<selected, nodes>> /\ (stage' \in NodesNamed => stage \in NodesNamed)
        \/ stage' \notin NodesNamed
    BY DEF Next, vars, ParseProfile, Dedup, NameNode, ClaimNames, Derive, CompileGroups, CompileRules, Finished, Pass,
           NodesNamed
  <1>6. QED
    BY <1>1, <1>2, <1>3, <1>4, <1>5

\* The pairs depend on the profile, the selections and the nodes only.
LEMMA PairsFrame ==
  ASSUME UNCHANGED <<prof, selected>>, SubProxies' = SubProxies
  PROVE  Pairs' = Pairs /\ ActiveCustoms' = ActiveCustoms
  <1>1. ActiveCustoms' = ActiveCustoms
    BY DEF ActiveCustoms
  <1>2. QED
    BY <1>1 DEF Pairs

\* Behind the chains the selections no longer change.
LEMMA SelectedFrame ==
  ASSUME [Next]_vars, stage' \in ClaimedStages
  PROVE  UNCHANGED selected /\ stage \in ClaimedStages \cup {"chain"} /\ (stage' # "derive" => stage # "chain")
  BY DEF Next, vars, ParseProfile, Dedup, NameNode, CheckNames, SelectChain, ClaimNames, Derive, CompileGroups,
         CompileRules, Finished, Pass, ClaimedStages

\* The pairs and the proxies are counted.
LEMMA PairsAreCounted ==
  ASSUME InputInv, NodesInv, stage \in NodesNamed
  PROVE  /\ Len(Pairs) \in Nat /\ Len(nodes) \in Nat /\ Len(proxies) \in Nat /\ DOMAIN proxies = 1..Len(proxies)
         /\ IsList(proxies) /\ Len(nodes) <= Len(proxies)
  <1>1. ProfileIsListed(prof) /\ ProfileFault(prof, target) = Fine
    BY InputsAreListed DEF InputInv, Compiling, Listed, NodesNamed
  <1>2. IsList(prof.customs) /\ NamedApart(prof.customs)
    BY <1>1, AcceptedCustoms DEF ProfileIsListed, NamedApart
  <1>3. IsList(SubProxies) /\ KnownApart(SubProxies)
    BY SubsAreNodes
  <1>4. Len(Pairs) \in Nat
    BY <1>2, <1>3, PairFacts
  <1>5. IsList(proxies) /\ IsList(nodes)
    BY DEF NodesInv
  <1>6. QED
    BY <1>4, <1>5, ListDomain DEF NodesInv

\* Behind the nodes come the pairs, in their order.
LEMMA DerivedStep ==
  ASSUME InputInv, NodesInv, DerivedInv, [Next]_vars
  PROVE  DerivedInv'
  <1> SUFFICES ASSUME stage' \in ClaimedStages PROVE DerivedInv'
    BY DEF DerivedInv, ClaimedStages
  <1>0. UNCHANGED <<subs, prof, target, selected>> /\ stage \in ClaimedStages \cup {"chain"}
        /\ (stage' # "derive" => stage # "chain")
    BY Steps, SelectedFrame
  <1>1. stage \in NodesNamed
    BY <1>0 DEF NodesNamed, ClaimedStages
  <1>2. /\ Len(Pairs) \in Nat /\ Len(nodes) \in Nat /\ Len(proxies) \in Nat /\ DOMAIN proxies = 1..Len(proxies)
        /\ IsList(proxies) /\ Len(nodes) <= Len(proxies)
    BY <1>1, PairsAreCounted
  <1> DEFINE Good(q) == /\ proxies[q].id = DerivedID(PairOf(q).custom, PairOf(q).sub.id)
                        /\ proxies[q].via = PairOf(q).sub.id
  <1>3. CASE UNCHANGED <<nodes, proxies>> /\ Onward(stage, stage')
    <2>1. SubProxies' = SubProxies
      BY <1>3 DEF SubProxies
    <2>2. Pairs' = Pairs
      BY <1>0, <2>1, PairsFrame
    <2>3. CASE stage = "chain"
      <3>1. Len(proxies) = Len(nodes) /\ stage' = "derive"
        BY <1>0, <2>3 DEF NodesInv
      <3>2. \A i \in DOMAIN proxies : ~(i > Len(nodes))
        BY <1>2, <3>1
      <3>3. Len(proxies) <= Len(nodes) + Len(Pairs)
        BY <1>2, <3>1
      <3>4. QED
        BY <1>3, <2>2, <3>1, <3>2, <3>3 DEF DerivedInv
    <2>4. CASE stage \in ClaimedStages
      BY <1>3, <2>2, <2>4 DEF DerivedInv, Onward, ClaimedStages
    <2>5. QED
      BY <1>0, <2>3, <2>4
  <1>4. CASE NamesPair
    <2>1. PICK p : /\ proxies' = Append(proxies, p)
                   /\ p.id = DerivedID(PairOf(Len(proxies) + 1).custom, PairOf(Len(proxies) + 1).sub.id)
                   /\ p.via = PairOf(Len(proxies) + 1).sub.id
      BY <1>4 DEF NamesPair
    <2>2. stage = "derive" /\ stage' = "derive" /\ UNCHANGED nodes /\ Len(proxies) < Len(nodes) + Len(Pairs)
      BY <1>4 DEF NamesPair
    <2>3. p.via # NoProxy
      <3>1. ProfileIsListed(prof) /\ ProfileFault(prof, target) = Fine
        BY <2>2, InputsAreListed DEF InputInv, Compiling, Listed
      <3>2. QED
        BY <2>1, <2>2, <3>1, NextPair
    <2>4. SubProxies' = SubProxies
      BY <2>1, <2>2, <2>3, PairNamed
    <2>5. Pairs' = Pairs
      BY <1>0, <2>4, PairsFrame
    <2>6. /\ Len(proxies') = Len(proxies) + 1 /\ DOMAIN proxies' = 1..(Len(proxies) + 1)
          /\ proxies'[Len(proxies) + 1] = p /\ \A i \in 1..Len(proxies) : proxies'[i] = proxies[i]
      BY <1>2, <2>1, OneMore
    <2>7. Len(proxies') <= Len(nodes) + Len(Pairs)
      BY <1>2, <2>2, <2>6
    <2>8. ASSUME NEW i \in DOMAIN proxies', i > Len(nodes)
          PROVE  proxies'[i].id = DerivedID(PairOf(i).custom, PairOf(i).sub.id) /\ proxies'[i].via = PairOf(i).sub.id
      <3>1. CASE i = Len(proxies) + 1
        BY <2>1, <2>6, <3>1
      <3>2. CASE i \in 1..Len(proxies)
        <4>1. i \in DOMAIN proxies /\ proxies'[i] = proxies[i]
          BY <1>2, <2>6, <3>2
        <4>2. proxies[i].id = DerivedID(PairOf(i).custom, PairOf(i).sub.id) /\ proxies[i].via = PairOf(i).sub.id
          BY <2>2, <2>8, <4>1 DEF DerivedInv, PairOf
        <4>3. QED
          BY <4>1, <4>2
      <3>3. QED
        BY <1>2, <2>6, <3>1, <3>2
    <2>9. QED
      BY <2>2, <2>5, <2>7, <2>8 DEF DerivedInv, PairOf
  <1>5. ~Dedup /\ ~NamesNode
    BY <1>1 DEF Dedup, NamesNode, NodesNamed
  <1>6. QED
    BY <1>3, <1>4, <1>5, Steps

\* The groups are compiled once, from the proxies as they remain.
LEMMA GroupsStep ==
  ASSUME InputInv, NodesInv, GroupsInv, [Next]_vars
  PROVE  GroupsInv'
  <1> SUFFICES ASSUME stage' \in {"rules", "done"} PROVE GroupsInv'
    BY DEF GroupsInv
  <1>0. UNCHANGED <<prof, selected>>
    BY Steps, SelectedFrame DEF ClaimedStages
  <1>1. UNCHANGED proxies /\ (CompileGroups \/ (UNCHANGED groups /\ stage \in {"rules", "done"}))
    BY DEF Next, vars, ParseProfile, Dedup, NameNode, CheckNames, SelectChain, ClaimNames, Derive, CompileGroups,
           CompileRules, Finished, Pass
  <1>2. SubProxies' = SubProxies
    BY <1>1 DEF SubProxies
  <1>3. ActiveCustoms' = ActiveCustoms
    BY <1>0, <1>2, PairsFrame
  <1>4. UserGroups' = UserGroups
    BY <1>0, <1>1, <1>2 DEF UserGroups
  <1>5. AutoGroups' = AutoGroups
    BY <1>1, <1>3 DEF AutoGroups, DerivedOf
  <1>6. CASE CompileGroups
    <2>1. CASE \E i \in DOMAIN UserGroups : UserGroups[i].members = <<>>
      BY <1>6, <2>1 DEF CompileGroups, Pass, Fine
    <2>2. CASE ~\E i \in DOMAIN UserGroups : UserGroups[i].members = <<>>
      <3>1. groups' = UserGroups \o AutoGroups
        BY <1>6, <2>2 DEF CompileGroups
      <3>2. \A i \in DOMAIN UserGroups' : UserGroups'[i].members # <<>>
        BY <2>2, <1>4
      <3>3. QED
        BY <1>4, <1>5, <3>1, <3>2 DEF GroupsInv
    <2>3. QED
      BY <2>1, <2>2
  <1>7. CASE UNCHANGED groups /\ stage \in {"rules", "done"}
    BY <1>4, <1>5, <1>7 DEF GroupsInv
  <1>8. QED
    BY <1>1, <1>6, <1>7

\* The rules are looked up once, in the groups as they remain.
LEMMA RulesStep ==
  ASSUME InputInv, NodesInv, RulesInv, [Next]_vars
  PROVE  RulesInv'
  <1> SUFFICES ASSUME stage' = "done" PROVE RulesInv'
    BY DEF RulesInv
  <1>0. UNCHANGED prof
    BY Steps
  <1>1. UNCHANGED groups /\ (CompileRules \/ stage = "done")
    BY DEF Next, vars, ParseProfile, Dedup, NameNode, CheckNames, SelectChain, ClaimNames, Derive, CompileGroups,
           CompileRules, Finished, Pass
  <1>2. OneFinalMatch' = OneFinalMatch
    BY <1>0 DEF OneFinalMatch, MatchRules
  <1>3. \A r : KnownAction(r)' = KnownAction(r)
    BY <1>1 DEF KnownAction
  <1>4. CASE CompileRules
    <2> DEFINE a == IF \E r \in ToSet(prof.rulesets) : ~KnownAction(r) THEN "REFERENCE_NOT_FOUND" ELSE Fine
               b == IF ~OneFinalMatch THEN "RULE_PARSE_ERROR" ELSE Fine
               c == IF \E r \in ToSet(InlineRules(prof)) : ~KnownAction(r) THEN "REFERENCE_NOT_FOUND" ELSE Fine
               S == {a, b, c}
               s == <<a, b, c>>
    <2>1. FirstFault(s) = Fine
      BY <1>4 DEF CompileRules, Pass
    <2>2. (a = Fine => \A r \in ToSet(prof.rulesets) : KnownAction(r)) /\ (b = Fine => OneFinalMatch)
          /\ (c = Fine => \A r \in ToSet(InlineRules(prof)) : KnownAction(r))
      BY DEF Fine
    <2> HIDE DEF a, b, c
    <2>3. s \in Seq(S) /\ Len(s) = 3 /\ s[1] = a /\ s[2] = b /\ s[3] = c
      OBVIOUS
    <2> HIDE DEF S, s
    <2>4. Clean(s)
      BY <2>1, <2>3, FirstFaultIsFault
    <2>5. a = Fine /\ b = Fine /\ c = Fine
      BY <2>3, <2>4 DEF Clean
    <2>6. OneFinalMatch /\ \A r \in ToSet(prof.rulesets) \cup ToSet(InlineRules(prof)) : KnownAction(r)
      BY <2>2, <2>5
    <2>7. QED
      BY <1>0, <1>2, <1>3, <2>6 DEF RulesInv
  <1>5. CASE stage = "done"
    BY <1>0, <1>2, <1>3, <1>5 DEF RulesInv
  <1>6. QED
    BY <1>1, <1>4, <1>5

\* The loops stay in their bounds.
LEMMA TypeStep ==
  ASSUME InputInv, NodesInv, TypeOK, NamesOf(proxies') \subseteq used', [Next]_vars
  PROVE  TypeOK'
  <1>0. UNCHANGED <<subs, prof, target>>
    BY Steps
  <1>1. stage' \in Stages /\ (stage' = "failed" <=> fault' # Fine)
    BY DEF TypeOK, Stages, Next, vars, ParseProfile, Dedup, NameNode, CheckNames, SelectChain, ClaimNames, Derive,
           CompileGroups, CompileRules, Finished, Pass
  <1>2. n' \in 1..Len(Numerals)
    <2>1. Len(Numerals) \in Nat /\ 1 \in 1..Len(Numerals)
      BY DEF Numerals
    <2>2. UNCHANGED n \/ n' = 1 \/ (n < Len(Numerals) /\ n' = n + 1)
      BY DEF Next, vars, ParseProfile, Dedup, NameNode, CheckNames, SelectChain, ClaimNames, Derive,
             CompileGroups, CompileRules, Finished, TrySuffix, Give
    <2>3. QED
      BY <2>1, <2>2 DEF TypeOK
  <1>3. k' \in 1..(Len(prof'.chains) + 1)
    <2>1. Len(prof.chains) \in Nat
      BY InputsAreListed, ListDomain DEF Listed, ProfileIsListed
    <2>2. UNCHANGED k \/ (k <= Len(prof.chains) /\ k' = k + 1)
      BY DEF Next, vars, ParseProfile, Dedup, NameNode, CheckNames, SelectChain, ClaimNames, Derive,
             CompileGroups, CompileRules, Finished
    <2>3. QED
      BY <1>0, <2>1, <2>2 DEF TypeOK
  <1>4. ToSet(nodes') \subseteq {Normalized(node) : node \in ToSet(subs')}
    <2>1. UNCHANGED nodes \/ nodes' = Deduped(subs)
      BY DEF Next, vars, ParseProfile, Dedup, NameNode, CheckNames, SelectChain, ClaimNames, Derive,
             CompileGroups, CompileRules, Finished
    <2>2. ToSet(Deduped(subs)) \subseteq {Normalized(node) : node \in ToSet(subs)}
      BY InputsAreListed, DedupedNodes DEF Listed
    <2>3. QED
      BY <1>0, <2>1, <2>2 DEF TypeOK
  <1>5. ({id.host : id \in IDsOf(proxies)} \subseteq {node.host : node \in ToSet(nodes)})'
    <2> DEFINE H == {node.host : node \in ToSet(nodes)}
    <2>1. \A i \in DOMAIN proxies : proxies[i].id.host \in H
      BY DEF TypeOK, IDsOf
    <2>2. IsList(proxies) /\ IsList(nodes)
      BY DEF NodesInv
    <2>3. ASSUME NEW p, proxies' = Append(proxies, p), p.id.host \in H, UNCHANGED nodes
          PROVE  \A i \in DOMAIN proxies' : proxies'[i].id.host \in H'
      <3>1. /\ DOMAIN proxies' = 1..(Len(proxies) + 1) /\ proxies'[Len(proxies) + 1] = p /\ Len(proxies) \in Nat
            /\ \A i \in 1..Len(proxies) : proxies'[i] = proxies[i]
            /\ DOMAIN proxies = 1..Len(proxies)
        BY <2>2, <2>3, OneMore
      <3>2. H' = H
        BY <2>3
      <3> HIDE DEF H
      <3>3. ASSUME NEW i \in DOMAIN proxies' PROVE proxies'[i].id.host \in H
        <4>1. CASE i = Len(proxies) + 1
          BY <2>3, <3>1, <4>1
        <4>2. CASE i \in 1..Len(proxies)
          BY <2>1, <3>1, <4>2
        <4>3. QED
          BY <3>1, <4>1, <4>2
      <3>4. QED
        BY <3>2, <3>3
    <2>4. \A i \in DOMAIN proxies' : proxies'[i].id.host \in H'
      <3>1. CASE UNCHANGED <<nodes, proxies>>
        BY <2>1, <3>1
      <3>2. CASE Dedup
        <4>1. proxies' = <<>>
          BY <3>2 DEF Dedup, NodesInv
        <4>2. DOMAIN proxies' = {}
          BY <4>1
        <4>3. QED
          BY <4>2
      <3>3. CASE NamesNode
        <4>1. PICK p : proxies' = Append(proxies, p) /\ p.id = SubID(nodes[Len(proxies) + 1].host)
          BY <3>3 DEF NamesNode
        <4>2. Len(proxies) \in Nat /\ Len(nodes) \in Nat /\ Len(proxies) < Len(nodes) /\ UNCHANGED nodes
              /\ DOMAIN nodes = 1..Len(nodes)
          BY <2>2, <3>3, ListDomain DEF NamesNode
        <4>3. nodes[Len(proxies) + 1] \in ToSet(nodes)
          BY <4>2 DEF ToSet
        <4>4. p.id.host = nodes[Len(proxies) + 1].host
          BY <4>1 DEF SubID
        <4>5. QED
          BY <2>3, <4>1, <4>2, <4>3, <4>4
      <3>4. CASE NamesPair
        <4>1. PICK p : /\ proxies' = Append(proxies, p)
                       /\ p.id = DerivedID(PairOf(Len(proxies) + 1).custom, PairOf(Len(proxies) + 1).sub.id)
          BY <3>4 DEF NamesPair
        <4>2. p.id.host = PairOf(Len(proxies) + 1).sub.id.host
          BY <4>1 DEF DerivedID
        <4>3. PairOf(Len(proxies) + 1).sub \in ToSet(SubProxies)
          <5>1. ProfileIsListed(prof) /\ ProfileFault(prof, target) = Fine
            BY <3>4, InputsAreListed DEF NamesPair, InputInv, Compiling, Listed
          <5>2. QED
            BY <3>4, <5>1, NextPair DEF NamesPair
        <4>4. PairOf(Len(proxies) + 1).sub.id.host \in HostsOf(nodes)
          BY <3>4, <4>3, SubsAreNodes DEF NamesPair, NodesNamed
        <4>5. HostsOf(nodes) \subseteq H
          BY DEF HostsOf, ToSet
        <4>6. UNCHANGED nodes
          BY <3>4 DEF NamesPair
        <4>7. QED
          BY <2>3, <4>1, <4>2, <4>4, <4>5, <4>6
      <3>5. QED
        BY <3>1, <3>2, <3>3, <3>4, Steps
    <2>5. QED
      BY <2>4 DEF IDsOf
  <1>6. QED
    BY <1>1, <1>2, <1>3, <1>4, <1>5 DEF TypeOK

\* The compilation starts with an input and nothing else.
LEMMA InitResult == Init => TypeOK /\ ResultInv
  <1> SUFFICES ASSUME Init PROVE TypeOK /\ ResultInv
    OBVIOUS
  <1>1. /\ stage = "parse" /\ fault = Fine /\ nodes = <<>> /\ proxies = <<>> /\ n = 1 /\ k = 1
        /\ \E in \in Inputs : subs \in in.subs /\ prof \in in.profs
    BY DEF Init
  <1>2. InputInv
    BY <1>1 DEF InputInv, Compiling
  <1>3. DOMAIN nodes = {} /\ DOMAIN proxies = {} /\ IsList(nodes) /\ IsList(proxies)
    BY <1>1, NoSubs
  <1>4. NodesInv
    <2>1. IsInjective([i \in DOMAIN nodes |-> nodes[i].host])
      BY <1>3 DEF IsInjective
    <2>2. "" \notin HostsOf(nodes)
      BY <1>3 DEF HostsOf
    <2>3. QED
      BY <1>1, <1>3, <2>1, <2>2 DEF NodesInv, Compiling, NodesNamed
  <1>5. SelectedInv /\ DerivedInv /\ GroupsInv /\ RulesInv
    BY <1>1 DEF SelectedInv, DerivedInv, GroupsInv, RulesInv, NodesNamed
  <1>6. TypeOK
    <2>1. 1 \in 1..Len(Numerals)
      BY DEF Numerals
    <2>2. Len(prof.chains) \in Nat
      BY <1>2, InputsAreListed, ListDomain DEF Listed, ProfileIsListed
    <2>3. ToSet(nodes) = {} /\ NamesOf(proxies) = {} /\ IDsOf(proxies) = {}
      BY <1>3 DEF ToSet, NamesOf, IDsOf
    <2>4. QED
      BY <1>1, <2>1, <2>2, <2>3 DEF TypeOK, Stages
  <1>7. QED
    BY <1>2, <1>4, <1>5, <1>6 DEF ResultInv

---------------------------------------------------------------------------
\* The promise the result keeps.

\* The state in which a result has been compiled.
Completed == /\ stage = "done" /\ InputInv /\ NodesInv /\ SelectedInv /\ DerivedInv /\ GroupsInv /\ RulesInv
             /\ NamesAreDistinct

\* The profile of a result has been accepted, and its custom proxies and groups
\* differ in their names.
LEMMA DoneProfile ==
  ASSUME Completed
  PROVE  /\ ProfileIsListed(prof) /\ ProfileFault(prof, target) = Fine
         /\ IsList(prof.customs) /\ NamedApart(prof.customs) /\ IsList(prof.groups)
         /\ \A c \in ToSet(ActiveCustoms) : IsList(c.name) /\ c.name \in CustomNames(prof) /\ selected[c.name] # {}
         /\ IsList(ActiveCustoms) /\ NamedApart(ActiveCustoms)
  <1>1. ProfileIsListed(prof) /\ ProfileFault(prof, target) = Fine
    BY InputsAreListed DEF InputInv, Compiling, Listed, Completed
  <1>2. IsList(prof.customs) /\ NamedApart(prof.customs) /\ IsList(prof.groups)
    BY <1>1, AcceptedCustoms DEF ProfileIsListed, NamedApart
  <1>3. /\ IsList(ActiveCustoms) /\ NamedApart(ActiveCustoms)
        /\ ToSet(ActiveCustoms) = {c \in ToSet(prof.customs) : selected[c.name] # {}}
    BY <1>2, ActiveFacts
  <1>4. \A c \in ToSet(prof.customs) : c.name \in CustomNames(prof)
    BY DEF ToSet, CustomNames
  <1>5. \A c \in ToSet(prof.customs) : IsList(c.name)
    BY <1>1 DEF ProfileIsListed
  <1>6. QED
    BY <1>1, <1>2, <1>3, <1>4, <1>5

\* The two kinds of groups of a result.
LEMMA DoneGroups ==
  ASSUME Completed
  PROVE  LET u == Len(prof.groups)  a == Len(ActiveCustoms) IN
         /\ u \in Nat /\ a \in Nat /\ Len(groups) = u + a /\ DOMAIN groups = 1..(u + a) /\ IsList(groups)
         /\ \A i \in 1..u : /\ groups[i].name = prof.groups[i].name /\ groups[i].members # <<>>
                            /\ groups[i].members = GroupMembers(prof.groups[i], proxies, SubProxies)
                            /\ prof.groups[i] \in ToSet(prof.groups)
         /\ \A i \in 1..a : /\ groups[u + i].name = AutoGroup(ActiveCustoms[i].name)
                            /\ groups[u + i].members = MemberRefs(DerivedOf(ActiveCustoms[i].name))
                            /\ ActiveCustoms[i] \in ToSet(ActiveCustoms)
         /\ DOMAIN prof.groups = 1..u /\ DOMAIN ActiveCustoms = 1..a
  <1> DEFINE u == Len(prof.groups)  a == Len(ActiveCustoms)
             U == UserGroups  A == AutoGroups
  <1>1. u \in Nat /\ a \in Nat /\ DOMAIN prof.groups = 1..u /\ DOMAIN ActiveCustoms = 1..a
        /\ (\A i \in 1..u : prof.groups[i] \in ToSet(prof.groups))
        /\ (\A i \in 1..a : ActiveCustoms[i] \in ToSet(ActiveCustoms))
    BY DoneProfile, ListDomain
  <1>2. groups = U \o A /\ \A i \in DOMAIN U : U[i].members # <<>>
    BY DEF Completed, GroupsInv
  <1>3. U = [i \in 1..u |-> [name |-> prof.groups[i].name, type |-> prof.groups[i].type,
                             members |-> GroupMembers(prof.groups[i], proxies, SubProxies)]]
    BY <1>1 DEF UserGroups
  <1>4. A = [i \in 1..a |-> [name |-> AutoGroup(ActiveCustoms[i].name), type |-> "select",
                             members |-> MemberRefs(DerivedOf(ActiveCustoms[i].name))]]
    BY <1>1 DEF AutoGroups
  <1> HIDE DEF U, A, u, a
  <1>5. \A i \in 1..u : U[i].name = prof.groups[i].name /\ U[i].members = GroupMembers(prof.groups[i], proxies, SubProxies)
    BY <1>3
  <1>6. \A i \in 1..a : /\ A[i].name = AutoGroup(ActiveCustoms[i].name)
                        /\ A[i].members = MemberRefs(DerivedOf(ActiveCustoms[i].name))
    BY <1>4
  <1>7. U = [i \in 1..u |-> U[i]] /\ A = [i \in 1..a |-> A[i]]
    BY <1>3, <1>4
  <1>8. IsList(U) /\ Len(U) = u /\ DOMAIN U = 1..u /\ IsList(A) /\ Len(A) = a /\ DOMAIN A = 1..a
    BY <1>1, <1>7, ListOfLen
  <1> DEFINE S == ToSet(U) \cup ToSet(A)
  <1>9. U \in Seq(S) /\ A \in Seq(S)
    <2>1. U \in Seq(ToSet(U)) /\ A \in Seq(ToSet(A))
      BY <1>8 DEF IsList
    <2>2. QED
      BY <2>1
  <1> HIDE DEF S
  <1>10. /\ groups \in Seq(S) /\ Len(groups) = u + a
         /\ \A i \in 1..u : groups[i] = U[i]
         /\ \A i \in 1..a : groups[u + i] = A[i]
    <2>1. groups = U \o A
      BY <1>2
    <2>2. /\ groups \in Seq(S) /\ Len(groups) = Len(U) + Len(A)
          /\ \A i \in 1..Len(U) : groups[i] = U[i]
          /\ \A i \in 1..Len(A) : groups[Len(U) + i] = A[i]
      BY <2>1, <1>9, BehindPrefix
    <2>3. Len(U) = u /\ Len(A) = a
      BY <1>8
    <2>4. QED
      BY <2>2, <2>3
  <1>11. DOMAIN groups = 1..(u + a) /\ IsList(groups)
    <2>1. DOMAIN groups = 1..(u + a)
      BY <1>10
    <2>2. groups = [i \in 1..(u + a) |-> groups[i]] /\ u + a \in Nat
      BY <1>1, <1>10, <2>1
    <2>3. QED
      BY <2>1, <2>2, ListOfLen
  <1>12. \A i \in 1..u : groups[i].members # <<>>
    BY <1>2, <1>8, <1>10
  <1>13. QED
    BY <1>1, <1>5, <1>6, <1>10, <1>11, <1>12 DEF u, a

\* The names of the groups are those of the profile and of the chains.
LEMMA DoneGroupNames ==
  ASSUME Completed
  PROVE  NamesOf(groups) = GroupNames(prof) \cup AutoGroupNames
  <1> DEFINE u == Len(prof.groups)  a == Len(ActiveCustoms)
  <1>1. /\ u \in Nat /\ a \in Nat /\ DOMAIN groups = 1..(u + a)
        /\ DOMAIN prof.groups = 1..u /\ DOMAIN ActiveCustoms = 1..a
        /\ \A i \in 1..u : groups[i].name = prof.groups[i].name
        /\ \A i \in 1..a : groups[u + i].name = AutoGroup(ActiveCustoms[i].name) /\ ActiveCustoms[i] \in ToSet(ActiveCustoms)
    BY DoneGroups
  <1> HIDE DEF u, a
  <1>2. ASSUME NEW i \in DOMAIN groups PROVE groups[i].name \in GroupNames(prof) \cup AutoGroupNames
    <2>1. CASE i \in 1..u
      BY <1>1, <2>1 DEF GroupNames
    <2>2. CASE i \notin 1..u
      <3>1. i - u \in 1..a /\ i = u + (i - u)
        BY <1>1, <2>2
      <3>2. groups[i].name = AutoGroup(ActiveCustoms[i - u].name) /\ ActiveCustoms[i - u] \in ToSet(ActiveCustoms)
        BY <1>1, <3>1
      <3>3. QED
        BY <3>2 DEF AutoGroupNames
    <2>3. QED
      BY <2>1, <2>2
  <1>3. ASSUME NEW i \in DOMAIN prof.groups PROVE prof.groups[i].name \in NamesOf(groups)
    <2>1. i \in DOMAIN groups /\ groups[i].name = prof.groups[i].name
      BY <1>1
    <2>2. QED
      BY <2>1 DEF NamesOf
  <1>4. ASSUME NEW c \in ToSet(ActiveCustoms) PROVE AutoGroup(c.name) \in NamesOf(groups)
    <2>1. PICK i \in 1..a : c = ActiveCustoms[i]
      BY <1>1 DEF ToSet
    <2>2. u + i \in DOMAIN groups /\ groups[u + i].name = AutoGroup(c.name)
      BY <1>1, <2>1
    <2>3. QED
      BY <2>2 DEF NamesOf
  <1>5. NamesOf(groups) \subseteq GroupNames(prof) \cup AutoGroupNames
    BY <1>2 DEF NamesOf
  <1>6. GroupNames(prof) \subseteq NamesOf(groups)
    BY <1>3 DEF GroupNames
  <1>7. AutoGroupNames \subseteq NamesOf(groups)
    BY <1>4 DEF AutoGroupNames
  <1>8. QED
    BY <1>5, <1>6, <1>7

\* No two groups of a result have one name.
LEMMA GroupsNamedApart ==
  ASSUME Completed
  PROVE  IsInjective([i \in DOMAIN groups |-> groups[i].name]) /\ Builtin \cap NamesOf(groups) = {}
  <1> DEFINE u == Len(prof.groups)  a == Len(ActiveCustoms)
  <1>1. /\ u \in Nat /\ a \in Nat /\ DOMAIN groups = 1..(u + a)
        /\ DOMAIN prof.groups = 1..u /\ DOMAIN ActiveCustoms = 1..a
        /\ \A i \in 1..u : groups[i].name = prof.groups[i].name
        /\ \A i \in 1..a : groups[u + i].name = AutoGroup(ActiveCustoms[i].name) /\ IsList(ActiveCustoms[i].name)
    BY DoneGroups, DoneProfile
  <1> HIDE DEF u, a
  <1>2. \A i, j \in 1..u : groups[i].name = groups[j].name => i = j
    BY <1>1, AcceptedGroups, DoneProfile
  <1>3. \A i \in 1..u : ~HasAutoPrefix(groups[i].name) /\ groups[i].name \notin Builtin
    BY <1>1, AcceptedGroups, DoneProfile
  <1>4. \A i \in 1..a : HasAutoPrefix(groups[u + i].name) /\ groups[u + i].name \notin Builtin
    BY <1>1, AutoGroupsDiffer
  <1>5. \A i, j \in 1..a : groups[u + i].name = groups[u + j].name => i = j
    <2> SUFFICES ASSUME NEW i \in 1..a, NEW j \in 1..a, groups[u + i].name = groups[u + j].name PROVE i = j
      OBVIOUS
    <2>1. ActiveCustoms[i].name = ActiveCustoms[j].name
      BY <1>1, AutoGroupsDiffer
    <2>2. QED
      BY <1>1, <2>1, DoneProfile DEF NamedApart
  <1>6. \A i \in DOMAIN groups : i \in 1..u \/ (i - u \in 1..a /\ i = u + (i - u))
    BY <1>1
  <1>7. ASSUME NEW i \in DOMAIN groups, NEW j \in DOMAIN groups, groups[i].name = groups[j].name PROVE i = j
    <2>1. CASE i \in 1..u /\ j \in 1..u
      BY <1>2, <1>7, <2>1
    <2>2. CASE i \in 1..u /\ j \notin 1..u
      BY <1>3, <1>4, <1>6, <1>7, <2>2
    <2>3. CASE i \notin 1..u /\ j \in 1..u
      BY <1>3, <1>4, <1>6, <1>7, <2>3
    <2>4. CASE i \notin 1..u /\ j \notin 1..u
      <3>1. i - u = j - u
        BY <1>5, <1>6, <1>7, <2>4
      <3>2. QED
        BY <1>1, <3>1
    <2>5. QED
      BY <2>1, <2>2, <2>3, <2>4
  <1>8. \A i \in DOMAIN groups : groups[i].name \notin Builtin
    BY <1>3, <1>4, <1>6
  <1>9. QED
    BY <1>7, <1>8 DEF IsInjective, NamesOf

\* The proxies of a result: the nodes, then the pairs.
LEMMA DoneProxies ==
  ASSUME Completed
  PROVE  LET m == Len(nodes)  l == Len(Pairs) IN
         /\ m \in Nat /\ l \in Nat /\ DOMAIN proxies = 1..(m + l) /\ IsList(proxies)
         /\ \A i \in 1..m : proxies[i].id = SubID(nodes[i].host) /\ proxies[i].via = NoProxy
         /\ \A q \in 1..l : proxies[m + q].id = DerivedID(Pairs[q].custom, Pairs[q].sub.id) /\ proxies[m + q].via = Pairs[q].sub.id
         /\ \A q \in 1..l : Pairs[q].custom \in CustomNames(prof) /\ Pairs[q].sub \in ToSet(SubProxies)
  <1> DEFINE m == Len(nodes)  l == Len(Pairs)
  <1>0. stage \in NodesNamed /\ InputInv /\ NodesInv
    BY DEF NodesNamed, Completed
  <1>1. m \in Nat /\ l \in Nat /\ DOMAIN proxies = 1..Len(proxies) /\ IsList(proxies) /\ Len(proxies) = m + l
    BY <1>0, PairsAreCounted DEF Completed, DerivedInv
  <1>2. \A i \in 1..m : proxies[i].id = SubID(nodes[i].host) /\ proxies[i].via = NoProxy
    <2>1. \A i \in DOMAIN proxies : i <= Len(nodes) =>
            proxies[i].id = SubID(nodes[i].host) /\ proxies[i].via = NoProxy
      BY <1>0 DEF NodesInv
    <2>2. \A i \in 1..m : i \in DOMAIN proxies /\ i <= Len(nodes)
      BY <1>1
    <2>3. QED
      BY <2>1, <2>2
  <1>3. ASSUME NEW q \in 1..l
        PROVE  proxies[m + q].id = DerivedID(Pairs[q].custom, Pairs[q].sub.id) /\ proxies[m + q].via = Pairs[q].sub.id
    <2>1. m + q \in DOMAIN proxies /\ m + q > m /\ (m + q) - m = q
      BY <1>1
    <2>2. QED
      BY <2>1 DEF Completed, DerivedInv
  <1>4. IsList(SubProxies) /\ KnownApart(SubProxies)
    BY <1>0, SubsAreNodes
  <1>5. \A q \in 1..l : (\E c \in ToSet(ActiveCustoms) : Pairs[q].custom = c.name) /\ Pairs[q].sub \in ToSet(SubProxies)
    BY <1>4, DoneProfile, PairFacts
  <1>6. \A q \in 1..l : Pairs[q].custom \in CustomNames(prof)
    BY <1>5, DoneProfile
  <1>7. QED
    BY <1>1, <1>2, <1>3, <1>5, <1>6

\* No two proxies of a result have one identity.
LEMMA ProxiesKnownApart ==
  ASSUME Completed
  PROVE  IsInjective([i \in DOMAIN proxies |-> proxies[i].id])
  <1> DEFINE m == Len(nodes)  l == Len(Pairs)
  <1>1. /\ m \in Nat /\ l \in Nat /\ DOMAIN proxies = 1..(m + l)
        /\ \A i \in 1..m : proxies[i].id = SubID(nodes[i].host)
        /\ \A q \in 1..l : proxies[m + q].id = DerivedID(Pairs[q].custom, Pairs[q].sub.id)
        /\ \A q \in 1..l : Pairs[q].custom \in CustomNames(prof) /\ Pairs[q].sub \in ToSet(SubProxies)
    BY DoneProxies
  <1>2. stage \in NodesNamed /\ NodesInv /\ <<>> \notin CustomNames(prof)
    BY DoneProfile, AcceptedCustoms DEF NodesNamed, Completed
  <1>3. /\ DOMAIN nodes = 1..m /\ KnownApart(SubProxies) /\ IsList(SubProxies)
        /\ \A p \in ToSet(SubProxies) : p.id = SubID(p.id.host)
    BY <1>2, SubsAreNodes
  <1>4. \A q, r \in 1..l : Pairs[q].custom = Pairs[r].custom /\ Pairs[q].sub.id = Pairs[r].sub.id => q = r
    BY <1>3, DoneProfile, PairFacts
  <1>5. \A i, j \in 1..m : nodes[i].host = nodes[j].host => i = j
    BY <1>2, <1>3 DEF NodesInv, IsInjective
  <1> HIDE DEF m, l
  <1>6. /\ \A h : SubID(h).custom = <<>> /\ SubID(h).host = h
        /\ \A c, v : DerivedID(c, v).custom = c /\ DerivedID(c, v).host = v.host
    BY DEF SubID, DerivedID
  <1>7. \A i \in DOMAIN proxies : i \in 1..m \/ (i - m \in 1..l /\ i = m + (i - m))
    BY <1>1
  <1>8. ASSUME NEW i \in 1..m, NEW j \in 1..m, proxies[i].id = proxies[j].id PROVE i = j
    <2>1. SubID(nodes[i].host) = SubID(nodes[j].host)
      BY <1>1, <1>8
    <2>2. QED
      BY <1>5, <1>6, <2>1
  <1>9. ASSUME NEW i \in 1..m, NEW q \in 1..l PROVE proxies[i].id # proxies[m + q].id
    <2>1. proxies[i].id.custom = <<>> /\ proxies[m + q].id.custom = Pairs[q].custom
      BY <1>1, <1>6
    <2>2. QED
      BY <1>1, <1>2, <2>1
  <1>10. ASSUME NEW q \in 1..l, NEW r \in 1..l, proxies[m + q].id = proxies[m + r].id PROVE q = r
    <2>1. DerivedID(Pairs[q].custom, Pairs[q].sub.id) = DerivedID(Pairs[r].custom, Pairs[r].sub.id)
      BY <1>1, <1>10
    <2>2. Pairs[q].custom = Pairs[r].custom /\ Pairs[q].sub.id.host = Pairs[r].sub.id.host
      BY <1>6, <2>1
    <2>3. Pairs[q].sub.id = SubID(Pairs[q].sub.id.host) /\ Pairs[r].sub.id = SubID(Pairs[r].sub.id.host)
      BY <1>1, <1>3
    <2>4. QED
      BY <1>4, <2>2, <2>3
  <1>11. ASSUME NEW i \in DOMAIN proxies, NEW j \in DOMAIN proxies, proxies[i].id = proxies[j].id PROVE i = j
    <2>1. CASE i \in 1..m /\ j \in 1..m
      BY <1>8, <1>11, <2>1
    <2>2. CASE i \in 1..m /\ j \notin 1..m
      BY <1>7, <1>9, <1>11, <2>2
    <2>3. CASE i \notin 1..m /\ j \in 1..m
      BY <1>7, <1>9, <1>11, <2>3
    <2>4. CASE i \notin 1..m /\ j \notin 1..m
      <3>1. i - m = j - m
        BY <1>7, <1>10, <1>11, <2>4
      <3>2. QED
        BY <1>1, <3>1
    <2>5. QED
      BY <2>1, <2>2, <2>3, <2>4
  <1>12. QED
    BY <1>11 DEF IsInjective

\* The identities a result has, where its members come from.
LEMMA KnownMember ==
  ASSUME Completed, NEW m, IsMember(prof, m, ToSet(proxies))
  PROVE  /\ m.kind = "proxy" => m.id \in IDsOf(proxies)
         /\ m.kind = "group" => m.name \in NamesOf(groups)
         /\ m.kind = "builtin" => m.name \in Builtin
         /\ m.kind \in {"proxy", "group", "builtin"}
  <1>1. CASE \E q \in ToSet(proxies) : m = ProxyMember(q.id)
    <2>1. PICK q \in ToSet(proxies) : m = ProxyMember(q.id)
      BY <1>1
    <2>2. q.id \in IDsOf(proxies)
      BY DEF ToSet, IDsOf
    <2>3. m.kind = "proxy" /\ m.id = q.id
      BY <2>1, Kinds
    <2>4. QED
      BY <2>2, <2>3
  <1>2. CASE \E x \in GroupNames(prof) \cup Builtin : m = NameMember(x)
    <2>1. PICK x \in GroupNames(prof) \cup Builtin : m = NameMember(x)
      BY <1>2
    <2>2. m.name = x /\ m.kind = IF x \in Builtin THEN "builtin" ELSE "group"
      BY <2>1, Kinds
    <2>3. x \notin Builtin => x \in NamesOf(groups)
      BY DoneGroupNames
    <2>4. QED
      BY <2>2, <2>3
  <1>3. QED
    BY <1>1, <1>2 DEF IsMember

\* The proxies of a result that go through no other are its nodes.
LEMMA DoneSubs ==
  ASSUME Completed
  PROVE  /\ IsList(SubProxies) /\ IsList(proxies) /\ KnownApart(SubProxies) /\ ToSet(SubProxies) \subseteq ToSet(proxies)
         /\ \A p \in ToSet(SubProxies) : p.id # NoProxy /\ p.via = NoProxy
         /\ {p.id.host : p \in ToSet(SubProxies)} = HostsOf(nodes)
  <1>1. stage \in NodesNamed /\ NodesInv
    BY DEF NodesNamed, Completed
  <1>2. /\ IsList(SubProxies) /\ KnownApart(SubProxies) /\ ToSet(SubProxies) = {p \in ToSet(proxies) : p.via = NoProxy}
        /\ \A p \in ToSet(SubProxies) : p.id.host \in HostsOf(nodes) /\ p.id # NoProxy /\ p.via = NoProxy
        /\ DOMAIN nodes = 1..Len(nodes) /\ DOMAIN SubProxies = 1..Len(nodes)
        /\ \A i \in 1..Len(nodes) : SubProxies[i].id = SubID(nodes[i].host)
    BY <1>1, SubsAreNodes
  <1>3. ASSUME NEW h \in HostsOf(nodes) PROVE \E p \in ToSet(SubProxies) : p.id.host = h
    <2>1. PICK i \in DOMAIN nodes : h = nodes[i].host
      BY DEF HostsOf
    <2>2. SubProxies[i].id = SubID(h) /\ SubProxies[i] \in ToSet(SubProxies)
      BY <1>2, <2>1 DEF ToSet
    <2>3. SubProxies[i].id.host = h
      BY <2>2 DEF SubID
    <2>4. QED
      BY <2>2, <2>3
  <1>4. {p.id.host : p \in ToSet(SubProxies)} = HostsOf(nodes)
    BY <1>2, <1>3
  <1>5. QED
    BY <1>1, <1>2, <1>4 DEF NodesInv

\* No group of the chains is empty: a custom proxy with a selection has derived proxies.
LEMMA DerivedOfActive ==
  ASSUME Completed, NEW c \in ToSet(ActiveCustoms)
  PROVE  /\ IsList(DerivedOf(c.name)) /\ ToSet(DerivedOf(c.name)) \subseteq ToSet(proxies)
         /\ Len(DerivedOf(c.name)) # 0
  <1> DEFINE T == {p \in ToSet(proxies) : p.via # NoProxy /\ p.id.custom = c.name}
  <1>1. DerivedOf(c.name) = Only(proxies, T)
    BY DEF DerivedOf
  <1> HIDE DEF T
  <1>2. IsList(DerivedOf(c.name)) /\ ToSet(DerivedOf(c.name)) = ToSet(proxies) \cap T
    BY <1>1, DoneSubs, OnlyIsList
  <1>3. PICK h \in selected[c.name] : TRUE
    BY DoneProfile
  <1>4. h \in HostsOf(nodes)
    <2>1. c.name \in CustomNames(prof)
      BY DoneProfile
    <2>2. stage \in NodesNamed /\ SelectedInv
      BY DEF Completed, NodesNamed
    <2>3. QED
      BY <1>3, <2>1, <2>2 DEF SelectedInv
  <1>5. PICK p \in ToSet(SubProxies) : p.id.host = h
    BY <1>4, DoneSubs
  <1>6. PICK q \in 1..Len(Pairs) : Pairs[q].custom = c.name /\ Pairs[q].sub = p
    BY <1>3, <1>5, DoneSubs, DoneProfile, PairFacts
  <1> DEFINE d == proxies[Len(nodes) + q]
  <1>7. /\ Len(nodes) \in Nat /\ Len(Pairs) \in Nat /\ DOMAIN proxies = 1..(Len(nodes) + Len(Pairs))
        /\ d.id = DerivedID(c.name, p.id) /\ d.via = p.id
    BY <1>6, DoneProxies
  <1>8. d \in ToSet(proxies)
    <2>1. Len(nodes) + q \in DOMAIN proxies
      BY <1>7
    <2>2. QED
      BY <2>1 DEF ToSet
  <1>9. d.via # NoProxy
    BY <1>5, <1>7, DoneSubs
  <1>10. d.id.custom = c.name
    BY <1>7 DEF DerivedID
  <1>11. d \in ToSet(DerivedOf(c.name))
    BY <1>2, <1>8, <1>9, <1>10 DEF T
  <1>12. Len(DerivedOf(c.name)) # 0
    <2>1. DOMAIN DerivedOf(c.name) = 1..Len(DerivedOf(c.name))
      BY <1>2, ListDomain
    <2>2. Len(DerivedOf(c.name)) = 0 => 1..Len(DerivedOf(c.name)) = {}
      OBVIOUS
    <2>3. DOMAIN DerivedOf(c.name) # {}
      BY <1>11 DEF ToSet
    <2>4. QED
      BY <2>1, <2>2, <2>3
  <1>13. QED
    BY <1>2, <1>12

\* Whatever a group of the result refers to is in the result.
LEMMA DoneMembers ==
  ASSUME Completed, NEW i \in DOMAIN groups
  PROVE  groups[i].members # <<>> /\ \A m \in DOMAIN groups[i].members : IsMember(prof, groups[i].members[m], ToSet(proxies))
  <1> DEFINE u == Len(prof.groups)  a == Len(ActiveCustoms)
  <1>1. /\ u \in Nat /\ a \in Nat /\ DOMAIN groups = 1..(u + a)
        /\ \A j \in 1..u : /\ groups[j].members # <<>>
                           /\ groups[j].members = GroupMembers(prof.groups[j], proxies, SubProxies)
                           /\ prof.groups[j] \in ToSet(prof.groups)
        /\ \A j \in 1..a : /\ groups[u + j].members = MemberRefs(DerivedOf(ActiveCustoms[j].name))
                           /\ ActiveCustoms[j] \in ToSet(ActiveCustoms)
    BY DoneGroups
  <1> HIDE DEF u, a
  <1>2. CASE i \in 1..u
    <2> DEFINE ms == GroupMembers(prof.groups[i], proxies, SubProxies)
    <2>1. IsList(ms) /\ \A m \in ToSet(ms) : IsMember(prof, m, ToSet(proxies) \cup ToSet(SubProxies))
      BY <1>1, <1>2, DoneProfile, DoneSubs, GroupMembersAre
    <2>2. ToSet(proxies) \cup ToSet(SubProxies) = ToSet(proxies)
      BY DoneSubs
    <2>3. groups[i].members = ms /\ groups[i].members # <<>>
      BY <1>1, <1>2
    <2>4. \A m \in DOMAIN ms : ms[m] \in ToSet(ms)
      BY DEF ToSet
    <2> HIDE DEF ms
    <2>5. QED
      BY <2>1, <2>2, <2>3, <2>4
  <1>3. CASE i \notin 1..u
    <2>1. i - u \in 1..a /\ i = u + (i - u)
      BY <1>1, <1>3
    <2> DEFINE c == ActiveCustoms[i - u]  ds == DerivedOf(c.name)
    <2>2. groups[i].members = MemberRefs(ds) /\ c \in ToSet(ActiveCustoms)
      BY <1>1, <2>1
    <2>3. IsList(ds) /\ ToSet(ds) \subseteq ToSet(proxies) /\ Len(ds) # 0
      BY <2>2, DerivedOfActive
    <2> HIDE DEF ds, c
    <2>4. /\ DOMAIN MemberRefs(ds) = 1..Len(ds) /\ Len(MemberRefs(ds)) = Len(ds)
          /\ \A m \in 1..Len(ds) : MemberRefs(ds)[m] = ProxyMember(ds[m].id)
          /\ \A m \in 1..Len(ds) : ds[m] \in ToSet(ds)
      BY <2>3, MembersAreListed, ListDomain
    <2>5. MemberRefs(ds) # <<>>
      BY <2>3, <2>4
    <2>6. \A m \in DOMAIN MemberRefs(ds) : IsMember(prof, MemberRefs(ds)[m], ToSet(proxies))
      BY <2>3, <2>4 DEF IsMember
    <2>7. QED
      BY <2>2, <2>5, <2>6
  <1>4. QED
    BY <1>2, <1>3

\* Members of groups are in the result.
LEMMA MembersOfResult == Completed => MembersExist(Result)
  <1> SUFFICES ASSUME Completed PROVE MembersExist(Result)
    OBVIOUS
  <1>1. Result.groups = groups /\ Result.proxies = proxies
    BY DEF Result
  <1>2. ASSUME NEW i \in DOMAIN groups, NEW m \in DOMAIN groups[i].members
        PROVE  LET x == groups[i].members[m] IN
               CASE x.kind = "proxy" -> x.id \in IDsOf(proxies)
                 [] x.kind = "group" -> x.name \in NamesOf(groups)
                 [] x.kind = "builtin" -> x.name \in Builtin
    <2> DEFINE x == groups[i].members[m]
    <2>1. IsMember(prof, x, ToSet(proxies))
      BY DoneMembers
    <2> HIDE DEF x
    <2>2. /\ x.kind = "proxy" => x.id \in IDsOf(proxies)
          /\ x.kind = "group" => x.name \in NamesOf(groups)
          /\ x.kind = "builtin" => x.name \in Builtin
          /\ x.kind \in {"proxy", "group", "builtin"}
      BY <2>1, KnownMember
    <2>3. CASE x.kind = "proxy"
      BY <2>2, <2>3 DEF x
    <2>4. CASE x.kind = "group"
      BY <2>2, <2>4 DEF x
    <2>5. CASE x.kind = "builtin"
      BY <2>2, <2>5 DEF x
    <2>6. QED
      BY <2>2, <2>3, <2>4, <2>5
  <1>3. QED
    BY <1>1, <1>2, DoneMembers DEF MembersExist

\* Derived proxies go through nodes of the result.
LEMMA ViasOfResult == Completed => ViasAreSubs(Result)
  <1> SUFFICES ASSUME Completed PROVE ViasAreSubs(Result)
    OBVIOUS
  <1>1. Result.proxies = proxies
    BY DEF Result
  <1>2. ASSUME NEW i \in DOMAIN proxies, proxies[i].via # NoProxy
        PROVE  \E j \in DOMAIN proxies : proxies[j].id = proxies[i].via /\ proxies[j].via = NoProxy
    <2> DEFINE m == Len(nodes)  l == Len(Pairs)
    <2>1. /\ m \in Nat /\ l \in Nat /\ DOMAIN proxies = 1..(m + l)
          /\ \A j \in 1..m : proxies[j].via = NoProxy
          /\ \A q \in 1..l : proxies[m + q].via = Pairs[q].sub.id /\ Pairs[q].sub \in ToSet(SubProxies)
      BY DoneProxies
    <2> HIDE DEF m, l
    <2>2. i - m \in 1..l /\ i = m + (i - m)
      BY <1>2, <2>1
    <2>3. proxies[i].via = Pairs[i - m].sub.id /\ Pairs[i - m].sub \in ToSet(SubProxies)
      BY <2>1, <2>2
    <2>4. Pairs[i - m].sub \in ToSet(proxies) /\ Pairs[i - m].sub.via = NoProxy
      BY <2>3, DoneSubs
    <2>5. PICK j \in DOMAIN proxies : proxies[j] = Pairs[i - m].sub
      BY <2>4 DEF ToSet
    <2>6. QED
      BY <2>3, <2>4, <2>5
  <1>3. QED
    BY <1>1, <1>2 DEF ViasAreSubs

\* The rules of a result are as many as the lines of the profile.
LEMMA InlineRulesAreListed ==
  ASSUME ProfileIsListed(prof)
  PROVE  IsList(InlineRules(prof)) /\ IsList(RuleLines(prof)) /\ Len(InlineRules(prof)) = Len(RuleLines(prof))
  <1> DEFINE ls == RuleLines(prof)  T == ToSet(prof.rules) \ {BlankLine}  rs == InlineRules(prof)
  <1>1. ls = Only(prof.rules, T)
    BY DEF RuleLines
  <1> HIDE DEF T
  <1>2. IsList(ls)
    BY <1>1, OnlyIsList DEF ProfileIsListed
  <1>3. Len(ls) \in Nat /\ DOMAIN ls = 1..Len(ls)
    BY <1>2, ListDomain
  <1>4. rs = [i \in 1..Len(ls) |-> InlineRule(ls[i])]
    BY <1>3 DEF InlineRules
  <1> HIDE DEF ls, rs
  <1>5. rs = [i \in 1..Len(ls) |-> rs[i]]
    BY <1>4
  <1>6. IsList(rs) /\ Len(rs) = Len(ls)
    BY <1>3, <1>5, ListOfLen
  <1>7. QED
    BY <1>2, <1>6 DEF ls, rs

\* Actions of rules are in the result, and MATCH is its last rule.
LEMMA RulesOfResult == Completed => ActionsExist(Result) /\ MatchIsLast(Result)
  <1> SUFFICES ASSUME Completed PROVE ActionsExist(Result) /\ MatchIsLast(Result)
    OBVIOUS
  <1> DEFINE rs == InlineRules(prof)
  <1>1. Result.groups = groups /\ Result.rules = rs /\ Result.rulesets = prof.rulesets
    BY DEF Result
  <1>2. OneFinalMatch /\ \A r \in ToSet(prof.rulesets) \cup ToSet(rs) : KnownAction(r)
    BY DEF Completed, RulesInv
  <1>3. ActionsExist(Result)
    BY <1>1, <1>2 DEF ActionsExist, KnownAction
  <1>4. {i \in DOMAIN rs : rs[i].type = "MATCH"} = {Len(rs)}
    BY <1>2 DEF OneFinalMatch, MatchRules
  <1> HIDE DEF rs
  <1>5. MatchIsLast(Result)
    BY <1>1, <1>4 DEF MatchIsLast
  <1>6. QED
    BY <1>3, <1>5

\* Names and identities of a result differ.
LEMMA NamesOfResult == Completed => NamesDiffer(Result) /\ IDsDiffer(Result)
  <1> SUFFICES ASSUME Completed PROVE NamesDiffer(Result) /\ IDsDiffer(Result)
    OBVIOUS
  <1>1. Result.groups = groups /\ Result.proxies = proxies
    BY DEF Result
  <1>2. /\ IsInjective([i \in DOMAIN proxies |-> proxies[i].name]) /\ NamesOf(proxies) \cap Builtin = {}
        /\ NamesOf(proxies) \cap (GroupNames(prof) \cup AutoGroupNames) = {}
    BY DEF Completed, NamesAreDistinct, ClaimedStages
  <1>3. /\ NamesOf(groups) = GroupNames(prof) \cup AutoGroupNames
        /\ IsInjective([i \in DOMAIN groups |-> groups[i].name]) /\ Builtin \cap NamesOf(groups) = {}
    BY DoneGroupNames, GroupsNamedApart
  <1>4. Builtin \cap (NamesOf(proxies) \cup NamesOf(groups)) = {}
    BY <1>2, <1>3
  <1>5. NamesDiffer(Result)
    BY <1>1, <1>2, <1>3, <1>4 DEF NamesDiffer
  <1>6. IDsDiffer(Result)
    BY <1>1, ProxiesKnownApart DEF IDsDiffer
  <1>7. QED
    BY <1>5, <1>6

\* A result is made of lists and of the three kinds of members.
LEMMA ResultIsMadeOfLists == Completed => IsResult(Result)
  <1> SUFFICES ASSUME Completed PROVE IsResult(Result)
    OBVIOUS
  <1> DEFINE rs == InlineRules(prof)
  <1>1. /\ Result.groups = groups /\ Result.proxies = proxies
        /\ Result.rulesets = prof.rulesets /\ Result.rules = rs
    BY DEF Result
  <1>2. IsList(proxies) /\ IsList(prof.rulesets) /\ IsList(rs)
    BY DoneSubs, DoneProfile, InlineRulesAreListed DEF ProfileIsListed
  <1> HIDE DEF rs
  <1> DEFINE u == Len(prof.groups)  a == Len(ActiveCustoms)
  <1>3. /\ u \in Nat /\ a \in Nat /\ Len(groups) = u + a /\ DOMAIN groups = 1..(u + a)
        /\ \A i \in 1..u : /\ groups[i].name = prof.groups[i].name
                           /\ groups[i].members = GroupMembers(prof.groups[i], proxies, SubProxies)
                           /\ prof.groups[i] \in ToSet(prof.groups)
        /\ \A i \in 1..a : /\ groups[u + i].name = AutoGroup(ActiveCustoms[i].name)
                           /\ groups[u + i].members = MemberRefs(DerivedOf(ActiveCustoms[i].name))
                           /\ ActiveCustoms[i] \in ToSet(ActiveCustoms)
    BY DoneGroups
  <1> HIDE DEF u, a
  <1>4. IsList(groups)
    BY DoneGroups
  <1>5. ASSUME NEW i \in DOMAIN groups PROVE IsList(groups[i].name) /\ IsList(groups[i].members)
    <2>1. CASE i \in 1..u
      <3>1. IsList(GroupMembers(prof.groups[i], proxies, SubProxies))
        BY <1>3, <2>1, DoneProfile, DoneSubs, GroupMembersAre
      <3>2. IsList(prof.groups[i].name)
        BY <1>3, <2>1, DoneProfile DEF ProfileIsListed
      <3>3. QED
        BY <1>3, <2>1, <3>1, <3>2
    <2>2. CASE i \notin 1..u
      <3>1. i - u \in 1..a /\ i = u + (i - u)
        BY <1>3, <2>2
      <3> DEFINE c == ActiveCustoms[i - u]  ds == DerivedOf(c.name)
      <3>2. c \in ToSet(ActiveCustoms) /\ groups[i].name = AutoGroup(c.name) /\ groups[i].members = MemberRefs(ds)
        BY <1>3, <3>1
      <3>3. IsList(c.name) /\ IsList(ds)
        BY <3>2, DoneProfile, DerivedOfActive
      <3> HIDE DEF c, ds
      <3>4. IsList(MemberRefs(ds))
        <4>1. Len(ds) \in Nat /\ DOMAIN ds = 1..Len(ds)
          BY <3>3, ListDomain
        <4>2. MemberRefs(ds) = [m \in 1..Len(ds) |-> ProxyMember(ds[m].id)]
          BY <4>1 DEF MemberRefs
        <4>3. MemberRefs(ds) = [m \in 1..Len(ds) |-> MemberRefs(ds)[m]]
          BY <4>2
        <4>4. QED
          BY <4>1, <4>3, ListOfLen
      <3>5. IsList(AutoGroup(c.name))
        BY <3>3, AutoGroupsDiffer
      <3>6. QED
        BY <3>2, <3>4, <3>5
    <2>3. QED
      BY <2>1, <2>2
  <1>6. ASSUME NEW i \in DOMAIN groups, NEW m \in DOMAIN groups[i].members
        PROVE  groups[i].members[m].kind \in {"proxy", "group", "builtin"}
    BY DoneMembers, KnownMember
  <1>7. \A g \in ToSet(groups) : /\ IsList(g.name) /\ IsList(g.members)
                                 /\ \A x \in ToSet(g.members) : x.kind \in {"proxy", "group", "builtin"}
    BY <1>5, <1>6 DEF ToSet
  <1>8. QED
    BY <1>1, <1>2, <1>4, <1>7 DEF IsResult

\* The invariant that carries the promise from pass to pass.
CompilerInv == NamingInv /\ TypeOK /\ ResultInv

\* It is inductive.
LEMMA NextResult == CompilerInv /\ [Next]_vars => CompilerInv'
  <1> SUFFICES ASSUME CompilerInv, [Next]_vars PROVE CompilerInv'
    OBVIOUS
  <1>1. NamingInv /\ TypeOK /\ InputInv /\ NodesInv /\ SelectedInv /\ DerivedInv /\ GroupsInv /\ RulesInv
    BY DEF CompilerInv, ResultInv
  <1>2. NamingInv'
    BY <1>1, NextNaming
  <1>3. NamesOf(proxies') \subseteq used'
    BY <1>2 DEF NamingInv, NamesOf
  <1>4. TypeOK'
    BY <1>1, <1>3, TypeStep
  <1>5. ResultInv'
    BY <1>1, InputStep, NodesStep, SelectedStep, DerivedStep, GroupsStep, RulesStep DEF ResultInv
  <1>6. QED
    BY <1>2, <1>4, <1>5 DEF CompilerInv

\* It holds in every state.
LEMMA CompilerInvHolds == Spec => []CompilerInv
  <1>1. Init => CompilerInv
    BY InitNaming, InitResult DEF CompilerInv
  <1>2. QED
    BY <1>1, NextResult, PTL DEF Spec

\* The loops of Compile stay in their bounds, no proxy is given a name that used
\* has not recorded, and a proxy always stands for a node of the subscriptions.
THEOREM CompilerTypes == Spec => []TypeOK
  <1>1. CompilerInv => TypeOK
    BY DEF CompilerInv
  <1>2. QED
    BY <1>1, CompilerInvHolds, PTL

\* Whatever Compile returns, of any nodes, profile and target, keeps the promise
\* the renderers rely on: names and identities differ, every member, chain and
\* action resolves, and MATCH is the last rule.
THEOREM ResultsAreWellFormed == Spec => []ResultIsWellFormed
  <1>1. CompilerInv => ResultIsWellFormed
    <2> SUFFICES ASSUME CompilerInv, stage = "done" PROVE WellFormed(Result)
      BY DEF ResultIsWellFormed
    <2>1. Completed
      BY DEF CompilerInv, ResultInv, NamingInv, Completed
    <2>2. QED
      BY <2>1, ResultIsMadeOfLists, NamesOfResult, MembersOfResult, ViasOfResult, RulesOfResult DEF WellFormed
  <1>2. QED
    BY <1>1, CompilerInvHolds, PTL

---------------------------------------------------------------------------
\* What the parser has accepted.

\* The codes that are found only by those who compile without the parser.
Repeated == {"CHAIN_PROXY_NOT_FOUND", "CHAIN_GROUP_NOT_FOUND", "CHAIN_PARSE_ERROR",
  "CUSTOM_PROXY_VALIDATE_ERROR", "GROUP_UNSUPPORTED_TYPE", "SUB_PARSE_ERROR"}

\* None of them is the fault of a compilation that has nodes.
FaultInv == nodes # <<>> => fault \notin Repeated

\* normalizeCustomProxy takes what parseCustomProxy takes.
LEMMA AcceptedIsNormalizable ==
  ASSUME NEW c, NEW tgt, CustomOk(c, tgt)
  PROVE  Normalizable(c)
  <1>1. c.name \notin Unnamed /\ c.server # "" /\ c.port \in Ports /\ (SsOk(c) \/ HttpOk(c, tgt))
    BY DEF CustomOk
  <1>2. CASE SsOk(c)
    <2>1. c.type = "ss" /\ c.username = "" /\ c.cipher # "" /\ c.password # ""
      BY <1>2 DEF SsOk
    <2>2. "" \notin {c.cipher, c.password}
      BY <2>1
    <2>3. c.type \notin HttpTypes
      BY <2>1 DEF HttpTypes
    <2>4. QED
      BY <1>1, <2>1, <2>2, <2>3 DEF Normalizable
  <1>3. CASE HttpOk(c, tgt)
    <2>1. c.type \in HttpTypes /\ c.cipher = "" /\ c.plugin = "" /\ (c.username = "" <=> c.password = "")
      BY <1>3 DEF HttpOk
    <2>2. c.type # "ss"
      BY <2>1 DEF HttpTypes
    <2>3. QED
      BY <1>1, <2>1, <2>2 DEF Normalizable
  <1>4. QED
    BY <1>1, <1>2, <1>3

\* No step makes one of them the fault.
LEMMA FaultStep ==
  ASSUME CompilerInv, FaultInv, [Next]_vars
  PROVE  FaultInv'
  <1>1. /\ NodesInv /\ InputInv /\ (stage = "failed" <=> fault # Fine) /\ (stage = "parse" => nodes = <<>>)
    BY DEF CompilerInv, ResultInv, TypeOK, NodesInv
  <1>2. Compiling => ProfileIsListed(prof) /\ ProfileFault(prof, target) = Fine
    BY <1>1, InputsAreListed DEF InputInv, Listed
  <1>3. Fine \notin Repeated
    BY DEF Fine, Repeated
  <1>4. CASE ParseProfile
    BY <1>1, <1>4 DEF ParseProfile, FaultInv
  <1>5. CASE CheckNames
    <2>1. \A c \in ToSet(prof.customs) : Normalizable(c)
      BY <1>2, <1>5, AcceptedCustoms, AcceptedIsNormalizable DEF CheckNames, Compiling, ToSet
    <2>2. \A g \in ToSet(prof.groups) : g.type \in {"select", "url-test"}
      BY <1>2, <1>5, AcceptedGroups DEF CheckNames, Compiling, ToSet
    <2>3. nodes # <<>> => fault' \in {Fine, "PROFILE_VALIDATE_ERROR"}
      BY <1>5, <2>1, <2>2 DEF CheckNames, Pass
    <2>4. nodes' = nodes
      BY <1>5 DEF CheckNames
    <2>5. QED
      BY <2>3, <2>4, <1>3 DEF FaultInv, Repeated
  <1>6. CASE SelectChain
    <2> DEFINE found == Chosen(prof.chains[k])
    <2>1. k \in DOMAIN prof.chains
      <3>1. k \in 1..(Len(prof.chains) + 1) /\ k <= Len(prof.chains)
        BY <1>6 DEF SelectChain, CompilerInv, TypeOK
      <3>2. DOMAIN prof.chains = 1..Len(prof.chains) /\ Len(prof.chains) \in Nat
        BY <1>2, <1>6, ListDomain DEF SelectChain, Compiling, ProfileIsListed
      <3>3. QED
        BY <3>1, <3>2
    <2>2. stage = "chain" /\ nodes' = nodes
      BY <1>6 DEF SelectChain
    <2>3. Sound(found)
      BY <1>1, <1>2, <2>1, <2>2, ChosenIsSound DEF Compiling
    <2>4. found.fault \in {Fine, "GROUP_REFERENCE_CYCLE"}
      BY <2>3 DEF Sound
    <2>5. fault' = IF found.fault = Fine /\ found.hosts = {} THEN "CHAIN_SELECTOR_EMPTY" ELSE found.fault
      BY <1>6 DEF SelectChain, Pass
    <2> HIDE DEF found
    <2>6. fault' \in {Fine, "GROUP_REFERENCE_CYCLE", "CHAIN_SELECTOR_EMPTY"}
      BY <2>4, <2>5
    <2>7. QED
      BY <2>6, <1>3 DEF FaultInv, Repeated
  <1>7. CASE ClaimNames
    <2>1. fault' \in {Fine, "PROFILE_VALIDATE_ERROR"}
      BY <1>7 DEF ClaimNames, Pass
    <2>2. QED
      BY <2>1, <1>3 DEF FaultInv, Repeated
  <1>8. CASE CompileGroups
    <2>1. fault' \in {Fine, "GROUP_PARSE_ERROR"}
      BY <1>8 DEF CompileGroups, Pass
    <2>2. QED
      BY <2>1, <1>3 DEF FaultInv, Repeated
  <1>9. CASE CompileRules
    <2> DEFINE cs == << IF \E r \in ToSet(prof.rulesets) : ~KnownAction(r) THEN "REFERENCE_NOT_FOUND" ELSE Fine,
                        IF ~OneFinalMatch THEN "RULE_PARSE_ERROR" ELSE Fine,
                        IF \E r \in ToSet(InlineRules(prof)) : ~KnownAction(r) THEN "REFERENCE_NOT_FOUND" ELSE Fine >>
               S == {"REFERENCE_NOT_FOUND", "RULE_PARSE_ERROR", Fine}
    <2>1. cs \in Seq(S)
      OBVIOUS
    <2>2. ToSet(cs) \subseteq S
      BY <2>1 DEF ToSet
    <2>3. fault' = FirstFault(cs)
      BY <1>9 DEF CompileRules, Pass
    <2> HIDE DEF cs
    <2>4. fault' \in S
      BY <2>1, <2>2, <2>3, FirstFaultIsFault
    <2>5. QED
      BY <2>4, <1>3 DEF FaultInv, Repeated
  <1>10. CASE Dedup \/ NameNode \/ Derive
    <2>1. stage # "failed" /\ fault' = fault
      BY <1>10 DEF Dedup, NameNode, Derive
    <2>2. QED
      BY <1>1, <1>3, <2>1 DEF FaultInv
  <1>11. CASE Finished \/ UNCHANGED vars
    BY <1>11 DEF Finished, vars, FaultInv
  <1>12. QED
    BY <1>4, <1>5, <1>6, <1>7, <1>8, <1>9, <1>10, <1>11 DEF Next

\* The credentials of an accepted profile can be written for Surge.
LEMMA CredentialsAreAccepted ==
  ASSUME InputInv, stage = "done", target = "surge", NEW c \in ToSet(ActiveCustoms), c.type # "ss"
  PROVE  {c.username, c.password} \cap {"comma", "control"} = {}
  <1>1. ProfileIsListed(prof) /\ ProfileFault(prof, target) = Fine
    BY InputsAreListed DEF InputInv, Compiling, Listed
  <1>2. IsList(prof.customs) /\ NamedApart(prof.customs)
    BY <1>1, AcceptedCustoms DEF ProfileIsListed, NamedApart
  <1>3. c \in ToSet(prof.customs)
    BY <1>2, ActiveFacts
  <1>4. CustomOk(c, target)
    BY <1>1, <1>3, AcceptedCustoms DEF ToSet
  <1>5. SsOk(c) \/ HttpOk(c, target)
    BY <1>4 DEF CustomOk
  <1>6. HttpOk(c, target)
    BY <1>5 DEF SsOk
  <1>7. QED
    BY <1>6 DEF HttpOk

\* Compile does not find fault with what ParseProfileYAML has accepted, except
\* for what only the nodes can show, and Surge can write the credentials.
THEOREM AcceptedProfilesCompile == Spec => []ParserGuards
  <1>1. Init => FaultInv
    BY DEF Init, FaultInv
  <1>2. CompilerInv /\ FaultInv /\ [Next]_vars => FaultInv'
    BY FaultStep
  <1>3. CompilerInv /\ FaultInv => ParserGuards
    BY CredentialsAreAccepted DEF ParserGuards, FaultInv, Repeated, CompilerInv, ResultInv
  <1>4. QED
    BY <1>1, <1>2, <1>3, CompilerInvHolds, PTL DEF Spec

---------------------------------------------------------------------------
\* What the rules of a result say.

\* A rule that is accepted reads back from the line Clash gets.
LEMMA RuleReadsBack ==
  ASSUME NEW line, IsList(line), InlineRuleFault(line) = Fine
  PROVE  /\ RuleLine(InlineRule(line)) = line
         /\ <<InlineRule(line).type>> \in CidrTypes =>
              (InlineRule(line).noResolve <=> \E j \in 3..Len(line) : j = Len(line) /\ line[j] = NoResolve)
  <1> DEFINE r == InlineRule(line)
  <1>1. \/ line[1] \in SimpleTypes /\ SimpleOk(line)
        \/ line[1] \in CidrTypes /\ CidrOk(line)
        \/ line[1] = MatchType /\ MatchOk(line)
    BY DEF InlineRuleFault, Fine
  <1>2. Len(line) \in Nat /\ DOMAIN line = 1..Len(line) /\ line \in Seq(ToSet(line))
    BY ListDomain
  <1>3. /\ r.type = line[1][1] /\ r.value = (IF line[1] = MatchType THEN <<>> ELSE line[2])
        /\ r.action = (IF line[1] = MatchType THEN line[2] ELSE line[3])
        /\ (r.noResolve <=> line[1] \in CidrTypes /\ Len(line) = 4)
    BY DEF InlineRule
  <1>4. RuleLine(r) = IF r.type = "MATCH" THEN <<MatchType, r.action>>
                      ELSE <<<<r.type>>, r.value, r.action>> \o (IF r.noResolve THEN <<NoResolve>> ELSE <<>>)
    BY DEF RuleLine
  <1> HIDE DEF r
  <1>5. CASE line[1] = MatchType /\ MatchOk(line)
    <2>1. Len(line) = 2 /\ r.type = "MATCH" /\ r.action = line[2]
      BY <1>3, <1>5 DEF MatchOk, MatchType
    <2>2. line = <<line[1], line[2]>>
      BY <1>2, <2>1
    <2>3. RuleLine(r) = line
      BY <1>4, <1>5, <2>1, <2>2
    <2>4. <<r.type>> \notin CidrTypes
      BY <2>1 DEF CidrTypes
    <2>5. QED
      BY <2>3, <2>4 DEF r
  <1>6. CASE line[1] \in SimpleTypes /\ SimpleOk(line)
    <2>1. PICK t \in {"DOMAIN", "DOMAIN-SUFFIX", "DOMAIN-KEYWORD", "GEOIP", "PROCESS-NAME", "URL-REGEX"} : line[1] = <<t>>
      BY <1>6 DEF SimpleTypes
    <2>2. line[1] # MatchType /\ line[1] \notin CidrTypes /\ line[1][1] = t /\ t # "MATCH"
      BY <2>1 DEF MatchType, CidrTypes
    <2>3. Len(line) = 3 /\ r.type = t /\ r.value = line[2] /\ r.action = line[3] /\ ~r.noResolve
      BY <1>3, <1>6, <2>2 DEF SimpleOk
    <2>4. line = <<line[1], line[2], line[3]>>
      BY <1>2, <2>3
    <2>5. RuleLine(r) = <<<<t>>, line[2], line[3]>> \o <<>>
      BY <1>4, <2>2, <2>3
    <2>6. RuleLine(r) = line
      BY <2>1, <2>4, <2>5
    <2>7. <<r.type>> \notin CidrTypes
      BY <2>1, <2>2, <2>3
    <2>8. QED
      BY <2>6, <2>7 DEF r
  <1>7. CASE line[1] \in CidrTypes /\ CidrOk(line)
    <2>1. PICK t \in {"IP-CIDR", "IP-CIDR6"} : line[1] = <<t>>
      BY <1>7 DEF CidrTypes
    <2>2. line[1] # MatchType /\ line[1][1] = t /\ t # "MATCH"
      BY <2>1 DEF MatchType
    <2>3. r.type = t /\ r.value = line[2] /\ r.action = line[3] /\ (r.noResolve <=> Len(line) = 4)
      BY <1>3, <1>7, <2>2
    <2>4. /\ Len(line) \in {3, 4} /\ (Len(line) = 3 => line[3] # NoResolve)
          /\ (Len(line) = 4 => line[4] = NoResolve)
      BY <1>7 DEF CidrOk
    <2>5. RuleLine(r) = line
      <3>1. CASE Len(line) = 3
        <4>1. line = <<line[1], line[2], line[3]>>
          BY <1>2, <3>1
        <4>2. RuleLine(r) = <<<<t>>, line[2], line[3]>> \o <<>>
          <5>1. ~r.noResolve /\ r.type # "MATCH"
            BY <2>1, <2>3, <3>1
          <5>2. RuleLine(r) = <<<<r.type>>, r.value, r.action>> \o <<>>
            BY <1>4, <5>1
          <5>3. QED
            BY <2>3, <5>2
        <4>3. QED
          BY <2>1, <4>1, <4>2
      <3>2. CASE Len(line) = 4
        <4>1. line = <<line[1], line[2], line[3], line[4]>>
          BY <1>2, <3>2
        <4>2. RuleLine(r) = <<<<t>>, line[2], line[3]>> \o <<NoResolve>>
          BY <1>4, <2>2, <2>3, <3>2
        <4>3. QED
          BY <2>1, <2>4, <3>2, <4>1, <4>2
      <3>3. QED
        BY <2>4, <3>1, <3>2
    <2>6. r.noResolve <=> \E j \in 3..Len(line) : j = Len(line) /\ line[j] = NoResolve
      <3>1. CASE Len(line) = 3
        <4>1. ~r.noResolve /\ line[3] # NoResolve
          BY <2>3, <2>4, <3>1
        <4>2. QED
          BY <3>1, <4>1
      <3>2. CASE Len(line) = 4
        <4>1. r.noResolve /\ line[4] = NoResolve /\ 4 \in 3..Len(line)
          BY <2>3, <2>4, <3>2
        <4>2. QED
          BY <3>2, <4>1
      <3>3. QED
        BY <2>4, <3>1, <3>2
    <2>7. QED
      BY <2>5, <2>6 DEF r
  <1>8. QED
    BY <1>1, <1>5, <1>6, <1>7

\* The rules of a result are the lines of the profile and read back as such.
THEOREM RulesAreRead == Spec => []RulesReadBack
  <1>1. CompilerInv => RulesReadBack
    <2> SUFFICES ASSUME CompilerInv, stage = "done" PROVE RulesReadBack
      BY DEF RulesReadBack
    <2> DEFINE lines == RuleLines(prof)  rs == InlineRules(prof)
    <2>1. ProfileIsListed(prof) /\ ProfileFault(prof, target) = Fine
      BY InputsAreListed DEF InputInv, Compiling, Listed, CompilerInv, ResultInv
    <2>2. IsList(rs) /\ IsList(lines) /\ Len(rs) = Len(lines)
      BY <2>1, InlineRulesAreListed
    <2>3. ToSet(lines) = ToSet(prof.rules) \ {BlankLine}
      <3> DEFINE T == ToSet(prof.rules) \ {BlankLine}
      <3>1. lines = Only(prof.rules, T)
        BY DEF RuleLines
      <3> HIDE DEF T, lines
      <3>2. ToSet(lines) = ToSet(prof.rules) \cap T
        BY <2>1, <3>1, OnlyIsList DEF ProfileIsListed
      <3>3. QED
        BY <3>2 DEF T, lines
    <2>4. /\ Len(lines) \in Nat /\ DOMAIN lines = 1..Len(lines) /\ DOMAIN rs = 1..Len(lines)
          /\ \A i \in 1..Len(lines) : lines[i] \in ToSet(lines)
      BY <2>2, ListDomain
    <2>5. \A i \in 1..Len(lines) : rs[i] = InlineRule(lines[i])
      BY <2>4 DEF InlineRules
    <2>6. \A i \in 1..Len(lines) : InlineRuleFault(lines[i]) = Fine
      BY <2>1, <2>4, ProfileAccepted
    <2>7. \A i \in 1..Len(lines) : IsList(lines[i])
      BY <2>1, <2>3, <2>4 DEF ProfileIsListed
    <2>8. Result.rules = rs
      BY DEF Result
    <2> HIDE DEF lines, rs
    <2>9. \A i \in DOMAIN rs :
            /\ RuleLine(rs[i]) = lines[i] /\ InlineRule(lines[i]) = rs[i]
            /\ <<rs[i].type>> \in CidrTypes =>
                 (rs[i].noResolve <=> \E j \in 3..Len(lines[i]) : j = Len(lines[i]) /\ lines[i][j] = NoResolve)
      BY <2>4, <2>5, <2>6, <2>7, RuleReadsBack
    <2>10. QED
      BY <2>2, <2>3, <2>8, <2>9 DEF RulesReadBack, lines, rs
  <1>2. QED
    BY <1>1, CompilerInvHolds, PTL

---------------------------------------------------------------------------
\* What normalisation keeps of the nodes.

\* The first place of a host that is listed.
LEMMA FirstPlace ==
  ASSUME NEW list, IsList(list), NEW i \in DOMAIN list
  PROVE  LET f == PositionIn(list, list[i].host) IN
         f \in Kept(list) /\ list[f].host = list[i].host
  <1> DEFINE h == list[i].host
             T == {j \in DOMAIN list : list[j].host = h}
             Is(f) == list[f].host = h /\ \A j \in 1..(f-1) : list[j].host # h
  <1>1. DOMAIN list = 1..Len(list) /\ Len(list) \in Nat
    BY ListDomain
  <1>2. T \subseteq Nat /\ i \in T
    BY <1>1
  <1>3. PICK f \in T : \A j \in T : f <= j
    BY <1>2, LeastNumber
  <1>4. ASSUME NEW j \in 1..(f-1) PROVE list[j].host # h
    <2>1. j \in DOMAIN list /\ ~(f <= j)
      BY <1>1, <1>3
    <2>2. QED
      BY <1>3, <2>1
  <1>5. \E x \in DOMAIN list : Is(x)
    BY <1>3, <1>4
  <1>6. PositionIn(list, h) = CHOOSE x \in DOMAIN list : Is(x)
    BY DEF PositionIn
  <1> HIDE DEF h, Is
  <1>7. PositionIn(list, h) \in DOMAIN list /\ Is(PositionIn(list, h))
    BY <1>5, <1>6
  <1>8. PositionIn(list, h) \in Kept(list) /\ list[PositionIn(list, h)].host = h
    BY <1>7 DEF Is, Kept
  <1>9. QED
    BY <1>8 DEF h

\* What is kept stands at the first place of its host.
LEMMA KeptIsFirst ==
  ASSUME NEW list, IsList(list), NEW i \in Kept(list)
  PROVE  PositionIn(list, list[i].host) = i
  <1> DEFINE f == PositionIn(list, list[i].host)
  <1>1. i \in DOMAIN list /\ \A j \in 1..(i-1) : list[j].host # list[i].host
    BY DEF Kept
  <1>2. f \in Kept(list) /\ list[f].host = list[i].host
    BY <1>1, FirstPlace
  <1>3. f \in DOMAIN list /\ \A j \in 1..(f-1) : list[j].host # list[f].host
    BY <1>2 DEF Kept
  <1>4. DOMAIN list = 1..Len(list) /\ Len(list) \in Nat
    BY ListDomain
  <1> HIDE DEF f
  <1>5. ~(f < i) /\ ~(i < f)
    BY <1>1, <1>2, <1>3, <1>4
  <1>6. f = i
    BY <1>1, <1>3, <1>4, <1>5
  <1>7. QED
    BY <1>6 DEF f

\* The nodes that are left stand in the order of these places, and no host is
\* lost.
LEMMA DedupedOrder ==
  ASSUME NEW list, IsList(list), AreNodes(list)
  PROVE  LET d == Deduped(list) IN
         /\ \A i \in DOMAIN d : PositionIn(list, d[i].host) \in DOMAIN list
                                /\ d[i] = Normalized(list[PositionIn(list, d[i].host)])
         /\ \A i, j \in DOMAIN d : i < j => PositionIn(list, d[i].host) < PositionIn(list, d[j].host)
         /\ HostsOf(d) = HostsOf(list)
  <1> DEFINE idx == [i \in DOMAIN list |-> i]
             kept == Only(idx, Kept(list))
             d == Deduped(list)
  <1>1. Len(list) \in Nat /\ DOMAIN list = 1..Len(list) /\ \A i \in 1..Len(list) : list[i] \in ToSet(list)
    BY ListDomain
  <1>2. idx \in Seq(Nat) /\ Len(idx) = Len(list) /\ \A i \in 1..Len(list) : idx[i] = i
    <2>1. idx = [i \in 1..Len(list) |-> i]
      BY <1>1
    <2>2. \A i \in 1..Len(list) : i \in Nat
      BY <1>1
    <2> HIDE DEF idx
    <2>3. QED
      BY <1>1, <2>1, <2>2
  <1>3. d = [i \in DOMAIN kept |-> Normalized(list[kept[i]])]
    BY DEF Deduped
  <1> HIDE DEF idx, d, kept
  <1>4. kept \in Seq(Nat) /\ \E h : Takes(kept, idx, {i \in 1..Len(idx) : idx[i] \in Kept(list)}, h)
    BY <1>2, OnlyTakes DEF kept
  <1>5. PICK h : Takes(kept, idx, {i \in 1..Len(idx) : idx[i] \in Kept(list)}, h)
    BY <1>4
  <1>6. Len(kept) \in Nat /\ DOMAIN kept = 1..Len(kept) /\ DOMAIN d = 1..Len(kept)
    BY <1>3, <1>4
  <1>7. \A i \in 1..Len(kept) : h[i] \in 1..Len(list) /\ h[i] \in Kept(list) /\ kept[i] = h[i]
    BY <1>2, <1>5 DEF Takes
  <1>8. \A i, j \in 1..Len(kept) : i < j => h[i] < h[j]
    BY <1>5 DEF Takes
  <1>9. ASSUME NEW i \in 1..Len(kept)
        PROVE  d[i] = Normalized(list[h[i]]) /\ d[i].host = list[h[i]].host /\ PositionIn(list, d[i].host) = h[i]
    <2>1. h[i] \in Kept(list) /\ kept[i] = h[i] /\ list[h[i]] \in ToSet(list)
      BY <1>1, <1>7
    <2>2. d[i] = Normalized(list[h[i]])
      BY <1>3, <1>6, <2>1
    <2>3. "host" \in DOMAIN list[h[i]]
      BY <2>1 DEF AreNodes
    <2>4. d[i].host = list[h[i]].host
      BY <2>2, <2>3 DEF Normalized
    <2>5. PositionIn(list, list[h[i]].host) = h[i]
      BY <2>1, KeptIsFirst
    <2>6. QED
      BY <2>2, <2>4, <2>5
  <1>10. HostsOf(d) \subseteq HostsOf(list)
    BY <1>1, <1>6, <1>7, <1>9 DEF HostsOf
  <1>11. ASSUME NEW i \in DOMAIN list PROVE list[i].host \in HostsOf(d)
    <2>1. PICK f : f = PositionIn(list, list[i].host)
      OBVIOUS
    <2>2. f \in Kept(list) /\ list[f].host = list[i].host
      BY <2>1, FirstPlace
    <2>3. f \in 1..Len(idx) /\ idx[f] \in Kept(list)
      BY <1>1, <1>2, <2>2 DEF Kept
    <2>4. PICK q \in 1..Len(kept) : h[q] = f
      BY <1>5, <2>3 DEF Takes
    <2>5. d[q].host = list[i].host
      BY <1>9, <2>2, <2>4
    <2>6. QED
      BY <1>6, <2>5 DEF HostsOf
  <1>12. HostsOf(d) = HostsOf(list)
    BY <1>10, <1>11 DEF HostsOf
  <1>13. \A i \in DOMAIN d : PositionIn(list, d[i].host) \in DOMAIN list
                             /\ d[i] = Normalized(list[PositionIn(list, d[i].host)])
    BY <1>1, <1>6, <1>7, <1>9
  <1>14. \A i, j \in DOMAIN d : i < j => PositionIn(list, d[i].host) < PositionIn(list, d[j].host)
    BY <1>6, <1>8, <1>9
  <1>15. QED
    BY <1>12, <1>13, <1>14 DEF d

\* No name holds the "=" of the formats, and none is blank.
Plain(name) == IsList(name) /\ name # <<>> /\ \A i \in DOMAIN name : name[i] # "="

\* A base name is plain.
LEMMA BaseIsPlain ==
  ASSUME NEW node, IsList(node.name)
  PROVE  Plain(BaseName(node))
  <1> DEFINE s == IF node.name = <<>> THEN <<node.host, ":8388">> ELSE node.name
             r == BaseName(node)
  <1>1. IsList(s) /\ s # <<>>
    <2>1. IsList(<<node.host, ":8388">>)
      <3>1. <<node.host, ":8388">> \in Seq({node.host, ":8388"})
        OBVIOUS
      <3>2. QED
        BY <3>1, SequenceIsList
    <2>2. QED
      BY <2>1
  <1>2. r = ReplaceAll(s, "=", "-")
    BY DEF BaseName, Compatible
  <1> HIDE DEF s
  <1>3. Len(s) \in Nat /\ DOMAIN s = 1..Len(s) /\ Len(s) # 0
    BY <1>1, ListDomain
  <1>4. r = [i \in 1..Len(s) |-> IF s[i] = "=" THEN "-" ELSE s[i]]
    BY <1>2, <1>3 DEF ReplaceAll
  <1>5. \A i \in 1..Len(s) : r[i] # "="
    BY <1>4
  <1>6. IsList(r) /\ Len(r) = Len(s) /\ DOMAIN r = 1..Len(s)
    <2>1. r = [i \in 1..Len(s) |-> r[i]]
      BY <1>4
    <2> HIDE DEF r
    <2>2. QED
      BY <2>1, <1>3, ListOfLen
  <1>7. r # <<>>
    BY <1>3, <1>6
  <1>8. QED
    BY <1>5, <1>6, <1>7 DEF Plain

\* A suffix leaves it plain.
LEMMA CandidateIsPlain ==
  ASSUME NEW base, Plain(base), NEW m \in 1..Len(Numerals)
  PROVE  Plain(Candidate(base, m))
  <1>1. CASE m = 1
    BY <1>1 DEF Candidate
  <1>2. CASE m # 1
    <2> DEFINE t == <<"-", Numerals[m]>>
               S == ToSet(base) \cup {"-", Numerals[m]}
               r == base \o t
    <2>1. Candidate(base, m) = r
      BY <1>2 DEF Candidate, WithSuffix
    <2>2. base \in Seq(S) /\ Len(base) \in Nat /\ DOMAIN base = 1..Len(base) /\ Len(base) # 0
      <3>1. base \in Seq(ToSet(base)) /\ Len(base) \in Nat /\ DOMAIN base = 1..Len(base)
        BY ListDomain DEF Plain
      <3>2. QED
        BY <3>1 DEF Plain
    <2>3. t \in Seq(S) /\ Len(t) = 2 /\ t[1] = "-" /\ t[2] = Numerals[m]
      OBVIOUS
    <2>4. Numerals[m] # "="
      BY DEF Numerals
    <2> HIDE DEF t, S, r
    <2>5. /\ r \in Seq(S) /\ Len(r) = Len(base) + 2
          /\ \A i \in 1..Len(base) : r[i] = base[i]
          /\ \A i \in 1..2 : r[Len(base) + i] = t[i]
      BY <2>2, <2>3, Joined DEF r
    <2>6. DOMAIN r = 1..(Len(base) + 2)
      BY <2>2, <2>5
    <2>7. ASSUME NEW i \in DOMAIN r PROVE r[i] # "="
      <3>1. CASE i \in 1..Len(base)
        BY <2>2, <2>5, <3>1 DEF Plain
      <3>2. CASE i = Len(base) + 1
        BY <2>3, <2>5, <3>2
      <3>3. CASE i = Len(base) + 2
        BY <2>3, <2>4, <2>5, <3>3
      <3>4. QED
        BY <2>2, <2>6, <3>1, <3>2, <3>3
    <2>8. IsList(r) /\ r # <<>>
      <3>1. IsList(r)
        BY <2>5, SequenceIsList
      <3>2. Len(r) # 0
        BY <2>2, <2>5
      <3>3. QED
        BY <3>1, <3>2
    <2>9. QED
      BY <2>1, <2>7, <2>8 DEF Plain
  <1>3. QED
    BY <1>1, <1>2

\* A plain name is its own base.
LEMMA PlainIsBase ==
  ASSUME NEW name, Plain(name), NEW node, node.name = name
  PROVE  BaseName(node) = name
  <1>1. Len(name) \in Nat /\ DOMAIN name = 1..Len(name) /\ name \in Seq(ToSet(name))
    BY ListDomain DEF Plain
  <1>2. BaseName(node) = ReplaceAll(name, "=", "-")
    BY DEF BaseName, Compatible, Plain
  <1>3. ReplaceAll(name, "=", "-") = [i \in 1..Len(name) |-> IF name[i] = "=" THEN "-" ELSE name[i]]
    BY <1>1 DEF ReplaceAll
  <1>4. \A i \in 1..Len(name) : name[i] # "="
    BY <1>1 DEF Plain
  <1>5. [i \in 1..Len(name) |-> IF name[i] = "=" THEN "-" ELSE name[i]] = [i \in 1..Len(name) |-> name[i]]
    BY <1>4
  <1>6. name = [i \in 1..Len(name) |-> name[i]]
    BY <1>1
  <1>7. QED
    BY <1>2, <1>3, <1>5, <1>6

\* The candidate the loop stops at is the first free one.
LEMMA FirstFreeIs ==
  ASSUME NEW base, NEW earlier, NEW m \in 1..Len(Numerals), Candidate(base, m) \notin earlier,
         \A l \in 1..(m-1) : Candidate(base, l) \in earlier
  PROVE  FirstFree(base, earlier) = Candidate(base, m)
  <1> DEFINE Is(x) == /\ Candidate(base, x) \notin earlier
                      /\ \A l \in 1..(x-1) : Candidate(base, l) \in earlier
             c == CHOOSE x \in 1..Len(Numerals) : Is(x)
  <1>1. Is(m)
    OBVIOUS
  <1>2. Len(Numerals) = 9
    BY DEF Numerals
  <1>3. FirstFree(base, earlier) = Candidate(base, c)
    BY DEF FirstFree
  <1>4. c \in 1..Len(Numerals) /\ Is(c)
    <2> HIDE DEF Is
    <2>1. QED
      BY <1>1
  <1> HIDE DEF c
  <1>5. ~(c < m) /\ ~(m < c)
    BY <1>1, <1>2, <1>4
  <1>6. c = m
    BY <1>2, <1>4, <1>5
  <1>7. QED
    BY <1>3, <1>6

\* Once the nodes are named, no step changes what they are.
LEMMA SubsStay ==
  ASSUME InputInv, NodesInv, stage \in NodesNamed, [Next]_vars
  PROVE  SubProxies' = SubProxies
  <1>1. UNCHANGED proxies \/ NamesPair
    BY Steps DEF Dedup, NamesNode, NodesNamed
  <1>2. CASE UNCHANGED proxies
    BY <1>2 DEF SubProxies
  <1>3. CASE NamesPair
    <2>1. PICK p : proxies' = Append(proxies, p) /\ p.via = PairOf(Len(proxies) + 1).sub.id
      BY <1>3 DEF NamesPair
    <2>2. stage = "derive" /\ stage' = "derive" /\ UNCHANGED nodes /\ Len(proxies) < Len(nodes) + Len(Pairs)
      BY <1>3 DEF NamesPair
    <2>3. ProfileIsListed(prof) /\ ProfileFault(prof, target) = Fine
      BY <2>2, InputsAreListed DEF InputInv, Compiling, Listed
    <2>4. p.via # NoProxy
      BY <2>1, <2>2, <2>3, NextPair
    <2>5. QED
      BY <2>1, <2>2, <2>4, PairNamed
  <1>4. QED
    BY <1>1, <1>2, <1>3

\* What is kept depends on the nodes among the proxies only.
LEMMA KeptFrame ==
  ASSUME NodesAreKept, UNCHANGED subs, SubProxies' = SubProxies, stage' # "done"
  PROVE  NodesAreKept'
  <1>1. \A h : Position(h)' = Position(h)
    BY DEF Position
  <1>2. \A h : BaseOf(h)' = BaseOf(h)
    BY <1>1 DEF BaseOf
  <1>3. \A i : NamesBefore(i)' = NamesBefore(i)
    BY DEF NamesBefore
  <1>4. NamedByFirstFit'
    BY <1>2, <1>3 DEF NodesAreKept, NamedByFirstFit
  <1>5. InOrderOfSubs'
    BY <1>1 DEF NodesAreKept, InOrderOfSubs
  <1>6. QED
    BY <1>4, <1>5 DEF NodesAreKept

\* A node gets the first name that is free, which it keeps when it is read back.
LEMMA NameKept ==
  ASSUME Listed, NodesInv, KeptInv, NameNode, n \in 1..Len(Numerals)
  PROVE  KeptInv'
  <1> DEFINE m == Len(proxies)
             node == nodes[m + 1]
             base == BaseName(node)
             name == Candidate(base, n)
             p == [id |-> SubID(node.host), name |-> name, via |-> NoProxy]
  <1>1. /\ stage = "name" /\ stage' = "name" /\ m < Len(nodes) /\ UNCHANGED <<subs, prof, target, nodes>>
        /\ \/ TrySuffix(base) /\ UNCHANGED <<used, proxies>>
           \/ Give(base, SubID(node.host), NoProxy)
    BY DEF NameNode, input
  <1>2. /\ used = NamesOf(proxies) /\ nodes = Deduped(subs) /\ NodesAreKept
        /\ \A l \in 1..(n-1) : Taken(Candidate(base, l))
    BY <1>1 DEF KeptInv, Compiling
  <1>3. /\ IsList(proxies) /\ m \in Nat /\ DOMAIN proxies = 1..m
        /\ IsList(nodes) /\ Len(nodes) \in Nat /\ DOMAIN nodes = 1..Len(nodes)
    BY ListDomain DEF NodesInv
  <1>4. CASE TrySuffix(base) /\ UNCHANGED <<used, proxies>>
    <2>1. Taken(Candidate(base, n)) /\ n' = n + 1 /\ SubProxies' = SubProxies
      BY <1>4 DEF TrySuffix, SubProxies
    <2>2. \A l \in 1..(n'-1) : Taken(Candidate(base, l))
      BY <1>2, <2>1
    <2>3. PICK b : b = base
      OBVIOUS
    <2>4. BaseName(nodes'[Len(proxies') + 1]) = b
      BY <1>1, <1>4, <2>3
    <2>5. \A l \in 1..(n'-1) : Candidate(b, l) \in used' \cup Builtin
      BY <1>4, <2>2, <2>3 DEF Taken
    <2>6. NodesAreKept'
      BY <1>1, <1>2, <2>1, KeptFrame
    <2>7. used' = NamesOf(proxies')
      BY <1>2, <1>4
    <2>8. (nodes = Deduped(subs))'
      BY <1>1, <1>2
    <2>9. (\A l \in 1..(n-1) : Taken(Candidate(BaseName(nodes[Len(proxies) + 1]), l)))'
      BY <2>4, <2>5 DEF Taken
    <2>10. QED
      BY <1>1, <2>6, <2>7, <2>8, <2>9 DEF KeptInv
  <1>5. CASE Give(base, SubID(node.host), NoProxy)
    <2>1. ~Taken(name) /\ proxies' = Append(proxies, p) /\ used' = used \cup {name} /\ n' = 1
      BY <1>5 DEF Give
    <2>2. /\ IsList(SubProxies) /\ Len(SubProxies) = m /\ DOMAIN SubProxies = 1..m
          /\ \A i \in 1..m : SubProxies[i] = proxies[i] /\ proxies[i].id = SubID(nodes[i].host)
      <3>1. Len(SubProxies) = m /\ \A i \in DOMAIN SubProxies : SubProxies[i] = proxies[i]
        BY <1>1 DEF NodesInv, Compiling
      <3>2. IsList(SubProxies) /\ DOMAIN SubProxies = 1..Len(SubProxies)
        BY <1>3, SubsAre DEF SubProxies, SubsOf
      <3>3. \A i \in 1..m : i \in DOMAIN proxies /\ i <= Len(nodes) /\ i \in DOMAIN SubProxies
        BY <1>1, <1>3, <3>1, <3>2
      <3>4. QED
        BY <3>1, <3>2, <3>3 DEF NodesInv
    <2>3. p.id = SubID(node.host) /\ p.name = name /\ p.via = NoProxy
      OBVIOUS
    <2> HIDE DEF p
    <2>4. SubProxies' = Append(SubProxies, p)
      <3>1. SubsOf(Append(proxies, p)) = Append(SubsOf(proxies), p)
        BY <1>3, <2>3, SubsGrow
      <3>2. SubProxies = SubsOf(proxies) /\ SubProxies' = SubsOf(proxies')
        BY DEF SubProxies, SubsOf
      <3>3. QED
        BY <2>1, <3>1, <3>2
    <2>5. /\ DOMAIN SubProxies' = 1..(m + 1) /\ SubProxies'[m + 1] = p
          /\ \A i \in 1..m : SubProxies'[i] = SubProxies[i]
      BY <2>2, <2>4, OneMore
    <2>6. \A h : SubID(h).host = h
      BY DEF SubID
    <2>7. \A i \in 1..m : SubProxies'[i].id.host = nodes[i].host
      BY <2>2, <2>5, <2>6
    <2>8. SubProxies'[m + 1].id.host = node.host
      BY <2>3, <2>5, <2>6
    <2>9. \A h : Position(h) = PositionIn(subs, h) /\ Position(h)' = Position(h)
      BY <1>1 DEF Position
    <2>10. \A h : BaseOf(h)' = BaseOf(h)
      BY <1>1, <2>9 DEF BaseOf
    <2>11. \A i \in 1..(m + 1) : NamesBefore(i)' = NamesBefore(i)
      <3>1. \A i \in 1..(m + 1) : \A j \in 1..(i-1) : SubProxies'[j] = SubProxies[j]
        BY <1>3, <2>5
      <3>2. QED
        BY <3>1 DEF NamesBefore
    <2>12. NamesBefore(m + 1) = used \cup Builtin
      <3>1. NamesOf(proxies) = {SubProxies[j].name : j \in 1..m}
        BY <1>3, <2>2 DEF NamesOf
      <3>2. (m + 1) - 1 = m
        BY <1>3
      <3>3. QED
        BY <1>2, <3>1, <3>2 DEF NamesBefore
    <2>13. /\ \A i \in DOMAIN nodes : PositionIn(subs, nodes[i].host) \in DOMAIN subs
                                      /\ nodes[i] = Normalized(subs[PositionIn(subs, nodes[i].host)])
           /\ \A i, j \in DOMAIN nodes : i < j => PositionIn(subs, nodes[i].host) < PositionIn(subs, nodes[j].host)
      BY <1>2, DedupedOrder DEF Listed
    <2>14. m + 1 \in DOMAIN nodes
      BY <1>1, <1>3
    <2>15. PICK s : s = subs[Position(node.host)]
      OBVIOUS
    <2>16. s \in ToSet(subs) /\ node = Normalized(s)
      BY <2>9, <2>13, <2>14, <2>15 DEF ToSet
    <2>17. DOMAIN s = {"host", "upper", "name"} /\ IsList(s.name)
      BY <2>16 DEF Listed, AreNodes
    <2>18. node.name = s.name /\ node.host = s.host
      BY <2>16, <2>17 DEF Normalized
    <2>19. base = BaseOf(node.host) /\ Plain(base)
      <3>1. BaseName(node) = BaseName(s)
        BY <2>18 DEF BaseName
      <3>2. Plain(BaseName(s))
        BY <2>17, BaseIsPlain
      <3>3. QED
        BY <2>15, <3>1, <3>2 DEF BaseOf
    <2>20. Plain(name)
      BY <2>19, CandidateIsPlain
    <2> HIDE DEF base, name, node, m
    <2>21. name \notin NamesBefore(m + 1)
      BY <2>1, <2>12 DEF Taken
    <2>22. name = FirstFree(BaseOf(node.host), NamesBefore(m + 1))
      <3>1. \A l \in 1..(n-1) : Candidate(base, l) \in NamesBefore(m + 1)
        BY <1>2, <2>12 DEF Taken
      <3>2. Candidate(base, n) \notin NamesBefore(m + 1)
        BY <2>21 DEF name
      <3>3. FirstFree(base, NamesBefore(m + 1)) = Candidate(base, n)
        BY <3>1, <3>2, FirstFreeIs
      <3>4. QED
        BY <3>3, <2>19 DEF name
    <2>23. \A x : x.name = name => FirstFree(BaseName(x), NamesBefore(m + 1)) = name
      <3>1. 1 \in 1..Len(Numerals) /\ Candidate(name, 1) = name /\ \A l : ~(l \in 1..(1-1))
        BY DEF Numerals, Candidate
      <3>2. FirstFree(name, NamesBefore(m + 1)) = name
        BY <3>1, <2>21, FirstFreeIs
      <3>3. \A x : x.name = name => BaseName(x) = name
        BY <2>20, PlainIsBase
      <3>4. QED
        BY <3>2, <3>3
    <2>24. ASSUME NEW i \in 1..(m + 1)
           PROVE  LET q == SubProxies'[i]
                      again == [host |-> q.id.host, upper |-> FALSE, name |-> q.name]
                  IN /\ q.name = FirstFree(BaseOf(q.id.host), NamesBefore(i))
                     /\ FirstFree(BaseName(again), NamesBefore(i)) = q.name
      <3>1. CASE i = m + 1
        <4> DEFINE again == [host |-> p.id.host, upper |-> FALSE, name |-> p.name]
        <4>1. SubProxies'[i] = p /\ p.name = name /\ p.id.host = node.host
          BY <2>3, <2>5, <2>6, <3>1
        <4>2. again.name = name
          BY <4>1
        <4>3. FirstFree(BaseName(again), NamesBefore(i)) = p.name
          BY <2>23, <3>1, <4>1, <4>2
        <4>4. p.name = FirstFree(BaseOf(p.id.host), NamesBefore(i))
          BY <2>22, <3>1, <4>1
        <4>5. QED
          BY <4>1, <4>3, <4>4
      <3>2. CASE i \in 1..m
        <4>1. i \in DOMAIN SubProxies /\ SubProxies'[i] = SubProxies[i]
          BY <2>2, <2>5, <3>2
        <4>2. QED
          BY <1>2, <4>1 DEF NodesAreKept, NamedByFirstFit
      <3>3. QED
        BY <1>3, <3>1, <3>2
    <2>25. NamedByFirstFit'
      BY <2>5, <2>10, <2>11, <2>24 DEF NamedByFirstFit
    <2>26. ASSUME NEW i \in 1..(m + 1), NEW j \in 1..(m + 1), i < j
           PROVE  Position(SubProxies'[i].id.host) < Position(SubProxies'[j].id.host)
      <3>1. \A x \in 1..(m + 1) : SubProxies'[x].id.host = nodes[x].host /\ x \in DOMAIN nodes
        <4>1. ASSUME NEW x \in 1..(m + 1) PROVE SubProxies'[x].id.host = nodes[x].host /\ x \in DOMAIN nodes
          <5>1. CASE x = m + 1
            BY <2>8, <2>14, <5>1 DEF node
          <5>2. CASE x \in 1..m
            BY <1>3, <2>7, <2>14, <5>2
          <5>3. QED
            BY <1>3, <5>1, <5>2
        <4>2. QED
          BY <4>1
      <3>2. QED
        BY <2>9, <2>13, <2>26, <3>1
    <2>27. InOrderOfSubs'
      BY <2>5, <2>9, <2>26 DEF InOrderOfSubs
    <2>28. NodesAreKept'
      BY <1>1, <2>25, <2>27 DEF NodesAreKept
    <2>29. NamesOf(proxies') = NamesOf(proxies) \cup {name}
      <3>1. proxies \in Seq(ToSet(proxies))
        BY <1>3, ListDomain
      <3>2. QED
        BY <2>1, <2>3, <3>1, AppendedName
    <2>30. used' = NamesOf(proxies') /\ \A l : ~(l \in 1..(n'-1))
      BY <1>2, <2>1, <2>29
    <2>31. (nodes = Deduped(subs))'
      BY <1>1, <1>2
    <2>32. QED
      BY <1>1, <2>28, <2>30, <2>31 DEF KeptInv
  <1>6. QED
    BY <1>1, <1>4, <1>5

\* Every other step leaves the nodes that are named alone.
LEMMA KeptStep ==
  ASSUME CompilerInv, KeptInv, [Next]_vars
  PROVE  KeptInv'
  <1>1. /\ InputInv /\ NodesInv /\ Listed /\ NodesAreKept /\ n \in 1..Len(Numerals)
    BY InputsAreListed DEF CompilerInv, ResultInv, TypeOK, KeptInv
  <1>2. UNCHANGED <<subs, prof, target>>
    BY <1>1, Steps
  <1> DEFINE Later == stage' \notin {"parse", "dedup", "name"}
  <1>3. ASSUME Later, Compiling' => Compiling /\ stage # "dedup", nodes' = nodes, SubProxies' = SubProxies,
               stage' = "done" => NodesAreKept'
        PROVE  KeptInv'
    <2>1. NodesAreKept'
      BY <1>1, <1>2, <1>3, KeptFrame
    <2>2. (Compiling => nodes = Deduped(subs))'
      BY <1>2, <1>3 DEF KeptInv
    <2>3. QED
      BY <1>3, <2>1, <2>2 DEF KeptInv
  <1>4. CASE ParseProfile
    <2>1. stage = "parse" /\ stage' \in {"dedup", "failed"} /\ UNCHANGED <<n, used, proxies>>
      BY <1>4, PassStages DEF ParseProfile
    <2>2. n' = 1 /\ used' = {} /\ SubProxies' = SubProxies
      BY <2>1 DEF KeptInv, SubProxies
    <2>3. NodesAreKept'
      BY <1>1, <1>2, <2>1, <2>2, KeptFrame
    <2>4. QED
      BY <2>1, <2>2, <2>3 DEF KeptInv, Compiling
  <1>5. CASE Dedup
    <2>1. stage = "dedup" /\ stage' = "name" /\ nodes' = Deduped(subs) /\ UNCHANGED <<n, used, proxies>>
      BY <1>5 DEF Dedup
    <2>2. n' = 1 /\ used' = {} /\ proxies' = <<>> /\ SubProxies' = SubProxies
      BY <1>1, <2>1 DEF KeptInv, SubProxies, NodesInv
    <2>3. NodesAreKept'
      BY <1>1, <1>2, <2>1, <2>2, KeptFrame
    <2>4. used' = NamesOf(proxies')
      BY <2>2 DEF NamesOf
    <2>5. \A l : ~(l \in 1..(n'-1))
      BY <2>2
    <2>6. (nodes = Deduped(subs))'
      BY <1>2, <2>1
    <2>7. QED
      BY <2>1, <2>3, <2>4, <2>5, <2>6 DEF KeptInv
  <1>6. CASE NameNode
    BY <1>1, <1>6, NameKept
  <1>7. CASE CheckNames
    <2>1. stage = "name" /\ stage' \in {"chain", "failed"} /\ UNCHANGED <<nodes, proxies>>
      BY <1>7, PassStages DEF CheckNames
    <2>2. QED
      BY <1>3, <2>1 DEF SubProxies, Compiling
  <1>8. CASE SelectChain
    <2>1. stage = "chain" /\ stage' \in {"chain", "failed"} /\ UNCHANGED <<nodes, proxies>>
      BY <1>8, PassStages DEF SelectChain
    <2>2. QED
      BY <1>3, <2>1 DEF SubProxies, Compiling
  <1>9. CASE ClaimNames
    <2>1. stage = "chain" /\ stage' \in {"derive", "failed"} /\ UNCHANGED <<nodes, proxies>>
      BY <1>9, PassStages DEF ClaimNames
    <2>2. QED
      BY <1>3, <2>1 DEF SubProxies, Compiling
  <1>10. CASE Derive
    <2>1. stage = "derive" /\ stage' = "derive" /\ nodes' = nodes
      BY <1>10 DEF Derive
    <2>2. SubProxies' = SubProxies
      BY <1>1, <2>1, SubsStay DEF NodesNamed
    <2>3. QED
      BY <1>3, <2>1, <2>2 DEF Compiling
  <1>11. CASE CompileGroups
    <2>1. stage = "derive" /\ stage' \in {"rules", "failed"} /\ UNCHANGED <<nodes, proxies>>
      BY <1>11, PassStages DEF CompileGroups
    <2>2. QED
      BY <1>3, <2>1 DEF SubProxies, Compiling
  <1>12. CASE CompileRules
    <2>1. stage = "rules" /\ stage' \in {"done", "failed"} /\ UNCHANGED <<nodes, proxies>>
      BY <1>12, PassStages DEF CompileRules
    <2>2. SubProxies' = SubProxies
      BY <2>1 DEF SubProxies
    <2>3. {p.id.host : p \in ToSet(SubProxies)} = HostsOf(subs)
      <3>1. /\ DOMAIN SubProxies = 1..Len(nodes) /\ DOMAIN nodes = 1..Len(nodes)
            /\ \A i \in 1..Len(nodes) : SubProxies[i].id = SubID(nodes[i].host)
        BY <1>1, <2>1, SubsAreNodes DEF NodesNamed
      <3>0. \A h : SubID(h).host = h
        BY DEF SubID
      <3>2. \A i \in 1..Len(nodes) : SubProxies[i].id.host = nodes[i].host
        BY <3>0, <3>1
      <3>3. {p.id.host : p \in ToSet(SubProxies)} = HostsOf(nodes)
        BY <3>1, <3>2 DEF ToSet, HostsOf
      <3>4. nodes = Deduped(subs)
        BY <2>1 DEF KeptInv, Compiling
      <3>5. QED
        BY <1>1, <3>3, <3>4, DedupedOrder DEF Listed
    <2>4. stage' = "done" => NodesAreKept'
      <3>1. \A h : Position(h)' = Position(h)
        BY <1>2 DEF Position
      <3>2. \A h : BaseOf(h)' = BaseOf(h)
        BY <1>2, <3>1 DEF BaseOf
      <3>3. \A i : NamesBefore(i)' = NamesBefore(i)
        BY <2>2 DEF NamesBefore
      <3>4. NamedByFirstFit'
        BY <1>1, <2>2, <3>2, <3>3 DEF NodesAreKept, NamedByFirstFit
      <3>5. InOrderOfSubs'
        BY <1>1, <2>2, <3>1 DEF NodesAreKept, InOrderOfSubs
      <3>6. ({p.id.host : p \in ToSet(SubProxies)} = HostsOf(subs))'
        BY <1>2, <2>2, <2>3
      <3>7. QED
        BY <3>4, <3>5, <3>6 DEF NodesAreKept
    <2>5. QED
      BY <1>3, <2>1, <2>2, <2>4 DEF Compiling
  <1>13. CASE Finished \/ UNCHANGED vars
    <2>1. UNCHANGED <<subs, stage, nodes, n, used, proxies>>
      BY <1>13 DEF Finished, vars, input
    <2>2. QED
      BY <2>1 DEF KeptInv, NodesAreKept, NamedByFirstFit, InOrderOfSubs, NamesBefore, BaseOf, Position, SubProxies,
                  Compiling, Taken, NamesOf
  <1>14. QED
    BY <1>4, <1>5, <1>6, <1>7, <1>8, <1>9, <1>10, <1>11, <1>12, <1>13 DEF Next

\* Every node of the subscriptions is in the result once, in the order of the
\* subscriptions and under the first name that was free, whatever the profile
\* derives from it; and what was compiled keeps its names when it is compiled
\* again.
THEOREM SubscriptionsAreKept == Spec => []NodesAreKept
  <1>1. Init => KeptInv
    <2> SUFFICES ASSUME Init PROVE KeptInv
      OBVIOUS
    <2>1. stage = "parse" /\ n = 1 /\ used = {} /\ proxies = <<>>
      BY DEF Init
    <2>2. SubProxies = <<>>
      BY <2>1, NoSubs DEF SubProxies, SubsOf
    <2>3. DOMAIN SubProxies = {}
      BY <2>2
    <2>4. QED
      BY <2>1, <2>3 DEF KeptInv, Compiling, NodesAreKept, NamedByFirstFit, InOrderOfSubs
  <1>2. CompilerInv /\ KeptInv /\ [Next]_vars => KeptInv'
    BY KeptStep
  <1>3. KeptInv => NodesAreKept
    BY DEF KeptInv
  <1>4. QED
    BY <1>1, <1>2, <1>3, CompilerInvHolds, PTL DEF Spec

---------------------------------------------------------------------------
\* What the chains reach.

\* The proxies a group names itself, and the names in its list.
Owned(s) == {q \in ToSet(SubProxies) :
  IF s.type = "select" /\ s.members # <<>> THEN AllSubs \in ToSet(s.members) ELSE Matches(s.regex, q.name)}
ListedIn(s) == IF s.type = "select" THEN ToSet(s.members) \ {AllSubs} ELSE {}

\* The members of a group as chains see them are these, and nothing else.
LEMMA PreGroupHas ==
  ASSUME ProfileIsListed(prof), ProfileFault(prof, target) = Fine, IsList(SubProxies), NEW s \in ToSet(prof.groups)
  PROVE  ToSet(PreGroup(s.name)) = {ProxyMember(q.id) : q \in Owned(s)} \cup {NameMember(x) : x \in ListedIn(s)}
  <1> DEFINE B == SubProxies
             M == {ProxyMember(q.id) : q \in Owned(s)} \cup {NameMember(x) : x \in ListedIn(s)}
             r == GroupMembers(s, B, B)
  <1>1. PreGroup(s.name) = r
    <2>1. \A i, j \in DOMAIN prof.groups : prof.groups[i].name = prof.groups[j].name => i = j
      BY AcceptedGroups
    <2>2. \A t \in ToSet(prof.groups) : t.name = s.name => t = s
      BY <2>1 DEF ToSet
    <2>3. s = CHOOSE g \in ToSet(prof.groups) : g.name = s.name
      BY <2>2
    <2>4. QED
      BY <2>3 DEF PreGroup
  <1>2. IsList(B)
    OBVIOUS
  <1>3. Owned(s) = {q \in ToSet(B) :
          IF s.type = "select" /\ s.members # <<>> THEN AllSubs \in ToSet(s.members) ELSE Matches(s.regex, q.name)}
    BY DEF Owned
  <1> HIDE DEF B
  <1>4. CASE s.type = "select" /\ s.members # <<>>
    <2> DEFINE x == s.members
               all == MemberRefs(B)
               ss == [i \in DOMAIN x |-> IF x[i] = AllSubs THEN all ELSE <<NameMember(x[i])>>]
               A == {ProxyMember(q.id) : q \in ToSet(B)}
               N == {NameMember(y) : y \in ToSet(x)}
    <2>1. r = FlattenSeq(ss)
      BY <1>4 DEF GroupMembers
    <2>2. IsList(x) /\ Len(x) \in Nat /\ DOMAIN x = 1..Len(x) /\ \A i \in 1..Len(x) : x[i] \in ToSet(x)
      <3>1. IsList(x)
        BY DEF ProfileIsListed
      <3>2. QED
        BY <3>1, ListDomain
    <2>3. all \in Seq(A) /\ ToSet(all) = A
      <3>1. Len(all) = Len(B) /\ DOMAIN all = 1..Len(B) /\ all \in Seq(A)
            /\ \A i \in 1..Len(B) : all[i] = ProxyMember(B[i].id)
        BY <1>2, MembersAreListed
      <3>2. ToSet(B) = {B[i] : i \in 1..Len(B)}
        BY <1>2, ListDomain DEF ToSet
      <3>3. ToSet(all) = {all[i] : i \in 1..Len(B)}
        BY <3>1 DEF ToSet
      <3> HIDE DEF all
      <3>4. QED
        BY <3>1, <3>2, <3>3
    <2> HIDE DEF all, A, x, N
    <2>4. ss = [i \in 1..Len(x) |-> IF x[i] = AllSubs THEN all ELSE <<NameMember(x[i])>>]
      BY <2>2
    <2>5. \A i \in 1..Len(x) : ss[i] = IF x[i] = AllSubs THEN all ELSE <<NameMember(x[i])>>
      BY <2>4
    <2>6. ASSUME NEW i \in 1..Len(x)
          PROVE  ss[i] \in Seq(A \cup N) /\ ToSet(ss[i]) = IF x[i] = AllSubs THEN A ELSE {NameMember(x[i])}
      <3>1. CASE x[i] = AllSubs
        <4>1. ss[i] = all
          BY <2>5, <3>1
        <4> HIDE DEF ss
        <4>2. QED
          BY <2>3, <3>1, <4>1
      <3>2. CASE x[i] # AllSubs
        <4>1. ss[i] = <<NameMember(x[i])>> /\ NameMember(x[i]) \in N
          BY <2>2, <2>5, <3>2 DEF N
        <4>2. ToSet(<<NameMember(x[i])>>) = {NameMember(x[i])}
          BY SingleElement DEF ToSet
        <4> HIDE DEF ss
        <4>3. QED
          BY <3>2, <4>1, <4>2
      <3>3. QED
        BY <3>1, <3>2
    <2>7. ss \in Seq(Seq(A \cup N)) /\ Len(ss) = Len(x)
      <3>1. ss = [i \in 1..Len(x) |-> ss[i]]
        BY <2>4
      <3> HIDE DEF ss
      <3>2. QED
        BY <2>2, <2>6, <3>1
    <2> HIDE DEF ss
    <2>8. ToSet(r) = UNION {ToSet(ss[i]) : i \in 1..Len(x)}
      <3>1. ToSet(FlattenSeq(ss)) = UNION {ToSet(ss[i]) : i \in 1..Len(ss)}
        BY <2>7, FlattenElements
      <3>2. QED
        BY <2>1, <2>7, <3>1
    <2>9. ToSet(x) = {x[i] : i \in 1..Len(x)}
      BY <2>2 DEF ToSet
    <2>10. ListedIn(s) = ToSet(x) \ {AllSubs}
      BY <1>4 DEF ListedIn, x
    <2>11. Owned(s) = IF AllSubs \in ToSet(x) THEN ToSet(B) ELSE {}
      BY <1>3, <1>4 DEF x
    <2>12. ToSet(r) \subseteq M
      <3>1. ASSUME NEW i \in 1..Len(x) PROVE ToSet(ss[i]) \subseteq M
        <4>1. CASE x[i] = AllSubs
          <5>1. AllSubs \in ToSet(x)
            BY <2>9, <4>1
          <5>2. QED
            BY <2>6, <2>11, <4>1, <5>1 DEF A
        <4>2. CASE x[i] # AllSubs
          <5>1. x[i] \in ListedIn(s)
            BY <2>9, <2>10, <4>2
          <5>2. QED
            BY <2>6, <4>2, <5>1
        <4>3. QED
          BY <4>1, <4>2
      <3>2. QED
        BY <2>8, <3>1
    <2>13. M \subseteq ToSet(r)
      <3>1. ASSUME NEW q \in Owned(s) PROVE ProxyMember(q.id) \in ToSet(r)
        <4>1. AllSubs \in ToSet(x) /\ q \in ToSet(B)
          BY <2>11
        <4>2. PICK i \in 1..Len(x) : x[i] = AllSubs
          BY <2>9, <4>1
        <4>3. ProxyMember(q.id) \in ToSet(ss[i])
          BY <2>6, <4>1, <4>2 DEF A
        <4>4. QED
          BY <2>8, <4>3
      <3>2. ASSUME NEW y \in ListedIn(s) PROVE NameMember(y) \in ToSet(r)
        <4>1. PICK i \in 1..Len(x) : x[i] = y
          BY <2>9, <2>10
        <4>2. y # AllSubs
          BY <2>10
        <4>3. NameMember(y) \in ToSet(ss[i])
          BY <2>6, <4>1, <4>2
        <4>4. QED
          BY <2>8, <4>3
      <3>3. QED
        BY <3>1, <3>2
    <2>14. QED
      BY <1>1, <2>12, <2>13
  <1>5. CASE ~(s.type = "select" /\ s.members # <<>>)
    <2> DEFINE T == {q \in ToSet(B) : Matches(s.regex, q.name)}
               o == Only(B, T)
    <2>1. r = MemberRefs(o)
      BY <1>5 DEF GroupMembers
    <2>2. Owned(s) = T
      BY <1>3, <1>5
    <2>3. ListedIn(s) = {}
      <3>1. CASE s.type = "select"
        <4>1. s.members = <<>> /\ ToSet(<<>>) = {}
          BY <1>5, <3>1 DEF ToSet
        <4>2. QED
          BY <3>1, <4>1 DEF ListedIn
      <3>2. CASE s.type # "select"
        BY <3>2 DEF ListedIn
      <3>3. QED
        BY <3>1, <3>2
    <2>4. T \subseteq ToSet(B)
      OBVIOUS
    <2> HIDE DEF T
    <2>5. IsList(o) /\ ToSet(o) = T
      BY <1>2, <2>4, OnlyIsList
    <2> HIDE DEF o
    <2>6. ToSet(MemberRefs(o)) = {ProxyMember(q.id) : q \in T}
      <3> DEFINE all == MemberRefs(o)
      <3>1. DOMAIN all = 1..Len(o) /\ \A i \in 1..Len(o) : all[i] = ProxyMember(o[i].id)
        BY <2>5, MembersAreListed
      <3>2. T = {o[i] : i \in 1..Len(o)}
        BY <2>5, ListDomain DEF ToSet
      <3>3. ToSet(all) = {all[i] : i \in 1..Len(o)}
        BY <3>1 DEF ToSet
      <3> HIDE DEF all
      <3>4. ToSet(all) = {ProxyMember(q.id) : q \in T}
        BY <3>1, <3>2, <3>3
      <3>5. QED
        BY <3>4 DEF all
    <2>7. QED
      BY <1>1, <2>1, <2>2, <2>3, <2>6
  <1>6. QED
    BY <1>4, <1>5

\* The groups a group contains are those its list names.
LEMMA ContainedAre ==
  ASSUME ProfileIsListed(prof), ProfileFault(prof, target) = Fine, NEW s \in ToSet(prof.groups)
  PROVE  s.name \in GroupNames(prof) /\ Contained[s.name] = ListedIn(s) \cap GroupNames(prof)
  <1>1. s.name \in GroupNames(prof)
    BY DEF ToSet, GroupNames
  <1>2. \A t \in ToSet(prof.groups) : t.name = s.name => t = s
    <2>1. \A i, j \in DOMAIN prof.groups : prof.groups[i].name = prof.groups[j].name => i = j
      BY AcceptedGroups
    <2>2. QED
      BY <2>1 DEF ToSet
  <1>3. Contained[s.name] = {h \in GroupNames(prof) : Contains1(s.name, h)}
    BY <1>1 DEF Contained
  <1>4. \A h : Contains1(s.name, h) <=> h # AllSubs /\ s.type = "select" /\ h \in ToSet(s.members)
    BY <1>2 DEF Contains1
  <1>5. \A h : h \in ListedIn(s) <=> h # AllSubs /\ s.type = "select" /\ h \in ToSet(s.members)
    BY DEF ListedIn
  <1>6. QED
    BY <1>1, <1>3, <1>4, <1>5

\* What is below a group: the group and what is below those it contains.
LEMMA BelowIs ==
  ASSUME NEW g \in GroupNames(prof)
  PROVE  /\ Contained[g] \subseteq GroupNames(prof) /\ Below(g) \subseteq GroupNames(prof)
         /\ Below(g) = {g} \cup UNION {Below(h) : h \in Contained[g]}
  <1> DEFINE G == GroupNames(prof)
             S == {g} \cup UNION {Below(h) : h \in Contained[g]}
  <1>1. \A h \in G : Contained[h] \subseteq G
    BY DEF Contained
  <1>2. \A h \in G : h \in Below(h) /\ Below(h) \subseteq G
    BY DEF Below
  <1>3. \A h \in G : \A x \in Below(h) : Contained[x] \subseteq Below(h)
    <2> TAKE h \in G
    <2> TAKE x \in Below(h)
    <2>1. x \in G
      BY <1>2
    <2>2. ASSUME NEW y \in Contained[x], NEW R \in SUBSET G, h \in R, Closed(R) PROVE y \in R
      <3>1. x \in R
        BY <2>2 DEF Below
      <3>2. QED
        BY <2>2, <3>1 DEF Closed
    <2>3. ASSUME NEW y \in Contained[x] PROVE y \in Below(h)
      <3>1. y \in G
        BY <1>1, <2>1
      <3>2. QED
        BY <2>2, <3>1 DEF Below
    <2>4. QED
      BY <2>3
  <1>4. S \subseteq Below(g)
    <2>1. ASSUME NEW h \in Contained[g], NEW x \in Below(h) PROVE x \in Below(g)
      <3>1. h \in G /\ h \in Below(g)
        BY <1>1, <1>2, <1>3
      <3>2. ASSUME NEW R \in SUBSET G, g \in R, Closed(R) PROVE x \in R
        <4>1. h \in R
          BY <3>2 DEF Closed
        <4>2. QED
          BY <3>2, <4>1 DEF Below
      <3>3. x \in G
        BY <3>1, <1>2
      <3>4. QED
        BY <3>2, <3>3 DEF Below
    <2>2. QED
      BY <2>1, <1>2
  <1>5. Below(g) \subseteq S
    <2>1. S \in SUBSET G /\ g \in S
      BY <1>1, <1>2
    <2>2. Closed(S)
      <3>1. ASSUME NEW x \in S PROVE Contained[x] \subseteq S
        <4>1. CASE x = g
          <5>1. \A h \in Contained[g] : h \in Below(h)
            BY <1>1, <1>2
          <5>2. QED
            BY <4>1, <5>1
        <4>2. CASE \E h \in Contained[g] : x \in Below(h)
          <5>1. PICK h \in Contained[g] : x \in Below(h)
            BY <4>2
          <5>2. Contained[x] \subseteq Below(h)
            BY <1>1, <1>3, <5>1
          <5>3. QED
            BY <5>2
        <4>3. QED
          BY <4>1, <4>2
      <3> HIDE DEF S
      <3>2. QED
        BY <3>1 DEF Closed
    <2> HIDE DEF S
    <2>3. QED
      BY <2>1, <2>2 DEF Below
  <1>6. QED
    BY <1>1, <1>2, <1>4, <1>5

\* What one member stands for, when below are the answers of the groups.
PartOf(m, below) ==
  CASE m.kind = "proxy" -> Found({m.id.host})
    [] m.kind = "group" /\ m.name \in GroupNames(prof) -> below[m.name]
    [] m.kind = "group" /\ m.name \notin GroupNames(prof) -> Lost("CHAIN_GROUP_NOT_FOUND")
    [] OTHER -> Found({})

\* A group that is opened gives its own hosts one by one, and what the groups
\* in it give.
LEMMA OpenedHas ==
  ASSUME ProfileIsListed(prof), ProfileFault(prof, target) = Fine, IsList(SubProxies),
         NEW s \in ToSet(prof.groups), NEW below
  PROVE  /\ IsList(Opened(s.name, below))
         /\ \A x \in ToSet(Opened(s.name, below)) :
              \/ \E h \in OwnHosts(s) : x = Found({h})
              \/ \E h \in Contained[s.name] : x = below[h]
              \/ x = Found({})
         /\ \A h \in OwnHosts(s) : Found({h}) \in ToSet(Opened(s.name, below))
         /\ \A h \in Contained[s.name] : below[h] \in ToSet(Opened(s.name, below))
  <1> DEFINE ms == PreGroup(s.name)  o == Opened(s.name, below)
  <1>0. s.name \in GroupNames(prof) /\ Contained[s.name] = ListedIn(s) \cap GroupNames(prof)
    BY ContainedAre
  <1>1. IsList(ms) /\ DOMAIN ms = 1..Len(ms) /\ Len(ms) \in Nat
    BY <1>0, PreGroupMembers, ListDomain
  <1>2. ToSet(ms) = {ProxyMember(q.id) : q \in Owned(s)} \cup {NameMember(x) : x \in ListedIn(s)}
    BY PreGroupHas
  <1>3. o = [i \in 1..Len(ms) |-> PartOf(ms[i], below)]
    BY <1>1 DEF Opened, PartOf
  <1> HIDE DEF ms, o
  <1>4. IsList(o) /\ DOMAIN o = 1..Len(ms)
    <2>1. o = [i \in 1..Len(ms) |-> o[i]]
      BY <1>3
    <2>2. QED
      BY <2>1, <1>1, ListOfLen
  <1>5. ToSet(o) = {PartOf(m, below) : m \in ToSet(ms)}
    <2>1. ToSet(o) = {o[i] : i \in 1..Len(ms)} /\ ToSet(ms) = {ms[i] : i \in 1..Len(ms)}
      BY <1>1, <1>4 DEF ToSet
    <2>2. \A i \in 1..Len(ms) : o[i] = PartOf(ms[i], below)
      BY <1>3
    <2>3. QED
      BY <2>1, <2>2
  <1>6. \A id : PartOf(ProxyMember(id), below) = Found({id.host})
    BY Kinds DEF PartOf
  <1>7. ASSUME NEW x \in GroupNames(prof), x \notin Builtin PROVE PartOf(NameMember(x), below) = below[x]
    BY <1>7, Kinds DEF PartOf
  <1>8. ASSUME NEW x \in Builtin PROVE PartOf(NameMember(x), below) = Found({})
    BY <1>8, Kinds DEF PartOf
  <1>9. /\ \A x \in GroupNames(prof) : x \notin Builtin
        /\ ListedIn(s) \subseteq GroupNames(prof) \cup Builtin
    <2>1. PICK i \in DOMAIN prof.groups : s = prof.groups[i]
      BY DEF ToSet
    <2>2. \A j \in DOMAIN prof.groups : /\ prof.groups[j].name \notin Builtin
                                        /\ prof.groups[j].type = "select" =>
                                             ToSet(prof.groups[j].members) \subseteq GroupNames(prof) \cup Builtin \cup {AllSubs}
      BY AcceptedGroups
    <2>3. QED
      BY <2>1, <2>2 DEF GroupNames, ListedIn
  <1>10. OwnHosts(s) = {q.id.host : q \in Owned(s)}
    BY DEF OwnHosts, Owned
  <1>11. ASSUME NEW x \in ToSet(o)
         PROVE  (\E h \in OwnHosts(s) : x = Found({h})) \/ (\E h \in Contained[s.name] : x = below[h]) \/ x = Found({})
    <2>1. PICK m \in ToSet(ms) : x = PartOf(m, below)
      BY <1>5
    <2>2. CASE \E q \in Owned(s) : m = ProxyMember(q.id)
      <3>1. PICK q \in Owned(s) : m = ProxyMember(q.id)
        BY <2>2
      <3>2. x = Found({q.id.host}) /\ q.id.host \in OwnHosts(s)
        BY <1>6, <1>10, <2>1, <3>1
      <3>3. QED
        BY <3>2
    <2>3. CASE \E y \in ListedIn(s) : m = NameMember(y)
      <3>1. PICK y \in ListedIn(s) : m = NameMember(y)
        BY <2>3
      <3>2. CASE y \in Builtin
        BY <1>8, <2>1, <3>1, <3>2
      <3>3. CASE y \notin Builtin
        <4>1. y \in Contained[s.name]
          BY <1>0, <1>9, <3>3
        <4>2. x = below[y]
          BY <1>0, <1>7, <2>1, <3>1, <3>3, <4>1
        <4>3. QED
          BY <4>1, <4>2
      <3>4. QED
        BY <3>2, <3>3
    <2>4. QED
      BY <1>2, <2>2, <2>3
  <1>12. ASSUME NEW h \in OwnHosts(s) PROVE Found({h}) \in ToSet(o)
    <2>1. PICK q \in Owned(s) : h = q.id.host
      BY <1>10
    <2>2. ProxyMember(q.id) \in ToSet(ms)
      BY <1>2
    <2>3. QED
      BY <1>5, <1>6, <2>1, <2>2
  <1>13. ASSUME NEW h \in Contained[s.name] PROVE below[h] \in ToSet(o)
    <2>1. h \in GroupNames(prof) /\ h \notin Builtin /\ h \in ListedIn(s)
      BY <1>0, <1>9
    <2>2. NameMember(h) \in ToSet(ms)
      BY <1>2, <2>1
    <2>3. PartOf(NameMember(h), below) = below[h]
      BY <1>7, <2>1
    <2>4. QED
      BY <1>5, <2>2, <2>3
  <1>14. QED
    BY <1>4, <1>11, <1>12, <1>13 DEF o

\* No error but that of a circle.
MayCircle(found) == found.fault \in {Fine, "GROUP_REFERENCE_CYCLE"}

\* What is gathered is all there is, or the circle.
LEMMA GatheredIs ==
  ASSUME NEW parts, IsList(parts), \A x \in ToSet(parts) : MayCircle(x)
  PROVE  Gathered(parts) = IF \A x \in ToSet(parts) : x.fault = Fine
                           THEN Found(UNION {x.hosts : x \in ToSet(parts)}) ELSE Reentered
  <1> DEFINE faults == [i \in DOMAIN parts |-> parts[i].fault]
             C == {Fine, "GROUP_REFERENCE_CYCLE"}
             all == UNION {parts[i].hosts : i \in DOMAIN parts}
  <1>1. Len(parts) \in Nat /\ DOMAIN parts = 1..Len(parts) /\ ToSet(parts) = {parts[i] : i \in 1..Len(parts)}
    BY ListDomain DEF ToSet
  <1>2. \A i \in 1..Len(parts) : parts[i].fault \in C
    BY <1>1 DEF MayCircle
  <1>3. faults = [i \in 1..Len(parts) |-> parts[i].fault]
    BY <1>1
  <1>4. all = UNION {x.hosts : x \in ToSet(parts)}
    BY <1>1
  <1>5. Gathered(parts) = IF FirstFault(faults) # Fine THEN Lost(FirstFault(faults)) ELSE Found(all)
    BY DEF Gathered
  <1> HIDE DEF faults, C, all
  <1>6. faults \in Seq(C) /\ Len(faults) = Len(parts)
    BY <1>1, <1>2, <1>3
  <1>7. /\ FirstFault(faults) = Fine <=> Clean(faults)
        /\ FirstFault(faults) \in ToSet(faults) \cup {Fine}
    BY <1>6, FirstFaultIsFault
  <1>8. Clean(faults) <=> \A x \in ToSet(parts) : x.fault = Fine
    BY <1>1, <1>3, <1>6 DEF Clean
  <1>9. ToSet(faults) \subseteq C
    <2>1. DOMAIN faults = 1..Len(faults) /\ \A i \in 1..Len(faults) : faults[i] \in C
      BY <1>6
    <2>2. QED
      BY <2>1 DEF ToSet
  <1>10. CASE Clean(faults)
    BY <1>4, <1>5, <1>7, <1>8, <1>10
  <1>11. CASE ~Clean(faults)
    <2>1. FirstFault(faults) # Fine /\ FirstFault(faults) \in C
      BY <1>7, <1>9, <1>11 DEF C
    <2>2. FirstFault(faults) = "GROUP_REFERENCE_CYCLE"
      BY <2>1 DEF C
    <2>3. QED
      BY <1>5, <1>8, <1>11, <2>1, <2>2 DEF Reentered
  <1>12. QED
    BY <1>10, <1>11

\* A group gives its own hosts and those of the groups in it, or a circle that
\* one of them has met.
LEMMA GroupGives ==
  ASSUME ProfileIsListed(prof), ProfileFault(prof, target) = Fine, IsList(SubProxies),
         NEW s \in ToSet(prof.groups), NEW below, \A h \in Contained[s.name] : MayCircle(below[h])
  PROVE  Gathered(Opened(s.name, below)) =
           IF \A h \in Contained[s.name] : below[h].fault = Fine
           THEN Found(OwnHosts(s) \cup UNION {below[h].hosts : h \in Contained[s.name]}) ELSE Reentered
  <1> DEFINE o == Opened(s.name, below)
             C == Contained[s.name]
             O == OwnHosts(s)
             all == UNION {x.hosts : x \in ToSet(o)}
  <1>1. /\ IsList(o)
        /\ \A x \in ToSet(o) : (\E h \in O : x = Found({h})) \/ (\E h \in C : x = below[h]) \/ x = Found({})
        /\ \A h \in O : Found({h}) \in ToSet(o)
        /\ \A h \in C : below[h] \in ToSet(o)
    BY OpenedHas
  <1>2. \A h \in C : MayCircle(below[h])
    OBVIOUS
  <1> HIDE DEF o, C, O
  <1>3. \A h : Found(h).hosts = h /\ Found(h).fault = Fine
    BY Answers
  <1>4. \A x \in ToSet(o) : MayCircle(x)
    <2>1. \A h : MayCircle(Found(h))
      BY <1>3 DEF MayCircle
    <2>2. QED
      BY <1>1, <1>2, <2>1
  <1>5. (\A x \in ToSet(o) : x.fault = Fine) <=> \A h \in C : below[h].fault = Fine
    <2>1. ASSUME \A x \in ToSet(o) : x.fault = Fine, NEW h \in C PROVE below[h].fault = Fine
      <3>1. below[h] \in ToSet(o)
        BY <1>1
      <3>2. QED
        BY <2>1, <3>1
    <2>2. ASSUME \A h \in C : below[h].fault = Fine, NEW x \in ToSet(o) PROVE x.fault = Fine
      <3>1. CASE \E h \in O : x = Found({h})
        BY <1>3, <3>1
      <3>2. CASE \E h \in C : x = below[h]
        BY <2>2, <3>2
      <3>3. CASE x = Found({})
        BY <1>3, <3>3
      <3>4. QED
        BY <1>1, <3>1, <3>2, <3>3
    <2>3. QED
      BY <2>1, <2>2
  <1>6. all = O \cup UNION {below[h].hosts : h \in C}
    <2>1. ASSUME NEW x \in ToSet(o), NEW y \in x.hosts PROVE y \in O \cup UNION {below[h].hosts : h \in C}
      <3>1. CASE \E h \in O : x = Found({h})
        <4>1. PICK h \in O : x = Found({h})
          BY <3>1
        <4>2. x.hosts = {h}
          BY <1>3, <4>1
        <4>3. QED
          BY <2>1, <4>2
      <3>2. CASE \E h \in C : x = below[h]
        BY <2>1, <3>2
      <3>3. CASE x = Found({})
        <4>1. x.hosts = {}
          BY <1>3, <3>3
        <4>2. QED
          BY <2>1, <4>1
      <3>4. QED
        BY <1>1, <3>1, <3>2, <3>3
    <2>2. ASSUME NEW h \in O PROVE h \in all
      <3>1. Found({h}) \in ToSet(o) /\ Found({h}).hosts = {h}
        BY <1>1, <1>3
      <3>2. QED
        BY <3>1
    <2>3. ASSUME NEW h \in C PROVE below[h].hosts \subseteq all
      <3>1. below[h] \in ToSet(o)
        BY <1>1
      <3>2. QED
        BY <3>1
    <2>4. QED
      BY <2>1, <2>2, <2>3
  <1>7. Gathered(o) = IF \A x \in ToSet(o) : x.fault = Fine THEN Found(all) ELSE Reentered
    BY <1>1, <1>4, GatheredIs
  <1> HIDE DEF all
  <1>8. QED
    BY <1>5, <1>6, <1>7 DEF o, C, O

\* What a chain reaches through a group, and whether it runs in a circle there.
ReachedBelow(g) == UNION {OwnHosts(s) : s \in {t \in ToSet(prof.groups) : t.name \in Below(g)}}
InCircle(g) == \E x \in Below(g) : OnCycle(x)
Gives(path, g) == IF Below(g) \cap path = {} /\ ~InCircle(g) THEN Found(ReachedBelow(g)) ELSE Reentered

\* One step of the expansion, when the groups in a group give what they should.
LEMMA ExpansionGrows ==
  ASSUME ProfileIsListed(prof), ProfileFault(prof, target) = Fine, IsList(SubProxies),
         NEW path \in SUBSET GroupNames(prof), NEW g \in GroupNames(prof) \ path,
         NEW below, \A h \in Contained[g] : below[h] = Gives(path \cup {g}, h)
  PROVE  Gathered(Opened(g, below)) = Gives(path, g)
  <1>1. PICK s \in ToSet(prof.groups) : s.name = g
    BY DEF GroupNames, ToSet
  <1> DEFINE C == Contained[g]
  <1>2. /\ C \subseteq GroupNames(prof)
        /\ Below(g) = {g} \cup UNION {Below(h) : h \in C}
    BY BelowIs
  <1>3. \A h \in C : below[h].fault = Fine <=> Below(h) \cap (path \cup {g}) = {} /\ ~InCircle(h)
    <2>1. Reentered.fault # Fine
      BY DEF Reentered, Lost, Fine
    <2>2. \A x : Found(x).fault = Fine
      BY Answers
    <2>3. QED
      BY <2>1, <2>2 DEF Gives
  <1>4. \A h \in C : MayCircle(below[h])
    <2>1. \A x : MayCircle(Found(x))
      BY Answers DEF MayCircle
    <2>2. MayCircle(Reentered)
      BY Answers DEF MayCircle, Reentered
    <2>3. QED
      BY <2>1, <2>2 DEF Gives
  <1>5. Gathered(Opened(g, below)) =
           IF \A h \in C : below[h].fault = Fine
           THEN Found(OwnHosts(s) \cup UNION {below[h].hosts : h \in C}) ELSE Reentered
    BY <1>1, <1>4, GroupGives
  <1>6. OnCycle(g) <=> \E h \in C : g \in Below(h)
    BY DEF OnCycle
  <1>7. InCircle(g) <=> OnCycle(g) \/ \E h \in C : InCircle(h)
    BY <1>2 DEF InCircle
  <1>8. (\A h \in C : below[h].fault = Fine) <=> Below(g) \cap path = {} /\ ~InCircle(g)
    <2>1. (\A h \in C : below[h].fault = Fine) <=>
             \A h \in C : Below(h) \cap path = {} /\ g \notin Below(h) /\ ~InCircle(h)
      BY <1>3
    <2>2. Below(g) \cap path = {} <=> \A h \in C : Below(h) \cap path = {}
      BY <1>2
    <2>3. QED
      BY <1>6, <1>7, <2>1, <2>2
  <1>9. ASSUME \A h \in C : below[h].fault = Fine
        PROVE  OwnHosts(s) \cup UNION {below[h].hosts : h \in C} = ReachedBelow(g)
    <2>1. \A h \in C : below[h].hosts = ReachedBelow(h)
      <3>1. \A x : Found(x).hosts = x
        BY Answers
      <3>2. QED
        BY <1>3, <1>9, <3>1 DEF Gives
    <2>2. \A t \in ToSet(prof.groups) : t.name = g => t = s
      <3>1. \A i, j \in DOMAIN prof.groups : prof.groups[i].name = prof.groups[j].name => i = j
        BY AcceptedGroups
      <3>2. QED
        BY <1>1, <3>1 DEF ToSet
    <2>3. ASSUME NEW x \in ReachedBelow(g) PROVE x \in OwnHosts(s) \cup UNION {below[h].hosts : h \in C}
      <3>1. PICK t \in ToSet(prof.groups) : t.name \in Below(g) /\ x \in OwnHosts(t)
        BY <2>3 DEF ReachedBelow
      <3>2. CASE t.name = g
        BY <2>2, <3>1, <3>2
      <3>3. CASE \E h \in C : t.name \in Below(h)
        <4>1. PICK h \in C : t.name \in Below(h)
          BY <3>3
        <4>2. x \in ReachedBelow(h)
          BY <3>1, <4>1 DEF ReachedBelow
        <4>3. QED
          BY <2>1, <4>2
      <3>4. QED
        BY <1>2, <3>1, <3>2, <3>3
    <2>4. ASSUME NEW x \in OwnHosts(s) PROVE x \in ReachedBelow(g)
      <3>1. s.name \in Below(g)
        BY <1>1, <1>2
      <3>2. QED
        BY <2>4, <3>1 DEF ReachedBelow
    <2>5. ASSUME NEW h \in C, NEW x \in ReachedBelow(h) PROVE x \in ReachedBelow(g)
      <3>1. PICK t \in ToSet(prof.groups) : t.name \in Below(h) /\ x \in OwnHosts(t)
        BY <2>5 DEF ReachedBelow
      <3>2. t.name \in Below(g)
        BY <1>2, <3>1
      <3>3. QED
        BY <3>1, <3>2 DEF ReachedBelow
    <2>6. QED
      BY <2>1, <2>3, <2>4, <2>5
  <1>10. QED
    BY <1>5, <1>8, <1>9 DEF Gives

\* So the expansion of a group is what is below it, or an error if it comes back
\* to a group that is open.
LEMMA ExpansionReaches ==
  ASSUME ProfileIsListed(prof), ProfileFault(prof, target) = Fine, IsList(SubProxies)
  PROVE  \A path \in SUBSET GroupNames(prof) : \A g \in GroupNames(prof) : Expansion[path][g] = Gives(path, g)
  <1> DEFINE G == GroupNames(prof)
             Q(path) == \A g \in G : Expansion[path][g] = Gives(path, g)
             P == {m \in Nat : \A path \in SUBSET G : Unopened(path) <= m => Q(path)}
  <1>0. IsList(prof.groups)
    BY DEF ProfileIsListed
  <1>1. \A g \in G : \A path \in SUBSET G : Expansion[path][g] = Body(Expansion, g, path)
    BY <1>0, ExpansionExists
  <1>2. \A path \in SUBSET G : Unopened(path) \in Nat /\ (Unopened(path) = 0 => path = G) /\ Unopened(path) <= Unopened({})
    BY <1>0, UnopenedShrinks
  <1>3. \A path \in SUBSET G : \A g \in G \ path :
          path \cup {g} \in SUBSET G /\ Unopened(path \cup {g}) = Unopened(path) - 1
    BY <1>0, UnopenedShrinks
  <1>4. ASSUME NEW path \in SUBSET G, NEW g \in path PROVE Expansion[path][g] = Gives(path, g)
    <2>1. g \in G
      OBVIOUS
    <2>2. Expansion[path][g] = Reentered
      BY <1>1, <2>1 DEF Body
    <2>3. g \in Below(g)
      BY <2>1, BelowIs
    <2>4. QED
      BY <2>2, <2>3 DEF Gives
  <1>5. ASSUME NEW path \in SUBSET G, NEW g \in G \ path, Q(path \cup {g}) PROVE Expansion[path][g] = Gives(path, g)
    <2>1. Expansion[path][g] = Gathered(Opened(g, Expansion[path \cup {g}]))
      BY <1>1 DEF Body
    <2> DEFINE below == Expansion[path \cup {g}]
    <2>2. \A h \in Contained[g] : below[h] = Gives(path \cup {g}, h)
      <3>1. Contained[g] \subseteq G
        BY BelowIs
      <3>2. QED
        BY <1>5, <3>1
    <2>2a. g \in GroupNames(prof) \ path /\ path \in SUBSET GroupNames(prof)
      OBVIOUS
    <2> HIDE DEF below, G
    <2>3. Gathered(Opened(g, below)) = Gives(path, g)
      BY <2>2, <2>2a, ExpansionGrows
    <2>4. QED
      BY <2>1, <2>3 DEF below
  <1>6. 0 \in P
    <2>1. ASSUME NEW path \in SUBSET G, Unopened(path) <= 0 PROVE Q(path)
      <3>1. path = G
        BY <1>2, <2>1
      <3>2. QED
        BY <1>4, <3>1
    <2>2. QED
      BY <2>1
  <1>7. ASSUME NEW m \in Nat, m \in P PROVE m + 1 \in P
    <2>1. ASSUME NEW path \in SUBSET G, Unopened(path) <= m + 1 PROVE Q(path)
      <3>1. ASSUME NEW g \in G PROVE Expansion[path][g] = Gives(path, g)
        <4>1. CASE g \in path
          BY <1>4, <4>1
        <4>2. CASE g \notin path
          <5>1. path \cup {g} \in SUBSET G /\ Unopened(path \cup {g}) <= m
            BY <1>2, <1>3, <2>1, <4>2
          <5> HIDE DEF Q
          <5>2. Q(path \cup {g})
            BY <1>7, <5>1
          <5>3. QED
            BY <1>5, <4>2, <5>2
        <4>3. QED
          BY <4>1, <4>2
      <3>2. QED
        BY <3>1
    <2> HIDE DEF Q
    <2>2. QED
      BY <2>1
  <1> HIDE DEF P, Q
  <1>8. Nat \subseteq P
    BY <1>6, <1>7, SetInduction
  <1>9. \A path \in SUBSET G : Q(path)
    <2> TAKE path \in SUBSET G
    <2>1. Unopened({}) \in P /\ Unopened(path) <= Unopened({})
      BY <1>2, <1>8
    <2>2. QED
      BY <2>1 DEF P
  <1>10. QED
    BY <1>9 DEF Q

\* While the chains run, the proxies are those of the subscriptions.
LEMMA OnlySubsYet ==
  ASSUME NodesInv, stage = "chain"
  PROVE  IsList(SubProxies) /\ ToSet(proxies) = ToSet(SubProxies)
  <1>1. stage \in NodesNamed
    BY DEF NodesNamed
  <1>2. IsList(SubProxies) /\ ToSet(SubProxies) = {p \in ToSet(proxies) : p.via = NoProxy}
    BY <1>1, SubsAreNodes
  <1>3. ASSUME NEW p \in ToSet(proxies) PROVE p.via = NoProxy
    <2>1. Len(proxies) = Len(nodes) /\ DOMAIN proxies = 1..Len(proxies) /\ Len(nodes) \in Nat
      BY ListDomain DEF NodesInv
    <2>2. PICK j \in DOMAIN proxies : p = proxies[j]
      BY DEF ToSet
    <2>3. j <= Len(nodes)
      BY <2>1
    <2>4. QED
      BY <2>2, <2>3 DEF NodesInv
  <1>4. QED
    BY <1>2, <1>3

\* A chain gives what it reaches, or the error of a circle.
LEMMA ChosenReaches ==
  ASSUME ProfileIsListed(prof), ProfileFault(prof, target) = Fine, NodesInv, stage = "chain", NEW i \in DOMAIN prof.chains
  PROVE  Chosen(prof.chains[i]) = IF Circular(prof.chains[i]) THEN Reentered ELSE Found(Reached(prof.chains[i]))
  <1> DEFINE c == prof.chains[i]
  <1>1. IsList(SubProxies) /\ ToSet(proxies) = ToSet(SubProxies)
    BY OnlySubsYet
  <1>2. /\ c.proxy \in CustomNames(prof) /\ c.type \in {"all", "regex", "group"}
        /\ c.type = "group" => c.group \in GroupNames(prof)
    BY AcceptedChains
  <1> HIDE DEF c
  <1>3. CASE c.type = "all"
    <2>1. Chosen(c) = Found({p.id.host : p \in ToSet(proxies)})
      BY <1>2, <1>3 DEF Chosen
    <2>2. Reached(c) = {p.id.host : p \in ToSet(SubProxies)}
      BY <1>3 DEF Reached
    <2>3. ~Circular(c)
      BY <1>3 DEF Circular
    <2>4. QED
      BY <1>1, <2>1, <2>2, <2>3 DEF c
  <1>4. CASE c.type = "regex"
    <2>1. Chosen(c) = Found({p.id.host : p \in {q \in ToSet(proxies) : Matches(c.regex, q.name)}})
      BY <1>2, <1>4 DEF Chosen
    <2>2. Reached(c) = {p.id.host : p \in {q \in ToSet(SubProxies) : Matches(c.regex, q.name)}}
      BY <1>4 DEF Reached
    <2>3. ~Circular(c)
      BY <1>4 DEF Circular
    <2>4. QED
      BY <1>1, <2>1, <2>2, <2>3 DEF c
  <1>5. CASE c.type = "group"
    <2>1. Chosen(c) = Expansion[{}][c.group]
      BY <1>2, <1>5 DEF Chosen
    <2>2. Expansion[{}][c.group] = Gives({}, c.group)
      BY <1>1, <1>2, <1>5, ExpansionReaches
    <2>3. Reached(c) = ReachedBelow(c.group)
      BY <1>5 DEF Reached, ReachedBelow
    <2>4. Circular(c) <=> InCircle(c.group)
      BY <1>5 DEF Circular, InCircle
    <2>5. Gives({}, c.group) = IF InCircle(c.group) THEN Reentered ELSE Found(ReachedBelow(c.group))
      BY DEF Gives
    <2>6. QED
      BY <2>1, <2>2, <2>3, <2>4, <2>5 DEF c
  <1>6. QED
    BY <1>2, <1>3, <1>4, <1>5

\* What is a circle depends on the profile only.
LEMMA CircularFrame ==
  ASSUME UNCHANGED prof
  PROVE  (\A g : Below(g)' = Below(g)) /\ (\A c : Circular(c)' = Circular(c))
  <1>1. Contained' = Contained
    BY DEF Contained, Contains1
  <1>2. \A S : Closed(S)' = Closed(S)
    BY <1>1 DEF Closed
  <1>3. \A g : Below(g)' = Below(g)
    BY <1>2 DEF Below
  <1>4. \A g : OnCycle(g)' = OnCycle(g)
    BY <1>1, <1>3 DEF OnCycle
  <1>5. QED
    BY <1>3, <1>4 DEF Circular

\* What chains reach depends on the profile and the nodes only.
LEMMA ReachedFrame ==
  ASSUME UNCHANGED prof, SubProxies' = SubProxies
  PROVE  \A c : Reached(c)' = Reached(c)
  <1>1. \A g : Below(g)' = Below(g)
    BY CircularFrame
  <1>2. \A s : OwnHosts(s)' = OwnHosts(s)
    BY DEF OwnHosts
  <1>3. QED
    BY <1>1, <1>2 DEF Reached

\* Only a chain gives the error of a circle.
LEMMA OthersMeetNoCircle ==
  ASSUME InputInv, [Next]_vars, ~SelectChain
  PROVE  fault' = fault \/ fault' # "GROUP_REFERENCE_CYCLE"
  <1> DEFINE E == "GROUP_REFERENCE_CYCLE"
  <1>1. CASE ParseProfile
    <2>1. fault' = ProfileFault(prof, target)
      BY <1>1 DEF ParseProfile, Pass
    <2>2. ProfileFault(prof, target) \in Codes
      BY InputsAreListed, ProfileIsChecked DEF Listed
    <2>3. E \notin Codes
      BY DEF Codes
    <2>4. QED
      BY <2>1, <2>2, <2>3
  <1>2. CASE CheckNames
    <2>1. fault' \in {Fine, "PROFILE_VALIDATE_ERROR", "SUB_PARSE_ERROR", "CUSTOM_PROXY_VALIDATE_ERROR",
                      "GROUP_UNSUPPORTED_TYPE"}
      BY <1>2 DEF CheckNames, Pass
    <2>2. QED
      BY <2>1 DEF Fine
  <1>3. CASE ClaimNames
    <2>1. fault' \in {Fine, "PROFILE_VALIDATE_ERROR"}
      BY <1>3 DEF ClaimNames, Pass
    <2>2. QED
      BY <2>1 DEF Fine
  <1>4. CASE CompileGroups
    <2>1. fault' \in {Fine, "GROUP_PARSE_ERROR"}
      BY <1>4 DEF CompileGroups, Pass
    <2>2. QED
      BY <2>1 DEF Fine
  <1>5. CASE CompileRules
    <2> DEFINE cs == << IF \E r \in ToSet(prof.rulesets) : ~KnownAction(r) THEN "REFERENCE_NOT_FOUND" ELSE Fine,
                        IF ~OneFinalMatch THEN "RULE_PARSE_ERROR" ELSE Fine,
                        IF \E r \in ToSet(InlineRules(prof)) : ~KnownAction(r) THEN "REFERENCE_NOT_FOUND" ELSE Fine >>
               S == {"REFERENCE_NOT_FOUND", "RULE_PARSE_ERROR", Fine}
    <2>1. cs \in Seq(S)
      OBVIOUS
    <2>2. ToSet(cs) \subseteq S
      BY <2>1 DEF ToSet
    <2>3. fault' = FirstFault(cs)
      BY <1>5 DEF CompileRules, Pass
    <2> HIDE DEF cs
    <2>4. fault' \in S
      BY <2>1, <2>2, <2>3, FirstFaultIsFault
    <2>5. QED
      BY <2>4 DEF Fine
  <1>6. CASE Dedup \/ NameNode \/ Derive \/ Finished \/ UNCHANGED vars
    BY <1>6 DEF Dedup, NameNode, Derive, Finished, vars
  <1>7. QED
    BY <1>1, <1>2, <1>3, <1>4, <1>5, <1>6 DEF Next

\* A chain adds what it reaches, or ends the compilation.
LEMMA ChainReaches ==
  ASSUME InputInv, NodesInv, SelectedInv, ReachInv, SelectChain
  PROVE  ReachInv'
  <1> DEFINE c == prof.chains[k]
             found == Chosen(c)
             code == IF found.fault = Fine /\ found.hosts = {} THEN "CHAIN_SELECTOR_EMPTY" ELSE found.fault
  <1>1. /\ stage = "chain" /\ k <= Len(prof.chains) /\ UNCHANGED <<subs, prof, target, nodes, proxies>> /\ k' = k + 1
        /\ Pass(code, "chain")
        /\ selected' = IF code = Fine THEN Selecting(c.proxy, found.hosts) ELSE selected
    BY DEF SelectChain, input
  <1>2. ProfileIsListed(prof) /\ ProfileFault(prof, target) = Fine
    BY <1>1, InputsAreListed DEF InputInv, Compiling, Listed
  <1>3. /\ k \in 1..(Len(prof.chains) + 1)
        /\ \A name \in CustomNames(prof) : selected[name] = ReachedSoFar(name)
        /\ \A j \in 1..(k-1) : ~Circular(prof.chains[j])
    BY <1>1 DEF ReachInv, NodesNamed
  <1>4. k \in DOMAIN prof.chains /\ k \in Nat /\ Len(prof.chains) \in Nat
    <2>1. DOMAIN prof.chains = 1..Len(prof.chains) /\ Len(prof.chains) \in Nat
      BY <1>2, ListDomain DEF ProfileIsListed
    <2>2. QED
      BY <1>1, <1>3, <2>1
  <1>5. found = IF Circular(c) THEN Reentered ELSE Found(Reached(c))
    BY <1>1, <1>2, <1>4, ChosenReaches
  <1>6. c \in ToSet(prof.chains)
    BY <1>4 DEF ToSet
  <1>7. SubProxies' = SubProxies
    BY <1>1 DEF SubProxies
  <1>8. (\A x : Circular(x)' = Circular(x)) /\ (\A x : Reached(x)' = Reached(x))
    BY <1>1, <1>7, CircularFrame, ReachedFrame
  <1>9. fault' = code /\ stage' = IF code = Fine THEN "chain" ELSE "failed"
    BY <1>1 DEF Pass
  <1>10. CASE Circular(c)
    <2>1. code = "GROUP_REFERENCE_CYCLE" /\ code # Fine
      <3>1. found.fault = "GROUP_REFERENCE_CYCLE"
        BY <1>5, <1>10 DEF Reentered, Lost
      <3>2. QED
        BY <3>1 DEF Fine
    <2>2. SomeCircular'
      BY <1>1, <1>6, <1>8, <1>10 DEF SomeCircular
    <2>3. stage' = "failed"
      BY <1>9, <2>1
    <2>4. QED
      BY <2>2, <2>3 DEF ReachInv, NodesNamed
  <1>11. CASE ~Circular(c)
    <2>1. found.fault = Fine /\ found.hosts = Reached(c)
      BY <1>5, <1>11, Answers
    <2>2. CASE found.hosts = {}
      <3>1. code = "CHAIN_SELECTOR_EMPTY" /\ code # Fine
        BY <2>1, <2>2 DEF Fine
      <3>2. stage' = "failed" /\ fault' # "GROUP_REFERENCE_CYCLE"
        BY <1>9, <3>1
      <3>3. QED
        BY <3>2 DEF ReachInv, NodesNamed
    <2>3. CASE found.hosts # {}
      <3>1. code = Fine
        BY <2>1, <2>3
      <3>2. stage' = "chain" /\ fault' = Fine /\ selected' = Selecting(c.proxy, Reached(c))
        BY <1>1, <1>9, <2>1, <3>1
      <3> HIDE DEF code, found
      <3>3. DOMAIN selected = CustomNames(prof)
        BY <1>1 DEF SelectedInv, NodesNamed
      <3>4. \A name \in CustomNames(prof) :
              selected'[name] = IF name = c.proxy THEN selected[name] \cup Reached(c) ELSE selected[name]
        <4>1. selected' = [selected EXCEPT ![c.proxy] = selected[c.proxy] \cup Reached(c)]
          BY <3>2 DEF Selecting
        <4>2. QED
          BY <3>3, <4>1
      <3>5. ASSUME NEW name \in CustomNames(prof) PROVE selected'[name] = ReachedSoFar(name)'
        <4> DEFINE before == {i \in 1..(k-1) : prof.chains[i].proxy = name}
                   now == {i \in 1..k : prof.chains[i].proxy = name}
        <4>1. now = IF name = c.proxy THEN before \cup {k} ELSE before
          BY <1>4
        <4>2. ReachedSoFar(name) = UNION {Reached(prof.chains[j]) : j \in before}
          BY DEF ReachedSoFar
        <4>3. ReachedSoFar(name)' = UNION {Reached(prof.chains[j]) : j \in now}
          <5>1. k' - 1 = k
            BY <1>1, <1>4
          <5>2. ReachedSoFar(name)' = UNION {Reached(prof.chains[j])' : j \in now}
            BY <1>1, <5>1 DEF ReachedSoFar
          <5>3. \A j : Reached(prof.chains[j])' = Reached(prof.chains[j])
            BY <1>1, <1>8
          <5> HIDE DEF now
          <5>4. QED
            BY <5>2, <5>3
        <4>4. selected[name] = ReachedSoFar(name)
          BY <1>3
        <4> DEFINE R(j) == Reached(prof.chains[j])
                   B == UNION {R(j) : j \in before}
                   N == UNION {R(j) : j \in now}
        <4>5. selected[name] = B /\ ReachedSoFar(name)' = N /\ R(k) = Reached(c)
          BY <4>2, <4>3, <4>4
        <4> HIDE DEF before, now, c, R
        <4>6. N = IF name = c.proxy THEN B \cup R(k) ELSE B
          BY <4>1
        <4> HIDE DEF B, N
        <4>7. QED
          BY <3>4, <4>5, <4>6
      <3>6. \A j \in 1..(k'-1) : ~Circular(prof.chains[j])'
        <4>1. \A j \in 1..k : ~Circular(prof.chains[j])
          BY <1>3, <1>4, <1>11
        <4>2. \A j : Circular(prof.chains[j])' = Circular(prof.chains[j])
          BY <1>1, <1>8
        <4>3. k' - 1 = k
          BY <1>1, <1>4
        <4>4. QED
          BY <4>1, <4>2, <4>3
      <3>7. k' \in 1..(Len(prof.chains) + 1)
        BY <1>1, <1>4
      <3>8. fault' # "GROUP_REFERENCE_CYCLE"
        BY <3>2 DEF Fine
      <3>9. QED
        BY <1>1, <3>2, <3>5, <3>6, <3>7, <3>8 DEF ReachInv, NodesNamed
    <2>4. QED
      BY <2>2, <2>3
  <1>12. QED
    BY <1>10, <1>11

\* Every step leaves the selections what the chains so far reach.
LEMMA ReachStep ==
  ASSUME CompilerInv, ReachInv, [Next]_vars
  PROVE  ReachInv'
  <1>1. InputInv /\ NodesInv /\ SelectedInv
    BY DEF CompilerInv, ResultInv
  <1>2. UNCHANGED <<subs, prof, target>>
    BY <1>1, Steps
  <1>3. ASSUME NEW from, NEW to, UNCHANGED <<k, selected>>, ~SelectChain, from = stage, to = stage',
               to \in {"parse", "dedup", "name"} => from \in {"parse", "dedup", "name"},
               to \in NodesNamed => from \in NodesNamed,
               to \in {"derive", "rules", "done"} => from \in {"derive", "rules", "done"}
        PROVE  ReachInv'
    <2>1. \A c : Circular(c)' = Circular(c)
      BY <1>2, CircularFrame
    <2>2. (fault = "GROUP_REFERENCE_CYCLE" => SomeCircular)'
      <3>1. SomeCircular' <=> SomeCircular
        BY <1>2, <2>1 DEF SomeCircular
      <3>2. fault' = fault \/ fault' # "GROUP_REFERENCE_CYCLE"
        BY <1>1, <1>3, OthersMeetNoCircle
      <3>3. QED
        BY <3>1, <3>2 DEF ReachInv
    <2>3. CASE stage' \notin NodesNamed
      BY <1>2, <1>3, <2>2, <2>3 DEF ReachInv, NodesNamed
    <2>4. CASE stage' \in NodesNamed
      <3>1. stage \in NodesNamed
        BY <1>3, <2>4
      <3>2. SubProxies' = SubProxies
        BY <1>1, <3>1, SubsStay
      <3>3. \A c : Reached(c)' = Reached(c)
        BY <1>2, <3>2, ReachedFrame
      <3>4. \A name : ReachedSoFar(name)' = ReachedSoFar(name)
        BY <1>2, <1>3, <3>3 DEF ReachedSoFar
      <3>5. (\A name \in CustomNames(prof) : selected[name] = ReachedSoFar(name))'
        BY <1>2, <1>3, <3>1, <3>4 DEF ReachInv
      <3>6. (\A j \in 1..(k-1) : ~Circular(prof.chains[j]))'
        <4>1. \A j \in 1..(k-1) : ~Circular(prof.chains[j])
          BY <3>1 DEF ReachInv
        <4>2. \A j : Circular(prof.chains[j])' = Circular(prof.chains[j])
          BY <1>2, <2>1
        <4>3. QED
          BY <1>3, <4>1, <4>2
      <3>7. QED
        BY <1>2, <1>3, <2>2, <2>4, <3>1, <3>5, <3>6 DEF ReachInv, NodesNamed
    <2>5. QED
      BY <2>3, <2>4
  <1>4. CASE SelectChain
    BY <1>1, <1>4, ChainReaches DEF CompilerInv
  <1>5. CASE CheckNames
    <2>1. stage = "name" /\ stage' \in {"chain", "failed"} /\ k' = k /\ selected' = [c \in CustomNames(prof) |-> {}]
      BY <1>5, PassStages DEF CheckNames
    <2>2. k' = 1
      BY <2>1 DEF ReachInv
    <2>3. (\A name \in CustomNames(prof) : selected[name] = ReachedSoFar(name))'
      <3>1. ASSUME NEW name \in CustomNames(prof) PROVE selected'[name] = ReachedSoFar(name)'
        <4>1. 1..(k'-1) = {}
          BY <2>2
        <4>2. ReachedSoFar(name)' = {}
          BY <4>1 DEF ReachedSoFar
        <4>3. QED
          BY <2>1, <4>2
      <3>2. QED
        BY <1>2, <3>1
    <2>4. (fault = "GROUP_REFERENCE_CYCLE" => SomeCircular)'
      <3>1. fault' = fault \/ fault' # "GROUP_REFERENCE_CYCLE"
        <4>1. ~SelectChain
          BY <2>1 DEF SelectChain
        <4>2. QED
          BY <1>1, <4>1, OthersMeetNoCircle
      <3>2. fault # "GROUP_REFERENCE_CYCLE"
        BY <2>1 DEF CompilerInv, TypeOK, Fine
      <3>3. QED
        BY <3>1, <3>2
    <2>5. k' \in 1..(Len(prof.chains) + 1) /\ 1..(k'-1) = {}
      <3>1. Len(prof.chains) \in Nat
        BY <1>1, InputsAreListed, ListDomain DEF Listed, ProfileIsListed
      <3>2. QED
        BY <2>2, <3>1
    <2>6. QED
      BY <1>2, <2>1, <2>3, <2>4, <2>5 DEF ReachInv
  <1>6. CASE ClaimNames
    <2>1. /\ stage = "chain" /\ stage' \in {"derive", "failed"} /\ UNCHANGED <<k, selected, proxies>>
          /\ (ChainsRun => k > Len(prof.chains))
      BY <1>6, PassStages DEF ClaimNames
    <2>3. ProfileIsListed(prof) /\ ProfileFault(prof, target) = Fine
      BY <1>1, <2>1, InputsAreListed DEF InputInv, Compiling, Listed
    <2>4. Len(prof.chains) \in Nat /\ DOMAIN prof.chains = 1..Len(prof.chains)
      BY <2>3, ListDomain DEF ProfileIsListed
    <2>5. k \in 1..(Len(prof.chains) + 1)
      BY <2>1 DEF ReachInv, NodesNamed
    <2>2. ~SelectChain
      BY <2>1, <2>4, <2>5 DEF SelectChain
    <2>6. k = Len(prof.chains) + 1
      <3>1. CASE ChainsRun
        BY <2>1, <2>4, <2>5, <3>1
      <3>2. CASE ~ChainsRun
        <4>1. CASE prof.chains = <<>>
          BY <2>4, <2>5, <4>1
        <4>2. CASE prof.customs = <<>>
          <5>1. CustomNames(prof) = {}
            BY <4>2 DEF CustomNames
          <5>2. DOMAIN prof.chains = {}
            BY <2>3, <5>1, AcceptedChains
          <5>3. Len(prof.chains) = 0
            <6>1. Len(prof.chains) \in Nat /\ 1..Len(prof.chains) = {}
              BY <2>4, <5>2
            <6>2. 1 \notin 1..Len(prof.chains)
              BY <6>1
            <6>3. QED
              BY <6>1, <6>2
          <5>4. QED
            BY <2>5, <5>3
        <4>3. QED
          BY <3>2, <4>1, <4>2 DEF ChainsRun
      <3>3. QED
        BY <3>1, <3>2
    <2>7. CASE stage' = "failed"
      BY <1>3, <2>1, <2>2, <2>7 DEF NodesNamed
    <2>8. CASE stage' = "derive"
      <3>1. SubProxies' = SubProxies
        BY <2>1 DEF SubProxies
      <3>2. \A c : Reached(c)' = Reached(c) /\ Circular(c)' = Circular(c)
        BY <1>2, <3>1, ReachedFrame, CircularFrame
      <3>3. \A name : ReachedSoFar(name)' = ReachedSoFar(name)
        BY <1>2, <2>1, <3>2 DEF ReachedSoFar
      <3>4. (\A name \in CustomNames(prof) : selected[name] = ReachedSoFar(name))'
        BY <1>2, <2>1, <3>3 DEF ReachInv, NodesNamed
      <3>5. (\A j \in 1..(k-1) : ~Circular(prof.chains[j]))'
        <4>1. \A j \in 1..(k-1) : ~Circular(prof.chains[j])
          BY <2>1 DEF ReachInv, NodesNamed
        <4>2. \A j : Circular(prof.chains[j])' = Circular(prof.chains[j])
          BY <1>2, <3>2
        <4>3. QED
          BY <2>1, <4>1, <4>2
      <3>6. fault' # "GROUP_REFERENCE_CYCLE"
        <4>1. fault' = fault \/ fault' # "GROUP_REFERENCE_CYCLE"
          BY <1>1, <2>2, OthersMeetNoCircle
        <4>2. fault # "GROUP_REFERENCE_CYCLE"
          BY <2>1 DEF CompilerInv, TypeOK, Fine
        <4>3. QED
          BY <4>1, <4>2
      <3>7. QED
        BY <1>2, <2>1, <2>5, <2>6, <2>8, <3>4, <3>5, <3>6 DEF ReachInv
    <2>9. QED
      BY <2>1, <2>7, <2>8
  <1>7. CASE ParseProfile
    <2>1. stage = "parse" /\ stage' \in {"dedup", "failed"} /\ UNCHANGED <<k, selected>>
      BY <1>7, PassStages DEF ParseProfile
    <2>2. QED
      BY <1>3, <2>1 DEF NodesNamed, SelectChain
  <1>8. CASE Dedup \/ NameNode \/ Derive
    <2>1. /\ UNCHANGED <<k, selected>>
          /\ \/ stage = "dedup" /\ stage' = "name"
             \/ stage = "name" /\ stage' = "name"
             \/ stage = "derive" /\ stage' = "derive"
      BY <1>8 DEF Dedup, NameNode, Derive
    <2>2. QED
      BY <1>3, <2>1 DEF NodesNamed, SelectChain
  <1>9. CASE CompileGroups \/ CompileRules
    <2>1. stage \in {"derive", "rules"} /\ stage' \in {"rules", "done", "failed"} /\ UNCHANGED <<k, selected>>
      BY <1>9 DEF CompileGroups, CompileRules, Pass
    <2>2. QED
      BY <1>3, <2>1 DEF NodesNamed, SelectChain
  <1>10. CASE ~SelectChain /\ (Finished \/ UNCHANGED vars)
    <2>1. UNCHANGED <<k, selected, stage>>
      BY <1>10 DEF Finished, vars
    <2>2. QED
      BY <1>3, <1>10, <2>1
  <1>11. QED
    BY <1>4, <1>5, <1>6, <1>7, <1>8, <1>9, <1>10 DEF Next

\* What a result has derived is what its chains reach.
LEMMA DoneReaches ==
  ASSUME CompilerInv, ReachInv, NodesAreKept, stage = "done"
  PROVE  DerivedAreReached
  <1> DEFINE derived == {i \in DOMAIN proxies : proxies[i].via # NoProxy}
             wanted == UNION {{DerivedID(c.proxy, SubID(h)) : h \in Reached(c)} : c \in ToSet(prof.chains)}
             m == Len(nodes)
             Q == 1..Len(Pairs)
  <1>1. InputInv /\ NodesInv /\ SelectedInv /\ DerivedInv /\ stage \in NodesNamed
    BY DEF CompilerInv, ResultInv, NodesNamed
  <1>2. ProfileIsListed(prof) /\ ProfileFault(prof, target) = Fine
    BY <1>1, InputsAreListed DEF InputInv, Compiling, Listed
  <1>3. IsList(prof.customs) /\ NamedApart(prof.customs) /\ DOMAIN prof.customs = 1..Len(prof.customs)
        /\ Len(prof.customs) \in Nat /\ DOMAIN prof.chains = 1..Len(prof.chains)
    BY <1>2, AcceptedCustoms, ListDomain DEF ProfileIsListed, NamedApart
  <1>4. /\ IsList(SubProxies) /\ KnownApart(SubProxies) /\ m \in Nat
        /\ DOMAIN nodes = 1..m /\ DOMAIN SubProxies = 1..m /\ Len(SubProxies) = m
        /\ \A i \in 1..m : SubProxies[i].id = SubID(nodes[i].host)
        /\ \A p \in ToSet(SubProxies) : p.id = SubID(p.id.host) /\ p.id # NoProxy
    BY <1>1, SubsAreNodes
  <1>5. /\ Len(Pairs) \in Nat
        /\ \A q \in Q :
              /\ \E c \in ToSet(ActiveCustoms) : Pairs[q].custom = c.name
              /\ Pairs[q].sub \in ToSet(SubProxies)
              /\ Pairs[q].sub.id.host \in selected[Pairs[q].custom]
        /\ \A c \in ToSet(ActiveCustoms) : \A p \in ToSet(SubProxies) :
              p.id.host \in selected[c.name] => \E q \in Q : Pairs[q].custom = c.name /\ Pairs[q].sub = p
        /\ PairsInOrder
    BY <1>3, <1>4, PairFacts
  <1>6. DOMAIN proxies = 1..Len(proxies) /\ Len(proxies) = m + Len(Pairs)
    <2>1. DOMAIN proxies = 1..Len(proxies)
      BY <1>1, PairsAreCounted
    <2>2. QED
      BY <1>1, <2>1 DEF DerivedInv
  <1>7. \A i \in 1..m : proxies[i].via = NoProxy
    <2> TAKE i \in 1..m
    <2>1. i \in DOMAIN proxies /\ i <= Len(nodes)
      BY <1>4, <1>5, <1>6
    <2>2. QED
      BY <1>1, <2>1 DEF NodesInv
  <1>8. \A h : SubID(h).host = h
    BY DEF SubID
  <1>9. \A c, v : DerivedID(c, v).custom = c /\ DerivedID(c, v).host = v.host
    BY DEF DerivedID
  <1>10. ASSUME NEW q \in Q
         PROVE  /\ m + q \in derived
                /\ proxies[m + q].id = DerivedID(Pairs[q].custom, Pairs[q].sub.id) /\ proxies[m + q].via = Pairs[q].sub.id
    <2>1. m + q \in DOMAIN proxies /\ m + q > m /\ (m + q) - m = q
      BY <1>4, <1>5, <1>6
    <2>2. proxies[m + q].id = DerivedID(Pairs[q].custom, Pairs[q].sub.id) /\ proxies[m + q].via = Pairs[q].sub.id
      BY <1>1, <2>1 DEF DerivedInv
    <2>3. Pairs[q].sub.id # NoProxy
      BY <1>4, <1>5
    <2>4. QED
      BY <2>1, <2>2, <2>3
  <1>11. ASSUME NEW i \in derived PROVE i - m \in Q /\ i = m + (i - m) /\ i \in Nat
    <2>1. i \in 1..(m + Len(Pairs)) /\ i \notin 1..m
      BY <1>6, <1>7
    <2> HIDE DEF derived, m
    <2>2. QED
      BY <1>4, <1>5, <2>1
  <1>12. /\ k = Len(prof.chains) + 1 /\ k - 1 = Len(prof.chains)
         /\ \A name \in CustomNames(prof) : selected[name] = ReachedSoFar(name)
         /\ \A j \in 1..(k-1) : ~Circular(prof.chains[j])
    <2>1. Len(prof.chains) \in Nat
      BY <1>2, ListDomain DEF ProfileIsListed
    <2>2. QED
      BY <1>1, <2>1 DEF ReachInv
  <1> HIDE DEF m, Q, derived, wanted
  <1>13. \A x \in ToSet(prof.customs) : x.name \in CustomNames(prof)
    BY DEF ToSet, CustomNames
  <1>14. ToSet(ActiveCustoms) = {c \in ToSet(prof.customs) : selected[c.name] # {}}
    BY <1>3, ActiveFacts
  <1>15. ASSUME NEW q \in Q PROVE DerivedID(Pairs[q].custom, Pairs[q].sub.id) \in wanted
    <2> DEFINE name == Pairs[q].custom  h == Pairs[q].sub.id.host
    <2>1. name \in CustomNames(prof) /\ h \in selected[name] /\ Pairs[q].sub.id = SubID(h)
      BY <1>4, <1>5, <1>13, <1>14
    <2>2. PICK j \in 1..(k-1) : prof.chains[j].proxy = name /\ h \in Reached(prof.chains[j])
      BY <1>12, <2>1 DEF ReachedSoFar
    <2>3. prof.chains[j] \in ToSet(prof.chains)
      BY <1>3, <1>12 DEF ToSet
    <2> HIDE DEF name, h
    <2>4. DerivedID(name, SubID(h)) \in wanted
      BY <2>2, <2>3 DEF wanted
    <2>5. QED
      BY <2>1, <2>4 DEF name
  <1>16. ASSUME NEW c \in ToSet(prof.chains), NEW h \in Reached(c)
         PROVE  \E q \in Q : Pairs[q].custom = c.proxy /\ Pairs[q].sub.id = SubID(h)
    <2>1. PICK j \in 1..(k-1) : c = prof.chains[j]
      BY <1>3, <1>12 DEF ToSet
    <2>2. c.proxy \in CustomNames(prof)
      BY <1>2, <1>3, <1>12, <2>1, AcceptedChains
    <2>3. h \in selected[c.proxy]
      BY <1>12, <2>1, <2>2 DEF ReachedSoFar
    <2>4. PICK x \in ToSet(prof.customs) : x.name = c.proxy
      BY <2>2 DEF CustomNames, ToSet
    <2>5. x \in ToSet(ActiveCustoms)
      BY <1>14, <2>3, <2>4
    <2>6. h \in HostsOf(nodes)
      BY <1>1, <2>2, <2>3 DEF SelectedInv
    <2>7. PICK i \in 1..m : nodes[i].host = h
      BY <1>4, <2>6 DEF HostsOf
    <2>8. SubProxies[i] \in ToSet(SubProxies) /\ SubProxies[i].id = SubID(h) /\ SubProxies[i].id.host = h
      BY <1>4, <1>8, <2>7 DEF ToSet
    <2>9. QED
      BY <1>5, <2>3, <2>4, <2>5, <2>8
  <1>17. {proxies[i].id : i \in derived} = wanted
    <2>1. ASSUME NEW i \in derived PROVE proxies[i].id \in wanted
      <3>1. PICK q \in Q : i = m + q
        BY <1>11
      <3>2. QED
        BY <1>10, <1>15, <3>1
    <2>2. ASSUME NEW id \in wanted PROVE \E i \in derived : proxies[i].id = id
      <3>1. PICK c \in ToSet(prof.chains) : \E h \in Reached(c) : id = DerivedID(c.proxy, SubID(h))
        BY <2>2 DEF wanted
      <3>2. PICK h \in Reached(c) : id = DerivedID(c.proxy, SubID(h))
        BY <3>1
      <3>3. PICK q \in Q : Pairs[q].custom = c.proxy /\ Pairs[q].sub.id = SubID(h)
        BY <1>16
      <3>4. m + q \in derived /\ proxies[m + q].id = DerivedID(Pairs[q].custom, Pairs[q].sub.id)
        BY <1>10
      <3>5. QED
        BY <3>2, <3>3, <3>4
    <2>3. QED
      BY <2>1, <2>2
  <1>18. ASSUME NEW i \in derived, NEW j \in derived, i < j PROVE Before(proxies[i].id, proxies[j].id)
    <2>1. PICK q \in Q : i = m + q
      BY <1>11
    <2>2. PICK l \in Q : j = m + l
      BY <1>11
    <2>3. q < l
      BY <1>4, <1>5, <1>18, <2>1, <2>2 DEF Q
    <2>4. PICK x, y \in 1..Len(prof.customs) :
            /\ prof.customs[x].name = Pairs[q].custom /\ prof.customs[y].name = Pairs[l].custom
            /\ x < y \/ (x = y /\ \E a, b \in 1..Len(SubProxies) :
                                    a < b /\ SubProxies[a] = Pairs[q].sub /\ SubProxies[b] = Pairs[l].sub)
      BY <1>5, <2>3 DEF PairsInOrder, Q
    <2>5. \A z \in 1..Len(prof.customs) : CustomAt(prof.customs[z].name) = z
      <3> TAKE z \in 1..Len(prof.customs)
      <3>1. \A w \in DOMAIN prof.customs : prof.customs[w].name = prof.customs[z].name <=> w = z
        BY <1>3 DEF NamedApart
      <3>2. QED
        BY <1>3, <3>1 DEF CustomAt
    <2>6. /\ proxies[i].id.custom = Pairs[q].custom /\ proxies[i].id.host = Pairs[q].sub.id.host
          /\ proxies[j].id.custom = Pairs[l].custom /\ proxies[j].id.host = Pairs[l].sub.id.host
      BY <1>9, <1>10, <2>1, <2>2
    <2>7. CASE x < y
      <3>1. CustomAt(Pairs[q].custom) = x /\ CustomAt(Pairs[l].custom) = y
        BY <2>4, <2>5
      <3>2. QED
        BY <2>6, <2>7, <3>1 DEF Before
    <2>8. CASE ~(x < y)
      <3>1. PICK a, b \in 1..Len(SubProxies) : a < b /\ SubProxies[a] = Pairs[q].sub /\ SubProxies[b] = Pairs[l].sub
        BY <2>4, <2>8
      <3>2. Position(SubProxies[a].id.host) < Position(SubProxies[b].id.host)
        BY <1>4, <3>1 DEF NodesAreKept, InOrderOfSubs
      <3>3. Pairs[q].custom = Pairs[l].custom
        BY <2>4, <2>8
      <3>4. QED
        BY <2>6, <3>1, <3>2, <3>3 DEF Before
    <2>9. QED
      BY <2>7, <2>8
  <1>19. ASSUME NEW i \in derived PROVE proxies[i].via = SubID(proxies[i].id.host)
    <2>1. PICK q \in Q : i = m + q
      BY <1>11
    <2>2. proxies[i].id.host = Pairs[q].sub.id.host /\ proxies[i].via = Pairs[q].sub.id
      BY <1>9, <1>10, <2>1
    <2>3. QED
      BY <1>4, <1>5, <2>2
  <1>20. ~SomeCircular
    BY <1>3, <1>12 DEF SomeCircular, ToSet
  <1>21. fault # "GROUP_REFERENCE_CYCLE"
    BY DEF CompilerInv, TypeOK, Fine
  <1>22. QED
    BY <1>17, <1>18, <1>19, <1>20, <1>21 DEF DerivedAreReached, derived, wanted

\* Whatever the chains of a profile and the groups they expand, a result derives
\* exactly one proxy for each custom proxy and node they reach, in the order of
\* the profile and the subscriptions; and a compilation ends with the error of a
\* circle only if a chain runs in one, and never succeeds then.
THEOREM ChainsDeriveWhatTheyReach == Spec => []DerivedAreReached
  <1>1. Init => ReachInv
    BY DEF Init, ReachInv, NodesNamed, Fine
  <1>2. CompilerInv /\ ReachInv /\ [Next]_vars => ReachInv'
    BY ReachStep
  <1>3. CompilerInv /\ ReachInv /\ NodesAreKept => DerivedAreReached
    <2>1. ReachInv /\ stage # "done" => DerivedAreReached
      BY DEF ReachInv, DerivedAreReached
    <2>2. QED
      BY <2>1, DoneReaches
  <1>4. QED
    BY <1>1, <1>2, <1>3, CompilerInvHolds, SubscriptionsAreKept, PTL DEF Spec
=============================================================================
