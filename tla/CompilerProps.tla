---------------------------- MODULE CompilerProps ----------------------------
(* What is checked of Compiler. *)
EXTENDS Compiler

Stages == {"parse", "dedup", "name", "chain", "derive", "rules", "done", "failed"}

\* A compilation fails with a code, its loops stay within their bounds, the name of
\* a proxy is taken, and hosts come from the subscriptions only.
TypeOK ==
  /\ stage \in Stages /\ (stage = "failed" <=> fault # Fine)
  /\ n \in 1..Len(Numerals) /\ k \in 1..(Len(prof.chains) + 1)
  /\ NamesOf(proxies) \subseteq used
  /\ ToSet(nodes) \subseteq {Normalized(node) : node \in ToSet(subs)}
  /\ {id.host : id \in IDsOf(proxies)} \subseteq {node.host : node \in ToSet(nodes)}

\* A result keeps the promise the renderers rely on: names and identities are
\* unique over subscriptions, derived proxies, groups and builtins, every
\* reference resolves, and MATCH is the last rule (Compile).
ResultIsWellFormed == stage = "done" => WellFormed(Result)

\* Its inductive form, pass by pass.  What is compiled comes from the inputs and
\* is a profile the parser has accepted.
Compiling == stage \notin {"parse", "failed"}
InputInv ==
  /\ \E in \in Inputs : subs \in in.subs /\ prof \in in.profs
  /\ Compiling => ProfileFault(prof, target) = Fine

\* The nodes that are kept differ in their hosts, and the first proxies are
\* these nodes; in the beginning there are no others.
NodesNamed == {"chain", "derive", "rules", "done"}
HostsOf(list) == {list[i].host : i \in DOMAIN list}
NodesInv ==
  /\ IsList(nodes) /\ IsInjective([i \in DOMAIN nodes |-> nodes[i].host]) /\ "" \notin HostsOf(nodes)
  /\ IsList(proxies)
  /\ stage \in {"parse", "dedup"} => nodes = <<>> /\ proxies = <<>>
  /\ stage = "name" => Len(proxies) <= Len(nodes)
  /\ stage \in NodesNamed => Len(nodes) <= Len(proxies)
  /\ stage = "chain" => Len(proxies) = Len(nodes)
  /\ \A i \in DOMAIN proxies : i <= Len(nodes) =>
       proxies[i].id = SubID(nodes[i].host) /\ proxies[i].via = NoProxy
  /\ Compiling => /\ Len(SubProxies) = IF stage = "name" THEN Len(proxies) ELSE Len(nodes)
                  /\ \A i \in DOMAIN SubProxies : SubProxies[i] = proxies[i]

\* Chains select nodes that exist.
SelectedInv == stage \in NodesNamed =>
  /\ DOMAIN selected = CustomNames(prof)
  /\ \A c \in CustomNames(prof) : selected[c] \subseteq HostsOf(nodes)

\* Behind the nodes come the derived proxies, one for each pair.
DerivedInv == stage \in {"derive", "rules", "done"} =>
  /\ Len(proxies) <= Len(nodes) + Len(Pairs)
  /\ stage # "derive" => Len(proxies) = Len(nodes) + Len(Pairs)
  /\ \A i \in DOMAIN proxies : i > Len(nodes) =>
       LET pair == Pairs[i - Len(nodes)] IN
       proxies[i].id = DerivedID(pair.custom, pair.sub.id) /\ proxies[i].via = pair.sub.id

\* The groups are those of the profile and of the chains, none empty, and the
\* rules have been looked up.
GroupsInv == stage \in {"rules", "done"} =>
  groups = UserGroups \o AutoGroups /\ \A i \in DOMAIN UserGroups : UserGroups[i].members # <<>>
RulesInv == stage = "done" =>
  OneFinalMatch /\ \A r \in ToSet(prof.rulesets) \cup ToSet(InlineRules(prof)) : KnownAction(r)

ResultInv ==
  InputInv /\ NodesInv /\ SelectedInv /\ DerivedInv /\ GroupsInv /\ RulesInv

\* At no moment do two proxies have one name, a proxy never has the name of a
\* builtin, and none that is there once the chains are known has the name of a
\* group, not even of a diagnostic group that does not exist yet: what a group
\* of the profile refers to by name cannot be caught by a proxy
\* (compileSubscriptionProxies, validateGroupProxyNamespace, compileDerivedProxies).
ClaimedStages == {"derive", "rules", "done"}
NamesAreDistinct ==
  /\ IsInjective([i \in DOMAIN proxies |-> proxies[i].name])
  /\ NamesOf(proxies) \cap Builtin = {}
  /\ stage \in ClaimedStages => NamesOf(proxies) \cap (GroupNames(prof) \cup AutoGroupNames) = {}

\* The inductive form: what the loops remember in used covers every name that
\* must not be given again.
NamingInv ==
  /\ proxies \in Seq(ToSet(proxies))
  /\ NamesOf(proxies) \subseteq used
  /\ stage = "chain" => NamesOf(proxies) \cap GroupNames(prof) = {}
  /\ stage = "derive" => GroupNames(prof) \cup AutoGroupNames \subseteq used
  /\ NamesAreDistinct

\* Where a host is listed first.
PositionIn(list, host) == CHOOSE i \in DOMAIN list :
  list[i].host = host /\ \A j \in 1..(i-1) : list[j].host # host
Position(host) == PositionIn(subs, host)

\* A node has its base name, or the first free of base-2, base-3...; a name is
\* free if no node before it has it and it is not a builtin.
FirstFree(base, earlier) ==
  LET m == CHOOSE m \in 1..Len(Numerals) :
             /\ Candidate(base, m) \notin earlier
             /\ \A l \in 1..(m-1) : Candidate(base, l) \in earlier
  IN Candidate(base, m)
BaseOf(host) == BaseName(subs[Position(host)])
NamesBefore(i) == {SubProxies[j].name : j \in 1..(i-1)} \cup Builtin

\* The subscriptions come out each node once, whatever its spelling and however
\* often it is listed, in the order in which the nodes appear first, with names
\* that do not depend on the profile: the first fit of SPEC_DETERMINISM 3.4.  No
\* chain renames them, and a list that is read back keeps its names, so the
\* output of mode=list is a fixed point of NormalizeSubscriptionProxies.
NamedByFirstFit == \A i \in DOMAIN SubProxies :
  LET p == SubProxies[i]
      again == [host |-> p.id.host, upper |-> FALSE, name |-> p.name]
  IN /\ p.name = FirstFree(BaseOf(p.id.host), NamesBefore(i))
     /\ FirstFree(BaseName(again), NamesBefore(i)) = p.name
InOrderOfSubs == \A i, j \in DOMAIN SubProxies :
  i < j => Position(SubProxies[i].id.host) < Position(SubProxies[j].id.host)
NodesAreKept ==
  /\ NamedByFirstFit /\ InOrderOfSubs
  /\ stage = "done" => {p.id.host : p \in ToSet(SubProxies)} = HostsOf(subs)

\* Its inductive form: the nodes are those that deduplication leaves, and the
\* candidates a naming loop has passed are taken by the names before.
KeptInv ==
  /\ stage \in {"parse", "dedup"} => n = 1 /\ used = {}
  /\ Compiling /\ stage # "dedup" => nodes = Deduped(subs)
  /\ stage = "name" =>
       /\ used = NamesOf(proxies)
       /\ Len(proxies) < Len(nodes) =>
            \A l \in 1..(n-1) : Taken(Candidate(BaseName(nodes[Len(proxies) + 1]), l))
  /\ NodesAreKept

---------------------------------------------------------------------------
\* The groups of the profile as a graph, read from the directives alone; "@all"
\* in a list is never a group.
Contains1(g, h) ==
  h # AllSubs /\ \E s \in ToSet(prof.groups) : s.name = g /\ s.type = "select" /\ h \in ToSet(s.members)
Contained == LET names == GroupNames(prof) IN
  [g \in names |-> {h \in names : Contains1(g, h)}]
\* The groups that can be reached from g: the least set with g that is closed.
Closed(S) == \A h \in S : Contained[h] \subseteq S
Below(g) == {h \in GroupNames(prof) : \A S \in SUBSET GroupNames(prof) : g \in S /\ Closed(S) => h \in S}
OnCycle(g) == \E h \in Contained[g] : g \in Below(h)

\* The hosts a group names itself: "@all", or those its expression matches.
OwnHosts(s) ==
  {p.id.host : p \in {q \in ToSet(SubProxies) :
     IF s.type = "select" /\ s.members # <<>> THEN AllSubs \in ToSet(s.members) ELSE Matches(s.regex, q.name)}}

Reached(c) ==
  CASE c.type = "all" -> {p.id.host : p \in ToSet(SubProxies)}
    [] c.type = "regex" -> {p.id.host : p \in {q \in ToSet(SubProxies) : Matches(c.regex, q.name)}}
    [] c.type = "group" -> UNION {OwnHosts(s) : s \in {t \in ToSet(prof.groups) : t.name \in Below(c.group)}}
Circular(c) == c.type = "group" /\ \E g \in Below(c.group) : OnCycle(g)

\* There is exactly one derived proxy for each custom proxy and each node that
\* some chain of that proxy reaches, ordered by custom proxy and then by node;
\* groups are expanded to everything below them (compileDerivedProxies).  A
\* chain over groups that contain each other in a circle is an error, and only
\* such a chain gives that error (expandGroupProxyIDs).
CustomAt(name) == CHOOSE i \in DOMAIN prof.customs : prof.customs[i].name = name
Before(a, b) ==
  \/ CustomAt(a.custom) < CustomAt(b.custom)
  \/ a.custom = b.custom /\ Position(a.host) < Position(b.host)
SomeCircular == \E c \in ToSet(prof.chains) : Circular(c)
DerivedAreReached ==
  LET derived == {i \in DOMAIN proxies : proxies[i].via # NoProxy}
      wanted == UNION {{DerivedID(c.proxy, SubID(h)) : h \in Reached(c)} : c \in ToSet(prof.chains)}
  IN /\ stage = "done" =>
          /\ {proxies[i].id : i \in derived} = wanted
          /\ \A i, j \in derived : i < j => Before(proxies[i].id, proxies[j].id)
          /\ \A i \in derived : proxies[i].via = SubID(proxies[i].id.host)
          /\ ~SomeCircular
     /\ fault = "GROUP_REFERENCE_CYCLE" => SomeCircular

\* Its inductive form: what is selected for a custom proxy is what its chains
\* so far reach, and none of them runs in a circle.
ReachedSoFar(name) == UNION {Reached(prof.chains[j]) : j \in {i \in 1..(k-1) : prof.chains[i].proxy = name}}
ReachInv ==
  /\ stage \in {"parse", "dedup", "name"} => k = 1
  /\ stage \in NodesNamed =>
       /\ k \in 1..(Len(prof.chains) + 1)
       /\ \A name \in CustomNames(prof) : selected[name] = ReachedSoFar(name)
       /\ \A j \in 1..(k-1) : ~Circular(prof.chains[j])
  /\ stage \in {"derive", "rules", "done"} => k = Len(prof.chains) + 1
  /\ fault = "GROUP_REFERENCE_CYCLE" => SomeCircular

\* The rules of the result are the lines of the profile and nothing else: what
\* Clash gets for a rule is its line again, which reads as the same rule, and
\* what the targets take for the option no-resolve is never the action of a rule
\* (rules/parse.go, ruleToClashString).
RulesReadBack == stage = "done" =>
  LET lines == RuleLines(prof)
      rs == Result.rules
  IN /\ Len(rs) = Len(lines) /\ ToSet(lines) = ToSet(prof.rules) \ {BlankLine}
     /\ \A i \in DOMAIN rs :
          /\ RuleLine(rs[i]) = lines[i] /\ InlineRule(lines[i]) = rs[i]
          /\ <<rs[i].type>> \in CidrTypes =>
               (rs[i].noResolve <=> \E j \in 3..Len(lines[i]) : j = Len(lines[i]) /\ lines[i][j] = NoResolve)

\* What ParseProfileYAML has accepted, Compile does not find fault with again:
\* the errors it repeats for its callers cannot be reached from the handlers.
\* Nor does Surge's renderer refuse the credentials of a proxy behind which
\* nodes were derived (validateSurgeProxyCredential).
ParserGuards ==
  /\ nodes # <<>> =>
       fault \notin {"CHAIN_PROXY_NOT_FOUND", "CHAIN_GROUP_NOT_FOUND", "CHAIN_PARSE_ERROR",
                     "CUSTOM_PROXY_VALIDATE_ERROR", "GROUP_UNSUPPORTED_TYPE", "SUB_PARSE_ERROR"}
  /\ stage = "done" /\ target = "surge" =>
       \A c \in ToSet(ActiveCustoms) :
         c.type # "ss" => {c.username, c.password} \cap {"comma", "control"} = {}
=============================================================================
