------------------------------ MODULE Compiler -------------------------------
(***************************************************************************)
(* From a profile and the nodes of the subscriptions to the result the     *)
(* renderers get: ParseProfileYAML (module Profile), then Compile of       *)
(* internal/compiler.  The naming loops, the loop over the chains and each *)
(* later pass are steps; the first error ends the compilation.             *)
(*                                                                         *)
(* A node is [host, upper, name]: host stands for all normalised fields of *)
(* the deduplication key, upper for a spelling of them that normalisation  *)
(* removes.  The subscription parser has already refused the nodes that    *)
(* normalizeSubscriptionProxy would refuse (Usable in ResourceProps).      *)
(***************************************************************************)
EXTENDS Profile, Compiled

\* What may be compiled: each input gives the lists of nodes of the
\* subscriptions, the profiles that may come with them and the targets.
CONSTANT Inputs

\* Nodes have a host, and whatever is a list or a name is a sequence.
ASSUME InputsHaveNodes == \A in \in Inputs : \A s \in in.subs :
  /\ IsList(s)
  /\ \A node \in ToSet(s) :
       /\ DOMAIN node = {"host", "upper", "name"} /\ node.upper \in BOOLEAN
       /\ node.host # "" /\ IsList(node.name)
ASSUME InputsHaveProfiles == \A in \in Inputs : \A p \in in.profs :
  /\ IsList(p.customs) /\ IsList(p.groups) /\ IsList(p.chains) /\ IsList(p.rulesets) /\ IsList(p.rules)
  /\ \A c \in ToSet(p.customs) : IsList(c.name)
  /\ \A g \in ToSet(p.groups) : IsList(g.name) /\ IsList(g.members)
  /\ \A line \in ToSet(p.rules) : IsList(line)

VARIABLES
  subs, prof, target,  \* the input
  stage,     \* the pass that comes next
  fault,     \* the code of the error, or Fine
  nodes,     \* the nodes after deduplication
  n,         \* the candidate the running naming loop tries
  used,      \* the names that are taken
  k,         \* the chain that comes next
  selected,  \* the hosts each custom proxy is to be reached through
  proxies,   \* the result
  groups

input == <<subs, prof, target>>
vars == <<input, stage, fault, nodes, n, used, k, selected, proxies, groups>>

\* A pass that ends with a code, Fine if it succeeds.
Pass(code, next) == fault' = code /\ stage' = IF code = Fine THEN next ELSE "failed"

Init ==
  /\ \E in \in Inputs : subs \in in.subs /\ prof \in in.profs /\ target \in in.targets
  /\ stage = "parse" /\ fault = Fine /\ nodes = <<>> /\ n = 1 /\ used = {} /\ k = 1
  /\ selected = <<>> /\ proxies = <<>> /\ groups = <<>>

ParseProfile ==
  /\ stage = "parse"
  /\ Pass(ProfileFault(prof, target), "dedup")
  /\ UNCHANGED <<input, nodes, n, used, k, selected, proxies, groups>>

---------------------------------------------------------------------------
\* The nodes of the subscriptions.

Normalized(node) == [node EXCEPT !.upper = FALSE]

\* The positions of the nodes that are kept: the first of each key.
Kept_KeySpelled(list) == {i \in DOMAIN list : \A j \in 1..(i-1) :
  <<list[j].host, list[j].upper>> # <<list[i].host, list[i].upper>>}
Kept(list) == {i \in DOMAIN list : \A j \in 1..(i-1) : list[j].host # list[i].host}

Deduped(list) ==
  LET kept == Only([i \in DOMAIN list |-> i], Kept(list)) IN [i \in DOMAIN kept |-> Normalized(list[kept[i]])]

Dedup ==
  /\ stage = "dedup"
  /\ nodes' = Deduped(subs)
  /\ stage' = "name"
  /\ UNCHANGED <<input, fault, n, used, k, selected, proxies, groups>>

Taken(name) == name \in used \cup Builtin

\* A naming loop tries its next candidate: while base or base-n is taken, and
\* when it is free.
TrySuffix(base) ==
  /\ Taken(Candidate(base, n))
  /\ n < Len(Numerals)
  /\ n' = n + 1

Give_Unrecorded(base, id, via) ==
  LET name == Candidate(base, n) IN
  /\ ~Taken(name)
  /\ proxies' = Append(proxies, [id |-> id, name |-> name, via |-> via])
  /\ used' = used \cup {base}
  /\ n' = 1
Give(base, id, via) ==
  LET name == Candidate(base, n) IN
  /\ ~Taken(name)
  /\ proxies' = Append(proxies, [id |-> id, name |-> name, via |-> via])
  /\ used' = used \cup {name}
  /\ n' = 1

NameNode ==
  /\ stage = "name" /\ Len(proxies) < Len(nodes)
  /\ LET node == nodes[Len(proxies) + 1] IN
     \/ TrySuffix(BaseName(node)) /\ UNCHANGED <<used, proxies>>
     \/ Give(BaseName(node), SubID(node.host), NoProxy)
  /\ UNCHANGED <<input, stage, fault, nodes, k, selected, groups>>

\* normalizeCustomProxy checks again what parseCustomProxy has checked.
Normalizable(c) ==
  /\ c.name \notin Unnamed /\ c.server # "" /\ c.port \in Ports
  /\ CASE c.type = "ss" -> c.username = "" /\ "" \notin {c.cipher, c.password}
       [] c.type \in HttpTypes -> c.cipher = "" /\ c.plugin = "" /\ (c.username = "") = (c.password = "")
       [] OTHER -> FALSE

\* validateGroupProxyNamespace, for the groups of the user, then
\* compileCustomProxies, then the first compileGroups (PreGroup): it may leave a
\* group empty, but wants its type known.
CheckNames ==
  /\ stage = "name" /\ Len(proxies) = Len(nodes)
  /\ Pass(IF nodes = <<>> THEN "SUB_PARSE_ERROR"
          ELSE IF GroupNames(prof) \cap NamesOf(proxies) # {} THEN "PROFILE_VALIDATE_ERROR"
          ELSE IF \E c \in ToSet(prof.customs) : ~Normalizable(c) THEN "CUSTOM_PROXY_VALIDATE_ERROR"
          ELSE IF \E g \in ToSet(prof.groups) : g.type \notin {"select", "url-test"} THEN "GROUP_UNSUPPORTED_TYPE"
          ELSE Fine, "chain")
  /\ selected' = [c \in CustomNames(prof) |-> {}]
  /\ UNCHANGED <<input, nodes, n, used, k, proxies, groups>>

---------------------------------------------------------------------------
\* What a group of the profile contains, among the proxies its
\* regular expression may match and those "@all" stands for.
MemberRefs(list) == [i \in DOMAIN list |-> ProxyMember(list[i].id)]
GroupMembers(g, matched, all) ==
  IF g.type = "select" /\ g.members # <<>>
  THEN FlattenSeq([i \in DOMAIN g.members |->
         IF g.members[i] = AllSubs THEN MemberRefs(all) ELSE <<NameMember(g.members[i])>>])
  ELSE MemberRefs(Only(matched, {p \in ToSet(matched) : Matches(g.regex, p.name)}))

SubProxies == Only(proxies, {p \in ToSet(proxies) : p.via = NoProxy})

\* The members of the groups before anything is derived (preGroups).
PreGroup(name) ==
  LET g == CHOOSE g \in ToSet(prof.groups) : g.name = name
  IN GroupMembers(g, SubProxies, SubProxies)

\* expandGroupProxyIDs: the hosts in a group and the groups it contains, path
\* being the groups that are open above it, below what those it contains give.
Found(hosts) == [fault |-> Fine, hosts |-> hosts]
Lost(code) == [fault |-> code, hosts |-> {}]
Reentered == Lost("GROUP_REFERENCE_CYCLE")
Opened(g, below) ==
  LET ms == PreGroup(g) IN
  [i \in DOMAIN ms |->
     CASE ms[i].kind = "proxy" -> Found({ms[i].id.host})
       [] ms[i].kind = "group" /\ ms[i].name \in GroupNames(prof) -> below[ms[i].name]
       [] ms[i].kind = "group" /\ ms[i].name \notin GroupNames(prof) -> Lost("CHAIN_GROUP_NOT_FOUND")
       [] OTHER -> Found({})]
Gathered(parts) ==
  LET code == FirstFault([i \in DOMAIN parts |-> parts[i].fault])
  IN IF code # Fine THEN Lost(code) ELSE Found(UNION {parts[i].hosts : i \in DOMAIN parts})
Expansion ==
  LET f[path \in SUBSET GroupNames(prof)] == [g \in GroupNames(prof) |->
        IF g \in path THEN Reentered ELSE Gathered(Opened(g, f[path \cup {g}]))]
  IN f

---------------------------------------------------------------------------
\* The chains.

Chosen(c) ==
  CASE c.proxy \notin CustomNames(prof) -> Lost("CHAIN_PROXY_NOT_FOUND")
    [] c.proxy \in CustomNames(prof) /\ c.type = "all" -> Found({p.id.host : p \in ToSet(proxies)})
    [] c.proxy \in CustomNames(prof) /\ c.type = "regex" ->
         Found({p.id.host : p \in {q \in ToSet(proxies) : Matches(c.regex, q.name)}})
    [] c.proxy \in CustomNames(prof) /\ c.type = "group" /\ c.group \in GroupNames(prof) -> Expansion[{}][c.group]
    [] c.proxy \in CustomNames(prof) /\ c.type = "group" /\ c.group \notin GroupNames(prof) ->
         Lost("CHAIN_GROUP_NOT_FOUND")
    [] OTHER -> Lost("CHAIN_PARSE_ERROR")

ChainsRun == prof.chains # <<>> /\ prof.customs # <<>>

\* Chains of one custom proxy add up.
Selecting_Replaces(custom, hosts) == [selected EXCEPT ![custom] = hosts]
Selecting(custom, hosts) == [selected EXCEPT ![custom] = @ \cup hosts]

SelectChain ==
  /\ stage = "chain" /\ ChainsRun /\ k <= Len(prof.chains)
  /\ LET c == prof.chains[k]
         found == Chosen(c)
         code == IF found.fault = Fine /\ found.hosts = {} THEN "CHAIN_SELECTOR_EMPTY" ELSE found.fault
     IN /\ Pass(code, "chain")
        /\ selected' = IF code = Fine THEN Selecting(c.proxy, found.hosts) ELSE selected
  /\ k' = k + 1
  /\ UNCHANGED <<input, nodes, n, used, proxies, groups>>

WithSelection(customs, chosen) == Only(customs, {c \in ToSet(customs) : chosen[c.name] # {}})
ActiveCustoms == WithSelection(prof.customs, selected)
AutoGroupNames == {AutoGroup(c.name) : c \in ToSet(ActiveCustoms)}

\* The names no derived proxy may get: those of the subscriptions, of the
\* groups of the user and of the groups to come.
Claimed_SubsOnly == NamesOf(proxies)
Claimed == NamesOf(proxies) \cup GroupNames(prof) \cup AutoGroupNames

ClaimNames_Unchecked ==
  /\ stage = "chain" /\ (ChainsRun => k > Len(prof.chains))
  /\ Pass(Fine, "derive")
  /\ used' = Claimed
  /\ UNCHANGED <<input, nodes, n, k, selected, proxies, groups>>
ClaimNames ==
  /\ stage = "chain" /\ (ChainsRun => k > Len(prof.chains))
  /\ Pass(IF AutoGroupNames \cap NamesOf(proxies) # {} THEN "PROFILE_VALIDATE_ERROR" ELSE Fine, "derive")
  /\ used' = Claimed
  /\ UNCHANGED <<input, nodes, n, k, selected, proxies, groups>>

\* The pairs to derive: by custom proxy, then in the order of the nodes.
Pairs == FlattenSeq([c \in DOMAIN ActiveCustoms |->
  LET custom == ActiveCustoms[c].name
      chosen == Only(SubProxies, {p \in ToSet(SubProxies) : p.id.host \in selected[custom]})
  IN [i \in DOMAIN chosen |-> [custom |-> custom, sub |-> chosen[i]]]])

Derive ==
  /\ stage = "derive" /\ Len(proxies) < Len(nodes) + Len(Pairs)
  /\ LET pair == Pairs[Len(proxies) - Len(nodes) + 1]
         base == Via(pair.custom, pair.sub.name) IN
     \/ TrySuffix(base) /\ UNCHANGED <<used, proxies>>
     \/ Give(base, DerivedID(pair.custom, pair.sub.id), pair.sub.id)
  /\ UNCHANGED <<input, stage, fault, nodes, k, selected, groups>>

---------------------------------------------------------------------------
\* The groups and rules of the result.

DerivedOf(custom) == 
  Only(proxies, {p \in ToSet(proxies) : p.via # NoProxy /\ p.id.custom = custom})

UserGroups == [i \in DOMAIN prof.groups |->
  LET g == prof.groups[i] IN
  [name |-> g.name, type |-> g.type, members |-> GroupMembers(g, proxies, SubProxies)]]
AutoGroups == [c \in DOMAIN ActiveCustoms |->
  [name |-> AutoGroup(ActiveCustoms[c].name), type |-> "select",
   members |-> MemberRefs(DerivedOf(ActiveCustoms[c].name))]]

CompileGroups ==
  /\ stage = "derive" /\ Len(proxies) = Len(nodes) + Len(Pairs)
  /\ IF \E i \in DOMAIN UserGroups : UserGroups[i].members = <<>>
     THEN Pass("GROUP_PARSE_ERROR", "rules") /\ UNCHANGED groups
     ELSE Pass(Fine, "rules") /\ groups' = UserGroups \o AutoGroups
  /\ UNCHANGED <<input, nodes, n, used, k, selected, proxies>>

KnownAction(r) == r.action \in NamesOf(groups) \cup Builtin
MatchRules == {i \in DOMAIN InlineRules(prof) : InlineRules(prof)[i].type = "MATCH"}
OneFinalMatch == MatchRules = {Len(InlineRules(prof))}

CompileRules ==
  /\ stage = "rules"
  /\ Pass(FirstFault(
       << IF \E r \in ToSet(prof.rulesets) : ~KnownAction(r) THEN "REFERENCE_NOT_FOUND" ELSE Fine,
          IF ~OneFinalMatch THEN "RULE_PARSE_ERROR" ELSE Fine,
          IF \E r \in ToSet(InlineRules(prof)) : ~KnownAction(r) THEN "REFERENCE_NOT_FOUND" ELSE Fine >>), "done")
  /\ UNCHANGED <<input, nodes, n, used, k, selected, proxies, groups>>

Finished == stage \in {"done", "failed"} /\ UNCHANGED vars

Result == [proxies |-> proxies, groups |-> groups, rulesets |-> prof.rulesets, rules |-> InlineRules(prof)]

Next ==
  \/ ParseProfile \/ Dedup \/ NameNode \/ CheckNames \/ SelectChain \/ ClaimNames
  \/ Derive \/ CompileGroups \/ CompileRules \/ Finished

Spec == Init /\ [][Next]_vars
=============================================================================
