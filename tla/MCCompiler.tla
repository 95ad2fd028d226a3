----------------------------- MODULE MCCompiler ------------------------------
(* Instances of Compiler for TLC. *)
EXTENDS CompilerProps

Node(h, up, name) == [host |-> h, upper |-> up, name |-> name]
Lower(h, name) == Node(h, FALSE, name)

\* Names that collide with one another, with their suffixes, with a builtin,
\* with "=" once it is replaced, and a node without a name.
ClashingNodes == {Lower("a", <<"A">>), Node("a", TRUE, <<"B">>), Lower("b", <<"A">>),
  Lower("c", <<"A", "-", "2">>), Lower("c", <<"A", "=", "2">>), Lower("d", <<"DIRECT">>), Lower("d", <<>>),
  Lower("e", <<"A">>)}
NamingSubs == UNION {TupleOf(ClashingNodes, m) : m \in 1..4}

ChainSubs == {<<Lower("a", <<"A">>)>>, <<Lower("a", <<"A">>), Lower("b", <<"B">>)>>,
  <<Lower("a", <<"A">>), Lower("b", <<"c", " via ", "A">>), Node("a", TRUE, <<"B">>)>>,
  <<Lower("a", <<"G">>), Lower("b", <<"B">>)>>, <<Lower("b", <<"CHAIN", "=", "c">>), Lower("a", <<"A">>)>>}

C == <<"c">>  D == <<"d">>  G == <<"G">>  H == <<"H">>
Custom(name) == [name |-> name, type |-> "socks5", server |-> "s", port |-> 1080, username |-> "", password |-> "",
                 cipher |-> "", plugin |-> ""]
Group(name, type, members, regex) == [name |-> name, type |-> type, members |-> members, regex |-> regex,
                                      url |-> "u", interval |-> 300, tolerance |-> 0]
Select(name, members) == Group(name, "select", members, "")
Regex(name, type, regex) == Group(name, type, <<>>, regex)
Chain(proxy, type, regex, group) == [proxy |-> proxy, type |-> type, regex |-> regex, group |-> group]
Match(action) == <<MatchType, action>>
Rule(action) == <<<<"DOMAIN">>, <<"x">>, action>>

Profile(customs, gs, chains, rulesets, rules) ==
  [yaml |-> TRUE, version |-> 1, template |-> [t \in {"clash", "quanx", "surge"} |-> "u"], base |-> "",
   customs |-> customs, groups |-> gs, chains |-> chains, rulesets |-> rulesets, rules |-> rules]

Customs == {<<>>, <<Custom(C)>>, <<Custom(D), Custom(C)>>, <<Custom(C), Custom(C)>>, <<Custom(G)>>,
  <<Custom(DIRECT)>>, <<[Custom(C) EXCEPT !.port = 65536]>>}
Groups == {<<>>, <<Select(G, <<AllSubs, DIRECT>>)>>, <<Select(G, <<H, REJECT>>), Regex(H, "url-test", "A")>>,
  <<Select(G, <<H>>), Select(H, <<G, AllSubs>>)>>, <<Select(G, <<G>>)>>, <<Regex(G, "select", " via ")>>,
  <<Select(G, <<DIRECT>>), Select(H, <<G, AllSubs>>)>>, <<Select(G, <<D>>)>>,
  <<Regex(G, "select", "B"), Select(H, <<G, G>>)>>, <<Regex(<<"CHAIN", "-", "c">>, "select", "A")>>,
  <<Regex(<<"c", " via ", "A">>, "url-test", "A")>>, <<Regex(G, "fallback", "A")>>,
  <<Select(G, <<DIRECT>>), Select(G, <<REJECT>>)>>, <<Select(DIRECT, <<REJECT>>)>>,
  <<Select(G, <<H>>), Select(H, <<D>>)>>}
Chains == {<<>>, <<Chain(C, "all", "", <<>>)>>, <<Chain(C, "regex", "B", <<>>)>>,
  <<Chain(C, "group", "", G)>>, <<Chain(C, "group", "", H)>>,
  <<Chain(C, "regex", "B", <<>>), Chain(D, "all", "", <<>>), Chain(C, "regex", "A", <<>>)>>,
  <<Chain(C, "group", "", G), Chain(C, "regex", "B", <<>>)>>, <<Chain(D, "some", "", <<>>)>>}
RuleSets == {<< <<>>, <<Match(DIRECT)>> >>,
  << <<[action |-> G, url |-> "u"]>>, <<Rule(REJECT), Match(G)>> >>,
  << <<>>, <<Match(DIRECT), Rule(G)>> >>, << <<>>, <<Match(DIRECT), Match(DIRECT)>> >>,
  << <<>>, <<Rule(DIRECT)>> >>, << <<>>, <<Match(<<"CHAIN", "-", "c">>)>> >>,
  << <<[action |-> H, url |-> "u"]>>, <<Match(REJECT)>> >>}

\* Rule lines around every check of the grammar, before a MATCH; a group may be
\* called like the option.
Types == {<<>>, Comment, <<"DOMAIN">>, <<"GEOIP">>, <<"IP-CIDR">>, <<"IP-CIDR6">>, MatchType, <<"RULE-SET">>}
Values == {<<>>, <<"x">>, <<"v4">>, <<"v6">>, <<"v4 in v6">>}
Actions == {<<>>, G, DIRECT, NoResolve, H}
Lines == {BlankLine} \cup {<<t, a>> : t \in Types, a \in Actions}
  \cup {<<t, v, a>> : t \in Types, v \in Values, a \in Actions}
  \cup {<<t, v, a, o>> : t \in Types, v \in Values, a \in Actions, o \in {NoResolve, G, <<>>}}
RuleProfiles ==
  {Profile(<<>>, <<Select(G, <<DIRECT>>), Select(NoResolve, <<AllSubs>>)>>, <<>>, <<>>, rules) :
     rules \in {<<line, Match(G)>> : line \in Lines} \cup {<<line>> : line \in Lines}}

\* For the naming of nodes: nothing but nodes, and chains over all of them.
NamingProfiles == {Profile(<<>>, <<>>, <<>>, <<>>, <<Match(DIRECT)>>),
  Profile(<<Custom(<<"A">>)>>, <<Regex(G, "select", "A")>>, <<Chain(<<"A">>, "all", "", <<>>)>>, <<>>, <<Match(G)>>)}
\* Every combination of the parts of a profile.
AllProfiles ==
  {Profile(c, g, ch, r[1], r[2]) : c \in Customs, g \in Groups, ch \in Chains, r \in RuleSets}

\* Directives in every shape: what each type asks for, forbids and bounds.
Plain == Profile(<<>>, <<>>, <<>>, <<>>, <<Match(DIRECT)>>)
Chained == Profile(<<Custom(C)>>, <<Select(G, <<AllSubs>>)>>, <<Chain(C, "all", "", <<>>)>>, <<>>, <<Match(G)>>)
CustomShapes ==
  {[Custom(C) EXCEPT !.type = t, !.username = u, !.password = p, !.cipher = c, !.plugin = g] :
     t \in {"ss", "http", "socks5-tls", "vmess", ""}, u \in {"", "u", "comma", "control"},
     p \in {"", "p", "comma"}, c \in {"", "c"}, g \in {"", "g"}}
  \cup {[Custom(name) EXCEPT !.server = s, !.port = p] :
          name \in {C, <<>>, <<"control">>, REJECT}, s \in {"s", ""}, p \in {-1, 0, 1, 65535, 65536}}
GroupShapes ==
  {Group(g, t, ms, r) : g \in {G, <<>>, <<"control">>}, t \in {"select", "url-test", "relay", ""},
     ms \in {<<>>, <<AllSubs>>, <<AllSubs, <<>>>>}, r \in {"", "A", "("}}
  \cup {[Regex(G, "url-test", "A") EXCEPT !.url = u, !.interval = i, !.tolerance = d] :
          u \in {"", "u", "illegal"}, i \in {-1, 0, 1}, d \in {-1, 0, 1}}
ChainShapes == {Chain(p, t, r, g) : p \in {C, D, <<>>, <<"control">>}, t \in {"all", "regex", "group", "some", ""},
                                    r \in {"", "A", "("}, g \in {<<>>, G, H}}
ShapedProfiles ==
  {[Chained EXCEPT !.customs = <<c>>] : c \in CustomShapes}
  \cup {[Plain EXCEPT !.groups = <<g>>] : g \in GroupShapes}
  \cup {[Chained EXCEPT !.chains = <<c>>] : c \in ChainShapes}
  \cup {[Plain EXCEPT !.rulesets = <<[action |-> a, url |-> u]>>] : a \in {<<>>, DIRECT, G}, u \in {"", "u", "illegal"}}
  \cup {[Plain EXCEPT !.yaml = y, !.version = v, !.base = b, !.template = t] :
          y \in BOOLEAN, v \in 0..2, b \in {"", "u", "illegal", "query"},
          t \in {<<>>, [clash |-> "u"], [clash |-> "u", surge |-> "illegal"], [clash |-> "u", surge |-> "u", loon |-> "u"]}}

MCInputs == {[subs |-> NamingSubs, profs |-> NamingProfiles, targets |-> {"clash"}],
             [subs |-> ChainSubs, profs |-> AllProfiles, targets |-> {"clash", "quanx"}],
             [subs |-> {<<Lower("a", <<"A">>)>>}, profs |-> RuleProfiles, targets |-> {"clash"}],
             [subs |-> {<<Lower("a", <<"A">>)>>}, profs |-> ShapedProfiles, targets |-> AllowedTargets]}
=============================================================================
