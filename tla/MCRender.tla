------------------------------ MODULE MCRender -------------------------------
(* Instances of Render for TLC. *)
EXTENDS RenderProps

A == <<"A">>  G == <<"G">>
ProxyWith(host, name, plugin, commas) ==
  [id |-> SubID(host), name |-> name, via |-> NoProxy, type |-> "ss", plugin |-> plugin, commas |-> commas]
Proxy(host, name, plugin) == ProxyWith(host, name, plugin, {})
Derived(type, custom, host, name, commas) ==
  [id |-> DerivedID(custom, SubID(host)), name |-> name, via |-> SubID(host), type |-> type,
   plugin |-> "none", commas |-> commas]
Group(name, members) == [name |-> name, type |-> "select", members |-> members, url |-> <<>>]
TestGroup(name, url) == [name |-> name, type |-> "url-test", members |-> <<ProxyMember(SubID("a"))>>, url |-> url]
Url(id, stem) == [id |-> id, stem |-> stem]
Set(action, url) == [action |-> action, url |-> url]
Match(action) == [type |-> "MATCH", action |-> action]
Result(ps, gs, sets, rules) == [proxies |-> ps, groups |-> gs, rulesets |-> sets, rules |-> rules]

Second == {Proxy("b", <<"B">>, "none"), Proxy("b", <<"A", ",", "B">>, "none"), Proxy("b", <<"A", "\"">>, "obfs"),
  Proxy("b", <<"A", "-", "2">>, "obfs"), Proxy("b", <<"direct">>, "none"), Proxy("b", <<"B">>, "other"),
  ProxyWith("b", <<"B">>, "obfs", {"password", "obfs-host"}), ProxyWith("b", <<"B">>, "none", {"obfs-host"})}
\* (A login with a comma never comes to Surge from a profile: ParserGuards in
\* CompilerProps.  The renderer has its own check all the same.)
Rest == {<<>>, <<Derived("http", <<"c">>, "a", <<"c", " via ", "A">>, {})>>,
  <<Derived("http", <<"c">>, "a", <<"c", " via ", "A">>, {"password"})>>,
  <<Derived("ss", <<"c">>, "a", <<"c", " via ", "A">>, {"password"})>>,
  <<Derived("http", <<"c", "=">>, "a", <<"c", "=", " via ", "A">>, {"server"})>>}
GroupNamesUsed == {G, <<"G", ",", "H">>, <<"G", "=">>}
Members == {<<NameMember(DIRECT), ProxyMember(SubID("b"))>>,
  <<ProxyMember(SubID("a")), ProxyMember(SubID("b")), NameMember(REJECT)>>}

Urls == {Url(<<"u1">>, <<"x">>), Url(<<"u2">>, <<"x">>), Url(<<"u3">>, <<"x", ".">>),
  Url(<<"u4", ",">>, <<"x", "-", "2">>), Url(<<"u5">>, <<".">>)}
\* A group that picks one of its members, and two that test them.
Others == {Group(<<"H", "H">>, <<NameMember(REJECT)>>), TestGroup(<<"H", "H">>, <<"t">>),
  TestGroup(<<"H", "H">>, <<"t", ",">>)}
Sets(actions, n) == UNION {TupleOf({Set(a, u) : a \in actions, u \in Urls}, m) : m \in 0..n}

\* Two nodes, a derived one, a group over them and at most one ruleset.
NameResults == {r \in
  {Result(<<Proxy("a", A, "none"), p>> \o rest,
     <<Group(g, Append(ms, NameMember(h.name))), h>>, sets, <<Match(act)>>) :
     p \in Second, rest \in Rest, g \in GroupNamesUsed, ms \in Members, h \in Others,
     sets \in Sets({G, REJECT}, 1), act \in {G, DIRECT, <<"G", "=">>}} : WellFormed(r)}

\* One node and up to three rulesets for groups whose names clash with suffixes.
SetResults == {Result(<<Proxy("a", A, "none")>>,
    <<Group(G, <<NameMember(DIRECT)>>), Group(<<"G", "-", "2">>, <<ProxyMember(SubID("a"))>>)>>, sets, <<Match(G)>>) :
  sets \in Sets({G, <<"G", "-", "2">>}, 3)}

MCResults == NameResults \cup SetResults
AllTargets == {"clash", "surge", "shadowrocket", "quanx"}
OnlyClash == {"clash"}
=============================================================================
