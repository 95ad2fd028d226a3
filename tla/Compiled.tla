------------------------------ MODULE Compiled -------------------------------
(***************************************************************************)
(* What the compiler promises the renderers of a result                    *)
(*   proxies  : Seq([id, name, via])      via = NoProxy for a subscription *)
(*   groups   : Seq([name, type, members])                                 *)
(*   rulesets : Seq([action, url]),  rules : Seq([type, action]).          *)
(* The promise is what the runs of Compiler check and the runs of Render   *)
(* assume.                                                                 *)
(***************************************************************************)
EXTENDS Names, FiniteSets, Functions

\* The identity of a proxy: a hash of its normalised fields, for a derived
\* proxy of its custom proxy and the identity it goes through.
NoProxy == [custom |-> <<>>, host |-> ""]
SubID(host) == [custom |-> <<>>, host |-> host]
DerivedID(custom, via) == [custom |-> custom, host |-> via.host]

ProxyMember(id) == [kind |-> "proxy", id |-> id, name |-> <<>>]
NameMember(name) ==
  [kind |-> IF name \in Builtin THEN "builtin" ELSE "group", id |-> NoProxy, name |-> name]

NamesOf(seq) == {seq[i].name : i \in DOMAIN seq}
IDsOf(proxies) == {proxies[i].id : i \in DOMAIN proxies}

\* A result is made of lists, and a member of a group is a proxy, a group or a
\* builtin.
IsResult(r) ==
  /\ IsList(r.proxies) /\ IsList(r.groups) /\ IsList(r.rulesets) /\ IsList(r.rules)
  /\ \A g \in ToSet(r.groups) :
       /\ IsList(g.name) /\ IsList(g.members)
       /\ \A m \in ToSet(g.members) : m.kind \in {"proxy", "group", "builtin"}

\* No two things a configuration declares have one name.
NamesDiffer(r) ==
  /\ IsInjective([i \in DOMAIN r.proxies |-> r.proxies[i].name])
  /\ IsInjective([i \in DOMAIN r.groups |-> r.groups[i].name])
  /\ NamesOf(r.proxies) \cap NamesOf(r.groups) = {}
  /\ Builtin \cap (NamesOf(r.proxies) \cup NamesOf(r.groups)) = {}

IDsDiffer(r) == IsInjective([i \in DOMAIN r.proxies |-> r.proxies[i].id])

\* Whatever a group, a derived proxy or a rule refers to is declared.
MembersExist(r) ==
  \A i \in DOMAIN r.groups :
    /\ r.groups[i].members # <<>>
    /\ \A k \in DOMAIN r.groups[i].members :
         LET m == r.groups[i].members[k] IN
         CASE m.kind = "proxy" -> m.id \in IDsOf(r.proxies)
           [] m.kind = "group" -> m.name \in NamesOf(r.groups)
           [] m.kind = "builtin" -> m.name \in Builtin

ViasAreSubs(r) ==
  \A i \in DOMAIN r.proxies : r.proxies[i].via # NoProxy =>
    \E j \in DOMAIN r.proxies : r.proxies[j].id = r.proxies[i].via /\ r.proxies[j].via = NoProxy

ActionsExist(r) ==
  \A s \in ToSet(r.rulesets) \cup ToSet(r.rules) : s.action \in NamesOf(r.groups) \cup Builtin

MatchIsLast(r) ==
  \A i \in DOMAIN r.rules : (r.rules[i].type = "MATCH") <=> (i = Len(r.rules))

WellFormed(r) ==
  /\ IsResult(r)
  /\ NamesDiffer(r) /\ IDsDiffer(r) /\ MembersExist(r) /\ ViasAreSubs(r) /\ ActionsExist(r) /\ MatchIsLast(r)
=============================================================================
