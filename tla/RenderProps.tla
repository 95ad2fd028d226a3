----------------------------- MODULE RenderProps -----------------------------
(* What is checked of Render. *)
EXTENDS Render

\* A render fails with a code, has one label for each ruleset it has passed, and
\* counts a name as often as it was asked for.
AskedFor(base) == {i \in DOMAIN labels : LabelBase(res.rulesets[i]) = base}
TypeOK ==
  /\ stage \in {"validate", "proxies", "groups", "rulesets", "done", "failed"}
  /\ (stage = "failed" <=> fault # Fine)
  /\ Len(labels) <= Len(res.rulesets)
  /\ Named => \A base \in DOMAIN counts : counts[base] = Cardinality(AskedFor(base))

BuiltinNames == {GroupName(Action(b)) : b \in Builtin}
GroupsDeclared == {g.name : g \in ToSet(printedGroups)}
Declared == ToSet(printedProxies) \cup GroupsDeclared \cup BuiltinNames

\* What a group lists and what a rule acts on is written exactly as it is
\* declared: quotes included, a builtin in the target's words (the renderers'
\* *MemberName and the *NameRep maps, SPEC_RENDER_TARGETS 3.1).
ReferencesAreDeclared == stage = "done" =>
  /\ \A g \in ToSet(printedGroups) : ToSet(g.members) \subseteq Declared
  /\ \A r \in ToSet(printedRules) : GroupName(r.action) \in Declared

\* Their inductive form, pass by pass: what is printed, and what has been checked.
PrintedInv ==
  /\ target \in Targets /\ res \in Results
  /\ stage = "proxies" => ChainsSupported
  /\ stage \in {"groups", "rulesets", "done"} =>
       printedProxies = ProxyNames /\ \A i \in DOMAIN res.proxies : NameFault(res.proxies[i].name) = Fine
  /\ stage \in {"rulesets", "done"} =>
       printedGroups = GroupLines /\ \A i \in DOMAIN res.groups : PolicyFault(res.groups[i].name) = Fine
  /\ stage = "done" =>
       /\ printedRules = RuleRows /\ Len(labels) = Len(res.rulesets)
       /\ \A i \in DOMAIN res.rules : RuleFault(res.rules[i]) = Fine

\* No ruleset is called like another one with a suffix.
Bases == {LabelBase(res.rulesets[i]) : i \in DOMAIN res.rulesets}
SuffixesAreFree == \A b, c \in Bases : \A m \in 2..Len(Numerals) : c # WithSuffix(b, m)

\* A ruleset has its base with a suffix counted up to now; suffixes of one base
\* differ.
LabelsInv ==
  /\ IsList(labels)
  /\ stage \in {"validate", "proxies", "groups"} => labels = <<>> /\ counts = <<>>
  /\ stage # "failed" => \A i \in DOMAIN labels : RulesetFault(res.rulesets[i], labels[i]) = Fine
  /\ ~Named => \A i \in DOMAIN labels : labels[i] = res.rulesets[i].url.id
  /\ Named => /\ DOMAIN counts = {LabelBase(res.rulesets[i]) : i \in DOMAIN labels}
              /\ \A i \in DOMAIN labels : LET base == LabelBase(res.rulesets[i]) IN
                   \E m \in 1..counts[base] : labels[i] = Candidate(base, m)
              /\ SuffixesAreFree => IsInjective(labels)

\* Unless a node or group is called what Quantumult X calls a builtin, nothing
\* is declared twice, so a reference means what the compiler meant; and rulesets
\* of one base are told apart by their suffixes as long as no ruleset is called
\* like another one with a suffix.
OwnWords == IF target = "quanx" THEN {<<"direct">>, <<"reject">>} ELSE {}
DeclarationsDiffer == stage = "done" =>
  /\ OwnWords \cap (NamesOf(res.proxies) \cup NamesOf(res.groups)) = {} =>
       /\ IsInjective(printedProxies)
       /\ IsInjective([i \in DOMAIN printedGroups |-> printedGroups[i].name])
       /\ ToSet(printedProxies) \cap GroupsDeclared = {}
       /\ BuiltinNames \cap (ToSet(printedProxies) \cup GroupsDeclared) = {}
  /\ Named /\ SuffixesAreFree => IsInjective(labels)

\* What a comma may come from that nobody looks at: the fields of a Shadowsocks
\* proxy, a server, and the URL a group tests (surge_like.go:87, 166, 173, 178,
\* quanx.go:48, 55).
Unchecked == ({"ss"} \X {"server", "cipher", "password", "obfs-host"})
             \cup {<<"http", "server">>, <<"url-test", "url">>}

\* In the INI formats nothing else splits a comma-separated line: no name, no
\* reference, no URL of a ruleset and no login has a bare comma, and no name has
\* a "=" where Surge looks for the first one (SPEC_RENDER_TARGETS 5.2.4, 7.1).
Bare(name) == {name.text[i] : i \in IF name.quoted THEN {} ELSE DOMAIN name.text}
OnlyUncheckedFieldsSplit == stage = "done" /\ target # "clash" =>
  /\ \A name \in Declared : "," \notin Bare(name)
  /\ \A name \in ToSet(printedProxies) : ~Has(name.text, "\"")
  /\ \A g \in ToSet(printedGroups) : "=" \notin Bare(g.name)
  /\ target # "quanx" => \A name \in ToSet(printedProxies) : ~Has(name.text, "=")
  /\ \A r \in ToSet(printedRules) : ~Has(r.action, ",") /\ ~Has(r.label, ",") /\ ~Has(r.url, ",")
  /\ rawCommas \subseteq Unchecked

\* A result of the compiler fails to render only because the target cannot
\* express it: the checks of references never fail behind Compile.
OnlyTheTargetRefuses == fault \in
  {Fine, "UNSUPPORTED_TARGET_FEATURE", "SUB_PARSE_ERROR", "PROFILE_VALIDATE_ERROR", "UNSUPPORTED_PLUGIN"}

\* Every ruleset is a provider of its own (README.md, "providerName").
ProvidersDiffer == stage = "done" /\ target = "clash" => IsInjective(labels)
=============================================================================
