------------------------------- MODULE Render --------------------------------
(***************************************************************************)
(* Render of internal/render for the four targets: the checks of the       *)
(* input, the names as each format writes them, the references in groups   *)
(* and rules, and the names given to rulesets, one ruleset a step.  A      *)
(* printed name is [text, quoted]; the rest of a line is left out, except  *)
(* what can fail, plugins and credentials, and what can break the line, a  *)
(* comma in a field that is printed as it is.                              *)
(*                                                                         *)
(* A proxy of a result also has .type ("ss", or "http" for all the types   *)
(* with a login), .plugin ("none", "obfs" for simple-obfs or obfs-local    *)
(* with its mode, "other") and .commas, its fields with a comma in them; a *)
(* group has the .url of its test; a ruleset's url is [id, stem], stem the *)
(* file name of the path without its extension.                            *)
(***************************************************************************)
EXTENDS Compiled

CONSTANTS Results,    \* what may be rendered: results of the compiler
          Targets,    \* subset of "clash", "surge", "shadowrocket", "quanx"
          NameLimit   \* the length a provider name is cut to

ASSUME ResultsAreCompiled == \A r \in Results : WellFormed(r)
ASSUME UrlsHaveStems == \A r \in Results : \A rs \in ToSet(r.rulesets) : IsList(rs.url.stem)
\* Subscriptions have Shadowsocks nodes only; a custom proxy comes as a derived one.
ASSUME NodesAreShadowsocks == \A r \in Results : \A p \in ToSet(r.proxies) :
  p.type \in {"ss", "http"} /\ (p.via = NoProxy => p.type = "ss")
\* A bound of the model: there is a numeral for each suffix.
ASSUME RulesetsAreNumbered == \A r \in Results : Len(r.rulesets) <= Len(Numerals)
ASSUME NamesAreCut == NameLimit \in Nat
ASSUME TargetsAreKnown == Targets \subseteq {"clash", "surge", "shadowrocket", "quanx"}

VARIABLES
  target, res,     \* the input
  stage, fault,    \* the pass that comes next; the code of the error
  printedProxies,  \* the blocks: Seq(printed name), Seq([name, members]),
  printedGroups,
  rawCommas,       \* <<kind of line, field>>: printed as it is, with a comma in it
  counts,          \* how often each ruleset name was asked for (used, tagCounts)
  labels,          \* the names of the rulesets so far: providers or tags
  printedRules     \* Seq([label, url, action]), both <<>> for an inline rule

input == <<target, res>>
blocks == <<printedProxies, printedGroups, rawCommas>>
vars == <<input, stage, fault, blocks, counts, labels, printedRules>>

Pass(code, next) == fault' = code /\ stage' = IF code = Fine THEN next ELSE "failed"
Has(name, piece) == \E i \in DOMAIN name : name[i] = piece

Init ==
  /\ target \in Targets /\ res \in Results
  /\ stage = "validate" /\ fault = Fine
  /\ printedProxies = <<>> /\ printedGroups = <<>> /\ printedRules = <<>>
  /\ rawCommas = {} /\ counts = <<>> /\ labels = <<>>

---------------------------------------------------------------------------
\* The checks of the input.

ValidateRenderInput_EveryVia ==
  IF ~({p.via : p \in ToSet(res.proxies)} \subseteq IDsOf(res.proxies)) THEN "CHAIN_PROXY_NOT_FOUND" ELSE Fine
ValidateRenderInput ==
  LET Vias == {p.via : p \in ToSet(res.proxies)} \ {NoProxy} IN
  IF ~IDsDiffer(res) THEN "INVALID_ARGUMENT"
  ELSE IF ~(Vias \subseteq IDsOf(res.proxies)) THEN "CHAIN_PROXY_NOT_FOUND"
  ELSE IF \E p \in ToSet(res.proxies) : p.id \in Vias /\ p.via # NoProxy THEN "INVALID_ARGUMENT"
  ELSE Fine

ChainsSupported ==
  target \in {"clash", "surge"} \/ \A p \in ToSet(res.proxies) : p.via = NoProxy

Validate ==
  /\ stage = "validate"
  /\ Pass(IF ValidateRenderInput # Fine THEN ValidateRenderInput
          ELSE IF ~ChainsSupported THEN "UNSUPPORTED_TARGET_FEATURE" ELSE Fine, "proxies")
  /\ UNCHANGED <<input, blocks, counts, labels, printedRules>>

---------------------------------------------------------------------------
\* Names.

\* yamlDQ quotes every name; the other formats quote those with a comma.
Quoted(name) == target = "clash" \/ Has(name, ",")

NameFault(name) ==
  IF \/ target # "clash" /\ Has(name, "\"")
     \/ target \in {"surge", "shadowrocket"} /\ Has(name, "=")
  THEN "SUB_PARSE_ERROR" ELSE Fine

\* surgeGroupNameOK and quanxPolicyNameOK; Clash takes any name.
PolicyFault(name) ==
  IF target # "clash" /\ (Has(name, ",") \/ Has(name, "=")) THEN "PROFILE_VALIDATE_ERROR" ELSE Fine

ProxyName(name) == [text |-> name, quoted |-> Quoted(name)]
GroupName(name) == [text |-> name, quoted |-> target = "clash"]
Action(name) ==
  CASE target = "quanx" /\ name = DIRECT -> <<"direct">>
    [] target = "quanx" /\ name = REJECT -> <<"reject">>
    [] OTHER -> name

TypeFault(p) == IF target = "quanx" /\ p.type # "ss" THEN "INVALID_ARGUMENT" ELSE Fine
PluginFault(p) == IF p.type = "ss" /\ p.plugin = "other" THEN "UNSUPPORTED_PLUGIN" ELSE Fine
\* Only a login is checked, not what is printed of a Shadowsocks proxy.
CredentialFault_PasswordUnchecked(p) ==
  IF target \in {"surge", "shadowrocket"} /\ p.type # "ss" /\ "username" \in p.commas
  THEN "SUB_PARSE_ERROR" ELSE Fine
CredentialFault(p) ==
  IF target \in {"surge", "shadowrocket"} /\ p.type # "ss" /\ p.commas \cap {"username", "password"} # {}
  THEN "SUB_PARSE_ERROR" ELSE Fine
LineFault(p) ==
  IF TypeFault(p) # Fine THEN TypeFault(p)
  ELSE IF PluginFault(p) # Fine THEN PluginFault(p) ELSE CredentialFault(p)

\* What a proxy line prints as it is; Clash quotes every field.
RawFields(p) ==
  IF target = "clash" THEN {}
  ELSE IF p.type # "ss" THEN {"server", "username", "password"}
  ELSE {"server", "cipher", "password"} \cup IF p.plugin = "none" THEN {} ELSE {"obfs-host"}
ProxyCommas == UNION {{p.type} \X (p.commas \cap RawFields(p)) : p \in ToSet(res.proxies)}

\* A group line has the URL of the test, in Quantumult X without.
GroupCommas ==
  IF target \in {"clash", "quanx"} THEN {}
  ELSE {<<g.type, "url">> : g \in {g \in ToSet(res.groups) : g.type = "url-test" /\ Has(g.url, ",")}}

ProxyNames == [i \in DOMAIN res.proxies |-> ProxyName(res.proxies[i].name)]
PrintProxies ==
  /\ stage = "proxies"
  /\ LET ps == res.proxies
         code == FirstFault([i \in DOMAIN ps |-> NameFault(ps[i].name)] \o [i \in DOMAIN ps |-> LineFault(ps[i])])
     IN /\ Pass(code, "groups")
        /\ printedProxies' = IF code = Fine THEN ProxyNames ELSE <<>>
        /\ rawCommas' = IF code = Fine THEN ProxyCommas ELSE {}
  /\ UNCHANGED <<input, printedGroups, counts, labels, printedRules>>

\* A member is looked up by its identity and written as the proxy is declared.
MemberName_Raw(m) ==
  IF m.kind = "proxy"
  THEN LET p == CHOOSE p \in ToSet(res.proxies) : p.id = m.id
       IN [text |-> p.name, quoted |-> target = "clash"]
  ELSE GroupName(Action(m.name))
MemberName(m) ==
  IF m.kind = "proxy"
  THEN LET p == CHOOSE p \in ToSet(res.proxies) : p.id = m.id IN ProxyName(p.name)
  ELSE GroupName(Action(m.name))

GroupLine(g) ==
  [name |-> GroupName(g.name), members |-> [j \in DOMAIN g.members |-> MemberName(g.members[j])]]
GroupLines == [i \in DOMAIN res.groups |-> GroupLine(res.groups[i])]
PrintGroups ==
  /\ stage = "groups"
  /\ LET gs == res.groups
         missing == \E g \in ToSet(gs) : \E m \in ToSet(g.members) :
                      m.kind = "proxy" /\ m.id \notin IDsOf(res.proxies)
         code == FirstFault([i \in DOMAIN gs |-> PolicyFault(gs[i].name)]
                       \o <<IF missing THEN "INVALID_ARGUMENT" ELSE Fine>>)
     IN /\ Pass(code, "rulesets")
        /\ printedGroups' = IF code = Fine THEN GroupLines ELSE <<>>
        /\ rawCommas' = IF code = Fine THEN rawCommas \cup GroupCommas ELSE rawCommas
  /\ UNCHANGED <<input, printedProxies, counts, labels, printedRules>>

---------------------------------------------------------------------------
\* Rulesets.

\* sanitizeClashRuleProviderName: other characters become "_", the ends are
\* trimmed, the result is cut.
Sanitized(stem) ==
  LET safe == ReplaceAll(stem, ".", "_")
      solid == {i \in DOMAIN safe : safe[i] \notin {"_", "-"}}
      kept == Only([i \in DOMAIN safe |-> i],
                   {i \in DOMAIN safe : (\E j \in solid : j <= i) /\ \E j \in solid : i <= j})
      length == IF Len(kept) < NameLimit THEN Len(kept) ELSE NameLimit
  IN [i \in 1..length |-> safe[kept[i]]]

\* What a ruleset is named after: its file in Clash, its policy in Quantumult X.
LabelBase(rs) ==
  IF target = "quanx" THEN rs.action
  ELSE IF Sanitized(rs.url.stem) = <<>> THEN <<"ruleset">> ELSE Sanitized(rs.url.stem)

CountOf(base) == IF base \in DOMAIN counts THEN counts[base] ELSE 0
Label_NoSuffix(base) == base
Label(base) == Candidate(base, CountOf(base) + 1)

Counted_FirstOnly(base) == [b \in DOMAIN counts \cup {base} |-> IF b = base THEN 1 ELSE counts[b]]
Counted(base) == [b \in DOMAIN counts \cup {base} |-> IF b = base THEN CountOf(b) + 1 ELSE counts[b]]

RulesetFault(rs, label) ==
  IF target = "clash" THEN Fine
  ELSE IF Has(rs.url.id, ",") THEN "PROFILE_VALIDATE_ERROR"
  ELSE IF rs.action \in Builtin /\ target # "quanx" THEN Fine
  ELSE IF target = "quanx" THEN PolicyFault(label) ELSE PolicyFault(rs.action)

\* Clash and Quantumult X name their rulesets; Surge and Shadowrocket refer to
\* them by their URL.
Named == target \in {"clash", "quanx"}
NameRuleset ==
  /\ stage = "rulesets" /\ Len(labels) < Len(res.rulesets)
  /\ LET rs == res.rulesets[Len(labels) + 1]
         label == IF Named THEN Label(LabelBase(rs)) ELSE rs.url.id
     IN /\ Pass(RulesetFault(rs, label), "rulesets")
        /\ labels' = Append(labels, label)
        /\ counts' = IF Named THEN Counted(LabelBase(rs)) ELSE counts
  /\ UNCHANGED <<input, blocks, printedRules>>

RuleRow(label, url, action) == [label |-> label, url |-> url, action |-> Action(action)]
RuleRows == [i \in DOMAIN labels |-> RuleRow(labels[i], res.rulesets[i].url.id, res.rulesets[i].action)]
            \o [i \in DOMAIN res.rules |-> RuleRow(<<>>, <<>>, res.rules[i].action)]

RuleFault(r) == IF r.action \in Builtin THEN Fine ELSE PolicyFault(r.action)

PrintRules ==
  /\ stage = "rulesets" /\ Len(labels) = Len(res.rulesets)
  /\ LET code == FirstFault([i \in DOMAIN res.rules |-> RuleFault(res.rules[i])])
     IN /\ Pass(code, "done")
        /\ printedRules' = IF code = Fine THEN RuleRows ELSE <<>>
  /\ UNCHANGED <<input, blocks, counts, labels>>

Finished == stage \in {"done", "failed"} /\ UNCHANGED vars

Next ==
  \/ Validate \/ PrintProxies \/ PrintGroups \/ NameRuleset \/ PrintRules \/ Finished

Spec == Init /\ [][Next]_vars
=============================================================================
