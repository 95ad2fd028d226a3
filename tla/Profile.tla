------------------------------- MODULE Profile -------------------------------
(***************************************************************************)
(* ParseProfileYAML (internal/profile): what a profile says and which      *)
(* profiles it refuses.  A profile is a record                             *)
(*   yaml     : one YAML document with no field that is unknown            *)
(*   version, template (a function from target to URL), base               *)
(*   customs  : Seq([name, type, server, port, username, password, cipher, *)
(*              plugin])                                                   *)
(*   groups   : Seq([name, type, members, regex, url, interval,            *)
(*              tolerance]), members # <<>> for the list form of select    *)
(*   chains   : Seq([proxy, type, regex, group])                           *)
(*   rulesets : Seq([action, url]),  rules : Seq(line of module Rules)     *)
(* Values are trimmed: "" or <<>> is a blank one; "control" and "comma"    *)
(* are values with such a character.  Blank entries of groups and rulesets *)
(* are skipped, so there are none.  The checks run in the order of the     *)
(* code and the first one that fails gives the error code.                 *)
(***************************************************************************)
EXTENDS Rules, FiniteSets

GroupNames(p) == {p.groups[i].name : i \in DOMAIN p.groups}
CustomNames(p) == {p.customs[i].name : i \in DOMAIN p.customs}

\* A name no directive may have.
Unnamed == {<<>>, <<"control">>}
LegalUrl(url) == url \notin {"", "illegal"}
Compiles(regex) == regex \notin {"", "("}

AllowedTargets == {"clash", "shadowrocket", "surge", "quanx"}
DocumentFault(p, target) ==
  IF ~p.yaml THEN "PROFILE_PARSE_ERROR"
  ELSE IF \/ p.version # 1 \/ target \notin DOMAIN p.template
          \/ \E t \in DOMAIN p.template : t \notin AllowedTargets \/ ~LegalUrl(p.template[t])
          \/ p.base \in {"illegal", "query"}
  THEN "PROFILE_VALIDATE_ERROR" ELSE Fine

\* parseCustomProxy: a Shadowsocks proxy has no user, the others have nothing
\* of Shadowsocks and a password if they have a user; Surge has no quotes.
HttpTypes == {"http", "https", "socks5", "socks5-tls"}
Ports == 1..65535
SsOk(c) == c.type = "ss" /\ c.username = "" /\ c.cipher # "" /\ c.password # ""
HttpOk(c, target) ==
  /\ c.type \in HttpTypes /\ c.cipher = "" /\ c.plugin = ""
  /\ c.username = "" <=> c.password = ""
  /\ target = "surge" => {c.username, c.password} \cap {"comma", "control"} = {}
CustomOk(c, target) ==
  /\ c.name \notin Unnamed \cup Builtin
  /\ c.server # "" /\ c.port \in Ports
  /\ SsOk(c) \/ HttpOk(c, target)

CustomFault(p, target, i) ==
  IF ~CustomOk(p.customs[i], target) \/ (\E j \in 1..(i-1) : p.customs[j].name = p.customs[i].name)
  THEN "CUSTOM_PROXY_VALIDATE_ERROR" ELSE Fine

\* parseGroupDirective: a list or an expression for select; an expression, a
\* URL and an interval for url-test.
SelectOk(g) == IF g.members = <<>> THEN Compiles(g.regex) ELSE <<>> \notin ToSet(g.members)
UrlTestOk(g) == Compiles(g.regex) /\ LegalUrl(g.url) /\ g.interval > 0 /\ g.tolerance >= 0
GroupFault(g) ==
  IF g.name \in Unnamed \/ g.type = "" THEN "GROUP_PARSE_ERROR"
  ELSE IF g.type \notin {"select", "url-test"} THEN "GROUP_UNSUPPORTED_TYPE"
  ELSE IF (g.type = "select" /\ ~SelectOk(g)) \/ (g.type = "url-test" /\ ~UrlTestOk(g))
  THEN "GROUP_PARSE_ERROR" ELSE Fine

GroupNameFault(p, i) ==
  LET g == p.groups[i] IN
  IF g.name \in Builtin \/ HasAutoPrefix(g.name) \/ (\E j \in 1..(i-1) : p.groups[j].name = g.name)
  THEN "PROFILE_VALIDATE_ERROR"
  ELSE IF g.name \in CustomNames(p) THEN "CUSTOM_PROXY_VALIDATE_ERROR" ELSE Fine

\* Only the member-list form of select names other groups.
MembersFault_Unchecked(p, g) == Fine
MembersFault(p, g) ==
  IF g.type = "select" /\ ~(ToSet(g.members) \subseteq GroupNames(p) \cup Builtin \cup {AllSubs})
  THEN "GROUP_PARSE_ERROR" ELSE Fine

\* parseChainSpec: what the type asks for and nothing else.
ChainOk(c) ==
  /\ c.proxy \notin Unnamed
  /\ \/ c.type = "all" /\ c.regex = "" /\ c.group = <<>>
     \/ c.type = "regex" /\ Compiles(c.regex) /\ c.group = <<>>
     \/ c.type = "group" /\ c.regex = "" /\ c.group # <<>>
ChainFault(p, c) ==
  IF ~ChainOk(c) THEN "CHAIN_PARSE_ERROR"
  ELSE IF c.proxy \notin CustomNames(p) THEN "CHAIN_PROXY_NOT_FOUND"
  ELSE IF c.type = "group" /\ c.group \notin GroupNames(p) THEN "CHAIN_GROUP_NOT_FOUND"
  ELSE Fine

RulesetFault(rs) == IF rs.action = <<>> \/ ~LegalUrl(rs.url) THEN "RULESET_PARSE_ERROR" ELSE Fine

\* The entries of "rule" that are not blank.
RuleLines(p) == Only(p.rules, ToSet(p.rules) \ {BlankLine})
InlineRules(p) == [i \in DOMAIN RuleLines(p) |-> InlineRule(RuleLines(p)[i])]
HasMatch(p) == \E line \in ToSet(RuleLines(p)) : line[1] = MatchType

\* The code a profile is refused with for a target, or Fine.
ProfileFault(p, target) == FirstFault(
     <<DocumentFault(p, target)>>
  \o [i \in DOMAIN p.customs |-> CustomFault(p, target, i)]
  \o [i \in DOMAIN p.groups |-> GroupFault(p.groups[i])]
  \o [i \in DOMAIN p.groups |-> GroupNameFault(p, i)]
  \o [i \in DOMAIN p.groups |-> MembersFault(p, p.groups[i])]
  \o [i \in DOMAIN p.chains |-> ChainFault(p, p.chains[i])]
  \o << IF p.chains # <<>> /\ target \notin {"clash", "surge"} THEN "UNSUPPORTED_TARGET_FEATURE" ELSE Fine >>
  \o [i \in DOMAIN p.rulesets |-> RulesetFault(p.rulesets[i])]
  \o [i \in DOMAIN RuleLines(p) |-> InlineRuleFault(RuleLines(p)[i])]
  \o << IF ~HasMatch(p) THEN "PROFILE_VALIDATE_ERROR" ELSE Fine >>)
=============================================================================
