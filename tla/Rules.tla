-------------------------------- MODULE Rules --------------------------------
(***************************************************************************)
(* ParseInlineRule (internal/rules): a rule of a profile.  A line is the   *)
(* sequence of its fields, split at the commas and trimmed, the type and   *)
(* "no-resolve" in one spelling; a field is a sequence of pieces like the  *)
(* names of groups it may hold, <<>> if it is blank.                       *)
(***************************************************************************)
EXTENDS Names

BlankLine == << <<>> >>
Comment == <<"#">>

SimpleTypes == {<<t>> : t \in {"DOMAIN", "DOMAIN-SUFFIX", "DOMAIN-KEYWORD", "GEOIP", "PROCESS-NAME", "URL-REGEX"}}
CidrTypes == {<<"IP-CIDR">>, <<"IP-CIDR6">>}
MatchType == <<"MATCH">>
NoResolve == <<"no-resolve">>

\* What net.ParseCIDR takes for a network of the family: an IPv4 network that
\* is written as an IPv6 one is an IPv4 network.
OfFamily(type, cidr) == cidr \in IF type = <<"IP-CIDR">> THEN {<<"v4">>, <<"v4 in v6">>} ELSE {<<"v6">>}

SimpleOk(line) == Len(line) = 3 /\ line[2] # <<>> /\ line[3] # <<>>

\* The option is the fourth field; as the third it would be taken for the
\* action, so there it is refused.
CidrOk_AnyAction(line) ==
  /\ Len(line) \in {3, 4} /\ line[3] # <<>>
  /\ Len(line) = 4 => line[4] = NoResolve
  /\ OfFamily(line[1], line[2])
CidrOk(line) ==
  /\ Len(line) \in {3, 4} /\ line[3] # <<>>
  /\ Len(line) = 3 => line[3] # NoResolve
  /\ Len(line) = 4 => line[4] = NoResolve
  /\ OfFamily(line[1], line[2])

MatchOk(line) == Len(line) = 2 /\ line[2] # <<>>

\* The code a line is refused with, "" if it is not.
InlineRuleFault(line) ==
  IF line[1] \in {<<>>, Comment} THEN "RULE_PARSE_ERROR"
  ELSE IF line[1] \notin SimpleTypes \cup CidrTypes \cup {MatchType} THEN "UNSUPPORTED_RULE_TYPE"
  ELSE IF \/ line[1] \in SimpleTypes /\ SimpleOk(line)
          \/ line[1] \in CidrTypes /\ CidrOk(line)
          \/ line[1] = MatchType /\ MatchOk(line)
  THEN "" ELSE "RULE_PARSE_ERROR"

\* The rule of a line that is not refused.
InlineRule(line) ==
  [type |-> line[1][1],
   value |-> IF line[1] = MatchType THEN <<>> ELSE line[2],
   action |-> IF line[1] = MatchType THEN line[2] ELSE line[3],
   noResolve |-> line[1] \in CidrTypes /\ Len(line) = 4]

\* ruleToClashString (internal/render): the line Clash gets.
RuleLine(r) ==
  IF r.type = "MATCH" THEN <<MatchType, r.action>>
  ELSE <<<<r.type>>, r.value, r.action>> \o (IF r.noResolve THEN <<NoResolve>> ELSE <<>>)
=============================================================================
