------------------------------ MODULE Template ------------------------------
(***************************************************************************)
(* What becomes of a template: findAndValidateAnchors line by line, the    *)
(* replacement of the anchor lines by the rendered blocks (InjectAnchors), *)
(* and the managed-config line of Surge (EnsureSurgeManagedConfig).        *)
(*                                                                         *)
(* A line is what these functions can tell of it:                          *)
(*   kind    "anchor"   an anchor alone on its line                        *)
(*           "glued"    a line with an anchor and something else           *)
(*           "header"   [section], already in lower case                   *)
(*           "managed"  a line that starts with #!MANAGED-CONFIG           *)
(*           "blank", "plain"                                              *)
(*   tag     which anchor, section, or content                             *)
(*   indent  whether it starts with white space                            *)
(*   url     of a managed line: the first token behind the prefix, "mine"  *)
(*           if it is that of this request, "missing" if there is none     *)
(* A text that ends with a newline has an empty last line (strings.Split). *)
(***************************************************************************)
EXTENDS FiniteSets, Lists

Anchors == {"PROXIES", "GROUPS", "RULESETS", "RULE_PROVIDERS", "RULES"}

Line(kind, tag) == [kind |-> kind, tag |-> tag, indent |-> FALSE, url |-> "none"]
Blank == Line("blank", "")
Managed(url, params) == [Line("managed", params) EXCEPT !.url = url]
Indented(line) == [line EXCEPT !.indent = TRUE]

\* A template, and blocks as the renderers print them: without blank lines.
Lines ==
  [kind : {"anchor", "glued", "header", "managed", "blank", "plain"}, tag : STRING, indent : BOOLEAN, url : STRING]
IsTemplate(t) ==
  /\ IsList(t.lines)
  /\ \A i \in DOMAIN t.lines : t.lines[i] \in Lines /\ (t.lines[i].kind = "anchor" => t.lines[i].tag \in Anchors)
AreBlocks(b) ==
  \A a \in Anchors : IsList(b[a]) /\ \A k \in DOMAIN b[a] : b[a][k] \in Lines /\ b[a][k].kind # "blank"

VARIABLES
  text,     \* the template: its lines, its newlines ("lf", "crlf", or both:
            \* "mostly_lf", "mostly_crlf")
  target,   \* "clash", "shadowrocket", "surge", "quanx"
  blocks,   \* the rendered lines for each anchor
  step,     \* "none", "scan", "judge", "inject", "managed", "done"
  at,       \* the line findAndValidateAnchors looks at
  section,  \* the section it is in
  count,    \* how often each anchor was found
  pos,      \* where it was found last (0: nowhere)
  page,     \* the output
  refusal   \* the code of the error

templateVars == <<text, target, blocks, step, at, section, count, pos, page, refusal>>

NoRefusal == "none"
NoPage == [lines |-> <<>>, newline |-> "lf"]

TemplateInit ==
  /\ text = NoPage /\ target = "clash" /\ blocks = [a \in Anchors |-> <<>>]
  /\ step = "none" /\ at = 1 /\ section = ""
  /\ count = [a \in Anchors |-> 0] /\ pos = [a \in Anchors |-> 0]
  /\ page = NoPage /\ refusal = NoRefusal

\* A template has been fetched for a target; an empty one is refused.
Open(t, k, b) ==
  /\ step = "none"
  /\ text' = t /\ target' = k /\ blocks' = b
  /\ IF t.lines = <<Blank>>
     THEN step' = "done" /\ refusal' = "INVALID_ARGUMENT"
     ELSE step' = "scan" /\ UNCHANGED refusal
  /\ UNCHANGED <<at, section, count, pos, page>>

Refuse(code) == step' = "done" /\ refusal' = code
Turn(next) == step' = next /\ UNCHANGED refusal

SurgeLike == target \in {"surge", "shadowrocket"}

\* The section an anchor has to be in; for Clash there are none.
SectionOf(a) ==
  CASE SurgeLike /\ a = "PROXIES" -> "proxy"
    [] SurgeLike /\ a = "GROUPS" -> "proxy group"
    [] SurgeLike /\ a = "RULES" -> "rule"
    [] target = "quanx" /\ a = "PROXIES" -> "server_local"
    [] target = "quanx" /\ a = "GROUPS" -> "policy"
    [] target = "quanx" /\ a = "RULESETS" -> "filter_remote"
    [] target = "quanx" /\ a = "RULES" -> "filter_local"
    [] OTHER -> section

\* Only Clash has rule providers, only Quantumult X has remote filters.
Foreign(a) ==
  \/ a = "RULE_PROVIDERS" /\ target # "clash"
  \/ a = "RULESETS" /\ target # "quanx"

Misplaced_Foreign(a) == Foreign(a)
Misplaced(a) == Foreign(a) \/ section # SectionOf(a)

ScanHeader ==
  /\ step = "scan" /\ at <= Len(text.lines) /\ text.lines[at].kind = "header"
  /\ section' = text.lines[at].tag
  /\ at' = at + 1
  /\ UNCHANGED <<text, target, blocks, step, count, pos, page, refusal>>

ScanAnchor ==
  /\ step = "scan" /\ at <= Len(text.lines) /\ text.lines[at].kind = "anchor"
  /\ LET a == text.lines[at].tag IN
     /\ count' = [count EXCEPT ![a] = @ + 1]
     /\ pos' = [pos EXCEPT ![a] = at]
     /\ IF Misplaced(a) THEN Refuse("TEMPLATE_SECTION_ERROR") /\ UNCHANGED at
        ELSE at' = at + 1 /\ UNCHANGED <<step, refusal>>
  /\ UNCHANGED <<text, target, blocks, section, page>>

\* An anchor that is not alone on its line ends the scan.
ScanOther ==
  /\ step = "scan" /\ at <= Len(text.lines)
  /\ text.lines[at].kind \notin {"header", "anchor"}
  /\ IF text.lines[at].kind = "glued"
     THEN Refuse("TEMPLATE_SECTION_ERROR") /\ UNCHANGED at
     ELSE at' = at + 1 /\ UNCHANGED <<step, refusal>>
  /\ UNCHANGED <<text, target, blocks, section, count, pos, page>>

EndScan ==
  /\ step = "scan" /\ at > Len(text.lines)
  /\ Turn("judge")
  /\ UNCHANGED <<text, target, blocks, at, section, count, pos, page>>

\* The counts, the indentation of Clash, and last the anchor of Quantumult X.
Wanted == {"PROXIES", "GROUPS", "RULES"} \cup (IF target = "clash" THEN {"RULE_PROVIDERS"} ELSE {})
AnchorFault ==
  IF \E a \in Wanted : count[a] = 0 THEN "TEMPLATE_ANCHOR_MISSING"
  ELSE IF \E a \in Anchors : count[a] > 1 THEN "TEMPLATE_ANCHOR_DUP"
  ELSE IF target = "clash" /\ \E a \in Wanted : ~text.lines[pos[a]].indent THEN "TEMPLATE_SECTION_ERROR"
  ELSE IF target = "quanx" /\ count["RULESETS"] = 0 THEN "TEMPLATE_ANCHOR_MISSING"
  ELSE NoRefusal
Judge ==
  /\ step = "judge"
  /\ IF AnchorFault = NoRefusal THEN Turn("inject") ELSE Refuse(AnchorFault)
  /\ UNCHANGED <<text, target, blocks, at, section, count, pos, page>>

\* indentBlock: every line of the block with the indentation of the anchor; an
\* empty block leaves an empty line.
IndentBlock(anchorLine, block) ==
  IF block = <<>> THEN <<Blank>>
  ELSE [i \in DOMAIN block |-> IF anchorLine.indent THEN Indented(block[i]) ELSE block[i]]

\* A text without a final newline gets none; a single CRLF makes all of them CRLF
\* (detectNewline).
EndsWithNewline(lines) == Len(lines) > 1 /\ Last(lines) = Blank
TrimFinal(lines, kept) == IF ~kept /\ EndsWithNewline(lines) THEN Front(lines) ELSE lines
NewlineOf(t) == IF t.newline = "lf" THEN "lf" ELSE "crlf"

Becomes(i) ==
  IF \E a \in Anchors : pos[a] = i
  THEN IndentBlock(text.lines[i], blocks[text.lines[i].tag])
  ELSE <<text.lines[i]>>
Injected ==
  LET lines == FlattenSeq([i \in DOMAIN text.lines |-> Becomes(i)])
  IN [lines |-> TrimFinal(lines, EndsWithNewline(text.lines)), newline |-> NewlineOf(text)]
Inject ==
  /\ step = "inject"
  /\ page' = Injected
  /\ Turn(IF target = "surge" THEN "managed" ELSE "done")
  /\ UNCHANGED <<text, target, blocks, at, section, count, pos>>

\* EnsureSurgeManagedConfig, which reads the output and not the template.
IsManaged(line) == line.kind = "managed"
FirstNonBlank(lines) == SelectInSeq(lines, LAMBDA l : l.kind # "blank")
ManagedLines(lines) == {i \in DOMAIN lines : IsManaged(lines[i])}

Ambiguous(lines) ==
  \/ Cardinality(ManagedLines(lines)) > 1
  \/ \E i \in ManagedLines(lines) : i # FirstNonBlank(lines) \/ lines[i].url = "missing"

\* rewriteManagedConfigURL keeps the parameters; the default line goes on top.
WithManaged_NoParams(lines) ==
  IF ManagedLines(lines) = {}
  THEN <<Managed("mine", "interval=86400")>> \o lines
  ELSE [lines EXCEPT ![FirstNonBlank(lines)] = Managed("mine", "interval=86400")]
WithManaged(lines) ==
  IF ManagedLines(lines) = {}
  THEN <<Managed("mine", "interval=86400")>> \o lines
  ELSE [lines EXCEPT ![FirstNonBlank(lines)].url = "mine"]

EnsureManaged ==
  /\ step = "managed"
  /\ IF Ambiguous(page.lines)
     THEN Refuse("TEMPLATE_SECTION_ERROR") /\ UNCHANGED page
     ELSE /\ page' = [page EXCEPT !.lines =
                        TrimFinal(WithManaged(@), EndsWithNewline(@))]
          /\ Turn("done")
  /\ UNCHANGED <<text, target, blocks, at, section, count, pos>>

TemplateStep ==
  ScanHeader \/ ScanAnchor \/ ScanOther \/ EndScan \/ Judge \/ Inject \/ EnsureManaged
=============================================================================
