---------------------------- MODULE ResourceProps ----------------------------
(* What is checked of Resource. *)
EXTENDS Resource

\* One call: it follows at most MaxRedirects redirects, reads at most one unit
\* more than it may keep, and hands its text to one reader and only when it is
\* complete.
TypeOK ==
  /\ call \in {"check", "request", "read", "over", "used"} /\ verdict \in Codes \cup {"none", "OK"}
  /\ (call \in {"over", "used"}) = (verdict # "none") /\ (call = "used" => verdict = "OK")
  /\ via \in 0..MaxRedirects /\ got \in 0..(Limit + 1)
  /\ step # "none" => call = "used" /\ world.kind = "template"
  /\ lineStep # "none" => call = "used" /\ world.kind = "subscription"

-----------------------------------------------------------------------------
(* The call. *)

\* What the world comes to if nothing interrupts the call, written without its
\* steps: the first redirect that is not followed, else the answer, else the
\* body, whose size is judged before its end and its end before its encoding.
\* "none" is a call that only a time-out ends.
Stops == {i \in DOMAIN world.hops : i > MaxRedirects \/ world.hops[i] # "http"}
FirstStop == CHOOSE i \in Stops : \A j \in Stops : i <= j
RedirectsCome ==
  IF FirstStop <= MaxRedirects /\ world.hops[FirstStop] # "unparsable"
  THEN "INVALID_ARGUMENT" ELSE "FETCH_FAILED"
BodyComes ==
  IF world.size > Limit THEN "TOO_LARGE"
  ELSE IF world.ending = "broken" THEN "FETCH_FAILED"
  ELSE IF world.ending = "hangs" THEN "none"
  ELSE IF world.utf8 THEN "OK" ELSE "FETCH_INVALID_UTF8"
WorldComes ==
  IF world.scheme # "http" THEN "INVALID_ARGUMENT"
  ELSE IF Stops # {} THEN RedirectsCome
  ELSE IF world.reply \in {"status", "refused"} THEN "FETCH_FAILED"
  ELSE IF world.reply = "hangs" THEN "none" ELSE BodyComes

\* The verdict is that of the world; the timer and the context can only turn
\* it into a time-out, and a cancelled context into a failure (the branches
\* behind client.Do and io.ReadAll).  A text is never cut: OK means all of it.
FetchIsExact == call = "over" =>
  /\ verdict \in {WorldComes} \cup {"FETCH_TIMEOUT", "FETCH_FAILED"}
  /\ verdict = "FETCH_TIMEOUT" => timer \/ ctx = "expired"
  /\ verdict = "FETCH_FAILED" /\ WorldComes # "FETCH_FAILED" => ctx = "cancelled"
  /\ verdict = "OK" => got = world.size /\ got <= Limit

\* Every call comes to an end and every text is read through, although an
\* upstream may never answer and a body never end: that is what the client's
\* timer is for (fetch.Options.Timeout).
EveryResourceEnds == <>Finished

-----------------------------------------------------------------------------
(* The subscription. *)

NodeLines == {i \in DOMAIN list : ~Skipped(list[i])}
IsNode(l) == l.kind \in {"uri", "rocket", "surge"}

\* The checks of normalizeSubscriptionProxy (internal/compiler/compile.go),
\* which expects nothing less from the parser.
Usable(n) ==
  /\ n.host # "" /\ n.port \in 1..MaxPort
  /\ n.method # "" /\ n.password # "" /\ n.name # "control"

\* What a line says of a key: the last of its fields counts.
Said(l, key) ==
  LET says == {i \in DOMAIN l.fields : l.fields[i].key = key} IN
  IF says = {} THEN "" ELSE l.fields[CHOOSE i \in says : \A j \in says : j <= i].value

\* What is read from a line is what the line says.
ReadFrom(n, l) ==
  /\ IsNode(l) /\ Usable(n) /\ n.host = l.host /\ n.port = l.port
  /\ l.kind # "uri" =>
       /\ n.method = Said(l, "method") /\ n.password = Said(l, "password")
       /\ n.plugin = <<>> <=> Said(l, "obfs") = ""

\* A subscription is read completely or not at all: as many usable nodes as
\* there are lines that are neither blank nor comments, in their order, or the
\* first line that is not one and no node (SPEC_SUBSCRIPTION_SS 3.1 and 5); and
\* a list is not taken for base64 as long as it begins with a node.
SubscriptionIsRead == lineStep = "done" =>
  /\ lineFault = NoFault =>
       /\ Len(nodes) = Cardinality(NodeLines) /\ nodes # <<>>
       /\ \A i \in NodeLines : ReadFrom(nodes[Cardinality({j \in NodeLines : j <= i})], list[i])
  /\ lineFault # NoFault => nodes = <<>>
  /\ badLine # 0 =>
       /\ badLine \in NodeLines
       /\ \A i \in NodeLines : i < badLine => IsNode(list[i])
       /\ (lineFault = "SUB_UNSUPPORTED_SCHEME") => ~IsNode(list[badLine])
  /\ lineFault = "SUB_BASE64_DECODE_ERROR" =>
       LET written == {i \in DOMAIN source.lines : ~Skipped(source.lines[i])} IN
       written # {} =>
         source.encoding = "broken" \/ ~IsNode(source.lines[CHOOSE i \in written : \A j \in written : i <= j])

-----------------------------------------------------------------------------
(* The template. *)

Places(a) == {i \in DOMAIN text.lines : text.lines[i].kind = "anchor" /\ text.lines[i].tag = a}
AnchorLines == UNION {Places(a) : a \in Anchors}
Needed ==
  {"PROXIES", "GROUPS", "RULES"} \cup (CASE target = "clash" -> {"RULE_PROVIDERS"}
                                         [] target = "quanx" -> {"RULESETS"}
                                         [] OTHER -> {})

Headers(i) == {h \in 1..(i - 1) : text.lines[h].kind = "header"}
InSection(i, name) ==
  \E h \in Headers(i) : text.lines[h].tag = name /\ \A g \in Headers(i) : g <= h

\* SPEC_TEMPLATE_ANCHORS: the sections in which a target wants its anchors.
SectionsOf ==
  CASE target = "quanx" -> [PROXIES |-> "server_local", GROUPS |-> "policy",
                            RULESETS |-> "filter_remote", RULES |-> "filter_local"]
    [] target \in {"surge", "shadowrocket"} -> [PROXIES |-> "proxy", GROUPS |-> "proxy group", RULES |-> "rule"]
    [] target = "clash" -> <<>>
WellPlaced(i) ==
  /\ text.lines[i].tag \in Needed
  /\ IF target = "clash" THEN text.lines[i].indent ELSE InSection(i, SectionsOf[text.lines[i].tag])

Legal ==
  /\ \A i \in DOMAIN text.lines : text.lines[i].kind # "glued"
  /\ \A a \in Needed : Cardinality(Places(a)) = 1
  /\ \A i \in AnchorLines : WellPlaced(i)

\* Where line i is in the output: every line of a block but its first, or none if
\* it is empty, moves the lines behind its anchor by one.
MovedBy(j) == {j} \X (2..Len(blocks[text.lines[j].tag]))
Shift(i) == Cardinality(UNION {MovedBy(j) : j \in {l \in AnchorLines : l < i}})

\* The newline that most lines of the template end with.
Majority == IF text.newline \in {"lf", "mostly_lf"} THEN "lf" ELSE "crlf"

\* A template is used exactly if every anchor its target needs is there once,
\* alone on its line and in its place, and a refusal says what is wrong.  The
\* output is the template, line for line and in order, but for the anchors,
\* which are their blocks with the indentation of the anchor; its newlines are
\* the template's, or CRLF if CRLF prevails (NewlineFollowsTemplate has the rest).
TemplateIsInjected == step \in {"managed", "done"} /\ text.lines # <<Blank>> =>
  /\ page # NoPage <=> Legal
  /\ ~Legal =>
       /\ (refusal = "TEMPLATE_ANCHOR_MISSING") => \E a \in Needed : Places(a) = {}
       /\ (refusal = "TEMPLATE_ANCHOR_DUP") => \E a \in Needed : Cardinality(Places(a)) > 1
       /\ (refusal = "TEMPLATE_SECTION_ERROR") =>
            \/ \E i \in DOMAIN text.lines : text.lines[i].kind = "glued"
            \/ \E i \in AnchorLines : ~WellPlaced(i)
       /\ refusal # NoRefusal
  /\ Legal /\ step = "done" /\ target # "surge" => refusal = NoRefusal
  /\ Legal /\ (step = "managed" \/ target # "surge") =>
       /\ text.newline # "mostly_lf" => page.newline = Majority
       /\ \A i \in DOMAIN text.lines \ AnchorLines : page.lines[i + Shift(i)] = text.lines[i]
       /\ \A i \in AnchorLines : \A k \in DOMAIN blocks[text.lines[i].tag] :
            page.lines[i + Shift(i) + k - 1] =
              [blocks[text.lines[i].tag][k] EXCEPT !.indent = @ \/ text.lines[i].indent]
       /\ Len(page.lines) \in {Len(text.lines) + Shift(Len(text.lines) + 1)} \cup
            (IF Last(text.lines).kind = "anchor" THEN {Len(text.lines) + Shift(Len(text.lines) + 1) - 1} ELSE {})

\* The output uses CRLF if the template mainly does, and LF otherwise
\* (SPEC_TEMPLATE_ANCHORS 2, item 4).
NewlineFollowsTemplate == step = "done" /\ page # NoPage => page.newline = Majority

\* The output for Surge begins with the line that lets Surge update itself: its
\* URL is the one of this request, its parameters are the template's, and
\* updating the output again changes nothing.  It is refused only if the
\* template has a managed line that cannot be it, or a block has one: the
\* output is searched for the line, not the template (EnsureSurgeManagedConfig).
ManagedIn(lines) == {i \in DOMAIN lines : lines[i].kind = "managed"}
Leads(lines, i) == \A j \in 1..(i - 1) : lines[j].kind = "blank"
ManagedLineLeads == step = "done" /\ target = "surge" /\ text.lines # <<Blank>> /\ Legal =>
  IF refusal = NoRefusal
  THEN \E i \in ManagedIn(page.lines) :
         /\ ManagedIn(page.lines) = {i} /\ Leads(page.lines, i) /\ page.lines[i].url = "mine"
         /\ page.lines[i].tag = IF ManagedIn(text.lines) = {} THEN "interval=86400"
                                ELSE text.lines[CHOOSE j \in ManagedIn(text.lines) : TRUE].tag
         /\ WithManaged(page.lines) = page.lines
  ELSE \/ \E a \in Anchors : ManagedIn(blocks[a]) # {}
       \/ \E i \in ManagedIn(text.lines) : ~Leads(text.lines, i) \/ text.lines[i].url = "missing"
=============================================================================
