------------------------------ MODULE SubText ------------------------------
(***************************************************************************)
(* ParseSubscriptionText (internal/sub/ss/parse.go): is the text a list or *)
(* the base64 of a list, and then line by line, the first bad line being   *)
(* the error of the whole text.                                            *)
(*                                                                         *)
(* A text is [encoding, lines]: "none" for a list as it is, one of the     *)
(* four base64 encodings, or "broken" for base64 of something that is not  *)
(* text.  A line is                                                        *)
(*   "blank", "comment"  with `mentions`: whether ss:// occurs in it       *)
(*   "uri"     ss://...: fragment, query parameters, credentials, host     *)
(*   "rocket"  <name>=ss, ...        "surge"  shadowsocks = ...            *)
(*   "other"   anything else; `left` is what stands before its "="         *)
(* No line of a list is in the base64 alphabets: each has a comma, colon   *)
(* or sign that is not.  A value is "" (blank), "unterminated" (quoted in  *)
(* a way that is refused), "control" (with CR, LF or NUL), or any other    *)
(* text; a port is a number, -1 if it is none.                             *)
(***************************************************************************)
EXTENDS Integers, FiniteSets, Lists

VARIABLES
  source,   \* the text of the subscription
  lineStep, \* "none", "list", "done"
  list,     \* the lines that are parsed
  lineNo,   \* the line the loop is at
  nodes,    \* the nodes found so far
  badLine,  \* the line of the error, 0 if it is about the text
  lineFault \* the code of the error

subVars == <<source, lineStep, list, lineNo, nodes, badLine, lineFault>>

NoFault == "none"
NoText == [encoding |-> "none", lines |-> <<>>]

SubInit ==
  /\ source = NoText /\ lineStep = "none" /\ list = <<>> /\ lineNo = 1
  /\ nodes = <<>> /\ badLine = 0 /\ lineFault = NoFault

MaxPort == 65535
PortOk(port) == port \in 1..MaxPort

-----------------------------------------------------------------------------
(* One line. *)

\* The fields of a rocket or surge line, each [key, value]; the last one of a
\* key counts, unknown keys are ignored, "bare" is a field without "=".
FieldOf(fields, key) ==
  LET i == SelectLastInSeq(fields, LAMBDA f : f.key = key) IN IF i = 0 THEN "" ELSE fields[i].value
FieldsOk(fields) ==
  /\ \A i \in DOMAIN fields : fields[i].key # "bare" /\ fields[i].value # "unterminated"
  /\ FieldOf(fields, "method") # "" /\ FieldOf(fields, "password") # ""

\* A blank obfs means no plugin, and its host is dropped with it.
ObfsOf(fields) ==
  IF FieldOf(fields, "obfs") = "" THEN <<>>
  ELSE <<"simple-obfs", FieldOf(fields, "obfs")>> \o
       (IF FieldOf(fields, "obfs-host") = "" THEN <<>> ELSE <<FieldOf(fields, "obfs-host")>>)

RocketOk(l) == l.name # "control" /\ PortOk(l.port) /\ FieldsOk(l.fields)
SurgeOk(l) ==
  /\ l.host # "" /\ PortOk(l.port)
  /\ FieldsOk(l.fields) /\ FieldOf(l.fields, "tag") # "control"

\* parseQueryPlugin: at most one parameter, and it is plugin; its options are
\* key=value with a key.
PluginOk(p) ==
  /\ p.key = "plugin" /\ p.value # ""
  /\ \A i \in DOMAIN p.opts : p.opts[i] \notin {"bare", "no_key"}
QueryOk(query) == Len(query) <= 1 /\ \A i \in DOMAIN query : PluginOk(query[i])

\* decodeMethodPassword, and the same checks on the whole in form B.
CredentialsOk(l) == l.encoded /\ l.method \notin {"", "control"} /\ l.password \notin {"", "control"}

UriOk(l) ==
  /\ l.name \notin {"control", "bad_escape"}
  /\ QueryOk(l.query)
  /\ CredentialsOk(l)
  /\ l.form = "A" => l.path \in {"", "/"}
  /\ l.host # "" /\ PortOk(l.port)

Node(l) ==
  [host |-> l.host, port |-> l.port,
   name |-> IF l.kind = "surge" THEN FieldOf(l.fields, "tag") ELSE l.name,
   method |-> IF l.kind = "uri" THEN l.method ELSE FieldOf(l.fields, "method"),
   password |-> IF l.kind = "uri" THEN l.password ELSE FieldOf(l.fields, "password"),
   plugin |-> IF l.kind = "uri" THEN FlattenSeq([i \in DOMAIN l.query |-> <<l.query[i].value>> \o l.query[i].opts])
              ELSE ObfsOf(l.fields)]

\* The parsers are tried in this order; a control character before "=" is an
\* error of the Shadowrocket parser even if the line is not one of its lines.
LineFault(l) ==
  CASE l.kind = "uri" -> IF UriOk(l) THEN NoFault ELSE "SUB_PARSE_ERROR"
    [] l.kind = "rocket" -> IF RocketOk(l) THEN NoFault ELSE "SUB_PARSE_ERROR"
    [] l.kind = "surge" -> IF SurgeOk(l) THEN NoFault ELSE "SUB_PARSE_ERROR"
    [] l.kind = "other" -> IF l.left = "control" THEN "SUB_PARSE_ERROR" ELSE "SUB_UNSUPPORTED_SCHEME"

-----------------------------------------------------------------------------
(* The text. *)

Skipped(l) == l.kind \in {"blank", "comment"}
Mentions(l) == l.kind = "uri" \/ (l.kind \in {"comment", "other"} /\ l.mentions)

\* TrimSpace: no blank lines at either end.
Trimmed(lines) ==
  LET solid == {i \in DOMAIN lines : lines[i].kind # "blank"} IN
  IF solid = {} THEN <<>>
  ELSE SubSeq(lines, CHOOSE i \in solid : \A j \in solid : i <= j,
                     CHOOSE i \in solid : \A j \in solid : j <= i)

\* looksLikeRawList: ss:// anywhere, or a list by its first meaningful line.
LooksLikeRawList_UriOnly(lines) == \E i \in DOMAIN lines : lines[i].kind = "uri"
LooksLikeRawList(lines) ==
  \/ \E i \in DOMAIN lines : Mentions(lines[i])
  \/ LET i == SelectInSeq(lines, LAMBDA l : ~Skipped(l)) IN
     i # 0 /\ lines[i].kind \in {"rocket", "surge"}

\* The encodings decodeB64ToBytes tries; and a text as it may come.  Blank fields of a rocket line are dropped before its
\* host is looked for, so that it has one.
Encodings == {"std", "url", "rawstd", "rawurl"}
IsLine(l) ==
  /\ l.kind \in {"blank", "comment", "uri", "rocket", "surge", "other"}
  /\ l.kind \in {"rocket", "surge"} => IsList(l.fields)
  /\ l.kind = "rocket" => l.host # ""
IsText(t) ==
  /\ t.encoding \in Encodings \cup {"none", "broken"}
  /\ IsList(t.lines) /\ \A i \in DOMAIN t.lines : IsLine(t.lines[i])

Fail(code, line) == lineStep' = "done" /\ lineFault' = code /\ badLine' = line

\* Base64 has no line of a list in it, so an encoded text never looks like one.
OpenText(t) ==
  /\ lineStep = "none"
  /\ source' = t
  /\ LET lines == Trimmed(t.lines)
         readable == t.encoding \in Encodings \/ (t.encoding = "none" /\ LooksLikeRawList(lines))
     IN
     \/ /\ lines = <<>>
        /\ Fail("SUB_PARSE_ERROR", 0) /\ UNCHANGED list
     \/ /\ lines # <<>> /\ readable
        /\ list' = lines /\ lineStep' = "list" /\ UNCHANGED <<badLine, lineFault>>
     \/ /\ lines # <<>> /\ ~readable
        /\ Fail("SUB_BASE64_DECODE_ERROR", 0) /\ UNCHANGED list
  /\ UNCHANGED <<lineNo, nodes>>

SkipLine ==
  /\ lineStep = "list" /\ lineNo <= Len(list) /\ Skipped(list[lineNo])
  /\ lineNo' = lineNo + 1
  /\ UNCHANGED <<source, lineStep, list, nodes, badLine, lineFault>>

\* A good line is a node, a bad one ends the call without any.
ParseLine ==
  /\ lineStep = "list" /\ lineNo <= Len(list) /\ ~Skipped(list[lineNo])
  /\ IF LineFault(list[lineNo]) = NoFault
     THEN /\ nodes' = Append(nodes, Node(list[lineNo]))
          /\ lineNo' = lineNo + 1 /\ UNCHANGED <<lineStep, badLine, lineFault>>
     ELSE Fail(LineFault(list[lineNo]), lineNo) /\ nodes' = <<>> /\ UNCHANGED lineNo
  /\ UNCHANGED <<source, list>>

EndList ==
  /\ lineStep = "list" /\ lineNo > Len(list)
  /\ IF nodes = <<>> THEN Fail("SUB_PARSE_ERROR", 0)
     ELSE lineStep' = "done" /\ UNCHANGED <<badLine, lineFault>>
  /\ UNCHANGED <<source, list, lineNo, nodes>>

SubStep == SkipLine \/ ParseLine \/ EndList
=============================================================================
