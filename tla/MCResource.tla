----------------------------- MODULE MCResource ------------------------------
(* The worlds TLC checks Resource in. *)
EXTENDS ResourceProps

Two == 2
Bytes == [profile |-> 2, subscription |-> 2, template |-> 2]

-----------------------------------------------------------------------------
(* Upstreams that fail, and upstreams that just answer. *)

World(kind, scheme, hops, reply, size, ending, utf8) ==
  [kind |-> kind, scheme |-> scheme, hops |-> hops, reply |-> reply, size |-> size,
   ending |-> ending, utf8 |-> utf8, text |-> NoText]
Hops == {<<>>} \cup {[i \in 1..n |-> IF i = n THEN last ELSE "http"] :
                     n \in 1..(Two + 2), last \in {"http", "ftp", "unparsable"}}
FaultWorlds ==
  {World("profile", s, <<>>, "ok", 1, "eof", TRUE) : s \in {"http", "file"}} \cup
  {World("profile", "http", h, r, 1, "eof", TRUE) : h \in Hops, r \in {"ok", "status", "refused", "hangs"}} \cup
  {World("profile", "http", h, "ok", n, e, u) :
     h \in {<<>>, <<"http", "http">>}, n \in 0..4, e \in {"eof", "broken", "hangs"}, u \in BOOLEAN}

Serves(kind, t) == [World(kind, "http", <<>>, "ok", 1, "eof", TRUE) EXCEPT !.text = t]

-----------------------------------------------------------------------------
(* Subscriptions. *)

Uri == [kind |-> "uri", name |-> "n", query |-> <<>>, encoded |-> TRUE, method |-> "m", password |-> "p",
        form |-> "A", path |-> "", host |-> "h", port |-> 1]
F(k, v) == [key |-> k, value |-> v]
Good == <<F("method", "m"), F("password", "p")>>
Rocket == [kind |-> "rocket", name |-> "n", host |-> "h", port |-> 65535, fields |-> Good]
Surge == [kind |-> "surge", host |-> "h", port |-> 1, fields |-> Good]
Other(left, mentions) == [kind |-> "other", left |-> left, mentions |-> mentions]
Comment(mentions) == [kind |-> "comment", mentions |-> mentions]
BlankLine == [kind |-> "blank"]

Plugin(value, opts) == [key |-> "plugin", value |-> value, opts |-> opts]
Uris ==
  {[Uri EXCEPT !.name = n, !.query = q] : n \in {"n", "", "control", "bad_escape"},
     q \in {<<>>, <<Plugin("x", <<"o">>)>>, <<Plugin("x", <<>>), Plugin("x", <<>>)>>, <<Plugin("", <<>>)>>,
            <<Plugin("x", <<"o", "bare">>)>>, <<Plugin("x", <<"no_key">>)>>, <<[Plugin("x", <<>>) EXCEPT !.key = "tfo"]>>}}
  \cup {[Uri EXCEPT !.encoded = e, !.method = m, !.password = p, !.form = f] :
          e \in BOOLEAN, m \in {"m", "", "control"}, p \in {"p", "", "control"}, f \in {"A", "B"}}
  \cup {[Uri EXCEPT !.form = f, !.path = d, !.host = h, !.port = p] :
          f \in {"A", "B"}, d \in {"", "/", "/x"}, h \in {"h", ""}, p \in {-1, 0, 1, 65535, 65536}}
FieldLists == {<<>>, Good, <<F("password", "p")>>, <<F("method", "m")>>, Good \o <<F("bare", "")>>,
  Good \o <<F("tfo", "true")>>, Good \o <<F("tfo", "unterminated")>>,
  Good \o <<F("password", "")>>, <<F("password", "")>> \o Good, Good \o <<F("method", "m2")>>,
  Good \o <<F("tag", "t")>>, Good \o <<F("tag", "control"), F("tag", "t")>>, Good \o <<F("tag", "t"), F("tag", "control")>>,
  Good \o <<F("obfs-host", "o")>>, Good \o <<F("obfs", "tls")>>, Good \o <<F("obfs", ""), F("obfs-host", "o")>>,
  Good \o <<F("obfs-host", "o"), F("obfs", "tls")>>, Good \o <<F("password", "control")>>}
KeyValues ==
  {[Rocket EXCEPT !.name = n, !.fields = fs] : n \in {"n", "", "control"}, fs \in FieldLists}
  \cup {[Surge EXCEPT !.host = h, !.fields = fs] : h \in {"h", ""}, fs \in FieldLists}
  \cup {[l EXCEPT !.port = p] : l \in {Rocket, Surge}, p \in {-1, 0, 65535, 65536}}

SubLines == {Uri, Rocket, [Surge EXCEPT !.host = "h2"], [Uri EXCEPT !.port = 0], [Rocket EXCEPT !.fields = <<>>],
  Other("x", FALSE), Other("x", TRUE), Other("control", FALSE), BlankLine, Comment(FALSE), Comment(TRUE)}
SubTexts ==
  {[encoding |-> e, lines |-> <<l>>] : e \in {"none", "url"}, l \in Uris \cup KeyValues}
  \cup {[encoding |-> e, lines |-> t] :
          e \in Encodings \cup {"none", "broken"}, t \in {<<>>} \cup TupleOf(SubLines, 1) \cup TupleOf(SubLines, 2)}
  \cup {[encoding |-> "none", lines |-> t] : t \in TupleOf(SubLines, 3)}

-----------------------------------------------------------------------------
(* Templates: one that is right for each target, and what is one edit, or for *)
(* some of them two edits, away from it.                                      *)

Header(s) == Line("header", s)
Anchor(a) == Line("anchor", a)
Plain == Line("plain", "x")
RightLines == [
  clash |-> <<Plain, Indented(Anchor("PROXIES")), Indented(Anchor("GROUPS")),
              Indented(Anchor("RULE_PROVIDERS")), Indented(Anchor("RULES"))>>,
  surge |-> <<Header("proxy"), Anchor("PROXIES"), Header("proxy group"), Indented(Anchor("GROUPS")),
              Header("rule"), Plain, Anchor("RULES")>>,
  shadowrocket |-> <<Header("proxy"), Anchor("PROXIES"), Plain, Header("proxy group"), Anchor("GROUPS"),
                     Header("rule"), Anchor("RULES")>>,
  quanx |-> <<Header("server_local"), Anchor("PROXIES"), Header("policy"), Anchor("GROUPS"), Header("filter_remote"),
              Anchor("RULESETS"), Header("filter_local"), Anchor("RULES")>>]

Put(lines, i, l) == InsertAt(lines, i, l)
Pieces == {Blank, Indented(Blank), Line("glued", "RULES"), Header("rule"), Header("general"),
  Managed("old", "interval=60"), Managed("missing", ""), Indented(Managed("old", "interval=60"))}
  \cup {Anchor(a) : a \in Anchors}
Dropped(lines) == {RemoveAt(lines, i) : i \in DOMAIN lines}
Enlarged(lines) == {Put(lines, i, l) : i \in 1..(Len(lines) + 1), l \in Pieces}
Swapped(lines) == {[lines EXCEPT ![i] = lines[j], ![j] = lines[i]] : i \in DOMAIN lines, j \in DOMAIN lines}
Turned(lines) == {[lines EXCEPT ![i].indent = ~@] : i \in DOMAIN lines}
OneEdit(lines) == Dropped(lines) \cup Enlarged(lines) \cup Swapped(lines) \cup Turned(lines)
Managing(lines) ==
  {Put(Put(lines, 1, a), i, b) : i \in 1..3, a \in {Blank, Managed("old", "interval=60"), Managed("missing", "")},
                                 b \in {Blank, Managed("old", "strict=true"), Managed("missing", "")}}

Blocks(n) == [a \in Anchors |-> IF n = 0 THEN <<>> ELSE <<Line("plain", a), Line("plain", "last")>>]
OddBlocks == [a \in Anchors |-> IF a = "PROXIES" THEN <<Managed("old", "a node")>> ELSE <<Line("plain", a)>>]
Template(k, lines, newline, b) ==
  [World("template", "http", <<>>, "ok", 1, "eof", TRUE) EXCEPT !.text = [lines |-> lines, newline |-> newline]]
    @@ [target |-> k, blocks |-> b]

Targets == DOMAIN RightLines
TemplateWorlds ==
  {Template(k, l, "lf", Blocks(2)) : k \in Targets, l \in {<<Blank>>, <<Plain>>}}
  \cup UNION {{Template(k, l, "lf", Blocks(2)) : l \in OneEdit(RightLines[k])} : k \in Targets}
  \cup {Template(k, RightLines[k] \o e, n, b) : k \in Targets, e \in {<<>>, <<Blank>>, <<Blank, Blank>>},
          n \in {"lf", "crlf", "mostly_lf", "mostly_crlf"}, b \in {Blocks(0), Blocks(2), OddBlocks}}
  \cup {Template(k, l, "lf", Blocks(0)) : k \in {"surge", "shadowrocket"}, l \in Managing(RightLines["surge"])}
  \cup UNION {{Template(k, l, "lf", Blocks(2)) : l \in UNION {Dropped(m) : m \in Dropped(RightLines[k])}} : k \in Targets}

\* Templates with newlines of both kinds.
MixedWorlds == {Template(k, RightLines[k], n, Blocks(2)) : k \in Targets, n \in {"mostly_lf", "mostly_crlf"}}

MCWorlds == FaultWorlds \cup {Serves("subscription", t) : t \in SubTexts} \cup TemplateWorlds
=============================================================================
