---------------------------- MODULE ConvertProps ----------------------------
(* What a client, an operator and a reader of the error log rely on. *)
EXTENDS Convert

HandlerPcs == {"idle", "parse", "attach", "subs", "recv", "compile", "render", "template",
  "inject", "error", "log", "torn", "logged", "reply", "respond", "count", "over"}

\* Every variable ranges over the values the code gives it.
TypeOK ==
  /\ kind \in [Requests -> Kinds]
  /\ broken \in [Requests -> Worlds]
  /\ pc \in [Requests -> HandlerPcs]
  /\ ended \in [Requests -> BOOLEAN]
  /\ cancelled \in [Requests -> BOOLEAN]
  /\ ppc \in [Requests -> {"unborn", "fetch", "send", "gone"}]
  /\ found \in [Requests -> Results]
  /\ profCh \in [Requests -> Seq(Results)]
  /\ err \in [Requests -> Errors \cup {NoErr}]
  /\ coll \in [Requests -> Collectors]
  /\ answer \in [Requests -> Statuses \cup {"none"}]
  /\ byStatus \in [Statuses -> Nat]
  /\ appErrors \in [Errors -> Nat]
  /\ stored \subseteq Record /\ torn \subseteq Record /\ glued \subseteq Record \X Record
  /\ acked \subseteq Record
  /\ degraded \in {"none", "write_failure", "export_failure", "dir_check"}
  /\ unlogged \subseteq Requests
  /\ server \in {"up", "draining", "exited"}

\* The stages a request of a kind goes through, and the first of them that
\* cannot succeed.
OfKind(k) ==
  CASE k = "list" -> {"validate", "filename", "fetch_sub", "parse_sub", "compile"}
    [] k = "config" -> Stages \ {"managed"}
    [] k = "surge" -> Stages

Position(stage) == CHOOSE i \in DOMAIN StageOrder : StageOrder[i] = stage

FirstBroken(r) ==
  LET b == broken[r] \cap OfKind(kind[r]) IN
  IF b = {} THEN NoErr
  ELSE CHOOSE s \in b : \A t \in b : Position(s) <= Position(t)

Decided(r) ==
  pc[r] \in {"error", "log", "torn", "logged", "reply", "respond", "count", "over"}

\* SPEC_HTTP_API section 6, the same inputs give the same output: what is
\* answered is decided by the request and the upstreams alone, by the first
\* stage that cannot succeed, whichever of the two goroutines is faster and
\* whether or not the failure can be logged.  Only a context that has ended
\* can put its own error in the place of a stage that was still ahead.
AnswerIsDetermined ==
  \A r \in Requests : Decided(r) =>
    \/ err[r] = FirstBroken(r)
    \/ ended[r] /\ err[r] = "ctx" /\ FirstBroken(r) \notin {"validate", "filename"}

\* The resources a conversion has when it comes to a stage.
Needed(e) ==
  CASE e \in {"validate", "filename", "fetch_sub"} -> {}
    [] e \in {"parse_sub", "fetch_profile"} -> {"sub"}
    [] e \in {"parse_profile", "compile", "render", "fetch_template"} -> {"sub", "profile"}
    [] e \in {"inject", "managed"} -> {"sub", "profile", "template"}

ResourceOrder == <<"sub", "profile", "template">>

\* A record of the error log shows what its error is about: the resources
\* fetched up to the failing stage, each once and in the order of the stages,
\* and nothing that the profile goroutine fetched for a conversion that had
\* already failed.
RecordsExplainErrors ==
  \A rec \in Log!Written :
    /\ IsPrefix(rec.coll.resources, ResourceOrder)
    /\ rec.err # "ctx" =>
         ToSet(rec.coll.resources) =
           Needed(rec.err) \cap (IF kind[rec.request] = "list" THEN {"sub"} ELSE Resources)
    /\ rec.coll.compiled => "profile" \in ToSet(rec.coll.resources)

\* The record is a line of the log, or it is there in full on the line of one
\* that was cut short and that nobody was told is stored.
InLog(rec) == rec \in stored \/ \E t \in torn \ acked : <<t, rec>> \in glued

\* SPEC_HTTP_API section 7: a failed conversion is recorded, and before it is
\* answered: whoever got an error answer finds its record in the log, unless
\* the write failed, whatever happens to the process afterwards.
AnsweredErrorsAreLogged ==
  \A r \in Requests :
    answer[r] \in Statuses \ {"200"} =>
      \/ r \in unlogged
      \/ \E rec \in acked : rec.request = r /\ InLog(rec)

\* What has been counted under the keys of S, and what is not counted yet of a
\* request that has failed.
Events(f, S) == UNION {{s} \X (1..f[s]) : s \in S}
InErrorPath == {r \in Requests : pc[r] \in {"log", "torn", "logged", "reply", "count"} /\ err[r] # NoErr}

\* For conversions the two error counters of /metrics tell the same story at every
\* moment: no failed request is counted before its error is, and the counters
\* differ by the failures whose answers are still on their way.
MetricsAgree ==
  Cardinality(Events(appErrors, Errors)) =
    Cardinality(Events(byStatus, Statuses \ {"200"})) + Cardinality(InErrorPath)

\* Its inductive form: what is about to be counted is the status of the error.
CountedAsAnswered == \A r \in Requests : pc[r] = "count" => answer[r] = Status(err[r])
MetricsInv ==
  /\ IsFiniteSet(Events(appErrors, Errors)) /\ IsFiniteSet(Events(byStatus, Statuses \ {"200"}))
  /\ IsFiniteSet(InErrorPath)
  /\ MetricsAgree
  /\ CountedAsAnswered

\* A request that was accepted is answered and counted unless the process ends;
\* and its profile goroutine ends too, although nobody waits for it any more
\* when the request has failed early.
RequestsAreAnswered ==
  \A r \in Requests :
    /\ pc[r] = "parse" ~> pc[r] = "over" \/ server = "exited"
    /\ ppc[r] = "fetch" ~> ppc[r] = "gone" \/ server = "exited"
=============================================================================
