# Verification of subconverter-go

TLA+ models of subconverter-go, an HTTP service that turns Shadowsocks
subscriptions and a YAML profile into configuration files for Clash,
Shadowrocket, Surge and Quantumult X, with the TLC configurations that check
them and the TLAPS proofs of their main theorems.

Paths are relative to the repository (`src/` here stands for its root).

## 1. Inventory

| Component | Code | State | Operations | What makes it correct |
|---|---|---|---|---|
| Error-log store | `internal/errlog/store.go` | the log directory, `ioMu`, `stateMu`, the degraded slot | `WriteFailure`, `ExportZIP`, `Health`, `ValidateStartup` | acknowledged records are durable, each on a line of its own; archives are consistent; the health answer follows the failures |
| Subscription fetching | `internal/httpapi/convert.go` `fetchAndParseSubs` | goroutines, `results`, `done`, `sem` of one request | one call per request | same outcome as a sequential loop, in which a repeated URL counts once; bounded; nothing outlives the call |
| Conversion request | `internal/httpapi/convert.go`, `handlers.go`, `api_error.go`, `handler.go` | the collector and the response of one request, the shared store and counters | `runConvert`, `writeErrorFromErr`, `withObservability` | one failure record per failed conversion, with what is known of it; the answer does not depend on the log |
| Metrics | `internal/httpapi/metrics.go` | counters under one mutex | increment, snapshot | a snapshot is consistent |
| HTTP fetching | `internal/fetch/fetch.go` | the redirects followed and the bytes read of one call, the client's timer | one call | the verdict is that of the upstream; nothing is cut; an upstream that hangs is given up |
| Subscription parser | `internal/sub/ss/parse.go` | none | pure function | every node of the list in its order, or the first bad line and no node |
| Profile parser, rule parser | `internal/profile/parse.go`, `internal/rules/parse.go` | none | pure functions | which error is reported; what passes is what the compiler expects |
| Compiler | `internal/compiler/compile.go` | none | pure functions | deterministic; names are unique; references resolve |
| Renderers | `internal/render` | none | pure functions | unique provider names and tags; closed references; no field splits its line |
| Template injection | `internal/template` | the section and the anchors found so far in one scan | `InjectAnchors`, `EnsureSurgeManagedConfig` | exactly the anchors are replaced, each in its place; one managed line, on top |
| Process life | `cmd/subconverter-go/main.go` | the server, the signal channel | start, serve, shut down, health command | never serves with an unusable log; shutdown lets calls end |

Components talk in three ways: a conversion calls fetch, parsers, compiler,
renderer and template injection in sequence and hands the result of one to the
next; it shares the error log and the counters with every other request and
with `GET /healthz` and `GET /logs/errors.zip`; and it runs goroutines of its
own, one for the profile and one per subscription, which answer over channels.
The hard parts are these goroutines, the two mutexes and the disk of the error
log, the end of the process under running requests, and the names the compiler
makes up so that nothing in a configuration clashes. `PROJECT.json`, "hazards",
lists each such place at its line with the properties that watch it.

## 2. Modules

| Module | Models | Read with |
|---|---|---|
| `ErrorLog` | `Store`: one label of `pc` per file operation or critical section of `WriteFailure`, `ExportZIP`, `Health`, `ValidateStartup`; `ioMu` is a holder, `stateMu` makes each of its sections one step; the disk fails and recovers, the process ends and starts again | `ErrorLogProps` (properties, `StoreInv`), `ErrorLogProofs` |
| `FailureLog` | the promise of the store to its callers: the records that are a line of their own, those torn, those glued to a torn one, those acknowledged; the degradation | `ErrorLogRefines` (`ErrorLog` implements it), `ErrorLogRefinesProofs` |
| `SubFetch` | `fetchAndParseSubs`: the loop that drops repeated URLs, the collecting caller, one goroutine per distinct URL, the semaphore, `results`, the `done` channels, the deferred cancel and wait | `SubFetchProps`, `SubFetchProofs` |
| `SequentialFetch` | the plain loop over the list, repetitions included, that `SubFetch` implements | |
| `Fetch` | `FetchTextWithOptions`: the URL, a chain of redirects, the answer, the bounded reading, under the client's timer and the caller's context | `Resource` |
| `SubText` | `ParseSubscriptionText`: list or base64, the loop over the lines, what each of the three line formats asks for | `Resource` |
| `Template` | `InjectAnchors` with `findAndValidateAnchors`, one action per line, and `EnsureSurgeManagedConfig` | `Resource` |
| `Resource` | the three above composed: a text that was fetched completely goes to its reader | `ResourceProps`, `ResourceProofs` |
| `Convert` | a request from the handler to its answer: `runConvert`, the profile goroutine and its channel, `writeErrorFromErr`, `withObservability`, shutdown, a failing listener and a kill; the error log is an instance of `FailureLog` | `ConvertProps`, `ConvertProofs` |
| `Lists` | the loops of the program over a list: append what passes a filter, stop at the first error; as recursive functions, so that they can be proved about | `ListProofs` |
| `Names` | the names of nodes and groups as sequences of pieces, so that concatenation collides as strings do | |
| `Rules` | `ParseInlineRule` on the fields of a line, and the line rendered from a rule | |
| `Profile` | `ParseProfileYAML`: the document, every directive with what its parser asks of the fields, the references between them, in the order that decides the error | |
| `Compiled` | what the compiler promises the renderers (`WellFormed`) | |
| `Compiler` | `ParseProfileYAML`, then `Compile`: deduplication, the naming loops candidate by candidate, chains one by one, derived proxies, groups, rules | `CompilerProps`, `CompilerProofs` |
| `Render` | `Render` for the four targets; it assumes `WellFormed`, which the run of `Compiler` checks and `ResultsAreWellFormed` proves | `RenderProps`, `RenderProofs` |

Each `MC` module only gives constants their values. The composition is by
contract: `Convert` uses the log through `FailureLog`, which `ErrorLog`
implements; it takes the subscriptions as one step whose outcome is that of
`SequentialFetch`, which `SubFetch` implements; a fetch of `SubFetch` ends in
one of the ways in which a call of `Fetch` ends, and its parser in those of
`SubText`; `Compiler` starts with the profile parser and takes the nodes that
`Resource` gives; `Render` takes the results that `Compiler` gives. Each of these
promises is a property of a run and a theorem. The modules of one component share no state
with those of another, so they are checked apart, which keeps each space small
enough to be exhausted.

Operators named after a definition with an underscore (`Give_Unrecorded`) are
the plausible bugs of that definition: substituting one makes the run of the
property named in `PROJECT.json`, "mutants", fail.

### How the state corresponds to the code

- `ErrorLog`: `files[d]` is the daily file of day `d` as a sequence of halves
  of lines, because a write may stop in the middle; `durable[d]` is how much of
  it an fsync has covered. `degradedOp` is `Store.degradedOp`; reason and time
  go with it. `acked` and `writeDown` are history: what was acknowledged, and
  whether a write has failed since the last success.
- `FailureLog`: `stored` is the records a reader finds who takes the files line
  by line, `torn` those of which only the first half is there, `glued` the pairs
  of a torn record and the one that was appended to its open line. `Written`,
  the records whose text is in the log in full, is `stored` and what is glued.
- `SubFetch`: `scan` is the index of the loop over the list, `unique` what it
  has kept. `results` is the slice of that name, `done` the set of indices whose
  `done[i]` is closed, `sem` the goroutines that hold a slot; `verdict` is what
  the call returns.
- `Fetch`: `world` is what the upstream will do, fixed when the call starts.
  `via` is `len(via)` of `CheckRedirect`, `got` the length of what `io.ReadAll`
  has, `timer` and `ctx` are the two things that may end the call at any moment.
  Sizes are counted in units of reading, so the bounds are small numbers.
- `SubText`: `list` is the trimmed text once it is known to be a list, `lineNo`
  the line of the loop. A line says what its parser can tell of it: fields with
  their values, whether it decodes, whether a port is a number.
- `Template`: `at` and `section` are the loop variables of
  `findAndValidateAnchors`, `count` and `pos` its two maps; `page` is the output
  as lines. A text with newlines of both kinds is `mostly_lf` or `mostly_crlf`.
- `Convert`: `broken[r]` is the set of stages that cannot succeed for a
  request. It stands for everything the request and the upstreams contain.
  `coll[r]` is the collector.
- `Compiler`: a node is `[host, upper, name]`: `host` stands for the fields of
  the deduplication key, `upper` for a spelling that normalisation removes. An
  identity (a SHA-256 in the code) is the record of what is hashed. `n` and
  `used` are the counter and the map of the naming loops, `selected` is
  `selectedByCustom`.
- `Render`: a printed name is its text and whether it is quoted; `counts` is
  `used` in `clashRuleProviderName` and `tagCounts` in `renderQuanx`. A proxy
  says which of its fields have a comma (`commas`); `rawCommas` collects those
  that were printed as they are, by kind of line and field. A URL is a sequence
  of pieces, as a name is, and may have a comma among them.

## 3. Runs

| Run | Question | Bounds |
|---|---|---|
| `errlog_safety` | exclusion, durability of acknowledged records and what may stand on their lines, consistent archives, probe files, earned recoveries; the store implements `FailureLog` | two writers, an exporter, a health check and `main`, two records, two days |
| `errlog_liveness` | degradations end, every call returns | a writer, an exporter, a health check and `main`, one record, one day |
| `errlog_failed_write` | a failed write is what the next health check reports (it is not, in two ways) | a writer, an exporter and a health check, two records, one day |
| `errlog_glued_line` | an acknowledged record is a line of its own (it is not) | one writer, two records, one day |
| `subfetch` | the call implements the sequential loop, limit, publication, nothing left running; every call returns | three URLs, lists with repetitions, two slots, every combination of answers |
| `resource` | the verdict of a fetch is that of its upstream; a subscription is read completely or refused; a template is injected exactly or refused for a true reason; one managed line on top; every call ends | every chain of up to four redirects with a limit of two, bodies of 0 to 4 units around a bound of 2; lists of up to three lines of eleven kinds, single lines with every combination of the fields a format looks at; the right template of each target and every template one or, for omissions, two edits away |
| `convert_outcome` | the answer and the record are determined by the request and the upstreams; goroutine and request end | one request of each kind, every choice of up to three broken stages |
| `convert_shared` | log and counters under two requests, shutdown, kill | two requests, five worlds |
| `compiler` | deduplication and first-fit names, `NamesAreDistinct`, `WellFormed` results, derived proxies, circles, rules that read back, what the parser guarantees | up to four of eight nodes with clashing names, with and without chains; over five subscriptions and two targets, 5,880 profiles of seven sets of custom proxies, fifteen of groups, eight of chains and seven of rules; directives of every shape, legal or not; 841 rule lines |
| `render` | references, unique names, which fields can split a line, reasons to refuse; labels differ as long as no file is called like a suffixed one | four targets, with two nodes, a derived one, two groups and at most one ruleset, with commas in names, in every field that is printed, in the URL of a test and in that of a ruleset, or with one node and up to three rulesets of five URLs and two actions |
| `render_providers` | provider names differ (they do not) | up to three rulesets, Clash |
| `template_mixed_newlines` | the newlines of the output are those the template mainly has (they are not) | right templates with newlines of both kinds, each target |

Why the bounds are enough. In `ErrorLog` every conflict is between two
goroutines over one lock and one slot; two writers, an exporter, a checker and
`main` give every pair of operations, two days give the change of file, and two
records a line before and after a torn one. Two slots for three URLs make a
goroutine wait; a repeated URL is the only way in which lists differ beyond
that. A conversion has two goroutines, so two broken stages race and a third
shows that the rest does not matter. Four nodes are the least in which a
suffix meets a name that came with a node and a derived one at once. Chains of
redirects reach two beyond the limit and bodies two units beyond the bound, so
that the last one allowed, the first one refused and one more are all there. A
list of three lines has one before and one after the bad line. Of a template
every line is either where it should be or one edit from it; two anchors can
only disturb one another by count or by section, which one edit shows. The
numerals end at 9: a naming loop that needed more would deadlock, and the runs
check deadlock. Three rulesets are the least that clash.

No run disables the deadlock check; where a component may be over, the
specification says so with an explicit stuttering step.

### Fairness

No invariant rests on fairness; the runs with liveness properties (`errlog_liveness`,
`subfetch`, `resource`, `convert_outcome`) assume weak fairness of each goroutine, which the
Go scheduler gives; that a fetch ends, which the client timeout of `fetch.go`
gives and the run `resource` checks: there only the transport's own steps and the timer
are fair, nothing is assumed of the upstream or the context; strong fairness of taking `ioMu`, because
`sync.Mutex` hands the lock to a waiter that has starved; that health checks
keep coming, which the container's HEALTHCHECK does; and that what is down is
started again. Recovery is claimed only when the disk is faultless from some
moment on.

## 4. Findings

1. A write that has failed may go unreported (`errlog_failed_write`): SPEC_HTTP_API.md
   section 7 says that the next `GET /healthz` answers 503. There is one degraded slot,
   so an export that fails afterwards overwrites it (store.go:548), and the next
   successful export clears it (store.go:459), although the same section says that a
   successful archive does not mean that writing has recovered.
2. The same statement fails a second way: the probe of `Health` ends, a write fails and
   marks the store, then `Health` clears the mark (store.go:354), outside `ioMu`. With
   `Exporters <- Nobody` the same configuration ends in this behaviour.
3. An acknowledged record need not be a line of its own (`errlog_glued_line`). When a write
   is cut short its line has no newline, `WriteFailure` appends the next record right
   behind it and returns nil (store.go:367-398): the physical line is no JSON text, which
   the test of the store expects of each line (store_test.go:119-125). What does hold, and
   is checked and proved: the text of an acknowledged record is there in one piece and
   durable, and a torn record spoils the line of one other record at most.
4. Files `x`, `x` and `x-2` give Clash two providers of one name
   (`render_providers`). `renderQuanx` counts in the same way: rulesets for `G`,
   `G` and the group `G-2` give two filters of one tag, although its comment
   says "Make tags unique". `DeclarationsDiffer` states for both targets when the
   names do differ.
5. One CRLF in a template makes all newlines of the output CRLF (`template_mixed_newlines`,
   anchors.go:288, and managed_config.go:39 likewise), where SPEC_TEMPLATE_ANCHORS.md
   section 2, item 4, asks for CRLF only if the template mainly uses it.

Observations that no run states as a violation, because the documents leave the
matter open, the difference is one of wording, or it is in the text of a field:

- A comma splits a line of the INI formats if it stands in a field that is printed as
  it is: the password, cipher and obfs-host of a Shadowsocks proxy and the server of any
  proxy (surge_like.go:166-174, 178; quanx.go:48-56), and the URL of a url-test group
  (surge_like.go:87-88). The checks of names, of logins (surge_like.go:212-226, "forbidden:
  ','") and of ruleset URLs show that the code means to refuse such values; no document
  says so of these fields. `OnlyUncheckedFieldsSplit` states that nothing else splits a line.
- `Health` marks a failure and reads its reason in two critical sections; when another
  check clears the state in between, a 503 has no reason (store.go:594, the reply
  `no_reason` of `HealthReplyUnhealthy`), which a test of the store expects of a 503.
- SPEC_RULES_CLASH_CLASSICAL.md section 5 takes `DIRECT` and `REJECT` in any case; the
  compiler compares them as they are (compile.go:705, 748), so `direct` is refused as a
  group that does not exist.
- Groups that contain each other in a circle are an error only when a chain
  expands them; otherwise they are rendered.
- Line numbers of a subscription count from the first line that is not blank,
  since the text is trimmed before it is split.
- A method or password quoted in a Shadowrocket or Surge line may hold control
  characters, which an `ss://` line may not.
- A list without `ss://` whose first line is of no known format is taken for
  base64, and fails as such (`SUB_BASE64_DECODE_ERROR`).
- A template that does not end with a newline and whose last anchor has an empty
  block loses that line.
- An IPv4 network written as an IPv6 one passes as `IP-CIDR`, not as `IP-CIDR6`.
- SPEC_RULES_CLASH_CLASSICAL.md says that the values of GEOIP and PROCESS-NAME
  hold no white space; `parseSimple3` only asks that they are not empty.
- A managed line is recognised by its prefix alone, so that anything glued to the
  prefix counts as its URL.

## 5. Proofs

`ErrorLogProofs` proves, for every number of goroutines, records and days
(assuming only that the roles are disjoint and the bounds positive):

| Theorem | States |
|---|---|
| `TypeCorrect` | `[]TypeOK` |
| `MutualExclusion` | `[]IoMuExclusion` |
| `ProbesCleanUp` | `[]ProbeFileIsTransient` |
| `ExportsAreSnapshots` | `[]ExportIsSnapshot` |
| `AcknowledgedRecordsAreDurable` | `[]AckedAreDurable` |
| `StoreInvariant` | `[]StoreInv`, the inductive invariant |
| `LogsGrow`, `RecoveryIsEarned` | the two action properties |

The argument. `AckedAreDurable` is not inductive: that a record is durable when
its write is acknowledged follows from what the writer has done before. So
`StoreInv` adds how far each write has come (`WriteProgress`: the end of the
file is the line of its record; after the sync all of the file is durable) and
each export (`ExportProgress`: what is copied is current), and that the durable
part is a prefix. Both rest on `IoMuExclusion`: while one goroutine is between
two steps of its section nobody else changes the files (`OnlyHolderWrites`).
The proof takes the actions one by one; the lemmas about appending, syncing,
acknowledging and crashing carry the sequence reasoning.

What stands before an acknowledged record on its line needs more: `WrittenOnce`. No
chunk is in the files twice, a second half follows its first half, what a writer
still has to write is in no file, and no two writers have the same record. So a
first half that the record is appended to belongs to a record whose second half
will never be there, hence to one that was never acknowledged
(`AckedFollowsFromParts`).

`ErrorLogRefinesProofs` proves `StoreIsFailureLog`: `Spec => ImplementsFailureLog`, so
what `Convert` is checked and proved against is what the store does. `stored` is mapped
to the records in full at the beginning of a line (`Readable`), `glued` to those in full
behind the half of another, `torn` to the records whose second half nobody is about to
write. The steps rest on `WrittenOnce`: a second half ends a record that was not there
before, either on its own line or glued to one torn record (`TailIsLogStep`); a second
half that is given up makes the record torn (`TearIsLogStep`); a first half is not seen
(`HeadIsHidden`); a record is acknowledged only when it is there in full
(`SettleIsLogStep`); and what a crash cuts off is not acknowledged, while of what was
being written a half may stay (`CrashIsLogStep`). That a torn record spoils one line at
most is part of the abstract log: `AppendBehind` asks that nothing is glued to it yet.

`CompilerProofs` proves, for every set of subscriptions, profiles and targets:

| Theorem | States |
|---|---|
| `NamesNeverClash` | `[]NamesAreDistinct` |
| `CompilerTypes` | `[]TypeOK` |
| `ResultsAreWellFormed` | `[]ResultIsWellFormed`: what `Render` assumes |
| `AcceptedProfilesCompile` | `[]ParserGuards` |
| `RulesAreRead` | `[]RulesReadBack` |
| `SubscriptionsAreKept` | `[]NodesAreKept` |
| `ChainsDeriveWhatTheyReach` | `[]DerivedAreReached` |
| `ExpansionExists` | the recursion over groups, `Expansion`, satisfies its equations |

It assumes that lists are lists, names are sequences and nodes have a host
(`InputsHaveNodes`, `InputsHaveProfiles`); nothing about what they say, since the
profile parser is part of the model. `NamesAreDistinct` is not inductive: that a
derived proxy cannot take the name of a group follows from what `ClaimNames` puts into
`used` before the loop starts. `NamingInv` says so: `used` covers the names
given so far and, while proxies are derived, those of all groups to come; and
between `CheckNames` and `ClaimNames` no subscription has the name of a group of the
profile. `GiveEffect` is the one lemma about the loops (a name is given only if it is not in
`used`), and every other pass keeps the names or refuses them.

A result that is well formed comes out of the last pass, so `ResultInv` says for
every pass what the passes before it have left: the accepted profile
(`ProfileAccepted` turns the one code of the parser into a fact for each
directive), nodes of different hosts and the proxies that are these nodes, chains
that selected nodes that exist, one derived proxy for each pair of the two nested
loops (`PairFacts`: all pairs differ), groups that are not empty, rules whose actions
are known. `Steps` says once what each action does to the list of proxies. A member
of a group exists because the parser has looked up the names in the profile
(`MembersFault`) and the proxies are in the list the group was made of. Groups of a
profile may contain each other in a circle, so that the expansion is defined at all is
shown by induction over the number of groups that are not open yet; with it,
`ExpansionIsSound` says that only hosts of the subscriptions come out of it and that its only
error is the circle.

`NodesAreKept` needs `KeptInv`: the nodes are what deduplication leaves, and the
candidates a naming loop has passed are taken by the names before, so the name it
gives is the first that fits. Such a name is `Plain`, that is, its own base when
the list is read back (`PlainIsBase`). What deduplication keeps stands at the
first place of its host, in order, and no host is lost (`DedupedOrder`).

`DerivedAreReached` compares the recursion of the code with the graph of the groups,
where what is below a group is the least closed set with it (`Below`).
`ExpansionReaches` says that they agree, by induction over the groups that are not
open yet: a group gives all hosts below it, or the error of the circle if one of those
groups is open or on a circle. The step is `BelowIs`, below a group is the group
and what is below those it contains, together with `GroupGives`, the same for the
answers. `ReachInv` carries it through the loop over the chains: what is selected
for a custom proxy is what its chains so far reach, and none of them ran in a
circle. `PairsInOrder` gives the order of the result.

`SubFetchProofs` proves, for every list, every set of URLs, every limit and
whatever the upstreams answer:

| Theorem | States |
|---|---|
| `CallIsTyped` | `[]TypeOK` |
| `UpstreamsAreSpared` | `[]AtMostLimitInFlight` |
| `CallOutlivesGoroutines` | `[]NothingRunsAfterReturn` |
| `ResultsAreHandedOver` | `ResultsPublishedOnce` |
| `CallIsSequentialLoop` | `ImplementsSequentialLoop`: the call implements `SequentialFetch` |

The invariant is `FetchInv`. The refinement needs two facts that no single
property states. `UniqueInv`: what the first loop has kept is, in order, the
first occurrences of the entries it has seen; without it "the first URL of the
list that fails" and "the first goroutine that failed" could differ. And
`WorkerInv`: a result that is published is settled, that is, it is what the
upstream answers or the context's error, and the latter only if the request
itself had ended or the caller had already cancelled, which is after its
verdict. So the first error the caller meets is never its own. A goroutine that
settles its result is a stutter of the loop; the caller taking it is the loop's
step. The steps of goroutines are taken one by one (`WorkerKeeps`), and
`OthersKept` says that they disturb nobody else.

`ResourceProofs` proves, for every bound, every limit of redirects, every upstream,
and every text it may serve:

| Theorem | States |
|---|---|
| `CallsAreBounded` | `[]TypeOK`: no more redirects than `MaxRedirects`, no more read than one unit over the bound |
| `VerdictsAreExact` | `[]FetchIsExact`: the verdict is that of the upstream unless the timer or the context interrupted the call; a text that is handed over is complete |
| `SubscriptionsAreRead` | `[]SubscriptionIsRead` |
| `TemplatesAreInjected` | `[]TemplateIsInjected` |
| `ManagedLinesLead` | `[]ManagedLineLeads` |

Assumed is that the texts are texts (`SubscriptionsAreText`, `TemplatesAreText`: lists of
lines; and the renderers print no blank line into a block). Each of the
properties speaks of the end of its loop only. For the fetch, `CallInv` adds what is
known on the way: every redirect taken so far was allowed, and whoever reads a body
has passed them all. For a subscription, `SubInv` says that the nodes so far are those of
the lines so far, each of which was legal. For a template, `TemplateInv` says that
what the scan knows before a line is true of the lines before it: the section is
that of the last header, an anchor is counted as often as it occurs, its position
is where it stands. Where the lines are in the output is counted twice: block by
block in `Shift`, which the property uses, and along the list that is joined
(`FlattenPlaces`); `ShiftGrows` and `JoinedLayout` show that both agree. A managed
line never meets a block on top of the output: in a legal Surge template a header
precedes every anchor (`HeaderBefore`, `TopIsText`).

`ConvertProofs` proves, for any set of requests, any kinds and whatever can be
broken for them:

| Theorem | States |
|---|---|
| `ConversionTypes` | `[]TypeOK` |
| `AnswersAreDetermined` | `[]AnswerIsDetermined` |
| `RecordsAreExplained` | `[]RecordsExplainErrors` |
| `AnswersAreLogged` | `[]AnsweredErrorsAreLogged` |
| `CountersAgree` | `[]MetricsAgree` |

It assumes `KindsAreKnown` and `WorldsAreStages`, of which the latter says that
only stages can be broken. The three properties speak of a conversion that has
its answer, so the invariant, `ConvertInv`, says what is known before.
`OnTheWay`: a handler without an error has passed every stage that is behind its
label, none of which is broken, and has recorded exactly what those fetched.
`Fits`: what the profile goroutine has found, or has put into the channel, is
what the upstream serves, or its context was done; and since the handler has not
cancelled it while it still receives, such a context has really ended. So the
stage at which a handler fails is the first broken one (`FailsFirst`), and its
record is explained (`ExplainedBy`). `LogInv` follows the record into the log:
between `LogRecord` and `LogReturns` it is stored, and a handler that comes to
its answer is `Logged`; a kill takes only what is not acknowledged, and a record that is
glued to another one is glued to one that was not acknowledged (`LogOK`). Each stage has its
lemma (`...StepKeeps`), and `OthersStay` says that requests share nothing but
the log and the counters.

`MetricsAgree` compares sums over counters, which it counts as sets: `Events` has one
pair for every key and every time it was counted. A step adds at most one event to
each side, and then a request enters or leaves the error path; that it enters with an
error and leaves with the status of one is `CountedAsAnswered`, the other part of
`MetricsInv`.

`RenderProofs` proves, for every set of well-formed results, all four targets, any
ruleset URLs and any length names are cut to:

| Theorem | States |
|---|---|
| `RenderTypes` | `[]TypeOK` |
| `ReferencesHold` | `[]ReferencesAreDeclared` |
| `DeclarationsAreApart` | `[]DeclarationsDiffer` |
| `OnlyUncheckedFieldsDoSplit` | `[]OnlyUncheckedFieldsSplit` |
| `OnlyTargetsRefuse` | `[]OnlyTheTargetRefuses` |

`ResultsAreCompiled` is the promise of the compiler, `UrlsHaveStems` and `NamesAreCut` are
typing, `NodesAreShadowsocks` says that only derived proxies have other types (the
subscription parser gives nothing else); `RulesetsAreNumbered` bounds the rulesets by the numerals of the model, which
the code does not need. `PrintedInv` says, pass by pass, which blocks are printed and
which checks are behind; references and lines are read off it, and
`rawCommas \subseteq Unchecked` is kept beside it. `LabelsInv` says that
a ruleset is called like its base with a number counted so far: numbers of one base
never come twice (`LabelIsFresh`), and two bases meet only if one is the other with a
suffix (`CandidatesDiffer`), which is the case finding 4 is about.

Induction over data. The induction theorems of the library take an operator, which the
installed provers cannot instantiate, and a recursive function is for them a
`CHOOSE` of which nothing is known. `ListProofs` goes around both: it proves
induction in the form "a set of numbers that contains 0 and successors is `Nat`"
from the well-foundedness of `Nat`, and from it that each loop of `Lists` and each
fold of the community modules that the models use is defined and satisfies its equation. The
models therefore write loops as recursive functions on 0..Len.

Only model-checked: liveness, which is out of the prover's reach. Every invariant
a passing run checks is a theorem.

## 6. What is not modelled

- Syntax below the level of fields: percent and base64 decoding, quoting, YAML,
  URLs, regular expressions and numbers. Whether such a value is legal is one
  outcome of its field; what is done with it then is modelled.
- The transport under `fetch.go`: connections, TLS and headers are the four
  replies an upstream has. Options that no caller sets are left out.
- The order in which `parse.go` meets several illegal template entries, which is
  that of a Go map: the text of the error depends on it, its code does not.
- The contents of a failure record: which fields are redacted or truncated. The
  text and the headers of answers, and the exposition format of the metrics.
- The names after `dialer-proxy` and `underlying-proxy`, which are looked up like members,
  and the checks for control characters in names and credentials.
- Truncation of provider names to 60 bytes is a bound on pieces (`NameLimit`).
- Errors of the zip writer, after which `ExportZIP` does not mark the store degraded: the
  handler gives it a buffer in memory, which does not fail.
- That the directory entry of a new daily file needs an fsync of its own: the
  model takes the fsync of the file to cover it.
- Quantumult X writes builtins as `direct` and `reject`; a node or group called
  that is ambiguous there. `DeclarationsDiffer` excludes it.
- The healthcheck command: one request with a timeout and no state; a listener
  error is an action of `Convert`, and one of the ends that `Crash` of `ErrorLog` covers.
- The web page, build and release files.

## 7. Plan

Done in this order: the error log (the only persistent state), the fetching of
subscriptions, the conversion, the compiler, the renderers; then HTTP fetching,
the subscription text, templates, the rules and the whole profile parser; then the
theorems, component by component, until every invariant was one.

The number of runs stays small: a new component is checked in the run of the one
it feeds where it can be, and a property gives way when a deeper one implies it.
