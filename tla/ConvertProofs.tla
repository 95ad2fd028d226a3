---------------------------- MODULE ConvertProofs ----------------------------
(***************************************************************************)
(* Theorems about conversions, for any number of requests of any kind and  *)
(* whatever is broken for them.                                            *)
(***************************************************************************)
EXTENDS ConvertProps, SequenceTheorems, FiniteSetTheorems, TLAPS

\* The stages a handler without an error has passed when it is at a label, and
\* the resources it has then recorded.
Behind(label) ==
  CASE label = "attach" -> {"validate"}
    [] label = "subs" -> {"validate", "filename"}
    [] label = "recv" -> {"validate", "filename", "fetch_sub", "parse_sub"}
    [] label = "compile" ->
         {"validate", "filename", "fetch_sub", "parse_sub", "fetch_profile", "parse_profile"}
    [] label = "render" ->
         {"validate", "filename", "fetch_sub", "parse_sub", "fetch_profile", "parse_profile", "compile"}
    [] label = "template" -> Stages \ {"fetch_template", "inject", "managed"}
    [] label = "inject" -> Stages \ {"inject", "managed"}
    [] OTHER -> {}
Fetched(label, k) ==
  CASE label = "recv" -> <<"sub">>
    [] label = "compile" -> IF k = "list" THEN <<"sub">> ELSE <<"sub", "profile">>
    [] label \in {"render", "template"} -> <<"sub", "profile">>
    [] label = "inject" -> ResourceOrder
    [] OTHER -> <<>>

\* What breaks for a request, in its kind of conversion.
Broken(r) == broken[r] \cap OfKind(kind[r])

\* A result of the profile goroutine is what the upstream serves, or it ended
\* with its context.
Fits(r, res) ==
  \/ res.err = "ctx" /\ ~res.snapshot /\ CtxDone(r)
  \/ res.err = "fetch_profile" /\ ~res.snapshot /\ Breaks(r, "fetch_profile")
  \/ res.err = "parse_profile" /\ res.snapshot /\ Breaks(r, "parse_profile") /\ ~Breaks(r, "fetch_profile")
  \/ res.err = NoErr /\ res.snapshot /\ ~Breaks(r, "parse_profile") /\ ~Breaks(r, "fetch_profile")

\* A handler that has not decided yet has passed what is behind it.
OnTheWay(r) ==
  /\ err[r] = NoErr /\ ~cancelled[r] /\ answer[r] = "none"
  /\ coll[r].resources = Fetched(pc[r], kind[r])
  /\ coll[r].compiled => pc[r] \in {"render", "template", "inject"}
  /\ Broken(r) \cap Behind(pc[r]) = {}
  /\ pc[r] \in {"recv", "render", "template", "inject"} => kind[r] # "list"

\* AnswerIsDetermined and RecordsExplainErrors, of one request and one record.
Determined(r) ==
  \/ err[r] = FirstBroken(r)
  \/ ended[r] /\ err[r] = "ctx" /\ FirstBroken(r) \notin {"validate", "filename"}
Explained(rec) ==
  /\ IsPrefix(rec.coll.resources, ResourceOrder)
  /\ rec.err # "ctx" =>
       ToSet(rec.coll.resources) =
         Needed(rec.err) \cap (IF kind[rec.request] = "list" THEN {"sub"} ELSE Resources)
  /\ rec.coll.compiled => "profile" \in ToSet(rec.coll.resources)

ProfileInv(r) ==
  /\ ppc[r] = "send" => Fits(r, found[r])
  /\ \A i \in 1..Len(profCh[r]) : Fits(r, profCh[r][i])
HandlerInv(r) ==
  /\ ~Decided(r) => OnTheWay(r)
  /\ Decided(r) => Determined(r)
  /\ pc[r] \in {"error", "log", "torn", "logged"} => err[r] # NoErr /\ Explained(BuildFailure(r))
  /\ pc[r] = "respond" => err[r] = NoErr
  /\ answer[r] # "none" => pc[r] \in {"count", "over"}
RequestInv(r) == HandlerInv(r) /\ ProfileInv(r)

Logged(r) == r \in unlogged \/ \E rec \in acked : rec.request = r /\ InLog(rec)

\* The log itself: what is acknowledged is there in full, what is cut short is
\* not, and records share a line only with one that was cut short.
LogOK ==
  /\ acked \subseteq Log!Written
  /\ torn \cap Log!Written = {}
  /\ \A g \in glued : g[1] \in torn /\ g = <<g[1], g[2]>>
AckedAreInLog == \A rec \in acked : InLog(rec)

LogInv ==
  /\ LogOK
  /\ \A r \in Requests :
       /\ pc[r] = "logged" /\ Running => BuildFailure(r) \in Log!Written
       /\ pc[r] = "reply" => Logged(r)
  /\ AnsweredErrorsAreLogged
  /\ RecordsExplainErrors

ConvertInv ==
  /\ TypeOK
  /\ \A r \in Requests : RequestInv(r)
  /\ LogInv

-----------------------------------------------------------------------------
(* The stages and their order. *)

\* The stages, without their order.
LEMMA StagesAre ==
  Stages = {"validate", "filename", "fetch_sub", "parse_sub", "fetch_profile",
    "parse_profile", "compile", "render", "fetch_template", "inject", "managed"}
  BY DEF Stages, StageOrder, ToSet

\* Each stage has one place in the order.
LEMMA PositionsAre ==
  /\ Position("validate") = 1 /\ Position("filename") = 2
  /\ Position("fetch_sub") = 3 /\ Position("parse_sub") = 4
  /\ Position("fetch_profile") = 5 /\ Position("parse_profile") = 6
  /\ Position("compile") = 7 /\ Position("render") = 8
  /\ Position("fetch_template") = 9 /\ Position("inject") = 10 /\ Position("managed") = 11
  <1>1. ASSUME NEW i \in 1..11 PROVE \A j \in 1..11 : StageOrder[j] = StageOrder[i] => j = i
    BY DEF StageOrder
  <1>2. \A i \in 1..11 : Position(StageOrder[i]) = i
    <2>1. DOMAIN StageOrder = 1..11
      BY DEF StageOrder
    <2>2. QED
      BY <1>1, <2>1 DEF Position
  <1>3. QED
    BY <1>2 DEF StageOrder

\* A broken stage with nothing broken before it is the first one.
LEMMA FirstIs ==
  ASSUME TypeOK, NEW r \in Requests, NEW e \in Broken(r),
         \A s \in Broken(r) : s = e \/ Position(e) < Position(s)
  PROVE  FirstBroken(r) = e
  <1>1. Broken(r) \subseteq Stages
    BY WorldsAreStages DEF TypeOK, Broken
  <1>2. \A s \in Stages : Position(s) \in 1..11
    BY StagesAre, PositionsAre
  <1>3. ASSUME NEW s \in Broken(r), \A t \in Broken(r) : Position(s) <= Position(t) PROVE s = e
    BY <1>1, <1>2, <1>3
  <1>4. \A t \in Broken(r) : Position(e) <= Position(t)
    BY <1>1, <1>2
  <1>5. FirstBroken(r) = CHOOSE s \in Broken(r) : \A t \in Broken(r) : Position(s) <= Position(t)
    BY DEF FirstBroken, Broken
  <1>6. QED
    BY <1>3, <1>4, <1>5

\* Where nothing is broken there is no first.
LEMMA NoneIs ==
  ASSUME NEW r \in Requests, Broken(r) = {}
  PROVE  FirstBroken(r) = NoErr
  BY DEF FirstBroken, Broken

\* If something is broken, the first one is.
LEMMA FirstIsBroken ==
  ASSUME TypeOK, NEW r \in Requests
  PROVE  FirstBroken(r) \in Broken(r) \cup {NoErr}
  <1>1. CASE Broken(r) = {}
    BY <1>1, NoneIs
  <1>2. CASE Broken(r) # {}
    <2>1. Broken(r) \subseteq Stages
      BY WorldsAreStages DEF TypeOK, Broken
    <2>2. \A s \in Stages : Position(s) \in 1..11
      BY StagesAre, PositionsAre
    <2>3. \E s \in Broken(r) : \A t \in Broken(r) : Position(s) <= Position(t)
      <3>1. PICK e \in Broken(r) : TRUE
        BY <1>2
      <3>2. QED
        BY <2>1, <2>2, <3>1, StagesAre, PositionsAre, SMTT(60)
    <2>4. QED
      BY <1>2, <2>3 DEF FirstBroken, Broken
  <1>3. QED
    BY <1>1, <1>2

-----------------------------------------------------------------------------
(* Type correctness. *)

\* Nothing has happened before the first request.
LEMMA InitTypes == Init => TypeOK
  BY DEF Init, TypeOK, HandlerPcs, NoResult, Results, EmptyCollector, Collectors, Log!LogInit

\* The labels and errors a handler can be given.
HandlerMove(r) == \/ \E label \in HandlerPcs : GoOn(r, label)
                  \/ \E e \in Errors : FailWith(r, e)
                  \/ LeaveWithOutput(r)
\* Such a move keeps the types of what it changes.
LEMMA MoveTypes ==
  ASSUME TypeOK, NEW r \in Requests, HandlerMove(r)
  PROVE  /\ pc' \in [Requests -> HandlerPcs]
         /\ err' \in [Requests -> Errors \cup {NoErr}]
         /\ cancelled' \in [Requests -> BOOLEAN]
  <1>1. ASSUME NEW label \in HandlerPcs, GoOn(r, label)
        PROVE  pc' \in [Requests -> HandlerPcs] /\ UNCHANGED <<err, cancelled>>
    BY <1>1 DEF TypeOK, GoOn, Goto
  <1>2. ASSUME NEW e \in Errors, FailWith(r, e)
        PROVE  /\ pc' \in [Requests -> HandlerPcs]
               /\ err' \in [Requests -> Errors \cup {NoErr}]
               /\ cancelled' \in [Requests -> BOOLEAN]
    BY <1>2 DEF TypeOK, FailWith, Goto, HandlerPcs
  <1>3. ASSUME LeaveWithOutput(r)
        PROVE  /\ pc' \in [Requests -> HandlerPcs] /\ UNCHANGED err
               /\ cancelled' \in [Requests -> BOOLEAN]
    BY <1>3 DEF TypeOK, LeaveWithOutput, Goto, HandlerPcs
  <1>4. QED
    BY <1>1, <1>2, <1>3 DEF HandlerMove, TypeOK

\* A resource more is still a list of resources.
LEMMA ResourceTypes ==
  ASSUME TypeOK, NEW r \in Requests, NEW kindOf \in Resources
  PROVE  AddResource(r, kindOf) \in [Requests -> Collectors]
  <1>1. coll[r].resources \in Seq(Resources) /\ coll[r] \in Collectors
    BY DEF TypeOK, Collectors
  <1>2. Append(coll[r].resources, kindOf) \in Seq(Resources)
    BY <1>1
  <1>3. QED
    BY <1>1, <1>2 DEF TypeOK, AddResource, Collectors

\* The three marks of a collector.
LEMMA MarkTypes ==
  ASSUME TypeOK, NEW r \in Requests, NEW c \in [Requests -> Collectors]
  PROVE  /\ [c EXCEPT ![r].asked = TRUE] \in [Requests -> Collectors]
         /\ [c EXCEPT ![r].parsed = TRUE] \in [Requests -> Collectors]
         /\ [c EXCEPT ![r].compiled = TRUE] \in [Requests -> Collectors]
  <1>1. /\ [c[r] EXCEPT !.asked = TRUE] \in Collectors
        /\ [c[r] EXCEPT !.parsed = TRUE] \in Collectors
        /\ [c[r] EXCEPT !.compiled = TRUE] \in Collectors
    BY DEF Collectors
  <1>2. QED
    BY <1>1

\* Counting keeps a counter a number.
LEMMA CountTypes ==
  ASSUME NEW S, NEW f \in [S -> Nat], NEW s
  PROVE  [f EXCEPT ![s] = @ + 1] \in [S -> Nat]
  <1>1. CASE s \in S
    <2>1. f[s] + 1 \in Nat
      BY <1>1
    <2>2. QED
      BY <2>1
  <1>2. CASE s \notin S
    BY <1>2
  <1>3. QED
    BY <1>1, <1>2

\* What is recorded of a failure is a record.
LEMMA FailureIsRecord ==
  ASSUME TypeOK, NEW r \in Requests, err[r] # NoErr
  PROVE  BuildFailure(r) \in Record
  BY DEF TypeOK, BuildFailure, Record

\* Every step keeps the types; a record is only written of an error.
LEMMA TypesKept ==
  ASSUME ConvertInv, [Next]_vars
  PROVE  TypeOK'
  <1> USE DEF inputs, profile, log
  <1>0. TypeOK /\ \A r \in Requests : RequestInv(r)
    BY DEF ConvertInv
  <1>1. ASSUME NEW r \in Requests, Arrive(r) PROVE TypeOK'
    BY <1>0, <1>1 DEF Arrive, Goto, TypeOK, HandlerPcs
  <1>2. ASSUME NEW r \in Requests, ParseRequest(r) PROVE TypeOK'
    <2>1. HandlerMove(r)
      BY <1>2, StagesAre DEF ParseRequest, HandlerMove, HandlerPcs, Errors
    <2>2. coll' \in [Requests -> Collectors]
      <3>1. coll \in [Requests -> Collectors]
        BY <1>0 DEF TypeOK
      <3>2. [coll EXCEPT ![r].asked = TRUE] \in [Requests -> Collectors]
        BY <1>0, <3>1, MarkTypes
      <3>3. QED
        BY <1>2, <3>1, <3>2 DEF ParseRequest
    <2>3. QED
      BY <1>0, <1>2, <2>1, <2>2, MoveTypes DEF ParseRequest, TypeOK
  <1>3. ASSUME NEW r \in Requests, StartConvert(r) PROVE TypeOK'
    <2>1. HandlerMove(r)
      BY <1>3, StagesAre DEF StartConvert, HandlerMove, HandlerPcs, Errors
    <2>2. ppc' \in [Requests -> {"unborn", "fetch", "send", "gone"}]
      BY <1>0, <1>3 DEF StartConvert, TypeOK
    <2>3. QED
      BY <1>0, <1>3, <2>1, <2>2, MoveTypes DEF StartConvert, TypeOK
  <1>4. ASSUME NEW r \in Requests, FetchProfile(r) PROVE TypeOK'
    <2>1. PICK res \in Results : found' = [found EXCEPT ![r] = res]
      <3>1. /\ [snapshot |-> FALSE, err |-> "ctx"] \in Results
            /\ [snapshot |-> FALSE, err |-> "fetch_profile"] \in Results
            /\ [snapshot |-> TRUE, err |-> "parse_profile"] \in Results
            /\ [snapshot |-> TRUE, err |-> NoErr] \in Results
        BY StagesAre DEF Results, Errors
      <3>2. QED
        BY <1>4, <3>1 DEF FetchProfile
    <2>2. found' \in [Requests -> Results] /\ ppc' \in [Requests -> {"unborn", "fetch", "send", "gone"}]
      BY <1>0, <1>4, <2>1 DEF FetchProfile, TypeOK
    <2>3. QED
      BY <1>0, <1>4, <2>2 DEF FetchProfile, TypeOK
  <1>5. ASSUME NEW r \in Requests, SendProfile(r) PROVE TypeOK'
    <2>1. Append(profCh[r], found[r]) \in Seq(Results)
      BY <1>0 DEF TypeOK
    <2>2. profCh' \in [Requests -> Seq(Results)] /\ ppc' \in [Requests -> {"unborn", "fetch", "send", "gone"}]
      BY <1>0, <1>5, <2>1 DEF SendProfile, TypeOK
    <2>3. QED
      BY <1>0, <1>5, <2>2 DEF SendProfile, TypeOK
  <1>6. ASSUME NEW r \in Requests, ConvertSubs(r) PROVE TypeOK'
    <2>1. HandlerMove(r)
      BY <1>6, StagesAre DEF ConvertSubs, HandlerMove, HandlerPcs, Errors
    <2>2. coll' \in [Requests -> Collectors]
      <3>1. /\ AddResource(r, "sub") \in [Requests -> Collectors]
            /\ [AddResource(r, "sub") EXCEPT ![r].parsed = TRUE] \in [Requests -> Collectors]
        BY <1>0, ResourceTypes, MarkTypes DEF Resources
      <3>2. QED
        BY <1>0, <1>6, <3>1 DEF ConvertSubs, TypeOK
    <2>3. QED
      BY <1>0, <1>6, <2>1, <2>2, MoveTypes DEF ConvertSubs, TypeOK
  <1>7. ASSUME NEW r \in Requests, ReceiveProfile(r) PROVE TypeOK'
    <2>1. profCh[r] \in Seq(Results) /\ profCh[r] # <<>>
      BY <1>0, <1>7 DEF ReceiveProfile, TypeOK
    <2>2. Head(profCh[r]) \in Results /\ Tail(profCh[r]) \in Seq(Results)
      BY <2>1
    <2>3. HandlerMove(r)
      BY <1>7, <2>2 DEF ReceiveProfile, HandlerMove, HandlerPcs, Results
    <2>4. coll' \in [Requests -> Collectors]
      BY <1>0, <1>7, ResourceTypes DEF ReceiveProfile, TypeOK, Resources
    <2>5. profCh' \in [Requests -> Seq(Results)]
      BY <1>0, <1>7, <2>2 DEF ReceiveProfile, TypeOK
    <2>6. QED
      BY <1>0, <1>7, <2>3, <2>4, <2>5, MoveTypes DEF ReceiveProfile, TypeOK
  <1>8. ASSUME NEW r \in Requests, CompileProxies(r) PROVE TypeOK'
    <2>1. HandlerMove(r)
      BY <1>8, StagesAre DEF CompileProxies, HandlerMove, HandlerPcs, Errors
    <2>2. coll' \in [Requests -> Collectors]
      <3>1. coll \in [Requests -> Collectors]
        BY <1>0 DEF TypeOK
      <3>2. [coll EXCEPT ![r].compiled = TRUE] \in [Requests -> Collectors]
        BY <1>0, <3>1, MarkTypes
      <3>3. QED
        BY <1>8, <3>1, <3>2 DEF CompileProxies
    <2>3. QED
      BY <1>0, <1>8, <2>1, <2>2, MoveTypes DEF CompileProxies, TypeOK
  <1>9. ASSUME NEW r \in Requests, RenderBlocks(r) \/ InjectTemplate(r) PROVE TypeOK'
    <2>1. HandlerMove(r)
      BY <1>9, StagesAre DEF RenderBlocks, InjectTemplate, HandlerMove, HandlerPcs, Errors
    <2>2. QED
      BY <1>0, <1>9, <2>1, MoveTypes DEF RenderBlocks, InjectTemplate, TypeOK
  <1>10. ASSUME NEW r \in Requests, FetchTemplate(r) PROVE TypeOK'
    <2>1. HandlerMove(r)
      BY <1>10, StagesAre DEF FetchTemplate, HandlerMove, HandlerPcs, Errors
    <2>2. coll' \in [Requests -> Collectors]
      BY <1>0, <1>10, ResourceTypes DEF FetchTemplate, TypeOK, Resources
    <2>3. QED
      BY <1>0, <1>10, <2>1, <2>2, MoveTypes DEF FetchTemplate, TypeOK
  <1>11. ASSUME NEW r \in Requests, CountError(r) PROVE TypeOK'
    <2>1. pc' \in [Requests -> HandlerPcs]
      BY <1>0, <1>11 DEF CountError, Goto, TypeOK, HandlerPcs
    <2>2. appErrors' \in [Errors -> Nat]
      BY <1>0, <1>11, CountTypes DEF CountError, TypeOK
    <2>3. QED
      BY <1>0, <1>11, <2>1, <2>2 DEF CountError, TypeOK
  <1>12. ASSUME NEW r \in Requests, LogRecord(r) \/ LogTears(r) \/ LogReturns(r) PROVE TypeOK'
    <2>1. BuildFailure(r) \in Record
      BY <1>0, <1>12, FailureIsRecord DEF RequestInv, HandlerInv, LogRecord, LogTears, LogReturns
    <2>2. /\ stored' \subseteq Record /\ torn' \subseteq Record /\ acked' \subseteq Record
          /\ glued' \subseteq Record \X Record
      <3>1. CASE LogRecord(r)
        BY <1>0, <2>1, <3>1 DEF LogRecord, Log!Append, Log!AppendBehind, TypeOK
      <3>2. CASE LogTears(r)
        BY <1>0, <2>1, <3>2 DEF LogTears, Log!Tear, TypeOK
      <3>3. CASE LogReturns(r)
        BY <1>0, <2>1, <3>3 DEF LogReturns, Log!Acknowledge, TypeOK
      <3>4. QED
        BY <1>12, <3>1, <3>2, <3>3
    <2>3. pc' \in [Requests -> HandlerPcs]
      BY <1>0, <1>12 DEF LogRecord, LogTears, LogReturns, Goto, TypeOK, HandlerPcs
    <2>4. degraded' \in {"none", "write_failure", "export_failure", "dir_check"}
      BY <1>0, <1>12 DEF LogRecord, LogTears, LogReturns, Log!Append, Log!AppendBehind, Log!Tear,
         Log!Acknowledge, TypeOK
    <2>5. QED
      BY <1>0, <1>12, <2>2, <2>3, <2>4 DEF LogRecord, LogTears, LogReturns, TypeOK
  <1>13. ASSUME NEW r \in Requests, LogFails(r) PROVE TypeOK'
    BY <1>0, <1>13 DEF LogFails, Goto, Log!Degrade, TypeOK, HandlerPcs
  <1>14. ASSUME NEW r \in Requests, WriteAnswer(r) PROVE TypeOK'
    <2>1. Status(err[r]) \in Statuses
      BY DEF Status, Statuses
    <2>2. QED
      BY <1>0, <1>14, <2>1 DEF WriteAnswer, Goto, TypeOK, HandlerPcs
  <1>15. ASSUME NEW r \in Requests, CountRequest(r) PROVE TypeOK'
    <2>1. byStatus' \in [Statuses -> Nat]
      BY <1>0, <1>15, CountTypes DEF CountRequest, TypeOK
    <2>2. pc' \in [Requests -> HandlerPcs]
      BY <1>0, <1>15 DEF CountRequest, Goto, TypeOK, HandlerPcs
    <2>3. QED
      BY <1>0, <1>15, <2>1, <2>2 DEF CountRequest, TypeOK
  <1>16. ASSUME NEW r \in Requests, RequestEnds(r) PROVE TypeOK'
    BY <1>0, <1>16 DEF RequestEnds, TypeOK
  <1>17. CASE LogRecovers
    BY <1>0, <1>17 DEF LogRecovers, Log!Recover, requestVars, TypeOK
  <1>18. CASE Signal \/ ShutdownCompletes \/ ShutdownTimesOut \/ ListenerFails
    BY <1>0, <1>18 DEF Signal, ShutdownCompletes, ShutdownTimesOut, ListenerFails, requestVars, TypeOK
  <1>19. CASE Killed
    <2>1. {BuildFailure(r) : r \in {q \in Requests : pc[q] = "log"}} \subseteq Record
      BY <1>0, FailureIsRecord DEF RequestInv, HandlerInv
    <2>2. Log!Written \subseteq Record
      BY <1>0 DEF Log!Written, TypeOK
    <2>3. /\ stored' \subseteq Record /\ torn' \subseteq Record /\ glued' \subseteq Record \X Record
          /\ UNCHANGED acked /\ degraded' = "none"
      BY <1>0, <1>19, <2>1, <2>2 DEF Killed, Log!Lose, TypeOK
    <2>4. QED
      BY <1>0, <1>19, <2>3 DEF Killed, requestVars, TypeOK
  <1>20. CASE UNCHANGED vars
    BY <1>0, <1>20 DEF vars, TypeOK
  <1>21. QED
    BY <1>1, <1>2, <1>3, <1>4, <1>5, <1>6, <1>7, <1>8, <1>9, <1>10, <1>11, <1>12, <1>13, <1>14,
       <1>15, <1>16, <1>17, <1>18, <1>19, <1>20
    DEF Next, HandlerStep, ProfileStep, Exited

-----------------------------------------------------------------------------
(* What a request's own step does to its invariant. *)

\* The stages of each kind.
LEMMA KindHas ==
  ASSUME TypeOK, NEW r \in Requests
  PROVE  /\ {"validate", "filename", "fetch_sub", "parse_sub", "compile"} \subseteq OfKind(kind[r])
         /\ kind[r] = "list" =>
              OfKind(kind[r]) = {"validate", "filename", "fetch_sub", "parse_sub", "compile"}
         /\ kind[r] # "list" => Stages \ {"managed"} \subseteq OfKind(kind[r])
         /\ "managed" \in OfKind(kind[r]) <=> kind[r] = "surge"
  BY KindsAreKnown, StagesAre DEF TypeOK, OfKind

\* A sequence with the elements of another and one more is that with it appended.
LEMMA AppendIs ==
  ASSUME NEW S, NEW s \in Seq(S), NEW t \in Seq(S), NEW c \in S,
         Len(t) = Len(s) + 1, \A i \in 1..Len(s) : t[i] = s[i], t[Len(t)] = c
  PROVE  Append(s, c) = t
  <1>1. Append(s, c) \in Seq(S) /\ Len(Append(s, c)) = Len(t)
    OBVIOUS
  <1>2. \A i \in 1..Len(t) : t[i] = Append(s, c)[i]
    OBVIOUS
  <1>3. QED
    BY <1>1, <1>2, SeqEqual

\* So for short sequences.
LEMMA AppendToOne ==
  ASSUME NEW a, NEW b
  PROVE  Append(<<a>>, b) = <<a, b>>
  <1> DEFINE s == <<a>>  t == <<a, b>>
  <1>1. s \in Seq({a, b}) /\ t \in Seq({a, b}) /\ b \in {a, b}
    OBVIOUS
  <1>2. Len(t) = Len(s) + 1 /\ t[Len(t)] = b
    OBVIOUS
  <1>3. \A i \in 1..Len(s) : t[i] = s[i]
    OBVIOUS
  <1>4. Append(s, b) = t
    <2> HIDE DEF s, t
    <2>1. QED
      BY <1>1, <1>2, <1>3, AppendIs
  <1>5. QED
    BY <1>4

\* The same for two and one more.
LEMMA AppendToTwo ==
  ASSUME NEW a, NEW b, NEW c
  PROVE  Append(<<a, b>>, c) = <<a, b, c>>
  <1> DEFINE s == <<a, b>>  t == <<a, b, c>>
  <1>1. s \in Seq({a, b, c}) /\ t \in Seq({a, b, c}) /\ c \in {a, b, c}
    OBVIOUS
  <1>2. Len(t) = Len(s) + 1 /\ t[Len(t)] = c
    OBVIOUS
  <1>3. \A i \in 1..Len(s) : t[i] = s[i]
    OBVIOUS
  <1>4. Append(s, c) = t
    <2> HIDE DEF s, t
    <2>1. QED
      BY <1>1, <1>2, <1>3, AppendIs
  <1>5. QED
    BY <1>4

\* The collectors of a conversion are prefixes of the three resources.
LEMMA CollectorsGrow ==
  /\ IsPrefix(<<>>, ResourceOrder) /\ ToSet(<<>>) = {}
  /\ IsPrefix(<<"sub">>, ResourceOrder) /\ ToSet(<<"sub">>) = {"sub"}
  /\ IsPrefix(<<"sub", "profile">>, ResourceOrder) /\ ToSet(<<"sub", "profile">>) = {"sub", "profile"}
  /\ IsPrefix(ResourceOrder, ResourceOrder) /\ ToSet(ResourceOrder) = Resources
  /\ Append(<<>>, "sub") = <<"sub">> /\ Append(<<"sub">>, "profile") = <<"sub", "profile">>
  /\ Append(<<"sub", "profile">>, "template") = ResourceOrder
  <1>1. /\ Append(<<>>, "sub") = <<"sub">> /\ Append(<<"sub">>, "profile") = <<"sub", "profile">>
        /\ Append(<<"sub", "profile">>, "template") = ResourceOrder
    <2>1. Append(<<>>, "sub") = <<"sub">>
      OBVIOUS
    <2>2. Append(<<"sub">>, "profile") = <<"sub", "profile">>
      BY AppendToOne
    <2>3. Append(<<"sub", "profile">>, "template") = ResourceOrder
      BY AppendToTwo DEF ResourceOrder
    <2>4. QED
      BY <2>1, <2>2, <2>3
  <1>2. /\ ToSet(<<>>) = {} /\ ToSet(<<"sub">>) = {"sub"}
        /\ ToSet(<<"sub", "profile">>) = {"sub", "profile"}
        /\ ToSet(ResourceOrder) = Resources
    BY DEF ToSet, ResourceOrder, Resources
  <1>3. IsPrefix(<<>>, ResourceOrder)
    BY DEF IsPrefix, ResourceOrder
  <1>4. IsPrefix(<<"sub">>, ResourceOrder)
    BY DEF IsPrefix, ResourceOrder
  <1>5. IsPrefix(<<"sub", "profile">>, ResourceOrder)
    BY DEF IsPrefix, ResourceOrder
  <1>6. IsPrefix(ResourceOrder, ResourceOrder)
    BY DEF IsPrefix, ResourceOrder
  <1>7. QED
    BY <1>1, <1>2, <1>3, <1>4, <1>5, <1>6, Zenon

\* The record of a failure is explained by its collector.
LEMMA ExplainedBy ==
  ASSUME NEW r, NEW e, NEW c, IsPrefix(c.resources, ResourceOrder),
         e # "ctx" => ToSet(c.resources) =
                        Needed(e) \cap (IF kind[r] = "list" THEN {"sub"} ELSE Resources),
         c.compiled => "profile" \in ToSet(c.resources)
  PROVE  Explained([request |-> r, err |-> e, coll |-> c])
  BY DEF Explained

\* A stage that breaks when everything before it has passed is the answer.
LEMMA FailsFirst ==
  ASSUME TypeOK, NEW r \in Requests, NEW e \in Broken(r),
         \A s \in Broken(r) : Position(s) >= Position(e)
  PROVE  FirstBroken(r) = e
  <1>1. Broken(r) \subseteq Stages
    BY WorldsAreStages DEF TypeOK, Broken
  <1>2. \A s \in Stages : s = e \/ Position(s) # Position(e)
    BY <1>1, StagesAre, PositionsAre
  <1>3. \A s \in Stages : Position(s) \in 1..11
    BY StagesAre, PositionsAre
  <1>4. \A s \in Broken(r) : s = e \/ Position(e) < Position(s)
    BY <1>1, <1>2, <1>3
  <1>5. QED
    BY <1>4, FirstIs

\* A context that has ended may decide once the request itself was good.
LEMMA ContextFails ==
  ASSUME TypeOK, NEW r \in Requests, Broken(r) \cap {"validate", "filename"} = {}
  PROVE  FirstBroken(r) \notin {"validate", "filename"}
  BY FirstIsBroken DEF NoErr

\* A handler that fails for the right reason with the right collector.
LEMMA FailureKeeps ==
  ASSUME TypeOK, NEW r \in Requests, NEW e \in Errors, HandlerInv(r), ~Decided(r),
         FailWith(r, e), UNCHANGED <<inputs, ended, answer>>,
         \/ e = FirstBroken(r)
         \/ ended[r] /\ e = "ctx" /\ FirstBroken(r) \notin {"validate", "filename"},
         Explained([request |-> r, err |-> e, coll |-> coll'[r]])
  PROVE  HandlerInv(r)'
  <1>1. pc'[r] = "error" /\ err'[r] = e /\ answer'[r] = "none"
    BY DEF TypeOK, FailWith, Goto, HandlerInv, OnTheWay, inputs
  <1>2. e # NoErr
    BY StagesAre DEF Errors, NoErr
  <1>3. FirstBroken(r)' = FirstBroken(r) /\ ended'[r] = ended[r]
    BY DEF FirstBroken, inputs
  <1>4. Determined(r)'
    BY <1>1, <1>3 DEF Determined
  <1>5. BuildFailure(r)' = [request |-> r, err |-> e, coll |-> coll'[r]]
    BY <1>1 DEF BuildFailure
  <1>6. kind' = kind
    BY DEF inputs
  <1>7. Explained(BuildFailure(r))'
    BY <1>5, <1>6 DEF Explained
  <1>8. QED
    BY <1>1, <1>2, <1>4, <1>7 DEF HandlerInv, Decided

\* The profile goroutine keeps its promise whatever the handler does.
LEMMA ProfileKeeps ==
  ASSUME NEW r \in Requests, ProfileInv(r), profCh[r] \in Seq(Results), UNCHANGED broken,
         CtxDone(r) => CtxDone(r)', found'[r] = found[r],
         ppc'[r] = "send" => ppc[r] = "send",
         \/ profCh'[r] = profCh[r]
         \/ profCh[r] # <<>> /\ profCh'[r] = Tail(profCh[r])
  PROVE  ProfileInv(r)'
  <1>2. ASSUME NEW i \in 1..Len(profCh'[r]) PROVE \E j \in 1..Len(profCh[r]) : profCh'[r][i] = profCh[r][j]
    <2>1. CASE profCh'[r] = profCh[r]
      BY <2>1, <1>2
    <2>2. CASE profCh[r] # <<>> /\ profCh'[r] = Tail(profCh[r])
      <3>1. Len(Tail(profCh[r])) = Len(profCh[r]) - 1 /\ Len(profCh[r]) \in Nat
        BY <2>2
      <3>2. i + 1 \in 1..Len(profCh[r]) /\ profCh'[r][i] = profCh[r][i + 1]
        BY <2>2, <3>1, <1>2
      <3>3. QED
        BY <3>2
    <2>3. QED
      BY <2>1, <2>2
  <1>3. ASSUME NEW i \in 1..Len(profCh'[r]) PROVE Fits(r, profCh[r][i])'
    <2>1. PICK j \in 1..Len(profCh[r]) : profCh'[r][i] = profCh[r][j]
      BY <1>2
    <2>2. Fits(r, profCh[r][j])
      BY DEF ProfileInv
    <2>3. QED
      BY <2>1, <2>2 DEF Fits, Breaks
  <1>4. ASSUME ppc'[r] = "send" PROVE Fits(r, found[r])'
    BY <1>4 DEF ProfileInv, Fits, Breaks
  <1>5. QED
    BY <1>3, <1>4 DEF ProfileInv

\* Every step of a handler keeps what is known of its conversion.
LEMMA EarlyStepKeeps ==
  ASSUME TypeOK, NEW r \in Requests, HandlerInv(r),
         ParseRequest(r) \/ StartConvert(r) \/ RenderBlocks(r)
  PROVE  HandlerInv(r)'
  <1>0. /\ ~Decided(r) /\ OnTheWay(r) /\ coll[r] \in Collectors
        /\ UNCHANGED <<inputs, ended, answer>> /\ Broken(r) \subseteq Stages
    BY WorldsAreStages DEF HandlerInv, Decided, ParseRequest, StartConvert, RenderBlocks, TypeOK, Broken, inputs
  <1>1. ASSUME ParseRequest(r), Breaks(r, "validate") PROVE HandlerInv(r)'
    <2>1. FailWith(r, "validate") /\ coll' = coll /\ pc[r] = "parse" /\ "validate" \in Broken(r)
      BY <1>1, KindHas DEF ParseRequest, Breaks, Broken
    <2>2. FirstBroken(r) = "validate"
      BY <1>0, <2>1, StagesAre, PositionsAre, FailsFirst
    <2>3. Explained([request |-> r, err |-> "validate", coll |-> coll'[r]])
      <3>1. coll'[r].resources = <<>> /\ ~coll'[r].compiled
        BY <1>0, <2>1 DEF OnTheWay, Fetched
      <3>2. QED
        BY <3>1, CollectorsGrow, ExplainedBy DEF Needed
    <2>4. "validate" \in Errors
      BY StagesAre DEF Errors
    <2>5. QED
      BY <1>0, <2>1, <2>2, <2>3, <2>4, FailureKeeps
  <1>2. ASSUME ParseRequest(r), ~Breaks(r, "validate") PROVE HandlerInv(r)'
    <2>1. /\ pc[r] = "parse" /\ pc'[r] = "attach" /\ err' = err /\ cancelled' = cancelled
          /\ coll'[r].resources = coll[r].resources /\ coll'[r].compiled = coll[r].compiled
      BY <1>0, <1>2 DEF ParseRequest, GoOn, Goto, TypeOK, Collectors
    <2>2. OnTheWay(r)'
      BY <1>0, <1>2, <2>1 DEF OnTheWay, Broken, Behind, Fetched, Breaks, inputs
    <2>3. QED
      BY <1>0, <2>1, <2>2 DEF HandlerInv, Decided, OnTheWay
  <1>3. ASSUME StartConvert(r), BadFileName(r) PROVE HandlerInv(r)'
    <2>1. FailWith(r, "filename") /\ coll' = coll /\ pc[r] = "attach" /\ "filename" \in Broken(r)
      BY <1>3, KindHas DEF StartConvert, BadFileName, Breaks, Broken
    <2>2. "validate" \notin Broken(r)
      BY <1>0, <2>1 DEF OnTheWay, Behind
    <2>3. FirstBroken(r) = "filename"
      BY <1>0, <2>1, <2>2, StagesAre, PositionsAre, FailsFirst
    <2>4. Explained([request |-> r, err |-> "filename", coll |-> coll'[r]])
      <3>1. coll'[r].resources = <<>> /\ ~coll'[r].compiled
        BY <1>0, <2>1 DEF OnTheWay, Fetched
      <3>2. QED
        BY <3>1, CollectorsGrow, ExplainedBy DEF Needed
    <2>5. "filename" \in Errors
      BY StagesAre DEF Errors
    <2>6. QED
      BY <1>0, <2>1, <2>3, <2>4, <2>5, FailureKeeps
  <1>4. ASSUME StartConvert(r), ~BadFileName(r) PROVE HandlerInv(r)'
    <2>1. /\ pc[r] = "attach" /\ pc'[r] = "subs" /\ err' = err /\ cancelled' = cancelled /\ coll' = coll
      BY <1>0, <1>4 DEF StartConvert, GoOn, Goto, TypeOK
    <2>2. OnTheWay(r)'
      BY <1>0, <1>4, <2>1 DEF OnTheWay, Broken, Behind, Fetched, Breaks, BadFileName, inputs
    <2>3. QED
      BY <1>0, <2>1, <2>2 DEF HandlerInv, Decided, OnTheWay
  <1>5. ASSUME RenderBlocks(r), Breaks(r, "render") PROVE HandlerInv(r)'
    <2>1. FailWith(r, "render") /\ coll' = coll /\ pc[r] = "render" /\ kind[r] # "list"
      BY <1>0, <1>5 DEF RenderBlocks, OnTheWay
    <2>2. "render" \in Broken(r)
      BY <1>5, <2>1, KindHas, StagesAre DEF Breaks, Broken
    <2>3. Broken(r) \cap {"validate", "filename", "fetch_sub", "parse_sub", "fetch_profile",
                          "parse_profile", "compile"} = {}
      BY <1>0, <2>1 DEF OnTheWay, Behind
    <2>4. FirstBroken(r) = "render"
      BY <1>0, <2>2, <2>3, StagesAre, PositionsAre, FailsFirst
    <2>5. Explained([request |-> r, err |-> "render", coll |-> coll'[r]])
      <3>1. coll'[r].resources = <<"sub", "profile">>
        BY <1>0, <2>1 DEF OnTheWay, Fetched
      <3>2. QED
        BY <2>1, <3>1, CollectorsGrow, ExplainedBy DEF Needed, Resources
    <2>6. "render" \in Errors
      BY StagesAre DEF Errors
    <2>7. QED
      BY <1>0, <2>1, <2>4, <2>5, <2>6, FailureKeeps
  <1>6. ASSUME RenderBlocks(r), ~Breaks(r, "render") PROVE HandlerInv(r)'
    <2>1. /\ pc[r] = "render" /\ pc'[r] = "template" /\ err' = err /\ cancelled' = cancelled /\ coll' = coll
      BY <1>0, <1>6 DEF RenderBlocks, GoOn, Goto, TypeOK
    <2>2. OnTheWay(r)'
      BY <1>0, <1>6, <2>1, StagesAre DEF OnTheWay, Broken, Behind, Fetched, Breaks, inputs
    <2>3. QED
      BY <1>0, <2>1, <2>2 DEF HandlerInv, Decided, OnTheWay
  <1>7. QED
    BY <1>1, <1>2, <1>3, <1>4, <1>5, <1>6

\* What a resource does to the collector of a request.
LEMMA ResourceAdded ==
  ASSUME TypeOK, NEW r \in Requests, NEW kindOf
  PROVE  /\ AddResource(r, kindOf)[r].resources = Append(coll[r].resources, kindOf)
         /\ AddResource(r, kindOf)[r].compiled = coll[r].compiled
         /\ [AddResource(r, kindOf) EXCEPT ![r].parsed = TRUE][r].resources = Append(coll[r].resources, kindOf)
         /\ [AddResource(r, kindOf) EXCEPT ![r].parsed = TRUE][r].compiled = coll[r].compiled
  <1>1. coll[r] \in Collectors /\ r \in DOMAIN coll
    BY DEF TypeOK
  <1>2. AddResource(r, kindOf)[r] = [coll[r] EXCEPT !.resources = Append(coll[r].resources, kindOf)]
    BY <1>1 DEF AddResource
  <1>3. /\ AddResource(r, kindOf)[r].resources = Append(coll[r].resources, kindOf)
        /\ AddResource(r, kindOf)[r].compiled = coll[r].compiled
    BY <1>1, <1>2 DEF Collectors
  <1>4. r \in DOMAIN AddResource(r, kindOf)
    BY <1>1 DEF AddResource
  <1>5. [AddResource(r, kindOf) EXCEPT ![r].parsed = TRUE][r] = [AddResource(r, kindOf)[r] EXCEPT !.parsed = TRUE]
    BY <1>4
  <1>6. QED
    BY <1>1, <1>2, <1>3, <1>5 DEF Collectors

\* The subscriptions: only the request itself is behind them.
LEMMA SubsStepKeeps ==
  ASSUME TypeOK, NEW r \in Requests, HandlerInv(r), ConvertSubs(r)
  PROVE  HandlerInv(r)'
  <1>0. /\ ~Decided(r) /\ OnTheWay(r) /\ pc[r] = "subs" /\ coll[r] \in Collectors
        /\ UNCHANGED <<inputs, ended, answer>> /\ Broken(r) \subseteq Stages
    BY WorldsAreStages DEF HandlerInv, Decided, ConvertSubs, TypeOK, Broken, inputs
  <1>1. /\ Broken(r) \cap {"validate", "filename"} = {} /\ ~cancelled[r]
        /\ coll[r].resources = <<>> /\ ~coll[r].compiled
    BY <1>0 DEF OnTheWay, Behind, Fetched
  <1>2. "ctx" \in Errors /\ "fetch_sub" \in Errors /\ "parse_sub" \in Errors
    BY StagesAre DEF Errors
  <1>3. ASSUME CtxDone(r), FailWith(r, "ctx"), coll' = coll PROVE HandlerInv(r)'
    <2>1. ended[r] /\ FirstBroken(r) \notin {"validate", "filename"}
      BY <1>1, <1>3, ContextFails DEF CtxDone
    <2>2. Explained([request |-> r, err |-> "ctx", coll |-> coll'[r]])
      BY <1>1, <1>3, CollectorsGrow, ExplainedBy
    <2>3. QED
      BY <1>0, <1>2, <1>3, <2>1, <2>2, FailureKeeps
  <1>4. ASSUME Breaks(r, "fetch_sub"), FailWith(r, "fetch_sub"), coll' = coll PROVE HandlerInv(r)'
    <2>1. "fetch_sub" \in Broken(r)
      BY <1>4, KindHas DEF Breaks, Broken
    <2>2. FirstBroken(r) = "fetch_sub"
      BY <1>0, <1>1, <2>1, StagesAre, PositionsAre, FailsFirst
    <2>3. Explained([request |-> r, err |-> "fetch_sub", coll |-> coll'[r]])
      BY <1>1, <1>4, CollectorsGrow, ExplainedBy DEF Needed
    <2>4. QED
      BY <1>0, <1>2, <1>4, <2>2, <2>3, FailureKeeps
  <1>5. ASSUME ~Breaks(r, "fetch_sub"), Breaks(r, "parse_sub"), FailWith(r, "parse_sub"),
               coll' = AddResource(r, "sub")
        PROVE  HandlerInv(r)'
    <2>1. "parse_sub" \in Broken(r) /\ "fetch_sub" \notin Broken(r)
      BY <1>5, KindHas DEF Breaks, Broken
    <2>2. FirstBroken(r) = "parse_sub"
      BY <1>0, <1>1, <2>1, StagesAre, PositionsAre, FailsFirst
    <2>3. coll'[r].resources = <<"sub">> /\ ~coll'[r].compiled
      BY <1>1, <1>5, ResourceAdded, CollectorsGrow
    <2>4. Explained([request |-> r, err |-> "parse_sub", coll |-> coll'[r]])
      BY <2>3, CollectorsGrow, ExplainedBy DEF Needed, Resources
    <2>5. QED
      BY <1>0, <1>2, <1>5, <2>2, <2>4, FailureKeeps
  <1>6. ASSUME ~Breaks(r, "fetch_sub"), ~Breaks(r, "parse_sub"),
               coll' = [AddResource(r, "sub") EXCEPT ![r].parsed = TRUE],
               GoOn(r, IF kind[r] = "list" THEN "compile" ELSE "recv")
        PROVE  HandlerInv(r)'
    <2>1. /\ pc'[r] = IF kind[r] = "list" THEN "compile" ELSE "recv"
          /\ err' = err /\ cancelled' = cancelled
      BY <1>6 DEF GoOn, Goto, TypeOK
    <2>2. coll'[r].resources = <<"sub">> /\ ~coll'[r].compiled
      BY <1>1, <1>6, ResourceAdded, CollectorsGrow
    <2>3. Broken(r)' \cap {"validate", "filename", "fetch_sub", "parse_sub"} = {}
      BY <1>0, <1>1, <1>6 DEF Breaks, Broken, inputs
    <2>4. CASE kind[r] = "list"
      <3>1. Broken(r)' \cap {"fetch_profile", "parse_profile"} = {}
        BY <1>0, <2>4, KindHas DEF Broken, inputs
      <3>2. OnTheWay(r)'
        BY <1>0, <2>1, <2>2, <2>3, <2>4, <3>1 DEF OnTheWay, Behind, Fetched, inputs
      <3>3. QED
        BY <1>0, <2>1, <2>4, <3>2 DEF HandlerInv, Decided, OnTheWay
    <2>5. CASE kind[r] # "list"
      <3>1. OnTheWay(r)'
        BY <1>0, <2>1, <2>2, <2>3, <2>5 DEF OnTheWay, Behind, Fetched, inputs
      <3>2. QED
        BY <1>0, <2>1, <2>5, <3>1 DEF HandlerInv, Decided, OnTheWay
    <2>6. QED
      BY <2>4, <2>5
  <1>7. QED
    BY <1>3, <1>4, <1>5, <1>6 DEF ConvertSubs

\* The profile: what the goroutine hands over fits the upstream, and is received
\* only when the subscriptions are good.
LEMMA ProfileStepKeeps ==
  ASSUME TypeOK, NEW r \in Requests, HandlerInv(r), ProfileInv(r), ReceiveProfile(r)
  PROVE  HandlerInv(r)'
  <1> DEFINE pr == Head(profCh[r])
  <1>0. /\ ~Decided(r) /\ OnTheWay(r) /\ pc[r] = "recv" /\ coll[r] \in Collectors
        /\ UNCHANGED <<inputs, ended, answer>> /\ Broken(r) \subseteq Stages
    BY WorldsAreStages DEF HandlerInv, Decided, ReceiveProfile, TypeOK, Broken, inputs
  <1>1. /\ Broken(r) \cap {"validate", "filename", "fetch_sub", "parse_sub"} = {} /\ ~cancelled[r]
        /\ coll[r].resources = <<"sub">> /\ ~coll[r].compiled /\ kind[r] # "list"
    BY <1>0 DEF OnTheWay, Behind, Fetched
  <1>2. "ctx" \in Errors /\ "fetch_profile" \in Errors /\ "parse_profile" \in Errors
    BY StagesAre DEF Errors
  <1>3. Fits(r, pr)
    <2>1. profCh[r] \in Seq(Results) /\ profCh[r] # <<>>
      BY DEF TypeOK, ReceiveProfile
    <2>2. 1 \in 1..Len(profCh[r]) /\ pr = profCh[r][1]
      BY <2>1
    <2>3. QED
      BY <2>2 DEF ProfileInv
  <1>4. /\ coll' = IF pr.snapshot THEN AddResource(r, "profile") ELSE coll
        /\ IF pr.err # NoErr THEN FailWith(r, pr.err) ELSE GoOn(r, "compile")
    BY DEF ReceiveProfile
  <1> HIDE DEF pr
  <1>5. AddResource(r, "profile")[r].resources = <<"sub", "profile">> /\ ~AddResource(r, "profile")[r].compiled
    BY <1>1, ResourceAdded, CollectorsGrow, SMTT(30)
  <1>6. ASSUME pr.err = "ctx", ~pr.snapshot, CtxDone(r) PROVE HandlerInv(r)'
    <2>1. ended[r] /\ FirstBroken(r) \notin {"validate", "filename"}
      BY <1>1, <1>6, ContextFails DEF CtxDone
    <2>2. FailWith(r, "ctx") /\ coll' = coll
      BY <1>4, <1>6 DEF NoErr
    <2>3. Explained([request |-> r, err |-> "ctx", coll |-> coll'[r]])
      BY <1>1, <2>2, CollectorsGrow, ExplainedBy
    <2>4. QED
      BY <1>0, <1>2, <2>1, <2>2, <2>3, FailureKeeps
  <1>7. ASSUME pr.err = "fetch_profile", ~pr.snapshot, Breaks(r, "fetch_profile") PROVE HandlerInv(r)'
    <2>1. "fetch_profile" \in Broken(r)
      BY <1>1, <1>7, KindHas, StagesAre DEF Breaks, Broken
    <2>2. FirstBroken(r) = "fetch_profile"
      BY <1>0, <1>1, <2>1, StagesAre, PositionsAre, FailsFirst
    <2>3. FailWith(r, "fetch_profile") /\ coll' = coll
      BY <1>4, <1>7 DEF NoErr
    <2>4. Explained([request |-> r, err |-> "fetch_profile", coll |-> coll'[r]])
      BY <1>1, <2>3, CollectorsGrow, ExplainedBy DEF Needed, Resources
    <2>5. QED
      BY <1>0, <1>2, <2>2, <2>3, <2>4, FailureKeeps
  <1>8. ASSUME pr.err = "parse_profile", pr.snapshot, Breaks(r, "parse_profile"), ~Breaks(r, "fetch_profile")
        PROVE  HandlerInv(r)'
    <2>1. "parse_profile" \in Broken(r) /\ "fetch_profile" \notin Broken(r)
      BY <1>1, <1>8, KindHas, StagesAre DEF Breaks, Broken
    <2>2. FirstBroken(r) = "parse_profile"
      BY <1>0, <1>1, <2>1, StagesAre, PositionsAre, FailsFirst
    <2>3. FailWith(r, "parse_profile") /\ coll' = AddResource(r, "profile")
      BY <1>4, <1>8 DEF NoErr
    <2>4. Explained([request |-> r, err |-> "parse_profile", coll |-> coll'[r]])
      BY <1>1, <1>5, <2>3, CollectorsGrow, ExplainedBy DEF Needed, Resources
    <2>5. QED
      BY <1>0, <1>2, <2>2, <2>3, <2>4, FailureKeeps
  <1>9. ASSUME pr.err = NoErr, pr.snapshot, ~Breaks(r, "parse_profile"), ~Breaks(r, "fetch_profile")
        PROVE  HandlerInv(r)'
    <2>1. pc'[r] = "compile" /\ err' = err /\ cancelled' = cancelled /\ coll' = AddResource(r, "profile")
      BY <1>4, <1>9 DEF GoOn, Goto, TypeOK
    <2>2. OnTheWay(r)'
      BY <1>0, <1>1, <1>5, <1>9, <2>1 DEF OnTheWay, Broken, Behind, Fetched, Breaks, inputs
    <2>3. QED
      BY <1>0, <2>1, <2>2 DEF HandlerInv, Decided, OnTheWay
  <1>10. QED
    BY <1>3, <1>6, <1>7, <1>8, <1>9 DEF Fits

\* A conversion that has passed every stage of its kind has nothing broken.
LEMMA SuccessKeeps ==
  ASSUME TypeOK, NEW r \in Requests, HandlerInv(r), ~Decided(r), Broken(r) = {},
         LeaveWithOutput(r), UNCHANGED <<inputs, answer>>
  PROVE  HandlerInv(r)'
  <1>1. pc'[r] = "respond" /\ err'[r] = NoErr /\ answer'[r] = "none"
    BY DEF TypeOK, LeaveWithOutput, Goto, HandlerInv, OnTheWay
  <1>2. FirstBroken(r)' = NoErr
    BY NoneIs DEF FirstBroken, inputs
  <1>3. QED
    BY <1>1, <1>2 DEF HandlerInv, Decided, Determined

\* Compiling, after which a list is complete.
LEMMA CompileStepKeeps ==
  ASSUME TypeOK, NEW r \in Requests, HandlerInv(r), CompileProxies(r)
  PROVE  HandlerInv(r)'
  <1>0. /\ ~Decided(r) /\ OnTheWay(r) /\ pc[r] = "compile" /\ coll[r] \in Collectors
        /\ UNCHANGED <<inputs, ended, answer>> /\ Broken(r) \subseteq Stages
    BY WorldsAreStages DEF HandlerInv, Decided, CompileProxies, TypeOK, Broken, inputs
  <1>1. /\ Broken(r) \cap {"validate", "filename", "fetch_sub", "parse_sub", "fetch_profile", "parse_profile"} = {}
        /\ coll[r].resources = IF kind[r] = "list" THEN <<"sub">> ELSE <<"sub", "profile">>
        /\ ~coll[r].compiled
    BY <1>0 DEF OnTheWay, Behind, Fetched
  <1>2. ASSUME Breaks(r, "compile"), FailWith(r, "compile"), coll' = coll PROVE HandlerInv(r)'
    <2>1. "compile" \in Broken(r) /\ "compile" \in Errors
      BY <1>2, KindHas, StagesAre DEF Breaks, Broken, Errors
    <2>2. FirstBroken(r) = "compile"
      BY <1>0, <1>1, <2>1, StagesAre, PositionsAre, FailsFirst
    <2>3. Explained([request |-> r, err |-> "compile", coll |-> coll'[r]])
      BY <1>1, <1>2, CollectorsGrow, ExplainedBy DEF Needed, Resources
    <2>4. QED
      BY <1>0, <1>2, <2>1, <2>2, <2>3, FailureKeeps
  <1>3. ASSUME ~Breaks(r, "compile"), kind[r] = "list", LeaveWithOutput(r) PROVE HandlerInv(r)'
    <2>1. Broken(r) = {}
      BY <1>1, <1>3, KindHas DEF Breaks, Broken
    <2>2. QED
      BY <1>0, <1>3, <2>1, SuccessKeeps
  <1>4. ASSUME ~Breaks(r, "compile"), kind[r] # "list", GoOn(r, "render"),
               coll' = [coll EXCEPT ![r].compiled = TRUE]
        PROVE  HandlerInv(r)'
    <2>1. /\ pc'[r] = "render" /\ err' = err /\ cancelled' = cancelled
          /\ coll'[r].resources = <<"sub", "profile">>
      BY <1>0, <1>1, <1>4 DEF GoOn, Goto, TypeOK, Collectors
    <2>2. OnTheWay(r)'
      BY <1>0, <1>1, <1>4, <2>1 DEF OnTheWay, Broken, Behind, Fetched, Breaks, inputs
    <2>3. QED
      BY <1>0, <2>1, <2>2 DEF HandlerInv, Decided, OnTheWay
  <1>5. QED
    BY <1>2, <1>3, <1>4 DEF CompileProxies

\* The template, the last fetch a context can end.
LEMMA TemplateStepKeeps ==
  ASSUME TypeOK, NEW r \in Requests, HandlerInv(r), FetchTemplate(r)
  PROVE  HandlerInv(r)'
  <1>0. /\ ~Decided(r) /\ OnTheWay(r) /\ pc[r] = "template" /\ coll[r] \in Collectors
        /\ UNCHANGED <<inputs, ended, answer>> /\ Broken(r) \subseteq Stages
    BY WorldsAreStages DEF HandlerInv, Decided, FetchTemplate, TypeOK, Broken, inputs
  <1>1. /\ Broken(r) \cap (Stages \ {"fetch_template", "inject", "managed"}) = {}
        /\ coll[r].resources = <<"sub", "profile">> /\ ~cancelled[r] /\ kind[r] # "list"
    BY <1>0 DEF OnTheWay, Behind, Fetched
  <1>2. ASSUME CtxDone(r), FailWith(r, "ctx"), coll' = coll PROVE HandlerInv(r)'
    <2>1. ended[r] /\ FirstBroken(r) \notin {"validate", "filename"}
      BY <1>1, <1>2, ContextFails, StagesAre DEF CtxDone
    <2>2. Explained([request |-> r, err |-> "ctx", coll |-> coll'[r]])
      BY <1>1, <1>2, CollectorsGrow, ExplainedBy
    <2>3. "ctx" \in Errors
      BY DEF Errors
    <2>4. QED
      BY <1>0, <1>2, <2>1, <2>2, <2>3, FailureKeeps
  <1>3. ASSUME Breaks(r, "fetch_template"), FailWith(r, "fetch_template"), coll' = coll PROVE HandlerInv(r)'
    <2>1. "fetch_template" \in Broken(r) /\ "fetch_template" \in Errors
      BY <1>1, <1>3, KindHas, StagesAre DEF Breaks, Broken, Errors
    <2>2. FirstBroken(r) = "fetch_template"
      BY <1>0, <1>1, <2>1, StagesAre, PositionsAre, FailsFirst
    <2>3. Explained([request |-> r, err |-> "fetch_template", coll |-> coll'[r]])
      BY <1>1, <1>3, CollectorsGrow, ExplainedBy DEF Needed, Resources
    <2>4. QED
      BY <1>0, <1>3, <2>1, <2>2, <2>3, FailureKeeps
  <1>4. ASSUME ~Breaks(r, "fetch_template"), coll' = AddResource(r, "template"), GoOn(r, "inject")
        PROVE  HandlerInv(r)'
    <2>1. /\ pc'[r] = "inject" /\ err' = err /\ cancelled' = cancelled
          /\ coll'[r].resources = ResourceOrder
      <3>1. AddResource(r, "template")[r].resources = ResourceOrder
        BY <1>1, ResourceAdded, CollectorsGrow
      <3>2. pc'[r] = "inject" /\ err' = err /\ cancelled' = cancelled
        BY <1>4 DEF GoOn, Goto, TypeOK
      <3>3. QED
        BY <1>4, <3>1, <3>2
    <2>2. OnTheWay(r)'
      BY <1>0, <1>1, <1>4, <2>1 DEF OnTheWay, Broken, Behind, Fetched, Breaks, inputs
    <2>3. QED
      BY <1>0, <2>1, <2>2 DEF HandlerInv, Decided, OnTheWay
  <1>5. QED
    BY <1>2, <1>3, <1>4 DEF FetchTemplate

\* The last stages of a configuration.
LEMMA InjectStepKeeps ==
  ASSUME TypeOK, NEW r \in Requests, HandlerInv(r), InjectTemplate(r)
  PROVE  HandlerInv(r)'
  <1>0. /\ ~Decided(r) /\ OnTheWay(r) /\ pc[r] = "inject" /\ coll[r] \in Collectors
        /\ UNCHANGED <<inputs, ended, answer, coll>> /\ Broken(r) \subseteq Stages
    BY WorldsAreStages DEF HandlerInv, Decided, InjectTemplate, TypeOK, Broken, inputs
  <1>1. /\ Broken(r) \cap (Stages \ {"inject", "managed"}) = {}
        /\ coll[r].resources = ResourceOrder /\ kind[r] # "list"
    BY <1>0 DEF OnTheWay, Behind, Fetched
  <1>2. ASSUME NEW e \in {"inject", "managed"} PROVE Explained([request |-> r, err |-> e, coll |-> coll'[r]])
    BY <1>0, <1>1, CollectorsGrow, ExplainedBy DEF Needed, Resources
  <1>3. ASSUME Breaks(r, "inject"), FailWith(r, "inject") PROVE HandlerInv(r)'
    <2>1. "inject" \in Broken(r) /\ "inject" \in Errors
      BY <1>1, <1>3, KindHas, StagesAre DEF Breaks, Broken, Errors
    <2>2. FirstBroken(r) = "inject"
      BY <1>0, <1>1, <2>1, StagesAre, PositionsAre, FailsFirst
    <2>3. QED
      BY <1>0, <1>2, <1>3, <2>1, <2>2, FailureKeeps
  <1>4. ASSUME ~Breaks(r, "inject"), kind[r] = "surge", Breaks(r, "managed"), FailWith(r, "managed")
        PROVE  HandlerInv(r)'
    <2>1. "managed" \in Broken(r) /\ "inject" \notin Broken(r) /\ "managed" \in Errors
      BY <1>4, KindHas, StagesAre DEF Breaks, Broken, Errors
    <2>2. FirstBroken(r) = "managed"
      BY <1>0, <1>1, <2>1, StagesAre, PositionsAre, FailsFirst
    <2>3. QED
      BY <1>0, <1>2, <1>4, <2>1, <2>2, FailureKeeps
  <1>5. ASSUME ~Breaks(r, "inject"), ~(kind[r] = "surge" /\ Breaks(r, "managed")), LeaveWithOutput(r)
        PROVE  HandlerInv(r)'
    <2>1. Broken(r) = {}
      BY <1>0, <1>1, <1>5, KindHas DEF Breaks, Broken
    <2>2. QED
      BY <1>0, <1>5, <2>1, SuccessKeeps
  <1>6. QED
    BY <1>3, <1>4, <1>5 DEF InjectTemplate

\* On the way to the answer the error and the collector stay what they are.
LEMMA AnswerStepKeeps ==
  ASSUME TypeOK, NEW r \in Requests, HandlerInv(r),
         \/ CountError(r) \/ LogRecord(r) \/ LogTears(r) \/ LogReturns(r) \/ LogFails(r)
         \/ WriteAnswer(r) \/ CountRequest(r)
  PROVE  HandlerInv(r)'
  <1>1. /\ Decided(r) /\ UNCHANGED <<inputs, ended, err, coll>>
        /\ pc[r] \in {"error", "log", "torn", "logged"} \/ (pc[r] = "reply" \/ pc[r] = "respond" \/ pc[r] = "count")
    BY DEF Decided, CountError, LogRecord, LogTears, LogReturns, LogFails, WriteAnswer, CountRequest, inputs
  <1>2. Determined(r)'
    BY <1>1 DEF HandlerInv, Determined, FirstBroken, inputs
  <1>3. BuildFailure(r)' = BuildFailure(r) /\ (Explained(BuildFailure(r)) => Explained(BuildFailure(r))')
    BY <1>1 DEF BuildFailure, Explained, inputs
  <1>4. /\ pc'[r] \in {"log", "torn", "logged", "reply", "count", "over"}
        /\ pc'[r] \in {"log", "torn", "logged"} => pc[r] \in {"error", "log"}
        /\ answer'[r] # answer[r] => pc'[r] = "count"
        /\ answer'[r] = answer[r] \/ pc'[r] = "count"
        /\ pc[r] = "count" => pc'[r] = "over"
    BY DEF CountError, LogRecord, LogTears, LogReturns, LogFails, WriteAnswer, CountRequest, Goto, TypeOK
  <1>5. QED
    BY <1>1, <1>2, <1>3, <1>4 DEF HandlerInv, Decided

\* Arriving decides nothing, and the end of the context only allows its error.
LEMMA OuterStepKeeps ==
  ASSUME TypeOK, NEW r \in Requests, HandlerInv(r), Arrive(r) \/ RequestEnds(r)
  PROVE  HandlerInv(r)'
  <1>1. /\ UNCHANGED <<inputs, cancelled, err, coll, answer>> /\ (ended[r] => ended'[r])
        /\ \/ pc[r] = "idle" /\ pc'[r] = "parse"
           \/ pc' = pc
    BY DEF Arrive, RequestEnds, Goto, TypeOK
  <1>2. FirstBroken(r)' = FirstBroken(r) /\ Broken(r)' = Broken(r) /\ kind' = kind
    BY <1>1 DEF FirstBroken, Broken, inputs
  <1>3. Determined(r) => Determined(r)'
    BY <1>1, <1>2 DEF Determined
  <1>4. BuildFailure(r)' = BuildFailure(r) /\ (Explained(BuildFailure(r)) => Explained(BuildFailure(r))')
    BY <1>1, <1>2 DEF BuildFailure, Explained
  <1>5. CASE pc' = pc
    <2>1. OnTheWay(r) => OnTheWay(r)'
      BY <1>1, <1>2, <1>5 DEF OnTheWay
    <2>2. QED
      BY <1>1, <1>3, <1>4, <1>5, <2>1 DEF HandlerInv, Decided
  <1>6. CASE pc[r] = "idle" /\ pc'[r] = "parse"
    <2>1. OnTheWay(r)'
      BY <1>1, <1>2, <1>6 DEF HandlerInv, Decided, OnTheWay, Behind, Fetched
    <2>2. QED
      BY <1>6, <2>1 DEF HandlerInv, Decided, OnTheWay
  <1>7. QED
    BY <1>1, <1>5, <1>6

\* The goroutine finds what the upstream serves and sends what it has found.
LEMMA GoroutineKeeps ==
  ASSUME TypeOK, NEW r \in Requests, ProfileInv(r), FetchProfile(r) \/ SendProfile(r)
  PROVE  ProfileInv(r)'
  <1>0. profCh[r] \in Seq(Results) /\ found[r] \in Results
    BY DEF TypeOK
  <1>1. /\ UNCHANGED <<inputs, ended, cancelled>>
    BY DEF FetchProfile, SendProfile, inputs
  <1>2. \A res : Fits(r, res)' <=> Fits(r, res)
    BY <1>1 DEF Fits, CtxDone, Breaks, inputs
  <1>3. CASE FetchProfile(r)
    <2>1. profCh' = profCh /\ r \in DOMAIN found
      BY <1>3 DEF FetchProfile, profile, TypeOK
    <2>2. Fits(r, found'[r])
      BY <1>3, <2>1 DEF FetchProfile, Fits
    <2>3. Fits(r, found[r])'
      BY <1>1, <2>2 DEF Fits, CtxDone, Breaks, inputs
    <2>4. ASSUME NEW i \in 1..Len(profCh'[r]) PROVE Fits(r, profCh[r][i])'
      BY <1>1, <2>1 DEF ProfileInv, Fits, CtxDone, Breaks, inputs
    <2>5. QED
      BY <2>3, <2>4 DEF ProfileInv
  <1>4. CASE SendProfile(r)
    <2>1. /\ profCh'[r] = Append(profCh[r], found[r]) /\ ppc'[r] = "gone" /\ ppc[r] = "send"
      BY <1>4 DEF SendProfile, TypeOK
    <2>2. Fits(r, found[r])
      BY <2>1 DEF ProfileInv
    <2>3. ASSUME NEW i \in 1..Len(profCh'[r]) PROVE Fits(r, profCh[r][i])'
      <3>1. Len(profCh'[r]) = Len(profCh[r]) + 1 /\ Len(profCh[r]) \in Nat
        BY <1>0, <2>1
      <3>2. CASE i \in 1..Len(profCh[r])
        <4>1. profCh'[r][i] = profCh[r][i] /\ Fits(r, profCh[r][i])
          BY <1>0, <2>1, <3>2 DEF ProfileInv
        <4>2. QED
          BY <1>1, <4>1 DEF Fits, CtxDone, Breaks, inputs
      <3>3. CASE i = Len(profCh[r]) + 1
        <4>1. profCh'[r][i] = found[r]
          BY <1>0, <2>1, <3>3
        <4>2. QED
          BY <1>1, <2>2, <4>1 DEF Fits, CtxDone, Breaks, inputs
      <3>4. QED
        BY <3>1, <3>2, <3>3
    <2>4. QED
      BY <2>1, <2>3 DEF ProfileInv
  <1>5. QED
    BY <1>3, <1>4

-----------------------------------------------------------------------------
(* Requests among one another. *)

OwnStep(r) == Arrive(r) \/ HandlerStep(r) \/ ProfileStep(r) \/ RequestEnds(r)

\* A request leaves the variables of the others alone.
LEMMA OthersStay ==
  ASSUME TypeOK, NEW r \in Requests, NEW s \in Requests \ {r}, OwnStep(r)
  PROVE  /\ UNCHANGED <<kind, broken>> /\ pc'[s] = pc[s] /\ ended'[s] = ended[s]
         /\ cancelled'[s] = cancelled[s] /\ ppc'[s] = ppc[s] /\ found'[s] = found[s]
         /\ profCh'[s] = profCh[s] /\ err'[s] = err[s] /\ coll'[s] = coll[s]
         /\ answer'[s] = answer[s]
  <1> USE DEF inputs, profile
  <1>1. CASE Arrive(r) \/ RequestEnds(r)
    BY <1>1 DEF Arrive, RequestEnds, Goto, TypeOK
  <1>2. CASE ParseRequest(r) \/ StartConvert(r) \/ RenderBlocks(r) \/ InjectTemplate(r)
    BY <1>2 DEF ParseRequest, StartConvert, RenderBlocks, InjectTemplate, GoOn, FailWith, LeaveWithOutput, Goto, TypeOK
  <1>3. CASE ConvertSubs(r)
    BY <1>3 DEF ConvertSubs, AddResource, GoOn, FailWith, Goto, TypeOK
  <1>4. CASE ReceiveProfile(r)
    BY <1>4 DEF ReceiveProfile, AddResource, GoOn, FailWith, Goto, TypeOK
  <1>5. CASE CompileProxies(r)
    BY <1>5 DEF CompileProxies, GoOn, FailWith, LeaveWithOutput, Goto, TypeOK
  <1>6. CASE FetchTemplate(r)
    BY <1>6 DEF FetchTemplate, AddResource, GoOn, FailWith, Goto, TypeOK
  <1>7. CASE CountError(r) \/ LogRecord(r) \/ LogTears(r) \/ LogReturns(r) \/ LogFails(r) \/ WriteAnswer(r) \/ CountRequest(r)
    BY <1>7 DEF CountError, LogRecord, LogTears, LogReturns, LogFails, WriteAnswer, CountRequest, Goto, TypeOK
  <1>8. CASE ProfileStep(r)
    BY <1>8 DEF ProfileStep, FetchProfile, SendProfile, TypeOK
  <1>9. QED
    BY <1>1, <1>2, <1>3, <1>4, <1>5, <1>6, <1>7, <1>8 DEF OwnStep, HandlerStep

\* A request whose variables stay keeps its invariant.
LEMMA SameRequest ==
  ASSUME NEW s \in Requests, RequestInv(s),
         UNCHANGED <<kind, broken>>, pc'[s] = pc[s], ended'[s] = ended[s],
         cancelled'[s] = cancelled[s], ppc'[s] = ppc[s], found'[s] = found[s],
         profCh'[s] = profCh[s], err'[s] = err[s], coll'[s] = coll[s], answer'[s] = answer[s]
  PROVE  RequestInv(s)'
  <1>1. FirstBroken(s)' = FirstBroken(s) /\ Broken(s)' = Broken(s)
    BY DEF FirstBroken, Broken
  <1>2. Determined(s) => Determined(s)'
    BY <1>1 DEF Determined
  <1>3. BuildFailure(s)' = BuildFailure(s) /\ (Explained(BuildFailure(s)) => Explained(BuildFailure(s))')
    BY DEF BuildFailure, Explained
  <1>4. OnTheWay(s) => OnTheWay(s)'
    BY <1>1 DEF OnTheWay
  <1>5. HandlerInv(s)'
    BY <1>2, <1>3, <1>4 DEF RequestInv, HandlerInv, Decided
  <1>6. ASSUME NEW i \in 1..Len(profCh'[s]) PROVE Fits(s, profCh[s][i])'
    BY DEF RequestInv, ProfileInv, Fits, CtxDone, Breaks
  <1>7. ppc'[s] = "send" => Fits(s, found[s])'
    BY DEF RequestInv, ProfileInv, Fits, CtxDone, Breaks
  <1>8. QED
    BY <1>5, <1>6, <1>7 DEF RequestInv, ProfileInv

\* A handler whose variables stay keeps its invariant.
LEMMA SameHandler ==
  ASSUME NEW s \in Requests, HandlerInv(s), UNCHANGED <<kind, broken>>, pc'[s] = pc[s],
         ended'[s] = ended[s], cancelled'[s] = cancelled[s], err'[s] = err[s],
         coll'[s] = coll[s], answer'[s] = answer[s]
  PROVE  HandlerInv(s)'
  <1>1. FirstBroken(s)' = FirstBroken(s) /\ Broken(s)' = Broken(s)
    BY DEF FirstBroken, Broken
  <1>2. Determined(s) => Determined(s)'
    BY <1>1 DEF Determined
  <1>3. BuildFailure(s)' = BuildFailure(s) /\ (Explained(BuildFailure(s)) => Explained(BuildFailure(s))')
    BY DEF BuildFailure, Explained
  <1>4. OnTheWay(s) => OnTheWay(s)'
    BY <1>1 DEF OnTheWay
  <1>5. QED
    BY <1>2, <1>3, <1>4 DEF HandlerInv, Decided

\* Every step of a request keeps what is known of it.
LEMMA OwnStepKeeps ==
  ASSUME TypeOK, NEW r \in Requests, RequestInv(r), OwnStep(r)
  PROVE  RequestInv(r)'
  <1> USE DEF inputs, profile
  <1>0. HandlerInv(r) /\ ProfileInv(r) /\ profCh[r] \in Seq(Results)
    BY DEF RequestInv, TypeOK
  <1>1. CASE Arrive(r) \/ RequestEnds(r)
    <2>1. HandlerInv(r)'
      BY <1>0, <1>1, OuterStepKeeps
    <2>2. UNCHANGED <<broken, profile, cancelled>> /\ (ended[r] => ended'[r])
      BY <1>1 DEF Arrive, RequestEnds, TypeOK
    <2>3. ProfileInv(r)'
      BY <1>0, <2>2, ProfileKeeps DEF CtxDone
    <2>4. QED
      BY <2>1, <2>3 DEF RequestInv
  <1>2. CASE ProfileStep(r)
    <2>1. ProfileInv(r)'
      BY <1>0, <1>2, GoroutineKeeps DEF ProfileStep
    <2>2. UNCHANGED <<kind, broken, pc, ended, cancelled, err, coll, answer>>
      BY <1>2 DEF ProfileStep, FetchProfile, SendProfile
    <2>3. HandlerInv(r)'
      BY <1>0, <2>2, SameHandler
    <2>4. QED
      BY <2>1, <2>3 DEF RequestInv
  <1>3. CASE HandlerStep(r)
    <2>1. HandlerInv(r)'
      BY <1>0, <1>3, EarlyStepKeeps, SubsStepKeeps, ProfileStepKeeps, CompileStepKeeps,
         TemplateStepKeeps, InjectStepKeeps, AnswerStepKeeps DEF HandlerStep
    <2>2. UNCHANGED <<broken, ended, found>> /\ (cancelled[r] => cancelled'[r])
      <3>1. CASE CountError(r) \/ LogRecord(r) \/ LogTears(r) \/ LogReturns(r) \/ LogFails(r) \/ WriteAnswer(r) \/ CountRequest(r)
        BY <3>1 DEF CountError, LogRecord, LogTears, LogReturns, LogFails, WriteAnswer, CountRequest
      <3>2. CASE ParseRequest(r) \/ StartConvert(r) \/ RenderBlocks(r) \/ InjectTemplate(r)
        BY <3>2 DEF ParseRequest, StartConvert, RenderBlocks, InjectTemplate, GoOn, FailWith, LeaveWithOutput, TypeOK
      <3>3. CASE ConvertSubs(r) \/ ReceiveProfile(r)
        BY <3>3 DEF ConvertSubs, ReceiveProfile, GoOn, FailWith, TypeOK
      <3>4. CASE CompileProxies(r) \/ FetchTemplate(r)
        BY <3>4 DEF CompileProxies, FetchTemplate, GoOn, FailWith, LeaveWithOutput, TypeOK
      <3>5. QED
        BY <1>3, <3>1, <3>2, <3>3, <3>4 DEF HandlerStep
    <2>3. /\ ppc'[r] = "send" => ppc[r] = "send"
          /\ \/ profCh'[r] = profCh[r]
             \/ profCh[r] # <<>> /\ profCh'[r] = Tail(profCh[r])
      <3>1. CASE StartConvert(r)
        BY <3>1 DEF StartConvert, TypeOK
      <3>2. CASE ReceiveProfile(r)
        BY <3>2 DEF ReceiveProfile, TypeOK
      <3>3. CASE HandlerStep(r) /\ ~StartConvert(r) /\ ~ReceiveProfile(r)
        BY <3>3 DEF HandlerStep, ParseRequest, ConvertSubs, CompileProxies, RenderBlocks, FetchTemplate,
           InjectTemplate, CountError, LogRecord, LogTears, LogReturns, LogFails, WriteAnswer, CountRequest
      <3>4. QED
        BY <1>3, <3>1, <3>2, <3>3
    <2>4. ProfileInv(r)'
      BY <1>0, <2>2, <2>3, ProfileKeeps DEF CtxDone
    <2>5. QED
      BY <2>1, <2>4 DEF RequestInv
  <1>4. QED
    BY <1>1, <1>2, <1>3 DEF OwnStep

-----------------------------------------------------------------------------
(* The error log. *)

\* An acknowledged record is a line of the log, or behind one that is cut short
\* and so is not acknowledged.
LEMMA AckedFound == LogOK => AckedAreInLog
  <1> SUFFICES ASSUME LogOK, NEW rec \in acked PROVE InLog(rec)
    BY DEF AckedAreInLog
  <1>1. CASE rec \in stored
    BY <1>1 DEF InLog
  <1>2. ASSUME NEW g \in glued, rec = g[2] PROVE InLog(rec)
    <2>1. g[1] \in torn \ acked /\ g = <<g[1], rec>>
      BY <1>2 DEF LogOK
    <2>2. QED
      BY <2>1 DEF InLog
  <1>3. QED
    BY <1>1, <1>2 DEF LogOK, Log!Written

\* What the steps of the log do to it.
LEMMA LogStaysOK ==
  ASSUME LogOK
  PROVE  /\ \A rec : Log!Append(rec) => LogOK' /\ (Log!Written)' = Log!Written \cup {rec}
         /\ \A t, rec : Log!AppendBehind(t, rec) => LogOK' /\ (Log!Written)' = Log!Written \cup {rec}
         /\ \A rec : Log!Tear(rec) => LogOK' /\ (Log!Written)' = Log!Written
         /\ \A rec : Log!Acknowledge(rec) => LogOK' /\ (Log!Written)' = Log!Written
         /\ \A inFlight : Log!Lose(inFlight) => LogOK' /\ (Log!Written)' \subseteq Log!Written
         /\ UNCHANGED <<stored, torn, glued, acked>> => LogOK' /\ (Log!Written)' = Log!Written
  <1>1. ASSUME NEW rec, Log!Append(rec)
        PROVE  LogOK' /\ (Log!Written)' = Log!Written \cup {rec}
    BY <1>1 DEF Log!Append, Log!Written, LogOK
  <1>2. ASSUME NEW t, NEW rec, Log!AppendBehind(t, rec)
        PROVE  LogOK' /\ (Log!Written)' = Log!Written \cup {rec}
    <2>1. /\ rec \notin Log!Written \cup torn /\ t \in torn
          /\ glued' = glued \cup {<<t, rec>>}
          /\ UNCHANGED <<stored, torn, acked>>
      BY <1>2 DEF Log!AppendBehind
    <2>2. (Log!Written)' = Log!Written \cup {rec}
      <3> DEFINE pair == <<t, rec>>
      <3>0. pair[2] = rec
        OBVIOUS
      <3> HIDE DEF pair
      <3>1. {g[2] : g \in glued \cup {pair}} = {g[2] : g \in glued} \cup {rec}
        BY <3>0
      <3>3. glued' = glued \cup {pair}
        BY <2>1 DEF pair
      <3>2. QED
        BY <2>1, <3>1, <3>3 DEF Log!Written
    <2>3. QED
      BY <2>1, <2>2 DEF LogOK
  <1>3. ASSUME NEW rec, Log!Tear(rec) PROVE LogOK' /\ (Log!Written)' = Log!Written
    BY <1>3 DEF Log!Tear, Log!Written, LogOK
  <1>4. ASSUME NEW rec, Log!Acknowledge(rec) PROVE LogOK' /\ (Log!Written)' = Log!Written
    BY <1>4 DEF Log!Acknowledge, Log!Written, LogOK
  <1>5. ASSUME NEW inFlight, Log!Lose(inFlight) PROVE LogOK' /\ (Log!Written)' \subseteq Log!Written
    <2>1. PICK lost \in SUBSET (Log!Written \ acked) :
            \E half \in SUBSET (torn \cup lost \cup inFlight) :
              /\ half \cap (Log!Written \ lost) = {}
              /\ \A g \in glued : g[2] \in lost \/ g[1] \in half
              /\ stored' = stored \ lost
              /\ glued' = {g \in glued : g[2] \notin lost}
              /\ torn' = half
      BY <1>5 DEF Log!Lose
    <2>2. (Log!Written)' = Log!Written \ lost
      BY <2>1 DEF Log!Written
    <2>3. acked' = acked
      BY <1>5 DEF Log!Lose
    <2>4. QED
      BY <2>1, <2>2, <2>3 DEF LogOK
  <1>6. ASSUME UNCHANGED <<stored, torn, glued, acked>>
        PROVE  LogOK' /\ (Log!Written)' = Log!Written
    BY <1>6 DEF Log!Written, LogOK
  <1>7. QED
    BY <1>1, <1>2, <1>3, <1>4, <1>5, <1>6

\* What is logged stays logged, for acknowledged records are never lost.
LEMMA LoggedKept ==
  ASSUME acked \subseteq acked', LogOK', unlogged \subseteq unlogged',
         NEW s \in Requests, Logged(s)
  PROVE  Logged(s)'
  <1>1. (LogOK => AckedAreInLog)'
    BY AckedFound, PTL
  <1>2. \A rec \in acked' : InLog(rec)'
    BY <1>1 DEF AckedAreInLog
  <1>3. QED
    BY <1>2 DEF Logged

\* What a step must do for the log to stay true to the answers.
LEMMA LogKept ==
  ASSUME LogInv, UNCHANGED kind,
         acked \subseteq acked', LogOK', unlogged \subseteq unlogged',
         \A rec \in (Log!Written)' : rec \in Log!Written \/ Explained(rec),
         \A s \in Requests : pc'[s] = "logged" /\ Running' => BuildFailure(s)' \in (Log!Written)',
         \A s \in Requests : pc'[s] = "reply" => pc[s] = "reply" \/ Logged(s)',
         \A s \in Requests : answer'[s] \in Statuses \ {"200"} =>
           answer'[s] = answer[s] \/ Logged(s)
  PROVE  LogInv'
  <1>1. \A s \in Requests : Logged(s) => Logged(s)'
    BY LoggedKept
  <1>2. \A s \in Requests : pc'[s] = "reply" => Logged(s)'
    BY <1>1 DEF LogInv
  <1>3. ASSUME NEW s \in Requests, answer'[s] \in Statuses \ {"200"} PROVE Logged(s)'
    BY <1>1, <1>3 DEF LogInv, AnsweredErrorsAreLogged, Logged
  <1>4. AnsweredErrorsAreLogged'
    BY <1>3 DEF AnsweredErrorsAreLogged, Logged, Statuses
  <1>5. ASSUME NEW rec \in (Log!Written)' PROVE Explained(rec)'
    <2>1. Explained(rec)
      BY DEF LogInv, RecordsExplainErrors, Explained
    <2>2. QED
      BY <2>1 DEF Explained
  <1>6. RecordsExplainErrors'
    BY <1>5 DEF RecordsExplainErrors, Explained
  <1>7. QED
    BY <1>2, <1>4, <1>6 DEF LogInv

\* A step that leaves the log alone, does not come out of it and answers no
\* error that is not in it.
LEMMA QuietStepKeepsLog ==
  ASSUME TypeOK, LogInv, NEW r \in Requests, OwnStep(r), UNCHANGED <<log, unlogged, server>>,
         \/ pc'[r] \notin {"logged", "reply"}
         \/ pc'[r] = pc[r] /\ err'[r] = err[r] /\ coll'[r] = coll[r],
         \/ answer'[r] = answer[r]
         \/ answer'[r] \notin Statuses \ {"200"}
         \/ Logged(r)
  PROVE  LogInv'
  <1>1. \A s \in Requests \ {r} : /\ pc'[s] = pc[s] /\ err'[s] = err[s] /\ coll'[s] = coll[s]
                                  /\ answer'[s] = answer[s]
    BY OthersStay
  <1>2. UNCHANGED kind
    BY DEF OwnStep, HandlerStep, ProfileStep, Arrive, RequestEnds, ParseRequest, StartConvert,
       ConvertSubs, ReceiveProfile, CompileProxies, RenderBlocks, FetchTemplate, InjectTemplate,
       CountError, LogRecord, LogTears, LogReturns, LogFails, WriteAnswer, CountRequest, FetchProfile,
       SendProfile, inputs
  <1>3. LogOK' /\ (Log!Written)' = Log!Written /\ UNCHANGED <<acked, unlogged>>
    BY LogStaysOK DEF LogInv, log
  <1>4. ASSUME NEW s \in Requests, pc'[s] = "logged", Running' PROVE BuildFailure(s)' \in (Log!Written)'
    <2>1. pc[s] = "logged" /\ Running /\ err'[s] = err[s] /\ coll'[s] = coll[s]
      BY <1>1, <1>4 DEF Running
    <2>2. QED
      BY <1>3, <2>1 DEF LogInv, BuildFailure
  <1>5. \A s \in Requests : pc'[s] = "reply" => pc[s] = "reply"
    BY <1>1
  <1>6. \A s \in Requests : answer'[s] \in Statuses \ {"200"} => answer'[s] = answer[s] \/ Logged(s)
    BY <1>1
  <1>7. QED
    BY <1>2, <1>3, <1>4, <1>5, <1>6, LogKept

\* Writing a failure down, and being told so or not.
LEMMA LogStepKeepsLog ==
  ASSUME TypeOK, LogInv, NEW r \in Requests, HandlerInv(r),
         LogRecord(r) \/ LogTears(r) \/ LogReturns(r) \/ LogFails(r)
  PROVE  LogInv'
  <1>1. /\ UNCHANGED <<kind, err, coll, answer, server>> /\ Running
        /\ pc[r] \in {"log", "torn", "logged"}
        /\ \A s \in Requests \ {r} : pc'[s] = pc[s]
    BY DEF LogRecord, LogTears, LogReturns, LogFails, Goto, TypeOK, inputs
  <1>2. /\ \A s \in Requests : BuildFailure(s)' = BuildFailure(s)
        /\ \A s \in Requests : pc[s] = "logged" => BuildFailure(s) \in Log!Written
        /\ Explained(BuildFailure(r)) /\ LogOK
    BY <1>1 DEF BuildFailure, LogInv, HandlerInv
  <1>3. \A s \in Requests : answer'[s] \in Statuses \ {"200"} => answer'[s] = answer[s] \/ Logged(s)
    BY <1>1
  <1>4. CASE LogRecord(r)
    <2>1. /\ LogOK' /\ (Log!Written)' = Log!Written \cup {BuildFailure(r)}
          /\ UNCHANGED <<acked, unlogged>> /\ pc'[r] = "logged"
      <3>1. LogOK' /\ (Log!Written)' = Log!Written \cup {BuildFailure(r)}
        BY <1>2, <1>4, LogStaysOK DEF LogRecord
      <3>2. QED
        BY <1>4, <3>1 DEF LogRecord, Log!Append, Log!AppendBehind, Goto, TypeOK
    <2>2. \A s \in Requests : pc'[s] = "logged" /\ Running' => BuildFailure(s)' \in (Log!Written)'
      BY <1>1, <1>2, <2>1
    <2>3. \A s \in Requests : pc'[s] = "reply" => pc[s] = "reply"
      BY <1>1, <2>1
    <2>4. QED
      BY <1>1, <1>2, <1>3, <2>1, <2>2, <2>3, LogKept
  <1>5. CASE LogTears(r)
    <2>1. /\ LogOK' /\ (Log!Written)' = Log!Written
          /\ UNCHANGED <<acked, unlogged>> /\ pc'[r] = "torn"
      <3>1. LogOK' /\ (Log!Written)' = Log!Written
        BY <1>2, <1>5, LogStaysOK DEF LogTears
      <3>2. QED
        BY <1>5, <3>1 DEF LogTears, Log!Tear, Goto, TypeOK
    <2>2. \A s \in Requests : pc'[s] = "logged" /\ Running' => BuildFailure(s)' \in (Log!Written)'
      BY <1>1, <1>2, <2>1
    <2>3. \A s \in Requests : pc'[s] = "reply" => pc[s] = "reply"
      BY <1>1, <2>1
    <2>4. QED
      BY <1>1, <1>3, <2>1, <2>2, <2>3, LogKept
  <1>6. CASE LogReturns(r)
    <2>1. /\ LogOK' /\ (Log!Written)' = Log!Written
          /\ acked' = acked \cup {BuildFailure(r)} /\ UNCHANGED unlogged /\ pc'[r] = "reply"
      <3>1. LogOK' /\ (Log!Written)' = Log!Written
        BY <1>2, <1>6, LogStaysOK DEF LogReturns
      <3>2. QED
        BY <1>6, <3>1 DEF LogReturns, Log!Acknowledge, Goto, TypeOK
    <2>2. Logged(r)'
      <3>1. (LogOK => AckedAreInLog)'
        BY AckedFound, PTL
      <3>2. BuildFailure(r) \in acked' /\ InLog(BuildFailure(r))'
        BY <1>2, <2>1, <3>1 DEF AckedAreInLog, InLog
      <3>3. BuildFailure(r).request = r
        BY DEF BuildFailure
      <3>4. QED
        BY <1>2, <3>2, <3>3 DEF Logged, InLog
    <2>3. \A s \in Requests : pc'[s] = "logged" /\ Running' => BuildFailure(s)' \in (Log!Written)'
      BY <1>1, <1>2, <2>1
    <2>4. \A s \in Requests : pc'[s] = "reply" => pc[s] = "reply" \/ Logged(s)'
      BY <1>1, <2>2
    <2>5. QED
      BY <1>1, <1>2, <1>3, <2>1, <2>3, <2>4, LogKept
  <1>7. CASE LogFails(r)
    <2>1. /\ LogOK' /\ (Log!Written)' = Log!Written
          /\ unlogged' = unlogged \cup {r} /\ UNCHANGED acked /\ pc'[r] = "reply"
      <3>1. UNCHANGED <<stored, torn, glued, acked>>
        BY <1>7 DEF LogFails, Log!Degrade
      <3>2. QED
        BY <1>2, <1>7, <3>1, LogStaysOK DEF LogFails, Goto, TypeOK
    <2>2. Logged(r)'
      BY <2>1 DEF Logged
    <2>3. \A s \in Requests : pc'[s] = "logged" /\ Running' => BuildFailure(s)' \in (Log!Written)'
      BY <1>1, <1>2, <2>1
    <2>4. \A s \in Requests : pc'[s] = "reply" => pc[s] = "reply" \/ Logged(s)'
      BY <1>1, <2>2
    <2>5. QED
      BY <1>1, <1>2, <1>3, <2>1, <2>3, <2>4, LogKept
  <1>8. QED
    BY <1>4, <1>5, <1>6, <1>7

\* Every step of a request keeps the log true.
LEMMA OwnStepKeepsLog ==
  ASSUME TypeOK, LogInv, NEW r \in Requests, HandlerInv(r), OwnStep(r)
  PROVE  LogInv'
  <1>1. CASE LogRecord(r) \/ LogTears(r) \/ LogReturns(r) \/ LogFails(r)
    BY <1>1, LogStepKeepsLog
  <1>2. CASE Arrive(r)
    BY <1>2, QuietStepKeepsLog DEF Arrive, Goto, TypeOK
  <1>3. CASE RequestEnds(r) \/ ProfileStep(r)
    BY <1>3, QuietStepKeepsLog DEF RequestEnds, ProfileStep, FetchProfile, SendProfile
  <1>4. CASE CountError(r) \/ CountRequest(r)
    BY <1>4, QuietStepKeepsLog DEF CountError, CountRequest, Goto, TypeOK
  <1>5. CASE WriteAnswer(r)
    <2>1. /\ answer'[r] = Status(err[r]) /\ pc'[r] = "count" /\ UNCHANGED <<log, unlogged, server>>
      BY <1>5 DEF WriteAnswer, Goto, TypeOK
    <2>2. CASE pc[r] = "reply"
      BY <2>1, <2>2, QuietStepKeepsLog DEF LogInv
    <2>3. CASE pc[r] = "respond"
      <3>1. answer'[r] = "200"
        BY <2>1, <2>3 DEF HandlerInv, Status, NoErr
      <3>2. QED
        BY <2>1, <3>1, QuietStepKeepsLog
    <2>4. QED
      BY <1>5, <2>2, <2>3 DEF WriteAnswer
  <1>6. ASSUME \/ ParseRequest(r) \/ StartConvert(r) \/ ConvertSubs(r) \/ ReceiveProfile(r)
               \/ CompileProxies(r) \/ RenderBlocks(r) \/ FetchTemplate(r) \/ InjectTemplate(r)
        PROVE  LogInv'
    <2>1. UNCHANGED <<log, unlogged, server, answer>>
      BY <1>6 DEF ParseRequest, StartConvert, ConvertSubs, ReceiveProfile, CompileProxies,
         RenderBlocks, FetchTemplate, InjectTemplate
    <2>2. pc'[r] \notin {"logged", "reply"}
      BY <1>6 DEF ParseRequest, StartConvert, ConvertSubs, ReceiveProfile, CompileProxies,
         RenderBlocks, FetchTemplate, InjectTemplate, GoOn, FailWith, LeaveWithOutput, Goto, TypeOK
    <2>3. QED
      BY <2>1, <2>2, QuietStepKeepsLog
  <1>7. QED
    BY <1>1, <1>2, <1>3, <1>4, <1>5, <1>6 DEF OwnStep, HandlerStep

-----------------------------------------------------------------------------
(* The invariant, and what it shows. *)

\* It holds before the first request ...
LEMMA InvHoldsAtFirst == Init => ConvertInv
  <1> SUFFICES ASSUME Init PROVE ConvertInv
    OBVIOUS
  <1>1. TypeOK
    BY InitTypes
  <1>2. ASSUME NEW r \in Requests PROVE RequestInv(r)
    <2>1. /\ pc[r] = "idle" /\ err[r] = NoErr /\ ~cancelled[r] /\ answer[r] = "none"
          /\ coll[r].resources = <<>> /\ ~coll[r].compiled /\ ppc[r] = "unborn" /\ profCh[r] = <<>>
      BY DEF Init, EmptyCollector
    <2>2. HandlerInv(r)
      BY <2>1 DEF HandlerInv, OnTheWay, Decided, Behind, Fetched
    <2>3. ProfileInv(r)
      BY <2>1 DEF ProfileInv
    <2>4. QED
      BY <2>2, <2>3 DEF RequestInv
  <1>3. LogInv
    BY DEF Init, Log!LogInit, LogInv, LogOK, Log!Written, AnsweredErrorsAreLogged, RecordsExplainErrors,
       Statuses
  <1>4. QED
    BY <1>1, <1>2, <1>3 DEF ConvertInv

\* ... and after every step.
LEMMA InvIsKept == ConvertInv /\ [Next]_vars => ConvertInv'
  <1> SUFFICES ASSUME ConvertInv, [Next]_vars PROVE ConvertInv'
    OBVIOUS
  <1>0. TypeOK /\ (\A r \in Requests : RequestInv(r)) /\ LogInv
    BY DEF ConvertInv
  <1>1. TypeOK'
    BY TypesKept
  <1>2. ASSUME NEW r \in Requests, OwnStep(r) PROVE ConvertInv'
    <2>1. ASSUME NEW s \in Requests PROVE RequestInv(s)'
      <3>1. CASE s = r
        BY <1>0, <1>2, <3>1, OwnStepKeeps
      <3>2. CASE s # r
        BY <1>0, <1>2, <3>2, OthersStay, SameRequest
      <3>3. QED
        BY <3>1, <3>2
    <2>2. LogInv'
      BY <1>0, <1>2, OwnStepKeepsLog DEF RequestInv
    <2>3. QED
      BY <1>1, <2>1, <2>2 DEF ConvertInv
  <1>3. ASSUME LogRecovers \/ Signal \/ ShutdownCompletes \/ ShutdownTimesOut \/ ListenerFails \/ Killed \/ UNCHANGED vars
        PROVE  ConvertInv'
    <2>1. UNCHANGED <<kind, broken, pc, ended, cancelled, ppc, found, profCh, err, coll, answer, unlogged>>
      BY <1>3 DEF LogRecovers, Signal, ShutdownCompletes, ShutdownTimesOut, ListenerFails, Killed, vars,
         requestVars, inputs, profile
    <2>2. ASSUME NEW s \in Requests PROVE RequestInv(s)'
      BY <1>0, <2>1, SameRequest
    <2>3. acked' = acked /\ LogOK' /\ (Log!Written)' \subseteq Log!Written
      <3>1. CASE Killed
        BY <1>0, <3>1, LogStaysOK DEF Killed, Log!Lose, LogInv
      <3>2. CASE ~Killed
        <4>1. UNCHANGED <<stored, torn, glued, acked>>
          BY <1>3, <3>2 DEF LogRecovers, Signal, ShutdownCompletes, ShutdownTimesOut, ListenerFails, vars, log,
             Log!Recover
        <4>2. QED
          BY <1>0, <4>1, LogStaysOK DEF LogInv
      <3>3. QED
        BY <3>1, <3>2
    <2>4. Running' => Running /\ (Log!Written)' = Log!Written
      <3>1. Running' => Running /\ UNCHANGED <<stored, glued>>
        BY <1>3 DEF LogRecovers, Signal, ShutdownCompletes, ShutdownTimesOut, ListenerFails, Killed, vars, log,
           Log!Recover, Running
      <3>2. QED
        BY <3>1 DEF Log!Written
    <2>5. ASSUME NEW s \in Requests, pc'[s] = "logged", Running' PROVE BuildFailure(s)' \in (Log!Written)'
      BY <1>0, <2>1, <2>4, <2>5 DEF LogInv, BuildFailure
    <2>6. LogInv'
      BY <1>0, <2>1, <2>3, <2>5, LogKept
    <2>7. QED
      BY <1>1, <2>2, <2>6 DEF ConvertInv
  <1>4. QED
    BY <1>2, <1>3 DEF Next, OwnStep, Exited

\* The invariant behind the four theorems: a conversion that has not decided
\* has passed what is behind it, what the profile goroutine hands over is what
\* the upstream serves, and what is answered is in the log.
LEMMA ConvertInvariant == Spec => []ConvertInv
  BY InvHoldsAtFirst, InvIsKept, PTL DEF Spec

\* Whatever the requests and the upstreams are, every variable of a conversion
\* keeps its type: handlers answer and count only the statuses of
\* classifyError, and log nothing without an error.
THEOREM ConversionTypes == Spec => []TypeOK
  <1>1. ConvertInv => TypeOK
    BY DEF ConvertInv
  <1>2. QED
    BY <1>1, ConvertInvariant, PTL

\* The answer of a conversion is the first stage of it that cannot succeed,
\* for any number of concurrent conversions and however handler and profile
\* goroutine interleave (runConvert): only an ended context can replace it.
THEOREM AnswersAreDetermined == Spec => []AnswerIsDetermined
  <1>1. ConvertInv => AnswerIsDetermined
    BY DEF ConvertInv, RequestInv, HandlerInv, Determined, AnswerIsDetermined
  <1>2. QED
    BY <1>1, ConvertInvariant, PTL

\* Every record of the error log (errlog.BuildFailure) lists exactly the
\* resources fetched before its failing stage, in the order of the stages.
THEOREM RecordsAreExplained == Spec => []RecordsExplainErrors
  <1>1. ConvertInv => RecordsExplainErrors
    BY DEF ConvertInv, LogInv
  <1>2. QED
    BY <1>1, ConvertInvariant, PTL

\* An error answer has its record in the log in full, unless its write failed
\* (writeErrorFromErr), also after the process was killed; and what stands before
\* it on its line is at most one record whose write was not acknowledged.
THEOREM AnswersAreLogged == Spec => []AnsweredErrorsAreLogged
  <1>1. ConvertInv => AnsweredErrorsAreLogged
    BY DEF ConvertInv, LogInv
  <1>2. QED
    BY <1>1, ConvertInvariant, PTL

-----------------------------------------------------------------------------
(* The counters. *)

\* Counting once more under a key adds one event.
LEMMA CountedOnce ==
  ASSUME NEW D, NEW f \in [D -> Nat], NEW d \in D, NEW S, S \subseteq D, IsFiniteSet(Events(f, S)),
         NEW g, g[d] = f[d] + 1, \A s \in D : s # d => g[s] = f[s]
  PROVE  /\ IsFiniteSet(Events(g, S))
         /\ Cardinality(Events(g, S)) = Cardinality(Events(f, S)) + (IF d \in S THEN 1 ELSE 0)
  <1> DEFINE one == <<d, f[d] + 1>>
  <1>1. ASSUME NEW s \in S, s # d PROVE g[s] = f[s]
    BY <1>1
  <1>2. g[d] = f[d] + 1 /\ f[d] \in Nat
    OBVIOUS
  <1>3. CASE d \notin S
    <2>1. Events(g, S) = Events(f, S)
      BY <1>1, <1>3 DEF Events
    <2>2. Cardinality(Events(f, S)) \in Nat
      BY FS_CardinalityType
    <2>3. QED
      BY <1>3, <2>1, <2>2
  <1>4. CASE d \in S
    <2>1. one \notin Events(f, S)
      <3>1. ASSUME NEW s \in S, one \in {s} \X (1..f[s]) PROVE FALSE
        BY <1>2, <3>1
      <3>2. QED
        BY <3>1 DEF Events
    <2>2. Events(g, S) \subseteq Events(f, S) \cup {one}
      <3>1. ASSUME NEW s \in S, NEW x \in {s} \X (1..g[s]) PROVE x \in Events(f, S) \cup {one}
        <4>1. PICK i \in 1..g[s] : x = <<s, i>>
          OBVIOUS
        <4>2. CASE s # d
          <5>1. i \in 1..f[s]
            BY <1>1, <4>1, <4>2
          <5>2. QED
            BY <4>1, <5>1 DEF Events
        <4>3. CASE s = d /\ i = f[d] + 1
          BY <4>1, <4>3
        <4>4. CASE s = d /\ i # f[d] + 1
          <5>1. i \in 1..f[s]
            BY <1>2, <4>1, <4>4
          <5>2. QED
            BY <4>1, <5>1 DEF Events
        <4>5. QED
          BY <4>2, <4>3, <4>4
      <3>2. QED
        BY <3>1 DEF Events
    <2>3. Events(f, S) \subseteq Events(g, S)
      <3>1. ASSUME NEW s \in S PROVE {s} \X (1..f[s]) \subseteq {s} \X (1..g[s])
        <4>1. f[s] \in Nat /\ (g[s] = f[s] \/ g[s] = f[s] + 1)
          BY <1>1, <1>2
        <4>2. 1..f[s] \subseteq 1..g[s]
          BY <4>1
        <4>3. QED
          BY <4>2
      <3>2. QED
        BY <3>1 DEF Events
    <2>4. one \in Events(g, S)
      <3>1. f[d] + 1 \in 1..g[d]
        BY <1>2
      <3>2. QED
        BY <1>4, <3>1 DEF Events
    <2>5. Events(g, S) = Events(f, S) \cup {one}
      BY <2>2, <2>3, <2>4
    <2>6. IsFiniteSet(Events(g, S)) /\ Cardinality(Events(g, S)) = Cardinality(Events(f, S)) + 1
      <3>1. PICK E, G : E = Events(f, S) /\ G = Events(g, S)
        OBVIOUS
      <3>2. PICK x : x = one
        OBVIOUS
      <3>3. IsFiniteSet(E) /\ x \notin E /\ G = E \cup {x}
        BY <2>1, <2>5, <3>1, <3>2
      <3>4. IsFiniteSet(G) /\ Cardinality(G) = Cardinality(E) + 1
        BY <3>3, FS_AddElement
      <3>5. QED
        BY <3>1, <3>4
    <2>7. QED
      BY <1>4, <2>6
  <1>5. QED
    BY <1>3, <1>4

\* Nothing is counted in the beginning.
LEMMA NothingCounted ==
  ASSUME NEW f, NEW S, \A s \in S : f[s] = 0
  PROVE  Events(f, S) = {}
  BY DEF Events

\* Where neither the counters nor the failures on their way change, they agree
\* as before.
LEMMA NoneCounted ==
  ASSUME MetricsInv, UNCHANGED <<appErrors, byStatus>>, InErrorPath' = InErrorPath, CountedAsAnswered'
  PROVE  MetricsInv'
  BY DEF MetricsInv, MetricsAgree

\* The handler of one request moves within or outside the error path.
LEMMA PathKept ==
  ASSUME NEW r \in Requests, \A s \in Requests : s # r => pc'[s] = pc[s] /\ err'[s] = err[s],
         r \in InErrorPath' <=> r \in InErrorPath
  PROVE  InErrorPath' = InErrorPath
  BY DEF InErrorPath

\* The handler counts its error and enters the error path.
LEMMA ErrorIsCounted ==
  ASSUME TypeOK, MetricsInv, NEW r \in Requests, HandlerInv(r), CountError(r)
  PROVE  MetricsInv'
  <1>1. /\ pc[r] = "error" /\ err[r] \in Errors /\ UNCHANGED <<err, byStatus, answer>>
        /\ pc' = [pc EXCEPT ![r] = "log"] /\ appErrors' = [appErrors EXCEPT ![err[r]] = @ + 1]
    BY DEF CountError, HandlerInv, Goto, TypeOK
  <1>2. r \notin InErrorPath /\ InErrorPath' = InErrorPath \cup {r}
    BY <1>1 DEF InErrorPath, TypeOK, Errors, NoErr, HandlerInv
  <1>3. IsFiniteSet(InErrorPath') /\ Cardinality(InErrorPath') = Cardinality(InErrorPath) + 1
    BY <1>2, FS_AddElement DEF MetricsInv
  <1>4. /\ IsFiniteSet(Events(appErrors', Errors))
        /\ Cardinality(Events(appErrors', Errors)) = Cardinality(Events(appErrors, Errors)) + 1
    <2>1. appErrors \in [Errors -> Nat] /\ IsFiniteSet(Events(appErrors, Errors)) /\ Errors \subseteq Errors
      BY DEF MetricsInv, TypeOK
    <2>2. PICK e \in Errors : e = err[r]
      BY <1>1
    <2>3. appErrors' = [appErrors EXCEPT ![e] = @ + 1]
      BY <1>1, <2>2
    <2>4. PICK f \in [Errors -> Nat] : f = appErrors
      BY <2>1
    <2>5. PICK g : g = appErrors'
      OBVIOUS
    <2>6. /\ g[e] = f[e] + 1 /\ \A s \in Errors : s # e => g[s] = f[s]
          /\ IsFiniteSet(Events(f, Errors))
      BY <2>1, <2>3, <2>4, <2>5
    <2>7. /\ IsFiniteSet(Events(g, Errors))
          /\ Cardinality(Events(g, Errors)) = Cardinality(Events(f, Errors)) + (IF e \in Errors THEN 1 ELSE 0)
      BY <2>1, <2>6, CountedOnce
    <2>8. QED
      BY <2>2, <2>4, <2>5, <2>7
  <1>5. /\ Cardinality(InErrorPath) \in Nat /\ Cardinality(Events(appErrors, Errors)) \in Nat
        /\ Cardinality(Events(byStatus, Statuses \ {"200"})) \in Nat
    BY FS_CardinalityType DEF MetricsInv
  <1>6. CountedAsAnswered'
    BY <1>1 DEF MetricsInv, CountedAsAnswered, TypeOK
  <1>7. QED
    BY <1>1, <1>3, <1>4, <1>5, <1>6 DEF MetricsInv, MetricsAgree

\* The request is counted by its status and leaves the error path.
LEMMA RequestIsCounted ==
  ASSUME TypeOK, MetricsInv, NEW r \in Requests, CountRequest(r)
  PROVE  MetricsInv'
  <1> DEFINE bad == Statuses \ {"200"}
  <1>1. /\ pc[r] = "count" /\ UNCHANGED <<err, appErrors, answer>>
        /\ pc' = [pc EXCEPT ![r] = "over"] /\ byStatus' = [byStatus EXCEPT ![answer[r]] = @ + 1]
    BY DEF CountRequest, Goto
  <1>2. answer[r] = Status(err[r])
    BY <1>1 DEF MetricsInv, CountedAsAnswered
  <1>3. answer[r] \in Statuses /\ (answer[r] \in bad <=> err[r] # NoErr)
    <2>1. err[r] \in Stages \cup {"ctx", NoErr}
      BY DEF TypeOK, Errors
    <2>2. QED
      BY <1>2, <2>1, StagesAre DEF Status, Statuses, NoErr
  <1>4. /\ IsFiniteSet(Events(byStatus', bad))
        /\ Cardinality(Events(byStatus', bad)) =
             Cardinality(Events(byStatus, bad)) + (IF answer[r] \in bad THEN 1 ELSE 0)
    <2>1. byStatus \in [Statuses -> Nat] /\ IsFiniteSet(Events(byStatus, bad)) /\ bad \subseteq Statuses
      BY DEF MetricsInv, TypeOK
    <2>2. PICK a \in Statuses : a = answer[r]
      BY <1>3
    <2>3. byStatus' = [byStatus EXCEPT ![a] = @ + 1]
      BY <1>1, <2>2
    <2>4. PICK f \in [Statuses -> Nat] : f = byStatus
      BY <2>1
    <2>5. PICK g : g = byStatus'
      OBVIOUS
    <2>6. /\ g[a] = f[a] + 1 /\ \A s \in Statuses : s # a => g[s] = f[s]
          /\ IsFiniteSet(Events(f, bad))
      BY <2>1, <2>3, <2>4, <2>5
    <2>7. /\ IsFiniteSet(Events(g, bad))
          /\ Cardinality(Events(g, bad)) = Cardinality(Events(f, bad)) + (IF a \in bad THEN 1 ELSE 0)
      BY <2>1, <2>6, CountedOnce
    <2>8. QED
      BY <2>2, <2>4, <2>5, <2>7
  <1>5. /\ Cardinality(InErrorPath) \in Nat /\ Cardinality(Events(appErrors, Errors)) \in Nat
        /\ Cardinality(Events(byStatus, bad)) \in Nat
    BY FS_CardinalityType DEF MetricsInv
  <1>6. InErrorPath' = InErrorPath \ {r} /\ (r \in InErrorPath <=> err[r] # NoErr)
    BY <1>1 DEF InErrorPath, TypeOK
  <1>7. CountedAsAnswered'
    BY <1>1 DEF MetricsInv, CountedAsAnswered, TypeOK
  <1>8. CASE err[r] = NoErr
    <2>1. InErrorPath' = InErrorPath
      BY <1>6, <1>8
    <2>2. Cardinality(Events(byStatus', bad)) = Cardinality(Events(byStatus, bad))
      BY <1>3, <1>4, <1>5, <1>8
    <2>3. QED
      BY <1>1, <1>4, <1>7, <2>1, <2>2 DEF MetricsInv, MetricsAgree
  <1>9. CASE err[r] # NoErr
    <2>1. IsFiniteSet(InErrorPath') /\ Cardinality(InErrorPath') = Cardinality(InErrorPath) - 1
      BY <1>6, <1>9, FS_RemoveElement DEF MetricsInv
    <2>2. Cardinality(Events(byStatus', bad)) = Cardinality(Events(byStatus, bad)) + 1
      BY <1>3, <1>4, <1>9
    <2>3. QED
      BY <1>1, <1>4, <1>5, <1>7, <2>1, <2>2 DEF MetricsInv, MetricsAgree
  <1>10. QED
    BY <1>8, <1>9

\* Every other step of a request counts nothing.
LEMMA OtherStepsCountNothing ==
  ASSUME TypeOK, MetricsInv, NEW r \in Requests, HandlerInv(r), OwnStep(r), ~CountError(r), ~CountRequest(r)
  PROVE  MetricsInv'
  <1>1. CASE ProfileStep(r) \/ RequestEnds(r)
    <2>1. UNCHANGED <<pc, err, answer, appErrors, byStatus>>
      BY <1>1 DEF ProfileStep, FetchProfile, SendProfile, RequestEnds
    <2>2. QED
      BY <2>1 DEF MetricsInv, MetricsAgree, CountedAsAnswered, InErrorPath
  <1>2. CASE LogRecord(r) \/ LogTears(r) \/ LogReturns(r) \/ LogFails(r)
    <2>1. /\ UNCHANGED <<err, answer, appErrors, byStatus>>
          /\ pc[r] \in {"log", "torn", "logged"}
          /\ \E label \in {"torn", "logged", "reply"} : pc' = [pc EXCEPT ![r] = label]
      BY <1>2 DEF LogRecord, LogTears, LogReturns, LogFails, Goto
    <2>2. InErrorPath' = InErrorPath /\ CountedAsAnswered'
      BY <2>1 DEF InErrorPath, MetricsInv, CountedAsAnswered, TypeOK
    <2>3. QED
      BY <2>1, <2>2, NoneCounted
  <1>3. CASE WriteAnswer(r)
    <2>1. /\ UNCHANGED <<err, appErrors, byStatus>> /\ pc[r] \in {"reply", "respond"}
          /\ pc' = [pc EXCEPT ![r] = "count"] /\ answer' = [answer EXCEPT ![r] = Status(err[r])]
      BY <1>3 DEF WriteAnswer, Goto
    <2>2. pc[r] = "respond" => err[r] = NoErr
      BY DEF HandlerInv
    <2>3. InErrorPath' = InErrorPath
      BY <2>1, <2>2 DEF InErrorPath, TypeOK
    <2>4. CountedAsAnswered'
      <3>1. ASSUME NEW s \in Requests, pc'[s] = "count" PROVE answer'[s] = Status(err'[s])
        <4>1. CASE s = r
          BY <2>1, <4>1 DEF TypeOK
        <4>2. CASE s # r
          BY <2>1, <3>1, <4>2 DEF TypeOK, MetricsInv, CountedAsAnswered
        <4>3. QED
          BY <4>1, <4>2
      <3>2. QED
        BY <3>1 DEF CountedAsAnswered
    <2>5. QED
      BY <2>1, <2>3, <2>4, NoneCounted
  <1>4. CASE \/ Arrive(r) \/ ParseRequest(r) \/ StartConvert(r) \/ ConvertSubs(r) \/ ReceiveProfile(r)
             \/ CompileProxies(r) \/ RenderBlocks(r) \/ FetchTemplate(r) \/ InjectTemplate(r)
    <2>1. /\ UNCHANGED <<answer, appErrors, byStatus>>
          /\ pc[r] \notin {"log", "torn", "logged", "reply", "count"}
      BY <1>4 DEF Arrive, ParseRequest, StartConvert, ConvertSubs, ReceiveProfile, CompileProxies,
         RenderBlocks, FetchTemplate, InjectTemplate
    <2>2. pc'[r] \notin {"log", "torn", "logged", "reply", "count"}
      BY <1>4 DEF Arrive, ParseRequest, StartConvert, ConvertSubs, ReceiveProfile, CompileProxies,
         RenderBlocks, FetchTemplate, InjectTemplate, GoOn, FailWith, LeaveWithOutput, Goto, TypeOK
    <2>3. \A s \in Requests : s # r => pc'[s] = pc[s] /\ err'[s] = err[s]
      BY <1>4 DEF Arrive, ParseRequest, StartConvert, ConvertSubs, ReceiveProfile, CompileProxies,
         RenderBlocks, FetchTemplate, InjectTemplate, GoOn, FailWith, LeaveWithOutput, Goto, TypeOK
    <2>4. InErrorPath' = InErrorPath
      BY <2>1, <2>2, <2>3 DEF InErrorPath
    <2>5. CountedAsAnswered'
      BY <2>1, <2>2, <2>3 DEF MetricsInv, CountedAsAnswered
    <2>6. QED
      BY <2>1, <2>4, <2>5, NoneCounted
  <1>5. QED
    BY <1>1, <1>2, <1>3, <1>4 DEF OwnStep, HandlerStep

\* The counters agree before the first request and after every step.
LEMMA CountersKept == ConvertInv /\ MetricsInv /\ [Next]_vars => MetricsInv'
  <1> SUFFICES ASSUME ConvertInv, MetricsInv, [Next]_vars PROVE MetricsInv'
    OBVIOUS
  <1>1. TypeOK
    BY DEF ConvertInv
  <1>2. ASSUME NEW r \in Requests, OwnStep(r) PROVE MetricsInv'
    <2>1. HandlerInv(r)
      BY DEF ConvertInv, RequestInv
    <2>2. QED
      BY <1>1, <1>2, <2>1, ErrorIsCounted, RequestIsCounted, OtherStepsCountNothing
  <1>3. CASE LogRecovers \/ Signal \/ ShutdownCompletes \/ ShutdownTimesOut \/ ListenerFails \/ Killed \/ UNCHANGED vars
    <2>1. UNCHANGED <<pc, err, answer, appErrors, byStatus>>
      BY <1>3 DEF LogRecovers, Signal, ShutdownCompletes, ShutdownTimesOut, ListenerFails, Killed, vars, requestVars
    <2>2. QED
      BY <2>1 DEF MetricsInv, MetricsAgree, CountedAsAnswered, InErrorPath
  <1>4. QED
    BY <1>2, <1>3 DEF Next, OwnStep, Exited
LEMMA CountersAreZeroAtFirst == Init => MetricsInv
  <1> SUFFICES ASSUME Init PROVE MetricsInv
    OBVIOUS
  <1>1. Events(appErrors, Errors) = {} /\ Events(byStatus, Statuses \ {"200"}) = {}
    BY NothingCounted DEF Init
  <1>2. InErrorPath = {} /\ CountedAsAnswered
    BY DEF Init, InErrorPath, CountedAsAnswered
  <1>3. QED
    BY <1>1, <1>2, FS_EmptySet DEF MetricsInv, MetricsAgree

\* For any number of concurrent requests the two error counters differ exactly
\* by the failures whose answers are on their way (incAppError,
\* withObservability).
THEOREM CountersAgree == Spec => []MetricsAgree
  <1>1. MetricsInv => MetricsAgree
    BY DEF MetricsInv
  <1>2. QED
    BY <1>1, ConvertInvariant, CountersAreZeroAtFirst, CountersKept, PTL DEF Spec

=============================================================================
