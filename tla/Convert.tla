------------------------------- MODULE Convert -------------------------------
(***************************************************************************)
(* A conversion from the HTTP request to its answer: handleSub and         *)
(* handleConvert, runConvert with its profile goroutine, the error path of *)
(* writeErrorFromErr, the counters of withObservability, and the end of    *)
(* the process under them (main).                                          *)
(*                                                                         *)
(* Whether a stage of a conversion fails depends on the request and on     *)
(* what the upstreams serve: broken[r] is the set of stages that cannot    *)
(* succeed for request r.  A fetch may also fail because its context is    *)
(* done.  The subscriptions are fetched in one step (module SubFetch has   *)
(* the goroutines of that step), and stand for one resource.  The error    *)
(* log is the abstract one of FailureLog, which ErrorLog implements.       *)
(***************************************************************************)
EXTENDS Naturals, Sequences, FiniteSets, SequencesExt

CONSTANTS
  Requests,   \* the requests that may come
  Kinds,      \* what they may ask for: "list", "config" (any target but surge), "surge"
  Worlds      \* the sets of stages that may be broken for a request

\* The stages in the order in which a conversion reaches them; each is the
\* cause of failure of one error.
StageOrder == <<"validate", "filename", "fetch_sub", "parse_sub", "fetch_profile",
  "parse_profile", "compile", "render", "fetch_template", "inject", "managed">>
Stages == ToSet(StageOrder)

ASSUME KindsAreKnown == Kinds \subseteq {"list", "config", "surge"}
ASSUME WorldsAreStages == Worlds \subseteq SUBSET Stages

VARIABLES
  kind,      \* what the request asks for
  broken,    \* the stages that cannot succeed for it
  pc,        \* where its handler is
  ended,     \* its context has ended: disconnect, or ConvertTimeout
  cancelled, \* runConvert has returned: its deferred cancel has run
  ppc,       \* where its profile goroutine is
  found,     \* what the profile goroutine has found
  profCh,    \* the content of its channel
  err,       \* the stage its error comes from
  coll,      \* its collector
  answer,    \* what the handler has handed to the HTTP server
  byStatus,  \* metrics: requests by status
  appErrors, \* metrics: application errors by cause
  stored, torn, glued, acked, degraded,   \* the error log
  unlogged,  \* history: the requests whose record could not be written
  server     \* "up", "draining" after a signal, "exited"

inputs == <<kind, broken>>
profile == <<ppc, found, profCh>>
log == <<stored, torn, glued, acked, degraded>>
vars == <<inputs, pc, ended, cancelled, profile, err, coll, answer, byStatus,
          appErrors, log, unlogged, server>>

Statuses == {"200", "400", "422", "upstream"}
Errors == Stages \cup {"ctx"}
NoErr == "none"

Status_Unclassified(e) == IF e = NoErr THEN "200" ELSE "500"
\* classifyError: 400 for the request, 502/504 (here "upstream") for a fetch,
\* 422 for the content of what was fetched.
Status(e) ==
  CASE e = NoErr -> "200"
    [] e \in {"validate", "filename"} -> "400"
    [] e \in {"ctx", "fetch_sub", "fetch_profile", "fetch_template"} -> "upstream"
    [] OTHER -> "422"

Resources == {"sub", "profile", "template"}
Collectors == [asked : BOOLEAN, resources : Seq(Resources), parsed : BOOLEAN, compiled : BOOLEAN]
EmptyCollector == [asked |-> FALSE, resources |-> <<>>, parsed |-> FALSE, compiled |-> FALSE]

\* BuildFailure: what is recorded of a failed conversion.
BuildFailure(r) == [request |-> r, err |-> err[r], coll |-> coll[r]]
Record == [request : Requests, err : Errors, coll : Collectors]

Log == INSTANCE FailureLog WITH
  None <- "none", WriteFailed <- "write_failure",
  Reasons <- {"write_failure", "export_failure", "dir_check"}

Results == [snapshot : BOOLEAN, err : Errors \cup {NoErr}]
NoResult == [snapshot |-> FALSE, err |-> NoErr]

Init ==
  /\ kind \in [Requests -> Kinds]
  /\ broken \in [Requests -> Worlds]
  /\ pc = [r \in Requests |-> "idle"]
  /\ ended = [r \in Requests |-> FALSE]
  /\ cancelled = [r \in Requests |-> FALSE]
  /\ ppc = [r \in Requests |-> "unborn"]
  /\ found = [r \in Requests |-> NoResult]
  /\ profCh = [r \in Requests |-> <<>>]
  /\ err = [r \in Requests |-> NoErr]
  /\ coll = [r \in Requests |-> EmptyCollector]
  /\ answer = [r \in Requests |-> "none"]
  /\ byStatus = [s \in Statuses |-> 0]
  /\ appErrors = [e \in Errors |-> 0]
  /\ Log!LogInit
  /\ unlogged = {}
  /\ server = "up"

Running == server # "exited"
Goto(r, label) == pc' = [pc EXCEPT ![r] = label]
Breaks(r, stage) == stage \in broken[r]
AddResource(r, kindOf) == [coll EXCEPT ![r].resources = Append(@, kindOf)]

\* The handler goes on after a stage, or leaves runConvert with an error.
GoOn(r, label) == Goto(r, label) /\ UNCHANGED <<err, cancelled>>
FailWith(r, e) ==
  /\ err' = [err EXCEPT ![r] = e]
  /\ cancelled' = [cancelled EXCEPT ![r] = TRUE]
  /\ Goto(r, "error")
LeaveWithOutput(r) ==
  /\ cancelled' = [cancelled EXCEPT ![r] = TRUE]
  /\ Goto(r, "respond")
  /\ UNCHANGED err

-----------------------------------------------------------------------------
(* The handler up to runConvert. *)

Arrive(r) ==
  /\ server = "up" /\ pc[r] = "idle"
  /\ Goto(r, "parse")
  /\ UNCHANGED <<inputs, ended, cancelled, profile, err, coll, answer, byStatus,
                 appErrors, log, unlogged, server>>

\* parseConvertGET or parseConvertPOST, then SetRequest.
ParseRequest(r) ==
  /\ Running /\ pc[r] = "parse"
  /\ IF Breaks(r, "validate")
     THEN FailWith(r, "validate") /\ UNCHANGED coll
     ELSE GoOn(r, "attach") /\ coll' = [coll EXCEPT ![r].asked = TRUE]
  /\ UNCHANGED <<inputs, ended, profile, answer, byStatus, appErrors, log, unlogged, server>>

\* outputFileName refuses the file name that was asked for.
BadFileName(r) == Breaks(r, "filename")

\* setAttachmentHeaders, then runConvert starts the profile goroutine.
StartConvert(r) ==
  /\ Running /\ pc[r] = "attach"
  /\ IF BadFileName(r)
     THEN FailWith(r, "filename") /\ UNCHANGED ppc
     ELSE /\ GoOn(r, "subs")
          /\ ppc' = [ppc EXCEPT ![r] = IF kind[r] = "list" THEN "unborn" ELSE "fetch"]
  /\ UNCHANGED <<inputs, ended, found, profCh, coll, answer, byStatus, appErrors, log,
                 unlogged, server>>

-----------------------------------------------------------------------------
(* The profile goroutine. *)

CtxDone(r) == ended[r] \/ cancelled[r]

FetchProfile(r) ==
  /\ Running /\ ppc[r] = "fetch"
  /\ \/ CtxDone(r) /\ found' = [found EXCEPT ![r] = [snapshot |-> FALSE, err |-> "ctx"]]
     \/ /\ Breaks(r, "fetch_profile")
        /\ found' = [found EXCEPT ![r] = [snapshot |-> FALSE, err |-> "fetch_profile"]]
     \/ /\ ~Breaks(r, "fetch_profile")
        /\ found' = [found EXCEPT ![r] =
             [snapshot |-> TRUE,
              err |-> IF Breaks(r, "parse_profile") THEN "parse_profile" ELSE NoErr]]
  /\ ppc' = [ppc EXCEPT ![r] = "send"]
  /\ UNCHANGED <<inputs, pc, ended, cancelled, profCh, err, coll, answer, byStatus,
                 appErrors, log, unlogged, server>>

\* profCh <- ...: the channel has room for one value, taken or not.
CanSend_Unbuffered(r) == pc[r] = "recv"
CanSend(r) == Len(profCh[r]) < 1

SendProfile(r) ==
  /\ Running /\ ppc[r] = "send" /\ CanSend(r)
  /\ profCh' = [profCh EXCEPT ![r] = Append(@, found[r])]
  /\ ppc' = [ppc EXCEPT ![r] = "gone"]
  /\ UNCHANGED <<inputs, pc, ended, cancelled, found, err, coll, answer, byStatus,
                 appErrors, log, unlogged, server>>

-----------------------------------------------------------------------------
(* runConvert. *)

ConvertSubs_FirstErrorWins(r) ==
  /\ Running /\ pc[r] = "subs"
  /\ \/ /\ profCh[r] # <<>> /\ Head(profCh[r]).err # NoErr
        /\ FailWith(r, Head(profCh[r]).err) /\ UNCHANGED coll
     \/ Breaks(r, "fetch_sub") /\ FailWith(r, "fetch_sub") /\ UNCHANGED coll
     \/ /\ ~Breaks(r, "fetch_sub")
        /\ coll' = [AddResource(r, "sub") EXCEPT ![r].parsed = TRUE]
        /\ GoOn(r, IF kind[r] = "list" THEN "compile" ELSE "recv")
  /\ UNCHANGED <<inputs, ended, profile, answer, byStatus, appErrors, log, unlogged, server>>

\* fetchAndParseSubs; a list has no profile to wait for.
ConvertSubs(r) ==
  /\ Running /\ pc[r] = "subs"
  /\ \/ CtxDone(r) /\ FailWith(r, "ctx") /\ UNCHANGED coll
     \/ Breaks(r, "fetch_sub") /\ FailWith(r, "fetch_sub") /\ UNCHANGED coll
     \/ /\ ~Breaks(r, "fetch_sub") /\ Breaks(r, "parse_sub")
        /\ coll' = AddResource(r, "sub")
        /\ FailWith(r, "parse_sub")
     \/ /\ ~Breaks(r, "fetch_sub") /\ ~Breaks(r, "parse_sub")
        /\ coll' = [AddResource(r, "sub") EXCEPT ![r].parsed = TRUE]
        /\ GoOn(r, IF kind[r] = "list" THEN "compile" ELSE "recv")
  /\ UNCHANGED <<inputs, ended, profile, answer, byStatus, appErrors, log, unlogged, server>>

ReceiveProfile_ErrorFirst(r) ==
  /\ Running /\ pc[r] = "recv" /\ profCh[r] # <<>>
  /\ LET pr == Head(profCh[r]) IN
       IF pr.err # NoErr THEN FailWith(r, pr.err) /\ UNCHANGED coll
       ELSE GoOn(r, "compile") /\ coll' = AddResource(r, "profile")
  /\ profCh' = [profCh EXCEPT ![r] = Tail(@)]
  /\ UNCHANGED <<inputs, ended, ppc, found, answer, byStatus, appErrors, log, unlogged, server>>

\* pr := <-profCh, its snapshot and its error.
ReceiveProfile(r) ==
  /\ Running /\ pc[r] = "recv" /\ profCh[r] # <<>>
  /\ LET pr == Head(profCh[r]) IN
       /\ coll' = IF pr.snapshot THEN AddResource(r, "profile") ELSE coll
       /\ IF pr.err # NoErr THEN FailWith(r, pr.err) ELSE GoOn(r, "compile")
  /\ profCh' = [profCh EXCEPT ![r] = Tail(@)]
  /\ UNCHANGED <<inputs, ended, ppc, found, answer, byStatus, appErrors, log, unlogged, server>>

\* NormalizeSubscriptionProxies and renderSSListRaw, or Compile.
CompileProxies(r) ==
  /\ Running /\ pc[r] = "compile"
  /\ \/ Breaks(r, "compile") /\ FailWith(r, "compile") /\ UNCHANGED coll
     \/ /\ ~Breaks(r, "compile") /\ kind[r] = "list"
        /\ LeaveWithOutput(r) /\ UNCHANGED coll
     \/ /\ ~Breaks(r, "compile") /\ kind[r] # "list"
        /\ coll' = [coll EXCEPT ![r].compiled = TRUE]
        /\ GoOn(r, "render")
  /\ UNCHANGED <<inputs, ended, profile, answer, byStatus, appErrors, log, unlogged, server>>

RenderBlocks(r) ==
  /\ Running /\ pc[r] = "render"
  /\ IF Breaks(r, "render") THEN FailWith(r, "render") ELSE GoOn(r, "template")
  /\ UNCHANGED <<inputs, ended, profile, coll, answer, byStatus, appErrors, log, unlogged, server>>

FetchTemplate(r) ==
  /\ Running /\ pc[r] = "template"
  /\ \/ CtxDone(r) /\ FailWith(r, "ctx") /\ UNCHANGED coll
     \/ Breaks(r, "fetch_template") /\ FailWith(r, "fetch_template") /\ UNCHANGED coll
     \/ /\ ~Breaks(r, "fetch_template")
        /\ coll' = AddResource(r, "template")
        /\ GoOn(r, "inject")
  /\ UNCHANGED <<inputs, ended, profile, answer, byStatus, appErrors, log, unlogged, server>>

\* InjectAnchors, and the managed-config line of Surge.
InjectTemplate(r) ==
  /\ Running /\ pc[r] = "inject"
  /\ \/ Breaks(r, "inject") /\ FailWith(r, "inject")
     \/ /\ ~Breaks(r, "inject") /\ kind[r] = "surge" /\ Breaks(r, "managed")
        /\ FailWith(r, "managed")
     \/ /\ ~Breaks(r, "inject") /\ ~(kind[r] = "surge" /\ Breaks(r, "managed"))
        /\ LeaveWithOutput(r)
  /\ UNCHANGED <<inputs, ended, profile, coll, answer, byStatus, appErrors, log, unlogged, server>>

-----------------------------------------------------------------------------
(* The answer: writeErrorFromErr or WriteText, then withObservability. *)

CountError_NotIfCancelled(r) ==
  /\ Running /\ pc[r] = "error"
  /\ appErrors' = IF err[r] = "ctx" THEN appErrors ELSE [appErrors EXCEPT ![err[r]] = @ + 1]
  /\ Goto(r, "log")
  /\ UNCHANGED <<inputs, ended, cancelled, profile, err, coll, answer, byStatus, log,
                 unlogged, server>>

CountError(r) ==
  /\ Running /\ pc[r] = "error"
  /\ appErrors' = [appErrors EXCEPT ![err[r]] = @ + 1]
  /\ Goto(r, "log")
  /\ UNCHANGED <<inputs, ended, cancelled, profile, err, coll, answer, byStatus, log,
                 unlogged, server>>

\* WriteFailure: the record gets into the log, possibly behind one that another
\* call has left torn, then the call returns nil ...
LogRecord(r) ==
  /\ Running /\ pc[r] = "log"
  /\ \/ Log!Append(BuildFailure(r))
     \/ \E t \in torn : Log!AppendBehind(t, BuildFailure(r))
  /\ Goto(r, "logged")
  /\ UNCHANGED <<inputs, ended, cancelled, profile, err, coll, answer, byStatus,
                 appErrors, unlogged, server>>

\* ... or its write breaks off ...
LogTears(r) ==
  /\ Running /\ pc[r] = "log"
  /\ Log!Tear(BuildFailure(r))
  /\ Goto(r, "torn")
  /\ UNCHANGED <<inputs, ended, cancelled, profile, err, coll, answer, byStatus,
                 appErrors, unlogged, server>>

LogReturns(r) ==
  /\ Running /\ pc[r] = "logged"
  /\ Log!Acknowledge(BuildFailure(r))
  /\ Goto(r, "reply")
  /\ UNCHANGED <<inputs, ended, cancelled, profile, err, coll, answer, byStatus,
                 appErrors, unlogged, server>>

\* ... and it returns an error, which is only printed.
LogFails(r) ==
  /\ Running /\ pc[r] \in {"log", "torn", "logged"}
  /\ Log!Degrade("write_failure")
  /\ unlogged' = unlogged \cup {r}
  /\ Goto(r, "reply")
  /\ UNCHANGED <<inputs, ended, cancelled, profile, err, coll, answer, byStatus,
                 appErrors, server>>

WriteAnswer_BeforeLog(r) ==
  /\ Running /\ pc[r] \in {"log", "reply", "respond"}
  /\ answer' = [answer EXCEPT ![r] = Status(err[r])]
  /\ Goto(r, "count")
  /\ UNCHANGED <<inputs, ended, cancelled, profile, err, coll, byStatus, appErrors,
                 log, unlogged, server>>

WriteAnswer(r) ==
  /\ Running /\ pc[r] \in {"reply", "respond"}
  /\ answer' = [answer EXCEPT ![r] = Status(err[r])]
  /\ Goto(r, "count")
  /\ UNCHANGED <<inputs, ended, cancelled, profile, err, coll, byStatus, appErrors,
                 log, unlogged, server>>

CountRequest(r) ==
  /\ Running /\ pc[r] = "count"
  /\ byStatus' = [byStatus EXCEPT ![answer[r]] = @ + 1]
  /\ Goto(r, "over")
  /\ UNCHANGED <<inputs, ended, cancelled, profile, err, coll, answer, appErrors, log,
                 unlogged, server>>

-----------------------------------------------------------------------------
(* Around the requests. *)

\* The client disconnects, or ConvertTimeout passes.
RequestEnds(r) ==
  /\ Running /\ pc[r] \notin {"idle", "over"} /\ ~ended[r]
  /\ ended' = [ended EXCEPT ![r] = TRUE]
  /\ UNCHANGED <<inputs, pc, cancelled, profile, err, coll, answer, byStatus, appErrors,
                 log, unlogged, server>>

requestVars == <<inputs, pc, ended, cancelled, profile, err, coll, answer, byStatus,
                 appErrors, unlogged>>

\* A health check or an export changes what is reported of the log.
LogRecovers == Running /\ Log!Recover /\ UNCHANGED <<requestVars, server>>

\* SIGTERM: Shutdown closes the listener and waits for the active handlers.
Signal ==
  /\ server = "up" /\ server' = "draining"
  /\ UNCHANGED <<requestVars, log>>

Quiet == \A r \in Requests : pc[r] \in {"idle", "over"}

ShutdownCompletes ==
  /\ server = "draining" /\ Quiet
  /\ server' = "exited"
  /\ UNCHANGED <<requestVars, log>>

\* -shutdown-timeout passes: Close, and main returns under running handlers.
ShutdownTimesOut ==
  /\ server = "draining" /\ ~Quiet
  /\ server' = "exited"
  /\ UNCHANGED <<requestVars, log>>

\* ListenAndServe returns an error: log.Fatal ends the process at once.
ListenerFails ==
  /\ server = "up" /\ server' = "exited"
  /\ UNCHANGED <<requestVars, log>>

Killed ==
  /\ Running /\ server' = "exited"
  /\ Log!Lose({BuildFailure(r) : r \in {q \in Requests : pc[q] = "log"}})
  /\ UNCHANGED requestVars

Exited == server = "exited" /\ UNCHANGED vars

HandlerStep(r) ==
  \/ ParseRequest(r) \/ StartConvert(r) \/ ConvertSubs(r) \/ ReceiveProfile(r)
  \/ CompileProxies(r) \/ RenderBlocks(r) \/ FetchTemplate(r) \/ InjectTemplate(r)
  \/ CountError(r) \/ LogRecord(r) \/ LogTears(r) \/ LogReturns(r) \/ LogFails(r)
  \/ WriteAnswer(r) \/ CountRequest(r)

ProfileStep(r) == FetchProfile(r) \/ SendProfile(r)

Next ==
  \/ \E r \in Requests : Arrive(r) \/ HandlerStep(r) \/ ProfileStep(r) \/ RequestEnds(r)
  \/ LogRecovers
  \/ Signal \/ ShutdownCompletes \/ ShutdownTimesOut \/ ListenerFails \/ Killed
  \/ Exited

Spec == Init /\ [][Next]_vars

(* Goroutines that can run do (every fetch ends by its client timeout). *)
FairSpec ==
  /\ Spec
  /\ \A r \in Requests : WF_vars(HandlerStep(r)) /\ WF_vars(ProfileStep(r))
=============================================================================
