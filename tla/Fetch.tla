-------------------------------- MODULE Fetch --------------------------------
(***************************************************************************)
(* One call of FetchTextWithOptions (internal/fetch/fetch.go): the URL, a  *)
(* chain of redirects, the answer, and the bounded reading of its body,    *)
(* under the client's timer and the caller's context, either of which may  *)
(* end the call at any moment.                                             *)
(*                                                                         *)
(* What the upstream does is fixed when the call starts (world):           *)
(*   kind     which resource is asked for                                  *)
(*   scheme   "http" stands for both schemes that are allowed              *)
(*   hops     the redirects on the way, each to a scheme, or "unparsable"  *)
(*   reply    "ok" (2xx), "status" (any other, a redirect without Location *)
(*            included), "refused" (no connection), "hangs"                *)
(*   size     the length of the body, in units of reading                  *)
(*   ending   how the body ends: "eof", "broken", "hangs"                  *)
(*   utf8     whether it is valid UTF-8                                    *)
(***************************************************************************)
EXTENDS Naturals, Sequences

CONSTANTS
  Worlds,        \* what upstreams may do
  MaxRedirects,  \* redirects that are followed (5 in the code)
  MaxBytes       \* the bound on the body of each kind of resource

ASSUME RedirectsAreCounted == MaxRedirects \in Nat
ASSUME BoundsArePositive == \A w \in Worlds : MaxBytes[w.kind] \in Nat \ {0}
ASSUME SizesAreNatural == \A w \in Worlds : w.size \in Nat /\ w.hops \in Seq(STRING)

VARIABLES
  world,    \* the call: what is asked for and what the upstream will do
  call,     \* "check", "request", "read", "over"
  via,      \* requests already answered by a redirect: len(via) of CheckRedirect
  got,      \* units of the body that were read
  timer,    \* the client's timer has fired
  ctx,      \* the caller's context: "live", "cancelled", "expired"
  verdict   \* "none", "OK", or the code of the error

fetchVars == <<world, call, via, got, timer, ctx, verdict>>

Codes == {"INVALID_ARGUMENT", "FETCH_FAILED", "FETCH_TIMEOUT", "TOO_LARGE", "FETCH_INVALID_UTF8"}

\* kind.defaultMaxBytes: no caller sets another bound.
Limit == MaxBytes[world.kind]

FetchInit ==
  /\ world \in Worlds
  /\ call = "check" /\ via = 0 /\ got = 0
  /\ timer = FALSE /\ ctx = "live" /\ verdict = "none"

Conclude(code) == call' = "over" /\ verdict' = code

\* Only http and https URLs are fetched.
CheckUrl ==
  /\ call = "check"
  /\ IF world.scheme = "http"
     THEN call' = "request" /\ UNCHANGED verdict
     ELSE Conclude("INVALID_ARGUMENT")
  /\ UNCHANGED <<world, via, got, timer, ctx>>

\* CheckRedirect looks at len(via) before it looks at the scheme; a Location
\* that cannot be parsed never gets there.
TooManyRedirects_OneMore(n) == n > MaxRedirects + 1
TooManyRedirects(n) == n > MaxRedirects
Redirect ==
  /\ call = "request" /\ via < Len(world.hops)
  /\ LET hop == world.hops[via + 1] IN
     \/ hop = "unparsable" /\ Conclude("FETCH_FAILED") /\ UNCHANGED via
     \/ /\ hop # "unparsable" /\ TooManyRedirects(via + 1)
        /\ Conclude("FETCH_FAILED") /\ UNCHANGED via
     \/ /\ hop # "unparsable" /\ ~TooManyRedirects(via + 1)
        /\ IF hop = "http"
           THEN via' = via + 1 /\ UNCHANGED <<call, verdict>>
           ELSE Conclude("INVALID_ARGUMENT") /\ UNCHANGED via
  /\ UNCHANGED <<world, got, timer, ctx>>

\* The last request is answered, or there is no connection.
Respond ==
  /\ call = "request" /\ via = Len(world.hops)
  /\ \/ world.reply = "ok" /\ call' = "read" /\ UNCHANGED verdict
     \/ world.reply \in {"status", "refused"} /\ Conclude("FETCH_FAILED")
  /\ UNCHANGED <<world, via, got, timer, ctx>>

\* io.LimitReader lets one unit more pass than is allowed, so that a body that
\* is too large shows.
ReadBound_Limit == Limit
ReadBound == Limit + 1
Read ==
  /\ call = "read" /\ got < ReadBound /\ got < world.size
  /\ got' = got + 1
  /\ UNCHANGED <<world, call, via, timer, ctx, verdict>>

\* ReadAll returns at the bound or at the end of the body; then the size is
\* checked before the encoding.
Finish ==
  /\ call = "read"
  /\ \/ got = ReadBound
     \/ got = world.size /\ world.ending = "eof"
  /\ Conclude(IF got > Limit THEN "TOO_LARGE"
              ELSE IF ~world.utf8 THEN "FETCH_INVALID_UTF8" ELSE "OK")
  /\ UNCHANGED <<world, via, got, timer, ctx>>

ReadFails ==
  /\ call = "read" /\ got # ReadBound
  /\ got = world.size /\ world.ending = "broken"
  /\ Conclude("FETCH_FAILED")
  /\ UNCHANGED <<world, via, got, timer, ctx>>

\* What an interrupted request or read fails with: the timer of the client and
\* a deadline of the context are time-outs (net.Error), a cancelled context is
\* not; when both have ended either may be seen first.  At the bound the
\* LimitReader ends the body without touching the connection.
Interruption ==
  (IF timer \/ ctx = "expired" THEN {"FETCH_TIMEOUT"} ELSE {})
    \cup (IF ctx = "cancelled" THEN {"FETCH_FAILED"} ELSE {})
Interrupt ==
  /\ call \in {"request", "read"} /\ got # ReadBound
  /\ \E code \in Interruption : Conclude(code)
  /\ UNCHANGED <<world, via, got, timer, ctx>>

\* client.Timeout covers the redirects and the body, from the first request on.
TimerFires_NotWhileReading ==
  /\ call = "request" /\ ~timer
  /\ timer' = TRUE
  /\ UNCHANGED <<world, call, via, got, ctx, verdict>>
TimerFires ==
  /\ call \in {"request", "read"} /\ ~timer
  /\ timer' = TRUE
  /\ UNCHANGED <<world, call, via, got, ctx, verdict>>

\* The client disconnects or another call fails; ConvertTimeout passes.
ContextEnds ==
  /\ call \in {"check", "request", "read"} /\ ctx = "live"
  /\ ctx' \in {"cancelled", "expired"}
  /\ UNCHANGED <<world, call, via, got, timer, verdict>>

FetchStep == CheckUrl \/ Redirect \/ Respond \/ Read \/ Finish \/ ReadFails \/ Interrupt

FetchNext == FetchStep \/ TimerFires \/ ContextEnds

(* The transport goes on when there is something to do, and the timer fires; *)
(* nothing is assumed of the upstream, which may hang for ever, nor that the *)
(* context ends.                                                             *)
FetchFairness == WF_fetchVars(FetchStep) /\ WF_fetchVars(TimerFires)
=============================================================================
