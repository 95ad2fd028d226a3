--------------------------- MODULE ResourceProofs ----------------------------
(***************************************************************************)
(* For any upstreams and any bounds: a call of fetch follows no more       *)
(* redirects and reads no more than it may, and its verdict is that of the *)
(* upstream unless the timer or the context has ended it (CallInv).        *)
(*                                                                         *)
(* For any text: a subscription is read line by line without a loss        *)
(* (SubInv: the nodes so far are those of the lines so far), and a         *)
(* template becomes its output (TemplateInv: what the scan knows before a  *)
(* line is true of the lines before it).  Where the lines are in the       *)
(* output is counted twice, in Shift, block by block, and along the list   *)
(* that is joined (FlattenPlaces); ShiftGrows shows that both agree.       *)
(***************************************************************************)
EXTENDS ResourceProps, ListProofs, FiniteSetTheorems, TLAPS

\* What a call has seen so far, at each of its stages.
OnTheWay ==
  /\ via <= Len(world.hops) /\ via <= MaxRedirects
  /\ world.scheme = "http"
  /\ \A i \in 1..via : world.hops[i] = "http"
AtTheBody ==
  /\ via = Len(world.hops) /\ world.reply = "ok"
  /\ got <= world.size

CallInv ==
  /\ world \in Worlds /\ via \in Nat /\ got \in Nat
  /\ call = "check" => via = 0 /\ got = 0
  /\ call = "request" => OnTheWay /\ got = 0
  /\ call = "read" => OnTheWay /\ AtTheBody
  /\ TypeOK /\ FetchIsExact

WorldFacts == world.size \in Nat /\ world.hops \in Seq(STRING) /\ Limit \in Nat \ {0}

LEMMA WorldsAreTyped == world \in Worlds => WorldFacts
  BY SizesAreNatural, BoundsArePositive DEF WorldFacts, Limit

-----------------------------------------------------------------------------
(* Redirects. *)

\* The redirects that were followed are none of those at which a call stops.
LEMMA FollowedDoNotStop ==
  ASSUME WorldFacts, via \in Nat, OnTheWay
  PROVE  Stops \cap 1..via = {}
  BY RedirectsAreCounted DEF Stops, OnTheWay

\* The first redirect that is not followed is the first stop.
LEMMA NextIsFirstStop ==
  ASSUME WorldFacts, via \in Nat, OnTheWay, via + 1 \in Stops
  PROVE  FirstStop = via + 1
  <1>1. \A i \in Stops : i \in Nat /\ via + 1 <= i
    BY FollowedDoNotStop DEF Stops, WorldFacts
  <1>2. \E i \in Stops : \A j \in Stops : i <= j
    BY <1>1
  <1>3. FirstStop \in Stops /\ \A j \in Stops : FirstStop <= j
    BY <1>2 DEF FirstStop
  <1>4. QED
    BY <1>1, <1>3

LEMMA RedirectVerdict ==
  ASSUME CallInv, Redirect, call' = "over"
  PROVE  verdict' = WorldComes
  <1>1. WorldFacts /\ OnTheWay /\ via + 1 \in DOMAIN world.hops
    BY WorldsAreTyped DEF CallInv, Redirect, WorldFacts
  <1>2. via + 1 \in Stops
    BY <1>1, RedirectsAreCounted DEF CallInv, Redirect, Stops, TooManyRedirects, Conclude
  <1>3. FirstStop = via + 1
    BY <1>1, <1>2, NextIsFirstStop DEF CallInv
  <1>4. WorldComes = RedirectsCome
    BY <1>1, <1>2 DEF WorldComes, OnTheWay
  <1>5. QED
    BY <1>1, <1>3, <1>4, RedirectsAreCounted
       DEF CallInv, Redirect, RedirectsCome, TooManyRedirects, Conclude

\* A call that has followed them all gets to the answer.
LEMMA NothingStops ==
  ASSUME WorldFacts, via \in Nat, OnTheWay, via = Len(world.hops)
  PROVE  WorldComes = IF world.reply \in {"status", "refused"} THEN "FETCH_FAILED"
                      ELSE IF world.reply = "hangs" THEN "none" ELSE BodyComes
  <1>1. Stops = {}
    BY FollowedDoNotStop DEF Stops, WorldFacts
  <1>2. QED
    BY <1>1 DEF WorldComes, OnTheWay

-----------------------------------------------------------------------------
(* The steps of the call. *)

\* What stays of the world, and with it what it comes to.
LEMMA WorldStays ==
  ASSUME world' = world
  PROVE  WorldComes' = WorldComes /\ Limit' = Limit
  BY DEF WorldComes, RedirectsCome, BodyComes, FirstStop, Stops, Limit

\* A call that is over and has the verdict of its world, or an interruption.
Interrupted == \E code \in Interruption : verdict' = code
LEMMA VerdictIsExact ==
  ASSUME UNCHANGED <<world, timer, ctx>>,
         verdict' = WorldComes \/ Interrupted,
         verdict' = "OK" => got' = world.size /\ got' <= Limit
  PROVE  FetchIsExact'
  <1>1. WorldComes' = WorldComes /\ Limit' = Limit
    BY WorldStays
  <1>2. CASE verdict' = WorldComes
    <2>1. WorldComes # "FETCH_TIMEOUT"
      BY DEF WorldComes, RedirectsCome, BodyComes
    <2>2. QED
      BY <1>1, <1>2, <2>1 DEF FetchIsExact
  <1>3. CASE Interrupted
    <2>1. /\ verdict' \in {"FETCH_TIMEOUT", "FETCH_FAILED"}
          /\ verdict' = "FETCH_TIMEOUT" => timer \/ ctx = "expired"
          /\ verdict' = "FETCH_FAILED" => ctx = "cancelled"
      BY <1>3 DEF Interrupted, Interruption
    <2>2. QED
      BY <1>1, <2>1 DEF FetchIsExact
  <1>4. QED
    BY <1>2, <1>3

\* The part of the invariant that the steps of the call itself can disturb.
CallSteps == FetchNext /\ UNCHANGED <<templateVars, subVars>>

LEMMA TypeKept ==
  ASSUME CallInv, FetchNext, UNCHANGED <<templateVars, subVars>>
  PROVE  TypeOK'
  <1>1. WorldFacts /\ MaxRedirects \in Nat /\ world' = world /\ Limit' = Limit
    BY WorldsAreTyped, RedirectsAreCounted, WorldStays
       DEF CallInv, FetchNext, FetchStep, CheckUrl, Redirect, Respond, Read, Finish, ReadFails,
           Interrupt, TimerFires, ContextEnds
  <1>2. call # "used" /\ step = "none" /\ lineStep = "none" /\ step' = step /\ lineStep' = lineStep
    BY DEF CallInv, TypeOK, FetchNext, FetchStep, CheckUrl, Redirect, Respond, Read, Finish, ReadFails,
           Interrupt, TimerFires, ContextEnds, templateVars, subVars
  <1>3. /\ call' \in {"check", "request", "read", "over"} /\ verdict' \in Codes \cup {"none", "OK"}
        /\ (call' = "over") = (verdict' # "none")
    BY <1>2 DEF CallInv, TypeOK, FetchNext, FetchStep, CheckUrl, Redirect, Respond, Read, Finish, ReadFails,
           Interrupt, Interruption, TimerFires, ContextEnds, Conclude, Codes
  <1>4. via' \in 0..MaxRedirects
    BY <1>1 DEF CallInv, TypeOK, FetchNext, FetchStep, CheckUrl, Redirect, Respond, Read, Finish, ReadFails,
           Interrupt, TimerFires, ContextEnds, TooManyRedirects
  <1>5. got' \in 0..(Limit + 1)
    BY <1>1 DEF CallInv, TypeOK, FetchNext, FetchStep, CheckUrl, Redirect, Respond, Read, Finish, ReadFails,
           Interrupt, TimerFires, ContextEnds, ReadBound, WorldFacts
  <1>6. QED
    BY <1>1, <1>2, <1>3, <1>4, <1>5 DEF TypeOK

LEMMA CallKept ==
  ASSUME CallInv, FetchNext, UNCHANGED <<templateVars, subVars>>
  PROVE  CallInv'
  <1>0. WorldFacts /\ MaxRedirects \in Nat /\ TypeOK'
    BY WorldsAreTyped, RedirectsAreCounted, TypeKept DEF CallInv
  <1>1. CASE CheckUrl
    <2>1. CASE world.scheme = "http"
      BY <1>0, <1>1, <2>1 DEF CallInv, CheckUrl, OnTheWay, FetchIsExact, WorldFacts
    <2>2. CASE world.scheme # "http"
      <3>1. verdict' = WorldComes /\ verdict' # "OK" /\ call' = "over" /\ UNCHANGED <<world, via, got, timer, ctx>>
        BY <1>1, <2>2 DEF CheckUrl, Conclude, WorldComes
      <3>2. QED
        BY <1>0, <3>1, VerdictIsExact DEF CallInv
    <2>3. QED
      BY <2>1, <2>2
  <1>2. CASE Redirect
    <2>1. CASE call' = "over"
      <3>1. verdict' = WorldComes /\ verdict' # "OK" /\ UNCHANGED <<world, via, got, timer, ctx>>
        BY <1>2, <2>1, RedirectVerdict DEF Redirect, Conclude, CallInv
      <3>2. QED
        BY <1>0, <2>1, <3>1, VerdictIsExact DEF CallInv
    <2>2. CASE call' # "over"
      <3>1. /\ call = "request" /\ call' = "request" /\ via' = via + 1 /\ via < Len(world.hops)
            /\ world.hops[via + 1] = "http" /\ via + 1 <= MaxRedirects /\ UNCHANGED <<world, got>>
        BY <1>0, <1>2, <2>2 DEF Redirect, Conclude, TooManyRedirects, CallInv
      <3>2. OnTheWay'
        BY <1>0, <3>1 DEF CallInv, OnTheWay, WorldFacts
      <3>3. QED
        BY <1>0, <3>1, <3>2 DEF CallInv, FetchIsExact
    <2>3. QED
      BY <2>1, <2>2
  <1>3. CASE Respond
    <2>1. /\ OnTheWay /\ via = Len(world.hops) /\ got = 0 /\ UNCHANGED <<world, via, got, timer, ctx>>
      BY <1>3 DEF CallInv, Respond
    <2>2. CASE world.reply = "ok"
      <3>1. call' = "read"
        BY <1>3, <2>2 DEF Respond
      <3>2. OnTheWay' /\ AtTheBody'
        BY <1>0, <2>1, <2>2 DEF OnTheWay, AtTheBody, WorldFacts
      <3>3. QED
        BY <1>0, <2>1, <3>1, <3>2 DEF CallInv, FetchIsExact
    <2>3. CASE world.reply # "ok"
      <3>1. world.reply \in {"status", "refused"} /\ verdict' = "FETCH_FAILED" /\ call' = "over"
        BY <1>3, <2>3 DEF Respond, Conclude
      <3>2. verdict' = WorldComes
        BY <1>0, <2>1, <3>1, NothingStops DEF CallInv
      <3>3. QED
        BY <1>0, <2>1, <3>1, <3>2, VerdictIsExact DEF CallInv
    <2>4. QED
      BY <2>2, <2>3
  <1>4. CASE Read
    <2>1. /\ call = "read" /\ call' = "read" /\ got' = got + 1 /\ got < world.size
          /\ UNCHANGED <<world, via, timer, ctx>>
      BY <1>4 DEF Read
    <2>2. OnTheWay' /\ AtTheBody'
      BY <1>0, <2>1 DEF CallInv, OnTheWay, AtTheBody, WorldFacts
    <2>3. QED
      BY <1>0, <2>1, <2>2 DEF CallInv, FetchIsExact
  <1>5. CASE Finish \/ ReadFails
    <2>1. /\ call = "read" /\ call' = "over" /\ OnTheWay /\ AtTheBody /\ got \in 0..(Limit + 1)
          /\ UNCHANGED <<world, via, got, timer, ctx>>
      BY <1>5 DEF CallInv, TypeOK, Finish, ReadFails, Conclude
    <2>2. WorldComes = BodyComes
      BY <1>0, <2>1, NothingStops DEF AtTheBody, CallInv
    <2>3. verdict' = BodyComes
      BY <1>0, <1>5, <2>1 DEF Finish, ReadFails, Conclude, BodyComes, ReadBound, AtTheBody, WorldFacts
    <2>4. verdict' = "OK" => got' = world.size /\ got' <= Limit
      BY <1>0, <1>5, <2>1 DEF Finish, ReadFails, Conclude, ReadBound, WorldFacts
    <2>5. QED
      BY <1>0, <2>1, <2>2, <2>3, <2>4, VerdictIsExact DEF CallInv
  <1>6. CASE Interrupt
    <2>1. Interrupted /\ verdict' # "OK" /\ call' = "over" /\ UNCHANGED <<world, via, got, timer, ctx>>
      BY <1>6 DEF Interrupt, Interrupted, Interruption, Conclude
    <2>2. QED
      BY <1>0, <2>1, VerdictIsExact DEF CallInv
  <1>7. CASE TimerFires \/ ContextEnds
    <2>1. call' = call /\ call # "over" /\ UNCHANGED <<world, via, got, verdict>>
      BY <1>7 DEF TimerFires, ContextEnds
    <2>2. QED
      BY <1>0, <2>1 DEF CallInv, FetchIsExact, OnTheWay, AtTheBody
  <1>8. QED
    BY <1>1, <1>2, <1>3, <1>4, <1>5, <1>6, <1>7 DEF FetchNext, FetchStep

-----------------------------------------------------------------------------
(* The whole resource. *)

LEMMA InitCall == Init => CallInv
  <1> SUFFICES ASSUME Init PROVE CallInv
    OBVIOUS
  <1>1. WorldFacts /\ MaxRedirects \in Nat /\ world \in Worlds
    BY WorldsAreTyped, RedirectsAreCounted DEF Init, FetchInit
  <1>2. call = "check" /\ via = 0 /\ got = 0 /\ verdict = "none" /\ step = "none" /\ lineStep = "none"
    BY DEF Init, FetchInit, TemplateInit, SubInit
  <1>3. QED
    BY <1>1, <1>2 DEF CallInv, TypeOK, FetchIsExact, WorldFacts

\* Handing the text over and reading it do not touch the verdict.
LEMMA NextCall == CallInv /\ [Next]_vars => CallInv'
  <1> SUFFICES ASSUME CallInv, [Next]_vars PROVE CallInv'
    OBVIOUS
  <1>0. WorldFacts /\ MaxRedirects \in Nat
    BY WorldsAreTyped, RedirectsAreCounted DEF CallInv
  <1>1. CASE FetchNext /\ UNCHANGED <<templateVars, subVars>>
    BY <1>1, CallKept
  <1>2. CASE UseSubscription
    <2>1. /\ call' = "used" /\ via' = 0 /\ got' = 0 /\ verdict = "OK" /\ UNCHANGED <<world, verdict>>
          /\ world.kind = "subscription" /\ step' = step /\ step = "none"
      BY <1>2 DEF UseSubscription, HandOver, templateVars, CallInv, TypeOK
    <2>2. QED
      BY <1>0, <2>1, WorldStays DEF CallInv, TypeOK, FetchIsExact, WorldFacts
  <1>3. CASE UseTemplate
    <2>1. /\ call' = "used" /\ via' = 0 /\ got' = 0 /\ verdict = "OK" /\ UNCHANGED <<world, verdict>>
          /\ world.kind = "template" /\ lineStep' = lineStep /\ lineStep = "none"
      BY <1>3 DEF UseTemplate, HandOver, subVars, CallInv, TypeOK
    <2>2. QED
      BY <1>0, <2>1, WorldStays DEF CallInv, TypeOK, FetchIsExact, WorldFacts
  <1>4. CASE SubStep /\ UNCHANGED <<fetchVars, templateVars>>
    <2>1. UNCHANGED <<world, call, via, got, timer, ctx, verdict, step>> /\ lineStep # "none"
      BY <1>4 DEF SubStep, SkipLine, ParseLine, EndList, fetchVars, templateVars
    <2>2. QED
      BY <2>1, WorldStays DEF CallInv, TypeOK, FetchIsExact, OnTheWay, AtTheBody
  <1>5. CASE TemplateStep /\ UNCHANGED <<fetchVars, subVars>>
    <2>1. UNCHANGED <<world, call, via, got, timer, ctx, verdict, lineStep>> /\ step # "none"
      BY <1>5 DEF TemplateStep, ScanHeader, ScanAnchor, ScanOther, EndScan, Judge, Inject, EnsureManaged, fetchVars, subVars
    <2>2. QED
      BY <2>1, WorldStays DEF CallInv, TypeOK, FetchIsExact, OnTheWay, AtTheBody
  <1>6. CASE UNCHANGED vars
    <2>1. UNCHANGED <<world, call, via, got, timer, ctx, verdict, step, lineStep>>
      BY <1>6 DEF vars, fetchVars, templateVars, subVars
    <2>2. QED
      BY <2>1, WorldStays DEF CallInv, TypeOK, FetchIsExact, OnTheWay, AtTheBody
  <1>7. QED
    BY <1>1, <1>2, <1>3, <1>4, <1>5, <1>6 DEF Next

\* A call follows at most MaxRedirects redirects, reads at most one unit more
\* than its bound, and only a complete text reaches a parser.
THEOREM CallsAreBounded == Spec => []TypeOK
  <1>1. CallInv => TypeOK
    BY DEF CallInv
  <1>2. QED
    BY <1>1, InitCall, NextCall, PTL DEF Spec

\* The verdict is what the upstream comes to, unless the call was interrupted;
\* a text is never cut.
THEOREM VerdictsAreExact == Spec => []FetchIsExact
  <1>1. CallInv => FetchIsExact
    BY DEF CallInv
  <1>2. QED
    BY <1>1, InitCall, NextCall, PTL DEF Spec

-----------------------------------------------------------------------------
(* The subscription. *)

\* A field is what the line says of its key.
LEMMA FieldIsSaid ==
  ASSUME NEW l, IsList(l.fields), NEW key
  PROVE  FieldOf(l.fields, key) = Said(l, key)
  <1> DEFINE fs == l.fields
             I == {i \in 1..Len(fs) : fs[i].key = key}
             top == CHOOSE i \in I : \A j \in I : j <= i
  <1>1. DOMAIN fs = 1..Len(fs) /\ Len(fs) \in Nat
    BY ListDomain
  <1>2. Said(l, key) = IF I = {} THEN "" ELSE fs[top].value
    BY <1>1 DEF Said
  <1>3. FieldOf(fs, key) = IF (IF I # {} THEN Max(I) ELSE 0) = 0 THEN "" ELSE fs[IF I # {} THEN Max(I) ELSE 0].value
    BY DEF FieldOf, SelectLastInSeq
  <1>4. CASE I = {}
    BY <1>2, <1>3, <1>4
  <1>5. CASE I # {}
    <2>1. I \subseteq 1..Len(fs)
      OBVIOUS
    <2>2. \A i \in I : i \in Nat /\ i # 0
      BY <1>1
    <2> HIDE DEF I
    <2>3. PICK x \in I : \A y \in I : y <= x
      BY <1>1, <1>5, <2>1, LastPosition
    <2>4. top \in I /\ \A j \in I : j <= top
      BY <2>3
    <2>5. Max(I) \in I /\ \A j \in I : Max(I) >= j
      <3>1. \A y \in I : x >= y
        BY <2>2, <2>3
      <3>2. QED
        BY <3>1 DEF Max
    <2> HIDE DEF top
    <2>6. Max(I) = top
      BY <2>2, <2>4, <2>5
    <2>7. Max(I) # 0
      BY <2>2, <2>5
    <2>8. QED
      BY <1>2, <1>3, <1>5, <2>6, <2>7
  <1>6. QED
    BY <1>4, <1>5

\* A plugin is there if it is asked for.
LEMMA ObfsIsAsked ==
  ASSUME NEW fields
  PROVE  ObfsOf(fields) = <<>> <=> FieldOf(fields, "obfs") = ""
  <1> DEFINE a == <<"simple-obfs", FieldOf(fields, "obfs")>>
             b == IF FieldOf(fields, "obfs-host") = "" THEN <<>> ELSE <<FieldOf(fields, "obfs-host")>>
             S == {"simple-obfs", FieldOf(fields, "obfs"), FieldOf(fields, "obfs-host")}
  <1>1. a \in Seq(S) /\ b \in Seq(S)
    <2> DEFINE x == FieldOf(fields, "obfs")  y == FieldOf(fields, "obfs-host")
    <2> HIDE DEF x, y
    <2>1. <<"simple-obfs", x>> \in Seq({"simple-obfs", x, y})
      OBVIOUS
    <2>2. <<>> \in Seq({"simple-obfs", x, y}) /\ <<y>> \in Seq({"simple-obfs", x, y})
      OBVIOUS
    <2>3. QED
      BY <2>1, <2>2 DEF x, y
  <1>2. Len(a) # 0 /\ Len(a) \in Nat
    OBVIOUS
  <1>3. FieldOf(fields, "obfs") # "" => ObfsOf(fields) = a \o b
    BY DEF ObfsOf
  <1> HIDE DEF a, b, S
  <1>4. a \o b # <<>>
    <2>1. Len(a \o b) = Len(a) + Len(b) /\ Len(b) \in Nat
      BY <1>1, Joined
    <2>2. Len(a \o b) # 0
      BY <1>2, <2>1
    <2>3. QED
      BY <2>2
  <1>5. FieldOf(fields, "obfs") = "" => ObfsOf(fields) = <<>>
    BY DEF ObfsOf
  <1>6. QED
    BY <1>3, <1>4, <1>5

\* A line without a fault is a node.
LEMMA GoodLine ==
  ASSUME NEW l, IsLine(l), ~Skipped(l), LineFault(l) = NoFault
  PROVE  ReadFrom(Node(l), l)
  <1>1. l.kind \in {"uri", "rocket", "surge", "other"}
    BY DEF IsLine, Skipped
  <1>2. \A port : PortOk(port) => port \in 1..MaxPort
    BY DEF PortOk
  <1>3. Node(l).host = l.host /\ Node(l).port = l.port
    BY DEF Node
  <1>4. CASE l.kind = "uri"
    <2>1. UriOk(l)
      BY <1>4 DEF LineFault, NoFault
    <2>2. /\ l.name # "control" /\ l.method # "" /\ l.password # "" /\ l.host # "" /\ PortOk(l.port)
      BY <2>1 DEF UriOk, CredentialsOk
    <2>3. Node(l).name = l.name /\ Node(l).method = l.method /\ Node(l).password = l.password
      BY <1>4 DEF Node
    <2>4. Usable(Node(l))
      BY <1>2, <1>3, <2>2, <2>3 DEF Usable
    <2>5. IsNode(l)
      BY <1>4 DEF IsNode
    <2>6. QED
      BY <1>3, <1>4, <2>4, <2>5 DEF ReadFrom
  <1>5. CASE l.kind \in {"rocket", "surge"}
    <2>1. IsList(l.fields)
      BY <1>5 DEF IsLine
    <2>2. /\ l.host # "" /\ PortOk(l.port) /\ FieldsOk(l.fields)
          /\ (IF l.kind = "surge" THEN FieldOf(l.fields, "tag") ELSE l.name) # "control"
      <3>1. CASE l.kind = "rocket"
        BY <3>1 DEF LineFault, NoFault, RocketOk, IsLine
      <3>2. CASE l.kind = "surge"
        BY <3>2 DEF LineFault, NoFault, SurgeOk
      <3>3. QED
        BY <1>5, <3>1, <3>2
    <2>3. /\ Node(l).name = (IF l.kind = "surge" THEN FieldOf(l.fields, "tag") ELSE l.name)
          /\ Node(l).method = FieldOf(l.fields, "method") /\ Node(l).password = FieldOf(l.fields, "password")
          /\ Node(l).plugin = ObfsOf(l.fields)
      BY <1>5 DEF Node
    <2>4. Usable(Node(l))
      <3>1. Node(l).method # "" /\ Node(l).password # ""
        BY <2>2, <2>3 DEF FieldsOk
      <3>2. QED
        BY <1>2, <1>3, <2>2, <2>3, <3>1 DEF Usable
    <2>5. IsNode(l)
      BY <1>5 DEF IsNode
    <2>6. \A key : FieldOf(l.fields, key) = Said(l, key)
      BY <2>1, FieldIsSaid
    <2>7. Node(l).plugin = <<>> <=> Said(l, "obfs") = ""
      BY <2>3, <2>6, ObfsIsAsked
    <2>8. QED
      BY <1>3, <2>3, <2>4, <2>5, <2>6, <2>7 DEF ReadFrom
  <1>6. CASE l.kind = "other"
    BY <1>6 DEF LineFault, NoFault
  <1>7. QED
    BY <1>1, <1>4, <1>5, <1>6

\* Trimming takes blank lines from the ends only.
LEMMA TrimmedLines ==
  ASSUME NEW lines, IsList(lines)
  PROVE  \E d \in Nat :
           LET out == Trimmed(lines) IN
           /\ IsList(out)
           /\ \A i \in DOMAIN out : d + i \in DOMAIN lines /\ out[i] = lines[d + i]
           /\ \A j \in DOMAIN lines : lines[j].kind # "blank" => \E i \in DOMAIN out : j = d + i
  <1> DEFINE solid == {i \in DOMAIN lines : lines[i].kind # "blank"}
             lo == CHOOSE i \in solid : \A j \in solid : i <= j
             hi == CHOOSE i \in solid : \A j \in solid : j <= i
             out == Trimmed(lines)
  <1>1. DOMAIN lines = 1..Len(lines) /\ Len(lines) \in Nat
    BY ListDomain
  <1>2. out = IF solid = {} THEN <<>> ELSE SubSeq(lines, lo, hi)
    BY DEF Trimmed
  <1>3. CASE solid = {}
    <2>1. out \in Seq({0}) /\ DOMAIN out = {}
      BY <1>2, <1>3
    <2>2. IsList(out)
      BY <2>1, SequenceIsList
    <2>3. \A j \in DOMAIN lines : lines[j].kind = "blank"
      BY <1>3
    <2>4. /\ IsList(out)
          /\ \A i \in DOMAIN out : 0 + i \in DOMAIN lines /\ out[i] = lines[0 + i]
          /\ \A j \in DOMAIN lines : lines[j].kind # "blank" => \E i \in DOMAIN out : j = 0 + i
      BY <2>1, <2>2, <2>3
    <2>5. QED
      BY <2>4
  <1>4. CASE solid # {}
    <2>1. solid \subseteq 1..Len(lines) /\ solid \subseteq Nat
      BY <1>1
    <2>2. \A j \in DOMAIN lines : lines[j].kind # "blank" => j \in solid
      OBVIOUS
    <2> HIDE DEF solid
    <2>3. lo \in solid /\ \A j \in solid : lo <= j
      BY <1>4, <2>1, LeastNumber
    <2>4. hi \in solid /\ \A j \in solid : j <= hi
      BY <1>1, <1>4, <2>1, LastPosition
    <2> HIDE DEF lo, hi
    <2>5. lo \in 1..Len(lines) /\ hi \in 1..Len(lines) /\ lo <= hi
      BY <2>1, <2>3, <2>4
    <2>6. out = [i \in 1..(hi - lo + 1) |-> lines[lo + i - 1]]
      <3>1. lines \in Seq(ToSet(lines))
        BY DEF IsList
      <3>2. SubSeq(lines, lo, hi) = [i \in 1..(hi - lo + 1) |-> lines[lo + i - 1]]
        BY <1>1, <2>5, <3>1
      <3>3. QED
        BY <1>2, <1>4, <3>2
    <2> HIDE DEF out
    <2>7. out = [i \in 1..(hi - lo + 1) |-> out[i]] /\ hi - lo + 1 \in Nat
      BY <1>1, <2>5, <2>6
    <2>8. IsList(out) /\ DOMAIN out = 1..(hi - lo + 1)
      BY <2>7, ListOfLen
    <2> DEFINE d == lo - 1
    <2>9. d \in Nat
      BY <1>1, <2>5
    <2>10. \A i \in DOMAIN out : d + i \in DOMAIN lines /\ out[i] = lines[d + i]
      <3>1. ASSUME NEW i \in 1..(hi - lo + 1) PROVE d + i \in 1..Len(lines) /\ lo + i - 1 = d + i
        BY <1>1, <2>5
      <3>2. QED
        BY <1>1, <2>6, <2>8, <3>1
    <2>11. ASSUME NEW j \in DOMAIN lines, lines[j].kind # "blank" PROVE \E i \in DOMAIN out : j = d + i
      <3>1. j \in Nat /\ lo <= j /\ j <= hi
        BY <1>1, <2>2, <2>3, <2>4, <2>11
      <3>2. j - d \in 1..(hi - lo + 1) /\ j = d + (j - d)
        BY <1>1, <2>5, <3>1
      <3>3. QED
        BY <2>8, <3>2
    <2> HIDE DEF d
    <2>12. QED
      BY <2>8, <2>9, <2>10, <2>11 DEF out
  <1>5. QED
    BY <1>3, <1>4

\* A list that begins with a node looks like one.
LEMMA ListIsRecognized ==
  ASSUME NEW lines, IsList(lines), NEW first \in DOMAIN lines, ~Skipped(lines[first]), IsNode(lines[first]),
         \A j \in DOMAIN lines : ~Skipped(lines[j]) => first <= j
  PROVE  LooksLikeRawList(Trimmed(lines))
  <1> DEFINE out == Trimmed(lines)
             I == {i \in 1..Len(out) : ~Skipped(out[i])}
             sel == IF I # {} THEN Min(I) ELSE 0
  <1>1. PICK d \in Nat :
           /\ IsList(out)
           /\ \A i \in DOMAIN out : d + i \in DOMAIN lines /\ out[i] = lines[d + i]
           /\ \A j \in DOMAIN lines : lines[j].kind # "blank" => \E i \in DOMAIN out : j = d + i
    BY TrimmedLines
  <1>2. LooksLikeRawList(out) <=>
          \/ \E i \in DOMAIN out : Mentions(out[i])
          \/ sel # 0 /\ out[sel].kind \in {"rocket", "surge"}
    BY DEF LooksLikeRawList, SelectInSeq
  <1> HIDE DEF out
  <1>3. DOMAIN out = 1..Len(out) /\ Len(out) \in Nat
    BY <1>1, ListDomain
  <1>4. DOMAIN lines = 1..Len(lines)
    BY ListDomain
  <1>5. lines[first].kind # "blank"
    BY DEF Skipped
  <1>6. PICK f \in DOMAIN out : first = d + f
    BY <1>1, <1>5
  <1>7. f \in I /\ out[f] = lines[first]
    BY <1>1, <1>3, <1>6
  <1>8. I \subseteq Nat /\ I # {} /\ \A i \in I : i \in DOMAIN out /\ ~Skipped(out[i])
    BY <1>3, <1>7
  <1> HIDE DEF I
  <1>9. Min(I) \in I /\ \A i \in I : Min(I) <= i
    BY <1>8, MinIsLeast
  <1> DEFINE m == Min(I)
  <1>10. m \in I /\ m \in Nat /\ m <= f /\ f \in Nat
    BY <1>7, <1>8, <1>9
  <1>11. first <= d + m
    BY <1>1, <1>8, <1>10
  <1>12. m = f
    BY <1>6, <1>10, <1>11
  <1>13. f # 0
    BY <1>3
  <1>14. sel = f
    BY <1>8, <1>12
  <1>15. lines[first].kind \in {"uri", "rocket", "surge"}
    BY DEF IsNode
  <1>16. lines[first].kind = "uri" => Mentions(out[f])
    BY <1>7 DEF Mentions
  <1> HIDE DEF sel
  <1>17. QED
    BY <1>2, <1>7, <1>13, <1>14, <1>15, <1>16 DEF out

\* The nodes among the first lines.
Seen(k) == Cardinality({j \in NodeLines : j < k})

\* So many nodes are in front of a line.
LEMMA SeenCounts ==
  ASSUME IsList(list), NEW k \in Nat
  PROVE  /\ Seen(k) \in Nat
         /\ Seen(k + 1) = IF k \in NodeLines THEN Seen(k) + 1 ELSE Seen(k)
         /\ Cardinality({j \in NodeLines : j <= k}) = Seen(k + 1)
         /\ k > Len(list) => Seen(k) = Cardinality(NodeLines)
         /\ Seen(1) = 0
  <1> DEFINE n == Len(list)
  <1>1. DOMAIN list = 1..n /\ n \in Nat
    BY ListDomain
  <1> HIDE DEF n
  <1>2. NodeLines \subseteq 1..n
    BY <1>1 DEF NodeLines
  <1>3. IsFiniteSet(1..n)
    BY <1>1, FS_Interval
  <1>4. IsFiniteSet(NodeLines)
    BY <1>2, <1>3, FS_Subset
  <1> DEFINE A == {j \in NodeLines : j < k}
             B == {j \in NodeLines : j < k + 1}
  <1>5. IsFiniteSet(A) /\ Cardinality(A) \in Nat
    <2>1. IsFiniteSet(A)
      BY <1>4, FS_Subset
    <2>2. QED
      BY <2>1, FS_CardinalityType
  <1>6. \A j \in NodeLines : j \in Nat /\ j >= 1 /\ j <= n
    BY <1>1, <1>2
  <1>7. B = IF k \in NodeLines THEN A \cup {k} ELSE A
    BY <1>6
  <1>8. k \notin A
    BY <1>6
  <1>9. {j \in NodeLines : j <= k} = B
    BY <1>6
  <1>10. k > n => A = NodeLines
    BY <1>1, <1>6
  <1>11. {j \in NodeLines : j < 1} = {}
    BY <1>6
  <1> HIDE DEF A, B
  <1>12. Cardinality(B) = IF k \in NodeLines THEN Cardinality(A) + 1 ELSE Cardinality(A)
    BY <1>5, <1>7, <1>8, FS_AddElement
  <1>13. Seen(k) = Cardinality(A) /\ Seen(k + 1) = Cardinality(B)
    BY DEF Seen, A, B
  <1>14. Seen(1) = 0
    BY <1>11, FS_EmptySet DEF Seen
  <1>15. QED
    BY <1>5, <1>9, <1>10, <1>12, <1>13, <1>14 DEF n

\* The nodes of the lines so far, one for each.
ReadSoFar ==
  /\ IsList(nodes) /\ Len(nodes) = Seen(lineNo)
  /\ \A i \in NodeLines : i < lineNo =>
       Seen(i + 1) \in DOMAIN nodes /\ ReadFrom(nodes[Seen(i + 1)], list[i])

\* What holds of a subscription at every stage.
SubInv ==
  /\ lineStep \in {"none", "list", "done"}
  /\ IsList(list) /\ \A i \in DOMAIN list : IsLine(list[i])
  /\ lineStep = "none" => list = <<>> /\ nodes = <<>> /\ lineNo = 1
  /\ lineStep # "done" => lineFault = NoFault /\ badLine = 0
  /\ lineStep = "list" => lineNo \in 1..(Len(list) + 1) /\ ReadSoFar
  /\ SubscriptionIsRead

\* No subscription is read at first.
LEMMA InitSub == Init => SubInv
  <1> SUFFICES ASSUME Init PROVE SubInv
    OBVIOUS
  <1>1. lineStep = "none" /\ list = <<>> /\ nodes = <<>> /\ lineNo = 1 /\ badLine = 0 /\ lineFault = NoFault
    BY DEF Init, SubInit
  <1>2. list \in Seq({0}) /\ DOMAIN list = {}
    BY <1>1
  <1>3. IsList(list)
    BY <1>2, SequenceIsList
  <1>4. QED
    BY <1>1, <1>2, <1>3 DEF SubInv, SubscriptionIsRead

\* What is kept if the subscription stays as it is.
LEMMA SubFrame ==
  ASSUME UNCHANGED subVars
  PROVE  NodeLines' = NodeLines /\ (SubInv => SubInv')
  <1>1. UNCHANGED <<source, lineStep, list, lineNo, nodes, badLine, lineFault>>
    BY DEF subVars
  <1>2. NodeLines' = NodeLines
    BY <1>1 DEF NodeLines
  <1>3. \A k : Seen(k)' = Seen(k)
    BY <1>2 DEF Seen
  <1>4. ReadSoFar' <=> ReadSoFar
    BY <1>1, <1>2, <1>3 DEF ReadSoFar
  <1>5. SubscriptionIsRead' <=> SubscriptionIsRead
    BY <1>1, <1>2 DEF SubscriptionIsRead
  <1>6. QED
    BY <1>1, <1>2, <1>4, <1>5 DEF SubInv

\* The text is opened.
LEMMA OpenTextStep ==
  ASSUME SubInv, NEW t, IsText(t), OpenText(t)
  PROVE  SubInv'
  <1> DEFINE lines == Trimmed(t.lines)
             readable == t.encoding \in Encodings \/ (t.encoding = "none" /\ LooksLikeRawList(lines))
  <1>1. /\ lineStep = "none" /\ source' = t /\ lineNo' = 1 /\ nodes' = <<>> /\ list = <<>>
        /\ lineFault = NoFault /\ badLine = 0
    BY DEF OpenText, SubInv
  <1>2. /\ IsList(t.lines) /\ \A i \in DOMAIN t.lines : IsLine(t.lines[i])
        /\ t.encoding \in Encodings \cup {"none", "broken"}
    BY DEF IsText
  <1>3. PICK d \in Nat :
           /\ IsList(lines)
           /\ \A i \in DOMAIN lines : d + i \in DOMAIN t.lines /\ lines[i] = t.lines[d + i]
           /\ \A j \in DOMAIN t.lines : t.lines[j].kind # "blank" => \E i \in DOMAIN lines : j = d + i
    BY <1>2, TrimmedLines
  <1>4. CASE lines # <<>> /\ readable
    <2>1. list' = lines /\ lineStep' = "list" /\ badLine' = 0 /\ lineFault' = NoFault
      BY <1>1, <1>4 DEF OpenText, Fail
    <2> HIDE DEF lines
    <2>2. IsList(list') /\ \A i \in DOMAIN list' : IsLine(list'[i])
      BY <1>2, <1>3, <2>1
    <2>3. Len(list') \in Nat /\ NodeLines' \subseteq 1..Len(list')
      <3>1. Len(list') \in Nat /\ DOMAIN list' = 1..Len(list')
        BY <2>2, ListDomain
      <3>2. NodeLines' \subseteq DOMAIN list'
        BY DEF NodeLines
      <3>3. QED
        BY <3>1, <3>2
    <2>4. Seen(1)' = 0
      <3>1. Seen(1)' = Cardinality({j \in NodeLines' : j < 1})
        BY DEF Seen
      <3>2. {j \in NodeLines' : j < 1} = {}
        <4>1. \A j \in NodeLines' : ~(j < 1)
          BY <2>3
        <4>2. QED
          BY <4>1
      <3>3. QED
        BY <3>1, <3>2, FS_EmptySet
    <2>5. nodes' \in Seq({0}) /\ Len(nodes') = 0
      BY <1>1
    <2>6. ReadSoFar'
      <3>1. IsList(nodes')
        BY <2>5, SequenceIsList
      <3>2. Len(nodes') = Seen(lineNo)'
        BY <1>1, <2>4, <2>5
      <3>3. \A i \in NodeLines' : ~(i < lineNo')
        BY <1>1, <2>3
      <3>4. QED
        BY <3>1, <3>2, <3>3 DEF ReadSoFar
    <2>7. QED
      BY <1>1, <2>1, <2>2, <2>3, <2>6 DEF SubInv, SubscriptionIsRead
  <1>5. CASE ~(lines # <<>> /\ readable)
    <2>1. /\ list' = <<>> /\ lineStep' = "done" /\ badLine' = 0
          /\ \/ lineFault' = "SUB_PARSE_ERROR"
             \/ lineFault' = "SUB_BASE64_DECODE_ERROR" /\ lines # <<>> /\ ~readable
      BY <1>1, <1>5 DEF OpenText, Fail
    <2>2. IsList(list') /\ \A i \in DOMAIN list' : IsLine(list'[i])
      <3>1. list' \in Seq({0}) /\ DOMAIN list' = {}
        BY <2>1
      <3>2. QED
        BY <3>1, SequenceIsList
    <2>3. lineFault' # NoFault
      BY <2>1 DEF NoFault
    <2>4. ASSUME lineFault' = "SUB_BASE64_DECODE_ERROR"
          PROVE  LET written == {i \in DOMAIN t.lines : ~Skipped(t.lines[i])} IN
                 written # {} =>
                   t.encoding = "broken" \/ ~IsNode(t.lines[CHOOSE i \in written : \A j \in written : i <= j])
      <3> DEFINE written == {i \in DOMAIN t.lines : ~Skipped(t.lines[i])}
                 first == CHOOSE i \in written : \A j \in written : i <= j
      <3>1. SUFFICES ASSUME written # {}, t.encoding # "broken", IsNode(t.lines[first]) PROVE FALSE
        OBVIOUS
      <3>2. written \subseteq Nat /\ written \subseteq DOMAIN t.lines
        BY <1>2, ListDomain
      <3>3. \A j \in written : ~Skipped(t.lines[j])
        OBVIOUS
      <3>4. \A j \in DOMAIN t.lines : ~Skipped(t.lines[j]) => j \in written
        OBVIOUS
      <3> HIDE DEF written
      <3>5. first \in written /\ \A j \in written : first <= j
        BY <3>1, <3>2, LeastNumber
      <3> HIDE DEF first
      <3>6. LooksLikeRawList(lines)
        BY <1>2, <3>1, <3>2, <3>3, <3>4, <3>5, ListIsRecognized
      <3>7. ~readable
        BY <2>1, <2>4
      <3>8. QED
        BY <1>2, <3>1, <3>6, <3>7
    <2>5. SubscriptionIsRead'
      BY <1>1, <2>1, <2>3, <2>4 DEF SubscriptionIsRead
    <2>6. QED
      BY <1>1, <2>1, <2>2, <2>5 DEF SubInv
  <1>6. QED
    BY <1>4, <1>5

\* One line further.
LEMMA LineStep ==
  ASSUME SubInv, SubStep, UNCHANGED <<source, list>>
  PROVE  SubInv'
  <1>1. /\ lineStep = "list" /\ IsList(list) /\ (\A i \in DOMAIN list : IsLine(list[i]))
        /\ lineFault = NoFault /\ badLine = 0 /\ lineNo \in 1..(Len(list) + 1) /\ ReadSoFar
    BY DEF SubInv, SubStep, SkipLine, ParseLine, EndList
  <1>2. DOMAIN list = 1..Len(list) /\ Len(list) \in Nat /\ lineNo \in Nat
    BY <1>1, ListDomain
  <1>3. NodeLines' = NodeLines /\ \A k : Seen(k)' = Seen(k)
    BY DEF NodeLines, Seen
  <1>4. /\ Seen(lineNo) \in Nat
        /\ Seen(lineNo + 1) = IF lineNo \in NodeLines THEN Seen(lineNo) + 1 ELSE Seen(lineNo)
        /\ lineNo > Len(list) => Seen(lineNo) = Cardinality(NodeLines)
    BY <1>1, <1>2, SeenCounts
  <1>5. NodeLines \subseteq DOMAIN list /\ \A i \in NodeLines : ~Skipped(list[i]) /\ i \in Nat
    BY <1>2 DEF NodeLines
  <1>6. IsList(nodes) /\ Len(nodes) = Seen(lineNo) /\ DOMAIN nodes = 1..Len(nodes)
    BY <1>1, ListDomain DEF ReadSoFar
  <1>7. \A i \in NodeLines : i < lineNo => Seen(i + 1) \in DOMAIN nodes /\ ReadFrom(nodes[Seen(i + 1)], list[i])
    BY <1>1 DEF ReadSoFar
  <1>8. CASE SkipLine
    <2>1. /\ lineNo <= Len(list) /\ Skipped(list[lineNo]) /\ lineNo' = lineNo + 1
          /\ UNCHANGED <<source, lineStep, list, nodes, badLine, lineFault>>
      BY <1>8 DEF SkipLine
    <2>2. lineNo \notin NodeLines
      BY <2>1 DEF NodeLines
    <2>3. \A i \in NodeLines : i < lineNo' => i < lineNo
      BY <1>2, <1>5, <2>1, <2>2
    <2>4. lineNo' \in 1..(Len(list) + 1)
      BY <1>2, <2>1
    <2>5. Len(nodes') = Seen(lineNo')
      BY <1>4, <1>6, <2>1, <2>2
    <2>6. ReadSoFar'
      BY <1>3, <1>6, <1>7, <2>1, <2>3, <2>5 DEF ReadSoFar
    <2>7. QED
      BY <1>1, <2>1, <2>4, <2>6 DEF SubInv, SubscriptionIsRead
  <1>9. CASE ParseLine /\ LineFault(list[lineNo]) = NoFault
    <2>1. /\ lineNo <= Len(list) /\ ~Skipped(list[lineNo]) /\ lineNo' = lineNo + 1
          /\ nodes' = Append(nodes, Node(list[lineNo]))
          /\ UNCHANGED <<source, lineStep, list, badLine, lineFault>>
      BY <1>9 DEF ParseLine
    <2>2. lineNo \in NodeLines /\ lineNo \in DOMAIN list
      BY <1>1, <1>2, <2>1 DEF NodeLines
    <2>3. ReadFrom(Node(list[lineNo]), list[lineNo])
      BY <1>1, <1>9, <2>1, <2>2, GoodLine
    <2>4. lineNo' \in 1..(Len(list) + 1)
      BY <1>2, <2>1
    <2> DEFINE x == Node(list[lineNo])
    <2> HIDE DEF x
    <2>5. /\ IsList(nodes') /\ Len(nodes') = Len(nodes) + 1 /\ Len(nodes) \in Nat
          /\ DOMAIN nodes' = 1..(Len(nodes) + 1) /\ nodes'[Len(nodes) + 1] = x
          /\ \A i \in 1..Len(nodes) : nodes'[i] = nodes[i]
      <3>1. nodes' = Append(nodes, x)
        BY <2>1 DEF x
      <3>2. QED
        BY <1>6, <3>1, OneMore
    <2>6. Seen(lineNo + 1) = Len(nodes) + 1
      BY <1>4, <1>6, <2>2
    <2>7. ASSUME NEW i \in NodeLines, i < lineNo + 1
          PROVE  Seen(i + 1) \in DOMAIN nodes' /\ ReadFrom(nodes'[Seen(i + 1)], list[i])
      <3>1. CASE i = lineNo
        BY <2>3, <2>5, <2>6, <3>1 DEF x
      <3>2. CASE i < lineNo
        <4>1. Seen(i + 1) \in 1..Len(nodes) /\ ReadFrom(nodes[Seen(i + 1)], list[i])
          BY <1>6, <1>7, <3>2
        <4>2. QED
          BY <2>5, <4>1
      <3>3. i = lineNo \/ i < lineNo
        BY <1>2, <1>5, <2>7
      <3>4. QED
        BY <3>1, <3>2, <3>3
    <2>8. ReadSoFar'
      BY <1>3, <2>1, <2>5, <2>6, <2>7 DEF ReadSoFar
    <2>9. QED
      BY <1>1, <2>1, <2>4, <2>8 DEF SubInv, SubscriptionIsRead
  <1>10. CASE ParseLine /\ LineFault(list[lineNo]) # NoFault
    <2>1. /\ lineNo <= Len(list) /\ ~Skipped(list[lineNo]) /\ nodes' = <<>>
          /\ lineStep' = "done" /\ lineFault' = LineFault(list[lineNo]) /\ badLine' = lineNo
          /\ UNCHANGED <<source, list, lineNo>>
      BY <1>10 DEF ParseLine, Fail
    <2>2. lineNo \in NodeLines /\ lineNo \in DOMAIN list
      BY <1>1, <1>2, <2>1 DEF NodeLines
    <2>3. \A i \in NodeLines : i < badLine' => IsNode(list[i])
      BY <1>7, <2>1 DEF ReadFrom
    <2>4. lineFault' = "SUB_UNSUPPORTED_SCHEME" => ~IsNode(list[badLine'])
      <3>1. list[lineNo].kind \in {"uri", "rocket", "surge", "other"}
        BY <1>1, <2>1, <2>2 DEF IsLine, Skipped
      <3>2. list[lineNo].kind # "other" => LineFault(list[lineNo]) \in {NoFault, "SUB_PARSE_ERROR"}
        BY <3>1 DEF LineFault
      <3>3. LineFault(list[lineNo]) = "SUB_UNSUPPORTED_SCHEME" => list[lineNo].kind = "other"
        BY <3>2 DEF NoFault
      <3>4. QED
        BY <2>1, <3>3 DEF IsNode
    <2>5. lineFault' # "SUB_BASE64_DECODE_ERROR"
      <3>1. list[lineNo].kind \in {"uri", "rocket", "surge", "other"}
        BY <1>1, <2>1, <2>2 DEF IsLine, Skipped
      <3>2. LineFault(list[lineNo]) \in {NoFault, "SUB_PARSE_ERROR", "SUB_UNSUPPORTED_SCHEME"}
        BY <3>1 DEF LineFault
      <3>3. QED
        BY <2>1, <3>2 DEF NoFault
    <2>6. SubscriptionIsRead'
      BY <1>3, <1>10, <2>1, <2>2, <2>3, <2>4, <2>5 DEF SubscriptionIsRead
    <2>7. QED
      BY <1>1, <2>1, <2>6 DEF SubInv
  <1>11. CASE EndList /\ nodes = <<>>
    <2>1. /\ lineStep' = "done" /\ lineFault' = "SUB_PARSE_ERROR" /\ badLine' = 0
          /\ UNCHANGED <<source, list, lineNo, nodes>>
      BY <1>11 DEF EndList, Fail
    <2>2. SubscriptionIsRead'
      BY <1>11, <2>1 DEF SubscriptionIsRead, NoFault
    <2>3. QED
      BY <1>1, <2>1, <2>2 DEF SubInv
  <1>12. CASE EndList /\ nodes # <<>>
    <2>1. /\ lineStep' = "done" /\ lineFault' = NoFault /\ badLine' = 0 /\ lineNo > Len(list)
          /\ UNCHANGED <<source, list, lineNo, nodes>>
      BY <1>1, <1>12 DEF EndList, Fail
    <2>2. Len(nodes) = Cardinality(NodeLines)
      BY <1>4, <1>6, <2>1
    <2>3. \A i \in NodeLines : ReadFrom(nodes[Seen(i + 1)], list[i])
      BY <1>2, <1>5, <1>7, <2>1
    <2>4. \A i \in NodeLines : Cardinality({j \in NodeLines : j <= i}) = Seen(i + 1)
      BY <1>1, <1>5, SeenCounts
    <2>5. \A i \in NodeLines : ReadFrom(nodes[Cardinality({j \in NodeLines : j <= i})], list[i])
      BY <2>3, <2>4
    <2>6. SubscriptionIsRead'
      BY <1>3, <1>12, <2>1, <2>2, <2>5 DEF SubscriptionIsRead, NoFault
    <2>7. QED
      BY <1>1, <2>1, <2>6 DEF SubInv
  <1>13. QED
    BY <1>8, <1>9, <1>10, <1>11, <1>12 DEF SubStep

\* Every step of a resource keeps it.
LEMMA NextSub == CallInv /\ SubInv /\ [Next]_vars => SubInv'
  <1> SUFFICES ASSUME CallInv, SubInv, [Next]_vars PROVE SubInv'
    OBVIOUS
  <1>1. CASE UNCHANGED subVars
    BY <1>1, SubFrame
  <1>2. CASE UseSubscription
    <2>1. world.kind = "subscription" /\ OpenText(world.text) /\ world \in Worlds
      BY <1>2 DEF UseSubscription, CallInv
    <2>2. IsText(world.text)
      BY <2>1, SubscriptionsAreText
    <2>3. QED
      BY <2>1, <2>2, OpenTextStep
  <1>3. CASE SubStep
    <2>1. UNCHANGED <<source, list>>
      BY <1>3 DEF SubStep, SkipLine, ParseLine, EndList
    <2>2. QED
      BY <1>3, <2>1, LineStep
  <1>4. QED
    BY <1>1, <1>2, <1>3 DEF Next, UseTemplate, vars

\* A subscription of any lines is read completely, each node as its line says it,
\* or refused with its first bad line and no node; and no list that begins with a
\* node is taken for base64.
THEOREM SubscriptionsAreRead == Spec => []SubscriptionIsRead
  <1>1. CallInv /\ SubInv => SubscriptionIsRead
    BY DEF SubInv
  <1>2. Init => CallInv /\ SubInv
    BY InitCall, InitSub
  <1>3. CallInv /\ SubInv /\ [Next]_vars => (CallInv /\ SubInv)'
    BY NextCall, NextSub
  <1>4. QED
    BY <1>1, <1>2, <1>3, PTL DEF Spec

-----------------------------------------------------------------------------
(* The template. *)

\* What a template can be for.
Targets == {"clash", "shadowrocket", "surge", "quanx"}

\* A template has been opened.
TextIsGiven == IsTemplate(text) /\ target \in Targets /\ AreBlocks(blocks)

\* The section before line k is that of the last header.
SectionAt(k) == IF Headers(k) = {} THEN section = "" ELSE InSection(k, section)

\* The anchors a target needs, and the sections they have to be in.
LEMMA NeededAnchors ==
  ASSUME target \in Targets, NEW a \in Anchors
  PROVE  /\ Foreign(a) <=> a \notin Needed
         /\ a \in Needed /\ target # "clash" => SectionOf(a) = SectionsOf[a] /\ SectionsOf[a] # ""
         /\ a \in Needed /\ target = "clash" => SectionOf(a) = section
         /\ Wanted \subseteq Needed /\ Needed \subseteq Anchors
         /\ a \in Needed \ Wanted <=> target = "quanx" /\ a = "RULESETS"
  <1>1. Foreign(a) <=> a \notin Needed
    BY DEF Targets, Foreign, Needed, Anchors
  <1>2. a \in Needed /\ target # "clash" => SectionOf(a) = SectionsOf[a] /\ SectionsOf[a] # ""
    <2>1. CASE target = "quanx"
      <3>1. SectionsOf = [PROXIES |-> "server_local", GROUPS |-> "policy",
                          RULESETS |-> "filter_remote", RULES |-> "filter_local"]
        BY <2>1 DEF SectionsOf
      <3>2. a \in Needed => a \in {"PROXIES", "GROUPS", "RULESETS", "RULES"}
        BY <2>1 DEF Needed
      <3>3. ~SurgeLike
        BY <2>1 DEF SurgeLike
      <3>4. a = "PROXIES" => SectionOf(a) = "server_local"
        BY <2>1, <3>3 DEF SectionOf
      <3>5. a = "GROUPS" => SectionOf(a) = "policy"
        BY <2>1, <3>3 DEF SectionOf
      <3>6. a = "RULESETS" => SectionOf(a) = "filter_remote"
        BY <2>1, <3>3 DEF SectionOf
      <3>7. a = "RULES" => SectionOf(a) = "filter_local"
        BY <2>1, <3>3 DEF SectionOf
      <3>8. /\ SectionsOf["PROXIES"] = "server_local" /\ SectionsOf["GROUPS"] = "policy"
            /\ SectionsOf["RULESETS"] = "filter_remote" /\ SectionsOf["RULES"] = "filter_local"
        BY <3>1
      <3>9. QED
        BY <3>2, <3>4, <3>5, <3>6, <3>7, <3>8
    <2>2. CASE target \in {"surge", "shadowrocket"}
      <3>1. SectionsOf = [PROXIES |-> "proxy", GROUPS |-> "proxy group", RULES |-> "rule"]
        BY <2>2 DEF SectionsOf
      <3>2. a \in Needed => a \in {"PROXIES", "GROUPS", "RULES"}
        BY <2>2 DEF Needed
      <3>4. a = "PROXIES" => SectionOf(a) = "proxy"
        BY <2>2 DEF SectionOf, SurgeLike
      <3>5. a = "GROUPS" => SectionOf(a) = "proxy group"
        BY <2>2 DEF SectionOf, SurgeLike
      <3>6. a = "RULES" => SectionOf(a) = "rule"
        BY <2>2 DEF SectionOf, SurgeLike
      <3>7. SectionsOf["PROXIES"] = "proxy" /\ SectionsOf["GROUPS"] = "proxy group" /\ SectionsOf["RULES"] = "rule"
        BY <3>1
      <3>8. QED
        BY <3>2, <3>4, <3>5, <3>6, <3>7
    <2>3. QED
      BY <2>1, <2>2 DEF Targets
  <1>3. a \in Needed /\ target = "clash" => SectionOf(a) = section
    BY DEF SectionOf, SurgeLike
  <1>4. Wanted \subseteq Needed /\ Needed \subseteq Anchors
    BY DEF Wanted, Needed, Anchors, Targets
  <1>5. a \in Needed \ Wanted <=> target = "quanx" /\ a = "RULESETS"
    BY DEF Wanted, Needed, Anchors, Targets
  <1>6. QED
    BY <1>1, <1>2, <1>3, <1>4, <1>5

\* An anchor is in the section that the scan is in.
LEMMA SectionIsLast ==
  ASSUME NEW k \in Nat, SectionAt(k), NEW s
  PROVE  s # "" => (InSection(k, s) <=> section = s)
  <1>1. \A h \in Headers(k) : h \in Nat
    <2>1. \A h \in 1..(k - 1) : h \in Nat
      OBVIOUS
    <2>2. QED
      BY <2>1 DEF Headers
  <1>2. CASE Headers(k) = {}
    BY <1>2 DEF SectionAt, InSection
  <1>3. CASE Headers(k) # {}
    <2>1. PICK h \in Headers(k) : text.lines[h].tag = section /\ \A g \in Headers(k) : g <= h
      BY <1>3 DEF SectionAt, InSection
    <2>2. ASSUME NEW i \in Headers(k), \A g \in Headers(k) : g <= i PROVE i = h
      <3>1. i \in Nat /\ h \in Nat /\ h <= i /\ i <= h
        BY <1>1, <2>1, <2>2
      <3>2. QED
        BY <3>1
    <2>3. QED
      BY <2>1, <2>2 DEF InSection
  <1>4. QED
    BY <1>2, <1>3

\* A header is the last one from then on; another line changes nothing.
LEMMA SectionTurns ==
  ASSUME NEW k \in Nat \ {0}, SectionAt(k), UNCHANGED text,
         section' = IF text.lines[k].kind = "header" THEN text.lines[k].tag ELSE section
  PROVE  SectionAt(k + 1)'
  <1>1. Headers(k + 1)' = Headers(k) \cup (IF text.lines[k].kind = "header" THEN {k} ELSE {})
    <2>1. ASSUME NEW h PROVE h \in Headers(k + 1)' <=> h \in 1..k /\ text.lines[h].kind = "header"
      BY DEF Headers
    <2>2. ASSUME NEW h PROVE h \in Headers(k) <=> h \in 1..(k - 1) /\ text.lines[h].kind = "header"
      BY DEF Headers
    <2>3. 1..k = (1..(k - 1)) \cup {k}
      OBVIOUS
    <2>4. QED
      BY <2>1, <2>2, <2>3
  <1>2. Headers(k) \subseteq 1..(k - 1)
    BY DEF Headers
  <1> DEFINE H == Headers(k)  G == Headers(k + 1)'
  <1>3. SectionAt(k + 1)' <=> IF G = {} THEN section' = ""
                              ELSE \E h \in G : text.lines[h].tag = section' /\ \A g \in G : g <= h
    BY DEF SectionAt, InSection
  <1>4. IF H = {} THEN section = "" ELSE \E h \in H : text.lines[h].tag = section /\ \A g \in H : g <= h
    BY DEF SectionAt, InSection
  <1>5. /\ H \subseteq 1..(k - 1)
        /\ G = H \cup (IF text.lines[k].kind = "header" THEN {k} ELSE {})
    BY <1>1, <1>2
  <1> HIDE DEF H, G
  <1>6. CASE text.lines[k].kind = "header"
    <2>1. k \in G /\ \A g \in G : g <= k
      BY <1>5, <1>6
    <2>2. QED
      BY <1>3, <1>6, <2>1
  <1>7. CASE text.lines[k].kind # "header"
    BY <1>3, <1>4, <1>5, <1>7
  <1>8. QED
    BY <1>6, <1>7

\* The anchor lines of a template are its lines with an anchor.
LEMMA AnchorLinesAre ==
  ASSUME TextIsGiven, NEW i
  PROVE  i \in AnchorLines <=> i \in DOMAIN text.lines /\ text.lines[i].kind = "anchor"
  BY DEF AnchorLines, Places, TextIsGiven, IsTemplate

\* The lines that an anchor puts in front of the lines behind it.
LEMMA MovedByAnchor ==
  ASSUME TextIsGiven, NEW i \in AnchorLines
  PROVE  LET b == blocks[text.lines[i].tag] IN
         /\ IsList(b) /\ Len(b) \in Nat /\ IsFiniteSet(MovedBy(i))
         /\ Cardinality(MovedBy(i)) = IF Len(b) = 0 THEN 0 ELSE Len(b) - 1
  <1> DEFINE b == blocks[text.lines[i].tag]
  <1>1. text.lines[i].tag \in Anchors
    BY AnchorLinesAre DEF TextIsGiven, IsTemplate
  <1>2. IsList(b)
    BY <1>1 DEF TextIsGiven, AreBlocks
  <1> HIDE DEF b
  <1>3. Len(b) \in Nat
    BY <1>2, ListDomain
  <1>4. IsFiniteSet(2..Len(b)) /\ Cardinality(2..Len(b)) = IF 2 > Len(b) THEN 0 ELSE Len(b) - 2 + 1
    BY <1>3, FS_Interval
  <1>5. IsFiniteSet({i}) /\ Cardinality({i}) = 1
    BY FS_Singleton
  <1>6. MovedBy(i) = {i} \X (2..Len(b))
    BY DEF MovedBy, b
  <1>7. IsFiniteSet(MovedBy(i)) /\ Cardinality(MovedBy(i)) = Cardinality({i}) * Cardinality(2..Len(b))
    BY <1>4, <1>5, <1>6, FS_Product
  <1>8. Cardinality(MovedBy(i)) = Cardinality(2..Len(b))
    <2> DEFINE c == Cardinality(2..Len(b))
    <2>1. c \in Nat
      BY <1>3, <1>4
    <2> HIDE DEF c
    <2>2. Cardinality(MovedBy(i)) = 1 * c
      BY <1>5, <1>7 DEF c
    <2>3. QED
      BY <2>1, <2>2 DEF c
  <1>9. QED
    BY <1>2, <1>3, <1>4, <1>7, <1>8 DEF b

\* What the anchors before a line have put in front of it.
Moved(i) == UNION {MovedBy(j) : j \in {l \in AnchorLines : l < i}}

\* A line moves what the lines before it move, and its own block.
LEMMA MovedGrows ==
  ASSUME TextIsGiven, NEW i \in 1..Len(text.lines)
  PROVE  /\ Moved(1) = {}
         /\ Moved(i + 1) = Moved(i) \cup (IF i \in AnchorLines THEN MovedBy(i) ELSE {})
         /\ Moved(i) \cap MovedBy(i) = {}
  <1>1. \A l \in AnchorLines : l \in 1..Len(text.lines)
    <2>1. DOMAIN text.lines = 1..Len(text.lines)
      BY ListDomain DEF TextIsGiven, IsTemplate
    <2>2. QED
      BY <2>1, AnchorLinesAre
  <1>2. \A l \in AnchorLines : l < i + 1 <=> l < i \/ l = i
    BY <1>1
  <1>3. \A l \in AnchorLines : ~(l < 1)
    BY <1>1
  <1>4. \A x, k : x \in Moved(k) <=> \E j \in AnchorLines : j < k /\ x \in MovedBy(j)
    BY DEF Moved
  <1>5. Moved(1) = {}
    BY <1>3, <1>4
  <1>6. ASSUME NEW x PROVE x \in Moved(i + 1) <=> x \in Moved(i) \/ (i \in AnchorLines /\ x \in MovedBy(i))
    <2>1. x \in Moved(i + 1) <=> \E j \in AnchorLines : j < i + 1 /\ x \in MovedBy(j)
      BY DEF Moved
    <2>2. x \in Moved(i) <=> \E j \in AnchorLines : j < i /\ x \in MovedBy(j)
      BY DEF Moved
    <2>3. ASSUME NEW j \in AnchorLines, j < i + 1, x \in MovedBy(j)
          PROVE  x \in Moved(i) \/ (i \in AnchorLines /\ x \in MovedBy(i))
      <3>1. CASE j < i
        BY <2>2, <2>3, <3>1
      <3>2. CASE j = i
        BY <2>3, <3>2
      <3>3. QED
        BY <1>2, <2>3, <3>1, <3>2
    <2>4. ASSUME NEW j \in AnchorLines, j < i, x \in MovedBy(j) PROVE x \in Moved(i + 1)
      BY <1>2, <2>1, <2>4
    <2>5. ASSUME i \in AnchorLines, x \in MovedBy(i) PROVE x \in Moved(i + 1)
      BY <1>2, <2>1, <2>5
    <2>6. QED
      BY <2>1, <2>2, <2>3, <2>4, <2>5
  <1>7. \A x, j : x \in MovedBy(j) => x[1] = j
    BY DEF MovedBy
  <1>8. \A x \in Moved(i) : x[1] < i
    BY <1>4, <1>7
  <1>9. \A x \in Moved(i) : x \notin MovedBy(i)
    BY <1>7, <1>8
  <1>10. Moved(i + 1) = Moved(i) \cup (IF i \in AnchorLines THEN MovedBy(i) ELSE {})
    <2> DEFINE A == Moved(i + 1)  B == Moved(i)  C == MovedBy(i)
    <2>1. \A x : x \in A <=> x \in B \/ (i \in AnchorLines /\ x \in C)
      BY <1>6
    <2> HIDE DEF A, B, C
    <2>2. A = B \cup (IF i \in AnchorLines THEN C ELSE {})
      <3>1. CASE i \in AnchorLines
        BY <2>1, <3>1
      <3>2. CASE i \notin AnchorLines
        BY <2>1, <3>2
      <3>3. QED
        BY <3>1, <3>2
    <2>3. QED
      BY <2>2 DEF A, B, C
  <1>11. Moved(i) \cap MovedBy(i) = {}
    BY <1>9
  <1>12. QED
    BY <1>5, <1>10, <1>11

\* So do the counts of the lines.
LEMMA ShiftGrows ==
  ASSUME TextIsGiven
  PROVE  /\ Shift(1) = 0
         /\ \A i \in 1..(Len(text.lines) + 1) :
              Shift(i) \in Nat /\ IsFiniteSet(Moved(i)) /\ Shift(i) = Cardinality(Moved(i))
         /\ \A i \in 1..Len(text.lines) :
              Shift(i + 1) = Shift(i) + IF i \in AnchorLines THEN Cardinality(MovedBy(i)) ELSE 0
  <1> DEFINE n == Len(text.lines)
             P == {m \in Nat : m <= n => IsFiniteSet(Moved(m + 1))}
  <1>1. n \in Nat
    BY ListDomain DEF TextIsGiven, IsTemplate
  <1>2. \A i : Shift(i) = Cardinality(Moved(i))
    BY DEF Shift, Moved
  <1>3. Moved(1) = {}
    <2>1. \A l \in AnchorLines : l \in 1..n
      BY AnchorLinesAre, ListDomain DEF TextIsGiven, IsTemplate
    <2>2. \A l \in AnchorLines : ~(l < 1)
      BY <1>1, <2>1
    <2>3. QED
      BY <2>2 DEF Moved
  <1>4. Shift(1) = 0 /\ IsFiniteSet(Moved(1))
    BY <1>2, <1>3, FS_EmptySet
  <1>5. 0 \in P
    BY <1>4
  <1>6. ASSUME NEW m \in Nat, m \in P PROVE m + 1 \in P
    <2> SUFFICES ASSUME m + 1 <= n PROVE IsFiniteSet(Moved((m + 1) + 1))
      OBVIOUS
    <2>1. m + 1 \in 1..n /\ IsFiniteSet(Moved(m + 1))
      BY <1>1, <1>6
    <2>2. Moved((m + 1) + 1) = Moved(m + 1) \cup (IF m + 1 \in AnchorLines THEN MovedBy(m + 1) ELSE {})
      BY <2>1, MovedGrows
    <2>3. m + 1 \in AnchorLines => IsFiniteSet(MovedBy(m + 1))
      BY MovedByAnchor
    <2>4. CASE m + 1 \in AnchorLines
      <3>1. Moved((m + 1) + 1) = Moved(m + 1) \cup MovedBy(m + 1)
        BY <2>2, <2>4
      <3>2. IsFiniteSet(Moved(m + 1) \cup MovedBy(m + 1))
        BY <2>1, <2>3, <2>4, FS_Union
      <3>3. QED
        BY <3>1, <3>2
    <2>5. CASE m + 1 \notin AnchorLines
      <3>1. Moved((m + 1) + 1) = Moved(m + 1)
        BY <2>2, <2>5
      <3>2. QED
        BY <2>1, <3>1
    <2>6. QED
      BY <2>4, <2>5
  <1>7. Nat \subseteq P
    <2> HIDE DEF P
    <2>1. QED
      BY <1>5, <1>6, SetInduction
  <1>8. ASSUME NEW i \in 1..(n + 1) PROVE IsFiniteSet(Moved(i)) /\ Shift(i) \in Nat
    <2>1. i - 1 \in Nat /\ i - 1 <= n /\ (i - 1) + 1 = i
      BY <1>1
    <2>2. IsFiniteSet(Moved((i - 1) + 1))
      BY <1>7, <2>1
    <2>3. QED
      BY <1>2, <2>1, <2>2, FS_CardinalityType
  <1>9. ASSUME NEW i \in 1..n
        PROVE  Shift(i + 1) = Shift(i) + IF i \in AnchorLines THEN Cardinality(MovedBy(i)) ELSE 0
    <2>1. IsFiniteSet(Moved(i)) /\ Shift(i) \in Nat /\ i \in 1..(n + 1)
      BY <1>1, <1>8
    <2>2. Moved(i + 1) = Moved(i) \cup (IF i \in AnchorLines THEN MovedBy(i) ELSE {}) /\ Moved(i) \cap MovedBy(i) = {}
      BY MovedGrows
    <2>3. CASE i \notin AnchorLines
      <3>1. Moved(i + 1) = Moved(i)
        BY <2>2, <2>3
      <3>2. Shift(i + 1) = Shift(i)
        BY <1>2, <3>1
      <3>3. QED
        BY <2>1, <2>3, <3>2
    <2>4. CASE i \in AnchorLines
      <3>1. IsFiniteSet(MovedBy(i)) /\ Cardinality(MovedBy(i)) \in Nat
        BY <2>4, MovedByAnchor, FS_CardinalityType
      <3>2. Cardinality(Moved(i) \cup MovedBy(i)) =
              Cardinality(Moved(i)) + Cardinality(MovedBy(i)) - Cardinality(Moved(i) \cap MovedBy(i))
        BY <2>1, <3>1, FS_Union
      <3>3. Cardinality(Moved(i) \cap MovedBy(i)) = 0
        BY <2>2, FS_EmptySet
      <3>4. Moved(i + 1) = Moved(i) \cup MovedBy(i)
        BY <2>2, <2>4
      <3>5. Shift(i) = Cardinality(Moved(i)) /\ Shift(i + 1) = Cardinality(Moved(i) \cup MovedBy(i))
        BY <1>2, <3>4
      <3>6. QED
        BY <2>1, <2>4, <3>1, <3>2, <3>3, <3>5
    <2>5. QED
      BY <2>3, <2>4
  <1>10. QED
    BY <1>2, <1>4, <1>8, <1>9

\* So each line of the template has a place of its own in the output, in order.
LEMMA PlacesGrow ==
  ASSUME TextIsGiven, NEW i \in 1..Len(text.lines), NEW j \in 1..Len(text.lines), i < j
  PROVE  i + Shift(i) < j + Shift(j)
  <1>1. /\ i \in Nat /\ j \in Nat
        /\ i \in 1..(Len(text.lines) + 1) /\ j \in 1..(Len(text.lines) + 1)
    BY ListDomain DEF TextIsGiven, IsTemplate
  <1>2. /\ Shift(i) \in Nat /\ Shift(j) \in Nat /\ IsFiniteSet(Moved(j))
        /\ Shift(i) = Cardinality(Moved(i)) /\ Shift(j) = Cardinality(Moved(j))
    BY <1>1, ShiftGrows
  <1>3. \A l \in AnchorLines : l < i => l < j
    <2>1. \A l \in AnchorLines : l \in Nat
      <3>1. \A l \in 1..Len(text.lines) : l \in Nat
        OBVIOUS
      <3>2. QED
        BY <3>1, AnchorLinesAre, ListDomain DEF TextIsGiven, IsTemplate
    <2>2. QED
      BY <1>1, <2>1
  <1>4. Moved(i) \subseteq Moved(j)
    BY <1>3 DEF Moved
  <1>5. Cardinality(Moved(i)) <= Cardinality(Moved(j))
    BY <1>2, <1>4, FS_Subset
  <1>6. QED
    BY <1>1, <1>2, <1>5

\* The anchors are known where they are.
Marked == \A i \in DOMAIN text.lines : (\E a \in Anchors : pos[a] = i) <=> i \in AnchorLines

\* The lines of an output.
Shown == Lines \cup {Blank}

\* The blank line is one of them.
LEMMA BlankLine == Blank \in Shown /\ Lines \subseteq Shown /\ Blank.kind = "blank"
  <1>1. Blank = [kind |-> "blank", tag |-> "", indent |-> FALSE, url |-> "none"]
    BY DEF Blank, Line
  <1>2. Blank.kind = "blank"
    BY <1>1
  <1>3. QED
    BY <1>2 DEF Shown

\* A line of a block with the indentation of its anchor.
Put(line, anchorLine) == [line EXCEPT !.indent = @ \/ anchorLine.indent]

\* That is what indentBlock does with it.
LEMMA PutLine ==
  ASSUME NEW line \in Lines, NEW anchorLine \in Lines
  PROVE  /\ (IF anchorLine.indent THEN Indented(line) ELSE line) = Put(line, anchorLine)
         /\ Put(line, anchorLine) \in Lines /\ Put(line, anchorLine).kind = line.kind
  BY DEF Lines, Put, Indented

\* A line that is not an anchor stays, an empty block leaves an empty line.
LEMMA LineBecomes ==
  ASSUME TextIsGiven, Marked, NEW i \in 1..Len(text.lines)
  PROVE  LET c == Becomes(i)  b == blocks[text.lines[i].tag] IN
         /\ c \in Seq(Shown) /\ text.lines[i] \in Lines
         /\ Len(c) = 1 + (IF i \in AnchorLines THEN Cardinality(MovedBy(i)) ELSE 0)
         /\ i \notin AnchorLines => Len(c) = 1 /\ c[1] = text.lines[i]
         /\ i \in AnchorLines /\ Len(b) = 0 => Len(c) = 1 /\ c[1] = Blank
         /\ i \in AnchorLines /\ Len(b) # 0 =>
              /\ Len(c) = Len(b)
              /\ \A k \in 1..Len(b) :
                   c[k] = Put(b[k], text.lines[i]) /\ c[k].kind = b[k].kind /\ b[k].kind # "blank"
  <1> DEFINE c == Becomes(i)  b == blocks[text.lines[i].tag]  x == text.lines[i]
  <1>1. i \in DOMAIN text.lines /\ x \in Lines
    BY ListDomain DEF TextIsGiven, IsTemplate
  <1>2. CASE i \notin AnchorLines
    <2>1. c = <<x>>
      BY <1>1, <1>2 DEF Becomes, Marked
    <2> HIDE DEF c, x
    <2>2. c \in Seq(Shown) /\ Len(c) = 1 /\ c[1] = x
      BY <1>1, <2>1, BlankLine
    <2>3. QED
      BY <1>1, <1>2, <2>2 DEF c, x
  <1>3. CASE i \in AnchorLines
    <2>1. c = IndentBlock(x, b)
      BY <1>1, <1>3 DEF Becomes, Marked
    <2>2. /\ IsList(b) /\ Len(b) \in Nat
          /\ Cardinality(MovedBy(i)) = IF Len(b) = 0 THEN 0 ELSE Len(b) - 1
      BY <1>3, MovedByAnchor
    <2>3. x.tag \in Anchors
      BY <1>1, <1>3, AnchorLinesAre DEF TextIsGiven, IsTemplate
    <2>4. \A k \in DOMAIN b : b[k] \in Lines /\ b[k].kind # "blank"
      BY <2>3 DEF TextIsGiven, AreBlocks
    <2> HIDE DEF b, c, x
    <2>5. DOMAIN b = 1..Len(b)
      BY <2>2, ListDomain
    <2>6. CASE Len(b) = 0
      <3>1. b = <<>>
        <4>1. b \in Seq(ToSet(b))
          BY <2>2, ListDomain
        <4>2. QED
          BY <2>6, <4>1
      <3>2. c = <<Blank>>
        BY <2>1, <3>1 DEF IndentBlock
      <3>3. Blank \in Shown
        BY BlankLine
      <3>4. c \in Seq(Shown) /\ Len(c) = 1 /\ c[1] = Blank
        BY <3>2, <3>3
      <3>5. QED
        BY <1>1, <1>3, <2>2, <2>6, <3>4 DEF b, c, x
    <2>7. CASE Len(b) # 0
      <3>1. b # <<>>
        BY <2>7
      <3>2. c = [k \in DOMAIN b |-> IF x.indent THEN Indented(b[k]) ELSE b[k]]
        BY <2>1, <3>1 DEF IndentBlock
      <3>3. \A k \in 1..Len(b) :
              /\ (IF x.indent THEN Indented(b[k]) ELSE b[k]) = Put(b[k], x)
              /\ Put(b[k], x) \in Lines /\ Put(b[k], x).kind = b[k].kind
        BY <1>1, <2>4, <2>5, PutLine
      <3>4. c = [k \in 1..Len(b) |-> Put(b[k], x)]
        BY <2>5, <3>2, <3>3
      <3>5. c \in Seq(Shown) /\ Len(c) = Len(b) /\ \A k \in 1..Len(b) : c[k] = Put(b[k], x)
        BY <2>2, <3>3, <3>4, BlankLine
      <3>6. QED
        <4>1. \A k \in 1..Len(b) : c[k] = Put(b[k], x) /\ c[k].kind = b[k].kind /\ b[k].kind # "blank"
          BY <2>4, <2>5, <3>3, <3>5
        <4>2. Len(c) = 1 + Cardinality(MovedBy(i))
          BY <2>2, <2>7, <3>5
        <4>3. QED
          BY <1>1, <1>3, <2>7, <3>5, <4>1, <4>2 DEF b, c, x
    <2>8. QED
      BY <2>6, <2>7
  <1>4. QED
    BY <1>2, <1>3

-----------------------------------------------------------------------------
(* The output for a template that is used. *)

\* The output is the template with the blocks in it.
Layout(out) ==
  /\ out \in Seq(Shown)
  /\ \A i \in 1..Len(text.lines) : i \notin AnchorLines =>
       i + Shift(i) \in 1..Len(out) /\ out[i + Shift(i)] = text.lines[i]
  /\ \A i \in AnchorLines : \A k \in DOMAIN blocks[text.lines[i].tag] :
       /\ i + Shift(i) + k - 1 \in 1..Len(out)
       /\ out[i + Shift(i) + k - 1] = Put(blocks[text.lines[i].tag][k], text.lines[i])
  /\ \A p \in 1..Len(out) : \E i \in 1..Len(text.lines) :
       IF i \notin AnchorLines THEN p = i + Shift(i)
       ELSE /\ i + Shift(i) <= p
            /\ \/ out[p].kind = "blank"
               \/ \E k \in DOMAIN blocks[text.lines[i].tag] : out[p].kind = blocks[text.lines[i].tag][k].kind

\* The output before the last line is judged.
Spliced == FlattenSeq([i \in DOMAIN text.lines |-> Becomes(i)])

\* It is laid out as the template: each block begins where its anchor was moved to.
LEMMA JoinedLayout ==
  ASSUME TextIsGiven, Marked
  PROVE  /\ Layout(Spliced) /\ Len(Spliced) = Len(text.lines) + Shift(Len(text.lines) + 1)
         /\ \A i \in 1..Len(text.lines) : \A k \in 1..Len(Becomes(i)) :
              i + Shift(i) + k - 1 \in 1..Len(Spliced) /\ Spliced[i + Shift(i) + k - 1] = Becomes(i)[k]
  <1> DEFINE n == Len(text.lines)
             ss == [i \in 1..n |-> Becomes(i)]
             off == [i \in 1..(n + 1) |-> i + Shift(i) - 1]
             out == Spliced
  <1>1. n \in Nat /\ DOMAIN text.lines = 1..n
    BY ListDomain DEF TextIsGiven, IsTemplate
  <1>2. out = FlattenSeq(ss)
    BY <1>1 DEF Spliced
  <1>3. \A i \in 1..n : Becomes(i) \in Seq(Shown)
    BY LineBecomes
  <1>4. ss \in Seq(Seq(Shown)) /\ Len(ss) = n /\ \A i \in 1..n : ss[i] = Becomes(i)
    BY <1>1, <1>3
  <1>5. /\ Shift(1) = 0 /\ \A i \in 1..(n + 1) : Shift(i) \in Nat
        /\ \A i \in 1..n : Shift(i + 1) = Shift(i) + (Len(Becomes(i)) - 1)
    <2>1. /\ Shift(1) = 0 /\ \A i \in 1..(n + 1) : Shift(i) \in Nat
          /\ \A i \in 1..n : Shift(i + 1) = Shift(i) + IF i \in AnchorLines THEN Cardinality(MovedBy(i)) ELSE 0
      BY ShiftGrows
    <2>2. ASSUME NEW i \in 1..n PROVE Shift(i + 1) = Shift(i) + (Len(Becomes(i)) - 1)
      <3> DEFINE m == IF i \in AnchorLines THEN Cardinality(MovedBy(i)) ELSE 0
      <3>1. m \in Nat
        BY MovedByAnchor, FS_CardinalityType
      <3>2. Len(Becomes(i)) = 1 + m
        BY LineBecomes
      <3>3. Shift(i + 1) = Shift(i) + m
        BY <2>1
      <3> HIDE DEF m
      <3>4. QED
        BY <3>1, <3>2, <3>3
    <2>3. QED
      BY <2>1, <2>2
  <1>6. \A i \in 1..n : Len(Becomes(i)) \in Nat
    BY <1>3
  <1>7. \A i \in 1..(n + 1) : off[i] = i + Shift(i) - 1
    OBVIOUS
  <1> HIDE DEF ss, off, out, n
  <1>8. off[1] = 0
    BY <1>1, <1>5, <1>7
  <1>9. ASSUME NEW m \in 1..n PROVE off[m] \in Nat /\ off[m + 1] = off[m] + Len(ss[m])
    <2>0. m \in 1..(n + 1) /\ m + 1 \in 1..(n + 1)
      BY <1>1
    <2>1. off[m] = m + Shift(m) - 1 /\ off[m + 1] = (m + 1) + Shift(m + 1) - 1 /\ Shift(m) \in Nat
      BY <1>5, <1>7, <2>0
    <2>2. Shift(m + 1) = Shift(m) + (Len(Becomes(m)) - 1) /\ Len(Becomes(m)) \in Nat /\ ss[m] = Becomes(m)
      BY <1>4, <1>5, <1>6
    <2>3. QED
      BY <1>1, <2>1, <2>2
  <1>10. /\ out \in Seq(Shown) /\ Len(out) = off[n + 1]
         /\ \A i \in 1..n : \A k \in 1..Len(ss[i]) : off[i] + k \in 1..Len(out) /\ out[off[i] + k] = ss[i][k]
         /\ \A p \in 1..Len(out) : \E i \in 1..n : p - off[i] \in 1..Len(ss[i])
    <2>1. \A m \in 1..Len(ss) : off[m] \in Nat /\ off[m + 1] = off[m] + Len(ss[m])
      BY <1>4, <1>9
    <2>2. ss \in Seq(Seq(Shown))
      BY <1>4
    <2> DEFINE r == FlattenSeq(ss)
    <2>3. /\ r \in Seq(Shown) /\ Len(r) = off[Len(ss) + 1]
          /\ \A i \in 1..Len(ss) : \A k \in 1..Len(ss[i]) : off[i] + k \in 1..Len(r) /\ r[off[i] + k] = ss[i][k]
          /\ \A p \in 1..Len(r) : \E i \in 1..Len(ss) : p - off[i] \in 1..Len(ss[i])
      BY <1>8, <2>1, <2>2, FlattenPlaces
    <2> HIDE DEF r
    <2>4. r = out /\ Len(ss) = n
      BY <1>2, <1>4 DEF r
    <2>5. QED
      BY <2>3, <2>4
  <1>11. Len(out) = n + Shift(n + 1)
    <2>1. n + 1 \in 1..(n + 1)
      BY <1>1
    <2>2. off[n + 1] = (n + 1) + Shift(n + 1) - 1 /\ Shift(n + 1) \in Nat
      BY <1>5, <1>7, <2>1
    <2>3. QED
      BY <1>1, <1>10, <2>2
  <1>12. ASSUME NEW i \in 1..n, NEW k \in 1..Len(Becomes(i))
         PROVE  i + Shift(i) + k - 1 \in 1..Len(out) /\ out[i + Shift(i) + k - 1] = Becomes(i)[k]
    <2>1. off[i] + k \in 1..Len(out) /\ out[off[i] + k] = Becomes(i)[k]
      BY <1>4, <1>10
    <2>2. off[i] + k = i + Shift(i) + k - 1
      <3>1. off[i] = i + Shift(i) - 1 /\ Shift(i) \in Nat /\ k \in Nat /\ i \in Nat
        BY <1>1, <1>5, <1>7
      <3>2. QED
        BY <3>1
    <2>3. QED
      BY <2>1, <2>2
  <1>13. ASSUME NEW i \in 1..n, i \notin AnchorLines
         PROVE  i + Shift(i) \in 1..Len(out) /\ out[i + Shift(i)] = text.lines[i]
    <2>1. Len(Becomes(i)) = 1 /\ Becomes(i)[1] = text.lines[i]
      BY <1>13, LineBecomes DEF n
    <2>2. i + Shift(i) + 1 - 1 \in 1..Len(out) /\ out[i + Shift(i) + 1 - 1] = Becomes(i)[1]
      <3>1. 1 \in 1..Len(Becomes(i))
        BY <2>1
      <3>2. QED
        BY <1>12, <3>1
    <2>3. i + Shift(i) + 1 - 1 = i + Shift(i)
      BY <1>1, <1>5
    <2>4. QED
      BY <2>1, <2>2, <2>3
  <1>14. ASSUME NEW i \in AnchorLines, NEW k \in DOMAIN blocks[text.lines[i].tag]
         PROVE  /\ i + Shift(i) + k - 1 \in 1..Len(out)
                /\ out[i + Shift(i) + k - 1] = Put(blocks[text.lines[i].tag][k], text.lines[i])
    <2> DEFINE b == blocks[text.lines[i].tag]
    <2>1. i \in 1..n
      BY <1>1, AnchorLinesAre
    <2>2. IsList(b) /\ Len(b) \in Nat
      BY MovedByAnchor
    <2>3. k \in 1..Len(b) /\ Len(b) # 0
      BY <2>2, ListDomain
    <2>4. Len(Becomes(i)) = Len(b) /\ Becomes(i)[k] = Put(b[k], text.lines[i])
      BY <2>1, <2>3, LineBecomes DEF n
    <2>5. QED
      BY <1>12, <2>1, <2>3, <2>4
  <1>15. ASSUME NEW p \in 1..Len(out)
         PROVE  \E i \in 1..n :
                  IF i \notin AnchorLines THEN p = i + Shift(i)
                  ELSE /\ i + Shift(i) <= p
                       /\ \/ out[p].kind = "blank"
                          \/ \E k \in DOMAIN blocks[text.lines[i].tag] : out[p].kind = blocks[text.lines[i].tag][k].kind
    <2>1. PICK i \in 1..n : p - off[i] \in 1..Len(Becomes(i))
      BY <1>4, <1>10
    <2> DEFINE k == p - off[i]  b == blocks[text.lines[i].tag]
    <2>0. i \in 1..(n + 1) /\ i \in Nat /\ p \in Nat
      BY <1>1
    <2>2. off[i] = i + Shift(i) - 1 /\ Shift(i) \in Nat /\ i \in Nat /\ p \in Nat
      BY <1>5, <1>7, <2>0
    <2>3. k \in 1..Len(Becomes(i)) /\ p = i + Shift(i) + k - 1
      BY <2>1, <2>2
    <2> HIDE DEF k, b
    <2>4. out[p] = Becomes(i)[k]
      BY <1>12, <2>3
    <2>5. CASE i \notin AnchorLines
      <3>1. Len(Becomes(i)) = 1
        BY <2>5, LineBecomes DEF n
      <3>2. k = 1
        BY <2>3, <3>1
      <3>3. QED
        BY <2>2, <2>3, <2>5, <3>2
    <2>6. CASE i \in AnchorLines
      <3>1. i + Shift(i) <= p
        BY <2>2, <2>3, <1>6
      <3>2. IsList(b) /\ Len(b) \in Nat /\ DOMAIN b = 1..Len(b)
        BY <2>6, MovedByAnchor, ListDomain DEF b
      <3>3. CASE Len(b) = 0
        <4>1. Len(Becomes(i)) = 1 /\ Becomes(i)[1] = Blank
          BY <2>6, <3>3, LineBecomes DEF n, b
        <4>2. out[p] = Blank
          BY <2>3, <2>4, <4>1
        <4>3. out[p].kind = "blank"
          BY <4>2, BlankLine
        <4>4. QED
          BY <2>6, <3>1, <4>3
      <3>4. CASE Len(b) # 0
        <4>1. Len(Becomes(i)) = Len(b) /\ \A j \in 1..Len(b) : Becomes(i)[j].kind = b[j].kind
          BY <2>6, <3>4, LineBecomes DEF n, b
        <4>2. k \in DOMAIN b /\ out[p].kind = b[k].kind
          BY <2>3, <2>4, <3>2, <4>1
        <4>3. QED
          BY <2>6, <3>1, <4>2 DEF b
      <3>5. QED
        BY <3>3, <3>4
    <2>7. QED
      BY <2>5, <2>6
  <1>16. Layout(out)
    BY <1>10, <1>13, <1>14, <1>15 DEF Layout, n
  <1>17. QED
    BY <1>11, <1>12, <1>16 DEF n, out

\* A template that is used has at least three lines.
LEMMA LegalIsLong ==
  ASSUME TextIsGiven, Legal
  PROVE  Len(text.lines) \in Nat /\ Len(text.lines) >= 3
  <1>1. Len(text.lines) \in Nat /\ DOMAIN text.lines = 1..Len(text.lines)
    BY ListDomain DEF TextIsGiven, IsTemplate
  <1>2. \A a \in {"PROXIES", "GROUPS", "RULES"} : Cardinality(Places(a)) = 1
    BY DEF Legal, Needed
  <1>3. \A a \in {"PROXIES", "GROUPS", "RULES"} : Places(a) # {}
    BY <1>2, FS_EmptySet
  <1>4. PICK p \in Places("PROXIES") : TRUE
    BY <1>3
  <1>5. PICK g \in Places("GROUPS") : TRUE
    BY <1>3
  <1>6. PICK r \in Places("RULES") : TRUE
    BY <1>3
  <1>7. p \in 1..Len(text.lines) /\ g \in 1..Len(text.lines) /\ r \in 1..Len(text.lines)
    BY <1>1, <1>4, <1>5, <1>6 DEF Places
  <1>8. p # g /\ g # r /\ p # r
    BY <1>4, <1>5, <1>6 DEF Places
  <1>9. QED
    BY <1>1, <1>7, <1>8

\* The last line is taken off only if it is that of an empty block.
LEMMA LastOfJoined ==
  ASSUME TextIsGiven, Marked, Legal, ~EndsWithNewline(text.lines), EndsWithNewline(Spliced)
  PROVE  LET n == Len(text.lines) IN
         /\ n \in AnchorLines /\ Last(text.lines).kind = "anchor" /\ DOMAIN blocks[text.lines[n].tag] = {}
         /\ Len(Spliced) = n + Shift(n)
  <1> DEFINE n == Len(text.lines)  J == Spliced  c == Becomes(n)
  <1>1. n \in Nat /\ n >= 3 /\ DOMAIN text.lines = 1..n /\ n \in 1..n
    BY LegalIsLong, ListDomain DEF TextIsGiven, IsTemplate
  <1>2. /\ Layout(J) /\ Len(J) = n + Shift(n + 1)
        /\ \A k \in 1..Len(c) : n + Shift(n) + k - 1 \in 1..Len(J) /\ J[n + Shift(n) + k - 1] = c[k]
    BY <1>1, JoinedLayout
  <1>3. Shift(n + 1) = Shift(n) + (IF n \in AnchorLines THEN Cardinality(MovedBy(n)) ELSE 0) /\ Shift(n) \in Nat
    <2>1. n \in 1..(n + 1)
      BY <1>1
    <2>2. QED
      BY <1>1, <2>1, ShiftGrows
  <1>4. /\ c \in Seq(Shown) /\ Len(c) = 1 + (IF n \in AnchorLines THEN Cardinality(MovedBy(n)) ELSE 0)
        /\ Len(c) # 0
    <2>1. c \in Seq(Shown) /\ Len(c) = 1 + (IF n \in AnchorLines THEN Cardinality(MovedBy(n)) ELSE 0)
      BY <1>1, LineBecomes
    <2>2. (IF n \in AnchorLines THEN Cardinality(MovedBy(n)) ELSE 0) \in Nat
      BY MovedByAnchor, FS_CardinalityType
    <2>3. QED
      BY <2>1, <2>2
  <1>5. Len(J) = n + Shift(n) + Len(c) - 1 /\ Len(c) \in 1..Len(c)
    <2> DEFINE d == IF n \in AnchorLines THEN Cardinality(MovedBy(n)) ELSE 0
    <2>1. d \in Nat
      BY MovedByAnchor, FS_CardinalityType
    <2>2. Len(J) = n + (Shift(n) + d) /\ Len(c) = 1 + d
      BY <1>2, <1>3, <1>4
    <2> HIDE DEF d
    <2>3. QED
      BY <1>1, <1>3, <2>1, <2>2
  <1>6. J[Len(J)] = c[Len(c)]
    BY <1>2, <1>5
  <1>7. c[Len(c)] = Blank
    BY <1>6 DEF EndsWithNewline, Last
  <1>8. n \in AnchorLines
    <2> SUFFICES ASSUME n \notin AnchorLines PROVE FALSE
      OBVIOUS
    <2>1. text.lines[n] = Blank
      BY <1>1, <1>7, LineBecomes
    <2>2. Len(text.lines) > 1
      BY <1>1
    <2>3. QED
      BY <2>1, <2>2 DEF EndsWithNewline, Last
  <1>9. Last(text.lines).kind = "anchor"
    BY <1>8, AnchorLinesAre DEF Last
  <1> DEFINE b == blocks[text.lines[n].tag]
  <1>10. IsList(b) /\ Len(b) \in Nat
    BY <1>8, MovedByAnchor
  <1>11. Len(b) = 0
    <2> SUFFICES ASSUME Len(b) # 0 PROVE FALSE
      OBVIOUS
    <2>1. Len(c) = Len(b) /\ \A k \in 1..Len(b) : c[k].kind = b[k].kind /\ b[k].kind # "blank"
      BY <1>1, <1>8, LineBecomes
    <2>2. c[Len(c)].kind # "blank"
      BY <1>5, <2>1
    <2>3. QED
      BY <1>7, <2>2, BlankLine
  <1>12. Len(c) = 1
    BY <1>1, <1>8, <1>11, LineBecomes
  <1>13. DOMAIN b = {}
    BY <1>10, <1>11, ListDomain
  <1>14. QED
    BY <1>1, <1>3, <1>5, <1>8, <1>9, <1>12, <1>13

\* And so is the output.
LEMMA InjectedLayout ==
  ASSUME TextIsGiven, Marked, Legal, NEW out, out = Injected.lines
  PROVE  /\ Layout(out) /\ Len(out) >= 2
         /\ Len(out) \in {Len(text.lines) + Shift(Len(text.lines) + 1)} \cup
              (IF Last(text.lines).kind = "anchor" THEN {Len(text.lines) + Shift(Len(text.lines) + 1) - 1} ELSE {})
         /\ (text.newline # "mostly_lf" => Injected.newline = Majority)
  <1> DEFINE n == Len(text.lines)  J == Spliced
  <1>1. n \in Nat /\ n >= 3 /\ DOMAIN text.lines = 1..n /\ n \in 1..n
    BY LegalIsLong, ListDomain DEF TextIsGiven, IsTemplate
  <1>2. Layout(J) /\ Len(J) = n + Shift(n + 1) /\ J \in Seq(Shown)
    BY JoinedLayout DEF Layout
  <1>3. out = IF ~EndsWithNewline(text.lines) /\ EndsWithNewline(J) THEN Front(J) ELSE J
    BY DEF Injected, TrimFinal, Spliced
  <1>4. (text.newline # "mostly_lf" => Injected.newline = Majority)
    BY DEF Injected, NewlineOf, Majority
  <1>5. Shift(n) \in Nat /\ Shift(n + 1) \in Nat
    <2>1. n \in 1..(n + 1) /\ n + 1 \in 1..(n + 1)
      BY <1>1
    <2>2. QED
      BY <2>1, ShiftGrows
  <1>6. CASE ~(~EndsWithNewline(text.lines) /\ EndsWithNewline(J))
    <2>1. out = J
      BY <1>3, <1>6
    <2>2. Len(out) = n + Shift(n + 1) /\ Len(out) >= 2
      BY <1>1, <1>2, <1>5, <2>1
    <2>3. QED
      BY <1>2, <1>4, <2>1, <2>2
  <1>7. CASE ~EndsWithNewline(text.lines) /\ EndsWithNewline(J)
    <2>1. /\ n \in AnchorLines /\ Last(text.lines).kind = "anchor" /\ DOMAIN blocks[text.lines[n].tag] = {}
          /\ Len(J) = n + Shift(n)
      BY <1>7, LastOfJoined
    <2>2. Len(J) > 1 /\ J[Len(J)] = Blank
      BY <1>7 DEF EndsWithNewline, Last
    <2>3. /\ out \in Seq(Shown) /\ Len(out) = Len(J) - 1
          /\ \A p \in 1..(Len(J) - 1) : out[p] = J[p]
      BY <1>2, <1>3, <1>7, <2>2, WithoutLast
    <2>4. Len(out) = n + Shift(n + 1) - 1 /\ Len(out) >= 2
      BY <1>1, <1>2, <1>5, <2>1, <2>3
    <2> HIDE DEF J
    <2>5. Len(out) \in Nat /\ Len(J) = Len(out) + 1 /\ \A p \in 1..Len(out) : out[p] = J[p] /\ p \in 1..Len(J)
      BY <1>2, <2>3
    <2>6. ASSUME NEW i \in 1..n, i \notin AnchorLines
          PROVE  i + Shift(i) \in 1..Len(out) /\ out[i + Shift(i)] = text.lines[i]
      <3>1. i + Shift(i) \in 1..Len(J) /\ J[i + Shift(i)] = text.lines[i]
        BY <1>2, <2>6 DEF Layout
      <3>2. i < n
        BY <1>1, <2>1, <2>6
      <3>3. i + Shift(i) < n + Shift(n)
        BY <1>1, <3>2, PlacesGrow
      <3>4. i + Shift(i) \in 1..Len(out)
        BY <2>1, <2>5, <3>1, <3>3
      <3>5. QED
        BY <2>5, <3>1, <3>4
    <2>7. ASSUME NEW i \in AnchorLines, NEW k \in DOMAIN blocks[text.lines[i].tag]
          PROVE  /\ i + Shift(i) + k - 1 \in 1..Len(out)
                 /\ out[i + Shift(i) + k - 1] = Put(blocks[text.lines[i].tag][k], text.lines[i])
      <3> DEFINE p == i + Shift(i) + k - 1  b == blocks[text.lines[i].tag]
      <3>1. p \in 1..Len(J) /\ J[p] = Put(b[k], text.lines[i])
        BY <1>2 DEF Layout
      <3>2. text.lines[i] \in Lines /\ text.lines[i].tag \in Anchors
        BY AnchorLinesAre DEF TextIsGiven, IsTemplate
      <3>3. b[k] \in Lines /\ b[k].kind # "blank"
        BY <3>2 DEF TextIsGiven, AreBlocks
      <3>4. J[p].kind # "blank"
        BY <3>1, <3>2, <3>3, PutLine, ZenonT(40)
      <3> HIDE DEF p, b
      <3>5. p # Len(J)
        BY <2>2, <3>4, BlankLine
      <3>6. p \in 1..Len(out)
        BY <2>5, <3>1, <3>5
      <3>7. QED
        BY <2>5, <3>1, <3>6 DEF p, b
    <2>8. ASSUME NEW p \in 1..Len(out)
          PROVE  \E i \in 1..n :
                   IF i \notin AnchorLines THEN p = i + Shift(i)
                   ELSE /\ i + Shift(i) <= p
                        /\ \/ out[p].kind = "blank"
                           \/ \E k \in DOMAIN blocks[text.lines[i].tag] : out[p].kind = blocks[text.lines[i].tag][k].kind
      <3>1. p \in 1..Len(J) /\ out[p] = J[p]
        BY <2>5
      <3>2. QED
        BY <1>2, <3>1 DEF Layout
    <2>9. Layout(out)
      BY <2>3, <2>6, <2>7, <2>8 DEF Layout
    <2>10. QED
      BY <1>4, <2>1, <2>4, <2>9
  <1>8. QED
    BY <1>6, <1>7

-----------------------------------------------------------------------------
(* The scan. *)

\* The places of an anchor before line k.
Before(a, k) == {i \in Places(a) : i < k}

\* What findAndValidateAnchors knows before line k, and what it has not refused.
FoundBefore(k) ==
  /\ count \in [Anchors -> Nat] /\ pos \in [Anchors -> Nat]
  /\ \A a \in Anchors : count[a] = Cardinality(Before(a, k))
  /\ \A a \in Anchors : IF Before(a, k) = {} THEN pos[a] = 0 ELSE pos[a] \in Before(a, k)

\* The lines that have not been refused.
PassedBefore(k) ==
  \A i \in 1..(k - 1) :
    /\ text.lines[i].kind # "glued"
    /\ text.lines[i].kind = "anchor" =>
         text.lines[i].tag \in Needed /\ (target # "clash" => InSection(i, SectionsOf[text.lines[i].tag]))

\* What is known at a line of the scan.
Scanned(k) == k \in 1..(Len(text.lines) + 1) /\ FoundBefore(k) /\ PassedBefore(k) /\ SectionAt(k)

\* What holds of a template at every stage.
TemplateInv ==
  /\ step \in {"none", "scan", "judge", "inject", "managed", "done"}
  /\ step = "none" =>
       /\ at = 1 /\ section = "" /\ page = NoPage /\ refusal = NoRefusal
       /\ count = [a \in Anchors |-> 0] /\ pos = [a \in Anchors |-> 0]
  /\ step # "none" => TextIsGiven
  /\ step \in {"scan", "judge", "inject"} => page = NoPage /\ refusal = NoRefusal /\ Scanned(at)
  /\ step \in {"judge", "inject"} => at = Len(text.lines) + 1
  /\ step = "inject" => Legal /\ Marked
  /\ step = "managed" => Legal /\ Marked /\ refusal = NoRefusal /\ target = "surge" /\ page = Injected
  /\ TemplateIsInjected /\ ManagedLineLeads

\* What stays of a template.
LEMMA TemplateStays ==
  ASSUME UNCHANGED <<text, target, blocks>>
  PROVE  /\ TextIsGiven' <=> TextIsGiven
         /\ \A a : Places(a)' = Places(a)
         /\ AnchorLines' = AnchorLines /\ Needed' = Needed
         /\ \A i : WellPlaced(i)' <=> WellPlaced(i)
         /\ Legal' <=> Legal
  <1>1. TextIsGiven' <=> TextIsGiven
    BY DEF TextIsGiven, IsTemplate, AreBlocks
  <1>2. \A a : Places(a)' = Places(a)
    BY DEF Places
  <1>3. AnchorLines' = AnchorLines
    BY <1>2 DEF AnchorLines
  <1>4. Needed' = Needed
    BY DEF Needed
  <1>5. \A i : WellPlaced(i)' <=> WellPlaced(i)
    BY <1>4 DEF WellPlaced, InSection, Headers, SectionsOf
  <1>6. Legal' <=> Legal
    BY <1>2, <1>3, <1>4, <1>5 DEF Legal
  <1>7. QED
    BY <1>1, <1>2, <1>3, <1>4, <1>5, <1>6

\* What is known stays known.
LEMMA ScannedStays ==
  ASSUME UNCHANGED <<text, target, blocks, at, section, count, pos>>
  PROVE  Scanned(at)' <=> Scanned(at)
  BY DEF Scanned, FoundBefore, PassedBefore, SectionAt, Before, Places, InSection, Headers, Needed, SectionsOf, Anchors

\* A template that is refused with the right code.
LEMMA Refused ==
  ASSUME UNCHANGED <<text, target, blocks>>, TextIsGiven, ~Legal,
         step' = "done", page' = NoPage, refusal' # NoRefusal,
         refusal' = "TEMPLATE_ANCHOR_MISSING" => \E a \in Needed : Places(a) = {},
         refusal' = "TEMPLATE_ANCHOR_DUP" => \E a \in Needed : Cardinality(Places(a)) > 1,
         refusal' = "TEMPLATE_SECTION_ERROR" =>
           \/ \E i \in DOMAIN text.lines : text.lines[i].kind = "glued"
           \/ \E i \in AnchorLines : ~WellPlaced(i)
  PROVE  TemplateInv'
  <1>1. /\ TextIsGiven' /\ ~Legal' /\ Needed' = Needed /\ AnchorLines' = AnchorLines
        /\ \A a : Places(a)' = Places(a)
        /\ \A i : WellPlaced(i)' <=> WellPlaced(i)
    BY TemplateStays
  <1>2. NoPage' = NoPage /\ NoRefusal' = NoRefusal
    BY DEF NoPage, NoRefusal
  <1>3. (page # NoPage <=> Legal)'
    BY <1>1, <1>2
  <1>4. (refusal = "TEMPLATE_ANCHOR_MISSING" => \E a \in Needed : Places(a) = {})'
    BY <1>1
  <1>5. (refusal = "TEMPLATE_ANCHOR_DUP" => \E a \in Needed : Cardinality(Places(a)) > 1)'
    BY <1>1
  <1>6. (refusal = "TEMPLATE_SECTION_ERROR" =>
           \/ \E i \in DOMAIN text.lines : text.lines[i].kind = "glued"
           \/ \E i \in AnchorLines : ~WellPlaced(i))'
    BY <1>1
  <1>7. TemplateIsInjected'
    BY <1>1, <1>2, <1>3, <1>4, <1>5, <1>6 DEF TemplateIsInjected
  <1>8. ManagedLineLeads'
    BY <1>1 DEF ManagedLineLeads
  <1>9. QED
    BY <1>1, <1>7, <1>8 DEF TemplateInv

\* A line that is no anchor adds nothing to what is found.
LEMMA PassLine ==
  ASSUME UNCHANGED <<text, target, blocks, count, pos>>, TextIsGiven, Scanned(at), at <= Len(text.lines),
         text.lines[at].kind \notin {"anchor", "glued"}, at' = at + 1,
         section' = IF text.lines[at].kind = "header" THEN text.lines[at].tag ELSE section
  PROVE  Scanned(at)'
  <1>1. /\ at \in Nat \ {0} /\ at \in 1..Len(text.lines) /\ Len(text.lines) \in Nat
        /\ DOMAIN text.lines = 1..Len(text.lines)
    BY ListDomain DEF Scanned, TextIsGiven, IsTemplate
  <1>2. \A a : Places(a)' = Places(a) /\ at \notin Places(a) /\ Places(a) \subseteq 1..Len(text.lines)
    BY <1>1, TemplateStays DEF Places
  <1>3. \A a : Before(a, at)' = Before(a, at)
    <2> SUFFICES ASSUME NEW a PROVE Before(a, at)' = Before(a, at)
      OBVIOUS
    <2>1. \A i \in Places(a) : i < at + 1 <=> i < at
      BY <1>1, <1>2
    <2>2. Before(a, at)' = {i \in Places(a) : i < at + 1}
      BY <1>2 DEF Before
    <2>3. QED
      BY <2>1, <2>2 DEF Before
  <1>4. FoundBefore(at)'
    BY <1>3 DEF Scanned, FoundBefore
  <1>5. PassedBefore(at)'
    <2>1. \A i \in 1..((at + 1) - 1) : i \in 1..(at - 1) \/ i = at
      BY <1>1
    <2>2. Needed' = Needed /\ \A i, s : InSection(i, s)' <=> InSection(i, s)
      BY TemplateStays DEF InSection, Headers
    <2>3. SectionsOf' = SectionsOf
      BY DEF SectionsOf
    <2>4. QED
      BY <1>1, <2>1, <2>2, <2>3 DEF Scanned, PassedBefore
  <1>6. SectionAt(at)'
    <2>1. PICK k \in Nat \ {0} : k = at
      BY <1>1
    <2>2. SectionAt(k)
      BY <2>1 DEF Scanned
    <2>3. section' = IF text.lines[k].kind = "header" THEN text.lines[k].tag ELSE section
      BY <2>1
    <2>4. SectionAt(k + 1)'
      BY <2>2, <2>3, SectionTurns
    <2>5. at' = k + 1
      BY <2>1
    <2>6. QED
      BY <2>4, <2>5 DEF SectionAt, Headers, InSection
  <1>7. at' \in 1..(Len(text'.lines) + 1)
    BY <1>1
  <1>8. QED
    BY <1>4, <1>5, <1>6, <1>7 DEF Scanned

\* An anchor is found, and its section has been right.
LEMMA AnchorStep ==
  ASSUME TextIsGiven, step = "scan", Scanned(at), page = NoPage, refusal = NoRefusal, ScanAnchor
  PROVE  TemplateInv'
  <1> DEFINE a == text.lines[at].tag
  <1>1. /\ at \in 1..Len(text.lines) /\ at \in Nat \ {0} /\ Len(text.lines) \in Nat
        /\ DOMAIN text.lines = 1..Len(text.lines)
    BY ListDomain DEF Scanned, TextIsGiven, IsTemplate, ScanAnchor
  <1>2. text.lines[at].kind = "anchor" /\ a \in Anchors
    BY <1>1 DEF TextIsGiven, IsTemplate, ScanAnchor
  <1>3. at \in AnchorLines
    BY <1>1, <1>2, AnchorLinesAre
  <1>4. /\ target \in Targets /\ (Foreign(a) <=> a \notin Needed)
        /\ (a \in Needed /\ target # "clash" => SectionOf(a) = SectionsOf[a] /\ SectionsOf[a] # "")
        /\ (a \in Needed /\ target = "clash" => SectionOf(a) = section)
    BY <1>2, NeededAnchors DEF TextIsGiven
  <1>5. a \in Needed /\ target # "clash" => (InSection(at, SectionsOf[a]) <=> section = SectionOf(a))
    BY <1>1, <1>4, SectionIsLast DEF Scanned
  <1>6. UNCHANGED <<text, target, blocks, section, page>>
    BY DEF ScanAnchor
  <1>7. CASE Misplaced(a)
    <2>1. step' = "done" /\ refusal' = "TEMPLATE_SECTION_ERROR" /\ page' = NoPage
      BY <1>7 DEF ScanAnchor, Refuse
    <2>2. ~WellPlaced(at)
      BY <1>4, <1>5, <1>7 DEF Misplaced, WellPlaced
    <2>3. ~Legal
      BY <1>3, <2>2 DEF Legal
    <2>4. refusal' # NoRefusal
      BY <2>1 DEF NoRefusal
    <2>5. QED
      BY <1>3, <1>6, <2>1, <2>2, <2>3, <2>4, Refused
  <1>8. CASE ~Misplaced(a)
    <2>1. /\ step' = "scan" /\ at' = at + 1 /\ refusal' = NoRefusal /\ page' = NoPage
          /\ count' = [count EXCEPT ![a] = @ + 1] /\ pos' = [pos EXCEPT ![a] = at]
      BY <1>8 DEF ScanAnchor
    <2>2. a \in Needed /\ (target # "clash" => InSection(at, SectionsOf[a]))
      BY <1>4, <1>5, <1>8 DEF Misplaced
    <2>3. /\ \A b : Places(b)' = Places(b) /\ Places(b) \subseteq 1..Len(text.lines)
          /\ \A b : at \in Places(b) <=> b = a
      BY <1>1, <1>2, <1>6, TemplateStays DEF Places
    <2>4. /\ count \in [Anchors -> Nat] /\ pos \in [Anchors -> Nat]
          /\ \A b \in Anchors : count[b] = Cardinality(Before(b, at))
          /\ \A b \in Anchors : IF Before(b, at) = {} THEN pos[b] = 0 ELSE pos[b] \in Before(b, at)
      BY DEF Scanned, FoundBefore
    <2>5. \A b : Before(b, at)' = {i \in Places(b) : i < at + 1}
      BY <2>1, <2>3 DEF Before
    <2>6. ASSUME NEW b, b = a PROVE Before(b, at)' = Before(b, at) \cup {at}
      <3>1. \A i \in Places(b) : i < at + 1 <=> i < at \/ i = at
        BY <1>1, <2>3
      <3>2. at \in Places(b)
        BY <2>3, <2>6
      <3>3. ASSUME NEW i \in Places(b), i < at + 1 PROVE i \in Before(b, at) \cup {at}
        BY <3>1, <3>3 DEF Before
      <3>4. ASSUME NEW i \in Before(b, at) \cup {at} PROVE i \in Places(b) /\ i < at + 1
        BY <1>1, <3>1, <3>2 DEF Before
      <3>5. QED
        BY <2>5, <3>3, <3>4
    <2>7. \A b : b # a => Before(b, at)' = Before(b, at)
      <3> SUFFICES ASSUME NEW b, b # a PROVE Before(b, at)' = Before(b, at)
        OBVIOUS
      <3>1. \A i \in Places(b) : i < at + 1 <=> i < at
        BY <1>1, <2>3
      <3>2. QED
        BY <2>5, <3>1 DEF Before
    <2>8. IsFiniteSet(Before(a, at)) /\ at \notin Before(a, at)
      <3>1. \A i \in Before(a, at) : i \in 1..Len(text.lines) /\ i < at
        BY <2>3 DEF Before
      <3>2. IsFiniteSet(1..Len(text.lines))
        BY <1>1, FS_Interval
      <3>3. Before(a, at) \subseteq 1..Len(text.lines)
        BY <3>1
      <3>4. IsFiniteSet(Before(a, at))
        BY <3>2, <3>3, FS_Subset
      <3>5. QED
        BY <1>1, <3>1, <3>4
    <2>9. Cardinality(Before(a, at) \cup {at}) = Cardinality(Before(a, at)) + 1
      BY <2>8, FS_AddElement
    <2>10. FoundBefore(at)'
      <3>1. count' \in [Anchors -> Nat] /\ pos' \in [Anchors -> Nat]
        BY <1>1, <1>2, <2>1, <2>4
      <3>2. ASSUME NEW b \in Anchors PROVE count'[b] = Cardinality(Before(b, at)')
        <4>1. CASE b = a
          <5>1. count'[b] = count[b] + 1
            BY <2>1, <2>4, <4>1
          <5>2. Before(b, at)' = Before(b, at) \cup {at}
            BY <2>6, <4>1
          <5>3. QED
            BY <2>4, <2>9, <4>1, <5>1, <5>2
        <4>2. CASE b # a
          BY <2>1, <2>4, <2>7, <4>2
        <4>3. QED
          BY <4>1, <4>2
      <3>3. ASSUME NEW b \in Anchors PROVE IF Before(b, at)' = {} THEN pos'[b] = 0 ELSE pos'[b] \in Before(b, at)'
        <4>1. CASE b = a
          <5>1. pos'[b] = at
            BY <2>1, <2>4, <4>1
          <5>2. Before(b, at)' = Before(b, at) \cup {at}
            BY <2>6, <4>1
          <5>3. QED
            BY <5>1, <5>2
        <4>2. CASE b # a
          BY <2>1, <2>4, <2>7, <4>2
        <4>3. QED
          BY <4>1, <4>2
      <3>4. QED
        BY <3>1, <3>2, <3>3 DEF FoundBefore
    <2>11. PassedBefore(at)'
      <3>1. \A i \in 1..((at + 1) - 1) : i \in 1..(at - 1) \/ i = at
        BY <1>1
      <3>2. Needed' = Needed /\ \A i, s : InSection(i, s)' <=> InSection(i, s)
        BY <1>6, TemplateStays DEF InSection, Headers
      <3>3. SectionsOf' = SectionsOf
        BY <1>6 DEF SectionsOf
      <3>4. QED
        BY <1>2, <1>6, <2>1, <2>2, <3>1, <3>2, <3>3 DEF Scanned, PassedBefore
    <2>12. SectionAt(at)'
      <3>1. PICK k \in Nat \ {0} : k = at
        BY <1>1
      <3>2. SectionAt(k)
        BY <3>1 DEF Scanned
      <3>3. section' = IF text.lines[k].kind = "header" THEN text.lines[k].tag ELSE section
        BY <1>2, <1>6, <3>1
      <3>4. SectionAt(k + 1)'
        BY <1>6, <3>2, <3>3, SectionTurns
      <3>5. at' = k + 1
        BY <2>1, <3>1
      <3>6. QED
        BY <3>4, <3>5 DEF SectionAt, Headers, InSection
    <2>13. at' \in 1..(Len(text'.lines) + 1)
      BY <1>1, <1>6, <2>1
    <2>14. Scanned(at)'
      BY <2>10, <2>11, <2>12, <2>13 DEF Scanned
    <2>15. TextIsGiven' /\ NoPage' = NoPage
      BY <1>6, TemplateStays DEF NoPage
    <2>16. TemplateIsInjected' /\ ManagedLineLeads'
      BY <2>1 DEF TemplateIsInjected, ManagedLineLeads
    <2>17. QED
      BY <2>1, <2>14, <2>15, <2>16 DEF TemplateInv, NoRefusal
  <1>9. QED
    BY <1>7, <1>8

\* A line that is not an anchor is passed or, with an anchor inside, refused.
LEMMA OtherLineStep ==
  ASSUME TextIsGiven, step = "scan", Scanned(at), page = NoPage, refusal = NoRefusal, ScanHeader \/ ScanOther
  PROVE  TemplateInv'
  <1>1. UNCHANGED <<text, target, blocks, count, pos, page>> /\ at <= Len(text.lines) /\ at \in DOMAIN text.lines
    BY ListDomain DEF ScanHeader, ScanOther, Scanned, TextIsGiven, IsTemplate
  <1>2. CASE text.lines[at].kind = "glued"
    <2>1. step' = "done" /\ refusal' = "TEMPLATE_SECTION_ERROR" /\ page' = NoPage
      BY <1>2 DEF ScanHeader, ScanOther, Refuse
    <2>2. ~Legal
      BY <1>1, <1>2 DEF Legal
    <2>3. refusal' # NoRefusal
      BY <2>1 DEF NoRefusal
    <2>4. QED
      BY <1>1, <1>2, <2>1, <2>2, <2>3, Refused
  <1>3. CASE text.lines[at].kind # "glued"
    <2>1. /\ step' = "scan" /\ at' = at + 1 /\ refusal' = NoRefusal /\ page' = NoPage
          /\ text.lines[at].kind \notin {"anchor", "glued"}
          /\ section' = IF text.lines[at].kind = "header" THEN text.lines[at].tag ELSE section
      BY <1>3 DEF ScanHeader, ScanOther
    <2>2. Scanned(at)'
      BY <1>1, <2>1, PassLine
    <2>3. TextIsGiven' /\ NoPage' = NoPage
      BY <1>1, TemplateStays DEF NoPage
    <2>4. TemplateIsInjected' /\ ManagedLineLeads'
      BY <2>1 DEF TemplateIsInjected, ManagedLineLeads
    <2>5. QED
      BY <2>1, <2>2, <2>3, <2>4 DEF TemplateInv, NoRefusal
  <1>4. QED
    BY <1>2, <1>3

\* The end of the scan.
LEMMA EndScanStep ==
  ASSUME TextIsGiven, step = "scan", Scanned(at), page = NoPage, refusal = NoRefusal, EndScan
  PROVE  TemplateInv'
  <1>1. /\ UNCHANGED <<text, target, blocks, at, section, count, pos, page, refusal>>
        /\ step' = "judge" /\ at > Len(text.lines)
    BY DEF EndScan, Turn
  <1>2. at = Len(text.lines) + 1
    BY <1>1, ListDomain DEF Scanned, TextIsGiven, IsTemplate
  <1>3. TextIsGiven' /\ NoPage' = NoPage
    BY <1>1, TemplateStays DEF NoPage
  <1>4. Scanned(at)'
    BY <1>1, ScannedStays
  <1>5. TemplateIsInjected' /\ ManagedLineLeads'
    BY <1>1 DEF TemplateIsInjected, ManagedLineLeads
  <1>6. QED
    BY <1>1, <1>2, <1>3, <1>4, <1>5 DEF TemplateInv, NoRefusal

\* At the end of the scan every anchor has been counted.
LEMMA AllFound ==
  ASSUME TextIsGiven, Scanned(at), at = Len(text.lines) + 1
  PROVE  /\ count \in [Anchors -> Nat]
         /\ \A a \in Anchors : /\ IsFiniteSet(Places(a)) /\ count[a] = Cardinality(Places(a))
                               /\ IF Places(a) = {} THEN pos[a] = 0 ELSE pos[a] \in Places(a)
                               /\ Places(a) # {} => a \in Needed
         /\ \A i \in DOMAIN text.lines :
              /\ text.lines[i].kind # "glued"
              /\ text.lines[i].kind = "anchor" =>
                   text.lines[i].tag \in Needed /\ (target # "clash" => InSection(i, SectionsOf[text.lines[i].tag]))
  <1>1. Len(text.lines) \in Nat /\ DOMAIN text.lines = 1..Len(text.lines)
    BY ListDomain DEF TextIsGiven, IsTemplate
  <1>2. \A a : Places(a) \subseteq 1..Len(text.lines)
    BY <1>1 DEF Places
  <1>3. \A a : Before(a, at) = Places(a)
    <2> SUFFICES ASSUME NEW a PROVE Before(a, at) = Places(a)
      OBVIOUS
    <2>1. \A i \in Places(a) : i < at
      BY <1>1, <1>2
    <2>2. QED
      BY <2>1 DEF Before
  <1>4. \A a : IsFiniteSet(Places(a))
    <2>1. IsFiniteSet(1..Len(text.lines))
      BY <1>1, FS_Interval
    <2>2. QED
      BY <1>2, <2>1, FS_Subset
  <1>5. \A i \in DOMAIN text.lines :
          /\ text.lines[i].kind # "glued"
          /\ text.lines[i].kind = "anchor" =>
               text.lines[i].tag \in Needed /\ (target # "clash" => InSection(i, SectionsOf[text.lines[i].tag]))
    <2>1. 1..(at - 1) = DOMAIN text.lines
      BY <1>1
    <2>2. QED
      BY <2>1 DEF Scanned, PassedBefore
  <1>6. \A a \in Anchors : Places(a) # {} => a \in Needed
    BY <1>5 DEF Places
  <1>7. QED
    BY <1>3, <1>4, <1>5, <1>6 DEF Scanned, FoundBefore

\* What passes the last checks is legal.
LEMMA PassedIsLegal ==
  ASSUME TextIsGiven, Scanned(at), at = Len(text.lines) + 1, AnchorFault = NoRefusal
  PROVE  Legal /\ Marked
  <1>1. /\ \A a \in Wanted : count[a] # 0
        /\ \A a \in Anchors : ~(count[a] > 1)
        /\ target = "clash" => \A a \in Wanted : text.lines[pos[a]].indent
        /\ target = "quanx" => count["RULESETS"] # 0
    BY DEF AnchorFault, NoRefusal
  <1>2. target \in Targets /\ Wanted \subseteq Needed /\ Needed \subseteq Anchors
    BY NeededAnchors DEF TextIsGiven, Anchors
  <1>3. \A a \in Needed : count[a] = 1
    <2> SUFFICES ASSUME NEW a \in Needed PROVE count[a] = 1
      OBVIOUS
    <2>1. count[a] \in Nat /\ a \in Anchors
      BY <1>2, AllFound
    <2>2. count[a] # 0
      BY <1>1, <1>2, NeededAnchors
    <2>3. QED
      BY <1>1, <2>1, <2>2
  <1>4. ASSUME NEW a \in Needed PROVE Cardinality(Places(a)) = 1 /\ \A i \in Places(a) : pos[a] = i
    <2>1. IsFiniteSet(Places(a)) /\ Cardinality(Places(a)) = 1
      BY <1>2, <1>3, AllFound
    <2>2. PICK x : Places(a) = {x}
      BY <2>1, FS_Singleton
    <2>3. pos[a] \in Places(a)
      BY <1>2, <2>2, AllFound
    <2>4. QED
      BY <2>1, <2>2, <2>3
  <1>5. ASSUME NEW i \in AnchorLines
        PROVE  /\ i \in DOMAIN text.lines /\ text.lines[i].tag \in Needed /\ i \in Places(text.lines[i].tag)
               /\ target # "clash" => InSection(i, SectionsOf[text.lines[i].tag])
    BY AnchorLinesAre, AllFound DEF Places
  <1>6. ASSUME NEW i \in AnchorLines PROVE WellPlaced(i)
    <2>1. CASE target = "clash"
      <3>1. Needed = Wanted
        BY <2>1 DEF Needed, Wanted
      <3>2. pos[text.lines[i].tag] = i
        BY <1>4, <1>5
      <3>3. text.lines[i].indent
        BY <1>1, <1>5, <2>1, <3>1, <3>2
      <3>4. QED
        BY <1>5, <2>1, <3>3 DEF WellPlaced
    <2>2. CASE target # "clash"
      BY <1>5, <2>2 DEF WellPlaced
    <2>3. QED
      BY <2>1, <2>2
  <1>7. Legal
    BY <1>4, <1>6, AllFound DEF Legal
  <1>8. Marked
    <2>1. ASSUME NEW i \in AnchorLines PROVE \E a \in Anchors : pos[a] = i
      BY <1>2, <1>4, <1>5
    <2>2. ASSUME NEW i \in DOMAIN text.lines, NEW a \in Anchors, pos[a] = i PROVE i \in AnchorLines
      <3>1. i # 0
        BY ListDomain DEF TextIsGiven, IsTemplate
      <3>2. i \in Places(a)
        BY <2>2, <3>1, AllFound
      <3>3. QED
        BY <3>2 DEF AnchorLines
    <2>3. QED
      BY <2>1, <2>2 DEF Marked
  <1>9. QED
    BY <1>7, <1>8

\* A code of the last checks is right.
LEMMA FaultIsRight ==
  ASSUME TextIsGiven, Scanned(at), at = Len(text.lines) + 1, AnchorFault # NoRefusal
  PROVE  /\ ~Legal
         /\ AnchorFault \in {"TEMPLATE_ANCHOR_MISSING", "TEMPLATE_ANCHOR_DUP", "TEMPLATE_SECTION_ERROR"}
         /\ AnchorFault = "TEMPLATE_ANCHOR_MISSING" => \E a \in Needed : Places(a) = {}
         /\ AnchorFault = "TEMPLATE_ANCHOR_DUP" => \E a \in Needed : Cardinality(Places(a)) > 1
         /\ AnchorFault = "TEMPLATE_SECTION_ERROR" => \E i \in AnchorLines : ~WellPlaced(i)
  <1>1. target \in Targets /\ Wanted \subseteq Needed /\ Needed \subseteq Anchors
    BY NeededAnchors DEF TextIsGiven, Anchors
  <1>2. \A a \in Anchors : count[a] = 0 <=> Places(a) = {}
    BY AllFound, FS_EmptySet
  <1>3. CASE \E a \in Wanted : count[a] = 0
    <2>1. AnchorFault = "TEMPLATE_ANCHOR_MISSING"
      BY <1>3 DEF AnchorFault
    <2>2. PICK a \in Wanted : count[a] = 0
      BY <1>3
    <2>3. a \in Needed /\ Places(a) = {} /\ Cardinality(Places(a)) # 1
      BY <1>1, <1>2, <2>2, AllFound
    <2>4. QED
      BY <2>1, <2>3 DEF Legal
  <1>4. CASE (\A a \in Wanted : count[a] # 0) /\ \E a \in Anchors : count[a] > 1
    <2>1. AnchorFault = "TEMPLATE_ANCHOR_DUP"
      BY <1>4 DEF AnchorFault
    <2>2. PICK a \in Anchors : count[a] > 1
      BY <1>4
    <2>3. Cardinality(Places(a)) > 1 /\ Cardinality(Places(a)) # 1 /\ Places(a) # {}
      BY <1>2, <2>2, AllFound
    <2>4. a \in Needed
      BY <2>3, AllFound
    <2>5. QED
      BY <2>1, <2>3, <2>4 DEF Legal
  <1>5. CASE /\ \A a \in Wanted : count[a] # 0
             /\ \A a \in Anchors : ~(count[a] > 1)
             /\ target = "clash" /\ \E a \in Wanted : ~text.lines[pos[a]].indent
    <2>1. AnchorFault = "TEMPLATE_SECTION_ERROR"
      BY <1>5 DEF AnchorFault
    <2>2. PICK a \in Wanted : ~text.lines[pos[a]].indent
      BY <1>5
    <2>3. pos[a] \in Places(a) /\ a \in Anchors
      BY <1>1, <1>2, <1>5, <2>2, AllFound
    <2>4. pos[a] \in AnchorLines
      BY <2>3 DEF AnchorLines
    <2>5. ~WellPlaced(pos[a])
      BY <1>5, <2>2 DEF WellPlaced
    <2>6. QED
      BY <2>1, <2>4, <2>5 DEF Legal
  <1>6. CASE /\ \A a \in Wanted : count[a] # 0
             /\ \A a \in Anchors : ~(count[a] > 1)
             /\ ~(target = "clash" /\ \E a \in Wanted : ~text.lines[pos[a]].indent)
    <2>1. target = "quanx" /\ count["RULESETS"] = 0 /\ AnchorFault = "TEMPLATE_ANCHOR_MISSING"
      BY <1>6 DEF AnchorFault
    <2>2. "RULESETS" \in Needed /\ "RULESETS" \in Anchors
      BY <2>1 DEF Needed, Anchors
    <2>3. Places("RULESETS") = {} /\ Cardinality(Places("RULESETS")) # 1
      BY <1>2, <2>1, <2>2, AllFound
    <2>4. QED
      BY <2>1, <2>2, <2>3 DEF Legal
  <1>7. QED
    BY <1>3, <1>4, <1>5, <1>6

\* The last checks.
LEMMA JudgeStep ==
  ASSUME TextIsGiven, step = "judge", Scanned(at), at = Len(text.lines) + 1, page = NoPage, refusal = NoRefusal, Judge
  PROVE  TemplateInv'
  <1>1. UNCHANGED <<text, target, blocks, at, section, count, pos, page>>
    BY DEF Judge
  <1>2. CASE AnchorFault = NoRefusal
    <2>1. step' = "inject" /\ refusal' = NoRefusal
      BY <1>2 DEF Judge, Turn
    <2>2. Legal' /\ TextIsGiven' /\ NoPage' = NoPage /\ NoRefusal' = NoRefusal
      BY <1>1, <1>2, PassedIsLegal, TemplateStays DEF NoPage, NoRefusal
    <2>3. Marked'
      BY <1>1, <1>2, PassedIsLegal, TemplateStays DEF Marked, Anchors
    <2>4. Scanned(at)'
      BY <1>1, ScannedStays
    <2>5. TemplateIsInjected' /\ ManagedLineLeads'
      BY <2>1 DEF TemplateIsInjected, ManagedLineLeads
    <2>6. QED
      BY <1>1, <2>1, <2>2, <2>3, <2>4, <2>5 DEF TemplateInv
  <1>3. CASE AnchorFault # NoRefusal
    <2>1. step' = "done" /\ refusal' = AnchorFault /\ page' = NoPage
      BY <1>1, <1>3 DEF Judge, Refuse
    <2>2. QED
      BY <1>1, <1>3, <2>1, FaultIsRight, Refused
  <1>4. QED
    BY <1>2, <1>3

\* A template is opened, or refused because it is empty.
LEMMA OpenStep ==
  ASSUME TemplateInv, NEW t, NEW k, NEW b, Open(t, k, b), IsTemplate(t), k \in Targets, AreBlocks(b)
  PROVE  TemplateInv'
  <1>1. /\ step = "none" /\ text' = t /\ target' = k /\ blocks' = b
        /\ UNCHANGED <<at, section, count, pos, page>>
    BY DEF Open
  <1>2. /\ at = 1 /\ section = "" /\ page = NoPage /\ refusal = NoRefusal
        /\ count = [a \in Anchors |-> 0] /\ pos = [a \in Anchors |-> 0]
    BY <1>1 DEF TemplateInv
  <1>3. TextIsGiven' /\ NoPage' = NoPage /\ NoRefusal' = NoRefusal
    BY <1>1 DEF TextIsGiven, IsTemplate, AreBlocks, NoPage, NoRefusal, Targets
  <1>4. CASE t.lines = <<Blank>>
    <2>1. step' = "done" /\ text'.lines = <<Blank>>
      BY <1>1, <1>4 DEF Open
    <2>2. TemplateIsInjected' /\ ManagedLineLeads'
      BY <2>1 DEF TemplateIsInjected, ManagedLineLeads, Blank, Line
    <2>3. QED
      BY <1>3, <2>1, <2>2 DEF TemplateInv
  <1>5. CASE t.lines # <<Blank>>
    <2>1. step' = "scan" /\ refusal' = NoRefusal
      BY <1>2, <1>5 DEF Open
    <2>2. Len(t.lines) \in Nat /\ DOMAIN t.lines = 1..Len(t.lines)
      BY ListDomain DEF IsTemplate
    <2>3. \A a : Before(a, at)' = {}
      <3>1. \A i \in 1..Len(t.lines) : ~(i < 1)
        BY <2>2
      <3>2. \A a : Places(a)' \subseteq 1..Len(t.lines)
        BY <1>1, <2>2 DEF Places
      <3>3. QED
        BY <1>1, <1>2, <3>1, <3>2 DEF Before
    <2>4. FoundBefore(at)'
      BY <1>1, <1>2, <2>3, FS_EmptySet DEF FoundBefore
    <2>5. PassedBefore(at)'
      <3>1. \A i \in 1..(1 - 1) : FALSE
        OBVIOUS
      <3>2. QED
        BY <1>1, <1>2, <3>1 DEF PassedBefore
    <2>6. SectionAt(at)'
      <3>1. 1..(1 - 1) = {}
        OBVIOUS
      <3>2. Headers(at)' = {}
        BY <1>1, <1>2, <3>1 DEF Headers
      <3>3. QED
        BY <1>1, <1>2, <3>2 DEF SectionAt
    <2>7. Scanned(at)'
      <3>1. 1 \in 1..(Len(t.lines) + 1)
        BY <2>2
      <3>2. at' \in 1..(Len(text'.lines) + 1)
        BY <1>1, <1>2, <3>1
      <3>3. QED
        BY <2>4, <2>5, <2>6, <3>2 DEF Scanned
    <2>8. TemplateIsInjected' /\ ManagedLineLeads'
      BY <2>1 DEF TemplateIsInjected, ManagedLineLeads
    <2>9. QED
      BY <1>1, <1>2, <1>3, <2>1, <2>7, <2>8 DEF TemplateInv
  <1>6. QED
    BY <1>4, <1>5

-----------------------------------------------------------------------------
(* The blocks are put in. *)

\* What stays of the places in the output.
LEMMA PlacesStay ==
  ASSUME UNCHANGED <<text, target, blocks, pos>>
  PROVE  /\ \A i : Shift(i)' = Shift(i)
         /\ Injected' = Injected /\ (Marked' <=> Marked)
  <1>1. AnchorLines' = AnchorLines
    BY TemplateStays
  <1>2. \A i : MovedBy(i)' = MovedBy(i)
    BY DEF MovedBy
  <1>3. \A i : Shift(i)' = Shift(i)
    BY <1>1, <1>2 DEF Shift
  <1>4. \A i : Becomes(i)' = Becomes(i)
    BY DEF Becomes, IndentBlock, Indented, Blank, Line, Anchors
  <1>5. Injected' = Injected
    BY <1>4 DEF Injected, TrimFinal, EndsWithNewline, NewlineOf, Blank, Line
  <1>6. Marked' <=> Marked
    BY <1>1 DEF Marked, Anchors
  <1>7. QED
    BY <1>3, <1>5, <1>6

\* The blocks are put into the template.
LEMMA InjectStep ==
  ASSUME TextIsGiven, step = "inject", Legal, Marked, page = NoPage, refusal = NoRefusal, Inject
  PROVE  TemplateInv'
  <1>1. UNCHANGED <<text, target, blocks, pos, refusal>> /\ page' = Injected
    BY DEF Inject, Turn
  <1>2. step' = IF target = "surge" THEN "managed" ELSE "done"
    BY DEF Inject, Turn
  <1>3. Legal' /\ TextIsGiven' /\ NoPage' = NoPage /\ NoRefusal' = NoRefusal /\ AnchorLines' = AnchorLines
    BY <1>1, TemplateStays DEF NoPage, NoRefusal
  <1>4. Marked' /\ page' = Injected' /\ \A i : Shift(i)' = Shift(i)
    BY <1>1, PlacesStay
  <1>5. PICK out : out = Injected.lines
    OBVIOUS
  <1>6. /\ Layout(out) /\ Len(out) >= 2
        /\ Len(out) \in {Len(text.lines) + Shift(Len(text.lines) + 1)} \cup
             (IF Last(text.lines).kind = "anchor" THEN {Len(text.lines) + Shift(Len(text.lines) + 1) - 1} ELSE {})
        /\ (text.newline # "mostly_lf" => Injected.newline = Majority)
    BY <1>5, InjectedLayout
  <1>7. page'.lines = out /\ (text'.newline # "mostly_lf" => page'.newline = Majority')
    BY <1>1, <1>5, <1>6 DEF Majority
  <1>8. page' # NoPage
    <2>1. out # <<>>
      BY <1>6
    <2>2. QED
      BY <1>7, <2>1 DEF NoPage
  <1>9. DOMAIN text.lines = 1..Len(text.lines)
    BY ListDomain DEF TextIsGiven, IsTemplate
  <1>10. \A i \in DOMAIN text.lines \ AnchorLines : out[i + Shift(i)] = text.lines[i]
    BY <1>6, <1>9, SMTT(30) DEF Layout
  <1>11. \A i \in AnchorLines : \A k \in DOMAIN blocks[text.lines[i].tag] :
           out[i + Shift(i) + k - 1] = [blocks[text.lines[i].tag][k] EXCEPT !.indent = @ \/ text.lines[i].indent]
    BY <1>6 DEF Layout, Put
  <1>12. \A i \in DOMAIN text'.lines \ AnchorLines' : page'.lines[i + Shift(i)'] = text'.lines[i]
    BY <1>1, <1>3, <1>4, <1>7, <1>10
  <1>13. \A i \in AnchorLines' : \A k \in DOMAIN blocks'[text'.lines[i].tag] :
           page'.lines[i + Shift(i)' + k - 1] = [blocks'[text'.lines[i].tag][k] EXCEPT !.indent = @ \/ text'.lines[i].indent]
    BY <1>1, <1>3, <1>4, <1>7, <1>11
  <1>14. \E m : m = Len(text.lines) + 1
    OBVIOUS
  <1>15. (Len(page.lines) \in {Len(text.lines) + Shift(Len(text.lines) + 1)} \cup
            (IF Last(text.lines).kind = "anchor" THEN {Len(text.lines) + Shift(Len(text.lines) + 1) - 1} ELSE {}))'
    <2>1. PICK m : m = Len(text.lines) + 1
      BY <1>14
    <2>2. Len(text'.lines) + 1 = m /\ Shift(m)' = Shift(m)
      BY <1>1, <1>4, <2>1
    <2>3. Shift(Len(text.lines) + 1)' = Shift(m)'
      BY <2>2 DEF Shift
    <2>4. QED
      BY <1>1, <1>6, <1>7, <2>1, <2>2, <2>3
  <1>16. TemplateIsInjected'
    BY <1>1, <1>2, <1>3, <1>7, <1>8, <1>12, <1>13, <1>15 DEF TemplateIsInjected
  <1>17. ManagedLineLeads'
    BY <1>1, <1>2 DEF ManagedLineLeads
  <1>18. QED
    BY <1>1, <1>2, <1>3, <1>4, <1>16, <1>17 DEF TemplateInv

-----------------------------------------------------------------------------
(* The managed line. *)

\* The first line that is not blank, which alone may be the managed line.
LEMMA FirstNonBlankIs ==
  ASSUME NEW S, NEW s \in Seq(S), NEW f \in 1..Len(s), s[f].kind # "blank", Leads(s, f)
  PROVE  FirstNonBlank(s) = f
  <1> DEFINE I == {i \in 1..Len(s) : s[i].kind # "blank"}
  <1>1. FirstNonBlank(s) = IF I # {} THEN Min(I) ELSE 0
    BY DEF FirstNonBlank, SelectInSeq
  <1>2. f \in I /\ I \subseteq Nat
    OBVIOUS
  <1>3. \A i \in I : ~(i \in 1..(f - 1))
    BY DEF Leads
  <1>4. \A i \in I : f <= i
    BY <1>3
  <1> HIDE DEF I
  <1>5. Min(I) \in I /\ \A i \in I : Min(I) <= i
    BY <1>2, MinIsLeast
  <1>6. Min(I) \in Nat /\ f \in Nat /\ Min(I) <= f /\ f <= Min(I)
    BY <1>2, <1>4, <1>5
  <1>7. QED
    BY <1>1, <1>2, <1>6

\* Writing the line again changes nothing.
LEMMA ManagedAgain ==
  ASSUME NEW S, NEW s \in Seq(S), NEW f \in 1..Len(s), ManagedIn(s) = {f}, Leads(s, f),
         [s[f] EXCEPT !.url = "mine"] = s[f]
  PROVE  WithManaged(s) = s
  <1>1. s[f].kind = "managed"
    BY DEF ManagedIn
  <1>2. FirstNonBlank(s) = f
    BY <1>1, FirstNonBlankIs
  <1>3. ManagedLines(s) # {}
    BY <1>1 DEF ManagedLines, IsManaged
  <1>4. WithManaged(s) = [s EXCEPT ![f].url = "mine"]
    BY <1>2, <1>3 DEF WithManaged
  <1>5. [s EXCEPT ![f].url = "mine"] = [s EXCEPT ![f] = [s[f] EXCEPT !.url = "mine"]]
    OBVIOUS
  <1>6. [s EXCEPT ![f] = s[f]] = s
    OBVIOUS
  <1>7. QED
    BY <1>4, <1>5, <1>6

\* What a line is, and with the URL of this request.
LEMMA UrlLine ==
  ASSUME NEW x \in Shown
  PROVE  LET y == [x EXCEPT !.url = "mine"] IN
         y.kind = x.kind /\ y.tag = x.tag /\ y.url = "mine" /\ [y EXCEPT !.url = "mine"] = y
  <1>1. CASE x \in Lines
    BY <1>1 DEF Lines
  <1>2. CASE x = Blank
    BY <1>2 DEF Blank, Line
  <1>3. QED
    BY <1>1, <1>2 DEF Shown

\* The managed line of an output that has none.
LEMMA DefaultLine ==
  LET y == Managed("mine", "interval=86400") IN
  y.kind = "managed" /\ y.tag = "interval=86400" /\ y.url = "mine" /\ [y EXCEPT !.url = "mine"] = y
  BY DEF Managed, Line

\* An output without a managed line that is not the first gets one that is.
LEMMA ManagedWritten ==
  ASSUME NEW s \in Seq(Shown), Len(s) >= 2, \A i \in ManagedIn(s) : Leads(s, i),
         NEW out, out = TrimFinal(WithManaged(s), EndsWithNewline(s))
  PROVE  \E f \in ManagedIn(out) :
           /\ ManagedIn(out) = {f} /\ Leads(out, f) /\ out[f].url = "mine" /\ WithManaged(out) = out /\ Len(out) >= 2
           /\ IF ManagedIn(s) = {} THEN out[f].tag = "interval=86400"
              ELSE f \in ManagedIn(s) /\ out[f].tag = s[f].tag
  <1>1. Len(s) \in Nat /\ DOMAIN s = 1..Len(s)
    OBVIOUS
  <1>2. ManagedLines(s) = ManagedIn(s)
    BY DEF ManagedLines, IsManaged, ManagedIn
  <1>3. CASE ManagedIn(s) = {}
    <2> DEFINE y == Managed("mine", "interval=86400")  S == Shown \cup {y}  r == <<y>> \o s
    <2>1. WithManaged(s) = r
      BY <1>2, <1>3 DEF WithManaged
    <2>2. y.kind = "managed" /\ y.tag = "interval=86400" /\ y.url = "mine" /\ [y EXCEPT !.url = "mine"] = y
      BY DefaultLine
    <2> HIDE DEF y
    <2>3. y \in S /\ s \in Seq(S)
      OBVIOUS
    <2> HIDE DEF S
    <2>4. /\ r \in Seq(S) /\ Len(r) = 1 + Len(s) /\ r[1] = y
          /\ \A i \in 1..Len(s) : r[1 + i] = s[i]
      BY <2>3, OneBefore
    <2> HIDE DEF r
    <2>5. EndsWithNewline(r) => EndsWithNewline(s)
      <3>1. r[Len(r)] = s[Len(s)] /\ Len(s) > 1
        BY <1>1, <2>4
      <3>2. QED
        BY <3>1 DEF EndsWithNewline, Last
    <2>6. out = r
      BY <2>1, <2>5 DEF TrimFinal
    <2>7. ASSUME NEW i \in DOMAIN out, out[i].kind = "managed" PROVE i = 1
      <3>1. CASE i # 1
        <4>1. i - 1 \in 1..Len(s) /\ 1 + (i - 1) = i
          BY <1>1, <2>4, <2>6, <3>1
        <4>2. out[i] = s[i - 1]
          BY <2>4, <2>6, <4>1
        <4>3. i - 1 \in ManagedIn(s)
          BY <1>1, <2>7, <4>1, <4>2 DEF ManagedIn
        <4>4. QED
          BY <1>3, <4>3
      <3>2. QED
        BY <3>1
    <2>8. 1 \in DOMAIN out /\ 1 \in 1..Len(out) /\ Len(out) >= 2 /\ out[1] = y
      BY <1>1, <2>4, <2>6
    <2>9. ManagedIn(out) = {1}
      BY <2>2, <2>7, <2>8 DEF ManagedIn
    <2>10. Leads(out, 1)
      BY DEF Leads
    <2>11. WithManaged(out) = out
      BY <2>2, <2>4, <2>6, <2>8, <2>9, <2>10, ManagedAgain
    <2>12. QED
      BY <1>3, <2>2, <2>8, <2>9, <2>10, <2>11
  <1>4. CASE ManagedIn(s) # {}
    <2>1. PICK f \in ManagedIn(s) : Leads(s, f)
      BY <1>4
    <2>2. f \in 1..Len(s) /\ s[f].kind = "managed" /\ s[f] \in Shown /\ s[f].kind # "blank"
      BY <1>1, <2>1 DEF ManagedIn
    <2>3. FirstNonBlank(s) = f
      BY <2>1, <2>2, FirstNonBlankIs
    <2> DEFINE y == [s[f] EXCEPT !.url = "mine"]  S == Shown \cup {y}  r == [s EXCEPT ![f] = y]
    <2>4. WithManaged(s) = r
      BY <1>2, <1>4, <2>3 DEF WithManaged
    <2>5. y.kind = "managed" /\ y.tag = s[f].tag /\ y.url = "mine" /\ [y EXCEPT !.url = "mine"] = y
      BY <2>2, UrlLine
    <2> HIDE DEF y
    <2>6. r \in Seq(S) /\ Len(r) = Len(s) /\ r[f] = y /\ \A i \in 1..Len(s) : i # f => r[i] = s[i]
      BY <2>2
    <2> HIDE DEF r, S
    <2>7. EndsWithNewline(r) => EndsWithNewline(s)
      <3>1. Len(s) \in 1..Len(s)
        BY <1>1
      <3>2. CASE f = Len(s)
        <4>1. r[Len(r)].kind = "managed"
          BY <2>5, <2>6, <3>2
        <4>2. r[Len(r)] # Blank
          BY <4>1, BlankLine
        <4>3. QED
          BY <4>2 DEF EndsWithNewline, Last
      <3>3. CASE f # Len(s)
        <4>1. r[Len(r)] = s[Len(s)]
          BY <2>6, <3>1, <3>3
        <4>2. QED
          BY <2>6, <4>1 DEF EndsWithNewline, Last
      <3>4. QED
        BY <3>2, <3>3
    <2>8. out = r
      BY <2>4, <2>7 DEF TrimFinal
    <2>9. DOMAIN out = 1..Len(s) /\ Len(out) = Len(s)
      BY <2>6, <2>8
    <2>10. ASSUME NEW i \in ManagedIn(s) PROVE i = f
      <3>1. i \in 1..Len(s) /\ s[i].kind # "blank" /\ Leads(s, i)
        BY <1>1 DEF ManagedIn
      <3>2. FirstNonBlank(s) = i
        BY <3>1, FirstNonBlankIs
      <3>3. QED
        BY <2>3, <3>2
    <2>11. ASSUME NEW i \in DOMAIN out, out[i].kind = "managed" PROVE i = f
      <3>1. CASE i # f
        <4>1. out[i] = s[i]
          BY <2>6, <2>8, <2>9, <3>1
        <4>2. i \in ManagedIn(s)
          BY <1>1, <2>9, <2>11, <4>1 DEF ManagedIn
        <4>3. QED
          BY <2>10, <4>2
      <3>2. QED
        BY <3>1
    <2>12. out[f] = y /\ f \in DOMAIN out /\ f \in 1..Len(out)
      BY <2>2, <2>6, <2>8, <2>9
    <2>13. ManagedIn(out) = {f}
      BY <2>5, <2>11, <2>12 DEF ManagedIn
    <2>14. Leads(out, f)
      <3>1. \A j \in 1..(f - 1) : j \in 1..Len(s) /\ j # f
        BY <1>1, <2>2
      <3>2. QED
        BY <2>1, <2>6, <2>8, <3>1 DEF Leads
    <2>15. WithManaged(out) = out
      BY <2>5, <2>6, <2>8, <2>12, <2>13, <2>14, ManagedAgain
    <2>16. QED
      BY <1>4, <2>1, <2>5, <2>9, <2>12, <2>13, <2>14, <2>15
  <1>5. QED
    BY <1>3, <1>4

\* For Surge, an anchor is behind a header, so no block is on top of the output.
LEMMA HeaderBefore ==
  ASSUME TextIsGiven, Legal, target = "surge", NEW i \in AnchorLines
  PROVE  \E h \in 1..Len(text.lines) : h < i /\ h \notin AnchorLines /\ text.lines[h].kind = "header"
  <1>1. i \in 1..Len(text.lines) /\ i \in Nat /\ Len(text.lines) \in Nat
    BY AnchorLinesAre, ListDomain DEF TextIsGiven, IsTemplate
  <1>2. WellPlaced(i)
    BY DEF Legal
  <1>3. PICK h \in Headers(i) : TRUE
    BY <1>2 DEF WellPlaced, InSection
  <1>4. h \in 1..(i - 1) /\ text.lines[h].kind = "header"
    BY <1>3 DEF Headers
  <1>5. h \in 1..Len(text.lines) /\ h < i
    BY <1>1, <1>4
  <1>6. QED
    BY <1>4, <1>5, AnchorLinesAre

\* Where the lines of the output come from: the template or a block.
LEMMA ManagedOrigin ==
  ASSUME TextIsGiven, Marked, Legal, NEW out, out = Injected.lines, NEW p \in 1..Len(out)
  PROVE  \E i \in 1..Len(text.lines) :
           IF i \notin AnchorLines THEN p = i + Shift(i) /\ out[p] = text.lines[i]
           ELSE /\ i + Shift(i) <= p
                /\ out[p].kind = "managed" => \E a \in Anchors : ManagedIn(blocks[a]) # {}
  <1>1. Layout(out)
    BY InjectedLayout
  <1>2. PICK i \in 1..Len(text.lines) :
          IF i \notin AnchorLines THEN p = i + Shift(i)
          ELSE /\ i + Shift(i) <= p
               /\ \/ out[p].kind = "blank"
                  \/ \E k \in DOMAIN blocks[text.lines[i].tag] : out[p].kind = blocks[text.lines[i].tag][k].kind
    BY <1>1 DEF Layout
  <1>3. CASE i \notin AnchorLines
    BY <1>1, <1>2, <1>3 DEF Layout
  <1>4. CASE i \in AnchorLines
    <2>1. text.lines[i].tag \in Anchors
      BY <1>4, AnchorLinesAre DEF TextIsGiven, IsTemplate
    <2>2. ASSUME out[p].kind = "managed" PROVE ManagedIn(blocks[text.lines[i].tag]) # {}
      BY <1>2, <1>4, <2>2 DEF ManagedIn
    <2>3. QED
      BY <1>2, <1>4, <2>1, <2>2
  <1>5. QED
    BY <1>3, <1>4

\* An output is a list of lines.
LEMMA OutputIsList ==
  ASSUME TextIsGiven, Marked, Legal, NEW out, out = Injected.lines
  PROVE  Layout(out) /\ out \in Seq(Shown) /\ DOMAIN out = 1..Len(out) /\ Len(out) \in Nat
  <1>1. Layout(out)
    BY InjectedLayout
  <1>2. out \in Seq(Shown)
    BY <1>1 DEF Layout
  <1>3. QED
    BY <1>1, <1>2

\* A managed line of the template is in the output.
LEMMA ManagedStays ==
  ASSUME TextIsGiven, Marked, Legal, NEW out, out = Injected.lines, NEW i \in ManagedIn(text.lines)
  PROVE  /\ i \in 1..Len(text.lines) /\ i \notin AnchorLines
         /\ i + Shift(i) \in ManagedIn(out) /\ out[i + Shift(i)] = text.lines[i]
  <1>1. i \in DOMAIN text.lines /\ i \in 1..Len(text.lines) /\ text.lines[i].kind = "managed"
    BY ListDomain DEF ManagedIn, TextIsGiven, IsTemplate
  <1>2. i \notin AnchorLines
    BY <1>1, AnchorLinesAre
  <1>3. Layout(out)
    BY InjectedLayout
  <1>4. i + Shift(i) \in 1..Len(out) /\ out[i + Shift(i)] = text.lines[i]
    BY <1>1, <1>2, <1>3 DEF Layout
  <1>5. DOMAIN out = 1..Len(out)
    BY <1>3 DEF Layout
  <1>6. QED
    BY <1>1, <1>2, <1>4, <1>5 DEF ManagedIn

\* The order of the template is that of the output.
LEMMA OrderOfPlaces ==
  ASSUME TextIsGiven, NEW i \in 1..Len(text.lines), NEW j \in 1..Len(text.lines)
  PROVE  /\ i + Shift(i) < j + Shift(j) => i < j
         /\ i + Shift(i) = j + Shift(j) => i = j
  <1>1. i \in Nat /\ j \in Nat
    OBVIOUS
  <1>2. i + Shift(i) \in Nat /\ j + Shift(j) \in Nat
    <2>1. i \in 1..(Len(text.lines) + 1) /\ j \in 1..(Len(text.lines) + 1)
      BY ListDomain DEF TextIsGiven, IsTemplate
    <2>2. Shift(i) \in Nat /\ Shift(j) \in Nat
      BY <2>1, ShiftGrows
    <2>3. QED
      BY <1>1, <2>2
  <1>3. i < j => i + Shift(i) < j + Shift(j)
    BY PlacesGrow
  <1>4. j < i => j + Shift(j) < i + Shift(i)
    BY PlacesGrow
  <1>5. QED
    BY <1>1, <1>2, <1>3, <1>4

\* What is on top of the output was on top of the template.
LEMMA TopIsText ==
  ASSUME TextIsGiven, Marked, Legal, target = "surge", NEW out, out = Injected.lines,
         NEW p \in ManagedIn(out), Leads(out, p)
  PROVE  \E i \in ManagedIn(text.lines) : p = i + Shift(i) /\ out[p] = text.lines[i]
  <1>1. Layout(out) /\ DOMAIN out = 1..Len(out) /\ Len(out) \in Nat
    BY OutputIsList
  <1>2. p \in 1..Len(out) /\ out[p].kind = "managed" /\ p \in Nat
    BY <1>1 DEF ManagedIn
  <1>3. PICK i \in 1..Len(text.lines) :
          IF i \notin AnchorLines THEN p = i + Shift(i) /\ out[p] = text.lines[i] ELSE i + Shift(i) <= p
    BY <1>2, ManagedOrigin
  <1>4. i \notin AnchorLines
    <2> SUFFICES ASSUME i \in AnchorLines PROVE FALSE
      OBVIOUS
    <2>1. PICK h \in 1..Len(text.lines) : h < i /\ h \notin AnchorLines /\ text.lines[h].kind = "header"
      BY HeaderBefore
    <2>2. h + Shift(h) \in 1..Len(out) /\ out[h + Shift(h)].kind = "header"
      BY <1>1, <2>1 DEF Layout
    <2>3. h + Shift(h) < i + Shift(i)
      BY <2>1, PlacesGrow
    <2>4. i + Shift(i) \in Nat
      <3>1. i \in 1..(Len(text.lines) + 1) /\ i \in Nat
        BY ListDomain DEF TextIsGiven, IsTemplate
      <3>2. Shift(i) \in Nat
        BY <3>1, ShiftGrows
      <3>3. QED
        BY <3>1, <3>2
    <2>5. h + Shift(h) \in 1..(p - 1)
      BY <1>2, <1>3, <2>2, <2>3, <2>4
    <2>6. out[h + Shift(h)].kind = "blank"
      BY <2>5 DEF Leads
    <2>7. QED
      BY <2>2, <2>6
  <1>5. i \in ManagedIn(text.lines)
    BY <1>2, <1>3, <1>4, ListDomain DEF ManagedIn, TextIsGiven, IsTemplate
  <1>6. QED
    BY <1>3, <1>4, <1>5

\* If only the template has managed lines and they are on top of it, so they are
\* on top of the output.
LEMMA TopStaysTop ==
  ASSUME TextIsGiven, Marked, Legal, NEW out, out = Injected.lines,
         NEW i \in ManagedIn(text.lines), Leads(text.lines, i)
  PROVE  Leads(out, i + Shift(i))
  <1>1. /\ i \in 1..Len(text.lines) /\ i + Shift(i) \in ManagedIn(out)
        /\ Layout(out) /\ DOMAIN out = 1..Len(out) /\ Len(out) \in Nat
    BY ManagedStays, OutputIsList
  <1>2. PICK p \in 1..Len(out) : p = i + Shift(i)
    BY <1>1 DEF ManagedIn
  <1>3. ASSUME NEW q \in 1..(p - 1) PROVE out[q].kind = "blank"
    <2>1. q \in 1..Len(out) /\ q < i + Shift(i) /\ q \in Nat
      <3>1. q \in 1..Len(out) /\ q < p /\ q \in Nat
        BY <1>1
      <3>2. QED
        BY <1>2, <3>1
    <2>2. PICK j \in 1..Len(text.lines) :
            IF j \notin AnchorLines THEN q = j + Shift(j) /\ out[q] = text.lines[j] ELSE j + Shift(j) <= q
      BY <2>1, ManagedOrigin
    <2>3. j + Shift(j) < i + Shift(i)
      <3>1. j \in 1..(Len(text.lines) + 1) /\ j \in Nat
        BY ListDomain DEF TextIsGiven, IsTemplate
      <3>2. j + Shift(j) \in Nat
        BY <3>1, ShiftGrows
      <3>3. j + Shift(j) <= q
        BY <2>1, <2>2, <3>2
      <3>4. QED
        BY <1>2, <2>1, <3>2, <3>3
    <2>4. j < i
      BY <1>1, <2>3, OrderOfPlaces
    <2>5. text.lines[j].kind = "blank"
      BY <1>1, <2>4 DEF Leads
    <2>6. j \notin AnchorLines
      BY <2>5, AnchorLinesAre
    <2>7. QED
      BY <2>2, <2>5, <2>6
  <1>4. QED
    BY <1>2, <1>3 DEF Leads

\* An output is ambiguous only if the template or a block is.
LEMMA AmbiguousComes ==
  ASSUME TextIsGiven, Marked, Legal, NEW out, out = Injected.lines, Ambiguous(out)
  PROVE  \/ \E a \in Anchors : ManagedIn(blocks[a]) # {}
         \/ \E i \in ManagedIn(text.lines) : ~Leads(text.lines, i) \/ text.lines[i].url = "missing"
  <1> SUFFICES ASSUME \A a \in Anchors : ManagedIn(blocks[a]) = {},
                      \A i \in ManagedIn(text.lines) : Leads(text.lines, i) /\ text.lines[i].url # "missing"
               PROVE  FALSE
    OBVIOUS
  <1>1. out \in Seq(Shown) /\ DOMAIN out = 1..Len(out) /\ ManagedLines(out) = ManagedIn(out)
    BY OutputIsList DEF ManagedLines, IsManaged, ManagedIn
  <1>2. ASSUME NEW p \in ManagedIn(out) PROVE p = FirstNonBlank(out) /\ out[p].url # "missing"
    <2>1. p \in 1..Len(out) /\ out[p].kind = "managed" /\ out[p].kind # "blank"
      BY <1>1 DEF ManagedIn
    <2>2. PICK i \in 1..Len(text.lines) :
            IF i \notin AnchorLines THEN p = i + Shift(i) /\ out[p] = text.lines[i]
            ELSE /\ i + Shift(i) <= p
                 /\ out[p].kind = "managed" => \E a \in Anchors : ManagedIn(blocks[a]) # {}
      BY <2>1, ManagedOrigin
    <2>3. i \notin AnchorLines
      BY <2>1, <2>2
    <2>4. i \in ManagedIn(text.lines)
      BY <2>1, <2>2, <2>3, ListDomain DEF ManagedIn, TextIsGiven, IsTemplate
    <2>5. Leads(out, i + Shift(i))
      BY <2>4, TopStaysTop
    <2>6. QED
      BY <1>1, <2>1, <2>2, <2>3, <2>4, <2>5, FirstNonBlankIs
  <1>3. Cardinality(ManagedLines(out)) > 1
    BY <1>1, <1>2 DEF Ambiguous
  <1>4. IsFiniteSet({FirstNonBlank(out)}) /\ Cardinality({FirstNonBlank(out)}) = 1
    BY FS_Singleton
  <1>5. ManagedLines(out) \subseteq {FirstNonBlank(out)}
    BY <1>1, <1>2
  <1> DEFINE M == ManagedLines(out)
  <1> HIDE DEF M
  <1>6. IsFiniteSet(M) /\ Cardinality(M) <= 1
    BY <1>4, <1>5, FS_Subset DEF M
  <1>7. Cardinality(M) \in Nat
    BY <1>6, FS_CardinalityType
  <1>8. QED
    BY <1>3, <1>6, <1>7 DEF M

\* A managed line of an output that is not ambiguous leads it.
LEMMA LeadsUnlessAmbiguous ==
  ASSUME NEW s \in Seq(Shown), ~Ambiguous(s), NEW p \in ManagedIn(s)
  PROVE  Leads(s, p)
  <1> DEFINE I == {i \in 1..Len(s) : s[i].kind # "blank"}
  <1>1. p = FirstNonBlank(s) /\ p \in 1..Len(s) /\ s[p].kind # "blank"
    BY DEF Ambiguous, ManagedLines, IsManaged, ManagedIn
  <1>2. FirstNonBlank(s) = IF I # {} THEN Min(I) ELSE 0
    BY DEF FirstNonBlank, SelectInSeq
  <1>3. p \in I /\ I \subseteq Nat
    BY <1>1
  <1>4. p = Min(I)
    BY <1>1, <1>2, <1>3
  <1> HIDE DEF I
  <1>5. \A i \in I : p <= i
    BY <1>3, <1>4, MinIsLeast
  <1>6. ASSUME NEW j \in 1..(p - 1) PROVE s[j].kind = "blank"
    <2>1. j \in 1..Len(s) /\ ~(p <= j)
      BY <1>1
    <2>2. QED
      BY <1>5, <2>1 DEF I
  <1>7. QED
    BY <1>6 DEF Leads

\* The managed line is written, or the output refused.
LEMMA ManagedStep ==
  ASSUME TextIsGiven, step = "managed", Legal, Marked, refusal = NoRefusal, target = "surge", page = Injected,
         EnsureManaged
  PROVE  TemplateInv'
  <1>1. UNCHANGED <<text, target, blocks, at, section, count, pos>> /\ step' = "done"
    BY DEF EnsureManaged, Refuse, Turn
  <1>2. Legal' /\ TextIsGiven' /\ NoPage' = NoPage /\ NoRefusal' = NoRefusal
    BY <1>1, TemplateStays DEF NoPage, NoRefusal
  <1>3. PICK s : s = Injected.lines
    OBVIOUS
  <1>4. s \in Seq(Shown) /\ Len(s) >= 2 /\ page.lines = s
    BY <1>3, OutputIsList, InjectedLayout
  <1>5. CASE Ambiguous(s)
    <2>1. refusal' = "TEMPLATE_SECTION_ERROR" /\ page' = page
      BY <1>4, <1>5 DEF EnsureManaged, Refuse
    <2>2. page' # NoPage /\ refusal' # NoRefusal
      <3>1. page'.lines # <<>>
        BY <1>4, <2>1
      <3>2. QED
        BY <2>1, <3>1 DEF NoPage, NoRefusal
    <2>3. \/ \E a \in Anchors : ManagedIn(blocks[a]) # {}
          \/ \E i \in ManagedIn(text.lines) : ~Leads(text.lines, i) \/ text.lines[i].url = "missing"
      BY <1>3, <1>5, AmbiguousComes
    <2>4. TemplateIsInjected'
      BY <1>1, <1>2, <2>2 DEF TemplateIsInjected
    <2>5. ManagedLineLeads'
      <3>1. \A a : ManagedIn(blocks[a])' = ManagedIn(blocks[a])
        BY <1>1 DEF ManagedIn
      <3>2. ManagedIn(text.lines)' = ManagedIn(text.lines) /\ \A i : Leads(text.lines, i)' <=> Leads(text.lines, i)
        BY <1>1 DEF ManagedIn, Leads
      <3>3. (\/ \E a \in Anchors : ManagedIn(blocks[a]) # {}
             \/ \E i \in ManagedIn(text.lines) : ~Leads(text.lines, i) \/ text.lines[i].url = "missing")'
        BY <1>1, <2>3, <3>1, <3>2 DEF Anchors
      <3>4. QED
        BY <1>2, <2>2, <3>3 DEF ManagedLineLeads
    <2>6. QED
      BY <1>1, <1>2, <2>4, <2>5 DEF TemplateInv
  <1>6. CASE ~Ambiguous(s)
    <2>1. /\ refusal' = NoRefusal /\ page' = [page EXCEPT !.lines = TrimFinal(WithManaged(@), EndsWithNewline(@))]
      BY <1>4, <1>6 DEF EnsureManaged, Turn
    <2>2. PICK out : out = TrimFinal(WithManaged(s), EndsWithNewline(s))
      OBVIOUS
    <2>3. page'.lines = out
      <3>1. page = [lines |-> page.lines, newline |-> page.newline]
        BY DEF Injected
      <3>2. QED
        BY <1>4, <2>1, <2>2, <3>1
    <2>4. \A p \in ManagedIn(s) : Leads(s, p)
      BY <1>4, <1>6, LeadsUnlessAmbiguous
    <2>5. PICK f \in ManagedIn(out) :
            /\ ManagedIn(out) = {f} /\ Leads(out, f) /\ out[f].url = "mine" /\ WithManaged(out) = out /\ Len(out) >= 2
            /\ IF ManagedIn(s) = {} THEN out[f].tag = "interval=86400"
               ELSE f \in ManagedIn(s) /\ out[f].tag = s[f].tag
      BY <1>4, <2>2, <2>4, ManagedWritten
    <2>6. out[f].tag = IF ManagedIn(text.lines) = {} THEN "interval=86400"
                       ELSE text.lines[CHOOSE j \in ManagedIn(text.lines) : TRUE].tag
      <3>1. CASE ManagedIn(s) = {}
        <4>1. ManagedIn(text.lines) = {}
          BY <1>3, <3>1, ManagedStays
        <4>2. QED
          BY <2>5, <3>1, <4>1
      <3>2. CASE ManagedIn(s) # {}
        <4>1. f \in ManagedIn(s) /\ out[f].tag = s[f].tag /\ Leads(s, f)
          BY <2>4, <2>5, <3>2
        <4>2. PICK i \in ManagedIn(text.lines) : f = i + Shift(i) /\ s[f] = text.lines[i]
          BY <1>3, <4>1, TopIsText
        <4>3. ASSUME NEW j \in ManagedIn(text.lines) PROVE j = i
          <5>1. j + Shift(j) \in ManagedIn(s) /\ j \in 1..Len(text.lines) /\ i \in 1..Len(text.lines)
            BY <1>3, ManagedStays
          <5>2. j + Shift(j) = FirstNonBlank(s) /\ f = FirstNonBlank(s)
            BY <1>6, <4>1, <5>1 DEF Ambiguous, ManagedLines, IsManaged, ManagedIn
          <5>3. QED
            BY <4>2, <5>1, <5>2, OrderOfPlaces
        <4>4. ManagedIn(text.lines) # {} /\ (CHOOSE j \in ManagedIn(text.lines) : TRUE) = i
          BY <4>3
        <4>5. QED
          BY <4>1, <4>2, <4>4
      <3>3. QED
        BY <3>1, <3>2
    <2>7. page' # NoPage
      <3>1. page'.lines # <<>>
        BY <2>3, <2>5
      <3>2. QED
        BY <3>1 DEF NoPage
    <2>8. TemplateIsInjected'
      BY <1>1, <1>2, <2>7 DEF TemplateIsInjected
    <2>9. ManagedLineLeads'
      <3>1. /\ f \in ManagedIn(page.lines)' /\ ManagedIn(page.lines)' = {f} /\ Leads(page.lines, f)'
            /\ page'.lines[f].url = "mine" /\ WithManaged(page.lines)' = page'.lines
        <4>1. ManagedIn(page.lines)' = ManagedIn(out)
          BY <2>3 DEF ManagedIn
        <4>2. Leads(page.lines, f)' <=> Leads(out, f)
          BY <2>3 DEF Leads
        <4>3. WithManaged(page.lines)' = WithManaged(out)
          BY <2>3
        <4>4. QED
          BY <2>3, <2>5, <4>1, <4>2, <4>3
      <3>2. ManagedIn(text.lines)' = ManagedIn(text.lines)
        BY <1>1 DEF ManagedIn
      <3>3. page'.lines[f].tag = IF ManagedIn(text.lines)' = {} THEN "interval=86400"
                                 ELSE text'.lines[CHOOSE j \in ManagedIn(text.lines)' : TRUE].tag
        BY <1>1, <2>3, <2>6, <3>2
      <3>4. QED
        BY <1>2, <2>1, <3>1, <3>3 DEF ManagedLineLeads
    <2>10. QED
      BY <1>1, <1>2, <2>8, <2>9 DEF TemplateInv
  <1>7. QED
    BY <1>5, <1>6

-----------------------------------------------------------------------------
(* What follows. *)

\* A step of another part changes nothing.
LEMMA TemplateFrame ==
  ASSUME TemplateInv, UNCHANGED templateVars
  PROVE  TemplateInv'
  <1>1. UNCHANGED <<text, target, blocks, step, at, section, count, pos, page, refusal>>
    BY DEF templateVars
  <1>2. /\ TextIsGiven' <=> TextIsGiven
        /\ \A a : Places(a)' = Places(a)
        /\ AnchorLines' = AnchorLines /\ Needed' = Needed
        /\ \A i : WellPlaced(i)' <=> WellPlaced(i)
        /\ Legal' <=> Legal
    BY <1>1, TemplateStays
  <1>3. /\ \A i : Shift(i)' = Shift(i)
        /\ Injected' = Injected /\ (Marked' <=> Marked)
    BY <1>1, PlacesStay
  <1>4. NoPage' = NoPage /\ NoRefusal' = NoRefusal /\ Anchors' = Anchors
    BY DEF NoPage, NoRefusal, Anchors
  <1>5. Scanned(at)' <=> Scanned(at)
    BY <1>1, ScannedStays
  <1>6. TemplateIsInjected' <=> TemplateIsInjected
    BY <1>1, <1>2, <1>3, <1>4 DEF TemplateIsInjected, Majority
  <1>7. ManagedLineLeads' <=> ManagedLineLeads
    BY <1>1, <1>2, <1>4 DEF ManagedLineLeads
  <1>8. QED
    BY <1>1, <1>2, <1>3, <1>4, <1>5, <1>6, <1>7 DEF TemplateInv

\* No template is open at first.
LEMMA InitTemplate == Init => TemplateInv
  BY DEF Init, TemplateInit, TemplateInv, TemplateIsInjected, ManagedLineLeads

\* Every step of a resource keeps the invariant.
LEMMA NextTemplate == CallInv /\ TemplateInv /\ [Next]_vars => TemplateInv'
  <1> SUFFICES ASSUME CallInv, TemplateInv, [Next]_vars PROVE TemplateInv'
    OBVIOUS
  <1>1. CASE UNCHANGED templateVars
    BY <1>1, TemplateFrame
  <1>2. CASE UseTemplate
    <2>1. world.kind = "template" /\ Open(world.text, world.target, world.blocks) /\ world \in Worlds
      BY <1>2 DEF UseTemplate, CallInv
    <2>2. IsTemplate(world.text) /\ world.target \in Targets /\ AreBlocks(world.blocks)
      BY <2>1, TemplatesAreText DEF Targets
    <2>3. QED
      BY <2>1, <2>2, OpenStep
  <1>3. CASE TemplateStep
    <2>1. CASE ScanHeader \/ ScanOther
      <3>1. step = "scan"
        BY <2>1 DEF ScanHeader, ScanOther
      <3>2. TextIsGiven /\ Scanned(at) /\ page = NoPage /\ refusal = NoRefusal
        BY <3>1 DEF TemplateInv
      <3>3. QED
        BY <2>1, <3>1, <3>2, OtherLineStep
    <2>2. CASE ScanAnchor
      <3>1. step = "scan"
        BY <2>2 DEF ScanAnchor
      <3>2. TextIsGiven /\ Scanned(at) /\ page = NoPage /\ refusal = NoRefusal
        BY <3>1 DEF TemplateInv
      <3>3. QED
        BY <2>2, <3>1, <3>2, AnchorStep
    <2>3. CASE EndScan
      <3>1. step = "scan"
        BY <2>3 DEF EndScan
      <3>2. TextIsGiven /\ Scanned(at) /\ page = NoPage /\ refusal = NoRefusal
        BY <3>1 DEF TemplateInv
      <3>3. QED
        BY <2>3, <3>1, <3>2, EndScanStep
    <2>4. CASE Judge
      <3>1. step = "judge"
        BY <2>4 DEF Judge
      <3>2. TextIsGiven /\ Scanned(at) /\ at = Len(text.lines) + 1 /\ page = NoPage /\ refusal = NoRefusal
        BY <3>1 DEF TemplateInv
      <3>3. QED
        BY <2>4, <3>1, <3>2, JudgeStep
    <2>5. CASE Inject
      <3>1. step = "inject"
        BY <2>5 DEF Inject
      <3>2. TextIsGiven /\ Legal /\ Marked /\ page = NoPage /\ refusal = NoRefusal
        BY <3>1 DEF TemplateInv
      <3>3. QED
        BY <2>5, <3>1, <3>2, InjectStep
    <2>6. CASE EnsureManaged
      <3>1. step = "managed"
        BY <2>6 DEF EnsureManaged
      <3>2. TextIsGiven /\ Legal /\ Marked /\ refusal = NoRefusal /\ target = "surge" /\ page = Injected
        BY <3>1 DEF TemplateInv
      <3>3. QED
        BY <2>6, <3>1, <3>2, ManagedStep
    <2>7. QED
      BY <1>3, <2>1, <2>2, <2>3, <2>4, <2>5, <2>6 DEF TemplateStep
  <1>4. QED
    BY <1>1, <1>2, <1>3 DEF Next, UseSubscription, vars

\* A template of any lines and blocks is used exactly if its anchors are right, its
\* refusal says what is wrong, and the output is the template, line for line, with
\* the blocks at the places of their anchors.
THEOREM TemplatesAreInjected == Spec => []TemplateIsInjected
  <1>1. CallInv /\ TemplateInv => TemplateIsInjected
    BY DEF TemplateInv
  <1>2. Init => CallInv /\ TemplateInv
    BY InitCall, InitTemplate
  <1>3. CallInv /\ TemplateInv /\ [Next]_vars => (CallInv /\ TemplateInv)'
    BY NextCall, NextTemplate
  <1>4. QED
    BY <1>1, <1>2, <1>3, PTL DEF Spec

\* The output for Surge leads with its one managed line, whatever the template is,
\* or the template or a block has one that cannot be it.
THEOREM ManagedLinesLead == Spec => []ManagedLineLeads
  <1>1. CallInv /\ TemplateInv => ManagedLineLeads
    BY DEF TemplateInv
  <1>2. Init => CallInv /\ TemplateInv
    BY InitCall, InitTemplate
  <1>3. CallInv /\ TemplateInv /\ [Next]_vars => (CallInv /\ TemplateInv)'
    BY NextCall, NextTemplate
  <1>4. QED
    BY <1>1, <1>2, <1>3, PTL DEF Spec
=============================================================================
