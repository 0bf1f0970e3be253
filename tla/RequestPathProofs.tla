------------------------- MODULE RequestPathProofs -------------------------
(***************************************************************************)
(* Every handler of a request acts for the session that came with it, and  *)
(* its spans are one tree, for any tree of calls.                          *)
(***************************************************************************)
EXTENDS RequestPathInd, TLAPS

\* Spans have names of their own.
LEMMA PathSpanIds ==
    ASSUME NEW c \in Calls, NEW d \in Calls
    PROVE  /\ Server(c) \in SpanIds /\ ClientSide(c) \in SpanIds
           /\ Server(c) # ClientSide(d) /\ Server(c) # None /\ ClientSide(c) # None
           /\ Server(c) = Server(d) => c = d
           /\ ClientSide(c) = ClientSide(d) => c = d
  BY PathAssumption DEF Server, ClientSide, SpanIds

\* A call that is not the root of a request has a caller.
LEMMA PathCaller ==
    ASSUME NEW c \in Calls
    PROVE  /\ c \notin Roots => Caller[c] \in Calls
           /\ Caller[c] # c
  BY PathAssumption DEF Roots

\* A span started under another one is in its trace.
LEMMA PathStarted ==
    ASSUME NEW i, NEW r, r = NoRemote \/ r.id # None
    PROVE  /\ Started(i, r).state = "open" /\ Started(i, r).parent = r.id
           /\ Started(i, r).trace = IF r = NoRemote THEN i ELSE r.trace
  BY DEF Started

\* A session is a list of sessions.
LEMMA PathOne ==
    ASSUME NEW s \in Sessions
    PROVE  <<s>> \in Seq(Sessions) /\ Append(<<>>, s) = <<s>> /\ Head(<<s>>) = s /\ <<s>> # <<>>
  OBVIOUS

-----------------------------------------------------------------------------
(* What a step does not touch stays right.                                 *)

LEMMA PathBroughtKept ==
    ASSUME NEW c \in Calls, BroughtOK(c), UNCHANGED <<md[c], out[c].session>>,
           c \notin Roots /\ ctx[Caller[c]] # NoContext => UNCHANGED ctx[Caller[c]]
    PROVE  BroughtOK(c)'
  BY DEF BroughtOK, Asked

LEMMA PathConfirmedKept ==
    ASSUME NEW c \in Calls, ConfirmedOK(c), active' \subseteq active,
           UNCHANGED <<pc[c], wait[c], md[c], stale[c], reply[c], ctx[c]>>
    PROVE  ConfirmedOK(c)'
  BY DEF ConfirmedOK, Asked

LEMMA PathClientKept ==
    ASSUME NEW c \in Calls, ClientSpanOK(c), UNCHANGED <<pc[c], md[c], span[ClientSide(c)]>>,
           c \notin Roots /\ pc[Caller[c]] \notin {"none", "wire"} =>
             (pc[Caller[c]] \notin {"none", "wire"})' /\ UNCHANGED TraceOf(Caller[c])
    PROVE  ClientSpanOK(c)'
  BY DEF ClientSpanOK

LEMMA PathServerKept ==
    ASSUME NEW c \in Calls, ServerSpanOK(c), UNCHANGED <<md[c], span[Server(c)]>>,
           pc[c] \in {"none", "wire"} <=> (pc[c] \in {"none", "wire"})',
           pc[c] # "wire" => (pc[c] # "wire")'
    PROVE  ServerSpanOK(c)'
  BY DEF ServerSpanOK, TraceOf

LEMMA PathAnswerKept ==
    ASSUME NEW c \in Roots, AnswerOK(c), UNCHANGED <<resp[c], got[c], TraceOf(c)>>,
           pc[c] \in {"done", "failed"} => (pc[c] \in {"done", "failed"})'
    PROVE  AnswerOK(c)'
  BY DEF AnswerOK

\* A call goes on, and no span does.
LEMMA PathSameSpans ==
    ASSUME PathInv, NEW c \in Calls, UNCHANGED <<md, span>>,
           pc[c] \notin {"none", "wire"}, (pc[c] \notin {"none", "wire"})',
           \A d \in Calls : d # c => UNCHANGED pc[d]
    PROVE  SpanInv'
<1> SUFFICES ASSUME NEW d \in Calls PROVE ClientSpanOK(d)' /\ ServerSpanOK(d)'
  BY DEF SpanInv
<1>0. ClientSpanOK(d) /\ ServerSpanOK(d)
  BY DEF PathInv, SpanInv
<1>1. ClientSpanOK(d)'
  BY <1>0, PathCaller DEF ClientSpanOK, TraceOf
<1>2. ServerSpanOK(d)'
  BY <1>0 DEF ServerSpanOK, TraceOf
<1>3. QED  BY <1>1, <1>2

\* A call goes on, and is not answered.
LEMMA PathSameAnswers ==
    ASSUME PathInv, NEW c \in Calls, UNCHANGED <<resp, got, span>>,
           (pc[c] \notin {"done", "failed"})', pc[c] \notin {"done", "failed"},
           \A d \in Calls : d # c => UNCHANGED pc[d]
    PROVE  AnswerInv'
  BY DEF PathInv, AnswerInv, AnswerOK, Roots, TraceOf

LEMMA PathStutter == PathInv /\ UNCHANGED vars => PathInv'
  BY DEF PathInv, TypeOK, IdentityInv, BroughtOK, ConfirmedOK, Asked, SpanInv, ClientSpanOK,
         ServerSpanOK, TraceOf, AnswerInv, AnswerOK, vars, serverVars, iamVars

LEMMA PathInitInv == Init => PathInv
<1> SUFFICES ASSUME Init PROVE PathInv
  OBVIOUS
<1> USE DEF Init
<1>1. TypeOK
  BY DEF TypeOK, Metadata, NoMetadata, NoRemote, Ids, NoContext, UsersOrNone, NoSpan, NoResponse
<1>2. IdentityInv  BY DEF IdentityInv, BroughtOK, ConfirmedOK, NoMetadata
<1>3. SpanInv
  BY PathSpanIds DEF SpanInv, ClientSpanOK, ServerSpanOK, NoSpan, NoMetadata
<1>4. AnswerInv  BY DEF AnswerInv, AnswerOK, NoResponse, Roots
<1>5. QED  BY <1>1, <1>2, <1>3, <1>4 DEF PathInv

-----------------------------------------------------------------------------
(* The steps.                                                              *)

\* An HTTP request comes.
LEMMA PathRequest == ASSUME PathInv, NEW c \in Calls, Request(c) PROVE PathInv'
<1> PICK h \in Headers :
      /\ md' = [md EXCEPT ![c] = [session |-> h.session, remote |-> h.remote, traceId |-> None]]
      /\ span' = [span EXCEPT ![Server(c)] = Started(Server(c), h.remote)]
  BY DEF Request
<1>h. /\ h.session = <<>> \/ \E s \in Sessions : h.session = <<s>>
      /\ \/ h.remote = NoRemote
         \/ /\ h.remote \in {[trace |-> t, id |-> t] : t \in Remotes}
            /\ h.remote.id # None
  <2>1. /\ h.session \in {<<>>} \cup {<<s>> : s \in Sessions}
        /\ h.remote \in {NoRemote} \cup {[trace |-> t, id |-> t] : t \in Remotes}
    BY PathAssumption
  <2>2. CASE h.remote = NoRemote  BY <2>1, <2>2
  <2>3. CASE h.remote # NoRemote
    <3>1. PICK t \in Remotes : h.remote = [trace |-> t, id |-> t]
      BY <2>1, <2>3
    <3>2. h.remote.id # None
      BY <3>1, PathAssumption
    <3>3. QED  BY <2>1, <2>3, <3>2
  <2>4. QED  BY <2>2, <2>3
<1> DEFINE new == Started(Server(c), h.remote)
<1>n. /\ new.state = "open" /\ new.parent = h.remote.id
      /\ new.trace = IF h.remote = NoRemote THEN Server(c) ELSE h.remote.trace
  BY <1>h, PathStarted
<1>1. TypeOK'
  <2>1. h.session \in Seq(Sessions)
    <3>1. CASE h.session = <<>>  BY <3>1
    <3>2. ASSUME NEW s \in Sessions, h.session = <<s>> PROVE h.session \in Seq(Sessions)
      BY <3>2, PathOne
    <3>3. QED  BY <1>h, <3>1, <3>2
  <2>2. h.remote \in [trace : Ids, id : Ids]
    <3>1. CASE h.remote = NoRemote  BY <3>1 DEF Ids, NoRemote
    <3>2. CASE h.remote \in {[trace |-> t, id |-> t] : t \in Remotes}  BY <3>2 DEF Ids
    <3>3. QED  BY <1>h, <3>1, <3>2
  <2>3. new \in [state : {"none", "open", "ended"}, trace : Ids, parent : Ids]
    BY <2>2, PathSpanIds DEF Started, Ids
  <2>4. md' \in [Calls -> Metadata]
    BY <2>1, <2>2 DEF PathInv, TypeOK, Metadata, Ids
  <2>5. span' \in [SpanIds -> [state : {"none", "open", "ended"}, trace : Ids, parent : Ids]]
    BY <2>3 DEF PathInv, TypeOK
  <2>6. QED  BY <2>4, <2>5 DEF PathInv, TypeOK, Request, Arrive
<1> HIDE DEF new
<1>k. /\ md'[c].session = h.session /\ md'[c].remote = h.remote /\ span'[Server(c)] = new
      /\ \A d \in Calls : d # c => md'[d] = md[d] /\ span'[Server(d)] = span[Server(d)]
      /\ \A d \in Calls : span'[ClientSide(d)] = span[ClientSide(d)]
  BY PathSpanIds DEF PathInv, TypeOK, new
<1>p. /\ pc[c] = "none" /\ c \in Roots /\ pc'[c] = "auth" /\ ctx[c] = NoContext /\ wait[c] = "none"
      /\ stale'[c] = Sessions \ active
      /\ \A d \in Calls : d # c => UNCHANGED <<pc[d], stale[d]>>
      /\ UNCHANGED <<wait, ctx, out, resp, got, active, reply>>
  BY DEF Request, Arrive, PathInv, TypeOK, IdentityInv, ConfirmedOK
<1>2. IdentityInv'
  <2> SUFFICES ASSUME NEW d \in Calls PROVE BroughtOK(d)' /\ ConfirmedOK(d)'
    BY DEF IdentityInv
  <2>0. BroughtOK(d) /\ ConfirmedOK(d)
    BY DEF PathInv, IdentityInv
  <2>1. CASE d = c
    BY <2>0, <2>1, <1>h, <1>k, <1>p DEF BroughtOK, ConfirmedOK, Asked
  <2>2. CASE d # c
    BY <2>0, <2>2, <1>k, <1>p, PathBroughtKept, PathConfirmedKept
  <2>3. QED  BY <2>1, <2>2
<1>3. SpanInv'
  <2> SUFFICES ASSUME NEW d \in Calls PROVE ClientSpanOK(d)' /\ ServerSpanOK(d)'
    BY DEF SpanInv
  <2>0. ClientSpanOK(d) /\ ServerSpanOK(d)
    BY DEF PathInv, SpanInv
  <2>1. CASE d = c
    <3>1. ClientSpanOK(d)'
      BY <2>0, <2>1, <1>k, <1>p DEF ClientSpanOK
    <3>2. ServerSpanOK(d)'
      BY <2>1, <1>h, <1>k, <1>p, <1>n DEF ServerSpanOK, TraceOf
    <3>3. QED  BY <3>1, <3>2
  <2>2. CASE d # c
    <3>1. ClientSpanOK(d)'
      BY <2>0, <2>2, <1>k, <1>p, PathCaller, PathClientKept DEF TraceOf
    <3>2. ServerSpanOK(d)'
      BY <2>0, <2>2, <1>k, <1>p, PathServerKept
    <3>3. QED  BY <3>1, <3>2
  <2>3. QED  BY <2>1, <2>2
<1>4. AnswerInv'
  <2> SUFFICES ASSUME NEW d \in Roots PROVE AnswerOK(d)'
    BY DEF AnswerInv
  <2>0. AnswerOK(d) /\ d \in Calls
    BY DEF PathInv, AnswerInv, Roots
  <2>1. CASE d = c
    BY <2>0, <2>1, <1>p DEF AnswerOK, NoResponse
  <2>2. CASE d # c
    BY <2>0, <2>2, <1>k, <1>p, PathAnswerKept DEF TraceOf
  <2>3. QED  BY <2>1, <2>2
<1>5. QED  BY <1>1, <1>2, <1>3, <1>4 DEF PathInv

\* A handler makes a call.
LEMMA PathCall == ASSUME PathInv, NEW c \in Calls, Call(c) PROVE PathInv'
<1> DEFINE p == Caller[c]
           above == SpanContext(Server(p))
           new == Started(ClientSide(c), above)
<1>p. /\ pc[c] = "none" /\ c \notin Roots /\ p \in Calls /\ p # c /\ pc[p] = "handler"
      /\ pc'[c] = "wire" /\ wait'[c] = "waiting" /\ ctx[c] = NoContext /\ ctx[p] # NoContext
      /\ \A d \in Calls : d # c => UNCHANGED <<pc[d], wait[d]>>
      /\ UNCHANGED <<ctx, out, resp, got, iamVars>>
  BY PathCaller DEF Call, PathInv, TypeOK, IdentityInv, ConfirmedOK
<1>f. PICK outgoing \in {out[p], Forward(p)} :
      md' = [md EXCEPT ![c] = [outgoing EXCEPT !.remote = Injected(c)]]
  BY DEF Call
<1>o. /\ outgoing \in Metadata
      /\ outgoing.session = <<>>
         \/ (outgoing.session = <<ctx[p].session>> /\ ctx[p].session \in Sessions)
  <2>1. out[p] \in Metadata /\ out[p].session = <<>> /\ ctx[p].session \in Sessions \cup {None}
    BY <1>p DEF PathInv, TypeOK, IdentityInv, BroughtOK
  <2>2. CASE outgoing = out[p]  BY <2>1, <2>2
  <2>3. CASE outgoing = Forward(p)
    <3>1. CASE ctx[p].session = None  BY <2>1, <2>3, <3>1 DEF Forward
    <3>2. CASE ctx[p].session # None
      <4>1. /\ <<ctx[p].session>> \in Seq(Sessions)
            /\ Append(out[p].session, ctx[p].session) = <<ctx[p].session>>
        BY <2>1, <3>2, PathOne
      <4>2. outgoing = [out[p] EXCEPT !.session = <<ctx[p].session>>]
        BY <2>3, <3>2, <4>1 DEF Forward
      <4>3. QED  BY <2>1, <3>2, <4>1, <4>2 DEF Metadata
    <3>3. QED  BY <3>1, <3>2
  <2>4. QED  BY <2>2, <2>3
<1>n. /\ new.state = "open" /\ new.parent = Server(p) /\ new.trace = TraceOf(p)
      /\ Injected(c) = [trace |-> TraceOf(p), id |-> ClientSide(c)]
  <2>1. above = [trace |-> TraceOf(p), id |-> Server(p)] /\ above # NoRemote
    BY <1>p, PathSpanIds DEF SpanContext, TraceOf, NoRemote
  <2>2. QED  BY <2>1 DEF Started, Injected
<1>t. TraceOf(p) \in Ids /\ Server(p) \in Ids /\ ClientSide(c) \in Ids
  BY <1>p, PathSpanIds DEF PathInv, TypeOK, TraceOf, Ids
<1>s. span' = [span EXCEPT ![ClientSide(c)] = new]
  BY DEF Call
<1> DEFINE sent == [outgoing EXCEPT !.remote = Injected(c)]
<1>r. /\ sent \in Metadata /\ sent.session = outgoing.session
      /\ sent.remote = [trace |-> TraceOf(p), id |-> ClientSide(c)]
  BY <1>n, <1>t, <1>o DEF Metadata
<1>g. md' = [md EXCEPT ![c] = sent]
  BY <1>f
<1> HIDE DEF sent
<1>m. /\ md'[c].session = outgoing.session
      /\ md'[c].remote = [trace |-> TraceOf(p), id |-> ClientSide(c)]
      /\ md' \in [Calls -> Metadata]
      /\ \A d \in Calls : d # c => UNCHANGED md[d]
  BY <1>g, <1>r DEF PathInv, TypeOK
<1>1. TypeOK'
  <2>1. new \in [state : {"none", "open", "ended"}, trace : Ids, parent : Ids]
    BY <1>n, <1>t DEF Started
  <2>2. span' \in [SpanIds -> [state : {"none", "open", "ended"}, trace : Ids, parent : Ids]]
    BY <2>1, <1>s DEF PathInv, TypeOK
  <2>3. QED  BY <2>2, <1>m DEF PathInv, TypeOK, Call, iamVars
<1> HIDE DEF new, above
<1>k. /\ span'[ClientSide(c)] = new
      /\ \A d \in Calls : d # c => UNCHANGED span[ClientSide(d)]
      /\ \A d \in Calls : UNCHANGED span[Server(d)]
  BY <1>s, PathSpanIds DEF PathInv, TypeOK
<1>2. IdentityInv'
  <2> SUFFICES ASSUME NEW d \in Calls PROVE BroughtOK(d)' /\ ConfirmedOK(d)'
    BY DEF IdentityInv
  <2>0. BroughtOK(d) /\ ConfirmedOK(d)
    BY DEF PathInv, IdentityInv
  <2>1. CASE d = c
    BY <2>0, <2>1, <1>o, <1>m, <1>p DEF BroughtOK, ConfirmedOK, Asked, iamVars
  <2>2. CASE d # c
    BY <2>0, <2>2, <1>m, <1>p, PathBroughtKept, PathConfirmedKept DEF iamVars
  <2>3. QED  BY <2>1, <2>2
<1>3. SpanInv'
  <2> SUFFICES ASSUME NEW d \in Calls PROVE ClientSpanOK(d)' /\ ServerSpanOK(d)'
    BY DEF SpanInv
  <2>0. ClientSpanOK(d) /\ ServerSpanOK(d)
    BY DEF PathInv, SpanInv
  <2>1. CASE d = c
    <3>1. ClientSpanOK(d)'
      BY <2>1, <1>p, <1>m, <1>k, <1>n DEF ClientSpanOK, TraceOf
    <3>2. ServerSpanOK(d)'
      BY <2>0, <2>1, <1>p, <1>k DEF ServerSpanOK
    <3>3. QED  BY <3>1, <3>2
  <2>2. CASE d # c
    <3>1. ClientSpanOK(d)'
      BY <2>0, <2>2, <1>m, <1>k, <1>p, PathCaller, PathClientKept DEF TraceOf
    <3>2. ServerSpanOK(d)'
      BY <2>0, <2>2, <1>m, <1>k, <1>p, PathServerKept
    <3>3. QED  BY <3>1, <3>2
  <2>3. QED  BY <2>1, <2>2
<1>4. AnswerInv'
  <2> SUFFICES ASSUME NEW d \in Roots PROVE AnswerOK(d)'
    BY DEF AnswerInv
  <2>0. AnswerOK(d) /\ d \in Calls /\ d # c
    BY <1>p DEF PathInv, AnswerInv, Roots
  <2>1. QED  BY <2>0, <1>k, <1>p, PathAnswerKept DEF TraceOf
<1>5. QED  BY <1>1, <1>2, <1>3, <1>4 DEF PathInv

\* The server begins to work on a call.
LEMMA PathServe == ASSUME PathInv, NEW c \in Calls, Serve(c) PROVE PathInv'
<1> DEFINE p == Caller[c]
           new == Started(Server(c), md[c].remote)
<1>p. /\ pc[c] = "wire" /\ c \notin Roots /\ p \in Calls /\ pc'[c] = "auth" /\ ctx[c] = NoContext
      /\ stale'[c] = Sessions \ active
      /\ \A d \in Calls : d # c => UNCHANGED <<pc[d], stale[d], out[d]>>
      /\ UNCHANGED <<wait, md, ctx, resp, got, active, reply>>
  BY PathCaller DEF Serve, Arrive, PathInv, TypeOK, IdentityInv, ConfirmedOK, SpanInv, ServerSpanOK
<1>c. /\ md[c].remote = [trace |-> TraceOf(p), id |-> ClientSide(c)]
      /\ TraceOf(p) \in Ids /\ Server(c) \in Ids /\ ClientSide(c) \in Ids
  BY <1>p, PathSpanIds DEF PathInv, SpanInv, ClientSpanOK, TypeOK, TraceOf, Ids
<1>n. new.state = "open" /\ new.parent = ClientSide(c) /\ new.trace = TraceOf(p)
  BY <1>c, PathSpanIds DEF Started, NoRemote
<1>s. span' = [span EXCEPT ![Server(c)] = new]
  BY DEF Serve
<1>o. out' = [out EXCEPT ![c] = [session |-> <<>>, remote |-> NoRemote, traceId |-> TraceOf(p)]]
  <2>1. out' = [out EXCEPT ![c] = [NoMetadata EXCEPT !.traceId = new.trace]]
    BY DEF Serve, OutgoingMetadata
  <2>2. [NoMetadata EXCEPT !.traceId = TraceOf(p)]
          = [session |-> <<>>, remote |-> NoRemote, traceId |-> TraceOf(p)]
    BY DEF NoMetadata
  <2>3. QED  BY <2>1, <2>2, <1>n
<1>1. TypeOK'
  <2>1. new \in [state : {"none", "open", "ended"}, trace : Ids, parent : Ids]
    BY <1>n, <1>c DEF Started
  <2>2. span' \in [SpanIds -> [state : {"none", "open", "ended"}, trace : Ids, parent : Ids]]
    BY <2>1, <1>s DEF PathInv, TypeOK
  <2>3. out' \in [Calls -> Metadata]
    BY <1>o, <1>c DEF PathInv, TypeOK, Metadata, NoRemote, Ids
  <2>4. QED  BY <2>2, <2>3 DEF PathInv, TypeOK, Serve, Arrive
<1> HIDE DEF new
<1>k. /\ span'[Server(c)] = new
      /\ \A d \in Calls : d # c => UNCHANGED span[Server(d)]
      /\ \A d \in Calls : UNCHANGED span[ClientSide(d)]
  BY <1>s, PathSpanIds DEF PathInv, TypeOK
<1>2. IdentityInv'
  <2> SUFFICES ASSUME NEW d \in Calls PROVE BroughtOK(d)' /\ ConfirmedOK(d)'
    BY DEF IdentityInv
  <2>0. BroughtOK(d) /\ ConfirmedOK(d)
    BY DEF PathInv, IdentityInv
  <2>1. out'[d].session = out[d].session
    BY <2>0, <1>o, <1>p DEF PathInv, TypeOK, BroughtOK
  <2>2. BroughtOK(d)'
    BY <2>0, <2>1, <1>p, PathBroughtKept
  <2>3. CASE d = c
    BY <2>0, <2>2, <2>3, <1>p DEF ConfirmedOK
  <2>4. CASE d # c
    BY <2>0, <2>2, <2>4, <1>p, PathConfirmedKept
  <2>5. QED  BY <2>3, <2>4
<1>3. SpanInv'
  <2> SUFFICES ASSUME NEW d \in Calls PROVE ClientSpanOK(d)' /\ ServerSpanOK(d)'
    BY DEF SpanInv
  <2>0. ClientSpanOK(d) /\ ServerSpanOK(d)
    BY DEF PathInv, SpanInv
  <2>1. ClientSpanOK(d)'
    <3>1. CASE d \in Roots
      BY <2>0, <3>1, <1>p, <1>k DEF ClientSpanOK
    <3>2. CASE d \notin Roots
      <4>1. Caller[d] \in Calls
        BY <3>2, PathCaller
      <4>2. CASE span[ClientSide(d)].state = "none"
        BY <2>0, <3>2, <4>2, <1>p, <1>k DEF ClientSpanOK
      <4>3. CASE span[ClientSide(d)].state # "none"
        <5>1. Caller[d] # c
          BY <2>0, <4>3, <1>p DEF ClientSpanOK
        <5>2. QED  BY <2>0, <3>2, <4>1, <4>3, <5>1, <1>p, <1>k DEF ClientSpanOK, TraceOf
      <4>4. QED  BY <4>2, <4>3
    <3>3. QED  BY <3>1, <3>2
  <2>2. ServerSpanOK(d)'
    <3>1. CASE d = c
      BY <2>0, <3>1, <1>p, <1>k, <1>n, <1>c, PathSpanIds DEF ServerSpanOK, TraceOf, NoRemote
    <3>2. CASE d # c
      BY <2>0, <3>2, <1>p, <1>k, PathServerKept
    <3>3. QED  BY <3>1, <3>2
  <2>3. QED  BY <2>1, <2>2
<1>4. AnswerInv'
  <2> SUFFICES ASSUME NEW d \in Roots PROVE AnswerOK(d)'
    BY DEF AnswerInv
  <2>0. AnswerOK(d) /\ d \in Calls /\ d # c
    BY <1>p DEF PathInv, AnswerInv, Roots
  <2>1. QED  BY <2>0, <1>k, <1>p, PathAnswerKept DEF TraceOf
<1>5. QED  BY <1>1, <1>2, <1>3, <1>4 DEF PathInv

\* IAM confirms a session.
LEMMA PathWhoami == ASSUME PathInv, NEW c \in Calls, Whoami(c) PROVE PathInv'
<1>p. /\ pc[c] = "auth" /\ md[c].session # <<>> /\ Asked(c) \in active /\ pc'[c] = "confirmed"
      /\ Asked(c) \in Sessions /\ reply'[c] = Owner[Asked(c)]
      /\ \A d \in Calls : d # c => UNCHANGED <<pc[d], reply[d]>>
      /\ UNCHANGED <<ctx, out, resp, wait, md, span, got, active, stale>>
  BY DEF Whoami, Valid, Asked, PathInv, TypeOK
<1>1. TypeOK'
  BY <1>p DEF PathInv, TypeOK, Whoami, UsersOrNone, Asked
<1>2. IdentityInv'
  <2> SUFFICES ASSUME NEW d \in Calls PROVE BroughtOK(d)' /\ ConfirmedOK(d)'
    BY DEF IdentityInv
  <2>0. BroughtOK(d) /\ ConfirmedOK(d)
    BY DEF PathInv, IdentityInv
  <2>1. CASE d = c
    BY <2>0, <2>1, <1>p DEF BroughtOK, ConfirmedOK, Asked
  <2>2. CASE d # c
    BY <2>0, <2>2, <1>p, PathBroughtKept, PathConfirmedKept
  <2>3. QED  BY <2>1, <2>2
<1>3. SpanInv'
  BY <1>p, PathSameSpans
<1>4. AnswerInv'
  BY <1>p, PathSameAnswers
<1>5. QED  BY <1>1, <1>2, <1>3, <1>4 DEF PathInv

\* The handler starts.
LEMMA PathAuthenticated == ASSUME PathInv, NEW c \in Calls, Authenticated(c) PROVE PathInv'
<1>p. /\ pc[c] = "confirmed" /\ md[c].session # <<>> /\ Asked(c) \in Sessions \ stale[c]
      /\ pc'[c] = "handler" /\ ctx[c] = NoContext
      /\ ctx'[c] = [user |-> Owner[Asked(c)], session |-> Asked(c)]
      /\ \A d \in Calls : d # c => UNCHANGED <<pc[d], ctx[d]>>
      /\ UNCHANGED <<reply, out, resp, wait, md, span, got, active, stale>>
  <2>1. BroughtOK(c) /\ ConfirmedOK(c) /\ pc[c] = "confirmed"
    BY DEF Authenticated, PathInv, IdentityInv
  <2>2. /\ md[c].session # <<>> /\ Asked(c) \in Sessions \ stale[c]
        /\ reply[c] = Owner[Asked(c)] /\ ctx[c] = NoContext
    BY <2>1 DEF BroughtOK, ConfirmedOK, Asked
  <2>3. ctx' = [ctx EXCEPT ![c] = [user |-> reply[c], session |-> Asked(c)]]
    BY DEF Authenticated, Contexts, Asked
  <2>4. QED  BY <2>1, <2>2, <2>3 DEF Authenticated, PathInv, TypeOK, iamVars
<1>1. TypeOK'
  BY <1>p DEF PathInv, TypeOK, Authenticated, Contexts, UsersOrNone, Asked, iamVars
<1>2. IdentityInv'
  <2> SUFFICES ASSUME NEW d \in Calls PROVE BroughtOK(d)' /\ ConfirmedOK(d)'
    BY DEF IdentityInv
  <2>0. BroughtOK(d) /\ ConfirmedOK(d)
    BY DEF PathInv, IdentityInv
  <2>1. BroughtOK(d)'
    BY <2>0, <1>p, PathCaller, PathBroughtKept
  <2>2. CASE d = c
    <3>1. ctx'[c] # NoContext
      BY <1>p, PathAssumption DEF NoContext
    <3>2. QED  BY <2>0, <2>1, <2>2, <3>1, <1>p DEF ConfirmedOK, Asked
  <2>3. CASE d # c
    BY <2>0, <2>1, <2>3, <1>p, PathConfirmedKept
  <2>4. QED  BY <2>2, <2>3
<1>3. SpanInv'
  BY <1>p, PathSameSpans
<1>4. AnswerInv'
  BY <1>p, PathSameAnswers
<1>5. QED  BY <1>1, <1>2, <1>3, <1>4 DEF PathInv

-----------------------------------------------------------------------------
(* The steps that answer.                                                  *)

\* A response writer that is used keeps its type, and what it sends for the
\* first time goes out with the trace ID.
LEMMA PathWriter ==
    ASSUME PathInv, NEW c \in Roots,
           NEW r \in ErrorResponses(c) \cup Responses(c), resp[c] = NoResponse
    PROVE  /\ r \in [status : Nat, added : BOOLEAN, header : Ids, sent : Nat]
           /\ r.sent # 0 => r.header = TraceOf(c)
<1> DEFINE R == [status : Nat, added : BOOLEAN, header : Ids, sent : Nat]
           Good(r1) == r1 \in R /\ (r1.added => r1.header = TraceOf(c)) /\ (r1.sent # 0 => r1.added)
<1>1. TraceOf(c) \in Ids
  BY PathSpanIds DEF PathInv, TypeOK, TraceOf, Roots
<1>2. Good(resp[c])
  BY DEF NoResponse, Ids
<1>3. ASSUME NEW r1, Good(r1), NEW code \in Nat
      PROVE  Good(WriteHeader(c, r1, code)) /\ Good(Write(c, r1))
  BY <1>1, <1>3 DEF WriteHeader, Write, WithTrace, Sent
<1> HIDE DEF Good
<1>4. Good(r)
  BY <1>2, <1>3 DEF ErrorResponses, Responses
<1>5. QED  BY <1>4 DEF Good

\* A span that is ended is what it was.
LEMMA PathEnded ==
    ASSUME PathInv, NEW i \in SpanIds
    PROVE  /\ Ended(i).state = "ended" /\ Ended(i).parent = span[i].parent
           /\ Ended(i).trace = span[i].trace
           /\ Ended(i) \in [state : {"none", "open", "ended"}, trace : Ids, parent : Ids]
<1> DEFINE s == span[i]
<1>1. s \in [state : {"none", "open", "ended"}, trace : Ids, parent : Ids]
  BY DEF PathInv, TypeOK
<1>2. Ended(i) = [s EXCEPT !.state = "ended"]
  BY DEF Ended
<1> HIDE DEF s
<1>3. QED  BY <1>1, <1>2 DEF s

\* A call is over on the side of the server: its span is ended, and an HTTP
\* request is answered.
LEMMA PathOver ==
    ASSUME PathInv, NEW c \in Calls, pc[c] \in {"auth", "confirmed", "handler"},
           pc'[c] \in {"done", "failed"}, pc'[c] = "done" => pc[c] = "handler",
           pc' = [pc EXCEPT ![c] = pc'[c]],
           Answer(c, ErrorResponses(c)) \/ Answer(c, Responses(c)),
           span' = [span EXCEPT ![Server(c)] = Ended(Server(c))],
           UNCHANGED <<ctx, out, wait, md, iamVars>>
    PROVE  PathInv'
<1>p. /\ \A d \in Calls : d # c => UNCHANGED pc[d]
      /\ UNCHANGED <<ctx, out, wait, md, active, reply, stale>>
  BY DEF PathInv, TypeOK, iamVars
<1>e. /\ Ended(Server(c)).state = "ended" /\ Ended(Server(c)).parent = span[Server(c)].parent
      /\ Ended(Server(c)).trace = span[Server(c)].trace
      /\ Ended(Server(c)) \in [state : {"none", "open", "ended"}, trace : Ids, parent : Ids]
  BY PathSpanIds, PathEnded
<1>k. /\ span'[Server(c)] = Ended(Server(c))
      /\ \A d \in Calls : d # c => UNCHANGED span[Server(d)]
      /\ \A d \in Calls : UNCHANGED span[ClientSide(d)]
      /\ \A d \in Calls : UNCHANGED TraceOf(d)
  BY <1>e, PathSpanIds DEF PathInv, TypeOK, TraceOf
<1>a. /\ resp' \in [Calls -> [status : Nat, added : BOOLEAN, header : Ids, sent : Nat]]
      /\ got' \in [Calls -> Ids]
      /\ \A d \in Calls : d # c => UNCHANGED <<resp[d], got[d]>>
      /\ c \in Roots /\ resp'[c].sent # 0 => got'[c] = TraceOf(c)
  <2>1. CASE c \in Roots
    <3>1. PICK r \in ErrorResponses(c) \cup Responses(c) :
            resp' = [resp EXCEPT ![c] = r] /\ got' = [got EXCEPT ![c] = Answered(c, r)]
      BY <2>1 DEF Answer
    <3>2. resp[c] = NoResponse
      BY <2>1 DEF PathInv, AnswerInv, AnswerOK
    <3>3. /\ r \in [status : Nat, added : BOOLEAN, header : Ids, sent : Nat]
          /\ r.sent # 0 => r.header = TraceOf(c)
      BY <2>1, <3>2, PathWriter
    <3>4. Answered(c, r) \in Ids /\ (r.sent # 0 => Answered(c, r) = TraceOf(c))
      BY <3>2, <3>3 DEF Answered, NoResponse, PathInv, TypeOK
    <3>5. QED  BY <3>1, <3>3, <3>4 DEF PathInv, TypeOK
  <2>2. CASE c \notin Roots  BY <2>2 DEF Answer, PathInv, TypeOK
  <2>3. QED  BY <2>1, <2>2
<1>1. TypeOK'
  <2>1. span' \in [SpanIds -> [state : {"none", "open", "ended"}, trace : Ids, parent : Ids]]
    BY <1>e DEF PathInv, TypeOK
  <2>2. pc' \in [Calls -> {"none", "wire", "auth", "confirmed", "handler", "done", "failed"}]
    BY DEF PathInv, TypeOK
  <2>3. QED  BY <2>1, <2>2, <1>a, <1>p DEF PathInv, TypeOK
<1>2. IdentityInv'
  <2> SUFFICES ASSUME NEW d \in Calls PROVE BroughtOK(d)' /\ ConfirmedOK(d)'
    BY DEF IdentityInv
  <2>0. BroughtOK(d) /\ ConfirmedOK(d)
    BY DEF PathInv, IdentityInv
  <2>1. BroughtOK(d)'
    BY <2>0, <1>p, PathBroughtKept
  <2>2. CASE d = c
    BY <2>0, <2>1, <2>2, <1>p DEF ConfirmedOK, Asked
  <2>3. CASE d # c
    BY <2>0, <2>1, <2>3, <1>p, PathConfirmedKept
  <2>4. QED  BY <2>2, <2>3
<1>3. SpanInv'
  <2> SUFFICES ASSUME NEW d \in Calls PROVE ClientSpanOK(d)' /\ ServerSpanOK(d)'
    BY DEF SpanInv
  <2>0. ClientSpanOK(d) /\ ServerSpanOK(d)
    BY DEF PathInv, SpanInv
  <2>1. ClientSpanOK(d)'
    BY <2>0, <1>p, <1>k, PathCaller DEF ClientSpanOK
  <2>2. CASE d = c
    BY <2>0, <2>1, <2>2, <1>p, <1>k, <1>e DEF ServerSpanOK
  <2>3. CASE d # c
    BY <2>0, <2>1, <2>3, <1>p, <1>k, PathServerKept
  <2>4. QED  BY <2>2, <2>3
<1>4. AnswerInv'
  <2> SUFFICES ASSUME NEW d \in Roots PROVE AnswerOK(d)'
    BY DEF AnswerInv
  <2>0. AnswerOK(d) /\ d \in Calls
    BY DEF PathInv, AnswerInv, Roots
  <2>1. CASE d = c  BY <2>1, <1>a, <1>k DEF AnswerOK
  <2>2. CASE d # c
    BY <2>0, <2>2, <1>a, <1>k, <1>p, PathAnswerKept
  <2>3. QED  BY <2>1, <2>2
<1>5. QED  BY <1>1, <1>2, <1>3, <1>4 DEF PathInv

LEMMA PathUnauthenticated == ASSUME PathInv, NEW c \in Calls, Unauthenticated(c) PROVE PathInv'
<1>1. pc'[c] = "failed" /\ pc' = [pc EXCEPT ![c] = pc'[c]]
  BY DEF Unauthenticated, PathInv, TypeOK
<1>2. QED  BY <1>1, PathOver DEF Unauthenticated

LEMMA PathReturn == ASSUME PathInv, NEW c \in Calls, Return(c) PROVE PathInv'
<1>1. pc'[c] \in {"done", "failed"} /\ pc' = [pc EXCEPT ![c] = pc'[c]] /\ pc[c] = "handler"
  BY DEF Return, PathInv, TypeOK
<1>2. QED  BY <1>1, PathOver DEF Return

LEMMA PathPanic == ASSUME PathInv, NEW c \in Calls, Panic(c) PROVE PathInv'
<1>1. pc'[c] = "done" /\ pc' = [pc EXCEPT ![c] = pc'[c]] /\ pc[c] = "handler"
  BY DEF Panic, PathInv, TypeOK
<1>2. QED  BY <1>1, PathOver DEF Panic, SpanAfterPanic

\* A call is over on the side of the client.
LEMMA PathWaitOver ==
    ASSUME PathInv, NEW c \in Calls, wait[c] = "waiting",
           wait'[c] \in {"ok", "failed"}, wait'[c] = "ok" => pc[c] = "done",
           wait' = [wait EXCEPT ![c] = wait'[c]],
           got' = [got EXCEPT ![c] = got'[c]], got'[c] \in Ids,
           span' = [span EXCEPT ![ClientSide(c)] = Ended(ClientSide(c))],
           UNCHANGED <<serverVars, md, iamVars>>
    PROVE  PathInv'
<1>p. /\ c \notin Roots /\ pc[c] # "none"
      /\ \A d \in Calls : d # c => UNCHANGED <<wait[d], got[d]>>
      /\ UNCHANGED <<pc, ctx, out, resp, md, active, reply, stale>>
  BY DEF PathInv, TypeOK, IdentityInv, ConfirmedOK, serverVars, iamVars
<1>e. /\ Ended(ClientSide(c)).state = "ended"
      /\ Ended(ClientSide(c)).parent = span[ClientSide(c)].parent
      /\ Ended(ClientSide(c)).trace = span[ClientSide(c)].trace
      /\ Ended(ClientSide(c)) \in [state : {"none", "open", "ended"}, trace : Ids, parent : Ids]
  BY PathSpanIds, PathEnded
<1>k. /\ span'[ClientSide(c)] = Ended(ClientSide(c))
      /\ \A d \in Calls : d # c => UNCHANGED span[ClientSide(d)]
      /\ \A d \in Calls : UNCHANGED span[Server(d)] /\ UNCHANGED TraceOf(d)
  BY PathSpanIds DEF PathInv, TypeOK, TraceOf
<1>1. TypeOK'
  <2>1. span' \in [SpanIds -> [state : {"none", "open", "ended"}, trace : Ids, parent : Ids]]
    BY <1>e DEF PathInv, TypeOK
  <2>2. wait' \in [Calls -> {"none", "waiting", "ok", "failed"}] /\ got' \in [Calls -> Ids]
    BY DEF PathInv, TypeOK
  <2>3. QED  BY <2>1, <2>2, <1>p DEF PathInv, TypeOK
<1>2. IdentityInv'
  <2> SUFFICES ASSUME NEW d \in Calls PROVE BroughtOK(d)' /\ ConfirmedOK(d)'
    BY DEF IdentityInv
  <2>0. BroughtOK(d) /\ ConfirmedOK(d)
    BY DEF PathInv, IdentityInv
  <2>1. BroughtOK(d)'
    BY <2>0, <1>p, PathBroughtKept
  <2>2. CASE d = c
    BY <2>0, <2>1, <2>2, <1>p DEF ConfirmedOK, Asked
  <2>3. CASE d # c
    BY <2>0, <2>1, <2>3, <1>p, PathConfirmedKept
  <2>4. QED  BY <2>2, <2>3
<1>3. SpanInv'
  <2> SUFFICES ASSUME NEW d \in Calls PROVE ClientSpanOK(d)' /\ ServerSpanOK(d)'
    BY DEF SpanInv
  <2>0. ClientSpanOK(d) /\ ServerSpanOK(d) /\ ClientSpanOK(c)
    BY DEF PathInv, SpanInv
  <2>1. ServerSpanOK(d)'
    BY <2>0, <1>p, <1>k, PathServerKept
  <2>2. CASE d = c
    <3>1. span[ClientSide(c)].state # "none"
      BY <2>0, <1>p DEF ClientSpanOK
    <3>2. QED  BY <2>0, <2>1, <2>2, <3>1, <1>p, <1>k, <1>e, PathCaller DEF ClientSpanOK
  <2>3. CASE d # c
    BY <2>0, <2>1, <2>3, <1>p, <1>k, PathCaller DEF ClientSpanOK
  <2>4. QED  BY <2>2, <2>3
<1>4. AnswerInv'
  <2> SUFFICES ASSUME NEW d \in Roots PROVE AnswerOK(d)'
    BY DEF AnswerInv
  <2>0. AnswerOK(d) /\ d \in Calls /\ d # c
    BY <1>p DEF PathInv, AnswerInv, Roots
  <2>1. QED  BY <2>0, <1>k, <1>p, PathAnswerKept
<1>5. QED  BY <1>1, <1>2, <1>3, <1>4 DEF PathInv

LEMMA PathReceive == ASSUME PathInv, NEW c \in Calls, Receive(c) PROVE PathInv'
<1>1. /\ wait'[c] \in {"ok", "failed"} /\ (wait'[c] = "ok" => pc[c] = "done")
      /\ wait' = [wait EXCEPT ![c] = wait'[c]]
      /\ got' = [got EXCEPT ![c] = got'[c]] /\ got'[c] \in Ids
  BY DEF Receive, Outcome, AnswerTrace, PathInv, TypeOK, Ids
<1>2. QED  BY <1>1, PathWaitOver DEF Receive

LEMMA PathAbandon == ASSUME PathInv, NEW c \in Calls, Abandon(c) PROVE PathInv'
<1>1. /\ wait'[c] = "failed" /\ wait' = [wait EXCEPT ![c] = wait'[c]]
      /\ got' = [got EXCEPT ![c] = got'[c]] /\ got'[c] \in Ids
  BY DEF Abandon, PathInv, TypeOK
<1>2. QED  BY <1>1, PathWaitOver DEF Abandon

\* A session ends.
LEMMA PathEndSession == ASSUME PathInv, NEW s \in Sessions, EndSession(s) PROVE PathInv'
<1>p. active' = active \ {s} /\ UNCHANGED <<pc, ctx, out, resp, wait, md, span, got, reply, stale>>
  BY DEF EndSession, serverVars
<1>1. TypeOK'  BY <1>p DEF PathInv, TypeOK
<1>2. IdentityInv'
  <2> SUFFICES ASSUME NEW d \in Calls PROVE BroughtOK(d)' /\ ConfirmedOK(d)'
    BY DEF IdentityInv
  <2>1. QED  BY <1>p, PathBroughtKept, PathConfirmedKept DEF PathInv, IdentityInv
<1>3. SpanInv'
  BY <1>p DEF PathInv, SpanInv, ClientSpanOK, ServerSpanOK, TraceOf
<1>4. AnswerInv'  BY <1>p DEF PathInv, AnswerInv, AnswerOK, TraceOf
<1>5. QED  BY <1>1, <1>2, <1>3, <1>4 DEF PathInv

LEMMA PathNextInv == PathInv /\ [Next]_vars => PathInv'
  BY PathRequest, PathCall, PathServe, PathWhoami, PathAuthenticated, PathUnauthenticated,
     PathReturn, PathPanic, PathReceive, PathAbandon, PathEndSession, PathStutter
     DEF Next, Handle

-----------------------------------------------------------------------------
(* Theorems.                                                               *)

\* The state of a request on its way, in any tree of calls.
THEOREM PathInvariant == Spec => []PathInv
<1>1. QED  BY PathInitInv, PathNextInv, PTL DEF Spec

\* Every handler of a request acts for the user of the session that came with
\* the request: grpc/auth.go and http/auth.go never mix up two of them.
THEOREM PathOneIdentity == Spec => []OneIdentity
<1>1. PathInv => OneIdentity
  <2> SUFFICES ASSUME PathInv, NEW c \in Calls, ctx[c] # NoContext
               PROVE  /\ ctx[c].session \in Sessions /\ ctx[c].user = Owner[ctx[c].session]
                      /\ IF c \in Roots THEN <<ctx[c].session>> = md[c].session
                                        ELSE ctx[c].session = ctx[Caller[c]].session
    BY DEF OneIdentity
  <2>1. BroughtOK(c) /\ ConfirmedOK(c)
    BY DEF PathInv, IdentityInv
  <2>2. PICK s \in Sessions : md[c].session = <<s>>
    BY <2>1 DEF BroughtOK, ConfirmedOK
  <2>3. Asked(c) = s
    BY <2>2, PathOne DEF Asked
  <2>4. ctx[c] = [user |-> Owner[s], session |-> s]
    BY <2>1, <2>3 DEF ConfirmedOK
  <2>5. QED  BY <2>1, <2>2, <2>3, <2>4 DEF BroughtOK
<1>2. QED  BY <1>1, PathInvariant, PTL

\* A session that had ended when a call came lets no handler of it run: there
\* is no memory of an earlier answer of IAM.
THEOREM PathNoEndedSession == Spec => []NoEndedSession
<1>1. PathInv => NoEndedSession
  <2> SUFFICES ASSUME PathInv, NEW c \in Calls PROVE ctx[c].session \notin stale[c]
    BY DEF NoEndedSession
  <2>1. CASE ctx[c] = NoContext
    BY <2>1, PathAssumption DEF NoContext, PathInv, TypeOK
  <2>2. CASE ctx[c] # NoContext
    <3>1. ConfirmedOK(c)
      BY DEF PathInv, IdentityInv
    <3>2. ctx[c].session = Asked(c) /\ Asked(c) \notin stale[c]
      BY <2>2, <3>1 DEF ConfirmedOK
    <3>3. QED  BY <3>2
  <2>3. QED  BY <2>1, <2>2
<1>2. QED  BY <1>1, PathInvariant, PTL

\* An answer without an error comes from a handler that was let in under the
\* session of the caller.
THEOREM PathOkWasAuthorised == Spec => []OkWasAuthorised
<1>1. PathInv => OkWasAuthorised
  <2> SUFFICES ASSUME PathInv, NEW c \in Calls, wait[c] = "ok"
               PROVE  ctx[c] # NoContext /\ ctx[c].session = ctx[Caller[c]].session
    BY DEF OkWasAuthorised
  <2>1. BroughtOK(c) /\ ConfirmedOK(c)
    BY DEF PathInv, IdentityInv
  <2>2. ctx[c] # NoContext /\ c \notin Roots
    BY <2>1 DEF ConfirmedOK
  <2>3. ctx[c].session = Asked(c) /\ md[c].session # <<>>
    BY <2>1, <2>2 DEF ConfirmedOK
  <2>4. QED  BY <2>1, <2>2, <2>3 DEF BroughtOK
<1>2. QED  BY <1>1, PathInvariant, PTL

\* The spans of a request are one tree in one trace, over any number of services.
THEOREM PathOneTrace == Spec => []OneTrace
<1>1. PathInv => OneTrace
  <2> SUFFICES ASSUME PathInv PROVE OneTrace
    OBVIOUS
  <2>1. ASSUME NEW c \in Calls, span[ClientSide(c)].state # "none"
        PROVE  /\ span[ClientSide(c)].parent = Server(Caller[c])
               /\ span[ClientSide(c)].trace = TraceOf(Caller[c])
    BY <2>1 DEF PathInv, SpanInv, ClientSpanOK
  <2>2. ASSUME NEW c \in Calls, span[Server(c)].state # "none", c \in Roots
        PROVE  /\ span[Server(c)].parent = md[c].remote.id
               /\ TraceOf(c) = IF md[c].remote = NoRemote THEN Server(c) ELSE md[c].remote.id
    BY <2>2 DEF PathInv, SpanInv, ServerSpanOK
  <2>3. ASSUME NEW c \in Calls, span[Server(c)].state # "none", c \notin Roots
        PROVE  /\ span[Server(c)].parent = ClientSide(c)
               /\ TraceOf(c) = span[ClientSide(c)].trace
    <3>1. ClientSpanOK(c) /\ ServerSpanOK(c)
      BY DEF PathInv, SpanInv
    <3>2. span[ClientSide(c)].state # "none"
      BY <2>3, <3>1 DEF ClientSpanOK, ServerSpanOK
    <3>3. md[c].remote.id = ClientSide(c) /\ md[c].remote.trace = span[ClientSide(c)].trace
      BY <3>1, <3>2 DEF ClientSpanOK
    <3>4. md[c].remote # NoRemote
      BY <3>3, PathSpanIds DEF NoRemote
    <3>5. QED  BY <2>3, <3>1, <3>3, <3>4 DEF ServerSpanOK
  <2>4. QED  BY <2>1, <2>2, <2>3 DEF OneTrace
<1>2. QED  BY <1>1, PathInvariant, PTL

\* What an HTTP client is answered carries the trace ID of its request.
THEOREM PathAnswerHasTrace == Spec => []AnswerHasTrace
<1>1. PathInv => AnswerHasTrace
  BY DEF AnswerHasTrace, PathInv, AnswerInv, AnswerOK
<1>2. QED  BY <1>1, PathInvariant, PTL

-----------------------------------------------------------------------------
(* The life of a span.                                                     *)

AtWork == {"auth", "confirmed", "handler"}

\* The four kinds of steps that touch a span.
ServerStarts(c) ==
    /\ pc[c] \in {"none", "wire"} /\ pc' = [pc EXCEPT ![c] = "auth"] /\ UNCHANGED wait
    /\ \E r : span' = [span EXCEPT ![Server(c)] = Started(Server(c), r)]

ClientStarts(c) ==
    /\ pc[c] = "none" /\ pc' = [pc EXCEPT ![c] = "wire"] /\ wait' = [wait EXCEPT ![c] = "waiting"]
    /\ \E r : span' = [span EXCEPT ![ClientSide(c)] = Started(ClientSide(c), r)]

ServerEnds(c) ==
    /\ pc[c] \in AtWork /\ UNCHANGED wait
    /\ \E how \in {"done", "failed"} : pc' = [pc EXCEPT ![c] = how]
    /\ span' = [span EXCEPT ![Server(c)] = Ended(Server(c))]

ClientEnds(c) ==
    /\ wait[c] = "waiting" /\ UNCHANGED pc
    /\ \E how \in {"ok", "failed"} : wait' = [wait EXCEPT ![c] = how]
    /\ span' = [span EXCEPT ![ClientSide(c)] = Ended(ClientSide(c))]

\* Every other step leaves the spans alone, and a call at work stays at work.
SpansRest ==
    /\ UNCHANGED <<span, wait>>
    /\ \A d \in Calls : pc[d] = pc'[d] \/ (pc[d] \in AtWork /\ pc'[d] \in AtWork)

LEMMA PathSpanStep ==
    ASSUME PathInv, [Next]_vars
    PROVE  \/ SpansRest
           \/ \E c \in Calls : ServerStarts(c) \/ ClientStarts(c) \/ ServerEnds(c) \/ ClientEnds(c)
<1> USE DEF AtWork
<1>1. ASSUME NEW c \in Calls, Request(c) \/ Serve(c) PROVE ServerStarts(c)
  BY <1>1 DEF Request, Serve, ServerStarts
<1>2. ASSUME NEW c \in Calls, Call(c) PROVE ClientStarts(c)
  BY <1>2 DEF Call, ClientStarts
<1>3. ASSUME NEW c \in Calls, Whoami(c) \/ Authenticated(c) PROVE SpansRest
  BY <1>3 DEF Whoami, Authenticated, SpansRest, PathInv, TypeOK
<1>4. ASSUME NEW c \in Calls, Unauthenticated(c) \/ Return(c) \/ Panic(c) PROVE ServerEnds(c)
  BY <1>4 DEF Unauthenticated, Return, Panic, SpanAfterPanic, ServerEnds
<1>5. ASSUME NEW c \in Calls, Receive(c) \/ Abandon(c) PROVE ClientEnds(c)
  BY <1>5 DEF Receive, Abandon, Outcome, ClientEnds, serverVars
<1>6. ASSUME NEW s \in Sessions, EndSession(s) PROVE SpansRest
  BY <1>6 DEF EndSession, SpansRest, serverVars
<1>7. CASE UNCHANGED vars
  BY <1>7 DEF vars, serverVars, SpansRest
<1>8. QED  BY <1>1, <1>2, <1>3, <1>4, <1>5, <1>6, <1>7 DEF Next, Handle

\* What a step that touches one span does to that one and to the others.
LEMMA PathOneSpan ==
    ASSUME PathInv, NEW i \in SpanIds, NEW x, span' = [span EXCEPT ![i] = x]
    PROVE  span'[i] = x /\ \A j \in SpanIds : j # i => span'[j] = span[j]
  BY DEF PathInv, TypeOK

LEMMA PathLifeInit == Init => SpanLife
<1> SUFFICES ASSUME Init, NEW c \in Calls
             PROVE  /\ span[Server(c)].state # "open" /\ pc[c] = "none"
                    /\ span[ClientSide(c)].state # "open" /\ wait[c] = "none"
  BY DEF SpanLife
<1>1. QED  BY PathSpanIds DEF Init, NoSpan

LEMMA PathLifeStep == PathInv /\ SpanLife /\ [Next]_vars => SpanLife'
<1> SUFFICES ASSUME PathInv, SpanLife, [Next]_vars, NEW d \in Calls
             PROVE  /\ span'[Server(d)].state = "open" <=> pc'[d] \in AtWork
                    /\ span'[ClientSide(d)].state = "open" <=> wait'[d] = "waiting"
  BY DEF SpanLife, AtWork
<1>0. /\ span[Server(d)].state = "open" <=> pc[d] \in AtWork
      /\ span[ClientSide(d)].state = "open" <=> wait[d] = "waiting"
  BY DEF SpanLife, AtWork
<1>t. pc \in [Calls -> {"none", "wire", "auth", "confirmed", "handler", "done", "failed"}]
      /\ wait \in [Calls -> {"none", "waiting", "ok", "failed"}]
  BY DEF PathInv, TypeOK
<1>1. CASE SpansRest
  BY <1>0, <1>1 DEF SpansRest
<1>2. ASSUME NEW c \in Calls, ServerStarts(c)
      PROVE  /\ span'[Server(d)].state = "open" <=> pc'[d] \in AtWork
             /\ span'[ClientSide(d)].state = "open" <=> wait'[d] = "waiting"
  <2>1. PICK r : span' = [span EXCEPT ![Server(c)] = Started(Server(c), r)]
    BY <1>2 DEF ServerStarts
  <2>2. /\ span'[Server(c)].state = "open"
        /\ \A j \in SpanIds : j # Server(c) => span'[j] = span[j]
    <3>1. Server(c) \in SpanIds /\ \A r1 : Started(Server(c), r1).state = "open"
      BY PathSpanIds DEF Started
    <3>2. QED  BY <2>1, <3>1, PathOneSpan
  <2>3. /\ pc'[c] \in AtWork /\ wait' = wait /\ \A e \in Calls : e # c => pc'[e] = pc[e]
    BY <1>2, <1>t DEF ServerStarts, AtWork
  <2>4. QED  BY <1>0, <2>2, <2>3, PathSpanIds
<1>3. ASSUME NEW c \in Calls, ClientStarts(c)
      PROVE  /\ span'[Server(d)].state = "open" <=> pc'[d] \in AtWork
             /\ span'[ClientSide(d)].state = "open" <=> wait'[d] = "waiting"
  <2>1. PICK r : span' = [span EXCEPT ![ClientSide(c)] = Started(ClientSide(c), r)]
    BY <1>3 DEF ClientStarts
  <2>2. /\ span'[ClientSide(c)].state = "open"
        /\ \A j \in SpanIds : j # ClientSide(c) => span'[j] = span[j]
    <3>1. ClientSide(c) \in SpanIds /\ \A r1 : Started(ClientSide(c), r1).state = "open"
      BY PathSpanIds DEF Started
    <3>2. QED  BY <2>1, <3>1, PathOneSpan
  <2>3. /\ pc[c] \notin AtWork /\ pc'[c] \notin AtWork /\ wait'[c] = "waiting"
        /\ \A e \in Calls : e # c => pc'[e] = pc[e] /\ wait'[e] = wait[e]
    BY <1>3, <1>t DEF ClientStarts, AtWork
  <2>4. QED  BY <1>0, <2>2, <2>3, PathSpanIds
<1>4. ASSUME NEW c \in Calls, ServerEnds(c)
      PROVE  /\ span'[Server(d)].state = "open" <=> pc'[d] \in AtWork
             /\ span'[ClientSide(d)].state = "open" <=> wait'[d] = "waiting"
  <2>1. /\ span'[Server(c)].state = "ended"
        /\ \A j \in SpanIds : j # Server(c) => span'[j] = span[j]
    <3>1. Server(c) \in SpanIds /\ Ended(Server(c)).state = "ended"
      BY PathSpanIds, PathEnded
    <3>2. QED  BY <1>4, <3>1, PathOneSpan DEF ServerEnds
  <2>2. /\ pc'[c] \notin AtWork /\ wait' = wait /\ \A e \in Calls : e # c => pc'[e] = pc[e]
    BY <1>4, <1>t DEF ServerEnds, AtWork
  <2>3. QED  BY <1>0, <2>1, <2>2, PathSpanIds
<1>5. ASSUME NEW c \in Calls, ClientEnds(c)
      PROVE  /\ span'[Server(d)].state = "open" <=> pc'[d] \in AtWork
             /\ span'[ClientSide(d)].state = "open" <=> wait'[d] = "waiting"
  <2>1. /\ span'[ClientSide(c)].state = "ended"
        /\ \A j \in SpanIds : j # ClientSide(c) => span'[j] = span[j]
    <3>1. ClientSide(c) \in SpanIds /\ Ended(ClientSide(c)).state = "ended"
      BY PathSpanIds, PathEnded
    <3>2. QED  BY <1>5, <3>1, PathOneSpan DEF ClientEnds
  <2>2. /\ wait'[c] # "waiting" /\ pc' = pc /\ \A e \in Calls : e # c => wait'[e] = wait[e]
    BY <1>5, <1>t DEF ClientEnds
  <2>3. QED  BY <1>0, <2>1, <2>2, PathSpanIds
<1>6. QED  BY <1>1, <1>2, <1>3, <1>4, <1>5, PathSpanStep

\* The inductive invariant: in particular no span stays open behind a call that
\* failed, panicked or was abandoned.
THEOREM PathIInv == Spec => []IInv
<1>1. Spec => []SpanLife
  <2>1. QED  BY PathLifeInit, PathLifeStep, PathInvariant, PTL DEF Spec
<1>2. QED  BY <1>1, PathInvariant, PTL DEF IInv

\* A span that has ended never changes, and one that was started keeps its
\* place: a call has one span on each side, started once and ended once.
THEOREM PathSpansAreFinal == Spec => SpansAreFinal
<1>1. IInv /\ [Next]_vars
        => [\A i \in SpanIds :
              /\ span[i].state # "none" =>
                   span'[i].state # "none" /\ span'[i].trace = span[i].trace
                     /\ span'[i].parent = span[i].parent
              /\ span[i].state = "ended" => span'[i] = span[i]]_vars
  <2> SUFFICES ASSUME IInv, [Next]_vars, NEW i \in SpanIds, span'[i] # span[i]
               PROVE  /\ span[i].state # "ended"
                      /\ span[i].state # "none" =>
                           span'[i].state # "none" /\ span'[i].trace = span[i].trace
                             /\ span'[i].parent = span[i].parent
    OBVIOUS
  <2>i. PathInv /\ SpanInv /\ SpanLife
    BY DEF IInv, PathInv
  <2>1. ASSUME NEW c \in Calls, ServerStarts(c) PROVE span[i].state = "none"
    <3>1. i = Server(c)
      BY <2>i, <2>1, PathSpanIds, PathOneSpan DEF ServerStarts
    <3>2. QED  BY <2>i, <2>1, <3>1 DEF SpanInv, ServerSpanOK, ServerStarts
  <2>2. ASSUME NEW c \in Calls, ClientStarts(c) PROVE span[i].state = "none"
    <3>1. i = ClientSide(c)
      BY <2>i, <2>2, PathSpanIds, PathOneSpan DEF ClientStarts
    <3>2. QED  BY <2>i, <2>2, <3>1 DEF SpanInv, ClientSpanOK, ClientStarts
  <2>3. ASSUME NEW c \in Calls, ServerEnds(c) \/ ClientEnds(c)
        PROVE  span[i].state = "open" /\ span'[i] = Ended(i)
    <3>1. \/ i = Server(c) /\ ServerEnds(c)
          \/ i = ClientSide(c) /\ ClientEnds(c)
      BY <2>i, <2>3, PathSpanIds, PathOneSpan DEF ServerEnds, ClientEnds
    <3>2. span'[i] = Ended(i)
      BY <2>i, <3>1, PathOneSpan DEF ServerEnds, ClientEnds
    <3>3. span[i].state = "open"
      BY <2>i, <3>1 DEF SpanLife, ServerEnds, ClientEnds, AtWork
    <3>4. QED  BY <3>2, <3>3
  <2>4. ~SpansRest
    BY DEF SpansRest
  <2>5. QED  BY <2>i, <2>1, <2>2, <2>3, <2>4, PathSpanStep, PathEnded
<1>2. QED  BY <1>1, PathIInv, PTL DEF Spec, SpansAreFinal

\* As long as a span is open somebody is at work on it: among the handlers that
\* run there is one that waits for no other. With the fairness of the services
\* this is EverySpanEnds.
THEOREM PathNobodyWaitsInVain == Spec => []NobodyWaitsInVain
<1>1. IInv => NobodyWaitsInVain
  <2> SUFFICES ASSUME IInv, NEW i \in SpanIds, span[i].state = "open",
                      \A c \in Calls : ~CallCanStep(c)
               PROVE  FALSE
    BY DEF NobodyWaitsInVain
  <2> DEFINE S == {c \in Calls : pc[c] = "handler"}
  <2>i. PathInv /\ SpanLife /\ IdentityInv
    BY DEF IInv, PathInv
  <2>1. ASSUME NEW c \in Calls, wait[c] = "waiting" \/ pc[c] \in AtWork PROVE c \in S
    <3>1. pc[c] \in {"none", "wire", "auth", "confirmed", "handler", "done", "failed"}
      BY <2>i DEF PathInv, TypeOK
    <3>2. wait[c] = "waiting" => pc[c] # "none"
      BY <2>i DEF IdentityInv, ConfirmedOK
    <3>3. QED  BY <2>1, <3>1, <3>2 DEF CallCanStep, AtWork
  <2>2. PICK c \in Calls : i = Server(c) \/ i = ClientSide(c)
    BY DEF SpanIds, Server, ClientSide
  <2>3. S # {}
    BY <2>i, <2>1, <2>2 DEF SpanLife, AtWork
  <2>4. PICK d \in S : \A e \in S : Caller[e] # d
    BY <2>3, TreeAssumption
  <2>5. PICK e \in Calls : Caller[e] = d /\ wait[e] = "waiting"
    BY <2>4 DEF CallCanStep
  <2>6. QED  BY <2>1, <2>4, <2>5
<1>2. QED  BY <1>1, PathIInv, PTL
====
