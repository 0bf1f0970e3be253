---------------------------- MODULE RequestPath ----------------------------
(***************************************************************************)
(* A request on its way through the services: the tracing and the          *)
(* authentication of the HTTP service that it reaches first, its handler,  *)
(* and for every gRPC call that a handler makes the tracing of the client, *)
(* that of the server, the authentication there and the next handler       *)
(* (week6/boilerplates/middleware, week7/boilerplates/tracing).            *)
(*                                                                         *)
(* Calls form a tree. Those of a handler may run at the same time, and     *)
(* many requests are under way; they meet in the IAM service, where a      *)
(* session may end at any moment. The handlers, net/http, gRPC, the SDK of *)
(* OpenTelemetry and IAM are external. Tracing stands outside of the       *)
(* authentication.                                                         *)
(*                                                                         *)
(* A definition whose name begins with Bug is the next one with a mistake. *)
(***************************************************************************)
EXTENDS Integers, Sequences

CONSTANTS
    Calls,      \* all calls of all requests
    Caller,     \* the call whose handler makes a call, or Client
    Client,     \* makes the HTTP requests
    Sessions,
    Owner,      \* the user of a session
    Headers,    \* what HTTP requests bring: a session, a span of the client
    Remotes,    \* spans of the client, each with a trace of its own
    None

Roots == {c \in Calls : Caller[c] = Client}

SpanIds == {"server", "client"} \X Calls
Server(c) == <<"server", c>>
ClientSide(c) == <<"client", c>>

NoRemote == [trace |-> None, id |-> None]

ASSUME PathAssumption ==
    /\ Client \notin Calls /\ Caller \in [Calls -> Calls \cup {Client}]
    /\ \A c \in Calls : Caller[c] # c
    /\ DOMAIN Owner = Sessions /\ \A s \in Sessions : Owner[s] # None
    /\ None \notin Sessions \cup Remotes \cup SpanIds
    /\ Headers \subseteq [session : {<<>>} \cup {<<s>> : s \in Sessions},
                          remote : {NoRemote} \cup {[trace |-> t, id |-> t] : t \in Remotes}]

VARIABLES
    pc,       \* where a call is on the side of the server; "failed" with an error
    wait,     \* what the client interceptor of a gRPC call knows of it
    md,       \* metadata, or headers, that a call came with
    ctx,      \* user and session in the context of its handler
    out,      \* outgoing metadata in this context
    span,     \* the spans of the server and of the client of a call
    resp,     \* traceResponseWriter and the header of an HTTP response
    got,      \* the trace ID that came back to the caller with the answer
    active,   \* IAM: sessions that have not ended
    reply,    \* IAM: the user it confirmed for a call
    stale     \* the sessions that had ended when a call came

serverVars == <<pc, ctx, out, resp>>
iamVars == <<active, reply, stale>>
vars == <<serverVars, wait, md, span, got, iamVars>>

NoSpan == [state |-> "none", trace |-> None, parent |-> None]
NoMetadata == [session |-> <<>>, remote |-> NoRemote, traceId |-> None]
NoContext == [user |-> None, session |-> None]
NoResponse == [status |-> 0, added |-> FALSE, header |-> None, sent |-> 0]

Init ==
    /\ pc = [c \in Calls |-> "none"] /\ wait = [c \in Calls |-> "none"]
    /\ md = [c \in Calls |-> NoMetadata] /\ out = [c \in Calls |-> NoMetadata]
    /\ ctx = [c \in Calls |-> NoContext] /\ span = [i \in SpanIds |-> NoSpan]
    /\ resp = [c \in Calls |-> NoResponse] /\ got = [c \in Calls |-> None]
    /\ active = Sessions /\ reply = [c \in Calls |-> None]
    /\ stale = [c \in Calls |-> {}]

-----------------------------------------------------------------------------
(* Spans.                                                                  *)

\* tracer.Start: a child of the span in the context, or the root of a trace.
Started(i, remote) ==
    [state |-> "open", parent |-> remote.id,
     trace |-> IF remote = NoRemote THEN i ELSE remote.trace]

SpanContext(i) == [trace |-> span[i].trace, id |-> i]

Ended(i) == [span[i] EXCEPT !.state = "ended"]

TraceOf(c) == span[Server(c)].trace

-----------------------------------------------------------------------------
(* The response writer.                                                    *)

BugWithTrace(c, r) == r                       \* headers after the status line
WithTrace(c, r) ==
    IF r.added THEN r ELSE [r EXCEPT !.header = TraceOf(c), !.added = TRUE]

\* The first status that net/http is given is the one it sends.
Sent(r, code) == IF r.sent = 0 THEN [r EXCEPT !.sent = code] ELSE r

WriteHeader(c, r, code) == Sent(WithTrace(c, [r EXCEPT !.status = code]), code)

Write(c, r) ==
    Sent(WithTrace(c, [r EXCEPT !.status = IF @ = 0 THEN 200 ELSE @]), 200)

\* The header goes out with the status.
Answered(c, r) == IF resp[c].sent = 0 /\ r.sent # 0 THEN r.header ELSE got[c]

\* writeErrorResponse: the body may fail to be written, and a second answer is
\* tried.
ErrorResponses(c) ==
    LET r == Write(c, WriteHeader(c, resp[c], 401))
    IN {r, Write(c, WriteHeader(c, r, 500))}

\* What a handler writes: nothing, a status, or a body and then a status.
Responses(c) ==
    {resp[c], WriteHeader(c, resp[c], 500), WriteHeader(c, Write(c, resp[c]), 500)}

\* The answer of an HTTP request is one of these; gRPC has another way.
Answer(c, responses) ==
    IF c \in Roots
    THEN \E r \in responses :
           /\ resp' = [resp EXCEPT ![c] = r]
           /\ got' = [got EXCEPT ![c] = Answered(c, r)]
    ELSE UNCHANGED <<resp, got>>

-----------------------------------------------------------------------------
(* A call arrives.                                                         *)

Arrive(c) == stale' = [stale EXCEPT ![c] = Sessions \ active]

\* HTTPHandlerMiddleware, up to the next handler.
Request(c) ==
    /\ pc[c] = "none" /\ c \in Roots
    /\ \E h \in Headers :
         /\ md' = [md EXCEPT ![c] = [session |-> h.session, remote |-> h.remote, traceId |-> None]]
         /\ span' = [span EXCEPT ![Server(c)] = Started(Server(c), h.remote)]
    /\ pc' = [pc EXCEPT ![c] = "auth"]
    /\ Arrive(c)
    /\ UNCHANGED <<wait, ctx, out, resp, got, active, reply>>

\* ForwardSessionUUIDToGRPC. The receiver takes the first value.
Forward(c) ==
    IF ctx[c].session = None THEN out[c]
    ELSE [out[c] EXCEPT !.session = Append(@, ctx[c].session)]

BugInjected(c) == SpanContext(Server(Caller[c]))   \* injected before the span starts
Injected(c) ==
    [trace |-> Started(ClientSide(c), SpanContext(Server(Caller[c]))).trace, id |-> ClientSide(c)]

\* A handler makes a gRPC call, with or without its session, through
\* UnaryClientInterceptor.
Call(c) ==
    /\ pc[c] = "none" /\ c \notin Roots /\ pc[Caller[c]] = "handler"
    /\ \E outgoing \in {out[Caller[c]], Forward(Caller[c])} :
         md' = [md EXCEPT ![c] = [outgoing EXCEPT !.remote = Injected(c)]]
    /\ span' = [span EXCEPT ![ClientSide(c)] =
                  Started(ClientSide(c), SpanContext(Server(Caller[c])))]
    /\ pc' = [pc EXCEPT ![c] = "wire"] /\ wait' = [wait EXCEPT ![c] = "waiting"]
    /\ UNCHANGED <<ctx, out, resp, got, iamVars>>

BugOutgoingMetadata(c) == md[c]               \* the incoming ones are taken
OutgoingMetadata(c) == NoMetadata

\* UnaryServerInterceptor, up to the handler. AddTraceIDToResponse puts the
\* trace ID into the metadata of the calls that the handler is going to make.
Serve(c) ==
    LET s == Started(Server(c), md[c].remote)
    IN /\ pc[c] = "wire"
       /\ span' = [span EXCEPT ![Server(c)] = s]
       /\ out' = [out EXCEPT ![c] = [OutgoingMetadata(c) EXCEPT !.traceId = s.trace]]
       /\ pc' = [pc EXCEPT ![c] = "auth"]
       /\ Arrive(c)
       /\ UNCHANGED <<wait, md, ctx, resp, got, active, reply>>

-----------------------------------------------------------------------------
(* Authentication.                                                         *)

BugValid(s) == s \in active \/ \E c \in Calls : ctx[c].session = s   \* a cache
Valid(s) == s \in active

\* IAM confirms the session of a call: Whoami.
Whoami(c) ==
    /\ pc[c] = "auth" /\ md[c].session # <<>> /\ Valid(Head(md[c].session))
    /\ reply' = [reply EXCEPT ![c] = Owner[Head(md[c].session)]]
    /\ pc' = [pc EXCEPT ![c] = "confirmed"]
    /\ UNCHANGED <<ctx, out, resp, wait, md, span, got, active, stale>>

\* The contexts that authenticate, or Handle, may hand on.
BugContexts(c) ==                             \* the answer is kept in the interceptor
    {[user |-> reply[d], session |-> Head(md[c].session)] :
       d \in {d \in Calls : reply[d] # None}}
Contexts(c) == {[user |-> reply[c], session |-> Head(md[c].session)]}

\* The answer is there: the handler starts.
Authenticated(c) ==
    /\ pc[c] = "confirmed"
    /\ \E x \in Contexts(c) : ctx' = [ctx EXCEPT ![c] = x]
    /\ pc' = [pc EXCEPT ![c] = "handler"]
    /\ UNCHANGED <<out, resp, wait, md, span, got, iamVars>>

\* The session is missing or has ended, IAM cannot be reached, its answer is lost.
Unauthenticated(c) ==
    /\ pc[c] \in {"auth", "confirmed"}
    /\ Answer(c, ErrorResponses(c))
    /\ pc' = [pc EXCEPT ![c] = "failed"]
    /\ span' = [span EXCEPT ![Server(c)] = Ended(Server(c))]
    /\ UNCHANGED <<ctx, out, wait, md, iamVars>>

-----------------------------------------------------------------------------
(* Handlers (external) and the way back.                                   *)

\* A handler writes its answer and returns, when the calls that it made have
\* returned; the span is ended in a deferred call.
Return(c) ==
    /\ pc[c] = "handler"
    /\ \A d \in Calls : Caller[d] = c => wait[d] # "waiting"
    /\ \E how \in (IF c \in Roots THEN {"done"} ELSE {"done", "failed"}) :
         pc' = [pc EXCEPT ![c] = how]
    /\ Answer(c, Responses(c))
    /\ span' = [span EXCEPT ![Server(c)] = Ended(Server(c))]
    /\ UNCHANGED <<ctx, out, wait, md, iamVars>>

\* A handler panics, perhaps with calls still under way; net/http recovers it,
\* and the deferred calls are run.
BugSpanAfterPanic(c) == span[Server(c)]       \* span.End not deferred
SpanAfterPanic(c) == Ended(Server(c))

Panic(c) ==
    /\ pc[c] = "handler" /\ c \in Roots
    /\ pc' = [pc EXCEPT ![c] = "done"]
    /\ Answer(c, Responses(c))
    /\ span' = [span EXCEPT ![Server(c)] = SpanAfterPanic(c)]
    /\ UNCHANGED <<ctx, out, wait, md, iamVars>>

\* No metadata is ever set on the answer of a gRPC call.
AnswerTrace(c) == None

BugOutcome(c) == "ok"                         \* the error is dropped on the way
Outcome(c) == IF pc[c] = "done" THEN "ok" ELSE "failed"

\* The answer reaches UnaryClientInterceptor.
Receive(c) ==
    /\ wait[c] = "waiting" /\ pc[c] \in {"done", "failed"}
    /\ wait' = [wait EXCEPT ![c] = Outcome(c)]
    /\ got' = [got EXCEPT ![c] = AnswerTrace(c)]
    /\ span' = [span EXCEPT ![ClientSide(c)] = Ended(ClientSide(c))]
    /\ UNCHANGED <<serverVars, md, iamVars>>

\* The call fails on the side of the client: deadline, cancelled context,
\* broken connection. The server may be at work on it, or get it later.
Abandon(c) ==
    /\ wait[c] = "waiting"
    /\ wait' = [wait EXCEPT ![c] = "failed"]
    /\ span' = [span EXCEPT ![ClientSide(c)] = Ended(ClientSide(c))]
    /\ UNCHANGED <<serverVars, md, got, iamVars>>

\* IAM: a session expires, or its user logs out.
EndSession(s) ==
    /\ s \in active
    /\ active' = active \ {s}
    /\ UNCHANGED <<serverVars, wait, md, span, got, reply, stale>>

-----------------------------------------------------------------------------
Handle(c) == Authenticated(c) \/ Return(c) \/ Panic(c)

Next ==
    \/ \E c \in Calls :
         \/ Request(c) \/ Call(c) \/ Serve(c)
         \/ Whoami(c) \/ Unauthenticated(c) \/ Handle(c)
         \/ Receive(c) \/ Abandon(c)
    \/ \E s \in Sessions : EndSession(s)

Spec == Init /\ [][Next]_vars

\* Goroutines run, handlers return, answers that were given arrive: as long as
\* there is such a step, one is taken.
Fairness == WF_vars(\E c \in Calls : Handle(c) \/ Receive(c))

\* Services that are called are there, and IAM answers or fails: no timeout of
\* the middleware bounds either.
ServicesAnswer == WF_vars(\E c \in Calls : Serve(c) \/ Whoami(c) \/ Unauthenticated(c))

FairSpec == Spec /\ Fairness

-----------------------------------------------------------------------------
(* Properties.                                                             *)

\* A handler acts for the user of the session that the client sent with the
\* request: all handlers of a request do, however many requests are under way
\* and whatever becomes of them, and IAM has confirmed the session to each.
OneIdentity ==
    \A c \in Calls : ctx[c] # NoContext =>
      /\ ctx[c].session \in Sessions /\ ctx[c].user = Owner[ctx[c].session]
      /\ IF c \in Roots THEN <<ctx[c].session>> = md[c].session
                        ELSE ctx[c].session = ctx[Caller[c]].session

\* A session that had ended when a call came lets no handler of it run, also if
\* it was good for the caller a moment before.
NoEndedSession == \A c \in Calls : ctx[c].session \notin stale[c]

\* A caller takes a call for done only if its handler was let in, under the
\* session of the caller.
OkWasAuthorised ==
    \A c \in Calls : wait[c] = "ok" =>
      ctx[c] # NoContext /\ ctx[c].session = ctx[Caller[c]].session

\* The spans of a request form one tree in one trace (week7/hw.md:73), that of
\* the client if it has one: the span of a server hangs on that of the call.
OneTrace ==
    \A c \in Calls :
      /\ span[ClientSide(c)].state # "none" =>
           /\ span[ClientSide(c)].parent = Server(Caller[c])
           /\ span[ClientSide(c)].trace = TraceOf(Caller[c])
      /\ span[Server(c)].state # "none" =>
           IF c \in Roots
           THEN /\ span[Server(c)].parent = md[c].remote.id
                /\ TraceOf(c) = IF md[c].remote = NoRemote THEN Server(c) ELSE md[c].remote.id
           ELSE /\ span[Server(c)].parent = ClientSide(c)
                /\ TraceOf(c) = span[ClientSide(c)].trace

\* An HTTP answer that was written carries the trace ID of its request
\* (http_middleware.go:35), and keeps it whatever is written afterwards.
AnswerHasTrace ==
    \A c \in Roots : resp[c].sent # 0 => got[c] = TraceOf(c)

\* A gRPC client gets the trace ID back with the answer (grpc_interceptor.go:60,
\* grpc_interceptor.go:149-150).
ClientGetsTraceId ==
    \A c \in Calls : wait[c] = "ok" => got[c] = TraceOf(c)

\* Every span that was started is ended, and so exported: after an error, an
\* answer that never came, a client that went away, a panic. Calls are finitely
\* many here, so that in the end no span is open.
EverySpanEnds ==
    LET open == {i \in SpanIds : span[i].state = "open"}
    IN ServicesAnswer => (open # {} ~> open = {})
=============================================================================
