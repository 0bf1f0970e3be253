--------------------------- MODULE RequestPathInd ---------------------------
(***************************************************************************)
(* The inductive invariant of RequestPath. TLC checks it on the instance,  *)
(* RequestPathProofs proves it.                                            *)
(***************************************************************************)
EXTENDS RequestPath

Ids == Remotes \cup SpanIds \cup {None}
Metadata == [session : Seq(Sessions), remote : [trace : Ids, id : Ids], traceId : Ids]
UsersOrNone == {Owner[s] : s \in Sessions} \cup {None}

\* The state is made of calls, sessions, metadata and spans.
TypeOK ==
    /\ pc \in [Calls -> {"none", "wire", "auth", "confirmed", "handler", "done", "failed"}]
    /\ wait \in [Calls -> {"none", "waiting", "ok", "failed"}]
    /\ md \in [Calls -> Metadata] /\ out \in [Calls -> Metadata]
    /\ ctx \in [Calls -> [user : UsersOrNone, session : Sessions \cup {None}]]
    /\ span \in [SpanIds -> [state : {"none", "open", "ended"}, trace : Ids, parent : Ids]]
    /\ resp \in [Calls -> [status : Nat, added : BOOLEAN, header : Ids, sent : Nat]]
    /\ got \in [Calls -> Ids]
    /\ active \subseteq Sessions /\ reply \in [Calls -> UsersOrNone]
    /\ stale \in [Calls -> SUBSET Sessions]

Asked(c) == Head(md[c].session)

\* A call brings at most one session: that of the HTTP request, or that of the
\* context of its caller.
BroughtOK(c) ==
    /\ md[c].session = <<>> \/ \E s \in Sessions : md[c].session = <<s>>
    /\ c \notin Roots /\ md[c].session # <<>> =>
         ctx[Caller[c]] # NoContext /\ Asked(c) = ctx[Caller[c]].session
    /\ out[c].session = <<>>

\* A session that had ended does not come back. One is confirmed between the
\* arrival and the handler, whose context is made of it and of its user.
ConfirmedOK(c) ==
    /\ stale[c] \cap active = {}
    /\ pc[c] = "confirmed" =>
         md[c].session # <<>> /\ Asked(c) \notin stale[c] /\ reply[c] = Owner[Asked(c)]
    /\ ctx[c] # NoContext =>
         /\ md[c].session # <<>> /\ Asked(c) \notin stale[c]
         /\ ctx[c] = [user |-> Owner[Asked(c)], session |-> Asked(c)]
         /\ pc[c] \in {"handler", "done", "failed"}
    /\ pc[c] \in {"handler", "done"} => ctx[c] # NoContext
    /\ wait[c] = "ok" => pc[c] = "done" /\ c \notin Roots
    /\ wait[c] # "none" => pc[c] # "none" /\ c \notin Roots

IdentityInv == \A c \in Calls : BroughtOK(c) /\ ConfirmedOK(c)

\* The span of a call stands between those of its caller and of its server.
ClientSpanOK(c) ==
    /\ pc[c] # "none" /\ c \notin Roots => span[ClientSide(c)].state # "none"
    /\ span[ClientSide(c)].state # "none" =>
         /\ c \notin Roots /\ pc[c] # "none" /\ pc[Caller[c]] \notin {"none", "wire"}
         /\ span[ClientSide(c)].parent = Server(Caller[c])
         /\ span[ClientSide(c)].trace = TraceOf(Caller[c])
         /\ md[c].remote = [trace |-> TraceOf(Caller[c]), id |-> ClientSide(c)]

ServerSpanOK(c) ==
    /\ span[Server(c)].state = "none" <=> pc[c] \in {"none", "wire"}
    /\ span[Server(c)].state # "none" =>
         /\ span[Server(c)].parent = md[c].remote.id
         /\ TraceOf(c) = IF md[c].remote = NoRemote THEN Server(c) ELSE md[c].remote.trace
    /\ c \in Roots =>
         /\ pc[c] # "wire"
         /\ md[c].remote = NoRemote
              \/ md[c].remote \in {[trace |-> t, id |-> t] : t \in Remotes}

SpanInv == \A c \in Calls : ClientSpanOK(c) /\ ServerSpanOK(c)

\* The answer of an HTTP request is given once, by the end.
AnswerOK(c) ==
    /\ pc[c] \notin {"done", "failed"} => resp[c] = NoResponse
    /\ resp[c].sent # 0 => got[c] = TraceOf(c)

AnswerInv == \A c \in Roots : AnswerOK(c)

\* The state of a request on its way.
PathInv == TypeOK /\ IdentityInv /\ SpanInv /\ AnswerInv

\* A span is open exactly while its side of the call is at work, and ended when
\* that is over, however it ended: an answer, an error, a panic, a deadline.
SpanLife ==
    \A c \in Calls :
      /\ span[Server(c)].state = "open" <=> pc[c] \in {"auth", "confirmed", "handler"}
      /\ span[ClientSide(c)].state = "open" <=> wait[c] = "waiting"

\* The inductive invariant.
IInv == PathInv /\ SpanLife

-----------------------------------------------------------------------------
(* What waits for what.                                                    *)

\* Calls are made one after the other: the last of some calls has made none of
\* the others.
ASSUME TreeAssumption ==
    \A S \in SUBSET Calls : S # {} => \E c \in S : \A d \in S : Caller[d] # c

\* A service is going to take the call or IAM to answer, its handler has no
\* call to wait for, or its answer is on the way back.
CallCanStep(c) ==
    \/ pc[c] \in {"wire", "auth", "confirmed"}
    \/ pc[c] = "handler" /\ \A d \in Calls : Caller[d] = c => wait[d] # "waiting"
    \/ pc[c] \in {"done", "failed"} /\ wait[c] = "waiting"

\* As long as a span is open there is a call that can go on, without a panic, a
\* deadline or a new request: the calls of a request never wait for each other
\* in a circle, nor for one that is over.
NobodyWaitsInVain ==
    (\E i \in SpanIds : span[i].state = "open") => \E c \in Calls : CallCanStep(c)

\* A span that was started keeps its trace and its place in the tree, and one
\* that has ended, and may be exported, never changes again.
SpansAreFinal ==
    [][\A i \in SpanIds :
         /\ span[i].state # "none" =>
              span'[i].state # "none" /\ span'[i].trace = span[i].trace
                /\ span'[i].parent = span[i].parent
         /\ span[i].state = "ended" => span'[i] = span[i]]_vars
=============================================================================
