--------------------------- MODULE KafkaConsumer ---------------------------
(***************************************************************************)
(* The Kafka consumer of the platform library (week5/boilerplates/kafka/   *)
(* consumer): the loop of consumer.Consume, which enters a consumer group  *)
(* again after every rebalance, and groupHandler.ConsumeClaim, which hands *)
(* the messages of one partition to the handler and marks the ones that    *)
(* succeed.                                                                *)
(*                                                                         *)
(* The broker and the client library (sarama) are external: a topic is     *)
(* append-only partitions; members that have joined get a new generation;  *)
(* a session starts each claimed partition at its committed offset, feeds  *)
(* a channel, commits the marked offsets now and then and when it ends,    *)
(* and a member that the broker has given up cannot commit any more.       *)
(*                                                                         *)
(* A definition whose name begins with Bug is the next one with a mistake  *)
(* in it, as in Closer.                                                    *)
(***************************************************************************)
EXTENDS Integers, FiniteSets

CONSTANTS
    Members,         \* processes that run the consumer in one group
    Partitions,      \* partitions of the topic
    MaxMessages,     \* bound on the messages of a partition
    MaxGenerations,  \* bound on the generations of the group
    CanCancel,       \* members whose context may be cancelled
    CanClose,        \* members whose sarama group may be closed
    CanCrash,        \* members that may crash (and restart)
    MaxCrashes,      \* bound on crashes
    CanFail,         \* members whose group.Consume may fail to join
    NoMember

ASSUME ConsumerAssumption ==
    /\ NoMember \notin Members
    /\ MaxMessages \in Nat /\ MaxGenerations \in Nat /\ MaxCrashes \in Nat

VARIABLES
    end,        \* messages produced to a partition: offsets 0 .. end - 1
    committed,  \* the broker's committed offset: the next one to be read
    owner,      \* the member a partition is assigned to
    fenced,     \* members that the broker no longer counts in the generation
    generation, \* generations of the group so far
    loop,       \* where consumer.Consume of a member is
    ret,        \* what it returned
    ctxDone,    \* members whose context is done
    closed,     \* members whose group is closed
    crashes,    \* crashes so far
    sessDone,   \* members whose session context is done for another reason
    claim,      \* where ConsumeClaim of a member and a partition is
    fetched,    \* offsets below it were put in the channel of the claim
    next,       \* the next offset to be received from that channel
    marked,     \* the offset marked in the session
    chClosed,   \* the channel of the claim is closed
    succeeded,  \* offsets whose handler has ever returned nil
    failed      \* offsets whose handler has ever returned an error

brokerVars == <<committed, owner, fenced, generation>>
memberVars == <<loop, ret, ctxDone, closed, crashes, sessDone>>
claimVars == <<claim, fetched, next, marked, chClosed>>
histVars == <<succeeded, failed>>
vars == <<end, brokerVars, memberVars, claimVars, histVars>>

Offsets == 0..MaxMessages
Claims == Members \X Partitions

\* "off" before Consume is called, "loop" at the head of its for loop,
\* "joining" and "session" inside group.Consume, "check" after it.
LoopStates == {"off", "loop", "joining", "session", "check", "returned"}
ClaimStates == {"none", "select", "handling", "marking", "exited"}

Init ==
    /\ end = [p \in Partitions |-> 0] /\ committed = [p \in Partitions |-> 0]
    /\ owner = [p \in Partitions |-> NoMember]
    /\ fenced = Members /\ generation = 0
    /\ loop = [m \in Members |-> "off"] /\ ret = [m \in Members |-> "none"]
    /\ ctxDone = {} /\ closed = {} /\ sessDone = {} /\ crashes = 0
    /\ claim = [c \in Claims |-> "none"] /\ fetched = [c \in Claims |-> 0]
    /\ next = [c \in Claims |-> 0] /\ marked = [c \in Claims |-> 0]
    /\ chClosed = [c \in Claims |-> FALSE]
    /\ succeeded = [p \in Partitions |-> {}] /\ failed = [p \in Partitions |-> {}]

\* The context of a session is derived from the one given to Consume.
SessionOver(m) == m \in sessDone \cup ctxDone \cup closed

-----------------------------------------------------------------------------
(* consumer.Consume.                                                       *)

LoopGoto(m, l) == loop' = [loop EXCEPT ![m] = l]

Return(m, r) ==
    /\ LoopGoto(m, "returned")
    /\ ret' = [ret EXCEPT ![m] = r]

\* The program calls Consume; it does so again when it restarts after a crash.
Consume(m) ==
    /\ loop[m] = "off"
    /\ LoopGoto(m, "loop")
    /\ UNCHANGED <<end, brokerVars, ret, ctxDone, closed, crashes, sessDone, claimVars, histVars>>

GroupConsume(m) ==
    /\ loop[m] = "loop"
    /\ LoopGoto(m, "joining")
    /\ UNCHANGED <<end, brokerVars, ret, ctxDone, closed, crashes, sessDone, claimVars, histVars>>

BugGroupError(m) ==
    /\ loop[m] = "joining"
    /\ m \in closed \cup ctxDone \cup CanFail
    /\ LoopGoto(m, "loop")                    \* every error is tried again
    /\ UNCHANGED <<end, brokerVars, ret, ctxDone, closed, crashes, sessDone, claimVars, histVars>>

\* group.Consume returns an error: ErrClosedConsumerGroup is a normal end, any
\* other one - the context's, or one that a retry might have cured - is final.
GroupError(m) ==
    /\ loop[m] = "joining"
    /\ \/ m \in closed /\ Return(m, "nil")
       \/ m \in ctxDone /\ Return(m, "ctx")
       \/ m \in CanFail /\ Return(m, "error")
    /\ UNCHANGED <<end, brokerVars, ctxDone, closed, crashes, sessDone, claimVars, histVars>>

BugReturnAfterSession(m) ==
    /\ loop[m] = "check"
    /\ Return(m, "nil")                       \* no loop around group.Consume
    /\ UNCHANGED <<end, brokerVars, ctxDone, closed, crashes, sessDone, claimVars, histVars>>

\* group.Consume has returned nil.
CheckContext(m) ==
    /\ loop[m] = "check"
    /\ IF m \in ctxDone THEN Return(m, "ctx") ELSE LoopGoto(m, "loop") /\ UNCHANGED ret
    /\ UNCHANGED <<end, brokerVars, ctxDone, closed, crashes, sessDone, claimVars, histVars>>

-----------------------------------------------------------------------------
(* groupHandler.ConsumeClaim. When a message and the end of the session    *)
(* are both there, select takes any of them.                               *)

ClaimGoto(c, l) == claim' = [claim EXCEPT ![c] = l]

Receive(c) ==
    /\ claim[c] = "select" /\ next[c] < fetched[c]
    /\ next' = [next EXCEPT ![c] = @ + 1]
    /\ ClaimGoto(c, "handling")
    /\ UNCHANGED <<end, brokerVars, memberVars, fetched, marked, chClosed, histVars>>

\* The message being handled.
Current(c) == next[c] - 1

BugHandlerError(c) ==
    /\ claim[c] = "handling"
    /\ failed' = [failed EXCEPT ![c[2]] = @ \cup {Current(c)}]
    /\ ClaimGoto(c, "marking")                \* without the continue
    /\ UNCHANGED <<end, brokerVars, memberVars, fetched, next, marked, chClosed, succeeded>>

\* The handler, with its middlewares, fails: the message is not marked and the
\* loop goes on with the next one.
HandlerError(c) ==
    /\ claim[c] = "handling"
    /\ failed' = [failed EXCEPT ![c[2]] = @ \cup {Current(c)}]
    /\ ClaimGoto(c, "select")
    /\ UNCHANGED <<end, brokerVars, memberVars, fetched, next, marked, chClosed, succeeded>>

HandlerOk(c) ==
    /\ claim[c] = "handling"
    /\ succeeded' = [succeeded EXCEPT ![c[2]] = @ \cup {Current(c)}]
    /\ ClaimGoto(c, "marking")
    /\ UNCHANGED <<end, brokerVars, memberVars, fetched, next, marked, chClosed, failed>>

\* session.MarkMessage: the mark never goes back.
BugMarkTo(c) == fetched[c]                    \* everything received by the client
MarkTo(c) == next[c]

MarkMessage(c) ==
    /\ claim[c] = "marking"
    /\ marked' = [marked EXCEPT ![c] = IF MarkTo(c) > @ THEN MarkTo(c) ELSE @]
    /\ ClaimGoto(c, "select")
    /\ UNCHANGED <<end, brokerVars, memberVars, fetched, next, chClosed, histVars>>

BugClaimExit(c) ==                            \* the end of the session comes before the mark
    /\ \/ claim[c] = "select" /\ chClosed[c] /\ next[c] = fetched[c]
       \/ claim[c] \in {"select", "marking"} /\ SessionOver(c[1])
    /\ ClaimGoto(c, "exited")
    /\ sessDone' = sessDone \cup {c[1]}
    /\ UNCHANGED <<end, brokerVars, loop, ret, ctxDone, closed, crashes, fetched, next,
                   marked, chClosed, histVars>>

\* ConsumeClaim returns: the channel is closed and empty, or the session is
\* over. The first claim to return ends the session for the others.
ClaimExit(c) ==
    /\ claim[c] = "select"
    /\ (chClosed[c] /\ next[c] = fetched[c]) \/ SessionOver(c[1])
    /\ ClaimGoto(c, "exited")
    /\ sessDone' = sessDone \cup {c[1]}
    /\ UNCHANGED <<end, brokerVars, loop, ret, ctxDone, closed, crashes, fetched, next,
                   marked, chClosed, histVars>>

-----------------------------------------------------------------------------
(* The client library and the broker.                                      *)

Produce(p) ==
    /\ end[p] < MaxMessages
    /\ end' = [end EXCEPT ![p] = @ + 1]
    /\ UNCHANGED <<brokerVars, memberVars, claimVars, histVars>>

\* A message is fetched into the channel of a claim, as long as that is open:
\* also while the session ends.
Fetch(c) ==
    /\ loop[c[1]] = "session" /\ claim[c] \notin {"none", "exited"}
    /\ ~chClosed[c] /\ fetched[c] < end[c[2]]
    /\ fetched' = [fetched EXCEPT ![c] = @ + 1]
    /\ UNCHANGED <<end, brokerVars, memberVars, claim, next, marked, chClosed, histVars>>

\* The session over, the channels of its claims are closed.
CloseChannel(c) ==
    /\ loop[c[1]] = "session" /\ SessionOver(c[1]) /\ ~chClosed[c]
    /\ chClosed' = [chClosed EXCEPT ![c] = TRUE]
    /\ UNCHANGED <<end, brokerVars, memberVars, claim, fetched, next, marked, histVars>>

\* Where the claim of a partition starts. The group has committed nothing at
\* first and then starts at the oldest message (a setting of the program).
StartAt(p) == committed[p]

\* The members that have joined form a generation once every other one has
\* left its session or has been given up.
NewGeneration ==
    /\ generation < MaxGenerations
    /\ \A m \in Members : loop[m] = "session" => m \in fenced
    /\ LET joined == {m \in Members : loop[m] = "joining" /\ m \notin closed} IN
       \E asg \in [Partitions -> joined] :
         /\ joined # {}
         /\ owner' = asg
         /\ fenced' = Members \ joined
         /\ loop' = [m \in Members |-> IF m \in joined THEN "session" ELSE loop[m]]
         /\ sessDone' = sessDone \ joined
         /\ claim' = [c \in Claims |->
                        IF c[1] \notin joined THEN claim[c]
                        ELSE IF asg[c[2]] = c[1] THEN "select" ELSE "none"]
         /\ fetched' = [c \in Claims |-> IF c[1] \in joined THEN StartAt(c[2]) ELSE fetched[c]]
         /\ next' = [c \in Claims |-> IF c[1] \in joined THEN StartAt(c[2]) ELSE next[c]]
         /\ marked' = [c \in Claims |-> IF c[1] \in joined THEN committed[c[2]] ELSE marked[c]]
         /\ chClosed' = [c \in Claims |-> c[1] \notin joined /\ chClosed[c]]
    /\ generation' = generation + 1
    /\ UNCHANGED <<end, committed, ret, ctxDone, closed, crashes, histVars>>

\* A heartbeat tells a member that the group rebalances or has expelled it.
Rebalance(m) ==
    /\ generation < MaxGenerations \/ m \in fenced
    /\ loop[m] = "session" /\ m \notin sessDone
    /\ sessDone' = sessDone \cup {m}
    /\ UNCHANGED <<end, brokerVars, loop, ret, ctxDone, closed, crashes, claimVars, histVars>>

\* The broker gives up a member that does not answer; the member goes on.
Expel(m) ==
    /\ generation < MaxGenerations
    /\ loop[m] = "session" /\ m \notin fenced
    /\ fenced' = fenced \cup {m}
    /\ UNCHANGED <<end, committed, owner, generation, memberVars, claimVars, histVars>>

\* The broker accepts a commit of a member of the current generation only.
Accepted(c) == loop[c[1]] = "session" /\ c[1] \notin fenced

AutoCommit(c) ==
    /\ Accepted(c) /\ claim[c] # "none" /\ marked[c] # committed[c[2]]
    /\ committed' = [committed EXCEPT ![c[2]] = marked[c]]
    /\ UNCHANGED <<end, owner, fenced, generation, memberVars, claimVars, histVars>>

\* group.Consume returns nil: every claim has returned, and the marks are
\* committed - or the commit fails, which is only logged.
SessionEnd(m) ==
    /\ loop[m] = "session" /\ SessionOver(m)
    /\ \A p \in Partitions : claim[<<m, p>>] \in {"none", "exited"}
    /\ \/ committed' = [p \in Partitions |->
                          IF Accepted(<<m, p>>) /\ claim[<<m, p>>] = "exited"
                          THEN marked[<<m, p>>] ELSE committed[p]]
       \/ UNCHANGED committed
    /\ LoopGoto(m, "check")
    /\ UNCHANGED <<end, owner, fenced, generation, ret, ctxDone, closed, crashes, sessDone,
                   claimVars, histVars>>

-----------------------------------------------------------------------------
(* The program around the consumer.                                        *)

Cancel(m) ==
    /\ m \in CanCancel \ ctxDone
    /\ ctxDone' = ctxDone \cup {m}
    /\ UNCHANGED <<end, brokerVars, loop, ret, closed, crashes, sessDone, claimVars, histVars>>

CloseGroup(m) ==
    /\ m \in CanClose \ closed
    /\ closed' = closed \cup {m}
    /\ UNCHANGED <<end, brokerVars, loop, ret, ctxDone, crashes, sessDone, claimVars, histVars>>

\* The process crashes and is started again, with a context of its own.
Crash(m) ==
    /\ m \in CanCrash /\ crashes < MaxCrashes /\ generation < MaxGenerations
    /\ loop[m] \notin {"off", "returned"}
    /\ LoopGoto(m, "off") /\ crashes' = crashes + 1
    /\ fenced' = fenced \cup {m}
    /\ ctxDone' = ctxDone \ {m} /\ closed' = closed \ {m}
    /\ claim' = [c \in Claims |-> IF c[1] = m THEN "none" ELSE claim[c]]
    /\ UNCHANGED <<end, committed, owner, generation, ret, sessDone, fetched, next,
                   marked, chClosed, histVars>>

-----------------------------------------------------------------------------
HandlerReturns(c) == HandlerOk(c) \/ HandlerError(c)

ClaimStep(c) == Receive(c) \/ HandlerReturns(c) \/ MarkMessage(c) \/ ClaimExit(c)

LoopStep(m) == GroupConsume(m) \/ CheckContext(m)

\* All steps but those of the producers.
GroupNext ==
    \/ \E m \in Members :
         \/ Consume(m) \/ LoopStep(m) \/ GroupError(m) \/ SessionEnd(m)
         \/ Rebalance(m) \/ Expel(m) \/ Cancel(m) \/ CloseGroup(m) \/ Crash(m)
    \/ \E c \in Claims : ClaimStep(c) \/ Fetch(c) \/ CloseChannel(c) \/ AutoCommit(c)
    \/ NewGeneration

Next == GroupNext \/ \E p \in Partitions : Produce(p)

Spec == Init /\ [][Next]_vars

\* When a member waits to join, or the owner of a partition has left or was
\* expelled, the broker asks the others to leave their sessions and join.
MustRebalance ==
    \/ \E n \in Members : loop[n] = "joining"
    \/ \E p \in Partitions :
         owner[p] \in fenced \/ (owner[p] \in Members /\ loop[owner[p]] # "session")

\* The goroutines run, handlers return, the client library fetches, closes
\* channels, ends sessions, reports a closed group or a done context, a group
\* rebalances when it must, and one with members forms its generation. The
\* program calls Consume. Nothing makes it cancel, close, crash or produce.
Fairness ==
    /\ \A c \in Claims :
         /\ WF_vars(ClaimStep(c)) /\ WF_vars(Fetch(c)) /\ WF_vars(CloseChannel(c))
    /\ \A m \in Members :
         /\ WF_vars(Consume(m)) /\ WF_vars(LoopStep(m)) /\ WF_vars(SessionEnd(m))
         /\ WF_vars(m \in ctxDone \cup closed /\ GroupError(m))
         /\ WF_vars(MustRebalance /\ Rebalance(m))
    /\ WF_vars(NewGeneration)

FairSpec == Spec /\ Fairness

-----------------------------------------------------------------------------
(* Safety.                                                                 *)

\* Every variable has its type.
TypeOK ==
    /\ end \in [Partitions -> Offsets] /\ committed \in [Partitions -> Offsets]
    /\ owner \in [Partitions -> Members \cup {NoMember}]
    /\ fenced \subseteq Members /\ generation \in 0..MaxGenerations /\ crashes \in 0..MaxCrashes
    /\ loop \in [Members -> LoopStates]
    /\ ret \in [Members -> {"none", "nil", "ctx", "error"}]
    /\ ctxDone \subseteq Members /\ closed \subseteq Members /\ sessDone \subseteq Members
    /\ claim \in [Claims -> ClaimStates]
    /\ fetched \in [Claims -> Offsets] /\ next \in [Claims -> Offsets]
    /\ marked \in [Claims -> Offsets] /\ chClosed \in [Claims -> BOOLEAN]
    /\ succeeded \in [Partitions -> SUBSET Offsets]
    /\ failed \in [Partitions -> SUBSET Offsets]

\* No message is passed over unseen: one that the group will not read again
\* has been given to a handler, whatever crashed, was expelled or rebalanced.
CommittedWasHandled ==
    \A p \in Partitions : \A o \in 0..(committed[p] - 1) :
        o \in succeeded[p] \cup failed[p]

\* A message that only failed is lost only behind a later one that succeeded:
\* the last committed message has always been handled successfully.
LostOnlyBehindSuccess ==
    \A p \in Partitions : committed[p] > 0 => committed[p] - 1 \in succeeded[p]

\* A committed message is handled again only by a session that the broker has
\* given up: a member of the current generation never sees it.
NoReplayOfCommitted ==
    \A c \in Claims :
        (Accepted(c) /\ claim[c] \in {"handling", "marking"})
            => Current(c) >= committed[c[2]]

\* A message is not handled twice for nothing: when a claim has returned, a
\* session that is over at any point of ConsumeClaim included, and the broker
\* takes the mark of its session as it ends, then of what it had received the
\* next owner reads only messages that have failed.
OnlyFailuresAreRepeated ==
    [][\A m \in Members, p \in Partitions :
         LET c == <<m, p>> IN
         /\ loop[m] = "session" /\ loop'[m] = "check"
         /\ claim[c] = "exited" /\ committed'[p] = marked[c]
         => committed'[p]..(next[c] - 1) \subseteq failed[p]]_vars

-----------------------------------------------------------------------------
(* Liveness.                                                               *)

\* A cancelled context or a closed group makes Consume return, even in the
\* middle of a session with messages waiting.
CancelStops ==
    \A m \in Members :
        (m \in ctxDone \cup closed /\ loop[m] # "off")
            ~> (loop[m] \in {"off", "returned"})

\* Every message produced is given to a handler, across rebalances, expelled
\* members and crashes, as long as a member goes on consuming.
EveryMessageIsTried ==
    \A p \in Partitions : \A o \in 0..(MaxMessages - 1) :
        (o < end[p]) ~> (o \in succeeded[p] \cup failed[p])
=============================================================================
