--------------------------- MODULE EventPipeline ---------------------------
(***************************************************************************)
(* Events on their way from producer.Send (week5/boilerplates/kafka/       *)
(* producer) over a topic to the handlers of KafkaConsumer.                *)
(*                                                                         *)
(* The synchronous producer of sarama is external: it repeats a request    *)
(* that was refused, timed out or lost its answer, a bounded number of     *)
(* times. The broker keeps what it has acknowledged; a request that the    *)
(* producer has given up may still reach it.                               *)
(*                                                                         *)
(* A definition whose name begins with Bug is the next one with a mistake. *)
(***************************************************************************)
EXTENDS KafkaConsumer, Sequences

CONSTANTS
    Events,
    PartitionOf,   \* the partition that the key of an event selects
    MaxSends,      \* bound on the calls of Send for an event
    MaxAttempts    \* requests that sarama makes in one call (Producer.Retry.Max)

ASSUME PipelineAssumption ==
    PartitionOf \in [Events -> Partitions] /\ MaxSends \in Nat /\ MaxAttempts \in Nat \ {0}

VARIABLES
    log,        \* the events of a partition, by offset
    send,       \* the last call of Send for an event
    sends,      \* calls so far
    attempt,    \* requests made in the open call
    request,    \* the last of them: "none", "sent" or "stored"
    late,       \* requests given up that may still arrive
    earlier     \* the events confirmed when it was first sent

producerVars == <<log, send, sends, attempt, request, late, earlier>>
pipelineVars == <<vars, producerVars>>

PipelineInit ==
    /\ Init
    /\ log = [p \in Partitions |-> <<>>]
    /\ send = [e \in Events |-> "new"] /\ sends = [e \in Events |-> 0]
    /\ attempt = [e \in Events |-> 0] /\ request = [e \in Events |-> "none"]
    /\ late = [e \in Events |-> 0] /\ earlier = [e \in Events |-> {}]

Confirmed(p) == {e \in Events : send[e] = "nil" /\ PartitionOf[e] = p}

\* A call makes its n-th request, and is over with a result.
Attempt(e, n) ==
    /\ attempt' = [attempt EXCEPT ![e] = n]
    /\ request' = [request EXCEPT ![e] = "sent"]

SendReturns(e, r) ==
    /\ send' = [send EXCEPT ![e] = r]
    /\ attempt' = [attempt EXCEPT ![e] = 0]
    /\ request' = [request EXCEPT ![e] = "none"]

\* The program calls Send; after an error it may do so again.
Send(e) ==
    /\ send[e] \in {"new", "error"} /\ sends[e] < MaxSends
    /\ send' = [send EXCEPT ![e] = "open"] /\ sends' = [sends EXCEPT ![e] = @ + 1]
    /\ earlier' = [earlier EXCEPT ![e] = IF send[e] = "new" THEN Confirmed(PartitionOf[e]) ELSE @]
    /\ Attempt(e, 1)
    /\ UNCHANGED <<vars, log, late>>

\* The broker appends an event (Produce of KafkaConsumer).
Store(e) ==
    /\ Produce(PartitionOf[e])
    /\ log' = [log EXCEPT ![PartitionOf[e]] = Append(@, e)]

StoreRequest(e) ==
    /\ request[e] = "sent" /\ Store(e)
    /\ request' = [request EXCEPT ![e] = "stored"]
    /\ UNCHANGED <<send, sends, attempt, late, earlier>>

StoreLate(e) ==
    /\ late[e] > 0 /\ Store(e)
    /\ late' = [late EXCEPT ![e] = @ - 1]
    /\ UNCHANGED <<send, sends, attempt, request, earlier>>

BugMessageSent(e) == request[e] # "none"      \* nobody waits for the answer
MessageSent(e) == request[e] = "stored"

\* SendMessage has an offset from the broker, and Send returns nil.
SendOk(e) ==
    /\ send[e] = "open" /\ MessageSent(e)
    /\ SendReturns(e, "nil")
    /\ UNCHANGED <<vars, log, sends, late, earlier>>

\* What becomes of a request without an answer: it is lost, or under way.
GiveUp(e) ==
    \E n \in {0} \cup (IF request[e] = "sent" THEN {1} ELSE {}) :
        late' = [late EXCEPT ![e] = @ + n]

\* sarama tries again.
Retry(e) ==
    /\ send[e] = "open" /\ attempt[e] < MaxAttempts
    /\ GiveUp(e) /\ Attempt(e, attempt[e] + 1)
    /\ UNCHANGED <<vars, log, send, sends, earlier>>

BugReturned == "nil"                          \* the error is logged and dropped
Returned == "error"

\* The last attempt fails, and Send returns its error.
SendError(e) ==
    /\ send[e] = "open" /\ attempt[e] = MaxAttempts
    /\ GiveUp(e) /\ SendReturns(e, Returned)
    /\ UNCHANGED <<vars, log, sends, earlier>>

-----------------------------------------------------------------------------
ProducerStep(e) ==
    \/ Send(e) \/ StoreRequest(e) \/ StoreLate(e) \/ SendOk(e) \/ Retry(e) \/ SendError(e)

PipelineNext ==
    \/ \E e \in Events : ProducerStep(e)
    \/ GroupNext /\ UNCHANGED producerVars

PipelineSpec == PipelineInit /\ [][PipelineNext]_pipelineVars

\* The consumers are fair. Nothing makes the program send, nor the broker answer.
PipelineFairSpec == PipelineSpec /\ Fairness

-----------------------------------------------------------------------------
Handled(p) == succeeded[p] \cup failed[p]

Delivered ==
    {e \in Events : \E p \in Partitions : \E o \in Handled(p) :
        o < Len(log[p]) /\ log[p][o + 1] = e}

Contract == INSTANCE EventDelivery WITH delivered <- Delivered

\* From Send to the handler the platform library keeps the promise of its
\* interfaces: at least once, in the order of confirmation, with lost answers,
\* repeated and late requests, rebalances, expelled members and crashes.
KeepsDelivery == Contract!Spec

\* Events that were confirmed one after the other reach the handlers in this
\* order, if also the first one may come again later.
ConfirmedFirst ==
    \A e \in Delivered : earlier[e] \subseteq Delivered

\* A confirmed event that no handler was given yet is still to be read: it is in
\* the log, at or behind the offset that the group would go on from, whatever
\* was refused, repeated, expelled or crashed.
ConfirmedIsKept ==
    \A e \in Events : (send[e] = "nil" /\ e \notin Delivered) =>
        LET p == PartitionOf[e] IN \E o \in committed[p]..(end[p] - 1) : log[p][o + 1] = e
=============================================================================
