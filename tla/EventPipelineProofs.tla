------------------------ MODULE EventPipelineProofs ------------------------
(***************************************************************************)
(* Proofs about EventPipeline, for any number of events, partitions,       *)
(* members, crashes, calls of Send and attempts: the safety part of the    *)
(* contract EventDelivery.                                                 *)
(*                                                                         *)
(* What is handled of a partition is always a beginning of its log, and an *)
(* event stands behind all those that were confirmed when it was sent.     *)
(***************************************************************************)
EXTENDS EventPipeline, KafkaConsumerProofs

-----------------------------------------------------------------------------
(* The inductive invariant.                                                *)

\* What is fetched or handled was produced, and is handled without gaps.
HandledInv ==
    /\ \A c \in Claims : fetched[c] <= end[c[2]]
    /\ \A p \in Partitions : \A o \in Handled(p) :
         /\ o \in Nat /\ o < end[p]
         /\ \A q \in Nat : q < o => q \in Handled(p)

LogType ==
    /\ log \in [Partitions -> Seq(Events)]
    /\ \A p \in Partitions : Len(log[p]) = end[p]
    /\ send \in [Events -> {"new", "open", "nil", "error"}]
    /\ request \in [Events -> {"none", "sent", "stored"}]
    /\ late \in [Events -> Nat]
    /\ earlier \in [Events -> SUBSET Events]

InLog(e, n) == \E j \in 1..n : log[PartitionOf[e]][j] = e

Stored(e) == InLog(e, end[PartitionOf[e]])

\* Nothing is in the log before it is sent; what is confirmed is there.
SendInv ==
    \A e \in Events :
        /\ send[e] = "new" => /\ request[e] = "none" /\ late[e] = 0
                              /\ \A p \in Partitions : \A i \in 1..end[p] : log[p][i] # e
        /\ (send[e] = "nil" \/ request[e] = "stored") => Stored(e)

\* What was confirmed when an event was first sent stands before it.
OrderInv ==
    /\ \A e \in Events : \A d \in earlier[e] : PartitionOf[d] = PartitionOf[e] /\ Stored(d)
    /\ \A p \in Partitions : \A i \in 1..end[p] :
         /\ PartitionOf[log[p][i]] = p
         /\ \A d \in earlier[log[p][i]] : InLog(d, i - 1)

PipelineInv == ConsumerInv /\ HandledInv /\ LogType /\ SendInv /\ OrderInv

-----------------------------------------------------------------------------
(* The consumers.                                                          *)

LEMMA PipelineStepIsStep ==
    ASSUME [PipelineNext]_pipelineVars
    PROVE  [Next]_vars
<1>1. ASSUME NEW e \in Events, ProducerStep(e) PROVE [Next]_vars
  <2>1. PartitionOf[e] \in Partitions
      BY PipelineAssumption
  <2>2. CASE Send(e) \/ SendOk(e) \/ Retry(e) \/ SendError(e)
      BY <2>2 DEF Send, SendOk, Retry, SendError
  <2>3. CASE StoreRequest(e) \/ StoreLate(e)
      BY <2>1, <2>3 DEF StoreRequest, StoreLate, Store, Next
  <2> QED
      BY <1>1, <2>2, <2>3 DEF ProducerStep
<1> QED
    BY <1>1 DEF PipelineNext, pipelineVars, Next

\* The group of a pipeline is a consumer group like any other: what is proved of
\* KafkaConsumer holds of it.
THEOREM PipelineIsConsumer == PipelineSpec => Spec
<1>1. PipelineInit => Init
    BY DEF PipelineInit
<1> QED
    BY <1>1, PipelineStepIsStep, PTL DEF PipelineSpec, Spec

\* In particular its inductive invariant.
LEMMA PipelineConsumerInv == PipelineSpec => []ConsumerInv
BY PipelineIsConsumer, ConsumerInvariant, PTL

\* A step of the group hands at most one event to a handler.
LEMMA GroupStep ==
    ASSUME ConsumerInv, HandledInv, GroupNext
    PROVE  /\ end' = end
           /\ HandledInv'
           /\ \/ UNCHANGED histVars
              \/ \E c \in Claims : /\ Current(c) \in Nat /\ Current(c) < end[c[2]]
                                   /\ \A q \in Nat : q < Current(c) => q \in Handled(c[2])
                                   /\ \A p \in Partitions : Handled(p)' =
                                        IF p = c[2] THEN Handled(p) \cup {Current(c)} ELSE Handled(p)
<1> USE DEF ConsumerInv, TypeInv, TypeOK
<1>1. ASSUME UNCHANGED <<end, fetched, histVars>> PROVE HandledInv'
    BY <1>1 DEF HandledInv, Handled, histVars
<1>2. ASSUME NEW m \in Members,
             Consume(m) \/ LoopStep(m) \/ GroupError(m) \/ SessionEnd(m) \/ Rebalance(m)
               \/ Expel(m) \/ Cancel(m) \/ CloseGroup(m) \/ Crash(m)
      PROVE  UNCHANGED <<end, fetched, histVars>>
    BY <1>2 DEF Consume, LoopStep, GroupConsume, CheckContext, GroupError, SessionEnd, Rebalance,
                Expel, Cancel, CloseGroup, Crash, claimVars
<1>3. ASSUME NEW c \in Claims,
             Receive(c) \/ MarkMessage(c) \/ ClaimExit(c) \/ CloseChannel(c) \/ AutoCommit(c)
      PROVE  UNCHANGED <<end, fetched, histVars>>
    BY <1>3 DEF Receive, MarkMessage, ClaimExit, CloseChannel, AutoCommit, claimVars
<1>4. ASSUME NEW c \in Claims, Fetch(c)
      PROVE  UNCHANGED <<end, histVars>> /\ HandledInv'
  <2>1. UNCHANGED <<end, histVars>> /\ fetched' = [fetched EXCEPT ![c] = @ + 1]
      BY <1>4 DEF Fetch
  <2>2. \A d \in Claims : fetched'[d] <= end'[d[2]]
    <3> SUFFICES ASSUME NEW d \in Claims PROVE fetched'[d] <= end'[d[2]]
        OBVIOUS
    <3>1. fetched[d] <= end[d[2]] /\ fetched[c] \in Nat /\ c[2] \in Partitions /\ end[c[2]] \in Nat
        BY PairInClaims, ConsumerAssumption DEF HandledInv, Offsets
    <3>2. fetched'[d] = IF d = c THEN fetched[c] + 1 ELSE fetched[d]
        BY <2>1
    <3>3. fetched[c] < end[c[2]]
        BY <1>4 DEF Fetch
    <3> QED
        BY <2>1, <3>1, <3>2, <3>3
  <2> QED
      BY <2>1, <2>2 DEF HandledInv, Handled, histVars
<1>5. ASSUME NewGeneration PROVE UNCHANGED <<end, histVars>> /\ HandledInv'
  <2>1. UNCHANGED <<end, histVars>>
      BY <1>5 DEF NewGeneration
  <2>2. \A p \in Partitions : committed[p] <= end[p]
    <3> SUFFICES ASSUME NEW p \in Partitions, committed[p] > end[p] PROVE FALSE
        BY DEF Offsets
    <3>1. committed[p] - 1 \in 0..(committed[p] - 1) /\ end[p] \in Nat /\ committed[p] \in Nat
        BY ConsumerAssumption DEF Offsets
    <3>2. committed[p] - 1 \in Handled(p)
        BY <3>1 DEF CommittedWasHandled, Handled
    <3> QED
        BY <3>1, <3>2 DEF HandledInv
  <2>3. \A c \in Claims : fetched'[c] \in {committed[c[2]], fetched[c]}
      BY <1>5 DEF NewGeneration, StartAt
  <2>4. \A c \in Claims : fetched'[c] <= end'[c[2]]
      BY <2>1, <2>2, <2>3, PairInClaims DEF HandledInv
  <2> QED
      BY <2>1, <2>4 DEF HandledInv, Handled, histVars
<1>6. ASSUME NEW c \in Claims, HandlerReturns(c)
      PROVE  /\ end' = end /\ HandledInv'
             /\ Current(c) \in Nat /\ Current(c) < end[c[2]]
             /\ \A q \in Nat : q < Current(c) => q \in Handled(c[2])
             /\ \A p \in Partitions : Handled(p)' =
                  IF p = c[2] THEN Handled(p) \cup {Current(c)} ELSE Handled(p)
  <2>1. UNCHANGED <<end, fetched>> /\ claim[c] = "handling"
      BY <1>6 DEF HandlerReturns, HandlerOk, HandlerError
  <2>2. next[c] \in Nat /\ next[c] >= 1 /\ next[c] <= fetched[c] /\ fetched[c] <= end[c[2]]
        /\ fetched[c] \in Nat /\ c[2] \in Partitions /\ end[c[2]] \in Nat
      BY <2>1, PairInClaims, ConsumerAssumption DEF HandlingInv, HandledInv, Offsets
  <2>3. Current(c) \in Nat /\ Current(c) < end[c[2]]
      BY <2>2 DEF Current
  <2>4. \A q \in Nat : q < Current(c) => q \in Handled(c[2])
    <3>1. \A o \in 0..(Current(c) - 1) : o \in Handled(c[2])
        BY <2>1 DEF ClaimInv, Floor, Handled
    <3> QED
        BY <2>3, <3>1
  <2>5. \A p \in Partitions : Handled(p)' =
          IF p = c[2] THEN Handled(p) \cup {Current(c)} ELSE Handled(p)
      BY <1>6, <2>2 DEF HandlerReturns, HandlerOk, HandlerError, Handled
  <2>6. HandledInv'
    <3>1. \A d \in Claims : fetched'[d] <= end'[d[2]]
        BY <2>1 DEF HandledInv
    <3>2. ASSUME NEW p \in Partitions, NEW o \in Handled(p)'
          PROVE  /\ o \in Nat /\ o < end'[p]
                 /\ \A q \in Nat : q < o => q \in Handled(p)'
      <4>1. CASE o \in Handled(p)
          BY <2>1, <2>5, <4>1 DEF HandledInv
      <4>2. CASE p = c[2] /\ o = Current(c)
          BY <2>1, <2>3, <2>4, <2>5, <4>2
      <4> QED
          BY <2>5, <3>2, <4>1, <4>2
    <3> QED
        BY <3>1, <3>2 DEF HandledInv
  <2> QED
      BY <2>1, <2>3, <2>4, <2>5, <2>6
<1> QED
    BY <1>1, <1>2, <1>3, <1>4, <1>5, <1>6 DEF GroupNext, ClaimStep

-----------------------------------------------------------------------------
(* The producers.                                                          *)

LEMMA LogInit ==
    ASSUME PipelineInit
    PROVE  HandledInv /\ LogType /\ SendInv /\ OrderInv
BY PipelineAssumption, PairInClaims
DEF PipelineInit, Init, HandledInv, Handled, LogType, SendInv, OrderInv, Stored, InLog

\* The broker appends an event that was sent.
LEMMA StoreEffect ==
    ASSUME PipelineInv, NEW e \in Events, send[e] # "new", Store(e),
           UNCHANGED <<send, earlier>>, LogType',
           request' \in [Events -> {"none", "sent", "stored"}],
           \A d \in Events \ {e} : request'[d] = request[d],
           \A d \in Events \ {e} : late'[d] = late[d]
    PROVE  /\ (HandledInv /\ SendInv /\ OrderInv)'
           /\ \A p \in Partitions : Handled(p)' = Handled(p)
           /\ \A p \in Partitions : \A i \in 1..end[p] : log'[p][i] = log[p][i]
           /\ \A p \in Partitions : end'[p] >= end[p]
<1> DEFINE P == PartitionOf[e]
<1> USE DEF PipelineInv
<1>1. P \in Partitions /\ PartitionOf \in [Events -> Partitions]
    BY PipelineAssumption
<1>2. /\ end' = [end EXCEPT ![P] = @ + 1] /\ log' = [log EXCEPT ![P] = Append(@, e)]
      /\ UNCHANGED <<claimVars, histVars>>
    BY DEF Store, Produce
<1>3. end \in [Partitions -> Nat]
    BY ConsumerAssumption DEF ConsumerInv, TypeInv, TypeOK, Offsets
<1>4. /\ end'[P] = end[P] + 1 /\ \A p \in Partitions \ {P} : end'[p] = end[p]
      /\ log'[P] = Append(log[P], e) /\ \A p \in Partitions \ {P} : log'[p] = log[p]
    BY <1>1, <1>2, <1>3 DEF LogType
<1>5. /\ \A i \in 1..end[P] : log'[P][i] = log[P][i]
      /\ log'[P][end[P] + 1] = e
    BY <1>1, <1>4 DEF LogType
<1>6. \A p \in Partitions : \A i \in 1..end[p] : log'[p][i] = log[p][i]
    BY <1>4, <1>5
<1>7. \A p \in Partitions : end'[p] >= end[p]
    BY <1>3, <1>4
<1>8. \A p \in Partitions : Handled(p)' = Handled(p)
    BY <1>2 DEF Handled, histVars
<1>9. HandledInv'
  <2>1. \A c \in Claims : fetched'[c] <= end'[c[2]]
    <3>1. \A c \in Claims : fetched[c] \in Nat
        BY ConsumerAssumption DEF ConsumerInv, TypeInv, TypeOK, Offsets
    <3> QED
        BY <1>2, <1>3, <1>4, <3>1, PairInClaims DEF HandledInv, claimVars
  <2>2. ASSUME NEW p \in Partitions, NEW o \in Handled(p)
        PROVE  o < end'[p]
      BY <1>3, <1>4, <2>2 DEF HandledInv
  <2> QED
      BY <1>8, <2>1, <2>2 DEF HandledInv
<1>10. ASSUME NEW d \in Events, NEW n \in Nat, n <= end[PartitionOf[d]], InLog(d, n)
       PROVE  InLog(d, n)'
  <2>1. PICK j \in 1..n : log[PartitionOf[d]][j] = d
      BY <1>10 DEF InLog
  <2>2. PartitionOf[d] \in Partitions /\ j \in 1..end[PartitionOf[d]]
      BY <1>1, <1>3, <1>10
  <2> QED
      BY <1>6, <2>1, <2>2 DEF InLog
<1>11. ASSUME NEW d \in Events, Stored(d) PROVE Stored(d)'
  <2>1. PICK j \in 1..end[PartitionOf[d]] : log[PartitionOf[d]][j] = d
      BY <1>11 DEF Stored, InLog
  <2>2. PartitionOf[d] \in Partitions
      BY <1>1
  <2>3. j \in 1..end'[PartitionOf[d]] /\ log'[PartitionOf[d]][j] = d
      BY <1>3, <1>6, <1>4, <2>1, <2>2
  <2> QED
      BY <2>3 DEF Stored, InLog
<1>12. Stored(e)'
  <2>1. end[P] + 1 \in 1..end'[P]
      BY <1>1, <1>3, <1>4
  <2> QED
      BY <1>5, <2>1 DEF Stored, InLog
<1>13. SendInv'
  <2> SUFFICES ASSUME NEW d \in Events
               PROVE  /\ send[d] = "new" =>
                           /\ request'[d] = "none" /\ late'[d] = 0
                           /\ \A p \in Partitions : \A i \in 1..end'[p] : log'[p][i] # d
                      /\ (send[d] = "nil" \/ request'[d] = "stored") => Stored(d)'
      BY DEF SendInv
  <2>1. CASE d = e
      BY <1>12, <2>1
  <2>2. CASE d # e
    <3>1. (send[d] = "nil" \/ request'[d] = "stored") => Stored(d)'
        BY <1>11, <2>2 DEF SendInv
    <3>2. ASSUME send[d] = "new", NEW p \in Partitions, NEW i \in 1..end'[p]
          PROVE  log'[p][i] # d
      <4>1. CASE i \in 1..end[p]
          BY <1>6, <3>2, <4>1 DEF SendInv
      <4>2. CASE p = P /\ i = end[P] + 1
          BY <1>5, <2>2, <4>2
      <4> QED
          BY <1>3, <1>4, <3>2, <4>1, <4>2
    <3> QED
        BY <2>2, <3>1, <3>2 DEF SendInv
  <2> QED
      BY <2>1, <2>2
<1>14. OrderInv'
  <2>1. ASSUME NEW a \in Events, NEW d \in earlier'[a]
        PROVE  PartitionOf[d] = PartitionOf[a] /\ Stored(d)'
    <3>1. d \in Events /\ PartitionOf[d] = PartitionOf[a] /\ Stored(d)
        BY <2>1 DEF OrderInv, LogType
    <3> QED
        BY <1>11, <3>1
  <2>2. ASSUME NEW p \in Partitions, NEW i \in 1..end'[p]
        PROVE  /\ PartitionOf[log'[p][i]] = p
               /\ \A d \in earlier'[log'[p][i]] : InLog(d, i - 1)'
    <3>1. CASE i \in 1..end[p]
      <4>1. log'[p][i] = log[p][i] /\ log[p][i] \in Events
          BY <1>6, <3>1 DEF LogType
      <4>2. ASSUME NEW d \in earlier[log[p][i]] PROVE InLog(d, i - 1)'
        <5>1. d \in Events /\ InLog(d, i - 1) /\ PartitionOf[d] = p
          <6>1. d \in Events
              BY <4>1, <4>2 DEF LogType
          <6>2. PartitionOf[log[p][i]] = p /\ InLog(d, i - 1)
              BY <3>1, <4>2 DEF OrderInv
          <6>3. PartitionOf[d] = PartitionOf[log[p][i]]
              BY <4>1, <4>2 DEF OrderInv
          <6> QED
              BY <6>1, <6>2, <6>3
        <5>2. i - 1 \in Nat /\ i - 1 <= end[PartitionOf[d]]
            BY <1>3, <3>1, <5>1
        <5> QED
            BY <1>10, <5>1, <5>2
      <4>3. earlier'[log'[p][i]] = earlier[log[p][i]]
          BY <4>1
      <4>4. PartitionOf[log[p][i]] = p
          BY <3>1 DEF OrderInv
      <4> QED
          BY <4>1, <4>2, <4>3, <4>4
    <3>2. CASE p = P /\ i = end[P] + 1
      <4>1. log'[p][i] = e
          BY <1>5, <3>2
      <4>2. i - 1 = end[P] /\ i - 1 \in Nat
          BY <1>1, <1>3, <3>2
      <4>3. ASSUME NEW d \in earlier[e] PROVE InLog(d, i - 1)'
        <5>1. d \in Events /\ PartitionOf[d] = P /\ Stored(d)
            BY <4>3 DEF OrderInv, LogType
        <5>2. InLog(d, i - 1) /\ i - 1 <= end[PartitionOf[d]]
            BY <1>1, <1>3, <4>2, <5>1 DEF Stored
        <5> QED
            BY <1>10, <4>2, <5>1, <5>2
      <4> QED
          BY <3>2, <4>1, <4>2, <4>3
    <3> QED
        BY <1>3, <1>4, <2>2, <3>1, <3>2
  <2> QED
      BY <2>1, <2>2 DEF OrderInv
<1> QED
    BY <1>6, <1>7, <1>8, <1>9, <1>13, <1>14

LEMMA StoreType ==
    ASSUME PipelineInv, NEW e \in Events, Store(e), UNCHANGED <<send, earlier>>,
           request' \in [Events -> {"none", "sent", "stored"}], late' \in [Events -> Nat]
    PROVE  LogType'
<1> DEFINE P == PartitionOf[e]
<1>1. P \in Partitions
    BY PipelineAssumption
<1>2. log' = [log EXCEPT ![P] = Append(@, e)] /\ end' = [end EXCEPT ![P] = @ + 1]
    BY DEF Store, Produce
<1>3. end \in [Partitions -> Nat] /\ log \in [Partitions -> Seq(Events)]
    BY ConsumerAssumption DEF PipelineInv, ConsumerInv, TypeInv, TypeOK, Offsets, LogType
<1>4. Append(log[P], e) \in Seq(Events) /\ Len(Append(log[P], e)) = Len(log[P]) + 1
    BY <1>1, <1>3
<1>5. log' \in [Partitions -> Seq(Events)]
    BY <1>2, <1>3, <1>4
<1>6. \A p \in Partitions : Len(log'[p]) = end'[p]
    BY <1>1, <1>2, <1>3, <1>4 DEF PipelineInv, LogType
<1> QED
    BY <1>5, <1>6 DEF PipelineInv, LogType

\* A step of Send that leaves the log alone.
LEMMA CallFrame ==
    ASSUME HandledInv, UNCHANGED <<vars, log>>
    PROVE  HandledInv' /\ \A p \in Partitions : Handled(p)' = Handled(p)
BY DEF HandledInv, Handled, vars, claimVars, histVars

LEMMA SendCall ==
    ASSUME PipelineInv, NEW e \in Events, Send(e)
    PROVE  (LogType /\ SendInv /\ OrderInv)'
<1> USE DEF PipelineInv, LogType
<1>1. UNCHANGED <<log, end, late>>
    BY DEF Send, vars
<1>2. /\ send' = [send EXCEPT ![e] = "open"] /\ request' = [request EXCEPT ![e] = "sent"]
      /\ earlier' = [earlier EXCEPT ![e] = IF send[e] = "new" THEN Confirmed(PartitionOf[e]) ELSE @]
    BY DEF Send, Attempt
<1>3. Confirmed(PartitionOf[e]) \in SUBSET Events
    BY DEF Confirmed
<1>4. LogType'
    BY <1>1, <1>2, <1>3
<1>5. \A d \in Events : Stored(d)' = Stored(d)
    BY <1>1 DEF Stored, InLog
<1>6. SendInv'
    BY <1>1, <1>2, <1>5 DEF SendInv
<1>7. \A d \in Events, n \in Nat : InLog(d, n)' = InLog(d, n)
    BY <1>1 DEF InLog
<1>8. ASSUME NEW a \in Events, NEW d \in earlier'[a]
      PROVE  PartitionOf[d] = PartitionOf[a] /\ Stored(d)'
  <2>1. CASE a = e /\ send[e] = "new"
    <3>1. d \in Confirmed(PartitionOf[e])
        BY <1>2, <1>8, <2>1
    <3> QED
        BY <1>5, <2>1, <3>1 DEF Confirmed, SendInv
  <2>2. CASE ~(a = e /\ send[e] = "new")
    <3>1. d \in earlier[a] /\ d \in Events
        BY <1>2, <1>8, <2>2
    <3> QED
        BY <1>5, <3>1 DEF OrderInv
  <2> QED
      BY <2>1, <2>2
<1>9. ASSUME NEW p \in Partitions, NEW i \in 1..end'[p]
      PROVE  /\ PartitionOf[log'[p][i]] = p
             /\ \A d \in earlier'[log'[p][i]] : InLog(d, i - 1)'
  <2>1. i \in 1..end[p] /\ log'[p][i] = log[p][i] /\ log[p][i] \in Events /\ i - 1 \in Nat
      BY <1>1, <1>9
  <2>2. earlier'[log[p][i]] = earlier[log[p][i]]
      BY <1>2, <2>1 DEF SendInv
  <2>3. earlier[log[p][i]] \subseteq Events
      BY <2>1
  <2> QED
      BY <1>7, <2>1, <2>2, <2>3 DEF OrderInv
<1> QED
    BY <1>4, <1>6, <1>8, <1>9 DEF OrderInv

LEMMA SendGoesOn ==
    ASSUME PipelineInv, NEW e \in Events, SendOk(e) \/ Retry(e) \/ SendError(e)
    PROVE  (LogType /\ SendInv /\ OrderInv)'
<1> USE DEF PipelineInv, LogType
<1>1. UNCHANGED <<log, end, earlier>>
    BY DEF SendOk, Retry, SendError, vars
<1>2. /\ send' \in [Events -> {"new", "open", "nil", "error"}]
      /\ request' \in [Events -> {"none", "sent", "stored"}]
      /\ late' \in [Events -> Nat]
      /\ \A d \in Events \ {e} : send'[d] = send[d] /\ request'[d] = request[d] /\ late'[d] = late[d]
  <2>1. \A n \in {0, 1} : late[e] + n \in Nat
      OBVIOUS
  <2>2. ASSUME GiveUp(e) PROVE \E n \in {0, 1} : late' = [late EXCEPT ![e] = @ + n]
      BY <2>2 DEF GiveUp
  <2>3. CASE SendOk(e)
      BY <2>3 DEF SendOk, SendReturns
  <2>4. CASE Retry(e)
      BY <2>1, <2>2, <2>4 DEF Retry, Attempt
  <2>5. CASE SendError(e)
      BY <2>1, <2>2, <2>5 DEF SendError, SendReturns, Returned
  <2> QED
      BY <2>3, <2>4, <2>5
<1>3. \A d \in Events, n \in Nat : InLog(d, n)' = InLog(d, n)
    BY <1>1 DEF InLog
<1>4. \A d \in Events : Stored(d)' = Stored(d)
    BY <1>1 DEF Stored, InLog
<1>5. send'[e] # "new" /\ (send'[e] = "nil" \/ request'[e] = "stored" => Stored(e))
    BY DEF SendOk, Retry, SendError, SendReturns, Attempt, MessageSent, Returned, SendInv
<1>6. SendInv'
    BY <1>1, <1>2, <1>4, <1>5 DEF SendInv
<1>7. OrderInv'
  <2>1. \A a \in Events : \A d \in earlier'[a] : PartitionOf[d] = PartitionOf[a] /\ Stored(d)'
      BY <1>1, <1>4 DEF OrderInv
  <2>2. ASSUME NEW p \in Partitions, NEW i \in 1..end'[p]
        PROVE  /\ PartitionOf[log'[p][i]] = p
               /\ \A d \in earlier'[log'[p][i]] : InLog(d, i - 1)'
    <3>1. i \in 1..end[p] /\ log[p][i] \in Events /\ i - 1 \in Nat
        BY <1>1, <2>2
    <3> QED
        BY <1>1, <1>3, <3>1 DEF OrderInv
  <2> QED
      BY <2>1, <2>2 DEF OrderInv
<1> QED
    BY <1>1, <1>2, <1>6, <1>7

\* The two steps with which the broker stores an event.
LEMMA StoreStep ==
    ASSUME PipelineInv, NEW e \in Events, StoreRequest(e) \/ StoreLate(e)
    PROVE  /\ (HandledInv /\ LogType /\ SendInv /\ OrderInv)'
           /\ \A p \in Partitions : Handled(p)' = Handled(p)
           /\ \A p \in Partitions : \A i \in 1..end[p] : log'[p][i] = log[p][i]
           /\ \A p \in Partitions : end'[p] >= end[p]
<1>1. send[e] # "new" /\ Store(e) /\ UNCHANGED <<send, earlier>>
    BY DEF StoreRequest, StoreLate, PipelineInv, SendInv
<1>2. /\ request' \in [Events -> {"none", "sent", "stored"}] /\ late' \in [Events -> Nat]
      /\ \A d \in Events \ {e} : request'[d] = request[d] /\ late'[d] = late[d]
  <2>1. CASE StoreRequest(e)
      BY <2>1 DEF StoreRequest, PipelineInv, LogType
  <2>2. CASE StoreLate(e)
    <3>1. late[e] \in Nat /\ late[e] > 0 /\ late' = [late EXCEPT ![e] = late[e] - 1] /\ request' = request
        BY <2>2 DEF StoreLate, PipelineInv, LogType
    <3>2. late[e] - 1 \in Nat
        BY <3>1
    <3> QED
        BY <3>1, <3>2 DEF PipelineInv, LogType
  <2> QED
      BY <2>1, <2>2
<1>3. LogType'
    BY <1>1, <1>2, StoreType
<1> QED
    BY <1>1, <1>2, <1>3, StoreEffect

LEMMA PipelineStep ==
    ASSUME PipelineInv, [PipelineNext]_pipelineVars
    PROVE  (HandledInv /\ LogType /\ SendInv /\ OrderInv)'
<1>1. ASSUME NEW e \in Events, ProducerStep(e)
      PROVE  (HandledInv /\ LogType /\ SendInv /\ OrderInv)'
  <2>1. CASE Send(e)
      BY <2>1, SendCall, CallFrame DEF PipelineInv, Send
  <2>2. CASE SendOk(e) \/ Retry(e) \/ SendError(e)
      BY <2>2, SendGoesOn, CallFrame DEF PipelineInv, SendOk, Retry, SendError
  <2>3. CASE StoreRequest(e) \/ StoreLate(e)
      BY <2>3, StoreStep
  <2> QED
      BY <1>1, <2>1, <2>2, <2>3 DEF ProducerStep
<1>2. ASSUME end' = end, UNCHANGED producerVars
      PROVE  (LogType /\ SendInv /\ OrderInv)'
  <2>1. UNCHANGED <<end, log, send, request, late, earlier>>
      BY <1>2 DEF producerVars
  <2>2. LogType'
      BY <2>1 DEF PipelineInv, LogType
  <2>3. SendInv'
      BY <2>1 DEF PipelineInv, SendInv, Stored, InLog
  <2>4. OrderInv'
      BY <2>1 DEF PipelineInv, OrderInv, Stored, InLog
  <2> QED
      BY <2>2, <2>3, <2>4
<1>3. CASE GroupNext /\ UNCHANGED producerVars
    BY <1>2, <1>3, GroupStep DEF PipelineInv
<1>4. CASE UNCHANGED pipelineVars
    BY <1>2, <1>4, CallFrame DEF PipelineInv, pipelineVars, producerVars, vars
<1> QED
    BY <1>1, <1>3, <1>4 DEF PipelineNext

\* What is handled is a beginning of the log, which is in the order of
\* confirmation: the inductive invariant of the whole path.
THEOREM PipelineInvariant == PipelineSpec => []PipelineInv
<1>1. PipelineInit => HandledInv /\ LogType /\ SendInv /\ OrderInv
    BY LogInit
<1>2. ConsumerInv /\ (HandledInv /\ LogType /\ SendInv /\ OrderInv) /\ [PipelineNext]_pipelineVars
        => (HandledInv /\ LogType /\ SendInv /\ OrderInv)'
    BY PipelineStep DEF PipelineInv
<1>3. PipelineInv <=> ConsumerInv /\ (HandledInv /\ LogType /\ SendInv /\ OrderInv)
    BY DEF PipelineInv
<1> QED
    BY <1>1, <1>2, <1>3, PipelineConsumerInv, PTL DEF PipelineSpec

-----------------------------------------------------------------------------
(* What follows from the invariant.                                        *)

\* A handled event that stands behind another one in the log is handled after it.
LEMMA EarlierDelivered ==
    ASSUME PipelineInv, NEW p \in Partitions, NEW o \in Nat, o < end[p],
           \A q \in Nat : q < o => q \in Handled(p)
    PROVE  earlier[log[p][o + 1]] \subseteq Delivered
<1> USE DEF PipelineInv, LogType
<1>1. o + 1 \in 1..end[p] /\ end[p] \in Nat /\ Len(log[p]) = end[p]
    BY ConsumerAssumption DEF ConsumerInv, TypeInv, TypeOK, Offsets
<1> DEFINE e == log[p][o + 1]
<1>2. e \in Events /\ PartitionOf[e] = p /\ \A d \in earlier[e] : InLog(d, (o + 1) - 1)
    BY <1>1 DEF OrderInv
<1> SUFFICES ASSUME NEW d \in earlier[e] PROVE d \in Delivered
    OBVIOUS
<1>3. d \in Events /\ PartitionOf[d] = p /\ InLog(d, o)
  <2>1. (o + 1) - 1 = o
      OBVIOUS
  <2> QED
      BY <1>2, <2>1 DEF OrderInv
<1>4. PICK j \in 1..o : log[p][j] = d
    BY <1>3 DEF InLog
<1>5. j - 1 \in Nat /\ j - 1 < o /\ j - 1 < Len(log[p]) /\ (j - 1) + 1 = j
    BY <1>1
<1>6. j - 1 \in Handled(p)
    BY <1>5
<1> QED
    BY <1>3, <1>4, <1>5, <1>6 DEF Delivered

\* Events that were confirmed one after the other reach the handlers in this
\* order (ConfirmedFirst), over any number of partitions, crashes and repeats.
THEOREM PipelineConfirmedFirst == PipelineSpec => []ConfirmedFirst
<1>1. ASSUME PipelineInv, NEW e \in Delivered PROVE earlier[e] \subseteq Delivered
  <2>1. PICK p \in Partitions : \E o \in Handled(p) : o < Len(log[p]) /\ log[p][o + 1] = e
      BY <1>1 DEF Delivered
  <2>2. PICK o \in Handled(p) : o < Len(log[p]) /\ log[p][o + 1] = e
      BY <2>1
  <2>3. o \in Nat /\ o < end[p] /\ \A q \in Nat : q < o => q \in Handled(p)
      BY <1>1 DEF PipelineInv, HandledInv
  <2>4. earlier[log[p][o + 1]] \subseteq Delivered
      BY <1>1, <2>3, EarlierDelivered
  <2> QED
      BY <2>2, <2>4
<1>2. PipelineInv => ConfirmedFirst
    BY <1>1 DEF ConfirmedFirst
<1> QED
    BY <1>2, PipelineInvariant, PTL

\* A confirmed event is delivered, or waits where the group goes on reading: the
\* producer's promise and the consumer's meet at the committed offset.
THEOREM PipelineConfirmedIsKept == PipelineSpec => []ConfirmedIsKept
<1>1. ASSUME PipelineInv, NEW e \in Events, send[e] = "nil", e \notin Delivered
      PROVE  \E o \in committed[PartitionOf[e]]..(end[PartitionOf[e]] - 1) :
               log[PartitionOf[e]][o + 1] = e
  <2> DEFINE p == PartitionOf[e]
  <2>1. p \in Partitions /\ end[p] \in Nat /\ committed[p] \in Nat /\ Len(log[p]) = end[p]
      BY <1>1, PipelineAssumption, ConsumerAssumption
      DEF PipelineInv, LogType, ConsumerInv, TypeInv, TypeOK, Offsets
  <2>2. PICK j \in 1..end[p] : log[p][j] = e
      BY <1>1 DEF PipelineInv, SendInv, Stored, InLog
  <2>3. j - 1 \in Nat /\ j - 1 < end[p] /\ (j - 1) + 1 = j
      BY <2>1, <2>2
  <2>4. j - 1 \notin Handled(p)
      BY <1>1, <2>1, <2>2, <2>3 DEF Delivered
  <2>5. ~(j - 1 < committed[p])
      BY <1>1, <2>1, <2>3, <2>4
      DEF PipelineInv, ConsumerInv, CommittedWasHandled, Handled
  <2> QED
      BY <2>1, <2>2, <2>3, <2>5
<1>2. PipelineInv => ConfirmedIsKept
    BY <1>1 DEF ConfirmedIsKept
<1> QED
    BY <1>2, PipelineInvariant, PTL

\* Nothing is delivered by a step that leaves what is handled alone.
LEMMA DeliveredFrame ==
    ASSUME PipelineInv,
           \A p \in Partitions : Handled(p)' = Handled(p),
           \A p \in Partitions : \A i \in 1..end[p] : log'[p][i] = log[p][i],
           \A p \in Partitions : Len(log'[p]) >= end[p]
    PROVE  Delivered' = Delivered
<1>1. ASSUME NEW p \in Partitions, NEW o \in Handled(p)
      PROVE  /\ o < Len(log[p]) /\ o < Len(log'[p])
             /\ log'[p][o + 1] = log[p][o + 1]
  <2>1. o \in Nat /\ o < end[p] /\ end[p] = Len(log[p]) /\ end[p] \in Nat
      BY ConsumerAssumption
      DEF PipelineInv, HandledInv, LogType, ConsumerInv, TypeInv, TypeOK, Offsets
  <2>2. o + 1 \in 1..end[p]
      BY <2>1
  <2>3. Len(log'[p]) >= end[p] /\ log'[p][o + 1] = log[p][o + 1]
      BY <2>2
  <2>4. o < Len(log'[p])
    <3> DEFINE n == Len(log'[p])
    <3>1. n >= end[p]
        BY <2>3
    <3> QED
        BY <2>1, <2>3
  <2> QED
      BY <2>1, <2>3, <2>4
<1> QED
    BY <1>1 DEF Delivered

\* From Send to the handler every step is a step of the contract, or hidden:
\* the safety part of KeepsDelivery.
THEOREM PipelineKeepsOrder ==
    PipelineSpec => Contract!Init /\ [][Contract!Next]_(Contract!vars)
<1> USE DEF Contract!vars, Contract!Next
<1>1. PipelineInit => Contract!Init
    BY DEF PipelineInit, Init, Contract!Init, Delivered, Handled
<1>2. ASSUME PipelineInv, PipelineInv', [PipelineNext]_pipelineVars
      PROVE  [Contract!Next]_(Contract!vars)
  <2>1. ASSUME UNCHANGED <<vars, log>> PROVE Delivered' = Delivered
      BY <2>1 DEF Delivered, Handled, vars, histVars
  <2>2. ASSUME NEW e \in Events, ProducerStep(e) PROVE [Contract!Next]_(Contract!vars)
    <3>1. CASE Send(e)
      <4>1. Contract!Confirmed(PartitionOf[e]) = Confirmed(PartitionOf[e])
          BY DEF Contract!Confirmed, Confirmed
      <4>2. Contract!Call(e)
          BY <2>1, <3>1, <4>1 DEF Send, Contract!Call
      <4> QED
          BY <4>2
    <3>2. CASE SendOk(e) \/ SendError(e)
      <4>1. Contract!Reply(e)
          BY <2>1, <3>2 DEF SendOk, SendError, SendReturns, Returned, Contract!Reply
      <4> QED
          BY <4>1
    <3>3. CASE Retry(e)
        BY <2>1, <3>3 DEF Retry
    <3>4. CASE StoreRequest(e) \/ StoreLate(e)
      <4>1. /\ \A p \in Partitions : Handled(p)' = Handled(p)
            /\ \A p \in Partitions : \A i \in 1..end[p] : log'[p][i] = log[p][i]
            /\ \A p \in Partitions : end'[p] >= end[p]
          BY <1>2, <3>4, StoreStep
      <4>2. \A p \in Partitions : Len(log'[p]) = end'[p]
          BY <1>2 DEF PipelineInv, LogType
      <4>3. Delivered' = Delivered
          BY <1>2, <4>1, <4>2, DeliveredFrame
      <4> QED
          BY <3>4, <4>3 DEF StoreRequest, StoreLate
    <3> QED
        BY <2>2, <3>1, <3>2, <3>3, <3>4 DEF ProducerStep
  <2>3. CASE GroupNext /\ UNCHANGED producerVars
    <3>1. UNCHANGED <<log, send, earlier>>
        BY <2>3 DEF producerVars
    <3>2. CASE UNCHANGED histVars
        BY <3>1, <3>2 DEF Delivered, Handled, histVars
    <3>3. ASSUME NEW c \in Claims, Current(c) \in Nat, Current(c) < end[c[2]],
                 \A q \in Nat : q < Current(c) => q \in Handled(c[2]),
                 \A p \in Partitions : Handled(p)' =
                   IF p = c[2] THEN Handled(p) \cup {Current(c)} ELSE Handled(p)
          PROVE  [Contract!Next]_(Contract!vars)
      <4> DEFINE e == log[c[2]][Current(c) + 1]
      <4>1. c[2] \in Partitions /\ Len(log[c[2]]) = end[c[2]] /\ end[c[2]] \in Nat
          BY <1>2, PairInClaims, ConsumerAssumption
          DEF PipelineInv, LogType, ConsumerInv, TypeInv, TypeOK, Offsets
      <4>2. Current(c) + 1 \in 1..end[c[2]]
          BY <3>3, <4>1
      <4>3. e \in Events /\ send[e] # "new"
          BY <1>2, <4>1, <4>2 DEF PipelineInv, LogType, SendInv
      <4>4. earlier[e] \subseteq Delivered
          BY <1>2, <3>3, <4>1, EarlierDelivered
      <4>5. Delivered' = Delivered \cup {e}
        <5>1. \A p \in Partitions : \A o \in Handled(p)' :
                o \in Handled(p) \/ (p = c[2] /\ o = Current(c))
            BY <3>3
        <5>2. Current(c) \in Handled(c[2])' /\ Current(c) < Len(log[c[2]])
            BY <3>3, <4>1
        <5>3. \A p \in Partitions : Handled(p) \subseteq Handled(p)'
            BY <3>3
        <5> QED
            BY <3>1, <4>1, <4>3, <5>1, <5>2, <5>3 DEF Delivered
      <4>6. CASE e \in Delivered
          BY <3>1, <4>5, <4>6
      <4>7. CASE e \notin Delivered
        <5>1. Contract!Deliver(e)
            BY <3>1, <4>3, <4>4, <4>5, <4>7 DEF Contract!Deliver
        <5> QED
            BY <4>3, <5>1
      <4> QED
          BY <4>6, <4>7
    <3> QED
        BY <1>2, <2>3, <3>2, <3>3, GroupStep DEF PipelineInv
  <2>4. CASE UNCHANGED pipelineVars
    <3>1. UNCHANGED <<vars, log, send, earlier>>
        BY <2>4 DEF pipelineVars, producerVars
    <3> QED
        BY <2>1, <3>1
  <2> QED
      BY <1>2, <2>2, <2>3, <2>4 DEF PipelineNext
<1> QED
    BY <1>1, <1>2, PipelineInvariant, PTL DEF PipelineSpec
=============================================================================
