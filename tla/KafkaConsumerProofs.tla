------------------------ MODULE KafkaConsumerProofs ------------------------
(***************************************************************************)
(* Proofs about KafkaConsumer, for any number of members, partitions,      *)
(* messages, generations and crashes.                                      *)
(***************************************************************************)
EXTENDS KafkaConsumerInd, TLAPS

USE DEF Offsets, Claims, MarkTo, Current, StartAt

LEMMA PairInClaims ==
    ASSUME NEW c \in Claims
    PROVE  c[1] \in Members /\ c[2] \in Partitions /\ c = <<c[1], c[2]>>
OBVIOUS

LEMMA LastOfRange ==
    ASSUME NEW i \in Nat, NEW n \in Nat, NEW k \in i..n
    PROVE  k \in i..(n - 1) \/ k = n
OBVIOUS

-----------------------------------------------------------------------------
(* Type correctness.                                                       *)

LEMMA TypeInit ==
    ASSUME Init PROVE TypeInv
BY ConsumerAssumption DEF Init, TypeInv, TypeOK, HandlingInv, LoopStates, ClaimStates

\* Steps of consumer.Consume, of the program around it and of the session.
LEMMA MemberType ==
    ASSUME TypeInv, NEW m \in Members,
           Consume(m) \/ LoopStep(m) \/ GroupError(m) \/ SessionEnd(m) \/ Rebalance(m)
             \/ Expel(m) \/ Cancel(m) \/ CloseGroup(m) \/ Crash(m)
    PROVE  TypeInv'
<1> USE ConsumerAssumption
    DEF TypeInv, TypeOK, HandlingInv, LoopStates, ClaimStates, LoopGoto, Return,
        brokerVars, memberVars, claimVars, histVars
<1>1. CASE Consume(m) \/ LoopStep(m)
    BY <1>1 DEF Consume, LoopStep, GroupConsume, CheckContext
<1>2. CASE GroupError(m)
    BY <1>2 DEF GroupError
<1>3. CASE SessionEnd(m)
  <2>1. committed' \in [Partitions -> Offsets]
    <3>1. \A p \in Partitions : marked[<<m, p>>] \in Offsets
      <4>1. \A p \in Partitions : <<m, p>> \in Claims
          OBVIOUS
      <4> QED
          BY <4>1
    <3>2. \/ UNCHANGED committed
          \/ committed' = [p \in Partitions |->
                             IF Accepted(<<m, p>>) /\ claim[<<m, p>>] = "exited"
                             THEN marked[<<m, p>>] ELSE committed[p]]
        BY <1>3 DEF SessionEnd
    <3> QED
        BY <3>1, <3>2
  <2> QED
      BY <1>3, <2>1 DEF SessionEnd
<1>4. CASE Rebalance(m) \/ Expel(m) \/ Cancel(m) \/ CloseGroup(m)
    BY <1>4 DEF Rebalance, Expel, Cancel, CloseGroup
<1>5. CASE Crash(m)
    BY <1>5 DEF Crash
<1> QED
    BY <1>1, <1>2, <1>3, <1>4, <1>5

\* Steps of one claim.
LEMMA ClaimType ==
    ASSUME TypeInv, NEW c \in Claims,
           ClaimStep(c) \/ Fetch(c) \/ CloseChannel(c) \/ AutoCommit(c)
    PROVE  TypeInv'
<1> USE ConsumerAssumption, PairInClaims
    DEF TypeInv, TypeOK, HandlingInv, ClaimStates, ClaimGoto,
        brokerVars, memberVars, claimVars, histVars
<1>1. CASE Receive(c)
    BY <1>1 DEF Receive
<1>2. CASE HandlerReturns(c)
  <2>1. Current(c) \in Offsets
      BY <1>2 DEF HandlerReturns, HandlerOk, HandlerError
  <2>2. CASE HandlerOk(c)
      BY <2>1, <2>2 DEF HandlerOk
  <2>3. CASE HandlerError(c)
      BY <2>1, <2>3 DEF HandlerError
  <2> QED
      BY <1>2, <2>2, <2>3 DEF HandlerReturns
<1>3. CASE MarkMessage(c)
    BY <1>3 DEF MarkMessage
<1>4. CASE ClaimExit(c)
    BY <1>4 DEF ClaimExit
<1>5. CASE Fetch(c)
    BY <1>5 DEF Fetch
<1>6. CASE CloseChannel(c)
    BY <1>6, Zenon DEF CloseChannel
<1>7. CASE AutoCommit(c)
    BY <1>7 DEF AutoCommit
<1> QED
    BY <1>1, <1>2, <1>3, <1>4, <1>5, <1>6, <1>7 DEF ClaimStep

LEMMA GenerationType ==
    ASSUME TypeInv, NewGeneration PROVE TypeInv'
<1> DEFINE joined == {m \in Members : loop[m] = "joining" /\ m \notin closed}
<1> PICK asg \in [Partitions -> joined] :
       /\ owner' = asg
       /\ fenced' = Members \ joined
       /\ loop' = [m \in Members |-> IF m \in joined THEN "session" ELSE loop[m]]
       /\ sessDone' = sessDone \ joined
       /\ claim' = [c \in Claims |->
                      IF c[1] \notin joined THEN claim[c]
                      ELSE IF asg[c[2]] = c[1] THEN "select" ELSE "none"]
       /\ fetched' = [c \in Claims |-> IF c[1] \in joined THEN StartAt(c[2]) ELSE fetched[c]]
       /\ next' = [c \in Claims |-> IF c[1] \in joined THEN StartAt(c[2]) ELSE next[c]]
       /\ marked' = [c \in Claims |-> IF c[1] \in joined THEN committed[c[2]] ELSE marked[c]]
       /\ chClosed' = [c \in Claims |-> c[1] \notin joined /\ chClosed[c]]
    BY DEF NewGeneration
<1> USE ConsumerAssumption, PairInClaims DEF NewGeneration, TypeInv, TypeOK, histVars
<1>1. owner' \in [Partitions -> Members \cup {NoMember}] /\ fenced' \subseteq Members
    OBVIOUS
<1>2. /\ generation' \in 0..MaxGenerations /\ loop' \in [Members -> LoopStates]
      /\ sessDone' \subseteq Members
    BY DEF LoopStates
<1>3. claim' \in [Claims -> ClaimStates]
    BY DEF ClaimStates
<1>4. /\ fetched' \in [Claims -> Offsets] /\ next' \in [Claims -> Offsets]
      /\ marked' \in [Claims -> Offsets]
    OBVIOUS
<1>5. chClosed' \in [Claims -> BOOLEAN]
    BY Zenon
<1>6. HandlingInv'
    BY DEF HandlingInv
<1> QED
    BY <1>1, <1>2, <1>3, <1>4, <1>5, <1>6

\* Every step keeps the types.
LEMMA TypeStep ==
    ASSUME TypeInv, [Next]_vars PROVE TypeInv'
<1>1. ASSUME NEW p \in Partitions, Produce(p) PROVE TypeInv'
    BY <1>1, ConsumerAssumption
    DEF Produce, TypeInv, TypeOK, HandlingInv, brokerVars, memberVars, claimVars, histVars
<1>2. CASE UNCHANGED vars
    BY <1>2 DEF TypeInv, TypeOK, HandlingInv, vars, brokerVars, memberVars, claimVars, histVars
<1> QED
    BY <1>1, <1>2, MemberType, ClaimType, GenerationType DEF Next, GroupNext

\* Type correctness: every reachable state of the consumer group is well typed.
THEOREM ConsumerTypeOK == Spec => []TypeOK
<1>1. Init => TypeInv
    BY TypeInit
<1>2. TypeInv /\ [Next]_vars => TypeInv'
    BY TypeStep
<1>3. TypeInv => TypeOK
    BY DEF TypeInv
<1> QED
    BY <1>1, <1>2, <1>3, PTL DEF Spec

-----------------------------------------------------------------------------
(* The inductive invariant.                                                *)

\* The parts of the invariant about the offsets, beyond the types.
OffsetInv == CommittedWasHandled /\ LostOnlyBehindSuccess /\ ClaimInv /\ OwnerInv

LEMMA OffsetInit ==
    ASSUME Init PROVE OffsetInv
BY DEF Init, OffsetInv, CommittedWasHandled, LostOnlyBehindSuccess, ClaimInv, OwnerInv, Accepted

\* A step that leaves offsets, claims and what was handled alone, and lets no
\* session commit that could not before, keeps the invariant.
LEMMA OffsetFrame ==
    ASSUME TypeInv, OffsetInv,
           UNCHANGED <<committed, owner, succeeded, failed, next, marked>>,
           claim' \in [Claims -> ClaimStates],
           \A c \in Claims : \/ claim'[c] = "none"
                             \/ claim[c] = "select" /\ claim'[c] = "exited"
                             \/ claim'[c] = claim[c],
           \A c \in Claims : Accepted(c)' => Accepted(c)
    PROVE  OffsetInv'
<1> USE DEF OffsetInv, TypeInv, TypeOK
<1>1. CommittedWasHandled' /\ LostOnlyBehindSuccess'
    BY DEF CommittedWasHandled, LostOnlyBehindSuccess
<1>2. \A c \in Claims : claim'[c] # "none" => claim[c] # "none" /\ Floor(c)' = Floor(c)
    BY DEF Floor
<1>3. ClaimInv'
    BY <1>2 DEF ClaimInv
<1>4. OwnerInv'
    BY <1>2 DEF OwnerInv
<1> QED
    BY <1>1, <1>3, <1>4

\* The steps of a member that commit nothing.
LEMMA MemberOffset ==
    ASSUME TypeInv, TypeInv', OffsetInv, NEW m \in Members,
           Consume(m) \/ LoopStep(m) \/ GroupError(m) \/ Rebalance(m)
             \/ Expel(m) \/ Cancel(m) \/ CloseGroup(m) \/ Crash(m)
    PROVE  OffsetInv'
<1> USE PairInClaims
    DEF TypeInv, TypeOK, LoopGoto, Return, Accepted, brokerVars, memberVars, claimVars, histVars
<1>1. CASE Consume(m) \/ LoopStep(m)
    BY <1>1, OffsetFrame DEF Consume, LoopStep, GroupConsume, CheckContext
<1>2. CASE GroupError(m)
    BY <1>2, OffsetFrame DEF GroupError
<1>3. CASE Rebalance(m) \/ Expel(m) \/ Cancel(m) \/ CloseGroup(m)
    BY <1>3, OffsetFrame DEF Rebalance, Expel, Cancel, CloseGroup
<1>4. CASE Crash(m)
    BY <1>4, OffsetFrame DEF Crash
<1> QED
    BY <1>1, <1>2, <1>3, <1>4

\* Receiving a message, handling it and marking it keep what is known of the
\* claim, and what is known of the others.
LEMMA HandleOffset ==
    ASSUME TypeInv, TypeInv', OffsetInv, NEW c \in Claims,
           Receive(c) \/ HandlerReturns(c) \/ MarkMessage(c)
    PROVE  OffsetInv'
<1> USE DEF ClaimGoto, brokerVars, memberVars, claimVars, histVars
<1>1. /\ UNCHANGED <<committed, owner, fenced, loop>>
      /\ \A p \in Partitions : succeeded[p] \subseteq succeeded'[p] /\ failed[p] \subseteq failed'[p]
      /\ \A d \in Claims \ {c} : /\ claim'[d] = claim[d] /\ next'[d] = next[d]
                                /\ marked'[d] = marked[d]
      /\ claim[c] # "none" /\ marked'[c] >= marked[c]
  <2> USE PairInClaims DEF TypeInv, TypeOK
  <2>1. CASE Receive(c)
      BY <2>1 DEF Receive
  <2>2. CASE HandlerOk(c)
      BY <2>2 DEF HandlerOk
  <2>3. CASE HandlerError(c)
      BY <2>3 DEF HandlerError
  <2>4. CASE MarkMessage(c)
      BY <2>4 DEF MarkMessage
  <2> QED
      BY <2>1, <2>2, <2>3, <2>4 DEF HandlerReturns
<1>2. CommittedWasHandled' /\ LostOnlyBehindSuccess'
    BY <1>1 DEF OffsetInv, CommittedWasHandled, LostOnlyBehindSuccess, TypeInv, TypeOK
<1>3. OwnerInv'
  <2> SUFFICES ASSUME NEW d \in Claims, Accepted(d), claim'[d] # "none"
               PROVE  owner[d[2]] = d[1] /\ committed[d[2]] <= marked'[d]
      BY <1>1 DEF OwnerInv, Accepted
  <2>1. claim[d] # "none" /\ marked[d] <= marked'[d]
      BY <1>1 DEF TypeInv, TypeOK
  <2> QED
      BY <2>1, PairInClaims DEF OffsetInv, OwnerInv, TypeInv, TypeOK
<1>4. /\ marked'[c] <= Floor(c)'
      /\ \A o \in 0..(Floor(c)' - 1) : o \in succeeded'[c[2]] \cup failed'[c[2]]
      /\ claim'[c] = "marking" => Current(c)' \in succeeded'[c[2]]
      /\ marked'[c] > 0 => marked'[c] - 1 \in succeeded'[c[2]]
      /\ \A o \in marked'[c]..(Floor(c)' - 1) : o \in failed'[c[2]]
  <2> USE PairInClaims DEF TypeInv, TypeOK, OffsetInv, ClaimInv, Floor
  <2>1. CASE Receive(c)
      BY <2>1 DEF Receive
  <2>2. CASE HandlerOk(c)
      BY <2>2 DEF HandlerOk
  <2>3. CASE HandlerError(c)
    <3>1. /\ claim[c] = "handling" /\ claim'[c] = "select"
          /\ UNCHANGED <<next, marked, succeeded>>
          /\ failed'[c[2]] = failed[c[2]] \cup {Current(c)}
        BY <2>3 DEF HandlerError
    <3>2. Floor(c) = Current(c) /\ Floor(c)' = Current(c) + 1 /\ Current(c) \in Offsets
        BY <3>1
    <3>3. \A o \in 0..(Floor(c)' - 1) : o \in 0..(Floor(c) - 1) \/ o = Current(c)
        BY <3>2
    <3>4. /\ marked[c] <= Floor(c) /\ marked[c] \in Offsets
          /\ \A o \in 0..(Floor(c) - 1) : o \in succeeded[c[2]] \cup failed[c[2]]
          /\ marked[c] > 0 => marked[c] - 1 \in succeeded[c[2]]
          /\ \A o \in marked[c]..(Floor(c) - 1) : o \in failed[c[2]]
        BY <3>1
    <3>5. \A o \in 0..(Floor(c)' - 1) : o \in succeeded'[c[2]] \cup failed'[c[2]]
        BY <3>1, <3>3, <3>4
    <3>6. \A o \in marked[c]..(Floor(c)' - 1) : o \in failed'[c[2]]
      <4>2. marked[c] \in Nat /\ Current(c) \in Nat
          BY <3>2, <3>4, ConsumerAssumption
      <4> HIDE DEF Floor, Current
      <4>1. Floor(c)' - 1 = Current(c) /\ Floor(c) - 1 = Current(c) - 1
          BY <3>2, <4>2
      <4>3. \A o \in marked[c]..Current(c) : o \in marked[c]..(Current(c) - 1) \/ o = Current(c)
          BY <4>2, LastOfRange
      <4> QED
          BY <3>1, <3>4, <4>1, <4>3
    <3> HIDE DEF Floor
    <3> QED
        BY <3>1, <3>2, <3>4, <3>5, <3>6
  <2>4. CASE MarkMessage(c)
      BY <2>4 DEF MarkMessage
  <2> QED
      BY <2>1, <2>2, <2>3, <2>4 DEF HandlerReturns
<1>5. ASSUME NEW d \in Claims \ {c}, claim'[d] # "none"
      PROVE  /\ marked'[d] <= Floor(d)'
             /\ \A o \in 0..(Floor(d)' - 1) : o \in succeeded'[d[2]] \cup failed'[d[2]]
             /\ claim'[d] = "marking" => Current(d)' \in succeeded'[d[2]]
             /\ marked'[d] > 0 => marked'[d] - 1 \in succeeded'[d[2]]
             /\ \A o \in marked'[d]..(Floor(d)' - 1) : o \in failed'[d[2]]
  <2>1. Floor(d)' = Floor(d) /\ Current(d)' = Current(d)
      BY <1>1 DEF Floor
  <2> QED
      BY <1>1, <1>5, <2>1, PairInClaims DEF OffsetInv, ClaimInv
<1>6. ClaimInv'
    BY <1>4, <1>5 DEF ClaimInv
<1> QED
    BY <1>2, <1>3, <1>6 DEF OffsetInv

\* The other steps of a claim that commit nothing.
LEMMA ClaimOffset ==
    ASSUME TypeInv, TypeInv', OffsetInv, NEW c \in Claims,
           ClaimExit(c) \/ Fetch(c) \/ CloseChannel(c)
    PROVE  OffsetInv'
<1> USE DEF TypeInv, TypeOK, ClaimGoto, Accepted, brokerVars, memberVars, claimVars, histVars
<1>1. CASE ClaimExit(c)
    BY <1>1, OffsetFrame DEF ClaimExit
<1>2. CASE Fetch(c)
    BY <1>2, OffsetFrame DEF Fetch
<1>3. CASE CloseChannel(c)
    BY <1>3, OffsetFrame DEF CloseChannel
<1> QED
    BY <1>1, <1>2, <1>3

\* A commit moves the committed offset of a partition to the mark of its owner:
\* never back, and never past what was handled.
LEMMA CommitStep ==
    ASSUME TypeInv, OffsetInv, NEW p \in Partitions, NEW c \in Claims,
           c[2] = p, Accepted(c), claim[c] # "none"
    PROVE  /\ committed[p] <= marked[c]
           /\ \A o \in 0..(marked[c] - 1) : o \in succeeded[p] \cup failed[p]
           /\ marked[c] > 0 => marked[c] - 1 \in succeeded[p]
<1>1. committed[p] <= marked[c]
    BY DEF OffsetInv, OwnerInv
<1>2. marked[c] <= Floor(c) /\ marked[c] \in Offsets /\ Floor(c) \in Int
    BY DEF OffsetInv, ClaimInv, TypeInv, TypeOK, Floor
<1> QED
    BY <1>1, <1>2 DEF OffsetInv, ClaimInv

LEMMA AutoCommitOffset ==
    ASSUME TypeInv, OffsetInv, NEW c \in Claims, AutoCommit(c)
    PROVE  OffsetInv'
<1> USE DEF AutoCommit, memberVars, claimVars, histVars
<1>1. c[1] \in Members /\ c[2] \in Partitions /\ Accepted(c) /\ claim[c] # "none"
    BY PairInClaims
<1>2. committed' = [committed EXCEPT ![c[2]] = marked[c]]
    OBVIOUS
<1>3. CommittedWasHandled' /\ LostOnlyBehindSuccess'
    BY <1>1, <1>2, CommitStep
    DEF OffsetInv, CommittedWasHandled, LostOnlyBehindSuccess, TypeInv, TypeOK
<1>4. ClaimInv'
    BY DEF OffsetInv, ClaimInv, Floor
<1>5. OwnerInv'
  <2> SUFFICES ASSUME NEW d \in Claims, Accepted(d), claim[d] # "none"
               PROVE  owner[d[2]] = d[1] /\ committed'[d[2]] <= marked[d]
      BY DEF OwnerInv, Accepted
  <2>1. owner[d[2]] = d[1] /\ committed[d[2]] <= marked[d]
      BY DEF OffsetInv, OwnerInv
  <2>2. CASE d[2] = c[2]
    <3>1. d = c
        BY <1>1, <2>1, <2>2, PairInClaims DEF OffsetInv, OwnerInv
    <3> QED
        BY <1>1, <1>2, <2>1, <3>1 DEF TypeInv, TypeOK
  <2>3. CASE d[2] # c[2]
      BY <1>2, <2>1, <2>3, PairInClaims DEF TypeInv, TypeOK
  <2> QED
      BY <2>2, <2>3
<1> QED
    BY <1>3, <1>4, <1>5 DEF OffsetInv

\* The commit at the end of a session.
LEMMA SessionEndOffset ==
    ASSUME TypeInv, OffsetInv, NEW m \in Members, SessionEnd(m)
    PROVE  OffsetInv'
<1> USE DEF claimVars, histVars
<1>1. /\ UNCHANGED <<owner, fenced, claim, fetched, next, marked, succeeded, failed>>
      /\ loop' = [loop EXCEPT ![m] = "check"]
      /\ \/ UNCHANGED committed
         \/ committed' = [p \in Partitions |->
                            IF Accepted(<<m, p>>) /\ claim[<<m, p>>] = "exited"
                            THEN marked[<<m, p>>] ELSE committed[p]]
    BY DEF SessionEnd, LoopGoto
<1>2. ASSUME NEW p \in Partitions
      PROVE  \/ committed'[p] = committed[p]
             \/ /\ Accepted(<<m, p>>) /\ claim[<<m, p>>] # "none"
                /\ committed'[p] = marked[<<m, p>>]
    BY <1>1
<1>3. CommittedWasHandled' /\ LostOnlyBehindSuccess'
  <2> SUFFICES ASSUME NEW p \in Partitions
               PROVE  /\ \A o \in 0..(committed'[p] - 1) : o \in succeeded[p] \cup failed[p]
                      /\ committed'[p] > 0 => committed'[p] - 1 \in succeeded[p]
      BY <1>1 DEF CommittedWasHandled, LostOnlyBehindSuccess
  <2>1. <<m, p>> \in Claims
      OBVIOUS
  <2>2. CASE committed'[p] = committed[p]
      BY <2>2 DEF OffsetInv, CommittedWasHandled, LostOnlyBehindSuccess
  <2>3. CASE committed'[p] # committed[p]
      BY <1>2, <2>1, <2>3, CommitStep
  <2> QED
      BY <2>2, <2>3
<1>4. ClaimInv'
    BY <1>1 DEF OffsetInv, ClaimInv, Floor
<1>5. OwnerInv'
  <2> SUFFICES ASSUME NEW d \in Claims, Accepted(d)', claim[d] # "none"
               PROVE  owner[d[2]] = d[1] /\ committed'[d[2]] <= marked[d]
      BY <1>1 DEF OwnerInv
  <2>1. d[1] # m /\ Accepted(d) /\ d[2] \in Partitions
      BY <1>1, PairInClaims DEF Accepted, TypeInv, TypeOK
  <2>2. owner[d[2]] = d[1] /\ committed[d[2]] <= marked[d]
      BY <2>1 DEF OffsetInv, OwnerInv
  <2>3. ~ (Accepted(<<m, d[2]>>) /\ claim[<<m, d[2]>>] # "none")
    <3>1. <<m, d[2]>> \in Claims
        BY <2>1
    <3> QED
        BY <2>1, <2>2, <3>1 DEF OffsetInv, OwnerInv
  <2> QED
      BY <1>2, <2>1, <2>2, <2>3
<1> QED
    BY <1>3, <1>4, <1>5 DEF OffsetInv

\* A new generation: the claims of the members that joined start at the
\* committed offsets, and only these members may commit.
LEMMA GenerationOffset ==
    ASSUME TypeInv, OffsetInv, NewGeneration
    PROVE  OffsetInv'
<1> DEFINE joined == {m \in Members : loop[m] = "joining" /\ m \notin closed}
<1> PICK asg \in [Partitions -> joined] :
       /\ owner' = asg
       /\ fenced' = Members \ joined
       /\ loop' = [m \in Members |-> IF m \in joined THEN "session" ELSE loop[m]]
       /\ claim' = [c \in Claims |->
                      IF c[1] \notin joined THEN claim[c]
                      ELSE IF asg[c[2]] = c[1] THEN "select" ELSE "none"]
       /\ next' = [c \in Claims |-> IF c[1] \in joined THEN StartAt(c[2]) ELSE next[c]]
       /\ marked' = [c \in Claims |-> IF c[1] \in joined THEN committed[c[2]] ELSE marked[c]]
    BY DEF NewGeneration
<1>1. UNCHANGED <<committed, succeeded, failed>>
    BY DEF NewGeneration, histVars
<1>2. CommittedWasHandled' /\ LostOnlyBehindSuccess'
    BY <1>1 DEF OffsetInv, CommittedWasHandled, LostOnlyBehindSuccess
<1> HIDE DEF joined
<1>3. ASSUME NEW c \in Claims, c[1] \in joined, claim'[c] # "none"
      PROVE  /\ claim'[c] = "select" /\ owner'[c[2]] = c[1]
             /\ next'[c] = committed[c[2]] /\ marked'[c] = committed[c[2]]
             /\ c[2] \in Partitions
    BY <1>3, PairInClaims
<1>4. ASSUME NEW c \in Claims, c[1] \notin joined
      PROVE  /\ claim'[c] = claim[c] /\ next'[c] = next[c] /\ marked'[c] = marked[c]
             /\ ~Accepted(c)'
    BY <1>4, PairInClaims DEF Accepted
<1>5. ClaimInv'
  <2> SUFFICES ASSUME NEW c \in Claims, claim'[c] # "none"
               PROVE  /\ marked'[c] <= Floor(c)'
                      /\ \A o \in 0..(Floor(c)' - 1) : o \in succeeded[c[2]] \cup failed[c[2]]
                      /\ claim'[c] = "marking" => Current(c)' \in succeeded[c[2]]
                      /\ marked'[c] > 0 => marked'[c] - 1 \in succeeded[c[2]]
                      /\ \A o \in marked'[c]..(Floor(c)' - 1) : o \in failed[c[2]]
      BY <1>1 DEF ClaimInv
  <2>1. CASE c[1] \in joined
      BY <1>3, <2>1 DEF Floor, OffsetInv, CommittedWasHandled, LostOnlyBehindSuccess,
                        TypeInv, TypeOK
  <2>2. CASE c[1] \notin joined
    <3>1. Floor(c)' = Floor(c) /\ Current(c)' = Current(c)
        BY <1>4, <2>2 DEF Floor
    <3> QED
        BY <1>4, <2>2, <3>1 DEF OffsetInv, ClaimInv
  <2> QED
      BY <2>1, <2>2
<1>6. OwnerInv'
    BY <1>1, <1>3, <1>4 DEF OwnerInv, TypeInv, TypeOK
<1> QED
    BY <1>2, <1>5, <1>6 DEF OffsetInv

\* Every step keeps the invariant of the offsets.
LEMMA OffsetStep ==
    ASSUME TypeInv, TypeInv', OffsetInv, [Next]_vars
    PROVE  OffsetInv'
<1> USE DEF TypeInv, TypeOK, Accepted, brokerVars, memberVars, claimVars, histVars
<1>1. ASSUME NEW p \in Partitions, Produce(p) PROVE OffsetInv'
    BY <1>1, OffsetFrame DEF Produce
<1>2. CASE UNCHANGED vars
    BY <1>2, OffsetFrame DEF vars
<1> QED
    BY <1>1, <1>2, MemberOffset, HandleOffset, ClaimOffset, AutoCommitOffset,
       SessionEndOffset, GenerationOffset
    DEF Next, GroupNext, ClaimStep

\* ConsumerInv is inductive, so it holds in every reachable state.
THEOREM ConsumerInvariant == Spec => []ConsumerInv
<1>1. Init => TypeInv /\ OffsetInv
    BY TypeInit, OffsetInit
<1>2. TypeInv /\ OffsetInv /\ [Next]_vars => (TypeInv /\ OffsetInv)'
    BY TypeStep, OffsetStep
<1>3. TypeInv /\ OffsetInv => ConsumerInv
    BY DEF ConsumerInv, OffsetInv
<1> QED
    BY <1>1, <1>2, <1>3, PTL DEF Spec

-----------------------------------------------------------------------------
(* What follows from the invariant.                                        *)

\* No message is passed over unseen: the group never commits past a message
\* that was not given to a handler.
THEOREM ConsumerCommittedWasHandled == Spec => []CommittedWasHandled
BY ConsumerInvariant, PTL DEF ConsumerInv

\* The last committed message was handled successfully.
THEOREM ConsumerLostOnlyBehindSuccess == Spec => []LostOnlyBehindSuccess
BY ConsumerInvariant, PTL DEF ConsumerInv

\* A session of the current generation never handles a committed message.
THEOREM ConsumerNoReplayOfCommitted == Spec => []NoReplayOfCommitted
<1>1. ConsumerInv => NoReplayOfCommitted
    BY PairInClaims
    DEF ConsumerInv, NoReplayOfCommitted, ClaimInv, OwnerInv, Floor, TypeInv, TypeOK
<1> QED
    BY <1>1, ConsumerInvariant, PTL

\* What the next owner of a partition reads again after a session that ended in
\* good order has failed.
THEOREM ConsumerOnlyFailuresAreRepeated == Spec => OnlyFailuresAreRepeated
<1>1. ASSUME ConsumerInv, NEW m \in Members, NEW p \in Partitions,
             claim[<<m, p>>] = "exited", committed'[p] = marked[<<m, p>>]
      PROVE  committed'[p]..(next[<<m, p>>] - 1) \subseteq failed[p]
  <2> DEFINE c == <<m, p>>
  <2>1. c \in Claims /\ c[2] = p /\ Floor(c) = next[c]
      BY <1>1 DEF Floor
  <2>2. \A o \in marked[c]..(Floor(c) - 1) : o \in failed[p]
      BY <1>1, <2>1 DEF ConsumerInv, ClaimInv
  <2> QED
      BY <1>1, <2>1, <2>2
<1>2. ConsumerInv /\ [Next]_vars =>
        [\A m \in Members, p \in Partitions :
           LET c == <<m, p>> IN
           /\ loop[m] = "session" /\ loop'[m] = "check"
           /\ claim[c] = "exited" /\ committed'[p] = marked[c]
           => committed'[p]..(next[c] - 1) \subseteq failed[p]]_vars
    BY <1>1
<1> QED
    BY <1>2, ConsumerInvariant, PTL DEF Spec, OnlyFailuresAreRepeated

-----------------------------------------------------------------------------
(* How a session ends.                                                     *)

\* What a claim has left depends on its own state only.
LEMMA WorkLeftFrame ==
    ASSUME TypeInv, NEW c \in Claims,
           claim'[c] = claim[c], fetched'[c] = fetched[c], next'[c] = next[c]
    PROVE  WorkLeft(c)' = WorkLeft(c) /\ WorkLeft(c) \in Nat
<1>1. Stage[claim[c]] \in Nat
    BY DEF TypeInv, TypeOK, ClaimStates, Stage
<1>2. fetched[c] \in Nat /\ next[c] \in Nat /\ next[c] <= fetched[c]
    BY ConsumerAssumption DEF TypeInv, TypeOK, HandlingInv
<1> QED
    BY <1>1, <1>2 DEF WorkLeft

\* Every step of ConsumeClaim brings its end nearer.
LEMMA ClaimStepWorks ==
    ASSUME TypeInv, NEW c \in Claims, ClaimStep(c)
    PROVE  WorkLeft(c)' < WorkLeft(c) /\ WorkLeft(c)' \in Nat
<1> USE DEF TypeInv, TypeOK, HandlingInv, ClaimStates, Stage, WorkLeft, ClaimGoto, claimVars
<1>1. fetched[c] \in Nat /\ next[c] \in Nat /\ next[c] <= fetched[c]
    BY ConsumerAssumption
<1>2. CASE Receive(c)
    BY <1>1, <1>2 DEF Receive
<1>3. CASE HandlerReturns(c)
    BY <1>1, <1>3 DEF HandlerReturns, HandlerOk, HandlerError
<1>4. CASE MarkMessage(c)
    BY <1>1, <1>4 DEF MarkMessage
<1>5. CASE ClaimExit(c)
    BY <1>1, <1>5 DEF ClaimExit
<1> QED
    BY <1>2, <1>3, <1>4, <1>5 DEF ClaimStep

\* A session that is over stays over while its member is in it, and a channel
\* of it that is closed stays closed.
LEMMA WindingStays ==
    ASSUME TypeInv, Next, NEW k \in Claims, Winding(k), loop'[k[1]] = "session"
    PROVE  Winding(k)'
<1> USE PairInClaims DEF TypeInv, TypeOK, Winding, SessionOver
<1>1. ASSUME NEW n \in Members, Crash(n) PROVE Winding(k)'
    BY <1>1 DEF Crash, LoopGoto
<1>2. CASE NewGeneration
    BY <1>2 DEF NewGeneration
<1>3. ASSUME NEW n \in Members,
             Consume(n) \/ LoopStep(n) \/ GroupError(n) \/ SessionEnd(n) \/ Rebalance(n)
               \/ Expel(n) \/ Cancel(n) \/ CloseGroup(n)
      PROVE  Winding(k)'
    BY <1>3 DEF Consume, LoopStep, GroupConsume, CheckContext, GroupError, SessionEnd, Rebalance,
                Expel, Cancel, CloseGroup, memberVars, claimVars
<1>4. ASSUME NEW c \in Claims, ClaimStep(c) \/ Fetch(c) \/ CloseChannel(c) \/ AutoCommit(c)
      PROVE  Winding(k)'
    BY <1>4 DEF ClaimStep, Receive, HandlerReturns, HandlerOk, HandlerError, MarkMessage,
                ClaimExit, Fetch, CloseChannel, AutoCommit, memberVars, claimVars
<1>5. ASSUME NEW p \in Partitions, Produce(p) PROVE Winding(k)'
    BY <1>5 DEF Produce, memberVars, claimVars
<1> QED
    BY <1>1, <1>2, <1>3, <1>4, <1>5 DEF Next, GroupNext

\* A step that takes a claim of such a session on is one of its ConsumeClaim.
LEMMA WindingClaim ==
    ASSUME TypeInv, Next, NEW c \in Claims, Winding(c), loop'[c[1]] = "session"
    PROVE  \/ claim'[c] = claim[c] /\ fetched'[c] = fetched[c] /\ next'[c] = next[c]
           \/ ClaimStep(c)
<1> USE PairInClaims DEF TypeInv, TypeOK, Winding
<1>1. CASE UNCHANGED <<claim, fetched, next>>
    BY <1>1
<1>2. ASSUME NEW m \in Members, Crash(m)
      PROVE  claim'[c] = claim[c] /\ fetched'[c] = fetched[c] /\ next'[c] = next[c]
    BY <1>2 DEF Crash, LoopGoto
<1>3. CASE NewGeneration
    BY <1>3 DEF NewGeneration
<1>4. ASSUME NEW d \in Claims, ClaimStep(d), d # c
      PROVE  claim'[c] = claim[c] /\ fetched'[c] = fetched[c] /\ next'[c] = next[c]
    BY <1>4 DEF ClaimStep, Receive, HandlerReturns, HandlerOk, HandlerError, MarkMessage,
                ClaimExit, ClaimGoto, claimVars
<1>5. ASSUME NEW d \in Claims, Fetch(d)
      PROVE  claim'[c] = claim[c] /\ fetched'[c] = fetched[c] /\ next'[c] = next[c]
  <2>1. d # c
      BY <1>5 DEF Fetch
  <2> QED
      BY <1>5, <2>1 DEF Fetch
<1>6. ASSUME NEW m \in Members,
             Consume(m) \/ LoopStep(m) \/ GroupError(m) \/ SessionEnd(m) \/ Rebalance(m)
               \/ Expel(m) \/ Cancel(m) \/ CloseGroup(m)
      PROVE  UNCHANGED <<claim, fetched, next>>
    BY <1>6 DEF Consume, LoopStep, GroupConsume, CheckContext, GroupError, SessionEnd, Rebalance,
                Expel, Cancel, CloseGroup, claimVars
<1>7. ASSUME NEW d \in Claims, CloseChannel(d) \/ AutoCommit(d)
      PROVE  UNCHANGED <<claim, fetched, next>>
    BY <1>7 DEF CloseChannel, AutoCommit, claimVars
<1>8. ASSUME NEW p \in Partitions, Produce(p) PROVE UNCHANGED <<claim, fetched, next>>
    BY <1>8 DEF Produce, claimVars
<1> QED
    BY <1>1, <1>2, <1>3, <1>4, <1>5, <1>6, <1>7, <1>8 DEF Next, GroupNext

\* A member whose context is done, whose group is closed or that must rebalance
\* comes to the end of its session: once the client library has closed the
\* channel of a claim, nothing is added to its work, and each of its steps takes
\* from it. With the fairness of the goroutines this is CancelStops.
THEOREM ConsumerWorkRunsOut == Spec => WorkRunsOut
<1>1. ConsumerInv /\ [Next]_vars
        => [\A c \in Claims : (Winding(c) /\ loop'[c[1]] = "session") =>
              /\ Winding(c)'
              /\ WorkLeft(c)' <= WorkLeft(c) /\ WorkLeft(c)' \in Nat
              /\ claim'[c] # claim[c] => WorkLeft(c)' < WorkLeft(c)]_vars
  <2> SUFFICES ASSUME ConsumerInv, Next, NEW c \in Claims, Winding(c), loop'[c[1]] = "session"
               PROVE  /\ Winding(c)'
                      /\ WorkLeft(c)' <= WorkLeft(c) /\ WorkLeft(c)' \in Nat
                      /\ claim'[c] # claim[c] => WorkLeft(c)' < WorkLeft(c)
      OBVIOUS
  <2>1. TypeInv
      BY DEF ConsumerInv
  <2>2. Winding(c)'
      BY <2>1, WindingStays
  <2>3. CASE claim'[c] = claim[c] /\ fetched'[c] = fetched[c] /\ next'[c] = next[c]
    <3>1. WorkLeft(c)' = WorkLeft(c) /\ WorkLeft(c) \in Nat
        BY <2>1, <2>3, WorkLeftFrame
    <3> QED
        BY <2>2, <2>3, <3>1
  <2>4. CASE ClaimStep(c)
    <3>1. WorkLeft(c)' < WorkLeft(c) /\ WorkLeft(c)' \in Nat
        BY <2>1, <2>4, ClaimStepWorks
    <3>2. WorkLeft(c) \in Int
      <4>1. Stage[claim[c]] \in Nat /\ fetched[c] \in Nat /\ next[c] \in Nat
          BY <2>1, ConsumerAssumption DEF TypeInv, TypeOK, ClaimStates, Stage
      <4> QED
          BY <4>1 DEF WorkLeft
    <3> QED
        BY <2>2, <3>1, <3>2
  <2> QED
      BY <2>1, <2>3, <2>4, WindingClaim
<1> QED
    BY <1>1, ConsumerInvariant, PTL DEF Spec, WorkRunsOut
=============================================================================
