---------------------------- MODULE RedisProofs ----------------------------
(***************************************************************************)
(* The client keeps its pool accounted for and implements AtomicCache.     *)
(***************************************************************************)
EXTENDS RedisRefines, TLAPS

\* The values that stand for none are none of the others.
LEMMA RedisNone ==
    /\ Nobody \notin Callers /\ Idle \notin Commands
    /\ Nothing \notin Conns /\ Nothing \notin SUBSET Vals
  BY ClientAssumption

USE RedisNone DEF Holding, Open, Ticket, Goto, Failure

-----------------------------------------------------------------------------
(* The inductive invariant: what a step does not touch stays right.        *)

\* A connection is as good as it was when neither it nor its user has moved.
LEMMA RedisConnKept ==
    ASSUME NEW s \in Conns, ConnOK(s), UNCHANGED <<wire[s], replies[s], user[s]>>,
           s \in broken <=> (s \in broken)',
           user[s] # Nobody =>
             UNCHANGED <<pc[user[s]], cmd[user[s]], count[user[s]], effect[user[s]]>>
    PROVE  ConnOK(s)'
<1>1. CASE ConnQuiet(s)  BY <1>1 DEF ConnOK, ConnQuiet
<1>2. CASE ~ConnQuiet(s)
  <2> user[s] # Nobody /\ pc[user[s]] = "sent" /\ s \notin broken
    BY <1>2 DEF ConnOK
  <2>1. CASE ConnAsked(s)  BY <2>1 DEF ConnOK, ConnAsked
  <2>2. CASE ConnReplied(s)  BY <2>2 DEF ConnOK, ConnReplied
  <2>3. QED  BY <1>2, <2>1, <2>2 DEF ConnOK
<1>3. QED  BY <1>1, <1>2

\* So is a call.
LEMMA RedisCallKept ==
    ASSUME NEW p \in Callers, CallOK(p), UNCHANGED <<pc[p], cmd[p], effect[p], result[p]>>
    PROVE  CallOK(p)'
  BY DEF CallOK

\* So is a command on its own, unless its connection is used again.
LEMMA RedisOrphanKept ==
    ASSUME NEW x \in orphans, OrphanOK(x),
           UNCHANGED <<pc[x[1]], cmd[x[1]], count[x[1]], effect[x[1]], result[x[1]], conn[x[1]]>>,
           pc[x[1]] = "sent" /\ conn[x[1]] \in broken => (conn[x[1]] \in broken)'
    PROVE  OrphanOK(x)'
  BY DEF OrphanOK, Current

\* The user of a place.
LEMMA RedisUser ==
    ASSUME IInv, NEW s \in Conns, user[s] # Nobody
    PROVE  user[s] \in Callers /\ pc[user[s]] \in Holding /\ conn[user[s]] = s /\ s \in dialled
<1>1. user[s] \in Callers \cup {Nobody}  BY DEF IInv, TypeOK
<1>2. QED  BY <1>1 DEF IInv, HoldInv

\* The place of a caller.
LEMMA RedisPlace ==
    ASSUME IInv, NEW p \in Callers, pc[p] \in Holding
    PROVE  conn[p] \in Conns /\ user[conn[p]] = p /\ conn[p] \in dialled /\ cmd[p] \in Commands
  BY DEF IInv, HoldInv, CallInv, CallOK

\* Whose command it is.
LEMMA RedisOrphan ==
    ASSUME IInv, NEW x \in orphans
    PROVE  x[1] \in Callers /\ x[2] \in Nat /\ x[3] \in Commands /\ OrphanOK(x)
  BY DEF IInv, TypeOK, OrphanInv, Requests

-----------------------------------------------------------------------------
(* The inductive invariant: the steps.                                     *)

\* The initial state satisfies it.
LEMMA RedisInitIInv == Init => IInv
<1> SUFFICES ASSUME Init PROVE IInv
  OBVIOUS
<1> USE DEF Init
<1>1. TypeOK  BY DEF TypeOK, PcStates, Entries, NoEntry
<1>2. HoldInv  BY DEF HoldInv
<1>3. ConnInv  BY DEF ConnInv, ConnOK, ConnQuiet
<1>4. CallInv  BY DEF CallInv, CallOK
<1>5. OrphanInv  BY DEF OrphanInv
<1>6. QED  BY <1>1, <1>2, <1>3, <1>4, <1>5 DEF IInv

\* A call is invoked.
LEMMA RedisInvoke ==
    ASSUME IInv, NEW p \in Callers, NEW c \in Commands, Invoke(p, c) PROVE IInv'
<1> USE DEF IInv, Invoke, poolVars, serverVars
<1>1. TypeOK'  BY DEF TypeOK, PcStates
<1>2. HoldInv'  BY DEF TypeOK, HoldInv, PcStates
<1>3. ConnInv'
  <2> SUFFICES ASSUME NEW s \in Conns PROVE ConnOK(s)'
    BY DEF ConnInv
  <2>1. user[s] # Nobody => user[s] \in Callers /\ user[s] # p
    BY RedisUser
  <2>2. QED  BY <2>1, RedisConnKept DEF TypeOK, ConnInv
<1>4. CallInv'
  <2> SUFFICES ASSUME NEW q \in Callers PROVE CallOK(q)'
    BY DEF CallInv
  <2>1. CASE q = p  BY <2>1 DEF TypeOK, CallInv, CallOK
  <2>2. CASE q # p  BY <2>2, RedisCallKept DEF TypeOK, CallInv
  <2>3. QED  BY <2>1, <2>2
<1>5. OrphanInv'
  <2> SUFFICES ASSUME NEW x \in orphans PROVE OrphanOK(x)'
    BY DEF OrphanInv
  <2>0. x[1] \in Callers /\ x[2] \in Nat /\ OrphanOK(x)
    BY RedisOrphan
  <2>1. CASE x[1] = p  BY <2>0, <2>1 DEF TypeOK, OrphanOK, Current
  <2>2. CASE x[1] # p  BY <2>0, <2>2, RedisOrphanKept DEF TypeOK
  <2>3. QED  BY <2>1, <2>2
<1>6. QED  BY <1>1, <1>2, <1>3, <1>4, <1>5

\* The time to wait for a connection ends.
LEMMA RedisConnTimeout ==
    ASSUME IInv, NEW p \in Callers, ConnTimeout(p) PROVE IInv'
  BY DEF IInv, TypeOK, HoldInv, ConnInv, ConnOK, ConnQuiet, ConnAsked, ConnReplied, CallInv,
         CallOK, OrphanInv, OrphanOK, Current, ConnTimeout, poolVars, serverVars

\* A caller is given a connection.
LEMMA RedisGetConn ==
    ASSUME IInv, NEW p \in Callers, GetConn(p) PROVE IInv'
<1> PICK t \in FreePlaces :
      /\ user' = [user EXCEPT ![t] = p]
      /\ conn' = [conn EXCEPT ![p] = t]
      /\ dialled' = dialled \cup {t}
  BY DEF GetConn
<1> t \in Conns /\ user[t] = Nobody
  BY DEF FreePlaces
<1> USE DEF IInv, serverVars
<1>0. /\ pc[p] = "getConn" /\ pc' = [pc EXCEPT ![p] = "have"]
      /\ UNCHANGED <<cmd, result, expired, answer, count, broken, wire, replies, breaks,
                     serverVars>>
  BY DEF GetConn
<1>1. TypeOK'  BY <1>0 DEF TypeOK, PcStates
<1>2. HoldInv'
  <2>1. \A s \in Conns : user[s] # Nobody => user[s] # p
    BY <1>0, RedisUser
  <2>2. QED  BY <1>0, <2>1 DEF TypeOK, HoldInv
<1>3. ConnInv'
  <2> SUFFICES ASSUME NEW s \in Conns PROVE ConnOK(s)'
    BY DEF ConnInv
  <2>1. CASE s = t
    BY <1>0, <2>1 DEF TypeOK, ConnInv, ConnOK, ConnQuiet
  <2>2. CASE s # t
    <3>1. user[s] # Nobody => user[s] \in Callers /\ user[s] # p
      BY <1>0, RedisUser
    <3>2. QED  BY <1>0, <2>2, <3>1, RedisConnKept DEF TypeOK, ConnInv
  <2>3. QED  BY <2>1, <2>2
<1>4. CallInv'
  <2> SUFFICES ASSUME NEW q \in Callers PROVE CallOK(q)'
    BY DEF CallInv
  <2>1. CASE q = p  BY <1>0, <2>1 DEF TypeOK, CallInv, CallOK
  <2>2. CASE q # p  BY <1>0, <2>2, RedisCallKept DEF TypeOK, CallInv
  <2>3. QED  BY <2>1, <2>2
<1>5. OrphanInv'
  <2> SUFFICES ASSUME NEW x \in orphans PROVE OrphanOK(x)'
    BY <1>0 DEF OrphanInv
  <2>0. x[1] \in Callers /\ x[2] \in Nat /\ OrphanOK(x)
    BY RedisOrphan
  <2>1. CASE x[1] = p  BY <1>0, <2>0, <2>1 DEF TypeOK, OrphanOK, Current
  <2>2. CASE x[1] # p  BY <1>0, <2>0, <2>2, RedisOrphanKept DEF TypeOK
  <2>3. QED  BY <2>1, <2>2
<1>6. QED  BY <1>1, <1>2, <1>3, <1>4, <1>5

\* No connection is had.
LEMMA RedisGetConnError ==
    ASSUME IInv, NEW p \in Callers, GetConnError(p) PROVE IInv'
<1> USE DEF IInv, poolVars
<1>0. /\ pc[p] = "getConn" /\ Answer(p, Failure)
      /\ UNCHANGED <<count, poolVars, db, orphans>>
  BY DEF GetConnError
<1>1. TypeOK'  BY <1>0 DEF TypeOK, PcStates, Answer
<1>2. HoldInv'
  <2>1. \A s \in Conns : user[s] # Nobody => user[s] # p
    BY <1>0, RedisUser
  <2>2. QED  BY <1>0, <2>1 DEF TypeOK, HoldInv, Answer
<1>3. ConnInv'
  <2> SUFFICES ASSUME NEW s \in Conns PROVE ConnOK(s)'
    BY DEF ConnInv
  <2>1. user[s] # Nobody => user[s] \in Callers /\ user[s] # p
    BY <1>0, RedisUser
  <2>2. QED  BY <1>0, <2>1, RedisConnKept DEF TypeOK, ConnInv, Answer
<1>4. CallInv'
  <2> SUFFICES ASSUME NEW q \in Callers PROVE CallOK(q)'
    BY DEF CallInv
  <2>1. CASE q = p  BY <1>0, <2>1 DEF TypeOK, CallOK, Answer
  <2>2. CASE q # p  BY <1>0, <2>2, RedisCallKept DEF TypeOK, CallInv, Answer
  <2>3. QED  BY <2>1, <2>2
<1>5. OrphanInv'
  <2> SUFFICES ASSUME NEW x \in orphans PROVE OrphanOK(x)'
    BY <1>0 DEF OrphanInv
  <2>0. x[1] \in Callers /\ x[2] \in Nat /\ OrphanOK(x)
    BY RedisOrphan
  <2>1. CASE x[1] = p  BY <1>0, <2>0, <2>1 DEF TypeOK, OrphanOK, Current, Answer
  <2>2. CASE x[1] # p  BY <1>0, <2>0, <2>2, RedisOrphanKept DEF TypeOK, Answer
  <2>3. QED  BY <2>1, <2>2
<1>6. QED  BY <1>1, <1>2, <1>3, <1>4, <1>5

\* The command is written.
LEMMA RedisSend ==
    ASSUME IInv, NEW p \in Callers, Send(p) PROVE IInv'
<1> DEFINE t == conn[p]
<1> USE DEF IInv, serverVars
<1>0. /\ pc[p] = "have" /\ t \notin broken /\ pc' = [pc EXCEPT ![p] = "sent"]
      /\ wire' = [wire EXCEPT ![t] = Append(@, Ticket(p))]
      /\ UNCHANGED <<cmd, conn, result, expired, answer, count, user, dialled, broken,
                     replies, breaks, serverVars>>
  BY DEF Send
<1>a. t \in Conns /\ user[t] = p /\ t \in dialled /\ cmd[p] \in Commands
  BY <1>0, RedisPlace
<1>b. \A s \in Conns \ {t} : user[s] # Nobody => user[s] \in Callers /\ user[s] # p
  BY RedisUser
<1> HIDE DEF t
<1>1. TypeOK'  BY <1>0, <1>a DEF t, TypeOK, PcStates, Requests
<1>2. HoldInv'  BY <1>0, <1>a, <1>b DEF t, TypeOK, HoldInv
<1>3. ConnInv'
  <2> SUFFICES ASSUME NEW s \in Conns PROVE ConnOK(s)'
    BY DEF ConnInv
  <2>1. CASE s = t
    <3>1. ConnQuiet(t)  BY <1>0, <1>a DEF ConnInv, ConnOK
    <3>2. effect[p] = Nothing  BY <1>0 DEF CallInv, CallOK
    <3>3. wire'[t] = <<Ticket(p)>>  BY <1>0, <1>a, <3>1 DEF TypeOK, ConnQuiet
    <3>4. pc'[p] = "sent"  BY <1>0 DEF TypeOK
    <3>5. ConnAsked(s)'  BY <1>0, <1>a, <2>1, <3>1, <3>2, <3>3 DEF ConnAsked, ConnQuiet
    <3>6. QED  BY <1>0, <1>a, <2>1, <3>4, <3>5 DEF ConnOK
  <2>2. CASE s # t  BY <1>0, <1>a, <1>b, <2>2, RedisConnKept DEF t, TypeOK, ConnInv
  <2>3. QED  BY <2>1, <2>2
<1>4. CallInv'
  <2> SUFFICES ASSUME NEW q \in Callers PROVE CallOK(q)'
    BY DEF CallInv
  <2>1. CASE q = p
    BY <1>0, <2>1 DEF TypeOK, CallInv, CallOK
  <2>2. CASE q # p  BY <1>0, <2>2, RedisCallKept DEF TypeOK, CallInv
  <2>3. QED  BY <2>1, <2>2
<1>5. OrphanInv'
  <2> SUFFICES ASSUME NEW x \in orphans PROVE OrphanOK(x)'
    BY <1>0 DEF OrphanInv
  <2>0. x[1] \in Callers /\ x[2] \in Nat /\ OrphanOK(x)
    BY RedisOrphan
  <2>1. CASE x[1] = p
    BY <1>0, <2>0, <2>1 DEF TypeOK, OrphanOK, Current
  <2>2. CASE x[1] # p
    BY <1>0, <2>0, <2>2, RedisOrphanKept DEF TypeOK
  <2>3. QED  BY <2>1, <2>2
<1>6. QED  BY <1>1, <1>2, <1>3, <1>4, <1>5

\* fn is left by a panic.
LEMMA RedisPanic ==
    ASSUME IInv, NEW p \in Callers, Panic(p) PROVE IInv'
<1> DEFINE t == conn[p]
<1> USE DEF IInv, serverVars, poolVars, ErrResult
<1>0. /\ pc[p] = "have" /\ pc' = [pc EXCEPT ![p] = "release"]
      /\ result' = [result EXCEPT ![p] = ErrResult]
      /\ UNCHANGED <<cmd, conn, expired, answer, count, poolVars, serverVars>>
  BY DEF Panic
<1>a. t \in Conns /\ user[t] = p /\ t \in dialled /\ cmd[p] \in Commands
  BY <1>0, RedisPlace
<1>b. \A s \in Conns \ {t} : user[s] # Nobody => user[s] \in Callers /\ user[s] # p
  BY RedisUser
<1> HIDE DEF t
<1>1. TypeOK'  BY <1>0, <1>a DEF t, TypeOK, PcStates
<1>2. HoldInv'  BY <1>0, <1>a, <1>b DEF t, TypeOK, HoldInv
<1>3. ConnInv'
  <2> SUFFICES ASSUME NEW s \in Conns PROVE ConnOK(s)'
    BY DEF ConnInv
  <2>1. CASE s = t
    BY <1>0, <1>a, <2>1 DEF TypeOK, ConnInv, ConnOK, ConnQuiet
  <2>2. CASE s # t  BY <1>0, <1>a, <1>b, <2>2, RedisConnKept DEF t, TypeOK, ConnInv
  <2>3. QED  BY <2>1, <2>2
<1>4. CallInv'
  <2> SUFFICES ASSUME NEW q \in Callers PROVE CallOK(q)'
    BY DEF CallInv
  <2>1. CASE q = p
    BY <1>0, <2>1 DEF TypeOK, CallInv, CallOK
  <2>2. CASE q # p  BY <1>0, <2>2, RedisCallKept DEF TypeOK, CallInv
  <2>3. QED  BY <2>1, <2>2
<1>5. OrphanInv'
  <2> SUFFICES ASSUME NEW x \in orphans PROVE OrphanOK(x)'
    BY <1>0 DEF OrphanInv
  <2>0. x[1] \in Callers /\ x[2] \in Nat /\ OrphanOK(x)
    BY RedisOrphan
  <2>1. CASE x[1] = p
    BY <1>0, <2>0, <2>1 DEF TypeOK, OrphanOK, Current
  <2>2. CASE x[1] # p
    BY <1>0, <2>0, <2>2, RedisOrphanKept DEF TypeOK
  <2>3. QED  BY <2>1, <2>2
<1>6. QED  BY <1>1, <1>2, <1>3, <1>4, <1>5

\* The connection is broken.
LEMMA RedisDoError ==
    ASSUME IInv, NEW p \in Callers, DoError(p) PROVE IInv'
<1> DEFINE t == conn[p]
<1> USE DEF IInv, serverVars, poolVars, ErrResult
<1>0. /\ pc[p] \in {"have", "sent"} /\ t \in broken /\ pc' = [pc EXCEPT ![p] = "release"]
      /\ result' = [result EXCEPT ![p] = ErrResult]
      /\ UNCHANGED <<cmd, conn, expired, answer, count, poolVars, serverVars>>
  BY DEF DoError
<1>a. t \in Conns /\ user[t] = p /\ t \in dialled /\ cmd[p] \in Commands
  BY <1>0, RedisPlace
<1>b. \A s \in Conns \ {t} : user[s] # Nobody => user[s] \in Callers /\ user[s] # p
  BY RedisUser
<1> HIDE DEF t
<1>1. TypeOK'  BY <1>0, <1>a DEF t, TypeOK, PcStates
<1>2. HoldInv'  BY <1>0, <1>a, <1>b DEF t, TypeOK, HoldInv
<1>3. ConnInv'
  <2> SUFFICES ASSUME NEW s \in Conns PROVE ConnOK(s)'
    BY DEF ConnInv
  <2>1. CASE s = t
    BY <1>0, <1>a, <2>1 DEF TypeOK, ConnInv, ConnOK, ConnQuiet
  <2>2. CASE s # t  BY <1>0, <1>a, <1>b, <2>2, RedisConnKept DEF t, TypeOK, ConnInv
  <2>3. QED  BY <2>1, <2>2
<1>4. CallInv'
  <2> SUFFICES ASSUME NEW q \in Callers PROVE CallOK(q)'
    BY DEF CallInv
  <2>1. CASE q = p
    BY <1>0, <2>1 DEF TypeOK, CallInv, CallOK
  <2>2. CASE q # p  BY <1>0, <2>2, RedisCallKept DEF TypeOK, CallInv
  <2>3. QED  BY <2>1, <2>2
<1>5. OrphanInv'
  <2> SUFFICES ASSUME NEW x \in orphans PROVE OrphanOK(x)'
    BY <1>0 DEF OrphanInv
  <2>0. x[1] \in Callers /\ x[2] \in Nat /\ OrphanOK(x)
    BY RedisOrphan
  <2>1. CASE x[1] = p
    BY <1>0, <2>0, <2>1 DEF TypeOK, OrphanOK, Current
  <2>2. CASE x[1] # p
    BY <1>0, <2>0, <2>2, RedisOrphanKept DEF TypeOK
  <2>3. QED  BY <2>1, <2>2
<1>6. QED  BY <1>1, <1>2, <1>3, <1>4, <1>5

\* The reply is read.
LEMMA RedisDoReply ==
    ASSUME IInv, NEW p \in Callers, DoReply(p) PROVE IInv'
<1> DEFINE t == conn[p]
<1> USE DEF IInv, serverVars
<1>0. /\ pc[p] = "sent" /\ replies[t] # <<>> /\ pc' = [pc EXCEPT ![p] = "release"]
      /\ result' = [result EXCEPT ![p] = Convert(cmd[p], Head(replies[t]))]
      /\ replies' = [replies EXCEPT ![t] = Tail(@)]
      /\ UNCHANGED <<cmd, conn, expired, answer, count, user, dialled, broken, wire, breaks,
                     serverVars>>
  BY DEF DoReply
<1>a. t \in Conns /\ user[t] = p /\ t \in dialled /\ cmd[p] \in Commands
  BY <1>0, RedisPlace
<1>b. \A s \in Conns \ {t} : user[s] # Nobody => user[s] \in Callers /\ user[s] # p
  BY RedisUser
<1>c. PICK r \in Replies :
        /\ wire[t] = <<>> /\ replies[t] = <<r>> /\ t \notin broken
        /\ Convert(cmd[p], r).ok => effect[p] = r.val
  <2>1. ConnReplied(t) /\ t \notin broken
    BY <1>0, <1>a DEF ConnInv, ConnOK, ConnQuiet, ConnAsked
  <2>2. QED  BY <1>a, <2>1 DEF ConnReplied
<1>d. Head(replies[t]) = r /\ Tail(replies[t]) = <<>>
  BY <1>c
<1> HIDE DEF t
<1>1. TypeOK'
  <2>1. replies' \in [Conns -> Seq(Replies)]
    BY <1>0, <1>a, <1>d DEF TypeOK
  <2>2. Convert(cmd[p], r) \in [ok : BOOLEAN, val : SUBSET Vals]
    BY DEF Convert, Replies
  <2>3. result' \in [Callers -> [ok : BOOLEAN, val : SUBSET Vals]]
    BY <1>0, <1>d, <2>2 DEF TypeOK
  <2>4. QED  BY <1>0, <2>1, <2>3 DEF TypeOK, PcStates
<1>2. HoldInv'  BY <1>0, <1>a, <1>b DEF t, TypeOK, HoldInv
<1>3. ConnInv'
  <2> SUFFICES ASSUME NEW s \in Conns PROVE ConnOK(s)'
    BY DEF ConnInv
  <2>1. CASE s = t
    BY <1>0, <1>a, <1>c, <1>d, <2>1 DEF TypeOK, ConnInv, ConnOK, ConnQuiet
  <2>2. CASE s # t  BY <1>0, <1>a, <1>b, <2>2, RedisConnKept DEF t, TypeOK, ConnInv
  <2>3. QED  BY <2>1, <2>2
<1>4. CallInv'
  <2> SUFFICES ASSUME NEW q \in Callers PROVE CallOK(q)'
    BY DEF CallInv
  <2>1. CASE q = p
    BY <1>0, <1>c, <1>d, <2>1 DEF TypeOK, CallInv, CallOK, Convert
  <2>2. CASE q # p  BY <1>0, <2>2, RedisCallKept DEF TypeOK, CallInv
  <2>3. QED  BY <2>1, <2>2
<1>5. OrphanInv'
  <2> SUFFICES ASSUME NEW x \in orphans PROVE OrphanOK(x)'
    BY <1>0 DEF OrphanInv
  <2>0. x[1] \in Callers /\ x[2] \in Nat /\ OrphanOK(x)
    BY RedisOrphan
  <2>1. CASE x[1] = p
    BY <1>0, <1>c, <1>d, <2>0, <2>1 DEF t, TypeOK, OrphanOK, Current
  <2>2. CASE x[1] # p
    BY <1>0, <2>0, <2>2, RedisOrphanKept DEF TypeOK
  <2>3. QED  BY <2>1, <2>2
<1>6. QED  BY <1>1, <1>2, <1>3, <1>4, <1>5

\* The connection is given back.
LEMMA RedisRelease ==
    ASSUME IInv, NEW p \in Callers, Release(p) PROVE IInv'
<1> DEFINE t == conn[p]
<1> USE DEF IInv
<1>0. /\ pc[p] = "release" /\ Answer(p, result[p]) /\ user' = [user EXCEPT ![t] = Nobody]
      /\ dialled' = (IF t \in broken THEN dialled \ {t} ELSE dialled)
      /\ broken' = broken \ {t}
      /\ UNCHANGED <<count, wire, replies, breaks, db, orphans>>
  BY DEF Release, GiveBack
<1>a. t \in Conns /\ user[t] = p /\ t \in dialled /\ cmd[p] \in Commands
  BY <1>0, RedisPlace
<1>b. \A s \in Conns \ {t} : user[s] # Nobody => user[s] \in Callers /\ user[s] # p
  BY RedisUser
<1> HIDE DEF t
<1>1. TypeOK'  BY <1>0, <1>a DEF t, TypeOK, PcStates, Answer
<1>2. HoldInv'  BY <1>0, <1>a, <1>b DEF t, TypeOK, HoldInv, Answer
<1>3. ConnInv'
  <2> SUFFICES ASSUME NEW s \in Conns PROVE ConnOK(s)'
    BY DEF ConnInv
  <2>1. CASE s = t
    BY <1>0, <1>a, <2>1 DEF TypeOK, ConnInv, ConnOK, ConnQuiet
  <2>2. CASE s # t  BY <1>0, <1>a, <1>b, <2>2, RedisConnKept DEF t, TypeOK, ConnInv, Answer
  <2>3. QED  BY <2>1, <2>2
<1>4. CallInv'
  <2> SUFFICES ASSUME NEW q \in Callers PROVE CallOK(q)'
    BY DEF CallInv
  <2>1. CASE q = p
    BY <1>0, <2>1 DEF TypeOK, CallInv, CallOK, Answer
  <2>2. CASE q # p  BY <1>0, <2>2, RedisCallKept DEF TypeOK, CallInv, Answer
  <2>3. QED  BY <2>1, <2>2
<1>5. OrphanInv'
  <2> SUFFICES ASSUME NEW x \in orphans PROVE OrphanOK(x)'
    BY <1>0 DEF OrphanInv
  <2>0. x[1] \in Callers /\ x[2] \in Nat /\ OrphanOK(x)
    BY RedisOrphan
  <2>1. CASE x[1] = p
    BY <1>0, <2>0, <2>1 DEF TypeOK, OrphanOK, Current, Answer
  <2>2. CASE x[1] # p
    <3>1. pc[x[1]] \in Holding => conn[x[1]] # t
      BY <1>a, <2>0, <2>2 DEF t, HoldInv
    <3>2. QED  BY <1>0, <2>0, <2>2, <3>1, RedisOrphanKept DEF TypeOK, Answer
  <2>3. QED  BY <2>1, <2>2
<1>6. QED  BY <1>1, <1>2, <1>3, <1>4, <1>5
-----------------------------------------------------------------------------
(* The server.                                                             *)

\* A command leaves an entry in its key.
LEMMA RedisWritten ==
    ASSUME NEW c \in Commands, NEW e \in Entries
    PROVE  /\ c.key \in Keys /\ Request(c).key = c.key
           /\ Written(Request(c), e) \in Entries
<1>1. c.op \in Methods /\ c.key \in Keys /\ c.val \in Vals /\ c.dur \in Nat
  BY ClientAssumption
<1>2. Seconds(c.dur) \in Nat
  BY <1>1 DEF Seconds
<1>3. ASSUME NEW S \in SUBSET Vals, NEW l \in Nat PROVE Entry(S, l) \in Entries
  BY DEF Entry, Entries, NoEntry
<1>4. e.elems \in SUBSET Vals /\ e.life \in Nat /\ NoEntry \in Entries
  BY DEF Entries, NoEntry
<1>5. Request(c).val \in Vals /\ Request(c).secs \in Nat
  BY <1>1, <1>2 DEF Request
<1> HIDE DEF Request
<1> DEFINE q == Request(c)
<1> HIDE DEF q
<1>6. q.val \in Vals /\ q.secs \in Nat
  BY <1>5 DEF q
<1>7. Written(q, e) \in Entries
  <2>1. {Entry({q.val}, 0), Entry({q.val}, q.secs), Entry(e.elems \cup {q.val}, e.life),
         Entry(e.elems \ {q.val}, e.life), Entry(e.elems, q.secs)} \subseteq Entries
    BY <1>3, <1>4, <1>6
  <2>2. QED  BY <1>4, <2>1 DEF Written
<1>8. QED  BY <1>1, <1>7 DEF q, Request

\* An execution moves the effect of nobody but the caller that waits for it.
LEMMA RedisExecuteAs ==
    ASSUME IInv, NEW x \in Requests, NEW r \in Replies, ExecuteAs(x, r)
    PROVE  /\ db' \in [Keys -> Entries]
           /\ effect' \in [Callers -> (SUBSET Vals) \cup {Nothing}]
           /\ \A q \in Callers : q # x[1] => effect'[q] = effect[q]
           /\ ~Current(x) => effect' = effect
           /\ Current(x) /\ Convert(x[3], r).ok => effect'[x[1]] = r.val
<1>0. x[1] \in Callers /\ x[2] \in Nat /\ x[3] \in Commands /\ r.val \in SUBSET Vals
  BY DEF Requests, Replies
<1>1. db \in [Keys -> Entries] /\ effect \in [Callers -> (SUBSET Vals) \cup {Nothing}]
  BY DEF IInv, TypeOK
<1>2. CASE r = [err |-> TRUE, val |-> {}] /\ UNCHANGED <<db, effect>>
  BY <1>0, <1>1, <1>2 DEF Convert
<1>3. CASE /\ db' = [db EXCEPT ![Request(x[3]).key] = Written(Request(x[3]), @)]
           /\ effect' = IF Current(x) /\ Convert(x[3], r).ok
                        THEN [effect EXCEPT ![x[1]] = r.val] ELSE effect
  <2>1. db' \in [Keys -> Entries]
    BY <1>0, <1>1, <1>3, RedisWritten
  <2>2. QED  BY <1>0, <1>1, <1>3, <2>1
<1>4. QED  BY <1>2, <1>3 DEF ExecuteAs, Current

\* The server executes the command on a connection.
LEMMA RedisExecute ==
    ASSUME IInv, NEW s \in Conns, Execute(s) PROVE IInv'
<1> DEFINE u == user[s]
<1> USE DEF callVars
<1>0. /\ s \in dialled \ broken /\ wire[s] # <<>>
      /\ wire' = [wire EXCEPT ![s] = Tail(@)]
      /\ UNCHANGED <<callVars, user, dialled, broken, breaks, orphans>>
  BY DEF Execute
<1>1. PICK r \in Replies :
        ExecuteAs(Head(wire[s]), r) /\ replies' = [replies EXCEPT ![s] = Append(@, r)]
  BY DEF Execute
<1>2. ConnAsked(s) /\ u # Nobody /\ pc[u] = "sent"
  BY <1>0 DEF IInv, ConnInv, ConnOK, ConnQuiet, ConnReplied
<1>3. u \in Callers /\ conn[u] = s /\ cmd[u] \in Commands
  BY <1>2, RedisUser, RedisPlace
<1>4. Head(wire[s]) = Ticket(u) /\ Tail(wire[s]) = <<>> /\ Append(replies[s], r) = <<r>>
  BY <1>2 DEF ConnAsked
<1>5. Ticket(u) \in Requests /\ Current(Ticket(u))
  BY <1>2, <1>3 DEF IInv, TypeOK, Requests, Current
<1>6. /\ db' \in [Keys -> Entries]
      /\ effect' \in [Callers -> (SUBSET Vals) \cup {Nothing}]
      /\ \A q \in Callers : q # u => effect'[q] = effect[q]
      /\ Convert(cmd[u], r).ok => effect'[u] = r.val
  BY <1>1, <1>4, <1>5, RedisExecuteAs
<1>7. /\ wire' = [wire EXCEPT ![s] = <<>>]
      /\ replies' = [replies EXCEPT ![s] = <<r>>]
  BY <1>0, <1>1, <1>4
<1> HIDE DEF u
<1>8. TypeOK'
  <2>1. wire' \in [Conns -> Seq(Requests)] /\ replies' \in [Conns -> Seq(Replies)]
    BY <1>7 DEF IInv, TypeOK
  <2>2. QED  BY <1>0, <1>6, <2>1 DEF IInv, TypeOK
<1>9. HoldInv'  BY <1>0 DEF IInv, HoldInv
<1>10. ConnInv'
  <2> SUFFICES ASSUME NEW d \in Conns PROVE ConnOK(d)'
    BY DEF ConnInv
  <2>1. CASE d = s
    <3>1. ConnReplied(d)'
      BY <1>0, <1>6, <1>7, <2>1 DEF u, IInv, TypeOK, ConnReplied
    <3>2. QED  BY <1>0, <1>2, <2>1, <3>1 DEF u, ConnOK
  <2>2. CASE d # s
    <3>1. user[d] # Nobody => user[d] \in Callers /\ user[d] # u
      BY <1>3, <2>2, RedisUser
    <3>2. QED  BY <1>0, <1>6, <1>7, <2>2, <3>1, RedisConnKept DEF IInv, TypeOK, ConnInv
  <2>3. QED  BY <2>1, <2>2
<1>11. CallInv'
  <2> SUFFICES ASSUME NEW q \in Callers PROVE CallOK(q)'
    BY DEF CallInv
  <2>1. CASE q = u  BY <1>0, <1>2, <2>1 DEF IInv, CallInv, CallOK
  <2>2. CASE q # u  BY <1>0, <1>6, <2>2, RedisCallKept DEF IInv, CallInv
  <2>3. QED  BY <2>1, <2>2
<1>12. OrphanInv'
  <2> SUFFICES ASSUME NEW y \in orphans PROVE OrphanOK(y)'
    BY <1>0 DEF OrphanInv
  <2>0. y[1] \in Callers /\ OrphanOK(y)
    BY RedisOrphan
  <2>1. CASE y[1] = u
    <3>1. ~Current(y)
      BY <1>0, <1>2, <1>3, <2>0, <2>1 DEF OrphanOK
    <3>2. QED  BY <1>0, <2>0, <3>1 DEF OrphanOK, Current
  <2>2. CASE y[1] # u  BY <1>0, <1>6, <2>0, <2>2, RedisOrphanKept
  <2>3. QED  BY <2>1, <2>2
<1>13. QED  BY <1>8, <1>9, <1>10, <1>11, <1>12 DEF IInv

\* The server executes the command of a broken connection.
LEMMA RedisExecuteOrphan ==
    ASSUME IInv, NEW x \in orphans, ExecuteOrphan(x) PROVE IInv'
<1> USE DEF callVars, poolVars
<1>0. orphans' = orphans \ {x} /\ UNCHANGED <<callVars, poolVars>>
  BY DEF ExecuteOrphan
<1>1. PICK r \in Replies : ExecuteAs(x, r)
  BY DEF ExecuteOrphan
<1>2. x \in Requests /\ x[1] \in Callers /\ OrphanOK(x)
  BY RedisOrphan DEF IInv, TypeOK
<1>3. /\ db' \in [Keys -> Entries]
      /\ effect' \in [Callers -> (SUBSET Vals) \cup {Nothing}]
      /\ \A q \in Callers : q # x[1] => effect'[q] = effect[q]
      /\ ~Current(x) => effect' = effect
  BY <1>1, <1>2, RedisExecuteAs
<1>4. TypeOK'  BY <1>0, <1>3 DEF IInv, TypeOK
<1>5. HoldInv'  BY <1>0 DEF IInv, HoldInv
<1>6. ConnInv'
  <2> SUFFICES ASSUME NEW s \in Conns PROVE ConnOK(s)'
    BY DEF ConnInv
  <2>1. CASE ConnQuiet(s)  BY <1>0, <2>1 DEF ConnOK, ConnQuiet
  <2>2. CASE user[s] # Nobody /\ pc[user[s]] = "sent" /\ s \notin broken
    <3>1. user[s] \in Callers /\ conn[user[s]] = s
      BY <2>2, RedisUser
    <3>2. user[s] # x[1] \/ ~Current(x)
      BY <1>2, <2>2, <3>1 DEF OrphanOK
    <3>3. effect'[user[s]] = effect[user[s]]
      BY <1>3, <3>1, <3>2
    <3>4. QED  BY <1>0, <3>3, RedisConnKept DEF IInv, ConnInv
  <2>3. QED  BY <2>1, <2>2 DEF IInv, ConnInv, ConnOK
<1>7. CallInv'
  <2> SUFFICES ASSUME NEW q \in Callers PROVE CallOK(q)'
    BY DEF CallInv
  <2>1. CASE q = x[1] /\ Current(x)
    BY <1>0, <1>2, <2>1 DEF IInv, CallInv, CallOK, OrphanOK
  <2>2. CASE q # x[1] \/ ~Current(x)
    BY <1>0, <1>3, <2>2, RedisCallKept DEF IInv, CallInv
  <2>3. QED  BY <2>1, <2>2
<1>8. OrphanInv'
  <2> SUFFICES ASSUME NEW y \in orphans \ {x} PROVE OrphanOK(y)'
    BY <1>0 DEF OrphanInv
  <2>0. y[1] \in Callers /\ OrphanOK(y)
    BY RedisOrphan
  <2>1. CASE Current(y)
    <3>1. y[1] # x[1] \/ ~Current(x)
      BY <1>2, <2>0, <2>1 DEF OrphanOK
    <3>2. effect'[y[1]] = effect[y[1]]
      BY <1>3, <2>0, <3>1
    <3>3. QED  BY <1>0, <2>0, <3>2, RedisOrphanKept
  <2>2. CASE ~Current(y)  BY <1>0, <2>0, <2>2 DEF OrphanOK, Current
  <2>3. QED  BY <2>1, <2>2
<1>9. QED  BY <1>4, <1>5, <1>6, <1>7, <1>8 DEF IInv

\* A key expires.
LEMMA RedisExpires ==
    ASSUME IInv, NEW k \in Keys, Expires(k) PROVE IInv'
<1> USE DEF Expires, callVars, poolVars, IInv
<1>1. TypeOK'  BY DEF TypeOK, Entries, NoEntry
<1>2. HoldInv'  BY DEF HoldInv
<1>3. ConnInv'  BY DEF ConnInv, ConnOK, ConnQuiet, ConnAsked, ConnReplied
<1>4. CallInv'  BY DEF CallInv, CallOK
<1>5. OrphanInv'  BY DEF OrphanInv, OrphanOK, Current
<1>6. QED  BY <1>1, <1>2, <1>3, <1>4, <1>5

\* A connection breaks: a command on it is on its own.
LEMMA RedisBreak ==
    ASSUME IInv, NEW s \in Conns, Break(s) PROVE IInv'
<1> USE DEF callVars, serverVars
<1>0. /\ s \in dialled \ broken /\ broken' = broken \cup {s} /\ breaks' = breaks + 1
      /\ orphans' = orphans \cup {wire[s][i] : i \in 1..Len(wire[s])}
      /\ wire' = [wire EXCEPT ![s] = <<>>] /\ replies' = [replies EXCEPT ![s] = <<>>]
      /\ UNCHANGED <<callVars, user, dialled, db, effect>>
  BY DEF Break
<1>1. ASSUME NEW y \in orphans' PROVE y \in orphans \/ (ConnAsked(s) /\ y = Ticket(user[s])
        /\ user[s] # Nobody /\ pc[user[s]] = "sent")
  <2>1. CASE ConnAsked(s) /\ user[s] # Nobody /\ pc[user[s]] = "sent"
    BY <1>0, <1>1, <2>1 DEF ConnAsked
  <2>2. CASE wire[s] = <<>>  BY <1>0, <1>1, <2>2
  <2>3. QED  BY <2>1, <2>2 DEF IInv, ConnInv, ConnOK, ConnQuiet, ConnReplied
<1>2. ASSUME user[s] # Nobody, pc[user[s]] = "sent"
      PROVE  Ticket(user[s]) \in Requests /\ conn[user[s]] = s /\ user[s] \in Callers
  BY <1>2, RedisUser, RedisPlace DEF IInv, TypeOK, Requests
<1>3. TypeOK'
  <2>1. orphans' \subseteq Requests
    BY <1>1, <1>2 DEF IInv, TypeOK
  <2>2. QED  BY <1>0, <2>1 DEF IInv, TypeOK
<1>4. HoldInv'  BY <1>0 DEF IInv, HoldInv
<1>5. ConnInv'
  <2> SUFFICES ASSUME NEW d \in Conns PROVE ConnOK(d)'
    BY DEF ConnInv
  <2>1. CASE d = s  BY <1>0, <2>1 DEF IInv, TypeOK, ConnOK, ConnQuiet
  <2>2. CASE d # s  BY <1>0, <2>2, RedisConnKept DEF IInv, TypeOK, ConnInv
  <2>3. QED  BY <2>1, <2>2
<1>6. CallInv'  BY <1>0 DEF IInv, CallInv, CallOK
<1>7. OrphanInv'
  <2> SUFFICES ASSUME NEW y \in orphans' PROVE OrphanOK(y)'
    BY DEF OrphanInv
  <2>1. CASE y \in orphans
    BY <1>0, <2>1, RedisOrphan, RedisOrphanKept
  <2>2. CASE ConnAsked(s) /\ y = Ticket(user[s]) /\ user[s] # Nobody /\ pc[user[s]] = "sent"
    BY <1>0, <1>2, <2>2 DEF IInv, TypeOK, OrphanOK, Current, ConnAsked
  <2>3. QED  BY <1>1, <2>1, <2>2
<1>8. QED  BY <1>3, <1>4, <1>5, <1>6, <1>7 DEF IInv

\* Nothing happens.
LEMMA RedisStutter == IInv /\ UNCHANGED vars => IInv'
  BY DEF IInv, TypeOK, HoldInv, ConnInv, ConnOK, ConnQuiet, ConnAsked, ConnReplied, CallInv,
         CallOK, OrphanInv, OrphanOK, Current, vars, callVars, poolVars, serverVars

\* Every step keeps the inductive invariant.
LEMMA RedisNextIInv == IInv /\ [Next]_vars => IInv'
  BY RedisInvoke, RedisConnTimeout, RedisGetConn, RedisGetConnError, RedisSend, RedisPanic,
     RedisDoError, RedisDoReply, RedisRelease, RedisExecute, RedisExecuteOrphan, RedisExpires,
     RedisBreak, RedisStutter DEF Next, Use

-----------------------------------------------------------------------------
(* The theorems.                                                           *)

\* The inductive invariant of the client, its pool and the server holds.
THEOREM RedisIInv == Spec => []IInv
  BY RedisInitIInv, RedisNextIInv, PTL DEF Spec

\* A place is used exactly while an open call holds it, and a connection that
\* nobody uses is clean (withConn, on every path).
THEOREM RedisPoolAccounted == Spec => []PoolAccounted
<1>1. IInv => PoolAccounted
  <2> SUFFICES ASSUME IInv PROVE PoolAccounted
    OBVIOUS
  <2>1. \A p \in Callers : pc[p] \in Holding <=> \E s \in Conns : user[s] = p
    BY RedisUser, RedisPlace
  <2>2. ASSUME NEW s \in Conns, user[s] = Nobody PROVE wire[s] = <<>> /\ replies[s] = <<>>
    BY <2>2 DEF IInv, ConnInv, ConnOK, ConnQuiet
  <2>3. QED  BY <2>1, <2>2, RedisUser DEF PoolAccounted
<1>2. QED  BY <1>1, RedisIInv, PTL

\* A call that was sent and cannot go on: its connection works, and carries its
\* command.
LEMMA RedisOwed ==
    ASSUME IInv, NEW p \in Callers, pc[p] = "sent", ~CallCanStep(p)
    PROVE  OwedReply(p)
<1>1. conn[p] \in Conns /\ user[conn[p]] = p /\ conn[p] \in dialled
  BY RedisPlace
<1>2. conn[p] \notin broken /\ replies[conn[p]] = <<>>
  BY DEF CallCanStep
<1>3. ConnOK(conn[p]) /\ ~ConnQuiet(conn[p])
  BY <1>1, <1>2, RedisNone DEF IInv, ConnInv, ConnQuiet
<1>4. ~ConnReplied(conn[p])
  BY <1>2 DEF ConnReplied
<1>5. wire[conn[p]] = <<Ticket(p)>>
  BY <1>1, <1>3, <1>4 DEF ConnOK, ConnAsked
<1>6. QED  BY <1>1, <1>2, <1>5 DEF OwedReply

\* A client at rest waits for the server, which owes a reply on every place in
\* use, or for the time of getConn to be over: no reply was read by another
\* call, no place is held by a call that has ended.
THEOREM RedisNobodyWaitsInVain == Spec => []NobodyWaitsInVain
<1>1. IInv => NobodyWaitsInVain
  <2> SUFFICES ASSUME IInv, \A q \in Callers : ~CallCanStep(q), NEW p \in Callers, pc[p] # "idle"
               PROVE  \/ OwedReply(p)
                      \/ /\ pc[p] = "getConn" /\ Wait /\ p \notin expired
                         /\ \A s \in Conns : user[s] # Nobody /\ OwedReply(user[s])
    BY DEF NobodyWaitsInVain
  <2>1. pc[p] \in {"getConn", "sent"}
    BY DEF IInv, TypeOK, PcStates, CallCanStep
  <2>2. CASE pc[p] = "sent"
    BY <2>2, RedisOwed
  <2>3. CASE pc[p] = "getConn"
    <3>1. FreePlaces = {} /\ Wait /\ p \notin expired
      BY <2>3 DEF CallCanStep
    <3>2. ASSUME NEW s \in Conns PROVE user[s] # Nobody /\ OwedReply(user[s])
      <4>1. user[s] # Nobody
        BY <3>1 DEF FreePlaces
      <4>2. user[s] \in Callers /\ pc[user[s]] \in Holding
        BY <4>1, RedisUser
      <4>3. pc[user[s]] = "sent"
        BY <4>2 DEF CallCanStep
      <4>4. QED  BY <4>1, <4>2, <4>3, RedisOwed
    <3>3. QED  BY <2>3, <3>1, <3>2
  <2>4. QED  BY <2>1, <2>2, <2>3
<1>2. QED  BY <1>1, RedisIInv, PTL

-----------------------------------------------------------------------------
(* The client implements AtomicCache.                                      *)

\* What a method sends.
LEMMA RedisRequest ==
    ASSUME NEW c \in Commands
    PROVE  /\ c.op \in Methods /\ c.dur \in Nat
           /\ Request(c).val = c.val /\ Request(c).secs = c.dur \div 1000
           /\ Request(c).verb = Verb(c.op)
<1>1. c.op \in Methods /\ c.dur \in Nat
  BY ClientAssumption
<1>2. QED  BY <1>1 DEF Request, Seconds

\* The lifetimes that a duration allows.
LEMMA RedisLives ==
    ASSUME NEW d \in Nat
    PROVE  /\ d \div 1000 \in Nat /\ (d < 1000 <=> d \div 1000 = 0)
           /\ d \div 1000 # 0 => d \div 1000 \in Contract!Lives(d)
  BY DEF Contract!Lives

\* The two descriptions of an entry agree.
LEMMA RedisEntry == Contract!NoEntry = NoEntry /\ \A S, l : Contract!Entry(S, l) = Entry(S, l)
  BY DEF Contract!NoEntry, NoEntry, Contract!Entry, Entry

\* A command that is answered as a success leaves the entry that the method
\* promises, given the one it found.
LEMMA RedisWritesPromised ==
    ASSUME NEW c \in Commands, NEW e, ~MustRefuse(Request(c)),
           c.op = "Get" => e # NoEntry
    PROVE  Written(Request(c), e) \in Contract!Writes(c, e)
<1> DEFINE q == Request(c)
<1>0. /\ c.dur \in Nat /\ c.op \in Methods
      /\ Request(c).val = c.val /\ Request(c).secs = c.dur \div 1000
  BY RedisRequest
<1>a. q.val = c.val /\ q.secs = c.dur \div 1000 /\ q.verb = Verb(c.op)
  BY RedisRequest
<1>b. ~MustRefuse(q)
  OBVIOUS
<1> HIDE DEF q
<1>1. CASE c.op = "Set"
  <2>1. q.verb = "SET"  BY <1>a, <1>1 DEF Verb, SetVerb, KeyVerb
  <2>2. Contract!Writes(c, e) = {Entry({c.val}, 0)}  BY <1>0, <1>1, RedisEntry DEF Contract!Writes
  <2>3. Written(q, e) = Entry({c.val}, 0)  BY <1>a, <2>1 DEF Written
  <2>4. QED  BY <2>2, <2>3 DEF q
<1>2. CASE c.op = "SetWithTTL"
  <2>1. q.verb = "SETEX"  BY <1>a, <1>2 DEF Verb, SetVerb, KeyVerb
  <2>2. Contract!Writes(c, e) = {Entry({c.val}, l) : l \in Contract!Lives(c.dur)}
    BY <1>0, <1>2, RedisEntry DEF Contract!Writes
  <2>3. q.secs # 0  BY <1>b, <2>1 DEF MustRefuse
  <2>4. Written(q, e) = Entry({c.val}, c.dur \div 1000)  BY <1>a, <2>1 DEF Written
  <2>5. c.dur \div 1000 \in Contract!Lives(c.dur)  BY <1>0, <1>a, <2>3, RedisLives
  <2>6. QED  BY <2>2, <2>4, <2>5 DEF q
<1>3. CASE c.op \in {"HashSet", "SAdd"}
  <2>1. q.verb \in {"HSET", "SADD"}  BY <1>a, <1>3 DEF Verb, SetVerb, KeyVerb
  <2>2. Contract!Writes(c, e) = {Entry(e.elems \cup {c.val}, e.life)}
    BY <1>0, <1>3, RedisEntry DEF Contract!Writes
  <2>3. Written(q, e) = Entry(e.elems \cup {c.val}, e.life)  BY <1>a, <2>1 DEF Written
  <2>4. QED  BY <2>2, <2>3 DEF q
<1>4. CASE c.op = "SRem"
  <2>1. q.verb = "SREM"  BY <1>a, <1>4 DEF Verb, SetVerb, KeyVerb
  <2>2. Contract!Writes(c, e) = {Entry(e.elems \ {c.val}, e.life)}
    BY <1>0, <1>4, RedisEntry DEF Contract!Writes
  <2>3. Written(q, e) = Entry(e.elems \ {c.val}, e.life)  BY <1>a, <2>1 DEF Written
  <2>4. QED  BY <2>2, <2>3 DEF q
<1>5. CASE c.op = "Del"
  <2>1. q.verb = "DEL"  BY <1>a, <1>5 DEF Verb, SetVerb, KeyVerb
  <2>2. Contract!Writes(c, e) = {NoEntry}  BY <1>0, <1>5, RedisEntry DEF Contract!Writes
  <2>3. Written(q, e) = NoEntry  BY <2>1 DEF Written
  <2>4. QED  BY <2>2, <2>3 DEF q
<1>6. CASE c.op = "Expire"
  <2>1. q.verb = "EXPIRE"  BY <1>a, <1>6 DEF Verb, SetVerb, KeyVerb
  <2>2. Written(q, e) = IF q.secs > 0 THEN Entry(e.elems, q.secs) ELSE NoEntry
    BY <2>1 DEF Written
  <2>3. CASE c.dur < 1000
    <3>1. Contract!Writes(c, e) = {NoEntry}  BY <1>0, <1>6, <2>3, RedisEntry DEF Contract!Writes
    <3>2. q.secs = 0  BY <1>0, <1>a, <2>3, RedisLives
    <3>3. QED  BY <2>2, <3>1, <3>2 DEF q
  <2>4. CASE c.dur >= 1000
    <3>1. Contract!Writes(c, e) = {Entry(e.elems, l) : l \in Contract!Lives(c.dur)}
      BY <1>0, <1>6, <2>4, RedisEntry DEF Contract!Writes
    <3>2. c.dur \div 1000 \in Nat \ {0} /\ c.dur \div 1000 \in Contract!Lives(c.dur)
      BY <1>0, <2>4, RedisLives
    <3>3. Written(q, e) = Entry(e.elems, c.dur \div 1000)
      BY <1>a, <2>2, <3>2
    <3>4. QED  BY <3>1, <3>2, <3>3 DEF q
  <2>5. QED  BY <1>0, <2>3, <2>4
<1>7. CASE c.op \in {"HGetAll", "Exists", "SMembers", "SIsMember", "Ping"}
  <2>1. q.verb \in {"HGETALL", "EXISTS", "SMEMBERS", "SISMEMBER", "PING"}
    BY <1>a, <1>7 DEF Verb, SetVerb, KeyVerb
  <2>2. Contract!Writes(c, e) = {e}  BY <1>0, <1>7, RedisEntry DEF Contract!Writes
  <2>3. Written(q, e) = e  BY <2>1 DEF Written
  <2>4. QED  BY <2>2, <2>3 DEF q
<1>8. CASE c.op = "Get"
  <2>1. q.verb = "GET"  BY <1>a, <1>8 DEF Verb, SetVerb, KeyVerb
  <2>2. Contract!Writes(c, e) = {e}  BY <1>0, <1>8, RedisEntry DEF Contract!Writes
  <2>3. Written(q, e) = e  BY <2>1 DEF Written
  <2>4. QED  BY <2>2, <2>3 DEF q
<1>9. QED
  BY <1>0, <1>1, <1>2, <1>3, <1>4, <1>5, <1>6, <1>7, <1>8, Zenon DEF Methods

\* It reads what the method promises.
LEMMA RedisReadsPromised ==
    ASSUME NEW c \in Commands, NEW e PROVE ReadBy(Request(c), e) = Contract!Reads(c, e)
<1> DEFINE q == Request(c)
<1>0. c.op \in Methods /\ q.val = c.val /\ q.verb = Verb(c.op)
  BY RedisRequest
<1> HIDE DEF q
<1>1. CASE c.op \in {"HGetAll", "Exists", "SMembers"}
  <2>1. q.verb \in {"HGETALL", "EXISTS", "SMEMBERS"}  BY <1>0, <1>1 DEF Verb, SetVerb, KeyVerb
  <2>2. ReadBy(q, e) = e.elems  BY <2>1 DEF ReadBy
  <2>3. Contract!Reads(c, e) = e.elems  BY <1>1 DEF Contract!Reads
  <2>4. QED  BY <2>2, <2>3 DEF q
<1>2. CASE c.op = "Get"
  <2>1. q.verb = "GET"  BY <1>0, <1>2 DEF Verb, SetVerb, KeyVerb
  <2>2. ReadBy(q, e) = e.elems  BY <2>1 DEF ReadBy
  <2>3. Contract!Reads(c, e) = e.elems  BY <1>2 DEF Contract!Reads
  <2>4. QED  BY <2>2, <2>3 DEF q
<1>3. CASE c.op = "SIsMember"
  <2>1. q.verb = "SISMEMBER"  BY <1>0, <1>3 DEF Verb, SetVerb, KeyVerb
  <2>2. ReadBy(q, e) = e.elems \cap {c.val}  BY <1>0, <2>1 DEF ReadBy
  <2>3. Contract!Reads(c, e) = e.elems \cap {c.val}  BY <1>3 DEF Contract!Reads
  <2>4. QED  BY <2>2, <2>3 DEF q
<1>4. CASE c.op \in {"Set", "SetWithTTL", "HashSet", "SAdd", "SRem", "Del", "Expire", "Ping"}
  <2>1. q.verb \in {"SET", "SETEX", "HSET", "SADD", "SREM", "DEL", "EXPIRE", "PING"}
    BY <1>0, <1>4 DEF Verb, SetVerb, KeyVerb
  <2>2. ReadBy(q, e) = {}  BY <2>1 DEF ReadBy
  <2>3. Contract!Reads(c, e) = {}  BY <1>4 DEF Contract!Reads
  <2>4. QED  BY <2>2, <2>3 DEF q
<1>5. QED  BY <1>0, <1>1, <1>2, <1>3, <1>4, Zenon DEF Methods

\* An execution is the moment at which the call takes effect, or nothing to
\* the abstract cache.
LEMMA RedisExecution ==
    ASSUME IInv, NEW x \in Requests, NEW r \in Replies, ExecuteAs(x, r)
    PROVE  \/ UNCHANGED <<db, effect>>
           \/ /\ db' \in {[db EXCEPT ![x[3].key] = e] : e \in Contract!Writes(x[3], db[x[3].key])}
              /\ effect' = IF Current(x)
                           THEN [effect EXCEPT ![x[1]] = Contract!Reads(x[3], db[x[3].key])]
                           ELSE effect
<1> DEFINE c == x[3]
           k == x[3].key
<1>0. x[1] \in Callers /\ c \in Commands /\ k \in Keys /\ db[k] \in Entries
  <2>1. x[1] \in Callers /\ c \in Commands  BY DEF Requests
  <2>2. k \in Keys  BY <2>1, ClientAssumption
  <2>3. QED  BY <2>1, <2>2 DEF IInv, TypeOK
<1>1. CASE UNCHANGED <<db, effect>>  BY <1>1
<1>2. CASE /\ ~MustRefuse(Request(c)) /\ r = [err |-> FALSE, val |-> ReadBy(Request(c), db[k])]
           /\ db' = [db EXCEPT ![k] = Written(Request(c), @)]
           /\ effect' = IF Current(x) /\ Convert(c, r).ok
                        THEN [effect EXCEPT ![x[1]] = r.val] ELSE effect
  <2>1. CASE Convert(c, r).ok
    <3>1. c.op = "Get" => db[k] # NoEntry
      <4>1. SUFFICES ASSUME c.op = "Get", db[k] = NoEntry PROVE FALSE
        OBVIOUS
      <4>2. Request(c).verb = "GET"  BY <1>0, <4>1, RedisRequest DEF Verb, SetVerb, KeyVerb
      <4>3. r.val = {}  BY <1>2, <4>1, <4>2 DEF ReadBy, NoEntry
      <4>4. QED  BY <2>1, <4>1, <4>3 DEF Convert
    <3>2. r.val = Contract!Reads(c, db[k])
      BY <1>0, <1>2, RedisReadsPromised
    <3>3. Written(Request(c), db[k]) \in Contract!Writes(c, db[k])
      BY <1>0, <1>2, <3>1, RedisWritesPromised
    <3>4. db' = [db EXCEPT ![k] = Written(Request(c), db[k])]
      BY <1>2
    <3>5. QED  BY <1>2, <2>1, <3>2, <3>3, <3>4
  <2>2. CASE ~Convert(c, r).ok
    <3>1. c.op = "Get" /\ effect' = effect
      BY <1>2, <2>2 DEF Convert
    <3>2. Request(c).verb = "GET"
      BY <1>0, <3>1, RedisRequest DEF Verb, SetVerb, KeyVerb
    <3>3. Written(Request(c), db[k]) = db[k]
      BY <3>2 DEF Written
    <3>4. db' = db
      BY <1>0, <1>2, <3>3 DEF IInv, TypeOK
    <3>5. QED  BY <3>1, <3>4
  <2>3. QED  BY <2>1, <2>2
<1>3. Request(c).key = k
  BY <1>0, RedisWritten
<1>4. QED  BY <1>1, <1>2, <1>3 DEF ExecuteAs, Current
USE DEF Pending, Late

\* The initial state is one of the abstract cache.
LEMMA RedisInitContract == Init => Contract!ACInit
  BY DEF Init, Contract!ACInit, Contract!NoEntry, NoEntry, Contract!Failure

\* A step that moves no abstract variable.
LEMMA RedisHidden ==
    ASSUME UNCHANGED <<db, effect, answer, count>>, Pending' = Pending, Late' = Late
    PROVE  UNCHANGED Contract!acVars
  BY DEF Contract!acVars

\* The abstract calls do not move when no call is opened or closed.
LEMMA RedisCallsKept ==
    ASSUME UNCHANGED cmd, \A q \in Callers : Open(q)' <=> Open(q) PROVE Pending' = Pending
  OBVIOUS

\* Nor do the late commands, when no connection breaks.
LEMMA RedisLatesKept ==
    ASSUME IInv, UNCHANGED <<orphans, count>>, \A q \in Callers : Open(q)' <=> Open(q)
    PROVE  Late' = Late
<1>1. \A x \in orphans : Current(x)' <=> Current(x)
  BY RedisOrphan DEF Current
<1>2. QED  BY <1>1

\* The call begins.
LEMMA RedisStepInvoke ==
    ASSUME IInv, NEW p \in Callers, NEW c \in Commands, Invoke(p, c)
    PROVE  Contract!Invoke(p, c)
<1> USE DEF Invoke, poolVars, serverVars
<1>1. Pending[p] = Idle /\ Pending' = [Pending EXCEPT ![p] = c]
  BY DEF IInv, TypeOK
<1>2. effect' = [effect EXCEPT ![p] = Nothing]
  BY DEF IInv, TypeOK, CallInv, CallOK
<1>3. Late' = Late
  <2>1. ASSUME NEW x \in orphans PROVE Current(x)' <=> Current(x)
    BY RedisOrphan DEF IInv, TypeOK, OrphanOK, Current
  <2>2. QED  BY <2>1
<1>4. QED  BY <1>1, <1>2, <1>3 DEF Contract!Invoke

\* The abstract cache knows of no connection.
LEMMA RedisStepConnTimeout ==
    ASSUME IInv, NEW p \in Callers, ConnTimeout(p) PROVE UNCHANGED Contract!acVars
  BY RedisHidden, RedisCallsKept, RedisLatesKept DEF ConnTimeout, serverVars

\* Nor of who has it.
LEMMA RedisStepGetConn ==
    ASSUME IInv, NEW p \in Callers, GetConn(p) PROVE UNCHANGED Contract!acVars
<1>1. \A q \in Callers : Open(q)' <=> Open(q)
  BY DEF GetConn, IInv, TypeOK
<1>2. QED  BY <1>1, RedisHidden, RedisCallsKept, RedisLatesKept DEF GetConn, serverVars

\* Nor of what is said on it.
LEMMA RedisStepUse ==
    ASSUME IInv, NEW p \in Callers, Use(p) PROVE UNCHANGED Contract!acVars
<1>1. \A q \in Callers : Open(q)' <=> Open(q)
  BY DEF Use, Send, Panic, DoError, DoReply, IInv, TypeOK
<1>2. UNCHANGED <<cmd, db, effect, answer, count, orphans>>
  BY DEF Use, Send, Panic, DoError, DoReply, serverVars
<1>3. QED  BY <1>1, <1>2, RedisHidden, RedisCallsKept, RedisLatesKept

\* A call that was given no connection fails, and leaves no command behind.
LEMMA RedisStepGetConnError ==
    ASSUME IInv, NEW p \in Callers, GetConnError(p) PROVE Contract!Fail(p)
<1> USE DEF GetConnError, Answer, poolVars
<1>1. /\ Pending[p] # Idle /\ Pending' = [Pending EXCEPT ![p] = Idle]
  BY DEF IInv, TypeOK, CallInv, CallOK
<1>2. Late' = Late
  <2>1. ASSUME NEW x \in orphans PROVE Current(x)' <=> Current(x)
    BY RedisOrphan DEF IInv, TypeOK, OrphanOK, Current
  <2>2. QED  BY <2>1
<1>3. QED  BY <1>1, <1>2 DEF Contract!Fail, Contract!Failure

\* It returns what took effect, or fails and leaves its command behind.
LEMMA RedisStepRelease ==
    ASSUME IInv, NEW p \in Callers, Release(p) PROVE Contract!Succeed(p) \/ Contract!Fail(p)
<1> USE DEF Release, Answer
<1>1. /\ Pending[p] = cmd[p] /\ Pending[p] # Idle /\ Pending' = [Pending EXCEPT ![p] = Idle]
  BY DEF IInv, TypeOK, CallInv, CallOK
<1>2. ASSUME NEW x \in orphans
      PROVE  /\ x # Ticket(p) => (Current(x)' <=> Current(x))
             /\ x = Ticket(p) => Current(x) /\ ~Current(x)' /\ ~result[p].ok
                                 /\ effect[p] = Nothing
  BY RedisOrphan DEF IInv, TypeOK, OrphanOK, Current
<1>3. CASE result[p].ok
  <2>1. Late' = Late  BY <1>2, <1>3
  <2>2. effect[p] # Nothing /\ result[p] = [ok |-> TRUE, val |-> effect[p]]
    BY <1>3 DEF IInv, TypeOK, CallInv, CallOK
  <2>3. QED  BY <1>1, <2>1, <2>2 DEF Contract!Succeed
<1>4. CASE ~result[p].ok
  <2>1. result[p] = Contract!Failure
    BY <1>4 DEF IInv, CallInv, CallOK, Contract!Failure
  <2>2. CASE Ticket(p) \in orphans
    <3>1. Late' = Late \cup {<<p, count[p], Pending[p]>>} /\ effect[p] = Nothing
      BY <1>1, <1>2, <2>2
    <3>2. QED  BY <1>1, <2>1, <3>1 DEF Contract!Fail
  <2>3. CASE Ticket(p) \notin orphans
    <3>1. Late' = Late  BY <1>2, <2>3
    <3>2. QED  BY <1>1, <2>1, <3>1 DEF Contract!Fail
  <2>4. QED  BY <2>2, <2>3
<1>5. QED  BY <1>3, <1>4

\* The command takes effect when the server executes it.
LEMMA RedisStepExecute ==
    ASSUME IInv, NEW s \in Conns, Execute(s)
    PROVE  (\E p \in Callers : Contract!TakeEffect(p)) \/ UNCHANGED Contract!acVars
<1> DEFINE u == user[s]
<1>0. UNCHANGED <<callVars, user, dialled, broken, breaks, orphans>> /\ wire[s] # <<>>
  BY DEF Execute
<1>1. ConnAsked(s) /\ u # Nobody /\ pc[u] = "sent"
  BY <1>0 DEF Execute, IInv, ConnInv, ConnOK, ConnQuiet, ConnReplied
<1>2. u \in Callers /\ cmd[u] \in Commands
  BY <1>1, RedisUser, RedisPlace
<1>3. PICK r \in Replies : ExecuteAs(Ticket(u), r)
  BY <1>1 DEF Execute, ConnAsked
<1>4. Ticket(u) \in Requests /\ Current(Ticket(u)) /\ Pending[u] = cmd[u] /\ effect[u] = Nothing
  BY <1>1, <1>2 DEF IInv, TypeOK, Requests, Current, ConnAsked
<1>5. Pending' = Pending /\ Late' = Late
  BY <1>0, RedisCallsKept, RedisLatesKept DEF callVars
<1>6. CASE UNCHANGED <<db, effect>>
  BY <1>0, <1>5, <1>6, RedisHidden DEF callVars
<1>7. CASE /\ db' \in {[db EXCEPT ![cmd[u].key] = e] :
                      e \in Contract!Writes(cmd[u], db[cmd[u].key])}
           /\ effect' = [effect EXCEPT ![u] = Contract!Reads(cmd[u], db[cmd[u].key])]
  <2>1. Pending[u] # Idle
    BY <1>2, <1>4
  <2>2. Contract!TakeEffect(u)
    BY <1>0, <1>4, <1>5, <1>7, <2>1 DEF Contract!TakeEffect, callVars
  <2>3. QED  BY <1>2, <2>2
<1>8. QED  BY <1>3, <1>4, <1>6, <1>7, RedisExecution

\* So does one on its own, late when its call has returned.
LEMMA RedisStepExecuteOrphan ==
    ASSUME IInv, NEW x \in orphans, ExecuteOrphan(x)
    PROVE  \/ \E p \in Callers : Contract!TakeEffect(p)
           \/ \E y \in Late : Contract!LateEffect(y)
           \/ UNCHANGED Contract!acVars
<1>0. UNCHANGED <<callVars, poolVars>> /\ orphans' = orphans \ {x}
  BY DEF ExecuteOrphan
<1>1. PICK r \in Replies : ExecuteAs(x, r)
  BY DEF ExecuteOrphan
<1>2. x \in Requests /\ x[1] \in Callers /\ x[3] \in Commands /\ OrphanOK(x)
  BY RedisOrphan DEF IInv, TypeOK
<1>3. Pending' = Pending /\ \A y \in orphans : Current(y)' <=> Current(y)
  BY <1>0 DEF callVars, Current
<1>4. CASE Current(x)
  <2>1. Late' = Late
    BY <1>0, <1>3, <1>4
  <2>2. CASE UNCHANGED <<db, effect>>
    BY <1>0, <1>3, <2>1, <2>2, RedisHidden DEF callVars
  <2>3. CASE /\ db' \in {[db EXCEPT ![x[3].key] = e] : e \in Contract!Writes(x[3], db[x[3].key])}
             /\ effect' = [effect EXCEPT ![x[1]] = Contract!Reads(x[3], db[x[3].key])]
    <3>1. Pending[x[1]] = x[3] /\ Pending[x[1]] # Idle /\ effect[x[1]] = Nothing
      BY <1>2, <1>4 DEF OrphanOK, Current
    <3>2. Contract!TakeEffect(x[1])
      BY <1>0, <1>3, <2>1, <2>3, <3>1 DEF Contract!TakeEffect, callVars
    <3>3. QED  BY <1>2, <3>2
  <2>4. QED  BY <1>1, <1>2, <1>4, <2>2, <2>3, RedisExecution
<1>5. CASE ~Current(x)
  <2>1. x \in Late /\ Late' = Late \ {x}
    BY <1>0, <1>3, <1>5
  <2>2. effect' = effect /\ (\/ UNCHANGED db
          \/ \E e \in Contract!Writes(x[3], db[x[3].key]) : db' = [db EXCEPT ![x[3].key] = e])
    BY <1>1, <1>2, <1>5, RedisExecution
  <2>3. Contract!LateEffect(x)
    BY <1>0, <1>3, <2>1, <2>2 DEF Contract!LateEffect, callVars
  <2>4. QED  BY <2>1, <2>3
<1>6. QED  BY <1>4, <1>5

\* A key expires.
LEMMA RedisStepExpires ==
    ASSUME IInv, NEW k \in Keys, Expires(k) PROVE Contract!Expires(k)
<1>1. Pending' = Pending /\ Late' = Late
  BY RedisCallsKept, RedisLatesKept DEF Expires, callVars
<1>2. QED  BY <1>1 DEF Expires, callVars, Contract!Expires, Contract!NoEntry, NoEntry

\* The command of a connection that breaks belongs to an open call.
LEMMA RedisStepBreak ==
    ASSUME IInv, NEW s \in Conns, Break(s) PROVE UNCHANGED Contract!acVars
<1>0. /\ UNCHANGED <<callVars, user, dialled, db, effect>> /\ s \notin broken
      /\ orphans' = orphans \cup {wire[s][i] : i \in 1..Len(wire[s])}
  BY DEF Break
<1>1. ASSUME NEW x \in orphans' PROVE x \in orphans \/ Current(x)
  <2>1. CASE ConnAsked(s) /\ user[s] # Nobody /\ pc[user[s]] = "sent"
    BY <1>0, <1>1, <2>1 DEF ConnAsked, Current
  <2>2. CASE wire[s] = <<>>  BY <1>0, <1>1, <2>2
  <2>3. QED  BY <1>0, <2>1, <2>2 DEF IInv, ConnInv, ConnOK, ConnQuiet, ConnReplied
<1>2. \A x : Current(x)' <=> Current(x)
  BY <1>0 DEF callVars, Current
<1>3. Pending' = Pending /\ Late' = Late
  BY <1>0, <1>1, <1>2 DEF callVars
<1>4. QED  BY <1>0, <1>3, RedisHidden DEF callVars

\* Every step is one of the abstract cache, or nothing to it.
LEMMA RedisNextContract == IInv /\ [Next]_vars => [Contract!ACNext]_Contract!acVars
<1> SUFFICES ASSUME IInv, [Next]_vars PROVE Contract!ACNext \/ UNCHANGED Contract!acVars
  OBVIOUS
<1>1. CASE UNCHANGED vars
  BY <1>1 DEF vars, callVars, poolVars, serverVars, Contract!acVars, Current
<1>2. ASSUME NEW p \in Callers, NEW c \in Commands, Invoke(p, c) PROVE Contract!ACNext
  BY <1>2, RedisStepInvoke DEF Contract!ACNext
<1>3. ASSUME NEW p \in Callers, GetConnError(p) \/ Release(p) PROVE Contract!ACNext
  BY <1>3, RedisStepGetConnError, RedisStepRelease DEF Contract!ACNext
<1>4. ASSUME NEW p \in Callers, ConnTimeout(p) \/ GetConn(p) \/ Use(p)
      PROVE  UNCHANGED Contract!acVars
  BY <1>4, RedisStepConnTimeout, RedisStepGetConn, RedisStepUse
<1>5. ASSUME NEW s \in Conns, Execute(s) \/ Break(s)
      PROVE  Contract!ACNext \/ UNCHANGED Contract!acVars
  BY <1>5, RedisStepExecute, RedisStepBreak DEF Contract!ACNext
<1>6. ASSUME NEW x \in orphans, ExecuteOrphan(x)
      PROVE  Contract!ACNext \/ UNCHANGED Contract!acVars
  BY <1>6, RedisStepExecuteOrphan DEF Contract!ACNext
<1>7. ASSUME NEW k \in Keys, Expires(k) PROVE Contract!ACNext
  BY <1>7, RedisStepExpires DEF Contract!ACNext
<1>8. QED  BY <1>1, <1>2, <1>3, <1>4, <1>5, <1>6, <1>7 DEF Next

\* Every method is atomic: nil means that it took effect once, between the call
\* and the return, and reports what it found then; an error leaves it open.
THEOREM RedisKeepsContract == Spec => KeepsContract
<1>1. Init => Contract!ACInit
  BY RedisInitContract
<1>2. IInv /\ [Next]_vars => [Contract!ACNext]_Contract!acVars
  BY RedisNextContract
<1>3. QED  BY <1>1, <1>2, RedisIInv, PTL DEF Spec, KeepsContract, Contract!ACSpec
=============================================================================
