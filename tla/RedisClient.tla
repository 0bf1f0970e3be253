---------------------------- MODULE RedisClient ----------------------------
(***************************************************************************)
(* The Redis client of the platform library (week6/boilerplates/cache/     *)
(* redis): every method takes a connection from a pool that the program    *)
(* shares, sends one command, converts its reply, and gives the connection *)
(* back in a deferred call.                                                *)
(*                                                                         *)
(* The pool (redigo) and the server are external: the pool has a limit, it *)
(* drops a broken connection that is given back; the server executes the   *)
(* commands of a connection in order, and those of a broken one maybe      *)
(* later, maybe never.                                                     *)
(*                                                                         *)
(* The content of a key is a set, as in AtomicCache. A definition whose    *)
(* name begins with Bug is the next one with a mistake in it.              *)
(***************************************************************************)
EXTENDS Integers, Sequences

CONSTANTS
    Callers,     \* goroutines that use the client, one call at a time
    Keys,
    Vals,
    Commands,    \* the calls they make: method, key, value, duration in ms
    Conns,       \* places in the pool (MaxActive)
    Wait,        \* the pool waits for a place (redigo.Pool.Wait)
    MaxCalls,    \* bound on the calls of each caller
    MaxBreaks,   \* bound on the connections that break
    Nobody, Idle, Nothing

Methods == {"Set", "SetWithTTL", "Get", "HashSet", "HGetAll", "Del", "Exists", "Expire",
            "Ping", "SAdd", "SRem", "SIsMember", "SMembers"}

ASSUME ClientAssumption ==
    /\ Commands \subseteq [op : Methods, key : Keys, val : Vals, dur : Nat]
    /\ Nobody \notin Callers /\ Idle \notin Commands
    /\ Nothing \notin Conns /\ \A S \in SUBSET Vals : S # Nothing
    /\ Wait \in BOOLEAN /\ MaxCalls \in [Callers -> Nat] /\ MaxBreaks \in Nat

VARIABLES
    pc,       \* where the call of each caller is
    cmd,      \* its method and arguments
    conn,     \* the place of the connection it was given, or Nothing
    result,   \* what it is going to return
    expired,  \* the callers whose connectionTimeout, or context, is over
    answer,   \* what the last call returned
    count,    \* calls made so far
    user,     \* who has the connection of a place
    dialled,  \* the places that have a connection
    broken,   \* those whose connection is broken
    wire,     \* commands sent on a connection and not executed
    replies,  \* replies on their way back
    breaks,   \* connections broken so far
    db,       \* the server: content and lifetime, in seconds, of each key
    orphans,  \* commands whose connection broke before they were executed
    effect    \* what the server read for the open call of a caller

callVars == <<pc, cmd, conn, result, expired, answer, count>>
poolVars == <<user, dialled, broken, wire, replies, breaks>>
serverVars == <<db, orphans, effect>>
vars == <<callVars, poolVars, serverVars>>

NoEntry == [elems |-> {}, life |-> 0]
Failure == [ok |-> FALSE, val |-> {}]
PcStates == {"idle", "getConn", "have", "sent", "release"}

Init ==
    /\ pc = [p \in Callers |-> "idle"] /\ cmd = [p \in Callers |-> Idle]
    /\ conn = [p \in Callers |-> Nothing] /\ result = [p \in Callers |-> Failure]
    /\ expired = {} /\ answer = [p \in Callers |-> Failure]
    /\ count = [p \in Callers |-> 0]
    /\ user = [s \in Conns |-> Nobody] /\ dialled = {} /\ broken = {} /\ breaks = 0
    /\ wire = [s \in Conns |-> <<>>] /\ replies = [s \in Conns |-> <<>>]
    /\ db = [k \in Keys |-> NoEntry] /\ orphans = {}
    /\ effect = [p \in Callers |-> Nothing]

Goto(p, l) == pc' = [pc EXCEPT ![p] = l]

-----------------------------------------------------------------------------
(* The methods: what each of them sends, and makes of the reply.           *)

BugSeconds(dur) == (dur + 999) \div 1000      \* rounded up
Seconds(dur) == dur \div 1000                 \* int(ttl.Seconds())

KeyVerb == [Set |-> "SET", SetWithTTL |-> "SETEX", Get |-> "GET", HashSet |-> "HSET",
            HGetAll |-> "HGETALL", Del |-> "DEL", Exists |-> "EXISTS",
            Expire |-> "EXPIRE", Ping |-> "PING"]

SetVerb == [SAdd |-> "SADD", SRem |-> "SREM",
            SIsMember |-> "SISMEMBER", SMembers |-> "SMEMBERS"]

Verb(op) == IF op \in DOMAIN SetVerb THEN SetVerb[op] ELSE KeyVerb[op]

Request(c) == [verb |-> Verb(c.op), key |-> c.key, val |-> c.val, secs |-> Seconds(c.dur)]

\* An error reply is an error. A nil reply is one for GET (redigo.ErrNil).
Convert(c, r) ==
    IF r.err \/ (c.op = "Get" /\ r.val = {}) THEN Failure ELSE [ok |-> TRUE, val |-> r.val]

-----------------------------------------------------------------------------
(* The server (external).                                                  *)

Entry(S, l) == IF S = {} THEN NoEntry ELSE [elems |-> S, life |-> l]

\* What a command leaves in its key, given what it finds there.
Written(q, e) ==
    CASE q.verb = "SET" -> Entry({q.val}, 0)
      [] q.verb = "SETEX" -> Entry({q.val}, q.secs)
      [] q.verb \in {"HSET", "SADD"} -> Entry(e.elems \cup {q.val}, e.life)
      [] q.verb = "SREM" -> Entry(e.elems \ {q.val}, e.life)
      [] q.verb = "DEL" -> NoEntry
      [] q.verb = "EXPIRE" -> IF q.secs > 0 THEN Entry(e.elems, q.secs) ELSE NoEntry
      [] OTHER -> e

ReadBy(q, e) ==
    CASE q.verb \in {"GET", "HGETALL", "SMEMBERS", "EXISTS"} -> e.elems
      [] q.verb = "SISMEMBER" -> e.elems \cap {q.val}
      [] OTHER -> {}

\* The server refuses a lifetime of 0 seconds, and may refuse any command (a
\* key of another type, no memory): nothing is changed then.
MustRefuse(q) == q.verb = "SETEX" /\ q.secs = 0

\* x = <<caller, number of its call, command>> is executed with reply r.
ExecuteAs(x, r) ==
    LET q == Request(x[3])
        open == count[x[1]] = x[2] /\ pc[x[1]] # "idle"
    IN \/ /\ r = [err |-> TRUE, val |-> {}]
          /\ UNCHANGED <<db, effect>>
       \/ /\ ~MustRefuse(q)
          /\ r = [err |-> FALSE, val |-> ReadBy(q, db[q.key])]
          /\ db' = [db EXCEPT ![q.key] = Written(q, @)]
          /\ effect' = IF open /\ Convert(x[3], r).ok
                       THEN [effect EXCEPT ![x[1]] = r.val] ELSE effect

Replies == [err : BOOLEAN, val : SUBSET Vals]

Execute(s) ==
    /\ s \in dialled \ broken /\ wire[s] # <<>>
    /\ \E r \in Replies :
         /\ ExecuteAs(Head(wire[s]), r)
         /\ replies' = [replies EXCEPT ![s] = Append(@, r)]
    /\ wire' = [wire EXCEPT ![s] = Tail(@)]
    /\ UNCHANGED <<callVars, user, dialled, broken, breaks, orphans>>

ExecuteOrphan(x) ==
    /\ x \in orphans
    /\ \E r \in Replies : ExecuteAs(x, r)
    /\ orphans' = orphans \ {x}
    /\ UNCHANGED <<callVars, poolVars>>

Expires(k) ==
    /\ db[k].life > 0
    /\ db' = [db EXCEPT ![k] = NoEntry]
    /\ UNCHANGED <<callVars, poolVars, orphans, effect>>

\* A connection breaks, in use or idle; replies under way are lost.
Break(s) ==
    /\ s \in dialled \ broken /\ breaks < MaxBreaks
    /\ broken' = broken \cup {s} /\ breaks' = breaks + 1
    /\ orphans' = orphans \cup {wire[s][i] : i \in 1..Len(wire[s])}
    /\ wire' = [wire EXCEPT ![s] = <<>>] /\ replies' = [replies EXCEPT ![s] = <<>>]
    /\ UNCHANGED <<callVars, user, dialled, db, effect>>

-----------------------------------------------------------------------------
(* withConn.                                                               *)

Invoke(p, c) ==
    /\ pc[p] = "idle" /\ count[p] < MaxCalls[p]
    /\ Goto(p, "getConn")
    /\ cmd' = [cmd EXCEPT ![p] = c]
    /\ count' = [count EXCEPT ![p] = @ + 1]
    /\ UNCHANGED <<conn, result, expired, answer, poolVars, serverVars>>

\* context.WithTimeout of getConn, or the context of the caller, ends.
BugTimeout(p) == FALSE                        \* the pool is asked without a context
Timeout(p) == pc[p] = "getConn" /\ p \notin expired

ConnTimeout(p) ==
    /\ Timeout(p)
    /\ expired' = expired \cup {p}
    /\ UNCHANGED <<pc, cmd, conn, result, answer, count, poolVars, serverVars>>

FreePlaces == {s \in Conns : user[s] = Nobody}

\* pool.GetContext gives a connection: an idle one, or else a new one.
GetConn(p) ==
    /\ pc[p] = "getConn"
    /\ \E s \in FreePlaces :
         /\ s \in dialled \/ FreePlaces \cap dialled = {}
         /\ user' = [user EXCEPT ![s] = p]
         /\ conn' = [conn EXCEPT ![p] = s]
         /\ dialled' = dialled \cup {s}
    /\ Goto(p, "have")
    /\ UNCHANGED <<cmd, result, expired, answer, count, broken, wire, replies, breaks, serverVars>>

\* A method returns, and its variables are gone.
Answer(p, r) ==
    /\ Goto(p, "idle")
    /\ answer' = [answer EXCEPT ![p] = r]
    /\ cmd' = [cmd EXCEPT ![p] = Idle] /\ conn' = [conn EXCEPT ![p] = Nothing]
    /\ result' = [result EXCEPT ![p] = Failure] /\ expired' = expired \ {p}
    /\ effect' = [effect EXCEPT ![p] = Nothing]

\* pool.GetContext fails: the time to wait is over, no place is free and the
\* pool does not wait, or the new connection that it needs cannot be made.
GetConnError(p) ==
    /\ pc[p] = "getConn"
    /\ \/ Wait /\ p \in expired
       \/ ~Wait /\ FreePlaces = {}
       \/ FreePlaces # {} /\ FreePlaces \cap dialled = {}
    /\ Answer(p, Failure)
    /\ UNCHANGED <<count, poolVars, db, orphans>>

\* What withConn returns when conn.Do failed, or fn was left by a panic.
BugErrResult == [ok |-> TRUE, val |-> {}]     \* the error of fn is lost
ErrResult == Failure

\* conn.Do writes the command. HashSet may panic before, on a value that
\* AddFlat does not know how to flatten.
Send(p) ==
    /\ pc[p] = "have" /\ conn[p] \notin broken
    /\ wire' = [wire EXCEPT ![conn[p]] = Append(@, <<p, count[p], cmd[p]>>)]
    /\ Goto(p, "sent")
    /\ UNCHANGED <<cmd, conn, result, expired, answer, count, user, dialled, broken,
                   replies, breaks, serverVars>>

Panic(p) ==
    /\ pc[p] = "have" /\ cmd[p].op = "HashSet"
    /\ result' = [result EXCEPT ![p] = ErrResult]
    /\ Goto(p, "release")
    /\ UNCHANGED <<cmd, conn, expired, answer, count, poolVars, serverVars>>

\* conn.Do fails on a broken connection.
DoError(p) ==
    /\ pc[p] \in {"have", "sent"} /\ conn[p] \in broken
    /\ result' = [result EXCEPT ![p] = ErrResult]
    /\ Goto(p, "release")
    /\ UNCHANGED <<cmd, conn, expired, answer, count, poolVars, serverVars>>

DoReply(p) ==
    /\ pc[p] = "sent" /\ replies[conn[p]] # <<>>
    /\ result' = [result EXCEPT ![p] = Convert(cmd[p], Head(replies[conn[p]]))]
    /\ replies' = [replies EXCEPT ![conn[p]] = Tail(@)]
    /\ Goto(p, "release")
    /\ UNCHANGED <<cmd, conn, expired, answer, count, user, dialled, broken, wire, breaks,
                   serverVars>>

\* The deferred conn.Close gives the connection back; the pool drops a broken one.
BugGiveBack(p) == result[p].ok                \* not deferred: skipped on an error
GiveBack(p) == TRUE

Release(p) ==
    /\ pc[p] = "release"
    /\ IF GiveBack(p)
       THEN /\ user' = [user EXCEPT ![conn[p]] = Nobody]
            /\ dialled' = IF conn[p] \in broken THEN dialled \ {conn[p]} ELSE dialled
            /\ broken' = broken \ {conn[p]}
       ELSE UNCHANGED <<user, dialled, broken>>
    /\ Answer(p, result[p])
    /\ UNCHANGED <<count, wire, replies, breaks, db, orphans>>

-----------------------------------------------------------------------------
Use(p) == Send(p) \/ Panic(p) \/ DoError(p) \/ DoReply(p)

Next ==
    \/ \E p \in Callers :
         \/ \E c \in Commands : Invoke(p, c)
         \/ ConnTimeout(p) \/ GetConn(p) \/ GetConnError(p) \/ Use(p) \/ Release(p)
    \/ \E s \in Conns : Execute(s) \/ Break(s)
    \/ \E x \in orphans : ExecuteOrphan(x)
    \/ \E k \in Keys : Expires(k)

Spec == Init /\ [][Next]_vars

\* Goroutines run and timeouts come. That the server answers is no part of it:
\* no timeout bounds a command.
Fairness ==
    \A p \in Callers :
      /\ WF_vars(ConnTimeout(p)) /\ WF_vars(GetConn(p) \/ GetConnError(p))
      /\ WF_vars(Use(p)) /\ WF_vars(Release(p))

ServerFairness == \A s \in Conns : WF_vars(Execute(s))

FairSpec == Spec /\ Fairness

-----------------------------------------------------------------------------
(* Properties.                                                             *)

Holding == {"have", "sent", "release"}

\* The place of every connection in use belongs to exactly one open call, on
\* every path through withConn, and a connection that nobody uses carries
\* neither a command nor a reply of the call before.
PoolAccounted ==
    /\ \A p \in Callers : pc[p] \in Holding <=> \E s \in Conns : user[s] = p
    /\ \A s \in Conns :
         /\ user[s] # Nobody => conn[user[s]] = s /\ pc[user[s]] \in Holding
         /\ user[s] = Nobody => wire[s] = <<>> /\ replies[s] = <<>>

\* A call that was given a connection gives its place back (the deferred Close),
\* as long as the server answers.
PlacesComeBack ==
    ServerFairness => \A s \in Conns : user[s] # Nobody ~> user[s] = Nobody

\* The wait of getConn for a place ends by itself, whatever the server does to
\* the calls that have one: connectionTimeout bounds it.
WaitersGiveUp == \A p \in Callers : pc[p] = "getConn" ~> pc[p] # "getConn"
=============================================================================
