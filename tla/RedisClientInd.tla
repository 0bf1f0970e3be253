--------------------------- MODULE RedisClientInd ---------------------------
(***************************************************************************)
(* The inductive invariant of RedisClient. TLC checks it on the instances, *)
(* RedisProofs proves it.                                                  *)
(***************************************************************************)
EXTENDS RedisClient

Requests == Callers \X Nat \X Commands

Entries == [elems : SUBSET Vals, life : Nat]

\* The state is made of calls, connections, commands and entries.
TypeOK ==
    /\ pc \in [Callers -> PcStates]
    /\ cmd \in [Callers -> Commands \cup {Idle}]
    /\ conn \in [Callers -> Conns \cup {Nothing}]
    /\ result \in [Callers -> [ok : BOOLEAN, val : SUBSET Vals]]
    /\ expired \subseteq Callers
    /\ answer \in [Callers -> [ok : BOOLEAN, val : SUBSET Vals]]
    /\ count \in [Callers -> Nat]
    /\ user \in [Conns -> Callers \cup {Nobody}]
    /\ dialled \subseteq Conns /\ broken \subseteq dialled /\ breaks \in Nat
    /\ wire \in [Conns -> Seq(Requests)] /\ replies \in [Conns -> Seq(Replies)]
    /\ db \in [Keys -> Entries]
    /\ orphans \subseteq Requests
    /\ effect \in [Callers -> (SUBSET Vals) \cup {Nothing}]

\* Who holds a place.
HoldInv ==
    /\ \A p \in Callers : pc[p] \in Holding => conn[p] \in Conns /\ user[conn[p]] = p
    /\ \A s \in Conns : user[s] # Nobody =>
         conn[user[s]] = s /\ pc[user[s]] \in Holding /\ s \in dialled

Open(p) == pc[p] # "idle"
Ticket(p) == <<p, count[p], cmd[p]>>

\* What is on the connection of a place: at most the command of its user, or
\* the reply to it, whose content is the effect of the call.
ConnQuiet(s) ==
    /\ wire[s] = <<>> /\ replies[s] = <<>>
    /\ user[s] # Nobody /\ pc[user[s]] = "sent" => s \in broken

ConnAsked(s) == wire[s] = <<Ticket(user[s])>> /\ replies[s] = <<>> /\ effect[user[s]] = Nothing

ConnReplied(s) ==
    \E r \in Replies :
      /\ wire[s] = <<>> /\ replies[s] = <<r>>
      /\ Convert(cmd[user[s]], r).ok => effect[user[s]] = r.val

ConnOK(s) ==
    \/ ConnQuiet(s)
    \/ user[s] # Nobody /\ pc[user[s]] = "sent" /\ s \notin broken
       /\ (ConnAsked(s) \/ ConnReplied(s))

ConnInv == \A s \in Conns : ConnOK(s)

\* An open call has a command, no effect before it was sent, and reports it.
CallOK(p) ==
    /\ Open(p) => cmd[p] \in Commands
    /\ pc[p] \in {"idle", "getConn", "have"} => effect[p] = Nothing
    /\ pc[p] = "release" /\ result[p].ok => effect[p] = result[p].val
    /\ result[p].ok \/ result[p] = Failure

CallInv == \A p \in Callers : CallOK(p)

\* The command of a broken connection belongs to a call that is over, or that
\* had no effect and is going to fail.
Current(x) == x[2] = count[x[1]] /\ Open(x[1])

OrphanOK(x) ==
    /\ x[2] <= count[x[1]]
    /\ Current(x) =>
         /\ x = Ticket(x[1]) /\ effect[x[1]] = Nothing
         /\ \/ pc[x[1]] = "sent" /\ conn[x[1]] \in broken
            \/ pc[x[1]] = "release" /\ ~result[x[1]].ok

OrphanInv == \A x \in orphans : OrphanOK(x)

\* The inductive invariant of the client, its pool and the server.
IInv == TypeOK /\ HoldInv /\ ConnInv /\ CallInv /\ OrphanInv

-----------------------------------------------------------------------------
(* What waits for what.                                                    *)

\* The calls that go on without the server, a timeout or another call: the
\* pool gives a place or refuses, and conn.Do has a reply or an error.
CallCanStep(p) ==
    \/ pc[p] = "getConn" /\ (FreePlaces # {} \/ ~Wait \/ p \in expired)
    \/ pc[p] \in {"have", "release"}
    \/ pc[p] = "sent" /\ (conn[p] \in broken \/ replies[conn[p]] # <<>>)

\* The server has the command of p, on a connection that works, and no other.
OwedReply(p) ==
    /\ pc[p] = "sent" /\ conn[p] \in dialled \ broken
    /\ wire[conn[p]] = <<Ticket(p)>>

\* When no call can go on, the server owes each of them its reply; who waits
\* for a place still has time, and every place is in the hands of such a call.
NobodyWaitsInVain ==
    (\A p \in Callers : ~CallCanStep(p)) =>
        \A p \in Callers : Open(p) =>
            \/ OwedReply(p)
            \/ /\ pc[p] = "getConn" /\ Wait /\ p \notin expired
               /\ \A s \in Conns : user[s] # Nobody /\ OwedReply(user[s])
=============================================================================
