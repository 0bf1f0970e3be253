------------------------- MODULE KafkaConsumerInd --------------------------
(***************************************************************************)
(* The inductive invariant of KafkaConsumer: what a claim has behind it,   *)
(* and why only one session can commit a partition.                        *)
(***************************************************************************)
EXTENDS KafkaConsumer

\* A claim reads only what was fetched, and a message in its hands has an offset.
HandlingInv ==
    \A c \in Claims : next[c] <= fetched[c] /\
        (claim[c] \in {"handling", "marking"} => next[c] >= 1)

TypeInv == TypeOK /\ HandlingInv

\* The claim has dealt with every message below this offset.
Floor(c) == IF claim[c] \in {"handling", "marking"} THEN Current(c) ELSE next[c]

\* A claim has handled what it left behind, and marks only a message that its
\* handler accepted; all that it leaves unmarked behind it has failed.
ClaimInv ==
    \A c \in Claims : claim[c] # "none" =>
        /\ marked[c] <= Floor(c)
        /\ \A o \in 0..(Floor(c) - 1) : o \in succeeded[c[2]] \cup failed[c[2]]
        /\ claim[c] = "marking" => Current(c) \in succeeded[c[2]]
        /\ marked[c] > 0 => marked[c] - 1 \in succeeded[c[2]]
        /\ \A o \in marked[c]..(Floor(c) - 1) : o \in failed[c[2]]

\* A claim whose commits are accepted belongs to the owner of its partition and
\* never marks less than what is committed.
OwnerInv ==
    \A c \in Claims : (Accepted(c) /\ claim[c] # "none") =>
        owner[c[2]] = c[1] /\ committed[c[2]] <= marked[c]

\* The inductive invariant.
ConsumerInv ==
    /\ TypeInv
    /\ CommittedWasHandled
    /\ LostOnlyBehindSuccess
    /\ ClaimInv
    /\ OwnerInv

-----------------------------------------------------------------------------
(* How a session ends.                                                     *)

\* The session is over, its member still in it, and the channel closed.
Winding(c) == loop[c[1]] = "session" /\ SessionOver(c[1]) /\ chClosed[c]

\* An upper bound of the steps that a claim can still take: three for every
\* message in its channel, and those of the message in its hands.
Stage == [none |-> 0, exited |-> 0, select |-> 1, marking |-> 2, handling |-> 3]

WorkLeft(c) == 3 * (fetched[c] - next[c]) + Stage[claim[c]]

\* Once the session is over and the channel closed they stay so until the
\* member has left the session, nothing comes into the channel any more, and
\* every step of ConsumeClaim brings its end nearer: select may go on taking
\* messages, but only those already there.
WorkRunsOut ==
    [][\A c \in Claims : (Winding(c) /\ loop'[c[1]] = "session") =>
         /\ Winding(c)'
         /\ WorkLeft(c)' <= WorkLeft(c) /\ WorkLeft(c)' \in Nat
         /\ claim'[c] # claim[c] => WorkLeft(c)' < WorkLeft(c)]_vars
=============================================================================
