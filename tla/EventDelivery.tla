--------------------------- MODULE EventDelivery ---------------------------
(***************************************************************************)
(* What the Producer and the Consumer of the platform library promise      *)
(* together (week5/boilerplates/kafka/kafka.go): an event whose Send       *)
(* returned nil is given to a handler at least once, and never before the  *)
(* events of its partition that were confirmed when it was first sent. An  *)
(* error promises nothing: the event may come all the same.                *)
(***************************************************************************)

CONSTANTS
    Events,
    PartitionOf    \* the partition that the key of an event selects

VARIABLES
    send,          \* the last call of Send for an event
    earlier,       \* the events confirmed when it was first called
    delivered      \* the events that a handler was given

vars == <<send, earlier, delivered>>

Init ==
    /\ send = [e \in Events |-> "new"]
    /\ earlier = [e \in Events |-> {}] /\ delivered = {}

Confirmed(p) == {e \in Events : send[e] = "nil" /\ PartitionOf[e] = p}

\* Send is called; again after an error, if the program likes.
Call(e) ==
    /\ send[e] \in {"new", "error"}
    /\ send' = [send EXCEPT ![e] = "open"]
    /\ earlier' = [earlier EXCEPT ![e] = IF send[e] = "new" THEN Confirmed(PartitionOf[e]) ELSE @]
    /\ UNCHANGED delivered

Reply(e) ==
    /\ send[e] = "open"
    /\ \E r \in {"nil", "error"} : send' = [send EXCEPT ![e] = r]
    /\ UNCHANGED <<earlier, delivered>>

\* A handler gets an event for the first time.
Deliver(e) ==
    /\ send[e] # "new" /\ e \notin delivered /\ earlier[e] \subseteq delivered
    /\ delivered' = delivered \cup {e}
    /\ UNCHANGED <<send, earlier>>

Next == \E e \in Events : Call(e) \/ Reply(e) \/ Deliver(e)

\* A confirmed event is delivered in the end.
Spec == Init /\ [][Next]_vars /\ \A e \in Events : WF_vars(send[e] = "nil" /\ Deliver(e))
=============================================================================
