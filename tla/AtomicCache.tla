---------------------------- MODULE AtomicCache ----------------------------
(***************************************************************************)
(* What the cache interface (week6/boilerplates/cache/client.go) promises, *)
(* without connections: a method that returns nil has taken effect exactly *)
(* once, at one moment between its call and its return, and its result is  *)
(* that of this moment; one that returns an error may have taken effect,   *)
(* or do so once later, or never.                                          *)
(*                                                                         *)
(* The content of a key is a set: the value of a string, the fields of a   *)
(* hash, the members of a set. A key without content does not exist.       *)
(***************************************************************************)
EXTENDS Integers

CONSTANTS Callers, Keys, Commands, Idle, Nothing

VARIABLES
    db,      \* content and lifetime, in seconds, of each key; 0: for ever
    call,    \* the method and arguments of an open call, or Idle
    effect,  \* what it read when it took effect, or Nothing before
    answer,  \* the result of the last call that returned
    count,   \* calls made so far
    late     \* commands of failed calls that may still take effect

acVars == <<db, call, effect, answer, count, late>>

NoEntry == [elems |-> {}, life |-> 0]
Failure == [ok |-> FALSE, val |-> {}]

ACInit ==
    /\ db = [k \in Keys |-> NoEntry]
    /\ call = [p \in Callers |-> Idle]
    /\ effect = [p \in Callers |-> Nothing]
    /\ answer = [p \in Callers |-> Failure]
    /\ count = [p \in Callers |-> 0]
    /\ late = {}

Entry(S, l) == IF S = {} THEN NoEntry ELSE [elems |-> S, life |-> l]

\* A lifetime is a whole number of seconds, at least one, never longer than
\* asked for. A shorter one cannot be given to a new value, and ends at once
\* for one that is there.
Lives(dur) == 1..(dur \div 1000)

\* The entries that a method may leave in the key, given the one it finds.
Writes(c, e) ==
    CASE c.op = "Set" -> {Entry({c.val}, 0)}
      [] c.op = "SetWithTTL" -> {Entry({c.val}, l) : l \in Lives(c.dur)}
      [] c.op \in {"HashSet", "SAdd"} -> {Entry(e.elems \cup {c.val}, e.life)}
      [] c.op = "SRem" -> {Entry(e.elems \ {c.val}, e.life)}
      [] c.op = "Del" -> {NoEntry}
      [] c.op = "Expire" /\ c.dur >= 1000 -> {Entry(e.elems, l) : l \in Lives(c.dur)}
      [] c.op = "Expire" /\ c.dur < 1000 -> {NoEntry}
      [] c.op \in {"HGetAll", "Exists", "SIsMember", "SMembers", "Ping"} -> {e}
      [] c.op = "Get" -> IF e = NoEntry THEN {} ELSE {e}

\* What a method gives back: a boolean is TRUE when this is not empty.
Reads(c, e) ==
    CASE c.op \in {"Get", "HGetAll", "SMembers", "Exists"} -> e.elems
      [] c.op = "SIsMember" -> e.elems \cap {c.val}
      [] OTHER -> {}

Invoke(p, c) ==
    /\ call[p] = Idle
    /\ call' = [call EXCEPT ![p] = c] /\ effect' = [effect EXCEPT ![p] = Nothing]
    /\ count' = [count EXCEPT ![p] = @ + 1]
    /\ UNCHANGED <<db, answer, late>>

TakeEffect(p) ==
    /\ call[p] # Idle /\ effect[p] = Nothing
    /\ \E e \in Writes(call[p], db[call[p].key]) :
         db' = [db EXCEPT ![call[p].key] = e]
    /\ effect' = [effect EXCEPT ![p] = Reads(call[p], db[call[p].key])]
    /\ UNCHANGED <<call, answer, count, late>>

Succeed(p) ==
    /\ call[p] # Idle /\ effect[p] # Nothing
    /\ answer' = [answer EXCEPT ![p] = [ok |-> TRUE, val |-> effect[p]]]
    /\ call' = [call EXCEPT ![p] = Idle] /\ effect' = [effect EXCEPT ![p] = Nothing]
    /\ UNCHANGED <<db, count, late>>

Fail(p) ==
    /\ call[p] # Idle
    /\ answer' = [answer EXCEPT ![p] = Failure]
    /\ \/ UNCHANGED late
       \/ effect[p] = Nothing /\ late' = late \cup {<<p, count[p], call[p]>>}
    /\ call' = [call EXCEPT ![p] = Idle] /\ effect' = [effect EXCEPT ![p] = Nothing]
    /\ UNCHANGED <<db, count>>

\* A command of a call that has failed takes effect, once, or has none.
LateEffect(x) ==
    /\ \/ UNCHANGED db
       \/ \E e \in Writes(x[3], db[x[3].key]) : db' = [db EXCEPT ![x[3].key] = e]
    /\ late' = late \ {x}
    /\ UNCHANGED <<call, effect, answer, count>>

Expires(k) ==
    /\ db[k].life > 0
    /\ db' = [db EXCEPT ![k] = NoEntry]
    /\ UNCHANGED <<call, effect, answer, count, late>>

ACNext ==
    \/ \E p \in Callers :
         (\E c \in Commands : Invoke(p, c)) \/ TakeEffect(p) \/ Succeed(p) \/ Fail(p)
    \/ \E x \in late : LateEffect(x)
    \/ \E k \in Keys : Expires(k)

ACSpec == ACInit /\ [][ACNext]_acVars
=============================================================================
