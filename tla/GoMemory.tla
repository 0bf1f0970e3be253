------------------------------ MODULE GoMemory ------------------------------
(***************************************************************************)
(* What a goroutine reads from a package variable that others write        *)
(* without a lock (external: the Go memory model, for variables of one     *)
(* word): some value that was written, never older than one it has seen,   *)
(* wrote itself, or was told of by a goroutine that synchronised with it.  *)
(***************************************************************************)
EXTENDS Integers, Sequences

CONSTANTS
    Goroutines,
    Shared       \* variables without a lock

VARIABLES
    mem,         \* the values that each variable has had
    known        \* the oldest of them that a goroutine may still read

Latest(v) == mem[v][Len(mem[v])]

Window(g, v) == known[g][v]..Len(mem[v])

\* What g may read from v.
Readable(g, v) == {mem[v][i] : i \in Window(g, v)}

\* g knows v as it was after its i-th write.
Knows(g, v, i) == known' = [known EXCEPT ![g][v] = i]

\* g writes x to v.
Write(g, v, x) ==
    /\ mem' = [mem EXCEPT ![v] = Append(@, x)]
    /\ Knows(g, v, Len(mem[v]) + 1)

\* g learns what k stands for (k is a member of known, or a copy of one).
Learn(g, k) ==
    known' = [known EXCEPT ![g] = [v \in Shared |-> IF k[v] > @[v] THEN k[v] ELSE @[v]]]

NothingWritten(first) ==
    /\ mem = [v \in Shared |-> <<first[v]>>]
    /\ known = [g \in Goroutines |-> [v \in Shared |-> 1]]
\* The values are of S, and everyone knows of some of them.
MemoryOK(S) ==
    /\ mem \in [Shared -> Seq(S)]
    /\ known \in [Goroutines -> [Shared -> Nat]]
    /\ \A g \in Goroutines, v \in Shared : known[g][v] \in 1..Len(mem[v])
=============================================================================
