--------------------------- MODULE GoMemoryProofs ---------------------------
(***************************************************************************)
(* What the operators of GoMemory do, for the proofs of its users.         *)
(***************************************************************************)
EXTENDS GoMemory, TLAPS

LEMMA StartMemory ==
    ASSUME NEW S, NEW first \in [Shared -> S], NothingWritten(first)
    PROVE  /\ MemoryOK(S)
           /\ \A v \in Shared : Len(mem[v]) = 1 /\ mem[v][1] = first[v]
           /\ \A g \in Goroutines, v \in Shared : known[g][v] = 1
BY DEF NothingWritten, MemoryOK

LEMMA WriteEffect ==
    ASSUME NEW S, MemoryOK(S), NEW g \in Goroutines, NEW v \in Shared, NEW x \in S,
           Write(g, v, x)
    PROVE  /\ MemoryOK(S)'
           /\ Len(mem'[v]) = Len(mem[v]) + 1
           /\ mem'[v][Len(mem[v]) + 1] = x
           /\ \A i \in 1..Len(mem[v]) : mem'[v][i] = mem[v][i]
           /\ \A w \in Shared \ {v} : mem'[w] = mem[w]
           /\ known'[g][v] = Len(mem[v]) + 1
           /\ \A h \in Goroutines, w \in Shared :
                (h # g \/ w # v) => known'[h][w] = known[h][w]
<1> USE DEF MemoryOK, Write, Knows
<1>1. mem[v] \in Seq(S) /\ mem' = [mem EXCEPT ![v] = Append(mem[v], x)]
    OBVIOUS
<1>2. /\ Append(mem[v], x) \in Seq(S)
      /\ Len(Append(mem[v], x)) = Len(mem[v]) + 1
      /\ Append(mem[v], x)[Len(mem[v]) + 1] = x
      /\ \A i \in 1..Len(mem[v]) : Append(mem[v], x)[i] = mem[v][i]
    BY <1>1
<1>3. mem'[v] = Append(mem[v], x) /\ \A w \in Shared \ {v} : mem'[w] = mem[w]
    BY <1>1
<1>4. mem' \in [Shared -> Seq(S)]
    BY <1>1, <1>2
<1>5. Len(mem[v]) \in Nat
    BY <1>1
<1>6. known' = [known EXCEPT ![g][v] = Len(mem[v]) + 1]
    OBVIOUS
<1>7. /\ known' \in [Goroutines -> [Shared -> Nat]]
      /\ known'[g][v] = Len(mem[v]) + 1
      /\ \A h \in Goroutines, w \in Shared :
           (h # g \/ w # v) => known'[h][w] = known[h][w]
    BY <1>5, <1>6
<1>8. \A h \in Goroutines, w \in Shared : known'[h][w] \in 1..Len(mem'[w])
  <2> SUFFICES ASSUME NEW h \in Goroutines, NEW w \in Shared
               PROVE  known'[h][w] \in 1..Len(mem'[w])
      OBVIOUS
  <2>1. CASE h = g /\ w = v
      BY <1>2, <1>3, <1>5, <1>7, <2>1
  <2>2. CASE w # v
      BY <1>3, <1>7, <2>2
  <2>3. CASE h # g /\ w = v
      BY <1>2, <1>3, <1>5, <1>7, <2>3
  <2> QED
      BY <2>1, <2>2, <2>3
<1> QED
    BY <1>2, <1>3, <1>4, <1>7, <1>8

LEMMA KnowsEffect ==
    ASSUME NEW S, MemoryOK(S), NEW g \in Goroutines, NEW v \in Shared,
           NEW i \in 1..Len(mem[v]), Knows(g, v, i), UNCHANGED mem
    PROVE  /\ MemoryOK(S)'
           /\ known'[g][v] = i
           /\ \A h \in Goroutines, w \in Shared :
                (h # g \/ w # v) => known'[h][w] = known[h][w]
BY DEF MemoryOK, Knows

LEMMA LearnEffect ==
    ASSUME NEW S, MemoryOK(S), NEW g \in Goroutines, NEW k \in [Shared -> Nat],
           \A v \in Shared : k[v] \in 1..Len(mem[v]),
           Learn(g, k), UNCHANGED mem
    PROVE  /\ MemoryOK(S)'
           /\ \A v \in Shared : known'[g][v] >= known[g][v] /\ known'[g][v] >= k[v]
           /\ \A h \in Goroutines \ {g}, v \in Shared : known'[h][v] = known[h][v]
<1> USE DEF MemoryOK
<1>1. known' = [known EXCEPT ![g] =
                  [v \in Shared |-> IF k[v] > known[g][v] THEN k[v] ELSE known[g][v]]]
    BY DEF Learn
<1>2. \A v \in Shared : known'[g][v] = IF k[v] > known[g][v] THEN k[v] ELSE known[g][v]
    BY <1>1
<1>3. \A h \in Goroutines \ {g}, v \in Shared : known'[h][v] = known[h][v]
    BY <1>1
<1>4. known' \in [Goroutines -> [Shared -> Nat]]
    BY <1>1
<1>5. \A h \in Goroutines, v \in Shared : known'[h][v] \in 1..Len(mem'[v])
    BY <1>2, <1>3
<1> QED
    BY <1>2, <1>3, <1>4, <1>5
=============================================================================
