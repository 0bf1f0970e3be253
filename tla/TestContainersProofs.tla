------------------------ MODULE TestContainersProofs ------------------------
(***************************************************************************)
(* Proofs about Logger and TestContainers, for any number of goroutines,   *)
(* levels, writes and calls.                                               *)
(***************************************************************************)
EXTENDS TestContainers, GoMemoryProofs

-----------------------------------------------------------------------------
(* The inductive invariant of the logger.                                  *)

Loggers == {Nil, Nop, 1}
Values == {"NoopLogger", "logger"} \cup Int

LoggerTypeOK ==
    /\ MemoryOK(Values)
    /\ \A v \in Shared : Len(mem[v]) >= 1
    /\ once \in {"new", "running", "done"} /\ builder \in Goroutines \cup {NoGoroutine}
    /\ inited \subseteq Goroutines
    /\ published \in [Shared -> Nat]
    /\ \A v \in Shared : published[v] \in 1..Len(mem[v])
    /\ kept \in [Goroutines -> Loggers \cup {Untaken}]
    /\ took \in [Goroutines -> {"nothing", "With", "New"}]

\* There is one level at most.
LevelInv ==
    /\ (once = "running") = (builder # NoGoroutine)
    /\ mem["dynamicLevel"][1] = Nil
    /\ IF once = "new" THEN Len(mem["dynamicLevel"]) = 1 /\ levels = <<>>
                       ELSE Len(mem["dynamicLevel"]) = 2 /\ mem["dynamicLevel"][2] = 1

\* The global logger is nil at first, and never again.
GlobalInv ==
    /\ mem["globalLogger"][1] = Nil
    /\ \A i \in 2..Len(mem["globalLogger"]) : mem["globalLogger"][i] \in {Nop, 1}

\* Who has returned from Init reads neither the nil logger nor the nil level.
InitedInv ==
    /\ \A g \in inited :
         once = "done" /\ known[g]["globalLogger"] >= 2 /\ known[g]["dynamicLevel"] = 2
    /\ once = "done" => published["globalLogger"] >= 2 /\ published["dynamicLevel"] = 2
    /\ once = "running" => known[builder]["dynamicLevel"] = 2

\* The two words of the interface are written together.
CloserInv ==
    /\ Len(mem["loggerData"]) = Len(mem["loggerType"])
    /\ mem["loggerType"][1] = "NoopLogger"
    /\ \A i \in 2..Len(mem["loggerData"]) : mem["loggerData"][i] \in Loggers
    /\ Len(mem["loggerData"]) >= 2 /\ Latest("loggerData") = Nil => "closer" \in early

KeptInv ==
    \A g \in Goroutines :
        /\ kept[g] = Nil => g \in early /\ took[g] = "New"
        /\ (kept[g] = Nop /\ g \notin early) =>
              \E i \in 1..Len(mem["globalLogger"]) : mem["globalLogger"][i] = Nop

BaseInv == LoggerTypeOK /\ LevelInv /\ GlobalInv /\ InitedInv /\ CloserInv

\* Whoever met a nil pointer came too early, or was not told of the last write.
PanicHasReason ==
    \A g \in Goroutines :
        /\ <<g, "global">> \in panics => g \notin inited
        /\ panics \cap {<<g, "kept">>, <<g, "config">>} # {} => g \in early /\ took[g] = "New"
        /\ <<g, "closer">> \in panics =>
              \/ "closer" \in early
              \/ known[g]["loggerType"] < Len(mem["loggerType"])
              \/ known[g]["loggerData"] < Len(mem["loggerData"])

LoggerInv == BaseInv /\ KeptInv /\ PanicHasReason

LEMMA SharedVars ==
    /\ "globalLogger" \in Shared /\ "dynamicLevel" \in Shared
    /\ "loggerType" \in Shared /\ "loggerData" \in Shared /\ "err" \in Shared
    /\ NoGoroutine \notin Goroutines /\ "closer" \notin Goroutines
BY LoggerAssumption, TestAssumption

LEMMA MemoryFacts ==
    ASSUME BaseInv
    PROVE  /\ \A v \in Shared : mem[v] \in Seq(Values) /\ Len(mem[v]) \in Nat \ {0}
           /\ \A g \in Goroutines, v \in Shared : known[g][v] \in 1..Len(mem[v])
<1>1. mem \in [Shared -> Seq(Values)]
    BY DEF BaseInv, LoggerTypeOK, MemoryOK
<1>2. \A v \in Shared : Len(mem[v]) \in Nat /\ Len(mem[v]) >= 1
    BY <1>1 DEF BaseInv, LoggerTypeOK
<1> QED
    BY <1>1, <1>2 DEF BaseInv, LoggerTypeOK, MemoryOK

-----------------------------------------------------------------------------
(* Steps that leave the variables of the logger as they are.               *)

LoggerMem == {"globalLogger", "dynamicLevel", "loggerType", "loggerData"}

\* The global logger may have got a value.
LEMMA BaseGrows ==
    ASSUME BaseInv, MemoryOK(Values)',
           GlobalInv', \A v \in LoggerMem \ {"globalLogger"} : mem'[v] = mem[v],
           \A v \in Shared : Len(mem'[v]) >= Len(mem[v]),
           \A g \in Goroutines, v \in LoggerMem : known'[g][v] >= known[g][v],
           UNCHANGED <<once, builder, published>>, once = "new" => levels' = levels,
           inited' \subseteq Goroutines,
           \A h \in inited' : \E g \in inited :
               \A v \in LoggerMem : known'[h][v] >= known[g][v],
           "closer" \in early => "closer" \in early',
           kept' \in [Goroutines -> Loggers \cup {Untaken}],
           took' \in [Goroutines -> {"nothing", "With", "New"}]
    PROVE  BaseInv'
<1>1. /\ \A v \in Shared : Len(mem[v]) \in Nat \ {0} /\ Len(mem'[v]) \in Nat
      /\ \A g \in Goroutines, v \in Shared : known'[g][v] \in 1..Len(mem'[v])
      /\ \A g \in Goroutines, v \in Shared : known[g][v] \in 1..Len(mem[v])
    BY MemoryFacts DEF MemoryOK
<1>2. LoggerTypeOK'
  <2>1. \A v \in Shared : Len(mem'[v]) >= 1 /\ published'[v] \in 1..Len(mem'[v])
    <3>1. \A v \in Shared : published[v] \in 1..Len(mem[v])
        BY DEF BaseInv, LoggerTypeOK
    <3> QED
        BY <1>1, <3>1
  <2> QED
      BY <2>1 DEF BaseInv, LoggerTypeOK
<1>3. LevelInv'
    BY DEF BaseInv, LevelInv, LoggerMem, Nil
<1>4. InitedInv'
  <2>1. ASSUME NEW h \in inited'
        PROVE  once' = "done" /\ known'[h]["globalLogger"] >= 2 /\ known'[h]["dynamicLevel"] = 2
    <3>1. PICK g \in inited : \A v \in LoggerMem : known'[h][v] >= known[g][v]
        BY <2>1
    <3>2. once = "done" /\ known[g]["globalLogger"] >= 2 /\ known[g]["dynamicLevel"] = 2
        BY <3>1 DEF BaseInv, InitedInv
    <3>3. Len(mem'["dynamicLevel"]) = 2
        BY <3>2 DEF BaseInv, LevelInv, LoggerMem
    <3>4. h \in Goroutines /\ g \in Goroutines
        BY <2>1, <3>1 DEF BaseInv, LoggerTypeOK
    <3>5. /\ known'[h]["globalLogger"] >= known[g]["globalLogger"]
          /\ known'[h]["dynamicLevel"] >= known[g]["dynamicLevel"]
        BY <3>1 DEF LoggerMem
    <3>6. known'[h]["dynamicLevel"] \in 1..2 /\ known'[h]["globalLogger"] \in Int
      <4>1. /\ known'[h]["dynamicLevel"] \in 1..Len(mem'["dynamicLevel"])
            /\ known'[h]["globalLogger"] \in 1..Len(mem'["globalLogger"])
          BY <1>1, <3>4, SharedVars
      <4> QED
          BY <3>3, <4>1
    <3>7. known[g]["dynamicLevel"] \in Int /\ known[g]["globalLogger"] \in Int
        BY <1>1, <3>4, SharedVars
    <3> QED
        BY <3>2, <3>5, <3>6, <3>7
  <2>2. once' = "running" => known'[builder']["dynamicLevel"] = 2
    <3> SUFFICES ASSUME once = "running" PROVE known'[builder]["dynamicLevel"] = 2
        OBVIOUS
    <3>1. builder \in Goroutines /\ known[builder]["dynamicLevel"] = 2
        BY DEF BaseInv, LoggerTypeOK, LevelInv, InitedInv
    <3>2. Len(mem'["dynamicLevel"]) = 2
        BY DEF BaseInv, LevelInv, LoggerMem
    <3>3. known'[builder]["dynamicLevel"] >= known[builder]["dynamicLevel"]
        BY <3>1 DEF LoggerMem
    <3>4. known'[builder]["dynamicLevel"] \in 1..2
        BY <1>1, <3>1, <3>2, SharedVars
    <3> QED
        BY <3>1, <3>3, <3>4
  <2> QED
      BY <2>1, <2>2 DEF BaseInv, InitedInv
<1>5. CloserInv'
    BY DEF BaseInv, CloserInv, LoggerMem, Loggers, Latest, Nil, Nop
<1> QED
    BY <1>2, <1>3, <1>4, <1>5 DEF BaseInv

LEMMA BaseFrame ==
    ASSUME BaseInv, MemoryOK(Values)',
           \A v \in LoggerMem : mem'[v] = mem[v],
           \A v \in Shared : Len(mem'[v]) >= Len(mem[v]),
           \A g \in Goroutines, v \in LoggerMem : known'[g][v] >= known[g][v],
           UNCHANGED <<once, builder, published>>, once = "new" => levels' = levels,
           inited' \subseteq Goroutines,
           \A h \in inited' : \E g \in inited :
               \A v \in LoggerMem : known'[h][v] >= known[g][v],
           "closer" \in early => "closer" \in early',
           kept' \in [Goroutines -> Loggers \cup {Untaken}],
           took' \in [Goroutines -> {"nothing", "With", "New"}]
    PROVE  BaseInv'
<1>1. GlobalInv' /\ \A v \in LoggerMem \ {"globalLogger"} : mem'[v] = mem[v]
    BY DEF BaseInv, GlobalInv, LoggerMem, Nil, Nop
<1> QED
    BY <1>1, BaseGrows

\* The global logger has only got new values; who keeps what is unchanged.
LEMMA KeptFrame ==
    ASSUME BaseInv, KeptInv, UNCHANGED <<kept, took>>,
           \A g \in Goroutines : (g \in early') = (g \in early),
           Len(mem'["globalLogger"]) \in Nat,
           Len(mem'["globalLogger"]) >= Len(mem["globalLogger"]),
           \A i \in 1..Len(mem["globalLogger"]) :
               mem'["globalLogger"][i] = mem["globalLogger"][i]
    PROVE  KeptInv'
<1>1. Len(mem["globalLogger"]) \in Nat
    BY MemoryFacts, SharedVars
<1>2. 1..Len(mem["globalLogger"]) \subseteq 1..Len(mem'["globalLogger"])
    BY <1>1
<1> SUFFICES ASSUME NEW g \in Goroutines
             PROVE /\ kept'[g] = Nil => g \in early' /\ took'[g] = "New"
                   /\ (kept'[g] = Nop /\ g \notin early') =>
                        \E i \in 1..Len(mem'["globalLogger"]) : mem'["globalLogger"][i] = Nop
    BY DEF KeptInv, Nil, Nop
<1>3. CASE kept[g] = Nop /\ g \notin early
  <2>1. PICK i \in 1..Len(mem["globalLogger"]) : mem["globalLogger"][i] = Nop
      BY <1>3 DEF KeptInv
  <2>2. i \in 1..Len(mem'["globalLogger"]) /\ mem'["globalLogger"][i] = Nop
      BY <1>2, <2>1
  <2> QED
      BY <1>3, <2>2 DEF KeptInv, Nil, Nop
<1>4. CASE ~(kept[g] = Nop /\ g \notin early)
    BY <1>4 DEF KeptInv
<1> QED
    BY <1>3, <1>4

LEMMA NoPanic ==
    ASSUME panics' = {}
    PROVE  PanicHasReason'
BY DEF PanicHasReason

-----------------------------------------------------------------------------
(* Steps that only read, or that tell another goroutine.                   *)

\* g reads the variables; the loggers kept, Init and the levels stay.
LEMMA ReadsOnly ==
    ASSUME BaseInv, UNCHANGED <<mem, once, builder, published, inited>>,
           once = "new" => levels' = levels,
           known' \in [Goroutines -> [Shared -> Nat]],
           \A g \in Goroutines, v \in Shared : known'[g][v] \in known[g][v]..Len(mem[v]),
           "closer" \in early => "closer" \in early',
           kept' \in [Goroutines -> Loggers \cup {Untaken}],
           took' \in [Goroutines -> {"nothing", "With", "New"}]
    PROVE  BaseInv'
<1>1. /\ \A v \in Shared : Len(mem[v]) \in Nat
      /\ \A g \in Goroutines, v \in Shared : known[g][v] \in 1..Len(mem[v])
      /\ LoggerMem \subseteq Shared
    BY MemoryFacts, SharedVars DEF LoggerMem
<1>2. \A g \in Goroutines, v \in Shared :
          known'[g][v] \in 1..Len(mem[v]) /\ known'[g][v] >= known[g][v]
    BY <1>1
<1>3. MemoryOK(Values)'
    BY <1>2 DEF BaseInv, LoggerTypeOK, MemoryOK
<1>4. inited' \subseteq Goroutines
    BY DEF BaseInv, LoggerTypeOK
<1>5. \A h \in inited' : \E g \in inited : \A v \in LoggerMem : known'[h][v] >= known[g][v]
    BY <1>1, <1>2, <1>4
<1>6. \A v \in Shared : Len(mem'[v]) >= Len(mem[v])
    BY <1>1
<1> QED
    BY <1>1, <1>2, <1>3, <1>4, <1>5, <1>6, BaseFrame

\* What reading the i-th value of v adds to known.
LEMMA KnowsMore ==
    ASSUME BaseInv, NEW g \in Goroutines, NEW v \in Shared,
           NEW i \in known[g][v]..Len(mem[v]), Knows(g, v, i)
    PROVE  /\ known' \in [Goroutines -> [Shared -> Nat]]
           /\ \A h \in Goroutines, w \in Shared : known'[h][w] \in known[h][w]..Len(mem[w])
<1>1. /\ \A w \in Shared : Len(mem[w]) \in Nat
      /\ \A h \in Goroutines, w \in Shared : known[h][w] \in 1..Len(mem[w])
      /\ known \in [Goroutines -> [Shared -> Nat]]
    BY MemoryFacts DEF BaseInv, LoggerTypeOK, MemoryOK
<1>2. i \in Nat
    BY <1>1
<1> QED
    BY <1>1, <1>2 DEF Knows

\* Who reads a nil logger through the package is not inited.
LEMMA GlobalNil ==
    ASSUME BaseInv, NEW g \in Goroutines, NEW i \in Window(g, "globalLogger")
    PROVE  /\ i \in 1..Len(mem["globalLogger"])
           /\ mem["globalLogger"][i] \in Loggers
           /\ mem["globalLogger"][i] = Nil <=> i = 1
           /\ g \in inited => i >= 2
<1>1. /\ Len(mem["globalLogger"]) \in Nat
      /\ known[g]["globalLogger"] \in 1..Len(mem["globalLogger"])
    BY MemoryFacts, SharedVars
<1>2. i \in 1..Len(mem["globalLogger"]) /\ i >= known[g]["globalLogger"]
    BY <1>1 DEF Window
<1>3. i = 1 \/ i \in 2..Len(mem["globalLogger"])
    BY <1>1, <1>2
<1> QED
    BY <1>1, <1>2, <1>3 DEF BaseInv, GlobalInv, InitedInv, Loggers, Nil, Nop

LEMMA LogsStep ==
    ASSUME LoggerInv, NEW g \in Goroutines, Logs(g), Alive,
           UNCHANGED <<mem, once, builder, levels, published, inited, kept, took, early>>
    PROVE  LoggerInv'
<1>1. PICK i \in Window(g, "globalLogger") :
          /\ Knows(g, "globalLogger", i)
          /\ Method(g, mem["globalLogger"][i], "global")
    BY DEF Logs
<1>2. BaseInv'
    BY <1>1, KnowsMore, ReadsOnly, SharedVars DEF LoggerInv, BaseInv, LoggerTypeOK, Window
<1>3. KeptInv'
    BY KeptFrame, MemoryFacts, SharedVars DEF LoggerInv
<1>4. PanicHasReason'
  <2>1. g \in inited => mem["globalLogger"][i] \notin {Nil, Nowhere}
      BY GlobalNil DEF LoggerInv, Loggers, Nil, Nop, Nowhere
  <2>2. CASE panics' = {}
      BY <2>2, NoPanic
  <2>3. CASE panics' # {}
    <3>1. panics' = {<<g, "global">>} /\ g \notin inited
        BY <1>1, <2>1, <2>3 DEF Method
    <3> QED
        BY <3>1 DEF PanicHasReason
  <2> QED
      BY <2>2, <2>3
<1> QED
    BY <1>2, <1>3, <1>4 DEF LoggerInv

\* A line through a logger that is kept, or configured.
LEMMA MethodStep ==
    ASSUME LoggerInv, NEW g \in Goroutines, NEW l, NEW how \in {"kept", "config"},
           Method(g, l, how),
           l \in {Nil, Nowhere} => g \in early /\ took[g] = "New",
           UNCHANGED <<mem, known, once, builder, levels, published, inited, kept, took, early>>
    PROVE  LoggerInv'
<1>1. BaseInv' /\ KeptInv'
    BY DEF LoggerInv, BaseInv, LoggerTypeOK, MemoryOK, LevelInv, GlobalInv, InitedInv, CloserInv,
           Latest, KeptInv
<1>2. PanicHasReason'
  <2>1. CASE panics' = {}
      BY <2>1, NoPanic
  <2>2. CASE panics' # {}
    <3>1. panics' = {<<g, how>>} /\ g \in early /\ took[g] = "New"
        BY <2>2 DEF Method
    <3> QED
        BY <3>1 DEF PanicHasReason
  <2> QED
      BY <2>1, <2>2
<1> QED
    BY <1>1, <1>2 DEF LoggerInv

LEMMA ToldStep ==
    ASSUME LoggerInv, NEW g \in Goroutines, NEW h \in Goroutines, Told(g, h), Alive,
           UNCHANGED <<mem, once, builder, levels, published, kept, took, early, panics>>
    PROVE  LoggerInv'
<1>1. /\ \A v \in Shared : Len(mem[v]) \in Nat
      /\ \A k \in Goroutines, v \in Shared : known[k][v] \in 1..Len(mem[v])
      /\ known[g] \in [Shared -> Nat]
      /\ LoggerMem \subseteq Shared
    BY MemoryFacts, SharedVars DEF LoggerInv, BaseInv, LoggerTypeOK, MemoryOK, LoggerMem
<1>2. /\ MemoryOK(Values)'
      /\ \A v \in Shared : known'[h][v] >= known[h][v] /\ known'[h][v] >= known[g][v]
      /\ \A k \in Goroutines \ {h}, v \in Shared : known'[k][v] = known[k][v]
    BY <1>1, LearnEffect DEF Told, LoggerInv, BaseInv, LoggerTypeOK
<1>3. inited' \subseteq Goroutines
    BY DEF Told, LoggerInv, BaseInv, LoggerTypeOK
<1>4. \A k \in Goroutines, v \in Shared : known'[k][v] >= known[k][v]
    BY <1>1, <1>2
<1>5. ASSUME NEW k \in inited'
      PROVE  \E m \in inited : \A v \in LoggerMem : known'[k][v] >= known[m][v]
  <2>1. CASE k \in inited
      BY <1>1, <1>3, <1>4, <1>5, <2>1
  <2>2. CASE k \notin inited
    <3>1. k = h /\ g \in inited
        BY <2>2 DEF Told
    <3> QED
        BY <1>1, <1>2, <3>1
  <2> QED
      BY <2>1, <2>2
<1>6. BaseInv'
  <2>1. \A v \in Shared : Len(mem'[v]) >= Len(mem[v])
      BY <1>1
  <2>2. \A k \in Goroutines, v \in LoggerMem : known'[k][v] >= known[k][v]
      BY <1>1, <1>4
  <2> QED
      BY <1>2, <1>3, <1>5, <2>1, <2>2, BaseFrame DEF LoggerInv, BaseInv, LoggerTypeOK
<1>7. KeptInv'
    BY KeptFrame, MemoryFacts, SharedVars DEF LoggerInv
<1>8. PanicHasReason'
    BY NoPanic DEF Alive
<1> QED
    BY <1>6, <1>7, <1>8 DEF LoggerInv

\* The variable err is nothing to the logger.
LEMMA ErrStep ==
    ASSUME LoggerInv, NEW g \in Goroutines, NEW e \in {Ok, Failed}, Returns(g, e), Alive
    PROVE  LoggerInv'
<1>1. UNCHANGED <<once, builder, levels, published, inited, kept, took, early, panics>>
    BY DEF Returns
<1>2. e \in Values /\ Write(g, "err", e) /\ MemoryOK(Values) /\ "err" \in Shared /\ "err" \notin LoggerMem
    BY SharedVars DEF Returns, Ok, Failed, Values, LoggerInv, BaseInv, LoggerTypeOK, LoggerMem
<1>3. /\ \A v \in Shared : Len(mem[v]) \in Nat
      /\ \A k \in Goroutines, v \in Shared : known[k][v] \in 1..Len(mem[v])
      /\ LoggerMem \subseteq Shared
    BY MemoryFacts, SharedVars DEF LoggerInv, LoggerMem
<1>4. /\ MemoryOK(Values)'
      /\ Len(mem'["err"]) = Len(mem["err"]) + 1
      /\ \A w \in Shared \ {"err"} : mem'[w] = mem[w]
      /\ known'[g]["err"] = Len(mem["err"]) + 1
      /\ \A h \in Goroutines, w \in Shared :
           (h # g \/ w # "err") => known'[h][w] = known[h][w]
    BY <1>2, WriteEffect
<1>5. BaseInv'
  <2>1. /\ \A v \in LoggerMem : mem'[v] = mem[v]
        /\ \A v \in Shared : Len(mem'[v]) >= Len(mem[v])
      BY <1>2, <1>3, <1>4
  <2>2. \A h \in Goroutines, v \in LoggerMem : known'[h][v] >= known[h][v]
      BY <1>2, <1>3, <1>4
  <2>3. inited \subseteq Goroutines
      BY DEF LoggerInv, BaseInv, LoggerTypeOK
  <2> QED
      BY <1>1, <1>4, <2>1, <2>2, <2>3, BaseFrame DEF LoggerInv, BaseInv, LoggerTypeOK
<1>6. KeptInv'
  <2>1. mem'["globalLogger"] = mem["globalLogger"]
      BY <1>2, <1>4, SharedVars DEF LoggerMem
  <2> QED
      BY <1>1, <2>1, KeptFrame, MemoryFacts, SharedVars DEF LoggerInv
<1>7. PanicHasReason'
    BY <1>1, NoPanic DEF Alive
<1> QED
    BY <1>5, <1>6, <1>7 DEF LoggerInv

-----------------------------------------------------------------------------
(* Init.                                                                   *)

\* The variable v of the logger gets a new value x.
LEMMA LoggerWrite ==
    ASSUME BaseInv, NEW g \in Goroutines, NEW v \in Shared, NEW x \in Loggers, Write(g, v, x)
    PROVE  /\ MemoryOK(Values)'
           /\ Len(mem'[v]) = Len(mem[v]) + 1 /\ mem'[v][Len(mem[v]) + 1] = x
           /\ \A i \in 1..Len(mem[v]) : mem'[v][i] = mem[v][i]
           /\ \A w \in Shared \ {v} : mem'[w] = mem[w]
           /\ known'[g][v] = Len(mem[v]) + 1
           /\ \A h \in Goroutines, w \in Shared : (h # g \/ w # v) => known'[h][w] = known[h][w]
           /\ \A w \in Shared : Len(mem[w]) \in Nat \ {0} /\ Len(mem'[w]) >= Len(mem[w])
           /\ \A h \in Goroutines, w \in Shared : known'[h][w] >= known[h][w]
<1>1. x \in Values /\ MemoryOK(Values)
    BY DEF Values, Loggers, Nil, Nop, BaseInv, LoggerTypeOK
<1>2. /\ \A w \in Shared : Len(mem[w]) \in Nat \ {0}
      /\ \A h \in Goroutines, w \in Shared : known[h][w] \in 1..Len(mem[w])
    BY MemoryFacts
<1>3. /\ MemoryOK(Values)'
      /\ Len(mem'[v]) = Len(mem[v]) + 1 /\ mem'[v][Len(mem[v]) + 1] = x
      /\ \A i \in 1..Len(mem[v]) : mem'[v][i] = mem[v][i]
      /\ \A w \in Shared \ {v} : mem'[w] = mem[w]
      /\ known'[g][v] = Len(mem[v]) + 1
      /\ \A h \in Goroutines, w \in Shared : (h # g \/ w # v) => known'[h][w] = known[h][w]
    BY <1>1, WriteEffect
<1>4. \A w \in Shared : Len(mem'[w]) >= Len(mem[w])
    BY <1>2, <1>3
<1>5. \A h \in Goroutines, w \in Shared : known'[h][w] >= known[h][w]
    BY <1>2, <1>3
<1> QED
    BY <1>2, <1>3, <1>4, <1>5

\* Init makes the level while nobody is inited.
LEMMA InitBeginsStep ==
    ASSUME LoggerInv, NEW g \in Goroutines, NEW name, InitBegins(g, name)
    PROVE  LoggerInv'
<1>1. /\ once = "new" /\ once' = "running" /\ builder' = g /\ levels = <<>>
      /\ Write(g, "dynamicLevel", 1) /\ panics = {}
      /\ UNCHANGED <<published, inited, kept, took, early, panics>>
    BY DEF InitBegins, First, Free, Alive, LoggerInv, BaseInv, LevelInv
<1>2. "dynamicLevel" \in Shared /\ 1 \in Loggers /\ BaseInv
    BY SharedVars DEF Loggers, LoggerInv
<1>3. /\ MemoryOK(Values)'
      /\ Len(mem'["dynamicLevel"]) = Len(mem["dynamicLevel"]) + 1
      /\ mem'["dynamicLevel"][Len(mem["dynamicLevel"]) + 1] = 1
      /\ \A i \in 1..Len(mem["dynamicLevel"]) : mem'["dynamicLevel"][i] = mem["dynamicLevel"][i]
      /\ \A w \in Shared \ {"dynamicLevel"} : mem'[w] = mem[w]
      /\ known'[g]["dynamicLevel"] = Len(mem["dynamicLevel"]) + 1
      /\ \A w \in Shared : Len(mem[w]) \in Nat \ {0} /\ Len(mem'[w]) >= Len(mem[w])
    BY <1>1, <1>2, LoggerWrite
<1>4. /\ mem'["globalLogger"] = mem["globalLogger"] /\ mem'["loggerType"] = mem["loggerType"]
      /\ mem'["loggerData"] = mem["loggerData"]
    BY <1>3, SharedVars
<1>5. Len(mem["dynamicLevel"]) = 1 /\ mem["dynamicLevel"][1] = Nil /\ inited = {}
    BY <1>1 DEF LoggerInv, BaseInv, LevelInv, InitedInv
<1>6. LoggerTypeOK'
  <2>1. \A v \in Shared : Len(mem'[v]) >= 1 /\ published'[v] \in 1..Len(mem'[v])
    <3>1. \A v \in Shared : published[v] \in 1..Len(mem[v]) /\ Len(mem'[v]) \in Nat
        BY <1>3 DEF LoggerInv, BaseInv, LoggerTypeOK, MemoryOK
    <3> QED
        BY <1>1, <1>3, <3>1
  <2> QED
      BY <1>1, <1>3, <2>1 DEF LoggerInv, BaseInv, LoggerTypeOK
<1>7. LevelInv' /\ GlobalInv'
    BY <1>1, <1>3, <1>4, <1>5, SharedVars DEF LoggerInv, BaseInv, LevelInv, GlobalInv, Nil, Nop
<1>8. InitedInv' /\ CloserInv'
    BY <1>1, <1>3, <1>4, <1>5 DEF LoggerInv, BaseInv, InitedInv, CloserInv, Latest, Nil, Nop, Loggers
<1>9. KeptInv'
    BY <1>1, <1>3, <1>4, SharedVars, KeptFrame DEF LoggerInv
<1>10. PanicHasReason'
    BY <1>1, NoPanic
<1> QED
    BY <1>6, <1>7, <1>8, <1>9, <1>10 DEF LoggerInv, BaseInv

\* The global logger gets a value that is not nil.
LEMMA GlobalWrite ==
    ASSUME LoggerInv, NEW g \in Goroutines, NEW x \in {Nop, 1}, Write(g, "globalLogger", x),
           UNCHANGED <<kept, took, early>>, panics' = {}
    PROVE  /\ GlobalInv' /\ KeptInv' /\ PanicHasReason'
           /\ MemoryOK(Values)' /\ known'[g]["globalLogger"] >= 2
           /\ \A v \in LoggerMem \ {"globalLogger"} : mem'[v] = mem[v]
           /\ \A v \in Shared : Len(mem[v]) \in Nat \ {0} /\ Len(mem'[v]) >= Len(mem[v])
           /\ \A h \in Goroutines, v \in Shared : known'[h][v] >= known[h][v]
           /\ known'[g]["dynamicLevel"] = known[g]["dynamicLevel"]
<1>1. x \in Loggers /\ x # Nil /\ BaseInv /\ LoggerMem \subseteq Shared
    BY SharedVars DEF Loggers, Nil, Nop, LoggerInv, LoggerMem
<1>2. /\ MemoryOK(Values)'
      /\ Len(mem'["globalLogger"]) = Len(mem["globalLogger"]) + 1
      /\ mem'["globalLogger"][Len(mem["globalLogger"]) + 1] = x
      /\ \A i \in 1..Len(mem["globalLogger"]) : mem'["globalLogger"][i] = mem["globalLogger"][i]
      /\ \A w \in Shared \ {"globalLogger"} : mem'[w] = mem[w]
      /\ known'[g]["globalLogger"] = Len(mem["globalLogger"]) + 1
      /\ \A h \in Goroutines, w \in Shared :
           (h # g \/ w # "globalLogger") => known'[h][w] = known[h][w]
      /\ \A v \in Shared : Len(mem[v]) \in Nat \ {0} /\ Len(mem'[v]) >= Len(mem[v])
      /\ \A h \in Goroutines, v \in Shared : known'[h][v] >= known[h][v]
    BY <1>1, LoggerWrite, SharedVars
<1>3. GlobalInv'
  <2> DEFINE n == Len(mem["globalLogger"])
  <2>1. n \in Nat \ {0} /\ mem'["globalLogger"][1] = mem["globalLogger"][1]
      BY <1>2, SharedVars
  <2>2. ASSUME NEW i \in 2..n + 1 PROVE mem'["globalLogger"][i] \in {Nop, 1}
    <3>1. CASE i = n + 1
        BY <1>2, <3>1
    <3>2. CASE i # n + 1
      <4>1. i \in 2..n /\ i \in 1..n
          BY <2>1, <2>2, <3>2
      <4> QED
          BY <1>1, <1>2, <4>1 DEF BaseInv, GlobalInv
    <3> QED
        BY <3>1, <3>2
  <2> QED
      BY <1>1, <1>2, <2>1, <2>2 DEF BaseInv, GlobalInv, Nil, Nop
<1>4. KeptInv'
  <2>1. /\ Len(mem'["globalLogger"]) \in Nat
        /\ Len(mem'["globalLogger"]) >= Len(mem["globalLogger"])
      BY <1>2, SharedVars
  <2> QED
      BY <1>1, <1>2, <2>1, KeptFrame DEF LoggerInv
<1>5. PanicHasReason'
    BY NoPanic
<1>6. known'[g]["globalLogger"] >= 2
    BY <1>2, SharedVars
<1>7. known'[g]["dynamicLevel"] = known[g]["dynamicLevel"]
    BY <1>2, SharedVars
<1> QED
    BY <1>1, <1>2, <1>3, <1>4, <1>5, <1>6, <1>7

\* The Once is over: whoever returns knows the level and the logger.
LEMMA InitEndsStep ==
    ASSUME LoggerInv, NEW g \in Goroutines, InitEnds(g)
    PROVE  LoggerInv'
<1>1. /\ builder = g /\ once = "running" /\ known[g]["dynamicLevel"] = 2
      /\ Len(mem["dynamicLevel"]) = 2 /\ mem["dynamicLevel"][2] = 1
      /\ inited = {} /\ panics' = {}
    BY SharedVars DEF InitEnds, Alive, LoggerInv, BaseInv, LoggerTypeOK, LevelInv, InitedInv
<1>2. /\ Write(g, "globalLogger", 1)
      /\ once' = "done" /\ builder' = NoGoroutine
      /\ published' = known'[g] /\ inited' = {g}
      /\ UNCHANGED <<levels, kept, took, early>>
    BY <1>1 DEF InitEnds, Latest
<1>3. /\ GlobalInv' /\ KeptInv' /\ PanicHasReason'
      /\ MemoryOK(Values)' /\ known'[g]["globalLogger"] >= 2
      /\ \A v \in LoggerMem \ {"globalLogger"} : mem'[v] = mem[v]
      /\ \A v \in Shared : Len(mem[v]) \in Nat \ {0} /\ Len(mem'[v]) >= Len(mem[v])
      /\ known'[g]["dynamicLevel"] = 2
    BY <1>1, <1>2, GlobalWrite
<1>4. /\ mem'["dynamicLevel"] = mem["dynamicLevel"] /\ mem'["loggerType"] = mem["loggerType"]
      /\ mem'["loggerData"] = mem["loggerData"]
    BY <1>3 DEF LoggerMem
<1>5. LoggerTypeOK'
  <2>1. \A v \in Shared : Len(mem'[v]) >= 1
      BY <1>3 DEF MemoryOK
  <2> QED
      BY <1>2, <1>3, <2>1 DEF MemoryOK, LoggerInv, BaseInv, LoggerTypeOK
<1>6. LevelInv'
    BY <1>1, <1>2, <1>4 DEF LoggerInv, BaseInv, LevelInv, Nil
<1>7. InitedInv'
    BY <1>2, <1>3 DEF InitedInv
<1>8. CloserInv'
    BY <1>2, <1>4 DEF LoggerInv, BaseInv, CloserInv, Latest, Loggers, Nil, Nop
<1> QED
    BY <1>3, <1>5, <1>6, <1>7, <1>8 DEF LoggerInv, BaseInv

\* What was published is known to the one that waited.
LEMMA InitAgainStep ==
    ASSUME LoggerInv, NEW g \in Goroutines, InitAgain(g)
    PROVE  LoggerInv'
<1>1. /\ once = "done" /\ Learn(g, published) /\ inited' = inited \cup {g} /\ panics' = {}
      /\ UNCHANGED <<mem, once, builder, levels, published, kept, took, early>>
    BY DEF InitAgain, OnceOver, Free, Alive
<1>2. /\ published \in [Shared -> Nat] /\ \A v \in Shared : published[v] \in 1..Len(mem[v])
      /\ MemoryOK(Values)
    BY DEF LoggerInv, BaseInv, LoggerTypeOK
<1>3. /\ MemoryOK(Values)'
      /\ \A v \in Shared : known'[g][v] >= known[g][v] /\ known'[g][v] >= published[v]
      /\ \A h \in Goroutines \ {g}, v \in Shared : known'[h][v] = known[h][v]
    BY <1>1, <1>2, LearnEffect
<1>4. LoggerTypeOK'
    BY <1>1, <1>3 DEF LoggerInv, BaseInv, LoggerTypeOK
<1>5. LevelInv' /\ GlobalInv' /\ CloserInv'
    BY <1>1 DEF LoggerInv, BaseInv, LevelInv, GlobalInv, CloserInv, Latest
<1>6. /\ known'[g]["globalLogger"] >= 2 /\ known'[g]["dynamicLevel"] = 2
  <2>1. /\ known'[g]["globalLogger"] >= published["globalLogger"]
        /\ known'[g]["dynamicLevel"] >= published["dynamicLevel"]
      BY <1>3, SharedVars
  <2>2. /\ published["globalLogger"] >= 2 /\ published["dynamicLevel"] = 2
        /\ Len(mem["dynamicLevel"]) = 2
      BY <1>1 DEF LoggerInv, BaseInv, InitedInv, LevelInv
  <2>3. /\ known'[g]["dynamicLevel"] \in 1..Len(mem["dynamicLevel"])
        /\ known'[g]["globalLogger"] \in Nat /\ published["globalLogger"] \in Nat
      BY <1>1, <1>2, <1>3, SharedVars DEF MemoryOK
  <2> QED
      BY <2>1, <2>2, <2>3
<1>7. InitedInv'
  <2>1. \A h \in inited \ {g} : known'[h]["globalLogger"] = known[h]["globalLogger"]
                                /\ known'[h]["dynamicLevel"] = known[h]["dynamicLevel"]
      BY <1>3, SharedVars DEF LoggerInv, BaseInv, LoggerTypeOK
  <2> QED
      BY <1>1, <1>6, <2>1 DEF LoggerInv, BaseInv, InitedInv
<1>8. KeptInv' /\ PanicHasReason'
    BY <1>1, KeptFrame, NoPanic, MemoryFacts, SharedVars DEF LoggerInv
<1> QED
    BY <1>4, <1>5, <1>7, <1>8 DEF LoggerInv, BaseInv

-----------------------------------------------------------------------------
(* The other functions of the logger.                                      *)

LEMMA SetNopLoggerStep ==
    ASSUME LoggerInv, NEW g \in Goroutines, SetNopLogger(g)
    PROVE  LoggerInv'
<1>1. /\ Write(g, "globalLogger", Nop) /\ panics' = {}
      /\ UNCHANGED <<once, builder, levels, published, inited, kept, took, early>>
    BY DEF SetNopLogger, Free, Alive
<1>2. /\ GlobalInv' /\ KeptInv' /\ PanicHasReason' /\ MemoryOK(Values)'
      /\ \A v \in LoggerMem \ {"globalLogger"} : mem'[v] = mem[v]
      /\ \A v \in Shared : Len(mem'[v]) >= Len(mem[v])
      /\ \A h \in Goroutines, v \in Shared : known'[h][v] >= known[h][v]
    BY <1>1, GlobalWrite
<1>3. inited \subseteq Goroutines /\ LoggerMem \subseteq Shared
    BY SharedVars DEF LoggerInv, BaseInv, LoggerTypeOK, LoggerMem
<1>4. BaseInv'
    BY <1>1, <1>2, <1>3, BaseGrows DEF LoggerInv, BaseInv, LoggerTypeOK
<1> QED
    BY <1>2, <1>4 DEF LoggerInv

LEMMA SetLevelStep ==
    ASSUME LoggerInv, NEW g \in Goroutines, NEW name, SetLevel(g, name)
    PROVE  LoggerInv'
<1>1. PICK i \in Window(g, "dynamicLevel") : \E k \in i..Len(mem["dynamicLevel"]) :
          /\ Knows(g, "dynamicLevel", k)
          /\ levels' = IF mem["dynamicLevel"][i] = Nil THEN levels
                       ELSE [levels EXCEPT ![mem["dynamicLevel"][k]] = parseLevel(name)]
    BY DEF SetLevel
<1>2. PICK k \in i..Len(mem["dynamicLevel"]) :
          /\ Knows(g, "dynamicLevel", k)
          /\ levels' = IF mem["dynamicLevel"][i] = Nil THEN levels
                       ELSE [levels EXCEPT ![mem["dynamicLevel"][k]] = parseLevel(name)]
    BY <1>1
<1>3. panics' = {} /\ UNCHANGED <<mem, once, builder, published, inited, kept, took, early>>
    BY DEF SetLevel, Free, Alive
<1>4. /\ Len(mem["dynamicLevel"]) \in Nat
      /\ known[g]["dynamicLevel"] \in 1..Len(mem["dynamicLevel"])
    BY MemoryFacts, SharedVars DEF LoggerInv
<1>5. i \in 1..Len(mem["dynamicLevel"]) /\ k \in known[g]["dynamicLevel"]..Len(mem["dynamicLevel"])
    BY <1>1, <1>2, <1>4 DEF Window
<1>6. once = "new" => levels' = levels
  <2> SUFFICES ASSUME once = "new" PROVE levels' = levels
      OBVIOUS
  <2>1. Len(mem["dynamicLevel"]) = 1 /\ mem["dynamicLevel"][1] = Nil
      BY DEF LoggerInv, BaseInv, LevelInv
  <2>2. i = 1
      BY <1>5, <2>1
  <2> QED
      BY <1>2, <2>1, <2>2
<1>7. BaseInv'
    BY <1>2, <1>3, <1>5, <1>6, KnowsMore, ReadsOnly, SharedVars DEF LoggerInv, BaseInv, LoggerTypeOK
<1>8. KeptInv' /\ PanicHasReason'
    BY <1>3, <1>4, KeptFrame, NoPanic DEF LoggerInv
<1> QED
    BY <1>7, <1>8 DEF LoggerInv

LEMMA AppendFacts ==
    ASSUME NEW S, NEW s \in Seq(S), NEW x \in S
    PROVE  /\ Append(s, x) \in Seq(S) /\ Len(Append(s, x)) = Len(s) + 1
           /\ Append(s, x)[Len(s) + 1] = x
           /\ \A k \in 1..Len(s) : Append(s, x)[k] = s[k]
OBVIOUS

\* With gives a no-op before Init only.
LEMMA WithStep ==
    ASSUME LoggerInv, NEW g \in Goroutines, With(g)
    PROVE  LoggerInv'
<1> DEFINE Read(i, j) ==
        /\ mem["globalLogger"][i] = Nil => j = i
        /\ Knows(g, "globalLogger", j)
        /\ Keeps(g, Derived(mem["globalLogger"][i], mem["globalLogger"][j]), "With")
<1>1. PICK i \in Window(g, "globalLogger") : \E j \in i..Len(mem["globalLogger"]) : Read(i, j)
    BY DEF With
<1>2. PICK j \in i..Len(mem["globalLogger"]) : Read(i, j)
    BY <1>1
<1>3. /\ panics' = {} /\ Noted(g, g)
      /\ UNCHANGED <<mem, once, builder, levels, published, inited>>
    BY DEF With, Free, Alive
<1>4. /\ Len(mem["globalLogger"]) \in Nat
      /\ known[g]["globalLogger"] \in 1..Len(mem["globalLogger"])
      /\ i \in 1..Len(mem["globalLogger"]) /\ (mem["globalLogger"][i] = Nil <=> i = 1)
      /\ g \in inited => i >= 2
    BY MemoryFacts, GlobalNil, SharedVars DEF LoggerInv
<1>5. j \in known[g]["globalLogger"]..Len(mem["globalLogger"]) /\ j \in Window(g, "globalLogger")
    BY <1>4 DEF Window
<1>6. mem["globalLogger"][j] \in Loggers /\ (mem["globalLogger"][j] = Nil <=> j = 1)
      /\ j \in 1..Len(mem["globalLogger"])
    BY <1>5, GlobalNil DEF LoggerInv
<1> DEFINE l == Derived(mem["globalLogger"][i], mem["globalLogger"][j])
<1>7. /\ l \in {Nop, 1}
      /\ (l = Nop /\ g \in inited) => mem["globalLogger"][j] = Nop
    BY <1>4, <1>5, <1>6 DEF Derived, Loggers, Nil, Nop
<1>8. /\ kept' = [kept EXCEPT ![g] = l] /\ took' = [took EXCEPT ![g] = "With"]
      /\ kept \in [Goroutines -> Loggers \cup {Untaken}]
      /\ took \in [Goroutines -> {"nothing", "With", "New"}]
    BY <1>2 DEF Keeps, LoggerInv, BaseInv, LoggerTypeOK
<1>9. /\ \A h \in Goroutines \ {g} : (h \in early') = (h \in early)
      /\ g \in early' <=> g \notin inited
      /\ "closer" \in early => "closer" \in early'
    BY <1>3, SharedVars DEF Noted
<1>10. BaseInv'
  <2>1. kept' \in [Goroutines -> Loggers \cup {Untaken}]
      BY <1>7, <1>8 DEF Loggers
  <2>2. took' \in [Goroutines -> {"nothing", "With", "New"}]
      BY <1>8
  <2>3. /\ known' \in [Goroutines -> [Shared -> Nat]]
        /\ \A h \in Goroutines, v \in Shared : known'[h][v] \in known[h][v]..Len(mem[v])
      BY <1>2, <1>5, KnowsMore, SharedVars DEF LoggerInv
  <2> QED
      BY <1>3, <1>9, <2>1, <2>2, <2>3, ReadsOnly DEF LoggerInv
<1>11. KeptInv'
  <2> SUFFICES ASSUME NEW h \in Goroutines
               PROVE /\ kept'[h] = Nil => h \in early' /\ took'[h] = "New"
                     /\ (kept'[h] = Nop /\ h \notin early') =>
                          \E k \in 1..Len(mem["globalLogger"]) : mem["globalLogger"][k] = Nop
      BY <1>3 DEF KeptInv, Nil, Nop
  <2>1. CASE h = g
      BY <1>6, <1>7, <1>8, <1>9, <2>1 DEF Nil, Nop
  <2>2. CASE h # g
      BY <1>8, <1>9, <2>2 DEF LoggerInv, KeptInv
  <2> QED
      BY <2>1, <2>2
<1>12. PanicHasReason'
    BY <1>3, NoPanic
<1> QED
    BY <1>10, <1>11, <1>12 DEF LoggerInv

\* A closer made before Init may keep the nil logger.
LEMMA NewStep ==
    ASSUME LoggerInv, NEW g \in Goroutines, New(g)
    PROVE  LoggerInv'
<1>1. PICK i \in Window(g, "globalLogger") :
          Knows(g, "globalLogger", i) /\ Keeps(g, mem["globalLogger"][i], "New")
    BY DEF New
<1>2. /\ panics' = {} /\ Noted(g, g)
      /\ UNCHANGED <<mem, once, builder, levels, published, inited>>
    BY DEF New, Free, Alive
<1>3. /\ i \in 1..Len(mem["globalLogger"]) /\ mem["globalLogger"][i] \in Loggers
      /\ mem["globalLogger"][i] = Nil => g \notin inited
    BY GlobalNil DEF LoggerInv
<1>4. /\ kept' = [kept EXCEPT ![g] = mem["globalLogger"][i]]
      /\ took' = [took EXCEPT ![g] = "New"]
      /\ kept \in [Goroutines -> Loggers \cup {Untaken}]
      /\ took \in [Goroutines -> {"nothing", "With", "New"}]
    BY <1>1 DEF Keeps, LoggerInv, BaseInv, LoggerTypeOK
<1>5. /\ \A h \in Goroutines \ {g} : (h \in early') = (h \in early)
      /\ g \in early' <=> g \notin inited
      /\ "closer" \in early => "closer" \in early'
    BY <1>2, SharedVars DEF Noted
<1>6. BaseInv'
  <2>1. kept' \in [Goroutines -> Loggers \cup {Untaken}]
      BY <1>3, <1>4
  <2>2. took' \in [Goroutines -> {"nothing", "With", "New"}]
      BY <1>4
  <2>3. /\ known' \in [Goroutines -> [Shared -> Nat]]
        /\ \A h \in Goroutines, v \in Shared : known'[h][v] \in known[h][v]..Len(mem[v])
      BY <1>1, KnowsMore, SharedVars DEF LoggerInv, Window
  <2> QED
      BY <1>2, <1>5, <2>1, <2>2, <2>3, ReadsOnly DEF LoggerInv
<1>7. KeptInv'
  <2> SUFFICES ASSUME NEW h \in Goroutines
               PROVE /\ kept'[h] = Nil => h \in early' /\ took'[h] = "New"
                     /\ (kept'[h] = Nop /\ h \notin early') =>
                          \E k \in 1..Len(mem["globalLogger"]) : mem["globalLogger"][k] = Nop
      BY <1>2 DEF KeptInv, Nil, Nop
  <2>1. CASE h = g
      BY <1>3, <1>4, <1>5, <2>1
  <2>2. CASE h # g
      BY <1>4, <1>5, <2>2 DEF LoggerInv, KeptInv
  <2> QED
      BY <2>1, <2>2
<1>8. PanicHasReason'
    BY <1>2, NoPanic
<1> QED
    BY <1>6, <1>7, <1>8 DEF LoggerInv

LEMMA LogStep ==
    ASSUME LoggerInv, NEW g \in Goroutines, Log(g)
    PROVE  LoggerInv'
BY LogsStep DEF Log, Free

LEMMA SyncStep ==
    ASSUME LoggerInv, NEW g \in Goroutines, Sync(g)
    PROVE  LoggerInv'
<1> DEFINE Read(i, j) ==
        /\ mem["globalLogger"][i] = Nil => j = i
        /\ Knows(g, "globalLogger", j)
        /\ IF mem["globalLogger"][i] = Nil THEN UNCHANGED panics
           ELSE Method(g, mem["globalLogger"][j], "global")
<1>1. PICK i \in Window(g, "globalLogger") : \E j \in i..Len(mem["globalLogger"]) : Read(i, j)
    BY DEF Sync
<1>2. PICK j \in i..Len(mem["globalLogger"]) : Read(i, j)
    BY <1>1
<1>3. Alive /\ UNCHANGED <<mem, once, builder, levels, published, inited, kept, took, early>>
    BY DEF Sync, Free
<1>4. /\ Len(mem["globalLogger"]) \in Nat
      /\ known[g]["globalLogger"] \in 1..Len(mem["globalLogger"])
      /\ i \in 1..Len(mem["globalLogger"]) /\ i >= known[g]["globalLogger"]
    BY MemoryFacts, SharedVars DEF LoggerInv, Window
<1>5. j \in known[g]["globalLogger"]..Len(mem["globalLogger"]) /\ j \in Window(g, "globalLogger")
    BY <1>4 DEF Window
<1>6. CASE mem["globalLogger"][i] = Nil
  <2>1. panics' = {}
      BY <1>2, <1>3, <1>6 DEF Alive
  <2>2. BaseInv'
      BY <1>2, <1>3, <1>5, KnowsMore, ReadsOnly, SharedVars DEF LoggerInv, BaseInv, LoggerTypeOK
  <2> QED
      BY <1>3, <1>4, <2>1, <2>2, KeptFrame, NoPanic DEF LoggerInv
<1>7. CASE mem["globalLogger"][i] # Nil
  <2>1. Logs(g)
      BY <1>2, <1>5, <1>7 DEF Logs
  <2> QED
      BY <1>3, <2>1, LogsStep
<1> QED
    BY <1>6, <1>7

LEMMA LogKeptStep ==
    ASSUME LoggerInv, NEW g \in Goroutines, LogKept(g)
    PROVE  LoggerInv'
<1>1. kept[g] \in {Nil, Nowhere} => g \in early /\ took[g] = "New"
    BY DEF LoggerInv, KeptInv, BaseInv, LoggerTypeOK, Loggers, Nil, Nop, Untaken, Nowhere
<1> QED
    BY <1>1, MethodStep DEF LogKept

\* The two words are written together, but may be read apart.
LEMMA SetLoggerStep ==
    ASSUME LoggerInv, NEW g \in Goroutines, SetLogger(g)
    PROVE  LoggerInv'
<1>1. PICK i \in Window(g, "globalLogger") :
          /\ mem' = [mem EXCEPT !["loggerType"] = Append(@, "logger"),
                                !["loggerData"] = Append(@, mem["globalLogger"][i])]
          /\ known' = [known EXCEPT ![g]["globalLogger"] = i,
                                    ![g]["loggerType"] = Len(mem["loggerType"]) + 1,
                                    ![g]["loggerData"] = Len(mem["loggerData"]) + 1]
    BY DEF SetLogger
<1> DEFINE l == mem["globalLogger"][i]
           n == Len(mem["loggerData"])
<1>2. /\ panics' = {} /\ Noted("closer", g)
      /\ UNCHANGED <<once, builder, levels, published, inited, kept, took>>
    BY DEF SetLogger, Free, Alive
<1>3. /\ i \in 1..Len(mem["globalLogger"]) /\ l \in Loggers
      /\ g \in inited => l # Nil
    BY GlobalNil DEF LoggerInv
<1>4. /\ mem \in [Shared -> Seq(Values)] /\ known \in [Goroutines -> [Shared -> Nat]]
      /\ \A v \in Shared : Len(mem[v]) \in Nat \ {0}
      /\ \A h \in Goroutines, v \in Shared : known[h][v] \in 1..Len(mem[v])
      /\ l \in Values /\ "logger" \in Values
    BY <1>3, MemoryFacts DEF LoggerInv, BaseInv, LoggerTypeOK, MemoryOK, Loggers, Values, Nil, Nop
<1>5. /\ mem["loggerType"] \in Seq(Values) /\ mem["loggerData"] \in Seq(Values)
      /\ n \in Nat \ {0} /\ Len(mem["loggerType"]) = n
    BY <1>4, SharedVars DEF LoggerInv, BaseInv, CloserInv
<1>6. /\ Append(mem["loggerType"], "logger") \in Seq(Values)
      /\ Len(Append(mem["loggerType"], "logger")) = n + 1
      /\ Append(mem["loggerType"], "logger")[1] = mem["loggerType"][1]
      /\ Append(mem["loggerData"], l) \in Seq(Values)
      /\ Len(Append(mem["loggerData"], l)) = n + 1
      /\ Append(mem["loggerData"], l)[n + 1] = l
      /\ \A k \in 1..n : Append(mem["loggerData"], l)[k] = mem["loggerData"][k]
  <2> HIDE DEF l
  <2>1. /\ Append(mem["loggerType"], "logger") \in Seq(Values)
        /\ Len(Append(mem["loggerType"], "logger")) = Len(mem["loggerType"]) + 1
        /\ \A k \in 1..Len(mem["loggerType"]) :
             Append(mem["loggerType"], "logger")[k] = mem["loggerType"][k]
      BY <1>4, <1>5, AppendFacts
  <2>2. /\ Append(mem["loggerData"], l) \in Seq(Values)
        /\ Len(Append(mem["loggerData"], l)) = n + 1
        /\ Append(mem["loggerData"], l)[n + 1] = l
        /\ \A k \in 1..n : Append(mem["loggerData"], l)[k] = mem["loggerData"][k]
      BY <1>4, <1>5, AppendFacts
  <2>3. Len(mem["loggerType"]) = n /\ 1 \in 1..Len(mem["loggerType"])
      BY <1>5
  <2>4. Append(mem["loggerType"], "logger")[1] = mem["loggerType"][1]
      BY <2>1, <2>3, Zenon
  <2>5. Len(Append(mem["loggerType"], "logger")) = n + 1
      BY <2>1, <2>3, Zenon
  <2> QED
      BY <2>1, <2>2, <2>4, <2>5, Zenon
<1>7. /\ mem'["loggerType"] = Append(mem["loggerType"], "logger")
      /\ mem'["loggerData"] = Append(mem["loggerData"], l)
      /\ \A v \in Shared \ {"loggerType", "loggerData"} : mem'[v] = mem[v]
      /\ mem' \in [Shared -> Seq(Values)]
  <2> DEFINE T == Append(mem["loggerType"], "logger")
             D == Append(mem["loggerData"], l)
  <2>1. /\ mem' = [mem EXCEPT !["loggerType"] = T, !["loggerData"] = D]
        /\ T \in Seq(Values) /\ D \in Seq(Values)
      BY <1>1, <1>6
  <2> HIDE DEF T, D
  <2>2. mem' = [[mem EXCEPT !["loggerType"] = T] EXCEPT !["loggerData"] = D]
      BY <2>1
  <2>3. /\ mem'["loggerType"] = T /\ mem'["loggerData"] = D
        /\ \A v \in Shared \ {"loggerType", "loggerData"} : mem'[v] = mem[v]
        /\ mem' \in [Shared -> Seq(Values)]
      BY <1>4, <2>1, <2>2, SharedVars
  <2> QED
      BY <2>3 DEF T, D
<1>8. /\ known' \in [Goroutines -> [Shared -> Nat]]
      /\ known'[g]["globalLogger"] = i /\ known'[g]["loggerType"] = n + 1
      /\ known'[g]["loggerData"] = n + 1
      /\ \A v \in Shared \ {"globalLogger", "loggerType", "loggerData"} :
           known'[g][v] = known[g][v]
      /\ \A h \in Goroutines \ {g} : known'[h] = known[h]
    BY <1>1, <1>3, <1>4, <1>5, SharedVars
<1>9. i >= known[g]["globalLogger"]
    BY <1>4, SharedVars DEF Window
<1>10. \A v \in Shared : Len(mem'[v]) \in Nat /\ Len(mem'[v]) >= Len(mem[v])
  <2>1. \A v \in Shared \ {"loggerType", "loggerData"} :
            Len(mem'[v]) \in Nat /\ Len(mem'[v]) >= Len(mem[v])
      BY <1>4, <1>7
  <2>2. Len(mem'["loggerType"]) = n + 1 /\ Len(mem'["loggerData"]) = n + 1
      BY <1>6, <1>7
  <2> QED
      BY <1>5, <2>1, <2>2
<1>11. \A h \in Goroutines, v \in Shared :
           known'[h][v] \in 1..Len(mem'[v]) /\ known'[h][v] >= known[h][v]
  <2> SUFFICES ASSUME NEW h \in Goroutines, NEW v \in Shared
               PROVE  known'[h][v] \in 1..Len(mem'[v]) /\ known'[h][v] >= known[h][v]
      OBVIOUS
  <2>1. CASE h # g
      BY <1>4, <1>8, <1>10, <2>1
  <2>2. CASE h = g /\ v \in {"loggerType", "loggerData"}
      BY <1>4, <1>5, <1>6, <1>7, <1>8, <2>2
  <2>3. CASE h = g /\ v = "globalLogger"
      BY <1>3, <1>4, <1>7, <1>8, <1>9, <2>3
  <2>4. CASE h = g /\ v \notin {"globalLogger", "loggerType", "loggerData"}
      BY <1>4, <1>7, <1>8, <2>4
  <2> QED
      BY <2>1, <2>2, <2>3, <2>4
<1>12. MemoryOK(Values)'
    BY <1>7, <1>8, <1>11 DEF MemoryOK
<1>13. /\ mem'["globalLogger"] = mem["globalLogger"]
       /\ mem'["dynamicLevel"] = mem["dynamicLevel"]
    BY <1>7, SharedVars
<1>14. LoggerTypeOK'
  <2>1. \A v \in Shared : Len(mem'[v]) >= 1 /\ published'[v] \in 1..Len(mem'[v])
    <3>1. \A v \in Shared : published[v] \in 1..Len(mem[v])
        BY DEF LoggerInv, BaseInv, LoggerTypeOK
    <3> QED
        BY <1>2, <1>4, <1>10, <3>1
  <2> QED
      BY <1>2, <1>12, <2>1 DEF LoggerInv, BaseInv, LoggerTypeOK
<1>15. LevelInv' /\ GlobalInv'
    BY <1>2, <1>13 DEF LoggerInv, BaseInv, LevelInv, GlobalInv, Nil, Nop
<1>16. InitedInv'
  <2>1. \A h \in Goroutines : /\ known'[h]["dynamicLevel"] = known[h]["dynamicLevel"]
                              /\ known'[h]["globalLogger"] >= known[h]["globalLogger"]
                              /\ known'[h]["globalLogger"] \in Int
                              /\ known[h]["globalLogger"] \in Int
    <3>1. "dynamicLevel" \in Shared \ {"globalLogger", "loggerType", "loggerData"}
        BY SharedVars
    <3>2. \A h \in Goroutines : known'[h]["dynamicLevel"] = known[h]["dynamicLevel"]
        BY <1>8, <3>1
    <3>3. \A h \in Goroutines : known'[h]["globalLogger"] >= known[h]["globalLogger"]
        BY <1>11, SharedVars
    <3>4. \A h \in Goroutines : known'[h]["globalLogger"] \in Int /\ known[h]["globalLogger"] \in Int
        BY <1>4, <1>8, SharedVars
    <3> QED
        BY <3>2, <3>3, <3>4
  <2>2. once = "running" => builder \in Goroutines
      BY DEF LoggerInv, BaseInv, LoggerTypeOK, LevelInv
  <2>3. inited \subseteq Goroutines
      BY DEF LoggerInv, BaseInv, LoggerTypeOK
  <2> QED
      BY <1>2, <2>1, <2>2, <2>3 DEF LoggerInv, BaseInv, InitedInv
<1>17. CloserInv'
  <2>1. /\ mem'["loggerType"][1] = "NoopLogger"
        /\ Len(mem'["loggerData"]) = n + 1 /\ Len(mem'["loggerType"]) = n + 1
        /\ mem'["loggerData"][n + 1] = l
      BY <1>6, <1>7 DEF LoggerInv, BaseInv, CloserInv
  <2>2. ASSUME NEW k \in 2..n + 1 PROVE mem'["loggerData"][k] \in Loggers
    <3>1. CASE k = n + 1
        BY <1>3, <2>1, <3>1
    <3>2. CASE k # n + 1
      <4>1. k \in 2..n /\ k \in 1..n
          BY <1>5, <2>2, <3>2
      <4> QED
          BY <1>6, <1>7, <4>1 DEF LoggerInv, BaseInv, CloserInv
    <3> QED
        BY <3>1, <3>2
  <2>3. l = Nil => "closer" \in early'
      BY <1>2, <1>3 DEF Noted
  <2> QED
      BY <2>1, <2>2, <2>3 DEF CloserInv, Latest, Nil, Nop, Loggers
<1>18. KeptInv'
  <2>1. \A h \in Goroutines : (h \in early') = (h \in early)
      BY <1>2, SharedVars DEF Noted
  <2> QED
      BY <1>2, <1>4, <1>13, <2>1, KeptFrame, SharedVars DEF LoggerInv
<1>19. PanicHasReason'
    BY <1>2, NoPanic
<1> QED
    BY <1>14, <1>15, <1>16, <1>17, <1>18, <1>19 DEF LoggerInv, BaseInv

\* Whoever reads the last of both words finds what SetLogger was given.
LEMMA LogCloserStep ==
    ASSUME LoggerInv, NEW g \in Goroutines, LogCloser(g)
    PROVE  LoggerInv'
<1>1. PICK i \in Window(g, "loggerType"), j \in Window(g, "loggerData") :
          /\ known' = [known EXCEPT ![g]["loggerType"] = i, ![g]["loggerData"] = j]
          /\ IF mem["loggerType"][i] = "NoopLogger" THEN UNCHANGED panics
             ELSE Method(g, mem["loggerData"][j], "closer")
    BY DEF LogCloser
<1>2. Alive /\ UNCHANGED <<mem, once, builder, levels, published, inited, kept, took, early>>
    BY DEF LogCloser, Free
<1>3. /\ known \in [Goroutines -> [Shared -> Nat]]
      /\ \A v \in Shared : Len(mem[v]) \in Nat \ {0}
      /\ \A h \in Goroutines, v \in Shared : known[h][v] \in 1..Len(mem[v])
    BY MemoryFacts DEF LoggerInv, BaseInv, LoggerTypeOK, MemoryOK
<1>4. /\ i \in known[g]["loggerType"]..Len(mem["loggerType"])
      /\ j \in known[g]["loggerData"]..Len(mem["loggerData"])
      /\ i \in 1..Len(mem["loggerType"]) /\ j \in 1..Len(mem["loggerData"])
    BY <1>3, SharedVars DEF Window
<1>5. /\ known' \in [Goroutines -> [Shared -> Nat]]
      /\ known'[g]["loggerType"] = i /\ known'[g]["loggerData"] = j
      /\ \A v \in Shared \ {"loggerType", "loggerData"} : known'[g][v] = known[g][v]
      /\ \A h \in Goroutines \ {g} : known'[h] = known[h]
  <2> DEFINE both == [known[g] EXCEPT !["loggerType"] = i, !["loggerData"] = j]
  <2>1. known[g] \in [Shared -> Nat] /\ i \in Nat /\ j \in Nat
      BY <1>3, <1>4, SharedVars
  <2>2. /\ both \in [Shared -> Nat]
        /\ both["loggerType"] = i /\ both["loggerData"] = j
        /\ \A v \in Shared \ {"loggerType", "loggerData"} : both[v] = known[g][v]
      BY <2>1, SharedVars
  <2>3. known' = [known EXCEPT ![g] = both]
      BY <1>1, <1>3, SharedVars
  <2> HIDE DEF both
  <2> QED
      BY <1>3, <2>2, <2>3
<1>6. \A h \in Goroutines, v \in Shared : known'[h][v] \in known[h][v]..Len(mem[v])
  <2> SUFFICES ASSUME NEW h \in Goroutines, NEW v \in Shared
               PROVE  known'[h][v] \in known[h][v]..Len(mem[v])
      OBVIOUS
  <2>1. CASE h # g \/ v \notin {"loggerType", "loggerData"}
    <3>1. known'[h][v] = known[h][v] /\ known[h][v] \in 1..Len(mem[v]) /\ Len(mem[v]) \in Nat
        BY <1>3, <1>5, <2>1
    <3> QED
        BY <3>1
  <2>2. CASE h = g /\ v \in {"loggerType", "loggerData"}
      BY <1>4, <1>5, <2>2
  <2> QED
      BY <2>1, <2>2
<1>7. BaseInv'
    BY <1>2, <1>5, <1>6, ReadsOnly DEF LoggerInv, BaseInv, LoggerTypeOK
<1>8. KeptInv'
    BY <1>2, <1>3, KeptFrame, SharedVars DEF LoggerInv
<1>9. PanicHasReason'
  <2>1. CASE panics' = {}
      BY <2>1, NoPanic
  <2>2. CASE panics' # {}
    <3>1. /\ panics' = {<<g, "closer">>} /\ mem["loggerData"][j] \in {Nil, Nowhere}
          /\ mem["loggerType"][i] # "NoopLogger"
        BY <1>1, <1>2, <2>2 DEF Method, Alive
    <3>2. i # 1
        BY <3>1 DEF LoggerInv, BaseInv, CloserInv
    <3>3. CASE i = Len(mem["loggerType"]) /\ j = Len(mem["loggerData"])
      <4>1. Len(mem["loggerData"]) >= 2 /\ j \in 2..Len(mem["loggerData"])
        <5>1. Len(mem["loggerData"]) = Len(mem["loggerType"])
            BY DEF LoggerInv, BaseInv, CloserInv
        <5>2. i \in Nat /\ i >= 1 /\ j = i
            BY <1>3, <1>4, <3>3, <5>1, SharedVars
        <5>3. i >= 2
            BY <3>2, <5>2
        <5>4. Len(mem["loggerData"]) = i
            BY <3>3, <5>1
        <5> QED
            BY <5>2, <5>3, <5>4
      <4>2. mem["loggerData"][j] \in Loggers
          BY <4>1 DEF LoggerInv, BaseInv, CloserInv
      <4>3. Latest("loggerData") = Nil
          BY <3>1, <3>3, <4>2 DEF Latest, Loggers, Nil, Nop, Nowhere
      <4>4. "closer" \in early'
          BY <1>2, <4>1, <4>3 DEF LoggerInv, BaseInv, CloserInv
      <4> QED
          BY <3>1, <4>4 DEF PanicHasReason
    <3>4. CASE ~(i = Len(mem["loggerType"]) /\ j = Len(mem["loggerData"]))
      <4>1. \/ known'[g]["loggerType"] < Len(mem'["loggerType"])
            \/ known'[g]["loggerData"] < Len(mem'["loggerData"])
          BY <1>2, <1>3, <1>4, <1>5, <3>4, SharedVars
      <4> QED
          BY <3>1, <4>1 DEF PanicHasReason
    <3> QED
        BY <3>3, <3>4
  <2> QED
      BY <2>1, <2>2
<1> QED
    BY <1>7, <1>8, <1>9 DEF LoggerInv

LEMMA TellStep ==
    ASSUME LoggerInv, NEW g \in Goroutines, NEW h \in Goroutines, Tell(g, h)
    PROVE  LoggerInv'
BY ToldStep DEF Tell, Free

LEMMA LoggerCallStep ==
    ASSUME LoggerInv, NEW g \in Users, LoggerCall(g)
    PROVE  LoggerInv'
<1>1. g \in Goroutines /\ Users \subseteq Goroutines
    BY LoggerAssumption
<1>2. CASE \E name \in LevelNames : InitBegins(g, name) \/ SetLevel(g, name)
    BY <1>1, <1>2, InitBeginsStep, SetLevelStep
<1>3. CASE InitAgain(g) \/ SetNopLogger(g) \/ With(g) \/ New(g) \/ SetLogger(g)
    BY <1>1, <1>3, InitAgainStep, SetNopLoggerStep, WithStep, NewStep, SetLoggerStep
<1>4. CASE Log(g) \/ Sync(g) \/ LogKept(g) \/ LogCloser(g)
    BY <1>1, <1>4, LogStep, SyncStep, LogKeptStep, LogCloserStep
<1>5. CASE \E h \in Users : Tell(g, h)
    BY <1>1, <1>5, TellStep
<1> QED
    BY <1>2, <1>3, <1>4, <1>5 DEF LoggerCall

-----------------------------------------------------------------------------
(* The environment of a test.                                              *)

MongoSteps == {"mongoLookup", "mongoConnect", "mongoCleanup"}
AppSteps == {"appLookup", "appStarted"}
Steps == {"idle", "mongoTerminate"} \cup MongoSteps \cup AppSteps
Reasons == {"none", "start", "terminate", "ping", "disconnect", "lookup"}

DockerTypeOK ==
    /\ exists \subseteq Resources /\ held \subseteq Resources /\ wanted \subseteq Resources
    /\ step \in Steps
    /\ excuse \in [Resources -> Reasons]
    /\ mongoLog \in Loggers

\* What nobody holds is being started or stopped, or has its excuse.
DockerInv ==
    /\ "network" \in exists \ held => excuse["network"] = "start"
    /\ "mongo" \in exists \ held =>
          excuse["mongo"] \in {"start", "terminate"} \/ step \in MongoSteps
    /\ "client" \in exists \ held => excuse["client"] \in {"ping", "disconnect"}
    /\ step = "mongoTerminate" /\ "client" \in exists =>
          excuse["client"] \in {"ping", "disconnect"}
    /\ "app" \in exists \ held => excuse["app"] \in {"start", "lookup"} \/ step \in AppSteps

\* A container for MongoDB with a nil logger does not outlive its start.
MongoLogInv ==
    /\ "mongo" \in wanted => "mongo" \notin held /\ step \notin MongoSteps
    /\ step = "mongoTerminate" => "mongo" \in held
    /\ step \in MongoSteps => "mongo" \notin held
    /\ (Alive /\ mongoLog = Nil) =>
          /\ "mongo" \notin held
          /\ step \in MongoSteps => Test \in early /\ took[Test] = "New"

TestContainersInv == LoggerInv /\ DockerTypeOK /\ DockerInv /\ MongoLogInv

\* Nothing happens in the logger.
LEMMA LoggerStays ==
    ASSUME LoggerInv, UNCHANGED loggerVars
    PROVE  LoggerInv'
<1>1. UNCHANGED <<mem, known, once, builder, levels, published, inited, kept, took, early, panics>>
    BY DEF loggerVars
<1>2. BaseInv'
    BY <1>1 DEF LoggerInv, BaseInv, LoggerTypeOK, MemoryOK, LevelInv, GlobalInv, InitedInv,
                CloserInv, Latest
<1>3. KeptInv' /\ PanicHasReason'
    BY <1>1 DEF LoggerInv, KeptInv, PanicHasReason
<1> QED
    BY <1>2, <1>3 DEF LoggerInv

\* Nobody but the test changes what the test keeps.
LEMMA OthersStay ==
    ASSUME LoggerInv, NEW g \in Users \ {Test}, LoggerCall(g)
    PROVE  /\ (Test \in early') = (Test \in early)
           /\ took'[Test] = took[Test]
<1>1. took \in [Goroutines -> {"nothing", "With", "New"}] /\ Test \in Goroutines /\ g \in Goroutines
      /\ Test # "closer"
    BY LoggerAssumption, TestAssumption DEF LoggerInv, BaseInv, LoggerTypeOK
<1>2. CASE UNCHANGED <<took, early>>
    BY <1>2
<1>3. CASE With(g) \/ New(g)
  <2>1. Noted(g, g) /\ \E how \in {"With", "New"} : took' = [took EXCEPT ![g] = how]
      BY <1>3 DEF With, New, Keeps
  <2> QED
      BY <1>1, <2>1 DEF Noted
<1>4. CASE SetLogger(g)
    BY <1>1, <1>4 DEF SetLogger, Noted
<1> QED
    BY <1>2, <1>3, <1>4 DEF LoggerCall, InitBegins, SetLevel, InitAgain, SetNopLogger, Log, Sync,
       LogKept, LogCloser, Tell

LEMMA LoggerCallInTest ==
    ASSUME TestContainersInv, NEW g \in Users, g = Test => step = "idle", LoggerCall(g),
           UNCHANGED testVars
    PROVE  TestContainersInv'
<1>1. UNCHANGED <<exists, held, wanted, excuse, step, mongoLog>>
    BY DEF testVars, dockerVars
<1>2. Alive
    BY DEF LoggerCall, InitBegins, SetLevel, InitAgain, SetNopLogger, With, New, SetLogger, Log,
           Sync, LogKept, LogCloser, Tell, Free
<1>3. LoggerInv' /\ DockerTypeOK' /\ DockerInv'
    BY <1>1, LoggerCallStep DEF TestContainersInv, DockerTypeOK, DockerInv, Loggers, Nil, Nop
<1>4. MongoLogInv'
  <2>1. CASE g = Test
      BY <1>1, <1>2, <2>1 DEF TestContainersInv, MongoLogInv, MongoSteps, Nil
  <2>2. CASE g # Test
    <3>1. (Test \in early') = (Test \in early) /\ took'[Test] = took[Test]
        BY <2>2, OthersStay DEF TestContainersInv
    <3> QED
        BY <1>1, <1>2, <3>1 DEF TestContainersInv, MongoLogInv, Nil
  <2> QED
      BY <2>1, <2>2
<1> QED
    BY <1>3, <1>4 DEF TestContainersInv

LEMMA InitEndsInTest ==
    ASSUME TestContainersInv, NEW g \in Users, InitEnds(g), UNCHANGED testVars
    PROVE  TestContainersInv'
<1>1. UNCHANGED <<exists, held, wanted, excuse, step, mongoLog, took, early>> /\ Alive
    BY DEF testVars, dockerVars, InitEnds
<1>2. LoggerInv'
    BY InitEndsStep, LoggerAssumption DEF TestContainersInv
<1> QED
    BY <1>1, <1>2 DEF TestContainersInv, DockerTypeOK, DockerInv, MongoLogInv, Loggers, Nil, Nop

\* Steps of the goroutines of the logs and of the world around.
LEMMA LogGoroutines ==
    ASSUME TestContainersInv, LoggerInv', Alive,
           UNCHANGED <<held, wanted, excuse, step, mongoLog, took, early>>,
           exists' \subseteq exists
    PROVE  TestContainersInv'
BY DEF TestContainersInv, DockerTypeOK, DockerInv, MongoLogInv, Loggers, Nil, Nop

-----------------------------------------------------------------------------
(* The functions of the library.                                           *)

\* A line through the configured logger, or that of the MongoDB container.
LEMMA TestLogsStep ==
    ASSUME LoggerInv, NEW l, TestLogs(l), l = Nil => Test \in early /\ took[Test] = "New",
           l \in Loggers
    PROVE  LoggerInv' /\ UNCHANGED <<took, early>>
<1>1. Test \in Goroutines /\ l # Nowhere
    BY TestAssumption DEF Loggers, Nil, Nop, Nowhere
<1> QED
    BY <1>1, MethodStep DEF TestLogs

LEMMA ConfiguredOK ==
    ASSUME LoggerInv
    PROVE  Configured \in Loggers /\ (Configured = Nil => Test \in early /\ took[Test] = "New")
<1>1. Test \in Goroutines
    BY TestAssumption
<1> QED
    BY <1>1 DEF Configured, Loggers, Nil, Nop, Untaken, LoggerInv, KeptInv, BaseInv, LoggerTypeOK

LEMMA MongoLogOK ==
    ASSUME TestContainersInv, Alive, step \in MongoSteps \/ "mongo" \in held
    PROVE  mongoLog \in Loggers /\ (mongoLog = Nil => Test \in early /\ took[Test] = "New")
BY DEF TestContainersInv, DockerTypeOK, MongoLogInv

\* What a call leaves behind gets its reason.
Blamed(r, why) ==
    /\ excuse' \in [Resources -> Reasons] /\ excuse'[r] = why
    /\ \A s \in Resources \ {r} : excuse'[s] = excuse[s]

LEMMA ExcusedBlames ==
    ASSUME DockerTypeOK, NEW r \in Resources, NEW why \in Reasons, Excused(r, why)
    PROVE  Blamed(r, why)
BY DEF DockerTypeOK, Excused, Blamed

LEMMA NetworkSteps ==
    ASSUME TestContainersInv, NewNetwork \/ Remove
    PROVE  TestContainersInv'
<1>1. LoggerInv' /\ UNCHANGED <<took, early, panics>>
    BY LoggerStays DEF TestContainersInv, NewNetwork, Remove, loggerVars
<1>2. UNCHANGED <<step, mongoLog>> /\ wanted' \subseteq wanted /\ Alive
    BY DEF NewNetwork, Remove, At
<1>3. /\ exists' \subseteq exists \cup {"network"} /\ held' \subseteq held \cup {"network"}
      /\ \A r \in Resources \ {"network"} : (r \in exists' <=> r \in exists) /\ (r \in held' <=> r \in held)
    BY DEF NewNetwork, Remove
<1>4. /\ excuse' = excuse \/ Blamed("network", "start")
      /\ "network" \in exists' \ held' => excuse'["network"] = "start"
  <2>1. CASE NewNetwork /\ Excused("network", "start")
      BY <2>1, ExcusedBlames DEF TestContainersInv, Resources, Reasons, Blamed
  <2>2. CASE NewNetwork /\ ~Excused("network", "start")
    <3>1. excuse' = excuse /\ ("network" \in exists' \ held' => "network" \in exists \ held)
        BY <2>2 DEF NewNetwork
    <3> QED
        BY <3>1 DEF TestContainersInv, DockerInv
  <2>3. CASE Remove
      BY <2>3 DEF Remove
  <2> QED
      BY <2>1, <2>2, <2>3
<1>5. DockerTypeOK'
    BY <1>2, <1>3, <1>4 DEF TestContainersInv, DockerTypeOK, Resources, Blamed
<1>6. DockerInv'
    BY <1>2, <1>3, <1>4 DEF TestContainersInv, DockerInv, Resources, Blamed
<1> QED
    BY <1>1, <1>2, <1>3, <1>5, <1>6 DEF TestContainersInv, MongoLogInv, Resources, Alive,
       Loggers, Nil, Nop

LEMMA StartSteps ==
    ASSUME TestContainersInv, StartMongo \/ StartApp
    PROVE  TestContainersInv'
<1>1. LoggerInv' /\ UNCHANGED <<took, early, panics>>
    BY LoggerStays DEF TestContainersInv, StartMongo, StartApp, StartContainer, loggerVars
<1>2. CASE StartMongo
  <2>1. /\ step = "idle" /\ "mongo" \in wanted /\ wanted' = wanted \ {"mongo"}
        /\ held' = held /\ mongoLog' = Configured
      BY <1>2 DEF StartMongo, StartContainer, At
  <2>2. \/ exists' = exists \cup {"mongo"} /\ step' = "mongoLookup" /\ UNCHANGED excuse
        \/ exists' = exists \cup {"mongo"} /\ Blamed("mongo", "start") /\ UNCHANGED step
        \/ UNCHANGED <<exists, excuse, step>>
      BY <1>2, ExcusedBlames DEF StartMongo, StartContainer, TestContainersInv, Resources, Reasons
  <2>3. CASE exists' = exists \cup {"mongo"} /\ step' = "mongoLookup" /\ UNCHANGED excuse
      BY <1>1, <2>1, <2>3, ConfiguredOK DEF TestContainersInv, DockerTypeOK, DockerInv,
         MongoLogInv, Resources, Steps, MongoSteps, AppSteps
  <2>4. CASE exists' = exists \cup {"mongo"} /\ Blamed("mongo", "start") /\ UNCHANGED step
      BY <1>1, <2>1, <2>4, ConfiguredOK DEF TestContainersInv, Blamed, DockerTypeOK, DockerInv,
         MongoLogInv, Resources, Steps, MongoSteps, AppSteps
  <2>5. CASE UNCHANGED <<exists, excuse, step>>
      BY <1>1, <2>1, <2>5, ConfiguredOK DEF TestContainersInv, DockerTypeOK, DockerInv,
         MongoLogInv, Resources, Steps, MongoSteps, AppSteps
  <2> QED
      BY <2>2, <2>3, <2>4, <2>5
<1>3. CASE StartApp
  <2>1. /\ step = "idle" /\ "app" \in wanted /\ wanted' = wanted \ {"app"}
        /\ held' = held /\ mongoLog' = mongoLog
      BY <1>3 DEF StartApp, StartContainer, At
  <2>2. \/ exists' = exists \cup {"app"} /\ step' = "appLookup" /\ UNCHANGED excuse
        \/ exists' = exists \cup {"app"} /\ Blamed("app", "start") /\ UNCHANGED step
        \/ UNCHANGED <<exists, excuse, step>>
      BY <1>3, ExcusedBlames DEF StartApp, StartContainer, TestContainersInv, Resources, Reasons
  <2>3. CASE exists' = exists \cup {"app"} /\ step' = "appLookup" /\ UNCHANGED excuse
      BY <1>1, <2>1, <2>3 DEF TestContainersInv, Alive, DockerTypeOK, DockerInv,
         MongoLogInv, Resources, Steps, MongoSteps, AppSteps
  <2>4. CASE exists' = exists \cup {"app"} /\ Blamed("app", "start") /\ UNCHANGED step
      BY <1>1, <2>1, <2>4 DEF TestContainersInv, Alive, Blamed, DockerTypeOK, DockerInv,
         MongoLogInv, Resources, Steps, MongoSteps, AppSteps
  <2>5. CASE UNCHANGED <<exists, excuse, step>>
      BY <1>1, <2>1, <2>5 DEF TestContainersInv, Alive, DockerTypeOK, DockerInv,
         MongoLogInv, Resources, Steps, MongoSteps, AppSteps
  <2> QED
      BY <2>2, <2>3, <2>4, <2>5
<1> QED
    BY <1>2, <1>3

LEMMA MongoStartSteps ==
    ASSUME TestContainersInv, MongoLookup \/ ConnectFails \/ MongoStarted \/ Cleanup
    PROVE  TestContainersInv'
<1>1. Alive /\ step \in MongoSteps
    BY DEF MongoLookup, ConnectFails, MongoStarted, Cleanup, At, MongoSteps
<1>2. LoggerInv' /\ UNCHANGED <<took, early>>
  <2>1. UNCHANGED loggerVars \/ TestLogs(mongoLog)
      BY DEF MongoLookup, ConnectFails, MongoStarted, Cleanup
  <2> QED
      BY <1>1, <2>1, LoggerStays, TestLogsStep, MongoLogOK DEF TestContainersInv, loggerVars
<1>3. CASE MongoLookup
    BY <1>1, <1>2, <1>3 DEF TestContainersInv, MongoLookup, At, DockerTypeOK, DockerInv,
       MongoLogInv, Steps, MongoSteps, AppSteps
<1>4. CASE ConnectFails
  <2>1. step = "mongoConnect" /\ step' = "mongoCleanup" /\ UNCHANGED <<held, wanted, mongoLog>>
      BY <1>4 DEF ConnectFails, At
  <2>2. \/ UNCHANGED <<exists, excuse>>
        \/ exists' = exists \cup {"client"} /\ Blamed("client", "ping")
      BY <1>4, ExcusedBlames DEF ConnectFails, TestContainersInv, Resources, Reasons
  <2>3. CASE UNCHANGED <<exists, excuse>>
      BY <1>1, <1>2, <2>1, <2>3 DEF TestContainersInv, DockerTypeOK, DockerInv,
         MongoLogInv, Resources, Steps, MongoSteps, AppSteps
  <2>4. CASE exists' = exists \cup {"client"} /\ Blamed("client", "ping")
      BY <1>1, <1>2, <2>1, <2>4 DEF TestContainersInv, Blamed, DockerTypeOK, DockerInv,
         MongoLogInv, Resources, Steps, MongoSteps, AppSteps
  <2> QED
      BY <2>2, <2>3, <2>4
<1>5. CASE MongoStarted
  <2>1. mongoLog = Nil => panics' # {}
      BY <1>5 DEF MongoStarted, TestLogs, Method
  <2> QED
      BY <1>1, <1>2, <1>5, <2>1 DEF TestContainersInv, MongoStarted, At, Alive, DockerTypeOK,
         DockerInv, MongoLogInv, Resources, Reasons, Steps, MongoSteps, AppSteps
<1>6. CASE Cleanup
  <2>1. step = "mongoCleanup" /\ step' = "idle" /\ UNCHANGED <<held, wanted, mongoLog>>
      BY <1>6 DEF Cleanup, At
  <2>2. \/ exists' = exists \ {"mongo"} /\ UNCHANGED excuse
        \/ UNCHANGED exists /\ Blamed("mongo", "terminate")
      BY <1>6, ExcusedBlames DEF Cleanup, TestContainersInv, Resources, Reasons
  <2>3. CASE exists' = exists \ {"mongo"} /\ UNCHANGED excuse
      BY <1>1, <1>2, <2>1, <2>3 DEF TestContainersInv, DockerTypeOK, DockerInv,
         MongoLogInv, Resources, Steps, MongoSteps, AppSteps
  <2>4. CASE UNCHANGED exists /\ Blamed("mongo", "terminate")
      BY <1>1, <1>2, <2>1, <2>4 DEF TestContainersInv, Blamed, DockerTypeOK, DockerInv,
         MongoLogInv, Resources, Steps, MongoSteps, AppSteps
  <2> QED
      BY <2>2, <2>3, <2>4
<1> QED
    BY <1>3, <1>4, <1>5, <1>6

LEMMA MongoStopSteps ==
    ASSUME TestContainersInv, TerminateMongo \/ MongoTerminated
    PROVE  TestContainersInv'
<1>1. Alive /\ "mongo" \in held
    BY DEF TerminateMongo, MongoTerminated, At, TestContainersInv, MongoLogInv
<1>2. LoggerInv' /\ UNCHANGED <<took, early>>
  <2>1. UNCHANGED loggerVars \/ TestLogs(mongoLog)
      BY DEF TerminateMongo, MongoTerminated
  <2> QED
      BY <1>1, <2>1, LoggerStays, TestLogsStep, MongoLogOK DEF TestContainersInv, loggerVars
<1>3. CASE TerminateMongo
  <2>1. step = "idle" /\ step' = "mongoTerminate" /\ UNCHANGED <<held, wanted, mongoLog>>
      BY <1>3 DEF TerminateMongo, At
  <2>2. \/ exists' = exists \ {"client"} /\ UNCHANGED excuse
        \/ UNCHANGED exists /\ Blamed("client", "disconnect")
      BY <1>3, ExcusedBlames DEF TerminateMongo, TestContainersInv, Resources, Reasons
  <2>3. CASE exists' = exists \ {"client"} /\ UNCHANGED excuse
      BY <1>1, <1>2, <2>1, <2>3 DEF TestContainersInv, DockerTypeOK, DockerInv,
         MongoLogInv, Resources, Steps, MongoSteps, AppSteps
  <2>4. CASE UNCHANGED exists /\ Blamed("client", "disconnect")
      BY <1>1, <1>2, <2>1, <2>4 DEF TestContainersInv, Blamed, DockerTypeOK, DockerInv,
         MongoLogInv, Resources, Steps, MongoSteps, AppSteps
  <2> QED
      BY <2>2, <2>3, <2>4
<1>4. CASE MongoTerminated
  <2>1. /\ step = "mongoTerminate" /\ step' = "idle" /\ UNCHANGED <<wanted, mongoLog>>
        /\ held' = held \ {"mongo", "client"}
      BY <1>4 DEF MongoTerminated, At
  <2>2. \/ exists' = exists \ {"mongo"} /\ UNCHANGED excuse
        \/ UNCHANGED exists /\ Blamed("mongo", "terminate")
      BY <1>4, ExcusedBlames DEF MongoTerminated, TestContainersInv, Resources, Reasons
  <2>3. CASE exists' = exists \ {"mongo"} /\ UNCHANGED excuse
      BY <1>1, <1>2, <2>1, <2>3 DEF TestContainersInv, DockerTypeOK, DockerInv,
         MongoLogInv, Resources, Steps, MongoSteps, AppSteps
  <2>4. CASE UNCHANGED exists /\ Blamed("mongo", "terminate")
      BY <1>1, <1>2, <2>1, <2>4 DEF TestContainersInv, Blamed, DockerTypeOK, DockerInv,
         MongoLogInv, Resources, Steps, MongoSteps, AppSteps
  <2> QED
      BY <2>2, <2>3, <2>4
<1> QED
    BY <1>3, <1>4

LEMMA AppFunctions ==
    ASSUME TestContainersInv, AppLookupFails \/ StartStream \/ AppStarted \/ TerminateApp
    PROVE  TestContainersInv'
<1>1. Alive /\ mongoLog' = mongoLog /\ wanted' = wanted
    BY DEF AppLookupFails, StartStream, AppStarted, TerminateApp, At
<1>2. LoggerInv' /\ UNCHANGED <<took, early>>
  <2>1. CASE UNCHANGED loggerVars
      BY <2>1, LoggerStays DEF TestContainersInv, loggerVars
  <2>2. CASE TestLogs(Configured)
      BY <2>2, TestLogsStep, ConfiguredOK DEF TestContainersInv
  <2>3. CASE StartStream
      BY <1>1, <2>3, ToldStep, TestAssumption DEF StartStream, TestContainersInv
  <2> QED
      BY <2>1, <2>2, <2>3 DEF AppLookupFails, AppStarted, TerminateApp
<1>3. CASE AppLookupFails
    BY <1>1, <1>2, <1>3 DEF TestContainersInv, AppLookupFails, Excused, At, DockerTypeOK, DockerInv,
       MongoLogInv, Resources, Reasons, Steps, MongoSteps, AppSteps
<1>4. CASE StartStream
    BY <1>1, <1>2, <1>4 DEF TestContainersInv, StartStream, At, DockerTypeOK, DockerInv,
       MongoLogInv, Steps, MongoSteps, AppSteps
<1>5. CASE AppStarted
    BY <1>1, <1>2, <1>5 DEF TestContainersInv, AppStarted, At, DockerTypeOK, DockerInv,
       MongoLogInv, Resources, Steps, MongoSteps, AppSteps
<1>6. CASE TerminateApp
    BY <1>1, <1>2, <1>6 DEF TestContainersInv, TerminateApp, At, DockerTypeOK, DockerInv,
       MongoLogInv, Resources, Steps, MongoSteps, AppSteps
<1> QED
    BY <1>3, <1>4, <1>5, <1>6

LEMMA StreamSteps ==
    ASSUME TestContainersInv, StreamStep \/ CopyStep \/ LogsEnd
    PROVE  TestContainersInv'
<1>1. Alive /\ UNCHANGED <<exists, held, wanted, excuse, step, mongoLog>>
    BY DEF StreamStep, CopyStep, LogsFail, StartCopy, CloseLogs, CloseChecked, CopyEnds,
           LogsEnd, CopyReturns, CopyChecked, dockerVars
<1>2. Stream \in Goroutines /\ Copy \in Goroutines
    BY TestAssumption
<1>3. ASSUME NEW g \in Goroutines, Looks(g) \/ ErrorLogged(g)
      PROVE  LoggerInv' /\ UNCHANGED <<took, early>>
  <2>1. UNCHANGED loggerVars \/ ErrorLogged(g)
      BY <1>3 DEF Looks
  <2>2. CASE UNCHANGED loggerVars
      BY <2>2, LoggerStays DEF TestContainersInv, loggerVars
  <2>3. CASE ErrorLogged(g)
      BY <1>1, <2>3, LogsStep DEF ErrorLogged, TestContainersInv
  <2> QED
      BY <2>1, <2>2, <2>3
<1>4. ASSUME NEW g \in Goroutines, NEW e \in {Ok, Failed}, Returns(g, e)
      PROVE  LoggerInv' /\ UNCHANGED <<took, early>>
    BY <1>1, <1>4, ErrStep DEF Returns, TestContainersInv
<1>5. LoggerInv' /\ UNCHANGED <<took, early>>
  <2>1. CASE LogsFail \/ CloseChecked
      BY <1>2, <1>3, <2>1 DEF LogsFail, CloseChecked
  <2>2. CASE StartCopy
      BY <1>1, <1>2, <2>2, ToldStep DEF StartCopy, TestContainersInv
  <2>3. CASE CloseLogs
      BY <1>2, <1>4, <2>3 DEF CloseLogs
  <2>4. CASE CopyEnds \/ LogsEnd
      BY <1>2, <1>4, <2>4 DEF CopyEnds, LogsEnd, CopyReturns
  <2>5. CASE CopyChecked
      BY <1>2, <1>3, <2>5 DEF CopyChecked
  <2> QED
      BY <2>1, <2>2, <2>3, <2>4, <2>5 DEF StreamStep, CopyStep
<1> QED
    BY <1>1, <1>5, LogGoroutines

LEMMA AroundSteps ==
    ASSUME TestContainersInv, CtxExpire \/ \E r \in Resources : Ends(r)
    PROVE  TestContainersInv'
<1>1. /\ Alive /\ UNCHANGED <<held, wanted, excuse, step, mongoLog>> /\ exists' \subseteq exists
      /\ UNCHANGED loggerVars
    BY DEF CtxExpire, Ends
<1>2. LoggerInv' /\ UNCHANGED <<took, early>>
    BY <1>1, LoggerStays DEF TestContainersInv, loggerVars
<1> QED
    BY <1>1, <1>2, LogGoroutines

-----------------------------------------------------------------------------
(* The theorems.                                                           *)

LEMMA StartInv == Init => TestContainersInv
<1> SUFFICES ASSUME Init PROVE TestContainersInv
    OBVIOUS
<1> DEFINE first == [v \in Shared |-> CASE v = "loggerType" -> "NoopLogger"
                                        [] v = "loggerData" -> Nowhere
                                        [] OTHER -> Nil]
<1>1. first \in [Shared -> Values] /\ NothingWritten(first)
    BY DEF Init, LoggerInit, Values, Nowhere, Nil
<1>2. /\ MemoryOK(Values)
      /\ \A v \in Shared : Len(mem[v]) = 1 /\ mem[v][1] = first[v]
      /\ \A g \in Goroutines, v \in Shared : known[g][v] = 1
  <2> HIDE DEF first
  <2> QED
      BY <1>1, StartMemory
<1>3. /\ mem["globalLogger"][1] = Nil /\ mem["dynamicLevel"][1] = Nil
      /\ mem["loggerType"][1] = "NoopLogger" /\ mem["loggerData"][1] = Nowhere
      /\ Len(mem["globalLogger"]) = 1 /\ Len(mem["dynamicLevel"]) = 1
      /\ Len(mem["loggerType"]) = 1 /\ Len(mem["loggerData"]) = 1
    BY <1>2, SharedVars
<1>4. LoggerTypeOK
    BY <1>2 DEF Init, LoggerInit, LoggerTypeOK, Loggers
<1>5. LevelInv /\ GlobalInv /\ InitedInv /\ CloserInv
    BY <1>3 DEF Init, LoggerInit, LevelInv, GlobalInv, InitedInv, CloserInv
<1>6. KeptInv /\ PanicHasReason
    BY DEF Init, LoggerInit, KeptInv, PanicHasReason, Nil, Nop, Untaken
<1>7. DockerTypeOK /\ DockerInv /\ MongoLogInv
    BY DEF Init, DockerTypeOK, DockerInv, MongoLogInv, Resources, Reasons, Steps, MongoSteps,
           AppSteps, Loggers, Nil, Nop
<1> QED
    BY <1>4, <1>5, <1>6, <1>7 DEF TestContainersInv, LoggerInv, BaseInv

LEMMA NextStep == TestContainersInv /\ [Next]_vars => TestContainersInv'
<1> SUFFICES ASSUME TestContainersInv, [Next]_vars PROVE TestContainersInv'
    OBVIOUS
<1>1. CASE TestStep
    BY <1>1, NetworkSteps, StartSteps, MongoStartSteps, MongoStopSteps, AppFunctions DEF TestStep
<1>2. CASE StreamStep \/ CopyStep \/ LogsEnd
    BY <1>2, StreamSteps
<1>3. CASE CtxExpire \/ \E r \in Resources : Ends(r)
    BY <1>3, AroundSteps
<1>4. CASE /\ \E g \in Users : (g = Test => step = "idle") /\ LoggerCall(g)
           /\ UNCHANGED testVars
    BY <1>4, LoggerCallInTest
<1>5. CASE \E g \in Users : InitEnds(g) /\ UNCHANGED testVars
    BY <1>5, InitEndsInTest
<1>6. CASE UNCHANGED vars
  <2>1. UNCHANGED loggerVars /\ UNCHANGED <<exists, held, wanted, excuse, step, mongoLog>>
      BY <1>6 DEF vars, testVars, dockerVars
  <2>2. LoggerInv' /\ UNCHANGED <<took, early, panics>>
      BY <2>1, LoggerStays DEF TestContainersInv, loggerVars
  <2> QED
      BY <2>1, <2>2 DEF TestContainersInv, DockerTypeOK, DockerInv, MongoLogInv, Alive, Loggers,
         Nil, Nop
<1> QED
    BY <1>1, <1>2, <1>3, <1>4, <1>5, <1>6 DEF Next

\* The invariant holds with any number of goroutines and calls of the logger,
\* also beside a test.
THEOREM EnvironmentInvariant == Spec => []TestContainersInv
BY StartInv, NextStep, PTL DEF Spec

\* The nil pointer is for those who came before Init only, in every use of the
\* logger that a goroutine past Init can make.
THEOREM LoggerInitedNeverPanics == Spec => []InitedNeverPanics
<1>1. ASSUME TestContainersInv PROVE InitedNeverPanics
  <2>1. /\ \A g \in Goroutines, v \in Shared : known[g][v] \in Nat /\ Len(mem[v]) \in Nat
        /\ {"loggerType", "loggerData"} \subseteq Shared
      BY <1>1, MemoryFacts, SharedVars DEF TestContainersInv, LoggerInv
  <2>2. PanicHasReason
      BY <1>1 DEF TestContainersInv, LoggerInv
  <2> SUFFICES ASSUME NEW g \in Goroutines
               PROVE  /\ g \in inited => <<g, "global">> \notin panics
                      /\ g \notin early \/ took[g] # "New" =>
                            panics \cap {<<g, "kept">>, <<g, "config">>} = {}
                      /\ /\ "closer" \notin early
                         /\ \A v \in {"loggerType", "loggerData"} : known[g][v] = Len(mem[v])
                         => <<g, "closer">> \notin panics
      BY DEF InitedNeverPanics
  <2>3. known[g]["loggerType"] = Len(mem["loggerType"]) => ~(known[g]["loggerType"] < Len(mem["loggerType"]))
      BY <2>1
  <2>4. known[g]["loggerData"] = Len(mem["loggerData"]) => ~(known[g]["loggerData"] < Len(mem["loggerData"]))
      BY <2>1
  <2> QED
      BY <2>2, <2>3, <2>4 DEF PanicHasReason
<1> QED
    BY <1>1, EnvironmentInvariant, PTL

\* There is one AtomicLevel, and who is inited reads it.
THEOREM LoggerOneLevel == Spec => []OneLevel
<1>1. ASSUME TestContainersInv PROVE OneLevel
  <2> SUFFICES ASSUME NEW g \in inited, NEW l \in InUse \ {Nil, Nop, Untaken}
               PROVE  Readable(g, "dynamicLevel") = {l}
      BY DEF OneLevel
  <2>1. BaseInv /\ g \in Goroutines
      BY <1>1 DEF TestContainersInv, LoggerInv, BaseInv, LoggerTypeOK
  <2>2. known[g]["dynamicLevel"] = 2 /\ once = "done"
      BY <2>1 DEF BaseInv, InitedInv
  <2>3. Len(mem["dynamicLevel"]) = 2 /\ mem["dynamicLevel"][2] = 1
      BY <2>1, <2>2 DEF BaseInv, LevelInv
  <2>4. Readable(g, "dynamicLevel") = {1}
      BY <2>2, <2>3 DEF Readable, Window
  <2>5. Len(mem["globalLogger"]) \in Nat \ {0}
      BY <2>1, MemoryFacts, SharedVars
  <2>6. \A i \in 1..Len(mem["globalLogger"]) : mem["globalLogger"][i] \in Loggers
    <3>1. \A i \in 1..Len(mem["globalLogger"]) : i = 1 \/ i \in 2..Len(mem["globalLogger"])
        BY <2>5
    <3> QED
        BY <2>1, <3>1 DEF BaseInv, GlobalInv, Loggers
  <2>7. l \in Loggers \cup {Untaken}
      BY <2>1, <2>6 DEF InUse, BaseInv, LoggerTypeOK
  <2> QED
      BY <2>4, <2>7 DEF Loggers
<1> QED
    BY <1>1, EnvironmentInvariant, PTL

\* With does not fall back to a no-op after Init.
THEOREM LoggerNotSilenced == Spec => []NotSilenced
<1>1. TestContainersInv => NotSilenced
    BY LoggerAssumption DEF TestContainersInv, LoggerInv, KeptInv, NotSilenced
<1> QED
    BY <1>1, EnvironmentInvariant, PTL

-----------------------------------------------------------------------------
(* The logs of the service.                                                *)

\* The goroutine of the logs is started once, by the one start of the service,
\* and not by one that fails; the reader is open only while it is about to close
\* it.
StreamInv ==
    /\ "app" \in wanted => step \notin AppSteps
    /\ "app" \in wanted \/ step = "appLookup" => stream = "off"
    /\ "app" \in wanted \/ step \in AppSteps \/ stream # "off" => excuse["app"] = "none"
    /\ stream \in {"off", "open", "close", "check", "done"}
    /\ stream # "close" => logsOpen = FALSE
    /\ copy # "off" => stream \in {"close", "check", "done"}

\* The goroutine that copies never waits for the container alone: either the one
\* that started it is at its deferred Close, which nothing holds up, or the
\* reader is closed and the copying can end.
CopyingIsCutOff ==
    copy = "copying" =>
        \/ stream = "close"
        \/ stream \in {"check", "done"} /\ logsOpen = FALSE

\* Blaming another resource says nothing of the service.
LEMMA OthersBlamed ==
    ASSUME DockerTypeOK, NEW r \in Resources \ {"app"}, NEW why, Excused(r, why)
    PROVE  excuse'["app"] = excuse["app"]
BY DEF DockerTypeOK, Excused, Resources

LEMMA StreamTestStep ==
    ASSUME DockerTypeOK, StreamInv, TestStep
    PROVE  StreamInv'
<1> USE DEF At, AppSteps, StreamInv
<1>r. {"network", "mongo", "client"} \subseteq Resources \ {"app"}
    BY DEF Resources
<1>1. CASE NewNetwork \/ Remove
    BY <1>1, <1>r, OthersBlamed DEF NewNetwork, Remove, streamVars
<1>2. CASE StartMongo
    BY <1>2, <1>r, OthersBlamed DEF StartMongo, StartContainer, streamVars
<1>3. CASE MongoLookup \/ ConnectFails \/ MongoStarted \/ Cleanup
    BY <1>3, <1>r, OthersBlamed DEF MongoLookup, ConnectFails, MongoStarted, Cleanup, streamVars
<1>4. CASE TerminateMongo \/ MongoTerminated
    BY <1>4, <1>r, OthersBlamed DEF TerminateMongo, MongoTerminated, streamVars
<1>5. CASE StartApp
    BY <1>5 DEF StartApp, StartContainer, streamVars
<1>6. CASE AppLookupFails \/ StartStream
    BY <1>6 DEF AppLookupFails, StartStream, streamVars
<1>7. CASE AppStarted \/ TerminateApp
    BY <1>7 DEF AppStarted, TerminateApp, streamVars
<1> QED
    BY <1>1, <1>2, <1>3, <1>4, <1>5, <1>6, <1>7 DEF TestStep

LEMMA StreamNext == TestContainersInv /\ StreamInv /\ [Next]_vars => StreamInv'
<1> SUFFICES ASSUME TestContainersInv, StreamInv, [Next]_vars PROVE StreamInv'
    OBVIOUS
<1>1. CASE TestStep
    BY <1>1, StreamTestStep DEF TestContainersInv
<1>2. CASE StreamStep
  <2> USE DEF StreamInv, AppSteps, dockerVars
  <2>1. CASE LogsFail
      BY <2>1 DEF LogsFail
  <2>2. CASE StartCopy
      BY <2>2 DEF StartCopy
  <2>3. CASE CloseLogs
      BY <2>3 DEF CloseLogs, Closed
  <2>4. CASE CloseChecked
      BY <2>4 DEF CloseChecked
  <2> QED
      BY <1>2, <2>1, <2>2, <2>3, <2>4 DEF StreamStep
<1>3. CASE CopyStep \/ LogsEnd
    BY <1>3 DEF CopyStep, CopyEnds, LogsEnd, CopyReturns, CopyChecked, StreamInv, dockerVars
<1>4. CASE UNCHANGED <<wanted, step, excuse, streamVars>>
    BY <1>4 DEF StreamInv, streamVars
<1>5. CASE CtxExpire \/ \E r \in Resources : Ends(r)
    BY <1>4, <1>5 DEF CtxExpire, Ends
<1>6. CASE UNCHANGED testVars
    BY <1>4, <1>6 DEF testVars, dockerVars
<1> QED
    BY <1>1, <1>2, <1>3, <1>5, <1>6 DEF Next, vars

LEMMA StreamInvariant == Spec => []StreamInv
<1>1. Init => StreamInv
    BY DEF Init, StreamInv, AppSteps, Resources
<1> QED
    BY <1>1, StreamNext, EnvironmentInvariant, PTL DEF Spec

\* The safety half of CopyingEnds: what is left to it is the fairness of the two
\* goroutines.
THEOREM EnvironmentCopyingIsCutOff == Spec => []CopyingIsCutOff
<1>1. StreamInv => CopyingIsCutOff
    BY DEF StreamInv, CopyingIsCutOff
<1> QED
    BY <1>1, StreamInvariant, PTL

\* What the library leaves behind without a handle has one of the known causes,
\* and a start of the service that failed leaves no goroutine.
THEOREM EnvironmentNothingLeft == Spec => []NothingLeftBehind
<1>1. TestContainersInv /\ StreamInv => NothingLeftBehind
    BY DEF TestContainersInv, DockerTypeOK, DockerInv, StreamInv, NothingLeftBehind, Causes,
           Resources, MongoSteps, AppSteps
<1> QED
    BY <1>1, EnvironmentInvariant, StreamInvariant, PTL
=============================================================================
