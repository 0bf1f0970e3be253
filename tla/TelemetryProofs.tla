-------------------------- MODULE TelemetryProofs --------------------------
(***************************************************************************)
(* Proofs about Telemetry, for any number of goroutines, exporters,        *)
(* failures and shutdowns.                                                 *)
(***************************************************************************)
EXTENDS Telemetry, GoMemoryProofs

-----------------------------------------------------------------------------
(* The inductive invariant.                                                *)

LastE == Latest("exporter")
LastM == Latest("meterProvider")

\* g has been told of the last write.
KnowsE(g) == known[g]["exporter"] = Len(mem["exporter"])
KnowsM(g) == known[g]["meterProvider"] = Len(mem["meterProvider"])

MemInv ==
    /\ MemoryOK(Nat)
    /\ \A v \in Shared : Len(mem[v]) >= 1 /\ \A i \in 1..Len(mem[v]) : mem[v][i] <= made

Initialising == {"tracer", "meter"}
Places == {"idle", "flush", "provider", "exporter", "panic"} \cup Initialising
Results == {"none", "nil", "error"}

TypeInv ==
    /\ made \in Nat
    /\ shut \subseteq 1..made /\ leaked \subseteq 1..made
    /\ replaced \subseteq 1..made /\ stopped \subseteq 1..made
    /\ provider \in 0..made
    /\ at \in [Goroutines -> Places]
    /\ using \in [Goroutines -> 0..made]
    /\ owed \in [Goroutines -> SUBSET (1..made)]
    /\ res \in [Goroutines -> Results]

\* An exporter that is being initialised is nobody else's.
UseInv ==
    /\ \A g \in Goroutines : at[g] \in Initialising =>
         using[g] >= 1 /\ using[g] \notin {provider, LastM} \cup replaced
    /\ \A g, h \in Goroutines :
         (at[g] \in Initialising /\ at[h] \in Initialising /\ using[g] = using[h]) => g = h
    /\ \A g \in Goroutines : at[g] = "tracer" => using[g] # LastE
    /\ LastE # Nil => LastE \notin {provider} \cup replaced
    /\ \A g \in Goroutines : at[g] = "flush" => using[g] \in stopped

\* One goroutine at a time is in InitProvider, and it reads its own exporter.
MeterInv ==
    \A g \in Goroutines : at[g] = "meter" =>
        /\ KnowsE(g) /\ LastE = using[g]
        /\ \A h \in Goroutines : at[h] = "meter" => h = g

\* What a call still has to stop.
OwedInv ==
    \A g \in Goroutines :
        /\ at[g] \in Initialising => owed[g] = {}
        /\ at[g] = "flush" => owed[g] \subseteq stopped
        /\ at[g] = "provider" => \A p \in owed[g] : p \in replaced \/ (p = LastM /\ KnowsM(g))
        /\ at[g] = "exporter" => owed[g] \subseteq shut \cup replaced

\* Whoever knows of the last provider knows of its exporter, or has found the
\* provider by chance and is about to shut it down.
KnownInv ==
    \A g \in Goroutines :
        (KnowsM(g) /\ LastM = LastE /\ LastE \notin shut \cup {Nil}) =>
            KnowsE(g) \/ (at[g] = "provider" /\ LastE \notin owed[g])

TwiceInv ==
    \A g \in Goroutines :
        (at[g] = "exporter" /\ LastE \in owed[g] \ stopped) => KnowsE(g) /\ LastE \in shut

\* Nobody who knows of the last exporter has seen it vanish.
PanicInv ==
    \A g \in Goroutines : at[g] = "panic" => ~KnowsE(g)

\* The two properties.
AccountedInv ==
    \A e \in 1..made \ shut :
        \/ e \in {provider, LastM} \cup stopped \cup leaked \cup replaced
        \/ \E g \in Goroutines : at[g] \in Initialising /\ using[g] = e

StopsInv ==
    \A g \in Goroutines :
        /\ at[g] \in {"idle", "panic"} => owed[g] \subseteq shut \cup stopped \cup replaced
        /\ at[g] = "idle" /\ res[g] = "nil" => LastE \notin owed[g] \ stopped

TelemetryInv ==
    /\ MemInv /\ TypeInv
    /\ UseInv /\ MeterInv /\ OwedInv /\ KnownInv /\ TwiceInv /\ PanicInv
    /\ AccountedInv /\ StopsInv

-----------------------------------------------------------------------------
(* What the steps of memory do to the last values.                         *)

LEMMA SharedVars == {"exporter", "meterProvider"} = Shared
BY TelemetryAssumption

LEMMA LastInRange ==
    ASSUME MemInv
    PROVE  /\ LastE \in Nat /\ LastE <= made
           /\ LastM \in Nat /\ LastM <= made
<1>1. \A v \in Shared : mem[v] \in Seq(Nat) /\ Len(mem[v]) \in 1..Len(mem[v])
    BY DEF MemInv, MemoryOK
<1>2. \A v \in Shared : mem[v][Len(mem[v])] \in Nat /\ mem[v][Len(mem[v])] <= made
    BY <1>1 DEF MemInv
<1> QED
    BY <1>2, SharedVars DEF LastE, LastM, Latest

LEMMA ReadInRange ==
    ASSUME MemInv, NEW g \in Goroutines, NEW v \in Shared, NEW i \in Window(g, v)
    PROVE  /\ i \in 1..Len(mem[v]) /\ mem[v][i] \in Nat /\ mem[v][i] <= made
           /\ known[g][v] = Len(mem[v]) => i = Len(mem[v])
BY DEF MemInv, MemoryOK, Window

LEMMA WriteE ==
    ASSUME MemInv, NEW g \in Goroutines, NEW x \in Nat, Write(g, "exporter", x),
           made' \in Nat, made' >= made, x <= made', made \in Nat
    PROVE  /\ MemInv' /\ LastE' = x /\ LastM' = LastM /\ KnowsE(g)'
           /\ \A h \in Goroutines : KnowsM(h)' = KnowsM(h)
           /\ \A h \in Goroutines \ {g} : ~KnowsE(h)'
<1> DEFINE v == "exporter"
<1>1. v \in Shared /\ "meterProvider" \in Shared /\ "meterProvider" # v
    BY SharedVars
<1>2. /\ MemoryOK(Nat)' /\ Len(mem'[v]) = Len(mem[v]) + 1
      /\ mem'[v][Len(mem[v]) + 1] = x
      /\ \A i \in 1..Len(mem[v]) : mem'[v][i] = mem[v][i]
      /\ \A w \in Shared \ {v} : mem'[w] = mem[w]
      /\ known'[g][v] = Len(mem[v]) + 1
      /\ \A h \in Goroutines, w \in Shared : (h # g \/ w # v) => known'[h][w] = known[h][w]
    BY <1>1, WriteEffect DEF MemInv
<1>m. mem' \in [Shared -> Seq(Nat)] /\ mem \in [Shared -> Seq(Nat)]
    BY <1>2 DEF MemInv, MemoryOK
<1>3. \A w \in Shared : Len(mem'[w]) \in Nat /\ Len(mem[w]) \in Nat
                        /\ \A i \in 1..Len(mem[w]) : mem[w][i] \in Nat
    BY <1>m
<1>k. \A h \in Goroutines \ {g} : ~KnowsE(h)'
  <2> SUFFICES ASSUME NEW h \in Goroutines \ {g} PROVE known'[h][v] # Len(mem'[v])
      BY DEF KnowsE
  <2> QED
      BY <1>1, <1>2, <1>3 DEF MemInv, MemoryOK
<1>4. MemInv'
  <2>1. \A w \in Shared : Len(mem'[w]) >= 1
      BY <1>2, <1>3 DEF MemInv
  <2>2. ASSUME NEW w \in Shared, NEW i \in 1..Len(mem'[w]) PROVE mem'[w][i] <= made'
    <3>1. CASE w = v /\ i = Len(mem[v]) + 1
        BY <1>2, <3>1
    <3>2. CASE w = v /\ i # Len(mem[v]) + 1
      <4>1. i \in 1..Len(mem[v])
          BY <1>1, <1>2, <1>3, <2>2, <3>2
      <4>2. mem'[w][i] = mem[v][i] /\ mem[v][i] <= made /\ mem[v][i] \in Nat
          BY <1>1, <1>2, <1>3, <4>1, <3>2 DEF MemInv
      <4> QED
          BY <4>2
    <3>3. CASE w # v
      <4>1. mem'[w][i] = mem[w][i] /\ mem[w][i] <= made /\ mem[w][i] \in Nat
          BY <1>2, <1>3, <2>2, <3>3 DEF MemInv
      <4> QED
          BY <4>1
    <3> QED
        BY <3>1, <3>2, <3>3
  <2> QED
      BY <1>2, <2>1, <2>2 DEF MemInv
<1> QED
    BY <1>1, <1>2, <1>4, <1>k DEF LastE, LastM, Latest, KnowsE, KnowsM

LEMMA WriteM ==
    ASSUME MemInv, NEW g \in Goroutines, NEW x \in Nat, Write(g, "meterProvider", x),
           UNCHANGED made, x <= made
    PROVE  /\ MemInv' /\ LastM' = x /\ LastE' = LastE
           /\ \A h \in Goroutines : KnowsE(h)' = KnowsE(h)
           /\ \A h \in Goroutines \ {g} : ~KnowsM(h)'
<1> DEFINE v == "meterProvider"
<1>1. v \in Shared /\ "exporter" \in Shared /\ "exporter" # v
    BY SharedVars
<1>2. /\ MemoryOK(Nat)' /\ Len(mem'[v]) = Len(mem[v]) + 1
      /\ mem'[v][Len(mem[v]) + 1] = x
      /\ \A i \in 1..Len(mem[v]) : mem'[v][i] = mem[v][i]
      /\ \A w \in Shared \ {v} : mem'[w] = mem[w]
      /\ known'[g][v] = Len(mem[v]) + 1
      /\ \A h \in Goroutines, w \in Shared : (h # g \/ w # v) => known'[h][w] = known[h][w]
    BY <1>1, WriteEffect DEF MemInv
<1>m. mem' \in [Shared -> Seq(Nat)] /\ mem \in [Shared -> Seq(Nat)]
    BY <1>2 DEF MemInv, MemoryOK
<1>3. \A w \in Shared : Len(mem'[w]) \in Nat /\ Len(mem[w]) \in Nat
                        /\ \A h \in Goroutines : known[h][w] <= Len(mem[w]) /\ known[h][w] \in Nat
    BY <1>m DEF MemInv, MemoryOK
<1>4. MemInv'
  <2>1. \A w \in Shared : Len(mem'[w]) >= 1
      BY <1>2, <1>3 DEF MemInv
  <2>2. ASSUME NEW w \in Shared, NEW i \in 1..Len(mem'[w]) PROVE mem'[w][i] <= made'
    <3>1. CASE w = v /\ i = Len(mem[v]) + 1
        BY <1>2, <3>1
    <3>2. CASE w = v /\ i # Len(mem[v]) + 1
      <4>1. i \in 1..Len(mem[v])
          BY <1>1, <1>2, <1>3, <2>2, <3>2
      <4>2. mem'[w][i] = mem[v][i] /\ mem[v][i] <= made /\ made' = made
          BY <1>1, <1>2, <1>3, <4>1, <3>2 DEF MemInv
      <4> QED
          BY <4>2
    <3>3. CASE w # v
      <4>1. mem'[w][i] = mem[w][i] /\ mem[w][i] <= made /\ made' = made
          BY <1>2, <1>3, <2>2, <3>3 DEF MemInv
      <4> QED
          BY <4>1
    <3> QED
        BY <3>1, <3>2, <3>3
  <2> QED
      BY <1>2, <2>1, <2>2 DEF MemInv
<1>5. \A h \in Goroutines \ {g} : ~KnowsM(h)'
  <2> SUFFICES ASSUME NEW h \in Goroutines \ {g} PROVE known'[h][v] # Len(mem'[v])
      BY DEF KnowsM
  <2> QED
      BY <1>1, <1>2, <1>3
<1> QED
    BY <1>1, <1>2, <1>4, <1>5 DEF LastE, LastM, Latest, KnowsE, KnowsM

\* g reads at least as far as it knows.
LEMMA ReadBoth ==
    ASSUME MemInv, NEW g \in Goroutines, NEW i, NEW j, Reads(g, i, j), UNCHANGED <<mem, made>>
    PROVE  /\ MemInv' /\ LastE' = LastE /\ LastM' = LastM
           /\ KnowsE(g) => KnowsE(g)'
           /\ KnowsM(g)' => mem["meterProvider"][i] = LastM
           /\ KnowsM(g) => KnowsM(g)'
           /\ \A h \in Goroutines \ {g} : KnowsE(h)' = KnowsE(h) /\ KnowsM(h)' = KnowsM(h)
<1>1. /\ i \in known[g]["meterProvider"]..Len(mem["meterProvider"])
      /\ j \in known[g]["exporter"]..Len(mem["exporter"])
      /\ known' = [known EXCEPT ![g]["meterProvider"] = i, ![g]["exporter"] = j]
    BY DEF Reads, Window
<1>2. /\ known \in [Goroutines -> [Shared -> Nat]]
      /\ \A v \in Shared : known[g][v] \in 1..Len(mem[v]) /\ Len(mem[v]) \in Nat
      /\ "exporter" \in Shared /\ "meterProvider" \in Shared
    BY SharedVars DEF MemInv, MemoryOK
<1>3. i \in 1..Len(mem["meterProvider"]) /\ j \in 1..Len(mem["exporter"])
    BY <1>1, <1>2
<1>4. /\ known' \in [Goroutines -> [Shared -> Nat]]
      /\ known'[g]["meterProvider"] = i /\ known'[g]["exporter"] = j
      /\ \A h \in Goroutines \ {g} : known'[h] = known[h]
    BY <1>1, <1>2, <1>3
<1>5. MemInv'
  <2>1. \A h \in Goroutines, v \in Shared : known'[h][v] \in 1..Len(mem[v])
      BY <1>3, <1>4, SharedVars DEF MemInv, MemoryOK
  <2> QED
      BY <1>4, <2>1 DEF MemInv, MemoryOK
<1> QED
    BY <1>1, <1>2, <1>4, <1>5 DEF LastE, LastM, Latest, KnowsE, KnowsM

\* g reads one of the variables.
LEMMA ReadOne ==
    ASSUME MemInv, NEW g \in Goroutines, NEW v \in Shared, NEW i \in Window(g, v),
           Knows(g, v, i), UNCHANGED <<mem, made>>
    PROVE  /\ MemInv' /\ LastE' = LastE /\ LastM' = LastM
           /\ KnowsE(g) => KnowsE(g)' /\ (v = "exporter" => mem[v][i] = LastE)
           /\ KnowsM(g) => KnowsM(g)' /\ (v = "meterProvider" => mem[v][i] = LastM)
           /\ v = "meterProvider" => KnowsE(g)' = KnowsE(g)
           /\ v = "exporter" => KnowsM(g)' = KnowsM(g)
           /\ (v = "meterProvider" /\ KnowsM(g)') => mem[v][i] = LastM
           /\ \A h \in Goroutines \ {g} : KnowsE(h)' = KnowsE(h) /\ KnowsM(h)' = KnowsM(h)
<1>1. i \in 1..Len(mem[v]) /\ (known[g][v] = Len(mem[v]) => i = Len(mem[v]))
    BY ReadInRange
<1>2. /\ MemoryOK(Nat)' /\ known'[g][v] = i
      /\ \A h \in Goroutines, w \in Shared : (h # g \/ w # v) => known'[h][w] = known[h][w]
    BY <1>1, KnowsEffect DEF MemInv
<1>3. MemInv'
    BY <1>2 DEF MemInv
<1>4. "exporter" \in Shared /\ "meterProvider" \in Shared /\ "exporter" # "meterProvider"
    BY SharedVars
<1> QED
    BY <1>1, <1>2, <1>3, <1>4 DEF LastE, LastM, Latest, KnowsE, KnowsM

LEMMA TellBoth ==
    ASSUME MemInv, NEW g \in Goroutines, NEW h \in Goroutines, Learn(h, known[g]),
           UNCHANGED <<mem, made>>
    PROVE  /\ MemInv' /\ LastE' = LastE /\ LastM' = LastM
           /\ KnowsE(h)' <=> KnowsE(h) \/ KnowsE(g)
           /\ KnowsM(h)' <=> KnowsM(h) \/ KnowsM(g)
           /\ \A k \in Goroutines \ {h} : KnowsE(k)' = KnowsE(k) /\ KnowsM(k)' = KnowsM(k)
<1>1. /\ known \in [Goroutines -> [Shared -> Nat]]
      /\ \A k \in Goroutines, v \in Shared : known[k][v] \in 1..Len(mem[v]) /\ Len(mem[v]) \in Nat
    BY DEF MemInv, MemoryOK
<1>2. known' = [known EXCEPT ![h] =
                  [v \in Shared |-> IF known[g][v] > known[h][v] THEN known[g][v] ELSE known[h][v]]]
    BY DEF Learn
<1>3. /\ known' \in [Goroutines -> [Shared -> Nat]]
      /\ \A v \in Shared :
           known'[h][v] = IF known[g][v] > known[h][v] THEN known[g][v] ELSE known[h][v]
      /\ \A k \in Goroutines \ {h} : known'[k] = known[k]
    BY <1>1, <1>2
<1>4. \A k \in Goroutines, v \in Shared : known'[k][v] \in 1..Len(mem[v])
    BY <1>1, <1>3
<1>5. MemInv'
    BY <1>3, <1>4 DEF MemInv, MemoryOK
<1>6. "exporter" \in Shared /\ "meterProvider" \in Shared
    BY SharedVars
<1> QED
    BY <1>1, <1>3, <1>5, <1>6 DEF LastE, LastM, Latest, KnowsE, KnowsM

LEMMA MemFrame ==
    ASSUME UNCHANGED <<mem, known>>
    PROVE  /\ LastE' = LastE /\ LastM' = LastM
           /\ \A g \in Goroutines : KnowsE(g)' = KnowsE(g) /\ KnowsM(g)' = KnowsM(g)
BY DEF LastE, LastM, Latest, KnowsE, KnowsM

\* More exporters change nothing about what is in memory.
LEMMA MoreMade ==
    ASSUME MemInv, UNCHANGED <<mem, known>>, made \in Nat, made' \in Nat, made' >= made
    PROVE  MemInv'
<1>1. mem \in [Shared -> Seq(Nat)] /\ MemoryOK(Nat)'
    BY DEF MemInv, MemoryOK
<1>2. \A v \in Shared : \A i \in 1..Len(mem[v]) : mem[v][i] \in Nat
    BY <1>1
<1> QED
    BY <1>1, <1>2 DEF MemInv

\* Whoever knows of the last write reads it.
LEMMA ReadLast ==
    ASSUME MemInv, NEW g \in Goroutines, KnowsE(g), NEW e \in Readable(g, "exporter")
    PROVE  e = LastE
BY SharedVars, ReadInRange DEF Readable, KnowsE, LastE, Latest

-----------------------------------------------------------------------------
(* InitTracer.                                                             *)

LEMMA TracerExporterStep ==
    ASSUME TelemetryInv, NEW g \in Goroutines, TracerExporter(g)
    PROVE  TelemetryInv'
<1>1. LastE \in Nat /\ LastE <= made /\ LastM \in Nat /\ LastM <= made /\ made \in Nat
    BY LastInRange DEF TelemetryInv, TypeInv
<1>2. /\ at[g] = "idle" /\ at'[g] = "tracer" /\ using'[g] = made + 1 /\ owed'[g] = {}
      /\ res' = res /\ made' = made + 1
      /\ \A h \in Goroutines \ {g} : at'[h] = at[h] /\ using'[h] = using[h]
           /\ owed'[h] = owed[h] /\ res'[h] = res[h]
    BY DEF TelemetryInv, TypeInv, TracerExporter, Made, Goto
<1>3. /\ MemInv' /\ LastE' = LastE /\ LastM' = LastM
      /\ \A h \in Goroutines : KnowsE(h)' = KnowsE(h) /\ KnowsM(h)' = KnowsM(h)
    BY <1>1, <1>2, MemFrame, MoreMade DEF TelemetryInv, TracerExporter
<1>4. TypeInv'
    BY <1>1, <1>2, <1>3 DEF TelemetryInv, TypeInv, TracerExporter, Initialising, Nil, Places, Results, Made, Goto
<1>5. UseInv'
    BY <1>1, <1>2, <1>3 DEF TelemetryInv, UseInv, TypeInv, TracerExporter, Initialising
<1>6. MeterInv'
    BY <1>1, <1>2, <1>3 DEF TelemetryInv, MeterInv, TracerExporter
<1>7. OwedInv'
    BY <1>1, <1>2, <1>3 DEF TelemetryInv, OwedInv, TracerExporter, Initialising
<1>8. KnownInv'
    BY <1>1, <1>2, <1>3 DEF TelemetryInv, KnownInv, TracerExporter, Nil
<1>9. TwiceInv'
    BY <1>1, <1>2, <1>3 DEF TelemetryInv, TwiceInv, TracerExporter
<1>10. AccountedInv'
    BY <1>1, <1>2, <1>3 DEF TelemetryInv, AccountedInv, TypeInv, TracerExporter, Initialising, Nil
<1>11. StopsInv'
    BY <1>1, <1>2, <1>3 DEF TelemetryInv, StopsInv, OwedInv, Initialising, TracerExporter
<1>12. PanicInv'
    BY <1>1, <1>2, <1>3 DEF TelemetryInv, PanicInv
<1> QED
    BY <1>2, <1>3, <1>4, <1>5, <1>6, <1>7, <1>8, <1>9, <1>10, <1>11, <1>12 DEF TelemetryInv

LEMMA ResourceFailsStep ==
    ASSUME TelemetryInv, NEW g \in Goroutines, ResourceFails(g)
    PROVE  TelemetryInv'
<1>1. LastE \in Nat /\ LastE <= made /\ LastM \in Nat /\ LastM <= made /\ made \in Nat
    BY LastInRange DEF TelemetryInv, TypeInv
<1>2. /\ at[g] = "tracer" /\ at'[g] = "idle" /\ res'[g] = "error" /\ using[g] \in 1..made
      /\ UNCHANGED <<using, owed, made>> /\ leaked' = leaked \cup {using[g]}
      /\ \A h \in Goroutines \ {g} : at'[h] = at[h] /\ using'[h] = using[h]
           /\ owed'[h] = owed[h] /\ res'[h] = res[h]
    BY <1>1 DEF TelemetryInv, TypeInv, UseInv, Initialising, ResourceFails, Returns, Goto
<1>3. /\ MemInv' /\ LastE' = LastE /\ LastM' = LastM
      /\ \A h \in Goroutines : KnowsE(h)' = KnowsE(h) /\ KnowsM(h)' = KnowsM(h)
    BY <1>1, <1>2, MemFrame, MoreMade DEF TelemetryInv, ResourceFails
<1>4. TypeInv'
    BY <1>1, <1>2, <1>3 DEF TelemetryInv, TypeInv, ResourceFails, Initialising, Nil, Places, Results, Returns, Goto
<1>5. UseInv'
    BY <1>1, <1>2, <1>3 DEF TelemetryInv, UseInv, TypeInv, ResourceFails, Initialising
<1>6. MeterInv'
    BY <1>1, <1>2, <1>3 DEF TelemetryInv, MeterInv, ResourceFails
<1>7. OwedInv'
    BY <1>1, <1>2, <1>3 DEF TelemetryInv, OwedInv, ResourceFails, Initialising
<1>8. KnownInv'
    BY <1>1, <1>2, <1>3 DEF TelemetryInv, KnownInv, ResourceFails, Nil
<1>9. TwiceInv'
    BY <1>1, <1>2, <1>3 DEF TelemetryInv, TwiceInv, ResourceFails
<1>10. AccountedInv'
    BY <1>1, <1>2, <1>3 DEF TelemetryInv, AccountedInv, TypeInv, ResourceFails, Initialising, Nil
<1>11. StopsInv'
    BY <1>1, <1>2, <1>3 DEF TelemetryInv, StopsInv, OwedInv, Initialising, ResourceFails
<1>12. PanicInv'
    BY <1>1, <1>2, <1>3 DEF TelemetryInv, PanicInv
<1> QED
    BY <1>2, <1>3, <1>4, <1>5, <1>6, <1>7, <1>8, <1>9, <1>10, <1>11, <1>12 DEF TelemetryInv

LEMMA TracerInstalledStep ==
    ASSUME TelemetryInv, NEW g \in Goroutines, TracerInstalled(g)
    PROVE  TelemetryInv'
<1>1. LastE \in Nat /\ LastE <= made /\ LastM \in Nat /\ LastM <= made /\ made \in Nat
    BY LastInRange DEF TelemetryInv, TypeInv
<1>2. /\ at[g] = "tracer" /\ at'[g] = "idle" /\ res'[g] = "nil" /\ using[g] \in 1..made
      /\ UNCHANGED <<using, owed, made>> /\ provider' = using[g]
      /\ replaced' = replaced \cup ({provider} \ {Nil})
      /\ \A h \in Goroutines \ {g} : at'[h] = at[h] /\ using'[h] = using[h]
           /\ owed'[h] = owed[h] /\ res'[h] = res[h]
    BY <1>1 DEF TelemetryInv, TypeInv, UseInv, Initialising, TracerInstalled, Returns, Goto, Replaces
<1>3. /\ MemInv' /\ LastE' = LastE /\ LastM' = LastM
      /\ \A h \in Goroutines : KnowsE(h)' = KnowsE(h) /\ KnowsM(h)' = KnowsM(h)
    BY <1>1, <1>2, MemFrame, MoreMade DEF TelemetryInv, TracerInstalled
<1>4. TypeInv'
    BY <1>1, <1>2, <1>3 DEF TelemetryInv, TypeInv, TracerInstalled, Initialising, Nil, Places, Results, Returns, Goto
<1>5. UseInv'
    BY <1>1, <1>2, <1>3 DEF TelemetryInv, UseInv, TypeInv, TracerInstalled, Initialising
<1>6. MeterInv'
    BY <1>1, <1>2, <1>3 DEF TelemetryInv, MeterInv, TracerInstalled
<1>7. OwedInv'
    BY <1>1, <1>2, <1>3 DEF TelemetryInv, OwedInv, TracerInstalled, Initialising
<1>8. KnownInv'
    BY <1>1, <1>2, <1>3 DEF TelemetryInv, KnownInv, TracerInstalled, Nil
<1>9. TwiceInv'
    BY <1>1, <1>2, <1>3 DEF TelemetryInv, TwiceInv, TracerInstalled
<1>10. AccountedInv'
    BY <1>1, <1>2, <1>3 DEF TelemetryInv, AccountedInv, TypeInv, TracerInstalled, Initialising, Nil
<1>11. StopsInv'
    BY <1>1, <1>2, <1>3 DEF TelemetryInv, StopsInv, OwedInv, Initialising, TracerInstalled
<1>12. PanicInv'
    BY <1>1, <1>2, <1>3 DEF TelemetryInv, PanicInv
<1> QED
    BY <1>2, <1>3, <1>4, <1>5, <1>6, <1>7, <1>8, <1>9, <1>10, <1>11, <1>12 DEF TelemetryInv

-----------------------------------------------------------------------------
(* InitProvider.                                                           *)

LEMMA MeterExporterStep ==
    ASSUME TelemetryInv, NEW g \in Goroutines, MeterExporter(g)
    PROVE  TelemetryInv'
<1>1. LastE \in Nat /\ LastE <= made /\ LastM \in Nat /\ LastM <= made /\ made \in Nat
    BY LastInRange DEF TelemetryInv, TypeInv
<1>2. /\ at[g] = "idle" /\ at'[g] = "meter" /\ using'[g] = made + 1 /\ owed'[g] = {}
      /\ res' = res /\ made' = made + 1
      /\ \A h \in Goroutines : at[h] # "meter"
      /\ \A h \in Goroutines \ {g} : at'[h] = at[h] /\ using'[h] = using[h]
           /\ owed'[h] = owed[h] /\ res'[h] = res[h]
    BY DEF TelemetryInv, TypeInv, MeterExporter, Made, Goto, NoMeterInit
<1>3. /\ MemInv' /\ LastE' = made + 1 /\ LastM' = LastM /\ KnowsE(g)'
      /\ \A h \in Goroutines : KnowsM(h)' = KnowsM(h)
      /\ \A h \in Goroutines \ {g} : ~KnowsE(h)'
    BY <1>1, <1>2, WriteE DEF TelemetryInv, MeterExporter
<1>4. TypeInv'
    BY <1>1, <1>2, <1>3 DEF TelemetryInv, TypeInv, MeterExporter, Initialising, Nil, Places, Results, Made, Goto
<1>5. UseInv'
    BY <1>1, <1>2, <1>3 DEF TelemetryInv, UseInv, TypeInv, MeterExporter, Initialising
<1>6. MeterInv'
    BY <1>1, <1>2, <1>3 DEF TelemetryInv, MeterInv, MeterExporter
<1>7. OwedInv'
    BY <1>1, <1>2, <1>3 DEF TelemetryInv, OwedInv, MeterExporter, Initialising
<1>8. KnownInv'
    BY <1>1, <1>2, <1>3 DEF TelemetryInv, KnownInv, MeterExporter, Nil
<1>9. TwiceInv'
    BY <1>1, <1>2, <1>3 DEF TelemetryInv, TwiceInv, MeterExporter, TypeInv
<1>10. AccountedInv'
    BY <1>1, <1>2, <1>3 DEF TelemetryInv, AccountedInv, TypeInv, MeterExporter, Initialising, Nil
<1>11. StopsInv'
    BY <1>1, <1>2, <1>3 DEF TelemetryInv, StopsInv, OwedInv, Initialising, MeterExporter, TypeInv
<1>12. PanicInv'
    BY <1>1, <1>2, <1>3 DEF TelemetryInv, PanicInv
<1> QED
    BY <1>2, <1>3, <1>4, <1>5, <1>6, <1>7, <1>8, <1>9, <1>10, <1>11, <1>12 DEF TelemetryInv

LEMMA MeterExporterFailsStep ==
    ASSUME TelemetryInv, NEW g \in Goroutines, MeterExporterFails(g)
    PROVE  TelemetryInv'
<1>1. LastE \in Nat /\ LastE <= made /\ LastM \in Nat /\ LastM <= made /\ made \in Nat
    BY LastInRange DEF TelemetryInv, TypeInv
<1>2. /\ at[g] = "idle" /\ at'[g] = "idle" /\ owed'[g] = {} /\ res'[g] = "error"
      /\ UNCHANGED <<using, made>>
      /\ \A h \in Goroutines : at[h] # "meter"
      /\ \A h \in Goroutines \ {g} : at'[h] = at[h] /\ using'[h] = using[h]
           /\ owed'[h] = owed[h] /\ res'[h] = res[h]
    BY DEF TelemetryInv, TypeInv, MeterExporterFails, Returns, Goto, NoMeterInit
<1>3. /\ MemInv' /\ LastE' = Nil /\ LastM' = LastM /\ KnowsE(g)'
      /\ \A h \in Goroutines : KnowsM(h)' = KnowsM(h)
      /\ \A h \in Goroutines \ {g} : ~KnowsE(h)'
    BY <1>1, <1>2, WriteE DEF TelemetryInv, MeterExporterFails, Nil
<1>4. TypeInv'
    BY <1>1, <1>2, <1>3 DEF TelemetryInv, TypeInv, MeterExporterFails, Initialising, Nil, Places, Results, Returns, Goto
<1>5. UseInv'
    BY <1>1, <1>2, <1>3 DEF TelemetryInv, UseInv, TypeInv, MeterExporterFails, Initialising, Nil
<1>6. MeterInv'
    BY <1>1, <1>2, <1>3 DEF TelemetryInv, MeterInv, MeterExporterFails
<1>7. OwedInv'
    BY <1>1, <1>2, <1>3 DEF TelemetryInv, OwedInv, MeterExporterFails, Initialising
<1>8. KnownInv'
    BY <1>1, <1>2, <1>3 DEF TelemetryInv, KnownInv, MeterExporterFails, Nil
<1>9. TwiceInv'
    BY <1>1, <1>2, <1>3 DEF TelemetryInv, TwiceInv, MeterExporterFails, TypeInv, Nil
<1>10. AccountedInv'
    BY <1>1, <1>2, <1>3 DEF TelemetryInv, AccountedInv, TypeInv, MeterExporterFails, Initialising, Nil
<1>11. StopsInv'
    BY <1>1, <1>2, <1>3 DEF TelemetryInv, StopsInv, OwedInv, Initialising, MeterExporterFails, TypeInv, Nil
<1>12. PanicInv'
    BY <1>1, <1>2, <1>3 DEF TelemetryInv, PanicInv
<1> QED
    BY <1>2, <1>3, <1>4, <1>5, <1>6, <1>7, <1>8, <1>9, <1>10, <1>11, <1>12 DEF TelemetryInv

LEMMA MeterInstalledStep ==
    ASSUME TelemetryInv, NEW g \in Goroutines, MeterInstalled(g)
    PROVE  TelemetryInv'
<1>1. LastE \in Nat /\ LastE <= made /\ LastM \in Nat /\ LastM <= made /\ made \in Nat
    BY LastInRange DEF TelemetryInv, TypeInv
<1>2. /\ at[g] = "meter" /\ at'[g] = "idle" /\ res'[g] = "nil" /\ LastE = using[g] /\ using[g] \in 1..made
      /\ UNCHANGED <<using, owed, made>>
      /\ replaced' = replaced \cup ({LastM} \ {Nil})
      /\ KnowsE(g)
      /\ \A h \in Goroutines \ {g} : at'[h] = at[h] /\ using'[h] = using[h]
           /\ owed'[h] = owed[h] /\ res'[h] = res[h]
    BY <1>1 DEF TelemetryInv, TypeInv, UseInv, MeterInv, Initialising, MeterInstalled, Returns, Goto, Replaces, LastM
<1>3. /\ MemInv' /\ LastM' = using[g] /\ LastE' = LastE
      /\ \A h \in Goroutines : KnowsE(h)' = KnowsE(h)
      /\ \A h \in Goroutines \ {g} : ~KnowsM(h)'
    BY <1>1, <1>2, ReadLast, WriteM DEF TelemetryInv, MeterInstalled
<1>4. TypeInv'
    BY <1>1, <1>2, <1>3 DEF TelemetryInv, TypeInv, MeterInstalled, Initialising, Nil, Places, Results, Returns, Goto
<1>5. UseInv'
    BY <1>1, <1>2, <1>3 DEF TelemetryInv, UseInv, TypeInv, MeterInstalled, Initialising
<1>6. MeterInv'
    BY <1>1, <1>2, <1>3 DEF TelemetryInv, MeterInv, MeterInstalled
<1>7. OwedInv'
    BY <1>1, <1>2, <1>3 DEF TelemetryInv, OwedInv, MeterInstalled, Initialising, TypeInv, Nil
<1>8. KnownInv'
    BY <1>1, <1>2, <1>3 DEF TelemetryInv, KnownInv, MeterInstalled, Nil
<1>9. TwiceInv'
    BY <1>1, <1>2, <1>3 DEF TelemetryInv, TwiceInv, MeterInstalled
<1>10. AccountedInv'
    BY <1>1, <1>2, <1>3 DEF TelemetryInv, AccountedInv, TypeInv, MeterInstalled, Initialising, Nil
<1>11. StopsInv'
    BY <1>1, <1>2, <1>3 DEF TelemetryInv, StopsInv, OwedInv, Initialising, MeterInstalled
<1>12. PanicInv'
    BY <1>1, <1>2, <1>3 DEF TelemetryInv, PanicInv
<1> QED
    BY <1>2, <1>3, <1>4, <1>5, <1>6, <1>7, <1>8, <1>9, <1>10, <1>11, <1>12 DEF TelemetryInv

-----------------------------------------------------------------------------
(* ShutdownTracer.                                                         *)

LEMMA ShutdownTracerStep ==
    ASSUME TelemetryInv, NEW g \in Goroutines, ShutdownTracer(g)
    PROVE  TelemetryInv'
<1>1. LastE \in Nat /\ LastE <= made /\ LastM \in Nat /\ LastM <= made /\ made \in Nat
    BY LastInRange DEF TelemetryInv, TypeInv
<1>2. /\ at[g] = "idle" /\ made' = made /\ owed'[g] = {provider} \ {Nil}
      /\ \/ /\ at'[g] = "idle" /\ res'[g] = "nil" /\ UNCHANGED <<stopped, using>>
            /\ provider \in {Nil} \cup stopped
         \/ /\ at'[g] = "flush" /\ using'[g] = provider /\ provider \in 1..made
            /\ res'[g] = res[g] /\ stopped' = stopped \cup {provider}
      /\ \A h \in Goroutines \ {g} : at'[h] = at[h] /\ using'[h] = using[h]
           /\ owed'[h] = owed[h] /\ res'[h] = res[h]
    BY <1>1 DEF TelemetryInv, TypeInv, ShutdownTracer, Called, Returns, Goto, Nil
<1>3. /\ MemInv' /\ LastE' = LastE /\ LastM' = LastM
      /\ \A h \in Goroutines : KnowsE(h)' = KnowsE(h) /\ KnowsM(h)' = KnowsM(h)
    BY <1>1, <1>2, MemFrame, MoreMade DEF TelemetryInv, ShutdownTracer
<1>4. TypeInv'
    BY <1>1, <1>2, <1>3 DEF TelemetryInv, TypeInv, ShutdownTracer, Initialising, Nil, Places, Results, Called, Returns, Goto
<1>5. UseInv'
    BY <1>1, <1>2, <1>3 DEF TelemetryInv, UseInv, TypeInv, ShutdownTracer, Initialising
<1>6. MeterInv'
    BY <1>1, <1>2, <1>3 DEF TelemetryInv, MeterInv, ShutdownTracer
<1>7. OwedInv'
    BY <1>1, <1>2, <1>3 DEF TelemetryInv, OwedInv, ShutdownTracer, Initialising
<1>8. KnownInv'
    BY <1>1, <1>2, <1>3 DEF TelemetryInv, KnownInv, ShutdownTracer, Nil
<1>9. TwiceInv'
    BY <1>1, <1>2, <1>3 DEF TelemetryInv, TwiceInv, ShutdownTracer
<1>10. AccountedInv'
    BY <1>1, <1>2, <1>3 DEF TelemetryInv, AccountedInv, TypeInv, ShutdownTracer, Initialising, Nil
<1>11. StopsInv'
    BY <1>1, <1>2, <1>3 DEF TelemetryInv, StopsInv, OwedInv, Initialising, ShutdownTracer
<1>12. PanicInv'
    BY <1>1, <1>2, <1>3 DEF TelemetryInv, PanicInv
<1> QED
    BY <1>2, <1>3, <1>4, <1>5, <1>6, <1>7, <1>8, <1>9, <1>10, <1>11, <1>12 DEF TelemetryInv

LEMMA TracerStoppedStep ==
    ASSUME TelemetryInv, NEW g \in Goroutines, TracerStopped(g)
    PROVE  TelemetryInv'
<1>1. LastE \in Nat /\ LastE <= made /\ LastM \in Nat /\ LastM <= made /\ made \in Nat
    BY LastInRange DEF TelemetryInv, TypeInv
<1>2. /\ at[g] = "flush" /\ at'[g] = "idle" /\ UNCHANGED <<using, owed, made>>
      /\ using[g] \in stopped /\ shut \subseteq shut' /\ shut' \subseteq shut \cup {using[g]}
      /\ \A h \in Goroutines \ {g} : at'[h] = at[h] /\ using'[h] = using[h]
           /\ owed'[h] = owed[h] /\ res'[h] = res[h]
    BY DEF TelemetryInv, TypeInv, UseInv, TracerStopped, Returns, Goto
<1>3. /\ MemInv' /\ LastE' = LastE /\ LastM' = LastM
      /\ \A h \in Goroutines : KnowsE(h)' = KnowsE(h) /\ KnowsM(h)' = KnowsM(h)
    BY <1>1, <1>2, MemFrame, MoreMade DEF TelemetryInv, TracerStopped
<1>4. TypeInv'
    BY <1>1, <1>2, <1>3 DEF TelemetryInv, TypeInv, TracerStopped, Initialising, Nil, Places, Results, Returns, Goto
<1>5. UseInv'
    BY <1>1, <1>2, <1>3 DEF TelemetryInv, UseInv, TypeInv, TracerStopped, Initialising
<1>6. MeterInv'
    BY <1>1, <1>2, <1>3 DEF TelemetryInv, MeterInv, TracerStopped
<1>7. OwedInv'
    BY <1>1, <1>2, <1>3 DEF TelemetryInv, OwedInv, TracerStopped, Initialising
<1>8. KnownInv'
    BY <1>1, <1>2, <1>3 DEF TelemetryInv, KnownInv, TracerStopped, Nil
<1>9. TwiceInv'
    BY <1>1, <1>2, <1>3 DEF TelemetryInv, TwiceInv, TracerStopped
<1>10. AccountedInv'
    BY <1>1, <1>2, <1>3 DEF TelemetryInv, AccountedInv, TypeInv, TracerStopped, Initialising, Nil
<1>11. StopsInv'
    BY <1>1, <1>2, <1>3 DEF TelemetryInv, StopsInv, OwedInv, Initialising, TracerStopped
<1>12. PanicInv'
    BY <1>1, <1>2, <1>3 DEF TelemetryInv, PanicInv
<1> QED
    BY <1>2, <1>3, <1>4, <1>5, <1>6, <1>7, <1>8, <1>9, <1>10, <1>11, <1>12 DEF TelemetryInv

LEMMA LateShutStep ==
    ASSUME TelemetryInv, NEW p \in stopped, LateShut(p)
    PROVE  TelemetryInv'
<1>1. LastE \in Nat /\ LastE <= made /\ LastM \in Nat /\ LastM <= made /\ made \in Nat
    BY LastInRange DEF TelemetryInv, TypeInv
<1>2. UNCHANGED <<at, using, owed, res, made>> /\ shut' = shut \cup {p}
    BY DEF LateShut, callVars
<1>3. /\ MemInv' /\ LastE' = LastE /\ LastM' = LastM
      /\ \A h \in Goroutines : KnowsE(h)' = KnowsE(h) /\ KnowsM(h)' = KnowsM(h)
    BY <1>1, <1>2, MemFrame, MoreMade DEF TelemetryInv, LateShut
<1>4. TypeInv'
    BY <1>1, <1>2, <1>3 DEF TelemetryInv, TypeInv, LateShut, Initialising, Nil, Places, Results, callVars
<1>5. UseInv'
    BY <1>1, <1>2, <1>3 DEF TelemetryInv, UseInv, TypeInv, LateShut, Initialising
<1>6. MeterInv'
    BY <1>1, <1>2, <1>3 DEF TelemetryInv, MeterInv, LateShut
<1>7. OwedInv'
    BY <1>1, <1>2, <1>3 DEF TelemetryInv, OwedInv, LateShut, Initialising
<1>8. KnownInv'
    BY <1>1, <1>2, <1>3 DEF TelemetryInv, KnownInv, LateShut, Nil
<1>9. TwiceInv'
    BY <1>1, <1>2, <1>3 DEF TelemetryInv, TwiceInv, LateShut
<1>10. AccountedInv'
    BY <1>1, <1>2, <1>3 DEF TelemetryInv, AccountedInv, TypeInv, LateShut, Initialising, Nil
<1>11. StopsInv'
    BY <1>1, <1>2, <1>3 DEF TelemetryInv, StopsInv, OwedInv, Initialising, LateShut, LateShut
<1>12. PanicInv'
    BY <1>1, <1>2, <1>3 DEF TelemetryInv, PanicInv
<1> QED
    BY <1>2, <1>3, <1>4, <1>5, <1>6, <1>7, <1>8, <1>9, <1>10, <1>11, <1>12 DEF TelemetryInv

-----------------------------------------------------------------------------
(* Shutdown of the metrics.                                                *)

LEMMA ShutdownStep ==
    ASSUME TelemetryInv, NEW g \in Goroutines, Shutdown(g)
    PROVE  TelemetryInv'
<1>1. LastE \in Nat /\ LastE <= made /\ LastM \in Nat /\ LastM <= made /\ made \in Nat
    BY LastInRange DEF TelemetryInv, TypeInv
<1>2. /\ at[g] = "idle" /\ UNCHANGED <<mem, using, made>>
      /\ owed'[g] = IF KnowsM(g) THEN {LastM} \ {Nil} ELSE {}
      /\ \A h \in Goroutines \ {g} : at'[h] = at[h] /\ using'[h] = using[h]
           /\ owed'[h] = owed[h] /\ res'[h] = res[h]
    BY DEF TelemetryInv, TypeInv, Shutdown, sdkVars, Called, Returns, Goto, Known, KnowsM, LastM
<1>3. /\ MemInv' /\ LastE' = LastE /\ LastM' = LastM
      /\ KnowsE(g) => KnowsE(g)'
      /\ KnowsM(g) => KnowsM(g)'
      /\ \/ at'[g] = "idle" /\ res'[g] = "nil" /\ (KnowsM(g)' => LastM = Nil)
         \/ at'[g] = "provider" /\ res'[g] = res[g]
      /\ \A h \in Goroutines \ {g} : KnowsE(h)' = KnowsE(h) /\ KnowsM(h)' = KnowsM(h)
  <2>1. PICK i \in Window(g, "meterProvider"), j \in Window(g, "exporter") :
          /\ Reads(g, i, j)
          /\ IF mem["meterProvider"][i] = Nil /\ mem["exporter"][j] = Nil
             THEN Returns(g, "nil") ELSE Goto(g, "provider") /\ UNCHANGED res
      BY DEF Shutdown, Nothing
  <2>2. /\ MemInv' /\ LastE' = LastE /\ LastM' = LastM
        /\ KnowsE(g) => KnowsE(g)'
        /\ KnowsM(g) => KnowsM(g)'
        /\ KnowsM(g)' => mem["meterProvider"][i] = LastM
        /\ \A h \in Goroutines \ {g} : KnowsE(h)' = KnowsE(h) /\ KnowsM(h)' = KnowsM(h)
      BY <1>2, <2>1, ReadBoth DEF TelemetryInv
  <2>3. \/ at'[g] = "idle" /\ res'[g] = "nil" /\ mem["meterProvider"][i] = Nil
        \/ at'[g] = "provider" /\ res'[g] = res[g]
      BY <2>1 DEF TelemetryInv, TypeInv, Returns, Goto
  <2> QED
      BY <2>2, <2>3
<1>4. TypeInv'
  <2>1. UNCHANGED <<made, shut, leaked, replaced, stopped, provider, using>>
      BY DEF Shutdown, sdkVars
  <2>2. /\ at \in [Goroutines -> Places] /\ res \in [Goroutines -> Results]
        /\ owed \in [Goroutines -> SUBSET 1..made]
      BY DEF TelemetryInv, TypeInv
  <2>3. owed' \in [Goroutines -> SUBSET 1..made]
    <3>1. owed' = [owed EXCEPT ![g] = Known(g)]
        BY DEF Shutdown
    <3>2. Known(g) \subseteq 1..made
        BY <1>1 DEF Known, LastM, Nil
    <3> QED
        BY <2>2, <3>1, <3>2
  <2>4. at' \in [Goroutines -> Places] /\ res' \in [Goroutines -> Results]
    <3>1. \/ Returns(g, "nil")
          \/ Goto(g, "provider") /\ UNCHANGED res
        BY DEF Shutdown
    <3> QED
        BY <2>2, <3>1 DEF Returns, Goto, Places, Results
  <2> QED
      BY <2>1, <2>3, <2>4 DEF TelemetryInv, TypeInv
<1>5. UseInv'
    BY <1>1, <1>2, <1>3 DEF TelemetryInv, UseInv, TypeInv, Shutdown, Initialising, sdkVars
<1>6. MeterInv'
    BY <1>1, <1>2, <1>3 DEF TelemetryInv, MeterInv, Shutdown, sdkVars
<1>7. OwedInv'
    BY <1>1, <1>2, <1>3 DEF TelemetryInv, OwedInv, Shutdown, Initialising, sdkVars
<1>8. KnownInv'
    BY <1>1, <1>2, <1>3 DEF TelemetryInv, KnownInv, Shutdown, Nil, sdkVars
<1>9. TwiceInv'
    BY <1>1, <1>2, <1>3 DEF TelemetryInv, TwiceInv, Shutdown, sdkVars
<1>10. AccountedInv'
    BY <1>1, <1>2, <1>3 DEF TelemetryInv, AccountedInv, TypeInv, Shutdown, Initialising, Nil, sdkVars
<1>11. StopsInv'
    BY <1>1, <1>2, <1>3 DEF TelemetryInv, StopsInv, OwedInv, Initialising, Shutdown, sdkVars
<1>12. PanicInv'
    BY <1>1, <1>2, <1>3 DEF TelemetryInv, PanicInv
<1> QED
    BY <1>2, <1>3, <1>4, <1>5, <1>6, <1>7, <1>8, <1>9, <1>10, <1>11, <1>12 DEF TelemetryInv

LEMMA ProviderShutdownStep ==
    ASSUME TelemetryInv, NEW g \in Goroutines, ProviderShutdown(g)
    PROVE  TelemetryInv'
<1>1. LastE \in Nat /\ LastE <= made /\ LastM \in Nat /\ LastM <= made /\ made \in Nat
    BY LastInRange DEF TelemetryInv, TypeInv
<1>2. PICK p \in 0..made :
      /\ at[g] = "provider" /\ UNCHANGED <<using, owed, made>>
      /\ shut' = shut \cup ({p} \ {Nil})
      /\ \/ p \notin shut /\ at'[g] = "exporter" /\ res'[g] = res[g]
         \/ p # Nil /\ at'[g] = "idle" /\ res'[g] = "error"
      /\ \A h \in Goroutines \ {g} : at'[h] = at[h] /\ using'[h] = using[h]
           /\ owed'[h] = owed[h] /\ res'[h] = res[h]
      /\ /\ MemInv' /\ LastE' = LastE /\ LastM' = LastM /\ KnowsE(g)' = KnowsE(g)
      /\ KnowsM(g) => KnowsM(g)'
      /\ KnowsM(g)' => p = LastM
      /\ \A h \in Goroutines \ {g} : KnowsE(h)' = KnowsE(h) /\ KnowsM(h)' = KnowsM(h)
      /\ at' \in [Goroutines -> Places] /\ res' \in [Goroutines -> Results]
  <2>1. PICK i \in Window(g, "meterProvider") :
          /\ Knows(g, "meterProvider", i)
          /\ shut' = shut \cup ({mem["meterProvider"][i]} \ {Nil})
          /\ \/ mem["meterProvider"][i] \notin shut /\ Goto(g, "exporter") /\ UNCHANGED res
             \/ mem["meterProvider"][i] # Nil /\ Returns(g, "error")
      BY DEF ProviderShutdown
  <2> DEFINE p == mem["meterProvider"][i]
  <2>2. p \in 0..made
      BY <1>1, SharedVars, ReadInRange DEF TelemetryInv
  <2>3. at[g] = "provider" /\ UNCHANGED <<mem, using, owed, made>>
      BY DEF ProviderShutdown
  <2>4. /\ MemInv' /\ LastE' = LastE /\ LastM' = LastM /\ KnowsE(g)' = KnowsE(g)
        /\ KnowsM(g) => KnowsM(g)'
        /\ KnowsM(g)' => p = LastM
        /\ \A h \in Goroutines \ {g} : KnowsE(h)' = KnowsE(h) /\ KnowsM(h)' = KnowsM(h)
      BY <2>1, <2>3, SharedVars, ReadOne DEF TelemetryInv
  <2>5. /\ \/ p \notin shut /\ at'[g] = "exporter" /\ res'[g] = res[g]
           \/ p # Nil /\ at'[g] = "idle" /\ res'[g] = "error"
        /\ \A h \in Goroutines \ {g} : at'[h] = at[h] /\ using'[h] = using[h]
             /\ owed'[h] = owed[h] /\ res'[h] = res[h]
        /\ at' \in [Goroutines -> Places] /\ res' \in [Goroutines -> Results]
      BY <2>1, <2>3 DEF TelemetryInv, TypeInv, Returns, Goto, Places, Results
  <2> QED
      BY <2>1, <2>2, <2>3, <2>4, <2>5
<1>3. shut' \subseteq 1..made
    BY <1>2 DEF TelemetryInv, TypeInv, Nil
<1>4. TypeInv'
    BY <1>1, <1>2, <1>3 DEF TelemetryInv, TypeInv, ProviderShutdown, Initialising, Nil, Places, Results
<1>5. UseInv'
    BY <1>1, <1>2, <1>3 DEF TelemetryInv, UseInv, TypeInv, ProviderShutdown, Initialising
<1>6. MeterInv'
    BY <1>1, <1>2, <1>3 DEF TelemetryInv, MeterInv, ProviderShutdown
<1>7. OwedInv'
    BY <1>1, <1>2, <1>3 DEF TelemetryInv, OwedInv, ProviderShutdown, Initialising, TypeInv, Nil
<1>8. KnownInv'
    BY <1>1, <1>2, <1>3 DEF TelemetryInv, KnownInv, ProviderShutdown, Nil
<1>9. TwiceInv'
    BY <1>1, <1>2, <1>3 DEF TelemetryInv, TwiceInv, ProviderShutdown, KnownInv, UseInv, OwedInv, TypeInv, Nil
<1>10. AccountedInv'
    BY <1>1, <1>2, <1>3 DEF TelemetryInv, AccountedInv, TypeInv, ProviderShutdown, Initialising, Nil
<1>11. StopsInv'
    BY <1>1, <1>2, <1>3 DEF TelemetryInv, StopsInv, OwedInv, Initialising, ProviderShutdown, TypeInv, Nil
<1>12. PanicInv'
    BY <1>1, <1>2, <1>3 DEF TelemetryInv, PanicInv
<1> QED
    BY <1>2, <1>3, <1>4, <1>5, <1>6, <1>7, <1>8, <1>9, <1>10, <1>11, <1>12 DEF TelemetryInv

LEMMA ExporterShutdownStep ==
    ASSUME TelemetryInv, NEW g \in Goroutines, ExporterShutdown(g)
    PROVE  TelemetryInv'
<1>1. LastE \in Nat /\ LastE <= made /\ LastM \in Nat /\ LastM <= made /\ made \in Nat
    BY LastInRange DEF TelemetryInv, TypeInv
<1>2. PICK e \in 0..made :
      /\ at[g] = "exporter" /\ at'[g] = "idle" /\ UNCHANGED <<using, owed, made>>
      /\ shut' = shut \cup ({e} \ {Nil})
      /\ res'[g] \in {"nil", "error"} /\ (res'[g] = "nil" => e = Nil \/ e \notin shut)
      /\ \A h \in Goroutines \ {g} : at'[h] = at[h] /\ using'[h] = using[h]
           /\ owed'[h] = owed[h] /\ res'[h] = res[h]
      /\ /\ MemInv' /\ LastE' = LastE /\ LastM' = LastM /\ KnowsM(g)' = KnowsM(g)
      /\ KnowsE(g) => KnowsE(g)' /\ e = LastE
      /\ \A h \in Goroutines \ {g} : KnowsE(h)' = KnowsE(h) /\ KnowsM(h)' = KnowsM(h)
      /\ at' \in [Goroutines -> Places] /\ res' \in [Goroutines -> Results]
  <2>1. PICK j \in Window(g, "exporter") :
          /\ Knows(g, "exporter", j)
          /\ shut' = shut \cup ({mem["exporter"][j]} \ {Nil})
          /\ \E r \in IF mem["exporter"][j] = Nil THEN {"nil"}
                    ELSE IF mem["exporter"][j] \in shut THEN {"error"} ELSE {"nil", "error"} :
               Returns(g, r)
      BY DEF ExporterShutdown
  <2> DEFINE e == mem["exporter"][j]
  <2>2. e \in 0..made
      BY <1>1, SharedVars, ReadInRange DEF TelemetryInv
  <2>3. at[g] = "exporter" /\ UNCHANGED <<mem, using, owed, made>>
      BY DEF ExporterShutdown
  <2>4. /\ MemInv' /\ LastE' = LastE /\ LastM' = LastM /\ KnowsM(g)' = KnowsM(g)
        /\ KnowsE(g) => KnowsE(g)' /\ e = LastE
        /\ \A h \in Goroutines \ {g} : KnowsE(h)' = KnowsE(h) /\ KnowsM(h)' = KnowsM(h)
      BY <2>1, <2>3, SharedVars, ReadOne DEF TelemetryInv
  <2>5. PICK r \in {"nil", "error"} : Returns(g, r) /\ (r = "nil" => e = Nil \/ e \notin shut)
      BY <2>1
  <2>6. /\ at'[g] = "idle" /\ res'[g] = r
        /\ \A h \in Goroutines \ {g} : at'[h] = at[h] /\ using'[h] = using[h]
             /\ owed'[h] = owed[h] /\ res'[h] = res[h]
        /\ at' \in [Goroutines -> Places] /\ res' \in [Goroutines -> Results]
      BY <2>3, <2>5 DEF TelemetryInv, TypeInv, Returns, Goto, Places, Results
  <2> QED
      BY <2>1, <2>2, <2>3, <2>4, <2>5, <2>6
<1>3. shut' \subseteq 1..made
    BY <1>2 DEF TelemetryInv, TypeInv, Nil
<1>4. TypeInv'
    BY <1>1, <1>2, <1>3 DEF TelemetryInv, TypeInv, ExporterShutdown, Initialising, Nil, Places, Results
<1>5. UseInv'
    BY <1>1, <1>2, <1>3 DEF TelemetryInv, UseInv, TypeInv, ExporterShutdown, Initialising
<1>6. MeterInv'
    BY <1>1, <1>2, <1>3 DEF TelemetryInv, MeterInv, ExporterShutdown
<1>7. OwedInv'
    BY <1>1, <1>2, <1>3 DEF TelemetryInv, OwedInv, ExporterShutdown, Initialising
<1>8. KnownInv'
    BY <1>1, <1>2, <1>3 DEF TelemetryInv, KnownInv, ExporterShutdown, Nil
<1>9. TwiceInv'
    BY <1>1, <1>2, <1>3 DEF TelemetryInv, TwiceInv, ExporterShutdown
<1>10. AccountedInv'
    BY <1>1, <1>2, <1>3 DEF TelemetryInv, AccountedInv, TypeInv, ExporterShutdown, Initialising, Nil
<1>11. StopsInv'
    BY <1>1, <1>2, <1>3 DEF TelemetryInv, StopsInv, OwedInv, Initialising, ExporterShutdown, TwiceInv, TypeInv, Nil
<1>12. PanicInv'
    BY <1>1, <1>2, <1>3 DEF TelemetryInv, PanicInv
<1> QED
    BY <1>2, <1>3, <1>4, <1>5, <1>6, <1>7, <1>8, <1>9, <1>10, <1>11, <1>12 DEF TelemetryInv

LEMMA ExporterVanishesStep ==
    ASSUME TelemetryInv, NEW g \in Goroutines, ExporterVanishes(g)
    PROVE  TelemetryInv'
<1>1. LastE \in Nat /\ LastE <= made /\ LastM \in Nat /\ LastM <= made /\ made \in Nat
    BY LastInRange DEF TelemetryInv, TypeInv
<1>2. /\ at[g] = "exporter" /\ at'[g] = "panic" /\ UNCHANGED <<mem, sdkVars, using, owed, res>>
      /\ \A h \in Goroutines \ {g} : at'[h] = at[h]
      /\ at' \in [Goroutines -> Places]
    BY DEF TelemetryInv, TypeInv, ExporterVanishes, Goto, Places
<1>3. /\ MemInv' /\ LastE' = LastE /\ LastM' = LastM /\ KnowsM(g)' = KnowsM(g)
      /\ ~KnowsE(g) /\ ~KnowsE(g)'
      /\ \A h \in Goroutines \ {g} : KnowsE(h)' = KnowsE(h) /\ KnowsM(h)' = KnowsM(h)
  <2>1. PICK i \in Window(g, "exporter") :
          /\ mem["exporter"][i] # Nil
          /\ \E j \in i..Len(mem["exporter"]) : mem["exporter"][j] = Nil
          /\ Knows(g, "exporter", i)
      BY DEF ExporterVanishes
  <2>2. /\ MemInv' /\ LastE' = LastE /\ LastM' = LastM /\ KnowsM(g)' = KnowsM(g)
        /\ \A h \in Goroutines \ {g} : KnowsE(h)' = KnowsE(h) /\ KnowsM(h)' = KnowsM(h)
      BY <1>2, <2>1, SharedVars, ReadOne DEF TelemetryInv, sdkVars
  <2>3. /\ i \in 1..Len(mem["exporter"]) /\ Len(mem["exporter"]) \in Nat
        /\ known[g]["exporter"] = Len(mem["exporter"]) => i = Len(mem["exporter"])
      BY <2>1, SharedVars, ReadInRange DEF TelemetryInv, MemInv, MemoryOK
  <2>4. i # Len(mem["exporter"])
      BY <2>1, <2>3
  <2>5. known'[g]["exporter"] = i
      BY <2>1, SharedVars DEF Knows, TelemetryInv, MemInv, MemoryOK
  <2> QED
      BY <1>2, <2>2, <2>3, <2>4, <2>5 DEF KnowsE
<1>4. TypeInv'
    BY <1>2 DEF TelemetryInv, TypeInv, sdkVars
<1>5. UseInv'
    BY <1>2, <1>3 DEF TelemetryInv, UseInv, Initialising, sdkVars
<1>6. MeterInv'
    BY <1>2, <1>3 DEF TelemetryInv, MeterInv
<1>7. OwedInv'
    BY <1>2, <1>3 DEF TelemetryInv, OwedInv, Initialising, sdkVars
<1>8. KnownInv'
    BY <1>2, <1>3 DEF TelemetryInv, KnownInv, Nil, sdkVars
<1>9. TwiceInv'
    BY <1>2, <1>3 DEF TelemetryInv, TwiceInv, sdkVars
<1>10. AccountedInv'
    BY <1>2, <1>3 DEF TelemetryInv, AccountedInv, Initialising, sdkVars
<1>11. StopsInv'
    BY <1>2, <1>3 DEF TelemetryInv, StopsInv, OwedInv, sdkVars
<1>12. PanicInv'
    BY <1>2, <1>3 DEF TelemetryInv, PanicInv
<1> QED
    BY <1>3, <1>4, <1>5, <1>6, <1>7, <1>8, <1>9, <1>10, <1>11, <1>12 DEF TelemetryInv

LEMMA TellStep ==
    ASSUME TelemetryInv, NEW g \in Goroutines, NEW h \in Goroutines, Tell(g, h)
    PROVE  TelemetryInv'
<1>1. LastE \in Nat /\ LastE <= made /\ LastM \in Nat /\ LastM <= made /\ made \in Nat
    BY LastInRange DEF TelemetryInv, TypeInv
<1>2. /\ at[g] = "idle" /\ at[h] = "idle" /\ UNCHANGED <<mem, made, at, using, owed, res>>
      /\ UNCHANGED <<shut, stopped, replaced, provider>>
    BY DEF Tell, sdkVars, callVars
<1>3. /\ MemInv' /\ LastE' = LastE /\ LastM' = LastM
      /\ KnowsE(h)' <=> KnowsE(h) \/ KnowsE(g)
      /\ KnowsM(h)' <=> KnowsM(h) \/ KnowsM(g)
      /\ \A k \in Goroutines \ {h} : KnowsE(k)' = KnowsE(k) /\ KnowsM(k)' = KnowsM(k)
    BY <1>2, TellBoth DEF TelemetryInv, Tell
<1>4. TypeInv'
    BY <1>1, <1>2, <1>3 DEF TelemetryInv, TypeInv, Tell, Initialising, Nil, Places, Results, sdkVars, callVars
<1>5. UseInv'
    BY <1>1, <1>2, <1>3 DEF TelemetryInv, UseInv, TypeInv, Tell, Initialising
<1>6. MeterInv'
    BY <1>1, <1>2, <1>3 DEF TelemetryInv, MeterInv, Tell
<1>7. OwedInv'
    BY <1>1, <1>2, <1>3 DEF TelemetryInv, OwedInv, Tell, Initialising
<1>8. KnownInv'
    BY <1>1, <1>2, <1>3 DEF TelemetryInv, KnownInv, Tell, Nil
<1>9. TwiceInv'
    BY <1>1, <1>2, <1>3 DEF TelemetryInv, TwiceInv, Tell
<1>10. AccountedInv'
    BY <1>1, <1>2, <1>3 DEF TelemetryInv, AccountedInv, TypeInv, Tell, Initialising, Nil, sdkVars
<1>11. StopsInv'
    BY <1>1, <1>2, <1>3 DEF TelemetryInv, StopsInv, OwedInv, Initialising, Tell
<1>12. PanicInv'
    BY <1>1, <1>2, <1>3 DEF TelemetryInv, PanicInv
<1> QED
    BY <1>2, <1>3, <1>4, <1>5, <1>6, <1>7, <1>8, <1>9, <1>10, <1>11, <1>12 DEF TelemetryInv

-----------------------------------------------------------------------------
(* The theorems.                                                           *)

LEMMA StartInv == Init => TelemetryInv
<1> SUFFICES ASSUME Init PROVE TelemetryInv
    OBVIOUS
<1>1. /\ MemoryOK(Nat)
      /\ \A v \in Shared : Len(mem[v]) = 1 /\ mem[v][1] = Nil
    BY StartMemory DEF Init, Nil
<1>2. LastE = Nil /\ LastM = Nil
    BY <1>1, SharedVars DEF LastE, LastM, Latest
<1>3. MemInv
    BY <1>1 DEF MemInv, Init, Nil
<1>4. TypeInv /\ UseInv /\ MeterInv /\ OwedInv
    BY <1>2 DEF Init, Nil, TypeInv, UseInv, MeterInv, OwedInv, Initialising, Places, Results
<1>5. KnownInv /\ TwiceInv /\ PanicInv /\ AccountedInv /\ StopsInv
    BY <1>2 DEF Init, Nil, KnownInv, TwiceInv, PanicInv, AccountedInv, StopsInv
<1> QED
    BY <1>3, <1>4, <1>5 DEF TelemetryInv

LEMMA NothingStep ==
    ASSUME TelemetryInv, UNCHANGED vars
    PROVE  TelemetryInv'
<1>1. /\ UNCHANGED <<mem, known, made, shut, leaked, replaced, provider, stopped>>
      /\ UNCHANGED <<at, using, owed, res>>
    BY DEF vars, sdkVars, callVars
<1>2. /\ LastE' = LastE /\ LastM' = LastM
      /\ \A g \in Goroutines : KnowsE(g)' = KnowsE(g) /\ KnowsM(g)' = KnowsM(g)
    BY <1>1, MemFrame
<1>3. MemInv'
    BY <1>1, MoreMade DEF TelemetryInv, TypeInv
<1>4. TypeInv' /\ UseInv' /\ MeterInv' /\ OwedInv'
    BY <1>1, <1>2 DEF TelemetryInv, TypeInv, UseInv, MeterInv, OwedInv, Initialising
<1>5. KnownInv' /\ TwiceInv' /\ PanicInv' /\ AccountedInv' /\ StopsInv'
    BY <1>1, <1>2 DEF TelemetryInv, KnownInv, TwiceInv, PanicInv, AccountedInv, StopsInv, Nil, Initialising
<1> QED
    BY <1>3, <1>4, <1>5 DEF TelemetryInv

LEMMA NextStep == TelemetryInv /\ [Next]_vars => TelemetryInv'
<1> SUFFICES ASSUME TelemetryInv, [Next]_vars PROVE TelemetryInv'
    OBVIOUS
<1>1. ASSUME NEW g \in Goroutines,
             TracerExporter(g) \/ ResourceFails(g) \/ TracerInstalled(g)
      PROVE  TelemetryInv'
    BY <1>1, TracerExporterStep, ResourceFailsStep, TracerInstalledStep
<1>2. ASSUME NEW g \in Goroutines,
             MeterExporter(g) \/ MeterExporterFails(g) \/ MeterInstalled(g)
      PROVE  TelemetryInv'
    BY <1>2, MeterExporterStep, MeterExporterFailsStep, MeterInstalledStep
<1>3. ASSUME NEW g \in Goroutines, ShutdownTracer(g) \/ TracerStopped(g)
      PROVE  TelemetryInv'
    BY <1>3, ShutdownTracerStep, TracerStoppedStep
<1>4. ASSUME NEW g \in Goroutines,
             \/ Shutdown(g) \/ ProviderShutdown(g)
             \/ ExporterShutdown(g) \/ ExporterVanishes(g)
      PROVE  TelemetryInv'
    BY <1>4, ShutdownStep, ProviderShutdownStep, ExporterShutdownStep, ExporterVanishesStep
<1>5. ASSUME NEW g \in Goroutines, NEW h \in Goroutines, Tell(g, h)
      PROVE  TelemetryInv'
    BY <1>5, TellStep
<1>6. ASSUME NEW p \in stopped, LateShut(p)
      PROVE  TelemetryInv'
    BY <1>6, LateShutStep
<1>7. CASE UNCHANGED vars
    BY <1>7, NothingStep
<1> QED
    BY <1>1, <1>2, <1>3, <1>4, <1>5, <1>6, <1>7 DEF Next

\* Whatever the goroutines do, the invariant holds: what one of them must stop
\* it stops, because a read is never older than what it has been told of.
THEOREM TelemetryInvariant == Spec => []TelemetryInv
BY StartInv, NextStep, PTL DEF Spec

\* No exporter is lost but by a failed InitTracer or a second Init.
THEOREM TelemetryAccounted == Spec => []ExportersAccounted
<1>1. TelemetryInv => ExportersAccounted
    BY DEF TelemetryInv, AccountedInv, ExportersAccounted, LastM, Initialising
<1> QED
    BY <1>1, TelemetryInvariant, PTL

\* Shutdown and ShutdownTracer stop what their caller has been told of, and
\* Shutdown returns nil only if the exporter last made is not among it; and the
\* exporter vanishes only under who has not been told of the last InitProvider.
THEOREM TelemetryStops == Spec => []ShutdownStops
<1>1. TelemetryInv => ShutdownStops
    BY DEF TelemetryInv, StopsInv, PanicInv, KnowsE, ShutdownStops, LastE
<1> QED
    BY <1>1, TelemetryInvariant, PTL
=============================================================================
