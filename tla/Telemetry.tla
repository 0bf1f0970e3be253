------------------------------ MODULE Telemetry ------------------------------
(***************************************************************************)
(* The life cycle of tracing (week7/boilerplates/tracing/tracer.go) and    *)
(* metrics (week7/boilerplates/metrics/metrics.go): goroutines initialise  *)
(* them, maybe again, and shut both down, one beside the other, as the     *)
(* functions of a closer do.                                               *)
(*                                                                         *)
(* The OpenTelemetry SDK is external. A provider stands for its exporter:  *)
(* its shutdown flushes and shuts the exporter down, even if the flush     *)
(* fails; a tracer provider that gives up in time does so later. A second  *)
(* shutdown of a tracer provider returns nil at once, one of a meter       *)
(* provider or of a metric exporter returns an error. The global provider  *)
(* of otel is atomic; the variables of package metrics are not (GoMemory). *)
(*                                                                         *)
(* A definition whose name begins with Bug is the next one with a mistake. *)
(***************************************************************************)
EXTENDS GoMemory

CONSTANTS
    MaxExporters,  \* bound on the exporters made
    MaxFailures,   \* bound on the exporters that cannot be made
    MaxShutdowns   \* bound on the calls of Shutdown and ShutdownTracer

ASSUME TelemetryAssumption ==
    /\ Shared = {"exporter", "meterProvider"}
    /\ MaxExporters \in Nat /\ MaxFailures \in Nat /\ MaxShutdowns \in Nat

VARIABLES
    made,       \* exporters made so far: 1 .. made
    failures,   \* exporters that could not be made
    shut,       \* exporters shut down
    leaked,     \* those whose resource could not be created
    replaced,   \* those whose provider was replaced by a later one
    provider,   \* the global tracer provider
    stopped,    \* tracer providers whose Shutdown has been called
    at,         \* where a goroutine is in a call
    using,      \* the exporter it initialises, or whose provider it shuts down
    owed,       \* what the last shutdown it called must have stopped on return
    res,        \* what its last call returned
    shutdowns   \* shutdowns called so far

sdkVars == <<made, failures, shut, leaked, replaced, provider, stopped>>
callVars == <<at, using, owed, res, shutdowns>>
vars == <<mem, known, sdkVars, callVars>>

Nil == 0    \* no exporter, no provider but the one of otel

Init ==
    /\ NothingWritten([v \in Shared |-> Nil])
    /\ made = 0 /\ failures = 0 /\ shut = {} /\ leaked = {} /\ replaced = {}
    /\ provider = Nil /\ stopped = {}
    /\ at = [g \in Goroutines |-> "idle"] /\ using = [g \in Goroutines |-> Nil]
    /\ owed = [g \in Goroutines |-> {}] /\ res = [g \in Goroutines |-> "none"]
    /\ shutdowns = 0

Goto(g, l) == at' = [at EXCEPT ![g] = l]

\* The call of g ends.
Returns(g, r) ==
    /\ Goto(g, "idle")
    /\ res' = [res EXCEPT ![g] = r]

\* g gets a new exporter.
Made(g, l) ==
    /\ at[g] = "idle" /\ made < MaxExporters
    /\ made' = made + 1
    /\ using' = [using EXCEPT ![g] = made + 1]
    /\ owed' = [owed EXCEPT ![g] = {}]
    /\ Goto(g, l)

\* Provider p takes the place of q.
Replaces(q) == replaced' = replaced \cup ({q} \ {Nil})

-----------------------------------------------------------------------------
(* InitTracer. Without an exporter it changes nothing.                     *)

TracerExporter(g) ==
    /\ Made(g, "tracer")
    /\ UNCHANGED <<mem, known, failures, shut, leaked, replaced, provider, stopped, res, shutdowns>>

\* The exporter is left as it is.
ResourceFails(g) ==
    /\ at[g] = "tracer"
    /\ leaked' = leaked \cup {using[g]}
    /\ Returns(g, "error")
    /\ UNCHANGED <<mem, known, made, failures, shut, replaced, provider, stopped, using, owed, shutdowns>>

TracerInstalled(g) ==
    /\ at[g] = "tracer"
    /\ provider' = using[g] /\ Replaces(provider)
    /\ Returns(g, "nil")
    /\ UNCHANGED <<mem, known, made, failures, shut, leaked, stopped, using, owed, shutdowns>>

(* InitProvider. Nothing calls it from two goroutines at once.             *)

NoMeterInit == \A g \in Goroutines : at[g] # "meter"

MeterExporter(g) ==
    /\ NoMeterInit /\ Made(g, "meter")
    /\ Write(g, "exporter", made + 1)
    /\ UNCHANGED <<failures, shut, leaked, replaced, provider, stopped, res, shutdowns>>

\* The nil that comes with the error is kept all the same.
MeterExporterFails(g) ==
    /\ NoMeterInit /\ at[g] = "idle" /\ failures < MaxFailures
    /\ failures' = failures + 1
    /\ Write(g, "exporter", Nil)
    /\ owed' = [owed EXCEPT ![g] = {}]
    /\ Returns(g, "error")
    /\ UNCHANGED <<made, shut, leaked, replaced, provider, stopped, using, shutdowns>>

BugMeterInstalled(g) ==                       \* a local variable hides the global
    /\ at[g] = "meter"
    /\ Returns(g, "nil")
    /\ UNCHANGED <<mem, known, sdkVars, using, owed, shutdowns>>

MeterInstalled(g) ==
    /\ at[g] = "meter"
    /\ \E e \in Readable(g, "exporter") : Write(g, "meterProvider", e)
    /\ Replaces(Latest("meterProvider"))
    /\ Returns(g, "nil")
    /\ UNCHANGED <<made, failures, shut, leaked, provider, stopped, using, owed, shutdowns>>

-----------------------------------------------------------------------------
(* ShutdownTracer.                                                         *)

Called(g) ==
    /\ at[g] = "idle" /\ shutdowns < MaxShutdowns
    /\ shutdowns' = shutdowns + 1

\* The first shutdown of the global provider; any other returns nil at once,
\* and so does one of the provider of otel.
ShutdownTracer(g) ==
    /\ Called(g)
    /\ owed' = [owed EXCEPT ![g] = {provider} \ {Nil}]
    /\ IF provider \in {Nil} \cup stopped
       THEN Returns(g, "nil") /\ UNCHANGED <<stopped, using>>
       ELSE /\ Goto(g, "flush") /\ using' = [using EXCEPT ![g] = provider]
            /\ stopped' = stopped \cup {provider} /\ UNCHANGED res
    /\ UNCHANGED <<mem, known, made, failures, shut, leaked, replaced, provider>>

\* The flush ends, or its time is over; the exporter is then shut by the SDK.
TracerStopped(g) ==
    /\ at[g] = "flush"
    /\ \/ shut' = shut \cup {using[g]} /\ \E r \in {"nil", "error"} : Returns(g, r)
       \/ UNCHANGED shut /\ Returns(g, "error")
    /\ UNCHANGED <<mem, known, made, failures, leaked, replaced, provider, stopped, using, owed, shutdowns>>

LateShut(p) ==
    /\ p \in stopped \ shut /\ \A g \in Goroutines : at[g] = "flush" => using[g] # p
    /\ shut' = shut \cup {p}
    /\ UNCHANGED <<mem, known, made, failures, leaked, replaced, provider, stopped, callVars>>

-----------------------------------------------------------------------------
(* Shutdown of the metrics. Every mention of a variable reads it again.    *)

BugNothing(p, e) == p = Nil \/ e = Nil
Nothing(p, e) == p = Nil /\ e = Nil

\* g reads the i-th value of meterProvider and the j-th of exporter.
Reads(g, i, j) ==
    /\ i \in Window(g, "meterProvider") /\ j \in Window(g, "exporter")
    /\ known' = [known EXCEPT ![g]["meterProvider"] = i, ![g]["exporter"] = j]

\* What g has been told of last it must stop.
Known(g) ==
    IF known[g]["meterProvider"] = Len(mem["meterProvider"])
    THEN {Latest("meterProvider")} \ {Nil} ELSE {}

Shutdown(g) ==
    /\ Called(g)
    /\ owed' = [owed EXCEPT ![g] = Known(g)]
    /\ \E i \in Window(g, "meterProvider"), j \in Window(g, "exporter") :
         /\ Reads(g, i, j)
         /\ IF Nothing(mem["meterProvider"][i], mem["exporter"][j])
            THEN Returns(g, "nil") ELSE Goto(g, "provider") /\ UNCHANGED res
    /\ UNCHANGED <<mem, sdkVars, using>>

\* meterProvider.Shutdown, unless it is nil. The check and the call each read
\* the variable: a provider once seen is never nil again.
ProviderShutdown(g) ==
    /\ at[g] = "provider"
    /\ \E i \in Window(g, "meterProvider") :
         LET p == mem["meterProvider"][i] IN
         /\ Knows(g, "meterProvider", i)
         /\ shut' = shut \cup ({p} \ {Nil})
         /\ \/ p \notin shut /\ Goto(g, "exporter") /\ UNCHANGED res
            \/ p # Nil /\ Returns(g, "error")
    /\ UNCHANGED <<mem, made, failures, leaked, replaced, provider, stopped, using, owed, shutdowns>>

\* exporter.Shutdown, unless it is nil. An exporter that the call reads after
\* the check has read another one is one that the check might have read.
ExporterShutdown(g) ==
    /\ at[g] = "exporter"
    /\ \E j \in Window(g, "exporter") :
         LET e == mem["exporter"][j] IN
         /\ Knows(g, "exporter", j)
         /\ shut' = shut \cup ({e} \ {Nil})
         /\ \E r \in IF e = Nil THEN {"nil"} ELSE IF e \in shut THEN {"error"} ELSE {"nil", "error"} :
              Returns(g, r)
    /\ UNCHANGED <<mem, made, failures, leaked, replaced, provider, stopped, using, owed, shutdowns>>

\* An InitProvider that failed takes the exporter away between the check and
\* the call, which panics: the goroutine ends, and where nothing recovers, as
\* a closer does, the process.
ExporterVanishes(g) ==
    /\ at[g] = "exporter"
    /\ \E i \in Window(g, "exporter") :
         /\ mem["exporter"][i] # Nil
         /\ \E j \in i..Len(mem["exporter"]) : mem["exporter"][j] = Nil
         /\ Knows(g, "exporter", i)
    /\ Goto(g, "panic")
    /\ UNCHANGED <<mem, sdkVars, using, owed, res, shutdowns>>

-----------------------------------------------------------------------------
\* g has synchronised with h: by a go statement, a channel or the mutex of a
\* closer that it registers its shutdown with.
Tell(g, h) ==
    /\ at[g] = "idle" /\ at[h] = "idle" /\ g # h
    /\ Learn(h, known[g])
    /\ UNCHANGED <<mem, sdkVars, callVars>>

Next ==
    \/ \E g \in Goroutines :
         \/ TracerExporter(g) \/ ResourceFails(g) \/ TracerInstalled(g)
         \/ MeterExporter(g) \/ MeterExporterFails(g) \/ MeterInstalled(g)
         \/ ShutdownTracer(g) \/ TracerStopped(g)
         \/ Shutdown(g) \/ ProviderShutdown(g) \/ ExporterShutdown(g) \/ ExporterVanishes(g)
         \/ \E h \in Goroutines : Tell(g, h)
    \/ \E p \in stopped : LateShut(p)

Spec == Init /\ [][Next]_vars

-----------------------------------------------------------------------------
(* Properties.                                                             *)

\* An exporter that is open can still be shut down by ShutdownTracer or
\* Shutdown, or this has begun - unless its resource could not be created, or
\* a second Init has put another one in its place: these are never shut.
ExportersAccounted ==
    \A e \in 1..made \ shut :
        \/ e \in {provider, Latest("meterProvider")} \cup stopped
        \/ e \in leaked \cup replaced
        \/ \E g \in Goroutines : at[g] \in {"tracer", "meter"} /\ using[g] = e

\* When Shutdown or ShutdownTracer has returned, with or without an error, what
\* its caller had been told of is stopped, unless it was replaced meanwhile;
\* also after a later InitProvider that failed. A Shutdown of the metrics that
\* did all of this complains: the provider has shut the exporter down, which
\* will not be shut twice. It returns nil only to a caller who knows of no
\* provider, or after the variable exporter was written again. Even when the
\* exporter vanishes under it the provider is stopped, and this can happen only
\* to a Shutdown that had not been told of the last InitProvider.
ShutdownStops ==
    \A g \in Goroutines :
        /\ at[g] \in {"idle", "panic"} => owed[g] \subseteq shut \cup stopped \cup replaced
        /\ at[g] = "idle" /\ res[g] = "nil" => Latest("exporter") \notin owed[g] \ stopped
        /\ at[g] = "panic" => known[g]["exporter"] # Len(mem["exporter"])
=============================================================================
