------------------------------- MODULE Logger -------------------------------
(***************************************************************************)
(* The logger of the platform library (week4/boilerplates/pkg/logger): a   *)
(* global pointer and a level that goroutines read and replace without a   *)
(* lock, an Init under sync.Once, loggers derived from the global one; and *)
(* the field that a closer (pkg/closer) keeps a logger in.                 *)
(*                                                                         *)
(* zap is external: a logger writes through a core, and the core asks one  *)
(* AtomicLevel. Lines, fields and encoders are left out.                   *)
(*                                                                         *)
(* A definition whose name begins with Bug is the next one with a mistake. *)
(***************************************************************************)
EXTENDS GoMemory, FiniteSets

CONSTANTS
    Users,        \* goroutines of the program
    LevelNames,   \* arguments of Init and SetLevel, among them names unknown to zap
    MaxWrites,    \* bound on the values of a variable
    NoGoroutine

ASSUME LoggerAssumption ==
    /\ {"globalLogger", "dynamicLevel", "loggerType", "loggerData"} \subseteq Shared
    /\ Users \subseteq Goroutines /\ NoGoroutine \notin Goroutines
    /\ "closer" \notin Goroutines
    /\ MaxWrites \in Nat

VARIABLES
    once,       \* initOnce: "new", "running" or "done"
    builder,    \* the goroutine inside initOnce.Do
    levels,     \* the levels of the AtomicLevels made so far
    published,  \* what is known to a goroutine that has returned from Init
    inited,     \* goroutines that Init has returned in, or that such a one told
    kept,       \* the logger that a goroutine keeps
    took,       \* the function that it has it from
    early,      \* those (or "closer") who took theirs before they were inited
    panics      \* <<goroutine, how>>: who has dereferenced a nil logger, and how

loggerVars == <<mem, known, once, builder, levels, published, inited, kept, took, early, panics>>

\* A logger is nil, a no-op, or writes with the n-th AtomicLevel (n > 0).
Nil == 0
Nop == -1
Nowhere == -2    \* the address of a NoopLogger: as a *logger it has no zap logger
Untaken == -3

LoggerInit ==
    /\ NothingWritten([v \in Shared |-> CASE v = "loggerType" -> "NoopLogger"
                                          [] v = "loggerData" -> Nowhere
                                          [] OTHER -> Nil])
    /\ once = "new" /\ builder = NoGoroutine /\ levels = <<>>
    /\ published = [v \in Shared |-> 1] /\ inited = {}
    /\ kept = [g \in Goroutines |-> Untaken] /\ took = [g \in Goroutines |-> "nothing"]
    /\ early = {} /\ panics = {}

\* A panic in any goroutine ends the process.
Alive == panics = {}

Free(g) == Alive /\ builder # g

May(v) == Len(mem[v]) < MaxWrites

parseLevel(name) ==
    CASE name \in {"debug", "warn", "error"} -> name
      [] name = "warning" -> "warn"
      [] OTHER -> "info"

-----------------------------------------------------------------------------
(* Init.                                                                   *)

BugFirst == TRUE                              \* without the Once
First == once = "new"

\* Init wins the Once and makes the level.
InitBegins(g, name) ==
    /\ Free(g) /\ First /\ builder = NoGoroutine /\ May("dynamicLevel")
    /\ once' = "running" /\ builder' = g
    /\ levels' = Append(levels, parseLevel(name))
    /\ Write(g, "dynamicLevel", Len(levels) + 1)
    /\ UNCHANGED <<published, inited, kept, took, early, panics>>

\* It sets the global logger and returns.
InitEnds(g) ==
    /\ Alive /\ builder = g /\ May("globalLogger")
    /\ Write(g, "globalLogger", Latest("dynamicLevel"))
    /\ once' = "done" /\ builder' = NoGoroutine
    /\ published' = known'[g] /\ inited' = inited \cup {g}
    /\ UNCHANGED <<levels, kept, took, early, panics>>

BugOnceOver == once # "new"                   \* a flag that nobody waits for
OnceOver == once = "done"

\* Any other Init returns when the first one has.
InitAgain(g) ==
    /\ Free(g) /\ OnceOver
    /\ Learn(g, published) /\ inited' = inited \cup {g}
    /\ UNCHANGED <<mem, once, builder, levels, published, kept, took, early, panics>>

-----------------------------------------------------------------------------
(* The package functions. Some read their variable twice.                  *)

SetLevel(g, name) ==
    /\ Free(g)
    /\ \E i \in Window(g, "dynamicLevel") : \E j \in i..Len(mem["dynamicLevel"]) :
         /\ mem["dynamicLevel"][i] = Nil => j = i
         /\ Knows(g, "dynamicLevel", j)
         /\ levels' = IF mem["dynamicLevel"][i] = Nil THEN levels
                      ELSE [levels EXCEPT ![mem["dynamicLevel"][j]] = parseLevel(name)]
    /\ UNCHANGED <<mem, once, builder, published, inited, kept, took, early, panics>>

\* SetNopLogger and InitForBenchmark.
SetNopLogger(g) ==
    /\ Free(g) /\ May("globalLogger")
    /\ Write(g, "globalLogger", Nop)
    /\ UNCHANGED <<once, builder, levels, published, inited, kept, took, early, panics>>

\* Who takes a logger before Init has returned is noted.
Noted(who, g) == early' = IF g \in inited THEN early \ {who} ELSE early \cup {who}

Keeps(g, l, how) == kept' = [kept EXCEPT ![g] = l] /\ took' = [took EXCEPT ![g] = how]

BugDerived(first, second) == second           \* without the check
Derived(first, second) == IF first = Nil THEN Nop ELSE second

\* With and WithContext.
With(g) ==
    /\ Free(g)
    /\ \E i \in Window(g, "globalLogger") : \E j \in i..Len(mem["globalLogger"]) :
         /\ mem["globalLogger"][i] = Nil => j = i
         /\ Knows(g, "globalLogger", j)
         /\ Keeps(g, Derived(mem["globalLogger"][i], mem["globalLogger"][j]), "With")
    /\ Noted(g, g)
    /\ UNCHANGED <<mem, once, builder, levels, published, inited, panics>>

\* closer.New(...) takes what Logger returns, nil included; so does a program that
\* hands it to the options of a container.
New(g) ==
    /\ Free(g)
    /\ \E i \in Window(g, "globalLogger") :
         /\ Knows(g, "globalLogger", i)
         /\ Keeps(g, mem["globalLogger"][i], "New")
    /\ Noted(g, g)
    /\ UNCHANGED <<mem, once, builder, levels, published, inited, panics>>

\* closer.SetLogger writes the two words of the interface in its global closer.
SetLogger(g) ==
    /\ Free(g) /\ May("loggerType") /\ May("loggerData")
    /\ \E i \in Window(g, "globalLogger") :
         /\ mem' = [mem EXCEPT !["loggerType"] = Append(@, "logger"),
                               !["loggerData"] = Append(@, mem["globalLogger"][i])]
         /\ known' = [known EXCEPT ![g]["globalLogger"] = i,
                                   ![g]["loggerType"] = Len(mem["loggerType"]) + 1,
                                   ![g]["loggerData"] = Len(mem["loggerData"]) + 1]
    /\ Noted("closer", g)
    /\ UNCHANGED <<once, builder, levels, published, inited, kept, took, panics>>

-----------------------------------------------------------------------------
(* A line is logged.                                                       *)

\* g calls a method of a *logger.
Method(g, l, how) == panics' = IF l \in {Nil, Nowhere} THEN {<<g, how>>} ELSE {}

\* Through the package: Debug, Info, Warn, Error, Fatal.
Logs(g) ==
    \E i \in Window(g, "globalLogger") :
        /\ Knows(g, "globalLogger", i)
        /\ Method(g, mem["globalLogger"][i], "global")

Log(g) ==
    /\ Free(g) /\ Logs(g)
    /\ UNCHANGED <<mem, once, builder, levels, published, inited, kept, took, early>>

\* Sync does not go through a nil logger.
Sync(g) ==
    /\ Free(g)
    /\ \E i \in Window(g, "globalLogger") : \E j \in i..Len(mem["globalLogger"]) :
         /\ mem["globalLogger"][i] = Nil => j = i
         /\ Knows(g, "globalLogger", j)
         /\ IF mem["globalLogger"][i] = Nil THEN UNCHANGED panics
            ELSE Method(g, mem["globalLogger"][j], "global")
    /\ UNCHANGED <<mem, once, builder, levels, published, inited, kept, took, early>>

\* Through a logger that was kept.
LogKept(g) ==
    /\ Free(g) /\ Method(g, kept[g], "kept")
    /\ UNCHANGED <<mem, known, once, builder, levels, published, inited, kept, took, early>>

\* The global closer uses its logger (handleSignals, CloseAll).
LogCloser(g) ==
    /\ Free(g)
    /\ \E i \in Window(g, "loggerType"), j \in Window(g, "loggerData") :
         /\ known' = [known EXCEPT ![g]["loggerType"] = i, ![g]["loggerData"] = j]
         /\ IF mem["loggerType"][i] = "NoopLogger" THEN UNCHANGED panics
            ELSE Method(g, mem["loggerData"][j], "closer")
    /\ UNCHANGED <<mem, once, builder, levels, published, inited, kept, took, early>>

-----------------------------------------------------------------------------
\* h learns what g knows: g starts it with go, or hands it something over a
\* channel, a lock or a WaitGroup.
Told(g, h) ==
    /\ Learn(h, known[g])
    /\ inited' = IF g \in inited THEN inited \cup {h} ELSE inited

Tell(g, h) ==
    /\ Free(g) /\ builder # h /\ g # h /\ Told(g, h)
    /\ UNCHANGED <<mem, once, builder, levels, published, kept, took, early, panics>>

LoggerCall(g) ==
    \/ \E name \in LevelNames : InitBegins(g, name) \/ SetLevel(g, name)
    \/ InitAgain(g) \/ SetNopLogger(g) \/ With(g) \/ New(g) \/ SetLogger(g)
    \/ Log(g) \/ Sync(g) \/ LogKept(g) \/ LogCloser(g)
    \/ \E h \in Users : Tell(g, h)

LoggerNext == \E g \in Users : LoggerCall(g) \/ InitEnds(g)

LoggerSpec == LoggerInit /\ [][LoggerNext]_loggerVars

-----------------------------------------------------------------------------
(* Properties.                                                             *)

\* A goroutine in which Init has returned, or that was told by one, never meets
\* the nil pointer: the goroutines that copy the logs of a container included.
\* Neither does one in a closer or a container that it has made since; and a
\* derived logger can be used whenever it was made. A goroutine that was told of
\* the last SetLogger, if that came after Init, finds both words of it.
InitedNeverPanics ==
    \A g \in Goroutines :
        /\ g \in inited => <<g, "global">> \notin panics
        /\ g \notin early \/ took[g] # "New" =>
              panics \cap {<<g, "kept">>, <<g, "config">>} = {}
        /\ /\ "closer" \notin early
           /\ \A v \in {"loggerType", "loggerData"} : known[g][v] = Len(mem[v])
           => <<g, "closer">> \notin panics

\* The comment at New, that it takes the default logger log.Default(): a closer
\* made by New can always log.
NewClosersCanLog ==
    \A g \in Users : took[g] = "New" => <<g, "kept">> \notin panics

InUse ==
    {mem["globalLogger"][i] : i \in 1..Len(mem["globalLogger"])} \cup {kept[g] : g \in Goroutines}

\* SetLevel reaches every logger that writes: all of them, derived ones
\* included, ask the AtomicLevel that a SetLevel after Init changes.
OneLevel ==
    \A g \in inited : \A l \in InUse \ {Nil, Nop, Untaken} : Readable(g, "dynamicLevel") = {l}

\* A logger taken after Init writes, unless the program has switched the global
\* one off: With falls back to a no-op only before Init.
NotSilenced ==
    \A g \in Users \ early :
        kept[g] = Nop => \E i \in 1..Len(mem["globalLogger"]) : mem["globalLogger"][i] = Nop
=============================================================================
