--------------------------- MODULE TestContainers ---------------------------
(***************************************************************************)
(* The environment of an end-to-end test (week4/boilerplates/pkg/          *)
(* testcontainers): a network, a MongoDB container with a client, and the  *)
(* container of the service, whose logs two goroutines copy. The test      *)
(* calls these functions one after the other; the goroutines log through   *)
(* the global logger of Logger, which the test may have initialised.       *)
(*                                                                         *)
(* Docker and the MongoDB driver are external: each of their calls may     *)
(* fail, and fails once the context of the test is done. What fails while  *)
(* it starts may exist all the same.                                       *)
(*                                                                         *)
(* A definition whose name begins with Bug is the next one with a mistake. *)
(***************************************************************************)
EXTENDS Logger

CONSTANTS
    Test, Stream, Copy,    \* the goroutines of the test and of the logs
    MaxCalls               \* bound on the calls of logger functions beside a test

ASSUME TestAssumption ==
    /\ {Test, Stream, Copy} \subseteq Goroutines /\ Cardinality({Test, Stream, Copy}) = 3
    /\ Test \in Users /\ Stream \notin Users /\ Copy \notin Users
    /\ "err" \in Shared /\ MaxCalls \in Nat

VARIABLES
    exists,     \* what exists in Docker, and connections of clients
    held,       \* what the test has a handle of
    wanted,     \* what the test is still going to ask for
    excuse,     \* the failed call for which something may exist that nobody holds
    step,       \* where the test is in a call of NewContainer or Terminate
    mongoLog,   \* cfg.Logger of the MongoDB container
    ctxDone,    \* the context of the test is done
    stream,     \* where streamContainerLogs is
    copy,       \* where the goroutine is that it starts
    logsOpen,   \* the log reader is open
    calls       \* calls of logger functions so far, where they are bounded

dockerVars == <<exists, held, wanted, excuse, step, mongoLog, ctxDone>>
streamVars == <<stream, copy, logsOpen>>
testVars == <<dockerVars, streamVars>>
vars == <<loggerVars, testVars, calls>>

Resources == {"network", "mongo", "client", "app"}

Unbounded == -1

\* A test with containers, or a program without: then only the logger is used.
Init ==
    /\ LoggerInit
    /\ exists = {} /\ held = {} /\ excuse = [r \in Resources |-> "none"]
    /\ step = "idle" /\ mongoLog = Nop /\ ctxDone = FALSE
    /\ stream = "off" /\ copy = "off" /\ logsOpen = FALSE
    /\ \/ wanted = Resources /\ calls = 0
       \/ wanted = {} /\ calls = Unbounded

\* A call of Docker or the driver may succeed.
MaySucceed == ~ctxDone

At(s) == Alive /\ builder # Test /\ step = s

Excused(r, why) == excuse' = [excuse EXCEPT ![r] = why]

\* The logger given by WithLogger, or the NoopLogger.
Configured == IF kept[Test] = Untaken THEN Nop ELSE kept[Test]

\* The test logs through l, and does nothing else with the logger.
TestLogs(l) ==
    /\ Method(Test, l, "config")
    /\ UNCHANGED <<mem, known, once, builder, levels, published, inited, kept, took, early>>

-----------------------------------------------------------------------------
(* network.NewNetwork and Remove.                                          *)

\* Docker makes the network or fails, or fails to say that it made it.
NewNetwork ==
    /\ At("idle") /\ "network" \in wanted
    /\ wanted' = wanted \ {"network"}
    /\ \/ /\ MaySucceed /\ exists' = exists \cup {"network"}
          /\ \/ held' = held \cup {"network"} /\ UNCHANGED excuse
             \/ Excused("network", "start") /\ UNCHANGED held
       \/ UNCHANGED <<exists, held, excuse>>
    /\ UNCHANGED <<loggerVars, step, mongoLog, ctxDone, streamVars>>

\* Docker refuses to remove a network in use.
Remove ==
    /\ At("idle") /\ "network" \in held /\ MaySucceed /\ exists \cap {"mongo", "app"} = {}
    /\ exists' = exists \ {"network"} /\ held' = held \ {"network"}
    /\ UNCHANGED <<loggerVars, wanted, excuse, step, mongoLog, ctxDone, streamVars>>

-----------------------------------------------------------------------------
(* mongo.NewContainer and Terminate.                                       *)

\* GenericContainer starts container r, or fails and may leave it behind.
StartContainer(r, next) ==
    /\ At("idle") /\ r \in wanted
    /\ wanted' = wanted \ {r}
    /\ \/ MaySucceed /\ exists' = exists \cup {r} /\ step' = next /\ UNCHANGED excuse
       \/ MaySucceed /\ exists' = exists \cup {r} /\ Excused(r, "start") /\ UNCHANGED step
       \/ UNCHANGED <<exists, excuse, step>>
    /\ UNCHANGED <<loggerVars, held, ctxDone, streamVars>>

StartMongo == StartContainer("mongo", "mongoLookup") /\ mongoLog' = Configured

\* getContainerHostPort.
MongoLookup ==
    /\ At("mongoLookup")
    /\ step' \in {"mongoCleanup"} \cup (IF MaySucceed THEN {"mongoConnect"} ELSE {})
    /\ UNCHANGED <<loggerVars, exists, held, wanted, excuse, mongoLog, ctxDone, streamVars>>

\* connectMongoClient fails; after a failed Ping its client is forgotten.
ConnectFails ==
    /\ At("mongoConnect") /\ step' = "mongoCleanup"
    /\ \/ UNCHANGED <<exists, excuse>>
       \/ exists' = exists \cup {"client"} /\ Excused("client", "ping")
    /\ UNCHANGED <<loggerVars, held, wanted, mongoLog, ctxDone, streamVars>>

MongoStarted ==
    /\ At("mongoConnect") /\ MaySucceed
    /\ exists' = exists \cup {"client"} /\ held' = held \cup {"mongo", "client"}
    /\ step' = "idle"
    /\ TestLogs(mongoLog)
    /\ UNCHANGED <<wanted, excuse, mongoLog, ctxDone, streamVars>>

BugCleanup ==                                 \* success is set too early
    /\ At("mongoCleanup") /\ step' = "idle"
    /\ UNCHANGED <<loggerVars, exists, held, wanted, excuse, mongoLog, ctxDone, streamVars>>

\* The deferred function of NewContainer.
Cleanup ==
    /\ At("mongoCleanup") /\ step' = "idle"
    /\ \/ MaySucceed /\ exists' = exists \ {"mongo"} /\ UNCHANGED <<excuse, loggerVars>>
       \/ Excused("mongo", "terminate") /\ TestLogs(mongoLog) /\ UNCHANGED exists
    /\ UNCHANGED <<held, wanted, mongoLog, ctxDone, streamVars>>

\* Terminate first disconnects the client; a failure is only logged.
TerminateMongo ==
    /\ At("idle") /\ "mongo" \in held
    /\ step' = "mongoTerminate"
    /\ \/ MaySucceed /\ exists' = exists \ {"client"} /\ UNCHANGED <<excuse, loggerVars>>
       \/ Excused("client", "disconnect") /\ TestLogs(mongoLog) /\ UNCHANGED exists
    /\ UNCHANGED <<held, wanted, mongoLog, ctxDone, streamVars>>

\* So is a failure to terminate: nil is returned, and the test lets go.
MongoTerminated ==
    /\ At("mongoTerminate") /\ step' = "idle"
    /\ \/ MaySucceed /\ exists' = exists \ {"mongo"} /\ UNCHANGED excuse
       \/ Excused("mongo", "terminate") /\ UNCHANGED exists
    /\ TestLogs(mongoLog)
    /\ held' = held \ {"mongo", "client"}
    /\ UNCHANGED <<wanted, mongoLog, ctxDone, streamVars>>

-----------------------------------------------------------------------------
(* app.NewContainer and Terminate.                                         *)

StartApp == StartContainer("app", "appLookup") /\ UNCHANGED mongoLog

\* MappedPort or Host fails: NewContainer returns without a handle.
AppLookupFails ==
    /\ At("appLookup") /\ step' = "idle"
    /\ Excused("app", "lookup")
    /\ UNCHANGED <<loggerVars, exists, held, wanted, mongoLog, ctxDone, streamVars>>

\* The goroutine of the logs is started.
StartStream ==
    /\ At("appLookup") /\ MaySucceed /\ step' = "appStarted"
    /\ Told(Test, Stream) /\ stream' = "open"
    /\ UNCHANGED <<mem, once, builder, levels, published, kept, took, early, panics,
                   exists, held, wanted, excuse, mongoLog, ctxDone, copy, logsOpen>>

AppStarted ==
    /\ At("appStarted") /\ step' = "idle"
    /\ TestLogs(Configured)
    /\ held' = held \cup {"app"}
    /\ UNCHANGED <<exists, wanted, excuse, mongoLog, ctxDone, streamVars>>

\* An error of Terminate reaches the test, which may call it again.
TerminateApp ==
    /\ At("idle") /\ "app" \in held /\ MaySucceed
    /\ exists' = exists \ {"app"} /\ held' = held \ {"app"}
    /\ UNCHANGED <<loggerVars, wanted, excuse, step, mongoLog, ctxDone, streamVars>>

-----------------------------------------------------------------------------
(* streamContainerLogs. Both goroutines write the variable err, unlocked.  *)

Ok == 0
Failed == 1

\* g uses the global logger.
ErrorLogged(g) ==
    /\ Logs(g)
    /\ UNCHANGED <<mem, once, builder, levels, published, inited, kept, took, early>>

Returns(g, e) ==
    /\ Write(g, "err", e)
    /\ UNCHANGED <<once, builder, levels, published, inited, kept, took, early, panics>>

\* container.Logs fails, or the copying goroutine is started.
LogsFail ==
    /\ Alive /\ stream = "open" /\ stream' = "done"
    /\ ErrorLogged(Stream)
    /\ UNCHANGED <<dockerVars, copy, logsOpen>>

StartCopy ==
    /\ Alive /\ stream = "open" /\ MaySucceed
    /\ stream' = "close" /\ copy' = "copying" /\ logsOpen' = TRUE
    /\ Told(Stream, Copy)
    /\ UNCHANGED <<mem, once, builder, levels, published, kept, took, early, panics, dockerVars>>

BugClosed == logsOpen                         \* nobody closes the reader
Closed == FALSE

\* The function has returned, and its deferred call closes the reader.
CloseLogs ==
    /\ Alive /\ stream = "close" /\ stream' = "check"
    /\ logsOpen' = Closed
    /\ \E e \in {Ok, Failed} : Returns(Stream, e)
    /\ UNCHANGED <<dockerVars, copy>>

\* What err is when g looks at it, after its own assignment.
Looks(g) ==
    IF Readable(g, "err") = {Ok} THEN UNCHANGED loggerVars
    ELSE \/ ErrorLogged(g)
         \/ Ok \in Readable(g, "err") /\ UNCHANGED loggerVars

CloseChecked ==
    /\ Alive /\ stream = "check" /\ stream' = "done"
    /\ Looks(Stream)
    /\ UNCHANGED <<dockerVars, copy, logsOpen>>

CopyReturns(e) ==
    /\ Alive /\ copy = "copying" /\ copy' = "check"
    /\ Returns(Copy, e)
    /\ UNCHANGED <<dockerVars, stream, logsOpen>>

\* io.Copy ends with the context, or since the reader was closed.
CopyEnds == (~logsOpen \/ ctxDone) /\ CopyReturns(Failed)

\* The logs are not followed: they end with what was written so far, as soon as
\* Docker has sent it all.
LogsEnd == CopyReturns(Ok)

CopyChecked ==
    /\ Alive /\ copy = "check" /\ copy' = "done"
    /\ Looks(Copy)
    /\ UNCHANGED <<dockerVars, stream, logsOpen>>

-----------------------------------------------------------------------------
(* Around the test.                                                        *)

CtxExpire ==
    /\ Alive /\ ~ctxDone /\ ctxDone' = TRUE
    /\ UNCHANGED <<loggerVars, exists, held, wanted, excuse, step, mongoLog, streamVars>>

\* The process in a container ends, and Docker removes it (AutoRemove).
Ends(r) ==
    /\ Alive /\ r \in exists \cap {"mongo", "app"}
    /\ exists' = exists \ {r}
    /\ UNCHANGED <<loggerVars, held, wanted, excuse, step, mongoLog, ctxDone, streamVars>>

TestStep ==
    \/ NewNetwork \/ Remove
    \/ StartMongo \/ MongoLookup \/ ConnectFails \/ MongoStarted \/ Cleanup
    \/ TerminateMongo \/ MongoTerminated
    \/ StartApp \/ AppLookupFails \/ StartStream \/ AppStarted \/ TerminateApp

StreamStep == LogsFail \/ StartCopy \/ CloseLogs \/ CloseChecked

CopyStep == CopyEnds \/ CopyChecked

\* The test uses the logger between its calls.
Next ==
    \/ (TestStep \/ StreamStep \/ CopyStep \/ LogsEnd \/ CtxExpire) /\ UNCHANGED calls
    \/ \E r \in Resources : Ends(r) /\ UNCHANGED calls
    \/ /\ calls < MaxCalls
       /\ calls' = IF calls = Unbounded THEN calls ELSE calls + 1
       /\ \E g \in Users : (g = Test => step = "idle") /\ LoggerCall(g)
       /\ UNCHANGED testVars
    \/ \E g \in Users : InitEnds(g) /\ UNCHANGED <<testVars, calls>>

Spec == Init /\ [][Next]_vars

\* The goroutines run; nothing makes the test go on, nor Docker send the logs.
FairSpec == Spec /\ WF_vars(StreamStep /\ UNCHANGED calls) /\ WF_vars(CopyStep /\ UNCHANGED calls)

-----------------------------------------------------------------------------
(* Properties.                                                             *)

\* The failed calls that r may be left behind by: Docker made or kept it although
\* the call failed; a client did not ping; the port of the service, not that of
\* MongoDB, could not be read.
Causes == [network |-> {"start"}, mongo |-> {"start", "terminate"},
           client |-> {"ping", "disconnect"}, app |-> {"start", "lookup"}]

\* A call that fails undoes what it did before, as far as Docker lets it. Between
\* two calls, the test has a handle of all that exists but for a failure of the
\* call that worked on it: a MongoDB container whose port could not be read, or
\* whose client not be made, is gone. A start of the service that failed has
\* not started the goroutines that copy its logs.
NothingLeftBehind ==
    (Alive /\ step = "idle") =>
        /\ \A r \in exists \ held : excuse[r] \in Causes[r]
        /\ stream # "off" => excuse["app"] = "none"

\* Copying ends as soon as the two goroutines have run, while the container
\* goes on: the deferred Close cuts the logs off (and nothing leaks).
CopyingEnds == copy = "copying" ~> (copy # "copying" \/ ~Alive)
=============================================================================
