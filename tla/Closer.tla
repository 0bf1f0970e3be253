------------------------------- MODULE Closer -------------------------------
(***************************************************************************)
(* The graceful-shutdown manager of the platform library                   *)
(* (week4/boilerplates/pkg/closer/closer.go): functions are registered     *)
(* with Add, and the first call of CloseAll - made by the program or by    *)
(* the goroutine that waits for an OS signal - runs them concurrently and  *)
(* collects their errors until they all end or its context does.           *)
(*                                                                         *)
(* One action is one step of one goroutine between two points where the    *)
(* others can see it: a lock section, a channel operation, sync.Once, a    *)
(* WaitGroup operation, the start or the end of a closing function.        *)
(*                                                                         *)
(* A definition whose name begins with Bug is the next one with a mistake  *)
(* in it. No specification uses it: it is there to show that a property    *)
(* below can tell that mistake.                                            *)
(***************************************************************************)
EXTENDS Integers, Sequences, FiniteSets

CONSTANTS
    Callers,      \* goroutines of the program that may call CloseAll themselves
    Watchers,     \* goroutines running handleSignals
    Funcs,        \* closing functions: each registration is one of them
    Batches,      \* argument lists the program passes to Add
    Kind,         \* how a closing function behaves, see FuncKinds
    Deadlined,    \* the CloseAll calls whose context gets cancelled or times out
    MaxSignals,   \* bound on the OS signals sent to the process
    NoErr,        \* the nil error
    CtxErr,       \* ctx.Err() of the context CloseAll was given
    Nobody        \* no goroutine has won sync.Once yet

Procs == Callers \cup Watchers

\* "prompt" ends by itself, "patient" ends for sure only once its context is
\* done, "stuck" may ignore even that, "reentrant" calls CloseAll again.
FuncKinds == {"prompt", "patient", "stuck", "reentrant"}

ASSUME ConstAssumption ==
    /\ IsFiniteSet(Funcs)
    /\ Callers \cap Watchers = {}
    /\ Nobody \notin Procs
    /\ NoErr \notin Funcs /\ CtxErr \notin Funcs /\ NoErr # CtxErr
    /\ Batches \subseteq Seq(Funcs)
    /\ \A s \in Batches : \A i, j \in 1..Len(s) : s[i] = s[j] => i = j
    /\ Kind \in [Funcs -> FuncKinds]
    /\ Watchers \subseteq Deadlined      \* context.WithTimeout in handleSignals
    /\ Deadlined \subseteq Procs
    /\ MaxSignals \in Nat

VARIABLES
    funcs,       \* Closer.funcs
    once,        \* Closer.once: "idle", "running" or "done"
    doneClosed,  \* Closer.done is closed
    owner,       \* the goroutine that runs the function given to once.Do
    snap,        \* its local funcs
    idx,         \* its loop counter: snap[idx] is launched next
    wg,          \* its WaitGroup counter
    waiter,      \* the goroutine that closes errCh: "none", "waiting", "exited"
    errs,        \* everything ever sent on errCh, named by the sender
    rd,          \* how many of those the select loop has received
    errClosed,   \* errCh is closed
    result,      \* its local result
    fst,         \* where each closing function, and then its goroutine, is
    outcome,     \* how a closing function ended: "none", "ok", "err", "panic"
    pc,          \* where each goroutine of Procs is
    ret,         \* what its CloseAll returned
    ctxDone,     \* the goroutines of Procs whose context is done
    sigCh,       \* the watchers whose signal channel holds a signal
    signals,     \* how many OS signals have been sent
    proc         \* the process: "up", "killed" by a signal, "crashed" by a panic

shutdownVars == <<once, doneClosed, owner, snap, idx, result>>
chanVars == <<wg, waiter, errs, rd, errClosed>>
funcVars == <<funcs, fst, outcome>>
callVars == <<pc, ret, ctxDone>>
osVars == <<sigCh, signals>>
vars == <<shutdownVars, chanVars, funcVars, callVars, osVars, proc>>

FuncStates == {"new", "added", "taken", "spawned", "running", "nested",
               "sending", "leaving", "exited"}
PcStates == {"off", "spawned", "select",                  \* watchers only
             "idle", "once", "take", "launch", "collect", "close", "finish",
             "returned", "exited"}

Elems(s) == {s[i] : i \in 1..Len(s)}
Snap == Elems(snap)
Launched == {"spawned", "running", "nested", "sending", "leaving"}
Started == {"running", "nested", "sending", "leaving", "exited"}
BugErrCap == 1                                \* make(chan error, 1)
ErrCap == Len(snap)                           \* make(chan error, len(funcs))

Init ==
    /\ funcs = <<>> /\ once = "idle" /\ doneClosed = FALSE
    /\ owner = Nobody /\ snap = <<>> /\ idx = 0 /\ result = NoErr
    /\ wg = 0 /\ waiter = "none" /\ errs = <<>> /\ rd = 0 /\ errClosed = FALSE
    /\ fst = [f \in Funcs |-> "new"] /\ outcome = [f \in Funcs |-> "none"]
    /\ pc = [p \in Procs |-> IF p \in Watchers THEN "off" ELSE "idle"]
    /\ ret = [p \in Procs |-> NoErr] /\ ctxDone = {}
    /\ sigCh = {} /\ signals = 0 /\ proc = "up"

Goto(p, l) == pc' = [pc EXCEPT ![p] = l]

(* Conditions and values that the steps below are made of.                 *)

OnceFree == once = "idle"

BugOnceOver == once # "idle"                  \* an atomic flag instead
OnceOver == once = "done"

LoopStart == Len(funcs)

BugNextFunc == IF funcs = <<>> THEN snap[idx] ELSE Head(funcs)   \* c.funcs again
NextFunc == snap[idx]

BugCtxReady(p) == p \in ctxDone /\ rd < Len(errs)   \* looked at after an error only
CtxReady(p) == p \in ctxDone

BugCtxResult == result                        \* a timeout is not an error
CtxResult == IF result = NoErr THEN CtxErr ELSE result

ErrResult == IF result = NoErr THEN errs[rd + 1] ELSE result

BugWgAfter(f) == IF outcome[f] = "ok" THEN wg - 1 ELSE wg    \* Done not deferred
WgAfter(f) == wg - 1

BugAllDone == TRUE                            \* close(errCh) without wg.Wait()
AllDone == wg = 0

BugDoneAfter == snap # <<>>                   \* close(c.done) not deferred
DoneAfter == TRUE

\* The watchers between signal.Notify and signal.Stop.
BugNotified == {w \in Watchers : pc[w] = "select"}  \* Stop right after the signal
Notified == {w \in Watchers : pc[w] \notin {"off", "spawned", "exited"}}

-----------------------------------------------------------------------------
(* Registration.                                                           *)

Add(s) ==
    /\ \A f \in Elems(s) : fst[f] = "new"
    /\ funcs' = funcs \o s
    /\ fst' = [f \in Funcs |-> IF f \in Elems(s) THEN "added" ELSE fst[f]]
    /\ UNCHANGED <<shutdownVars, chanVars, outcome, callVars, osVars, proc>>

\* The wrapper only logs around f: what it registers behaves as f does.
AddNamed(f) == Add(<<f>>)

-----------------------------------------------------------------------------
(* CloseAll.                                                               *)

\* The program calls CloseAll.
Call(p) ==
    /\ p \in Callers /\ pc[p] = "idle"
    /\ Goto(p, "once")
    /\ UNCHANGED <<shutdownVars, chanVars, funcVars, ret, ctxDone, osVars, proc>>

\* once.Do for the first caller: it runs the function.
OnceEnter(p) ==
    /\ pc[p] = "once" /\ OnceFree
    /\ once' = "running" /\ owner' = p
    /\ Goto(p, "take")
    /\ UNCHANGED <<doneClosed, snap, idx, result, chanVars, funcVars, ret,
                   ctxDone, osVars, proc>>

\* once.Do for the others: it returns when the first call of it has ended.
\* The result they return is their own local variable, which is still nil.
OnceSkip(p) ==
    /\ pc[p] = "once" /\ OnceOver
    /\ ret' = [ret EXCEPT ![p] = NoErr]
    /\ Goto(p, "returned")
    /\ UNCHANGED <<shutdownVars, chanVars, funcVars, ctxDone, osVars, proc>>

TakeFuncs(p) ==
    /\ pc[p] = "take"
    /\ snap' = funcs /\ idx' = LoopStart /\ funcs' = <<>>
    /\ fst' = [f \in Funcs |-> IF f \in Elems(funcs) THEN "taken" ELSE fst[f]]
    /\ Goto(p, IF funcs = <<>> THEN "close" ELSE "launch")
    /\ UNCHANGED <<once, doneClosed, owner, result, chanVars, outcome, ret,
                   ctxDone, osVars, proc>>

\* One iteration of the loop: wg.Add(1), then the go statement.
Launch(p) ==
    /\ pc[p] = "launch" /\ idx > 0
    /\ wg' = wg + 1
    /\ fst' = [fst EXCEPT ![NextFunc] = "spawned"]
    /\ idx' = idx - 1
    /\ UNCHANGED <<once, doneClosed, owner, snap, result, waiter, errs, rd,
                   errClosed, funcs, outcome, callVars, osVars, proc>>

SpawnWaiter(p) ==
    /\ pc[p] = "launch" /\ idx = 0
    /\ waiter' = "waiting"
    /\ Goto(p, "collect")
    /\ UNCHANGED <<shutdownVars, wg, errs, rd, errClosed, funcVars, ret,
                   ctxDone, osVars, proc>>

\* The select loop. When several cases are ready, Go takes any of them.
CollectCtxDone(p) ==
    /\ pc[p] = "collect" /\ CtxReady(p)
    /\ result' = CtxResult
    /\ Goto(p, "close")
    /\ UNCHANGED <<once, doneClosed, owner, snap, idx, chanVars, funcVars, ret,
                   ctxDone, osVars, proc>>

CollectErr(p) ==
    /\ pc[p] = "collect" /\ rd < Len(errs)
    /\ rd' = rd + 1
    /\ result' = ErrResult
    /\ UNCHANGED <<once, doneClosed, owner, snap, idx, wg, waiter, errs,
                   errClosed, funcVars, callVars, osVars, proc>>

CollectDrained(p) ==
    /\ pc[p] = "collect" /\ rd = Len(errs) /\ errClosed
    /\ Goto(p, "close")
    /\ UNCHANGED <<shutdownVars, chanVars, funcVars, ret, ctxDone, osVars, proc>>

\* The deferred close(c.done). Closing a closed channel panics.
CloseDone(p) ==
    /\ pc[p] = "close"
    /\ proc' = IF doneClosed THEN "crashed" ELSE proc
    /\ doneClosed' = DoneAfter
    /\ Goto(p, "finish")
    /\ UNCHANGED <<once, owner, snap, idx, result, chanVars, funcVars, ret,
                   ctxDone, osVars>>

\* once.Do returns: the others may go on, and CloseAll returns result.
OnceExit(p) ==
    /\ pc[p] = "finish"
    /\ once' = "done"
    /\ ret' = [ret EXCEPT ![p] = result]
    /\ Goto(p, "returned")
    /\ UNCHANGED <<doneClosed, owner, snap, idx, result, chanVars, funcVars,
                   ctxDone, osVars, proc>>

Collect(p) == CollectCtxDone(p) \/ CollectErr(p) \/ CollectDrained(p)

\* What a goroutine does by itself once it is inside CloseAll.
CloseAllStep(p) ==
    \/ OnceEnter(p) \/ OnceSkip(p) \/ TakeFuncs(p) \/ Launch(p)
    \/ SpawnWaiter(p) \/ Collect(p) \/ CloseDone(p) \/ OnceExit(p)

-----------------------------------------------------------------------------
(* The goroutine of a closing function, and the one that closes errCh.     *)

FuncVarsOnly == UNCHANGED <<shutdownVars, wg, waiter, rd, errClosed, funcs,
                            callVars, osVars>>

FuncStart(f) ==
    /\ fst[f] = "spawned"
    /\ fst' = [fst EXCEPT ![f] = "running"]
    /\ FuncVarsOnly /\ UNCHANGED <<errs, outcome, proc>>

\* A closing function calls CloseAll of the same closer and waits in once.Do.
FuncReenter(f) ==
    /\ Kind[f] = "reentrant" /\ fst[f] = "running"
    /\ fst' = [fst EXCEPT ![f] = "nested"]
    /\ FuncVarsOnly /\ UNCHANGED <<errs, outcome, proc>>

\* f(ctx) returns nil or an error, or panics and is recovered; in the last
\* two cases its goroutine goes on to send on errCh.
FuncEnd(f, o) ==
    /\ \/ fst[f] = "running" /\ Kind[f] # "reentrant"
       \/ fst[f] = "nested" /\ OnceOver
    /\ outcome' = [outcome EXCEPT ![f] = o]
    /\ fst' = [fst EXCEPT ![f] = IF o = "ok" THEN "leaving" ELSE "sending"]
    /\ FuncVarsOnly /\ UNCHANGED <<errs, proc>>

\* errCh <- err. It panics on a closed channel, outside any recover, and
\* blocks on a full one.
SendErr(f) ==
    /\ fst[f] = "sending"
    /\ IF errClosed
       THEN proc' = "crashed" /\ UNCHANGED <<errs, fst>>
       ELSE /\ Len(errs) - rd < ErrCap
            /\ errs' = Append(errs, f)
            /\ fst' = [fst EXCEPT ![f] = "leaving"]
            /\ UNCHANGED proc
    /\ FuncVarsOnly /\ UNCHANGED outcome

\* The deferred wg.Done().
FuncDone(f) ==
    /\ fst[f] = "leaving"
    /\ fst' = [fst EXCEPT ![f] = "exited"]
    /\ wg' = WgAfter(f)
    /\ UNCHANGED <<shutdownVars, waiter, errs, rd, errClosed, funcs, outcome,
                   callVars, osVars, proc>>

\* wg.Wait() returns and errCh is closed.
WaiterClose ==
    /\ waiter = "waiting" /\ AllDone
    /\ waiter' = "exited" /\ errClosed' = TRUE
    /\ UNCHANGED <<shutdownVars, wg, errs, rd, funcVars, callVars, osVars, proc>>

-----------------------------------------------------------------------------
(* Signals and contexts.                                                   *)

\* Configure, or a constructor given signals: go handleSignals(...).
Configure(w) ==
    /\ w \in Watchers /\ pc[w] = "off"
    /\ Goto(w, "spawned")
    /\ UNCHANGED <<shutdownVars, chanVars, funcVars, ret, ctxDone, osVars, proc>>

Notify(w) ==
    /\ w \in Watchers /\ pc[w] = "spawned"
    /\ Goto(w, "select")
    /\ UNCHANGED <<shutdownVars, chanVars, funcVars, ret, ctxDone, osVars, proc>>

\* <-ch: a context with a timeout is made and CloseAll is called.
OnSignal(w) ==
    /\ w \in Watchers /\ pc[w] = "select" /\ w \in sigCh
    /\ sigCh' = sigCh \ {w}
    /\ Goto(w, "once")
    /\ UNCHANGED <<shutdownVars, chanVars, funcVars, ret, ctxDone, signals, proc>>

\* Variant: the select is in a loop that is never left.
BugOnDone(w) ==
    /\ w \in Watchers /\ pc[w] = "select" /\ doneClosed
    /\ UNCHANGED vars

\* <-c.done: CloseAll has been called by hand; signal.Stop is deferred.
OnDone(w) ==
    /\ w \in Watchers /\ pc[w] = "select" /\ doneClosed
    /\ Goto(w, "exited")
    /\ UNCHANGED <<shutdownVars, chanVars, funcVars, ret, ctxDone, osVars, proc>>

\* handleSignals ends after its CloseAll: shutdownCancel(), signal.Stop(ch).
WatcherExit(w) ==
    /\ w \in Watchers /\ pc[w] = "returned"
    /\ ctxDone' = ctxDone \cup {w}
    /\ Goto(w, "exited")
    /\ UNCHANGED <<shutdownVars, chanVars, funcVars, ret, osVars, proc>>

\* The OS sends a signal: os/signal offers it to every registered channel
\* without blocking; with none registered its default action ends the process.
Signal ==
    /\ signals < MaxSignals
    /\ signals' = signals + 1
    /\ sigCh' = sigCh \cup Notified
    /\ proc' = IF Notified = {} THEN "killed" ELSE proc
    /\ UNCHANGED <<shutdownVars, chanVars, funcVars, callVars>>

\* A context is cancelled or times out. A watcher makes its own after a signal.
CtxExpire(p) ==
    /\ p \in Deadlined \ ctxDone
    /\ pc[p] \notin {"off", "spawned", "select", "exited"}
    /\ ctxDone' = ctxDone \cup {p}
    /\ UNCHANGED <<shutdownVars, chanVars, funcVars, pc, ret, osVars, proc>>

-----------------------------------------------------------------------------
WatcherStep(w) == Notify(w) \/ OnSignal(w) \/ OnDone(w) \/ WatcherExit(w)

FuncStep(f) ==
    \/ FuncStart(f) \/ FuncReenter(f) \/ SendErr(f) \/ FuncDone(f)
    \/ \E o \in {"ok", "err", "panic"} : FuncEnd(f, o)

Next ==
    /\ proc = "up"
    /\ \/ \E s \in Batches : Add(s)
       \/ \E f \in Funcs : AddNamed(f) \/ FuncStep(f)
       \/ \E p \in Procs : Call(p) \/ CloseAllStep(p) \/ CtxExpire(p)
       \/ \E w \in Watchers : Configure(w) \/ WatcherStep(w)
       \/ WaiterClose
       \/ Signal

Spec == Init /\ [][Next]_vars

\* Every goroutine that can run is run by the Go scheduler, timers fire and
\* contexts with a deadline end. Nothing makes the program call Add, CloseAll
\* or Configure, the OS send a signal, or a closing function return, except as
\* its kind says.
CtxOfShutdownDone == owner \in ctxDone
FuncReturns(f) == \E o \in {"ok", "err", "panic"} : FuncEnd(f, o)

Fairness ==
    /\ \A p \in Procs : WF_vars(proc = "up" /\ CloseAllStep(p))
    /\ \A p \in Procs : WF_vars(proc = "up" /\ pc[p] # "idle" /\ CtxExpire(p))
    /\ \A w \in Watchers : WF_vars(proc = "up" /\ WatcherStep(w))
    /\ \A f \in Funcs :
         /\ WF_vars(proc = "up" /\ (FuncStart(f) \/ SendErr(f) \/ FuncDone(f)))
         /\ WF_vars(proc = "up" /\ FuncReenter(f))
         /\ WF_vars(/\ proc = "up" /\ Kind[f] # "stuck"
                    /\ Kind[f] = "patient" => CtxOfShutdownDone
                    /\ FuncReturns(f))
    /\ WF_vars(proc = "up" /\ WaiterClose)

FairSpec == Spec /\ Fairness

-----------------------------------------------------------------------------
(* Safety.                                                                 *)

\* Every variable has its type.
TypeOK ==
    /\ funcs \in Seq(Funcs) /\ snap \in Seq(Funcs)
    /\ once \in {"idle", "running", "done"} /\ doneClosed \in BOOLEAN
    /\ owner \in Procs \cup {Nobody}
    /\ idx \in 0..Len(snap) /\ wg \in Int
    /\ waiter \in {"none", "waiting", "exited"}
    /\ errs \in Seq(Funcs) /\ rd \in 0..Len(errs) /\ errClosed \in BOOLEAN
    /\ result \in Funcs \cup {NoErr, CtxErr}
    /\ fst \in [Funcs -> FuncStates]
    /\ outcome \in [Funcs -> {"none", "ok", "err", "panic"}]
    /\ pc \in [Procs -> PcStates]
    /\ ret \in [Procs -> Funcs \cup {NoErr, CtxErr}]
    /\ ctxDone \subseteq Procs /\ sigCh \subseteq Watchers
    /\ signals \in 0..MaxSignals
    /\ proc \in {"up", "killed", "crashed"}

\* No goroutine panics on a channel: errCh is closed only when no closing
\* function can send on it any more, and done is closed once, however many
\* calls of CloseAll, signals and panicking functions there are.
NoCrash == proc # "crashed"

\* A closing function that has an error to report always finds room in errCh,
\* even after CloseAll has returned on its context and nobody receives any
\* more: its goroutine never leaks there.
SendNeverBlocks ==
    \A f \in Funcs : fst[f] = "sending" => Len(errs) - rd < ErrCap

\* The call that shuts down gives nil only if every function it took was run
\* to its end and succeeded: a timeout, an error or a panic is never lost.
NilMeansAllClosed ==
    (owner # Nobody /\ pc[owner] \in {"close", "finish", "returned", "exited"}
       /\ result = NoErr)
      => \A f \in Snap : fst[f] = "exited" /\ outcome[f] = "ok"

\* The result is the first error received; later ones and the end of the
\* context never replace it.
FirstErrorWins ==
    IF rd > 0 THEN result = errs[1] ELSE result \in {NoErr, CtxErr}

\* No call of CloseAll returns, and no watcher gives up its signals, before
\* the shutdown has ended: a second caller may rely on it.
NobodyReturnsEarly ==
    \A p \in Procs : pc[p] \in {"returned", "exited"} => doneClosed

\* Once a watcher listens, no signal kills the process before the shutdown
\* has ended: not a signal sent while it runs, nor one that races a manual
\* CloseAll.
SignalNeverKillsEarly ==
    (proc = "killed" /\ \E w \in Watchers : pc[w] \notin {"off", "spawned"})
      => doneClosed

-----------------------------------------------------------------------------
(* Action properties.                                                      *)

\* A function registered after CloseAll has taken its list is never run: Add
\* accepts it and nothing reports the loss.
LateAddIsNeverRun ==
    [][\A f \in Funcs :
         (fst[f] = "added" /\ owner # Nobody /\ pc[owner] # "take")
            => fst'[f] = "added"]_vars

-----------------------------------------------------------------------------
(* Liveness.                                                               *)

\* Every call of CloseAll returns.
EveryCallReturns ==
    \A p \in Procs :
        (pc[p] = "once") ~> (pc[p] \in {"returned", "exited"} \/ proc # "up")

\* Every function that was taken is run and its goroutine ends, even when
\* CloseAll gave up on its context before that.
EveryGoroutineEnds ==
    \A f \in Funcs : (fst[f] = "taken") ~> (fst[f] = "exited" \/ proc # "up")

\* A signal that a watcher received is followed by the end of a shutdown.
SignalShutsDown == (sigCh # {}) ~> (doneClosed \/ proc # "up")

\* After a shutdown every watcher that was started leaves its select and
\* stops listening, whoever called CloseAll.
WatchersLeave ==
    doneClosed ~> (proc # "up" \/ \A w \in Watchers : pc[w] \in {"off", "exited"})

-----------------------------------------------------------------------------
(* What comments of the code say of it, and the code does not do.          *)

\* closer.go:157, "Выполняем в обратном порядке добавления": a function is
\* started only after those registered later.
ReverseOrder ==
    \A i, j \in 1..Len(snap) :
        i < j /\ fst[snap[i]] \in Started => fst[snap[j]] \in Started

\* closer.go:135, "Возвращает первую возникшую ошибку, если таковая была":
\* when a closing function failed and its error was received, every CloseAll
\* that returned says so.
EveryCallerGetsTheError ==
    \A p \in Procs : (pc[p] = "returned" /\ rd > 0) => ret[p] = errs[1]
=============================================================================
