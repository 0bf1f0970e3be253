------------------------------ MODULE CloserInd ------------------------------
(***************************************************************************)
(* The inductive invariant of Closer: why no goroutine ever panics on a    *)
(* channel, blocks on errCh for good, or returns before the shutdown.      *)
(***************************************************************************)
EXTENDS Closer

\* The labels inside the function given to once.Do.
Inside == {"take", "launch", "collect", "close", "finish"}

\* sync.Once has one winner; done is closed at the end of what it runs.
OnceInv ==
    /\ once = "idle" <=> owner = Nobody
    /\ \A p \in Procs : pc[p] \in Inside => p = owner /\ once = "running"
    /\ once = "running" => pc[owner] \in Inside
    /\ once = "done" => pc[owner] \in {"returned", "exited"}
    /\ doneClosed <=> (once = "done" \/ (once = "running" /\ pc[owner] = "finish"))
    /\ \A p \in Procs : pc[p] \in {"returned", "exited"} => doneClosed

\* Nothing has been taken yet.
Fresh == once = "idle" \/ (once = "running" /\ pc[owner] = "take")

\* A function is in exactly one place: the list of the closer, the part of the
\* winner's list that is still to be launched, or a goroutine.
ListInv ==
    /\ \A i, j \in 1..Len(funcs) : funcs[i] = funcs[j] => i = j
    /\ \A i \in 1..Len(funcs) : fst[funcs[i]] = "added"
    /\ \A i, j \in 1..Len(snap) : snap[i] = snap[j] => i = j
    /\ \A f \in Funcs : fst[f] \notin {"new", "added"} => f \in Snap
    /\ Fresh => snap = <<>> /\ idx = 0 /\ waiter = "none"
    /\ \A i \in 1..idx : fst[snap[i]] = "taken"
    /\ \A i \in (idx + 1)..Len(snap) : fst[snap[i]] \in Launched \cup {"exited"}
    /\ idx > 0 => once = "running" /\ pc[owner] = "launch"

Live == {f \in Funcs : fst[f] \in Launched}

\* The WaitGroup counts the goroutines that may still send; errCh is closed
\* when there are none and there will be none; each of them sends at most once.
ChanInv ==
    /\ wg = Cardinality(Live)
    /\ waiter # "none" => idx = 0
    /\ (once = "running" /\ pc[owner] = "launch") => waiter = "none"
    /\ errClosed => idx = 0 /\ Live = {} /\ waiter = "exited"
    /\ \A i, j \in 1..Len(errs) : errs[i] = errs[j] => i = j
    /\ \A i \in 1..Len(errs) : fst[errs[i]] \in {"leaving", "exited"}

\* A function that failed reports it before its goroutine ends, and the select
\* loop leaves without an error only when it has seen all there will ever be.
ResultInv ==
    /\ \A f \in Funcs : fst[f] = "sending" => outcome[f] # "ok"
    /\ \A f \in Funcs :
         fst[f] \in {"leaving", "exited"} => outcome[f] = "ok" \/ f \in Elems(errs)
    /\ FirstErrorWins
    /\ (once = "idle" \/ pc[owner] \in {"take", "launch", "collect"}) /\ rd = 0
         => result = NoErr
    /\ (owner # Nobody /\ pc[owner] \in {"close", "finish", "returned", "exited"}
          /\ result = NoErr)
         => errs = <<>> /\ (errClosed \/ snap = <<>>)

\* A registered function waits in the list; one that has not ended has no
\* outcome; the winner does not collect before the waiter is there, and that
\* one goes only after it has closed errCh.
PlaceInv ==
    /\ \A f \in Funcs : fst[f] = "added" => f \in Elems(funcs)
    /\ \A f \in Funcs : fst[f] \notin {"sending", "leaving", "exited"} => outcome[f] = "none"
    /\ (once = "running" /\ pc[owner] = "collect") => waiter # "none"
    /\ waiter = "exited" => errClosed

\* The inductive invariant.
IInv == TypeOK /\ OnceInv /\ ListInv /\ ChanInv /\ ResultInv /\ NoCrash /\ PlaceInv

-----------------------------------------------------------------------------
(* What waits for what.                                                    *)

\* The goroutines of the library that can take a step without the program, the
\* OS or a deadline (the negation of each guard is a channel operation, a
\* sync.Once or a WaitGroup that blocks).
CallCanStep(p) ==
    \/ pc[p] \in Inside \ {"collect"}
    \/ pc[p] = "once" /\ once # "running"
    \/ pc[p] = "collect" /\ (p \in ctxDone \/ rd < Len(errs) \/ errClosed)

WatcherCanStep(w) ==
    \/ pc[w] \in {"spawned", "returned"}
    \/ pc[w] = "select" /\ (w \in sigCh \/ doneClosed)

FuncCanStep(f) ==
    \/ fst[f] \in {"spawned", "leaving"}
    \/ fst[f] = "sending" /\ (errClosed \/ Len(errs) - rd < ErrCap)

LibraryCanStep ==
    \/ \E p \in Procs : CallCanStep(p)
    \/ \E w \in Watchers : WatcherCanStep(w)
    \/ \E f \in Funcs : FuncCanStep(f)
    \/ waiter = "waiting" /\ AllDone

\* When none of them can, nobody waits in vain: whoever is inside CloseAll
\* waits for the winner, the winner for a closing function that was started
\* and has not returned, and for nothing else; after a shutdown no watcher is
\* left in its select.
NobodyWaitsInVain ==
    (proc = "up" /\ ~LibraryCanStep) =>
        /\ \A f \in Funcs : fst[f] \in {"new", "added", "running", "nested", "exited"}
        /\ \A w \in Watchers : doneClosed => pc[w] \notin {"spawned", "select", "returned"}
        /\ (\E p \in Procs : pc[p] \in Inside \cup {"once"}) =>
              /\ once = "running" /\ pc[owner] = "collect"
              /\ \E f \in Snap : fst[f] \in {"running", "nested"}
=============================================================================
