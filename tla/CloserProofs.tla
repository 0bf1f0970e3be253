---------------------------- MODULE CloserProofs ----------------------------
(***************************************************************************)
(* Proofs about Closer, for any number of callers, watchers, closing       *)
(* functions, batches and signals.                                         *)
(***************************************************************************)
EXTENDS CloserInd, CloserRefines, SequenceTheorems, FiniteSetTheorems, TLAPS

USE DEF OnceFree, OnceOver, LoopStart, NextFunc, CtxReady, CtxResult, ErrResult,
        WgAfter, AllDone, DoneAfter

-----------------------------------------------------------------------------
(* Type correctness.                                                       *)

\* Every registration keeps the types.
LEMMA AddType ==
    ASSUME TypeOK, NEW s \in Seq(Funcs), Add(s)
    PROVE  TypeOK'
<1>1. funcs' \in Seq(Funcs)
    BY ConcatProperties DEF TypeOK, Add
<1>2. fst' \in [Funcs -> FuncStates]
    BY DEF TypeOK, Add, FuncStates
<1> QED
    BY <1>1, <1>2 DEF TypeOK, Add, shutdownVars, chanVars, callVars, osVars

\* Every step of a goroutine inside CloseAll keeps the types.
LEMMA CloseAllType ==
    ASSUME TypeOK, NEW p \in Procs, CloseAllStep(p)
    PROVE  TypeOK'
<1> USE ConstAssumption DEF TypeOK, PcStates, FuncStates, shutdownVars, chanVars,
        funcVars, callVars, osVars, Goto
<1>1. CASE OnceEnter(p)
    BY <1>1 DEF OnceEnter
<1>2. CASE OnceSkip(p)
    BY <1>2 DEF OnceSkip
<1>3. CASE TakeFuncs(p)
  <2>1. idx' \in 0..Len(snap')
      BY <1>3, LenProperties DEF TakeFuncs
  <2>2. fst' \in [Funcs -> FuncStates]
      BY <1>3 DEF TakeFuncs
  <2>3. funcs' \in Seq(Funcs) /\ pc' \in [Procs -> PcStates]
      BY <1>3 DEF TakeFuncs
  <2> QED
      BY <1>3, <2>1, <2>2, <2>3 DEF TakeFuncs
<1>4. CASE Launch(p)
  <2>1. idx' \in 0..Len(snap') /\ wg' \in Int
      BY <1>4, LenProperties DEF Launch
  <2>2. fst' \in [Funcs -> FuncStates]
      BY <1>4 DEF Launch
  <2> QED
      BY <1>4, <2>1, <2>2 DEF Launch
<1>5. CASE SpawnWaiter(p)
    BY <1>5 DEF SpawnWaiter
<1>6. CASE CollectCtxDone(p)
    BY <1>6 DEF CollectCtxDone
<1>7. CASE CollectErr(p)
  <2>1. rd' \in 0..Len(errs') /\ rd + 1 \in 1..Len(errs)
      BY <1>7, LenProperties DEF CollectErr
  <2>2. errs[rd + 1] \in Funcs
      BY <2>1, ElementOfSeq
  <2> QED
      BY <1>7, <2>1, <2>2 DEF CollectErr
<1>8. CASE CollectDrained(p)
    BY <1>8 DEF CollectDrained
<1>9. CASE CloseDone(p)
    BY <1>9 DEF CloseDone
<1>10. CASE OnceExit(p)
    BY <1>10 DEF OnceExit
<1> QED
    BY <1>1, <1>2, <1>3, <1>4, <1>5, <1>6, <1>7, <1>8, <1>9, <1>10
    DEF CloseAllStep, Collect

\* Every step of a closing function and of its goroutine keeps the types.
LEMMA FuncType ==
    ASSUME TypeOK, NEW f \in Funcs, FuncStep(f)
    PROVE  TypeOK'
<1> USE DEF TypeOK, FuncStates, FuncVarsOnly, shutdownVars, chanVars, funcVars,
        callVars, osVars
<1>1. CASE FuncStart(f)
    BY <1>1 DEF FuncStart
<1>2. CASE FuncReenter(f)
    BY <1>2 DEF FuncReenter
<1>3. ASSUME NEW o \in {"ok", "err", "panic"}, FuncEnd(f, o)
      PROVE  TypeOK'
    BY <1>3 DEF FuncEnd
<1>4. CASE SendErr(f)
  <2>1. CASE errClosed
      BY <1>4, <2>1 DEF SendErr
  <2>2. CASE ~errClosed
    <3>1. errs \in Seq(Funcs) /\ errs' = Append(errs, f)
        BY <1>4, <2>2 DEF SendErr
    <3>2. errs' \in Seq(Funcs) /\ Len(errs') = Len(errs) + 1
        BY <3>1
    <3>3. rd' \in 0..Len(errs')
        BY <1>4, <3>2, LenProperties DEF SendErr
    <3> QED
        BY <1>4, <2>2, <3>2, <3>3 DEF SendErr
  <2> QED
      BY <2>1, <2>2
<1>5. CASE FuncDone(f)
    BY <1>5 DEF FuncDone
<1> QED
    BY <1>1, <1>2, <1>3, <1>4, <1>5 DEF FuncStep

\* Signals, contexts and the goroutines that watch for them keep the types.
LEMMA WatcherType ==
    ASSUME TypeOK, NEW w \in Watchers, Configure(w) \/ WatcherStep(w)
    PROVE  TypeOK'
BY w \in Procs DEF TypeOK, PcStates, Configure, WatcherStep, Notify, OnSignal,
   OnDone, WatcherExit, Goto, Procs, shutdownVars, chanVars, funcVars, callVars, osVars

\* Type correctness: every reachable state of the closer is well typed.
THEOREM CloserTypeOK == Spec => []TypeOK
<1>1. Init => TypeOK
  <2> SUFFICES ASSUME Init PROVE TypeOK
      OBVIOUS
  <2>1. /\ funcs \in Seq(Funcs) /\ snap \in Seq(Funcs) /\ errs \in Seq(Funcs)
        /\ idx \in 0..Len(snap) /\ rd \in 0..Len(errs) /\ wg \in Int
      BY EmptySeq DEF Init
  <2>2. /\ fst \in [Funcs -> FuncStates]
        /\ outcome \in [Funcs -> {"none", "ok", "err", "panic"}]
      BY DEF Init, FuncStates
  <2>3. /\ pc \in [Procs -> PcStates]
        /\ ret \in [Procs -> Funcs \cup {NoErr, CtxErr}]
      BY DEF Init, PcStates
  <2>4. /\ once \in {"idle", "running", "done"} /\ doneClosed \in BOOLEAN
        /\ owner \in Procs \cup {Nobody} /\ waiter \in {"none", "waiting", "exited"}
        /\ errClosed \in BOOLEAN /\ result \in Funcs \cup {NoErr, CtxErr}
      BY DEF Init
  <2>5. /\ ctxDone \subseteq Procs /\ sigCh \subseteq Watchers
        /\ proc \in {"up", "killed", "crashed"}
      BY DEF Init
  <2>6. signals \in 0..MaxSignals
      BY ConstAssumption DEF Init
  <2> QED
      BY <2>1, <2>2, <2>3, <2>4, <2>5, <2>6 DEF TypeOK
<1>2. TypeOK /\ [Next]_vars => TypeOK'
  <2> SUFFICES ASSUME TypeOK, [Next]_vars PROVE TypeOK'
      OBVIOUS
  <2>1. ASSUME NEW s \in Batches, Add(s) PROVE TypeOK'
      BY <2>1, AddType, ConstAssumption
  <2>2. ASSUME NEW f \in Funcs, AddNamed(f) PROVE TypeOK'
      BY <2>2, AddType, <<f>> \in Seq(Funcs) DEF AddNamed
  <2>3. ASSUME NEW f \in Funcs, FuncStep(f) PROVE TypeOK'
      BY <2>3, FuncType
  <2>4. ASSUME NEW p \in Procs, Call(p) PROVE TypeOK'
      BY <2>4 DEF TypeOK, Call, Goto, PcStates, shutdownVars, chanVars, funcVars, osVars
  <2>5. ASSUME NEW p \in Procs, CloseAllStep(p) PROVE TypeOK'
      BY <2>5, CloseAllType
  <2>6. ASSUME NEW p \in Procs, CtxExpire(p) PROVE TypeOK'
      BY <2>6 DEF TypeOK, CtxExpire, shutdownVars, chanVars, funcVars, osVars
  <2>7. ASSUME NEW w \in Watchers, Configure(w) \/ WatcherStep(w) PROVE TypeOK'
      BY <2>7, WatcherType
  <2>8. CASE WaiterClose
      BY <2>8 DEF TypeOK, WaiterClose, shutdownVars, funcVars, callVars, osVars
  <2>9. CASE Signal
      BY <2>9, ConstAssumption DEF TypeOK, Signal, Notified, shutdownVars, chanVars,
         funcVars, callVars
  <2>10. CASE UNCHANGED vars
      BY <2>10 DEF TypeOK, vars, shutdownVars, chanVars, funcVars, callVars, osVars
  <2> QED
      BY <2>1, <2>2, <2>3, <2>4, <2>5, <2>6, <2>7, <2>8, <2>9, <2>10 DEF Next
<1> QED
    BY <1>1, <1>2, PTL DEF Spec

-----------------------------------------------------------------------------
(* One winner of sync.Once.                                                *)

\* A goroutine outside once.Do that moves to a label outside it leaves
\* OnceInv alone, if it only returns once done is closed.
LEMMA MoveOutside ==
    ASSUME TypeOK, OnceInv, NEW p \in Procs, NEW l \in PcStates \ Inside,
           Goto(p, l), pc[p] \notin Inside,
           l \in {"returned", "exited"} => doneClosed,
           pc[p] \in {"returned", "exited"} => l \in {"returned", "exited"},
           UNCHANGED <<once, owner, doneClosed>>
    PROVE  OnceInv'
<1>1. \A q \in Procs : pc'[q] = IF q = p THEN l ELSE pc[q]
    BY DEF Goto, TypeOK
<1>2. once = "running" => owner \in Procs
    BY DEF OnceInv, TypeOK
<1>3. \A q \in Procs : pc'[q] \in Inside => pc[q] = pc'[q]
    BY <1>1
<1>4. once = "running" => pc'[owner] = pc[owner]
    BY <1>1, <1>2 DEF OnceInv
<1>5. \A q \in Procs : pc'[q] \in {"returned", "exited"} => doneClosed'
    BY <1>1 DEF OnceInv
<1>6. once = "done" => pc'[owner] \in {"returned", "exited"}
    BY <1>1, ConstAssumption DEF OnceInv, TypeOK
<1> QED
    BY <1>3, <1>4, <1>5, <1>6 DEF OnceInv

\* The winner moves on inside once.Do, before the deferred close(done).
LEMMA MoveInside ==
    ASSUME TypeOK, OnceInv, NEW p \in Procs,
           NEW l \in {"launch", "collect", "close"},
           Goto(p, l), pc[p] \in Inside, pc[p] # "finish",
           UNCHANGED <<once, owner, doneClosed>>
    PROVE  OnceInv'
<1>1. \A q \in Procs : pc'[q] = IF q = p THEN l ELSE pc[q]
    BY DEF Goto, TypeOK
<1>2. p = owner /\ once = "running"
    BY DEF OnceInv
<1>3. \A q \in Procs : pc'[q] \in Inside => q = owner
    BY <1>1, <1>2 DEF OnceInv
<1>4. pc'[owner] \in Inside /\ pc'[owner] # "finish" /\ pc[owner] # "finish"
    BY <1>1, <1>2 DEF Inside
<1>5. \A q \in Procs : pc'[q] \in {"returned", "exited"} => doneClosed'
    BY <1>1 DEF OnceInv
<1> QED
    BY <1>2, <1>3, <1>4, <1>5 DEF OnceInv

\* Steps that touch none of what OnceInv is about.
LEMMA OnceSame ==
    ASSUME OnceInv, UNCHANGED <<once, owner, doneClosed, pc>>
    PROVE  OnceInv'
BY DEF OnceInv

\* Inside CloseAll.
LEMMA CloseAllOnce ==
    ASSUME TypeOK, OnceInv, NEW p \in Procs, CloseAllStep(p)
    PROVE  OnceInv'
<1>1. CASE OnceEnter(p)
  <2>1. /\ pc'[p] = "take" /\ owner' = p /\ once' = "running" /\ ~doneClosed'
        /\ \A q \in Procs \ {p} : pc'[q] = pc[q]
      BY <1>1 DEF OnceEnter, Goto, TypeOK, OnceInv
  <2>2. \A q \in Procs : pc[q] \notin Inside \cup {"returned", "exited"}
      BY <1>1 DEF OnceEnter, OnceInv
  <2> QED
      BY <2>1, <2>2, ConstAssumption DEF OnceInv, Inside
<1>2. CASE OnceSkip(p)
    BY <1>2, MoveOutside DEF OnceSkip, Inside, PcStates, OnceInv, shutdownVars
<1>3. CASE TakeFuncs(p)
    BY <1>3, MoveInside DEF TakeFuncs, Inside
<1>4. CASE Launch(p)
    BY <1>4, OnceSame DEF Launch, callVars
<1>5. CASE SpawnWaiter(p)
    BY <1>5, MoveInside DEF SpawnWaiter, Inside, shutdownVars
<1>6. CASE CollectCtxDone(p)
    BY <1>6, MoveInside DEF CollectCtxDone, Inside
<1>7. CASE CollectErr(p)
    BY <1>7, OnceSame DEF CollectErr, callVars
<1>8. CASE CollectDrained(p)
    BY <1>8, MoveInside DEF CollectDrained, Inside, shutdownVars
<1>9. CASE CloseDone(p)
  <2>1. p = owner /\ once = "running"
      BY <1>9 DEF CloseDone, OnceInv, Inside
  <2>2. pc'[p] = "finish" /\ \A q \in Procs \ {p} : pc'[q] = pc[q]
      BY <1>9 DEF CloseDone, Goto, TypeOK
  <2> QED
      BY <1>9, <2>1, <2>2 DEF CloseDone, OnceInv, Inside
<1>10. CASE OnceExit(p)
  <2>1. p = owner /\ once = "running" /\ doneClosed
      BY <1>10 DEF OnceExit, OnceInv, Inside
  <2>2. pc'[p] = "returned" /\ \A q \in Procs \ {p} : pc'[q] = pc[q]
      BY <1>10 DEF OnceExit, Goto, TypeOK
  <2> QED
      BY <1>10, <2>1, <2>2 DEF OnceExit, OnceInv, Inside
<1> QED
    BY <1>1, <1>2, <1>3, <1>4, <1>5, <1>6, <1>7, <1>8, <1>9, <1>10
    DEF CloseAllStep, Collect

\* The goroutines of handleSignals.
LEMMA WatcherOnce ==
    ASSUME TypeOK, OnceInv, NEW w \in Watchers, Configure(w) \/ WatcherStep(w)
    PROVE  OnceInv'
<1> w \in Procs
    BY DEF Procs
<1>1. CASE Configure(w)
    BY <1>1, MoveOutside DEF Configure, Inside, PcStates, shutdownVars
<1>2. CASE Notify(w)
    BY <1>2, MoveOutside DEF Notify, Inside, PcStates, shutdownVars
<1>3. CASE OnSignal(w)
    BY <1>3, MoveOutside DEF OnSignal, Inside, PcStates, shutdownVars
<1>4. CASE OnDone(w)
    BY <1>4, MoveOutside DEF OnDone, Inside, PcStates, shutdownVars
<1>5. CASE WatcherExit(w)
    BY <1>5, MoveOutside DEF WatcherExit, Inside, PcStates, shutdownVars, OnceInv
<1> QED
    BY <1>1, <1>2, <1>3, <1>4, <1>5 DEF WatcherStep

\* Every step of the system.
LEMMA NextOnce ==
    ASSUME TypeOK, OnceInv, [Next]_vars
    PROVE  OnceInv'
<1>1. ASSUME NEW s, Add(s) PROVE OnceInv'
    BY <1>1, OnceSame DEF Add, shutdownVars, callVars
<1>2. ASSUME NEW f \in Funcs, AddNamed(f) PROVE OnceInv'
    BY <1>1, <1>2 DEF AddNamed
<1>3. ASSUME NEW f \in Funcs, FuncStep(f) PROVE OnceInv'
    BY <1>3, OnceSame DEF FuncStep, FuncStart, FuncReenter, FuncEnd, SendErr, FuncDone,
       FuncVarsOnly, shutdownVars, callVars
<1>4. ASSUME NEW p \in Procs, Call(p) PROVE OnceInv'
    BY <1>4, MoveOutside DEF Call, Inside, PcStates, shutdownVars
<1>5. ASSUME NEW p \in Procs, CloseAllStep(p) PROVE OnceInv'
    BY <1>5, CloseAllOnce
<1>6. ASSUME NEW p \in Procs, CtxExpire(p) PROVE OnceInv'
    BY <1>6, OnceSame DEF CtxExpire, shutdownVars
<1>7. ASSUME NEW w \in Watchers, Configure(w) \/ WatcherStep(w) PROVE OnceInv'
    BY <1>7, WatcherOnce
<1>8. CASE WaiterClose
    BY <1>8, OnceSame DEF WaiterClose, shutdownVars, callVars
<1>9. CASE Signal
    BY <1>9, OnceSame DEF Signal, shutdownVars, callVars
<1>10. CASE UNCHANGED vars
    BY <1>10, OnceSame DEF vars, shutdownVars, callVars
<1> QED
    BY <1>1, <1>2, <1>3, <1>4, <1>5, <1>6, <1>7, <1>8, <1>9, <1>10 DEF Next

-----------------------------------------------------------------------------
(* Every function is in one place.                                         *)

\* The winner's list is indexed within its bounds.
LEMMA SnapIndex ==
    ASSUME TypeOK
    PROVE  /\ \A i \in 1..Len(snap) : snap[i] \in Funcs
           /\ Len(snap) \in Nat /\ idx \in Nat /\ idx <= Len(snap)
           /\ \A f \in Snap : \E i \in 1..Len(snap) : f = snap[i]
BY ElementOfSeq, LenProperties DEF TypeOK, Snap, Elems

\* A list of new functions without repetition may be registered at any time.
LEMMA AddList ==
    ASSUME TypeOK, ListInv, NEW s \in Seq(Funcs), Add(s),
           \A i, j \in 1..Len(s) : s[i] = s[j] => i = j
    PROVE  ListInv'
<1>1. /\ Len(s) \in Nat /\ Len(funcs) \in Nat
      /\ \A i \in 1..Len(s) : s[i] \in Funcs /\ fst[s[i]] = "new"
      /\ \A i \in 1..Len(funcs) : funcs[i] \in Funcs
    BY ElementOfSeq, LenProperties DEF Add, Elems, TypeOK
<1>2. /\ Len(funcs') = Len(funcs) + Len(s)
      /\ \A i \in 1..Len(funcs') :
            funcs'[i] = IF i <= Len(funcs) THEN funcs[i] ELSE s[i - Len(funcs)]
    BY ConcatProperties DEF Add, TypeOK
<1>3. \A f \in Funcs : fst'[f] = IF f \in Elems(s) THEN "added" ELSE fst[f]
    BY DEF Add
<1>4. UNCHANGED <<snap, idx, once, owner, pc, waiter>>
    BY DEF Add, shutdownVars, callVars, chanVars
<1>5. \A i \in 1..Len(funcs') :
        \/ i \in 1..Len(funcs) /\ funcs'[i] = funcs[i] /\ fst[funcs'[i]] = "added"
        \/ i - Len(funcs) \in 1..Len(s) /\ funcs'[i] = s[i - Len(funcs)]
           /\ fst[funcs'[i]] = "new" /\ i > Len(funcs)
    BY <1>1, <1>2 DEF ListInv
<1>6. \A i, j \in 1..Len(funcs') : funcs'[i] = funcs'[j] => i = j
  <2> SUFFICES ASSUME NEW i \in 1..Len(funcs'), NEW j \in 1..Len(funcs'),
                      funcs'[i] = funcs'[j]
               PROVE  i = j
      OBVIOUS
  <2>1. CASE i \in 1..Len(funcs) /\ j \in 1..Len(funcs)
      BY <2>1, <1>2 DEF ListInv
  <2>2. CASE i > Len(funcs) /\ j > Len(funcs)
      BY <2>2, <1>1, <1>2, <1>5
  <2> QED
      BY <2>1, <2>2, <1>1, <1>2, <1>5
<1>7. \A i \in 1..Len(funcs') : fst'[funcs'[i]] = "added"
    BY <1>1, <1>3, <1>5 DEF Elems
<1>8. \A f \in Funcs : fst[f] # "new" => fst'[f] = fst[f]
    BY <1>3 DEF Add
<1>9. \A f \in Funcs : fst'[f] \notin {"new", "added"} => f \in Snap
    BY <1>3 DEF ListInv
<1>10. \A i \in 1..idx : fst'[snap[i]] = "taken"
    BY <1>8, SnapIndex DEF ListInv
<1>11. \A i \in (idx + 1)..Len(snap) : fst'[snap[i]] \in Launched \cup {"exited"}
    BY <1>8, SnapIndex DEF ListInv, Launched
<1> QED
    BY <1>4, <1>6, <1>7, <1>9, <1>10, <1>11 DEF ListInv, Fresh, Snap

\* The winner takes the list: nothing had been taken before.
LEMMA TakeList ==
    ASSUME TypeOK, OnceInv, ListInv, NEW p \in Procs, TakeFuncs(p)
    PROVE  ListInv'
<1>1. p = owner /\ once = "running" /\ Fresh
    BY DEF TakeFuncs, OnceInv, Inside, Fresh
<1>2. snap = <<>> /\ idx = 0 /\ Snap = {}
    BY <1>1, SnapIndex DEF ListInv, Snap, Elems
<1>3. snap' = funcs /\ idx' = Len(funcs) /\ funcs' = <<>> /\ Len(funcs) \in Nat
    BY LenProperties DEF TakeFuncs, TypeOK
<1>4. \A f \in Funcs : fst'[f] = IF f \in Elems(funcs) THEN "taken" ELSE fst[f]
    BY DEF TakeFuncs
<1>5. \A f \in Funcs : fst'[f] \notin {"new", "added"} => f \in Elems(funcs)
    BY <1>2, <1>4 DEF ListInv
<1>6. \A i \in 1..Len(funcs) : fst'[funcs[i]] = "taken"
    BY <1>4, ElementOfSeq DEF TypeOK, Elems
<1>7. pc'[owner'] = (IF funcs = <<>> THEN "close" ELSE "launch") /\ once' = once
    BY <1>1 DEF TakeFuncs, Goto, TypeOK
<1>8. ~Fresh' /\ (idx' > 0 => pc'[owner'] = "launch" /\ once' = "running")
    BY <1>1, <1>3, <1>7, EmptySeq DEF Fresh
<1> QED
    BY <1>3, <1>5, <1>6, <1>8 DEF ListInv, Snap

\* One more function is launched.
LEMMA LaunchList ==
    ASSUME TypeOK, OnceInv, ListInv, NEW p \in Procs, Launch(p)
    PROVE  ListInv'
<1>1. p = owner /\ once = "running" /\ ~Fresh
    BY DEF Launch, OnceInv, Inside, Fresh
<1>2. idx' = idx - 1 /\ idx \in 1..Len(snap) /\ UNCHANGED <<funcs, snap, once, owner, pc>>
    BY SnapIndex DEF Launch, callVars
<1>3. \A f \in Funcs : fst'[f] = IF f = snap[idx] THEN "spawned" ELSE fst[f]
    BY DEF Launch, TypeOK
<1>4. fst[snap[idx]] = "taken" /\ snap[idx] \in Snap
    BY <1>2, SnapIndex DEF ListInv, Snap, Elems
<1>5. \A i \in 1..Len(funcs) : fst'[funcs[i]] = "added"
    BY <1>3, <1>4, ElementOfSeq DEF ListInv, TypeOK
<1>6. \A f \in Funcs : fst'[f] \notin {"new", "added"} => f \in Snap
    BY <1>3, <1>4 DEF ListInv
<1>7. \A i \in 1..idx' : fst'[snap[i]] = "taken"
    BY <1>2, <1>3, SnapIndex DEF ListInv
<1>8. \A i \in (idx' + 1)..Len(snap) : fst'[snap[i]] \in Launched \cup {"exited"}
    BY <1>2, <1>3, SnapIndex DEF ListInv, Launched
<1> QED
    BY <1>1, <1>2, <1>5, <1>6, <1>7, <1>8 DEF ListInv, Fresh, Snap, Launch

\* A launched function goes on, or its goroutine ends.
LEMMA FuncList ==
    ASSUME TypeOK, ListInv, NEW f \in Funcs, fst[f] \in Launched,
           NEW l \in Launched \cup {"exited"}, fst' = [fst EXCEPT ![f] = l],
           UNCHANGED <<funcs, snap, idx, once, owner, pc, waiter>>
    PROVE  ListInv'
<1>1. \A g \in Funcs : fst'[g] = IF g = f THEN l ELSE fst[g]
    BY DEF TypeOK
<1>2. \A i \in 1..Len(funcs) : fst'[funcs[i]] = "added"
    BY <1>1, ElementOfSeq DEF ListInv, TypeOK, Launched
<1>3. \A g \in Funcs : fst'[g] \notin {"new", "added"} => g \in Snap
    BY <1>1 DEF ListInv, Launched
<1>4. \A i \in 1..idx : fst'[snap[i]] = "taken"
    BY <1>1, SnapIndex DEF ListInv, Launched
<1>5. \A i \in (idx + 1)..Len(snap) : fst'[snap[i]] \in Launched \cup {"exited"}
    BY <1>1, SnapIndex DEF ListInv
<1> QED
    BY <1>2, <1>3, <1>4, <1>5 DEF ListInv, Fresh, Snap

\* Steps that move no function.
LEMMA ListSame ==
    ASSUME ListInv, UNCHANGED <<funcs, fst, snap, idx>>,
           Fresh' => Fresh /\ waiter' = waiter,
           idx > 0 => once' = "running" /\ pc'[owner'] = "launch"
    PROVE  ListInv'
BY DEF ListInv, Snap

\* A goroutine that is not inside once.Do does not move the winner.
LEMMA OutsideKeepsOwner ==
    ASSUME TypeOK, OnceInv, NEW p \in Procs, NEW l, Goto(p, l), pc[p] \notin Inside
    PROVE  once = "running" => pc'[owner] = pc[owner]
BY DEF Goto, TypeOK, OnceInv

\* Such a goroutine leaves the lists alone.
LEMMA OutsideList ==
    ASSUME TypeOK, OnceInv, ListInv, NEW p \in Procs, NEW l, Goto(p, l),
           pc[p] \notin Inside, UNCHANGED <<shutdownVars, chanVars, funcVars>>
    PROVE  ListInv'
<1>1. once = "running" => pc'[owner] = pc[owner]
    BY OutsideKeepsOwner
<1>2. Fresh' => Fresh
    BY <1>1 DEF Fresh, shutdownVars
<1> QED
    BY <1>1, <1>2, ListSame DEF shutdownVars, chanVars, funcVars, ListInv

\* Inside CloseAll.
LEMMA CloseAllList ==
    ASSUME TypeOK, OnceInv, ListInv, NEW p \in Procs, CloseAllStep(p)
    PROVE  ListInv'
<1>1. CASE OnceEnter(p)
  <2>1. idx = 0
      BY <1>1 DEF OnceEnter, ListInv, Fresh
  <2> QED
      BY <1>1, <2>1, ListSame DEF OnceEnter, Fresh, chanVars, funcVars
<1>2. CASE OnceSkip(p)
    BY <1>2, OutsideList DEF OnceSkip, Inside
<1>3. CASE TakeFuncs(p)
    BY <1>3, TakeList
<1>4. CASE Launch(p)
    BY <1>4, LaunchList
<1>5. ASSUME SpawnWaiter(p) \/ CollectCtxDone(p) \/ CollectErr(p) \/ CollectDrained(p)
             \/ CloseDone(p) \/ OnceExit(p)
      PROVE  ListInv'
  <2>1. p = owner /\ once = "running" /\ owner' = owner
      BY <1>5 DEF SpawnWaiter, CollectCtxDone, CollectErr, CollectDrained, CloseDone,
         OnceExit, OnceInv, Inside, shutdownVars
  <2>2. ~Fresh'
      BY <1>5, <2>1 DEF SpawnWaiter, CollectCtxDone, CollectErr, CollectDrained, CloseDone,
         OnceExit, Fresh, Goto, TypeOK, shutdownVars, callVars
  <2>3. idx = 0
      BY <1>5, <2>1, SnapIndex DEF SpawnWaiter, CollectCtxDone, CollectErr, CollectDrained,
         CloseDone, OnceExit, ListInv
  <2> QED
      BY <1>5, <2>2, <2>3, ListSame DEF SpawnWaiter, CollectCtxDone, CollectErr,
         CollectDrained, CloseDone, OnceExit, shutdownVars, funcVars
<1> QED
    BY <1>1, <1>2, <1>3, <1>4, <1>5 DEF CloseAllStep, Collect

\* The steps of a closing function: its position in the lists stays.
LEMMA FuncStepList ==
    ASSUME TypeOK, ListInv, NEW f \in Funcs, FuncStep(f)
    PROVE  ListInv'
<1> USE DEF FuncVarsOnly, shutdownVars, callVars, Launched
<1>1. CASE FuncStart(f)
    BY <1>1, FuncList DEF FuncStart
<1>2. CASE FuncReenter(f)
    BY <1>2, FuncList DEF FuncReenter
<1>3. ASSUME NEW o \in {"ok", "err", "panic"}, FuncEnd(f, o) PROVE ListInv'
    BY <1>3, FuncList DEF FuncEnd
<1>4. CASE SendErr(f)
  <2>1. CASE errClosed
      BY <1>4, <2>1, ListSame DEF SendErr, Fresh, ListInv
  <2>2. CASE ~errClosed
      BY <1>4, <2>2, FuncList DEF SendErr
  <2> QED
      BY <2>1, <2>2
<1>5. CASE FuncDone(f)
    BY <1>5, FuncList DEF FuncDone
<1> QED
    BY <1>1, <1>2, <1>3, <1>4, <1>5 DEF FuncStep

\* Every step of the system.
LEMMA NextList ==
    ASSUME TypeOK, OnceInv, ListInv, [Next]_vars
    PROVE  ListInv'
<1>1. ASSUME NEW s \in Batches, Add(s) PROVE ListInv'
    BY <1>1, AddList, ConstAssumption
<1>2. ASSUME NEW f \in Funcs, AddNamed(f) PROVE ListInv'
  <2> DEFINE s == <<f>>
  <2>1. s \in Seq(Funcs) /\ Add(s) /\ Len(s) = 1
      BY <1>2 DEF AddNamed
  <2>2. \A i, j \in 1..Len(s) : s[i] = s[j] => i = j
      BY <2>1
  <2> HIDE DEF s
  <2> QED
      BY <2>1, <2>2, AddList
<1>3. ASSUME NEW f \in Funcs, FuncStep(f) PROVE ListInv'
    BY <1>3, FuncStepList
<1>4. ASSUME NEW p \in Procs, Call(p) PROVE ListInv'
    BY <1>4, OutsideList DEF Call, Inside
<1>5. ASSUME NEW p \in Procs, CloseAllStep(p) PROVE ListInv'
    BY <1>5, CloseAllList
<1>6. ASSUME NEW p \in Procs, CtxExpire(p) PROVE ListInv'
    BY <1>6, ListSame DEF CtxExpire, Fresh, ListInv, shutdownVars, chanVars, funcVars
<1>7. ASSUME NEW w \in Watchers, Configure(w) \/ WatcherStep(w) PROVE ListInv'
    BY <1>7, OutsideList, w \in Procs DEF Configure, WatcherStep, Notify, OnSignal,
       OnDone, WatcherExit, Inside, Procs
<1>8. CASE WaiterClose
  <2>1. ~Fresh
      BY <1>8 DEF WaiterClose, ListInv
  <2> QED
      BY <1>8, <2>1, ListSame DEF WaiterClose, Fresh, ListInv, shutdownVars, funcVars,
         callVars
<1>9. CASE Signal
    BY <1>9, ListSame DEF Signal, Fresh, ListInv, shutdownVars, chanVars, funcVars, callVars
<1>10. CASE UNCHANGED vars
    BY <1>10, ListSame DEF vars, Fresh, ListInv, shutdownVars, chanVars, funcVars, callVars
<1> QED
    BY <1>1, <1>2, <1>3, <1>4, <1>5, <1>6, <1>7, <1>8, <1>9, <1>10 DEF Next

-----------------------------------------------------------------------------
(* The WaitGroup and errCh.                                                *)

LEMMA LiveFinite == IsFiniteSet(Live) /\ IsFiniteSet(Live')
BY FS_Subset, ConstAssumption DEF Live

\* Steps that change neither the channel nor who may use it.
LEMMA ChanSame ==
    ASSUME ChanInv, TypeOK, UNCHANGED <<wg, waiter, idx, errClosed, errs>>,
           \A f \in Funcs : fst[f] \in Launched \cup {"exited"} \/ fst'[f] \in Launched
                              => fst'[f] = fst[f],
           (once' = "running" /\ pc'[owner'] = "launch") => waiter = "none"
    PROVE  ChanInv'
<1>1. Live' = Live
    BY DEF Live, Launched
<1>2. \A i \in 1..Len(errs) : fst'[errs[i]] \in {"leaving", "exited"}
    BY ElementOfSeq DEF ChanInv, TypeOK, Launched
<1> QED
    BY <1>1, <1>2 DEF ChanInv

\* A launched function goes on and does not use the channel.
LEMMA FuncChan ==
    ASSUME ChanInv, TypeOK, NEW f \in Funcs, fst[f] \in Launched \ {"leaving"},
           NEW l \in Launched, fst' = [fst EXCEPT ![f] = l],
           UNCHANGED <<wg, waiter, idx, once, owner, pc, errs, errClosed>>
    PROVE  ChanInv'
<1>1. \A g \in Funcs : fst'[g] = IF g = f THEN l ELSE fst[g]
    BY DEF TypeOK
<1>2. Live' = Live
    BY <1>1 DEF Live
<1>3. \A i \in 1..Len(errs) : fst'[errs[i]] \in {"leaving", "exited"}
    BY <1>1, ElementOfSeq DEF ChanInv, TypeOK, Launched
<1> QED
    BY <1>2, <1>3 DEF ChanInv

\* A launched function sends its error: it had sent none before, and errCh is
\* open because its goroutine is counted.
LEMMA SendChan ==
    ASSUME ChanInv, TypeOK, NEW f \in Funcs, SendErr(f)
    PROVE  ChanInv' /\ ~errClosed
<1>1. f \in Live
    BY DEF SendErr, Live, Launched
<1>2. ~errClosed
    BY <1>1 DEF ChanInv
<1>3. errs' = Append(errs, f) /\ fst' = [fst EXCEPT ![f] = "leaving"]
    BY <1>2 DEF SendErr
<1>4. \A g \in Funcs : fst'[g] = IF g = f THEN "leaving" ELSE fst[g]
    BY <1>3 DEF TypeOK
<1>5. Live' = Live
    BY <1>1, <1>4 DEF Live, Launched
<1>6. /\ Len(errs') = Len(errs) + 1 /\ errs'[Len(errs) + 1] = f /\ Len(errs) \in Nat
      /\ \A i \in 1..Len(errs) : errs'[i] = errs[i] /\ errs[i] \in Funcs
    BY <1>3, LenProperties, ElementOfSeq DEF TypeOK
<1>7. \A i \in 1..Len(errs) : errs[i] # f
    BY DEF ChanInv, SendErr
<1>8. \A i, j \in 1..Len(errs') : errs'[i] = errs'[j] => i = j
  <2> TAKE i, j \in 1..Len(errs')
  <2>1. CASE i \in 1..Len(errs) /\ j \in 1..Len(errs)
      BY <1>6, <2>1 DEF ChanInv
  <2> QED
      BY <1>6, <1>7, <2>1
<1>9. \A i \in 1..Len(errs') : fst'[errs'[i]] \in {"leaving", "exited"}
    BY <1>4, <1>6 DEF ChanInv
<1>10. UNCHANGED <<wg, waiter, idx, once, owner, pc, errClosed>>
    BY DEF SendErr, FuncVarsOnly, shutdownVars, callVars
<1> QED
    BY <1>2, <1>5, <1>8, <1>9, <1>10 DEF ChanInv

\* Every step of a closing function.
LEMMA FuncStepChan ==
    ASSUME ChanInv, TypeOK, NEW f \in Funcs, FuncStep(f)
    PROVE  ChanInv'
<1> USE DEF FuncVarsOnly, shutdownVars, callVars
<1>1. CASE FuncStart(f)
    BY <1>1, FuncChan DEF FuncStart, Launched
<1>2. CASE FuncReenter(f)
    BY <1>2, FuncChan DEF FuncReenter, Launched
<1>3. ASSUME NEW o \in {"ok", "err", "panic"}, FuncEnd(f, o) PROVE ChanInv'
    BY <1>3, FuncChan DEF FuncEnd, Launched
<1>4. CASE SendErr(f)
    BY <1>4, SendChan
<1>5. CASE FuncDone(f)
  <2>1. \A g \in Funcs : fst'[g] = IF g = f THEN "exited" ELSE fst[g]
      BY <1>5 DEF FuncDone, TypeOK
  <2>2. f \in Live /\ Live' = Live \ {f}
      BY <1>5, <2>1 DEF FuncDone, Live, Launched
  <2>3. Cardinality(Live') = Cardinality(Live) - 1
      BY <2>2, LiveFinite, FS_RemoveElement
  <2>4. \A i \in 1..Len(errs) : fst'[errs[i]] \in {"leaving", "exited"}
      BY <2>1, ElementOfSeq DEF ChanInv, TypeOK
  <2> QED
      BY <1>5, <2>2, <2>3, <2>4 DEF FuncDone, ChanInv
<1> QED
    BY <1>1, <1>2, <1>3, <1>4, <1>5 DEF FuncStep

\* A goroutine outside once.Do leaves the channel alone.
LEMMA OutsideChan ==
    ASSUME TypeOK, OnceInv, ChanInv, NEW p \in Procs, NEW l, Goto(p, l),
           pc[p] \notin Inside, UNCHANGED <<shutdownVars, chanVars, funcVars>>
    PROVE  ChanInv'
<1>1. once = "running" => pc'[owner] = pc[owner]
    BY OutsideKeepsOwner
<1> QED
    BY <1>1, ChanSame DEF ChanInv, shutdownVars, chanVars, funcVars

\* Inside CloseAll.
LEMMA CloseAllChan ==
    ASSUME TypeOK, OnceInv, ListInv, ChanInv, NEW p \in Procs, CloseAllStep(p)
    PROVE  ChanInv'
<1>1. CASE OnceEnter(p)
  <2>1. pc'[owner'] = "take"
      BY <1>1 DEF OnceEnter, Goto, TypeOK
  <2> QED
      BY <1>1, <2>1, ChanSame DEF OnceEnter, chanVars, funcVars
<1>2. CASE OnceSkip(p)
    BY <1>2, OutsideChan DEF OnceSkip, Inside
<1>3. CASE TakeFuncs(p)
  <2>1. p = owner /\ once = "running" /\ Fresh
      BY <1>3 DEF TakeFuncs, OnceInv, Inside, Fresh
  <2>2. idx = 0 /\ waiter = "none" /\ ~errClosed
      BY <2>1 DEF ListInv, ChanInv
  <2>3. \A f \in Funcs : fst'[f] = fst[f] \/ (fst[f] = "added" /\ fst'[f] = "taken")
      BY <1>3, ElementOfSeq DEF TakeFuncs, Elems, ListInv, TypeOK
  <2>4. Live' = Live
      BY <2>3 DEF Live, Launched
  <2>5. \A i \in 1..Len(errs) : fst'[errs[i]] \in {"leaving", "exited"}
      BY <2>3, ElementOfSeq DEF ChanInv, TypeOK
  <2> QED
      BY <1>3, <2>2, <2>4, <2>5 DEF TakeFuncs, ChanInv, chanVars
<1>4. CASE Launch(p)
  <2>1. p = owner /\ once = "running" /\ waiter = "none" /\ ~errClosed
      BY <1>4 DEF Launch, OnceInv, Inside, ChanInv
  <2>2. snap[idx] \in Funcs /\ fst[snap[idx]] = "taken"
      BY <1>4, SnapIndex DEF Launch, ListInv
  <2>3. \A f \in Funcs : fst'[f] = IF f = snap[idx] THEN "spawned" ELSE fst[f]
      BY <1>4 DEF Launch, TypeOK
  <2>4. snap[idx] \notin Live /\ Live' = Live \cup {snap[idx]}
      BY <2>2, <2>3 DEF Live, Launched
  <2>5. Cardinality(Live') = Cardinality(Live) + 1
      BY <2>4, LiveFinite, FS_AddElement
  <2>6. \A i \in 1..Len(errs) : fst'[errs[i]] \in {"leaving", "exited"}
      BY <2>2, <2>3, ElementOfSeq DEF ChanInv, TypeOK
  <2> QED
      BY <1>4, <2>1, <2>5, <2>6 DEF Launch, ChanInv
<1>5. CASE SpawnWaiter(p)
  <2>1. p = owner /\ once = "running" /\ waiter = "none" /\ pc'[p] = "collect"
      BY <1>5 DEF SpawnWaiter, OnceInv, Inside, ChanInv, Goto, TypeOK
  <2>2. ~errClosed
      BY <2>1 DEF ChanInv
  <2> QED
      BY <1>5, <2>1, <2>2 DEF SpawnWaiter, ChanInv, Live, shutdownVars, funcVars
<1>6. ASSUME CollectCtxDone(p) \/ CollectErr(p) \/ CollectDrained(p) \/ CloseDone(p)
             \/ OnceExit(p)
      PROVE  ChanInv'
  <2>1. p = owner
      BY <1>6 DEF CollectCtxDone, CollectErr, CollectDrained, CloseDone, OnceExit, OnceInv,
         Inside
  <2>2. pc'[owner'] # "launch"
      BY <1>6, <2>1 DEF CollectCtxDone, CollectErr, CollectDrained, CloseDone, OnceExit,
         Goto, TypeOK, shutdownVars, callVars
  <2> QED
      BY <1>6, <2>2, ChanSame DEF CollectCtxDone, CollectErr, CollectDrained, CloseDone,
         OnceExit, shutdownVars, chanVars, funcVars
<1> QED
    BY <1>1, <1>2, <1>3, <1>4, <1>5, <1>6 DEF CloseAllStep, Collect

\* Registration.
LEMMA AddChan ==
    ASSUME TypeOK, ChanInv, NEW s, Add(s)
    PROVE  ChanInv'
<1>1. \A f \in Funcs : fst'[f] = fst[f] \/ (fst[f] = "new" /\ fst'[f] = "added")
    BY DEF Add
<1> QED
    BY <1>1, ChanSame DEF Add, ChanInv, Launched, shutdownVars, chanVars, callVars

\* Every step of the system.
LEMMA NextChan ==
    ASSUME TypeOK, OnceInv, ListInv, ChanInv, [Next]_vars
    PROVE  ChanInv'
<1>1. ASSUME NEW s, Add(s) PROVE ChanInv'
    BY <1>1, AddChan
<1>2. ASSUME NEW f \in Funcs, AddNamed(f) PROVE ChanInv'
    BY <1>1, <1>2 DEF AddNamed
<1>3. ASSUME NEW f \in Funcs, FuncStep(f) PROVE ChanInv'
    BY <1>3, FuncStepChan
<1>4. ASSUME NEW p \in Procs, Call(p) PROVE ChanInv'
    BY <1>4, OutsideChan DEF Call, Inside
<1>5. ASSUME NEW p \in Procs, CloseAllStep(p) PROVE ChanInv'
    BY <1>5, CloseAllChan
<1>6. ASSUME NEW p \in Procs, CtxExpire(p) PROVE ChanInv'
    BY <1>6, ChanSame DEF CtxExpire, ChanInv, shutdownVars, chanVars, funcVars
<1>7. ASSUME NEW w \in Watchers, Configure(w) \/ WatcherStep(w) PROVE ChanInv'
    BY <1>7, OutsideChan, w \in Procs DEF Configure, WatcherStep, Notify, OnSignal,
       OnDone, WatcherExit, Inside, Procs
<1>8. CASE WaiterClose
  <2>1. Live = {}
      BY <1>8, LiveFinite, FS_EmptySet DEF WaiterClose, ChanInv
  <2> QED
      BY <1>8, <2>1 DEF WaiterClose, ChanInv, Live, shutdownVars, funcVars, callVars
<1>9. CASE Signal
    BY <1>9, ChanSame DEF Signal, ChanInv, shutdownVars, chanVars, funcVars, callVars
<1>10. CASE UNCHANGED vars
    BY <1>10, ChanSame DEF vars, ChanInv, shutdownVars, chanVars, funcVars, callVars
<1> QED
    BY <1>1, <1>2, <1>3, <1>4, <1>5, <1>6, <1>7, <1>8, <1>9, <1>10 DEF Next

-----------------------------------------------------------------------------
(* The result.                                                             *)

\* Steps that change neither the result, the errors nor an outcome.
LEMMA ResultSame ==
    ASSUME ResultInv, UNCHANGED <<result, errs, rd, outcome, snap, errClosed>>,
           \A f \in Funcs : fst'[f] = fst[f]
                \/ fst'[f] \notin {"sending", "leaving", "exited"}
                \/ (fst[f] = "leaving" /\ fst'[f] = "exited"),
           (once' = "idle" \/ pc'[owner'] \in {"take", "launch", "collect"})
              => (once = "idle" \/ pc[owner] \in {"take", "launch", "collect"}),
           owner' # Nobody /\ pc'[owner'] \in {"close", "finish", "returned", "exited"}
              => owner # Nobody /\ pc[owner] \in {"close", "finish", "returned", "exited"}
    PROVE  ResultInv'
<1>1. \A f \in Funcs : fst'[f] = "sending" => outcome'[f] # "ok"
    BY DEF ResultInv
<1>2. \A f \in Funcs : fst'[f] \in {"leaving", "exited"}
                         => outcome'[f] = "ok" \/ f \in Elems(errs')
    BY DEF ResultInv
<1> QED
    BY <1>1, <1>2 DEF ResultInv, FirstErrorWins

\* Where the winner is.
LEMMA OwnerPlace ==
    ASSUME TypeOK, OnceInv, owner # Nobody
    PROVE  owner \in Procs /\ pc[owner] \in Inside \cup {"returned", "exited"}
BY DEF TypeOK, OnceInv

\* A goroutine outside once.Do leaves the result of the winner alone.
LEMMA OutsideResult ==
    ASSUME TypeOK, OnceInv, ResultInv, NEW p \in Procs, NEW l, Goto(p, l),
           \/ pc[p] \notin Inside \cup {"returned", "exited"}
           \/ pc[p] = "returned" /\ l = "exited",
           UNCHANGED <<shutdownVars, chanVars, funcVars>>
    PROVE  ResultInv'
<1>1. UNCHANGED <<result, errs, rd, outcome, snap, errClosed, fst, once, owner>>
    BY DEF shutdownVars, chanVars, funcVars
<1>2. \A q \in Procs : pc'[q] = IF q = p THEN l ELSE pc[q]
    BY DEF Goto, TypeOK
<1>3. CASE owner = Nobody
    BY <1>1, <1>3, ResultSame DEF OnceInv
<1>4. CASE owner # Nobody
  <2>1. \/ pc'[owner] = pc[owner]
        \/ pc[owner] = "returned" /\ pc'[owner] = "exited"
      BY <1>2, <1>4, OwnerPlace
  <2> QED
      BY <1>1, <1>4, <2>1, ResultSame DEF OnceInv
<1> QED
    BY <1>3, <1>4

\* Inside CloseAll.
LEMMA CloseAllResult ==
    ASSUME TypeOK, OnceInv, ListInv, ChanInv, ResultInv, NEW p \in Procs, CloseAllStep(p)
    PROVE  ResultInv'
<1>1. CASE OnceEnter(p)
  <2>1. pc'[owner'] = "take" /\ once = "idle"
      BY <1>1 DEF OnceEnter, Goto, TypeOK
  <2> QED
      BY <1>1, <2>1, ResultSame DEF OnceEnter, chanVars, funcVars
<1>2. CASE OnceSkip(p)
    BY <1>2, OutsideResult DEF OnceSkip, Inside
<1>3. CASE TakeFuncs(p)
  <2>1. p = owner /\ once = "running" /\ Fresh
      BY <1>3 DEF TakeFuncs, OnceInv, Inside, Fresh
  <2>2. Snap = {}
      BY <2>1, SnapIndex DEF ListInv, Snap, Elems
  <2>3. \A i \in 1..Len(errs) : errs[i] \in Snap
      BY ElementOfSeq DEF ChanInv, ListInv, TypeOK
  <2>4. errs = <<>>
      BY <2>2, <2>3, EmptySeq, LenProperties DEF TypeOK
  <2>5. pc'[owner'] = (IF funcs = <<>> THEN "close" ELSE "launch") /\ snap' = funcs
      BY <1>3, <2>1 DEF TakeFuncs, Goto, TypeOK
  <2>6. \A f \in Funcs : fst'[f] = fst[f] \/ fst'[f] = "taken"
      BY <1>3 DEF TakeFuncs
  <2>7. pc[owner] = "take" /\ owner' = owner /\ once' = once /\ result' = result
        /\ UNCHANGED <<errs, rd, outcome, errClosed>>
      BY <1>3, <2>1 DEF TakeFuncs, chanVars
  <2>8. \A f \in Funcs : /\ fst'[f] = "sending" => outcome'[f] # "ok"
                         /\ fst'[f] \in {"leaving", "exited"}
                              => outcome'[f] = "ok" \/ f \in Elems(errs')
      BY <2>6, <2>7 DEF ResultInv
  <2> QED
      BY <2>4, <2>5, <2>7, <2>8 DEF ResultInv, FirstErrorWins
<1>4. CASE Launch(p)
    BY <1>4, ResultSame, SnapIndex DEF Launch, callVars, TypeOK
<1>5. ASSUME SpawnWaiter(p) \/ CloseDone(p) \/ OnceExit(p)
      PROVE  ResultInv'
  <2>1. p = owner /\ owner' = owner /\ owner # Nobody
      BY <1>5, ConstAssumption DEF SpawnWaiter, CloseDone, OnceExit, OnceInv, Inside,
         shutdownVars
  <2>2. /\ \/ pc[owner] = "launch" /\ pc'[owner] = "collect"
           \/ pc[owner] = "close" /\ pc'[owner] = "finish"
           \/ pc[owner] = "finish" /\ pc'[owner] = "returned"
        /\ once' # "idle"
      BY <1>5, <2>1 DEF SpawnWaiter, CloseDone, OnceExit, Goto, TypeOK, OnceInv,
         shutdownVars
  <2>3. UNCHANGED <<result, errs, rd, outcome, snap, errClosed, fst>>
      BY <1>5 DEF SpawnWaiter, CloseDone, OnceExit, shutdownVars, chanVars, funcVars
  <2> QED
      BY <2>1, <2>2, <2>3, ResultSame
<1>6. CASE CollectCtxDone(p)
  <2>1. p = owner /\ owner' = owner /\ once = "running" /\ pc[owner] = "collect"
        /\ pc'[owner] = "close" /\ once' = once
      BY <1>6 DEF CollectCtxDone, OnceInv, Inside, Goto, TypeOK
  <2>2. /\ result' = IF result = NoErr THEN CtxErr ELSE result
        /\ UNCHANGED <<errs, rd, outcome, snap, errClosed, fst>>
      BY <1>6 DEF CollectCtxDone, chanVars, funcVars
  <2>3. result' # NoErr /\ (rd > 0 => result' = result)
    <3>1. rd > 0 => result \in Funcs
        BY ElementOfSeq, LenProperties DEF ResultInv, FirstErrorWins, TypeOK
    <3> QED
        BY <2>2, <3>1, ConstAssumption
  <2>4. rd = 0 => result = NoErr
      BY <2>1 DEF ResultInv
  <2>5. FirstErrorWins'
      BY <2>2, <2>3, <2>4 DEF ResultInv, FirstErrorWins, TypeOK
  <2> QED
      BY <2>1, <2>2, <2>3, <2>5 DEF ResultInv
<1>7. CASE CollectErr(p)
  <2>1. p = owner /\ owner' = owner /\ pc[owner] = "collect" /\ pc'[owner] = "collect"
        /\ once' = once /\ once = "running"
      BY <1>7 DEF CollectErr, OnceInv, Inside, callVars
  <2>2. /\ rd' = rd + 1 /\ rd \in Nat
        /\ result' = IF result = NoErr THEN errs[rd + 1] ELSE result
        /\ UNCHANGED <<errs, outcome, snap, errClosed, fst>>
      BY <1>7 DEF CollectErr, funcVars, TypeOK
  <2>3. result' = errs[1]
    <3>1. CASE rd = 0
        BY <2>1, <2>2, <3>1 DEF ResultInv
    <3>2. CASE rd > 0
      <4>1. result = errs[1] /\ errs[1] \in Funcs
          BY <3>2, ElementOfSeq, LenProperties DEF ResultInv, FirstErrorWins, TypeOK
      <4> QED
          BY <2>2, <4>1, ConstAssumption
    <3> QED
        BY <2>2, <3>1, <3>2
  <2> QED
      BY <2>1, <2>2, <2>3 DEF ResultInv, FirstErrorWins
<1>8. CASE CollectDrained(p)
  <2>1. p = owner /\ owner' = owner /\ pc'[owner] = "close" /\ once' = once
        /\ once = "running"
      BY <1>8 DEF CollectDrained, OnceInv, Inside, Goto, TypeOK, shutdownVars
  <2>2. UNCHANGED <<result, errs, rd, outcome, snap, errClosed, fst>>
      BY <1>8 DEF CollectDrained, shutdownVars, chanVars, funcVars
  <2>3. result = NoErr => errs = <<>> /\ errClosed
    <3>1. rd > 0 => result \in Funcs
        BY ElementOfSeq, LenProperties DEF ResultInv, FirstErrorWins, TypeOK
    <3>2. result = NoErr => Len(errs) = 0 /\ errClosed
        BY <1>8, <3>1, ConstAssumption DEF CollectDrained, TypeOK
    <3> QED
        BY <3>2, EmptySeq DEF TypeOK
  <2> QED
      BY <2>1, <2>2, <2>3 DEF ResultInv, FirstErrorWins
<1> QED
    BY <1>1, <1>2, <1>3, <1>4, <1>5, <1>6, <1>7, <1>8 DEF CloseAllStep, Collect

\* A launched function keeps the winner from having drained errCh.
LEMMA LiveKeepsOpen ==
    ASSUME TypeOK, ListInv, ChanInv, NEW f \in Funcs, fst[f] \in Launched
    PROVE  ~errClosed /\ snap # <<>>
BY EmptySeq DEF ListInv, ChanInv, Live, Launched, Snap, Elems

\* The steps of a closing function.
LEMMA FuncStepResult ==
    ASSUME TypeOK, OnceInv, ListInv, ChanInv, ResultInv, NEW f \in Funcs, FuncStep(f)
    PROVE  ResultInv'
<1>1. CASE FuncStart(f)
    BY <1>1, ResultSame DEF FuncStart, FuncVarsOnly, shutdownVars, callVars, TypeOK
<1>2. CASE FuncReenter(f)
    BY <1>2, ResultSame DEF FuncReenter, FuncVarsOnly, shutdownVars, callVars, TypeOK
<1>3. ASSUME NEW o \in {"ok", "err", "panic"}, FuncEnd(f, o) PROVE ResultInv'
  <2>1. \A g \in Funcs :
          /\ fst'[g] = IF g = f THEN (IF o = "ok" THEN "leaving" ELSE "sending") ELSE fst[g]
          /\ outcome'[g] = IF g = f THEN o ELSE outcome[g]
      BY <1>3 DEF FuncEnd, TypeOK
  <2>2. UNCHANGED <<result, errs, rd, snap, errClosed, once, owner, pc>>
      BY <1>3 DEF FuncEnd, FuncVarsOnly, shutdownVars, callVars
  <2>3. \A g \in Funcs :
          /\ fst'[g] = "sending" => outcome'[g] # "ok"
          /\ fst'[g] \in {"leaving", "exited"} => outcome'[g] = "ok" \/ g \in Elems(errs)
      BY <2>1 DEF ResultInv
  <2> QED
      BY <2>2, <2>3 DEF ResultInv, FirstErrorWins
<1>4. CASE SendErr(f)
  <2>1. ~errClosed /\ snap # <<>>
      BY <1>4, LiveKeepsOpen DEF SendErr, Launched
  <2>2. /\ errs' = Append(errs, f) /\ Len(errs') = Len(errs) + 1 /\ errs'[Len(errs) + 1] = f
        /\ Len(errs) \in Nat /\ \A i \in 1..Len(errs) : errs'[i] = errs[i]
    <3>1. errs' = Append(errs, f) /\ errs \in Seq(Funcs)
        BY <1>4, <2>1 DEF SendErr, TypeOK
    <3> QED
        BY <3>1, LenProperties
  <2>3. \A g \in Funcs : fst'[g] = IF g = f THEN "leaving" ELSE fst[g]
      BY <1>4, <2>1 DEF SendErr, TypeOK
  <2>4. UNCHANGED <<result, rd, snap, errClosed, once, owner, pc, outcome>>
      BY <1>4 DEF SendErr, FuncVarsOnly, shutdownVars, callVars
  <2>5. Elems(errs) \subseteq Elems(errs') /\ f \in Elems(errs')
      BY <2>2 DEF Elems
  <2>6. \A g \in Funcs :
          /\ fst'[g] = "sending" => outcome'[g] # "ok"
          /\ fst'[g] \in {"leaving", "exited"} => outcome'[g] = "ok" \/ g \in Elems(errs')
      BY <2>3, <2>4, <2>5 DEF ResultInv
  <2>7. FirstErrorWins'
      BY <2>2, <2>4 DEF ResultInv, FirstErrorWins, TypeOK
  <2> QED
      BY <2>1, <2>4, <2>6, <2>7 DEF ResultInv
<1>5. CASE FuncDone(f)
    BY <1>5, ResultSame DEF FuncDone, shutdownVars, callVars, TypeOK
<1> QED
    BY <1>1, <1>2, <1>3, <1>4, <1>5 DEF FuncStep

\* Every step of the system.
LEMMA NextResult ==
    ASSUME TypeOK, OnceInv, ListInv, ChanInv, ResultInv, [Next]_vars
    PROVE  ResultInv'
<1>1. ASSUME NEW s, Add(s) PROVE ResultInv'
    BY <1>1, ResultSame DEF Add, shutdownVars, chanVars, callVars
<1>2. ASSUME NEW f \in Funcs, AddNamed(f) PROVE ResultInv'
    BY <1>1, <1>2 DEF AddNamed
<1>3. ASSUME NEW f \in Funcs, FuncStep(f) PROVE ResultInv'
    BY <1>3, FuncStepResult
<1>4. ASSUME NEW p \in Procs, Call(p) PROVE ResultInv'
    BY <1>4, OutsideResult DEF Call, Inside
<1>5. ASSUME NEW p \in Procs, CloseAllStep(p) PROVE ResultInv'
    BY <1>5, CloseAllResult
<1>6. ASSUME NEW p \in Procs, CtxExpire(p) PROVE ResultInv'
    BY <1>6, ResultSame DEF CtxExpire, shutdownVars, chanVars, funcVars
<1>7. ASSUME NEW w \in Watchers, Configure(w) \/ WatcherStep(w) PROVE ResultInv'
    BY <1>7, OutsideResult, w \in Procs DEF Configure, WatcherStep, Notify, OnSignal,
       OnDone, WatcherExit, Inside, Procs
<1>8. CASE WaiterClose
  <2>1. UNCHANGED <<result, errs, rd, outcome, snap, fst, once, owner, pc>> /\ errClosed'
      BY <1>8 DEF WaiterClose, shutdownVars, funcVars, callVars
  <2> QED
      BY <2>1 DEF ResultInv, FirstErrorWins
<1>9. CASE Signal
    BY <1>9, ResultSame DEF Signal, shutdownVars, chanVars, funcVars, callVars
<1>10. CASE UNCHANGED vars
    BY <1>10, ResultSame DEF vars, shutdownVars, chanVars, funcVars, callVars
<1> QED
    BY <1>1, <1>2, <1>3, <1>4, <1>5, <1>6, <1>7, <1>8, <1>9, <1>10 DEF Next

-----------------------------------------------------------------------------
(* Where a registered function, a result and the waiter are.               *)

\* A function that has not been taken waits in the list.
LEMMA NextAdded ==
    ASSUME TypeOK, ListInv, PlaceInv, Next, NEW f \in Funcs, fst'[f] = "added"
    PROVE  f \in Elems(funcs')
<1>1. ASSUME NEW s \in Seq(Funcs), Add(s) PROVE f \in Elems(funcs')
  <2>1. /\ Len(s) \in Nat /\ Len(funcs) \in Nat /\ Len(funcs') = Len(funcs) + Len(s)
        /\ \A i \in 1..Len(funcs') :
              funcs'[i] = IF i <= Len(funcs) THEN funcs[i] ELSE s[i - Len(funcs)]
      BY <1>1, ConcatProperties, LenProperties DEF Add, TypeOK
  <2>2. CASE f \in Elems(s)
    <3>1. PICK i \in 1..Len(s) : f = s[i]
        BY <2>2 DEF Elems
    <3>2. i + Len(funcs) \in 1..Len(funcs') /\ funcs'[i + Len(funcs)] = f
        BY <2>1, <3>1
    <3> QED
        BY <3>2 DEF Elems
  <2>3. CASE f \notin Elems(s)
    <3>1. fst[f] = "added"
        BY <1>1, <2>3 DEF Add
    <3>2. PICK i \in 1..Len(funcs) : f = funcs[i]
        BY <3>1 DEF PlaceInv, Elems
    <3>3. i \in 1..Len(funcs') /\ funcs'[i] = f
        BY <2>1, <3>2
    <3> QED
        BY <3>3 DEF Elems
  <2> QED
      BY <2>2, <2>3
<1>2. ASSUME fst[f] = "added", funcs' = funcs PROVE f \in Elems(funcs')
    BY <1>2 DEF PlaceInv
<1>3. ASSUME NEW g \in Funcs, FuncStep(g) PROVE f \in Elems(funcs')
  <2>1. fst[f] = "added" /\ funcs' = funcs
      BY <1>3 DEF FuncStep, FuncStart, FuncReenter, FuncEnd, SendErr, FuncDone, FuncVarsOnly, TypeOK
  <2> QED
      BY <1>2, <2>1
<1>4. ASSUME NEW p \in Procs, CloseAllStep(p) PROVE f \in Elems(funcs')
  <2>1. CASE TakeFuncs(p)
      BY <2>1 DEF TakeFuncs, PlaceInv
  <2>2. CASE Launch(p)
    <3>1. fst[f] = "added" /\ funcs' = funcs
        BY <2>2 DEF Launch, TypeOK
    <3> QED
        BY <1>2, <3>1
  <2> QED
      BY <1>2, <1>4, <2>1, <2>2 DEF CloseAllStep, OnceEnter, OnceSkip, SpawnWaiter, Collect,
         CollectCtxDone, CollectErr, CollectDrained, CloseDone, OnceExit, funcVars
<1>5. ASSUME NEW g \in Funcs, AddNamed(g) PROVE f \in Elems(funcs')
    BY <1>1, <1>5, <<g>> \in Seq(Funcs) DEF AddNamed
<1> QED
    BY <1>1, <1>2, <1>3, <1>4, <1>5, ConstAssumption
    DEF Next, Call, CtxExpire, Configure, WatcherStep, Notify, OnSignal, OnDone,
        WatcherExit, WaiterClose, Signal, funcVars

\* A function has no outcome before it has ended.
LEMMA NextOutcome ==
    ASSUME TypeOK, ListInv, PlaceInv, Next, NEW f \in Funcs,
           fst'[f] \notin {"sending", "leaving", "exited"}
    PROVE  outcome'[f] = "none"
<1>1. ASSUME NEW s, Add(s) PROVE outcome'[f] = "none"
  <2>1. fst[f] \notin {"sending", "leaving", "exited"} /\ outcome' = outcome
      BY <1>1 DEF Add
  <2> QED
      BY <2>1 DEF PlaceInv
<1>2. ASSUME NEW g \in Funcs, FuncStep(g) PROVE outcome'[f] = "none"
  <2>1. ASSUME NEW o \in {"ok", "err", "panic"}, FuncEnd(g, o) PROVE outcome'[f] = "none"
      BY <2>1 DEF FuncEnd, PlaceInv, TypeOK
  <2>2. ASSUME outcome' = outcome, fst[f] \notin {"sending", "leaving", "exited"}
        PROVE  outcome'[f] = "none"
      BY <2>2 DEF PlaceInv
  <2> QED
      BY <1>2, <2>1, <2>2 DEF FuncStep, FuncStart, FuncReenter, SendErr, FuncDone, TypeOK
<1>3. ASSUME NEW p \in Procs, CloseAllStep(p) PROVE outcome'[f] = "none"
  <2>1. CASE TakeFuncs(p)
    <3>1. fst[f] \notin {"sending", "leaving", "exited"} /\ outcome' = outcome
      <4>1. f \in Elems(funcs) => fst[f] = "added"
          BY DEF ListInv, Elems
      <4> QED
          BY <2>1, <4>1 DEF TakeFuncs
    <3> QED
        BY <3>1 DEF PlaceInv
  <2>2. CASE Launch(p)
    <3>1. fst[snap[idx]] = "taken" /\ snap[idx] \in Funcs
        BY <2>2, SnapIndex DEF Launch, ListInv
    <3>2. fst[f] \notin {"sending", "leaving", "exited"} /\ outcome' = outcome
        BY <2>2, <3>1 DEF Launch, TypeOK
    <3> QED
        BY <3>2 DEF PlaceInv
  <2> QED
      BY <1>3, <2>1, <2>2 DEF CloseAllStep, OnceEnter, OnceSkip, SpawnWaiter, Collect,
         CollectCtxDone, CollectErr, CollectDrained, CloseDone, OnceExit, funcVars, PlaceInv
<1> QED
    BY <1>1, <1>2, <1>3 DEF Next, AddNamed, Call, CtxExpire, Configure, WatcherStep, Notify,
        OnSignal, OnDone, WatcherExit, WaiterClose, Signal, funcVars, PlaceInv

\* The waiter is there before the winner collects, and goes after errCh is closed.
LEMMA NextWaiter ==
    ASSUME TypeOK, OnceInv, PlaceInv, Next
    PROVE  /\ (once' = "running" /\ pc'[owner'] = "collect") => waiter' # "none"
           /\ waiter' = "exited" => errClosed'
<1>1. ASSUME waiter' = waiter, errClosed' = errClosed,
             (once' = "running" /\ pc'[owner'] = "collect")
                => (once = "running" /\ pc[owner] = "collect")
      PROVE  /\ (once' = "running" /\ pc'[owner'] = "collect") => waiter' # "none"
             /\ waiter' = "exited" => errClosed'
    BY <1>1 DEF PlaceInv
<1>2. ASSUME NEW p \in Procs, CloseAllStep(p)
      PROVE  /\ (once' = "running" /\ pc'[owner'] = "collect") => waiter' # "none"
             /\ waiter' = "exited" => errClosed'
  <2>1. CASE SpawnWaiter(p)
      BY <2>1 DEF SpawnWaiter
  <2>2. CASE ~SpawnWaiter(p)
    <3>1. UNCHANGED <<waiter, errClosed>>
        BY <1>2, <2>2 DEF CloseAllStep, OnceEnter, OnceSkip, TakeFuncs, Launch, Collect,
           CollectCtxDone, CollectErr, CollectDrained, CloseDone, OnceExit, chanVars
    <3>2. CASE OnceEnter(p)
        BY <1>1, <3>1, <3>2 DEF OnceEnter, Goto, TypeOK
    <3>3. CASE OnceSkip(p)
        BY <1>1, <3>1, <3>3 DEF OnceSkip, shutdownVars
    <3>4. CASE TakeFuncs(p) \/ CollectCtxDone(p) \/ CollectDrained(p) \/ CloseDone(p) \/ OnceExit(p)
      <4>1. p = owner
          BY <3>4 DEF TakeFuncs, CollectCtxDone, CollectDrained, CloseDone, OnceExit, OnceInv, Inside
      <4>2. owner' = owner /\ pc'[owner] # "collect"
          BY <3>4, <4>1 DEF TakeFuncs, CollectCtxDone, CollectDrained, CloseDone, OnceExit,
             Goto, TypeOK, shutdownVars
      <4> QED
          BY <1>1, <3>1, <4>2
    <3>5. CASE Launch(p) \/ CollectErr(p)
        BY <1>1, <3>1, <3>5 DEF Launch, CollectErr, callVars
    <3> QED
        BY <1>2, <2>2, <3>2, <3>3, <3>4, <3>5 DEF CloseAllStep, Collect
  <2> QED
      BY <2>1, <2>2
<1>3. CASE WaiterClose
    BY <1>3 DEF WaiterClose
<1>4. ASSUME NEW p \in Procs, NEW l \in PcStates \ {"collect"}, Goto(p, l),
             UNCHANGED <<once, owner, waiter, errClosed>>
      PROVE  /\ (once' = "running" /\ pc'[owner'] = "collect") => waiter' # "none"
             /\ waiter' = "exited" => errClosed'
    BY <1>1, <1>4 DEF Goto, TypeOK
<1>5. ASSUME NEW w \in Watchers, Configure(w) \/ WatcherStep(w)
      PROVE  /\ (once' = "running" /\ pc'[owner'] = "collect") => waiter' # "none"
             /\ waiter' = "exited" => errClosed'
    BY <1>4, <1>5 DEF Configure, WatcherStep, Notify, OnSignal, OnDone, WatcherExit, PcStates,
       Procs, shutdownVars, chanVars
<1>6. ASSUME NEW p \in Procs, Call(p)
      PROVE  /\ (once' = "running" /\ pc'[owner'] = "collect") => waiter' # "none"
             /\ waiter' = "exited" => errClosed'
    BY <1>4, <1>6 DEF Call, PcStates, shutdownVars, chanVars
<1>7. ASSUME UNCHANGED <<once, owner, pc, waiter, errClosed>>
      PROVE  /\ (once' = "running" /\ pc'[owner'] = "collect") => waiter' # "none"
             /\ waiter' = "exited" => errClosed'
    BY <1>1, <1>7
<1> QED
    BY <1>2, <1>3, <1>5, <1>6, <1>7 DEF Next, Add, AddNamed, FuncStep, FuncStart, FuncReenter,
        FuncEnd, SendErr, FuncDone, FuncVarsOnly, CtxExpire, Signal, shutdownVars, chanVars, callVars

\* Every step of the system.
LEMMA NextPlace ==
    ASSUME TypeOK, OnceInv, ListInv, PlaceInv, [Next]_vars
    PROVE  PlaceInv'
<1>1. CASE Next
    BY <1>1, NextAdded, NextOutcome, NextWaiter DEF PlaceInv
<1>2. CASE UNCHANGED vars
    BY <1>2 DEF PlaceInv, vars, shutdownVars, chanVars, funcVars, callVars
<1> QED
    BY <1>1, <1>2

-----------------------------------------------------------------------------
(* The theorems.                                                           *)

\* The only steps that could crash the process find the channels open.
LEMMA NextNoCrash ==
    ASSUME TypeOK, OnceInv, ChanInv, NoCrash, [Next]_vars
    PROVE  NoCrash'
<1>1. ASSUME NEW p \in Procs, CloseAllStep(p) PROVE NoCrash'
  <2>1. CASE CloseDone(p)
    <3>1. ~doneClosed
        BY <2>1 DEF CloseDone, OnceInv, Inside
    <3> QED
        BY <2>1, <3>1 DEF CloseDone, NoCrash
  <2> QED
      BY <1>1, <2>1 DEF CloseAllStep, OnceEnter, OnceSkip, TakeFuncs, Launch, SpawnWaiter,
         Collect, CollectCtxDone, CollectErr, CollectDrained, OnceExit, NoCrash
<1>2. ASSUME NEW f \in Funcs, FuncStep(f) PROVE NoCrash'
  <2>1. CASE SendErr(f)
      BY <2>1, SendChan DEF SendErr, NoCrash
  <2> QED
      BY <1>2, <2>1 DEF FuncStep, FuncStart, FuncReenter, FuncEnd, FuncDone, NoCrash
<1> QED
    BY <1>1, <1>2 DEF Next, vars, NoCrash, Add, AddNamed, Call, CtxExpire, Configure,
       WatcherStep, Notify, OnSignal, OnDone, WatcherExit, WaiterClose, Signal

\* The inductive invariant holds.
THEOREM CloserIInv == Spec => []IInv
<1>1. Init => OnceInv /\ ListInv /\ ChanInv /\ ResultInv /\ NoCrash /\ PlaceInv
  <2> SUFFICES ASSUME Init PROVE OnceInv /\ ListInv /\ ChanInv /\ ResultInv /\ NoCrash /\ PlaceInv
      OBVIOUS
  <2>1. Len(<<>>) = 0 /\ 1..0 = {} /\ Elems(<<>>) = {}
      BY EmptySeq DEF Elems
  <2>2. \A p \in Procs : pc[p] \in {"off", "idle"}
      BY DEF Init
  <2>3. OnceInv
      BY <2>2 DEF Init, OnceInv, Inside
  <2>4. ListInv
      BY <2>1 DEF Init, ListInv, Snap
  <2>5. Live = {}
      BY DEF Init, Live, Launched
  <2>6. ChanInv
      BY <2>1, <2>5, FS_EmptySet DEF Init, ChanInv
  <2>7. ResultInv /\ NoCrash
      BY DEF Init, ResultInv, FirstErrorWins, NoCrash
  <2>8. PlaceInv
      BY DEF Init, PlaceInv
  <2> QED
      BY <2>3, <2>4, <2>6, <2>7, <2>8
<1>2. TypeOK /\ OnceInv /\ ListInv /\ ChanInv /\ ResultInv /\ NoCrash /\ PlaceInv /\ [Next]_vars
        => (OnceInv /\ ListInv /\ ChanInv /\ ResultInv /\ NoCrash /\ PlaceInv)'
    BY NextOnce, NextList, NextChan, NextResult, NextNoCrash, NextPlace
<1>3. Spec => []TypeOK
    BY CloserTypeOK
<1>4. IInv <=> TypeOK /\ OnceInv /\ ListInv /\ ChanInv /\ ResultInv /\ NoCrash /\ PlaceInv
    BY DEF IInv
<1> QED
    BY <1>1, <1>2, <1>3, <1>4, PTL DEF Spec

\* No goroutine ever sends on a closed errCh or closes done twice.
THEOREM CloserNoCrash == Spec => []NoCrash
<1>1. IInv => NoCrash
    BY DEF IInv
<1> QED
    BY <1>1, CloserIInv, PTL

\* No goroutine of a closing function is ever stuck sending its error: errCh
\* has one place per function and each function sends at most once.
THEOREM CloserSendNeverBlocks == Spec => []SendNeverBlocks
<1>1. ASSUME IInv, NEW f \in Funcs, fst[f] = "sending"
      PROVE  Len(errs) - rd < ErrCap
  <2> USE <1>1 DEF IInv
  <2>1. f \in Snap /\ \A i \in 1..Len(errs) : errs[i] \in Snap \ {f}
      BY ElementOfSeq DEF ListInv, ChanInv, TypeOK
  <2>2. Len(snap) \in Nat /\ snap \in Surjection(1..Len(snap), Snap)
      BY LenProperties DEF TypeOK, Snap, Elems, Surjection
  <2>3. IsFiniteSet(Snap) /\ Cardinality(Snap) <= Len(snap) /\ Cardinality(Snap) \in Nat
    <3>1. IsFiniteSet(1..Len(snap)) /\ Cardinality(1..Len(snap)) = Len(snap)
        BY <2>2, FS_Interval
    <3>2. IsFiniteSet(Snap) /\ Cardinality(Snap) <= Len(snap)
        BY <2>2, <3>1, FS_Surjection
    <3> QED
        BY <3>2, FS_CardinalityType
  <2>4. IsFiniteSet(Snap \ {f}) /\ Cardinality(Snap \ {f}) = Cardinality(Snap) - 1
      BY <2>1, <2>3, FS_RemoveElement
  <2>5. Len(errs) \in Nat /\ errs \in Injection(1..Len(errs), Snap \ {f})
      BY <2>1, LenProperties DEF TypeOK, ChanInv, Injection, IsInjective
  <2>6. Cardinality(1..Len(errs)) <= Cardinality(Snap \ {f})
      BY <2>4, <2>5, FS_Injection
  <2>7. Len(errs) < Len(snap)
    <3>1. Len(errs) \in Nat
        BY <2>5
    <3>2. Cardinality(1..Len(errs)) = Len(errs)
        BY <3>1, FS_Interval
    <3> QED
        BY <2>2, <2>3, <2>4, <2>6, <3>1, <3>2
  <2> QED
      BY <2>2, <2>5, <2>7 DEF TypeOK, ErrCap
<1>2. IInv => SendNeverBlocks
    BY <1>1 DEF SendNeverBlocks
<1> QED
    BY <1>2, CloserIInv, PTL

\* A nil error from the call that shut down means that every function it took
\* was run to its end and succeeded.
THEOREM CloserNilMeansAllClosed == Spec => []NilMeansAllClosed
<1>1. ASSUME IInv, owner # Nobody,
             pc[owner] \in {"close", "finish", "returned", "exited"}, result = NoErr,
             NEW f \in Snap
      PROVE  fst[f] = "exited" /\ outcome[f] = "ok"
  <2> USE <1>1 DEF IInv
  <2>1. errs = <<>> /\ errClosed
      BY EmptySeq DEF ResultInv, Snap, Elems
  <2>2. f \in Funcs /\ fst[f] \in Launched \cup {"exited"}
      BY <2>1, SnapIndex DEF ChanInv, ListInv
  <2>3. fst[f] = "exited"
      BY <2>1, <2>2 DEF ChanInv, Live
  <2> QED
      BY <2>1, <2>2, <2>3, EmptySeq DEF ResultInv, Elems
<1>2. IInv => NilMeansAllClosed
    BY <1>1 DEF NilMeansAllClosed
<1> QED
    BY <1>2, CloserIInv, PTL

\* The result of a shutdown is the first error received.
THEOREM CloserFirstErrorWins == Spec => []FirstErrorWins
<1>1. IInv => FirstErrorWins
    BY DEF IInv, ResultInv
<1> QED
    BY <1>1, CloserIInv, PTL

\* Nobody returns from CloseAll before the shutdown has ended.
THEOREM CloserNobodyReturnsEarly == Spec => []NobodyReturnsEarly
<1>1. IInv => NobodyReturnsEarly
    BY DEF IInv, OnceInv, NobodyReturnsEarly
<1> QED
    BY <1>1, CloserIInv, PTL

\* Once a watcher listens for signals, a signal does not kill the process
\* before the shutdown has ended.
THEOREM CloserSignalNeverKillsEarly == Spec => []SignalNeverKillsEarly
<1>1. Init => SignalNeverKillsEarly
    BY DEF Init, SignalNeverKillsEarly
<1>2. IInv /\ SignalNeverKillsEarly /\ [Next]_vars => SignalNeverKillsEarly'
  <2> SUFFICES ASSUME IInv, SignalNeverKillsEarly, [Next]_vars PROVE SignalNeverKillsEarly'
      OBVIOUS
  <2>1. CASE Signal
    <3>1. UNCHANGED <<pc, doneClosed>>
        BY <2>1 DEF Signal, callVars, shutdownVars
    <3>2. proc' = "killed" /\ Next => Notified = {}
        BY <2>1 DEF Signal, Next
    <3>3. \A w \in Watchers : pc[w] = "exited" => doneClosed
        BY DEF IInv, OnceInv, Procs
    <3>4. CASE Next
        BY <3>1, <3>2, <3>3, <3>4 DEF SignalNeverKillsEarly, Notified
    <3> QED
        BY <3>4 DEF vars, callVars, shutdownVars, SignalNeverKillsEarly
  <2>2. CASE Next /\ ~Signal
    <3>1. proc' # "killed"
        BY <2>2 DEF Next, Add, AddNamed, Call, CtxExpire, Configure, WatcherStep, Notify,
           OnSignal, OnDone, WatcherExit, WaiterClose, FuncStep, FuncStart, FuncReenter,
           FuncEnd, SendErr, FuncDone, CloseAllStep, OnceEnter, OnceSkip, TakeFuncs, Launch,
           SpawnWaiter, Collect, CollectCtxDone, CollectErr, CollectDrained, CloseDone,
           OnceExit
    <3> QED
        BY <3>1 DEF SignalNeverKillsEarly
  <2>3. CASE UNCHANGED vars
      BY <2>3 DEF vars, callVars, shutdownVars, SignalNeverKillsEarly
  <2> QED
      BY <2>1, <2>2, <2>3
<1> QED
    BY <1>1, <1>2, CloserIInv, PTL DEF Spec

-----------------------------------------------------------------------------
(* What a step may never do.                                               *)

\* A function registered after the shutdown took its list stays registered and
\* is never run (LateAddIsNeverRun): no step of any goroutine reaches it.
THEOREM CloserLateAddIsNeverRun == Spec => LateAddIsNeverRun
<1> DEFINE Late(f) == fst[f] = "added" /\ owner # Nobody /\ pc[owner] # "take"
<1>1. ASSUME IInv, [Next]_vars, NEW f \in Funcs, Late(f)
      PROVE  fst'[f] = "added"
  <2> USE <1>1 DEF IInv, TypeOK
  <2>1. ASSUME NEW g \in Funcs, FuncStep(g) PROVE fst'[f] = "added"
      BY <2>1 DEF FuncStep, FuncStart, FuncReenter, FuncEnd, SendErr, FuncDone
  <2>2. ASSUME NEW p \in Procs, CloseAllStep(p) PROVE fst'[f] = "added"
    <3>1. ~TakeFuncs(p)
        BY DEF TakeFuncs, OnceInv, Inside
    <3>2. CASE Launch(p)
      <4>1. fst[snap[idx]] = "taken" /\ snap[idx] \in Funcs
          BY <3>2, SnapIndex DEF Launch, ListInv
      <4> QED
          BY <3>2, <4>1 DEF Launch
    <3> QED
        BY <2>2, <3>1, <3>2 DEF CloseAllStep, OnceEnter, OnceSkip, SpawnWaiter, Collect,
           CollectCtxDone, CollectErr, CollectDrained, CloseDone, OnceExit, funcVars
  <2> QED
      BY <2>1, <2>2 DEF Next, Add, AddNamed, Call, CtxExpire, Configure, WatcherStep, Notify,
         OnSignal, OnDone, WatcherExit, WaiterClose, Signal, funcVars, vars
<1>2. IInv /\ [Next]_vars =>
        \A f \in Funcs :
          (fst[f] = "added" /\ owner # Nobody /\ pc[owner] # "take") => fst'[f] = "added"
    BY <1>1
<1> QED
    BY <1>2, CloserIInv, PTL DEF Spec, LateAddIsNeverRun

-----------------------------------------------------------------------------
(* Nobody waits in vain.                                                   *)

\* When no goroutine of the library can take a step, whoever is inside CloseAll
\* waits for a closing function that was started and has not returned: between
\* themselves the goroutines of the closer never deadlock (NobodyWaitsInVain).
THEOREM CloserNobodyWaitsInVain == Spec => []NobodyWaitsInVain
<1>1. ASSUME IInv, SendNeverBlocks, ~LibraryCanStep PROVE NobodyWaitsInVain
  <2> USE <1>1 DEF IInv
  <2>1. \A p \in Procs : ~CallCanStep(p)
      BY DEF LibraryCanStep
  <2>2. \A p \in Procs : pc[p] \in Inside => pc[p] = "collect" /\ p = owner /\ once = "running"
      BY <2>1 DEF CallCanStep, OnceInv
  <2>3. idx = 0
    <3>1. once = "running" => pc[owner] # "launch"
        BY <2>2 DEF OnceInv, TypeOK
    <3> QED
        BY <3>1, SnapIndex DEF ListInv
  <2>4. \A f \in Funcs : fst[f] \in {"new", "added", "running", "nested", "exited"}
    <3> SUFFICES ASSUME NEW f \in Funcs
                 PROVE  fst[f] \in {"new", "added", "running", "nested", "exited"}
        OBVIOUS
    <3>1. ~FuncCanStep(f)
        BY DEF LibraryCanStep
    <3>2. fst[f] \notin {"spawned", "leaving", "sending"}
        BY <3>1 DEF FuncCanStep, SendNeverBlocks
    <3>3. fst[f] # "taken"
      <4>1. f \in Snap => fst[f] \in Launched \cup {"exited"}
          BY <2>3, SnapIndex DEF ListInv
      <4> QED
          BY <4>1 DEF ListInv, Launched
    <3>4. fst[f] \in FuncStates
        BY DEF TypeOK
    <3> QED
        BY <3>2, <3>3, <3>4 DEF FuncStates
  <2>5. ASSUME NEW w \in Watchers, doneClosed PROVE pc[w] \notin {"spawned", "select", "returned"}
    <3>1. ~WatcherCanStep(w)
        BY DEF LibraryCanStep
    <3> QED
        BY <2>5, <3>1 DEF WatcherCanStep
  <2>6. ASSUME NEW p \in Procs, pc[p] \in Inside \cup {"once"}
        PROVE  /\ once = "running" /\ pc[owner] = "collect"
               /\ \E f \in Snap : fst[f] \in {"running", "nested"}
    <3>1. once = "running"
        BY <2>1, <2>2, <2>6 DEF CallCanStep
    <3>2. owner \in Procs /\ pc[owner] = "collect"
        BY <2>2, <3>1 DEF OnceInv, TypeOK
    <3>3. ~errClosed
        BY <2>1, <3>2 DEF CallCanStep
    <3>4. waiter = "waiting"
        BY <3>1, <3>2, <3>3 DEF PlaceInv, TypeOK
    <3>5. wg # 0
        BY <3>4 DEF LibraryCanStep, AllDone
    <3>6. Live # {}
        BY <3>5, FS_EmptySet DEF ChanInv
    <3>7. PICK f \in Funcs : fst[f] \in Launched
        BY <3>6 DEF Live
    <3>8. fst[f] \in {"running", "nested"} /\ f \in Snap
        BY <2>4, <3>7 DEF Launched, ListInv
    <3> QED
        BY <3>1, <3>2, <3>8
  <2> QED
      BY <2>4, <2>5, <2>6 DEF NobodyWaitsInVain
<1>2. IInv /\ SendNeverBlocks => NobodyWaitsInVain
    BY <1>1 DEF NobodyWaitsInVain
<1> QED
    BY <1>2, CloserIInv, CloserSendNeverBlocks, PTL

-----------------------------------------------------------------------------
(* The contract.                                                           *)

\* The parts of the mapped state that are not expressions over one variable.
Began == {f \in Funcs : fst[f] \in Started}
Registered == {f \in Funcs : fst[f] # "new"}
Succeeded == {f \in Funcs : outcome[f] = "ok"}
Back == {p \in Procs : pc[p] \in {"returned", "exited"}}
Verdict == IF ~doneClosed THEN "none" ELSE IF result = NoErr THEN "clean" ELSE "failed"

\* A step that leaves all of the mapped state alone is hidden.
LEMMA Hidden ==
    ASSUME Phase' = Phase, Registered' = Registered, Snap' = Snap, Began' = Began,
           Succeeded' = Succeeded, Verdict' = Verdict, Back' = Back
    PROVE  UNCHANGED Contract!gsVars
BY DEF Contract!gsVars, Registered, Began, Succeeded, Verdict, Back

\* Where the shutdown stands for the goroutine that is inside it.
LEMMA WinnerPhase ==
    ASSUME IInv, NEW p \in Procs, pc[p] \in Inside
    PROVE  /\ p = owner /\ owner # Nobody /\ once = "running"
           /\ Phase = IF pc[p] = "take" THEN "open"
                      ELSE IF pc[p] = "finish" THEN "closed" ELSE "closing"
           /\ doneClosed <=> pc[p] = "finish"
<1>1. p = owner /\ once = "running" /\ owner # Nobody
    BY ConstAssumption DEF IInv, OnceInv
<1>2. doneClosed <=> pc[p] = "finish"
    BY <1>1 DEF IInv, OnceInv
<1> QED
    BY <1>1, <1>2 DEF Phase, Taken

\* After done is closed the shutdown is over for everybody.
LEMMA ClosedPhase ==
    ASSUME IInv, doneClosed
    PROVE  Phase = "closed" /\ owner \in Procs /\ once # "idle"
           /\ pc[owner] \in {"finish", "returned", "exited"}
<1>1. once # "idle" /\ pc[owner] \in {"finish", "returned", "exited"}
    BY DEF IInv, OnceInv
<1>2. owner # Nobody /\ owner \in Procs
    BY <1>1 DEF IInv, OnceInv, TypeOK
<1> QED
    BY <1>1, <1>2 DEF Phase, Taken

\* A goroutine outside the shutdown moves on: the phase stays.
LEMMA OutsidePhase ==
    ASSUME IInv, NEW p \in Procs, NEW l, Goto(p, l), pc[p] \notin Inside, l # "take",
           UNCHANGED <<owner, doneClosed>>
    PROVE  Phase' = Phase
<1>1. Taken' <=> Taken
  <2>1. CASE owner = Nobody
      BY <2>1 DEF Taken
  <2>2. CASE owner # Nobody
    <3>1. owner \in Procs /\ pc'[owner] = IF owner = p THEN l ELSE pc[owner]
        BY <2>2 DEF Goto, IInv, TypeOK
    <3> QED
        BY <2>2, <3>1 DEF Taken, Inside
  <2> QED
      BY <2>1, <2>2
<1> QED
    BY <1>1 DEF Phase

\* Add is Register, or hidden if its argument list is empty.
LEMMA AddContract ==
    ASSUME IInv, NEW s \in Seq(Funcs), Add(s)
    PROVE  [Contract!GSNext]_(Contract!gsVars)
<1> DEFINE S == Elems(s)
<1>1. S \in SUBSET Funcs /\ \A f \in S : fst[f] = "new"
    BY ElementOfSeq DEF Add, Elems
<1>2. \A f \in Funcs : fst'[f] = IF f \in S THEN "added" ELSE fst[f]
    BY DEF Add
<1>3. UNCHANGED <<shutdownVars, outcome, callVars>>
    BY DEF Add
<1>4. Phase' = Phase /\ Snap' = Snap /\ Verdict' = Verdict /\ Back' = Back /\ Succeeded' = Succeeded
    BY <1>3 DEF Phase, Taken, Snap, Verdict, Back, Succeeded, shutdownVars, callVars
<1>5. Began' = Began
    BY <1>1, <1>2 DEF Began, Started
<1>6. Registered' = Registered \cup S /\ S \cap Registered = {}
    BY <1>1, <1>2 DEF Registered
<1>7. CASE S = {}
    BY <1>4, <1>5, <1>6, <1>7, Hidden
<1>8. CASE S # {}
  <2>1. Contract!Register(S)
      BY <1>4, <1>5, <1>6, <1>8
      DEF Contract!Register, Registered, Began, Succeeded, Verdict, Back
  <2> QED
      BY <1>1, <2>1 DEF Contract!GSNext
<1> QED
    BY <1>7, <1>8

\* TakeFuncs is Begin: what is taken is what was registered.
LEMMA TakeContract ==
    ASSUME IInv, NEW p \in Procs, TakeFuncs(p)
    PROVE  Contract!Begin
<1>1. p = owner /\ owner # Nobody /\ Phase = "open" /\ ~doneClosed /\ once = "running"
    BY WinnerPhase DEF TakeFuncs, Inside
<1>2. UNCHANGED <<owner, doneClosed, result, outcome>> /\ snap' = funcs
      /\ pc' = [pc EXCEPT ![p] = IF funcs = <<>> THEN "close" ELSE "launch"]
      /\ \A f \in Funcs : fst'[f] = IF f \in Elems(funcs) THEN "taken" ELSE fst[f]
    BY DEF TakeFuncs, Goto
<1>3. pc'[p] \in {"close", "launch"} /\ \A q \in Procs \ {p} : pc'[q] = pc[q]
    BY <1>2 DEF IInv, TypeOK
<1>4. Phase' = "closing"
    BY <1>1, <1>2, <1>3 DEF Phase, Taken
<1>5. Snap = {} /\ \A f \in Funcs : fst[f] \in {"new", "added"}
  <2>1. snap = <<>>
      BY <1>1 DEF TakeFuncs, IInv, ListInv, Fresh
  <2>2. Snap = {}
      BY <2>1, SnapIndex DEF IInv, Snap, Elems
  <2> QED
      BY <2>2 DEF IInv, ListInv
<1>6. Snap' = Registered
  <2>1. Elems(funcs) \subseteq Funcs /\ \A f \in Elems(funcs) : fst[f] = "added"
      BY ElementOfSeq DEF IInv, TypeOK, ListInv, Elems
  <2>2. \A f \in Funcs : fst[f] = "added" => f \in Elems(funcs)
      BY DEF IInv, PlaceInv
  <2>3. Snap' = Elems(funcs)
      BY <1>2 DEF Snap
  <2> QED
      BY <1>5, <2>1, <2>2, <2>3 DEF Registered
<1>7. Registered' = Registered /\ Began' = Began
  <2>1. \A f \in Elems(funcs) : f \in Funcs /\ fst[f] = "added"
      BY ElementOfSeq DEF IInv, TypeOK, ListInv, Elems
  <2> QED
      BY <1>2, <2>1 DEF Registered, Began, Started
<1>8. Succeeded' = Succeeded /\ Verdict' = Verdict
    BY <1>2 DEF Succeeded, Verdict
<1>9. Back' = Back
    BY <1>3 DEF Back, TakeFuncs
<1> QED
    BY <1>1, <1>4, <1>6, <1>7, <1>8, <1>9
    DEF Contract!Begin, Registered, Began, Succeeded, Verdict, Back

\* CloseDone is Finish, with an honest verdict.
LEMMA CloseDoneContract ==
    ASSUME IInv, NilMeansAllClosed, NEW p \in Procs, CloseDone(p)
    PROVE  [Contract!GSNext]_(Contract!gsVars)
<1> DEFINE v == IF result = NoErr THEN "clean" ELSE "failed"
<1>1. p = owner /\ owner # Nobody /\ Phase = "closing" /\ ~doneClosed
    BY WinnerPhase DEF CloseDone, Inside
<1>2. UNCHANGED <<owner, result, snap, fst, outcome>> /\ doneClosed'
      /\ pc' = [pc EXCEPT ![p] = "finish"]
    BY DEF CloseDone, Goto, funcVars
<1>3. pc'[p] = "finish" /\ \A q \in Procs \ {p} : pc'[q] = pc[q]
    BY <1>2 DEF IInv, TypeOK
<1>4. Phase' = "closed" /\ Verdict' = v
    BY <1>1, <1>2, <1>3 DEF Phase, Taken, Verdict
<1>5. v = "clean" => Snap \subseteq Succeeded
  <2> SUFFICES ASSUME result = NoErr, NEW f \in Snap PROVE f \in Succeeded
      OBVIOUS
  <2>1. outcome[f] = "ok"
      BY <1>1 DEF NilMeansAllClosed, CloseDone
  <2>2. f \in Funcs
      BY SnapIndex DEF IInv
  <2> QED
      BY <2>1, <2>2 DEF Succeeded
<1>6. /\ Registered' = Registered /\ Snap' = Snap /\ Began' = Began /\ Succeeded' = Succeeded
    BY <1>2 DEF Registered, Snap, Began, Succeeded
<1>7. Back' = Back
    BY <1>3 DEF Back, CloseDone
<1>8. Contract!Finish(v)
    BY <1>1, <1>4, <1>5, <1>6, <1>7
    DEF Contract!Finish, Registered, Began, Succeeded, Verdict, Back
<1> QED
    BY <1>8 DEF Contract!GSNext

\* A goroutine that comes back does so after the end.
LEMMA ReturnContract ==
    ASSUME IInv, doneClosed, NEW p \in Procs, pc[p] \notin {"returned", "exited", "take"},
           NEW l \in {"returned", "exited"}, Goto(p, l),
           UNCHANGED <<doneClosed, owner, snap, result, fst, outcome>>
    PROVE  [Contract!GSNext]_(Contract!gsVars)
<1>1. Phase = "closed" /\ owner \in Procs
    BY ClosedPhase
<1>2. pc'[p] = l /\ \A q \in Procs \ {p} : pc'[q] = pc[q]
    BY DEF Goto, IInv, TypeOK
<1>3. Phase' = "closed"
    BY <1>1, <1>2 DEF Phase, Taken
<1>4. Registered' = Registered /\ Snap' = Snap /\ Began' = Began /\ Succeeded' = Succeeded
      /\ Verdict' = Verdict
    BY DEF Registered, Snap, Began, Succeeded, Verdict
<1>5. Back' = Back \cup {p} /\ p \notin Back
    BY <1>2 DEF Back
<1>6. Contract!Return(p)
    BY <1>1, <1>3, <1>4, <1>5
    DEF Contract!Return, Registered, Began, Succeeded, Verdict, Back
<1> QED
    BY <1>6 DEF Contract!GSNext

\* A goroutine that moves on outside the shutdown, and does not come back, is hidden.
LEMMA MoveContract ==
    ASSUME IInv, NEW p \in Procs, NEW l, Goto(p, l), pc[p] \notin Inside, l # "take",
           pc[p] \in {"returned", "exited"} <=> l \in {"returned", "exited"},
           UNCHANGED <<doneClosed, owner, snap, result, fst, outcome>>
    PROVE  UNCHANGED Contract!gsVars
<1>1. Phase' = Phase
    BY OutsidePhase
<1>2. pc'[p] = l /\ \A q \in Procs \ {p} : pc'[q] = pc[q]
    BY DEF Goto, IInv, TypeOK
<1>3. Back' = Back
    BY <1>2 DEF Back
<1>4. Registered' = Registered /\ Snap' = Snap /\ Began' = Began /\ Succeeded' = Succeeded
      /\ Verdict' = Verdict
    BY DEF Registered, Snap, Began, Succeeded, Verdict
<1> QED
    BY <1>1, <1>3, <1>4, Hidden

\* The winner moves on between the beginning and the end: hidden.
LEMMA WinnerContract ==
    ASSUME IInv, NEW p \in Procs, pc[p] \in {"launch", "collect"},
           pc' = [pc EXCEPT ![p] = pc'[p]], pc'[p] \in {"launch", "collect", "close"},
           UNCHANGED <<doneClosed, owner, snap, outcome>>,
           Registered' = Registered, Began' = Began
    PROVE  UNCHANGED Contract!gsVars
<1>1. p = owner /\ owner # Nobody /\ Phase = "closing" /\ ~doneClosed
    BY WinnerPhase DEF Inside
<1>2. \A q \in Procs \ {p} : pc'[q] = pc[q]
    BY DEF IInv, TypeOK
<1>3. Phase' = Phase
    BY <1>1 DEF Phase, Taken
<1>4. Back' = Back
    BY <1>2 DEF Back
<1>5. Snap' = Snap /\ Succeeded' = Succeeded /\ Verdict' = Verdict
    BY <1>1 DEF Snap, Succeeded, Verdict
<1> QED
    BY <1>3, <1>4, <1>5, Hidden

\* The steps inside CloseAll.
LEMMA CloseAllContract ==
    ASSUME IInv, NilMeansAllClosed, NEW p \in Procs, CloseAllStep(p)
    PROVE  [Contract!GSNext]_(Contract!gsVars)
<1> USE DEF IInv
<1>1. CASE OnceEnter(p)
  <2>1. ~doneClosed /\ UNCHANGED <<doneClosed, snap, result, funcVars>>
        /\ owner' = p /\ owner = Nobody
      BY <1>1 DEF OnceEnter, OnceInv
  <2>2. pc[p] = "once" /\ pc'[p] = "take" /\ \A q \in Procs \ {p} : pc'[q] = pc[q]
      BY <1>1 DEF OnceEnter, Goto, TypeOK
  <2>3. Phase' = Phase
      BY <2>1, <2>2 DEF Phase, Taken
  <2>4. Back' = Back
      BY <2>2 DEF Back
  <2>5. Registered' = Registered /\ Snap' = Snap /\ Began' = Began /\ Succeeded' = Succeeded
        /\ Verdict' = Verdict
      BY <2>1 DEF Registered, Snap, Began, Succeeded, Verdict, funcVars
  <2> QED
      BY <2>3, <2>4, <2>5, Hidden
<1>2. CASE OnceSkip(p)
  <2>1. doneClosed /\ UNCHANGED <<doneClosed, owner, snap, result, fst, outcome>>
      BY <1>2 DEF OnceSkip, OnceInv, shutdownVars, funcVars
  <2> QED
      BY <1>2, <2>1, ReturnContract DEF OnceSkip
<1>3. CASE TakeFuncs(p)
    BY <1>3, TakeContract DEF Contract!GSNext
<1>4. CASE Launch(p)
  <2>1. pc[p] = "launch" /\ pc' = pc /\ pc' = [pc EXCEPT ![p] = pc'[p]]
        /\ UNCHANGED <<doneClosed, owner, snap, outcome>>
      BY <1>4 DEF Launch, callVars, TypeOK
  <2>2. fst[snap[idx]] = "taken" /\ snap[idx] \in Funcs
      BY <1>4, SnapIndex DEF Launch, ListInv
  <2>3. \A f \in Funcs : fst'[f] = IF f = snap[idx] THEN "spawned" ELSE fst[f]
      BY <1>4 DEF Launch, TypeOK
  <2>4. Registered' = Registered /\ Began' = Began
      BY <2>2, <2>3 DEF Registered, Began, Started
  <2> QED
      BY <2>1, <2>4, WinnerContract
<1>5. CASE SpawnWaiter(p) \/ CollectCtxDone(p) \/ CollectDrained(p)
  <2>1. /\ pc[p] \in {"launch", "collect"}
        /\ \E l \in {"collect", "close"} : Goto(p, l)
        /\ UNCHANGED <<doneClosed, owner, snap, funcVars>>
      BY <1>5 DEF SpawnWaiter, CollectCtxDone, CollectDrained, shutdownVars
  <2>2. pc' = [pc EXCEPT ![p] = pc'[p]] /\ pc'[p] \in {"collect", "close"}
      BY <2>1 DEF Goto, TypeOK
  <2>3. Registered' = Registered /\ Began' = Began /\ outcome' = outcome
      BY <2>1 DEF Registered, Began, funcVars
  <2> QED
      BY <2>1, <2>2, <2>3, WinnerContract
<1>6. CASE CollectErr(p)
  <2>1. /\ pc[p] = "collect" /\ pc' = pc
        /\ UNCHANGED <<doneClosed, owner, snap, funcVars>>
      BY <1>6 DEF CollectErr, callVars
  <2>2. pc' = [pc EXCEPT ![p] = pc'[p]]
      BY <2>1 DEF TypeOK
  <2>3. Registered' = Registered /\ Began' = Began /\ outcome' = outcome
      BY <2>1 DEF Registered, Began, funcVars
  <2> QED
      BY <2>1, <2>2, <2>3, WinnerContract
<1>7. CASE CloseDone(p)
    BY <1>7, CloseDoneContract
<1>8. CASE OnceExit(p)
  <2>1. doneClosed
      BY <1>8, WinnerPhase DEF OnceExit, Inside
  <2> QED
      BY <1>8, <2>1, ReturnContract DEF OnceExit, funcVars
<1> QED
    BY <1>1, <1>2, <1>3, <1>4, <1>5, <1>6, <1>7, <1>8 DEF CloseAllStep, Collect

\* The steps of a closing function.
LEMMA FuncContract ==
    ASSUME IInv, NEW f \in Funcs, FuncStep(f)
    PROVE  [Contract!GSNext]_(Contract!gsVars)
<1> USE DEF IInv
<1>1. Phase' = Phase /\ Snap' = Snap /\ Verdict' = Verdict /\ Back' = Back
  <2>1. UNCHANGED <<shutdownVars, callVars>>
      BY DEF FuncStep, FuncStart, FuncReenter, FuncEnd, SendErr, FuncDone, FuncVarsOnly
  <2> QED
      BY <2>1 DEF Phase, Taken, Snap, Verdict, Back, shutdownVars, callVars
<1>2. CASE FuncStart(f)
  <2>1. fst[f] = "spawned" /\ fst' = [fst EXCEPT ![f] = "running"] /\ outcome' = outcome
      BY <1>2 DEF FuncStart
  <2>2. f \in Snap \ Began
      BY <2>1 DEF ListInv, Began, Started
  <2>3. Began' = Began \cup {f} /\ Registered' = Registered /\ Succeeded' = Succeeded
      BY <2>1 DEF Began, Started, Registered, Succeeded, TypeOK
  <2>4. Contract!Start(f)
      BY <1>1, <2>2, <2>3 DEF Contract!Start, Registered, Began, Succeeded, Verdict, Back
  <2> QED
      BY <2>4 DEF Contract!GSNext
<1>3. ASSUME NEW o \in {"ok", "err", "panic"}, FuncEnd(f, o)
      PROVE  [Contract!GSNext]_(Contract!gsVars)
  <2>1. /\ fst[f] \in {"running", "nested"} /\ outcome[f] = "none"
        /\ outcome' = [outcome EXCEPT ![f] = o]
        /\ fst' = [fst EXCEPT ![f] = IF o = "ok" THEN "leaving" ELSE "sending"]
      BY <1>3 DEF FuncEnd, PlaceInv
  <2>2. Began' = Began /\ Registered' = Registered /\ f \in Began \ Succeeded
      BY <2>1 DEF Began, Started, Registered, Succeeded, TypeOK
  <2>3. Succeeded' = IF o = "ok" THEN Succeeded \cup {f} ELSE Succeeded
      BY <2>1 DEF Succeeded, TypeOK
  <2>4. CASE o = "ok"
    <3>1. Contract!Succeed(f)
        BY <1>1, <2>2, <2>3, <2>4 DEF Contract!Succeed, Registered, Began, Succeeded, Verdict, Back
    <3> QED
        BY <3>1 DEF Contract!GSNext
  <2>5. CASE o # "ok"
      BY <1>1, <2>2, <2>3, <2>5, Hidden
  <2> QED
      BY <2>4, <2>5
<1>4. CASE FuncReenter(f) \/ SendErr(f) \/ FuncDone(f)
  <2>1. /\ outcome' = outcome
        /\ \/ fst' = fst
           \/ /\ fst[f] \in {"running", "sending", "leaving"}
              /\ \E l \in {"nested", "leaving", "exited"} : fst' = [fst EXCEPT ![f] = l]
      BY <1>4 DEF FuncReenter, SendErr, FuncDone
  <2>2. Began' = Began /\ Registered' = Registered /\ Succeeded' = Succeeded
      BY <2>1 DEF Began, Started, Registered, Succeeded, TypeOK
  <2> QED
      BY <1>1, <2>2, Hidden
<1> QED
    BY <1>2, <1>3, <1>4 DEF FuncStep

\* The steps of handleSignals.
LEMMA WatcherContract ==
    ASSUME IInv, NEW w \in Watchers, Configure(w) \/ WatcherStep(w)
    PROVE  [Contract!GSNext]_(Contract!gsVars)
<1> USE DEF shutdownVars, funcVars, Inside
<1> w \in Procs
    BY DEF Procs
<1>1. CASE Configure(w) \/ Notify(w) \/ OnSignal(w)
    BY <1>1, MoveContract DEF Configure, Notify, OnSignal
<1>2. CASE OnDone(w)
    BY <1>2, ReturnContract DEF OnDone
<1>3. CASE WatcherExit(w)
    BY <1>3, MoveContract DEF WatcherExit
<1> QED
    BY <1>1, <1>2, <1>3 DEF WatcherStep

\* Every step of the closer is a step of the contract, or hidden: one shutdown
\* takes what is registered and starts it at most once, its verdict is honest,
\* nobody comes back before it (KeepsContract, the whole of GSSpec).
THEOREM CloserKeepsContract == Spec => KeepsContract
<1>1. Init => Contract!GSInit
  <2> SUFFICES ASSUME Init PROVE Contract!GSInit
      OBVIOUS
  <2>1. Phase = "open" /\ Verdict = "none"
      BY DEF Init, Phase, Taken, Verdict
  <2>2. Snap = {}
      BY EmptySeq DEF Init, Snap, Elems
  <2>3. Registered = {} /\ Began = {} /\ Succeeded = {} /\ Back = {}
      BY DEF Init, Registered, Began, Started, Succeeded, Back
  <2> QED
      BY <2>1, <2>2, <2>3 DEF Contract!GSInit, Registered, Began, Succeeded, Verdict, Back
<1>2. ASSUME IInv, NilMeansAllClosed, [Next]_vars PROVE [Contract!GSNext]_(Contract!gsVars)
  <2>1. ASSUME NEW s \in Batches, Add(s) PROVE [Contract!GSNext]_(Contract!gsVars)
      BY <1>2, <2>1, AddContract, ConstAssumption
  <2>2. ASSUME NEW f \in Funcs, AddNamed(f) PROVE [Contract!GSNext]_(Contract!gsVars)
      BY <1>2, <2>2, AddContract, <<f>> \in Seq(Funcs) DEF AddNamed
  <2>3. ASSUME NEW f \in Funcs, FuncStep(f) PROVE [Contract!GSNext]_(Contract!gsVars)
      BY <1>2, <2>3, FuncContract
  <2>4. ASSUME NEW p \in Procs, Call(p) PROVE [Contract!GSNext]_(Contract!gsVars)
      BY <1>2, <2>4, MoveContract DEF Call, Inside, shutdownVars, funcVars
  <2>5. ASSUME NEW p \in Procs, CloseAllStep(p) PROVE [Contract!GSNext]_(Contract!gsVars)
      BY <1>2, <2>5, CloseAllContract
  <2>6. ASSUME NEW w \in Watchers, Configure(w) \/ WatcherStep(w)
        PROVE  [Contract!GSNext]_(Contract!gsVars)
      BY <1>2, <2>6, WatcherContract
  <2>7. ASSUME UNCHANGED <<shutdownVars, funcVars, pc>> PROVE UNCHANGED Contract!gsVars
    <3>1. UNCHANGED <<Phase, Registered, Snap, Began, Succeeded, Verdict, Back>>
        BY <2>7 DEF Phase, Taken, Registered, Snap, Began, Succeeded, Verdict, Back, shutdownVars,
           funcVars
    <3> QED
        BY <3>1, Hidden
  <2> QED
      BY <1>2, <2>1, <2>2, <2>3, <2>4, <2>5, <2>6, <2>7
      DEF Next, CtxExpire, WaiterClose, Signal, vars, callVars
<1> QED
    BY <1>1, <1>2, CloserIInv, CloserNilMeansAllClosed, PTL DEF Spec, KeepsContract, Contract!GSSpec
=============================================================================
