-------------------------- MODULE GracefulShutdown --------------------------
(***************************************************************************)
(* What the closer promises to a program, without goroutines, channels or  *)
(* sync.Once: there is one shutdown; it takes the functions registered     *)
(* when it begins and starts each of them at most once; its verdict is     *)
(* "clean" only if all of them succeeded; callers come back after it.      *)
(***************************************************************************)
CONSTANTS Funcs, Procs

VARIABLES
    phase,       \* "open", "closing" or "closed"
    registered,  \* functions accepted by Add
    taken,       \* functions the shutdown is about
    started,     \* functions that were called
    succeeded,   \* functions that returned without an error
    verdict,     \* "none", "clean" or "failed"
    back         \* goroutines that came back from the shutdown

gsVars == <<phase, registered, taken, started, succeeded, verdict, back>>

GSInit ==
    /\ phase = "open" /\ verdict = "none"
    /\ registered = {} /\ taken = {} /\ started = {} /\ succeeded = {} /\ back = {}

Register(S) ==
    /\ S # {} /\ S \cap registered = {}
    /\ registered' = registered \cup S
    /\ UNCHANGED <<phase, taken, started, succeeded, verdict, back>>

Begin ==
    /\ phase = "open"
    /\ phase' = "closing" /\ taken' = registered
    /\ UNCHANGED <<registered, started, succeeded, verdict, back>>

Start(f) ==
    /\ f \in taken \ started
    /\ started' = started \cup {f}
    /\ UNCHANGED <<phase, registered, taken, succeeded, verdict, back>>

Succeed(f) ==
    /\ f \in started \ succeeded
    /\ succeeded' = succeeded \cup {f}
    /\ UNCHANGED <<phase, registered, taken, started, verdict, back>>

Finish(v) ==
    /\ phase = "closing"
    /\ v = "clean" => taken \subseteq succeeded
    /\ phase' = "closed" /\ verdict' = v
    /\ UNCHANGED <<registered, taken, started, succeeded, back>>

Return(p) ==
    /\ phase = "closed" /\ p \notin back
    /\ back' = back \cup {p}
    /\ UNCHANGED <<phase, registered, taken, started, succeeded, verdict>>

GSNext ==
    \/ \E S \in SUBSET Funcs : Register(S)
    \/ Begin
    \/ \E f \in Funcs : Start(f) \/ Succeed(f)
    \/ \E v \in {"clean", "failed"} : Finish(v)
    \/ \E p \in Procs : Return(p)

GSSpec == GSInit /\ [][GSNext]_gsVars
=============================================================================
