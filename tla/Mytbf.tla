------------------------------- MODULE Mytbf -------------------------------
(***************************************************************************)
(* The token bucket library of the net radio server                        *)
(* (socket/stream_media/server/mytbf.c): a table job[] of buckets guarded  *)
(* by mut_job, a mutex and a condition variable per bucket, and a SIGALRM  *)
(* handler that fills every bucket once a second.  The handler takes the   *)
(* same mutexes as the calls, and the signal is directed at the process:   *)
(* it may run on any thread, between any two steps of a call.              *)
(***************************************************************************)
EXTENDS Integers, FiniteSets

CONSTANTS
    Clients,    \* threads that call the library
    Buckets,    \* the blocks malloc can return to mytbf_init
    MytbfMax,   \* MYTBF_MAX, the number of slots
    Cps,        \* tokens a tick adds; the callers of the repository give
    Burst,      \*   every bucket of a process the same cps and burst
    Sizes,      \* sizes asked of mytbf_fetchtoken
    MaxLoads,   \* bound: calls of module_load
    None        \* NULL, or no owner

Slots == 0 .. MytbfMax - 1
Alarms == 1 .. MaxLoads             \* the threads that run thr_alrm
Threads == Clients \cup Alarms

ASSUME MytbfAssumption ==
    /\ MytbfMax \in Nat \ {0}
    /\ Cps \in Nat \ {0}
    /\ Burst \in Nat \ {0}
    /\ Sizes \subseteq Nat \ {0}
    /\ MaxLoads \in Nat
    /\ None \notin Threads \cup Buckets
    /\ Clients \cap Alarms = {}

VARIABLES
    mut_job,    \* the thread that owns mut_job
    job,        \* job[s]: the bucket in slot s
    pos,        \* pos[b]: the slot of bucket b
    token,      \* token[b]
    mut,        \* mut[b]: the thread that owns the bucket's mutex
    block,      \* block[b]: what has become of the memory of b
    loads,      \* how often module_load has run
    pc,         \* pc[t]: where client t is
    on,         \* on[t]: the bucket its call is about
    req,        \* req[t]: the size argument of its call
    hold,       \* hold[b][t]: the tokens t may still give back to b
    hpc,        \* hpc[t]: where alrm_handle is that interrupted thread t
    hpos,       \* hpos[t]: its loop index
    alarm,      \* a SIGALRM is pending
    exited,     \* the process is gone
    upos,       \* upos[t]: the loop index of module_unload in t's exit
    unloaded,   \* the buckets module_unload has freed, in the table as before
    gone        \* the alarm threads module_unload has cancelled and joined

vars == <<mut_job, job, pos, token, mut, block, loads, pc, on, req, hold,
          hpc, hpos, alarm, exited, upos, unloaded, gone>>

tableVars == <<job, pos, block, loads>>
callVars == <<pc, on, req, hold>>
handlerVars == <<hpc, hpos, alarm>>
exitVars == <<exited, upos, unloaded, gone>>

Blocks == {"unused", "private", "live", "closing", "freed"}
PCs == {"idle", "initLock", "initPut", "fetchLock", "fetchTest", "fetchWait",
        "returnLock", "returnAdd", "checkLock", "checkRead",
        "destroyLock", "destroyClear", "destroyFree", "exitJoin", "exitFree"}
HPCs == {"off", "lock", "scan"}

\* the call t is in owns mut_job, the mutex of a bucket, either
OwnsTable(t) == pc[t] \in {"initPut", "destroyClear"}
OwnsBucket(t) == pc[t] \in {"fetchTest", "returnAdd", "checkRead"}
Exiting(t) == pc[t] \in {"exitJoin", "exitFree"}
InCall(t, b) == on[t] = b /\ pc[t] # "idle" /\ ~Exiting(t)
Fetching(t, b) == on[t] = b /\ pc[t] \in {"fetchLock", "fetchTest", "fetchWait"}

Smaller(a, b) == IF a < b THEN a ELSE b         \* min()

Init ==
    /\ mut_job = None
    /\ job = [s \in Slots |-> None]
    /\ pos = [b \in Buckets |-> 0]
    /\ token = [b \in Buckets |-> 0]
    /\ mut = [b \in Buckets |-> None]
    /\ block = [b \in Buckets |-> "unused"]
    /\ loads = 0
    /\ pc = [t \in Clients |-> "idle"]
    /\ on = [t \in Clients |-> None]
    /\ req = [t \in Clients |-> 0]
    /\ hold = [b \in Buckets |-> [t \in Clients |-> 0]]
    /\ hpc = [t \in Threads |-> "off"]
    /\ hpos = [t \in Threads |-> 0]
    /\ alarm = FALSE
    /\ exited = FALSE
    /\ upos = [t \in Clients |-> 0]
    /\ unloaded = {}
    /\ gone = {}

-----------------------------------------------------------------------------
\* Calls.  A thread runs its call only while no handler has interrupted it.

Runs(t) == ~exited /\ hpc[t] = "off"
At(t, p) == Runs(t) /\ pc[t] = p
Goto(t, p) == pc' = [pc EXCEPT ![t] = p]
Call(t, p, b, n) ==
    /\ At(t, "idle")
    /\ Goto(t, p)
    /\ on' = [on EXCEPT ![t] = b]
    /\ req' = [req EXCEPT ![t] = n]
Return(t) ==
    /\ Goto(t, "idle")
    /\ on' = [on EXCEPT ![t] = None]
    /\ req' = [req EXCEPT ![t] = 0]

Lock(t, b) == mut[b] = None /\ mut' = [mut EXCEPT ![b] = t]
Unlock(b) == mut' = [mut EXCEPT ![b] = None]
WokenNobody(b) == pc                            \* mutant: no broadcast
\* pthread_cond_broadcast: every waiter goes to take the mutex again
Woken(b) ==
    [t \in Clients |->
        IF pc[t] = "fetchWait" /\ on[t] = b THEN "fetchLock" ELSE pc[t]]

\* module_load runs once by itself and, the first time, once through
\* pthread_once
LoadsOfInit == IF loads = 0 THEN 2 ELSE 1
\* loads is 1 when exit was called inside of pthread_once: others wait there
CanLoad == loads # 1 /\ loads + LoadsOfInit <= MaxLoads

\* malloc returns NULL, and so does mytbf_init
InitNoMemory(t) ==
    /\ At(t, "idle")
    /\ CanLoad
    /\ loads' = loads + LoadsOfInit
    /\ UNCHANGED <<mut_job, job, pos, block, token, mut, callVars, handlerVars,
                   exitVars>>

\* pthread_create fails after it made the threads up to n, and the process
\* exits: at once if no module_unload is registered yet
InitNoThread(t) ==
    /\ At(t, "idle")
    /\ CanLoad
    /\ \E n \in loads .. loads + LoadsOfInit - 1 :
        /\ loads' = n
        /\ \/ n = 0 /\ exited' = TRUE /\ UNCHANGED pc
           \/ n > 0 /\ Goto(t, "exitJoin") /\ UNCHANGED exited
    /\ UNCHANGED <<mut_job, job, pos, block, token, mut, on, req, hold,
                   handlerVars, upos, unloaded, gone>>

InitCall(t, b) ==
    /\ CanLoad
    /\ block[b] = "unused"
    /\ Call(t, "initLock", b, 0)
    /\ loads' = loads + LoadsOfInit
    /\ block' = [block EXCEPT ![b] = "private"]
    /\ token' = [token EXCEPT ![b] = 0]
    /\ UNCHANGED <<mut_job, job, pos, mut, hold, handlerVars, exitVars>>

\* mutant: mut_job not waited for
LockTableAnyway(t, p, q) ==
    /\ At(t, p)
    /\ mut_job' = t
    /\ Goto(t, q)
    /\ UNCHANGED <<tableVars, token, mut, on, req, hold, handlerVars, exitVars>>

LockTable(t, p, q) ==
    /\ At(t, p)
    /\ mut_job = None
    /\ mut_job' = t
    /\ Goto(t, q)
    /\ UNCHANGED <<tableVars, token, mut, on, req, hold, handlerVars, exitVars>>

InitLock(t) == LockTable(t, "initLock", "initPut")

FreeSlots == {s \in Slots : job[s] = None}
FirstSlot(s) == s = 0                           \* mutant: slot taken or not
FirstFree(s) == s \in FreeSlots /\ \A r \in FreeSlots : s <= r

InitPut(t) ==
    /\ At(t, "initPut")
    /\ mut_job' = None
    /\ \E s \in Slots :
        /\ FirstFree(s)
        /\ job' = [job EXCEPT ![s] = on[t]]
        /\ pos' = [pos EXCEPT ![on[t]] = s]
    /\ block' = [block EXCEPT ![on[t]] = "live"]
    /\ Return(t)
    /\ UNCHANGED <<token, mut, loads, hold, handlerVars, exitVars>>

InitFull(t) ==
    /\ At(t, "initPut")
    /\ FreeSlots = {}
    /\ mut_job' = None
    /\ block' = [block EXCEPT ![on[t]] = "freed"]
    /\ Goto(t, "exitJoin")
    /\ on' = [on EXCEPT ![t] = None]
    /\ req' = [req EXCEPT ![t] = 0]
    /\ UNCHANGED <<job, pos, token, mut, loads, hold, handlerVars, exitVars>>

-----------------------------------------------------------------------------
\* exit(1) runs module_unload, once for each load, while every other thread,
\* and the handler on any thread, goes on with what it does.

\* the last alarm thread is gone, in the midst of its handler or not:
\* pthread_cancel interrupts pause() and what has interrupted pause()
ExitJoin(t) ==
    /\ At(t, "exitJoin")
    /\ gone' = gone \cup {loads}
    /\ Goto(t, "exitFree")
    /\ UNCHANGED <<mut_job, tableVars, token, mut, on, req, hold, handlerVars,
                   exited, upos, unloaded>>

\* the loop takes no mutex and leaves job as it is: whoever uses the bucket
\* from here on uses freed memory, and does with it what it would have done
ExitFree(t) ==
    /\ At(t, "exitFree")
    /\ upos[t] \in Slots
    /\ job[upos[t]] \notin unloaded
    /\ unloaded' = unloaded \cup ({job[upos[t]]} \ {None})
    /\ upos' = [upos EXCEPT ![t] = @ + 1]
    /\ UNCHANGED <<mut_job, tableVars, token, mut, callVars, handlerVars,
                   exited, gone>>

\* a block freed twice ends the process, and after the loop the next
\* module_unload joins a thread that is gone and frees the same blocks again
ExitEnd(t) ==
    /\ At(t, "exitFree")
    /\ upos[t] \in Slots => job[upos[t]] \in unloaded
    /\ exited' = TRUE
    /\ UNCHANGED <<mut_job, tableVars, token, mut, callVars, handlerVars,
                   upos, unloaded, gone>>

-----------------------------------------------------------------------------

FetchCall(t, b, n) ==
    /\ block[b] = "live"
    /\ Call(t, "fetchLock", b, n)
    /\ UNCHANGED <<mut_job, tableVars, token, mut, hold, handlerVars, exitVars>>

LockBucket(t, p, q) ==
    /\ At(t, p)
    /\ Lock(t, on[t])
    /\ Goto(t, q)
    /\ UNCHANGED <<mut_job, tableVars, token, on, req, hold, handlerVars, exitVars>>

FetchLock(t) == LockBucket(t, "fetchLock", "fetchTest")

\* mutant: waits without giving the mutex up
FetchWaitHolding(t) ==
    /\ At(t, "fetchTest")
    /\ token[on[t]] <= 0
    /\ Goto(t, "fetchWait")
    /\ UNCHANGED <<mut_job, tableVars, token, mut, on, req, hold, handlerVars, exitVars>>

FetchWait(t) ==
    /\ At(t, "fetchTest")
    /\ token[on[t]] <= 0
    /\ Unlock(on[t])
    /\ Goto(t, "fetchWait")
    /\ UNCHANGED <<mut_job, tableVars, token, on, req, hold, handlerVars, exitVars>>

SpuriousWakeup(t) ==
    /\ At(t, "fetchWait")
    /\ Goto(t, "fetchLock")
    /\ UNCHANGED <<mut_job, tableVars, token, mut, on, req, hold, handlerVars, exitVars>>

GrantedAsAsked(b, n) == n                       \* mutant: min() forgotten
Granted(b, n) == Smaller(token[b], n)

\* mutant: the tokens granted are not subtracted
FetchTakeFree(t) ==
    LET b == on[t]
        n == Granted(b, req[t])
    IN  /\ At(t, "fetchTest")
        /\ token[b] > 0
        /\ hold' = [hold EXCEPT ![b][t] = n]
        /\ Unlock(b)
        /\ pc' = [Woken(b) EXCEPT ![t] = "idle"]
        /\ on' = [on EXCEPT ![t] = None]
        /\ req' = [req EXCEPT ![t] = 0]
        /\ UNCHANGED <<mut_job, tableVars, token, handlerVars, exitVars>>

FetchTake(t) ==
    LET b == on[t]
        n == Granted(b, req[t])
    IN  /\ At(t, "fetchTest")
        /\ token[b] > 0
        /\ token' = [token EXCEPT ![b] = @ - n]
        /\ hold' = [hold EXCEPT ![b][t] = n]
        /\ Unlock(b)
        /\ pc' = [Woken(b) EXCEPT ![t] = "idle"]
        /\ on' = [on EXCEPT ![t] = None]
        /\ req' = [req EXCEPT ![t] = 0]
        /\ UNCHANGED <<mut_job, tableVars, handlerVars, exitVars>>

\* a caller gives back no more than its last fetch gave it, as mlib_readchn
ReturnCall(t, b, n) ==
    /\ block[b] = "live"
    /\ n <= hold[b][t]
    /\ Call(t, "returnLock", b, n)
    /\ UNCHANGED <<mut_job, tableVars, token, mut, hold, handlerVars, exitVars>>

ReturnLock(t) == LockBucket(t, "returnLock", "returnAdd")

Raised(b, n) == Smaller(token[b] + n, Burst)

\* no broadcast: whoever waits is not told
ReturnAdd(t) ==
    /\ At(t, "returnAdd")
    /\ token' = [token EXCEPT ![on[t]] = Raised(on[t], req[t])]
    /\ hold' = [hold EXCEPT ![on[t]][t] = @ - req[t]]
    /\ Unlock(on[t])
    /\ Return(t)
    /\ UNCHANGED <<mut_job, tableVars, handlerVars, exitVars>>

CheckCall(t, b) ==
    /\ block[b] = "live"
    /\ Call(t, "checkLock", b, 0)
    /\ UNCHANGED <<mut_job, tableVars, token, mut, hold, handlerVars, exitVars>>

CheckLock(t) == LockBucket(t, "checkLock", "checkRead")

CheckRead(t) ==
    /\ At(t, "checkRead")
    /\ Unlock(on[t])
    /\ Return(t)
    /\ UNCHANGED <<mut_job, tableVars, token, hold, handlerVars, exitVars>>

\* mytbf_destroy looks at nothing: that no other thread is in a call on the
\* bucket, or makes one later, is what its caller has to see to
DestroyCall(t, b) ==
    /\ block[b] = "live"
    /\ \A u \in Clients : ~InCall(u, b)
    /\ Call(t, "destroyLock", b, 0)
    /\ block' = [block EXCEPT ![b] = "closing"]
    /\ UNCHANGED <<mut_job, job, pos, loads, token, mut, hold, handlerVars, exitVars>>

DestroyLock(t) == LockTable(t, "destroyLock", "destroyClear")

\* mutant: the slot is not cleared
DestroyClearForgets(t) ==
    /\ At(t, "destroyClear")
    /\ mut_job' = None
    /\ Goto(t, "destroyFree")
    /\ UNCHANGED <<job, pos, block, loads, token, mut, on, req, hold, handlerVars, exitVars>>

DestroyClear(t) ==
    /\ At(t, "destroyClear")
    /\ job' = [job EXCEPT ![pos[on[t]]] = None]
    /\ mut_job' = None
    /\ Goto(t, "destroyFree")
    /\ UNCHANGED <<pos, block, loads, token, mut, on, req, hold, handlerVars, exitVars>>

DestroyFree(t) ==
    /\ At(t, "destroyFree")
    /\ on[t] \notin unloaded
    /\ block' = [block EXCEPT ![on[t]] = "freed"]
    /\ Return(t)
    /\ UNCHANGED <<mut_job, job, pos, loads, token, mut, hold, handlerVars, exitVars>>

\* module_unload has freed the bucket already: a block freed twice
DestroyAgain(t) ==
    /\ At(t, "destroyFree")
    /\ on[t] \in unloaded
    /\ exited' = TRUE
    /\ UNCHANGED <<mut_job, tableVars, token, mut, callVars, handlerVars,
                   upos, unloaded, gone>>

-----------------------------------------------------------------------------
\* The interval timer and alrm_handle.

\* thr_alrm has armed the timer; a SIGALRM already pending absorbs another
RaiseAlarm ==
    /\ ~exited
    /\ loads > 0
    /\ ~alarm
    /\ alarm' = TRUE
    /\ UNCHANGED <<mut_job, tableVars, token, mut, callVars, hpc, hpos, exitVars>>

\* the kernel may choose any thread that has not SIGALRM blocked, and the
\* handler runs with it blocked
Started == Clients \cup ((1 .. loads) \ gone)
Deliver(t) ==
    /\ Runs(t)
    /\ alarm
    /\ t \in Started
    /\ alarm' = FALSE
    /\ hpc' = [hpc EXCEPT ![t] = "lock"]
    /\ UNCHANGED <<mut_job, tableVars, token, mut, callVars, hpos, exitVars>>

HandlerRuns(t) == ~exited /\ t \notin gone

HandlerLock(t) ==
    /\ HandlerRuns(t)
    /\ hpc[t] = "lock"
    /\ mut_job = None
    /\ mut_job' = t
    /\ hpc' = [hpc EXCEPT ![t] = "scan"]
    /\ hpos' = [hpos EXCEPT ![t] = 0]
    /\ UNCHANGED <<tableVars, token, mut, callVars, alarm, exitVars>>

ScansAt(t, s) == HandlerRuns(t) /\ hpc[t] = "scan" /\ hpos[t] = s /\ s \in Slots

HandlerSkip(t) ==
    /\ ScansAt(t, hpos[t])
    /\ job[hpos[t]] = None
    /\ hpos' = [hpos EXCEPT ![t] = @ + 1]
    /\ UNCHANGED <<mut_job, tableVars, token, mut, callVars, hpc, alarm, exitVars>>

\* lock, add, broadcast and unlock: one step, for nobody sees between them
HandlerFill(t) ==
    LET b == job[hpos[t]]
    IN  /\ ScansAt(t, hpos[t])
        /\ b # None
        /\ mut[b] = None
        /\ token' = [token EXCEPT ![b] = Raised(b, Cps)]
        /\ pc' = Woken(b)
        /\ hpos' = [hpos EXCEPT ![t] = @ + 1]
        /\ UNCHANGED <<mut_job, tableVars, mut, on, req, hold, hpc, alarm, exitVars>>

HandlerUnlock(t) ==
    /\ HandlerRuns(t)
    /\ hpc[t] = "scan"
    /\ hpos[t] = MytbfMax
    /\ mut_job' = None
    /\ hpc' = [hpc EXCEPT ![t] = "off"]
    /\ hpos' = [hpos EXCEPT ![t] = 0]
    /\ UNCHANGED <<tableVars, token, mut, callVars, alarm, exitVars>>

-----------------------------------------------------------------------------
CallStart(t, b) ==
    \/ InitCall(t, b) \/ InitNoMemory(t) \/ InitNoThread(t)
    \/ \E n \in Sizes : FetchCall(t, b, n)
    \/ \E n \in 1 .. Burst : ReturnCall(t, b, n)
    \/ CheckCall(t, b)
    \/ DestroyCall(t, b)

CallProgress(t) ==
    \/ InitLock(t) \/ InitPut(t) \/ InitFull(t)
    \/ FetchLock(t) \/ FetchWait(t) \/ FetchTake(t)
    \/ ReturnLock(t) \/ ReturnAdd(t)
    \/ CheckLock(t) \/ CheckRead(t)
    \/ DestroyLock(t) \/ DestroyClear(t) \/ DestroyFree(t) \/ DestroyAgain(t)
    \/ ExitJoin(t) \/ ExitFree(t) \/ ExitEnd(t)

CallStep(t) == CallProgress(t) \/ SpuriousWakeup(t)

HandlerStep(t) ==
    \/ HandlerLock(t) \/ HandlerSkip(t) \/ HandlerFill(t) \/ HandlerUnlock(t)

Next ==
    \/ \E t \in Clients, b \in Buckets : CallStart(t, b)
    \/ \E t \in Clients : CallStep(t)
    \/ RaiseAlarm
    \/ \E t \in Threads : Deliver(t) \/ HandlerStep(t)

Spec == Init /\ [][Next]_vars


-----------------------------------------------------------------------------
(***************************************************************************)
(* Properties.                                                             *)
(***************************************************************************)

\* Every variable holds values of its kind, and a bucket between 0 and Burst
\* tokens.
TypeOK ==
    /\ mut_job \in Threads \cup {None}
    /\ job \in [Slots -> Buckets \cup {None}]
    /\ pos \in [Buckets -> Slots]
    /\ token \in [Buckets -> 0 .. Burst]
    /\ mut \in [Buckets -> Clients \cup {None}]
    /\ block \in [Buckets -> Blocks]
    /\ loads \in 0 .. MaxLoads
    /\ pc \in [Clients -> PCs]
    /\ on \in [Clients -> Buckets \cup {None}]
    /\ req \in [Clients -> Nat]
    /\ hold \in [Buckets -> [Clients -> Nat]]
    /\ hpc \in [Threads -> HPCs]
    /\ hpos \in [Threads -> 0 .. MytbfMax]
    /\ alarm \in BOOLEAN
    /\ exited \in BOOLEAN
    /\ upos \in [Clients -> 0 .. MytbfMax]
    /\ unloaded \subseteq Buckets
    /\ gone \subseteq 0 .. MaxLoads

\* Memory that mytbf_destroy or mytbf_init has freed is not used again: the
\* handler never fills such a bucket, nor one mytbf_init has not finished,
\* although it may be halfway through the table when a bucket goes; no call
\* works on one, and module_unload, which takes no mutex, does not free one a
\* second time.  What module_unload itself frees is used, by the calls and
\* handlers that go on, but only in a process that is in exit.
Ending == exited \/ \E t \in Clients : Exiting(t)
NoUseAfterFree ==
    /\ \A t \in Threads :
        (hpc[t] = "scan" /\ hpos[t] \in Slots /\ job[hpos[t]] # None)
            => block[job[hpos[t]]] \in {"live", "closing"}
    /\ \A t \in Clients : on[t] # None => block[on[t]] # "freed"
    /\ \A b \in unloaded : Ending /\ block[b] \in {"live", "closing"}

\* The table and the buckets agree: a bucket that is live is in the slot it
\* remembers, so that mytbf_destroy clears its own slot and no other's; no
\* bucket is in two slots, and none that is not live or being destroyed is in
\* any.
TableMatches ==
    /\ \A b \in Buckets : block[b] = "live" => job[pos[b]] = b
    /\ \A s \in Slots : job[s] # None =>
        pos[job[s]] = s /\ block[job[s]] \in {"live", "closing"}

\* One thread at a time is past the lock of mut_job, be it a call or the
\* handler that interrupted one, and the mutex of a bucket has one owner whose
\* call is on that bucket.
Exclusion ==
    /\ \A t, u \in Threads : (hpc[t] = "scan" /\ hpc[u] = "scan") => t = u
    /\ \A t \in Clients, u \in Threads : ~(OwnsTable(t) /\ hpc[u] = "scan")
    /\ \A t, u \in Clients :
        /\ OwnsTable(t) /\ OwnsTable(u) => t = u
        /\ OwnsBucket(t) /\ OwnsBucket(u) /\ on[t] = on[u] => t = u

\* No set of threads waits for one another in a circle unless a handler waits
\* for what the very call that it interrupted owns, or for an alarm thread that
\* module_unload cancelled in its handler: when no call that owns a mutex has
\* been interrupted and no thread that is gone owns mut_job, whoever owns
\* mut_job or the mutex of a bucket can take its next step.
OwnerInterrupted ==
    \E t \in Clients : hpc[t] # "off" /\ (OwnsTable(t) \/ OwnsBucket(t))
OwnersProceed ==
    (~exited /\ ~OwnerInterrupted /\ mut_job \notin gone) =>
        /\ \A b \in Buckets : mut[b] # None => Runs(mut[b]) /\ OwnsBucket(mut[b])
        /\ mut_job # None =>
            \/ mut_job \in Clients /\ Runs(mut_job) /\ OwnsTable(mut_job)
            \/ hpc[mut_job] = "scan"

\* The inductive invariant behind them.  Who owns a mutex is where its program
\* counters say ...
Owners ==
    /\ \A t \in Clients : OwnsTable(t) => mut_job = t /\ hpc[t] # "scan"
    /\ \A t \in Threads : hpc[t] = "scan" => mut_job = t
    /\ mut_job # None =>
        \/ mut_job \in Clients /\ OwnsTable(mut_job)
        \/ hpc[mut_job] = "scan"
    /\ \A t \in Clients : OwnsBucket(t) => mut[on[t]] = t
    /\ \A b \in Buckets : mut[b] # None => OwnsBucket(mut[b]) /\ on[mut[b]] = b

\* ... a call is on a bucket in the state the call expects, and alone with it
\* while it makes or destroys it ...
Making(t) == pc[t] \in {"initLock", "initPut"}
Destroying(t) == pc[t] \in {"destroyLock", "destroyClear", "destroyFree"}
Returning(t) == pc[t] \in {"returnLock", "returnAdd"}
BlockOf(t) ==
    IF Making(t) THEN "private" ELSE IF Destroying(t) THEN "closing" ELSE "live"
CallsMatch ==
    /\ \A t \in Clients :
        /\ (pc[t] = "idle" \/ Exiting(t)) <=> on[t] = None
        /\ on[t] # None => block[on[t]] = BlockOf(t)
        /\ pc[t] \in {"fetchLock", "fetchTest", "fetchWait"} => req[t] \in Sizes
        /\ Returning(t) => req[t] \in 1 .. Burst /\ req[t] <= hold[on[t]][t]
    /\ \A t, u \in Clients :
        (Making(t) \/ Destroying(t)) /\ on[u] = on[t] => t = u

\* ... a bucket is in its slot until mytbf_destroy has cleared it, and has no
\* tokens before mytbf_init has made it ...
SlotsMatch ==
    /\ TableMatches
    /\ \A b \in Buckets : block[b] = "unused" => token[b] = 0
    /\ \A t \in Clients :
        /\ pc[t] \in {"destroyLock", "destroyClear"} => job[pos[on[t]]] = on[t]
        /\ pc[t] = "destroyFree" => \A s \in Slots : job[s] # on[t]

\* ... and module_unload has run only in a process that exits, and has freed
\* only buckets that nobody else has.
UnloadMatch == \A b \in unloaded : Ending /\ block[b] \in {"live", "closing"}

IInv == TypeOK /\ Owners /\ CallsMatch /\ SlotsMatch /\ UnloadMatch

\* Each bucket behaves as the token bucket its callers were promised.
TB(b) == INSTANCE TokenBucket WITH
            Callers <- Clients, level <- token[b], got <- hold[b]
ImplementsTokenBucket ==
    /\ \A b \in Buckets : TB(b)!Init
    /\ [][\A b \in Buckets : [TB(b)!Next]_(TB(b)!vars)]_vars

\* The timer goes on and a signal is delivered; a thread in a call or in the
\* handler is scheduled, and gets a mutex that is free again and again.
Fairness ==
    /\ WF_vars(RaiseAlarm)
    /\ WF_vars(\E t \in Threads : Deliver(t))
    /\ \A t \in Clients : SF_vars(CallProgress(t))
    /\ \A t \in Threads : SF_vars(HandlerStep(t))

FairSpec == Spec /\ Fairness

\* Between two ticks, a second apart, there is a moment when no handler runs
\* and nobody owns the mutex of b.
Quiet(b) == mut[b] = None /\ \A t \in Threads : hpc[t] = "off"

\* As long as no handler interrupts the owner of a mutex and nobody calls exit,
\* a bucket on which threads fetch from some time on serves fetches again and
\* again: the waits in mytbf_fetchtoken end, with tokens for someone.
Serves ==
    \A b \in Buckets :
        (/\ []~(OwnerInterrupted \/ Ending)
         /\ []<>Quiet(b)
         /\ <>[](\E t \in Clients : Fetching(t, b)))
            => []<><<\E t \in Clients : on[t] = b /\ FetchTake(t)>>_vars

\* The comment on the wait, "no token, wait for the notification", as a promise
\* to the thread that waits: the notification comes.
WaiterNotified ==
    \A t \in Clients : (pc[t] = "fetchWait") ~> (pc[t] # "fetchWait" \/ exited)

=============================================================================
