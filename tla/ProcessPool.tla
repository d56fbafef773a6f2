---------------------------- MODULE ProcessPool ----------------------------
(***************************************************************************)
(* The pre-forked servers of socket/processPool.  The parent forks worker  *)
(* processes that all accept on one socket; each has a record in a table   *)
(* in shared memory where it writes whether it is idle or busy before it   *)
(* notifies the parent with a signal.  Notified, the parent scans the      *)
(* table and forks or kills workers.  No lock protects the table.          *)
(*                                                                         *)
(* Three programs share this design; Variant says which one is modelled:   *)
(* others.c, test.c or server.c.                                           *)
(***************************************************************************)
EXTENDS Integers, FiniteSets

CONSTANTS
    Variant,    \* "others", "test" or "server"
    Pids,       \* process identifiers of workers; fork may return that of a
                \*   worker that is dead and still in the table
    MaxSlots,   \* MAXCLINETS, maxWorkingProcess
    MinIdle,    \* MINSPACESERVER, lowestIdleProcess
    MaxIdle,    \* MAXSPACESERVER, maxIdleProcess
    MayExit,    \* processes may exit by themselves: accept, send or fork fails
    None,       \* -1 in the table
    Zeroed      \* what the zeroed memory past the table holds: not -1

Slots == 0 .. MaxSlots - 1
Cells == 0 .. MaxSlots      \* and the record just past the table
Past == MaxSlots

ASSUME PoolAssumption ==
    /\ Variant \in {"others", "test", "server"}
    /\ IsFiniteSet(Pids)
    /\ MaxSlots \in Nat \ {0}
    /\ MinIdle \in Nat
    /\ MaxIdle \in Nat
    /\ MayExit \in BOOLEAN
    /\ None \notin Pids \cup {Zeroed} /\ Zeroed \notin Pids

VARIABLES
    pid, state,                 \* pid[c], state[c]: the table
    idle_count, busy_count,     \* the parent's totals
    at,                         \* where the parent is
    i,                          \* its loop counter
    slot,                       \* the slot it works on
    idle, busy,                 \* the totals of the scan under way
    child,                      \* the worker forked and not recorded yet
    ret,                        \* the loop that called add_one_server
    masked,                     \* the parent blocks the notification
    notified,                   \* the notification is pending at the parent
    job,                        \* job[p]: where worker p is
    pos                         \* pos[p]: its slot

vars == <<pid, state, idle_count, busy_count, at, i, slot, idle, busy, child,
          ret, masked, notified, job, pos>>

countVars == <<idle_count, busy_count>>
parentVars == <<at, i, slot, idle, busy, child, ret, masked, countVars>>
workerVars == <<job, pos>>

Init ==
    /\ pid = [c \in Cells |-> IF c = Past THEN Zeroed ELSE None]
    /\ state = [c \in Cells |-> "idle"]
    /\ idle_count = 0 /\ busy_count = 0
    /\ at = "start" /\ i = 0 /\ slot = 0
    /\ idle = 0 /\ busy = 0
    /\ child = None /\ ret = "start"
    /\ masked = TRUE /\ notified = FALSE
    /\ job = [p \in Pids |-> "none"]
    /\ pos = [p \in Pids |-> 0]

Alive == {p \in Pids : job[p] # "none"}
Used == {s \in Slots : pid[s] # None}

-----------------------------------------------------------------------------
\* Workers: server_job.

Works(p, here, there) == job[p] = here /\ job' = [job EXCEPT ![p] = there]

\* others.c and test.c signal the parent; server.c signals the process recorded
\* in the worker's own slot: itself, or every process when it has not been
\* recorded yet.  Not blocked, the signal is lost unless the parent is in
\* sigsuspend.
Told(p) == Variant # "server" \/ pid[pos[p]] = None
NotifyUnblocked(p) == notified' = (notified \/ at = "suspend")     \* mutant
Notify(p) == notified' = (notified \/ (Told(p) /\ (masked \/ at = "suspend")))

WriteIdle(p) ==
    /\ Works(p, "writeIdle", "notifyIdle")
    /\ state' = [state EXCEPT ![pos[p]] = "idle"]
    /\ UNCHANGED <<pid, parentVars, notified, pos>>

NotifyIdle(p) ==
    /\ Works(p, "notifyIdle", "accept")
    /\ Notify(p)
    /\ UNCHANGED <<pid, state, parentVars, pos>>

Accept(p) ==
    /\ Works(p, "accept", "writeBusy")
    /\ UNCHANGED <<pid, state, parentVars, notified, pos>>

\* accept fails with EINTR: others.c tries again, the others exit
AcceptFails(p) ==
    /\ MayExit
    /\ Works(p, "accept", IF Variant = "others" THEN "writeIdle" ELSE "none")
    /\ UNCHANGED <<pid, state, parentVars, notified, pos>>

WriteBusy(p) ==
    /\ Works(p, "writeBusy", "notifyBusy")
    /\ state' = [state EXCEPT ![pos[p]] = "busy"]
    /\ UNCHANGED <<pid, parentVars, notified, pos>>

\* mutant: the parent is not told
NotifyBusySilent(p) ==
    /\ Works(p, "notifyBusy", "serve")
    /\ UNCHANGED <<pid, state, parentVars, notified, pos>>

NotifyBusy(p) ==
    /\ Works(p, "notifyBusy", "serve")
    /\ Notify(p)
    /\ UNCHANGED <<pid, state, parentVars, pos>>

Serve(p) ==
    /\ Works(p, "serve", "writeIdle")
    /\ UNCHANGED <<pid, state, parentVars, notified, pos>>

\* accept fails for another reason, or send does (SIGPIPE ends the worker where
\* the code does not look at its result); SIGCHLD is ignored, and so
\* nobody is told
WorkerExits(p) ==
    /\ MayExit
    /\ job[p] \in {"accept", "serve"}
    /\ job' = [job EXCEPT ![p] = "none"]
    /\ UNCHANGED <<pid, state, parentVars, notified, pos>>

-----------------------------------------------------------------------------
\* The parent: add_one_server, called by main when it starts and when idle
\* workers are too few.

\* mutant: one worker too few
AddingFewer ==
    \/ at = "start" /\ i < MinIdle
    \/ at = "grow" /\ i + 1 < MinIdle - idle_count

Adding ==
    \/ at = "start" /\ i < MinIdle
    \/ at = "grow" /\ i < MinIdle - idle_count

PoolFullLater == idle_count + busy_count > MaxSlots     \* mutant
PoolFull ==
    IF Variant = "others" THEN idle_count + busy_count >= MaxSlots
                          ELSE idle_count + busy_count > MaxSlots

AddRefused ==
    /\ Adding
    /\ PoolFull
    /\ i' = i + 1
    /\ UNCHANGED <<pid, state, at, slot, idle, busy, child, ret, countVars,
                   masked, notified, workerVars>>

\* the search stops at a free slot, or just past the table
FreeCellIdle(c) == c \in Slots /\ state[c] = "idle"     \* mutant
FreeCell(c) ==
    /\ \A s \in Slots : s < c => pid[s] # None
    /\ c = Past \/ pid[c] = None

AddFork ==
    /\ Adding
    /\ ~PoolFull
    /\ \E c \in Cells, p \in Pids :
        /\ FreeCell(c)
        /\ job[p] = "none"
        /\ slot' = c
        /\ child' = p
        /\ state' = [state EXCEPT ![c] = "idle"]
        /\ job' = [job EXCEPT ![p] = "writeIdle"]
        /\ pos' = [pos EXCEPT ![p] = c]
    /\ at' = "record"
    /\ ret' = at
    /\ UNCHANGED <<pid, i, idle, busy, countVars, masked, notified>>

\* fork fails: the parent exits, and leaves its workers.
AddForkFails ==
    /\ MayExit
    /\ Adding
    /\ ~PoolFull
    /\ \E c \in Cells : FreeCell(c) /\ state' = [state EXCEPT ![c] = "idle"]
    /\ at' = "exited"
    /\ UNCHANGED <<pid, i, slot, idle, busy, child, ret, countVars, masked,
                   notified, workerVars>>

\* mutant: the worker is not recorded
AddUnrecorded ==
    /\ at = "record"
    /\ idle_count' = idle_count + 1
    /\ child' = None
    /\ i' = i + 1
    /\ at' = ret
    /\ slot' = 0
    /\ UNCHANGED <<pid, state, idle, busy, ret, busy_count, masked, notified,
                   workerVars>>

AddRecord ==
    /\ at = "record"
    /\ pid' = [pid EXCEPT ![slot] = child]
    /\ idle_count' = idle_count + 1
    /\ child' = None
    /\ i' = i + 1
    /\ at' = ret
    /\ slot' = 0
    /\ UNCHANGED <<state, idle, busy, ret, busy_count, masked, notified,
                   workerVars>>

-----------------------------------------------------------------------------
\* del_one_server, called when idle workers are too many; idle_count is above
\* MaxIdle and so not 0.

Seek ==
    /\ at = "trim"
    /\ i < idle_count - MaxIdle
    /\ at' = "seek"
    /\ slot' = 0
    /\ UNCHANGED <<pid, state, i, idle, busy, child, ret, countVars,
                   masked, notified, workerVars>>

Removable(s) == pid[s] # None /\ state[s] = "idle"

SeekNext ==
    /\ at = "seek"
    /\ slot \in Slots
    /\ ~Removable(slot)
    /\ slot' = slot + 1
    /\ UNCHANGED <<pid, state, at, i, idle, busy, child, ret, countVars,
                   masked, notified, workerVars>>

SeekFound ==
    /\ at = "seek"
    /\ slot \in Slots
    /\ Removable(slot)
    /\ at' = "kill"
    /\ UNCHANGED <<pid, state, i, slot, idle, busy, child, ret, countVars,
                   masked, notified, workerVars>>

SeekFails ==
    /\ at = "seek"
    /\ slot = Past
    /\ at' = "trim" /\ i' = i + 1 /\ slot' = 0
    /\ UNCHANGED <<pid, state, idle, busy, child, ret, countVars,
                   masked, notified, workerVars>>

\* mutant: idle_count is not decremented
KillUncounted ==
    /\ at = "kill"
    /\ job' = [job EXCEPT ![pid[slot]] = "none"]
    /\ pid' = [pid EXCEPT ![slot] = None]
    /\ at' = "trim" /\ i' = i + 1 /\ slot' = 0
    /\ UNCHANGED <<state, idle, busy, child, ret, countVars, masked, notified, pos>>

\* SIGTERM ends the worker wherever it is by now
Kill ==
    /\ at = "kill"
    /\ job' = [job EXCEPT ![pid[slot]] = "none"]
    /\ pid' = [pid EXCEPT ![slot] = None]
    /\ idle_count' = idle_count - 1
    /\ at' = "trim" /\ i' = i + 1 /\ slot' = 0
    /\ UNCHANGED <<state, idle, busy, child, ret, busy_count, masked, notified, pos>>

-----------------------------------------------------------------------------
\* The loop of main, and scan_pool.

Started ==
    /\ at = "start"
    /\ i >= MinIdle
    /\ at' = "suspend" /\ i' = 0
    /\ UNCHANGED <<pid, state, slot, idle, busy, child, ret, countVars,
                   masked, notified, workerVars>>

\* sigsuspend unblocks the notification and returns when it has been handled
Wake ==
    /\ at = "suspend"
    /\ notified
    /\ notified' = FALSE
    /\ at' = "scan" /\ slot' = 0 /\ idle' = 0 /\ busy' = 0
    /\ UNCHANGED <<pid, state, i, child, ret, countVars, masked, workerVars>>

ScanFree ==
    /\ at = "scan"
    /\ slot \in Slots
    /\ pid[slot] = None
    /\ slot' = slot + 1
    /\ UNCHANGED <<pid, state, at, i, idle, busy, child, ret, countVars,
                   masked, notified, workerVars>>

ScanDead ==
    /\ at = "scan"
    /\ slot \in Slots
    /\ pid[slot] \notin Alive \cup {None}
    /\ pid' = [pid EXCEPT ![slot] = None]
    /\ slot' = slot + 1
    /\ UNCHANGED <<state, at, i, idle, busy, child, ret, countVars,
                   masked, notified, workerVars>>

ScanCount ==
    /\ at = "scan"
    /\ slot \in Slots
    /\ pid[slot] \in Alive
    /\ idle' = IF state[slot] = "idle" THEN idle + 1 ELSE idle
    /\ busy' = IF state[slot] = "busy" THEN busy + 1 ELSE busy
    /\ slot' = slot + 1
    /\ UNCHANGED <<pid, state, at, i, child, ret, countVars,
                   masked, notified, workerVars>>

Manage ==
    /\ at = "scan"
    /\ slot = Past
    /\ idle_count' = idle /\ busy_count' = busy
    /\ idle' = 0 /\ busy' = 0 /\ slot' = 0 /\ i' = 0
    /\ at' = IF idle > MaxIdle THEN "trim"
             ELSE IF idle < MinIdle THEN "grow" ELSE "print"
    /\ UNCHANGED <<pid, state, child, ret, masked, notified, workerVars>>

Managed ==
    /\ \/ at = "trim" /\ i >= idle_count - MaxIdle
       \/ at = "grow" /\ i >= MinIdle - idle_count
    /\ at' = "print" /\ i' = 0
    /\ UNCHANGED <<pid, state, slot, idle, busy, child, ret, countVars,
                   masked, notified, workerVars>>

\* server.c restores the old mask here, and a pending notification is handled
\* at once; from then on nothing blocks it outside sigsuspend either
Display ==
    /\ at = "print"
    /\ at' = "suspend"
    /\ masked' = (Variant # "server")
    /\ notified' = (notified /\ masked')
    /\ UNCHANGED <<pid, state, i, slot, idle, busy, child, ret, countVars,
                   workerVars>>

-----------------------------------------------------------------------------
Work(p) ==
    \/ WriteIdle(p) \/ NotifyIdle(p) \/ Accept(p) \/ WriteBusy(p)
    \/ NotifyBusy(p) \/ Serve(p)

Parent ==
    \/ AddRefused \/ AddFork \/ AddForkFails \/ AddRecord
    \/ Seek \/ SeekNext \/ SeekFound \/ SeekFails \/ Kill
    \/ Started \/ Wake \/ ScanFree \/ ScanDead \/ ScanCount \/ Manage
    \/ Managed \/ Display

Next ==
    \/ Parent
    \/ \E p \in Pids : Work(p) \/ AcceptFails(p) \/ WorkerExits(p)

Spec == Init /\ [][Next]_vars

-----------------------------------------------------------------------------
(***************************************************************************)
(* Properties.                                                             *)
(***************************************************************************)

Jobs == {"writeIdle", "notifyIdle", "accept", "writeBusy", "notifyBusy", "serve"}
Places == {"start", "record", "suspend", "scan", "trim", "seek", "kill", "grow",
           "print", "exited"}

\* Every variable holds values of its kind.
TypeOK ==
    /\ pid \in [Cells -> Pids \cup {None, Zeroed}]
    /\ state \in [Cells -> {"idle", "busy"}]
    /\ idle_count \in Nat /\ busy_count \in Nat
    /\ at \in Places
    /\ i \in Nat
    /\ slot \in Cells
    /\ idle \in Nat /\ busy \in Nat
    /\ child \in Pids \cup {None}
    /\ ret \in {"start", "grow"}
    /\ masked \in BOOLEAN /\ notified \in BOOLEAN
    /\ job \in [Pids -> Jobs \cup {"none"}]
    /\ pos \in [Pids -> Cells]

\* The totals of the parent always add up to the slots in use, however the
\* workers change their states while it scans, forks and kills: this is what
\* keeps its search for a free slot inside the table.
TotalsMatchTable ==
    /\ at \notin {"scan", "record"} => idle_count + busy_count = Cardinality(Used)
    /\ at = "scan" =>
        idle + busy = Cardinality({s \in Used : s < slot})

\* The parent never forks a worker for the record past the table, so that no
\* worker writes its state there and none is out of the parent's sight.
StaysInTable == \A p \in Pids : job[p] # "none" => pos[p] \in Slots

\* Each worker alive, but for one that was just forked, is in the slot it
\* writes to, also when it has the identifier of a dead one that is still in
\* another slot: the parent never forgets a worker.
EveryWorkerRecorded ==
    \A p \in Pids : job[p] # "none" => p = child \/ pid[pos[p]] = p

\* No two workers share a slot.
OneWorkerPerSlot ==
    \A p, q \in Alive : pos[p] = pos[q] => p = q

\* There are never more workers than the table has slots, the one that the
\* parent has forked and not yet recorded counted with them.
NeverTooMany == IsFiniteSet(Alive) /\ Cardinality(Alive) <= MaxSlots

\* The inductive invariant of others.c: what the parent is about to do agrees
\* with the table it left.
TableKept ==
    /\ pid[Past] = Zeroed
    /\ \A c \in Slots : pid[c] # Zeroed
    /\ ~MayExit =>
        \A c \in Slots : pid[c] # None => pid[c] \in Alive /\ pos[pid[c]] = c
ParentKept ==
    /\ at = "record" =>
        /\ slot \in Slots /\ pid[slot] = None
        /\ child \in Pids /\ pos[child] = slot
        /\ ~MayExit => child \in Alive
        /\ idle_count + busy_count = Cardinality(Used)
    /\ at # "record" => child = None
    /\ at = "kill" => slot \in Slots /\ pid[slot] \in Pids
    /\ at \in {"seek", "kill"} => idle_count > 0
IInv ==
    /\ TypeOK /\ TotalsMatchTable /\ StaysInTable /\ EveryWorkerRecorded
    /\ TableKept /\ ParentKept

\* Everything is quiet: the parent sleeps with nothing to wake it, and every
\* worker waits for a client or serves one.
Quiet ==
    /\ at = "suspend" /\ ~notified
    /\ \A p \in Alive : job[p] \in {"accept", "serve"}
IdleNow == {p \in Alive : job[p] = "accept"}
BusyNow == {p \in Alive : job[p] = "serve"}

\* Notifications coalesce and arrive in the middle of scans, yet once all is
\* quiet the parent takes no worker for idle that is not.  (It may take an idle
\* one for busy: a worker killed after it wrote that it is idle, and before it
\* notified, was counted as busy and is taken off the idle ones.)
QuietTotals ==
    Quiet => /\ idle_count <= Cardinality(IdleNow)
             /\ idle_count + busy_count = Cardinality(Alive)

\* ... and there are enough idle workers, or no room for more.
QuietStaffed ==
    Quiet => Cardinality(IdleNow) >= MinIdle \/ Cardinality(Alive) = MaxSlots

\* test.c and server.c: "if idel task pass the limit ,delete them".  Once all is
\* quiet no more than MaxIdle workers are idle.
QuietTrimmed == Quiet => Cardinality(IdleNow) <= MaxIdle

\* The parent is scheduled, and workers other than in accept, where they may
\* wait for clients for ever.
Fairness ==
    /\ WF_vars(Parent)
    /\ \A p \in Pids :
        WF_vars(WriteIdle(p) \/ NotifyIdle(p) \/ WriteBusy(p) \/ NotifyBusy(p))

FairSpec == Spec /\ Fairness

\* When clients have taken the idle workers and no more come, the parent makes
\* new ones: in the end the pool is not short of idle workers while it has room
\* for more, and stays so, although add_one_server is called too few times (the
\* bound of its loop shrinks as it counts) and notifications coalesce.  server.c
\* says of the signal of a busy worker "notify the parent process to look": its
\* parent should do the same.
Short ==
    Cardinality(IdleNow) < MinIdle /\ Cardinality(Alive) < MaxSlots
Replenished ==
    <>[](\A p \in Pids : job[p] # "writeBusy") => <>[]~Short

=============================================================================
