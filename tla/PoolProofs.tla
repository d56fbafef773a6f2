----------------------------- MODULE PoolProofs -----------------------------
(***************************************************************************)
(* Proofs about ProcessPool as others.c has it: for any number of slots,   *)
(* any limits and any number of process identifiers, with workers that may *)
(* exit at any time; and about what holds once all is quiet, with workers  *)
(* that do not.                                                            *)
(***************************************************************************)
EXTENDS ProcessPool, FiniteSetTheorems, TLAPS

Counted == {s \in Used : s < slot}

LEMMA ConstantFacts ==
    /\ MaxSlots \in Nat /\ MaxSlots > 0 /\ MinIdle \in Nat /\ MaxIdle \in Nat
    /\ Slots = 0 .. MaxSlots - 1 /\ Cells = 0 .. MaxSlots
    /\ Past = MaxSlots /\ Past \in Cells /\ Past \notin Slots
    /\ \A c \in Cells : c # Past => c \in Slots
    /\ Slots \subseteq Cells /\ Cells \subseteq Nat
    /\ None \notin Pids /\ Zeroed \notin Pids /\ None # Zeroed
BY PoolAssumption DEF Slots, Cells, Past

LEMMA SlotsFinite == IsFiniteSet(Slots) /\ Cardinality(Slots) = MaxSlots
BY FS_Interval, ConstantFacts

\* The slots in use and those counted so far are finite sets.
LEMMA UsedFinite ==
    /\ IsFiniteSet(Used) /\ Cardinality(Used) \in Nat
    /\ Cardinality(Used) <= MaxSlots
    /\ IsFiniteSet(Counted) /\ Cardinality(Counted) \in Nat
<1>1. Used \in SUBSET Slots /\ Counted \in SUBSET Slots
  BY DEF Used, Counted
<1>2. IsFiniteSet(Used) /\ IsFiniteSet(Counted) /\ Cardinality(Used) <= MaxSlots
  BY <1>1, SlotsFinite, FS_Subset
<1> QED BY <1>2, FS_CardinalityType

\* While the totals are below MaxSlots the search for a slot stays in the table.
LEMMA RoomMeansSlot ==
    ASSUME Cardinality(Used) < MaxSlots, NEW c \in Cells, FreeCell(c)
    PROVE  c \in Slots /\ pid[c] = None
<1>1. c # Past
  <2> SUFFICES ASSUME c = Past PROVE FALSE
    OBVIOUS
  <2>1. \A s \in Slots : pid[s] # None
    BY ConstantFacts DEF FreeCell
  <2>2. Used = Slots
    BY <2>1 DEF Used
  <2> QED BY <2>2, SlotsFinite, ConstantFacts
<1> QED BY <1>1, ConstantFacts DEF FreeCell

-----------------------------------------------------------------------------
LEMMA InitIInv == Init => IInv
<1> SUFFICES ASSUME Init PROVE IInv
  OBVIOUS
<1> USE ConstantFacts
<1>1. Used = {} /\ Cardinality({}) = 0
  BY FS_EmptySet DEF Init, Used
<1>2. TypeOK
  <2>1. pid \in [Cells -> Pids \cup {None, Zeroed}] /\ state \in [Cells -> {"idle", "busy"}]
    BY DEF Init
  <2>2. job \in [Pids -> Jobs \cup {"none"}] /\ pos \in [Pids -> Cells]
    BY DEF Init
  <2>3. /\ idle_count \in Nat /\ busy_count \in Nat
        /\ i \in Nat /\ slot \in Cells /\ idle \in Nat /\ busy \in Nat
    BY DEF Init
  <2>4. /\ at \in Places /\ ret \in {"start", "grow"}
        /\ child \in Pids \cup {None}
    BY DEF Init, Places
  <2>5. masked \in BOOLEAN /\ notified \in BOOLEAN
    BY DEF Init
  <2> QED BY <2>1, <2>2, <2>3, <2>4, <2>5 DEF TypeOK
<1>3. TotalsMatchTable
  BY <1>1 DEF Init, TotalsMatchTable
<1>4. StaysInTable /\ EveryWorkerRecorded
  BY DEF Init, StaysInTable, EveryWorkerRecorded
<1>5. TableKept
  BY DEF Init, TableKept, Alive
<1>6. ParentKept
  BY DEF Init, ParentKept
<1> QED BY <1>2, <1>3, <1>4, <1>5, <1>6 DEF IInv

\* A worker's step leaves the table's pids and the parent alone.
LEMMA WorkerPreserves ==
    ASSUME IInv, NEW p \in Pids, Work(p) \/ AcceptFails(p) \/ WorkerExits(p)
    PROVE  IInv'
<1>1. /\ UNCHANGED <<pid, parentVars, pos>>
      /\ job[p] # "none"
      /\ \E j \in Jobs \cup {"none"} : job' = [job EXCEPT ![p] = j]
      /\ \/ state' = state
         \/ \E v \in {"idle", "busy"} : state' = [state EXCEPT ![pos[p]] = v]
      /\ notified' \in BOOLEAN
  BY DEF IInv, TypeOK, Work, AcceptFails, WorkerExits, WriteIdle, NotifyIdle,
         Accept, WriteBusy, NotifyBusy, Serve, Works, Notify, Jobs
<1>2. /\ state' \in [Cells -> {"idle", "busy"}]
      /\ job' \in [Pids -> Jobs \cup {"none"}]
  BY <1>1 DEF IInv, TypeOK
<1>3. \A q \in Pids : job'[q] # "none" => job[q] # "none"
  BY <1>1 DEF IInv, TypeOK
<1>4. TypeOK'
  BY <1>1, <1>2 DEF IInv, TypeOK, parentVars, countVars
<1>5. TotalsMatchTable'
  BY <1>1 DEF IInv, TotalsMatchTable, Used, parentVars, countVars
<1>6. StaysInTable' /\ EveryWorkerRecorded'
  BY <1>1, <1>3 DEF IInv, StaysInTable, EveryWorkerRecorded, parentVars
<1>7. ~MayExit => \A q \in Alive : q \in Alive'
  BY <1>1 DEF IInv, TypeOK, Work, AcceptFails, WorkerExits, WriteIdle,
         NotifyIdle, Accept, WriteBusy, NotifyBusy, Serve, Works, Alive
<1>8. TableKept'
  BY <1>1, <1>7 DEF IInv, TableKept
<1>9. ParentKept'
  BY <1>1, <1>7 DEF IInv, ParentKept, Used, parentVars, countVars
<1> QED BY <1>4, <1>5, <1>6, <1>8, <1>9 DEF IInv

\* Steps of the parent that change neither pids, nor workers, nor totals.
Bookkeeping ==
    \/ AddRefused \/ Seek \/ SeekNext \/ SeekFound \/ SeekFails
    \/ Started \/ Wake \/ Managed \/ Display

LEMMA BookkeepingPreserves ==
    ASSUME IInv, Bookkeeping
    PROVE  IInv'
<1> USE ConstantFacts DEF Bookkeeping
<1>1. UNCHANGED <<pid, state, job, pos, child, ret, idle_count, busy_count>>
  BY DEF AddRefused, Seek, SeekNext, SeekFound, SeekFails, Started, Wake,
         Managed, Display, workerVars, countVars
<1>2. /\ i' \in Nat /\ slot' \in Cells /\ at' \in Places
      /\ idle' \in Nat /\ busy' \in Nat
      /\ masked' \in BOOLEAN /\ notified' \in BOOLEAN
  <2>1. i' \in Nat /\ idle' \in Nat /\ busy' \in Nat
    BY DEF IInv, TypeOK, AddRefused, Seek, SeekNext, SeekFound, SeekFails,
           Started, Wake, Managed, Display
  <2>2. slot' \in Cells
    BY DEF IInv, TypeOK, AddRefused, Seek, SeekNext, SeekFound, SeekFails,
           Started, Wake, Managed, Display
  <2>3. at' \in Places
    BY DEF IInv, TypeOK, Places, AddRefused, Seek, SeekNext, SeekFound,
           SeekFails, Started, Wake, Managed, Display
  <2>4. masked' \in BOOLEAN /\ notified' \in BOOLEAN
    BY DEF IInv, TypeOK, AddRefused, Seek, SeekNext, SeekFound, SeekFails,
           Started, Wake, Managed, Display
  <2> QED BY <2>1, <2>2, <2>3, <2>4
<1>3. TypeOK'
  BY <1>1, <1>2 DEF IInv, TypeOK
<1>4. /\ at \notin {"scan", "record"} /\ at' # "record"
      /\ at' = "scan" => idle' + busy' = 0 /\ slot' = 0
  BY DEF AddRefused, Adding, Seek, SeekNext, SeekFound, SeekFails, Started,
         Wake, Managed, Display
<1>5. TotalsMatchTable'
  <2>1. at' # "scan" => (idle_count + busy_count)' = Cardinality(Used')
    BY <1>1, <1>4 DEF IInv, TotalsMatchTable, Used
  <2>2. at' = "scan" => {s \in Used' : s < slot'} = {}
    BY <1>4 DEF Used
  <2> QED BY <1>4, <2>1, <2>2, FS_EmptySet DEF TotalsMatchTable
<1>6. StaysInTable' /\ EveryWorkerRecorded' /\ TableKept'
  BY <1>1 DEF IInv, StaysInTable, EveryWorkerRecorded, TableKept, Alive
<1>7. ParentKept'
  <2>1. at' = "kill" => slot' \in Slots /\ pid'[slot'] \in Pids
    BY DEF IInv, TypeOK, TableKept, AddRefused, Adding, Seek, SeekNext,
           SeekFound, SeekFails, Started, Wake, Managed, Display, Removable
  <2>2. at' \in {"seek", "kill"} => idle_count' > 0
    BY DEF IInv, TypeOK, ParentKept, AddRefused, Adding, Seek, SeekNext,
           SeekFound, SeekFails, Started, Wake, Managed, Display, countVars
  <2>3. child' = None
    BY <1>1, <1>4 DEF IInv, ParentKept
  <2> QED BY <1>4, <2>1, <2>2, <2>3 DEF ParentKept
<1> QED BY <1>3, <1>5, <1>6, <1>7 DEF IInv

LEMMA AddForkPreserves ==
    ASSUME IInv, AddFork, Variant = "others"
    PROVE  IInv'
<1> USE ConstantFacts
<1>1. PICK c \in Cells, p \in Pids :
        /\ FreeCell(c)
        /\ job[p] = "none"
        /\ slot' = c
        /\ child' = p
        /\ state' = [state EXCEPT ![c] = "idle"]
        /\ job' = [job EXCEPT ![p] = "writeIdle"]
        /\ pos' = [pos EXCEPT ![p] = c]
  BY DEF AddFork
<1>2. /\ at \in {"start", "grow"} /\ at' = "record" /\ ret' = at
      /\ idle_count + busy_count < MaxSlots
      /\ UNCHANGED <<pid, i, idle, busy, idle_count, busy_count, masked, notified>>
  BY DEF AddFork, Adding, PoolFull, countVars, IInv, TypeOK
<1>3. idle_count + busy_count = Cardinality(Used) /\ Used' = Used
  BY <1>2 DEF IInv, TotalsMatchTable, Used
<1>4. c \in Slots /\ pid[c] = None
  BY <1>1, <1>2, <1>3, RoomMeansSlot
<1>5. TypeOK'
  <2>1. state' \in [Cells -> {"idle", "busy"}]
    BY <1>1 DEF IInv, TypeOK
  <2>2. job' \in [Pids -> Jobs \cup {"none"}] /\ pos' \in [Pids -> Cells]
    BY <1>1 DEF IInv, TypeOK, Jobs
  <2> QED BY <1>1, <1>2, <2>1, <2>2 DEF IInv, TypeOK, Places
<1>6. TotalsMatchTable'
  BY <1>2 DEF TotalsMatchTable
<1>7. StaysInTable' /\ EveryWorkerRecorded'
  BY <1>1, <1>2, <1>4
     DEF IInv, TypeOK, StaysInTable, EveryWorkerRecorded, ParentKept
<1>8. TableKept'
  <2>1. ASSUME ~MayExit, NEW d \in Slots, pid[d] # None
        PROVE  pid[d] \in Alive' /\ pos'[pid[d]] = d
    <3>1. pid[d] # p /\ pid[d] \in Alive /\ pos[pid[d]] = d
      BY <1>1, <2>1 DEF Alive, IInv, TableKept
    <3> QED BY <1>1, <3>1 DEF IInv, TypeOK, Alive
  <2> QED BY <1>2, <2>1 DEF IInv, TableKept
<1>9. ParentKept'
  <2>1. pos'[p] = c /\ p \in Alive'
    BY <1>1 DEF IInv, TypeOK, Alive
  <2> QED BY <1>1, <1>2, <1>3, <1>4, <2>1 DEF ParentKept
<1> QED BY <1>5, <1>6, <1>7, <1>8, <1>9 DEF IInv

LEMMA AddRecordPreserves ==
    ASSUME IInv, AddRecord
    PROVE  IInv'
<1> USE ConstantFacts
<1>1. /\ at = "record" /\ at' = ret /\ ret \in {"start", "grow"}
      /\ pid' = [pid EXCEPT ![slot] = child]
      /\ idle_count' = idle_count + 1
      /\ child' = None /\ i' = i + 1 /\ slot' = 0
      /\ UNCHANGED <<state, idle, busy, ret, busy_count, masked, notified, job, pos>>
  BY DEF AddRecord, workerVars, IInv, TypeOK
<1>2. /\ slot \in Slots /\ pid[slot] = None
      /\ child \in Pids /\ pos[child] = slot
      /\ ~MayExit => child \in Alive
      /\ idle_count + busy_count = Cardinality(Used)
  BY <1>1 DEF IInv, ParentKept
<1>3. /\ pid'[slot] = child
      /\ \A c \in Cells : c # slot => pid'[c] = pid[c]
  BY <1>1, <1>2 DEF IInv, TypeOK
<1>4. TypeOK'
  BY <1>1, <1>2 DEF IInv, TypeOK, Places
<1>5. TotalsMatchTable'
  <2>1. Used' = Used \cup {slot} /\ slot \notin Used
    BY <1>2, <1>3 DEF Used
  <2>2. Cardinality(Used') = Cardinality(Used) + 1
    BY <2>1, UsedFinite, FS_AddElement
  <2>3. idle_count' + busy_count' = Cardinality(Used')
    BY <1>1, <1>2, <2>2, UsedFinite DEF IInv, TypeOK
  <2> QED BY <1>1, <2>3 DEF TotalsMatchTable
<1>6. StaysInTable'
  BY <1>1 DEF IInv, StaysInTable
<1>7. EveryWorkerRecorded'
  <2>1. ASSUME NEW q \in Pids, job[q] # "none" PROVE pid'[pos[q]] = q
    <3>1. CASE q = child
      BY <1>2, <1>3, <3>1
    <3>2. CASE q # child
      BY <1>2, <1>3, <2>1, <3>2 DEF IInv, TypeOK, EveryWorkerRecorded
    <3> QED BY <3>1, <3>2
  <2> QED BY <1>1, <2>1 DEF EveryWorkerRecorded
<1>8. TableKept'
  BY <1>1, <1>2, <1>3 DEF IInv, TableKept, Alive
<1>9. ParentKept'
  BY <1>1 DEF ParentKept
<1> QED BY <1>4, <1>5, <1>6, <1>7, <1>8, <1>9 DEF IInv

LEMMA KillPreserves ==
    ASSUME IInv, Kill
    PROVE  IInv'
<1> USE ConstantFacts
<1>1. /\ at = "kill" /\ at' = "trim"
      /\ job' = [job EXCEPT ![pid[slot]] = "none"]
      /\ pid' = [pid EXCEPT ![slot] = None]
      /\ idle_count' = idle_count - 1
      /\ i' = i + 1 /\ slot' = 0
      /\ UNCHANGED <<state, idle, busy, child, ret, busy_count, masked, notified, pos>>
  BY DEF Kill
<1>2. /\ slot \in Slots /\ pid[slot] \in Pids /\ idle_count > 0 /\ child = None
      /\ idle_count + busy_count = Cardinality(Used)
  BY <1>1 DEF IInv, ParentKept, TotalsMatchTable
<1>3. /\ pid'[slot] = None
      /\ \A c \in Cells : c # slot => pid'[c] = pid[c]
      /\ job'[pid[slot]] = "none"
      /\ \A q \in Pids : q # pid[slot] => job'[q] = job[q]
  BY <1>1, <1>2 DEF IInv, TypeOK
<1>4. TypeOK'
  <2>1. job' \in [Pids -> Jobs \cup {"none"}]
    BY <1>1 DEF IInv, TypeOK
  <2>2. idle_count' \in Nat
    BY <1>1, <1>2 DEF IInv, TypeOK
  <2> QED BY <1>1, <1>2, <2>1, <2>2 DEF IInv, TypeOK, Places
<1>5. TotalsMatchTable'
  <2>1. Used' = Used \ {slot} /\ slot \in Used
    BY <1>2, <1>3 DEF Used
  <2>2. Cardinality(Used') = Cardinality(Used) - 1
    BY <2>1, UsedFinite, FS_RemoveElement
  <2>3. idle_count' + busy_count' = Cardinality(Used')
    BY <1>1, <1>2, <2>2, UsedFinite DEF IInv, TypeOK
  <2> QED BY <1>1, <2>3 DEF TotalsMatchTable
<1>6. StaysInTable'
  BY <1>1, <1>3 DEF IInv, StaysInTable
<1>7. EveryWorkerRecorded'
  <2>1. ASSUME NEW q \in Pids, job'[q] # "none" PROVE pid'[pos[q]] = q
    <3>1. q # pid[slot] /\ pid[pos[q]] = q
      BY <1>2, <1>3, <2>1 DEF IInv, EveryWorkerRecorded
    <3> QED BY <1>2, <1>3, <3>1 DEF IInv, TypeOK
  <2> QED BY <1>1, <2>1 DEF EveryWorkerRecorded
<1>8. TableKept'
  <2>1. ASSUME ~MayExit, NEW c \in Slots, pid'[c] # None
        PROVE  pid'[c] \in Alive' /\ pos[pid'[c]] = c
    <3>1. c # slot /\ pid'[c] = pid[c] /\ pid[c] \in Alive /\ pos[pid[c]] = c
      BY <1>3, <2>1 DEF IInv, TableKept
    <3>2. pid[c] # pid[slot]
      BY <1>2, <2>1, <3>1 DEF IInv, TableKept
    <3> QED BY <1>3, <3>1, <3>2 DEF Alive
  <2> QED BY <1>1, <1>2, <1>3, <2>1 DEF IInv, TableKept
<1>9. ParentKept'
  BY <1>1, <1>2 DEF ParentKept
<1> QED BY <1>4, <1>5, <1>6, <1>7, <1>8, <1>9 DEF IInv

LEMMA ScanFreePreserves ==
    ASSUME IInv, ScanFree
    PROVE  IInv'
<1> USE ConstantFacts
<1>1. /\ at = "scan" /\ slot \in Slots /\ pid[slot] = None /\ slot' = slot + 1
      /\ UNCHANGED <<pid, state, at, i, idle, busy, child, ret, idle_count,
                     busy_count, masked, notified, job, pos>>
  BY DEF ScanFree, countVars, workerVars
<1>2. TypeOK'
  BY <1>1 DEF IInv, TypeOK
<1>3. TotalsMatchTable'
  <2>1. Used' = Used /\ {s \in Used : s < slot + 1} = {s \in Used : s < slot}
    BY <1>1 DEF Used
  <2> QED BY <1>1, <2>1 DEF IInv, TotalsMatchTable
<1>4. StaysInTable' /\ EveryWorkerRecorded' /\ TableKept' /\ ParentKept'
  BY <1>1 DEF IInv, StaysInTable, EveryWorkerRecorded, TableKept, Alive, ParentKept
<1> QED BY <1>2, <1>3, <1>4 DEF IInv

LEMMA ScanDeadPreserves ==
    ASSUME IInv, ScanDead
    PROVE  IInv'
<1> USE ConstantFacts
<1>1. /\ at = "scan" /\ slot \in Slots /\ pid[slot] \notin Alive
      /\ pid' = [pid EXCEPT ![slot] = None] /\ slot' = slot + 1
      /\ UNCHANGED <<state, at, i, idle, busy, child, ret, idle_count,
                     busy_count, masked, notified, job, pos>>
  BY DEF ScanDead, countVars, workerVars
<1>2. /\ pid'[slot] = None
      /\ \A c \in Cells : c # slot => pid'[c] = pid[c]
  BY <1>1 DEF IInv, TypeOK
<1>3. TypeOK'
  BY <1>1 DEF IInv, TypeOK
<1>4. TotalsMatchTable'
  <2>1. {s \in Used' : s < slot + 1} = {s \in Used : s < slot}
    BY <1>1, <1>2 DEF Used
  <2> QED BY <1>1, <2>1 DEF IInv, TotalsMatchTable
<1>5. StaysInTable'
  BY <1>1 DEF IInv, StaysInTable
<1>6. EveryWorkerRecorded'
  BY <1>1, <1>2 DEF IInv, TypeOK, EveryWorkerRecorded, Alive
<1>7. TableKept' /\ ParentKept'
  BY <1>1, <1>2 DEF IInv, TableKept, Alive, ParentKept
<1> QED BY <1>3, <1>4, <1>5, <1>6, <1>7 DEF IInv

LEMMA ScanCountPreserves ==
    ASSUME IInv, ScanCount
    PROVE  IInv'
<1> USE ConstantFacts
<1>1. /\ at = "scan" /\ slot \in Slots /\ pid[slot] \in Alive /\ slot' = slot + 1
      /\ idle' \in Nat /\ busy' \in Nat /\ idle' + busy' = idle + busy + 1
      /\ UNCHANGED <<pid, state, at, i, child, ret, idle_count, busy_count,
                     masked, notified, job, pos>>
  BY DEF ScanCount, countVars, workerVars, IInv, TypeOK
<1>2. TypeOK'
  BY <1>1 DEF IInv, TypeOK
<1>3. TotalsMatchTable'
  <2>1. Used' = Used /\ {s \in Used : s < slot + 1} = Counted \cup {slot}
    BY <1>1 DEF Used, Counted, Alive
  <2>2. slot \notin Counted
    BY <1>1 DEF Counted
  <2>3. Cardinality(Counted \cup {slot}) = Cardinality(Counted) + 1
    BY <2>2, UsedFinite, FS_AddElement
  <2>4. idle + busy = Cardinality(Counted)
    BY <1>1 DEF IInv, TotalsMatchTable, Counted
  <2> QED BY <1>1, <2>1, <2>3, <2>4 DEF TotalsMatchTable
<1>4. StaysInTable' /\ EveryWorkerRecorded' /\ TableKept' /\ ParentKept'
  BY <1>1 DEF IInv, StaysInTable, EveryWorkerRecorded, TableKept, Alive, ParentKept
<1> QED BY <1>2, <1>3, <1>4 DEF IInv

LEMMA ManagePreserves ==
    ASSUME IInv, Manage
    PROVE  IInv'
<1> USE ConstantFacts
<1>1. /\ at = "scan" /\ slot = Past /\ at' \in {"trim", "grow", "print"}
      /\ idle_count' = idle /\ busy_count' = busy
      /\ idle' = 0 /\ busy' = 0 /\ slot' = 0 /\ i' = 0
      /\ UNCHANGED <<pid, state, child, ret, masked, notified, job, pos>>
  BY DEF Manage, workerVars
<1>2. TypeOK'
  BY <1>1 DEF IInv, TypeOK, Places
<1>3. TotalsMatchTable'
  <2>1. Used' = Used /\ {s \in Used : s < slot} = Used
    BY <1>1 DEF Used
  <2>2. idle + busy = Cardinality(Used)
    BY <1>1, <2>1 DEF IInv, TotalsMatchTable
  <2> QED BY <1>1, <2>1, <2>2 DEF TotalsMatchTable
<1>4. StaysInTable' /\ EveryWorkerRecorded' /\ TableKept' /\ ParentKept'
  BY <1>1 DEF IInv, StaysInTable, EveryWorkerRecorded, TableKept, Alive, ParentKept
<1> QED BY <1>2, <1>3, <1>4 DEF IInv

-----------------------------------------------------------------------------
\* A parent that exits leaves the table as it is, but for the state of a slot.
LEMMA AddForkFailsPreserves ==
    ASSUME IInv, AddForkFails
    PROVE  IInv'
<1> USE ConstantFacts
<1>1. /\ at \in {"start", "grow"} /\ at' = "exited"
      /\ UNCHANGED <<pid, i, slot, idle, busy, child, ret, idle_count,
                     busy_count, masked, notified, job, pos>>
  BY DEF AddForkFails, Adding, countVars, workerVars
<1>2. state' \in [Cells -> {"idle", "busy"}]
  BY DEF AddForkFails, IInv, TypeOK
<1>3. TypeOK'
  BY <1>1, <1>2 DEF IInv, TypeOK, Places
<1>4. TotalsMatchTable'
  BY <1>1 DEF IInv, TotalsMatchTable, Used
<1>5. StaysInTable' /\ EveryWorkerRecorded' /\ TableKept' /\ ParentKept'
  BY <1>1 DEF IInv, StaysInTable, EveryWorkerRecorded, TableKept, Alive, ParentKept
<1> QED BY <1>3, <1>4, <1>5 DEF IInv

\* The inductive invariant of others.c.
THEOREM Invariance == Variant = "others" /\ Spec => []IInv
<1> SUFFICES ASSUME Variant = "others" PROVE Spec => []IInv
  OBVIOUS
<1>1. IInv /\ [Next]_vars => IInv'
  <2> SUFFICES ASSUME IInv, [Next]_vars PROVE IInv'
    OBVIOUS
  <2>1. CASE Parent
    BY <2>1, BookkeepingPreserves, AddForkPreserves, AddForkFailsPreserves,
       AddRecordPreserves, KillPreserves, ScanFreePreserves, ScanDeadPreserves, ScanCountPreserves,
       ManagePreserves DEF Parent, Bookkeeping
  <2>2. ASSUME NEW p \in Pids, Work(p) \/ AcceptFails(p) \/ WorkerExits(p)
        PROVE  IInv'
    BY <2>2, WorkerPreserves
  <2>3. CASE UNCHANGED vars
    BY <2>3 DEF vars, countVars, IInv, TypeOK, TotalsMatchTable, Used,
                StaysInTable, EveryWorkerRecorded, TableKept, Alive, ParentKept
  <2> QED BY <2>1, <2>2, <2>3 DEF Next
<1> QED BY <1>1, InitIInv, PTL DEF Spec

\* However workers come, change state and go while the parent scans and forks,
\* its totals add up to the slots in use.
THEOREM TotalsCorrect == Variant = "others" /\ Spec => []TotalsMatchTable
<1>1. IInv => TotalsMatchTable
  BY DEF IInv
<1> QED BY <1>1, Invariance, PTL

\* No worker is ever outside the table ...
THEOREM NeverPastTable == Variant = "others" /\ Spec => []StaysInTable
<1>1. IInv => StaysInTable
  BY DEF IInv
<1> QED BY <1>1, Invariance, PTL

\* ... or forgotten by the parent ...
THEOREM NeverForgotten == Variant = "others" /\ Spec => []EveryWorkerRecorded
<1>1. IInv => EveryWorkerRecorded
  BY DEF IInv
<1> QED BY <1>1, Invariance, PTL

\* Two workers that are recorded are in their own slots; one that is not is in
\* a slot that is free.
LEMMA SlotsDiffer == IInv => OneWorkerPerSlot
<1> SUFFICES ASSUME IInv, NEW p \in Alive, NEW q \in Alive, pos[p] = pos[q]
             PROVE  p = q
  BY DEF OneWorkerPerSlot
<1>1. /\ p \in Pids /\ q \in Pids /\ pos[p] \in Slots
      /\ p = child \/ pid[pos[p]] = p
      /\ q = child \/ pid[pos[q]] = q
  BY DEF IInv, StaysInTable, EveryWorkerRecorded, Alive
<1>2. CASE at = "record"
  BY <1>1, <1>2, ConstantFacts DEF IInv, ParentKept
<1>3. CASE at # "record"
  BY <1>1, <1>3, ConstantFacts DEF IInv, ParentKept
<1> QED BY <1>2, <1>3

\* No worker shares its slot with another.
THEOREM SlotsNotShared == Variant = "others" /\ Spec => []OneWorkerPerSlot
BY SlotsDiffer, Invariance, PTL

\* A worker has a slot inside the table and none has the same: however clients,
\* exits and scans interleave, fork never leaves more than MaxSlots workers.
THEOREM WorkersAreBounded == Variant = "others" /\ Spec => []NeverTooMany
<1>1. IInv => NeverTooMany
  <2> SUFFICES ASSUME IInv PROVE NeverTooMany
    OBVIOUS
  <2> DEFINE f == [p \in Alive |-> pos[p]]
  <2>1. \A p \in Alive : pos[p] \in Slots
    BY DEF IInv, StaysInTable, Alive
  <2>2. \A p, q \in Alive : f[p] = f[q] => p = q
    BY SlotsDiffer DEF OneWorkerPerSlot
  <2>3. f \in Injection(Alive, Slots)
    BY <2>1, <2>2 DEF Injection, IsInjective
  <2> QED BY <2>3, SlotsFinite, FS_Injection DEF NeverTooMany
<1> QED BY <1>1, Invariance, PTL

-----------------------------------------------------------------------------
\* Once all is quiet.  The parent may have counted a worker as it was before
\* the worker wrote what it is now, but such a worker has still to notify, or
\* has notified: unless a notification is due, no worker that serves a client
\* is missing from the busy ones.
Serving == {s \in Slots : pid[s] \in Pids /\ job[pid[s]] = "serve"}
ServingSeen == {s \in Serving : s < slot}
Fresh == {"writeIdle", "notifyIdle"}
Noisy == Fresh \cup {"writeBusy", "notifyBusy"}

CountKept ==
    /\ masked
    /\ \A p \in Pids : job[p] \in {"notifyBusy", "serve"} => state[pos[p]] = "busy"
    /\ ~notified =>
        /\ at = "scan" => Cardinality(ServingSeen) <= busy
        /\ at # "scan" => Cardinality(Serving) <= busy_count
        /\ at = "record" => job[child] \in Fresh
    /\ at = "record" => child \in Alive
    /\ \A s \in Slots : pid[s] # None => pid[s] \in Alive

\* Whatever the parent leaves undone, a notification will wake it for.
Due == notified \/ \E p \in Pids : job[p] \in Noisy
Full == idle_count + busy_count = MaxSlots
StaffKept ==
    /\ at \in {"print", "suspend"} => Due \/ Full \/ idle_count >= MinIdle
    /\ at \in {"start", "grow"} => Due \/ Full \/ i = 0
    /\ at \in {"trim", "seek", "kill"} => idle_count >= MaxIdle
    /\ at \in {"seek", "kill"} => idle_count > MaxIdle

\* The case considered here: others.c, and no worker ends by itself.
Steady == Variant = "others" /\ ~MayExit /\ MinIdle <= MaxIdle

LEMMA ServingFinite ==
    /\ IsFiniteSet(Serving) /\ Cardinality(Serving) \in Nat
    /\ IsFiniteSet(ServingSeen) /\ Cardinality(ServingSeen) \in Nat
<1>1. Serving \in SUBSET Slots /\ ServingSeen \in SUBSET Slots
  BY DEF Serving, ServingSeen
<1> QED BY <1>1, SlotsFinite, FS_Subset, FS_CardinalityType

\* When no more workers serve than before, the bound on them stays.
LEMMA ServingShrinks ==
    ASSUME Serving' \subseteq Serving, slot' = slot
    PROVE  /\ Cardinality(Serving') \in Nat
           /\ Cardinality(Serving') <= Cardinality(Serving)
           /\ Cardinality(ServingSeen') \in Nat
           /\ Cardinality(ServingSeen') <= Cardinality(ServingSeen)
<1>1. ServingSeen' \subseteq ServingSeen
  BY DEF ServingSeen
<1>2. /\ IsFiniteSet(Serving') /\ Cardinality(Serving') <= Cardinality(Serving)
      /\ IsFiniteSet(ServingSeen')
      /\ Cardinality(ServingSeen') <= Cardinality(ServingSeen)
  BY <1>1, ServingFinite, FS_Subset
<1> QED BY <1>2, FS_CardinalityType

LEMMA InitKept == Init => CountKept /\ StaffKept
<1> SUFFICES ASSUME Init PROVE CountKept /\ StaffKept
  OBVIOUS
<1>1. Serving = {} /\ Cardinality({}) = 0
  BY FS_EmptySet, ConstantFacts DEF Init, Serving
<1>2. CountKept
  BY <1>1, ConstantFacts DEF Init, CountKept
<1>3. StaffKept
  BY DEF Init, StaffKept
<1> QED BY <1>2, <1>3

-----------------------------------------------------------------------------
\* A worker that ends what it was counted for is due to notify, or does.
LEMMA WorkerKeepsCount ==
    ASSUME Steady, IInv, CountKept, NEW p \in Pids, Work(p) PROVE CountKept'
<1> USE DEF Work, WriteIdle, NotifyIdle, Accept, WriteBusy, NotifyBusy, Serve, Works
<1>1. /\ pid' = pid /\ pos' = pos /\ at' = at /\ slot' = slot /\ child' = child
      /\ busy' = busy /\ busy_count' = busy_count /\ masked' = masked
  BY DEF parentVars, countVars
<1>2. PICK j \in Jobs : job' = [job EXCEPT ![p] = j] /\ job[p] # "none"
  BY DEF Jobs
<1>3. /\ job \in [Pids -> Jobs \cup {"none"}] /\ job'[p] = j
      /\ \A q \in Pids : q # p => job'[q] = job[q]
  BY <1>2 DEF IInv, TypeOK
<1>4. ASSUME ~notified'
      PROVE  /\ ~notified /\ job[p] \in {"writeIdle", "accept", "writeBusy", "serve"}
             /\ j # "serve" /\ job[p] \in Fresh => j \in Fresh
  <2>1. notified' = notified /\ ~NotifyIdle(p) /\ ~NotifyBusy(p)
    BY <1>4 DEF Notify, Told, Steady, CountKept, NotifyIdle, NotifyBusy
  <2> QED BY <1>2, <1>3, <1>4, <2>1 DEF Fresh
<1>5. ASSUME NEW q \in Pids, job'[q] \in {"notifyBusy", "serve"}
      PROVE  state'[pos[q]] = "busy"
  <2>1. pos[q] \in Cells /\ state \in [Cells -> {"idle", "busy"}]
    BY DEF IInv, TypeOK
  <2>2. CASE q = p
    BY <1>2, <1>3, <1>5, <2>1, <2>2 DEF CountKept
  <2>3. CASE q # p
    <3>1. p \in Alive /\ q \in Alive /\ state[pos[q]] = "busy"
      BY <1>2, <1>3, <1>5, <2>3 DEF Alive, CountKept
    <3>2. pos[q] # pos[p]
      BY <2>3, <3>1, SlotsDiffer DEF OneWorkerPerSlot
    <3> QED BY <2>1, <3>1, <3>2
  <2> QED BY <2>2, <2>3
<1>6. ASSUME ~notified'
      PROVE  /\ at = "scan" => Cardinality(ServingSeen') <= busy
             /\ at # "scan" => Cardinality(Serving') <= busy_count
             /\ at = "record" => job'[child] \in Fresh
  <2>1. Serving' \subseteq Serving
    BY <1>1, <1>3, <1>4, <1>6 DEF Serving
  <2>2. at = "record" => job'[child] \in Fresh
    BY <1>3, <1>4, <1>6 DEF CountKept, IInv, ParentKept
  <2>3. busy \in Nat /\ busy_count \in Nat
    BY DEF IInv, TypeOK
  <2>4. /\ at = "scan" => Cardinality(ServingSeen) <= busy
        /\ at # "scan" => Cardinality(Serving) <= busy_count
    BY <1>4, <1>6 DEF CountKept
  <2> QED BY <1>1, <2>1, <2>2, <2>3, <2>4, ServingShrinks, ServingFinite
<1>7. Alive \subseteq Alive'
  BY <1>2, <1>3 DEF Alive, Jobs
<1>8. masked
  BY DEF CountKept
<1>9. at = "record" => child \in Alive'
  BY <1>7 DEF CountKept
<1>10. \A s \in Slots : pid[s] # None => pid[s] \in Alive'
  BY <1>7 DEF CountKept
<1> QED BY <1>1, <1>5, <1>6, <1>8, <1>9, <1>10 DEF CountKept

\* ... and so what is due stays due until the parent wakes.
LEMMA WorkerKeepsStaff ==
    ASSUME Steady, IInv, CountKept, StaffKept, NEW p \in Pids, Work(p)
    PROVE  StaffKept'
<1> USE DEF Work, WriteIdle, NotifyIdle, Accept, WriteBusy, NotifyBusy, Serve, Works
<1>1. /\ at' = at /\ i' = i /\ idle_count' = idle_count /\ busy_count' = busy_count
  BY DEF parentVars, countVars
<1>2. job \in [Pids -> Jobs \cup {"none"}]
  BY DEF IInv, TypeOK
<1>3. ASSUME Due PROVE Due'
  <2>1. notified => notified'
    BY DEF Notify
  <2>2. CASE job[p] \in {"notifyIdle", "notifyBusy"}
    BY <2>2 DEF Notify, Told, Steady, CountKept, Due
  <2>3. CASE job[p] \in {"writeIdle", "writeBusy"}
    <3>1. job'[p] \in Noisy
      BY <1>2, <2>3 DEF Noisy, Fresh
    <3> QED BY <3>1 DEF Due
  <2>4. CASE job[p] \notin Noisy
    <3>1. \A q \in Pids : job[q] \in Noisy => job'[q] = job[q]
      BY <1>2, <2>4
    <3> QED BY <1>3, <2>1, <3>1 DEF Due
  <2> QED BY <2>2, <2>3, <2>4 DEF Noisy, Fresh
<1> QED BY <1>1, <1>3 DEF StaffKept, Full

-----------------------------------------------------------------------------
\* The parent.  Its bookkeeping does not touch what workers do; a scan starts
\* with no slot counted.
LEMMA BookkeepingKeepsCount ==
    ASSUME Steady, IInv, CountKept, Bookkeeping PROVE CountKept'
<1> USE DEF Bookkeeping
<1>1. /\ pid' = pid /\ state' = state /\ job' = job /\ pos' = pos
      /\ busy_count' = busy_count
  BY DEF AddRefused, Seek, SeekNext, SeekFound, SeekFails, Started, Wake,
         Managed, Display, workerVars, countVars
<1>2. at # "scan" /\ at' # "record"
  BY DEF AddRefused, Adding, Seek, SeekNext, SeekFound, SeekFails, Started,
         Wake, Managed, Display
<1>3. masked'
  BY DEF CountKept, Steady, AddRefused, Seek, SeekNext, SeekFound, SeekFails,
         Started, Wake, Managed, Display
<1>4. Serving' = Serving
  BY <1>1 DEF Serving
<1>5. CASE Wake
  <2>1. at' = "scan" /\ busy' = 0 /\ slot' = 0
    BY <1>5 DEF Wake
  <2>2. ServingSeen' = {}
    BY <2>1, ConstantFacts DEF ServingSeen, Serving
  <2> QED BY <1>1, <1>2, <1>3, <2>1, <2>2, FS_EmptySet DEF CountKept, Alive
<1>6. CASE ~Wake
  <2>1. at' # "scan"
    BY <1>2, <1>6 DEF AddRefused, Seek, SeekNext, SeekFound, SeekFails, Started,
       Managed, Display
  <2>2. ~notified' => ~notified
    <3>1. CASE Display
      BY <1>3, <3>1 DEF Display
    <3>2. CASE ~Display
      BY <1>6, <3>2 DEF AddRefused, Seek, SeekNext, SeekFound, SeekFails,
         Started, Managed
    <3> QED BY <3>1, <3>2
  <2> QED BY <1>1, <1>2, <1>3, <1>4, <2>1, <2>2 DEF CountKept, Alive
<1> QED BY <1>5, <1>6

\* What the parent leaves when it goes to sleep: no lack, or a notification due.
LEMMA BookkeepingKeepsStaff ==
    ASSUME Steady, IInv, CountKept, StaffKept, Bookkeeping PROVE StaffKept'
<1> USE DEF Bookkeeping
<1>1. /\ job' = job /\ idle_count' = idle_count /\ busy_count' = busy_count
  BY DEF AddRefused, Seek, SeekNext, SeekFound, SeekFails, Started, Wake,
         Managed, Display, workerVars, countVars
<1>2. /\ i \in Nat /\ idle_count \in Nat /\ busy_count \in Nat
      /\ MinIdle \in Nat /\ MaxIdle \in Nat /\ MinIdle <= MaxIdle
  BY ConstantFacts DEF IInv, TypeOK, Steady
<1>3. (Full => Full') /\ (~Wake /\ Due => Due')
  <2>1. masked /\ Variant # "server"
    BY DEF CountKept, Steady
  <2>2. ~Wake /\ notified => notified'
    BY <2>1 DEF AddRefused, Seek, SeekNext, SeekFound, SeekFails, Started,
       Managed, Display
  <2> QED BY <1>1, <2>2 DEF Due, Full
<1>4. CASE AddRefused
  <2>1. Full
    <3>1. at \in {"start", "grow"} /\ idle_count + busy_count >= MaxSlots
      BY <1>4 DEF AddRefused, Adding, PoolFull, Steady
    <3>2. idle_count + busy_count = Cardinality(Used)
      BY <3>1 DEF IInv, TotalsMatchTable
    <3> QED BY <1>2, <3>1, <3>2, UsedFinite, ConstantFacts DEF Full
  <2>2. at' = at /\ at \in {"start", "grow"}
    BY <1>4 DEF AddRefused, Adding
  <2> QED BY <1>3, <2>1, <2>2 DEF StaffKept
<1>5. CASE Seek \/ SeekNext \/ SeekFound \/ SeekFails
  <2>1. /\ at' \in {"trim", "seek", "kill"} /\ idle_count >= MaxIdle
        /\ at' \in {"seek", "kill"} => idle_count > MaxIdle
    BY <1>2, <1>5 DEF Seek, SeekNext, SeekFound, SeekFails, StaffKept
  <2> QED BY <1>1, <2>1 DEF StaffKept
<1>6. CASE Started \/ Managed \/ Display
  <2>1. at' \in {"print", "suspend"}
    BY <1>6 DEF Started, Managed, Display
  <2>2. Due \/ Full \/ idle_count >= MinIdle
    BY <1>2, <1>6 DEF Started, Managed, Display, StaffKept
  <2>3. ~Wake
    BY <1>6 DEF Started, Managed, Display, Wake
  <2> QED BY <1>1, <1>3, <2>1, <2>2, <2>3 DEF StaffKept
<1>7. CASE Wake
  BY <1>7 DEF Wake, StaffKept
<1> QED BY <1>4, <1>5, <1>6, <1>7

\* A new worker has yet to notify.
LEMMA AddForkKeeps ==
    ASSUME Steady, IInv, CountKept, AddFork PROVE CountKept' /\ StaffKept'
<1>1. PICK c \in Cells, p \in Pids :
        /\ FreeCell(c)
        /\ job[p] = "none"
        /\ child' = p
        /\ state' = [state EXCEPT ![c] = "idle"]
        /\ job' = [job EXCEPT ![p] = "writeIdle"]
        /\ pos' = [pos EXCEPT ![p] = c]
  BY DEF AddFork
<1>2. /\ at \in {"start", "grow"} /\ at' = "record"
      /\ idle_count + busy_count < MaxSlots
      /\ pid' = pid /\ busy_count' = busy_count
      /\ masked' = masked /\ notified' = notified
  <2>1. Variant = "others" /\ idle_count \in Nat /\ busy_count \in Nat
    BY DEF Steady, IInv, TypeOK
  <2>2. idle_count + busy_count < MaxSlots
    BY <2>1, ConstantFacts DEF AddFork, PoolFull
  <2> QED BY <2>2 DEF AddFork, Adding, countVars
<1>3. c \in Slots /\ pid[c] = None
  <2>1. idle_count + busy_count = Cardinality(Used)
    BY <1>2 DEF IInv, TotalsMatchTable
  <2> QED BY <1>1, <1>2, <2>1, RoomMeansSlot
<1>4. /\ job'[p] = "writeIdle" /\ pos'[p] = c
      /\ \A q \in Pids : q # p => job'[q] = job[q] /\ pos'[q] = pos[q]
  BY <1>1 DEF IInv, TypeOK
<1>5. \A s \in Slots : pid[s] # p
  BY <1>1, ConstantFacts DEF CountKept, Alive
<1>6. Serving' = Serving
  BY <1>2, <1>4, <1>5 DEF Serving
<1>7. ASSUME NEW q \in Pids, job'[q] \in {"notifyBusy", "serve"}
      PROVE  state'[pos'[q]] = "busy"
  <2>1. q # p /\ job[q] \in {"notifyBusy", "serve"} /\ pos'[q] = pos[q]
    BY <1>4, <1>7
  <2>2. pid[pos[q]] = q /\ pos[q] \in Slots
    BY <1>2, <2>1, ConstantFacts
       DEF IInv, EveryWorkerRecorded, StaysInTable, ParentKept
  <2>3. pos[q] # c /\ state[pos[q]] = "busy"
    BY <1>3, <2>1, <2>2, ConstantFacts DEF CountKept
  <2> QED BY <1>1, <2>1, <2>2, <2>3, ConstantFacts DEF IInv, TypeOK
<1>8. p \in Alive' /\ Alive \subseteq Alive'
  BY <1>4 DEF Alive
<1>9. CountKept'
  BY <1>1, <1>2, <1>4, <1>6, <1>7, <1>8 DEF CountKept, Fresh
<1>10. StaffKept'
  BY <1>2 DEF StaffKept
<1> QED BY <1>9, <1>10

LEMMA AddRecordKeeps ==
    ASSUME Steady, IInv, CountKept, AddRecord PROVE CountKept' /\ StaffKept'
<1>1. /\ at = "record" /\ at' \in {"start", "grow"}
      /\ pid' = [pid EXCEPT ![slot] = child]
      /\ state' = state /\ job' = job /\ pos' = pos
      /\ busy_count' = busy_count /\ masked' = masked /\ notified' = notified
  BY DEF AddRecord, workerVars, IInv, TypeOK
<1>2. /\ slot \in Slots /\ pid[slot] = None /\ child \in Pids /\ child \in Alive
  BY <1>1 DEF IInv, ParentKept, CountKept
<1>3. /\ pid'[slot] = child
      /\ \A c \in Cells : c # slot => pid'[c] = pid[c]
  BY <1>1, <1>2, ConstantFacts DEF IInv, TypeOK
<1>4. ASSUME ~notified
      PROVE  Serving' = Serving /\ Cardinality(Serving) <= busy_count
             /\ job[child] \in Fresh
  <2>1. job[child] \in Fresh /\ Cardinality(Serving) <= busy_count
    BY <1>1, <1>4 DEF CountKept
  <2>2. job[child] # "serve"
    BY <2>1 DEF Fresh
  <2> QED BY <1>1, <1>2, <1>3, <2>1, <2>2, ConstantFacts DEF Serving
<1>5. \A s \in Slots : pid'[s] # None => pid'[s] \in Alive'
  BY <1>1, <1>2, <1>3, ConstantFacts DEF CountKept, Alive
<1>6. CountKept'
  BY <1>1, <1>4, <1>5 DEF CountKept
<1>7. Due'
  BY <1>1, <1>2, <1>4 DEF Due, Noisy
<1> QED BY <1>1, <1>6, <1>7 DEF StaffKept

\* A worker that is killed no longer serves.
LEMMA KillKeeps ==
    ASSUME Steady, IInv, CountKept, StaffKept, Kill PROVE CountKept' /\ StaffKept'
<1>1. /\ at = "kill" /\ at' = "trim"
      /\ job' = [job EXCEPT ![pid[slot]] = "none"]
      /\ pid' = [pid EXCEPT ![slot] = None]
      /\ idle_count' = idle_count - 1 /\ slot' = 0
      /\ state' = state /\ pos' = pos
      /\ busy_count' = busy_count /\ masked' = masked /\ notified' = notified
  BY DEF Kill
<1>2. slot \in Slots /\ pid[slot] \in Pids
  BY <1>1 DEF IInv, ParentKept
<1>3. /\ pid'[slot] = None
      /\ \A c \in Cells : c # slot => pid'[c] = pid[c]
      /\ job'[pid[slot]] = "none"
      /\ \A q \in Pids : q # pid[slot] => job'[q] = job[q]
  BY <1>1, <1>2, ConstantFacts DEF IInv, TypeOK
<1>4. Serving' \subseteq Serving
  BY <1>2, <1>3, ConstantFacts DEF Serving
<1>5. Cardinality(Serving') <= Cardinality(Serving) /\ Cardinality(Serving') \in Nat
  BY <1>4, ServingFinite, FS_Subset, FS_CardinalityType
<1>6. ~notified => Cardinality(Serving') <= busy_count
  <2>1. ~notified => Cardinality(Serving) <= busy_count
    BY <1>1 DEF CountKept
  <2>2. busy_count \in Nat
    BY DEF IInv, TypeOK
  <2> QED BY <1>5, <2>1, <2>2, ServingFinite
<1>7. ASSUME NEW s \in Slots, pid'[s] # None PROVE pid'[s] \in Alive'
  <2>1. s # slot /\ pid'[s] = pid[s] /\ pid[s] \in Alive
    BY <1>3, <1>7, ConstantFacts DEF CountKept
  <2>2. pid[s] # pid[slot]
    BY <1>2, <2>1, <1>7, ConstantFacts DEF Steady, IInv, TableKept
  <2> QED BY <1>3, <2>1, <2>2 DEF Alive
<1>8. \A q \in Pids : job'[q] \in {"notifyBusy", "serve"} => state'[pos'[q]] = "busy"
  BY <1>1, <1>3 DEF CountKept
<1>9. CountKept'
  BY <1>1, <1>6, <1>7, <1>8 DEF CountKept
<1>10. idle_count' >= MaxIdle
  <2>1. idle_count > MaxIdle /\ idle_count \in Nat
    BY <1>1 DEF StaffKept, IInv, TypeOK
  <2> QED BY <1>1, <2>1, ConstantFacts
<1> QED BY <1>1, <1>9, <1>10 DEF StaffKept

\* A worker that serves has written that it is busy: the scan counts it so.
LEMMA ScanKeeps ==
    ASSUME Steady, IInv, CountKept, ScanFree \/ ScanDead \/ ScanCount
    PROVE  CountKept' /\ StaffKept'
<1>1. /\ at = "scan" /\ at' = "scan" /\ slot \in Slots /\ slot' = slot + 1
      /\ state' = state /\ job' = job /\ pos' = pos
      /\ masked' = masked /\ notified' = notified
  BY DEF ScanFree, ScanDead, ScanCount, workerVars
<1>2. ~ScanDead
  BY DEF ScanDead, CountKept
<1>3. pid' = pid
  BY <1>2 DEF ScanFree, ScanCount
<1>4. Serving' = Serving /\ Alive' = Alive
  BY <1>1, <1>3 DEF Serving, Alive
<1>5. busy \in Nat /\ slot \in Nat
  BY <1>1, ConstantFacts DEF IInv, TypeOK
<1>6. ASSUME Cardinality(ServingSeen) <= busy
      PROVE  Cardinality(ServingSeen') <= busy'
  <2>1. CASE slot \in Serving
    <3>1. pid[slot] \in Pids /\ job[pid[slot]] = "serve"
      BY <2>1 DEF Serving
    <3>2. pos[pid[slot]] = slot
      BY <1>1, <3>1, ConstantFacts DEF Steady, IInv, TableKept
    <3>3. state[slot] = "busy" /\ pid[slot] # None
      BY <3>1, <3>2, ConstantFacts DEF CountKept
    <3>4. busy' = busy + 1
      BY <1>2, <3>3 DEF ScanFree, ScanCount
    <3>5. ServingSeen' = ServingSeen \cup {slot} /\ slot \notin ServingSeen
      BY <1>1, <1>4, <1>5, <2>1, ConstantFacts DEF ServingSeen, Serving
    <3>6. Cardinality(ServingSeen') = Cardinality(ServingSeen) + 1
      BY <3>5, ServingFinite, FS_AddElement
    <3> QED BY <1>5, <1>6, <3>4, <3>6, ServingFinite
  <2>2. CASE slot \notin Serving
    <3>1. ServingSeen' = ServingSeen
      BY <1>1, <1>4, <1>5, <2>2, ConstantFacts DEF ServingSeen, Serving
    <3>2. busy' = busy \/ busy' = busy + 1
      BY <1>2 DEF ScanFree, ScanCount
    <3> QED BY <1>5, <1>6, <3>1, <3>2, ServingFinite
  <2> QED BY <2>1, <2>2
<1>7. CountKept'
  BY <1>1, <1>3, <1>4, <1>6 DEF CountKept
<1> QED BY <1>1, <1>7 DEF StaffKept

LEMMA ManageKeeps ==
    ASSUME Steady, IInv, CountKept, Manage PROVE CountKept' /\ StaffKept'
<1>1. /\ at = "scan" /\ slot = Past /\ at' \in {"trim", "grow", "print"}
      /\ idle_count' = idle /\ busy_count' = busy /\ i' = 0
      /\ at' = "trim" => idle > MaxIdle
      /\ at' = "print" => ~(idle < MinIdle)
      /\ pid' = pid /\ state' = state /\ job' = job /\ pos' = pos
      /\ masked' = masked /\ notified' = notified
  BY DEF Manage, workerVars
<1>2. Serving' = Serving /\ ServingSeen = Serving /\ Alive' = Alive
  BY <1>1, ConstantFacts DEF Serving, ServingSeen, Alive
<1>3. CountKept'
  BY <1>1, <1>2 DEF CountKept
<1>4. idle \in Nat /\ MinIdle \in Nat /\ MaxIdle \in Nat
  BY ConstantFacts DEF IInv, TypeOK
<1>5. StaffKept'
  BY <1>1, <1>4 DEF StaffKept
<1> QED BY <1>3, <1>5

LEMMA StutterKeeps ==
    ASSUME CountKept, StaffKept, UNCHANGED vars PROVE CountKept' /\ StaffKept'
BY DEF vars, countVars, CountKept, StaffKept, Serving, ServingSeen, Alive, Due, Full

LEMMA KeptNext ==
    ASSUME Steady, IInv, CountKept, StaffKept, [Next]_vars
    PROVE  CountKept' /\ StaffKept'
<1>1. CASE Parent
  <2>1. ~AddForkFails
    BY DEF AddForkFails, Steady
  <2> QED BY <1>1, <2>1, BookkeepingKeepsCount, BookkeepingKeepsStaff, AddForkKeeps,
     AddRecordKeeps, KillKeeps, ScanKeeps, ManageKeeps DEF Parent, Bookkeeping
<1>2. ASSUME NEW p \in Pids, Work(p) \/ AcceptFails(p) \/ WorkerExits(p)
      PROVE  CountKept' /\ StaffKept'
  <2>1. Work(p)
    BY <1>2 DEF AcceptFails, WorkerExits, Steady
  <2> QED BY <2>1, WorkerKeepsCount, WorkerKeepsStaff
<1>3. CASE UNCHANGED vars
  BY <1>3, StutterKeeps
<1> QED BY <1>1, <1>2, <1>3 DEF Next

\* What QuietTotals and QuietStaffed need: the counts and the staff of others.c
\* when no worker ends by itself.
THEOREM QuietInvariance == Steady /\ Spec => [](CountKept /\ StaffKept)
<1> SUFFICES ASSUME Steady PROVE Spec => [](CountKept /\ StaffKept)
  OBVIOUS
<1>1. Variant = "others"
  BY DEF Steady
<1>2. IInv /\ CountKept /\ StaffKept /\ [Next]_vars => CountKept' /\ StaffKept'
  BY KeptNext
<1> QED BY <1>1, <1>2, InitKept, Invariance, PTL DEF Spec

-----------------------------------------------------------------------------
\* When no worker is being recorded, those of a set are as many as the slots
\* that name them.
LEMMA WorkersAreSlots ==
    ASSUME Steady, IInv, at # "record", NEW T \in SUBSET Alive,
           NEW S, S = {s \in Slots : pid[s] \in T}
    PROVE  IsFiniteSet(T) /\ Cardinality(T) = Cardinality(S)
<1> DEFINE f == [s \in S |-> pid[s]]
<1>1. IsFiniteSet(S)
  BY SlotsFinite, FS_Subset
<1>2. \A s \in S : pid[s] \in T /\ pos[pid[s]] = s
  BY ConstantFacts DEF Steady, IInv, TableKept, Alive
<1>3. \A p \in T : pos[p] \in S /\ pid[pos[p]] = p
  <2>1. \A p \in T : p \in Pids /\ job[p] # "none"
    BY DEF Alive
  <2>2. child \notin Pids
    BY ConstantFacts DEF IInv, ParentKept
  <2> QED BY <2>1, <2>2 DEF IInv, StaysInTable, EveryWorkerRecorded
<1>4. f \in Injection(S, T)
  BY <1>2 DEF Injection, IsInjective
<1>5. f \in Surjection(S, T)
  BY <1>2, <1>3 DEF Surjection
<1>6. ExistsBijection(S, T)
  BY <1>4, <1>5 DEF ExistsBijection, Bijection
<1> QED BY <1>1, <1>6, FS_Bijection

LEMMA QuietCounts ==
    ASSUME Steady, IInv, CountKept, Quiet
    PROVE  /\ idle_count + busy_count = Cardinality(Alive)
           /\ idle_count <= Cardinality(IdleNow)
           /\ Cardinality(IdleNow) \in Nat
<1>1. at = "suspend" /\ ~notified /\ \A p \in Alive : job[p] \in {"accept", "serve"}
  BY DEF Quiet
<1>2. IsFiniteSet(Alive) /\ Cardinality(Alive) = Cardinality(Used)
  <2>1. Used = {s \in Slots : pid[s] \in Alive}
    BY ConstantFacts DEF Used, CountKept, Alive
  <2> QED BY <1>1, <2>1, WorkersAreSlots
<1>3. IsFiniteSet(BusyNow) /\ Cardinality(BusyNow) = Cardinality(Serving)
  <2>1. Serving = {s \in Slots : pid[s] \in BusyNow} /\ BusyNow \subseteq Alive
    BY DEF Serving, BusyNow, Alive
  <2> QED BY <1>1, <2>1, WorkersAreSlots
<1>4. IsFiniteSet(IdleNow) /\ Cardinality(IdleNow) \in Nat
  BY <1>2, FS_Subset, FS_CardinalityType DEF IdleNow
<1>5. Cardinality(Alive) = Cardinality(IdleNow) + Cardinality(BusyNow)
  <2>1. Alive = IdleNow \cup BusyNow /\ IdleNow \cap BusyNow = {}
    BY <1>1 DEF IdleNow, BusyNow
  <2>2. Cardinality(IdleNow \cup BusyNow)
        = Cardinality(IdleNow) + Cardinality(BusyNow)
          - Cardinality(IdleNow \cap BusyNow)
    BY <1>3, <1>4, FS_Union
  <2>3. Cardinality(BusyNow) \in Nat
    BY <1>3, FS_CardinalityType
  <2> QED BY <1>4, <2>1, <2>2, <2>3, FS_EmptySet
<1>6. idle_count + busy_count = Cardinality(Used)
  BY <1>1 DEF IInv, TotalsMatchTable
<1>7. Cardinality(Serving) <= busy_count
  BY <1>1 DEF CountKept
<1>8. idle_count \in Nat /\ busy_count \in Nat
  BY DEF IInv, TypeOK
<1> QED BY <1>2, <1>3, <1>4, <1>5, <1>6, <1>7, <1>8, ServingFinite

\* However notifications coalesce and whenever they come, once all is quiet the
\* parent of others.c knows how many workers there are and takes none for idle
\* that is not.
THEOREM TotalsSettle == Steady /\ Spec => []QuietTotals
<1> SUFFICES ASSUME Steady PROVE Spec => []QuietTotals
  OBVIOUS
<1>1. Variant = "others"
  BY DEF Steady
<1>2. IInv /\ CountKept => QuietTotals
  BY QuietCounts DEF QuietTotals
<1> QED BY <1>1, <1>2, Invariance, QuietInvariance, PTL

\* ... and the pool has its lowest number of idle workers, or is full, although
\* the loop that forks them ends too early: the new workers notify.
THEOREM StaffSettles == Steady /\ Spec => []QuietStaffed
<1> SUFFICES ASSUME Steady PROVE Spec => []QuietStaffed
  OBVIOUS
<1>1. Variant = "others"
  BY DEF Steady
<1>2. IInv /\ CountKept /\ StaffKept => QuietStaffed
  <2> SUFFICES ASSUME IInv, CountKept, StaffKept, Quiet
               PROVE  \/ Cardinality(IdleNow) >= MinIdle
                      \/ Cardinality(Alive) = MaxSlots
    BY DEF QuietStaffed
  <2>1. ~Due
    BY DEF Quiet, Due, Noisy, Fresh, Alive
  <2>2. Full \/ idle_count >= MinIdle
    BY <2>1 DEF Quiet, StaffKept
  <2>3. idle_count \in Nat /\ MinIdle \in Nat
    BY ConstantFacts DEF IInv, TypeOK
  <2> QED BY <2>2, <2>3, QuietCounts DEF Full
<1> QED BY <1>1, <1>2, Invariance, QuietInvariance, PTL

=============================================================================
