---------------------------- MODULE MytbfProofs ----------------------------
(***************************************************************************)
(* Proofs about Mytbf and its ledger, for any number of clients, buckets,  *)
(* slots and alarm threads.                                                *)
(***************************************************************************)
EXTENDS MytbfLedger, TLAPS

\* What the assumption on the constants says of the sets built from them.
LEMMA ConstantFacts ==
    /\ None \notin Clients /\ None \notin Threads /\ None \notin Buckets
    /\ Clients \subseteq Threads
    /\ Slots \subseteq Int
    /\ Burst \in Int /\ Burst > 0 /\ Cps \in Int /\ Cps > 0
    /\ MytbfMax \in Int /\ MytbfMax > 0
    /\ MaxLoads \in Nat
    /\ 1 .. Burst \subseteq Nat
    /\ Sizes \subseteq Nat
BY MytbfAssumption DEF Threads, Slots

\* Adding to a bucket and taking from it leaves it between 0 and Burst.
LEMMA RaisedInRange ==
    ASSUME TypeOK, NEW b \in Buckets, NEW n \in Nat
    PROVE  Raised(b, n) \in 0 .. Burst
BY ConstantFacts DEF TypeOK, Raised, Smaller

LEMMA GrantedInRange ==
    ASSUME TypeOK, NEW b \in Buckets, NEW n \in Nat, token[b] > 0
    PROVE  /\ Granted(b, n) \in 0 .. token[b]
           /\ token[b] - Granted(b, n) \in 0 .. Burst
BY ConstantFacts DEF TypeOK, Granted, Smaller

\* Waking the waiters of a bucket only moves program counters from the wait to
\* the lock.
LEMMA WokenFacts ==
    ASSUME TypeOK, NEW b
    PROVE  /\ Woken(b) \in [Clients -> PCs]
           /\ \A t \in Clients :
                Woken(b)[t] = pc[t]
                    \/ (pc[t] = "fetchWait" /\ Woken(b)[t] = "fetchLock")
BY DEF TypeOK, Woken, PCs

\* A client in a call is on a bucket.
LEMMA InCallOnBucket ==
    ASSUME IInv, NEW t \in Clients, pc[t] \notin {"idle", "exitJoin", "exitFree"}
    PROVE  on[t] \in Buckets
BY DEF IInv, TypeOK, CallsMatch, Exiting

\* A bucket that is being made or destroyed has one thread on it, and its
\* block is not what it is for the others.
LEMMA AloneOnBucket ==
    ASSUME IInv, NEW t \in Clients, Making(t) \/ Destroying(t)
    PROVE  /\ on[t] \in Buckets /\ on[t] # None
           /\ block[on[t]] = BlockOf(t)
           /\ \A u \in Clients : u # t => on[u] # on[t]
<1>1. pc[t] \notin {"idle", "exitJoin", "exitFree"}
  BY DEF Making, Destroying
<1> QED BY <1>1, InCallOnBucket, ConstantFacts DEF IInv, CallsMatch

\* What module_unload has freed stays as it was under a step that leaves the
\* blocks in use as they are.
LEMMA UnloadKept ==
    ASSUME IInv, exited' = exited, unloaded' = unloaded,
           \A u \in Clients : Exiting(u) => Exiting(u)',
           \A c \in unloaded : block'[c] \in {"live", "closing"}
    PROVE  UnloadMatch'
BY DEF IInv, UnloadMatch, Ending

\* A call that ends leaves the calls of the others as they were.
LEMMA CallEnds ==
    ASSUME IInv, NEW t \in Clients, NEW p \in {"idle", "exitJoin"},
           pc' = [pc EXCEPT ![t] = p],
           on' = [on EXCEPT ![t] = None],
           req' = [req EXCEPT ![t] = 0],
           \A u \in Clients, c \in Buckets : u # t => hold'[c][u] = hold[c][u],
           \A u \in Clients : u # t /\ on[u] # None => block'[on[u]] = block[on[u]]
    PROVE  CallsMatch'
<1>1. /\ pc'[t] = p /\ on'[t] = None
      /\ ~Making(t)' /\ ~Destroying(t)' /\ ~Returning(t)' /\ (p = "idle" \/ Exiting(t)')
      /\ pc'[t] \notin {"fetchLock", "fetchTest", "fetchWait"}
  BY DEF IInv, TypeOK, Making, Destroying, Returning, Exiting
<1>2. ASSUME NEW u \in Clients, u # t
      PROVE  /\ pc'[u] = pc[u] /\ on'[u] = on[u] /\ req'[u] = req[u]
             /\ Making(u)' <=> Making(u)
             /\ Destroying(u)' <=> Destroying(u)
             /\ Returning(u)' <=> Returning(u)
             /\ Exiting(u)' <=> Exiting(u)
             /\ BlockOf(u)' = BlockOf(u)
  BY <1>2 DEF IInv, TypeOK, Making, Destroying, Returning, Exiting, BlockOf
<1>3. ASSUME NEW u \in Clients, u # t
      PROVE  /\ (pc'[u] = "idle" \/ Exiting(u)') <=> on'[u] = None
             /\ on'[u] # None => block'[on'[u]] = BlockOf(u)'
             /\ pc'[u] \in {"fetchLock", "fetchTest", "fetchWait"} => req'[u] \in Sizes
  BY <1>2, <1>3 DEF IInv, CallsMatch
<1>4. ASSUME NEW u \in Clients, u # t, Returning(u)'
      PROVE  req'[u] \in 1 .. Burst /\ req'[u] <= hold'[on'[u]][u]
  <2>1. Returning(u) /\ on[u] \in Buckets
    BY <1>2, <1>4, InCallOnBucket DEF Returning
  <2> QED BY <1>2, <1>4, <2>1 DEF IInv, CallsMatch
<1>5. ASSUME NEW u \in Clients, NEW v \in Clients,
             Making(u)' \/ Destroying(u)', on'[v] = on'[u]
      PROVE  u = v
  <2>1. u # t /\ (Making(u) \/ Destroying(u)) /\ on'[u] = on[u] /\ on[u] # None
    BY <1>1, <1>2, <1>5, AloneOnBucket
  <2>2. v # t /\ on'[v] = on[v]
    BY <1>1, <1>2, <1>5, <2>1
  <2> QED BY <1>5, <2>1, <2>2 DEF IInv, CallsMatch
<1> QED BY <1>1, <1>3, <1>4, <1>5 DEF CallsMatch

LEMMA InitIInv == Init => IInv
<1> SUFFICES ASSUME Init PROVE IInv OBVIOUS
<1> USE ConstantFacts
<1>1. TypeOK
  <2>1. 0 \in Slots BY DEF Slots
  <2>2. hold \in [Buckets -> [Clients -> Nat]]
    BY DEF Init
  <2>3. token \in [Buckets -> 0 .. Burst] /\ hpos \in [Threads -> 0 .. MytbfMax]
    BY DEF Init
  <2>4. /\ block \in [Buckets -> Blocks]
        /\ pc \in [Clients -> PCs]
        /\ hpc \in [Threads -> HPCs]
    BY DEF Init, Blocks, PCs, HPCs
  <2>5. mut_job \in Threads \cup {None} /\ loads \in 0 .. MaxLoads
    BY DEF Init
  <2>6. pos \in [Buckets -> Slots] /\ job \in [Slots -> Buckets \cup {None}]
    BY <2>1 DEF Init
  <2>7. /\ mut \in [Buckets -> Clients \cup {None}]
        /\ on \in [Clients -> Buckets \cup {None}]
        /\ req \in [Clients -> Nat]
    BY DEF Init
  <2>8. alarm \in BOOLEAN /\ exited \in BOOLEAN
    BY DEF Init
  <2>9. /\ upos \in [Clients -> 0 .. MytbfMax]
        /\ unloaded \subseteq Buckets /\ gone \subseteq 0 .. MaxLoads
    BY DEF Init
  <2> QED BY <2>2, <2>3, <2>4, <2>5, <2>6, <2>7, <2>8, <2>9 DEF TypeOK
<1>2. Owners
  BY DEF Init, Owners, OwnsTable, OwnsBucket
<1>3. CallsMatch
  BY DEF Init, CallsMatch, Making, Destroying, Returning, Exiting
<1>4. SlotsMatch
  BY DEF Init, SlotsMatch, TableMatches
<1>5. UnloadMatch
  BY DEF Init, UnloadMatch
<1> QED BY <1>1, <1>2, <1>3, <1>4, <1>5 DEF IInv

LEMMA InitCallPreserves ==
    ASSUME IInv, NEW t \in Clients, NEW b \in Buckets,
           InitCall(t, b)
    PROVE  IInv'
<1> USE DEF InitCall, CanLoad, LoadsOfInit, Call, At, Runs, Goto,
            tableVars, callVars, handlerVars, exitVars
<1>1. TypeOK'
  BY ConstantFacts, InCallOnBucket DEF IInv, TypeOK, PCs, Blocks
<1>2. Owners'
  BY ConstantFacts, InCallOnBucket
     DEF IInv, TypeOK, Owners, OwnsTable, OwnsBucket
<1>3. CallsMatch'
  <2>1. /\ pc[t] = "idle" /\ pc'[t] = "initLock" /\ on'[t] = b /\ b # None
        /\ block[b] = "unused" /\ block'[b] = "private" /\ hold' = hold
        /\ \A u \in Clients : u # t =>
              pc'[u] = pc[u] /\ on'[u] = on[u] /\ req'[u] = req[u]
        /\ \A c \in Buckets : c # b => block'[c] = block[c]
    BY ConstantFacts DEF IInv, TypeOK
  <2>2. \A u \in Clients : on[u] # b
    BY <2>1 DEF IInv, CallsMatch, BlockOf
  <2>3. \A u \in Clients : u # t =>
          /\ Making(u)' <=> Making(u)
          /\ Destroying(u)' <=> Destroying(u)
          /\ Returning(u)' <=> Returning(u)
          /\ BlockOf(u)' = BlockOf(u)
          /\ Exiting(u)' <=> Exiting(u)
          /\ on[u] # None => block'[on[u]] = block[on[u]]
    BY <2>1, <2>2 DEF Making, Destroying, Returning, BlockOf, Exiting, IInv, TypeOK
  <2>4. /\ Making(t)' /\ ~Destroying(t)' /\ ~Returning(t)'
        /\ BlockOf(t)' = "private"
    BY <2>1 DEF Making, Destroying, Returning, BlockOf
  <2>5. /\ (pc'[t] = "idle" \/ Exiting(t)') <=> on'[t] = None
        /\ on'[t] # None => block'[on'[t]] = BlockOf(t)'
        /\ pc'[t] \notin {"fetchLock", "fetchTest", "fetchWait"}
    BY <2>1, <2>4 DEF Exiting
  <2>6. ASSUME NEW u \in Clients, u # t
        PROVE  /\ (pc'[u] = "idle" \/ Exiting(u)') <=> on'[u] = None
               /\ on'[u] # None => block'[on'[u]] = BlockOf(u)'
               /\ pc'[u] \in {"fetchLock", "fetchTest", "fetchWait"} => req'[u] \in Sizes
               /\ Returning(u)' => req'[u] \in 1 .. Burst /\ req'[u] <= hold'[on'[u]][u]
    BY <2>1, <2>3, <2>6 DEF IInv, CallsMatch
  <2>7. ASSUME NEW u \in Clients, NEW v \in Clients,
               Making(u)' \/ Destroying(u)', on'[v] = on'[u]
        PROVE  u = v
    BY <2>1, <2>2, <2>3, <2>4, <2>7 DEF IInv, CallsMatch, Making, Destroying
  <2> QED BY <2>4, <2>5, <2>6, <2>7 DEF CallsMatch
<1>4. SlotsMatch'
  BY ConstantFacts, InCallOnBucket
     DEF IInv, TypeOK, CallsMatch, Making, Destroying, BlockOf, SlotsMatch, TableMatches
<1>5. UnloadMatch'
  BY ConstantFacts, InCallOnBucket
     DEF IInv, TypeOK, CallsMatch, Making, Destroying, BlockOf, UnloadMatch,
         Ending, Exiting, exitVars
<1> QED BY <1>1, <1>2, <1>3, <1>4, <1>5 DEF IInv

LEMMA InitNoMemoryPreserves ==
    ASSUME IInv, NEW t \in Clients,
           InitNoMemory(t)
    PROVE  IInv'
<1> USE DEF InitNoMemory, CanLoad, LoadsOfInit, callVars, handlerVars, exitVars
<1>1. TypeOK'
  BY ConstantFacts DEF IInv, TypeOK
<1>2. Owners'
  BY DEF IInv, Owners, OwnsTable, OwnsBucket
<1>3. CallsMatch'
  BY DEF IInv, CallsMatch, Making, Destroying, Returning, BlockOf, Exiting
<1>4. SlotsMatch'
  BY DEF IInv, SlotsMatch, TableMatches
<1>5. UnloadMatch'
  BY DEF IInv, UnloadMatch, Ending, Exiting
<1> QED BY <1>1, <1>2, <1>3, <1>4, <1>5 DEF IInv

LEMMA InitNoThreadPreserves ==
    ASSUME IInv, NEW t \in Clients,
           InitNoThread(t)
    PROVE  IInv'
<1> USE DEF InitNoThread, CanLoad, LoadsOfInit, At, Goto, handlerVars
<1>0. /\ pc[t] = "idle" /\ loads' \in 0 .. MaxLoads
      /\ \/ exited' = TRUE /\ pc' = pc
         \/ exited' = exited /\ pc' = [pc EXCEPT ![t] = "exitJoin"]
  BY ConstantFacts DEF IInv, TypeOK
<1>1. TypeOK'
  BY <1>0 DEF IInv, TypeOK, PCs
<1>2. Owners'
  <2>1. /\ UNCHANGED <<mut_job, mut, on, hpc>>
        /\ \A u \in Clients : OwnsTable(u)' <=> OwnsTable(u)
        /\ \A u \in Clients : OwnsBucket(u)' <=> OwnsBucket(u)
    BY <1>0 DEF IInv, TypeOK, OwnsTable, OwnsBucket
  <2> QED BY <2>1 DEF IInv, TypeOK, Owners
<1>3. CallsMatch'
  BY <1>0 DEF IInv, TypeOK, CallsMatch, Making, Destroying, Returning, BlockOf, Exiting
<1>4. SlotsMatch'
  BY <1>0 DEF IInv, TypeOK, SlotsMatch, TableMatches
<1>5. UnloadMatch'
  BY <1>0 DEF IInv, TypeOK, UnloadMatch, Ending, Exiting
<1> QED BY <1>1, <1>2, <1>3, <1>4, <1>5 DEF IInv

LEMMA ExitJoinPreserves ==
    ASSUME IInv, NEW t \in Clients,
           ExitJoin(t)
    PROVE  IInv'
<1> USE DEF ExitJoin, At, Goto, tableVars, handlerVars
<1>0. loads \in 0 .. MaxLoads /\ pc[t] = "exitJoin" /\ pc' = [pc EXCEPT ![t] = "exitFree"]
  BY DEF IInv, TypeOK
<1>1. TypeOK'
  BY <1>0 DEF IInv, TypeOK, PCs
<1>2. Owners'
  BY <1>0 DEF IInv, TypeOK, Owners, OwnsTable, OwnsBucket
<1>3. CallsMatch'
  BY <1>0 DEF IInv, TypeOK, CallsMatch, Making, Destroying, Returning, BlockOf, Exiting
<1>4. SlotsMatch'
  BY <1>0 DEF IInv, TypeOK, SlotsMatch, TableMatches
<1>5. UnloadMatch'
  BY <1>0 DEF IInv, TypeOK, UnloadMatch, Ending, Exiting
<1> QED BY <1>1, <1>2, <1>3, <1>4, <1>5 DEF IInv

LEMMA ExitFreePreserves ==
    ASSUME IInv, NEW t \in Clients,
           ExitFree(t)
    PROVE  IInv'
<1> USE DEF ExitFree, At, tableVars, callVars, handlerVars
<1>0. /\ upos[t] + 1 \in 0 .. MytbfMax /\ unloaded' \subseteq Buckets
      /\ \A b \in unloaded' : b \in unloaded \/ block[b] \in {"live", "closing"}
  BY ConstantFacts DEF IInv, TypeOK, Slots, SlotsMatch, TableMatches
<1>1. TypeOK'
  BY <1>0 DEF IInv, TypeOK
<1>2. Owners'
  BY DEF IInv, Owners, OwnsTable, OwnsBucket
<1>3. CallsMatch'
  BY DEF IInv, CallsMatch, Making, Destroying, Returning, BlockOf, Exiting
<1>4. SlotsMatch'
  BY DEF IInv, SlotsMatch, TableMatches
<1>5. UnloadMatch'
  <2>1. Exiting(t)'
    BY DEF Exiting
  <2> QED BY <1>0, <2>1 DEF IInv, UnloadMatch, Ending
<1> QED BY <1>1, <1>2, <1>3, <1>4, <1>5 DEF IInv

LEMMA CrashPreserves ==
    ASSUME IInv, NEW t \in Clients,
           ExitEnd(t) \/ DestroyAgain(t)
    PROVE  IInv'
<1> USE DEF ExitEnd, DestroyAgain, tableVars, callVars, handlerVars
<1>1. TypeOK'
  BY DEF IInv, TypeOK
<1>2. Owners'
  BY DEF IInv, Owners, OwnsTable, OwnsBucket
<1>3. CallsMatch'
  BY DEF IInv, CallsMatch, Making, Destroying, Returning, BlockOf, Exiting
<1>4. SlotsMatch'
  BY DEF IInv, SlotsMatch, TableMatches
<1>5. UnloadMatch'
  BY DEF IInv, UnloadMatch, Ending
<1> QED BY <1>1, <1>2, <1>3, <1>4, <1>5 DEF IInv

LEMMA LockTablePreserves ==
    ASSUME IInv, NEW t \in Clients,
           InitLock(t) \/ DestroyLock(t)
    PROVE  IInv'
<1> USE DEF InitLock, DestroyLock, LockTable, At, Runs, Goto,
            tableVars, callVars, handlerVars, exitVars
<1>1. TypeOK'
  BY ConstantFacts, InCallOnBucket DEF IInv, TypeOK, PCs, Blocks
<1>2. Owners'
  <2>1. /\ mut_job = None /\ mut_job' = t /\ hpc[t] = "off"
        /\ pc' = [pc EXCEPT ![t] = pc'[t]]
        /\ pc'[t] \in {"initPut", "destroyClear"}
        /\ ~OwnsBucket(t)
        /\ UNCHANGED <<hpc, mut, on>>
    BY DEF IInv, TypeOK, OwnsBucket
  <2>2. /\ \A u \in Clients : u # t => pc'[u] = pc[u]
        /\ \A u \in Clients : ~OwnsTable(u)
        /\ \A u \in Threads : hpc[u] # "scan"
    BY <2>1, ConstantFacts DEF IInv, TypeOK, Owners
  <2>3. \A u \in Clients : OwnsBucket(u)' <=> OwnsBucket(u)
    BY <2>1, <2>2 DEF OwnsBucket
  <2>4. OwnsTable(t)' /\ \A u \in Clients : OwnsTable(u)' => u = t
    BY <2>1, <2>2 DEF OwnsTable
  <2> QED BY <2>1, <2>2, <2>3, <2>4, ConstantFacts DEF IInv, TypeOK, Owners
<1>3. CallsMatch'
  BY ConstantFacts, InCallOnBucket
     DEF IInv, TypeOK, CallsMatch, Making, Destroying, Returning, BlockOf, Exiting
<1>4. SlotsMatch'
  <2>1. TableMatches' /\ \A b \in Buckets : block'[b] = "unused" => token'[b] = 0
    BY DEF IInv, SlotsMatch, TableMatches
  <2>2. ASSUME NEW u \in Clients
        PROVE  /\ pc'[u] \in {"destroyLock", "destroyClear"}
                    => pc[u] \in {"destroyLock", "destroyClear"}
               /\ pc'[u] = "destroyFree" => pc[u] = "destroyFree"
    BY DEF IInv, TypeOK
  <2> QED BY <2>1, <2>2 DEF IInv, SlotsMatch
<1>5. UnloadMatch'
  BY ConstantFacts, InCallOnBucket
     DEF IInv, TypeOK, CallsMatch, Making, Destroying, BlockOf, UnloadMatch,
         Ending, Exiting, exitVars
<1> QED BY <1>1, <1>2, <1>3, <1>4, <1>5 DEF IInv

LEMMA InitPutPreserves ==
    ASSUME IInv, NEW t \in Clients,
           InitPut(t)
    PROVE  IInv'
<1>0. PICK s \in Slots :
        /\ pc[t] = "initPut" /\ job[s] = None /\ mut_job' = None
        /\ job' = [job EXCEPT ![s] = on[t]]
        /\ pos' = [pos EXCEPT ![on[t]] = s]
        /\ block' = [block EXCEPT ![on[t]] = "live"]
        /\ pc' = [pc EXCEPT ![t] = "idle"]
        /\ on' = [on EXCEPT ![t] = None]
        /\ req' = [req EXCEPT ![t] = 0]
        /\ UNCHANGED <<token, mut, loads, hold, hpc, hpos, alarm, exited, upos,
                       unloaded, gone>>
  BY DEF InitPut, Return, FirstFree, FreeSlots, At, Goto, handlerVars, exitVars
<1>a. /\ on[t] \in Buckets /\ on[t] # None /\ block[on[t]] = "private"
      /\ \A u \in Clients : u # t => on[u] # on[t]
      /\ ~Exiting(t)
  BY <1>0, AloneOnBucket DEF Making, BlockOf, Exiting
<1>1. TypeOK'
  BY <1>0, <1>a, ConstantFacts DEF IInv, TypeOK, PCs, Blocks
<1>2. Owners'
  BY <1>0, ConstantFacts DEF IInv, TypeOK, Owners, OwnsTable, OwnsBucket
<1>3. CallsMatch'
  BY <1>0, <1>a, CallEnds DEF IInv, TypeOK
<1>4. SlotsMatch'
  <2>1. \A r \in Slots : job[r] # on[t]
    BY <1>a DEF IInv, SlotsMatch, TableMatches
  <2>2. TableMatches'
    <3>1. ASSUME NEW c \in Buckets, block'[c] = "live"
          PROVE  job'[pos'[c]] = c
      <4>1. CASE c = on[t]
        BY <1>0, <1>a, <4>1 DEF IInv, TypeOK
      <4>2. CASE c # on[t]
        <5>1. block[c] = "live" /\ pos'[c] = pos[c] /\ job[pos[c]] = c
          BY <1>0, <1>a, <3>1, <4>2 DEF IInv, TypeOK, SlotsMatch, TableMatches
        <5> QED BY <1>0, <5>1, ConstantFacts DEF IInv, TypeOK
      <4> QED BY <4>1, <4>2
    <3>2. ASSUME NEW r \in Slots, job'[r] # None
          PROVE  pos'[job'[r]] = r /\ block'[job'[r]] \in {"live", "closing"}
      <4>1. CASE r = s
        BY <1>0, <1>a, <4>1 DEF IInv, TypeOK
      <4>2. CASE r # s
        <5>1. job'[r] = job[r] /\ job[r] # on[t] /\ job[r] \in Buckets
          BY <1>0, <2>1, <3>2, <4>2 DEF IInv, TypeOK
        <5> QED BY <1>0, <5>1, <3>2 DEF IInv, TypeOK, SlotsMatch, TableMatches
      <4> QED BY <4>1, <4>2
    <3> QED BY <3>1, <3>2 DEF TableMatches
  <2>3. \A c \in Buckets : block'[c] = "unused" => token'[c] = 0
    BY <1>0, <1>a DEF IInv, TypeOK, SlotsMatch
  <2>4. ASSUME NEW u \in Clients
        PROVE  /\ pc'[u] \in {"destroyLock", "destroyClear"}
                    => job'[pos'[on'[u]]] = on'[u]
               /\ pc'[u] = "destroyFree" => \A r \in Slots : job'[r] # on'[u]
    <3>1. CASE u = t
      BY <1>0, <3>1 DEF IInv, TypeOK
    <3>2. CASE u # t
      <4>1. pc'[u] = pc[u] /\ on'[u] = on[u] /\ on[u] # on[t]
        BY <1>0, <1>a, <3>2 DEF IInv, TypeOK
      <4>2. ASSUME pc[u] \in {"destroyLock", "destroyClear"}
            PROVE  job'[pos'[on[u]]] = on[u]
        <5>1. on[u] \in Buckets /\ on[u] # None
          BY <4>2, AloneOnBucket DEF Destroying
        <5>2. job[pos[on[u]]] = on[u]
          BY <4>2 DEF IInv, SlotsMatch
        <5> QED BY <1>0, <4>1, <5>1, <5>2 DEF IInv, TypeOK
      <4>3. ASSUME pc[u] = "destroyFree"
            PROVE  \A r \in Slots : job'[r] # on[u]
        BY <1>0, <4>1, <4>3 DEF IInv, TypeOK, SlotsMatch
      <4> QED BY <4>1, <4>2, <4>3
    <3> QED BY <3>1, <3>2
  <2> QED BY <2>2, <2>3, <2>4 DEF SlotsMatch
<1>5. UnloadMatch'
  <2>1. \A u \in Clients : Exiting(u) => Exiting(u)'
    BY <1>0, <1>a DEF IInv, TypeOK, Exiting
  <2> QED BY <1>0, <1>a, <2>1, UnloadKept DEF IInv, TypeOK, UnloadMatch
<1> QED BY <1>1, <1>2, <1>3, <1>4, <1>5 DEF IInv

LEMMA InitFullPreserves ==
    ASSUME IInv, NEW t \in Clients,
           InitFull(t)
    PROVE  IInv'
<1> USE DEF InitFull, Return, At, Runs, Goto,
            tableVars, callVars, handlerVars, exitVars
<1>1. TypeOK'
  BY ConstantFacts, InCallOnBucket DEF IInv, TypeOK, PCs, Blocks
<1>2. Owners'
  BY ConstantFacts, InCallOnBucket
     DEF IInv, TypeOK, Owners, OwnsTable, OwnsBucket
<1>3. CallsMatch'
  BY ConstantFacts, InCallOnBucket
     DEF IInv, TypeOK, CallsMatch, Making, Destroying, Returning, BlockOf, Exiting
<1>4. SlotsMatch'
  BY ConstantFacts, InCallOnBucket
     DEF IInv, TypeOK, CallsMatch, Making, Destroying, BlockOf, SlotsMatch, TableMatches
<1>5. UnloadMatch'
  BY ConstantFacts, InCallOnBucket
     DEF IInv, TypeOK, CallsMatch, Making, Destroying, BlockOf, UnloadMatch,
         Ending, Exiting, exitVars
<1> QED BY <1>1, <1>2, <1>3, <1>4, <1>5 DEF IInv

LEMMA FetchCallPreserves ==
    ASSUME IInv, NEW t \in Clients, NEW b \in Buckets, NEW n \in Sizes,
           FetchCall(t, b, n)
    PROVE  IInv'
<1> USE DEF FetchCall, Call, At, Runs, Goto,
            tableVars, callVars, handlerVars, exitVars
<1>1. TypeOK'
  BY ConstantFacts, InCallOnBucket DEF IInv, TypeOK, PCs, Blocks
<1>2. Owners'
  BY ConstantFacts, InCallOnBucket
     DEF IInv, TypeOK, Owners, OwnsTable, OwnsBucket
<1>3. CallsMatch'
  BY ConstantFacts, InCallOnBucket
     DEF IInv, TypeOK, CallsMatch, Making, Destroying, Returning, BlockOf, Exiting
<1>4. SlotsMatch'
  BY ConstantFacts, InCallOnBucket
     DEF IInv, TypeOK, CallsMatch, Making, Destroying, BlockOf, SlotsMatch, TableMatches
<1>5. UnloadMatch'
  BY ConstantFacts, InCallOnBucket
     DEF IInv, TypeOK, CallsMatch, Making, Destroying, BlockOf, UnloadMatch,
         Ending, Exiting, exitVars
<1> QED BY <1>1, <1>2, <1>3, <1>4, <1>5 DEF IInv

LEMMA LockBucketPreserves ==
    ASSUME IInv, NEW t \in Clients,
           FetchLock(t) \/ ReturnLock(t) \/ CheckLock(t)
    PROVE  IInv'
<1> USE DEF FetchLock, ReturnLock, CheckLock, LockBucket, Lock, At, Runs, Goto,
            tableVars, callVars, handlerVars, exitVars
<1>0. /\ on[t] \in Buckets /\ mut[on[t]] = None
      /\ mut' = [mut EXCEPT ![on[t]] = t]
      /\ pc' = [pc EXCEPT ![t] = pc'[t]]
      /\ pc'[t] \in {"fetchTest", "returnAdd", "checkRead"}
      /\ ~OwnsTable(t)
      /\ UNCHANGED <<mut_job, tableVars, token, on, req, hold, handlerVars, exited, upos,
                     unloaded, gone>>
  BY InCallOnBucket DEF IInv, TypeOK, OwnsTable
<1>1. TypeOK'
  <2>1. pc' \in [Clients -> PCs]
    BY <1>0 DEF IInv, TypeOK, PCs
  <2>2. mut' \in [Buckets -> Clients \cup {None}]
    BY <1>0 DEF IInv, TypeOK
  <2> QED BY <1>0, <2>1, <2>2 DEF IInv, TypeOK
<1>2. Owners'
  <2>1. /\ \A u \in Clients : u # t => pc'[u] = pc[u]
        /\ \A b \in Buckets : b # on[t] => mut'[b] = mut[b]
        /\ mut'[on[t]] = t
    BY <1>0 DEF IInv, TypeOK
  <2>2. \A u \in Clients : OwnsTable(u)' <=> OwnsTable(u)
    BY <1>0, <2>1 DEF OwnsTable
  <2>3. OwnsBucket(t)' /\ \A u \in Clients : u # t => (OwnsBucket(u)' <=> OwnsBucket(u))
    BY <1>0, <2>1 DEF OwnsBucket
  <2>4. \A u \in Clients : OwnsBucket(u) => on[u] # on[t]
    BY <1>0, ConstantFacts DEF IInv, Owners
  <2>5. on' = on /\ mut_job' = mut_job /\ hpc' = hpc
    BY <1>0 DEF handlerVars
  <2>6. \A u \in Clients : OwnsBucket(u)' => mut'[on'[u]] = u
    <3>1. SUFFICES ASSUME NEW u \in Clients, OwnsBucket(u)'
                   PROVE  mut'[on[u]] = u
      BY <2>5
    <3>2. CASE u = t
      BY <2>1, <3>2
    <3>3. CASE u # t
      <4>1. OwnsBucket(u) /\ on[u] # on[t]
        BY <2>3, <2>4, <3>1, <3>3
      <4>2. on[u] \in Buckets /\ mut[on[u]] = u
        BY <4>1, InCallOnBucket DEF IInv, Owners, OwnsBucket
      <4> QED BY <2>1, <4>1, <4>2
    <3> QED BY <3>2, <3>3
  <2>7. \A b \in Buckets, u \in Clients :
          mut'[b] = u => OwnsBucket(u)' /\ on[u] = b
    <3>1. SUFFICES ASSUME NEW b \in Buckets, NEW u \in Clients, mut'[b] = u
                   PROVE  OwnsBucket(u)' /\ on[u] = b
      OBVIOUS
    <3>2. CASE b = on[t]
      BY <2>1, <2>3, <3>1, <3>2
    <3>3. CASE b # on[t]
      <4>1. OwnsBucket(u) /\ on[u] = b
        BY <2>1, <3>1, <3>3, ConstantFacts DEF IInv, Owners
      <4>2. u # t
        BY <3>3, <4>1
      <4> QED BY <2>3, <4>1, <4>2
    <3> QED BY <3>2, <3>3
  <2>8. \A b \in Buckets :
          mut'[b] # None => OwnsBucket(mut[b])' /\ on'[mut'[b]] = b
    BY <1>1, <2>5, <2>7 DEF TypeOK
  <2>9. \A u \in Clients : OwnsTable(u)' => mut_job' = u /\ hpc'[u] # "scan"
    BY <2>2, <2>5 DEF IInv, Owners
  <2>10. mut_job' # None =>
           (mut_job' \in Clients /\ OwnsTable(mut_job)') \/ hpc'[mut_job'] = "scan"
    BY <2>2, <2>5 DEF IInv, Owners
  <2>11. \A u \in Threads : hpc'[u] = "scan" => mut_job' = u
    BY <2>5 DEF IInv, Owners
  <2> QED BY <2>6, <2>8, <2>9, <2>10, <2>11 DEF Owners
<1>3. CallsMatch'
  BY ConstantFacts, InCallOnBucket
     DEF IInv, TypeOK, CallsMatch, Making, Destroying, Returning, BlockOf, Exiting
<1>4. SlotsMatch'
  BY ConstantFacts, InCallOnBucket
     DEF IInv, TypeOK, CallsMatch, Making, Destroying, BlockOf, SlotsMatch, TableMatches
<1>5. UnloadMatch'
  <2>1. \A u \in Clients : Exiting(u) => Exiting(u)'
    BY <1>0 DEF IInv, TypeOK, Exiting
  <2> QED BY <1>0, <2>1, UnloadKept DEF IInv, UnloadMatch, tableVars
<1> QED BY <1>1, <1>2, <1>3, <1>4, <1>5 DEF IInv

LEMMA FetchWaitPreserves ==
    ASSUME IInv, NEW t \in Clients,
           FetchWait(t)
    PROVE  IInv'
<1> USE DEF FetchWait, Unlock, At, Runs, Goto,
            tableVars, callVars, handlerVars, exitVars
<1>1. TypeOK'
  BY ConstantFacts, InCallOnBucket DEF IInv, TypeOK, PCs, Blocks
<1>2. Owners'
  BY ConstantFacts, InCallOnBucket
     DEF IInv, TypeOK, Owners, OwnsTable, OwnsBucket
<1>3. CallsMatch'
  BY ConstantFacts, InCallOnBucket
     DEF IInv, TypeOK, CallsMatch, Making, Destroying, Returning, BlockOf, Exiting
<1>4. SlotsMatch'
  BY ConstantFacts, InCallOnBucket
     DEF IInv, TypeOK, CallsMatch, Making, Destroying, BlockOf, SlotsMatch, TableMatches
<1>5. UnloadMatch'
  BY ConstantFacts, InCallOnBucket
     DEF IInv, TypeOK, CallsMatch, Making, Destroying, BlockOf, UnloadMatch,
         Ending, Exiting, exitVars
<1> QED BY <1>1, <1>2, <1>3, <1>4, <1>5 DEF IInv

LEMMA SpuriousWakeupPreserves ==
    ASSUME IInv, NEW t \in Clients,
           SpuriousWakeup(t)
    PROVE  IInv'
<1> USE DEF SpuriousWakeup, At, Runs, Goto,
            tableVars, callVars, handlerVars, exitVars
<1>1. TypeOK'
  BY ConstantFacts, InCallOnBucket DEF IInv, TypeOK, PCs, Blocks
<1>2. Owners'
  BY ConstantFacts, InCallOnBucket
     DEF IInv, TypeOK, Owners, OwnsTable, OwnsBucket
<1>3. CallsMatch'
  BY ConstantFacts, InCallOnBucket
     DEF IInv, TypeOK, CallsMatch, Making, Destroying, Returning, BlockOf, Exiting
<1>4. SlotsMatch'
  BY ConstantFacts, InCallOnBucket
     DEF IInv, TypeOK, CallsMatch, Making, Destroying, BlockOf, SlotsMatch, TableMatches
<1>5. UnloadMatch'
  BY ConstantFacts, InCallOnBucket
     DEF IInv, TypeOK, CallsMatch, Making, Destroying, BlockOf, UnloadMatch,
         Ending, Exiting, exitVars
<1> QED BY <1>1, <1>2, <1>3, <1>4, <1>5 DEF IInv

LEMMA FetchTakePreserves ==
    ASSUME IInv, NEW t \in Clients,
           FetchTake(t)
    PROVE  IInv'
<1> DEFINE b == on[t]
           n == Granted(b, req[t])
<1>1. /\ b \in Buckets /\ b = on[t] /\ pc[t] = "fetchTest" /\ token[b] > 0
      /\ req[t] \in Nat
  BY InCallOnBucket DEF FetchTake, At, IInv, TypeOK
<1>2. /\ n \in Nat /\ token[b] - n \in 0 .. Burst
  BY <1>1, GrantedInRange DEF IInv, TypeOK
<1>3. /\ pc' = [Woken(b) EXCEPT ![t] = "idle"]
      /\ on' = [on EXCEPT ![t] = None]
      /\ req' = [req EXCEPT ![t] = 0]
      /\ mut' = [mut EXCEPT ![b] = None]
      /\ token' = [token EXCEPT ![b] = token[b] - n]
      /\ hold' = [hold EXCEPT ![b][t] = n]
      /\ UNCHANGED <<mut_job, job, pos, block, loads, hpc, hpos, alarm, exited,
                     upos, unloaded, gone>>
  BY DEF FetchTake, Unlock, tableVars, callVars, handlerVars, exitVars
<1> HIDE DEF b, n
<1>4. /\ pc' \in [Clients -> PCs] /\ pc'[t] = "idle"
      /\ \A u \in Clients : u # t =>
            \/ pc'[u] = pc[u]
            \/ pc[u] = "fetchWait" /\ pc'[u] = "fetchLock"
  BY <1>1, <1>3, WokenFacts DEF IInv, PCs
<1>5. TypeOK'
  <2>1. token' \in [Buckets -> 0 .. Burst] /\ hold' \in [Buckets -> [Clients -> Nat]]
    BY <1>1, <1>2, <1>3 DEF IInv, TypeOK
  <2> QED BY <1>1, <1>3, <1>4, <2>1 DEF IInv, TypeOK
<1>6. \A u \in Clients : u # t =>
        /\ OwnsTable(u)' <=> OwnsTable(u)
        /\ OwnsBucket(u)' <=> OwnsBucket(u)
        /\ Making(u)' <=> Making(u)
        /\ Destroying(u)' <=> Destroying(u)
        /\ Returning(u)' <=> Returning(u)
        /\ BlockOf(u)' = BlockOf(u)
        /\ Exiting(u)' <=> Exiting(u)
        /\ on'[u] = on[u] /\ req'[u] = req[u]
        /\ (pc'[u] = "idle") <=> (pc[u] = "idle")
        /\ \A c \in Buckets : hold'[c][u] = hold[c][u]
  BY <1>1, <1>3, <1>4
     DEF IInv, TypeOK, OwnsTable, OwnsBucket, Making, Destroying, Returning, BlockOf, Exiting
<1>7. /\ ~OwnsTable(t)' /\ ~OwnsBucket(t)' /\ ~Making(t)' /\ ~Destroying(t)'
      /\ ~Returning(t)' /\ ~OwnsTable(t) /\ OwnsBucket(t) /\ on'[t] = None
  BY <1>1, <1>3, <1>4
     DEF IInv, TypeOK, OwnsTable, OwnsBucket, Making, Destroying, Returning
<1>8. Owners'
  BY <1>1, <1>3, <1>6, <1>7, ConstantFacts, InCallOnBucket
     DEF IInv, TypeOK, Owners
<1>9. CallsMatch'
  <2>1. \A u \in Clients : u # t => (pc[u] \in {"fetchLock", "fetchTest", "fetchWait"}
            <=> pc'[u] \in {"fetchLock", "fetchTest", "fetchWait"})
    BY <1>4
  <2>2. \A u \in Clients :
            (Making(u) \/ Destroying(u))' => u # t /\ on'[u] # None
    BY <1>6, <1>7 DEF IInv, CallsMatch, Making, Destroying, Exiting
  <2>3. \A u, w \in Clients :
            (Making(u) \/ Destroying(u))' /\ on'[w] = on'[u] => u = w
    BY <1>6, <1>7, <2>2 DEF IInv, CallsMatch
  <2>4. \A u \in Clients : u # t =>
            /\ (pc'[u] = "idle" \/ Exiting(u)') <=> on'[u] = None
            /\ on'[u] # None => block'[on'[u]] = BlockOf(u)'
    BY <1>3, <1>6 DEF IInv, CallsMatch
  <2>5. \A u \in Clients : u # t =>
            (Returning(u)' => req'[u] \in 1 .. Burst /\ req'[u] <= hold'[on'[u]][u])
    <3> SUFFICES ASSUME NEW u \in Clients, u # t, Returning(u)'
                 PROVE  req'[u] \in 1 .. Burst /\ req'[u] <= hold'[on'[u]][u]
      OBVIOUS
    <3>1. Returning(u) /\ on[u] \in Buckets
      BY <1>6, InCallOnBucket DEF Returning
    <3> QED BY <1>6, <3>1 DEF IInv, CallsMatch
  <2>6. \A u \in Clients : u # t =>
            (pc'[u] \in {"fetchLock", "fetchTest", "fetchWait"} => req'[u] \in Sizes)
    BY <1>6, <2>1 DEF IInv, CallsMatch
  <2> QED BY <1>4, <1>7, <2>3, <2>4, <2>5, <2>6 DEF CallsMatch
<1>10. SlotsMatch'
  <2>1. block[b] = "live"
    BY <1>1, ConstantFacts DEF IInv, CallsMatch, BlockOf, Making, Destroying
  <2> QED BY <1>3, <1>4, <1>6, <1>7, <2>1 DEF IInv, TypeOK, SlotsMatch, TableMatches
<1>11. UnloadMatch'
  BY <1>1, <1>3, <1>4 DEF IInv, TypeOK, UnloadMatch, Ending, Exiting, exitVars
<1> QED BY <1>5, <1>8, <1>9, <1>10, <1>11 DEF IInv

LEMMA ReturnCallPreserves ==
    ASSUME IInv, NEW t \in Clients, NEW b \in Buckets, NEW n \in 1 .. Burst,
           ReturnCall(t, b, n)
    PROVE  IInv'
<1> USE DEF ReturnCall, Call, At, Runs, Goto,
            tableVars, callVars, handlerVars, exitVars
<1>1. TypeOK'
  BY ConstantFacts, InCallOnBucket DEF IInv, TypeOK, PCs, Blocks
<1>2. Owners'
  BY ConstantFacts, InCallOnBucket
     DEF IInv, TypeOK, Owners, OwnsTable, OwnsBucket
<1>3. CallsMatch'
  BY ConstantFacts, InCallOnBucket
     DEF IInv, TypeOK, CallsMatch, Making, Destroying, Returning, BlockOf, Exiting
<1>4. SlotsMatch'
  BY ConstantFacts, InCallOnBucket
     DEF IInv, TypeOK, CallsMatch, Making, Destroying, BlockOf, SlotsMatch, TableMatches
<1>5. UnloadMatch'
  BY ConstantFacts, InCallOnBucket
     DEF IInv, TypeOK, CallsMatch, Making, Destroying, BlockOf, UnloadMatch,
         Ending, Exiting, exitVars
<1> QED BY <1>1, <1>2, <1>3, <1>4, <1>5 DEF IInv

LEMMA ReturnAddPreserves ==
    ASSUME IInv, NEW t \in Clients,
           ReturnAdd(t)
    PROVE  IInv'
<1>0. /\ pc[t] = "returnAdd"
      /\ token' = [token EXCEPT ![on[t]] = Raised(on[t], req[t])]
      /\ hold' = [hold EXCEPT ![on[t]][t] = @ - req[t]]
      /\ mut' = [mut EXCEPT ![on[t]] = None]
      /\ pc' = [pc EXCEPT ![t] = "idle"]
      /\ on' = [on EXCEPT ![t] = None]
      /\ req' = [req EXCEPT ![t] = 0]
      /\ UNCHANGED <<mut_job, job, pos, block, loads, hpc, hpos, alarm, exited,
                     upos, unloaded, gone>>
  BY DEF ReturnAdd, Unlock, Return, At, Goto, tableVars, handlerVars, exitVars
<1>a. /\ on[t] \in Buckets /\ on[t] # None /\ Returning(t)
      /\ block[on[t]] = "live"
  BY <1>0, InCallOnBucket, ConstantFacts
     DEF IInv, CallsMatch, BlockOf, Making, Destroying, Returning
<1>1. TypeOK'
  <2>1. on[t] \in Buckets /\ req[t] \in Nat /\ hold[on[t]][t] - req[t] \in Nat
    BY <1>a DEF IInv, TypeOK, CallsMatch
  <2>2. Raised(on[t], req[t]) \in 0 .. Burst
    BY <2>1, RaisedInRange DEF IInv
  <2>3. token' \in [Buckets -> 0 .. Burst]
    BY <1>0, <2>1, <2>2 DEF IInv, TypeOK
  <2>4. hold' \in [Buckets -> [Clients -> Nat]]
    BY <1>0, <2>1 DEF IInv, TypeOK
  <2> QED BY <1>0, <2>1, <2>3, <2>4 DEF IInv, TypeOK, PCs
<1>2. Owners'
  BY <1>0, <1>a, ConstantFacts DEF IInv, TypeOK, Owners, OwnsTable, OwnsBucket
<1>3. CallsMatch'
  BY <1>0, <1>a, CallEnds DEF IInv, TypeOK
<1>4. SlotsMatch'
  BY <1>0, <1>a DEF IInv, TypeOK, SlotsMatch, TableMatches
<1>5. UnloadMatch'
  <2>1. \A u \in Clients : Exiting(u) => Exiting(u)'
    BY <1>0 DEF IInv, TypeOK, Exiting
  <2> QED BY <1>0, <2>1, UnloadKept DEF IInv, UnloadMatch
<1> QED BY <1>1, <1>2, <1>3, <1>4, <1>5 DEF IInv

LEMMA CheckCallPreserves ==
    ASSUME IInv, NEW t \in Clients, NEW b \in Buckets,
           CheckCall(t, b)
    PROVE  IInv'
<1> USE DEF CheckCall, Call, At, Runs, Goto,
            tableVars, callVars, handlerVars, exitVars
<1>1. TypeOK'
  BY ConstantFacts, InCallOnBucket DEF IInv, TypeOK, PCs, Blocks
<1>2. Owners'
  BY ConstantFacts, InCallOnBucket
     DEF IInv, TypeOK, Owners, OwnsTable, OwnsBucket
<1>3. CallsMatch'
  BY ConstantFacts, InCallOnBucket
     DEF IInv, TypeOK, CallsMatch, Making, Destroying, Returning, BlockOf, Exiting
<1>4. SlotsMatch'
  BY ConstantFacts, InCallOnBucket
     DEF IInv, TypeOK, CallsMatch, Making, Destroying, BlockOf, SlotsMatch, TableMatches
<1>5. UnloadMatch'
  BY ConstantFacts, InCallOnBucket
     DEF IInv, TypeOK, CallsMatch, Making, Destroying, BlockOf, UnloadMatch,
         Ending, Exiting, exitVars
<1> QED BY <1>1, <1>2, <1>3, <1>4, <1>5 DEF IInv

LEMMA CheckReadPreserves ==
    ASSUME IInv, NEW t \in Clients,
           CheckRead(t)
    PROVE  IInv'
<1>0. /\ pc[t] = "checkRead"
      /\ mut' = [mut EXCEPT ![on[t]] = None]
      /\ pc' = [pc EXCEPT ![t] = "idle"]
      /\ on' = [on EXCEPT ![t] = None]
      /\ req' = [req EXCEPT ![t] = 0]
      /\ UNCHANGED <<mut_job, job, pos, block, loads, token, hold, hpc, hpos, alarm,
                     exited, upos, unloaded, gone>>
  BY DEF CheckRead, Unlock, Return, At, Goto, tableVars, handlerVars, exitVars
<1>a. /\ on[t] \in Buckets /\ on[t] # None
      /\ block[on[t]] = "live"
  BY <1>0, InCallOnBucket, ConstantFacts
     DEF IInv, CallsMatch, BlockOf, Making, Destroying, Returning
<1>1. TypeOK'
  BY <1>0, <1>a DEF IInv, TypeOK, PCs
<1>2. Owners'
  BY <1>0, <1>a, ConstantFacts DEF IInv, TypeOK, Owners, OwnsTable, OwnsBucket
<1>3. CallsMatch'
  BY <1>0, <1>a, CallEnds DEF IInv, TypeOK
<1>4. SlotsMatch'
  BY <1>0, <1>a DEF IInv, TypeOK, SlotsMatch, TableMatches
<1>5. UnloadMatch'
  <2>1. \A u \in Clients : Exiting(u) => Exiting(u)'
    BY <1>0 DEF IInv, TypeOK, Exiting
  <2> QED BY <1>0, <2>1, UnloadKept DEF IInv, UnloadMatch
<1> QED BY <1>1, <1>2, <1>3, <1>4, <1>5 DEF IInv

LEMMA DestroyCallPreserves ==
    ASSUME IInv, NEW t \in Clients, NEW b \in Buckets,
           DestroyCall(t, b)
    PROVE  IInv'
<1> USE DEF DestroyCall, Call, InCall, At, Runs, Goto,
            tableVars, callVars, handlerVars, exitVars
<1>1. TypeOK'
  BY ConstantFacts, InCallOnBucket DEF IInv, TypeOK, PCs, Blocks
<1>2. Owners'
  BY ConstantFacts, InCallOnBucket
     DEF IInv, TypeOK, Owners, OwnsTable, OwnsBucket
<1>3. CallsMatch'
  BY ConstantFacts, InCallOnBucket
     DEF IInv, TypeOK, CallsMatch, Making, Destroying, Returning, BlockOf, Exiting
<1>4. SlotsMatch'
  BY ConstantFacts, InCallOnBucket
     DEF IInv, TypeOK, CallsMatch, Making, Destroying, BlockOf, SlotsMatch, TableMatches
<1>5. UnloadMatch'
  <2>1. \A u \in Clients : Exiting(u) => Exiting(u)'
    BY DEF IInv, TypeOK, Exiting
  <2>2. \A c \in unloaded : block'[c] \in {"live", "closing"}
    BY DEF IInv, TypeOK, UnloadMatch
  <2> QED BY <2>1, <2>2, UnloadKept
<1> QED BY <1>1, <1>2, <1>3, <1>4, <1>5 DEF IInv

LEMMA DestroyClearPreserves ==
    ASSUME IInv, NEW t \in Clients,
           DestroyClear(t)
    PROVE  IInv'
<1>0. /\ pc[t] = "destroyClear" /\ mut_job' = None
      /\ job' = [job EXCEPT ![pos[on[t]]] = None]
      /\ pc' = [pc EXCEPT ![t] = "destroyFree"]
      /\ UNCHANGED <<pos, block, loads, token, mut, on, req, hold, hpc, hpos, alarm,
                     exited, upos, unloaded, gone>>
  BY DEF DestroyClear, At, Goto, handlerVars, exitVars
<1>a. /\ on[t] \in Buckets /\ on[t] # None /\ block[on[t]] = "closing"
      /\ \A u \in Clients : u # t => on[u] # on[t]
      /\ job[pos[on[t]]] = on[t]
  BY <1>0, AloneOnBucket DEF Making, Destroying, BlockOf, IInv, SlotsMatch
<1>1. TypeOK'
  BY <1>0, <1>a DEF IInv, TypeOK, PCs
<1>2. Owners'
  BY <1>0, <1>a, ConstantFacts DEF IInv, TypeOK, Owners, OwnsTable, OwnsBucket
<1>3. CallsMatch'
  BY <1>0, <1>a
     DEF IInv, TypeOK, CallsMatch, Making, Destroying, Returning, BlockOf, Exiting
<1>4. SlotsMatch'
  <2>1. \A r \in Slots : job'[r] # None => job'[r] = job[r] /\ job'[r] # on[t]
    BY <1>0, <1>a DEF IInv, TypeOK, SlotsMatch, TableMatches
  <2>2. \A c \in Buckets : c # on[t] /\ job[pos[c]] = c => job'[pos[c]] = c
    BY <1>0, <1>a DEF IInv, TypeOK
  <2>3. TableMatches'
    BY <1>0, <1>a, <2>1, <2>2 DEF IInv, TypeOK, SlotsMatch, TableMatches
  <2>4. ASSUME NEW u \in Clients, u # t
        PROVE  /\ pc'[u] \in {"destroyLock", "destroyClear"} => job'[pos'[on'[u]]] = on'[u]
               /\ pc'[u] = "destroyFree" => \A r \in Slots : job'[r] # on'[u]
    <3>1. pc'[u] = pc[u] /\ on[u] # on[t]
      BY <1>0, <1>a, <2>4 DEF IInv, TypeOK
    <3>2. Destroying(u) => on[u] \in Buckets /\ on[u] # None
      BY AloneOnBucket
    <3> QED BY <1>0, <2>1, <2>2, <3>1, <3>2 DEF IInv, SlotsMatch, Destroying
  <2>5. /\ pc'[t] = "destroyFree" /\ on' = on
        /\ \A r \in Slots : job'[r] # on[t]
    BY <1>0, <1>a, <2>1 DEF IInv, TypeOK
  <2>6. \A c \in Buckets : block'[c] = "unused" => token'[c] = 0
    BY <1>0 DEF IInv, SlotsMatch
  <2> QED BY <2>3, <2>4, <2>5, <2>6 DEF SlotsMatch
<1>5. UnloadMatch'
  <2>1. \A u \in Clients : Exiting(u) => Exiting(u)'
    BY <1>0 DEF IInv, TypeOK, Exiting
  <2> QED BY <1>0, <2>1, UnloadKept DEF IInv, UnloadMatch
<1> QED BY <1>1, <1>2, <1>3, <1>4, <1>5 DEF IInv

LEMMA DestroyFreePreserves ==
    ASSUME IInv, NEW t \in Clients,
           DestroyFree(t)
    PROVE  IInv'
<1>0. /\ pc[t] = "destroyFree" /\ on[t] \notin unloaded
      /\ block' = [block EXCEPT ![on[t]] = "freed"]
      /\ pc' = [pc EXCEPT ![t] = "idle"]
      /\ on' = [on EXCEPT ![t] = None]
      /\ req' = [req EXCEPT ![t] = 0]
      /\ UNCHANGED <<mut_job, job, pos, loads, token, mut, hold, hpc, hpos, alarm,
                     exited, upos, unloaded, gone>>
  BY DEF DestroyFree, Return, At, Goto, handlerVars, exitVars
<1>a. /\ on[t] \in Buckets /\ on[t] # None /\ block[on[t]] = "closing"
      /\ \A u \in Clients : u # t => on[u] # on[t]
      /\ \A r \in Slots : job[r] # on[t]
  BY <1>0, AloneOnBucket DEF Making, Destroying, BlockOf, IInv, SlotsMatch
<1>1. TypeOK'
  BY <1>0, <1>a DEF IInv, TypeOK, PCs, Blocks
<1>2. Owners'
  BY <1>0, <1>a, ConstantFacts DEF IInv, TypeOK, Owners, OwnsTable, OwnsBucket
<1>3. CallsMatch'
  BY <1>0, <1>a, CallEnds DEF IInv, TypeOK
<1>4. SlotsMatch'
  <2>1. TableMatches' /\ \A c \in Buckets : block'[c] = "unused" => token'[c] = 0
    BY <1>0, <1>a DEF IInv, TypeOK, SlotsMatch, TableMatches
  <2>2. \A u \in Clients : u # t => pc'[u] = pc[u] /\ on'[u] = on[u]
    BY <1>0 DEF IInv, TypeOK
  <2>3. pc'[t] = "idle"
    BY <1>0 DEF IInv, TypeOK
  <2> QED BY <1>0, <2>1, <2>2, <2>3 DEF IInv, SlotsMatch
<1>5. UnloadMatch'
  <2>1. \A u \in Clients : Exiting(u) => Exiting(u)'
    BY <1>0 DEF IInv, TypeOK, Exiting
  <2> QED BY <1>0, <2>1, UnloadKept DEF IInv, TypeOK, UnloadMatch
<1> QED BY <1>1, <1>2, <1>3, <1>4, <1>5 DEF IInv

LEMMA RaiseAlarmPreserves ==
    ASSUME IInv, RaiseAlarm
    PROVE  IInv'
<1> USE DEF RaiseAlarm, Runs, tableVars, callVars, exitVars
<1>1. TypeOK'
  BY ConstantFacts DEF IInv, TypeOK, HPCs
<1>2. Owners'
  BY ConstantFacts DEF IInv, TypeOK, Owners, OwnsTable, OwnsBucket
<1>3. CallsMatch'
  BY DEF IInv, CallsMatch, Making, Destroying, Returning, BlockOf, Exiting
<1>4. SlotsMatch'
  BY DEF IInv, SlotsMatch, TableMatches
<1>5. UnloadMatch'
  BY ConstantFacts, InCallOnBucket
     DEF IInv, TypeOK, CallsMatch, Making, Destroying, BlockOf, UnloadMatch,
         Ending, Exiting, exitVars
<1> QED BY <1>1, <1>2, <1>3, <1>4, <1>5 DEF IInv

LEMMA DeliverPreserves ==
    ASSUME IInv, NEW t \in Threads, Deliver(t)
    PROVE  IInv'
<1> USE DEF Deliver, Started, Runs, tableVars, callVars, exitVars
<1>1. TypeOK'
  BY ConstantFacts DEF IInv, TypeOK, HPCs
<1>2. Owners'
  BY ConstantFacts DEF IInv, TypeOK, Owners, OwnsTable, OwnsBucket
<1>3. CallsMatch'
  BY DEF IInv, CallsMatch, Making, Destroying, Returning, BlockOf, Exiting
<1>4. SlotsMatch'
  BY DEF IInv, SlotsMatch, TableMatches
<1>5. UnloadMatch'
  BY ConstantFacts, InCallOnBucket
     DEF IInv, TypeOK, CallsMatch, Making, Destroying, BlockOf, UnloadMatch,
         Ending, Exiting, exitVars
<1> QED BY <1>1, <1>2, <1>3, <1>4, <1>5 DEF IInv

LEMMA HandlerLockPreserves ==
    ASSUME IInv, NEW t \in Threads, HandlerLock(t)
    PROVE  IInv'
<1> USE DEF HandlerLock, Runs, tableVars, callVars, exitVars
<1>1. TypeOK'
  BY ConstantFacts DEF IInv, TypeOK, HPCs
<1>2. Owners'
  BY ConstantFacts DEF IInv, TypeOK, Owners, OwnsTable, OwnsBucket
<1>3. CallsMatch'
  BY DEF IInv, CallsMatch, Making, Destroying, Returning, BlockOf, Exiting
<1>4. SlotsMatch'
  BY DEF IInv, SlotsMatch, TableMatches
<1>5. UnloadMatch'
  BY ConstantFacts, InCallOnBucket
     DEF IInv, TypeOK, CallsMatch, Making, Destroying, BlockOf, UnloadMatch,
         Ending, Exiting, exitVars
<1> QED BY <1>1, <1>2, <1>3, <1>4, <1>5 DEF IInv

LEMMA HandlerSkipPreserves ==
    ASSUME IInv, NEW t \in Threads, HandlerSkip(t)
    PROVE  IInv'
<1> USE DEF HandlerSkip, ScansAt, Runs, tableVars, callVars, exitVars
<1>1. TypeOK'
  BY ConstantFacts DEF IInv, TypeOK, Slots
<1>2. Owners'
  BY ConstantFacts DEF IInv, TypeOK, Owners, OwnsTable, OwnsBucket
<1>3. CallsMatch'
  BY DEF IInv, CallsMatch, Making, Destroying, Returning, BlockOf, Exiting
<1>4. SlotsMatch'
  BY DEF IInv, SlotsMatch, TableMatches
<1>5. UnloadMatch'
  BY ConstantFacts, InCallOnBucket
     DEF IInv, TypeOK, CallsMatch, Making, Destroying, BlockOf, UnloadMatch,
         Ending, Exiting, exitVars
<1> QED BY <1>1, <1>2, <1>3, <1>4, <1>5 DEF IInv

LEMMA HandlerFillPreserves ==
    ASSUME IInv, NEW t \in Threads, HandlerFill(t)
    PROVE  IInv'
<1> DEFINE b == job[hpos[t]]
<1>1. b \in Buckets /\ hpos[t] \in Slots
  BY DEF HandlerFill, ScansAt, IInv, TypeOK
<1>2. Raised(b, Cps) \in 0 .. Burst
  BY <1>1, RaisedInRange, ConstantFacts DEF IInv
<1>3. /\ pc' = Woken(b)
      /\ token' = [token EXCEPT ![b] = Raised(b, Cps)]
      /\ hpos' = [hpos EXCEPT ![t] = hpos[t] + 1]
      /\ UNCHANGED <<mut_job, job, pos, block, loads, mut, on, req, hold, hpc,
                     alarm, exited, upos, unloaded, gone>>
  BY DEF HandlerFill, tableVars, exitVars
<1> HIDE DEF b
<1>4. /\ pc' \in [Clients -> PCs]
      /\ \A u \in Clients :
            \/ pc'[u] = pc[u]
            \/ pc[u] = "fetchWait" /\ pc'[u] = "fetchLock"
  BY <1>1, <1>3, WokenFacts DEF IInv
<1>5. TypeOK'
  <2>1. hpos' \in [Threads -> 0 .. MytbfMax]
    BY <1>1, <1>3, ConstantFacts DEF IInv, TypeOK, Slots
  <2> QED BY <1>1, <1>2, <1>3, <1>4, <2>1 DEF IInv, TypeOK
<1>6. \A u \in Clients :
        /\ OwnsTable(u)' <=> OwnsTable(u)
        /\ OwnsBucket(u)' <=> OwnsBucket(u)
        /\ Making(u)' <=> Making(u)
        /\ Destroying(u)' <=> Destroying(u)
        /\ Returning(u)' <=> Returning(u)
        /\ BlockOf(u)' = BlockOf(u)
        /\ Exiting(u)' <=> Exiting(u)
        /\ (pc'[u] = "idle") <=> (pc[u] = "idle")
        /\ (pc[u] \in {"fetchLock", "fetchTest", "fetchWait"}
            <=> pc'[u] \in {"fetchLock", "fetchTest", "fetchWait"})
  BY <1>4 DEF OwnsTable, OwnsBucket, Making, Destroying, Returning, BlockOf, Exiting
<1>7. Owners'
  BY <1>3, <1>6, ConstantFacts DEF IInv, TypeOK, Owners
<1>8. CallsMatch'
  BY <1>3, <1>6 DEF IInv, CallsMatch
<1>9. SlotsMatch'
  <2>1. block[b] # "unused"
    BY <1>1, ConstantFacts DEF b, IInv, SlotsMatch, TableMatches
  <2> QED BY <1>3, <1>4, <2>1 DEF IInv, TypeOK, SlotsMatch, TableMatches
<1>10. UnloadMatch'
  BY <1>3, <1>4 DEF IInv, UnloadMatch, Ending, Exiting, exitVars
<1> QED BY <1>5, <1>7, <1>8, <1>9, <1>10 DEF IInv

LEMMA HandlerUnlockPreserves ==
    ASSUME IInv, NEW t \in Threads, HandlerUnlock(t)
    PROVE  IInv'
<1> USE DEF HandlerUnlock, Runs, tableVars, callVars, exitVars
<1>1. TypeOK'
  BY ConstantFacts DEF IInv, TypeOK, HPCs
<1>2. Owners'
  BY ConstantFacts DEF IInv, TypeOK, Owners, OwnsTable, OwnsBucket
<1>3. CallsMatch'
  BY DEF IInv, CallsMatch, Making, Destroying, Returning, BlockOf, Exiting
<1>4. SlotsMatch'
  BY DEF IInv, SlotsMatch, TableMatches
<1>5. UnloadMatch'
  BY ConstantFacts, InCallOnBucket
     DEF IInv, TypeOK, CallsMatch, Making, Destroying, BlockOf, UnloadMatch,
         Ending, Exiting, exitVars
<1> QED BY <1>1, <1>2, <1>3, <1>4, <1>5 DEF IInv

-----------------------------------------------------------------------------
LEMMA NextPreserves == IInv /\ [Next]_vars => IInv'
<1> SUFFICES ASSUME IInv, [Next]_vars PROVE IInv'
  OBVIOUS
<1>1. ASSUME NEW t \in Clients, NEW b \in Buckets, CallStart(t, b) PROVE IInv'
  BY <1>1, InitCallPreserves, InitNoMemoryPreserves, InitNoThreadPreserves, FetchCallPreserves, ReturnCallPreserves,
     CheckCallPreserves, DestroyCallPreserves DEF CallStart
<1>2. ASSUME NEW t \in Clients, CallStep(t) PROVE IInv'
  BY <1>2, LockTablePreserves, InitPutPreserves, InitFullPreserves,
     LockBucketPreserves, FetchWaitPreserves, FetchTakePreserves,
     SpuriousWakeupPreserves, ReturnAddPreserves, CheckReadPreserves,
     DestroyClearPreserves, DestroyFreePreserves, ExitJoinPreserves,
     ExitFreePreserves, CrashPreserves DEF CallStep, CallProgress
<1>3. CASE RaiseAlarm
  BY <1>3, RaiseAlarmPreserves
<1>4. ASSUME NEW t \in Threads, Deliver(t) \/ HandlerStep(t) PROVE IInv'
  BY <1>4, DeliverPreserves, HandlerLockPreserves, HandlerSkipPreserves,
     HandlerFillPreserves, HandlerUnlockPreserves DEF HandlerStep
<1>5. CASE UNCHANGED vars
  <2>1. TypeOK'
    BY <1>5 DEF IInv, TypeOK, vars
  <2>2. Owners'
    BY <1>5 DEF IInv, Owners, OwnsTable, OwnsBucket, vars
  <2>3. CallsMatch'
    BY <1>5 DEF IInv, CallsMatch, Making, Destroying, Returning, BlockOf, Exiting, vars
  <2>4. SlotsMatch'
    BY <1>5 DEF IInv, SlotsMatch, TableMatches, vars
  <2>5. UnloadMatch'
    BY <1>5 DEF IInv, UnloadMatch, Ending, Exiting, vars
  <2> QED BY <2>1, <2>2, <2>3, <2>4, <2>5 DEF IInv
<1> QED BY <1>1, <1>2, <1>3, <1>4, <1>5 DEF Next

\* The inductive invariant holds in every reachable state: the variables have
\* their types, mutexes are owned where the code says, calls are on buckets in
\* the state they expect, and live buckets are in their slots.
THEOREM Invariance == Spec => []IInv
<1>1. Init => IInv
  BY InitIInv
<1>2. IInv /\ [Next]_vars => IInv'
  BY NextPreserves
<1> QED BY <1>1, <1>2, PTL DEF Spec

\* Type correctness: in particular no bucket ever holds fewer than 0 or more
\* than Burst tokens.
THEOREM TypeCorrect == Spec => []TypeOK
<1>1. IInv => TypeOK
  BY DEF IInv
<1> QED BY <1>1, Invariance, PTL

\* The handler fills no bucket that mytbf_destroy has freed, no call works on
\* one and module_unload frees none again, whatever thread SIGALRM interrupts
\* and however calls, handlers and exits interleave; only what module_unload
\* itself frees, in a process that is in exit, is still used.
THEOREM FreedNeverUsed == Spec => []NoUseAfterFree
<1>1. IInv => NoUseAfterFree
  <2> SUFFICES ASSUME IInv PROVE NoUseAfterFree
    OBVIOUS
  <2>1. ASSUME NEW t \in Threads, hpos[t] \in Slots, job[hpos[t]] # None
        PROVE  block[job[hpos[t]]] \in {"live", "closing"}
    BY <2>1 DEF IInv, SlotsMatch, TableMatches
  <2>2. ASSUME NEW t \in Clients, on[t] # None
        PROVE  block[on[t]] # "freed"
    BY <2>2 DEF IInv, CallsMatch, BlockOf
  <2>3. \A b \in unloaded : Ending /\ block[b] \in {"live", "closing"}
    BY DEF IInv, UnloadMatch
  <2> QED BY <2>1, <2>2, <2>3 DEF NoUseAfterFree
<1> QED BY <1>1, Invariance, PTL

\* A live bucket stays in the slot it remembers and in no other.
THEOREM TableCorrect == Spec => []TableMatches
<1>1. IInv => TableMatches
  BY DEF IInv, SlotsMatch
<1> QED BY <1>1, Invariance, PTL

\* Both kinds of critical section exclude one another.
THEOREM MutualExclusion == Spec => []Exclusion
<1>1. IInv => Exclusion
  BY DEF IInv, Owners, Exclusion
<1> QED BY <1>1, Invariance, PTL

\* The only deadlock is a handler waiting for the call it interrupted.
THEOREM OnlySelfDeadlock == Spec => []OwnersProceed
<1>1. IInv => OwnersProceed
  BY ConstantFacts
     DEF IInv, TypeOK, HPCs, Owners, OwnersProceed, OwnerInterrupted, Runs
<1> QED BY <1>1, Invariance, PTL

-----------------------------------------------------------------------------
\* A step that leaves the tokens of b alone is a stutter of its abstraction.
LEMMA TokensUnchanged ==
    ASSUME NEW b \in Buckets, token'[b] = token[b], hold'[b] = hold[b]
    PROVE  [TB(b)!Next]_(TB(b)!vars)
BY DEF TB!vars

\* Filling a bucket is a tick of the abstract one.
LEMMA FillIsTick ==
    ASSUME IInv, NEW t \in Threads, HandlerFill(t), NEW b \in Buckets
    PROVE  [TB(b)!Next]_(TB(b)!vars)
<1>1. hold' = hold /\ token' = [token EXCEPT ![job[hpos[t]]] = Raised(job[hpos[t]], Cps)]
  BY DEF HandlerFill
<1>2. CASE b = job[hpos[t]]
  <2>1. token'[b] = Raised(b, Cps)
    BY <1>1, <1>2 DEF IInv, TypeOK
  <2>2. TB(b)!Tick
    BY <1>1, <2>1 DEF TB!Tick, TB!Smaller, Raised, Smaller
  <2> QED BY <2>2 DEF TB!Next
<1>3. CASE b # job[hpos[t]]
  BY <1>1, <1>3, TokensUnchanged DEF IInv, TypeOK
<1> QED BY <1>2, <1>3

\* A fetch that succeeds takes from the abstract bucket.
LEMMA FetchIsTake ==
    ASSUME IInv, NEW t \in Clients, FetchTake(t), NEW b \in Buckets
    PROVE  [TB(b)!Next]_(TB(b)!vars)
<1>1. /\ on[t] \in Buckets /\ req[t] \in Sizes /\ token[on[t]] > 0
      /\ token' = [token EXCEPT ![on[t]] = @ - Granted(on[t], req[t])]
      /\ hold' = [hold EXCEPT ![on[t]][t] = Granted(on[t], req[t])]
  BY InCallOnBucket DEF FetchTake, At, IInv, CallsMatch
<1>2. CASE b = on[t]
  <2>1. /\ token'[b] = token[b] - Granted(b, req[t])
        /\ hold'[b] = [hold[b] EXCEPT ![t] = Granted(b, req[t])]
    BY <1>1, <1>2 DEF IInv, TypeOK
  <2>2. TB(b)!Take(t, req[t])
    BY <1>1, <1>2, <2>1 DEF TB!Take, TB!Smaller, Granted, Smaller
  <2> QED BY <1>1, <2>2 DEF TB!Next
<1>3. CASE b # on[t]
  BY <1>1, <1>3, TokensUnchanged DEF IInv, TypeOK
<1> QED BY <1>2, <1>3

\* Returning tokens gives back to the abstract bucket.
LEMMA ReturnIsGiveBack ==
    ASSUME IInv, NEW t \in Clients, ReturnAdd(t), NEW b \in Buckets
    PROVE  [TB(b)!Next]_(TB(b)!vars)
<1>1. /\ on[t] \in Buckets /\ req[t] \in 1 .. Burst /\ req[t] <= hold[on[t]][t]
      /\ token' = [token EXCEPT ![on[t]] = Raised(on[t], req[t])]
      /\ hold' = [hold EXCEPT ![on[t]][t] = @ - req[t]]
  BY InCallOnBucket DEF ReturnAdd, At, IInv, CallsMatch, Returning
<1>2. CASE b = on[t]
  <2>1. /\ token'[b] = Raised(b, req[t])
        /\ hold'[b] = [hold[b] EXCEPT ![t] = hold[b][t] - req[t]]
    BY <1>1, <1>2 DEF IInv, TypeOK
  <2>2. TB(b)!GiveBack(t, req[t])
    BY <1>1, <1>2, <2>1 DEF TB!GiveBack, TB!Smaller, Raised, Smaller
  <2> QED BY <1>1, <2>2 DEF TB!Next
<1>3. CASE b # on[t]
  BY <1>1, <1>3, TokensUnchanged DEF IInv, TypeOK
<1> QED BY <1>2, <1>3

\* Every step of the library is a step of each abstract bucket or a stutter.
LEMMA StepSimulation ==
    ASSUME IInv, [Next]_vars, NEW b \in Buckets
    PROVE  [TB(b)!Next]_(TB(b)!vars)
<1>1. ASSUME NEW t \in Clients, NEW c \in Buckets, CallStart(t, c)
      PROVE  token'[b] = token[b] /\ hold'[b] = hold[b]
  <2>1. CASE InitCall(t, c)
    <3>1. c = b => token[b] = 0
      BY <2>1 DEF InitCall, IInv, SlotsMatch
    <3> QED BY <2>1, <3>1 DEF InitCall, IInv, TypeOK
  <2> QED BY <1>1, <2>1
          DEF CallStart, FetchCall, ReturnCall, CheckCall, DestroyCall,
              InitNoMemory, InitNoThread, callVars
<1>2. ASSUME NEW t \in Clients, CallStep(t), ~FetchTake(t), ~ReturnAdd(t)
      PROVE  token'[b] = token[b] /\ hold'[b] = hold[b]
  BY <1>2
     DEF CallStep, CallProgress, InitLock, DestroyLock, LockTable, InitPut,
         InitFull, FetchLock, ReturnLock, CheckLock, LockBucket, FetchWait,
         SpuriousWakeup, CheckRead, DestroyClear, DestroyFree, DestroyAgain,
         ExitJoin, ExitFree, ExitEnd, callVars
<1>3. ASSUME NEW t \in Threads, Deliver(t) \/ HandlerStep(t), ~HandlerFill(t)
      PROVE  token'[b] = token[b] /\ hold'[b] = hold[b]
  BY <1>3
     DEF Deliver, HandlerStep, HandlerLock, HandlerSkip, HandlerUnlock, callVars
<1>4. CASE RaiseAlarm
  BY <1>4, TokensUnchanged DEF RaiseAlarm, callVars
<1>5. CASE UNCHANGED vars
  BY <1>5, TokensUnchanged DEF vars
<1> QED BY <1>1, <1>2, <1>3, <1>4, <1>5, TokensUnchanged,
           FillIsTick, FetchIsTake, ReturnIsGiveBack DEF Next

\* The library implements the abstract token bucket: for every bucket, however
\* its callers, its destruction and the handler interleave, its tokens change
\* only by whole ticks, takes and returns.
THEOREM Implementation == Spec => ImplementsTokenBucket
<1>1. Init => \A b \in Buckets : TB(b)!Init
  BY DEF Init, TB!Init
<1>2. IInv /\ [Next]_vars => [\A b \in Buckets : [TB(b)!Next]_(TB(b)!vars)]_vars
  BY StepSimulation
<1> QED BY <1>1, <1>2, Invariance, PTL DEF Spec, ImplementsTokenBucket

-----------------------------------------------------------------------------
\* The rate of a bucket: its ledger keeps what the library keeps, and balances.
PeakType == peak \in [Buckets -> Nat]

Inductive == IInv /\ PeakType /\ Balance

\* The history only watches: a step of the ledger is a step of the library.
LEMMA LedgerWatches == [LNext]_lvars => [Next]_vars
BY DEF LNext, lvars, vars, LFetchTake, LReturnAdd,
       LHandlerFill, Unrecorded, Next, CallStep, CallProgress, HandlerStep

\* The three steps that move tokens, in numbers: n is what comes or goes.
LEMMA Accounts ==
    ASSUME NEW k \in Int, NEW p \in Nat, NEW n \in Nat, k + p <= Burst
    PROVE  /\ AtLeast0(p - n) \in Nat
           /\ p <= Burst /\ k <= Burst =>
                Smaller(k + n, Burst) + AtLeast0(p - n) <= Burst
           /\ (k - n) + (p + n) <= Burst
BY ConstantFacts DEF AtLeast0, Smaller

LEMMA FillBalance ==
    ASSUME Inductive, NEW t \in Threads, LHandlerFill(t)
    PROVE  PeakType' /\ Balance'
<1> DEFINE b == job[hpos[t]]
<1>1. /\ b \in Buckets
      /\ token' = [token EXCEPT ![b] = Raised(b, Cps)]
      /\ peak' = [peak EXCEPT ![b] = AtLeast0(peak[b] - Cps)]
  BY DEF LHandlerFill, HandlerFill, ScansAt, Inductive, IInv, TypeOK
<1> HIDE DEF b
<1>2. /\ token[b] \in 0 .. Burst /\ peak[b] \in Nat
      /\ token[b] + peak[b] <= Burst
  BY <1>1 DEF Inductive, IInv, TypeOK, PeakType, Balance
<1>3. /\ AtLeast0(peak[b] - Cps) \in Nat
      /\ Raised(b, Cps) + AtLeast0(peak[b] - Cps) <= Burst
  BY <1>2, Accounts, ConstantFacts DEF Raised, Smaller
<1>4. PeakType'
  BY <1>1, <1>3 DEF Inductive, PeakType
<1>5. ASSUME NEW c \in Buckets
      PROVE  peak'[c] \in Nat /\ token'[c] + peak'[c] <= Burst
  <2>1. CASE c = b
    BY <1>1, <1>3, <2>1 DEF Inductive, IInv, TypeOK, PeakType
  <2>2. CASE c # b
    BY <1>1, <2>2 DEF Inductive, IInv, TypeOK, PeakType, Balance
  <2> QED BY <2>1, <2>2
<1> QED BY <1>4, <1>5 DEF Balance

LEMMA FetchBalance ==
    ASSUME Inductive, NEW t \in Clients, LFetchTake(t)
    PROVE  PeakType' /\ Balance'
<1> DEFINE b == on[t]
           n == Granted(b, req[t])
<1>1. /\ b \in Buckets /\ n \in Nat
      /\ token' = [token EXCEPT ![b] = token[b] - n]
      /\ peak' = [peak EXCEPT ![b] = peak[b] + n]
  <2>1. b \in Buckets /\ token[b] > 0 /\ req[t] \in Nat
    BY InCallOnBucket DEF LFetchTake, FetchTake, At, Inductive, IInv, TypeOK
  <2>2. n \in Nat
    BY <2>1, GrantedInRange, ConstantFacts DEF Inductive, IInv, TypeOK
  <2> QED BY <2>1, <2>2 DEF LFetchTake, FetchTake
<1> HIDE DEF b, n
<1>2. PeakType'
  BY <1>1 DEF Inductive, PeakType
<1>3. ASSUME NEW c \in Buckets
      PROVE  peak'[c] \in Nat /\ token'[c] + peak'[c] <= Burst
  <2>1. token'[c] + peak'[c] = token[c] + peak[c]
    BY <1>1, ConstantFacts DEF Inductive, IInv, TypeOK, PeakType
  <2> QED BY <1>2, <2>1 DEF Inductive, Balance, PeakType
<1> QED BY <1>2, <1>3 DEF Balance

LEMMA ReturnBalance ==
    ASSUME Inductive, NEW t \in Clients, LReturnAdd(t)
    PROVE  PeakType' /\ Balance'
<1> DEFINE b == on[t]
           n == req[t]
<1>1. /\ b \in Buckets /\ n \in Nat
      /\ token' = [token EXCEPT ![b] = Raised(b, n)]
      /\ peak' = [peak EXCEPT ![b] = AtLeast0(peak[b] - n)]
  BY InCallOnBucket DEF LReturnAdd, ReturnAdd, At, Inductive, IInv, TypeOK
<1> HIDE DEF b, n
<1>2. /\ token[b] \in 0 .. Burst /\ peak[b] \in Nat
      /\ token[b] + peak[b] <= Burst
  BY <1>1 DEF Inductive, IInv, TypeOK, PeakType, Balance
<1>3. /\ AtLeast0(peak[b] - n) \in Nat
      /\ Raised(b, n) + AtLeast0(peak[b] - n) <= Burst
  BY <1>1, <1>2, Accounts, ConstantFacts DEF Raised, Smaller
<1>4. PeakType'
  BY <1>1, <1>3 DEF Inductive, PeakType
<1>5. ASSUME NEW c \in Buckets
      PROVE  peak'[c] \in Nat /\ token'[c] + peak'[c] <= Burst
  <2>1. CASE c = b
    BY <1>1, <1>3, <2>1 DEF Inductive, IInv, TypeOK, PeakType
  <2>2. CASE c # b
    BY <1>1, <2>2 DEF Inductive, IInv, TypeOK, PeakType, Balance
  <2> QED BY <2>1, <2>2
<1> QED BY <1>4, <1>5 DEF Balance

\* No other step makes or loses a token.
LEMMA OtherBalance ==
    ASSUME Inductive, (Unrecorded /\ UNCHANGED peak) \/ UNCHANGED lvars
    PROVE  PeakType' /\ Balance'
<1>1. token' = token
  <2>1. CASE Unrecorded
    <3>1. ASSUME NEW t \in Clients, NEW c \in Buckets, InitCall(t, c)
          PROVE  token' = token
      BY <3>1 DEF InitCall, Inductive, IInv, TypeOK, SlotsMatch
    <3> QED BY <2>1, <3>1
       DEF Unrecorded, CallStart, FetchCall, ReturnCall, CheckCall, DestroyCall,
           InitNoMemory, InitNoThread, ExitJoin, ExitFree, ExitEnd, DestroyAgain,
           InitLock, DestroyLock, LockTable, InitPut, InitFull,
           FetchLock, ReturnLock, CheckLock, LockBucket, FetchWait,
           SpuriousWakeup, CheckRead, DestroyClear, DestroyFree,
           RaiseAlarm, Deliver, HandlerLock, HandlerSkip, HandlerUnlock
  <2>2. CASE UNCHANGED lvars
    BY <2>2 DEF lvars, vars
  <2> QED BY <2>1, <2>2
<1>2. peak' = peak
  BY DEF lvars
<1> QED BY <1>1, <1>2 DEF Inductive, PeakType, Balance

LEMMA InductiveInvariance == LSpec => []Inductive
<1>1. LInit => Inductive
  <2> SUFFICES ASSUME LInit PROVE Inductive
    OBVIOUS
  <2>1. IInv
    BY InitIInv DEF LInit
  <2>2. PeakType
    BY DEF LInit, PeakType
  <2>3. Balance
    BY ConstantFacts DEF LInit, Init, Balance
  <2> QED BY <2>1, <2>2, <2>3 DEF Inductive
<1>2. Inductive /\ [LNext]_lvars => Inductive'
  <2> SUFFICES ASSUME Inductive, [LNext]_lvars PROVE Inductive'
    OBVIOUS
  <2>1. IInv'
    BY LedgerWatches, NextPreserves DEF Inductive
  <2>2. PeakType' /\ Balance'
    BY FillBalance, FetchBalance, ReturnBalance, OtherBalance DEF LNext
  <2> QED BY <2>1, <2>2 DEF Inductive
<1> QED BY <1>1, <1>2, PTL DEF LSpec

\* In any window of time a bucket gives out at most what it can have saved and
\* what the ticks of the window brought.
THEOREM RateIsBounded == LSpec => []RateBound
<1>1. Inductive => RateBound
  <2> SUFFICES ASSUME Inductive, NEW b \in Buckets PROVE peak[b] <= Burst
    BY DEF RateBound
  <2>1. /\ token[b] + peak[b] <= Burst
        /\ token[b] \in 0 .. Burst /\ peak[b] \in Nat
    BY DEF Inductive, IInv, TypeOK, PeakType, Balance
  <2> QED BY <2>1, ConstantFacts
<1> QED BY <1>1, InductiveInvariance, PTL

=============================================================================
