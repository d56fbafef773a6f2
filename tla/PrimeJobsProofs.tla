-------------------------- MODULE PrimeJobsProofs --------------------------
(***************************************************************************)
(* Proofs about PrimeJobs: the semaphore bounds the threads, and the       *)
(* program implements PrimeSearch.                                         *)
(***************************************************************************)
EXTENDS PrimeJobs, FiniteSetTheorems

LEMMA ConstantFacts ==
    /\ Left \in Nat /\ Right \in Nat /\ 5 <= Left /\ Left <= Right
    /\ THRDNUM \in Nat
    /\ Main \notin Jobs /\ None \notin Jobs /\ None # Main
    /\ \A n \in Jobs : n \in Nat /\ n >= 5
BY PrimeJobsAssumption DEF Jobs

LEMMA ActiveFinite ==
    /\ IsFiniteSet(Active)
    /\ Cardinality(Active) \in Nat
<1>1. IsFiniteSet(Jobs)
  BY FS_Interval, ConstantFacts DEF Jobs
<1>2. IsFiniteSet(Active)
  BY <1>1, FS_Subset DEF Active
<1> QED BY <1>2, FS_CardinalityType

LEMMA InitIInv == Init => IInv
<1> SUFFICES ASSUME Init PROVE IInv
  OBVIOUS
<1> USE DEF Init, Sem!Init
<1>1. TypeOK
  BY ConstantFacts DEF TypeOK, Sem!Calls, Places, JobPlaces
<1>2. Active = {}
  BY DEF Active
<1>3. Balance
  BY <1>2, FS_EmptySet, ConstantFacts DEF Balance, Created
<1>4. CallsKept
  BY ConstantFacts DEF CallsKept, Sem!OwnerIsInside, Sem!Owning
<1>5. LoopKept
  BY ConstantFacts DEF LoopKept, Jobs
<1>6. NoneSleepsInVain
  BY DEF NoneSleepsInVain, Sem!NoneSleepsInVain, Sem!Asleep
<1> QED BY <1>1, <1>3, <1>4, <1>5, <1>6 DEF IInv

-----------------------------------------------------------------------------
\* Steps of the main thread in the semaphore that take nothing.
LEMMA MainInSemPreserves ==
    ASSUME IInv, MainSub \/ MainInSem \/ MainWakes PROVE IInv'
<1> USE ConstantFacts DEF MainSub, MainInSem, MainWakes, Sem!SubCall, Sem!SubLock, Sem!Awake,
        Sem!SubWait, Sem!SpuriousWakeup, Sem!Go, Sem!Lock, Sem!Unlock
<1>1. /\ UNCHANGED <<srcval, i, job, found>>
      /\ at \in {"sub", "subbing"} /\ at' = "subbing" /\ i < Right
      /\ \A n \in Jobs : call'[n] = call[n] /\ number'[n] = number[n]
  BY DEF IInv, TypeOK, CallsKept, LoopKept
<1>2. /\ call' \in [Jobs \cup {Main} -> Sem!Calls]
      /\ call'[Main] \in {"subLock", "sub", "asleep", "awake"}
  BY DEF IInv, TypeOK, Sem!Calls
<1>3. /\ number' \in [Jobs \cup {Main} -> {0, 1}]
      /\ number'[Main] = 1
  BY DEF IInv, TypeOK, CallsKept
<1>4. TypeOK'
  BY <1>1, <1>2, <1>3 DEF IInv, TypeOK, Places
<1>5. Balance'
  BY <1>1 DEF IInv, Balance, Active, Created
<1>6. Sem!OwnerIsInside'
  BY <1>1 DEF IInv, TypeOK, CallsKept, Sem!OwnerIsInside, Sem!Owning
<1>7. CallsKept'
  BY <1>1, <1>2, <1>3, <1>6 DEF IInv, CallsKept
<1>8. LoopKept'
  BY <1>1 DEF IInv, LoopKept
<1>9. NoneSleepsInVain'
  <2>1. call'[Main] = "asleep" => srcval < number[Main] \/ call[Main] = "asleep"
    BY DEF IInv, TypeOK, CallsKept
  <2>2. call[Main] = "asleep" => srcval < number[Main] /\ number'[Main] = number[Main]
    BY DEF IInv, TypeOK, NoneSleepsInVain, Sem!NoneSleepsInVain, Sem!Asleep
  <2>3. \A n \in Jobs : call'[n] # "asleep"
    BY <1>1 DEF IInv, CallsKept
  <2>4. call'[Main] = "asleep" => number'[Main] = number[Main]
    BY DEF IInv, TypeOK
  <2> QED BY <1>1, <2>1, <2>2, <2>3, <2>4
          DEF NoneSleepsInVain, Sem!NoneSleepsInVain, Sem!Asleep
<1> QED BY <1>4, <1>5, <1>7, <1>8, <1>9 DEF IInv

LEMMA MainTakesPreserves ==
    ASSUME IInv, MainTakes PROVE IInv'
<1> USE ConstantFacts DEF MainTakes, Sem!SubTake, Sem!Go, Sem!Unlock
<1>1. /\ at = "subbing" /\ at' = "create" /\ i < Right
      /\ srcval \in Nat /\ srcval >= 1 /\ srcval' = srcval - 1
      /\ mut = Main /\ mut' = None
      /\ call[Main] = "sub" /\ call'[Main] = "out"
      /\ \A n \in Jobs : call'[n] = call[n]
      /\ UNCHANGED <<number, i, job, found>>
  BY DEF IInv, TypeOK, CallsKept, LoopKept
<1>2. TypeOK'
  BY <1>1 DEF IInv, TypeOK, Places, Sem!Calls
<1>3. Balance'
  BY <1>1, ActiveFinite DEF IInv, Balance, Active, Created
<1>4. CallsKept'
  BY <1>1 DEF IInv, TypeOK, CallsKept, Sem!OwnerIsInside, Sem!Owning
<1>5. LoopKept'
  BY <1>1 DEF IInv, LoopKept
<1>6. NoneSleepsInVain'
  BY <1>1 DEF IInv, CallsKept, NoneSleepsInVain, Sem!NoneSleepsInVain, Sem!Asleep
<1> QED BY <1>2, <1>3, <1>4, <1>5, <1>6 DEF IInv

\* Steps of the main thread outside the semaphore that start no thread.
LEMMA MainAlonePreserves ==
    ASSUME IInv, CreateFails \/ AllCreated \/ Join \/ End PROVE IInv'
<1> USE ConstantFacts DEF CreateFails, AllCreated, Join, End, semVars
<1>1. TypeOK'
  BY DEF IInv, TypeOK, Places
<1>2. Balance'
  BY DEF IInv, Balance, Active, Created
<1>3. CallsKept'
  BY DEF IInv, CallsKept, Sem!OwnerIsInside
<1>4. LoopKept'
  <2>1. CASE CreateFails
    BY <2>1 DEF IInv, LoopKept
  <2>2. CASE AllCreated
    <3>1. \A n \in Jobs : n < Right /\ ~(n < Left)
      BY DEF Jobs
    <3> QED BY <2>2, <3>1 DEF IInv, LoopKept
  <2>3. CASE Join
    <3>1. i \in Nat /\ \A n \in Jobs : n < i + 1 => n < i \/ n = i
      BY DEF IInv, TypeOK
    <3> QED BY <2>3, <3>1 DEF IInv, LoopKept
  <2>4. CASE End
    <3>1. \A n \in Jobs : n < Right
      BY DEF Jobs
    <3> QED BY <2>4, <3>1 DEF IInv, LoopKept
  <2> QED BY <2>1, <2>2, <2>3, <2>4
<1>5. NoneSleepsInVain'
  BY DEF IInv, NoneSleepsInVain, Sem!NoneSleepsInVain, Sem!Asleep
<1> QED BY <1>1, <1>2, <1>3, <1>4, <1>5 DEF IInv

LEMMA CreatePreserves ==
    ASSUME IInv, Create PROVE IInv'
<1> USE ConstantFacts DEF Create, semVars
<1>1. /\ at = "create" /\ at' = "sub" /\ i \in Jobs /\ i' = i + 1
      /\ job[i] = "none" /\ job' = [job EXCEPT ![i] = "run"]
      /\ UNCHANGED <<srcval, mut, call, number, found>>
  BY DEF IInv, TypeOK, LoopKept, Jobs
<1>2. TypeOK'
  BY <1>1 DEF IInv, TypeOK, Places, JobPlaces, Jobs
<1>3. Balance'
  <2>1. Active' = Active \cup {i} /\ i \notin Active
    BY <1>1 DEF IInv, TypeOK, Active
  <2>2. Cardinality(Active') = Cardinality(Active) + 1
    BY <2>1, ActiveFinite, FS_AddElement
  <2> QED BY <1>1, <2>2, ActiveFinite DEF IInv, TypeOK, Balance, Created
<1>4. CallsKept'
  BY <1>1 DEF IInv, TypeOK, CallsKept, Sem!OwnerIsInside
<1>5. LoopKept'
  BY <1>1 DEF IInv, TypeOK, LoopKept
<1>6. NoneSleepsInVain'
  BY <1>1 DEF IInv, NoneSleepsInVain, Sem!NoneSleepsInVain, Sem!Asleep
<1> QED BY <1>2, <1>3, <1>4, <1>5, <1>6 DEF IInv

-----------------------------------------------------------------------------
\* Steps of a thread that add nothing to the semaphore.
LEMMA TestPreserves ==
    ASSUME IInv, NEW n \in Jobs, Test(n) \/ JobLocks(n) PROVE IInv'
<1> USE ConstantFacts DEF Test, JobLocks, Running, Sem!RetCall, Sem!RetLock, Sem!Go, Sem!Lock
<1>1. /\ job[n] \in {"run", "returning"} /\ job'[n] = "returning"
      /\ \A m \in Jobs : m # n => job'[m] = job[m] /\ call'[m] = call[m] /\ number'[m] = number[m]
      /\ call'[Main] = call[Main] /\ number'[Main] = number[Main]
      /\ call'[n] \in {"retLock", "ret"} /\ number'[n] = 1
      /\ UNCHANGED <<srcval, at, i>>
  BY DEF IInv, TypeOK, CallsKept
<1>2. TypeOK'
  BY <1>1 DEF IInv, TypeOK, JobPlaces, Sem!Calls
<1>3. Balance'
  <2>1. Active' = Active
    BY <1>1 DEF Active
  <2> QED BY <1>1, <2>1 DEF IInv, Balance, Created
<1>4. Sem!OwnerIsInside'
  BY <1>1 DEF IInv, TypeOK, CallsKept, Sem!OwnerIsInside, Sem!Owning
<1>5. CallsKept'
  BY <1>1, <1>4 DEF IInv, CallsKept
<1>6. LoopKept'
  BY <1>1 DEF IInv, LoopKept, Running
<1>7. NoneSleepsInVain'
  BY <1>1 DEF IInv, CallsKept, NoneSleepsInVain, Sem!NoneSleepsInVain, Sem!Asleep
<1> QED BY <1>2, <1>3, <1>5, <1>6, <1>7 DEF IInv

LEMMA FinishPreserves ==
    ASSUME IInv, NEW n \in Jobs, Finish(n) PROVE IInv'
<1> USE ConstantFacts DEF Finish, Running, Sem!RetAdd, Sem!Unlock, Sem!Leaves
<1>1. /\ job[n] = "returning" /\ job' = [job EXCEPT ![n] = "done"]
      /\ call[n] = "ret" /\ number[n] = 1
      /\ srcval \in Nat /\ srcval' = srcval + 1
      /\ mut = n /\ mut' = None
      /\ UNCHANGED <<number, at, i, found>>
  BY DEF IInv, TypeOK, CallsKept
<1>2. /\ call' = [u \in Jobs \cup {Main} |->
                    IF u = n THEN "out" ELSE IF u \in Sem!Asleep THEN "awake" ELSE call[u]]
      /\ call'[n] = "out"
      /\ call'[Main] = IF call[Main] = "asleep" THEN "awake" ELSE call[Main]
      /\ \A m \in Jobs : m # n => call'[m] = call[m]
  BY DEF Sem!Asleep, IInv, CallsKept
<1>3. TypeOK'
  <2>1. \A u \in Jobs \cup {Main} : call'[u] \in Sem!Calls
    BY <1>2 DEF IInv, TypeOK, Sem!Calls
  <2> QED BY <1>1, <1>2, <2>1 DEF IInv, TypeOK, JobPlaces
<1>4. Balance'
  <2>1. Active' = Active \ {n} /\ n \in Active
    BY <1>1 DEF IInv, TypeOK, Active
  <2>2. Cardinality(Active') = Cardinality(Active) - 1
    BY <2>1, ActiveFinite, FS_RemoveElement
  <2> QED BY <1>1, <2>2, ActiveFinite DEF IInv, TypeOK, Balance, Created
<1>5. Sem!OwnerIsInside'
  BY <1>1, <1>2 DEF IInv, TypeOK, CallsKept, Sem!OwnerIsInside, Sem!Owning
<1>6. CallsKept'
  BY <1>1, <1>2, <1>5 DEF IInv, TypeOK, CallsKept
<1>7. LoopKept'
  BY <1>1 DEF IInv, TypeOK, LoopKept
<1>8. NoneSleepsInVain'
  BY <1>2 DEF IInv, CallsKept, NoneSleepsInVain, Sem!NoneSleepsInVain, Sem!Asleep
<1> QED BY <1>3, <1>4, <1>6, <1>7, <1>8 DEF IInv

-----------------------------------------------------------------------------
\* The inductive invariant.
THEOREM Invariance == Spec => []IInv
<1>1. IInv /\ [Next]_vars => IInv'
  <2> SUFFICES ASSUME IInv, [Next]_vars PROVE IInv'
    OBVIOUS
  <2>1. CASE UNCHANGED vars
    <3>1. TypeOK' /\ Balance' /\ CallsKept'
      BY <2>1 DEF vars, semVars, IInv, TypeOK, Balance, Active, Created,
                  CallsKept, Sem!OwnerIsInside
    <3>2. LoopKept' /\ NoneSleepsInVain'
      BY <2>1 DEF vars, semVars, IInv, LoopKept, NoneSleepsInVain,
                  Sem!NoneSleepsInVain, Sem!Asleep
    <3> QED BY <3>1, <3>2 DEF IInv
  <2>2. CASE MainStep
    BY <2>2, MainInSemPreserves, MainTakesPreserves, MainAlonePreserves,
       CreatePreserves DEF MainStep
  <2>3. ASSUME NEW n \in Jobs, JobStep(n) PROVE IInv'
    BY <2>3, TestPreserves, FinishPreserves DEF JobStep
  <2> QED BY <2>1, <2>2, <2>3, MainInSemPreserves DEF Next
<1> QED BY <1>1, InitIInv, PTL DEF Spec

\* What is in the semaphore, with the threads and with the main thread always
\* adds up.
THEOREM NothingLost == Spec => []Balance
<1>1. IInv => Balance
  BY DEF IInv
<1> QED BY <1>1, Invariance, PTL

\* The semaphore bounds the threads that are active at once.
THEOREM ThreadsAreBounded == Spec => []BoundedThreads
<1>1. IInv => BoundedThreads
  BY ActiveFinite, ConstantFacts DEF IInv, TypeOK, Balance, Created, BoundedThreads
<1> QED BY <1>1, Invariance, PTL

\* The main thread does not sleep while it could take.
THEOREM NoLostWakeup == Spec => []NoneSleepsInVain
<1>1. IInv => NoneSleepsInVain
  BY DEF IInv
<1> QED BY <1>1, Invariance, PTL

\* main.c calls the semaphore only as sem.c allows, one call of a thread after
\* the other: what is proved of the semaphore for any callers holds in it.
THEOREM SemaphoreIsUsed == Spec => Sem!Spec
<1>1. Init => Sem!Init
  BY DEF Init
<1>2. [Next]_vars => [Sem!Next]_(Sem!vars)
  <2> SUFFICES ASSUME [Next]_vars PROVE [Sem!Next]_(Sem!vars)
    OBVIOUS
  <2>1. CASE MainSub
    BY <2>1 DEF MainSub, Sem!Next
  <2>2. CASE MainInSem \/ MainTakes \/ MainWakes
    BY <2>2 DEF MainInSem, MainTakes, MainWakes, Sem!Next, Sem!Step
  <2>3. ASSUME NEW n \in Jobs, JobStep(n) PROVE Sem!Next
    BY <2>3 DEF JobStep, Test, JobLocks, Finish, Sem!Next, Sem!Step
  <2>4. CASE Create \/ CreateFails \/ AllCreated \/ Join \/ End \/ UNCHANGED vars
    BY <2>4 DEF Create, CreateFails, AllCreated, Join, End, vars, semVars, Sem!vars
  <2> QED BY <2>1, <2>2, <2>3, <2>4 DEF Next, MainStep
<1> QED BY <1>1, <1>2, PTL DEF Spec, Sem!Spec

\* main.c tests each number once, prints the primes, and ends when it has tested
\* all.
THEOREM Implementation == Spec => ImplementsSearch
<1>1. Init => Search!Init
  BY DEF Init, Search!Init
<1>2. IInv /\ [Next]_vars => [Search!Next]_(Search!vars)
  <2> SUFFICES ASSUME IInv, [Next]_vars PROVE [Search!Next]_(Search!vars)
    OBVIOUS
  <2> USE DEF Search!vars
  <2>1. ASSUME NEW n \in Jobs, Test(n) PROVE Search!Test(n) /\ n \in Search!Numbers
    <3>1. NoDivisor(n) <=> Search!IsPrime(n)
      BY TestIsRight, ConstantFacts DEF IsPrime, Search!IsPrime
    <3>2. at' = at /\ job[n] = "run" /\ job' = [job EXCEPT ![n] = "returning"]
      BY <2>1 DEF Test
    <3>3. {m \in Jobs : job'[m] \in {"returning", "done"}} =
            {m \in Jobs : job[m] \in {"returning", "done"}} \cup {n}
      BY <3>2 DEF IInv, TypeOK
    <3> QED BY <2>1, <3>1, <3>2, <3>3 DEF Test, Search!Test, Search!Numbers, Jobs
  <2>2. CASE End
    <3>1. \A n \in Jobs : job[n] = "done"
      <4>1. \A n \in Jobs : n < Right
        BY ConstantFacts DEF Jobs
      <4> QED BY <2>2, <4>1 DEF End, IInv, LoopKept
    <3>2. {n \in Jobs : job[n] \in {"returning", "done"}} = Search!Numbers
      BY <3>1 DEF Search!Numbers, Jobs
    <3> QED BY <2>2, <3>2 DEF End, Search!End, Search!Next
  <2>3. ASSUME NEW n \in Jobs, JobLocks(n) \/ Finish(n) PROVE UNCHANGED Search!vars
    BY <2>3 DEF JobLocks, Finish, IInv, TypeOK
  <2>4. CASE Create
    BY <2>4 DEF Create, IInv, TypeOK, LoopKept, Jobs
  <2>5. CASE MainSub \/ MainInSem \/ MainWakes \/ MainTakes \/ CreateFails \/ AllCreated \/ Join
    BY <2>5 DEF MainSub, MainInSem, MainWakes, MainTakes, CreateFails, AllCreated, Join
  <2>6. CASE UNCHANGED vars
    BY <2>6 DEF vars
  <2> QED BY <2>1, <2>2, <2>3, <2>4, <2>5, <2>6
          DEF Next, MainStep, JobStep, Search!Next
<1> QED BY <1>1, <1>2, Invariance, PTL DEF Spec, ImplementsSearch, Search!Spec

\* When semaphore/main.c ends it has printed the primes of its range, all of
\* them and nothing else: the search that it implements ends no other way.
THEOREM PrintsThePrimes == Spec => []Search!PrimesFound
<1>1. Search!Init => Search!PrimesFound
  BY DEF Search!Init, Search!PrimesFound
<1>2. Search!PrimesFound /\ [Search!Next]_(Search!vars) => Search!PrimesFound'
  <2> SUFFICES ASSUME Search!PrimesFound, [Search!Next]_(Search!vars)
               PROVE  Search!PrimesFound'
    OBVIOUS
  <2>1. ASSUME NEW n \in Search!Numbers, Search!Test(n) PROVE Search!PrimesFound'
    BY <2>1 DEF Search!Test, Search!PrimesFound
  <2>2. CASE Search!End
    BY <2>2 DEF Search!End, Search!PrimesFound
  <2>3. CASE UNCHANGED Search!vars
    BY <2>3 DEF Search!vars, Search!PrimesFound
  <2> QED BY <2>1, <2>2, <2>3 DEF Search!Next
<1> QED BY <1>1, <1>2, Implementation, PTL DEF ImplementsSearch, Search!Spec

=============================================================================
