-------------------------- MODULE SemaphoreProofs --------------------------
(***************************************************************************)
(* Proof that the semaphore of posix/semaphore/sem.c loses no wakeup,      *)
(* whatever threads call it with whatever amounts: nothing is asked of who *)
(* takes and who gives back.                                               *)
(***************************************************************************)
EXTENDS Semaphore, TLAPS

\* What the callers must keep to: a semaphore of at least 0, no negative
\* amount.
Arguments ==
    /\ Initial \in Nat
    /\ Amounts \subseteq Nat
    /\ None \notin Threads

LEMMA InitHolds == Arguments /\ Init => IInv
BY DEF Arguments, Init, IInv, TypeOK, OwnerIsInside, NoneSleepsInVain, Calls,
       Owning, Asleep

\* The mutex and what the caller is doing change together.
LEMMA GoHolds ==
    ASSUME TypeOK, OwnerIsInside, None \notin Threads, NEW t \in Threads,
           NEW from \in Calls, NEW to \in Calls, Go(t, from, to),
           \/ Lock(t) /\ to \in Owning
           \/ Unlock(t) /\ to \notin Owning
           \/ mut' = mut /\ (from \in Owning <=> to \in Owning)
    PROVE  /\ mut' \in Threads \cup {None}
           /\ call' \in [Threads -> Calls]
           /\ OwnerIsInside'
<1>1. call' \in [Threads -> Calls]
  BY DEF TypeOK, Go
<1>2. /\ call'[t] = to
      /\ \A u \in Threads \ {t} : call'[u] = call[u]
  BY DEF TypeOK, Go
<1>3. mut' \in Threads \cup {None}
  BY DEF TypeOK, Lock, Unlock
<1>4. OwnerIsInside'
  BY <1>2 DEF TypeOK, OwnerIsInside, Go, Lock, Unlock
<1> QED BY <1>1, <1>3, <1>4

\* A call starts: its thread is not asleep, the counter is as it was.
LEMMA CallHolds ==
    ASSUME IInv, Arguments, NEW t \in Threads, NEW n \in Amounts,
           SubCall(t, n) \/ RetCall(t, n)
    PROVE  IInv'
<1>1. PICK to \in {"subLock", "retLock"} : Go(t, "out", to)
  BY DEF SubCall, RetCall
<1>2. /\ number' = [number EXCEPT ![t] = n]
      /\ srcval' = srcval /\ mut' = mut
  BY DEF SubCall, RetCall
<1>3. /\ mut' \in Threads \cup {None}
      /\ call' \in [Threads -> Calls]
      /\ OwnerIsInside'
  BY <1>1, <1>2, GoHolds DEF IInv, Arguments, Calls, Owning
<1>4. n \in Nat
  BY DEF Arguments
<1>5. TypeOK'
  BY <1>2, <1>3, <1>4 DEF IInv, TypeOK
<1>6. ASSUME NEW u \in Threads, call'[u] = "asleep"
      PROVE  srcval' < number'[u]
  <2>1. u # t /\ call[u] = "asleep"
    BY <1>1, <1>6 DEF IInv, TypeOK, Go
  <2> QED BY <1>2, <2>1 DEF IInv, TypeOK, NoneSleepsInVain, Asleep
<1> QED BY <1>3, <1>5, <1>6 DEF IInv, NoneSleepsInVain, Asleep

\* The steps that move a thread and leave the counter: one that goes to sleep
\* has read it under the mutex.
LEMMA MoveHolds ==
    ASSUME IInv, None \notin Threads, NEW t \in Threads,
           \/ SubLock(t) \/ Awake(t) \/ SubWait(t) \/ RetLock(t)
           \/ SpuriousWakeup(t)
    PROVE  IInv'
<1>1. PICK from \in Calls, to \in Calls :
        /\ Go(t, from, to)
        /\ \/ Lock(t) /\ to \in Owning
           \/ Unlock(t) /\ to \notin Owning
           \/ mut' = mut /\ (from \in Owning <=> to \in Owning)
        /\ to = "asleep" => srcval < number[t]
  BY DEF SubLock, Awake, SubWait, RetLock, SpuriousWakeup, Calls, Owning
<1>2. number' = number /\ srcval' = srcval
  BY DEF SubLock, Awake, SubWait, RetLock, SpuriousWakeup
<1>3. /\ mut' \in Threads \cup {None}
      /\ call' \in [Threads -> Calls]
      /\ OwnerIsInside'
  BY <1>1, GoHolds DEF IInv
<1>4. TypeOK'
  BY <1>2, <1>3 DEF IInv, TypeOK
<1>5. ASSUME NEW u \in Threads, call'[u] = "asleep"
      PROVE  srcval < number[u]
  BY <1>1, <1>5 DEF IInv, TypeOK, Go, NoneSleepsInVain, Asleep
<1> QED BY <1>2, <1>3, <1>4, <1>5 DEF IInv, NoneSleepsInVain, Asleep

\* A thread takes: the counter falls, so whoever sleeps does so with reason.
LEMMA TakeHolds ==
    ASSUME IInv, None \notin Threads, NEW t \in Threads, SubTake(t)
    PROVE  IInv'
<1>1. /\ mut' \in Threads \cup {None}
      /\ call' \in [Threads -> Calls]
      /\ OwnerIsInside'
  BY GoHolds DEF IInv, SubTake, Calls, Owning
<1>2. PICK v \in Nat, n \in Nat : v = srcval /\ n = number[t]
  BY DEF IInv, TypeOK
<1>3. n <= v /\ srcval' = v - n /\ number' = number
  BY <1>2 DEF SubTake
<1>4. srcval' \in Nat /\ srcval' <= v
  BY <1>2, <1>3
<1>5. TypeOK'
  BY <1>1, <1>3, <1>4 DEF IInv, TypeOK
<1>6. ASSUME NEW u \in Threads, call'[u] = "asleep"
      PROVE  srcval' < number'[u]
  <2>1. call[u] = "asleep"
    BY <1>6 DEF IInv, TypeOK, SubTake, Go
  <2>2. PICK m \in Nat : m = number[u]
    BY DEF IInv, TypeOK
  <2>3. v < m
    BY <1>2, <2>1, <2>2 DEF IInv, NoneSleepsInVain, Asleep
  <2>4. srcval' < m
    BY <1>2, <1>4, <2>2, <2>3
  <2> QED BY <1>3, <2>2, <2>4
<1> QED BY <1>1, <1>5, <1>6 DEF IInv, NoneSleepsInVain, Asleep

\* A thread gives back and leaves nobody asleep.
LEMMA AddHolds ==
    ASSUME IInv, None \notin Threads, NEW t \in Threads, RetAdd(t)
    PROVE  IInv'
<1>1. /\ call[t] = "ret" /\ mut = t /\ mut' = None
      /\ srcval' = srcval + number[t] /\ number' = number
      /\ call' = Leaves(t, Asleep)
  BY DEF RetAdd, Unlock
<1>2. \A u \in Threads :
        call'[u] = IF u = t THEN "out"
                   ELSE IF call[u] = "asleep" THEN "awake" ELSE call[u]
  BY <1>1 DEF Leaves, Asleep
<1>3. call' \in [Threads -> Calls]
  BY <1>1 DEF IInv, TypeOK, Leaves, Calls
<1>4. TypeOK'
  BY <1>1, <1>3 DEF IInv, TypeOK
<1>5. OwnerIsInside'
  BY <1>1, <1>2 DEF IInv, OwnerIsInside, Owning
<1>6. NoneSleepsInVain'
  BY <1>2 DEF NoneSleepsInVain, Asleep
<1> QED BY <1>4, <1>5, <1>6 DEF IInv

LEMMA StepHolds == Arguments /\ IInv /\ [Next]_vars => IInv'
<1> SUFFICES ASSUME Arguments, IInv, [Next]_vars PROVE IInv'
  OBVIOUS
<1>1. None \notin Threads
  BY DEF Arguments
<1>2. CASE Next
  BY <1>1, <1>2, CallHolds, MoveHolds, TakeHolds, AddHolds DEF Next, Step
<1>3. CASE UNCHANGED vars
  BY <1>3 DEF vars, IInv, TypeOK, OwnerIsInside, NoneSleepsInVain, Asleep
<1> QED BY <1>2, <1>3

\* The counter never goes below 0, and the mutex keeps its readers and writers
\* apart.
THEOREM Invariance == ASSUME Arguments PROVE Spec => []IInv
BY InitHolds, StepHolds, PTL DEF Spec

\* No caller of Sem_Sub sleeps while there is what it asked for.
THEOREM NoWakeupLost == ASSUME Arguments PROVE Spec => []NoneSleepsInVain
<1>1. IInv => NoneSleepsInVain
  BY DEF IInv
<1> QED BY <1>1, Invariance, PTL

=============================================================================
