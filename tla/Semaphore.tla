----------------------------- MODULE Semaphore -----------------------------
(***************************************************************************)
(* The counting semaphore of posix/semaphore/sem.c: a counter under a      *)
(* mutex and a condition variable, on which Sem_Sub waits and which        *)
(* Sem_Ret broadcasts.  Any thread may take and any thread may give back;  *)
(* nothing ties the two together.                                          *)
(***************************************************************************)
EXTENDS Integers

CONSTANTS
    Threads,    \* the callers
    Initial,    \* the argument of Sem_Init
    Amounts,    \* the arguments of Sem_Sub and Sem_Ret
    None        \* the owner of a free mutex

VARIABLES
    srcval,     \* the counter
    mut,        \* the owner of the mutex
    call,       \* call[t]: where thread t is in the library
    number      \* number[t]: the argument of its call

vars == <<srcval, mut, call, number>>

Init ==
    /\ srcval = Initial
    /\ mut = None
    /\ call = [t \in Threads |-> "out"]
    /\ number = [t \in Threads |-> 0]

Go(t, from, to) == call[t] = from /\ call' = [call EXCEPT ![t] = to]
Lock(t) == mut = None /\ mut' = t
Unlock(t) == mut = t /\ mut' = None

SubCall(t, n) ==
    /\ Go(t, "out", "subLock")
    /\ number' = [number EXCEPT ![t] = n]
    /\ UNCHANGED <<srcval, mut>>

SubLock(t) ==
    /\ Go(t, "subLock", "sub")
    /\ Lock(t)
    /\ UNCHANGED <<srcval, number>>

\* pthread_cond_wait returns when it owns the mutex again
Awake(t) ==
    /\ Go(t, "awake", "sub")
    /\ Lock(t)
    /\ UNCHANGED <<srcval, number>>

SubWait(t) ==
    /\ srcval < number[t]
    /\ Go(t, "sub", "asleep")
    /\ Unlock(t)
    /\ UNCHANGED <<srcval, number>>

\* mutant: takes what is not there
SubTakeUntested(t) ==
    /\ Go(t, "sub", "out")
    /\ srcval' = srcval - number[t]
    /\ Unlock(t)
    /\ UNCHANGED number

SubTake(t) ==
    /\ srcval >= number[t]
    /\ Go(t, "sub", "out")
    /\ srcval' = srcval - number[t]
    /\ Unlock(t)
    /\ UNCHANGED number

RetCall(t, n) ==
    /\ Go(t, "out", "retLock")
    /\ number' = [number EXCEPT ![t] = n]
    /\ UNCHANGED <<srcval, mut>>

RetLock(t) ==
    /\ Go(t, "retLock", "ret")
    /\ Lock(t)
    /\ UNCHANGED <<srcval, number>>

\* call after thread t has left the library and the threads in who are woken
Leaves(t, who) ==
    [u \in Threads |-> IF u = t THEN "out"
                       ELSE IF u \in who THEN "awake" ELSE call[u]]
Asleep == {t \in Threads : call[t] = "asleep"}

\* mutant: nobody is woken
RetAddSilent(t) ==
    /\ call[t] = "ret"
    /\ srcval' = srcval + number[t]
    /\ call' = Leaves(t, {})
    /\ Unlock(t)
    /\ UNCHANGED number

RetAdd(t) ==
    /\ call[t] = "ret"
    /\ srcval' = srcval + number[t]
    /\ call' = Leaves(t, Asleep)
    /\ Unlock(t)
    /\ UNCHANGED number

\* POSIX allows pthread_cond_wait to return at any time
SpuriousWakeup(t) ==
    /\ Go(t, "asleep", "awake")
    /\ UNCHANGED <<srcval, mut, number>>

Step(t) ==
    \/ SubLock(t) \/ Awake(t) \/ SubWait(t) \/ SubTake(t)
    \/ RetLock(t) \/ RetAdd(t)

Next ==
    \E t \in Threads :
        \/ Step(t) \/ SpuriousWakeup(t)
        \/ \E n \in Amounts : SubCall(t, n) \/ RetCall(t, n)

Spec == Init /\ [][Next]_vars

-----------------------------------------------------------------------------
Calls == {"out", "subLock", "sub", "asleep", "awake", "retLock", "ret"}
Owning == {"sub", "ret"}

\* Every variable holds values of its kind; the counter never goes below 0, so
\* that what has been taken was there, or has been given back, before.
TypeOK ==
    /\ srcval \in Nat
    /\ mut \in Threads \cup {None}
    /\ call \in [Threads -> Calls]
    /\ number \in [Threads -> Nat]

\* The mutex keeps the threads that read or write the counter apart.
OwnerIsInside ==
    \A t \in Threads : mut = t <=> call[t] \in Owning

\* No thread is asleep while the counter holds what it asked for: Sem_Ret wakes
\* all, whatever the amounts they wait for, and whoever goes back to sleep saw
\* too little since.
NoneSleepsInVain ==
    \A t \in Asleep : srcval < number[t]

IInv == TypeOK /\ OwnerIsInside /\ NoneSleepsInVain

=============================================================================
