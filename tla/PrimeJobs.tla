----------------------------- MODULE PrimeJobs -----------------------------
(***************************************************************************)
(* posix/semaphore/main.c: the main thread starts one thread for each      *)
(* number to test, and takes 1 from a semaphore before; the thread gives   *)
(* it back when it has tested its number, so that no more than THRDNUM     *)
(* run at once.  Then the main thread joins them all.                      *)
(***************************************************************************)
EXTENDS PrimeTest, FiniteSets

CONSTANTS
    Left, Right,    \* LEFT, RIGHT
    THRDNUM,
    Main,           \* the main thread
    None            \* the owner of a free mutex

Jobs == Left .. Right - 1       \* a thread is named by its number

ASSUME PrimeJobsAssumption ==
    /\ Left \in Nat /\ Right \in Nat /\ 5 <= Left /\ Left <= Right
    /\ THRDNUM \in Nat
    /\ Main \notin Jobs
    /\ None \notin Jobs \cup {Main}

VARIABLES
    srcval, mut, call, number,      \* the semaphore
    at,                             \* where the main thread is
    i,                              \* its loop counter
    job,                            \* job[n]: where thread n is
    found                           \* the numbers printed as primes

semVars == <<srcval, mut, call, number>>
vars == <<semVars, at, i, job, found>>

Sem == INSTANCE Semaphore WITH
    Threads <- Jobs \cup {Main}, Initial <- THRDNUM, Amounts <- {1}

Init ==
    /\ Sem!Init
    /\ at = "sub"
    /\ i = Left
    /\ job = [n \in Jobs |-> "none"]
    /\ found = {}

\* exit ends all threads
Running == at \notin {"failed", "end"}

MainSub ==
    /\ at = "sub"
    /\ i < Right
    /\ Sem!SubCall(Main, 1)
    /\ at' = "subbing"
    /\ UNCHANGED <<i, job, found>>

MainInSem ==
    /\ at = "subbing"
    /\ Sem!SubLock(Main) \/ Sem!Awake(Main) \/ Sem!SubWait(Main)
    /\ UNCHANGED <<at, i, job, found>>

MainWakes ==
    /\ at = "subbing"
    /\ Sem!SpuriousWakeup(Main)
    /\ UNCHANGED <<at, i, job, found>>

MainTakes ==
    /\ at = "subbing"
    /\ Sem!SubTake(Main)
    /\ at' = "create"
    /\ UNCHANGED <<i, job, found>>

Create ==
    /\ at = "create"
    /\ job' = [job EXCEPT ![i] = "run"]
    /\ i' = i + 1
    /\ at' = "sub"
    /\ UNCHANGED <<semVars, found>>

CreateFails ==
    /\ at = "create"
    /\ at' = "failed"
    /\ UNCHANGED <<semVars, i, job, found>>

AllCreated ==
    /\ at = "sub"
    /\ i = Right
    /\ at' = "join"
    /\ i' = Left
    /\ UNCHANGED <<semVars, job, found>>

Join ==
    /\ at = "join"
    /\ i < Right
    /\ job[i] = "done"
    /\ i' = i + 1
    /\ UNCHANGED <<semVars, at, job, found>>

End ==
    /\ at = "join"
    /\ i = Right
    /\ at' = "end"
    /\ UNCHANGED <<semVars, i, job, found>>

\* tests its number and calls Sem_Ret
Test(n) ==
    /\ Running
    /\ job[n] = "run"
    /\ found' = IF NoDivisor(n) THEN found \cup {n} ELSE found
    /\ job' = [job EXCEPT ![n] = "returning"]
    /\ Sem!RetCall(n, 1)
    /\ UNCHANGED <<at, i>>

JobLocks(n) ==
    /\ Running
    /\ job[n] = "returning"
    /\ Sem!RetLock(n)
    /\ UNCHANGED <<at, i, job, found>>

\* Sem_Ret adds and returns, and the thread ends
Finish(n) ==
    /\ Running
    /\ job[n] = "returning"
    /\ Sem!RetAdd(n)
    /\ job' = [job EXCEPT ![n] = "done"]
    /\ UNCHANGED <<at, i, found>>

MainStep ==
    \/ MainSub \/ MainInSem \/ MainTakes \/ Create \/ CreateFails
    \/ AllCreated \/ Join \/ End
JobStep(n) == Test(n) \/ JobLocks(n) \/ Finish(n)

Next == MainStep \/ MainWakes \/ \E n \in Jobs : JobStep(n)

Spec == Init /\ [][Next]_vars

-----------------------------------------------------------------------------
Places == {"sub", "subbing", "create", "join", "end", "failed"}
JobPlaces == {"none", "run", "returning", "done"}

TypeOK ==
    /\ srcval \in Nat
    /\ mut \in Jobs \cup {Main, None}
    /\ call \in [Jobs \cup {Main} -> Sem!Calls]
    /\ number \in [Jobs \cup {Main} -> {0, 1}]
    /\ at \in Places
    /\ i \in Left .. Right
    /\ job \in [Jobs -> JobPlaces]
    /\ found \subseteq Jobs

\* The threads that run, or have not added yet what they give back.
Active == {n \in Jobs : job[n] \in {"run", "returning"}}
Created == IF at \in {"create", "failed"} THEN 1 ELSE 0

\* What the semaphore holds, what running threads have and what the main thread
\* has just taken always add up: nothing is lost and nothing is given back twice.
Balance == srcval + Cardinality(Active) + Created = THRDNUM

\* No more than THRDNUM threads are active at once.
BoundedThreads == Cardinality(Active) <= THRDNUM

\* The main thread is never asleep while the semaphore has something for it.
NoneSleepsInVain == Sem!NoneSleepsInVain

\* The inductive invariant: the calls agree with where the threads are.
CallsKept ==
    /\ Sem!OwnerIsInside
    /\ call[Main] \in {"out", "subLock", "sub", "asleep", "awake"}
    /\ call[Main] = "out" <=> at # "subbing"
    /\ call[Main] # "out" => number[Main] = 1
    /\ \A n \in Jobs : call[n] \in {"out", "retLock", "ret"}
    /\ \A n \in Jobs : call[n] # "out" <=> job[n] = "returning"
    /\ \A n \in Jobs : call[n] # "out" => number[n] = 1
LoopKept ==
    /\ at \in {"sub", "subbing", "create", "failed"} =>
        \A n \in Jobs : job[n] = "none" <=> n >= i
    /\ at \in {"subbing", "create"} => i < Right
    /\ at \in {"join", "end"} => \A n \in Jobs : job[n] # "none"
    /\ at = "join" => \A n \in Jobs : n < i => job[n] = "done"
    /\ at = "end" => \A n \in Jobs : job[n] = "done"
IInv == TypeOK /\ Balance /\ CallsKept /\ LoopKept /\ NoneSleepsInVain

\* The program implements the search for primes: each number is tested once,
\* what is printed are the primes, and it ends when all have been tested.
Search == INSTANCE PrimeSearch WITH
    tested <- {n \in Jobs : job[n] \in {"returning", "done"}},
    ended <- at = "end"
ImplementsSearch == Search!Spec

\* All threads are scheduled; one that wants the mutex gets it if it becomes
\* free again and again.  Spurious wakeups come or do not.
Fairness == WF_vars(MainStep) /\ \A n \in Jobs : SF_vars(JobStep(n))
FairSpec == Spec /\ Fairness

\* The program ends: the main thread, asleep because too many threads run, is
\* woken when one is done, though a spurious wakeup may come at any time.
Finishes == <>(at \in {"end", "failed"})

=============================================================================
