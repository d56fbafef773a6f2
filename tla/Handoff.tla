------------------------------ MODULE Handoff ------------------------------
(***************************************************************************)
(* posix/ai.c: the main thread hands the numbers to test, one at a time,   *)
(* to a few threads through a single slot.  One condition variable serves  *)
(* for "the slot is full" and for "the slot is empty", and each hand-over  *)
(* signals it once.                                                        *)
(***************************************************************************)
EXTENDS PrimeTest

CONSTANTS
    Left, Right,    \* LEFT, RIGHT
    Workers,        \* tid: THRDNUM threads
    Main,           \* the main thread
    None            \* the owner of a free mutex

ASSUME HandoffAssumption ==
    /\ Left \in Nat /\ Right \in Nat /\ 5 <= Left /\ Left <= Right
    /\ Workers # {}
    /\ Main \notin Workers
    /\ None \notin Workers \cup {Main}

Threads == Workers \cup {Main}
Numbers == Left .. Right - 1

VARIABLES
    num, flag,  \* the slot n: flag is 1 when it is full, -1 when there is no more
    mut,        \* the owner of the mutex
    at,         \* at[t]: where thread t is
    i,          \* the loop counter of the main thread
    mine,       \* mine[w]: the number that w took
    tested,     \* the numbers tested
    found       \* the numbers printed as primes

vars == <<num, flag, mut, at, i, mine, tested, found>>

Init ==
    /\ num = 0 /\ flag = 0
    /\ mut = None
    /\ at = [t \in Threads |-> "lock"]
    /\ i = Left
    /\ mine = [w \in Workers |-> 0]
    /\ tested = {} /\ found = {}

Asleep == {t \in Threads : at[t] = "asleep"}

\* at after t has gone on to place and woken has been woken
Goes(t, place, woken) ==
    [u \in Threads |-> IF u = t THEN place
                       ELSE IF u \in woken THEN "awake" ELSE at[u]]

\* pthread_cond_signal wakes one of those asleep, if any
Signalled == IF Asleep = {} THEN {{}} ELSE {{u} : u \in Asleep}

\* pthread_mutex_lock, or the return from pthread_cond_wait
Lock(t) ==
    /\ at[t] \in {"lock", "awake"}
    /\ mut = None
    /\ mut' = t
    /\ at' = [at EXCEPT ![t] = "test"]
    /\ UNCHANGED <<num, flag, i, mine, tested, found>>

Wait(t) ==
    /\ at[t] = "test"
    /\ IF t = Main THEN flag # 0 ELSE flag = 0
    /\ mut' = None
    /\ at' = [at EXCEPT ![t] = "asleep"]
    /\ UNCHANGED <<num, flag, i, mine, tested, found>>

SpuriousWakeup(t) ==
    /\ at[t] = "asleep"
    /\ at' = [at EXCEPT ![t] = "awake"]
    /\ UNCHANGED <<num, flag, mut, i, mine, tested, found>>

\* mutant: does not empty the slot
TakeKeepsFull(w) ==
    /\ at[w] = "test"
    /\ flag = 1
    /\ mine' = [mine EXCEPT ![w] = num]
    /\ mut' = None
    /\ \E woken \in Signalled : at' = Goes(w, "work", woken)
    /\ UNCHANGED <<num, flag, i, tested, found>>

Take(w) ==
    /\ at[w] = "test"
    /\ flag = 1
    /\ mine' = [mine EXCEPT ![w] = num]
    /\ flag' = 0
    /\ mut' = None
    /\ \E woken \in Signalled : at' = Goes(w, "work", woken)
    /\ UNCHANGED <<num, i, tested, found>>

Work(w) ==
    /\ at[w] = "work"
    /\ tested' = tested \cup {mine[w]}
    /\ found' = IF NoDivisor(mine[w]) THEN found \cup {mine[w]} ELSE found
    /\ at' = [at EXCEPT ![w] = "lock"]
    /\ UNCHANGED <<num, flag, mut, i, mine>>

Leave(w) ==
    /\ at[w] = "test"
    /\ flag = -1
    /\ mut' = None
    /\ at' = [at EXCEPT ![w] = "gone"]
    /\ UNCHANGED <<num, flag, i, mine, tested, found>>

PutSilently ==     \* mutant: nobody is woken
    /\ at[Main] = "test"
    /\ i < Right
    /\ flag = 0
    /\ num' = i /\ flag' = 1
    /\ i' = i + 1
    /\ mut' = None
    /\ at' = [at EXCEPT ![Main] = "lock"]
    /\ UNCHANGED <<mine, tested, found>>

Put ==
    /\ at[Main] = "test"
    /\ i < Right
    /\ flag = 0
    /\ num' = i /\ flag' = 1
    /\ i' = i + 1
    /\ mut' = None
    /\ \E woken \in Signalled : at' = Goes(Main, "lock", woken)
    /\ UNCHANGED <<mine, tested, found>>

\* after the loop: the last number has been taken
Close ==
    /\ at[Main] = "test"
    /\ i = Right
    /\ flag = 0
    /\ flag' = -1
    /\ mut' = None
    /\ at' = Goes(Main, "join", Asleep)
    /\ UNCHANGED <<num, i, mine, tested, found>>

EndEarly ==     \* mutant: does not join
    /\ at[Main] = "join"
    /\ at' = [at EXCEPT ![Main] = "gone"]
    /\ UNCHANGED <<num, flag, mut, i, mine, tested, found>>

\* joins all
End ==
    /\ at[Main] = "join"
    /\ \A w \in Workers : at[w] = "gone"
    /\ at' = [at EXCEPT ![Main] = "gone"]
    /\ UNCHANGED <<num, flag, mut, i, mine, tested, found>>

Next ==
    \/ Put \/ Close \/ End
    \/ \E w \in Workers : Take(w) \/ Work(w) \/ Leave(w)
    \/ \E t \in Threads : Lock(t) \/ Wait(t) \/ SpuriousWakeup(t)

Spec == Init /\ [][Next]_vars

-----------------------------------------------------------------------------
WorkerPlaces == {"lock", "test", "asleep", "awake", "work", "gone"}
MainPlaces == {"lock", "test", "asleep", "awake", "join", "gone"}

TypeOK ==
    /\ num \in Numbers \cup {0}
    /\ flag \in {-1, 0, 1}
    /\ mut \in Threads \cup {None}
    /\ at \in [Threads -> WorkerPlaces \cup MainPlaces]
    /\ at[Main] \in MainPlaces
    /\ \A w \in Workers : at[w] \in WorkerPlaces
    /\ i \in Left .. Right
    /\ mine \in [Workers -> Numbers \cup {0}]
    /\ tested \subseteq Numbers
    /\ found \subseteq Numbers

\* Each number handed out so far is in one place: in the slot, with one thread,
\* or tested.  None is overwritten before it was taken, none is taken twice.
InSlot == IF flag = 1 THEN {num} ELSE {}
Holders == {w \in Workers : at[w] = "work"}
EachInOnePlace ==
    /\ Left .. i - 1 = InSlot \cup {mine[w] : w \in Holders} \cup tested
    /\ InSlot \cap tested = {}
    /\ \A w \in Holders : mine[w] \notin InSlot \cup tested
    /\ \A v, w \in Holders : mine[v] = mine[w] => v = w

\* A full slot is never overlooked: the signal of the main thread reaches a
\* worker, for only workers can be asleep then, and a worker that tests a full
\* slot takes it.
FullSlotSeen == flag = 1 => \E w \in Workers : at[w] \notin {"asleep", "gone"}

\* The inductive invariant: who owns the mutex tests the slot, and once it says
\* that there is no more the main thread has left its loop.
IInv ==
    /\ TypeOK
    /\ EachInOnePlace
    /\ FullSlotSeen
    /\ \A t \in Threads : mut = t <=> at[t] = "test"
    /\ flag = -1 <=> at[Main] \in {"join", "gone"}
    /\ flag = -1 => i = Right
    /\ \A w \in Workers : at[w] = "gone" => flag = -1
    /\ at[Main] = "gone" => \A w \in Workers : at[w] = "gone"

\* The program implements the search for primes: each number is tested once,
\* what is printed are the primes, and it ends only when all have been tested.
Search == INSTANCE PrimeSearch WITH ended <- at[Main] = "gone"
ImplementsSearch == Search!Spec

\* ai.c says of the signal of a thread that took a number that it "notifies the
\* main thread that it may put new data": it never happens that all wait.
SomeoneAwake == \E t \in Threads : at[t] # "asleep"

=============================================================================
