---------------------------- MODULE PrimeThreads ----------------------------
(***************************************************************************)
(* The prime finders of posix with one thread for each number and nothing  *)
(* to hold them back: compt.c passes each thread the address of the loop   *)
(* variable, compt_dmc.c and prime.c a copy in memory of its own, which    *)
(* the thread frees, or main is meant to.                                  *)
(***************************************************************************)
EXTENDS PrimeTest, Program

CONSTANTS Left, Right       \* LEFT, RIGHT

ASSUME PrimesAssumption ==
    Left \in Nat /\ Right \in Nat /\ 5 <= Left /\ Left <= Right

Numbers == Left .. Right - 1        \* a thread is named by its number
Unread == Right + 1

VARIABLES
    phase,      \* main: "create", "join", "failed" or "end"
    i,          \* the loop variable of main
    seen,       \* what each thread has read through its argument
    finished,   \* the threads that have ended
    cells,      \* what the copy made for each thread holds; Right: no copy
    printed     \* the numbers printed as primes

primeVars == <<phase, i, seen, finished, cells, printed>>

PrimesTypeOK ==
    /\ phase \in {"create", "join", "failed", "end"}
    /\ i \in Left .. Right
    /\ seen \in [Numbers -> Left .. Unread]
    /\ finished \subseteq Numbers
    /\ cells \in [Numbers -> Left .. Right]
    /\ printed \subseteq Left .. Right

PrimesInit ==
    /\ phase = "create"
    /\ i = Left
    /\ seen = [n \in Numbers |-> Unread]
    /\ finished = {}
    /\ cells = [n \in Numbers |-> Right]
    /\ printed = {}

Created(n) == n < i \/ phase \in {"join", "end"}
Going == phase \notin {"failed", "end"}     \* exit ends all threads

\* The first loop of main, which starts the threads; the thread that is started
\* here may run before i has been counted up, see ByAddress.
Create ==
    /\ phase = "create" /\ i < Right
    /\ i' = i + 1
    /\ UNCHANGED <<phase, seen, finished, printed>>

\* mutant: one copy for all threads, as of a static variable
CopiedToOne == cells' = [n \in Numbers |-> i]

Copied == cells' = [cells EXCEPT ![i] = i]

CreateFailed ==
    /\ phase = "create" /\ i < Right
    /\ phase' = "failed"
    /\ UNCHANGED <<i, seen, finished, cells, printed>>

\* The second loop, which has a loop variable of its own.
StartJoining ==
    /\ phase = "create" /\ i = Right
    /\ phase' = "join" /\ i' = Left
    /\ UNCHANGED <<seen, finished, cells, printed>>

\* prime.c frees p, which pthread_join has not set: it is NULL.
Join ==
    /\ phase = "join" /\ i < Right
    /\ i \in finished
    /\ i' = i + 1
    /\ UNCHANGED <<phase, seen, finished, cells, printed>>

JoinedAll ==
    /\ phase = "join" /\ i = Right
    /\ phase' = "end"
    /\ UNCHANGED <<i, seen, finished, cells, printed>>

Joining == StartJoining \/ Join \/ JoinedAll

ComptMain ==
    /\ program = "compt"
    /\ (Create /\ UNCHANGED cells) \/ CreateFailed \/ Joining

CopyingMain == (Create /\ Copied) \/ CreateFailed \/ Joining
ComptDmcMain == program = "compt_dmc" /\ CopyingMain
PrimeMain == program = "prime" /\ CopyingMain

-----------------------------------------------------------------------------
\* int n = *((int *)p);
Read(n, value) ==
    /\ Going /\ Created(n)
    /\ seen[n] = Unread
    /\ seen' = [seen EXCEPT ![n] = value]
    /\ UNCHANGED <<phase, i, finished, cells, printed>>

\* The test of the number and the print.
Tested(n) ==
    /\ Going
    /\ seen[n] # Unread /\ n \notin finished
    /\ printed' = printed \cup {m \in {seen[n]} : NoDivisor(m)}
    /\ finished' = finished \cup {n}
    /\ UNCHANGED <<phase, i, seen>>

\* A thread of compt.c reads the loop variable: its own number only if it runs
\* before main has counted on.  When the first loop has ended its variable is
\* gone: the thread reads what it was at last, or the variable of the second
\* loop, if that has its place.
ByAddress(n) ==
    IF phase = "join" THEN {i, Right} ELSE {i} \cup ({n} \cap {i - 1})

ComptRoutine(n) ==
    /\ program = "compt"
    /\ \/ \E value \in ByAddress(n) : Read(n, value)
       \/ Tested(n) /\ UNCHANGED cells

\* The thread frees its copy.
ComptDmcRoutine(n) ==
    /\ program = "compt_dmc"
    /\ \/ Read(n, cells[n])
       \/ Tested(n) /\ cells' = [cells EXCEPT ![n] = Right]

\* It leaves that to main.
PrimeRoutine(n) ==
    /\ program = "prime"
    /\ Read(n, cells[n]) \/ (Tested(n) /\ UNCHANGED cells)

PrimesNext ==
    \/ ComptMain \/ ComptDmcMain \/ PrimeMain
    \/ \E n \in Numbers :
        ComptRoutine(n) \/ ComptDmcRoutine(n) \/ PrimeRoutine(n)

-----------------------------------------------------------------------------
ThreadSearch == INSTANCE PrimeSearch WITH
    tested <- {seen[n] : n \in finished}, found <- printed,
    ended <- phase = "end"

\* With a copy of the number for each thread, whenever the thread comes to read
\* it, the program implements the search for primes: each number is tested once,
\* what is printed are the primes, and main ends when all threads have ended.
\* (The threads of compt.c test what the loop of main has come to.)
CopiesSearch ==
    [][program # "compt" => ThreadSearch!Next]_(ThreadSearch!vars)

\* So they print each prime of the range and nothing else.  What compt.c prints
\* are primes too, though maybe of a number twice and of another not at all.
PrintedArePrimes ==
    /\ \A m \in printed : IsPrime(m)
    /\ program # "compt" => ThreadSearch!PrimesFound

=============================================================================
