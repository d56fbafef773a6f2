------------------------------- MODULE Letters ------------------------------
(***************************************************************************)
(* Threads of posix that write one letter each, in turn: interview.c with  *)
(* a number that says whose turn it is, under a mutex; abcd_lhq.c with a   *)
(* mutex for each thread, which the thread before it unlocks.  alarm(5)    *)
(* kills the program at any moment, which cuts a behaviour short and adds  *)
(* none.                                                                   *)
(***************************************************************************)
EXTENDS Naturals, Program

CONSTANT thrd_num

ASSUME LettersAssumption == thrd_num \in Nat \ {0}

Threads == 0 .. thrd_num - 1
next(n) == (n + 1) % thrd_num

VARIABLES
    status,     \* interview.c: the turn
    made,       \* how many threads main has created
    locked,     \* abcd_lhq.c: the mutexes that are locked
    writing,    \* abcd_lhq.c: the threads that have their mutex
    last,       \* history: who wrote the last letter, thrd_num before any
    pen         \* history: another with each letter

letterVars == <<status, made, locked, writing, last, pen>>

LettersTypeOK ==
    /\ status \in 0 .. thrd_num
    /\ made \in 0 .. thrd_num
    /\ locked \subseteq Threads
    /\ writing \subseteq Threads
    /\ last \in 0 .. thrd_num
    /\ pen \in BOOLEAN

LettersInit ==
    /\ status = 0
    /\ made = 0
    /\ locked = {}
    /\ writing = {}
    /\ last = thrd_num
    /\ pen = FALSE

\* write
Writes(t) == last' = t /\ pen' = ~pen

\* main of interview.c: the threads run as soon as they are created.
InterviewCreate ==
    /\ program = "interview"
    /\ made < thrd_num
    /\ made' = made + 1
    /\ UNCHANGED <<status, locked, writing, last, pen>>

\* routine: nothing but this is done under the mutex.
InterviewRoutine(t) ==
    /\ program = "interview"
    /\ t < made
    /\ \/ status % thrd_num = t /\ Writes(t) /\ status' = t + 1
       \/ /\ status % thrd_num # t
          /\ status' = status % thrd_num
          /\ UNCHANGED <<last, pen>>
    /\ UNCHANGED <<made, locked, writing>>

-----------------------------------------------------------------------------
\* main of abcd_lhq.c: each mutex is locked before its thread is created, so
\* that none starts; the first one is unlocked when all threads are there.
LhqCreate ==
    /\ program = "abcd_lhq"
    /\ made < thrd_num
    /\ made' = made + 1
    /\ locked' = (locked \cup {made}) \
                 (IF made' = thrd_num THEN {0} ELSE {})
    /\ UNCHANGED <<status, writing, last, pen>>

LhqLock(t) ==
    /\ program = "abcd_lhq"
    /\ t < made
    /\ t \notin locked \cup writing
    /\ locked' = locked \cup {t}
    /\ writing' = writing \cup {t}
    /\ UNCHANGED <<status, made, last, pen>>

\* mutant: the thread gives its own mutex back
LhqWriteKeepsTurn(t) ==
    /\ program = "abcd_lhq"
    /\ t \in writing
    /\ Writes(t)
    /\ writing' = writing \ {t}
    /\ locked' = locked \ {t}
    /\ UNCHANGED <<status, made>>

LhqWrite(t) ==
    /\ program = "abcd_lhq"
    /\ t \in writing
    /\ Writes(t)
    /\ writing' = writing \ {t}
    /\ locked' = locked \ {next(t)}
    /\ UNCHANGED <<status, made>>

LettersNext ==
    \/ InterviewCreate \/ LhqCreate
    \/ \E t \in Threads : InterviewRoutine(t) \/ LhqLock(t) \/ LhqWrite(t)

-----------------------------------------------------------------------------
\* The letters come out as a, b, c, d, a and so on: no thread writes twice in
\* a row, none is left out, whichever thread the scheduler prefers and though
\* each thread unlocks a mutex that another one has locked.
InTurn ==
    [][ \E t \in Threads :
            last' = t /\ t = (IF last = thrd_num THEN 0 ELSE next(last))
      ]_<<last, pen>>

=============================================================================
