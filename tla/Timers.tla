------------------------------- MODULE Timers -------------------------------
(***************************************************************************)
(* The two libraries of timers: signal/anytimer, where the handler of      *)
(* SIGALRM counts down and runs the actions, and posix/anytimer, where one *)
(* thread counts down and another one runs them.  One thread sets timers.  *)
(*                                                                         *)
(* In posix/anytimer a timer that has rung is freed and stays in arr.  A   *)
(* cell is what malloc hands out: it may be handed out again for the next  *)
(* timer.  What a freed cell holds in the place of the time is anybody's   *)
(* guess; where it is 0 the program jumps to an address that is no         *)
(* function.  The first pthread_cond_wait of the checker unlocks a mutex   *)
(* that it does not own, from then on it owns it except while it waits.    *)
(***************************************************************************)
EXTENDS Integers, Sequences, FiniteSets, Program

CONSTANTS
    Slots,      \* 0 .. MAXSIZE - 1
    Timers,     \* 1 .. n: the timers set, in this order
    Secs,       \* the times they are set to
    MaxTokens,  \* bound: ticks that the checker may be behind
    MaxAge      \* bound: no timer grows older

ASSUME TimersAssumption ==
    /\ IsFiniteSet(Slots) /\ Slots \subseteq Nat /\ Secs \subseteq Nat
    /\ IsFiniteSet(Timers) /\ Timers = 1 .. Cardinality(Timers)

Nothing == 0        \* NULL; a cell has the number of the first timer in it

VARIABLES
    arr,        \* of each slot: the cell, or Nothing (pool in signal/anytimer)
    cell,       \* of each cell: the timer in it, its time, whether it is freed
    setting,    \* how many timers were set, and the slot found for the next
    checker,    \* posix: "top", "waiting", "scan", and where the scan is
    owns,       \* posix: the checker owns the mutex
    token,      \* posix: the ticks that it has not looked at
    age,        \* history: ticks since each timer was set, -1 before
    due,        \* history: the age at which it is to ring
    rang        \* history: at what ages each timer rang

timerVars == <<arr, cell, setting, checker, owns, token, age, due, rang>>

TimersTypeOK ==
    /\ arr \in [Slots -> Timers \cup {Nothing}]
    /\ cell \in [Timers -> [timer : Timers, time : Int, free : BOOLEAN]]
    /\ setting \in [done : 0 .. Cardinality(Timers), slot : Slots \cup {-1}]
    /\ checker \in [at : {"top", "waiting", "scan", "crashed"}, slot : Nat]
    /\ owns \in BOOLEAN
    /\ token \in 0 .. MaxTokens
    /\ age \in [Timers -> -1 .. MaxAge]
    /\ due \in [Timers -> Nat]
    /\ rang \in [Timers -> Seq(0 .. MaxAge)]

TimersInit ==
    /\ arr = [s \in Slots |-> Nothing]
    /\ cell = [c \in Timers |-> [timer |-> c, time |-> 0, free |-> TRUE]]
    /\ setting = [done |-> 0, slot |-> -1]
    /\ checker = [at |-> "top", slot |-> 0]
    /\ owns = FALSE
    /\ token = 0
    /\ age = [t \in Timers |-> -1]
    /\ due = [t \in Timers |-> 0]
    /\ rang = [t \in Timers |-> <<>>]

-----------------------------------------------------------------------------
FreeSlots == {s \in Slots : arr[s] = Nothing}
First(S) == CHOOSE s \in S : \A r \in S : s <= r
Older == [t \in Timers |-> IF age[t] >= 0 THEN age[t] + 1 ELSE age[t]]
Young == \A t \in Timers : age[t] < MaxAge
NextTimer == setting.done + 1

\* malloc: a cell that was never used, or a freed one
Allocatable == {c \in 1 .. NextTimer : cell[c].free}

Store(s, c, sec, at) ==
    /\ arr' = [arr EXCEPT ![s] = c]
    /\ cell' = [cell EXCEPT ![c] =
                    [timer |-> NextTimer, time |-> sec, free |-> FALSE]]
    /\ age' = [age EXCEPT ![NextTimer] = 0]
    /\ due' = [due EXCEPT ![NextTimer] = at]
    /\ setting' = [done |-> NextTimer, slot |-> -1]

-----------------------------------------------------------------------------
\* signal/anytimer: setTimer looks for a slot; the handler may come before
\* the timer is in it.
SignalFindPos ==
    /\ program = "signaltimer"
    /\ NextTimer \in Timers /\ setting.slot = -1
    /\ FreeSlots # {}
    /\ setting' = [setting EXCEPT !.slot = First(FreeSlots)]
    /\ UNCHANGED <<arr, cell, checker, owns, token, age, due, rang>>

SignalSetTimer ==
    /\ program = "signaltimer"
    /\ setting.slot # -1
    /\ \E c \in Allocatable, sec \in Secs :
        Store(setting.slot, c, sec, IF sec = 0 THEN 1 ELSE sec)
    /\ UNCHANGED <<checker, owns, token, rang>>

DownAlways(c) == cell[c].time - 1       \* mutant: a time of 0 counts too

Down(c) == IF cell[c].time > 0 THEN cell[c].time - 1 ELSE cell[c].time

\* alrm_handler: count down, run the actions that are due, clear their slots.
SignalAlarm ==
    LET rings == {s \in Slots : arr[s] # Nothing /\ Down(arr[s]) = 0}
        ringing == {cell[arr[s]].timer : s \in rings}
    IN  /\ program = "signaltimer"
        /\ Young
        /\ age' = Older
        /\ cell' = [c \in Timers |->
                        IF \E s \in Slots : arr[s] = c
                        THEN [cell[c] EXCEPT !.time = Down(c),
                                             !.free = Down(c) = 0]
                        ELSE cell[c]]
        /\ rang' = [t \in Timers |-> IF t \in ringing
                        THEN Append(rang[t], Older[t]) ELSE rang[t]]
        /\ arr' = [s \in Slots |-> IF s \in rings THEN Nothing ELSE arr[s]]
        /\ UNCHANGED <<setting, checker, owns, token, due>>

-----------------------------------------------------------------------------
\* posix/anytimer.
PosixRuns == program = "posixtimer" /\ checker.at # "crashed"

PosixSetTimer ==
    /\ PosixRuns
    /\ NextTimer \in Timers
    /\ FreeSlots # {}
    /\ \E c \in Allocatable, sec \in Secs :
        Store(First(FreeSlots), c, sec, sec)
    /\ UNCHANGED <<checker, owns, token, rang>>

\* tim_routine, under the mutex: each slot counts down what it points to.
PosixTick ==
    /\ PosixRuns
    /\ ~(checker.at = "scan" /\ owns)
    /\ token < MaxTokens /\ Young
    /\ cell' = [c \in Timers |-> [cell[c] EXCEPT
                    !.time = @ - Cardinality({s \in Slots : arr[s] = c})]]
    /\ token' = token + 1
    /\ age' = Older
    /\ UNCHANGED <<arr, setting, checker, owns, due, rang>>

\* checkArr: wait for a token.
CheckerWaits ==
    /\ PosixRuns
    /\ checker.at = "top" /\ token = 0
    /\ checker' = [at |-> "waiting", slot |-> 0]
    /\ owns' = FALSE
    /\ UNCHANGED <<arr, cell, setting, token, age, due, rang>>

CheckerStarts ==
    /\ PosixRuns
    /\ checker.at \in {"top", "waiting"} /\ token > 0
    /\ checker' = [at |-> "scan", slot |-> 0]
    /\ owns' = (owns \/ checker.at = "waiting")
    /\ UNCHANGED <<arr, cell, setting, token, age, due, rang>>

Scanned == [checker EXCEPT !.slot = @ + 1]

CheckerPasses ==
    /\ PosixRuns
    /\ checker.at = "scan" /\ checker.slot \in Slots
    /\ LET c == arr[checker.slot]
       IN  c # Nothing => cell[c].free \/ cell[c].time # 0
    /\ checker' = Scanned
    /\ UNCHANGED <<arr, cell, setting, owns, token, age, due, rang>>

\* The time of a timer is 0: its action runs, and it is freed.
CheckerRings ==
    /\ PosixRuns
    /\ checker.at = "scan" /\ checker.slot \in Slots
    /\ LET c == arr[checker.slot]
           t == cell[c].timer
       IN  /\ c # Nothing
           /\ ~cell[c].free /\ cell[c].time = 0
           /\ rang' = [rang EXCEPT ![t] = Append(@, age[t])]
           /\ cell' = [cell EXCEPT ![c].free = TRUE]
    /\ checker' = Scanned
    /\ UNCHANGED <<arr, setting, owns, token, age, due>>

\* A freed cell in a slot happens to hold 0.
CheckerCrashes ==
    /\ PosixRuns
    /\ checker.at = "scan" /\ checker.slot \in Slots
    /\ arr[checker.slot] # Nothing /\ cell[arr[checker.slot]].free
    /\ checker' = [at |-> "crashed", slot |-> 0]
    /\ UNCHANGED <<arr, cell, setting, owns, token, age, due, rang>>

CheckerEnds ==
    /\ PosixRuns
    /\ checker.at = "scan" /\ checker.slot \notin Slots
    /\ checker' = [at |-> "top", slot |-> 0]
    /\ token' = token - 1
    /\ UNCHANGED <<arr, cell, setting, owns, age, due, rang>>

TimersNext ==
    \/ SignalFindPos \/ SignalSetTimer \/ SignalAlarm
    \/ PosixSetTimer \/ PosixTick
    \/ CheckerWaits \/ CheckerStarts \/ CheckerPasses \/ CheckerRings
    \/ CheckerCrashes \/ CheckerEnds

-----------------------------------------------------------------------------
\* Two slots hold one cell, for a freed one was handed out again.
Shared == \E s, r \in Slots : s # r /\ arr[s] = arr[r] /\ arr[s] # Nothing

\* A timer rings once, when as many ticks have passed as it was set to, and
\* not at another time.  In signal/anytimer it always does, though the handler
\* may come between any two steps of setTimer and slots are used again.  In
\* posix/anytimer this holds as long as no freed cell is handed out again; a
\* timer may not ring at all there, when two ticks pass between two scans.
RingsOnTime ==
    \A t \in Timers :
        /\ program = "signaltimer" =>
            rang[t] = IF age[t] >= due[t]
                      THEN <<due[t]>> ELSE <<>>
        /\ program = "posixtimer" /\ ~Shared => rang[t] \in {<<>>, <<due[t]>>}

=============================================================================
