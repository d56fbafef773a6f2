------------------------------- MODULE Buckets ------------------------------
(***************************************************************************)
(* The other four token buckets of the repository.  In posix/tokenBucket.c *)
(* and posix/other/tbf/mytbf.c a thread fills the buckets, and what is     *)
(* done under a mutex is a step here.  In signal/tokenBucket.c the handler *)
(* of SIGALRM fills them and may come between any two accesses of the only *)
(* thread.  In server/mytbf_old.c it takes mutexes.                        *)
(*                                                                         *)
(* A bucket has one caller, which asks for tokens, gives back some of what *)
(* it got, or none, and asks again.                                        *)
(***************************************************************************)
EXTENDS Integers, FiniteSets, Program

CONSTANTS
    TbBuckets,      \* the buckets of the callers
    TbSlots,        \* 0 .. MAXSIZE - 1, 0 .. MYTBF_MAX - 1
    Cps, Burst,     \* of every bucket
    MaxAsk          \* bound: the most tokens a caller asks for

ASSUME BucketsAssumption == Cps \in Nat /\ Burst \in Nat /\ MaxAsk \in Nat

TbPrograms == {"posixtb", "othertb", "signaltb", "oldtb"}
NoTb == "none"

VARIABLES
    table,      \* job: of each slot, the bucket in it or NoTb
    tb,         \* of each bucket: its token, where its caller is (at), the
                \* tokens the caller gets or got last and has not given back
                \* (got) and a copy of the token that a step of
                \* signal/tokenBucket.c has loaded (copy)
    life,       \* the library: "runs", "stuck" in its handler, "over"
    stray,      \* mytbf_old.c: job[-1] has been written
    peak        \* history: see BucketRate

bucketVars == <<table, tb, life, stray, peak>>

BucketsTypeOK ==
    /\ table \in [TbSlots -> TbBuckets \cup {NoTb}]
    /\ tb \in [TbBuckets ->
                [at : {"none", "made", "idle", "fetch", "nap", "asleep", "size",
                       "value", "less", "take", "give", "sum"},
                 token : Int, got : Int, copy : Int]]
    /\ life \in {"runs", "stuck", "over"}
    /\ stray \in BOOLEAN
    /\ peak \in [TbBuckets -> Nat]

BucketsInit ==
    /\ table = [s \in TbSlots |-> NoTb]
    /\ tb = [b \in TbBuckets |-> [at |-> "none", token |-> 0, got |-> 0, copy |-> 0]]
    /\ life = "runs"
    /\ stray = FALSE
    /\ peak = [b \in TbBuckets |-> 0]

-----------------------------------------------------------------------------
TbRuns(p) == program = p /\ life = "runs"

\* signal/tokenBucket.c has one thread: it is in one call at a time.
SignalRuns(b) ==
    /\ TbRuns("signaltb")
    /\ \A c \in TbBuckets \ {b} : tb[c].at \in {"none", "idle", "give"}

TbAt(b, here) == tb[b].at = here
AtMost(m, n) == IF m < n THEN m ELSE n
AtLeast0(n) == IF n > 0 THEN n ELSE 0

Vacant == {s \in TbSlots : table[s] = NoTb}
VacantPos == CHOOSE s \in Vacant : \A r \in Vacant : s <= r
PutIn(b) == table' = [table EXCEPT ![VacantPos] = b]
Cleared(b) == [s \in TbSlots |-> IF table[s] = b THEN NoTb ELSE table[s]]

Asked == 1 .. MaxAsk
NewTb(b) == /\ tb' = [tb EXCEPT ![b] = [at |-> "idle", token |-> 0,
                                        got |-> 0, copy |-> 0]]
            /\ peak' = [peak EXCEPT ![b] = 0]

\* Init: the bucket is complete before it is put into the table.  With no
\* slot left, or no memory, the caller goes without.
InitTb(b) ==
    /\ TbAt(b, "none") /\ Vacant # {}
    /\ PutIn(b) /\ NewTb(b)
    /\ UNCHANGED <<life, stray>>

PosixInit(b) == TbRuns("posixtb") /\ InitTb(b)
OtherInit(b) == TbRuns("othertb") /\ InitTb(b)
OldInit(b) == TbRuns("oldtb") /\ InitTb(b)

\* mytbf_old.c stores the bucket at job[pos] before it looks at pos.
OldInitFull(b) ==
    /\ TbRuns("oldtb")
    /\ TbAt(b, "none") /\ Vacant = {}
    /\ stray' = TRUE
    /\ UNCHANGED <<table, tb, life, peak>>

\* signal/tokenBucket.c puts the bucket into the table first.
SignalInitPut(b) ==
    /\ SignalRuns(b)
    /\ TbAt(b, "none") /\ Vacant # {}
    /\ PutIn(b)
    /\ tb' = [tb EXCEPT ![b].at = "made"]
    /\ UNCHANGED <<life, stray, peak>>

SignalInitSet(b) ==
    /\ SignalRuns(b)
    /\ TbAt(b, "made")
    /\ NewTb(b)
    /\ UNCHANGED <<table, life, stray>>

-----------------------------------------------------------------------------
\* Fetchtoken.  Whoever asked for tokens takes what there is.
FetchTb(b) ==
    /\ TbAt(b, "idle")
    /\ tb' = [tb EXCEPT ![b].at = "fetch", ![b].got = 0]
    /\ UNCHANGED <<table, life, stray, peak>>

TakenTb(b) ==
    /\ TbAt(b, "fetch") /\ tb[b].token > 0
    /\ \E n \in Asked :
        LET res == AtMost(tb[b].token, n)
        IN  /\ tb' = [tb EXCEPT ![b].at = "give", ![b].got = res,
                                ![b].token = @ - res]
            /\ peak' = [peak EXCEPT ![b] = @ + res]
    /\ UNCHANGED <<table, life, stray>>

\* pthread_cond_wait, until the next fill
SleepTb(b) ==
    /\ TbAt(b, "fetch") /\ tb[b].token <= 0
    /\ tb' = [tb EXCEPT ![b].at = "asleep"]
    /\ UNCHANGED <<table, life, stray, peak>>

\* In posix/tokenBucket.c an empty bucket is looked at again and again.
PosixFetch(b) == TbRuns("posixtb") /\ (FetchTb(b) \/ TakenTb(b))
OtherFetch(b) == TbRuns("othertb") /\ (FetchTb(b) \/ TakenTb(b) \/ SleepTb(b))
OldFetch(b) == TbRuns("oldtb") /\ (FetchTb(b) \/ TakenTb(b) \/ SleepTb(b))

\* In signal/tokenBucket.c the handler may come between the test and pause,
\* and between the steps of taking tokens, each of which loads the token anew:
\* it is compared with what was asked for, ...
SignalTest(b) ==
    \/ FetchTb(b)
    \/ /\ TbAt(b, "fetch")
       /\ tb' = [tb EXCEPT ![b].at = IF tb[b].token <= 0 THEN "nap" ELSE "size"]
       /\ UNCHANGED <<table, life, stray, peak>>

SignalPause(b) ==
    /\ TbAt(b, "nap")
    /\ tb' = [tb EXCEPT ![b].at = "asleep"]
    /\ UNCHANGED <<table, life, stray, peak>>

SignalSize(b) ==
    /\ TbAt(b, "size")
    /\ \E n \in Asked :
        tb' = IF tb[b].token < n
              THEN [tb EXCEPT ![b].at = "value"]
              ELSE [tb EXCEPT ![b].at = "less", ![b].got = n]
    /\ UNCHANGED <<table, life, stray, peak>>

\* ... its value is what the caller gets, which may be more than it asked for
\* by now, ...
SignalValue(b) ==
    /\ TbAt(b, "value")
    /\ tb' = [tb EXCEPT ![b].at = "less", ![b].got = tb[b].token]
    /\ UNCHANGED <<table, life, stray, peak>>

\* ... and it is loaded once more to be stored with so much less.
SignalLess(b) ==
    /\ TbAt(b, "less")
    /\ tb' = [tb EXCEPT ![b].at = "take", ![b].copy = tb[b].token]
    /\ UNCHANGED <<table, life, stray, peak>>

SignalTake(b) ==
    /\ TbAt(b, "take")
    /\ tb' = [tb EXCEPT ![b].at = "give", ![b].token = tb[b].copy - tb[b].got]
    /\ peak' = [peak EXCEPT ![b] = @ + tb[b].got]
    /\ UNCHANGED <<table, life, stray>>

SignalFetch(b) ==
    /\ SignalRuns(b)
    /\ \/ SignalTest(b) \/ SignalPause(b) \/ SignalSize(b)
       \/ SignalValue(b) \/ SignalLess(b) \/ SignalTake(b)

-----------------------------------------------------------------------------
\* What is over Burst is cut off; mytbf_old.c: if (num > tmp->limit).
Over(n, sum) == IF program = "oldtb" THEN n > Burst ELSE sum > Burst

\* Returntoken, of part of the tokens, or no call at all.
GivenTb(b) ==
    /\ TbAt(b, "give")
    /\ \E n \in 0 .. tb[b].got :
        LET sum == tb[b].token + n
        IN  /\ tb' = [tb EXCEPT ![b].at = "idle", ![b].got = @ - n,
                                ![b].token = IF Over(n, sum) THEN Burst ELSE sum]
            /\ peak' = [peak EXCEPT ![b] = AtLeast0(@ - n)]
    /\ UNCHANGED <<table, life, stray>>

PosixReturn(b) == TbRuns("posixtb") /\ GivenTb(b)
OtherReturn(b) == TbRuns("othertb") /\ GivenTb(b)
OldReturn(b) == TbRuns("oldtb") /\ GivenTb(b)

\* mutant: what was loaded is given back as well
SignalSumTwice(b) ==
    /\ TbAt(b, "give")
    /\ tb' = [tb EXCEPT ![b].at = "sum", ![b].copy = 2 * tb[b].token]
    /\ UNCHANGED <<table, life, stray, peak>>

SignalSum(b) ==
    /\ TbAt(b, "give")
    /\ tb' = [tb EXCEPT ![b].at = "sum", ![b].copy = tb[b].token]
    /\ UNCHANGED <<table, life, stray, peak>>

SignalGive(b) ==
    /\ TbAt(b, "sum")
    /\ \E n \in 0 .. tb[b].got :
        /\ tb' = [tb EXCEPT ![b].at = "idle", ![b].got = 0,
                            ![b].token = AtMost(tb[b].copy + n, Burst)]
        /\ peak' = [peak EXCEPT ![b] = AtLeast0(@ - n)]
    /\ UNCHANGED <<table, life, stray>>

SignalReturn(b) == SignalRuns(b) /\ (SignalSum(b) \/ SignalGive(b))

-----------------------------------------------------------------------------
\* Destroy: out of the table, and freed.
DestroyTb(b) ==
    /\ TbAt(b, "idle")
    /\ table' = Cleared(b)
    /\ tb' = [tb EXCEPT ![b].at = "none", ![b].got = 0, ![b].token = 0]
    /\ peak' = [peak EXCEPT ![b] = 0]
    /\ UNCHANGED <<life, stray>>

PosixDestroy(b) == TbRuns("posixtb") /\ DestroyTb(b)
OtherDestroy(b) == TbRuns("othertb") /\ DestroyTb(b)
SignalDestroy(b) == SignalRuns(b) /\ DestroyTb(b)
OldDestroy(b) == TbRuns("oldtb") /\ DestroyTb(b)

-----------------------------------------------------------------------------
InTable(b) == \E s \in TbSlots : table[s] = b

\* Each bucket of the table gets its tokens, and who sleeps is woken.
FillOf(b) ==
    IF ~InTable(b) THEN tb[b]
    ELSE [tb[b] EXCEPT
            !.token = IF TbAt(b, "made") THEN @ ELSE AtMost(@ + Cps, Burst),
            !.at = IF @ = "asleep" THEN "fetch" ELSE @]

\* mutant: who sleeps is not woken
FillSilently ==
    /\ tb' = [b \in TbBuckets |-> [FillOf(b) EXCEPT !.at = tb[b].at]]
    /\ peak' = [b \in TbBuckets |->
                    IF InTable(b) THEN AtLeast0(peak[b] - Cps) ELSE peak[b]]
    /\ UNCHANGED <<table, life, stray>>

Fill ==
    /\ tb' = [b \in TbBuckets |-> FillOf(b)]
    /\ peak' = [b \in TbBuckets |->
                    IF InTable(b) THEN AtLeast0(peak[b] - Cps) ELSE peak[b]]
    /\ UNCHANGED <<table, life, stray>>

PosixFill == TbRuns("posixtb") /\ Fill
OtherFill == TbRuns("othertb") /\ Fill
SignalFill == TbRuns("signaltb") /\ Fill
OldFill == TbRuns("oldtb") /\ Fill

\* SIGALRM comes to a thread of mytbf_old.c that owns the mutex of its bucket:
\* the handler waits for it with mut_job, for ever.
OldInterrupted(b) ==
    /\ TbRuns("oldtb")
    /\ tb[b].at \in {"fetch", "give"} /\ InTable(b)
    /\ life' = "stuck"
    /\ UNCHANGED <<table, tb, stray, peak>>

\* module_unload, when the program ends.  posix/tokenBucket.c cancels and
\* joins a thread that it was never told of: it may not come any further.
Unload(tables) ==
    /\ life' = "over"
    /\ table' \in tables
    /\ tb' = [b \in TbBuckets |-> [at |-> "none", token |-> 0,
                                   got |-> 0, copy |-> 0]]
    /\ UNCHANGED <<stray, peak>>

Emptied == [s \in TbSlots |-> NoTb]
PosixUnload == TbRuns("posixtb") /\ Unload({table, Emptied})
OtherUnload == TbRuns("othertb") /\ Unload({Emptied})
SignalUnload == TbRuns("signaltb") /\ Unload({table})   \* freed where they are
OldUnload == TbRuns("oldtb") /\ Unload({table})

Call(b) ==
    \/ PosixFetch(b) \/ PosixReturn(b)
    \/ OtherFetch(b) \/ OtherReturn(b)
    \/ SignalFetch(b) \/ SignalReturn(b)
    \/ OldFetch(b) \/ OldReturn(b)

BucketsNext ==
    \/ \E b \in TbBuckets :
        \/ PosixInit(b) \/ OtherInit(b) \/ OldInit(b) \/ OldInitFull(b)
        \/ SignalInitPut(b) \/ SignalInitSet(b)
        \/ Call(b)
        \/ PosixDestroy(b) \/ OtherDestroy(b) \/ SignalDestroy(b) \/ OldDestroy(b)
        \/ OldInterrupted(b)
    \/ PosixFill \/ OtherFill \/ SignalFill \/ OldFill
    \/ PosixUnload \/ OtherUnload \/ SignalUnload \/ OldUnload

\* The thread or timer that fills goes on, and so does a caller that may.
BucketsFairness ==
    /\ WF_bucketVars(PosixFill \/ OtherFill \/ SignalFill)
    /\ \A b \in TbBuckets :
        WF_bucketVars(/\ PosixFetch(b) \/ OtherFetch(b) \/ SignalFetch(b)
                      /\ ~TbAt(b, "idle"))

-----------------------------------------------------------------------------
\* peak is the most that a bucket has given out in a window of time that ends
\* now, less what it was given back and Cps for each fill of the window: no
\* window has more than Burst.  In signal/tokenBucket.c a fill between load and
\* store is lost, and one between the steps of Init has no effect: both err on
\* the side of giving less.  mytbf_old.c compares what it is given back, not
\* what it holds then, with its limit: it holds, and gives out, up to twice as
\* much, which the next fill cuts off.
RateBound == IF program = "oldtb" THEN 2 * Burst ELSE Burst
BucketRate == \A b \in TbBuckets : peak[b] <= RateBound

CB(b) == INSTANCE TokenBucket WITH
    Callers <- {b}, Sizes <- Asked,
    level <- tb[b].token, got <- [c \in {b} |-> tb[b].got]

Lives(b) == tb[b].at # "none"

\* A bucket of the two programs that fill by a thread does what TokenBucket
\* promises, as the one of the radio does, from its Init to its Destroy.
ByContract(b) ==
    /\ ~Lives(b) /\ Lives(b)' => CB(b)!Init'
    /\ Lives(b) /\ Lives(b)' => [CB(b)!Next]_(CB(b)!vars)
FilledByThread == program \in {"posixtb", "othertb"}
KeepsContract ==
    [][FilledByThread => \A b \in TbBuckets : ByContract(b)]_bucketVars

\* A caller gets its tokens: the fill that comes between the test and pause,
\* or that is lost to a store, is made up for by a later one.  (In
\* mytbf_old.c the handler may wait for the call that it interrupted.)
BucketServes ==
    \A b \in TbBuckets :
        (program \in {"posixtb", "othertb", "signaltb"} /\ TbAt(b, "fetch"))
            ~> (TbAt(b, "give") \/ life = "over")

=============================================================================
