------------------------------ MODULE CopyLoops -----------------------------
(***************************************************************************)
(* The programs that copy a file to a terminal: signal/mycat.c and         *)
(* signal/AIgeCat.c as fast as they can, signal/leaky_bucket.c one buffer  *)
(* for each SIGALRM, and the tests of the token buckets, posix/main.c,     *)
(* posix/other/tbf/main.c and server/mytbftest.c, as many bytes as they    *)
(* have tokens.  The bucket is the one that its library promises, which    *)
(* TokenBucket states and Buckets and Mytbf are about.                     *)
(***************************************************************************)
EXTENDS Integers, Program

CONSTANTS
    FileLen,        \* bytes in the file
    Buffer,         \* BUFSIZE, SIZE, BUFFERSIZE
    Rate, Limit,    \* CPS and BURST of the bucket
    MaxTicks        \* bound: ticks

ASSUME CopiesAssumption ==
    FileLen \in Nat /\ Buffer \in Nat /\ Rate \in Nat /\ Limit \in Nat

Cats == {"mycat", "AIgeCat"}
Bucketed == {"posixcopy", "othercopy", "tbftest"}
Copies == Cats \cup Bucketed \cup {"leaky"}

VARIABLES
    where,      \* "open", "pace", "read", "return", "write", "over"
    io,         \* off: position in the file; len: bytes left to write;
                \* out: bytes written; failed: a call has failed
    size,       \* what read may read
    level,      \* the bucket; leaky_bucket.c: flag
    ticks,      \* history: SIGALRMs so far
    net         \* history: tokens fetched less tokens given back, until a
                \* read fails

copyVars == <<where, io, size, level, ticks, net>>

CopiesTypeOK ==
    /\ where \in {"open", "pace", "read", "return", "write", "over"}
    /\ io \in [off : 0 .. FileLen, len : 0 .. FileLen, out : 0 .. FileLen,
               failed : BOOLEAN]
    /\ size \in 0 .. Buffer
    /\ level \in 0 .. Limit
    /\ ticks \in 0 .. MaxTicks
    /\ net \in 0 .. FileLen + Limit * (1 + FileLen)

CopiesInit ==
    /\ where = "open"
    /\ io = [off |-> 0, len |-> 0, out |-> 0, failed |-> FALSE]
    /\ size = 0
    /\ level = 0
    /\ ticks = 0
    /\ net = 0

Least(m, n) == IF m < n THEN m ELSE n

Goto(there) == where' = there

Fail(there) == Goto(there) /\ io' = [io EXCEPT !.failed = TRUE]

-----------------------------------------------------------------------------
\* open, which is tried again when a signal has interrupted it; before or after
\* it the bucket is made.
Open(flag) ==
    /\ where = "open"
    /\ \/ Fail("over") /\ UNCHANGED level
       \/ Goto("pace") /\ level' = flag /\ UNCHANGED io
    /\ UNCHANGED <<size, ticks, net>>

Ticked(refilled) ==
    /\ where \notin {"open", "over"}
    /\ ticks < MaxTicks
    /\ ticks' = ticks + 1
    /\ level' = refilled
    /\ UNCHANGED <<where, io, size, net>>

\* Alrm_Handler of leaky_bucket.c: flag is 0 again.
LeakyTick == program = "leaky" /\ Ticked(0)

\* The thread or handler of the library refills the bucket.
BucketTick == program \in Bucketed /\ Ticked(Least(level + Rate, Limit))

\* What limits the next read: nothing, the flag, or the tokens fetched.
CatPace ==
    /\ where = "pace"
    /\ Goto("read")
    /\ size' = Buffer
    /\ UNCHANGED <<io, level, ticks, net>>

\* mutant: flag is not set again
LeakyPaceOnce ==
    /\ where = "pace" /\ level = 0
    /\ Goto("read")
    /\ size' = Buffer
    /\ UNCHANGED <<io, level, ticks, net>>

LeakyPace ==
    /\ where = "pace" /\ level = 0
    /\ Goto("read")
    /\ size' = Buffer
    /\ level' = 1
    /\ UNCHANGED <<io, ticks, net>>

Fetched(most) ==
    /\ level > 0
    /\ level' = level - Least(level, most)
    /\ net' = IF io.failed THEN net ELSE net + Least(level, most)

BucketPace ==
    /\ where = "pace"
    /\ Fetched(Buffer)
    /\ size' = Least(level, Buffer)
    /\ Goto("read")
    /\ UNCHANGED <<io, ticks>>

-----------------------------------------------------------------------------
\* read returns some bytes of the file; where they go next.  A program with a
\* bucket has to do with the tokens that are too many first.
CopyRead ==
    /\ where = "read"
    /\ \E n \in 1 .. size :
        /\ io.off + n <= FileLen
        /\ io' = [io EXCEPT !.off = @ + n, !.len = n]
        /\ Goto(IF program \in Bucketed /\ n < size THEN "return" ELSE "write")
    /\ UNCHANGED <<size, level, ticks, net>>

\* read was interrupted: again from the top of the loop, which costs
\* leaky_bucket.c a tick.  (posix/main.c reads again at once.  Nothing
\* interrupts the other two.)
Interrupted ==
    /\ where = "read"
    /\ Goto("pace")
    /\ UNCHANGED <<io, size, level, ticks, net>>

\* The end of the file: the tokens fetched for it are lost.
Eof ==
    /\ where = "read"
    /\ io.off = FileLen
    /\ Goto("over")
    /\ UNCHANGED <<io, size, level, ticks, net>>

ReadFails ==
    /\ where = "read"
    /\ Fail("over")
    /\ UNCHANGED <<size, level, ticks, net>>

\* posix/main.c and other/tbf/main.c give all tokens back and one more, for
\* len is -1, and go on with the loop.
BucketReadFails ==
    /\ where = "read"
    /\ Fail("pace")
    /\ level' = Least(level + size + 1, Limit)
    /\ UNCHANGED <<size, ticks, net>>

\* Fewer bytes than tokens: the rest is given back.
GiveRestBack ==
    /\ where = "return"
    /\ Goto("write")
    /\ level' = Least(level + size - io.len, Limit)
    /\ net' = IF io.failed THEN net ELSE net - (size - io.len)
    /\ UNCHANGED <<io, size, ticks>>

\* mytbftest.c fetches as many once more instead.
FetchRestAgain ==
    /\ where = "return"
    /\ Fetched(size - io.len)
    /\ Goto("write")
    /\ UNCHANGED <<io, size, ticks>>

\* mutant: pos goes on as if all had been written
CopyWriteAll ==
    /\ where = "write"
    /\ \E n \in 1 .. io.len :
        /\ io' = [io EXCEPT !.len = 0, !.out = @ + n]
        /\ Goto("pace")
    /\ UNCHANGED <<size, level, ticks, net>>

\* The loop around write: the rest is written until there is none.
CopyWrite ==
    /\ where = "write"
    /\ \E n \in 1 .. io.len :
        /\ io' = [io EXCEPT !.len = @ - n, !.out = @ + n]
        /\ Goto(IF n = io.len THEN "pace" ELSE "write")
    /\ UNCHANGED <<size, level, ticks, net>>

WriteFails ==
    /\ where = "write"
    /\ Fail("over")
    /\ UNCHANGED <<size, level, ticks, net>>

Copying == CopyRead \/ Eof \/ CopyWrite \/ WriteFails

-----------------------------------------------------------------------------
\* main of each program.  leaky_bucket.c has to wait for its first tick.
CatLoop == Open(0) \/ CatPace \/ Copying \/ Interrupted \/ ReadFails
MycatMain == program = "mycat" /\ CatLoop
AIgeCatMain == program = "AIgeCat" /\ CatLoop

LeakyMain ==
    /\ program = "leaky"
    /\ Open(1) \/ LeakyPace \/ Copying \/ Interrupted \/ ReadFails

BucketLoop ==
    Open(0) \/ BucketPace \/ Copying \/ BucketReadFails \/ GiveRestBack
PosixCopyMain == program = "posixcopy" /\ BucketLoop
OtherCopyMain == program = "othercopy" /\ BucketLoop

TbfTestMain ==
    /\ program = "tbftest"
    /\ Open(0) \/ BucketPace \/ Copying \/ ReadFails \/ FetchRestAgain

CopiesNext ==
    \/ LeakyTick \/ BucketTick
    \/ MycatMain \/ AIgeCatMain \/ LeakyMain
    \/ PosixCopyMain \/ OtherCopyMain \/ TbfTestMain

-----------------------------------------------------------------------------
\* However reads and writes are cut short, what is out is a prefix of the file
\* and what is not out yet is in the buffer; a program that ends without a
\* failure has copied all of it.
CopiesWhole ==
    /\ io.out + io.len = io.off
    /\ where = "over" /\ ~io.failed => io.out = FileLen

\* The copy is paced: leaky_bucket.c reads one buffer for each tick, the tests
\* of the buckets no more than the tokens they keep.  (A read that fails gives
\* a token away that nobody has.)
Paced ==
    /\ program = "leaky" => io.off <= Buffer * ticks
    /\ program \in Bucketed /\ ~io.failed /\ where # "return" => io.off <= net

=============================================================================
