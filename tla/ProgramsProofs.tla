--------------------------- MODULE ProgramsProofs ---------------------------
(***************************************************************************)
(* What the small programs keep to for every value of the constants: any   *)
(* number of threads, clients and buckets, files and buffers of any size.  *)
(***************************************************************************)
EXTENDS MCPrograms, FiniteSetTheorems, SequenceTheorems,
        WellFoundedInduction, NaturalsInduction, TLAPS

\* A step of one program is a step or a stutter of each module.
LEMMA StepOfEach ==
    ASSUME [Next]_MCvars
    PROVE  /\ program' = program
           /\ [RelayNext]_relayVars /\ [LettersNext]_letterVars
           /\ [PrimesNext]_primeVars /\ [CounterNext]_counterVars
           /\ [TimersNext]_timerVars /\ [CopiesNext]_copyVars /\ [BucketsNext]_bucketVars
           /\ [QueuesNext]_queueVars /\ [ListNext]_listVars
           /\ [ExitNext]_exitVars /\ [TimeNext]_timeVars
<1>1. CASE UNCHANGED MCvars
  BY <1>1 DEF MCvars
<1>2. CASE RelayStep
  BY <1>2 DEF RelayStep
<1>3. CASE LettersStep
  BY <1>3 DEF LettersStep
<1>4. CASE PrimesStep
  BY <1>4 DEF PrimesStep
<1>5. CASE CounterStep
  BY <1>5 DEF CounterStep
<1>6. CASE TimersStep
  BY <1>6 DEF TimersStep
<1>7. CASE CopiesStep
  BY <1>7 DEF CopiesStep
<1>8. CASE BucketsStep
  BY <1>8 DEF BucketsStep
<1>9. CASE QueuesStep
  BY <1>9 DEF QueuesStep
<1>10. CASE ListStep
  BY <1>10 DEF ListStep
<1>11. CASE ExitStep
  BY <1>11 DEF ExitStep
<1>12. CASE TimeStep
  BY <1>12 DEF TimeStep
<1> QED BY <1>1, <1>2, <1>3, <1>4, <1>5, <1>6, <1>7, <1>8, <1>9, <1>10, <1>11,
           <1>12 DEF Next

-----------------------------------------------------------------------------
\* The copy loops.  What is in the buffer is what was read and is not out yet;
\* a read that is under way has been paid for.
IoType ==
    [off : Nat, len : Nat, out : Nat, failed : BOOLEAN]

CopyTypes ==
    /\ where \in {"open", "pace", "read", "return", "write", "over"}
    /\ io \in IoType
    /\ size \in Nat /\ level \in Nat /\ ticks \in Nat /\ net \in Nat

BufferHolds ==
    /\ io.out + io.len = io.off
    /\ where \in {"open", "pace", "read"} => io.len = 0
    /\ where = "over" /\ ~io.failed => io.len = 0 /\ io.off = FileLen

LeakyDebt ==
    (IF where = "read" THEN size ELSE 0) + (IF level = 0 THEN Buffer ELSE 0)

Allowance ==
    /\ where = "open" => io.off = 0
    /\ where = "return" => io.len <= size
    /\ program = "leaky" =>
        /\ where = "open" => level = 0 /\ ticks = 0
        /\ where \notin {"open", "over"} =>
                io.off + LeakyDebt <= Buffer * ticks
        /\ io.off <= Buffer * ticks
    /\ program \in Bucketed /\ ~io.failed =>
        /\ where = "read" => io.off + size <= net
        /\ where = "return" => io.off + (size - io.len) <= net
        /\ io.off <= net

CopiesInv == CopyTypes /\ BufferHolds /\ Allowance

LEMMA CopiesInitInv == CopiesInit => CopiesInv
  BY CopiesAssumption
  DEF CopiesInit, CopiesInv, CopyTypes, BufferHolds, Allowance, IoType, LeakyDebt


\* Leaving a read or a write, or failing, owes nothing.
LEMMA CopiesStepInv ==
    ASSUME CopiesInv, [CopiesNext]_copyVars, program' = program
    PROVE  CopiesInv'
<1> USE CopiesAssumption
<1> USE DEF CopiesInv, CopyTypes, BufferHolds, Allowance, LeakyDebt, IoType,
        Goto, Fail, Bucketed, Least
<1>1. CASE UNCHANGED copyVars
  BY <1>1 DEF copyVars
<1>2. CASE LeakyTick
  <2>1. ticks' = ticks + 1 /\ level' = 0 /\ UNCHANGED <<where, io, size, net>>
    BY <1>2 DEF LeakyTick, Ticked
  <2>2. Buffer * ticks' = Buffer * ticks + Buffer
    BY <2>1
  <2>3. LeakyDebt' <= LeakyDebt + Buffer
    BY <2>1
  <2>4. where \notin {"open", "over"} /\ program = "leaky"
    BY <1>2 DEF LeakyTick, Ticked
  <2>5. io'.off + LeakyDebt' <= Buffer * ticks'
    <3>1. io.off + LeakyDebt <= Buffer * ticks
      BY <2>4
    <3>2. io.off \in Nat /\ LeakyDebt \in Nat /\ LeakyDebt' \in Nat
          /\ Buffer * ticks \in Nat
      BY <2>1
    <3> HIDE DEF LeakyDebt
    <3> QED BY <3>1, <3>2, <2>1, <2>2, <2>3
  <2> QED BY <2>1, <2>4, <2>5
<1>3. CASE BucketTick
  BY <1>3 DEF BucketTick, Ticked
<1>4. ASSUME NEW flag \in {0, 1}, Open(flag), program = "leaky" => flag = 1
      PROVE  CopiesInv'
  <2>1. /\ where = "open" /\ UNCHANGED <<size, ticks, net>>
        /\ \/ /\ where' = "over" /\ UNCHANGED level
              /\ io' = [io EXCEPT !.failed = TRUE]
           \/ where' = "pace" /\ level' = flag /\ UNCHANGED io
    BY <1>4 DEF Open
  <2>2. /\ io' \in IoType
        /\ io'.off = io.off /\ io'.len = io.len /\ io'.out = io.out
        /\ io'.failed = TRUE \/ io' = io
    BY <2>1
  <2>3. CASE program = "leaky"
    <3>1. Buffer * ticks' = 0 /\ io'.off = 0 /\ program \notin Bucketed
      BY <2>1, <2>2, <2>3
    <3>2. where' = "pace" => LeakyDebt' = 0
      BY <1>4, <2>1, <2>3
    <3>3. CopyTypes' /\ BufferHolds'
      BY <2>1, <2>2
    <3>4. Allowance'
      <4>1. where' = "pace" => io'.off + LeakyDebt' <= Buffer * ticks'
        BY <3>1, <3>2
      <4> HIDE DEF LeakyDebt
      <4> QED BY <2>1, <3>1, <4>1
    <3> QED BY <3>3, <3>4
  <2>4. CASE program # "leaky"
    BY <1>4, <2>1, <2>2, <2>4
  <2> QED BY <2>3, <2>4
<1>5. CASE program \in Cats /\ CatPace
  BY <1>5 DEF CatPace, Cats
<1>6. CASE program = "leaky" /\ LeakyPace
  BY <1>6 DEF LeakyPace
<1>7. CASE program \in Bucketed /\ BucketPace
  BY <1>7 DEF BucketPace, Fetched
<1>8. CASE CopyRead
  <2>1. PICK n \in 1 .. size :
            /\ where = "read" /\ io.off + n <= FileLen
            /\ io' = [io EXCEPT !.off = @ + n, !.len = n]
            /\ where' = IF program \in Bucketed /\ n < size
                        THEN "return" ELSE "write"
            /\ UNCHANGED <<size, level, ticks, net>>
    BY <1>8 DEF CopyRead
  <2>2. /\ io' \in IoType
        /\ io'.off = io.off + n /\ io'.len = n /\ io'.out = io.out
        /\ io'.failed = io.failed
    <3>1. io.off + n \in Nat /\ n \in Nat
      BY <2>1
    <3>2. io \in IoType
      OBVIOUS
    <3> HIDE DEF CopiesInv
    <3> QED BY <2>1, <3>1, <3>2
  <2>3. CopyTypes' /\ BufferHolds'
    BY <2>1, <2>2
  <2>4. CASE program = "leaky"
    <3>1. LeakyDebt' + size = LeakyDebt
      BY <2>1, <2>4
    <3> QED BY <2>1, <2>2, <2>3, <2>4, <3>1
  <2>5. CASE program \in Bucketed
    BY <2>1, <2>2, <2>3, <2>5
  <2> QED BY <2>1, <2>2, <2>3, <2>4, <2>5
<1>9. CASE Eof
  BY <1>9 DEF Eof
<1>10. CASE CopyWrite
  <2>1. PICK n \in 1 .. io.len :
            /\ where = "write"
            /\ io' = [io EXCEPT !.len = @ - n, !.out = @ + n]
            /\ where' = IF n = io.len THEN "pace" ELSE "write"
            /\ UNCHANGED <<size, level, ticks, net>>
    BY <1>10 DEF CopyWrite
  <2>2. /\ io' \in IoType
        /\ io'.off = io.off /\ io'.len = io.len - n /\ io'.out = io.out + n
        /\ io'.failed = io.failed
    <3>1. io.out + n \in Nat /\ io.len - n \in Nat
      BY <2>1
    <3>2. io \in IoType
      OBVIOUS
    <3> HIDE DEF CopiesInv
    <3> QED BY <2>1, <3>1, <3>2
  <2> QED BY <2>1, <2>2
<1>11. CASE WriteFails
  BY <1>11 DEF WriteFails
<1>12. CASE program \notin Bucketed /\ Interrupted
  BY <1>12 DEF Interrupted
<1>13. CASE ReadFails
  <2>1. /\ io' \in IoType
        /\ io'.off = io.off /\ io'.len = io.len /\ io'.out = io.out
        /\ io'.failed = TRUE
    BY <1>13 DEF ReadFails
  <2> QED BY <1>13, <2>1 DEF ReadFails
<1>14. CASE program \in Bucketed /\ BucketReadFails
  <2>1. /\ io' \in IoType
        /\ io'.off = io.off /\ io'.len = io.len /\ io'.out = io.out
        /\ io'.failed = TRUE
    BY <1>14 DEF BucketReadFails
  <2> QED BY <1>14, <2>1 DEF BucketReadFails
<1>15. CASE program \in Bucketed /\ GiveRestBack
  BY <1>15 DEF GiveRestBack
<1>16. CASE program \in Bucketed /\ FetchRestAgain
  BY <1>16 DEF FetchRestAgain, Fetched
<1> HIDE DEF CopiesInv
<1>17. CASE MycatMain \/ AIgeCatMain
  BY <1>4, <1>5, <1>8, <1>9, <1>10, <1>11, <1>12, <1>13, <1>17
  DEF MycatMain, AIgeCatMain, CatLoop, Copying, Cats
<1>18. CASE LeakyMain
  BY <1>4, <1>6, <1>8, <1>9, <1>10, <1>11, <1>12, <1>13, <1>18
  DEF LeakyMain, Copying
<1>19. CASE PosixCopyMain \/ OtherCopyMain
  BY <1>4, <1>7, <1>8, <1>9, <1>10, <1>11, <1>14, <1>15, <1>19
  DEF PosixCopyMain, OtherCopyMain, BucketLoop, Copying
<1>20. CASE TbfTestMain
  BY <1>4, <1>7, <1>8, <1>9, <1>10, <1>11, <1>13, <1>16, <1>20
  DEF TbfTestMain, Copying
<1> QED BY <1>1, <1>2, <1>3, <1>17, <1>18, <1>19, <1>20 DEF CopiesNext

\* However calls are cut short or interrupted, the file comes out once and in
\* order, and all of it when nothing fails.
THEOREM CopiedWhole == Spec => []CopiesWhole
<1>1. Init => CopiesInv
  BY CopiesInitInv DEF Init
<1>2. CopiesInv /\ [Next]_MCvars => CopiesInv'
  BY StepOfEach, CopiesStepInv
<1>3. CopiesInv => CopiesWhole
  BY DEF CopiesInv, CopyTypes, BufferHolds, CopiesWhole, IoType
<1> QED BY <1>1, <1>2, <1>3, PTL DEF Spec

\* A copy gets no further than its ticks or its tokens allow.
THEOREM CopiesArePaced == Spec => []Paced
<1>1. Init => CopiesInv
  BY CopiesInitInv DEF Init
<1>2. CopiesInv /\ [Next]_MCvars => CopiesInv'
  BY StepOfEach, CopiesStepInv
<1>3. CopiesInv => Paced
  BY CopiesAssumption
  DEF CopiesInv, CopyTypes, Allowance, LeakyDebt, Paced, IoType
<1> QED BY <1>1, <1>2, <1>3, PTL DEF Spec

-----------------------------------------------------------------------------
\* The token buckets.  What a bucket holds and what it has given out in any
\* window come to no more than its bound together; while a step of
\* signal/tokenBucket.c is between its load and its store, what it has loaded
\* stands for the token.  What a caller is about to take is there, and what it
\* may give back finds room in the bound, or the bucket below Burst.
TbStates == {"none", "made", "idle", "fetch", "nap", "asleep", "size", "value",
             "less", "take", "give", "sum"}
TbRecords == [at : TbStates, token : Int, got : Int, copy : Int]

Loaded == {"take", "sum"}
Within(lim, a, t, g, c, p) ==
    /\ t >= 0 /\ g >= 0 /\ c >= 0 /\ g <= lim
    /\ IF a \in Loaded THEN c + p <= lim ELSE t + p <= lim
    /\ a = "less" => lim = Burst /\ g <= t
    /\ a = "take" => g <= c
    /\ a = "give" => t + g <= lim \/ t <= Burst
Balanced(lim, r, p) == Within(lim, r.at, r.token, r.got, r.copy, p)

BucketsInv ==
    /\ tb \in [TbBuckets -> TbRecords]
    /\ peak \in [TbBuckets -> Nat]
    /\ \A b \in TbBuckets : Balanced(RateBound, tb[b], peak[b])

LEMMA BoundSame ==
    ASSUME program' = program
    PROVE  RateBound' = RateBound /\ RateBound \in Nat /\ Burst <= RateBound
  BY BucketsAssumption DEF RateBound

LEMMA BucketsInitInv == BucketsInit => BucketsInv
  BY BucketsAssumption
  DEF BucketsInit, BucketsInv, TbRecords, TbStates, Balanced, Within, Loaded,
      RateBound

\* A step changes one bucket.
LEMMA OneBucket ==
    ASSUME BucketsInv, program' = program,
           NEW b \in TbBuckets, NEW r \in TbRecords, NEW p \in Nat,
           tb' = [tb EXCEPT ![b] = r], peak' = [peak EXCEPT ![b] = p],
           Balanced(RateBound, r, p)
    PROVE  BucketsInv'
  BY BoundSame DEF BucketsInv

LEMMA TbFields ==
    ASSUME NEW r \in TbRecords
    PROVE  /\ r = [at |-> r.at, token |-> r.token, got |-> r.got, copy |-> r.copy]
           /\ r.at \in TbStates /\ r.token \in Int /\ r.got \in Int
           /\ r.copy \in Int
  BY DEF TbRecords

\* A bucket after a step that sets some of its fields
LEMMA TbWithAt ==
    ASSUME BucketsInv, program' = program, NEW b \in TbBuckets,
           NEW a \in TbStates, NEW p \in Nat,
           tb' = [tb EXCEPT ![b].at = a],
           peak' = [peak EXCEPT ![b] = p],
           Within(RateBound, a, tb[b].token, tb[b].got, tb[b].copy, p)
    PROVE  BucketsInv'
<1> DEFINE q == [tb[b] EXCEPT !.at = a]
<1>1. tb \in [TbBuckets -> TbRecords]
  BY DEF BucketsInv
<1>2. tb' = [tb EXCEPT ![b] = q]
  BY <1>1
<1>3. tb[b] \in TbRecords
  BY <1>1
<1>4. q \in TbRecords /\ q.at = a /\ q.token = tb[b].token /\ q.got = tb[b].got /\ q.copy = tb[b].copy
  BY <1>3 DEF TbRecords
<1> HIDE DEF q
<1> QED BY <1>2, <1>4, OneBucket DEF Balanced

LEMMA TbWithGot ==
    ASSUME BucketsInv, program' = program, NEW b \in TbBuckets,
           NEW a \in TbStates, NEW g \in Int, NEW p \in Nat,
           tb' = [tb EXCEPT ![b].at = a, ![b].got = g],
           peak' = [peak EXCEPT ![b] = p],
           Within(RateBound, a, tb[b].token, g, tb[b].copy, p)
    PROVE  BucketsInv'
<1> DEFINE q == [tb[b] EXCEPT !.at = a, !.got = g]
<1>1. tb \in [TbBuckets -> TbRecords]
  BY DEF BucketsInv
<1>2. tb' = [tb EXCEPT ![b] = q]
  BY <1>1
<1>3. tb[b] \in TbRecords
  BY <1>1
<1>4. q \in TbRecords /\ q.at = a /\ q.token = tb[b].token /\ q.got = g /\ q.copy = tb[b].copy
  BY <1>3 DEF TbRecords
<1> HIDE DEF q
<1> QED BY <1>2, <1>4, OneBucket DEF Balanced

LEMMA TbWithCopy ==
    ASSUME BucketsInv, program' = program, NEW b \in TbBuckets,
           NEW a \in TbStates, NEW c \in Int, NEW p \in Nat,
           tb' = [tb EXCEPT ![b].at = a, ![b].copy = c],
           peak' = [peak EXCEPT ![b] = p],
           Within(RateBound, a, tb[b].token, tb[b].got, c, p)
    PROVE  BucketsInv'
<1> DEFINE q == [tb[b] EXCEPT !.at = a, !.copy = c]
<1>1. tb \in [TbBuckets -> TbRecords]
  BY DEF BucketsInv
<1>2. tb' = [tb EXCEPT ![b] = q]
  BY <1>1
<1>3. tb[b] \in TbRecords
  BY <1>1
<1>4. q \in TbRecords /\ q.at = a /\ q.token = tb[b].token /\ q.got = tb[b].got /\ q.copy = c
  BY <1>3 DEF TbRecords
<1> HIDE DEF q
<1> QED BY <1>2, <1>4, OneBucket DEF Balanced

LEMMA TbWithToken ==
    ASSUME BucketsInv, program' = program, NEW b \in TbBuckets,
           NEW a \in TbStates, NEW t \in Int, NEW p \in Nat,
           tb' = [tb EXCEPT ![b].at = a, ![b].token = t],
           peak' = [peak EXCEPT ![b] = p],
           Within(RateBound, a, t, tb[b].got, tb[b].copy, p)
    PROVE  BucketsInv'
<1> DEFINE q == [tb[b] EXCEPT !.at = a, !.token = t]
<1>1. tb \in [TbBuckets -> TbRecords]
  BY DEF BucketsInv
<1>2. tb' = [tb EXCEPT ![b] = q]
  BY <1>1
<1>3. tb[b] \in TbRecords
  BY <1>1
<1>4. q \in TbRecords /\ q.at = a /\ q.token = t /\ q.got = tb[b].got /\ q.copy = tb[b].copy
  BY <1>3 DEF TbRecords
<1> HIDE DEF q
<1> QED BY <1>2, <1>4, OneBucket DEF Balanced

LEMMA TbWithBoth ==
    ASSUME BucketsInv, program' = program, NEW b \in TbBuckets,
           NEW a \in TbStates, NEW g \in Int, NEW t \in Int, NEW p \in Nat,
           tb' = [tb EXCEPT ![b].at = a, ![b].got = g, ![b].token = t],
           peak' = [peak EXCEPT ![b] = p],
           Within(RateBound, a, t, g, tb[b].copy, p)
    PROVE  BucketsInv'
<1> DEFINE q == [tb[b] EXCEPT !.at = a, !.got = g, !.token = t]
<1>1. tb \in [TbBuckets -> TbRecords]
  BY DEF BucketsInv
<1>2. tb' = [tb EXCEPT ![b] = q]
  BY <1>1
<1>3. tb[b] \in TbRecords
  BY <1>1
<1>4. q \in TbRecords /\ q.at = a /\ q.token = t /\ q.got = g /\ q.copy = tb[b].copy
  BY <1>3 DEF TbRecords
<1> HIDE DEF q
<1> QED BY <1>2, <1>4, OneBucket DEF Balanced

LEMMA SamePeak ==
    ASSUME BucketsInv, NEW b \in TbBuckets, UNCHANGED peak
    PROVE  peak' = [peak EXCEPT ![b] = peak[b]] /\ peak[b] \in Nat
  BY DEF BucketsInv

\* The states between which a caller only moves
Plain == {"made", "nap", "asleep", "size", "value"}

LEMMA BucketsStepInv ==
    ASSUME BucketsInv, [BucketsNext]_bucketVars, program' = program
    PROVE  BucketsInv'
<1> USE BucketsAssumption
<1>tb. ASSUME NEW b \in TbBuckets
       PROVE  /\ tb[b] \in TbRecords /\ peak[b] \in Nat
              /\ Balanced(RateBound, tb[b], peak[b])
  BY DEF BucketsInv
<1>lim. /\ RateBound' = RateBound /\ RateBound \in Nat /\ Burst <= RateBound
        /\ Burst \in Nat
  BY BoundSame
<1>1. CASE UNCHANGED bucketVars
  BY <1>1, <1>lim DEF bucketVars, BucketsInv
<1>2. ASSUME NEW b \in TbBuckets, NewTb(b) PROVE BucketsInv'
  <2> DEFINE r == [at |-> "idle", token |-> 0, got |-> 0, copy |-> 0]
  <2>1. r \in TbRecords /\ Balanced(RateBound, r, 0)
    BY <1>lim DEF TbRecords, TbStates, Balanced, Within, Loaded
  <2> QED BY <1>2, <2>1, OneBucket DEF NewTb
<1>3. ASSUME NEW b \in TbBuckets, NEW there \in Plain,
             tb[b].at \notin Loaded,
             UNCHANGED peak, tb' = [tb EXCEPT ![b].at = there]
      PROVE  BucketsInv'
  <2>1. Within(RateBound, there, tb[b].token, tb[b].got, tb[b].copy, peak[b])
    BY <1>tb, <1>3 DEF Balanced, Within, Plain, Loaded
  <2>2. there \in TbStates
    BY DEF Plain, TbStates
  <2> QED BY <2>1, <2>2, <1>3, SamePeak, TbWithAt
<1>4. ASSUME NEW b \in TbBuckets, FetchTb(b) PROVE BucketsInv'
  <2>1. Within(RateBound, "fetch", tb[b].token, 0, tb[b].copy, peak[b])
    BY <1>tb, <1>4, <1>lim DEF Balanced, Within, Loaded, FetchTb, TbAt
  <2>2. /\ tb' = [tb EXCEPT ![b].at = "fetch", ![b].got = 0]
        /\ UNCHANGED peak /\ "fetch" \in TbStates
    BY <1>4 DEF FetchTb, TbStates
  <2>3. peak' = [peak EXCEPT ![b] = peak[b]] /\ peak[b] \in Nat /\ 0 \in Int
    BY <2>2, SamePeak
  <2> HIDE DEF FetchTb
  <2> QED BY <2>1, <2>2, <2>3, TbWithGot
<1>5. ASSUME NEW b \in TbBuckets, TakenTb(b) PROVE BucketsInv'
  <2>1. PICK n \in Asked :
            /\ tb' = [tb EXCEPT ![b].at = "give",
                                ![b].got = AtMost(tb[b].token, n),
                                ![b].token = tb[b].token - AtMost(tb[b].token, n)]
            /\ peak' = [peak EXCEPT ![b] = @ + AtMost(tb[b].token, n)]
    BY <1>5 DEF TakenTb
  <2>2. tb[b].token \in Nat /\ tb[b].at \notin Loaded /\ n \in Nat
    BY <1>5, <1>tb, TbFields DEF TakenTb, TbAt, Loaded, Asked
  <2> DEFINE res == AtMost(tb[b].token, n)
             left == tb[b].token - res
  <2>3. /\ res \in Nat /\ left \in Nat /\ left + res = tb[b].token
        /\ res \in Int /\ left \in Int
    BY <2>2 DEF AtMost
  <2>4. /\ tb' = [tb EXCEPT ![b].at = "give", ![b].got = res, ![b].token = left]
        /\ peak' = [peak EXCEPT ![b] = peak[b] + res]
    BY <2>1
  <2> HIDE DEF res, left
  <2>5. peak[b] + res \in Nat
    BY <2>3, <1>tb
  <2>6. Within(RateBound, "give", left, res, tb[b].copy, peak[b] + res)
    BY <1>tb, <1>lim, <2>2, <2>3 DEF Balanced, Within, Loaded
  <2>7. "give" \in TbStates
    BY DEF TbStates
  <2> QED BY <2>3, <2>4, <2>5, <2>6, <2>7, TbWithBoth
\* What the steps of signal/tokenBucket.c load stands for the token.
<1>6. ASSUME NEW b \in TbBuckets, NEW there \in Loaded, tb[b].at \notin Loaded,
             there = "take" => tb[b].at = "less",
             UNCHANGED peak,
             tb' = [tb EXCEPT ![b].at = there, ![b].copy = tb[b].token]
      PROVE  BucketsInv'
  <2>1. Within(RateBound, there, tb[b].token, tb[b].got, tb[b].token, peak[b])
    BY <1>6, <1>tb DEF Balanced, Within, Loaded
  <2>2. there \in TbStates /\ tb[b].token \in Int
    BY <1>tb, TbFields DEF TbStates, Loaded
  <2> QED BY <2>1, <2>2, <1>6, SamePeak, TbWithCopy
<1>7. ASSUME NEW b \in TbBuckets, program = "signaltb", tb[b].at \notin Loaded,
             NEW n \in Nat, n <= tb[b].token, UNCHANGED peak,
             tb' = [tb EXCEPT ![b].at = "less", ![b].got = n]
      PROVE  BucketsInv'
  <2>1. RateBound = Burst
    BY <1>7 DEF RateBound
  <2>2. Within(RateBound, "less", tb[b].token, n, tb[b].copy, peak[b])
    BY <1>7, <1>tb, TbFields, <2>1, <1>lim DEF Balanced, Within, Loaded
  <2>3. "less" \in TbStates /\ n \in Int
    BY DEF TbStates
  <2> QED BY <2>2, <2>3, <1>7, SamePeak, TbWithGot
<1>8. ASSUME NEW b \in TbBuckets, program = "signaltb",
             SignalSize(b) \/ SignalValue(b) \/ SignalLess(b)
      PROVE  BucketsInv'
  <2>1. tb[b].token \in Nat
    BY <1>tb, TbFields DEF Balanced, Within
  <2>2. CASE SignalSize(b)
    <3>1. PICK n \in Asked :
              tb' = IF tb[b].token < n
                    THEN [tb EXCEPT ![b].at = "value"]
                    ELSE [tb EXCEPT ![b].at = "less", ![b].got = n]
      BY <2>2 DEF SignalSize
    <3>2. /\ tb[b].at \notin Loaded /\ UNCHANGED peak
          /\ n \in Nat /\ "value" \in Plain
      BY <2>2 DEF SignalSize, TbAt, Loaded, Asked, Plain
    <3>3. CASE tb[b].token < n
      BY <3>1, <3>2, <3>3, <1>3
    <3>4. CASE ~(tb[b].token < n)
      <4>1. n <= tb[b].token
        BY <2>1, <3>2, <3>4
      <4> QED BY <3>1, <3>2, <3>4, <4>1, <1>7, <1>8
    <3> QED BY <3>3, <3>4
  <2>3. CASE SignalValue(b)
    <3>1. /\ tb[b].at \notin Loaded /\ UNCHANGED peak
          /\ tb' = [tb EXCEPT ![b].at = "less", ![b].got = tb[b].token]
      BY <2>3 DEF SignalValue, TbAt, Loaded
    <3>2. tb[b].token <= tb[b].token
      BY <2>1
    <3> QED BY <2>1, <3>1, <3>2, <1>7, <1>8
  <2>4. CASE SignalLess(b)
    BY <2>4, <1>6 DEF SignalLess, TbAt, Loaded
  <2> QED BY <1>8, <2>2, <2>3, <2>4
<1>9. ASSUME NEW b \in TbBuckets, SignalTake(b) PROVE BucketsInv'
  <2>1. /\ tb[b].at = "take" /\ tb[b].copy \in Int /\ tb[b].got \in Int
        /\ tb[b].got >= 0 /\ tb[b].got <= tb[b].copy
        /\ tb[b].copy + peak[b] <= RateBound /\ peak[b] \in Nat
    BY <1>9, <1>tb, TbFields DEF SignalTake, TbAt, Loaded, Balanced, Within
  <2> DEFINE left == tb[b].copy - tb[b].got
             p == peak[b] + tb[b].got
  <2>2. /\ tb' = [tb EXCEPT ![b].at = "give", ![b].token = left]
        /\ peak' = [peak EXCEPT ![b] = p]
    BY <1>9 DEF SignalTake
  <2>3. left \in Int /\ p \in Nat
    BY <2>1
  <2>4. Within(RateBound, "give", left, tb[b].got, tb[b].copy, p)
    BY <2>1, <1>tb, <1>lim DEF Balanced, Within, Loaded
  <2>5. "give" \in TbStates
    BY DEF TbStates
  <2> HIDE DEF left, p
  <2> QED BY <2>2, <2>3, <2>4, <2>5, TbWithToken
\* Giving n back
<1>10. ASSUME NEW b \in TbBuckets, NEW n \in Nat, NEW new \in Int,
              NEW g \in 0 .. tb[b].got,
              peak' = [peak EXCEPT ![b] = AtLeast0(@ - n)],
              tb' = [tb EXCEPT ![b].at = "idle", ![b].got = g, ![b].token = new],
              new >= 0, new + AtLeast0(peak[b] - n) <= RateBound
       PROVE  BucketsInv'
  <2> DEFINE p == AtLeast0(peak[b] - n)
  <2>1. peak' = [peak EXCEPT ![b] = p]
    BY <1>10
  <2>2. peak[b] \in Nat /\ g \in Int /\ g >= 0 /\ g <= tb[b].got
    BY <1>tb, TbFields
  <2>3. p \in Nat
    BY <2>2 DEF AtLeast0
  <2>4. /\ tb[b].got <= RateBound /\ tb[b].copy >= 0 /\ tb[b].got \in Int
        /\ tb[b].copy \in Int
    BY <1>tb, TbFields DEF Balanced, Within
  <2> HIDE DEF p
  <2>5. Within(RateBound, "idle", new, g, tb[b].copy, p)
    <3>1. new + p <= RateBound
      BY <1>10 DEF p
    <3> QED BY <1>10, <1>lim, <2>2, <2>4, <3>1 DEF Within, Loaded
  <2>6. "idle" \in TbStates
    BY DEF TbStates
  <2> QED BY <2>1, <2>2, <2>3, <2>5, <2>6, <1>10, TbWithBoth
<1>11. ASSUME NEW b \in TbBuckets, GivenTb(b) PROVE BucketsInv'
  <2>1. PICK n \in 0 .. tb[b].got :
            /\ tb' = [tb EXCEPT ![b].at = "idle", ![b].got = @ - n,
                                ![b].token = IF Over(n, tb[b].token + n)
                                             THEN Burst ELSE tb[b].token + n]
            /\ peak' = [peak EXCEPT ![b] = AtLeast0(@ - n)]
    BY <1>11 DEF GivenTb
  <2> DEFINE new == IF Over(n, tb[b].token + n) THEN Burst ELSE tb[b].token + n
  <2>2. /\ new \in Int /\ tb[b].got - n \in 0 .. tb[b].got
        /\ n \in Nat /\ n <= tb[b].got
    BY <1>tb, TbFields
  <2>3. tb' = [tb EXCEPT ![b].at = "idle", ![b].got = tb[b].got - n,
                         ![b].token = new]
    BY <2>1 DEF BucketsInv, TbRecords
  <2>4. /\ tb[b].token \in Nat /\ tb[b].token + peak[b] <= RateBound
        /\ tb[b].token + tb[b].got <= RateBound \/ tb[b].token <= Burst
        /\ tb[b].got \in Nat /\ tb[b].got <= RateBound /\ peak[b] \in Nat
    BY <1>11, <1>tb, TbFields DEF GivenTb, TbAt, Balanced, Within, Loaded
  <2>5. new >= 0 /\ new + AtLeast0(peak[b] - n) <= RateBound
    <3>1. CASE program = "oldtb"
      <4>1. RateBound = 2 * Burst
        BY <3>1 DEF RateBound
      <4>2. new = IF n > Burst THEN Burst ELSE tb[b].token + n
        BY <3>1 DEF Over
      <4> HIDE DEF new
      <4>3. CASE n > Burst
        BY <4>1, <4>2, <4>3, <1>lim, <2>2, <2>4 DEF AtLeast0
      <4>4. CASE ~(n > Burst)
        BY <4>1, <4>2, <4>4, <1>lim, <2>2, <2>4 DEF AtLeast0
      <4> QED BY <4>3, <4>4
    <3>2. CASE program # "oldtb"
      BY <3>2, <1>lim, <2>2, <2>4 DEF Over, AtLeast0, RateBound
    <3> QED BY <3>1, <3>2
  <2> HIDE DEF new
  <2> QED BY <2>1, <2>2, <2>3, <2>5, <1>10
<1>12. ASSUME NEW b \in TbBuckets, SignalGive(b), program = "signaltb"
       PROVE  BucketsInv'
  <2>1. PICK n \in 0 .. tb[b].got :
            /\ tb' = [tb EXCEPT ![b].at = "idle", ![b].got = 0,
                                ![b].token = AtMost(tb[b].copy + n, Burst)]
            /\ peak' = [peak EXCEPT ![b] = AtLeast0(@ - n)]
    BY <1>12 DEF SignalGive
  <2>2. /\ tb[b].copy \in Nat /\ tb[b].copy + peak[b] <= RateBound
        /\ peak[b] \in Nat /\ n \in Nat /\ RateBound = Burst
        /\ 0 \in 0 .. tb[b].got
    BY <1>12, <1>tb, TbFields
    DEF SignalGive, TbAt, Loaded, Balanced, Within, RateBound
  <2> DEFINE new == AtMost(tb[b].copy + n, Burst)
  <2>3. /\ new \in Int /\ new >= 0
        /\ new + AtLeast0(peak[b] - n) <= RateBound
    BY <2>2, <1>lim DEF AtMost, AtLeast0
  <2> HIDE DEF new
  <2>4. tb' = [tb EXCEPT ![b].at = "idle", ![b].got = 0, ![b].token = new]
    BY <2>1 DEF new
  <2> QED BY <2>1, <2>2, <2>3, <2>4, <1>10
<1>13. ASSUME NEW b \in TbBuckets, DestroyTb(b) PROVE BucketsInv'
  <2>1. Within(RateBound, "none", 0, 0, tb[b].copy, 0)
    BY <1>tb, <1>lim DEF Balanced, Within, Loaded
  <2>2. /\ tb' = [tb EXCEPT ![b].at = "none", ![b].got = 0, ![b].token = 0]
        /\ peak' = [peak EXCEPT ![b] = 0]
        /\ "none" \in TbStates /\ 0 \in Nat /\ 0 \in Int
    BY <1>13 DEF DestroyTb, TbStates, BucketsInv, TbRecords
  <2> QED BY <2>1, <2>2, TbWithBoth
<1>14. CASE Fill
  <2>1. ASSUME NEW b \in TbBuckets
        PROVE  /\ tb'[b] = FillOf(b)
               /\ peak'[b] = IF InTable(b) THEN AtLeast0(peak[b] - Cps)
                                           ELSE peak[b]
    BY <1>14 DEF Fill
  <2>2. ASSUME NEW b \in TbBuckets
        PROVE  /\ tb'[b] \in TbRecords /\ peak'[b] \in Nat
               /\ Balanced(RateBound, tb'[b], peak'[b])
    <3>1. CASE ~InTable(b)
      BY <3>1, <2>1, <1>tb DEF FillOf
    <3>2. CASE InTable(b)
      <4> DEFINE token1 == IF TbAt(b, "made") THEN tb[b].token
                           ELSE AtMost(tb[b].token + Cps, Burst)
                 at1 == IF tb[b].at = "asleep" THEN "fetch" ELSE tb[b].at
                 p == AtLeast0(peak[b] - Cps)
      <4>1. tb'[b] = [tb[b] EXCEPT !.token = token1, !.at = at1]
        BY <3>2, <2>1 DEF FillOf
      <4>2. /\ at1 \in TbStates
            /\ \A a \in Loaded \cup {"less", "give"} : at1 = a <=> tb[b].at = a
        BY <1>tb, TbFields DEF TbStates, Loaded
      <4>3. token1 \in Int /\ peak'[b] = p /\ p \in Nat /\ p <= peak[b]
        BY <3>2, <2>1, <1>tb, TbFields DEF AtMost, AtLeast0
      <4>4. /\ tb'[b] \in TbRecords
            /\ tb'[b].at = at1 /\ tb'[b].token = token1
            /\ tb'[b].got = tb[b].got /\ tb'[b].copy = tb[b].copy
        <5> HIDE DEF token1, at1
        <5> QED BY <4>1, <4>2, <4>3, <1>tb DEF TbRecords
      <4>5. /\ tb[b].token \in Nat /\ tb[b].got \in Nat /\ tb[b].copy \in Nat
            /\ peak[b] \in Nat /\ Cps \in Nat
        BY <1>tb, TbFields DEF Balanced, Within
      <4>6. /\ token1 >= 0
            /\ tb[b].token + peak[b] <= RateBound => token1 + p <= RateBound
            /\ tb[b].token <= Burst => token1 >= tb[b].token
            /\ tb[b].at = "give" => token1 <= Burst
        BY <4>5, <1>lim DEF AtMost, AtLeast0, TbAt
      <4> HIDE DEF token1, at1, p
      <4>7. /\ tb[b].got <= RateBound
            /\ IF at1 \in Loaded THEN tb[b].copy + p <= RateBound
                                 ELSE token1 + p <= RateBound
        BY <4>2, <4>3, <4>5, <4>6, <1>lim, <1>tb DEF Balanced, Within, Loaded
      <4>8. /\ at1 = "less" => RateBound = Burst /\ tb[b].got <= token1
            /\ at1 = "take" => tb[b].got <= tb[b].copy
            /\ at1 = "give" => token1 <= Burst
        BY <4>2, <4>3, <4>5, <4>6, <1>lim, <1>tb DEF Balanced, Within, Loaded
      <4>9. Balanced(RateBound, tb'[b], p)
        BY <4>4, <4>5, <4>6, <4>7, <4>8 DEF Balanced, Within
      <4> QED BY <4>3, <4>4, <4>9
    <3> QED BY <3>1, <3>2
  <2>3. tb' = [b \in TbBuckets |-> tb'[b]] /\ peak' = [b \in TbBuckets |-> peak'[b]]
    BY <1>14 DEF Fill
  <2> QED BY <2>2, <2>3, <1>lim DEF BucketsInv
<1>15. ASSUME NEW tables, Unload(tables) PROVE BucketsInv'
  <2> DEFINE r == [at |-> "none", token |-> 0, got |-> 0, copy |-> 0]
  <2>1. r \in TbRecords
    BY DEF TbRecords, TbStates
  <2>2. ASSUME NEW b \in TbBuckets PROVE Balanced(RateBound, r, peak[b])
    BY <1>tb, <1>lim, TbFields DEF Balanced, Within, Loaded
  <2> QED BY <1>15, <1>lim, <2>1, <2>2 DEF Unload, BucketsInv
<1>16. CASE UNCHANGED <<tb, peak>>
  BY <1>16, <1>lim DEF BucketsInv
<1>17. ASSUME NEW b \in TbBuckets, SignalTest(b) \/ SignalPause(b)
       PROVE  BucketsInv'
  BY <1>17, <1>3, <1>4 DEF SignalTest, SignalPause, TbAt, Plain, Loaded
<1>18. ASSUME NEW b \in TbBuckets, SignalSum(b) PROVE BucketsInv'
  BY <1>18, <1>6 DEF SignalSum, TbAt, Loaded
<1>19. ASSUME NEW b \in TbBuckets,
              PosixInit(b) \/ OtherInit(b) \/ OldInit(b) \/ OldInitFull(b)
                \/ SignalInitPut(b) \/ SignalInitSet(b)
       PROVE  BucketsInv'
  BY <1>19, <1>2, <1>3, <1>16
  DEF PosixInit, OtherInit, OldInit, OldInitFull, SignalInitPut, SignalInitSet,
      InitTb, TbAt, Plain, Loaded
<1>20. ASSUME NEW b \in TbBuckets, SleepTb(b) PROVE BucketsInv'
  BY <1>20, <1>3 DEF SleepTb, TbAt, Plain, Loaded
<1>21. ASSUME NEW b \in TbBuckets, Call(b) PROVE BucketsInv'
  <2>1. SignalFetch(b) \/ SignalReturn(b) => program = "signaltb"
    BY DEF SignalFetch, SignalReturn, SignalRuns, TbRuns
  <2>2. CASE SignalFetch(b) \/ SignalReturn(b)
    BY <2>1, <2>2, <1>8, <1>9, <1>12, <1>17, <1>18
    DEF SignalFetch, SignalReturn
  <2>3. CASE ~(SignalFetch(b) \/ SignalReturn(b))
    BY <1>21, <2>3, <1>4, <1>5, <1>11, <1>20
    DEF Call, PosixFetch, PosixReturn, OtherFetch, OtherReturn, OldFetch,
        OldReturn
  <2> QED BY <2>2, <2>3
<1>22. ASSUME NEW b \in TbBuckets,
              PosixDestroy(b) \/ OtherDestroy(b) \/ SignalDestroy(b)
                \/ OldDestroy(b) \/ OldInterrupted(b)
       PROVE  BucketsInv'
  BY <1>22, <1>13, <1>16
  DEF PosixDestroy, OtherDestroy, SignalDestroy, OldDestroy, OldInterrupted
<1>23. CASE PosixFill \/ OtherFill \/ SignalFill \/ OldFill
  BY <1>23, <1>14 DEF PosixFill, OtherFill, SignalFill, OldFill
<1>24. CASE PosixUnload \/ OtherUnload \/ SignalUnload \/ OldUnload
  BY <1>24, <1>15 DEF PosixUnload, OtherUnload, SignalUnload, OldUnload
<1> QED BY <1>1, <1>19, <1>21, <1>22, <1>23, <1>24 DEF BucketsNext

\* No bucket gives out more in any window of time than its burst and what came
\* in, also where SIGALRM comes between a load and the store that follows; the
\* one of mytbf_old.c no more than twice its burst and what came in.
THEOREM BucketsKeepRate == Spec => []BucketRate
<1>1. Init => BucketsInv
  BY BucketsInitInv DEF Init
<1>2. BucketsInv /\ [Next]_MCvars => BucketsInv'
  BY StepOfEach, BucketsStepInv
<1>3. BucketsInv => BucketRate
  <2> SUFFICES ASSUME BucketsInv, NEW b \in TbBuckets
               PROVE  peak[b] <= RateBound
    BY DEF BucketRate
  <2>1. Balanced(RateBound, tb[b], peak[b]) /\ tb[b] \in TbRecords /\ peak[b] \in Nat
    BY DEF BucketsInv
  <2>2. RateBound \in Nat
    BY BucketsAssumption DEF RateBound
  <2> QED BY <2>1, <2>2, TbFields DEF Balanced, Within
<1> QED BY <1>1, <1>2, <1>3, PTL DEF Spec

\* The contract of the programs that fill by a thread.  A step on one bucket
\* leaves the others as they were.
LEMMA OtherTbSame ==
    ASSUME BucketsInv, NEW b \in TbBuckets, NEW c \in TbBuckets, NEW r,
           tb' = [tb EXCEPT ![b] = r], c # b
    PROVE  ByContract(c)
<1>1. tb'[c] = tb[c]
  BY DEF BucketsInv
<1> QED BY <1>1 DEF ByContract, Lives, CB!vars
\* A call does what the contract calls it.
LEMMA CallByContract ==
    ASSUME BucketsInv, FilledByThread, NEW b \in TbBuckets,
           FetchTb(b) \/ TakenTb(b) \/ SleepTb(b) \/ GivenTb(b)
    PROVE  ByContract(b)
<1>1. /\ tb[b] \in TbRecords /\ Lives(b) /\ Burst \in Nat
      /\ tb[b].token >= 0 /\ tb[b].token <= Burst
      /\ tb[b].got >= 0 /\ tb[b].got <= Burst
  <2>1. Balanced(Burst, tb[b], peak[b]) /\ tb[b] \in TbRecords /\ peak[b] \in Nat
    BY DEF BucketsInv, FilledByThread, RateBound
  <2>2. tb[b].at \in {"idle", "fetch", "give"}
    BY DEF FetchTb, TakenTb, SleepTb, GivenTb, TbAt
  <2> QED BY <2>1, <2>2, TbFields, BucketsAssumption
          DEF Balanced, Within, Loaded, Lives
<1>2. /\ tb[b].token \in Int /\ tb[b].got \in Int
      /\ tb \in [TbBuckets -> TbRecords]
  BY <1>1, TbFields DEF BucketsInv
<1>3. CASE FetchTb(b)
  <2>1. tb'[b].got = 0 /\ tb'[b].token = tb[b].token
    BY <1>2, <1>3 DEF FetchTb, TbRecords
  <2>2. CB(b)!Spend(b)
    BY <2>1 DEF CB!Spend
  <2> QED BY <1>1, <2>2 DEF ByContract, CB!Next
<1>4. CASE TakenTb(b)
  <2>1. PICK n \in Asked :
            tb' = [tb EXCEPT ![b].at = "give", ![b].got = AtMost(tb[b].token, n),
                        ![b].token = @ - AtMost(tb[b].token, n)]
    BY <1>4 DEF TakenTb
  <2>2. /\ tb'[b].got = AtMost(tb[b].token, n)
        /\ tb'[b].token = tb[b].token - AtMost(tb[b].token, n)
    BY <1>2, <2>1 DEF TbRecords
  <2>3. CB(b)!Take(b, n)
    BY <1>4, <2>2 DEF CB!Take, CB!Smaller, AtMost, TakenTb
  <2> QED BY <1>1, <2>3 DEF ByContract, CB!Next
<1>5. CASE SleepTb(b)
  <2>1. tb'[b].got = tb[b].got /\ tb'[b].token = tb[b].token
    BY <1>2, <1>5 DEF SleepTb, TbRecords
  <2> QED BY <1>1, <2>1 DEF ByContract, CB!vars
<1>6. CASE GivenTb(b)
  <2>1. PICK n \in 0 .. tb[b].got :
            tb' = [tb EXCEPT ![b].at = "idle", ![b].got = @ - n,
                        ![b].token = IF Over(n, tb[b].token + n)
                                     THEN Burst ELSE tb[b].token + n]
    BY <1>6 DEF GivenTb
  <2>2. /\ tb'[b].got = tb[b].got - n
        /\ tb'[b].token = AtMost(tb[b].token + n, Burst)
    <3>1. /\ tb'[b].got = tb[b].got - n
          /\ tb'[b].token = IF Over(n, tb[b].token + n)
                            THEN Burst ELSE tb[b].token + n
      BY <1>2, <2>1 DEF TbRecords
    <3>2. n \in Nat
      BY <1>2
    <3> QED BY <1>1, <1>2, <3>1, <3>2 DEF Over, AtMost, FilledByThread
  <2>3. CASE n = 0
    <3>1. tb'[b].got = tb[b].got /\ tb'[b].token = tb[b].token
      BY <1>1, <1>2, <2>2, <2>3 DEF AtMost
    <3> QED BY <1>1, <3>1 DEF ByContract, CB!vars
  <2>4. CASE n # 0
    <3>1. n \in 1 .. Burst
      BY <1>1, <1>2, <2>4
    <3>2. CB(b)!GiveBack(b, n)
      BY <1>2, <2>2 DEF CB!GiveBack, CB!Smaller, AtMost
    <3> QED BY <1>1, <3>1, <3>2 DEF ByContract, CB!Next
  <2> QED BY <2>3, <2>4
<1> QED BY <1>3, <1>4, <1>5, <1>6

LEMMA FillByContract ==
    ASSUME BucketsInv, FilledByThread, Fill, NEW b \in TbBuckets
    PROVE  ByContract(b)
<1>1. tb[b] \in TbRecords /\ tb'[b] = FillOf(b)
  BY DEF BucketsInv, Fill
<1>2. tb'[b].got = tb[b].got
  BY <1>1 DEF FillOf, TbRecords
<1>3. CASE ~InTable(b) \/ TbAt(b, "made")
  <2>1. tb'[b].token = tb[b].token /\ (Lives(b)' <=> Lives(b))
    BY <1>1, <1>3 DEF FillOf, TbRecords, TbAt, Lives
  <2> QED BY <1>2, <2>1 DEF ByContract, CB!vars
<1>4. CASE InTable(b) /\ ~TbAt(b, "made")
  <2>1. /\ tb'[b].token = AtMost(tb[b].token + Cps, Burst)
        /\ Lives(b)' <=> Lives(b)
    BY <1>1, <1>4 DEF FillOf, TbRecords, TbAt, Lives
  <2>2. CB(b)!Tick
    BY <1>2, <2>1 DEF CB!Tick, CB!Smaller, AtMost
  <2> QED BY <2>1, <2>2 DEF ByContract, CB!Next
<1> QED BY <1>3, <1>4

LEMMA StepByContract ==
    ASSUME BucketsInv, FilledByThread, [BucketsNext]_bucketVars,
           NEW c \in TbBuckets
    PROVE  ByContract(c)
<1>1. tb \in [TbBuckets -> TbRecords]
  BY DEF BucketsInv
<1>2. CASE UNCHANGED tb
  BY <1>2 DEF ByContract, Lives, CB!vars
<1>3. ASSUME NEW b \in TbBuckets, NEW r, tb' = [tb EXCEPT ![b] = r],
             b = c => ByContract(b)
      PROVE  ByContract(c)
  BY <1>3, OtherTbSame
<1>4. ASSUME NEW b \in TbBuckets, InitTb(b) PROVE ByContract(c)
  <2>1. /\ tb' = [tb EXCEPT ![b] = [at |-> "idle", token |-> 0,
                                    got |-> 0, copy |-> 0]]
        /\ ~Lives(b)
    BY <1>4 DEF InitTb, NewTb, TbAt, Lives
  <2>2. tb'[b].token = 0 /\ tb'[b].got = 0
    BY <1>1, <2>1
  <2>3. CB(b)!Init'
    BY <2>2 DEF CB!Init
  <2> QED BY <1>3, <2>1, <2>3 DEF ByContract
<1>5. ASSUME NEW b \in TbBuckets,
             FetchTb(b) \/ TakenTb(b) \/ SleepTb(b) \/ GivenTb(b)
      PROVE  ByContract(c)
  <2>1. \E r : tb' = [tb EXCEPT ![b] = r]
    <3>1. CASE FetchTb(b) \/ SleepTb(b)
      BY <1>1, <3>1 DEF FetchTb, SleepTb
    <3>2. CASE TakenTb(b)
      BY <1>1, <3>2 DEF TakenTb
    <3>3. CASE GivenTb(b)
      BY <1>1, <3>3 DEF GivenTb
    <3> QED BY <1>5, <3>1, <3>2, <3>3
  <2> QED BY <1>3, <1>5, <2>1, CallByContract
<1>6. ASSUME NEW b \in TbBuckets, DestroyTb(b) PROVE ByContract(c)
  <2>1. \E r : tb' = [tb EXCEPT ![b] = r]
    BY <1>1, <1>6 DEF DestroyTb
  <2>2. Lives(b) /\ ~Lives(b)'
    BY <1>1, <1>6 DEF DestroyTb, Lives, TbAt, TbRecords
  <2> QED BY <1>3, <2>1, <2>2 DEF ByContract
<1>7. CASE Fill
  BY <1>7, FillByContract
<1>8. ASSUME NEW tables, Unload(tables) PROVE ByContract(c)
  BY <1>8 DEF Unload, ByContract, Lives
<1>9. program # "signaltb" /\ program # "oldtb"
  BY DEF FilledByThread
<1> QED BY <1>2, <1>4, <1>5, <1>6, <1>7, <1>8, <1>9
        DEF BucketsNext, bucketVars, Call, TbRuns, SignalRuns,
            PosixInit, OtherInit, OldInit, OldInitFull, SignalInitPut,
            SignalInitSet, PosixFetch, OtherFetch, OldFetch, SignalFetch,
            PosixReturn, OtherReturn, OldReturn, SignalReturn, PosixDestroy,
            OtherDestroy, SignalDestroy, OldDestroy, OldInterrupted, PosixFill,
            OtherFill, SignalFill, OldFill, PosixUnload, OtherUnload,
            SignalUnload, OldUnload

\* The buckets of posix/tokenBucket.c and posix/other/tbf/mytbf.c keep the
\* contract that the one of the radio keeps.
THEOREM BucketsKeepContract == Spec => KeepsContract
<1>1. Init => BucketsInv
  BY BucketsInitInv DEF Init
<1>2. BucketsInv /\ [Next]_MCvars => BucketsInv'
  BY StepOfEach, BucketsStepInv
<1>3. BucketsInv /\ [Next]_MCvars
      => [FilledByThread => \A b \in TbBuckets : ByContract(b)]_bucketVars
  BY StepOfEach, StepByContract
<1> QED BY <1>1, <1>2, <1>3, PTL DEF Spec, KeepsContract

-----------------------------------------------------------------------------
\* The relays.  The calls that select has decided on find what it reported.
Machine == [state : {"rd", "wr", "end", "err"}, pos : Int]

RelayTypes ==
    /\ fsm \in [Ways -> Machine]
    /\ calls \subseteq Ways
    /\ tty \in [Ways -> {"silent", "typed", "hung"}]

RelayInv == RelayTypes /\ ReadsDoNotBlock

LEMMA RelayInitInv == RelayInit => RelayInv
  BY RelayAssumption
  DEF RelayInit, RelayInv, RelayTypes, Machine, Ways, ReadsDoNotBlock

\* A call of branch changes one machine, and takes its call away.
LEMMA OneMachine ==
    ASSUME RelayInv, NEW w \in Ways, NEW m \in Machine,
           fsm' = [fsm EXCEPT ![w] = m],
           calls' = calls \ {w}, program' = program,
           tty' \in [Ways -> {"silent", "typed", "hung"}],
           \A v \in Ways \ {w} : tty'[v] = tty[v]
    PROVE  RelayInv'
<1>1. RelayTypes'
  BY DEF RelayInv, RelayTypes
<1>2. ReadsDoNotBlock'
  <2> SUFFICES ASSUME program = "select", NEW v \in calls', In(v, {"rd"})'
               PROVE  Readable(v)'
    BY DEF ReadsDoNotBlock
  <2>1. v \in calls /\ v # w /\ v \in Ways
    BY DEF RelayInv, RelayTypes
  <2>2. fsm'[v] = fsm[v] /\ tty'[v] = tty[v]
    BY <2>1 DEF RelayInv, RelayTypes
  <2> QED BY <2>1, <2>2 DEF RelayInv, ReadsDoNotBlock, In, Readable
<1> QED BY <1>1, <1>2 DEF RelayInv

LEMMA RelayBranch ==
    ASSUME RelayInv, NEW w \in Ways, Branch(w), program' = program
    PROVE  RelayInv'
<1> USE RelayAssumption
<1>1. /\ fsm \in [Ways -> Machine] /\ fsm[w] \in Machine
      /\ tty \in [Ways -> {"silent", "typed", "hung"}]
  BY DEF RelayInv, RelayTypes
<1>2. calls' = calls \ {w}
  BY DEF Branch
<1>3. fsm[w].state \in {"rd", "wr", "end", "err"} /\ fsm[w].pos \in Int
  BY <1>1 DEF Machine
<1>4. fsm = [fsm EXCEPT ![w] = fsm[w]]
  BY <1>1
<1>5. CASE ReadSome(w)
  <2>1. [state |-> "wr", pos |-> 0] \in Machine
    BY DEF Machine
  <2>2. /\ tty' \in [Ways -> {"silent", "typed", "hung"}]
        /\ \A v \in Ways \ {w} : tty'[v] = tty[v]
    BY <1>1, <1>5 DEF ReadSome
  <2>3. fsm' = [fsm EXCEPT ![w] = [state |-> "wr", pos |-> 0]]
    BY <1>5 DEF ReadSome
  <2> QED BY <1>2, <2>1, <2>2, <2>3, OneMachine
<1>6. ASSUME NEW x \in {"end", "err"}, UNCHANGED tty,
             fsm' = [fsm EXCEPT ![w].state = x]
      PROVE  RelayInv'
  <2> DEFINE m == [fsm[w] EXCEPT !.state = x]
  <2>1. fsm' = [fsm EXCEPT ![w] = m]
    BY <1>6, <1>1
  <2>2. m \in Machine
    BY <1>1 DEF Machine
  <2> HIDE DEF m
  <2> QED BY <1>1, <1>2, <1>6, <2>1, <2>2, OneMachine
<1>7. CASE ReadEndOrError(w)
  BY <1>6, <1>7 DEF ReadEndOrError
<1>8. CASE WriteSome(w)
  <2>1. PICK n \in 1 .. BufSize : fsm' = [fsm EXCEPT ![w].pos = @ + n]
    BY <1>8 DEF WriteSome
  <2> DEFINE p == fsm[w].pos + n
             m == [fsm[w] EXCEPT !.pos = p]
  <2>2. p \in Int
    BY <1>3
  <2>3. fsm' = [fsm EXCEPT ![w] = m]
    BY <2>1, <1>1
  <2> HIDE DEF p
  <2>4. m \in Machine
    BY <1>1, <2>2 DEF Machine
  <2>5. tty' = tty
    BY <1>8 DEF WriteSome
  <2> HIDE DEF m
  <2> QED BY <1>1, <1>2, <2>3, <2>4, <2>5, OneMachine
<1>9. CASE WriteError(w)
  BY <1>6, <1>9 DEF WriteError
<1>10. CASE UNCHANGED <<fsm, tty>>
  BY <1>1, <1>2, <1>4, <1>10, OneMachine
<1> QED BY <1>5, <1>7, <1>8, <1>9, <1>10 DEF Branch

LEMMA RelayStepInv ==
    ASSUME RelayInv, [RelayNext]_relayVars, program' = program
    PROVE  RelayInv'
<1>1. CASE UNCHANGED relayVars
  BY <1>1 DEF relayVars, RelayInv, RelayTypes, ReadsDoNotBlock, In, Readable
<1>2. ASSUME NEW w \in Ways, Type(w) \/ HangUp(w) PROVE RelayInv'
  <2>1. PICK x \in {"typed", "hung"} : tty' = [tty EXCEPT ![w] = x]
    BY <1>2 DEF Type, HangUp
  <2>2. UNCHANGED <<fsm, calls>>
    BY <1>2 DEF Type, HangUp
  <2>3. \A v \in Ways : tty'[v] = tty[v] \/ tty'[v] # "silent"
    BY <2>1 DEF RelayInv, RelayTypes
  <2> QED BY <2>1, <2>2, <2>3
          DEF RelayInv, RelayTypes, ReadsDoNotBlock, In, Readable
<1>3. ASSUME NEW p, NEW called \in SUBSET Ways, Round(p, called),
             p = "select" => \A w \in called : In(w, {"rd"}) => Readable(w)
      PROVE  RelayInv'
  <2>1. /\ program = p /\ calls' = called /\ UNCHANGED <<fsm, tty>>
    BY <1>3 DEF Round
  <2> QED BY <1>3, <2>1
          DEF RelayInv, RelayTypes, ReadsDoNotBlock, In, Readable
<1>4. CASE MycpyRound
  BY <1>3, <1>4 DEF MycpyRound
<1>5. CASE SelectRound
  <2>1. \A w \in Selected \cup {v \in Ways : ~Active(v)} :
            In(w, {"rd"}) => Readable(w)
    BY DEF Selected, Active, In
  <2>2. Selected \cup {v \in Ways : ~Active(v)} \in SUBSET Ways
    BY DEF Selected
  <2> QED BY <1>3, <1>5, <2>1, <2>2 DEF SelectRound
<1>6. CASE PollRound
  BY <1>3, <1>6 DEF PollRound
<1>7. CASE EpollRound
  BY <1>3, <1>7 DEF EpollRound
<1>8. ASSUME NEW w \in Ways, MycpyBranch(w) \/ SelectBranch(w) \/ PollBranch(w)
      PROVE  RelayInv'
  BY <1>8, RelayBranch DEF MycpyBranch, SelectBranch, PollBranch
<1> QED BY <1>1, <1>2, <1>4, <1>5, <1>6, <1>7, <1>8 DEF RelayNext

LEMMA RelayAlways == Spec => []RelayInv
<1>1. Init => RelayInv
  BY RelayInitInv DEF Init
<1>2. RelayInv /\ [Next]_MCvars => RelayInv'
  BY StepOfEach, RelayStepInv
<1> QED BY <1>1, <1>2, PTL DEF Spec

\* select.c, whatever the sizes: a terminal that select has reported is read
\* before anything can change what it reported.
THEOREM SelectDoesNotBlock == Spec => []ReadsDoNotBlock
<1>1. RelayInv => ReadsDoNotBlock
  BY DEF RelayInv
<1> QED BY <1>1, RelayAlways, PTL

-----------------------------------------------------------------------------
\* The exit of the radio server.  The threads below exitpos have been joined,
\* and none is recorded after the first of them.
ExitTypes ==
    /\ tid_pos \in Nat /\ exitpos \in Nat
    /\ sender \in [ExitChannels ->
                        {"none", "runs", "calls", "waits", "exits", "dead"}]
    /\ Recorded \subseteq ExitChannels
    /\ exitmain = "record" => tid_pos + 1 \in ExitChannels

Joined ==
    /\ exitmain \in {"setup", "create", "record", "pause"} => exitpos = 1
    /\ exitmain \in {"destroy", "join"} =>
            exitpos >= 1 /\ \A c \in Recorded : c < exitpos => sender[c] = "dead"

ExitInv == ExitTypes /\ Joined /\ RecordedGone

LEMMA ExitInitInv == ExitInit => ExitInv
  BY ExitAssumption
  DEF ExitInit, ExitInv, ExitTypes, Joined, Recorded, RecordedGone

\* Main does not get back from its exit to where it creates threads.
LEMMA ExitMain ==
    ASSUME ExitInv, UNCHANGED <<tid_pos, exitpos, sender>>,
           \/ exitmain' = exitmain
           \/ exitmain \in {"setup", "create", "record", "pause"}
                /\ exitmain' = "destroy"
           \/ exitmain' \in {"leave", "exit", "jammed"}
    PROVE  ExitInv'
  BY DEF ExitInv, ExitTypes, Joined, Recorded, RecordedGone

\* A thread goes from one state to another and is not dead before.
LEMMA ExitSender ==
    ASSUME ExitInv, NEW c \in ExitChannels, sender[c] # "dead",
           NEW s \in {"runs", "calls", "waits", "exits", "dead"},
           sender' = [sender EXCEPT ![c] = s],
           UNCHANGED <<exitmain, tid_pos, exitpos>>
    PROVE  ExitInv'
<1>1. ExitTypes'
  BY DEF ExitInv, ExitTypes, Recorded
<1>2. \A d \in ExitChannels : sender[d] = "dead" => sender'[d] = "dead"
  BY DEF ExitInv, ExitTypes
<1>3. Recorded \subseteq ExitChannels /\ Recorded' = Recorded
  BY DEF ExitInv, ExitTypes, Recorded
<1>4. Joined' /\ RecordedGone'
  BY <1>2, <1>3 DEF ExitInv, Joined, RecordedGone
<1> QED BY <1>1, <1>4 DEF ExitInv

LEMMA ExitStepInv ==
    ASSUME ExitInv, [ExitNext]_exitVars
    PROVE  ExitInv'
<1> USE DEF ExitAt
<1>1. CASE UNCHANGED exitVars
  BY <1>1, ExitMain DEF exitVars
<1>2. CASE ExitSetUp
  BY <1>2 DEF ExitSetUp, ExitInv, ExitTypes, Joined, Recorded, RecordedGone
<1>3. CASE ExitCreate
  <2>1. CASE tid_pos + 1 \in ExitChannels
    <3>1. /\ sender' = [sender EXCEPT ![tid_pos + 1] = "runs"]
          /\ exitmain = "create" /\ exitmain' = "record"
          /\ UNCHANGED <<tid_pos, exitpos>>
      BY <1>3, <2>1 DEF ExitCreate
    <3>2. ExitTypes' /\ exitpos = 1
      BY <2>1, <3>1 DEF ExitInv, ExitTypes, Joined, Recorded
    <3> QED BY <3>1, <3>2 DEF ExitInv, Joined, RecordedGone
  <2>2. CASE tid_pos + 1 \notin ExitChannels
    BY <1>3, <2>2
    DEF ExitCreate, ExitInv, ExitTypes, Joined, Recorded, RecordedGone
  <2> QED BY <2>1, <2>2
<1>4. CASE ExitCreateFails \/ Leave \/ ExitSignal
  BY <1>4, ExitMain DEF ExitCreateFails, Leave, ExitSignal
<1>5. CASE ExitRecord
  <2>1. /\ exitmain = "record" /\ exitmain' = "create"
        /\ tid_pos' = tid_pos + 1 /\ UNCHANGED <<exitpos, sender>>
    BY <1>5 DEF ExitRecord
  <2>2. exitpos = 1 /\ tid_pos \in Nat /\ tid_pos + 1 \in ExitChannels
    BY <2>1 DEF ExitInv, ExitTypes, Joined
  <2>3. Recorded' = Recorded \cup {tid_pos + 1}
    BY <2>1, <2>2 DEF Recorded
  <2> QED BY <2>1, <2>2, <2>3 DEF ExitInv, ExitTypes, Joined, RecordedGone
<1>6. CASE DestroyCancel
  BY <1>6 DEF DestroyCancel, ExitInv, ExitTypes, Joined, Recorded, RecordedGone
<1>7. CASE DestroyJoin
  <2>1. /\ exitmain = "join" /\ exitmain' = "destroy"
        /\ sender[exitpos] = "dead" /\ exitpos' = exitpos + 1
        /\ UNCHANGED <<tid_pos, sender>>
    BY <1>7 DEF DestroyJoin
  <2>2. \A c \in Recorded : c < exitpos' => c < exitpos \/ c = exitpos
    BY <2>1 DEF ExitInv, ExitTypes, Recorded
  <2>3. exitpos >= 1 /\ exitpos \in Nat /\ Recorded' = Recorded
    BY <2>1 DEF ExitInv, ExitTypes, Joined, Recorded
  <2> QED BY <2>1, <2>2, <2>3 DEF ExitInv, ExitTypes, Joined, RecordedGone
<1>8. CASE FreeList
  <2>1. /\ exitmain = "destroy" /\ exitmain' = "leave" /\ exitpos' = 0
        /\ exitpos \notin Recorded /\ UNCHANGED <<tid_pos, sender>>
    BY <1>8 DEF FreeList
  <2>2. \A c \in Recorded : sender[c] = "dead"
    BY <2>1 DEF ExitInv, ExitTypes, Joined, Recorded
  <2> QED BY <2>1, <2>2 DEF ExitInv, ExitTypes, Joined, Recorded, RecordedGone
<1>9. CASE ModuleUnload \/ UnloadAgain \/ FreedUsed
  BY <1>9, ExitMain DEF ModuleUnload, UnloadAgain, FreedUsed
<1>10. ASSUME NEW c \in ExitChannels,
              \/ SenderCalls(c) \/ SenderWaits(c) \/ SenderWakes(c)
              \/ SenderReturns(c) \/ SenderDies(c) \/ SenderExits(c)
       PROVE  ExitInv'
  BY <1>10, ExitSender
  DEF SenderCalls, SenderWaits, SenderWakes, SenderReturns, SenderDies,
      SenderExits, SenderGoes
<1>11. ASSUME NEW t \in Living \cup {Main, Tid, Earlier}, AlarmSticks(t)
       PROVE  ExitInv'
  BY <1>11, ExitMain DEF AlarmSticks
<1> QED BY <1>1, <1>2, <1>3, <1>4, <1>5, <1>6, <1>7, <1>8, <1>9, <1>10, <1>11
        DEF ExitNext

\* However many channels there are, whenever the signal comes and whatever
\* handlers or failures come between: the list is freed after the death of the
\* threads that were recorded.
THEOREM ListFreedLast == Spec => []RecordedGone
<1>1. Init => ExitInv
  BY ExitInitInv DEF Init
<1>2. ExitInv /\ [Next]_MCvars => ExitInv'
  BY StepOfEach, ExitStepInv
<1>3. ExitInv => RecordedGone
  BY DEF ExitInv
<1> QED BY <1>1, <1>2, <1>3, PTL DEF Spec

-----------------------------------------------------------------------------
\* The counter file.  No number in any buffer is ahead of the threads that have
\* written; under the mutex there is only one buffer at a time that matters.
CounterTypes ==
    /\ file \in Nat /\ strbuf \in Nat
    /\ adder \in [Adders -> {"start", "in", "read", "printed", "done"}]
    /\ stream \in [Adders -> Nat]

Behind ==
    LET writers == Cardinality(Done)
    IN  /\ strbuf <= writers /\ file <= writers
        /\ writers > 0 => file > 0
        /\ \A t \in Adders : adder[t] = "printed" =>
                stream[t] > 0 /\ stream[t] <= writers + 1

Exclusive ==
    /\ file = Cardinality(Done)
    /\ \A t \in Adders :
        /\ adder[t] \in {"in", "read", "printed"} => mutex = {t}
        /\ adder[t] = "read" => strbuf = file
        /\ adder[t] = "printed" => stream[t] = file + 1

CounterInv ==
    /\ CounterTypes
    /\ program = "add" => Behind
    /\ program = "lockadd" => Exclusive

LEMMA DoneCount ==
    ASSUME CounterTypes
    PROVE  IsFiniteSet(Done) /\ Cardinality(Done) \in Nat
  BY CounterAssumption, FS_Subset, FS_CardinalityType DEF Done

LEMMA CounterInitInv == CounterInit => CounterInv
<1> SUFFICES ASSUME CounterInit PROVE CounterInv
  OBVIOUS
<1>1. Done = {}
  BY DEF CounterInit, Done
<1>2. Cardinality(Done) = 0
  BY <1>1, FS_EmptySet
<1> QED BY <1>2 DEF CounterInit, CounterInv, CounterTypes, Behind, Exclusive

LEMMA DoneSame ==
    ASSUME CounterTypes, NEW t \in Adders, adder[t] # "done",
           NEW s, s # "done", adder' = [adder EXCEPT ![t] = s]
    PROVE  Done' = Done
  BY DEF CounterTypes, Done

LEMMA DoneMore ==
    ASSUME CounterTypes, NEW t \in Adders, adder[t] # "done",
           adder' = [adder EXCEPT ![t] = "done"]
    PROVE  Cardinality(Done') = Cardinality(Done) + 1
<1>1. Done' = Done \cup {t} /\ t \notin Done
  BY DEF CounterTypes, Done
<1> QED BY <1>1, DoneCount, FS_AddElement

LEMMA GetInv ==
    ASSUME CounterInv, NEW t \in Adders, NEW from \in {"start", "in"},
           Get(t, from), program' = program,
           program \in {"add", "lockadd"},
           program = "lockadd" => from = "in"
    PROVE  CounterInv'
<1>1. Done' = Done
  BY DoneSame DEF Get, CounterInv
<1>2. CounterTypes'
  BY DEF Get, CounterInv, CounterTypes
<1>3. CASE program = "add"
  BY <1>1, <1>2, <1>3, DoneCount DEF Get, CounterInv, CounterTypes, Behind
<1>4. CASE program = "lockadd"
  <2>1. Exclusive'
    BY <1>1, <1>4 DEF Get, CounterInv, CounterTypes, Exclusive
  <2> QED BY <1>2, <1>4, <2>1 DEF CounterInv
<1> QED BY <1>3, <1>4

LEMMA FormatInv ==
    ASSUME CounterInv, NEW t \in Adders, Format(t), program' = program
    PROVE  CounterInv'
<1>1. Done' = Done
  BY DoneSame DEF Format, CounterInv
<1>2. CounterTypes'
  BY DEF Format, CounterInv, CounterTypes
<1>3. program = "add" => Behind'
  BY <1>1, DoneCount DEF Format, CounterInv, CounterTypes, Behind
<1>4. program = "lockadd" => Exclusive'
  BY <1>1 DEF Format, CounterInv, CounterTypes, Exclusive
<1> QED BY <1>2, <1>3, <1>4 DEF CounterInv

LEMMA FlushInv ==
    ASSUME CounterInv, NEW t \in Adders, Flush(t), program' = program,
           program = "lockadd" => mutex' = mutex \ {t}
    PROVE  CounterInv'
<1>1. Cardinality(Done') = Cardinality(Done) + 1
  BY DoneMore DEF Flush, CounterInv
<1>2. CounterTypes'
  BY DEF Flush, CounterInv, CounterTypes
<1>3. program = "add" => Behind'
  BY <1>1, DoneCount DEF Flush, CounterInv, CounterTypes, Behind
<1>4. program = "lockadd" => Exclusive'
  <2> SUFFICES ASSUME program = "lockadd" PROVE Exclusive'
    OBVIOUS
  <2>1. mutex = {t} /\ stream[t] = file + 1 /\ file = Cardinality(Done)
    BY DEF Flush, CounterInv, Exclusive
  <2>2. \A u \in Adders \ {t} : adder'[u] \notin {"in", "read", "printed"}
    BY <2>1 DEF Flush, CounterInv, CounterTypes, Exclusive
  <2>3. adder'[t] = "done" /\ file' = file + 1
    BY <2>1 DEF Flush, CounterInv, CounterTypes
  <2> QED BY <1>1, <2>1, <2>2, <2>3 DEF Exclusive
<1> QED BY <1>2, <1>3, <1>4 DEF CounterInv

LEMMA LockInv ==
    ASSUME CounterInv, NEW t \in Adders, Lock(t), program = "lockadd",
           program' = program
    PROVE  CounterInv'
<1>1. Done' = Done
  BY DoneSame DEF Lock, CounterInv
<1>2. CounterTypes'
  BY DEF Lock, CounterInv, CounterTypes
<1>3. \A u \in Adders : adder[u] \notin {"in", "read", "printed"}
  BY DEF Lock, CounterInv, Exclusive
<1>4. Exclusive'
  BY <1>1, <1>3 DEF Lock, CounterInv, CounterTypes, Exclusive
<1> QED BY <1>2, <1>4 DEF CounterInv

LEMMA CounterStepInv ==
    ASSUME CounterInv, [CounterNext]_counterVars, program' = program
    PROVE  CounterInv'
<1>1. CASE UNCHANGED counterVars
  BY <1>1 DEF counterVars, CounterInv, CounterTypes, Behind, Exclusive, Done
<1>2. ASSUME NEW t \in Adders, PosixRoutine(t) PROVE CounterInv'
  BY <1>2, GetInv, FormatInv, FlushInv DEF PosixRoutine
<1>3. ASSUME NEW t \in Adders, LockedRoutine(t) PROVE CounterInv'
  BY <1>3, LockInv, GetInv, FormatInv, FlushInv DEF LockedRoutine
<1> QED BY <1>1, <1>2, <1>3 DEF CounterNext

\* Any number of threads: under the mutex no increment is lost, and without it
\* the number stays between one and the threads that have written.
THEOREM IncrementsCounted == Spec => []Counted
<1>1. Init => CounterInv
  BY CounterInitInv DEF Init
<1>2. CounterInv /\ [Next]_MCvars => CounterInv'
  BY StepOfEach, CounterStepInv
<1>3. CounterInv => Counted
  BY DEF CounterInv, Behind, Exclusive, Counted
<1> QED BY <1>1, <1>2, <1>3, PTL DEF Spec

-----------------------------------------------------------------------------
\* The prime finders whose threads have a number of their own.  The copy for a
\* thread holds that number until the thread has ended; a thread tests it or has
\* not read it yet, and main passes no thread that has not ended.
PrimeOwn ==
    /\ i \in Left .. Right
    /\ phase \in {"create", "join", "failed", "end"}
    /\ seen \in [Numbers -> Left .. Unread]
    /\ finished \subseteq Numbers
    /\ cells \in [Numbers -> Left .. Right]
    /\ \A n \in Numbers :
        /\ seen[n] \in {n, Unread}
        /\ n \in finished => seen[n] = n
        /\ Created(n) /\ n \notin finished => cells[n] = n
        /\ (phase = "join" /\ n < i) \/ phase = "end" => n \in finished

PrimesInv == program # "compt" => PrimeOwn

LEMMA PrimesInitInv == PrimesInit => PrimesInv
  BY PrimesAssumption
     DEF PrimesInit, PrimesInv, PrimeOwn, Created, Numbers, Unread

LEMMA PrimesMain ==
    ASSUME PrimeOwn, CopyingMain
    PROVE  PrimeOwn'
<1> USE PrimesAssumption DEF PrimeOwn, Numbers, Created
<1>1. CASE Create /\ Copied
  BY <1>1 DEF Create, Copied
<1>2. CASE CreateFailed
  BY <1>2 DEF CreateFailed
<1>3. CASE StartJoining
  BY <1>3 DEF StartJoining
<1>4. CASE Join
  BY <1>4 DEF Join
<1>5. CASE JoinedAll
  BY <1>5 DEF JoinedAll
<1> QED BY <1>1, <1>2, <1>3, <1>4, <1>5 DEF CopyingMain, Joining

LEMMA OwnCopy ==
    ASSUME PrimeOwn, NEW n \in Numbers, Read(n, cells[n])
    PROVE  cells[n] = n
  BY PrimesAssumption DEF PrimeOwn, Read, Numbers, Unread

LEMMA PrimesRead ==
    ASSUME PrimeOwn, NEW n \in Numbers, Read(n, cells[n])
    PROVE  PrimeOwn'
<1>1. cells[n] = n
  BY OwnCopy
<1> QED BY <1>1, PrimesAssumption DEF PrimeOwn, Created, Read, Numbers, Unread

LEMMA PrimesTested ==
    ASSUME PrimeOwn, NEW n \in Numbers, Tested(n),
           cells' \in {cells, [cells EXCEPT ![n] = Right]}
    PROVE  PrimeOwn'
  BY PrimesAssumption DEF PrimeOwn, Created, Tested, Numbers

LEMMA PrimesStepInv ==
    ASSUME PrimesInv, [PrimesNext]_primeVars, program' = program
    PROVE  PrimesInv'
<1> SUFFICES ASSUME program # "compt", PrimeOwn PROVE PrimeOwn'
  BY DEF PrimesInv
<1>1. CASE UNCHANGED primeVars
  BY <1>1 DEF primeVars, PrimeOwn, Created
<1>2. CASE ComptDmcMain \/ PrimeMain
  BY <1>2, PrimesMain DEF ComptDmcMain, PrimeMain
<1>3. ASSUME NEW n \in Numbers, ComptDmcRoutine(n) \/ PrimeRoutine(n)
      PROVE  PrimeOwn'
  BY <1>3, PrimesRead, PrimesTested DEF ComptDmcRoutine, PrimeRoutine
<1> QED BY <1>1, <1>2, <1>3 DEF PrimesNext, ComptMain, ComptRoutine

\* What a step that leaves the threads' numbers alone maps to
LEMMA SearchSame ==
    ASSUME UNCHANGED <<seen, finished, printed>>, phase' = "end" <=> phase = "end"
    PROVE  UNCHANGED ThreadSearch!vars
  BY DEF ThreadSearch!vars

LEMMA SearchTested ==
    ASSUME PrimeOwn, NEW n \in Numbers, Tested(n)
    PROVE  ThreadSearch!Test(n)
<1> DEFINE tested == {seen[m] : m \in finished}
<1>1. seen[n] = n /\ n \notin finished
  BY DEF PrimeOwn, Tested
<1>2. tested = finished
  BY DEF PrimeOwn
<1>3. {seen'[m] : m \in finished'} = finished \cup {n}
  BY <1>1, <1>2 DEF Tested
<1>4. n \in Nat /\ n >= 5
  BY PrimesAssumption DEF Numbers
<1>5. NoDivisor(n) <=> ThreadSearch!IsPrime(n)
  BY <1>4, TestIsRight DEF IsPrime, ThreadSearch!IsPrime
<1>6. printed' = IF ThreadSearch!IsPrime(n) THEN printed \cup {n} ELSE printed
  BY <1>1, <1>5 DEF Tested
<1>7. phase' = phase
  BY DEF Tested
<1> QED BY <1>1, <1>2, <1>3, <1>6, <1>7 DEF ThreadSearch!Test

LEMMA SearchRead ==
    ASSUME PrimeOwn, NEW n \in Numbers, Read(n, cells[n])
    PROVE  UNCHANGED ThreadSearch!vars
<1>1. \A m \in finished : seen'[m] = seen[m]
  BY PrimesAssumption DEF PrimeOwn, Read, Numbers, Unread
<1>2. UNCHANGED <<finished, printed, phase>>
  BY DEF Read
<1> QED BY <1>1, <1>2 DEF ThreadSearch!vars

LEMMA SearchMain ==
    ASSUME PrimeOwn, CopyingMain
    PROVE  ThreadSearch!Next \/ UNCHANGED ThreadSearch!vars
<1>1. CASE Create \/ CreateFailed \/ StartJoining \/ Join
  BY <1>1, SearchSame DEF Create, CreateFailed, StartJoining, Join
<1>2. CASE JoinedAll
  <2>1. finished = Numbers
    <3>1. \A n \in Numbers : n < i
      BY <1>2, PrimesAssumption DEF JoinedAll, Numbers
    <3> QED BY <1>2, <3>1 DEF JoinedAll, PrimeOwn
  <2>2. {seen[m] : m \in finished} = ThreadSearch!Numbers
    BY <2>1 DEF PrimeOwn, Numbers, ThreadSearch!Numbers
  <2>3. phase' = "end" /\ UNCHANGED <<seen, finished, printed>>
    BY <1>2 DEF JoinedAll
  <2> QED BY <2>2, <2>3 DEF ThreadSearch!End, ThreadSearch!Next
<1> QED BY <1>1, <1>2 DEF CopyingMain, Joining

LEMMA SearchStep ==
    ASSUME PrimesInv, [PrimesNext]_primeVars, program # "compt"
    PROVE  ThreadSearch!Next \/ UNCHANGED ThreadSearch!vars
<1>i. PrimeOwn
  BY DEF PrimesInv
<1>1. CASE UNCHANGED primeVars
  BY <1>1, SearchSame DEF primeVars
<1>2. CASE ComptDmcMain \/ PrimeMain
  BY <1>i, <1>2, SearchMain DEF ComptDmcMain, PrimeMain
<1>3. ASSUME NEW n \in Numbers, ComptDmcRoutine(n) \/ PrimeRoutine(n)
      PROVE  ThreadSearch!Next \/ UNCHANGED ThreadSearch!vars
  <2>1. CASE Read(n, cells[n])
    BY <1>i, <2>1, SearchRead
  <2>2. CASE Tested(n)
    BY <1>i, <2>2, SearchTested DEF ThreadSearch!Next, Numbers, ThreadSearch!Numbers
  <2> QED BY <1>3, <2>1, <2>2 DEF ComptDmcRoutine, PrimeRoutine
<1> QED BY <1>1, <1>2, <1>3 DEF PrimesNext, ComptMain, ComptRoutine

\* The finders that copy the number implement the search for primes, for every
\* range from 5 on.
THEOREM CopiesImplementSearch == Spec => CopiesSearch
<1>1. Init => PrimesInv
  BY PrimesInitInv DEF Init
<1>2. PrimesInv /\ [Next]_MCvars => PrimesInv'
  BY StepOfEach, PrimesStepInv
<1>3. PrimesInv /\ [Next]_MCvars =>
        [program # "compt" => ThreadSearch!Next]_(ThreadSearch!vars)
  BY StepOfEach, SearchStep
<1> QED BY <1>1, <1>2, <1>3, PTL DEF Spec, CopiesSearch

\* What is printed: no thread has read anything but numbers from Left on.
PrintInv ==
    /\ i \in Left .. Right
    /\ seen \in [Numbers -> Left .. Unread]
    /\ cells \in [Numbers -> Left .. Right]
    /\ \A m \in printed : IsPrime(m)

LEMMA PrintRead ==
    ASSUME PrintInv, NEW n \in Numbers, NEW v \in Left .. Right, Read(n, v)
    PROVE  PrintInv'
  BY PrimesAssumption DEF PrintInv, Read, Unread

LEMMA PrintTested ==
    ASSUME PrintInv, NEW n \in Numbers, Tested(n),
           cells' \in {cells, [cells EXCEPT ![n] = Right]}
    PROVE  PrintInv'
<1>1. seen[n] \in Nat /\ seen[n] >= 5
  BY PrimesAssumption DEF PrintInv, Unread
<1>2. NoDivisor(seen[n]) => IsPrime(seen[n])
  BY <1>1, TestIsRight
<1>3. \A m \in printed' : m \in printed \/ (m = seen[n] /\ NoDivisor(m))
  BY DEF Tested
<1>4. UNCHANGED <<i, seen>>
  BY DEF Tested
<1>5. cells' \in [Numbers -> Left .. Right]
  BY PrimesAssumption DEF PrintInv
<1> QED BY <1>2, <1>3, <1>4, <1>5 DEF PrintInv

LEMMA PrintMain ==
    ASSUME PrintInv,
           \/ Create /\ (Copied \/ UNCHANGED cells)
           \/ CreateFailed \/ Joining
    PROVE  PrintInv'
<1>1. i' \in Left .. Right
  BY PrimesAssumption
     DEF PrintInv, Create, CreateFailed, Joining, StartJoining, Join, JoinedAll
<1>2. UNCHANGED <<seen, printed>>
  BY DEF Create, CreateFailed, Joining, StartJoining, Join, JoinedAll
<1>3. cells' \in [Numbers -> Left .. Right]
  BY PrimesAssumption
     DEF PrintInv, Copied, Create, CreateFailed, Joining, StartJoining, Join,
         JoinedAll
<1> QED BY <1>1, <1>2, <1>3 DEF PrintInv

LEMMA PrintStepInv ==
    ASSUME PrintInv, [PrimesNext]_primeVars
    PROVE  PrintInv'
<1>1. CASE UNCHANGED primeVars
  BY <1>1 DEF primeVars, PrintInv
<1>2. CASE ComptMain \/ ComptDmcMain \/ PrimeMain
  BY <1>2, PrintMain DEF ComptMain, ComptDmcMain, PrimeMain, CopyingMain
<1>3. ASSUME NEW n \in Numbers,
             ComptRoutine(n) \/ ComptDmcRoutine(n) \/ PrimeRoutine(n)
      PROVE  PrintInv'
  <2>1. CASE /\ Tested(n)
             /\ cells' \in {cells, [cells EXCEPT ![n] = Right]}
    BY <2>1, PrintTested
  <2>2. ASSUME NEW v \in {n, i, Right, cells[n]}, Read(n, v) PROVE PrintInv'
    <3>1. v \in Left .. Right
      BY PrimesAssumption DEF PrintInv, Numbers
    <3> QED BY <2>2, <3>1, PrintRead
  <2>3. ByAddress(n) \subseteq {n, i, Right}
    BY DEF ByAddress
  <2> QED BY <1>3, <2>1, <2>2, <2>3 DEF ComptRoutine, ComptDmcRoutine, PrimeRoutine
<1> QED BY <1>1, <1>2, <1>3 DEF PrimesNext

LEMMA FoundStep ==
    ASSUME ThreadSearch!PrimesFound,
           ThreadSearch!Next \/ UNCHANGED ThreadSearch!vars
    PROVE  ThreadSearch!PrimesFound'
<1>1. ASSUME NEW n \in ThreadSearch!Numbers, ThreadSearch!Test(n)
      PROVE  ThreadSearch!PrimesFound'
  BY <1>1 DEF ThreadSearch!Test, ThreadSearch!PrimesFound
<1>2. CASE ThreadSearch!End
  BY <1>2 DEF ThreadSearch!End, ThreadSearch!PrimesFound
<1>3. CASE UNCHANGED ThreadSearch!vars
  BY <1>3 DEF ThreadSearch!vars, ThreadSearch!PrimesFound
<1> QED BY <1>1, <1>2, <1>3 DEF ThreadSearch!Next

\* The finders that copy the number print the primes of the range, all of them
\* by the end and nothing else; and what compt.c prints are primes.
THEOREM PrintsThePrimes == Spec => []PrintedArePrimes
<1> DEFINE Inv == /\ PrimesInv /\ PrintInv
                  /\ program # "compt" => ThreadSearch!PrimesFound
<1>1. Init => Inv
  <2> SUFFICES ASSUME Init PROVE Inv
    OBVIOUS
  <2>1. PrimesInv
    BY PrimesInitInv DEF Init
  <2>2. PrintInv
    BY PrimesAssumption DEF Init, PrimesInit, PrintInv, Unread
  <2>3. ThreadSearch!PrimesFound
    BY DEF Init, PrimesInit, ThreadSearch!PrimesFound
  <2> QED BY <2>1, <2>2, <2>3
<1>2. Inv /\ [Next]_MCvars => Inv'
  <2> SUFFICES ASSUME Inv, [Next]_MCvars PROVE Inv'
    OBVIOUS
  <2>1. [PrimesNext]_primeVars /\ program' = program
    BY StepOfEach
  <2>2. PrimesInv' /\ PrintInv'
    BY <2>1, PrimesStepInv, PrintStepInv
  <2>3. ASSUME program # "compt" PROVE ThreadSearch!PrimesFound'
    BY <2>1, <2>3, SearchStep, FoundStep
  <2> QED BY <2>1, <2>2, <2>3
<1>3. Inv => PrintedArePrimes
  BY DEF PrintInv, PrintedArePrimes
<1> QED BY <1>1, <1>2, <1>3, PTL DEF Spec

-----------------------------------------------------------------------------
\* The time servers.  Nobody is in hand twice, and who is in hand has not been
\* told the time.
MainHolds(c) ==
    /\ timemain \in {"send", "create"}
    /\ nfd[IF program = "timephread" THEN pthreadID ELSE 0] = c
ThreadHolds(c) == \E k \in threads : nfd[k] = c

TimeTypes ==
    /\ conn \in [Callers -> {"new", "queued", "accepted"}]
    /\ answers \in [Callers -> Nat]
    /\ timemain \in {"setup", "accept", "send", "create", "over"}
    /\ nfd \in [Places -> Descriptors]
    /\ pthreadID \in 0 .. PthSize
    /\ threads \subseteq Places
    /\ children \subseteq Descriptors
    /\ \A k \in threads : k < pthreadID
    /\ program = "timephread" /\ timemain = "create" => pthreadID < PthSize
    /\ program = "timephread" => timemain # "send"
    /\ program # "timephread" => threads = {}
    /\ program # "timeprocess" => children = {}

CallerOk(c) ==
    /\ conn[c] # "accepted" => ~(MainHolds(c) \/ c \in children \/ ThreadHolds(c))
    /\ conn[c] # "accepted" => answers[c] = 0
    /\ MainHolds(c) => c \notin children /\ ~ThreadHolds(c)
    /\ MainHolds(c) \/ c \in children \/ ThreadHolds(c) => answers[c] = 0
    /\ \A j, k \in threads : nfd[j] = c /\ nfd[k] = c => j = k
    /\ answers[c] <= 1
    /\ conn[c] = "accepted" /\ timemain # "over" =>
        (answers[c] = 0 =>
            MainHolds(c) \/ c \in children \/ ThreadHolds(c) \/ c \in gone)

TimeInv == TimeTypes /\ \A c \in Callers : CallerOk(c)

LEMMA TimeInitInv == TimeInit => TimeInv
<1> USE TimeAssumption
<1>1. TimeInit => TimeTypes
  BY DEF TimeInit, TimeTypes, Places, Descriptors
<1>2. ASSUME TimeInit, NEW c \in Callers PROVE CallerOk(c)
  BY <1>2 DEF TimeInit, CallerOk, MainHolds, ThreadHolds
<1> QED BY <1>1, <1>2 DEF TimeInv

\* accept of a client that is queued
LEMMA TimeAccepts ==
    ASSUME TimeInv, program' = program,
           NEW k \in Places, NEW there \in {"send", "create"},
           timemain = "accept", AcceptInto(k, there),
           k = IF program = "timephread" THEN pthreadID ELSE 0,
           program = "timephread" => there = "create"
    PROVE  TimeInv'
<1> USE TimeAssumption
<1>1. TimeTypes'
  <2>1. TimeTypes
    BY DEF TimeInv
  <2>2. nfd' \in [Places -> Descriptors]
    BY <2>1 DEF AcceptInto, TimeTypes, Descriptors
  <2>3. conn' \in [Callers -> {"new", "queued", "accepted"}]
    BY <2>1 DEF AcceptInto, TimeTypes
  <2>4. /\ timemain' \in {"send", "create"}
        /\ program' = "timephread" => timemain' # "send"
    BY DEF AcceptInto
  <2>5. program' = "timephread" => pthreadID < PthSize
    BY DEF Places
  <2>6. /\ gone' = gone /\ answers' = answers /\ pthreadID' = pthreadID
        /\ threads' = threads /\ children' = children
    BY DEF AcceptInto
  <2> QED BY <2>1, <2>2, <2>3, <2>4, <2>5, <2>6 DEF TimeTypes
<1>k. k \notin threads
  BY DEF TimeInv, TimeTypes
<1>2. \A c \in Callers : ThreadHolds(c)' <=> ThreadHolds(c)
  BY <1>k DEF AcceptInto, ThreadHolds, TimeInv, TimeTypes
<1>3. \A c \in Callers : ~MainHolds(c)
  BY DEF MainHolds
<1>4. nfd'[k] \in Callers => conn[nfd'[k]] = "queued" /\ conn'[nfd'[k]] = "accepted"
  BY DEF AcceptInto, TimeInv, TimeTypes, Places
<1>5. \A c \in Callers : c # nfd'[k] => conn'[c] = conn[c]
  BY DEF AcceptInto, TimeInv, TimeTypes, Places
<1>6. \A c \in Callers : MainHolds(c)' <=> c = nfd'[k]
  BY DEF AcceptInto, MainHolds
<1>7. \A j \in threads : nfd'[j] = nfd[j]
  BY <1>k DEF AcceptInto, TimeInv, TimeTypes
<1>8. UNCHANGED <<gone, answers, threads, children>> /\ timemain' # "over"
  BY DEF AcceptInto
<1>9. ASSUME NEW c \in Callers PROVE CallerOk(c)'
  <2>1. CallerOk(c)
    BY DEF TimeInv
  <2>2. CASE c = nfd'[k]
    BY <2>1, <2>2, <1>2, <1>4, <1>6, <1>7, <1>8 DEF CallerOk
  <2>3. CASE c # nfd'[k]
    BY <2>1, <2>3, <1>2, <1>3, <1>5, <1>6, <1>7, <1>8 DEF CallerOk
  <2> QED BY <2>2, <2>3
<1> QED BY <1>1, <1>9 DEF TimeInv

\* A descriptor that somebody held is answered, or its send has failed.
LEMMA TimeAnswers ==
    ASSUME TimeInv, TimeTypes', NEW fd \in Descriptors, conn' = conn, gone' = gone,
           \/ Sent(fd)
           \/ SendFails(fd) /\ answers' = answers,
           fd \in Callers => MainHolds(fd) \/ fd \in children \/ ThreadHolds(fd),
           fd \in Callers => ~(MainHolds(fd) \/ fd \in children \/ ThreadHolds(fd))',
           \A c \in Callers \ {fd} :
                /\ MainHolds(c)' <=> MainHolds(c)
                /\ c \in children' <=> c \in children
                /\ ThreadHolds(c)' <=> ThreadHolds(c),
           threads' \subseteq threads, nfd' = nfd,
           timemain = "over" => timemain' = "over"
    PROVE  TimeInv'
<1> USE TimeAssumption
<1>1. ASSUME NEW c \in Callers \ {fd} PROVE CallerOk(c)'
  <2>1. CallerOk(c)
    BY DEF TimeInv
  <2>2. answers'[c] = answers[c]
    BY DEF Sent, TimeInv, TimeTypes
  <2> QED BY <2>1, <2>2, <1>1 DEF CallerOk
<1>2. ASSUME fd \in Callers PROVE CallerOk(fd)'
  <2>1. CallerOk(fd) /\ answers[fd] = 0 /\ conn[fd] = "accepted"
    BY <1>2 DEF TimeInv, CallerOk, TimeTypes
  <2>2. answers'[fd] = 1 \/ (answers'[fd] = 0 /\ fd \in gone')
    BY <1>2, <2>1 DEF Sent, SendFails, TimeInv, TimeTypes
  <2> QED BY <1>2, <2>1, <2>2 DEF CallerOk
<1> QED BY <1>1, <1>2 DEF TimeInv

LEMMA TimeClients ==
    ASSUME TimeInv, program' = program, NEW c \in Callers,
           Connect(c) \/ Killed(c)
    PROVE  TimeInv'
<1>1. TimeTypes'
  BY DEF Connect, Killed, TimeInv, TimeTypes
<1>2. UNCHANGED <<answers, timemain, nfd, pthreadID, threads, children>>
  BY DEF Connect, Killed
<1>3. gone \subseteq gone'
  BY DEF Connect, Killed
<1>4. \A b \in Callers : conn'[b] = "accepted" <=> conn[b] = "accepted"
  BY DEF Connect, Killed, TimeInv, TimeTypes
<1>5. \A b \in Callers : CallerOk(b)'
  BY <1>2, <1>3, <1>4 DEF TimeInv, CallerOk, MainHolds, ThreadHolds
<1> QED BY <1>1, <1>5 DEF TimeInv

\* What leaves everybody as he is
LEMMA TimeSame ==
    ASSUME TimeInv, TimeTypes', UNCHANGED <<conn, gone, answers, nfd>>,
           threads' = threads,
           \A c \in Callers :
                /\ MainHolds(c)' => MainHolds(c)
                /\ timemain' # "over" /\ MainHolds(c) => MainHolds(c)'
                /\ c \in children' <=> c \in children,
           timemain = "over" => timemain' = "over"
    PROVE  TimeInv'
<1>1. \A c \in Callers : CallerOk(c)'
  BY DEF TimeInv, CallerOk, ThreadHolds
<1> QED BY <1>1 DEF TimeInv

LEMMA TimeSetsUp ==
    ASSUME TimeInv, program' = program, SetUp
    PROVE  TimeInv'
<1>1. TimeTypes'
  BY DEF SetUp, TimeInv, TimeTypes
<1>2. \A c \in Callers : ~MainHolds(c) /\ ~MainHolds(c)'
  BY DEF SetUp, MainHolds
<1> QED BY <1>1, <1>2, TimeSame DEF SetUp

LEMMA ServerSends ==
    ASSUME TimeInv, program' = program, ServerSend
    PROVE  TimeInv'
<1> USE TimeAssumption
<1>1. TimeTypes'
  BY DEF ServerSend, TimeAt, Sent, TimeInv, TimeTypes
<1>2. nfd[0] \in Descriptors
  BY DEF TimeInv, TimeTypes, Places
<1>3. threads = {} /\ children = {} /\ UNCHANGED <<conn, gone, nfd, threads, children>>
  BY DEF ServerSend, TimeAt, TimeInv, TimeTypes
<1>4. \A c \in Callers : (MainHolds(c) <=> c = nfd[0]) /\ ~MainHolds(c)'
  BY DEF ServerSend, TimeAt, MainHolds
<1>5. Sent(nfd[0]) \/ (SendFails(nfd[0]) /\ answers' = answers)
  BY DEF ServerSend
<1>6. \A c \in Callers : ~ThreadHolds(c) /\ ~ThreadHolds(c)'
  BY <1>3 DEF ThreadHolds
<1>7. timemain # "over"
  BY DEF ServerSend, TimeAt
<1> QED BY <1>1, <1>2, <1>3, <1>4, <1>5, <1>6, <1>7, TimeAnswers

LEMMA PhreadCreates ==
    ASSUME TimeInv, program' = program, PhreadCreate
    PROVE  TimeInv'
<1> USE TimeAssumption
<1>p. program = "timephread" /\ timemain = "create" /\ pthreadID \in Places
  BY DEF PhreadCreate, TimeAt, TimeInv, TimeTypes, Places
<1>u. UNCHANGED <<conn, gone, answers, nfd, children>>
  BY DEF PhreadCreate
<1>t. /\ TimeTypes /\ threads \subseteq Places
      /\ \A k \in threads : k < pthreadID
      /\ pthreadID \in Nat /\ pthreadID < PthSize
  BY <1>p DEF TimeInv, TimeTypes, Places
<1>1. TimeTypes'
  <2>1. CASE timemain' = "over" /\ UNCHANGED <<threads, pthreadID>>
    BY <1>t, <1>u, <1>p, <2>1 DEF TimeTypes
  <2>2. CASE /\ threads' = threads \cup {pthreadID}
             /\ pthreadID' = pthreadID + 1
             /\ timemain' = "accept"
    <3>1. pthreadID' \in 0 .. PthSize
      BY <1>t, <2>2
    <3>2. threads' \subseteq Places
      BY <1>t, <1>p, <2>2
    <3>3. \A k \in threads' : k < pthreadID'
      BY <1>t, <2>2 DEF Places
    <3> QED BY <1>t, <1>u, <1>p, <2>2, <3>1, <3>2, <3>3 DEF TimeTypes
  <2> QED BY <2>1, <2>2 DEF PhreadCreate
<1>2. CASE timemain' = "over" /\ UNCHANGED <<threads, pthreadID>>
  <2>1. \A c \in Callers : ~MainHolds(c)'
    BY <1>2 DEF MainHolds
  <2> QED BY <1>1, <1>2, <1>u, <2>1, TimeSame
<1>3. CASE /\ threads' = threads \cup {pthreadID}
           /\ pthreadID' = pthreadID + 1
           /\ timemain' = "accept"
  <2>1. ASSUME NEW c \in Callers PROVE CallerOk(c)'
    <3>1. CallerOk(c)
      BY DEF TimeInv
    <3>2. ~MainHolds(c)' /\ (MainHolds(c) <=> nfd[pthreadID] = c)
      BY <1>3, <1>p DEF MainHolds
    <3>3. ThreadHolds(c)' <=> ThreadHolds(c) \/ nfd[pthreadID] = c
      BY <1>3, <1>u DEF ThreadHolds
    <3>4. \A j, k \in threads' : nfd'[j] = c /\ nfd'[k] = c => j = k
      BY <1>3, <1>u, <3>1, <3>2 DEF CallerOk, ThreadHolds
    <3> QED BY <3>1, <3>2, <3>3, <3>4, <1>3, <1>p, <1>u DEF CallerOk
  <2> QED BY <1>1, <2>1 DEF TimeInv
<1> QED BY <1>2, <1>3 DEF PhreadCreate

LEMMA PhreadSends ==
    ASSUME TimeInv, program' = program, NEW k \in Places, PhreadSend(k)
    PROVE  TimeInv'
<1> USE TimeAssumption
<1>p. /\ program = "timephread" /\ timemain # "over" /\ k \in threads
      /\ UNCHANGED <<conn, gone, nfd, pthreadID, children>>
  BY DEF PhreadSend
<1>1. TimeTypes'
  BY DEF PhreadSend, Sent, TimeInv, TimeTypes
<1>2. CASE Sent(nfd[k]) /\ threads' = threads \ {k} /\ UNCHANGED timemain
  <2>1. nfd[k] \in Descriptors
    BY DEF TimeInv, TimeTypes
  <2>2. children = {}
    BY <1>p DEF TimeInv, TimeTypes
  <2>3. \A c \in Callers : MainHolds(c)' <=> MainHolds(c)
    BY <1>2, <1>p DEF MainHolds
  <2>4. \A c \in Callers \ {nfd[k]} : ThreadHolds(c)' <=> ThreadHolds(c)
    BY <1>2, <1>p DEF ThreadHolds
  <2>5. ASSUME nfd[k] \in Callers
        PROVE  ThreadHolds(nfd[k]) /\ ~ThreadHolds(nfd[k])' /\ ~MainHolds(nfd[k])
    <3>1. CallerOk(nfd[k])
      BY <2>5 DEF TimeInv
    <3> QED BY <3>1, <1>2, <1>p DEF CallerOk, ThreadHolds
  <2> QED BY <1>1, <1>2, <1>p, <2>1, <2>2, <2>3, <2>4, <2>5, TimeAnswers
<1>3. CASE timemain' = "over" /\ UNCHANGED <<answers, threads>>
  <2>1. \A c \in Callers : ~MainHolds(c)'
    BY <1>3 DEF MainHolds
  <2> QED BY <1>1, <1>3, <1>p, <2>1, TimeSame
<1> QED BY <1>2, <1>3 DEF PhreadSend

LEMMA ProcessForks ==
    ASSUME TimeInv, program' = program, ProcessFork
    PROVE  TimeInv'
<1> USE TimeAssumption
<1>p. /\ program = "timeprocess" /\ timemain = "create" /\ 0 \in Places
      /\ UNCHANGED <<conn, gone, answers, nfd, pthreadID, threads>>
      /\ threads = {} /\ nfd[0] \in Descriptors
  BY DEF ProcessFork, TimeAt, TimeInv, TimeTypes, Places
<1>1. TimeTypes'
  BY <1>p DEF ProcessFork, TimeInv, TimeTypes
<1>2. \A c \in Callers : ~MainHolds(c)' /\ (MainHolds(c) <=> nfd[0] = c)
  BY <1>p DEF ProcessFork, MainHolds
<1>3. \A c \in Callers : ~ThreadHolds(c)' /\ ~ThreadHolds(c)
  BY <1>p DEF ThreadHolds
<1>4. children' = children \cup {nfd[0]} \/ (children' = children /\ timemain' = "over")
  BY DEF ProcessFork
<1>5. ASSUME NEW c \in Callers PROVE CallerOk(c)'
  <2>1. CallerOk(c)
    BY DEF TimeInv
  <2> QED BY <2>1, <1>2, <1>3, <1>4, <1>p DEF CallerOk
<1> QED BY <1>1, <1>5 DEF TimeInv

LEMMA ProcessSends ==
    ASSUME TimeInv, program' = program, NEW fd \in Descriptors, ProcessSend(fd)
    PROVE  TimeInv'
<1> USE TimeAssumption
<1>p. /\ program = "timeprocess" /\ fd \in children
      /\ children' = children \ {fd}
      /\ UNCHANGED <<conn, gone, timemain, nfd, pthreadID, threads>>
      /\ threads = {}
  BY DEF ProcessSend, TimeInv, TimeTypes
<1>1. TimeTypes'
  BY DEF ProcessSend, Sent, TimeInv, TimeTypes
<1>2. Sent(fd) \/ (SendFails(fd) /\ answers' = answers)
  BY DEF ProcessSend
<1>3. \A c \in Callers :
        /\ MainHolds(c)' <=> MainHolds(c)
        /\ ~ThreadHolds(c) /\ ~ThreadHolds(c)'
  BY <1>p DEF MainHolds, ThreadHolds
<1>4. fd \in Callers => ~MainHolds(fd)
  BY <1>p DEF TimeInv, CallerOk
<1> QED BY <1>1, <1>2, <1>3, <1>4, <1>p, TimeAnswers

LEMMA TimeStepInv ==
    ASSUME TimeInv, [TimeNext]_timeVars, program' = program
    PROVE  TimeInv'
<1> USE TimeAssumption
<1>1. CASE UNCHANGED timeVars
  BY <1>1 DEF timeVars, TimeInv, TimeTypes, CallerOk, MainHolds, ThreadHolds
<1>2. CASE ServerSetUp \/ PhreadSetUp \/ ProcessSetUp
  BY <1>2, TimeSetsUp DEF ServerSetUp, PhreadSetUp, ProcessSetUp
<1>3. CASE ServerAccept
  BY <1>3, TimeAccepts DEF ServerAccept, TimeAt, Places
<1>4. CASE PhreadAccept
  <2>1. pthreadID \in Places
    BY <1>4 DEF PhreadAccept, TimeAt, Places, TimeInv, TimeTypes
  <2>2. /\ program = "timephread" /\ timemain = "accept"
        /\ AcceptInto(pthreadID, "create")
    BY <1>4 DEF PhreadAccept, TimeAt
  <2> QED BY <2>1, <2>2, TimeAccepts
<1>5. CASE ProcessAccept
  BY <1>5, TimeAccepts DEF ProcessAccept, TimeAt, Places
<1>6. CASE PhreadOverrun
  <2>1. TimeTypes'
    BY <1>6 DEF PhreadOverrun, TimeAt, TimeInv, TimeTypes
  <2>2. \A c \in Callers : ~MainHolds(c)'
    BY <1>6 DEF PhreadOverrun, MainHolds
  <2> QED BY <1>6, <2>1, <2>2, TimeSame DEF PhreadOverrun
<1> QED BY <1>1, <1>2, <1>3, <1>4, <1>5, <1>6, TimeClients, ServerSends,
           PhreadCreates, PhreadSends, ProcessForks, ProcessSends DEF TimeNext

\* Any number of clients and of threads: each client gets one answer, over its
\* own connection.
THEOREM EachIsAnswered == Spec => []AnsweredOnce
<1>1. Init => TimeInv
  BY TimeInitInv DEF Init
<1>2. TimeInv /\ [Next]_MCvars => TimeInv'
  BY StepOfEach, TimeStepInv
<1>3. TimeInv => AnsweredOnce
  BY DEF TimeInv, CallerOk, MainHolds, ThreadHolds, AnsweredOnce, InHand
<1> QED BY <1>1, <1>2, <1>3, PTL DEF Spec

-----------------------------------------------------------------------------
\* The letters.  In interview.c status, modulo the threads, is whose turn it is;
\* in abcd_lhq.c one mutex at most is free, and its owner is next.
turn == IF last = thrd_num THEN 0 ELSE next(last)

LetterTypes ==
    /\ status \in 0 .. thrd_num
    /\ made \in 0 .. thrd_num
    /\ last \in 0 .. thrd_num
    /\ locked \subseteq Threads /\ writing \subseteq Threads

LettersInv ==
    /\ LetterTypes
    /\ program = "interview" => status % thrd_num = turn
    /\ program = "abcd_lhq" =>
        IF made < thrd_num
        THEN writing = {} /\ locked = 0 .. made - 1 /\ last = thrd_num
        ELSE \/ writing = {} /\ locked = Threads \ {turn}
             \/ writing = {turn} /\ locked = Threads

LEMMA NextFacts ==
    ASSUME NEW t \in Threads
    PROVE  /\ next(t) \in Threads
           /\ t + 1 \in 0 .. thrd_num
           /\ next(t) = (t + 1) % thrd_num
           /\ t # thrd_num /\ t \in 0 .. thrd_num
<1>1. thrd_num \in Nat /\ thrd_num > 0 /\ t \in Nat
  BY LettersAssumption DEF Threads
<1>2. (t + 1) % thrd_num \in 0 .. thrd_num - 1
  BY <1>1
<1> QED BY <1>1, <1>2 DEF Threads, next

LEMMA TurnIsThread == LetterTypes => turn \in Threads
<1> SUFFICES ASSUME LetterTypes PROVE turn \in Threads
  OBVIOUS
<1>1. 0 \in Threads
  BY LettersAssumption DEF Threads
<1>2. last # thrd_num => last \in Threads
  BY LettersAssumption DEF LetterTypes, Threads
<1> QED BY <1>1, <1>2, NextFacts DEF turn

LEMMA ModFacts ==
    ASSUME NEW s \in 0 .. thrd_num
    PROVE  /\ s % thrd_num \in 0 .. thrd_num
           /\ (s % thrd_num) % thrd_num = s % thrd_num
<1>1. thrd_num \in Nat /\ thrd_num > 0 /\ s \in Nat
  BY LettersAssumption
<1>2. CASE s = thrd_num
  <2>1. s % thrd_num = 0
    BY <1>1, <1>2
  <2>2. 0 % thrd_num = 0
    BY <1>1
  <2> QED BY <2>1, <2>2, <1>1
<1>3. CASE s < thrd_num
  <2>1. s % thrd_num = s
    BY <1>1, <1>3
  <2> QED BY <2>1
<1> QED BY <1>1, <1>2, <1>3

LEMMA LettersInitInv == LettersInit => LettersInv
<1> SUFFICES ASSUME LettersInit PROVE LettersInv
  OBVIOUS
<1>1. LetterTypes
  BY LettersAssumption DEF LettersInit, LetterTypes
<1>2. 0 % thrd_num = 0
  BY LettersAssumption
<1>3. 0 .. 0 - 1 = {}
  OBVIOUS
<1> QED BY <1>1, <1>2, <1>3, LettersAssumption DEF LettersInit, LettersInv, turn

\* A letter is written by the thread whose turn it is.
LEMMA LettersTurn ==
    ASSUME LettersInv, NEW t \in Threads,
           InterviewRoutine(t) \/ LhqWrite(t), UNCHANGED <<last, pen>> => FALSE
    PROVE  last' = t /\ t = turn
<1>1. CASE InterviewRoutine(t)
  BY <1>1 DEF InterviewRoutine, LettersInv, Writes
<1>2. CASE LhqWrite(t)
  <2>1. writing # {}
    BY <1>2 DEF LhqWrite
  <2>2. writing = {turn}
    BY <1>2, <2>1 DEF LhqWrite, LettersInv
  <2> QED BY <1>2, <2>2 DEF LhqWrite, Writes
<1> QED BY <1>1, <1>2

LEMMA TurnAfter ==
    ASSUME NEW t \in Threads, last' = t
    PROVE  turn' = next(t)
  BY NextFacts DEF turn, next

LEMMA InterviewInv ==
    ASSUME LettersInv, program' = program, NEW t \in Threads, InterviewRoutine(t)
    PROVE  LettersInv'
<1>p. program = "interview" /\ UNCHANGED <<made, locked, writing>>
  BY DEF InterviewRoutine
<1>1. CASE status % thrd_num = t /\ Writes(t) /\ status' = t + 1
  <2>1. last' = t /\ turn' = next(t)
    BY <1>1, TurnAfter DEF Writes
  <2>2. LetterTypes'
    BY <1>1, <1>p, <2>1, NextFacts DEF LettersInv, LetterTypes
  <2> QED BY <1>1, <1>p, <2>1, <2>2, NextFacts DEF LettersInv
<1>2. CASE status' = status % thrd_num /\ UNCHANGED <<last, pen>>
  <2>1. /\ status' \in 0 .. thrd_num
        /\ status' % thrd_num = status % thrd_num
    BY <1>2, ModFacts DEF LettersInv, LetterTypes
  <2>2. turn' = turn
    BY <1>2 DEF turn
  <2> QED BY <1>2, <1>p, <2>1, <2>2 DEF LettersInv, LetterTypes
<1> QED BY <1>1, <1>2 DEF InterviewRoutine

LEMMA LhqCreateInv ==
    ASSUME LettersInv, program' = program, LhqCreate
    PROVE  LettersInv'
<1>1. thrd_num \in Nat /\ thrd_num > 0 /\ made \in Nat /\ made < thrd_num
  BY LettersAssumption DEF LhqCreate, LettersInv, LetterTypes
<1>2. /\ program = "abcd_lhq" /\ made' = made + 1
      /\ UNCHANGED <<status, writing, last, pen>>
      /\ writing = {} /\ locked = 0 .. made - 1 /\ last = thrd_num
  BY <1>1 DEF LhqCreate, LettersInv
<1>3. turn' = 0
  BY <1>2 DEF turn
<1>4. locked \cup {made} = 0 .. made
  BY <1>1, <1>2
<1>5. locked' = (0 .. made) \ (IF made' = thrd_num THEN {0} ELSE {})
  BY <1>4 DEF LhqCreate
<1>6. CASE made + 1 = thrd_num
  <2>1. 0 .. made = Threads
    BY <1>1, <1>6 DEF Threads
  <2>2. locked' = Threads \ {turn'}
    BY <1>2, <1>3, <1>5, <1>6, <2>1
  <2>3. LetterTypes'
    BY <1>1, <1>2, <1>6, <2>2 DEF LettersInv, LetterTypes
  <2> QED BY <1>1, <1>2, <1>6, <2>2, <2>3 DEF LettersInv
<1>7. CASE made + 1 < thrd_num
  <2>1. locked' = 0 .. made' - 1
    BY <1>1, <1>2, <1>5, <1>7
  <2>2. LetterTypes'
    BY <1>1, <1>2, <1>7, <2>1 DEF LettersInv, LetterTypes, Threads
  <2> QED BY <1>1, <1>2, <1>7, <2>1, <2>2 DEF LettersInv
<1> QED BY <1>1, <1>6, <1>7

LEMMA LhqLockInv ==
    ASSUME LettersInv, program' = program, NEW t \in Threads, LhqLock(t)
    PROVE  LettersInv'
<1>p. /\ program = "abcd_lhq" /\ t < made /\ t \notin locked \cup writing
      /\ locked' = locked \cup {t} /\ writing' = writing \cup {t}
      /\ UNCHANGED <<status, made, last, pen>>
  BY DEF LhqLock
<1>0. made \in Nat /\ t \in Nat
  BY DEF LettersInv, LetterTypes, Threads
<1>1. ~(made < thrd_num)
  <2> SUFFICES ASSUME made < thrd_num PROVE FALSE
    OBVIOUS
  <2>1. locked = 0 .. made - 1
    BY <1>p DEF LettersInv
  <2> QED BY <1>p, <1>0, <2>1
<1>2. writing = {} /\ locked = Threads \ {turn} /\ t = turn
  BY <1>p, <1>1 DEF LettersInv
<1>3. turn' = turn
  BY <1>p DEF turn
<1>4. locked' = Threads /\ writing' = {turn'}
  BY <1>p, <1>2, <1>3
<1>5. LetterTypes'
  BY <1>p, <1>2, <1>3, <1>4 DEF LettersInv, LetterTypes
<1> QED BY <1>p, <1>1, <1>4, <1>5 DEF LettersInv

LEMMA LhqWriteInv ==
    ASSUME LettersInv, program' = program, NEW t \in Threads, LhqWrite(t)
    PROVE  LettersInv'
<1>p. /\ program = "abcd_lhq" /\ t \in writing /\ last' = t
      /\ locked' = locked \ {next(t)} /\ writing' = writing \ {t}
      /\ UNCHANGED <<status, made>>
  BY DEF LhqWrite, Writes
<1>1. ~(made < thrd_num) /\ writing = {turn} /\ locked = Threads
  BY <1>p DEF LettersInv
<1>2. turn' = next(t)
  BY <1>p, TurnAfter
<1>3. writing' = {} /\ locked' = Threads \ {turn'}
  BY <1>p, <1>1, <1>2
<1>4. LetterTypes'
  BY <1>p, <1>3, NextFacts DEF LettersInv, LetterTypes
<1> QED BY <1>p, <1>1, <1>3, <1>4 DEF LettersInv

LEMMA LettersStepInv ==
    ASSUME LettersInv, [LettersNext]_letterVars, program' = program
    PROVE  LettersInv'
<1>1. CASE UNCHANGED letterVars
  BY <1>1 DEF letterVars, LettersInv, LetterTypes, turn
<1>2. CASE InterviewCreate
  <2>1. made' \in 0 .. thrd_num
    BY <1>2, LettersAssumption DEF InterviewCreate, LettersInv, LetterTypes
  <2> QED BY <1>2, <2>1 DEF InterviewCreate, LettersInv, LetterTypes, turn
<1> QED BY <1>1, <1>2, InterviewInv, LhqCreateInv, LhqLockInv, LhqWriteInv
        DEF LettersNext

\* Any number of threads, however they are scheduled: the letters come out in
\* turn.
THEOREM LettersInTurn == Spec => InTurn
<1>1. Init => LettersInv
  BY LettersInitInv DEF Init
<1>2. LettersInv /\ [Next]_MCvars => LettersInv'
  BY StepOfEach, LettersStepInv
<1>3. LettersInv /\ [Next]_MCvars =>
        [\E t \in Threads :
            last' = t /\ t = (IF last = thrd_num THEN 0 ELSE next(last))]_<<last, pen>>
  <2> SUFFICES ASSUME LettersInv, [LettersNext]_letterVars,
                      UNCHANGED <<last, pen>> => FALSE
               PROVE  \E t \in Threads : last' = t /\ t = turn
    BY StepOfEach DEF turn
  <2>1. PICK t \in Threads : InterviewRoutine(t) \/ LhqWrite(t)
    BY DEF LettersNext, InterviewCreate, LhqCreate, LhqLock, letterVars
  <2> QED BY <2>1, LettersTurn
<1> QED BY <1>1, <1>2, <1>3, PTL DEF Spec, InTurn

-----------------------------------------------------------------------------
\* The message queues.  Each message of myftp stands for a client that waits.
QueueStates == {"S_WAIT", "S_READ", "S_WRITE", "exit"}
QueueEnds == [state : QueueStates, mst : Messages]
Waiting == {c \in Clients : client[c].state = "S_READ"}
Held == IF server.state \in {"S_READ", "S_WRITE"} THEN 1 ELSE 0

QueueTypes ==
    /\ msq \in Seq(Messages)
    /\ server \in QueueEnds
    /\ client \in [Clients -> QueueEnds]
    /\ sent \in Nat /\ shown \in Nat

QueueBalance ==
    exists =>
        IF program = "msq" THEN sent = shown + Len(msq)
        ELSE /\ server.state # "exit" => Len(msq) + Held = Cardinality(Waiting)
             /\ Len(msq) <= Cardinality(Waiting)

QueuesInv == QueueTypes /\ QueueBalance

LEMMA EmptyIsMessage == Empty \in Messages
  BY DEF Empty, Messages

LEMMA WaitingCount ==
    IsFiniteSet(Waiting) /\ Cardinality(Waiting) \in Nat
  BY QueuesAssumption, FS_Subset, FS_CardinalityType DEF Waiting

LEMMA QueuesInitInv == QueuesInit => QueuesInv
<1> SUFFICES ASSUME QueuesInit PROVE QueuesInv
  OBVIOUS
<1>1. QueueTypes
  BY EmptyIsMessage, EmptySeq
     DEF QueuesInit, QueueTypes, QueueEnds, QueueStates
<1>2. Waiting = {} /\ Held = 0 /\ Len(msq) = 0
  BY DEF QueuesInit, Waiting, Held
<1>3. Cardinality(Waiting) = 0
  BY <1>2, FS_EmptySet
<1> QED BY <1>1, <1>2, <1>3 DEF QueuesInit, QueuesInv, QueueBalance

LEMMA SeqFacts ==
    ASSUME msq \in Seq(Messages)
    PROVE  /\ Len(msq) \in Nat
           /\ \A m \in Messages : /\ Append(msq, m) \in Seq(Messages)
                                  /\ Len(Append(msq, m)) = Len(msq) + 1
           /\ msq # <<>> => /\ Head(msq) \in Messages
                            /\ Tail(msq) \in Seq(Messages)
                            /\ Len(Tail(msq)) = Len(msq) - 1
                            /\ Len(msq) > 0
  BY AppendProperties, HeadTailProperties, EmptySeq, LenProperties

\* One client changes, and the number of those that wait accordingly.
LEMMA OneClient ==
    ASSUME QueueTypes, NEW c \in Clients, NEW r \in QueueEnds,
           client' = [client EXCEPT ![c] = r]
    PROVE  client' \in [Clients -> QueueEnds]
  BY DEF QueueTypes

LEMMA ClientWaits ==
    ASSUME QueueTypes, NEW c \in Clients, NEW r \in QueueEnds,
           client' = [client EXCEPT ![c] = r],
           r.state = "S_READ", client[c].state # "S_READ"
    PROVE  Cardinality(Waiting') = Cardinality(Waiting) + 1
<1>1. Waiting' = Waiting \cup {c} /\ c \notin Waiting
  BY DEF QueueTypes, Waiting
<1> QED BY <1>1, WaitingCount, FS_AddElement

LEMMA ClientHasWaited ==
    ASSUME QueueTypes, NEW c \in Clients, NEW r \in QueueEnds,
           client' = [client EXCEPT ![c] = r],
           r.state # "S_READ", client[c].state = "S_READ"
    PROVE  Cardinality(Waiting') = Cardinality(Waiting) - 1
<1>1. Waiting' = Waiting \ {c} /\ c \in Waiting
  BY DEF QueueTypes, Waiting
<1> QED BY <1>1, WaitingCount, FS_RemoveElement

LEMMA NobodyWaits ==
    ASSUME QueueTypes, NEW c \in Clients, NEW r \in QueueEnds,
           client' = [client EXCEPT ![c] = r],
           r.state # "S_READ", client[c].state # "S_READ"
    PROVE  Waiting' = Waiting
  BY DEF QueueTypes, Waiting

\* The same for the server.
LEMMA OneServer ==
    ASSUME QueueTypes, NEW r \in QueueEnds, server' = r
    PROVE  /\ server' \in QueueEnds /\ server'.state = r.state
           /\ Held' = IF r.state \in {"S_READ", "S_WRITE"} THEN 1 ELSE 0
  BY DEF Held

LEMMA QueueEnd ==
    ASSUME NEW s \in QueueStates, NEW m \in Messages
    PROVE  /\ [state |-> s, mst |-> m] \in QueueEnds
           /\ [state |-> s, mst |-> m].state = s
  BY DEF QueueEnds

LEMMA QueueEndWith ==
    ASSUME NEW r \in QueueEnds, NEW s \in QueueStates
    PROVE  /\ [r EXCEPT !.state = s] \in QueueEnds
           /\ [r EXCEPT !.state = s].state = s
           /\ r.state \in QueueStates /\ r.mst \in Messages
  BY DEF QueueEnds

LEMMA ServerSteps ==
    ASSUME QueuesInv, program' = program,
           \/ ServerReceives \/ ServerReads \/ ServerWrites \/ ServerFails
    PROVE  QueuesInv'
<1> USE WaitingCount DEF QueueBalance
<1>t. QueueTypes /\ QueueBalance /\ Len(msq) \in Nat /\ program = "myftp"
  BY SeqFacts DEF QueuesInv, QueueTypes,
                  ServerReceives, ServerReads, ServerWrites, ServerFails
<1>u. UNCHANGED <<exists, client, sent, shown>>
  BY DEF ServerReceives, ServerReads, ServerWrites, ServerFails
<1>w. Waiting' = Waiting
  BY <1>u DEF Waiting
<1>1. CASE ServerReceives
  <2>1. server' \in QueueEnds /\ server'.state = "S_READ"
    BY <1>1, <1>t, SeqFacts, QueueEnd DEF ServerReceives, QueueTypes, QueueStates
  <2>2. Held = 0 /\ Held' = 1
    BY <1>1, <2>1 DEF ServerReceives, Held
  <2>3. msq' \in Seq(Messages) /\ Len(msq') = Len(msq) - 1
    BY <1>1, <1>t, SeqFacts DEF ServerReceives, QueueTypes
  <2>4. QueueTypes'
    BY <1>t, <1>u, <2>1, <2>3 DEF QueueTypes
  <2>5. server.state # "exit"
    BY <1>1 DEF ServerReceives
  <2>6. QueueBalance'
    BY <1>t, <1>u, <1>w, <2>1, <2>2, <2>3, <2>5, <2>4, SeqFacts
  <2> QED BY <2>4, <2>6 DEF QueuesInv
<1>2. CASE ServerReads
  <2>1. server' \in QueueEnds /\ server'.state \in {"S_WRITE", "exit"}
    <3>1. CASE server' = [server EXCEPT !.state = "exit"]
      BY <1>t, <3>1, QueueEndWith DEF QueueTypes, QueueStates
    <3>2. CASE server' = [server EXCEPT !.state = "S_WRITE",
                                        !.mst.data = server.mst.filename]
      <4>1. /\ server' = [state |-> "S_WRITE",
                          mst |-> [server.mst EXCEPT !.data = server.mst.filename]]
        BY <1>t, <3>2 DEF QueueTypes, QueueEnds
      <4>2. [server.mst EXCEPT !.data = server.mst.filename] \in Messages
        BY <1>t DEF QueueTypes, QueueEnds, Messages
      <4> QED BY <4>1, <4>2, QueueEnd DEF QueueStates
    <3> QED BY <1>2, <3>1, <3>2 DEF ServerReads
  <2>2. Held = 1 /\ (server'.state = "S_WRITE" => Held' = 1) /\ msq' = msq
    BY <1>2, <2>1 DEF ServerReads, Held
  <2>3. server.state # "exit"
    BY <1>2 DEF ServerReads
  <2>4. QueueTypes'
    BY <1>t, <1>u, <2>1, <2>2 DEF QueueTypes
  <2>5. QueueBalance'
    BY <1>t, <1>u, <1>w, <2>1, <2>2, <2>3
  <2> QED BY <2>4, <2>5 DEF QueuesInv
<1>3. CASE ServerWrites
  <2>1. server' \in QueueEnds /\ server'.state = "S_WAIT"
    BY <1>3, <1>t, QueueEndWith DEF ServerWrites, QueueTypes, QueueStates
  <2>2. Held = 1 /\ Held' = 0 /\ server.state # "exit"
    BY <1>3, <2>1 DEF ServerWrites, Held
  <2>3. server.mst \in Messages
    BY <1>t DEF QueueTypes, QueueEnds
  <2>4. msq' \in Seq(Messages) /\ Len(msq') = Len(msq) + 1
    BY <1>3, <1>t, <2>3, SeqFacts DEF ServerWrites, QueueTypes
  <2>5. QueueTypes'
    BY <1>t, <1>u, <2>1, <2>4 DEF QueueTypes
  <2>6. QueueBalance'
    BY <1>t, <1>u, <1>w, <2>1, <2>2, <2>4
  <2> QED BY <2>5, <2>6 DEF QueuesInv
<1>4. CASE ServerFails
  <2>1. server' \in QueueEnds /\ msq' = msq /\ ~exists
    BY <1>4, <1>t, QueueEndWith DEF ServerFails, QueueTypes, QueueStates
  <2>2. QueueTypes'
    BY <1>t, <1>u, <2>1 DEF QueueTypes
  <2>3. QueueBalance'
    BY <1>u, <2>1
  <2> QED BY <2>2, <2>3 DEF QueuesInv
<1> QED BY <1>1, <1>2, <1>3, <1>4

\* A client waits when its request is in the queue, and no longer when it has
\* taken a message.
LEMMA ClientSteps ==
    ASSUME QueuesInv, program' = program, NEW c \in Clients,
           \/ ClientSends(c) \/ ClientEnds(c)
           \/ ClientReceives(c) \/ ClientShows(c) \/ ClientFails(c)
    PROVE  QueuesInv'
<1> USE WaitingCount DEF QueueBalance
<1>t. QueueTypes /\ QueueBalance /\ Len(msq) \in Nat /\ program = "myftp"
  BY SeqFacts DEF QueuesInv, QueueTypes,
                  ClientSends, ClientEnds, ClientReceives, ClientShows, ClientFails
<1>u. UNCHANGED <<server, sent, shown>>
  BY DEF ClientSends, ClientEnds, ClientReceives, ClientShows, ClientFails
<1>h. Held' = Held /\ Held \in {0, 1}
  BY <1>u DEF Held
<1>c. client[c] \in QueueEnds /\ client \in [Clients -> QueueEnds]
  BY <1>t DEF QueueTypes
<1>1. CASE ClientSends(c)
  <2>1. PICK name \in Names :
            LET mst == [client[c].mst EXCEPT !.filename = name]
            IN  IF exists
                THEN /\ client' = [client EXCEPT ![c] = [state |-> "S_READ", mst |-> mst]]
                     /\ msq' = Append(msq, mst)
                ELSE /\ client' = [client EXCEPT ![c] = [state |-> "exit", mst |-> mst]]
                     /\ UNCHANGED msq
    BY <1>1 DEF ClientSends
  <2> DEFINE mst == [client[c].mst EXCEPT !.filename = name]
  <2>2. mst \in Messages
    BY <1>c DEF QueueEnds, Messages
  <2>3. client[c].state = "S_WAIT" /\ exists' = exists
    BY <1>1 DEF ClientSends
  <2>4. CASE exists
    <3>1. /\ client' = [client EXCEPT ![c] = [state |-> "S_READ", mst |-> mst]]
          /\ msq' = Append(msq, mst)
      BY <2>1, <2>4
    <3> HIDE DEF mst
    <3>2. /\ client' \in [Clients -> QueueEnds]
          /\ Cardinality(Waiting') = Cardinality(Waiting) + 1
      <4> DEFINE r == [state |-> "S_READ", mst |-> mst]
      <4>1. r \in QueueEnds /\ r.state = "S_READ"
        BY <2>2, QueueEnd DEF QueueStates
      <4>2. client' = [client EXCEPT ![c] = r] /\ client[c].state # "S_READ"
        BY <2>3, <3>1
      <4> HIDE DEF r
      <4> QED BY <1>t, <4>1, <4>2, OneClient, ClientWaits
    <3>3. msq' \in Seq(Messages) /\ Len(msq') = Len(msq) + 1
      BY <1>t, <2>2, <3>1, SeqFacts DEF QueueTypes
    <3>4. QueueTypes'
      BY <1>t, <1>u, <3>2, <3>3 DEF QueueTypes
    <3>5. QueueBalance'
      BY <1>t, <1>u, <1>h, <2>3, <3>2, <3>3
    <3> QED BY <3>4, <3>5 DEF QueuesInv
  <2>5. CASE ~exists
    <3>1. /\ client' = [client EXCEPT ![c] = [state |-> "exit", mst |-> mst]]
          /\ msq' = msq
      BY <2>1, <2>5
    <3> HIDE DEF mst
    <3>2. client' \in [Clients -> QueueEnds]
      BY <1>t, <2>2, <3>1, OneClient, QueueEnd DEF QueueStates
    <3> QED BY <1>t, <1>u, <2>3, <2>5, <3>1, <3>2 DEF QueuesInv, QueueTypes
  <2> QED BY <2>4, <2>5
<1>2. CASE ClientEnds(c) \/ ClientFails(c)
  <2>1. client' = [client EXCEPT ![c].state = "exit"] /\ ~exists'
    BY <1>2 DEF ClientEnds, ClientFails
  <2>2. client' \in [Clients -> QueueEnds]
    BY <2>1, <1>c, QueueEndWith DEF QueueStates, QueueEnds
  <2>3. msq' \in Seq(Messages)
    BY <1>2, <1>t, EmptySeq DEF ClientEnds, ClientFails, QueueTypes
  <2> QED BY <1>t, <1>u, <2>1, <2>2, <2>3 DEF QueuesInv, QueueTypes
<1>3. CASE ClientReceives(c)
  <2>1. /\ client' = [client EXCEPT ![c] = [state |-> "S_WRITE", mst |-> Head(msq)]]
        /\ msq' = Tail(msq) /\ exists' = exists /\ exists /\ msq # <<>>
        /\ client[c].state = "S_READ"
    BY <1>3 DEF ClientReceives
  <2>2. /\ Head(msq) \in Messages /\ msq' \in Seq(Messages)
        /\ Len(msq') = Len(msq) - 1 /\ Len(msq) > 0
    BY <1>t, <2>1, SeqFacts DEF QueueTypes
  <2>3. /\ client' \in [Clients -> QueueEnds]
        /\ Cardinality(Waiting') = Cardinality(Waiting) - 1
    <3> DEFINE r == [state |-> "S_WRITE", mst |-> Head(msq)]
    <3>1. r \in QueueEnds /\ r.state # "S_READ"
      BY <2>2, QueueEnd DEF QueueStates
    <3>2. client' = [client EXCEPT ![c] = r]
      BY <2>1
    <3> HIDE DEF r
    <3> QED BY <1>t, <2>1, <3>1, <3>2, OneClient, ClientHasWaited
  <2>4. QueueTypes'
    BY <1>t, <1>u, <2>2, <2>3 DEF QueueTypes
  <2>5. QueueBalance'
    BY <1>t, <1>u, <1>h, <2>1, <2>2, <2>3
  <2> QED BY <2>4, <2>5 DEF QueuesInv
<1>4. CASE ClientShows(c)
  <2>1. /\ client' = [client EXCEPT ![c].state = "S_WAIT"]
        /\ msq' = msq /\ exists' = exists /\ client[c].state = "S_WRITE"
    BY <1>4 DEF ClientShows
  <2> DEFINE r == [client[c] EXCEPT !.state = "S_WAIT"]
  <2>2. r \in QueueEnds /\ r.state = "S_WAIT"
    BY <1>c, QueueEndWith DEF QueueStates
  <2>3. client' = [client EXCEPT ![c] = r]
    BY <1>c, <2>1
  <2> HIDE DEF r
  <2>4. /\ client' \in [Clients -> QueueEnds]
        /\ Cardinality(Waiting') = Cardinality(Waiting)
    BY <1>t, <2>1, <2>2, <2>3, OneClient, NobodyWaits
  <2>5. QueueTypes'
    BY <1>t, <1>u, <2>1, <2>4 DEF QueueTypes
  <2>6. QueueBalance'
    BY <1>t, <1>u, <1>h, <2>1, <2>4
  <2> QED BY <2>5, <2>6 DEF QueuesInv
<1> QED BY <1>1, <1>2, <1>3, <1>4

LEMMA MsqSteps ==
    ASSUME QueuesInv, program' = program,
           SenderSends \/ ReceiverShows \/ ReceiverInterrupted \/ ReceiverFails
    PROVE  QueuesInv'
<1> USE DEF QueueBalance
<1>t. QueueTypes /\ QueueBalance /\ Len(msq) \in Nat /\ program = "msq"
  BY SeqFacts DEF QueuesInv, QueueTypes,
                  SenderSends, ReceiverShows, ReceiverInterrupted, ReceiverFails
<1>1. CASE SenderSends
  <2>1. /\ msq' = IF exists THEN Append(msq, Empty) ELSE msq
        /\ sent' = IF exists THEN sent + 1 ELSE sent
        /\ UNCHANGED <<exists, server, client, shown>>
    BY <1>1 DEF SenderSends
  <2>2. /\ msq' \in Seq(Messages)
        /\ exists => Len(msq') = Len(msq) + 1
    BY <1>t, <2>1, SeqFacts, EmptyIsMessage DEF QueueTypes
  <2>3. QueueTypes'
    BY <1>t, <2>1, <2>2 DEF QueueTypes
  <2>4. QueueBalance'
    BY <1>t, <2>1, <2>2 DEF QueueTypes
  <2> QED BY <2>3, <2>4 DEF QueuesInv
<1>2. CASE ReceiverShows
  <2>1. /\ msq' \in Seq(Messages) /\ Len(msq') = Len(msq) - 1
        /\ shown' = shown + 1 /\ UNCHANGED <<exists, server, client, sent>> /\ exists
    BY <1>2, <1>t, SeqFacts DEF ReceiverShows, QueueTypes
  <2>2. QueueTypes'
    BY <1>t, <2>1 DEF QueueTypes
  <2>3. QueueBalance'
    BY <1>t, <2>1 DEF QueueTypes
  <2> QED BY <2>2, <2>3 DEF QueuesInv
<1>3. CASE ReceiverInterrupted
  <2>1. /\ msq' \in Seq(Messages) /\ ~exists'
        /\ UNCHANGED <<server, client, sent, shown>>
    BY <1>3, EmptySeq DEF ReceiverInterrupted
  <2> QED BY <1>t, <2>1 DEF QueuesInv, QueueTypes
<1>4. CASE ReceiverFails
  <2>1. server' = [server EXCEPT !.state = "exit"] /\ ~exists'
        /\ UNCHANGED <<msq, client, sent, shown>>
    BY <1>4 DEF ReceiverFails
  <2>2. server' \in QueueEnds
    BY <1>t, <2>1, QueueEndWith DEF QueueTypes, QueueStates
  <2> QED BY <1>t, <2>1, <2>2 DEF QueuesInv, QueueTypes
<1> QED BY <1>1, <1>2, <1>3, <1>4

LEMMA QueuesStepInv ==
    ASSUME QueuesInv, [QueuesNext]_queueVars, program' = program
    PROVE  QueuesInv'
<1>1. CASE UNCHANGED queueVars
  BY <1>1 DEF queueVars, QueuesInv, QueueTypes, QueueBalance, Waiting, Held
<1> QED BY <1>1, ServerSteps, ClientSteps, MsqSteps DEF QueuesNext

\* Any number of clients and names: no client of myftp is left without a
\* message on its way, and no record of msq is lost while its queue exists.
THEOREM ClientsNotStranded == Spec => []NoneStranded
<1>1. Init => QueuesInv
  BY QueuesInitInv DEF Init
<1>2. QueuesInv /\ [Next]_MCvars => QueuesInv'
  BY StepOfEach, QueuesStepInv
<1>3. QueuesInv => NoneStranded
  BY DEF QueuesInv, QueueBalance, NoneStranded, Waiting, Held
<1> QED BY <1>1, <1>2, <1>3, PTL DEF Spec

-----------------------------------------------------------------------------
\* The list of the radio.  Of the two loops of the server the first adds up the
\* offsets at which the second writes, and the walk of the client steps from
\* one of them to the next.
ListSize == Len(list_entry)

Offsets(off, n) ==
    /\ off \in [1 .. n -> Nat]
    /\ off[1] = ChnIdSize
    /\ \A k \in 1 .. n - 1 : off[k + 1] = off[k] + EntrySize(k)
    /\ \A j, k \in 1 .. n : j < k => off[j] < off[k]

Packed(off, n) ==
    \A k \in 1 .. n : off[k] \in DOMAIN packet /\ packet[off[k]] = EntryOf(k)

Walked(off) ==
    \E j \in 0 .. ListSize :
        /\ radioclient.shown = [k \in 1 .. j |-> EntryOf(k)]
        /\ radioclient.pos = off[j + 1]
        /\ radioclient.len = off[ListSize + 1]

PackerTypes == [at : {"idle", "size", "pack", "send"}, i : Nat, entryptr : Nat,
                totalsize : Nat]
WalkerTypes == [at : {"setup", "receive", "walk", "choose", "exit"},
                chnid : Int, len : Int, pos : Nat, shown : Seq(Written)]

ListTypes ==
    /\ list_entry \in Seq([chnid : Nat \ {0}, desc : Nat])
    /\ packer \in PackerTypes
    /\ radioclient \in WalkerTypes
    /\ packer.i \in 1 .. ListSize + 1

Summing ==
    /\ packer.entryptr = ChnIdSize
    /\ \E off : Offsets(off, packer.i) /\ packer.totalsize = off[packer.i]

Packing ==
    \E off :
        /\ Offsets(off, ListSize + 1)
        /\ packer.totalsize = off[ListSize + 1]
        /\ packer.entryptr = off[packer.i]
        /\ Packed(off, packer.i - 1)
        /\ packer.at = "send" => packer.i = ListSize + 1
        /\ radioclient.at = "walk" /\ radioclient.len >= 0 => Walked(off)

Fresh == radioclient.pos = ChnIdSize /\ radioclient.shown = <<>>

Walking ==
    /\ radioclient.at \in {"setup", "receive"} => Fresh
    /\ radioclient.at = "walk" =>
            IF radioclient.len < 0 THEN Fresh ELSE packer.at = "send"
    /\ radioclient.at = "choose" =>
        \/ /\ packer.at = "send"
           /\ radioclient.shown = [k \in 1 .. ListSize |-> EntryOf(k)]
        \/ radioclient.len < 0 /\ radioclient.shown = <<>>

ListInv ==
    /\ ListTypes
    /\ packer.at \in {"idle", "size"} => Summing
    /\ packer.at = "idle" => packer.i = 1
    /\ packer.at \in {"pack", "send"} => Packing
    /\ Walking

LEMMA ListInitInv == ListInit => ListInv
<1> SUFFICES ASSUME ListInit PROVE ListInv
  OBVIOUS
<1> USE DEF ChnIdSize
<1>1. ListTypes
  BY EmptySeq DEF ListInit, ListTypes, PackerTypes, WalkerTypes, ListSize
<1>2. Summing
  <2> DEFINE off == [k \in 1 .. 1 |-> 1]
  <2>1. Offsets(off, 1)
    BY DEF Offsets
  <2> QED BY <2>1 DEF ListInit, Summing
<1>3. Walking
  BY DEF ListInit, Walking, Fresh
<1> QED BY <1>1, <1>2, <1>3 DEF ListInit, ListInv

LEMMA EntryFacts ==
    ASSUME ListTypes, NEW k \in 1 .. ListSize
    PROVE  /\ EntrySize(k) \in Nat /\ EntrySize(k) > 0
           /\ EntryOf(k) \in Written /\ EntryOf(k).len = EntrySize(k)
<1>1. list_entry[k] \in [chnid : Nat \ {0}, desc : Nat]
  BY ElementOfSeq DEF ListTypes, ListSize
<1> QED BY <1>1 DEF EntrySize, EntryOf, InfoSize, Written

LEMMA SizeFacts == ListTypes => ListSize \in Nat /\ DOMAIN list_entry = 1 .. ListSize
  BY LenProperties DEF ListTypes, ListSize

\* One more offset
LEMMA OffsetsGrow ==
    ASSUME ListTypes, NEW n \in 1 .. ListSize, NEW off, Offsets(off, n)
    PROVE  \E more : /\ Offsets(more, n + 1)
                     /\ more[n + 1] = off[n] + EntrySize(n)
<1> DEFINE more == [k \in 1 .. n + 1 |->
                        IF k = n + 1 THEN off[n] + EntrySize(n) ELSE off[k]]
<1>0. n \in Nat /\ n >= 1 /\ ListSize \in Nat
  BY SizeFacts
<1>1. EntrySize(n) \in Nat /\ EntrySize(n) > 0
  BY EntryFacts
<1>2. /\ off \in [1 .. n -> Nat] /\ off[1] = ChnIdSize /\ off[n] \in Nat
      /\ \A k \in 1 .. n - 1 : off[k + 1] = off[k] + EntrySize(k)
      /\ \A j, k \in 1 .. n : j < k => off[j] < off[k]
  BY <1>0 DEF Offsets
<1>3. /\ more \in [1 .. n + 1 -> Nat]
      /\ \A k \in 1 .. n : more[k] = off[k]
      /\ more[n + 1] = off[n] + EntrySize(n)
  BY <1>0, <1>1, <1>2
<1> HIDE DEF more
<1>4. more[1] = ChnIdSize
  BY <1>0, <1>2, <1>3
<1>5. \A k \in 1 .. (n + 1) - 1 : more[k + 1] = more[k] + EntrySize(k)
  <2> SUFFICES ASSUME NEW k \in 1 .. n
               PROVE  more[k + 1] = more[k] + EntrySize(k)
    BY <1>0
  <2>1. CASE k = n
    BY <2>1, <1>0, <1>3
  <2>2. CASE k # n
    <3>1. k \in 1 .. n - 1 /\ k + 1 \in 1 .. n
      BY <2>2, <1>0
    <3> QED BY <3>1, <1>2, <1>3
  <2> QED BY <2>1, <2>2
<1>6. \A j, k \in 1 .. n + 1 : j < k => more[j] < more[k]
  <2> SUFFICES ASSUME NEW j \in 1 .. n + 1, NEW k \in 1 .. n + 1, j < k
               PROVE  more[j] < more[k]
    OBVIOUS
  <2>1. j \in 1 .. n /\ more[j] = off[j] /\ off[j] \in Nat
    BY <1>0, <1>2, <1>3
  <2>2. CASE k = n + 1
    <3>1. off[j] <= off[n]
      BY <2>1, <1>0, <1>2
    <3> QED BY <3>1, <2>1, <2>2, <1>1, <1>2, <1>3
  <2>3. CASE k # n + 1
    <3>1. k \in 1 .. n
      BY <2>3, <1>0
    <3> QED BY <3>1, <2>1, <1>2, <1>3
  <2> QED BY <2>2, <2>3
<1> QED BY <1>3, <1>4, <1>5, <1>6 DEF Offsets

LEMMA PackerFields ==
    ASSUME packer \in PackerTypes
    PROVE  /\ packer.i \in Nat /\ packer.entryptr \in Nat
           /\ packer.totalsize \in Nat
           /\ packer.at \in {"idle", "size", "pack", "send"}
  BY DEF PackerTypes

LEMMA PackerSums ==
    ASSUME packer \in PackerTypes, NEW n \in Nat, NEW t \in Nat,
           packer' = [packer EXCEPT !.i = n, !.totalsize = t]
    PROVE  /\ packer' \in PackerTypes /\ packer'.at = packer.at /\ packer'.i = n
           /\ packer'.entryptr = packer.entryptr /\ packer'.totalsize = t
  BY DEF PackerTypes

LEMMA PackerPacks ==
    ASSUME packer \in PackerTypes, NEW n \in Nat, NEW t \in Nat,
           packer' = [packer EXCEPT !.i = n, !.entryptr = t]
    PROVE  /\ packer' \in PackerTypes /\ packer'.at = packer.at /\ packer'.i = n
           /\ packer'.entryptr = t /\ packer'.totalsize = packer.totalsize
  BY DEF PackerTypes

LEMMA PackerTurns ==
    ASSUME packer \in PackerTypes, NEW a \in {"idle", "size", "pack", "send"},
           NEW n \in Nat,
           \/ packer' = [packer EXCEPT !.i = n, !.at = a]
           \/ packer' = [packer EXCEPT !.at = a] /\ packer.i = n
    PROVE  /\ packer' \in PackerTypes /\ packer'.at = a /\ packer'.i = n
           /\ packer'.entryptr = packer.entryptr
           /\ packer'.totalsize = packer.totalsize
  BY DEF PackerTypes

\* Before the list is sent the client has none.
LEMMA ClientHasNone ==
    ASSUME ListInv, packer.at # "send", UNCHANGED radioclient
    PROVE  /\ ~(radioclient.at = "walk" /\ radioclient.len >= 0)
           /\ Walking'
<1>1. radioclient.at = "walk" => radioclient.len < 0
  BY DEF ListInv, Walking
<1>2. radioclient \in WalkerTypes
  BY DEF ListInv, ListTypes
<1>3. radioclient.len \in Int
  BY <1>2 DEF WalkerTypes
<1> QED BY <1>1, <1>3 DEF ListInv, Walking, Fresh

LEMMA ListCreateInv ==
    ASSUME ListInv, ListCreate PROVE ListInv'
<1>1. /\ list_entry' \in RadioLists /\ packer.at = "idle" /\ packer.i = 1
      /\ packer' = [packer EXCEPT !.at = "size"]
      /\ UNCHANGED <<packet, radioclient>>
      /\ packer \in PackerTypes
  BY DEF ListCreate, ListInv, ListTypes
<1>a. "size" \in {"idle", "size", "pack", "send"} /\ 1 \in Nat
  OBVIOUS
<1>2. /\ packer' \in PackerTypes /\ packer'.at = "size" /\ packer'.i = 1
      /\ packer'.entryptr = packer.entryptr
      /\ packer'.totalsize = packer.totalsize
  BY <1>1, <1>a, PackerTurns
<1>3. list_entry' \in Seq([chnid : Nat \ {0}, desc : Nat])
  BY <1>1, ListAssumption
<1>4. ListTypes'
  <2>1. Len(list_entry') \in Nat
    BY <1>3, LenProperties
  <2> QED BY <1>1, <1>2, <1>3, <2>1 DEF ListInv, ListTypes, ListSize
<1>5. Summing'
  <2>1. PICK off : Offsets(off, 1) /\ packer.totalsize = off[1]
    BY <1>1 DEF ListInv, Summing
  <2>2. Offsets(off, 1)'
    BY <2>1 DEF Offsets
  <2>3. packer'.entryptr = ChnIdSize
    BY <1>1, <1>2 DEF ListInv, Summing
  <2> QED BY <1>2, <2>1, <2>2, <2>3 DEF Summing
<1>6. Walking'
  BY <1>1, ClientHasNone
<1> QED BY <1>2, <1>4, <1>5, <1>6 DEF ListInv

LEMMA SumSizeInv ==
    ASSUME ListInv, SumSize PROVE ListInv'
<1>1. /\ packer.at = "size" /\ UNCHANGED <<list_entry, packet, radioclient>>
      /\ packer \in PackerTypes /\ packer.i \in 1 .. ListSize + 1
      /\ packer.entryptr = ChnIdSize /\ ListTypes /\ ListSize \in Nat
      /\ packer.i \in Nat
  BY SizeFacts, PackerFields DEF SumSize, ListInv, ListTypes, Summing
<1>2. PICK off : Offsets(off, packer.i) /\ packer.totalsize = off[packer.i]
  BY <1>1 DEF ListInv, Summing
<1>w. Walking'
  BY <1>1, ClientHasNone
<1>s. ListSize' = ListSize /\ \A k : EntrySize(k)' = EntrySize(k)
  BY <1>1 DEF ListSize, EntrySize
<1>3. CASE packer.i <= Len(list_entry)
  <2>2. packer.i \in 1 .. ListSize
    BY <1>1, <1>3 DEF ListSize
  <2>a. packer.totalsize \in Nat /\ EntrySize(packer.i) \in Nat
    BY <1>1, <2>2, EntryFacts, PackerFields
  <2>b. PICK n \in Nat : n = packer.i + 1
    BY <1>1
  <2>c. PICK t \in Nat : t = packer.totalsize + EntrySize(packer.i)
    BY <2>a
  <2>1. packer' = [packer EXCEPT !.i = n, !.totalsize = t]
    BY <1>3, <1>1, <2>b, <2>c DEF SumSize
  <2>3. n \in 1 .. ListSize + 1
    BY <1>1, <2>2, <2>b
  <2>4. PICK more : Offsets(more, n) /\ more[n] = t
    BY <1>1, <1>2, <2>2, <2>b, <2>c, OffsetsGrow
  <2>5. /\ packer' \in PackerTypes /\ packer'.at = "size" /\ packer'.i = n
        /\ packer'.entryptr = packer.entryptr /\ packer'.totalsize = t
    BY <1>1, <2>1, PackerSums
  <2>6. Offsets(more, n)'
    BY <2>4, <1>s DEF Offsets
  <2>7. Summing'
    BY <1>1, <2>4, <2>5, <2>6 DEF Summing, Offsets
  <2>8. ListTypes'
    BY <1>1, <1>s, <2>3, <2>5 DEF ListTypes
  <2> QED BY <1>w, <2>5, <2>7, <2>8 DEF ListInv
<1>4. CASE packer.i > Len(list_entry)
  <2>1. packer' = [packer EXCEPT !.i = 1, !.at = "pack"]
    BY <1>4, <1>1 DEF SumSize, ListSize
  <2>2. 1 \in Nat /\ "pack" \in {"idle", "size", "pack", "send"}
    OBVIOUS
  <2>3. /\ packer' \in PackerTypes /\ packer'.at = "pack" /\ packer'.i = 1
        /\ packer'.entryptr = packer.entryptr
        /\ packer'.totalsize = packer.totalsize
    BY <1>1, <2>1, <2>2, PackerTurns
  <2>4. packer.i = ListSize + 1
    BY <1>1, <1>4 DEF ListSize
  <2>5. Offsets(off, ListSize + 1)' /\ off[1] = ChnIdSize
    BY <1>2, <2>4, <1>s DEF Offsets
  <2>6. Packed(off, packer.i - 1)'
    BY <2>3 DEF Packed
  <2>7. ~(radioclient.at = "walk" /\ radioclient.len >= 0)'
    BY <1>1, ClientHasNone
  <2>8. Packing'
    BY <1>1, <1>2, <1>s, <2>3, <2>4, <2>5, <2>6, <2>7 DEF Packing
  <2>9. ListTypes'
    BY <1>1, <1>s, <2>3 DEF ListTypes
  <2> QED BY <1>w, <2>3, <2>8, <2>9 DEF ListInv
<1>5. Len(list_entry) \in Nat
  BY <1>1 DEF ListSize
<1> QED BY <1>1, <1>3, <1>4, <1>5

LEMMA PackInv ==
    ASSUME ListInv, Pack PROVE ListInv'
<1>1. /\ packer.at = "pack" /\ UNCHANGED <<list_entry, radioclient>>
      /\ packer \in PackerTypes /\ packer.i \in Nat
      /\ ListTypes /\ ListSize \in Nat /\ packer.i \in 1 .. ListSize
  BY SizeFacts, PackerFields DEF Pack, ListInv, ListTypes, ListSize
<1>2. PICK off : /\ Offsets(off, ListSize + 1)
                 /\ packer.totalsize = off[ListSize + 1]
                 /\ packer.entryptr = off[packer.i]
                 /\ Packed(off, packer.i - 1)
  BY <1>1 DEF ListInv, Packing
<1>w. Walking'
  BY <1>1, ClientHasNone
<1>s. ListSize' = ListSize /\ (\A k : EntrySize(k)' = EntrySize(k))
      /\ \A k : EntryOf(k)' = EntryOf(k)
  BY <1>1 DEF ListSize, EntrySize, EntryOf
<1>a. packer.entryptr \in Nat /\ EntrySize(packer.i) \in Nat
  BY <1>1, EntryFacts, PackerFields
<1>b. PICK n \in Nat : n = packer.i + 1
  BY <1>1
<1>c. PICK t \in Nat : t = packer.entryptr + EntrySize(packer.i)
  BY <1>a
<1>3. packer' = [packer EXCEPT !.i = n, !.entryptr = t]
  BY <1>1, <1>b, <1>c DEF Pack
<1>4. n \in 1 .. ListSize + 1 /\ n - 1 = packer.i
  BY <1>1, <1>b
<1>5. off[n] = t
  BY <1>1, <1>2, <1>b, <1>c DEF Offsets
<1>6. /\ packer' \in PackerTypes /\ packer'.at = "pack" /\ packer'.i = n
      /\ packer'.entryptr = t /\ packer'.totalsize = packer.totalsize
  BY <1>1, <1>3, PackerPacks
<1>7. Offsets(off, ListSize + 1)'
  BY <1>2, <1>s DEF Offsets
<1>8. Packed(off, packer.i - 1)'
  <2> SUFFICES ASSUME NEW k \in 1 .. packer.i
               PROVE  off[k] \in DOMAIN packet' /\ packet'[off[k]] = EntryOf(k)
    BY <1>s, <1>6, <1>4 DEF Packed
  <2>1. packet' = [p \in DOMAIN packet \cup {off[packer.i]} |->
                    IF p = off[packer.i] THEN EntryOf(packer.i) ELSE packet[p]]
    BY <1>2 DEF Pack, WrittenAt
  <2>2. CASE k = packer.i
    BY <2>1, <2>2
  <2>3. CASE k # packer.i
    <3>1. k \in 1 .. packer.i - 1
      BY <1>1, <2>3
    <3>2. off[k] \in DOMAIN packet /\ packet[off[k]] = EntryOf(k)
      BY <1>2, <3>1 DEF Packed
    <3>a. /\ k \in 1 .. ListSize + 1 /\ packer.i \in 1 .. ListSize + 1
          /\ k < packer.i
      BY <1>1, <3>1
    <3>3. off[k] < off[packer.i] /\ off[k] \in Nat /\ off[packer.i] \in Nat
      BY <1>2, <3>a DEF Offsets
    <3> QED BY <2>1, <3>2, <3>3
  <2> QED BY <2>2, <2>3
<1>9. ~(radioclient.at = "walk" /\ radioclient.len >= 0)'
  BY <1>1, ClientHasNone
<1>10. Packing'
  BY <1>2, <1>s, <1>5, <1>6, <1>7, <1>8, <1>9 DEF Packing
<1>11. ListTypes'
  BY <1>1, <1>s, <1>4, <1>6 DEF ListTypes
<1> QED BY <1>w, <1>6, <1>10, <1>11 DEF ListInv

LEMMA StartSendingInv ==
    ASSUME ListInv, StartSending PROVE ListInv'
<1>1. /\ packer.at = "pack" /\ UNCHANGED <<list_entry, packet, radioclient>>
      /\ packer \in PackerTypes /\ packer.i \in Nat
      /\ ListTypes /\ ListSize \in Nat /\ packer.i = ListSize + 1
      /\ packer' = [packer EXCEPT !.at = "send"]
      /\ "send" \in {"idle", "size", "pack", "send"}
  <2>1. ListTypes /\ ListSize \in Nat /\ packer.i \in Nat
    BY SizeFacts, PackerFields DEF ListInv, ListTypes
  <2>2. packer.i = ListSize + 1
    BY <2>1 DEF StartSending, ListTypes, ListSize
  <2> QED BY <2>1, <2>2 DEF StartSending, ListTypes
<1>2. /\ packer' \in PackerTypes /\ packer'.at = "send" /\ packer'.i = packer.i
      /\ packer'.entryptr = packer.entryptr
      /\ packer'.totalsize = packer.totalsize
  BY <1>1, PackerTurns
<1>s. ListSize' = ListSize /\ (\A k : EntrySize(k)' = EntrySize(k))
      /\ \A k : EntryOf(k)' = EntryOf(k)
  BY <1>1 DEF ListSize, EntrySize, EntryOf
<1>3. PICK off : /\ Offsets(off, ListSize + 1)
                 /\ packer.totalsize = off[ListSize + 1]
                 /\ packer.entryptr = off[packer.i]
                 /\ Packed(off, packer.i - 1)
  BY <1>1 DEF ListInv, Packing
<1>4. Offsets(off, ListSize + 1)' /\ Packed(off, packer.i - 1)'
  BY <1>1, <1>2, <1>3, <1>s DEF Offsets, Packed
<1>5. Walking' /\ ~(radioclient.at = "walk" /\ radioclient.len >= 0)'
  BY <1>1, ClientHasNone
<1>6. Packing'
  BY <1>1, <1>2, <1>3, <1>4, <1>5, <1>s DEF Packing
<1>7. ListTypes'
  BY <1>1, <1>2, <1>s DEF ListTypes
<1> QED BY <1>2, <1>5, <1>6, <1>7 DEF ListInv

\* A step of the client that leaves it with a state of which the invariant holds
LEMMA ClientStep ==
    ASSUME ListInv, UNCHANGED <<list_entry, packer, packet>>,
           radioclient' \in WalkerTypes, Walking',
           NEW off, packer.at = "send" =>
                        /\ Offsets(off, ListSize + 1)
                        /\ packer.totalsize = off[ListSize + 1]
                        /\ packer.entryptr = off[packer.i]
                        /\ Packed(off, packer.i - 1)
                        /\ packer.i = ListSize + 1
                        /\ (radioclient'.at = "walk" /\ radioclient'.len >= 0)
                                => Walked(off)'
    PROVE  ListInv'
<1>s. ListSize' = ListSize /\ (\A k : EntrySize(k)' = EntrySize(k))
      /\ \A k : EntryOf(k)' = EntryOf(k)
  BY DEF ListSize, EntrySize, EntryOf
<1>1. ListTypes'
  BY <1>s DEF ListInv, ListTypes
<1>2. packer.at \in {"idle", "size"} => Summing'
  <2> SUFFICES ASSUME packer.at \in {"idle", "size"} PROVE Summing'
    OBVIOUS
  <2>1. PICK o : Offsets(o, packer.i) /\ packer.totalsize = o[packer.i]
    BY DEF ListInv, Summing
  <2>2. Offsets(o, packer.i)'
    BY <2>1, <1>s DEF Offsets
  <2> QED BY <2>1, <2>2 DEF ListInv, Summing
<1>3. packer.at = "send" => Packing'
  <2> SUFFICES ASSUME packer.at = "send" PROVE Packing'
    OBVIOUS
  <2>1. Offsets(off, ListSize + 1)' /\ Packed(off, packer.i - 1)'
    BY <1>s DEF Offsets, Packed
  <2> QED BY <1>s, <2>1 DEF Packing
<1>4. packer.at = "pack" => Packing'
  <2> SUFFICES ASSUME packer.at = "pack" PROVE Packing'
    OBVIOUS
  <2>1. PICK o : /\ Offsets(o, ListSize + 1)
                 /\ packer.totalsize = o[ListSize + 1]
                 /\ packer.entryptr = o[packer.i]
                 /\ Packed(o, packer.i - 1)
    BY DEF ListInv, Packing
  <2>2. Offsets(o, ListSize + 1)' /\ Packed(o, packer.i - 1)'
    BY <2>1, <1>s DEF Offsets, Packed
  <2>3. ~(radioclient.at = "walk" /\ radioclient.len >= 0)'
    <3>1. radioclient'.len \in Int
      BY DEF WalkerTypes
    <3> QED BY <3>1 DEF Walking
  <2> QED BY <1>s, <2>1, <2>2, <2>3 DEF Packing
<1>5. packer'.at \in {"idle", "size", "pack", "send"}
  BY <1>1, PackerFields DEF ListTypes
<1> QED BY <1>1, <1>2, <1>3, <1>4, <1>5 DEF ListInv

WalkerStates == {"setup", "receive", "walk", "choose", "exit"}

LEMMA WalkerMoves ==
    ASSUME radioclient \in WalkerTypes, NEW a \in WalkerStates,
           radioclient' = [radioclient EXCEPT !.at = a]
    PROVE  /\ radioclient' \in WalkerTypes /\ radioclient'.at = a
           /\ radioclient'.len = radioclient.len
           /\ radioclient'.pos = radioclient.pos
           /\ radioclient'.shown = radioclient.shown
  BY DEF WalkerTypes, WalkerStates

LEMMA WalkerTakes ==
    ASSUME radioclient \in WalkerTypes, NEW a \in WalkerStates,
           NEW c \in Int, NEW l \in Int,
           radioclient' = [radioclient EXCEPT !.chnid = c, !.len = l, !.at = a]
    PROVE  /\ radioclient' \in WalkerTypes /\ radioclient'.at = a
           /\ radioclient'.len = l
           /\ radioclient'.pos = radioclient.pos
           /\ radioclient'.shown = radioclient.shown
  BY DEF WalkerTypes, WalkerStates

LEMMA WalkerWalks ==
    ASSUME radioclient \in WalkerTypes, NEW p \in Nat, NEW s \in Seq(Written),
           radioclient' = [radioclient EXCEPT !.pos = p, !.shown = s]
    PROVE  /\ radioclient' \in WalkerTypes
           /\ radioclient'.at = radioclient.at
           /\ radioclient'.len = radioclient.len
           /\ radioclient'.pos = p /\ radioclient'.shown = s
  BY DEF WalkerTypes

\* The offsets of the list that is sent
LEMMA SentOffsets ==
    ASSUME ListInv
    PROVE  \E off : packer.at = "send" =>
                /\ Offsets(off, ListSize + 1)
                /\ packer.totalsize = off[ListSize + 1]
                /\ packer.entryptr = off[packer.i]
                /\ Packed(off, packer.i - 1)
                /\ packer.i = ListSize + 1
                /\ radioclient.at = "walk" /\ radioclient.len >= 0 => Walked(off)
  BY DEF ListInv, Packing

LEMMA ClientMoves ==
    ASSUME ListInv, NEW a \in WalkerStates,
           radioclient' = [radioclient EXCEPT !.at = a],
           a # "walk", UNCHANGED <<list_entry, packer, packet>>,
           a \in {"setup", "receive"} => Fresh,
           a = "choose" =>
                \/ /\ packer.at = "send"
                   /\ radioclient.shown = [k \in 1 .. ListSize |-> EntryOf(k)]
                \/ radioclient.len < 0 /\ radioclient.shown = <<>>
    PROVE  ListInv'
<1>1. radioclient \in WalkerTypes
  BY DEF ListInv, ListTypes
<1>2. /\ radioclient' \in WalkerTypes /\ radioclient'.at = a
      /\ radioclient'.len = radioclient.len
      /\ radioclient'.pos = radioclient.pos
      /\ radioclient'.shown = radioclient.shown
  BY <1>1, WalkerMoves
<1>3. ListSize' = ListSize /\ \A k : EntryOf(k)' = EntryOf(k)
  BY DEF ListSize, EntrySize, EntryOf
<1>4. Walking'
  BY <1>2, <1>3 DEF Walking, Fresh
<1>5. PICK off : packer.at = "send" =>
                /\ Offsets(off, ListSize + 1)
                /\ packer.totalsize = off[ListSize + 1]
                /\ packer.entryptr = off[packer.i]
                /\ Packed(off, packer.i - 1)
                /\ packer.i = ListSize + 1
  BY SentOffsets
<1> QED BY <1>2, <1>4, <1>5, ClientStep

\* A packet, or what is taken for one
LEMMA ClientTakes ==
    ASSUME ListInv, NEW c \in Int, NEW l \in Int, Takes(c, l),
           radioclient.at = "receive",
           c = CHNLIST /\ l >= 0 => packer.at = "send" /\ l = packer.totalsize
    PROVE  ListInv'
<1>1. radioclient \in WalkerTypes /\ Fresh
  BY DEF ListInv, ListTypes, Walking
<1> DEFINE a == IF c = CHNLIST THEN "walk" ELSE "receive"
<1>2. /\ radioclient' = [radioclient EXCEPT !.chnid = c, !.len = l, !.at = a]
      /\ UNCHANGED <<list_entry, packer, packet>>
  BY DEF Takes
<1>3. /\ a \in WalkerStates
      /\ a = "walk" => c = CHNLIST
      /\ a \in {"walk", "receive"}
  BY DEF WalkerStates
<1> HIDE DEF a
<1>4. /\ radioclient' \in WalkerTypes /\ radioclient'.at = a
      /\ radioclient'.len = l
      /\ radioclient'.pos = radioclient.pos
      /\ radioclient'.shown = radioclient.shown
  BY <1>1, <1>2, <1>3, WalkerTakes
<1>5. Fresh'
  BY <1>1, <1>4 DEF Fresh
<1>6. Walking'
  BY <1>2, <1>3, <1>4, <1>5 DEF Walking
<1>7. PICK off : packer.at = "send" =>
                /\ Offsets(off, ListSize + 1)
                /\ packer.totalsize = off[ListSize + 1]
                /\ packer.entryptr = off[packer.i]
                /\ Packed(off, packer.i - 1)
                /\ packer.i = ListSize + 1
  BY SentOffsets
<1>8. ASSUME packer.at = "send", radioclient'.at = "walk", radioclient'.len >= 0
      PROVE  Walked(off)'
  <2>1. l = packer.totalsize
    BY <1>3, <1>4, <1>8
  <2>2. ListSize' = ListSize /\ ListSize \in Nat
    BY <1>2, SizeFacts DEF ListInv, ListSize
  <2>3. off[1] = ChnIdSize
    BY <1>7, <1>8 DEF Offsets
  <2>4. radioclient'.shown = [k \in 1 .. 0 |-> EntryOf(k)']
    BY <1>5 DEF Fresh
  <2>5. 0 \in 0 .. ListSize'
    BY <2>2
  <2>6. radioclient'.pos = off[0 + 1] /\ radioclient'.len = off[ListSize' + 1]
    BY <1>4, <1>5, <1>7, <1>8, <2>1, <2>2, <2>3 DEF Fresh
  <2> QED BY <2>4, <2>5, <2>6 DEF Walked
<1> QED BY <1>2, <1>4, <1>6, <1>7, <1>8, ClientStep

LEMMA WalkInv ==
    ASSUME ListInv, Walk PROVE ListInv'
<1>1. /\ radioclient \in WalkerTypes /\ radioclient.at = "walk"
      /\ radioclient.pos < radioclient.len
      /\ UNCHANGED <<list_entry, packer, packet>> /\ ListTypes /\ ListSize \in Nat
  BY SizeFacts DEF Walk, Client, ListInv, ListTypes
<1>2. radioclient.len \in Int /\ radioclient.pos \in Nat /\ radioclient.len >= 0
  BY <1>1 DEF WalkerTypes
<1>3. packer.at = "send"
  BY <1>1, <1>2 DEF ListInv, Walking
<1>4. PICK off : /\ Offsets(off, ListSize + 1)
                 /\ packer.totalsize = off[ListSize + 1]
                 /\ packer.entryptr = off[packer.i]
                 /\ Packed(off, packer.i - 1)
                 /\ packer.i = ListSize + 1
                 /\ Walked(off)
  BY <1>1, <1>2, <1>3, SentOffsets
<1>5. PICK j \in 0 .. ListSize :
        /\ radioclient.shown = [k \in 1 .. j |-> EntryOf(k)]
        /\ radioclient.pos = off[j + 1]
        /\ radioclient.len = off[ListSize + 1]
  BY <1>4 DEF Walked
<1>6. j # ListSize
  BY <1>1, <1>2, <1>5
<1>7. j + 1 \in 1 .. ListSize /\ j \in Nat
  BY <1>1, <1>6
<1> DEFINE e == EntryOf(j + 1)
<1>8. Found(radioclient.pos) = e
  BY <1>1, <1>4, <1>5, <1>7 DEF Found, Packed
<1>9. e \in Written /\ e.len = EntrySize(j + 1) /\ EntrySize(j + 1) \in Nat
  BY <1>1, <1>7, EntryFacts
<1>10. off[(j + 1) + 1] = off[j + 1] + EntrySize(j + 1)
  BY <1>1, <1>4, <1>7 DEF Offsets
<1> DEFINE p == radioclient.pos + e.len
           s == Append(radioclient.shown, e)
<1>11. radioclient' = [radioclient EXCEPT !.pos = p, !.shown = s]
  BY <1>8 DEF Walk
<1>12. p \in Nat /\ p = off[(j + 1) + 1]
  BY <1>2, <1>5, <1>9, <1>10
<1>13. s \in Seq(Written) /\ s = [k \in 1 .. j + 1 |-> EntryOf(k)]
  <2>1. radioclient.shown \in Seq(Written)
    BY <1>1 DEF WalkerTypes
  <2>2. Len(radioclient.shown) = j
    BY <1>5, <1>7, <2>1, LenProperties
  <2>3. s \in Seq(Written) /\ s = [k \in 1 .. j + 1 |->
            IF k <= j THEN radioclient.shown[k] ELSE e]
    BY <1>7, <1>9, <2>1, <2>2, AppendProperties
  <2> HIDE DEF s
  <2>4. \A k \in 1 .. j + 1 :
            (IF k <= j THEN radioclient.shown[k] ELSE e) = EntryOf(k)
    BY <1>5, <1>7
  <2> QED BY <2>3, <2>4
<1> HIDE DEF p, s, e
<1>14. /\ radioclient' \in WalkerTypes /\ radioclient'.at = "walk"
       /\ radioclient'.len = radioclient.len
       /\ radioclient'.pos = p /\ radioclient'.shown = s
  BY <1>1, <1>11, <1>12, <1>13, WalkerWalks
<1>15. Walking'
  BY <1>1, <1>2, <1>3, <1>14 DEF Walking
<1>16. Walked(off)'
  <2>1. ListSize' = ListSize /\ \A k : EntryOf(k)' = EntryOf(k)
    BY <1>1 DEF ListSize, EntrySize, EntryOf
  <2>2. j + 1 \in 0 .. ListSize'
    BY <1>7, <2>1, <1>1
  <2>3. radioclient'.shown = [k \in 1 .. j + 1 |-> EntryOf(k)']
    BY <1>13, <1>14, <2>1
  <2>4. /\ radioclient'.pos = off[(j + 1) + 1]
        /\ radioclient'.len = off[ListSize' + 1]
    BY <1>5, <1>12, <1>14, <2>1
  <2> QED BY <2>2, <2>3, <2>4 DEF Walked
<1> QED BY <1>1, <1>4, <1>14, <1>15, <1>16, ClientStep

LEMMA WalkEndsInv ==
    ASSUME ListInv, WalkEnds PROVE ListInv'
<1>1. /\ radioclient \in WalkerTypes /\ radioclient.at = "walk"
      /\ radioclient.pos >= radioclient.len
      /\ UNCHANGED <<list_entry, packer, packet>> /\ ListTypes /\ ListSize \in Nat
      /\ radioclient' = [radioclient EXCEPT !.at = "choose"]
  BY SizeFacts DEF WalkEnds, Client, ListInv, ListTypes
<1>2. radioclient.len \in Int /\ radioclient.pos \in Nat
  BY <1>1 DEF WalkerTypes
<1>3. CASE radioclient.len < 0
  <2>1. radioclient.shown = <<>>
    BY <1>1, <1>3 DEF ListInv, Walking, Fresh
  <2> QED BY <1>1, <1>3, <2>1, ClientMoves DEF WalkerStates
<1>4. CASE ~(radioclient.len < 0)
  <2>1. packer.at = "send" /\ radioclient.len >= 0
    BY <1>1, <1>2, <1>4 DEF ListInv, Walking
  <2>2. PICK off : Offsets(off, ListSize + 1) /\ Walked(off)
    BY <1>1, <2>1, SentOffsets
  <2>3. PICK j \in 0 .. ListSize :
            /\ radioclient.shown = [k \in 1 .. j |-> EntryOf(k)]
            /\ radioclient.pos = off[j + 1]
            /\ radioclient.len = off[ListSize + 1]
    BY <2>2 DEF Walked
  <2>4. j = ListSize
    <3> SUFFICES ASSUME j # ListSize PROVE FALSE
      OBVIOUS
    <3>1. j + 1 \in 1 .. ListSize + 1 /\ j + 1 < ListSize + 1
          /\ ListSize + 1 \in 1 .. ListSize + 1
      BY <1>1
    <3>2. off[j + 1] < off[ListSize + 1]
      BY <2>2, <3>1 DEF Offsets
    <3> QED BY <1>1, <1>2, <2>3, <3>2
  <2> QED BY <1>1, <2>1, <2>3, <2>4, ClientMoves DEF WalkerStates
<1> QED BY <1>3, <1>4

LEMMA ListStepInv ==
    ASSUME ListInv, [ListNext]_listVars
    PROVE  ListInv'
<1>1. CASE UNCHANGED listVars
  <2> USE <1>1 DEF listVars
  <2>1. ListSize' = ListSize /\ (\A k : EntrySize(k)' = EntrySize(k))
        /\ \A k : EntryOf(k)' = EntryOf(k)
    BY DEF ListSize, EntrySize, EntryOf
  <2>2. PICK off : packer.at = "send" =>
                /\ Offsets(off, ListSize + 1)
                /\ packer.totalsize = off[ListSize + 1]
                /\ packer.entryptr = off[packer.i]
                /\ Packed(off, packer.i - 1)
                /\ packer.i = ListSize + 1
                /\ radioclient.at = "walk" /\ radioclient.len >= 0 => Walked(off)
    BY SentOffsets
  <2>3. Walked(off) => Walked(off)'
    BY <2>1 DEF Walked
  <2>4. Walking' /\ radioclient' \in WalkerTypes
    BY <2>1 DEF ListInv, ListTypes, Walking, Fresh
  <2> QED BY <2>2, <2>3, <2>4, ClientStep
<1>2. CASE ClientSetUp
  BY <1>2, ClientMoves DEF ClientSetUp, Client, ListInv, Walking, WalkerStates
<1>3. CASE ReceiveList
  <2>1. packer.totalsize \in Int /\ CHNLIST \in Int
    BY DEF ListInv, ListTypes, PackerTypes, CHNLIST
  <2> QED BY <1>3, <2>1, ClientTakes DEF ReceiveList, Client
<1>4. CASE ReceiveChannel
  <2>1. PICK k \in DOMAIN list_entry : Takes(list_entry[k].chnid, radioclient.len)
    BY <1>4 DEF ReceiveChannel
  <2>2. list_entry[k] \in [chnid : Nat \ {0}, desc : Nat]
    BY SizeFacts, ElementOfSeq DEF ListInv, ListTypes, ListSize
  <2>3. list_entry[k].chnid \in Int /\ list_entry[k].chnid # CHNLIST
    BY <2>2 DEF CHNLIST
  <2>4. radioclient.len \in Int
    BY DEF ListInv, ListTypes, WalkerTypes
  <2> QED BY <1>4, <2>1, <2>3, <2>4, ClientTakes DEF ReceiveChannel, Client
<1>5. CASE ReceiveFails
  <2>1. PICK c \in {CHNLIST, -1} : Takes(c, -1)
    BY <1>5 DEF ReceiveFails
  <2>2. c \in Int /\ -1 \in Int /\ ~(-1 >= 0)
    BY DEF CHNLIST
  <2> QED BY <1>5, <2>1, <2>2, ClientTakes DEF ReceiveFails, Client
<1>6. CASE ChoiceEnds
  BY <1>6, ClientMoves DEF ChoiceEnds, Client, WalkerStates
<1> QED BY <1>1, <1>2, <1>3, <1>4, <1>5, <1>6, ListCreateInv, SumSizeInv,
           PackInv, StartSendingInv, WalkInv, WalkEndsInv DEF ListNext

\* Lists of any length, descriptions of any length: what the client shows is
\* what the server has packed, and its walk ends where the packet does.
THEOREM ListComesOver == Spec => []ListUnpacked
<1>1. Init => ListInv
  BY ListInitInv DEF Init
<1>2. ListInv /\ [Next]_MCvars => ListInv'
  BY StepOfEach, ListStepInv
<1>3. ListInv => ListUnpacked
  <2> SUFFICES ASSUME ListInv PROVE ListUnpacked
    OBVIOUS
  <2>0. ListTypes /\ ListSize \in Nat /\ DOMAIN list_entry = 1 .. ListSize
    BY SizeFacts DEF ListInv
  <2>1. packer.at \in {"pack", "send"} => packer.entryptr <= packer.totalsize
    <3> SUFFICES ASSUME packer.at \in {"pack", "send"}
                 PROVE  packer.entryptr <= packer.totalsize
      OBVIOUS
    <3>1. PICK off : /\ Offsets(off, ListSize + 1)
                     /\ packer.totalsize = off[ListSize + 1]
                     /\ packer.entryptr = off[packer.i]
      BY DEF ListInv, Packing
    <3>2. /\ packer.i \in 1 .. ListSize + 1
          /\ packer.i = ListSize + 1 \/ packer.i < ListSize + 1
          /\ ListSize + 1 \in 1 .. ListSize + 1
      BY <2>0 DEF ListTypes
    <3>3. /\ off[packer.i] \in Nat /\ off[ListSize + 1] \in Nat
          /\ packer.i = ListSize + 1 \/ off[packer.i] < off[ListSize + 1]
      BY <3>1, <3>2 DEF Offsets
    <3> QED BY <3>1, <3>3
  <2>2. radioclient.at = "walk" /\ radioclient.len >= 0 =>
            radioclient.pos <= radioclient.len
    <3> SUFFICES ASSUME radioclient.at = "walk", radioclient.len >= 0
                 PROVE  radioclient.pos <= radioclient.len
      OBVIOUS
    <3>0. radioclient.len \in Int
      BY <2>0 DEF ListTypes, WalkerTypes
    <3>1. packer.at = "send"
      BY <3>0 DEF ListInv, Walking
    <3>2. PICK off : Offsets(off, ListSize + 1) /\ Walked(off)
      BY <3>1 DEF ListInv, Packing
    <3>3. PICK j \in 0 .. ListSize :
            radioclient.pos = off[j + 1] /\ radioclient.len = off[ListSize + 1]
      BY <3>2 DEF Walked
    <3>4. j + 1 \in 1 .. ListSize + 1 /\ ListSize + 1 \in 1 .. ListSize + 1
          /\ (j + 1 = ListSize + 1 \/ j + 1 < ListSize + 1)
      BY <2>0
    <3>5. /\ off[j + 1] \in Nat /\ off[ListSize + 1] \in Nat
          /\ j + 1 = ListSize + 1 \/ off[j + 1] < off[ListSize + 1]
      BY <3>2, <3>4 DEF Offsets
    <3> QED BY <3>3, <3>5
  <2>3. radioclient.at = "choose" =>
            \/ radioclient.shown = [k \in DOMAIN list_entry |-> EntryOf(k)]
            \/ radioclient.len < 0 /\ radioclient.shown = <<>>
    BY <2>0 DEF ListInv, Walking
  <2> QED BY <2>1, <2>2, <2>3 DEF ListUnpacked
<1> QED BY <1>1, <1>2, <1>3, PTL DEF Spec

-----------------------------------------------------------------------------
\* The timers.  In signal/anytimer a timer is in one slot until it rings, and
\* what is left of its time agrees with its age; in posix/anytimer that is so
\* until a freed cell is handed out again.
Cells == [timer : Timers, time : Int, free : BOOLEAN]
InSlot(s, t) == arr[s] # Nothing /\ cell[arr[s]].timer = t

TimerTypes ==
    /\ arr \in [Slots -> Timers \cup {Nothing}]
    /\ cell \in [Timers -> Cells]
    /\ setting.done \in Nat
    /\ age \in [Timers -> Int] /\ due \in [Timers -> Nat]
    /\ rang \in [Timers -> Seq(Int)]

Ages ==
    \A t \in Timers : IF t <= setting.done THEN age[t] >= 0
                      ELSE age[t] = -1 /\ due[t] = 0 /\ rang[t] = <<>>

Known == \A s \in Slots, t \in Timers : InSlot(s, t) => t <= setting.done
Single == \A s, r \in Slots, t \in Timers : InSlot(s, t) /\ InSlot(r, t) => s = r

Remains(left, a, d) == (left > 0 /\ left = d - a) \/ (left = 0 /\ d = 1 /\ a = 0)

SignalTimes ==
    /\ Single
    /\ \A s \in Slots, t \in Timers : InSlot(s, t) =>
        /\ ~cell[arr[s]].free /\ rang[t] = <<>>
        /\ Remains(cell[arr[s]].time, age[t], due[t])
    /\ \A t \in Timers : t <= setting.done /\ (\A s \in Slots : ~InSlot(s, t)) =>
        age[t] >= due[t] /\ rang[t] = <<due[t]>>
    /\ setting.slot # -1 =>
        setting.slot \in Slots /\ arr[setting.slot] = Nothing /\ NextTimer \in Timers

PosixTimes ==
    /\ Single
    /\ \A s \in Slots, t \in Timers : InSlot(s, t) /\ ~cell[arr[s]].free =>
        rang[t] = <<>> /\ cell[arr[s]].time = due[t] - age[t]
    /\ \A t \in Timers : rang[t] \in {<<>>, <<due[t]>>}

TimersInv ==
    /\ TimerTypes /\ Ages /\ Known
    /\ program = "signaltimer" => SignalTimes
    /\ program = "posixtimer" /\ ~Shared => PosixTimes

LEMMA TimerFacts ==
    /\ Timers \subseteq Nat /\ Nothing \notin Timers
    /\ \A t \in Timers : 1 .. t \subseteq Timers
<1>1. PICK n \in Nat : n = Cardinality(Timers)
  BY TimersAssumption, FS_CardinalityType
<1>2. Timers = 1 .. n
  BY <1>1, TimersAssumption
<1> QED BY <1>2 DEF Nothing

LEMMA CellFields ==
    ASSUME NEW c \in Cells
    PROVE  c.timer \in Timers /\ c.time \in Int /\ c.free \in BOOLEAN
  BY DEF Cells

LEMMA TimersInitInv == TimersInit => TimersInv
<1> SUFFICES ASSUME TimersInit PROVE TimersInv
  OBVIOUS
<1>1. \A s \in Slots, t \in Timers : ~InSlot(s, t)
  BY DEF TimersInit, InSlot
<1>2. TimerTypes
  BY EmptySeq DEF TimersInit, TimerTypes, Cells
<1>3. \A t \in Timers : t > 0
  BY TimerFacts DEF Nothing
<1>4. setting.done = 0 /\ setting.slot = -1
  BY DEF TimersInit
<1>5. Ages
  BY <1>3, <1>4, TimerFacts DEF TimersInit, Ages
<1>6. Known /\ Single
  BY <1>1 DEF Known, Single
<1>7. SignalTimes
  <2>1. \A t \in Timers : ~(t <= setting.done)
    BY <1>3, <1>4, TimerFacts
  <2>2. ~(setting.slot # -1)
    BY <1>4
  <2> QED BY <1>1, <1>6, <2>1, <2>2 DEF SignalTimes
<1>8. PosixTimes
  BY <1>1, <1>6 DEF TimersInit, PosixTimes
<1> QED BY <1>2, <1>5, <1>6, <1>7, <1>8 DEF TimersInv

LEMMA LeastNatural ==
    ASSUME NEW S, S \subseteq Nat, S # {}
    PROVE  \E s \in S : \A r \in S : s <= r
<1> DEFINE R == {ss \in Nat \X Nat : ss[1] < ss[2]}
<1>1. IsWellFoundedOn(R, Nat)
  BY NatLessThanWellFounded DEF OpToRel
<1>2. \E x \in S : \A y \in S : ~(<<y, x>> \in R)
  <2> HIDE DEF R
  <2> QED BY <1>1, WFMin
<1>3. PICK x \in S : \A y \in S : ~(<<y, x>> \in R)
  BY <1>2
<1>4. ASSUME NEW y \in S PROVE x <= y
  <2>1. x \in Nat /\ y \in Nat
    OBVIOUS
  <2>2. y < x => <<y, x>> \in R
    BY <2>1
  <2> QED BY <2>1, <2>2, <1>3
<1> QED BY <1>4

LEMMA FirstIsFree ==
    ASSUME FreeSlots # {}
    PROVE  First(FreeSlots) \in Slots /\ arr[First(FreeSlots)] = Nothing
<1>1. FreeSlots \subseteq Nat
  BY TimersAssumption DEF FreeSlots
<1>2. \E s \in FreeSlots : \A r \in FreeSlots : s <= r
  BY <1>1, LeastNatural
<1>3. First(FreeSlots) \in FreeSlots
  BY <1>2 DEF First
<1> QED BY <1>3 DEF FreeSlots

-----------------------------------------------------------------------------
\* A new timer
LEMMA StoreStep ==
    ASSUME TimersInv, NextTimer \in Timers, NEW s \in Slots, arr[s] = Nothing,
           NEW c \in Timers, NEW sec \in Nat, NEW at \in Nat,
           Store(s, c, sec, at), UNCHANGED rang
    PROVE  /\ TimerTypes' /\ Ages' /\ Known'
           /\ setting'.done = NextTimer /\ setting'.slot = -1
           /\ arr'[s] = c /\ \A r \in Slots \ {s} : arr'[r] = arr[r]
           /\ cell'[c].timer = NextTimer /\ cell'[c].time = sec /\ ~cell'[c].free
           /\ \A d \in Timers \ {c} : cell'[d] = cell[d]
           /\ age'[NextTimer] = 0 /\ due'[NextTimer] = at
           /\ \A t \in Timers \ {NextTimer} : age'[t] = age[t] /\ due'[t] = due[t]
           /\ rang[NextTimer] = <<>>
<1> USE TimerFacts
<1>1. TimerTypes /\ Ages /\ Known
  BY DEF TimersInv
<1>2. /\ arr' = [arr EXCEPT ![s] = c]
      /\ cell' = [cell EXCEPT ![c] = [timer |-> NextTimer, time |-> sec,
                                      free |-> FALSE]]
      /\ age' = [age EXCEPT ![NextTimer] = 0]
      /\ due' = [due EXCEPT ![NextTimer] = at]
      /\ setting' = [done |-> NextTimer, slot |-> -1]
  BY DEF Store
<1>3. setting'.done = NextTimer /\ setting'.slot = -1
  BY <1>2
<1>4. arr'[s] = c /\ \A r \in Slots \ {s} : arr'[r] = arr[r]
  BY <1>1, <1>2 DEF TimerTypes
<1>5. /\ cell'[c].timer = NextTimer /\ cell'[c].time = sec /\ ~cell'[c].free
      /\ \A d \in Timers \ {c} : cell'[d] = cell[d]
  BY <1>1, <1>2 DEF TimerTypes
<1>6. /\ age'[NextTimer] = 0 /\ due'[NextTimer] = at
      /\ \A t \in Timers \ {NextTimer} : age'[t] = age[t] /\ due'[t] = due[t]
  BY <1>1, <1>2 DEF TimerTypes
<1>n. NextTimer \in Nat /\ NextTimer = setting.done + 1 /\ setting.done \in Nat
  BY <1>1 DEF NextTimer, TimerTypes
<1>7. TimerTypes'
  <2>1. [timer |-> NextTimer, time |-> sec, free |-> FALSE] \in Cells
    BY DEF Cells
  <2>2. arr' \in [Slots -> Timers \cup {Nothing}]
    BY <1>1, <1>2 DEF TimerTypes
  <2>3. cell' \in [Timers -> Cells]
    BY <1>1, <1>2, <2>1 DEF TimerTypes
  <2>4. age' \in [Timers -> Int] /\ due' \in [Timers -> Nat]
    BY <1>1, <1>2 DEF TimerTypes
  <2>5. rang' \in [Timers -> Seq(Int)]
    BY <1>1 DEF TimerTypes
  <2>6. setting'.done \in Nat
    BY <1>3, <1>n
  <2> QED BY <2>2, <2>3, <2>4, <2>5, <2>6 DEF TimerTypes
<1>8. Ages'
  <2> SUFFICES ASSUME NEW t \in Timers
               PROVE  IF t <= NextTimer THEN age'[t] >= 0
                      ELSE age'[t] = -1 /\ due'[t] = 0 /\ rang[t] = <<>>
    BY <1>3 DEF Ages
  <2>1. CASE t = NextTimer
    BY <2>1, <1>6, <1>n
  <2>2. CASE t # NextTimer
    <3>1. t \in Nat /\ (t <= NextTimer <=> t <= setting.done)
      BY <2>2, <1>n
    <3> QED BY <2>2, <3>1, <1>1, <1>6 DEF Ages
  <2> QED BY <2>1, <2>2
<1>9. Known'
  <2> SUFFICES ASSUME NEW r \in Slots, NEW t \in Timers, InSlot(r, t)'
               PROVE  t <= NextTimer
    BY <1>3 DEF Known
  <2>1. CASE arr'[r] = c
    BY <2>1, <1>5, <1>n DEF InSlot
  <2>2. CASE arr'[r] # c
    <3>1. arr'[r] = arr[r] /\ arr[r] \in Timers /\ cell'[arr[r]] = cell[arr[r]]
      <4>1. r # s /\ arr'[r] = arr[r] /\ arr'[r] # Nothing
        BY <2>2, <1>4 DEF InSlot
      <4>2. arr[r] \in Timers
        BY <4>1, <1>1 DEF TimerTypes
      <4> QED BY <2>2, <4>1, <4>2, <1>5
    <3>2. InSlot(r, t)
      BY <3>1 DEF InSlot
    <3>3. t <= setting.done /\ t \in Nat
      BY <3>2, <1>1 DEF Known
    <3> QED BY <3>3, <1>n
  <2> QED BY <2>1, <2>2
<1>10. rang[NextTimer] = <<>>
  <2>1. ~(NextTimer <= setting.done)
    BY <1>n
  <2> QED BY <2>1, <1>1 DEF Ages
<1> QED BY <1>3, <1>4, <1>5, <1>6, <1>7, <1>8, <1>9, <1>10

\* Its cell is in no other slot.
LEMMA StoreSlots ==
    ASSUME TimersInv, NextTimer \in Timers, NEW s \in Slots, arr[s] = Nothing,
           NEW c \in Timers, NEW sec \in Nat, NEW at \in Nat,
           Store(s, c, sec, at), UNCHANGED rang, \A r \in Slots : arr[r] # c
    PROVE  /\ \A t \in Timers : InSlot(s, t)' <=> t = NextTimer
           /\ \A r \in Slots \ {s}, t \in Timers :
                /\ InSlot(r, t)' <=> InSlot(r, t)
                /\ InSlot(r, t) =>
                    /\ t # NextTimer /\ arr'[r] = arr[r]
                    /\ cell'[arr[r]] = cell[arr[r]]
<1>0. /\ arr'[s] = c /\ \A r \in Slots \ {s} : arr'[r] = arr[r]
      /\ cell'[c].timer = NextTimer /\ ~cell'[c].free
      /\ \A d \in Timers \ {c} : cell'[d] = cell[d]
  BY StoreStep
<1>1. \A t \in Timers : InSlot(s, t)' <=> t = NextTimer
  <2> HIDE DEF NextTimer
  <2> QED BY <1>0, TimerFacts DEF InSlot
<1>2. ASSUME NEW r \in Slots \ {s}, NEW t \in Timers
      PROVE  /\ InSlot(r, t)' <=> InSlot(r, t)
             /\ InSlot(r, t) => /\ t # NextTimer /\ arr'[r] = arr[r]
                                /\ cell'[arr[r]] = cell[arr[r]]
  <2>1. arr'[r] = arr[r] /\ arr[r] # c /\ arr[r] \in Timers \cup {Nothing}
    <3>1. \A q \in Slots : arr[q] \in Timers \cup {Nothing}
      BY DEF TimersInv, TimerTypes
    <3> QED BY <3>1, <1>0
  <2>2. arr[r] # Nothing => cell'[arr[r]] = cell[arr[r]]
    BY <2>1, <1>0
  <2>3. InSlot(r, t) => t # NextTimer
    BY TimerFacts DEF TimersInv, Known, NextTimer, TimerTypes
  <2> QED BY <2>1, <2>2, <2>3 DEF InSlot
<1> QED BY <1>1, <1>2

LEMMA SignalSetInv ==
    ASSUME TimersInv, program' = program, SignalSetTimer
    PROVE  TimersInv'
<1> USE TimerFacts
<1>1. program = "signaltimer" /\ SignalTimes /\ UNCHANGED rang
  BY DEF SignalSetTimer, TimersInv
<1> DEFINE s == setting.slot
<1>2. s \in Slots /\ arr[s] = Nothing /\ NextTimer \in Timers
  BY <1>1 DEF SignalSetTimer, SignalTimes
<1>3. PICK c \in Allocatable, sec \in Secs :
        Store(s, c, sec, IF sec = 0 THEN 1 ELSE sec)
  BY DEF SignalSetTimer
<1>4. c \in Timers /\ cell[c].free /\ sec \in Nat
  BY <1>2, <1>3, TimersAssumption DEF Allocatable
<1>5. PICK at \in Nat : at = IF sec = 0 THEN 1 ELSE sec
  BY <1>4
<1> HIDE DEF s
<1>6. \A r \in Slots : arr[r] # c
  BY <1>1, <1>4, CellFields DEF SignalTimes, InSlot, TimersInv, TimerTypes
<1>7. Store(s, c, sec, at)
  BY <1>3, <1>5
<1>s. PICK z \in Slots : z = s
  BY <1>2
<1>8. /\ \A t \in Timers : InSlot(z, t)' <=> t = NextTimer
      /\ \A r \in Slots \ {z}, t \in Timers :
            /\ InSlot(r, t)' <=> InSlot(r, t)
            /\ InSlot(r, t) => /\ t # NextTimer /\ arr'[r] = arr[r]
                               /\ cell'[arr[r]] = cell[arr[r]]
  BY <1>1, <1>2, <1>4, <1>6, <1>7, <1>s, StoreSlots
<1>9. /\ TimerTypes' /\ Ages' /\ Known'
      /\ setting'.done = NextTimer /\ setting'.slot = -1
      /\ arr'[z] = c /\ cell'[c].time = sec /\ ~cell'[c].free
      /\ age'[NextTimer] = 0 /\ due'[NextTimer] = at
      /\ \A t \in Timers \ {NextTimer} : age'[t] = age[t] /\ due'[t] = due[t]
      /\ rang[NextTimer] = <<>>
  BY <1>1, <1>2, <1>4, <1>7, <1>s, StoreStep
<1>10. Single'
  BY <1>1, <1>8 DEF SignalTimes, Single
<1>11. ASSUME NEW r \in Slots, NEW t \in Timers, InSlot(r, t)'
       PROVE  /\ ~cell'[arr'[r]].free /\ rang'[t] = <<>>
              /\ Remains(cell'[arr'[r]].time, age'[t], due'[t])
  <2>1. CASE r = z
    <3>1. t = NextTimer
      BY <1>8, <1>11, <2>1
    <3>2. Remains(sec, 0, at)
      BY <1>4, <1>5 DEF Remains
    <3> QED BY <1>1, <1>9, <2>1, <3>1, <3>2
  <2>2. CASE r # z
    <3>1. /\ InSlot(r, t) /\ t # NextTimer /\ arr'[r] = arr[r]
          /\ cell'[arr[r]] = cell[arr[r]]
      BY <1>8, <1>11, <2>2
    <3> QED BY <1>1, <1>9, <3>1 DEF SignalTimes
  <2> QED BY <2>1, <2>2
<1>12. ASSUME NEW t \in Timers, t <= NextTimer, \A r \in Slots : ~InSlot(r, t)'
       PROVE  age'[t] >= due'[t] /\ rang'[t] = <<due'[t]>>
  <2>1. t # NextTimer
    BY <1>8, <1>12
  <2>2. t <= setting.done
    BY <1>12, <2>1 DEF NextTimer, TimersInv, TimerTypes
  <2>3. ~InSlot(z, t)
    BY <1>2, <1>s DEF InSlot
  <2>4. \A r \in Slots : ~InSlot(r, t)
    BY <1>8, <1>12, <2>3
  <2> QED BY <1>1, <1>9, <2>1, <2>2, <2>4 DEF SignalTimes
<1>13. SignalTimes'
  BY <1>9, <1>10, <1>11, <1>12 DEF SignalTimes
<1> QED BY <1>1, <1>9, <1>13 DEF TimersInv

LEMMA PosixSetInv ==
    ASSUME TimersInv, program' = program, PosixSetTimer
    PROVE  TimersInv'
<1> USE TimerFacts
<1>1. program = "posixtimer" /\ UNCHANGED rang /\ NextTimer \in Timers
  BY DEF PosixSetTimer, PosixRuns
<1> DEFINE s == First(FreeSlots)
<1>2. s \in Slots /\ arr[s] = Nothing
  BY FirstIsFree DEF PosixSetTimer
<1>3. PICK c \in Allocatable, sec \in Secs : Store(s, c, sec, sec)
  BY DEF PosixSetTimer
<1>4. c \in Timers /\ sec \in Nat
  BY <1>1, <1>3, TimersAssumption DEF Allocatable
<1> HIDE DEF s
<1>s. PICK z \in Slots : z = s
  BY <1>2
<1>9. /\ TimerTypes' /\ Ages' /\ Known'
      /\ arr'[z] = c /\ cell'[c].time = sec /\ ~cell'[c].free
      /\ \A r \in Slots \ {z} : arr'[r] = arr[r]
      /\ age'[NextTimer] = 0 /\ due'[NextTimer] = sec
      /\ \A t \in Timers \ {NextTimer} : age'[t] = age[t] /\ due'[t] = due[t]
      /\ rang[NextTimer] = <<>>
  <2>1. Store(z, c, sec, sec) /\ arr[z] = Nothing
    BY <1>2, <1>3, <1>s
  <2> QED BY <1>1, <1>4, <2>1, StoreStep
<1>13. ASSUME ~Shared' PROVE PosixTimes'
  <2>1. \A r \in Slots \ {z} : arr'[r] # c
    BY <1>4, <1>9, <1>13 DEF Shared
  <2>2. \A r \in Slots : arr[r] # c
    BY <1>2, <1>4, <1>9, <1>s, <2>1
  <2>3. ~Shared
    BY <1>2, <1>9, <1>13, <1>s DEF Shared
  <2>4. PosixTimes
    BY <1>1, <2>3 DEF TimersInv
  <2>5. /\ \A t \in Timers : InSlot(z, t)' <=> t = NextTimer
        /\ \A r \in Slots \ {z}, t \in Timers :
            /\ InSlot(r, t)' <=> InSlot(r, t)
            /\ InSlot(r, t) => /\ t # NextTimer /\ arr'[r] = arr[r]
                               /\ cell'[arr[r]] = cell[arr[r]]
    BY <1>1, <1>2, <1>3, <1>4, <1>s, <2>2, StoreSlots
  <2>6. Single'
    BY <2>4, <2>5 DEF PosixTimes, Single
  <2>7. ASSUME NEW r \in Slots, NEW t \in Timers, InSlot(r, t)', ~cell'[arr'[r]].free
        PROVE  rang'[t] = <<>> /\ cell'[arr'[r]].time = due'[t] - age'[t]
    <3>1. CASE r = z
      <4>1. t = NextTimer
        BY <2>5, <2>7, <3>1
      <4> QED BY <1>1, <1>4, <1>9, <3>1, <4>1
    <3>2. CASE r # z
      <4>0. r \in Slots \ {z} /\ InSlot(r, t)'
        BY <2>7, <3>2
      <4>1. /\ InSlot(r, t) /\ t # NextTimer /\ arr'[r] = arr[r]
            /\ cell'[arr[r]] = cell[arr[r]]
        BY <2>5, <4>0
      <4> QED BY <1>1, <1>9, <2>4, <2>7, <4>1 DEF PosixTimes
    <3> QED BY <3>1, <3>2
  <2>8. \A t \in Timers : rang'[t] \in {<<>>, <<due'[t]>>}
    BY <1>1, <1>9, <2>4 DEF PosixTimes
  <2> QED BY <2>6, <2>7, <2>8 DEF PosixTimes
<1> QED BY <1>1, <1>9, <1>13 DEF TimersInv

-----------------------------------------------------------------------------
\* A second passes.
LEMMA CellTime ==
    ASSUME NEW c \in Cells, NEW x \in Int, NEW d, d = [c EXCEPT !.time = x]
    PROVE  d \in Cells /\ d.timer = c.timer /\ d.time = x /\ d.free = c.free
  BY DEF Cells

LEMMA CellFree ==
    ASSUME NEW c \in Cells, NEW f \in BOOLEAN, NEW d, d = [c EXCEPT !.free = f]
    PROVE  d \in Cells /\ d.timer = c.timer /\ d.time = c.time /\ d.free = f
  BY DEF Cells

LEMMA OlderFacts ==
    ASSUME TimerTypes, Ages, age' = Older
    PROVE  /\ age' \in [Timers -> Int]
           /\ \A t \in Timers : age'[t] = IF t <= setting.done THEN age[t] + 1
                                          ELSE age[t]
           /\ UNCHANGED <<setting, due>> /\
              (\A t \in Timers : t <= setting.done \/ rang'[t] = rang[t]) => Ages'
<1>1. age' = [t \in Timers |-> IF age[t] >= 0 THEN age[t] + 1 ELSE age[t]]
  BY DEF Older
<1>2. \A t \in Timers : age[t] \in Int /\ (t <= setting.done <=> age[t] >= 0)
  BY DEF TimerTypes, Ages
<1>3. age' \in [Timers -> Int]
  BY <1>1, <1>2
<1>4. \A t \in Timers : age'[t] = IF t <= setting.done THEN age[t] + 1 ELSE age[t]
  BY <1>1, <1>2
<1> QED BY <1>2, <1>3, <1>4 DEF Ages

LEMMA SignalAlarmInv ==
    ASSUME TimersInv, program' = program, SignalAlarm
    PROVE  TimersInv'
<1> USE TimerFacts
<1> DEFINE rings == {s \in Slots : arr[s] # Nothing /\ Down(arr[s]) = 0}
           ringing == {cell[arr[s]].timer : s \in rings}
<1>1. /\ program = "signaltimer" /\ SignalTimes /\ TimerTypes /\ Ages /\ Known
      /\ UNCHANGED <<setting, due>>
      /\ age' = Older
      /\ cell' = [c \in Timers |->
                    IF \E s \in Slots : arr[s] = c
                    THEN [cell[c] EXCEPT !.time = Down(c), !.free = Down(c) = 0]
                    ELSE cell[c]]
      /\ rang' = [t \in Timers |-> IF t \in ringing
                        THEN Append(rang[t], Older[t]) ELSE rang[t]]
      /\ arr' = [s \in Slots |-> IF s \in rings THEN Nothing ELSE arr[s]]
  BY DEF SignalAlarm, TimersInv
<1>t. TimerTypes /\ due' = due /\ setting' = setting
  BY <1>1
<1>2. ASSUME NEW c \in Timers
      PROVE  cell[c] \in Cells /\ cell[c].time \in Int /\ Down(c) \in Int
  <2>1. cell[c] \in Cells
    BY <1>1 DEF TimerTypes
  <2>2. cell[c].time \in Int
    BY <2>1, CellFields
  <2> QED BY <2>1, <2>2 DEF Down
<1>c. ASSUME NEW c \in Timers, NEW s \in Slots, arr[s] = c
      PROVE  /\ cell'[c] \in Cells /\ cell'[c].timer = cell[c].timer
             /\ cell'[c].time = Down(c) /\ (cell'[c].free <=> Down(c) = 0)
  <2>1. PICK x \in Int : x = Down(c)
    BY <1>2
  <2>2. PICK f \in BOOLEAN : f = (Down(c) = 0)
    OBVIOUS
  <2>3. cell'[c] = [cell[c] EXCEPT !.time = x, !.free = f]
    BY <1>1, <1>c, <2>1, <2>2
  <2>4. PICK d \in Cells : d = cell[c]
    BY <1>2
  <2>5. PICK e : e = [d EXCEPT !.time = x, !.free = f]
    OBVIOUS
  <2>6. e \in Cells /\ e.timer = d.timer /\ e.time = x /\ e.free = f
    BY <2>5 DEF Cells
  <2>7. cell'[c] = e
    BY <2>3, <2>4, <2>5
  <2> QED BY <2>1, <2>2, <2>4, <2>6, <2>7
<1>3. cell' \in [Timers -> Cells]
  <2>1. ASSUME NEW c \in Timers PROVE cell'[c] \in Cells
    <3>1. CASE \E s \in Slots : arr[s] = c
      BY <3>1, <1>c
    <3>2. CASE ~\E s \in Slots : arr[s] = c
      BY <3>2, <1>1, <1>2
    <3> QED BY <3>1, <3>2
  <2>2. cell' = [c \in Timers |-> cell'[c]]
    BY <1>1
  <2> QED BY <2>1, <2>2
<1>4. ASSUME NEW s \in Slots, arr[s] # Nothing
      PROVE  /\ arr[s] \in Timers
             /\ cell'[arr[s]].timer = cell[arr[s]].timer
             /\ cell'[arr[s]].time = Down(arr[s])
             /\ cell'[arr[s]].free <=> Down(arr[s]) = 0
  <2>1. arr[s] \in Timers
    BY <1>1, <1>4 DEF TimerTypes
  <2>2. PICK c \in Timers : c = arr[s]
    BY <2>1
  <2>3. /\ cell'[c].timer = cell[c].timer
        /\ cell'[c].time = Down(c) /\ (cell'[c].free <=> Down(c) = 0)
    BY <1>c, <2>2
  <2> QED BY <2>1, <2>2, <2>3
<1>5. \A s \in Slots, t \in Timers :
        InSlot(s, t)' <=> InSlot(s, t) /\ Down(arr[s]) # 0
  <2> SUFFICES ASSUME NEW s \in Slots, NEW t \in Timers
               PROVE  InSlot(s, t)' <=> InSlot(s, t) /\ Down(arr[s]) # 0
    OBVIOUS
  <2>1. arr'[s] = IF arr[s] # Nothing /\ Down(arr[s]) = 0 THEN Nothing ELSE arr[s]
    BY <1>1
  <2>2. arr[s] # Nothing => cell'[arr[s]].timer = cell[arr[s]].timer
    BY <1>4
  <2>3. CASE arr[s] = Nothing
    BY <2>1, <2>3 DEF InSlot
  <2>4. CASE arr[s] # Nothing /\ Down(arr[s]) = 0
    BY <2>1, <2>4 DEF InSlot
  <2>5. CASE arr[s] # Nothing /\ Down(arr[s]) # 0
    <3>1. arr'[s] = arr[s]
      BY <2>1, <2>5
    <3> QED BY <2>2, <2>5, <3>1 DEF InSlot
  <2> QED BY <2>3, <2>4, <2>5
<1>6. \A s \in Slots : Down(arr[s]) # 0 => arr'[s] = arr[s]
  BY <1>1
<1>7. \A s \in Slots, t \in Timers : InSlot(s, t) =>
        /\ t <= setting.done /\ age[t] \in Int /\ due[t] \in Nat
        /\ Remains(cell[arr[s]].time, age[t], due[t]) /\ cell[arr[s]].time \in Int
        /\ Down(arr[s]) = 0 => age[t] + 1 = due[t]
        /\ Down(arr[s]) # 0 => Remains(Down(arr[s]), age[t] + 1, due[t])
  <2> SUFFICES ASSUME NEW s \in Slots, NEW t \in Timers, InSlot(s, t)
               PROVE  /\ t <= setting.done /\ age[t] \in Int /\ due[t] \in Nat
                      /\ Remains(cell[arr[s]].time, age[t], due[t])
                      /\ cell[arr[s]].time \in Int
                      /\ Down(arr[s]) = 0 => age[t] + 1 = due[t]
                      /\ Down(arr[s]) # 0 => Remains(Down(arr[s]), age[t] + 1, due[t])
    OBVIOUS
  <2>1. t <= setting.done /\ age[t] \in Int /\ due[t] \in Nat
    BY <1>1 DEF Known, TimerTypes
  <2>2. Remains(cell[arr[s]].time, age[t], due[t])
    BY <1>1 DEF SignalTimes
  <2>3. cell[arr[s]].time \in Int
    BY <1>1, <1>2 DEF InSlot, TimerTypes
  <2> QED BY <2>1, <2>2, <2>3 DEF Remains, Down
<1>8. \A t \in Timers : t \in ringing <=>
        \E s \in Slots : InSlot(s, t) /\ Down(arr[s]) = 0
  BY DEF InSlot
<1>9. /\ age' \in [Timers -> Int]
      /\ \A t \in Timers : age'[t] = IF t <= setting.done THEN age[t] + 1 ELSE age[t]
  BY <1>1, OlderFacts
<1>10. \A t \in Timers : t \notin ringing => rang'[t] = rang[t]
  BY <1>1
<1> HIDE DEF ringing, rings
<1>11. \A t \in Timers : t \in ringing =>
        /\ rang'[t] = <<due[t]>> /\ age'[t] = due[t] /\ t <= setting.done
  <2> SUFFICES ASSUME NEW t \in Timers, t \in ringing
               PROVE  rang'[t] = <<due[t]>> /\ age'[t] = due[t] /\ t <= setting.done
    OBVIOUS
  <2>1. PICK s \in Slots : InSlot(s, t) /\ Down(arr[s]) = 0
    BY <1>8
  <2>2. rang[t] = <<>> /\ age'[t] = due[t] /\ t <= setting.done
    BY <1>1, <1>7, <1>9, <2>1 DEF SignalTimes
  <2>3. rang'[t] = Append(rang[t], age'[t])
    BY <1>1
  <2> QED BY <2>2, <2>3
<1>12. TimerTypes'
  <2>1. arr' \in [Slots -> Timers \cup {Nothing}]
    BY <1>1 DEF TimerTypes
  <2>2. rang' \in [Timers -> Seq(Int)]
    <3>1. \A t \in Timers : rang'[t] \in Seq(Int)
      <4> SUFFICES ASSUME NEW t \in Timers PROVE rang'[t] \in Seq(Int)
        OBVIOUS
      <4>1. due[t] \in Int /\ rang[t] \in Seq(Int)
        BY <1>t DEF TimerTypes
      <4>2. <<due[t]>> \in Seq(Int)
        BY <4>1
      <4> QED BY <4>1, <4>2, <1>10, <1>11
    <3> QED BY <3>1, <1>1
  <2> QED BY <1>1, <1>3, <1>9, <2>1, <2>2 DEF TimerTypes
<1>13. Ages'
  BY <1>1, <1>10, <1>11, OlderFacts
<1>14. Known' /\ Single'
  BY <1>1, <1>5 DEF SignalTimes, Known, Single
<1>15. ASSUME NEW s \in Slots, NEW t \in Timers, InSlot(s, t)'
       PROVE  /\ ~cell'[arr'[s]].free /\ rang'[t] = <<>>
              /\ Remains(cell'[arr'[s]].time, age'[t], due'[t])
  <2>1. InSlot(s, t) /\ Down(arr[s]) # 0 /\ arr'[s] = arr[s]
    BY <1>5, <1>6, <1>15
  <2>2. cell'[arr[s]].time = Down(arr[s]) /\ ~cell'[arr[s]].free
    BY <1>4, <2>1 DEF InSlot
  <2>3. t \notin ringing
    BY <1>1, <1>8, <2>1 DEF SignalTimes, Single
  <2>4. rang'[t] = <<>>
    BY <1>1, <1>10, <2>1, <2>3 DEF SignalTimes
  <2>5. Remains(Down(arr[s]), age[t] + 1, due[t]) /\ t <= setting.done
    BY <1>7, <2>1
  <2>6. age'[t] = age[t] + 1
    BY <1>9, <2>5
  <2>7. Remains(cell'[arr'[s]].time, age'[t], due[t]) /\ ~cell'[arr'[s]].free
    BY <2>1, <2>2, <2>5, <2>6
  <2> QED BY <1>t, <2>4, <2>7
<1>16. ASSUME NEW t \in Timers, t <= setting.done, \A s \in Slots : ~InSlot(s, t)'
       PROVE  age'[t] >= due'[t] /\ rang'[t] = <<due'[t]>>
  <2>1. CASE t \in ringing
    <3>1. due[t] \in Nat
      BY <1>t DEF TimerTypes
    <3>2. rang'[t] = <<due[t]>> /\ age'[t] = due[t]
      BY <1>11, <2>1
    <3> QED BY <1>t, <3>1, <3>2
  <2>2. CASE t \notin ringing
    <3>1. \A s \in Slots : ~InSlot(s, t)
      BY <1>5, <1>8, <1>16, <2>2
    <3>2. age[t] >= due[t] /\ rang[t] = <<due[t]>> /\ age[t] \in Int /\ due[t] \in Nat
      BY <1>1, <1>16, <3>1 DEF SignalTimes, TimerTypes
    <3>3. rang'[t] = rang[t]
      BY <1>10, <2>2
    <3>4. age'[t] = age[t] + 1
      BY <1>9, <1>16
    <3>5. age'[t] >= due[t]
      BY <3>2, <3>4
    <3> QED BY <1>t, <3>2, <3>3, <3>5
  <2> QED BY <2>1, <2>2
<1>17. setting.slot # -1 =>
        setting.slot \in Slots /\ arr'[setting.slot] = Nothing /\ NextTimer \in Timers
  BY <1>1 DEF SignalTimes
<1>18. SignalTimes'
  BY <1>1, <1>14, <1>15, <1>16, <1>17 DEF SignalTimes, NextTimer
<1> QED BY <1>1, <1>12, <1>13, <1>14, <1>18 DEF TimersInv

LEMMA PosixTickInv ==
    ASSUME TimersInv, program' = program, PosixTick
    PROVE  TimersInv'
<1> USE TimerFacts
<1> DEFINE count(c) == Cardinality({s \in Slots : arr[s] = c})
<1>1. /\ program = "posixtimer" /\ TimerTypes /\ Ages /\ Known
      /\ UNCHANGED <<arr, setting, due, rang>> /\ age' = Older
      /\ cell' = [c \in Timers |-> [cell[c] EXCEPT !.time = @ - count(c)]]
  BY DEF PosixTick, PosixRuns, TimersInv
<1>2. \A c \in Timers : count(c) \in Nat
  BY TimersAssumption, FS_Subset, FS_CardinalityType
<1>3. ASSUME ~Shared, NEW s \in Slots, arr[s] # Nothing PROVE count(arr[s]) = 1
  <2>1. {r \in Slots : arr[r] = arr[s]} = {s}
    BY <1>3 DEF Shared
  <2> QED BY <2>1, FS_Singleton
<1> HIDE DEF count
<1>4. \A c \in Timers :
        /\ cell'[c] \in Cells /\ cell'[c].timer = cell[c].timer
        /\ cell'[c].free = cell[c].free /\ cell'[c].time = cell[c].time - count(c)
        /\ cell[c].time \in Int
  <2> SUFFICES ASSUME NEW c \in Timers
               PROVE  /\ cell'[c] \in Cells /\ cell'[c].timer = cell[c].timer
                      /\ cell'[c].free = cell[c].free
                      /\ cell'[c].time = cell[c].time - count(c)
                      /\ cell[c].time \in Int
    OBVIOUS
  <2>1. cell[c] \in Cells /\ cell[c].time \in Int
    BY <1>1, CellFields DEF TimerTypes
  <2>2. PICK x \in Int : x = cell[c].time - count(c)
    BY <1>2, <2>1
  <2>3. cell'[c] = [cell[c] EXCEPT !.time = x]
    BY <1>1, <2>2
  <2>4. /\ cell'[c] \in Cells /\ cell'[c].timer = cell[c].timer
        /\ cell'[c].free = cell[c].free /\ cell'[c].time = x
    BY <2>1, <2>2, <2>3, CellTime
  <2> QED BY <2>1, <2>2, <2>4
<1>5. \A s \in Slots, t \in Timers : InSlot(s, t)' <=> InSlot(s, t)
  BY <1>1, <1>4 DEF InSlot, TimerTypes
<1>6. /\ age' \in [Timers -> Int] /\ Ages'
      /\ \A t \in Timers : age'[t] = IF t <= setting.done THEN age[t] + 1 ELSE age[t]
  BY <1>1, OlderFacts
<1>7. TimerTypes'
  BY <1>1, <1>4, <1>6 DEF TimerTypes
<1>8. Known' /\ (Single => Single') /\ Shared' = Shared
  BY <1>1, <1>5 DEF Known, Single, Shared
<1>9. ASSUME ~Shared' PROVE PosixTimes'
  <2>1. PosixTimes /\ ~Shared
    BY <1>1, <1>8, <1>9 DEF TimersInv
  <2>2. ASSUME NEW s \in Slots, NEW t \in Timers, InSlot(s, t)', ~cell'[arr'[s]].free
        PROVE  rang'[t] = <<>> /\ cell'[arr'[s]].time = due'[t] - age'[t]
    <3>1. InSlot(s, t) /\ arr[s] \in Timers /\ arr[s] # Nothing
      BY <1>1, <1>5, <2>2 DEF InSlot, TimerTypes
    <3>2. ~cell[arr[s]].free /\ cell'[arr[s]].time = cell[arr[s]].time - 1
      BY <1>1, <1>3, <1>4, <2>1, <2>2, <3>1
    <3>3. rang[t] = <<>> /\ cell[arr[s]].time = due[t] - age[t]
      BY <2>1, <3>1, <3>2 DEF PosixTimes
    <3>4. age'[t] = age[t] + 1 /\ age[t] \in Int /\ due[t] \in Int
      BY <1>1, <1>6, <3>1 DEF Known, TimerTypes
    <3> QED BY <1>1, <3>2, <3>3, <3>4
  <2> QED BY <1>1, <1>8, <2>1, <2>2 DEF PosixTimes
<1> QED BY <1>1, <1>6, <1>7, <1>8, <1>9 DEF TimersInv

LEMMA CheckerRingsInv ==
    ASSUME TimersInv, program' = program, CheckerRings
    PROVE  TimersInv'
<1> USE TimerFacts
<1>0. PICK s \in Slots : s = checker.slot
  BY DEF CheckerRings
<1>1. /\ program = "posixtimer" /\ TimerTypes /\ Ages /\ Known
      /\ UNCHANGED <<arr, setting, age, due>>
      /\ arr[s] # Nothing /\ arr[s] \in Timers
      /\ ~cell[arr[s]].free /\ cell[arr[s]].time = 0
  BY <1>0 DEF CheckerRings, PosixRuns, TimersInv, TimerTypes
<1>2. PICK c \in Timers : c = arr[s]
  BY <1>1
<1>3. PICK t \in Timers : t = cell[c].timer
  BY <1>1, CellFields DEF TimerTypes
<1>4. /\ rang' = [rang EXCEPT ![t] = Append(@, age[t])]
      /\ cell' = [cell EXCEPT ![c].free = TRUE]
  BY <1>0, <1>2, <1>3 DEF CheckerRings
<1>5. /\ cell' \in [Timers -> Cells]
      /\ \A d \in Timers : cell'[d].timer = cell[d].timer /\ cell'[d].time = cell[d].time
      /\ \A d \in Timers \ {c} : cell'[d] = cell[d]
      /\ cell'[c].free
  <2>1. cell \in [Timers -> Cells] /\ cell[c] \in Cells
    BY <1>1 DEF TimerTypes
  <2>f. PICK f \in BOOLEAN : f = TRUE
    OBVIOUS
  <2>2. PICK e : e = [cell[c] EXCEPT !.free = f]
    OBVIOUS
  <2>3. cell' = [cell EXCEPT ![c] = e]
    BY <1>4, <2>2, <2>f
  <2>4. e \in Cells /\ e.timer = cell[c].timer /\ e.time = cell[c].time
    BY <2>1, <2>2, CellFree
  <2>5. e.free = TRUE
    BY <2>1, <2>2, <2>f, CellFree
  <2> QED BY <2>1, <2>3, <2>4, <2>5
<1>6. \A r \in Slots, u \in Timers : InSlot(r, u)' <=> InSlot(r, u)
  BY <1>1, <1>5 DEF InSlot, TimerTypes
<1>7. InSlot(s, t)
  BY <1>1, <1>2, <1>3 DEF InSlot
<1>8. TimerTypes'
  <2>1. Append(rang[t], age[t]) \in Seq(Int)
    BY <1>1, AppendProperties DEF TimerTypes
  <2> QED BY <1>1, <1>4, <1>5, <2>1 DEF TimerTypes
<1>9. Ages' /\ Known'
  <2>1. t <= setting.done
    BY <1>1, <1>7 DEF Known
  <2>2. \A u \in Timers : u # t => rang'[u] = rang[u]
    BY <1>1, <1>4 DEF TimerTypes
  <2> QED BY <1>1, <1>6, <2>1, <2>2 DEF Ages, Known
<1>10. ASSUME ~Shared' PROVE PosixTimes'
  <2>1. ~Shared /\ PosixTimes
    BY <1>1, <1>10 DEF Shared, TimersInv
  <2>2. rang[t] = <<>> /\ 0 = due[t] - age[t] /\ due[t] \in Int /\ age[t] \in Int
    BY <1>1, <1>7, <2>1 DEF PosixTimes, TimerTypes
  <2>3. rang'[t] = <<due[t]>> /\ \A u \in Timers \ {t} : rang'[u] = rang[u]
    <3>1. age[t] = due[t]
      BY <2>2
    <3>2. rang'[t] = Append(<<>>, due[t])
      BY <1>1, <1>4, <2>2, <3>1 DEF TimerTypes
    <3>3. \A u \in Timers \ {t} : rang'[u] = rang[u]
      BY <1>1, <1>4 DEF TimerTypes
    <3> QED BY <3>2, <3>3
  <2>4. Single'
    BY <1>6, <2>1 DEF PosixTimes, Single
  <2>5. ASSUME NEW r \in Slots, NEW u \in Timers, InSlot(r, u)', ~cell'[arr'[r]].free
        PROVE  rang'[u] = <<>> /\ cell'[arr'[r]].time = due'[u] - age'[u]
    <3>1. InSlot(r, u) /\ arr[r] # c /\ arr[r] \in Timers /\ arr'[r] = arr[r]
      BY <1>1, <1>5, <1>6, <2>5 DEF InSlot, TimerTypes
    <3>2. u # t
      BY <1>2, <1>7, <2>1, <3>1 DEF PosixTimes, Single
    <3>3. cell'[arr[r]] = cell[arr[r]]
      BY <1>5, <3>1
    <3> QED BY <1>1, <2>1, <2>3, <2>5, <3>1, <3>2, <3>3 DEF PosixTimes
  <2>6. \A u \in Timers : rang'[u] \in {<<>>, <<due'[u]>>}
    BY <1>1, <2>1, <2>3 DEF PosixTimes
  <2> QED BY <2>4, <2>5, <2>6 DEF PosixTimes
<1> QED BY <1>1, <1>8, <1>9, <1>10 DEF TimersInv

\* Steps of the checker that change no timer, and the search for a slot
LEMMA TimersSame ==
    ASSUME TimersInv, program' = program, UNCHANGED <<arr, cell, age, due, rang>>,
           setting'.done = setting.done,
           \/ setting' = setting
           \/ /\ NextTimer \in Timers
              /\ setting'.slot \in Slots /\ arr[setting'.slot] = Nothing
    PROVE  TimersInv'
<1>1. \A s \in Slots, t \in Timers : InSlot(s, t)' <=> InSlot(s, t)
  BY DEF InSlot
<1>2. TimerTypes' /\ Ages' /\ Known' /\ Shared' = Shared
  BY <1>1 DEF TimersInv, TimerTypes, Ages, Known, Shared
<1>3. Single' <=> Single
  BY <1>1 DEF Single
<1>4. SignalTimes => SignalTimes'
  BY <1>1, <1>3 DEF SignalTimes, NextTimer
<1>5. PosixTimes => PosixTimes'
  BY <1>1, <1>3 DEF PosixTimes
<1> QED BY <1>2, <1>4, <1>5 DEF TimersInv

LEMMA TimersStepInv ==
    ASSUME TimersInv, [TimersNext]_timerVars, program' = program
    PROVE  TimersInv'
<1>1. CASE UNCHANGED timerVars
  BY <1>1, TimersSame DEF timerVars
<1>2. CASE SignalFindPos
  <2>1. First(FreeSlots) \in Slots /\ arr[First(FreeSlots)] = Nothing
    BY <1>2, FirstIsFree DEF SignalFindPos
  <2>2. /\ setting' = [setting EXCEPT !.slot = First(FreeSlots)]
        /\ NextTimer \in Timers /\ UNCHANGED <<arr, cell, age, due, rang>>
    BY <1>2 DEF SignalFindPos
  <2>3. setting'.done = setting.done
    BY <2>2
  <2>4. setting'.slot = First(FreeSlots) \/ setting' = setting
    BY <2>2
  <2> QED BY <2>1, <2>2, <2>3, <2>4, TimersSame
<1>3. CASE CheckerWaits \/ CheckerStarts \/ CheckerPasses \/ CheckerCrashes
           \/ CheckerEnds
  BY <1>3, TimersSame DEF CheckerWaits, CheckerStarts, CheckerPasses,
                          CheckerCrashes, CheckerEnds
<1> QED BY <1>1, <1>2, <1>3, SignalSetInv, SignalAlarmInv, PosixSetInv,
           PosixTickInv, CheckerRingsInv DEF TimersNext

\* Any number of slots and timers, and whenever the handler or the checker
\* comes: a timer rings when it is due, and once.
THEOREM TimersRing == Spec => []RingsOnTime
<1>1. Init => TimersInv
  BY TimersInitInv DEF Init
<1>2. TimersInv /\ [Next]_MCvars => TimersInv'
  BY StepOfEach, TimersStepInv
<1>3. TimersInv => RingsOnTime
  <2> SUFFICES ASSUME TimersInv, NEW t \in Timers
               PROVE  /\ program = "signaltimer" =>
                            rang[t] = IF age[t] >= due[t] THEN <<due[t]>> ELSE <<>>
                      /\ program = "posixtimer" /\ ~Shared =>
                            rang[t] \in {<<>>, <<due[t]>>}
    BY DEF RingsOnTime
  <2>1. age[t] \in Int /\ due[t] \in Nat /\ t \in Nat /\ setting.done \in Nat
    BY TimerFacts DEF TimersInv, TimerTypes
  <2>2. CASE program = "signaltimer" /\ t <= setting.done
    <3>1. CASE \E s \in Slots : InSlot(s, t)
      <4>1. PICK s \in Slots : InSlot(s, t)
        BY <3>1
      <4>2. rang[t] = <<>> /\ Remains(cell[arr[s]].time, age[t], due[t])
        BY <2>2, <4>1 DEF TimersInv, SignalTimes
      <4>3. cell[arr[s]].time \in Int
        BY <4>1, CellFields DEF TimersInv, TimerTypes, InSlot
      <4>4. age[t] < due[t]
        BY <2>1, <4>2, <4>3 DEF Remains
      <4> QED BY <2>1, <2>2, <4>2, <4>4
    <3>2. CASE \A s \in Slots : ~InSlot(s, t)
      BY <2>1, <2>2, <3>2 DEF TimersInv, SignalTimes
    <3> QED BY <3>1, <3>2
  <2>3. CASE program = "signaltimer" /\ ~(t <= setting.done)
    BY <2>1, <2>3 DEF TimersInv, Ages
  <2>4. program = "posixtimer" /\ ~Shared => rang[t] \in {<<>>, <<due[t]>>}
    BY DEF TimersInv, PosixTimes
  <2> QED BY <2>2, <2>3, <2>4
<1> QED BY <1>1, <1>2, <1>3, PTL DEF Spec

=============================================================================
