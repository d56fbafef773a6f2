---------------------------- MODULE MytbfLedger ----------------------------
(***************************************************************************)
(* What the buckets of server/mytbf.c are for: to bound the rate at which  *)
(* a channel sends.  Mytbf with history: peak[b] is the most that b has    *)
(* given out in a window of time that ends now, less what it was given     *)
(* back and Cps for each tick of the window, over all such windows (an     *)
(* empty one gives 0).                                                     *)
(***************************************************************************)
EXTENDS Mytbf

VARIABLE peak

lvars == <<vars, peak>>

AtLeast0(n) == IF n > 0 THEN n ELSE 0

LInit == Init /\ peak = [b \in Buckets |-> 0]

LFetchTake(t) ==
    /\ FetchTake(t)
    /\ peak' = [peak EXCEPT ![on[t]] = @ + Granted(on[t], req[t])]

LReturnAdd(t) ==
    /\ ReturnAdd(t)
    /\ peak' = [peak EXCEPT ![on[t]] = AtLeast0(@ - req[t])]

LHandlerFill(t) ==
    /\ HandlerFill(t)
    /\ peak' = [peak EXCEPT ![job[hpos[t]]] = AtLeast0(@ - Cps)]

Unrecorded ==
    \/ \E t \in Clients, b \in Buckets : CallStart(t, b)
    \/ \E t \in Clients :
        \/ InitLock(t) \/ InitPut(t) \/ InitFull(t)
        \/ FetchLock(t) \/ FetchWait(t) \/ SpuriousWakeup(t)
        \/ ReturnLock(t)
        \/ CheckLock(t) \/ CheckRead(t)
        \/ DestroyLock(t) \/ DestroyClear(t) \/ DestroyFree(t) \/ DestroyAgain(t)
        \/ ExitJoin(t) \/ ExitFree(t) \/ ExitEnd(t)
    \/ RaiseAlarm
    \/ \E t \in Threads :
        Deliver(t) \/ HandlerLock(t) \/ HandlerSkip(t) \/ HandlerUnlock(t)

LNext ==
    \/ \E t \in Clients : LFetchTake(t) \/ LReturnAdd(t)
    \/ \E t \in Threads : LHandlerFill(t)
    \/ Unrecorded /\ UNCHANGED peak

LSpec == LInit /\ [][LNext]_lvars
LFairSpec == LSpec /\ Fairness

\* In any window of time, however many threads fetch and give back and
\* whatever thread the signal interrupts, a bucket gives out at most the
\* Burst tokens it can have saved and Cps for each tick that reached it.
RateBound == \A b \in Buckets : peak[b] <= Burst

\* The inductive invariant behind it: what a bucket holds and what it has
\* given out in any window were not more than Burst together.
Balance ==
    \A b \in Buckets : peak[b] \in Nat /\ token[b] + peak[b] <= Burst

=============================================================================
