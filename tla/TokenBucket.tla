---------------------------- MODULE TokenBucket ----------------------------
(***************************************************************************)
(* What one token bucket promises its callers, with no threads, locks or   *)
(* signals: a level between 0 and Burst that a tick raises by Cps, callers *)
(* that take some tokens at once, never zero and never more than there     *)
(* are, that may give back part of what they took last, and that spend the *)
(* rest.  The library server/mytbf.c is shown to implement this            *)
(* specification for each of its buckets (module Mytbf), and the channel   *)
(* threads to use a bucket as it allows (module Radio).                    *)
(***************************************************************************)
EXTENDS Integers

CONSTANTS
    Callers,    \* the threads that call the bucket
    Cps,        \* tokens added per tick
    Burst,      \* the most tokens the bucket holds
    Sizes       \* the sizes callers ask for

VARIABLES
    level,      \* tokens in the bucket
    got         \* got[t]: what the last take of t gave it and it has not given back

vars == <<level, got>>

Smaller(a, b) == IF a < b THEN a ELSE b

Init ==
    /\ level = 0
    /\ got = [t \in Callers |-> 0]

Tick ==
    /\ level' = Smaller(level + Cps, Burst)
    /\ UNCHANGED got

Take(t, size) ==
    /\ level > 0
    /\ got' = [got EXCEPT ![t] = Smaller(level, size)]
    /\ level' = level - Smaller(level, size)

GiveBack(t, size) ==
    /\ size <= got[t]
    /\ got' = [got EXCEPT ![t] = @ - size]
    /\ level' = Smaller(level + size, Burst)

\* what is spent does not come back
Spend(t) ==
    /\ got' = [got EXCEPT ![t] = 0]
    /\ UNCHANGED level

Next ==
    \/ Tick
    \/ \E t \in Callers : Spend(t)
    \/ \E t \in Callers, size \in Sizes : Take(t, size)
    \/ \E t \in Callers, size \in 1 .. Burst : GiveBack(t, size)

Spec == Init /\ [][Next]_vars

=============================================================================
