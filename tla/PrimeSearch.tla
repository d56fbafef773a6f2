---------------------------- MODULE PrimeSearch ----------------------------
(***************************************************************************)
(* What the prime finders of posix promise: each number from Left up to    *)
(* Right - 1 is tested exactly once, by whatever thread, the primes among  *)
(* them are found, and the program ends when all have been tested.         *)
(***************************************************************************)
EXTENDS PrimeTest

CONSTANTS Left, Right

VARIABLES
    tested,     \* the numbers tested so far
    found,      \* the primes among them
    ended       \* the program has ended

vars == <<tested, found, ended>>

Numbers == Left .. Right - 1

Init == tested = {} /\ found = {} /\ ended = FALSE

Test(n) ==
    /\ n \notin tested
    /\ tested' = tested \cup {n}
    /\ found' = IF IsPrime(n) THEN found \cup {n} ELSE found
    /\ UNCHANGED ended

End ==
    /\ tested = Numbers
    /\ ended' = TRUE
    /\ UNCHANGED <<tested, found>>

Next == End \/ \E n \in Numbers : Test(n)

Spec == Init /\ [][Next]_vars

\* What has been found are the primes among the numbers tested, and at the end
\* these are all the numbers: whoever implements the search prints each prime
\* of the range and nothing else.
PrimesFound ==
    /\ found = {n \in tested : IsPrime(n)}
    /\ ended => tested = Numbers

=============================================================================
