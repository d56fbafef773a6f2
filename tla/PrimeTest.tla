----------------------------- MODULE PrimeTest -----------------------------
(***************************************************************************)
(* The test for primes that the programs of posix share, and what it is    *)
(* meant to compute.                                                       *)
(***************************************************************************)
EXTENDS Integers, TLAPS

IsPrime(n) == \A d \in 2 .. n - 1 : n % d # 0

NoDivisorFrom3(n) == \A d \in 3 .. (n \div 2) - 1 : n % d # 0    \* mutant

\* for (int i = 2; i < n / 2; i++)
NoDivisor(n) == \A d \in 2 .. (n \div 2) - 1 : n % d # 0

\* Although the loop stops before n / 2, it misses no prime and takes no other
\* number for one, from 5 on (it takes 4 for a prime).
THEOREM TestIsRight == \A n \in Nat : n >= 5 => (NoDivisor(n) <=> IsPrime(n))
<1> SUFFICES ASSUME NEW n \in Nat, n >= 5 PROVE NoDivisor(n) <=> IsPrime(n)
  OBVIOUS
<1>a. n \div 2 \in Nat /\ n \div 2 <= n
  OBVIOUS
<1>b. ASSUME IsPrime(n) PROVE NoDivisor(n)
  <2>1. \A d \in 2 .. (n \div 2) - 1 : d \in 2 .. n - 1
    BY <1>a
  <2> QED BY <1>b, <2>1 DEF IsPrime, NoDivisor
<1> SUFFICES ASSUME NoDivisor(n), NEW d \in 2 .. n - 1, n % d = 0 PROVE FALSE
  BY <1>b DEF IsPrime
<1>1. d >= n \div 2
  <2>1. d < n \div 2 => d \in 2 .. (n \div 2) - 1
    BY <1>a
  <2> QED BY <2>1, <1>a DEF NoDivisor
<1>2. n = d * (n \div d) /\ n \div d \in Int
  OBVIOUS
<1> DEFINE e == n \div d
<1>3. e \in Nat /\ n = d * e
  BY <1>2
<1>4. e >= 2
  <2>1. e # 0 /\ e # 1
    BY <1>3
  <2> QED BY <2>1, <1>3
<1>5. 2 * (n \div 2) >= n - 1
  OBVIOUS
<1>6. e < 3
  <2> SUFFICES ASSUME e >= 3 PROVE FALSE
    BY <1>3
  <2>1. d * e >= d * 3
    BY <1>3
  <2>2. n >= 3 * d
    BY <2>1, <1>3
  <2>3. 2 * n >= 3 * (n - 1)
    BY <2>2, <1>1, <1>5
  <2> QED BY <2>3
<1>7. n = 2 * d
  BY <1>3, <1>4, <1>6
<1>8. n % 2 = 0 /\ n \div 2 = d
  BY <1>7
<1>9. d >= 3
  BY <1>7
<1> QED BY <1>8, <1>9 DEF NoDivisor

=============================================================================
