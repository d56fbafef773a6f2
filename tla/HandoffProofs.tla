--------------------------- MODULE HandoffProofs ---------------------------
(***************************************************************************)
(* Proofs about Handoff: every number is in one place, and the program     *)
(* implements PrimeSearch.                                                 *)
(***************************************************************************)
EXTENDS Handoff

LEMMA ConstantFacts ==
    /\ Left \in Nat /\ Right \in Nat /\ 5 <= Left /\ Left <= Right
    /\ Workers # {} /\ Main \notin Workers
    /\ None \notin Workers /\ None # Main
BY HandoffAssumption

\* When t goes on to a place of its kind the others stay where they are, but for
\* those woken.
LEMMA GoesFacts ==
    ASSUME TypeOK, NEW t \in Threads,
           NEW place \in IF t = Main THEN MainPlaces ELSE WorkerPlaces,
           NEW woken \in Signalled \cup {Asleep}, at' = Goes(t, place, woken)
    PROVE  /\ at'[t] = place
           /\ \A u \in Threads : u # t =>
                \/ at'[u] = at[u]
                \/ at[u] = "asleep" /\ at'[u] = "awake"
           /\ at' \in [Threads -> WorkerPlaces \cup MainPlaces]
           /\ at'[Main] \in MainPlaces
           /\ \A w \in Workers : at'[w] \in WorkerPlaces
<1>1. woken \subseteq Asleep
  BY DEF Signalled
<1>2. /\ at'[t] = place
      /\ \A u \in Threads : u # t => at'[u] = IF u \in woken THEN "awake" ELSE at[u]
      /\ DOMAIN at' = Threads /\ at' = [u \in Threads |-> at'[u]]
  BY DEF Goes
<1>3. \A u \in Threads : u # t =>
         \/ at'[u] = at[u]
         \/ at[u] = "asleep" /\ at'[u] = "awake"
  BY <1>1, <1>2 DEF Asleep
<1>4. at'[Main] \in MainPlaces
  BY <1>2, <1>3 DEF TypeOK, Threads, MainPlaces
<1>5. \A w \in Workers : at'[w] \in WorkerPlaces
  BY <1>2, <1>3, ConstantFacts DEF TypeOK, Threads, WorkerPlaces
<1>6. \A u \in Threads : at'[u] \in WorkerPlaces \cup MainPlaces
  BY <1>4, <1>5 DEF Threads
<1> QED BY <1>2, <1>3, <1>4, <1>5, <1>6

LEMMA InitIInv == Init => IInv
<1> SUFFICES ASSUME Init PROVE IInv
  OBVIOUS
<1>1. TypeOK
  BY ConstantFacts DEF Init, TypeOK, Threads, WorkerPlaces, MainPlaces, Numbers
<1>2. EachInOnePlace
  BY ConstantFacts DEF Init, EachInOnePlace, InSlot, Holders, Threads
<1>3. FullSlotSeen
  BY DEF Init, FullSlotSeen
<1> QED BY <1>1, <1>2, <1>3, ConstantFacts DEF Init, IInv, Threads

-----------------------------------------------------------------------------
LEMMA LockPreserves ==
    ASSUME IInv, NEW t \in Threads, Lock(t) PROVE IInv'
<1>1. TypeOK'
  BY ConstantFacts DEF IInv, TypeOK, Lock, Threads, WorkerPlaces, MainPlaces
<1>2. Holders' = Holders /\ UNCHANGED <<num, flag, i, mine, tested>>
  BY DEF IInv, TypeOK, Lock, Holders, Threads
<1>3. EachInOnePlace'
  BY <1>2 DEF IInv, EachInOnePlace, InSlot
<1>4. FullSlotSeen'
  BY DEF IInv, TypeOK, FullSlotSeen, Lock, Threads
<1> QED BY <1>1, <1>3, <1>4, ConstantFacts DEF IInv, TypeOK, Lock, Threads

LEMMA WaitPreserves ==
    ASSUME IInv, NEW t \in Threads, Wait(t) PROVE IInv'
<1>1. TypeOK'
  BY ConstantFacts DEF IInv, TypeOK, Wait, Threads, WorkerPlaces, MainPlaces
<1>2. Holders' = Holders /\ UNCHANGED <<num, flag, i, mine, tested>>
  BY DEF IInv, TypeOK, Wait, Holders, Threads
<1>3. EachInOnePlace'
  BY <1>2 DEF IInv, EachInOnePlace, InSlot
<1>4. FullSlotSeen'
  BY ConstantFacts DEF IInv, TypeOK, FullSlotSeen, Wait, Threads
<1> QED BY <1>1, <1>3, <1>4, ConstantFacts DEF IInv, TypeOK, Wait, Threads

LEMMA SpuriousWakeupPreserves ==
    ASSUME IInv, NEW t \in Threads, SpuriousWakeup(t) PROVE IInv'
<1>1. TypeOK'
  BY ConstantFacts DEF IInv, TypeOK, SpuriousWakeup, Threads, WorkerPlaces, MainPlaces
<1>2. Holders' = Holders /\ UNCHANGED <<num, flag, i, mine, tested>>
  BY DEF IInv, TypeOK, SpuriousWakeup, Holders, Threads
<1>3. EachInOnePlace'
  BY <1>2 DEF IInv, EachInOnePlace, InSlot
<1>4. FullSlotSeen'
  BY DEF IInv, TypeOK, FullSlotSeen, SpuriousWakeup, Threads
<1> QED BY <1>1, <1>3, <1>4, ConstantFacts DEF IInv, TypeOK, SpuriousWakeup, Threads

LEMMA TakePreserves ==
    ASSUME IInv, NEW w \in Workers, Take(w) PROVE IInv'
<1>0. PICK woken \in Signalled : at' = Goes(w, "work", woken)
  BY DEF Take
<1> w \in Threads /\ w # Main /\ "work" \in WorkerPlaces
  BY ConstantFacts DEF Threads, WorkerPlaces
<1>1. /\ at'[w] = "work"
      /\ \A u \in Threads : u # w =>
            \/ at'[u] = at[u]
            \/ at[u] = "asleep" /\ at'[u] = "awake"
      /\ at' \in [Threads -> WorkerPlaces \cup MainPlaces]
      /\ at'[Main] \in MainPlaces
      /\ \A v \in Workers : at'[v] \in WorkerPlaces
  BY <1>0, GoesFacts DEF IInv
<1>2. at[w] = "test" /\ flag = 1 /\ num \in Numbers \cup {0}
      /\ flag' = 0 /\ mut' = None /\ mine' = [mine EXCEPT ![w] = num]
      /\ UNCHANGED <<num, i, tested, found>>
  BY DEF Take, IInv, TypeOK
<1>3. TypeOK'
  BY <1>1, <1>2 DEF IInv, TypeOK
<1>4. Holders' = Holders \cup {w} /\ w \notin Holders
  BY <1>1, <1>2 DEF Holders, Threads
<1>5. /\ mine'[w] = num
      /\ \A v \in Holders : mine'[v] = mine[v]
  BY <1>2, <1>4 DEF IInv, TypeOK, Holders
<1>6. InSlot = {num} /\ InSlot' = {}
  BY <1>2 DEF InSlot
<1>7. EachInOnePlace'
  <2>1. {mine'[v] : v \in Holders'} = {mine[v] : v \in Holders} \cup {num}
    BY <1>4, <1>5
  <2>2. Left .. i' - 1 = InSlot' \cup {mine'[v] : v \in Holders'} \cup tested'
    BY <2>1, <1>2, <1>6 DEF IInv, EachInOnePlace
  <2>3. \A v \in Holders' : mine'[v] \notin InSlot' \cup tested'
    BY <1>2, <1>4, <1>5, <1>6 DEF IInv, EachInOnePlace
  <2>4. \A u, v \in Holders' : mine'[u] = mine'[v] => u = v
    BY <1>4, <1>5, <1>6 DEF IInv, EachInOnePlace
  <2> QED BY <2>2, <2>3, <2>4, <1>6 DEF EachInOnePlace
<1>8. FullSlotSeen'
  BY <1>2 DEF FullSlotSeen
<1>9. \A t \in Threads : mut' = t <=> at'[t] = "test"
  BY <1>1, <1>2, ConstantFacts DEF IInv, Threads
<1>10. at[Main] \notin {"join", "gone"} /\ at'[Main] \notin {"join", "gone"}
  BY <1>1, <1>2 DEF IInv, Threads
<1>11. \A v \in Workers : at'[v] # "gone"
  BY <1>1, <1>2 DEF IInv, Threads
<1> QED BY <1>2, <1>3, <1>7, <1>8, <1>9, <1>10, <1>11 DEF IInv

LEMMA WorkPreserves ==
    ASSUME IInv, NEW w \in Workers, Work(w) PROVE IInv'
<1>1. /\ w \in Threads /\ w # Main /\ at[w] = "work" /\ w \in Holders
      /\ at'[w] = "lock" /\ \A u \in Threads : u # w => at'[u] = at[u]
      /\ tested' = tested \cup {mine[w]}
      /\ UNCHANGED <<num, flag, mut, i, mine>>
  BY ConstantFacts DEF IInv, TypeOK, Work, Threads, Holders
<1>2. mine[w] \in Left .. i - 1 /\ mine[w] \in Numbers
  BY <1>1, ConstantFacts DEF IInv, TypeOK, EachInOnePlace, Numbers
<1>3. found' \subseteq Numbers /\ tested' \subseteq Numbers
  BY <1>1, <1>2 DEF IInv, TypeOK, Work
<1>4. TypeOK'
  BY <1>1, <1>3, ConstantFacts DEF IInv, TypeOK, Work, WorkerPlaces, Threads
<1>5. Holders' = Holders \ {w}
  BY <1>1 DEF Holders, Threads
<1>6. EachInOnePlace'
  <2>1. {mine[v] : v \in Holders} = {mine[v] : v \in Holders'} \cup {mine[w]}
    BY <1>1, <1>5
  <2>2. Left .. i' - 1 = InSlot' \cup {mine'[v] : v \in Holders'} \cup tested'
    BY <2>1, <1>1 DEF IInv, EachInOnePlace, InSlot
  <2>3. InSlot' \cap tested' = {}
    BY <1>1 DEF IInv, EachInOnePlace, InSlot
  <2>4. \A v \in Holders' : mine'[v] \notin InSlot' \cup tested'
    BY <1>1, <1>5 DEF IInv, EachInOnePlace, InSlot
  <2>5. \A u, v \in Holders' : mine'[u] = mine'[v] => u = v
    BY <1>1, <1>5 DEF IInv, EachInOnePlace
  <2> QED BY <2>2, <2>3, <2>4, <2>5 DEF EachInOnePlace
<1>7. FullSlotSeen'
  BY <1>1 DEF IInv, FullSlotSeen, Threads
<1> QED BY <1>1, <1>4, <1>6, <1>7 DEF IInv, Threads

LEMMA LeavePreserves ==
    ASSUME IInv, NEW w \in Workers, Leave(w) PROVE IInv'
<1>1. TypeOK'
  BY ConstantFacts DEF IInv, TypeOK, Leave, Threads, WorkerPlaces, MainPlaces
<1>2. Holders' = Holders /\ UNCHANGED <<num, flag, i, mine, tested>>
  BY DEF IInv, TypeOK, Leave, Holders, Threads
<1>3. EachInOnePlace'
  BY <1>2 DEF IInv, EachInOnePlace, InSlot
<1>4. FullSlotSeen'
  BY DEF FullSlotSeen, Leave
<1> QED BY <1>1, <1>3, <1>4, ConstantFacts DEF IInv, TypeOK, Leave, Threads

LEMMA PutPreserves ==
    ASSUME IInv, Put PROVE IInv'
<1>0. PICK woken \in Signalled : at' = Goes(Main, "lock", woken)
  BY DEF Put
<1> Main \in Threads /\ "lock" \in MainPlaces
  BY DEF Threads, MainPlaces
<1>1. /\ at'[Main] = "lock"
      /\ \A u \in Threads : u # Main =>
            \/ at'[u] = at[u]
            \/ at[u] = "asleep" /\ at'[u] = "awake"
      /\ at' \in [Threads -> WorkerPlaces \cup MainPlaces]
      /\ at'[Main] \in MainPlaces
      /\ \A v \in Workers : at'[v] \in WorkerPlaces
  BY <1>0, GoesFacts DEF IInv
<1>2. /\ at[Main] = "test" /\ flag = 0 /\ flag' = 1 /\ num' = i /\ i' = i + 1
      /\ i < Right /\ i \in Left .. Right /\ mut' = None
      /\ UNCHANGED <<mine, tested, found>>
  BY DEF Put, IInv, TypeOK
<1>3. TypeOK'
  BY <1>1, <1>2, ConstantFacts DEF IInv, TypeOK, Numbers
<1>4. Holders' = Holders
  BY <1>1, ConstantFacts DEF Holders, Threads
<1>5. InSlot = {} /\ InSlot' = {i}
  BY <1>2 DEF InSlot
<1>6. EachInOnePlace'
  <2>1. Left .. i' - 1 = (Left .. i - 1) \cup {i} /\ i \notin Left .. i - 1
    BY <1>2, ConstantFacts
  <2> QED BY <2>1, <1>2, <1>4, <1>5 DEF IInv, EachInOnePlace
<1>7. FullSlotSeen'
  <2>1. \A w \in Workers : at'[w] # "gone"
    BY <1>1, <1>2, ConstantFacts DEF IInv, Threads
  <2>2. CASE Asleep = {}
    BY <2>1, <2>2, <1>1, ConstantFacts DEF Asleep, FullSlotSeen, Threads
  <2>3. CASE Asleep # {}
    <3>1. PICK u \in Asleep : woken = {u}
      BY <1>0, <2>3 DEF Signalled
    <3>2. u \in Workers /\ at'[u] = "awake"
      BY <3>1, <1>0, <1>2 DEF Goes, Asleep, Threads
    <3> QED BY <3>2 DEF FullSlotSeen
  <2> QED BY <2>2, <2>3
<1>8. \A t \in Threads : mut' = t <=> at'[t] = "test"
  BY <1>1, <1>2, ConstantFacts DEF IInv, Threads
<1>9. \A v \in Workers : at'[v] # "gone"
  BY <1>1, <1>2, ConstantFacts DEF IInv, Threads
<1> QED BY <1>1, <1>2, <1>3, <1>6, <1>7, <1>8, <1>9 DEF IInv

LEMMA ClosePreserves ==
    ASSUME IInv, Close PROVE IInv'
<1> Main \in Threads /\ "join" \in MainPlaces
  BY DEF Threads, MainPlaces
<1>1. /\ at'[Main] = "join"
      /\ \A u \in Threads : u # Main =>
            \/ at'[u] = at[u]
            \/ at[u] = "asleep" /\ at'[u] = "awake"
      /\ at' \in [Threads -> WorkerPlaces \cup MainPlaces]
      /\ at'[Main] \in MainPlaces
      /\ \A v \in Workers : at'[v] \in WorkerPlaces
  BY GoesFacts DEF IInv, Close
<1>2. /\ at[Main] = "test" /\ flag = 0 /\ flag' = -1 /\ i = Right /\ mut' = None
      /\ UNCHANGED <<num, i, mine, tested, found>>
  BY DEF Close, IInv, TypeOK
<1>3. TypeOK'
  BY <1>1, <1>2 DEF IInv, TypeOK
<1>4. Holders' = Holders /\ InSlot = {} /\ InSlot' = {}
  BY <1>1, <1>2, ConstantFacts DEF Holders, Threads, InSlot
<1>5. EachInOnePlace'
  BY <1>2, <1>4 DEF IInv, EachInOnePlace
<1>6. FullSlotSeen'
  BY <1>2 DEF FullSlotSeen
<1>7. \A t \in Threads : mut' = t <=> at'[t] = "test"
  BY <1>1, <1>2, ConstantFacts DEF IInv, Threads
<1> QED BY <1>1, <1>2, <1>3, <1>5, <1>6, <1>7 DEF IInv

LEMMA EndPreserves ==
    ASSUME IInv, End PROVE IInv'
<1>1. TypeOK'
  BY ConstantFacts DEF IInv, TypeOK, End, Threads, WorkerPlaces, MainPlaces
<1>2. Holders' = Holders /\ UNCHANGED <<num, flag, i, mine, tested>>
  BY ConstantFacts DEF IInv, TypeOK, End, Holders, Threads
<1>3. EachInOnePlace'
  BY <1>2 DEF IInv, EachInOnePlace, InSlot
<1>4. FullSlotSeen'
  BY ConstantFacts DEF IInv, TypeOK, FullSlotSeen, End, Threads
<1> QED BY <1>1, <1>3, <1>4, ConstantFacts DEF IInv, TypeOK, End, Threads

-----------------------------------------------------------------------------
\* The inductive invariant.
THEOREM Invariance == Spec => []IInv
<1>1. IInv /\ [Next]_vars => IInv'
  <2> SUFFICES ASSUME IInv, [Next]_vars PROVE IInv'
    OBVIOUS
  <2>1. CASE UNCHANGED vars
    <3>1. TypeOK' /\ EachInOnePlace' /\ FullSlotSeen'
      BY <2>1 DEF vars, IInv, TypeOK, EachInOnePlace, InSlot, Holders, FullSlotSeen
    <3> QED BY <2>1, <3>1 DEF vars, IInv
  <2> QED BY <2>1, LockPreserves, WaitPreserves, SpuriousWakeupPreserves,
             TakePreserves, WorkPreserves, LeavePreserves, PutPreserves,
             ClosePreserves, EndPreserves DEF Next
<1> QED BY <1>1, InitIInv, PTL DEF Spec

\* Each number handed out is in the slot, with one thread, or tested.
THEOREM NoneLostOrDoubled == Spec => []EachInOnePlace
<1>1. IInv => EachInOnePlace
  BY DEF IInv
<1> QED BY <1>1, Invariance, PTL

\* A full slot finds a worker awake.
THEOREM FullSlotIsSeen == Spec => []FullSlotSeen
<1>1. IInv => FullSlotSeen
  BY DEF IInv
<1> QED BY <1>1, Invariance, PTL

\* ai.c tests each number once, finds the primes, and ends when it has tested
\* all.
THEOREM Implementation == Spec => ImplementsSearch
<1>1. Init => Search!Init
  BY ConstantFacts DEF Init, Search!Init, Threads
<1>2. IInv /\ [Next]_vars => [Search!Next]_(Search!vars)
  <2> SUFFICES ASSUME IInv, [Next]_vars PROVE [Search!Next]_(Search!vars)
    OBVIOUS
  <2> USE DEF Search!vars
  <2>1. ASSUME NEW w \in Workers, Work(w) PROVE Search!Test(mine[w]) /\ mine[w] \in Search!Numbers
    <3>1. w \in Holders /\ w # Main
      BY <2>1, ConstantFacts DEF Work, Holders
    <3>2. mine[w] \notin tested /\ mine[w] \in Left .. i - 1
      BY <3>1 DEF IInv, EachInOnePlace
    <3>3. mine[w] \in Nat /\ mine[w] >= 5 /\ mine[w] \in Search!Numbers
      BY <3>2, ConstantFacts DEF IInv, TypeOK, Search!Numbers
    <3>4. NoDivisor(mine[w]) <=> Search!IsPrime(mine[w])
      BY <3>3, TestIsRight DEF IsPrime, Search!IsPrime
    <3>5. at'[Main] = at[Main]
      BY <2>1, <3>1 DEF Work, IInv, TypeOK
    <3> QED BY <2>1, <3>2, <3>3, <3>4, <3>5 DEF Work, Search!Test
  <2>2. CASE End
    <3>1. flag = -1 /\ i = Right /\ Holders = {} /\ InSlot = {}
      BY <2>2, ConstantFacts DEF End, IInv, Holders, InSlot
    <3>2. tested = Search!Numbers
      BY <3>1 DEF IInv, EachInOnePlace, Search!Numbers
    <3>3. at'[Main] = "gone" /\ UNCHANGED <<tested, found>>
      BY <2>2 DEF End, IInv, TypeOK, Threads
    <3> QED BY <3>2, <3>3 DEF Search!End, Search!Next
  <2>3. ASSUME UNCHANGED <<tested, found>>, at[Main] # "gone", at'[Main] # "gone"
        PROVE  UNCHANGED Search!vars
    BY <2>3
  <2>4. ASSUME NEW t \in Threads, Lock(t) \/ Wait(t) \/ SpuriousWakeup(t)
        PROVE  UNCHANGED Search!vars
    BY <2>4, ConstantFacts DEF Lock, Wait, SpuriousWakeup, IInv, TypeOK, Threads
  <2>5. ASSUME NEW w \in Workers, Take(w) \/ Leave(w) PROVE UNCHANGED Search!vars
    BY <2>5, ConstantFacts DEF Take, Leave, Goes, Threads, Signalled, Asleep, IInv, TypeOK
  <2>6. CASE Put
    BY <2>6, ConstantFacts DEF Put, Goes, Threads
  <2>7. CASE Close
    BY <2>7, ConstantFacts DEF Close, Goes, Threads
  <2>8. CASE UNCHANGED vars
    BY <2>8 DEF vars
  <2> QED BY <2>1, <2>2, <2>4, <2>5, <2>6, <2>7, <2>8 DEF Next, Search!Next
<1> QED BY <1>1, <1>2, Invariance, PTL DEF Spec, ImplementsSearch, Search!Spec

\* When ai.c ends it has printed the primes of its range, all of them and
\* nothing else: the search that it implements ends no other way.
THEOREM PrintsThePrimes == Spec => []Search!PrimesFound
<1>1. Search!Init => Search!PrimesFound
  BY DEF Search!Init, Search!PrimesFound
<1>2. Search!PrimesFound /\ [Search!Next]_(Search!vars) => Search!PrimesFound'
  <2> SUFFICES ASSUME Search!PrimesFound, [Search!Next]_(Search!vars)
               PROVE  Search!PrimesFound'
    OBVIOUS
  <2>1. ASSUME NEW n \in Search!Numbers, Search!Test(n) PROVE Search!PrimesFound'
    BY <2>1 DEF Search!Test, Search!PrimesFound
  <2>2. CASE Search!End
    BY <2>2 DEF Search!End, Search!PrimesFound
  <2>3. CASE UNCHANGED Search!vars
    BY <2>3 DEF Search!vars, Search!PrimesFound
  <2> QED BY <2>1, <2>2, <2>3 DEF Search!Next
<1> QED BY <1>1, <1>2, Implementation, PTL DEF ImplementsSearch, Search!Spec

=============================================================================
