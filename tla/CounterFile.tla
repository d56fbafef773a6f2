----------------------------- MODULE CounterFile ----------------------------
(***************************************************************************)
(* Threads that increment the number in a file, through one buffer that    *)
(* they share: posix/add.c has nothing to keep them apart, advancdIO/add.c *)
(* a mutex, and a lock on the file against other processes.                *)
(***************************************************************************)
EXTENDS Naturals, FiniteSets, Program

CONSTANT Adders         \* the threads

ASSUME CounterAssumption == IsFiniteSet(Adders)

VARIABLES
    file,       \* the number in the file
    strbuf,     \* the number in the shared buffer
    adder,      \* where each thread is: "start", "in", "read", "printed",
                \* "done"
    stream,     \* what each thread has printed and not yet written to the file
    mutex       \* advancdIO/add.c: the threads that hold the mutex

counterVars == <<file, strbuf, adder, stream, mutex>>

CounterTypeOK ==
    /\ file \in Nat /\ strbuf \in Nat
    /\ adder \in [Adders -> {"start", "in", "read", "printed", "done"}]
    /\ stream \in [Adders -> Nat]
    /\ mutex \subseteq Adders

CounterInit ==
    /\ file = 0 /\ strbuf = 0
    /\ adder = [t \in Adders |-> "start"]
    /\ stream = [t \in Adders |-> 0]
    /\ mutex = {}

\* fgets, taken for one step, as is the atoi of Format: without the mutex the
\* numbers of two threads may in fact be mixed digit by digit.
Get(t, from) ==
    /\ adder[t] = from
    /\ strbuf' = file
    /\ adder' = [adder EXCEPT ![t] = "read"]
    /\ UNCHANGED <<file, stream, mutex>>

\* fseek and fprintf, into the buffer of the thread's own stream
Format(t) ==
    /\ adder[t] = "read"
    /\ stream' = [stream EXCEPT ![t] = strbuf + 1]
    /\ adder' = [adder EXCEPT ![t] = "printed"]
    /\ UNCHANGED <<file, strbuf, mutex>>

\* fflush, or fclose
Flush(t) ==
    /\ adder[t] = "printed"
    /\ file' = stream[t]
    /\ adder' = [adder EXCEPT ![t] = "done"]
    /\ UNCHANGED <<strbuf, stream>>

PosixRoutine(t) ==
    /\ program = "add"
    /\ Get(t, "start") \/ Format(t) \/ (Flush(t) /\ UNCHANGED mutex)

\* mutant: the thread does not wait
LockTakenTwice(t) ==
    /\ adder[t] = "start"
    /\ mutex' = mutex \cup {t}
    /\ adder' = [adder EXCEPT ![t] = "in"]
    /\ UNCHANGED <<file, strbuf, stream>>

Lock(t) ==
    /\ adder[t] = "start"
    /\ mutex = {}
    /\ mutex' = {t}
    /\ adder' = [adder EXCEPT ![t] = "in"]
    /\ UNCHANGED <<file, strbuf, stream>>

LockedRoutine(t) ==
    /\ program = "lockadd"
    /\ Lock(t) \/ Get(t, "in") \/ Format(t) \/ (Flush(t) /\ mutex' = mutex \ {t})

CounterNext == \E t \in Adders : PosixRoutine(t) \/ LockedRoutine(t)

-----------------------------------------------------------------------------
Done == {t \in Adders : adder[t] = "done"}

\* Under the mutex no increment is lost, although the threads share the buffer
\* that they read into.  Without it some are, and the number may even fall,
\* but it never runs ahead of the threads that have written, and some
\* increment survives.
Counted ==
    LET writers == Cardinality(Done)
    IN  /\ program = "lockadd" => file = writers
        /\ program = "add" => file <= writers /\ (writers > 0 => file > 0)

=============================================================================
