----------------------------- MODULE MCPrograms -----------------------------
(***************************************************************************)
(* All the small programs for TLC.  A behaviour is one of the program that *)
(* program names: nothing moves in the modules of the others.              *)
(***************************************************************************)
EXTENDS Relay, Letters, PrimeThreads, CounterFile, Timers, CopyLoops,
        Buckets, Queues, RadioList, RadioExit, TimeServers

MCTimers == 1 .. 3
MCSlots == 0 .. 1
MCTbSlots == 0 .. 1
MCExitChannels == 1 .. 3

\* One channel; two of them, numbered with a gap; a list too long to be sent
MCRadioLists == {
    <<[chnid |-> 1, desc |-> 0]>>,
    <<[chnid |-> 1, desc |-> 3], [chnid |-> 3, desc |-> 1]>>,
    <<[chnid |-> 2, desc |-> 1], [chnid |-> 3, desc |-> 9],
      [chnid |-> 4, desc |-> 9]>>}

Init ==
    /\ program \in Relays \cup {"interview", "abcd_lhq", "compt", "compt_dmc",
            "prime", "add", "lockadd", "signaltimer", "posixtimer", "radiolist",
            "radioexit"} \cup Copies \cup TbPrograms \cup QueuePrograms
            \cup TimePrograms
    /\ RelayInit
    /\ LettersInit
    /\ PrimesInit
    /\ CounterInit
    /\ TimersInit
    /\ CopiesInit
    /\ BucketsInit
    /\ QueuesInit
    /\ ListInit
    /\ ExitInit
    /\ TimeInit

MCvars == <<program, relayVars, letterVars, primeVars, counterVars,
            timerVars, copyVars, bucketVars, queueVars,
            listVars, exitVars, timeVars>>

RelayStep ==
    /\ RelayNext
    /\ UNCHANGED <<program, letterVars, primeVars, counterVars, timerVars, copyVars,
                    bucketVars, queueVars, listVars, exitVars, timeVars>>

LettersStep ==
    /\ LettersNext
    /\ UNCHANGED <<program, relayVars, primeVars, counterVars, timerVars, copyVars,
                    bucketVars, queueVars, listVars, exitVars, timeVars>>

PrimesStep ==
    /\ PrimesNext
    /\ UNCHANGED <<program, relayVars, letterVars, counterVars, timerVars, copyVars,
                    bucketVars, queueVars, listVars, exitVars, timeVars>>

CounterStep ==
    /\ CounterNext
    /\ UNCHANGED <<program, relayVars, letterVars, primeVars, timerVars, copyVars,
                    bucketVars, queueVars, listVars, exitVars, timeVars>>

TimersStep ==
    /\ TimersNext
    /\ UNCHANGED <<program, relayVars, letterVars, primeVars, counterVars, copyVars,
                    bucketVars, queueVars, listVars, exitVars, timeVars>>

CopiesStep ==
    /\ CopiesNext
    /\ UNCHANGED <<program, relayVars, letterVars, primeVars, counterVars, timerVars,
                    bucketVars, queueVars, listVars, exitVars, timeVars>>

BucketsStep ==
    /\ BucketsNext
    /\ UNCHANGED <<program, relayVars, letterVars, primeVars, counterVars, timerVars,
                    copyVars, queueVars, listVars, exitVars, timeVars>>

QueuesStep ==
    /\ QueuesNext
    /\ UNCHANGED <<program, relayVars, letterVars, primeVars, counterVars, timerVars,
                    copyVars, bucketVars, listVars, exitVars, timeVars>>

ListStep ==
    /\ ListNext
    /\ UNCHANGED <<program, relayVars, letterVars, primeVars, counterVars, timerVars,
                    copyVars, bucketVars, queueVars, exitVars, timeVars>>

ExitStep ==
    /\ ExitNext
    /\ UNCHANGED <<program, relayVars, letterVars, primeVars, counterVars, timerVars,
                    copyVars, bucketVars, queueVars, listVars, timeVars>>

TimeStep ==
    /\ TimeNext
    /\ UNCHANGED <<program, relayVars, letterVars, primeVars, counterVars, timerVars,
                    copyVars, bucketVars, queueVars, listVars, exitVars>>

Next ==
    \/ RelayStep \/ LettersStep \/ PrimesStep \/ CounterStep \/ TimersStep
    \/ CopiesStep \/ BucketsStep \/ QueuesStep \/ ListStep \/ ExitStep \/ TimeStep

Fairness == RelayFairness /\ BucketsFairness /\ ExitFairness

Spec == Init /\ [][Next]_MCvars /\ Fairness

=============================================================================
