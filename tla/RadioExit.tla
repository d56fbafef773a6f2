------------------------------ MODULE RadioExit -----------------------------
(***************************************************************************)
(* The end of the net radio server: a signal interrupts the main thread,   *)
(* perhaps while it starts the threads of the channels, and its handler    *)
(* cancels them, frees the list and exits; or a thread calls exit because  *)
(* something fails.  exit runs module_unload, which frees the buckets.     *)
(*                                                                         *)
(* SIGALRM comes meanwhile, on any thread: the main one, those of the      *)
(* channels, thr_alrm of the last module_load, which tid names, and those  *)
(* of the earlier ones, which nobody cancels and of which one stands for   *)
(* all.  alrm_handle waits for ever if the thread it interrupts is in a    *)
(* call of mytbf.c, if the owner of a bucket's mutex has been cancelled in *)
(* pthread_cond_wait, and if another handler that waits for ever has got   *)
(* mut_job.                                                                *)
(*                                                                         *)
(* Left out: the list thread, which holds nothing when it is cancelled;    *)
(* SIGINT, SIGTERM and SIGQUIT on the other threads, and on the main one   *)
(* when it is in exit already.                                             *)
(***************************************************************************)
EXTENDS Integers, FiniteSets, Program

CONSTANT ExitChannels       \* 1 .. n: the entries of the list, in order

ASSUME ExitAssumption == ExitChannels \subseteq Nat \ {0}

\* The other threads
Main == 0
Tid == -1
Earlier == -2

VARIABLES
    exitmain,   \* main: "setup", "create", "record", "pause"; in the handler
                \* "destroy", "join", "leave"; "exit"; "jammed" in alrm_handle
    tid_pos,    \* the threads that main has recorded
    exitpos,    \* i of thr_channel_destroyall; 0 when the list is freed
    sender,     \* of each channel: what its thread does
    cancelled,  \* the threads that are to die at the next occasion
    bucketowner,\* the threads that have died as owners of a bucket's mutex
    stuck,      \* the threads in which alrm_handle waits for ever
    exiting,    \* exit: "no", "join" and "freed" in module_unload; "over":
                \* the process has ended, or nothing is known any more
    exiter      \* the thread that calls exit

exitVars == <<exitmain, tid_pos, exitpos, sender, cancelled, bucketowner,
              stuck, exiting, exiter>>

ExitTypeOK ==
    /\ exitmain \in {"setup", "create", "record", "pause", "destroy", "join",
                     "leave", "exit", "jammed"}
    /\ tid_pos \in 0 .. Cardinality(ExitChannels)
    /\ exitpos \in 0 .. Cardinality(ExitChannels) + 1
    /\ sender \in [ExitChannels ->
                        {"none", "runs", "calls", "waits", "exits", "dead"}]
    /\ cancelled \subseteq ExitChannels
    /\ bucketowner \subseteq ExitChannels
    /\ stuck \subseteq ExitChannels \cup {Main, Tid, Earlier}
    /\ exiting \in {"no", "join", "freed", "over"}
    /\ exiter \in ExitChannels \cup {Main}

ExitInit ==
    /\ exitmain = "setup"
    /\ tid_pos = 0
    /\ exitpos = 1
    /\ sender = [c \in ExitChannels |-> "none"]
    /\ cancelled = {} /\ bucketowner = {} /\ stuck = {}
    /\ exiting = "no" /\ exiter = Main

Running == program = "radioexit" /\ exiting # "over"
ExitAt(here) == Running /\ exitmain = here
Recorded == 1 .. tid_pos
Living == {c \in ExitChannels : sender[c] \notin {"none", "dead"}}

\* Thread t calls exit.  What a second call does is undefined.
Exits(t) ==
    IF exiting = "no" THEN exiting' = "join" /\ exiter' = t
                      ELSE exiting' = "over" /\ UNCHANGED exiter

-----------------------------------------------------------------------------
\* Everything up to thr_list_create, which may fail
ExitSetUp ==
    /\ ExitAt("setup") /\ Main \notin stuck
    /\ \/ exitmain' = "create" /\ UNCHANGED <<exiting, exiter>>
       \/ exitmain' = "exit" /\ Exits(Main)
    /\ UNCHANGED <<tid_pos, exitpos, sender, cancelled, bucketowner, stuck>>

\* thr_channel_create: the thread runs before it is recorded.
ExitCreate ==
    /\ ExitAt("create") /\ Main \notin stuck
    /\ IF tid_pos + 1 \in ExitChannels
       THEN /\ sender' = [sender EXCEPT ![tid_pos + 1] = "runs"]
            /\ exitmain' = "record"
       ELSE UNCHANGED sender /\ exitmain' = "pause"
    /\ UNCHANGED <<tid_pos, exitpos, cancelled, bucketowner, stuck, exiting,
                   exiter>>

\* It fails: main calls exit while the other threads run.
ExitCreateFails ==
    /\ ExitAt("create") /\ Main \notin stuck
    /\ tid_pos + 1 \in ExitChannels
    /\ exitmain' = "exit" /\ Exits(Main)
    /\ UNCHANGED <<tid_pos, exitpos, sender, cancelled, bucketowner, stuck>>

ExitRecord ==
    /\ ExitAt("record") /\ Main \notin stuck
    /\ tid_pos' = tid_pos + 1
    /\ exitmain' = "create"
    /\ UNCHANGED <<exitpos, sender, cancelled, bucketowner, stuck, exiting,
                   exiter>>

\* Server_DaemonExit, also on top of an alrm_handle that waits for ever.  It
\* cancels the list thread first: in set up tid_list names no thread.
ExitSignal ==
    /\ Running
    /\ exitmain \in {"setup", "create", "record", "pause"}
    /\ exitmain' = "destroy"
    /\ exiting' = IF exitmain = "setup" THEN "over" ELSE exiting
    /\ UNCHANGED <<tid_pos, exitpos, sender, cancelled, bucketowner, stuck,
                   exiter>>

\* mutant: the thread is waited for and never told
DestroyUntold ==
    /\ ExitAt("destroy")
    /\ exitpos \in Recorded
    /\ exitmain' = "join"
    /\ UNCHANGED <<tid_pos, exitpos, sender, cancelled, bucketowner, stuck,
                   exiting, exiter>>

\* thr_channel_destroyall: each recorded thread is cancelled and joined.
DestroyCancel ==
    /\ ExitAt("destroy")
    /\ exitpos \in Recorded
    /\ cancelled' = cancelled \cup {exitpos}
    /\ exitmain' = "join"
    /\ UNCHANGED <<tid_pos, exitpos, sender, bucketowner, stuck, exiting,
                   exiter>>

DestroyJoin ==
    /\ ExitAt("join")
    /\ sender[exitpos] = "dead"
    /\ exitpos' = exitpos + 1
    /\ exitmain' = "destroy"
    /\ UNCHANGED <<tid_pos, sender, cancelled, bucketowner, stuck, exiting,
                   exiter>>

\* mlib_freechnlist
FreeList ==
    /\ ExitAt("destroy")
    /\ exitpos \notin Recorded
    /\ exitmain' = "leave" /\ exitpos' = 0
    /\ UNCHANGED <<tid_pos, sender, cancelled, bucketowner, stuck, exiting,
                   exiter>>

Leave ==
    /\ ExitAt("leave")
    /\ exitmain' = "exit" /\ Exits(Main)
    /\ UNCHANGED <<tid_pos, exitpos, sender, cancelled, bucketowner, stuck>>

-----------------------------------------------------------------------------
\* The thread that has called exit goes on.
ExiterRuns ==
    IF exiter = Main THEN exitmain = "exit"
                     ELSE sender[exiter] = "exits" /\ exiter \notin stuck

\* module_unload cancels and joins the last of the alarm threads, and frees the
\* buckets whoever uses them.
ModuleUnload ==
    /\ Running /\ exiting = "join" /\ ExiterRuns
    /\ Tid \notin stuck
    /\ exiting' = "freed"
    /\ UNCHANGED <<exitmain, tid_pos, exitpos, sender, cancelled, bucketowner,
                   stuck, exiter>>

\* It runs once for each module_load: for each bucket, and once more for
\* pthread_once.  The second one cancels a thread that has been joined and
\* frees the buckets again.
UnloadAgain ==
    /\ Running /\ exiting = "freed" /\ ExiterRuns
    /\ exiting' = "over"
    /\ UNCHANGED <<exitmain, tid_pos, exitpos, sender, cancelled, bucketowner,
                   stuck, exiter>>

\* job[] still has the freed buckets, which the handler uses on any thread, and
\* any thread of a channel that is left.
FreedUsed ==
    /\ Running /\ exiting = "freed"
    /\ exiting' = "over"
    /\ UNCHANGED <<exitmain, tid_pos, exitpos, sender, cancelled, bucketowner,
                   stuck, exiter>>

-----------------------------------------------------------------------------
\* The thread of channel c goes from one state to another; with its call of
\* exit or after the buckets are freed see SenderExits and FreedUsed.
SenderGoes(c, from, to) ==
    /\ Running /\ exiting # "freed"
    /\ sender[c] = from /\ c \notin stuck
    /\ sender' = [sender EXCEPT ![c] = to]
    /\ UNCHANGED <<exitmain, tid_pos, exitpos, cancelled, stuck, exiting,
                   exiter>>

\* mytbf_fetchtoken and the calls after it.  A thread that was cancelled does
\* not get past pread, sendto or pthread_cond_wait.
SenderCalls(c) ==
    /\ c \notin cancelled
    /\ SenderGoes(c, "runs", "calls")
    /\ UNCHANGED bucketowner

SenderWaits(c) == SenderGoes(c, "calls", "waits") /\ UNCHANGED bucketowner

SenderWakes(c) ==
    /\ c \notin cancelled
    /\ SenderGoes(c, "waits", "calls")
    /\ UNCHANGED bucketowner

SenderReturns(c) == SenderGoes(c, "calls", "runs") /\ UNCHANGED bucketowner

\* In pthread_cond_wait the thread gets the mutex before it dies.  In exit it
\* dies where it joins the alarm thread.
SenderDies(c) ==
    /\ c \in cancelled
    /\ \/ SenderGoes(c, "waits", "dead") /\ bucketowner' = bucketowner \cup {c}
       \/ \E from \in {"runs", "exits"} :
            SenderGoes(c, from, "dead") /\ UNCHANGED bucketowner

\* malloc or sendto fails: the thread calls exit, whatever main is doing.
SenderExits(c) ==
    /\ Running
    /\ sender[c] = "runs" /\ c \notin stuck
    /\ sender' = [sender EXCEPT ![c] = "exits"]
    /\ Exits(c)
    /\ UNCHANGED <<exitmain, tid_pos, exitpos, cancelled, bucketowner, stuck>>

\* SIGALRM on thread t, where alrm_handle waits for ever; main may be in
\* mytbf_init while it sets up.  SIGALRM does not interrupt alrm_handle.
AlarmSticks(t) ==
    /\ Running /\ exiting # "freed"
    /\ t \notin stuck
    /\ \/ bucketowner # {} \/ stuck # {}
       \/ IF t = Main THEN exitmain = "setup"
                      ELSE t \in ExitChannels /\ sender[t] = "calls"
    /\ stuck' = stuck \cup {t}
    /\ exitmain' = IF t = Main /\ exitmain \in {"destroy", "join", "leave", "exit"}
                   THEN "jammed" ELSE exitmain
    /\ UNCHANGED <<tid_pos, exitpos, sender, cancelled, bucketowner, exiting,
                   exiter>>

ExitNext ==
    \/ ExitSetUp \/ ExitCreate \/ ExitCreateFails \/ ExitRecord \/ ExitSignal
    \/ DestroyCancel \/ DestroyJoin \/ FreeList \/ Leave
    \/ ModuleUnload \/ UnloadAgain \/ FreedUsed
    \/ \E c \in ExitChannels :
        \/ SenderCalls(c) \/ SenderWaits(c) \/ SenderWakes(c)
        \/ SenderReturns(c) \/ SenderDies(c) \/ SenderExits(c)
    \/ \E t \in Living \cup {Main, Tid, Earlier} : AlarmSticks(t)

\* The threads are scheduled.  Whether a bucket has tokens, something fails or
\* a signal comes is left open.
ExitFairness ==
    /\ WF_exitVars(DestroyCancel) /\ WF_exitVars(DestroyJoin)
    /\ WF_exitVars(FreeList) /\ WF_exitVars(Leave)
    /\ WF_exitVars(ModuleUnload) /\ WF_exitVars(UnloadAgain)
    /\ \A c \in ExitChannels :
        WF_exitVars(SenderReturns(c)) /\ WF_exitVars(SenderDies(c))

-----------------------------------------------------------------------------
\* The list that the threads were given an entry of is freed after the death of
\* each thread that was recorded.  (Not of each thread, as the comment of
\* thr_channel_destroyall has it: the one that main had started and not recorded
\* when the signal came runs on.)
RecordedGone == exitpos = 0 => \A c \in Recorded : sender[c] = "dead"

\* A server that has got a signal exits, whatever its threads are doing, also if
\* one of them calls exit at the same time, unless alrm_handle waits for ever in
\* some thread.
StopsWhenTold ==
    (program = "radioexit" /\ exitmain = "destroy")
        ~> (exiting = "over" \/ stuck # {})

=============================================================================
