----------------------------- MODULE TimeServers ----------------------------
(***************************************************************************)
(* The servers of socket/stream, which tell each client the time: server.c *)
(* one after the other, server_phread.c by a thread for each, to which it  *)
(* passes the address of the descriptor, server_process.c by a process for *)
(* each.  A client may be gone before it has its answer, and accept may    *)
(* fail, which no server notices before it sends to descriptor -1.         *)
(***************************************************************************)
EXTENDS Integers, FiniteSets, Program

CONSTANTS
    Callers,        \* the clients
    PthSize         \* PTHSIZE

TimePrograms == {"timeserver", "timephread", "timeprocess"}
BadFd == "-1"       \* what accept returns when it fails
Places == 0 .. PthSize - 1

ASSUME TimeAssumption == BadFd \notin Callers /\ PthSize \in Nat \ {0}

VARIABLES
    conn,           \* of each client: "new", "queued", "accepted"
    gone,           \* the clients that have gone
    answers,        \* of each client: how often it was told the time
    timemain,       \* main of the server: "setup", "accept", "send" or
                    \* "create", "over"
    nfd,            \* the descriptor: a client or BadFd; in server_phread.c
                    \* one for each thread
    pthreadID,      \* server_phread.c: how many threads were created
    threads,        \*   and the places in nfd of those that have not sent yet
    children        \* server_process.c: the descriptors of the children

timeVars == <<conn, gone, answers, timemain, nfd, pthreadID, threads, children>>

Descriptors == Callers \cup {BadFd}

TimeTypeOK ==
    /\ conn \in [Callers -> {"new", "queued", "accepted"}]
    /\ gone \subseteq Callers
    /\ answers \in [Callers -> Nat]
    /\ timemain \in {"setup", "accept", "send", "create", "over"}
    /\ nfd \in [Places -> Descriptors]
    /\ pthreadID \in 0 .. PthSize
    /\ threads \subseteq Places
    /\ children \subseteq Descriptors

TimeInit ==
    /\ conn = [c \in Callers |-> "new"]
    /\ gone = {}
    /\ answers = [c \in Callers |-> 0]
    /\ timemain = "setup"
    /\ nfd = [k \in Places |-> BadFd]
    /\ pthreadID = 0
    /\ threads = {} /\ children = {}

-----------------------------------------------------------------------------
\* client.c: connect, which fails while nobody listens, and then wait for the
\* answer, or be killed before.
Connect(c) ==
    /\ conn[c] = "new" /\ c \notin gone
    /\ IF timemain \in {"setup", "over"}
       THEN gone' = gone \cup {c} /\ UNCHANGED conn
       ELSE conn' = [conn EXCEPT ![c] = "queued"] /\ UNCHANGED gone
    /\ UNCHANGED <<answers, timemain, nfd, pthreadID, threads, children>>

Killed(c) ==
    /\ conn[c] # "new" /\ c \notin gone
    /\ gone' = gone \cup {c}
    /\ UNCHANGED <<conn, answers, timemain, nfd, pthreadID, threads, children>>

-----------------------------------------------------------------------------
TimeAt(p, here) == program = p /\ timemain = here

\* socket, bind and listen, each of which may fail
SetUp ==
    /\ timemain = "setup"
    /\ timemain' \in {"accept", "over"}
    /\ UNCHANGED <<conn, gone, answers, nfd, pthreadID, threads, children>>

ServerSetUp == program = "timeserver" /\ SetUp
PhreadSetUp == program = "timephread" /\ SetUp
ProcessSetUp == program = "timeprocess" /\ SetUp

\* accept: a client that has connected, also one that is gone, or a failure
AcceptInto(k, there) ==
    /\ timemain' = there
    /\ \/ \E c \in Callers :
            /\ conn[c] = "queued"
            /\ conn' = [conn EXCEPT ![c] = "accepted"]
            /\ nfd' = [nfd EXCEPT ![k] = c]
       \/ nfd' = [nfd EXCEPT ![k] = BadFd] /\ UNCHANGED conn
    /\ UNCHANGED <<gone, answers, pthreadID, threads, children>>

\* send may fail when the client is gone, and fails for BadFd.
Sent(fd) ==
    /\ fd # BadFd
    /\ answers' = [answers EXCEPT ![fd] = @ + 1]
SendFails(fd) == fd \in gone \cup {BadFd}

\* server.c
ServerAccept == TimeAt("timeserver", "accept") /\ AcceptInto(0, "send")

ServerSend ==
    /\ TimeAt("timeserver", "send")
    /\ \/ Sent(nfd[0]) /\ timemain' = "accept"
       \/ SendFails(nfd[0]) /\ timemain' = "over" /\ UNCHANGED answers
    /\ UNCHANGED <<conn, gone, nfd, pthreadID, threads, children>>

\* server_phread.c.  Nobody counts the threads: with PTHSIZE of them nfd and
\* tid are written past their ends, and anything may follow.
\* mutant: one descriptor for all threads
PhreadAcceptShared ==
    /\ TimeAt("timephread", "accept")
    /\ pthreadID < PthSize
    /\ \E c \in Callers :
        /\ conn[c] = "queued"
        /\ conn' = [conn EXCEPT ![c] = "accepted"]
        /\ nfd' = [k \in Places |-> c]
    /\ timemain' = "create"
    /\ UNCHANGED <<gone, answers, pthreadID, threads, children>>

PhreadAccept ==
    /\ TimeAt("timephread", "accept")
    /\ pthreadID < PthSize
    /\ AcceptInto(pthreadID, "create")

PhreadOverrun ==
    /\ TimeAt("timephread", "accept")
    /\ pthreadID = PthSize
    /\ timemain' = "over"
    /\ UNCHANGED <<conn, gone, answers, nfd, pthreadID, threads, children>>

PhreadCreate ==
    /\ TimeAt("timephread", "create")
    /\ \/ /\ threads' = threads \cup {pthreadID}
          /\ pthreadID' = pthreadID + 1
          /\ timemain' = "accept"
       \/ /\ timemain' = "over"
          /\ UNCHANGED <<threads, pthreadID>>
    /\ UNCHANGED <<conn, gone, answers, nfd, children>>

\* A thread whose send fails ends the server.
PhreadSend(k) ==
    /\ program = "timephread" /\ timemain # "over"
    /\ k \in threads
    /\ \/ Sent(nfd[k]) /\ threads' = threads \ {k} /\ UNCHANGED timemain
       \/ /\ SendFails(nfd[k]) /\ timemain' = "over"
          /\ UNCHANGED <<answers, threads>>
    /\ UNCHANGED <<conn, gone, nfd, pthreadID, children>>

\* server_process.c: a child has a descriptor of its own, and ends alone.
ProcessAccept == TimeAt("timeprocess", "accept") /\ AcceptInto(0, "create")

ProcessFork ==
    /\ TimeAt("timeprocess", "create")
    /\ \/ children' = children \cup {nfd[0]} /\ timemain' = "accept"
       \/ timemain' = "over" /\ UNCHANGED children
    /\ UNCHANGED <<conn, gone, answers, nfd, pthreadID, threads>>

ProcessSend(fd) ==
    /\ program = "timeprocess"
    /\ fd \in children
    /\ children' = children \ {fd}
    /\ Sent(fd) \/ (SendFails(fd) /\ UNCHANGED answers)
    /\ UNCHANGED <<conn, gone, timemain, nfd, pthreadID, threads>>

TimeNext ==
    \/ program \in TimePrograms /\ \E c \in Callers : Connect(c) \/ Killed(c)
    \/ ServerSetUp \/ PhreadSetUp \/ ProcessSetUp
    \/ ServerAccept \/ ServerSend
    \/ PhreadAccept \/ PhreadOverrun \/ PhreadCreate
    \/ \E k \in Places : PhreadSend(k)
    \/ ProcessAccept \/ ProcessFork
    \/ \E fd \in Descriptors : ProcessSend(fd)

-----------------------------------------------------------------------------
\* Somebody is about to answer client c.
InHand(c) ==
    \/ timemain \in {"send", "create"} /\
        nfd[IF program = "timephread" THEN pthreadID ELSE 0] = c
    \/ c \in children
    \/ \E k \in threads : nfd[k] = c

\* A client is told the time once, and by a server that goes on nobody is
\* forgotten whom it has accepted: the descriptor that a thread reads through
\* the address it was given is still that of its own client, however many
\* were accepted before it came to run.
AnsweredOnce ==
    \A c \in Callers :
        /\ answers[c] <= 1
        /\ conn[c] = "accepted" /\ timemain # "over" =>
            (answers[c] = 0 => InHand(c) \/ c \in gone)

=============================================================================
