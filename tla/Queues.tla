------------------------------- MODULE Queues -------------------------------
(***************************************************************************)
(* The programs of IPC that talk over a message queue.  In myftp clients   *)
(* name a file and a server sends what is in it; requests and answers have *)
(* one form and one type, and share one queue, from which everybody takes  *)
(* the first message.  In msq senders send records to a receiver, which    *)
(* removes the queue on SIGINT.                                            *)
(*                                                                         *)
(* The server leaves its loops when it is asked for the file "end".  No    *)
(* client asks for it, since a client that reads this name ends itself.    *)
(***************************************************************************)
EXTENDS Integers, Sequences, FiniteSets, Program

CONSTANTS
    Clients,        \* of myftp; in msq they are the senders
    Names,          \* what may be typed as the name of a file
    Missing,        \* the names among them that cannot be opened or read
    QueueSize,      \* how many records the queue of msq holds
    MaxSent         \* bound: records sent

ASSUME QueuesAssumption == IsFiniteSet(Clients) /\ MaxSent \in Nat

QueuePrograms == {"myftp", "msq"}
NoData == "no data"

VARIABLES
    msq,        \* the messages in the queue, oldest first
    exists,     \* the queue exists
    server,     \* myftp: its state and its mst; msq: the receiver
    client,     \* of each client: its state and its mst
    sent,       \* history of msq: how many records were sent,
    shown       \*   and how many of them printed

queueVars == <<msq, exists, server, client, sent, shown>>

Messages == [filename : Names \cup {NoData}, data : Names \cup {NoData}]
Empty == [filename |-> NoData, data |-> NoData]

QueuesTypeOK ==
    /\ msq \in Seq(Messages)
    /\ exists \in BOOLEAN
    /\ server \in [state : {"S_WAIT", "S_READ", "S_WRITE", "exit"}, mst : Messages]
    /\ client \in [Clients -> [state : {"S_WAIT", "S_READ", "S_WRITE", "exit"},
                               mst : Messages]]
    /\ sent \in 0 .. MaxSent /\ shown \in 0 .. MaxSent

\* Whoever creates the queue, the server or the receiver, was started first.
QueuesInit ==
    /\ msq = <<>>
    /\ exists = TRUE
    /\ server = [state |-> "S_WAIT", mst |-> Empty]
    /\ client = [c \in Clients |-> [state |-> "S_WAIT", mst |-> Empty]]
    /\ sent = 0 /\ shown = 0

-----------------------------------------------------------------------------
\* msgrcv takes the first message, whoever sent it.  Without a message it
\* waits; without a queue it fails.
\* main of server.c, and S_READ and S_WRITE of its fsm
ServerReceives ==
    /\ program = "myftp"
    /\ server.state = "S_WAIT"
    /\ exists /\ msq # <<>>
    /\ server' = [state |-> "S_READ", mst |-> Head(msq)]
    /\ msq' = Tail(msq)
    /\ UNCHANGED <<exists, client, sent, shown>>

ServerReads ==
    /\ program = "myftp"
    /\ server.state = "S_READ"
    /\ server' = IF server.mst.filename \in Missing
                 THEN [server EXCEPT !.state = "exit"]
                 ELSE [server EXCEPT !.state = "S_WRITE",
                                     !.mst.data = server.mst.filename]
    /\ UNCHANGED <<msq, exists, client, sent, shown>>

\* mutant: S_DONE is forgotten, and the answer sent again
ServerWritesOn ==
    /\ program = "myftp"
    /\ server.state = "S_WRITE" /\ exists
    /\ Len(msq) < QueueSize
    /\ msq' = Append(msq, server.mst)
    /\ UNCHANGED <<server, exists, client, sent, shown>>

ServerWrites ==
    /\ program = "myftp"
    /\ server.state = "S_WRITE" /\ exists
    /\ msq' = Append(msq, server.mst)
    /\ server' = [server EXCEPT !.state = "S_WAIT"]
    /\ UNCHANGED <<exists, client, sent, shown>>

\* msgrcv or msgsnd fails, for a client has removed the queue.
ServerFails ==
    /\ program = "myftp"
    /\ server.state \in {"S_WAIT", "S_WRITE"} /\ ~exists
    /\ server' = [server EXCEPT !.state = "exit"]
    /\ UNCHANGED <<msq, exists, client, sent, shown>>

-----------------------------------------------------------------------------
\* main of client.c: a name is typed and sent.  What data holds is sent too.
ClientSends(c) ==
    /\ program = "myftp"
    /\ client[c].state = "S_WAIT"
    /\ \E name \in Names :
        LET mst == [client[c].mst EXCEPT !.filename = name]
        IN  IF exists
            THEN /\ client' = [client EXCEPT ![c] = [state |-> "S_READ", mst |-> mst]]
                 /\ msq' = Append(msq, mst)
            ELSE /\ client' = [client EXCEPT ![c] = [state |-> "exit", mst |-> mst]]
                 /\ UNCHANGED msq
    /\ UNCHANGED <<exists, server, sent, shown>>

\* "end" is typed: the client ends and removes the queue, for all.
ClientEnds(c) ==
    /\ program = "myftp"
    /\ client[c].state = "S_WAIT"
    /\ client' = [client EXCEPT ![c].state = "exit"]
    /\ exists' = FALSE
    /\ msq' = <<>>
    /\ UNCHANGED <<server, sent, shown>>

\* S_READ and S_WRITE of the fsm of client.c
ClientReceives(c) ==
    /\ program = "myftp"
    /\ client[c].state = "S_READ"
    /\ exists /\ msq # <<>>
    /\ client' = [client EXCEPT ![c] = [state |-> "S_WRITE", mst |-> Head(msq)]]
    /\ msq' = Tail(msq)
    /\ UNCHANGED <<exists, server, sent, shown>>

ClientShows(c) ==
    /\ program = "myftp"
    /\ client[c].state = "S_WRITE"
    /\ client' = [client EXCEPT ![c].state = "S_WAIT"]
    /\ UNCHANGED <<msq, exists, server, sent, shown>>

ClientFails(c) ==
    /\ program = "myftp"
    /\ client[c].state = "S_READ" /\ ~exists
    /\ client' = [client EXCEPT ![c].state = "exit"]
    /\ UNCHANGED <<msq, exists, server, sent, shown>>

-----------------------------------------------------------------------------
\* msq: a sender does not look at the result of msgsnd, which waits while the
\* queue is full.
SenderSends ==
    /\ program = "msq"
    /\ sent < MaxSent
    /\ exists => Len(msq) < QueueSize
    /\ msq' = IF exists THEN Append(msq, Empty) ELSE msq
    /\ sent' = IF exists THEN sent + 1 ELSE sent
    /\ UNCHANGED <<exists, server, client, shown>>

ReceiverShows ==
    /\ program = "msq"
    /\ server.state = "S_WAIT"
    /\ exists /\ msq # <<>>
    /\ msq' = Tail(msq)
    /\ shown' = shown + 1
    /\ UNCHANGED <<exists, server, client, sent>>

\* SIGINT: the handler removes the queue, and the next msgrcv fails, or the one
\* that waits.
ReceiverInterrupted ==
    /\ program = "msq"
    /\ server.state = "S_WAIT" /\ exists
    /\ exists' = FALSE
    /\ msq' = <<>>
    /\ UNCHANGED <<server, client, sent, shown>>

ReceiverFails ==
    /\ program = "msq"
    /\ server.state = "S_WAIT" /\ ~exists
    /\ server' = [server EXCEPT !.state = "exit"]
    /\ UNCHANGED <<msq, exists, client, sent, shown>>

QueuesNext ==
    \/ ServerReceives \/ ServerReads \/ ServerWrites \/ ServerFails
    \/ \E c \in Clients :
        \/ ClientSends(c) \/ ClientEnds(c)
        \/ ClientReceives(c) \/ ClientShows(c) \/ ClientFails(c)
    \/ SenderSends \/ ReceiverShows
    \/ ReceiverInterrupted \/ ReceiverFails

-----------------------------------------------------------------------------
\* No client waits for an answer that cannot come: as long as the server runs
\* and the queue exists there is a message for each client that waits, in the
\* queue or in the hands of the server, although a client may take its own
\* request, or that of another, for an answer, and the server its own answer
\* for a request.  Nor do messages pile up: the queue never has more of them
\* than there are clients.  In msq a record is printed or in the queue.
NoneStranded ==
    exists =>
        IF program = "msq" THEN sent = shown + Len(msq)
        ELSE LET waiting == Cardinality({c \in Clients : client[c].state = "S_READ"})
                 held == IF server.state \in {"S_READ", "S_WRITE"} THEN 1 ELSE 0
             IN  /\ server.state # "exit" => Len(msq) + held = waiting
                 /\ Len(msq) <= waiting

=============================================================================
