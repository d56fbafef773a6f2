-------------------------------- MODULE Relay -------------------------------
(***************************************************************************)
(* The relays between two terminals of advancdIO: mycpy.c calls its two    *)
(* state machines in turn, select.c, poll.c and epoll.c ask the kernel     *)
(* first which of them has something to do.                                *)
(*                                                                         *)
(* F_SETFD sets O_NONBLOCK among the flags of the descriptor, where it     *)
(* means nothing: the descriptors stay blocking, and EAGAIN never comes.   *)
(* write is asked for BUFSIZE bytes however many were read: what goes out  *)
(* after those is what memory holds behind them, until there is none and   *)
(* write fails with EFAULT.  So the bytes are no copy of what came in, and *)
(* the model only counts them; len, which is set and counted down, has no  *)
(* effect after the read.  That no terminal holds up its output is         *)
(* assumed.                                                                *)
(***************************************************************************)
EXTENDS Integers, Program

CONSTANTS
    BufSize,            \* BUFSIZE
    StackEnd            \* bytes that can be read from the start of buf on

ASSUME RelayAssumption ==
    BufSize \in Nat \ {0} /\ StackEnd \in Nat /\ StackEnd >= BufSize

Relays == {"mycpy", "select", "poll", "epoll"}

\* The two directions.  A terminal is named by the direction that reads it.
Ways == {"12", "21"}
Back(w) == IF w = "12" THEN "21" ELSE "12"

VARIABLES
    fsm,        \* of each direction: the fields state and pos
    calls,      \* the calls of branch that are left in this round
    tty         \* what read finds at each terminal: "silent", "typed", "hung"

relayVars == <<fsm, calls, tty>>

In(w, states) == fsm[w].state \in states
Active(w) == In(w, {"rd", "wr"})        \* state < STATE_DIVIDE
Readable(w) == tty[w] # "silent"

RelayTypeOK ==
    /\ fsm \in [Ways -> [state : {"rd", "wr", "end", "err"}, pos : 0 .. StackEnd]]
    /\ calls \subseteq Ways
    /\ tty \in [Ways -> {"silent", "typed", "hung"}]

RelayInit ==
    /\ fsm = [w \in Ways |-> [state |-> "rd", pos |-> 0]]
    /\ calls = {}
    /\ tty = [w \in Ways |-> "silent"]

-----------------------------------------------------------------------------
\* The terminals.
Type(w) ==
    /\ tty[w] = "silent"
    /\ tty' = [tty EXCEPT ![w] = "typed"]
    /\ UNCHANGED <<fsm, calls>>

HangUp(w) ==
    /\ tty[w] # "hung"
    /\ tty' = [tty EXCEPT ![w] = "hung"]
    /\ UNCHANGED <<fsm, calls>>

-----------------------------------------------------------------------------
\* STATE_RD of branch.  read blocks while the terminal is silent.
ReadSome(w) ==
    /\ tty[w] = "typed"
    /\ fsm' = [fsm EXCEPT ![w] = [state |-> "wr", pos |-> 0]]
    /\ tty' = [tty EXCEPT ![w] = "silent"]

ReadEndOrError(w) ==
    /\ tty[w] = "hung"
    /\ \E s \in {"end", "err"} : fsm' = [fsm EXCEPT ![w].state = s]
    /\ UNCHANGED tty

\* STATE_WR of branch: up to BUFSIZE bytes, whatever is left of those that were
\* read.  A machine that has written writes again, for the test that would take
\* it back to STATE_RD comes after ret > 0.
WriteSome(w) ==
    /\ tty[Back(w)] # "hung"
    /\ \E n \in 1 .. BufSize :
        /\ fsm[w].pos + n <= StackEnd
        /\ fsm' = [fsm EXCEPT ![w].pos = @ + n]
    /\ UNCHANGED tty

WriteError(w) ==
    /\ tty[Back(w)] = "hung" \/ fsm[w].pos = StackEnd
    /\ fsm' = [fsm EXCEPT ![w].state = "err"]
    /\ UNCHANGED tty

\* The call of branch for direction w; that for "12" comes first.
Branch(w) ==
    /\ w \in calls
    /\ w = "21" => "12" \notin calls
    /\ calls' = calls \ {w}
    /\ \/ In(w, {"rd"}) /\ (ReadSome(w) \/ ReadEndOrError(w))
       \/ In(w, {"wr"}) /\ (WriteSome(w) \/ WriteError(w))
       \/ ~Active(w) /\ UNCHANGED <<fsm, tty>>

MycpyBranch(w) == program = "mycpy" /\ Branch(w)
SelectBranch(w) == program = "select" /\ Branch(w)
PollBranch(w) == program = "poll" /\ Branch(w)

-----------------------------------------------------------------------------
\* A round of transport: wait, and decide for which directions to call branch.
\* The loop goes on until both machines have ended.
Round(p, called) ==
    /\ program = p
    /\ calls = {}
    /\ \E w \in Ways : ~In(w, {"end"})
    /\ calls' = called
    /\ UNCHANGED <<fsm, tty>>

MycpyRound == Round("mycpy", Ways)

\* mutant: nobody watches what the second machine reads
SelectedFirst ==
    {w \in Ways : In(w, {"wr"}) \/ (w = "12" /\ In(w, {"rd"}) /\ Readable(w))}

\* select waits for the terminal that a machine reads or writes.
Selected == {w \in Ways : In(w, {"wr"}) \/ (In(w, {"rd"}) /\ Readable(w))}

\* mutant: the test that poll.c makes for both directions
SelectRoundLikePoll ==
    /\ (\E w \in Ways : Active(w)) => Selected # {}
    /\ Round("select", {w \in Ways : Selected # {} \/ ~Active(w)})

SelectRound ==
    /\ (\E w \in Ways : Active(w)) => Selected # {}
    /\ Round("select", Selected \cup {w \in Ways : ~Active(w)})

\* poll watches each terminal for the machine that reads it, also when that
\* machine writes to the other one, and both calls of branch depend on the
\* same two events: input for "12", and room asked for by "21".
Polled ==
    \/ In("12", {"rd"}) /\ Readable("12")
    \/ In("21", {"wr"})

PollRound ==
    /\ \E w \in Ways :
        In(w, {"wr"}) \/ (In(w, {"rd"}) /\ Readable(w)) \/ tty[w] = "hung"
    /\ Round("poll", {w \in Ways : Polled \/ ~Active(w)})

\* The events that epoll.c sets before it waits are never registered with
\* epoll_ctl, so that only a terminal that hangs up ends the wait, with an
\* event that is neither input nor room.  No machine gets out of STATE_RD:
\* epoll.c never calls branch.
EpollRound ==
    /\ (\E w \in Ways : Active(w)) => \E w \in Ways : tty[w] = "hung"
    /\ Round("epoll", {w \in Ways : ~Active(w)})

RelayNext ==
    \/ program \in Relays /\ \E w \in Ways : Type(w) \/ HangUp(w)
    \/ MycpyRound \/ SelectRound \/ PollRound \/ EpollRound
    \/ \E w \in Ways :
        MycpyBranch(w) \/ SelectBranch(w) \/ PollBranch(w)

\* What select.c does is scheduled, and what its terminals do is not.
RelayFairness ==
    /\ WF_relayVars(SelectRound)
    /\ \A w \in Ways : WF_relayVars(SelectBranch(w))

-----------------------------------------------------------------------------
\* select.c never waits in a read for one terminal while the other has
\* something to say: what select reported still holds when branch is called.
ReadsDoNotBlock ==
    program = "select" =>
        \A w \in calls : In(w, {"rd"}) => Readable(w)

\* ... and so each terminal that has something to say is read, in whatever
\* state the machine of the other one is, and if that terminal stays silent for
\* ever.  (mycpy.c waits for the other terminal in a read, poll.c and epoll.c
\* may never look at one.)
SelectServes ==
    \A w \in Ways :
        (program = "select" /\ In(w, {"rd"}) /\ Readable(w)) ~> ~In(w, {"rd"})

=============================================================================
