------------------------------- MODULE Radio -------------------------------
(***************************************************************************)
(* The server of the net radio (socket/stream_media/server): main scans    *)
(* the media directories into the table channel[] and the list, starts a   *)
(* thread per channel (server.c, mlisb_getchnlist), and each thread reads  *)
(* its songs through the flow control and sends them (thr_channel.c,       *)
(* mlib_readchn).  The token bucket is the one of module TokenBucket,      *)
(* which mytbf.c implements.  A packet is the song and the part of it that *)
(* it carries; `heard' and `spent' are history.                            *)
(***************************************************************************)
EXTENDS Integers, Sequences

CONSTANTS
    Libraries,  \* the media directories the server may find: sequences of
                \*   [desc: has a desc.txt, files: what its mp3 files are]
    CHNNUM,     \* channels the table has room for
    MytbfMax,   \* slots of the table of buckets
    SongLen,    \* data in a song
    MaxData,    \* MAX_DATA, the size of a read
    Cps,        \* tokens a tick adds to a bucket
    Burst       \* the most tokens a bucket holds

MINCHNID == 1
MAXCHNID == MINCHNID + CHNNUM - 1
Ids == MINCHNID .. MAXCHNID

\* "song": data; "empty": none; "folder": opens, but reading it fails;
\* "denied": does not open
FileKinds == {"song", "empty", "folder", "denied"}
FdKinds == {"song", "empty", "folder", "closed"}
FileLists == Seq(FileKinds)
Directories == [desc : BOOLEAN, files : FileLists]

ASSUME RadioAssumption ==
    /\ CHNNUM \in Nat \ {0} /\ CHNNUM < 255
    /\ MytbfMax \in Nat
    /\ SongLen \in Nat \ {0}
    /\ MaxData \in Nat \ {0}
    /\ Cps \in Nat \ {0}
    /\ Burst \in Nat \ {0}
    /\ Libraries \subseteq Seq(Directories)

VARIABLES
    dirs,       \* the media directories
    phase,      \* where main is
    at,         \* the directory path2entry is called for
    curr_id,    \* its static counter, without the wrap of the uint8_t: the
                \*   first number past MAXCHNID ends the model
    buckets,    \* slots of job[] in use
    channel,    \* channel[], where filled: directory, position, file, offset
    list,       \* the list: channel and directory (its description)
    made,       \* channel threads created
    level,      \* tokens in the bucket of a channel
    rpc,        \* rpc[k]: where the thread of list entry k is
    tbfsize,    \* its tokens
    sndpack,    \* its packet
    heard,      \* heard[id]: what was sent last on a channel
    spent       \* tokens taken and not given back since the last packet

vars == <<dirs, phase, at, curr_id, buckets, channel, list, made, level, rpc,
          tbfsize, sndpack, heard, spent>>
scanVars == <<phase, at, curr_id, buckets, list, made>>
threadVars == <<level, rpc, tbfsize, sndpack, heard, spent>>

Smaller(a, b) == IF a < b THEN a ELSE b

Threads == 1 .. CHNNUM
Channels == DOMAIN channel
NoPacket == [song |-> 0, from |-> 0, len |-> 0]

Init ==
    /\ dirs \in Libraries
    /\ phase = "start"
    /\ at = 1
    /\ curr_id = MINCHNID
    /\ buckets = 0
    /\ channel = <<>>
    /\ list = <<>>
    /\ made = 0
    /\ level = [id \in Ids |-> 0]
    /\ rpc = [k \in Threads |-> "none"]
    /\ tbfsize = [k \in Threads |-> 0]
    /\ sndpack = [k \in Threads |-> NoPacket]
    /\ heard = [id \in Ids |-> [song |-> 0, upto |-> 0]]
    /\ spent = [k \in Threads |-> 0]

Stopped == phase \in {"exited", "crashed", "overrun"}
\* a handler waits for the thread that it interrupted, and mut_job is taken
Jammed == phase = "blocked" \/ \E k \in Threads : rpc[k] = "blocked"
Stop(how) ==
    /\ phase' = how
    /\ UNCHANGED <<dirs, at, curr_id, buckets, channel, list, made, threadVars>>

-----------------------------------------------------------------------------
\* Start-up, by the main thread.

\* The traces under DEBUG read gl_pathv[2]: with a single directory that is
\* past the end of the array, and what is printed as a string is undefined.
StartScan ==
    /\ phase = "start"
    /\ \/ phase' = "scan"
       \/ Len(dirs) = 1 /\ phase' = "crashed"
    /\ UNCHANGED <<dirs, at, curr_id, buckets, channel, list, made, threadVars>>

Scans == phase = "scan" /\ at <= Len(dirs)
HasDesc == dirs[at].desc
FirstFile == dirs[at].files[1]
NextIdKept == curr_id                           \* mutant: not counted
NextId == curr_id + 1

\* no description: not a channel
SkipDirectory ==
    /\ Scans /\ ~HasDesc
    /\ at' = at + 1
    /\ UNCHANGED <<dirs, phase, curr_id, buckets, channel, list, made,
                   threadVars>>

\* mytbf_init finds no slot and exits
NoBucket ==
    /\ Scans /\ HasDesc
    /\ buckets = MytbfMax
    /\ Stop("exited")

\* No mp3 file, or the first does not open: the entry is freed, its bucket
\* is not given back, and only the former uses up an identifier.
DropDirectory ==
    /\ Scans /\ HasDesc
    /\ buckets < MytbfMax
    /\ \/ dirs[at].files = <<>> /\ curr_id' = NextId
       \/ dirs[at].files # <<>> /\ FirstFile = "denied" /\ UNCHANGED curr_id
    /\ buckets' = buckets + 1
    /\ at' = at + 1
    /\ UNCHANGED <<dirs, phase, channel, list, made, threadVars>>

Becomes == dirs[at].files # <<>> /\ FirstFile # "denied"

AddChannel ==
    /\ Scans /\ HasDesc
    /\ buckets < MytbfMax
    /\ Becomes /\ curr_id <= MAXCHNID
    /\ channel' = [id \in Channels \cup {curr_id} |->
            IF id = curr_id
            THEN [dir |-> at, pos |-> 0, fd |-> FirstFile, offset |-> 0]
            ELSE channel[id]]
    /\ list' = Append(list, [chnid |-> curr_id, dir |-> at])
    /\ curr_id' = NextId
    /\ buckets' = buckets + 1
    /\ at' = at + 1
    /\ UNCHANGED <<dirs, phase, made, threadVars>>

\* Nothing checks the number: a channel more is copied past the end of
\* channel[], or, when the counter has wrapped, over another channel or into
\* the place of CHNLIST.  What happens from there on is undefined.
Overrun ==
    /\ Scans /\ HasDesc
    /\ buckets < MytbfMax
    /\ Becomes /\ curr_id > MAXCHNID
    /\ Stop("overrun")

\* The list is NULL when there is no directory, or no channel among them
\* (realloc to 0 bytes); thr_list_create reads its first entry all the same.
ScanEnds ==
    /\ phase = "scan" /\ at > Len(dirs)
    /\ phase' = IF list = <<>> THEN "crashed" ELSE "create"
    /\ UNCHANGED <<dirs, at, curr_id, buckets, channel, list, made, threadVars>>

CreateThread ==
    /\ phase = "create" /\ made < Len(list)
    /\ made' = made + 1
    /\ rpc' = [rpc EXCEPT ![made + 1] = "fetch"]
    /\ UNCHANGED <<dirs, phase, at, curr_id, buckets, channel, list, level,
                   tbfsize, sndpack, heard, spent>>

CreateFails == phase = "create" /\ made < Len(list) /\ Stop("exited")

AllCreated ==
    /\ phase = "create" /\ made = Len(list)
    /\ phase' = "serve"
    /\ UNCHANGED <<dirs, at, curr_id, buckets, channel, list, made, threadVars>>

Main ==
    \/ StartScan \/ SkipDirectory \/ NoBucket \/ DropDirectory \/ AddChannel
    \/ Overrun \/ ScanEnds \/ CreateThread \/ AllCreated

-----------------------------------------------------------------------------
\* A channel thread: thr_channel_snder and mlib_readchn.

Runs(k, p) == ~Stopped /\ rpc[k] = p
Goto(k, p) == rpc' = [rpc EXCEPT ![k] = p]
Id(k) == list[k].chnid
Entry(k) == channel[Id(k)]
Files(k) == dirs[Entry(k).dir].files

Fetch(k) ==
    LET n == Smaller(level[Id(k)], MaxData)
    IN  /\ Runs(k, "fetch")
        /\ level[Id(k)] > 0
        /\ level' = [level EXCEPT ![Id(k)] = @ - n]
        /\ tbfsize' = [tbfsize EXCEPT ![k] = n]
        /\ spent' = [spent EXCEPT ![k] = n]
        /\ Goto(k, "read")
        /\ UNCHANGED <<dirs, scanVars, channel, sndpack, heard>>

\* the position i files on, from the last back to the first
Wrapped(k, i) ==
    LET p == Entry(k).pos + i
    IN  IF p < Len(Files(k)) THEN p ELSE p - Len(Files(k))
\* how many files on open_next finds one that opens
Opening(k) == {i \in 1 .. Len(Files(k)) : Files(k)[Wrapped(k, i) + 1] # "denied"}
FirstOpening(k) == {i \in Opening(k) : \A j \in Opening(k) : i <= j}

\* mutant: the list starts over at its second file
TurnedPastFirst(k, i) ==
    IF Wrapped(k, i) = 0 /\ Len(Files(k)) > 1 THEN 1 ELSE Wrapped(k, i)
Turned(k, i) == Wrapped(k, i)

OpenNextKeepsOffset(k) ==                       \* mutant: offset not reset
    IF Opening(k) = {}
    THEN {[Entry(k) EXCEPT !.fd = "closed"]}
    ELSE {[Entry(k) EXCEPT !.pos = Turned(k, i), !.fd = Files(k)[Turned(k, i) + 1]]
            : i \in FirstOpening(k)}
\* What open_next makes of the entry (one possibility): the first file that
\* opens; the position goes all the way round when none does.
OpenNext(k) ==
    IF Opening(k) = {}
    THEN {[Entry(k) EXCEPT !.fd = "closed"]}
    ELSE {[Entry(k) EXCEPT !.pos = Turned(k, i), !.fd = Files(k)[Turned(k, i) + 1],
                           !.offset = 0] : i \in FirstOpening(k)}

\* a failed open is logged with gl_pathv[chnid] for the name, which may be
\* outside the array
BadTrace(k) == 1 \notin Opening(k) /\ Id(k) > Len(Files(k))

Data(k) ==
    IF Entry(k).fd = "song"
    THEN Smaller(tbfsize[k], SongLen - Entry(k).offset) ELSE 0

ReadSong(k) ==
    /\ Runs(k, "read")
    /\ Data(k) > 0
    /\ sndpack' = [sndpack EXCEPT ![k] =
            [song |-> Entry(k).pos, from |-> Entry(k).offset, len |-> Data(k)]]
    /\ channel' = [channel EXCEPT ![Id(k)].offset = @ + Data(k)]
    /\ Goto(k, "return")
    /\ UNCHANGED <<dirs, scanVars, level, tbfsize, heard, spent>>

ReadEnd(k) ==
    /\ Runs(k, "read")
    /\ Entry(k).fd \in {"song", "empty"} /\ Data(k) = 0
    /\ \E e \in OpenNext(k) : channel' = [channel EXCEPT ![Id(k)] = e]
    /\ sndpack' = [sndpack EXCEPT ![k] = NoPacket]
    /\ Goto(k, "return")
    /\ UNCHANGED <<dirs, scanVars, level, tbfsize, heard, spent>>

\* the loop goes round with the tokens it has
ReadError(k) ==
    /\ Runs(k, "read")
    /\ Entry(k).fd \in {"folder", "closed"}
    /\ \E e \in OpenNext(k) : channel' = [channel EXCEPT ![Id(k)] = e]
    /\ UNCHANGED <<dirs, scanVars, threadVars>>

OpenCrashes(k) ==
    /\ Runs(k, "read") /\ Data(k) = 0
    /\ BadTrace(k)
    /\ Stop("crashed")

UnusedOfSong(k) ==                              \* mutant: none for an end
    IF sndpack[k].len = 0 THEN 0 ELSE tbfsize[k] - sndpack[k].len
UnusedAll(k) == tbfsize[k]                      \* mutant: all of them
Unused(k) == tbfsize[k] - sndpack[k].len

GiveBack(k) ==
    /\ Runs(k, "return")
    /\ level' = [level EXCEPT ![Id(k)] = Smaller(@ + Unused(k), Burst)]
    /\ spent' = [spent EXCEPT ![k] = @ - Unused(k)]
    /\ Goto(k, "send")
    /\ UNCHANGED <<dirs, scanVars, channel, tbfsize, sndpack, heard>>

Send(k) ==
    LET p == sndpack[k]
    IN  /\ Runs(k, "send")
        /\ heard' = IF p.len = 0 THEN heard
                    ELSE [heard EXCEPT ![Id(k)] =
                            [song |-> p.song, upto |-> p.from + p.len]]
        /\ spent' = [spent EXCEPT ![k] = 0]
        /\ Goto(k, "fetch")
        /\ UNCHANGED <<dirs, scanVars, channel, level, tbfsize, sndpack>>

SendFails(k) == Runs(k, "send") /\ Stop("exited")

ThreadStep(k) ==
    Fetch(k) \/ ReadSong(k) \/ ReadEnd(k) \/ ReadError(k) \/ GiveBack(k) \/ Send(k)

-----------------------------------------------------------------------------
\* The rest of the world.

\* A SIGALRM is handled by any thread, also by one that is in a call of the
\* library and owns the mutex of its bucket, or mut_job: alrm_handle waits for
\* it, on the thread that owns it, and owns mut_job for ever (Mytbf).
AlarmBlocks(k) ==
    /\ \E p \in {"fetch", "return"} : Runs(k, p)
    /\ ~Jammed
    /\ Goto(k, "blocked")
    /\ UNCHANGED <<dirs, scanVars, channel, level, tbfsize, sndpack, heard, spent>>

\* main is in mytbf_init
AlarmBlocksMain == Scans /\ HasDesc /\ buckets < MytbfMax /\ Stop("blocked")

\* a SIGALRM fills every bucket, if its handler gets mut_job
Tick ==
    /\ ~Stopped /\ ~Jammed
    /\ level' = [id \in Ids |->
            IF id \in Channels THEN Smaller(level[id] + Cps, Burst) ELSE 0]
    /\ UNCHANGED <<dirs, scanVars, channel, rpc, tbfsize, sndpack, heard, spent>>

\* a file is removed; what has it open reads it to the end
Remove(d, i) ==
    /\ ~Stopped
    /\ dirs[d].files[i] # "denied"
    /\ dirs' = [dirs EXCEPT ![d].files[i] = "denied"]
    /\ UNCHANGED <<scanVars, channel, threadVars>>

Next ==
    \/ Main \/ CreateFails
    \/ \E k \in Threads : ThreadStep(k) \/ OpenCrashes(k) \/ SendFails(k)
    \/ \E k \in Threads : AlarmBlocks(k)
    \/ AlarmBlocksMain
    \/ Tick
    \/ \E d \in 1 .. Len(dirs) : \E i \in 1 .. Len(dirs[d].files) : Remove(d, i)

Spec == Init /\ [][Next]_vars

\* the threads are scheduled and the alarm goes off every second, and a handler
\* that nothing blocks fills the buckets; nothing is assumed of failures and
\* removals, nor of which thread a signal interrupts
Fairness ==
    /\ WF_vars(Main)
    /\ WF_vars(Tick)
    /\ \A k \in Threads : WF_vars(ThreadStep(k))
FairSpec == Spec /\ Fairness

-----------------------------------------------------------------------------
\* Properties.

Listed == [chnid : Nat, dir : Nat]
Entries == [dir : Nat, pos : Nat, fd : FdKinds, offset : 0 .. SongLen]
Packets == [song : Nat, from : 0 .. SongLen, len : 0 .. MaxData]

\* Everything has its type: positions inside the directory of the channel,
\* offsets inside the song, tokens between 0 and Burst.
TypeOK ==
    /\ dirs \in Seq(Directories)
    /\ phase \in {"start", "scan", "create", "serve", "exited", "crashed",
                  "overrun", "blocked"}
    /\ at \in 1 .. Len(dirs) + 1
    /\ curr_id \in Nat
    /\ buckets \in 0 .. MytbfMax
    /\ channel \in [Channels -> Entries]
    /\ \A id \in Channels :
        /\ channel[id].dir \in DOMAIN dirs
        /\ channel[id].pos < Len(dirs[channel[id].dir].files)
    /\ list \in Seq(Listed)
    /\ made \in 0 .. Len(list)
    /\ level \in [Ids -> 0 .. Burst]
    /\ rpc \in [Threads -> {"none", "fetch", "read", "return", "send", "blocked"}]
    /\ tbfsize \in [Threads -> 0 .. MaxData]
    /\ sndpack \in [Threads -> Packets]
    /\ heard \in [Ids -> [song : Nat, upto : Nat]]
    /\ spent \in [Threads -> 0 .. MaxData]

\* proto.h:24: a channel's number is between MINCHNID and MAXCHNID.  Only a
\* library with more than CHNNUM directories can break that.  Until one does,
\* each entry of the list that server.c sends and starts threads for names a
\* channel of its own, in the table, made of the directory whose description
\* the list shows, so that what a listener picks is what is heard; and there
\* are no more of them than thr_channel[] has room for.
EntriesKept ==
    /\ phase = "overrun" => at > CHNNUM
    /\ Len(list) <= CHNNUM
    /\ Channels \subseteq Ids
    /\ \A k \in DOMAIN list :
        /\ Id(k) \in Channels
        /\ Entry(k).dir = list[k].dir
        /\ \A m \in DOMAIN list : Id(m) = Id(k) => m = k

\* mlib_readchn keeps exactly the tokens for the data of the packet that is
\* about to be sent, whatever ends of songs and bad files it met: with the
\* rate bound of the bucket (MytbfLedger) this bounds what a channel sends.
Paid == \A k \in Threads : rpc[k] = "send" => spent[k] = sndpack[k].len

\* What makes these inductive: identifiers are given out in order, never
\* faster than directories are scanned; only threads that were made run; and
\* a thread has paid for its tokens until it gives some back.
Numbering ==
    /\ curr_id \in MINCHNID .. at
    /\ Len(list) < curr_id
    /\ Channels \subseteq MINCHNID .. curr_id - 1
    /\ \A k \in Threads : rpc[k] # "none" => k <= made
Paying ==
    \A k \in Threads :
        /\ rpc[k] \in {"read", "return"} => spent[k] = tbfsize[k]
        /\ rpc[k] \in {"return", "send"} => sndpack[k].len <= tbfsize[k]
IInv == TypeOK /\ Numbering /\ EntriesKept /\ Paying /\ Paid

PL(id) == INSTANCE Playlist WITH
    files <- dirs[channel[id].dir].files, heard <- heard[id]

\* What is sent on a channel is a playlist: no gap inside a song, songs in
\* order, none skipped that could be played.
ImplementsPlaylist ==
    [][\A id \in Channels : [PL(id)!Next]_(PL(id)!vars)]_vars

\* what the thread of entry k holds of the tokens of channel id
Held(k, id) == IF k \in DOMAIN list /\ Id(k) = id THEN spent[k] ELSE 0

TB(id) == INSTANCE TokenBucket WITH
    Callers <- Threads, Sizes <- {MaxData},
    level <- level[id], got <- [k \in Threads |-> Held(k, id)]

\* The server calls each bucket as the contract of the library allows: it takes
\* what it is given, gives back no more than it holds, and spends the rest.
UsesTokenBucket ==
    /\ \A id \in Ids : TB(id)!Init
    /\ [][\A id \in Ids : [TB(id)!Next]_(TB(id)!vars)]_vars

Song(d, i) ==
    /\ d \in DOMAIN dirs
    /\ i \in DOMAIN dirs[d].files
    /\ dirs[d].files[i] = "song"
\* the places in a library where there is a song: directory and file
Places(lib) ==
    UNION {{<<d, i>> : i \in {j \in DOMAIN lib[d].files : lib[d].files[j] = "song"}}
            : d \in DOMAIN lib}

\* As long as the server runs and no SIGALRM interrupts the owner of a mutex
\* that its handler takes, a song of a channel that stays in its directory is
\* heard to its end again and again.
EverySongAired ==
    \A place \in UNION {Places(lib) : lib \in Libraries} :
        LET d == place[1]
            i == place[2]
        IN  \/ <>(\/ Stopped \/ Jammed
                  \/ ~Song(d, i)
                  \/ phase = "serve" /\ \A id \in Channels : channel[id].dir # d)
            \/ []<>(\E id \in Channels :
                    /\ channel[id].dir = d
                    /\ heard[id] = [song |-> i - 1, upto |-> SongLen])

=============================================================================
