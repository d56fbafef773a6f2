---------------------------- MODULE RadioProofs ----------------------------
(***************************************************************************)
(* Proofs about Radio, for any media library: until one overruns the table *)
(* (which takes more directories than it has channels), the list           *)
(* and the table agree, every packet is paid for, what a channel sends is  *)
(* a playlist, and it sends it no faster than its bucket allows.           *)
(***************************************************************************)
EXTENDS RadioLedger, TLAPS

LEMMA ConstantFacts ==
    /\ CHNNUM \in Nat \ {0} /\ CHNNUM < 255
    /\ MytbfMax \in Nat
    /\ SongLen \in Nat \ {0} /\ MaxData \in Nat \ {0}
    /\ Cps \in Nat \ {0} /\ Burst \in Nat \ {0}
    /\ Libraries \subseteq Seq(Directories)
BY RadioAssumption

LEMMA LibraryFacts ==
    ASSUME IInv
    PROVE  /\ Len(dirs) \in Nat /\ DOMAIN dirs = 1 .. Len(dirs)
           /\ at \in 1 .. Len(dirs) + 1 /\ curr_id \in 1 .. at
           /\ \A d \in DOMAIN dirs : dirs[d].files \in FileLists
<1>1. dirs \in Seq(Directories) /\ at \in 1 .. Len(dirs) + 1
  BY DEF IInv, TypeOK
<1>2. Len(dirs) \in Nat /\ DOMAIN dirs = 1 .. Len(dirs)
      /\ \A d \in DOMAIN dirs : dirs[d] \in Directories
  BY <1>1
<1>3. \A d \in DOMAIN dirs : dirs[d].files \in FileLists
  BY <1>2 DEF Directories
<1> QED BY <1>1, <1>2, <1>3 DEF IInv, Numbering, MINCHNID

\* A thread that was made has an entry of the list and of the table.
LEMMA ThreadFacts ==
    ASSUME IInv, NEW k \in Threads, rpc[k] # "none"
    PROVE  /\ k \in DOMAIN list
           /\ Id(k) \in Channels /\ Id(k) \in Ids
           /\ Entry(k) \in Entries
           /\ Entry(k).dir \in DOMAIN dirs
           /\ Entry(k).pos < Len(Files(k))
           /\ Files(k) \in FileLists
<1>1. k \in DOMAIN list
  BY ConstantFacts DEF IInv, TypeOK, Numbering, Threads
<1>2. Id(k) \in Channels /\ Id(k) \in Ids
  BY <1>1 DEF IInv, EntriesKept
<1>3. /\ channel \in [Channels -> Entries]
      /\ \A id \in Channels :
            /\ channel[id].dir \in DOMAIN dirs
            /\ channel[id].pos < Len(dirs[channel[id].dir].files)
  BY DEF IInv, TypeOK
<1>4. Entry(k) \in Entries /\ Entry(k).dir \in DOMAIN dirs
      /\ Entry(k).pos < Len(Files(k))
  BY <1>2, <1>3 DEF Entry, Files
<1>5. Files(k) \in FileLists
  BY <1>4, LibraryFacts DEF Files
<1> QED BY <1>1, <1>2, <1>4, <1>5

\* open_next keeps the entry's directory and stays inside it.
LEMMA OpenNextFacts ==
    ASSUME IInv, NEW k \in Threads, rpc[k] # "none", NEW e \in OpenNext(k)
    PROVE  /\ e \in Entries /\ e.dir = Entry(k).dir
           /\ e.pos < Len(Files(k))
<1>1. /\ Entry(k) \in Entries /\ Entry(k).pos < Len(Files(k))
      /\ Files(k) \in FileLists
  BY ThreadFacts
<1>2. CASE Opening(k) = {}
  BY <1>1, <1>2 DEF OpenNext, Entries, FdKinds
<1>3. CASE Opening(k) # {}
  <2>1. PICK i \in FirstOpening(k) :
            e = [Entry(k) EXCEPT !.pos = Turned(k, i),
                                 !.fd = Files(k)[Turned(k, i) + 1], !.offset = 0]
    BY <1>3 DEF OpenNext
  <2>2. i \in 1 .. Len(Files(k)) /\ Files(k)[Turned(k, i) + 1] # "denied"
    BY DEF FirstOpening, Opening, Turned
  <2>3. Turned(k, i) \in 0 .. Len(Files(k)) - 1
    BY <1>1, <2>2 DEF Turned, Wrapped, Entries, FileLists
  <2>4. Turned(k, i) + 1 \in 1 .. Len(Files(k))
    BY <1>1, <2>3 DEF FileLists
  <2>5. Files(k)[Turned(k, i) + 1] \in FileKinds
    BY <1>1, <2>4 DEF FileLists
  <2>6. Files(k)[Turned(k, i) + 1] \in FdKinds
    BY <2>2, <2>5 DEF FileKinds, FdKinds
  <2>7. e = [dir |-> Entry(k).dir, pos |-> Turned(k, i),
             fd |-> Files(k)[Turned(k, i) + 1], offset |-> 0]
    BY <1>1, <2>1 DEF Entries
  <2> QED BY <1>1, <2>3, <2>6, <2>7, ConstantFacts DEF Entries
<1> QED BY <1>2, <1>3

LEMMA InitIInv == Init => IInv
<1> SUFFICES ASSUME Init PROVE IInv
  OBVIOUS
<1>1. TypeOK
  <2>1. dirs \in Seq(Directories) /\ Len(dirs) \in Nat
    BY ConstantFacts DEF Init
  <2>2. Channels = {} /\ channel \in [Channels -> Entries]
    BY DEF Init, Channels
  <2>3. list \in Seq(Listed) /\ Len(list) = 0
    BY DEF Init
  <2>4. NoPacket \in Packets
    BY ConstantFacts DEF NoPacket, Packets
  <2> QED BY <2>1, <2>2, <2>3, <2>4, ConstantFacts DEF Init, TypeOK, MINCHNID
<1>2. Numbering
  BY ConstantFacts DEF Init, Numbering, Channels, MINCHNID, Threads
<1>3. EntriesKept
  BY ConstantFacts DEF Init, EntriesKept, Channels
<1>4. Paying /\ Paid
  BY DEF Init, Paying, Paid, Threads
<1> QED BY <1>1, <1>2, <1>3, <1>4 DEF IInv

-----------------------------------------------------------------------------
LEMMA StopPreserves ==
    ASSUME IInv, NEW how \in {"exited", "crashed", "blocked"}, Stop(how) PROVE IInv'
BY DEF Stop, IInv, TypeOK, Numbering, EntriesKept, Paying, Paid, Channels, Id,
   Entry, threadVars, Entries

\* The number of a channel past the table is that of a directory past the
\* table: no number is given to two directories.
LEMMA OverrunPreserves ==
    ASSUME IInv, Overrun PROVE IInv'
<1>1. curr_id > CHNNUM /\ curr_id \in 1 .. at /\ at \in Nat
  BY LibraryFacts, ConstantFacts DEF Overrun, MAXCHNID, MINCHNID
<1>2. phase' = "overrun" /\ at' = at /\ at > CHNNUM
  BY <1>1, ConstantFacts DEF Overrun, Stop
<1> QED
  BY <1>2 DEF Overrun, Stop, IInv, TypeOK, Numbering, EntriesKept, Paying, Paid,
     Channels, Id, Entry, threadVars, Entries

LEMMA PhaseStepPreserves ==
    ASSUME IInv, StartScan \/ ScanEnds \/ AllCreated PROVE IInv'
BY DEF StartScan, ScanEnds, AllCreated, IInv, TypeOK, Numbering, EntriesKept,
   Paying, Paid, Channels, Id, Entry, threadVars, Entries

LEMMA SkipPreserves ==
    ASSUME IInv, SkipDirectory \/ DropDirectory PROVE IInv'
<1>1. at \in 1 .. Len(dirs) /\ Len(dirs) \in Nat /\ at' = at + 1
      /\ curr_id \in 1 .. at
  BY LibraryFacts, ConstantFacts DEF SkipDirectory, DropDirectory, Scans
<1>2. curr_id' \in {curr_id, curr_id + 1}
  BY <1>1 DEF SkipDirectory, DropDirectory, NextId
<1>3. buckets' \in 0 .. MytbfMax
  <2>1. buckets \in 0 .. MytbfMax
    BY DEF IInv, TypeOK
  <2> QED BY <2>1, ConstantFacts DEF SkipDirectory, DropDirectory
<1>4. UNCHANGED <<dirs, phase, channel, list, made, threadVars>>
  BY DEF SkipDirectory, DropDirectory
<1>5. TypeOK'
  <2>1. Channels' = Channels /\ at' \in 1 .. Len(dirs) + 1 /\ curr_id' \in Nat
    BY <1>1, <1>2, <1>4 DEF Channels
  <2> QED BY <1>3, <1>4, <2>1 DEF IInv, TypeOK, threadVars
<1>6. Numbering'
  BY <1>1, <1>2, <1>4 DEF IInv, Numbering, Channels, threadVars, MINCHNID
<1>7. EntriesKept' /\ Paying' /\ Paid'
  <2>1. phase' # "overrun"
    BY <1>4 DEF SkipDirectory, DropDirectory, Scans
  <2> QED BY <1>4, <2>1 DEF IInv, EntriesKept, Paying, Paid, Channels, Id, Entry,
          threadVars
<1> QED BY <1>5, <1>6, <1>7 DEF IInv

\* The entry made of the directory being scanned is a new one: every
\* identifier in use is smaller than curr_id.
LEMMA AddPreserves ==
    ASSUME IInv, AddChannel PROVE IInv'
<1> DEFINE new == [dir |-> at, pos |-> 0, fd |-> FirstFile, offset |-> 0]
<1>1. /\ at \in 1 .. Len(dirs) /\ curr_id <= CHNNUM /\ at \in DOMAIN dirs
      /\ curr_id \in 1 .. at /\ at' = at + 1
      /\ dirs[at].files \in FileLists
  BY LibraryFacts, ConstantFacts DEF AddChannel, Scans, MAXCHNID, MINCHNID
<1>2. curr_id' = curr_id + 1
  BY <1>1 DEF AddChannel, NextId
<1>3. /\ channel' = [id \in Channels \cup {curr_id} |->
                        IF id = curr_id THEN new ELSE channel[id]]
      /\ list' = Append(list, [chnid |-> curr_id, dir |-> at])
      /\ buckets < MytbfMax /\ buckets' = buckets + 1
      /\ dirs[at].files # <<>> /\ FirstFile # "denied"
      /\ UNCHANGED <<dirs, phase, made, threadVars>>
  BY DEF AddChannel, Becomes
<1>4. Channels \subseteq 1 .. curr_id - 1 /\ Channels' = Channels \cup {curr_id}
      /\ curr_id \notin Channels
  BY <1>1, <1>3 DEF IInv, Numbering, Channels, MINCHNID
<1>5. new \in Entries /\ 0 < Len(dirs[at].files)
  <2>1. Len(dirs[at].files) \in Nat \ {0} /\ FirstFile \in FileKinds
    BY <1>1, <1>3 DEF FirstFile, FileLists
  <2>2. FirstFile \in FdKinds
    BY <1>3, <2>1 DEF FileKinds, FdKinds
  <2> QED BY <1>1, <2>1, <2>2, ConstantFacts, LibraryFacts DEF Entries
<1>6. /\ list' \in Seq(Listed) /\ Len(list) \in Nat
      /\ Len(list') = Len(list) + 1 /\ DOMAIN list' = 1 .. Len(list')
      /\ DOMAIN list = 1 .. Len(list)
      /\ \A k \in DOMAIN list : list'[k] = list[k]
      /\ list'[Len(list) + 1] = [chnid |-> curr_id, dir |-> at]
  <2>1. list \in Seq(Listed) /\ [chnid |-> curr_id, dir |-> at] \in Listed
    BY <1>1, LibraryFacts DEF IInv, TypeOK, Listed
  <2> QED BY <1>3, <2>1
<1>7. TypeOK'
  <2>1. channel' \in [Channels' -> Entries]
    BY <1>3, <1>4, <1>5 DEF IInv, TypeOK
  <2>2. \A id \in Channels' :
            /\ channel'[id].dir \in DOMAIN dirs
            /\ channel'[id].pos < Len(dirs[channel'[id].dir].files)
    BY <1>1, <1>3, <1>4, <1>5 DEF IInv, TypeOK
  <2>3. at' \in 1 .. Len(dirs) + 1 /\ curr_id' \in Nat
    BY <1>1, <1>2, LibraryFacts
  <2>4. buckets' \in 0 .. MytbfMax /\ made' \in 0 .. Len(list')
    BY <1>3, <1>6, ConstantFacts DEF IInv, TypeOK
  <2> QED BY <1>3, <1>6, <2>1, <2>2, <2>3, <2>4 DEF IInv, TypeOK, threadVars
<1>8. Numbering'
  <2>1. curr_id' \in 1 .. at' /\ Channels' \subseteq 1 .. curr_id' - 1
    BY <1>1, <1>2, <1>4
  <2>2. Len(list') < curr_id'
    BY <1>1, <1>2, <1>6 DEF IInv, Numbering
  <2> QED BY <1>3, <2>1, <2>2 DEF IInv, Numbering, threadVars, MINCHNID
<1>9. EntriesKept'
  <2>1. Channels' \subseteq Ids
    BY <1>1, <1>4, ConstantFacts DEF IInv, EntriesKept, Ids, MINCHNID, MAXCHNID
  <2>2. \A k \in DOMAIN list :
            Id(k)' = Id(k) /\ Id(k) \in Channels /\ Entry(k)' = Entry(k)
    BY <1>3, <1>4, <1>6 DEF IInv, EntriesKept, Id, Entry
  <2>3. PICK n \in Nat : n = Len(list) + 1
    BY <1>6
  <2>4. list'[n].chnid = curr_id /\ list'[n].dir = at /\ channel'[curr_id] = new
    BY <1>3, <1>6, <2>3
  <2>5. Id(n)' = curr_id /\ Entry(n)' = new
    BY <2>4 DEF Id, Entry
  <2>6. \A k \in DOMAIN list' : k \in DOMAIN list \/ k = n
    BY <1>6, <2>3
  <2>7. \A k \in DOMAIN list' : Id(k)' \in Channels' /\ Entry(k)'.dir = list'[k].dir
    BY <1>4, <1>6, <2>2, <2>4, <2>5, <2>6 DEF IInv, EntriesKept
  <2>8. \A k, m \in DOMAIN list' : Id(m)' = Id(k)' => m = k
    BY <1>4, <2>2, <2>5, <2>6 DEF IInv, EntriesKept
  <2>9. phase' # "overrun" /\ Len(list') <= CHNNUM
    BY <1>1, <1>3, <1>6, ConstantFacts DEF IInv, Numbering, AddChannel, Scans
  <2> QED BY <2>1, <2>7, <2>8, <2>9 DEF EntriesKept
<1>10. Paying' /\ Paid'
  BY <1>3 DEF IInv, Paying, Paid, threadVars
<1> QED BY <1>7, <1>8, <1>9, <1>10 DEF IInv

LEMMA CreatePreserves ==
    ASSUME IInv, CreateThread PROVE IInv'
<1>1. made \in 0 .. Len(list) /\ made < Len(list) /\ made' = made + 1
      /\ Len(list) \in Nat
  BY DEF CreateThread, IInv, TypeOK
<1>2. rpc' = [rpc EXCEPT ![made + 1] = "fetch"]
      /\ UNCHANGED <<dirs, phase, at, curr_id, buckets, channel, list, level,
                     tbfsize, sndpack, heard, spent>>
  BY DEF CreateThread
<1>3. TypeOK'
  <2>1. Channels' = Channels
    BY <1>2 DEF Channels
  <2>2. rpc' \in [Threads -> {"none", "fetch", "read", "return", "send", "blocked"}]
    BY <1>2 DEF IInv, TypeOK
  <2>3. made' \in 0 .. Len(list)
    BY <1>1
  <2> QED BY <1>2, <2>1, <2>2, <2>3 DEF IInv, TypeOK
<1>4. Numbering'
  <2>1. \A k \in Threads : rpc'[k] # "none" => k <= made'
    <3> SUFFICES ASSUME NEW k \in Threads, rpc'[k] # "none" PROVE k <= made'
      OBVIOUS
    <3>1. k \in Nat
      BY ConstantFacts DEF Threads
    <3>2. k = made + 1 \/ rpc[k] # "none"
      BY <1>2 DEF IInv, TypeOK
    <3> QED BY <1>1, <3>1, <3>2 DEF IInv, Numbering
  <2>2. Channels' = Channels
    BY <1>2 DEF Channels
  <2> QED BY <1>2, <2>1, <2>2 DEF IInv, Numbering
<1>5. EntriesKept'
  BY <1>2 DEF IInv, EntriesKept, Channels, Id, Entry
<1>6. Paying' /\ Paid'
  BY <1>2 DEF IInv, TypeOK, Paying, Paid
<1> QED BY <1>3, <1>4, <1>5, <1>6 DEF IInv

-----------------------------------------------------------------------------
\* A step of a running thread leaves the table's shape and the numbering alone.
LEMMA ThreadKeepsList ==
    ASSUME IInv, NEW k \in Threads, rpc[k] # "none",
           NEW e \in Entries, NEW p,
           channel' = [channel EXCEPT ![Id(k)] = e],
           e.dir = Entry(k).dir, e.pos < Len(Files(k)),
           rpc' = [rpc EXCEPT ![k] = p], UNCHANGED <<dirs, scanVars>>
    PROVE  /\ Channels' = Channels /\ channel' \in [Channels -> Entries]
           /\ \A id \in Channels :
                /\ channel'[id].dir \in DOMAIN dirs
                /\ channel'[id].pos < Len(dirs[channel'[id].dir].files)
           /\ Numbering' /\ EntriesKept'
<1>1. Id(k) \in Channels /\ channel[Id(k)] = Entry(k)
  BY ThreadFacts DEF Entry
<1>2. channel \in [Channels -> Entries]
  BY DEF IInv, TypeOK
<1>3. Channels' = Channels /\ channel' \in [Channels -> Entries]
  BY <1>2 DEF Channels
<1>4. \A id \in Channels : channel'[id].dir = channel[id].dir
  BY <1>1, <1>2
<1>5. \A id \in Channels :
            /\ channel'[id].dir \in DOMAIN dirs
            /\ channel'[id].pos < Len(dirs[channel'[id].dir].files)
  BY <1>1, <1>2, <1>4 DEF IInv, TypeOK, Files
<1>6. Numbering'
  BY <1>3 DEF IInv, TypeOK, Numbering, scanVars
<1>7. EntriesKept'
  BY <1>3, <1>4 DEF IInv, EntriesKept, Id, Entry, scanVars
<1> QED BY <1>3, <1>5, <1>6, <1>7

\* The same for a step that leaves the entry alone.
LEMMA ThreadKeepsTable ==
    ASSUME IInv, NEW k \in Threads, rpc[k] # "none", NEW p,
           rpc' = [rpc EXCEPT ![k] = p], UNCHANGED <<dirs, scanVars, channel>>
    PROVE  /\ Channels' = Channels /\ channel' \in [Channels -> Entries]
           /\ \A id \in Channels :
                /\ channel'[id].dir \in DOMAIN dirs
                /\ channel'[id].pos < Len(dirs[channel'[id].dir].files)
           /\ Numbering' /\ EntriesKept'
<1>1. Channels' = Channels
  BY DEF Channels
<1>2. Numbering'
  BY <1>1 DEF IInv, TypeOK, Numbering, scanVars
<1>3. EntriesKept'
  BY <1>1 DEF IInv, EntriesKept, Id, Entry, scanVars
<1> QED BY <1>1, <1>2, <1>3 DEF IInv, TypeOK

\* What is left to show of a thread's step: the thread's own variables.
Own ==
    /\ level \in [Ids -> 0 .. Burst]
    /\ rpc \in [Threads -> {"none", "fetch", "read", "return", "send", "blocked"}]
    /\ tbfsize \in [Threads -> 0 .. MaxData]
    /\ sndpack \in [Threads -> Packets]
    /\ heard \in [Ids -> [song : Nat, upto : Nat]]
    /\ spent \in [Threads -> 0 .. MaxData]

LEMMA OwnSuffices ==
    ASSUME IInv, UNCHANGED <<dirs, scanVars>>,
           Channels' = Channels, channel' \in [Channels -> Entries],
           \A id \in Channels :
                /\ channel'[id].dir \in DOMAIN dirs
                /\ channel'[id].pos < Len(dirs[channel'[id].dir].files),
           Numbering', EntriesKept', Own', Paying', Paid'
    PROVE  IInv'
<1>1. TypeOK'
  BY DEF IInv, TypeOK, Own, scanVars
<1> QED BY <1>1 DEF IInv

LEMMA FetchPreserves ==
    ASSUME IInv, NEW k \in Threads, Fetch(k) PROVE IInv'
<1> DEFINE n == Smaller(level[Id(k)], MaxData)
<1>1. /\ rpc[k] = "fetch" /\ level[Id(k)] > 0
      /\ level' = [level EXCEPT ![Id(k)] = @ - n]
      /\ tbfsize' = [tbfsize EXCEPT ![k] = n]
      /\ spent' = [spent EXCEPT ![k] = n]
      /\ rpc' = [rpc EXCEPT ![k] = "read"]
      /\ UNCHANGED <<dirs, scanVars, channel, sndpack, heard>>
  BY DEF Fetch, Runs, Goto
<1>2. Id(k) \in Ids /\ level[Id(k)] \in 0 .. Burst
  BY <1>1, ThreadFacts DEF IInv, TypeOK
<1>3. n \in 0 .. MaxData /\ level[Id(k)] - n \in 0 .. Burst
  BY <1>2, ConstantFacts DEF Smaller
<1> HIDE DEF n
<1>4. Own'
  BY <1>1, <1>3 DEF IInv, TypeOK, Own
<1>5. Paying' /\ Paid'
  BY <1>1 DEF IInv, TypeOK, Paying, Paid
<1> QED BY <1>1, <1>4, <1>5, ThreadKeepsTable, OwnSuffices

LEMMA ReadSongPreserves ==
    ASSUME IInv, NEW k \in Threads, ReadSong(k) PROVE IInv'
<1> DEFINE n == Data(k)
           e == [dir |-> Entry(k).dir, pos |-> Entry(k).pos,
                 fd |-> Entry(k).fd, offset |-> Entry(k).offset + n]
<1>1. /\ rpc[k] = "read" /\ Data(k) > 0
      /\ sndpack' = [sndpack EXCEPT ![k] =
            [song |-> Entry(k).pos, from |-> Entry(k).offset, len |-> Data(k)]]
      /\ channel' = [channel EXCEPT ![Id(k)].offset = @ + Data(k)]
      /\ rpc' = [rpc EXCEPT ![k] = "return"]
      /\ UNCHANGED <<dirs, scanVars, level, tbfsize, heard, spent>>
  BY DEF ReadSong, Runs, Goto
<1>2. /\ Id(k) \in Channels /\ Entry(k) = channel[Id(k)] /\ Entry(k) \in Entries
      /\ Entry(k).pos < Len(Files(k))
  BY <1>1, ThreadFacts DEF Entry
<1>3. n \in 0 .. tbfsize[k] /\ n \in 0 .. MaxData
      /\ Entry(k).offset + n \in 0 .. SongLen
  <2>1. tbfsize[k] \in 0 .. MaxData /\ Entry(k).offset \in 0 .. SongLen
    BY <1>2 DEF IInv, TypeOK, Entries
  <2>2. Data(k) = Smaller(tbfsize[k], SongLen - Entry(k).offset)
    BY <1>1 DEF Data
  <2>3. SongLen \in Nat /\ MaxData \in Nat
    BY ConstantFacts
  <2>4. Data(k) \in 0 .. tbfsize[k] /\ Data(k) <= SongLen - Entry(k).offset
    BY <1>1, <2>1, <2>2, <2>3 DEF Smaller
  <2> QED BY <2>1, <2>3, <2>4
<1>4. e \in Entries /\ e.dir = Entry(k).dir /\ e.pos < Len(Files(k))
  BY <1>2, <1>3 DEF Entries
<1>5. channel' = [channel EXCEPT ![Id(k)] = e]
  <2>1. channel' = [channel EXCEPT ![Id(k)] = [Entry(k) EXCEPT !.offset = @ + Data(k)]]
    BY <1>1, <1>2
  <2>2. [Entry(k) EXCEPT !.offset = @ + Data(k)] = e
    BY <1>2 DEF Entries
  <2> QED BY <2>1, <2>2
<1>6. [song |-> Entry(k).pos, from |-> Entry(k).offset, len |-> Data(k)] \in Packets
  BY <1>2, <1>3 DEF Packets, Entries
<1> HIDE DEF n, e
<1>7. Own'
  BY <1>1, <1>6 DEF IInv, TypeOK, Own
<1>8. Paying' /\ Paid'
  BY <1>1, <1>3 DEF IInv, TypeOK, Paying, Paid, n
<1> QED BY <1>1, <1>4, <1>5, <1>7, <1>8, ThreadKeepsList, OwnSuffices

LEMMA ReadEndPreserves ==
    ASSUME IInv, NEW k \in Threads, ReadEnd(k) PROVE IInv'
<1>1. /\ rpc[k] = "read"
      /\ sndpack' = [sndpack EXCEPT ![k] = NoPacket]
      /\ rpc' = [rpc EXCEPT ![k] = "return"]
      /\ UNCHANGED <<dirs, scanVars, level, tbfsize, heard, spent>>
  BY DEF ReadEnd, Runs, Goto
<1>2. PICK e \in OpenNext(k) : channel' = [channel EXCEPT ![Id(k)] = e]
  BY DEF ReadEnd
<1>3. e \in Entries /\ e.dir = Entry(k).dir /\ e.pos < Len(Files(k))
  BY <1>1, OpenNextFacts
<1>4. NoPacket \in Packets /\ NoPacket.len = 0
  BY ConstantFacts DEF NoPacket, Packets
<1>5. Own'
  BY <1>1, <1>4 DEF IInv, TypeOK, Own
<1>6. Paying' /\ Paid'
  BY <1>1, <1>4 DEF IInv, TypeOK, Paying, Paid
<1> QED BY <1>1, <1>2, <1>3, <1>5, <1>6, ThreadKeepsList, OwnSuffices

LEMMA ReadErrorPreserves ==
    ASSUME IInv, NEW k \in Threads, ReadError(k) PROVE IInv'
<1>1. rpc[k] = "read" /\ rpc' = [rpc EXCEPT ![k] = "read"]
      /\ UNCHANGED <<dirs, scanVars, threadVars>>
  BY DEF ReadError, Runs, threadVars, IInv, TypeOK
<1>2. PICK e \in OpenNext(k) : channel' = [channel EXCEPT ![Id(k)] = e]
  BY DEF ReadError
<1>3. e \in Entries /\ e.dir = Entry(k).dir /\ e.pos < Len(Files(k))
  BY <1>1, OpenNextFacts
<1>4. Own' /\ Paying' /\ Paid'
  BY <1>1 DEF IInv, TypeOK, Own, Paying, Paid, threadVars
<1> QED BY <1>1, <1>2, <1>3, <1>4, ThreadKeepsList, OwnSuffices

LEMMA GiveBackPreserves ==
    ASSUME IInv, NEW k \in Threads, GiveBack(k) PROVE IInv'
<1>1. /\ rpc[k] = "return"
      /\ level' = [level EXCEPT ![Id(k)] = Smaller(@ + Unused(k), Burst)]
      /\ spent' = [spent EXCEPT ![k] = @ - Unused(k)]
      /\ rpc' = [rpc EXCEPT ![k] = "send"]
      /\ UNCHANGED <<dirs, scanVars, channel, tbfsize, sndpack, heard>>
  BY DEF GiveBack, Runs, Goto
<1>2. /\ Id(k) \in Ids /\ level[Id(k)] \in 0 .. Burst
      /\ tbfsize[k] \in 0 .. MaxData /\ sndpack[k].len \in 0 .. MaxData
      /\ sndpack[k].len <= tbfsize[k] /\ spent[k] = tbfsize[k]
  BY <1>1, ThreadFacts DEF IInv, TypeOK, Paying, Packets
<1>3. /\ Smaller(level[Id(k)] + Unused(k), Burst) \in 0 .. Burst
      /\ spent[k] - Unused(k) = sndpack[k].len
  BY <1>2, ConstantFacts DEF Smaller, Unused
<1>4. Own'
  BY <1>1, <1>2, <1>3 DEF IInv, TypeOK, Own
<1>5. Paying' /\ Paid'
  BY <1>1, <1>2, <1>3 DEF IInv, TypeOK, Paying, Paid
<1> QED BY <1>1, <1>4, <1>5, ThreadKeepsTable, OwnSuffices

LEMMA SendPreserves ==
    ASSUME IInv, NEW k \in Threads, Send(k) PROVE IInv'
<1>1. /\ rpc[k] = "send"
      /\ spent' = [spent EXCEPT ![k] = 0]
      /\ rpc' = [rpc EXCEPT ![k] = "fetch"]
      /\ UNCHANGED <<dirs, scanVars, channel, level, tbfsize, sndpack>>
  BY DEF Send, Runs, Goto
<1>2. heard' \in [Ids -> [song : Nat, upto : Nat]]
  <2>1. sndpack[k] \in Packets
    BY DEF IInv, TypeOK
  <2>2. [song |-> sndpack[k].song, upto |-> sndpack[k].from + sndpack[k].len]
            \in [song : Nat, upto : Nat]
    BY <2>1, ConstantFacts DEF Packets
  <2> QED BY <2>2 DEF Send, IInv, TypeOK
<1>3. Own'
  BY <1>1, <1>2, ConstantFacts DEF IInv, TypeOK, Own
<1>4. Paying' /\ Paid'
  BY <1>1 DEF IInv, TypeOK, Paying, Paid
<1> QED BY <1>1, <1>3, <1>4, ThreadKeepsTable, OwnSuffices

-----------------------------------------------------------------------------
LEMMA TickPreserves ==
    ASSUME IInv, Tick PROVE IInv'
<1>1. level' \in [Ids -> 0 .. Burst]
  <2>1. \A id \in Ids : Smaller(level[id] + Cps, Burst) \in 0 .. Burst
    BY ConstantFacts DEF IInv, TypeOK, Smaller
  <2> QED BY <2>1, ConstantFacts DEF Tick
<1>2. UNCHANGED <<dirs, scanVars, channel, rpc, tbfsize, sndpack, heard, spent>>
  BY DEF Tick
<1>3. Channels' = Channels
  BY <1>2 DEF Channels
<1>4. TypeOK'
  BY <1>1, <1>2, <1>3 DEF IInv, TypeOK, scanVars
<1> QED BY <1>2, <1>3, <1>4 DEF IInv, Numbering, EntriesKept, Id, Entry,
        Paying, Paid, scanVars

\* Removing a file changes what it holds, not how many there are.
LEMMA RemovePreserves ==
    ASSUME IInv, NEW d \in 1 .. Len(dirs), NEW i \in 1 .. Len(dirs[d].files),
           Remove(d, i)
    PROVE  IInv'
<1>1. /\ dirs' = [dirs EXCEPT ![d].files[i] = "denied"]
      /\ UNCHANGED <<scanVars, channel, threadVars>>
  BY DEF Remove
<1>2. /\ dirs \in Seq(Directories) /\ DOMAIN dirs = 1 .. Len(dirs)
      /\ Len(dirs) \in Nat /\ dirs[d] \in Directories
      /\ dirs[d].files \in FileLists
  BY LibraryFacts DEF IInv, TypeOK
<1> DEFINE fs == [dirs[d].files EXCEPT ![i] = "denied"]
           dir == [desc |-> dirs[d].desc, files |-> fs]
<1>3. fs \in FileLists /\ Len(fs) = Len(dirs[d].files)
  BY <1>2 DEF FileLists, FileKinds
<1>4. dir \in Directories /\ dirs' = [dirs EXCEPT ![d] = dir]
  <2>1. dirs' = [dirs EXCEPT ![d] = [dirs[d] EXCEPT !.files[i] = "denied"]]
    BY <1>1
  <2>2. [dirs[d] EXCEPT !.files[i] = "denied"] = [dirs[d] EXCEPT !.files = fs]
    OBVIOUS
  <2>3. dirs[d] = [desc |-> dirs[d].desc, files |-> dirs[d].files]
    BY <1>2 DEF Directories
  <2>4. [dirs[d] EXCEPT !.files = fs] = dir
    BY <2>3
  <2>5. dir \in Directories
    BY <1>2, <1>3 DEF Directories
  <2> QED BY <2>1, <2>2, <2>4, <2>5
<1> HIDE DEF fs
<1>5. dirs' \in Seq(Directories) /\ Len(dirs') = Len(dirs)
      /\ DOMAIN dirs' = DOMAIN dirs
  BY <1>2, <1>4
<1>6. \A c \in DOMAIN dirs : Len(dirs'[c].files) = Len(dirs[c].files)
  BY <1>2, <1>3, <1>4
<1>7. Channels' = Channels
  BY <1>1 DEF Channels
<1>8. TypeOK'
  BY <1>1, <1>5, <1>6, <1>7 DEF IInv, TypeOK, scanVars, threadVars
<1> QED BY <1>1, <1>5, <1>7, <1>8 DEF IInv, Numbering, EntriesKept, Id, Entry,
        Paying, Paid, scanVars, threadVars

LEMMA AlarmBlocksPreserves ==
    ASSUME IInv, NEW k \in Threads, AlarmBlocks(k) PROVE IInv'
<1>1. /\ rpc[k] \in {"fetch", "return"}
      /\ rpc' = [rpc EXCEPT ![k] = "blocked"]
      /\ UNCHANGED <<dirs, scanVars, channel, level, tbfsize, sndpack, heard, spent>>
  BY DEF AlarmBlocks, Runs, Goto
<1>2. Channels' = Channels
  BY <1>1 DEF Channels
<1>3. rpc' \in [Threads -> {"none", "fetch", "read", "return", "send", "blocked"}]
      /\ \A m \in Threads : rpc'[m] = IF m = k THEN "blocked" ELSE rpc[m]
  BY <1>1 DEF IInv, TypeOK
<1>4. TypeOK'
  BY <1>1, <1>2, <1>3 DEF IInv, TypeOK, scanVars
<1> QED BY <1>1, <1>2, <1>3, <1>4 DEF IInv, Numbering, EntriesKept, Id, Entry,
        Paying, Paid, scanVars

LEMMA StutterPreserves == ASSUME IInv, UNCHANGED vars PROVE IInv'
BY DEF vars, IInv, TypeOK, Numbering, EntriesKept, Paying, Paid, Channels, Id,
   Entry

LEMMA NextPreserves == IInv /\ [Next]_vars => IInv'
<1> SUFFICES ASSUME IInv, [Next]_vars PROVE IInv'
  OBVIOUS
<1>1. CASE Main
  BY <1>1, StopPreserves, OverrunPreserves, PhaseStepPreserves, SkipPreserves,
     AddPreserves, CreatePreserves DEF Main, NoBucket
<1>2. CASE CreateFails \/ AlarmBlocksMain
  BY <1>2, StopPreserves DEF CreateFails, AlarmBlocksMain
<1>3. ASSUME NEW k \in Threads,
             ThreadStep(k) \/ OpenCrashes(k) \/ SendFails(k) PROVE IInv'
  BY <1>3, FetchPreserves, ReadSongPreserves, ReadEndPreserves,
     ReadErrorPreserves, GiveBackPreserves, SendPreserves, StopPreserves
     DEF ThreadStep, OpenCrashes, SendFails
<1>4. CASE Tick
  BY <1>4, TickPreserves
<1>5. ASSUME NEW d \in 1 .. Len(dirs), NEW i \in 1 .. Len(dirs[d].files),
             Remove(d, i) PROVE IInv'
  BY <1>5, RemovePreserves
<1>6. CASE UNCHANGED vars
  BY <1>6, StutterPreserves
<1>7. ASSUME NEW k \in Threads, AlarmBlocks(k) PROVE IInv'
  BY <1>7, AlarmBlocksPreserves
<1> QED BY <1>1, <1>2, <1>3, <1>4, <1>5, <1>6, <1>7 DEF Next

-----------------------------------------------------------------------------
\* The inductive invariant, for any libraries.
THEOREM Invariance == Spec => []IInv
BY InitIInv, NextPreserves, PTL DEF Spec

\* Positions stay inside the directory, offsets inside the song and tokens
\* between 0 and Burst, whatever files cannot be opened or read.
THEOREM TypeCorrect == Spec => []TypeOK
<1>1. IInv => TypeOK
  BY DEF IInv
<1> QED BY <1>1, Invariance, PTL

\* Any library is listed as it is heard, until it overruns the table, which
\* takes more than CHNNUM directories: each entry of the list has its own
\* channel, inside the table, of the directory it shows.
THEOREM ListMatchesTable == Spec => []EntriesKept
<1>1. IInv => EntriesKept
  BY DEF IInv
<1> QED BY <1>1, Invariance, PTL

\* mlib_readchn keeps exactly the tokens of the data it returns.
THEOREM PacketsArePaid == Spec => []Paid
<1>1. IInv => Paid
  BY DEF IInv
<1> QED BY <1>1, Invariance, PTL

-----------------------------------------------------------------------------
\* The playlist.  F are the files of a channel, h is what was heard last when
\* the packet in the hands of the thread has been sent.
Gap(F, i, j) ==
    IF i < j THEN i + 1 .. j - 1 ELSE (i + 1 .. Len(F) - 1) \cup (0 .. j - 1)
Silent(F, i) == F[i + 1] # "song"
Skips(F, i, j) == \A x \in Gap(F, i, j) : Silent(F, x)
Over(F, h) == h.upto = SongLen \/ (h.upto = 0 /\ Silent(F, h.song))

\* Where the entry e stands: inside the song that is heard; at the start of the
\* next one; at a file that holds none; or nothing opens any more.
Inside(e, h) == e.fd = "song" /\ e.pos = h.song /\ e.offset = h.upto
Starting(F, e, h) ==
    e.fd = "song" /\ e.offset = 0 /\ Over(F, h) /\ Skips(F, h.song, e.pos)
Passing(F, e, h) ==
    /\ e.fd \in {"empty", "folder"} /\ Over(F, h) /\ Silent(F, e.pos)
    /\ e.pos = h.song \/ Skips(F, h.song, e.pos)
Dead(F, e) == e.fd = "closed" /\ \A i \in DOMAIN F : F[i] = "denied"
Stands(F, e, h) ==
    /\ h.song \in 0 .. Len(F) - 1
    /\ Inside(e, h) \/ Starting(F, e, h) \/ Passing(F, e, h) \/ Dead(F, e)

\* The packet p may be heard after h.
Follows(F, p, h) ==
    /\ p.song \in 0 .. Len(F) - 1 /\ p.from + p.len <= SongLen
    /\ \/ p.song = h.song /\ p.from = h.upto
       \/ p.from = 0 /\ Over(F, h) /\ Skips(F, h.song, p.song)

Sent(p) == [song |-> p.song, upto |-> p.from + p.len]
Pending(q, p) == q \in {"return", "send"} /\ p.len > 0

\* An entry e of a channel of which h was heard, and the state q, packet p and
\* tokens n of its thread; one that a handler has blocked never goes on
Tune(F, e, h, q, p, n) ==
    /\ h.song \in 0 .. Len(F) - 1
    /\ q # "blocked" => Stands(F, e, IF Pending(q, p) THEN Sent(p) ELSE h)
    /\ Pending(q, p) => Follows(F, p, h)
    /\ q = "read" => n > 0

InTune(k) ==
    Tune(Files(k), Entry(k), heard[Id(k)], rpc[k], sndpack[k], tbfsize[k])

PlayInv ==
    /\ \A k \in Threads \cap DOMAIN list : InTune(k)
    /\ \A id \in Ids \ Channels : heard[id] = [song |-> 0, upto |-> 0]

Spots(F) == 0 .. Len(F) - 1

LEMMA GapSplit ==
    ASSUME NEW F \in FileLists,
           NEW i \in Spots(F), NEW j \in Spots(F), NEW m \in Spots(F)
    PROVE  \A x \in Gap(F, i, j) :
                x \in Gap(F, i, m) \/ x = m \/ x \in Gap(F, m, j)
<1>1. PICK n \in Nat : n = Len(F)
  BY DEF FileLists
<1> QED BY <1>1 DEF Gap, Spots

LEMMA GapSpots ==
    ASSUME NEW F \in FileLists, NEW i \in Spots(F), NEW j \in Spots(F)
    PROVE  Gap(F, i, j) \subseteq Spots(F)
<1>1. PICK n \in Nat : n = Len(F)
  BY DEF FileLists
<1> QED BY <1>1 DEF Gap, Spots

\* Files are removed and nothing else: what is silent stays so.
Thinned(F, G) ==
    /\ G \in FileLists /\ Len(G) = Len(F)
    /\ \A i \in DOMAIN F : G[i] = F[i] \/ G[i] = "denied"

LEMMA SilentStays ==
    ASSUME NEW F \in FileLists, NEW G, Thinned(F, G),
           NEW x \in Spots(F), Silent(F, x)
    PROVE  Silent(G, x)
<1>1. x + 1 \in DOMAIN F
  BY DEF FileLists, Spots
<1> QED BY <1>1 DEF Thinned, Silent

LEMMA SkipsStay ==
    ASSUME NEW F \in FileLists, NEW G, Thinned(F, G),
           NEW i \in Spots(F), NEW j \in Spots(F), Skips(F, i, j)
    PROVE  Skips(G, i, j)
<1>1. Gap(G, i, j) = Gap(F, i, j)
  BY DEF Gap, Thinned
<1>2. \A x \in Gap(F, i, j) : Silent(F, x) /\ x \in Spots(F)
  BY GapSpots DEF Skips
<1> QED BY <1>1, <1>2, SilentStays DEF Skips

LEMMA StandsStays ==
    ASSUME NEW F \in FileLists, NEW G, Thinned(F, G),
           NEW e, NEW h, e.pos \in Spots(F), Stands(F, e, h)
    PROVE  Stands(G, e, h)
<1>1. h.song \in Spots(F) /\ h.song \in Spots(G)
  BY DEF Stands, Spots, Thinned
<1>2. Over(F, h) => Over(G, h)
  BY <1>1, SilentStays DEF Over
<1>3. Skips(F, h.song, e.pos) => Skips(G, h.song, e.pos)
  BY <1>1, SkipsStay
<1>4. Silent(F, e.pos) => Silent(G, e.pos)
  BY SilentStays
<1>5. Dead(F, e) => Dead(G, e)
  BY DEF Dead, Thinned, FileLists
<1> QED BY <1>1, <1>2, <1>3, <1>4, <1>5 DEF Stands, Starting, Passing, Spots

LEMMA FollowsStays ==
    ASSUME NEW F \in FileLists, NEW G, Thinned(F, G),
           NEW p, NEW h, h.song \in Spots(F), Follows(F, p, h)
    PROVE  Follows(G, p, h)
<1>1. p.song \in Spots(F) /\ p.song \in Spots(G)
  BY DEF Follows, Spots, Thinned
<1>2. Over(F, h) => Over(G, h)
  BY SilentStays DEF Over
<1>3. Skips(F, h.song, p.song) => Skips(G, h.song, p.song)
  BY <1>1, SkipsStay
<1> QED BY <1>1, <1>2, <1>3 DEF Follows, Spots

\* open_next passes only over files that do not open.
LEMMA OpensNext ==
    ASSUME IInv, NEW k \in Threads, rpc[k] # "none", Opening(k) # {},
           NEW e \in OpenNext(k)
    PROVE  /\ e.fd = Files(k)[e.pos + 1] /\ e.fd # "denied" /\ e.fd \in FileKinds
           /\ e.offset = 0 /\ e.pos \in Spots(Files(k))
           /\ Entry(k).pos \in Spots(Files(k))
           /\ Skips(Files(k), Entry(k).pos, e.pos)
<1>1. /\ Entry(k) \in Entries /\ Entry(k).pos < Len(Files(k))
      /\ Files(k) \in FileLists
  BY ThreadFacts
<1>2. PICK i \in FirstOpening(k) :
        e = [Entry(k) EXCEPT !.pos = Turned(k, i),
                             !.fd = Files(k)[Turned(k, i) + 1], !.offset = 0]
  BY DEF OpenNext
<1>3. /\ i \in 1 .. Len(Files(k)) /\ Files(k)[Turned(k, i) + 1] # "denied"
      /\ \A j \in Opening(k) : i <= j
  BY DEF FirstOpening, Opening, Turned
<1>4. e.pos = Turned(k, i) /\ e.fd = Files(k)[Turned(k, i) + 1] /\ e.offset = 0
  BY <1>1, <1>2 DEF Entries
<1>5. PICK n \in Nat : n = Len(Files(k))
  BY <1>1 DEF FileLists
<1>6. PICK p \in Nat : p = Entry(k).pos
  BY <1>1 DEF Entries
<1>7. \A m \in 1 .. n : Wrapped(k, m) = IF p + m < n THEN p + m ELSE p + m - n
  BY <1>5, <1>6 DEF Wrapped
<1>8. e.pos = Wrapped(k, i) /\ e.pos \in 0 .. n - 1 /\ p \in 0 .. n - 1
  BY <1>1, <1>3, <1>4, <1>5, <1>6, <1>7 DEF Turned
<1>9. Files(k)[e.pos + 1] \in FileKinds
  BY <1>1, <1>5, <1>8 DEF FileLists
<1>10. ASSUME NEW x \in Gap(Files(k), p, e.pos) PROVE Silent(Files(k), x)
  <2>1. PICK q \in 0 .. n - 1 : q = e.pos
    BY <1>8
  <2>2. q = IF p + i < n THEN p + i ELSE p + i - n
    BY <1>3, <1>5, <1>7, <1>8, <2>1
  <2>3. x \in IF p < q THEN p + 1 .. q - 1 ELSE (p + 1 .. n - 1) \cup (0 .. q - 1)
    BY <1>5, <2>1 DEF Gap
  <2>4. \E m \in 1 .. i - 1 : m <= n /\ x = IF p + m < n THEN p + m ELSE p + m - n
    <3>1. i \in 1 .. n
      BY <1>3, <1>5
    <3>2. CASE x > p
      <4>1. x - p \in 1 .. i - 1 /\ x - p <= n
        BY <1>8, <2>2, <2>3, <3>1, <3>2
      <4>2. x = IF p + (x - p) < n THEN p + (x - p) ELSE p + (x - p) - n
        BY <1>8, <2>1, <2>3, <3>2
      <4> QED BY <4>1, <4>2
    <3>3. CASE ~(x > p)
      <4>1. x + n - p \in 1 .. i - 1 /\ x + n - p <= n
        BY <1>8, <2>2, <2>3, <3>1, <3>3
      <4>2. x = IF p + (x + n - p) < n THEN p + (x + n - p) ELSE p + (x + n - p) - n
        BY <1>8, <2>1, <2>3, <3>3
      <4> QED BY <4>1, <4>2
    <3> QED BY <3>2, <3>3
  <2>5. PICK m \in 1 .. i - 1 : m <= n /\ x = Wrapped(k, m)
    BY <1>3, <1>5, <1>7, <2>4
  <2>6. m \in 1 .. Len(Files(k)) /\ m \notin Opening(k)
    BY <1>3, <1>5, <2>5
  <2>7. Files(k)[x + 1] = "denied"
    BY <2>5, <2>6 DEF Opening
  <2> QED BY <2>7 DEF Silent
<1> QED BY <1>3, <1>4, <1>5, <1>6, <1>8, <1>9, <1>10 DEF Skips, Spots

LEMMA OpenStands ==
    ASSUME IInv, NEW k \in Threads, rpc[k] # "none", NEW e \in OpenNext(k),
           NEW h, Stands(Files(k), Entry(k), h),
           Entry(k).fd = "song" => Entry(k).offset = SongLen
    PROVE  Stands(Files(k), e, h)
<1> DEFINE F == Files(k)
<1>1. /\ Entry(k) \in Entries /\ Entry(k).pos < Len(F) /\ F \in FileLists
  BY ThreadFacts
<1>2. PICK n \in Nat : n = Len(F) /\ DOMAIN F = 1 .. n
  BY <1>1 DEF FileLists
<1>3. PICK p \in 0 .. n - 1 : p = Entry(k).pos
  BY <1>1, <1>2 DEF Entries
<1>4. \A m \in 1 .. n : Wrapped(k, m) = IF p + m < n THEN p + m ELSE p + m - n
  BY <1>2, <1>3 DEF Wrapped
<1>5. CASE Opening(k) = {}
  <2>1. \A m \in 1 .. n : F[Wrapped(k, m) + 1] = "denied"
    BY <1>2, <1>5 DEF Opening
  <2>2. ASSUME NEW i \in 1 .. n PROVE F[i] = "denied"
    <3>1. PICK m \in 1 .. n : i - 1 = IF p + m < n THEN p + m ELSE p + m - n
      <4>1. ASSUME i - 1 > p
            PROVE  \E m \in 1 .. n :
                        i - 1 = IF p + m < n THEN p + m ELSE p + m - n
        <5>1. PICK m \in 1 .. n : m = i - 1 - p
          BY <4>1, <1>3
        <5>2. i - 1 = p + m /\ p + m < n
          BY <5>1, <1>3
        <5> QED BY <5>2
      <4>2. ASSUME ~(i - 1 > p)
            PROVE  \E m \in 1 .. n :
                        i - 1 = IF p + m < n THEN p + m ELSE p + m - n
        <5>1. PICK m \in 1 .. n : m = i - 1 - p + n
          BY <4>2, <1>3
        <5>2. i - 1 = p + m - n /\ ~(p + m < n)
          BY <5>1, <1>3
        <5> QED BY <5>2
      <4> QED BY <4>1, <4>2
    <3>2. i - 1 = Wrapped(k, m)
      BY <1>4, <3>1
    <3>3. F[(i - 1) + 1] = "denied"
      BY <2>1, <3>2
    <3> QED BY <3>3
  <2>3. e = [Entry(k) EXCEPT !.fd = "closed"]
    BY <1>5 DEF OpenNext
  <2>4. e.fd = "closed"
    BY <1>1, <2>3 DEF Entries
  <2> HIDE DEF F
  <2>5. Dead(F, e)
    BY <1>2, <2>2, <2>4 DEF Dead
  <2> QED BY <2>5 DEF Stands, F
<1>6. CASE Opening(k) # {}
  <2>1. /\ e.fd = F[e.pos + 1] /\ e.fd # "denied" /\ e.fd \in FileKinds
        /\ e.offset = 0 /\ e.pos \in Spots(F) /\ Skips(F, p, e.pos)
        /\ p \in Spots(F)
    BY <1>3, <1>6, OpensNext
  <2>2. h.song \in Spots(F)
    BY DEF Stands, Spots
  <2>3. ~Dead(F, Entry(k))
    <3>1. PICK m \in 1 .. n : F[Wrapped(k, m) + 1] # "denied"
      BY <1>2, <1>6 DEF Opening
    <3>2. Wrapped(k, m) + 1 \in DOMAIN F
      <4>1. Wrapped(k, m) = IF p + m < n THEN p + m ELSE p + m - n
        BY <1>4
      <4>2. p \in 0 .. n - 1 /\ m \in 1 .. n /\ n \in Nat
        OBVIOUS
      <4>3. Wrapped(k, m) + 1 \in 1 .. n
        BY <4>1, <4>2
      <4> QED BY <1>2, <4>3
    <3> QED BY <3>1, <3>2 DEF Dead
  <2>4. Over(F, h) /\ Skips(F, h.song, e.pos)
    <3>1. CASE Inside(Entry(k), h)
      BY <1>3, <2>1, <3>1 DEF Inside, Over
    <3>2. CASE Starting(F, Entry(k), h)
      BY <3>2, ConstantFacts DEF Starting
    <3>3. CASE Passing(F, Entry(k), h)
      <4>1. Over(F, h) /\ Silent(F, p) /\ (p = h.song \/ Skips(F, h.song, p))
        BY <1>3, <3>3 DEF Passing
      <4>2. ASSUME Skips(F, h.song, p), NEW x \in Gap(F, h.song, e.pos)
            PROVE  Silent(F, x)
        <5>1. x \in Gap(F, h.song, p) \/ x = p \/ x \in Gap(F, p, e.pos)
          BY <1>1, <2>1, <2>2, GapSplit
        <5> QED BY <2>1, <4>1, <4>2, <5>1 DEF Skips
      <4> QED BY <2>1, <4>1, <4>2 DEF Skips
    <3> QED BY <2>3, <3>1, <3>2, <3>3 DEF Stands
  <2>5. CASE e.fd = "song"
    BY <2>1, <2>2, <2>4, <2>5 DEF Stands, Starting, Spots
  <2>6. CASE e.fd \in {"empty", "folder"}
    <3>1. Silent(F, e.pos)
      BY <2>1, <2>6 DEF Silent
    <3> QED BY <2>2, <2>4, <2>6, <3>1 DEF Stands, Passing, Spots
  <2> QED BY <2>1, <2>5, <2>6 DEF FileKinds
<1> QED BY <1>5, <1>6

LEMMA ReadStands ==
    ASSUME NEW F \in FileLists,
           NEW e \in Entries, e.fd = "song", e.pos < Len(F),
           NEW n \in Nat \ {0}, e.offset + n <= SongLen,
           NEW h, Stands(F, e, h),
           NEW p, p = [song |-> e.pos, from |-> e.offset, len |-> n],
           NEW f, f = [dir |-> e.dir, pos |-> e.pos, fd |-> e.fd,
                       offset |-> e.offset + n]
    PROVE  Follows(F, p, h) /\ Stands(F, f, Sent(p)) /\ p.len > 0
<1>1. e.pos \in 0 .. Len(F) - 1 /\ e.offset \in Nat /\ Len(F) \in Nat
  BY DEF Entries, FileLists
<1>2. p.song = e.pos /\ p.from = e.offset /\ p.len = n
  OBVIOUS
<1>3. Follows(F, p, h)
  BY <1>1, <1>2 DEF Stands, Inside, Starting, Passing, Dead, Follows
<1>4. Stands(F, f, Sent(p))
  BY <1>1, <1>2 DEF Stands, Inside, Sent
<1> QED BY <1>2, <1>3, <1>4

-----------------------------------------------------------------------------
\* What a listed channel and its entry are, made or not.
LEMMA ListedFacts ==
    ASSUME IInv, NEW k \in Threads \cap DOMAIN list
    PROVE  /\ Id(k) \in Channels /\ Id(k) \in Ids
           /\ Entry(k) \in Entries /\ Entry(k).dir \in DOMAIN dirs
           /\ Entry(k).pos < Len(Files(k))
           /\ Files(k) \in FileLists
<1>1. Id(k) \in Channels /\ Id(k) \in Ids
  BY DEF IInv, EntriesKept
<1>2. /\ channel \in [Channels -> Entries]
      /\ \A id \in Channels :
            /\ channel[id].dir \in DOMAIN dirs
            /\ channel[id].pos < Len(dirs[channel[id].dir].files)
  BY DEF IInv, TypeOK
<1>3. Entry(k) \in Entries /\ Entry(k).dir \in DOMAIN dirs
      /\ Entry(k).pos < Len(Files(k))
  BY <1>1, <1>2 DEF Entry, Files
<1> QED BY <1>1, <1>3, LibraryFacts DEF Files

\* Thread k leaves its entry as e, its channel as h, itself at q with p and n.
Leaves(k, e, h, q, p, n) ==
    /\ dirs' = dirs /\ list' = list
    /\ channel' = [channel EXCEPT ![Id(k)] = e]
    /\ heard' = [heard EXCEPT ![Id(k)] = h]
    /\ rpc' = [rpc EXCEPT ![k] = q]
    /\ sndpack' = [sndpack EXCEPT ![k] = p]
    /\ tbfsize' = [tbfsize EXCEPT ![k] = n]

\* A thread's step puts nothing out of tune but, perhaps, its own channel.
LEMMA ThreadTunes ==
    ASSUME IInv, PlayInv, NEW k \in Threads, rpc[k] # "none",
           NEW e \in Entries, NEW h, NEW q, NEW p, NEW n,
           e.dir = Entry(k).dir, Leaves(k, e, h, q, p, n),
           Tune(Files(k), e, h, q, p, n)
    PROVE  PlayInv'
<1> USE DEF Leaves
<1>1. /\ channel \in [Channels -> Entries] /\ DOMAIN heard = Ids
      /\ DOMAIN rpc = Threads /\ DOMAIN sndpack = Threads
      /\ DOMAIN tbfsize = Threads
  BY DEF IInv, TypeOK
<1>2. k \in DOMAIN list /\ Id(k) \in Channels /\ Id(k) \in Ids
  BY ThreadFacts
<1>3. Channels' = Channels
  BY <1>1 DEF Channels
<1>4. ASSUME NEW m \in Threads \cap DOMAIN list PROVE InTune(m)'
  <2>1. Id(m)' = Id(m) /\ Id(m) \in Channels /\ Id(m) \in Ids
    BY ListedFacts DEF Id
  <2>2. CASE m = k
    <3>1. Entry(k)' = e
      BY <1>1, <2>1, <2>2 DEF Entry
    <3>2. Files(k)' = Files(k)
      BY <3>1 DEF Files
    <3>3. heard'[Id(k)] = h /\ rpc'[k] = q /\ sndpack'[k] = p /\ tbfsize'[k] = n
      BY <1>1, <1>2
    <3> QED BY <2>1, <2>2, <3>1, <3>2, <3>3 DEF InTune, Tune, Stands, Follows
  <2>3. CASE m # k
    <3>1. Id(m) # Id(k)
      BY <1>2, <2>3 DEF IInv, EntriesKept
    <3>2. Entry(m)' = Entry(m)
      BY <1>1, <2>1, <3>1 DEF Entry
    <3>3. Files(m)' = Files(m)
      BY <3>2 DEF Files
    <3>4. /\ heard'[Id(m)] = heard[Id(m)] /\ rpc'[m] = rpc[m]
          /\ sndpack'[m] = sndpack[m] /\ tbfsize'[m] = tbfsize[m]
      BY <1>1, <2>1, <2>3, <3>1
    <3>5. InTune(m)
      BY DEF PlayInv
    <3> QED BY <2>1, <3>2, <3>3, <3>4, <3>5 DEF InTune
  <2> QED BY <2>2, <2>3
<1>5. \A id \in Ids \ Channels : heard'[id] = heard[id]
  BY <1>1, <1>2
<1> QED BY <1>3, <1>4, <1>5 DEF PlayInv

\* What a step of the thread leaves alone.
LEMMA Kept ==
    ASSUME IInv, NEW k \in Threads, rpc[k] # "none"
    PROVE  /\ channel = [channel EXCEPT ![Id(k)] = Entry(k)]
           /\ heard = [heard EXCEPT ![Id(k)] = heard[Id(k)]]
           /\ rpc = [rpc EXCEPT ![k] = rpc[k]]
           /\ sndpack = [sndpack EXCEPT ![k] = sndpack[k]]
           /\ tbfsize = [tbfsize EXCEPT ![k] = tbfsize[k]]
<1>1. channel \in [Channels -> Entries] /\ Id(k) \in Channels
  BY ThreadFacts DEF IInv, TypeOK
<1>2. /\ DOMAIN heard = Ids /\ heard \in [Ids -> [song : Nat, upto : Nat]]
      /\ rpc \in [Threads -> {"none", "fetch", "read", "return", "send", "blocked"}]
      /\ sndpack \in [Threads -> Packets]
      /\ tbfsize \in [Threads -> 0 .. MaxData]
  BY DEF IInv, TypeOK
<1> QED BY <1>1, <1>2 DEF Entry

LEMMA OwnTune ==
    ASSUME IInv, PlayInv, NEW k \in Threads, rpc[k] # "none"
    PROVE  Tune(Files(k), Entry(k), heard[Id(k)], rpc[k], sndpack[k],
                tbfsize[k])
<1>1. k \in Threads \cap DOMAIN list
  BY ThreadFacts
<1> QED BY <1>1 DEF PlayInv, InTune

LEMMA FetchTunes ==
    ASSUME IInv, PlayInv, NEW k \in Threads, Fetch(k) PROVE PlayInv'
<1> DEFINE n == Smaller(level[Id(k)], MaxData)
<1>1. /\ rpc[k] = "fetch" /\ level[Id(k)] > 0
      /\ tbfsize' = [tbfsize EXCEPT ![k] = n]
      /\ rpc' = [rpc EXCEPT ![k] = "read"]
      /\ UNCHANGED <<dirs, scanVars, channel, sndpack, heard>>
  BY DEF Fetch, Runs, Goto
<1>2. Id(k) \in Ids /\ level[Id(k)] \in 0 .. Burst /\ Entry(k) \in Entries
  BY <1>1, ThreadFacts DEF IInv, TypeOK
<1>3. n > 0
  BY <1>1, <1>2, ConstantFacts DEF Smaller
<1> HIDE DEF n
<1>4. Tune(Files(k), Entry(k), heard[Id(k)], "read", sndpack[k], n)
  BY <1>1, <1>3, OwnTune DEF Tune, Pending
<1>5. Leaves(k, Entry(k), heard[Id(k)], "read", sndpack[k], n)
  BY <1>1, Kept DEF scanVars, Leaves
<1> QED BY <1>1, <1>2, <1>4, <1>5, ThreadTunes

LEMMA ReadSongTunes ==
    ASSUME IInv, PlayInv, NEW k \in Threads, ReadSong(k) PROVE PlayInv'
<1> DEFINE n == Data(k)
           e == [dir |-> Entry(k).dir, pos |-> Entry(k).pos,
                 fd |-> Entry(k).fd, offset |-> Entry(k).offset + n]
           p == [song |-> Entry(k).pos, from |-> Entry(k).offset, len |-> n]
<1>1. /\ rpc[k] = "read" /\ n > 0
      /\ sndpack' = [sndpack EXCEPT ![k] = p]
      /\ channel' = [channel EXCEPT ![Id(k)].offset = @ + n]
      /\ rpc' = [rpc EXCEPT ![k] = "return"]
      /\ UNCHANGED <<dirs, scanVars, level, tbfsize, heard, spent>>
  BY DEF ReadSong, Runs, Goto
<1>2. /\ Id(k) \in Channels /\ Entry(k) = channel[Id(k)] /\ Entry(k) \in Entries
      /\ Entry(k).pos < Len(Files(k)) /\ Files(k) \in FileLists
  BY <1>1, ThreadFacts DEF Entry
<1>3. /\ n \in Nat \ {0} /\ Entry(k).offset + n <= SongLen
      /\ Entry(k).offset + n \in 0 .. SongLen /\ Entry(k).fd = "song"
  <2>1. tbfsize[k] \in 0 .. MaxData /\ Entry(k).offset \in 0 .. SongLen
    BY <1>2 DEF IInv, TypeOK, Entries
  <2>2. Entry(k).fd = "song"
        /\ Data(k) = Smaller(tbfsize[k], SongLen - Entry(k).offset)
    BY <1>1 DEF Data
  <2>3. SongLen \in Nat /\ MaxData \in Nat
    BY ConstantFacts
  <2>4. Data(k) \in 1 .. tbfsize[k] /\ Data(k) <= SongLen - Entry(k).offset
    BY <1>1, <2>1, <2>2, <2>3 DEF Smaller
  <2> QED BY <2>1, <2>2, <2>3, <2>4
<1>4. e \in Entries /\ e.dir = Entry(k).dir
  BY <1>2, <1>3 DEF Entries
<1>5. channel' = [channel EXCEPT ![Id(k)] = e]
  <2>1. channel' = [channel EXCEPT ![Id(k)] = [Entry(k) EXCEPT !.offset = @ + n]]
    BY <1>1, <1>2
  <2>2. [Entry(k) EXCEPT !.offset = @ + n] = e
    BY <1>2 DEF Entries
  <2> QED BY <2>1, <2>2
<1>6. /\ Stands(Files(k), Entry(k), heard[Id(k)])
      /\ heard[Id(k)].song \in 0 .. Len(Files(k)) - 1
  BY <1>1, OwnTune DEF Tune, Pending
<1>7. /\ Follows(Files(k), p, heard[Id(k)]) /\ p.len > 0
      /\ Stands(Files(k), e, Sent(p))
  BY <1>2, <1>3, <1>6, ReadStands
<1> HIDE DEF n, e, p
<1>8. Leaves(k, e, heard[Id(k)], "return", p, tbfsize[k])
  BY <1>1, <1>5, Kept DEF scanVars, Leaves
<1>9. Tune(Files(k), e, heard[Id(k)], "return", p, tbfsize[k])
  BY <1>6, <1>7 DEF Tune, Pending
<1> QED BY <1>1, <1>4, <1>8, <1>9, ThreadTunes

\* open_next, with no packet in hand
LEMMA OpenTunes ==
    ASSUME IInv, PlayInv, NEW k \in Threads, rpc[k] = "read",
           NEW e \in OpenNext(k), NEW q, NEW p, NEW n,
           ~Pending(q, p), q = "read" => n > 0,
           Entry(k).fd = "song" => Entry(k).offset = SongLen,
           UNCHANGED <<dirs, list, heard>>,
           channel' = [channel EXCEPT ![Id(k)] = e],
           rpc' = [rpc EXCEPT ![k] = q],
           sndpack' = [sndpack EXCEPT ![k] = p],
           tbfsize' = [tbfsize EXCEPT ![k] = n]
    PROVE  PlayInv'
<1>1. e \in Entries /\ e.dir = Entry(k).dir
  BY OpenNextFacts
<1>2. /\ Stands(Files(k), Entry(k), heard[Id(k)])
      /\ heard[Id(k)].song \in 0 .. Len(Files(k)) - 1
  BY OwnTune DEF Tune, Pending
<1>3. Stands(Files(k), e, heard[Id(k)])
  BY <1>2, OpenStands
<1>4. Tune(Files(k), e, heard[Id(k)], q, p, n)
  BY <1>2, <1>3 DEF Tune
<1>5. Leaves(k, e, heard[Id(k)], q, p, n)
  BY Kept DEF Leaves
<1> QED BY <1>1, <1>4, <1>5, ThreadTunes

LEMMA ReadEndTunes ==
    ASSUME IInv, PlayInv, NEW k \in Threads, ReadEnd(k) PROVE PlayInv'
<1>1. /\ rpc[k] = "read" /\ Data(k) = 0
      /\ sndpack' = [sndpack EXCEPT ![k] = NoPacket]
      /\ rpc' = [rpc EXCEPT ![k] = "return"]
      /\ UNCHANGED <<dirs, scanVars, level, tbfsize, heard, spent>>
  BY DEF ReadEnd, Runs, Goto
<1>2. PICK e \in OpenNext(k) : channel' = [channel EXCEPT ![Id(k)] = e]
  BY DEF ReadEnd
<1>3. Entry(k).fd = "song" => Entry(k).offset = SongLen
  <2>1. /\ tbfsize[k] > 0 /\ tbfsize[k] \in 0 .. MaxData
        /\ Entry(k).offset \in 0 .. SongLen
    BY <1>1, OwnTune, ThreadFacts DEF Tune, IInv, TypeOK, Entries
  <2> QED BY <1>1, <2>1, ConstantFacts DEF Data, Smaller
<1>4. ~Pending("return", NoPacket)
  BY DEF Pending, NoPacket
<1>5. /\ tbfsize' = [tbfsize EXCEPT ![k] = tbfsize[k]]
      /\ dirs' = dirs /\ list' = list /\ heard' = heard
  BY <1>1, Kept DEF scanVars
<1> QED BY <1>1, <1>2, <1>3, <1>4, <1>5, OpenTunes

LEMMA ReadErrorTunes ==
    ASSUME IInv, PlayInv, NEW k \in Threads, ReadError(k) PROVE PlayInv'
<1>1. /\ rpc[k] = "read" /\ Entry(k).fd \in {"folder", "closed"}
      /\ UNCHANGED <<dirs, scanVars, threadVars>>
  BY DEF ReadError, Runs
<1>2. PICK e \in OpenNext(k) : channel' = [channel EXCEPT ![Id(k)] = e]
  BY DEF ReadError
<1>3. ~Pending("read", sndpack[k]) /\ tbfsize[k] > 0
  BY <1>1, OwnTune DEF Pending, Tune
<1>4. /\ tbfsize' = [tbfsize EXCEPT ![k] = tbfsize[k]]
      /\ sndpack' = [sndpack EXCEPT ![k] = sndpack[k]]
      /\ rpc' = [rpc EXCEPT ![k] = "read"]
      /\ dirs' = dirs /\ list' = list /\ heard' = heard
  BY <1>1, Kept DEF scanVars, threadVars
<1> QED BY <1>1, <1>2, <1>3, <1>4, OpenTunes

LEMMA GiveBackTunes ==
    ASSUME IInv, PlayInv, NEW k \in Threads, GiveBack(k) PROVE PlayInv'
<1>1. /\ rpc[k] = "return" /\ rpc' = [rpc EXCEPT ![k] = "send"]
      /\ UNCHANGED <<dirs, scanVars, channel, tbfsize, sndpack, heard>>
  BY DEF GiveBack, Runs, Goto
<1>2. Tune(Files(k), Entry(k), heard[Id(k)], "send", sndpack[k], tbfsize[k])
  BY <1>1, OwnTune DEF Tune, Pending
<1>3. Leaves(k, Entry(k), heard[Id(k)], "send", sndpack[k], tbfsize[k])
  BY <1>1, Kept DEF scanVars, Leaves
<1>4. Entry(k) \in Entries /\ rpc[k] # "none"
  BY <1>1, ThreadFacts
<1> QED BY <1>1, <1>2, <1>3, <1>4, ThreadTunes

LEMMA SendTunes ==
    ASSUME IInv, PlayInv, NEW k \in Threads, Send(k) PROVE PlayInv'
<1> DEFINE p == sndpack[k]
           h == IF p.len = 0 THEN heard[Id(k)] ELSE Sent(p)
<1>1. /\ rpc[k] = "send" /\ rpc' = [rpc EXCEPT ![k] = "fetch"]
      /\ UNCHANGED <<dirs, scanVars, channel, level, tbfsize, sndpack>>
      /\ heard' = IF p.len = 0 THEN heard
                  ELSE [heard EXCEPT ![Id(k)] = Sent(p)]
  BY DEF Send, Runs, Goto, Sent
<1>2. heard' = [heard EXCEPT ![Id(k)] = h]
  <2>1. CASE p.len = 0
    BY <1>1, <2>1, Kept
  <2>2. CASE p.len # 0
    BY <1>1, <2>2
  <2> QED BY <2>1, <2>2
<1>3. p.len \in 0 .. MaxData
  BY DEF IInv, TypeOK, Packets
<1>4. Tune(Files(k), Entry(k), h, "fetch", p, tbfsize[k])
  <2>1. Tune(Files(k), Entry(k), heard[Id(k)], "send", p, tbfsize[k])
    BY <1>1, OwnTune
  <2>2. CASE p.len = 0
    BY <2>1, <2>2 DEF Tune, Pending
  <2>3. CASE p.len # 0
    <3>1. Pending("send", p) /\ ~Pending("fetch", p) /\ h = Sent(p)
      BY <1>3, <2>3, ConstantFacts DEF Pending
    <3>2. Stands(Files(k), Entry(k), Sent(p))
      BY <2>1, <3>1 DEF Tune
    <3> QED BY <3>1, <3>2 DEF Tune, Stands
  <2> QED BY <2>2, <2>3
<1> HIDE DEF h
<1>5. Leaves(k, Entry(k), h, "fetch", p, tbfsize[k])
  BY <1>1, <1>2, Kept DEF scanVars, Leaves
<1>6. Entry(k) \in Entries /\ rpc[k] # "none"
  BY <1>1, ThreadFacts
<1> QED BY <1>4, <1>5, <1>6, ThreadTunes

\* Main and the alarm touch neither the entries nor what was heard; a thread
\* that is created has nothing in hand.
Untouched ==
    /\ dirs' = dirs /\ channel' = channel /\ list' = list
    /\ heard' = heard /\ sndpack' = sndpack /\ tbfsize' = tbfsize
    /\ \A k \in Threads :
            \/ rpc'[k] = rpc[k] \/ (rpc[k] = "none" /\ rpc'[k] = "fetch")
            \/ rpc'[k] = "blocked"

LEMMA MainTunes == ASSUME IInv, PlayInv, Untouched PROVE PlayInv'
<1> USE DEF Untouched
<1>1. Channels' = Channels
  BY DEF Channels
<1>2. ASSUME NEW k \in Threads \cap DOMAIN list PROVE InTune(k)'
  <2>1. Id(k)' = Id(k) /\ Entry(k)' = Entry(k) /\ Files(k)' = Files(k)
    BY DEF Id, Entry, Files
  <2>2. Tune(Files(k), Entry(k), heard[Id(k)], rpc[k], sndpack[k], tbfsize[k])
    BY DEF PlayInv, InTune
  <2>3. Tune(Files(k), Entry(k), heard[Id(k)], rpc'[k], sndpack[k], tbfsize[k])
    BY <2>2 DEF Tune, Pending
  <2> QED BY <2>1, <2>3 DEF InTune
<1> QED BY <1>1, <1>2 DEF PlayInv

LEMMA CreateTunes == ASSUME IInv, PlayInv, CreateThread PROVE PlayInv'
<1>1. made \in 0 .. Len(list) /\ Len(list) \in Nat
  BY DEF IInv, TypeOK
<1>2. rpc' = [rpc EXCEPT ![made + 1] = "fetch"]
  BY DEF CreateThread
<1>3. ASSUME NEW k \in Threads
      PROVE  rpc'[k] = rpc[k] \/ (rpc[k] = "none" /\ rpc'[k] = "fetch")
  <2>1. rpc[k] # "none" => k <= made /\ k \in Nat
    BY ConstantFacts DEF IInv, Numbering, Threads
  <2>2. k = made + 1 => rpc[k] = "none"
    BY <1>1, <2>1
  <2>3. rpc \in [Threads -> {"none", "fetch", "read", "return", "send", "blocked"}]
    BY DEF IInv, TypeOK
  <2>4. CASE k = made + 1
    BY <1>2, <2>2, <2>3, <2>4
  <2>5. CASE k # made + 1
    BY <1>2, <2>3, <2>5
  <2> QED BY <2>4, <2>5
<1>4. Untouched
  BY <1>3 DEF CreateThread, Untouched
<1> QED BY <1>4, MainTunes

\* A new channel starts with its first file, and nothing of it was heard.
LEMMA AddTunes == ASSUME IInv, PlayInv, AddChannel PROVE PlayInv'
<1> DEFINE new == [dir |-> at, pos |-> 0, fd |-> FirstFile, offset |-> 0]
           F == dirs[at].files
<1>1. /\ channel' = [id \in Channels \cup {curr_id} |->
                        IF id = curr_id THEN new ELSE channel[id]]
      /\ list' = Append(list, [chnid |-> curr_id, dir |-> at])
      /\ F # <<>> /\ FirstFile # "denied"
      /\ dirs' = dirs /\ made' = made /\ heard' = heard /\ rpc' = rpc
      /\ sndpack' = sndpack /\ tbfsize' = tbfsize
  BY DEF AddChannel, Becomes, threadVars
<1>2. at \in 1 .. Len(dirs) /\ F \in FileLists /\ curr_id \in 1 .. at
  BY LibraryFacts DEF AddChannel, Scans
<1>3. /\ Channels \subseteq 1 .. curr_id - 1
      /\ Channels' = Channels \cup {curr_id}
      /\ curr_id \notin Channels /\ curr_id \in Ids
  <2>1. Channels' = Channels \cup {curr_id}
    BY <1>1 DEF Channels
  <2>2. EntriesKept'
    BY AddPreserves DEF IInv
  <2>3. curr_id \in Ids
    BY <2>1, <2>2 DEF EntriesKept, Ids
  <2> QED BY <1>2, <2>1, <2>3 DEF IInv, Numbering, MINCHNID
<1>4. PICK n \in Nat : n = Len(list) + 1
  BY DEF IInv, TypeOK
<1>5. /\ DOMAIN list = 1 .. n - 1 /\ DOMAIN list' = 1 .. n
      /\ \A k \in DOMAIN list : list'[k] = list[k]
      /\ list'[n] = [chnid |-> curr_id, dir |-> at]
  <2>1. list \in Seq(Listed) /\ [chnid |-> curr_id, dir |-> at] \in Listed
    BY <1>2, LibraryFacts DEF IInv, TypeOK, Listed
  <2> QED BY <1>1, <1>4, <2>1
<1>6. ASSUME NEW k \in Threads \cap DOMAIN list PROVE InTune(k)'
  <2>1. Id(k)' = Id(k) /\ Id(k) \in Channels
    BY <1>5, ListedFacts DEF Id
  <2>2. Entry(k)' = Entry(k)
    BY <1>1, <1>3, <2>1 DEF Entry
  <2>3. Files(k)' = Files(k)
    BY <1>1, <2>2 DEF Files
  <2> QED BY <1>1, <2>1, <2>2, <2>3 DEF PlayInv, InTune
<1>7. ASSUME n \in Threads PROVE InTune(n)'
  <2>1. Id(n)' = curr_id
    BY <1>5 DEF Id
  <2>2. Entry(n)' = new
    BY <1>1, <2>1 DEF Entry
  <2>3. Files(n)' = F
    BY <1>1, <2>2 DEF Files
  <2>4. heard[curr_id] = [song |-> 0, upto |-> 0]
    BY <1>3 DEF PlayInv
  <2>5. rpc[n] = "none"
    <3>1. made \in 0 .. n - 1
      BY <1>4 DEF IInv, TypeOK
    <3> QED BY <1>7, <3>1 DEF IInv, Numbering
  <2>6. Len(F) \in Nat /\ 0 < Len(F) /\ F[1] \in FileKinds
    BY <1>1, <1>2 DEF FileLists
  <2>7. new.fd = F[1] /\ new.pos = 0 /\ new.offset = 0 /\ F[1] # "denied"
    BY <1>1 DEF FirstFile
  <2> HIDE DEF new, F
  <2>8. PICK h : h = [song |-> 0, upto |-> 0]
    OBVIOUS
  <2>9. Stands(F, new, h)
    <3>1. h.song \in 0 .. Len(F) - 1 /\ h.song = 0 /\ h.upto = 0
      BY <2>6, <2>8
    <3>2. CASE F[1] = "song"
      BY <2>7, <3>1, <3>2 DEF Stands, Inside
    <3>3. CASE F[1] # "song"
      <4>1. Silent(F, 0) /\ new.fd \in {"empty", "folder"}
        BY <2>6, <2>7, <3>3 DEF Silent, FileKinds
      <4> QED BY <2>7, <3>1, <4>1 DEF Stands, Passing, Over
    <3> QED BY <3>2, <3>3
  <2>10. Tune(F, new, h, rpc[n], sndpack[n], tbfsize[n])
    BY <2>5, <2>6, <2>8, <2>9 DEF Tune, Pending
  <2>11. Tune(F, new, heard[curr_id], rpc[n], sndpack[n], tbfsize[n])
    BY <2>4, <2>8, <2>10
  <2> QED BY <1>1, <2>1, <2>2, <2>3, <2>11 DEF InTune
<1>8. \A k \in Threads \cap DOMAIN list' : k \in DOMAIN list \/ k = n
  BY <1>5
<1>9. \A k \in Threads \cap DOMAIN list' : InTune(k)'
  BY <1>6, <1>7, <1>8
<1>10. \A id \in Ids \ Channels' : heard'[id] = [song |-> 0, upto |-> 0]
  BY <1>1, <1>3 DEF PlayInv
<1> QED BY <1>9, <1>10 DEF PlayInv, Ids, MINCHNID, MAXCHNID

\* Removing a file thins out its directory and leaves the others alone.
LEMMA RemoveThins ==
    ASSUME IInv, NEW d \in 1 .. Len(dirs), NEW i \in 1 .. Len(dirs[d].files),
           Remove(d, i)
    PROVE  /\ dirs'[d].files = [dirs[d].files EXCEPT ![i] = "denied"]
           /\ \A c \in DOMAIN dirs : c # d => dirs'[c].files = dirs[c].files
           /\ \A c \in DOMAIN dirs : Thinned(dirs[c].files, dirs'[c].files)
<1>1. dirs' = [dirs EXCEPT ![d].files[i] = "denied"]
  BY DEF Remove
<1>2. /\ dirs \in Seq(Directories) /\ DOMAIN dirs = 1 .. Len(dirs)
      /\ \A c \in DOMAIN dirs : dirs[c].files \in FileLists
      /\ dirs[d] \in Directories
  BY LibraryFacts DEF IInv, TypeOK
<1> DEFINE fs == [dirs[d].files EXCEPT ![i] = "denied"]
           dir == [desc |-> dirs[d].desc, files |-> fs]
<1>3. dirs' = [dirs EXCEPT ![d] = dir]
  <2>1. dirs' = [dirs EXCEPT ![d] = [dirs[d] EXCEPT !.files[i] = "denied"]]
    BY <1>1
  <2>2. [dirs[d] EXCEPT !.files[i] = "denied"] = [dirs[d] EXCEPT !.files = fs]
    OBVIOUS
  <2>3. dirs[d] = [desc |-> dirs[d].desc, files |-> dirs[d].files]
    BY <1>2 DEF Directories
  <2>4. [dirs[d] EXCEPT !.files = fs] = dir
    BY <2>3
  <2> QED BY <2>1, <2>2, <2>4
<1>4. Thinned(dirs[d].files, fs)
  <2>1. dirs[d].files \in FileLists
    BY <1>2
  <2> QED BY <2>1 DEF FileLists, FileKinds, Thinned
<1> HIDE DEF fs
<1>5. dirs'[d].files = fs /\ \A c \in DOMAIN dirs : c # d => dirs'[c] = dirs[c]
  BY <1>2, <1>3
<1>6. \A c \in DOMAIN dirs : Thinned(dirs[c].files, dirs[c].files)
  BY <1>2 DEF Thinned
<1> QED BY <1>4, <1>5, <1>6 DEF fs

LEMMA RemoveTunes ==
    ASSUME IInv, PlayInv, NEW d \in 1 .. Len(dirs),
           NEW i \in 1 .. Len(dirs[d].files), Remove(d, i)
    PROVE  PlayInv'
<1>1. UNCHANGED <<scanVars, channel, threadVars>>
  BY DEF Remove
<1>2. /\ channel' = channel /\ list' = list /\ heard' = heard /\ rpc' = rpc
      /\ sndpack' = sndpack /\ tbfsize' = tbfsize /\ Channels' = Channels
  BY <1>1 DEF scanVars, threadVars, Channels
<1>3. ASSUME NEW k \in Threads \cap DOMAIN list PROVE InTune(k)'
  <2> DEFINE h == heard[Id(k)]
             p == sndpack[k]
             n == tbfsize[k]
  <2>1. Id(k)' = Id(k) /\ Entry(k)' = Entry(k)
    BY <1>2 DEF Id, Entry
  <2>2. /\ Entry(k) \in Entries /\ Entry(k).dir \in DOMAIN dirs
        /\ Entry(k).pos < Len(Files(k)) /\ Files(k) \in FileLists
    BY ListedFacts
  <2>3. Thinned(Files(k), Files(k)')
    BY <2>1, <2>2, RemoveThins DEF Files
  <2>4. Tune(Files(k), Entry(k), h, rpc[k], p, n)
    BY DEF PlayInv, InTune
  <2> HIDE DEF h, p, n
  <2>5. PICK G : G = Files(k)'
    OBVIOUS
  <2>6. Len(G) = Len(Files(k)) /\ Entry(k).pos \in Spots(Files(k))
    BY <2>2, <2>3, <2>5 DEF Thinned, Spots, Entries, FileLists
  <2>7. h.song \in 0 .. Len(G) - 1 /\ h.song \in Spots(Files(k))
    BY <2>4, <2>6 DEF Tune, Spots
  <2>8. Pending(rpc[k], p) => Follows(G, p, h)
    BY <2>2, <2>3, <2>4, <2>5, <2>7, FollowsStays DEF Tune
  <2>9. rpc[k] # "blocked" =>
            Stands(G, Entry(k), IF Pending(rpc[k], p) THEN Sent(p) ELSE h)
    BY <2>2, <2>3, <2>4, <2>5, <2>6, StandsStays DEF Tune
  <2>10. Tune(G, Entry(k), h, rpc[k], p, n)
    BY <2>4, <2>7, <2>8, <2>9 DEF Tune
  <2> QED BY <1>2, <2>1, <2>5, <2>10 DEF InTune, h, p, n
<1> QED BY <1>2, <1>3 DEF PlayInv

LEMMA InitTunes == Init => PlayInv
<1> SUFFICES ASSUME Init PROVE PlayInv
  OBVIOUS
<1>1. DOMAIN list = {} /\ \A id \in Ids : heard[id] = [song |-> 0, upto |-> 0]
  BY DEF Init
<1> QED BY <1>1 DEF PlayInv

LEMMA NextTunes ==
    ASSUME IInv, PlayInv, [Next]_vars PROVE PlayInv'
<1>1. CASE Main
  <2>1. CASE CreateThread
    BY <2>1, CreateTunes
  <2>2. CASE AddChannel
    BY <2>2, AddTunes
  <2>3. CASE \/ StartScan \/ SkipDirectory \/ NoBucket
             \/ DropDirectory \/ Overrun \/ ScanEnds \/ AllCreated
    <3>1. Untouched
      BY <2>3 DEF StartScan, SkipDirectory, NoBucket, DropDirectory, Overrun,
         ScanEnds, AllCreated, Stop, threadVars, Untouched
    <3> QED BY <3>1, MainTunes
  <2> QED BY <1>1, <2>1, <2>2, <2>3 DEF Main
<1>2. ASSUME NEW k \in Threads, ThreadStep(k) PROVE PlayInv'
  BY <1>2, FetchTunes, ReadSongTunes, ReadEndTunes, ReadErrorTunes,
     GiveBackTunes, SendTunes DEF ThreadStep
<1>3. ASSUME NEW how, Stop(how) PROVE PlayInv'
  <2>1. Untouched
    BY <1>3 DEF Stop, threadVars, Untouched
  <2> QED BY <2>1, MainTunes
<1>4. CASE Tick
  <2>1. Untouched
    BY <1>4 DEF Tick, scanVars, Untouched
  <2> QED BY <2>1, MainTunes
<1>5. ASSUME NEW d \in 1 .. Len(dirs), NEW i \in 1 .. Len(dirs[d].files),
             Remove(d, i) PROVE PlayInv'
  BY <1>5, RemoveTunes
<1>6. CASE UNCHANGED vars
  <2>1. Untouched
    BY <1>6 DEF vars, Untouched
  <2> QED BY <2>1, MainTunes
<1>7. ASSUME NEW k \in Threads, AlarmBlocks(k) PROVE PlayInv'
  <2>1. /\ rpc' = [rpc EXCEPT ![k] = "blocked"]
        /\ UNCHANGED <<dirs, channel, list, heard, sndpack, tbfsize>>
    BY <1>7 DEF AlarmBlocks, Goto, scanVars
  <2>2. Untouched
    BY <2>1 DEF Untouched, IInv, TypeOK
  <2> QED BY <2>2, MainTunes
<1> QED BY <1>1, <1>2, <1>3, <1>4, <1>5, <1>6, <1>7
        DEF Next, CreateFails, OpenCrashes, SendFails, AlarmBlocksMain

-----------------------------------------------------------------------------
\* A packet that may be heard next is the next of the playlist.
LEMMA SendIsPlay ==
    ASSUME IInv, PlayInv, NEW k \in Threads, Send(k), NEW id \in Channels
    PROVE  [PL(id)!Next]_(PL(id)!vars)
<1> DEFINE p == sndpack[k]
           h == heard[id]
           F == dirs[channel[id].dir].files
<1>1. /\ rpc[k] = "send" /\ dirs' = dirs /\ channel' = channel
      /\ heard' = IF p.len = 0 THEN heard ELSE [heard EXCEPT ![Id(k)] = Sent(p)]
  BY DEF Send, Runs, Sent
<1>2. DOMAIN heard = Ids /\ h \in [song : Nat, upto : Nat] /\ p \in Packets
  BY DEF IInv, TypeOK, EntriesKept
<1>3. CASE id # Id(k) \/ p.len = 0
  BY <1>1, <1>2, <1>3 DEF PL!vars
<1>4. CASE id = Id(k) /\ p.len # 0
  <2>1. heard'[id] = Sent(p)
    BY <1>1, <1>2, <1>4, ThreadFacts
  <2>2. Follows(F, p, h)
    <3>1. Tune(Files(k), Entry(k), h, "send", p, tbfsize[k])
      BY <1>1, <1>4, OwnTune
    <3>2. p.len \in 0 .. MaxData
      BY <1>2 DEF Packets
    <3>3. Pending("send", p)
      BY <1>4, <3>2, ConstantFacts DEF Pending
    <3> QED BY <1>4, <3>1, <3>3 DEF Tune, Files, Entry
  <2>3. p.len \in 1 .. SongLen /\ p.song \in 0 .. Len(F) - 1
        /\ p.from \in Nat /\ p.song \in Nat
    BY <1>2, <1>4, <2>2, ConstantFacts DEF Follows, Packets
  <2>4. CASE p.song = h.song /\ p.from = h.upto
    <3>1. [h EXCEPT !.upto = h.upto + p.len] = Sent(p)
      BY <1>2, <2>4 DEF Sent
    <3>2. h.upto + p.len <= SongLen
      BY <2>2, <2>4 DEF Follows
    <3>3. PL(id)!Continue(p.len)
      BY <1>1, <2>1, <3>1, <3>2 DEF PL!Continue
    <3> QED BY <2>3, <3>3 DEF PL!Next
  <2>5. CASE p.from = 0 /\ Over(F, h) /\ Skips(F, h.song, p.song)
    <3>1. heard'[id] = [song |-> p.song, upto |-> p.len]
      BY <2>1, <2>3, <2>5 DEF Sent
    <3>2. PL(id)!Advance(p.song, p.len)
      BY <1>1, <2>5, <3>1
         DEF PL!Advance, PL!Between, PL!Playable, Over, Skips, Gap, Silent
    <3> QED BY <2>3, <3>2 DEF PL!Next
  <2> QED BY <2>2, <2>4, <2>5 DEF Follows
<1> QED BY <1>3, <1>4

\* Every step of the server is one of each playlist, or stutters.
LEMMA PlaylistSimulation ==
    ASSUME IInv, PlayInv, [Next]_vars, NEW id \in Channels
    PROVE  [PL(id)!Next]_(PL(id)!vars)
<1>1. /\ channel \in [Channels -> Entries] /\ channel[id].dir \in DOMAIN dirs
  BY DEF IInv, TypeOK
<1>2. ASSUME dirs' = dirs, heard' = heard, channel'[id].dir = channel[id].dir
      PROVE  PL(id)!vars' = PL(id)!vars
  BY <1>2 DEF PL!vars
<1>3. CASE AddChannel
  <2>1. id # curr_id
    BY LibraryFacts DEF IInv, Numbering, MINCHNID
  <2>2. channel'[id] = channel[id] /\ dirs' = dirs /\ heard' = heard
    BY <1>3, <2>1 DEF AddChannel, threadVars
  <2> QED BY <1>2, <2>2
<1>4. CASE Main /\ ~AddChannel
  BY <1>2, <1>4 DEF Main, CreateThread, StartScan, SkipDirectory, NoBucket,
     DropDirectory, Overrun, ScanEnds, AllCreated, Stop, threadVars
<1>5. ASSUME NEW k \in Threads, ThreadStep(k), ~Send(k)
      PROVE  [PL(id)!Next]_(PL(id)!vars)
  <2>1. dirs' = dirs /\ heard' = heard /\ rpc[k] # "none"
    BY <1>5 DEF ThreadStep, Fetch, ReadSong, ReadEnd, ReadError, GiveBack,
       threadVars, Runs
  <2>2. Id(k) \in Channels /\ channel[Id(k)] = Entry(k)
    BY <2>1, ThreadFacts DEF Entry
  <2>3. CASE channel' = channel
    BY <1>2, <2>1, <2>3
  <2>4. CASE ReadSong(k)
    <3>1. channel' = [channel EXCEPT ![Id(k)].offset = @ + Data(k)]
      BY <2>4 DEF ReadSong
    <3>2. channel'[id].dir = channel[id].dir
      BY <1>1, <3>1 DEF Entries
    <3> QED BY <1>2, <2>1, <3>2
  <2>5. CASE ReadEnd(k) \/ ReadError(k)
    <3>1. PICK e \in OpenNext(k) : channel' = [channel EXCEPT ![Id(k)] = e]
      BY <2>5 DEF ReadEnd, ReadError
    <3>2. e.dir = channel[Id(k)].dir
      BY <2>1, <2>2, OpenNextFacts
    <3>3. channel'[id].dir = channel[id].dir
      BY <1>1, <3>1, <3>2
    <3> QED BY <1>2, <2>1, <3>3
  <2> QED BY <1>5, <2>3, <2>4, <2>5 DEF ThreadStep, Fetch, GiveBack
<1>6. ASSUME NEW how, Stop(how) PROVE PL(id)!vars' = PL(id)!vars
  BY <1>2, <1>6 DEF Stop, threadVars
<1>7. CASE Tick
  BY <1>2, <1>7 DEF Tick
<1>8. ASSUME NEW d \in 1 .. Len(dirs), NEW i \in 1 .. Len(dirs[d].files),
             Remove(d, i)
      PROVE  [PL(id)!Next]_(PL(id)!vars)
  <2>1. channel' = channel /\ heard' = heard
    BY <1>8 DEF Remove, threadVars
  <2>2. CASE channel[id].dir = d
    <3>1. PICK x \in 0 .. Len(dirs[d].files) - 1 : x = i - 1 /\ x + 1 = i
      BY LibraryFacts DEF FileLists
    <3>2. dirs'[d].files = [dirs[d].files EXCEPT ![x + 1] = "denied"]
      BY <1>8, <3>1, RemoveThins
    <3>3. PL(id)!Remove(x)
      BY <2>1, <2>2, <3>2 DEF PL!Remove
    <3> QED BY <2>2, <3>3 DEF PL!Next
  <2>3. CASE channel[id].dir # d
    <3>1. dirs'[channel[id].dir].files = dirs[channel[id].dir].files
      BY <1>1, <1>8, <2>3, RemoveThins
    <3> QED BY <2>1, <3>1 DEF PL!vars
  <2> QED BY <2>2, <2>3
<1>9. CASE UNCHANGED vars
  BY <1>2, <1>9 DEF vars
<1>10. ASSUME NEW k \in Threads, AlarmBlocks(k)
       PROVE  PL(id)!vars' = PL(id)!vars
  BY <1>2, <1>10 DEF AlarmBlocks
<1> QED BY <1>3, <1>4, <1>5, <1>6, <1>7, <1>8, <1>9, <1>10, SendIsPlay
        DEF Next, CreateFails, OpenCrashes, SendFails, AlarmBlocksMain

\* What is sent on a channel is a playlist, for any media library that does not
\* overrun the table and whatever files are removed or cannot be opened or read:
\* no gap inside a song, songs in order, none skipped that could be played.
THEOREM ChannelsArePlaylists == Spec => ImplementsPlaylist
<1>1. Spec => []PlayInv
  <2>1. Init => PlayInv
    BY InitTunes
  <2>2. IInv /\ PlayInv /\ [Next]_vars => PlayInv'
    BY NextTunes
  <2> QED BY <2>1, <2>2, Invariance, PTL DEF Spec
<1>2. IInv /\ PlayInv /\ [Next]_vars
      => [\A id \in Channels : [PL(id)!Next]_(PL(id)!vars)]_vars
  BY PlaylistSimulation
<1> QED BY <1>1, <1>2, Invariance, PTL DEF Spec, ImplementsPlaylist

-----------------------------------------------------------------------------
\* The buckets.  No thread holds more than a bucket does, none before it runs,
\* and a bucket is empty until its channel is made.
HandsInv ==
    /\ \A k \in Threads : spent[k] <= Burst /\ (rpc[k] = "none" => spent[k] = 0)
    /\ \A id \in Ids \ Channels : level[id] = 0

Got(id) == [k \in Threads |-> Held(k, id)]

LEMMA StillHeld ==
    ASSUME UNCHANGED <<level, spent, rpc, list, channel>>, HandsInv
    PROVE  /\ HandsInv'
           /\ \A id \in Ids : TB(id)!vars' = TB(id)!vars
<1>1. HandsInv'
  BY DEF HandsInv, Channels
<1>2. \A id \in Ids : level'[id] = level[id] /\ Got(id)' = Got(id)
  BY DEF Got, Held, Id
<1> QED BY <1>1, <1>2 DEF TB!vars, Got

Moves(id, k, l, n) ==
    IF id # Id(k) THEN TB(id)!vars' = TB(id)!vars
    ELSE /\ level'[id] = l
         /\ Got(id)' = [Got(id) EXCEPT ![k] = n]
         /\ Got(id)[k] = spent[k]

\* What a thread holds when a step of it leaves n in its hands and l in the
\* bucket of its channel: the other buckets are left alone.
LEMMA ThreadHolds ==
    ASSUME IInv, HandsInv, NEW k \in Threads, rpc[k] # "none",
           NEW l \in 0 .. Burst, NEW n \in 0 .. Burst,
           level' = [level EXCEPT ![Id(k)] = l],
           spent' = [spent EXCEPT ![k] = n],
           list' = list, channel' = channel,
           \A m \in Threads : rpc'[m] = "none" => rpc[m] = "none" /\ m # k
    PROVE  /\ HandsInv'
           /\ \A id \in Ids : Moves(id, k, l, n)
<1>1. /\ level \in [Ids -> 0 .. Burst] /\ spent \in [Threads -> 0 .. MaxData]
      /\ k \in DOMAIN list /\ Id(k) \in Channels /\ Id(k) \in Ids
  BY ThreadFacts DEF IInv, TypeOK
<1>2. /\ spent'[k] = n
      /\ \A m \in Threads : m # k => spent'[m] = spent[m]
      /\ level'[Id(k)] = l
      /\ \A id \in Ids : id # Id(k) => level'[id] = level[id]
  BY <1>1
<1>3. HandsInv'
  <2>1. ASSUME NEW m \in Threads
        PROVE  spent'[m] <= Burst /\ (rpc'[m] = "none" => spent'[m] = 0)
    <3>1. CASE m = k
      BY <1>2, <3>1, ConstantFacts
    <3>2. CASE m # k
      BY <1>2, <3>2 DEF HandsInv
    <3> QED BY <3>1, <3>2
  <2>2. ASSUME NEW id \in Ids, id \notin Channels
        PROVE  level'[id] = 0
    BY <1>1, <1>2, <2>2 DEF HandsInv
  <2> QED BY <2>1, <2>2 DEF HandsInv, Channels
<1>4. ASSUME NEW m \in Threads, NEW id \in Ids, m # k \/ id # Id(k)
      PROVE  Held(m, id)' = Held(m, id)
  <2>1. CASE m = k
    BY <1>4, <2>1 DEF Held, Id
  <2>2. CASE m # k
    BY <1>2, <2>2 DEF Held, Id
  <2> QED BY <2>1, <2>2
<1>5. ASSUME NEW i \in Ids, i # Id(k) PROVE TB(i)!vars' = TB(i)!vars
  <2>1. Got(i)' = Got(i)
    BY <1>4, <1>5 DEF Got
  <2> QED BY <1>2, <1>5, <2>1 DEF TB!vars, Got
<1>6. Held(k, Id(k)) = spent[k] /\ Held(k, Id(k))' = n
  BY <1>1, <1>2 DEF Held, Id
<1>7. Id(k)' = Id(k)
  BY DEF Id
<1>8. ASSUME NEW i \in Ids, i = Id(k)
      PROVE  /\ Got(i)' = [Got(i) EXCEPT ![k] = n]
             /\ Got(i)[k] = spent[k]
  <2>1. \A m \in Threads : Held(m, i)' = IF m = k THEN n ELSE Held(m, i)
    BY <1>4, <1>6, <1>7, <1>8
  <2> QED BY <1>6, <1>8, <2>1 DEF Got
<1> QED BY <1>2, <1>3, <1>5, <1>8 DEF Moves

LEMMA FetchUses ==
    ASSUME IInv, HandsInv, NEW k \in Threads, Fetch(k), NEW id \in Ids
    PROVE  HandsInv' /\ [TB(id)!Next]_(TB(id)!vars)
<1> DEFINE n == Smaller(level[Id(k)], MaxData)
<1>1. /\ rpc[k] = "fetch" /\ level[Id(k)] > 0
      /\ level' = [level EXCEPT ![Id(k)] = level[Id(k)] - n]
      /\ spent' = [spent EXCEPT ![k] = n]
      /\ rpc' = [rpc EXCEPT ![k] = "read"] /\ list' = list /\ channel' = channel
  BY DEF Fetch, Runs, Goto, scanVars
<1>2. level[Id(k)] \in 0 .. Burst
  BY <1>1, ThreadFacts DEF IInv, TypeOK
<1>3. n \in 0 .. Burst /\ level[Id(k)] - n \in 0 .. Burst
  BY <1>2, ConstantFacts DEF Smaller
<1> HIDE DEF n
<1>4. PICK l \in 0 .. Burst : l = level[Id(k)] - n
  BY <1>3
<1>5. \A m \in Threads : rpc'[m] = "none" => rpc[m] = "none" /\ m # k
  BY <1>1 DEF IInv, TypeOK
<1>6. HandsInv' /\ Moves(id, k, l, n)
  BY <1>1, <1>3, <1>4, <1>5, ThreadHolds
<1>7. id = Id(k) => TB(id)!Take(k, MaxData)
  BY <1>1, <1>4, <1>6 DEF TB!Take, TB!Smaller, Smaller, n, Got, Moves
<1> QED BY <1>6, <1>7 DEF TB!Next, Moves

LEMMA GiveBackUses ==
    ASSUME IInv, HandsInv, NEW k \in Threads, GiveBack(k), NEW id \in Ids
    PROVE  HandsInv' /\ [TB(id)!Next]_(TB(id)!vars)
<1>1. /\ rpc[k] = "return"
      /\ level' = [level EXCEPT ![Id(k)] =
                        Smaller(level[Id(k)] + Unused(k), Burst)]
      /\ spent' = [spent EXCEPT ![k] = spent[k] - Unused(k)]
      /\ rpc' = [rpc EXCEPT ![k] = "send"] /\ list' = list /\ channel' = channel
  BY DEF GiveBack, Runs, Goto, scanVars
<1>2. level[Id(k)] \in 0 .. Burst
  BY <1>1, ThreadFacts DEF IInv, TypeOK
<1>3. /\ tbfsize[k] \in 0 .. MaxData /\ sndpack[k].len \in 0 .. MaxData
      /\ sndpack[k].len <= tbfsize[k] /\ spent[k] = tbfsize[k]
      /\ spent[k] <= Burst
  BY <1>1 DEF IInv, TypeOK, Paying, Packets, HandsInv
<1>4. PICK u \in 0 .. Burst : u = Unused(k) /\ u <= spent[k]
  BY <1>3, ConstantFacts DEF Unused
<1>5. PICK n \in 0 .. Burst : n = spent[k] - u
  BY <1>3, <1>4, ConstantFacts
<1>6. PICK l \in 0 .. Burst : l = Smaller(level[Id(k)] + u, Burst)
  BY <1>2, <1>4, ConstantFacts DEF Smaller
<1>7. \A m \in Threads : rpc'[m] = "none" => rpc[m] = "none" /\ m # k
  BY <1>1 DEF IInv, TypeOK
<1>8. HandsInv' /\ Moves(id, k, l, n)
  BY <1>1, <1>4, <1>5, <1>6, <1>7, ThreadHolds
<1>9. CASE id = Id(k) /\ u # 0
  <2>1. /\ u <= Got(id)[k]
        /\ Got(id)' = [Got(id) EXCEPT ![k] = Got(id)[k] - u]
        /\ level'[id] = IF level[id] + u < Burst THEN level[id] + u ELSE Burst
    BY <1>4, <1>5, <1>6, <1>8, <1>9 DEF Smaller, Moves
  <2>3. TB(id)!GiveBack(k, u)
    BY <2>1 DEF TB!GiveBack, TB!Smaller, Got
  <2>2. u \in 1 .. Burst
    BY <1>4, <1>9, ConstantFacts
  <2> QED BY <1>8, <2>2, <2>3 DEF TB!Next
<1>10. CASE id = Id(k) /\ u = 0
  <2>1. l = level[Id(k)] /\ n = spent[k]
    BY <1>2, <1>3, <1>5, <1>6, <1>10, ConstantFacts DEF Smaller
  <2>2. level'[id] = level[id]
    BY <1>8, <1>10, <2>1 DEF Moves
  <2>3. Got(id)' = [Got(id) EXCEPT ![k] = Got(id)[k]]
    BY <1>8, <1>10, <2>1 DEF Moves
  <2>4. Got(id)' = Got(id)
    BY <2>3 DEF Got
  <2> QED BY <1>8, <2>2, <2>4 DEF TB!vars, Got
<1> QED BY <1>8, <1>9, <1>10 DEF Moves

LEMMA SendUses ==
    ASSUME IInv, HandsInv, NEW k \in Threads, Send(k), NEW id \in Ids
    PROVE  HandsInv' /\ [TB(id)!Next]_(TB(id)!vars)
<1>1. /\ rpc[k] = "send" /\ level' = level
      /\ spent' = [spent EXCEPT ![k] = 0]
      /\ rpc' = [rpc EXCEPT ![k] = "fetch"] /\ list' = list /\ channel' = channel
  BY DEF Send, Runs, Goto, scanVars
<1>2. level \in [Ids -> 0 .. Burst] /\ Id(k) \in Ids
  BY <1>1, ThreadFacts DEF IInv, TypeOK
<1>3. PICK l \in 0 .. Burst : l = level[Id(k)]
  BY <1>2
<1>4. level' = [level EXCEPT ![Id(k)] = l]
  BY <1>1, <1>2, <1>3
<1>5. \A m \in Threads : rpc'[m] = "none" => rpc[m] = "none" /\ m # k
  BY <1>1 DEF IInv, TypeOK
<1>6. HandsInv' /\ Moves(id, k, l, 0)
  <2>1. 0 \in 0 .. Burst /\ rpc[k] # "none"
    BY <1>1, ConstantFacts
  <2> QED BY <1>1, <1>4, <1>5, <2>1, ThreadHolds
<1>7. id = Id(k) => TB(id)!Spend(k)
  BY <1>1, <1>6 DEF TB!Spend, Got, Moves
<1> QED BY <1>6, <1>7 DEF TB!Next, Moves

LEMMA TickUses ==
    ASSUME IInv, HandsInv, Tick, NEW id \in Ids
    PROVE  HandsInv' /\ [TB(id)!Next]_(TB(id)!vars)
<1>1. /\ UNCHANGED <<list, rpc, spent, channel>>
      /\ \A i \in Ids : level'[i] =
            IF i \in Channels THEN Smaller(level[i] + Cps, Burst) ELSE 0
  BY DEF Tick, scanVars
<1>2. HandsInv'
  BY <1>1 DEF HandsInv, Channels
<1>3. Got(id)' = Got(id)
  BY <1>1 DEF Got, Held, Id
<1>4. CASE id \in Channels
  <2>1. TB(id)!Tick
    BY <1>1, <1>3, <1>4 DEF TB!Tick, TB!Smaller, Smaller, Got
  <2> QED BY <1>2, <2>1 DEF TB!Next
<1>5. CASE id \notin Channels
  <2>1. level'[id] = level[id]
    BY <1>1, <1>5 DEF HandsInv
  <2> QED BY <1>2, <1>3, <2>1 DEF TB!vars, Got
<1> QED BY <1>4, <1>5

LEMMA MainUses ==
    ASSUME IInv, HandsInv, Main, NEW id \in Ids
    PROVE  HandsInv' /\ [TB(id)!Next]_(TB(id)!vars)
<1>1. CASE CreateThread
  <2>1. /\ UNCHANGED <<level, spent, list, channel>>
        /\ rpc' = [rpc EXCEPT ![made + 1] = "fetch"]
    BY <1>1 DEF CreateThread
  <2>2. \A k \in Threads : rpc'[k] = "none" => rpc[k] = "none"
    BY <2>1 DEF IInv, TypeOK
  <2>3. HandsInv'
    BY <2>1, <2>2 DEF HandsInv, Channels
  <2>4. Got(id)' = Got(id)
    BY <2>1 DEF Got, Held, Id
  <2> QED BY <2>1, <2>3, <2>4 DEF TB!vars, Got
<1>2. CASE AddChannel
  <2>1. /\ UNCHANGED <<level, spent, rpc>>
        /\ list' = Append(list, [chnid |-> curr_id, dir |-> at])
        /\ DOMAIN channel' = Channels \cup {curr_id}
    BY <1>2 DEF AddChannel, threadVars
  <2>2. HandsInv'
    BY <2>1 DEF HandsInv, Channels
  <2>3. list \in Seq(Listed)
    BY DEF IInv, TypeOK
  <2>4. /\ \A m \in DOMAIN list : m \in DOMAIN list' /\ list'[m] = list[m]
    BY <2>1, <2>3
  <2>5. ASSUME NEW m \in Threads PROVE Held(m, id)' = Held(m, id)
    <3>1. CASE m \in DOMAIN list
      BY <2>1, <2>4, <3>1 DEF Held, Id
    <3>2. CASE m \notin DOMAIN list
      <4>1. spent[m] = 0
        BY <3>2, ThreadFacts DEF HandsInv
      <4> QED BY <2>1, <3>2, <4>1 DEF Held
    <3> QED BY <3>1, <3>2
  <2>6. Got(id)' = Got(id)
    BY <2>5 DEF Got
  <2> QED BY <2>1, <2>2, <2>6 DEF TB!vars, Got
<1>3. CASE StartScan \/ SkipDirectory \/ NoBucket \/ DropDirectory \/ Overrun
           \/ ScanEnds \/ AllCreated
  <2>1. UNCHANGED <<level, spent, rpc, list, channel>>
    BY <1>3 DEF StartScan, SkipDirectory, NoBucket, DropDirectory, Overrun,
       ScanEnds, AllCreated, Stop, threadVars
  <2> QED BY <2>1, StillHeld DEF Channels
<1> QED BY <1>1, <1>2, <1>3 DEF Main

\* The rest of the threads and of the world moves no tokens.
LEMMA OthersUse ==
    ASSUME IInv, HandsInv, NEW id \in Ids,
           \/ CreateFails \/ AlarmBlocksMain \/ UNCHANGED vars
           \/ \E k \in Threads :
                \/ ReadSong(k) \/ ReadEnd(k) \/ ReadError(k)
                \/ OpenCrashes(k) \/ SendFails(k) \/ AlarmBlocks(k)
           \/ \E d \in 1 .. Len(dirs) :
                \E i \in 1 .. Len(dirs[d].files) : Remove(d, i)
    PROVE  HandsInv' /\ [TB(id)!Next]_(TB(id)!vars)
<1>1. UNCHANGED <<level, spent, list>>
  BY DEF CreateFails, AlarmBlocksMain, Stop, ReadSong, ReadEnd, ReadError,
     OpenCrashes, SendFails, AlarmBlocks, Remove, vars, scanVars, threadVars
<1>2. DOMAIN channel' = Channels
  <2>1. channel \in [Channels -> Entries]
    BY DEF IInv, TypeOK
  <2> QED BY <2>1 DEF CreateFails, AlarmBlocksMain, Stop, ReadSong, ReadEnd,
          ReadError, OpenCrashes, SendFails, AlarmBlocks, Remove, vars, Channels
<1>3. \A m \in Threads : rpc'[m] = "none" => rpc[m] = "none"
  <2>1. \/ rpc' = rpc
        \/ \E k \in Threads :
             \E q \in {"return", "blocked"} : rpc' = [rpc EXCEPT ![k] = q]
    BY DEF CreateFails, AlarmBlocksMain, Stop, ReadSong, ReadEnd, ReadError,
       OpenCrashes, SendFails, AlarmBlocks, Remove, vars, scanVars, threadVars, Goto
  <2> QED BY <2>1 DEF IInv, TypeOK
<1>4. HandsInv'
  BY <1>1, <1>2, <1>3 DEF HandsInv, Channels
<1>5. Got(id)' = Got(id) /\ level'[id] = level[id]
  BY <1>1 DEF Got, Held, Id
<1> QED BY <1>4, <1>5 DEF TB!vars, Got

LEMMA StepUses ==
    ASSUME IInv, HandsInv, [Next]_vars, NEW id \in Ids
    PROVE  HandsInv' /\ [TB(id)!Next]_(TB(id)!vars)
<1>1. ASSUME NEW k \in Threads, Fetch(k) \/ GiveBack(k) \/ Send(k)
      PROVE  HandsInv' /\ [TB(id)!Next]_(TB(id)!vars)
  BY <1>1, FetchUses, GiveBackUses, SendUses
<1>2. CASE Tick
  BY <1>2, TickUses
<1>3. CASE Main
  BY <1>3, MainUses
<1> QED BY <1>1, <1>2, <1>3, OthersUse DEF Next, ThreadStep

\* The server uses each of its buckets as TokenBucket allows, which is what the
\* library implements (module MytbfProofs): it takes what it is given, gives
\* back no more than it holds, and spends the rest.
THEOREM BucketsAreUsed == Spec => UsesTokenBucket
<1>1. Init => HandsInv /\ \A id \in Ids : TB(id)!Init
  <2> SUFFICES ASSUME Init PROVE HandsInv /\ \A id \in Ids : TB(id)!Init
    OBVIOUS
  <2>1. \A k \in Threads : spent[k] = 0
    BY DEF Init
  <2>2. HandsInv
    BY <2>1, ConstantFacts DEF Init, HandsInv
  <2>3. \A id \in Ids : level[id] = 0 /\ Got(id) = [k \in Threads |-> 0]
    BY <2>1 DEF Init, Got, Held
  <2> QED BY <2>2, <2>3 DEF TB!Init, Got
<1>2. IInv /\ HandsInv /\ [Next]_vars
      => HandsInv' /\ [\A id \in Ids : [TB(id)!Next]_(TB(id)!vars)]_vars
  <2>1. 1 \in Ids
    BY ConstantFacts DEF Ids, MINCHNID, MAXCHNID
  <2> QED BY <2>1, StepUses
<1>3. Spec => []HandsInv
  BY <1>1, <1>2, Invariance, PTL DEF Spec
<1>4. IInv /\ HandsInv /\ [Next]_vars
      => [\A id \in Ids : [TB(id)!Next]_(TB(id)!vars)]_vars
  BY <1>2
<1> QED BY <1>1, <1>3, <1>4, Invariance, PTL DEF Spec, UsesTokenBucket

-----------------------------------------------------------------------------
\* The rate.  The history only watches.
LEMMA LedgerWatches == [LNext]_lvars => [Next]_vars
BY DEF LNext, lvars, LSend, LTick, Unrecorded, Next, ThreadStep

LEMMA RateConstants ==
    /\ Watched \in Ids /\ Watched \in Nat
    /\ InHand \in Nat /\ InHand <= Burst /\ InHand <= MaxData
    /\ \A n \in 0 .. Burst : Smaller(n, MaxData) \in 0 .. InHand
BY ConstantFacts, WatchedAssumption
   DEF InHand, Smaller, Ids, MINCHNID, MAXCHNID

Sum(k) == peak + level[Watched] + InHands(k)
Most == Burst + InHand

\* The numbers of a state.
LEMMA Amounts ==
    ASSUME IInv, SentBalance, NEW k \in Threads
    PROVE  /\ peak \in Nat /\ level[Watched] \in 0 .. Burst
           /\ spent[k] \in 0 .. InHand
           /\ peak + level[Watched] <= Most
           /\ rpc[k] # "none" => Sum(k) <= Most
           /\ Most \in Nat
BY RateConstants, ConstantFacts DEF IInv, TypeOK, SentBalance, Sum, Most

\* Two threads that run are not of one channel.
LEMMA OneOfChannel ==
    ASSUME IInv, NEW k \in Threads, NEW m \in Threads, rpc[k] # "none",
           rpc[m] # "none", Id(k) = Id(m)
    PROVE  k = m
BY ThreadFacts DEF IInv, EntriesKept

\* A step of thread k that leaves l in the bucket of its channel, n in its hands
\* and p in the history: it suffices to look at that channel.
LEMMA ThreadRates ==
    ASSUME IInv, SentBalance, NEW k \in Threads, rpc[k] # "none",
           NEW l \in 0 .. Burst, NEW n \in 0 .. InHand, NEW p \in Nat,
           level' = [level EXCEPT ![Id(k)] = l],
           spent' = [spent EXCEPT ![k] = n],
           list' = list, \A m \in Threads : rpc'[m] = "none" <=> rpc[m] = "none",
           peak' = IF Id(k) = Watched THEN p ELSE peak,
           Id(k) = Watched => p + l + n <= Most
    PROVE  SentBalance'
<1> USE RateConstants, ConstantFacts
<1>1. /\ level \in [Ids -> 0 .. Burst] /\ spent \in [Threads -> 0 .. MaxData]
      /\ Id(k) \in Ids
  BY ThreadFacts DEF IInv, TypeOK
<1>2. peak \in Nat /\ peak' \in Nat
  BY DEF SentBalance
<1>3. level'[Watched] \in 0 .. Burst /\ peak' + level'[Watched] <= Most
  <2>1. CASE Id(k) = Watched
    BY <1>1, <2>1 DEF Most
  <2>2. CASE Id(k) # Watched
    BY <1>1, <2>2 DEF SentBalance, Most
  <2> QED BY <2>1, <2>2
<1>4. ASSUME NEW m \in Threads
      PROVE  /\ spent'[m] <= InHand /\ (rpc'[m] = "none" => spent'[m] = 0)
             /\ rpc'[m] # "none" =>
                    peak' + level'[Watched] + InHands(m)' <= Most
  <2>1. Id(m)' = Id(m)
    BY DEF Id
  <2>2. CASE m = k
    <3>1. spent'[m] = n
      BY <1>1, <2>2
    <3>2. CASE Id(k) = Watched
      BY <1>1, <2>1, <2>2, <3>1, <3>2 DEF InHands
    <3>3. CASE Id(k) # Watched
      <4>1. InHands(m)' = 0
        BY <2>1, <2>2, <3>3 DEF InHands
      <4>2. peak' + level'[Watched] + 0 <= Most
        BY <1>2, <1>3
      <4>3. spent'[m] <= InHand /\ rpc'[m] # "none"
        BY <2>2, <3>1
      <4> QED BY <4>1, <4>2, <4>3
    <3> QED BY <2>2, <3>1, <3>2, <3>3
  <2>3. CASE m # k
    <3>1. spent'[m] = spent[m]
      BY <1>1, <2>3
    <3>2. spent[m] <= InHand /\ (rpc[m] = "none" => spent[m] = 0)
      BY DEF SentBalance
    <3>3. ASSUME rpc[m] # "none"
          PROVE  peak' + level'[Watched] + InHands(m)' <= Most
      <4>1. CASE Id(m) = Watched
        <5>1. Id(k) # Watched
          BY <2>3, <3>3, <4>1, OneOfChannel
        <5>2. peak' = peak /\ level'[Watched] = level[Watched]
          BY <1>1, <5>1
        <5>3. InHands(m)' = InHands(m)
          BY <2>1, <3>1 DEF InHands
        <5> QED BY <3>3, <5>2, <5>3, Amounts DEF Sum
      <4>2. CASE Id(m) # Watched
        BY <1>2, <1>3, <2>1, <4>2 DEF InHands
      <4> QED BY <4>1, <4>2
    <3> QED BY <3>1, <3>2, <3>3
  <2> QED BY <2>2, <2>3
<1> QED BY <1>2, <1>3, <1>4 DEF SentBalance, Most

LEMMA FetchRates ==
    ASSUME IInv, SentBalance, NEW k \in Threads, Fetch(k), peak' = peak
    PROVE  SentBalance'
<1> DEFINE n == Smaller(level[Id(k)], MaxData)
<1>1. /\ rpc[k] = "fetch"
      /\ level' = [level EXCEPT ![Id(k)] = level[Id(k)] - n]
      /\ spent' = [spent EXCEPT ![k] = n]
      /\ rpc' = [rpc EXCEPT ![k] = "read"] /\ list' = list
  BY DEF Fetch, Runs, Goto, scanVars
<1>2. level[Id(k)] \in 0 .. Burst
  BY <1>1, ThreadFacts DEF IInv, TypeOK
<1>3. n \in 0 .. InHand /\ n <= level[Id(k)]
  <2>1. n \in 0 .. InHand
    BY <1>2, RateConstants
  <2>2. n <= level[Id(k)]
    BY <1>2, ConstantFacts DEF Smaller
  <2> QED BY <2>1, <2>2
<1> HIDE DEF n
<1>4. PICK l \in 0 .. Burst : l = level[Id(k)] - n
  BY <1>2, <1>3, RateConstants, ConstantFacts
<1>5. Id(k) = Watched => peak + l + n <= Most
  BY <1>2, <1>3, <1>4, Amounts, ConstantFacts
<1>6. \A m \in Threads : rpc'[m] = "none" <=> rpc[m] = "none"
  BY <1>1 DEF IInv, TypeOK
<1>7. peak \in Nat
  BY DEF SentBalance
<1> QED BY <1>1, <1>3, <1>4, <1>5, <1>6, <1>7, ThreadRates

LEMMA GiveBackRates ==
    ASSUME IInv, SentBalance, NEW k \in Threads, GiveBack(k), peak' = peak
    PROVE  SentBalance'
<1>1. /\ rpc[k] = "return"
      /\ level' = [level EXCEPT ![Id(k)] =
                        Smaller(level[Id(k)] + Unused(k), Burst)]
      /\ spent' = [spent EXCEPT ![k] = spent[k] - Unused(k)]
      /\ rpc' = [rpc EXCEPT ![k] = "send"] /\ list' = list
  BY DEF GiveBack, Runs, Goto, scanVars
<1>2. level[Id(k)] \in 0 .. Burst
  BY <1>1, ThreadFacts DEF IInv, TypeOK
<1>3. /\ tbfsize[k] \in 0 .. MaxData /\ sndpack[k].len \in 0 .. MaxData
      /\ sndpack[k].len <= tbfsize[k] /\ spent[k] = tbfsize[k]
  BY <1>1 DEF IInv, TypeOK, Paying, Packets
<1>4. PICK u \in Nat : u = Unused(k) /\ u <= spent[k]
  BY <1>3, ConstantFacts DEF Unused
<1>5. spent[k] \in 0 .. InHand
  BY Amounts
<1>6. PICK n \in 0 .. InHand : n = spent[k] - u
  BY <1>4, <1>5, RateConstants
<1>7. PICK l \in 0 .. Burst : l = Smaller(level[Id(k)] + u, Burst)
  BY <1>2, <1>4, ConstantFacts DEF Smaller
<1>8. l <= level[Id(k)] + u
  BY <1>2, <1>4, <1>7, ConstantFacts DEF Smaller
<1>9. peak \in Nat
  BY DEF SentBalance
<1>10. ASSUME Id(k) = Watched PROVE peak + l + n <= Most
  <2>1. peak + level[Watched] + spent[k] <= Most
    BY <1>1, <1>10, Amounts DEF Sum, InHands
  <2> QED BY <1>2, <1>4, <1>5, <1>6, <1>8, <1>9, <1>10, <2>1, Amounts
<1>11. \A m \in Threads : rpc'[m] = "none" <=> rpc[m] = "none"
  BY <1>1 DEF IInv, TypeOK
<1> QED BY <1>1, <1>4, <1>6, <1>7, <1>9, <1>10, <1>11, ThreadRates

LEMMA SendRates ==
    ASSUME IInv, SentBalance, NEW k \in Threads, LSend(k)
    PROVE  SentBalance'
<1>1. /\ rpc[k] = "send"
      /\ spent' = [spent EXCEPT ![k] = 0]
      /\ rpc' = [rpc EXCEPT ![k] = "fetch"] /\ list' = list /\ level' = level
      /\ peak' = IF Id(k) = Watched THEN peak + sndpack[k].len ELSE peak
  BY DEF LSend, Send, Runs, Goto, scanVars
<1>2. /\ level \in [Ids -> 0 .. Burst] /\ Id(k) \in Ids
      /\ spent[k] = sndpack[k].len
  BY <1>1, ThreadFacts DEF IInv, TypeOK, Paid
<1>3. PICK l \in 0 .. Burst : l = level[Id(k)]
  BY <1>2
<1>4. level' = [level EXCEPT ![Id(k)] = l]
  BY <1>1, <1>2, <1>3
<1>5. PICK p \in Nat : p = peak + sndpack[k].len
  BY <1>2, Amounts
<1>6. ASSUME Id(k) = Watched PROVE p + l + 0 <= Most
  <2>1. peak + level[Watched] + spent[k] <= Most
    BY <1>1, <1>6, Amounts DEF Sum, InHands
  <2>2. peak \in Nat /\ spent[k] \in Nat /\ Most \in Nat
    BY Amounts
  <2>3. level[Watched] = l /\ l \in Nat /\ p = peak + spent[k]
    BY <1>2, <1>3, <1>5, <1>6, ConstantFacts
  <2> QED BY <2>1, <2>2, <2>3
<1>7. \A m \in Threads : rpc'[m] = "none" <=> rpc[m] = "none"
  BY <1>1 DEF IInv, TypeOK
<1>8. 0 \in 0 .. InHand /\ peak' = IF Id(k) = Watched THEN p ELSE peak
  BY <1>1, <1>5, RateConstants
<1> QED BY <1>1, <1>4, <1>6, <1>7, <1>8, ThreadRates

\* A tick in numbers: q and m are the history and the bucket after it.
LEMMA TickNumbers ==
    ASSUME NEW p \in Nat, NEW l \in 0 .. Burst, NEW m,
           m = Smaller(l + Cps, Burst) \/ m = 0
    PROVE  /\ AtLeast0(p - Cps) \in Nat /\ m \in 0 .. Burst
           /\ \A h \in 0 .. InHand : p + l + h <= Most =>
                AtLeast0(p - Cps) + m + h <= Most
<1>1. Cps \in Nat /\ Burst \in Nat /\ InHand \in Nat /\ Most = Burst + InHand
  BY RateConstants, ConstantFacts DEF Most
<1>2. m \in 0 .. Burst /\ m <= l + Cps
  BY <1>1 DEF Smaller
<1>3. PICK q \in Nat : q = AtLeast0(p - Cps) /\ (q = 0 \/ q = p - Cps)
  BY <1>1 DEF AtLeast0
<1>4. ASSUME NEW h \in 0 .. InHand, p + l + h <= Most PROVE q + m + h <= Most
  BY <1>1, <1>2, <1>3, <1>4
<1> QED BY <1>2, <1>3, <1>4

LEMMA TickRates == ASSUME IInv, SentBalance, LTick PROVE SentBalance'
<1>1. /\ UNCHANGED <<list, rpc, spent>> /\ peak' = AtLeast0(peak - Cps)
      /\ \/ level'[Watched] = Smaller(level[Watched] + Cps, Burst)
         \/ level'[Watched] = 0
  BY RateConstants DEF LTick, Tick, scanVars
<1>2. level[Watched] \in 0 .. Burst /\ peak \in Nat
  BY RateConstants DEF IInv, TypeOK, SentBalance
<1>3. /\ peak' \in Nat /\ level'[Watched] \in 0 .. Burst
      /\ \A h \in 0 .. InHand : peak + level[Watched] + h <= Most =>
            peak' + level'[Watched] + h <= Most
  BY <1>1, <1>2, TickNumbers
<1>4. ASSUME NEW m \in Threads
      PROVE  /\ spent'[m] <= InHand /\ (rpc'[m] = "none" => spent'[m] = 0)
             /\ rpc'[m] # "none" =>
                    peak' + level'[Watched] + InHands(m)' <= Most
  <2>1. spent[m] \in 0 .. InHand /\ InHands(m)' = InHands(m)
    BY <1>1, Amounts DEF InHands, Id
  <2>2. InHands(m) \in 0 .. InHand
    BY <2>1, RateConstants DEF InHands
  <2>3. rpc[m] # "none" => peak + level[Watched] + InHands(m) <= Most
    BY Amounts DEF Sum
  <2>4. rpc[m] # "none" => peak' + level'[Watched] + InHands(m)' <= Most
    BY <1>3, <2>1, <2>2, <2>3
  <2> QED BY <1>1, <2>1, <2>4 DEF SentBalance
<1>5. peak' + level'[Watched] <= Most
  <2>1. peak + level[Watched] + 0 <= Most /\ 0 \in 0 .. InHand
    BY <1>2, RateConstants, ConstantFacts DEF SentBalance, Most
  <2>2. peak' + level'[Watched] + 0 <= Most
    BY <1>3, <2>1
  <2> QED BY <1>3, <2>2, ConstantFacts
<1> QED BY <1>3, <1>4, <1>5 DEF SentBalance, Most

\* A thread that is made has nothing in its hands yet.
LEMMA CreateRates ==
    ASSUME IInv, SentBalance, CreateThread, peak' = peak
    PROVE  SentBalance'
<1>1. /\ rpc' = [rpc EXCEPT ![made + 1] = "fetch"]
      /\ UNCHANGED <<list, level, spent>>
  BY DEF CreateThread
<1>2. ASSUME NEW m \in Threads, rpc[m] = "none" PROVE InHands(m) = 0
  BY <1>2 DEF SentBalance, InHands
<1>3. ASSUME NEW m \in Threads
      PROVE  /\ spent'[m] <= InHand /\ (rpc'[m] = "none" => spent'[m] = 0)
             /\ peak' + level'[Watched] + InHands(m)' <= Most
  <2>1. InHands(m)' = InHands(m) /\ (rpc'[m] = "none" => rpc[m] = "none")
    BY <1>1 DEF InHands, Id, IInv, TypeOK
  <2>2. peak + level[Watched] + InHands(m) <= Most
    BY <1>2, Amounts DEF Sum
  <2> QED BY <1>1, <2>1, <2>2 DEF SentBalance
<1> QED BY <1>1, <1>3 DEF SentBalance, Most

\* No other step moves a token or a packet.
LEMMA OtherRates ==
    ASSUME IInv, SentBalance, peak' = peak, UNCHANGED <<level, spent>>,
           \A m \in Threads : rpc'[m] = "none" <=> rpc[m] = "none",
           \A m \in Threads : rpc[m] # "none" => Id(m)' = Id(m)
    PROVE  SentBalance'
<1>1. \A m \in Threads : rpc[m] # "none" => InHands(m)' = InHands(m)
  BY DEF InHands
<1> QED BY <1>1 DEF SentBalance

LEMMA MainRates ==
    ASSUME IInv, SentBalance, Main \/ CreateFails \/ AlarmBlocksMain, peak' = peak
    PROVE  SentBalance'
<1>1. CASE CreateThread
  BY <1>1, CreateRates
<1>2. CASE AddChannel
  <2>1. UNCHANGED <<level, spent, rpc>> /\ list' = Append(list, [chnid |-> curr_id, dir |-> at])
    BY <1>2 DEF AddChannel, threadVars
  <2>2. list \in Seq(Listed)
    BY DEF IInv, TypeOK
  <2>3. \A m \in DOMAIN list : list'[m] = list[m]
    BY <2>1, <2>2
  <2>4. \A m \in Threads : rpc[m] # "none" => Id(m)' = Id(m)
    BY <2>3, ThreadFacts DEF Id
  <2> QED BY <2>1, <2>4, OtherRates
<1>3. CASE StartScan \/ SkipDirectory \/ NoBucket \/ DropDirectory \/ ScanEnds
           \/ AllCreated \/ Overrun \/ CreateFails \/ AlarmBlocksMain
  <2>1. UNCHANGED <<level, spent, rpc, list>>
    BY <1>3 DEF StartScan, SkipDirectory, NoBucket, DropDirectory, ScanEnds,
       AllCreated, Overrun, CreateFails, AlarmBlocksMain, Stop, threadVars
  <2> QED BY <2>1, OtherRates DEF Id
<1> QED BY <1>1, <1>2, <1>3 DEF Main

LEMMA ReadRates ==
    ASSUME IInv, SentBalance, NEW k \in Threads, peak' = peak,
           \/ ReadSong(k) \/ ReadEnd(k) \/ ReadError(k)
           \/ OpenCrashes(k) \/ SendFails(k) \/ AlarmBlocks(k)
    PROVE  SentBalance'
<1>1. UNCHANGED <<level, spent, list>>
  BY DEF ReadSong, ReadEnd, ReadError, OpenCrashes, SendFails, AlarmBlocks, Stop,
     scanVars, threadVars
<1>2. /\ rpc[k] # "none"
      /\ \/ rpc' = rpc
         \/ \E q \in {"return", "blocked"} : rpc' = [rpc EXCEPT ![k] = q]
  BY DEF ReadSong, ReadEnd, ReadError, OpenCrashes, SendFails, AlarmBlocks, Stop,
     Runs, Goto, threadVars
<1>3. \A m \in Threads : rpc'[m] = "none" <=> rpc[m] = "none"
  BY <1>2 DEF IInv, TypeOK
<1> QED BY <1>1, <1>3, OtherRates DEF Id

LEMMA LedgerStep ==
    ASSUME IInv, SentBalance, [LNext]_lvars PROVE SentBalance'
<1>1. ASSUME NEW k \in Threads, LSend(k) PROVE SentBalance'
  BY <1>1, SendRates
<1>2. CASE LTick
  BY <1>2, TickRates
<1>3. CASE Unrecorded /\ UNCHANGED peak
  <2>1. ASSUME NEW k \in Threads, Fetch(k) \/ GiveBack(k) PROVE SentBalance'
    BY <1>3, <2>1, FetchRates, GiveBackRates
  <2>2. ASSUME NEW k \in Threads, ReadSong(k) \/ ReadEnd(k) \/ ReadError(k)
                                  \/ OpenCrashes(k) \/ SendFails(k) \/ AlarmBlocks(k)
        PROVE  SentBalance'
    BY <1>3, <2>2, ReadRates
  <2>3. ASSUME NEW d \in 1 .. Len(dirs), NEW i \in 1 .. Len(dirs[d].files),
               Remove(d, i)
        PROVE  SentBalance'
    <3>1. UNCHANGED <<level, spent, rpc, list>>
      BY <2>3 DEF Remove, scanVars, threadVars
    <3> QED BY <1>3, <3>1, OtherRates DEF Id
  <2>4. CASE Main \/ CreateFails \/ AlarmBlocksMain
    BY <1>3, <2>4, MainRates
  <2> QED BY <1>3, <2>1, <2>2, <2>3, <2>4 DEF Unrecorded
<1>4. CASE UNCHANGED lvars
  BY <1>4, OtherRates DEF lvars, vars, Id
<1> QED BY <1>1, <1>2, <1>3, <1>4 DEF LNext

\* In any window of time any channel sends at most what its bucket can have
\* saved, a packet paid for before, and what the ticks of the window brought,
\* for any library and whatever happens to its files.
THEOREM ChannelsKeepRate == LSpec => []SentRate
<1> USE RateConstants, ConstantFacts
<1>1. LInit => IInv /\ SentBalance
  <2> SUFFICES ASSUME LInit PROVE SentBalance
    BY InitIInv DEF LInit
  <2>1. /\ peak = 0 /\ level[Watched] = 0
        /\ \A k \in Threads : spent[k] = 0 /\ rpc[k] = "none"
    BY DEF LInit, Init
  <2> QED BY <2>1 DEF SentBalance
<1>2. IInv /\ SentBalance /\ [LNext]_lvars => (IInv /\ SentBalance)'
  BY LedgerWatches, NextPreserves, LedgerStep
<1>3. IInv /\ SentBalance => SentRate
  <2> SUFFICES ASSUME IInv, SentBalance PROVE SentRate
    OBVIOUS
  <2>1. level[Watched] \in 0 .. Burst
    BY DEF IInv, TypeOK
  <2> QED BY <2>1 DEF SentBalance, SentRate
<1> QED BY <1>1, <1>2, <1>3, PTL DEF LSpec

=============================================================================
