----------------------------- MODULE RadioLedger ----------------------------
(***************************************************************************)
(* How fast a channel of the net radio sends, from the bucket to the       *)
(* socket.  Radio with history: peak is the most data that the channel     *)
(* Watched, any of them, has sent in a window of time that ends now, less  *)
(* Cps for each tick of the window, over all such windows (an empty one    *)
(* gives 0).                                                               *)
(***************************************************************************)
EXTENDS Radio

CONSTANT Watched

ASSUME WatchedAssumption == Watched \in Ids

VARIABLE peak

lvars == <<vars, peak>>

AtLeast0(n) == IF n > 0 THEN n ELSE 0

LInit == Init /\ peak = 0

LSend(k) ==
    /\ Send(k)
    /\ peak' = IF Id(k) = Watched THEN peak + sndpack[k].len ELSE peak

LTick == Tick /\ peak' = AtLeast0(peak - Cps)

Unrecorded ==
    \/ Main \/ CreateFails
    \/ \E k \in Threads :
        \/ Fetch(k) \/ ReadSong(k) \/ ReadEnd(k) \/ ReadError(k) \/ GiveBack(k)
        \/ OpenCrashes(k) \/ SendFails(k) \/ AlarmBlocks(k)
    \/ AlarmBlocksMain
    \/ \E d \in 1 .. Len(dirs) : \E i \in 1 .. Len(dirs[d].files) : Remove(d, i)

LNext ==
    \/ \E k \in Threads : LSend(k)
    \/ LTick
    \/ Unrecorded /\ UNCHANGED peak

LSpec == LInit /\ [][LNext]_lvars
LFairSpec == LSpec /\ Fairness

-----------------------------------------------------------------------------
\* What the thread of a channel may have in hand while its bucket is filled.
InHand == Smaller(MaxData, Burst)

\* In any window of time a channel sends at most what its bucket can have
\* saved, the packet that was paid for before the window began, and Cps for
\* each tick: however reads are cut short, songs end, files cannot be opened
\* and tokens go back and forth in between.
SentRate == peak <= Burst + InHand

\* The inductive invariant behind it: what the bucket holds, what its thread
\* has in hand and what was sent in any window are no more than that together.
InHands(k) == IF Id(k) = Watched THEN spent[k] ELSE 0
SentBalance ==
    /\ peak \in Nat
    /\ peak + level[Watched] <= Burst + InHand
    /\ \A k \in Threads :
        /\ spent[k] <= InHand
        /\ rpc[k] = "none" => spent[k] = 0
        /\ rpc[k] # "none" =>
                peak + level[Watched] + InHands(k) <= Burst + InHand

=============================================================================
