------------------------------ MODULE Playlist ------------------------------
(***************************************************************************)
(* What one channel of the net radio promises its listeners, who see       *)
(* nothing but the packets: songs are heard from the first byte to the     *)
(* last without a gap, one after the other in the order of the directory   *)
(* and round again, and a song is skipped only if it cannot be played.     *)
(***************************************************************************)
EXTENDS Integers, Sequences

CONSTANT SongLen        \* packets' worth of data in a song

VARIABLES
    files,      \* files[i]: what file i of the directory holds now
    heard       \* [song, upto]: the song heard last, and how much of it

vars == <<files, heard>>

Playable(i) == files[i + 1] = "song"        \* positions count from 0

Init == heard = [song |-> 0, upto |-> 0]

\* the positions passed over between two songs
Between(i, j) ==
    IF i < j THEN i + 1 .. j - 1
    ELSE (i + 1 .. Len(files) - 1) \cup (0 .. j - 1)

Continue(n) ==
    /\ heard.upto + n <= SongLen
    /\ heard' = [heard EXCEPT !.upto = @ + n]
    /\ UNCHANGED files

Advance(j, n) ==
    /\ heard.upto = SongLen \/ (heard.upto = 0 /\ ~Playable(heard.song))
    /\ \A i \in Between(heard.song, j) : ~Playable(i)
    /\ heard' = [song |-> j, upto |-> n]
    /\ UNCHANGED files

\* a file that is removed does not come back
Remove(i) ==
    /\ files' = [files EXCEPT ![i + 1] = "denied"]
    /\ UNCHANGED heard

Next ==
    \/ \E n \in 1 .. SongLen :
        \/ Continue(n)
        \/ \E j \in 0 .. Len(files) - 1 : Advance(j, n)
    \/ \E i \in 0 .. Len(files) - 1 : Remove(i)

Spec == Init /\ [][Next]_vars

=============================================================================
