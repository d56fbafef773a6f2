------------------------------ MODULE RadioList -----------------------------
(***************************************************************************)
(* The list of channels of the net radio: server/thr_list.c packs it into  *)
(* one packet, entry after entry, each with its own length, and client.c   *)
(* takes such a packet for the list and walks over it.  Packets are lost   *)
(* and come late.  On the multicast group are the packets of this server.  *)
(*                                                                         *)
(* The client never leaves the loop that reads the choice of a channel but *)
(* by its end: what stands behind the loop is not modelled.                *)
(***************************************************************************)
EXTENDS Integers, Sequences, Program

CONSTANTS
    RadioLists,         \* the lists: sequences of [chnid, desc], where desc is
                        \* the length of the description
    PackMax             \* MSG_LISTPACK_MAX: longer packets cannot be sent

CHNLIST == 0
ChnIdSize == 1          \* sizeof(chnid_t)
InfoSize == 4           \* sizeof(struct msg_listinfo_t), with desc[1]

\* The channels of the media library are numbered from 1 on.
ASSUME ListAssumption == RadioLists \subseteq Seq([chnid : Nat \ {0}, desc : Nat])

VARIABLES
    list_entry,     \* the list
    packer,         \* where thr_list is (at), its i, entryptr and totalsize
    packet,         \* of each offset at which an entry was written: the entry
    radioclient     \* where the client is (at); chnid, what msg_list holds;
                    \* len; pos; shown, the entries it has printed

listVars == <<list_entry, packer, packet, radioclient>>

Written == [chnid : Nat, desc : Nat, len : Nat]
EntrySize(k) == InfoSize + list_entry[k].desc

ListTypeOK ==
    /\ list_entry \in RadioLists \cup {<<>>}
    /\ packer \in [at : {"idle", "size", "pack", "send"}, i : Nat, entryptr : Nat,
                   totalsize : Nat]
    /\ \A o \in DOMAIN packet : packet[o] \in Written
    /\ radioclient \in [at : {"setup", "receive", "walk", "choose", "exit"},
                        chnid : Int, len : Int, pos : Nat, shown : Seq(Written)]

\* What malloc returns holds anything: a CHNLIST, or not (-1).
ListInit ==
    /\ list_entry = <<>>
    /\ packer = [at |-> "idle", i |-> 1, entryptr |-> ChnIdSize,
                 totalsize |-> ChnIdSize]
    /\ packet = <<>>
    /\ radioclient = [at |-> "setup", chnid |-> -1, len |-> 0,
                      pos |-> ChnIdSize, shown |-> <<>>]

-----------------------------------------------------------------------------
\* thr_list_create
ListCreate ==
    /\ program = "radiolist" /\ packer.at = "idle"
    /\ list_entry' \in RadioLists
    /\ packer' = [packer EXCEPT !.at = "size"]
    /\ UNCHANGED <<packet, radioclient>>

\* The first loop of thr_list adds the sizes up.
SumSize ==
    /\ program = "radiolist" /\ packer.at = "size"
    /\ packer' = IF packer.i <= Len(list_entry)
                 THEN [packer EXCEPT !.i = @ + 1,
                                     !.totalsize = @ + EntrySize(packer.i)]
                 ELSE [packer EXCEPT !.i = 1, !.at = "pack"]
    /\ UNCHANGED <<list_entry, packet, radioclient>>

WrittenAt(o, e) ==
    [p \in DOMAIN packet \cup {o} |-> IF p = o THEN e ELSE packet[p]]

EntryOf(k) == [chnid |-> list_entry[k].chnid, desc |-> list_entry[k].desc,
               len |-> EntrySize(k)]

\* mutant: the entry is taken to have no room for the end of its string
PackShort ==
    /\ program = "radiolist" /\ packer.at = "pack" /\ packer.i <= Len(list_entry)
    /\ packet' = WrittenAt(packer.entryptr, EntryOf(packer.i))
    /\ packer' = [packer EXCEPT !.i = @ + 1,
                                !.entryptr = @ + EntrySize(packer.i) - 1]
    /\ UNCHANGED <<list_entry, radioclient>>

\* The second loop writes the entries, one behind the other.
Pack ==
    /\ program = "radiolist" /\ packer.at = "pack" /\ packer.i <= Len(list_entry)
    /\ packet' = WrittenAt(packer.entryptr, EntryOf(packer.i))
    /\ packer' = [packer EXCEPT !.i = @ + 1,
                                !.entryptr = @ + EntrySize(packer.i)]
    /\ UNCHANGED <<list_entry, radioclient>>

\* Once a second, from then on.  A packet that is too long fails each time.
StartSending ==
    /\ program = "radiolist" /\ packer.at = "pack" /\ packer.i > Len(list_entry)
    /\ packer' = [packer EXCEPT !.at = "send"]
    /\ UNCHANGED <<list_entry, packet, radioclient>>

-----------------------------------------------------------------------------
Client(here) == program = "radiolist" /\ radioclient.at = here

\* The socket, the multicast group, the pipe, the player in a child and the
\* memory for the list: each of them may fail.
ClientSetUp ==
    /\ Client("setup")
    /\ \E there \in {"receive", "exit"} :
        radioclient' = [radioclient EXCEPT !.at = there]
    /\ UNCHANGED <<list_entry, packer, packet>>

\* The client starts to walk over what it takes for the list.
Takes(chnid, len) ==
    /\ radioclient' = [radioclient EXCEPT
            !.chnid = chnid, !.len = len,
            !.at = IF chnid = CHNLIST THEN "walk" ELSE "receive"]
    /\ UNCHANGED <<list_entry, packer, packet>>

ReceiveList ==
    /\ Client("receive")
    /\ packer.at = "send" /\ packer.totalsize <= PackMax
    /\ packer.totalsize >= ChnIdSize + InfoSize     \* not too small
    /\ Takes(CHNLIST, packer.totalsize)

\* A packet of a channel, whose identifier is not CHNLIST
ReceiveChannel ==
    /\ Client("receive")
    /\ \E k \in DOMAIN list_entry :
        Takes(list_entry[k].chnid, radioclient.len)

\* recvfrom fails: -1, compared with a size, is a large number.
ReceiveFails ==
    /\ Client("receive")
    /\ \E chnid \in {CHNLIST, -1} :
        /\ radioclient.chnid # -1 => chnid = radioclient.chnid
        /\ Takes(chnid, -1)

\* What the bytes at an offset mean where no entry begins is anybody's guess.
Found(o) == IF o \in DOMAIN packet THEN packet[o]
            ELSE [chnid |-> CHNLIST, desc |-> 0, len |-> 1]

Walk ==
    /\ Client("walk") /\ radioclient.pos < radioclient.len
    /\ LET e == Found(radioclient.pos)
       IN  radioclient' = [radioclient EXCEPT !.pos = @ + e.len,
                                              !.shown = Append(@, e)]
    /\ UNCHANGED <<list_entry, packer, packet>>

WalkEnds ==
    /\ Client("walk") /\ radioclient.pos >= radioclient.len
    /\ radioclient' = [radioclient EXCEPT !.at = "choose"]
    /\ UNCHANGED <<list_entry, packer, packet>>

\* scanf reads numbers for ever.
ChoiceEnds ==
    /\ Client("choose")
    /\ radioclient' = [radioclient EXCEPT !.at = "exit"]
    /\ UNCHANGED <<list_entry, packer, packet>>

ListNext ==
    \/ ListCreate \/ SumSize \/ Pack \/ StartSending
    \/ ClientSetUp \/ ReceiveList \/ ReceiveChannel \/ ReceiveFails
    \/ Walk \/ WalkEnds \/ ChoiceEnds

-----------------------------------------------------------------------------
\* The client shows the channels of the server, all of them and nothing else,
\* in their order, and its walk stays inside the packet and ends: the lengths
\* that the server writes, the steps of its own pointer and the size it
\* allocates agree.  A client whose recvfrom has failed may show none.
ListUnpacked ==
    /\ packer.at \in {"pack", "send"} => packer.entryptr <= packer.totalsize
    /\ radioclient.at = "walk" /\ radioclient.len >= 0 =>
        radioclient.pos <= radioclient.len
    /\ radioclient.at = "choose" =>
        \/ radioclient.shown = [k \in DOMAIN list_entry |-> EntryOf(k)]
        \/ radioclient.len < 0 /\ radioclient.shown = <<>>

=============================================================================
