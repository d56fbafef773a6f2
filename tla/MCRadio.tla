------------------------------- MODULE MCRadio ------------------------------
(***************************************************************************)
(* Radio for TLC: every channel of up to two files alone, three files, and *)
(* directories that are no channels before, between and after ones that    *)
(* are, more channels than the table has room for, and more directories    *)
(* than there are buckets.                                                 *)
(***************************************************************************)
EXTENDS RadioLedger

Dir(fs) == [desc |-> TRUE, files |-> fs]
NoDesc == [desc |-> FALSE, files |-> <<"song">>]
OneOrTwo == {<<f>> : f \in FileKinds} \cup (FileKinds \X FileKinds)

MCLibraries ==
    {<<>>, <<NoDesc>>, <<Dir(<<>>)>>} \cup
    {<<Dir(fs)>> : fs \in OneOrTwo} \cup
    {<<Dir(<<"song", "folder", "song">>)>>,
     <<Dir(<<"empty", "denied", "song">>)>>,
     <<Dir(<<"song">>), Dir(<<"empty">>)>>,
     <<NoDesc, Dir(<<"song">>), Dir(<<>>)>>,
     <<Dir(<<>>), Dir(<<"song">>)>>,
     <<Dir(<<>>), Dir(<<"denied", "song">>), Dir(<<"song">>)>>,
     <<Dir(<<"song">>), Dir(<<>>), Dir(<<"song">>)>>,
     <<Dir(<<>>), Dir(<<>>), Dir(<<>>), Dir(<<>>)>>}

=============================================================================
