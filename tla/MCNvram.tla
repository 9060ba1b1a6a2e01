------------------------------- MODULE MCNvram -------------------------------
(***************************************************************************)
(* Banks of two and three cells and an image longer than the longest bank; *)
(* partitions that are full, missing, unknown, malformed or a panic log.   *)
(***************************************************************************)
EXTENDS Nvram

Set(name) == [name |-> name, value |-> <<"c">>]

MCImages == {
    Bank(1, <<Common(<<Set("boot-args")>>, 2)>>),
    Bank(2, <<Common(<<Set("n1"), Set("n2")>>, 2), Part("free")>>),
    Bank(1, <<Common(<<Set("n1")>>, 1), Part("other")>>),
    Bank(1, <<Part("panic"), Common(<<Set("n1"), Set("n1")>>, 2)>>),
    Bank(1, <<Part("other"), Part("free")>>),
    Bank(1, <<Common(<<Set("n2"), Set("n1"), Set("boot-args")>>, 3)>>),
    Bank(1, <<Common(<<Set("n2")>>, 2), Part("bad")>>),
    <<Header(1, <<>>), Common(<<Set("n1")>>, 2)>>,
    Bank(2, <<Common(<<Set("n1"), Set("n2")>>, 2), Part("free")>>) \o <<Part("zero")>>}

=============================================================================
