---------------------------- MODULE MCWriteKeys ----------------------------
(***************************************************************************)
(* WriteKeys for TLC: any two of three calls for one contract and          *)
(* partition while the partition is flushed twice at once.  Two users ask  *)
(* for the same column.  Two calls, one of them through the Python Writer, *)
(* have names with a separator: column a|b of user u and column a of user  *)
(* b|u join to one cache key.                                              *)
(***************************************************************************)
EXTENDS WriteKeys

Who(user) == [purpose |-> <<"p">>, user |-> user]
J(user, columns, registers) ==
    [root |-> "r", dataset |-> <<"d">>, who |-> Who(user), columns |-> columns, registers |-> registers]
MCDatasets == {<<"d">>}
MCWhos == {Who(user) : user \in {<<"u">>, <<"b", "u">>}}
MCColumns == {<<"a">>, <<"a", "b">>}
MCJobs ==
    {J(<<"u">>, {<<"a">>}, TRUE), J(<<"b", "u">>, {<<"a">>}, TRUE),
     J(<<"u">>, {<<"a", "b">>}, FALSE)}
=============================================================================
