---------------------------- MODULE MCSharedVault ----------------------------
(***************************************************************************)
(* Both providers' operators of one cluster, one whose prefix holds an     *)
(* underscore, one whose prefix ends in a dot, and objects with other      *)
(* names beside theirs, of which one looks like an account's.              *)
(***************************************************************************)
EXTENDS SharedVault

MCOperators ==
    {[prefix |-> <<"dev">>, provider |-> "aws"],
     [prefix |-> <<"dev">>, provider |-> "gcp"],
     [prefix |-> <<"dev", "aws">>, provider |-> "aws"],
     [prefix |-> <<"dev.">>, provider |-> "aws"]}

MCUnreadable == {"", "dev."}

MCServiceAccounts == {<<"shop", "app">>}

MCForeign == {<<"default">>, <<"prod", "gcp", "shop", "app">>, <<"dev", "gcp", "old", "app">>}
=============================================================================
