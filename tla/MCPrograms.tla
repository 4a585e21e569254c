----------------------------- MODULE MCPrograms -----------------------------
(***************************************************************************)
(* The instances of module Programs: what is typed.                        *)
(***************************************************************************)
EXTENDS Programs

(* Programs name their partners themselves.                                *)
NoWorkload == [p \in Proc |-> {}]

(* The user, the password and the end of the input, and some commands, any *)
(* of which may be typed at any prompt.                                    *)
Background ==
    {<<"cs415", "ENTER">>, <<"EveryonegetsanA", "ENTER">>, <<"C_D">>,
     <<"ex", "ENTER">>, <<"k", " ", "2", "ENTER">>, <<"a", " ", "2", "&", "ENTER">>,
     <<"t", "ENTER">>}

Foreground ==
    {<<"cs415", "ENTER">>, <<"EveryonegetsanA", "ENTER">>, <<"a", " ", "2", "ENTER">>}
=============================================================================
