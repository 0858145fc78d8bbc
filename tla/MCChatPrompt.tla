---------------------------- MODULE MCChatPrompt ----------------------------
(* Constants of the ChatPrompt run.                                         *)
EXTENDS ChatPrompt

\* The name of one chat is the id of another.
MCIds == {<<"a">>, <<"b">>}
MCInvites == {<<"a">>}
MCNameOf == [c \in MCIds |-> IF c = <<"b">> THEN <<"a">> ELSE <<>>]
MCPastes == {<<"a", Newline, Newline, "b">>}
=============================================================================
