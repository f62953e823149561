--------------------------- MODULE MCHttpFrontend ---------------------------
(* Texts of one, two and three statements for TLC.                          *)
EXTENDS HttpFrontend

MCTexts == {<<"write">>, <<"insert", "write">>, <<"write", "commit", "write">>}

\* An HTTP client, and a program on the machine.
MCRoutesOf == [web |-> Routes \ Local, shell |-> Local]
=============================================================================
