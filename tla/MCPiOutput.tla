----------------------------- MODULE MCPiOutput -----------------------------
(***************************************************************************)
(* Instances of PiOutput for TLC.                                           *)
(***************************************************************************)
EXTENDS PiOutput

\* As in "DONE!!!\n", the first character occurs once.
ShortExit == <<"D", "O", "!">>

\* Nothing; the exit string and text behind it; it begins twice; only its end; its
\* beginning and then chatter; the exit string and then chatter.
SomeScripts ==
    {<< >>, ShortExit \o <<"y">>, <<"D", "O">> \o ShortExit, <<"!">>,
     <<"D", "c">>, ShortExit \o <<"c">>}
=============================================================================
