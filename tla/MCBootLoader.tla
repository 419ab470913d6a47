---------------------------- MODULE MCBootLoader ----------------------------
(***************************************************************************)
(* Instances of BootLoader for TLC: two kernels and one that is too large   *)
(* for the loader, a loader that prints one string or none, and a tty that  *)
(* is empty or holds the end of a dialogue.                                 *)
(***************************************************************************)
EXTENDS BootLoader

SomePrograms == {<<34>>, <<255>>, <<34, 255>>}

\* A text that looks like half a request.
OneText == {<<34, 34>>}

\* The end of a claim and of DONE!!!, and half a request.
SomeStale == {<< >>, <<33, 34, 34>>}
=============================================================================
