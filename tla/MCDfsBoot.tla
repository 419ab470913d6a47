----------------------------- MODULE MCDfsBoot -----------------------------
(***************************************************************************)
(* Instances of DfsBoot for TLC.                                            *)
(***************************************************************************)
EXTENDS DfsBoot

\* Two filesystems whose names differ in their first character.
ApartNames == {<<"a">>, <<"b">>}

\* One filesystem.
OneName == {<<"a">>}

\* The name of the first filesystem is the beginning of the name of the second.
NestedNames == {<<"a">>, <<"a", "b">>}

\* Memory in place of a sector that was not read: zeros, in which nothing is found.
Zeros    == {<< >>}
NoMemory == {}
=============================================================================
