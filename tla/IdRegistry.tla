---------------------------- MODULE IdRegistry -----------------------------
(***************************************************************************)
(* What the boot protocol promises of ids: a disk joins a filesystem once,  *)
(* keeps the id it joined with for ever, and joins with an id no other disk *)
(* of that filesystem holds, until the record of the ids given out is lost. *)
(* Of a disk whose own record was overwritten nothing is promised.          *)
(***************************************************************************)
CONSTANTS Disks, FsNames, Ids, None

VARIABLES
    holds, \* the id of each disk in each filesystem it is part of
    lost,  \* the filesystems whose record is lost, or whose ids have run out
    broken \* the disks that lost what they held

vars == <<holds, lost, broken>>

Init ==
    /\ holds = [d \in Disks |-> [n \in FsNames |-> None]]
    /\ lost = {}
    /\ broken = {}

Fresh(n, i) == \A d \in Disks \ broken : holds[d][n] # i

Join(d, n, i) ==
    /\ holds[d][n] = None
    /\ n \in lost \/ Fresh(n, i)
    /\ holds' = [holds EXCEPT ![d][n] = i]
    /\ UNCHANGED <<lost, broken>>

Lose(n) ==
    /\ lost' = lost \cup {n}
    /\ UNCHANGED <<holds, broken>>

\* What disk d holds is overwritten, or was and changes again.
Break(d) ==
    /\ broken' = broken \cup {d}
    /\ \E ids \in [FsNames -> Ids \cup {None}] : holds' = [holds EXCEPT ![d] = ids]
    /\ UNCHANGED lost

Next ==
    \/ \E d \in Disks, n \in FsNames, i \in Ids : Join(d, n, i)
    \/ \E n \in FsNames : Lose(n)
    \/ \E d \in Disks : Break(d)

Spec == Init /\ [][Next]_vars
=============================================================================
