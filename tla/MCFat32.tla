------------------------------ MODULE MCFat32 ------------------------------
(***************************************************************************)
(* Instances of Fat32 for TLC, and the volumes they start from.             *)
(***************************************************************************)
EXTENDS Fat32, TLC

File(n, h) == [end |-> FALSE, lfn |-> FALSE, name |-> n, head |-> h]
LongName   == [end |-> FALSE, lfn |-> TRUE, name |-> NoName, head |-> Free]
Zeros      == [end |-> TRUE, lfn |-> FALSE, name |-> NoName, head |-> Free]

\* A directory that begins with the records of `first' and goes on with zeros.
DirOf(first) ==
    [s \in Slots |-> IF s + 1 \in DOMAIN first THEN first[s + 1] ELSE Zeros]

\* A FAT, and data, that are free and old except where `used' says otherwise.
FatOf(used) == [c \in Clusters |-> IF c \in DOMAIN used THEN used[c] ELSE Free]
OldData     == [c \in Clusters |-> "old"]

Vol(first, used) == [dir |-> DirOf(first), fat |-> FatOf(used), data |-> OldData]

\* A fresh volume; one with a fragmented file of a long name; one with a deleted
\* file, and a config file that was made on a full card.
SoundVolumes ==
    { Vol(<< >>, << >>),
      Vol(<<LongName, File("kernel", 3)>>,
          (3 :> 6) @@ (6 :> 4) @@ (4 :> NoCluster)),
      [Vol(<<File(NoName, 3), File(Cfg, 5)>>, (5 :> NoCluster))
          EXCEPT !.data[5] = "config"] }

\* Old records follow the terminal, as after a directory was cut short: in its
\* sector and the next; and in the next cluster, behind a terminal or at its start.
StaleVolumes ==
    { Vol(<<File("kernel", 3), Zeros, File("kernel", 4), File("kernel", 7)>>,
          (3 :> NoCluster)),
      Vol(<<Zeros, File("kernel", 5), File("kernel", 3), File("kernel", 4),
            File("kernel", 6)>>, << >>),
      Vol(<<File("kernel", 3), File("kernel", 4), Zeros, File("kernel", 6), Zeros,
            File("kernel", 7)>>, (3 :> NoCluster) @@ (4 :> NoCluster)) }

\* A long name in the sector of the terminal, which is not the last of its cluster.
LongNameVolumes ==
    { Vol(<<LongName, File("kernel", 3)>>, (3 :> NoCluster)) }

\* A card with more than one sector of FAT: the entries from W on are in use.
LargeVolumes ==
    { Vol(<<File("kernel", 3)>>,
          [c \in {3} \cup {d \in Clusters : d >= W} |->
              IF c = 3 THEN W ELSE IF c = LastCluster THEN NoCluster
              ELSE c + 1]) }

\* One partition in use, as on the cards of the lab; and what else a card may have.
TableOf(used) == [i \in 0 .. 3 |-> IF i \in DOMAIN used THEN used[i] ELSE "unused"]
OneTable  == {TableOf(0 :> "fits")}
AnyTables ==
    { TableOf(<< >>), TableOf(1 :> "fits"), TableOf(3 :> "misfits"),
      TableOf(0 :> "fits" @@ 1 :> "fits"), TableOf(0 :> "fits" @@ 2 :> "misfits") }

\* Memory that was never written looks like free entries or like used ones.
JunkWords == {Free, NoCluster}
=============================================================================
