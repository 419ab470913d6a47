------------------------------- MODULE Fat32 -------------------------------
(***************************************************************************)
(* The FAT32 volume on the SD card of a pi (fat32.c, fat32-dfs.c): mounting *)
(* it, finding a file of the root directory or adding one, and finding or   *)
(* adding the config file of the distributed filesystem.                    *)
(*                                                                          *)
(* One step writes at most one sector, and the power may fail between two   *)
(* steps.  The FAT is read into memory once, by fat32_init; an allocation   *)
(* changes it there and writes the sector of the changed entry back.  The   *)
(* sectors are read into memory further apart than they are used there, so  *)
(* only the entries of the first one, below W, are right: `strayed' tells   *)
(* whether a cluster was ever taken that has its entry in another sector.   *)
(*                                                                          *)
(* The root directory is a sequence of slots, R to a sector, S sectors to a *)
(* cluster.  Its own clusters are not among Clusters: nothing here writes   *)
(* their FAT entries, and those are taken to be in the first sector.  Of a  *)
(* file only the first sector of each cluster is told apart, by what was    *)
(* last written to it.                                                      *)
(***************************************************************************)
EXTENDS Integers, Sequences, FiniteSets

CONSTANTS
    LastCluster,  \* number of the last cluster that has a FAT entry
    W,            \* FAT entries in a sector: 128
    R,            \* directory records in a sector: 16
    S,            \* sectors in a cluster
    RootLen,      \* clusters of the root directory
    Names,        \* names of files
    Cfg,          \* FAT32_DFS_CFG_FILENAME
    NoName,       \* the name of deleted records and of those never written
    Sizes,        \* numbers of clusters a file may be asked for
    Volumes,      \* the volumes a card may come with: dir, fat and data
    Tables,       \* the partition tables it may come with
    Junk,         \* words the memory behind the kernel may hold at the start
    MayLosePower  \* whether the power may fail in the middle of an operation

Free      == 0  \* FAT entry of a free cluster
NoCluster == -1 \* no cluster; masked by CLUSTER_NO, the end of a chain
Unset     == 0  \* no cluster yet

Clusters == 3 .. LastCluster
Slots    == 0 .. RootLen * S * R - 1
Entries  == {Free, NoCluster} \cup Clusters
Record   == [end : BOOLEAN, lfn : BOOLEAN, name : Names \cup {NoName}, head : Entries]
Marks    == {"old", "blank", "config", "wild"}

\* A partition is not in use, has sectors of 512 bytes, or of another size.
Table    == [0 .. 3 -> {"unused", "fits", "misfits"}]
Volume   == [dir : [Slots -> Record], fat : [Clusters -> Entries], data : [Clusters -> Marks]]

ASSUME GeometryAssumption ==
    /\ LastCluster \in Nat
    /\ W \in Nat \ {0, 1, 2} /\ R \in Nat \ {0} /\ S \in Nat \ {0} /\ RootLen \in Nat \ {0}
ASSUME NamesAssumption   == Cfg \in Names /\ NoName \notin Names
ASSUME SizesAssumption   == Sizes \subseteq Nat
ASSUME VolumesAssumption == Volumes \subseteq Volume
ASSUME TablesAssumption  == Tables \subseteq Table
ASSUME JunkAssumption    == Junk \subseteq Entries
ASSUME FlagsAssumption   == MayLosePower \in BOOLEAN

VARIABLES
    dir,    \* the root directory on the card
    dfat,   \* the FAT on the card, its first copy
    data,   \* the first sector of each cluster
    fat,    \* the FAT in memory
    pc,     \* what the pi does
    op,     \* the allocation in progress
    cfgc,   \* what dfs_init_config returned
    overrun, \* history: an allocation found no free cluster
    strayed, \* history: an allocation took a cluster that is not below W
    uncovered, \* history: a file ends a cluster that old records follow
    parts   \* the partition table on the card, which nobody writes

disk == <<dir, dfat, data>>
vars == <<disk, fat, pc, op, cfgc, overrun, strayed, uncovered, parts>>

Idle == [name |-> NoName, size |-> 0, left |-> 0, slot |-> 0,
         head |-> Unset, prev |-> Unset, cur |-> Unset]

Phases == {"off", "mounted", "ready", "mark", "blank", "link", "dir", "copy", "lost", "panicked"}

(***************************************************************************)
(* Reading the directory.  fat32_alloc_local_file and fat32_get_cluster_no  *)
(* skip the records of long names before they look at the first byte;       *)
(* dump_root_content looks at it in every record.                           *)
(***************************************************************************)
Total == RootLen * S * R

FirstOf(P) == IF P = {} THEN Total ELSE CHOOSE s \in P : \A t \in P : s <= t

\* A record that a search takes for the terminal (IS_TERMINAL of fat32.c).
Terminal(rec) == rec.end /\ ~ rec.lfn

\* The slot where a search stops; Total when it runs off the directory.
Limit(d) == FirstOf({s \in Slots : Terminal(d[s])})

\* The slot where a listing stops.
ListLimit(d) == FirstOf({s \in Slots : d[s].end})

Live(d) ==
    LET limit == Limit(d)
    IN  {s \in Slots : s < limit /\ ~ d[s].lfn /\ d[s].name # NoName}

Named(d, name) == {s \in Live(d) : d[s].name = name}

\* The first slot after `slot' that a search for a free record stops at holds
\* the new file; the record after it, in the same sector, becomes the terminal.
SectorEnd(slot)  == slot % R = R - 1
ClusterEnd(slot) == SectorEnd(slot) /\ (slot \div R) % S = S - 1

\* Mutant: the record before the terminal is taken.
Filled_Before(d, o) ==
    [s \in Slots |->
        IF s = o.slot - 1 THEN [end |-> FALSE, lfn |-> FALSE, name |-> o.name, head |-> o.head]
        ELSE d[s]]

Filled(d, o) ==
    [s \in Slots |->
        IF s = o.slot THEN [end |-> FALSE, lfn |-> FALSE, name |-> o.name, head |-> o.head]
        ELSE IF s = o.slot + 1 /\ ~ SectorEnd(o.slot) THEN [d[s] EXCEPT !.end = TRUE]
        ELSE d[s]]

\* The sector after that of the new file: the same records, the first a terminal.
Copied(d, o) ==
    [s \in Slots |->
        IF s = o.slot + 1 THEN [Filled(d, o)[s - R] EXCEPT !.end = TRUE]
        ELSE IF s > o.slot + 1 /\ s <= o.slot + R THEN Filled(d, o)[s - R]
        ELSE d[s]]

(***************************************************************************)
(* The FAT.                                                                 *)
(***************************************************************************)
\* Mutant: the last cluster of a chain counts as free.
FreeClusters_EndsToo(ft) == {c \in Clusters : ft[c] \in {Free, NoCluster}}

FreeClusters(ft) == {c \in Clusters : ft[c] = Free}

FirstFree(ft) == CHOOSE c \in FreeClusters(ft) : \A e \in FreeClusters(ft) : c <= e

\* The table `old' after the sector of entry c was written from `new'.
SectorWritten(old, new, c) ==
    [e \in Clusters |-> IF e \div W = c \div W THEN new[e] ELSE old[e]]

\* `(struct sector *)FAT + i': struct sector has 512 words, of which sector i
\* of the FAT fills the first W; no one writes to the others before they are read.
Apart == 4
FromCard(c) == c % (Apart * W) < W
Unread == {c \in Clusters : ~ FromCard(c)}

\* The entry of the card that is in word c of the table in memory.
EntryAt(c) == (c \div (Apart * W)) * W + (c % (Apart * W))

Loaded(ft, junk) ==
    [c \in Clusters |-> IF FromCard(c) THEN ft[EntryAt(c)] ELSE junk[c]]

----------------------------------------------------------------------------
Init ==
    /\ \E v \in Volumes : dir = v.dir /\ dfat = v.fat /\ data = v.data
    /\ parts \in Tables
    /\ fat = [c \in Clusters |-> Free]
    /\ pc = "off"
    /\ op = Idle
    /\ cfgc = NoCluster
    /\ overrun = FALSE
    /\ strayed = FALSE
    /\ uncovered = FALSE

InUse == {i \in DOMAIN parts : parts[i] # "unused"}

\* The FAT is read into memory.
ReadTable ==
    /\ \E junk \in [Unread -> Junk] : fat' = Loaded(dfat, junk)
    /\ pc' = "mounted"

\* Mutant: a second partition in use does not matter.
Mount_TakesAny ==
    /\ pc = "off"
    /\ IF InUse = {} THEN pc' = "lost" /\ UNCHANGED fat
       ELSE IF \A i \in InUse : parts[i] = "fits" THEN ReadTable
       ELSE pc' = "panicked" /\ UNCHANGED fat
    /\ UNCHANGED <<disk, op, cfgc, overrun, strayed, uncovered, parts>>

\* fat32_init: a second partition in use, or one with sectors of another size,
\* is a panic.  With none in use the volume is all zeros: no sectors to a FAT
\* and none to a cluster, and the search that follows walks through memory from
\* cluster 0 without ever reading a record or meeting the -1 it waits for.
Mount ==
    /\ pc = "off"
    /\ IF InUse = {} THEN pc' = "lost" /\ UNCHANGED fat
       ELSE IF \E i \in InUse : InUse = {i} /\ parts[i] = "fits" THEN ReadTable
       ELSE pc' = "panicked" /\ UNCHANGED fat
    /\ UNCHANGED <<disk, op, cfgc, overrun, strayed, uncovered, parts>>

\* fat32_alloc_local_file, up to the slot found.  The end of a chain of clusters
\* is masked and never equals the -1 that the loop waits for: a search that
\* finds no terminal goes on with the cluster of that number.  With 16 sectors or
\* more to a cluster its sectors are in the second copy of the FAT, and it is one
\* more cluster of the directory, counted in RootLen.  After it, or in a smaller
\* geometry at once, the search reads past the memory and the card and does not
\* come back.
Allocate(name, n) ==
    IF Limit(dir) = Total
    THEN pc' = "lost" /\ UNCHANGED op
    ELSE /\ pc' = "mark"
         /\ op' = [Idle EXCEPT !.name = name, !.size = n, !.left = n, !.slot = Limit(dir)]

\* dfs_init_config: the first record of that name, or a new file of two clusters.
InitConfig ==
    /\ pc = "mounted"
    /\ LET found == FirstOf(Named(dir, Cfg))
       IN  IF found # Total /\ dir[found].head # NoCluster
           THEN pc' = "ready" /\ cfgc' = dir[found].head /\ UNCHANGED op
           ELSE Allocate(Cfg, 2) /\ UNCHANGED cfgc
    /\ UNCHANGED <<disk, fat, overrun, strayed, uncovered, parts>>

\* fat32_alloc_local_file for another file.
Create(name, n) ==
    /\ pc = "ready"
    /\ Allocate(name, n)
    /\ UNCHANGED <<disk, fat, cfgc, overrun, strayed, uncovered, parts>>

\* Mutant: the entry is marked in memory only.
MarkCluster_MemoryOnly ==
    /\ pc = "mark"
    /\ FreeClusters(fat) # {}
    /\ LET c == FirstFree(fat)
       IN  /\ fat' = [fat EXCEPT ![c] = NoCluster]
           /\ op' = [op EXCEPT !.cur = c]
           /\ strayed' = (strayed \/ c >= W)
    /\ pc' = "blank"
    /\ UNCHANGED <<disk, cfgc, overrun, uncovered, parts>>

\* alloc_free_local_cluster: the entry is marked and its sector written back.
MarkCluster ==
    /\ pc = "mark"
    /\ FreeClusters(fat) # {}
    /\ LET c == FirstFree(fat)
       IN  /\ fat' = [fat EXCEPT ![c] = NoCluster]
           /\ dfat' = SectorWritten(dfat, fat', c)
           /\ op' = [op EXCEPT !.cur = c]
           /\ strayed' = (strayed \/ c >= W)
    /\ pc' = "blank"
    /\ UNCHANGED <<dir, data, cfgc, overrun, uncovered, parts>>

\* find_free_local_cluster returned -1 and nobody looks: a word far behind the
\* table is set, and the memory around it goes to the FAT sector that word would
\* be in, a gigabyte into the card.  That may be a sector of any file.
WildWrite ==
    data' \in {data} \cup {[data EXCEPT ![c] = "wild"] : c \in Clusters}

\* Mutant: the index of the end of the table is returned.
DiskFull_ReturnsEnd ==
    /\ pc = "mark"
    /\ FreeClusters(fat) = {}
    /\ WildWrite
    /\ op' = [op EXCEPT !.cur = LastCluster + 1]
    /\ overrun' = TRUE
    /\ pc' = "blank"
    /\ UNCHANGED <<dir, dfat, fat, cfgc, strayed, uncovered, parts>>

DiskFull ==
    /\ pc = "mark"
    /\ FreeClusters(fat) = {}
    /\ WildWrite
    /\ op' = [op EXCEPT !.cur = NoCluster]
    /\ overrun' = TRUE
    /\ pc' = "blank"
    /\ UNCHANGED <<dir, dfat, fat, cfgc, strayed, uncovered, parts>>

\* Mutant: the clusters that are left are not counted.
Counted_NotDown(o) == [o EXCEPT !.prev = o.cur]

\* The cluster just allocated goes into the chain: `o' after it.
Counted(o) == [o EXCEPT !.left = o.left - 1, !.prev = o.cur]
AfterCluster(o) == IF o.left > 0 THEN "mark" ELSE "dir"

\* Mutant: the cluster keeps what it held.
BlankCluster_Skipped ==
    /\ pc = "blank"
    /\ IF op.head = Unset
       THEN /\ op' = Counted([op EXCEPT !.head = op.cur])
            /\ pc' = AfterCluster(op')
       ELSE pc' = "link" /\ UNCHANGED op
    /\ UNCHANGED <<disk, fat, cfgc, overrun, strayed, uncovered, parts>>

\* The first sector of the cluster is zeroed, that of no cluster anywhere off the
\* volume's clusters (in the cluster that Allocate tells of, a case left out).
\* The first cluster of a file is the one its record will name.
BlankCluster ==
    /\ pc = "blank"
    /\ IF op.cur = NoCluster THEN UNCHANGED data
       ELSE data' = [data EXCEPT ![op.cur] = "blank"]
    /\ IF op.head = Unset
       THEN /\ op' = Counted([op EXCEPT !.head = op.cur])
            /\ pc' = AfterCluster(op')
       ELSE pc' = "link" /\ UNCHANGED op
    /\ UNCHANGED <<dir, dfat, fat, cfgc, overrun, strayed, uncovered, parts>>

\* Mutant: every cluster is linked to the first one.
LinkCluster_ToHead ==
    /\ pc = "link"
    /\ IF op.prev = NoCluster THEN WildWrite /\ UNCHANGED <<fat, dfat>>
       ELSE /\ fat' = [fat EXCEPT ![op.head] = op.cur]
            /\ dfat' = SectorWritten(dfat, fat', op.head)
            /\ UNCHANGED data
    /\ op' = Counted(op)
    /\ pc' = AfterCluster(op')
    /\ UNCHANGED <<dir, cfgc, overrun, strayed, uncovered, parts>>

\* fat32_point_fat: the cluster before points to the new one.
LinkCluster ==
    /\ pc = "link"
    /\ IF op.prev = NoCluster THEN WildWrite /\ UNCHANGED <<fat, dfat>>
       ELSE /\ fat' = [fat EXCEPT ![op.prev] = op.cur]
            /\ dfat' = SectorWritten(dfat, fat', op.prev)
            /\ UNCHANGED data
    /\ op' = Counted(op)
    /\ pc' = AfterCluster(op')
    /\ UNCHANGED <<dir, cfgc, overrun, strayed, uncovered, parts>>

\* fat32_alloc_local_file and dfs_init_config return.
Return ==
    /\ pc' = "ready"
    /\ op' = Idle
    /\ cfgc' = IF op.name = Cfg THEN op.head ELSE cfgc

\* The new record is the last of its cluster, where no terminal is written after
\* it, and the next cluster of the directory does not begin with one.
Uncovers(slot) ==
    ClusterEnd(slot) /\ slot + 1 \in Slots /\ ~ Terminal(dir[slot + 1])

\* The sector with the new record is written; the record after it may be in the
\* next sector, or in no sector of this cluster.
WriteDir ==
    /\ pc = "dir"
    /\ dir' = Filled(dir, op)
    /\ uncovered' = (uncovered \/ Uncovers(op.slot))
    /\ IF SectorEnd(op.slot) /\ ~ ClusterEnd(op.slot)
       THEN pc' = "copy" /\ UNCHANGED <<op, cfgc>>
       ELSE Return
    /\ UNCHANGED <<dfat, data, fat, overrun, strayed, parts>>

\* Mutant: the terminal of the next sector is forgotten.
CopySector_Skipped ==
    /\ pc = "copy"
    /\ Return
    /\ UNCHANGED <<disk, fat, overrun, strayed, uncovered, parts>>

CopySector ==
    /\ pc = "copy"
    /\ dir' = Copied(dir, op)
    /\ Return
    /\ UNCHANGED <<dfat, data, fat, overrun, strayed, uncovered, parts>>

\* id_for_dfs records an id in the first sector of the config file.  With the
\* cluster number -1 it writes a sector three clusters before the root
\* directory, in the second copy of the FAT, which nobody reads.
WriteConfig ==
    /\ pc = "ready"
    /\ cfgc \in Clusters
    /\ data' = [data EXCEPT ![cfgc] = "config"]
    /\ UNCHANGED <<dir, dfat, fat, pc, op, cfgc, overrun, strayed, uncovered, parts>>

\* The pi is restarted, by the next run of deploy or by losing power.
Restart ==
    /\ pc # "off"
    /\ MayLosePower \/ pc \in {"ready", "lost", "panicked"}
    /\ fat' = [c \in Clusters |-> Free]
    /\ pc' = "off"
    /\ op' = Idle
    /\ cfgc' = NoCluster
    /\ UNCHANGED <<disk, overrun, strayed, uncovered, parts>>

\* What the program does by itself once it was started and asked for something.
Work ==
    \/ Mount \/ InitConfig
    \/ MarkCluster \/ DiskFull \/ BlankCluster \/ LinkCluster
    \/ WriteDir \/ CopySector

Next ==
    \/ Work
    \/ \E name \in Names \ {Cfg}, n \in Sizes : Create(name, n)
    \/ WriteConfig
    \/ Restart

\* One program that nothing blocks: every wait of the driver it calls counts down.
Spec == Init /\ [][Next]_vars /\ WF_vars(Work)

(***************************************************************************)
(* What must hold.                                                          *)
(***************************************************************************)

\* Every variable keeps to its set of values (fat32.h's records and entries).
Operation == [name : Names \cup {NoName}, size : Nat, left : Int, slot : Slots,
              head : Entries, prev : Entries, cur : Entries]

TypeOK ==
    /\ dir \in [Slots -> Record]
    /\ dfat \in [Clusters -> Entries]
    /\ data \in [Clusters -> Marks]
    /\ fat \in [Clusters -> Entries]
    /\ pc \in Phases
    /\ op \in Operation
    /\ cfgc \in Entries
    /\ overrun \in BOOLEAN /\ strayed \in BOOLEAN /\ uncovered \in BOOLEAN
    /\ parts \in Table

Heads(d)       == {d[s].head : s \in Live(d)} \cap Clusters
Linked(ft)     == {ft[c] : c \in Clusters} \cap Clusters
Loose(d, ft, c) == ft[c] # Free /\ c \notin Linked(ft) /\ c \notin Heads(d)

HeadsInUse(d, ft)  == \A c \in Heads(d) : ft[c] # Free /\ c \notin Linked(ft)
HeadsDistinct(d)   ==
    \A s, t \in Live(d) : s # t /\ d[s].head \in Clusters => d[s].head # d[t].head
LinksInUse(ft)     == \A c \in Linked(ft) : ft[c] # Free
LinksDistinct(ft)  == \A c, e \in Clusters : c # e /\ ft[c] \in Clusters => ft[c] # ft[e]

SoundTable(d, ft) ==
    /\ HeadsInUse(d, ft) /\ HeadsDistinct(d)
    /\ LinksInUse(ft) /\ LinksDistinct(ft)

\* No cluster belongs to two files, to a file twice, or to a file and to the
\* free ones: of the card, at every instant the power may fail (the order of the
\* writes of alloc_local_file_at and fat32_alloc_local_file).  Once a cluster was
\* taken whose entry was never read, nothing is claimed.
Sound == ~ strayed => SoundTable(dir, dfat)

\* The end of a sector lies from s on and before t.
EndBetween(s, t) == \E u \in Slots : s <= u /\ u < t /\ SectorEnd(u)

\* No record of a long name in the sector of slot l or after it.
ClearFrom(d, l) == \A s \in Slots : ~ EndBetween(s, l) => ~ d[s].lfn

\* Before the terminal no record begins with 0; in its sector and after it no
\* record is one of a long name; after its sector all records begin with 0.
TailClear(d) ==
    /\ \A s \in Slots : s < Limit(d) => ~ d[s].end
    /\ ClearFrom(d, Limit(d))
    /\ \A s \in Slots : EndBetween(Limit(d), s) => d[s].end

SoundVolume(v) == SoundTable(v.dir, v.fat) /\ TailClear(v.dir)

Allocating == pc \in {"mark", "blank", "link", "dir"}

\* While mounted, the first sector of the table in memory is the one on the card.
Agree(ft, old) == \A c \in Clusters : c < W => ft[c] = old[c]
Running == pc \notin {"off", "lost", "panicked"}
Mirror  == Running => Agree(fat, dfat)

\* The slot found stays the one where a search stops until it is filled.
SlotHeld ==
    /\ Allocating => op.slot = Limit(dir)
    /\ pc = "copy" => /\ op.slot + 1 = Limit(dir) /\ SectorEnd(op.slot)
                      /\ Filled(dir, op) = dir /\ ClearFrom(dir, op.slot)

\* The clusters of the file being made: its first is nobody's yet, its last ends
\* the chain, and the one to be linked next is neither of them.
InFlight ==
    /\ Allocating /\ op.head \in Clusters => Loose(dir, dfat, op.head)
    /\ Allocating /\ op.prev \in Clusters => dfat[op.prev] = NoCluster
    /\ pc \in {"blank", "link"} /\ op.cur \in Clusters =>
          Loose(dir, dfat, op.cur) /\ dfat[op.cur] = NoCluster /\ op.cur \notin {op.head, op.prev}
    /\ pc \in {"blank", "link"} => op.cur # Unset
    /\ pc = "dir" => op.head # Unset
    /\ Allocating => (op.head = Unset <=> op.prev = Unset)
    /\ pc = "link" => op.head # Unset
    /\ Allocating => op.prev < W
    /\ pc \in {"blank", "link"} => op.cur < W

\* The chain of clusters from `head', as long as it can be without a cycle.
Walk(ft, head) ==
    LET walk[k \in 0 .. Cardinality(Clusters)] ==
            IF k = 0 THEN <<head>>
            ELSE LET soFar == walk[k - 1]
                     next  == ft[soFar[Len(soFar)]]
                 IN  IF Len(soFar) = k /\ next \in Clusters THEN Append(soFar, next) ELSE soFar
    IN  walk
FileChain(ft, head) ==
    IF head \in Clusters THEN Walk(ft, head)[Cardinality(Clusters)] ELSE << >>

\* What is on the card, on volumes that are sound at first.
VolumeInv ==
    /\ TypeOK /\ TailClear(dir) /\ SlotHeld /\ Sound /\ ~ uncovered
    /\ ~ strayed => Mirror /\ InFlight

\* The chain of the file being made ends with the cluster that was linked last.
\* A cluster that could not be had is missed for ever: the disk stays full.
Growing ==
    Allocating =>
        /\ op.name \in Names
        /\ ~ strayed =>
              /\ NoCluster \in {op.head, op.prev, op.cur} => overrun /\ FreeClusters(fat) = {}
              /\ pc \in {"blank", "link"} /\ NoCluster \in {op.head, op.prev} => op.cur = NoCluster
              /\ op.prev \in Clusters =>
                    /\ op.head \in Clusters
                    /\ LET chain == FileChain(dfat, op.head) IN chain[Len(chain)] = op.prev

\* An allocation went wrong for want of free clusters in the first FAT sector.
Damaged == overrun \/ strayed

\* What is linked and what is left are what was asked for, or the one cluster of
\* a file that was asked for with none.
Counting ==
    Allocating /\ ~ Damaged =>
        /\ Len(FileChain(dfat, op.head)) = op.size - op.left
        /\ IF pc = "dir" THEN op.left = (IF op.size = 0 THEN -1 ELSE 0)
           ELSE op.left > 0 \/ (op.left = 0 /\ op.size = 0)

\* There is at most one config file; its first sector holds entries or zeros, and
\* no other sector of the card holds any.
OneConfig(d, marks) ==
    /\ \A s, t \in Named(d, Cfg) : s = t
    /\ \A s \in Named(d, Cfg) : d[s].head \in Clusters /\ marks[d[s].head] \in {"blank", "config"}
    /\ \A c \in Clusters : marks[c] = "config" => \E s \in Named(d, Cfg) : d[s].head = c

\* The config file is made once, and known from then on.
ConfigKept ==
    ~ Damaged =>
        /\ OneConfig(dir, data)
        /\ Allocating /\ op.name = Cfg =>
              Named(dir, Cfg) = {} /\ (op.head \in Clusters => data[op.head] = "blank")
        /\ pc = "ready" \/ ((Allocating \/ pc = "copy") /\ op.name # Cfg) =>
              \E s \in Named(dir, Cfg) : cfgc = dir[s].head

\* The invariant that the others follow from, on volumes that are sound at first
\* and have at most one config file.
IInv == VolumeInv /\ Growing /\ Counting /\ ConfigKept

\* A listing of the directory (dump_root_content) and a search in it
\* (fat32_get_cluster_no) stop at the same record: the terminal that
\* fat32_alloc_local_file writes after a new file ends the directory for both.
ListingAgrees == pc = "ready" => ListLimit(dir) = Limit(dir)

Files(d, ft) ==
    {[place |-> s, name |-> d[s].name, chain |-> FileChain(ft, d[s].head)] : s \in Live(d)}

\* Where the power does not fail, nobody reads the directory between the two
\* sectors that end an allocation.
Visible ==
    IF pc = "copy" /\ ~ MayLosePower
    THEN {file \in Files(dir, dfat) : file.place <= op.slot}
    ELSE Files(dir, dfat)

\* Fat32 implements FileStore on what is on the card, so a loss of power loses
\* or damages no file: what alloc_local_file_at writes before the directory
\* sector is not seen, and the file is there at once when that is written.  Once a
\* file ends a cluster that old records follow, these are back in the directory
\* and nothing is claimed.
Store == INSTANCE FileStore WITH files <- Visible
ImplementsFileStore ==
    Store!Init /\ [][~ (strayed \/ uncovered)' => Store!Next]_Visible

\* A file gets the clusters it is asked for, at least one, and all are linked
\* when its record is written (fat32_alloc_local_file's num_clusters), as long
\* as no allocation has gone wrong.
SizeUnlessFull ==
    pc = "dir" /\ ~ Damaged =>
        Len(FileChain(dfat, op.head)) = IF op.size = 0 THEN 1 ELSE op.size

\* dfs_init_config comes back with the one config file that has an id in it,
\* whatever restarts there were since id_for_dfs recorded it, and the sector it will
\* read holds entries or zeros, never what the cluster held before: it would take
\* that for ids.
Configured == {c \in Clusters : data[c] = "config"}
ConfigFoundAgain ==
    pc = "ready" /\ ~ Damaged =>
        /\ cfgc \in Clusters /\ data[cfgc] \in {"blank", "config"}
        /\ Configured \subseteq {cfgc}

\* No step changes a sector of a file that is in the directory, but for the
\* config file when an id is recorded there.
ClustersOf(file) == {file.chain[i] : i \in DOMAIN file.chain}
FilesKept ==
    [][data' # data =>
         \A file \in Files(dir, dfat) : \A c \in ClustersOf(file) :
            data'[c] # data[c] => c = cfgc \/ Damaged']_vars

\* A card is written only if its partition table names the one volume to write
\* to: never one that fat32_init cannot choose a partition of, or that has
\* sectors the driver does not have, however often the pi is started with it.
OnlyItsVolume ==
    [][disk' # disk => \E i \in 0 .. 3 : InUse = {i} /\ parts[i] = "fits"]_vars

\* A search or an allocation comes back, even when the disk is full, unless no
\* record of the directory ends the search of fat32_alloc_local_file.
ComesBack ==
    (pc \in {"mounted", "mark"}) ~> (pc = "ready" \/ (pc = "lost" /\ Limit(dir) = Total))

\* The cluster that is given out next is free on the card: "Read the FAT into
\* main memory" (fat32.c:971), "Find the first free cluster in the local FAT
\* table" (fat32.c:48).
GivenIsFree ==
    pc = "mark" /\ FreeClusters(fat) # {} => dfat[FirstFree(fat)] = Free
=============================================================================
