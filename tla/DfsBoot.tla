------------------------------ MODULE DfsBoot ------------------------------
(***************************************************************************)
(* How a disk gets its id.  `deploy` on the mac (pi-install.c, bootpi.c)    *)
(* walks over the connected pies, boots each, and offers the first free id  *)
(* of a filesystem; the pi (main.c) looks the filesystem up in the config   *)
(* sector of its SD card and keeps the id recorded there, or records the    *)
(* offer and says so; the mac counts the offers that were taken and writes  *)
(* the counter back to the dfs root file when it has visited every pi.      *)
(*                                                                          *)
(* A disk stands for one SD card and the pi it sits in.  Names arrive whole *)
(* here: their framing into words is DfsLink's subject.                     *)
(***************************************************************************)
EXTENDS Integers, Sequences, FiniteSets

CONSTANTS
    Disks,       \* SD cards, each in a pi on its own tty
    FsNames,     \* names of filesystems (paths of dfs root files), as sequences
    NumEntries,  \* entries of a config sector: 16 in struct config_sector
    IdSpace,     \* values of the byte an id travels in: 256
    MaxDeploys,  \* bound: runs of deploy
    MayBeKilled, \* whether deploy may be interrupted from outside
    MayFailWrite,\* whether the write of a config sector or of a root file may fail
    Unread,      \* what memory may hold of a config sector that was not read; none: reads work
    None         \* absence of a value

ASSUME NamesAssumption   == FsNames \subseteq Seq(STRING) /\ << >> \notin FsNames
ASSUME EntriesAssumption == NumEntries \in Nat \ {0}
ASSUME IdsAssumption     == IdSpace \in Nat \ {0}
ASSUME DeploysAssumption == MaxDeploys \in Nat
ASSUME KilledAssumption  == MayBeKilled \in BOOLEAN
ASSUME FailAssumption    == MayFailWrite \in BOOLEAN

VARIABLES
    root,          \* first_free_id in the dfs root file of each filesystem
    phase,         \* where deploy is
    fs,            \* the filesystem being deployed
    first_free_id, \* deploy's copy of the counter
    dirty_dfs,     \* whether that copy must be written back
    todo,          \* pies not yet visited
    cur,           \* the pi deploy talks to
    pi,            \* where each pi is
    ram,           \* what the pi side program holds: name, id, whether it is the offer
    cfg,           \* config sector of each disk: the entries in use
    tty,           \* reply of a pi that deploy has not read yet
    deploys,       \* runs of deploy so far
    told,          \* history: the ids deploy printed
    forgotten,     \* history: filesystems whose counter died with deploy
    unwritten,     \* history: disks and filesystems whose entry was not written
    misread        \* history: disks whose config sector was once not read

macVars  == <<phase, fs, first_free_id, dirty_dfs, todo, cur, deploys>>
piVars   == <<pi, ram, cfg>>
histVars == <<told, forgotten, unwritten, misread>>
vars     == <<root, macVars, piVars, tty, histVars>>

Ids    == 0 .. IdSpace - 1
Phases == {"off", "next", "boot", "drain", "name", "mount", "answer", "claim", "save"}
Dialogue == {"name", "mount", "answer", "claim"}
PiStates == {"loader", "entry", "mounting", "ready", "asked", "decided",
             "done", "panicked"}
Entry  == [name : FsNames, id : Ids]
Memory == [fs : FsNames, id : Ids, used : BOOLEAN]
Reply  == [used : BOOLEAN, id : Ids]

ASSUME UnreadAssumption == Unread \subseteq Seq(Entry)
ASSUME NoneAssumption == None \notin Memory \cup Reply \cup Disks \cup FsNames \cup Ids

(***************************************************************************)
(* The config sector.  strncmp stops at the end of the shorter name, so     *)
(* two names match as soon as one is a prefix of the other.                 *)
(***************************************************************************)
SameName(s, t) == \A i \in DOMAIN s \cap DOMAIN t : s[i] = t[i]

Matches(entries, name) == {i \in DOMAIN entries : SameName(entries[i].name, name)}

FirstMatch(entries, name) ==
    CHOOSE i \in Matches(entries, name) : \A j \in Matches(entries, name) : i <= j

HasRoom(entries) == Len(entries) < NumEntries

\* Mutant: the sector is cleared before the entry goes in.
Recorded_Clears(entries, name, id) == <<[name |-> name, id |-> id]>>

Recorded(entries, name, id) ==
    IF HasRoom(entries) THEN Append(entries, [name |-> name, id |-> id]) ELSE entries

\* The word 0xffffff00 | first_free_id, of which the pi keeps the low byte.
Offer(counter) == counter % IdSpace

----------------------------------------------------------------------------
Init ==
    /\ root = [n \in FsNames |-> 0]
    /\ phase = "off"
    /\ fs = None
    /\ first_free_id = 0
    /\ dirty_dfs = FALSE
    /\ todo = {}
    /\ cur = None
    /\ pi = [d \in Disks |-> "loader"]
    /\ ram = [d \in Disks |-> None]
    /\ cfg = [d \in Disks |-> << >>]
    /\ tty = [d \in Disks |-> None]
    /\ deploys = 0
    /\ told = {}
    /\ forgotten = {}
    /\ unwritten = {}
    /\ misread = {}

(***************************************************************************)
(* The mac.                                                                 *)
(***************************************************************************)

\* Mutant: init_dfs takes every root file for a new one and zeroes it.
Deploy_AlwaysNew(n, S) ==
    /\ phase = "off"
    /\ deploys < MaxDeploys
    /\ deploys' = deploys + 1
    /\ fs' = n
    /\ root' = [root EXCEPT ![n] = 0]
    /\ first_free_id' = 0
    /\ dirty_dfs' = FALSE
    /\ todo' = S
    /\ cur' = None
    /\ phase' = "next"
    /\ UNCHANGED <<piVars, tty, histVars>>

\* main: read the root file, find the connected pies.  The order of the tty
\* names says nothing of the disks behind them, hence a set.
Deploy(n, S) ==
    /\ phase = "off"
    /\ deploys < MaxDeploys
    /\ deploys' = deploys + 1
    /\ fs' = n
    /\ first_free_id' = root[n]
    /\ dirty_dfs' = FALSE
    /\ todo' = S
    /\ cur' = None
    /\ phase' = "next"
    /\ UNCHANGED <<root, piVars, tty, histVars>>

OpenPi(d) ==
    /\ phase = "next"
    /\ d \in todo
    /\ cur' = d
    /\ phase' = "boot"
    /\ UNCHANGED <<root, fs, first_free_id, dirty_dfs, todo, deploys, piVars, tty, histVars>>

\* Five opens failed: goto end, and main still saves.
OpenFails ==
    /\ phase = "next"
    /\ todo # {}
    /\ phase' = "save"
    /\ UNCHANGED <<root, fs, first_free_id, dirty_dfs, todo, cur, deploys, piVars, tty, histVars>>

\* Mutant: bytes of an earlier session stay in the tty.
LoadKernel_KeepsReply ==
    /\ phase = "boot"
    /\ pi[cur] = "loader"
    /\ pi' = [pi EXCEPT ![cur] = "entry"]
    /\ phase' = "name"
    /\ UNCHANGED <<root, fs, first_free_id, dirty_dfs, todo, cur, deploys, ram, cfg, tty, histVars>>

\* boot: bytes of an earlier session are drained, the kernel is loaded.
LoadKernel ==
    /\ phase = "boot"
    /\ pi[cur] = "loader"
    /\ pi' = [pi EXCEPT ![cur] = "entry"]
    /\ tty' = [tty EXCEPT ![cur] = None]
    /\ phase' = "name"
    /\ UNCHANGED <<root, fs, first_free_id, dirty_dfs, todo, cur, deploys, ram, cfg, histVars>>

\* boot answers GET_PROG_INFO once.  A loader that is started again then, or misses a
\* byte of the answer, goes on asking, and boot drops what it asks for ever.
AnswerLost ==
    /\ phase = "boot"
    /\ pi[cur] = "loader"
    /\ phase' = "drain"
    /\ UNCHANGED <<root, fs, first_free_id, dirty_dfs, todo, cur, deploys, piVars, tty, histVars>>

\* FS_ID_START, the name, CONFIG_INIT.
SendName ==
    /\ phase = "name"
    /\ pi[cur] = "entry"
    /\ pi' = [pi EXCEPT ![cur] = "mounting"]
    /\ ram' = [ram EXCEPT ![cur] = [fs |-> fs, id |-> 0, used |-> FALSE]]
    /\ phase' = "mount"
    /\ UNCHANGED <<root, fs, first_free_id, dirty_dfs, todo, cur, deploys, cfg, tty, histVars>>

\* select saw no byte for 20 seconds, of a pi that mounts or has lost its power:
\* dfs_boot returns -1, goto end.
SelectTimeout ==
    /\ phase = "mount"
    /\ pi[cur] \in {"mounting", "loader"}
    /\ phase' = "save"
    /\ UNCHANGED <<root, fs, first_free_id, dirty_dfs, todo, cur, deploys, piVars, tty, histVars>>

\* REQUEST_ID and the assignable id.
OfferId ==
    /\ phase = "mount"
    /\ pi[cur] = "ready"
    /\ pi' = [pi EXCEPT ![cur] = "asked"]
    /\ ram' = [ram EXCEPT ![cur].id = Offer(first_free_id)]
    /\ phase' = "answer"
    /\ UNCHANGED <<root, fs, first_free_id, dirty_dfs, todo, cur, deploys, cfg, tty, histVars>>

\* Mutant: every reply counts.
AfterReply_AlwaysCounts(counter, reply) == counter + 1

\* DUMMY2 counts the offer as taken, DUMMY does not.
AfterReply(counter, reply) == IF reply.used THEN counter + 1 ELSE counter

ReadAnswer ==
    /\ phase = "answer"
    /\ tty[cur] # None
    /\ first_free_id' = AfterReply(first_free_id, tty[cur])
    /\ phase' = "claim"
    /\ UNCHANGED <<root, fs, dirty_dfs, todo, cur, deploys, piVars, tty, histVars>>

\* The claimed id; only then does boot_connected_pies set dirty_dfs.
MarkDirty(reply) == dirty_dfs \/ reply.used

ReadClaim ==
    /\ phase = "claim"
    /\ told' = told \cup {[disk |-> cur, fs |-> fs, id |-> tty[cur].id]}
    /\ dirty_dfs' = MarkDirty(tty[cur])
    /\ tty' = [tty EXCEPT ![cur] = None]
    /\ todo' = todo \ {cur}
    /\ phase' = "next"
    /\ UNCHANGED <<root, fs, first_free_id, cur, deploys, piVars, forgotten, unwritten, misread>>

\* The root file is opened and written again, and nobody looks whether it was.
WriteRoot ==
    \/ /\ root' = IF dirty_dfs THEN [root EXCEPT ![fs] = first_free_id] ELSE root
       /\ UNCHANGED forgotten
    \/ /\ MayFailWrite /\ dirty_dfs
       /\ forgotten' = forgotten \cup {fs}
       /\ UNCHANGED root

\* Mutant: a run in which a boot failed returns before the write.
SaveRoot_OnlyOnSuccess ==
    /\ \/ phase = "save" /\ UNCHANGED <<root, forgotten>>
       \/ phase = "next" /\ todo = {} /\ WriteRoot
    /\ phase' = "off"
    /\ UNCHANGED <<fs, first_free_id, dirty_dfs, todo, cur, deploys, piVars, tty, told, unwritten, misread>>

\* Normal end, also after a failure that jumped to end: write a dirty counter.
SaveRoot ==
    /\ phase = "save" \/ (phase = "next" /\ todo = {})
    /\ WriteRoot
    /\ phase' = "off"
    /\ UNCHANGED <<fs, first_free_id, dirty_dfs, todo, cur, deploys, piVars, tty, told, unwritten, misread>>

\* The process ends without main reaching the write of the root file.
DieUnsaved ==
    /\ forgotten' = IF phase = "answer" \/ first_free_id # root[fs]
                    THEN forgotten \cup {fs} ELSE forgotten
    /\ phase' = "off"
    /\ UNCHANGED <<root, fs, first_free_id, dirty_dfs, todo, cur, deploys, piVars, tty, told, unwritten, misread>>

\* Mutant: the timeout is set on the tty only after the kernel was loaded.
Silent_NotInBoot ==
    \/ phase = "name" /\ pi[cur] = "entry"
    \/ phase = "mount" /\ pi[cur] = "panicked"
    \/ phase = "answer" /\ tty[cur] = None /\ pi[cur] \in {"asked", "decided"}

\* No byte for the ten seconds of VTIME: get8 panics, and panic exits.
Silent ==
    \/ phase \in {"boot", "drain"} /\ pi[cur] # "loader"
    \/ phase = "name" /\ pi[cur] = "entry"
    \/ phase = "mount" /\ pi[cur] = "panicked"
    \/ phase = "answer" /\ tty[cur] = None /\ pi[cur] \in {"asked", "decided"}

Panic == Silent /\ DieUnsaved

\* boot panics at a word it does not expect: the greeting of a loader that was
\* started again, its BOOT_ERROR, or too many words before BOOT_SUCCESS.
BootPanics ==
    /\ phase \in {"boot", "drain"}
    /\ pi[cur] = "loader"
    /\ DieUnsaved

\* Interrupted by the user, tty unplugged, mac switched off.
Killed == MayBeKilled /\ phase # "off" /\ DieUnsaved

(***************************************************************************)
(* The pies.                                                                *)
(***************************************************************************)

\* fat32_init and dfs_init_config done, dummy sent.
PiMounts(d) ==
    /\ pi[d] = "mounting"
    /\ pi' = [pi EXCEPT ![d] = "ready"]
    /\ UNCHANGED <<root, macVars, ram, cfg, tty, histVars>>

\* fat32_init panics: two partitions, or sectors of another size.
PiPanics(d) ==
    /\ pi[d] = "mounting"
    /\ pi' = [pi EXCEPT ![d] = "panicked"]
    /\ ram' = [ram EXCEPT ![d] = None]
    /\ UNCHANGED <<root, macVars, cfg, tty, histVars>>

\* Mutant: the pi claims the offer even when it keeps another id.
Kept_Offer(d, sector) == [ram[d] EXCEPT !.used = FALSE]

\* The id of the first entry that matches.
Kept(d, sector) ==
    [ram[d] EXCEPT !.id = sector[FirstMatch(sector, ram[d].fs)].id, !.used = FALSE]

\* Keep the id of the first entry that matches, else record the offer in the first
\* unused entry, if there is one.
Search(d, sector) ==
    \/ /\ Matches(sector, ram[d].fs) # {}
       /\ ram' = [ram EXCEPT ![d] = Kept(d, sector)]
       /\ UNCHANGED <<cfg, unwritten>>
    \/ /\ Matches(sector, ram[d].fs) = {}
       /\ ram' = [ram EXCEPT ![d].used = TRUE]
       /\ \/ /\ cfg' = [cfg EXCEPT ![d] = Recorded(sector, ram[d].fs, ram[d].id)]
             /\ UNCHANGED unwritten
          \/ /\ MayFailWrite
             /\ unwritten' = unwritten \cup {<<d, ram[d].fs>>}
             /\ UNCHANGED cfg

\* id_for_dfs.  Nobody looks at what sd_readblock and sd_writeblock return: a sector
\* that was not read is searched as memory has it, and written to the card as that.
IdForDfs(d) ==
    /\ pi[d] = "asked"
    /\ pi' = [pi EXCEPT ![d] = "decided"]
    /\ \E sector \in {cfg[d]} \cup Unread :
         /\ Search(d, sector)
         /\ misread' = IF sector = cfg[d] THEN misread ELSE misread \cup {d}
    /\ UNCHANGED <<root, macVars, tty, told, forgotten>>

\* The dummy that says whether the offer was used, the id, and "DONE!!!".
PiAnswers(d) ==
    /\ pi[d] = "decided"
    /\ pi' = [pi EXCEPT ![d] = "done"]
    /\ tty' = [tty EXCEPT ![d] = [used |-> ram[d].used, id |-> ram[d].id]]
    /\ ram' = [ram EXCEPT ![d] = None]
    /\ UNCHANGED <<root, macVars, cfg, histVars>>

\* A deploy that died after the last byte of the kernel: the loader starts it
\* all the same.
StartsLate(d) ==
    /\ pi[d] = "loader"
    /\ deploys > 0
    /\ phase \in Dialogue => cur # d
    /\ pi' = [pi EXCEPT ![d] = "entry"]
    /\ UNCHANGED <<root, macVars, ram, cfg, tty, histVars>>

\* Power cycle: the bootloader runs again, the SD card keeps its sectors.
Reset(d) ==
    /\ pi' = [pi EXCEPT ![d] = "loader"]
    /\ ram' = [ram EXCEPT ![d] = None]
    /\ UNCHANGED <<root, macVars, cfg, tty, histVars>>

----------------------------------------------------------------------------
MacWorks ==
    \/ \E d \in Disks : OpenPi(d)
    \/ OpenFails \/ LoadKernel \/ SendName \/ SelectTimeout \/ OfferId
    \/ ReadAnswer \/ ReadClaim \/ SaveRoot \/ Panic

PiWorks(d) == PiMounts(d) \/ PiPanics(d) \/ IdForDfs(d) \/ PiAnswers(d)

Next ==
    \/ \E n \in FsNames, S \in SUBSET Disks : Deploy(n, S)
    \/ MacWorks
    \/ AnswerLost \/ BootPanics
    \/ Killed
    \/ \E d \in Disks : PiWorks(d) \/ StartsLate(d) \/ Reset(d)

\* Every wait of the mac on a pi that stays silent is a read or a select with
\* a timeout, and a loader that has the answer to its request takes the kernel.
\* Nothing bounds a pi: it may wait for ever.
Fairness == WF_vars(MacWorks)

Spec == Init /\ [][Next]_vars /\ Fairness

----------------------------------------------------------------------------
(***************************************************************************)
(* Properties.                                                              *)
(***************************************************************************)

\* Types of the state of deploy and of the pies.
TypeOK ==
    /\ root \in [FsNames -> Nat]
    /\ phase \in Phases
    /\ fs \in FsNames \cup {None}
    /\ first_free_id \in Nat
    /\ dirty_dfs \in BOOLEAN
    /\ todo \in SUBSET Disks
    /\ cur \in Disks \cup {None}
    /\ pi \in [Disks -> PiStates]
    /\ ram \in [Disks -> Memory \cup {None}]
    /\ cfg \in [Disks -> Seq(Entry)]
    /\ tty \in [Disks -> Reply \cup {None}]
    /\ deploys \in Nat
    /\ told \subseteq [disk : Disks, fs : FsNames, id : Ids]
    /\ forgotten \subseteq FsNames
    /\ unwritten \subseteq Disks \X FsNames
    /\ misread \subseteq Disks

\* The counter that the next offer for n is made from.
Counter(n) == IF phase # "off" /\ fs = n THEN first_free_id ELSE root[n]

\* Disk d records id i for filesystem n.
Holds(d, n, i) == \E k \in DOMAIN cfg[d] : cfg[d][k] = [name |-> n, id |-> i]

\* No two disks of a filesystem ever hold the same id, through aborted runs,
\* resets of pies and late answers, as long as deploy never ended with a
\* counter it had not saved, the byte the id travels in has not wrapped, and no
\* sector was searched, and written, that had not been read.
UniqueIds ==
    \A n \in FsNames \ forgotten : Counter(n) < IdSpace =>
        \A d, e \in Disks \ misread : \A i \in Ids : Holds(d, n, i) /\ Holds(e, n, i) => d = e

\* Id i of filesystem n went to disk d, or was swallowed by a full config sector
\* or by a read or a write that failed.
Taken(d, n, i) ==
    Holds(d, n, i) \/ ~HasRoom(cfg[d]) \/ <<d, n>> \in unwritten \/ d \in misread

\* An id is used up only by a disk: every id below the counter is recorded on
\* some disk, unless a full config sector, or a read or write that failed,
\* swallowed it.
NoIdSkipped ==
    \A n \in FsNames : \A i \in Ids :
        i < Counter(n) => \E d \in Disks : Taken(d, n, i)

\* A lookup of n on disk d finds i; what is found in a full sector, or behind a
\* read or write that failed, is not known.
Recalls(d, n, i) ==
    \/ <<d, n>> \in unwritten \/ d \in misread
    \/ IF Matches(cfg[d], n) # {}
       THEN cfg[d][FirstMatch(cfg[d], n)].id = i
       ELSE ~HasRoom(cfg[d])

\* Whatever id the mac was told for a disk is the one every later lookup on
\* that disk finds; a claim with nothing behind it comes from a full sector,
\* or a read or write that failed.
ToldIsRecorded == \A t \in told : Recalls(t.disk, t.fs, t.id)

\* A save never takes back an id that an earlier save had given out.
RootNeverRegresses == [][\A n \in FsNames : root'[n] >= root[n]]_vars

\* The mac drops what a loader asks for: it waits for something else of the pi.
Deaf == phase \in {"drain", "name", "mount", "answer"} /\ pi[cur] = "loader"

\* Every run of deploy ends by itself, unless the pi it talks to is back in its
\* loader, or never left it because the answer to its request was lost: the waits for
\* GET_CODE (bootpi.c:162) and for dummies drop GET_PROG_INFO without a limit.
DeployEnds == phase # "off" ~> (phase = "off" \/ Deaf)

(***************************************************************************)
(* The inductive invariant behind the properties above.                     *)
(***************************************************************************)

Talking == {"boot", "drain"} \cup Dialogue

\* Where the pi can be at each phase of the dialogue with it, and when a reply
\* can be waiting.
Session ==
    /\ phase # "off" => fs \in FsNames
    /\ phase \in Talking => cur \in Disks
    /\ phase = "name" => pi[cur] \in {"entry", "loader"} /\ tty[cur] = None
    /\ phase = "mount" =>
         /\ pi[cur] \in {"mounting", "ready", "panicked", "loader"}
         /\ pi[cur] \in {"mounting", "ready"} => ram[cur].fs = fs
         /\ tty[cur] = None
    /\ phase = "answer" =>
         /\ pi[cur] \in {"asked", "decided", "done", "loader"}
         /\ tty[cur] # None => pi[cur] \in {"done", "loader"}
    /\ phase = "claim" => pi[cur] \in {"done", "loader"} /\ tty[cur] # None

\* A pi past SendName has a name, and an id once it was asked.
Remembers ==
    \A d \in Disks :
        pi[d] \in {"mounting", "ready", "asked", "decided"} => ram[d] # None

\* A pi holding an offer is the one deploy waits for, or deploy has died.
Offered ==
    \A d \in Disks : pi[d] = "asked" =>
        \/ ram[d].fs \in forgotten
        \/ /\ phase = "answer"
           /\ cur = d
           /\ ram[d].fs = fs
           /\ ram[d].id = Offer(first_free_id)

\* A counter that has moved will be saved.
WillSave ==
    phase # "off" =>
        /\ first_free_id >= root[fs]
        /\ first_free_id # root[fs] => dirty_dfs \/ (phase = "claim" /\ tty[cur].used)

\* Disk d has recorded the current offer, and can only say so.
Committed(d) ==
    /\ pi[d] \in {"decided", "done", "loader"}
    /\ pi[d] = "decided" => ram[d].used
    /\ tty[d] # None => tty[d].used

\* Every recorded id is below the counter, but for the offer on its way.
Covered ==
    \A n \in FsNames \ forgotten : Counter(n) < IdSpace =>
        \A d \in Disks \ misread : \A k \in DOMAIN cfg[d] : cfg[d][k].name = n =>
            \/ cfg[d][k].id < Counter(n)
            \/ /\ phase = "answer"
               /\ fs = n
               /\ cur = d
               /\ cfg[d][k].id = first_free_id
               /\ Committed(d)

\* The pi that deploy waits for works on deploy's filesystem and offer.
SameTalk ==
    phase = "answer" =>
        /\ pi[cur] \in {"asked", "decided"} => ram[cur].fs = fs
        /\ pi[cur] = "asked" => ram[cur].id = Offer(first_free_id)

\* A pi decides for, and replies with, the id that a lookup on its card finds.
Honest ==
    /\ \A d \in Disks : pi[d] = "decided" => Recalls(d, ram[d].fs, ram[d].id)
    /\ phase \in {"answer", "claim"} /\ tty[cur] # None => Recalls(cur, fs, tty[cur].id)

\* A pi that says, or will say, that it used the offer has used it.
Spent ==
    phase = "answer" =>
        /\ pi[cur] = "decided" /\ ram[cur].used => Taken(cur, fs, Offer(first_free_id))
        /\ tty[cur] # None /\ tty[cur].used => Taken(cur, fs, Offer(first_free_id))

\* A config sector has one entry for a name.
OneEntry ==
    \A d \in Disks \ misread : \A j, k \in DOMAIN cfg[d] : cfg[d][j].name = cfg[d][k].name => j = k

\* The inductive invariant: the dialogue of deploy with a pi, the counter that
\* will be saved and the ids it covers, and what the replies of the pies are worth.
IInv ==
    /\ TypeOK /\ Session /\ Remembers /\ Offered /\ WillSave
    /\ Covered /\ UniqueIds /\ OneEntry
    /\ SameTalk /\ Honest /\ ToldIsRecorded /\ Spent /\ NoIdSkipped

(***************************************************************************)
(* The registry of ids that the config sectors make up together.            *)
(***************************************************************************)
EntriesFor(d, n) == {k \in DOMAIN cfg[d] : cfg[d][k].name = n}

HeldId(d, n) ==
    IF EntriesFor(d, n) = {} THEN None
    ELSE cfg[d][CHOOSE k \in EntriesFor(d, n) : TRUE].id

Held == [d \in Disks |-> [n \in FsNames |-> HeldId(d, n)]]

\* A record is lost with the counter of a deploy that died, or used up.
Lost == {n \in FsNames : n \in forgotten \/ Counter(n) >= IdSpace}

Registry == INSTANCE IdRegistry WITH holds <- Held, lost <- Lost, broken <- misread

\* The pies' config sectors and the mac's counter together behave as one
\* registry: an id, once given to a disk, is never changed or taken back, and
\* it is given to one disk only until the record is lost, but for disks whose
\* config sector was not read when it was searched.
ImplementsRegistry == Registry!Spec

(***************************************************************************)
(* Statements of the repository's documents that the code does not keep.    *)
(***************************************************************************)

\* PLAN.txt:6, "A counter indicating the first unallocated disk id": between
\* two runs of deploy every id that deploy printed for a pi is below the saved
\* counter.  When get8 panics at a later pi, main never writes the root file.
CounterIsFirstUnallocated == phase = "off" => \A t \in told : t.id < root[t.fs]

\* PLAN.txt:19-21, an entry of the config file is the name of a filesystem and
\* the id of the disk in that filesystem: the id a pi claims for a filesystem
\* is the one recorded for it.  strncmp also matches a name that only begins
\* like the one asked for.
ClaimsItsOwnId == \A t \in told : Holds(t.disk, t.fs, t.id)
=============================================================================
