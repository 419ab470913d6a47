# Verification of rpi0-naivegfs

TLA+ modules of the program, TLC configurations that check them on small
instances, and TLAPS proofs of what matters most for every instance. Line
numbers are those of the sources beside this directory; `PROJECT.json` maps
every definition to its lines.

## 1. The system

`deploy` on a mac boots every Raspberry Pi connected over USB serial, makes each
SD card part of a named filesystem by giving it an id, and then copies what the
pies print. The pi's side is a bare-metal kernel that drives its SD card, mounts
its FAT32 volume, and keeps the ids in a config file there.

| Part | Source | State it keeps | Operations |
|---|---|---|---|
| deploy | `mac-src/pi-install.c` | root file (`first_free_id`), a copy of it in memory, `dirty_dfs`, the pies | read the root file, visit every pi, write the root file back |
| boot protocol | `mac-src/bootpi.c` `boot` | the tty | answer GET_PROG_INFO, send the kernel, wait for BOOT_SUCCESS |
| dfs dialogue, mac | `bootpi.c` `dfs_boot`, `send_string` | `*assignable_id` | send the name, ask to mount, offer an id, read reply and claim |
| dfs dialogue, pi | `pi-src/main.c` `entry`, `get_string`, `id_for_dfs` | `op`, `dfs_name`; the config sector on the card | receive the name, mount, look up or record the id, answer |
| FAT32 | `pi-src/fat32.c`, `fat32-dfs.c` | FAT in memory and on the card, root directory, data | mount, find a file, add a file, find or add the config file |
| SD card driver | `pi-src/bzt-sd.c` | `sd_scr`, `sd_rca`, `sd_err`; controller, card | initialise, read a block, write a block |
| output of the pies | `mac-src/get-pi-output.c` | descriptors, `idx` of the scan, turns | select, read, scan for `DONE!!!`, close |
| the rest | `printk.c`, `gpio.c`, `timer.c`, `string.c`, `start.S`, tty set-up, `throwaway/`, ... | | see section 8 |

**How they interact.** deploy and a pi exchange bytes over one serial line, in
both directions at once. `entry` calls `fat32_init` and `dfs_init_config`, which
call `sd_readblock` and `sd_writeblock` sector by sector; `id_for_dfs` reads and
writes the config sector by itself. The mac and the cards share no state:
uniqueness of ids rests on a counter on the mac and a sector on each card, kept
together by one bit (DUMMY or DUMMY2) of each reply.

**What is hard.** A pi can be reset, and deploy can panic, time out or be killed,
between any two messages, while the id is already on the card and the counter
not yet in the root file. Bytes of an earlier session may still be in the tty.
The end of a name is in-band. Power can fail between the sector writes of one
allocation. The FAT in memory and on the card must agree, in the presence of full
disks, directories with old records and long names. Every wait for the SD
controller can be given up while the card goes on.

**What makes each part correct.**

* ids: no two disks of a filesystem hold the same id; no id is used up without a
  disk; what the mac printed is what the card keeps, as far as its sector had room and
  was read and written; the root counter never goes back; every deploy ends, unless the
  pi it talks to is back in its loader, or never left it because the answer of `boot`
  was lost.
* boot: it succeeds only when the program of this deploy runs, whole, and leaves an
  empty line; it ends, unless its answer to the loader was lost.
* dialogue: both sides stop at the same word of the name; neither waits for the
  other; the reply is counted if and only if the pi used the offer. A pi that used it
  has it on its card, unless the config sector could not be read, was full or could not
  be written, of which it says nothing.
* FAT32: whenever the power fails, no cluster is shared and every file in the
  directory is there whole; the config file is found again, once. Old records behind
  the end of the directory stay hidden, unless they begin a cluster.
* SD driver: a call that succeeds did what it says, whatever earlier calls left
  behind; a call that was given up changes only its own block.
* output: a pi is closed as done exactly when it said so; the loop ends, unless a pi
  prints on and on without a pause and without the exit string.

## 2. Modules

| Module | What it is |
|---|---|
| `DfsBoot` | ids: deploy, all pies and their config sectors, whole messages |
| `IdRegistry` | abstract: a registry of ids |
| `BootLoader` | `boot` word by word, against the loader; refines `DfsBoot` |
| `DfsLink` | one dialogue, byte by byte; refines `DfsBoot` |
| `Fat32` | the volume, one step per sector write |
| `FileStore` | abstract: files are added whole, on clusters of their own |
| `BlockDevice` | abstract: blocks that are read and written by calls that may fail |
| `SdDriver` | calls of the driver, register by register; refines `BlockDevice` |
| `PiOutput` | `get_pi_output` |
| `MC...` | instances for TLC: constants that need a definition |
| `DfsBootProofs`, `DfsLinkProofs`, `BootLoaderProofs`, `SdDriverProofs`, `PiOutputProofs` | theorems about each |
| `Fat32Proofs`, `Fat32FilesProofs` | theorems about the volume, and about its files |
| `NatLemmas` | the least number with a property |

```
IdRegistry  <== DfsBoot <== BootLoader  (boot: LoadKernel of DfsBoot)
                        <== DfsLink     (the dialogue that follows)
FileStore   <== Fat32
BlockDevice <== SdDriver               <==  is implemented by
```

Operators named `X_Something` beside `X` are mutants: the definition with a
plausible bug. For each property of each passing run one of them, put in the
place of `X`, makes TLC find the property violated.

### DfsBoot

One action per step of `dfs_boot` and of `entry` as seen from outside:
`Deploy` (main up to `boot_connected_pies`), `OpenPi`/`OpenFails`, `LoadKernel`
(`boot`), `AnswerLost`, `SendName`, `SelectTimeout`, `OfferId`, `ReadAnswer`,
`ReadClaim`, `SaveRoot`, `Panic` (any `get8` that sees ten silent seconds exits the
process), `BootPanics` (`boot` saw a word it does not expect) and `Killed`; on the pi `PiMounts`, `PiPanics`, `IdForDfs`, `PiAnswers`, and
`Reset` at any moment. `StartsLate` is the loader that has the whole kernel and
starts it although deploy is gone: the next deploy then meets an `entry` that waits
for a dialogue. `AnswerLost` is the loader that is started again, or misses a byte,
after `boot` has answered it: `boot` then drops its requests in phase "drain", for ever
(`bootpi.c:162`), until it is killed or sees a word it does not expect.

Nobody looks at what reads and writes return. The write of the config sector may fail,
and the write of the root file (`WriteRoot`); a read of the config sector may fail, and
`IdForDfs` then searches, and writes back, whatever memory holds (`Unread`).
`told`, `forgotten`, `unwritten` and `misread` are history: the ids printed, the
filesystems whose counter was not saved, the entries whose write failed, and the disks
that were searched without having been read.

Abstractions: deploys do not overlap (one mac, one root file); one root file per
filesystem name; the order of the tty names is any order, since it says nothing
of the disks; a message is one step (`DfsLink` shows when that is right);
the cards start without a config, states with entries are reached by running.
`strncmp` of the pi, which stops at the end of the shorter name, is `SameName`.

### BootLoader

`boot`, one action per word or byte it waits for or sends: `FirstWord` and `SeekByte`
look for GET_PROG_INFO at any alignment, `StringLength` and `StringChar` pass on what
the loader prints, `SendInfo` is the answer, `Drain` drops the repeats of the
request, `PutCode` and `PutByte` send the program, `Wait` skips words until
BOOT_SUCCESS or until `WaitLimit` is passed, `ReadTimeout` is ten silent seconds in
`get8`. `crc32` is translated with its table, whose 256 words are defined as what eight
divisions by the polynomial leave of a byte, which is what the literal words of
`boot-crc32.h` are; the loader's `Checksum` has no table and divides bit by bit, so that
a boot that succeeds also says that the two agree.

The loader is not in the repository. It does what `boot-defs.h` and `boot` expect of
it: it prints or does not, asks again for as long as the tty is nearly empty
(`MaxWaiting` bounds the repeats), checks the answer and the program, answers
BOOT_ERROR and starts over, or starts the program. Several deploys follow each other;
each may be killed at any step and leaves the line and half-read words behind
(`Killed`, `ReadTimeout`; what the process itself knew is `Gone`), the line may lose or
change any byte in either direction (`LineFails`), the pi may lose its power
(`PowerFails`). `undisturbed` and `harm` are history: whether the deploy met a waiting
loader and no fault; and whether nothing befell it, one garbled byte of its program, or
more than that, an old request in the tty included (`OldRequest`).

Two conditions are in the properties because the code needs them. `Unanswered`: when
a loader is started again, or its answer is lost, after `boot` has answered, the loop
of `bootpi.c:162` drops its requests for ever, since `boot` answers once. A whole
GET_PROG_INFO of an earlier boot still in the tty is answered at once; `Boots` does
not claim what becomes of that.

### DfsLink

The same dialogue with its words, one mac and one pi. `put32` appends four bytes
at once, `get32` takes four, `PutByte` puts one byte of the pi on the line, and
the pi's waiting loops shift one byte at a time into `op` (`AwaitWord`), as the
code does. `get_string` stores words until dfs_name is full or a word is all ones.
The pi may restart at any moment and then repeats GET_PROG_INFO, which the
mac's reads take for words of the dialogue. `LookUp` is `id_for_dfs` with the answer: it
finds what is on the card (`OnDisk`), or, when the sector was not read, anything or
nothing; and what it records may not reach the card, because the write failed or the
sector had no unused entry. The pi answers the same in all these cases; `answer` keeps
what it said and which of them it was (`read`, `written`).

`ReadTimeout` and `SelectTimeout` are enabled only when the pi cannot be about to send anything (`Quiet`): a pi that only moves bytes is faster
than ten seconds, a pi at its card may not be. `get32` is taken to read the low
byte first; its four calls are operands of `|`, whose order C leaves open.
The UART loses nothing and reorders nothing.

`Framed(n)` are the names whose end both sides see at the same word: length a
multiple of four and at most 24, or 23, 25, 26. The Makefile's
`partition-02.dfs` is one of them.

### Fat32

`Mount` is `fat32_init`: it looks at the four entries of the partition table
(`parts`), panics at a second one in use or at sectors of another size, and reads the
FAT (`ReadTable`). With none in use it goes on with a volume of zeros, whose search
never ends (`lost`). `InitConfig` is `dfs_init_config`, `Create` any other
`fat32_alloc_local_file`; an allocation then goes through `MarkCluster`,
`BlankCluster`, `LinkCluster` for every cluster, `WriteDir` and, when the terminal
falls into the next sector of the cluster, `CopySector`. At the end of a cluster
`fat32.c:273-290` writes no terminal: if the next cluster of the directory begins with
an old record (`Uncovers`), that one and those behind it are part of the directory again.
`uncovered` records that this has happened; with zeros behind the terminal it cannot. Each of these writes at most one sector
and `Restart` may come between any two. `DiskFull` is `find_free_local_cluster`
returning -1, which nobody checks: the word written lies a gigabyte behind the
table, and the sector write may hit any data cluster (`WildWrite`).

The FAT is read with sectors 2048 bytes apart and used with sectors 512 bytes
apart. `Loaded` says what is then in memory: the first `W` entries are right,
`3 W` words behind them were never written (`Junk`), and so on. `strayed` records
that a cluster with its entry beyond the first `W` was taken. From then on
nothing is claimed.

Abstractions: the clusters of the root directory are not in `Clusters` and their
FAT entries are in the first sector (where a cluster has sixteen sectors or more, the
search of a full directory goes on in the second copy of the FAT, since the number of the
end of the chain wraps around: that is one more cluster of the directory, counted in
`RootLen`); names are compared, not spelled; of a file's
data only the first sector of each cluster is told apart, by its last writer; the
arithmetic from clusters to sectors is left out; only the
first copy of the FAT exists; a sector write succeeds (`SdDriver` has the ones
that do not). With `cfgc = -1` `id_for_dfs` writes into the second copy of the FAT,
which nothing reads. A search that finds no terminal never returns (`lost`).

### SdDriver

`sd_init`, and `sd_readblock` and `sd_writeblock` for one block, which is all that
any caller asks for. `pc` is the wait the driver is in; `code` and `nested` the
command `sd_cmd` is sending, with CMD_APP_CMD before those that need it; `ints`,
`inhibit`, `resp`, `fifo` the registers. Every wait may be given up at any time,
also when what it waits for shows in the last poll, which the code takes for a
timeout. `SendCommand` is the wait for the command line that ends well and the
write of the registers after it. The controller and the card are not in the
repository: `CardAnswers`, `CardFails`, `BufferReady`, `DataDone`, `DataFails` are
what the driver must expect of them, at any moment and in particular after it has
stopped waiting.

`sd_init` starts with `Reset` (whose unsigned count cannot see that the reset failed,
so that the flags and lines the firmware left may stay) and `SetClock`: `Divisor`,
`Log2` and `Hz` compute the clock for both versions of the host, and a command may
only be sent when the card bears the clock. `cause` is history: that a fault or a
timeout belongs to the call in progress. The GPIO set-up is left out.

`BlockDevice` is what a caller sees: one call at a time; a call that succeeds did what
it says, with no earlier write outstanding; a write that failed may still be stored,
or damage its block, until a later call succeeds. Nothing is promised when `sd_init`
has failed.

The bit SCR_SUPP_CCS shares a word with the card's SCR, so `ReadScr` sets it to
anything until `sd_init` ends. main ignores the result of `sd_init`; calls are
possible after a failure, and the properties speak of those after a success.

### PiOutput

One turn of the outer loop is `Select`, `Pick` (which takes the first open pi,
ready or not: `prev_pi` is never set), and the reads `ReadData`, `ReadNothing`,
`ReadError` with `MoreToRead` or `Pause` between them. `idx` is the one static of
`pi_done_scan`, for all pies. `lent` records the pies that began with
matches of another one. A pi prints one of a few scripts, character by character,
and can be unplugged at any moment. A script that ends in `Chatter` goes on with it for
ever; any length of chatter is kept as one character, which is all the scan can tell.

## 3. Runs

| Run | Instance | Shows |
|---|---|---|
| `dfsboot_two` | 2 disks, 2 names, 2 entries, 3 ids, 2 deploys, killable, failing reads and writes | `UniqueIds`, `NoIdSkipped`, `ToldIsRecorded`, `RootNeverRegresses`, `DeployEnds`, the registry refinement, and `IInv` |
| `dfsboot_lost` | 2 disks, 1 name, 2 deploys | finding: ids printed for pies are lost when a later pi falls silent |
| `dfsboot_prefix` | 2 names, one the beginning of the other | finding: a disk claims the id of another filesystem |
| `boot_load` | 3 programs, one of them too large, a text or none, a tty that is empty or holds old bytes, 2 deploys, 1 fault | `HandsOver`, `BootEnds`, `Boots`, refinement of `DfsBoot`, and `IInv` |
| `dfslink_whole` | names of all lengths 1 to 30; counter 0, 255, 256; new card or one with id 0 or 7; failing reads and writes; restarts | framing, no mutual wait, reply counted iff used, what was used is on the card, sessions end, refinement of `DfsBoot`, and `IInv` |
| `dfslink_framing` | the same without restarts | finding: for most lengths the mac takes an early dummy for "mounted" |
| `fat32_power` | 3 volumes, 5 clusters, 4 records, power loss anywhere | `Sound`, `ImplementsFileStore`, `ConfigFoundAgain`, `SizeUnlessFull`, `FilesKept`, `IInv` |
| `fat32_stale` | old records behind the terminal, 2 clusters of 2 sectors of 2 records; partition tables with none, one or two in use | `ImplementsFileStore` without power loss, `OnlyItsVolume`, `ComesBack` |
| `fat32_sectors` | 15 clusters, FAT sectors of 4 entries | finding: a cluster in use is given out |
| `fat32_longname` | a long name in the last sector | finding: listing and search stop at different records |
| `pioutput_three` | 3 pies, 6 scripts, two of them without end, 3 turns | `DoneIsItsOwn`, `NoneLeftOpen`, `Ends`, and `IInv` |
| `sd_calls` | 2 blocks, 2 values, both kinds of card | `SuccessIsTrue`, `ModeAgrees`, `ClockFits`, `FailsForCause`, `CallsEnd`, refinement of `BlockDevice`, and `IInv` |

**Why the bounds are enough to be of interest.**

* `dfsboot_two`: with two deploys a disk is new in the first and known, new or
  forgotten in the second; three ids with two disks and two names let the counter
  wrap; two entries let a config sector be full; deploy may die everywhere, each
  write may fail, and each read of a config sector, whose memory then holds zeros. About
  410,000 states.
* `boot_load`: programs of one byte, made of a byte that requests are made of or of the
  one that noise is, and one of two bytes, which is more than `MaxSize`; an old tty content
  that ends in half a request, and a text that looks like one; two deploys let the second
  meet whatever the first left; the one fault may hit any byte of either direction.
  `WaitLimit` is 1 instead of 4294901760: what matters is that it is passed. About
  1,350,000 states.
* `dfslink_whole`: all lengths that fit into MAX_DFS_NAME_LEN and all that do not
  fit by word; the bytes of a name are pairwise different, so a misplaced byte
  shows; 255 and 256 are the last id and the wrap. `DONE!!!` and PANIC are real
  bytes. About 400,000 states.
* `fat32_power`: files of one, two and three clusters on five, so that the card runs
  full in the middle of a chain; sectors of two records, two to a cluster, so that
  the new record is the last of its sector and of its cluster; the volumes are a
  fresh one, one with a fragmented file and a long name, and one with a deleted
  file and a config file. About 2,000,000 states.
* `fat32_stale` takes two clusters of two sectors, so that a new record can be the last
  of its sector or of its cluster with old records right behind, at the start of the next
  cluster or behind a terminal there; the directory and the card can be full. Without
  `uncovered` the property is violated. About 23,000 states.
* `pioutput_three`: an exit string of three characters can be cut in two places;
  the scripts are none, the string and more, a false start, an end without a
  beginning, and two that end in chatter, behind the string and instead of it. About
  790,000 states. As in `"DONE!!!\n"` the first character occurs once, which the simple
  fallback of the scan needs.
* `sd_calls`: with two blocks of two bytes in a space of four values a byte address
  can be mistaken for a block; two tries of ACMD41 show the loop and its limit. The
  number of calls is not bounded. About 430,000 states.

Deadlock is checked except in the runs of `BootLoader`, `DfsLink` and `PiOutput`, which
model a number of deploys, one session and one loop that end.

**Fairness.**

* `BootLoader`: weak fairness of the mac, whose reads have a timeout, and of a loader
  with power that has bytes to read or to put. `Boots` needs the loader to go on;
  `BootEnds` does not need it to succeed.
* `DfsBoot`, `DfsLink`, `PiOutput`: weak fairness of the mac's steps. Each wait of
  deploy has a limit in the code: VTIME of ten seconds in every read, 20 seconds in
  the select of `dfs_boot`, 50 ms and ten seconds in `get_pi_output`. Nothing is
  assumed of a pi, except in `DfsLink` that one which only has to move bytes does
  so; never that its card answers.
* `DeployEnds` and `SessionEnds` leave out a pi that falls back into its loader in
  the middle: it sends GET_PROG_INFO for ever and the mac's loop for a dummy
  skips it for ever. `DeployEnds` and `BootEnds` leave out the same of `boot`, whose loop at
  `bootpi.c:162` drops the requests of a loader that lost the answer. While no answer is
  lost, a loader takes the kernel: `LoadKernel` is among the mac's fair steps, `AnswerLost`
  is not.
* `Ends` leaves out a pi that has ended its text without the exit string and prints on
  without a pause (`KeptByChatter`): the loop over one pi (`get-pi-output.c:113`) has no
  limit of its own.
* `SdDriver`: weak fairness of the driver, whose waits all count down, but for the
  loop that reads the SCR, whose count is never decremented. `CallsEnd`
  leaves that loop out; it is the one place where the claim would be false.
* `Fat32`: weak fairness of the pi's own steps: one sequential program whose driver
  calls come back (`CallsEnd`). `ComesBack` excepts the search of a full directory, which
  waits for an end of the chain that it cannot see (`fat32.c:45, 209`).

## 4. Where the code and its documents disagree

1. `fat32.c:980`: `struct sector` is four sectors long. The FAT is spread in memory
   and all but its first 128 entries are wrong (`fat32_sectors`).
2. `fat32.c:310`: the sector copied behind a full one carries records of long names,
   which hide the terminal from the search (`fat32_longname`).
3. `PLAN.txt:6`: the counter is not "the first unallocated disk id" after a panic
   (`dfsboot_lost`).
4. `PLAN.txt:19`: `strncmp` takes a name for any other that begins with it
   (`dfsboot_prefix`).
5. `bootpi.c:90`: the dummy does not always "indicate completion"
   (`dfslink_framing`).

There is no run for `get-pi-output.c:41`, which announces a round robin while the loop
always takes the first open pi: this is plain from the code, and `PiOutput` models it
as it is.

What holds only under a condition has the condition in the property: `UniqueIds`
excludes a `forgotten` counter, a wrapped one and disks that were `misread`, `NoIdSkipped`
and `ToldIsRecorded` full sectors, `unwritten` entries and `misread` disks,
`CountedIsRecorded` of `DfsLink` claims that an offer is on the card only where the sector
was read and written (`Sure`), `Sound` excludes a `strayed` allocation,
`ImplementsFileStore` also one that `uncovered` old records at the end of a cluster,
`ConfigFoundAgain` and the like also a full card, `DoneIsItsOwn` a `lent` count, and the
liveness properties what is said of them under fairness.

`HandsOver` and `ImplementsDfsBoot` of `BootLoader` hold as they stand for two deploys, and
`boot_load` checks them so; nothing in the dialogue tells an answer to one deploy from an
answer to another. Four deploys are enough to see it: three that are killed at the right
places leave, on one line, an old request and a whole answer of the loader with its
BOOT_SUCCESS, and the fourth reads both as its own. The theorems have the condition under which the two hold for any
number of deploys.

## 5. What is proved

All proofs are for every value of the constants, under the named assumptions of
the module, which TLC evaluates in every run, and the hypotheses named here. A safety
property is proved from an inductive invariant, `IInv`, which a run checks too: TLC
is the quicker way to find out that a conjunct is missing. The proofs have a lemma
for each action (or for a few that do the same), in it a step for what the action
does to the state, and then one step for each conjunct it can disturb.

| Component | Invariants and action properties | Refinement |
|---|---|---|
| `DfsBoot` | `UniqueIds`, `NoIdSkipped`, `ToldIsRecorded`, `RootNeverRegresses` | `IdRegistry` |
| `DfsLink` | `OneWordInFlight`, `NameArrivesWhole`, `NoMutualWait`, `ReadyMeansMounted`, `CountedIsRecorded` | `DfsBoot` |
| `Fat32` | `Sound`, `OnlyItsVolume`, `SizeUnlessFull`, `ConfigFoundAgain`, `FilesKept` | `FileStore` |
| `SdDriver` | `SuccessIsTrue`, `ModeAgrees`, `ClockFits`, `FailsForCause` | `BlockDevice` |
| `PiOutput` | `DoneIsItsOwn`, `NoneLeftOpen` | none |
| `BootLoader` | `HandsOver` where no more than one byte of the program was garbled; who may fail (`FailsForSize`) | `DfsBoot`, under the same condition |

**`DfsBootProofs`**. `UniqueIds` is not inductive: that a new entry is unique depends
on where its id came from. `IInv` adds

* `Session`: where the pi can be in each phase of the dialogue, and when a reply can
  be waiting, so that no reply is another session's;
* `Remembers`, `Offered`: a pi that holds an offer holds the current counter and is
  the one the mac waits for, unless the counter is `forgotten`;
* `WillSave`: a counter that has moved is dirty, or about to be;
* `Covered`: every recorded id is below the counter, but for the one just recorded
  whose reply is on its way (`Committed`), and those on `misread` disks;
* `SameTalk`, `Honest`, `OneEntry`: the pi works on deploy's filesystem and offer, and
  what it decides and replies is what a lookup on its card finds. `ToldIsRecorded`
  follows, since a later entry never changes what a lookup finds;
* `Spent`: a pi that says it used the offer has used it, so `NoIdSkipped` survives the
  increment of the counter.

`Covered` uses `CounterStep`: no step lowers the counter of a filesystem that is not
forgotten. `IsRegistry` shows `ImplementsRegistry` action by action: recording an
entry is `IdRegistry`'s step, a disk that becomes `misread` is `broken` there, everything else leaves the registry as it is.

**`DfsLinkProofs`**. The dialogue is a script: word 1 is FS_ID_START, then those of
the name, and so on (`Script`). `OneWordApart` is the argument: counting the words that
the pi has heard, either the next one is on the line, byte by byte (`Coming`), and the
mac waits for its answer; or its answer is on the way (`Due`); or the mac has that
answer and has not sent the next one. `Stored` and `Ended` say that what was heard is what
is in dfs_name and that both sides count the same words, `OpBefore` what is left in
`op` while bytes shift through it; `CutOff` is what a pi that was reset leaves
behind, `Answered` and `Booked` tie the answer to what the pi did (`Recorded`), and so to
the card where it is `Sure`, and to the counter. Most
lemmas are about words and bytes: the words of a name (`NameWordIs`), where
`get_string` stops (`FramedStops`, `StopsFramed`, `NameWhole`), and that no text
after a dull line makes a dummy (`DullTake`, `DullAsk`). `NameArrivesWhole`,
`ReadyMeansMounted` and `NoMutualWait` follow. The assumption that
MAX_DFS_NAME_LEN is at least 4 is of the module, as `get_string` stores whole words.

`IsDfsBoot` is the refinement, one lemma for each kind of step. A message counts as
sent when the pi has read its last word, so `SeeConfigInit` is `DfsBoot`'s `SendName`,
`TakeOffer` its `OfferId`, and the byte that ends the first word of the answer is
`PiAnswers`; the words before them change nothing that `DfsBoot` sees (`MacStutters`,
`PiStutters`). `DfsBoot` is taken with `MayBeKilled` FALSE: deploy may give up only by
`SelectTimeout`, and die only by `Panic`, where `Silent` says that a pi may keep it
waiting. Beyond `LinkInv`, which holds for every name, this needs three facts: with a
framed name, the entry on the card has the name that arrives (`OnCard`), and a mac that
stopped has left no message half read (`LeftAlone`); and whatever made `select`
return is still there to be read (`SomethingToRead`), so that `get8` never panics
while the pi mounts.

**`Fat32Proofs`** and **`Fat32FilesProofs`**, for every geometry, every content of the memory
that is not read to and any loss of power, assuming that the volumes the card
starts with are sound (`SoundVolume`: no cluster shared, and zeros behind the
terminal) and, for `IInv` and `ConfigFoundAgain` only, that they have at most one config file
(`ConfigVolume`). The volumes of `fat32_power` are such. `IInv` has four parts:

* `VolumeInv`: `Sound` and what it needs to know of the allocation in progress. That
  nothing is ever `uncovered` is part of it (`NothingUncovered`), so that `IsFileStore`
  is about every step on these volumes.
  `TailClear`: no terminal before the first, no long name from its sector on.
  `SlotHeld`: the slot found stays the one where a search stops. `Mirror`: the first
  sector's entries agree in memory and on the card. `InFlight`: the head, the last and
  the new cluster of the file being made are marked, belong to nobody, and are in
  the first FAT sector;
* `Growing`: the chain of the file being made ends with the cluster linked last, and a
  cluster that could not be had is missed for ever, the disk being full;
* `Counting`: what is linked and what is left are what was asked for;
* `ConfigKept`: there is at most one config file, it is known to a pi that is ready, its
  cluster is blank until ids are written to it and no other holds any.

A chain is a recursive function of the number of clusters. Induction by the library's
theorems is out of reach, so `WalkIs`, `ChainIs` and the like argue by the least number
for which a claim fails (`LeastNumber` of `NatLemmas`). Of chains the proofs need that they exist
and are unique (`ChainUnique`), that two of them in a sound table never meet
(`ChainsApart`), that writing an entry that is not on a chain leaves it alone
(`ChainUnchanged`) and that linking a cluster behind its end makes it one longer
(`ChainLonger`). From these, `IsFileStore`: `WriteDir` adds a whole file on clusters of
its own (`NewFile`, `FilledFiles`), and no other step changes what the directory holds
(`MarkFiles`, `LinkFiles`, `CopyFiles`). `FilesKept` is an action property from the same
lemmas. `OnlyItsVolumeHolds` needs no volume to be sound; its invariant `Chosen` says
that a pi that runs has found the one partition in use.

**`SdDriverProofs`**. `SuccessIsTrue` is about flags: one seen by a call must not be left
of an earlier one. `Lines` says that whatever is on its way shows on the lines, so
that waiting for a free line, before a command and after a timeout, waits it out;
`OwnFlags` and `OwnData` that a flag without an error, and data, are those of the call that
is made; `Settled` that nothing is left of a call that succeeded; `OnlyInit` and
`Addressing` cover `sd_init`, `Clocked` the clock. `Divisors` and `HzFits` prove the
arithmetic of the clock for both versions of the host. `IsBlockDevice`
shows the steps of `BlockDevice`: a write that was given up is pending there as long as
`xfer` or the command can still carry it.

**`PiOutputProofs`**. `DoneIsItsOwn` compares a scan that goes on over any number of
reads with the question whether the exit string is in the output at all. `CountIsItsOwn`
is the loop invariant of `pi_done_scan`: `idx` is the length of the longest beginning of
the exit string that the output ends with. One character keeps it (`MatchCounts`),
and a whole read does, by a least counterexample (`ScanCounts`); both need that the
first character of the exit string does not come again (`ExitAssumption`), which is so of
`"DONE!!!\n"`. Of output without end the proof needs that it comes last (`ChatterLast`): all
that is kept of it is one character, at the end. `NoneLeftOpen` is from `TurnsCloseOne` and the number of open pies.

**`BootLoaderProofs`**. `HandsOver` says of the end what `InStep` says of every step: in each
state of `boot`, where the loader is, and what is on the line byte for byte.
`Answered`: the words of the answer that were sent are on the line, or the loader has the
first and waits for the others; `Accepted`, `TooLarge`: behind some requests comes the
loader's verdict, which the drain must find in step; `Coming`, `Came`: the
program is on its way, or in memory; `Runs`: it runs, and what is left of the dialogue is
BOOT_SUCCESS, then nothing. It all starts with a request that is the loader's own
(`OldRequest`): while `boot` seeks, with four bytes in `op` and the rest on the line, no
request is there but those of a loader that still waits, so the answer finds it. That this
survives whatever earlier deploys left is about words at any
alignment (`At`, `Occurs`): a request cannot begin inside what the loader prints
(`TextsAssumption`), nor across the end of it and of another word.

A garbled byte of the program must not pass: `ChangeIsNoticed` says that two
sequences that differ in one byte have different checksums. The checksum is linear over
the symmetric difference of sets of bits, and eight divisions lose nothing (`EightXor`,
`EightLosesNothing`), so a difference once made stays. The
loader divides without the table, so `TableIsDivision` shows, for every sequence of bytes,
that the table's and the bit-by-bit checksum agree, again by a least counterexample. That
`PUT_CODE`, sizes and checksums cross the line as words is `Number`, `Value`, `WordOf` and
`BitsOf`, with a lemma for each that the reading gives back what was written.

`FailsOnlyForSize`: a deploy that met a waiting loader and no fault gives up only when its
program is larger than the loader takes. It is the safety part of `Boots`. `DivergesOnlyByHarm` is
the refinement step by step; `IsDfsBoot` is `ImplementsDfsBoot` for every behaviour in which
no deploy gets as far as waiting for BOOT_SUCCESS with a lost byte, a byte garbled elsewhere,
a power failure or an old request behind it.

**Only model-checked.**

* Liveness (`DeployEnds`, `SessionEnds`, `BootEnds`, `Boots`, `ComesBack`, `CallsEnd`, `Ends`):
  it needs fairness and ENABLED.
* `ImplementsFileStore` with records behind the terminal, no loss of power and up to the
  first `uncovered` record (`fat32_stale`): not a consequence of `IInv`, which asks for
  zeros there.
* `HandsOver` and `ImplementsDfsBoot` of `BootLoader` for a deploy that met more than a garbled
  byte of its program: true of the instance of `boot_load`, not of every value of the constants.
  A fourth deploy after three killed ones is the counterexample of section 4; two changed bytes can leave a
  checksum as it was.

No module uses a RECURSIVE operator.

## 6. Plan

All modules and the proofs above are done. What could come next:

1. The arithmetic from clusters to sectors, with clusters behind the end of the
   volume (`fat32.c:54`), as operators with theorems.
2. A `BootLoader` in which answers carry a number of their deploy: what it would take
   for `HandsOver` to hold whatever earlier deploys left.

## 7. Running

`tlc -config X.cfg M` and `tlapm M.tla`; the table `runs` of `PROJECT.json` has the
module of each configuration. The longest run takes two minutes.

## 8. Not modelled

* The pi's boot loader is not in the repository; `BootLoader` has it as `boot` sees it.
* Reading the program file (`get-prog.c`): I/O; a program is a sequence of bytes.
* Sector reads and writes that fail under `fat32.c`, which looks at no result: nothing
  is promised then and nothing would hold. Those of the config sector in `main.c` are in
  `DfsBoot` and `DfsLink`.
* What a full card does to a directory that goes on in the second copy of the FAT: the
  blank sector of "no cluster" is written there.
* The two bytes of `dfs_name` behind seven full words, which nothing has set and which
  `strncmp` reads: a name that fills them is never looked up.
* How long a timeout is. Linux's `select` counts it down in place, and neither of the two
  in `get_pi_output` is set back: a pause may come at any time.
* The order of the four `get8` calls of `get32`, other than from left to right.
* The branches of the driver for more than one block: no caller takes them.
* Inspection, dumps, reading of files and the code under `#if 0` in `fat32.c`: no
  running path calls them.
* `printk`, `sprintk`, `gpio.c`, the timer, `memset`: formatting, registers and delays.
* tty set-up and the listing of `/dev`: calls of the operating system; their effect,
  reads with a timeout and a set of pies, is in the models.
* `uart.o`: a binary; a FIFO in each direction.
* `throwaway/`: not built.
