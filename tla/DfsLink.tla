------------------------------ MODULE DfsLink ------------------------------
(***************************************************************************)
(* The serial line under the dialogue that DfsBoot describes, byte by byte: *)
(* one session of deploy (dfs_boot, send_string in bootpi.c) with one pi    *)
(* (entry, get_string, id_for_dfs in main.c), from the start of the kernel  *)
(* to the id the pi claims.  Every word of the mac is answered by a dummy;  *)
(* nothing but the four 0xff behind the name tells the pi where it ends.    *)
(***************************************************************************)
EXTENDS Integers, Sequences, FiniteSets

CONSTANTS
    Names,      \* names of filesystems, as sequences of bytes
    Counters,   \* values of first_free_id the session may start from
    RecordedIds,\* ids the SD card, or memory in its place, may hold for the filesystem
    MaxNameLen, \* MAX_DFS_NAME_LEN: 30
    MayRestart, \* whether the pi may be reset in the middle
    None        \* absence of a value

Byte == 0 .. 255
Byte4 == [1 .. 4 -> Byte]

ASSUME NamesAssumption ==
    Names \subseteq {s \in Seq(Byte) : s # << >> /\ \A i \in DOMAIN s : s[i] \notin {0, 255}}
ASSUME CountersAssumption == Counters \subseteq Nat
ASSUME RecordedAssumption == RecordedIds \subseteq Byte
ASSUME LengthAssumption == MaxNameLen \in Nat /\ MaxNameLen >= 4
Answer == [used : BOOLEAN, id : Byte, read : BOOLEAN, written : BOOLEAN]

ASSUME NoneAssumption ==
    None \notin Byte \cup [name : Seq(Byte), id : Byte] \cup [used : BOOLEAN, id : Byte] \cup Answer

VARIABLES
    name,    \* the argument dfs_name of deploy
    mac,     \* where dfs_boot is
    sent,    \* words of the name sent so far
    counter, \* *assignable_id
    saved,   \* saved_first_free_id
    claim,   \* the id printed for the pi
    pi,      \* where entry is
    op,      \* the last four bytes a wait of entry has seen
    words,   \* what get_string has stored in dfs_name
    out,     \* bytes the pi is putting on the line
    cfg,     \* the config sector: the entry that matches the name, if any
    answer,  \* id and use of the offer, as id_for_dfs returned them; history: whether
             \* its sector was read, and whether what it stored there was written
    toPi,    \* line from the mac to the pi
    toMac    \* line from the pi to the mac

macVars == <<name, mac, sent, counter, saved, claim>>
piVars  == <<pi, op, words, out, cfg, answer>>
vars    == <<macVars, piVars, toPi, toMac>>

(***************************************************************************)
(* The words, low byte first.                                               *)
(***************************************************************************)
FS_ID_START   == <<255, 255, 0, 0>>
CONFIG_INIT   == <<238, 238, 0, 0>>
REQUEST_ID    == <<221, 221, 204, 204>>
DUMMY         == <<120, 86, 52, 18>>
DUMMY2        == <<255, 222, 188, 154>>
GET_PROG_INFO == <<34, 34, 17, 17>>
AllOnes       == <<255, 255, 255, 255>>

\* Mutant: the id in the high byte.
OfferWord_HighByte(n) == <<255, 255, 255, n % 256>>

\* 0xffffff00 | first_free_id
OfferWord(n) == <<n % 256, 255, 255, 255>>
Repeat(b)    == <<b, b, b, b>>
DONE         == <<68, 79, 78, 69, 33, 33, 33, 10>>
PANIC        == <<80, 65, 78, 73, 67, 58, 32>> \o DONE  \* any text before DONE

\* The buffer of boot_connected_pies: four 0xff behind the name, then 0.
ToSend(n) == n \o AllOnes \o <<0>>

\* Mutant: as many words as the name fills, none for what follows it.
WordsInName_NameOnly(n) == Len(n) \div 4

\* (new_len + 1)/4, where new_len counts the four 0xff.
WordsInName(n) == (Len(n) + 5) \div 4

NameWord(n, i) == SubSeq(ToSend(n), 4 * i - 3, 4 * i)

\* Mutant: only 0 ends a string.
Ends_ZeroOnly(s) == {i \in DOMAIN s : s[i] = 0}

\* The string that strncmp and strncpy find in the words received.
Ends(s) == {i \in DOMAIN s : s[i] \in {0, 255}}
StringIn(s) ==
    IF Ends(s) = {} THEN s
    ELSE SubSeq(s, 1, (CHOOSE i \in Ends(s) : \A j \in Ends(s) : i <= j) - 1)

----------------------------------------------------------------------------
Init ==
    /\ name \in Names
    /\ mac = "start"
    /\ sent = 0
    /\ counter \in Counters
    /\ saved = counter
    /\ claim = None
    /\ pi = "sd_init"
    /\ op = <<0, 0, 0, 0>>
    /\ words = << >>
    /\ out = << >>
    /\ cfg \in {None} \cup [name : {name}, id : RecordedIds]
    /\ answer = None
    /\ toPi = << >>
    /\ toMac = << >>

(***************************************************************************)
(* The mac.  write sends the four bytes of a word at once; get32 takes four *)
(* bytes, waiting for each.                                                 *)
(***************************************************************************)
Put32(w) == toPi' = toPi \o w

Word  == SubSeq(toMac, 1, 4)
Get32 == Len(toMac) >= 4 /\ toMac' = SubSeq(toMac, 5, Len(toMac))

\* get32 in a loop until a dummy: any other word is dropped.
AwaitDummy(from, to) ==
    /\ mac = from
    /\ Get32
    /\ mac' = IF Word = DUMMY THEN to ELSE from
    /\ UNCHANGED <<name, sent, counter, saved, claim, piVars, toPi>>

StartName ==
    /\ mac = "start"
    /\ Put32(FS_ID_START)
    /\ mac' = "ack_start"
    /\ UNCHANGED <<name, sent, counter, saved, claim, piVars, toMac>>

AckStart == AwaitDummy("ack_start", "name")

\* Mutant: send_string does not wait for the dummies.
SendWord_NoAck ==
    /\ mac = "name"
    /\ sent < WordsInName(name)
    /\ Put32(NameWord(name, sent + 1))
    /\ sent' = sent + 1
    /\ mac' = "name"
    /\ UNCHANGED <<name, counter, saved, claim, piVars, toMac>>

SendWord ==
    /\ mac = "name"
    /\ sent < WordsInName(name)
    /\ Put32(NameWord(name, sent + 1))
    /\ sent' = sent + 1
    /\ mac' = "ack_word"
    /\ UNCHANGED <<name, counter, saved, claim, piVars, toMac>>

AckWord == AwaitDummy("ack_word", "name")

AskMount ==
    /\ mac = "name"
    /\ sent = WordsInName(name)
    /\ Put32(CONFIG_INIT)
    /\ mac' = "select"
    /\ UNCHANGED <<name, sent, counter, saved, claim, piVars, toMac>>

\* select returned: there is a byte to read.
Readable ==
    /\ mac = "select"
    /\ toMac # << >>
    /\ mac' = "ack_mount"
    /\ UNCHANGED <<name, sent, counter, saved, claim, piVars, toPi, toMac>>

\* "Pi has set up its fat."
AckMount == AwaitDummy("ack_mount", "mounted")

AskId ==
    /\ mac = "mounted"
    /\ Put32(REQUEST_ID)
    /\ mac' = "ack_request"
    /\ UNCHANGED <<name, sent, counter, saved, claim, piVars, toMac>>

AckRequest == AwaitDummy("ack_request", "offer")

OfferId ==
    /\ mac = "offer"
    /\ Put32(OfferWord(counter))
    /\ mac' = "ack_offer"
    /\ UNCHANGED <<name, sent, counter, saved, claim, piVars, toMac>>

\* DUMMY2: the offer was used.
Counted(w) == IF w = DUMMY2 THEN counter + 1 ELSE counter

AckOffer ==
    /\ mac = "ack_offer"
    /\ Get32
    /\ counter' = Counted(Word)
    /\ mac' = IF Word \in {DUMMY, DUMMY2} THEN "claim" ELSE "ack_offer"
    /\ UNCHANGED <<name, sent, saved, claim, piVars, toPi>>

ReadClaim ==
    /\ mac = "claim"
    /\ Get32
    /\ claim' = Word[1]
    /\ mac' = "done"
    /\ UNCHANGED <<name, sent, counter, saved, piVars, toPi>>

(***************************************************************************)
(* The pi.  It reads the line only when it has nothing to put on it.        *)
(***************************************************************************)
PutByte ==
    /\ out # << >>
    /\ toMac' = Append(toMac, Head(out))
    /\ out' = Tail(out)
    /\ UNCHANGED <<macVars, pi, op, words, cfg, answer, toPi>>

\* op = op >> 8 | uart_get8() << 24, until op is the word awaited.
AwaitWord(from, w, to, reply) ==
    /\ pi = from
    /\ out = << >>
    /\ toPi # << >>
    /\ op' = Append(Tail(op), Head(toPi))
    /\ toPi' = Tail(toPi)
    /\ \/ op' = w /\ pi' = to /\ out' = reply
       \/ op' # w /\ UNCHANGED <<pi, out>>
    /\ UNCHANGED <<macVars, words, cfg, answer, toMac>>

\* _cstart sets up the SD card before entry reads anything.
SdInit ==
    /\ pi = "sd_init"
    /\ pi' = "wait_start"
    /\ UNCHANGED <<macVars, op, words, out, cfg, answer, toPi, toMac>>

SeeStart == AwaitWord("wait_start", FS_ID_START, "name", DUMMY)

\* Mutant: one word more than dfs_name can hold.
NameIsOver_OneMore(ws) ==
    Len(ws) = MaxNameLen \div 4 + 1 \/ (ws # << >> /\ ws[Len(ws)] = AllOnes)

\* The loop of get_string ends when dfs_name is full or a word is all ones.
NameIsOver(ws) == Len(ws) = MaxNameLen \div 4 \/ (ws # << >> /\ ws[Len(ws)] = AllOnes)

\* get_string: store a word, acknowledge it.  It has an op of its own.
StoreWord ==
    /\ pi = "name"
    /\ out = << >>
    /\ Len(toPi) >= 4
    /\ words' = Append(words, SubSeq(toPi, 1, 4))
    /\ toPi' = SubSeq(toPi, 5, Len(toPi))
    /\ out' = DUMMY
    /\ pi' = IF NameIsOver(words') THEN "wait_config" ELSE "name"
    /\ UNCHANGED <<macVars, op, cfg, answer, toMac>>

\* Mutant: the dummy goes out before the file system is mounted.
SeeConfigInit_Early == AwaitWord("wait_config", CONFIG_INIT, "mount", DUMMY)

SeeConfigInit == AwaitWord("wait_config", CONFIG_INIT, "mount", << >>)

\* fat32_init and dfs_init_config have run.
Mount ==
    /\ pi = "mount"
    /\ out' = DUMMY
    /\ op' = <<0, 0, 0, 0>>
    /\ pi' = "wait_request"
    /\ UNCHANGED <<macVars, words, cfg, answer, toPi, toMac>>

MountPanics ==
    /\ pi = "mount"
    /\ out' = PANIC
    /\ pi' = "panicked"
    /\ UNCHANGED <<macVars, op, words, cfg, answer, toPi, toMac>>

SeeRequest == AwaitWord("wait_request", REQUEST_ID, "wait_offer", DUMMY)

\* Four more bytes; of the word only the low byte is kept.
TakeOffer ==
    /\ pi = "wait_offer"
    /\ out = << >>
    /\ Len(toPi) >= 4
    /\ op' = SubSeq(toPi, 1, 4)
    /\ toPi' = SubSeq(toPi, 5, Len(toPi))
    /\ pi' = "lookup"
    /\ UNCHANGED <<macVars, words, out, cfg, answer, toMac>>

\* The bytes of dfs_name, and the string in them.
Received == [k \in 1 .. 4 * Len(words) |-> words[(k + 3) \div 4][((k - 1) % 4) + 1]]
GivenName == StringIn(Received)

\* Mutant: the id of the offer goes out although another one was recorded.
Claimed_Offer(found) == op[1]

\* The id that entry sends: the one of id_for_dfs, or the offer it recorded.
Claimed(found) == IF found # None THEN found ELSE op[1]

\* What the config sector has for the name.
OnDisk == IF cfg = None THEN None ELSE cfg.id

\* id_for_dfs and the answer.  Nobody looks at what sd_readblock and sd_writeblock
\* return, and a sector without an unused entry is written back as it was: the pi
\* answers by what memory held, and says that it used an offer it could not store.
LookUp ==
    /\ pi = "lookup"
    /\ \E found \in {OnDisk, None} \cup RecordedIds, written \in BOOLEAN :
         /\ found # None => written
         /\ answer' = [used |-> found = None, id |-> Claimed(found),
                       read |-> found = OnDisk, written |-> written]
         /\ cfg' = IF found = None /\ written THEN [name |-> GivenName, id |-> op[1]] ELSE cfg
         /\ out' = (IF found = None THEN DUMMY2 ELSE DUMMY) \o Repeat(Claimed(found)) \o DONE
    /\ pi' = "done"
    /\ UNCHANGED <<macVars, op, words, toPi, toMac>>

\* Power cycle: what is in memory is gone, the SD card stays.
Restart ==
    /\ MayRestart
    /\ pi # "loader"
    /\ pi' = "loader"
    /\ out' = << >>
    /\ UNCHANGED <<macVars, op, words, cfg, answer, toPi, toMac>>

\* The bootloader asks for a program again and again.
AskForProgram ==
    /\ pi = "loader"
    /\ out = << >>
    /\ Len(toMac) < 4
    /\ out' = GET_PROG_INFO
    /\ UNCHANGED <<macVars, pi, op, words, cfg, answer, toPi, toMac>>

(***************************************************************************)
(* The limits of the mac's patience: ten seconds for a byte, twenty for     *)
(* select.  A pi that is not at its SD card, and has bytes to read or to    *)
(* put, is faster than that.                                                *)
(***************************************************************************)
Listening ==
    \/ pi \in {"wait_start", "wait_config", "wait_request"} /\ toPi = << >>
    \/ pi \in {"name", "wait_offer"} /\ Len(toPi) < 4

Quiet == out = << >> /\ (Listening \/ pi \in {"sd_init", "mount", "lookup", "panicked", "done", "loader"})

Reading == mac \in {"ack_start", "ack_word", "ack_mount", "ack_request", "ack_offer", "claim"}

SelectTimeout ==
    /\ mac = "select"
    /\ toMac = << >>
    /\ Quiet
    /\ mac' = "gave_up"
    /\ UNCHANGED <<name, sent, counter, saved, claim, piVars, toPi, toMac>>

\* Mutant: no VTIME, read waits for ever.
ReadTimeout_Never == FALSE /\ UNCHANGED vars

\* get8 panics: the process is gone.
ReadTimeout ==
    /\ Reading
    /\ Len(toMac) < 4
    /\ Quiet
    /\ mac' = "panicked"
    /\ UNCHANGED <<name, sent, counter, saved, claim, piVars, toPi, toMac>>

----------------------------------------------------------------------------
MacWorks ==
    \/ StartName \/ AckStart \/ SendWord \/ AckWord \/ AskMount \/ Readable \/ AckMount
    \/ AskId \/ AckRequest \/ OfferId \/ AckOffer \/ ReadClaim
    \/ SelectTimeout \/ ReadTimeout

PiTalks == PutByte \/ SeeStart \/ StoreWord \/ SeeConfigInit \/ SeeRequest \/ TakeOffer

PiAtDisk == SdInit \/ Mount \/ MountPanics \/ LookUp

Next == MacWorks \/ PiTalks \/ PiAtDisk \/ Restart \/ AskForProgram

\* The mac runs, and so does a pi that only has to read and to put bytes; how
\* long it takes at its SD card is unknown.
Fairness == WF_vars(MacWorks) /\ WF_vars(PiTalks)

Spec == Init /\ [][Next]_vars /\ Fairness

----------------------------------------------------------------------------
(***************************************************************************)
(* Properties.                                                              *)
(***************************************************************************)
MacStates == {"start", "ack_start", "name", "ack_word", "select", "ack_mount", "mounted",
              "ack_request", "offer", "ack_offer", "claim", "done", "gave_up", "panicked"}
PiStates  == {"sd_init", "wait_start", "name", "wait_config", "mount", "panicked",
              "wait_request", "wait_offer", "lookup", "done", "loader"}

\* Types; the words of get_string fit into the thirty bytes of dfs_name.
TypeOK ==
    /\ name \in Names
    /\ mac \in MacStates
    /\ sent \in 0 .. WordsInName(name)
    /\ counter \in Nat /\ saved \in Nat
    /\ claim \in Byte \cup {None}
    /\ pi \in PiStates
    /\ op \in Byte4
    /\ words \in Seq(Byte4) /\ 4 * Len(words) <= MaxNameLen
    /\ out \in Seq(Byte)
    /\ cfg # None => cfg.name \in Seq(Byte) /\ cfg.id \in Byte
    /\ answer \in Answer \cup {None}
    /\ toPi \in Seq(Byte)
    /\ toMac \in Seq(Byte)

\* The names whose end the pi sees where the mac stops: the four 0xff make a
\* word of their own, or the words sent fill dfs_name exactly.
Framed(n) ==
    \/ Len(n) % 4 = 0 /\ WordsInName(n) <= MaxNameLen \div 4
    \/ WordsInName(n) = MaxNameLen \div 4

\* The mac never has a second word under way: the pi, which does not read while
\* it is at its SD card, never has more than four bytes waiting in its receive
\* FIFO.
OneWordInFlight == Len(toPi) <= 4

\* What the pi has when it stops listening for the name is the name that deploy
\* was given, whatever follows it in the words received.  A name that fills them is
\* left out: strncmp and strncpy go on in the two bytes of dfs_name behind it, which
\* nothing has set.  Such a name is never looked up.
NameArrivesWhole ==
    /\ pi \in {"wait_config", "mount", "wait_request", "wait_offer", "lookup"}
    /\ Len(name) < 4 * (MaxNameLen \div 4)
    => GivenName = name

\* deploy never waits for a pi that waits for deploy, if the name is framed.
NoMutualWait ==
    Framed(name) => ~ /\ Reading \/ mac = "select"
                      /\ Len(toMac) < 4
                      /\ out = << >>
                      /\ Listening

\* A mac past "Pi has set up its fat" talks to a pi that has.
PastMount == mac \in {"mounted", "ack_request", "offer", "ack_offer", "claim", "done"}
Mounted   == pi \in {"wait_request", "wait_offer", "lookup", "done"}
ReadyMeansMounted == Framed(name) /\ PastMount => Mounted \/ pi = "loader"

\* The sector was read, and what went into it was written.
Sure == answer.read /\ answer.written

\* The pi has used the offer: it is on the SD card if that was read, had room and
\* was written.
Recorded ==
    /\ answer # None /\ answer.used /\ answer.id = saved % 256
    /\ Sure => cfg = [name |-> name, id |-> saved % 256]

\* An offer is counted only when the pi has used it, also when the pi was reset in
\* the middle of its answer; and with a pi that was not, it is counted if and only
\* if it was used, and the id printed is the one the pi answered with, whatever the
\* name.  What was used or answered is on the SD card unless the sector was not
\* read, or was full, or was not written: the pi says nothing of these.
CountedIsRecorded ==
    /\ counter # saved => Recorded
    /\ mac = "done" /\ pi # "loader" =>
          /\ counter # saved <=> answer.used
          /\ claim = answer.id
          /\ Sure => cfg # None /\ claim = cfg.id

\* Every session ends, unless the pi falls back into its bootloader.
SessionEnds == <>(mac \in {"done", "gave_up", "panicked"} \/ pi = "loader")

(***************************************************************************)
(* Why these hold: mac and pi are never more than one word apart.  Script   *)
(* numbers the words of the mac; Heard is the number of the last one that   *)
(* took the pi to where it is.                                              *)
(***************************************************************************)
Script(i) ==
    CASE i = 1 -> FS_ID_START
      [] i \in 2 .. WordsInName(name) + 1 -> NameWord(name, i - 1)
      [] i = WordsInName(name) + 2 -> CONFIG_INIT
      [] i = WordsInName(name) + 3 -> REQUEST_ID
      [] OTHER -> OfferWord(saved)

Heard ==
    CASE pi \in {"sd_init", "wait_start"} -> 0
      [] pi \in {"name", "wait_config"} -> Len(words) + 1
      [] pi \in {"mount", "panicked", "wait_request"} -> WordsInName(name) + 2
      [] pi = "wait_offer" -> WordsInName(name) + 3
      [] OTHER -> WordsInName(name) + 4

\* The words in dfs_name are those the mac sent behind FS_ID_START, be they words
\* of the name or not; none but the last is all ones.
Stored ==
    /\ Len(words) <= WordsInName(name) + 3
    /\ \A i \in 1 .. Len(words) : words[i] = Script(i + 1)
    /\ \A i \in 1 .. Len(words) - 1 : words[i] # AllOnes

\* get_string goes on until the name is over; a pi that saw CONFIG_INIT has stored
\* the words of the name and no other.
Ended ==
    /\ pi \in {"sd_init", "wait_start"} => words = << >>
    /\ pi = "name" => Len(words) < MaxNameLen \div 4 /\ ~NameIsOver(words)
    /\ pi \notin {"sd_init", "wait_start", "name", "loader"} => NameIsOver(words)
    /\ Mounted \/ pi \in {"mount", "panicked"} => Len(words) = WordsInName(name)

\* op before the pi reads the first byte of its next word.
OpBefore ==
    CASE pi \in {"sd_init", "wait_start", "wait_request"} -> <<0, 0, 0, 0>>
      [] pi \in {"name", "wait_config"} -> FS_ID_START
      [] pi \in {"mount", "panicked"} -> CONFIG_INIT
      [] pi = "wait_offer" -> REQUEST_ID
      [] OTHER -> OfferWord(saved)

\* The pi has read k of the four bytes of w, and shifted them into op.
Shifted(k, before, w) ==
    /\ op = SubSeq(before \o w, k + 1, k + 4)
    /\ toPi = SubSeq(w, k + 1, 4)

\* The next word of the mac has not been sent; or it has, and the pi has not yet
\* read it to the end, or has dropped it because it waits for CONFIG_INIT.
Unsent == toPi = << >> /\ op = OpBefore
Coming ==
    /\ Heard + 1 <= WordsInName(name) + 4
    /\ \/ /\ pi \in {"sd_init", "name", "wait_offer"}
          /\ Shifted(0, OpBefore, Script(Heard + 1))
       \/ /\ pi \in {"wait_start", "wait_config", "wait_request"}
          /\ \E k \in 0 .. 3 : Shifted(k, OpBefore, Script(Heard + 1))
       \/ /\ pi = "wait_config"
          /\ Script(Heard + 1) # CONFIG_INIT
          /\ Shifted(4, OpBefore, Script(Heard + 1))

\* The mac has sent i words and waits for the answer to the last one; or it has
\* that answer.
Waiting(i) ==
    \/ mac = "ack_start" /\ i = 1 /\ sent = 0
    \/ mac = "ack_word" /\ i = sent + 1 /\ sent > 0
    \/ mac \in {"select", "ack_mount"} /\ i = WordsInName(name) + 2 /\ sent = WordsInName(name)
    \/ mac = "ack_request" /\ i = WordsInName(name) + 3
    \/ mac = "ack_offer" /\ i = WordsInName(name) + 4

Past(i) ==
    \/ mac = "start" /\ i = 0 /\ sent = 0
    \/ mac = "name" /\ i = sent + 1
    \/ mac = "mounted" /\ i = WordsInName(name) + 2
    \/ mac = "offer" /\ i = WordsInName(name) + 3
    \/ mac = "claim" /\ i = WordsInName(name) + 4

\* What the mac has not read of what the pi said.
Reply == toMac \o out
Later(s, n) == SubSeq(s, n + 1, Len(s))

\* What the pi says to the last word it heard.  The mac drops the words of a panic.
Due ==
    CASE pi \in {"mount", "lookup"} -> {<< >>}
      [] pi = "panicked" -> {Later(PANIC, 4 * k) : k \in 0 .. 3}
      [] pi = "done" -> {(IF answer.used THEN DUMMY2 ELSE DUMMY) \o Repeat(answer.id) \o DONE}
      [] OTHER -> {DUMMY}

\* The mac has sent the word after the last one the pi heard, or it waits for the
\* answer to that one, or has it.
OneWordApart ==
    pi # "loader" /\ mac \notin {"gave_up", "panicked"} =>
        \/ Coming /\ Waiting(Heard + 1) /\ Reply = << >>
        \/ Unsent /\ Waiting(Heard) /\ Reply \in Due
        \/ /\ Unsent /\ Past(Heard) /\ Reply = << >>
           /\ pi \notin {"mount", "panicked", "lookup", "done"}
        \/ Unsent /\ pi = "done" /\ mac = "claim" /\ Reply = Repeat(answer.id) \o DONE
        \/ Unsent /\ pi = "done" /\ mac = "done" /\ Reply = DONE

\* A mac that stopped leaves at most one word on the line.
Hears == pi # "loader" => Unsent \/ Coming

\* No word of s is a dummy, whatever the loader puts behind it.
Dull(s) == \A i \in DOMAIN s : i % 4 = 0 => s[i] \notin {18, 154}

\* What a pi that was reset has left on the line: at most a dummy for a word it
\* had read to the end, or an answer that is true.
CutOff ==
    pi = "loader" =>
        /\ mac \in {"start", "name", "mounted", "offer"} => toPi = << >> /\ Dull(Reply)
        /\ mac \in {"ack_start", "ack_word", "select", "ack_mount", "ack_request"} =>
              \/ Dull(Reply)
              \/ toPi = << >> /\ Len(toMac) >= 4 /\ Word = DUMMY /\ Dull(Later(Reply, 4))
        /\ mac = "ack_offer" =>
              \/ Dull(Reply)
              \/ Len(toMac) >= 4 /\ Word = DUMMY
              \/ Len(toMac) >= 4 /\ Word = DUMMY2 /\ Recorded

\* What the pi answers is what it has done; it has not answered before.
Answered ==
    /\ pi = "done" =>
          /\ answer # None
          /\ Sure => cfg # None /\ answer.id = cfg.id
          /\ answer.used => Recorded
          /\ mac \in {"claim", "done"} => (counter # saved <=> answer.used)
    /\ pi \notin {"done", "loader"} => answer = None

Booked == mac \notin {"claim", "done", "panicked"} => counter = saved

\* What holds for every name.
LinkInv ==
    /\ TypeOK /\ Stored /\ Ended /\ Hears /\ OneWordApart /\ CutOff /\ Answered /\ Booked
    /\ OneWordInFlight /\ CountedIsRecorded

\* The entry on the card is for a name that can arrive whole.
OnCard == cfg # None /\ Framed(name) => cfg.name = name

\* A mac that stopped has left a pi at its SD card or one that listens in vain,
\* but for one that has yet to read the first word, and goes no further then.
LeftAlone ==
    Framed(name) /\ mac \in {"gave_up", "panicked"} =>
        \/ pi \in {"sd_init", "wait_start", "loader"}
        \/ /\ pi \in {"name", "mount", "panicked", "wait_request", "lookup", "done"}
           /\ toPi = << >>

\* A mac that select has let read has something to read, or has read it.
SomethingToRead == mac = "ack_mount" /\ pi # "loader" => Reply # << >>

\* The inductive invariant.
IInv == LinkInv /\ OnCard /\ LeftAlone /\ SomethingToRead

(***************************************************************************)
(* The session as DfsBoot has it: one disk, one run of deploy, its messages *)
(* whole.  A message counts as sent when the pi has read its last word; the *)
(* answer of the pi, when its first word is out.                            *)
(***************************************************************************)
Answering == pi = "done" /\ Len(out) > Len(Repeat(answer.id) \o DONE)

AsPi ==
    CASE pi \in {"sd_init", "wait_start", "name", "wait_config"} -> "entry"
      [] pi = "mount" -> "mounting"
      [] pi \in {"wait_request", "wait_offer"} -> "ready"
      [] pi = "lookup" -> "asked"
      [] Answering -> "decided"
      [] OTHER -> pi

AsPhase ==
    CASE mac = "panicked" -> "off"
      [] mac = "gave_up" -> "save"
      [] mac = "done" -> "next"
      [] mac = "claim" -> "claim"
      [] OTHER -> CASE AsPi = "entry" -> "name"
                    [] AsPi \in {"mounting", "ready", "panicked", "loader"} -> "mount"
                    [] OTHER -> "answer"

AsRam ==
    CASE AsPi \in {"mounting", "ready"} -> [fs |-> GivenName, id |-> 0, used |-> FALSE]
      [] AsPi = "asked" -> [fs |-> GivenName, id |-> op[1], used |-> FALSE]
      [] AsPi = "decided" -> [fs |-> GivenName, id |-> answer.id, used |-> answer.used]
      [] OTHER -> None

AsTty ==
    IF AsPi = "done" /\ mac # "done" THEN [used |-> answer.used, id |-> answer.id] ELSE None

\* Panicked with an offer out: the counter dies with deploy.
AsForgotten == IF mac = "panicked" /\ pi \in {"lookup", "done"} THEN {name} ELSE {}

\* What memory may hold of a sector that was not read; a sector without an unused
\* entry is to DfsBoot one that was not written.
AsUnread == {<< >>} \cup {<<[name |-> n, id |-> i]>> : n \in Names, i \in RecordedIds}
AsUnwritten == IF answer = None \/ answer.written THEN {} ELSE {<<"disk", name>>}
AsMisread   == IF answer = None \/ answer.read THEN {} ELSE {"disk"}

Boot == INSTANCE DfsBoot WITH
    Disks <- {"disk"}, FsNames <- Names, NumEntries <- 16, IdSpace <- 256,
    MaxDeploys <- 1, MayBeKilled <- FALSE, MayFailWrite <- TRUE, Unread <- AsUnread,
    root <- [n \in Names |-> saved],
    phase <- AsPhase,
    fs <- name,
    first_free_id <- counter,
    dirty_dfs <- (mac = "done" /\ counter # saved),
    todo <- IF mac = "done" THEN {} ELSE {"disk"},
    cur <- "disk",
    pi <- [d \in {"disk"} |-> AsPi],
    ram <- [d \in {"disk"} |-> AsRam],
    cfg <- [d \in {"disk"} |-> IF cfg = None THEN << >> ELSE <<cfg>>],
    tty <- [d \in {"disk"} |-> AsTty],
    deploys <- 1,
    told <- IF mac = "done" THEN {[disk |-> "disk", fs |-> name, id |-> claim]} ELSE {},
    forgotten <- AsForgotten,
    unwritten <- AsUnwritten,
    misread <- AsMisread

\* Until the pi restarts, a session with a framed name is one of DfsBoot: the
\* bytes and words of a message may be taken for one step.
ImplementsDfsBoot == [][Framed(name) /\ pi' # "loader" => Boot!Next]_(Boot!vars)

(***************************************************************************)
(* A statement of the repository's comments that the code does not keep.    *)
(***************************************************************************)

\* bootpi.c:59, "the next n <= 30 chars will be the dfs name", and bootpi.c:90,
\* "wait to see the dummy indicating completion": for a name of up to thirty
\* bytes, once the mac has that dummy the pi has mounted.  When the name is not
\* framed, get_string takes CONFIG_INIT for a word of it and acknowledges it.
DummyMeansMounted == Len(name) <= 30 /\ PastMount => Mounted \/ pi = "loader"
=============================================================================
