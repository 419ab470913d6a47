----------------------------- MODULE BootLoader -----------------------------
(***************************************************************************)
(* How deploy puts its kernel into a pi: `boot` of bootpi.c, word by word,  *)
(* against the boot loader on the pi.  The loader is not in the repository; *)
(* it does here what boot-defs.h and boot() expect of it.  DfsBoot takes    *)
(* all of this for one step, LoadKernel.                                    *)
(*                                                                          *)
(* Several deploys follow each other on one tty, each may be killed, and    *)
(* what it left on the line stays there.  The line may lose or garble a     *)
(* byte, the pi may lose its power.                                         *)
(***************************************************************************)
EXTENDS Integers, Sequences, FiniteSets

CONSTANTS
    Programs,    \* kernels that may be deployed, as sequences of bytes
    Texts,       \* what the loader may print when it starts
    Stale,       \* what may be in the tty when the first deploy opens it
    Noise,       \* values that a garbled byte may take
    WaitLimit,   \* words boot skips before it gives up: (uint16_t)-1 << 16
    MaxSize,     \* bound: larger programs are not accepted by the loader
    MaxChars,    \* bound: longer strings count as that long
    MaxWaiting,  \* bound: bytes in the tty with which the loader stops asking
    MaxDeploys,  \* bound: deploys
    MaxFaults    \* bound: bytes lost or garbled, power failures

Byte == 0 .. 255

Least(m, n) == IF m <= n THEN m ELSE n

(***************************************************************************)
(* Words, low byte first.                                                   *)
(***************************************************************************)
GET_PROG_INFO == <<34, 34, 17, 17>>
PUT_PROG_INFO == <<68, 68, 51, 51>>
GET_CODE      == <<102, 102, 85, 85>>
PUT_CODE      == <<136, 136, 119, 119>>
BOOT_SUCCESS  == <<170, 170, 153, 153>>
BOOT_ERROR    == <<204, 204, 187, 187>>
PRINT_STRING  == <<238, 238, 221, 221>>
ARMBASE       == <<0, 128, 0, 0>>

Number(n) == <<n % 256, (n \div 256) % 256, (n \div 65536) % 256, n \div 16777216>>

\* A number of more than two bytes is more than anything here.
Value(w) == IF w[3] = 0 /\ w[4] = 0 THEN w[1] + 256 * w[2] ELSE 65536

Printed(t) == PRINT_STRING \o Number(Len(t)) \o t

\* Word w is in s, aligned or not.
At(w, s, i)  == \A k \in 1 .. 4 : s[i + k - 1] = w[k]
Occurs(w, s) == \E i \in 1 .. Len(s) - 3 : At(w, s, i)

\* The length of a program is an int; what is printed is text, which no byte of
\* the words of the dialogue is.
MaxInt == 2147483647

ASSUME ProgramsAssumption ==
    Programs \subseteq Seq(Byte) /\ \A p \in Programs : Len(p) >= 1 /\ Len(p) <= MaxInt
ASSUME TextsAssumption    ==
    /\ Texts \subseteq Seq(Byte)
    /\ \A t \in Texts : /\ Len(t) <= MaxInt
                        /\ ~Occurs(GET_PROG_INFO, Printed(t))
                        /\ ~Occurs(BOOT_SUCCESS, Printed(t))
ASSUME StaleAssumption    == Stale \subseteq Seq(Byte) /\ Noise \subseteq Byte
ASSUME BoundsAssumption   ==
    /\ {WaitLimit, MaxChars, MaxDeploys, MaxFaults} \subseteq Nat
    /\ MaxSize \in 0 .. 65535
    /\ MaxWaiting \in Nat /\ MaxWaiting >= 4

VARIABLES
    mac,         \* where boot is
    program,     \* the kernel of this deploy, empty before the first
    crc,         \* its checksum
    op,          \* the last four bytes seen by the first loop
    left,        \* characters of a printed string still to come
    sent,        \* words of the answer, or bytes of the program, sent so far
    skipped,     \* i: words that were not BOOT_SUCCESS
    pi,          \* where the loader is
    info,        \* size and checksum the loader was told
    memory,      \* the program that came in last
    out,         \* bytes the pi is putting on the line
    toPi, toMac, \* the line, with the tty's buffer
    deploys, faults,
    started,     \* history: the program of this deploy began to run, all of it sent
    undisturbed, \* history: this deploy met a loader that waits, and no fault
    harm         \* history: what befell this deploy: nothing, a garbled byte of the
                 \* program, or more than that

macVars  == <<mac, program, crc, op, left, sent, skipped>>
piVars   == <<pi, info, memory, out>>
lines    == <<toPi, toMac>>
histVars == <<deploys, faults, started, undisturbed, harm>>
vars     == <<macVars, piVars, lines, histVars>>

----------------------------------------------------------------------------
(***************************************************************************)
(* The checksum.  A word is the set of its bits that are one, so that ^ is  *)
(* the symmetric difference.                                                *)
(***************************************************************************)
Xor(v, w)  == (v \ w) \cup (w \ v)
Shr(w, n)  == {i - n : i \in {j \in w : j >= n}}
Power      == <<1, 2, 4, 8, 16, 32, 64, 128>>
Bits(byte) == {i \in 0 .. 7 : (byte \div Power[i + 1]) % 2 = 1}
Ones       == 0 .. 31

\* 0xedb88320
Polynomial == {5, 8, 9, 15, 19, 20, 21, 23, 24, 26, 27, 29, 30, 31}

Times_x(w) == Xor(Shr(w, 1), IF 0 \in w THEN Polynomial ELSE {})
Divided    == [w \in SUBSET Ones |-> Times_x(w)]

\* The 256 words of the table: what eight divisions leave of a byte.
crc32_tab ==
    [byte \in SUBSET (0 .. 7) |->
        Divided[Divided[Divided[Divided[Divided[Divided[Divided[Divided[byte]]]]]]]]]

\* Mutant: the last ^ ~0U forgotten.
crc32_inc_NotInverted(s, before) ==
    LET c[k \in 0 .. Len(s)] ==
            IF k = 0 THEN Xor(before, Ones)
            ELSE Xor(crc32_tab[Xor(c[k - 1], Bits(s[k])) \cap (0 .. 7)], Shr(c[k - 1], 8))
    IN  c[Len(s)]

crc32_inc(s, before) ==
    LET c[k \in 0 .. Len(s)] ==
            IF k = 0 THEN Xor(before, Ones)
            ELSE Xor(crc32_tab[Xor(c[k - 1], Bits(s[k])) \cap (0 .. 7)], Shr(c[k - 1], 8))
    IN  Xor(c[Len(s)], Ones)

crc32(s) == crc32_inc(s, {})

WordOf(bits) ==
    LET one(k, i) == IF 8 * (k - 1) + i \in bits THEN Power[i + 1] ELSE 0
    IN  [k \in 1 .. 4 |-> one(k, 0) + one(k, 1) + one(k, 2) + one(k, 3)
                             + one(k, 4) + one(k, 5) + one(k, 6) + one(k, 7)]

Sum == [p \in Programs |-> WordOf(crc32(p))]

\* The checksum as the loader knows it, without a table: the division, one bit
\* of the message after the other.
Checksum(s) ==
    LET bit(k) == IF (k - 1) % 8 \in Bits(s[((k - 1) \div 8) + 1]) THEN {0} ELSE {}
        c[k \in 0 .. 8 * Len(s)] ==
            IF k = 0 THEN Ones
            ELSE UNION {Times_x(Xor(w, bit(k))) : w \in {c[k - 1]}}
    IN  Xor(c[8 * Len(s)], Ones)

\* The bits of a word that arrived.
BitsOf(w) == UNION {{8 * (k - 1) + i : i \in Bits(w[k])} : k \in 1 .. 4}

Nothing == [size |-> 0, crc |-> <<0, 0, 0, 0>>]

----------------------------------------------------------------------------
Init ==
    /\ mac = "off"
    /\ program = << >>
    /\ crc = <<0, 0, 0, 0>>
    /\ op = <<0, 0, 0, 0>>
    /\ left = 0 /\ sent = 0 /\ skipped = 0
    /\ pi = "greeting"
    /\ info = Nothing
    /\ memory = << >>
    /\ out = << >>
    /\ toPi = << >>
    /\ toMac \in Stale
    /\ deploys = 0 /\ faults = 0
    /\ started = FALSE
    /\ undisturbed = FALSE
    /\ harm = "none"

\* What the pi has said and boot has not read.
Said == toMac \o out

\* Requests, and nothing else.
OnlyRequests(s) ==
    /\ Len(s) % 4 = 0
    /\ \A i \in 1 .. Len(s) : s[i] = GET_PROG_INFO[((i - 1) % 4) + 1]

\* In s is a request that the loader does not wait for an answer to.
OldRequest(s) ==
    \E i \in 1 .. Len(s) - 3 :
        /\ At(GET_PROG_INFO, s, i)
        /\ ~ (pi = "asking" /\ toPi = << >> /\ OnlyRequests(SubSeq(s, i + 4, Len(s))))

\* The tty is opened and set up; TCSANOW leaves what it holds.
Open(p) ==
    /\ mac \in {"off", "booted"}
    /\ deploys < MaxDeploys
    /\ deploys' = deploys + 1
    /\ program' = p
    /\ crc' = Sum[p]
    /\ mac' = "first"
    /\ op' = <<0, 0, 0, 0>>
    /\ left' = 0 /\ sent' = 0 /\ skipped' = 0
    /\ started' = FALSE
    /\ undisturbed' = (pi \in {"greeting", "asking"} /\ toPi = << >> /\ ~OldRequest(Said))
    /\ harm' = IF OldRequest(Said) THEN "other" ELSE "none"
    /\ UNCHANGED <<piVars, lines, faults>>

(***************************************************************************)
(* The mac.                                                                 *)
(***************************************************************************)
Put32(w) == toPi' = toPi \o w

Word  == SubSeq(toMac, 1, 4)
Get32 == Len(toMac) >= 4 /\ toMac' = SubSeq(toMac, 5, Len(toMac))
Get8  == toMac # << >> /\ toMac' = Tail(toMac)

FirstWord ==
    /\ mac = "first"
    /\ Get32
    /\ op' = Word
    /\ mac' = IF Word = GET_PROG_INFO THEN "answer" ELSE "seek"
    /\ UNCHANGED <<program, crc, left, sent, skipped, piVars, toPi, histVars>>

\* op >> 8 | get8 << 24, until a request: the only wait that needs no alignment.
SeekByte ==
    /\ mac = "seek"
    /\ Get8
    /\ op' = Append(Tail(op), Head(toMac))
    /\ mac' = CASE op' = GET_PROG_INFO -> "answer"
                [] op' = PRINT_STRING -> "length"
                [] OTHER -> "seek"
    /\ UNCHANGED <<program, crc, left, sent, skipped, piVars, toPi, histVars>>

\* The length of a string the pi prints, and its characters.
StringLength ==
    /\ mac = "length"
    /\ Get32
    /\ left' = Least(Value(Word), MaxChars)
    /\ mac' = IF left' = 0 THEN "seek" ELSE "chars"
    /\ UNCHANGED <<program, crc, op, sent, skipped, piVars, toPi, histVars>>

StringChar ==
    /\ mac = "chars"
    /\ Get8
    /\ left' = left - 1
    /\ mac' = IF left' = 0 THEN "seek" ELSE "chars"
    /\ UNCHANGED <<program, crc, op, sent, skipped, piVars, toPi, histVars>>

ProgInfo == <<PUT_PROG_INFO, ARMBASE, Number(Len(program)), crc>>

\* put32, with 50 ms of sleep behind each word.
SendInfo ==
    /\ mac = "answer"
    /\ Put32(ProgInfo[sent + 1])
    /\ sent' = (sent + 1) % 4
    /\ mac' = IF sent' = 0 THEN "drain" ELSE "answer"
    /\ UNCHANGED <<program, crc, op, left, skipped, piVars, toMac, histVars>>

\* Mutant: no loop, the next word must be GET_CODE.
AfterDrain_Once(w) == IF w = GET_CODE THEN "code" ELSE "off"

\* Repeated requests are dropped; anything else but GET_CODE panics.
AfterDrain(w) ==
    CASE w = GET_PROG_INFO -> "drain"
      [] w = GET_CODE -> "code"
      [] OTHER -> "off"

Drain ==
    /\ mac = "drain"
    /\ Get32
    /\ mac' = AfterDrain(Word)
    /\ UNCHANGED <<program, crc, op, left, sent, skipped, piVars, toPi, histVars>>

PutCode ==
    /\ mac = "code"
    /\ Put32(PUT_CODE)
    /\ mac' = "bytes"
    /\ UNCHANGED <<program, crc, op, left, sent, skipped, piVars, toMac, histVars>>

\* Mutant: i <= nbytes.
ToSend_OneMore == Append(program, 0)

ToSend == program

PutByte ==
    /\ mac = "bytes"
    /\ toPi' = Append(toPi, ToSend[sent + 1])
    /\ sent' = sent + 1
    /\ mac' = IF sent' = Len(ToSend) THEN "wait" ELSE "bytes"
    /\ UNCHANGED <<program, crc, op, left, skipped, piVars, toMac, histVars>>

\* Mutants: the limit ends the loop as if it were the word; i stays 0.
AfterWait_LimitIsSuccess(w) == IF w = BOOT_SUCCESS \/ skipped > WaitLimit THEN "booted" ELSE "wait"
AfterWait_NoLimit(w) == IF w = BOOT_SUCCESS THEN "booted" ELSE "wait"

AfterWait(w) ==
    CASE w = BOOT_SUCCESS -> "booted"
      [] w # BOOT_SUCCESS /\ skipped > WaitLimit -> "off"
      [] OTHER -> "wait"

\* Any word but BOOT_SUCCESS is skipped and counted, BOOT_ERROR too.
Wait ==
    /\ mac = "wait"
    /\ Get32
    /\ mac' = AfterWait(Word)
    /\ skipped' = Least(skipped + 1, WaitLimit + 1)
    /\ UNCHANGED <<program, crc, op, left, sent, piVars, toPi, histVars>>

(***************************************************************************)
(* The boot loader.                                                         *)
(***************************************************************************)
\* uart_put8 by uart_put8; no step of the mac depends on a part of it, but a
\* loss of power may cut it short.
PiPuts ==
    /\ out # << >>
    /\ toMac' = toMac \o out
    /\ out' = << >>
    /\ UNCHANGED <<macVars, pi, info, memory, toPi, histVars>>

Greet ==
    /\ pi = "greeting"
    /\ out = << >>
    /\ out' \in {<< >>} \cup {Printed(t) : t \in Texts}
    /\ pi' = "asking"
    /\ UNCHANGED <<macVars, info, memory, lines, histVars>>

\* Again and again until something arrives.
Ask ==
    /\ pi = "asking"
    /\ out = << >>
    /\ toPi = << >>
    /\ Len(toMac) < MaxWaiting
    /\ out' = GET_PROG_INFO
    /\ UNCHANGED <<macVars, pi, info, memory, lines, histVars>>

\* The loader starts again.
Rejects == out' = BOOT_ERROR /\ pi' = "greeting" /\ info' = Nothing

ReadRequest ==
    /\ pi = "asking"
    /\ out = << >>
    /\ Len(toPi) >= 4
    /\ toPi' = SubSeq(toPi, 5, Len(toPi))
    /\ \/ SubSeq(toPi, 1, 4) = PUT_PROG_INFO /\ pi' = "info" /\ UNCHANGED <<out, info>>
       \/ SubSeq(toPi, 1, 4) # PUT_PROG_INFO /\ Rejects
    /\ UNCHANGED <<macVars, memory, toMac, histVars>>

Acceptable == SubSeq(toPi, 1, 4) = ARMBASE /\ Value(SubSeq(toPi, 5, 8)) <= MaxSize

ReadInfo ==
    /\ pi = "info"
    /\ Len(toPi) >= 12
    /\ toPi' = SubSeq(toPi, 13, Len(toPi))
    /\ \/ /\ Acceptable
          /\ info' = [size |-> Value(SubSeq(toPi, 5, 8)), crc |-> SubSeq(toPi, 9, 12)]
          /\ out' = GET_CODE
          /\ pi' = "code"
       \/ ~Acceptable /\ Rejects
    /\ UNCHANGED <<macVars, memory, toMac, histVars>>

ReadCode ==
    /\ pi = "code"
    /\ out = << >>
    /\ Len(toPi) >= 4 + info.size
    /\ toPi' = SubSeq(toPi, 5 + info.size, Len(toPi))
    /\ \/ /\ SubSeq(toPi, 1, 4) = PUT_CODE
          /\ memory' = SubSeq(toPi, 5, 4 + info.size)
          /\ pi' = "check"
          /\ UNCHANGED <<out, info>>
       \/ SubSeq(toPi, 1, 4) # PUT_CODE /\ Rejects /\ UNCHANGED memory
    /\ UNCHANGED <<macVars, toMac, histVars>>

CodeIsGood == Checksum(memory) = BitsOf(info.crc)

CheckCode ==
    /\ pi = "check"
    /\ \/ /\ CodeIsGood
          /\ out' = BOOT_SUCCESS
          /\ pi' = "running"
          /\ info' = Nothing
          /\ started' = (started \/ (mac = "wait" /\ memory = program))
          /\ UNCHANGED memory
       \/ ~CodeIsGood /\ Rejects /\ memory' = << >> /\ UNCHANGED started
    /\ UNCHANGED <<macVars, lines, deploys, faults, undisturbed, harm>>

PowerOn ==
    /\ pi = "off"
    /\ pi' = "greeting"
    /\ toPi' \in {toPi, << >>}
    /\ UNCHANGED <<macVars, info, memory, out, toMac, histVars>>

(***************************************************************************)
(* What may go wrong: ten seconds without a byte, for which the pi must be  *)
(* off or wait itself; deploy killed; faults of the pi and of the line.     *)
(***************************************************************************)
ReadsWord == {"first", "length", "drain", "wait"}

Starved ==
    \/ mac \in ReadsWord /\ Len(toMac) < 4
    \/ mac \in {"seek", "chars"} /\ toMac = << >>

Quiet ==
    /\ out = << >>
    /\ \/ pi = "off"
       \/ pi = "running"  \* entry, which says nothing before it is spoken to
       \/ pi = "asking" /\ Len(toPi) \in 1 .. 3
       \/ pi = "info" /\ Len(toPi) < 12
       \/ pi = "code" /\ Len(toPi) < 4 + info.size

\* The process is gone, and what it knew.
Gone ==
    /\ mac' = "off"
    /\ program' = << >>
    /\ crc' = <<0, 0, 0, 0>>
    /\ op' = <<0, 0, 0, 0>>
    /\ left' = 0 /\ sent' = 0 /\ skipped' = 0
    /\ started' = FALSE

\* get8 panics; the bytes of a word that did not end were read.
ReadTimeout ==
    /\ Starved /\ Quiet
    /\ Gone
    /\ toMac' = << >>
    /\ UNCHANGED <<piVars, toPi, deploys, faults, undisturbed, harm>>

\* Also in the middle of a word.
Killed ==
    /\ mac \notin {"off", "booted"}
    /\ Gone
    /\ undisturbed' = FALSE
    /\ \E k \in IF mac \in ReadsWord THEN 0 .. Least(3, Len(toMac)) ELSE {0} :
         toMac' = SubSeq(toMac, k + 1, Len(toMac))
    /\ harm' = "other"
    /\ UNCHANGED <<piVars, toPi, deploys, faults>>

Fault ==
    /\ faults < MaxFaults
    /\ faults' = faults + 1
    /\ undisturbed' = FALSE
    /\ UNCHANGED <<macVars, deploys, started>>

PowerFails ==
    /\ Fault
    /\ pi # "off"
    /\ pi' = "off"
    /\ \E k \in 0 .. Len(out) : toMac' = toMac \o SubSeq(out, 1, k)
    /\ out' = << >>
    /\ memory' = << >>
    /\ info' = Nothing
    /\ harm' = "other"
    /\ UNCHANGED toPi

Without(s, i)    == SubSeq(s, 1, i - 1) \o SubSeq(s, i + 1, Len(s))
Garbled(s, i, b) == [s EXCEPT ![i] = b]

\* Byte i of toPi is one of the program.
InProgram(i) == mac \in {"bytes", "wait"} /\ pi = "code" /\ i > 4

\* "drop a byte, flip them, corrupt one", boot-defs.h:12.
LineFails ==
    /\ Fault
    /\ \/ \E i \in 1 .. Len(toPi) :
            /\ \/ toPi' = Without(toPi, i) /\ harm' = "other"
               \/ /\ \E b \in Noise \ {toPi[i]} : toPi' = Garbled(toPi, i, b)
                  /\ harm' = IF harm = "none" /\ InProgram(i) THEN "byte" ELSE "other"
            /\ UNCHANGED toMac
       \/ \E i \in 1 .. Len(toMac) :
            /\ toMac' \in {Without(toMac, i)} \cup {Garbled(toMac, i, b) : b \in Noise \ {toMac[i]}}
            /\ harm' = "other"
            /\ UNCHANGED toPi
    /\ UNCHANGED piVars

----------------------------------------------------------------------------
MacWorks ==
    \/ FirstWord \/ SeekByte \/ StringLength \/ StringChar \/ SendInfo \/ Drain
    \/ PutCode \/ PutByte \/ Wait \/ ReadTimeout

PiWorks ==
    \/ PiPuts \/ Greet \/ Ask \/ ReadRequest \/ ReadInfo \/ ReadCode \/ CheckCode

Next ==
    \/ \E p \in Programs : Open(p)
    \/ MacWorks
    \/ PiWorks
    \/ PowerOn
    \/ Killed \/ PowerFails \/ LineFails

\* boot runs on, each read of it has a timeout, and so does a loader that has
\* power and bytes to read or to put.
Fairness == WF_vars(MacWorks) /\ WF_vars(PiWorks)

Spec == Init /\ [][Next]_vars /\ Fairness

----------------------------------------------------------------------------
(***************************************************************************)
(* Properties.                                                              *)
(***************************************************************************)
MacStates == {"off", "first", "seek", "length", "chars", "answer", "drain",
              "code", "bytes", "wait", "booted"}
PiStates  == {"off", "greeting", "asking", "info", "code", "check", "running"}

\* Types of the state of boot, of the loader and of the line.
TypeOK ==
    /\ mac \in MacStates
    /\ program \in Programs \cup {<< >>}
    /\ crc \in [1 .. 4 -> Byte]
    /\ op \in [1 .. 4 -> Byte]
    /\ left \in 0 .. MaxChars
    /\ sent \in Nat
    /\ skipped \in 0 .. WaitLimit + 1
    /\ pi \in PiStates
    /\ info \in [size : 0 .. MaxSize, crc : [1 .. 4 -> Byte]]
    /\ memory \in Seq(Byte) /\ out \in Seq(Byte)
    /\ toPi \in Seq(Byte) /\ toMac \in Seq(Byte)
    /\ deploys \in 0 .. MaxDeploys
    /\ faults \in 0 .. MaxFaults
    /\ started \in BOOLEAN
    /\ undisturbed \in BOOLEAN
    /\ harm \in {"none", "byte", "other"}

\* When boot returns 0, the program of this very deploy has begun to run on the
\* pi, whole and after the last of its bytes was sent: neither an answer to an
\* earlier deploy nor a lost byte is taken for its success.  And nothing is left on
\* the line, in either direction: the dialogue of dfs_boot starts with an empty
\* line and a kernel that listens.
\* With many deploys killed behind each other on one line it does not hold: what
\* they left can answer a later one.  Proved without a bound is the part where the
\* deploy itself met nothing worse than a garbled byte of its program.
HandsOver ==
    mac = "booted" =>
        /\ started
        /\ pi = "running" => memory = program /\ {out, toPi, toMac} = {<< >>}

\* boot has answered, and the loader knows nothing of it.
Unanswered == mac = "drain" /\ pi \in {"greeting", "asking"} /\ toPi = << >>

\* Every boot comes to an end, also with a loader that starts over after
\* BOOT_ERROR.  Only a loader that lost the answer to its request has boot drop
\* its repeats for ever: boot answers once.
BootEnds == mac \notin {"off", "booted"} ~> mac \in {"off", "booted"} \/ Unanswered

\* With a loader that waits and a line that works, boot succeeds for a program that
\* the loader has room for, whatever the loader prints before and however often it
\* repeats its request, and whatever an earlier deploy or its kernel left in the
\* tty, but for an old request.
Boots ==
    mac = "first" /\ undisturbed /\ Len(program) <= MaxSize
        ~> mac = "booted" \/ ~undisturbed

(***************************************************************************)
(* The inductive invariant behind HandsOver and ImplementsDfsBoot.          *)
(***************************************************************************)
Seeking == {"first", "seek", "length", "chars"}

\* How far boot is with what it has to send.
Progress ==
    /\ mac # "off" => /\ program \in Programs
                      /\ crc = Sum[program]
                      /\ deploys > 0
    /\ mac \in Seeking \cup {"drain", "code"} => sent = 0
    /\ mac = "answer" => sent \in 0 .. 3
    /\ mac = "bytes" => sent < Len(program)
    /\ mac = "first" => op = <<0, 0, 0, 0>>
    /\ mac \in {"length", "chars"} => op = PRINT_STRING
    /\ mac = "chars" => left > 0
    /\ started => mac \in {"wait", "booted", "off"}

\* The loader has said what it has to before it reads on; before the first deploy
\* it has nothing to read.
Loader ==
    /\ pi \in {"off", "info", "check"} => out = << >>
    /\ deploys = 0 => toPi = << >> /\ pi \in {"off", "greeting", "asking"}

Answer == PUT_PROG_INFO \o ARMBASE \o Number(Len(program)) \o crc

\* n words of the answer are sent, the loader has read one of them or none.
Answered(n) ==
    /\ \/ pi = "asking" /\ toPi = SubSeq(Answer, 1, 4 * n)
       \/ pi = "info" /\ n > 0 /\ toPi = SubSeq(Answer, 5, 4 * n)
    /\ OnlyRequests(Said)

KnowsProgram == info = [size |-> Len(program), crc |-> crc]

\* Behind n bytes of requests comes w.
Follows(n, w) ==
    /\ OnlyRequests(SubSeq(Said, 1, n))
    /\ SubSeq(Said, n + 1, n + 4) = w

Accepts == pi = "code" /\ toPi = << >> /\ KnowsProgram

Accepted == Accepts /\ Len(Said) >= 4 /\ Follows(Len(Said) - 4, GET_CODE)

TooLarge ==
    /\ Len(program) > MaxSize
    /\ \E n \in 0 .. Len(Said) - 4 : Follows(n, BOOT_ERROR)

\* s is the program, or what is there of it, but for the byte that was garbled.
NearlyProgram(s) ==
    /\ Len(s) <= Len(program)
    /\ harm = "none" => \A i \in 1 .. Len(s) : s[i] = program[i]
    /\ \A i, j \in 1 .. Len(s) : s[i] # program[i] /\ s[j] # program[j] => i = j

\* n bytes of the program are on the line.
Coming(n) ==
    /\ pi = "code" /\ KnowsProgram /\ Said = << >> /\ ~started
    /\ Len(toPi) = 4 + n /\ SubSeq(toPi, 1, 4) = PUT_CODE
    /\ NearlyProgram(SubSeq(toPi, 5, 4 + n))

Came ==
    /\ pi = "check" /\ KnowsProgram /\ Said = << >> /\ toPi = << >> /\ ~started
    /\ Len(memory) = Len(program) /\ NearlyProgram(memory)

Runs(said) ==
    /\ pi = "running" /\ started /\ memory = program
    /\ Said = said /\ toPi = << >>

\* The garbled byte was noticed; the loader starts over, unheard.
Noticed ==
    /\ harm = "byte"
    /\ pi \in {"greeting", "asking"} /\ toPi = << >>
    /\ ~Occurs(BOOT_SUCCESS, Said)

\* Where the loader and the line are at each step of boot, unless the tty held an
\* old request or more went wrong than one byte of the program.
InStep ==
    harm # "other" =>
        /\ mac \in Seeking => ~OldRequest(op \o Said)
        /\ mac = "answer" => Answered(sent)
        /\ mac = "drain" => Answered(4) \/ Accepted \/ TooLarge
        /\ mac = "code" => Accepts /\ Said = << >>
        /\ mac = "bytes" => Coming(sent)
        /\ mac = "wait" => Coming(Len(program)) \/ Came \/ Runs(BOOT_SUCCESS) \/ Noticed
        /\ mac = "booted" => Runs(<< >>)

\* A byte of the program can be garbled only when it is on its way.
ByteInProgram == harm = "byte" => mac \in {"bytes", "wait", "booted", "off"}

\* With a loader that waits and a line that works, boot gives up only a program
\* that is too large for the loader.
FailsForSize ==
    undisturbed =>
        /\ harm = "none"
        /\ mac \in Seeking => pi \in {"greeting", "asking"} /\ toPi = << >>
        /\ mac = "off" => Len(program) > MaxSize

\* boot and the loader are in step, byte for byte, whatever earlier deploys left
\* and wherever a byte of the program is garbled; a boot that meets a waiting
\* loader and no fault fails only for the size of its program.
IInv == TypeOK /\ Progress /\ Loader /\ InStep /\ ByteInProgram /\ FailsForSize

(***************************************************************************)
(* boot as DfsBoot has it: one step from the loader to entry.               *)
(***************************************************************************)
Boot == INSTANCE DfsBoot WITH
    Disks <- {"disk"}, FsNames <- {<<"fs">>}, NumEntries <- 1, IdSpace <- 1,
    MaxDeploys <- MaxDeploys, MayBeKilled <- TRUE, MayFailWrite <- FALSE, Unread <- {}, None <- "none",
    root <- [n \in {<<"fs">>} |-> 0],
    phase <- IF mac = "off" THEN "off" ELSE IF started \/ mac = "booted" THEN "name" ELSE "boot",
    fs <- <<"fs">>,
    first_free_id <- 0, dirty_dfs <- FALSE, todo <- {"disk"}, cur <- "disk",
    pi <- [d \in {"disk"} |-> IF pi = "running" THEN "entry" ELSE "loader"],
    ram <- [d \in {"disk"} |-> "none"],
    cfg <- [d \in {"disk"} |-> << >>],
    tty <- [d \in {"disk"} |-> "none"],
    deploys <- deploys, told <- {}, forgotten <- {}, unwritten <- {}, misread <- {}

\* Between two deploys that open the tty, all that boot and the loader do to each
\* other is one LoadKernel, a loader that starts late, a power failure, or the end
\* of deploy.  As HandsOver, it is proved where the deploy itself met nothing worse
\* than a garbled byte of its program.
ImplementsDfsBoot == [][deploys' = deploys => Boot!Next]_(Boot!vars)
=============================================================================
