------------------------------ MODULE SdDriver ------------------------------
(***************************************************************************)
(* The driver of the SD card (bzt-sd.c): sd_init, and sd_readblock and      *)
(* sd_writeblock for the one block that every caller asks for.              *)
(*                                                                          *)
(* Every call polls the controller and may give up; the controller and the  *)
(* card go on at their own pace, and may raise flags when nobody waits for  *)
(* them any more.  They are not part of the repository: their actions are   *)
(* what the driver has to expect of them.  The pi ignores the result of     *)
(* sd_init (main.c:25) and uses the card all the same.                      *)
(***************************************************************************)
EXTENDS Integers, FiniteSets

CONSTANTS
    NumBlocks, \* blocks of the card
    BlockSize, \* bytes of a block: 512
    AddrSpace, \* values of a 32 bit argument
    Values,    \* what a block may hold
    Torn,      \* what a write leaves that broke off
    MaxTries   \* ACMD41 is sent at most so often: 6

Blocks == 0 .. NumBlocks - 1

BaseClock  == 41666666
SetupClock == 400000
DataClock  == 25000000

ASSUME SizesAssumption ==
    /\ NumBlocks \in Nat \ {0} /\ BlockSize \in Nat \ {0} /\ MaxTries \in Nat \ {0}
    /\ AddrSpace \in Nat \ {0} /\ NumBlocks <= AddrSpace
ASSUME ValuesAssumption == Values # {} /\ Torn \notin Values

VARIABLES
    blocks,  \* the card
    ccs,     \* whether the card is addressed by blocks
    app,     \* whether the card takes the next command as an application command
    ints,    \* EMMC_INTERRUPT
    inhibit, \* EMMC_STATUS: the lines that are in use
    cmd,     \* the command on its way
    xfer,    \* the data on its way
    fifo,    \* EMMC_DATA
    resp,    \* EMMC_RESP0
    pc,      \* where the driver is
    call,    \* the call it is in
    code,    \* the command that sd_cmd sends
    nested,  \* whether it is sending CMD_APP_CMD first
    tries,   \* ACMD41 sent so far
    sawCcs,  \* ccs of sd_init
    flag,    \* SCR_SUPP_CCS of sd_scr[0]
    rca,     \* whether sd_rca is not 0
    err,     \* sd_err
    last,    \* history: the call that came back last, and its result
    inited,  \* history: whether sd_init returned SD_OK
    clock,   \* what the card is clocked with, in Hz
    cause    \* history: a fault or a timeout that a failure of this call is due to

card == <<blocks, ccs, app>>
regs == <<ints, inhibit, cmd, xfer, fifo, resp>>
init == <<tries, sawCcs, flag, rca, inited>>
vars == <<card, regs, pc, call, code, nested, init, err, last, clock, cause>>

InitCodes == {"GO_IDLE", "SEND_IF_COND", "SEND_OP_COND", "ALL_SEND_CID",
              "SEND_REL_ADDR", "CARD_SELECT", "SEND_SCR", "SET_BUS_WIDTH"}
NeedApp   == {"SEND_OP_COND", "SEND_SCR", "SET_BUS_WIDTH"}
DataCodes == {"SEND_SCR", "READ_SINGLE", "WRITE_SINGLE"}
Codes     == InitCodes \cup {"APP_CMD", "READ_SINGLE", "WRITE_SINGLE"}

NoCmd  == [code |-> "none", arg |-> 0]
NoXfer == [kind |-> "none", block |-> 0, phase |-> "none"]
NoCall == [op |-> "init", lba |-> 0, val |-> Torn]
NoLast == [op |-> "init", lba |-> 0, val |-> Torn, ok |-> FALSE]
NoResp == [app |-> FALSE, complete |-> FALSE]

\* The firmware has read the kernel's loader from the card; what it left in the
\* registers stays until the controller is reset.
Init ==
    /\ blocks \in [Blocks -> Values]
    /\ ccs \in IF NumBlocks * BlockSize <= AddrSpace THEN BOOLEAN ELSE {TRUE}
    /\ app = FALSE
    /\ ints \in {{}, {"cmd_done"}, {"data_done"}, {"error"}} /\ inhibit \in SUBSET {"cmd", "dat"}
    /\ cmd = NoCmd /\ xfer = NoXfer /\ fifo = Torn
    /\ resp = NoResp
    /\ pc = "reset" /\ call = NoCall /\ code = "none" /\ nested = FALSE
    /\ tries = 0 /\ sawCcs = FALSE /\ flag = FALSE /\ rca = FALSE /\ err = "ok"
    /\ last = NoLast
    /\ inited = FALSE
    /\ clock = 0
    /\ cause = TRUE

(***************************************************************************)
(* The controller and the card.                                             *)
(***************************************************************************)
\* The block a card finds at an argument; a byte address must be that of a block.
AddressedBlock(arg) == IF ccs THEN arg ELSE arg \div BlockSize
Addressable(arg)    == AddressedBlock(arg) \in Blocks /\ (ccs \/ arg % BlockSize = 0)

\* The card answers; a data command brings up the data unless the address is bad.
CardAnswers ==
    /\ cmd # NoCmd
    /\ cmd.code \in NeedApp => app
    /\ app' = (cmd.code = "APP_CMD")
    /\ resp' \in CASE cmd.code = "APP_CMD"      -> {[NoResp EXCEPT !.app = b] : b \in BOOLEAN}
                   [] cmd.code = "SEND_OP_COND" -> {[NoResp EXCEPT !.complete = b] : b \in BOOLEAN}
                   [] OTHER                     -> {NoResp}
    /\ xfer' = CASE cmd.code = "SEND_SCR" -> [kind |-> "scr", block |-> 0, phase |-> "begun"]
                 [] cmd.code \in {"READ_SINGLE", "WRITE_SINGLE"} /\ Addressable(cmd.arg) ->
                       [kind |-> cmd.code, block |-> AddressedBlock(cmd.arg), phase |-> "begun"]
                 [] OTHER -> xfer
    /\ cmd' = NoCmd
    /\ ints' = ints \cup {"cmd_done"}
    /\ inhibit' = inhibit \ {"cmd"}
    /\ UNCHANGED <<blocks, ccs, fifo>>

\* No answer, or a broken one; the lines may stay in use.
CardFails ==
    /\ cmd # NoCmd
    /\ cmd' = NoCmd
    /\ app' = FALSE
    /\ ints' = ints \cup {"error"}
    /\ inhibit' \in {inhibit \ (IF xfer = NoXfer THEN {"cmd", "dat"} ELSE {"cmd"}), inhibit}
    /\ UNCHANGED <<blocks, ccs, xfer, fifo, resp>>

\* The buffer is full, or can be filled.
BufferReady ==
    /\ xfer.phase = "begun"
    /\ xfer' = [xfer EXCEPT !.phase = "open"]
    /\ IF xfer.kind = "WRITE_SINGLE"
       THEN ints' = ints \cup {"write_rdy"} /\ UNCHANGED fifo
       ELSE /\ ints' = ints \cup {"read_rdy"}
            /\ fifo' = IF xfer.kind = "scr" THEN Torn ELSE blocks[xfer.block]
    /\ UNCHANGED <<card, inhibit, cmd, resp>>

\* The buffer was emptied, or its contents are stored.
DataDone ==
    /\ xfer.phase = "moved"
    /\ blocks' = IF xfer.kind = "WRITE_SINGLE" THEN [blocks EXCEPT ![xfer.block] = fifo] ELSE blocks
    /\ xfer' = NoXfer
    /\ ints' = ints \cup {"data_done"}
    /\ inhibit' = inhibit \ {"dat"}
    /\ UNCHANGED <<ccs, app, cmd, fifo, resp>>

\* The data do not arrive; a block that was being stored may be damaged.
DataFails ==
    /\ xfer # NoXfer
    /\ blocks' \in {blocks} \cup
         IF xfer.kind = "WRITE_SINGLE" /\ xfer.phase = "moved"
         THEN {[blocks EXCEPT ![xfer.block] = Torn]} ELSE {}
    /\ xfer' = NoXfer
    /\ ints' = ints \cup {"error"}
    /\ inhibit' \in {inhibit \ {"dat"}, inhibit}
    /\ UNCHANGED <<ccs, app, cmd, fifo, resp>>

Hardware ==
    /\ CardAnswers \/ CardFails \/ BufferReady \/ DataDone \/ DataFails
    /\ cause' = (cause \/ "error" \in ints')
    /\ UNCHANGED <<pc, call, code, nested, init, err, last, clock>>

(***************************************************************************)
(* Polling.  sd_status and sd_int look at the registers until they show     *)
(* what is waited for or an error, or a million times, a millisecond apart; *)
(* what shows at the last look only is taken for a timeout.                 *)
(***************************************************************************)
StatusOk(mask) == inhibit \cap mask = {} /\ "error" \notin ints

IntOk(f) == f \in ints /\ "error" \notin ints

\* What sd_int returns when it fails: it clears all that it has seen.
IntFails(e) == e = "timeout" \/ (e = "error" /\ "error" \in ints)

(***************************************************************************)
(* Ends of calls, and the command that sd_init sends next.                  *)
(***************************************************************************)
Return(ok, val) ==
    /\ pc' = "idle"
    /\ last' = [op |-> call.op, lba |-> call.lba, val |-> val, ok |-> ok]
    /\ inited' = (inited \/ (call.op = "init" /\ ok))

Fail == Return(FALSE, Torn)

\* Mutant: sd_err is not reset.
Send_KeepsError(c) ==
    /\ pc' = "inhibit"
    /\ code' = c
    /\ nested' = (c \in NeedApp)
    /\ UNCHANGED err

\* sd_cmd begins: sd_err is reset, and again for a nested CMD_APP_CMD.
Send(c) ==
    /\ pc' = "inhibit"
    /\ code' = c
    /\ nested' = (c \in NeedApp)
    /\ err' = "ok"

Stay == UNCHANGED <<last, inited>>

\* The count of the polls is unsigned: a reset that is not over at the last of
\* them is taken for a success, and one that is over just then for a failure.
Reset ==
    /\ pc = "reset"
    /\ \/ ints' = {} /\ inhibit' = {} /\ pc' = "clock" /\ Stay
       \/ UNCHANGED <<ints, inhibit>> /\ pc' = "clock" /\ Stay
       \/ ints' = {} /\ inhibit' = {} /\ Fail
    /\ UNCHANGED <<card, cmd, xfer, fifo, resp, call, code, nested, tries, sawCcs, flag, rca,
                   err, clock, cause>>

\* The exponent of the largest power of two up to x, or 7 when that is larger.
Log2(x) == Cardinality({k \in 1 .. 7 : 2^k <= x})

\* The divisor that sd_clk takes for f: any, or a power of two for old hosts.
Divisor(f, hv) ==
    LET c == BaseClock \div f
        s == IF c = 1 THEN 0 ELSE Log2(c - 1)
        d == IF hv > 1 THEN c ELSE 2^s
    IN  IF d <= 2 THEN 2 ELSE d

\* Mutant: the divisor taken for that of the whole clock.
Hz_NotHalved(f, hv) == BaseClock \div (Divisor(f, hv) % 256)

\* The clock that the register then stands for: eight bits of the divisor, and
\* two more in newer hosts.
Hz(f, hv) ==
    LET d == Divisor(f, hv)
    IN  BaseClock \div (2 * ((d % 256) + IF hv > 1 THEN 256 * ((d \div 256) % 4) ELSE 0))

\* sd_clk: not before both lines are free, and the clock must become stable.
SetClock ==
    /\ pc = "clock"
    /\ \/ Fail /\ UNCHANGED <<code, nested, err, clock>>
       \/ /\ inhibit = {}
          /\ \E hv \in 0 .. 2 : clock' = Hz(IF code = "none" THEN SetupClock ELSE DataClock, hv)
          /\ \/ Fail /\ UNCHANGED <<code, nested, err>>
             \/ code = "none" /\ Send("GO_IDLE") /\ Stay
             \/ code = "SEND_REL_ADDR" /\ Send("CARD_SELECT") /\ Stay
    /\ UNCHANGED <<card, regs, call, tries, sawCcs, flag, rca, cause>>

(***************************************************************************)
(* sd_cmd.                                                                  *)
(***************************************************************************)
\* The block, or with a card that is not addressed by blocks its first byte.
Address == IF flag THEN call.lba ELSE (call.lba * BlockSize) % AddrSpace

\* Mutant: the flags of the command before are left set.
SendCommand_KeepsFlags ==
    /\ pc = "inhibit"
    /\ StatusOk({"cmd"})
    /\ cmd' = [code |-> IF nested THEN "APP_CMD" ELSE code,
               arg  |-> IF call.op = "init" THEN 0 ELSE Address]
    /\ inhibit' = inhibit \cup {"cmd"} \cup (IF code \in DataCodes /\ ~ nested THEN {"dat"} ELSE {})
    /\ pc' = "answer"
    /\ UNCHANGED <<card, ints, xfer, fifo, resp, call, code, nested, init, err, last, clock, cause>>

\* The line is free: all flags are cleared and the command is sent.
SendCommand ==
    /\ pc = "inhibit"
    /\ StatusOk({"cmd"})
    /\ ints' = {}
    /\ cmd' = [code |-> IF nested THEN "APP_CMD" ELSE code,
               arg  |-> IF call.op = "init" THEN 0 ELSE Address]
    /\ inhibit' = inhibit \cup {"cmd"} \cup (IF code \in DataCodes /\ ~ nested THEN {"dat"} ELSE {})
    /\ pc' = "answer"
    /\ UNCHANGED <<card, xfer, fifo, resp, call, code, nested, init, err, last, clock, cause>>

\* Mutants: one try too many; the tries are not counted.
OpCondEnds_OneMore(e, answered) ==
    LET complete == answered /\ resp.complete
    IN  \/ (e = "error" \/ tries = MaxTries) /\ Fail /\ err' = e /\ UNCHANGED <<code, nested, tries, sawCcs>>
        \/ /\ e # "error" /\ complete
           /\ Send("ALL_SEND_CID") /\ sawCcs' = ccs /\ Stay
           /\ UNCHANGED tries
        \/ /\ e # "error" /\ ~ complete /\ tries < MaxTries
           /\ Send("SEND_OP_COND") /\ tries' = tries + 1 /\ Stay
           /\ UNCHANGED sawCcs
OpCondEnds_NoLimit(e, answered) ==
    /\ IF answered /\ resp.complete
       THEN Send("ALL_SEND_CID") /\ sawCcs' = ccs
       ELSE Send("SEND_OP_COND") /\ UNCHANGED sawCcs
    /\ Stay
    /\ UNCHANGED tries

\* ACMD41 came back with sd_err = e, and with the operating conditions if it was
\* `answered': once more, or on with the card.  Only an error stops the loop, and
\* a card that is ready at the last try is given up.
OpCondEnds(e, answered) ==
    LET complete == answered /\ resp.complete
    IN  \/ e = "error" /\ Fail /\ err' = e /\ UNCHANGED <<code, nested, tries, sawCcs>>
        \/ /\ e # "error"
           /\ complete /\ tries + 1 < MaxTries
           /\ \/ Send("ALL_SEND_CID") /\ sawCcs' = ccs /\ Stay
              \/ Fail /\ err' = e /\ UNCHANGED <<code, nested, sawCcs>>  \* wrong voltage
           /\ UNCHANGED tries
        \/ /\ e # "error"
           /\ ~ complete /\ tries + 1 < MaxTries
           /\ Send("SEND_OP_COND") /\ tries' = tries + 1 /\ Stay
           /\ UNCHANGED sawCcs
        \/ /\ e # "error"
           /\ tries + 1 = MaxTries
           /\ Fail /\ err' = e /\ UNCHANGED <<code, nested, tries, sawCcs>>

\* sd_cmd comes back with sd_err = e.
CommandEnds(e, answered) ==
    /\ \/ code = "SEND_OP_COND" /\ OpCondEnds(e, answered)
       \/ code = "ALL_SEND_CID" /\ Send("SEND_REL_ADDR") /\ Stay /\ UNCHANGED <<tries, sawCcs>>
       \/ /\ code \notin {"SEND_OP_COND", "ALL_SEND_CID"} /\ e # "ok"
          /\ Fail /\ err' = e /\ UNCHANGED <<code, nested, tries, sawCcs>>
       \/ /\ code \in {"GO_IDLE", "SEND_IF_COND"} /\ e = "ok"
          /\ Send(IF code = "GO_IDLE" THEN "SEND_IF_COND" ELSE "SEND_OP_COND")
          /\ Stay /\ UNCHANGED <<tries, sawCcs>>
       \/ /\ code \in {"SEND_REL_ADDR", "CARD_SELECT"} \cup DataCodes /\ e = "ok"
          /\ pc' = CASE code = "SEND_REL_ADDR" -> "clock"
                     [] code = "CARD_SELECT"   -> "status"
                     [] code \in DataCodes     -> "ready"
          /\ err' = e /\ Stay /\ UNCHANGED <<code, nested, tries, sawCcs>>
       \/ /\ code = "SET_BUS_WIDTH" /\ e = "ok"
          /\ Return(TRUE, Torn) /\ err' = e /\ UNCHANGED <<code, nested, tries, sawCcs>>
    /\ rca' = IF code = "SEND_REL_ADDR" THEN answered ELSE rca
    /\ flag' = IF code = "SET_BUS_WIDTH" /\ e = "ok" THEN sawCcs ELSE flag

\* CMD_APP_CMD comes back: a failure counts only once the card has an address,
\* and without one sd_err stays set while the command proper is sent.
AppEnds(e, answered) ==
    IF rca /\ ~ (answered /\ resp.app)
    THEN CommandEnds("error", FALSE)
    ELSE /\ pc' = "inhibit" /\ nested' = FALSE /\ err' = e
         /\ Stay /\ UNCHANGED <<code, tries, sawCcs, flag, rca>>

\* SEND_REL_ADDR is the one command whose answer can hold an error.
Ends(e, answered) ==
    IF nested THEN AppEnds(e, answered)
    ELSE IF answered THEN \/ CommandEnds(err, TRUE)
                          \/ code = "SEND_REL_ADDR" /\ CommandEnds("error", TRUE)
    ELSE CommandEnds(e, FALSE)

CommandBlocked ==
    /\ pc = "inhibit"
    /\ Ends("timeout", FALSE)
    /\ cause' = TRUE
    /\ UNCHANGED <<card, regs, call, clock>>

Answered ==
    /\ pc = "answer"
    /\ IntOk("cmd_done")
    /\ ints' = ints \ {"cmd_done"}
    /\ Ends("ok", TRUE)
    /\ UNCHANGED <<card, inhibit, cmd, xfer, fifo, resp, call, clock, cause>>

NotAnswered ==
    /\ pc = "answer"
    /\ \E e \in {"timeout", "error"} : IntFails(e) /\ cause' = (cause \/ e = "timeout") /\ Ends(e, FALSE)
    /\ ints' = {}
    /\ UNCHANGED <<card, inhibit, cmd, xfer, fifo, resp, call, clock>>

(***************************************************************************)
(* sd_readblock and sd_writeblock, and the end of sd_init.                  *)
(***************************************************************************)
Read(b) ==
    /\ pc = "idle"
    /\ call' = [op |-> "read", lba |-> b, val |-> Torn]
    /\ pc' = "status"
    /\ last' = NoLast
    /\ cause' = ("error" \in ints)
    /\ UNCHANGED <<card, regs, code, nested, init, err, clock>>

Write(b, v) ==
    /\ pc = "idle"
    /\ call' = [op |-> "write", lba |-> b, val |-> v]
    /\ pc' = "status"
    /\ last' = NoLast
    /\ cause' = ("error" \in ints)
    /\ UNCHANGED <<card, regs, code, nested, init, err, clock>>

\* The data line is free: the data command is sent.
LineFree ==
    /\ pc = "status"
    /\ StatusOk({"dat"})
    /\ Send(CASE call.op = "init" -> "SEND_SCR"
              [] call.op = "read" -> "READ_SINGLE"
              [] call.op = "write" -> "WRITE_SINGLE")
    /\ UNCHANGED <<card, regs, call, init, last, clock, cause>>

LineBusy ==
    /\ pc = "status"
    /\ Fail
    /\ err' = IF call.op = "init" THEN err ELSE "timeout"
    /\ cause' = TRUE
    /\ UNCHANGED <<card, regs, call, code, nested, tries, sawCcs, flag, rca, clock>>

Rdy == IF call.op = "write" THEN "write_rdy" ELSE "read_rdy"

\* The buffer is emptied, or filled.  For sd_init it holds the SCR, read below.
MoveData ==
    /\ pc = "ready"
    /\ IntOk(Rdy)
    /\ ints' = ints \ {Rdy}
    /\ CASE call.op = "init"  -> pc' = "scr" /\ Stay /\ UNCHANGED <<xfer, fifo>>
         [] call.op = "read"  -> /\ xfer' = [xfer EXCEPT !.phase = "moved"]
                                 /\ Return(TRUE, fifo) /\ UNCHANGED fifo
         [] call.op = "write" -> /\ xfer' = [xfer EXCEPT !.phase = "moved"]
                                 /\ fifo' = call.val
                                 /\ pc' = "stored" /\ Stay
    /\ UNCHANGED <<card, inhibit, cmd, resp, call, code, nested, tries, sawCcs, flag, rca, err, clock, cause>>

NoBuffer ==
    /\ pc = "ready"
    /\ \E e \in {"timeout", "error"} :
          IntFails(e) /\ cause' = (cause \/ e = "timeout") /\ err' = IF call.op = "init" THEN err ELSE e
    /\ ints' = {}
    /\ Fail
    /\ UNCHANGED <<card, inhibit, cmd, xfer, fifo, resp, call, code, nested, tries, sawCcs, flag, rca, clock>>

\* Mutant: a write is over when its data are in the buffer.
Stored_AtOnce ==
    /\ pc = "stored"
    /\ Return(TRUE, call.val)
    /\ UNCHANGED <<card, regs, call, code, nested, tries, sawCcs, flag, rca, err, clock, cause>>

Stored ==
    /\ pc = "stored"
    /\ IntOk("data_done")
    /\ ints' = ints \ {"data_done"}
    /\ Return(TRUE, call.val)
    /\ UNCHANGED <<card, inhibit, cmd, xfer, fifo, resp, call, code, nested, tries, sawCcs, flag, rca, err, clock, cause>>

NotStored ==
    /\ pc = "stored"
    /\ \E e \in {"timeout", "error"} : IntFails(e) /\ cause' = (cause \/ e = "timeout") /\ err' = e
    /\ ints' = {}
    /\ Fail
    /\ UNCHANGED <<card, inhibit, cmd, xfer, fifo, resp, call, code, nested, tries, sawCcs, flag, rca, clock>>

\* Mutant: the flag is what the SCR happens to hold.
ReadScr_KeepsBit ==
    /\ pc = "scr"
    /\ xfer.phase = "open"
    /\ xfer' = [xfer EXCEPT !.phase = "moved"]
    /\ flag' \in BOOLEAN
    /\ \/ Send("SET_BUS_WIDTH") /\ Stay
       \/ Return(TRUE, Torn) /\ UNCHANGED <<code, nested, err>>
    /\ UNCHANGED <<card, ints, inhibit, cmd, fifo, resp, call, tries, sawCcs, rca, clock, cause>>

\* The SCR goes to sd_scr, whose bit for SCR_SUPP_CCS is whatever it holds there
\* until the end of sd_init; a card that supports it is switched to four lines.
ReadScr ==
    /\ pc = "scr"
    /\ xfer.phase = "open"
    /\ xfer' = [xfer EXCEPT !.phase = "moved"]
    /\ \/ flag' \in BOOLEAN /\ Send("SET_BUS_WIDTH") /\ Stay
       \/ flag' = sawCcs /\ Return(TRUE, Torn) /\ UNCHANGED <<code, nested, err>>
    /\ UNCHANGED <<card, ints, inhibit, cmd, fifo, resp, call, tries, sawCcs, rca, clock, cause>>

\* The count of this loop is never taken down.
PollScr ==
    /\ pc = "scr"
    /\ xfer.phase # "open"
    /\ UNCHANGED vars

----------------------------------------------------------------------------
Driver ==
    \/ Reset \/ SetClock
    \/ SendCommand \/ CommandBlocked \/ Answered \/ NotAnswered
    \/ LineFree \/ LineBusy \/ MoveData \/ NoBuffer \/ Stored \/ NotStored
    \/ ReadScr \/ PollScr

Next ==
    \/ Driver
    \/ \E b \in Blocks : Read(b)
    \/ \E b \in Blocks, v \in Values : Write(b, v)
    \/ Hardware

\* Every wait of the driver gives up, whatever the controller does.
Spec == Init /\ [][Next]_vars /\ WF_vars(Driver)

----------------------------------------------------------------------------
(***************************************************************************)
(* Properties.                                                              *)
(***************************************************************************)
Transfer == [kind : {"none", "scr", "READ_SINGLE", "WRITE_SINGLE"}, block : Blocks,
             phase : {"none", "begun", "open", "moved"}]

\* Types; ACMD41 is tried at most MaxTries times, an argument has 32 bits.
TypeOK ==
    /\ blocks \in [Blocks -> Values \cup {Torn}]
    /\ ccs \in BOOLEAN /\ app \in BOOLEAN
    /\ ints \subseteq {"cmd_done", "read_rdy", "write_rdy", "data_done", "error"}
    /\ inhibit \subseteq {"cmd", "dat"}
    /\ cmd \in [code : Codes \cup {"none"}, arg : 0 .. AddrSpace - 1]
    /\ xfer \in Transfer
    /\ fifo \in Values \cup {Torn}
    /\ resp \in [app : BOOLEAN, complete : BOOLEAN]
    /\ pc \in {"reset", "clock", "inhibit", "answer", "idle", "status", "ready", "stored", "scr"}
    /\ call \in [op : {"init", "read", "write"}, lba : Blocks, val : Values \cup {Torn}]
    /\ code \in Codes \cup {"none"}
    /\ nested \in BOOLEAN
    /\ tries \in 0 .. MaxTries - 1
    /\ sawCcs \in BOOLEAN /\ flag \in BOOLEAN /\ rca \in BOOLEAN /\ inited \in BOOLEAN
    /\ err \in {"ok", "timeout", "error"}
    /\ last \in [op : {"init", "read", "write"}, lba : Blocks,
                 val : Values \cup {Torn}, ok : BOOLEAN]
    /\ clock \in 0 .. DataClock
    /\ cause \in BOOLEAN

Succeeded(op) == pc = "idle" /\ inited /\ last.op = op /\ last.ok

\* sd_readblock returns 512 with the block that was asked for, never with what
\* the buffer held for a call that was given up; sd_writeblock returns 512 when the
\* card holds the block, never on the strength of a flag that an earlier call left.
SuccessIsTrue ==
    Succeeded("read") \/ Succeeded("write") => blocks[last.lba] = last.val

\* sd_init returns SD_OK only with the addressing of this card.
ModeAgrees == inited => flag = ccs

\* A card that has no address yet is never clocked faster than it can bear while
\* it is being identified, whatever divisors the host has.
ClockFits == cmd # NoCmd => clock <= IF rca THEN DataClock ELSE SetupClock

\* A call fails only for what goes wrong while it is made, or for an error flag
\* that is up when it begins: no error, result or flag of an earlier call, once
\* cleared, makes it fail.
FailsForCause == pc = "idle" /\ inited /\ last # NoLast /\ ~last.ok => cause

\* Every call comes back, but for the loop of sd_init that reads the SCR.
CallsEnd == pc # "idle" ~> pc \in {"idle", "scr"}

(***************************************************************************)
(* The inductive invariant behind the properties above.                     *)
(***************************************************************************)
CodesOf(op) == CASE op = "init"  -> InitCodes
                 [] op = "read"  -> {"READ_SINGLE"}
                 [] op = "write" -> {"WRITE_SINGLE"}

\* Each wait belongs to one kind of command of the call that is made.
Waits ==
    /\ pc = "reset" => call.op = "init" /\ code = "none" /\ cmd = NoCmd /\ xfer = NoXfer
    /\ pc = "clock" => call.op = "init" /\ code \in {"none", "SEND_REL_ADDR"}
    /\ pc \in {"inhibit", "answer"} => code \in CodesOf(call.op) /\ (nested => code \in NeedApp)
    /\ pc = "status" /\ call.op = "init" => code = "CARD_SELECT"
    /\ pc = "ready" => code \in DataCodes \cap CodesOf(call.op)
    /\ pc = "stored" => call.op = "write" /\ code = "WRITE_SINGLE"
    /\ pc = "scr" => call.op = "init" /\ code = "SEND_SCR"

\* An error of a command that sd_init sent, or of an earlier call, is not sd_err
\* of a read or write.
NoOldError == pc \in {"inhibit", "answer"} /\ call.op # "init" => err = "ok" /\ ~nested

InInit   == call.op = "init" /\ pc # "idle"
KnowsCcs == {"ALL_SEND_CID", "SEND_REL_ADDR", "CARD_SELECT", "SEND_SCR", "SET_BUS_WIDTH"}

\* What sd_init knows of the card it keeps for its end.
Addressing ==
    /\ InInit => ~inited
    /\ InInit /\ code \in KnowsCcs => sawCcs = ccs
    /\ ~ccs => NumBlocks * BlockSize <= AddrSpace

\* The card has an address before it is clocked for data, and not before it was
\* asked for one.
Clocked ==
    /\ clock <= IF rca THEN DataClock ELSE SetupClock
    /\ pc = "clock" /\ code = "SEND_REL_ADDR" => rca
    /\ InInit /\ code \in {"none", "GO_IDLE", "SEND_IF_COND", "SEND_OP_COND", "ALL_SEND_CID"} => ~rca
    /\ pc \in {"inhibit", "answer"} /\ code = "SEND_REL_ADDR" => ~rca

\* The lines show what is on its way, also for calls that were given up.
Lines ==
    /\ cmd # NoCmd => "cmd" \in inhibit /\ cmd.code # "none"
    /\ cmd.code \in DataCodes => "dat" \in inhibit /\ xfer = NoXfer
    /\ xfer # NoXfer => "dat" \in inhibit /\ xfer.kind # "none" /\ xfer.phase # "none"
    /\ (pc = "inhibit" \/ (pc = "answer" /\ nested)) /\ code \in DataCodes =>
         xfer = NoXfer /\ cmd.code \notin DataCodes
    /\ pc \in {"ready", "stored", "scr"} => cmd = NoCmd
    /\ pc = "answer" /\ "cmd_done" \in ints => cmd = NoCmd

\* The data on their way are those of the call, unless there are none.
OwnData ==
    \/ /\ xfer = NoXfer
       /\ "read_rdy" \notin ints /\ "write_rdy" \notin ints
    \/ /\ xfer.kind = code /\ xfer.phase \in {"begun", "open"}
       /\ inited => xfer.block = call.lba
       /\ xfer.phase = "begun" => "read_rdy" \notin ints /\ "write_rdy" \notin ints
       /\ xfer.phase = "open" /\ call.op = "read" => fifo = blocks[xfer.block]

\* A flag that a read or write sees was raised for it, not for a call that was
\* given up; a write waits for its own data.
OwnFlags ==
    /\ pc \in {"answer", "ready"} /\ call.op # "init" =>
         IF cmd # NoCmd
         THEN cmd = [code |-> code, arg |-> Address] /\ xfer = NoXfer /\ ints = {}
         ELSE "error" \in ints \/ ("data_done" \notin ints /\ OwnData)
    /\ pc = "stored" /\ xfer # NoXfer =>
         /\ xfer.kind = "WRITE_SINGLE" /\ xfer.phase = "moved"
         /\ fifo = call.val
         /\ inited => xfer.block = call.lba
    /\ pc = "stored" /\ "error" \notin ints =>
         IF "data_done" \in ints
         THEN xfer = NoXfer /\ (inited => blocks[call.lba] = call.val)
         ELSE xfer # NoXfer

\* Nothing that can change a block is left of a call that succeeded.
Settled ==
    pc = "idle" /\ last.op # "init" /\ last.ok =>
        /\ cmd = NoCmd /\ xfer.kind # "WRITE_SINGLE"
        /\ inited => blocks[last.lba] = last.val

\* While sd_init runs, nothing of a read or write is on its way.
OnlyInit ==
    InInit => /\ last = NoLast
              /\ cmd.code \notin {"READ_SINGLE", "WRITE_SINGLE"}
              /\ xfer.kind \in {"none", "scr"}

Caused == "error" \in ints => cause

\* The inductive invariant: each wait and its command, the addressing and the
\* clock of the card, and whose the flags, lines and data are.
IInv ==
    /\ TypeOK /\ Waits /\ NoOldError /\ Addressing /\ Clocked
    /\ Lines /\ OwnFlags /\ Settled /\ OnlyInit
    /\ ModeAgrees /\ Caused /\ FailsForCause

(***************************************************************************)
(* The driver as its callers see it.                                        *)
(***************************************************************************)
\* A write is late when its data are in the buffer and its call has come back.
Late ==
    IF xfer.kind = "WRITE_SINGLE" /\ xfer.phase = "moved" /\ pc # "stored"
    THEN {[op |-> "write", lba |-> xfer.block, val |-> fifo]} ELSE {}

Device == INSTANCE BlockDevice WITH
    Nothing <- NoLast,
    mode    <- IF inited THEN "up" ELSE IF pc = "idle" \/ call.op # "init" THEN "down" ELSE "init",
    disk    <- blocks,
    call    <- IF pc = "idle" \/ call.op = "init" THEN NoLast ELSE call,
    late    <- Late,
    answer  <- IF pc = "idle" /\ last.op # "init" THEN last ELSE NoLast

\* Through any timeouts and faults, the registers, the controller and the card
\* together are a device of blocks, of which a failed write is the one thing
\* that may still be on its way, and not past a call that succeeds: the card changes
\* nowhere but in the block of that write.
ImplementsBlockDevice == Device!Spec
=============================================================================
