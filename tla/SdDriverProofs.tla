--------------------------- MODULE SdDriverProofs ---------------------------
(***************************************************************************)
(* Proofs about SdDriver, for a card of any size whose blocks hold any      *)
(* values, any limit of tries, and a controller and card that answer, fail  *)
(* or fall silent at any moment.                                            *)
(***************************************************************************)
EXTENDS SdDriver, FiniteSetTheorems, TLAPS

\* The position of a byte of the first block of a card addressed by bytes is
\* below its size.
LEMMA ByteAddress ==
  ASSUME NEW b \in Nat \ {0}, NEW n \in Nat, NEW a \in Nat, NEW l \in 0 .. n - 1, n * b <= a
  PROVE  /\ l * b \in Nat /\ l * b < a
         /\ (l * b) % a = l * b
         /\ (l * b) \div b = l
         /\ (l * b) % b = 0
<1>1. l * b \in Nat /\ l * b < a
  OBVIOUS
<1>2. (l * b) % a = l * b
  BY <1>1
<1>3. (l * b) \div b = l /\ (l * b) % b = 0
  OBVIOUS
<1> QED BY <1>1, <1>2, <1>3

\* The argument of a data command fits, and once sd_init knows the addressing
\* it is that of the block that was asked for.
LEMMA AddressFits ==
  ASSUME TypeOK
  PROVE  Address \in 0 .. AddrSpace - 1
<1>1. call.lba \in 0 .. NumBlocks - 1
  BY DEF TypeOK, Blocks
<1>2. CASE flag
  BY <1>1, <1>2, SizesAssumption DEF Address
<1>3. CASE ~ flag
  <2>1. call.lba * BlockSize \in Int
    BY <1>1, SizesAssumption
  <2> QED BY <1>3, <2>1, SizesAssumption DEF Address
<1> QED BY <1>2, <1>3 DEF TypeOK

LEMMA AddressIsBlock ==
  ASSUME TypeOK, Addressing, ModeAgrees, inited
  PROVE  Addressable(Address) /\ AddressedBlock(Address) = call.lba
<1>1. call.lba \in 0 .. NumBlocks - 1 /\ flag = ccs /\ ccs \in BOOLEAN
  BY DEF TypeOK, Blocks, ModeAgrees
<1>2. CASE ccs
  BY <1>1, <1>2 DEF Address, AddressedBlock, Addressable, Blocks
<1>3. CASE ~ ccs
  <2>1. NumBlocks * BlockSize <= AddrSpace
    BY <1>3 DEF Addressing
  <2>2. Address = call.lba * BlockSize
    BY <1>1, <1>3, <2>1, SizesAssumption, ByteAddress DEF Address
  <2>3. (call.lba * BlockSize) \div BlockSize = call.lba
    BY <1>1, <2>1, SizesAssumption, ByteAddress
  <2>4. (call.lba * BlockSize) % BlockSize = 0
    BY <1>1, <2>1, SizesAssumption, ByteAddress
  <2> QED BY <1>1, <1>3, <2>2, <2>3, <2>4 DEF AddressedBlock, Addressable, Blocks
<1> QED BY <1>1, <1>2, <1>3

\* The power of two that the divisor for the clock of the identification is.
LEMMA Log2Of103 == Log2(103) = 6
<1>1. ASSUME NEW k \in 1 .. 7 PROVE 2^k <= 103 <=> k \in 1 .. 6
  <2>1. k = 1 => 2^k = 2
    BY SMT
  <2>2. k = 2 => 2^k = 4
    BY SMT
  <2>3. k = 3 => 2^k = 8
    BY SMT
  <2>4. k = 4 => 2^k = 16
    BY SMT
  <2>5. k = 5 => 2^k = 32
    BY SMT
  <2>6. k = 6 => 2^k = 64
    BY SMT
  <2>7. k = 7 => 2^k = 128
    BY SMT
  <2> QED BY <2>1, <2>2, <2>3, <2>4, <2>5, <2>6, <2>7, SMT
<1>2. {k \in 1 .. 7 : 2^k <= 103} = 1 .. 6
  <2>1. 1 .. 6 \subseteq 1 .. 7
    BY SMT
  <2> QED BY <1>1, <2>1, Zenon
<1>3. Cardinality(1 .. 6) = 6
  <2>1. 1 \in Int /\ 6 \in Int
    BY SMT
  <2>2. Cardinality(1 .. 6) = IF 1 > 6 THEN 0 ELSE 6 - 1 + 1
    BY <2>1, FS_Interval, Zenon
  <2>3. (IF 1 > 6 THEN 0 ELSE 6 - 1 + 1) = 6
    BY SMT
  <2> QED BY <2>2, <2>3, SMT
<1> QED BY <1>2, <1>3, Zenon DEF Log2

\* The divisors that are taken for the two clocks.
LEMMA Divisors ==
  ASSUME NEW hv \in 0 .. 2
  PROVE  /\ Divisor(SetupClock, hv) = IF hv > 1 THEN 104 ELSE 64
         /\ Divisor(DataClock, hv) = 2
<1>1. BaseClock \div SetupClock = 104 /\ BaseClock \div DataClock = 1
  BY SMT DEF BaseClock, SetupClock, DataClock
<1>2. ASSUME NEW s, s = 6 PROVE 2^s = 64
  BY <1>2, SMT
<1>3. ASSUME NEW s, s = 0 PROVE 2^s = 1
  BY <1>3, SMT
<1>4. 104 - 1 = 103
  BY SMT
<1>5. Divisor(SetupClock, hv) = IF hv > 1 THEN 104 ELSE 64
  BY <1>1, <1>2, <1>4, Log2Of103, SMT DEF Divisor
<1>6. Divisor(DataClock, hv) = 2
  BY <1>1, <1>3, SMT DEF Divisor
<1> QED BY <1>5, <1>6

\* No host clocks the card faster than it was asked to.
LEMMA HzFits ==
  ASSUME NEW hv \in 0 .. 2
  PROVE  /\ Hz(SetupClock, hv) \in 0 .. SetupClock
         /\ Hz(DataClock, hv) \in 0 .. DataClock
<1>1. /\ 2 * ((104 % 256) + 256 * ((104 \div 256) % 4)) = 208 /\ 2 * ((64 % 256) + 0) = 128
      /\ 2 * ((2 % 256) + 256 * ((2 \div 256) % 4)) = 4 /\ 2 * ((2 % 256) + 0) = 4
  BY SMT
<1>2. Hz(SetupClock, hv) = IF hv > 1 THEN BaseClock \div 208 ELSE BaseClock \div 128
  BY <1>1, Divisors, SMT DEF Hz
<1>3. Hz(DataClock, hv) = BaseClock \div 4
  BY <1>1, Divisors, SMT DEF Hz
<1>4. BaseClock \div 208 = 200320 /\ BaseClock \div 128 = 325520 /\ BaseClock \div 4 = 10416666
  BY SMT DEF BaseClock
<1>5. SetupClock \in Nat /\ 200320 <= SetupClock /\ 325520 <= SetupClock
  BY SMT DEF SetupClock
<1>6. DataClock \in Nat /\ 10416666 <= DataClock
  BY SMT DEF DataClock
<1> QED BY <1>2, <1>3, <1>4, <1>5, <1>6, SMT

\* The clocks, whose values matter no more from here on.
LEMMA ClocksAre ==
  /\ SetupClock \in Nat /\ DataClock \in Nat /\ SetupClock <= DataClock
BY SMT DEF SetupClock, DataClock

----------------------------------------------------------------------------
(***************************************************************************)
(* What the end of a command makes of the driver.                           *)
(***************************************************************************)
Early == {"none", "GO_IDLE", "SEND_IF_COND", "SEND_OP_COND", "ALL_SEND_CID"}

\* The call is given up.
GivenUp(answered) ==
    /\ pc' = "idle" /\ flag' = flag /\ inited' = inited
    /\ last' = [op |-> call.op, lba |-> call.lba, val |-> Torn, ok |-> FALSE]
    /\ call.op = "init" \/ ~ answered

\* sd_init is over and knows the addressing.
InitOver ==
    /\ pc' = "idle" /\ flag' = sawCcs /\ inited' = TRUE
    /\ call.op = "init" /\ code = "SET_BUS_WIDTH"
    /\ last' = [op |-> call.op, lba |-> call.lba, val |-> Torn, ok |-> TRUE]

\* sd_init sends a command, which may be the second half of this one.
GoesOn ==
    /\ pc' = "inhibit" /\ UNCHANGED <<flag, last, inited>>
    /\ call.op = "init" /\ code' \in InitCodes
    /\ nested' => code' \in NeedApp
    /\ code' \in KnowsCcs => sawCcs' = ccs
    /\ code' \in Early \cup {"SEND_REL_ADDR"} => ~ rca'
    /\ code' \in DataCodes => nested /\ code' = code

\* The driver waits for something else than a command.
WaitsOn(answered) ==
    /\ UNCHANGED <<code, nested, sawCcs, flag, last, inited>>
    /\ answered /\ ~ nested
    /\ \/ pc' = "clock" /\ code = "SEND_REL_ADDR" /\ rca'
       \/ pc' = "status" /\ code = "CARD_SELECT"
       \/ pc' = "ready" /\ code \in DataCodes

EndTypes ==
    /\ code' \in Codes \cup {"none"} /\ nested' \in BOOLEAN
    /\ tries' \in 0 .. MaxTries - 1
    /\ sawCcs' \in BOOLEAN /\ flag' \in BOOLEAN /\ rca' \in BOOLEAN
    /\ err' \in {"ok", "timeout", "error"}
    /\ rca => rca'

Outcome(answered) == GivenUp(answered) \/ InitOver \/ GoesOn \/ WaitsOn(answered)

LEMMA SendIs ==
  ASSUME NEW c, Send(c)
  PROVE  /\ pc' = "inhibit" /\ code' = c /\ err' = "ok"
         /\ nested' \in BOOLEAN /\ (nested' => code' \in NeedApp)
<1>1. nested' = (c \in NeedApp) /\ code' = c
  BY Zenon DEF Send
<1>2. pc' = "inhibit" /\ err' = "ok"
  BY DEF Send
<1>3. CASE c \in NeedApp
  BY <1>1, <1>2, <1>3
<1>4. CASE c \notin NeedApp
  <2>1. (c \in NeedApp) = FALSE
    BY <1>4
  <2>2. nested' = FALSE
    BY <1>1, <2>1
  <2> QED BY <1>1, <1>2, <2>2
<1> QED BY <1>3, <1>4

\* The end of a command proper: only the command of a read or write that is not
\* answered fails its call.
LEMMA CommandEffect ==
  ASSUME TypeOK, Waits, NoOldError, Addressing, Clocked,
         pc \in {"inhibit", "answer"},
         NEW e \in {"ok", "timeout", "error"}, NEW answered \in BOOLEAN,
         answered \/ e # "ok",
         call.op # "init" /\ answered => e = "ok",
         nested => e # "ok" /\ rca,
         CommandEnds(e, answered)
  PROVE  EndTypes /\ Outcome(answered)
<1>1. /\ code \in CodesOf(call.op) /\ call.op \in {"init", "read", "write"}
      /\ code \in Codes /\ (call.op = "init" <=> code \in InitCodes)
  BY DEF TypeOK, Waits, CodesOf, InitCodes, Codes
<1>2. /\ call.op = "init" /\ code \in KnowsCcs => sawCcs = ccs
      /\ call.op = "init" /\ code \in Early => ~ rca
      /\ code = "SEND_REL_ADDR" => ~ rca
  BY DEF Addressing, Clocked, InInit, Early
<1>3. /\ tries \in 0 .. MaxTries - 1 /\ MaxTries \in Nat /\ nested \in BOOLEAN
      /\ sawCcs \in BOOLEAN /\ ccs \in BOOLEAN /\ flag \in BOOLEAN /\ rca \in BOOLEAN
      /\ inited \in BOOLEAN
  BY SizesAssumption DEF TypeOK
<1>4. CASE code = "SEND_OP_COND"
  <2>1. OpCondEnds(e, answered) /\ rca' = rca /\ flag' = flag
    BY <1>4 DEF CommandEnds, DataCodes
  <2>2. EndTypes
    <3>1. code' \in Codes /\ nested' \in BOOLEAN /\ err' \in {"ok", "timeout", "error"}
      BY <2>1, <1>1, <1>3, SendIs DEF OpCondEnds, Fail, Return, Codes, InitCodes
    <3>2. tries' \in 0 .. MaxTries - 1 /\ sawCcs' \in BOOLEAN
      BY <2>1, <1>3 DEF OpCondEnds
    <3> QED BY <2>1, <1>3, <3>1, <3>2 DEF EndTypes
  <2>3. Outcome(answered)
    BY <2>1, <1>1, <1>2, <1>3, <1>4 DEF OpCondEnds, Outcome, GivenUp, GoesOn, Send, Fail, Return, Stay,
       InitCodes, NeedApp, KnowsCcs, Early, DataCodes
  <2> QED BY <2>2, <2>3
<1>5. CASE code = "ALL_SEND_CID"
  <2>1. Send("SEND_REL_ADDR") /\ Stay /\ UNCHANGED <<tries, sawCcs>> /\ rca' = rca /\ flag' = flag
    BY <1>5 DEF CommandEnds, DataCodes
  <2> QED BY <2>1, <1>1, <1>2, <1>3, <1>5 DEF EndTypes, Outcome, GoesOn, Send, Stay,
       InitCodes, NeedApp, KnowsCcs, Early, DataCodes, Codes
<1>6. CASE code \notin {"SEND_OP_COND", "ALL_SEND_CID"} /\ e # "ok"
  <2>1. /\ Fail /\ err' = e /\ UNCHANGED <<code, nested, tries, sawCcs>>
        /\ rca' = IF code = "SEND_REL_ADDR" THEN answered ELSE rca
        /\ flag' = flag
    BY <1>6 DEF CommandEnds
  <2> QED BY <2>1, <1>1, <1>2, <1>3, <1>6 DEF EndTypes, Outcome, GivenUp, Fail, Return
<1>7. CASE code \in {"GO_IDLE", "SEND_IF_COND"} /\ e = "ok"
  <2>1. /\ Send(IF code = "GO_IDLE" THEN "SEND_IF_COND" ELSE "SEND_OP_COND")
        /\ Stay /\ UNCHANGED <<tries, sawCcs>> /\ rca' = rca /\ flag' = flag
    BY <1>7 DEF CommandEnds, DataCodes
  <2>2. code' \in {"SEND_IF_COND", "SEND_OP_COND"} /\ code \in Early /\ pc' = "inhibit" /\ err' = "ok"
    BY <2>1, <1>7 DEF Send, Early
  <2>3. nested' \in BOOLEAN /\ (nested' => code' \in NeedApp)
    BY <2>1, SendIs
  <2>4. EndTypes
    BY <2>1, <2>2, <2>3, <1>3 DEF EndTypes, Codes, InitCodes
  <2>5. call.op = "init" /\ ~ rca
    BY <2>2, <1>1, <1>2, <1>7 DEF InitCodes
  <2>6. UNCHANGED <<flag, last, inited, rca>>
    BY <2>1 DEF Stay
  <2>7. /\ code' \in InitCodes /\ code' \notin KnowsCcs /\ code' \notin DataCodes
    BY <2>2 DEF InitCodes, KnowsCcs, DataCodes
  <2>8. GoesOn
    BY <2>2, <2>3, <2>5, <2>6, <2>7 DEF GoesOn
  <2> QED BY <2>4, <2>8 DEF Outcome
<1>8. CASE code \in {"SEND_REL_ADDR", "CARD_SELECT"} \cup DataCodes /\ e = "ok"
  <2>1. /\ pc' = CASE code = "SEND_REL_ADDR" -> "clock"
                   [] code = "CARD_SELECT"   -> "status"
                   [] code \in DataCodes     -> "ready"
        /\ err' = e /\ Stay /\ UNCHANGED <<code, nested, tries, sawCcs>>
        /\ rca' = (IF code = "SEND_REL_ADDR" THEN answered ELSE rca) /\ flag' = flag
    BY <1>8 DEF CommandEnds, DataCodes
  <2> QED BY <2>1, <1>1, <1>2, <1>3, <1>8 DEF EndTypes, Outcome, WaitsOn, Stay, DataCodes
<1>9. CASE code = "SET_BUS_WIDTH" /\ e = "ok"
  <2>1. /\ Return(TRUE, Torn) /\ err' = e /\ UNCHANGED <<code, nested, tries, sawCcs>>
        /\ rca' = rca /\ flag' = sawCcs
    BY <1>9 DEF CommandEnds, DataCodes
  <2> QED BY <2>1, <1>1, <1>2, <1>3, <1>9 DEF EndTypes, Outcome, InitOver, Return, InitCodes
<1>10. code # "APP_CMD"
  BY <1>1 DEF CodesOf, InitCodes
<1> QED BY <1>1, <1>10, <1>4, <1>5, <1>6, <1>7, <1>8, <1>9 DEF Codes, InitCodes, DataCodes

\* The end of a command, or of the CMD_APP_CMD before it.
LEMMA EndsEffect ==
  ASSUME TypeOK, Waits, NoOldError, Addressing, Clocked,
         pc \in {"inhibit", "answer"},
         NEW e \in {"ok", "timeout", "error"}, NEW answered \in BOOLEAN,
         answered <=> e = "ok",
         Ends(e, answered)
  PROVE  EndTypes /\ Outcome(answered)
<1>1. CASE nested /\ rca /\ ~ (answered /\ resp.app)
  <2>1. CommandEnds("error", FALSE)
    BY <1>1 DEF Ends, AppEnds
  <2>2. EndTypes /\ Outcome(FALSE)
    BY <1>1, <2>1, CommandEffect
  <2>3. call.op = "init"
    BY <1>1 DEF NoOldError
  <2>4. Outcome(answered)
    BY <2>2, <2>3 DEF Outcome, GivenUp, WaitsOn
  <2> QED BY <2>2, <2>4
<1>2. CASE nested /\ ~ (rca /\ ~ (answered /\ resp.app))
  <2>1. /\ pc' = "inhibit" /\ nested' = FALSE /\ err' = e
        /\ Stay /\ UNCHANGED <<code, tries, sawCcs, flag, rca>>
    BY <1>2 DEF Ends, AppEnds
  <2>2. call.op = "init" /\ code \in NeedApp
    BY <1>2 DEF NoOldError, Waits
  <2>3. EndTypes
    BY <2>1 DEF EndTypes, TypeOK
  <2>4. GoesOn
    BY <1>2, <2>1, <2>2 DEF GoesOn, Stay, Addressing, Clocked, InInit, InitCodes, NeedApp, KnowsCcs, Early,
       DataCodes
  <2> QED BY <2>3, <2>4 DEF Outcome
<1>3. CASE ~ nested /\ answered
  <2>1. PICK f \in {"ok", "timeout", "error"} :
          CommandEnds(f, TRUE) /\ (call.op # "init" => f = "ok")
    <3>1. CASE CommandEnds(err, TRUE)
      BY <3>1 DEF TypeOK, NoOldError
    <3>2. CASE code = "SEND_REL_ADDR" /\ CommandEnds("error", TRUE)
      <4>1. call.op = "init"
        BY <3>2 DEF Waits, CodesOf, TypeOK
      <4> QED BY <3>2, <4>1
    <3> QED BY <1>3, <3>1, <3>2 DEF Ends
  <2> QED BY <1>3, <2>1, CommandEffect
<1>4. CASE ~ nested /\ ~ answered
  <2>1. CommandEnds(e, FALSE) /\ e # "ok"
    BY <1>4 DEF Ends
  <2> QED BY <1>4, <2>1, CommandEffect
<1> QED BY <1>1, <1>2, <1>3, <1>4

----------------------------------------------------------------------------
(***************************************************************************)
(* Every step keeps the invariant.                                          *)
(***************************************************************************)
LEMMA ReturnIs ==
  ASSUME TypeOK, NEW ok \in BOOLEAN, NEW val, Return(ok, val)
  PROVE  /\ pc' = "idle"
         /\ last' = [op |-> call.op, lba |-> call.lba, val |-> val, ok |-> ok]
         /\ inited' = IF call.op = "init" /\ ok THEN TRUE ELSE inited
<1>1. inited \in BOOLEAN /\ inited' = (inited \/ (call.op = "init" /\ ok))
  BY DEF Return, TypeOK
<1>2. (inited \/ (call.op = "init" /\ ok)) = IF call.op = "init" /\ ok THEN TRUE ELSE inited
  BY <1>1
<1> QED BY <1>1, <1>2 DEF Return

LEMMA FailIs ==
  ASSUME TypeOK, Fail
  PROVE  /\ pc' = "idle" /\ inited' = inited
         /\ last' = [op |-> call.op, lba |-> call.lba, val |-> Torn, ok |-> FALSE]
<1>1. Return(FALSE, Torn)
  BY DEF Fail
<1> QED BY <1>1, ReturnIs

\* A result has the type of one.
Result == [op : {"init", "read", "write"}, lba : Blocks, val : Values \cup {Torn}, ok : BOOLEAN]

LEMMA ResultType ==
  ASSUME TypeOK, NEW ok \in BOOLEAN, NEW val \in Values \cup {Torn}
  PROVE  [op |-> call.op, lba |-> call.lba, val |-> val, ok |-> ok] \in Result
BY DEF TypeOK, Result

\* A wait that is over for an error flag or a timeout has a cause.
LEMMA GivingUpHasCause ==
  ASSUME TypeOK, Caused, NEW e \in {"timeout", "error"}, IntFails(e),
         cause' = (cause \/ e = "timeout")
  PROVE  cause' = TRUE
<1>1. CASE e = "timeout"
  <2>1. (cause \/ e = "timeout") = TRUE
    BY <1>1
  <2> QED BY <2>1
<1>2. CASE e = "error"
  <2>1. cause = TRUE
    BY <1>2 DEF IntFails, Caused, TypeOK
  <2>2. (cause \/ e = "timeout") = TRUE
    BY <2>1
  <2> QED BY <2>2
<1> QED BY <1>1, <1>2

LEMMA ResetStep ==
  ASSUME IInv, Reset
  PROVE  IInv'
<1>1. TypeOK /\ Waits /\ pc = "reset"
  BY DEF IInv, Reset
<1>2. /\ UNCHANGED <<card, cmd, xfer, fifo, resp, call, code, nested, tries, sawCcs, flag, rca, err,
                     clock, cause>>
      /\ ints' \in {{}, ints} /\ inhibit' \in {{}, inhibit} /\ inited' = inited
      /\ \/ pc' = "clock" /\ last' = last
         \/ pc' = "idle" /\ last' = [op |-> call.op, lba |-> call.lba, val |-> Torn, ok |-> FALSE]
  BY <1>1, FailIs DEF Reset, Stay
<1>3. TypeOK'
  <2>1. last' \in Result
    BY <1>1, <1>2, ResultType DEF TypeOK, Result
  <2>2. /\ ints' \subseteq {"cmd_done", "read_rdy", "write_rdy", "data_done", "error"}
        /\ inhibit' \subseteq {"cmd", "dat"}
    BY <1>1, <1>2 DEF TypeOK
  <2>3. pc' \in {"clock", "idle"}
    BY <1>2
  <2> QED BY <1>1, <1>2, <2>1, <2>2, <2>3 DEF TypeOK, Result, card
<1>4. Waits' /\ NoOldError'
  BY <1>1, <1>2 DEF Waits, NoOldError
<1>5. Addressing' /\ Clocked'
  BY <1>1, <1>2 DEF IInv, Waits, Addressing, Clocked, InInit, KnowsCcs, card
<1>6. Lines'
  BY <1>1, <1>2 DEF IInv, Waits, Lines, NoCmd, NoXfer, DataCodes
<1>7. OwnFlags' /\ Settled'
  BY <1>1, <1>2 DEF Waits, OwnFlags, Settled
<1>8. ModeAgrees' /\ Caused'
  BY <1>1, <1>2 DEF IInv, ModeAgrees, Caused, card
<1>9. FailsForCause'
  BY <1>1, <1>2 DEF IInv, Waits, Addressing, InInit, FailsForCause
<1>10. OnlyInit'
  BY <1>1, <1>2 DEF IInv, OnlyInit, InInit
<1> QED BY <1>3, <1>4, <1>5, <1>6, <1>7, <1>8, <1>9, <1>10 DEF IInv

LEMMA SetClockStep ==
  ASSUME IInv, SetClock
  PROVE  IInv'
<1>1. /\ TypeOK /\ pc = "clock" /\ call.op = "init" /\ code \in {"none", "SEND_REL_ADDR"}
      /\ ~ inited /\ (code = "SEND_REL_ADDR" => rca /\ sawCcs = ccs) /\ (code = "none" => ~ rca)
  BY DEF IInv, SetClock, Waits, Addressing, Clocked, InInit, KnowsCcs
<1>2. /\ UNCHANGED <<card, regs, call, tries, sawCcs, flag, rca, cause>>
      /\ clock' = clock \/ \E hv \in 0 .. 2 : clock' = Hz(IF code = "none" THEN SetupClock ELSE DataClock, hv)
      /\ inited' = inited
      /\ \/ /\ pc' = "idle" /\ UNCHANGED <<code, nested, err>>
            /\ last' = [op |-> call.op, lba |-> call.lba, val |-> Torn, ok |-> FALSE]
         \/ /\ pc' = "inhibit" /\ last' = last /\ err' = "ok"
            /\ code' = IF code = "none" THEN "GO_IDLE" ELSE "CARD_SELECT"
            /\ nested' \in BOOLEAN /\ (nested' => code' \in NeedApp)
  <2>1. CASE Fail
    <3>1. /\ UNCHANGED <<card, regs, call, tries, sawCcs, flag, rca, cause>>
          /\ clock' = clock \/ \E hv \in 0 .. 2 :
               clock' = Hz(IF code = "none" THEN SetupClock ELSE DataClock, hv)
      BY DEF SetClock
    <3>2. UNCHANGED <<code, nested, err>>
      BY <2>1, FailIs, <1>1 DEF SetClock, Send
    <3> QED BY <1>1, <2>1, <3>1, <3>2, FailIs
  <2>2. CASE code = "none" /\ Send("GO_IDLE") /\ Stay
    BY <1>1, <2>2, SendIs DEF SetClock, Stay
  <2>3. CASE code = "SEND_REL_ADDR" /\ Send("CARD_SELECT") /\ Stay
    BY <1>1, <2>3, SendIs DEF SetClock, Stay
  <2> QED BY <2>1, <2>2, <2>3 DEF SetClock
<1>3. clock' \in 0 .. DataClock /\ clock' <= IF rca THEN DataClock ELSE SetupClock
  <2>1. CASE clock' = clock
    BY <2>1 DEF IInv, TypeOK, Clocked
  <2>2. CASE code = "none" /\ \E hv \in 0 .. 2 : clock' = Hz(SetupClock, hv)
    BY <1>1, <2>2, HzFits, ClocksAre
  <2>3. CASE code = "SEND_REL_ADDR" /\ \E hv \in 0 .. 2 : clock' = Hz(DataClock, hv)
    BY <1>1, <2>3, HzFits, ClocksAre
  <2> QED BY <1>1, <1>2, <2>1, <2>2, <2>3
<1>4. TypeOK'
  <2>1. last' \in Result
    BY <1>1, <1>2, ResultType DEF TypeOK, Result
  <2>2. code' \in Codes \cup {"none"} /\ err' \in {"ok", "timeout", "error"} /\ nested' \in BOOLEAN
    BY <1>1, <1>2 DEF TypeOK, Codes, InitCodes
  <2> QED BY <1>1, <1>2, <1>3, <2>1, <2>2 DEF TypeOK, Result, card, regs
<1>5. Waits' /\ NoOldError'
  BY <1>1, <1>2 DEF Waits, NoOldError, CodesOf, InitCodes
<1>6. Addressing' /\ Clocked'
  BY <1>1, <1>2, <1>3 DEF IInv, Addressing, Clocked, InInit, KnowsCcs, card
<1>7. Lines'
  BY <1>1, <1>2 DEF IInv, Lines, NoCmd, NoXfer, DataCodes, regs
<1>8. OwnFlags' /\ Settled'
  BY <1>1, <1>2 DEF OwnFlags, Settled
<1>9. ModeAgrees' /\ Caused' /\ FailsForCause'
  BY <1>1, <1>2 DEF IInv, ModeAgrees, Caused, FailsForCause, card, regs
<1>10. OnlyInit'
  BY <1>1, <1>2 DEF IInv, OnlyInit, InInit, regs
<1> QED BY <1>4, <1>5, <1>6, <1>7, <1>8, <1>9, <1>10 DEF IInv

\* A command that is sent finds no flag left, and one that moves data no data.
LEMMA SendCommandStep ==
  ASSUME IInv, SendCommand
  PROVE  IInv'
<1>1. /\ TypeOK /\ pc = "inhibit" /\ pc' = "answer" /\ "cmd" \notin inhibit /\ ints' = {}
      /\ cmd' = [code |-> IF nested THEN "APP_CMD" ELSE code,
                 arg  |-> IF call.op = "init" THEN 0 ELSE Address]
      /\ inhibit' = inhibit \cup {"cmd"} \cup (IF code \in DataCodes /\ ~ nested THEN {"dat"} ELSE {})
      /\ UNCHANGED <<card, xfer, fifo, resp, call, code, nested, init, err, last, clock, cause>>
  BY DEF IInv, SendCommand, StatusOk
<1>2. /\ code \in CodesOf(call.op) /\ code \in Codes /\ code \notin {"none", "APP_CMD"}
      /\ (nested => code \in NeedApp) /\ cmd = NoCmd
      /\ (call.op # "init" => ~ nested) /\ (code \in DataCodes => xfer = NoXfer)
  BY <1>1 DEF IInv, TypeOK, Waits, NoOldError, Lines, CodesOf, InitCodes, Codes
<1>3. TypeOK'
  <2>1. cmd' \in [code : Codes \cup {"none"}, arg : 0 .. AddrSpace - 1]
    <3>1. (IF call.op = "init" THEN 0 ELSE Address) \in 0 .. AddrSpace - 1
      <4>1. 0 \in 0 .. AddrSpace - 1
        BY SizesAssumption
      <4> QED BY <1>1, <4>1, AddressFits
    <3>2. (IF nested THEN "APP_CMD" ELSE code) \in Codes \cup {"none"}
      BY <1>2 DEF Codes
    <3> QED BY <1>1, <3>1, <3>2
  <2>2. ints' \subseteq {"cmd_done", "read_rdy", "write_rdy", "data_done", "error"}
          /\ inhibit' \subseteq {"cmd", "dat"}
    BY <1>1 DEF TypeOK
  <2> QED BY <1>1, <2>1, <2>2 DEF TypeOK, card, init
<1>4. Waits' /\ NoOldError'
  BY <1>1, <1>2 DEF IInv, Waits, NoOldError
<1>5. Addressing' /\ Clocked'
  BY <1>1, <1>2 DEF IInv, Addressing, Clocked, InInit, card, init
<1>6. Lines'
  <2>1. cmd'.code = IF nested THEN "APP_CMD" ELSE code
    BY <1>1
  <2>2. xfer # NoXfer => "dat" \in inhibit' /\ xfer.kind # "none" /\ xfer.phase # "none"
    BY <1>1 DEF IInv, Lines
  <2>3. cmd'.code \in DataCodes => "dat" \in inhibit' /\ xfer = NoXfer
    BY <1>1, <1>2, <2>1 DEF DataCodes
  <2>4. nested /\ code \in DataCodes => xfer = NoXfer /\ cmd'.code \notin DataCodes
    BY <1>2, <2>1 DEF DataCodes
  <2>5. "cmd" \in inhibit' /\ cmd'.code # "none" /\ "cmd_done" \notin ints'
    BY <1>1, <1>2, <2>1
  <2> QED BY <1>1, <2>2, <2>3, <2>4, <2>5 DEF Lines, NoXfer
<1>7. OwnFlags'
  <2>1. Address' = Address
    BY <1>1 DEF Address, init
  <2>2. call.op # "init" => cmd' = [code |-> code, arg |-> Address] /\ cmd' # NoCmd /\ xfer = NoXfer
    <3>1. call.op # "init" => code \in DataCodes
      BY <1>1, <1>2 DEF CodesOf, DataCodes, TypeOK
    <3> QED BY <1>1, <1>2, <3>1 DEF NoCmd
  <2>3. NoCmd' = NoCmd /\ NoXfer' = NoXfer
    BY DEF NoCmd, NoXfer
  <2> QED BY <1>1, <2>1, <2>2, <2>3 DEF OwnFlags
<1>8. Settled' /\ ModeAgrees' /\ Caused' /\ FailsForCause'
  BY <1>1 DEF IInv, Settled, ModeAgrees, Caused, FailsForCause, card, init
<1>9. OnlyInit'
  BY <1>1, <1>2 DEF IInv, OnlyInit, InInit, CodesOf, InitCodes
<1> QED BY <1>3, <1>4, <1>5, <1>6, <1>7, <1>8, <1>9 DEF IInv

\* The end of a command, whichever way it ends.
LEMMA EndStep ==
  ASSUME IInv, NEW answered \in BOOLEAN, EndTypes, Outcome(answered),
         UNCHANGED <<card, inhibit, cmd, xfer, fifo, resp, call, clock>>,
         pc \in {"inhibit", "answer"},
         answered  => /\ pc = "answer" /\ "cmd_done" \in ints /\ "error" \notin ints
                      /\ ints' = ints \ {"cmd_done"} /\ cause' = cause,
         ~answered => ints' \in {{}, ints} /\ cause' = TRUE
  PROVE  IInv'
<1>1. /\ TypeOK /\ code \in CodesOf(call.op) /\ call.op \in {"init", "read", "write"}
      /\ (call.op = "init" => ~ inited) /\ cause' \in BOOLEAN
      /\ (answered => cmd = NoCmd) /\ inited \in BOOLEAN
  BY DEF IInv, TypeOK, Waits, Addressing, InInit, Lines
<1>2. TypeOK'
  <2>1. last' \in Result /\ inited' \in BOOLEAN
    <3>1. CASE GivenUp(answered) \/ InitOver
      BY <1>1, <3>1, ResultType DEF GivenUp, InitOver
    <3>2. CASE GoesOn \/ WaitsOn(answered)
      BY <1>1, <3>2 DEF GoesOn, WaitsOn, TypeOK, Result
    <3> QED BY <3>1, <3>2 DEF Outcome
  <2>2. pc' \in {"clock", "inhibit", "idle", "status", "ready"}
    BY DEF Outcome, GivenUp, InitOver, GoesOn, WaitsOn
  <2>3. ints' \subseteq {"cmd_done", "read_rdy", "write_rdy", "data_done", "error"}
    BY <1>1 DEF TypeOK
  <2> QED BY <1>1, <2>1, <2>2, <2>3 DEF TypeOK, Result, EndTypes, card
<1>3. Waits'
  BY <1>1 DEF Outcome, GivenUp, InitOver, GoesOn, WaitsOn, Waits, CodesOf, InitCodes, DataCodes
<1>4. NoOldError'
  BY <1>1 DEF Outcome, GivenUp, InitOver, GoesOn, WaitsOn, NoOldError
<1>5. Addressing'
  BY <1>1 DEF IInv, Outcome, GivenUp, InitOver, GoesOn, WaitsOn, Addressing, InInit, KnowsCcs, card
<1>6. Clocked'
  <2>1. clock' <= IF rca' THEN DataClock ELSE SetupClock
    BY <1>1, ClocksAre DEF IInv, Clocked, EndTypes, TypeOK
  <2>2. /\ pc' = "clock" /\ code' = "SEND_REL_ADDR" => rca'
        /\ pc' \in {"inhibit", "answer"} /\ code' = "SEND_REL_ADDR" => ~ rca'
    BY DEF Outcome, GivenUp, InitOver, GoesOn, WaitsOn
  <2>3. call'.op = "init" /\ pc' # "idle" /\ code' \in Early => ~ rca'
    BY <1>1 DEF Outcome, GivenUp, InitOver, GoesOn, WaitsOn, Early, DataCodes
  <2> QED BY <2>1, <2>2, <2>3 DEF Clocked, InInit, Early
<1>7. Lines'
  <2>1. NoCmd' = NoCmd /\ NoXfer' = NoXfer /\ cmd' = cmd /\ xfer' = xfer /\ inhibit' = inhibit
    BY DEF NoCmd, NoXfer
  <2>2. pc' = "inhibit" /\ code' \in DataCodes => xfer = NoXfer /\ cmd.code \notin DataCodes
    BY DEF IInv, Lines, Outcome, GivenUp, InitOver, GoesOn, WaitsOn
  <2>3. pc' \in {"ready", "stored", "scr"} => cmd = NoCmd
    BY <1>1 DEF Outcome, GivenUp, InitOver, GoesOn, WaitsOn
  <2>4. pc' # "answer"
    BY DEF Outcome, GivenUp, InitOver, GoesOn, WaitsOn
  <2> QED BY <2>1, <2>2, <2>3, <2>4 DEF IInv, Lines
<1>8. OwnFlags'
  <2>1. pc' # "answer" /\ pc' # "stored"
    BY DEF Outcome, GivenUp, InitOver, GoesOn, WaitsOn
  <2>2. ASSUME pc' = "ready", call.op # "init"
        PROVE  /\ answered /\ inited' = inited /\ code' = code
               /\ "error" \notin ints' /\ "data_done" \notin ints' /\ OwnData'
    <3>1. answered /\ inited' = inited /\ code' = code
      BY <2>2 DEF Outcome, GivenUp, InitOver, GoesOn, WaitsOn
    <3>2. "data_done" \notin ints /\ OwnData
      BY <1>1, <2>2, <3>1 DEF IInv, OwnFlags
    <3> QED BY <3>1, <3>2 DEF OwnData, NoXfer, card
  <2> QED BY <1>1, <2>1, <2>2 DEF OwnFlags, NoCmd
<1>9. Settled'
  BY <1>1 DEF Outcome, GivenUp, InitOver, GoesOn, WaitsOn, Settled
<1>10. ModeAgrees'
  <2>1. ccs' = ccs
    BY DEF card
  <2>2. CASE InitOver
    BY <1>1, <2>1, <2>2 DEF IInv, InitOver, ModeAgrees, Addressing, InInit, KnowsCcs
  <2>3. CASE ~ InitOver
    <3>1. inited' = inited /\ flag' = flag
      BY <2>3 DEF Outcome, GivenUp, GoesOn, WaitsOn
    <3> QED BY <2>1, <3>1 DEF IInv, ModeAgrees
  <2> QED BY <2>2, <2>3
<1>11. Caused'
  BY DEF IInv, Caused
<1>12. FailsForCause'
  <2>1. CASE GivenUp(answered)
    BY <1>1, <2>1 DEF GivenUp, FailsForCause
  <2>2. CASE InitOver
    BY <2>2 DEF InitOver, FailsForCause
  <2>3. CASE GoesOn \/ WaitsOn(answered)
    BY <2>3 DEF GoesOn, WaitsOn, FailsForCause
  <2> QED BY <2>1, <2>2, <2>3 DEF Outcome
<1>13. OnlyInit'
  BY DEF IInv, OnlyInit, InInit, Outcome, GivenUp, InitOver, GoesOn, WaitsOn
<1> QED BY <1>2, <1>3, <1>4, <1>5, <1>6, <1>7, <1>8, <1>9, <1>10, <1>11, <1>12, <1>13 DEF IInv

LEMMA CommandBlockedStep ==
  ASSUME IInv, CommandBlocked
  PROVE  IInv'
<1>1. EndTypes /\ Outcome(FALSE)
  BY EndsEffect DEF IInv, CommandBlocked
<1> QED BY <1>1, EndStep DEF CommandBlocked, regs

LEMMA AnsweredStep ==
  ASSUME IInv, Answered
  PROVE  IInv'
<1>1. EndTypes /\ Outcome(TRUE)
  BY EndsEffect DEF IInv, Answered
<1> QED BY <1>1, EndStep DEF Answered, IntOk

LEMMA NotAnsweredStep ==
  ASSUME IInv, NotAnswered
  PROVE  IInv'
<1>1. PICK e \in {"timeout", "error"} : IntFails(e) /\ cause' = (cause \/ e = "timeout") /\ Ends(e, FALSE)
  BY DEF NotAnswered
<1>2. EndTypes /\ Outcome(FALSE)
  BY <1>1, EndsEffect DEF IInv, NotAnswered
<1>3. cause' = TRUE
  BY <1>1, GivingUpHasCause DEF IInv
<1> QED BY <1>2, <1>3, EndStep DEF NotAnswered

LEMMA LineFreeStep ==
  ASSUME IInv, LineFree
  PROVE  IInv'
<1>1. /\ TypeOK /\ pc = "status" /\ "dat" \notin inhibit
      /\ call.op \in {"init", "read", "write"} /\ (call.op = "init" => code = "CARD_SELECT")
      /\ xfer = NoXfer /\ cmd.code \notin DataCodes
  BY DEF IInv, LineFree, StatusOk, TypeOK, Waits, Lines
<1>2. /\ pc' = "inhibit" /\ err' = "ok" /\ nested' \in BOOLEAN /\ (nested' => code' \in NeedApp)
      /\ code' = CASE call.op = "init" -> "SEND_SCR" [] call.op = "read" -> "READ_SINGLE"
                   [] call.op = "write" -> "WRITE_SINGLE"
      /\ UNCHANGED <<card, regs, call, init, last, clock, cause>>
  BY SendIs DEF LineFree
<1>3. code' \in CodesOf(call.op) /\ code' \in DataCodes /\ (call.op # "init" => ~ nested')
  BY <1>1, <1>2 DEF CodesOf, InitCodes, DataCodes, NeedApp
<1>4. TypeOK'
  BY <1>1, <1>2, <1>3 DEF TypeOK, Codes, DataCodes, InitCodes, card, regs, init
<1>5. Waits' /\ NoOldError'
  BY <1>1, <1>2, <1>3 DEF Waits, NoOldError
<1>6. Addressing' /\ Clocked'
  BY <1>1, <1>2, <1>3 DEF IInv, Addressing, Clocked, InInit, KnowsCcs, DataCodes, card, init
<1>7. Lines'
  BY <1>1, <1>2 DEF IInv, Lines, NoCmd, NoXfer, regs
<1>8. OwnFlags' /\ Settled'
  BY <1>2 DEF OwnFlags, Settled
<1>9. ModeAgrees' /\ Caused' /\ FailsForCause'
  BY <1>2 DEF IInv, ModeAgrees, Caused, FailsForCause, card, regs, init
<1>10. OnlyInit'
  BY <1>1, <1>2 DEF IInv, OnlyInit, InInit, regs
<1> QED BY <1>4, <1>5, <1>6, <1>7, <1>8, <1>9, <1>10 DEF IInv

\* A call that is given up, and the waits of a read or write that give up.
LEMMA GivenUpStep ==
  ASSUME IInv, Fail, pc \in {"status", "ready", "stored"}, cause' = TRUE,
         ints' \in {{}, ints}, err' \in {"ok", "timeout", "error"},
         UNCHANGED <<card, inhibit, cmd, xfer, fifo, resp, call, code, nested, tries, sawCcs, flag,
                     rca, clock>>
  PROVE  IInv'
<1>1. /\ TypeOK /\ pc' = "idle" /\ inited' = inited
      /\ last' = [op |-> call.op, lba |-> call.lba, val |-> Torn, ok |-> FALSE]
  BY FailIs DEF IInv
<1>2. TypeOK'
  <2>1. last' \in Result
    BY <1>1, ResultType
  <2>2. ints' \subseteq {"cmd_done", "read_rdy", "write_rdy", "data_done", "error"}
    BY <1>1 DEF TypeOK
  <2> QED BY <1>1, <2>1, <2>2 DEF TypeOK, Result, card
<1>3. Waits' /\ NoOldError'
  BY <1>1 DEF Waits, NoOldError
<1>4. Addressing' /\ Clocked'
  BY <1>1 DEF IInv, Addressing, Clocked, InInit, card
<1>5. Lines'
  BY <1>1 DEF IInv, Lines, NoCmd, NoXfer
<1>6. OwnFlags' /\ Settled'
  BY <1>1 DEF OwnFlags, Settled
<1>7. ModeAgrees' /\ Caused' /\ FailsForCause'
  BY <1>1 DEF IInv, ModeAgrees, Caused, FailsForCause, card
<1>8. OnlyInit'
  BY <1>1 DEF IInv, OnlyInit, InInit
<1> QED BY <1>2, <1>3, <1>4, <1>5, <1>6, <1>7, <1>8 DEF IInv

LEMMA LineBusyStep ==
  ASSUME IInv, LineBusy
  PROVE  IInv'
BY GivenUpStep DEF LineBusy, regs, IInv, TypeOK

LEMMA NoBufferStep ==
  ASSUME IInv, NoBuffer
  PROVE  IInv'
<1>1. PICK e \in {"timeout", "error"} :
        IntFails(e) /\ cause' = (cause \/ e = "timeout") /\ err' = IF call.op = "init" THEN err ELSE e
  BY DEF NoBuffer
<1>2. cause' = TRUE
  BY <1>1, GivingUpHasCause DEF IInv
<1>3. err' \in {"ok", "timeout", "error"}
  BY <1>1 DEF IInv, TypeOK
<1> QED BY <1>2, <1>3, GivenUpStep DEF NoBuffer

LEMMA NotStoredStep ==
  ASSUME IInv, NotStored
  PROVE  IInv'
<1>1. PICK e \in {"timeout", "error"} :
        IntFails(e) /\ cause' = (cause \/ e = "timeout") /\ err' = e
  BY DEF NotStored
<1>2. cause' = TRUE
  BY <1>1, GivingUpHasCause DEF IInv
<1> QED BY <1>1, <1>2, GivenUpStep DEF NotStored

\* The data of a transfer whose buffer is ready are those of the call.
LEMMA MoveDataStep ==
  ASSUME IInv, MoveData
  PROVE  IInv'
<1>1. /\ TypeOK /\ pc = "ready" /\ "error" \notin ints /\ Rdy \in ints /\ ints' = ints \ {Rdy}
      /\ UNCHANGED <<card, inhibit, cmd, resp, call, code, nested, tries, sawCcs, flag, rca, err,
                     clock, cause>>
  BY DEF IInv, MoveData, IntOk
<1>2. /\ call.op \in {"init", "read", "write"} /\ cmd = NoCmd
      /\ (call.op = "init" => code = "SEND_SCR" /\ ~ inited)
      /\ (call.op = "read" => code = "READ_SINGLE")
      /\ (call.op = "write" => code = "WRITE_SINGLE")
  BY <1>1 DEF IInv, TypeOK, Waits, Lines, CodesOf, InitCodes, DataCodes, Addressing, InInit
<1>3. ASSUME call.op # "init"
      PROVE  /\ "data_done" \notin ints /\ xfer.kind = code /\ xfer.phase = "open"
             /\ (inited => xfer.block = call.lba)
             /\ (call.op = "read" => fifo = blocks[xfer.block])
  BY <1>1, <1>2, <1>3 DEF IInv, OwnFlags, OwnData, Rdy
<1>4. CASE call.op = "init"
  <2>1. pc' = "scr" /\ UNCHANGED <<last, inited, xfer, fifo>>
    BY <1>4 DEF MoveData, Stay
  <2>2. TypeOK'
    BY <1>1, <2>1 DEF TypeOK, card
  <2>3. Waits' /\ NoOldError' /\ Addressing' /\ Clocked'
    BY <1>1, <1>2, <1>4, <2>1 DEF IInv, Waits, NoOldError, Addressing, Clocked, InInit, KnowsCcs, card
  <2>4. Lines'
    BY <1>1, <1>2, <2>1 DEF IInv, Lines, NoCmd, NoXfer
  <2>5. OwnFlags' /\ Settled' /\ ModeAgrees' /\ Caused' /\ FailsForCause'
    BY <1>1, <2>1 DEF IInv, OwnFlags, Settled, ModeAgrees, Caused, FailsForCause, card
  <2>6. OnlyInit'
    BY <1>1, <2>1 DEF IInv, OnlyInit, InInit
  <2> QED BY <2>2, <2>3, <2>4, <2>5, <2>6 DEF IInv
<1>5. CASE call.op # "init"
  <2>1. /\ xfer' = [xfer EXCEPT !.phase = "moved"] /\ xfer \in Transfer /\ inited' = inited
        /\ \/ /\ call.op = "read" /\ pc' = "idle" /\ fifo' = fifo
              /\ last' = [op |-> call.op, lba |-> call.lba, val |-> fifo, ok |-> TRUE]
           \/ call.op = "write" /\ pc' = "stored" /\ fifo' = call.val /\ last' = last
    <3>1. CASE call.op = "read"
      <4>1. xfer' = [xfer EXCEPT !.phase = "moved"] /\ Return(TRUE, fifo) /\ fifo' = fifo
        BY <3>1 DEF MoveData
      <4> QED BY <1>1, <3>1, <4>1, ReturnIs DEF TypeOK
    <3>2. CASE call.op = "write"
      BY <1>1, <3>2 DEF MoveData, Stay, TypeOK
    <3> QED BY <1>2, <1>5, <3>1, <3>2
  <2>2. xfer' \in Transfer /\ xfer'.kind = xfer.kind /\ xfer'.block = xfer.block /\ xfer'.phase = "moved"
    BY <2>1 DEF Transfer
  <2>3. TypeOK'
    <3>1. fifo' \in Values \cup {Torn}
      BY <1>1, <2>1 DEF TypeOK
    <3>2. last' \in Result
      BY <1>1, <2>1, ResultType DEF TypeOK, Result
    <3> QED BY <1>1, <2>1, <2>2, <3>1, <3>2 DEF TypeOK, Result, card
  <2>4. Waits' /\ NoOldError' /\ Addressing' /\ Clocked'
    BY <1>1, <1>2, <1>5, <2>1 DEF IInv, Waits, NoOldError, Addressing, Clocked, InInit, KnowsCcs, card
  <2>5. Lines'
    <3>1. xfer # NoXfer /\ xfer.kind # "none"
      BY <1>2, <1>3, <1>5 DEF NoXfer
    <3> QED BY <1>1, <1>2, <2>1, <2>2, <3>1 DEF IInv, Lines, NoCmd, NoXfer, DataCodes
  <2>6. OwnFlags'
    BY <1>1, <1>2, <1>3, <1>5, <2>1, <2>2 DEF OwnFlags, NoXfer
  <2>7. Settled'
    BY <1>1, <1>2, <1>3, <1>5, <2>1, <2>2 DEF Settled, NoCmd, card
  <2>8. ModeAgrees' /\ Caused' /\ FailsForCause'
    BY <1>1, <2>1 DEF IInv, ModeAgrees, Caused, FailsForCause, card
  <2>9. OnlyInit'
    BY <1>1, <1>5 DEF IInv, OnlyInit, InInit
  <2> QED BY <2>3, <2>4, <2>5, <2>6, <2>7, <2>8, <2>9 DEF IInv
<1> QED BY <1>4, <1>5

LEMMA StoredStep ==
  ASSUME IInv, Stored
  PROVE  IInv'
<1>1. /\ TypeOK /\ pc = "stored" /\ "error" \notin ints /\ "data_done" \in ints
      /\ ints' = ints \ {"data_done"} /\ Return(TRUE, call.val)
      /\ UNCHANGED <<card, inhibit, cmd, xfer, fifo, resp, call, code, nested, tries, sawCcs, flag,
                     rca, err, clock, cause>>
  BY DEF IInv, Stored, IntOk
<1>2. /\ call.op = "write" /\ cmd = NoCmd /\ xfer = NoXfer
      /\ inited => blocks[call.lba] = call.val
  BY <1>1 DEF IInv, Waits, Lines, OwnFlags
<1>3. /\ pc' = "idle" /\ inited' = inited
      /\ last' = [op |-> call.op, lba |-> call.lba, val |-> call.val, ok |-> TRUE]
  BY <1>1, <1>2, ReturnIs
<1>4. TypeOK'
  <2>1. last' \in Result
    BY <1>1, <1>3, ResultType DEF TypeOK
  <2> QED BY <1>1, <1>3, <2>1 DEF TypeOK, Result, card
<1>5. Waits' /\ NoOldError' /\ Addressing' /\ Clocked'
  BY <1>1, <1>3 DEF IInv, Waits, NoOldError, Addressing, Clocked, InInit, card
<1>6. Lines'
  BY <1>1, <1>3 DEF IInv, Lines, NoCmd, NoXfer
<1>7. OwnFlags' /\ ModeAgrees' /\ Caused' /\ FailsForCause'
  BY <1>1, <1>3 DEF IInv, OwnFlags, ModeAgrees, Caused, FailsForCause, card
<1>8. Settled'
  BY <1>1, <1>2, <1>3 DEF Settled, NoCmd, NoXfer, card
<1>9. OnlyInit'
  BY <1>3 DEF IInv, OnlyInit, InInit
<1> QED BY <1>4, <1>5, <1>6, <1>7, <1>8, <1>9 DEF IInv

LEMMA ReadScrStep ==
  ASSUME IInv, ReadScr
  PROVE  IInv'
<1>1. /\ TypeOK /\ pc = "scr" /\ xfer.phase = "open" /\ xfer' = [xfer EXCEPT !.phase = "moved"]
      /\ UNCHANGED <<card, ints, inhibit, cmd, fifo, resp, call, tries, sawCcs, rca, clock, cause>>
  BY DEF IInv, ReadScr
<1>2. /\ call.op = "init" /\ code = "SEND_SCR" /\ cmd = NoCmd /\ ~ inited /\ sawCcs = ccs
      /\ xfer # NoXfer /\ xfer \in Transfer
  BY <1>1 DEF IInv, Waits, Lines, Addressing, InInit, KnowsCcs, NoXfer, TypeOK
<1>3. \/ /\ pc' = "inhibit" /\ code' = "SET_BUS_WIDTH" /\ err' = "ok" /\ flag' \in BOOLEAN
         /\ nested' \in BOOLEAN /\ (nested' => code' \in NeedApp) /\ UNCHANGED <<last, inited>>
      \/ /\ pc' = "idle" /\ UNCHANGED <<code, nested, err>> /\ flag' = ccs /\ inited' = TRUE
         /\ last' = [op |-> call.op, lba |-> call.lba, val |-> Torn, ok |-> TRUE]
  <2>1. CASE flag' \in BOOLEAN /\ Send("SET_BUS_WIDTH") /\ Stay
    BY <2>1, SendIs DEF Stay
  <2>2. CASE flag' = sawCcs /\ Return(TRUE, Torn) /\ UNCHANGED <<code, nested, err>>
    BY <1>1, <1>2, <2>2, ReturnIs
  <2> QED BY <2>1, <2>2 DEF ReadScr
<1>4. xfer' \in Transfer /\ xfer'.kind = xfer.kind /\ xfer'.phase = "moved"
  BY <1>1, <1>2 DEF Transfer
<1>5. TypeOK'
  <2>1. last' \in Result
    BY <1>1, <1>3, ResultType DEF TypeOK, Result
  <2>2. code' \in Codes \cup {"none"} /\ nested' \in BOOLEAN /\ flag' \in BOOLEAN /\ inited' \in BOOLEAN
        /\ err' \in {"ok", "timeout", "error"} /\ pc' \in {"inhibit", "idle"}
    BY <1>1, <1>2, <1>3 DEF TypeOK, Codes, InitCodes
  <2> QED BY <1>1, <1>4, <2>1, <2>2 DEF TypeOK, Result, card
<1>6. Waits' /\ NoOldError'
  BY <1>1, <1>2, <1>3 DEF Waits, NoOldError, CodesOf, InitCodes
<1>7. Addressing' /\ Clocked'
  BY <1>1, <1>2, <1>3 DEF IInv, Addressing, Clocked, InInit, KnowsCcs, card
<1>8. Lines'
  BY <1>1, <1>2, <1>3, <1>4 DEF IInv, Lines, NoCmd, NoXfer, DataCodes
<1>9. OwnFlags' /\ Settled' /\ ModeAgrees' /\ Caused' /\ FailsForCause'
  BY <1>1, <1>2, <1>3 DEF IInv, OwnFlags, Settled, ModeAgrees, Caused, FailsForCause, card
<1>10. OnlyInit'
  BY <1>1, <1>2, <1>3, <1>4 DEF IInv, OnlyInit, InInit
<1> QED BY <1>5, <1>6, <1>7, <1>8, <1>9, <1>10 DEF IInv

\* A call that begins takes over nothing but an error flag.
LEMMA CallStep ==
  ASSUME IInv, pc = "idle", NEW b \in Blocks, NEW v \in Values \cup {Torn}, NEW o \in {"read", "write"},
         call' = [op |-> o, lba |-> b, val |-> v], pc' = "status", last' = NoLast,
         cause' = ("error" \in ints),
         UNCHANGED <<card, regs, code, nested, init, err, clock>>
  PROVE  IInv'
<1>1. cause' \in BOOLEAN /\ ("error" \in ints => cause')
  <2>1. CASE "error" \in ints
    <3>1. ("error" \in ints) = TRUE
      BY <2>1
    <3> QED BY <3>1
  <2>2. CASE "error" \notin ints
    <3>1. ("error" \in ints) = FALSE
      BY <2>2
    <3> QED BY <2>2, <3>1
  <2> QED BY <2>1, <2>2
<1>2. TypeOK'
  <2>1. NoLast \in Result
    BY SizesAssumption DEF NoLast, Result, Blocks
  <2>2. call' \in [op : {"init", "read", "write"}, lba : Blocks, val : Values \cup {Torn}]
    OBVIOUS
  <2> QED BY <1>1, <2>1, <2>2 DEF IInv, TypeOK, Result, card, regs, init
<1>3. Waits' /\ NoOldError' /\ Addressing' /\ Clocked'
  BY DEF IInv, Waits, NoOldError, Addressing, Clocked, InInit, card, init
<1>4. Lines'
  BY DEF IInv, Lines, NoCmd, NoXfer, regs
<1>5. OwnFlags' /\ Settled' /\ ModeAgrees' /\ Caused' /\ FailsForCause'
  BY <1>1 DEF IInv, OwnFlags, Settled, ModeAgrees, Caused, FailsForCause, card, regs, init
<1>6. OnlyInit'
  BY DEF IInv, OnlyInit, InInit
<1> QED BY <1>2, <1>3, <1>4, <1>5, <1>6 DEF IInv

LEMMA ReadStep ==
  ASSUME IInv, NEW b \in Blocks, Read(b)
  PROVE  IInv'
BY CallStep DEF Read

LEMMA WriteStep ==
  ASSUME IInv, NEW b \in Blocks, NEW v \in Values, Write(b, v)
  PROVE  IInv'
BY CallStep DEF Write

\* What the controller and the card do disturbs no wait, and no address or clock.
LEMMA HardwareIs ==
  ASSUME IInv, Hardware
  PROVE  /\ TypeOK /\ UNCHANGED <<ccs, pc, call, code, nested, init, err, last, clock>>
         /\ cause' \in BOOLEAN /\ (cause => cause') /\ ("error" \in ints' => cause')
         /\ Waits' /\ NoOldError' /\ Addressing' /\ Clocked' /\ ModeAgrees' /\ Caused' /\ FailsForCause'
<1>1. cause' = (cause \/ "error" \in ints') /\ cause \in BOOLEAN
  BY DEF IInv, Hardware, TypeOK
<1>2. /\ TypeOK /\ UNCHANGED <<ccs, pc, call, code, nested, init, err, last, clock>>
      /\ (pc = "reset" => cmd = NoCmd /\ xfer = NoXfer)
      /\ cmd # NoCmd \/ xfer # NoXfer
  BY DEF IInv, Hardware, CardAnswers, CardFails, BufferReady, DataDone, DataFails, card, Waits, NoXfer
<1>3. cause' \in BOOLEAN /\ (cause => cause') /\ ("error" \in ints' => cause')
  <2>1. CASE "error" \in ints'
    <3>1. (cause \/ "error" \in ints') = TRUE
      BY <2>1
    <3> QED BY <1>1, <3>1
  <2>2. CASE "error" \notin ints'
    <3>1. (cause \/ "error" \in ints') = cause
      BY <1>1, <2>2
    <3> QED BY <1>1, <2>2, <3>1
  <2> QED BY <2>1, <2>2
<1>4. Waits' /\ NoOldError' /\ Addressing' /\ Clocked'
  BY <1>2 DEF IInv, Waits, NoOldError, Addressing, Clocked, InInit, init
<1>5. ModeAgrees' /\ Caused' /\ FailsForCause'
  BY <1>2, <1>3 DEF IInv, ModeAgrees, Caused, FailsForCause, init
<1> QED BY <1>2, <1>3, <1>4, <1>5

LEMMA CardAnswersStep ==
  ASSUME IInv, Hardware, CardAnswers
  PROVE  IInv'
<1>1. /\ TypeOK /\ cmd # NoCmd /\ cmd' = NoCmd /\ ints' = ints \cup {"cmd_done"} /\ inhibit' = inhibit \ {"cmd"}
      /\ UNCHANGED <<blocks, ccs, fifo, pc, call, code, nested, init, err, last, clock>>
      /\ cause' \in BOOLEAN
  BY HardwareIs DEF CardAnswers
<1>2. /\ \/ xfer' = xfer
         \/ cmd.code = "SEND_SCR" /\ xfer' = [kind |-> "scr", block |-> 0, phase |-> "begun"]
         \/ /\ cmd.code \in {"READ_SINGLE", "WRITE_SINGLE"} /\ Addressable(cmd.arg)
            /\ xfer' = [kind |-> cmd.code, block |-> AddressedBlock(cmd.arg), phase |-> "begun"]
      /\ cmd.code \in {"READ_SINGLE", "WRITE_SINGLE"} /\ Addressable(cmd.arg) =>
            xfer' = [kind |-> cmd.code, block |-> AddressedBlock(cmd.arg), phase |-> "begun"]
  BY DEF CardAnswers
<1>3. TypeOK'
  <2>1. xfer' \in Transfer
    BY <1>1, <1>2, SizesAssumption DEF TypeOK, Transfer, Addressable, Blocks
  <2>2. resp' \in [app : BOOLEAN, complete : BOOLEAN] /\ app' \in BOOLEAN
    <3>1. CASE cmd.code = "APP_CMD"
      <4>1. (cmd.code = "APP_CMD") = TRUE
        BY <3>1
      <4>2. app' \in BOOLEAN
        BY <4>1 DEF CardAnswers
      <4>3. resp' \in {[NoResp EXCEPT !.app = b] : b \in BOOLEAN}
        BY <3>1 DEF CardAnswers
      <4> QED BY <4>2, <4>3 DEF NoResp
    <3>2. CASE cmd.code # "APP_CMD"
      <4>1. (cmd.code = "APP_CMD") = FALSE
        BY <3>2
      <4>2. app' \in BOOLEAN
        BY <4>1 DEF CardAnswers
      <4>3. (\E b \in BOOLEAN : resp' = [NoResp EXCEPT !.complete = b]) \/ resp' = NoResp
        BY <3>2 DEF CardAnswers
      <4>4. NoResp \in [app : BOOLEAN, complete : BOOLEAN]
        BY DEF NoResp
      <4>5. ASSUME NEW b \in BOOLEAN
            PROVE  [NoResp EXCEPT !.complete = b] \in [app : BOOLEAN, complete : BOOLEAN]
        BY <4>4
      <4> QED BY <4>2, <4>3, <4>4, <4>5
    <3> QED BY <3>1, <3>2
  <2>3. cmd' \in [code : Codes \cup {"none"}, arg : 0 .. AddrSpace - 1]
    BY <1>1, SizesAssumption DEF NoCmd
  <2>4. ints' \subseteq {"cmd_done", "read_rdy", "write_rdy", "data_done", "error"}
          /\ inhibit' \subseteq {"cmd", "dat"}
    BY <1>1 DEF TypeOK
  <2> QED BY <1>1, <2>1, <2>2, <2>3, <2>4 DEF TypeOK, init
<1>4. Lines'
  <2>1. xfer' # xfer => cmd.code \in DataCodes /\ xfer'.kind # "none" /\ xfer'.phase # "none"
    BY <1>2 DEF DataCodes
  <2>2. cmd'.code \notin DataCodes
    BY <1>1 DEF NoCmd, DataCodes
  <2> QED BY <1>1, <2>1, <2>2 DEF IInv, Lines, NoCmd, NoXfer
<1>5. OwnFlags'
  <2>1. pc # "stored"
    BY <1>1 DEF IInv, Lines
  <2>2. ASSUME pc \in {"answer", "ready"}, call.op # "init"
        PROVE  "data_done" \notin ints' /\ OwnData'
    <3>1. cmd = [code |-> code, arg |-> Address] /\ xfer = NoXfer /\ ints = {}
      BY <1>1, <2>2 DEF IInv, OwnFlags
    <3>2. code \in {"READ_SINGLE", "WRITE_SINGLE"}
      BY <1>1, <2>2 DEF IInv, Waits, CodesOf, DataCodes, TypeOK
    <3>3. CASE xfer' = xfer
      BY <1>1, <3>1, <3>3 DEF OwnData, NoXfer
    <3>4. CASE Addressable(Address) /\ xfer' = [kind |-> code, block |-> AddressedBlock(Address), phase |-> "begun"]
      <4>1. inited => AddressedBlock(Address) = call.lba
        BY <1>1, AddressIsBlock DEF IInv
      <4> QED BY <1>1, <3>1, <3>4, <4>1 DEF OwnData, init
    <3> QED BY <1>2, <3>1, <3>2, <3>3, <3>4
  <2> QED BY <1>1, <2>1, <2>2 DEF OwnFlags, NoCmd
<1>6. Settled'
  BY <1>1 DEF IInv, Settled
<1>7. OnlyInit'
  BY <1>1, <1>2 DEF IInv, OnlyInit, InInit, NoCmd, NoXfer
<1> QED BY <1>3, <1>4, <1>5, <1>6, <1>7, HardwareIs DEF IInv

LEMMA CardFailsStep ==
  ASSUME IInv, Hardware, CardFails
  PROVE  IInv'
<1>1. /\ TypeOK /\ cmd # NoCmd /\ cmd' = NoCmd /\ app' = FALSE /\ ints' = ints \cup {"error"}
      /\ inhibit' \subseteq inhibit /\ (xfer # NoXfer => ("dat" \in inhibit' <=> "dat" \in inhibit))
      /\ UNCHANGED <<blocks, ccs, xfer, fifo, resp, pc, call, code, nested, init, err, last, clock>>
      /\ cause' \in BOOLEAN
  BY HardwareIs DEF CardFails
<1>2. TypeOK'
  <2>1. cmd' \in [code : Codes \cup {"none"}, arg : 0 .. AddrSpace - 1]
    BY <1>1, SizesAssumption DEF NoCmd
  <2>2. ints' \subseteq {"cmd_done", "read_rdy", "write_rdy", "data_done", "error"}
          /\ inhibit' \subseteq {"cmd", "dat"}
    BY <1>1 DEF TypeOK
  <2>3. app' \in BOOLEAN
    BY <1>1
  <2> QED BY <1>1, <2>1, <2>2, <2>3 DEF TypeOK, init
<1>3. Lines'
  <2>1. cmd'.code \notin DataCodes
    BY <1>1 DEF NoCmd, DataCodes
  <2> QED BY <1>1, <2>1 DEF IInv, Lines, NoCmd, NoXfer
<1>4. OwnFlags'
  <2>1. pc # "stored"
    BY <1>1 DEF IInv, Lines
  <2> QED BY <1>1, <2>1 DEF OwnFlags, NoCmd
<1>5. Settled'
  BY <1>1 DEF IInv, Settled
<1>6. OnlyInit'
  BY <1>1, <1>2 DEF IInv, OnlyInit, InInit, NoCmd, NoXfer
<1> QED BY <1>2, <1>3, <1>4, <1>5, <1>6, HardwareIs DEF IInv

LEMMA BufferReadyStep ==
  ASSUME IInv, Hardware, BufferReady
  PROVE  IInv'
<1>1. /\ TypeOK /\ xfer \in Transfer /\ xfer.phase = "begun" /\ xfer # NoXfer
      /\ xfer' = [xfer EXCEPT !.phase = "open"] /\ cause' \in BOOLEAN
      /\ UNCHANGED <<blocks, ccs, app, inhibit, cmd, resp, pc, call, code, nested, init, err, last,
                     clock>>
      /\ \/ xfer.kind = "WRITE_SINGLE" /\ ints' = ints \cup {"write_rdy"} /\ fifo' = fifo
         \/ /\ xfer.kind # "WRITE_SINGLE" /\ ints' = ints \cup {"read_rdy"}
            /\ fifo' = IF xfer.kind = "scr" THEN Torn ELSE blocks[xfer.block]
  BY HardwareIs DEF BufferReady, NoXfer, TypeOK, card
<1>2. xfer' \in Transfer /\ xfer'.kind = xfer.kind /\ xfer'.block = xfer.block /\ xfer'.phase = "open"
  BY <1>1 DEF Transfer
<1>3. TypeOK'
  <2>1. fifo' \in Values \cup {Torn}
    BY <1>1 DEF TypeOK, Transfer
  <2>2. ints' \subseteq {"cmd_done", "read_rdy", "write_rdy", "data_done", "error"}
    BY <1>1 DEF TypeOK
  <2> QED BY <1>1, <1>2, <2>1, <2>2 DEF TypeOK, init
<1>4. Lines'
  BY <1>1, <1>2 DEF IInv, Lines, NoCmd, NoXfer
<1>5. OwnFlags'
  <2>1. ASSUME pc \in {"answer", "ready"}, call.op # "init", "error" \notin ints'
        PROVE  cmd = NoCmd /\ "data_done" \notin ints' /\ OwnData'
    <3>1. /\ cmd = NoCmd /\ "data_done" \notin ints /\ xfer.kind = code
          /\ (inited => xfer.block = call.lba)
      BY <1>1, <2>1 DEF IInv, OwnFlags, OwnData
    <3>2. call.op = "read" => code = "READ_SINGLE"
      BY <2>1 DEF IInv, Waits, CodesOf
    <3> QED BY <1>1, <1>2, <3>1, <3>2 DEF OwnData, init
  <2>2. pc \in {"answer", "ready"} /\ call.op # "init" => cmd = NoCmd
    BY <1>1 DEF IInv, OwnFlags
  <2>3. pc # "stored"
    BY <1>1 DEF IInv, OwnFlags
  <2> QED BY <1>1, <2>1, <2>2, <2>3 DEF OwnFlags, NoCmd
<1>6. Settled'
  BY <1>1, <1>2 DEF IInv, Settled, NoCmd, init
<1>7. OnlyInit'
  BY <1>1, <1>2 DEF IInv, OnlyInit, InInit, NoCmd, NoXfer
<1> QED BY <1>3, <1>4, <1>5, <1>6, <1>7, HardwareIs DEF IInv

LEMMA DataDoneStep ==
  ASSUME IInv, Hardware, DataDone
  PROVE  IInv'
<1>1. /\ TypeOK /\ xfer \in Transfer /\ xfer.phase = "moved" /\ xfer # NoXfer /\ xfer' = NoXfer
      /\ blocks' = (IF xfer.kind = "WRITE_SINGLE" THEN [blocks EXCEPT ![xfer.block] = fifo] ELSE blocks)
      /\ ints' = ints \cup {"data_done"} /\ inhibit' = inhibit \ {"dat"} /\ cause' \in BOOLEAN
      /\ UNCHANGED <<ccs, app, cmd, fifo, resp, pc, call, code, nested, init, err, last, clock>>
  BY HardwareIs DEF DataDone, NoXfer, TypeOK
<1>2. TypeOK'
  <2>1. xfer' \in Transfer
    BY <1>1, SizesAssumption DEF NoXfer, Transfer, Blocks
  <2>2. blocks' \in [Blocks -> Values \cup {Torn}]
    BY <1>1 DEF TypeOK
  <2>3. ints' \subseteq {"cmd_done", "read_rdy", "write_rdy", "data_done", "error"}
          /\ inhibit' \subseteq {"cmd", "dat"}
    BY <1>1 DEF TypeOK
  <2> QED BY <1>1, <2>1, <2>2, <2>3 DEF TypeOK, init
<1>3. Lines'
  BY <1>1 DEF IInv, Lines, NoCmd, NoXfer
<1>4. OwnFlags'
  <2>1. pc \in {"answer", "ready"} /\ call.op # "init" => cmd = NoCmd /\ "error" \in ints'
    BY <1>1 DEF IInv, OwnFlags, OwnData
  <2>2. pc = "stored" /\ "error" \notin ints' /\ inited => blocks'[call.lba] = call.val
    <3>1. ASSUME pc = "stored", "error" \notin ints', inited
          PROVE  xfer.kind = "WRITE_SINGLE" /\ fifo = call.val /\ xfer.block = call.lba
      BY <1>1, <3>1 DEF IInv, OwnFlags
    <3>2. call.lba \in Blocks /\ blocks \in [Blocks -> Values \cup {Torn}]
      BY <1>1 DEF TypeOK
    <3> QED BY <1>1, <3>1, <3>2
  <2> QED BY <1>1, <2>1, <2>2 DEF OwnFlags, NoCmd, NoXfer, init
<1>5. Settled'
  BY <1>1 DEF IInv, Settled, NoCmd, NoXfer, init
<1>6. OnlyInit'
  BY <1>1, <1>2 DEF IInv, OnlyInit, InInit, NoCmd, NoXfer
<1> QED BY <1>2, <1>3, <1>4, <1>5, <1>6, HardwareIs DEF IInv

LEMMA DataFailsStep ==
  ASSUME IInv, Hardware, DataFails
  PROVE  IInv'
<1>1. /\ TypeOK /\ xfer # NoXfer /\ xfer' = NoXfer /\ ints' = ints \cup {"error"}
      /\ inhibit' \subseteq inhibit /\ ("cmd" \in inhibit' <=> "cmd" \in inhibit) /\ cause' \in BOOLEAN
      /\ \/ blocks' = blocks
         \/ xfer.kind = "WRITE_SINGLE" /\ blocks' = [blocks EXCEPT ![xfer.block] = Torn]
      /\ UNCHANGED <<ccs, app, cmd, fifo, resp, pc, call, code, nested, init, err, last, clock>>
  BY HardwareIs DEF DataFails
<1>2. TypeOK'
  <2>1. xfer' \in Transfer
    BY <1>1, SizesAssumption DEF NoXfer, Transfer, Blocks
  <2>2. blocks' \in [Blocks -> Values \cup {Torn}]
    BY <1>1 DEF TypeOK
  <2>3. ints' \subseteq {"cmd_done", "read_rdy", "write_rdy", "data_done", "error"}
          /\ inhibit' \subseteq {"cmd", "dat"}
    BY <1>1 DEF TypeOK
  <2> QED BY <1>1, <2>1, <2>2, <2>3 DEF TypeOK, init
<1>3. Lines'
  BY <1>1 DEF IInv, Lines, NoCmd, NoXfer
<1>4. OwnFlags'
  <2>1. pc \in {"answer", "ready"} /\ call.op # "init" => cmd = NoCmd
    BY <1>1 DEF IInv, OwnFlags
  <2> QED BY <1>1, <2>1 DEF OwnFlags, NoCmd
<1>5. Settled'
  BY <1>1 DEF IInv, Settled, NoCmd, NoXfer, init
<1>6. OnlyInit'
  BY <1>1, <1>2 DEF IInv, OnlyInit, InInit, NoCmd, NoXfer
<1> QED BY <1>2, <1>3, <1>4, <1>5, <1>6, HardwareIs DEF IInv

LEMMA InitIsOk == Init => IInv
<1> SUFFICES ASSUME Init PROVE IInv
  OBVIOUS
<1>1. TypeOK
  <2>1. blocks \in [Blocks -> Values \cup {Torn}]
    BY DEF Init
  <2>2. cmd \in [code : Codes \cup {"none"}, arg : 0 .. AddrSpace - 1]
    BY SizesAssumption DEF Init, NoCmd
  <2>3. xfer \in Transfer /\ resp \in [app : BOOLEAN, complete : BOOLEAN]
    BY SizesAssumption DEF Init, NoXfer, NoResp, Transfer, Blocks
  <2>4. /\ call \in [op : {"init", "read", "write"}, lba : Blocks, val : Values \cup {Torn}]
        /\ last \in Result
    BY SizesAssumption DEF Init, NoCall, NoLast, Result, Blocks
  <2>5. tries \in 0 .. MaxTries - 1 /\ clock \in 0 .. DataClock
    BY SizesAssumption, ClocksAre DEF Init
  <2>6. ints \subseteq {"cmd_done", "read_rdy", "write_rdy", "data_done", "error"}
          /\ inhibit \subseteq {"cmd", "dat"}
    BY DEF Init
  <2>7. ccs \in BOOLEAN
    BY DEF Init
  <2> QED BY <2>1, <2>2, <2>3, <2>4, <2>5, <2>6, <2>7 DEF Init, TypeOK, Result
<1>2. Waits /\ NoOldError
  BY DEF Init, Waits, NoOldError, NoCall
<1>3. Addressing
  BY DEF Init, Addressing, InInit, KnowsCcs
<1>4. Clocked
  BY ClocksAre DEF Init, Clocked
<1>5. Lines
  BY DEF Init, Lines, NoCmd, DataCodes
<1>6. OwnFlags /\ Settled /\ ModeAgrees /\ Caused /\ FailsForCause
  BY DEF Init, OwnFlags, Settled, ModeAgrees, Caused, FailsForCause
<1>7. OnlyInit
  BY DEF Init, OnlyInit, NoCmd, NoXfer
<1> QED BY <1>1, <1>2, <1>3, <1>4, <1>5, <1>6, <1>7 DEF IInv

LEMMA NextKeepsInv == IInv /\ [Next]_vars => IInv'
<1> SUFFICES ASSUME IInv, [Next]_vars PROVE IInv'
  OBVIOUS
<1>1. CASE Reset
  BY <1>1, ResetStep
<1>2. CASE SetClock
  BY <1>2, SetClockStep
<1>3. CASE SendCommand
  BY <1>3, SendCommandStep
<1>4. CASE CommandBlocked
  BY <1>4, CommandBlockedStep
<1>5. CASE Answered
  BY <1>5, AnsweredStep
<1>6. CASE NotAnswered
  BY <1>6, NotAnsweredStep
<1>7. CASE LineFree
  BY <1>7, LineFreeStep
<1>8. CASE LineBusy
  BY <1>8, LineBusyStep
<1>9. CASE MoveData
  BY <1>9, MoveDataStep
<1>10. CASE NoBuffer
  BY <1>10, NoBufferStep
<1>11. CASE Stored
  BY <1>11, StoredStep
<1>12. CASE NotStored
  BY <1>12, NotStoredStep
<1>13. CASE ReadScr
  BY <1>13, ReadScrStep
<1>14. ASSUME NEW b \in Blocks, Read(b) PROVE IInv'
  BY <1>14, ReadStep
<1>15. ASSUME NEW b \in Blocks, NEW v \in Values, Write(b, v) PROVE IInv'
  BY <1>15, WriteStep
<1>16. CASE Hardware
  <2>1. CASE CardAnswers
    BY <1>16, <2>1, CardAnswersStep
  <2>2. CASE CardFails
    BY <1>16, <2>2, CardFailsStep
  <2>3. CASE BufferReady
    BY <1>16, <2>3, BufferReadyStep
  <2>4. CASE DataDone
    BY <1>16, <2>4, DataDoneStep
  <2>5. CASE DataFails
    BY <1>16, <2>5, DataFailsStep
  <2> QED BY <1>16, <2>1, <2>2, <2>3, <2>4, <2>5 DEF Hardware
<1>17. CASE PollScr \/ UNCHANGED vars
  <2>1. UNCHANGED vars
    BY <1>17 DEF PollScr
  <2> QED BY <2>1 DEF IInv, TypeOK, Waits, NoOldError, Addressing, Clocked, Lines, OwnFlags, OwnData, Settled,
         OnlyInit, ModeAgrees, Caused, FailsForCause, InInit, Address, vars, card, regs, init
<1> QED BY <1>1, <1>2, <1>3, <1>4, <1>5, <1>6, <1>7, <1>8, <1>9, <1>10, <1>11, <1>12, <1>13, <1>14, <1>15,
      <1>16, <1>17 DEF Next, Driver

----------------------------------------------------------------------------
(***************************************************************************)
(* The theorems.                                                            *)
(***************************************************************************)
\* The inductive invariant of bzt-sd.c: whatever the controller and the card do and
\* whatever waits give up, each wait of sd_cmd, sd_readblock and sd_writeblock
\* belongs to a command of the call that is made, a flag that is seen without an
\* error was raised for that call, and the data on their way are its own.
THEOREM Invariance == Spec => []IInv
<1> QED BY InitIsOk, NextKeepsInv, PTL DEF Spec

\* The registers and variables of bzt-sd.c have their types; ACMD41 is sent at
\* most MaxTries times, and the argument of a command has 32 bits.
THEOREM TypeCorrect == Spec => []TypeOK
<1>1. IInv => TypeOK
  BY DEF IInv
<1> QED BY <1>1, Invariance, PTL

\* A block that sd_readblock reports is the one the card holds, and one that
\* sd_writeblock reports is there, whatever calls were given up before.
THEOREM SuccessIsTrueHolds == Spec => []SuccessIsTrue
<1>1. IInv => SuccessIsTrue
  BY DEF IInv, Settled, SuccessIsTrue, Succeeded
<1> QED BY <1>1, Invariance, PTL

\* After sd_init has returned SD_OK, sd_scr[0] has the addressing of this card.
THEOREM ModeAgreesHolds == Spec => []ModeAgrees
<1>1. IInv => ModeAgrees
  BY DEF IInv
<1> QED BY <1>1, Invariance, PTL

\* sd_clk never clocks a card without an address faster than SetupClock, nor any
\* card faster than DataClock, by the divisors of each version of the host.
THEOREM ClockFitsHolds == Spec => []ClockFits
<1>1. IInv => ClockFits
  BY DEF IInv, Clocked, ClockFits
<1> QED BY <1>1, Invariance, PTL

\* A call of sd_readblock or sd_writeblock fails only for an error flag or a timeout
\* of its own, never for sd_err as an earlier call left it.
THEOREM FailsForCauseHolds == Spec => []FailsForCause
<1>1. IInv => FailsForCause
  BY DEF IInv
<1> QED BY <1>1, Invariance, PTL

----------------------------------------------------------------------------
(***************************************************************************)
(* The driver implements a device of blocks.                                *)
(***************************************************************************)
\* The end of a command, whichever way it ends.
EndOfCommand == CommandBlocked \/ Answered \/ NotAnswered

LEMMA EndOfCommandIs ==
  ASSUME IInv, EndOfCommand
  PROVE  /\ \E answered \in BOOLEAN : Outcome(answered)
         /\ UNCHANGED <<card, cmd, xfer, fifo, call>> /\ pc \in {"inhibit", "answer"}
<1>1. CASE CommandBlocked
  <2>1. Outcome(FALSE)
    BY <1>1, EndsEffect DEF IInv, CommandBlocked
  <2> QED BY <1>1, <2>1 DEF CommandBlocked, regs
<1>2. CASE Answered
  <2>1. Outcome(TRUE)
    BY <1>2, EndsEffect DEF IInv, Answered
  <2> QED BY <1>2, <2>1 DEF Answered
<1>3. CASE NotAnswered
  <2>1. Outcome(FALSE)
    BY <1>3, EndsEffect DEF IInv, NotAnswered
  <2> QED BY <1>3, <2>1 DEF NotAnswered
<1> QED BY <1>1, <1>2, <1>3 DEF EndOfCommand

\* A step of the driver proper: it changes no block, and a call that it ends is
\* the one that was made.
DriverEffect ==
    /\ pc # "idle" /\ blocks' = blocks /\ call' = call /\ xfer'.kind = xfer.kind
    /\ \/ pc' # "idle" /\ last' = last /\ inited' = inited
       \/ pc' = "idle" /\ last'.op = call.op /\ (call.op # "init" => inited' = inited)

LEMMA ReturnEffect ==
  ASSUME TypeOK, NEW val, Return(TRUE, val), pc # "idle", xfer'.kind = xfer.kind, UNCHANGED <<card, call>>
  PROVE  DriverEffect
<1>1. /\ pc' = "idle" /\ inited' = IF call.op = "init" THEN TRUE ELSE inited
      /\ last' = [op |-> call.op, lba |-> call.lba, val |-> val, ok |-> TRUE]
  BY ReturnIs
<1> QED BY <1>1 DEF DriverEffect, card

LEMMA DriverIs ==
  ASSUME IInv, Driver
  PROVE  DriverEffect
<1>1. TypeOK /\ xfer \in Transfer
  BY DEF IInv, TypeOK
<1>2. xfer' = [xfer EXCEPT !.phase = "moved"] => xfer'.kind = xfer.kind
  BY <1>1 DEF Transfer
<1>3. CASE Reset
  BY <1>1, <1>3, FailIs DEF DriverEffect, Reset, Stay, card
<1>4. CASE SetClock
  <2>1. pc = "clock" /\ UNCHANGED <<card, regs, call>>
    BY <1>4 DEF SetClock
  <2>2. CASE Fail
    BY <1>1, <2>1, <2>2, FailIs DEF DriverEffect, card, regs
  <2>3. CASE ~ Fail
    <3>1. pc' = "inhibit" /\ UNCHANGED <<last, inited>>
      BY <1>4, <2>3 DEF SetClock, Send, Stay
    <3> QED BY <2>1, <3>1 DEF DriverEffect, card, regs
  <2> QED BY <2>2, <2>3
<1>5. CASE SendCommand
  BY <1>5 DEF DriverEffect, SendCommand, card, init
<1>6. CASE EndOfCommand
  <2>1. PICK answered \in BOOLEAN : Outcome(answered)
    BY <1>6, EndOfCommandIs
  <2>2. UNCHANGED <<card, xfer, call>> /\ pc # "idle"
    BY <1>6, EndOfCommandIs
  <2>3. CASE GivenUp(answered) \/ InitOver
    BY <2>2, <2>3 DEF DriverEffect, GivenUp, InitOver, card
  <2>4. CASE GoesOn \/ WaitsOn(answered)
    BY <2>2, <2>4 DEF DriverEffect, GoesOn, WaitsOn, card
  <2> QED BY <2>1, <2>3, <2>4 DEF Outcome
<1>7. CASE LineFree
  BY <1>7 DEF DriverEffect, LineFree, Send, card, regs, init
<1>8. CASE LineBusy \/ NoBuffer \/ NotStored
  <2>1. Fail /\ pc # "idle" /\ UNCHANGED <<card, xfer, call>>
    BY <1>8 DEF LineBusy, NoBuffer, NotStored, regs
  <2> QED BY <1>1, <2>1, FailIs DEF DriverEffect, card
<1>9. CASE MoveData
  <2>1. pc = "ready" /\ UNCHANGED <<card, call>> /\ call.op \in {"init", "read", "write"}
    BY <1>1, <1>9 DEF MoveData, TypeOK
  <2>2. CASE call.op = "init"
    BY <1>9, <2>1, <2>2 DEF DriverEffect, MoveData, Stay, card
  <2>3. CASE call.op = "read"
    <3>1. Return(TRUE, fifo) /\ xfer'.kind = xfer.kind
      BY <1>2, <1>9, <2>3 DEF MoveData
    <3> QED BY <1>1, <2>1, <2>3, <3>1, ReturnEffect
  <2>4. CASE call.op = "write"
    BY <1>2, <1>9, <2>1, <2>4 DEF DriverEffect, MoveData, Stay, card
  <2> QED BY <2>1, <2>2, <2>3, <2>4
<1>10. CASE Stored
  <2>1. Return(TRUE, call.val) /\ pc = "stored" /\ UNCHANGED <<card, xfer, call>>
    BY <1>10 DEF Stored
  <2>2. call.op = "write"
    BY <2>1 DEF IInv, Waits
  <2> QED BY <1>1, <2>1, <2>2, ReturnEffect
<1>11. CASE ReadScr
  <2>1. pc = "scr" /\ xfer'.kind = xfer.kind /\ UNCHANGED <<card, call>>
    BY <1>2, <1>11 DEF ReadScr
  <2>2. call.op = "init"
    BY <2>1 DEF IInv, Waits
  <2>3. CASE Return(TRUE, Torn)
    BY <1>1, <2>1, <2>2, <2>3, ReturnEffect
  <2>4. CASE ~ Return(TRUE, Torn)
    BY <1>11, <2>1, <2>4 DEF DriverEffect, ReadScr, Send, Stay, card
  <2> QED BY <2>3, <2>4
<1>12. CASE PollScr
  BY <1>12 DEF DriverEffect, PollScr, vars, card, regs, init
<1> QED BY <1>3, <1>4, <1>5, <1>6, <1>7, <1>8, <1>9, <1>10, <1>11, <1>12 DEF Driver, EndOfCommand

\* A step of the driver while it is being set up leaves the device as it is, or
\* sets it up.
LEMMA InitStepRefines ==
  ASSUME IInv, IInv', Next, InInit
  PROVE  Device!SetUp \/ UNCHANGED Device!vars
<1>1. /\ ~ inited /\ last = NoLast /\ call.op = "init" /\ pc # "idle"
      /\ xfer.kind \in {"none", "scr"} /\ cmd.code \notin {"READ_SINGLE", "WRITE_SINGLE"}
  BY DEF IInv, Addressing, OnlyInit, InInit
<1>2. Late = {}
  BY <1>1 DEF Late
<1>3. CASE Driver
  <2>1. Late' = {}
    BY <1>1, <1>3, DriverIs DEF DriverEffect, Late
  <2>2. CASE pc' # "idle"
    BY <1>1, <1>2, <1>3, <2>1, <2>2, DriverIs DEF DriverEffect, Device!vars
  <2>3. CASE pc' = "idle"
    BY <1>1, <1>2, <1>3, <2>1, <2>3, DriverIs DEF DriverEffect, Device!SetUp
  <2> QED BY <2>2, <2>3
<1>4. CASE Hardware
  <2>1. UNCHANGED <<pc, call, init, last>>
    BY <1>4, HardwareIs
  <2>2. blocks' = blocks
    BY <1>1, <1>4 DEF Hardware, CardAnswers, CardFails, BufferReady, DataDone, DataFails, card
  <2>3. xfer'.kind # "WRITE_SINGLE"
    BY <1>1, <2>1 DEF IInv, OnlyInit, InInit
  <2>4. Late' = {}
    BY <2>3 DEF Late
  <2> QED BY <1>1, <1>2, <2>1, <2>2, <2>4 DEF Device!vars, init
<1> QED BY <1>1, <1>3, <1>4 DEF Next, Read, Write

\* The device as it is after a step has its types.
LEMMA DeviceTypes ==
  ASSUME TypeOK'
  PROVE  /\ Late' \subseteq Device!Calls
         /\ (IF pc = "idle" \/ call.op = "init" THEN NoLast ELSE call)' \in Device!Calls \cup {NoLast}
         /\ (IF pc = "idle" /\ last.op # "init" THEN last ELSE NoLast)' \in Device!Answers \cup {NoLast}
<1>1. Late' \subseteq Device!Calls
  BY DEF Late, TypeOK, Transfer, Device!Calls, Device!Contents
<1>2. call'.op # "init" => call' \in Device!Calls
  BY DEF TypeOK, Device!Calls, Device!Contents
<1>3. ASSUME last'.op # "init" PROVE last' \in Device!Answers
  <2>1. last' \in [op : {"init", "read", "write"}, lba : Blocks, val : Values \cup {Torn}, ok : BOOLEAN]
    BY DEF TypeOK
  <2>2. PICK c : c = [op |-> last'.op, lba |-> last'.lba, val |-> last'.val]
    OBVIOUS
  <2>3. c \in Device!Calls
    BY <1>3, <2>1, <2>2 DEF Device!Calls, Device!Contents
  <2>4. last' = Device!Answer(c, last'.val, last'.ok)
    BY <2>1, <2>2 DEF Device!Answer
  <2>5. last'.val \in Device!Contents /\ last'.ok \in BOOLEAN
    BY <2>1 DEF Device!Contents
  <2> QED BY <2>3, <2>4, <2>5 DEF Device!Answers
<1> QED BY <1>1, <1>2, <1>3 DEF NoLast

\* After sd_init has failed nothing is promised.
LEMMA DownStepRefines ==
  ASSUME IInv, IInv', Next, ~ inited, pc = "idle" \/ call.op # "init"
  PROVE  Device!Chaos
<1>1. /\ TypeOK' /\ blocks' \in [Blocks -> Device!Contents]
  BY DEF IInv, TypeOK, Device!Contents
<1>2. /\ Late' \subseteq Device!Calls
      /\ (IF pc = "idle" \/ call.op = "init" THEN NoLast ELSE call)' \in Device!Calls \cup {NoLast}
      /\ (IF pc = "idle" /\ last.op # "init" THEN last ELSE NoLast)' \in Device!Answers \cup {NoLast}
  BY <1>1, DeviceTypes
<1>3. inited' = inited /\ (pc' = "idle" \/ call'.op # "init")
  <2>1. CASE Driver
    BY <2>1, DriverIs DEF DriverEffect
  <2>2. CASE Hardware
    BY <2>2, HardwareIs DEF init
  <2> QED BY <2>1, <2>2 DEF Next, Read, Write, init
<1> QED BY <1>1, <1>2, <1>3 DEF Device!Chaos

\* A call that fails leaves its write, if it is in the buffer, to be late.
LEMMA FailRefines ==
  ASSUME IInv, inited, Fail, pc \in {"inhibit", "answer", "status", "ready", "stored"},
         UNCHANGED <<card, cmd, xfer, fifo, call>>
  PROVE  Device!Fail
<1>1. /\ call.op \in {"read", "write"} /\ TypeOK
      /\ pc' = "idle" /\ inited' = inited
      /\ last' = [op |-> call.op, lba |-> call.lba, val |-> Torn, ok |-> FALSE]
  BY FailIs DEF IInv, TypeOK, Addressing, InInit
<1>2. last' = Device!Answer(call, Torn, FALSE)
  BY <1>1 DEF Device!Answer
<1>3. Late' = Late \/ (call.op = "write" /\ Late' = Late \cup {call})
  <2>1. CASE pc # "stored"
    BY <1>1, <2>1 DEF Late
  <2>2. CASE pc = "stored"
    <3>1. Late = {} /\ call.op = "write"
      BY <2>2 DEF Late, IInv, Waits
    <3>2. CASE xfer = NoXfer
      BY <3>1, <3>2 DEF Late, NoXfer
    <3>3. CASE xfer # NoXfer
      <4>1. /\ xfer.kind = "WRITE_SINGLE" /\ xfer.phase = "moved"
            /\ fifo = call.val /\ xfer.block = call.lba
        BY <2>2, <3>3 DEF IInv, OwnFlags
      <4>2. call = [op |-> "write", lba |-> xfer.block, val |-> fifo]
        BY <1>1, <3>1, <4>1 DEF TypeOK
      <4>3. Late' = {call}
        BY <1>1, <4>1, <4>2 DEF Late
      <4> QED BY <3>1, <4>3
    <3> QED BY <3>2, <3>3
  <2> QED BY <2>1, <2>2
<1>4. call # NoLast
  BY <1>1 DEF NoLast
<1>5. (IF pc = "idle" \/ call.op = "init" THEN NoLast ELSE call) = call
  BY <1>1
<1>6. /\ (IF pc = "idle" \/ call.op = "init" THEN NoLast ELSE call)' = NoLast
      /\ (IF pc = "idle" /\ last.op # "init" THEN last ELSE NoLast)' = last'
  BY <1>1
<1> QED BY <1>1, <1>2, <1>3, <1>4, <1>5, <1>6 DEF Device!Fail, card

\* A call that succeeds finds nothing late.
LEMMA SuccessRefines ==
  ASSUME IInv, inited, Return(TRUE, blocks[call.lba]), pc \in {"ready", "stored"},
         call.op = "write" => blocks[call.lba] = call.val,
         Late = {}, Late' = {}, UNCHANGED <<card, call>>
  PROVE  Device!Succeed
<1>1. /\ call.op \in {"read", "write"} /\ TypeOK
      /\ pc' = "idle" /\ inited' = inited
      /\ last' = [op |-> call.op, lba |-> call.lba, val |-> blocks[call.lba], ok |-> TRUE]
  BY ReturnIs DEF IInv, TypeOK, Addressing, InInit
<1>2. last' = Device!Answer(call, blocks[call.lba], TRUE)
  BY <1>1 DEF Device!Answer
<1>3. call # NoLast
  BY <1>1 DEF NoLast
<1>4. (IF pc = "idle" \/ call.op = "init" THEN NoLast ELSE call) = call
  BY <1>1
<1>5. /\ (IF pc = "idle" \/ call.op = "init" THEN NoLast ELSE call)' = NoLast
      /\ (IF pc = "idle" /\ last.op # "init" THEN last ELSE NoLast)' = last'
  BY <1>1
<1> QED BY <1>1, <1>2, <1>3, <1>4, <1>5 DEF Device!Succeed, card

\* The driver of a card that is set up.
LEMMA UpDriverRefines ==
  ASSUME IInv, inited, Driver
  PROVE  Device!Succeed \/ Device!Fail \/ UNCHANGED Device!vars
<1>1. TypeOK /\ DriverEffect /\ pc # "idle" /\ call.op \in {"read", "write"}
  BY DriverIs DEF IInv, TypeOK, DriverEffect, Addressing, InInit
<1>2. ASSUME pc' # "idle", Late' = Late PROVE UNCHANGED Device!vars
  BY <1>1, <1>2 DEF DriverEffect, Device!vars
<1>3. CASE Reset \/ SetClock \/ ReadScr \/ PollScr
  BY <1>1, <1>3 DEF Reset, SetClock, ReadScr, PollScr, IInv, Waits
<1>4. CASE SendCommand
  <2>1. pc = "inhibit" /\ pc' = "answer" /\ UNCHANGED <<xfer, fifo>>
    BY <1>4 DEF SendCommand
  <2> QED BY <1>2, <2>1 DEF Late
<1>5. CASE EndOfCommand
  <2>1. PICK answered \in BOOLEAN : Outcome(answered)
    BY <1>5, EndOfCommandIs
  <2>2. UNCHANGED <<card, cmd, xfer, fifo, call>> /\ pc \in {"inhibit", "answer"}
    BY <1>5, EndOfCommandIs
  <2>3. CASE GivenUp(answered)
    <3>1. Fail
      BY <1>1, <2>3 DEF GivenUp, Fail, Return
    <3> QED BY <2>2, <3>1, FailRefines
  <2>4. CASE WaitsOn(answered)
    <3>1. pc' \notin {"idle", "stored"}
      BY <2>4 DEF WaitsOn
    <3> QED BY <1>2, <2>2, <3>1 DEF Late
  <2> QED BY <1>1, <2>1, <2>3, <2>4 DEF Outcome, InitOver, GoesOn
<1>6. CASE LineFree
  <2>1. pc = "status" /\ pc' = "inhibit" /\ UNCHANGED <<xfer, fifo>>
    BY <1>6 DEF LineFree, Send, regs
  <2> QED BY <1>2, <2>1 DEF Late
<1>7. CASE LineBusy \/ NoBuffer \/ NotStored
  <2>1. Fail /\ pc \in {"status", "ready", "stored"} /\ UNCHANGED <<card, cmd, xfer, fifo, call>>
    BY <1>7 DEF LineBusy, NoBuffer, NotStored, regs
  <2> QED BY <2>1, FailRefines
<1>8. CASE MoveData
  <2>1. /\ pc = "ready" /\ Rdy \in ints /\ "error" \notin ints /\ cmd = NoCmd
        /\ xfer' = [xfer EXCEPT !.phase = "moved"] /\ UNCHANGED <<card, call>> /\ xfer \in Transfer
    BY <1>1, <1>8 DEF MoveData, IntOk, IInv, Lines, TypeOK
  <2>2. /\ xfer.kind = code /\ xfer.phase = "open" /\ xfer.block = call.lba
        /\ (call.op = "read" => fifo = blocks[xfer.block])
    BY <1>1, <2>1 DEF IInv, OwnFlags, OwnData, Rdy
  <2>3. Late = {}
    BY <2>2 DEF Late
  <2>4. CASE call.op = "read"
    <3>1. Return(TRUE, fifo)
      BY <1>8, <2>4 DEF MoveData
    <3>2. code = "READ_SINGLE"
      BY <2>1, <2>4 DEF IInv, Waits, CodesOf
    <3>3. Late' = {}
      BY <2>1, <2>2, <3>2 DEF Late, Transfer
    <3> QED BY <2>1, <2>2, <2>3, <2>4, <3>1, <3>3, SuccessRefines
  <2>5. CASE call.op = "write"
    <3>1. pc' = "stored"
      BY <1>8, <2>5 DEF MoveData
    <3>2. Late' = {}
      BY <3>1 DEF Late
    <3> QED BY <1>2, <2>3, <3>1, <3>2
  <2> QED BY <1>1, <2>4, <2>5
<1>9. CASE Stored
  <2>1. /\ pc = "stored" /\ "error" \notin ints /\ "data_done" \in ints /\ Return(TRUE, call.val)
        /\ UNCHANGED <<card, xfer, call>>
    BY <1>9 DEF Stored, IntOk
  <2>2. call.op = "write" /\ xfer = NoXfer /\ blocks[call.lba] = call.val
    BY <2>1 DEF IInv, Waits, OwnFlags
  <2>3. Late = {} /\ Late' = {}
    BY <2>1, <2>2 DEF Late, NoXfer
  <2> QED BY <2>1, <2>2, <2>3, SuccessRefines
<1> QED BY <1>3, <1>4, <1>5, <1>6, <1>7, <1>8, <1>9 DEF Driver, EndOfCommand

\* The card while it is set up: it stores, damages or drops the write that is in
\* the buffer, whether its call is still made or was given up.
LEMMA UpHardwareRefines ==
  ASSUME IInv, inited, Hardware
  PROVE  (\E w \in Device!Calls : Device!Store(w) \/ Device!Drop(w)) \/ UNCHANGED Device!vars
<1>1. /\ TypeOK /\ UNCHANGED <<pc, call, init, last>> /\ xfer \in Transfer
      /\ fifo \in Values \cup {Torn}
  BY HardwareIs DEF TypeOK
<1>2. inited'
  BY <1>1 DEF init
<1>3. ASSUME blocks' = blocks, Late' = Late PROVE UNCHANGED Device!vars
  BY <1>1, <1>2, <1>3 DEF Device!vars, init
<1>4. CASE CardAnswers
  <2>1. xfer' = xfer \/ (cmd.code \in DataCodes /\ xfer'.phase = "begun")
    BY <1>4 DEF CardAnswers, DataCodes
  <2>2. cmd.code \in DataCodes => Late = {}
    BY DEF IInv, Lines, Late, NoXfer
  <2>3. Late' = Late
    BY <1>1, <1>4, <2>1, <2>2 DEF Late, CardAnswers
  <2> QED BY <1>3, <1>4, <2>3 DEF CardAnswers
<1>5. CASE CardFails
  <2>1. Late' = Late
    BY <1>1, <1>5 DEF Late, CardFails
  <2> QED BY <1>3, <1>5, <2>1 DEF CardFails
<1>6. CASE BufferReady
  <2>1. Late = {} /\ Late' = {}
    BY <1>1, <1>6 DEF Late, BufferReady, Transfer
  <2> QED BY <1>3, <1>6, <2>1 DEF BufferReady, card
<1>7. CASE DataDone \/ DataFails
  <2>1. xfer # NoXfer /\ Late' = {}
    BY <1>7 DEF DataDone, DataFails, Late, NoXfer
  <2>2. CASE ~ (xfer.kind = "WRITE_SINGLE" /\ xfer.phase = "moved")
    <3>1. blocks' = blocks
      BY <1>7, <2>2 DEF DataDone, DataFails
    <3>2. Late = {}
      BY <2>2 DEF Late
    <3> QED BY <1>3, <2>1, <3>1, <3>2
  <2>3. CASE xfer.kind = "WRITE_SINGLE" /\ xfer.phase = "moved"
    <3>1. PICK w : w = [op |-> "write", lba |-> xfer.block, val |-> fifo]
      OBVIOUS
    <3>2. w \in Device!Calls /\ w.op = "write" /\ w.lba = xfer.block /\ w.val = fifo
      BY <1>1, <3>1 DEF Device!Calls, Device!Contents, Transfer
    <3>3. blocks' \in {[blocks EXCEPT ![w.lba] = v] : v \in {w.val, Torn}} \/ (DataFails /\ blocks' = blocks)
      BY <1>7, <2>3, <3>2 DEF DataDone, DataFails
    <3>4. CASE pc # "stored"
      <4>1. Late = {w}
        BY <2>3, <3>1, <3>4 DEF Late
      <4>2. Device!Store(w) \/ Device!Drop(w)
        BY <1>1, <1>2, <2>1, <3>3, <4>1 DEF Device!Store, Device!Drop, init
      <4> QED BY <3>2, <4>2
    <3>5. CASE pc = "stored"
      <4>1. Late = {}
        BY <3>5 DEF Late
      <4>2. call.op = "write" /\ fifo = call.val /\ xfer.block = call.lba
        BY <2>1, <3>5 DEF IInv, Waits, OwnFlags
      <4>3. w = call
        BY <1>1, <3>1, <4>2 DEF TypeOK
      <4>4. CASE blocks' = blocks
        BY <1>3, <2>1, <4>1, <4>4
      <4>5. CASE blocks' # blocks
        <5>1. (IF pc = "idle" \/ call.op = "init" THEN NoLast ELSE call) = w
          BY <3>5, <4>2, <4>3
        <5>2. Device!Store(w)
          BY <1>1, <1>2, <2>1, <3>2, <3>3, <4>1, <4>5, <5>1 DEF Device!Store, init
        <5> QED BY <3>2, <5>2
      <4> QED BY <4>4, <4>5
    <3> QED BY <3>4, <3>5
  <2> QED BY <2>2, <2>3
<1> QED BY <1>4, <1>5, <1>6, <1>7 DEF Hardware

\* A call that begins is asked for of the device.
LEMMA AskRefines ==
  ASSUME IInv, inited, NEW b \in Blocks, NEW v \in Values, Read(b) \/ Write(b, v)
  PROVE  \E c \in Device!Calls : Device!Ask(c)
<1>1. /\ pc = "idle" /\ pc' = "status" /\ UNCHANGED <<card, regs, init>>
      /\ call' \in Device!Calls /\ call'.op # "init"
  BY DEF Read, Write, Device!Calls, Device!Contents
<1>2. Late' = Late
  BY <1>1 DEF Late, regs
<1>3. Device!Ask(call')
  BY <1>1, <1>2 DEF Device!Ask, card, init
<1> QED BY <1>1, <1>3

\* Through any timeouts and faults, bzt-sd.c with the controller and the card is a
\* device of blocks: each call that succeeds did what it says, and a write that
\* failed is all that may still reach the card, not past a call that succeeds.
THEOREM IsBlockDevice == Spec => ImplementsBlockDevice
<1>1. Init => Device!Init
  <2> SUFFICES ASSUME Init PROVE Device!Init
    OBVIOUS
  <2>1. Late = {}
    BY DEF Init, Late, NoXfer
  <2> QED BY <2>1 DEF Init, Device!Init, NoCall, NoLast
<1>2. IInv /\ IInv' /\ [Next]_vars => [Device!Next]_(Device!vars)
  <2> SUFFICES ASSUME IInv, IInv', [Next]_vars
               PROVE  Device!Next \/ UNCHANGED Device!vars
    OBVIOUS
  <2>1. CASE UNCHANGED vars
    BY <2>1 DEF vars, card, regs, init, Device!vars, Late
  <2>2. CASE Next /\ InInit
    BY <2>2, InitStepRefines DEF Device!Next
  <2>3. CASE Next /\ ~ inited /\ ~ InInit
    BY <2>3, DownStepRefines DEF Device!Next, InInit
  <2>4. CASE Next /\ inited
    <3>1. CASE Driver
      BY <2>4, <3>1, UpDriverRefines DEF Device!Next
    <3>2. ASSUME NEW b \in Blocks, NEW v \in Values, Read(b) \/ Write(b, v)
          PROVE  Device!Next
      BY <2>4, <3>2, AskRefines DEF Device!Next
    <3>3. CASE Hardware
      BY <2>4, <3>3, UpHardwareRefines DEF Device!Next
    <3>4. Values # {}
      BY ValuesAssumption
    <3> QED BY <2>4, <3>1, <3>2, <3>3, <3>4 DEF Next
  <2> QED BY <2>1, <2>2, <2>3, <2>4
<1> QED BY <1>1, <1>2, Invariance, PTL DEF Spec, ImplementsBlockDevice, Device!Spec
=============================================================================
