---------------------------- MODULE BlockDevice -----------------------------
(***************************************************************************)
(* What a caller may rely on of a device of blocks that can fail, such as   *)
(* sd_readblock and sd_writeblock: one call at a time; a call that succeeds *)
(* did what it says; a write that failed may still be stored, or damage its *)
(* block, for as long as no later call has succeeded.                       *)
(***************************************************************************)
CONSTANTS
    Blocks, Values,
    Torn,   \* what is left of a block whose write broke off
    Nothing \* no call, or no answer

VARIABLES
    mode,   \* "init", "up", or "down" when the device could not be set up
    disk,
    call,   \* the call in progress
    late,   \* writes that failed and may still be stored
    answer  \* of the last call

vars == <<mode, disk, call, late, answer>>

Contents == Values \cup {Torn}
Calls    == [op : {"read", "write"}, lba : Blocks, val : Contents]
Answer(c, val, ok) == [op |-> c.op, lba |-> c.lba, val |-> val, ok |-> ok]
Answers  == {Answer(c, v, ok) : c \in Calls, v \in Contents, ok \in BOOLEAN}

Init ==
    /\ mode = "init"
    /\ disk \in [Blocks -> Values]
    /\ call = Nothing
    /\ late = {}
    /\ answer = Nothing

SetUp ==
    /\ mode = "init"
    /\ mode' \in {"up", "down"}
    /\ UNCHANGED <<disk, call, late, answer>>

Ask(c) ==
    /\ mode = "up"
    /\ call = Nothing
    /\ call' = c
    /\ answer' = Nothing
    /\ UNCHANGED <<mode, disk, late>>

\* With no write of an earlier call outstanding.
Succeed ==
    /\ mode = "up"
    /\ call # Nothing
    /\ late = {}
    /\ call.op = "write" => disk[call.lba] = call.val
    /\ answer' = Answer(call, disk[call.lba], TRUE)
    /\ call' = Nothing
    /\ UNCHANGED <<mode, disk, late>>

Fail ==
    /\ mode = "up"
    /\ call # Nothing
    /\ late' \in {late} \cup (IF call.op = "write" THEN {late \cup {call}} ELSE {})
    /\ answer' = Answer(call, Torn, FALSE)
    /\ call' = Nothing
    /\ UNCHANGED <<mode, disk>>

\* The write in progress, or one that failed, is stored, or damages its block.
Store(w) ==
    /\ mode = "up"
    /\ w \in late \/ (w = call /\ w.op = "write")
    /\ disk' \in {[disk EXCEPT ![w.lba] = v] : v \in {w.val, Torn}}
    /\ late' = late \ {w}
    /\ UNCHANGED <<mode, call, answer>>

\* One that failed comes to nothing.
Drop(w) ==
    /\ mode = "up"
    /\ late' = late \ {w}
    /\ UNCHANGED <<mode, disk, call, answer>>

\* Nothing is promised of a device that could not be set up.
Chaos ==
    /\ mode = "down"
    /\ mode' = mode
    /\ disk' \in [Blocks -> Contents]
    /\ call' \in Calls \cup {Nothing}
    /\ late' \in SUBSET Calls
    /\ answer' \in Answers \cup {Nothing}

Next ==
    \/ SetUp
    \/ \E c \in Calls : Ask(c) \/ Store(c) \/ Drop(c)
    \/ Succeed
    \/ Fail
    \/ Chaos

Spec == Init /\ [][Next]_vars
=============================================================================
