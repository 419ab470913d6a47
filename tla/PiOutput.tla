------------------------------ MODULE PiOutput ------------------------------
(***************************************************************************)
(* get_pi_output of get-pi-output.c: when every pi is booted, deploy copies *)
(* what they print to its own output until each has said DONE, is gone, or  *)
(* the rounds or the time are used up.                                      *)
(***************************************************************************)
EXTENDS Integers, Sequences, FiniteSets

CONSTANTS
    NumPies,    \* length of the array of booted pies
    ExitString, \* "DONE!!!\n" in pi_done_scan, as a sequence of characters
    Chatter,    \* what a pi prints without end: a character not of the exit string
    Scripts,    \* what a pi may print, as sequences of characters other than 0
    Rounds      \* turns of the outer loop: 10

Pies == 0 .. NumPies - 1

ASSUME PiesAssumption == NumPies \in Nat
\* The scan is right for a string whose first character does not come again.
ASSUME ExitAssumption ==
    /\ ExitString \in Seq(STRING) /\ ExitString # << >>
    /\ \A i \in 2 .. Len(ExitString) : ExitString[i] # ExitString[1]
ASSUME ChatterAssumption ==
    Chatter \in STRING /\ \A i \in 1 .. Len(ExitString) : ExitString[i] # Chatter
\* A script that ends in Chatter goes on with it for ever.
ASSUME ScriptAssumption ==
    /\ Scripts \subseteq Seq(STRING)
    /\ \A s \in Scripts : \A i \in 1 .. Len(s) - 1 : s[i] # Chatter
ASSUME RoundsAssumption == Rounds \in Nat

VARIABLES
    pc,     \* where get_pi_output is
    round,  \* i of the outer loop
    open,   \* the pies whose descriptor is open
    sel,    \* selected_pi; prev_fd is the descriptor of the last one
    idx,    \* static idx of pi_done_scan, one for all pies
    coming, \* what each pi has not printed yet
    tty,    \* what each pi has printed and deploy has not read
    gone,   \* pies that were unplugged
    shown,  \* history: what was written to stdout of each pi
    done,   \* history: the pies whose DONE was received
    lent,   \* history: the pies that began with matches of another one
    late    \* history: whether some wait or read returned nothing

lineVars == <<coming, tty, gone>>
vars     == <<pc, round, open, sel, idx, lineVars, shown, done, lent, late>>

(***************************************************************************)
(* pi_done_scan.                                                            *)
(***************************************************************************)

\* Mutants: a mismatch leaves the matches alone; a complete match is no limit.
Match_Keeps(i, c) == IF i < Len(ExitString) /\ c = ExitString[i + 1] THEN i + 1 ELSE i
Match_Wraps(i, c) ==
    IF c = ExitString[(i % Len(ExitString)) + 1] THEN i + 1
    ELSE IF c = ExitString[1] THEN 1 ELSE 0

\* idx after one more character.
Match(i, c) ==
    IF i < Len(ExitString) /\ c = ExitString[i + 1] THEN i + 1
    ELSE IF c = ExitString[1] THEN 1 ELSE 0

\* idx after each character of what one read returned.
Matches(data) ==
    LET m[k \in 0 .. Len(data)] == IF k = 0 THEN idx ELSE Match(m[k - 1], data[k])
    IN  m

\* The scan stops at the first character that completes the exit string.
Complete(data) == \E k \in 1 .. Len(data) : Matches(data)[k] = Len(ExitString)

IdxAfter(data) == IF Complete(data) THEN Len(ExitString) ELSE Matches(data)[Len(data)]

----------------------------------------------------------------------------
Init ==
    /\ pc = "select"
    /\ round = 0
    /\ open = Pies
    /\ sel = -1
    /\ idx = 0
    /\ coming \in [Pies -> Scripts]
    /\ tty = [p \in Pies |-> << >>]
    /\ gone = {}
    /\ shown = [p \in Pies |-> << >>]
    /\ done = {}
    /\ lent = {}
    /\ late = FALSE

(***************************************************************************)
(* The pies.                                                                *)
(***************************************************************************)
ChatsAtEnd(s) == s # << >> /\ s[Len(s)] = Chatter

\* Any length of chatter that waits to be read, or was shown, is one Chatter.
Prints(p) ==
    /\ coming[p] # << >>
    /\ Head(coming[p]) = Chatter => ~ ChatsAtEnd(tty[p])
    /\ tty' = [tty EXCEPT ![p] = Append(@, Head(coming[p]))]
    /\ coming' = IF Head(coming[p]) = Chatter THEN coming
                 ELSE [coming EXCEPT ![p] = Tail(@)]
    /\ UNCHANGED <<pc, round, open, sel, idx, gone, shown, done, lent, late>>

Unplugged(p) ==
    /\ p \notin gone
    /\ gone' = gone \cup {p}
    /\ tty' = [tty EXCEPT ![p] = << >>]
    /\ coming' = [coming EXCEPT ![p] = << >>]
    /\ UNCHANGED <<pc, round, open, sel, idx, shown, done, lent, late>>

(***************************************************************************)
(* One turn of the outer loop: select on all open pies, then choose one.    *)
(***************************************************************************)
Readable(p) == tty[p] # << >> \/ p \in gone

Select ==
    /\ pc = "select"
    /\ round < Rounds
    /\ \E p \in open : Readable(p)
    /\ pc' = "pick"
    /\ UNCHANGED <<round, open, sel, idx, lineVars, shown, done, lent, late>>

NoneReady ==
    /\ pc = "select"
    /\ round < Rounds
    /\ open # {}
    /\ ~ \E p \in open : Readable(p)
    /\ pc' = "end"
    /\ late' = TRUE
    /\ UNCHANGED <<round, open, sel, idx, lineVars, shown, done, lent>>

\* Mutant: the last turn is not taken.
LoopOver_Early ==
    /\ pc = "select"
    /\ round + 1 >= Rounds \/ open = {}
    /\ pc' = "end"
    /\ UNCHANGED <<round, open, sel, idx, lineVars, shown, done, lent, late>>

\* All pies have exited, or the turns are used up.
LoopOver ==
    /\ pc = "select"
    /\ round >= Rounds \/ open = {}
    /\ pc' = "end"
    /\ UNCHANGED <<round, open, sel, idx, lineVars, shown, done, lent, late>>

\* prev_pi is -1 for ever: the search starts at the first pi every time, and
\* does not ask which of them select found ready.
Pick ==
    /\ pc = "pick"
    /\ sel' = CHOOSE p \in open : \A q \in open : p <= q
    /\ pc' = "read"
    /\ UNCHANGED <<round, open, idx, lineVars, shown, done, lent, late>>

(***************************************************************************)
(* The inner loop: read the selected pi until it pauses, ends or breaks.    *)
(***************************************************************************)
NextRound == pc' = "select" /\ round' = round + 1

Reap == open' = open \ {sel}

ReadError ==
    /\ pc = "read"
    /\ sel \in gone
    /\ Reap
    /\ NextRound
    /\ UNCHANGED <<sel, idx, lineVars, shown, done, lent, late>>

\* Mutant: no VTIME, a pi without data blocks the loop.
ReadNothing_Never == FALSE /\ UNCHANGED vars

\* Ten seconds without a byte, or the end of file of a tty that was hung up.
ReadNothing ==
    /\ pc = "read"
    /\ tty[sel] = << >>
    /\ late' = TRUE
    /\ NextRound
    /\ UNCHANGED <<open, sel, idx, lineVars, shown, done, lent>>

ShownAfter(s, data) == IF ChatsAtEnd(s) THEN s ELSE s \o data

\* Scan, write all that was read, then leave the pi or wait for more.
ReadData ==
    /\ pc = "read"
    /\ tty[sel] # << >>
    /\ tty' = [tty EXCEPT ![sel] = << >>]
    /\ idx' = IdxAfter(tty[sel])
    /\ shown' = [shown EXCEPT ![sel] = ShownAfter(@, tty[sel])]
    /\ lent' = IF shown[sel] = << >> /\ idx \in 1 .. Len(ExitString) - 1
               THEN lent \cup {sel} ELSE lent
    /\ IF Complete(tty[sel])
       THEN Reap /\ NextRound /\ done' = done \cup {sel}
       ELSE pc' = "wait" /\ UNCHANGED <<open, round, done>>
    /\ UNCHANGED <<sel, coming, gone, late>>

MoreToRead ==
    /\ pc = "wait"
    /\ Readable(sel)
    /\ pc' = "read"
    /\ UNCHANGED <<round, open, sel, idx, lineVars, shown, done, lent, late>>

\* The 50 ms are over; what is left of them is never set back.
Pause ==
    /\ pc = "wait"
    /\ ~Readable(sel)
    /\ late' = TRUE
    /\ NextRound
    /\ UNCHANGED <<open, sel, idx, lineVars, shown, done, lent>>

----------------------------------------------------------------------------
MacWorks ==
    \/ Select \/ NoneReady \/ LoopOver \/ Pick
    \/ ReadError \/ ReadNothing \/ ReadData \/ MoreToRead \/ Pause

Next == MacWorks \/ \E p \in Pies : Prints(p) \/ Unplugged(p)

\* Only deploy must run: each of its waits has a timeout.
Spec == Init /\ [][Next]_vars /\ WF_vars(MacWorks)

----------------------------------------------------------------------------
(***************************************************************************)
(* Properties.                                                              *)
(***************************************************************************)

\* Types; the index into the exit string never leaves it.
TypeOK ==
    /\ pc \in {"select", "pick", "read", "wait", "end"}
    /\ round \in 0 .. Rounds
    /\ open \subseteq Pies
    /\ sel \in -1 .. NumPies - 1
    /\ idx \in 0 .. Len(ExitString)
    /\ coming \in [Pies -> Seq(STRING)]
    /\ tty \in [Pies -> Seq(STRING)]
    /\ gone \subseteq Pies
    /\ shown \in [Pies -> Seq(STRING)]
    /\ done \subseteq Pies /\ lent \subseteq Pies
    /\ late \in BOOLEAN

Within(s, t) == \E i \in 0 .. Len(t) - Len(s) : SubSeq(t, i + 1, i + Len(s)) = s

\* A pi is closed as done if and only if it has printed the exit string itself,
\* however its output was cut into reads (pi_done_scan keeps its count between
\* calls).  One idx serves all pies, so this excludes a pi that is read after one
\* that went away in the middle of the exit string: it inherits the count.
DoneIsItsOwn == \A p \in Pies \ lent : p \in done <=> Within(ExitString, shown[p])

\* If no wait came back with nothing, the loop ends with every pi closed: ten
\* turns are enough for ten pies.
NoneLeftOpen == pc = "end" /\ ~late /\ NumPies <= Rounds => open = {}

\* The loop ends, whatever the pies do, unless one of them prints on and on without
\* the exit string: "Repeat indefinitely", as long as it never pauses when it is
\* looked at.  Nothing but such a pi can keep the loop: no silent, stuck or
\* unplugged one, and none that is not the selected one.
KeptByChatter == pc \in {"read", "wait"} /\ coming[sel] = <<Chatter>>
Ends == <>(pc = "end") \/ <>[]KeptByChatter

(***************************************************************************)
(* The inductive invariant behind the properties above.                     *)
(***************************************************************************)
\* Of the first n characters of t, the last k are the first k of the exit string.
Met(t, n, k) == k <= n /\ \A j \in 1 .. k : t[n - k + j] = ExitString[j]

\* i is the most that is met there.
Counted(t, n, i) ==
    /\ Met(t, n, i)
    /\ \A k \in 1 .. Len(ExitString) : Met(t, n, k) => k <= i

FirstOpen(p) == p \in open /\ \A q \in open : p <= q

\* The turn that is taken is of the first pi that is open, and the turns end when
\* none is left of the one or the other.
Turn ==
    /\ pc = "pick" => open # {}
    /\ pc \in {"pick", "read", "wait"} => round < Rounds
    /\ pc \in {"read", "wait"} => FirstOpen(sel)
    /\ pc = "end" /\ ~ late => round >= Rounds \/ open = {}

\* It is read until it is closed, before any other; a pi that is closed as done
\* is not open.
InOrder ==
    /\ \A p \in open : shown[p] # << >> => FirstOpen(p)
    /\ done \cap open = {}

\* While a pi is open, idx is what its output has met of the exit string.
CountIsItsOwn ==
    \A p \in open \ lent : shown[p] # << >> =>
        /\ idx < Len(ExitString)
        /\ Counted(shown[p], Len(shown[p]), idx)

\* Chatter comes last, and then nothing else: on the way, in the tty and shown.
ChatterLast ==
    \A p \in Pies :
        /\ \A i \in 1 .. Len(coming[p]) - 1 : coming[p][i] # Chatter
        /\ ChatsAtEnd(tty[p]) \/ ChatsAtEnd(shown[p]) => coming[p] \in {<< >>, <<Chatter>>}
        /\ ChatsAtEnd(shown[p]) => tty[p] \in {<< >>, <<Chatter>>}

\* A turn that is not cut short closes a pi.
TurnsCloseOne == ~ late => round = NumPies - Cardinality(open)

\* The inductive invariant: whose turn it is, whose count idx holds, and how many
\* turns were used.
IInv ==
    /\ TypeOK /\ Turn /\ InOrder /\ CountIsItsOwn /\ TurnsCloseOne /\ DoneIsItsOwn
    /\ ChatterLast
=============================================================================
