--------------------------- MODULE PiOutputProofs ---------------------------
(***************************************************************************)
(* Proofs about PiOutput, for any number of pies and turns, any exit string *)
(* whose first character does not come again, and anything that pies print, *)
(* cut into reads anywhere.                                                 *)
(***************************************************************************)
EXTENDS PiOutput, NatLemmas, SequenceTheorems

L == Len(ExitString)

LEMMA ExitIs ==
  /\ L \in Nat \ {0} /\ ExitString \in Seq(STRING)
  /\ \A i \in 2 .. L : ExitString[i] # ExitString[1]
BY ExitAssumption DEF L

----------------------------------------------------------------------------
(***************************************************************************)
(* The scan.                                                                *)
(***************************************************************************)
\* One character more: the count of pi_done_scan stays the most that is met.
LEMMA MatchCounts ==
  ASSUME NEW t \in Seq(STRING), NEW n \in 0 .. Len(t) - 1, NEW i \in 0 .. L - 1, Counted(t, n, i)
  PROVE  Match(i, t[n + 1]) \in 0 .. L /\ Counted(t, n + 1, Match(i, t[n + 1]))
<1> DEFINE c == t[n + 1]
<1>1. i <= n /\ \A j \in 1 .. i : t[n - i + j] = ExitString[j]
  BY DEF Counted, Met
<1>2. ASSUME NEW k \in 1 .. L, Met(t, n + 1, k)
      PROVE  c = ExitString[k] /\ k - 1 <= i /\ Met(t, n, k - 1)
  <2>1. k <= n + 1 /\ \A j \in 1 .. k : t[(n + 1) - k + j] = ExitString[j]
    BY <1>2 DEF Met
  <2>2. c = ExitString[k]
    <3>1. (n + 1) - k + k = n + 1
      OBVIOUS
    <3> QED BY <2>1, <3>1, ExitIs
  <2>3. Met(t, n, k - 1)
    <3>1. ASSUME NEW j \in 1 .. k - 1 PROVE t[n - (k - 1) + j] = ExitString[j]
      <4>1. n - (k - 1) + j = (n + 1) - k + j /\ j \in 1 .. k
        BY ExitIs
      <4> QED BY <2>1, <4>1
    <3> QED BY <2>1, <3>1, ExitIs DEF Met
  <2>4. k - 1 <= i
    <3>1. CASE k = 1
      BY <3>1
    <3>2. CASE k # 1
      <4>1. k - 1 \in 1 .. L
        BY <3>2, ExitIs
      <4> QED BY <2>3, <4>1 DEF Counted, L
    <3> QED BY <3>1, <3>2
  <2> QED BY <2>2, <2>3, <2>4
<1>3. CASE c = ExitString[i + 1]
  <2>1. Match(i, c) = i + 1
    BY <1>3, ExitIs DEF Match, L
  <2>2. Met(t, n + 1, i + 1)
    <3>1. ASSUME NEW j \in 1 .. i + 1 PROVE t[(n + 1) - (i + 1) + j] = ExitString[j]
      <4>1. CASE j = i + 1
        <5>1. (n + 1) - (i + 1) + j = n + 1
          BY <4>1
        <5> QED BY <1>3, <4>1, <5>1
      <4>2. CASE j # i + 1
        <5>1. (n + 1) - (i + 1) + j = n - i + j /\ j \in 1 .. i
          BY <4>2
        <5> QED BY <1>1, <5>1
      <4> QED BY <4>1, <4>2
    <3> QED BY <1>1, <3>1 DEF Met
  <2>3. \A k \in 1 .. L : Met(t, n + 1, k) => k <= i + 1
    BY <1>2, ExitIs
  <2> QED BY <2>1, <2>2, <2>3, ExitIs DEF Counted, L
<1>4. CASE c # ExitString[i + 1] /\ c = ExitString[1]
  <2>1. Match(i, c) = 1
    BY <1>4 DEF Match
  <2>2. Met(t, n + 1, 1)
    BY <1>4 DEF Met
  <2>3. \A k \in 1 .. L : Met(t, n + 1, k) => k <= 1
    BY <1>2, <1>4, ExitIs
  <2> QED BY <2>1, <2>2, <2>3, ExitIs DEF Counted, L
<1>5. CASE c # ExitString[i + 1] /\ c # ExitString[1]
  <2>1. Match(i, c) = 0
    BY <1>5 DEF Match
  <2>2. Met(t, n + 1, 0)
    BY DEF Met
  <2>3. ASSUME NEW k \in 1 .. L, Met(t, n + 1, k) PROVE FALSE
    <3>1. c = ExitString[k] /\ k - 1 <= i /\ Met(t, n, k - 1)
      BY <1>2, <2>3
    <3>2. k - 1 \in 1 .. i - 1
      BY <1>5, <3>1, ExitIs
    <3>3. t[n - (k - 1) + 1] = ExitString[1]
      BY <3>1, <3>2 DEF Met
    <3>4. i - (k - 1) + 1 \in 2 .. L /\ i - (k - 1) + 1 \in 1 .. i
          /\ n - i + (i - (k - 1) + 1) = n - (k - 1) + 1
      BY <3>2, ExitIs
    <3>5. t[n - (k - 1) + 1] = ExitString[i - (k - 1) + 1]
      BY <1>1, <3>4
    <3> QED BY <3>3, <3>4, <3>5, ExitIs
  <2> QED BY <2>1, <2>2, <2>3, ExitIs DEF Counted, L
<1> QED BY <1>3, <1>4, <1>5

\* The first character of a pi, after the scan of another one was over.
LEMMA FirstMatchCounts ==
  ASSUME NEW t \in Seq(STRING), Len(t) > 0, NEW i \in {0, L}
  PROVE  Match(i, t[1]) \in 0 .. L /\ Counted(t, 1, Match(i, t[1]))
<1>1. Counted(t, 0, 0)
  BY ExitIs DEF Counted, Met
<1>2. Match(0, t[1]) \in 0 .. L /\ Counted(t, 1, Match(0, t[1]))
  <2>1. 0 \in 0 .. Len(t) - 1 /\ 0 \in 0 .. L - 1 /\ 0 + 1 = 1
    BY ExitIs
  <2> QED BY <1>1, <2>1, MatchCounts
<1>3. Match(L, t[1]) = Match(0, t[1])
  BY ExitIs DEF Match, L
<1> QED BY <1>2, <1>3

\* The counts after each character of a read are there: by induction on how many
\* characters there are.
LEMMA MatchesIs ==
  ASSUME NEW data \in Seq(STRING)
  PROVE  /\ Matches(data)[0] = idx
         /\ \A k \in 1 .. Len(data) : Matches(data)[k] = Match(Matches(data)[k - 1], data[k])
<1> DEFINE Body(f, n) == [k \in 0 .. n |-> IF k = 0 THEN idx ELSE Match(f[k - 1], data[k])]
           T == {n \in Nat : n <= Len(data) /\ ~ \E f : f = Body(f, n)}
<1>1. T = {}
  <2>1. SUFFICES ASSUME T # {} PROVE FALSE
    OBVIOUS
  <2>2. PICK n \in T : \A x \in T : n <= x
    <3>1. T \subseteq Nat
      OBVIOUS
    <3> HIDE DEF T
    <3> QED BY <2>1, <3>1, LeastNumber
  <2>3. CASE n = 0
    <3> DEFINE f == [k \in 0 .. 0 |-> idx]
    <3>1. f = Body(f, 0)
      OBVIOUS
    <3> QED BY <2>2, <2>3, <3>1
  <2>4. CASE n # 0
    <3>1. n \in Nat \ {0} /\ n <= Len(data) /\ n - 1 \in Nat /\ n - 1 \notin T
      <4>1. n \in Nat /\ n <= Len(data) /\ Len(data) \in Nat
        BY <2>2
      <4>2. n - 1 \in Nat /\ ~ (n <= n - 1)
        BY <2>4, <4>1
      <4> HIDE DEF T
      <4> QED BY <2>2, <2>4, <4>1, <4>2
    <3>2. PICK f : f = Body(f, n - 1)
      BY <3>1
    <3> DEFINE g == [k \in 0 .. n |-> IF k = n THEN Match(f[n - 1], data[n]) ELSE f[k]]
    <3>3. ASSUME NEW k \in 0 .. n
          PROVE  g[k] = IF k = 0 THEN idx ELSE Match(g[k - 1], data[k])
      <4>1. CASE k = n
        <5>1. g[k] = Match(f[n - 1], data[n]) /\ g[k - 1] = f[n - 1]
          BY <3>1, <4>1
        <5> QED BY <3>1, <4>1, <5>1
      <4>2. CASE k # n
        <5>1. k \in 0 .. n - 1
          BY <4>2
        <5>2. f[k] = IF k = 0 THEN idx ELSE Match(f[k - 1], data[k])
          BY <3>2, <5>1
        <5>3. g[k] = f[k] /\ (k # 0 => g[k - 1] = f[k - 1])
          BY <5>1
        <5> QED BY <5>2, <5>3
      <4> QED BY <4>1, <4>2
    <3>4. g = Body(g, n)
      <4> HIDE DEF g
      <4>1. g = [k \in 0 .. n |-> g[k]]
        BY DEF g
      <4> QED BY <3>3, <4>1
    <3> QED BY <2>2, <3>4
  <2> QED BY <2>3, <2>4
<1>2. Len(data) \in Nat
  OBVIOUS
<1>3. PICK f : f = Body(f, Len(data))
  BY <1>1, <1>2
<1>4. Matches(data) = [k \in 0 .. Len(data) |-> IF k = 0 THEN idx ELSE Match(Matches(data)[k - 1], data[k])]
  BY <1>3 DEF Matches
<1> QED BY <1>2, <1>4

\* One read: with the count that belongs to what was shown before, each count up to
\* the first complete match is the most that is met of all that is shown.
LEMMA ScanCounts ==
  ASSUME NEW s \in Seq(STRING), NEW data \in Seq(STRING), idx \in 0 .. L,
         \/ s = << >> /\ idx \in {0, L}
         \/ s # << >> /\ idx < L /\ Counted(s, Len(s), idx)
  PROVE  \A k \in 1 .. Len(data) :
           (\A j \in 1 .. k - 1 : Matches(data)[j] # L) =>
             /\ Matches(data)[k] \in 0 .. L
             /\ Counted(s \o data, Len(s) + k, Matches(data)[k])
<1> DEFINE m == Matches(data)
           t == s \o data
           P(k) == (\A j \in 1 .. k - 1 : m[j] # L) => m[k] \in 0 .. L /\ Counted(t, Len(s) + k, m[k])
           T == {k \in Nat : k \in 1 .. Len(data) /\ ~ P(k)}
<1>1. /\ t \in Seq(STRING) /\ Len(t) = Len(s) + Len(data) /\ Len(s) \in Nat /\ Len(data) \in Nat
      /\ \A k \in 1 .. Len(data) : t[Len(s) + k] = data[k]
      /\ \A n \in 1 .. Len(s) : t[n] = s[n]
  OBVIOUS
<1>2. m[0] = idx /\ \A k \in 1 .. Len(data) : m[k] = Match(m[k - 1], data[k])
  BY MatchesIs
<1> HIDE DEF m, t
<1>3. SUFFICES ASSUME T # {} PROVE FALSE
  <2>1. ASSUME T = {}, NEW k \in 1 .. Len(data) PROVE P(k)
    <3> HIDE DEF P
    <3>1. k \in Nat /\ k \notin T
      BY <1>1, <2>1
    <3> QED BY <3>1
  <2> QED BY <2>1 DEF m, t
<1>4. PICK k \in T : \A x \in T : k <= x
  <2>1. T \subseteq Nat
    OBVIOUS
  <2> HIDE DEF T
  <2> QED BY <1>3, <2>1, LeastNumber
<1>5. /\ k \in 1 .. Len(data) /\ k \in Nat /\ ~ P(k)
      /\ \A x \in 1 .. k - 1 : P(x)
  BY <1>4
<1>6. \A j \in 1 .. k - 1 : m[j] # L
  BY <1>5
<1>7. CASE k = 1 /\ s = << >>
  <2>1. Len(s) = 0 /\ Len(t) > 0 /\ t[1] = data[1]
    BY <1>1, <1>5, <1>7
  <2>2. m[1] = Match(idx, t[1])
    BY <1>2, <1>5, <1>7, <2>1
  <2>3. m[1] \in 0 .. L /\ Counted(t, 1, m[1])
    BY <1>1, <1>7, <2>1, <2>2, FirstMatchCounts
  <2> QED BY <1>5, <1>7, <2>1, <2>3
<1>8. CASE ~ (k = 1 /\ s = << >>)
  <2>1. m[k - 1] \in 0 .. L - 1 /\ Counted(t, Len(s) + (k - 1), m[k - 1])
    <3>1. CASE k = 1
      <4>1. s # << >> /\ idx \in 0 .. L - 1 /\ Counted(s, Len(s), idx)
        BY <1>8, <3>1, ExitIs
      <4>2. \A n \in 0 .. L : Met(s, Len(s), n) <=> Met(t, Len(s), n)
        <5>1. ASSUME NEW n \in 0 .. L, n <= Len(s), NEW j \in 1 .. n
              PROVE  s[Len(s) - n + j] = t[Len(s) - n + j]
          <6>1. Len(s) - n + j \in 1 .. Len(s)
            BY <1>1, <5>1, ExitIs
          <6> QED BY <1>1, <6>1
        <5> QED BY <5>1 DEF Met
      <4>3. Counted(t, Len(s), idx)
        BY <4>1, <4>2, ExitIs DEF Counted, L
      <4> QED BY <1>1, <1>2, <3>1, <4>1, <4>3
    <3>2. CASE k # 1
      <4>1. k - 1 \in 1 .. k - 1 /\ P(k - 1)
        BY <1>5, <3>2
      <4>2. \A j \in 1 .. (k - 1) - 1 : m[j] # L
        BY <1>5, <1>6
      <4> QED BY <1>6, <4>1, <4>2, ExitIs
    <3> QED BY <3>1, <3>2
  <2>2. Len(s) + (k - 1) \in 0 .. Len(t) - 1 /\ (Len(s) + (k - 1)) + 1 = Len(s) + k
    BY <1>1, <1>5
  <2>3. m[k] = Match(m[k - 1], t[Len(s) + k])
    BY <1>1, <1>2, <1>5
  <2>4. m[k] \in 0 .. L /\ Counted(t, Len(s) + k, m[k])
    BY <1>1, <2>1, <2>2, <2>3, MatchCounts
  <2> QED BY <1>5, <2>4
<1> QED BY <1>7, <1>8

\* The index stays in the exit string, whoever's count it is.
LEMMA MatchesType ==
  ASSUME NEW data \in Seq(STRING), idx \in 0 .. L
  PROVE  \A k \in 0 .. Len(data) : Matches(data)[k] \in 0 .. L
<1> DEFINE m == Matches(data)
           T == {k \in Nat : k <= Len(data) /\ m[k] \notin 0 .. L}
<1>1. m[0] = idx /\ \A k \in 1 .. Len(data) : m[k] = Match(m[k - 1], data[k])
  BY MatchesIs
<1> HIDE DEF m
<1>2. ASSUME NEW i \in 0 .. L, NEW c PROVE Match(i, c) \in 0 .. L
  BY ExitIs DEF Match, L
<1>3. ASSUME T # {} PROVE FALSE
  <2>1. PICK k \in T : \A x \in T : k <= x
    <3>1. T \subseteq Nat
      OBVIOUS
    <3> HIDE DEF T
    <3> QED BY <1>3, <3>1, LeastNumber
  <2>2. k \in 1 .. Len(data) /\ k - 1 \in Nat /\ ~ (k <= k - 1)
    BY <1>1, <2>1
  <2>3. k - 1 \notin T
    <3> HIDE DEF T
    <3> QED BY <2>1, <2>2
  <2>4. m[k - 1] \in 0 .. L
    BY <2>2, <2>3
  <2> QED BY <1>1, <1>2, <2>1, <2>2, <2>4
<1>4. Len(data) \in Nat
  OBVIOUS
<1> QED BY <1>3, <1>4 DEF m

LEMMA WithinIs ==
  ASSUME NEW t \in Seq(STRING)
  PROVE  Within(ExitString, t) <=> \E n \in 1 .. Len(t) : Met(t, n, L)
<1>1. ASSUME NEW i \in 0 .. Len(t) - L
      PROVE  SubSeq(t, i + 1, i + L) = ExitString <=> Met(t, i + L, L)
  <2>1. /\ SubSeq(t, i + 1, i + L) \in Seq(STRING) /\ Len(SubSeq(t, i + 1, i + L)) = L
        /\ \A j \in 1 .. L : SubSeq(t, i + 1, i + L)[j] = t[i + j]
    <3>1. /\ i + 1 \in Int /\ i + L \in Int /\ i + 1 <= i + L
          /\ (i + L) - (i + 1) + 1 = L /\ i + 1 >= 1 /\ i + L <= Len(t)
      BY ExitIs
    <3>2. \A j \in (i + 1) .. (i + L) : t[j] \in STRING
      BY <3>1
    <3>3. /\ SubSeq(t, i + 1, i + L) \in Seq(STRING) /\ Len(SubSeq(t, i + 1, i + L)) = L
          /\ \A j \in 1 .. L : SubSeq(t, i + 1, i + L)[j] = t[(i + 1) + j - 1]
      BY <3>1, <3>2, SubSeqProperties
    <3>4. \A j \in 1 .. L : (i + 1) + j - 1 = i + j
      BY ExitIs
    <3> QED BY <3>3, <3>4
  <2>2. \A j \in 1 .. L : (i + L) - L + j = i + j
    BY ExitIs
  <2>3. Met(t, i + L, L) <=> \A j \in 1 .. L : t[i + j] = ExitString[j]
    BY <2>2, ExitIs DEF Met
  <2>4. SubSeq(t, i + 1, i + L) = ExitString <=> \A j \in 1 .. L : SubSeq(t, i + 1, i + L)[j] = ExitString[j]
    BY <2>1, ExitIs, SeqEqual DEF L
  <2> QED BY <2>1, <2>3, <2>4
<1>2. ASSUME Within(ExitString, t) PROVE \E n \in 1 .. Len(t) : Met(t, n, L)
  <2>1. PICK i \in 0 .. Len(t) - L : SubSeq(t, i + 1, i + L) = ExitString
    BY <1>2 DEF Within, L
  <2>2. i + L \in 1 .. Len(t)
    BY ExitIs
  <2> QED BY <1>1, <2>1, <2>2
<1>3. ASSUME NEW n \in 1 .. Len(t), Met(t, n, L) PROVE Within(ExitString, t)
  <2>1. n - L \in 0 .. Len(t) - L /\ (n - L) + L = n
    BY <1>3, ExitIs DEF Met
  <2>2. SubSeq(t, (n - L) + 1, (n - L) + L) = ExitString
    BY <1>1, <1>3, <2>1
  <2> QED BY <2>1, <2>2 DEF Within, L
<1> QED BY <1>2, <1>3

\* What a read makes of a pi whose count idx is.
LEMMA ReadCounts ==
  ASSUME NEW s \in Seq(STRING), NEW data \in Seq(STRING), data # << >>, idx \in 0 .. L,
         \/ s = << >> /\ idx \in {0, L}
         \/ s # << >> /\ idx < L /\ Counted(s, Len(s), idx),
         ~ Within(ExitString, s)
  PROVE  IF Complete(data) THEN Within(ExitString, s \o data)
         ELSE /\ ~ Within(ExitString, s \o data)
              /\ IdxAfter(data) < L /\ Counted(s \o data, Len(s \o data), IdxAfter(data))
<1> DEFINE m == Matches(data)
           t == s \o data
<1>1. /\ t \in Seq(STRING) /\ Len(t) = Len(s) + Len(data) /\ Len(s) \in Nat /\ Len(data) \in Nat \ {0}
      /\ \A n \in 1 .. Len(s) : t[n] = s[n]
  OBVIOUS
<1>2. \A k \in 1 .. Len(data) :
        (\A j \in 1 .. k - 1 : m[j] # L) => m[k] \in 0 .. L /\ Counted(t, Len(s) + k, m[k])
  BY ScanCounts
<1>3. Complete(data) <=> \E k \in 1 .. Len(data) : m[k] = L
  BY DEF Complete, L
<1>4. IdxAfter(data) = IF Complete(data) THEN L ELSE m[Len(data)]
  BY DEF IdxAfter, L
<1> HIDE DEF m, t
<1>5. CASE Complete(data)
  <2> DEFINE T == {k \in Nat : k \in 1 .. Len(data) /\ m[k] = L}
  <2>1. PICK k \in T : \A x \in T : k <= x
    <3>1. T \subseteq Nat /\ T # {}
      BY <1>1, <1>3, <1>5
    <3> HIDE DEF T
    <3> QED BY <3>1, LeastNumber
  <2>2. k \in 1 .. Len(data) /\ m[k] = L /\ \A j \in 1 .. k - 1 : m[j] # L
    BY <1>1, <2>1
  <2>3. Met(t, Len(s) + k, L)
    BY <1>2, <2>2 DEF Counted
  <2>4. Len(s) + k \in 1 .. Len(t)
    BY <1>1, <2>2
  <2> QED BY <1>1, <1>5, <2>3, <2>4, WithinIs DEF t
<1>6. CASE ~ Complete(data)
  <2>1. ASSUME NEW k \in 1 .. Len(data)
        PROVE  m[k] \in 0 .. L - 1 /\ Counted(t, Len(s) + k, m[k])
    <3>1. m[k] # L /\ \A j \in 1 .. k - 1 : m[j] # L
      BY <1>1, <1>3, <1>6
    <3> QED BY <1>2, <3>1, ExitIs
  <2>2. ASSUME NEW n \in 1 .. Len(t), Met(t, n, L) PROVE FALSE
    <3>1. CASE n <= Len(s)
      <4>1. ASSUME NEW j \in 1 .. L PROVE s[n - L + j] = ExitString[j]
        <5>1. n - L + j \in 1 .. Len(s) /\ t[n - L + j] = ExitString[j]
          BY <1>1, <2>2, <3>1, ExitIs DEF Met
        <5> QED BY <1>1, <5>1
      <4>2. n \in 1 .. Len(s) /\ Met(s, n, L)
        BY <1>1, <2>2, <3>1, <4>1 DEF Met
      <4> QED BY <4>2, WithinIs
    <3>2. CASE n > Len(s)
      <4>1. n - Len(s) \in 1 .. Len(data) /\ Len(s) + (n - Len(s)) = n
        BY <1>1, <3>2
      <4>2. Counted(t, n, m[n - Len(s)]) /\ m[n - Len(s)] \in 0 .. L - 1
        BY <2>1, <4>1
      <4>3. L \in 1 .. Len(ExitString)
        BY ExitIs DEF L
      <4>4. L <= m[n - Len(s)]
        BY <2>2, <4>2, <4>3 DEF Counted
      <4> QED BY <4>2, <4>4, ExitIs
    <3> QED BY <1>1, <3>1, <3>2
  <2>3. ~ Within(ExitString, t)
    BY <1>1, <2>2, WithinIs
  <2>4. Len(data) \in 1 .. Len(data)
    BY <1>1
  <2>5. IdxAfter(data) < L /\ Counted(t, Len(t), IdxAfter(data))
    BY <1>1, <1>4, <1>6, <2>1, <2>4, ExitIs
  <2> QED BY <1>6, <2>3, <2>5 DEF t
<1> QED BY <1>5, <1>6

LEMMA ChatterIs ==
  /\ Chatter \in STRING /\ <<Chatter>> \in Seq(STRING)
  /\ Len(<<Chatter>>) = 1 /\ <<Chatter>>[1] = Chatter
<1>1. Chatter \in STRING
  BY ChatterAssumption
<1>2. << >> \in Seq(STRING) /\ Len(<< >>) = 0
  OBVIOUS
<1>3. Append(<< >>, Chatter) = <<Chatter>>
  OBVIOUS
<1>4. /\ Append(<< >>, Chatter) \in Seq(STRING) /\ Len(Append(<< >>, Chatter)) = Len(<< >>) + 1
      /\ Append(<< >>, Chatter)[Len(<< >>) + 1] = Chatter
  BY <1>1, <1>2, AppendProperties
<1> QED BY <1>1, <1>2, <1>3, <1>4

\* Of output that ends in chatter, nothing has been met, and more chatter meets
\* nothing.
LEMMA ChatterMeetsNothing ==
  ASSUME NEW s \in Seq(STRING), ChatsAtEnd(s), idx \in 0 .. L
  PROVE  /\ ~ Complete(<<Chatter>>)
         /\ IdxAfter(<<Chatter>>) < L /\ Counted(s, Len(s), IdxAfter(<<Chatter>>))
<1>1. \A k \in 1 .. L : ExitString[k] # Chatter
  BY ChatterAssumption DEF L
<1>2. <<Chatter>> \in Seq(STRING) /\ Len(<<Chatter>>) = 1 /\ <<Chatter>>[1] = Chatter
  BY ChatterIs
<1>3. Match(idx, Chatter) = 0
  BY <1>1, ExitIs DEF Match, L
<1>4. Matches(<<Chatter>>)[1] = 0
  <2>1. 1 \in 1 .. Len(<<Chatter>>) /\ 1 - 1 = 0
    BY <1>2
  <2>2. /\ Matches(<<Chatter>>)[0] = idx
        /\ Matches(<<Chatter>>)[1] = Match(Matches(<<Chatter>>)[1 - 1], <<Chatter>>[1])
    BY <1>2, <2>1, MatchesIs
  <2> QED BY <1>2, <1>3, <2>1, <2>2
<1>5. ~ Complete(<<Chatter>>)
  <2>1. 1 .. Len(<<Chatter>>) = {1}
    BY <1>2
  <2> QED BY <1>4, <2>1, ExitIs DEF Complete, L
<1>6. IdxAfter(<<Chatter>>) = 0
  BY <1>2, <1>4, <1>5 DEF IdxAfter
<1>7. ASSUME NEW k \in 1 .. L PROVE ~ Met(s, Len(s), k)
  <2>1. s[Len(s)] = Chatter /\ Len(s) \in Nat /\ Len(s) - k + k = Len(s) /\ k \in 1 .. k
    BY ExitIs DEF ChatsAtEnd
  <2>2. Met(s, Len(s), k) => s[Len(s) - k + k] = ExitString[k]
    BY <2>1 DEF Met
  <2> QED BY <1>1, <2>1, <2>2
<1>8. Met(s, Len(s), 0)
  BY DEF Met
<1> QED BY <1>5, <1>6, <1>7, <1>8, ExitIs DEF Counted, L

----------------------------------------------------------------------------
(***************************************************************************)
(* Every step keeps the invariant.                                          *)
(***************************************************************************)
LEMMA OpenIsFinite ==
  ASSUME TypeOK
  PROVE  IsFiniteSet(open) /\ Cardinality(open) \in Nat /\ NumPies \in Nat
<1>1. IsFiniteSet(Pies) /\ NumPies \in Nat
  <2>1. 0 \in Int /\ NumPies - 1 \in Int /\ NumPies \in Nat
    BY PiesAssumption
  <2> QED BY <2>1, FS_Interval DEF Pies
<1>2. IsFiniteSet(open)
  BY <1>1, FS_Subset DEF TypeOK
<1> QED BY <1>1, <1>2, FS_CardinalityType

LEMMA InitIsOk == Init => IInv
<1> SUFFICES ASSUME Init PROVE IInv
  OBVIOUS
<1>1. TypeOK
  <2>1. /\ << >> \in Seq(STRING) /\ 0 \in 0 .. Rounds /\ -1 \in -1 .. NumPies - 1 /\ 0 \in 0 .. Len(ExitString)
    BY PiesAssumption, RoundsAssumption, ExitAssumption
  <2>2. coming \in [Pies -> Seq(STRING)]
    BY ScriptAssumption DEF Init
  <2> QED BY <2>1, <2>2 DEF Init, TypeOK
<1>2. Turn
  BY DEF Init, Turn
<1>3. InOrder /\ CountIsItsOwn
  BY DEF Init, InOrder, CountIsItsOwn
<1>4. TurnsCloseOne
  <2>1. NumPies \in Nat /\ 0 \in Int /\ NumPies - 1 \in Int
    BY PiesAssumption
  <2>2. Cardinality(0 .. NumPies - 1) = IF 0 > NumPies - 1 THEN 0 ELSE (NumPies - 1) - 0 + 1
    BY <2>1, FS_Interval
  <2> QED BY <2>1, <2>2 DEF Init, TurnsCloseOne, Pies
<1>5. DoneIsItsOwn
  <2>1. ~ Within(ExitString, << >>)
    <3>1. << >> \in Seq(STRING) /\ 1 .. Len(<< >>) = {}
      OBVIOUS
    <3> QED BY <3>1, WithinIs
  <2> QED BY <2>1 DEF Init, DoneIsItsOwn
<1>6. ChatterLast
  BY ScriptAssumption DEF Init, ChatterLast, ChatsAtEnd
<1> QED BY <1>1, <1>2, <1>3, <1>4, <1>5, <1>6 DEF IInv

\* A step that reads nothing and closes nothing.
Looks == /\ UNCHANGED <<open, idx, shown, done, lent>>
         /\ UNCHANGED <<coming, tty>> \/ ChatterLast'
         /\ (late => late') /\ (round' = round \/ late')

LEMMA LooksKeeps ==
  ASSUME IInv, Looks
  PROVE  InOrder' /\ CountIsItsOwn' /\ TurnsCloseOne' /\ DoneIsItsOwn' /\ ChatterLast'
<1>1. InOrder'
  BY DEF IInv, Looks, InOrder, FirstOpen
<1>2. CountIsItsOwn'
  BY DEF IInv, Looks, CountIsItsOwn
<1>3. TurnsCloseOne'
  BY DEF IInv, Looks, TurnsCloseOne
<1>4. DoneIsItsOwn'
  BY DEF IInv, Looks, DoneIsItsOwn
<1>5. ChatterLast'
  BY DEF IInv, Looks, ChatterLast
<1> QED BY <1>1, <1>2, <1>3, <1>4, <1>5

LEMMA PrintsStep ==
  ASSUME IInv, NEW p \in Pies, Prints(p)
  PROVE  IInv'
<1>1. TypeOK'
  <2>1. coming \in [Pies -> Seq(STRING)] /\ tty \in [Pies -> Seq(STRING)] /\ coming[p] # << >>
    BY DEF IInv, TypeOK, Prints
  <2>2. Head(coming[p]) \in STRING /\ Tail(coming[p]) \in Seq(STRING)
    BY <2>1
  <2>3. Append(tty[p], Head(coming[p])) \in Seq(STRING)
    BY <2>1, <2>2
  <2>4. coming' \in [Pies -> Seq(STRING)] /\ tty' \in [Pies -> Seq(STRING)]
    BY <2>1, <2>2, <2>3 DEF Prints
  <2> QED BY <2>4 DEF IInv, TypeOK, Prints
<1>2. Turn'
  BY DEF IInv, Turn, FirstOpen, Prints
<1>3. ChatterLast'
  <2> DEFINE s == coming[p]
             c == Head(s)
             d == tty[p]
  <2>1. /\ s \in Seq(STRING) /\ s # << >> /\ d \in Seq(STRING) /\ shown[p] \in Seq(STRING)
        /\ coming \in [Pies -> Seq(STRING)] /\ tty \in [Pies -> Seq(STRING)]
        /\ c = Chatter => ~ ChatsAtEnd(d)
        /\ tty' = [tty EXCEPT ![p] = Append(d, c)]
        /\ coming' = IF c = Chatter THEN coming ELSE [coming EXCEPT ![p] = Tail(s)]
        /\ shown' = shown
    BY DEF IInv, TypeOK, Prints
  <2>2. /\ \A i \in 1 .. Len(s) - 1 : s[i] # Chatter
        /\ ChatsAtEnd(d) \/ ChatsAtEnd(shown[p]) => s = <<Chatter>>
        /\ ChatsAtEnd(shown[p]) => d \in {<< >>, <<Chatter>>}
    BY <2>1 DEF IInv, ChatterLast
  <2>3. tty'[p] = Append(d, c) /\ coming'[p] = IF c = Chatter THEN s ELSE Tail(s)
    BY <2>1
  <2> HIDE DEF s, d
  <2>4. c = s[1] /\ Len(s) \in Nat \ {0}
    BY <2>1
  <2>5. ChatsAtEnd(Append(d, c)) <=> c = Chatter
    <3>1. c \in STRING
      BY <2>1
    <3>2. Len(Append(d, c)) = Len(d) + 1 /\ Append(d, c) # << >> /\ Append(d, c)[Len(d) + 1] = c
      BY <2>1, <3>1, AppendProperties
    <3> QED BY <3>2 DEF ChatsAtEnd
  <2> HIDE DEF c
  <2>6. CASE c = Chatter
    <3>1. Len(s) = 1
      <4>1. Len(s) # 1 => 1 \in 1 .. Len(s) - 1
        BY <2>4
      <4> QED BY <2>2, <2>4, <2>6, <4>1
    <3>2. s = <<Chatter>>
      <4>1. ASSUME NEW i \in 1 .. Len(s) PROVE s[i] = <<Chatter>>[i]
        <5>1. i = 1
          BY <3>1
        <5>2. s[1] = Chatter
          BY <2>4, <2>6
        <5> QED BY <5>1, <5>2, ChatterIs
      <4> QED BY <2>1, <3>1, <4>1, ChatterIs, SeqEqual
    <3>3. ChatsAtEnd(shown[p]) => d = << >>
      <4>1. <<Chatter>> # << >>
        <5>1. Len(<< >>) = 0 /\ Len(<<Chatter>>) = 1
          BY ChatterIs
        <5> QED BY <5>1
      <4>2. ChatsAtEnd(<<Chatter>>)
        BY <4>1, ChatterIs DEF ChatsAtEnd
      <4> QED BY <2>1, <2>2, <2>6, <4>2
    <3>4. d = << >> => Append(d, c) = <<Chatter>>
      BY <2>6
    <3> QED BY <2>1, <2>2, <2>3, <2>6, <3>2, <3>3, <3>4 DEF IInv, ChatterLast
  <2>7. CASE c # Chatter
    <3>1. s # <<Chatter>>
      BY <2>4, <2>7
    <3>2. \A i \in 1 .. Len(Tail(s)) - 1 : Tail(s)[i] # Chatter
      <4>1. ASSUME NEW i \in 1 .. Len(Tail(s)) - 1 PROVE Tail(s)[i] # Chatter
        <5>1. Tail(s)[i] = s[i + 1] /\ i + 1 \in 1 .. Len(s) - 1
          BY <2>1, <2>4
        <5> QED BY <2>2, <5>1
      <4> QED BY <4>1
    <3>3. ~ ChatsAtEnd(shown[p]) /\ ~ ChatsAtEnd(Append(d, c))
      BY <2>2, <2>5, <2>7, <3>1
    <3> QED BY <2>1, <2>3, <2>7, <3>2, <3>3 DEF IInv, ChatterLast
  <2> QED BY <2>6, <2>7
<1>4. Looks
  BY <1>3 DEF Looks, Prints
<1> QED BY <1>1, <1>2, <1>4, LooksKeeps DEF IInv

LEMMA UnpluggedStep ==
  ASSUME IInv, NEW p \in Pies, Unplugged(p)
  PROVE  IInv'
<1>1. TypeOK'
  BY DEF IInv, TypeOK, Unplugged
<1>2. Turn'
  BY DEF IInv, Turn, FirstOpen, Unplugged
<1>3. ChatterLast'
  <2>1. coming \in [Pies -> Seq(STRING)] /\ tty \in [Pies -> Seq(STRING)] /\ ~ ChatsAtEnd(<< >>)
    BY DEF IInv, TypeOK, ChatsAtEnd
  <2> QED BY <2>1 DEF IInv, ChatterLast, Unplugged
<1>4. Looks
  BY <1>3 DEF Looks, Unplugged
<1> QED BY <1>1, <1>2, <1>4, LooksKeeps DEF IInv

LEMMA SelectStep ==
  ASSUME IInv, Select \/ NoneReady \/ LoopOver
  PROVE  IInv'
<1>1. TypeOK'
  BY DEF IInv, TypeOK, Select, NoneReady, LoopOver, lineVars
<1>2. Turn'
  BY DEF IInv, Turn, Select, NoneReady, LoopOver
<1>3. Looks
  BY DEF Looks, lineVars, Select, NoneReady, LoopOver
<1> QED BY <1>1, <1>2, <1>3, LooksKeeps DEF IInv

\* The search from -1 finds the first pi that is open.
LEMMA PickStep ==
  ASSUME IInv, Pick
  PROVE  IInv'
<1>1. FirstOpen(sel')
  <2>1. open # {} /\ open \subseteq Nat
    BY PiesAssumption DEF IInv, TypeOK, Turn, Pick, Pies
  <2>2. PICK x \in open : \A q \in open : x <= q
    BY <2>1, LeastNumber
  <2> QED BY <2>2 DEF Pick, FirstOpen
<1>2. TypeOK'
  <2>1. sel' \in -1 .. NumPies - 1
    BY <1>1, PiesAssumption DEF IInv, TypeOK, FirstOpen, Pies
  <2> QED BY <2>1 DEF IInv, TypeOK, Pick, lineVars
<1>3. Turn'
  BY <1>1 DEF IInv, Turn, FirstOpen, Pick
<1>4. Looks
  BY DEF Looks, lineVars, Pick
<1> QED BY <1>2, <1>3, <1>4, LooksKeeps DEF IInv

LEMMA PauseStep ==
  ASSUME IInv, ReadNothing \/ MoreToRead \/ Pause
  PROVE  IInv'
<1>1. round \in 0 .. Rounds /\ Rounds \in Nat /\ round < Rounds
  BY RoundsAssumption DEF IInv, TypeOK, Turn, ReadNothing, MoreToRead, Pause
<1>2. TypeOK'
  <2>1. round' \in 0 .. Rounds
    BY <1>1 DEF ReadNothing, MoreToRead, Pause, NextRound
  <2> QED BY <2>1 DEF IInv, TypeOK, ReadNothing, MoreToRead, Pause, NextRound, lineVars
<1>3. Turn'
  BY DEF IInv, Turn, FirstOpen, ReadNothing, MoreToRead, Pause, NextRound
<1>4. Looks
  BY DEF Looks, lineVars, ReadNothing, MoreToRead, Pause, NextRound
<1> QED BY <1>2, <1>3, <1>4, LooksKeeps DEF IInv

\* The turn ends with the pi closed: nothing was shown of those that are left.
LEMMA ReapStep ==
  ASSUME IInv, pc = "read", Reap, NextRound, late' = late, sel' = sel,
         \A p \in Pies : p # sel => shown'[p] = shown[p] /\ (p \in done' <=> p \in done),
         lent \subseteq lent', done' \subseteq Pies
  PROVE  Turn' /\ InOrder' /\ CountIsItsOwn' /\ TurnsCloseOne'
<1>1. TypeOK /\ FirstOpen(sel) /\ sel \in open /\ open' = open \ {sel} /\ open \subseteq Pies /\ open \subseteq Int
  <2>1. TypeOK /\ FirstOpen(sel) /\ open' = open \ {sel}
    BY DEF IInv, Turn, Reap
  <2>2. open \subseteq Pies /\ Pies \subseteq Int
    BY <2>1, PiesAssumption DEF TypeOK, Pies
  <2> QED BY <2>1, <2>2 DEF FirstOpen
<1>2. ASSUME NEW p \in open, p # sel PROVE shown'[p] = << >> /\ p \notin done'
  <2>1. ~ FirstOpen(p)
    BY <1>1, <1>2 DEF FirstOpen
  <2>2. shown[p] = << >> /\ p \notin done
    BY <2>1 DEF IInv, InOrder
  <2> QED BY <1>1, <1>2, <2>2
<1>3. Turn'
  BY DEF Turn, NextRound
<1>4. InOrder'
  <2>1. \A p \in open' : shown'[p] = << >> /\ p \notin done'
    BY <1>1, <1>2
  <2> QED BY <2>1 DEF InOrder
<1>5. CountIsItsOwn'
  BY <1>1, <1>2 DEF CountIsItsOwn
<1>6. TurnsCloseOne'
  <2>1. IsFiniteSet(open) /\ Cardinality(open) \in Nat /\ NumPies \in Nat
    BY <1>1, OpenIsFinite
  <2>2. Cardinality(open \ {sel}) = Cardinality(open) - 1
    BY <1>1, <2>1, FS_RemoveElement
  <2> QED BY <1>1, <2>1, <2>2 DEF IInv, TurnsCloseOne, NextRound
<1> QED BY <1>3, <1>4, <1>5, <1>6

LEMMA ReadErrorStep ==
  ASSUME IInv, ReadError
  PROVE  IInv'
<1>1. TypeOK'
  <2>1. round' \in 0 .. Rounds
    BY RoundsAssumption DEF IInv, TypeOK, Turn, ReadError, NextRound
  <2> QED BY <2>1 DEF IInv, TypeOK, ReadError, NextRound, Reap, lineVars
<1>2. done \subseteq Pies
  BY DEF IInv, TypeOK
<1>3. Turn' /\ InOrder' /\ CountIsItsOwn' /\ TurnsCloseOne'
  BY <1>2, ReapStep DEF ReadError
<1>4. DoneIsItsOwn' /\ ChatterLast'
  BY DEF IInv, DoneIsItsOwn, ChatterLast, ReadError, lineVars
<1> QED BY <1>1, <1>3, <1>4 DEF IInv

LEMMA ReadDataStep ==
  ASSUME IInv, ReadData
  PROVE  IInv'
<1> DEFINE data == tty[sel]
           s == shown[sel]
           t == ShownAfter(s, data)
<1>1. /\ TypeOK /\ pc = "read" /\ data # << >> /\ idx' = IdxAfter(data)
      /\ tty' = [tty EXCEPT ![sel] = << >>]
      /\ shown' = [shown EXCEPT ![sel] = t]
      /\ lent' = (IF s = << >> /\ idx \in 1 .. Len(ExitString) - 1 THEN lent \cup {sel} ELSE lent)
      /\ UNCHANGED <<sel, coming, gone, late>>
      /\ \/ Complete(data) /\ Reap /\ NextRound /\ done' = done \cup {sel}
         \/ ~ Complete(data) /\ pc' = "wait" /\ UNCHANGED <<open, round, done>>
  BY DEF IInv, ReadData
<1>2. /\ FirstOpen(sel) /\ sel \in open /\ sel \in Pies /\ sel \notin done /\ round < Rounds
      /\ s \in Seq(STRING) /\ data \in Seq(STRING) /\ idx \in 0 .. L
  BY <1>1 DEF IInv, TypeOK, Turn, InOrder, FirstOpen, L
<1>3. t \in Seq(STRING) /\ t # << >> /\ (~ ChatsAtEnd(s) => t = s \o data)
  <2> HIDE DEF s, data
  <2>1. Len(s) \in Nat /\ Len(data) \in Nat \ {0}
    BY <1>1, <1>2
  <2>2. s \o data \in Seq(STRING) /\ Len(s \o data) = Len(s) + Len(data)
    BY <1>2, ConcatProperties
  <2>3. s \o data # << >>
    BY <2>1, <2>2
  <2>4. t = IF ChatsAtEnd(s) THEN s ELSE s \o data
    BY DEF ShownAfter
  <2>5. ChatsAtEnd(s) => s # << >>
    BY DEF ChatsAtEnd
  <2> HIDE DEF t
  <2> QED BY <1>2, <2>2, <2>3, <2>4, <2>5
<1>4. /\ shown'[sel] = t
      /\ \A p \in Pies : p # sel => shown'[p] = shown[p] /\ (p \in done' <=> p \in done)
  BY <1>1, <1>2 DEF TypeOK
<1>5. ASSUME sel \notin lent'
      PROVE  IF Complete(data) THEN Within(ExitString, t)
             ELSE /\ ~ Within(ExitString, t)
                  /\ IdxAfter(data) < L /\ Counted(t, Len(t), IdxAfter(data))
  <2>1. sel \notin lent /\ ~ (s = << >> /\ idx \in 1 .. L - 1)
    BY <1>1, <1>5 DEF L
  <2>2. ~ Within(ExitString, s)
    BY <1>2, <2>1 DEF IInv, DoneIsItsOwn
  <2>3. \/ s = << >> /\ idx \in {0, L}
        \/ s # << >> /\ idx < L /\ Counted(s, Len(s), idx)
    BY <1>2, <2>1, ExitIs DEF IInv, CountIsItsOwn, L
  <2>4. CASE ChatsAtEnd(s)
    <3>1. data = <<Chatter>> /\ t = s
      BY <1>1, <1>2, <2>4 DEF IInv, ChatterLast, ShownAfter
    <3>2. /\ ~ Complete(<<Chatter>>)
          /\ IdxAfter(<<Chatter>>) < L /\ Counted(s, Len(s), IdxAfter(<<Chatter>>))
      BY <1>2, <2>4, ChatterMeetsNothing
    <3> HIDE DEF s, data, t
    <3> QED BY <2>2, <3>1, <3>2
  <2>5. CASE ~ ChatsAtEnd(s)
    <3>1. t = s \o data
      BY <1>3, <2>5
    <3> HIDE DEF s, data, t
    <3> QED BY <1>1, <1>2, <2>2, <2>3, <3>1, ReadCounts
  <2> QED BY <2>4, <2>5
<1>6. TypeOK'
  <2>1. idx' \in 0 .. Len(ExitString)
    <3>1. Len(data) \in 0 .. Len(data)
      BY <1>2
    <3>2. Matches(data)[Len(data)] \in 0 .. L /\ L \in 0 .. L
      BY <1>2, <3>1, MatchesType, ExitIs
    <3> QED BY <1>1, <3>2 DEF IdxAfter, L
  <2>2. tty' \in [Pies -> Seq(STRING)] /\ shown' \in [Pies -> Seq(STRING)]
    <3>1. << >> \in Seq(STRING)
      OBVIOUS
    <3> QED BY <1>1, <1>3, <3>1 DEF TypeOK
  <2>3. lent' \subseteq Pies /\ done' \subseteq Pies /\ open' \subseteq Pies
    BY <1>1, <1>2 DEF TypeOK, Reap
  <2>4. round' \in 0 .. Rounds /\ pc' \in {"select", "wait"}
    BY <1>1, <1>2, RoundsAssumption DEF TypeOK, NextRound
  <2> QED BY <1>1, <2>1, <2>2, <2>3, <2>4 DEF TypeOK
<1>7. Turn' /\ InOrder' /\ CountIsItsOwn' /\ TurnsCloseOne'
  <2>1. CASE Complete(data)
    <3>1. lent \subseteq lent' /\ done' \subseteq Pies
      BY <1>1, <1>6 DEF TypeOK
    <3> QED BY <1>1, <1>4, <2>1, <3>1, ReapStep
  <2>2. CASE ~ Complete(data)
    <3>1. pc' = "wait" /\ UNCHANGED <<open, round, done, sel, late>>
      BY <1>1, <2>2
    <3>2. open \subseteq Pies /\ \A p \in open : p # sel => shown[p] = << >>
      <4>1. open \subseteq Int
        BY <1>1, PiesAssumption DEF TypeOK, Pies
      <4> QED BY <1>1, <1>2, <4>1 DEF IInv, InOrder, FirstOpen, TypeOK
    <3>3. Turn'
      BY <1>2, <3>1 DEF Turn, FirstOpen
    <3>4. InOrder'
      BY <1>2, <1>4, <3>1, <3>2 DEF IInv, InOrder, FirstOpen
    <3>5. CountIsItsOwn'
      BY <1>1, <1>4, <1>5, <2>2, <3>1, <3>2 DEF CountIsItsOwn, L
    <3>6. TurnsCloseOne'
      BY <3>1 DEF IInv, TurnsCloseOne
    <3> QED BY <3>3, <3>4, <3>5, <3>6
  <2> QED BY <2>1, <2>2
<1>8. DoneIsItsOwn'
  <2>1. ASSUME NEW p \in Pies \ lent' PROVE p \in done' <=> Within(ExitString, shown'[p])
    <3>1. CASE p = sel
      BY <1>1, <1>2, <1>4, <1>5, <2>1, <3>1
    <3>2. CASE p # sel
      BY <1>1, <1>4, <2>1, <3>2 DEF IInv, DoneIsItsOwn
    <3> QED BY <3>1, <3>2
  <2> QED BY <2>1 DEF DoneIsItsOwn
<1>9. ChatterLast'
  <2>1. ChatsAtEnd(t) => ChatsAtEnd(s) \/ ChatsAtEnd(data)
    <3>1. CASE ~ ChatsAtEnd(s)
      <4>1. t = s \o data
        BY <1>3, <3>1
      <4> HIDE DEF s, data, t
      <4>2. Len(data) \in Nat \ {0} /\ Len(s) \in Nat
        BY <1>1, <1>2
      <4>3. /\ Len(s \o data) = Len(s) + Len(data)
            /\ \A i \in 1 .. Len(s) + Len(data) :
                  (s \o data)[i] = IF i <= Len(s) THEN s[i] ELSE data[i - Len(s)]
        BY <1>2, ConcatProperties
      <4>4. (s \o data)[Len(s) + Len(data)] = data[Len(data)]
        <5>1. /\ Len(s) + Len(data) \in 1 .. Len(s) + Len(data)
              /\ ~ (Len(s) + Len(data) <= Len(s)) /\ (Len(s) + Len(data)) - Len(s) = Len(data)
          BY <4>2
        <5> QED BY <4>3, <5>1
      <4> QED BY <1>1, <4>1, <4>3, <4>4 DEF ChatsAtEnd
    <3> QED BY <3>1
  <2>2. /\ tty'[sel] = << >> /\ ~ ChatsAtEnd(<< >>) /\ coming' = coming
        /\ \A p \in Pies : p # sel => tty'[p] = tty[p]
    BY <1>1, <1>2 DEF TypeOK, ChatsAtEnd
  <2> HIDE DEF t
  <2> QED BY <1>2, <1>4, <2>1, <2>2 DEF IInv, ChatterLast
<1> QED BY <1>6, <1>7, <1>8, <1>9 DEF IInv

LEMMA NextKeepsInv == IInv /\ [Next]_vars => IInv'
<1> SUFFICES ASSUME IInv, [Next]_vars PROVE IInv'
  OBVIOUS
<1>1. CASE Select \/ NoneReady \/ LoopOver
  BY <1>1, SelectStep
<1>2. CASE Pick
  BY <1>2, PickStep
<1>3. CASE ReadError
  BY <1>3, ReadErrorStep
<1>4. CASE ReadData
  BY <1>4, ReadDataStep
<1>5. CASE ReadNothing \/ MoreToRead \/ Pause
  BY <1>5, PauseStep
<1>6. ASSUME NEW p \in Pies, Prints(p) PROVE IInv'
  BY <1>6, PrintsStep
<1>7. ASSUME NEW p \in Pies, Unplugged(p) PROVE IInv'
  BY <1>7, UnpluggedStep
<1>8. CASE UNCHANGED vars
  <2>1. TypeOK' /\ Turn' /\ Looks
    BY <1>8 DEF vars, lineVars, IInv, TypeOK, Turn, FirstOpen, Looks
  <2> QED BY <2>1, LooksKeeps DEF IInv
<1> QED BY <1>1, <1>2, <1>3, <1>4, <1>5, <1>6, <1>7, <1>8 DEF Next, MacWorks

----------------------------------------------------------------------------
(***************************************************************************)
(* The theorems.                                                            *)
(***************************************************************************)
\* The inductive invariant of get_pi_output: whose turn it is, whose count the idx
\* of pi_done_scan holds, and how many turns were used.
THEOREM Invariance == Spec => []IInv
<1> QED BY InitIsOk, NextKeepsInv, PTL DEF Spec

\* The variables of get_pi_output have their types, and idx never leaves the
\* exit string.
THEOREM TypeCorrect == Spec => []TypeOK
<1>1. IInv => TypeOK
  BY DEF IInv
<1> QED BY <1>1, Invariance, PTL

\* pi_done_scan closes a pi as done if and only if it has printed the exit string,
\* for anything that it prints and however that is cut into reads.
THEOREM DoneIsItsOwnHolds == Spec => []DoneIsItsOwn
<1>1. IInv => DoneIsItsOwn
  BY DEF IInv
<1> QED BY <1>1, Invariance, PTL

\* The turns of the outer loop are enough for as many pies, unless one of them is
\* cut short by a wait that brings nothing.
THEOREM NoneLeftOpenHolds == Spec => []NoneLeftOpen
<1>1. IInv => NoneLeftOpen
  <2> SUFFICES ASSUME IInv, pc = "end", ~ late, NumPies <= Rounds PROVE open = {}
    BY DEF NoneLeftOpen
  <2>1. IsFiniteSet(open) /\ Cardinality(open) \in Nat /\ NumPies \in Nat
    BY OpenIsFinite DEF IInv
  <2>2. round = NumPies - Cardinality(open) /\ round \in Nat
    BY RoundsAssumption DEF IInv, TurnsCloseOne, TypeOK
  <2>3. round >= Rounds => Cardinality(open) = 0
    BY <2>1, <2>2, RoundsAssumption
  <2> QED BY <2>1, <2>3, FS_EmptySet DEF IInv, Turn
<1> QED BY <1>1, Invariance, PTL
=============================================================================
