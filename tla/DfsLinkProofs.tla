---------------------------- MODULE DfsLinkProofs ----------------------------
(***************************************************************************)
(* Proofs about DfsLink, for any set of names, any counter to start from,   *)
(* any id on the SD card and any MAX_DFS_NAME_LEN of at least one word.     *)
(***************************************************************************)
EXTENDS DfsLink, SequenceTheorems, TLAPS

----------------------------------------------------------------------------
(***************************************************************************)
(* Sequences of bytes.                                                      *)
(***************************************************************************)
\* Words that agree byte by byte are the same.
LEMMA SameSeq ==
  ASSUME NEW s \in Seq(Byte), NEW t \in Seq(Byte), Len(s) = Len(t),
         \A i \in 1 .. Len(s) : s[i] = t[i]
  PROVE  s = t
BY SeqEqual

\* Parts of a sequence of bytes.
LEMMA Part ==
  ASSUME NEW s \in Seq(Byte), NEW m \in 1 .. Len(s) + 1, NEW n \in m - 1 .. Len(s)
  PROVE  /\ SubSeq(s, m, n) \in Seq(Byte)
         /\ Len(SubSeq(s, m, n)) = n - m + 1
         /\ \A i \in 1 .. n - m + 1 : SubSeq(s, m, n)[i] = s[m + i - 1]
<1>1. Len(s) \in Nat
  BY LenProperties
<1>2. \A i \in m .. n : s[i] \in Byte
  BY ElementOfSeq, <1>1
<1>3. m \in Int /\ n \in Int
  BY <1>1
<1> DEFINE r == SubSeq(s, m, n)
<1>4. /\ r \in Seq(Byte)
      /\ Len(r) = IF m <= n THEN n - m + 1 ELSE 0
      /\ \A i \in 1 .. n - m + 1 : r[i] = s[m + i - 1]
  BY <1>2, <1>3, SubSeqProperties
<1> HIDE DEF r
<1>5. Len(r) = n - m + 1
  BY <1>1, <1>4
<1> QED BY <1>4, <1>5 DEF r

LEMMA Rest ==
  ASSUME NEW s \in Seq(Byte), s # << >>
  PROVE  /\ Len(s) \in Nat \ {0} /\ Head(s) = s[1] /\ Head(s) \in Byte
         /\ Tail(s) \in Seq(Byte) /\ Len(Tail(s)) = Len(s) - 1
         /\ \A i \in 1 .. Len(s) - 1 : Tail(s)[i] = s[i + 1]
<1>1. Len(s) \in Nat \ {0}
  BY EmptySeq
<1>2. /\ Head(s) \in Byte /\ Tail(s) \in Seq(Byte) /\ Len(Tail(s)) = Len(s) - 1
      /\ \A i \in 1 .. Len(Tail(s)) : Tail(s)[i] = s[i + 1]
  BY HeadTailProperties
<1>3. Head(s) = s[1]
  OBVIOUS
<1> QED BY <1>1, <1>2, <1>3

LEMMA Joined ==
  ASSUME NEW s \in Seq(Byte), NEW t \in Seq(Byte)
  PROVE  /\ s \o t \in Seq(Byte) /\ Len(s) \in Nat /\ Len(t) \in Nat
         /\ Len(s \o t) = Len(s) + Len(t)
         /\ \A i \in 1 .. Len(s) : (s \o t)[i] = s[i]
         /\ \A i \in 1 .. Len(t) : (s \o t)[Len(s) + i] = t[i]
<1>1. /\ s \o t \in Seq(Byte) /\ Len(s \o t) = Len(s) + Len(t)
      /\ \A i \in 1 .. Len(s) + Len(t) : (s \o t)[i] = IF i <= Len(s) THEN s[i] ELSE t[i - Len(s)]
  BY ConcatProperties
<1>2. Len(s) \in Nat /\ Len(t) \in Nat
  BY LenProperties
<1> DEFINE r == s \o t
<1> HIDE DEF r
<1>3. \A i \in 1 .. Len(s) + Len(t) : r[i] = IF i <= Len(s) THEN s[i] ELSE t[i - Len(s)]
  BY <1>1 DEF r
<1>4. ASSUME NEW i \in 1 .. Len(t) PROVE r[Len(s) + i] = t[i]
  <2>1. Len(s) + i \in 1 .. Len(s) + Len(t) /\ ~(Len(s) + i <= Len(s)) /\ Len(s) + i - Len(s) = i
    BY <1>2
  <2> QED BY <1>3, <2>1
<1>5. \A i \in 1 .. Len(s) : r[i] = s[i]
  BY <1>2, <1>3
<1> QED BY <1>1, <1>2, <1>4, <1>5 DEF r

\* The constants of the dialogue.
LEMMA Constants4 ==
  /\ FS_ID_START \in Seq(Byte) /\ Len(FS_ID_START) = 4
  /\ CONFIG_INIT \in Seq(Byte) /\ Len(CONFIG_INIT) = 4
  /\ REQUEST_ID \in Seq(Byte) /\ Len(REQUEST_ID) = 4
  /\ DUMMY \in Seq(Byte) /\ Len(DUMMY) = 4
  /\ DUMMY2 \in Seq(Byte) /\ Len(DUMMY2) = 4
  /\ GET_PROG_INFO \in Seq(Byte) /\ Len(GET_PROG_INFO) = 4
  /\ AllOnes \in Seq(Byte) /\ Len(AllOnes) = 4
  /\ <<0, 0, 0, 0>> \in Seq(Byte) /\ Len(<<0, 0, 0, 0>>) = 4
  /\ DUMMY # DUMMY2
BY DEF FS_ID_START, CONFIG_INIT, REQUEST_ID, DUMMY, DUMMY2, GET_PROG_INFO, AllOnes, Byte

\* What a reader of the mac finds behind the word it takes.
LEMMA TakeWord ==
  ASSUME NEW t \in Seq(Byte), NEW o \in Seq(Byte), Len(t) >= 4
  PROVE  /\ SubSeq(t, 1, 4) \in Seq(Byte) /\ Len(SubSeq(t, 1, 4)) = 4
         /\ \A i \in 1 .. 4 : SubSeq(t, 1, 4)[i] = (t \o o)[i]
         /\ SubSeq(t, 5, Len(t)) \in Seq(Byte)
         /\ SubSeq(t, 5, Len(t)) \o o = Later(t \o o, 4)
         /\ Len(t \o o) >= 4
<1> DEFINE w == SubSeq(t, 1, 4)
           r == SubSeq(t, 5, Len(t))
           q == t \o o
           l == Later(t \o o, 4)
<1>1. /\ q \in Seq(Byte) /\ Len(q) = Len(t) + Len(o) /\ Len(t) \in Nat /\ Len(o) \in Nat
      /\ \A i \in 1 .. Len(t) : q[i] = t[i]
      /\ \A i \in 1 .. Len(o) : q[Len(t) + i] = o[i]
  BY Joined
<1>2. w \in Seq(Byte) /\ Len(w) = 4 /\ \A i \in 1 .. 4 : w[i] = t[i]
  <2>1. 1 \in 1 .. Len(t) + 1 /\ 4 \in 1 - 1 .. Len(t) /\ 4 - 1 + 1 = 4
    BY <1>1
  <2>2. \A i \in 1 .. 4 : 1 + i - 1 = i
    OBVIOUS
  <2> QED BY <2>1, <2>2, Part
<1>3. r \in Seq(Byte) /\ Len(r) = Len(t) - 4 /\ \A i \in 1 .. Len(t) - 4 : r[i] = t[i + 4]
  <2>1. 5 \in 1 .. Len(t) + 1 /\ Len(t) \in 5 - 1 .. Len(t) /\ Len(t) - 5 + 1 = Len(t) - 4
    BY <1>1
  <2>2. \A i \in 1 .. Len(t) - 4 : 5 + i - 1 = i + 4
    BY <1>1
  <2> QED BY <2>1, <2>2, Part
<1>4. l \in Seq(Byte) /\ Len(l) = Len(q) - 4 /\ \A i \in 1 .. Len(q) - 4 : l[i] = q[i + 4]
  <2>1. l = SubSeq(q, 5, Len(q))
    BY DEF Later
  <2> HIDE DEF l, q
  <2>2. 5 \in 1 .. Len(q) + 1 /\ Len(q) \in 5 - 1 .. Len(q) /\ Len(q) - 5 + 1 = Len(q) - 4
    BY <1>1
  <2>3. \A i \in 1 .. Len(q) - 4 : 5 + i - 1 = i + 4
    BY <1>1
  <2> QED BY <1>1, <2>1, <2>2, <2>3, Part
<1>5. r \o o = l
  <2> HIDE DEF r, q, l
  <2>1. /\ r \o o \in Seq(Byte) /\ Len(r \o o) = Len(r) + Len(o)
        /\ \A i \in 1 .. Len(r) : (r \o o)[i] = r[i]
        /\ \A i \in 1 .. Len(o) : (r \o o)[Len(r) + i] = o[i]
    BY <1>1, <1>3, Joined
  <2>2. ASSUME NEW i \in 1 .. Len(r \o o) PROVE (r \o o)[i] = l[i]
    <3>1. CASE i <= Len(r)
      <4>1. i \in 1 .. Len(r) /\ i \in 1 .. Len(t) - 4 /\ i \in 1 .. Len(q) - 4 /\ i + 4 \in 1 .. Len(t)
        BY <3>1, <1>1, <1>3, <2>1
      <4> QED BY <4>1, <2>1, <1>1, <1>3, <1>4
    <3>2. CASE i > Len(r)
      <4> DEFINE j == i - Len(r)
      <4>1. j \in 1 .. Len(o) /\ i = Len(r) + j /\ i \in 1 .. Len(q) - 4 /\ i + 4 = Len(t) + j
        BY <3>2, <1>1, <1>3, <2>1
      <4> HIDE DEF j
      <4>2. (r \o o)[i] = o[j]
        BY <4>1, <2>1
      <4>3. l[i] = o[j]
        BY <4>1, <1>1, <1>4
      <4> QED BY <4>2, <4>3
    <3> QED BY <3>1, <3>2, <1>1, <1>3, <2>1
  <2>3. Len(r \o o) = Len(l)
    BY <2>1, <1>1, <1>3, <1>4
  <2> QED BY <1>4, <2>1, <2>2, <2>3, SameSeq
<1>6. \A i \in 1 .. 4 : w[i] = q[i]
  <2> HIDE DEF w, q
  <2> QED BY <1>1, <1>2
<1> QED BY <1>1, <1>2, <1>3, <1>5, <1>6

\* A byte that leaves the pi stays part of what the pi said.
LEMMA MoveByte ==
  ASSUME NEW t \in Seq(Byte), NEW o \in Seq(Byte), o # << >>
  PROVE  /\ Append(t, Head(o)) \in Seq(Byte) /\ Tail(o) \in Seq(Byte)
         /\ Append(t, Head(o)) \o Tail(o) = t \o o
<1> DEFINE a == Append(t, Head(o))
           b == Tail(o)
           q == t \o o
           p == a \o b
<1>1. /\ Len(o) \in Nat \ {0} /\ Head(o) = o[1] /\ Head(o) \in Byte
      /\ b \in Seq(Byte) /\ Len(b) = Len(o) - 1
      /\ \A i \in 1 .. Len(o) - 1 : b[i] = o[i + 1]
  BY Rest
<1>2. Len(t) \in Nat
  BY LenProperties
<1>3. /\ a \in Seq(Byte) /\ Len(a) = Len(t) + 1
      /\ \A i \in 1 .. Len(t) : a[i] = t[i]
      /\ a[Len(t) + 1] = o[1]
  BY <1>1, AppendProperties
<1>4. /\ q \in Seq(Byte) /\ Len(q) = Len(t) + Len(o)
      /\ \A i \in 1 .. Len(t) : q[i] = t[i]
      /\ \A i \in 1 .. Len(o) : q[Len(t) + i] = o[i]
  BY Joined
<1>5. /\ p \in Seq(Byte) /\ Len(p) = Len(a) + Len(b)
      /\ \A i \in 1 .. Len(a) : p[i] = a[i]
      /\ \A i \in 1 .. Len(b) : p[Len(a) + i] = b[i]
  <2> HIDE DEF a, b
  <2> QED BY <1>1, <1>3, Joined
<1> HIDE DEF a, b, q, p
<1>6. ASSUME NEW i \in 1 .. Len(p) PROVE p[i] = q[i]
  <2>1. CASE i <= Len(t)
    <3>1. i \in 1 .. Len(t) /\ i \in 1 .. Len(a)
      BY <2>1, <1>2, <1>3
    <3> QED BY <3>1, <1>3, <1>4, <1>5
  <2>2. CASE i = Len(t) + 1
    <3>1. i \in 1 .. Len(a) /\ 1 \in 1 .. Len(o)
      BY <2>2, <1>1, <1>2, <1>3
    <3>2. p[i] = o[1]
      BY <2>2, <3>1, <1>3, <1>5
    <3> QED BY <2>2, <3>1, <3>2, <1>4
  <2>3. CASE i > Len(t) + 1
    <3> DEFINE j == i - Len(a)
    <3>1. j \in 1 .. Len(b) /\ j \in 1 .. Len(o) - 1 /\ i = Len(a) + j /\ j + 1 \in 1 .. Len(o) /\ i = Len(t) + (j + 1)
      BY <2>3, <1>1, <1>2, <1>3, <1>5
    <3> HIDE DEF j
    <3>2. p[i] = o[j + 1]
      BY <3>1, <1>1, <1>5
    <3>3. q[i] = o[j + 1]
      BY <3>1, <1>4
    <3> QED BY <3>2, <3>3
  <2> QED BY <2>1, <2>2, <2>3, <1>1, <1>2, <1>3, <1>5
<1>7. Len(p) = Len(q)
  BY <1>1, <1>2, <1>3, <1>4, <1>5
<1>8. p = q
  BY <1>4, <1>5, <1>6, <1>7, SameSeq
<1> QED BY <1>1, <1>3, <1>8 DEF a, b, p, q

\* A pi that shifts the bytes of w into op.
ShiftOf(before, w, k, o, t) ==
    o = SubSeq(before \o w, k + 1, k + 4) /\ t = SubSeq(w, k + 1, 4)

LEMMA ShiftByte ==
  ASSUME NEW before \in Seq(Byte), NEW w \in Seq(Byte), Len(before) = 4, Len(w) = 4,
         NEW k \in 0 .. 3, NEW o, NEW t, ShiftOf(before, w, k, o, t)
  PROVE  /\ o \in Seq(Byte) /\ Len(o) = 4 /\ t \in Seq(Byte) /\ Len(t) = 4 - k /\ t # << >>
         /\ ShiftOf(before, w, k + 1, Append(Tail(o), Head(t)), Tail(t))
<1> DEFINE b == before \o w
           p == SubSeq(b, k + 2, k + 5)
           a == Append(Tail(o), Head(t))
           v == SubSeq(w, k + 2, 4)
<1>1. /\ b \in Seq(Byte) /\ Len(b) = 8
      /\ \A i \in 1 .. 4 : b[4 + i] = w[i]
  <2>1. /\ b \in Seq(Byte) /\ Len(b) = Len(before) + Len(w)
        /\ \A i \in 1 .. Len(w) : b[Len(before) + i] = w[i]
    BY Joined
  <2> HIDE DEF b
  <2> QED BY <2>1
<1>2. /\ o \in Seq(Byte) /\ Len(o) = 4 /\ \A i \in 1 .. 4 : o[i] = b[k + i]
  <2>1. o = SubSeq(b, k + 1, k + 4)
    BY DEF ShiftOf
  <2> HIDE DEF b
  <2> DEFINE m == k + 1
             n == k + 4
  <2>2. /\ m \in 1 .. Len(b) + 1 /\ n \in m - 1 .. Len(b) /\ n - m + 1 = 4
        /\ \A i \in 1 .. 4 : m + i - 1 = k + i
    BY <1>1
  <2> HIDE DEF m, n
  <2>3. /\ SubSeq(b, m, n) \in Seq(Byte) /\ Len(SubSeq(b, m, n)) = n - m + 1
        /\ \A i \in 1 .. n - m + 1 : SubSeq(b, m, n)[i] = b[m + i - 1]
    BY <1>1, <2>2, Part
  <2>4. /\ SubSeq(b, m, n) \in Seq(Byte) /\ Len(SubSeq(b, m, n)) = 4
        /\ \A i \in 1 .. 4 : SubSeq(b, m, n)[i] = b[k + i]
    BY <2>2, <2>3
  <2> QED BY <2>1, <2>4 DEF m, n
<1>3. /\ t \in Seq(Byte) /\ Len(t) = 4 - k /\ \A i \in 1 .. 4 - k : t[i] = w[k + i]
  <2>1. t = SubSeq(w, k + 1, 4)
    BY DEF ShiftOf
  <2> DEFINE m == k + 1
             n == 4
  <2>2. /\ m \in 1 .. Len(w) + 1 /\ n \in m - 1 .. Len(w) /\ n - m + 1 = 4 - k
        /\ \A i \in 1 .. 4 - k : m + i - 1 = k + i
    OBVIOUS
  <2> HIDE DEF m, n
  <2>3. /\ SubSeq(w, m, n) \in Seq(Byte) /\ Len(SubSeq(w, m, n)) = n - m + 1
        /\ \A i \in 1 .. n - m + 1 : SubSeq(w, m, n)[i] = w[m + i - 1]
    BY <1>1, <2>2, Part
  <2>4. /\ SubSeq(w, m, n) \in Seq(Byte) /\ Len(SubSeq(w, m, n)) = 4 - k
        /\ \A i \in 1 .. 4 - k : SubSeq(w, m, n)[i] = w[k + i]
    BY <2>2, <2>3
  <2> QED BY <2>1, <2>4 DEF m, n
<1>4. /\ p \in Seq(Byte) /\ Len(p) = 4 /\ \A i \in 1 .. 4 : p[i] = b[k + 1 + i]
  <2> HIDE DEF b
  <2> DEFINE m == k + 2
             n == k + 5
  <2>2. /\ m \in 1 .. Len(b) + 1 /\ n \in m - 1 .. Len(b) /\ n - m + 1 = 4
        /\ \A i \in 1 .. 4 : m + i - 1 = k + 1 + i
    BY <1>1
  <2> HIDE DEF m, n
  <2>3. /\ SubSeq(b, m, n) \in Seq(Byte) /\ Len(SubSeq(b, m, n)) = n - m + 1
        /\ \A i \in 1 .. n - m + 1 : SubSeq(b, m, n)[i] = b[m + i - 1]
    BY <1>1, <2>2, Part
  <2>4. /\ SubSeq(b, m, n) \in Seq(Byte) /\ Len(SubSeq(b, m, n)) = 4
        /\ \A i \in 1 .. 4 : SubSeq(b, m, n)[i] = b[k + 1 + i]
    BY <2>2, <2>3
  <2> QED BY <2>4 DEF m, n
<1>5. /\ v \in Seq(Byte) /\ Len(v) = 3 - k /\ \A i \in 1 .. 3 - k : v[i] = w[k + 1 + i]
  <2> DEFINE m == k + 2
             n == 4
  <2>2. /\ m \in 1 .. Len(w) + 1 /\ n \in m - 1 .. Len(w) /\ n - m + 1 = 3 - k
        /\ \A i \in 1 .. 3 - k : m + i - 1 = k + 1 + i
    OBVIOUS
  <2> HIDE DEF m, n
  <2>3. /\ SubSeq(w, m, n) \in Seq(Byte) /\ Len(SubSeq(w, m, n)) = n - m + 1
        /\ \A i \in 1 .. n - m + 1 : SubSeq(w, m, n)[i] = w[m + i - 1]
    BY <1>1, <2>2, Part
  <2>4. /\ SubSeq(w, m, n) \in Seq(Byte) /\ Len(SubSeq(w, m, n)) = 3 - k
        /\ \A i \in 1 .. 3 - k : SubSeq(w, m, n)[i] = w[k + 1 + i]
    BY <2>2, <2>3
  <2> QED BY <2>4 DEF m, n
<1>6. t # << >> /\ o # << >>
  BY <1>2, <1>3
<1>7. /\ Head(t) = w[k + 1] /\ Head(t) \in Byte
      /\ Tail(t) \in Seq(Byte) /\ Len(Tail(t)) = 3 - k
      /\ \A i \in 1 .. 3 - k : Tail(t)[i] = w[k + 1 + i]
  <2>1. /\ Head(t) = t[1] /\ Head(t) \in Byte /\ Tail(t) \in Seq(Byte) /\ Len(Tail(t)) = Len(t) - 1
        /\ \A i \in 1 .. Len(t) - 1 : Tail(t)[i] = t[i + 1]
    BY <1>3, <1>6, Rest
  <2>2. 1 \in 1 .. 4 - k /\ \A i \in 1 .. 3 - k : i \in 1 .. Len(t) - 1 /\ i + 1 \in 1 .. 4 - k /\ k + (i + 1) = k + 1 + i
    BY <1>3
  <2>3. Len(t) - 1 = 3 - k
    BY <1>3
  <2> QED BY <1>3, <2>1, <2>2, <2>3
<1>8. Tail(o) \in Seq(Byte) /\ Len(Tail(o)) = 3 /\ \A i \in 1 .. 3 : Tail(o)[i] = b[k + 1 + i]
  <2>1. /\ Tail(o) \in Seq(Byte) /\ Len(Tail(o)) = Len(o) - 1
        /\ \A i \in 1 .. Len(o) - 1 : Tail(o)[i] = o[i + 1]
    BY <1>2, <1>6, Rest
  <2>2. \A i \in 1 .. 3 : i \in 1 .. Len(o) - 1 /\ i + 1 \in 1 .. 4 /\ k + (i + 1) = k + 1 + i
    BY <1>2
  <2>3. Len(o) - 1 = 3
    BY <1>2
  <2> HIDE DEF b
  <2> QED BY <1>2, <2>1, <2>2, <2>3
<1>9. Tail(t) = v
  <2> HIDE DEF v
  <2>1. Len(Tail(t)) = Len(v) /\ \A i \in 1 .. Len(v) : Tail(t)[i] = v[i]
    BY <1>5, <1>7
  <2> QED BY <1>5, <1>7, <2>1, SameSeq
<1>10. /\ a \in Seq(Byte) /\ Len(a) = 4 /\ \A i \in 1 .. 3 : a[i] = Tail(o)[i]
       /\ a[4] = Head(t)
  <2> DEFINE r == Tail(o)
             e == Head(t)
  <2>1. r \in Seq(Byte) /\ e \in Byte
    BY <1>7, <1>8
  <2>4. Len(r) = 3
    BY <1>8
  <2> HIDE DEF r, e
  <2>2. /\ Append(r, e) \in Seq(Byte) /\ Len(Append(r, e)) = Len(r) + 1
        /\ \A i \in 1 .. Len(r) : Append(r, e)[i] = r[i]
        /\ Append(r, e)[Len(r) + 1] = e
    BY <2>1, AppendProperties
  <2>3. Len(r) + 1 = 4
    BY <2>4
  <2> QED BY <2>2, <2>3, <2>4 DEF r, e
<1>11. p[4] = Head(t)
  <2>1. k + 1 \in 1 .. 4 /\ k + 1 + 4 = 4 + (k + 1)
    OBVIOUS
  <2> HIDE DEF p, b
  <2> QED BY <1>1, <1>4, <1>7, <2>1
<1>12. a = p
  <2> HIDE DEF a, p, b
  <2>1. ASSUME NEW i \in 1 .. 4 PROVE a[i] = p[i]
    <3>1. CASE i = 4
      BY <3>1, <1>10, <1>11
    <3>2. CASE i # 4
      <4>1. i \in 1 .. 3
        BY <3>2
      <4> QED BY <4>1, <1>4, <1>8, <1>10
    <3> QED BY <3>1, <3>2
  <2> QED BY <1>4, <1>10, <2>1, SameSeq
<1>13. k + 1 + 1 = k + 2 /\ k + 1 + 4 = k + 5
  OBVIOUS
<1>14. ShiftOf(before, w, k + 1, a, Tail(t))
  <2> HIDE DEF a
  <2> QED BY <1>9, <1>12, <1>13 DEF ShiftOf
<1> QED BY <1>2, <1>3, <1>6, <1>14

----------------------------------------------------------------------------
(***************************************************************************)
(* The words of a name.                                                     *)
(***************************************************************************)
LEMMA NameIs ==
  ASSUME NEW n \in Names
  PROVE  /\ n \in Seq(Byte) /\ Len(n) \in Nat \ {0}
         /\ \A i \in 1 .. Len(n) : n[i] \in Byte /\ n[i] # 0 /\ n[i] # 255
<1>1. n \in Seq(Byte) /\ n # << >> /\ \A i \in DOMAIN n : n[i] \notin {0, 255}
  BY NamesAssumption
<1>2. Len(n) \in Nat \ {0} /\ DOMAIN n = 1 .. Len(n)
  BY <1>1, LenProperties, EmptySeq
<1>3. \A i \in 1 .. Len(n) : n[i] \in Byte
  BY <1>1, ElementOfSeq
<1> QED BY <1>1, <1>2, <1>3

LEMMA WordsIs ==
  ASSUME NEW n \in Names
  PROVE  /\ WordsInName(n) \in Nat \ {0}
         /\ 4 * WordsInName(n) <= Len(n) + 5 /\ Len(n) + 5 <= 4 * WordsInName(n) + 3
<1>1. Len(n) \in Nat \ {0}
  BY NameIs
<1> QED BY <1>1 DEF WordsInName

\* The name, four 0xff, and 0.
LEMMA ToSendIs ==
  ASSUME NEW n \in Names
  PROVE  /\ ToSend(n) \in Seq(Byte) /\ Len(ToSend(n)) = Len(n) + 5
         /\ \A i \in 1 .. Len(n) : ToSend(n)[i] = n[i]
         /\ \A i \in Len(n) + 1 .. Len(n) + 4 : ToSend(n)[i] = 255
         /\ ToSend(n)[Len(n) + 5] = 0
<1>1. n \in Seq(Byte) /\ Len(n) \in Nat
  BY NameIs
<1> DEFINE a == n \o AllOnes
           z == <<0>>
<1>2. /\ a \in Seq(Byte) /\ Len(a) = Len(n) + 4
      /\ \A i \in 1 .. Len(n) : a[i] = n[i]
      /\ \A i \in 1 .. 4 : a[Len(n) + i] = AllOnes[i]
  <2>1. /\ a \in Seq(Byte) /\ Len(a) = Len(n) + Len(AllOnes)
        /\ \A i \in 1 .. Len(n) : a[i] = n[i]
        /\ \A i \in 1 .. Len(AllOnes) : a[Len(n) + i] = AllOnes[i]
    BY <1>1, Constants4, Joined
  <2> HIDE DEF a
  <2> QED BY <2>1, Constants4
<1>3. z \in Seq(Byte) /\ Len(z) = 1 /\ z[1] = 0
  BY DEF Byte
<1> HIDE DEF a, z
<1>4. /\ a \o z \in Seq(Byte) /\ Len(a \o z) = Len(a) + Len(z)
      /\ \A i \in 1 .. Len(a) : (a \o z)[i] = a[i]
      /\ \A i \in 1 .. Len(z) : (a \o z)[Len(a) + i] = z[i]
  BY <1>2, <1>3, Joined
<1>5. ToSend(n) = a \o z
  BY DEF ToSend, a, z
<1>6. \A i \in 1 .. 4 : AllOnes[i] = 255
  BY DEF AllOnes
<1>7. ASSUME NEW i \in Len(n) + 1 .. Len(n) + 4 PROVE (a \o z)[i] = 255
  <2> DEFINE j == i - Len(n)
  <2>1. j \in 1 .. 4 /\ i = Len(n) + j /\ i \in 1 .. Len(a)
    BY <1>1, <1>2
  <2> HIDE DEF j
  <2> QED BY <2>1, <1>2, <1>4, <1>6
<1>8. ASSUME NEW i \in 1 .. Len(n) PROVE (a \o z)[i] = n[i]
  <2>1. i \in 1 .. Len(a)
    BY <1>1, <1>2
  <2> QED BY <2>1, <1>2, <1>4
<1>9. Len(a \o z) = Len(n) + 5
  BY <1>1, <1>2, <1>3, <1>4
<1>10. (a \o z)[Len(n) + 5] = 0
  <2>1. Len(a) + 1 = Len(n) + 5 /\ 1 \in 1 .. Len(z)
    BY <1>1, <1>2, <1>3
  <2>2. (a \o z)[Len(a) + 1] = 0
    BY <2>1, <1>3, <1>4
  <2> QED BY <2>1, <2>2
<1> QED BY <1>4, <1>5, <1>7, <1>8, <1>9, <1>10

\* The i-th word of a name.  Its third byte is never 0, so that it is none of the
\* words that stand for something; it is all ones only if it is the last one and
\* the four 0xff fall into it.
LEMMA NameWordIs ==
  ASSUME NEW n \in Names, NEW i \in 1 .. WordsInName(n)
  PROVE  /\ NameWord(n, i) \in Seq(Byte) /\ Len(NameWord(n, i)) = 4
         /\ \A j \in 1 .. 4 : NameWord(n, i)[j] = ToSend(n)[4 * i - 4 + j]
         /\ NameWord(n, i)[3] # 0
         /\ NameWord(n, i) = AllOnes <=> 4 * i = Len(n) + 4
<1> DEFINE w == NameWord(n, i)
           t == ToSend(n)
           l == Len(n)
           W == WordsInName(n)
<1>1. l \in Nat \ {0} /\ \A k \in 1 .. l : n[k] # 0 /\ n[k] # 255
  BY NameIs
<1>2. W \in Nat \ {0} /\ 4 * W <= l + 5 /\ l + 5 <= 4 * W + 3
  BY WordsIs
<1>3. /\ t \in Seq(Byte) /\ Len(t) = l + 5
      /\ \A k \in 1 .. l : t[k] = n[k]
      /\ \A k \in l + 1 .. l + 4 : t[k] = 255
  BY ToSendIs
<1>4. w \in Seq(Byte) /\ Len(w) = 4 /\ \A j \in 1 .. 4 : w[j] = t[4 * i - 4 + j]
  <2> DEFINE a == 4 * i - 3
             z == 4 * i
  <2>1. w = SubSeq(t, a, z)
    BY DEF NameWord
  <2> HIDE DEF w, t, l, W
  <2>2. i \in 1 .. W
    BY DEF W
  <2>3. /\ a \in 1 .. Len(t) + 1 /\ z \in a - 1 .. Len(t) /\ z - a + 1 = 4
        /\ \A j \in 1 .. 4 : a + j - 1 = 4 * i - 4 + j
    BY <1>1, <1>2, <1>3, <2>2
  <2> HIDE DEF a, z
  <2>4. /\ SubSeq(t, a, z) \in Seq(Byte) /\ Len(SubSeq(t, a, z)) = z - a + 1
        /\ \A j \in 1 .. z - a + 1 : SubSeq(t, a, z)[j] = t[a + j - 1]
    BY <1>3, <2>3, Part
  <2> QED BY <2>1, <2>3, <2>4
<1> HIDE DEF w, t, l
<1>5. i \in 1 .. W /\ i \in Int
  BY <1>2
<1> HIDE DEF W
<1>6. w[3] # 0
  <2> DEFINE k == 4 * i - 1
  <2>1. k \in 1 .. l + 4
    BY <1>1, <1>2, <1>5
  <2>2. w[3] = t[k]
    <3>1. 3 \in 1 .. 4 /\ 4 * i - 4 + 3 = k
      BY <1>5
    <3> QED BY <1>4, <3>1
  <2> HIDE DEF k
  <2>3. CASE k <= l
    BY <1>1, <1>3, <2>1, <2>2, <2>3
  <2>4. CASE k > l
    <3>1. k \in l + 1 .. l + 4
      BY <1>1, <2>1, <2>4
    <3> QED BY <1>3, <2>2, <3>1
  <2> QED BY <1>1, <2>1, <2>3, <2>4
<1>7. CASE 4 * i = l + 4
  <2>1. ASSUME NEW j \in 1 .. 4 PROVE w[j] = AllOnes[j]
    <3> DEFINE k == 4 * i - 4 + j
    <3>1. k \in l + 1 .. l + 4 /\ w[j] = t[k]
      BY <1>1, <1>4, <1>5, <1>7
    <3> HIDE DEF k
    <3>2. w[j] = 255
      BY <1>3, <3>1
    <3> QED BY <3>2 DEF AllOnes
  <2>2. w = AllOnes
    BY <1>4, <2>1, Constants4, SameSeq
  <2> QED BY <1>4, <1>6, <1>7, <2>2 DEF w, t, l
<1>8. CASE 4 * i # l + 4
  <2>1. 4 * i <= l + 3 \/ 4 * i = l + 5
    BY <1>1, <1>2, <1>5, <1>8
  <2>2. CASE 4 * i <= l + 3
    <3> DEFINE k == 4 * i - 3
    <3>1. k \in 1 .. l
      BY <1>1, <1>5, <2>2
    <3>2. w[1] = t[k]
      <4>1. 1 \in 1 .. 4 /\ 4 * i - 4 + 1 = k
        BY <1>5
      <4> QED BY <1>4, <4>1
    <3> HIDE DEF k
    <3>3. w[1] # 255
      BY <1>1, <1>3, <3>1, <3>2
    <3>4. AllOnes[1] = 255
      BY DEF AllOnes
    <3> QED BY <1>4, <1>6, <1>8, <3>3, <3>4 DEF w, t, l
  <2>3. CASE 4 * i = l + 5
    <3>1. w[4] = t[l + 5]
      <4>1. 4 \in 1 .. 4 /\ 4 * i - 4 + 4 = l + 5
        BY <1>1, <1>5, <2>3
      <4> QED BY <1>4, <4>1
    <3>2. t[l + 5] = 0
      BY ToSendIs DEF t, l
    <3>3. AllOnes[4] = 255
      BY DEF AllOnes
    <3> QED BY <1>4, <1>6, <1>8, <3>1, <3>2, <3>3 DEF w, t, l
  <2> QED BY <2>1, <2>2, <2>3
<1> QED BY <1>7, <1>8

\* The id in the low byte.
LEMMA OfferIs ==
  ASSUME NEW n \in Nat
  PROVE  /\ OfferWord(n) \in Seq(Byte) /\ Len(OfferWord(n)) = 4
         /\ OfferWord(n)[1] = n % 256 /\ OfferWord(n)[2] = 255
         /\ n % 256 \in Byte
BY DEF OfferWord, Byte

\* A word is a function on 1 .. 4.
LEMMA WordIsByte4 ==
  ASSUME NEW w \in Seq(Byte), Len(w) = 4
  PROVE  w \in Byte4
<1>1. w \in [1 .. Len(w) -> Byte]
  BY LenProperties
<1> QED BY <1>1 DEF Byte4

\* What the mac sends, word by word.  No word behind FS_ID_START but CONFIG_INIT
\* itself looks like CONFIG_INIT.
LEMMA ScriptIs ==
  ASSUME name \in Names, saved \in Nat
  PROVE  /\ Script(1) = FS_ID_START
         /\ \A i \in 1 .. WordsInName(name) : Script(i + 1) = NameWord(name, i)
         /\ Script(WordsInName(name) + 2) = CONFIG_INIT
         /\ Script(WordsInName(name) + 3) = REQUEST_ID
         /\ Script(WordsInName(name) + 4) = OfferWord(saved)
<1> DEFINE W == WordsInName(name)
<1>1. W \in Nat \ {0}
  BY WordsIs
<1> HIDE DEF W
<1>2. Script(1) = FS_ID_START
  <2>1. 1 \notin 2 .. W + 1 /\ 1 # W + 2 /\ 1 # W + 3
    BY <1>1
  <2> QED BY <2>1 DEF Script, W
<1>3. ASSUME NEW i \in 1 .. W PROVE Script(i + 1) = NameWord(name, i)
  <2>1. /\ i + 1 # 1 /\ i + 1 \in 2 .. W + 1 /\ (i + 1) - 1 = i
        /\ i + 1 # W + 2 /\ i + 1 # W + 3
    BY <1>1
  <2> QED BY <2>1 DEF Script, W
<1>4. Script(W + 2) = CONFIG_INIT
  <2>1. W + 2 # 1 /\ W + 2 \notin 2 .. W + 1 /\ W + 2 # W + 3
    BY <1>1
  <2> QED BY <2>1 DEF Script, W
<1>5. Script(W + 3) = REQUEST_ID
  <2>1. W + 3 # 1 /\ W + 3 \notin 2 .. W + 1 /\ W + 3 # W + 2
    BY <1>1
  <2> QED BY <2>1 DEF Script, W
<1>6. Script(W + 4) = OfferWord(saved)
  <2>1. W + 4 # 1 /\ W + 4 \notin 2 .. W + 1 /\ W + 4 # W + 2 /\ W + 4 # W + 3
    BY <1>1
  <2> QED BY <2>1 DEF Script, W
<1> QED BY <1>2, <1>3, <1>4, <1>5, <1>6 DEF W

LEMMA ScriptWords ==
  ASSUME name \in Names, saved \in Nat, NEW i \in 1 .. WordsInName(name) + 4
  PROVE  /\ Script(i) \in Seq(Byte) /\ Len(Script(i)) = 4 /\ Script(i) \in Byte4
         /\ Script(i) = CONFIG_INIT <=> i = WordsInName(name) + 2
         /\ Script(i) = AllOnes =>
               \/ i \in 2 .. WordsInName(name) + 1 /\ 4 * (i - 1) = Len(name) + 4
               \/ i = WordsInName(name) + 4
<1> DEFINE W == WordsInName(name)
           P(s) == s \in Seq(Byte) /\ Len(s) = 4
<1>1. W \in Nat \ {0}
  BY WordsIs
<1>2. /\ Script(1) = FS_ID_START
      /\ \A j \in 1 .. W : Script(j + 1) = NameWord(name, j)
      /\ Script(W + 2) = CONFIG_INIT
      /\ Script(W + 3) = REQUEST_ID
      /\ Script(W + 4) = OfferWord(saved)
  BY ScriptIs
<1>3. CASE i = 1
  <2>1. FS_ID_START[1] = 255 /\ CONFIG_INIT[1] = 238 /\ FS_ID_START[3] = 0 /\ AllOnes[3] = 255
    BY DEF FS_ID_START, CONFIG_INIT, AllOnes
  <2>2. Script(i) = FS_ID_START /\ i # W + 2
    BY <1>1, <1>2, <1>3
  <2> HIDE DEF W
  <2> QED BY <2>1, <2>2, Constants4, WordIsByte4 DEF W
<1>4. CASE i \in 2 .. W + 1
  <2> DEFINE j == i - 1
  <2>1. j \in 1 .. W /\ i = j + 1 /\ i # W + 2
    BY <1>1, <1>4
  <2>2. Script(i) = NameWord(name, j)
    <3> HIDE DEF j
    <3> QED BY <1>2, <2>1
  <2>3. /\ P(NameWord(name, j)) /\ NameWord(name, j)[3] # 0
        /\ NameWord(name, j) = AllOnes <=> 4 * j = Len(name) + 4
    <3> HIDE DEF j
    <3> QED BY <2>1, NameWordIs
  <2>4. CONFIG_INIT[3] = 0
    BY DEF CONFIG_INIT
  <2>5. Script(i) # CONFIG_INIT
    BY <2>2, <2>3, <2>4
  <2>6. Script(i) \in Byte4
    BY <2>2, <2>3, WordIsByte4
  <2> QED BY <1>4, <2>1, <2>2, <2>3, <2>5, <2>6
<1>5. CASE i = W + 2
  <2>1. CONFIG_INIT[1] = 238 /\ AllOnes[1] = 255
    BY DEF CONFIG_INIT, AllOnes
  <2>2. Script(i) = CONFIG_INIT /\ CONFIG_INIT # AllOnes
    BY <1>2, <1>5, <2>1
  <2> HIDE DEF W
  <2> QED BY <1>5, <2>2, Constants4, WordIsByte4 DEF W
<1>6. CASE i = W + 3
  <2>1. CONFIG_INIT[1] = 238 /\ AllOnes[1] = 255 /\ REQUEST_ID[1] = 221
    BY DEF CONFIG_INIT, AllOnes, REQUEST_ID
  <2>2. Script(i) = REQUEST_ID /\ REQUEST_ID # AllOnes /\ REQUEST_ID # CONFIG_INIT /\ i # W + 2
    BY <1>1, <1>2, <1>6, <2>1
  <2> HIDE DEF W
  <2> QED BY <2>2, Constants4, WordIsByte4 DEF W
<1>7. CASE i = W + 4
  <2>1. CONFIG_INIT[2] = 238
    BY DEF CONFIG_INIT
  <2>2. Script(i) = OfferWord(saved) /\ i # W + 2
    BY <1>1, <1>2, <1>7
  <2>3. P(OfferWord(saved)) /\ OfferWord(saved)[2] = 255
    BY OfferIs
  <2>4. OfferWord(saved) # CONFIG_INIT
    BY <2>1, <2>3
  <2>5. Script(i) \in Byte4
    BY <2>2, <2>3, WordIsByte4
  <2> HIDE DEF W
  <2> QED BY <1>7, <2>2, <2>3, <2>4, <2>5 DEF W
<1>8. i \in 1 .. W + 4
  OBVIOUS
<1> HIDE DEF W
<1>9. i = 1 \/ i \in 2 .. W + 1 \/ i = W + 2 \/ i = W + 3 \/ i = W + 4
  BY <1>1, <1>8
<1> QED BY <1>3, <1>4, <1>5, <1>6, <1>7, <1>9

----------------------------------------------------------------------------
(***************************************************************************)
(* Where get_string stops.                                                  *)
(***************************************************************************)
\* What the facts about the name need of the state.
StoredWell == name \in Names /\ saved \in Nat /\ words \in Seq(Byte4) /\ Stored

\* Some word is the last one that dfs_name can hold, or all ones: that is enough
\* for the whole name, if dfs_name can hold it.
LEMMA OverCovers ==
  ASSUME StoredWell, NameIsOver(words), Len(name) <= 4 * (MaxNameLen \div 4)
  PROVE  Len(name) <= 4 * Len(words)
<1> DEFINE W == WordsInName(name)
           k == Len(words)
<1>1. W \in Nat \ {0} /\ 4 * W <= Len(name) + 5 /\ Len(name) + 5 <= 4 * W + 3 /\ Len(name) \in Nat
  BY WordsIs, NameIs DEF StoredWell
<1>2. k \in Nat /\ k <= W + 3 /\ \A i \in 1 .. k : words[i] = Script(i + 1)
  BY LenProperties DEF StoredWell, Stored
<1>3. k = MaxNameLen \div 4 \/ (k # 0 /\ words[k] = AllOnes)
  BY <1>2 DEF NameIsOver, StoredWell
<1>4. CASE k = MaxNameLen \div 4
  BY <1>4
<1>5. CASE k # 0 /\ words[k] = AllOnes
  <2> HIDE DEF W, k
  <2>1. k + 1 \in 1 .. W + 4 /\ k \in 1 .. k /\ (k + 1) - 1 = k
    BY <1>1, <1>2, <1>5
  <2>2. Script(k + 1) = AllOnes
    BY <1>2, <1>5, <2>1
  <2>3. 4 * k = Len(name) + 4 \/ k + 1 = W + 4
    <3>1. name \in Names /\ saved \in Nat
      BY DEF StoredWell
    <3> QED BY <2>1, <2>2, <3>1, ScriptWords DEF W
  <2>4. Len(name) <= 4 * k
    BY <1>1, <1>2, <2>3
  <2> QED BY <2>4 DEF k
<1> QED BY <1>3, <1>4, <1>5

\* As long as the words are those of the name, get_string stops with the last one
\* if the name is framed ...
LEMMA FramedStops ==
  ASSUME StoredWell, Framed(name), words # << >>, Len(words) <= WordsInName(name)
  PROVE  NameIsOver(words) <=> Len(words) = WordsInName(name)
<1> DEFINE W == WordsInName(name)
           k == Len(words)
           l == Len(name)
           M == MaxNameLen \div 4
<1>1. W \in Nat \ {0} /\ 4 * W <= l + 5 /\ l + 5 <= 4 * W + 3 /\ l \in Nat
  BY WordsIs, NameIs DEF StoredWell
<1>2. k \in 1 .. W /\ words[k] = Script(k + 1)
  <2>1. k \in Nat /\ k # 0 /\ k <= W
    BY EmptySeq, LenProperties DEF StoredWell
  <2>2. \A i \in 1 .. k : words[i] = Script(i + 1)
    BY DEF StoredWell, Stored
  <2> HIDE DEF W, k
  <2> QED BY <1>1, <2>1, <2>2
<1>3. words[k] = AllOnes <=> 4 * k = l + 4
  <2>1. name \in Names /\ saved \in Nat
    BY DEF StoredWell
  <2> HIDE DEF k
  <2>2. Script(k + 1) = NameWord(name, k)
    BY <1>2, <2>1, ScriptIs
  <2>3. NameWord(name, k) = AllOnes <=> 4 * k = l + 4
    BY <1>2, <2>1, NameWordIs
  <2> QED BY <1>2, <2>2, <2>3
<1>4. M \in Nat /\ ((l % 4 = 0 /\ W <= M) \/ W = M)
  BY LengthAssumption DEF Framed
<1>5. NameIsOver(words) <=> k = M \/ words[k] = AllOnes
  BY DEF NameIsOver
<1> HIDE DEF W, k, l, M
<1>6. (k = M \/ 4 * k = l + 4) <=> k = W
  <2>1. CASE l % 4 = 0 /\ W <= M
    <3>1. 4 * W = l + 4
      BY <1>1, <2>1
    <3> QED BY <1>1, <1>2, <1>4, <2>1, <3>1
  <2>2. CASE W = M
    BY <1>1, <1>2, <2>2
  <2> QED BY <1>4, <2>1, <2>2
<1> QED BY <1>3, <1>5, <1>6 DEF W, k

\* ... and only then does it stop there.
LEMMA StopsFramed ==
  ASSUME StoredWell, NameIsOver(words), Len(words) = WordsInName(name),
         Len(words) <= MaxNameLen \div 4
  PROVE  Framed(name) /\ Len(name) <= 4 * (MaxNameLen \div 4)
<1> DEFINE W == WordsInName(name)
           l == Len(name)
           M == MaxNameLen \div 4
<1>1. W \in Nat \ {0} /\ 4 * W <= l + 5 /\ l + 5 <= 4 * W + 3 /\ l \in Nat
  BY WordsIs, NameIs DEF StoredWell
<1>2. M \in Nat /\ W <= M
  BY LengthAssumption
<1>3. W = M \/ words[W] = AllOnes
  BY DEF NameIsOver
<1>4. words[W] = AllOnes => 4 * W = l + 4
  <2>1. name \in Names /\ saved \in Nat /\ words[W] = Script(W + 1)
    <3>1. W \in 1 .. Len(words)
      BY <1>1
    <3> QED BY <3>1 DEF StoredWell, Stored
  <2>2. W \in 1 .. W
    BY <1>1
  <2>3. Script(W + 1) = NameWord(name, W)
    BY <2>1, <2>2, ScriptIs
  <2>4. NameWord(name, W) = AllOnes => 4 * W = l + 4
    BY <2>1, <2>2, NameWordIs
  <2> QED BY <2>1, <2>3, <2>4
<1> HIDE DEF W, l, M
<1>5. W = M \/ (l % 4 = 0 /\ W <= M)
  BY <1>1, <1>2, <1>3, <1>4
<1>6. l <= 4 * M
  BY <1>1, <1>2
<1> QED BY <1>5, <1>6 DEF Framed, W, l, M

\* The bytes in dfs_name, as far as the words are those of the name.
LEMMA ReceivedIs ==
  ASSUME StoredWell
  PROVE  /\ Received \in Seq(Byte) /\ Len(Received) = 4 * Len(words)
         /\ \A k \in 1 .. 4 * Len(words) : k <= Len(name) => Received[k] = name[k]
         /\ \A k \in 1 .. 4 * Len(words) : k = Len(name) + 1 => Received[k] = 255
<1> DEFINE W == WordsInName(name)
           K == Len(words)
           l == Len(name)
           q(k) == (k + 3) \div 4
           r(k) == ((k - 1) % 4) + 1
<1>1. W \in Nat \ {0} /\ 4 * W <= l + 5 /\ l + 5 <= 4 * W + 3 /\ l \in Nat
  BY WordsIs, NameIs DEF StoredWell
<1>2. K \in Nat /\ \A i \in 1 .. K : words[i] = Script(i + 1) /\ words[i] \in [1 .. 4 -> Byte]
  BY LenProperties, ElementOfSeq DEF StoredWell, Stored, Byte4
<1>3. name \in Names /\ saved \in Nat
  BY DEF StoredWell
<1> HIDE DEF W, K, l
<1>4. ASSUME NEW k \in 1 .. 4 * K
      PROVE  q(k) \in 1 .. K /\ r(k) \in 1 .. 4 /\ k = 4 * q(k) - 4 + r(k) /\ (k <= l + 1 => q(k) \in 1 .. W)
  BY <1>1, <1>2
<1> HIDE DEF q, r
<1>5. Received = [k \in 1 .. 4 * K |-> words[q(k)][r(k)]]
  BY DEF Received, K, q, r
<1>6. ASSUME NEW k \in 1 .. 4 * K PROVE Received[k] = words[q(k)][r(k)] /\ Received[k] \in Byte
  <2>1. Received[k] = words[q(k)][r(k)]
    BY <1>5
  <2>2. words[q(k)][r(k)] \in Byte
    BY <1>2, <1>4
  <2> QED BY <2>1, <2>2
<1>7. ASSUME NEW k \in 1 .. 4 * K, k <= l + 1 PROVE Received[k] = ToSend(name)[k]
  <2>1. q(k) \in 1 .. K /\ q(k) \in 1 .. W /\ r(k) \in 1 .. 4 /\ 4 * q(k) - 4 + r(k) = k
    BY <1>4, <1>7
  <2>2. words[q(k)] = NameWord(name, q(k))
    BY <1>2, <1>3, <2>1, ScriptIs DEF W
  <2>3. NameWord(name, q(k))[r(k)] = ToSend(name)[4 * q(k) - 4 + r(k)]
    BY <1>3, <2>1, NameWordIs DEF W
  <2> QED BY <1>6, <2>1, <2>2, <2>3
<1>8. Received \in Seq(Byte) /\ Len(Received) = 4 * K
  <2>1. 4 * K \in Nat
    BY <1>2
  <2>2. Received \in [1 .. 4 * K -> Byte]
    BY <1>5, <1>6
  <2> QED BY <2>1, <2>2
<1>9. /\ \A i \in 1 .. l : ToSend(name)[i] = name[i]
      /\ \A i \in l + 1 .. l + 4 : ToSend(name)[i] = 255
  BY <1>3, ToSendIs DEF l
<1>10. ASSUME NEW k \in 1 .. 4 * K, k <= l PROVE Received[k] = name[k]
  <2>1. k \in 1 .. l /\ k <= l + 1
    BY <1>1, <1>2, <1>10
  <2> QED BY <1>7, <1>9, <2>1
<1>11. ASSUME NEW k \in 1 .. 4 * K, k = l + 1 PROVE Received[k] = 255
  <2>1. k \in l + 1 .. l + 4 /\ k <= l + 1
    BY <1>1, <1>11
  <2> QED BY <1>7, <1>9, <2>1
<1> QED BY <1>8, <1>10, <1>11 DEF K, l

\* The string found in them is the name, whatever follows it.
LEMMA NameWhole ==
  ASSUME StoredWell, NameIsOver(words), Len(name) <= 4 * (MaxNameLen \div 4)
  PROVE  GivenName = name
<1> DEFINE l == Len(name)
           R == Received
           K4 == 4 * Len(words)
<1>1. /\ name \in Seq(Byte) /\ l \in Nat \ {0}
      /\ \A i \in 1 .. l : name[i] # 0 /\ name[i] # 255
  BY NameIs DEF StoredWell
<1>2. K4 \in Nat /\ l <= K4
  <2>1. Len(words) \in Nat
    BY LenProperties DEF StoredWell
  <2> QED BY <2>1, OverCovers
<1>3. /\ R \in Seq(Byte) /\ Len(R) = K4 /\ DOMAIN R = 1 .. K4
      /\ \A k \in 1 .. K4 : k <= l => R[k] = name[k]
      /\ \A k \in 1 .. K4 : k = l + 1 => R[k] = 255
  <2>1. /\ R \in Seq(Byte) /\ Len(R) = K4
        /\ \A k \in 1 .. K4 : k <= l => R[k] = name[k]
        /\ \A k \in 1 .. K4 : k = l + 1 => R[k] = 255
    BY ReceivedIs
  <2>2. DOMAIN R = 1 .. K4
    BY <2>1, LenProperties
  <2> QED BY <2>1, <2>2
<1>4. GivenName = StringIn(R)
  BY DEF GivenName
<1> HIDE DEF l, R, K4
<1>5. ASSUME NEW i \in Ends(R) PROVE i \in 1 .. K4 /\ l + 1 <= i
  <2>1. i \in 1 .. K4 /\ (R[i] = 0 \/ R[i] = 255)
    BY <1>3 DEF Ends
  <2>2. ~(i <= l)
    <3>1. SUFFICES ASSUME i <= l PROVE FALSE
      OBVIOUS
    <3>2. i \in 1 .. l /\ R[i] = name[i]
      BY <1>1, <1>2, <1>3, <2>1, <3>1
    <3> QED BY <1>1, <2>1, <3>2
  <2> QED BY <1>1, <2>1, <2>2
<1>6. CASE Ends(R) = {}
  <2>1. StringIn(R) = R
    BY <1>6 DEF StringIn
  <2>2. l = K4
    <3>1. SUFFICES ASSUME l # K4 PROVE FALSE
      OBVIOUS
    <3>2. l + 1 \in 1 .. K4
      BY <1>1, <1>2, <3>1
    <3>3. l + 1 \in Ends(R)
      BY <1>3, <3>2 DEF Ends
    <3> QED BY <1>6, <3>3
  <2>3. \A i \in 1 .. K4 : R[i] = name[i]
    BY <1>1, <1>3, <2>2
  <2>4. R = name
    BY <1>1, <1>3, <2>2, <2>3, SameSeq DEF l
  <2> QED BY <1>4, <2>1, <2>4
<1>7. CASE Ends(R) # {}
  <2>1. PICK e \in Ends(R) : TRUE
    BY <1>7
  <2>2. l + 1 \in 1 .. K4
    BY <1>1, <1>2, <1>5, <2>1
  <2>3. l + 1 \in Ends(R)
    BY <1>3, <2>2 DEF Ends
  <2> DEFINE c == CHOOSE i \in Ends(R) : \A j \in Ends(R) : i <= j
  <2>4. c \in Ends(R) /\ \A j \in Ends(R) : c <= j
    <3>1. \E i \in Ends(R) : \A j \in Ends(R) : i <= j
      BY <1>5, <2>3
    <3> QED BY <3>1
  <2> HIDE DEF c
  <2>5. c = l + 1
    <3>1. c <= l + 1 /\ l + 1 <= c /\ c \in 1 .. K4
      BY <1>5, <2>3, <2>4
    <3> QED BY <1>1, <1>2, <3>1
  <2>6. StringIn(R) = SubSeq(R, 1, l)
    <3>1. StringIn(R) = SubSeq(R, 1, c - 1)
      BY <1>7 DEF StringIn, c
    <3>2. c - 1 = l
      BY <1>1, <2>5
    <3> QED BY <3>1, <3>2
  <2>7. 1 \in 1 .. Len(R) + 1 /\ l \in 1 - 1 .. Len(R) /\ l - 1 + 1 = l /\ \A i \in 1 .. l : 1 + i - 1 = i
    BY <1>1, <1>2, <1>3
  <2>8. /\ SubSeq(R, 1, l) \in Seq(Byte) /\ Len(SubSeq(R, 1, l)) = l
        /\ \A i \in 1 .. l : SubSeq(R, 1, l)[i] = R[i]
    <3>1. /\ SubSeq(R, 1, l) \in Seq(Byte) /\ Len(SubSeq(R, 1, l)) = l - 1 + 1
          /\ \A i \in 1 .. l - 1 + 1 : SubSeq(R, 1, l)[i] = R[1 + i - 1]
      BY <1>3, <2>7, Part
    <3> QED BY <2>7, <3>1
  <2>9. \A i \in 1 .. l : R[i] = name[i]
    BY <1>1, <1>2, <1>3
  <2>10. SubSeq(R, 1, l) = name
    BY <1>1, <2>8, <2>9, SameSeq DEF l
  <2> QED BY <1>4, <2>6, <2>10
<1> QED BY <1>6, <1>7

----------------------------------------------------------------------------
(***************************************************************************)
(* What the pi says.                                                        *)
(***************************************************************************)
LEMMA Answer4 ==
  /\ DONE \in Seq(Byte) /\ Len(DONE) = 8
  /\ \A i \in 1 .. 8 : DONE[i] # 18 /\ DONE[i] # 154
  /\ DUMMY[1] = 120 /\ DUMMY2[1] = 255 /\ DUMMY[4] = 18 /\ DUMMY2[4] = 154
BY DEF DONE, DUMMY, DUMMY2, Byte

\* What is behind the first n bytes.
LEMMA LaterIs ==
  ASSUME NEW s \in Seq(Byte), NEW n \in 0 .. Len(s)
  PROVE  /\ Later(s, n) \in Seq(Byte) /\ Len(Later(s, n)) = Len(s) - n
         /\ \A i \in 1 .. Len(s) - n : Later(s, n)[i] = s[n + i]
<1> DEFINE a == n + 1
           l == Len(s)
<1>1. l \in Nat
  BY LenProperties
<1>2. a \in 1 .. l + 1 /\ l \in a - 1 .. l /\ l - a + 1 = l - n /\ \A i \in 1 .. l - n : a + i - 1 = n + i
  BY <1>1
<1>3. Later(s, n) = SubSeq(s, a, l)
  BY DEF Later
<1> HIDE DEF a, l
<1>4. /\ SubSeq(s, a, l) \in Seq(Byte) /\ Len(SubSeq(s, a, l)) = l - a + 1
      /\ \A i \in 1 .. l - a + 1 : SubSeq(s, a, l)[i] = s[a + i - 1]
  BY <1>2, Part DEF l
<1> QED BY <1>2, <1>3, <1>4 DEF l

\* The answer to an offer, word by word.
LEMMA AnswerIs ==
  ASSUME NEW d \in {DUMMY, DUMMY2}, NEW c \in Byte
  PROVE  /\ d \o Repeat(c) \o DONE \in Seq(Byte) /\ Len(d \o Repeat(c) \o DONE) = 16
         /\ \A i \in 1 .. 4 : (d \o Repeat(c) \o DONE)[i] = d[i]
         /\ Later(d \o Repeat(c) \o DONE, 4) = Repeat(c) \o DONE
         /\ Repeat(c) \o DONE \in Seq(Byte) /\ Len(Repeat(c) \o DONE) = 12
         /\ (Repeat(c) \o DONE)[1] = c
         /\ Later(Repeat(c) \o DONE, 4) = DONE
<1> DEFINE r == Repeat(c)
           e == d \o r
           a == e \o DONE
           b == r \o DONE
<1>1. d \in Seq(Byte) /\ Len(d) = 4
  BY Constants4
<1>2. r \in Seq(Byte) /\ Len(r) = 4 /\ r[1] = c
  BY DEF Repeat
<1>3. DONE \in Seq(Byte) /\ Len(DONE) = 8
  BY Answer4
<1> HIDE DEF r
<1>4. /\ e \in Seq(Byte) /\ Len(e) = 8
      /\ \A i \in 1 .. 4 : e[i] = d[i]
      /\ \A i \in 1 .. 4 : e[4 + i] = r[i]
  <2>1. /\ e \in Seq(Byte) /\ Len(e) = Len(d) + Len(r)
        /\ \A i \in 1 .. Len(d) : e[i] = d[i]
        /\ \A i \in 1 .. Len(r) : e[Len(d) + i] = r[i]
    BY <1>1, <1>2, Joined
  <2> HIDE DEF e
  <2> QED BY <1>1, <1>2, <2>1
<1> HIDE DEF e
<1>5. /\ a \in Seq(Byte) /\ Len(a) = 16
      /\ \A i \in 1 .. 8 : a[i] = e[i]
      /\ \A i \in 1 .. 8 : a[8 + i] = DONE[i]
  <2>1. /\ a \in Seq(Byte) /\ Len(a) = Len(e) + Len(DONE)
        /\ \A i \in 1 .. Len(e) : a[i] = e[i]
        /\ \A i \in 1 .. Len(DONE) : a[Len(e) + i] = DONE[i]
    BY <1>3, <1>4, Joined
  <2> HIDE DEF a
  <2> QED BY <1>3, <1>4, <2>1
<1>6. /\ b \in Seq(Byte) /\ Len(b) = 12
      /\ \A i \in 1 .. 4 : b[i] = r[i]
      /\ \A i \in 1 .. 8 : b[4 + i] = DONE[i]
  <2>1. /\ b \in Seq(Byte) /\ Len(b) = Len(r) + Len(DONE)
        /\ \A i \in 1 .. Len(r) : b[i] = r[i]
        /\ \A i \in 1 .. Len(DONE) : b[Len(r) + i] = DONE[i]
    BY <1>2, <1>3, Joined
  <2> HIDE DEF b
  <2> QED BY <1>2, <1>3, <2>1
<1> HIDE DEF a, b
<1>7. Later(a, 4) = b
  <2>1. Later(a, 4) \in Seq(Byte) /\ Len(Later(a, 4)) = 12 /\ \A i \in 1 .. 12 : Later(a, 4)[i] = a[4 + i]
    <3>1. 4 \in 0 .. Len(a) /\ Len(a) - 4 = 12
      BY <1>5
    <3>2. /\ Later(a, 4) \in Seq(Byte) /\ Len(Later(a, 4)) = Len(a) - 4
          /\ \A i \in 1 .. Len(a) - 4 : Later(a, 4)[i] = a[4 + i]
      <4>1. a \in Seq(Byte)
        BY <1>5
      <4> QED BY <4>1, <3>1, LaterIs
    <3> QED BY <3>1, <3>2
  <2>2. ASSUME NEW i \in 1 .. 12 PROVE Later(a, 4)[i] = b[i]
    <3>1. CASE i <= 4
      <4>1. i \in 1 .. 4 /\ 4 + i \in 1 .. 8
        BY <3>1
      <4> QED BY <4>1, <1>4, <1>5, <1>6, <2>1
    <3>2. CASE i > 4
      <4> DEFINE j == i - 4
      <4>1. j \in 1 .. 8 /\ i = 4 + j /\ 4 + i = 8 + j
        BY <3>2
      <4> HIDE DEF j
      <4>2. Later(a, 4)[i] = a[4 + i]
        BY <2>1
      <4>3. a[8 + j] = DONE[j] /\ b[4 + j] = DONE[j]
        BY <4>1, <1>5, <1>6
      <4> QED BY <4>1, <4>2, <4>3
    <3> QED BY <3>1, <3>2
  <2> QED BY <1>6, <2>1, <2>2, SameSeq
<1>8. Later(b, 4) = DONE
  <2>1. Later(b, 4) \in Seq(Byte) /\ Len(Later(b, 4)) = 8 /\ \A i \in 1 .. 8 : Later(b, 4)[i] = b[4 + i]
    <3>1. 4 \in 0 .. Len(b) /\ Len(b) - 4 = 8
      BY <1>6
    <3>2. /\ Later(b, 4) \in Seq(Byte) /\ Len(Later(b, 4)) = Len(b) - 4
          /\ \A i \in 1 .. Len(b) - 4 : Later(b, 4)[i] = b[4 + i]
      <4>1. b \in Seq(Byte)
        BY <1>6
      <4> QED BY <4>1, <3>1, LaterIs
    <3> QED BY <3>1, <3>2
  <2>2. \A i \in 1 .. 8 : Later(b, 4)[i] = DONE[i]
    BY <1>6, <2>1
  <2> QED BY <1>3, <2>1, <2>2, SameSeq
<1>9. \A i \in 1 .. 4 : a[i] = d[i]
  BY <1>4, <1>5
<1>10. b[1] = c
  BY <1>2, <1>6
<1>11. a = d \o Repeat(c) \o DONE /\ b = Repeat(c) \o DONE
  BY DEF a, b, e, r
<1> QED BY <1>5, <1>6, <1>7, <1>8, <1>9, <1>10, <1>11

\* The text of a panic, from each of its words on.
LEMMA PanicIs ==
  ASSUME NEW k \in 0 .. 3, NEW s, s = Later(PANIC, 4 * k)
  PROVE  /\ s \in Seq(Byte) /\ Len(s) = 15 - 4 * k
         /\ s[1] # 120 /\ s[1] # 255
         /\ Dull(s)
         /\ Len(s) >= 4 => k + 1 \in 0 .. 3 /\ Later(s, 4) = Later(PANIC, 4 * (k + 1))
<1> DEFINE t == <<80, 65, 78, 73, 67, 58, 32>>
           p == t \o DONE
<1>1. t \in Seq(Byte) /\ Len(t) = 7
  BY DEF Byte
<1>2. t[1] = 80 /\ t[5] = 67 /\ t[4] = 73
  OBVIOUS
<1> HIDE DEF t
<1>3. /\ p \in Seq(Byte) /\ Len(p) = 15
      /\ \A i \in 1 .. 7 : p[i] = t[i]
      /\ \A i \in 1 .. 8 : p[7 + i] = DONE[i]
  <2>1. /\ p \in Seq(Byte) /\ Len(p) = Len(t) + Len(DONE)
        /\ \A i \in 1 .. Len(t) : p[i] = t[i]
        /\ \A i \in 1 .. Len(DONE) : p[Len(t) + i] = DONE[i]
    <3>1. t \in Seq(Byte) /\ DONE \in Seq(Byte)
      BY <1>1, Answer4
    <3> QED BY <3>1, Joined
  <2> HIDE DEF p
  <2> QED BY <1>1, <2>1, Answer4
<1>4. p = PANIC
  BY DEF p, t, PANIC
<1> HIDE DEF p
<1>5. p[1] = 80 /\ p[5] = 67 /\ p[4] = 73
  BY <1>2, <1>3
<1>6. p[8] = 68 /\ p[9] = 79 /\ p[12] = 33 /\ p[13] = 33
  <2>1. DONE[1] = 68 /\ DONE[2] = 79 /\ DONE[5] = 33 /\ DONE[6] = 33
    BY DEF DONE
  <2>2. p[7 + 1] = 68 /\ p[7 + 2] = 79 /\ p[7 + 5] = 33 /\ p[7 + 6] = 33
    BY <1>3, <2>1
  <2> QED BY <2>2
<1>7. s \in Seq(Byte) /\ Len(s) = 15 - 4 * k /\ \A i \in 1 .. 15 - 4 * k : s[i] = p[4 * k + i]
  <2> DEFINE n == 4 * k
  <2>1. n \in 0 .. Len(p) /\ s = Later(p, n)
    BY <1>3, <1>4
  <2> HIDE DEF n
  <2>2. s \in Seq(Byte) /\ Len(s) = Len(p) - n /\ \A i \in 1 .. Len(p) - n : s[i] = p[n + i]
    <3>1. p \in Seq(Byte)
      BY <1>3
    <3> QED BY <3>1, <2>1, LaterIs
  <2>3. Len(p) - n = 15 - n
    BY <1>3
  <2> QED BY <2>2, <2>3 DEF n
<1>8. s[1] # 120 /\ s[1] # 255
  <2>1. 1 \in 1 .. 15 - 4 * k
    OBVIOUS
  <2>2. s[1] = p[4 * k + 1]
    BY <1>7, <2>1
  <2>3. 4 * k + 1 \in {1, 5, 9, 13}
    OBVIOUS
  <2> QED BY <1>5, <1>6, <2>2, <2>3
<1>9. ASSUME NEW i \in DOMAIN s, i % 4 = 0 PROVE s[i] \notin {18, 154}
  <2>1. i \in 1 .. 15 - 4 * k
    BY <1>7, LenProperties
  <2>2. 4 * k + i \in {4, 8, 12}
    <3>1. i \in {4, 8, 12}
      BY <1>9, <2>1
    <3>2. k \in {0, 1, 2, 3} /\ i <= 15 - 4 * k
      BY <2>1
    <3> QED BY <3>1, <3>2
  <2>3. s[i] = p[4 * k + i]
    BY <1>7, <2>1
  <2> QED BY <1>5, <1>6, <2>2, <2>3
<1>10. ASSUME Len(s) >= 4 PROVE k + 1 \in 0 .. 3 /\ Later(s, 4) = Later(PANIC, 4 * (k + 1))
  <2>1. k \in 0 .. 2
    BY <1>7, <1>10
  <2> DEFINE n == 4 * (k + 1)
             u == Later(s, 4)
             v == Later(p, n)
  <2>2. u \in Seq(Byte) /\ Len(u) = 15 - n /\ \A i \in 1 .. 15 - n : u[i] = s[4 + i]
    <3>1. 4 \in 0 .. Len(s) /\ Len(s) - 4 = 15 - n
      BY <1>7, <2>1
    <3> HIDE DEF n
    <3> QED BY <1>7, <3>1, LaterIs
  <2>3. v \in Seq(Byte) /\ Len(v) = 15 - n /\ \A i \in 1 .. 15 - n : v[i] = p[n + i]
    <3>1. n \in 0 .. Len(p) /\ Len(p) - n = 15 - n
      BY <1>3, <2>1
    <3> HIDE DEF n
    <3>2. /\ v \in Seq(Byte) /\ Len(v) = Len(p) - n
          /\ \A i \in 1 .. Len(p) - n : v[i] = p[n + i]
      <4>1. p \in Seq(Byte)
        BY <1>3
      <4> QED BY <4>1, <3>1, LaterIs
    <3> QED BY <3>1, <3>2
  <2>4. ASSUME NEW i \in 1 .. 15 - n PROVE u[i] = v[i]
    <3>1. 4 + i \in 1 .. 15 - 4 * k /\ 4 * k + (4 + i) = n + i
      BY <2>1
    <3> HIDE DEF n, u, v
    <3>2. s[4 + i] = p[n + i]
      BY <1>7, <3>1
    <3> QED BY <2>2, <2>3, <3>2
  <2>5. u = v
    <3> HIDE DEF n, u, v
    <3> QED BY <2>2, <2>3, <2>4, SameSeq
  <2> QED BY <1>4, <2>1, <2>5
<1> QED BY <1>7, <1>8, <1>9, <1>10 DEF Dull

----------------------------------------------------------------------------
(***************************************************************************)
(* A line on which no dummy comes any more.                                 *)
(***************************************************************************)
LEMMA DullTake ==
  ASSUME NEW s \in Seq(Byte), Len(s) >= 4, Dull(s)
  PROVE  s[4] # 18 /\ s[4] # 154 /\ Dull(Later(s, 4))
<1>1. Len(s) \in Nat /\ DOMAIN s = 1 .. Len(s)
  BY LenProperties
<1>2. s[4] # 18 /\ s[4] # 154
  <2>1. 4 \in DOMAIN s /\ 4 % 4 = 0
    BY <1>1
  <2> QED BY <2>1 DEF Dull
<1> DEFINE u == Later(s, 4)
<1>3. u \in Seq(Byte) /\ Len(u) = Len(s) - 4 /\ \A i \in 1 .. Len(s) - 4 : u[i] = s[4 + i]
  <2>1. 4 \in 0 .. Len(s)
    BY <1>1
  <2> QED BY <2>1, LaterIs
<1> HIDE DEF u
<1>4. ASSUME NEW i \in DOMAIN u, i % 4 = 0 PROVE u[i] \notin {18, 154}
  <2>1. i \in 1 .. Len(s) - 4
    BY <1>3, LenProperties
  <2>2. 4 + i \in DOMAIN s /\ (4 + i) % 4 = 0
    BY <1>1, <1>4, <2>1
  <2>3. s[4 + i] \notin {18, 154}
    BY <2>2 DEF Dull
  <2> QED BY <1>3, <2>1, <2>3
<1>5. Dull(u)
  BY <1>4 DEF Dull
<1> QED BY <1>2, <1>5 DEF u

LEMMA DullShort ==
  ASSUME NEW s \in Seq(Byte), Len(s) < 4
  PROVE  Dull(s)
<1>1. Len(s) \in Nat /\ DOMAIN s = 1 .. Len(s)
  BY LenProperties
<1> QED BY <1>1 DEF Dull

LEMMA DullStart ==
  ASSUME NEW t \in Seq(Byte), NEW o \in Seq(Byte), Dull(t \o o)
  PROVE  Dull(t)
<1>1. /\ t \o o \in Seq(Byte) /\ Len(t \o o) = Len(t) + Len(o)
      /\ Len(t) \in Nat /\ Len(o) \in Nat /\ \A i \in 1 .. Len(t) : (t \o o)[i] = t[i]
  BY Joined
<1>2. DOMAIN t = 1 .. Len(t) /\ DOMAIN (t \o o) = 1 .. Len(t \o o)
  BY <1>1, LenProperties
<1>3. ASSUME NEW i \in DOMAIN t, i % 4 = 0 PROVE t[i] \notin {18, 154}
  <2>1. i \in DOMAIN (t \o o) /\ (t \o o)[i] = t[i]
    BY <1>1, <1>2
  <2> QED BY <1>3, <2>1 DEF Dull
<1> QED BY <1>3 DEF Dull

LEMMA DullAsk ==
  ASSUME NEW t \in Seq(Byte), Dull(t)
  PROVE  Dull(t \o GET_PROG_INFO)
<1> DEFINE u == t \o GET_PROG_INFO
<1>1. GET_PROG_INFO \in Seq(Byte) /\ Len(GET_PROG_INFO) = 4
  BY Constants4
<1>2. /\ u \in Seq(Byte) /\ Len(u) = Len(t) + Len(GET_PROG_INFO)
      /\ Len(t) \in Nat /\ \A i \in 1 .. Len(t) : u[i] = t[i]
      /\ \A i \in 1 .. Len(GET_PROG_INFO) : u[Len(t) + i] = GET_PROG_INFO[i]
  BY <1>1, Joined
<1>3. \A i \in 1 .. 4 : GET_PROG_INFO[i] \notin {18, 154}
  BY DEF GET_PROG_INFO
<1> HIDE DEF u
<1>4. DOMAIN t = 1 .. Len(t) /\ DOMAIN u = 1 .. Len(t) + 4
  BY <1>1, <1>2, LenProperties
<1>5. ASSUME NEW i \in DOMAIN u, i % 4 = 0 PROVE u[i] \notin {18, 154}
  <2>1. CASE i <= Len(t)
    <3>1. i \in DOMAIN t /\ u[i] = t[i]
      BY <1>2, <1>4, <2>1
    <3> QED BY <1>5, <3>1 DEF Dull
  <2>2. CASE i > Len(t)
    <3> DEFINE j == i - Len(t)
    <3>1. j \in 1 .. 4 /\ i = Len(t) + j
      BY <1>2, <1>4, <2>2
    <3> HIDE DEF j
    <3> QED BY <1>1, <1>2, <1>3, <3>1
  <2> QED BY <1>2, <1>4, <2>1, <2>2
<1>6. Dull(u)
  BY <1>5 DEF Dull
<1> QED BY <1>6 DEF u

----------------------------------------------------------------------------
(***************************************************************************)
(* The state, part by part.                                                 *)
(***************************************************************************)
LEMMA HeardIs ==
  /\ pi \in {"sd_init", "wait_start"} => Heard = 0
  /\ pi \in {"name", "wait_config"} => Heard = Len(words) + 1
  /\ pi \in {"mount", "panicked", "wait_request"} => Heard = WordsInName(name) + 2
  /\ pi = "wait_offer" => Heard = WordsInName(name) + 3
  /\ pi \in {"lookup", "done"} => Heard = WordsInName(name) + 4
BY DEF Heard

LEMMA HeardIsNext ==
  /\ pi' \in {"sd_init", "wait_start"} => Heard' = 0
  /\ pi' \in {"name", "wait_config"} => Heard' = Len(words') + 1
  /\ pi' \in {"mount", "panicked", "wait_request"} => Heard' = WordsInName(name') + 2
  /\ pi' = "wait_offer" => Heard' = WordsInName(name') + 3
  /\ pi' \in {"lookup", "done"} => Heard' = WordsInName(name') + 4
BY DEF Heard

LEMMA OpBeforeIs ==
  /\ pi \in {"sd_init", "wait_start", "wait_request"} => OpBefore = <<0, 0, 0, 0>>
  /\ pi \in {"name", "wait_config"} => OpBefore = FS_ID_START
  /\ pi \in {"mount", "panicked"} => OpBefore = CONFIG_INIT
  /\ pi = "wait_offer" => OpBefore = REQUEST_ID
  /\ pi \in {"lookup", "done"} => OpBefore = OfferWord(saved)
BY DEF OpBefore

LEMMA OpBeforeIsNext ==
  /\ pi' \in {"sd_init", "wait_start", "wait_request"} => OpBefore' = <<0, 0, 0, 0>>
  /\ pi' \in {"name", "wait_config"} => OpBefore' = FS_ID_START
  /\ pi' \in {"mount", "panicked"} => OpBefore' = CONFIG_INIT
  /\ pi' = "wait_offer" => OpBefore' = REQUEST_ID
  /\ pi' \in {"lookup", "done"} => OpBefore' = OfferWord(saved')
BY DEF OpBefore

LEMMA OpBeforeWord ==
  ASSUME TypeOK, pi # "loader"
  PROVE  OpBefore \in Seq(Byte) /\ Len(OpBefore) = 4
<1>1. /\ pi \in {"sd_init", "wait_start", "wait_request"} \/ pi \in {"name", "wait_config"}
         \/ pi \in {"mount", "panicked"} \/ pi = "wait_offer" \/ pi \in {"lookup", "done"}
      /\ saved \in Nat
  BY DEF TypeOK, PiStates
<1>2. OfferWord(saved) \in Seq(Byte) /\ Len(OfferWord(saved)) = 4
  BY <1>1, OfferIs
<1> QED BY <1>1, <1>2, OpBeforeIs, Constants4

LEMMA ReplyIs ==
  ASSUME TypeOK
  PROVE  /\ Reply \in Seq(Byte) /\ Len(Reply) = Len(toMac) + Len(out)
         /\ Len(toMac) \in Nat /\ Len(out) \in Nat
         /\ Reply = << >> => toMac = << >> /\ out = << >>
         /\ out = << >> => Reply = toMac
<1>1. toMac \in Seq(Byte) /\ out \in Seq(Byte)
  BY DEF TypeOK
<1>2. toMac \o << >> = toMac
  BY <1>1, ConcatEmptySeq
<1>3. Reply = << >> => toMac = << >> /\ out = << >>
  BY <1>1, ConcatEqualIffEmpty DEF Reply
<1> QED BY <1>1, <1>2, <1>3, Joined DEF Reply

\* The four bytes before the first shift and after the last one.
LEMMA ShiftEnds ==
  ASSUME NEW b \in Seq(Byte), NEW w \in Seq(Byte), Len(b) = 4, Len(w) = 4
  PROVE  /\ SubSeq(b \o w, 0 + 1, 0 + 4) = b /\ SubSeq(w, 0 + 1, 4) = w
         /\ SubSeq(b \o w, 4 + 1, 4 + 4) = w /\ SubSeq(w, 4 + 1, 4) = << >>
<1> DEFINE c == b \o w
<1>1. /\ c \in Seq(Byte) /\ Len(c) = 8
      /\ \A i \in 1 .. 4 : c[i] = b[i]
      /\ \A i \in 1 .. 4 : c[4 + i] = w[i]
  <2>1. /\ c \in Seq(Byte) /\ Len(c) = Len(b) + Len(w)
        /\ \A i \in 1 .. Len(b) : c[i] = b[i]
        /\ \A i \in 1 .. Len(w) : c[Len(b) + i] = w[i]
    BY Joined
  <2> HIDE DEF c
  <2> QED BY <2>1
<1> HIDE DEF c
<1>2. SubSeq(c, 1, 4) = b
  <2>1. 1 \in 1 .. Len(c) + 1 /\ 4 \in 1 - 1 .. Len(c) /\ 4 - 1 + 1 = 4 /\ \A i \in 1 .. 4 : 1 + i - 1 = i
    BY <1>1
  <2>2. /\ SubSeq(c, 1, 4) \in Seq(Byte) /\ Len(SubSeq(c, 1, 4)) = 4
        /\ \A i \in 1 .. 4 : SubSeq(c, 1, 4)[i] = c[i]
    BY <1>1, <2>1, Part
  <2>3. \A i \in 1 .. 4 : SubSeq(c, 1, 4)[i] = b[i]
    BY <1>1, <2>2
  <2> QED BY <2>2, <2>3, SameSeq
<1>3. SubSeq(c, 5, 8) = w
  <2>1. 5 \in 1 .. Len(c) + 1 /\ 8 \in 5 - 1 .. Len(c) /\ 8 - 5 + 1 = 4 /\ \A i \in 1 .. 4 : 5 + i - 1 = 4 + i
    BY <1>1
  <2>2. /\ SubSeq(c, 5, 8) \in Seq(Byte) /\ Len(SubSeq(c, 5, 8)) = 4
        /\ \A i \in 1 .. 4 : SubSeq(c, 5, 8)[i] = c[4 + i]
    <3>1. /\ SubSeq(c, 5, 8) \in Seq(Byte) /\ Len(SubSeq(c, 5, 8)) = 8 - 5 + 1
          /\ \A i \in 1 .. 8 - 5 + 1 : SubSeq(c, 5, 8)[i] = c[5 + i - 1]
      BY <1>1, <2>1, Part
    <3> QED BY <2>1, <3>1
  <2>3. \A i \in 1 .. 4 : SubSeq(c, 5, 8)[i] = w[i]
    BY <1>1, <2>2
  <2> QED BY <2>2, <2>3, SameSeq
<1>4. SubSeq(w, 1, 4) = w
  BY SubSeqFull
<1>5. SubSeq(w, 5, 4) = << >>
  BY SubSeqEmpty
<1>6. 0 + 1 = 1 /\ 0 + 4 = 4 /\ 4 + 1 = 5 /\ 4 + 4 = 8
  OBVIOUS
<1>7. c = b \o w
  BY DEF c
<1>8. /\ SubSeq(c, 0 + 1, 0 + 4) = b /\ SubSeq(w, 0 + 1, 4) = w
      /\ SubSeq(c, 4 + 1, 4 + 4) = w /\ SubSeq(w, 4 + 1, 4) = << >>
  BY <1>2, <1>3, <1>4, <1>5, <1>6
<1> QED BY <1>7, <1>8

\* What depends on the name, the offer and the pi alone.
LEMMA SameScript ==
  ASSUME UNCHANGED <<name, saved>>
  PROVE  \A i : Script(i)' = Script(i)
BY DEF Script

LEMMA SamePi ==
  ASSUME UNCHANGED <<name, saved, pi, op, words, cfg, answer>>
  PROVE  /\ Heard' = Heard /\ OpBefore' = OpBefore /\ Due' = Due
         /\ Stored => Stored'
         /\ Ended => Ended'
<1>1. \A i : Script(i)' = Script(i)
  BY SameScript
<1>2. /\ name' = name /\ saved' = saved /\ pi' = pi /\ op' = op /\ words' = words
      /\ cfg' = cfg /\ answer' = answer
  OBVIOUS
<1>3. Heard' = Heard
  BY <1>2 DEF Heard
<1>4. OpBefore' = OpBefore
  BY <1>2 DEF OpBefore
<1>5. Due' = Due
  BY <1>2 DEF Due
<1>6. Stored => Stored'
  BY <1>1, <1>2 DEF Stored
<1>7. Ended => Ended'
  BY <1>2 DEF Ended, Mounted, NameIsOver
<1> QED BY <1>3, <1>4, <1>5, <1>6, <1>7

LEMMA SameLine ==
  ASSUME UNCHANGED <<name, saved, pi, op, words, cfg, answer, toPi>>
  PROVE  /\ Unsent => Unsent'
         /\ Coming => Coming'
<1>1. /\ Heard' = Heard /\ OpBefore' = OpBefore
      /\ \A i : Script(i)' = Script(i)
      /\ name' = name /\ pi' = pi /\ op' = op /\ toPi' = toPi
  BY SamePi, SameScript
<1>2. Script(Heard + 1)' = Script(Heard + 1)
  BY <1>1
<1>3. Unsent => Unsent'
  BY <1>1 DEF Unsent
<1>4. Coming => Coming'
  BY <1>1, <1>2 DEF Coming, Shifted
<1> QED BY <1>3, <1>4

\* The mac is at one word at a time.
LEMMA OneWord ==
  ASSUME NEW i, NEW j
  PROVE  /\ Past(i) /\ Past(j) => i = j
         /\ Waiting(i) /\ Waiting(j) => i = j
         /\ ~(Past(i) /\ Waiting(j))
<1>1. Past(i) /\ Past(j) => i = j
  BY DEF Past
<1>2. Waiting(i) /\ Waiting(j) => i = j
  BY DEF Waiting
<1>3. ~(Past(i) /\ Waiting(j))
  BY DEF Past, Waiting
<1> QED BY <1>1, <1>2, <1>3

\* The word on its way is one of the script.
LEMMA ComingIs ==
  ASSUME TypeOK, Stored, Coming
  PROVE  /\ Heard + 1 \in 1 .. WordsInName(name) + 4
         /\ Script(Heard + 1) \in Seq(Byte) /\ Len(Script(Heard + 1)) = 4
         /\ Script(Heard + 1) \in Byte4
         /\ pi \in {"sd_init", "name", "wait_offer", "wait_start", "wait_config", "wait_request"}
<1>1. name \in Names /\ saved \in Nat /\ words \in Seq(Byte4)
  BY DEF TypeOK
<1>2. WordsInName(name) \in Nat \ {0} /\ Len(words) \in Nat
  BY <1>1, WordsIs, LenProperties
<1>3. /\ pi \in {"sd_init", "name", "wait_offer", "wait_start", "wait_config", "wait_request"}
      /\ Heard + 1 <= WordsInName(name) + 4
  BY DEF Coming
<1>4. Heard \in Nat
  BY <1>2, <1>3, HeardIs
<1>5. Heard + 1 \in 1 .. WordsInName(name) + 4
  BY <1>2, <1>3, <1>4
<1> QED BY <1>1, <1>3, <1>5, ScriptWords

----------------------------------------------------------------------------
(***************************************************************************)
(* The start.                                                               *)
(***************************************************************************)
LEMMA Starts == Init => LinkInv
<1> SUFFICES ASSUME Init PROVE LinkInv
  OBVIOUS
<1>1. /\ name \in Names /\ mac = "start" /\ sent = 0 /\ counter \in Nat /\ saved = counter
      /\ claim = None /\ pi = "sd_init" /\ op = <<0, 0, 0, 0>> /\ words = << >> /\ out = << >>
      /\ answer = None /\ toPi = << >> /\ toMac = << >>
  BY CountersAssumption DEF Init
<1>2. cfg # None => cfg.name = name /\ cfg.id \in Byte
  BY RecordedAssumption DEF Init
<1>3. WordsInName(name) \in Nat \ {0} /\ name \in Seq(Byte)
  BY <1>1, WordsIs, NameIs
<1>4. TypeOK
  <2>1. op \in Byte4
    BY <1>1, Constants4, WordIsByte4
  <2>2. words \in Seq(Byte4) /\ Len(words) = 0 /\ out \in Seq(Byte) /\ toPi \in Seq(Byte) /\ toMac \in Seq(Byte)
    BY <1>1
  <2>3. answer = None
    BY DEF Init
  <2>4. sent \in 0 .. WordsInName(name) /\ 4 * Len(words) <= MaxNameLen
    BY <1>1, <1>3, <2>2, LengthAssumption
  <2>5. mac \in MacStates /\ pi \in PiStates
    BY <1>1 DEF MacStates, PiStates
  <2> QED BY <1>1, <1>2, <1>3, <2>1, <2>2, <2>3, <2>4, <2>5 DEF TypeOK
<1>5. Stored
  <2>1. Len(words) = 0
    BY <1>1
  <2> QED BY <1>3, <2>1 DEF Stored
<1>6. Ended
  BY <1>1 DEF Ended, Mounted
<1>7. Unsent
  BY <1>1, OpBeforeIs DEF Unsent
<1>8. Hears /\ OneWordApart
  <2>1. Heard = 0
    BY <1>1, HeardIs
  <2>2. Past(Heard)
    BY <1>1, <2>1 DEF Past
  <2>3. Reply = << >>
    BY <1>1 DEF Reply
  <2> QED BY <1>1, <1>7, <2>2, <2>3 DEF Hears, OneWordApart
<1>9. CutOff /\ Answered /\ Booked /\ CountedIsRecorded
  BY <1>1 DEF CutOff, Answered, Booked, CountedIsRecorded, Recorded, Sure
<1>10. OneWordInFlight
  <2>1. Len(toPi) = 0
    BY <1>1
  <2> QED BY <2>1 DEF OneWordInFlight
<1> QED BY <1>4, <1>5, <1>6, <1>7, <1>8, <1>9, <1>10 DEF LinkInv

----------------------------------------------------------------------------
(***************************************************************************)
(* The steps of the mac.                                                    *)
(***************************************************************************)
\* The states in which the mac sends next.
Sending == {"start", "name", "mounted", "offer"}
Awaiting == {"ack_start", "ack_word", "ack_mount", "ack_request"}

\* The mac says the next word of its script.
LEMMA Says ==
  ASSUME LinkInv, NEW j \in Nat, j + 1 <= WordsInName(name) + 4,
         mac \in Sending, mac' \in Awaiting \cup {"select", "ack_offer"},
         pi # "loader" => Past(j) /\ Waiting(j + 1)',
         sent' \in 0 .. WordsInName(name),
         toPi' = toPi \o Script(j + 1),
         UNCHANGED <<name, counter, saved, claim, piVars, toMac>>
  PROVE  LinkInv'
<1> DEFINE w == Script(j + 1)
<1>1. /\ name' = name /\ counter' = counter /\ saved' = saved /\ claim' = claim /\ toMac' = toMac
      /\ pi' = pi /\ op' = op /\ words' = words /\ out' = out /\ cfg' = cfg /\ answer' = answer
      /\ UNCHANGED piVars
  BY DEF piVars
<1>2. /\ TypeOK /\ Stored /\ Ended /\ Hears /\ OneWordApart /\ CutOff /\ Answered /\ Booked
      /\ OneWordInFlight /\ CountedIsRecorded
  BY DEF LinkInv
<1>3. w \in Seq(Byte) /\ Len(w) = 4
  <2>1. name \in Names /\ saved \in Nat /\ WordsInName(name) \in Nat
    BY <1>2, WordsIs DEF TypeOK
  <2>2. j + 1 \in 1 .. WordsInName(name) + 4
    BY <2>1
  <2> QED BY <2>1, <2>2, ScriptWords
<1>4. toPi = << >> /\ (pi # "loader" => Unsent /\ Heard = j /\ Reply = << >>
                         /\ pi \notin {"mount", "panicked", "lookup", "done"})
      /\ (pi = "loader" => Dull(Reply))
  <2>1. CASE pi = "loader"
    BY <1>2, <2>1 DEF CutOff, Sending, Recorded, Sure
  <2>2. CASE pi # "loader"
    <3>1. mac \notin {"gave_up", "panicked", "claim", "done"}
      BY DEF Sending
    <3>2. Unsent /\ Past(Heard) /\ Reply = << >> /\ pi \notin {"mount", "panicked", "lookup", "done"}
      BY <1>2, <2>2, <3>1, OneWord DEF OneWordApart
    <3>3. Heard = j
      BY <2>2, <3>2, OneWord
    <3> QED BY <2>2, <3>2, <3>3 DEF Unsent
  <2> QED BY <2>1, <2>2
<1>5. toPi' = w
  BY <1>3, <1>4, ConcatEmptySeq
<1> HIDE DEF w
<1>6. TypeOK'
  <2>1. mac' \in MacStates
    BY DEF Awaiting, MacStates
  <2>2. toPi' \in Seq(Byte)
    BY <1>3, <1>5
  <2> QED BY <1>1, <1>2, <2>1, <2>2 DEF TypeOK
<1>7. Stored' /\ Ended' /\ Heard' = Heard /\ OpBefore' = OpBefore /\ \A i : Script(i)' = Script(i)
  BY <1>1, <1>2, SamePi, SameScript
<1>8. Reply' = Reply
  BY <1>1 DEF Reply
<1>9. ASSUME pi # "loader" PROVE Coming' /\ Waiting(Heard + 1)' /\ Reply' = << >>
  <2>1. Heard = j /\ op = OpBefore /\ Reply = << >> /\ pi \notin {"mount", "panicked", "lookup", "done"}
    BY <1>4, <1>9 DEF Unsent
  <2>2. (Heard + 1)' = j + 1 /\ Script(Heard + 1)' = w
    BY <1>7, <2>1 DEF w
  <2>3. OpBefore \in Seq(Byte) /\ Len(OpBefore) = 4
    BY <1>2, <1>9, OpBeforeWord
  <2>4. Shifted(0, OpBefore, Script(Heard + 1))'
    BY <1>1, <1>3, <1>5, <1>7, <2>1, <2>2, <2>3, ShiftEnds DEF Shifted
  <2>5. pi \in {"sd_init", "name", "wait_offer", "wait_start", "wait_config", "wait_request"}
    BY <1>2, <1>9, <2>1 DEF TypeOK, PiStates
  <2>6. Coming'
    <3>1. (Heard + 1 <= WordsInName(name) + 4)'
      BY <1>1, <2>2
    <3>2. 0 \in 0 .. 3
      OBVIOUS
    <3> QED BY <1>1, <2>4, <2>5, <3>1, <3>2 DEF Coming
  <2>7. Waiting(j + 1)'
    BY <1>9
  <2> QED BY <1>8, <2>1, <2>2, <2>6, <2>7
<1>10. Hears' /\ OneWordApart'
  BY <1>1, <1>9 DEF Hears, OneWordApart
<1>11. CutOff'
  BY <1>1, <1>4, <1>8 DEF CutOff, Awaiting, Recorded, Sure
<1>12. Answered' /\ Booked' /\ CountedIsRecorded'
  <2>1. mac \notin {"claim", "done", "panicked"} /\ mac' \notin {"claim", "done", "panicked"}
    BY DEF Sending, Awaiting
  <2> QED BY <1>1, <1>2, <2>1 DEF Answered, Booked, CountedIsRecorded, Recorded, Sure
<1>13. OneWordInFlight'
  <2>1. Len(toPi') = Len(w)
    BY <1>5
  <2>2. Len(w) <= 4
    BY <1>3
  <2> QED BY <2>1, <2>2 DEF OneWordInFlight
<1> QED BY <1>6, <1>7, <1>10, <1>11, <1>12, <1>13 DEF LinkInv

\* What the mac finds when it reads a word.
LEMMA Finds ==
  ASSUME LinkInv, pi # "loader", Len(toMac) >= 4, NEW j, Waiting(j)
  PROVE  /\ Unsent /\ Heard = j
         /\ \/ /\ pi = "panicked" /\ Word # DUMMY /\ Word # DUMMY2 /\ Later(Reply, 4) \in Due
            \/ /\ pi = "done" /\ Word = (IF answer.used THEN DUMMY2 ELSE DUMMY)
               /\ Later(Reply, 4) = Repeat(answer.id) \o DONE
            \/ /\ pi \notin {"mount", "panicked", "lookup", "done"}
               /\ Word = DUMMY /\ Later(Reply, 4) = << >>
<1>1. TypeOK /\ OneWordApart /\ toMac \in Seq(Byte) /\ out \in Seq(Byte)
  BY DEF LinkInv, TypeOK
<1>2. mac \notin {"gave_up", "panicked", "claim", "done"}
  BY DEF Waiting
<1>3. Reply # << >>
  <2>1. toMac # << >>
    BY <1>1
  <2> QED BY <1>1, <2>1, ReplyIs
<1>4. Unsent /\ Waiting(Heard) /\ Reply \in Due
  BY <1>1, <1>2, <1>3, OneWord DEF OneWordApart
<1>5. Heard = j
  BY <1>4, OneWord
<1>6. /\ Word \in Seq(Byte) /\ Len(Word) = 4 /\ \A i \in 1 .. 4 : Word[i] = Reply[i]
      /\ Len(Reply) >= 4
  BY <1>1, TakeWord DEF Word, Reply
<1>7. pi \notin {"mount", "lookup"}
  BY <1>3, <1>4 DEF Due
<1>8. CASE pi = "panicked"
  <2>1. PICK k \in 0 .. 3 : Reply = Later(PANIC, 4 * k)
    BY <1>4, <1>8 DEF Due
  <2>2. Reply[1] # 120 /\ Reply[1] # 255 /\ k + 1 \in 0 .. 3 /\ Later(Reply, 4) = Later(PANIC, 4 * (k + 1))
    BY <1>6, <2>1, PanicIs
  <2>3. Word # DUMMY /\ Word # DUMMY2
    BY <1>6, <2>2, Answer4
  <2>4. Later(Reply, 4) \in Due
    BY <1>8, <2>2 DEF Due
  <2> QED BY <1>4, <1>5, <1>8, <2>3, <2>4
<1>9. CASE pi = "done"
  <2> DEFINE d == IF answer.used THEN DUMMY2 ELSE DUMMY
  <2>1. d \in {DUMMY, DUMMY2} /\ d \in Seq(Byte) /\ Len(d) = 4
    BY Constants4
  <2>2. Reply = d \o Repeat(answer.id) \o DONE
    BY <1>4, <1>9 DEF Due
  <2>3. answer.id \in Byte
    BY <1>9 DEF LinkInv, Answered, TypeOK, Answer
  <2> HIDE DEF d
  <2>4. /\ \A i \in 1 .. 4 : (d \o Repeat(answer.id) \o DONE)[i] = d[i]
        /\ Later(d \o Repeat(answer.id) \o DONE, 4) = Repeat(answer.id) \o DONE
    BY <2>1, <2>3, AnswerIs
  <2>5. Word = d
    <3>1. \A i \in 1 .. 4 : Word[i] = d[i]
      BY <1>6, <2>2, <2>4
    <3> QED BY <1>6, <2>1, <3>1, SameSeq
  <2> QED BY <1>4, <1>5, <1>9, <2>2, <2>4, <2>5 DEF d
<1>10. CASE pi \notin {"panicked", "done"}
  <2>1. Reply = DUMMY
    BY <1>4, <1>7, <1>10 DEF Due
  <2>2. Word = DUMMY
    BY <1>6, <2>1, Constants4, SameSeq
  <2>3. Later(Reply, 4) = << >>
    BY <2>1, Constants4, SubSeqEmpty DEF Later
  <2> QED BY <1>4, <1>5, <1>7, <1>10, <2>2, <2>3
<1> QED BY <1>8, <1>9, <1>10

\* What is left of the line when the mac has taken a word.
LEMMA Takes ==
  ASSUME LinkInv, Get32, UNCHANGED piVars
  PROVE  /\ Len(toMac) >= 4 /\ toMac' \in Seq(Byte) /\ Reply' = Later(Reply, 4)
         /\ Word \in Seq(Byte) /\ Len(Word) = 4 /\ Word[4] = Reply[4]
         /\ Reply \in Seq(Byte) /\ Len(Reply) >= 4
<1>1. toMac \in Seq(Byte) /\ out \in Seq(Byte) /\ TypeOK
  BY DEF LinkInv, TypeOK
<1>2. Len(toMac) >= 4 /\ toMac' = SubSeq(toMac, 5, Len(toMac)) /\ out' = out
  BY DEF Get32, piVars
<1>3. /\ Word \in Seq(Byte) /\ Len(Word) = 4 /\ \A i \in 1 .. 4 : Word[i] = Reply[i]
      /\ toMac' \in Seq(Byte)
      /\ SubSeq(toMac, 5, Len(toMac)) \o out = Later(Reply, 4)
      /\ Len(Reply) >= 4
  BY <1>1, <1>2, TakeWord DEF Word, Reply
<1>4. Reply' = Later(Reply, 4)
  BY <1>2, <1>3 DEF Reply
<1> QED BY <1>1, <1>2, <1>3, <1>4, ReplyIs

\* A line without dummies has none to offer.
LEMMA DullWord ==
  ASSUME LinkInv, Get32, UNCHANGED piVars, Dull(Reply)
  PROVE  Word # DUMMY /\ Word # DUMMY2 /\ Dull(Reply')
<1>1. /\ Word[4] = Reply[4] /\ Reply' = Later(Reply, 4) /\ Reply \in Seq(Byte) /\ Len(Reply) >= 4
  BY Takes
<1>2. Reply[4] # 18 /\ Reply[4] # 154 /\ Dull(Later(Reply, 4))
  BY <1>1, DullTake
<1> QED BY <1>1, <1>2, Answer4

\* The mac takes a dummy for the answer, and drops any other word.
LEMMA Awaits ==
  ASSUME LinkInv, NEW from \in Awaiting, NEW to \in Sending, AwaitDummy(from, to), NEW j,
         pi # "loader" => /\ Waiting(j)
                          /\ mac' = to => Past(j)'
                          /\ mac' = from => Waiting(j)'
  PROVE  LinkInv'
<1>1. /\ mac = from /\ Get32 /\ toPi' = toPi /\ name' = name /\ sent' = sent /\ counter' = counter
      /\ saved' = saved /\ claim' = claim /\ UNCHANGED piVars
      /\ pi' = pi /\ op' = op /\ words' = words /\ out' = out /\ cfg' = cfg /\ answer' = answer
  BY DEF AwaitDummy, piVars
<1>2. /\ TypeOK /\ Stored /\ Ended /\ Hears /\ OneWordApart /\ CutOff /\ Answered /\ Booked
      /\ OneWordInFlight /\ CountedIsRecorded
  BY DEF LinkInv
<1>3. /\ Len(toMac) >= 4 /\ toMac' \in Seq(Byte) /\ Reply' = Later(Reply, 4)
  BY <1>1, Takes
<1>4. (Word = DUMMY => mac' = to) /\ (Word # DUMMY => mac' = from)
  BY DEF AwaitDummy
<1>5. TypeOK'
  <2>1. mac' \in MacStates
    BY <1>4 DEF Awaiting, Sending, MacStates
  <2> QED BY <1>1, <1>2, <1>3, <2>1 DEF TypeOK
<1>6. /\ Stored' /\ Ended' /\ Heard' = Heard /\ Due' = Due
      /\ (Unsent => Unsent') /\ (Coming => Coming')
  BY <1>1, <1>2, SamePi, SameLine
<1>7. Hears'
  BY <1>1, <1>2, <1>6 DEF Hears
<1>8. OneWordApart'
  <2>1. SUFFICES ASSUME pi # "loader" PROVE OneWordApart'
    BY <1>1 DEF OneWordApart
  <2>2. /\ Unsent /\ Heard = j
        /\ \/ /\ pi = "panicked" /\ Word # DUMMY /\ Word # DUMMY2 /\ Later(Reply, 4) \in Due
           \/ /\ pi = "done" /\ Word = (IF answer.used THEN DUMMY2 ELSE DUMMY)
              /\ Later(Reply, 4) = Repeat(answer.id) \o DONE
           \/ /\ pi \notin {"mount", "panicked", "lookup", "done"}
              /\ Word = DUMMY /\ Later(Reply, 4) = << >>
    BY <1>3, <2>1, Finds
  <2>3. pi # "done"
    <3>1. SUFFICES ASSUME pi = "done" PROVE FALSE
      OBVIOUS
    <3>2. Heard = WordsInName(name) + 4 /\ sent \in 0 .. WordsInName(name) /\ WordsInName(name) \in Nat \ {0}
      BY <1>2, <3>1, HeardIs, WordsIs DEF TypeOK
    <3>3. ~Waiting(WordsInName(name) + 4)
      BY <1>1, <3>2 DEF Waiting, Awaiting
    <3> QED BY <2>1, <2>2, <3>2, <3>3
  <2>4. CASE pi = "panicked"
    <3>1. Waiting(Heard)' /\ Reply' \in Due'
      BY <1>3, <1>4, <1>6, <2>1, <2>2, <2>4
    <3> QED BY <1>6, <2>2, <3>1 DEF OneWordApart
  <2>5. CASE pi # "panicked"
    <3>1. Past(Heard)' /\ Reply' = << >> /\ pi \notin {"mount", "panicked", "lookup", "done"}
      BY <1>3, <1>4, <1>6, <2>1, <2>2, <2>3, <2>5
    <3> QED BY <1>1, <1>6, <2>2, <3>1 DEF OneWordApart
  <2> QED BY <2>4, <2>5
<1>9. CutOff'
  <2>1. SUFFICES ASSUME pi = "loader" PROVE CutOff'
    BY <1>1 DEF CutOff, Recorded, Sure
  <2>2. \/ Dull(Reply)
        \/ toPi = << >> /\ Len(toMac) >= 4 /\ Word = DUMMY /\ Dull(Later(Reply, 4))
    BY <1>1, <1>2, <2>1 DEF CutOff, Awaiting, Recorded, Sure
  <2>3. CASE Dull(Reply)
    <3>1. Dull(Reply') /\ mac' = from
      BY <1>1, <1>4, <2>3, DullWord
    <3> QED BY <3>1 DEF CutOff, Awaiting, Recorded, Sure
  <2>4. CASE toPi = << >> /\ Word = DUMMY /\ Dull(Later(Reply, 4))
    <3>1. Dull(Reply') /\ toPi' = << >> /\ mac' = to
      BY <1>1, <1>3, <1>4, <2>4
    <3> QED BY <3>1 DEF CutOff, Sending, Recorded, Sure
  <2> QED BY <2>2, <2>3, <2>4
<1>10. Answered' /\ Booked' /\ CountedIsRecorded'
  <2>1. mac \notin {"claim", "done", "panicked"} /\ mac' \notin {"claim", "done", "panicked"}
    BY <1>1, <1>4 DEF Sending, Awaiting
  <2> QED BY <1>1, <1>2, <2>1 DEF Answered, Booked, CountedIsRecorded, Recorded, Sure
<1>11. OneWordInFlight'
  BY <1>1, <1>2 DEF OneWordInFlight
<1> QED BY <1>5, <1>6, <1>7, <1>8, <1>9, <1>10, <1>11 DEF LinkInv

\* The mac stops waiting.
LEMMA GivesUp ==
  ASSUME LinkInv, mac' \in {"gave_up", "panicked"}, mac' = "gave_up" => counter = saved,
         mac # "done",
         UNCHANGED <<name, sent, counter, saved, claim, piVars, toPi, toMac>>
  PROVE  LinkInv'
<1>1. /\ toPi' = toPi /\ toMac' = toMac /\ name' = name /\ sent' = sent /\ counter' = counter
      /\ saved' = saved /\ claim' = claim /\ UNCHANGED piVars
      /\ pi' = pi /\ op' = op /\ words' = words /\ out' = out /\ cfg' = cfg /\ answer' = answer
  BY DEF piVars
<1>2. /\ TypeOK /\ Stored /\ Ended /\ Hears /\ OneWordApart /\ CutOff /\ Answered /\ Booked
      /\ OneWordInFlight /\ CountedIsRecorded
  BY DEF LinkInv
<1>3. TypeOK'
  <2>1. mac' \in MacStates
    BY DEF MacStates
  <2> QED BY <1>1, <1>2, <2>1 DEF TypeOK
<1>4. Stored' /\ Ended' /\ (Unsent => Unsent') /\ (Coming => Coming')
  BY <1>1, <1>2, SamePi, SameLine
<1>5. Hears' /\ OneWordApart' /\ CutOff'
  BY <1>1, <1>2, <1>4 DEF Hears, OneWordApart, CutOff, Recorded, Sure
<1>6. Answered' /\ Booked' /\ CountedIsRecorded' /\ OneWordInFlight'
  BY <1>1, <1>2 DEF Answered, Booked, CountedIsRecorded, OneWordInFlight, Recorded, Sure
<1> QED BY <1>3, <1>4, <1>5, <1>6 DEF LinkInv

LEMMA ReadableKeeps ==
  ASSUME LinkInv, Readable
  PROVE  LinkInv'
<1>1. /\ mac = "select" /\ mac' = "ack_mount"
      /\ toPi' = toPi /\ toMac' = toMac /\ name' = name /\ sent' = sent /\ counter' = counter
      /\ saved' = saved /\ claim' = claim /\ UNCHANGED piVars
      /\ pi' = pi /\ op' = op /\ words' = words /\ out' = out /\ cfg' = cfg /\ answer' = answer
  BY DEF Readable, piVars
<1>2. /\ TypeOK /\ Stored /\ Ended /\ Hears /\ OneWordApart /\ CutOff /\ Answered /\ Booked
      /\ OneWordInFlight /\ CountedIsRecorded
  BY DEF LinkInv
<1>3. TypeOK'
  <2>1. mac' \in MacStates
    BY <1>1 DEF MacStates
  <2> QED BY <1>1, <1>2, <2>1 DEF TypeOK
<1>4. /\ Stored' /\ Ended' /\ Heard' = Heard /\ Due' = Due
      /\ (Unsent => Unsent') /\ (Coming => Coming')
  BY <1>1, <1>2, SamePi, SameLine
<1>5. Reply' = Reply
  BY <1>1 DEF Reply
<1>6. \A i : Waiting(i) => Waiting(i)'
  BY <1>1 DEF Waiting
<1>7. \A i : ~Past(i)
  BY <1>1 DEF Past
<1>8. Hears'
  BY <1>1, <1>2, <1>4 DEF Hears
<1>9. OneWordApart'
  <2>1. SUFFICES ASSUME pi # "loader" PROVE OneWordApart'
    BY <1>1 DEF OneWordApart
  <2>2. (Coming /\ Waiting(Heard + 1) /\ Reply = << >>) \/ (Unsent /\ Waiting(Heard) /\ Reply \in Due)
    BY <1>1, <1>2, <1>7, <2>1 DEF OneWordApart
  <2>3. CASE Coming /\ Waiting(Heard + 1) /\ Reply = << >>
    <3>1. Coming' /\ Waiting(Heard + 1)' /\ Reply' = << >>
      BY <1>4, <1>5, <1>6, <2>3
    <3> QED BY <3>1 DEF OneWordApart
  <2>4. CASE Unsent /\ Waiting(Heard) /\ Reply \in Due
    <3>1. Unsent' /\ Waiting(Heard)' /\ Reply' \in Due'
      BY <1>4, <1>5, <1>6, <2>4
    <3> QED BY <3>1 DEF OneWordApart
  <2> QED BY <2>2, <2>3, <2>4
<1>10. CutOff'
  <2>1. Word' = Word
    BY <1>1 DEF Word
  <2> QED BY <1>1, <1>2, <1>5, <2>1 DEF CutOff, Recorded, Sure
<1>11. Answered' /\ Booked' /\ CountedIsRecorded' /\ OneWordInFlight'
  BY <1>1, <1>2 DEF Answered, Booked, CountedIsRecorded, OneWordInFlight, Recorded, Sure
<1> QED BY <1>3, <1>4, <1>8, <1>9, <1>10, <1>11 DEF LinkInv

\* The answer to the offer: DUMMY2 only if the offer is on the SD card.
LEMMA AckOfferKeeps ==
  ASSUME LinkInv, AckOffer
  PROVE  LinkInv'
<1>1. /\ mac = "ack_offer" /\ Get32 /\ toPi' = toPi /\ name' = name /\ sent' = sent
      /\ counter' = Counted(Word) /\ saved' = saved /\ claim' = claim /\ UNCHANGED piVars
      /\ pi' = pi /\ op' = op /\ words' = words /\ out' = out /\ cfg' = cfg /\ answer' = answer
  BY DEF AckOffer, piVars
<1>2. /\ TypeOK /\ Stored /\ Ended /\ Hears /\ OneWordApart /\ CutOff /\ Answered /\ Booked
      /\ OneWordInFlight /\ CountedIsRecorded
  BY DEF LinkInv
<1>3. /\ Len(toMac) >= 4 /\ toMac' \in Seq(Byte) /\ Reply' = Later(Reply, 4)
  BY <1>1, Takes
<1>4. /\ Word \in {DUMMY, DUMMY2} => mac' = "claim"
      /\ Word \notin {DUMMY, DUMMY2} => mac' = "ack_offer"
  BY DEF AckOffer
<1>5. /\ counter = saved /\ counter \in Nat /\ saved \in Nat
      /\ Word = DUMMY2 => counter' = counter + 1
      /\ Word # DUMMY2 => counter' = counter
  BY <1>1, <1>2 DEF Booked, Counted, TypeOK
<1>6. TypeOK'
  <2>1. mac' \in MacStates /\ counter' \in Nat
    BY <1>4, <1>5 DEF MacStates
  <2> QED BY <1>1, <1>2, <1>3, <2>1 DEF TypeOK
<1>7. /\ Stored' /\ Ended' /\ Heard' = Heard /\ Due' = Due
      /\ (Unsent => Unsent') /\ (Coming => Coming')
  BY <1>1, <1>2, SamePi, SameLine
<1>8. Hears'
  BY <1>1, <1>2, <1>7 DEF Hears
<1>9. Waiting(WordsInName(name) + 4) /\ \A i : Waiting(i) => i = WordsInName(name) + 4
  BY <1>1 DEF Waiting
<1>10. ASSUME pi # "loader"
       PROVE  /\ Unsent /\ Heard = WordsInName(name) + 4
              /\ \/ /\ pi = "panicked" /\ Word # DUMMY /\ Word # DUMMY2 /\ Later(Reply, 4) \in Due
                 \/ /\ pi = "done" /\ Word = (IF answer.used THEN DUMMY2 ELSE DUMMY)
                    /\ Later(Reply, 4) = Repeat(answer.id) \o DONE
                 \/ /\ pi \notin {"mount", "panicked", "lookup", "done"}
                    /\ Word = DUMMY /\ Later(Reply, 4) = << >>
  BY <1>3, <1>9, <1>10, Finds
<1>11. OneWordApart'
  <2>1. SUFFICES ASSUME pi # "loader" PROVE OneWordApart'
    BY <1>1 DEF OneWordApart
  <2>2. Unsent' /\ Heard' = WordsInName(name) + 4 /\ name' = name /\ pi' = pi
    BY <1>1, <1>7, <1>10, <2>1
  <2>3. CASE pi = "panicked"
    <3>1. mac' = "ack_offer" /\ Reply' \in Due'
      BY <1>3, <1>4, <1>7, <1>10, <2>1, <2>3
    <3>2. Waiting(Heard)'
      BY <2>2, <3>1 DEF Waiting
    <3> QED BY <2>2, <3>1, <3>2 DEF OneWordApart
  <2>4. CASE pi = "done"
    <3>1. mac' = "claim" /\ Reply' = Repeat(answer.id) \o DONE
      BY <1>3, <1>4, <1>10, <2>1, <2>4
    <3>2. Reply' = (Repeat(answer.id) \o DONE)'
      BY <1>1, <3>1 DEF Repeat, DONE
    <3> QED BY <2>2, <2>4, <3>1, <3>2 DEF OneWordApart
  <2>5. CASE pi \notin {"panicked", "done"}
    <3>1. mac' = "claim" /\ Reply' = << >> /\ pi \notin {"mount", "panicked", "lookup", "done"}
      BY <1>3, <1>4, <1>10, <2>1, <2>5
    <3>2. Past(Heard)'
      BY <2>2, <3>1 DEF Past
    <3> QED BY <2>2, <3>1, <3>2 DEF OneWordApart
  <2> QED BY <2>3, <2>4, <2>5
<1>12. ASSUME pi = "loader"
       PROVE  \/ Dull(Reply)
              \/ Word = DUMMY
              \/ Word = DUMMY2 /\ Recorded
  BY <1>1, <1>2, <1>12 DEF CutOff, Recorded, Sure
<1>13. CutOff'
  <2>1. SUFFICES ASSUME pi = "loader", mac' = "ack_offer" PROVE Dull(Reply')
    BY <1>1, <1>4 DEF CutOff, Sending, Recorded, Sure
  <2>2. Word \notin {DUMMY, DUMMY2}
    BY <1>4, <2>1
  <2>3. Dull(Reply)
    BY <1>12, <2>1, <2>2
  <2> QED BY <1>1, <2>3, DullWord
<1>14. Answered'
  <2>1. ASSUME pi = "done", mac' = "claim" PROVE counter' # saved <=> answer.used
    BY <1>5, <1>10, <2>1, Constants4
  <2> QED BY <1>1, <1>2, <1>4, <2>1 DEF Answered, Recorded, Sure
<1>15. Booked'
  <2>1. Word \notin {DUMMY, DUMMY2} => counter' = saved'
    BY <1>1, <1>5
  <2> QED BY <1>4, <2>1 DEF Booked
<1>16. CountedIsRecorded'
  <2>1. ASSUME Word = DUMMY2 PROVE Recorded
    <3>1. CASE pi = "loader"
      <4>1. ~Dull(Reply)
        BY <1>1, <2>1, DullWord
      <4> QED BY <1>12, <2>1, <3>1, <4>1, Constants4
    <3>2. CASE pi # "loader"
      <4>1. pi = "done" /\ answer.used
        BY <1>10, <2>1, <3>2, Constants4
      <4> QED BY <1>2, <4>1 DEF Answered, Recorded, Sure
    <3> QED BY <3>1, <3>2
  <2>2. counter' # saved' => Recorded'
    BY <1>1, <1>5, <2>1 DEF Recorded, Sure
  <2>3. mac' # "done"
    BY <1>4
  <2> QED BY <2>2, <2>3 DEF CountedIsRecorded, Recorded, Sure
<1>17. OneWordInFlight'
  BY <1>1, <1>2 DEF OneWordInFlight
<1> QED BY <1>6, <1>7, <1>8, <1>11, <1>13, <1>14, <1>15, <1>16, <1>17 DEF LinkInv

\* The id behind it is the one the pi has on its card.
LEMMA ReadClaimKeeps ==
  ASSUME LinkInv, ReadClaim
  PROVE  LinkInv'
<1>1. /\ mac = "claim" /\ mac' = "done" /\ Get32 /\ toPi' = toPi /\ name' = name /\ sent' = sent
      /\ counter' = counter /\ saved' = saved /\ claim' = Word[1] /\ UNCHANGED piVars
      /\ pi' = pi /\ op' = op /\ words' = words /\ out' = out /\ cfg' = cfg /\ answer' = answer
  BY DEF ReadClaim, piVars
<1>2. /\ TypeOK /\ Stored /\ Ended /\ Hears /\ OneWordApart /\ CutOff /\ Answered /\ Booked
      /\ OneWordInFlight /\ CountedIsRecorded
  BY DEF LinkInv
<1>3. /\ Len(toMac) >= 4 /\ toMac' \in Seq(Byte) /\ Reply' = Later(Reply, 4)
      /\ Word \in Seq(Byte) /\ Len(Word) = 4
  BY <1>1, Takes
<1>4. TypeOK'
  <2>1. mac' \in MacStates
    BY <1>1 DEF MacStates
  <2>2. claim' \in Byte
    <3>1. 1 \in 1 .. Len(Word) /\ Word \in Seq(Byte)
      BY <1>3
    <3>2. Word[1] \in Byte
      BY <3>1, ElementOfSeq
    <3> QED BY <1>1, <3>2
  <2> QED BY <1>1, <1>2, <1>3, <2>1, <2>2 DEF TypeOK
<1>5. /\ Stored' /\ Ended' /\ (Unsent => Unsent') /\ (Coming => Coming')
  BY <1>1, <1>2, SamePi, SameLine
<1>6. Hears'
  BY <1>1, <1>2, <1>5 DEF Hears
<1>7. ASSUME pi # "loader"
      PROVE  Unsent /\ pi = "done" /\ Reply = Repeat(answer.id) \o DONE
  <2>1. Reply # << >>
    <3>1. toMac # << >>
      <4>1. toMac \in Seq(Byte)
        BY <1>2 DEF TypeOK
      <4> QED BY <1>3, <4>1
    <3> QED BY <1>2, <3>1, ReplyIs
  <2>2. \A i : ~Waiting(i)
    BY <1>1 DEF Waiting
  <2> QED BY <1>1, <1>2, <1>7, <2>1, <2>2 DEF OneWordApart
<1>8. ASSUME pi # "loader" PROVE claim' = answer.id /\ Reply' = DONE /\ (Sure => cfg # None /\ answer.id = cfg.id)
  <2>1. answer.id \in Byte /\ (Sure => cfg # None /\ answer.id = cfg.id)
    BY <1>2, <1>7, <1>8 DEF Answered, TypeOK, Answer, Recorded, Sure
  <2>2. (Repeat(answer.id) \o DONE)[1] = answer.id /\ Later(Repeat(answer.id) \o DONE, 4) = DONE
    BY <2>1, AnswerIs
  <2>3. Word[1] = Reply[1]
    <3>1. toMac \in Seq(Byte) /\ out \in Seq(Byte)
      BY <1>2 DEF TypeOK
    <3> QED BY <1>3, <3>1, TakeWord DEF Word, Reply
  <2> QED BY <1>1, <1>3, <1>7, <1>8, <2>1, <2>2, <2>3
<1>9. OneWordApart'
  BY <1>1, <1>5, <1>7, <1>8 DEF OneWordApart, DONE
<1>10. CutOff'
  BY <1>1 DEF CutOff, Recorded, Sure
<1>11. Answered' /\ Booked'
  BY <1>1, <1>2 DEF Answered, Booked, Recorded, Sure
<1>12. CountedIsRecorded'
  <2>1. ASSUME pi # "loader"
        PROVE  claim' = answer.id /\ (Sure => cfg # None /\ claim' = cfg.id) /\ (counter # saved <=> answer.used)
    BY <1>1, <1>2, <1>7, <1>8, <2>1 DEF Answered, Recorded, Sure
  <2> QED BY <1>1, <1>2, <2>1 DEF CountedIsRecorded, Recorded, Sure
<1>13. OneWordInFlight'
  BY <1>1, <1>2 DEF OneWordInFlight
<1> QED BY <1>4, <1>5, <1>6, <1>9, <1>10, <1>11, <1>12, <1>13 DEF LinkInv

\* How many words of the name are out.
LEMMA SentIs ==
  ASSUME LinkInv, pi # "loader"
  PROVE  /\ mac \in {"start", "ack_start"} => sent = 0
         /\ mac = "ack_word" => sent > 0
         /\ mac \in {"select", "ack_mount"} => sent = WordsInName(name)
BY DEF LinkInv, OneWordApart, Past, Waiting

\* All the steps of the mac.
LEMMA MacKeeps ==
  ASSUME LinkInv, MacWorks
  PROVE  LinkInv'
<1> DEFINE W == WordsInName(name)
<1>1. /\ TypeOK /\ Booked /\ name \in Names /\ saved \in Nat /\ sent \in 0 .. W
  BY DEF LinkInv, TypeOK
<1>2. W \in Nat \ {0} /\ sent \in Nat
  BY <1>1, WordsIs
<1>3. /\ Script(1) = FS_ID_START
      /\ \A i \in 1 .. W : Script(i + 1) = NameWord(name, i)
      /\ Script(W + 2) = CONFIG_INIT /\ Script(W + 3) = REQUEST_ID /\ Script(W + 4) = OfferWord(saved)
  BY <1>1, ScriptIs
<1>4. ASSUME pi # "loader"
      PROVE  /\ mac \in {"start", "ack_start"} => sent = 0
             /\ mac = "ack_word" => sent > 0
             /\ mac \in {"select", "ack_mount"} => sent = W
  BY <1>4, SentIs
<1>5. CASE StartName
  <2>1. /\ mac = "start" /\ mac' = "ack_start" /\ toPi' = toPi \o FS_ID_START
        /\ UNCHANGED <<name, counter, saved, claim, piVars, toMac>> /\ sent' = sent
    BY <1>5 DEF StartName, Put32
  <2>2. 0 \in Nat /\ 0 + 1 = 1 /\ 0 + 1 <= W + 4
    BY <1>2
  <2>3. pi # "loader" => Past(0) /\ Waiting(0 + 1)'
    BY <1>4, <2>1, <2>2 DEF Past, Waiting
  <2>4. mac \in Sending /\ mac' \in Awaiting \cup {"select", "ack_offer"} /\ sent' \in 0 .. W
    BY <1>1, <2>1 DEF Sending, Awaiting
  <2>5. toPi' = toPi \o Script(0 + 1)
    BY <1>3, <2>1, <2>2
  <2> QED BY <2>1, <2>2, <2>3, <2>4, <2>5, Says
<1>6. CASE AckStart
  <2>1. AwaitDummy("ack_start", "name") /\ mac = "ack_start" /\ sent' = sent
    BY <1>6 DEF AckStart, AwaitDummy
  <2>2. pi # "loader" => Waiting(1) /\ (mac' = "name" => Past(1)') /\ (mac' = "ack_start" => Waiting(1)')
    BY <1>4, <2>1 DEF Past, Waiting
  <2>3. "ack_start" \in Awaiting /\ "name" \in Sending
    BY DEF Awaiting, Sending
  <2> QED BY <2>1, <2>2, <2>3, Awaits
<1>7. CASE SendWord
  <2>1. /\ mac = "name" /\ mac' = "ack_word" /\ toPi' = toPi \o NameWord(name, sent + 1)
        /\ sent < W /\ sent' = sent + 1
        /\ UNCHANGED <<name, counter, saved, claim, piVars, toMac>>
    BY <1>7 DEF SendWord, Put32
  <2>9. PICK j \in Nat : j = sent + 1
    BY <1>2
  <2>2. j \in Nat /\ j + 1 <= W + 4 /\ j \in 1 .. W
    BY <2>9, <1>2, <2>1
  <2>3. Past(j) /\ Waiting(j + 1)'
    BY <2>9, <1>2, <2>1 DEF Past, Waiting
  <2>4. mac \in Sending /\ mac' \in Awaiting \cup {"select", "ack_offer"} /\ sent' \in 0 .. W
    BY <1>2, <2>1 DEF Sending, Awaiting
  <2>5. toPi' = toPi \o Script(j + 1)
    BY <1>3, <2>1, <2>2, <2>9
  <2>6. UNCHANGED <<name, counter, saved, claim, piVars, toMac>>
    BY <2>1
  <2> QED BY <2>2, <2>3, <2>4, <2>5, <2>6, Says
<1>8. CASE AckWord
  <2>1. AwaitDummy("ack_word", "name") /\ mac = "ack_word" /\ sent' = sent
    BY <1>8 DEF AckWord, AwaitDummy
  <2>9. PICK j \in Nat : j = sent + 1
    BY <1>2
  <2>2. pi # "loader" => Waiting(j) /\ (mac' = "name" => Past(j)') /\ (mac' = "ack_word" => Waiting(j)')
    BY <2>9, <1>4, <2>1 DEF Past, Waiting
  <2>3. "ack_word" \in Awaiting /\ "name" \in Sending
    BY DEF Awaiting, Sending
  <2> QED BY <2>1, <2>2, <2>3, Awaits
<1>9. CASE AskMount
  <2>1. /\ mac = "name" /\ mac' = "select" /\ toPi' = toPi \o CONFIG_INIT
        /\ sent = W /\ sent' = sent /\ name' = name
        /\ UNCHANGED <<name, counter, saved, claim, piVars, toMac>>
    BY <1>9 DEF AskMount, Put32
  <2>9. PICK j \in Nat : j = W + 1
    BY <1>2
  <2>2. j \in Nat /\ j + 1 <= W + 4 /\ j + 1 = W + 2
    BY <2>9, <1>2
  <2>3. Past(j) /\ Waiting(j + 1)'
    BY <2>9, <2>1, <2>2 DEF Past, Waiting
  <2>4. mac \in Sending /\ mac' \in Awaiting \cup {"select", "ack_offer"} /\ sent' \in 0 .. W
    BY <1>1, <2>1 DEF Sending, Awaiting
  <2>5. toPi' = toPi \o Script(j + 1)
    BY <1>3, <2>1, <2>2
  <2>6. UNCHANGED <<name, counter, saved, claim, piVars, toMac>>
    BY <2>1
  <2> QED BY <2>2, <2>3, <2>4, <2>5, <2>6, Says
<1>10. CASE Readable
  BY <1>10, ReadableKeeps
<1>11. CASE AckMount
  <2>1. AwaitDummy("ack_mount", "mounted") /\ mac = "ack_mount" /\ sent' = sent /\ name' = name
    BY <1>11 DEF AckMount, AwaitDummy
  <2>9. PICK j \in Nat : j = W + 2
    BY <1>2
  <2>2. pi # "loader" => Waiting(j) /\ (mac' = "mounted" => Past(j)') /\ (mac' = "ack_mount" => Waiting(j)')
    BY <2>9, <1>4, <2>1 DEF Past, Waiting
  <2>3. "ack_mount" \in Awaiting /\ "mounted" \in Sending
    BY DEF Awaiting, Sending
  <2> QED BY <2>1, <2>2, <2>3, Awaits
<1>12. CASE AskId
  <2>1. /\ mac = "mounted" /\ mac' = "ack_request" /\ toPi' = toPi \o REQUEST_ID
        /\ sent' = sent /\ name' = name
        /\ UNCHANGED <<name, counter, saved, claim, piVars, toMac>>
    BY <1>12 DEF AskId, Put32
  <2>9. PICK j \in Nat : j = W + 2
    BY <1>2
  <2>2. j \in Nat /\ j + 1 <= W + 4 /\ j + 1 = W + 3
    BY <2>9, <1>2
  <2>3. Past(j) /\ Waiting(j + 1)'
    BY <2>9, <2>1, <2>2 DEF Past, Waiting
  <2>4. mac \in Sending /\ mac' \in Awaiting \cup {"select", "ack_offer"} /\ sent' \in 0 .. W
    BY <1>1, <2>1 DEF Sending, Awaiting
  <2>5. toPi' = toPi \o Script(j + 1)
    BY <1>3, <2>1, <2>2
  <2>6. UNCHANGED <<name, counter, saved, claim, piVars, toMac>>
    BY <2>1
  <2> QED BY <2>2, <2>3, <2>4, <2>5, <2>6, Says
<1>13. CASE AckRequest
  <2>1. AwaitDummy("ack_request", "offer") /\ mac = "ack_request" /\ sent' = sent /\ name' = name
    BY <1>13 DEF AckRequest, AwaitDummy
  <2>9. PICK j \in Nat : j = W + 3
    BY <1>2
  <2>2. Waiting(j) /\ (mac' = "offer" => Past(j)') /\ (mac' = "ack_request" => Waiting(j)')
    BY <2>9, <2>1 DEF Past, Waiting
  <2>3. "ack_request" \in Awaiting /\ "offer" \in Sending
    BY DEF Awaiting, Sending
  <2> QED BY <2>1, <2>2, <2>3, Awaits
<1>14. CASE OfferId
  <2>1. /\ mac = "offer" /\ mac' = "ack_offer" /\ toPi' = toPi \o OfferWord(counter)
        /\ sent' = sent /\ name' = name
        /\ UNCHANGED <<name, counter, saved, claim, piVars, toMac>>
    BY <1>14 DEF OfferId, Put32
  <2>9. PICK j \in Nat : j = W + 3
    BY <1>2
  <2>2. j \in Nat /\ j + 1 <= W + 4 /\ j + 1 = W + 4
    BY <2>9, <1>2
  <2>3. Past(j) /\ Waiting(j + 1)'
    BY <2>9, <2>1, <2>2 DEF Past, Waiting
  <2>4. mac \in Sending /\ mac' \in Awaiting \cup {"select", "ack_offer"} /\ sent' \in 0 .. W
    BY <1>1, <2>1 DEF Sending, Awaiting
  <2>5. toPi' = toPi \o Script(j + 1)
    BY <1>1, <1>3, <2>1, <2>2 DEF Booked
  <2>6. UNCHANGED <<name, counter, saved, claim, piVars, toMac>>
    BY <2>1
  <2> QED BY <2>2, <2>3, <2>4, <2>5, <2>6, Says
<1>15. CASE AckOffer
  BY <1>15, AckOfferKeeps
<1>16. CASE ReadClaim
  BY <1>16, ReadClaimKeeps
<1>17. CASE SelectTimeout
  <2>1. /\ mac = "select" /\ mac' = "gave_up"
        /\ UNCHANGED <<name, sent, counter, saved, claim, piVars, toPi, toMac>>
    BY <1>17 DEF SelectTimeout
  <2>2. counter = saved
    BY <1>1, <2>1 DEF Booked
  <2> QED BY <2>1, <2>2, GivesUp
<1>18. CASE ReadTimeout
  <2>1. /\ mac # "done" /\ mac' = "panicked"
        /\ UNCHANGED <<name, sent, counter, saved, claim, piVars, toPi, toMac>>
    BY <1>18 DEF ReadTimeout, Reading
  <2> QED BY <2>1, GivesUp
<1> QED
  BY <1>5, <1>6, <1>7, <1>8, <1>9, <1>10, <1>11, <1>12, <1>13, <1>14, <1>15, <1>16, <1>17, <1>18
  DEF MacWorks

----------------------------------------------------------------------------
(***************************************************************************)
(* The steps of the pi.                                                     *)
(***************************************************************************)
\* The first word on a line does not change when more comes behind it.
LEMMA WordStays ==
  ASSUME NEW t \in Seq(Byte), NEW b \in Byte, Len(t) >= 4
  PROVE  SubSeq(Append(t, b), 1, 4) = SubSeq(t, 1, 4) /\ Len(Append(t, b)) >= 4
<1> DEFINE u == Append(t, b)
<1>1. /\ u \in Seq(Byte) /\ Len(u) = Len(t) + 1 /\ Len(t) \in Nat
      /\ \A i \in 1 .. Len(t) : u[i] = t[i]
  BY AppendProperties, LenProperties
<1> HIDE DEF u
<1>2. \A i \in 1 .. 4 : 1 + i - 1 = i /\ i \in 1 .. Len(t)
  BY <1>1
<1>3. /\ SubSeq(t, 1, 4) \in Seq(Byte) /\ Len(SubSeq(t, 1, 4)) = 4
      /\ \A i \in 1 .. 4 : SubSeq(t, 1, 4)[i] = t[i]
  <2>1. 1 \in 1 .. Len(t) + 1 /\ 4 \in 1 - 1 .. Len(t) /\ 4 - 1 + 1 = 4
    BY <1>1
  <2> QED BY <1>2, <2>1, Part
<1>4. /\ SubSeq(u, 1, 4) \in Seq(Byte) /\ Len(SubSeq(u, 1, 4)) = 4
      /\ \A i \in 1 .. 4 : SubSeq(u, 1, 4)[i] = u[i]
  <2>1. 1 \in 1 .. Len(u) + 1 /\ 4 \in 1 - 1 .. Len(u) /\ 4 - 1 + 1 = 4
    BY <1>1
  <2> QED BY <1>1, <1>2, <2>1, Part
<1>5. \A i \in 1 .. 4 : SubSeq(u, 1, 4)[i] = SubSeq(t, 1, 4)[i]
  BY <1>1, <1>2, <1>3, <1>4
<1>6. SubSeq(u, 1, 4) = SubSeq(t, 1, 4)
  BY <1>3, <1>4, <1>5, SameSeq
<1>7. Len(u) >= 4
  BY <1>1
<1> QED BY <1>6, <1>7 DEF u

LEMMA PutByteKeeps ==
  ASSUME LinkInv, PutByte
  PROVE  LinkInv'
<1>1. /\ out # << >> /\ toMac' = Append(toMac, Head(out)) /\ out' = Tail(out)
      /\ name' = name /\ mac' = mac /\ sent' = sent /\ counter' = counter /\ saved' = saved
      /\ claim' = claim /\ pi' = pi /\ op' = op /\ words' = words /\ cfg' = cfg /\ answer' = answer
      /\ toPi' = toPi
  BY DEF PutByte, macVars
<1>2. /\ TypeOK /\ Stored /\ Ended /\ Hears /\ OneWordApart /\ CutOff /\ Answered /\ Booked
      /\ OneWordInFlight /\ CountedIsRecorded
  BY DEF LinkInv
<1>3. toMac \in Seq(Byte) /\ out \in Seq(Byte) /\ Head(out) \in Byte
  <2>1. toMac \in Seq(Byte) /\ out \in Seq(Byte)
    BY <1>2 DEF TypeOK
  <2> QED BY <1>1, <2>1, Rest
<1>4. toMac' \in Seq(Byte) /\ out' \in Seq(Byte) /\ Reply' = Reply
  <2>1. /\ Append(toMac, Head(out)) \in Seq(Byte) /\ Tail(out) \in Seq(Byte)
        /\ Append(toMac, Head(out)) \o Tail(out) = toMac \o out
    BY <1>1, <1>3, MoveByte
  <2> QED BY <1>1, <2>1 DEF Reply
<1>5. Len(toMac) >= 4 => Len(toMac') >= 4 /\ Word' = Word
  BY <1>1, <1>3, WordStays DEF Word
<1>6. TypeOK'
  BY <1>1, <1>2, <1>4 DEF TypeOK
<1>7. /\ Stored' /\ Ended' /\ Heard' = Heard /\ Due' = Due
      /\ (Unsent => Unsent') /\ (Coming => Coming')
  BY <1>1, <1>2, SamePi, SameLine
<1>8. \A i : (Waiting(i) => Waiting(i)') /\ (Past(i) => Past(i)')
  BY <1>1 DEF Waiting, Past
<1>9. Hears'
  BY <1>1, <1>2, <1>7 DEF Hears
<1>10. OneWordApart'
  <2>1. Waiting(Heard + 1) => Waiting(Heard + 1)'
    BY <1>7, <1>8
  <2>2. Waiting(Heard) => Waiting(Heard)'
    BY <1>7, <1>8
  <2>3. Past(Heard) => Past(Heard)'
    BY <1>7, <1>8
  <2>4. (Repeat(answer.id) \o DONE)' = Repeat(answer.id) \o DONE
    BY <1>1 DEF Repeat, DONE
  <2>5. DONE' = DONE
    BY DEF DONE
  <2> QED BY <1>1, <1>2, <1>4, <1>7, <2>1, <2>2, <2>3, <2>4, <2>5 DEF OneWordApart
<1>11. CutOff'
  <2>1. DUMMY' = DUMMY /\ DUMMY2' = DUMMY2 /\ Later(Reply, 4)' = Later(Reply, 4) /\ (Dull(Reply) => Dull(Reply)')
    BY <1>4 DEF DUMMY, DUMMY2, Later, Dull
  <2>2. (Dull(Later(Reply, 4)) => Dull(Later(Reply, 4))')
    BY <2>1 DEF Dull
  <2> QED BY <1>1, <1>2, <1>5, <2>1, <2>2 DEF CutOff, Recorded, Sure
<1>12. Answered' /\ Booked' /\ CountedIsRecorded' /\ OneWordInFlight'
  BY <1>1, <1>2 DEF Answered, Booked, CountedIsRecorded, OneWordInFlight, Recorded, Sure
<1> QED BY <1>6, <1>7, <1>9, <1>10, <1>11, <1>12 DEF LinkInv

\* The pi waits for w and reads a byte.  op is w only behind the last byte of a
\* word.
LEMMA Shifts ==
  ASSUME LinkInv, NEW from \in {"wait_start", "wait_config", "wait_request"}, NEW w \in Seq(Byte), Len(w) = 4,
         NEW to, NEW reply, AwaitWord(from, w, to, reply),
         \A i \in 2 .. 4 : OpBefore[i] # w[1]
  PROVE  /\ Coming /\ pi = from /\ out = << >> /\ toPi # << >>
         /\ op' \in Byte4 /\ toPi' \in Seq(Byte) /\ Len(toPi') <= 4
         /\ \/ op' = w /\ toPi' = << >> /\ Script(Heard + 1) = w
            \/ /\ op' # w
               /\ \E k \in 1 .. 4 :
                     /\ op' = SubSeq(OpBefore \o Script(Heard + 1), k + 1, k + 4)
                     /\ toPi' = SubSeq(Script(Heard + 1), k + 1, 4)
                     /\ k = 4 => Script(Heard + 1) # w
<1> DEFINE v == Script(Heard + 1)
           b == OpBefore
<1>1. /\ TypeOK /\ Stored /\ Hears /\ OneWordInFlight
  BY DEF LinkInv
<1>2. /\ pi = from /\ out = << >> /\ toPi # << >> /\ op' = Append(Tail(op), Head(toPi))
      /\ toPi' = Tail(toPi)
  BY DEF AwaitWord
<1>3. Coming
  BY <1>1, <1>2 DEF Hears, Unsent
<1>4. v \in Seq(Byte) /\ Len(v) = 4
  BY <1>1, <1>3, ComingIs
<1>5. b \in Seq(Byte) /\ Len(b) = 4
  BY <1>1, <1>2, OpBeforeWord
<1>6. SubSeq(v, 4 + 1, 4) = << >> /\ SubSeq(b \o v, 4 + 1, 4 + 4) = v
  BY <1>4, <1>5, ShiftEnds
<1>7. PICK k \in 0 .. 3 : op = SubSeq(b \o v, k + 1, k + 4) /\ toPi = SubSeq(v, k + 1, 4)
  <2>1. (\E k \in 0 .. 3 : Shifted(k, b, v)) \/ Shifted(4, b, v)
    BY <1>2, <1>3 DEF Coming
  <2>2. ~Shifted(4, b, v)
    BY <1>2, <1>6 DEF Shifted
  <2> QED BY <2>1, <2>2 DEF Shifted
<1>8. \A i \in 2 .. 4 : b[i] # w[1]
  OBVIOUS
<1> HIDE DEF v, b
<1>9. /\ op \in Seq(Byte) /\ Len(op) = 4 /\ toPi \in Seq(Byte)
      /\ op' = SubSeq(b \o v, k + 2, k + 5)
      /\ toPi' = SubSeq(v, k + 2, 4)
  <2>1. PICK c \in Seq(Byte), u \in Seq(Byte), o \in {op}, t \in {toPi} : c = b /\ u = v
    BY <1>4, <1>5
  <2>2. ShiftOf(c, u, k, o, t) /\ Len(c) = 4 /\ Len(u) = 4
    BY <1>4, <1>5, <1>7, <2>1 DEF ShiftOf
  <2>3. /\ o \in Seq(Byte) /\ Len(o) = 4 /\ t \in Seq(Byte)
    <3>1. o \in Seq(Byte)
      BY <2>2, ShiftByte
    <3>2. Len(o) = 4
      BY <2>2, ShiftByte
    <3>3. t \in Seq(Byte)
      BY <2>2, ShiftByte
    <3> QED BY <3>1, <3>2, <3>3
  <2>4. ShiftOf(c, u, k + 1, Append(Tail(o), Head(t)), Tail(t))
    BY <2>2, ShiftByte
  <2>5. ShiftOf(b, v, k + 1, op', toPi')
    BY <1>2, <2>1, <2>4
  <2>6. k + 1 + 1 = k + 2 /\ k + 1 + 4 = k + 5
    OBVIOUS
  <2> QED BY <2>1, <2>3, <2>5, <2>6 DEF ShiftOf
<1>10. /\ b \o v \in Seq(Byte) /\ Len(b \o v) = 8
       /\ \A i \in 1 .. 4 : (b \o v)[i] = b[i]
  <2> DEFINE c == b \o v
  <2>1. /\ c \in Seq(Byte) /\ Len(c) = Len(b) + Len(v)
        /\ \A i \in 1 .. Len(b) : c[i] = b[i]
    BY <1>4, <1>5, Joined
  <2> HIDE DEF c
  <2>2. c \in Seq(Byte) /\ Len(c) = 8 /\ \A i \in 1 .. 4 : c[i] = b[i]
    BY <1>4, <1>5, <2>1
  <2> QED BY <2>2 DEF c
<1>11. op' \in Seq(Byte) /\ Len(op') = 4 /\ op'[1] = (b \o v)[k + 2]
  <2> DEFINE c == b \o v
             m == k + 2
             n == k + 5
  <2>1. c \in Seq(Byte) /\ m \in 1 .. Len(c) + 1 /\ n \in m - 1 .. Len(c) /\ n - m + 1 = 4 /\ m + 1 - 1 = m
    BY <1>10
  <2>2. op' = SubSeq(c, m, n)
    BY <1>9
  <2> HIDE DEF c, m, n
  <2>3. /\ op' \in Seq(Byte) /\ Len(op') = n - m + 1
        /\ \A i \in 1 .. n - m + 1 : op'[i] = c[m + i - 1]
    BY <2>1, <2>2, Part
  <2>4. op' \in Seq(Byte) /\ Len(op') = 4 /\ op'[1] = c[m]
    BY <2>1, <2>3
  <2> QED BY <2>4 DEF c, m
<1>12. op' \in Byte4
  BY <1>11, WordIsByte4
<1>13. toPi' \in Seq(Byte) /\ Len(toPi') <= 4
  <2>1. Tail(toPi) \in Seq(Byte) /\ Len(Tail(toPi)) = Len(toPi) - 1
    BY <1>2, <1>9, Rest
  <2>2. Len(toPi) \in Nat /\ Len(toPi) <= 4
    BY <1>1, <1>9, LenProperties DEF OneWordInFlight
  <2>3. Len(toPi) - 1 <= 4
    BY <2>2
  <2> QED BY <1>2, <2>1, <2>3
<1>14. k # 3 => op' # w
  <2>1. SUFFICES ASSUME k # 3 PROVE op' # w
    OBVIOUS
  <2>2. k + 2 \in 2 .. 4 /\ k + 2 \in 1 .. 4
    BY <2>1
  <2>3. op'[1] = b[k + 2]
    BY <1>10, <1>11, <2>2
  <2> QED BY <1>8, <2>2, <2>3
<1>15. k = 3 => op' = v /\ toPi' = << >>
  <2>1. SUFFICES ASSUME k = 3 PROVE op' = v /\ toPi' = << >>
    OBVIOUS
  <2>2. k + 2 = 4 + 1 /\ k + 5 = 4 + 4
    BY <2>1
  <2> QED BY <1>6, <1>9, <2>2
<1>16. \/ op' = w /\ toPi' = << >> /\ v = w
       \/ /\ op' # w
          /\ \E i \in 1 .. 4 :
                /\ op' = SubSeq(b \o v, i + 1, i + 4)
                /\ toPi' = SubSeq(v, i + 1, 4)
                /\ i = 4 => v # w
  <2>1. CASE op' = w
    BY <1>14, <1>15, <2>1
  <2>2. CASE op' # w
    <3> DEFINE i == k + 1
    <3>1. i \in 1 .. 4 /\ i + 1 = k + 2 /\ i + 4 = k + 5
      OBVIOUS
    <3>2. op' = SubSeq(b \o v, i + 1, i + 4) /\ toPi' = SubSeq(v, i + 1, 4)
      BY <1>9, <3>1
    <3>3. i = 4 => v # w
      BY <1>15, <2>2
    <3> HIDE DEF i
    <3> QED BY <2>2, <3>1, <3>2, <3>3
  <2> QED BY <2>1, <2>2
<1> QED BY <1>2, <1>3, <1>12, <1>13, <1>16 DEF v, b

\* A step of the pi that is not the last one does not touch the books of the mac.
LEMMA SameBooks ==
  ASSUME LinkInv, UNCHANGED <<macVars, cfg, answer>>,
         pi \notin {"loader", "done"}, pi' \notin {"loader", "done"}
  PROVE  CutOff' /\ Answered' /\ Booked' /\ CountedIsRecorded'
<1>1. /\ name' = name /\ mac' = mac /\ sent' = sent /\ counter' = counter /\ saved' = saved
      /\ claim' = claim /\ cfg' = cfg /\ answer' = answer
  BY DEF macVars
<1>2. Answered /\ Booked /\ CountedIsRecorded
  BY DEF LinkInv
<1> QED BY <1>1, <1>2 DEF CutOff, Answered, Booked, CountedIsRecorded, Recorded, Sure

\* While a word is on its way, the mac waits for the answer to it, or is gone.
LEMMA OnItsWay ==
  ASSUME LinkInv, pi # "loader", toPi # << >>
  PROVE  Coming /\ (mac \notin {"gave_up", "panicked"} => Waiting(Heard + 1) /\ Reply = << >>)
BY DEF LinkInv, Hears, OneWordApart, Unsent

\* The pi has read a word of the mac to its end, and answers.
LEMMA HearsWord ==
  ASSUME LinkInv, pi \notin {"loader", "done"}, pi' \in PiStates \ {"loader", "done"}, toPi # << >>,
         UNCHANGED <<macVars, cfg, answer, toMac>>,
         op' \in Byte4, words' \in Seq(Byte4), 4 * Len(words') <= MaxNameLen, out' \in Seq(Byte),
         toPi' = << >>, op' = OpBefore', Heard' = Heard + 1, out' \in Due',
         Stored', Ended'
  PROVE  LinkInv'
<1>1. /\ name' = name /\ mac' = mac /\ sent' = sent /\ counter' = counter /\ saved' = saved
      /\ claim' = claim /\ cfg' = cfg /\ answer' = answer /\ toMac' = toMac
  BY DEF macVars
<1>2. /\ TypeOK
  BY DEF LinkInv
<1>3. TypeOK'
  <2>1. toPi' \in Seq(Byte)
    OBVIOUS
  <2> QED BY <1>1, <1>2, <2>1 DEF TypeOK
<1>4. Unsent'
  BY DEF Unsent
<1>5. Hears'
  BY <1>4 DEF Hears
<1>6. OneWordApart'
  <2>1. SUFFICES ASSUME mac' \notin {"gave_up", "panicked"} PROVE OneWordApart'
    BY DEF OneWordApart
  <2>2. Waiting(Heard + 1) /\ Reply = << >>
    BY <1>1, <2>1, OnItsWay
  <2>3. Waiting(Heard)'
    <3>1. \A i : Waiting(i) => Waiting(i)'
      BY <1>1 DEF Waiting
    <3>2. PICK j : j = Heard + 1
      OBVIOUS
    <3>3. Waiting(j)'
      BY <2>2, <3>1, <3>2
    <3>4. (Heard = j)'
      BY <3>2
    <3> QED BY <3>3, <3>4
  <2>4. Reply' \in Due'
    <3>1. toMac' = << >>
      BY <1>1, <1>2, <2>2, ReplyIs
    <3>2. Reply' = out'
      BY <3>1, ConcatEmptySeq DEF Reply
    <3> QED BY <3>2
  <2> QED BY <1>4, <2>3, <2>4 DEF OneWordApart
<1>7. CutOff' /\ Answered' /\ Booked' /\ CountedIsRecorded'
  BY SameBooks
<1>8. OneWordInFlight'
  <2>1. Len(toPi') = 0
    OBVIOUS
  <2> QED BY <2>1 DEF OneWordInFlight
<1> QED BY <1>3, <1>5, <1>6, <1>7, <1>8 DEF LinkInv

\* The pi speaks when it is done at its SD card.
LEMMA Speaks ==
  ASSUME LinkInv, pi \in {"mount", "lookup"}, UNCHANGED <<macVars, toMac, toPi>>,
         op' = OpBefore', Heard' = Heard, out' \in Due', out' \in Seq(Byte)
  PROVE  /\ toPi = << >> /\ op = OpBefore
         /\ Hears' /\ OneWordApart' /\ OneWordInFlight'
         /\ mac \notin {"claim", "done"}
<1>1. /\ name' = name /\ mac' = mac /\ sent' = sent /\ toMac' = toMac /\ toPi' = toPi
  BY DEF macVars
<1>2. TypeOK /\ OneWordApart /\ Hears /\ OneWordInFlight
  BY DEF LinkInv
<1>3. Unsent
  BY <1>2 DEF Hears, Coming
<1>4. Unsent'
  BY <1>1, <1>3 DEF Unsent
<1>5. mac \notin {"gave_up", "panicked"} => Waiting(Heard) /\ Reply = << >>
  <2>1. Due = {<< >>}
    BY DEF Due
  <2>2. ~Coming
    BY DEF Coming
  <2> QED BY <1>2, <2>1, <2>2 DEF OneWordApart
<1>6. mac \notin {"claim", "done"}
  BY <1>5 DEF Waiting
<1>7. OneWordApart'
  <2>1. SUFFICES ASSUME mac' \notin {"gave_up", "panicked"} PROVE OneWordApart'
    BY DEF OneWordApart
  <2>2. Waiting(Heard) /\ toMac = << >>
    BY <1>1, <1>2, <1>5, <2>1, ReplyIs
  <2>3. Waiting(Heard)'
    <3>1. \A i : Waiting(i) => Waiting(i)'
      BY <1>1 DEF Waiting
    <3>2. PICK j : j = Heard
      OBVIOUS
    <3>3. Waiting(j)'
      BY <2>2, <3>1, <3>2
    <3> QED BY <3>2, <3>3
  <2>4. Reply' = out'
    BY <1>1, <2>2, ConcatEmptySeq DEF Reply
  <2> QED BY <1>4, <2>3, <2>4 DEF OneWordApart
<1>8. Hears'
  BY <1>4 DEF Hears
<1>9. OneWordInFlight'
  BY <1>1, <1>2 DEF OneWordInFlight
<1> QED BY <1>3, <1>6, <1>7, <1>8, <1>9 DEF Unsent
\* The pi has shifted in one more byte, and goes on waiting.
LEMMA GoesOn ==
  ASSUME LinkInv, pi \in {"wait_start", "wait_config", "wait_request"}, pi' = pi, out' = out, toPi # << >>,
         UNCHANGED <<macVars, words, cfg, answer, toMac>>,
         op' \in Byte4, toPi' \in Seq(Byte), Len(toPi') <= 4,
         NEW k \in 1 .. 4,
         op' = SubSeq(OpBefore \o Script(Heard + 1), k + 1, k + 4),
         toPi' = SubSeq(Script(Heard + 1), k + 1, 4),
         k = 4 => pi = "wait_config" /\ Script(Heard + 1) # CONFIG_INIT
  PROVE  LinkInv'
<1>1. /\ name' = name /\ mac' = mac /\ sent' = sent /\ counter' = counter /\ saved' = saved
      /\ claim' = claim /\ words' = words /\ cfg' = cfg /\ answer' = answer /\ toMac' = toMac
      /\ pi' = pi /\ out' = out
  BY DEF macVars
<1>2. TypeOK /\ Stored /\ Ended
  BY DEF LinkInv
<1>3. TypeOK'
  BY <1>1, <1>2 DEF TypeOK
<1>4. /\ Heard' = Heard /\ OpBefore' = OpBefore /\ \A i : Script(i)' = Script(i)
  <2>1. Heard' = Heard
    BY <1>1 DEF Heard
  <2>2. OpBefore' = OpBefore
    BY <1>1 DEF OpBefore
  <2>3. \A i : Script(i)' = Script(i)
    BY <1>1, SameScript
  <2> QED BY <2>1, <2>2, <2>3
<1>5. Stored' /\ Ended'
  <2>1. Stored'
    BY <1>1, <1>2, <1>4 DEF Stored
  <2>2. Ended'
    BY <1>1, <1>2 DEF Ended, Mounted, NameIsOver
  <2> QED BY <2>1, <2>2
<1>6. Coming /\ (mac \notin {"gave_up", "panicked"} => Waiting(Heard + 1) /\ Reply = << >>)
  BY OnItsWay
<1>7. Coming'
  <2>1. Script(Heard + 1)' = Script(Heard + 1)
    BY <1>4
  <2>2. Shifted(k, OpBefore, Script(Heard + 1))'
    BY <1>4, <2>1 DEF Shifted
  <2>3. (Heard + 1 <= WordsInName(name) + 4)'
    BY <1>1, <1>4, <1>6 DEF Coming
  <2>4. CASE k = 4
    <3>1. (Script(Heard + 1) # CONFIG_INIT)'
      <4>1. CONFIG_INIT' = CONFIG_INIT
        BY DEF CONFIG_INIT
      <4> QED BY <2>1, <2>4, <4>1
    <3>2. Shifted(4, OpBefore, Script(Heard + 1))'
      BY <2>2, <2>4
    <3> QED BY <1>1, <2>3, <2>4, <3>1, <3>2 DEF Coming
  <2>5. CASE k # 4
    <3>1. k \in 0 .. 3
      BY <2>5
    <3> QED BY <1>1, <2>2, <2>3, <3>1 DEF Coming
  <2> QED BY <2>4, <2>5
<1>8. Hears'
  BY <1>7 DEF Hears
<1>9. OneWordApart'
  <2>1. SUFFICES ASSUME mac' \notin {"gave_up", "panicked"} PROVE OneWordApart'
    BY DEF OneWordApart
  <2>2. Waiting(Heard + 1) /\ Reply = << >>
    BY <1>1, <1>6, <2>1
  <2>3. Waiting(Heard + 1)'
    <3>1. \A i : Waiting(i) => Waiting(i)'
      BY <1>1 DEF Waiting
    <3>2. PICK j : j = Heard + 1
      OBVIOUS
    <3>3. Waiting(j)'
      BY <2>2, <3>1, <3>2
    <3> QED BY <1>4, <3>2, <3>3
  <2>4. Reply' = << >>
    BY <1>1, <2>2 DEF Reply
  <2> QED BY <1>7, <2>3, <2>4 DEF OneWordApart
<1>10. CutOff' /\ Answered' /\ Booked' /\ CountedIsRecorded'
  BY SameBooks
<1>11. OneWordInFlight'
  BY DEF OneWordInFlight
<1> QED BY <1>3, <1>5, <1>8, <1>9, <1>10, <1>11 DEF LinkInv

\* The three waits of entry: the word awaited is the one that comes, or another,
\* which only wait_config can meet.
LEMMA SeeStartKeeps ==
  ASSUME LinkInv, SeeStart
  PROVE  LinkInv'
<1> DEFINE w == FS_ID_START
<1>1. AwaitWord("wait_start", w, "name", DUMMY) /\ w \in Seq(Byte) /\ Len(w) = 4
  BY Constants4 DEF SeeStart
<1>2. pi = "wait_start"
  BY <1>1 DEF AwaitWord
<1>3. \A i \in 2 .. 4 : OpBefore[i] # w[1]
  BY <1>2, OpBeforeIs DEF FS_ID_START
<1>4. /\ TypeOK /\ Stored /\ Ended /\ name \in Names /\ saved \in Nat /\ words = << >>
      /\ WordsInName(name) \in Nat \ {0}
  BY <1>2, WordsIs DEF LinkInv, TypeOK, Ended
<1>5. Heard = 0 /\ Script(Heard + 1) = w
  BY <1>2, <1>4, HeardIs, ScriptIs
<1> HIDE DEF w
<1>6. /\ Coming /\ out = << >> /\ toPi # << >>
      /\ op' \in Byte4 /\ toPi' \in Seq(Byte) /\ Len(toPi') <= 4
      /\ \/ op' = w /\ toPi' = << >> /\ Script(Heard + 1) = w
         \/ /\ op' # w
            /\ \E k \in 1 .. 4 :
                  /\ op' = SubSeq(OpBefore \o Script(Heard + 1), k + 1, k + 4)
                  /\ toPi' = SubSeq(Script(Heard + 1), k + 1, 4)
                  /\ k = 4 => Script(Heard + 1) # w
  BY <1>1, <1>3, Shifts
<1>7. /\ name' = name /\ saved' = saved /\ UNCHANGED <<macVars, words, cfg, answer, toMac>>
      /\ words' = words
  BY <1>1 DEF AwaitWord, macVars
<1>8. CASE op' = w
  <2>1. pi' = "name" /\ out' = DUMMY /\ toPi' = << >>
    BY <1>1, <1>6, <1>8 DEF AwaitWord
  <2>2. op' = OpBefore'
    BY <1>8, <2>1, OpBeforeIsNext DEF w
  <2>3. Heard' = Heard + 1
    <3>1. Len(words) = 0
      BY <1>4
    <3> QED BY <1>5, <1>7, <2>1, <3>1, HeardIsNext
  <2>4. out' \in Due' /\ out' \in Seq(Byte)
    <3>1. Due' = {DUMMY}
      BY <2>1 DEF Due
    <3> QED BY <2>1, <3>1, Constants4
  <2>5. Stored'
    <3>1. \A i : Script(i)' = Script(i)
      BY <1>7, SameScript
    <3> QED BY <1>4, <1>7, <3>1 DEF Stored
  <2>6. Ended'
    <3>1. Len(<< >>) = 0 /\ 0 < MaxNameLen \div 4
      BY LengthAssumption
    <3>2. Len(words') < MaxNameLen \div 4 /\ ~NameIsOver(words')
      BY <1>4, <1>7, <3>1 DEF NameIsOver
    <3> QED BY <2>1, <3>2 DEF Ended, Mounted
  <2>7. pi' \in PiStates \ {"loader", "done"} /\ words' \in Seq(Byte4) /\ 4 * Len(words') <= MaxNameLen
    BY <1>4, <1>7, <2>1 DEF TypeOK, PiStates
  <2> QED BY <1>2, <1>6, <1>7, <2>1, <2>2, <2>3, <2>4, <2>5, <2>6, <2>7, HearsWord
<1>9. CASE op' # w
  <2>1. pi' = pi /\ out' = out
    BY <1>1, <1>9 DEF AwaitWord
  <2>2. PICK k \in 1 .. 4 :
           /\ op' = SubSeq(OpBefore \o Script(Heard + 1), k + 1, k + 4)
           /\ toPi' = SubSeq(Script(Heard + 1), k + 1, 4)
           /\ k = 4 => Script(Heard + 1) # w
    BY <1>6, <1>9
  <2>3. k # 4
    BY <1>5, <2>2
  <2> QED BY <1>2, <1>6, <1>7, <2>1, <2>2, <2>3, GoesOn
<1> QED BY <1>8, <1>9
LEMMA SeeConfigInitKeeps ==
  ASSUME LinkInv, SeeConfigInit
  PROVE  LinkInv'
<1> DEFINE w == CONFIG_INIT
<1>1. AwaitWord("wait_config", w, "mount", << >>) /\ w \in Seq(Byte) /\ Len(w) = 4
  BY Constants4 DEF SeeConfigInit
<1>2. pi = "wait_config"
  BY <1>1 DEF AwaitWord
<1>3. \A i \in 2 .. 4 : OpBefore[i] # w[1]
  BY <1>2, OpBeforeIs DEF FS_ID_START, CONFIG_INIT
<1>4. /\ TypeOK /\ Stored /\ Ended /\ name \in Names /\ saved \in Nat
      /\ WordsInName(name) \in Nat \ {0} /\ NameIsOver(words)
  BY <1>2, WordsIs DEF LinkInv, TypeOK, Ended
<1>5. Heard = Len(words) + 1 /\ Len(words) \in Nat
  BY <1>2, <1>4, HeardIs, LenProperties DEF TypeOK
<1> HIDE DEF w
<1>6. /\ Coming /\ out = << >> /\ toPi # << >>
      /\ op' \in Byte4 /\ toPi' \in Seq(Byte) /\ Len(toPi') <= 4
      /\ \/ op' = w /\ toPi' = << >> /\ Script(Heard + 1) = w
         \/ /\ op' # w
            /\ \E k \in 1 .. 4 :
                  /\ op' = SubSeq(OpBefore \o Script(Heard + 1), k + 1, k + 4)
                  /\ toPi' = SubSeq(Script(Heard + 1), k + 1, 4)
                  /\ k = 4 => Script(Heard + 1) # w
  BY <1>1, <1>3, Shifts
<1>7. /\ name' = name /\ saved' = saved /\ UNCHANGED <<macVars, words, cfg, answer, toMac>>
      /\ words' = words
  BY <1>1 DEF AwaitWord, macVars
<1>8. CASE op' = w
  <2>1. pi' = "mount" /\ out' = << >> /\ toPi' = << >> /\ Script(Heard + 1) = CONFIG_INIT
    BY <1>1, <1>6, <1>8 DEF AwaitWord, w
  <2>2. op' = OpBefore'
    BY <1>8, <2>1, OpBeforeIsNext DEF w
  <2>3. Heard + 1 = WordsInName(name) + 2
    <3>1. PICK i \in 1 .. WordsInName(name) + 4 : i = Heard + 1
      BY <1>4, <1>6, ComingIs
    <3>2. Script(i) = CONFIG_INIT
      BY <2>1, <3>1
    <3>3. i = WordsInName(name) + 2
      BY <1>4, <3>2, ScriptWords
    <3> QED BY <3>1, <3>3
  <2>4. Heard' = Heard + 1 /\ Len(words) = WordsInName(name)
    BY <1>4, <1>5, <1>7, <2>1, <2>3, HeardIsNext
  <2>5. out' \in Due' /\ out' \in Seq(Byte)
    <3>1. Due' = {<< >>}
      BY <2>1 DEF Due
    <3> QED BY <2>1, <3>1
  <2>6. Stored'
    <3>1. \A i : Script(i)' = Script(i)
      BY <1>7, SameScript
    <3> QED BY <1>4, <1>7, <3>1 DEF Stored
  <2>7. Ended'
    <3>1. NameIsOver(words') /\ Len(words') = WordsInName(name')
      BY <1>4, <1>7, <2>4
    <3> QED BY <2>1, <3>1 DEF Ended, Mounted
  <2>8. pi' \in PiStates \ {"loader", "done"} /\ words' \in Seq(Byte4) /\ 4 * Len(words') <= MaxNameLen
    BY <1>4, <1>7, <2>1 DEF TypeOK, PiStates
  <2> QED BY <1>2, <1>6, <1>7, <2>1, <2>2, <2>4, <2>5, <2>6, <2>7, <2>8, HearsWord
<1>9. CASE op' # w
  <2>1. pi' = pi /\ out' = out
    BY <1>1, <1>9 DEF AwaitWord
  <2>2. PICK k \in 1 .. 4 :
           /\ op' = SubSeq(OpBefore \o Script(Heard + 1), k + 1, k + 4)
           /\ toPi' = SubSeq(Script(Heard + 1), k + 1, 4)
           /\ k = 4 => Script(Heard + 1) # w
    BY <1>6, <1>9
  <2>3. k = 4 => Script(Heard + 1) # CONFIG_INIT
    BY <2>2 DEF w
  <2> QED BY <1>2, <1>6, <1>7, <2>1, <2>2, <2>3, GoesOn
<1> QED BY <1>8, <1>9

LEMMA SeeRequestKeeps ==
  ASSUME LinkInv, SeeRequest
  PROVE  LinkInv'
<1> DEFINE w == REQUEST_ID
           W == WordsInName(name)
<1>1. AwaitWord("wait_request", w, "wait_offer", DUMMY) /\ w \in Seq(Byte) /\ Len(w) = 4
  BY Constants4 DEF SeeRequest
<1>2. pi = "wait_request"
  BY <1>1 DEF AwaitWord
<1>3. \A i \in 2 .. 4 : OpBefore[i] # w[1]
  BY <1>2, OpBeforeIs DEF REQUEST_ID
<1>4. /\ TypeOK /\ Stored /\ Ended /\ name \in Names /\ saved \in Nat
      /\ W \in Nat \ {0} /\ NameIsOver(words) /\ Len(words) = W
  BY <1>2, WordsIs DEF LinkInv, TypeOK, Ended, Mounted
<1>5. Heard = W + 2 /\ Heard + 1 = W + 3 /\ Script(Heard + 1) = w
  <2>1. Heard = W + 2 /\ Script(W + 3) = w
    BY <1>2, <1>4, HeardIs, ScriptIs
  <2>2. Heard + 1 = W + 3
    BY <1>4, <2>1
  <2> QED BY <2>1, <2>2
<1> HIDE DEF w
<1>6. /\ Coming /\ out = << >> /\ toPi # << >>
      /\ op' \in Byte4 /\ toPi' \in Seq(Byte) /\ Len(toPi') <= 4
      /\ \/ op' = w /\ toPi' = << >> /\ Script(Heard + 1) = w
         \/ /\ op' # w
            /\ \E k \in 1 .. 4 :
                  /\ op' = SubSeq(OpBefore \o Script(Heard + 1), k + 1, k + 4)
                  /\ toPi' = SubSeq(Script(Heard + 1), k + 1, 4)
                  /\ k = 4 => Script(Heard + 1) # w
  BY <1>1, <1>3, Shifts
<1>7. /\ name' = name /\ saved' = saved /\ UNCHANGED <<macVars, words, cfg, answer, toMac>>
      /\ words' = words
  BY <1>1 DEF AwaitWord, macVars
<1>8. CASE op' = w
  <2>1. pi' = "wait_offer" /\ out' = DUMMY /\ toPi' = << >>
    BY <1>1, <1>6, <1>8 DEF AwaitWord
  <2>2. op' = OpBefore'
    BY <1>8, <2>1, OpBeforeIsNext DEF w
  <2>3. Heard' = Heard + 1
    BY <1>5, <1>7, <2>1, HeardIsNext
  <2>4. out' \in Due' /\ out' \in Seq(Byte)
    <3>1. Due' = {DUMMY}
      BY <2>1 DEF Due
    <3> QED BY <2>1, <3>1, Constants4
  <2>5. Stored'
    <3>1. \A i : Script(i)' = Script(i)
      BY <1>7, SameScript
    <3> QED BY <1>4, <1>7, <3>1 DEF Stored
  <2>6. Ended'
    <3>1. NameIsOver(words') /\ Len(words') = WordsInName(name')
      BY <1>4, <1>7
    <3> QED BY <2>1, <3>1 DEF Ended, Mounted
  <2>7. pi' \in PiStates \ {"loader", "done"} /\ words' \in Seq(Byte4) /\ 4 * Len(words') <= MaxNameLen
    BY <1>4, <1>7, <2>1 DEF TypeOK, PiStates
  <2> QED BY <1>2, <1>6, <1>7, <2>1, <2>2, <2>3, <2>4, <2>5, <2>6, <2>7, HearsWord
<1>9. CASE op' # w
  <2>1. pi' = pi /\ out' = out
    BY <1>1, <1>9 DEF AwaitWord
  <2>2. PICK k \in 1 .. 4 :
           /\ op' = SubSeq(OpBefore \o Script(Heard + 1), k + 1, k + 4)
           /\ toPi' = SubSeq(Script(Heard + 1), k + 1, 4)
           /\ k = 4 => Script(Heard + 1) # w
    BY <1>6, <1>9
  <2>3. k # 4
    BY <1>5, <2>2
  <2> QED BY <1>2, <1>6, <1>7, <2>1, <2>2, <2>3, GoesOn
<1> QED BY <1>8, <1>9
\* A pi that reads whole words finds the whole word.
LEMMA ComesWhole ==
  ASSUME LinkInv, pi \in {"name", "wait_offer"}, toPi # << >>
  PROVE  /\ op = OpBefore /\ toPi = Script(Heard + 1)
         /\ toPi \in Seq(Byte) /\ Len(toPi) = 4
         /\ SubSeq(toPi, 1, 4) = toPi /\ SubSeq(toPi, 5, Len(toPi)) = << >>
<1> DEFINE v == Script(Heard + 1)
           b == OpBefore
<1>1. TypeOK /\ Stored
  BY DEF LinkInv
<1>2. Coming
  BY OnItsWay
<1>3. v \in Seq(Byte) /\ Len(v) = 4
  BY <1>1, <1>2, ComingIs
<1>4. b \in Seq(Byte) /\ Len(b) = 4
  BY <1>1, OpBeforeWord
<1>5. Shifted(0, b, v)
  BY <1>2 DEF Coming
<1> HIDE DEF b, v
<1>6. op = SubSeq(b \o v, 0 + 1, 0 + 4) /\ toPi = SubSeq(v, 0 + 1, 4)
  BY <1>5 DEF Shifted
<1>7. op = b /\ toPi = v
  BY <1>3, <1>4, <1>6, ShiftEnds
<1>8. SubSeq(v, 1, 4) = v /\ SubSeq(v, 5, 4) = << >>
  BY <1>3, SubSeqFull, SubSeqEmpty
<1> QED BY <1>3, <1>7, <1>8 DEF b, v

LEMMA StoreWordKeeps ==
  ASSUME LinkInv, StoreWord
  PROVE  LinkInv'
<1> DEFINE W == WordsInName(name)
           M == MaxNameLen \div 4
           l == Len(words)
<1>1. /\ pi = "name" /\ out = << >> /\ Len(toPi) >= 4
      /\ words' = Append(words, SubSeq(toPi, 1, 4))
      /\ toPi' = SubSeq(toPi, 5, Len(toPi)) /\ out' = DUMMY
      /\ (NameIsOver(words') => pi' = "wait_config") /\ (~NameIsOver(words') => pi' = "name")
      /\ UNCHANGED <<macVars, cfg, answer, toMac>>
      /\ op' = op /\ name' = name /\ saved' = saved
  BY DEF StoreWord, macVars
<1>2. toPi # << >>
  BY <1>1
<1>3. /\ TypeOK /\ Stored /\ Ended /\ name \in Names /\ saved \in Nat /\ W \in Nat \ {0}
      /\ words \in Seq(Byte4) /\ l \in Nat /\ l < M
  BY <1>1, WordsIs, LenProperties DEF LinkInv, TypeOK, Ended
<1>4. Heard = l + 1 /\ Coming
  BY <1>1, <1>2, HeardIs, OnItsWay
<1> DEFINE v == Script(Heard + 1)
<1>5. v \in Byte4 /\ op = OpBefore /\ words' = Append(words, v) /\ toPi' = << >>
  <2>1. v \in Byte4
    BY <1>3, <1>4, ComingIs
  <2>2. op = OpBefore /\ toPi = v /\ SubSeq(toPi, 1, 4) = toPi /\ SubSeq(toPi, 5, Len(toPi)) = << >>
    BY <1>1, <1>2, ComesWhole
  <2> QED BY <1>1, <2>1, <2>2
<1>6. Heard + 1 = l + 2 /\ l + 1 <= W + 3
  BY <1>3, <1>4 DEF Coming
<1> HIDE DEF v
<1>7. /\ words' \in Seq(Byte4) /\ Len(words') = l + 1
      /\ \A i \in 1 .. l : words'[i] = words[i]
      /\ words'[l + 1] = v
  BY <1>3, <1>5, AppendProperties
<1>8. M \in Nat /\ 4 * M <= MaxNameLen /\ l + 1 <= M /\ 4 * (l + 1) <= MaxNameLen
  <2>1. M \in Nat /\ 4 * M <= MaxNameLen
    BY LengthAssumption
  <2> HIDE DEF M
  <2> QED BY <1>3, <2>1, LengthAssumption
<1>9. pi' \in {"name", "wait_config"}
  BY <1>1
<1>10. Stored'
  <2>1. \A i : Script(i)' = Script(i)
    BY <1>1, SameScript
  <2>2. ASSUME NEW i \in 1 .. l + 1 PROVE words'[i] = Script(i + 1)'
    <3>1. CASE i \in 1 .. l
      BY <1>3, <1>7, <2>1, <3>1 DEF Stored
    <3>2. CASE i = l + 1
      <4>1. i + 1 = l + 2
        BY <1>3, <3>2
      <4> QED BY <1>6, <1>7, <2>1, <3>2, <4>1 DEF v
    <3> QED BY <1>3, <3>1, <3>2
  <2>3. Len(words') <= WordsInName(name') + 3
    BY <1>1, <1>6, <1>7
  <2>4. \A i \in 1 .. Len(words') : words'[i] = Script(i + 1)'
    <3> HIDE DEF l
    <3> QED BY <1>7, <2>2
  <2>5. \A i \in 1 .. Len(words') - 1 : words'[i] # AllOnes'
    <3>1. ASSUME NEW i \in 1 .. l PROVE words'[i] # AllOnes
      <4>1. CASE i = l
        <5>1. words # << >>
          BY <1>3, <3>1, <4>1, EmptySeq
        <5>2. words[l] # AllOnes
          BY <1>1, <1>3, <5>1 DEF Ended, NameIsOver
        <5> QED BY <1>7, <4>1, <5>2
      <4>2. CASE i # l
        <5>1. i \in 1 .. l - 1
          BY <1>3, <4>2
        <5>2. words[i] # AllOnes
          BY <1>3, <5>1 DEF Stored
        <5> QED BY <1>7, <5>2
      <4> QED BY <4>1, <4>2
    <3>2. Len(words') - 1 = l /\ AllOnes' = AllOnes
      BY <1>3, <1>7 DEF AllOnes
    <3> HIDE DEF l
    <3> QED BY <3>1, <3>2
  <2> QED BY <2>3, <2>4, <2>5 DEF Stored
<1>11. Ended'
  <2>1. pi' = "name" => Len(words') < M /\ ~NameIsOver(words')
    <3>1. ~NameIsOver(words') => Len(words') # M
      BY DEF NameIsOver
    <3>2. Len(words') <= M /\ Len(words') \in Nat
      BY <1>3, <1>7, <1>8
    <3> HIDE DEF M
    <3> QED BY <1>1, <3>1, <3>2, <1>8
  <2> QED BY <1>1, <1>9, <2>1 DEF Ended, Mounted
<1>12. Heard' = Heard + 1
  BY <1>3, <1>4, <1>7, <1>9, HeardIsNext
<1>13. op' = OpBefore'
  BY <1>1, <1>5, <1>9, OpBeforeIs, OpBeforeIsNext
<1>14. out' \in Due' /\ out' \in Seq(Byte)
  <2>1. Due' = {DUMMY}
    BY <1>9 DEF Due
  <2> QED BY <1>1, <2>1, Constants4
<1>15. pi' \in PiStates \ {"loader", "done"} /\ 4 * Len(words') <= MaxNameLen /\ op' \in Byte4
  <2>1. op' \in Byte4
    BY <1>1, <1>3 DEF TypeOK
  <2> QED BY <1>7, <1>8, <1>9, <2>1 DEF PiStates
<1> QED BY <1>1, <1>2, <1>5, <1>7, <1>10, <1>11, <1>12, <1>13, <1>14, <1>15, HearsWord

LEMMA TakeOfferKeeps ==
  ASSUME LinkInv, TakeOffer
  PROVE  LinkInv'
<1> DEFINE W == WordsInName(name)
<1>1. /\ pi = "wait_offer" /\ pi' = "lookup" /\ out = << >> /\ Len(toPi) >= 4
      /\ op' = SubSeq(toPi, 1, 4) /\ toPi' = SubSeq(toPi, 5, Len(toPi))
      /\ UNCHANGED <<macVars, cfg, answer, toMac>>
      /\ name' = name /\ saved' = saved /\ words' = words /\ out' = out
  BY DEF TakeOffer, macVars
<1>2. toPi # << >>
  BY <1>1
<1>3. /\ TypeOK /\ Stored /\ Ended /\ name \in Names /\ saved \in Nat /\ W \in Nat \ {0}
      /\ NameIsOver(words) /\ Len(words) = W
  BY <1>1, WordsIs DEF LinkInv, TypeOK, Ended, Mounted
<1>4. Heard = W + 3 /\ Heard + 1 = W + 4 /\ Script(Heard + 1) = OfferWord(saved)
  <2>1. Heard = W + 3 /\ Script(W + 4) = OfferWord(saved)
    BY <1>1, <1>3, HeardIs, ScriptIs
  <2>2. Heard + 1 = W + 4
    BY <1>3, <2>1
  <2> QED BY <2>1, <2>2
<1>5. op' = OfferWord(saved) /\ op' \in Byte4 /\ toPi' = << >>
  <2>1. op' = OfferWord(saved) /\ toPi' = << >>
    BY <1>1, <1>2, <1>4, ComesWhole
  <2>2. OfferWord(saved) \in Byte4
    BY <1>3, OfferIs, WordIsByte4
  <2> QED BY <2>1, <2>2
<1>6. op' = OpBefore' /\ Heard' = Heard + 1
  BY <1>1, <1>4, <1>5, OpBeforeIsNext, HeardIsNext
<1>7. out' \in Due' /\ out' \in Seq(Byte)
  <2>1. Due' = {<< >>}
    BY <1>1 DEF Due
  <2> QED BY <1>1, <2>1
<1>8. Stored'
  <2>1. \A i : Script(i)' = Script(i)
    BY <1>1, SameScript
  <2> QED BY <1>1, <1>3, <2>1 DEF Stored
<1>9. Ended'
  <2>1. NameIsOver(words') /\ Len(words') = WordsInName(name')
    BY <1>1, <1>3
  <2> QED BY <1>1, <2>1 DEF Ended, Mounted
<1>10. pi' \in PiStates \ {"loader", "done"} /\ words' \in Seq(Byte4) /\ 4 * Len(words') <= MaxNameLen
  BY <1>1, <1>3 DEF TypeOK, PiStates
<1> QED BY <1>1, <1>2, <1>5, <1>6, <1>7, <1>8, <1>9, <1>10, HearsWord
\* The SD card.
LEMMA SdInitKeeps ==
  ASSUME LinkInv, SdInit
  PROVE  LinkInv'
<1>1. /\ pi = "sd_init" /\ pi' = "wait_start"
      /\ UNCHANGED <<macVars, cfg, answer, toMac>>
      /\ name' = name /\ mac' = mac /\ sent' = sent /\ counter' = counter /\ saved' = saved
      /\ claim' = claim /\ op' = op /\ words' = words /\ out' = out /\ cfg' = cfg /\ answer' = answer
      /\ toPi' = toPi /\ toMac' = toMac
  BY DEF SdInit, macVars
<1>2. TypeOK /\ Stored /\ Ended /\ Hears /\ OneWordApart /\ OneWordInFlight
  BY DEF LinkInv
<1>3. TypeOK'
  BY <1>1, <1>2 DEF TypeOK, PiStates
<1>4. /\ Heard = 0 /\ Heard' = 0 /\ OpBefore' = OpBefore /\ Due' = Due
      /\ \A i : Script(i)' = Script(i)
  <2>1. Heard = 0 /\ Heard' = 0 /\ OpBefore' = OpBefore
    BY <1>1, HeardIs, HeardIsNext, OpBeforeIs, OpBeforeIsNext
  <2>2. Due = {DUMMY} /\ Due' = {DUMMY}
    BY <1>1 DEF Due
  <2>3. \A i : Script(i)' = Script(i)
    BY <1>1, SameScript
  <2> QED BY <2>1, <2>2, <2>3
<1>5. Stored' /\ Ended'
  <2>1. Stored'
    BY <1>1, <1>2, <1>4 DEF Stored
  <2>2. Ended'
    BY <1>1, <1>2 DEF Ended, Mounted
  <2> QED BY <2>1, <2>2
<1>6. Unsent => Unsent'
  BY <1>1, <1>4 DEF Unsent
<1>7. Coming => Coming'
  <2>1. SUFFICES ASSUME Coming PROVE Coming'
    OBVIOUS
  <2>2. Shifted(0, OpBefore, Script(Heard + 1)) /\ Heard + 1 <= WordsInName(name) + 4
    BY <1>1, <2>1 DEF Coming
  <2>3. Script(Heard + 1)' = Script(Heard + 1)
    BY <1>4
  <2>4. Shifted(0, OpBefore, Script(Heard + 1))'
    BY <1>1, <1>4, <2>2, <2>3 DEF Shifted
  <2>5. (Heard + 1 <= WordsInName(name) + 4)' /\ 0 \in 0 .. 3
    BY <1>1, <1>4, <2>2
  <2> QED BY <1>1, <2>4, <2>5 DEF Coming
<1>8. Hears'
  BY <1>1, <1>2, <1>6, <1>7 DEF Hears
<1>9. Reply' = Reply /\ Heard' = Heard
  BY <1>1, <1>4 DEF Reply
<1>10. \A i : (Waiting(i) => Waiting(i)') /\ (Past(i) => Past(i)')
  BY <1>1 DEF Waiting, Past
<1>11. OneWordApart'
  <2>1. Waiting(Heard + 1) => Waiting(Heard + 1)'
    BY <1>9, <1>10
  <2>2. Waiting(Heard) => Waiting(Heard)'
    BY <1>9, <1>10
  <2>3. Past(Heard) => Past(Heard)'
    BY <1>9, <1>10
  <2> QED BY <1>1, <1>2, <1>4, <1>6, <1>7, <1>9, <2>1, <2>2, <2>3 DEF OneWordApart
<1>12. CutOff' /\ Answered' /\ Booked' /\ CountedIsRecorded'
  BY <1>1, SameBooks
<1>13. OneWordInFlight'
  BY <1>1, <1>2 DEF OneWordInFlight
<1> QED BY <1>3, <1>5, <1>8, <1>11, <1>12, <1>13 DEF LinkInv

LEMMA MountKeeps ==
  ASSUME LinkInv, Mount \/ MountPanics
  PROVE  LinkInv'
<1>1. /\ pi = "mount" /\ UNCHANGED <<macVars, cfg, answer, toMac, toPi>>
      /\ name' = name /\ mac' = mac /\ sent' = sent /\ counter' = counter /\ saved' = saved
      /\ claim' = claim /\ words' = words /\ cfg' = cfg /\ answer' = answer
      /\ toPi' = toPi /\ toMac' = toMac
  BY DEF Mount, MountPanics, macVars
<1>2. \/ pi' = "wait_request" /\ op' = <<0, 0, 0, 0>> /\ out' = DUMMY
      \/ pi' = "panicked" /\ op' = op /\ out' = PANIC
  BY DEF Mount, MountPanics
<1>3. TypeOK /\ Stored /\ Ended
  BY DEF LinkInv
<1>4. PANIC \in Seq(Byte) /\ Later(PANIC, 0) = PANIC
  <2>1. PANIC \in Seq(Byte)
    BY DEF PANIC, DONE, Byte
  <2>2. SubSeq(PANIC, 1, Len(PANIC)) = PANIC
    BY <2>1, SubSeqFull
  <2>3. 0 + 1 = 1
    OBVIOUS
  <2> QED BY <2>1, <2>2, <2>3 DEF Later
<1>5. op' \in Byte4 /\ out' \in Seq(Byte) /\ pi' \in PiStates
  <2>1. <<0, 0, 0, 0>> \in Seq(Byte) /\ Len(<<0, 0, 0, 0>>) = 4
    BY DEF Byte
  <2>2. <<0, 0, 0, 0>> \in Byte4
    BY <2>1, WordIsByte4
  <2>3. op \in Byte4
    BY <1>3 DEF TypeOK
  <2> QED BY <1>2, <1>4, <2>2, <2>3, Constants4 DEF PiStates
<1>6. TypeOK'
  BY <1>1, <1>3, <1>5 DEF TypeOK
<1>7. Heard' = Heard
  BY <1>1, <1>2, HeardIs, HeardIsNext
<1>8. op = OpBefore
  BY <1>1 DEF LinkInv, Hears, Coming, Unsent
<1>9. op' = OpBefore'
  BY <1>1, <1>2, <1>8, OpBeforeIs, OpBeforeIsNext
<1>10. out' \in Due'
  <2>1. CASE pi' = "wait_request"
    <3>1. Due' = {DUMMY}
      BY <2>1 DEF Due
    <3> QED BY <1>2, <2>1, <3>1
  <2>2. CASE pi' = "panicked"
    <3>1. Due' = {Later(PANIC, 4 * k) : k \in 0 .. 3}
      BY <2>2 DEF Due, Later, PANIC, DONE
    <3>2. 0 \in 0 .. 3 /\ 4 * 0 = 0 /\ out' = PANIC
      BY <1>2, <2>2
    <3>3. PANIC = Later(PANIC, 4 * 0)
      BY <1>4, <3>2
    <3> QED BY <3>1, <3>2, <3>3
  <2> QED BY <1>2, <2>1, <2>2
<1>11. Hears' /\ OneWordApart' /\ OneWordInFlight'
  BY <1>1, <1>5, <1>7, <1>9, <1>10, Speaks
<1>12. CutOff' /\ Answered' /\ Booked' /\ CountedIsRecorded'
  BY <1>1, <1>2, SameBooks
<1>13. Stored'
  <2>1. \A i : Script(i)' = Script(i)
    BY <1>1, SameScript
  <2> QED BY <1>1, <1>3, <2>1 DEF Stored
<1>14. Ended'
  <2>1. NameIsOver(words') /\ Len(words') = WordsInName(name')
    BY <1>1, <1>3 DEF Ended
  <2> QED BY <1>2, <2>1 DEF Ended, Mounted
<1> QED BY <1>6, <1>11, <1>12, <1>13, <1>14 DEF LinkInv

\* The pi answers, and the mac has not counted before it does.
LEMMA LookUpKeeps ==
  ASSUME LinkInv, LookUp
  PROVE  LinkInv'
<1>0. PICK found \in {OnDisk, None} \cup RecordedIds, written \in BOOLEAN :
         /\ found # None => written
         /\ answer' = [used |-> found = None, id |-> Claimed(found),
                       read |-> found = OnDisk, written |-> written]
         /\ cfg' = IF found = None /\ written THEN [name |-> GivenName, id |-> op[1]] ELSE cfg
         /\ out' = (IF found = None THEN DUMMY2 ELSE DUMMY) \o Repeat(Claimed(found)) \o DONE
  BY DEF LookUp
<1> DEFINE c == Claimed(found)
           r == [name |-> name, id |-> op[1]]
<1>1. /\ pi = "lookup" /\ pi' = "done" /\ UNCHANGED <<macVars, toMac, toPi>>
      /\ name' = name /\ mac' = mac /\ sent' = sent /\ counter' = counter /\ saved' = saved
      /\ claim' = claim /\ op' = op /\ words' = words /\ toPi' = toPi /\ toMac' = toMac
  BY DEF LookUp, macVars
<1>2. /\ TypeOK /\ Stored /\ Ended /\ Hears /\ Answered /\ Booked /\ CountedIsRecorded
      /\ name \in Names /\ saved \in Nat /\ words \in Seq(Byte4)
  BY DEF LinkInv, TypeOK
<1>3. StoredWell
  BY <1>2 DEF StoredWell
<1>4. GivenName = name
  <2>1. NameIsOver(words) /\ Len(words) = WordsInName(name)
    BY <1>1, <1>2 DEF Ended, Mounted
  <2>2. Len(words) <= MaxNameLen \div 4
    <3>1. 4 * Len(words) <= MaxNameLen /\ Len(words) \in Nat
      BY <1>2, LenProperties DEF TypeOK
    <3> QED BY <3>1, LengthAssumption
  <2>3. Len(name) <= 4 * (MaxNameLen \div 4)
    BY <1>3, <2>1, <2>2, StopsFramed
  <2> QED BY <1>3, <2>1, <2>3, NameWhole
<1>5. op = OpBefore /\ OpBefore = OfferWord(saved) /\ op[1] = saved % 256 /\ op[1] \in Byte
  <2>1. op = OpBefore /\ OpBefore = OfferWord(saved)
    BY <1>1, <1>2, OpBeforeIs DEF Hears, Coming, Unsent
  <2> QED BY <1>2, <2>1, OfferIs
<1>6. name \in Seq(Byte) /\ r \in [name : Seq(Byte), id : Byte] /\ r # None
  <2>1. name \in Seq(Byte)
    BY <1>2, NameIs
  <2>2. r \in [name : Seq(Byte), id : Byte]
    BY <1>5, <2>1
  <2> HIDE DEF r
  <2> QED BY <2>1, <2>2, NoneAssumption
<1>7. c \in Byte /\ (found = None => c = op[1]) /\ (found # None => c = found)
  <2>1. found # None => found \in Byte
    BY <1>2, RecordedAssumption DEF OnDisk, TypeOK
  <2> QED BY <1>5, <2>1 DEF Claimed
<1>8. /\ found = None /\ written => cfg' = r
      /\ ~(found = None /\ written) => cfg' = cfg
  BY <1>0, <1>4
<1>9. cfg' # None => cfg'.name \in Seq(Byte) /\ cfg'.id \in Byte
  <2>1. r.name = name /\ r.id = op[1]
    OBVIOUS
  <2>2. cfg # None => cfg.name \in Seq(Byte) /\ cfg.id \in Byte
    BY <1>2 DEF TypeOK
  <2> HIDE DEF r
  <2> QED BY <1>5, <1>6, <1>8, <2>1, <2>2
<1> DEFINE d == IF found = None THEN DUMMY2 ELSE DUMMY
<1>10. d \in {DUMMY, DUMMY2} /\ out' = d \o Repeat(c) \o DONE
  BY <1>0
<1>11. /\ answer'.used = (found = None) /\ answer'.id = c
       /\ answer'.read = (found = OnDisk) /\ answer'.written = written
  BY <1>0
<1>12. answer' \in Answer /\ answer' # None
  <2>1. answer' \in Answer
    BY <1>0, <1>7 DEF Answer
  <2> QED BY <2>1, NoneAssumption
<1> HIDE DEF c, r
<1>13. Due' = {(IF answer'.used THEN DUMMY2 ELSE DUMMY) \o Repeat(c) \o DONE}
  BY <1>1, <1>11 DEF Due, DUMMY, DUMMY2, Repeat, DONE
<1>14. out' \in Due'
  BY <1>10, <1>11, <1>13
<1>15. out' \in Seq(Byte)
  <2> HIDE DEF d
  <2>1. d \o Repeat(c) \o DONE \in Seq(Byte)
    BY <1>7, <1>10, AnswerIs
  <2> QED BY <1>10, <2>1
<1>16. op' = OpBefore' /\ Heard' = Heard
  <2>1. OpBefore' = OfferWord(saved) /\ Heard = WordsInName(name) + 4 /\ Heard' = WordsInName(name) + 4
    BY <1>1, HeardIs, HeardIsNext, OpBeforeIsNext
  <2> QED BY <1>1, <1>5, <2>1
<1>17. Hears' /\ OneWordApart' /\ OneWordInFlight' /\ mac \notin {"claim", "done"}
  BY <1>1, <1>14, <1>15, <1>16, Speaks
<1>18. TypeOK'
  <2>1. pi' \in PiStates
    BY <1>1 DEF PiStates
  <2> QED BY <1>1, <1>2, <1>9, <1>12, <1>15, <2>1 DEF TypeOK
<1>19. Stored'
  <2>1. \A i : Script(i)' = Script(i)
    BY <1>1, SameScript
  <2> QED BY <1>1, <1>2, <2>1 DEF Stored
<1>20. Ended'
  <2>1. NameIsOver(words') /\ Len(words') = WordsInName(name')
    BY <1>1, <1>2 DEF Ended, Mounted
  <2> QED BY <1>1, <2>1 DEF Ended, Mounted
<1>21. CutOff' /\ Booked'
  BY <1>1, <1>2 DEF CutOff, Booked
<1>22. Answered'
  <2>1. answer'.used => Recorded'
    <3>1. SUFFICES ASSUME answer'.used PROVE Recorded'
      OBVIOUS
    <3>2. found = None /\ c = saved % 256
      BY <1>5, <1>7, <1>11, <3>1
    <3>3. written => cfg' = [name |-> name, id |-> saved % 256]
      BY <1>5, <1>8, <3>2 DEF r
    <3> QED BY <1>1, <1>11, <1>12, <3>1, <3>2, <3>3 DEF Recorded, Sure
  <2>2. Sure' => cfg' # None /\ answer'.id = cfg'.id
    <3>1. SUFFICES ASSUME found = OnDisk, written PROVE cfg' # None /\ c = cfg'.id
      BY <1>11 DEF Sure
    <3>2. CASE found = None
      <4>1. cfg' = r /\ r.id = op[1]
        BY <1>8, <3>1, <3>2 DEF r
      <4> QED BY <1>6, <1>7, <3>2, <4>1
    <3>3. CASE found # None
      BY <1>7, <1>8, <3>1, <3>3 DEF OnDisk
    <3> QED BY <3>2, <3>3
  <2> QED BY <1>1, <1>12, <1>17, <2>1, <2>2 DEF Answered
<1>23. CountedIsRecorded'
  <2>1. counter = saved
    BY <1>1, <1>2 DEF Answered, CountedIsRecorded, Recorded
  <2> QED BY <1>1, <1>17, <2>1 DEF CountedIsRecorded
<1> QED BY <1>17, <1>18, <1>19, <1>20, <1>21, <1>22, <1>23 DEF LinkInv

----------------------------------------------------------------------------
(***************************************************************************)
(* The pi that was reset.                                                   *)
(***************************************************************************)
\* What a reset leaves on the line.
LEMMA LeavesCutOff ==
  ASSUME LinkInv, pi # "loader"
  PROVE  /\ mac \in {"start", "name", "mounted", "offer"} => toPi = << >> /\ Dull(toMac)
         /\ mac \in {"ack_start", "ack_word", "select", "ack_mount", "ack_request"} =>
               \/ Dull(toMac)
               \/ toPi = << >> /\ Len(toMac) >= 4 /\ Word = DUMMY /\ Dull(Later(toMac, 4))
         /\ mac = "ack_offer" =>
               \/ Dull(toMac)
               \/ Len(toMac) >= 4 /\ Word = DUMMY
               \/ Len(toMac) >= 4 /\ Word = DUMMY2 /\ Recorded
<1>1. /\ TypeOK /\ OneWordApart /\ Answered /\ toMac \in Seq(Byte) /\ out \in Seq(Byte)
      /\ WordsInName(name) \in Nat \ {0} /\ sent \in 0 .. WordsInName(name)
  BY WordsIs DEF LinkInv, TypeOK
<1>2. Reply \in Seq(Byte) /\ (Reply = << >> => toMac = << >>)
      /\ Len(Reply) = Len(toMac) + Len(out) /\ Len(toMac) \in Nat /\ Len(out) \in Nat
  BY <1>1, ReplyIs
<1>3. Len(toMac) < 4 => Dull(toMac)
  BY <1>1, DullShort
<1>4. mac \in {"start", "name", "mounted", "offer"} => toPi = << >> /\ Dull(toMac)
  <2>1. SUFFICES ASSUME mac \in {"start", "name", "mounted", "offer"} PROVE toPi = << >> /\ Dull(toMac)
    OBVIOUS
  <2>2. Unsent /\ Reply = << >>
    BY <1>1, <2>1 DEF OneWordApart, Waiting
  <2>3. Len(toMac) < 4
    <3>1. toMac = << >>
      BY <1>2, <2>2
    <3> QED BY <3>1
  <2> QED BY <1>3, <2>2, <2>3 DEF Unsent
<1>5. ASSUME mac \in {"ack_start", "ack_word", "select", "ack_mount", "ack_request", "ack_offer"},
             Len(toMac) >= 4
      PROVE  /\ toPi = << >>
             /\ \/ Dull(toMac)
                \/ pi = "done" /\ mac = "ack_offer" /\ Word = (IF answer.used THEN DUMMY2 ELSE DUMMY)
                \/ Word = DUMMY /\ Dull(Later(toMac, 4))
  <2>1. Waiting(Heard)
    <3>1. Reply # << >>
      <4>1. Len(Reply) # 0
        BY <1>2, <1>5
      <4> QED BY <4>1
    <3> QED BY <1>1, <1>5, <3>1 DEF OneWordApart, Past
  <2>2. /\ Unsent
        /\ \/ pi = "panicked"
           \/ pi = "done" /\ Word = (IF answer.used THEN DUMMY2 ELSE DUMMY)
           \/ /\ pi \notin {"mount", "panicked", "lookup", "done"}
              /\ Word = DUMMY /\ Later(Reply, 4) = << >>
    <3>1. PICK j : j = Heard
      OBVIOUS
    <3>2. Waiting(j)
      BY <2>1, <3>1
    <3> QED BY <1>5, <3>2, Finds
  <2>3. CASE pi = "panicked"
    <3>1. Reply \in Due
      <4>1. Reply # << >>
        <5>1. Len(Reply) # 0
          BY <1>2, <1>5
        <5> QED BY <5>1
      <4> QED BY <1>1, <1>5, <2>3, <4>1, OneWord DEF OneWordApart, Past
    <3>2. PICK k \in 0 .. 3 : Reply = Later(PANIC, 4 * k)
      BY <2>3, <3>1 DEF Due
    <3>3. Dull(Reply)
      BY <3>2, PanicIs
    <3>4. Dull(toMac)
      BY <1>1, <3>3, DullStart DEF Reply
    <3> QED BY <2>2, <3>4 DEF Unsent
  <2>4. CASE pi = "done"
    <3>1. Heard = WordsInName(name) + 4
      BY <2>4, HeardIs
    <3>2. mac = "ack_offer"
      BY <1>1, <1>5, <2>1, <3>1 DEF Waiting
    <3> QED BY <2>2, <2>4, <3>2 DEF Unsent
  <2>5. CASE pi \notin {"panicked", "done"}
    <3>1. Word = DUMMY /\ Later(Reply, 4) = << >>
      BY <2>2, <2>5
    <3>2. Len(toMac) = 4
      <4>1. 4 \in 0 .. Len(Reply)
        BY <1>2, <1>5
      <4>2. Len(Later(Reply, 4)) = Len(Reply) - 4
        BY <1>2, <4>1, LaterIs
      <4>3. Len(Later(Reply, 4)) = 0
        BY <3>1
      <4> DEFINE m == Len(toMac)
                 o == Len(out)
                 r == Len(Reply)
      <4>4. m \in Nat /\ o \in Nat /\ r = m + o /\ m >= 4
        BY <1>2, <1>5
      <4>5. r - 4 = 0
        BY <4>2, <4>3
      <4> HIDE DEF m, o, r
      <4>6. m = 4
        BY <4>4, <4>5
      <4> QED BY <4>6 DEF m
    <3>3. Later(toMac, 4) \in Seq(Byte) /\ Len(Later(toMac, 4)) = Len(toMac) - 4
      <4>1. 4 \in 0 .. Len(toMac)
        BY <1>2, <1>5
      <4> QED BY <1>1, <4>1, LaterIs
    <3>4. Len(Later(toMac, 4)) < 4
      BY <3>2, <3>3
    <3>5. Dull(Later(toMac, 4))
      BY <3>3, <3>4, DullShort
    <3> QED BY <2>2, <3>1, <3>5 DEF Unsent
  <2> QED BY <2>3, <2>4, <2>5
<1>6. mac \in {"ack_start", "ack_word", "select", "ack_mount", "ack_request"} =>
         \/ Dull(toMac)
         \/ toPi = << >> /\ Len(toMac) >= 4 /\ Word = DUMMY /\ Dull(Later(toMac, 4))
  <2>1. CASE Len(toMac) < 4
    BY <1>3, <2>1
  <2>2. CASE Len(toMac) >= 4
    BY <1>5, <2>2
  <2> QED BY <1>2, <2>1, <2>2
<1>7. mac = "ack_offer" =>
         \/ Dull(toMac)
         \/ Len(toMac) >= 4 /\ Word = DUMMY
         \/ Len(toMac) >= 4 /\ Word = DUMMY2 /\ Recorded
  <2>1. CASE Len(toMac) < 4
    BY <1>3, <2>1
  <2>2. CASE Len(toMac) >= 4
    <3>1. SUFFICES ASSUME mac = "ack_offer", pi = "done",
                          Word = (IF answer.used THEN DUMMY2 ELSE DUMMY)
                   PROVE  \/ Word = DUMMY
                          \/ Word = DUMMY2 /\ Recorded
      BY <1>5, <2>2
    <3>2. answer.used => Recorded
      BY <1>1, <3>1 DEF Answered
    <3> QED BY <3>1, <3>2
  <2> QED BY <1>2, <2>1, <2>2
<1> QED BY <1>4, <1>6, <1>7

LEMMA RestartKeeps ==
  ASSUME LinkInv, Restart
  PROVE  LinkInv'
<1>1. /\ pi # "loader" /\ pi' = "loader" /\ out' = << >>
      /\ name' = name /\ mac' = mac /\ sent' = sent /\ counter' = counter /\ saved' = saved
      /\ claim' = claim /\ op' = op /\ words' = words /\ cfg' = cfg /\ answer' = answer
      /\ toPi' = toPi /\ toMac' = toMac
  BY DEF Restart, macVars
<1>2. TypeOK /\ Stored /\ Booked /\ CountedIsRecorded /\ OneWordInFlight
  BY DEF LinkInv
<1>3. TypeOK'
  <2>1. << >> \in Seq(Byte) /\ "loader" \in PiStates
    BY DEF PiStates
  <2> QED BY <1>1, <1>2, <2>1 DEF TypeOK
<1>4. Stored'
  <2>1. \A i : Script(i)' = Script(i)
    BY <1>1, SameScript
  <2> QED BY <1>1, <1>2, <2>1 DEF Stored
<1>5. Ended' /\ Hears' /\ OneWordApart' /\ Answered'
  BY <1>1 DEF Ended, Mounted, Hears, OneWordApart, Answered, Recorded, Sure
<1>6. CutOff'
  <2>1. /\ mac \in {"start", "name", "mounted", "offer"} => toPi = << >> /\ Dull(toMac)
        /\ mac \in {"ack_start", "ack_word", "select", "ack_mount", "ack_request"} =>
              \/ Dull(toMac)
              \/ toPi = << >> /\ Len(toMac) >= 4 /\ Word = DUMMY /\ Dull(Later(toMac, 4))
        /\ mac = "ack_offer" =>
              \/ Dull(toMac)
              \/ Len(toMac) >= 4 /\ Word = DUMMY
              \/ Len(toMac) >= 4 /\ Word = DUMMY2 /\ Recorded
    BY <1>1, LeavesCutOff
  <2>2. Reply' = toMac
    <3>1. toMac \in Seq(Byte)
      BY <1>2 DEF TypeOK
    <3> QED BY <1>1, <3>1, ConcatEmptySeq DEF Reply
  <2>3. /\ Dull(Reply)' = Dull(toMac) /\ Dull(Later(Reply, 4))' = Dull(Later(toMac, 4))
        /\ Word' = Word /\ DUMMY' = DUMMY /\ DUMMY2' = DUMMY2
    BY <1>1, <2>2 DEF Dull, Later, Word, DUMMY, DUMMY2
  <2> QED BY <1>1, <2>1, <2>3 DEF CutOff, Recorded, Sure
<1>7. Booked' /\ CountedIsRecorded' /\ OneWordInFlight'
  BY <1>1, <1>2 DEF Booked, CountedIsRecorded, OneWordInFlight, Recorded, Sure
<1> QED BY <1>3, <1>4, <1>5, <1>6, <1>7 DEF LinkInv

LEMMA AskForProgramKeeps ==
  ASSUME LinkInv, AskForProgram
  PROVE  LinkInv'
<1>1. /\ pi = "loader" /\ pi' = pi /\ out = << >> /\ Len(toMac) < 4 /\ out' = GET_PROG_INFO
      /\ name' = name /\ mac' = mac /\ sent' = sent /\ counter' = counter /\ saved' = saved
      /\ claim' = claim /\ op' = op /\ words' = words /\ cfg' = cfg /\ answer' = answer
      /\ toPi' = toPi /\ toMac' = toMac
  BY DEF AskForProgram, macVars
<1>2. TypeOK /\ Stored /\ CutOff /\ Booked /\ CountedIsRecorded /\ OneWordInFlight /\ toMac \in Seq(Byte)
  BY DEF LinkInv, TypeOK
<1>3. TypeOK'
  BY <1>1, <1>2, Constants4 DEF TypeOK
<1>4. Stored'
  <2>1. \A i : Script(i)' = Script(i)
    BY <1>1, SameScript
  <2> QED BY <1>1, <1>2, <2>1 DEF Stored
<1>5. Ended' /\ Hears' /\ OneWordApart' /\ Answered'
  BY <1>1 DEF Ended, Mounted, Hears, OneWordApart, Answered, Recorded, Sure
<1>6. CutOff'
  <2>1. Reply = toMac /\ Len(toMac) \in Nat
    BY <1>1, <1>2, ReplyIs
  <2>2. ~(Len(toMac) >= 4)
    BY <1>1, <2>1
  <2>3. Dull(Reply) => Dull(Reply)'
    <3>1. Dull(toMac) => Dull(toMac \o GET_PROG_INFO)
      BY <1>2, DullAsk
    <3>2. Reply' = toMac \o GET_PROG_INFO
      BY <1>1 DEF Reply
    <3>3. Dull(toMac \o GET_PROG_INFO) => Dull(Reply)'
      BY <3>2 DEF Dull
    <3> QED BY <2>1, <3>1, <3>3
  <2> QED BY <1>1, <1>2, <2>2, <2>3 DEF CutOff, Recorded, Sure
<1>7. Booked' /\ CountedIsRecorded' /\ OneWordInFlight'
  BY <1>1, <1>2 DEF Booked, CountedIsRecorded, OneWordInFlight, Recorded, Sure
<1> QED BY <1>3, <1>4, <1>5, <1>6, <1>7 DEF LinkInv
----------------------------------------------------------------------------
(***************************************************************************)
(* What holds in every state.                                               *)
(***************************************************************************)
LEMMA StepKeeps ==
  ASSUME LinkInv, [Next]_vars
  PROVE  LinkInv'
<1>1. CASE MacWorks
  BY <1>1, MacKeeps
<1>2. CASE PiTalks
  BY <1>2, PutByteKeeps, SeeStartKeeps, StoreWordKeeps, SeeConfigInitKeeps, SeeRequestKeeps, TakeOfferKeeps
  DEF PiTalks
<1>3. CASE PiAtDisk
  BY <1>3, SdInitKeeps, MountKeeps, LookUpKeeps DEF PiAtDisk
<1>4. CASE Restart
  BY <1>4, RestartKeeps
<1>5. CASE AskForProgram
  BY <1>5, AskForProgramKeeps
<1>6. CASE UNCHANGED vars
  <2>1. /\ name' = name /\ mac' = mac /\ sent' = sent /\ counter' = counter /\ saved' = saved
        /\ claim' = claim /\ pi' = pi /\ op' = op /\ words' = words /\ out' = out /\ cfg' = cfg
        /\ answer' = answer /\ toPi' = toPi /\ toMac' = toMac
    BY <1>6 DEF vars, macVars, piVars
  <2>2. /\ TypeOK /\ Stored /\ Ended /\ Hears /\ OneWordApart /\ CutOff /\ Answered /\ Booked
        /\ OneWordInFlight /\ CountedIsRecorded
    BY DEF LinkInv
  <2>3. TypeOK'
    BY <2>1, <2>2 DEF TypeOK
  <2>4. /\ Stored' /\ Ended' /\ Heard' = Heard /\ Due' = Due
        /\ (Unsent => Unsent') /\ (Coming => Coming')
    BY <2>1, <2>2, SamePi, SameLine
  <2>5. Reply' = Reply /\ Word' = Word /\ (Repeat(answer.id) \o DONE)' = Repeat(answer.id) \o DONE
        /\ DONE' = DONE /\ DUMMY' = DUMMY /\ DUMMY2' = DUMMY2
    BY <2>1 DEF Reply, Word, Repeat, DONE, DUMMY, DUMMY2
  <2>6. Hears'
    BY <2>1, <2>2, <2>4 DEF Hears
  <2>7. OneWordApart'
    <3>1. \A i : (Waiting(i) => Waiting(i)') /\ (Past(i) => Past(i)')
      BY <2>1 DEF Waiting, Past
    <3>2. Waiting(Heard + 1) => Waiting(Heard + 1)'
      BY <2>4, <3>1
    <3>3. Waiting(Heard) => Waiting(Heard)'
      BY <2>4, <3>1
    <3>4. Past(Heard) => Past(Heard)'
      BY <2>4, <3>1
    <3> QED BY <2>1, <2>2, <2>4, <2>5, <3>2, <3>3, <3>4 DEF OneWordApart
  <2>8. CutOff'
    <3>1. Dull(Reply)' = Dull(Reply) /\ Dull(Later(Reply, 4))' = Dull(Later(Reply, 4))
      BY <2>5 DEF Dull, Later
    <3> QED BY <2>1, <2>2, <2>5, <3>1 DEF CutOff, Recorded, Sure
  <2>9. Answered' /\ Booked' /\ CountedIsRecorded' /\ OneWordInFlight'
    BY <2>1, <2>2 DEF Answered, Booked, CountedIsRecorded, OneWordInFlight, Recorded, Sure
  <2> QED BY <2>3, <2>4, <2>6, <2>7, <2>8, <2>9 DEF LinkInv
<1> QED BY <1>1, <1>2, <1>3, <1>4, <1>5, <1>6 DEF Next

\* Mac and pi are never more than one word apart, whatever the name, the timeouts
\* and the resets of the pi.
THEOREM LinkInvariance == Spec => []LinkInv
<1>1. LinkInv /\ [Next]_vars => LinkInv'
  BY StepKeeps
<1> QED BY <1>1, Starts, PTL DEF Spec

\* Types; the words that get_string stores fit into dfs_name.
THEOREM TypeCorrect == Spec => []TypeOK
<1>1. LinkInv => TypeOK
  BY DEF LinkInv
<1> QED BY <1>1, LinkInvariance, PTL

\* The mac never has a second word under way.
THEOREM OneWordInFlightHolds == Spec => []OneWordInFlight
<1>1. LinkInv => OneWordInFlight
  BY DEF LinkInv
<1> QED BY <1>1, LinkInvariance, PTL

\* boot_connected_pies counts an offer if and only if the pi used it, and prints the
\* id the pi answered with, whatever the name; what the pi used or answered is on its
\* SD card unless the config sector was not read, or was full, or was not written
\* (main.c looks at none of these).  Resets in the middle of an answer included.
THEOREM CountedIsRecordedHolds == Spec => []CountedIsRecorded
<1>1. LinkInv => CountedIsRecorded
  BY DEF LinkInv
<1> QED BY <1>1, LinkInvariance, PTL

LEMMA WellStored ==
  ASSUME LinkInv
  PROVE  /\ StoredWell /\ Ended /\ TypeOK /\ OneWordApart
         /\ Len(words) \in Nat /\ Len(words) <= MaxNameLen \div 4
         /\ WordsInName(name) \in Nat \ {0}
<1>1. StoredWell /\ Ended /\ TypeOK /\ OneWordApart /\ WordsInName(name) \in Nat \ {0}
  BY WordsIs DEF LinkInv, StoredWell, TypeOK
<1>2. Len(words) \in Nat /\ 4 * Len(words) <= MaxNameLen
  BY <1>1, LenProperties DEF TypeOK
<1> QED BY <1>1, <1>2, LengthAssumption

\* The string that id_for_dfs looks up is the name that deploy was given, if
\* dfs_name can hold it and one byte more: what the words behind it are does not matter.
THEOREM NameArrivesWholeHolds == Spec => []NameArrivesWhole
<1>1. LinkInv => NameArrivesWhole
  <2>1. SUFFICES ASSUME LinkInv, pi \in {"wait_config", "mount", "wait_request", "wait_offer", "lookup"},
                        Len(name) < 4 * (MaxNameLen \div 4)
                 PROVE  GivenName = name
    BY DEF NameArrivesWhole
  <2>2. StoredWell /\ NameIsOver(words)
    BY <2>1, WellStored DEF Ended
  <2>3. Len(name) <= 4 * (MaxNameLen \div 4)
    <3>1. Len(name) \in Nat
      BY <2>1, NameIs DEF LinkInv, TypeOK
    <3> QED BY <2>1, <3>1, LengthAssumption
  <2> QED BY <2>1, <2>2, <2>3, NameWhole
<1> QED BY <1>1, LinkInvariance, PTL

\* If the name is framed, get_string takes no word that is not of the name.
LEMMA FramedCovers ==
  ASSUME LinkInv, Framed(name)
  PROVE  /\ Len(words) <= WordsInName(name)
         /\ pi = "wait_config" => Len(words) = WordsInName(name)
<1> DEFINE W == WordsInName(name)
           l == Len(name)
           k == Len(words)
           M == MaxNameLen \div 4
<1>1. /\ StoredWell /\ Ended /\ k \in Nat /\ k <= M /\ W \in Nat \ {0} /\ name \in Names /\ saved \in Nat
  BY WellStored DEF StoredWell
<1>2. 4 * W <= l + 5 /\ l + 5 <= 4 * W + 3 /\ l \in Nat /\ M \in Nat \ {0}
  <2>1. 4 * W <= l + 5 /\ l + 5 <= 4 * W + 3 /\ l \in Nat
    BY <1>1, WordsIs, NameIs
  <2>2. M \in Nat \ {0}
    BY LengthAssumption
  <2> QED BY <2>1, <2>2
<1>3. k <= W
  <2>1. SUFFICES ASSUME k > W PROVE FALSE
    BY <1>1
  <2>2. W # M
    <3> HIDE DEF W, k, M
    <3> QED BY <1>1, <2>1
  <2>3. l % 4 = 0
    BY <2>2 DEF Framed
  <2>4. 4 * W = l + 4
    <3> HIDE DEF W, l
    <3> QED BY <1>1, <1>2, <2>3
  <2>5. W \in 1 .. W /\ W \in 1 .. k /\ W \in 1 .. k - 1
    <3> HIDE DEF W, k
    <3> QED BY <1>1, <2>1
  <2>6. words[W] = Script(W + 1) /\ words[W] # AllOnes
    BY <1>1, <2>5 DEF StoredWell, Stored
  <2>7. Script(W + 1) = NameWord(name, W)
    BY <1>1, <2>5, ScriptIs
  <2>8. NameWord(name, W) = AllOnes
    BY <1>1, <2>4, <2>5, NameWordIs
  <2> QED BY <2>6, <2>7, <2>8
<1>4. pi = "wait_config" => k = W
  <2>1. SUFFICES ASSUME pi = "wait_config" PROVE k = W
    OBVIOUS
  <2>2. NameIsOver(words)
    BY <1>1, <2>1 DEF Ended
  <2>3. words # << >>
    <3>1. Len(<< >>) = 0
      OBVIOUS
    <3> QED BY <1>2, <2>2, <3>1 DEF NameIsOver
  <2> QED BY <1>1, <1>3, <2>2, <2>3, FramedStops
<1> QED BY <1>3, <1>4

\* A mac past that dummy talks to a pi that has mounted.
LEMMA AlwaysReady == LinkInv => ReadyMeansMounted
<1>1. SUFFICES ASSUME LinkInv, Framed(name), PastMount, pi # "loader" PROVE Mounted
  BY DEF ReadyMeansMounted
<1> DEFINE W == WordsInName(name)
<1>2. OneWordApart /\ W \in Nat \ {0} /\ Len(words) \in Nat /\ Len(words) <= W /\ pi \in PiStates
      /\ sent \in 0 .. W
  BY <1>1, WellStored, FramedCovers DEF TypeOK
<1>3. PICK h : h = Heard
  OBVIOUS
<1>4. /\ pi \in {"sd_init", "wait_start"} => h = 0
      /\ pi \in {"name", "wait_config"} => h = Len(words) + 1
      /\ pi \in {"mount", "panicked", "wait_request"} => h = W + 2
      /\ pi = "wait_offer" => h = W + 3
      /\ pi \in {"lookup", "done"} => h = W + 4
  BY <1>3, HeardIs
<1>5. \/ Waiting(h + 1) /\ pi \notin {"mount", "panicked"}
      \/ Waiting(h)
      \/ Past(h) /\ pi \notin {"mount", "panicked"}
      \/ pi = "done"
  <2>1. mac \notin {"gave_up", "panicked"}
    BY <1>1 DEF PastMount
  <2> QED BY <1>1, <1>2, <1>3, <2>1 DEF OneWordApart, Coming
<1>6. \/ h + 1 \in {W + 3, W + 4} /\ pi \notin {"mount", "panicked"}
      \/ h \in {W + 3, W + 4}
      \/ h \in {W + 2, W + 3, W + 4} /\ pi \notin {"mount", "panicked"}
      \/ pi = "done"
  BY <1>1, <1>5 DEF PastMount, Waiting, Past
<1> HIDE DEF W
<1>7. pi \notin {"sd_init", "wait_start", "name", "wait_config"}
  BY <1>2, <1>4, <1>6
<1>8. pi \notin {"mount", "panicked"}
  BY <1>2, <1>4, <1>6
<1> QED BY <1>1, <1>2, <1>7, <1>8 DEF Mounted, PiStates

\* A mac past "Pi has set up its fat" talks to a pi that has, if the name is framed.
THEOREM ReadyMeansMountedHolds == Spec => []ReadyMeansMounted
BY AlwaysReady, LinkInvariance, PTL

\* Mac and pi never wait for each other.
LEMMA NeverBothWait == LinkInv => NoMutualWait
<1>1. SUFFICES ASSUME LinkInv, Framed(name), Reading \/ mac = "select", Len(toMac) < 4, out = << >>,
                      Listening
               PROVE  FALSE
  BY DEF NoMutualWait
<1> DEFINE W == WordsInName(name)
           v == Script(Heard + 1)
           b == OpBefore
<1>2. /\ TypeOK /\ Stored /\ OneWordApart /\ W \in Nat \ {0} /\ Len(words) \in Nat /\ Len(words) <= W
      /\ name \in Names /\ saved \in Nat
  BY <1>1, WellStored, FramedCovers DEF TypeOK, StoredWell
<1>3. /\ mac \in {"ack_start", "ack_word", "select", "ack_mount", "ack_request", "ack_offer", "claim"}
      /\ pi \in {"wait_start", "name", "wait_config", "wait_request", "wait_offer"}
  BY <1>1 DEF Reading, Listening
<1>4. Len(toPi) < 4 /\ (pi \in {"wait_start", "wait_config", "wait_request"} => toPi = << >>)
  BY <1>1 DEF Listening
<1>5. ~Coming
  <2>1. SUFFICES ASSUME Coming PROVE FALSE
    OBVIOUS
  <2>2. v \in Seq(Byte) /\ Len(v) = 4
    BY <1>2, <2>1, ComingIs
  <2>3. b \in Seq(Byte) /\ Len(b) = 4
    BY <1>2, <1>3, OpBeforeWord
  <2>4. CASE pi \in {"name", "wait_offer"}
    <3>1. Shifted(0, b, v)
      BY <2>1, <2>4 DEF Coming
    <3> HIDE DEF b, v
    <3>2. toPi = SubSeq(v, 0 + 1, 4)
      BY <3>1 DEF Shifted
    <3>3. toPi = v
      BY <2>2, <2>3, <3>2, ShiftEnds
    <3> QED BY <1>4, <2>2, <3>3
  <2>5. CASE pi \in {"wait_start", "wait_config", "wait_request"}
    <3>1. (\E k \in 0 .. 3 : Shifted(k, b, v)) \/ (pi = "wait_config" /\ v # CONFIG_INIT)
      BY <2>1, <2>5 DEF Coming
    <3>2. ASSUME NEW k \in 0 .. 3, Shifted(k, b, v) PROVE FALSE
      <4> HIDE DEF b, v
      <4>1. PICK c \in Seq(Byte), u \in Seq(Byte), o \in {op}, t \in {toPi} : c = b /\ u = v
        BY <2>2, <2>3
      <4>2. ShiftOf(c, u, k, o, t) /\ Len(c) = 4 /\ Len(u) = 4
        BY <2>2, <2>3, <3>2, <4>1 DEF ShiftOf, Shifted
      <4>3. t # << >>
        BY <4>2, ShiftByte
      <4> QED BY <1>4, <2>5, <4>1, <4>3
    <3>3. ASSUME pi = "wait_config" PROVE v = CONFIG_INIT
      <4>1. Heard = Len(words) + 1 /\ Len(words) = W
        BY <1>1, <3>3, HeardIs, FramedCovers
      <4>2. Heard + 1 = W + 2
        BY <1>2, <4>1
      <4> QED BY <1>2, <4>2, ScriptIs
    <3> QED BY <3>1, <3>2, <3>3
  <2> QED BY <1>3, <2>4, <2>5
<1>6. ~(Reply \in Due)
  <2>1. Due = {DUMMY}
    BY <1>3 DEF Due
  <2>2. Reply = toMac
    BY <1>1, <1>2, ReplyIs
  <2>3. Len(DUMMY) = 4
    BY Constants4
  <2>4. toMac # DUMMY
    <3>1. Len(toMac) < 4
      BY <1>1
    <3> QED BY <2>3, <3>1
  <2> QED BY <2>1, <2>2, <2>4
<1>7. ~Past(Heard)
  <2>1. PICK h : h = Heard
    OBVIOUS
  <2>2. h # W + 4
    <3>1. h = 0 \/ h = Len(words) + 1 \/ h = W + 2 \/ h = W + 3
      BY <1>3, <2>1, HeardIs
    <3> HIDE DEF W
    <3> QED BY <1>2, <3>1
  <2>3. ~Past(h)
    BY <1>3, <2>2 DEF Past
  <2> QED BY <2>1, <2>3
<1> QED BY <1>2, <1>3, <1>5, <1>6, <1>7 DEF OneWordApart

\* deploy and the pi never wait for each other, if the name is framed.
THEOREM NoMutualWaitHolds == Spec => []NoMutualWait
BY NeverBothWait, LinkInvariance, PTL

----------------------------------------------------------------------------
(***************************************************************************)
(* The card, and the pi that a mac that stopped leaves behind.              *)
(***************************************************************************)
\* With a framed name, what id_for_dfs is given is that name.
LEMMA FramedName ==
  ASSUME LinkInv, Framed(name),
         pi \in {"wait_config", "mount", "wait_request", "wait_offer", "lookup"}
  PROVE  GivenName = name
<1> DEFINE W == WordsInName(name)
           l == Len(name)
           M == MaxNameLen \div 4
<1>1. StoredWell /\ NameIsOver(words) /\ name \in Names
  BY WellStored DEF Ended, StoredWell
<1>2. W <= M
  <2>1. CASE W = M
    BY <1>1, <2>1, WordsIs, LengthAssumption
  <2>2. CASE W # M
    BY <2>2 DEF Framed
  <2> QED BY <2>1, <2>2
<1>3. W \in Nat /\ l \in Nat /\ M \in Nat /\ l + 5 <= 4 * W + 3
  BY <1>1, WordsIs, NameIs, LengthAssumption
<1>4. l <= 4 * M
  <2> HIDE DEF W, l, M
  <2> QED BY <1>2, <1>3
<1> QED BY <1>1, <1>4, NameWhole

\* All but id_for_dfs leave the card and its answer alone.
LEMMA OnlyLookUp ==
  ASSUME [Next]_vars
  PROVE  /\ UNCHANGED <<name, saved>>
         /\ LookUp \/ (UNCHANGED <<cfg, answer>> /\ (pi' = "done" => pi = "done"))
<1>1. CASE MacWorks
  BY <1>1 DEF MacWorks, StartName, AckStart, SendWord, AckWord, AskMount, Readable, AckMount,
              AskId, AckRequest, OfferId, AckOffer, ReadClaim, SelectTimeout, ReadTimeout,
              AwaitDummy, piVars
<1>2. CASE PiTalks
  BY <1>2 DEF PiTalks, PutByte, SeeStart, StoreWord, SeeConfigInit, SeeRequest, TakeOffer,
              AwaitWord, macVars
<1>3. CASE PiAtDisk
  BY <1>3 DEF PiAtDisk, SdInit, Mount, MountPanics, LookUp, macVars
<1>4. CASE Restart \/ AskForProgram
  BY <1>4 DEF Restart, AskForProgram, macVars
<1>5. CASE UNCHANGED vars
  BY <1>5 DEF vars, macVars, piVars
<1> QED BY <1>1, <1>2, <1>3, <1>4, <1>5 DEF Next

\* What id_for_dfs answers.
LEMMA LookUpAnswers ==
  ASSUME LinkInv, LookUp
  PROVE  /\ answer' \in Answer /\ answer' # None
         /\ IF answer'.used /\ answer'.written THEN cfg' = [name |-> GivenName, id |-> op[1]] ELSE cfg' = cfg
         /\ answer'.used => answer'.id = op[1] /\ (answer'.read <=> cfg = None)
         /\ ~answer'.used =>
               /\ answer'.written
               /\ answer'.read => cfg # None /\ answer'.id = cfg.id
               /\ ~answer'.read => answer'.id \in RecordedIds /\ (cfg # None => answer'.id # cfg.id)
         /\ out' = (IF answer'.used THEN DUMMY2 ELSE DUMMY) \o Repeat(answer'.id) \o DONE
<1>1. PICK found \in {OnDisk, None} \cup RecordedIds, written \in BOOLEAN :
         /\ found # None => written
         /\ answer' = [used |-> found = None, id |-> Claimed(found),
                       read |-> found = OnDisk, written |-> written]
         /\ cfg' = IF found = None /\ written THEN [name |-> GivenName, id |-> op[1]] ELSE cfg
         /\ out' = (IF found = None THEN DUMMY2 ELSE DUMMY) \o Repeat(Claimed(found)) \o DONE
  BY DEF LookUp
<1>2. op[1] \in Byte /\ (cfg # None => cfg.id \in Byte)
  BY DEF LinkInv, TypeOK, Byte4
<1>3. None \notin Byte /\ None \notin Answer
  BY NoneAssumption
<1>4. /\ cfg = None => OnDisk = None
      /\ cfg # None => OnDisk = cfg.id /\ OnDisk # None
  BY <1>2, <1>3 DEF OnDisk
<1>5. found # None => found \in Byte
  BY <1>1, <1>2, <1>4, RecordedAssumption
<1>6. /\ Claimed(found) \in Byte
      /\ found = None => Claimed(found) = op[1]
      /\ found # None => Claimed(found) = found
  BY <1>2, <1>5 DEF Claimed
<1> DEFINE c == Claimed(found)
<1> HIDE DEF c
<1>7. /\ answer'.used = (found = None) /\ answer'.id = c
      /\ answer'.read = (found = OnDisk) /\ answer'.written = written
      /\ answer' \in Answer
  BY <1>1, <1>6 DEF c, Answer
<1>8. out' = (IF answer'.used THEN DUMMY2 ELSE DUMMY) \o Repeat(answer'.id) \o DONE
  BY <1>1, <1>7 DEF c
<1>9. CASE found = None
  <2>1. answer'.used /\ answer'.id = op[1] /\ (answer'.read <=> cfg = None)
    BY <1>4, <1>6, <1>7, <1>9 DEF c
  <2>2. IF answer'.written THEN cfg' = [name |-> GivenName, id |-> op[1]] ELSE cfg' = cfg
    BY <1>1, <1>7, <1>9
  <2> QED BY <1>3, <1>7, <1>8, <2>1, <2>2
<1>10. CASE found # None
  <2>1. ~answer'.used /\ answer'.id = found /\ answer'.written /\ cfg' = cfg
    BY <1>1, <1>6, <1>7, <1>10 DEF c
  <2>2. /\ answer'.read => cfg # None /\ answer'.id = cfg.id
        /\ ~answer'.read => answer'.id \in RecordedIds /\ (cfg # None => answer'.id # cfg.id)
    BY <1>1, <1>4, <1>7, <1>10, <2>1
  <2> QED BY <1>3, <1>7, <1>8, <2>1, <2>2
<1> QED BY <1>9, <1>10

LEMMA OnCardStep ==
  ASSUME LinkInv, OnCard, [Next]_vars
  PROVE  OnCard'
<1>1. name' = name
  BY OnlyLookUp
<1>2. Framed(name)' = Framed(name)
  BY <1>1 DEF Framed, WordsInName
<1>3. CASE LookUp
  <2>1. pi = "lookup"
    BY <1>3 DEF LookUp
  <2>2. Framed(name) => GivenName = name
    BY <2>1, FramedName
  <2> QED BY <1>1, <1>2, <1>3, <2>2, LookUpAnswers DEF OnCard
<1>4. CASE UNCHANGED <<cfg, answer>> /\ (pi' = "done" => pi = "done")
  BY <1>1, <1>2, <1>4 DEF OnCard
<1> QED BY <1>3, <1>4, OnlyLookUp

\* A mac that gives up leaves no word on the line, or its first one.
LEMMA LeavesAlone ==
  ASSUME LinkInv, Framed(name), SelectTimeout \/ ReadTimeout, pi # "loader"
  PROVE  /\ UNCHANGED <<pi, toPi>>
         /\ \/ pi = "sd_init"
            \/ pi \in {"mount", "panicked", "lookup", "done"} /\ toPi = << >>
<1>1. /\ UNCHANGED <<pi, toPi>> /\ Quiet /\ Len(toMac) < 4
      /\ Reading \/ mac = "select"
  <2>1. Len(<< >>) = 0
    OBVIOUS
  <2> QED BY <2>1 DEF SelectTimeout, ReadTimeout, piVars
<1>2. ~ Listening
  BY <1>1, NeverBothWait DEF NoMutualWait, Quiet
<1>3. pi \in {"sd_init", "mount", "lookup", "panicked", "done"}
  BY <1>1, <1>2 DEF Quiet
<1>4. mac \notin {"gave_up", "panicked"} /\ OneWordApart
  BY <1>1 DEF Reading, LinkInv
<1>5. pi # "sd_init" => Unsent
  BY <1>3, <1>4 DEF OneWordApart, Coming
<1> QED BY <1>1, <1>3, <1>5 DEF Unsent

\* The first word is the last that such a pi sees.
LEMMA SeesFirst ==
  ASSUME LinkInv, LinkInv', SeeStart, pi' = "name"
  PROVE  toPi' = << >>
<1>1. toPi \in Seq(Byte) /\ toPi # << >> /\ toPi' = Tail(toPi) /\ Len(toPi) <= 4
  BY DEF SeeStart, AwaitWord, LinkInv, TypeOK, OneWordInFlight
<1>2. Len(toPi') < 4
  BY <1>1
<1>3. ~ Coming'
  <2>1. SUFFICES ASSUME Coming' PROVE FALSE
    OBVIOUS
  <2>2. (TypeOK /\ Stored /\ Coming => Script(Heard + 1) \in Seq(Byte) /\ Len(Script(Heard + 1)) = 4)'
    BY ComingIs, PTL
  <2>3. Script(Heard + 1)' \in Seq(Byte) /\ Len(Script(Heard + 1)') = 4
    BY <2>1, <2>2 DEF LinkInv
  <2>4. toPi' = SubSeq(Script(Heard + 1)', 0 + 1, 4)
    BY <2>1 DEF Coming, Shifted
  <2>5. Len(toPi') = 4
    BY <2>3, <2>4
  <2> QED BY <1>2, <2>5
<1> QED BY <1>3 DEF LinkInv, Hears, Unsent

LEMMA LeftAloneStep ==
  ASSUME LinkInv, LinkInv', LeftAlone, [Next]_vars
  PROVE  LeftAlone'
<1> SUFFICES ASSUME Framed(name)', mac' \in {"gave_up", "panicked"}, pi' # "loader"
             PROVE  \/ pi' \in {"sd_init", "wait_start"}
                    \/ /\ pi' \in {"name", "mount", "panicked", "wait_request", "lookup", "done"}
                       /\ toPi' = << >>
  BY DEF LeftAlone
<1> DEFINE Stays == pi' = pi /\ toPi' = toPi /\ mac' = mac
<1>1. Framed(name)
  BY OnlyLookUp DEF Framed, WordsInName
<1>2. TypeOK
  BY DEF LinkInv
<1>3. ASSUME mac \in {"gave_up", "panicked"}
      PROVE  \/ pi \in {"sd_init", "wait_start", "loader"}
             \/ /\ pi \in {"name", "mount", "panicked", "wait_request", "lookup", "done"}
                /\ toPi = << >>
  BY <1>1, <1>3 DEF LeftAlone
<1>4. CASE MacWorks
  <2>1. SelectTimeout \/ ReadTimeout
    BY <1>4 DEF MacWorks, StartName, AckStart, SendWord, AckWord, AskMount, Readable, AckMount,
                AskId, AckRequest, OfferId, AckOffer, ReadClaim, AwaitDummy
  <2>2. pi # "loader"
    BY <2>1 DEF SelectTimeout, ReadTimeout, piVars
  <2> QED BY <1>1, <2>1, <2>2, LeavesAlone
<1>5. CASE Stays
  BY <1>3, <1>5
<1>6. CASE SeeStart
  <2>1. mac' = mac /\ pi = "wait_start" /\ pi' \in {"wait_start", "name"}
    BY <1>6 DEF SeeStart, AwaitWord, macVars
  <2> QED BY <1>6, <2>1, SeesFirst
<1>7. CASE StoreWord \/ SeeConfigInit \/ SeeRequest \/ TakeOffer
  <2>1. mac' = mac /\ pi \in {"name", "wait_config", "wait_request", "wait_offer"} /\ toPi # << >>
    <3>1. Len(<< >>) = 0
      OBVIOUS
    <3> QED BY <1>7, <3>1 DEF StoreWord, SeeConfigInit, SeeRequest, TakeOffer, AwaitWord, macVars
  <2> QED BY <1>3, <2>1
<1>8. CASE PiAtDisk
  BY <1>3, <1>8 DEF PiAtDisk, SdInit, Mount, MountPanics, LookUp, macVars
<1>9. PutByte \/ Restart \/ AskForProgram \/ UNCHANGED vars => Stays \/ pi' = "loader"
  BY DEF PutByte, Restart, AskForProgram, vars, macVars, piVars
<1> HIDE DEF Stays
<1> QED BY <1>4, <1>5, <1>6, <1>7, <1>8, <1>9 DEF Next, PiTalks

\* A pi that is not in its loader was not.
LEMMA NotRestarted ==
  ASSUME [Next]_vars, pi' # "loader"
  PROVE  pi # "loader" /\ ~ Restart /\ ~ AskForProgram
<1>1. CASE MacWorks
  BY <1>1 DEF MacWorks, StartName, AckStart, SendWord, AckWord, AskMount, Readable, AckMount,
              AskId, AckRequest, OfferId, AckOffer, ReadClaim, SelectTimeout, ReadTimeout,
              AwaitDummy, piVars, Restart, AskForProgram
<1>2. CASE PiTalks
  BY <1>2 DEF PiTalks, PutByte, SeeStart, StoreWord, SeeConfigInit, SeeRequest, TakeOffer,
              AwaitWord, Restart, AskForProgram
<1>3. CASE PiAtDisk
  BY <1>3 DEF PiAtDisk, SdInit, Mount, MountPanics, LookUp, Restart, AskForProgram
<1>4. CASE Restart \/ AskForProgram
  BY <1>4 DEF Restart, AskForProgram
<1>5. CASE UNCHANGED vars
  BY <1>5 DEF vars, piVars, Restart, AskForProgram
<1> QED BY <1>1, <1>2, <1>3, <1>4, <1>5 DEF Next

\* What select promised is there until it is read, and the last words of a panic are
\* never read.
LEMMA PromiseKept ==
  ASSUME LinkInv, AckMount, mac' = "ack_mount", pi # "loader"
  PROVE  Reply' # << >>
<1>1. mac = "ack_mount" /\ Get32 /\ Word # DUMMY /\ UNCHANGED piVars /\ pi' = pi
  BY DEF AckMount, AwaitDummy, piVars
<1>2. /\ Len(toMac) >= 4 /\ Reply' = Later(Reply, 4) /\ Reply \in Seq(Byte) /\ Len(Reply) >= 4
      /\ TypeOK /\ OneWordApart /\ Answered
  BY <1>1, Takes DEF LinkInv
<1>3. Reply # << >>
  BY <1>2
<1>4. Waiting(Heard)
  BY <1>1, <1>2, <1>3 DEF OneWordApart
<1>5. \/ pi = "panicked" /\ Later(Reply, 4) \in Due
      \/ pi = "done" /\ Later(Reply, 4) = Repeat(answer.id) \o DONE
  BY <1>1, <1>2, <1>4, Finds
<1>6. CASE pi = "panicked"
  <2>1. PICK k \in 0 .. 3 : Later(Reply, 4) = Later(PANIC, 4 * k)
    BY <1>5, <1>6 DEF Due
  <2>2. Len(Later(Reply, 4)) = 15 - 4 * k
    BY <2>1, PanicIs
  <2>3. Len(Later(Reply, 4)) # 0
    BY <2>2
  <2> QED BY <1>2, <2>3
<1>7. CASE pi = "done"
  <2>1. answer.id \in Byte
    BY <1>2, <1>7 DEF Answered, TypeOK, Answer
  <2>2. Len(Repeat(answer.id) \o DONE) = 12
    BY <2>1, AnswerIs
  <2> QED BY <1>2, <1>5, <1>7, <2>2
<1> QED BY <1>5, <1>6, <1>7

\* What the pi says at its SD card.
LEMMA SaysSomething ==
  ASSUME LinkInv, Mount \/ MountPanics \/ LookUp
  PROVE  out' # << >>
<1>1. Len(DUMMY) # 0
  BY DEF DUMMY
<1>2. CASE Mount
  BY <1>1, <1>2 DEF Mount
<1>3. CASE MountPanics
  <2>1. out' = PANIC
    BY <1>3 DEF MountPanics
  <2>2. PANIC # << >>
    BY ConcatEqualIffEmpty, Answer4 DEF PANIC, Byte
  <2> QED BY <2>1, <2>2
<1>4. CASE LookUp
  <2>1. answer'.id \in Byte
    BY LookUpAnswers, <1>4 DEF Answer
  <2> DEFINE d == IF answer'.used THEN DUMMY2 ELSE DUMMY
             b == answer'.id
  <2>2. d \in {DUMMY, DUMMY2} /\ out' = d \o Repeat(b) \o DONE
    BY LookUpAnswers, <1>4
  <2> HIDE DEF d, b
  <2>3. Len(d \o Repeat(b) \o DONE) = 16
    BY <2>1, <2>2, AnswerIs DEF b
  <2>4. Len(<< >>) = 0
    OBVIOUS
  <2> QED BY <2>2, <2>3, <2>4
<1> QED BY <1>2, <1>3, <1>4

LEMMA ToBeRead == TypeOK => (toMac # << >> \/ out # << >> => Reply # << >>)
BY ReplyIs

LEMMA SomethingToReadStep ==
  ASSUME LinkInv, LinkInv', SomethingToRead, [Next]_vars
  PROVE  SomethingToRead'
<1> SUFFICES ASSUME mac' = "ack_mount", pi' # "loader"
             PROVE  Reply' # << >>
  BY DEF SomethingToRead
<1>1. pi # "loader" /\ ~ Restart /\ ~ AskForProgram
  BY NotRestarted
<1>2. TypeOK /\ (toMac' # << >> \/ out' # << >> => Reply' # << >>)
  <2>1. (TypeOK => (toMac # << >> \/ out # << >> => Reply # << >>))'
    BY ToBeRead, PTL
  <2> QED BY <2>1 DEF LinkInv
<1>3. ASSUME mac = "ack_mount" PROVE toMac # << >> \/ out # << >>
  <2>1. Reply # << >>
    BY <1>1, <1>3 DEF SomethingToRead
  <2>2. out = << >> => Reply = toMac
    BY <1>2, ReplyIs
  <2> QED BY <2>1, <2>2
<1>4. CASE MacWorks
  <2>1. Readable \/ AckMount
    BY <1>4 DEF MacWorks, StartName, AckStart, SendWord, AckWord, AskMount, AckMount, AskId,
                AckRequest, OfferId, AckOffer, ReadClaim, SelectTimeout, ReadTimeout, AwaitDummy
  <2>2. CASE Readable
    BY <1>2, <2>2 DEF Readable
  <2> QED BY <1>1, <2>1, <2>2, PromiseKept
<1>5. CASE PutByte
  <2>1. toMac \in Seq(Byte) /\ toMac' = Append(toMac, Head(out))
    BY <1>2, <1>5 DEF PutByte, TypeOK
  <2>2. toMac' # << >>
    BY <2>1
  <2> QED BY <1>2, <2>2
<1>6. CASE SeeStart \/ StoreWord \/ SeeConfigInit \/ SeeRequest \/ TakeOffer
  <2>1. mac' = mac /\ toMac' = toMac /\ out = << >>
    BY <1>6 DEF SeeStart, StoreWord, SeeConfigInit, SeeRequest, TakeOffer, AwaitWord, macVars
  <2> QED BY <1>2, <1>3, <2>1
<1>7. CASE Mount \/ MountPanics \/ LookUp
  BY <1>2, <1>7, SaysSomething
<1>8. CASE SdInit \/ UNCHANGED vars
  BY <1>2, <1>3, <1>8 DEF SdInit, vars, macVars, piVars
<1> QED BY <1>1, <1>4, <1>5, <1>6, <1>7, <1>8 DEF Next, PiTalks, PiAtDisk

\* All of this, in every state.
THEOREM Invariance == Spec => []IInv
<1>1. Init => OnCard /\ LeftAlone /\ SomethingToRead
  BY DEF Init, OnCard, LeftAlone, SomethingToRead
<1>2. LinkInv /\ LinkInv' /\ OnCard /\ LeftAlone /\ SomethingToRead /\ [Next]_vars
        => OnCard' /\ LeftAlone' /\ SomethingToRead'
  BY OnCardStep, LeftAloneStep, SomethingToReadStep
<1>3. LinkInv /\ OnCard /\ LeftAlone /\ SomethingToRead => IInv
  BY DEF IInv
<1> QED BY <1>1, <1>2, <1>3, LinkInvariance, PTL DEF Spec

----------------------------------------------------------------------------
(***************************************************************************)
(* Until the pi restarts, a session with a framed name is one of DfsBoot.   *)
(***************************************************************************)
\* Where the pi is.
LEMMA AsPiIs ==
  ASSUME pi \in PiStates
  PROVE  /\ pi \in {"sd_init", "wait_start", "name", "wait_config"} <=> AsPi = "entry"
         /\ pi = "mount" <=> AsPi = "mounting"
         /\ pi \in {"wait_request", "wait_offer"} <=> AsPi = "ready"
         /\ pi = "lookup" <=> AsPi = "asked"
         /\ pi = "done" => AsPi = IF Answering THEN "decided" ELSE "done"
         /\ pi = "done" <=> AsPi \in {"decided", "done"}
         /\ pi = "panicked" <=> AsPi = "panicked"
BY DEF AsPi, Answering, PiStates

\* What deploy is at depends on the pi, unless it has stopped or has the answer.
MacTalks == mac \notin {"panicked", "gave_up", "done", "claim"}

LEMMA AsPhaseIs ==
  /\ mac = "panicked" => AsPhase = "off"
  /\ mac = "gave_up" => AsPhase = "save"
  /\ mac = "done" => AsPhase = "next"
  /\ mac = "claim" => AsPhase = "claim"
  /\ MacTalks /\ AsPi = "entry" => AsPhase = "name"
  /\ MacTalks /\ AsPi \in {"mounting", "ready", "panicked"} => AsPhase = "mount"
  /\ MacTalks /\ AsPi \in {"asked", "decided", "done"} => AsPhase = "answer"
BY DEF AsPhase, MacTalks

\* What DfsBoot sees of the session.
AsBefore ==
    UNCHANGED <<name, saved, counter, cfg, AsPi, AsPhase, AsRam, AsTty, AsForgotten,
                AsUnwritten, AsMisread>>

\* What DfsBoot remembers of the lookup.
LEMMA SameCard ==
  ASSUME name' = name, answer' = answer
  PROVE  AsUnwritten' = AsUnwritten /\ AsMisread' = AsMisread
BY DEF AsUnwritten, AsMisread

LEMMA Stutters ==
  ASSUME AsBefore, mac' # "done", mac # "done"
  PROVE  UNCHANGED Boot!vars
BY DEF AsBefore, Boot!vars, Boot!macVars, Boot!piVars, Boot!histVars

\* A step of the mac that is within a message.
LEMMA MacStutters ==
  ASSUME MacTalks, MacTalks', UNCHANGED <<name, counter, saved, piVars>>
  PROVE  UNCHANGED Boot!vars
<1>1. /\ name' = name /\ counter' = counter /\ saved' = saved /\ pi' = pi /\ op' = op
      /\ words' = words /\ out' = out /\ cfg' = cfg /\ answer' = answer
  BY DEF piVars
<1>2. Answering' = Answering /\ GivenName' = GivenName
  BY <1>1 DEF Answering, Repeat, DONE, GivenName, Received, StringIn, Ends
<1>3. AsPi' = AsPi
  BY <1>1, <1>2 DEF AsPi
<1>4. AsRam' = AsRam
  BY <1>1, <1>2, <1>3 DEF AsRam
<1>5. AsPhase' = AsPhase
  BY <1>3 DEF AsPhase, MacTalks
<1>6. AsTty' = AsTty /\ AsForgotten' = AsForgotten
  BY <1>1, <1>3 DEF AsTty, AsForgotten, MacTalks
<1> QED BY <1>1, <1>3, <1>4, <1>5, <1>6, SameCard, Stutters DEF AsBefore, MacTalks

\* A step of the pi that is within a message.
LEMMA PiStutters ==
  ASSUME UNCHANGED <<macVars, cfg, answer, AsPi, AsRam>>,
         pi' \in {"lookup", "done"} <=> pi \in {"lookup", "done"}
  PROVE  UNCHANGED Boot!vars
<1>1. /\ name' = name /\ mac' = mac /\ sent' = sent /\ counter' = counter /\ saved' = saved
      /\ claim' = claim /\ cfg' = cfg /\ answer' = answer /\ AsPi' = AsPi /\ AsRam' = AsRam
  BY DEF macVars
<1>2. AsPhase' = AsPhase
  BY <1>1 DEF AsPhase
<1>3. AsTty' = AsTty /\ AsForgotten' = AsForgotten
  BY <1>1 DEF AsTty, AsForgotten
<1> QED BY <1>1, <1>2, <1>3, SameCard DEF Boot!vars, Boot!macVars, Boot!piVars, Boot!histVars

\* The answer of the pi is under way to a mac that waits for it, or has it.
LEMMA AnswerUnderWay ==
  ASSUME LinkInv, pi = "done"
  PROVE  /\ mac = "ack_offer" => Reply = (IF answer.used THEN DUMMY2 ELSE DUMMY) \o Repeat(answer.id) \o DONE
         /\ mac = "claim" => Reply = Repeat(answer.id) \o DONE
         /\ mac = "done" => Reply = DONE
         /\ mac \in {"gave_up", "panicked", "ack_offer", "claim", "done"}
<1> DEFINE W == WordsInName(name)
<1>1. TypeOK /\ OneWordApart /\ W \in Nat \ {0} /\ sent \in 0 .. W
  BY WellStored DEF TypeOK
<1>2. SUFFICES ASSUME mac \notin {"gave_up", "panicked"}
               PROVE  /\ mac = "ack_offer" => Reply = (IF answer.used THEN DUMMY2 ELSE DUMMY) \o Repeat(answer.id) \o DONE
                      /\ mac = "claim" => Reply = Repeat(answer.id) \o DONE
                      /\ mac = "done" => Reply = DONE
                      /\ mac \in {"ack_offer", "claim", "done"}
  OBVIOUS
<1>3. PICK h : h = Heard /\ h = W + 4
  BY HeardIs
<1>4. \/ Waiting(h) /\ Reply \in Due
      \/ mac = "claim" /\ Reply = Repeat(answer.id) \o DONE
      \/ mac = "done" /\ Reply = DONE
  BY <1>1, <1>2, <1>3 DEF OneWordApart, Coming
<1>5. Waiting(h) => mac = "ack_offer"
  <2>1. Waiting(h) => mac = "ack_offer" \/ h \in {1, sent + 1, W + 2, W + 3}
    BY DEF Waiting
  <2> HIDE DEF W
  <2> QED BY <1>1, <1>3, <2>1
<1>6. Due = {(IF answer.used THEN DUMMY2 ELSE DUMMY) \o Repeat(answer.id) \o DONE}
  BY DEF Due
<1> QED BY <1>4, <1>5, <1>6

\* How long it is.
LEMMA AnswerLengths ==
  ASSUME NEW b \in Byte, NEW u \in BOOLEAN
  PROVE  /\ Len(Repeat(b) \o DONE) = 12 /\ Len(DONE) = 8
         /\ Len((IF u THEN DUMMY2 ELSE DUMMY) \o Repeat(b) \o DONE) = 16
<1> DEFINE d == IF u THEN DUMMY2 ELSE DUMMY
<1>1. d \in {DUMMY, DUMMY2}
  OBVIOUS
<1> HIDE DEF d
<1>2. Len(d \o Repeat(b) \o DONE) = 16 /\ Len(Repeat(b) \o DONE) = 12
  BY <1>1, AnswerIs
<1> QED BY <1>2, Answer4 DEF d

\* The pi is answering until it has put the first word; from then on DfsBoot has
\* its answer in the tty.
LEMMA AnsweringIs ==
  ASSUME TypeOK, Answered, pi = "done"
  PROVE  /\ answer # None /\ answer.used \in BOOLEAN /\ answer.id \in Byte
         /\ Len(out) \in Nat
         /\ Answering <=> Len(out) > 12
<1>1. answer # None /\ answer.used \in BOOLEAN /\ answer.id \in Byte
  BY DEF Answered, TypeOK, Answer
<1>2. Len(out) \in Nat
  BY DEF TypeOK
<1> QED BY <1>1, <1>2, AnswerLengths DEF Answering

\* The first word of the answer is the reply of DfsBoot.
LEMMA AckOfferRefines ==
  ASSUME LinkInv, AckOffer, Framed(name), pi # "loader"
  PROVE  UNCHANGED Boot!vars \/ Boot!ReadAnswer
<1>1. /\ mac = "ack_offer" /\ Get32 /\ toPi' = toPi /\ name' = name /\ counter' = Counted(Word)
      /\ saved' = saved /\ UNCHANGED piVars
      /\ pi' = pi /\ op' = op /\ words' = words /\ out' = out /\ cfg' = cfg /\ answer' = answer
  BY DEF AckOffer, piVars
<1>2. TypeOK /\ Answered /\ counter \in Nat /\ pi \in PiStates
  BY DEF LinkInv, TypeOK
<1>3. /\ Word \in {DUMMY, DUMMY2} => mac' = "claim"
      /\ Word \notin {DUMMY, DUMMY2} => mac' = "ack_offer"
  BY DEF AckOffer
<1>4. CASE mac' = "ack_offer"
  <2>1. counter' = counter
    BY <1>1, <1>3, <1>4 DEF Counted
  <2>2. MacTalks /\ MacTalks'
    BY <1>1, <1>4 DEF MacTalks
  <2> QED BY <1>1, <2>1, <2>2, MacStutters
<1>5. CASE mac' = "claim"
  <2>1. Waiting(WordsInName(name) + 4)
    BY <1>1 DEF Waiting
  <2>2. /\ Heard = WordsInName(name) + 4
        /\ \/ pi = "panicked"
           \/ pi = "done" /\ Word = (IF answer.used THEN DUMMY2 ELSE DUMMY)
           \/ pi \notin {"mount", "panicked", "lookup", "done"}
    BY <1>1, <2>1, Finds DEF Get32
  <2>3. pi = "done"
    <3>1. WordsInName(name) \in Nat \ {0} /\ Len(words) \in Nat
      BY WellStored
    <3>2. pi \in {"wait_request", "wait_offer", "lookup", "done"}
      BY <1>1, AlwaysReady DEF ReadyMeansMounted, PastMount, Mounted
    <3>3. pi \notin {"wait_request", "wait_offer"}
      <4> DEFINE W == WordsInName(name)
      <4>1. pi = "wait_request" => Heard = W + 2
        BY HeardIs
      <4>2. pi = "wait_offer" => Heard = W + 3
        BY HeardIs
      <4>3. Heard = W + 4 /\ W \in Nat
        BY <2>2, <3>1
      <4> HIDE DEF W
      <4> QED BY <4>1, <4>2, <4>3
    <3> QED BY <2>2, <3>2, <3>3
  <2>4. Word = (IF answer.used THEN DUMMY2 ELSE DUMMY)
    BY <2>2, <2>3
  <2>5. ~ Answering
    <3>1. Len(Reply) = 16
      BY <1>1, <1>2, <2>3, <2>4, AnswerUnderWay, AnsweringIs, AnswerLengths
    <3>2. Len(out) <= 12
      BY <1>1, <1>2, <3>1, ReplyIs DEF Get32
    <3> QED BY <1>2, <2>3, <2>4, <3>2, AnsweringIs
  <2>6. AsPi = "done" /\ Answering' = Answering
    BY <1>1, <1>2, <2>3, <2>5, AsPiIs DEF Answering, Repeat, DONE
  <2>7. AsPi' = "done"
    BY <1>1, <2>3, <2>5, <2>6 DEF AsPi
  <2>8. AsPhase = "answer" /\ AsPhase' = "claim"
    BY <1>1, <1>5, <2>6 DEF AsPhase
  <2> DEFINE reply == [used |-> answer.used, id |-> answer.id]
  <2>9. AsTty = reply /\ AsTty' = reply /\ AsForgotten = {} /\ AsForgotten' = {} /\ AsRam = None /\ AsRam' = None
    BY <1>1, <1>5, <2>6, <2>7 DEF AsTty, AsForgotten, AsRam
  <2>10. counter' = IF answer.used THEN counter + 1 ELSE counter
    BY <1>1, <1>2, <2>3, <2>4, AnsweringIs, Constants4 DEF Counted
  <2>11. reply # None /\ reply.used = answer.used
    <3>1. reply \in [used : BOOLEAN, id : Byte]
      BY <1>2, <2>3, AnsweringIs
    <3> QED BY <3>1, NoneAssumption
  <2> HIDE DEF reply
  <2> QED BY <1>1, <1>5, <2>6, <2>7, <2>8, <2>9, <2>10, <2>11, SameCard
          DEF Boot!ReadAnswer, Boot!AfterReply, Boot!piVars, Boot!histVars
<1> QED BY <1>3, <1>4, <1>5

\* The second one is the claim.
LEMMA ReadClaimRefines ==
  ASSUME LinkInv, LinkInv', ReadClaim, pi # "loader"
  PROVE  Boot!ReadClaim
<1>1. /\ mac = "claim" /\ mac' = "done" /\ name' = name /\ counter' = counter /\ saved' = saved
      /\ pi' = pi /\ op' = op /\ words' = words /\ out' = out /\ cfg' = cfg /\ answer' = answer
  BY DEF ReadClaim, piVars
<1>2. /\ TypeOK /\ Answered /\ OneWordApart /\ CountedIsRecorded' /\ pi \in PiStates
  BY DEF LinkInv, TypeOK
<1>3. pi = "done"
  <2>1. toMac # << >>
    <3>1. Len(<< >>) = 0
      OBVIOUS
    <3> QED BY <3>1 DEF ReadClaim, Get32
  <2>2. Reply # << >>
    BY <1>2, <2>1, ReplyIs
  <2>3. \A i : ~ Waiting(i)
    BY <1>1 DEF Waiting
  <2> QED BY <1>1, <1>2, <2>2, <2>3 DEF OneWordApart
<1>4. claim' = answer.id /\ (counter # saved <=> answer.used)
  BY <1>1, <1>2, <1>3 DEF Answered, CountedIsRecorded
<1>5. ~ Answering
  <2>1. Len(Reply) = 12
    BY <1>1, <1>2, <1>3, <1>4, AnswerUnderWay, AnsweringIs, AnswerLengths
  <2>2. Len(out) <= 12
    BY <1>2, <2>1, ReplyIs
  <2> QED BY <1>2, <1>3, <1>4, <2>2, AnsweringIs
<1>6. AsPi = "done" /\ Answering' = Answering
  BY <1>1, <1>2, <1>3, <1>5, AsPiIs DEF Answering, Repeat, DONE
<1>7. AsPi' = "done"
  BY <1>1, <1>3, <1>5, <1>6 DEF AsPi
<1>8. AsPhase = "claim" /\ AsPhase' = "next"
  BY <1>1 DEF AsPhase
<1> DEFINE reply == [used |-> answer.used, id |-> answer.id]
<1>9. AsTty = reply /\ AsTty' = None /\ AsForgotten = {} /\ AsForgotten' = {} /\ AsRam = None /\ AsRam' = None
  BY <1>1, <1>6, <1>7 DEF AsTty, AsForgotten, AsRam
<1>10. reply.id = answer.id /\ reply.used = answer.used /\ answer.used \in BOOLEAN
  BY <1>2, <1>3, AnsweringIs
<1> HIDE DEF reply
<1> QED BY <1>1, <1>4, <1>6, <1>7, <1>8, <1>9, <1>10, SameCard
        DEF Boot!ReadClaim, Boot!MarkDirty, Boot!piVars

\* A mac whose select sees nothing talks to a pi that mounts.
LEMMA SelectTimeoutRefines ==
  ASSUME LinkInv, Framed(name), SelectTimeout, pi # "loader"
  PROVE  Boot!SelectTimeout
<1>1. /\ mac = "select" /\ mac' = "gave_up" /\ name' = name /\ counter' = counter /\ saved' = saved
      /\ toMac = << >> /\ Quiet
      /\ pi' = pi /\ op' = op /\ words' = words /\ out' = out /\ cfg' = cfg /\ answer' = answer
  BY DEF SelectTimeout, piVars
<1>2. TypeOK /\ OneWordApart /\ pi \in PiStates
  BY DEF LinkInv, TypeOK
<1>3. pi \in {"sd_init", "mount", "panicked", "lookup", "done"}
  BY LeavesAlone
<1>4. Reply = << >>
  BY <1>1, <1>2, ReplyIs DEF Quiet
<1>5. pi \in {"sd_init", "mount", "panicked", "lookup"}
  BY <1>1, <1>3, AnswerUnderWay
<1>6. pi = "mount"
  <2> DEFINE W == WordsInName(name)
  <2>1. W \in Nat \ {0}
    BY WellStored
  <2>2. PICK h : h = Heard /\ (pi = "sd_init" => h = 0) /\ (pi = "lookup" => h = W + 4)
    BY HeardIs
  <2>3. Waiting(h + 1) \/ (Waiting(h) /\ Reply \in Due)
    BY <1>1, <1>2, <2>2 DEF OneWordApart, Past
  <2>4. h + 1 = W + 2 \/ (h = W + 2 /\ Reply \in Due)
    BY <1>1, <2>3 DEF Waiting
  <2>5. pi \notin {"sd_init", "lookup"}
    <3> HIDE DEF W
    <3> QED BY <2>1, <2>2, <2>4
  <2>6. pi # "panicked"
    <3>1. SUFFICES ASSUME pi = "panicked" PROVE FALSE
      OBVIOUS
    <3>2. Reply \in Due
      BY <1>1, <1>2, <3>1 DEF OneWordApart, Coming, Past
    <3>3. PICK k \in 0 .. 3 : Reply = Later(PANIC, 4 * k)
      BY <3>1, <3>2 DEF Due
    <3> QED BY <1>4, <3>3, PanicIs
  <2> QED BY <1>5, <2>5, <2>6
<1>7. AsPi = "mounting"
  BY <1>2, <1>6, AsPiIs
<1>8. AsPi' = "mounting"
  BY <1>1, <1>6 DEF AsPi, Answering
<1>9. AsPhase = "mount" /\ AsPhase' = "save"
  BY <1>1, <1>7, <1>8, AsPhaseIs DEF AsPhase, MacTalks
<1>10. AsRam' = AsRam
  BY <1>1, <1>7, <1>8 DEF AsRam, GivenName, StringIn, Ends, Received
<1>11. AsTty = None /\ AsTty' = None /\ AsForgotten = {} /\ AsForgotten' = {}
  BY <1>1, <1>7, <1>8 DEF AsTty, AsForgotten
<1> QED BY <1>1, <1>7, <1>8, <1>9, <1>10, <1>11, SameCard
        DEF Boot!SelectTimeout, Boot!piVars, Boot!histVars

\* A mac that waits ten seconds for a byte dies with its counter unsaved: it has
\* made its offer and has no answer, or has counted nothing.  DfsBoot knows where the
\* pi may keep it waiting.
LEMMA ReadTimeoutRefines ==
  ASSUME LinkInv, SomethingToRead, Framed(name), ReadTimeout, pi # "loader"
  PROVE  Boot!Panic
<1>1. /\ mac' = "panicked" /\ name' = name /\ counter' = counter /\ saved' = saved
      /\ Len(toMac) < 4 /\ Quiet /\ Reading
      /\ pi' = pi /\ op' = op /\ words' = words /\ out' = out /\ cfg' = cfg /\ answer' = answer
  BY DEF ReadTimeout, piVars
<1>2. TypeOK /\ OneWordApart /\ Answered /\ Booked /\ pi \in PiStates /\ name \in Names
  BY DEF LinkInv, TypeOK
<1>3. pi \in {"sd_init", "mount", "panicked", "lookup", "done"}
  BY LeavesAlone
<1>4. mac # "claim"
  <2>1. SUFFICES ASSUME mac = "claim" PROVE FALSE
    OBVIOUS
  <2>2. pi \in {"lookup", "done"}
    BY <1>3, <2>1, AlwaysReady DEF ReadyMeansMounted, PastMount, Mounted
  <2>3. pi = "done"
    <3>1. \A i : ~ Waiting(i)
      BY <2>1 DEF Waiting
    <3> QED BY <1>2, <2>1, <2>2, <3>1 DEF OneWordApart
  <2>4. Len(Reply) = 12
    BY <1>2, <2>1, <2>3, AnswerUnderWay, AnsweringIs, AnswerLengths
  <2>5. Reply = toMac
    BY <1>1, <1>2, ReplyIs DEF Quiet
  <2>6. Len(toMac) < 4
    BY <1>1
  <2> QED BY <2>4, <2>5, <2>6
<1>5. MacTalks /\ counter = saved
  BY <1>1, <1>2, <1>4 DEF MacTalks, Reading, Booked
<1>6. pi \in {"sd_init", "panicked", "lookup"}
  <2>1. pi # "done"
    <3>1. SUFFICES ASSUME pi = "done" PROVE FALSE
      OBVIOUS
    <3>2. mac = "ack_offer"
      BY <1>1, <1>4, <3>1, AnswerUnderWay DEF Reading
    <3>3. Len(Reply) = 16
      BY <1>2, <3>1, <3>2, AnswerUnderWay, AnsweringIs, AnswerLengths
    <3>4. Reply = toMac
      BY <1>1, <1>2, ReplyIs DEF Quiet
    <3>5. Len(toMac) < 4
      BY <1>1
    <3> QED BY <3>3, <3>4, <3>5
  <2>2. pi # "mount"
    <3> DEFINE W == WordsInName(name)
    <3>1. SUFFICES ASSUME pi = "mount" PROVE FALSE
      OBVIOUS
    <3>2. PICK h : h = Heard /\ h = W + 2
      BY <3>1, HeardIs
    <3>3. Waiting(h) /\ Reply \in {<< >>}
      BY <1>2, <1>5, <3>1, <3>2 DEF OneWordApart, Coming, Due, MacTalks
    <3>4. mac # "ack_mount"
      BY <1>1, <3>1, <3>3 DEF SomethingToRead
    <3>5. h \in {1, sent + 1, W + 3, W + 4}
      BY <1>1, <3>3, <3>4 DEF Waiting, Reading
    <3>6. W \in Nat \ {0} /\ sent \in 0 .. W
      BY WellStored DEF TypeOK
    <3> HIDE DEF W
    <3> QED BY <3>2, <3>5, <3>6
  <2> QED BY <1>3, <2>1, <2>2
<1>7. Answering' = Answering
  BY <1>1 DEF Answering, Repeat, DONE
<1>8. AsPi' = AsPi
  BY <1>1, <1>7 DEF AsPi
<1>9. AsRam' = AsRam
  BY <1>1, <1>8 DEF AsRam, GivenName, StringIn, Ends, Received
<1>10. /\ pi = "sd_init" <=> AsPi = "entry"
       /\ pi = "panicked" <=> AsPi = "panicked"
       /\ pi = "lookup" <=> AsPi = "asked"
       /\ AsPi \in {"entry", "panicked", "asked"}
  BY <1>2, <1>6, AsPiIs
<1>11. /\ pi = "sd_init" => AsPhase = "name"
       /\ pi = "panicked" => AsPhase = "mount"
       /\ pi = "lookup" => AsPhase = "answer"
  BY <1>5, <1>10, AsPhaseIs
<1>12. AsPhase' = "off" /\ (AsPhase = "answer" <=> pi = "lookup")
  BY <1>1, <1>6, <1>11 DEF AsPhase
<1>13. AsTty = None /\ AsTty' = None
  BY <1>1, <1>8, <1>10 DEF AsTty
<1>14. AsForgotten = {} /\ AsForgotten' = IF AsPhase = "answer" THEN {name} ELSE {}
  BY <1>1, <1>5, <1>6, <1>12 DEF AsForgotten, MacTalks
<1>15. Boot!Silent
  BY <1>6, <1>10, <1>11, <1>13 DEF Boot!Silent
<1>16. [n \in Names |-> saved][name] = saved
  BY <1>2
<1>17. mac # "done" /\ mac' # "done"
  BY <1>1, <1>5 DEF MacTalks
<1> QED BY <1>1, <1>5, <1>8, <1>9, <1>12, <1>13, <1>14, <1>15, <1>16, <1>17, SameCard
        DEF Boot!Panic, Boot!DieUnsaved, Boot!piVars

\* The first word of the answer is out: DfsBoot has it in the tty.
LEMMA PutByteRefines ==
  ASSUME LinkInv, PutByte, pi # "loader"
  PROVE  UNCHANGED Boot!vars \/ Boot!PiAnswers("disk")
<1>1. /\ UNCHANGED macVars /\ name' = name /\ mac' = mac /\ counter' = counter /\ saved' = saved
      /\ claim' = claim
      /\ pi' = pi /\ op' = op /\ words' = words /\ cfg' = cfg /\ answer' = answer
      /\ out # << >> /\ out' = Tail(out)
  BY DEF PutByte, macVars
<1>2. TypeOK /\ Answered /\ pi \in PiStates /\ out \in Seq(Byte)
  BY DEF LinkInv, TypeOK
<1>3. Len(out) \in Nat \ {0} /\ Len(out') = Len(out) - 1
  BY <1>1, <1>2
<1>4. CASE Answering' = Answering
  <2>1. AsPi' = AsPi
    BY <1>1, <1>4 DEF AsPi
  <2>2. AsRam' = AsRam
    BY <1>1, <2>1 DEF AsRam, GivenName, StringIn, Ends, Received
  <2> QED BY <1>1, <2>1, <2>2, PiStutters
<1>5. CASE Answering' # Answering
  <2>1. pi = "done"
    BY <1>1, <1>5 DEF Answering
  <2>2. answer.used \in BOOLEAN /\ answer.id \in Byte
    BY <1>2, <2>1, AnsweringIs
  <2>3. Answering <=> Len(out) > 12
    BY <1>2, <2>1, AnsweringIs
  <2>4. Answering' <=> Len(out') > 12
    <3>1. (Repeat(answer.id) \o DONE)' = Repeat(answer.id) \o DONE
      BY <1>1 DEF Repeat, DONE
    <3>2. Len(Repeat(answer.id) \o DONE) = 12
      BY <2>2, AnswerLengths
    <3> QED BY <1>1, <2>1, <3>1, <3>2 DEF Answering
  <2>5. Answering /\ ~ Answering'
    <3>1. Answering \in BOOLEAN /\ Answering' \in BOOLEAN
      BY DEF Answering
    <3>2. ~ (Answering <=> Answering')
      BY <1>5, <3>1
    <3>3. Len(out') > 12 => Len(out) > 12
      BY <1>3
    <3> QED BY <2>3, <2>4, <3>2, <3>3
  <2>6. AsPi = "decided" /\ AsPi' = "done"
    BY <1>1, <2>1, <2>5 DEF AsPi
  <2>7. mac # "done"
    <3>1. mac = "done" => Reply = DONE
      BY <2>1, AnswerUnderWay
    <3>2. toMac \in Seq(Byte) /\ Len(toMac) \in Nat
      BY <1>2 DEF TypeOK
    <3>3. Len(Reply) = Len(toMac) + Len(out)
      BY <1>2, <3>2, ReplyIs
    <3>4. Len(Reply) # 8
      BY <1>3, <2>3, <2>5, <3>2, <3>3
    <3> QED BY <3>1, <3>4, Answer4
  <2>8. AsPhase' = AsPhase
    BY <1>1, <2>6 DEF AsPhase
  <2>9. AsRam = [fs |-> GivenName, id |-> answer.id, used |-> answer.used] /\ AsRam' = None
    BY <2>6 DEF AsRam
  <2>10. AsTty' = [used |-> answer.used, id |-> answer.id] /\ AsForgotten' = AsForgotten
    BY <1>1, <2>1, <2>6, <2>7 DEF AsTty, AsForgotten
  <2> QED BY <1>1, <2>6, <2>7, <2>8, <2>9, <2>10, SameCard
          DEF Boot!PiAnswers, Boot!macVars, Boot!histVars
<1> QED BY <1>4, <1>5

\* Reading what is not the end of a message.
LEMMA ReadsOn ==
  ASSUME pi \in PiStates, UNCHANGED <<macVars, cfg, answer>>,
         \/ pi' = pi /\ pi # "lookup" /\ pi # "done" /\ UNCHANGED words
         \/ {pi, pi'} \subseteq {"sd_init", "wait_start", "name", "wait_config"}
         \/ {pi, pi'} \subseteq {"wait_request", "wait_offer"} /\ UNCHANGED words
  PROVE  UNCHANGED Boot!vars
<1>1. AsPi' = AsPi /\ (pi' \in {"lookup", "done"} <=> pi \in {"lookup", "done"})
      /\ AsPi \notin {"asked", "decided"}
  BY DEF AsPi, Answering, PiStates
<1>2. AsPi \in {"mounting", "ready"} => words' = words
  BY DEF AsPi, Answering, PiStates
<1>3. AsRam' = AsRam
  <2>1. CASE AsPi \in {"mounting", "ready"}
    <3>1. words' = words
      BY <1>2, <2>1
    <3>2. GivenName' = GivenName
      BY <3>1 DEF GivenName, StringIn, Ends, Received
    <3> QED BY <1>1, <2>1, <3>2 DEF AsRam
  <2>2. CASE AsPi \notin {"mounting", "ready"}
    BY <1>1, <2>2 DEF AsRam
  <2> QED BY <2>1, <2>2
<1> QED BY <1>1, <1>3, PiStutters

\* A pi that is about to mount, or to look up, talks to a mac that goes on.
LEMMA GoesOnWith ==
  ASSUME LinkInv, LeftAlone, Framed(name), pi \in {"wait_config", "wait_offer"}
  PROVE  MacTalks
<1>1. mac \notin {"gave_up", "panicked"}
  BY DEF LeftAlone
<1>2. mac \notin {"claim", "done"}
  <2> DEFINE W == WordsInName(name)
  <2>1. W \in Nat \ {0} /\ OneWordApart
    BY WellStored
  <2>2. SUFFICES ASSUME mac \in {"claim", "done"} PROVE FALSE
    OBVIOUS
  <2>3. PICK h : h = Heard /\ (pi = "wait_offer" => h = W + 3)
    BY HeardIs
  <2>4. pi = "wait_offer"
    BY <2>2, AlwaysReady DEF ReadyMeansMounted, PastMount, Mounted
  <2>5. Past(h)
    BY <1>1, <2>1, <2>2, <2>3, <2>4 DEF OneWordApart, Waiting
  <2>6. h = W + 4
    BY <2>2, <2>5 DEF Past
  <2> HIDE DEF W
  <2> QED BY <2>1, <2>3, <2>4, <2>6
<1> QED BY <1>1, <1>2 DEF MacTalks

\* The name has arrived with the word that ends it.
LEMMA SeeConfigInitRefines ==
  ASSUME LinkInv, LeftAlone, Framed(name), SeeConfigInit
  PROVE  UNCHANGED Boot!vars \/ Boot!SendName
<1>1. /\ UNCHANGED macVars /\ name' = name /\ mac' = mac /\ counter' = counter /\ saved' = saved
      /\ claim' = claim
      /\ pi = "wait_config" /\ words' = words /\ cfg' = cfg /\ answer' = answer
      /\ pi' = pi \/ pi' = "mount"
  BY DEF SeeConfigInit, AwaitWord, macVars
<1>2. CASE pi' = pi
  BY <1>1, <1>2, ReadsOn DEF PiStates
<1>3. CASE pi' = "mount"
  <2>1. AsPi = "entry" /\ AsPi' = "mounting"
    BY <1>1, <1>3 DEF AsPi, Answering
  <2>2. MacTalks
    BY <1>1, GoesOnWith
  <2>3. AsPhase = "name" /\ AsPhase' = "mount"
    BY <1>1, <2>1, <2>2, AsPhaseIs DEF AsPhase, MacTalks
  <2>4. GivenName = name
    BY <1>1, FramedName
  <2>5. AsRam' = [fs |-> name, id |-> 0, used |-> FALSE]
    <3>1. GivenName' = GivenName
      BY <1>1 DEF GivenName, StringIn, Ends, Received
    <3> QED BY <2>1, <2>4, <3>1 DEF AsRam
  <2>6. AsTty = None /\ AsTty' = None /\ AsForgotten' = AsForgotten
    BY <1>1, <1>3, <2>1 DEF AsTty, AsForgotten
  <2> QED BY <1>1, <2>1, <2>2, <2>3, <2>5, <2>6, SameCard
          DEF Boot!SendName, Boot!histVars, MacTalks
<1> QED BY <1>1, <1>2, <1>3

\* fat32_init and dfs_init_config, or their panic.
LEMMA MountRefines ==
  ASSUME Mount \/ MountPanics
  PROVE  Boot!PiMounts("disk") \/ Boot!PiPanics("disk")
<1>1. /\ UNCHANGED macVars /\ name' = name /\ mac' = mac /\ counter' = counter /\ saved' = saved
      /\ claim' = claim
      /\ pi = "mount" /\ words' = words /\ cfg' = cfg /\ answer' = answer
      /\ pi' = "wait_request" \/ pi' = "panicked"
  BY DEF Mount, MountPanics, macVars
<1>2. AsPi = "mounting"
  BY <1>1 DEF AsPi, Answering
<1>3. AsPhase' = AsPhase \/ ~ MacTalks
  <2>1. AsPi' \in {"ready", "panicked"}
    BY <1>1 DEF AsPi, Answering
  <2> QED BY <1>1, <1>2, <2>1 DEF AsPhase
<1>4. AsPhase' = AsPhase
  BY <1>1, <1>3 DEF AsPhase, MacTalks
<1>5. AsTty = None /\ AsTty' = None /\ AsForgotten = {} /\ AsForgotten' = {}
  BY <1>1, <1>2 DEF AsTty, AsForgotten, AsPi, Answering
<1>6. CASE pi' = "wait_request"
  <2>1. AsPi' = "ready"
    BY <1>6 DEF AsPi, Answering
  <2>2. AsRam' = AsRam
    BY <1>1, <1>2, <2>1 DEF AsRam, GivenName, StringIn, Ends, Received
  <2>3. Boot!PiMounts("disk")
    BY <1>1, <1>2, <1>4, <1>5, <2>1, <2>2, SameCard DEF Boot!PiMounts, Boot!macVars, Boot!histVars
  <2> QED BY <2>3
<1>7. CASE pi' = "panicked"
  <2>1. AsPi' = "panicked"
    BY <1>7 DEF AsPi, Answering
  <2>2. AsRam' = None
    BY <2>1 DEF AsRam
  <2>3. Boot!PiPanics("disk")
    BY <1>1, <1>2, <1>4, <1>5, <2>1, <2>2, SameCard DEF Boot!PiPanics, Boot!macVars, Boot!histVars
  <2> QED BY <2>3
<1> QED BY <1>1, <1>6, <1>7

\* The offer has arrived.
LEMMA TakeOfferRefines ==
  ASSUME LinkInv, LinkInv', LeftAlone, Framed(name), TakeOffer
  PROVE  Boot!OfferId
<1>1. /\ UNCHANGED macVars /\ name' = name /\ mac' = mac /\ counter' = counter /\ saved' = saved
      /\ claim' = claim
      /\ pi = "wait_offer" /\ pi' = "lookup" /\ words' = words /\ cfg' = cfg /\ answer' = answer
  BY DEF TakeOffer, macVars
<1>2. MacTalks
  BY <1>1, GoesOnWith
<1>3. AsPi = "ready" /\ AsPi' = "asked"
  BY <1>1 DEF AsPi, Answering
<1>4. AsPhase = "mount" /\ AsPhase' = "answer"
  BY <1>1, <1>2, <1>3 DEF AsPhase, MacTalks
<1>5. op'[1] = counter % 256
  <2>1. Unsent' /\ counter = saved /\ saved \in Nat
    BY <1>1, <1>2 DEF LinkInv, TypeOK, Hears, Coming, Booked, MacTalks
  <2>2. op' = OfferWord(saved)
    <3>1. OpBefore' = OfferWord(saved')
      BY <1>1 DEF OpBefore
    <3> QED BY <1>1, <2>1, <3>1 DEF Unsent
  <2> QED BY <2>1, <2>2, OfferIs DEF OfferWord
<1>6. AsRam = [fs |-> GivenName, id |-> 0, used |-> FALSE]
      /\ AsRam' = [fs |-> GivenName, id |-> counter % 256, used |-> FALSE]
  <2>1. GivenName' = GivenName
    BY <1>1 DEF GivenName, StringIn, Ends, Received
  <2> QED BY <1>3, <1>5, <2>1 DEF AsRam
<1>7. AsTty = None /\ AsTty' = None /\ AsForgotten = {} /\ AsForgotten' = {}
  BY <1>1, <1>2, <1>3 DEF AsTty, AsForgotten, MacTalks
<1>8. [[d \in {"disk"} |-> AsRam] EXCEPT !["disk"].id = counter % 256] = [d \in {"disk"} |-> AsRam']
  <2>1. PICK r, q, g, x, u : r = AsRam /\ q = AsRam' /\ g = GivenName /\ x = counter % 256 /\ u = FALSE
    OBVIOUS
  <2>2. r = [fs |-> g, id |-> 0, used |-> u] /\ q = [fs |-> g, id |-> x, used |-> u]
    BY <1>6, <2>1
  <2>3. [r EXCEPT !.id = x] = q
    BY <2>2
  <2>4. [[d \in {"disk"} |-> r] EXCEPT !["disk"].id = x] = [d \in {"disk"} |-> q]
    BY <2>3
  <2> QED BY <2>1, <2>4, Zenon
<1> QED BY <1>1, <1>2, <1>3, <1>4, <1>7, <1>8, SameCard
        DEF Boot!OfferId, Boot!Offer, Boot!histVars, MacTalks

\* id_for_dfs: of a sector that was read, or of what memory holds in its place.
LEMMA LookUpRefines ==
  ASSUME LinkInv, LinkInv', OnCard, OnCard', Framed(name), LookUp
  PROVE  Boot!IdForDfs("disk")
<1>1. /\ UNCHANGED macVars /\ name' = name /\ mac' = mac /\ counter' = counter /\ saved' = saved
      /\ claim' = claim
      /\ pi = "lookup" /\ pi' = "done" /\ op' = op /\ words' = words
  BY DEF LookUp, macVars
<1>2. GivenName = name /\ GivenName' = name /\ name \in Names
  <2>1. GivenName = name
    BY <1>1, FramedName
  <2>2. GivenName' = GivenName
    BY <1>1 DEF GivenName, StringIn, Ends, Received
  <2> QED BY <2>1, <2>2 DEF LinkInv, TypeOK
<1> DEFINE used    == answer'.used
           written == answer'.written
           id      == answer'.id
<1>3. /\ used \in BOOLEAN /\ written \in BOOLEAN /\ answer'.read \in BOOLEAN /\ id \in Byte
      /\ IF used /\ written THEN cfg' = [name |-> name, id |-> op[1]] ELSE cfg' = cfg
      /\ used => id = op[1] /\ (answer'.read <=> cfg = None)
      /\ ~used =>
            /\ written
            /\ answer'.read => cfg # None /\ id = cfg.id
            /\ ~answer'.read => id \in RecordedIds /\ (cfg # None => id # cfg.id)
      /\ out' = (IF used THEN DUMMY2 ELSE DUMMY) \o Repeat(id) \o DONE
  <2>1. used \in BOOLEAN /\ written \in BOOLEAN /\ answer'.read \in BOOLEAN /\ id \in Byte
    BY LookUpAnswers DEF Answer
  <2>2. used /\ written => cfg' = [name |-> GivenName, id |-> op[1]]
    BY LookUpAnswers
  <2>3. ~(used /\ written) => cfg' = cfg
    BY LookUpAnswers
  <2>4. used => id = op[1] /\ (answer'.read <=> cfg = None)
    BY LookUpAnswers
  <2>5. ~used => written /\ (answer'.read => cfg # None /\ id = cfg.id)
    BY LookUpAnswers
  <2>6. ~used /\ ~answer'.read => id \in RecordedIds /\ (cfg # None => id # cfg.id)
    BY LookUpAnswers
  <2>7. out' = (IF used THEN DUMMY2 ELSE DUMMY) \o Repeat(id) \o DONE
    BY LookUpAnswers
  <2> HIDE DEF used, written, id
  <2> QED BY <1>2, <2>1, <2>2, <2>3, <2>4, <2>5, <2>6, <2>7
<1>4. answer = None /\ answer' # None
  BY <1>1, LookUpAnswers DEF LinkInv, Answered
<1>5. /\ AsUnwritten = {} /\ AsMisread = {}
      /\ AsUnwritten' = IF written THEN {} ELSE {<<"disk", name>>}
      /\ AsMisread' = IF answer'.read THEN {} ELSE {"disk"}
  BY <1>1, <1>4 DEF AsUnwritten, AsMisread
<1>6. AsPi = "asked" /\ AsPi' = "decided"
  <2>1. Len(out') = 16
    <3> HIDE DEF used, id
    <3> QED BY <1>3, AnswerLengths
  <2>2. (TypeOK /\ Answered /\ pi = "done" => (Answering <=> Len(out) > 12))'
    BY AnsweringIs, PTL
  <2>3. Answering'
    BY <1>1, <2>1, <2>2 DEF LinkInv
  <2>4. AsPi = "asked"
    BY <1>1 DEF AsPi, Answering
  <2> QED BY <1>1, <2>3, <2>4 DEF AsPi
<1>7. AsPhase' = AsPhase
  BY <1>1, <1>6 DEF AsPhase
<1>8. AsTty = None /\ AsTty' = None /\ AsForgotten' = AsForgotten
  BY <1>1, <1>6 DEF AsTty, AsForgotten
<1> DEFINE C == [d \in {"disk"} |-> IF cfg = None THEN << >> ELSE <<cfg>>]
           R == [d \in {"disk"} |-> AsRam]
           e == IF answer'.read THEN cfg ELSE [name |-> name, id |-> id]
           S == IF used THEN << >> ELSE <<e>>
           K == [fs |-> name, id |-> id, used |-> used]
<1>9. AsRam = [fs |-> name, id |-> op[1], used |-> FALSE] /\ AsRam' = K
  BY <1>1, <1>2, <1>6 DEF AsRam
<1>10. R["disk"].fs = name /\ R["disk"].id = op[1]
  BY <1>9
<1>11. ~used => e.name = name /\ e.id = id
  BY <1>3 DEF OnCard
<1>12. C' = IF used /\ written THEN [C EXCEPT !["disk"] = <<[name |-> name, id |-> op[1]]>>] ELSE C
  <2>1. CASE used /\ written
    <3>1. cfg' = [name |-> name, id |-> op[1]]
      BY <1>3, <2>1
    <3>2. cfg' # None
      <4>1. op[1] \in Byte /\ name \in Seq(Byte)
        BY <1>2, <1>3, <2>1, NameIs
      <4> QED BY <3>1, <4>1, NoneAssumption
    <3> QED BY <2>1, <3>1, <3>2
  <2>2. CASE ~(used /\ written)
    BY <1>3, <2>2
  <2> QED BY <2>1, <2>2
<1>13. /\ S \in {C["disk"]} \cup AsUnread
       /\ AsMisread' = IF S = C["disk"] THEN AsMisread ELSE AsMisread \cup {"disk"}
  <2>1. S \in {C["disk"]} \cup AsUnread
    <3>1. CASE used
      BY <3>1 DEF AsUnread
    <3>2. CASE ~used /\ answer'.read
      BY <1>3, <3>2
    <3>3. CASE ~used /\ ~answer'.read
      BY <1>2, <1>3, <3>3 DEF AsUnread
    <3> QED BY <3>1, <3>2, <3>3
  <2>2. S = C["disk"] <=> answer'.read
    <3>1. CASE used
      BY <1>3, <3>1
    <3>2. CASE ~used /\ answer'.read
      BY <1>3, <3>2
    <3>3. CASE ~used /\ ~answer'.read
      <4>1. cfg # None => e # cfg
        BY <1>3, <1>11, <3>3
      <4> HIDE DEF e
      <4>2. <<e>> # << >> /\ (cfg # None => <<e>> # <<cfg>>)
        BY <4>1
      <4> QED BY <3>3, <4>2
    <3> QED BY <3>1, <3>2, <3>3
  <2>3. CASE answer'.read
    <3> HIDE DEF S, C
    <3> QED BY <1>5, <2>1, <2>2, <2>3
  <2>4. CASE ~answer'.read
    <3> HIDE DEF S, C
    <3> QED BY <1>5, <2>1, <2>2, <2>4
  <2> QED BY <2>3, <2>4
<1>14. CASE used
  <2>1. Boot!Matches(S, R["disk"].fs) = {}
    BY <1>14 DEF Boot!Matches
  <2>2. [R EXCEPT !["disk"].used = TRUE] = [d \in {"disk"} |-> AsRam']
    <3>1. PICK r, q, i, u, v : r = AsRam /\ q = AsRam' /\ i = op[1] /\ u = FALSE /\ v = TRUE
      OBVIOUS
    <3>2. r = [fs |-> name, id |-> i, used |-> u] /\ q = [fs |-> name, id |-> i, used |-> v]
      BY <1>3, <1>9, <1>14, <3>1
    <3>3. [r EXCEPT !.used = v] = q
      BY <3>2
    <3>4. [[d \in {"disk"} |-> r] EXCEPT !["disk"].used = v] = [d \in {"disk"} |-> q]
      BY <3>3
    <3> QED BY <3>1, <3>4, Zenon
  <2>3. \/ C' = [C EXCEPT !["disk"] = Boot!Recorded(S, R["disk"].fs, R["disk"].id)] /\ AsUnwritten' = AsUnwritten
        \/ C' = C /\ AsUnwritten' = AsUnwritten \cup {<<"disk", R["disk"].fs>>}
    <3>1. Boot!Recorded(<< >>, name, op[1]) = <<[name |-> name, id |-> op[1]]>>
      BY DEF Boot!Recorded, Boot!HasRoom
    <3> HIDE DEF C, R
    <3> QED BY <1>5, <1>10, <1>12, <1>14, <3>1
  <2>4. Boot!Search("disk", S)
    <3> HIDE DEF S, K
    <3> QED BY <2>1, <2>2, <2>3 DEF Boot!Search
  <2> HIDE DEF S
  <2> QED BY <1>1, <1>6, <1>7, <1>8, <1>13, <2>4 DEF Boot!IdForDfs, Boot!macVars
<1>15. CASE ~used
  <2>1. Boot!Matches(<<e>>, name) = {1} /\ Boot!FirstMatch(<<e>>, name) = 1
    <3> HIDE DEF e
    <3> QED BY <1>11, <1>15 DEF Boot!Matches, Boot!FirstMatch, Boot!SameName
  <2>2. S = <<e>> /\ <<e>>[1] = e
    BY <1>15
  <2>3. Boot!Matches(S, R["disk"].fs) # {}
    BY <1>10, <2>1, <2>2
  <2>4. S[Boot!FirstMatch(S, R["disk"].fs)].id = id
    BY <1>10, <1>11, <1>15, <2>1, <2>2
  <2>5. Boot!Kept("disk", S) = AsRam'
    <3>1. PICK r, p, q, i, j, u : /\ r = AsRam /\ q = AsRam' /\ i = op[1] /\ j = id /\ u = FALSE
                                  /\ p = [fs |-> name, id |-> j, used |-> u]
      OBVIOUS
    <3>2. r = [fs |-> name, id |-> i, used |-> u] /\ q = p /\ p = [fs |-> name, id |-> j, used |-> u]
      BY <1>3, <1>9, <1>15, <3>1
    <3>3. [r EXCEPT !.id = j] = p
      BY <3>2
    <3>4. [p EXCEPT !.used = u] = q
      BY <3>2
    <3>5. [r EXCEPT !.id = j, !.used = u] = q
      BY <3>3, <3>4
    <3>6. R["disk"] = r
      BY <3>1
    <3> HIDE DEF S, R
    <3> QED BY <2>4, <3>1, <3>5, <3>6 DEF Boot!Kept, R
  <2>6. [R EXCEPT !["disk"] = Boot!Kept("disk", S)] = [d \in {"disk"} |-> AsRam']
    BY <2>5
  <2>7. C' = C /\ AsUnwritten' = AsUnwritten
    BY <1>3, <1>5, <1>12, <1>15
  <2>8. Boot!Search("disk", S)
    <3> HIDE DEF S
    <3> QED BY <2>3, <2>6, <2>7 DEF Boot!Search
  <2> HIDE DEF S
  <2> QED BY <1>1, <1>6, <1>7, <1>8, <1>13, <2>8 DEF Boot!IdForDfs, Boot!macVars
<1> QED BY <1>14, <1>15

\* Every step of the mac is one of DfsBoot, or within a message.
LEMMA MacRefines ==
  ASSUME LinkInv, LinkInv', OnCard, SomethingToRead, Framed(name), MacWorks, pi # "loader"
  PROVE  UNCHANGED Boot!vars \/ Boot!Next
<1>1. CASE \/ StartName \/ AckStart \/ SendWord \/ AckWord \/ AskMount \/ Readable
           \/ AckMount \/ AskId \/ AckRequest \/ OfferId
  <2>1. MacTalks /\ MacTalks'
    BY <1>1 DEF StartName, AckStart, SendWord, AckWord, AskMount, Readable, AckMount, AskId,
                AckRequest, OfferId, AwaitDummy, MacTalks
  <2>2. UNCHANGED <<name, counter, saved, piVars>>
    BY <1>1 DEF StartName, AckStart, SendWord, AckWord, AskMount, Readable, AckMount, AskId,
                AckRequest, OfferId, AwaitDummy
  <2> QED BY <2>1, <2>2, MacStutters
<1>2. CASE AckOffer
  BY <1>2, AckOfferRefines DEF Boot!Next, Boot!MacWorks
<1>3. CASE ReadClaim
  BY <1>3, ReadClaimRefines DEF Boot!Next, Boot!MacWorks
<1>4. CASE SelectTimeout
  BY <1>4, SelectTimeoutRefines DEF Boot!Next, Boot!MacWorks
<1>5. CASE ReadTimeout
  BY <1>5, ReadTimeoutRefines DEF Boot!Next, Boot!MacWorks
<1> QED BY <1>1, <1>2, <1>3, <1>4, <1>5 DEF MacWorks

\* So is every step of the pi.
LEMMA PiRefines ==
  ASSUME LinkInv, LinkInv', OnCard, OnCard', LeftAlone, Framed(name), PiTalks \/ PiAtDisk, pi # "loader"
  PROVE  UNCHANGED Boot!vars \/ Boot!Next
<1>1. pi \in PiStates
  BY DEF LinkInv, TypeOK
<1>2. CASE SdInit \/ SeeStart \/ StoreWord
  <2>1. /\ UNCHANGED <<macVars, cfg, answer>>
        /\ {pi, pi'} \subseteq {"sd_init", "wait_start", "name", "wait_config"}
    BY <1>2 DEF SdInit, SeeStart, StoreWord, AwaitWord
  <2> QED BY <1>1, <2>1, ReadsOn
<1>3. CASE SeeRequest
  <2>1. /\ UNCHANGED <<macVars, cfg, answer>> /\ words' = words
        /\ {pi, pi'} \subseteq {"wait_request", "wait_offer"}
    BY <1>3 DEF SeeRequest, AwaitWord
  <2> QED BY <1>1, <2>1, ReadsOn
<1>4. CASE PutByte
  BY <1>4, PutByteRefines DEF Boot!Next, Boot!PiWorks
<1>5. CASE SeeConfigInit
  BY <1>5, SeeConfigInitRefines DEF Boot!Next, Boot!MacWorks
<1>6. CASE TakeOffer
  BY <1>6, TakeOfferRefines DEF Boot!Next, Boot!MacWorks
<1>7. CASE Mount \/ MountPanics
  BY <1>7, MountRefines DEF Boot!Next, Boot!PiWorks
<1>8. CASE LookUp
  BY <1>8, LookUpRefines DEF Boot!Next, Boot!PiWorks
<1> QED BY <1>2, <1>3, <1>4, <1>5, <1>6, <1>7, <1>8 DEF PiTalks, PiAtDisk

\* Nothing happens.
LEMMA NothingRefines ==
  ASSUME UNCHANGED vars
  PROVE  UNCHANGED Boot!vars
<1>1. /\ name' = name /\ mac' = mac /\ counter' = counter /\ saved' = saved /\ claim' = claim
      /\ pi' = pi /\ op' = op /\ words' = words /\ out' = out /\ cfg' = cfg /\ answer' = answer
      /\ UNCHANGED macVars
  BY DEF vars, macVars, piVars
<1>2. Answering' = Answering /\ GivenName' = GivenName
  BY <1>1 DEF Answering, Repeat, DONE, GivenName, Received, StringIn, Ends
<1>3. AsPi' = AsPi
  BY <1>1, <1>2 DEF AsPi
<1>4. AsRam' = AsRam
  BY <1>1, <1>2, <1>3 DEF AsRam
<1> QED BY <1>1, <1>3, <1>4, PiStutters

\* Bytes and words on the line are no more than the messages of DfsBoot: for every
\* set of framed names, every counter and every id on the card, and wherever mac and
\* pi stop, a session in which the pi keeps its power is one that DfsBoot allows.
THEOREM IsDfsBoot == Spec => ImplementsDfsBoot
<1>1. LinkInv /\ LinkInv' /\ OnCard /\ OnCard' /\ LeftAlone /\ SomethingToRead /\ [Next]_vars
        => [Framed(name) /\ pi' # "loader" => Boot!Next]_(Boot!vars)
  <2> SUFFICES ASSUME LinkInv, LinkInv', OnCard, OnCard', LeftAlone, SomethingToRead, [Next]_vars,
                      Framed(name), pi' # "loader"
               PROVE  UNCHANGED Boot!vars \/ Boot!Next
    OBVIOUS
  <2>1. pi # "loader" /\ ~ Restart /\ ~ AskForProgram
    BY NotRestarted
  <2>2. MacWorks \/ PiTalks \/ PiAtDisk \/ UNCHANGED vars
    BY <2>1 DEF Next
  <2> QED BY <2>1, <2>2, MacRefines, PiRefines, NothingRefines
<1> QED BY <1>1, Invariance, PTL DEF Spec, IInv, ImplementsDfsBoot
=============================================================================
