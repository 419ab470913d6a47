---------------------------- MODULE Fat32Proofs -----------------------------
(***************************************************************************)
(* Proofs about Fat32, for any geometry of the card, any volumes that are   *)
(* sound at first, and a loss of power between any two sector writes.       *)
(***************************************************************************)
EXTENDS Fat32, NatLemmas

(***************************************************************************)
(* Directory slots.                                                         *)
(***************************************************************************)

LEMMA TotalIsNat == Total \in Nat /\ Slots = 0 .. Total - 1 /\ Total \notin Slots
<1>1. RootLen * S \in Nat /\ RootLen * S * R \in Nat
  BY GeometryAssumption
<1> QED BY <1>1 DEF Total, Slots

\* The least slot of a set is in it, unless there is none.
LEMMA FirstOfIsFirst ==
  ASSUME NEW P \in SUBSET Slots
  PROVE  /\ FirstOf(P) \in 0 .. Total
         /\ FirstOf(P) # Total => FirstOf(P) \in P
         /\ \A s \in P : FirstOf(P) <= s
<1>1. CASE P = {}
  BY <1>1, TotalIsNat DEF FirstOf
<1>2. CASE P # {}
  <2>1. P \subseteq Nat
    BY TotalIsNat
  <2>2. \E s \in P : \A t \in P : s <= t
    BY <1>2, <2>1, LeastNumber
  <2>3. FirstOf(P) \in P /\ \A t \in P : FirstOf(P) <= t
    BY <1>2, <2>2 DEF FirstOf
  <2>4. FirstOf(P) \in Slots
    BY <2>3
  <2> QED BY <2>3, <2>4, TotalIsNat
<1> QED BY <1>1, <1>2

\* A search stops at a terminal, or at the end, and at no slot before.
LEMMA LimitIsFirst ==
  ASSUME NEW d
  PROVE  /\ Limit(d) \in 0 .. Total
         /\ Limit(d) # Total => Limit(d) \in Slots /\ d[Limit(d)].end /\ ~ d[Limit(d)].lfn
         /\ \A s \in Slots : d[s].end /\ ~ d[s].lfn => Limit(d) <= s
<1> DEFINE P == {s \in Slots : d[s].end /\ ~ d[s].lfn}
<1>1. P \in SUBSET Slots
  OBVIOUS
<1>2. Limit(d) = FirstOf(P)
  BY DEF Limit, Terminal
<1>3. \A s \in Slots : s \in P <=> d[s].end /\ ~ d[s].lfn
  OBVIOUS
<1> HIDE DEF P
<1>4. /\ FirstOf(P) \in 0 .. Total
      /\ FirstOf(P) # Total => FirstOf(P) \in P
      /\ \A s \in P : FirstOf(P) <= s
  BY <1>1, FirstOfIsFirst
<1>5. FirstOf(P) \in P => FirstOf(P) \in Slots
  BY <1>1
<1> QED BY <1>2, <1>3, <1>4, <1>5

\* Those facts determine where it stops.
LEMMA LimitIs ==
  ASSUME NEW d, NEW l \in 0 .. Total,
         l # Total => d[l].end /\ ~ d[l].lfn,
         \A s \in Slots : s < l => ~ (d[s].end /\ ~ d[s].lfn)
  PROVE  Limit(d) = l
<1> DEFINE m == Limit(d)
<1>1. /\ m \in 0 .. Total
      /\ m # Total => m \in Slots /\ d[m].end /\ ~ d[m].lfn
      /\ \A s \in Slots : d[s].end /\ ~ d[s].lfn => m <= s
  BY LimitIsFirst
<1>2. l # Total => l \in Slots
  BY TotalIsNat
<1> HIDE DEF m
<1>3. ~ (m < l)
  BY <1>1, <1>2, TotalIsNat
<1>4. ~ (l < m)
  BY <1>1, <1>2, TotalIsNat
<1>5. m = l
  BY <1>1, <1>3, <1>4, TotalIsNat
<1> QED BY <1>5 DEF m

\* The ends of two sectors are at least a sector apart.
LEMMA SectorEndsApart ==
  ASSUME NEW s \in Nat, NEW t \in Nat, SectorEnd(s), SectorEnd(t), s < t
  PROVE  s + R <= t
<1> DEFINE p == s \div R
           q == t \div R
<1>1. R \in Nat /\ R > 0
  BY GeometryAssumption
<1>2. s = R * p + (R - 1) /\ p \in Int
  BY <1>1 DEF SectorEnd
<1>3. t = R * q + (R - 1) /\ q \in Int
  BY <1>1 DEF SectorEnd
<1> HIDE DEF p, q
<1>4. R * p < R * q
  BY <1>1, <1>2, <1>3
<1>5. p < q
  BY <1>1, <1>2, <1>3, <1>4
<1>6. R * (p + 1) <= R * q
  BY <1>1, <1>2, <1>3, <1>5
<1>7. R * (p + 1) = R * p + R
  BY <1>1, <1>2
<1> QED BY <1>1, <1>2, <1>3, <1>6, <1>7

LEMMA SectorEndNotBefore ==
  ASSUME NEW s \in Nat, SectorEnd(s)
  PROVE  R - 1 <= s
<1> DEFINE p == s \div R
<1>1. R \in Nat /\ R > 0
  BY GeometryAssumption
<1>2. s = R * p + (R - 1) /\ p \in Int
  BY <1>1 DEF SectorEnd
<1> HIDE DEF p
<1>3. p < 0 => R * p <= - R
  BY <1>1, <1>2
<1>4. p >= 0 => R * p >= 0
  BY <1>1, <1>2
<1> QED BY <1>1, <1>2, <1>3, <1>4

\* A new record moves the end of the directory by one slot and keeps it clear.
LEMMA FilledDirectory ==
  ASSUME NEW d \in [Slots -> Record], NEW o, o.slot \in Slots, o.slot = Limit(d), TailClear(d)
  PROVE  /\ Limit(Filled(d, o)) = o.slot + 1
         /\ TailClear(Filled(d, o))
         /\ ClearFrom(Filled(d, o), o.slot)
<1> DEFINE n == o.slot
           f == Filled(d, o)
<1>n. n \in Slots /\ n \in Nat /\ n + 1 \in 0 .. Total /\ n = Limit(d)
  BY TotalIsNat
<1>f. \A s \in Slots :
         /\ s # n /\ s # n + 1 => f[s] = d[s]
         /\ s = n => ~ f[s].end /\ ~ f[s].lfn
         /\ s = n + 1 => f[s].lfn = d[s].lfn /\ (f[s].end = d[s].end \/ f[s].end)
         /\ s = n + 1 /\ ~ SectorEnd(n) => f[s].end
         /\ s = n + 1 /\ SectorEnd(n) => f[s] = d[s]
  <2>1. \A s \in Slots : d[s] = [end |-> d[s].end, lfn |-> d[s].lfn, name |-> d[s].name, head |-> d[s].head]
    BY DEF Record
  <2>2. \A s \in Slots : [d[s] EXCEPT !.end = TRUE].lfn = d[s].lfn /\ [d[s] EXCEPT !.end = TRUE].end
    BY <2>1
  <2>3. \A s \in Slots : f[s] =
          IF s = n THEN [end |-> FALSE, lfn |-> FALSE, name |-> o.name, head |-> o.head]
          ELSE IF s = n + 1 /\ ~ SectorEnd(n) THEN [d[s] EXCEPT !.end = TRUE]
          ELSE d[s]
    BY DEF Filled
  <2> HIDE DEF n, f
  <2>4. n + 1 # n
    BY <1>n
  <2>5. ASSUME NEW s \in Slots
        PROVE  /\ s # n /\ s # n + 1 => f[s] = d[s]
               /\ s = n => ~ f[s].end /\ ~ f[s].lfn
               /\ s = n + 1 => f[s].lfn = d[s].lfn /\ (f[s].end = d[s].end \/ f[s].end)
               /\ s = n + 1 /\ ~ SectorEnd(n) => f[s].end
               /\ s = n + 1 /\ SectorEnd(n) => f[s] = d[s]
    <3>1. CASE s = n
      <4>1. f[s] = [end |-> FALSE, lfn |-> FALSE, name |-> o.name, head |-> o.head]
        BY <3>1, <2>3
      <4>2. f[s].end = FALSE /\ f[s].lfn = FALSE
        BY <4>1
      <4> QED BY <3>1, <4>2, <2>4
    <3>2. CASE s # n /\ s = n + 1 /\ ~ SectorEnd(n)
      <4>1. f[s] = [d[s] EXCEPT !.end = TRUE]
        BY <3>2, <2>3
      <4> QED BY <3>2, <4>1, <2>2
    <3>3. CASE s # n /\ ~ (s = n + 1 /\ ~ SectorEnd(n))
      BY <3>3, <2>3
    <3> QED BY <3>1, <3>2, <3>3
  <2> QED BY <2>5
<1>e. \A s, t \in Int : EndBetween(s, t) <=> \E u \in Slots : s <= u /\ u < t /\ SectorEnd(u)
  BY DEF EndBetween
<1>t. /\ \A s \in Slots : s < n => ~ d[s].end
      /\ \A s \in Slots : ~ EndBetween(s, n) => ~ d[s].lfn
      /\ \A s \in Slots : EndBetween(n, s) => d[s].end
  BY DEF TailClear, ClearFrom
<1>s. Slots \subseteq Nat
  BY TotalIsNat
<1> HIDE DEF n, f
<1>1. n + 1 \in Slots => f[n + 1].end /\ ~ f[n + 1].lfn
  <2> SUFFICES ASSUME n + 1 \in Slots PROVE f[n + 1].end /\ ~ f[n + 1].lfn
    OBVIOUS
  <2>1. ~ EndBetween(n + 1, n)
    BY <1>n, <1>e, <1>s
  <2>2. SectorEnd(n) => EndBetween(n, n + 1)
    BY <1>n, <1>e, <1>s
  <2> QED BY <2>1, <2>2, <1>f, <1>t
<1>2. \A s \in Slots : s < n + 1 => ~ f[s].end
  BY <1>n, <1>f, <1>t, <1>s
<1>3. Limit(f) = n + 1
  <2>1. n + 1 # Total => n + 1 \in Slots
    BY <1>n, TotalIsNat
  <2> QED BY <1>1, <1>2, <1>n, <2>1, LimitIs
<1>4. ClearFrom(f, n)
  <2> SUFFICES ASSUME NEW s \in Slots, ~ EndBetween(s, n) PROVE ~ f[s].lfn
    BY DEF ClearFrom
  <2> QED BY <1>f, <1>t
<1>5. ClearFrom(f, n + 1)
  <2> SUFFICES ASSUME NEW s \in Slots, ~ EndBetween(s, n + 1) PROVE ~ f[s].lfn
    BY DEF ClearFrom
  <2>1. ~ EndBetween(s, n)
    BY <1>n, <1>e, <1>s
  <2> QED BY <2>1, <1>f, <1>t
<1>6. \A s \in Slots : EndBetween(n + 1, s) => f[s].end
  <2> SUFFICES ASSUME NEW s \in Slots, EndBetween(n + 1, s) PROVE f[s].end
    OBVIOUS
  <2>1. EndBetween(n, s) /\ s # n
    BY <1>n, <1>e, <1>s
  <2> QED BY <2>1, <1>f, <1>t
<1>7. TailClear(f)
  BY <1>2, <1>3, <1>5, <1>6 DEF TailClear
<1> QED BY <1>3, <1>4, <1>7 DEF n, f

\* The copied sector adds a terminal where the directory ends, and nothing
\* before it; it holds no long name, as the sector it is copied from has none.
LEMMA CopiedDirectory ==
  ASSUME NEW d \in [Slots -> Record], NEW o, o.slot \in Slots, o.slot + 1 = Limit(d),
         SectorEnd(o.slot), Filled(d, o) = d, ClearFrom(d, o.slot), TailClear(d)
  PROVE  /\ Limit(Copied(d, o)) = o.slot + 1
         /\ TailClear(Copied(d, o))
         /\ \A s \in Slots : s <= o.slot => Copied(d, o)[s] = d[s]
<1> DEFINE n == o.slot
           f == Copied(d, o)
<1>n. n \in Slots /\ n \in Nat /\ n + 1 \in 0 .. Total /\ n + 1 = Limit(d) /\ SectorEnd(n)
  BY TotalIsNat
<1>r. R \in Nat /\ R > 0 /\ R - 1 <= n
  BY <1>n, GeometryAssumption, SectorEndNotBefore
<1>s. Slots \subseteq Nat /\ \A s \in Slots : \A t \in Nat : t <= s => t \in Slots
  BY TotalIsNat
<1>e. \A s, t \in Int : EndBetween(s, t) <=> \E u \in Slots : s <= u /\ u < t /\ SectorEnd(u)
  BY DEF EndBetween
<1>t. /\ \A s \in Slots : s < n + 1 => ~ d[s].end
      /\ \A s \in Slots : ~ EndBetween(s, n + 1) => ~ d[s].lfn
      /\ \A s \in Slots : EndBetween(n + 1, s) => d[s].end
      /\ \A s \in Slots : ~ EndBetween(s, n) => ~ d[s].lfn
  BY DEF TailClear, ClearFrom
<1>f. \A s \in Slots :
         /\ s <= n => f[s] = d[s]
         /\ s > n + R => f[s] = d[s]
         /\ s = n + 1 => f[s].end
         /\ s > n /\ s <= n + R => s - R \in Slots /\ f[s].lfn = d[s - R].lfn
  <2>1. \A s \in Slots : [d[s] EXCEPT !.end = TRUE].lfn = d[s].lfn /\ [d[s] EXCEPT !.end = TRUE].end
    BY DEF Record
  <2>2. \A s \in Slots : f[s] =
          IF s = n + 1 THEN [d[s - R] EXCEPT !.end = TRUE]
          ELSE IF s > n + 1 /\ s <= n + R THEN d[s - R]
          ELSE d[s]
    BY DEF Copied
  <2> HIDE DEF n, f
  <2>3. \A s \in Slots : s > n /\ s <= n + R => s - R \in Slots
    BY <1>n, <1>r, <1>s
  <2>4. ASSUME NEW s \in Slots
        PROVE  /\ s <= n => f[s] = d[s]
               /\ s > n + R => f[s] = d[s]
               /\ s = n + 1 => f[s].end
               /\ s > n /\ s <= n + R => s - R \in Slots /\ f[s].lfn = d[s - R].lfn
    <3>1. CASE s = n + 1
      <4>1. f[s] = [d[s - R] EXCEPT !.end = TRUE] /\ s - R \in Slots
        BY <3>1, <2>2, <2>3, <1>n, <1>r
      <4>2. f[s].end /\ f[s].lfn = d[s - R].lfn
        BY <4>1, <2>1
      <4> QED BY <3>1, <4>1, <4>2, <1>n, <1>r
    <3>2. CASE s > n + 1 /\ s <= n + R
      <4>0. s # n + 1 /\ s - R \in Slots
        BY <3>2, <2>3, <1>n, <1>r, <1>s
      <4>1. f[s] = d[s - R]
        BY <3>2, <4>0, <2>2
      <4> QED BY <3>2, <4>1, <2>3, <1>n, <1>r, <1>s
    <3>3. CASE s <= n \/ s > n + R
      <4>1. s # n + 1 /\ ~ (s > n + 1 /\ s <= n + R)
        BY <3>3, <1>n, <1>r, <1>s
      <4>2. f[s] = d[s]
        BY <4>1, <2>2
      <4> QED BY <3>3, <4>1, <4>2, <1>n, <1>r, <1>s
    <3> QED BY <3>1, <3>2, <3>3, <1>n, <1>r, <1>s
  <2> QED BY <2>4
<1> HIDE DEF n, f
<1>1. \A s \in Slots : s > n /\ s <= n + R => ~ f[s].lfn
  <2> SUFFICES ASSUME NEW s \in Slots, s > n, s <= n + R PROVE ~ f[s].lfn
    OBVIOUS
  <2>1. s - R \in Slots /\ s - R \in Nat /\ f[s].lfn = d[s - R].lfn
    BY <1>f, <1>s
  <2>2. ~ EndBetween(s - R, n)
    <3> SUFFICES ASSUME NEW u \in Slots, s - R <= u, u < n, SectorEnd(u) PROVE FALSE
      BY <2>1, <1>n, <1>e
    <3>1. u + R <= n
      BY <1>n, <1>s, SectorEndsApart
    <3> QED BY <3>1, <1>n, <1>r, <1>s
  <2> QED BY <2>1, <2>2, <1>t
<1>2. \A s \in Slots : s < n + 1 => ~ f[s].end
  BY <1>n, <1>f, <1>t, <1>s
<1>3. Limit(f) = n + 1
  <2>1. n + 1 # Total => n + 1 \in Slots
    BY <1>n, TotalIsNat
  <2>2. n + 1 \in Slots => f[n + 1].end /\ ~ f[n + 1].lfn
    BY <1>1, <1>f, <1>n, <1>r
  <2> QED BY <1>2, <1>n, <2>1, <2>2, LimitIs
<1>4. ClearFrom(f, n + 1)
  <2> SUFFICES ASSUME NEW s \in Slots, ~ EndBetween(s, n + 1) PROVE ~ f[s].lfn
    BY DEF ClearFrom
  <2>1. s > n
    BY <1>n, <1>e, <1>s
  <2> QED BY <2>1, <1>1, <1>f, <1>t, <1>n, <1>r, <1>s
<1>5. \A s \in Slots : EndBetween(n + 1, s) => f[s].end
  <2> SUFFICES ASSUME NEW s \in Slots, EndBetween(n + 1, s) PROVE f[s].end
    OBVIOUS
  <2>1. PICK u \in Slots : n + 1 <= u /\ u < s /\ SectorEnd(u)
    BY <1>n, <1>e, <1>s
  <2>2. n + R <= u
    BY <2>1, <1>n, <1>s, SectorEndsApart
  <2>3. s > n + R
    BY <2>1, <2>2, <1>n, <1>r, <1>s
  <2> QED BY <2>3, <1>f, <1>t
<1>6. TailClear(f)
  BY <1>2, <1>3, <1>4, <1>5 DEF TailClear
<1>7. \A s \in Slots : s <= n => f[s] = d[s]
  BY <1>f
<1> QED BY <1>3, <1>6, <1>7 DEF n, f

(***************************************************************************)
(* The table.                                                               *)
(***************************************************************************)

\* The files after a new record are those before and perhaps the new one.
LEMMA FilledLive ==
  ASSUME NEW d \in [Slots -> Record], NEW o, o.slot \in Slots, o.slot = Limit(d), TailClear(d)
  PROVE  /\ \A s \in Live(Filled(d, o)) :
               \/ s \in Live(d) /\ Filled(d, o)[s].head = d[s].head
               \/ s = o.slot /\ Filled(d, o)[s].head = o.head
         /\ o.slot \notin Live(d)
<1>1. Limit(Filled(d, o)) = o.slot + 1
  BY FilledDirectory
<1>2. \A s \in Slots : s < o.slot => Filled(d, o)[s] = d[s]
  <2>1. \A s \in Slots : s < o.slot => s # o.slot /\ s # o.slot + 1
    BY TotalIsNat
  <2> QED BY <2>1 DEF Filled
<1>3. Filled(d, o)[o.slot].head = o.head
  BY DEF Filled
<1>4. ASSUME NEW s \in Live(Filled(d, o))
      PROVE  \/ s \in Live(d) /\ Filled(d, o)[s].head = d[s].head
             \/ s = o.slot /\ Filled(d, o)[s].head = o.head
  <2>1. s \in Slots /\ s < o.slot + 1 /\ ~ Filled(d, o)[s].lfn /\ Filled(d, o)[s].name # NoName
    BY <1>1 DEF Live
  <2>2. s < o.slot \/ s = o.slot
    BY <2>1, TotalIsNat
  <2>3. CASE s < o.slot
    <3>1. s \in Live(d)
      BY <2>1, <2>3, <1>2 DEF Live
    <3> QED BY <2>1, <2>3, <1>2, <3>1
  <2> QED BY <2>2, <2>3, <1>3
<1>5. o.slot \notin Live(d)
  BY TotalIsNat DEF Live
<1> QED BY <1>4, <1>5

\* The copied sector neither adds a file nor changes one.
LEMMA CopiedLive ==
  ASSUME NEW d \in [Slots -> Record], NEW o, o.slot \in Slots, o.slot + 1 = Limit(d),
         SectorEnd(o.slot), Filled(d, o) = d, ClearFrom(d, o.slot), TailClear(d)
  PROVE  \A s \in Live(Copied(d, o)) : s \in Live(d) /\ Copied(d, o)[s] = d[s]
<1>1. /\ Limit(Copied(d, o)) = o.slot + 1
      /\ \A s \in Slots : s <= o.slot => Copied(d, o)[s] = d[s]
  BY CopiedDirectory
<1>2. ASSUME NEW s \in Live(Copied(d, o))
      PROVE  s \in Live(d) /\ Copied(d, o)[s] = d[s]
  <2>1. s \in Slots /\ s < o.slot + 1 /\ ~ Copied(d, o)[s].lfn /\ Copied(d, o)[s].name # NoName
    BY <1>1 DEF Live
  <2>2. s <= o.slot
    BY <2>1, TotalIsNat
  <2>3. Copied(d, o)[s] = d[s]
    BY <1>1, <2>1, <2>2
  <2> QED BY <2>1, <2>3 DEF Live
<1> QED BY <1>2

\* A directory whose files are files of a sound one is sound.
LEMMA FewerFilesSound ==
  ASSUME NEW d, NEW e, NEW ft, SoundTable(d, ft),
         \A s \in Live(e) : s \in Live(d) /\ e[s] = d[s]
  PROVE  /\ SoundTable(e, ft)
         /\ \A c \in Clusters : Loose(d, ft, c) => Loose(e, ft, c)
<1>1. Heads(e) \subseteq Heads(d)
  BY DEF Heads
<1>2. HeadsDistinct(e)
  BY DEF SoundTable, HeadsDistinct
<1> QED BY <1>1, <1>2 DEF SoundTable, HeadsInUse, Loose

\* Adding a file with a loose first cluster, or with none, keeps the table sound.
LEMMA NewFileSound ==
  ASSUME NEW d, NEW o, NEW ft, SoundTable(d, ft),
         o.head \in Clusters => Loose(d, ft, o.head),
         \A s \in Live(Filled(d, o)) :
            \/ s \in Live(d) /\ Filled(d, o)[s].head = d[s].head
            \/ s = o.slot /\ Filled(d, o)[s].head = o.head
  PROVE  SoundTable(Filled(d, o), ft)
<1> DEFINE e == Filled(d, o)
           slot == o.slot
           head == o.head
<1>0. /\ head \in Clusters => Loose(d, ft, head)
      /\ \A s \in Live(e) : \/ s \in Live(d) /\ e[s].head = d[s].head
                            \/ s = slot /\ e[s].head = head
  OBVIOUS
<1> HIDE DEF e, slot, head
<1>1. ASSUME NEW c \in Heads(e) PROVE c \in Heads(d) \/ (c = head /\ head \in Clusters)
  <2>1. PICK s \in Live(e) : e[s].head = c
    BY DEF Heads
  <2>2. c \in Clusters
    BY DEF Heads
  <2>3. CASE s \in Live(d) /\ e[s].head = d[s].head
    BY <2>1, <2>2, <2>3 DEF Heads
  <2>4. CASE e[s].head = head
    BY <2>1, <2>2, <2>4
  <2> QED BY <1>0, <2>3, <2>4
<1>2. HeadsInUse(e, ft)
  <2> SUFFICES ASSUME NEW c \in Heads(e) PROVE ft[c] # Free /\ c \notin Linked(ft)
    BY DEF HeadsInUse
  <2> QED BY <1>0, <1>1 DEF SoundTable, HeadsInUse, Loose
<1>3. HeadsDistinct(e)
  <2> SUFFICES ASSUME NEW s \in Live(e), NEW t \in Live(e), s # t, e[s].head \in Clusters
               PROVE  e[s].head # e[t].head
    BY DEF HeadsDistinct
  <2>1. CASE s \in Live(d) /\ e[s].head = d[s].head /\ t \in Live(d) /\ e[t].head = d[t].head
    BY <2>1 DEF SoundTable, HeadsDistinct
  <2>2. CASE s = slot /\ e[s].head = head /\ t \in Live(d) /\ e[t].head = d[t].head
    <3>1. d[t].head \in Clusters => d[t].head \in Heads(d)
      BY <2>2 DEF Heads
    <3> QED BY <1>0, <2>2, <3>1 DEF Loose
  <2>3. CASE t = slot /\ e[t].head = head /\ s \in Live(d) /\ e[s].head = d[s].head
    <3>1. d[s].head \in Heads(d)
      BY <2>3 DEF Heads
    <3> QED BY <1>0, <2>3, <3>1 DEF Loose
  <2> QED BY <1>0, <2>1, <2>2, <2>3
<1> QED BY <1>2, <1>3 DEF SoundTable, e

LEMMA ClusterNumbers ==
  /\ Clusters \subseteq Int /\ Free \notin Clusters /\ NoCluster \notin Clusters /\ Free # NoCluster
  /\ Unset \notin Clusters /\ Unset # NoCluster
BY GeometryAssumption DEF Clusters, Free, NoCluster, Unset

LEMMA FirstFreeIsFree ==
  ASSUME NEW ft, FreeClusters(ft) # {}
  PROVE  FirstFree(ft) \in Clusters /\ ft[FirstFree(ft)] = Free
<1>1. FreeClusters(ft) \subseteq Clusters /\ FreeClusters(ft) \subseteq Nat
  BY GeometryAssumption DEF FreeClusters, Clusters
<1>2. \E c \in FreeClusters(ft) : \A e \in FreeClusters(ft) : c <= e
  BY <1>1, LeastNumber
<1>3. FirstFree(ft) \in FreeClusters(ft)
  BY <1>2 DEF FirstFree
<1> QED BY <1>3 DEF FreeClusters

\* The quotient and the remainder of a division.
LEMMA DivMod ==
  ASSUME NEW n \in Nat, NEW m \in Nat \ {0}
  PROVE  /\ n \div m \in Nat /\ n % m \in Nat /\ n % m < m
         /\ n = m * (n \div m) + (n % m)
         /\ n < m => n \div m = 0 /\ n % m = n
         /\ n \div m = 0 => n < m
<1>1. n \div m \in Int /\ n % m \in Nat /\ n % m < m /\ n = m * (n \div m) + (n % m)
  OBVIOUS
<1>2. n \div m >= 0
  OBVIOUS
<1>3. n < m => n \div m = 0
  OBVIOUS
<1> DEFINE q == n \div m
           r == n % m
<1>4. q \in Nat /\ r \in Nat /\ r < m /\ n = m * q + r /\ (n < m => q = 0)
  BY <1>1, <1>2, <1>3
<1> HIDE DEF q, r
<1>5. q = 0 => n = r
  BY <1>4
<1> QED BY <1>4, <1>5 DEF q, r

\* Sectors of the FAT: the first holds the entries below W.
LEMMA FirstSector ==
  ASSUME NEW c \in Clusters
  PROVE  c \in Nat /\ (c \div W = 0 <=> c < W)
<1>1. c \in Nat /\ W \in Nat \ {0}
  BY GeometryAssumption DEF Clusters
<1> QED BY <1>1, DivMod

\* What is read into memory is a table, and its first sector that of the card.
LEMMA LoadedTable ==
  ASSUME NEW ft \in [Clusters -> Entries], NEW junk \in [Unread -> Junk]
  PROVE  /\ Loaded(ft, junk) \in [Clusters -> Entries]
         /\ Agree(Loaded(ft, junk), ft)
<1>1. W \in Nat /\ W >= 3 /\ LastCluster \in Nat
  BY GeometryAssumption
<1>2. Apart * W \in Nat \ {0}
  BY <1>1 DEF Apart
<1>3. ASSUME NEW c \in Clusters
      PROVE  /\ FromCard(c) => EntryAt(c) \in Clusters
             /\ c < W => FromCard(c) /\ EntryAt(c) = c
  <2> DEFINE k == c \div (Apart * W)
             r == c % (Apart * W)
  <2>1. c \in Nat /\ c >= 3 /\ c <= LastCluster
    BY <1>1 DEF Clusters
  <2>2. /\ k \in Nat /\ r \in Nat /\ c = (Apart * W) * k + r
        /\ c < Apart * W => k = 0 /\ r = c
    BY <2>1, <1>2, DivMod
  <2>3. EntryAt(c) = k * W + r /\ (FromCard(c) <=> r < W)
    BY DEF EntryAt, FromCard
  <2> HIDE DEF k, r
  <2>4. (Apart * W) * k = 4 * (k * W) /\ k * W \in Nat
    BY <2>2, <1>1 DEF Apart
  <2>5. k # 0 => k * W >= 3
    BY <2>2, <1>1
  <2>6. k = 0 => k * W = 0
    BY <1>1
  <2>7. c < W => c < Apart * W
    BY <2>1, <1>1 DEF Apart
  <2>8. EntryAt(c) >= 3 /\ EntryAt(c) <= c /\ EntryAt(c) \in Nat
    <3>1. CASE k = 0
      BY <3>1, <2>1, <2>2, <2>3, <2>4, <2>6
    <3>2. CASE k # 0
      BY <3>2, <2>1, <2>2, <2>3, <2>4, <2>5
    <3> QED BY <3>1, <3>2
  <2>9. EntryAt(c) \in Clusters
    BY <2>1, <2>8, <1>1 DEF Clusters
  <2>10. c < W => r = c /\ k = 0
    BY <2>2, <2>7
  <2>11. c < W => EntryAt(c) = c
    BY <2>3, <2>6, <2>10, <2>1
  <2> QED BY <2>3, <2>9, <2>10, <2>11
<1>4. \A c \in Clusters : ~ FromCard(c) => junk[c] \in Entries
  BY JunkAssumption DEF Unread
<1>5. \A c \in Clusters : Loaded(ft, junk)[c] = IF FromCard(c) THEN ft[EntryAt(c)] ELSE junk[c]
  BY DEF Loaded
<1>6. \A c \in Clusters : Loaded(ft, junk)[c] \in Entries
  BY <1>3, <1>4, <1>5
<1>7. \A c \in Clusters : c < W => Loaded(ft, junk)[c] = ft[c]
  BY <1>3, <1>5
<1>8. Loaded(ft, junk) \in [Clusters -> Entries]
  BY <1>6 DEF Loaded
<1> QED BY <1>7, <1>8 DEF Agree

\* Writing back the sector of the one entry that changed changes that entry of
\* the card, where memory and card agreed on the sector.
LEMMA OneEntryWritten ==
  ASSUME NEW old \in [Clusters -> Entries], NEW ft \in [Clusters -> Entries],
         Agree(ft, old), NEW c \in Clusters, c < W, NEW x \in Entries
  PROVE  /\ SectorWritten(old, [ft EXCEPT ![c] = x], c) = [old EXCEPT ![c] = x]
         /\ Agree([ft EXCEPT ![c] = x], [old EXCEPT ![c] = x])
<1> DEFINE new == [ft EXCEPT ![c] = x]
<1>1. \A e \in Clusters : new[e] = IF e = c THEN x ELSE ft[e]
  OBVIOUS
<1>2. c \div W = 0 /\ \A e \in Clusters : e \div W = 0 <=> e < W
  BY FirstSector
<1>3. \A e \in Clusters : e < W => new[e] = [old EXCEPT ![c] = x][e]
  BY <1>1 DEF Agree
<1>4. \A e \in Clusters : ~ (e < W) => e # c /\ [old EXCEPT ![c] = x][e] = old[e]
  OBVIOUS
<1> HIDE DEF new
<1>5. \A e \in Clusters : (IF e \div W = c \div W THEN new[e] ELSE old[e]) = [old EXCEPT ![c] = x][e]
  BY <1>2, <1>3, <1>4
<1>6. SectorWritten(old, new, c) = [old EXCEPT ![c] = x]
  BY <1>5 DEF SectorWritten
<1> QED BY <1>3, <1>6 DEF new, Agree

LEMMA SectorWrittenType ==
  ASSUME NEW old \in [Clusters -> Entries], NEW new \in [Clusters -> Entries], NEW c
  PROVE  SectorWritten(old, new, c) \in [Clusters -> Entries]
BY DEF SectorWritten

\* Marking a free entry keeps the table sound and its cluster loose.
LEMMA MarkKeepsSound ==
  ASSUME NEW d, NEW ft \in [Clusters -> Entries], NEW c \in Clusters,
         SoundTable(d, ft), ft[c] = Free
  PROVE  LET new == [ft EXCEPT ![c] = NoCluster]
         IN  /\ SoundTable(d, new)
             /\ Loose(d, new, c)
             /\ \A x \in Clusters : Loose(d, ft, x) => Loose(d, new, x) /\ x # c
<1> DEFINE new == [ft EXCEPT ![c] = NoCluster]
<1>1. /\ new[c] = NoCluster
      /\ \A x \in Clusters : x # c => new[x] = ft[x]
      /\ \A x \in Clusters : ft[x] # Free => new[x] = ft[x] /\ x # c
  OBVIOUS
<1> HIDE DEF new
<1>2. Linked(new) \subseteq Linked(ft)
  BY <1>1, ClusterNumbers DEF Linked
<1>3. c \notin Linked(ft) /\ c \notin Heads(d)
  BY DEF SoundTable, HeadsInUse, LinksInUse
<1>4. HeadsInUse(d, new)
  <2>1. Heads(d) \subseteq Clusters
    BY DEF Heads
  <2> QED BY <1>1, <1>2, <2>1 DEF SoundTable, HeadsInUse
<1>5. LinksInUse(new)
  <2>1. Linked(ft) \subseteq Clusters
    BY DEF Linked
  <2> QED BY <1>1, <1>2, <2>1 DEF SoundTable, LinksInUse
<1>6. LinksDistinct(new)
  BY <1>1, ClusterNumbers DEF SoundTable, LinksDistinct
<1>7. Loose(d, new, c)
  BY <1>1, <1>2, <1>3, ClusterNumbers DEF Loose
<1>8. \A x \in Clusters : Loose(d, ft, x) => Loose(d, new, x) /\ x # c
  BY <1>1, <1>2 DEF Loose
<1> QED BY <1>4, <1>5, <1>6, <1>7, <1>8 DEF SoundTable, new

\* Pointing the last cluster of a chain to a loose one keeps the table sound.
LEMMA LinkKeepsSound ==
  ASSUME NEW d, NEW ft \in [Clusters -> Entries], NEW p \in Clusters, NEW c \in Clusters,
         SoundTable(d, ft), ft[p] = NoCluster, Loose(d, ft, c)
  PROVE  LET new == [ft EXCEPT ![p] = c]
         IN  /\ SoundTable(d, new)
             /\ \A x \in Clusters : Loose(d, ft, x) /\ x # c => Loose(d, new, x)
<1> DEFINE new == [ft EXCEPT ![p] = c]
<1>1. /\ new[p] = c
      /\ \A x \in Clusters : x # p => new[x] = ft[x]
      /\ \A x \in Clusters : ft[x] # Free => new[x] # Free
  BY ClusterNumbers
<1> HIDE DEF new
<1>2. Linked(new) \subseteq Linked(ft) \cup {c}
  BY <1>1 DEF Linked
<1>3. c \notin Heads(d) /\ c \notin Linked(ft) /\ ft[c] # Free
  BY DEF Loose
<1>4. HeadsInUse(d, new)
  <2>1. Heads(d) \subseteq Clusters
    BY DEF Heads
  <2> QED BY <1>1, <1>2, <1>3, <2>1 DEF SoundTable, HeadsInUse
<1>5. LinksInUse(new)
  <2>1. Linked(ft) \subseteq Clusters
    BY DEF Linked
  <2> QED BY <1>1, <1>2, <1>3, <2>1 DEF SoundTable, LinksInUse
<1>6. LinksDistinct(new)
  <2>1. \A x \in Clusters : ft[x] # c
    BY <1>3 DEF Linked
  <2> QED BY <1>1, <2>1 DEF SoundTable, LinksDistinct
<1>7. \A x \in Clusters : Loose(d, ft, x) /\ x # c => Loose(d, new, x)
  BY <1>1, <1>2 DEF Loose
<1> QED BY <1>4, <1>5, <1>6, <1>7 DEF SoundTable, new

(***************************************************************************)
(* The invariant, action by action.                                         *)
(***************************************************************************)

LEMMA IdleIsOperation == Idle \in Operation
<1>1. RootLen * S \in Nat \ {0}
  BY GeometryAssumption
<1>2. RootLen * S * R \in Nat \ {0}
  BY <1>1, GeometryAssumption
<1>3. 0 \in Slots
  BY <1>2 DEF Slots
<1> QED BY <1>3 DEF Idle, Operation, Entries, Unset, Free

LEMMA InitInv ==
  ASSUME Init, \A v \in Volumes : SoundVolume(v)
  PROVE  VolumeInv
<1>1. PICK v \in Volumes : dir = v.dir /\ dfat = v.fat /\ data = v.data
  BY DEF Init
<1>2. v.dir \in [Slots -> Record] /\ v.fat \in [Clusters -> Entries] /\ v.data \in [Clusters -> Marks]
  BY <1>1, VolumesAssumption DEF Volume
<1>3. Idle \in Operation
  BY IdleIsOperation
<1>4. TypeOK
  <2>1. fat \in [Clusters -> Entries]
    BY DEF Init, Entries
  <2> QED BY <1>1, <1>2, <1>3, <2>1, TablesAssumption DEF Init, TypeOK, Phases, Entries
<1>5. Sound /\ TailClear(dir)
  BY <1>1 DEF Sound, SoundVolume
<1>6. Mirror /\ SlotHeld /\ InFlight
  BY DEF Init, Mirror, Running, SlotHeld, InFlight, Allocating
<1>7. ~ uncovered
  BY DEF Init
<1> QED BY <1>4, <1>5, <1>6, <1>7 DEF VolumeInv

LEMMA MountInv == VolumeInv /\ Mount => VolumeInv'
<1> SUFFICES ASSUME VolumeInv, Mount PROVE VolumeInv'
  OBVIOUS
<1>1. /\ pc = "off" /\ UNCHANGED <<dir, dfat, data, op, cfgc, overrun, strayed, uncovered, parts>>
      /\ dfat \in [Clusters -> Entries]
  BY DEF Mount, disk, VolumeInv, TypeOK
<1>2. TailClear(dir)' /\ Sound' /\ ~ uncovered'
  BY <1>1 DEF VolumeInv, Sound
<1>3. CASE ReadTable
  <2>1. PICK junk \in [Unread -> Junk] : fat' = Loaded(dfat, junk)
    BY <1>3 DEF ReadTable
  <2>2. fat' \in [Clusters -> Entries] /\ Agree(fat', dfat)
    BY <1>1, <2>1, LoadedTable
  <2>3. pc' = "mounted"
    BY <1>3 DEF ReadTable
  <2>4. TypeOK'
    BY <1>1, <2>2, <2>3 DEF VolumeInv, TypeOK, Phases
  <2>5. Mirror'
    BY <1>1, <2>2 DEF Mirror, Running
  <2>6. SlotHeld' /\ InFlight'
    BY <1>1, <2>3 DEF SlotHeld, InFlight, Allocating
  <2> QED BY <1>2, <2>4, <2>5, <2>6 DEF VolumeInv
<1>4. CASE pc' \in {"lost", "panicked"} /\ UNCHANGED fat
  <2>1. TypeOK'
    BY <1>1, <1>4 DEF VolumeInv, TypeOK, Phases
  <2>2. SlotHeld' /\ InFlight'
    BY <1>1, <1>4 DEF SlotHeld, InFlight, Allocating
  <2> QED BY <1>2, <1>4, <2>1, <2>2 DEF VolumeInv, Mirror, Running
<1> QED BY <1>3, <1>4 DEF Mount

\* An allocation that begins takes the slot where a search stops.
LEMMA AllocateEffect ==
  ASSUME TypeOK, NEW name \in Names, NEW n \in Nat, Allocate(name, n), UNCHANGED dir
  PROVE  /\ pc' \in {"lost", "mark"} /\ op' \in Operation
         /\ pc' = "mark" => /\ op'.slot = Limit(dir)' /\ op'.head = Unset
                            /\ op'.prev = Unset
<1>1. Limit(dir)' = Limit(dir)
  OBVIOUS
<1>2. CASE Limit(dir) = Total
  BY <1>2 DEF Allocate, TypeOK
<1>3. CASE Limit(dir) # Total
  <2>1. Limit(dir) \in Slots
    BY <1>3, LimitIsFirst
  <2>2. /\ pc' = "mark"
        /\ op' = [name |-> name, size |-> n, left |-> n, slot |-> Limit(dir),
                  head |-> Unset, prev |-> Unset, cur |-> Unset]
    BY <1>3 DEF Allocate, Idle
  <2> QED BY <1>1, <2>1, <2>2 DEF Operation, Entries, Unset, Free
<1> QED BY <1>2, <1>3

\* An action that only begins an allocation, or ends up at rest.
LEMMA BeginInv ==
  ASSUME VolumeInv, UNCHANGED <<disk, fat, overrun, strayed, uncovered, parts>>, Running, pc' \in {"lost", "mark", "ready"},
         op' \in Operation, cfgc' \in Entries,
         pc' = "mark" => op'.slot = Limit(dir)' /\ op'.head = Unset /\ op'.prev = Unset
  PROVE  VolumeInv'
<1>1. TypeOK'
  BY DEF VolumeInv, TypeOK, Phases, disk
<1>2. TailClear(dir)' /\ Sound' /\ (~ strayed => Mirror')
  BY DEF VolumeInv, Sound, Mirror, Running, disk
<1>3. SlotHeld'
  BY DEF SlotHeld, Allocating
<1>4. InFlight'
  <2>1. Unset < W
    BY GeometryAssumption DEF Unset
  <2> QED BY <2>1, ClusterNumbers DEF InFlight, Allocating
<1> QED BY <1>1, <1>2, <1>3, <1>4 DEF VolumeInv

LEMMA InitConfigInv == VolumeInv /\ InitConfig => VolumeInv'
<1> SUFFICES ASSUME VolumeInv, InitConfig PROVE VolumeInv'
  OBVIOUS
<1> DEFINE found == FirstOf(Named(dir, Cfg))
<1>1. TypeOK /\ UNCHANGED <<disk, fat, overrun, strayed, uncovered, parts>> /\ UNCHANGED dir /\ pc = "mounted"
  BY DEF VolumeInv, InitConfig, disk
<1>2. CASE pc' = "ready" /\ cfgc' = dir[found].head /\ UNCHANGED op /\ found # Total
  <2>1. Named(dir, Cfg) \in SUBSET Slots
    BY DEF Named, Live
  <2>2. found \in Slots
    BY <1>2, <2>1, FirstOfIsFirst
  <2>3. dir[found].head \in Entries
    BY <1>1, <2>2 DEF TypeOK, Record
  <2> HIDE DEF found
  <2> QED BY <1>1, <1>2, <2>3, BeginInv DEF TypeOK, Running
<1>3. CASE Allocate(Cfg, 2) /\ UNCHANGED cfgc
  <2>1. /\ pc' \in {"lost", "mark"} /\ op' \in Operation
        /\ pc' = "mark" => op'.slot = Limit(dir)' /\ op'.head = Unset /\ op'.prev = Unset
    BY <1>1, <1>3, AllocateEffect, NamesAssumption
  <2>2. cfgc' \in Entries
    BY <1>1, <1>3 DEF TypeOK
  <2> QED BY <1>1, <2>1, <2>2, BeginInv DEF Running
<1> QED BY <1>2, <1>3 DEF InitConfig

LEMMA CreateInv ==
  ASSUME VolumeInv, NEW name \in Names, NEW n \in Sizes, Create(name, n)
  PROVE  VolumeInv'
<1>1. TypeOK /\ UNCHANGED <<disk, fat, overrun, strayed, uncovered, parts>> /\ UNCHANGED dir /\ pc = "ready" /\ UNCHANGED cfgc
  BY DEF VolumeInv, Create, disk
<1>2. n \in Nat
  BY SizesAssumption
<1>3. /\ pc' \in {"lost", "mark"} /\ op' \in Operation
      /\ pc' = "mark" => op'.slot = Limit(dir)' /\ op'.head = Unset /\ op'.prev = Unset
  BY <1>1, <1>2, AllocateEffect DEF Create
<1>4. cfgc' \in Entries
  BY <1>1 DEF TypeOK
<1> QED BY <1>1, <1>3, <1>4, BeginInv DEF Running

LEMMA MarkClusterInv == VolumeInv /\ MarkCluster => VolumeInv'
<1> SUFFICES ASSUME VolumeInv, MarkCluster PROVE VolumeInv'
  OBVIOUS
<1> DEFINE c == FirstFree(fat)
           new == [dfat EXCEPT ![c] = NoCluster]
<1>1. pc = "mark" /\ pc' = "blank" /\ UNCHANGED <<dir, data, cfgc, overrun, uncovered, parts>>
  BY DEF MarkCluster
<1>2. /\ fat \in [Clusters -> Entries] /\ dfat \in [Clusters -> Entries] /\ op \in Operation
      /\ strayed \in BOOLEAN
  BY DEF VolumeInv, TypeOK
<1>3. c \in Clusters /\ c \in Nat /\ fat[c] = Free
  BY FirstFreeIsFree, FirstSector DEF MarkCluster
<1>4. /\ fat' = [fat EXCEPT ![c] = NoCluster]
      /\ dfat' = SectorWritten(dfat, fat', c)
      /\ op' = [op EXCEPT !.cur = c]
      /\ strayed' = (strayed \/ c >= W)
  BY DEF MarkCluster
<1> HIDE DEF c
<1>5. fat' \in [Clusters -> Entries] /\ dfat' \in [Clusters -> Entries]
  <2>1. fat' \in [Clusters -> Entries]
    BY <1>2, <1>3, <1>4 DEF Entries
  <2> QED BY <2>1, <1>2, <1>4, SectorWrittenType
<1>6. op' \in Operation /\ op'.cur = c /\ op'.slot = op.slot /\ op'.head = op.head /\ op'.prev = op.prev
  BY <1>2, <1>3, <1>4 DEF Operation, Entries
<1>7. strayed' \in BOOLEAN
  BY <1>4
<1>8. TypeOK'
  BY <1>1, <1>5, <1>6, <1>7 DEF VolumeInv, TypeOK, Phases
<1>9. TailClear(dir)' /\ SlotHeld' /\ ~ uncovered'
  BY <1>1, <1>6 DEF VolumeInv, SlotHeld, Allocating
<1>10. CASE strayed'
  BY <1>8, <1>9, <1>10 DEF VolumeInv, Sound
<1>11. CASE ~ strayed'
  <2>1. ~ strayed /\ c < W
    <3>1. ~ strayed /\ ~ (c >= W)
      BY <1>4, <1>11
    <3>2. ~ (c >= W) => c < W
      BY <1>3, GeometryAssumption
    <3> QED BY <3>1, <3>2
  <2>2. /\ Agree(fat, dfat)
        /\ SoundTable(dir, dfat)
    BY <2>1, <1>1 DEF VolumeInv, Mirror, Running, Sound
  <2>3. dfat' = new /\ Agree(fat', new)
    <3>1. NoCluster \in Entries
      BY DEF Entries
    <3>2. /\ SectorWritten(dfat, [fat EXCEPT ![c] = NoCluster], c) = [dfat EXCEPT ![c] = NoCluster]
          /\ Agree([fat EXCEPT ![c] = NoCluster], [dfat EXCEPT ![c] = NoCluster])
      BY <3>1, <2>1, <2>2, <1>2, <1>3, OneEntryWritten
    <3> QED BY <3>2, <1>4
  <2>4. dfat[c] = Free
    BY <2>1, <2>2, <1>3 DEF Agree
  <2>5. /\ SoundTable(dir, new) /\ Loose(dir, new, c)
        /\ \A x \in Clusters : Loose(dir, dfat, x) => Loose(dir, new, x) /\ x # c
    BY <1>2, <1>3, <2>2, <2>4, MarkKeepsSound
  <2>6. /\ new[c] = NoCluster
        /\ \A x \in Clusters : x # c => new[x] = dfat[x]
    BY <1>2, <1>3
  <2> HIDE DEF new
  <2>7. Mirror' /\ Sound'
    BY <1>1, <2>3, <2>5 DEF Mirror, Running, Sound
  <2>8. InFlight'
    <3>1. op.head \in Clusters => Loose(dir, new, op.head) /\ op.head # c
      BY <1>1, <2>1, <2>5 DEF VolumeInv, InFlight, Allocating
    <3>2. op.prev \in Clusters => new[op.prev] = NoCluster /\ op.prev # c
      BY <1>1, <2>1, <2>4, <2>6, ClusterNumbers DEF VolumeInv, InFlight, Allocating
    <3>3. (op.head = Unset <=> op.prev = Unset) /\ op.prev < W
      BY <1>1, <2>1 DEF VolumeInv, InFlight, Allocating
    <3>4. c # Unset /\ c \notin {op.head, op.prev}
      BY <3>1, <3>2, <1>3, ClusterNumbers
    <3> QED BY <3>1, <3>2, <3>3, <3>4, <1>1, <1>3, <1>6, <2>1, <2>3, <2>5, <2>6 DEF InFlight, Allocating
  <2> QED BY <1>8, <1>9, <2>7, <2>8 DEF VolumeInv
<1> QED BY <1>10, <1>11

\* A wild write spares the directory and the table.
LEMMA WildWriteType ==
  ASSUME TypeOK, WildWrite
  PROVE  data' \in [Clusters -> Marks]
BY DEF TypeOK, WildWrite, Marks

LEMMA DiskFullInv == VolumeInv /\ DiskFull => VolumeInv'
<1> SUFFICES ASSUME VolumeInv, DiskFull PROVE VolumeInv'
  OBVIOUS
<1>1. /\ pc = "mark" /\ pc' = "blank" /\ UNCHANGED <<dir, dfat, fat, cfgc, strayed, uncovered, parts>> /\ overrun' = TRUE
      /\ op' = [op EXCEPT !.cur = NoCluster] /\ data' \in [Clusters -> Marks]
  BY WildWriteType DEF DiskFull, VolumeInv
<1>2. /\ op' \in Operation /\ op'.cur = NoCluster
      /\ op'.slot = op.slot /\ op'.head = op.head /\ op'.prev = op.prev
  BY <1>1 DEF VolumeInv, TypeOK, Operation, Entries
<1>3. TypeOK'
  BY <1>1, <1>2 DEF VolumeInv, TypeOK, Phases
<1>4. TailClear(dir)' /\ Sound' /\ SlotHeld' /\ (~ strayed => Mirror')
  BY <1>1, <1>2 DEF VolumeInv, Mirror, Running, Sound, SlotHeld, Allocating
<1>5. NoCluster < W
  BY GeometryAssumption DEF NoCluster
<1>6. ~ strayed => InFlight'
  BY <1>1, <1>2, <1>5, ClusterNumbers DEF VolumeInv, InFlight, Allocating
<1> QED BY <1>1, <1>3, <1>4, <1>6 DEF VolumeInv

\* What counting a cluster does to the operation.
LEMMA CountedOperation ==
  ASSUME NEW o \in Operation
  PROVE  /\ Counted(o) \in Operation
         /\ Counted(o).slot = o.slot /\ Counted(o).head = o.head
         /\ Counted(o).prev = o.cur /\ Counted(o).cur = o.cur
         /\ AfterCluster(Counted(o)) \in {"mark", "dir"}
<1>1. o.left - 1 \in Int
  BY DEF Operation
<1>2. Counted(o) \in Operation
  BY <1>1 DEF Counted, Operation
<1>3. /\ Counted(o).slot = o.slot /\ Counted(o).head = o.head
      /\ Counted(o).prev = o.cur /\ Counted(o).cur = o.cur
  BY DEF Counted, Operation
<1>4. AfterCluster(Counted(o)) \in {"mark", "dir"}
  BY DEF AfterCluster
<1> QED BY <1>2, <1>3, <1>4

LEMMA BlankClusterInv == VolumeInv /\ BlankCluster => VolumeInv'
<1> SUFFICES ASSUME VolumeInv, BlankCluster PROVE VolumeInv'
  OBVIOUS
<1>1. pc = "blank" /\ UNCHANGED <<dir, dfat, fat, cfgc, overrun, strayed, uncovered, parts>> /\ op \in Operation
  BY DEF BlankCluster, VolumeInv, TypeOK
<1>2. data' \in [Clusters -> Marks]
  <2>1. data \in [Clusters -> Marks] /\ [data EXCEPT ![op.cur] = "blank"] \in [Clusters -> Marks]
    BY DEF VolumeInv, TypeOK, Marks
  <2> QED BY <2>1 DEF BlankCluster
<1>3. TailClear(dir)' /\ Sound' /\ (~ strayed => Mirror')
  BY <1>1 DEF BlankCluster, VolumeInv, Mirror, Running, Sound, AfterCluster
<1>4. CASE op.head = Unset
  <2> DEFINE o == [op EXCEPT !.head = op.cur]
  <2>1. /\ o \in Operation /\ o.head = op.cur /\ o.cur = op.cur /\ o.slot = op.slot
    BY <1>1 DEF Operation
  <2>2. op' = Counted(o) /\ pc' = AfterCluster(op')
    BY <1>4 DEF BlankCluster
  <2> HIDE DEF o
  <2>3. /\ op' \in Operation /\ op'.slot = op.slot /\ op'.head = op.cur /\ op'.prev = op.cur
        /\ pc' \in {"mark", "dir"}
    BY <2>1, <2>2, CountedOperation
  <2>4. TypeOK'
    BY <1>1, <1>2, <2>3 DEF VolumeInv, TypeOK, Phases
  <2>5. SlotHeld'
    BY <1>1, <2>3 DEF VolumeInv, SlotHeld, Allocating
  <2>6. ~ strayed => InFlight'
    BY <1>1, <2>3 DEF VolumeInv, InFlight, Allocating
  <2> QED BY <1>1, <1>3, <2>4, <2>5, <2>6 DEF VolumeInv
<1>5. CASE op.head # Unset
  <2>1. pc' = "link" /\ op' = op
    BY <1>5 DEF BlankCluster
  <2>2. TypeOK' /\ SlotHeld' /\ (~ strayed => InFlight')
    BY <1>1, <1>2, <1>5, <2>1 DEF VolumeInv, TypeOK, Phases, SlotHeld, InFlight, Allocating
  <2> QED BY <1>1, <1>3, <2>2 DEF VolumeInv
<1> QED BY <1>4, <1>5

LEMMA LinkClusterInv == VolumeInv /\ LinkCluster => VolumeInv'
<1> SUFFICES ASSUME VolumeInv, LinkCluster PROVE VolumeInv'
  OBVIOUS
<1>1. /\ pc = "link" /\ UNCHANGED <<dir, cfgc, overrun, strayed, uncovered, parts>> /\ op \in Operation
      /\ op' = Counted(op) /\ pc' = AfterCluster(op')
      /\ fat \in [Clusters -> Entries] /\ dfat \in [Clusters -> Entries]
  BY DEF LinkCluster, VolumeInv, TypeOK
<1>2. /\ op' \in Operation /\ op'.slot = op.slot /\ op'.head = op.head
      /\ op'.prev = op.cur /\ op'.cur = op.cur /\ pc' \in {"mark", "dir"}
  BY <1>1, CountedOperation
<1>3. op.cur \in Entries /\ op.prev \in Entries
  BY <1>1 DEF Operation
<1>4. /\ fat' \in [Clusters -> Entries] /\ dfat' \in [Clusters -> Entries]
      /\ data' \in [Clusters -> Marks]
  <2>1. CASE op.prev = NoCluster
    BY <2>1, <1>1, WildWriteType DEF LinkCluster, VolumeInv
  <2>2. CASE op.prev # NoCluster
    <3>1. fat' = [fat EXCEPT ![op.prev] = op.cur] /\ data' = data
          /\ dfat' = SectorWritten(dfat, fat', op.prev)
      BY <2>2 DEF LinkCluster
    <3>2. fat' \in [Clusters -> Entries]
      BY <3>1, <1>1, <1>3
    <3>3. data' \in [Clusters -> Marks]
      BY <3>1 DEF VolumeInv, TypeOK
    <3> QED BY <3>1, <3>2, <3>3, <1>1, SectorWrittenType
  <2> QED BY <2>1, <2>2
<1>5. TypeOK'
  BY <1>1, <1>2, <1>4 DEF VolumeInv, TypeOK, Phases
<1>6. TailClear(dir)' /\ SlotHeld' /\ ~ uncovered'
  BY <1>1, <1>2 DEF VolumeInv, SlotHeld, Allocating
<1>7. CASE strayed
  BY <1>1, <1>5, <1>6, <1>7 DEF VolumeInv, Sound
<1>8. CASE ~ strayed
  <2>1. /\ op.prev # Unset /\ op.head # Unset /\ op.cur # Unset
        /\ op.prev < W /\ op.cur < W
        /\ op.head \in Clusters => Loose(dir, dfat, op.head)
        /\ op.prev \in Clusters => dfat[op.prev] = NoCluster
        /\ op.cur \in Clusters =>
              Loose(dir, dfat, op.cur) /\ dfat[op.cur] = NoCluster /\ op.cur # op.head /\ op.cur # op.prev
    BY <1>1, <1>8 DEF VolumeInv, InFlight, Allocating
  <2>2. SoundTable(dir, dfat) /\ Agree(fat, dfat)
    BY <1>1, <1>8 DEF VolumeInv, Mirror, Running, Sound
  <2>3. op.prev \in Clusters \/ op.prev = NoCluster
    BY <1>3, <2>1 DEF Entries, Unset, Free
  <2>4. op.cur \in Clusters \/ op.cur = NoCluster
    BY <1>3, <2>1 DEF Entries, Unset, Free
  <2>5. /\ SoundTable(dir, dfat') /\ Agree(fat', dfat')
        /\ op.head \in Clusters => Loose(dir, dfat', op.head)
        /\ op.cur \in Clusters => dfat'[op.cur] = NoCluster
    <3>1. CASE op.prev = NoCluster
      BY <3>1, <2>1, <2>2 DEF LinkCluster
    <3>2. CASE op.prev \in Clusters
      <4> DEFINE new == [dfat EXCEPT ![op.prev] = op.cur]
      <4>1. dfat' = new /\ Agree(fat', new)
        <5>1. fat' = [fat EXCEPT ![op.prev] = op.cur] /\ dfat' = SectorWritten(dfat, fat', op.prev)
          BY <3>2, ClusterNumbers DEF LinkCluster
        <5>2. /\ SectorWritten(dfat, [fat EXCEPT ![op.prev] = op.cur], op.prev) = new
              /\ Agree([fat EXCEPT ![op.prev] = op.cur], new)
          <6> DEFINE p == op.prev
                     x == op.cur
          <6>1. p \in Clusters /\ p < W /\ x \in Entries
            BY <3>2, <2>1, <1>3
          <6> HIDE DEF p, x
          <6>2. /\ SectorWritten(dfat, [fat EXCEPT ![p] = x], p) = [dfat EXCEPT ![p] = x]
                /\ Agree([fat EXCEPT ![p] = x], [dfat EXCEPT ![p] = x])
            BY <6>1, <2>2, <1>1, OneEntryWritten
          <6> QED BY <6>2 DEF p, x
        <5> QED BY <5>1, <5>2
      <4>2. CASE op.cur = NoCluster
        <5>1. new = dfat
          BY <4>2, <3>2, <2>1, <1>1
        <5> HIDE DEF new
        <5> QED BY <4>1, <4>2, <5>1, <2>1, <2>2, ClusterNumbers
      <4>3. CASE op.cur \in Clusters
        <5>1. SoundTable(dir, new) /\ \A x \in Clusters : Loose(dir, dfat, x) /\ x # op.cur => Loose(dir, new, x)
          BY <4>3, <3>2, <2>1, <2>2, <1>1, LinkKeepsSound
        <5>2. new[op.cur] = NoCluster
          BY <4>3, <3>2, <2>1, <1>1
        <5> HIDE DEF new
        <5> QED BY <4>1, <4>3, <5>1, <5>2, <2>1
      <4> QED BY <4>2, <4>3, <2>4
    <3> QED BY <3>1, <3>2, <2>3
  <2>6. Mirror' /\ Sound'
    BY <1>1, <2>5 DEF Mirror, Running, Sound
  <2>7. InFlight'
    BY <1>1, <1>2, <2>1, <2>5 DEF InFlight, Allocating
  <2> QED BY <1>5, <1>6, <2>6, <2>7 DEF VolumeInv
<1> QED BY <1>7, <1>8

\* Back from an allocation: nothing is in flight.
LEMMA ReturnEffect ==
  ASSUME TypeOK, Idle \in Operation, Return
  PROVE  /\ pc' = "ready" /\ op' \in Operation /\ cfgc' \in Entries
         /\ SlotHeld' /\ InFlight'
<1>1. pc' = "ready" /\ op' \in Operation /\ cfgc' \in Entries
  BY DEF Return, TypeOK, Operation
<1>2. SlotHeld' /\ InFlight'
  BY <1>1 DEF SlotHeld, InFlight, Allocating
<1> QED BY <1>1, <1>2

\* The directory as it is written keeps its type.
LEMMA FilledType ==
  ASSUME NEW d \in [Slots -> Record], NEW o \in Operation
  PROVE  Filled(d, o) \in [Slots -> Record]
<1>1. [end |-> FALSE, lfn |-> FALSE, name |-> o.name, head |-> o.head] \in Record
  BY DEF Operation, Record
<1>2. \A s \in Slots : [d[s] EXCEPT !.end = TRUE] \in Record
  BY DEF Record
<1>3. \A s \in Slots : d[s] \in Record
  OBVIOUS
<1> HIDE DEF Record
<1> QED BY <1>1, <1>2, <1>3 DEF Filled

LEMMA CopiedType ==
  ASSUME NEW d \in [Slots -> Record], NEW o \in Operation, SectorEnd(o.slot)
  PROVE  Copied(d, o) \in [Slots -> Record]
<1> DEFINE f == Filled(d, o)
<1>1. f \in [Slots -> Record]
  BY FilledType
<1> HIDE DEF f
<1>2. o.slot \in Slots /\ R \in Nat /\ R > 0 /\ R - 1 <= o.slot
  <2>1. o.slot \in Slots /\ o.slot \in Nat
    BY TotalIsNat DEF Operation
  <2> QED BY <2>1, GeometryAssumption, SectorEndNotBefore
<1>3. \A s \in Slots : s > o.slot /\ s <= o.slot + R => s - R \in Slots
  BY <1>2, TotalIsNat
<1>4. \A s \in Slots : [f[s] EXCEPT !.end = TRUE] \in Record /\ f[s] \in Record /\ d[s] \in Record
  BY <1>1 DEF Record
<1>5. ASSUME NEW s \in Slots PROVE Copied(d, o)[s] \in Record
  <2>1. Copied(d, o)[s] =
          IF s = o.slot + 1 THEN [f[s - R] EXCEPT !.end = TRUE]
          ELSE IF s > o.slot + 1 /\ s <= o.slot + R THEN f[s - R]
          ELSE d[s]
    BY DEF Copied, f
  <2>2. s = o.slot + 1 => s > o.slot /\ s <= o.slot + R
    BY <1>2, TotalIsNat
  <2>3. s > o.slot + 1 => s > o.slot
    BY <1>2, TotalIsNat
  <2> QED BY <2>1, <2>2, <2>3, <1>3, <1>4
<1>6. Copied(d, o) = [s \in Slots |-> Copied(d, o)[s]]
  BY DEF Copied
<1> QED BY <1>5, <1>6

\* Behind the sector of the terminal there are only terminals, so a new record at
\* the end of a cluster has one behind it.
LEMMA NothingUncovered ==
  ASSUME NEW n \in Slots, n = Limit(dir), TailClear(dir)
  PROVE  ~ Uncovers(n)
<1> SUFFICES ASSUME SectorEnd(n), n + 1 \in Slots
             PROVE  dir[n + 1].end /\ ~ dir[n + 1].lfn
  BY DEF Uncovers, ClusterEnd, Terminal
<1>1. n \in Nat /\ Slots \subseteq Nat
  BY TotalIsNat
<1>2. EndBetween(n, n + 1)
  BY <1>1 DEF EndBetween
<1>3. ~ EndBetween(n + 1, n)
  BY <1>1 DEF EndBetween
<1> QED BY <1>2, <1>3 DEF TailClear, ClearFrom

LEMMA WriteDirInv == VolumeInv /\ WriteDir => VolumeInv'
<1> SUFFICES ASSUME VolumeInv, WriteDir PROVE VolumeInv'
  OBVIOUS
<1>1. /\ pc = "dir" /\ UNCHANGED <<dfat, data, fat, overrun, strayed, parts>> /\ TypeOK
      /\ uncovered' = (uncovered \/ Uncovers(op.slot)) /\ ~ uncovered
      /\ op \in Operation /\ dir \in [Slots -> Record]
  BY DEF WriteDir, VolumeInv, TypeOK
<1>2. dir' = Filled(dir, op)
  BY DEF WriteDir
<1>3. op.slot = Limit(dir) /\ op.slot \in Slots /\ TailClear(dir)
  BY <1>1 DEF VolumeInv, SlotHeld, Allocating, Operation
<1>4. Limit(dir') = op.slot + 1 /\ TailClear(dir') /\ ClearFrom(dir', op.slot)
  BY <1>1, <1>2, <1>3, FilledDirectory
<1>5. dir' \in [Slots -> Record]
  BY <1>1, <1>2, FilledType
<1>6. ~ strayed => SoundTable(dir', dfat)
  <2> SUFFICES ASSUME ~ strayed PROVE SoundTable(dir', dfat)
    OBVIOUS
  <2>1. \A s \in Live(Filled(dir, op)) :
           \/ s \in Live(dir) /\ Filled(dir, op)[s].head = dir[s].head
           \/ s = op.slot /\ Filled(dir, op)[s].head = op.head
    BY <1>1, <1>3, FilledLive
  <2>2. op.head \in Clusters => Loose(dir, dfat, op.head)
    BY <1>1 DEF VolumeInv, InFlight, Allocating
  <2>3. SoundTable(dir, dfat)
    BY DEF VolumeInv, Sound
  <2>4. SoundTable(Filled(dir, op), dfat)
    BY <2>1, <2>2, <2>3, NewFileSound
  <2> QED BY <2>4, <1>2
<1>7. Sound' /\ TailClear(dir)' /\ ~ uncovered'
  BY <1>1, <1>3, <1>4, <1>6, NothingUncovered DEF Sound
<1>8. CASE SectorEnd(op.slot) /\ pc' = "copy" /\ UNCHANGED <<op, cfgc>>
  <2>1. TypeOK'
    BY <1>1, <1>5, <1>8 DEF TypeOK, Phases
  <2>2. Filled(dir', op) = dir'
    <3> SUFFICES Filled(Filled(dir, op), op) = Filled(dir, op)
      BY <1>2
    <3> QED BY <1>1, <1>8 DEF Filled
  <2>3. SlotHeld'
    BY <1>4, <1>8, <2>2 DEF SlotHeld, Allocating
  <2>4. ~ strayed => Mirror' /\ InFlight'
    BY <1>1, <1>8 DEF VolumeInv, Mirror, Running, InFlight, Allocating
  <2> QED BY <1>1, <1>7, <2>1, <2>3, <2>4 DEF VolumeInv
<1>9. CASE Return
  <2>1. pc' = "ready" /\ op' \in Operation /\ cfgc' \in Entries /\ SlotHeld' /\ InFlight'
    BY <1>1, <1>9, ReturnEffect, IdleIsOperation
  <2>2. TypeOK' /\ (~ strayed => Mirror')
    BY <1>1, <1>5, <2>1 DEF VolumeInv, TypeOK, Phases, Mirror, Running
  <2> QED BY <1>1, <1>7, <2>1, <2>2 DEF VolumeInv
<1> QED BY <1>8, <1>9 DEF WriteDir

LEMMA CopySectorInv == VolumeInv /\ CopySector => VolumeInv'
<1> SUFFICES ASSUME VolumeInv, CopySector PROVE VolumeInv'
  OBVIOUS
<1>1. /\ pc = "copy" /\ UNCHANGED <<dfat, data, fat, overrun, strayed, uncovered, parts>> /\ TypeOK
      /\ op \in Operation /\ dir \in [Slots -> Record] /\ op.slot \in Slots
  BY DEF CopySector, VolumeInv, TypeOK, Operation
<1>2. dir' = Copied(dir, op)
  BY DEF CopySector
<1>3. /\ op.slot + 1 = Limit(dir) /\ SectorEnd(op.slot) /\ Filled(dir, op) = dir
      /\ ClearFrom(dir, op.slot) /\ TailClear(dir) /\ (~ strayed => SoundTable(dir, dfat))
  BY <1>1 DEF VolumeInv, SlotHeld, Sound
<1>4. TailClear(dir') /\ dir' \in [Slots -> Record]
  BY <1>1, <1>2, <1>3, CopiedDirectory, CopiedType
<1>5. ~ strayed => SoundTable(dir', dfat)
  <2>1. \A s \in Live(dir') : s \in Live(dir) /\ dir'[s] = dir[s]
    BY <1>1, <1>2, <1>3, CopiedLive
  <2> QED BY <2>1, <1>3, FewerFilesSound
<1>6. pc' = "ready" /\ op' \in Operation /\ cfgc' \in Entries /\ SlotHeld' /\ InFlight'
  BY <1>1, ReturnEffect, IdleIsOperation DEF CopySector
<1>7. TypeOK' /\ TailClear(dir)' /\ Sound' /\ (~ strayed => Mirror')
  BY <1>1, <1>4, <1>5, <1>6 DEF VolumeInv, TypeOK, Phases, Mirror, Running, Sound
<1> QED BY <1>1, <1>6, <1>7 DEF VolumeInv

LEMMA WriteConfigInv == VolumeInv /\ WriteConfig => VolumeInv'
<1> SUFFICES ASSUME VolumeInv, WriteConfig PROVE VolumeInv'
  OBVIOUS
<1>1. /\ pc = "ready" /\ UNCHANGED <<dir, dfat, fat, pc, op, cfgc, overrun, strayed, uncovered, parts>>
      /\ data' = [data EXCEPT ![cfgc] = "config"]
  BY DEF WriteConfig
<1>2. TypeOK'
  BY <1>1 DEF VolumeInv, TypeOK, Marks
<1>3. TailClear(dir)' /\ Sound' /\ SlotHeld' /\ (~ strayed => Mirror' /\ InFlight')
  BY <1>1 DEF VolumeInv, Mirror, Running, Sound, SlotHeld, InFlight, Allocating
<1> QED BY <1>1, <1>2, <1>3 DEF VolumeInv

LEMMA RestartInv == VolumeInv /\ Restart => VolumeInv'
<1> SUFFICES ASSUME VolumeInv, Restart PROVE VolumeInv'
  OBVIOUS
<1>1. pc' = "off" /\ op' = Idle /\ cfgc' = NoCluster /\ UNCHANGED <<disk, overrun, strayed, uncovered, parts>>
  BY DEF Restart
<1>2. fat' \in [Clusters -> Entries]
  BY DEF Restart, Entries
<1>3. TypeOK'
  BY <1>1, <1>2, IdleIsOperation DEF VolumeInv, TypeOK, Phases, Entries, disk
<1>4. Mirror' /\ TailClear(dir)' /\ Sound' /\ SlotHeld' /\ InFlight'
  BY <1>1 DEF VolumeInv, Mirror, Running, Sound, SlotHeld, InFlight, Allocating, disk
<1> QED BY <1>1, <1>3, <1>4 DEF VolumeInv

(***************************************************************************)
(* The theorems.                                                            *)
(***************************************************************************)

\* The invariant holds at every instant, whatever the power does, as long as
\* the card comes with sound volumes and no sector write fails unnoticed
\* (alloc_local_file_at's order of writes: the table first, the record last).
THEOREM VolumeInvariance ==
  ASSUME \A v \in Volumes : SoundVolume(v)
  PROVE  Spec => []VolumeInv
<1>1. Init => VolumeInv
  BY InitInv
<1>2. VolumeInv /\ [Next]_vars => VolumeInv'
  <2> SUFFICES ASSUME VolumeInv, [Next]_vars PROVE VolumeInv'
    OBVIOUS
  <2>1. CASE Mount
    BY <2>1, MountInv
  <2>2. CASE InitConfig
    BY <2>2, InitConfigInv
  <2>3. ASSUME NEW name \in Names \ {Cfg}, NEW n \in Sizes, Create(name, n) PROVE VolumeInv'
    BY <2>3, CreateInv
  <2>4. CASE MarkCluster
    BY <2>4, MarkClusterInv
  <2>5. CASE DiskFull
    BY <2>5, DiskFullInv
  <2>6. CASE BlankCluster
    BY <2>6, BlankClusterInv
  <2>7. CASE LinkCluster
    BY <2>7, LinkClusterInv
  <2>8. CASE WriteDir
    BY <2>8, WriteDirInv
  <2>9. CASE CopySector
    BY <2>9, CopySectorInv
  <2>10. CASE WriteConfig
    BY <2>10, WriteConfigInv
  <2>11. CASE Restart
    BY <2>11, RestartInv
  <2>12. CASE UNCHANGED vars
    BY <2>12 DEF vars, disk, VolumeInv, TypeOK, Mirror, Running, SlotHeld, Sound, InFlight, Allocating
  <2> QED BY <2>1, <2>2, <2>3, <2>4, <2>5, <2>6, <2>7, <2>8, <2>9, <2>10, <2>11, <2>12 DEF Next, Work
<1> QED BY <1>1, <1>2, PTL DEF Spec

\* No cluster of the card is ever shared by two files or by a file and the free
\* ones: a loss of power in the middle of fat32_alloc_local_file can only leave
\* clusters that belong to nobody.
THEOREM SoundHolds ==
  ASSUME \A v \in Volumes : SoundVolume(v)
  PROVE  Spec => []Sound
<1>1. VolumeInv => Sound
  BY DEF VolumeInv
<1> QED BY <1>1, VolumeInvariance, PTL

\* A pi that runs has found one partition in use, and it fits.
Chosen ==
    /\ parts \in Table
    /\ Running => \E i \in 0 .. 3 : InUse = {i} /\ parts[i] = "fits"

LEMMA ChosenStep ==
  ASSUME Chosen, [Next]_vars
  PROVE  Chosen' /\ (disk' # disk => Running)
<1> DEFINE Went == Running /\ UNCHANGED parts
<1>1. Went => Chosen' /\ (disk' # disk => Running)
  BY DEF Chosen, InUse
<1>2. CASE Mount
  <2>1. UNCHANGED <<disk, parts>>
    BY <1>2 DEF Mount
  <2>2. CASE pc' \in {"lost", "panicked"}
    BY <2>1, <2>2 DEF Chosen, Running
  <2>3. CASE \E i \in InUse : InUse = {i} /\ parts[i] = "fits"
    <3>1. InUse \subseteq 0 .. 3
      BY DEF InUse, Chosen, Table
    <3> QED BY <2>1, <2>3, <3>1 DEF Chosen, InUse
  <2> QED BY <1>2, <2>2, <2>3 DEF Mount
<1>3. CASE Restart
  <2>1. pc' = "off" /\ UNCHANGED <<disk, parts>>
    BY <1>3 DEF Restart
  <2> QED BY <2>1 DEF Chosen, Running
<1>4. CASE UNCHANGED vars
  BY <1>4 DEF vars, Chosen, Running, InUse
<1>5. ASSUME NEW name \in Names, NEW n \in Sizes, Create(name, n) PROVE Went
  BY <1>5 DEF Create, Running
<1>6. InitConfig => Went
  BY DEF InitConfig, Running
<1>7. MarkCluster \/ DiskFull => Went
  BY DEF MarkCluster, DiskFull, Running
<1>8. BlankCluster \/ LinkCluster => Went
  BY DEF BlankCluster, LinkCluster, Running
<1>9. WriteDir \/ CopySector \/ WriteConfig => Went
  BY DEF WriteDir, CopySector, WriteConfig, Running
<1> HIDE DEF Went
<1> QED BY <1>1, <1>2, <1>3, <1>4, <1>5, <1>6, <1>7, <1>8, <1>9 DEF Next, Work

\* No card is ever written unless its table has one partition in use whose
\* sectors are the driver's: fat32_init's two panics come before any write, and
\* a start of the pi takes the choice of the one before with it.
THEOREM OnlyItsVolumeHolds == Spec => OnlyItsVolume
<1>1. Init => Chosen
  BY TablesAssumption DEF Init, Chosen, Running
<1>2. Chosen /\ [Next]_vars =>
        Chosen' /\ [disk' # disk => \E i \in 0 .. 3 : InUse = {i} /\ parts[i] = "fits"]_vars
  BY ChosenStep DEF Chosen
<1> QED BY <1>1, <1>2, PTL DEF Spec, OnlyItsVolume
=============================================================================
